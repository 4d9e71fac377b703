------------------------------ MODULE LudoHub ------------------------------
(***************************************************************************)
(* The hub (internal/ws/hub.go), the connections of its clients            *)
(* (client.go), and what they touch of the rooms and of the manager that   *)
(* creates them: the channel of messages, the mutex, and who is shown as   *)
(* connected.                                                              *)
(*                                                                         *)
(* The processes are the hub's loop, a read pump for every connection and  *)
(* a room's goroutines, of which the room's mutex lets in one at a time.   *)
(* They meet in the channels register and unregister, in the rooms'        *)
(* channels, and in two kinds of locks: Hub.mu and Room.mu.  A lock that   *)
(* is taken and released without waiting for anything in between is part   *)
(* of a single step; the others are held by a process while it is at       *)
(* certain stages.                                                         *)
(*                                                                         *)
(* Client.RoomID is written by its read pump without a lock while others   *)
(* read it.  A string is two words: a reader between the two stores may    *)
(* see a length without a pointer, and the process is gone.                *)
(*                                                                         *)
(* A connection is never reused; room codes do not collide; rooms are not  *)
(* removed (RemoveRoom is called by nobody).  Contents of messages to the  *)
(* clients are left out, and so are the ones dropped by a full buffer.     *)
(***************************************************************************)
EXTENDS Integers, Sequences, FiniteSets

CONSTANTS
  Player, Session, PlayerOf,  \* connections, and whose they are
  Room,                       \* rooms, by their codes
  None, HubLoop,
  QueueCap,                   \* capacity of a room's channel
  MaxRead                     \* bound: messages of all clients

ASSUME HubAssumption ==
  /\ PlayerOf \in [Session -> Player]
  /\ None \notin Room \cup Session /\ HubLoop \notin Room \cup Session
  /\ Room \cap Session = {}
  /\ QueueCap \in Nat \ {0} /\ MaxRead \in Nat

VARIABLES
  pc,          \* the stage of every process
  registered,  \* Hub.clients
  roomOf,      \* Client.RoomID
  hosted,      \* Hub.rooms
  read,        \* messages the clients have sent so far
  messages,    \* Room.messages
  shown,       \* PlayerSession.IsConnected of a room's players
  crashed

vars == <<pc, registered, roomOf, hosted, read, messages, shown, crashed>>

Process == Session \cup Room \cup {HubLoop}

\* A stage, with the session and the room it is about.
Stage(at, who, room) == [at |-> at, who |-> who, room |-> room]
At(x, at) == pc[x].at = at
Goto(x, at, who, room) == pc' = [pc EXCEPT ![x] = Stage(at, who, room)]
Rest(x) == Goto(x, "idle", None, None)

-----------------------------------------------------------------------------
(* Locks.                                                                  *)

\* A plausible slip: the hub notifies rooms while it still holds its lock.
HubLocked_ThroughNotice == pc[HubLoop].at \notin {"idle", "register", "unregister"}

\* The hub's loop holds Hub.mu while it changes the map of clients.
HubLocked == pc[HubLoop].at \in {"registered", "unregistered"}

\* A handler holds Room.mu until it has told the clients.
RoomLocked(r) == At(r, "handling")

\* Who tells the clients of a disconnection holds Room.mu for reading.
RoomReaders(r) == {x \in Session \cup {HubLoop} : At(x, "broadcasting") /\ pc[x].room = r}

\* Somebody else's RoomID is half written: a first room, or none any more.
Torn(s) == At(s, "clearing") \/ (At(s, "storing") /\ roomOf[s] = None)

\* Reading the RoomID of others, with the stage that follows.
ReadRoomIDs(readers, next) ==
  \/ next /\ UNCHANGED crashed
  \/ /\ \E s \in readers : Torn(s)
     /\ crashed' = TRUE /\ UNCHANGED pc

\* BroadcastToRoom and SendToPlayer look at every client.
Broadcast(x, next) == ~HubLocked /\ ReadRoomIDs(registered \ {x}, next)

-----------------------------------------------------------------------------
(* HandlePlayerDisconnect, run by the hub's loop and by read pumps.         *)

MarkDisconnected(r, p) ==
  shown' = [shown EXCEPT ![r][p] = IF @ = "connected" THEN "disconnected" ELSE @]

\* A plausible slip: the clients are told without the mutex.
LockForReading_Unlocked(x) ==
  /\ At(x, "announcing")
  /\ Goto(x, "broadcasting", pc[x].who, pc[x].room)
  /\ UNCHANGED <<registered, roomOf, hosted, read, messages, shown, crashed>>

\* The flag is set under the mutex, which is released ..
StartNotice(x) ==
  LET r == pc[x].room
  IN  /\ At(x, "leaving")
      /\ ~RoomLocked(r) /\ RoomReaders(r) = {}
      /\ MarkDisconnected(r, PlayerOf[pc[x].who])
      /\ Goto(x, "announcing", pc[x].who, r)
      /\ UNCHANGED <<registered, roomOf, hosted, read, messages, crashed>>

\* .. and taken again for reading ..
LockForReading(x) ==
  /\ At(x, "announcing")
  /\ ~RoomLocked(pc[x].room)
  /\ Goto(x, "broadcasting", pc[x].who, pc[x].room)
  /\ UNCHANGED <<registered, roomOf, hosted, read, messages, shown, crashed>>

\* .. while the clients are told.
EndNotice(x, next) ==
  /\ At(x, "broadcasting")
  /\ Broadcast(x, next)
  /\ UNCHANGED <<registered, roomOf, hosted, read, messages, shown>>

-----------------------------------------------------------------------------
(* The hub's loop (Run).  Who sends on its channels goes on as soon as the  *)
(* loop receives, before anything has happened.                            *)

ReceiveRegister(s) ==
  /\ At(HubLoop, "idle") /\ At(s, "new")
  /\ pc' = [pc EXCEPT ![HubLoop] = Stage("register", s, None),
                      ![s]       = Stage("idle", None, None)]
  /\ UNCHANGED <<registered, roomOf, hosted, read, messages, shown, crashed>>

\* The older sessions of the same player.
OlderSessions(s) == {t \in registered : PlayerOf[t] = PlayerOf[s] /\ t # s}

\* The first of them that is found is kicked.
Register(s) ==
  IF OlderSessions(s) = {}
  THEN /\ registered' = registered \cup {s}
       /\ Goto(HubLoop, "registered", None, None)
  ELSE \E old \in OlderSessions(s) :
         /\ registered' = (registered \ {old}) \cup {s}
         /\ Goto(HubLoop, "registered", old, None)

ReceiveUnregister(s) ==
  /\ At(HubLoop, "idle") /\ At(s, "closing")
  /\ pc' = [pc EXCEPT ![HubLoop] = Stage("unregister", s, None),
                      ![s]       = Stage("closed", None, None)]
  /\ UNCHANGED <<registered, roomOf, hosted, read, messages, shown, crashed>>

\* A plausible slip: whatever session the player has is unregistered.
Unregister_ByPlayer(s) ==
  /\ registered' = {t \in registered : PlayerOf[t] # PlayerOf[s]}
  /\ IF s \in registered /\ roomOf[s] \in hosted
     THEN Goto(HubLoop, "unregistered", s, roomOf[s])
     ELSE Goto(HubLoop, "unregistered", None, None)

\* A plausible slip: nobody is told of a session that has ended.
Unregister_NoNotice(s) ==
  /\ registered' = registered \ {s}
  /\ Goto(HubLoop, "unregistered", None, None)

\* Nothing happens to the session of a player who has been kicked before.
Unregister(s) ==
  /\ registered' = registered \ {s}
  /\ IF s \in registered /\ roomOf[s] \in hosted
     THEN Goto(HubLoop, "unregistered", s, roomOf[s])
     ELSE Goto(HubLoop, "unregistered", None, None)

\* Hub.mu is free: nobody holds it while waiting for something else.
UpdateClients ==
  /\ \/ At(HubLoop, "register") /\ Register(pc[HubLoop].who)
     \/ At(HubLoop, "unregister") /\ Unregister(pc[HubLoop].who)
  /\ UNCHANGED <<roomOf, hosted, read, messages, shown, crashed>>

\* Hub.mu is released.  The room of a kicked session is read only now.
UnlockHub ==
  LET old == pc[HubLoop].who
      KickedRoom == roomOf[old] \in hosted
  IN  /\ \/ At(HubLoop, "unregistered") /\ UNCHANGED crashed
            /\ IF old = None THEN Rest(HubLoop) ELSE Goto(HubLoop, "leaving", old, pc[HubLoop].room)
         \/ At(HubLoop, "registered") /\ old = None /\ Rest(HubLoop) /\ UNCHANGED crashed
         \/ At(HubLoop, "registered") /\ old # None
            /\ ReadRoomIDs({old}, IF KickedRoom THEN Goto(HubLoop, "leaving", old, roomOf[old])
                                  ELSE Rest(HubLoop))
      /\ UNCHANGED <<registered, roomOf, hosted, read, messages, shown>>

HubStep ==
  \/ \E s \in Session : ReceiveRegister(s) \/ ReceiveUnregister(s)
  \/ UpdateClients
  \/ UnlockHub
  \/ StartNotice(HubLoop) \/ LockForReading(HubLoop) \/ EndNotice(HubLoop, Rest(HubLoop))

-----------------------------------------------------------------------------
(* A connection: handleWebSocket and the read pump, which hands each        *)
(* message to HandleMessage.  A kicked session's pump reads on.             *)

\* One more message.  The bound is not the code's.
Reading == read < MaxRead /\ read' = read + 1

\* handleJoinRoom finds the room ..
ReadJoin(s) ==
  /\ At(s, "idle") /\ ~HubLocked
  /\ \E r \in hosted : Goto(s, "storing", None, r)
  /\ Reading
  /\ UNCHANGED <<registered, roomOf, hosted, messages, shown, crashed>>

\* .. and notes it before it passes the message on.
StoreRoom(s) ==
  /\ At(s, "storing")
  /\ roomOf' = [roomOf EXCEPT ![s] = pc[s].room]
  /\ Goto(s, "joining", None, pc[s].room)
  /\ UNCHANGED <<registered, hosted, read, messages, shown, crashed>>

\* Every other message goes to the client's room.
ReadOther(s) ==
  /\ At(s, "idle") /\ ~HubLocked
  /\ roomOf[s] \in hosted
  /\ Goto(s, "sending", None, roomOf[s])
  /\ Reading
  /\ UNCHANGED <<registered, roomOf, hosted, messages, shown, crashed>>

\* HandlePlayerMessage waits for a place in the channel.
Enqueue(s) ==
  LET r == pc[s].room
  IN  /\ At(s, "joining") \/ At(s, "sending")
      /\ Len(messages[r]) < QueueCap
      /\ messages' = [messages EXCEPT
           ![r] = Append(@, [from |-> PlayerOf[s], join |-> At(s, "joining")])]
      /\ Rest(s)
      /\ UNCHANGED <<registered, roomOf, hosted, read, shown, crashed>>

\* handleLeaveRoom tells the room, and then forgets it.
ReadLeave(s) ==
  /\ At(s, "idle") /\ ~HubLocked
  /\ roomOf[s] \in hosted
  /\ Goto(s, "leaving", s, roomOf[s])
  /\ Reading
  /\ UNCHANGED <<registered, roomOf, hosted, messages, shown, crashed>>

ForgetRoom(s) ==
  /\ At(s, "clearing")
  /\ roomOf' = [roomOf EXCEPT ![s] = None]
  /\ Rest(s)
  /\ UNCHANGED <<registered, hosted, read, messages, shown, crashed>>

ConnectionEnds(s) ==
  /\ At(s, "idle")
  /\ Goto(s, "closing", None, None)
  /\ UNCHANGED <<registered, roomOf, hosted, read, messages, shown, crashed>>

\* What a client does, and what its pump does by itself after that.
ClientStep(s) == ReadJoin(s) \/ ReadOther(s) \/ ReadLeave(s) \/ ConnectionEnds(s)
PumpStep(s) ==
  \/ StoreRoom(s) \/ Enqueue(s) \/ ForgetRoom(s)
  \/ StartNotice(s) \/ LockForReading(s) \/ EndNotice(s, Goto(s, "clearing", None, None))

-----------------------------------------------------------------------------
(* A room, seen from here: handlers of messages and of the turn timer take  *)
(* the mutex and tell the clients.  Whether a player is let in is LudoRoom's *)
(* concern.                                                                *)

\* The manager notes the room and registers it with the hub (CreateRoom).
CreateRoom(r) ==
  /\ r \notin hosted /\ ~HubLocked
  /\ hosted' = hosted \cup {r}
  /\ UNCHANGED <<pc, registered, roomOf, read, messages, shown, crashed>>

\* A player already in the room stays as he is shown.
LetIn(r, p) ==
  \/ UNCHANGED shown
  \/ shown[r][p] = "absent" /\ shown' = [shown EXCEPT ![r][p] = "connected"]

HandleMessage(r) ==
  /\ At(r, "idle") /\ RoomReaders(r) = {}
  /\ messages[r] # <<>>
  /\ messages' = [messages EXCEPT ![r] = Tail(@)]
  /\ IF Head(messages[r]).join THEN LetIn(r, Head(messages[r]).from) ELSE UNCHANGED shown
  /\ Goto(r, "handling", None, r)
  /\ UNCHANGED <<registered, roomOf, hosted, read, crashed>>

HandleTimeout(r) ==
  /\ At(r, "idle") /\ RoomReaders(r) = {} /\ r \in hosted
  /\ Goto(r, "handling", None, r)
  /\ UNCHANGED <<registered, roomOf, hosted, read, messages, shown, crashed>>

EndHandler(r) ==
  /\ At(r, "handling")
  /\ Broadcast(r, Rest(r))
  /\ UNCHANGED <<registered, roomOf, hosted, read, messages, shown>>

-----------------------------------------------------------------------------
Init ==
  /\ pc = [x \in Process |-> Stage(IF x \in Session THEN "new" ELSE "idle", None, None)]
  /\ registered = {}
  /\ roomOf = [s \in Session |-> None]
  /\ hosted = {}
  /\ read = 0
  /\ messages = [r \in Room |-> <<>>]
  /\ shown = [r \in Room |-> [p \in Player |-> "absent"]]
  /\ crashed = FALSE

Crashed == crashed /\ UNCHANGED vars

Next ==
  \/ ~crashed /\ HubStep
  \/ \E s \in Session : ~crashed /\ (ClientStep(s) \/ PumpStep(s))
  \/ \E r \in Room : ~crashed /\ (CreateRoom(r) \/ HandleMessage(r) \/ HandleTimeout(r) \/ EndHandler(r))
  \/ Crashed

Spec == Init /\ [][Next]_vars

\* The hub's loop, the pumps and the rooms go on whenever they can, and
\* nobody waits for a lock for ever (sync.RWMutex does not starve anybody).
\* Nothing is assumed of the clients or of the timers.
FairSpec ==
  /\ Spec
  /\ SF_vars(~crashed /\ HubStep)
  /\ \A s \in Session : SF_vars(~crashed /\ PumpStep(s))
  /\ \A r \in Room : WF_vars(~crashed /\ EndHandler(r)) /\ SF_vars(~crashed /\ HandleMessage(r))

-----------------------------------------------------------------------------
(* What the hub promises.                                                  *)

Stages ==
  {"new", "idle", "storing", "joining", "sending", "leaving", "announcing",
   "broadcasting", "clearing", "closing", "closed", "register", "registered", "unregister",
   "unregistered", "handling"}

\* Every variable has its type, and no more than one process is inside the
\* mutex of a room unless all of them read.
HubTypeOK ==
  /\ pc \in [Process -> [at : Stages, who : Session \cup {None}, room : Room \cup {None}]]
  /\ registered \subseteq Session
  /\ roomOf \in [Session -> Room \cup {None}]
  /\ hosted \subseteq Room
  /\ read \in 0..MaxRead
  /\ messages \in [Room -> Seq([from : Player, join : BOOLEAN])]
  /\ \A r \in Room : Len(messages[r]) <= QueueCap
  /\ shown \in [Room -> [Player -> {"absent", "connected", "disconnected"}]]
  /\ crashed \in BOOLEAN
  /\ \A r \in Room : RoomLocked(r) => RoomReaders(r) = {}

\* Sessions whose registration has taken effect.
Arrived ==
  {s \in Session : ~At(s, "new") /\ pc[HubLoop] # Stage("register", s, None)}

Registry == INSTANCE SessionRegistry WITH
  registry <- registered,
  arrived  <- Arrived,
  ended    <- {s \in Session : At(s, "closed")}

\* The map by session IDs, the search for an old session and the unregistering
\* of sessions that have been replaced long ago amount to a registry of one
\* session per player, the latest one (Run).
ImplementsRegistry == Registry!Spec

\* Whom a process waits for: the holder of a lock, or the receiver of a channel.
HubHolder == IF HubLocked THEN {HubLoop} ELSE {}
RoomHolder(r) == IF RoomLocked(r) THEN {r} ELSE {}

WaitsFor(x) ==
  LET r == pc[x].room
  IN  {y \in Process :
         \/ At(x, "closing") /\ y = HubLoop
         \/ (At(x, "joining") \/ At(x, "sending")) /\ y = r /\ Len(messages[r]) = QueueCap
         \/ (At(x, "leaving") \/ At(x, "announcing")) /\ y \in RoomHolder(r)
         \/ At(x, "leaving") /\ y \in RoomReaders(r)
         \/ pc[x].at \in {"broadcasting", "handling", "register", "unregister"} /\ y \in HubHolder
         \/ x \in Room /\ At(x, "idle") /\ messages[x] # <<>> /\ y \in RoomReaders(x)}

\* The hub takes the mutexes of rooms, rooms take the hub's to reach their
\* clients, and everybody waits for channels that one of them empties: there
\* is never a group of processes each of which waits for one of the group
\* (the order of the locks in Run, HandlePlayerDisconnect and the handlers).
NoWaitCycle ==
  \A group \in (SUBSET Process) \ {{}} : \E x \in group : WaitsFor(x) \cap group = {}

\* When the connection of a registered client ends, its room gets to know: its
\* player is not shown as connected any longer, whether the session is
\* unregistered or kicked by a new one before that.
LeaverIsShownGone ==
  \A s \in Session : \A r \in Room :
    s \in registered /\ roomOf[s] = r /\ At(s, "closing")
      ~> shown[r][PlayerOf[s]] # "connected" \/ crashed

-----------------------------------------------------------------------------
\* hub.go says of the registration of a client that it kicks an existing one
\* of the same player.  A kicked session has been in the map and is no longer,
\* while its connection goes on: none of its messages is acted on.
Kicked(s) == s \in Arrived \ registered /\ ~At(s, "closing") /\ ~At(s, "closed")

KickedSessionIsOut ==
  [][\A s \in Session : Kicked(s) /\ At(s, "idle") =>
       pc'[s].at \notin {"storing", "sending", "leaving"}]_vars
=============================================================================

---------------------------- MODULE LudoHubProofs ----------------------------
(***************************************************************************)
(* Theorems about the hub, its clients and the rooms they meet in, for any *)
(* number of players, of connections and of rooms and any capacity of the  *)
(* rooms' channels.                                                        *)
(***************************************************************************)
EXTENDS LudoHub, SequenceTheorems, TLAPS

-----------------------------------------------------------------------------
(* The inductive invariant.                                                *)

SessionStages ==
  {"new", "idle", "storing", "joining", "sending", "leaving", "announcing",
   "broadcasting", "clearing", "closing", "closed"}
RoomStages == {"idle", "handling"}
HubStages ==
  {"idle", "register", "registered", "unregister", "unregistered", "leaving",
   "announcing", "broadcasting"}

\* A process is at a stage of its own program, and knows the session and the
\* room this stage is about.
Sound(x, stage) ==
  /\ x \in Session => stage.at \in SessionStages
  /\ x \in Room => stage.at \in RoomStages
  /\ x = HubLoop => stage.at \in HubStages
  /\ stage.at \in {"storing", "joining", "sending"} => stage.room \in Room
  /\ stage.at \in {"leaving", "announcing", "broadcasting"} =>
       stage.who \in Session /\ stage.room \in Room
  /\ stage.at \in {"register", "unregister"} => stage.who \in Session /\ stage.room = None
  /\ stage.at = "unregistered" /\ stage.who # None => stage.room \in Room

StagesOK == \A x \in Process : Sound(x, pc[x])

\* A player has one session in the map at most, none that has not arrived, and
\* what the loop has received has left its sender.
RegistryOK ==
  /\ \A s, t \in registered : PlayerOf[s] = PlayerOf[t] => s = t
  /\ registered \subseteq Arrived
  /\ At(HubLoop, "register") => ~At(pc[HubLoop].who, "new")
  /\ At(HubLoop, "unregister") => At(pc[HubLoop].who, "closed")

HubInv == HubTypeOK /\ StagesOK /\ RegistryOK

Ended == {s \in Session : At(s, "closed")}

StageSet == [at : Stages, who : Session \cup {None}, room : Room \cup {None}]

\* Processes are of one kind each.
LEMMA Kinds ==
  /\ Session \subseteq Process /\ Room \subseteq Process /\ HubLoop \in Process
  /\ HubLoop \notin Session /\ HubLoop \notin Room /\ None \notin Session /\ None \notin Room
  /\ \A x \in Session : x \notin Room
  BY HubAssumption DEF Process

\* The fields of a stage.
LEMMA StageFields ==
  ASSUME NEW at, NEW who, NEW room
  PROVE  /\ Stage(at, who, room).at = at
         /\ Stage(at, who, room).who = who
         /\ Stage(at, who, room).room = room
         /\ at \in Stages /\ who \in Session \cup {None} /\ room \in Room \cup {None}
              => Stage(at, who, room) \in StageSet
  BY DEF Stage, StageSet

\* One process goes on and the others stay where they are.
LEMMA GotoFact ==
  ASSUME pc \in [Process -> StageSet], NEW x \in Process, NEW at \in Stages,
         NEW who \in Session \cup {None}, NEW room \in Room \cup {None},
         Goto(x, at, who, room)
  PROVE  /\ pc' \in [Process -> StageSet]
         /\ pc'[x] = Stage(at, who, room)
         /\ pc'[x].at = at /\ pc'[x].who = who /\ pc'[x].room = room
         /\ \A y \in Process : y # x => pc'[y] = pc[y]
  BY StageFields DEF Goto

-----------------------------------------------------------------------------
(* Steps of one process that neither open nor end a session.               *)

\* What such a step keeps, and that the registry does not see it.
PcKept ==
  /\ (pc \in [Process -> StageSet])'
  /\ (\A r \in Room : RoomLocked(r) => RoomReaders(r) = {})'
  /\ StagesOK' /\ RegistryOK'
  /\ Arrived' = Arrived /\ Ended' = Ended

\* A process that goes from one stage to another, neither of them a stage of
\* the registry, keeps all that PcKept says if the new stage is sound.
LEMMA MoveStep ==
  ASSUME HubInv, UNCHANGED registered,
         NEW x \in Process, pc[x].at \notin {"new", "register", "unregister", "closed"},
         NEW at \in Stages \ {"new", "register", "unregister", "closed"},
         NEW who \in Session \cup {None}, NEW room \in Room \cup {None},
         Goto(x, at, who, room), Sound(x, Stage(at, who, room)),
         at = "handling" => RoomReaders(x) = {},
         at = "broadcasting" => ~RoomLocked(room)
  PROVE  PcKept
<1> USE Kinds DEF HubInv
<1>0. pc \in [Process -> StageSet] BY DEF HubTypeOK, StageSet
<1>1. /\ pc' \in [Process -> StageSet]
      /\ pc'[x] = Stage(at, who, room)
      /\ pc'[x].at = at /\ pc'[x].who = who /\ pc'[x].room = room
      /\ \A y \in Process : y # x => pc'[y] = pc[y]
  BY <1>0, GotoFact
<1>2. StagesOK'
  <2>1. \A y \in Process : Sound(y, pc'[y])
    BY <1>1 DEF StagesOK
  <2> QED BY <2>1 DEF StagesOK, Sound
<1>3. ASSUME NEW r \in Room, RoomLocked(r)'
      PROVE  RoomReaders(r)' = {}
  <2>1. CASE r = x
    <3>1. at = "handling" BY <1>1, <1>3, <2>1 DEF RoomLocked, At
    <3>2. \A y \in Session \cup {HubLoop} : pc'[y] = pc[y] BY <1>1, <2>1
    <3> QED BY <3>1, <3>2, <2>1 DEF RoomReaders, At
  <2>2. CASE r # x
    <3>1. RoomLocked(r) BY <1>1, <1>3, <2>2 DEF RoomLocked, At
    <3>2. RoomReaders(r) = {} BY <3>1 DEF HubTypeOK
    <3>3. at = "broadcasting" => room # r BY <3>1
    <3>4. ASSUME NEW y \in Session \cup {HubLoop}, At(y, "broadcasting")', pc'[y].room = r
          PROVE  FALSE
      <4>1. CASE y = x BY <1>1, <3>3, <3>4, <4>1 DEF At
      <4>2. CASE y # x BY <1>1, <3>2, <3>4, <4>2 DEF At, RoomReaders
      <4> QED BY <4>1, <4>2
    <3> QED BY <3>4 DEF RoomReaders
  <2> QED BY <2>1, <2>2
<1>4. \A s \in Session : /\ At(s, "new")' <=> At(s, "new")
                         /\ At(s, "closed")' <=> At(s, "closed")
  BY <1>1 DEF At
<1>5. \A s \in Session : pc'[HubLoop] = Stage("register", s, None)
                           <=> pc[HubLoop] = Stage("register", s, None)
  BY <1>1, StageFields
<1>6. Arrived' = Arrived /\ Ended' = Ended
  BY <1>4, <1>5 DEF Arrived, Ended
<1>7. RegistryOK'
  <2>1. /\ At(HubLoop, "register")' => At(HubLoop, "register") /\ pc'[HubLoop] = pc[HubLoop]
        /\ At(HubLoop, "unregister")' => At(HubLoop, "unregister") /\ pc'[HubLoop] = pc[HubLoop]
    BY <1>1 DEF At
  <2>2. At(HubLoop, "register") \/ At(HubLoop, "unregister") => pc[HubLoop].who \in Session
    BY DEF StagesOK, Sound, At
  <2>3. registered' = registered /\ registered \subseteq Arrived BY DEF RegistryOK
  <2>4. At(HubLoop, "register")' => ~At(pc[HubLoop].who, "new")' /\ pc'[HubLoop].who = pc[HubLoop].who
    BY <1>4, <2>1, <2>2 DEF RegistryOK
  <2>5. At(HubLoop, "unregister")' => At(pc[HubLoop].who, "closed")' /\ pc'[HubLoop].who = pc[HubLoop].who
    BY <1>4, <2>1, <2>2 DEF RegistryOK
  <2> QED BY <1>6, <2>3, <2>4, <2>5 DEF RegistryOK, At
<1> QED BY <1>1, <1>2, <1>3, <1>6, <1>7 DEF PcKept

\* A step in which no process moves.
LEMMA NoMove ==
  ASSUME HubInv, UNCHANGED <<pc, registered>>
  PROVE  PcKept
<1> USE DEF HubInv
<1>1. /\ Arrived' = Arrived /\ Ended' = Ended
      /\ \A x, at : At(x, at)' <=> At(x, at)
  BY DEF Arrived, Ended, At
<1>2. \A r : RoomLocked(r)' <=> RoomLocked(r) BY DEF RoomLocked, At
<1>3. \A r : RoomReaders(r)' = RoomReaders(r) BY DEF RoomReaders, At
<1>4. StagesOK' BY DEF StagesOK, Sound
<1>5. RegistryOK' BY <1>1 DEF RegistryOK, At
<1> QED BY <1>1, <1>2, <1>3, <1>4, <1>5 DEF PcKept, HubTypeOK, StageSet

\* The rest of the type.
DataOK ==
  /\ registered \subseteq Session
  /\ roomOf \in [Session -> Room \cup {None}]
  /\ hosted \subseteq Room
  /\ read \in 0..MaxRead
  /\ messages \in [Room -> Seq([from : Player, join : BOOLEAN])]
  /\ \A r \in Room : Len(messages[r]) <= QueueCap
  /\ shown \in [Room -> [Player -> {"absent", "connected", "disconnected"}]]
  /\ crashed \in BOOLEAN

\* The parts of the invariant, by name.
LEMMA Parts ==
  ASSUME HubInv
  PROVE  /\ DataOK /\ pc \in [Process -> StageSet] /\ StagesOK
         /\ \A r \in Room : RoomLocked(r) => RoomReaders(r) = {}
  BY DEF HubInv, HubTypeOK, DataOK, StageSet

\* The parts together are the invariant.
LEMMA Whole == PcKept /\ DataOK' => HubInv'
  BY DEF PcKept, DataOK, HubInv, HubTypeOK, StageSet, RoomLocked, RoomReaders, StagesOK, RegistryOK

\* The players' flags and the channels keep their types.
LEMMA DataUnchanged ==
  ASSUME DataOK, UNCHANGED <<registered, roomOf, hosted, read, messages, shown, crashed>>
  PROVE  DataOK'
  BY DEF DataOK

-----------------------------------------------------------------------------
(* Notices.                                                                *)

\* A player is shown as gone under the mutex of his room.
LEMMA StartNoticeStep ==
  ASSUME HubInv, NEW x \in Session \cup {HubLoop}, StartNotice(x)
  PROVE  DataOK' /\ PcKept
<1> USE Kinds
<1> DEFINE r == pc[x].room
           s == pc[x].who
<1>1. /\ At(x, "leaving") /\ MarkDisconnected(r, PlayerOf[s]) /\ Goto(x, "announcing", s, r)
      /\ UNCHANGED <<registered, roomOf, hosted, read, messages, crashed>>
  BY DEF StartNotice
<1>2. x \in Process /\ s \in Session /\ r \in Room
  BY <1>1, Parts DEF StagesOK, Sound, At, Process
<1>3. Sound(x, Stage("announcing", s, r))
  BY <1>2, StageFields, HubAssumption DEF Sound, SessionStages, HubStages
<1>4. PcKept
  <2>1. pc[x].at \notin {"new", "register", "unregister", "closed"} BY <1>1 DEF At
  <2>2. "announcing" \in Stages \ {"new", "register", "unregister", "closed"} BY DEF Stages
  <2> HIDE DEF r, s
  <2> QED BY <1>1, <1>2, <1>3, <2>1, <2>2, MoveStep
<1>5. DataOK'
  <2>1. PlayerOf[s] \in Player BY <1>2, HubAssumption
  <2>2. shown' \in [Room -> [Player -> {"absent", "connected", "disconnected"}]]
    BY <1>1, <1>2, <2>1, Parts DEF DataOK, MarkDisconnected
  <2> QED BY <1>1, <2>2, Parts DEF DataOK
<1> QED BY <1>4, <1>5

\* The clients are told while no handler holds the mutex.
LEMMA LockForReadingStep ==
  ASSUME HubInv, NEW x \in Session \cup {HubLoop}, LockForReading(x)
  PROVE  DataOK' /\ PcKept
<1> USE Kinds
<1> DEFINE r == pc[x].room
           s == pc[x].who
<1>1. /\ At(x, "announcing") /\ ~RoomLocked(r) /\ Goto(x, "broadcasting", s, r)
      /\ UNCHANGED <<registered, roomOf, hosted, read, messages, shown, crashed>>
  BY DEF LockForReading
<1>2. x \in Process /\ s \in Session /\ r \in Room
  BY <1>1, Parts DEF StagesOK, Sound, At, Process
<1>3. Sound(x, Stage("broadcasting", s, r))
  BY <1>2, StageFields, HubAssumption DEF Sound, SessionStages, HubStages
<1>4. pc[x].at \notin {"new", "register", "unregister", "closed"} BY <1>1 DEF At
<1>5. "broadcasting" \in Stages \ {"new", "register", "unregister", "closed"} BY DEF Stages
<1> HIDE DEF r, s
<1>6. PcKept BY <1>1, <1>2, <1>3, <1>4, <1>5, MoveStep
<1>7. DataOK' BY <1>1, DataUnchanged, Parts
<1> QED BY <1>6, <1>7

\* The process that has told the clients goes on, or has ended the program.
LEMMA HubEndNoticeStep ==
  ASSUME HubInv, EndNotice(HubLoop, Rest(HubLoop))
  PROVE  DataOK' /\ PcKept
<1> USE Kinds
<1>1. /\ At(HubLoop, "broadcasting")
      /\ UNCHANGED <<registered, roomOf, hosted, read, messages, shown>>
      /\ \/ Rest(HubLoop) /\ UNCHANGED crashed
         \/ crashed' = TRUE /\ UNCHANGED pc
  BY DEF EndNotice, Broadcast, ReadRoomIDs
<1>2. DataOK' BY <1>1, Parts DEF DataOK
<1>3. Sound(HubLoop, Stage("idle", None, None))
  BY StageFields DEF Sound, HubStages
<1>4. CASE Rest(HubLoop)
  <2>1. pc[HubLoop].at \notin {"new", "register", "unregister", "closed"} BY <1>1 DEF At
  <2>2. "idle" \in Stages \ {"new", "register", "unregister", "closed"} BY DEF Stages
  <2>3. Goto(HubLoop, "idle", None, None) BY <1>4 DEF Rest
  <2> QED BY <1>1, <1>2, <1>3, <2>1, <2>2, <2>3, MoveStep
<1>5. CASE UNCHANGED pc BY <1>1, <1>2, <1>5, NoMove
<1> QED BY <1>1, <1>4, <1>5

-----------------------------------------------------------------------------
(* The hub's loop.                                                         *)

\* What a step of the loop about a session s keeps, when s alone moves with it.
LEMMA ReceiveFact ==
  ASSUME HubInv, NEW s \in Session, NEW at \in Stages, NEW rest \in Stages,
         pc' = [pc EXCEPT ![HubLoop] = Stage(at, s, None), ![s] = Stage(rest, None, None)],
         at \notin {"broadcasting", "handling"}, rest \notin {"broadcasting", "handling"},
         Sound(HubLoop, Stage(at, s, None)), Sound(s, Stage(rest, None, None)),
         At(HubLoop, "idle"), ~At(s, "closed")
  PROVE  /\ (pc \in [Process -> StageSet])'
         /\ (\A r \in Room : RoomLocked(r) => RoomReaders(r) = {})'
         /\ StagesOK'
         /\ pc'[HubLoop] = Stage(at, s, None) /\ pc'[s] = Stage(rest, None, None)
         /\ \A y \in Process : y \notin {HubLoop, s} => pc'[y] = pc[y]
<1> USE Kinds
<1>1. Stage(at, s, None) \in StageSet /\ Stage(rest, None, None) \in StageSet
  BY StageFields
<1>2. /\ pc' \in [Process -> StageSet]
      /\ pc'[HubLoop] = Stage(at, s, None) /\ pc'[s] = Stage(rest, None, None)
      /\ \A y \in Process : y \notin {HubLoop, s} => pc'[y] = pc[y]
  BY <1>1, Parts
<1>3. StagesOK'
  <2>1. \A y \in Process : Sound(y, pc'[y])
    BY <1>2, Parts DEF StagesOK
  <2> QED BY <2>1 DEF StagesOK, Sound
<1>4. ASSUME NEW r \in Room, RoomLocked(r)'
      PROVE  RoomReaders(r)' = {}
  <2>1. RoomLocked(r) BY <1>2, <1>4 DEF RoomLocked, At
  <2>2. RoomReaders(r) = {} BY <2>1, Parts
  <2>3. pc'[HubLoop].at # "broadcasting" /\ pc'[s].at # "broadcasting"
    BY <1>2, StageFields
  <2>4. \A y \in Session \cup {HubLoop} : At(y, "broadcasting")' => pc'[y] = pc[y]
    BY <1>2, <2>3 DEF At
  <2> QED BY <2>2, <2>4 DEF RoomReaders, At
<1> QED BY <1>2, <1>3, <1>4

\* The hub receives a new session, which goes on.
LEMMA ReceiveRegisterStep ==
  ASSUME HubInv, NEW s \in Session, ReceiveRegister(s)
  PROVE  DataOK' /\ PcKept
<1> USE Kinds
<1>1. /\ At(HubLoop, "idle") /\ At(s, "new")
      /\ pc' = [pc EXCEPT ![HubLoop] = Stage("register", s, None), ![s] = Stage("idle", None, None)]
      /\ UNCHANGED <<registered, roomOf, hosted, read, messages, shown, crashed>>
  BY DEF ReceiveRegister
<1>2. /\ Sound(HubLoop, Stage("register", s, None)) /\ Sound(s, Stage("idle", None, None))
      /\ "register" \in Stages /\ "idle" \in Stages
  BY StageFields DEF Sound, HubStages, SessionStages, Stages
<1>3. /\ (pc \in [Process -> StageSet])'
      /\ (\A r \in Room : RoomLocked(r) => RoomReaders(r) = {})'
      /\ StagesOK'
      /\ pc'[HubLoop] = Stage("register", s, None) /\ pc'[s] = Stage("idle", None, None)
      /\ \A y \in Process : y \notin {HubLoop, s} => pc'[y] = pc[y]
  BY <1>1, <1>2, ReceiveFact DEF At
<1>4. \A t \in Session : /\ pc'[HubLoop] = Stage("register", t, None) <=> t = s
                         /\ pc[HubLoop] # Stage("register", t, None)
  BY <1>1, <1>3, StageFields DEF At
<1>5. \A t \in Session : /\ t # s => (At(t, "new")' <=> At(t, "new"))
                         /\ At(t, "closed")' <=> At(t, "closed")
  BY <1>1, <1>3, StageFields DEF At
<1>6. ~At(s, "new")' BY <1>3, StageFields DEF At
<1>7. Arrived' = Arrived /\ Ended' = Ended
  BY <1>1, <1>4, <1>5 DEF Arrived, Ended
<1>8. RegistryOK'
  BY <1>1, <1>3, <1>6, <1>7, StageFields DEF HubInv, RegistryOK, At
<1>9. DataOK' BY <1>1, DataUnchanged, Parts
<1> QED BY <1>3, <1>7, <1>8, <1>9 DEF PcKept

\* A session ends when the loop receives it.
LEMMA ReceiveUnregisterStep ==
  ASSUME HubInv, NEW s \in Session, ReceiveUnregister(s)
  PROVE  /\ HubInv'
         /\ s \in Arrived \ Ended
         /\ Arrived' = Arrived /\ Ended' = Ended \cup {s}
         /\ UNCHANGED registered
<1> USE Kinds
<1>1. /\ At(HubLoop, "idle") /\ At(s, "closing")
      /\ pc' = [pc EXCEPT ![HubLoop] = Stage("unregister", s, None), ![s] = Stage("closed", None, None)]
      /\ UNCHANGED <<registered, roomOf, hosted, read, messages, shown, crashed>>
  BY DEF ReceiveUnregister
<1>2. /\ Sound(HubLoop, Stage("unregister", s, None)) /\ Sound(s, Stage("closed", None, None))
      /\ "unregister" \in Stages /\ "closed" \in Stages
  BY StageFields DEF Sound, HubStages, SessionStages, Stages
<1>3. /\ (pc \in [Process -> StageSet])'
      /\ (\A r \in Room : RoomLocked(r) => RoomReaders(r) = {})'
      /\ StagesOK'
      /\ pc'[HubLoop] = Stage("unregister", s, None) /\ pc'[s] = Stage("closed", None, None)
      /\ \A y \in Process : y \notin {HubLoop, s} => pc'[y] = pc[y]
  BY <1>1, <1>2, ReceiveFact DEF At
<1>4. \A t \in Session : /\ pc'[HubLoop] # Stage("register", t, None)
                         /\ pc[HubLoop] # Stage("register", t, None)
  BY <1>1, <1>3, StageFields DEF At
<1>5. \A t \in Session : /\ At(t, "new")' <=> At(t, "new")
                         /\ At(t, "closed")' <=> (At(t, "closed") \/ t = s)
  BY <1>1, <1>3, StageFields DEF At
<1>6. /\ s \in Arrived \ Ended
      /\ Arrived' = Arrived /\ Ended' = Ended \cup {s}
  BY <1>1, <1>4, <1>5 DEF Arrived, Ended, At
<1>7. RegistryOK'
  BY <1>1, <1>3, <1>6, StageFields DEF HubInv, RegistryOK, At
<1>8. DataOK' BY <1>1, DataUnchanged, Parts
<1>9. HubInv'
  BY <1>3, <1>7, <1>8 DEF HubInv, HubTypeOK, DataOK, StageSet
<1> QED BY <1>1, <1>6, <1>9

\* A session that is registered takes the place of its player's older one.
LEMMA RegisterStep ==
  ASSUME HubInv, UpdateClients, At(HubLoop, "register"), NEW s, s = pc[HubLoop].who
  PROVE  /\ HubInv'
         /\ s \in Session \ Arrived /\ Arrived' = Arrived \cup {s} /\ Ended' = Ended
         /\ registered' = {t \in registered : PlayerOf[t] # PlayerOf[s]} \cup {s}
<1> USE Kinds
<1>1. /\ Register(s) /\ UNCHANGED <<roomOf, hosted, read, messages, shown, crashed>>
  BY DEF UpdateClients, At
<1>2. s \in Session /\ pc[HubLoop].room = None /\ ~At(s, "new")
  BY Parts DEF StagesOK, Sound, HubInv, RegistryOK, At
<1>3. pc[HubLoop] = Stage("register", s, None)
  BY <1>2, Parts DEF At, Stage, StageSet
<1>4. s \notin registered /\ s \notin Arrived
  BY <1>3 DEF Arrived, HubInv, RegistryOK
<1>5. registered \subseteq Session BY Parts DEF DataOK
<1>6. PICK old \in Session \cup {None} :
        /\ Goto(HubLoop, "registered", old, None)
        /\ registered' = {t \in registered : PlayerOf[t] # PlayerOf[s]} \cup {s}
  <2>1. CASE OlderSessions(s) = {}
    <3>1. registered' = registered \cup {s} /\ Goto(HubLoop, "registered", None, None)
      BY <1>1, <2>1 DEF Register
    <3>2. \A t \in registered : PlayerOf[t] # PlayerOf[s]
      BY <1>4, <2>1 DEF OlderSessions
    <3>3. registered' = {t \in registered : PlayerOf[t] # PlayerOf[s]} \cup {s}
      BY <3>1, <3>2
    <3> QED BY <3>1, <3>3
  <2>2. CASE OlderSessions(s) # {}
    <3>1. PICK old \in OlderSessions(s) :
            registered' = (registered \ {old}) \cup {s} /\ Goto(HubLoop, "registered", old, None)
      BY <1>1, <2>2 DEF Register
    <3>2. old \in registered /\ PlayerOf[old] = PlayerOf[s] BY DEF OlderSessions
    <3>3. \A t \in registered : PlayerOf[t] = PlayerOf[s] <=> t = old
      BY <3>2 DEF HubInv, RegistryOK
    <3>4. registered' = {t \in registered : PlayerOf[t] # PlayerOf[s]} \cup {s}
      BY <3>1, <3>3
    <3> QED BY <1>5, <3>1, <3>2, <3>4
  <2> QED BY <2>1, <2>2
<1>7. /\ pc' \in [Process -> StageSet]
      /\ pc'[HubLoop] = Stage("registered", old, None)
      /\ \A y \in Process : y # HubLoop => pc'[y] = pc[y]
  BY <1>6, GotoFact, Parts DEF Stages
<1>8. StagesOK'
  <2>1. Sound(HubLoop, pc'[HubLoop]) BY <1>7, StageFields DEF Sound, HubStages
  <2>2. \A y \in Process : Sound(y, pc'[y]) BY <1>7, <2>1, Parts DEF StagesOK
  <2> QED BY <2>2 DEF StagesOK, Sound
<1>9. ASSUME NEW r \in Room, RoomLocked(r)' PROVE RoomReaders(r)' = {}
  <2>1. RoomReaders(r) = {} BY <1>7, <1>9, Parts DEF RoomLocked, At
  <2>2. \A y \in Session \cup {HubLoop} : At(y, "broadcasting")' => pc'[y] = pc[y]
    BY <1>7, StageFields DEF At
  <2> QED BY <2>1, <2>2 DEF RoomReaders, At
<1>10. Arrived' = Arrived \cup {s} /\ Ended' = Ended
  <2>1. \A t \in Session : /\ pc'[HubLoop] # Stage("register", t, None)
                           /\ pc[HubLoop] = Stage("register", t, None) <=> t = s
    BY <1>3, <1>7, StageFields
  <2>2. \A t \in Session : \A at : At(t, at)' <=> At(t, at) BY <1>7 DEF At
  <2> QED BY <1>2, <2>1, <2>2 DEF Arrived, Ended
<1>11. RegistryOK'
  <2>1. pc'[HubLoop].at = "registered" BY <1>7, StageFields
  <2>2. \A t, u \in registered' : PlayerOf[t] = PlayerOf[u] => t = u
    BY <1>6 DEF HubInv, RegistryOK
  <2>3. registered' \subseteq Arrived' BY <1>6, <1>10 DEF HubInv, RegistryOK
  <2> QED BY <2>1, <2>2, <2>3 DEF RegistryOK, At
<1>12. DataOK' BY <1>1, <1>2, <1>6, Parts DEF DataOK
<1>13. HubInv'
  BY <1>7, <1>8, <1>9, <1>11, <1>12 DEF HubInv, HubTypeOK, DataOK, StageSet
<1> QED BY <1>2, <1>4, <1>6, <1>10, <1>13

\* Only the session that has ended is taken out of the map, if it is there.
LEMMA UnregisterStep ==
  ASSUME HubInv, UpdateClients, At(HubLoop, "unregister"), NEW s, s = pc[HubLoop].who
  PROVE  /\ HubInv'
         /\ s \in Ended
         /\ Arrived' = Arrived /\ Ended' = Ended
         /\ registered' = registered \ {s}
<1> USE Kinds
<1>1. /\ Unregister(s) /\ UNCHANGED <<roomOf, hosted, read, messages, shown, crashed>>
  BY DEF UpdateClients, At
<1>2. s \in Session /\ At(s, "closed")
  BY Parts DEF StagesOK, Sound, HubInv, RegistryOK, At
<1>3. registered' = registered \ {s} BY <1>1 DEF Unregister
<1>4. PICK who \in Session \cup {None}, room \in Room \cup {None} :
        /\ Goto(HubLoop, "unregistered", who, room)
        /\ who # None => room \in Room
  BY <1>1, <1>2, Parts DEF Unregister, DataOK
<1>5. /\ pc' \in [Process -> StageSet]
      /\ pc'[HubLoop] = Stage("unregistered", who, room)
      /\ \A y \in Process : y # HubLoop => pc'[y] = pc[y]
  BY <1>4, GotoFact, Parts DEF Stages
<1>6. StagesOK'
  <2>1. Sound(HubLoop, pc'[HubLoop]) BY <1>4, <1>5, StageFields DEF Sound, HubStages
  <2>2. \A y \in Process : Sound(y, pc'[y]) BY <1>5, <2>1, Parts DEF StagesOK
  <2> QED BY <2>2 DEF StagesOK, Sound
<1>7. ASSUME NEW r \in Room, RoomLocked(r)' PROVE RoomReaders(r)' = {}
  <2>1. RoomReaders(r) = {} BY <1>5, <1>7, Parts DEF RoomLocked, At
  <2>2. \A y \in Session \cup {HubLoop} : At(y, "broadcasting")' => pc'[y] = pc[y]
    BY <1>5, StageFields DEF At
  <2> QED BY <2>1, <2>2 DEF RoomReaders, At
<1>8. Arrived' = Arrived /\ Ended' = Ended
  <2>1. \A t \in Session : /\ pc'[HubLoop] # Stage("register", t, None)
                           /\ pc[HubLoop] # Stage("register", t, None)
    BY <1>5, StageFields DEF At
  <2>2. \A t \in Session : \A at : At(t, at)' <=> At(t, at) BY <1>5 DEF At
  <2> QED BY <2>1, <2>2 DEF Arrived, Ended
<1>9. RegistryOK'
  <2>1. pc'[HubLoop].at = "unregistered" BY <1>5, StageFields
  <2> QED BY <1>3, <1>8, <2>1 DEF HubInv, RegistryOK, At
<1>10. DataOK' BY <1>1, <1>3, Parts DEF DataOK
<1>11. HubInv'
  BY <1>5, <1>6, <1>7, <1>9, <1>10 DEF HubInv, HubTypeOK, DataOK, StageSet
<1> QED BY <1>2, <1>3, <1>8, <1>11 DEF Ended

\* Hub.mu is released; the room of a kicked session is read only now.
LEMMA UnlockHubStep ==
  ASSUME HubInv, UnlockHub
  PROVE  DataOK' /\ PcKept
<1> USE Kinds
<1> DEFINE old == pc[HubLoop].who
<1>1. UNCHANGED <<registered, roomOf, hosted, read, messages, shown>>
  BY DEF UnlockHub
<1>2. pc[HubLoop].at \in {"registered", "unregistered"}
  BY DEF UnlockHub, At
<1>3. \/ Rest(HubLoop) /\ UNCHANGED crashed
      \/ \E r \in Room : old \in Session /\ Goto(HubLoop, "leaving", old, r) /\ UNCHANGED crashed
      \/ crashed' = TRUE /\ UNCHANGED pc
  <2>0. old \in Session \cup {None} /\ pc[HubLoop] \in StageSet BY Parts DEF StageSet
  <2>1. CASE At(HubLoop, "unregistered")
    <3>1. old # None => pc[HubLoop].room \in Room
      BY <2>1, Parts DEF StagesOK, Sound, At
    <3> QED BY <2>0, <2>1, <3>1 DEF UnlockHub, At
  <2>2. CASE At(HubLoop, "registered")
    <3>1. CASE old = None BY <2>2, <3>1 DEF UnlockHub, At
    <3>2. CASE old # None
      <4>1. ReadRoomIDs({old}, IF roomOf[old] \in hosted THEN Goto(HubLoop, "leaving", old, roomOf[old])
                               ELSE Rest(HubLoop))
        BY <2>2, <3>2 DEF UnlockHub, At
      <4>2. hosted \subseteq Room BY Parts DEF DataOK
      <4>3. \/ (IF roomOf[old] \in hosted THEN Goto(HubLoop, "leaving", old, roomOf[old])
                ELSE Rest(HubLoop)) /\ UNCHANGED crashed
            \/ crashed' = TRUE /\ UNCHANGED pc
        BY <4>1 DEF ReadRoomIDs
      <4> QED BY <2>0, <3>2, <4>2, <4>3
    <3> QED BY <3>1, <3>2
  <2> QED BY <1>2, <2>1, <2>2 DEF At
<1>4. DataOK' BY <1>1, <1>3, Parts DEF DataOK
<1>5. CASE Rest(HubLoop)
  <2>1. Sound(HubLoop, Stage("idle", None, None)) BY StageFields DEF Sound, HubStages
  <2>2. "idle" \in Stages \ {"new", "register", "unregister", "closed"} BY DEF Stages
  <2>3. Goto(HubLoop, "idle", None, None) BY <1>5 DEF Rest
  <2> QED BY <1>1, <1>2, <1>4, <2>1, <2>2, <2>3, MoveStep
<1>6. ASSUME NEW r \in Room, old \in Session, Goto(HubLoop, "leaving", old, r)
      PROVE  PcKept
  <2>1. Sound(HubLoop, Stage("leaving", old, r)) BY <1>6, StageFields DEF Sound, HubStages
  <2>2. "leaving" \in Stages \ {"new", "register", "unregister", "closed"} BY DEF Stages
  <2> HIDE DEF old
  <2> QED BY <1>1, <1>2, <1>6, <2>1, <2>2, MoveStep
<1>7. CASE UNCHANGED pc
  <2>1. UNCHANGED <<pc, registered>> BY <1>1, <1>7
  <2> QED BY <1>4, <2>1, NoMove
<1> QED BY <1>3, <1>4, <1>5, <1>6, <1>7

\* Whatever the hub's loop does keeps the invariant.
LEMMA HubStepKeeps == HubInv /\ HubStep => HubInv'
<1> SUFFICES ASSUME HubInv, HubStep PROVE HubInv'
  OBVIOUS
<1>1. ASSUME NEW s \in Session, ReceiveRegister(s) PROVE HubInv'
  BY <1>1, ReceiveRegisterStep, Whole
<1>2. ASSUME NEW s \in Session, ReceiveUnregister(s) PROVE HubInv'
  BY <1>2, ReceiveUnregisterStep
<1>3. CASE UpdateClients
  BY <1>3, RegisterStep, UnregisterStep DEF UpdateClients
<1>4. CASE UnlockHub
  BY <1>4, UnlockHubStep, Whole
<1>5. CASE StartNotice(HubLoop)
  BY <1>5, StartNoticeStep, Whole
<1>6. CASE LockForReading(HubLoop)
  BY <1>6, LockForReadingStep, Whole
<1>7. CASE EndNotice(HubLoop, Rest(HubLoop))
  BY <1>7, HubEndNoticeStep, Whole
<1> QED BY <1>1, <1>2, <1>3, <1>4, <1>5, <1>6, <1>7 DEF HubStep

-----------------------------------------------------------------------------
(* The connections.                                                        *)

\* A pump that goes on to another stage of its program.
LEMMA PumpMove ==
  ASSUME HubInv, UNCHANGED registered,
         NEW s \in Session, pc[s].at \notin {"new", "closed"},
         NEW at \in {"idle", "storing", "joining", "sending", "leaving", "clearing", "closing"},
         NEW who \in Session \cup {None}, NEW room \in Room \cup {None},
         Goto(s, at, who, room),
         at \in {"storing", "joining", "sending", "leaving"} => room \in Room,
         at = "leaving" => who \in Session
  PROVE  PcKept
<1> USE Kinds
<1>1. Sound(s, Stage(at, who, room))
  BY StageFields DEF Sound, SessionStages
<1>2. pc[s].at \notin {"new", "register", "unregister", "closed"}
  BY Parts DEF StagesOK, Sound, SessionStages
<1>3. at \in Stages \ {"new", "register", "unregister", "closed"}
  BY DEF Stages
<1> QED BY <1>1, <1>2, <1>3, MoveStep

\* A read pump takes a message from its client.
LEMMA ReadStep ==
  ASSUME HubInv, NEW s \in Session, ReadJoin(s) \/ ReadOther(s) \/ ReadLeave(s)
  PROVE  DataOK' /\ PcKept
<1> USE Kinds
<1>1. /\ At(s, "idle") /\ Reading
      /\ UNCHANGED <<registered, roomOf, hosted, messages, shown, crashed>>
  BY DEF ReadJoin, ReadOther, ReadLeave
<1>2. PICK r \in Room : \/ Goto(s, "storing", None, r) \/ Goto(s, "sending", None, r)
                        \/ Goto(s, "leaving", s, r)
  <2>1. hosted \subseteq Room BY Parts DEF DataOK
  <2> QED BY <2>1 DEF ReadJoin, ReadOther, ReadLeave
<1>3. DataOK'
  <2>1. read' \in 0..MaxRead
    <3>1. read \in 0..MaxRead BY Parts DEF DataOK
    <3> QED BY <1>1, <3>1, HubAssumption DEF Reading
  <2> QED BY <1>1, <2>1, Parts DEF DataOK
<1>4. PcKept
  BY <1>1, <1>2, PumpMove DEF At
<1> QED BY <1>3, <1>4

\* A read pump finds its connection closed.
LEMMA ConnectionEndsStep ==
  ASSUME HubInv, NEW s \in Session, ConnectionEnds(s)
  PROVE  DataOK' /\ PcKept
<1>1. /\ At(s, "idle") /\ Goto(s, "closing", None, None)
      /\ UNCHANGED <<registered, roomOf, hosted, read, messages, shown, crashed>>
  BY DEF ConnectionEnds
<1>2. PcKept BY <1>1, PumpMove DEF At
<1>3. DataOK' BY <1>1, DataUnchanged, Parts
<1> QED BY <1>2, <1>3

\* A client's room is noted before its join, and forgotten after it has left.
LEMMA StoreRoomStep ==
  ASSUME HubInv, NEW s \in Session, StoreRoom(s) \/ ForgetRoom(s)
  PROVE  DataOK' /\ PcKept
<1> USE Kinds
<1>1. UNCHANGED <<registered, hosted, read, messages, shown, crashed>>
  BY DEF StoreRoom, ForgetRoom
<1>2. CASE StoreRoom(s)
  <2>1. /\ At(s, "storing") /\ Goto(s, "joining", None, pc[s].room)
        /\ roomOf' = [roomOf EXCEPT ![s] = pc[s].room]
    BY <1>2 DEF StoreRoom
  <2>2. pc[s].room \in Room BY <2>1, Parts DEF StagesOK, Sound, At
  <2>3. PcKept BY <1>1, <2>1, <2>2, PumpMove DEF At
  <2>4. DataOK' BY <1>1, <2>1, <2>2, Parts DEF DataOK
  <2> QED BY <2>3, <2>4
<1>3. CASE ForgetRoom(s)
  <2>1. /\ At(s, "clearing") /\ Goto(s, "idle", None, None)
        /\ roomOf' = [roomOf EXCEPT ![s] = None]
    BY <1>3 DEF ForgetRoom, Rest
  <2>2. PcKept BY <1>1, <2>1, PumpMove DEF At
  <2>3. DataOK' BY <1>1, <2>1, Parts DEF DataOK
  <2> QED BY <2>2, <2>3
<1> QED BY <1>2, <1>3

\* A message goes into a channel with a place left.
LEMMA EnqueueStep ==
  ASSUME HubInv, NEW s \in Session, Enqueue(s)
  PROVE  DataOK' /\ PcKept
<1> USE Kinds
<1> DEFINE r == pc[s].room
           m == [from |-> PlayerOf[s], join |-> At(s, "joining")]
<1>1. /\ At(s, "joining") \/ At(s, "sending")
      /\ Len(messages[r]) < QueueCap
      /\ messages' = [messages EXCEPT ![r] = Append(@, m)]
      /\ Goto(s, "idle", None, None)
      /\ UNCHANGED <<registered, roomOf, hosted, read, shown, crashed>>
  BY DEF Enqueue, Rest
<1>2. r \in Room BY <1>1, Parts DEF StagesOK, Sound, At
<1>3. PcKept BY <1>1, PumpMove DEF At
<1>4. m \in [from : Player, join : BOOLEAN] BY HubAssumption DEF At
<1>5. /\ messages[r] \in Seq([from : Player, join : BOOLEAN])
      /\ messages \in [Room -> Seq([from : Player, join : BOOLEAN])]
  BY <1>2, Parts DEF DataOK
<1> HIDE DEF m
<1>6. /\ Append(messages[r], m) \in Seq([from : Player, join : BOOLEAN])
      /\ Len(Append(messages[r], m)) = Len(messages[r]) + 1
      /\ Len(messages[r]) \in Nat
  BY <1>4, <1>5
<1>7. messages' \in [Room -> Seq([from : Player, join : BOOLEAN])]
  BY <1>1, <1>5, <1>6
<1>8. \A q \in Room : Len(messages'[q]) <= QueueCap
  <2>1. \A q \in Room : q # r => messages'[q] = messages[q] BY <1>1, <1>5
  <2>2. messages'[r] = Append(messages[r], m) BY <1>1, <1>2, <1>5
  <2>3. Len(messages'[r]) <= QueueCap BY <1>1, <1>6, <2>2, HubAssumption
  <2> QED BY <2>1, <2>3, Parts DEF DataOK
<1>9. DataOK' BY <1>1, <1>7, <1>8, Parts DEF DataOK
<1> QED BY <1>3, <1>9

\* A leaver's notice is given.
LEMMA EndNoticeStep ==
  ASSUME HubInv, NEW s \in Session, EndNotice(s, Goto(s, "clearing", None, None))
  PROVE  DataOK' /\ PcKept
<1>1. /\ At(s, "broadcasting")
      /\ UNCHANGED <<registered, roomOf, hosted, read, messages, shown>>
      /\ \/ Goto(s, "clearing", None, None) /\ UNCHANGED crashed
         \/ crashed' = TRUE /\ UNCHANGED pc
  BY DEF EndNotice, Broadcast, ReadRoomIDs
<1>2. DataOK' BY <1>1, Parts DEF DataOK
<1>3. CASE Goto(s, "clearing", None, None) BY <1>1, <1>2, <1>3, PumpMove DEF At
<1>4. CASE UNCHANGED pc
  <2>1. UNCHANGED <<pc, registered>> BY <1>1, <1>4
  <2> QED BY <1>2, <2>1, NoMove
<1> QED BY <1>1, <1>2, <1>3, <1>4

\* Whatever a client and its read pump do keeps the invariant.
LEMMA SessionStep ==
  ASSUME HubInv, NEW s \in Session, ClientStep(s) \/ PumpStep(s)
  PROVE  DataOK' /\ PcKept
  BY ReadStep, ConnectionEndsStep, StoreRoomStep, EnqueueStep, EndNoticeStep,
     StartNoticeStep, LockForReadingStep
  DEF ClientStep, PumpStep

-----------------------------------------------------------------------------
(* The rooms.                                                              *)

\* A new room is idle.
LEMMA CreateRoomStep ==
  ASSUME HubInv, NEW r \in Room, CreateRoom(r)
  PROVE  DataOK' /\ PcKept
<1>1. /\ UNCHANGED <<pc, registered>> /\ hosted' = hosted \cup {r}
      /\ UNCHANGED <<roomOf, read, messages, shown, crashed>>
  BY DEF CreateRoom
<1>2. DataOK' BY <1>1, Parts DEF DataOK
<1> QED BY <1>1, <1>2, NoMove

\* A handler takes the mutex when nobody reads.
LEMMA HandleStep ==
  ASSUME HubInv, NEW r \in Room, HandleMessage(r) \/ HandleTimeout(r)
  PROVE  DataOK' /\ PcKept
<1> USE Kinds
<1> DEFINE Messages == Seq([from : Player, join : BOOLEAN])
<1>1. /\ At(r, "idle") /\ RoomReaders(r) = {} /\ Goto(r, "handling", None, r)
      /\ UNCHANGED <<registered, roomOf, read, crashed, hosted>>
  BY DEF HandleMessage, HandleTimeout
<1>2. PcKept
  <2>1. Sound(r, Stage("handling", None, r)) BY StageFields DEF Sound, RoomStages
  <2>2. "handling" \in Stages \ {"new", "register", "unregister", "closed"} BY DEF Stages
  <2>3. pc[r].at \notin {"new", "register", "unregister", "closed"} BY <1>1 DEF At
  <2> QED BY <1>1, <2>1, <2>2, <2>3, MoveStep
<1>3. CASE HandleTimeout(r)
  <2>1. DataOK' BY <1>3, DataUnchanged, Parts DEF HandleTimeout
  <2> QED BY <1>2, <2>1
<1>4. CASE HandleMessage(r)
  <2>1. /\ messages[r] # <<>> /\ messages' = [messages EXCEPT ![r] = Tail(@)]
        /\ UNCHANGED shown \/ LetIn(r, Head(messages[r]).from)
    BY <1>4 DEF HandleMessage
  <2>2. messages[r] \in Messages /\ messages \in [Room -> Messages]
    BY Parts DEF DataOK
  <2>3. /\ Head(messages[r]) \in [from : Player, join : BOOLEAN]
        /\ Tail(messages[r]) \in Messages
        /\ Len(Tail(messages[r])) = Len(messages[r]) - 1 /\ Len(messages[r]) \in Nat
    <3> HIDE DEF Messages
    <3>1. Messages = Seq([from : Player, join : BOOLEAN]) BY DEF Messages
    <3> QED BY <2>1, <2>2, <3>1, HeadTailProperties, LenProperties
  <2>4. messages' \in [Room -> Messages]
    <3> HIDE DEF Messages
    <3> QED BY <2>1, <2>2, <2>3
  <2>5. \A q \in Room : Len(messages'[q]) <= QueueCap
    <3>1. \A q \in Room : q # r => messages'[q] = messages[q] BY <2>1, <2>2
    <3>2. messages'[r] = Tail(messages[r]) BY <2>1, <2>2
    <3>3. Len(messages[r]) <= QueueCap BY Parts DEF DataOK
    <3>4. Len(messages'[r]) <= QueueCap BY <2>3, <3>2, <3>3, HubAssumption
    <3> QED BY <3>1, <3>4, Parts DEF DataOK
  <2>6. Head(messages[r]).from \in Player BY <2>3
  <2>7. shown' \in [Room -> [Player -> {"absent", "connected", "disconnected"}]]
    <3>1. shown \in [Room -> [Player -> {"absent", "connected", "disconnected"}]]
      BY Parts DEF DataOK
    <3>2. \/ shown' = shown
          \/ shown' = [shown EXCEPT ![r][Head(messages[r]).from] = "connected"]
      BY <2>1 DEF LetIn
    <3> QED BY <2>6, <3>1, <3>2
  <2>8. DataOK' BY <1>1, <2>4, <2>5, <2>7, Parts DEF DataOK
  <2> QED BY <1>2, <2>8
<1> QED BY <1>3, <1>4

\* A handler ends: its room is unlocked.
LEMMA EndHandlerStep ==
  ASSUME HubInv, NEW r \in Room, EndHandler(r)
  PROVE  DataOK' /\ PcKept
<1> USE Kinds
<1>1. /\ At(r, "handling")
      /\ UNCHANGED <<registered, roomOf, hosted, read, messages, shown>>
      /\ \/ Goto(r, "idle", None, None) /\ UNCHANGED crashed
         \/ crashed' = TRUE /\ UNCHANGED pc
  BY DEF EndHandler, Broadcast, ReadRoomIDs, Rest
<1>2. DataOK' BY <1>1, Parts DEF DataOK
<1>3. CASE Goto(r, "idle", None, None)
  <2>1. Sound(r, Stage("idle", None, None)) BY StageFields DEF Sound, RoomStages
  <2>2. "idle" \in Stages \ {"new", "register", "unregister", "closed"} BY DEF Stages
  <2>3. pc[r].at \notin {"new", "register", "unregister", "closed"} BY <1>1 DEF At
  <2> QED BY <1>1, <1>2, <1>3, <2>1, <2>2, <2>3, MoveStep
<1>4. CASE UNCHANGED pc
  <2>1. UNCHANGED <<pc, registered>> BY <1>1, <1>4
  <2> QED BY <1>2, <2>1, NoMove
<1> QED BY <1>1, <1>3, <1>4

\* Whatever a room does keeps the invariant.
LEMMA RoomStep ==
  ASSUME HubInv, NEW r \in Room,
         CreateRoom(r) \/ HandleMessage(r) \/ HandleTimeout(r) \/ EndHandler(r)
  PROVE  DataOK' /\ PcKept
  BY CreateRoomStep, HandleStep, EndHandlerStep

-----------------------------------------------------------------------------
(* The invariant.                                                          *)

\* In the beginning nobody waits and nothing is locked.
LEMMA HubInit == Init => HubInv
<1> SUFFICES ASSUME Init PROVE HubInv
  OBVIOUS
<1> USE Kinds, HubAssumption
<1>1. \A x \in Process : pc[x] = Stage(IF x \in Session THEN "new" ELSE "idle", None, None)
  BY DEF Init
<1>2. pc \in [Process -> StageSet]
  BY StageFields DEF Init, Stages
<1>3. \A x \in Process : pc[x].at \in {"new", "idle"} /\ (pc[x].at = "new" => x \in Session)
  BY <1>1, StageFields
<1>4. StagesOK
  BY <1>3, Kinds DEF StagesOK, Sound, SessionStages, RoomStages, HubStages
<1>5. RegistryOK
  BY <1>3 DEF Init, RegistryOK, At
<1>6. \A r \in Room : ~RoomLocked(r) BY <1>3 DEF RoomLocked, At
<1>7. DataOK
  <2>1. messages \in [Room -> Seq([from : Player, join : BOOLEAN])]
    BY DEF Init
  <2>2. \A r \in Room : Len(messages[r]) <= QueueCap
    BY DEF Init
  <2>3. read \in 0..MaxRead BY DEF Init
  <2>4. shown \in [Room -> [Player -> {"absent", "connected", "disconnected"}]]
    BY DEF Init
  <2> QED BY <2>1, <2>2, <2>3, <2>4 DEF Init, DataOK
<1> QED BY <1>2, <1>4, <1>5, <1>6, <1>7 DEF HubInv, HubTypeOK, DataOK, StageSet

\* Every step keeps the invariant.
LEMMA HubNext == HubInv /\ [Next]_vars => HubInv'
<1> SUFFICES ASSUME HubInv, [Next]_vars PROVE HubInv'
  OBVIOUS
<1>1. CASE UNCHANGED vars
  BY <1>1, NoMove, DataUnchanged, Parts, Whole DEF vars
<1>2. CASE HubStep
  BY <1>2, HubStepKeeps
<1>3. ASSUME NEW s \in Session, ClientStep(s) \/ PumpStep(s) PROVE HubInv'
  BY <1>3, SessionStep, Whole
<1>4. ASSUME NEW r \in Room, CreateRoom(r) \/ HandleMessage(r) \/ HandleTimeout(r) \/ EndHandler(r)
      PROVE  HubInv'
  BY <1>4, RoomStep, Whole
<1> QED BY <1>1, <1>2, <1>3, <1>4 DEF Next, Crashed

\* The invariant of the hub.
LEMMA HubInvariant == Spec => []HubInv
  BY HubInit, HubNext, PTL DEF Spec

\* Every variable of the hub keeps its type, a room's channel never holds more
\* than its capacity, and a room's mutex lets in one handler or readers only
\* (Room.mu, HandlePlayerMessage).
THEOREM HubTypeCorrect == Spec => []HubTypeOK
  BY HubInvariant, PTL DEF HubInv

-----------------------------------------------------------------------------
(* Nobody waits in a circle: a process waits only for processes of a lower *)
(* rank.                                                                   *)

Rank(x) ==
  IF pc[x].at \in {"closing", "joining", "sending"} THEN 3
  ELSE IF pc[x].at \in {"leaving", "announcing"} \/ (x \in Room /\ At(x, "idle")) THEN 2
  ELSE IF pc[x].at \in {"broadcasting", "handling", "register", "unregister"} THEN 1
  ELSE 0

\* Whom a process waits for is of a lower rank.
LEMMA WaitsDownwards ==
  ASSUME HubInv, NEW x \in Process, NEW y \in WaitsFor(x)
  PROVE  Rank(y) < Rank(x)
<1> USE Kinds
<1>1. CASE pc[x].at = "closing"
  <2>1. y = HubLoop BY <1>1 DEF WaitsFor, At
  <2>2. Rank(HubLoop) < 3 BY Parts DEF StagesOK, Sound, HubStages, Rank
  <2> QED BY <1>1, <2>1, <2>2 DEF Rank
<1>2. CASE pc[x].at \in {"joining", "sending"}
  <2>1. y = pc[x].room BY <1>2 DEF WaitsFor, At
  <2>2. y \in Room BY <1>2, <2>1, Parts DEF StagesOK, Sound
  <2>3. Rank(y) < 3 BY <2>2, Parts DEF StagesOK, Sound, RoomStages, Rank
  <2> QED BY <1>2, <2>3 DEF Rank
<1>3. CASE pc[x].at \in {"leaving", "announcing"}
  <2>1. At(y, "handling") \/ At(y, "broadcasting")
    BY <1>3 DEF WaitsFor, RoomHolder, RoomReaders, RoomLocked, At
  <2> QED BY <1>3, <2>1, Parts DEF Rank, At
<1>4. CASE x \in Room /\ At(x, "idle")
  <2>1. y \in RoomReaders(x) BY <1>4 DEF WaitsFor, At
  <2>2. At(y, "broadcasting") BY <2>1 DEF RoomReaders
  <2> QED BY <1>4, <2>2 DEF Rank, At
<1>5. CASE pc[x].at \in {"broadcasting", "handling", "register", "unregister"}
  <2>1. y = HubLoop /\ HubLocked BY <1>5 DEF WaitsFor, HubHolder, At
  <2> QED BY <1>5, <2>1 DEF Rank, HubLocked, At
<1>6. CASE ~(\/ pc[x].at \in {"closing", "joining", "sending", "leaving", "announcing", "broadcasting",
                              "handling", "register", "unregister"}
             \/ x \in Room /\ At(x, "idle"))
  BY <1>6 DEF WaitsFor, At
<1> QED BY <1>1, <1>2, <1>3, <1>4, <1>5, <1>6

\* A process of the lowest rank in a group waits for nobody in it.
LEMMA SomebodyGoesOn == HubInv => NoWaitCycle
<1> SUFFICES ASSUME HubInv, NEW group \in SUBSET Process, group # {}
             PROVE  \E x \in group : WaitsFor(x) \cap group = {}
  BY DEF NoWaitCycle
<1>1. \A x : Rank(x) \in 0..3 BY DEF Rank
<1>2. PICK x \in group : \A y \in group : Rank(x) <= Rank(y)
  <2>1. CASE \E x \in group : Rank(x) = 0 BY <1>1, <2>1
  <2>2. CASE (\A x \in group : Rank(x) # 0) /\ \E x \in group : Rank(x) = 1 BY <1>1, <2>2
  <2>3. CASE (\A x \in group : Rank(x) \notin {0, 1}) /\ \E x \in group : Rank(x) = 2 BY <1>1, <2>3
  <2>4. CASE \A x \in group : Rank(x) \notin {0, 1, 2} BY <1>1, <2>4
  <2> QED BY <2>1, <2>2, <2>3, <2>4
<1>3. \A y \in WaitsFor(x) : y \notin group
  <2> TAKE y \in WaitsFor(x)
  <2>1. Rank(y) < Rank(x) BY WaitsDownwards
  <2> QED BY <1>1, <1>2, <2>1
<1> QED BY <1>3

\* The hub's loop, the pumps and the rooms never all wait for one another: the
\* order in which they take Hub.mu, the rooms' mutexes and their channels has
\* no circle (Run, HandlePlayerDisconnect, HandlePlayerMessage).
THEOREM HubNoWaitCycle == Spec => []NoWaitCycle
  BY HubInvariant, SomebodyGoesOn, PTL

-----------------------------------------------------------------------------
(* The hub implements a registry of one session per player.                *)

\* Every step of the hub is a step of the registry, or leaves it alone.
LEMMA RegistryStep ==
  ASSUME HubInv, [Next]_vars
  PROVE  [Registry!Next]_Registry!registryVars
<1>1. UNCHANGED <<registered, Arrived, Ended>> => UNCHANGED Registry!registryVars
  BY DEF Registry!registryVars, Ended, Arrived
<1>2. PcKept /\ UNCHANGED registered => UNCHANGED Registry!registryVars
  BY <1>1 DEF PcKept
<1>3. CASE UNCHANGED vars
  BY <1>2, <1>3, NoMove DEF vars
<1>4. ASSUME NEW s \in Session, ReceiveUnregister(s)
      PROVE  Registry!End(s)
  BY <1>4, ReceiveUnregisterStep DEF Registry!End, Ended
<1>5. CASE UpdateClients /\ At(HubLoop, "register")
  <2> DEFINE s == pc[HubLoop].who
  <2>1. /\ s \in Session \ Arrived /\ Arrived' = Arrived \cup {s} /\ Ended' = Ended
        /\ registered' = {t \in registered : PlayerOf[t] # PlayerOf[s]} \cup {s}
    BY <1>5, RegisterStep
  <2> QED BY <2>1 DEF Registry!Open, Registry!Next, Ended
<1>6. CASE UpdateClients /\ At(HubLoop, "unregister")
  <2> DEFINE s == pc[HubLoop].who
  <2>1. /\ s \in Ended /\ Arrived' = Arrived /\ Ended' = Ended
        /\ registered' = registered \ {s}
    BY <1>6, UnregisterStep
  <2>2. CASE s \in registered
    <3>1. s \in Session BY <2>1 DEF Ended
    <3> QED BY <2>1, <2>2, <3>1 DEF Registry!Close, Registry!Next, Ended
  <2>3. CASE s \notin registered
    <3>1. registered' = registered BY <2>1, <2>3
    <3> QED BY <1>1, <2>1, <3>1
  <2> QED BY <2>2, <2>3
<1>7. CASE UnlockHub
  BY <1>2, <1>7, UnlockHubStep DEF UnlockHub
<1>8. ASSUME NEW s \in Session, ReceiveRegister(s)
      PROVE  UNCHANGED Registry!registryVars
  BY <1>2, <1>8, ReceiveRegisterStep DEF ReceiveRegister
<1>9. CASE StartNotice(HubLoop) \/ LockForReading(HubLoop) \/ EndNotice(HubLoop, Rest(HubLoop))
  BY <1>2, <1>9, StartNoticeStep, LockForReadingStep, HubEndNoticeStep
  DEF StartNotice, LockForReading, EndNotice
<1>10. ASSUME NEW s \in Session, ClientStep(s) \/ PumpStep(s)
       PROVE  UNCHANGED Registry!registryVars
  <2>1. UNCHANGED registered
    BY <1>10 DEF ClientStep, PumpStep, ReadJoin, ReadOther, ReadLeave, ConnectionEnds, StoreRoom,
                 Enqueue, ForgetRoom, StartNotice, LockForReading, EndNotice
  <2> QED BY <1>2, <1>10, <2>1, SessionStep
<1>11. ASSUME NEW r \in Room,
              CreateRoom(r) \/ HandleMessage(r) \/ HandleTimeout(r) \/ EndHandler(r)
       PROVE  UNCHANGED Registry!registryVars
  <2>1. UNCHANGED registered
    BY <1>11 DEF CreateRoom, HandleMessage, HandleTimeout, EndHandler
  <2> QED BY <1>2, <1>11, <2>1, RoomStep
<1>12. CASE HubStep
  <2>1. CASE UpdateClients BY <1>5, <1>6, <2>1 DEF UpdateClients
  <2> QED BY <1>4, <1>7, <1>8, <1>9, <1>12, <2>1 DEF HubStep, Registry!Next
<1> QED BY <1>3, <1>10, <1>11, <1>12 DEF Next, Crashed, vars, Registry!registryVars

\* The map of clients, the kicking of a player's older session and the
\* unregistering of sessions replaced long ago amount to a registry of one
\* session per player, the latest (Run).
THEOREM HubImplementsRegistry == Spec => ImplementsRegistry
<1>1. Init => Registry!Init
  <2> SUFFICES ASSUME Init PROVE Registry!Init
    OBVIOUS
  <2>1. \A s \in Session : At(s, "new")
    BY Kinds, StageFields DEF Init, At
  <2> QED BY <2>1 DEF Init, Registry!Init, Arrived, At
<1>2. HubInv /\ [Next]_vars => [Registry!Next]_Registry!registryVars
  BY RegistryStep
<1> QED BY <1>1, <1>2, HubInvariant, PTL DEF Spec, Registry!Spec, ImplementsRegistry
=============================================================================

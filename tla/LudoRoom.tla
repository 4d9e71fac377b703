------------------------------ MODULE LudoRoom ------------------------------
(***************************************************************************)
(* A room (internal/room/room.go): who is in it, the game they play, and   *)
(* the three parties that drive the game concurrently: the room's main     *)
(* loop, which takes messages from a channel one at a time; the callbacks  *)
(* of the turn timer; and the goroutines that play for bots.  They share   *)
(* the room's state under its mutex, so a handler is one step here, while  *)
(* the stages of a bot's turn, each with its own locking, are steps of     *)
(* their own.                                                              *)
(*                                                                         *)
(* The game itself is the TurnGame that LudoGame implements.  The room is  *)
(* a paid one.  A roll of the dice never fails (crypto/rand), and a        *)
(* settlement that the database refuses is not retried by the code; both   *)
(* are left out.                                                           *)
(***************************************************************************)
EXTENDS TurnGame, Sequences, FiniteSets, Bags, SequencesExt

CONSTANTS
  Human,        \* player IDs of people
  Bot,          \* player IDs handed to bots, one for every bot ever added
  Pending,      \* the host's ID until somebody joins ("pending-<name>")
  MaxPlayers,   \* RoomSettings.MaxPlayers
  QueueCap,     \* capacity of the messages channel
  MaxStarts,    \* bound: how often the host starts a game
  MaxInFlight   \* bound: queued messages, fired timeouts and bot goroutines

ASSUME RoomAssumption ==
  /\ MaxPlayers \in 2..4
  /\ QueueCap \in Nat \ {0} /\ MaxStarts \in Nat /\ MaxInFlight \in Nat
  /\ Human \cap Bot = {} /\ Pending \notin Human \cup Bot

VARIABLES
  status,       \* Room.status
  hostID,       \* Room.hostID
  players,      \* Room.players: the sessions, in order of arrival
  seats,        \* GameState.Players: the sessions when the game started
  messages,     \* Room.messages
  turnTimer,    \* is the turn timer armed?
  timeouts,     \* timer callbacks that have fired and wait for the mutex
  bots,         \* a bag of goroutines, each playing one turn of a bot
  freshBots,    \* bot IDs not handed out yet
  crashed,      \* a goroutine has panicked, and the process is gone
  starts,       \* games started
  locked,       \* players whose LockBet has succeeded
  settlements   \* the calls of SettleGame: for which start, and the pot in stakes

membership == <<status, hostID, players, locked>>
drivers    == <<messages, turnTimer, timeouts, bots>>
roomVars   == <<gameVars, membership, freshBots, drivers, seats, crashed, starts, settlements>>

Color == 0..3
Elements(s) == {s[i] : i \in 1..Len(s)}

-----------------------------------------------------------------------------
InRoom(id) == \E s \in Elements(players) : s.id = id

Session(id, color, bot) == [id |-> id, color |-> color, bot |-> bot]

\* A plausible slip: colours are handed out by the number of players.
NextAvailableColor_ByCount == Len(players) % 4

\* The first colour nobody has; red again if there is none left.
NextAvailableColor ==
  LET free == Color \ {s.color : s \in Elements(players)}
  IN  IF free = {} THEN 0 ELSE CHOOSE c \in free : \A d \in free : c <= d

HasGame == numPlayers > 0
CurrentPlayer == seats[turn + 1]
GameGoesOn == HasGame /\ status = "Playing"

StartTurnTimer == turnTimer' = TRUE

Goroutine(id, at, token) == SetToBag({[id |-> id, at |-> at, token |-> token]})

\* A plausible slip: no goroutine for a bot that has earned another turn.
TryBotTurn_NewTurnOnly ==
  LET p == seats'[turn' + 1]
  IN  IF turn' # turn /\ p.bot /\ \E s \in Elements(players') : s.id = p.id
      THEN Goroutine(p.id, "roll", None)
      ELSE EmptyBag

\* tryBotTurn, called with the state a handler leaves behind: a new goroutine
\* if the turn is a bot's and the bot is still in the room.
TryBotTurn ==
  LET p == seats'[turn' + 1]
  IN  IF p.bot /\ \E s \in Elements(players') : s.id = p.id
      THEN Goroutine(p.id, "roll", None)
      ELSE EmptyBag

-----------------------------------------------------------------------------
(* The handlers, under the room's mutex.  running is the bag of goroutines *)
(* to which the handler adds the one its tryBotTurn starts.                *)

Ignore(running) ==
  /\ bots' = running
  /\ UNCHANGED <<gameVars, membership, freshBots, seats, turnTimer, starts, settlements>>

\* LockBet takes the stake from the wallet or fails.
LockBet(p, ok) == locked' = IF ok THEN locked \cup {p} ELSE locked

\* The first to join takes the pending host's place, whether or not the stake
\* can be locked.
ClaimHost(p) ==
  /\ hostID' = p
  /\ players' = [players EXCEPT ![1].id = p]
  /\ \E ok \in BOOLEAN : LockBet(p, ok)

\* A plausible slip: a player is added whose stake could not be locked.
JoinAsGuest_Unfunded(p) ==
  /\ \E ok \in BOOLEAN : LockBet(p, ok)
  /\ players' = Append(players, Session(p, NextAvailableColor, FALSE))
  /\ UNCHANGED hostID

JoinAsGuest(p) ==
  \/ /\ LockBet(p, FALSE)
     /\ UNCHANGED <<players, hostID>>
  \/ /\ LockBet(p, TRUE)
     /\ players' = Append(players, Session(p, NextAvailableColor, FALSE))
     /\ UNCHANGED hostID

HandleJoin(p) ==
  IF status # "Waiting" \/ Len(players) >= MaxPlayers \/ InRoom(p)
  THEN Ignore(bots)
  ELSE /\ IF hostID = Pending THEN ClaimHost(p) ELSE JoinAsGuest(p)
       /\ UNCHANGED <<gameVars, status, freshBots, seats, turnTimer, bots, starts, settlements>>

\* A plausible slip: a new game with the players of the last one.
HandleStartGame_KeepSeats(p) ==
  IF p # hostID \/ Len(players) < 2
  THEN Ignore(bots)
  ELSE /\ NewGame(Len(players))
       /\ seats' = IF seats = <<>> THEN players ELSE seats
       /\ status' = "Playing"
       /\ starts' = starts + 1
       /\ StartTurnTimer
       /\ UNCHANGED <<hostID, players, freshBots, locked, settlements>>
       /\ bots' = bots (+) TryBotTurn

\* Also while a game is being played, and after it.
HandleStartGame(p) ==
  IF p # hostID \/ Len(players) < 2
  THEN Ignore(bots)
  ELSE /\ NewGame(Len(players))
       /\ seats' = players
       /\ status' = "Playing"
       /\ starts' = starts + 1
       /\ StartTurnTimer
       /\ UNCHANGED <<hostID, players, freshBots, locked, settlements>>
       /\ bots' = bots (+) TryBotTurn

RollRefused(id) == ~GameGoesOn \/ CurrentPlayer.id # id \/ phase # "WaitingForRoll"

\* The turn passes, or the roller is asked for his move.
HandleRollDice(id, running) ==
  IF RollRefused(id)
  THEN Ignore(running)
  ELSE /\ Roll
       /\ StartTurnTimer
       /\ UNCHANGED <<membership, freshBots, seats, starts, settlements>>
       /\ bots' = running (+) (IF phase' = "WaitingForRoll" THEN TryBotTurn ELSE EmptyBag)

\* One stake for every human in the room, unless a bot has won or nobody has
\* the winner's colour any more.
Humans == {i \in 1..Len(players) : ~players[i].bot}
WinnerIsHuman == \E i \in Humans : players[i].color = seats[winner' + 1].color
Settle ==
  settlements' = IF WinnerIsHuman
                 THEN Append(settlements, [game |-> starts, pot |-> Cardinality(Humans)])
                 ELSE settlements

MoveRefused(id, t) ==
  \/ ~GameGoesOn \/ CurrentPlayer.id # id \/ phase # "WaitingForMove"
  \/ \A o \in offer : o.token # t

\* A plausible slip: the status is left as it is when the game is over.
FinishOrGoOn_KeepPlaying ==
  IF Over(home')
  THEN Settle /\ UNCHANGED <<status, turnTimer, bots>>
  ELSE StartTurnTimer /\ bots' = bots (+) TryBotTurn /\ UNCHANGED <<status, settlements>>

\* The timer is left running when the game is over.
FinishOrGoOn ==
  IF Over(home')
  THEN status' = "Finished" /\ Settle /\ UNCHANGED <<turnTimer, bots>>
  ELSE StartTurnTimer /\ bots' = bots (+) TryBotTurn /\ UNCHANGED <<status, settlements>>

HandleMoveToken(id, t) ==
  IF MoveRefused(id, t)
  THEN Ignore(bots)
  ELSE /\ \E o \in offer : o.token = t /\ Play(o)
       /\ UNCHANGED <<hostID, players, freshBots, locked, seats, starts>>
       /\ FinishOrGoOn

\* Bots come and go in every status of the room.
HandleAddBot(p) ==
  IF p # hostID \/ Len(players) >= MaxPlayers
  THEN Ignore(bots)
  ELSE /\ \E b \in freshBots :
            /\ players' = Append(players, Session(b, NextAvailableColor, TRUE))
            /\ freshBots' = freshBots \ {b}
       /\ UNCHANGED <<gameVars, status, hostID, locked, seats, turnTimer, bots,
                      starts, settlements>>

\* The first bot of that colour leaves, if there is one.
HandleRemoveBot(p, c) ==
  LET hits == {i \in 1..Len(players) : players[i].bot /\ players[i].color = c}
  IN  IF p # hostID
      THEN Ignore(bots)
      ELSE /\ players' = IF hits = {} THEN players
                         ELSE RemoveAt(players, CHOOSE i \in hits : \A j \in hits : i <= j)
           /\ UNCHANGED <<gameVars, status, hostID, freshBots, locked, seats, turnTimer,
                          bots, starts, settlements>>

-----------------------------------------------------------------------------
(* The channel and the main loop (HandlePlayerMessage, Run).                *)

Message(from, type, arg) == [from |-> from, type |-> type, arg |-> arg]

InFlight == Len(messages) + timeouts + BagCardinality(bots)

Enqueue(m) == Len(messages) < QueueCap /\ messages' = Append(messages, m)

Queued(type) == {i \in 1..Len(messages) : messages[i].type = type}

\* What a client may send.  The bounds: only so many starts, and no more bots
\* than there are IDs for them.
ClientMessage(h) ==
  {Message(h, type, None) : type \in
     {"join_room", "roll_dice"}
       \cup (IF starts + Cardinality(Queued("start_game")) < MaxStarts
             THEN {"start_game"} ELSE {})
       \cup (IF Cardinality(Queued("add_bot")) < Cardinality(freshBots)
             THEN {"add_bot"} ELSE {})}
  \cup {Message(h, "move_token", t) : t \in Token}
  \cup {Message(h, "remove_bot", s.color) : s \in Elements(players)}

Send(h) ==
  /\ InFlight < MaxInFlight
  /\ \E m \in ClientMessage(h) : Enqueue(m)
  /\ UNCHANGED <<gameVars, membership, freshBots, turnTimer, timeouts, bots, seats,
                 crashed, starts, settlements>>

ProcessMessage ==
  /\ messages # <<>>
  /\ messages' = Tail(messages)
  /\ LET m == Head(messages)
     IN  \/ m.type = "join_room"  /\ HandleJoin(m.from)
         \/ m.type = "start_game" /\ HandleStartGame(m.from)
         \/ m.type = "roll_dice"  /\ HandleRollDice(m.from, bots)
         \/ m.type = "move_token" /\ HandleMoveToken(m.from, m.arg)
         \/ m.type = "add_bot"    /\ HandleAddBot(m.from)
         \/ m.type = "remove_bot" /\ HandleRemoveBot(m.from, m.arg)
  /\ UNCHANGED <<timeouts, crashed>>

-----------------------------------------------------------------------------
(* The turn timer.  Stopping it does not call back a callback that has      *)
(* already started and waits for the mutex.                                 *)

TimerFires ==
  /\ turnTimer
  /\ timeouts + BagCardinality(bots) < MaxInFlight
  /\ finishedCount <= numPlayers  \* bound: replays of a game that is over
  /\ turnTimer' = FALSE
  /\ timeouts' = timeouts + 1
  /\ UNCHANGED <<gameVars, membership, freshBots, messages, bots, seats, crashed,
                 starts, settlements>>

FirstOf(moves) == CHOOSE o \in moves : \A q \in moves : o.token <= q.token

\* A roll and, if it offers a move, the first of its moves, in one go.
AutoRollAndMove ==
  /\ phase = "WaitingForRoll"
  /\ \/ RollInVain
     \/ \E moves \in SUBSET Offer : Offering(moves) /\ PlayOf(FirstOf(moves), moves)

AutoMove == phase = "WaitingForMove" /\ Play(FirstOf(offer))

\* A plausible slip: the timer is not started again.
AutoTurn_NoTimer ==
  /\ AutoRollAndMove \/ AutoMove
  /\ UNCHANGED turnTimer
  /\ bots' = bots (+) TryBotTurn

\* A plausible slip: the timeout rolls but leaves the move to the player.
AutoTurn_OnlyRolls ==
  /\ Roll \/ (phase = "WaitingForMove" /\ UNCHANGED gameVars)
  /\ StartTurnTimer
  /\ bots' = bots (+) TryBotTurn

\* No look at whether the move has ended the game.
AutoTurn ==
  /\ AutoRollAndMove \/ AutoMove
  /\ StartTurnTimer
  /\ bots' = bots (+) TryBotTurn

HandleTurnTimeout ==
  /\ timeouts > 0
  /\ timeouts' = timeouts - 1
  /\ IF ~GameGoesOn \/ CurrentPlayer.bot
     THEN Ignore(bots)
     ELSE UNCHANGED <<membership, freshBots, seats, starts, settlements>> /\ AutoTurn
  /\ UNCHANGED <<messages, crashed>>

-----------------------------------------------------------------------------
(* A bot's turn: roll, look, think, choose, send (the goroutine of          *)
(* tryBotTurn).  Anything may happen between two stages.                    *)

At(g, stage) == g \in BagToSet(bots) /\ g.at = stage
Without(g) == bots (-) SetToBag({g})

BotRoll(g) ==
  /\ At(g, "roll")
  /\ BagCardinality(bots) <= MaxInFlight
  /\ HandleRollDice(g.id, Without(g) (+) Goroutine(g.id, "look", None))
  /\ UNCHANGED <<messages, timeouts, crashed>>

\* The phase and the offer, read again after the roll's lock was released.
BotLook(g) ==
  /\ At(g, "look")
  /\ bots' = Without(g) (+) (IF phase = "WaitingForMove" /\ offer # {}
                             THEN Goroutine(g.id, "choose", None) ELSE EmptyBag)
  /\ UNCHANGED <<gameVars, membership, freshBots, messages, turnTimer, timeouts, seats,
                 crashed, starts, settlements>>

\* ChooseMove picks one of the moves on offer by now; every strategy indexes
\* the list and panics when it is empty.
BotChoose(g) ==
  /\ At(g, "choose")
  /\ \/ \E o \in offer : /\ bots' = Without(g) (+) Goroutine(g.id, "send", o.token)
                         /\ UNCHANGED crashed
     \/ /\ offer = {}
        /\ crashed' = TRUE
        /\ UNCHANGED bots
  /\ UNCHANGED <<gameVars, membership, freshBots, messages, turnTimer, timeouts, seats,
                 starts, settlements>>

BotSend(g) ==
  /\ At(g, "send")
  /\ Enqueue(Message(g.id, "move_token", g.token))
  /\ bots' = Without(g)
  /\ UNCHANGED <<gameVars, membership, freshBots, turnTimer, timeouts, seats, crashed,
                 starts, settlements>>

BotStep(g) == BotRoll(g) \/ BotLook(g) \/ BotChoose(g) \/ BotSend(g)

-----------------------------------------------------------------------------
\* A room as CreateRoom leaves it: the pending host, and no game.
RoomInit ==
  /\ numPlayers = 0 /\ home = <<>> /\ turn = 0 /\ phase = "WaitingForRoll"
  /\ offer = {} /\ winner = None /\ finishedCount = 0 /\ finishOrder = <<>>
  /\ status = "Waiting"
  /\ hostID = Pending
  /\ players = <<Session(Pending, 0, FALSE)>>
  /\ seats = <<>>
  /\ messages = <<>>
  /\ turnTimer = FALSE
  /\ timeouts = 0
  /\ bots = EmptyBag
  /\ freshBots = Bot
  /\ crashed = FALSE
  /\ starts = 0
  /\ locked = {}
  /\ settlements = <<>>

\* After a panic the process is gone.
Crashed == crashed /\ UNCHANGED roomVars

RoomNext ==
  \/ \E h \in Human : ~crashed /\ Send(h)
  \/ ~crashed /\ ProcessMessage
  \/ ~crashed /\ TimerFires
  \/ ~crashed /\ HandleTurnTimeout
  \/ \E g \in BagToSet(bots) : ~crashed /\ BotStep(g)
  \/ Crashed

RoomSpec == RoomInit /\ [][RoomNext]_roomVars

\* The main loop, an armed timer and a callback waiting for the mutex all get
\* their turn; so does a bot waiting for room in the channel, because the
\* senders waiting on a channel are served in order.
FairRoomSpec ==
  /\ RoomSpec
  /\ WF_roomVars(~crashed /\ ProcessMessage)
  /\ WF_roomVars(~crashed /\ TimerFires)
  /\ WF_roomVars(~crashed /\ HandleTurnTimeout)
  /\ SF_roomVars(\E g \in BagToSet(bots) : ~crashed /\ BotStep(g))

-----------------------------------------------------------------------------
(* What the room promises.                                                 *)

\* Sessions of people and of bots.
PlayerSession ==
  [id : Human \cup {Pending}, color : Color, bot : {FALSE}]
    \cup [id : Bot, color : Color, bot : {TRUE}]

\* Anything may come from a client, and moves from a bot.
ChannelMessage ==
  [from : Human, type : {"join_room", "start_game", "roll_dice", "add_bot"}, arg : {None}]
    \cup [from : Human, type : {"remove_bot"}, arg : Color]
    \cup [from : Human \cup Bot, type : {"move_token"}, arg : Token]

BotGoroutine ==
  [id : Bot, at : {"roll", "look", "choose"}, token : {None}]
    \cup [id : Bot, at : {"send"}, token : Token]

\* Every variable has its type (Room, PlayerSession, GameState).
RoomTypeOK ==
  /\ status \in {"Waiting", "Playing", "Finished"}
  /\ hostID \in Human \cup {Pending}
  /\ players \in Seq(PlayerSession) /\ seats \in Seq(PlayerSession)
  /\ numPlayers = Len(seats)
  /\ home \in [Seat -> SUBSET Token]
  /\ turn \in 0..3
  /\ phase \in {"WaitingForRoll", "WaitingForMove"}
  /\ offer \subseteq Offer
  /\ winner \in Seat \cup {None}
  /\ finishedCount \in Nat /\ finishOrder \in [Seat -> 0..finishedCount]
  /\ messages \in Seq(ChannelMessage) /\ Len(messages) <= QueueCap
  /\ turnTimer \in BOOLEAN /\ timeouts \in Nat
  /\ IsABag(bots) /\ BagToSet(bots) \subseteq BotGoroutine /\ freshBots \subseteq Bot
  /\ crashed \in BOOLEAN /\ starts \in 0..MaxStarts
  /\ locked \subseteq Human /\ settlements \in Seq([game : Nat, pot : Nat])

\* However people join and bots come and go, a room has at most MaxPlayers
\* players, no two with one ID or one colour: the engine tells the players of
\* a game apart by their colour alone (GetPlayerByColor).
SeatsDistinct ==
  /\ Len(players) \in 1..MaxPlayers
  /\ \A i, j \in 1..Len(players) :
       i # j => players[i].id # players[j].id /\ players[i].color # players[j].color

\* A person's turn never hangs on that person: while it lasts the turn timer
\* is armed or its callback is about to run, whichever handler, callback or
\* goroutine handed the turn over and whatever was stopped on the way.
HumanTurnTimed ==
  GameGoesOn /\ ~CurrentPlayer.bot => turnTimer \/ timeouts > 0

\* A bot's turn is always being played, although nothing times it: somebody
\* is about to roll for it, or to look at the roll, or its move of a token
\* on offer is on the way (the goroutine of tryBotTurn), as long as the bot
\* has not been removed from the room.
BotTurnDriven ==
  GameGoesOn /\ ~crashed /\ CurrentPlayer.bot /\ InRoom(CurrentPlayer.id) =>
    IF phase = "WaitingForRoll"
    THEN \E g \in BagToSet(bots) : g.id = CurrentPlayer.id /\ g.at = "roll"
    ELSE \E o \in offer :
           \/ \E g \in BagToSet(bots) :
                 g.id = CurrentPlayer.id /\ (g.at \in {"look", "choose"} \/ g.token = o.token)
           \/ \E i \in 1..Len(messages) :
                 messages[i] = Message(CurrentPlayer.id, "move_token", o.token)

\* Everybody who plays for money has paid in, the host excepted (see
\* PotIsLocked): handleJoin adds nobody whose stake LockBet has refused.
GuestsFunded ==
  \A i \in 2..Len(players) : ~players[i].bot => players[i].id \in locked

\* A game is settled at most once each time it is started, although the turn
\* timer goes on after the last move and the winner's move stays on offer
\* (handleMoveToken).
SettledOncePerStart ==
  \A i, j \in 1..Len(settlements) : i # j => settlements[i].game # settlements[j].game

\* A person who does not choose a move cannot hold up the game: the timeout
\* does it (handleTurnTimeout).
AwaitedMoveIsMade ==
  GameGoesOn /\ ~Over(home) /\ ~CurrentPlayer.bot /\ phase = "WaitingForMove"
    ~> phase = "WaitingForRoll" \/ Over(home) \/ crashed

-----------------------------------------------------------------------------
(* What the repository says of the room and the code does not keep.         *)

\* ai/bot.go: a strategy is handed a list of valid moves to choose from.  The
\* choice is made from a list read again after a pause, which may be empty.
NoEmptyChoice == ~crashed

\* handleTurnTimeout: an auto-move is a valid move, so whenever it ranks a
\* player it brings a token home; it never plays one that is home already.
AutoMovePicksValidMove ==
  [][timeouts' < timeouts /\ finishedCount' > finishedCount => home' # home]_roomVars

\* wallet/service.go, SettleGame: the winner gets a share of the pot, which is
\* made of the stakes that the players have locked.
PotIsLocked ==
  \A i \in 1..Len(settlements) : settlements[i].pot <= Cardinality(locked)
=============================================================================

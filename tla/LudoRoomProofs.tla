--------------------------- MODULE LudoRoomProofs ---------------------------
(***************************************************************************)
(* Theorems about a room, for every set of people and bots, every number   *)
(* of tokens and every capacity of the channel.                            *)
(***************************************************************************)
EXTENDS LudoRoom, FiniteSetTheorems, SequenceTheorems, WellFoundedInduction, TLAPS

-----------------------------------------------------------------------------
(* First elements.                                                         *)

NatLess == {ss \in Nat \X Nat : ss[1] < ss[2]}

\* A nonempty set of naturals has a smallest element: a loop over players,
\* colours or tokens stops at the first hit.
LEMMA SmallestNat ==
  ASSUME NEW S \in SUBSET Nat, S # {}
  PROVE  \E k \in S : \A j \in S : k <= j
<1>1. IsWellFoundedOn(NatLess, Nat)
  BY NatLessThanWellFounded DEF OpToRel, NatLess
<1>2. PICK k \in S : \A j \in S : ~(<<j, k>> \in NatLess)
  BY <1>1, WFMin
<1>3. \A j \in S : ~(j < k)
  BY <1>2 DEF NatLess
<1> QED BY <1>3

-----------------------------------------------------------------------------
(* The bag of goroutines.                                                  *)

\* Starting goroutines.
LEMMA BagAdd ==
  ASSUME NEW A, NEW B, IsABag(A), IsABag(B)
  PROVE  IsABag(A (+) B) /\ BagToSet(A (+) B) = BagToSet(A) \cup BagToSet(B)
  BY DEF IsABag, BagToSet, (+)

\* One goroutine of a kind ends: the others stay.
LEMMA BagRemove ==
  ASSUME NEW A, NEW g, IsABag(A)
  PROVE  /\ IsABag(A (-) SetToBag({g}))
         /\ BagToSet(A (-) SetToBag({g})) \subseteq BagToSet(A)
         /\ BagToSet(A) \ {g} \subseteq BagToSet(A (-) SetToBag({g}))
  BY DEF IsABag, BagToSet, (-), SetToBag

\* The bag of one goroutine, and of none.
LEMMA BagOfOne ==
  ASSUME NEW g
  PROVE  IsABag(SetToBag({g})) /\ BagToSet(SetToBag({g})) = {g}
  BY DEF IsABag, BagToSet, SetToBag

\* No goroutine is in the empty bag.
LEMMA BagOfNone == IsABag(EmptyBag) /\ BagToSet(EmptyBag) = {}
  BY DEF IsABag, BagToSet, EmptyBag, SetToBag

-----------------------------------------------------------------------------
(* The game.                                                               *)

\* The state of a game that is played, or of none.
GameTypeOK ==
  /\ numPlayers \in 0..4
  /\ numPlayers > 0 => turn \in Seat
  /\ turn \in 0..3
  /\ home \in [Seat -> SUBSET Token]
  /\ phase \in {"WaitingForRoll", "WaitingForMove"}
  /\ offer \subseteq Offer
  /\ winner \in Seat \cup {None}
  /\ finishedCount \in Nat /\ finishOrder \in [Seat -> 0..finishedCount]

\* The turn stays at the table.
LEMMA NextSeatFact ==
  ASSUME numPlayers \in Nat \ {0}, NEW h, NEW p \in Seat
  PROVE  NextSeat(h, p) \in Seat
<1> DEFINE After(offset) == (p + offset) % numPlayers
           live == {o \in 1..numPlayers : ~AllHome(h, After(o))}
           first == CHOOSE o \in live : \A q \in live : o <= q
<1>1. CASE live = {}
  BY <1>1 DEF NextSeat
<1>2. CASE live # {}
  <2>1. first \in live
    <3>1. live \subseteq Nat OBVIOUS
    <3> HIDE DEF live
    <3> QED BY <3>1, <1>2, SmallestNat
  <2>2. first \in Nat /\ p \in Nat
    <3>1. live \subseteq Nat OBVIOUS
    <3> HIDE DEF live, first
    <3> QED BY <3>1, <2>1 DEF Seat
  <2>3. (p + first) % numPlayers \in 0..(numPlayers - 1)
    <3> HIDE DEF first
    <3> QED BY <2>2
  <2>4. NextSeat(h, p) = After(first)
    BY <1>2 DEF NextSeat
  <2> HIDE DEF first
  <2> QED BY <2>3, <2>4 DEF Seat
<1> QED BY <1>1, <1>2

\* The first move of a list with moves is one of them.
LEMMA FirstOfFact ==
  ASSUME NEW moves \in SUBSET Offer, moves # {}
  PROVE  FirstOf(moves) \in moves
<1> DEFINE toks == {o.token : o \in moves}
<1>1. toks \subseteq Nat /\ toks # {}
  BY TurnAssumption DEF Offer, Token
<1>2. PICK t \in toks : \A u \in toks : t <= u
  <2> HIDE DEF toks
  <2> QED BY <1>1, SmallestNat
<1>3. PICK o \in moves : o.token = t
  OBVIOUS
<1>4. \A q \in moves : o.token <= q.token
  BY <1>2, <1>3
<1> QED BY <1>4 DEF FirstOf

\* A new game of two to four players.
LEMMA NewGameFact ==
  ASSUME NEW n \in 2..4, NewGame(n)
  PROVE  GameTypeOK'
<1>1. home' \in [0..(n - 1) -> SUBSET Token]
  BY DEF NewGame
<1>2. finishOrder' \in [0..(n - 1) -> 0..0]
  BY DEF NewGame
<1> QED BY <1>1, <1>2 DEF NewGame, GameTypeOK, Seat

\* A roll that moves nothing passes the turn on.
LEMMA RollInVainFact ==
  ASSUME GameTypeOK, numPlayers > 0, RollInVain
  PROVE  GameTypeOK' /\ numPlayers' = numPlayers
<1>1. turn' \in Seat
  BY NextSeatFact DEF RollInVain, GameTypeOK
<1> QED BY <1>1 DEF RollInVain, GameTypeOK, Seat

\* A roll either passes the turn or keeps it and offers a move.
LEMMA RollFact ==
  ASSUME GameTypeOK, numPlayers > 0, Roll
  PROVE  /\ GameTypeOK' /\ numPlayers' = numPlayers
         /\ phase' = "WaitingForRoll" \/ (turn' = turn /\ \E o \in offer' : TRUE)
<1>1. CASE RollInVain
  BY <1>1, RollInVainFact DEF RollInVain
<1>2. ASSUME NEW moves \in SUBSET Offer, Offering(moves), RollOffers(moves)
      PROVE  /\ GameTypeOK' /\ numPlayers' = numPlayers
             /\ turn' = turn /\ \E o \in offer' : TRUE
  BY <1>2 DEF GameTypeOK, Offering, RollOffers, Seat
<1> QED BY <1>1, <1>2 DEF Roll

\* A move keeps the game a game; unless it ends it, a roll is awaited.
LEMMA PlayOfFact ==
  ASSUME GameTypeOK, numPlayers > 0,
         NEW o \in Offer, NEW moves \in SUBSET Offer, PlayOf(o, moves)
  PROVE  /\ GameTypeOK' /\ numPlayers' = numPlayers
         /\ phase' = "WaitingForRoll" \/ (turn' = turn /\ Over(home'))
<1>1. turn \in Seat /\ HomeAfter(o) \in [Seat -> SUBSET Token]
  BY DEF GameTypeOK, HomeAfter, Offer
<1>2. home' = HomeAfter(o) /\ numPlayers' = numPlayers /\ Seat' = Seat
  BY DEF PlayOf, Seat
<1>3. turn' \in Seat
  BY <1>1, NextSeatFact DEF PlayOf, KeepTurn, YieldTurn, GameTypeOK
<1>4. /\ winner' \in Seat \cup {None}
      /\ finishedCount' \in Nat /\ finishOrder' \in [Seat -> 0..finishedCount']
  <2>1. CASE LastHome(o)
    <3>1. /\ finishedCount' = finishedCount + 1
          /\ finishOrder' = [finishOrder EXCEPT ![turn] = finishedCount + 1]
          /\ winner' = IF finishedCount = 0 THEN turn ELSE winner
      BY <2>1 DEF PlayOf, Rank
    <3> QED BY <3>1, <1>1 DEF GameTypeOK
  <2>2. CASE ~LastHome(o)
    BY <2>2 DEF PlayOf, Rank, GameTypeOK
  <2> QED BY <2>1, <2>2
<1>5. /\ phase' \in {"WaitingForRoll", "WaitingForMove"} /\ offer' \subseteq Offer
      /\ phase' = "WaitingForRoll" \/ (turn' = turn /\ Over(HomeAfter(o)))
  BY DEF PlayOf
<1>6. Over(home') <=> Over(HomeAfter(o))
  BY <1>2
<1>7. turn' \in 0..3
  BY <1>3 DEF GameTypeOK, Seat
<1> QED BY <1>1, <1>2, <1>3, <1>4, <1>5, <1>6, <1>7 DEF GameTypeOK

\* What the timeout plays is a roll or a move.
LEMMA AutoFact ==
  ASSUME GameTypeOK, numPlayers > 0, AutoRollAndMove \/ AutoMove
  PROVE  /\ GameTypeOK' /\ numPlayers' = numPlayers
         /\ phase' = "WaitingForRoll" \/ (turn' = turn /\ Over(home'))
<1>1. CASE AutoMove
  <2>1. FirstOf(offer) \in Offer /\ PlayOf(FirstOf(offer), offer) /\ offer \subseteq Offer
    BY <1>1 DEF AutoMove, Play, GameTypeOK
  <2> QED BY <2>1, PlayOfFact
<1>2. CASE RollInVain
  BY <1>2, RollInVainFact DEF RollInVain
<1>3. ASSUME NEW moves \in SUBSET Offer, Offering(moves), PlayOf(FirstOf(moves), moves)
      PROVE  /\ GameTypeOK' /\ numPlayers' = numPlayers
             /\ phase' = "WaitingForRoll" \/ (turn' = turn /\ Over(home'))
  <2>1. FirstOf(moves) \in Offer
    BY <1>3, FirstOfFact DEF Offering
  <2> QED BY <2>1, <1>3, PlayOfFact
<1> QED BY <1>1, <1>2, <1>3 DEF AutoRollAndMove

-----------------------------------------------------------------------------
(* Who is in the room.                                                     *)

\* A person has joined under his ID, a bot has one of its own.
LEMMA SessionFact ==
  ASSUME NEW s \in PlayerSession
  PROVE  /\ s.bot \in BOOLEAN /\ s.color \in Color
         /\ s.bot => s.id \in Bot
         /\ ~s.bot => s.id \in Human \cup {Pending}
  BY DEF PlayerSession

\* Sessions are made for people and for bots.
LEMMA SessionTyped ==
  ASSUME NEW c \in Color
  PROVE  /\ \A p \in Human \cup {Pending} : Session(p, c, FALSE) \in PlayerSession
         /\ \A b \in Bot : Session(b, c, TRUE) \in PlayerSession
  BY DEF Session, PlayerSession

\* Who is at the table and in the room: the first is the host, a person, and
\* no bot's ID is handed out twice.
Members ==
  /\ hostID \in Human \cup {Pending} /\ locked \subseteq Human /\ freshBots \subseteq Bot
  /\ players \in Seq(PlayerSession) /\ seats \in Seq(PlayerSession)
  /\ Len(players) \in 1..MaxPlayers /\ Len(seats) <= MaxPlayers
  /\ ~players[1].bot /\ (Len(seats) > 0 => ~seats[1].bot)
  /\ \A i \in 1..Len(players) : players[i].bot => players[i].id \notin freshBots
  /\ \A i \in 1..Len(seats) : seats[i].bot => seats[i].id \notin freshBots

Membership == Members /\ SeatsDistinct /\ GuestsFunded

\* No bot that has been handed out comes into the room.
NoBotReturns == \A b \in Bot \ freshBots : InRoom(b)' => InRoom(b)

\* The smallest colour nobody has is a colour nobody has, as long as there is
\* room for another player.
LEMMA NextAvailableColorFact ==
  ASSUME players \in Seq(PlayerSession), Len(players) < 4
  PROVE  /\ NextAvailableColor \in Color
         /\ \A i \in 1..Len(players) : players[i].color # NextAvailableColor
<1> DEFINE free == Color \ {s.color : s \in Elements(players)}
<1>1. free # {}
  <2>1. \A c \in Color : c \notin free => \E i \in 1..Len(players) : players[i].color = c
    BY DEF Elements
  <2>2. SUFFICES ASSUME free = {} PROVE FALSE
    OBVIOUS
  <2> HIDE DEF free
  <2>3. PICK i0 \in 1..Len(players) : players[i0].color = 0
    BY <2>1, <2>2 DEF Color
  <2>4. PICK i1 \in 1..Len(players) : players[i1].color = 1
    BY <2>1, <2>2 DEF Color
  <2>5. PICK i2 \in 1..Len(players) : players[i2].color = 2
    BY <2>1, <2>2 DEF Color
  <2>6. PICK i3 \in 1..Len(players) : players[i3].color = 3
    BY <2>1, <2>2 DEF Color
  <2>7. Len(players) \in 0..3
    <3> DEFINE n == Len(players)
    <3>1. n \in Nat /\ n < 4 BY LenProperties
    <3> HIDE DEF n
    <3>2. n \in 0..3 BY <3>1
    <3> QED BY <3>2 DEF n
  <2>8. i0 # i1 /\ i0 # i2 /\ i0 # i3 /\ i1 # i2 /\ i1 # i3 /\ i2 # i3
    BY <2>3, <2>4, <2>5, <2>6
  <2> QED BY <2>7, <2>8
<1>2. PICK c \in free : \A d \in free : c <= d
  <2>1. free \subseteq Nat BY DEF Color
  <2> HIDE DEF free
  <2> QED BY <1>1, <2>1, SmallestNat
<1>3. NextAvailableColor \in free
  BY <1>1, <1>2 DEF NextAvailableColor
<1> QED BY <1>3 DEF Elements

\* Two places in the list are two sessions.
LEMMA DistinctFact ==
  ASSUME SeatsDistinct, NEW i \in 1..Len(players), NEW j \in 1..Len(players), i # j
  PROVE  players[i].id # players[j].id /\ players[i].color # players[j].color
  BY DEF SeatsDistinct

\* A session with a new ID and the next colour joins.
LEMMA AppendFact ==
  ASSUME Members, SeatsDistinct, Len(players) < MaxPlayers,
         NEW p, NEW b \in BOOLEAN, ~InRoom(p),
         IF b THEN p \in Bot ELSE p \in Human,
         players' = Append(players, Session(p, NextAvailableColor, b))
  PROVE  /\ players' \in Seq(PlayerSession) /\ SeatsDistinct'
         /\ Len(players') = Len(players) + 1
         /\ \A i \in 1..Len(players) : players'[i] = players[i]
         /\ players'[Len(players')].id = p /\ players'[Len(players')].bot = b
<1> DEFINE c == NextAvailableColor
           s == Session(p, c, b)
<1>1. c \in Color /\ \A i \in 1..Len(players) : players[i].color # c
  BY RoomAssumption, NextAvailableColorFact DEF Members
<1>2. s \in PlayerSession /\ s.id = p /\ s.color = c /\ s.bot = b
  <2>1. CASE b = TRUE BY <1>1, <2>1, SessionTyped DEF Session
  <2>2. CASE b = FALSE BY <1>1, <2>2, SessionTyped DEF Session
  <2> QED BY <2>1, <2>2
<1>3. \A i \in 1..Len(players) : players[i].id # p
  BY DEF InRoom, Elements
<1> HIDE DEF c, s
<1>4. players' = Append(players, s)
  BY DEF c, s
<1>5. /\ players' \in Seq(PlayerSession) /\ Len(players') = Len(players) + 1
      /\ \A i \in 1..Len(players) : players'[i] = players[i]
      /\ players'[Len(players')] = s
  BY <1>2, <1>4 DEF Members
<1>6. SeatsDistinct'
  <2>1. Len(players') \in 1..MaxPlayers
    BY <1>5, RoomAssumption DEF Members
  <2>2. ASSUME NEW i \in 1..Len(players'), NEW j \in 1..Len(players'), i # j
        PROVE  players'[i].id # players'[j].id /\ players'[i].color # players'[j].color
    <3>1. CASE i \in 1..Len(players) /\ j \in 1..Len(players)
      BY <1>5, <2>2, <3>1 DEF SeatsDistinct
    <3>2. CASE i = Len(players') /\ j \in 1..Len(players)
      BY <1>1, <1>2, <1>3, <1>5, <2>2, <3>2
    <3>3. CASE j = Len(players') /\ i \in 1..Len(players)
      BY <1>1, <1>2, <1>3, <1>5, <2>2, <3>3
    <3> QED BY <1>5, <2>2, <3>1, <3>2, <3>3 DEF Members
  <2> QED BY <2>1, <2>2 DEF SeatsDistinct
<1> QED BY <1>2, <1>5, <1>6

\* Nobody comes or goes.
LEMMA MembershipUntouched ==
  ASSUME Membership, UNCHANGED <<membership, freshBots, seats>>
  PROVE  Membership' /\ NoBotReturns
  BY DEF Membership, Members, SeatsDistinct, GuestsFunded, NoBotReturns, InRoom, Elements,
         membership

\* The first to join becomes the host, in the pending host's place.
LEMMA ClaimHostFact ==
  ASSUME Membership, NEW p \in Human, ~InRoom(p), ClaimHost(p), UNCHANGED <<freshBots, seats>>
  PROVE  Membership' /\ NoBotReturns
<1> USE DEF Membership, Members
<1>1. players[1] \in PlayerSession /\ 1 \in 1..Len(players)
  OBVIOUS
<1>2. [players[1] EXCEPT !.id = p] \in PlayerSession
  BY <1>1, SessionFact DEF PlayerSession
<1>3. players' = [players EXCEPT ![1] = [players[1] EXCEPT !.id = p]]
  BY DEF ClaimHost
<1>4. /\ players' \in Seq(PlayerSession) /\ Len(players') = Len(players)
      /\ players'[1] = [players[1] EXCEPT !.id = p]
      /\ \A i \in 2..Len(players) : players'[i] = players[i]
  BY <1>1, <1>2, <1>3
<1>5. players'[1].id = p /\ players'[1].color = players[1].color /\ ~players'[1].bot
  BY <1>1, <1>4 DEF PlayerSession
<1>6. \A i \in 1..Len(players) : players[i].id # p
  BY DEF InRoom, Elements
<1>7. SeatsDistinct'
  <2>1. ASSUME NEW i \in 1..Len(players), NEW j \in 1..Len(players), i # j
        PROVE  players'[i].id # players'[j].id /\ players'[i].color # players'[j].color
    <3> DEFINE n == Len(players)
    <3>0. \A k \in 1..n : k # 1 => players'[k] = players[k] /\ players[k].color # players[1].color
      <4>1. n \in Nat OBVIOUS
      <4> HIDE DEF n
      <4>2. \A k \in 1..n : k # 1 => k \in 2..n BY <4>1
      <4>3. ASSUME NEW k \in 1..n, k # 1
            PROVE  players[k].color # players[1].color
        <5>1. 1 \in 1..Len(players) /\ k \in 1..Len(players)
          BY <1>1 DEF n
        <5> QED BY <4>3, <5>1, DistinctFact
      <4> QED BY <1>4, <4>2, <4>3 DEF n
    <3>1. CASE i = 1
      BY <1>5, <1>6, <2>1, <3>0, <3>1
    <3>2. CASE j = 1
      BY <1>5, <1>6, <2>1, <3>0, <3>2
    <3>3. CASE i # 1 /\ j # 1
      BY <1>4, <2>1, <3>3 DEF SeatsDistinct
    <3> QED BY <3>1, <3>2, <3>3
  <2> QED BY <1>4, <2>1 DEF SeatsDistinct
<1>8. locked \subseteq locked' /\ locked' \subseteq Human
  BY DEF ClaimHost, LockBet
<1>9. GuestsFunded'
  BY <1>4, <1>8 DEF GuestsFunded
<1>10. Members'
  BY <1>4, <1>5, <1>8 DEF ClaimHost
<1>11. NoBotReturns
  <2>1. p \notin Bot
    BY RoomAssumption
  <2>2. ASSUME NEW i \in 1..Len(players'), players'[i].id # p
        PROVE  players'[i] = players[i]
    <3>1. i # 1
      BY <1>5, <2>2
    <3>2. i \in 2..Len(players)
      BY <1>4, <3>1
    <3> QED BY <1>4, <3>2
  <2> QED BY <2>1, <2>2, <1>4 DEF NoBotReturns, InRoom, Elements
<1> QED BY <1>7, <1>9, <1>10, <1>11

\* A guest joins when his stake is locked (handleJoin).
LEMMA JoinAsGuestFact ==
  ASSUME Membership, NEW p \in Human, ~InRoom(p), Len(players) < MaxPlayers,
         JoinAsGuest(p), UNCHANGED <<freshBots, seats>>
  PROVE  Membership' /\ NoBotReturns
<1>1. CASE UNCHANGED <<players, hostID>> /\ LockBet(p, FALSE)
  BY <1>1, MembershipUntouched DEF LockBet, membership, Membership, Members, SeatsDistinct,
     GuestsFunded, NoBotReturns, InRoom, Elements
<1>2. CASE /\ LockBet(p, TRUE)
           /\ players' = Append(players, Session(p, NextAvailableColor, FALSE))
           /\ UNCHANGED hostID
  <2>1. /\ players' \in Seq(PlayerSession) /\ SeatsDistinct'
        /\ Len(players') = Len(players) + 1
        /\ \A i \in 1..Len(players) : players'[i] = players[i]
        /\ players'[Len(players')].id = p /\ players'[Len(players')].bot = FALSE
    BY <1>2, AppendFact DEF Membership
  <2>2. \A i \in 1..Len(players') : i \in 1..Len(players) \/ i = Len(players')
    BY <2>1 DEF Membership, Members
  <2>3. locked' = locked \cup {p}
    BY <1>2 DEF LockBet
  <2>4. GuestsFunded'
    BY <2>1, <2>2, <2>3 DEF GuestsFunded, Membership
  <2>5. Members'
    <3>1. Len(players') \in 1..MaxPlayers
      BY <2>1, RoomAssumption DEF Membership, Members
    <3>2. players'[1] = players[1]
      BY <2>1 DEF Membership, Members
    <3>3. \A i \in 1..Len(players') : players'[i].bot => players'[i].id \notin freshBots
      BY <2>1, <2>2 DEF Membership, Members
    <3> QED BY <1>2, <2>1, <2>3, <3>1, <3>2, <3>3 DEF Membership, Members
  <2>6. NoBotReturns
    <3>1. p \notin Bot
      BY RoomAssumption
    <3> QED BY <2>1, <2>2, <3>1 DEF NoBotReturns, InRoom, Elements
  <2> QED BY <2>1, <2>4, <2>5, <2>6 DEF Membership
<1> QED BY <1>1, <1>2 DEF JoinAsGuest

\* A new bot joins under an ID of its own.
LEMMA AddBotFact ==
  ASSUME Membership, Len(players) < MaxPlayers, NEW b \in freshBots,
         players' = Append(players, Session(b, NextAvailableColor, TRUE)),
         freshBots' = freshBots \ {b},
         UNCHANGED <<hostID, locked, seats>>
  PROVE  Membership' /\ NoBotReturns
<1>1. b \in Bot
  BY DEF Membership, Members
<1>2. ~InRoom(b)
  <2>1. ASSUME NEW i \in 1..Len(players), players[i].id = b
        PROVE  FALSE
    <3>1. players[i] \in PlayerSession
      BY DEF Membership, Members
    <3>2. CASE players[i].bot
      BY <2>1, <3>2 DEF Membership, Members
    <3>3. CASE ~players[i].bot
      BY <1>1, <2>1, <3>1, <3>3, SessionFact, RoomAssumption
    <3> QED BY <3>2, <3>3
  <2> QED BY <2>1 DEF InRoom, Elements
<1>3. /\ players' \in Seq(PlayerSession) /\ SeatsDistinct'
      /\ Len(players') = Len(players) + 1
      /\ \A i \in 1..Len(players) : players'[i] = players[i]
      /\ players'[Len(players')].id = b /\ players'[Len(players')].bot = TRUE
  BY <1>1, <1>2, AppendFact DEF Membership
<1>4. \A i \in 1..Len(players') : i \in 1..Len(players) \/ i = Len(players')
  BY <1>3 DEF Membership, Members
<1>5. GuestsFunded'
  <2>1. \A i \in 2..Len(players') : i \in 2..Len(players) \/ i = Len(players')
    BY <1>3 DEF Membership, Members
  <2>2. ASSUME NEW i \in 2..Len(players'), ~players'[i].bot
        PROVE  players'[i].id \in locked
    <3>0. i # Len(players')
      BY <1>3, <2>2
    <3>1. i \in 2..Len(players) /\ i \in 1..Len(players)
      BY <2>1, <3>0
    <3>2. players'[i] = players[i]
      BY <1>3, <3>1
    <3> QED BY <2>2, <3>1, <3>2 DEF GuestsFunded, Membership
  <2> QED BY <2>2 DEF GuestsFunded
<1>6. Members'
  <2>1. Len(players') \in 1..MaxPlayers
    BY <1>3, RoomAssumption DEF Membership, Members
  <2>2. players'[1] = players[1]
    BY <1>3 DEF Membership, Members
  <2>3. \A i \in 1..Len(players') : players'[i].bot => players'[i].id \notin freshBots'
    BY <1>3, <1>4 DEF Membership, Members
  <2>4. \A i \in 1..Len(seats') : seats'[i].bot => seats'[i].id \notin freshBots'
    BY DEF Membership, Members
  <2> QED BY <1>3, <2>1, <2>2, <2>3, <2>4 DEF Membership, Members
<1>7. NoBotReturns
  <2>1. \A i \in 1..Len(players') : players'[i].id # b => players'[i] = players[i]
                                                /\ i \in 1..Len(players)
    BY <1>3, <1>4
  <2>2. ASSUME NEW d \in Bot \ freshBots, NEW i \in 1..Len(players'), players'[i].id = d
        PROVE  i \in 1..Len(players) /\ players[i].id = d
    BY <2>1, <2>2
  <2>3. ASSUME NEW d \in Bot \ freshBots, InRoom(d)'
        PROVE  InRoom(d)
    <3>1. PICK i \in 1..Len(players') : players'[i].id = d
      BY <2>3 DEF InRoom, Elements
    <3> QED BY <2>2, <3>1 DEF InRoom, Elements
  <2> QED BY <2>3 DEF NoBotReturns
<1> QED BY <1>3, <1>5, <1>6, <1>7 DEF Membership

\* A bot leaves: those after it move up one place.
LEMMA RemoveBotFact ==
  ASSUME Membership, NEW k \in 1..Len(players), players[k].bot,
         players' = RemoveAt(players, k),
         UNCHANGED <<hostID, locked, freshBots, seats>>
  PROVE  Membership' /\ NoBotReturns
<1> DEFINE Old(i) == IF i < k THEN i ELSE i + 1
<1>1. Len(players) \in Nat /\ k \in 2..Len(players)
  BY DEF Membership, Members
<1>2. /\ players' \in Seq(PlayerSession) /\ Len(players') = Len(players) - 1
      /\ \A i \in 1..Len(players') : players'[i] = players[Old(i)]
  <2>1. /\ SubSeq(players, 1, k-1) \in Seq(PlayerSession)
        /\ Len(SubSeq(players, 1, k-1)) = k - 1
        /\ \A i \in 1..(k - 1) : SubSeq(players, 1, k-1)[i] = players[i]
    BY <1>1, SubSeqProperties DEF Membership, Members
  <2>2. /\ SubSeq(players, k+1, Len(players)) \in Seq(PlayerSession)
        /\ Len(SubSeq(players, k+1, Len(players))) = Len(players) - k
        /\ \A i \in 1..(Len(players) - k) :
              SubSeq(players, k+1, Len(players))[i] = players[k + i]
    BY <1>1, SubSeqProperties DEF Membership, Members
  <2> DEFINE a == SubSeq(players, 1, k-1)
             b == SubSeq(players, k+1, Len(players))
  <2>3. players' = a \o b
    BY DEF RemoveAt
  <2> HIDE DEF a, b
  <2>4. /\ a \in Seq(PlayerSession) /\ b \in Seq(PlayerSession)
        /\ Len(a) = k - 1 /\ Len(b) = Len(players) - k
    BY <2>1, <2>2 DEF a, b
  <2>5. /\ players' \in Seq(PlayerSession) /\ Len(players') = Len(players) - 1
        /\ \A i \in 1..Len(players') : players'[i] = IF i <= k - 1 THEN a[i] ELSE b[i - (k - 1)]
    BY <1>1, <2>3, <2>4, ConcatProperties
  <2>6. ASSUME NEW i \in 1..Len(players')
        PROVE  players'[i] = players[Old(i)]
    <3>1. CASE i < k
      BY <1>1, <2>1, <2>5, <3>1 DEF a
    <3>2. CASE ~(i < k)
      <4>1. i - (k - 1) \in 1..(Len(players) - k) /\ k + (i - (k - 1)) = i + 1
        BY <1>1, <2>5, <3>2
      <4> QED BY <1>1, <2>2, <2>5, <3>2, <4>1 DEF b
    <3> QED BY <3>1, <3>2
  <2> QED BY <2>5, <2>6
<1>3. /\ \A i \in 1..Len(players') : Old(i) \in 1..Len(players)
      /\ \A i, j \in 1..Len(players') : i # j => Old(i) # Old(j)
      /\ Old(1) = 1 /\ \A i \in 2..Len(players') : Old(i) \in 2..Len(players)
  BY <1>1, <1>2
<1> HIDE DEF Old
<1>4. SeatsDistinct'
  <2>1. Len(players') \in 1..MaxPlayers
    BY <1>1, <1>2, RoomAssumption DEF Membership, Members
  <2>2. ASSUME NEW i \in 1..Len(players'), NEW j \in 1..Len(players'), i # j
        PROVE  players'[i].id # players'[j].id /\ players'[i].color # players'[j].color
    <3>1. Old(i) \in 1..Len(players) /\ Old(j) \in 1..Len(players) /\ Old(i) # Old(j)
      BY <1>3, <2>2
    <3>2. /\ players[Old(i)].id # players[Old(j)].id
          /\ players[Old(i)].color # players[Old(j)].color
      BY <3>1, DistinctFact DEF Membership
    <3> QED BY <1>2, <3>2
  <2> QED BY <2>1, <2>2 DEF SeatsDistinct
<1>5. GuestsFunded'
  <2>1. \A i \in 2..Len(players') : i \in 1..Len(players')
    BY <1>1, <1>2
  <2> QED BY <1>2, <1>3, <2>1 DEF GuestsFunded, Membership
<1>6. Members'
  <2>1. Len(players') \in 1..MaxPlayers
    BY <1>1, <1>2, RoomAssumption DEF Membership, Members
  <2>2. players'[1] = players[1]
    BY <1>2, <1>3, <2>1
  <2> QED BY <1>2, <1>3, <2>1, <2>2 DEF Membership, Members
<1>7. NoBotReturns
  BY <1>2, <1>3 DEF NoBotReturns, InRoom, Elements
<1> QED BY <1>4, <1>5, <1>6, <1>7 DEF Membership

-----------------------------------------------------------------------------
(* The inductive invariant.                                                *)

\* The game is the one of the seats.
Table == GameTypeOK /\ numPlayers = Len(seats)

\* The timer, its callbacks and the goroutines.
Drivers ==
  /\ turnTimer \in BOOLEAN /\ timeouts \in Nat
  /\ IsABag(bots) /\ BagToSet(bots) \subseteq BotGoroutine
  /\ crashed \in BOOLEAN

\* The channel; a start that waits in it has its place among the starts.
Channel ==
  /\ messages \in Seq(ChannelMessage) /\ Len(messages) <= QueueCap
  /\ starts \in Nat /\ starts + Cardinality(Queued("start_game")) <= MaxStarts

\* Games are settled once, and a game that goes on has not been settled yet.
Settled ==
  /\ status \in {"Waiting", "Playing", "Finished"}
  /\ settlements \in Seq([game : Nat, pot : Nat]) /\ starts \in Nat
  /\ SettledOncePerStart
  /\ \A i \in 1..Len(settlements) :
       /\ settlements[i].game <= starts
       /\ status = "Playing" => settlements[i].game < starts

RoomInv ==
  Membership /\ Table /\ Drivers /\ Channel /\ Settled /\ HumanTurnTimed /\ BotTurnDriven

\* Every settlement names the game it was for.
LEMMA GamesSettled ==
  ASSUME Settled
  PROVE  /\ starts \in Nat /\ Len(settlements) \in Nat
         /\ \A i \in 1..Len(settlements) : settlements[i].game \in Nat
<1> DEFINE SettlementRow == [game : Nat, pot : Nat]
<1>1. settlements \in Seq(SettlementRow) /\ starts \in Nat BY DEF Settled
<1>2. \A x \in SettlementRow : x.game \in Nat OBVIOUS
<1> HIDE DEF SettlementRow
<1>3. Len(settlements) \in Nat /\ \A i \in 1..Len(settlements) : settlements[i] \in SettlementRow
  BY <1>1
<1> QED BY <1>1, <1>2, <1>3

\* Steps that settle nothing, and begin a game at most.
LEMMA NothingSettled ==
  ASSUME Settled, UNCHANGED settlements,
         status' \in {"Waiting", "Playing", "Finished"}, starts' \in Nat,
         \A i \in 1..Len(settlements) : settlements[i].game <= starts',
         status' = "Playing" => \A i \in 1..Len(settlements) : settlements[i].game < starts'
  PROVE  Settled'
<1>1. SettledOncePerStart' BY DEF Settled, SettledOncePerStart
<1>2. settlements' \in Seq([game : Nat, pot : Nat]) BY DEF Settled
<1>3. \A i \in 1..Len(settlements') :
        settlements'[i].game <= starts' /\ (status' = "Playing" => settlements'[i].game < starts')
  OBVIOUS
<1> QED BY <1>1, <1>2, <1>3 DEF Settled

\* The parts of the invariant are what the runs check.
LEMMA RoomInvImplies ==
  ASSUME RoomInv
  PROVE  RoomTypeOK /\ SeatsDistinct /\ GuestsFunded /\ HumanTurnTimed /\ BotTurnDriven
           /\ SettledOncePerStart
<1>1. starts \in 0..MaxStarts
  <2>1. IsFiniteSet(Queued("start_game"))
    <3>1. IsFiniteSet(1..Len(messages))
      BY FS_Interval DEF RoomInv, Channel
    <3> QED BY <3>1, FS_Subset DEF Queued
  <2>2. Cardinality(Queued("start_game")) \in Nat
    BY <2>1, FS_CardinalityType
  <2> QED BY <2>2, RoomAssumption DEF RoomInv, Channel
<1>2. RoomTypeOK
  BY <1>1 DEF RoomTypeOK, RoomInv, Membership, Members, Table, GameTypeOK, Drivers, Channel,
     Settled
<1> QED BY <1>2 DEF RoomInv, Membership, Settled, SettledOncePerStart

\* The room as it is created.
LEMMA RoomStarts == RoomInit => RoomInv
<1> SUFFICES ASSUME RoomInit PROVE RoomInv
  OBVIOUS
<1>1. Session(Pending, 0, FALSE) \in PlayerSession
  <2>1. 0 \in Color
    BY DEF Color
  <2> QED BY <2>1, SessionTyped
<1> DEFINE s == Session(Pending, 0, FALSE)
<1>2. ~s.bot
  BY DEF Session
<1> HIDE DEF s
<1>3. players = <<s>> /\ s \in PlayerSession /\ ~s.bot /\ Len(players) = 1 /\ players[1] = s
  BY <1>1, <1>2 DEF RoomInit, s
<1>4. Membership
  <2>1. Members
    <3>1. players \in Seq(PlayerSession) /\ seats \in Seq(PlayerSession) /\ Len(seats) = 0
      <4>1. seats = <<>>
        BY DEF RoomInit
      <4>2. \A S : <<>> \in Seq(S)
        BY EmptySeq
      <4>3. <<s>> \in Seq(PlayerSession)
        BY <1>3
      <4> QED BY <1>3, <4>1, <4>2, <4>3
    <3>2. Len(players) \in 1..MaxPlayers /\ Len(seats) <= MaxPlayers
      BY <1>3, <3>1, RoomAssumption
    <3>3. \A i \in 1..Len(players) : ~players[i].bot
      BY <1>3
    <3>4. \A i \in 1..Len(seats) : FALSE
      BY <3>1
    <3>5. hostID = Pending /\ locked = {} /\ freshBots = Bot
      BY DEF RoomInit
    <3> QED BY <1>3, <3>1, <3>2, <3>3, <3>4, <3>5 DEF Members
  <2>2. SeatsDistinct
    BY <1>3, RoomAssumption DEF SeatsDistinct
  <2>3. GuestsFunded
    BY <1>3 DEF GuestsFunded
  <2> QED BY <2>1, <2>2, <2>3 DEF Membership
<1>5. Table
  <2>1. Seat = {}
    BY DEF Seat, RoomInit
  <2>2. home \in [Seat -> SUBSET Token] /\ finishOrder \in [Seat -> 0..finishedCount]
    BY <2>1 DEF RoomInit
  <2> QED BY <2>2 DEF Table, GameTypeOK, RoomInit
<1>6. Drivers
  BY BagOfNone DEF Drivers, RoomInit
<1>7. Channel
  <2>1. Queued("start_game") = {}
    BY DEF Queued, RoomInit
  <2>2. messages \in Seq(ChannelMessage) /\ Len(messages) = 0 /\ starts = 0
    BY DEF RoomInit
  <2>3. Cardinality({}) = 0
    BY FS_EmptySet
  <2>4. Cardinality(Queued("start_game")) = 0
    BY <2>1, <2>3
  <2>5. Len(messages) <= QueueCap /\ starts + 0 <= MaxStarts /\ starts \in Nat
    BY <2>2, RoomAssumption
  <2> QED BY <2>2, <2>4, <2>5 DEF Channel
<1>8. Settled /\ HumanTurnTimed /\ BotTurnDriven
  BY DEF Settled, SettledOncePerStart, HumanTurnTimed, BotTurnDriven, GameGoesOn, HasGame, RoomInit
<1> QED BY <1>4, <1>5, <1>6, <1>7, <1>8 DEF RoomInv

-----------------------------------------------------------------------------
(* The channel.                                                            *)

\* Starts are counted in the channel.
LEMMA QueuedFinite ==
  ASSUME messages \in Seq(ChannelMessage), NEW type
  PROVE  IsFiniteSet(Queued(type)) /\ Cardinality(Queued(type)) \in Nat
<1>1. IsFiniteSet(1..Len(messages))
  BY FS_Interval
<1>2. IsFiniteSet(Queued(type))
  BY <1>1, FS_Subset DEF Queued
<1> QED BY <1>2, FS_CardinalityType

\* A message is put in the channel.
LEMMA EnqueueFact ==
  ASSUME Channel, NEW m \in ChannelMessage, Enqueue(m), UNCHANGED starts,
         m.type = "start_game" => starts + Cardinality(Queued("start_game")) < MaxStarts
  PROVE  Channel' /\ \A x \in Elements(messages) \cup {m} : x \in Elements(messages')
<1> DEFINE Q == Queued("start_game")
           n == Len(messages)
<1>1. /\ messages' \in Seq(ChannelMessage) /\ Len(messages') = n + 1 /\ n \in Nat
      /\ messages'[n + 1] = m /\ \A i \in 1..n : messages'[i] = messages[i]
  BY DEF Channel, Enqueue
<1>2. Len(messages') <= QueueCap
  BY <1>1, RoomAssumption DEF Enqueue
<1>3. Q' = IF m.type = "start_game" THEN Q \cup {n + 1} ELSE Q
  <2>1. \A i \in 1..(n + 1) : i \in 1..n \/ i = n + 1
    BY <1>1
  <2>2. n + 1 \notin 1..n /\ 1..n \subseteq 1..(n + 1) /\ n + 1 \in 1..(n + 1)
    BY <1>1
  <2>3. Q' = {i \in 1..(n + 1) : messages'[i].type = "start_game"}
    BY <1>1 DEF Queued
  <2>4. Q = {i \in 1..n : messages[i].type = "start_game"}
    BY DEF Queued
  <2> HIDE DEF n, Q
  <2> QED BY <2>1, <2>2, <2>3, <2>4, <1>1
<1>4. IsFiniteSet(Q) /\ Cardinality(Q) \in Nat /\ n + 1 \notin Q
  <2>1. n + 1 \notin 1..n
    BY <1>1
  <2> QED BY <2>1, QueuedFinite DEF Channel, Queued
<1>5. starts' + Cardinality(Q') <= MaxStarts
  <2>1. CASE m.type = "start_game"
    <3>1. Cardinality(Q') = Cardinality(Q) + 1
      BY <1>3, <1>4, <2>1, FS_AddElement
    <3> QED BY <3>1, <2>1, <1>4, RoomAssumption DEF Channel
  <2>2. CASE m.type # "start_game"
    BY <1>3, <2>2 DEF Channel
  <2> QED BY <2>1, <2>2
<1>6. \A x \in Elements(messages) \cup {m} : x \in Elements(messages')
  <2>1. \A i \in 1..n : i \in 1..(n + 1) /\ messages'[i] = messages[i]
    BY <1>1
  <2>2. n + 1 \in 1..(n + 1)
    BY <1>1
  <2> QED BY <1>1, <2>1, <2>2 DEF Elements
<1> QED BY <1>1, <1>2, <1>5, <1>6 DEF Channel

\* A message is taken from the channel.
LEMMA DequeueFact ==
  ASSUME Channel, messages # <<>>, messages' = Tail(messages), starts' \in Nat,
         starts' <= starts + (IF Head(messages).type = "start_game" THEN 1 ELSE 0)
  PROVE  /\ Channel' /\ Head(messages) \in ChannelMessage
         /\ \A x \in Elements(messages) : x = Head(messages) \/ x \in Elements(messages')
<1> DEFINE Q == Queued("start_game")
           n == Len(messages)
<1>1. /\ messages' \in Seq(ChannelMessage) /\ Len(messages') = n - 1 /\ n \in Nat \ {0}
      /\ Head(messages) = messages[1] /\ \A i \in 1..(n - 1) : messages'[i] = messages[i + 1]
      /\ messages[1] \in ChannelMessage
  BY DEF Channel
<1>2. IsFiniteSet(Q) /\ Cardinality(Q) \in Nat
  BY QueuedFinite DEF Channel
<1>3. IsFiniteSet(Q \ {1}) /\ Cardinality(Q \ {1}) \in Nat
      /\ Cardinality(Q \ {1}) = Cardinality(Q) - (IF 1 \in Q THEN 1 ELSE 0)
  <2> HIDE DEF Q
  <2> QED BY <1>2, FS_RemoveElement, FS_CardinalityType
<1>4. Cardinality(Q') \in Nat /\ Cardinality(Q') <= Cardinality(Q \ {1})
  <2> DEFINE f == [i \in Q \ {1} |-> i - 1]
  <2>1. Q = {i \in 1..n : messages[i].type = "start_game"}
    BY DEF Queued
  <2>2. Q' = {i \in 1..(n - 1) : messages[i + 1].type = "start_game"}
    BY <1>1 DEF Queued
  <2>3. f \in [Q \ {1} -> Q']
    <3>1. \A i \in (1..n) \ {1} : i - 1 \in 1..(n - 1) /\ (i - 1) + 1 = i
      BY <1>1
    <3> HIDE DEF n, Q
    <3> QED BY <2>1, <2>2, <3>1
  <2>4. \A j \in Q' : \E i \in Q \ {1} : f[i] = j
    <3>1. \A j \in 1..(n - 1) : j + 1 \in (1..n) \ {1} /\ (j + 1) - 1 = j
      BY <1>1
    <3> HIDE DEF n, Q
    <3> QED BY <2>1, <2>2, <3>1
  <2>5. f \in Surjection(Q \ {1}, Q')
    <3> HIDE DEF f, Q
    <3> QED BY <2>3, <2>4 DEF Surjection
  <2>6. IsFiniteSet(Q') /\ Cardinality(Q') <= Cardinality(Q \ {1})
    <3> HIDE DEF f, Q
    <3> QED BY <1>3, <2>5, FS_Surjection
  <2> QED BY <2>6, FS_CardinalityType
<1>5. 1 \in Q <=> Head(messages).type = "start_game"
  BY <1>1 DEF Queued
<1>6. starts' + Cardinality(Q') <= MaxStarts
  <2> HIDE DEF Q
  <2>1. starts + Cardinality(Q) <= MaxStarts /\ starts \in Nat
    BY DEF Channel, Q
  <2> QED BY <1>2, <1>3, <1>4, <1>5, <2>1, RoomAssumption
<1>7. \A x \in Elements(messages) : x = Head(messages) \/ x \in Elements(messages')
  <2>1. \A i \in 1..n : i = 1 \/ (i - 1 \in 1..(n - 1) /\ (i - 1) + 1 = i)
    BY <1>1
  <2>2. ASSUME NEW i \in 1..n
        PROVE  messages[i] = Head(messages) \/ messages[i] \in Elements(messages')
    <3>1. CASE i = 1
      BY <1>1, <3>1
    <3>2. CASE i # 1
      <4>1. i - 1 \in 1..Len(messages') /\ messages'[i - 1] = messages[i]
        BY <1>1, <2>1, <3>2
      <4> QED BY <4>1 DEF Elements
    <3> QED BY <3>1, <3>2
  <2> QED BY <2>2 DEF Elements
<1>8. Len(messages') <= QueueCap
  BY <1>1, RoomAssumption DEF Channel
<1> QED BY <1>1, <1>6, <1>7, <1>8 DEF Channel

-----------------------------------------------------------------------------
(* Handing over the turn.                                                  *)

\* It is the turn of a bot that can play it.
BotsTurn == GameGoesOn /\ ~crashed /\ CurrentPlayer.bot /\ InRoom(CurrentPlayer.id)

\* The goroutine g, or a message, will make the move o.
Makes(g, o) == g.id = CurrentPlayer.id /\ (g.at \in {"look", "choose"} \/ g.token = o.token)
MoveOf(o)   == Message(CurrentPlayer.id, "move_token", o.token)

\* The turn of the current player is played by the goroutines B and the
\* messages M.
PlayedBy(B, M) ==
  \/ phase = "WaitingForRoll" /\ \E g \in B : g.id = CurrentPlayer.id /\ g.at = "roll"
  \/ /\ phase # "WaitingForRoll"
     /\ \E o \in offer : (\E g \in B : Makes(g, o)) \/ MoveOf(o) \in M

\* BotTurnDriven in these terms.
LEMMA BotTurnDrivenIs ==
  BotTurnDriven <=> (BotsTurn => PlayedBy(BagToSet(bots), Elements(messages)))
<1>1. ASSUME NEW o
      PROVE  MoveOf(o) \in Elements(messages) <=>
               \E i \in 1..Len(messages) :
                 messages[i] = Message(CurrentPlayer.id, "move_token", o.token)
  BY DEF MoveOf, Elements
<1> QED BY <1>1 DEF BotTurnDriven, BotsTurn, PlayedBy, Makes

\* Who holds the turn is at the table.
LEMMA CurrentPlayerFact ==
  ASSUME Membership, Table, HasGame
  PROVE  /\ turn + 1 \in 1..Len(seats) /\ CurrentPlayer \in PlayerSession
         /\ CurrentPlayer.bot => CurrentPlayer.id \in Bot \ freshBots
         /\ CurrentPlayer.bot \in BOOLEAN
<1>1. turn + 1 \in 1..Len(seats)
  BY DEF Table, GameTypeOK, HasGame, Seat
<1>2. seats[turn + 1] \in PlayerSession
  BY <1>1 DEF Membership, Members
<1> QED BY <1>1, <1>2, SessionFact DEF CurrentPlayer, Membership, Members

\* tryBotTurn starts the goroutine of the bot that has the turn.
LEMMA TryBotTurnFact ==
  ASSUME Membership', Table', HasGame'
  PROVE  /\ IsABag(TryBotTurn) /\ BagToSet(TryBotTurn) \subseteq BotGoroutine
         /\ CurrentPlayer'.bot /\ InRoom(CurrentPlayer.id)' =>
              \E g \in BagToSet(TryBotTurn) : g.id = CurrentPlayer'.id /\ g.at = "roll"
<1> DEFINE p == seats'[turn' + 1]
           g == [id |-> p.id, at |-> "roll", token |-> None]
<1>1. /\ p \in PlayerSession /\ p = CurrentPlayer'
      /\ p.bot => p.id \in Bot
  <2>1. turn' + 1 \in 1..Len(seats')
    BY DEF Table, GameTypeOK, HasGame, Seat
  <2>2. p \in PlayerSession
    BY <2>1 DEF Membership, Members
  <2> QED BY <2>2, SessionFact DEF CurrentPlayer
<1> HIDE DEF p
<1>2. CASE p.bot /\ \E s \in Elements(players') : s.id = p.id
  <2>1. TryBotTurn = SetToBag({g})
    BY <1>2 DEF TryBotTurn, Goroutine, p
  <2>2. g \in BotGoroutine
    BY <1>1, <1>2 DEF BotGoroutine
  <2> HIDE DEF g
  <2>3. g.id = p.id /\ g.at = "roll"
    BY DEF g
  <2> QED BY <1>1, <2>1, <2>2, <2>3, BagOfOne
<1>3. CASE ~(p.bot /\ \E s \in Elements(players') : s.id = p.id)
  <2>1. TryBotTurn = EmptyBag
    BY <1>3 DEF TryBotTurn, p
  <2>2. ~(CurrentPlayer'.bot /\ InRoom(CurrentPlayer.id)')
    BY <1>1, <1>3 DEF InRoom
  <2> QED BY <2>1, <2>2, BagOfNone
<1> QED BY <1>2, <1>3

\* A handler that ends with tryBotTurn leaves the turn in good hands, when it
\* asks for a roll or the turn is not a bot's.
LEMMA HandedOver ==
  ASSUME Membership', Table', HasGame',
         NEW running, IsABag(running), BagToSet(running) \subseteq BotGoroutine,
         bots' = running (+) TryBotTurn,
         phase' = "WaitingForRoll" \/ ~CurrentPlayer'.bot
  PROVE  IsABag(bots') /\ BagToSet(bots') \subseteq BotGoroutine /\ BotTurnDriven'
<1>1. /\ IsABag(bots') /\ BagToSet(bots') = BagToSet(running) \cup BagToSet(TryBotTurn)
      /\ BagToSet(bots') \subseteq BotGoroutine
  BY TryBotTurnFact, BagAdd
<1>2. ASSUME BotsTurn'
      PROVE  PlayedBy(BagToSet(bots), Elements(messages))'
  <2>1. CurrentPlayer'.bot /\ InRoom(CurrentPlayer.id)'
    BY <1>2 DEF BotsTurn
  <2>2. PICK g \in BagToSet(TryBotTurn) : g.id = CurrentPlayer'.id /\ g.at = "roll"
    BY <2>1, TryBotTurnFact
  <2>3. g \in BagToSet(bots')
    BY <1>1, <2>2
  <2> QED BY <2>1, <2>2, <2>3 DEF PlayedBy
<1>3. BotTurnDriven'
  BY <1>2, BotTurnDrivenIs, PTL
<1> QED BY <1>1, <1>3

\* A step that neither touches the game nor brings a bot back, and leaves
\* those who play the turn of a bot at it.
LEMMA DrivenStays ==
  ASSUME Membership, Table, BotTurnDriven, NoBotReturns,
         UNCHANGED <<gameVars, status, seats>>, crashed => crashed',
         BotsTurn /\ PlayedBy(BagToSet(bots), Elements(messages)) =>
           PlayedBy(BagToSet(bots'), Elements(messages')) \/ crashed'
  PROVE  BotTurnDriven'
<1>1. ASSUME BotsTurn'
      PROVE  PlayedBy(BagToSet(bots), Elements(messages))'
  <2>1. CurrentPlayer' = CurrentPlayer /\ HasGame /\ CurrentPlayer.bot
    BY <1>1 DEF BotsTurn, CurrentPlayer, GameGoesOn, HasGame, gameVars
  <2>2. InRoom(CurrentPlayer.id)'
    BY <1>1 DEF BotsTurn
  <2>3. InRoom(CurrentPlayer.id)
    BY <2>1, <2>2, CurrentPlayerFact DEF NoBotReturns, InRoom
  <2>4. BotsTurn
    BY <1>1, <2>1, <2>3 DEF BotsTurn, GameGoesOn, HasGame, gameVars
  <2>5. PlayedBy(BagToSet(bots'), Elements(messages'))
    BY <1>1, <2>4, BotTurnDrivenIs DEF BotsTurn
  <2> QED BY <2>1, <2>5 DEF PlayedBy, Makes, MoveOf, gameVars
<1> QED BY <1>1, BotTurnDrivenIs, PTL

-----------------------------------------------------------------------------
(* The handlers.                                                           *)

\* What every handler keeps, whoever calls it; the turn of a bot is looked at
\* separately.
RoomKept == Membership /\ Table /\ Drivers /\ Settled /\ HumanTurnTimed

\* A handler that leaves the game and its drivers alone.
Quiet == NoBotReturns /\ UNCHANGED <<gameVars, status, seats, bots, starts>>

\* A game that is left alone.
LEMMA GameUntouched ==
  ASSUME Table, Settled, HumanTurnTimed, turnTimer' = turnTimer, timeouts' \in Nat,
         UNCHANGED <<gameVars, status, seats, starts, settlements>>, timeouts' >= timeouts,
         timeouts \in Nat
  PROVE  Table' /\ Settled' /\ HumanTurnTimed'
<1>1. Table'
  BY DEF Table, GameTypeOK, Seat, gameVars
<1>2. Settled'
  BY DEF Settled, SettledOncePerStart
<1>3. HumanTurnTimed'
  BY DEF HumanTurnTimed, GameGoesOn, HasGame, CurrentPlayer, gameVars
<1> QED BY <1>1, <1>2, <1>3

\* A call that is turned down, with running the goroutines it leaves.
LEMMA IgnoreFact ==
  ASSUME RoomInv, NEW running, IsABag(running), BagToSet(running) \subseteq BotGoroutine,
         Ignore(running), timeouts' \in Nat, timeouts' >= timeouts, UNCHANGED crashed
  PROVE  /\ RoomKept' /\ NoBotReturns /\ bots' = running
         /\ UNCHANGED <<gameVars, status, seats, starts>>
<1>1. Membership' /\ NoBotReturns
  BY MembershipUntouched DEF Ignore, RoomInv
<1>2. Table' /\ Settled' /\ HumanTurnTimed'
  BY GameUntouched DEF Ignore, RoomInv, Drivers, membership
<1>3. Drivers'
  BY DEF Ignore, RoomInv, Drivers
<1> QED BY <1>1, <1>2, <1>3 DEF RoomKept, Ignore, membership

\* A message that is turned down.
LEMMA IgnoreKeeps ==
  ASSUME RoomInv, Ignore(bots), UNCHANGED <<timeouts, crashed>>
  PROVE  RoomKept' /\ Quiet
<1>1. /\ IsABag(bots) /\ BagToSet(bots) \subseteq BotGoroutine
      /\ timeouts' \in Nat /\ timeouts' >= timeouts
  BY DEF RoomInv, Drivers
<1> QED BY <1>1, IgnoreFact DEF Quiet

\* People join, bots come and go: the game is none of their business.
LEMMA MembershipHandlers ==
  ASSUME RoomInv, UNCHANGED <<timeouts, crashed>>,
         \/ \E p \in Human : HandleJoin(p) \/ HandleAddBot(p)
         \/ \E p \in Human, c \in Color : HandleRemoveBot(p, c)
  PROVE  RoomKept' /\ Quiet
<1>1. CASE Ignore(bots)
  BY <1>1, IgnoreKeeps
<1>2. ASSUME UNCHANGED <<gameVars, status, seats, turnTimer, bots, starts, settlements>>
      PROVE  Table' /\ Settled' /\ HumanTurnTimed' /\ Drivers'
  BY <1>2, GameUntouched DEF RoomInv, Drivers
<1>3. ASSUME NEW p \in Human, HandleJoin(p), ~Ignore(bots)
      PROVE  Membership' /\ NoBotReturns
               /\ UNCHANGED <<gameVars, status, seats, turnTimer, bots, starts, settlements>>
  <2>1. /\ Len(players) < MaxPlayers /\ ~InRoom(p)
        /\ ClaimHost(p) \/ JoinAsGuest(p)
        /\ UNCHANGED <<gameVars, status, freshBots, seats, turnTimer, bots, starts, settlements>>
    <3>1. Len(players) \in Nat /\ MaxPlayers \in Nat
      BY RoomAssumption DEF RoomInv, Membership, Members
    <3> QED BY <1>3, <3>1 DEF HandleJoin
  <2> QED BY <2>1, ClaimHostFact, JoinAsGuestFact DEF RoomInv
<1>4. ASSUME NEW p \in Human, HandleAddBot(p), ~Ignore(bots)
      PROVE  Membership' /\ NoBotReturns
               /\ UNCHANGED <<gameVars, status, seats, turnTimer, bots, starts, settlements>>
  <2>1. PICK b \in freshBots :
          /\ players' = Append(players, Session(b, NextAvailableColor, TRUE))
          /\ freshBots' = freshBots \ {b}
    BY <1>4 DEF HandleAddBot
  <2>2. Len(players) < MaxPlayers
    <3>1. Len(players) \in Nat /\ MaxPlayers \in Nat
      BY RoomAssumption DEF RoomInv, Membership, Members
    <3>2. ~(Len(players) >= MaxPlayers)
      BY <1>4 DEF HandleAddBot
    <3> QED BY <3>1, <3>2
  <2>3. UNCHANGED <<gameVars, status, hostID, locked, seats, turnTimer, bots, starts,
                    settlements>>
    BY <1>4 DEF HandleAddBot
  <2> QED BY <2>1, <2>2, <2>3, AddBotFact DEF RoomInv
<1>5. ASSUME NEW p \in Human, NEW c \in Color, HandleRemoveBot(p, c), ~Ignore(bots)
      PROVE  Membership' /\ NoBotReturns
               /\ UNCHANGED <<gameVars, status, seats, turnTimer, bots, starts, settlements>>
  <2> DEFINE hits == {i \in 1..Len(players) : players[i].bot /\ players[i].color = c}
             k == CHOOSE i \in hits : \A j \in hits : i <= j
  <2>1. /\ players' = IF hits = {} THEN players ELSE RemoveAt(players, k)
        /\ UNCHANGED <<gameVars, status, hostID, freshBots, locked, seats, turnTimer, bots,
                       starts, settlements>>
    BY <1>5 DEF HandleRemoveBot
  <2>2. CASE hits = {}
    BY <2>1, <2>2, MembershipUntouched DEF RoomInv, membership, Membership, Members,
       SeatsDistinct, GuestsFunded, NoBotReturns, InRoom, Elements
  <2>3. CASE hits # {}
    <3>1. k \in hits
      <4>1. hits \subseteq Nat OBVIOUS
      <4> HIDE DEF hits
      <4>2. \E i \in hits : \A j \in hits : i <= j BY <4>1, <2>3, SmallestNat
      <4> QED BY <4>2
    <3>2. k \in 1..Len(players) /\ players[k].bot
      <4> HIDE DEF k
      <4> QED BY <3>1
    <3>3. players' = RemoveAt(players, k)
      BY <2>1, <2>3
    <3> HIDE DEF k
    <3> QED BY <2>1, <3>2, <3>3, RemoveBotFact DEF RoomInv
  <2> QED BY <2>1, <2>2, <2>3
<1>6. SUFFICES ASSUME Membership' /\ NoBotReturns
                 /\ UNCHANGED <<gameVars, status, seats, turnTimer, bots, starts, settlements>>
      PROVE  RoomKept' /\ Quiet
  BY <1>1, <1>3, <1>4, <1>5
<1> QED BY <1>2, <1>6 DEF RoomKept, Quiet

\* A game starts, again or for the first time: the host has the turn.
LEMMA StartGameKeeps ==
  ASSUME RoomInv, NEW p \in Human, HandleStartGame(p), UNCHANGED <<timeouts, crashed>>
  PROVE  /\ RoomKept' /\ starts' \in Nat /\ starts' <= starts + 1
         /\ Quiet \/ BotTurnDriven'
<1>1. CASE Ignore(bots)
  BY <1>1, IgnoreKeeps DEF Quiet, RoomInv, Settled
<1>2. CASE ~Ignore(bots)
  <2>1. /\ Len(players) >= 2 /\ NewGame(Len(players)) /\ seats' = players /\ status' = "Playing"
        /\ starts' = starts + 1 /\ turnTimer' = TRUE /\ bots' = bots (+) TryBotTurn
        /\ UNCHANGED <<hostID, players, freshBots, locked, settlements>>
    <3>1. Len(players) \in Nat
      BY DEF RoomInv, Membership, Members
    <3> QED BY <1>2, <3>1 DEF HandleStartGame, StartTurnTimer
  <2>2. Len(players) \in 2..4
    <3> DEFINE n == Len(players)
    <3>1. n \in 1..MaxPlayers /\ n >= 2
      BY <2>1 DEF RoomInv, Membership, Members
    <3> HIDE DEF n
    <3>2. n \in 2..4
      BY <3>1, RoomAssumption
    <3> QED BY <3>2 DEF n
  <2>3. Membership'
    <3>1. Members'
      <4>1. /\ seats' \in Seq(PlayerSession) /\ Len(seats') <= MaxPlayers /\ ~seats'[1].bot
            /\ \A i \in 1..Len(seats') : seats'[i].bot => seats'[i].id \notin freshBots'
        BY <2>1, <2>2, RoomAssumption DEF RoomInv, Membership, Members
      <4>2. hostID' = hostID /\ players' = players /\ freshBots' = freshBots /\ locked' = locked
        BY <2>1
      <4> QED BY <4>1, <4>2 DEF RoomInv, Membership, Members
    <3>2. SeatsDistinct' /\ GuestsFunded'
      BY <2>1 DEF RoomInv, Membership, SeatsDistinct, GuestsFunded
    <3> QED BY <3>1, <3>2 DEF Membership
  <2>4. Table' /\ HasGame'
    <3>1. GameTypeOK' /\ numPlayers' = Len(players)
      BY <2>1, <2>2, NewGameFact DEF NewGame
    <3> QED BY <2>1, <2>2, <3>1 DEF Table, HasGame
  <2>5. ~CurrentPlayer'.bot /\ phase' = "WaitingForRoll"
    <3>1. turn' = 0 /\ phase' = "WaitingForRoll"
      BY <2>1 DEF NewGame
    <3>2. CurrentPlayer' = players[1]
      BY <2>1, <3>1 DEF CurrentPlayer
    <3> QED BY <3>1, <3>2 DEF RoomInv, Membership, Members
  <2>6. IsABag(bots') /\ BagToSet(bots') \subseteq BotGoroutine /\ BotTurnDriven'
    BY <2>1, <2>3, <2>4, <2>5, HandedOver DEF RoomInv, Drivers
  <2>7. Drivers' /\ HumanTurnTimed'
    BY <2>1, <2>6 DEF RoomInv, Drivers, HumanTurnTimed
  <2>8. Settled'
    <3>1. /\ starts \in Nat /\ \A i \in 1..Len(settlements) : settlements[i].game \in Nat
      BY GamesSettled DEF RoomInv
    <3>2. \A i \in 1..Len(settlements) : settlements[i].game <= starts
      BY DEF RoomInv, Settled
    <3>3. /\ starts' = starts + 1 /\ starts' \in Nat /\ UNCHANGED settlements
          /\ status' = "Playing"
      BY <2>1, <3>1
    <3>4. \A i \in 1..Len(settlements) :
            settlements[i].game <= starts' /\ settlements[i].game < starts'
      BY <3>1, <3>2, <3>3
    <3> QED BY <3>3, <3>4, NothingSettled DEF RoomInv
  <2> QED BY <2>1, <2>3, <2>4, <2>6, <2>7, <2>8 DEF RoomKept, RoomInv, Settled
<1> QED BY <1>1, <1>2

\* A roll that is not turned down.  When it is a bot's, its goroutine goes on
\* to look at the outcome.
LEMMA RollDiceKeeps ==
  ASSUME RoomInv, NEW id, NEW running, IsABag(running),
         BagToSet(running) \subseteq BotGoroutine,
         id \in Bot => \E g \in BagToSet(running) : g.id = id /\ g.at = "look",
         ~RollRefused(id), HandleRollDice(id, running), UNCHANGED <<timeouts, crashed>>
  PROVE  RoomKept' /\ BotTurnDriven' /\ starts' = starts
<1>1. GameGoesOn /\ HasGame /\ CurrentPlayer.id = id
  BY DEF RollRefused, GameGoesOn
<1>2. /\ Roll /\ turnTimer' = TRUE /\ UNCHANGED <<membership, freshBots, seats, starts, settlements>>
      /\ bots' = running (+) (IF phase' = "WaitingForRoll" THEN TryBotTurn ELSE EmptyBag)
  BY DEF HandleRollDice, StartTurnTimer
<1>3. /\ Table' /\ HasGame'
      /\ phase' = "WaitingForRoll" \/ (turn' = turn /\ \E o \in offer' : TRUE)
  <2>1. numPlayers > 0 /\ GameTypeOK /\ numPlayers = Len(seats)
    BY <1>1 DEF HasGame, RoomInv, Table
  <2>2. /\ GameTypeOK' /\ numPlayers' = numPlayers
        /\ phase' = "WaitingForRoll" \/ (turn' = turn /\ \E o \in offer' : TRUE)
    BY <1>2, <2>1, RollFact
  <2>3. seats' = seats
    BY <1>2
  <2> QED BY <2>1, <2>2, <2>3 DEF Table, HasGame
<1>4. Membership'
  BY <1>2, MembershipUntouched DEF RoomInv
<1>5. IsABag(bots') /\ BagToSet(bots') \subseteq BotGoroutine /\ BotTurnDriven'
  <2>1. CASE phase' = "WaitingForRoll"
    <3>1. bots' = running (+) TryBotTurn
      BY <1>2, <2>1
    <3> QED BY <1>3, <1>4, <2>1, <3>1, HandedOver
  <2>2. CASE phase' # "WaitingForRoll"
    <3>1. IsABag(bots') /\ BagToSet(bots') = BagToSet(running)
      <4>1. bots' = running (+) EmptyBag
        BY <1>2, <2>2
      <4> QED BY <4>1, BagAdd, BagOfNone
    <3>2. CurrentPlayer' = CurrentPlayer
      BY <1>2, <1>3, <2>2 DEF CurrentPlayer
    <3>3. ASSUME BotsTurn'
          PROVE  PlayedBy(BagToSet(bots), Elements(messages))'
      <4>1. CurrentPlayer.bot
        BY <3>2, <3>3 DEF BotsTurn
      <4>2. id \in Bot
        BY <1>1, <4>1, CurrentPlayerFact DEF RoomInv
      <4>3. PICK g \in BagToSet(running) : g.id = id /\ g.at = "look"
        BY <4>2
      <4>4. PICK o \in offer' : TRUE
        BY <1>3, <2>2
      <4>5. g \in BagToSet(bots') /\ g.id = CurrentPlayer'.id /\ g.at = "look"
        BY <1>1, <3>1, <3>2, <4>3
      <4> QED BY <2>2, <4>4, <4>5 DEF PlayedBy, Makes
    <3>4. BotTurnDriven'
      BY <3>3, BotTurnDrivenIs, PTL
    <3> QED BY <3>1, <3>4
  <2> QED BY <2>1, <2>2
<1>6. Drivers' /\ HumanTurnTimed' /\ Settled'
  BY <1>2, <1>5 DEF RoomInv, Drivers, HumanTurnTimed, Settled, SettledOncePerStart, membership
<1> QED BY <1>2, <1>3, <1>4, <1>5, <1>6 DEF RoomKept

\* A move that is not turned down ends the game, once and for all, or hands
\* over the turn.
LEMMA MoveTokenKeeps ==
  ASSUME RoomInv, NEW id, NEW t, ~MoveRefused(id, t), HandleMoveToken(id, t),
         UNCHANGED <<timeouts, crashed>>
  PROVE  RoomKept' /\ BotTurnDriven' /\ starts' = starts
<1>1. GameGoesOn /\ HasGame /\ status = "Playing"
  BY DEF MoveRefused, GameGoesOn
<1>2. PICK o \in offer : Play(o)
  BY DEF HandleMoveToken
<1>3. UNCHANGED <<hostID, players, freshBots, locked, seats, starts>> /\ FinishOrGoOn
  BY DEF HandleMoveToken
<1>4. /\ Table' /\ HasGame'
      /\ phase' = "WaitingForRoll" \/ Over(home')
  <2>1. numPlayers > 0 /\ GameTypeOK /\ numPlayers = Len(seats)
    BY <1>1 DEF HasGame, RoomInv, Table
  <2>2. o \in Offer /\ offer \in SUBSET Offer /\ PlayOf(o, offer)
    BY <1>2, <2>1 DEF Play, GameTypeOK
  <2>3. /\ GameTypeOK' /\ numPlayers' = numPlayers
        /\ phase' = "WaitingForRoll" \/ Over(home')
    BY <2>1, <2>2, PlayOfFact
  <2> QED BY <1>3, <2>1, <2>3 DEF Table, HasGame
<1>5. Membership'
  BY <1>3, MembershipUntouched DEF RoomInv, membership, Membership, Members, SeatsDistinct,
     GuestsFunded
<1>6. CASE Over(home')
  <2>1. status' = "Finished" /\ Settle /\ UNCHANGED <<turnTimer, bots>>
    BY <1>3, <1>6 DEF FinishOrGoOn
  <2>2. ~GameGoesOn'
    BY <2>1 DEF GameGoesOn
  <2>3. BotTurnDriven' /\ HumanTurnTimed'
    BY <2>2 DEF BotTurnDriven, HumanTurnTimed
  <2>4. Settled'
    <3>1. Cardinality(Humans) \in Nat
      <4>1. IsFiniteSet(1..Len(players))
        BY FS_Interval DEF RoomInv, Membership, Members
      <4>2. IsFiniteSet(Humans)
        BY <4>1, FS_Subset DEF Humans
      <4> QED BY <4>2, FS_CardinalityType
    <3> DEFINE now == [game |-> starts, pot |-> Cardinality(Humans)]
    <3>2. /\ settlements \in Seq([game : Nat, pot : Nat]) /\ starts \in Nat /\ starts' = starts
          /\ SettledOncePerStart /\ \A i \in 1..Len(settlements) : settlements[i].game < starts
      BY <1>1, <1>3 DEF RoomInv, Settled
    <3>3. \A i \in 1..Len(settlements) : settlements[i].game \in Nat BY GamesSettled DEF RoomInv
    <3>4. CASE settlements' = settlements
      <4>1. \A i \in 1..Len(settlements) : settlements[i].game <= starts BY <3>2, <3>3
      <4> QED BY <2>1, <3>2, <3>4, <4>1, NothingSettled DEF RoomInv
    <3>5. CASE settlements' = Append(settlements, now)
      <4>1. now \in [game : Nat, pot : Nat] /\ now.game = starts BY <3>1, <3>2
      <4> HIDE DEF now
      <4>2. /\ settlements' \in Seq([game : Nat, pot : Nat])
            /\ Len(settlements') = Len(settlements) + 1 /\ Len(settlements) \in Nat
            /\ settlements'[Len(settlements) + 1] = now
            /\ \A i \in 1..Len(settlements) : settlements'[i] = settlements[i]
        BY <3>2, <3>5, <4>1
      <4>3. \A i \in 1..Len(settlements') :
              i \in 1..Len(settlements) \/ i = Len(settlements) + 1
        BY <4>2
      <4>4. ASSUME NEW i \in 1..Len(settlements')
            PROVE  \/ i \in 1..Len(settlements) /\ settlements'[i].game = settlements[i].game
                   \/ i = Len(settlements) + 1 /\ settlements'[i].game = starts
        BY <4>1, <4>2, <4>3
      <4>5. ASSUME NEW i \in 1..Len(settlements'), NEW j \in 1..Len(settlements'), i # j
            PROVE  settlements'[i].game # settlements'[j].game
        <5>1. \A k \in 1..Len(settlements) : settlements[k].game # starts BY <3>2, <3>3
        <5> QED BY <3>2, <4>4, <4>5, <5>1 DEF SettledOncePerStart
      <4>6. ASSUME NEW i \in 1..Len(settlements') PROVE settlements'[i].game <= starts
        <5>1. \A k \in 1..Len(settlements) : settlements[k].game <= starts BY <3>2, <3>3
        <5>2. starts <= starts BY <3>2
        <5> QED BY <4>4, <5>1, <5>2
      <4>7. SettledOncePerStart' BY <4>5 DEF SettledOncePerStart
      <4>8. starts' = starts /\ starts \in Nat /\ status' = "Finished" BY <2>1, <3>2
      <4>9. \A i \in 1..Len(settlements') :
              settlements'[i].game <= starts' /\ (status' = "Playing" => settlements'[i].game < starts')
        BY <4>6, <4>8
      <4> QED BY <4>2, <4>7, <4>8, <4>9 DEF Settled
    <3> QED BY <2>1, <3>4, <3>5 DEF Settle
  <2> QED BY <1>3, <1>4, <1>5, <2>1, <2>3, <2>4 DEF RoomKept, RoomInv, Drivers
<1>7. CASE ~Over(home')
  <2>1. /\ turnTimer' = TRUE /\ bots' = bots (+) TryBotTurn
        /\ UNCHANGED <<status, settlements>>
    BY <1>3, <1>7 DEF FinishOrGoOn, StartTurnTimer
  <2>2. IsABag(bots') /\ BagToSet(bots') \subseteq BotGoroutine /\ BotTurnDriven'
    BY <1>4, <1>5, <1>7, <2>1, HandedOver DEF RoomInv, Drivers
  <2>3. Drivers' /\ HumanTurnTimed' /\ Settled'
    BY <1>3, <2>1, <2>2 DEF RoomInv, Drivers, HumanTurnTimed, Settled, SettledOncePerStart
  <2> QED BY <1>3, <1>4, <1>5, <2>2, <2>3 DEF RoomKept
<1> QED BY <1>6, <1>7

\* A timeout plays for a person, or leaves the turn to the bot.
LEMMA TurnTimeoutKeeps ==
  ASSUME RoomInv, HandleTurnTimeout
  PROVE  RoomKept' /\ BotTurnDriven' /\ starts' = starts
<1>1. UNCHANGED <<messages, crashed>> /\ timeouts' \in Nat /\ timeouts' = timeouts - 1
  BY DEF HandleTurnTimeout, RoomInv, Drivers
<1>2. CASE ~GameGoesOn \/ CurrentPlayer.bot
  <2>1. Ignore(bots)
    BY <1>2 DEF HandleTurnTimeout
  <2>2. Membership' /\ NoBotReturns
    BY <2>1, MembershipUntouched DEF Ignore, RoomInv
  <2>3. UNCHANGED <<gameVars, status, seats, starts, settlements, turnTimer, bots>>
    BY <2>1 DEF Ignore, membership
  <2>4. Table' /\ Settled' /\ Drivers'
    BY <1>1, <2>3 DEF RoomInv, Table, GameTypeOK, Seat, Settled, SettledOncePerStart, Drivers, gameVars
  <2>5. HumanTurnTimed'
    BY <1>2, <2>3 DEF HumanTurnTimed, GameGoesOn, HasGame, CurrentPlayer, gameVars
  <2>6. BotTurnDriven'
    BY <1>1, <2>2, <2>3, DrivenStays DEF RoomInv
  <2> QED BY <2>2, <2>3, <2>4, <2>5, <2>6 DEF RoomKept
<1>3. CASE GameGoesOn /\ ~CurrentPlayer.bot
  <2>1. /\ UNCHANGED <<membership, freshBots, seats, starts, settlements>>
        /\ AutoRollAndMove \/ AutoMove
        /\ turnTimer' = TRUE /\ bots' = bots (+) TryBotTurn
    BY <1>3 DEF HandleTurnTimeout, AutoTurn, StartTurnTimer
  <2>2. Membership'
    BY <2>1, MembershipUntouched DEF RoomInv
  <2>3. /\ Table' /\ HasGame'
        /\ phase' = "WaitingForRoll" \/ turn' = turn
    <3>1. numPlayers > 0 /\ GameTypeOK /\ numPlayers = Len(seats) /\ seats' = seats
      BY <1>3, <2>1 DEF GameGoesOn, HasGame, RoomInv, Table
    <3>2. /\ GameTypeOK' /\ numPlayers' = numPlayers
          /\ phase' = "WaitingForRoll" \/ turn' = turn
      BY <2>1, <3>1, AutoFact
    <3> QED BY <3>1, <3>2 DEF Table, HasGame
  <2>4. phase' = "WaitingForRoll" \/ ~CurrentPlayer'.bot
    BY <1>3, <2>1, <2>3 DEF CurrentPlayer
  <2>5. IsABag(bots') /\ BagToSet(bots') \subseteq BotGoroutine /\ BotTurnDriven'
    BY <2>1, <2>2, <2>3, <2>4, HandedOver DEF RoomInv, Drivers
  <2>6. Drivers' /\ HumanTurnTimed' /\ Settled'
    BY <1>1, <2>1, <2>5 DEF RoomInv, Drivers, HumanTurnTimed, Settled, SettledOncePerStart, membership
  <2> QED BY <2>1, <2>2, <2>3, <2>5, <2>6 DEF RoomKept
<1> QED BY <1>2, <1>3

-----------------------------------------------------------------------------
(* The steps.                                                              *)

\* What a client sends is a message, and a start is counted.
LEMMA ClientMessageFact ==
  ASSUME RoomInv, NEW h \in Human, NEW m \in ClientMessage(h)
  PROVE  /\ m \in ChannelMessage
         /\ m.type = "start_game" =>
              starts + Cardinality(Queued("start_game")) < MaxStarts
<1> DEFINE Types == {"join_room", "roll_dice"}
             \cup (IF starts + Cardinality(Queued("start_game")) < MaxStarts
                   THEN {"start_game"} ELSE {})
             \cup (IF Cardinality(Queued("add_bot")) < Cardinality(freshBots)
                   THEN {"add_bot"} ELSE {})
<1>1. CASE \E type \in Types : m = Message(h, type, None)
  <2>1. PICK type \in Types : m = Message(h, type, None)
    BY <1>1
  <2>2. type \in {"join_room", "start_game", "roll_dice", "add_bot"}
    OBVIOUS
  <2>3. type = "start_game" => starts + Cardinality(Queued("start_game")) < MaxStarts
    OBVIOUS
  <2>4. m = [from |-> h, type |-> type, arg |-> None]
    BY <2>1 DEF Message
  <2> HIDE DEF Types
  <2> QED BY <2>2, <2>3, <2>4 DEF ChannelMessage
<1>2. CASE \E t \in Token : m = Message(h, "move_token", t)
  BY <1>2 DEF Message, ChannelMessage
<1>3. CASE \E s \in Elements(players) : m = Message(h, "remove_bot", s.color)
  <2>1. PICK i \in 1..Len(players) : m = Message(h, "remove_bot", players[i].color)
    BY <1>3 DEF Elements
  <2>2. players[i].color \in Color
    BY SessionFact DEF RoomInv, Membership, Members
  <2> QED BY <2>1, <2>2 DEF Message, ChannelMessage
<1> QED BY <1>1, <1>2, <1>3 DEF ClientMessage

\* The game, its drivers and its players are left alone.
LEMMA RoomUntouched ==
  ASSUME RoomInv, UNCHANGED <<gameVars, membership, freshBots, seats, turnTimer, starts,
                              settlements, timeouts>>
  PROVE  Membership' /\ Table' /\ Settled' /\ HumanTurnTimed' /\ NoBotReturns
<1>1. Membership' /\ NoBotReturns
  BY MembershipUntouched DEF RoomInv
<1>2. Table' /\ Settled' /\ HumanTurnTimed'
  BY GameUntouched DEF RoomInv, Drivers, membership
<1> QED BY <1>1, <1>2

\* A client sends a message.
LEMMA SendStep ==
  ASSUME RoomInv, NEW h \in Human, Send(h)
  PROVE  RoomInv'
<1>1. PICK m \in ClientMessage(h) : Enqueue(m)
  BY DEF Send
<1>2. UNCHANGED <<gameVars, membership, freshBots, turnTimer, timeouts, bots, seats, crashed,
                  starts, settlements>>
  BY DEF Send
<1>3. Channel' /\ \A x \in Elements(messages) : x \in Elements(messages')
  BY <1>1, <1>2, ClientMessageFact, EnqueueFact DEF RoomInv
<1>4. Membership' /\ Table' /\ Settled' /\ HumanTurnTimed' /\ NoBotReturns
  BY <1>2, RoomUntouched
<1>5. Drivers'
  BY <1>2 DEF RoomInv, Drivers
<1>6. BotTurnDriven'
  <2>1. PlayedBy(BagToSet(bots), Elements(messages)) =>
          PlayedBy(BagToSet(bots'), Elements(messages'))
    BY <1>2, <1>3 DEF PlayedBy
  <2> QED BY <1>2, <1>4, <2>1, DrivenStays DEF RoomInv, membership
<1> QED BY <1>3, <1>4, <1>5, <1>6 DEF RoomInv

\* The timer fires.
LEMMA TimerFiresStep ==
  ASSUME RoomInv, TimerFires
  PROVE  RoomInv'
<1>1. /\ turnTimer' = FALSE /\ timeouts' = timeouts + 1
      /\ UNCHANGED <<gameVars, membership, freshBots, messages, bots, seats, crashed, starts,
                     settlements>>
  BY DEF TimerFires
<1>2. Membership' /\ NoBotReturns
  BY <1>1, MembershipUntouched DEF RoomInv
<1>3. Table' /\ Settled' /\ Drivers' /\ Channel'
  <2>1. Table' /\ Settled'
    BY <1>1 DEF RoomInv, Table, GameTypeOK, Seat, Settled, SettledOncePerStart, gameVars, membership
  <2>2. Drivers'
    <3>1. timeouts' \in Nat
      BY <1>1 DEF RoomInv, Drivers
    <3>2. turnTimer' \in BOOLEAN
      BY <1>1
    <3> QED BY <1>1, <3>1, <3>2 DEF RoomInv, Drivers
  <2>3. Channel'
    BY <1>1 DEF RoomInv, Channel, Queued
  <2> QED BY <2>1, <2>2, <2>3
<1>4. HumanTurnTimed'
  BY <1>1 DEF HumanTurnTimed, RoomInv, Drivers
<1>5. BotTurnDriven'
  BY <1>1, <1>2, DrivenStays DEF RoomInv, membership
<1> QED BY <1>2, <1>3, <1>4, <1>5 DEF RoomInv

\* A message that does nothing was not the one a bot's turn waits for.
LEMMA QuietMessage ==
  ASSUME RoomInv, Quiet, UNCHANGED crashed, NEW m,
         \A x \in Elements(messages) : x = m \/ x \in Elements(messages'),
         m.type = "move_token" => MoveRefused(m.from, m.arg)
  PROVE  BotTurnDriven'
<1>1. ASSUME BotsTurn, PlayedBy(BagToSet(bots), Elements(messages))
      PROVE  PlayedBy(BagToSet(bots'), Elements(messages'))
  <2>1. bots' = bots
    BY DEF Quiet
  <2>2. ASSUME phase # "WaitingForRoll", NEW o \in offer, MoveOf(o) = m
        PROVE  FALSE
    <3>1. m.from = CurrentPlayer.id /\ m.type = "move_token" /\ m.arg = o.token
      BY <2>2 DEF MoveOf, Message
    <3>2. phase = "WaitingForMove"
      BY <2>2 DEF RoomInv, Table, GameTypeOK
    <3> QED BY <1>1, <2>2, <3>1, <3>2 DEF MoveRefused, BotsTurn
  <2> QED BY <1>1, <2>1, <2>2 DEF PlayedBy
<1> QED BY <1>1, DrivenStays DEF RoomInv, Quiet

\* The main loop handles a message.
LEMMA ProcessMessageStep ==
  ASSUME RoomInv, ProcessMessage
  PROVE  RoomInv'
<1> DEFINE m == Head(messages)
<1>1. messages # <<>> /\ messages' = Tail(messages) /\ UNCHANGED <<timeouts, crashed>>
  BY DEF ProcessMessage
<1>2. /\ messages \in Seq(ChannelMessage) /\ m \in ChannelMessage
  BY <1>1 DEF RoomInv, Channel
<1>3. SUFFICES /\ RoomKept' /\ starts' \in Nat
               /\ starts' <= starts + (IF m.type = "start_game" THEN 1 ELSE 0)
               /\ \/ BotTurnDriven'
                  \/ Quiet /\ (m.type = "move_token" => MoveRefused(m.from, m.arg))
  <2>1. /\ Channel'
        /\ \A x \in Elements(messages) : x = m \/ x \in Elements(messages')
    BY <1>1, <1>3, DequeueFact DEF RoomInv
  <2> HIDE DEF m
  <2>2. BotTurnDriven'
    BY <1>1, <1>3, <2>1, QuietMessage
  <2> QED BY <1>3, <2>1, <2>2 DEF RoomInv, RoomKept
<1>4. starts \in Nat
  BY DEF RoomInv, Settled
<1> HIDE DEF m
<1>5. CASE m.type \in {"join_room", "add_bot"} /\ m.from \in Human
           /\ (HandleJoin(m.from) \/ HandleAddBot(m.from))
  <2>1. RoomKept' /\ Quiet
    BY <1>1, <1>5, MembershipHandlers
  <2> QED BY <1>4, <1>5, <2>1 DEF Quiet
<1>6. CASE m.type = "remove_bot" /\ m.from \in Human /\ m.arg \in Color
           /\ HandleRemoveBot(m.from, m.arg)
  <2>1. RoomKept' /\ Quiet
    BY <1>1, <1>6, MembershipHandlers
  <2> QED BY <1>4, <1>6, <2>1 DEF Quiet
<1>7. CASE m.type = "start_game" /\ m.from \in Human /\ HandleStartGame(m.from)
  BY <1>1, <1>7, StartGameKeeps
<1>8. CASE m.type = "roll_dice" /\ m.from \in Human /\ HandleRollDice(m.from, bots)
  <2>1. CASE RollRefused(m.from)
    <3>1. RoomKept' /\ Quiet
      BY <1>1, <1>8, <2>1, IgnoreKeeps DEF HandleRollDice
    <3> QED BY <1>4, <1>8, <3>1 DEF Quiet
  <2>2. CASE ~RollRefused(m.from)
    <3>1. m.from \notin Bot
      BY <1>8, RoomAssumption
    <3>2. RoomKept' /\ BotTurnDriven' /\ starts' = starts
      BY <1>1, <1>8, <2>2, <3>1, RollDiceKeeps DEF RoomInv, Drivers
    <3> QED BY <1>4, <1>8, <3>2
  <2> QED BY <2>1, <2>2
<1>9. CASE m.type = "move_token" /\ HandleMoveToken(m.from, m.arg)
  <2>1. CASE MoveRefused(m.from, m.arg)
    <3>1. RoomKept' /\ Quiet
      BY <1>1, <1>9, <2>1, IgnoreKeeps DEF HandleMoveToken
    <3> QED BY <1>4, <1>9, <2>1, <3>1 DEF Quiet
  <2>2. CASE ~MoveRefused(m.from, m.arg)
    <3>1. RoomKept' /\ BotTurnDriven' /\ starts' = starts
      BY <1>1, <1>9, <2>2, MoveTokenKeeps
    <3> QED BY <1>4, <1>9, <3>1
  <2> QED BY <2>1, <2>2
<1>10. /\ m.type # "move_token" => m.from \in Human
       /\ m.type = "remove_bot" => m.arg \in Color
  BY <1>2 DEF ChannelMessage
<1> QED BY <1>5, <1>6, <1>7, <1>8, <1>9, <1>10 DEF ProcessMessage, m

\* A timeout that has waited for the mutex gets it.
LEMMA TurnTimeoutStep ==
  ASSUME RoomInv, HandleTurnTimeout
  PROVE  RoomInv'
<1>1. UNCHANGED messages
  BY DEF HandleTurnTimeout
<1>2. RoomKept' /\ BotTurnDriven' /\ starts' = starts
  BY TurnTimeoutKeeps
<1>3. Channel'
  BY <1>1, <1>2 DEF RoomInv, Channel, Queued
<1> QED BY <1>2, <1>3 DEF RoomInv, RoomKept

\* What a goroutine is, by its stage.
LEMMA GoroutineFact ==
  ASSUME RoomInv, NEW g, NEW stage, At(g, stage)
  PROVE  /\ g \in BagToSet(bots) /\ g \in BotGoroutine /\ g.at = stage /\ g.id \in Bot
         /\ stage = "send" => g.token \in Token
         /\ stage = "roll" => g.token = None
  BY DEF At, RoomInv, Drivers, BotGoroutine

\* A goroutine goes from one stage to the next.
LEMMA NextStage ==
  ASSUME RoomInv, NEW g, g \in BagToSet(bots), NEW stage, NEW t,
         [id |-> g.id, at |-> stage, token |-> t] \in BotGoroutine
  PROVE  LET B == Without(g) (+) Goroutine(g.id, stage, t)
         IN  /\ IsABag(B) /\ BagToSet(B) \subseteq BotGoroutine
             /\ BagToSet(bots) \ {g} \subseteq BagToSet(B)
             /\ [id |-> g.id, at |-> stage, token |-> t] \in BagToSet(B)
<1> DEFINE next == [id |-> g.id, at |-> stage, token |-> t]
<1>1. /\ IsABag(Without(g)) /\ BagToSet(Without(g)) \subseteq BotGoroutine
      /\ BagToSet(bots) \ {g} \subseteq BagToSet(Without(g))
  BY BagRemove DEF Without, RoomInv, Drivers
<1>2. IsABag(Goroutine(g.id, stage, t)) /\ BagToSet(Goroutine(g.id, stage, t)) = {next}
  BY BagOfOne DEF Goroutine
<1> HIDE DEF next
<1>3. LET B == Without(g) (+) Goroutine(g.id, stage, t)
      IN  IsABag(B) /\ BagToSet(B) = BagToSet(Without(g)) \cup {next}
  BY <1>1, <1>2, BagAdd
<1> QED BY <1>1, <1>3 DEF next

\* A bot's goroutine rolls.
LEMMA BotRollStep ==
  ASSUME RoomInv, NEW g, BotRoll(g)
  PROVE  RoomInv'
<1> DEFINE running == Without(g) (+) Goroutine(g.id, "look", None)
           next == [id |-> g.id, at |-> "look", token |-> None]
<1>1. /\ At(g, "roll") /\ HandleRollDice(g.id, running)
      /\ UNCHANGED <<messages, timeouts, crashed>>
  BY DEF BotRoll
<1>2. g \in BagToSet(bots) /\ g.at = "roll" /\ g.id \in Bot /\ g.token = None
  BY <1>1, GoroutineFact
<1>3. /\ IsABag(running) /\ BagToSet(running) \subseteq BotGoroutine
      /\ BagToSet(bots) \ {g} \subseteq BagToSet(running)
      /\ next \in BagToSet(running)
  <2>1. next \in BotGoroutine
    BY <1>2 DEF BotGoroutine
  <2> QED BY <1>2, <2>1, NextStage
<1>4. next.id = g.id /\ next.at = "look"
  OBVIOUS
<1> HIDE DEF running, next
<1>5. CASE RollRefused(g.id)
  <2>1. Ignore(running)
    BY <1>1, <1>5 DEF HandleRollDice
  <2>2. timeouts' \in Nat /\ timeouts' >= timeouts
    BY <1>1 DEF RoomInv, Drivers
  <2>3. /\ RoomKept' /\ NoBotReturns /\ bots' = running
        /\ UNCHANGED <<gameVars, status, seats, starts>>
    BY <1>1, <1>3, <2>1, <2>2, IgnoreFact
  <2>4. Channel'
    BY <1>1, <2>3 DEF RoomInv, Channel, Queued
  <2>5. ASSUME BotsTurn, PlayedBy(BagToSet(bots), Elements(messages))
        PROVE  PlayedBy(BagToSet(bots'), Elements(messages'))
    <3>1. CASE phase = "WaitingForRoll"
      <4>1. PICK f \in BagToSet(bots) : f.id = CurrentPlayer.id /\ f.at = "roll"
        BY <2>5, <3>1 DEF PlayedBy
      <4>2. f # g
        BY <1>5, <2>5, <3>1, <4>1 DEF RollRefused, BotsTurn
      <4>3. f \in BagToSet(bots')
        BY <1>3, <2>3, <4>1, <4>2
      <4> QED BY <3>1, <4>1, <4>3 DEF PlayedBy
    <3>2. CASE phase # "WaitingForRoll"
      <4>1. PICK o \in offer :
              (\E f \in BagToSet(bots) : Makes(f, o)) \/ MoveOf(o) \in Elements(messages)
        BY <2>5, <3>2 DEF PlayedBy
      <4>2. ~Makes(g, o)
        <5>1. o.token \in Token
          BY <4>1 DEF RoomInv, Table, GameTypeOK, Offer
        <5> QED BY <1>2, <5>1, TurnAssumption DEF Makes
      <4>3. (\E f \in BagToSet(bots') : Makes(f, o)) \/ MoveOf(o) \in Elements(messages')
        BY <1>1, <1>3, <2>3, <4>1, <4>2
      <4> QED BY <3>2, <4>1, <4>3 DEF PlayedBy
    <3> QED BY <3>1, <3>2
  <2>6. BotTurnDriven'
    BY <1>1, <2>3, <2>5, DrivenStays DEF RoomInv
  <2> QED BY <2>3, <2>4, <2>6 DEF RoomInv, RoomKept
<1>6. CASE ~RollRefused(g.id)
  <2>1. RoomKept' /\ BotTurnDriven' /\ starts' = starts
    BY <1>1, <1>3, <1>4, <1>6, RollDiceKeeps
  <2>2. Channel'
    BY <1>1, <2>1 DEF RoomInv, Channel, Queued
  <2> QED BY <2>1, <2>2 DEF RoomInv, RoomKept
<1> QED BY <1>5, <1>6

\* A goroutine that has rolled looks, chooses or sends: the game, the timer
\* and the people in the room are left alone.
LEMMA BotThinksStep ==
  ASSUME RoomInv, NEW g, BotLook(g) \/ BotChoose(g) \/ BotSend(g)
  PROVE  RoomInv'
<1>1. /\ UNCHANGED <<gameVars, membership, freshBots, seats, turnTimer, starts, settlements,
                     timeouts>>
      /\ g \in BagToSet(bots)
  BY DEF BotLook, BotChoose, BotSend, At
<1>2. Membership' /\ Table' /\ Settled' /\ HumanTurnTimed' /\ NoBotReturns
  BY <1>1, RoomUntouched
<1>3. /\ IsABag(Without(g)) /\ BagToSet(Without(g)) \subseteq BotGoroutine
      /\ BagToSet(bots) \ {g} \subseteq BagToSet(Without(g))
  BY BagRemove DEF Without, RoomInv, Drivers
<1>4. CASE BotLook(g)
  <2>1. At(g, "look") /\ UNCHANGED <<messages, crashed>>
        /\ bots' = Without(g) (+) (IF phase = "WaitingForMove" /\ offer # {}
                                   THEN Goroutine(g.id, "choose", None) ELSE EmptyBag)
    BY <1>4 DEF BotLook
  <2>2. g.at = "look" /\ g.id \in Bot
    BY <2>1, GoroutineFact
  <2> DEFINE next == [id |-> g.id, at |-> "choose", token |-> None]
  <2>3. ASSUME phase = "WaitingForMove" /\ offer # {}
        PROVE  /\ IsABag(bots') /\ BagToSet(bots') \subseteq BotGoroutine
               /\ PlayedBy(BagToSet(bots), Elements(messages)) =>
                    PlayedBy(BagToSet(bots'), Elements(messages'))
    <3>1. next \in BotGoroutine
      BY <2>2 DEF BotGoroutine
    <3>2. /\ IsABag(bots') /\ BagToSet(bots') \subseteq BotGoroutine
          /\ BagToSet(bots) \ {g} \subseteq BagToSet(bots') /\ next \in BagToSet(bots')
      BY <1>1, <2>1, <2>3, <3>1, NextStage
    <3>3. next.id = g.id /\ next.at = "choose"
      OBVIOUS
    <3> HIDE DEF next
    <3>4. PlayedBy(BagToSet(bots), Elements(messages)) =>
            PlayedBy(BagToSet(bots'), Elements(messages'))
      BY <2>1, <2>3, <3>2, <3>3 DEF PlayedBy, Makes
    <3> QED BY <3>2, <3>4
  <2>4. ASSUME ~(phase = "WaitingForMove" /\ offer # {})
        PROVE  /\ IsABag(bots') /\ BagToSet(bots') \subseteq BotGoroutine
               /\ PlayedBy(BagToSet(bots), Elements(messages)) =>
                    PlayedBy(BagToSet(bots'), Elements(messages'))
    <3>1. bots' = Without(g) (+) EmptyBag
      BY <2>1, <2>4
    <3>2. /\ IsABag(bots') /\ BagToSet(bots') \subseteq BotGoroutine
          /\ BagToSet(bots) \ {g} \subseteq BagToSet(bots')
      BY <1>3, <3>1, BagAdd, BagOfNone
    <3>3. phase # "WaitingForRoll" => offer = {}
      BY <2>4 DEF RoomInv, Table, GameTypeOK
    <3>4. PlayedBy(BagToSet(bots), Elements(messages)) =>
            PlayedBy(BagToSet(bots'), Elements(messages'))
      BY <2>2, <3>2, <3>3 DEF PlayedBy
    <3> QED BY <3>2, <3>4
  <2>5. /\ IsABag(bots') /\ BagToSet(bots') \subseteq BotGoroutine
        /\ PlayedBy(BagToSet(bots), Elements(messages)) =>
             PlayedBy(BagToSet(bots'), Elements(messages'))
    BY <2>3, <2>4
  <2>6. BotTurnDriven'
    BY <1>1, <1>2, <2>1, <2>5, DrivenStays DEF RoomInv, membership
  <2>7. Drivers' /\ Channel'
    BY <1>1, <2>1, <2>5 DEF RoomInv, Drivers, Channel, Queued
  <2> QED BY <1>2, <2>6, <2>7 DEF RoomInv
<1>5. CASE BotChoose(g)
  <2>1. At(g, "choose") /\ UNCHANGED messages
        /\ \/ \E o \in offer : bots' = Without(g) (+) Goroutine(g.id, "send", o.token)
                                /\ UNCHANGED crashed
           \/ offer = {} /\ crashed' = TRUE /\ UNCHANGED bots
    BY <1>5 DEF BotChoose
  <2>2. g.at = "choose" /\ g.id \in Bot
    BY <2>1, GoroutineFact
  <2>3. CASE offer = {} /\ crashed' = TRUE /\ UNCHANGED bots
    <3>1. BotTurnDriven'
      BY <2>3 DEF BotTurnDriven
    <3>2. Drivers' /\ Channel'
      BY <1>1, <2>1, <2>3 DEF RoomInv, Drivers, Channel, Queued
    <3> QED BY <1>2, <3>1, <3>2 DEF RoomInv
  <2>4. ASSUME NEW o \in offer, UNCHANGED crashed,
               bots' = Without(g) (+) Goroutine(g.id, "send", o.token)
        PROVE  RoomInv'
    <3> DEFINE next == [id |-> g.id, at |-> "send", token |-> o.token]
    <3>1. next \in BotGoroutine
      <4>1. o.token \in Token
        BY DEF RoomInv, Table, GameTypeOK, Offer
      <4> QED BY <2>2, <4>1 DEF BotGoroutine
    <3>2. /\ IsABag(bots') /\ BagToSet(bots') \subseteq BotGoroutine
          /\ BagToSet(bots) \ {g} \subseteq BagToSet(bots') /\ next \in BagToSet(bots')
      BY <1>1, <2>4, <3>1, NextStage
    <3>3. next.id = g.id /\ next.token = o.token
      OBVIOUS
    <3> HIDE DEF next
    <3>4. PlayedBy(BagToSet(bots), Elements(messages)) =>
            PlayedBy(BagToSet(bots'), Elements(messages'))
      <4>1. CASE phase = "WaitingForRoll"
        BY <2>2, <3>2, <4>1 DEF PlayedBy
      <4>2. CASE phase # "WaitingForRoll"
        <5>1. ASSUME NEW q \in offer, Makes(g, q)
              PROVE  Makes(next, o)
          BY <3>3, <5>1 DEF Makes
        <5> QED BY <2>1, <3>2, <4>2, <5>1 DEF PlayedBy
      <4> QED BY <4>1, <4>2
    <3>5. BotTurnDriven'
      BY <1>1, <1>2, <2>4, <3>4, DrivenStays DEF RoomInv, membership
    <3>6. Drivers' /\ Channel'
      BY <1>1, <2>1, <2>4, <3>2 DEF RoomInv, Drivers, Channel, Queued
    <3> QED BY <1>2, <3>5, <3>6 DEF RoomInv
  <2> QED BY <2>1, <2>3, <2>4
<1>6. CASE BotSend(g)
  <2> DEFINE m == Message(g.id, "move_token", g.token)
  <2>1. At(g, "send") /\ Enqueue(m) /\ bots' = Without(g) /\ UNCHANGED crashed
    BY <1>6 DEF BotSend
  <2>2. g.at = "send" /\ g.id \in Bot /\ g.token \in Token
    BY <2>1, GoroutineFact
  <2>3. m \in ChannelMessage /\ m.type # "start_game"
    BY <2>2 DEF Message, ChannelMessage
  <2>4. Channel' /\ \A x \in Elements(messages) \cup {m} : x \in Elements(messages')
    <3> HIDE DEF m
    <3> QED BY <1>1, <2>1, <2>3, EnqueueFact DEF RoomInv
  <2>5. PlayedBy(BagToSet(bots), Elements(messages)) =>
          PlayedBy(BagToSet(bots'), Elements(messages'))
    <3>1. CASE phase = "WaitingForRoll"
      BY <1>3, <2>1, <2>2, <3>1 DEF PlayedBy
    <3>2. CASE phase # "WaitingForRoll"
      <4>1. ASSUME NEW o \in offer, Makes(g, o)
            PROVE  MoveOf(o) = m
        BY <2>2, <4>1 DEF Makes, MoveOf
      <4> HIDE DEF m
      <4> QED BY <1>3, <2>1, <2>4, <3>2, <4>1 DEF PlayedBy
    <3> QED BY <3>1, <3>2
  <2>6. BotTurnDriven'
    BY <1>1, <1>2, <2>1, <2>5, DrivenStays DEF RoomInv, membership
  <2>7. Drivers'
    BY <1>1, <1>3, <2>1 DEF RoomInv, Drivers
  <2> QED BY <1>2, <2>4, <2>6, <2>7 DEF RoomInv
<1> QED BY <1>4, <1>5, <1>6

\* Every step of the room keeps the invariant.
LEMMA RoomInvNext == RoomInv /\ [RoomNext]_roomVars => RoomInv'
<1> SUFFICES ASSUME RoomInv, [RoomNext]_roomVars PROVE RoomInv'
  OBVIOUS
<1>1. CASE UNCHANGED roomVars
  <2>1. UNCHANGED <<gameVars, membership, freshBots, seats, turnTimer, starts, settlements,
                    timeouts, messages, bots, crashed>>
    BY <1>1 DEF roomVars, drivers
  <2>2. Membership' /\ Table' /\ Settled' /\ HumanTurnTimed' /\ NoBotReturns
    BY <2>1, RoomUntouched
  <2>3. Drivers' /\ Channel'
    BY <2>1 DEF RoomInv, Drivers, Channel, Queued
  <2>4. BotTurnDriven'
    BY <2>1, <2>2, DrivenStays DEF RoomInv, membership
  <2> QED BY <2>2, <2>3, <2>4 DEF RoomInv
<1>2. CASE \E h \in Human : Send(h)
  BY <1>2, SendStep
<1>3. CASE ProcessMessage
  BY <1>3, ProcessMessageStep
<1>4. CASE TimerFires
  BY <1>4, TimerFiresStep
<1>5. CASE HandleTurnTimeout
  BY <1>5, TurnTimeoutStep
<1>6. CASE \E g \in BagToSet(bots) : BotStep(g)
  BY <1>6, BotRollStep, BotThinksStep DEF BotStep
<1> QED BY <1>1, <1>2, <1>3, <1>4, <1>5, <1>6 DEF RoomNext, Crashed

\* The invariant of the room.
LEMMA RoomInvariant == RoomSpec => []RoomInv
  BY RoomStarts, RoomInvNext, PTL DEF RoomSpec

-----------------------------------------------------------------------------
(* The theorems.                                                           *)

\* Every variable of a room has its type, whatever people and bots do.
THEOREM RoomTypeCorrect == RoomSpec => []RoomTypeOK
  BY RoomInvariant, RoomInvImplies, PTL

\* No two in a room share an ID or a colour, however they come and go
\* (nextAvailableColor, handleJoin, handleAddBot, handleRemoveBot).
THEOREM RoomSeatsDistinct == RoomSpec => []SeatsDistinct
  BY RoomInvariant, RoomInvImplies, PTL

\* Everybody who has joined after the host and is no bot has paid (handleJoin).
THEOREM RoomGuestsFunded == RoomSpec => []GuestsFunded
  BY RoomInvariant, RoomInvImplies, PTL

\* A person's turn is always timed, whichever party has handed it over.
THEOREM RoomHumanTurnTimed == RoomSpec => []HumanTurnTimed
  BY RoomInvariant, RoomInvImplies, PTL

\* A bot's turn is always being played by a goroutine or a message on its way,
\* whatever happens between the goroutine's stages (tryBotTurn).
THEOREM RoomBotTurnDriven == RoomSpec => []BotTurnDriven
  BY RoomInvariant, RoomInvImplies, PTL

\* A game is settled at most once for each time it is started (handleMoveToken, handleStartGame).
THEOREM RoomSettledOnce == RoomSpec => []SettledOncePerStart
  BY RoomInvariant, RoomInvImplies, PTL
=============================================================================

------------------------------ MODULE TurnGame ------------------------------
(***************************************************************************)
(* What the rest of the server may rely on about a game, without a board:  *)
(* whose turn it is, whether a roll or a move is awaited, which tokens the *)
(* roll may move, who has finished and in which order.  Whether a roll     *)
(* offers a move, whether a move takes a token home and whether a move     *)
(* earns another turn is left open.                                        *)
(*                                                                         *)
(* LudoGame implements this specification (LudoGameRefinement); LudoRoom   *)
(* plays it.  The number of players is a variable because a room fixes it  *)
(* when the game starts.                                                   *)
(***************************************************************************)
EXTENDS Integers

CONSTANTS TokensPerPlayer, None

Token == 0..(TokensPerPlayer - 1)

ASSUME TurnAssumption == TokensPerPlayer \in Nat \ {0} /\ None \notin Token

VARIABLES
  numPlayers,     \* players of this game, seated 0, 1, ..
  home,           \* home[p]: the tokens of p that have finished
  turn,           \* the seat whose turn it is
  phase,          \* a roll or a move is awaited
  offer,          \* the moves the roll offered
  winner,         \* the first seat to finish, or None
  finishedCount,
  finishOrder

gameVars == <<numPlayers, home, turn, phase, offer, winner, finishedCount, finishOrder>>

Seat == 0..(numPlayers - 1)

\* A move, as far as it matters here: its token and whether it gets home.
Offer == [token : Token, finishes : BOOLEAN]

-----------------------------------------------------------------------------
AllHome(h, p) == h[p] = Token

\* The game is over when at most one player is not through.
Over(h) == \A p, q \in Seat : ~AllHome(h, p) /\ ~AllHome(h, q) => p = q

\* The next seat still playing, going round from p and ending with p itself.
NextSeat(h, p) ==
  LET After(offset) == (p + offset) % numPlayers
      live == {o \in 1..numPlayers : ~AllHome(h, After(o))}
  IN  IF live = {} THEN p ELSE After(CHOOSE o \in live : \A q \in live : o <= q)

-----------------------------------------------------------------------------
\* The state of a new game of n players (NewGameState).
NewGame(n) ==
  /\ numPlayers' = n
  /\ home' = [p \in 0..(n - 1) |-> {}]
  /\ turn' = 0
  /\ phase' = "WaitingForRoll"
  /\ offer' = {}
  /\ winner' = None
  /\ finishedCount' = 0
  /\ finishOrder' = [p \in 0..(n - 1) |-> 0]

\* A roll that moves nothing, or the third six: the turn passes.
RollInVain ==
  /\ phase = "WaitingForRoll"
  /\ turn' = NextSeat(home, turn)
  /\ UNCHANGED <<numPlayers, home, phase, offer, winner, finishedCount, finishOrder>>

RollOffers(moves) ==
  /\ phase = "WaitingForRoll"
  /\ phase' = "WaitingForMove"
  /\ offer' = moves
  /\ UNCHANGED <<numPlayers, home, turn, winner, finishedCount, finishOrder>>

\* What a roll may offer: moves of tokens that are not home, one per token.
Offering(moves) ==
  /\ moves # {}
  /\ \A o \in moves : o.token \notin home[turn]
  /\ \A a, b \in moves : a.token = b.token => a = b

Roll == RollInVain \/ \E moves \in SUBSET Offer : Offering(moves) /\ RollOffers(moves)

\* The tokens home after a move, and whether it was the player's last one.
HomeAfter(o) == IF o.finishes THEN [home EXCEPT ![turn] = @ \cup {o.token}] ELSE home
LastHome(o) == o.finishes /\ AllHome(HomeAfter(o), turn)

Rank(o) ==
  IF LastHome(o)
  THEN /\ finishedCount' = finishedCount + 1
       /\ finishOrder' = [finishOrder EXCEPT ![turn] = finishedCount + 1]
       /\ winner' = IF finishedCount = 0 THEN turn ELSE winner
  ELSE UNCHANGED <<winner, finishedCount, finishOrder>>

KeepTurn == turn' = turn
YieldTurn(o) == turn' = NextSeat(HomeAfter(o), turn)

\* One of the moves a roll offered is made.  Finishing a token earns another
\* turn, unless it was the last one; the move that ends the game leaves the
\* turn, the phase and the offer behind.
PlayOf(o, moves) ==
  /\ home' = HomeAfter(o)
  /\ Rank(o)
  /\ IF LastHome(o) /\ Over(HomeAfter(o))
     THEN turn' = turn /\ phase' = "WaitingForMove" /\ offer' = moves
     ELSE /\ phase' = "WaitingForRoll"
          /\ offer' = {}
          /\ \/ ~LastHome(o) /\ KeepTurn
             \/ (o.finishes => LastHome(o)) /\ YieldTurn(o)
  /\ UNCHANGED numPlayers

Play(o) == phase = "WaitingForMove" /\ o \in offer /\ PlayOf(o, offer)

-----------------------------------------------------------------------------
Init ==
  /\ numPlayers \in 2..4
  /\ home = [p \in Seat |-> {}]
  /\ turn = 0
  /\ phase = "WaitingForRoll"
  /\ offer = {}
  /\ winner = None
  /\ finishedCount = 0
  /\ finishOrder = [p \in Seat |-> 0]

Next == ~Over(home) /\ (Roll \/ \E o \in offer : Play(o))

Spec == Init /\ [][Next]_gameVars
=============================================================================

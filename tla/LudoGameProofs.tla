--------------------------- MODULE LudoGameProofs ---------------------------
(***************************************************************************)
(* Theorems about the game engine, for every board, every number of        *)
(* players and every number of tokens the assumptions of LudoBoard and     *)
(* LudoGame allow.                                                         *)
(***************************************************************************)
EXTENDS LudoGame, FiniteSetTheorems, WellFoundedInduction, TLAPS

-----------------------------------------------------------------------------
(* First elements.                                                         *)

NatLess == {ss \in Nat \X Nat : ss[1] < ss[2]}

\* The order of the naturals is well-founded.
LEMMA NatLessWellFounded == IsWellFoundedOn(NatLess, Nat)
  BY NatLessThanWellFounded DEF OpToRel, NatLess

\* A nonempty set of naturals has a smallest element: the loops over seats
\* and tokens stop at the first hit.
LEMMA SmallestNat ==
  ASSUME NEW S \in SUBSET Nat, S # {}
  PROVE  \E k \in S : \A j \in S : k <= j
<1>1. PICK k \in S : \A j \in S : ~(<<j, k>> \in NatLess)
  BY NatLessWellFounded, WFMin
<1>2. \A j \in S : ~(j < k)
  BY <1>1 DEF NatLess
<1> QED BY <1>2

-----------------------------------------------------------------------------
(* The helpers of the engine.                                              *)

Board == [Player -> [Token -> Place]]

\* The opposing tokens on a cell.
Opponents(toks, p, pos) ==
  {h \in (Player \ {p}) \X Token : toks[h[1]][h[2]] = At("OnBoard", pos)}

\* A capture takes at most one token, it is an opponent on an unsafe cell, and
\* if there is one it takes one (findCapturable).
LEMMA FindCapturableFact ==
  ASSUME NEW toks, NEW p, NEW pos
  PROVE  LET c == FindCapturable(toks, p, pos)
         IN  /\ c \subseteq Opponents(toks, p, pos)
             /\ c # {} => pos \notin SafeZones
             /\ \A g, h \in c : g = h
             /\ pos \notin SafeZones /\ Opponents(toks, p, pos) # {} => c # {}
<1> DEFINE hits == Opponents(toks, p, pos)
           Before(g, h) == g[1] < h[1] \/ (g[1] = h[1] /\ g[2] <= h[2])
           first == CHOOSE g \in hits : \A h \in hits : Before(g, h)
<1>1. FindCapturable(toks, p, pos) =
        IF pos \in SafeZones \/ hits = {} THEN {} ELSE {first}
  BY DEF FindCapturable, Opponents, IsSafeZone
<1>2. ASSUME hits # {} PROVE first \in hits
  <2>1. hits \subseteq Nat \X Nat
    BY BoardAssumption, GameAssumption DEF Opponents, Player, Token
  <2> DEFINE seats == {i \in Nat : \E h \in hits : h[1] = i}
  <2>2. PICK i \in seats : \A j \in seats : i <= j
    <3>1. seats # {} BY <1>2, <2>1
    <3> HIDE DEF seats
    <3>2. seats \subseteq Nat BY DEF seats
    <3> QED BY <3>1, <3>2, SmallestNat
  <2> DEFINE toksAt == {k \in Nat : <<i, k>> \in hits}
  <2>3. PICK k \in toksAt : \A j \in toksAt : k <= j
    <3>1. toksAt # {} BY <2>1, <2>2
    <3> HIDE DEF toksAt
    <3>2. toksAt \subseteq Nat BY DEF toksAt
    <3> QED BY <3>1, <3>2, SmallestNat
  <2>4. ASSUME NEW h \in hits PROVE Before(<<i, k>>, h)
    <3>1. h[1] \in seats /\ h[2] \in Nat /\ h = <<h[1], h[2]>> BY <2>1
    <3>2. i <= h[1] BY <2>2, <3>1
    <3>3. CASE i = h[1]
      <4>1. h[2] \in toksAt BY <3>1, <3>3
      <4> QED BY <4>1, <2>3, <3>3
    <3>4. CASE i # h[1] BY <3>2, <3>4, <3>1
    <3> QED BY <3>3, <3>4
  <2>5. <<i, k>> \in hits BY <2>3
  <2> HIDE DEF hits, Before
  <2> QED BY <2>4, <2>5
<1> HIDE DEF first
<1>3. CASE pos \in SafeZones \/ hits = {}
  BY <1>1, <1>3
<1>4. CASE ~(pos \in SafeZones \/ hits = {})
  BY <1>1, <1>2, <1>4
<1> QED BY <1>3, <1>4

\* The next player is a seat of the game; if anybody can still play it is one
\* who can, and the seats before it, going round from p, have all finished
\* (NextPlayerColor).
LEMMA NextPlayerColorFact ==
  ASSUME NEW toks, NEW p \in Player
  PROVE  LET q == NextPlayerColor(toks, p)
         IN  /\ q \in Player
             /\ (\E r \in Player : ~HasAllTokensFinished(toks, r))
                  => ~HasAllTokensFinished(toks, q)
             /\ q # p => \A k \in 1..(((q - p + NumPlayers) % NumPlayers) - 1) :
                           HasAllTokensFinished(toks, (p + k) % NumPlayers)
<1> DEFINE Seat(o) == (p + o) % NumPlayers
           live == {o \in 1..NumPlayers : ~HasAllTokensFinished(toks, Seat(o))}
           first == CHOOSE o \in live : \A q \in live : o <= q
<1> USE BoardAssumption
<1>1. NextPlayerColor(toks, p) = IF live = {} THEN p ELSE Seat(first)
  BY DEF NextPlayerColor
<1>2. ASSUME live # {}
      PROVE  first \in live /\ \A o \in live : first <= o
  <2>1. live \subseteq Nat OBVIOUS
  <2> HIDE DEF live
  <2>2. \E o \in live : \A q \in live : o <= q BY <1>2, <2>1, SmallestNat
  <2> QED BY <2>2
<1>3. \A o \in 1..NumPlayers : Seat(o) \in Player
  BY DEF Player
<1>4. ASSUME NEW r \in Player, ~HasAllTokensFinished(toks, r)
      PROVE  live # {}
  <2>1. CASE r > p
    <3>1. r - p \in 1..NumPlayers /\ Seat(r - p) = r BY <2>1 DEF Player
    <3> QED BY <3>1, <1>4
  <2>2. CASE r <= p
    <3>1. r - p + NumPlayers \in 1..NumPlayers BY <2>2 DEF Player
    <3>2. p + (r - p + NumPlayers) = r + NumPlayers BY DEF Player
    <3>3. (r + NumPlayers) % NumPlayers = r BY DEF Player
    <3>4. Seat(r - p + NumPlayers) = r BY <3>2, <3>3
    <3> QED BY <3>1, <3>4, <1>4
  <2> QED BY <2>1, <2>2 DEF Player
<1> HIDE DEF first
<1>5. CASE live = {}
  BY <1>1, <1>4, <1>5
<1>6. CASE live # {}
  <2> DEFINE q == NextPlayerColor(toks, p)
  <2>1. q = Seat(first) /\ first \in live BY <1>1, <1>2, <1>6
  <2>2. q \in Player /\ ~HasAllTokensFinished(toks, q) BY <2>1, <1>3
  <2>3. ASSUME q # p, NEW k \in 1..(((q - p + NumPlayers) % NumPlayers) - 1)
        PROVE  HasAllTokensFinished(toks, (p + k) % NumPlayers)
    <3>1. first \in 1..NumPlayers /\ first # NumPlayers BY <2>1, <2>3 DEF Player
    <3>2. (q - p + NumPlayers) % NumPlayers = first
      <4>1. CASE p + first < NumPlayers
        <5>1. q = p + first BY <2>1, <3>1, <4>1 DEF Player
        <5>2. q - p + NumPlayers = first + NumPlayers BY <5>1, <3>1 DEF Player
        <5>3. (first + NumPlayers) % NumPlayers = first BY <3>1
        <5> QED BY <5>2, <5>3
      <4>2. CASE p + first >= NumPlayers
        <5>1. q = p + first - NumPlayers BY <2>1, <3>1, <4>2 DEF Player
        <5>2. q - p + NumPlayers = first BY <5>1, <3>1 DEF Player
        <5> QED BY <5>2, <3>1
      <4> QED BY <4>1, <4>2, <3>1 DEF Player
    <3>3. k \in 1..NumPlayers /\ k < first BY <2>3, <3>1, <3>2
    <3>4. k \notin live BY <1>2, <1>6, <3>1, <3>3
    <3> QED BY <3>3, <3>4
  <2> QED BY <2>2, <2>3
<1> QED BY <1>5, <1>6

\* What a computed move looks like: it names a token and the state it is in,
\* it takes the token to a place of the board that no other token of its owner
\* occupies, and it captures only on the main track (computeMoveForToken).
LEMMA ComputedMove ==
  ASSUME NEW toks \in Board, NEW p \in Player, NEW d \in Dice,
         NEW m \in ComputeValidMoves(toks, p, d)
  PROVE  /\ m \in Move
         /\ Landing(m) \in Place
         /\ m.fromState = toks[p][m.token].state
         /\ m.toState \in {"OnBoard", "InHome", "Finished"}
         /\ m.toState # "Finished" =>
              ~OwnTokenAt(toks, p, m.token, m.toState, m.toPos)
         /\ m.captured = IF m.toState = "OnBoard"
                         THEN FindCapturable(toks, p, m.toPos) ELSE {}
<1> USE BoardAssumption, GameAssumption
<1>1. PICK t \in Token : m \in ComputeMoveForToken(toks, p, t, d)
  BY DEF ComputeValidMoves
<1>2. toks[p][t] \in Place
  BY DEF Board
<1>3. \A pos : FindCapturable(toks, p, pos) \in SUBSET (Player \X Token)
  <2> TAKE pos
  <2>1. Opponents(toks, p, pos) \subseteq Player \X Token BY DEF Opponents
  <2> QED BY <2>1, FindCapturableFact
<1>4. CASE toks[p][t].state = "InBase"
  <2>1. m = MoveTo(t, "InBase", "OnBoard", StartPosition[p],
                   FindCapturable(toks, p, StartPosition[p]))
        /\ ~OwnTokenAt(toks, p, t, "OnBoard", StartPosition[p])
    BY <1>1, <1>4 DEF ComputeMoveForToken, TryEnterBoard
  <2>2. StartPosition[p] \in Cell /\ StartPosition[p] \in Nat BY DEF Cell
  <2> QED BY <2>1, <2>2, <1>3, <1>4
        DEF MoveTo, Move, TokenState, Landing, Place, At
<1>5. CASE toks[p][t].state = "OnBoard"
  <2>1. m \in TryMoveOnBoard(toks, p, t, d)
    BY <1>1, <1>5 DEF ComputeMoveForToken
  <2>2. toks[p][t].pos \in Cell
    BY <1>2, <1>5 DEF Place, InBase, At
  <2> DEFINE rel == RelativePosition(p, toks[p][t].pos)
             homePos == HomeColumnPosition(rel, d)
             newPos == (toks[p][t].pos + d) % MainTrackSize
  <2>3. CASE CanEnterHome(rel, d)
    <3>1. m \in TryEnterHome(toks, p, t, d)
      BY <2>1, <2>3 DEF TryMoveOnBoard
    <3>2. CASE IsExactFinish(homePos)
      <4>1. m = MoveTo(t, "OnBoard", "Finished", homePos, {})
        BY <3>1, <3>2 DEF TryEnterHome
      <4>2. homePos \in Nat BY <3>2 DEF IsExactFinish, Dice
      <4> QED BY <4>1, <4>2, <1>5 DEF MoveTo, Move, TokenState, Landing, Place, At
    <3>3. CASE ~IsExactFinish(homePos)
      <4>1. /\ m = MoveTo(t, "OnBoard", "InHome", homePos, {})
            /\ IsValidHomePosition(homePos)
            /\ ~OwnTokenAt(toks, p, t, "InHome", homePos)
        BY <3>1, <3>3 DEF TryEnterHome
      <4>2. homePos \in Nat /\ homePos \in 0..(HomeColumnSize - 2)
        BY <4>1, <3>3 DEF IsValidHomePosition, IsExactFinish
      <4> QED BY <4>1, <4>2, <1>5 DEF MoveTo, Move, TokenState, Landing, Place, At
    <3> QED BY <3>2, <3>3
  <2>4. CASE ~CanEnterHome(rel, d)
    <3>1. /\ m = MoveTo(t, "OnBoard", "OnBoard", newPos, FindCapturable(toks, p, newPos))
          /\ ~OwnTokenAt(toks, p, t, "OnBoard", newPos)
      BY <2>1, <2>4 DEF TryMoveOnBoard
    <3>2. newPos \in Cell /\ newPos \in Nat
      BY <2>2 DEF Cell, Dice
    <3> QED BY <3>1, <3>2, <1>3, <1>5 DEF MoveTo, Move, TokenState, Landing, Place, At
  <2> QED BY <2>3, <2>4
<1>6. CASE toks[p][t].state = "InHome"
  <2>1. m \in TryMoveInHome(toks, p, t, d)
    BY <1>1, <1>6 DEF ComputeMoveForToken
  <2>2. toks[p][t].pos \in 0..(HomeColumnSize - 2)
    BY <1>2, <1>6 DEF Place, InBase, At
  <2> DEFINE newPos == toks[p][t].pos + d
  <2>3. newPos <= HomeColumnSize - 1
    BY <2>1, <2>2 DEF TryMoveInHome, CanMoveInHomeColumn
  <2>4. newPos \in Nat BY <2>2 DEF Dice
  <2>5. CASE newPos = HomeColumnSize - 1
    <3>1. m = MoveTo(t, "InHome", "Finished", newPos, {})
      BY <2>1, <2>3, <2>5 DEF TryMoveInHome, CanMoveInHomeColumn
    <3> QED BY <3>1, <2>4, <1>6 DEF MoveTo, Move, TokenState, Landing, Place, At
  <2>6. CASE newPos # HomeColumnSize - 1
    <3>1. /\ m = MoveTo(t, "InHome", "InHome", newPos, {})
          /\ ~OwnTokenAt(toks, p, t, "InHome", newPos)
      BY <2>1, <2>3, <2>6 DEF TryMoveInHome, CanMoveInHomeColumn
    <3>2. newPos \in 0..(HomeColumnSize - 2) BY <2>3, <2>4, <2>6
    <3> QED BY <3>1, <3>2, <2>4, <1>6 DEF MoveTo, Move, TokenState, Landing, Place, At
  <2> QED BY <2>5, <2>6
<1>7. CASE toks[p][t].state = "Finished"
  BY <1>1, <1>7 DEF ComputeMoveForToken
<1> QED
  <2>1. toks[p][t].state \in {"InBase", "OnBoard", "InHome", "Finished"}
    BY <1>2 DEF Place, InBase, At
  <2> QED BY <2>1, <1>4, <1>5, <1>6, <1>7

-----------------------------------------------------------------------------
(* Type correctness.  A move is only as good as the board it was computed  *)
(* on, so the types need OfferedMovesCurrent: the move that is played was  *)
(* computed on the present board, for the present roll.                    *)

TypeInv == TypeOK /\ OfferedMovesCurrent

\* The move that is played was computed on the present board, and the board
\* after it is a board.
LEMMA PlayedMove ==
  ASSUME TypeInv, ~GameOver, turnPhase = "WaitingForMove", NEW m \in validMoves
  PROVE  /\ m \in ComputeValidMoves(tokens, currentTurn, diceValue)
         /\ diceValue \in Dice
         /\ TokensAfter(m) \in Board
<1>1. m \in ComputeValidMoves(tokens, currentTurn, diceValue) /\ diceValue \in Dice
  BY DEF TypeInv, OfferedMovesCurrent
<1>2. tokens \in Board /\ currentTurn \in Player
  BY DEF TypeInv, TypeOK, Board
<1>3. Landing(m) \in Place
  BY <1>1, <1>2, ComputedMove
<1>4. InBase \in Place
  BY DEF Place
<1>5. TokensAfter(m) \in Board
  BY <1>2, <1>3, <1>4 DEF TokensAfter, Board
<1> QED BY <1>1, <1>5

\* What a move does to the tokens: it puts one token of the player to move on
\* a place none of his others occupies, sends captured opponents to base from
\* the cell it lands on, and leaves the rest alone.
LEMMA MoveEffect ==
  ASSUME TypeInv, ~GameOver, turnPhase = "WaitingForMove", NEW m \in validMoves
  PROVE  LET c == currentTurn
             after == TokensAfter(m)
         IN  /\ m.token \in Token
             /\ m.toState \in {"OnBoard", "InHome", "Finished"}
             /\ m.toState # "Finished" =>
                  ~OwnTokenAt(tokens, c, m.token, m.toState, m.toPos)
             /\ m.captured = IF m.toState = "OnBoard"
                             THEN FindCapturable(tokens, c, m.toPos) ELSE {}
             /\ m.captured \subseteq Opponents(tokens, c, m.toPos)
             /\ after[c][m.token] = Landing(m)
             /\ \A p \in Player, t \in Token :
                  p # c \/ t # m.token =>
                    after[p][t] = IF <<p, t>> \in m.captured THEN InBase ELSE tokens[p][t]
             /\ \A t \in Token : t # m.token => after[c][t] = tokens[c][t]
<1> DEFINE c == currentTurn
<1>1. tokens \in Board /\ c \in Player BY DEF TypeInv, TypeOK, Board
<1>2. m \in ComputeValidMoves(tokens, c, diceValue) /\ diceValue \in Dice
  BY PlayedMove
<1>3. /\ m.token \in Token
      /\ m.toState \in {"OnBoard", "InHome", "Finished"}
      /\ m.toState # "Finished" =>
           ~OwnTokenAt(tokens, c, m.token, m.toState, m.toPos)
      /\ m.captured = IF m.toState = "OnBoard"
                      THEN FindCapturable(tokens, c, m.toPos) ELSE {}
  <2>1. m \in Move BY <1>1, <1>2, ComputedMove
  <2> QED BY <2>1, <1>1, <1>2, ComputedMove DEF Move
<1>4. m.captured \subseteq Opponents(tokens, c, m.toPos)
  BY <1>3, FindCapturableFact
<1>5. \A t \in Token : <<c, t>> \notin m.captured
  BY <1>4 DEF Opponents
<1>6. TokensAfter(m)[c][m.token] = Landing(m)
  BY <1>1, <1>3, <1>5 DEF TokensAfter
<1>7. \A p \in Player, t \in Token :
        p # c \/ t # m.token =>
          TokensAfter(m)[p][t] =
            IF <<p, t>> \in m.captured THEN InBase ELSE tokens[p][t]
  BY DEF TokensAfter
<1>8. \A t \in Token : t # m.token => TokensAfter(m)[c][t] = tokens[c][t]
  BY <1>1, <1>5, <1>7
<1> QED BY <1>3, <1>4, <1>6, <1>7, <1>8

\* A new game is well typed (NewGameState).
LEMMA TypeInvInit == Init => TypeInv
<1> SUFFICES ASSUME Init PROVE TypeInv OBVIOUS
<1> USE BoardAssumption, GameAssumption DEF Init
<1>1. TypeOK
  BY DEF TypeOK, Place, Player
<1>2. OfferedMovesCurrent
  BY DEF OfferedMovesCurrent
<1> QED BY <1>1, <1>2 DEF TypeInv

\* A roll keeps the types: it hands out only moves of the present board
\* (ApplyDiceRoll).
LEMMA TypeInvRollDice == TypeInv /\ RollDice => TypeInv'
<1> SUFFICES ASSUME TypeInv, ~GameOver, NEW d \in Dice, ApplyDiceRoll(d)
             PROVE  TypeInv'
  BY DEF RollDice
<1> USE DEF TypeInv, TypeOK
<1>1. turnPhase = "WaitingForRoll" BY DEF ApplyDiceRoll
<1>2. NextPlayerColor(tokens, currentTurn) \in Player BY NextPlayerColorFact
<1>3. validMoves = {} /\ diceValue = 0
  BY <1>1 DEF OfferedMovesCurrent
<1>4. CASE ForfeitTurn(d)
  BY <1>2, <1>3, <1>4 DEF ForfeitTurn, PassTurn, rankVars, OfferedMovesCurrent
<1>5. CASE SkipTurn(d)
  BY <1>2, <1>5 DEF SkipTurn, PassTurn, rankVars, OfferedMovesCurrent
<1>6. CASE OfferMoves(d)
  <2>1. OfferedFor(d) \subseteq Move
    BY ComputedMove DEF OfferedFor, Board
  <2>2. SixesWith(d) \in 0..2
    BY <1>6 DEF OfferMoves, SixesWith
  <2>3. TypeOK'
    BY <1>6, <2>1, <2>2 DEF OfferMoves, rankVars
  <2>4. OfferedMovesCurrent'
    BY <1>6 DEF OfferMoves, OfferedMovesCurrent, OfferedFor
  <2> QED BY <2>3, <2>4
<1> QED BY <1>4, <1>5, <1>6 DEF ApplyDiceRoll

\* A move keeps the types: it leaves a board, a seat and a rank (ApplyMove).
LEMMA TypeInvMoveToken == TypeInv /\ MoveToken => TypeInv'
<1> SUFFICES ASSUME TypeInv, ~GameOver, NEW m \in validMoves, ApplyMove(m)
             PROVE  TypeInv'
  BY DEF MoveToken
<1>1. tokens' = TokensAfter(m) /\ turnPhase = "WaitingForMove"
  BY DEF ApplyMove
<1>2. TokensAfter(m) \in Board
  BY <1>1, PlayedMove
<1> USE DEF TypeInv, TypeOK
<1>3. NextPlayerColor(TokensAfter(m), currentTurn) \in Player
  BY NextPlayerColorFact
<1>4. /\ winner' \in Player \cup {None}
      /\ finishedCount' \in Nat
      /\ finishOrder' \in [Player -> Nat]
  BY DEF ApplyMove, RankPlayer, rankVars
<1>5. /\ currentTurn' \in Player
      /\ turnPhase' \in {"WaitingForRoll", "WaitingForMove"}
      /\ diceValue' \in {0} \cup Dice
      /\ consecutiveSixes' \in 0..2
      /\ validMoves' \in SUBSET Move
  BY <1>3 DEF ApplyMove, EndTurn, turnVars, PassTurn
<1>6. OfferedMovesCurrent'
  <2>1. CASE FinishesPlayer(m) /\ AllPlayersFinished(TokensAfter(m))
    BY <1>1, <2>1 DEF GameOver, OfferedMovesCurrent
  <2>2. CASE ~(FinishesPlayer(m) /\ AllPlayersFinished(TokensAfter(m)))
    BY <2>2 DEF ApplyMove, EndTurn, PassTurn, OfferedMovesCurrent
  <2> QED BY <2>1, <2>2
<1> QED BY <1>1, <1>2, <1>4, <1>5, <1>6 DEF Board

\* The type invariant is inductive.
LEMMA TypeInvNext == TypeInv /\ [Next]_vars => TypeInv'
<1> SUFFICES ASSUME TypeInv, [Next]_vars PROVE TypeInv' OBVIOUS
<1>1. CASE RollDice BY <1>1, TypeInvRollDice
<1>2. CASE MoveToken BY <1>2, TypeInvMoveToken
<1>3. CASE UNCHANGED vars
  BY <1>3 DEF vars, turnVars, rankVars, TypeInv, TypeOK, OfferedMovesCurrent, GameOver
<1> QED BY <1>1, <1>2, <1>3 DEF Next, Stopped

\* Every reachable state is well typed: tokens are at places of the board,
\* also after a wrap of the track, the turn into the home column or a capture.
THEOREM TypeCorrect == Spec => []TypeOK
<1>1. TypeInv => TypeOK BY DEF TypeInv
<1> QED BY TypeInvInit, TypeInvNext, <1>1, PTL DEF Spec

\* The offered moves are always the moves of the present board and roll.
THEOREM OffersAreCurrent == Spec => []OfferedMovesCurrent
<1>1. TypeInv => OfferedMovesCurrent BY DEF TypeInv
<1> QED BY TypeInvInit, TypeInvNext, <1>1, PTL DEF Spec

-----------------------------------------------------------------------------
(* Who shares a cell.  The two properties need each other: a landing token *)
(* captures one opponent only, and that is enough because the opponents on *)
(* an unsafe cell are all of one colour (UnsafeCellExclusive) and a colour *)
(* has one token there (NoOwnStacking).                                    *)

BoardInv == UnsafeCellExclusive /\ NoOwnStacking

\* With all tokens in base nobody shares a cell.
LEMMA BoardInvInit == Init => BoardInv
  BY DEF Init, BoardInv, UnsafeCellExclusive, NoOwnStacking, InBase, At

\* A move keeps the cells apart: the lander's own tokens block it and the one
\* opponent there, of whom BoardInv says there is no second, is captured
\* (ApplyMove).
LEMMA BoardInvMoveToken ==
  TypeInv /\ BoardInv /\ MoveToken => BoardInv'
<1> SUFFICES ASSUME TypeInv, BoardInv, ~GameOver, NEW m \in validMoves, ApplyMove(m)
             PROVE  BoardInv'
  BY DEF MoveToken
<1> DEFINE c == currentTurn
           after == TokensAfter(m)
           hits == Opponents(tokens, c, m.toPos)
<1>1. tokens' = after /\ turnPhase = "WaitingForMove" BY DEF ApplyMove
<1>2. tokens \in Board /\ c \in Player BY DEF TypeInv, TypeOK, Board
<1>3. /\ m.token \in Token
      /\ m.toState # "Finished" =>
           ~OwnTokenAt(tokens, c, m.token, m.toState, m.toPos)
      /\ after[c][m.token] = Landing(m)
      /\ \A t \in Token : t # m.token => after[c][t] = tokens[c][t]
  BY <1>1, MoveEffect
<1>4. \A p \in Player, t \in Token :
        p # c \/ t # m.token =>
          after[p][t] = IF <<p, t>> \in m.captured THEN InBase ELSE tokens[p][t]
  BY <1>1, MoveEffect
<1>5. /\ m.captured \subseteq hits
      /\ m.toState = "OnBoard" /\ m.toPos \notin SafeZones /\ hits # {}
           => m.captured # {}
  BY <1>1, MoveEffect, FindCapturableFact
<1>6. \A p \in Player, t \in Token :
        (p # c \/ t # m.token) /\ after[p][t].state # "InBase" =>
          after[p][t] = tokens[p][t]
  <2>1. InBase.state = "InBase" BY DEF InBase, At
  <2> HIDE DEF after
  <2> QED BY <1>4, <2>1
<1>7. NoOwnStacking'
  <2> SUFFICES ASSUME NEW p \in Player, NEW t \in Token, NEW u \in Token,
                      after[p][t].state \in {"OnBoard", "InHome"},
                      after[p][t] = after[p][u], t # u
               PROVE  FALSE
    BY <1>1 DEF NoOwnStacking
  <2>1. CASE p = c
    <3>1. CASE t = m.token
      <4>1. after[c][u] = tokens[c][u] BY <1>3, <3>1
      <4>2. Landing(m) = tokens[c][u] /\ m.toState # "Finished"
        BY <1>3, <2>1, <3>1, <4>1 DEF Landing, At
      <4> QED BY <4>2, <1>3, <3>1 DEF Landing, OwnTokenAt
    <3>2. CASE u = m.token
      <4>1. after[c][t] = tokens[c][t] BY <1>3, <3>2
      <4>2. Landing(m) = tokens[c][t] /\ m.toState # "Finished"
        BY <1>3, <2>1, <3>2, <4>1 DEF Landing, At
      <4> QED BY <4>2, <1>3, <3>2 DEF Landing, OwnTokenAt
    <3>3. CASE t # m.token /\ u # m.token
      <4>1. after[p][t] = tokens[p][t] /\ after[p][u] = tokens[p][u]
        BY <1>6, <3>3
      <4> QED BY <4>1 DEF BoardInv, NoOwnStacking
    <3> QED BY <3>1, <3>2, <3>3
  <2>2. CASE p # c
    <3>1. after[p][t] = tokens[p][t] /\ after[p][u] = tokens[p][u]
      BY <1>6, <2>2
    <3> QED BY <3>1 DEF BoardInv, NoOwnStacking
  <2> QED BY <2>1, <2>2
\* An opponent that stays on the cell where the moved token lands.
<1>8. ASSUME NEW q \in Player, NEW u \in Token, q # c, m.toState = "OnBoard",
              after[q][u] = Landing(m)
       PROVE  m.toPos \in SafeZones
  <2> SUFFICES ASSUME m.toPos \notin SafeZones PROVE FALSE OBVIOUS
  <2>1. Landing(m) = At("OnBoard", m.toPos) BY <1>8 DEF Landing
  <2>2. tokens[q][u] = At("OnBoard", m.toPos) /\ <<q, u>> \notin m.captured
    BY <1>4, <1>8, <2>1 DEF InBase, At
  <2>3. <<q, u>> \in hits BY <2>2, <1>8 DEF Opponents
  <2>4. PICK r \in Player, v \in Token :
          /\ <<r, v>> \in m.captured
          /\ tokens[r][v] = At("OnBoard", m.toPos)
    BY <1>5, <1>8, <2>3 DEF Opponents
  <2>5. CASE r = q
    <3>1. v = u BY <2>2, <2>4, <2>5 DEF BoardInv, NoOwnStacking, At
    <3> QED BY <3>1, <2>2, <2>4, <2>5
  <2>6. CASE r # q
    BY <2>2, <2>4, <2>6 DEF BoardInv, UnsafeCellExclusive, At
  <2> QED BY <2>5, <2>6
<1>9. UnsafeCellExclusive'
  <2> SUFFICES ASSUME NEW p \in Player, NEW q \in Player, NEW t \in Token, NEW u \in Token,
                      p # q, after[p][t].state = "OnBoard", after[p][t] = after[q][u]
               PROVE  after[p][t].pos \in SafeZones
    BY <1>1 DEF UnsafeCellExclusive
  <2>1. CASE p = c /\ t = m.token
    BY <1>3, <1>8, <2>1 DEF Landing, At
  <2>2. CASE q = c /\ u = m.token
    BY <1>3, <1>8, <2>2 DEF Landing, At
  <2>3. CASE (p # c \/ t # m.token) /\ (q # c \/ u # m.token)
    <3>1. after[p][t] = tokens[p][t] /\ after[q][u] = tokens[q][u]
      BY <1>6, <2>3
    <3> QED BY <3>1 DEF BoardInv, UnsafeCellExclusive
  <2> QED BY <2>1, <2>2, <2>3
<1> QED BY <1>7, <1>9 DEF BoardInv

\* The invariant of the board is inductive relative to the types.
LEMMA BoardInvNext == TypeInv /\ BoardInv /\ [Next]_vars => BoardInv'
<1> SUFFICES ASSUME TypeInv, BoardInv, [Next]_vars PROVE BoardInv' OBVIOUS
<1>1. CASE RollDice
  <2>1. UNCHANGED tokens
    BY <1>1 DEF RollDice, ApplyDiceRoll, ForfeitTurn, SkipTurn, OfferMoves
  <2> QED BY <2>1 DEF BoardInv, UnsafeCellExclusive, NoOwnStacking
<1>2. CASE MoveToken BY <1>2, BoardInvMoveToken
<1>3. CASE UNCHANGED vars
  BY <1>3 DEF vars, BoardInv, UnsafeCellExclusive, NoOwnStacking
<1> QED BY <1>1, <1>2, <1>3 DEF Next, Stopped

\* Two players never share a cell on which captures are allowed, although a
\* landing token captures only the first opponent found there.
THEOREM UnsafeCellsAreExclusive == Spec => []UnsafeCellExclusive
<1>1. BoardInv => UnsafeCellExclusive BY DEF BoardInv
<1> QED BY TypeInvInit, TypeInvNext, BoardInvInit, BoardInvNext, <1>1, PTL DEF Spec

\* A player's tokens never share a cell.
THEOREM OwnTokensApart == Spec => []NoOwnStacking
<1>1. BoardInv => NoOwnStacking BY DEF BoardInv
<1> QED BY TypeInvInit, TypeInvNext, BoardInvInit, BoardInvNext, <1>1, PTL DEF Spec

-----------------------------------------------------------------------------
(* Whose turn it is.                                                       *)

\* While the game goes on somebody can still play.
LEMMA SomebodyPlays ==
  ASSUME NEW toks, ~AllPlayersFinished(toks)
  PROVE  \E p \in Player : ~HasAllTokensFinished(toks, p)
  BY DEF AllPlayersFinished

\* A step leaves the turn with a player who has a token left (ApplyDiceRoll,
\* ApplyMove).
LEMMA TurnHolderNext ==
  TypeInv /\ TurnHolderUnfinished /\ [Next]_vars => TurnHolderUnfinished'
<1> SUFFICES ASSUME TypeInv, TurnHolderUnfinished, [Next]_vars, ~GameOver'
             PROVE  ~HasAllTokensFinished(tokens', currentTurn')
  BY DEF TurnHolderUnfinished
<1>1. currentTurn \in Player BY DEF TypeInv, TypeOK
<1>2. \E p \in Player : ~HasAllTokensFinished(tokens', p)
  BY SomebodyPlays DEF GameOver
<1>3. ~HasAllTokensFinished(tokens', NextPlayerColor(tokens', currentTurn))
  BY <1>1, <1>2, NextPlayerColorFact
<1>4. CASE RollDice
  <2> SUFFICES ASSUME ~GameOver, NEW d \in Dice, ApplyDiceRoll(d)
               PROVE  ~HasAllTokensFinished(tokens', currentTurn')
    BY <1>4 DEF RollDice
  <2>1. tokens' = tokens BY DEF ApplyDiceRoll, ForfeitTurn, SkipTurn, OfferMoves
  <2>2. \/ currentTurn' = NextPlayerColor(tokens, currentTurn)
        \/ currentTurn' = currentTurn
    BY DEF ApplyDiceRoll, ForfeitTurn, SkipTurn, OfferMoves, PassTurn
  <2> QED BY <2>1, <2>2, <1>3 DEF TurnHolderUnfinished
<1>5. CASE MoveToken
  <2> SUFFICES ASSUME NEW m \in validMoves, ApplyMove(m)
               PROVE  ~HasAllTokensFinished(tokens', currentTurn')
    BY <1>5 DEF MoveToken
  <2>1. tokens' = TokensAfter(m) BY DEF ApplyMove
  <2>2. ~AllPlayersFinished(TokensAfter(m)) BY <2>1 DEF GameOver
  <2>3. \/ GrantsExtraTurn(m) /\ currentTurn' = currentTurn
        \/ currentTurn' = NextPlayerColor(TokensAfter(m), currentTurn)
    BY <2>2 DEF ApplyMove, EndTurn, PassTurn
  <2> QED BY <2>1, <2>3, <1>3 DEF GrantsExtraTurn
<1>6. CASE UNCHANGED vars
  BY <1>6 DEF vars, turnVars, TurnHolderUnfinished, GameOver
<1> QED BY <1>4, <1>5, <1>6 DEF Next, Stopped

\* The turn is never held by a player with no token left to move.
THEOREM TurnHolderCanPlay == Spec => []TurnHolderUnfinished
<1>1. Init => TurnHolderUnfinished
  <2> SUFFICES ASSUME Init PROVE ~HasAllTokensFinished(tokens, currentTurn)
    BY DEF TurnHolderUnfinished
  <2>1. 0 \in Player /\ 0 \in Token
    BY BoardAssumption, GameAssumption DEF Player, Token
  <2> QED BY <2>1 DEF Init, HasAllTokensFinished, InBase, At
<1> QED BY TypeInvInit, TypeInvNext, TurnHolderNext, <1>1, PTL DEF Spec

\* A move finishes nobody but the mover, and him only with his last token.
LEMMA StillUnfinished ==
  ASSUME TypeInv, ~GameOver, turnPhase = "WaitingForMove", NEW m \in validMoves,
         NEW p \in Player, ~HasAllTokensFinished(tokens, p),
         ~(p = currentTurn /\ FinishesPlayer(m))
  PROVE  ~HasAllTokensFinished(TokensAfter(m), p)
<1> DEFINE after == TokensAfter(m)
<1>1. PICK t \in Token : tokens[p][t].state # "Finished"
  BY DEF HasAllTokensFinished
<1>2. CASE p = currentTurn /\ t = m.token
  <2>1. after[p][t] = Landing(m) BY <1>2, MoveEffect
  <2>2. CASE m.toState = "Finished"
    BY <1>2, <2>2 DEF FinishesPlayer
  <2>3. CASE m.toState # "Finished"
    BY <2>1, <2>3 DEF HasAllTokensFinished, Landing, At
  <2> QED BY <2>2, <2>3
<1>3. CASE p # currentTurn \/ t # m.token
  <2>1. after[p][t] = InBase \/ after[p][t] = tokens[p][t] BY <1>3, MoveEffect
  <2>2. InBase.state # "Finished" BY DEF InBase, At
  <2> QED BY <1>1, <2>1, <2>2 DEF HasAllTokensFinished
<1> QED BY <1>2, <1>3

\* A move that does not take the mover's last token home ends no game.
LEMMA StillPlaying ==
  ASSUME TypeInv, ~GameOver, turnPhase = "WaitingForMove", NEW m \in validMoves,
         ~FinishesPlayer(m)
  PROVE  ~AllPlayersFinished(TokensAfter(m))
  BY StillUnfinished DEF GameOver, AllPlayersFinished

\* A step that passes the turn passes it to the next player still playing
\* (NextPlayerColor in ApplyDiceRoll and ApplyMove).
LEMMA PassesToNextUnfinishedStep ==
  TypeInv /\ [Next]_vars => [currentTurn' # currentTurn => PassesToNextUnfinished]_vars
<1> SUFFICES ASSUME TypeInv, [Next]_vars, currentTurn' # currentTurn
             PROVE  PassesToNextUnfinished
  OBVIOUS
<1>1. currentTurn \in Player BY DEF TypeInv, TypeOK
<1>2. ASSUME ~AllPlayersFinished(tokens'),
             currentTurn' = NextPlayerColor(tokens', currentTurn)
      PROVE  PassesToNextUnfinished
  BY <1>1, <1>2, SomebodyPlays, NextPlayerColorFact DEF PassesToNextUnfinished
<1>3. CASE RollDice
  <2> SUFFICES ASSUME ~GameOver, NEW d \in Dice, ApplyDiceRoll(d)
               PROVE  PassesToNextUnfinished
    BY <1>3 DEF RollDice
  <2>1. tokens' = tokens BY DEF ApplyDiceRoll, ForfeitTurn, SkipTurn, OfferMoves
  <2>2. currentTurn' = NextPlayerColor(tokens, currentTurn)
    BY DEF ApplyDiceRoll, ForfeitTurn, SkipTurn, OfferMoves, PassTurn
  <2> QED BY <2>1, <2>2, <1>2 DEF GameOver
<1>4. CASE MoveToken
  <2> SUFFICES ASSUME ~GameOver, NEW m \in validMoves, ApplyMove(m)
               PROVE  PassesToNextUnfinished
    BY <1>4 DEF MoveToken
  <2>1. tokens' = TokensAfter(m) BY DEF ApplyMove
  <2>2. /\ currentTurn' = NextPlayerColor(TokensAfter(m), currentTurn)
        /\ ~(FinishesPlayer(m) /\ AllPlayersFinished(TokensAfter(m)))
    BY DEF ApplyMove, EndTurn, PassTurn, turnVars
  <2>3. ~AllPlayersFinished(TokensAfter(m))
    BY <2>2, StillPlaying DEF ApplyMove
  <2> QED BY <2>1, <2>2, <2>3, <1>2
<1>5. CASE UNCHANGED vars
  BY <1>5 DEF vars, turnVars
<1> QED BY <1>3, <1>4, <1>5 DEF Next, Stopped

\* The turn passes to the next seat that still plays: everybody between the
\* old and the new holder has finished (NextPlayerColor, called with the board
\* after the move).
THEOREM NobodySkipped == Spec => NoPlayerSkipped
  BY TypeInvInit, TypeInvNext, PassesToNextUnfinishedStep, PTL DEF Spec, NoPlayerSkipped

-----------------------------------------------------------------------------
(* Captures.                                                               *)

\* A step sends back no token but those the mover captures (ApplyMove).
LEMMA SetbackStep ==
  ASSUME TypeInv, BoardInv, [Next]_vars,
         NEW p \in Player \ {currentTurn}, NEW t \in Token, tokens'[p][t] # tokens[p][t]
  PROVE  CapturedNow(p, t)
<1>1. PICK m \in validMoves : ~GameOver /\ ApplyMove(m)
  <2>1. ~RollDice
    BY DEF RollDice, ApplyDiceRoll, ForfeitTurn, SkipTurn, OfferMoves
  <2>2. ~(UNCHANGED vars) BY DEF vars
  <2> QED BY <2>1, <2>2 DEF Next, Stopped, MoveToken
<1> DEFINE c == currentTurn
<1>2. tokens' = TokensAfter(m) /\ turnPhase = "WaitingForMove" BY <1>1 DEF ApplyMove
<1>3. /\ m.token \in Token
      /\ m.captured = IF m.toState = "OnBoard"
                      THEN FindCapturable(tokens, c, m.toPos) ELSE {}
      /\ m.captured \subseteq Opponents(tokens, c, m.toPos)
      /\ ~(m.toState = "OnBoard" /\ OwnTokenAt(tokens, c, m.token, m.toState, m.toPos))
      /\ tokens'[c][m.token] = Landing(m)
  BY <1>1, <1>2, MoveEffect
<1>4. <<p, t>> \in m.captured /\ tokens'[p][t] = InBase
  BY <1>1, <1>2, MoveEffect
<1>5. m.toState = "OnBoard" /\ tokens[p][t] = At("OnBoard", m.toPos)
  BY <1>3, <1>4 DEF Opponents
<1>6. m.toPos \notin SafeZones
  BY <1>3, <1>4, <1>5, FindCapturableFact
<1>7. tokens'[c][m.token] = tokens[p][t]
  BY <1>3, <1>5 DEF Landing
<1>8. tokens[c][m.token] # tokens'[c][m.token]
  <2> SUFFICES ASSUME tokens[c][m.token] = tokens[p][t] PROVE FALSE
    BY <1>7
  <2>1. c \in Player /\ tokens[p][t].state = "OnBoard" /\ tokens[p][t].pos = m.toPos
    BY <1>5 DEF TypeInv, TypeOK, At
  <2> QED BY <1>3, <1>6, <2>1 DEF BoardInv, UnsafeCellExclusive
<1>9. currentTurn' = currentTurn
  <2>1. ~HasAllTokensFinished(TokensAfter(m), c)
    BY <1>2, <1>3, <1>5 DEF HasAllTokensFinished, Landing, At
  <2>2. GrantsExtraTurn(m) /\ ~FinishesPlayer(m)
    BY <1>4, <2>1 DEF GrantsExtraTurn, IsCapture, FinishesPlayer
  <2> QED BY <1>1, <2>2 DEF ApplyMove, EndTurn
<1> QED BY <1>3, <1>4, <1>5, <1>6, <1>7, <1>8, <1>9 DEF CapturedNow, At

\* The tokens of the others stay where they are, except those captured by a
\* token of the player to move, who then keeps the turn.
THEOREM OnlyCapturesSetBack == Spec => SetbackOnlyByCapture
<1>1. TypeInv /\ BoardInv /\ [Next]_vars =>
        [\A p \in Player \ {currentTurn} : \A t \in Token :
           tokens'[p][t] # tokens[p][t] => CapturedNow(p, t)]_vars
  BY SetbackStep
<1> QED BY TypeInvInit, TypeInvNext, BoardInvInit, BoardInvNext, <1>1, PTL
        DEF Spec, SetbackOnlyByCapture

-----------------------------------------------------------------------------
(* The finishing order.                                                    *)

FinishedPlayers(toks) == {p \in Player : HasAllTokensFinished(toks, p)}

\* The finished players after a move: the same, and the mover if it took his
\* last token home.
LEMMA FinishedAfter ==
  ASSUME TypeInv, TurnHolderUnfinished, ~GameOver, turnPhase = "WaitingForMove",
         NEW m \in validMoves
  PROVE  FinishedPlayers(TokensAfter(m)) =
           FinishedPlayers(tokens) \cup (IF FinishesPlayer(m) THEN {currentTurn} ELSE {})
<1>1. ASSUME NEW p \in Player, HasAllTokensFinished(tokens, p)
      PROVE  HasAllTokensFinished(TokensAfter(m), p)
  <2> SUFFICES ASSUME NEW t \in Token PROVE TokensAfter(m)[p][t].state = "Finished"
    BY DEF HasAllTokensFinished
  <2>1. p # currentTurn /\ tokens[p][t].state = "Finished"
    BY <1>1 DEF TurnHolderUnfinished, HasAllTokensFinished
  <2>2. <<p, t>> \notin m.captured
    <3>1. At("OnBoard", m.toPos).state # "Finished" BY DEF At
    <3> QED BY <2>1, <3>1, MoveEffect DEF Opponents
  <2> QED BY <2>1, <2>2, MoveEffect
<1>2. FinishesPlayer(m) => HasAllTokensFinished(TokensAfter(m), currentTurn)
  BY DEF FinishesPlayer
<1>3. currentTurn \in Player BY DEF TypeInv, TypeOK
<1> QED BY <1>1, <1>2, <1>3, StillUnfinished DEF FinishedPlayers

\* Nobody is ranked in a new game.
LEMMA FinishLedgerInit == Init => FinishLedger
<1> SUFFICES ASSUME Init PROVE FinishLedger OBVIOUS
<1>1. 0 \in Token BY GameAssumption DEF Token
<1>2. FinishedPlayers(tokens) = {}
  BY <1>1 DEF Init, FinishedPlayers, HasAllTokensFinished, InBase, At
<1> HIDE DEF FinishedPlayers
<1> QED BY <1>2, FS_EmptySet DEF Init, FinishLedger, FinishedPlayers

\* A step keeps the ranks in order (the finishing part of ApplyMove).
LEMMA FinishLedgerNext ==
  TypeInv /\ TurnHolderUnfinished /\ FinishLedger /\ [Next]_vars => FinishLedger'
<1> SUFFICES ASSUME TypeInv, TurnHolderUnfinished, FinishLedger, [Next]_vars
             PROVE  FinishLedger'
  OBVIOUS
<1>1. ASSUME UNCHANGED <<tokens, winner, finishedCount, finishOrder>> PROVE FinishLedger'
  BY <1>1 DEF FinishLedger
<1>2. CASE RollDice
  BY <1>1, <1>2 DEF RollDice, ApplyDiceRoll, ForfeitTurn, SkipTurn, OfferMoves, rankVars
<1>3. CASE MoveToken
  <2> SUFFICES ASSUME ~GameOver, NEW m \in validMoves, ApplyMove(m)
               PROVE  FinishLedger'
    BY <1>3 DEF MoveToken
  <2> DEFINE c == currentTurn
             before == FinishedPlayers(tokens)
             after  == FinishedPlayers(tokens')
  <2>1. tokens' = TokensAfter(m) /\ turnPhase = "WaitingForMove" BY DEF ApplyMove
  <2>2. after = before \cup (IF FinishesPlayer(m) THEN {c} ELSE {})
    BY <2>1, FinishedAfter
  <2>3. c \in Player /\ c \notin before /\ finishOrder \in [Player -> Nat]
        /\ finishedCount \in Nat
    BY DEF TypeInv, TypeOK, TurnHolderUnfinished, FinishedPlayers
  <2>4. /\ finishedCount = Cardinality(before)
        /\ {finishOrder[p] : p \in before} = 1..finishedCount
        /\ \A p \in Player \ before : finishOrder[p] = 0
        /\ IF before = {} THEN winner = None
           ELSE winner \in before /\ finishOrder[winner] = 1
    BY DEF FinishLedger, FinishedPlayers
  <2>5. IsFiniteSet(before)
    <3>1. IsFiniteSet(Player) BY FS_Interval, BoardAssumption DEF Player
    <3> QED BY <3>1, FS_Subset DEF FinishedPlayers
  <2>6. before \subseteq Player BY DEF FinishedPlayers
  <2> HIDE DEF before, after
  <2>7. CASE FinishesPlayer(m)
    <3>1. /\ finishedCount' = finishedCount + 1
          /\ finishOrder' = [finishOrder EXCEPT ![c] = finishedCount + 1]
          /\ winner' = IF finishedCount = 0 THEN c ELSE winner
      BY <2>7 DEF ApplyMove, RankPlayer
    <3>2. after = before \cup {c} BY <2>2, <2>7
    <3>3. finishedCount' = Cardinality(after)
      BY <2>3, <2>4, <2>5, <3>1, <3>2, FS_AddElement
    <3>4. \A p \in before : finishOrder'[p] = finishOrder[p]
      BY <2>3, <2>6, <3>1
    <3>5. finishOrder'[c] = finishedCount + 1 BY <2>3, <3>1
    <3>6. {finishOrder'[p] : p \in after} = 1..finishedCount'
      <4>1. {finishOrder'[p] : p \in after}
              = {finishOrder[p] : p \in before} \cup {finishedCount + 1}
        BY <3>2, <3>4, <3>5
      <4>2. 1..(finishedCount + 1) = 1..finishedCount \cup {finishedCount + 1}
        BY <2>3
      <4> QED BY <4>1, <4>2, <2>4, <3>1
    <3>7. \A p \in Player \ after : finishOrder'[p] = 0
      BY <2>3, <2>4, <3>1, <3>2
    <3>8. winner' \in after /\ finishOrder'[winner'] = 1
      <4>1. CASE finishedCount = 0 BY <3>1, <3>2, <3>5, <4>1
      <4>2. CASE finishedCount # 0
        <5>1. before # {} BY <2>4, <4>2, FS_EmptySet
        <5> QED BY <5>1, <2>4, <3>1, <3>2, <3>4, <4>2
      <4> QED BY <4>1, <4>2
    <3>9. after # {} BY <3>2
    <3> QED BY <3>3, <3>6, <3>7, <3>8, <3>9 DEF FinishLedger, after, FinishedPlayers
  <2>8. CASE ~FinishesPlayer(m)
    <3>1. UNCHANGED <<winner, finishedCount, finishOrder>>
      BY <2>8 DEF ApplyMove, RankPlayer, rankVars
    <3>2. after = before BY <2>2, <2>8
    <3> QED BY <2>4, <3>1, <3>2 DEF FinishLedger, after, FinishedPlayers
  <2> QED BY <2>7, <2>8
<1>4. CASE UNCHANGED vars
  BY <1>1, <1>4 DEF vars, rankVars
<1> QED BY <1>2, <1>3, <1>4 DEF Next, Stopped

\* The finishing places are 1, 2, .. without gap or tie, they go to the players
\* that have finished, and the winner is the one with the first (ApplyMove).
THEOREM PlacesAreRight == Spec => []FinishLedger
<1>1. Spec => []TurnHolderUnfinished BY TurnHolderCanPlay
<1> QED BY <1>1, TypeInvInit, TypeInvNext, FinishLedgerInit, FinishLedgerNext, PTL DEF Spec
=============================================================================

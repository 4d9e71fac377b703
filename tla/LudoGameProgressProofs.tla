----------------------- MODULE LudoGameProgressProofs -----------------------
(***************************************************************************)
(* A token advances by the roll, on every board: across the wrap of the    *)
(* track, the turn into the home column and up to the goal.                *)
(***************************************************************************)
EXTENDS LudoGameProofs

\* The remainder of a number that has gone round the track at most once.
LEMMA AroundOnce ==
  ASSUME NEW a \in Nat, a < 2 * MainTrackSize
  PROVE  a % MainTrackSize = IF a < MainTrackSize THEN a ELSE a - MainTrackSize
<1> USE BoardAssumption
<1>1. CASE a < MainTrackSize BY <1>1
<1>2. CASE a >= MainTrackSize
  <2> DEFINE b == a - MainTrackSize
  <2>1. b \in Nat /\ b < MainTrackSize /\ a = b + MainTrackSize BY <1>2
  <2> HIDE DEF b
  <2>2. (b + MainTrackSize) % MainTrackSize = b BY <2>1
  <2> QED BY <2>1, <2>2, <1>2
<1> QED BY <1>1, <1>2

\* RelativePosition counts the steps from the start to a cell of the track.
LEMMA StepsAreRelativePosition ==
  ASSUME NEW p \in Player, NEW pos \in Cell
  PROVE  RelativePosition(p, pos) \in Cell /\ StepsOnTrack(p, pos) = RelativePosition(p, pos)
<1> USE BoardAssumption DEF Cell
<1> DEFINE s == StartPosition[p]
           k == RelativePosition(p, pos)
<1>1. s \in Cell OBVIOUS
<1>2. k = IF pos < s THEN pos - s + MainTrackSize ELSE pos - s
  <2>1. pos - s + MainTrackSize \in Nat /\ pos - s + MainTrackSize < 2 * MainTrackSize
    BY <1>1
  <2> QED BY <2>1, <1>1, AroundOnce DEF RelativePosition
<1>3. k \in Cell BY <1>1, <1>2
<1>4. ASSUME NEW j \in Cell
      PROVE  GlobalPosition(p, j) = IF s + j < MainTrackSize THEN s + j ELSE s + j - MainTrackSize
  <2>1. s + j \in Nat /\ s + j < 2 * MainTrackSize BY <1>1
  <2> QED BY <2>1, AroundOnce DEF GlobalPosition
<1> HIDE DEF k
<1>5. GlobalPosition(p, k) = pos BY <1>1, <1>2, <1>3, <1>4
<1>6. \A j \in Cell : GlobalPosition(p, j) = pos => j = k BY <1>1, <1>2, <1>3, <1>4
<1>7. StepsOnTrack(p, pos) = k BY <1>3, <1>5, <1>6 DEF StepsOnTrack
<1> QED BY <1>3, <1>7 DEF k

\* A step that stays on the track takes a token as many cells further.
LEMMA TrackStep ==
  ASSUME NEW p \in Player, NEW pos \in Cell, NEW d \in Dice,
         ~CanEnterHome(RelativePosition(p, pos), d)
  PROVE  LET newPos == (pos + d) % MainTrackSize
         IN  newPos \in Cell /\ RelativePosition(p, newPos) = RelativePosition(p, pos) + d
<1> USE BoardAssumption DEF Cell, Dice
<1> DEFINE s == StartPosition[p]
           new == (pos + d) % MainTrackSize
<1>1. s \in Cell OBVIOUS
<1>2. ASSUME NEW q \in Cell
      PROVE  RelativePosition(p, q) = IF q < s THEN q - s + MainTrackSize ELSE q - s
  <2>1. q - s + MainTrackSize \in Nat /\ q - s + MainTrackSize < 2 * MainTrackSize
    BY <1>1
  <2> QED BY <2>1, <1>1, AroundOnce DEF RelativePosition
<1>3. new = IF pos + d < MainTrackSize THEN pos + d ELSE pos + d - MainTrackSize
  <2> DEFINE a == pos + d
  <2>1. a \in Nat /\ a < 2 * MainTrackSize OBVIOUS
  <2> HIDE DEF a
  <2>2. a % MainTrackSize = IF a < MainTrackSize THEN a ELSE a - MainTrackSize
    BY <2>1, AroundOnce
  <2> QED BY <2>2 DEF a
<1> HIDE DEF new
<1>4. new \in Cell BY <1>3
<1>5. RelativePosition(p, pos) + d < MainTrackSize
  BY <1>2, <1>1 DEF CanEnterHome, MaxMainTrackSteps
<1>6. RelativePosition(p, new) = RelativePosition(p, pos) + d
  BY <1>1, <1>2, <1>3, <1>4, <1>5
<1> QED BY <1>4, <1>6 DEF new

\* A computed move takes its token one cell out of the base or as many cells
\* further as the die shows (computeMoveForToken).
LEMMA MoveAdvances ==
  ASSUME NEW toks \in Board, NEW p \in Player, NEW d \in Dice,
         NEW m \in ComputeValidMoves(toks, p, d)
  PROVE  Progress(p, Landing(m)) =
           IF toks[p][m.token] = InBase /\ d = DiceSides THEN 1
           ELSE Progress(p, toks[p][m.token]) + d
<1> USE BoardAssumption, GameAssumption
<1>1. PICK t \in Token : m \in ComputeMoveForToken(toks, p, t, d)
  BY DEF ComputeValidMoves
<1> DEFINE from == toks[p][t]
<1>2. from \in Place BY DEF Board
<1>3. CASE from.state = "InBase"
  <2>1. /\ m.token = t /\ d = DiceSides
        /\ Landing(m) = At("OnBoard", StartPosition[p])
    BY <1>1, <1>3 DEF ComputeMoveForToken, TryEnterBoard, MoveTo, Landing, At
  <2>2. StartPosition[p] \in Cell /\ RelativePosition(p, StartPosition[p]) = 0
    <3>1. StartPosition[p] \in Cell OBVIOUS
    <3>2. MainTrackSize % MainTrackSize = 0 BY AroundOnce
    <3> QED BY <3>1, <3>2 DEF RelativePosition, Cell
  <2>3. Progress(p, Landing(m)) = 1
    BY <2>1, <2>2, StepsAreRelativePosition DEF Progress, At
  <2>4. from = InBase BY <1>2, <1>3 DEF Place, InBase, At
  <2> QED BY <2>1, <2>3, <2>4
<1>4. CASE from.state = "OnBoard"
  <2>1. from.pos \in Cell /\ from # InBase
    BY <1>2, <1>4 DEF Place, InBase, At
  <2> DEFINE rel == RelativePosition(p, from.pos)
             new == (from.pos + d) % MainTrackSize
  <2>2. rel \in Cell /\ Progress(p, from) = 1 + rel
    BY <2>1, <1>4, StepsAreRelativePosition DEF Progress
  <2>3. m \in TryMoveOnBoard(toks, p, t, d) BY <1>1, <1>4 DEF ComputeMoveForToken
  <2>4. m.token = t /\ Progress(p, Landing(m)) = 1 + rel + d
    <3>1. CASE CanEnterHome(rel, d)
      <4>1. m \in TryEnterHome(toks, p, t, d) BY <2>3, <3>1 DEF TryMoveOnBoard
      <4> DEFINE home == HomeColumnPosition(rel, d)
      <4>2. home = rel + d - MainTrackSize
        BY <2>2, <3>1 DEF HomeColumnPosition, MaxMainTrackSteps, Cell, Dice
      <4>3. CASE IsExactFinish(home)
        <5>1. m.token = t /\ Landing(m) = At("Finished", -1)
          BY <4>1, <4>3 DEF TryEnterHome, MoveTo, Landing, At
        <5>2. Progress(p, Landing(m)) = MainTrackSize + HomeColumnSize
          BY <5>1 DEF Progress, At
        <5> QED BY <5>1, <5>2, <4>2, <4>3, <2>2 DEF IsExactFinish, Cell, Dice
      <4>4. CASE ~IsExactFinish(home)
        <5>1. m.token = t /\ Landing(m) = At("InHome", home)
          BY <4>1, <4>4 DEF TryEnterHome, MoveTo, Landing, At
        <5>2. Progress(p, Landing(m)) = 1 + MainTrackSize + home
          BY <5>1 DEF Progress, At
        <5> QED BY <5>1, <5>2, <4>2, <2>2 DEF Cell, Dice
      <4> QED BY <4>3, <4>4
    <3>2. CASE ~CanEnterHome(rel, d)
      <4>1. m.token = t /\ Landing(m) = At("OnBoard", new)
        BY <2>3, <3>2 DEF TryMoveOnBoard, MoveTo, Landing, At
      <4>2. new \in Cell /\ RelativePosition(p, new) = rel + d
        BY <2>1, <3>2, TrackStep
      <4>3. StepsOnTrack(p, new) = rel + d BY <4>2, StepsAreRelativePosition
      <4>4. Progress(p, Landing(m)) = 1 + StepsOnTrack(p, new)
        BY <4>1 DEF Progress, At
      <4> QED BY <4>1, <4>3, <4>4, <2>2 DEF Cell, Dice
    <3> QED BY <3>1, <3>2
  <2> QED BY <2>1, <2>2, <2>4 DEF Cell, Dice
<1>5. CASE from.state = "InHome"
  <2>1. from.pos \in 0..(HomeColumnSize - 2) /\ from # InBase
    BY <1>2, <1>5 DEF Place, InBase, At
  <2>2. m \in TryMoveInHome(toks, p, t, d) BY <1>1, <1>5 DEF ComputeMoveForToken
  <2>3. Progress(p, from) = 1 + MainTrackSize + from.pos BY <1>5 DEF Progress
  <2> DEFINE new == from.pos + d
  <2>4. new <= HomeColumnSize - 1 BY <2>1, <2>2 DEF TryMoveInHome, CanMoveInHomeColumn
  <2>5. m.token = t /\ Progress(p, Landing(m)) = 1 + MainTrackSize + new
    <3>1. CASE new = HomeColumnSize - 1
      <4>1. m.token = t /\ Landing(m) = At("Finished", -1)
        BY <2>2, <2>4, <3>1 DEF TryMoveInHome, CanMoveInHomeColumn, MoveTo, Landing, At
      <4>2. Progress(p, Landing(m)) = MainTrackSize + HomeColumnSize
        BY <4>1 DEF Progress, At
      <4> QED BY <4>1, <4>2, <3>1
    <3>2. CASE new # HomeColumnSize - 1
      <4>1. m = MoveTo(t, "InHome", "InHome", new, {})
        BY <2>2, <2>4, <3>2 DEF TryMoveInHome, CanMoveInHomeColumn
      <4>2. m.token = t /\ Landing(m) = At("InHome", new)
        BY <4>1 DEF MoveTo, Landing, At
      <4> QED BY <4>2 DEF Progress, At
    <3> QED BY <3>1, <3>2
  <2> QED BY <2>1, <2>3, <2>5 DEF Dice
<1>6. CASE from.state = "Finished"
  BY <1>1, <1>6 DEF ComputeMoveForToken
<1> QED
  <2>1. from.state \in {"InBase", "OnBoard", "InHome", "Finished"}
    BY <1>2 DEF Place, InBase, At
  <2> QED BY <2>1, <1>3, <1>4, <1>5, <1>6

\* A step moves at most one token of the player to move, by the roll (ApplyMove).
LEMMA AdvanceStep ==
  ASSUME TypeInv, [Next]_vars
  PROVE  LET moved == {t \in Token : tokens'[currentTurn][t] # tokens[currentTurn][t]}
         IN  /\ Cardinality(moved) <= 1
             /\ \A t \in moved :
                  Progress(currentTurn, tokens'[currentTurn][t]) =
                    IF tokens[currentTurn][t] = InBase /\ diceValue = DiceSides
                    THEN 1
                    ELSE Progress(currentTurn, tokens[currentTurn][t]) + diceValue
<1> DEFINE c == currentTurn
           moved == {t \in Token : tokens'[c][t] # tokens[c][t]}
<1>1. ASSUME tokens' = tokens
      PROVE  moved = {} /\ Cardinality(moved) <= 1
  BY <1>1, FS_EmptySet
<1>2. CASE RollDice
  BY <1>1, <1>2 DEF RollDice, ApplyDiceRoll, ForfeitTurn, SkipTurn, OfferMoves
<1>3. CASE UNCHANGED vars
  BY <1>1, <1>3 DEF vars
<1>4. CASE MoveToken
  <2>1. PICK m \in validMoves : ~GameOver /\ ApplyMove(m) BY <1>4 DEF MoveToken
  <2>2. tokens' = TokensAfter(m) /\ turnPhase = "WaitingForMove" BY <2>1 DEF ApplyMove
  <2>3. moved \subseteq {m.token} /\ tokens'[c][m.token] = Landing(m)
    BY <2>1, <2>2, MoveEffect
  <2>4. m \in ComputeValidMoves(tokens, c, diceValue) /\ diceValue \in Dice
    BY <2>1, <2>2, PlayedMove
  <2>5. tokens \in Board /\ c \in Player BY DEF TypeInv, TypeOK, Board
  <2>6. Progress(c, Landing(m)) =
          IF tokens[c][m.token] = InBase /\ diceValue = DiceSides THEN 1
          ELSE Progress(c, tokens[c][m.token]) + diceValue
    BY <2>4, <2>5, MoveAdvances
  <2>7. Cardinality(moved) <= 1
    <3>1. moved = {} \/ moved = {m.token} BY <2>3
    <3> HIDE DEF moved
    <3>2. Cardinality({}) = 0 /\ Cardinality({m.token}) = 1
      BY FS_EmptySet, FS_Singleton
    <3> QED BY <3>1, <3>2
  <2> QED BY <2>3, <2>6, <2>7
<1> QED BY <1>2, <1>3, <1>4 DEF Next, Stopped

\* A token of the player to move leaves the base by one cell on the highest
\* face and otherwise advances by exactly the roll, and no second token of his
\* moves: for the board of 52 cells as for every other (ApplyMove, board.go).
THEOREM RollIsWalked == Spec => MoverAdvancesByDice
  BY TypeInvInit, TypeInvNext, AdvanceStep, PTL DEF Spec, MoverAdvancesByDice
=============================================================================

--------------------------- MODULE LudoBotsProofs ---------------------------
(***************************************************************************)
(* The weights of the bots' scores add up to the order meant, on every     *)
(* board that is not much larger than the real one: an advance on the      *)
(* track must not be worth more than a token that enters.                  *)
(***************************************************************************)
EXTENDS LudoBots, LudoGameProgressProofs

\* The board of the code has 52 cells and home columns of 6.
WeightsSuffice == MainTrackSize <= 200 /\ HomeColumnSize <= 26

CaptureWeight(aggressive) == IF aggressive THEN 1000 ELSE 500
FinishWeight(aggressive)  == IF aggressive THEN 800 ELSE 1000
BoardBonus(aggressive)    == IF aggressive THEN 20 ELSE 0

\* The score of a computed move: what it is for a finish, and its bounds for
\* every other move (pickBestMove).
LEMMA ScoreOfMove ==
  ASSUME WeightsSuffice, NEW toks \in Board, NEW p \in Player, NEW d \in Dice,
         NEW m \in ComputeValidMoves(toks, p, d), NEW aggressive \in BOOLEAN
  PROVE  LET s == Score(m, p, aggressive)
             capture == CaptureWeight(aggressive)
             bonus   == BoardBonus(aggressive)
         IN  /\ s \in Int
             /\ Finishes(m) => ~IsCapture(m) /\ ~Enters(m) /\ s = FinishWeight(aggressive)
             /\ ~Finishes(m) /\ IsCapture(m) => capture <= s /\ s <= capture + 320
             /\ ~Finishes(m) /\ ~IsCapture(m) /\ Enters(m) => s = 300 + bonus
             /\ ~Finishes(m) /\ ~IsCapture(m) /\ ~Enters(m) => s < 300 + bonus
<1> USE BoardAssumption
<1> DEFINE s == Score(m, p, aggressive)
           capture == CaptureWeight(aggressive)
           bonus == BoardBonus(aggressive)
           w1 == Weight(Finishes(m), IF aggressive THEN 800 ELSE 1000)
           w2 == Weight(IsCapture(m), IF aggressive THEN 1000 ELSE 500)
           w3 == Weight(Enters(m), 200)
           w4 == Weight(EndsSafe(m), 100)
           w5 == Weight(m.toState = "InHome", 50 + m.toPos * 10)
           w6 == Weight(Advances(m), RelativePosition(p, m.toPos))
           w7 == Weight(aggressive /\ m.toState = "OnBoard", 20)
<1>1. s = w1 + w2 + w3 + w4 + w5 + w6 + w7 BY DEF Score
<1>2. /\ m \in Move /\ Landing(m) \in Place
      /\ m.toState \in {"OnBoard", "InHome", "Finished"}
      /\ m.toState # "OnBoard" => ~IsCapture(m)
  BY ComputedMove DEF IsCapture
<1>3. w1 = (IF m.toState = "Finished" THEN FinishWeight(aggressive) ELSE 0)
  BY DEF Weight, Finishes, FinishWeight
<1>4. w2 = IF IsCapture(m) THEN capture ELSE 0 BY DEF Weight, CaptureWeight
<1>5. w7 = IF m.toState = "OnBoard" THEN bonus ELSE 0 BY DEF Weight, BoardBonus
<1>6. capture \in {500, 1000} /\ bonus \in {0, 20} /\ FinishWeight(aggressive) \in {800, 1000}
  BY DEF CaptureWeight, BoardBonus, FinishWeight
<1>7. CASE m.toState = "OnBoard"
  <2>1. w1 = 0 /\ w5 = 0 /\ w7 = bonus BY <1>3, <1>5, <1>7 DEF Weight
  <2>2. w4 \in {0, 100} BY DEF Weight
  <2>3. CASE m.fromState = "InBase"
    <3>1. w6 = 0 /\ w3 = 200 /\ Enters(m) BY <1>7, <2>3 DEF Weight, Advances, Enters
    <3>2. m.toPos = StartPosition[p]
      <4>1. PICK t \in Token : m \in ComputeMoveForToken(toks, p, t, d)
        BY DEF ComputeValidMoves
      <4>2. toks[p][t] \in Place BY DEF Board
      <4>3. toks[p][t].state \in {"InBase", "OnBoard", "InHome", "Finished"}
        BY <4>2 DEF Place, InBase, At
      <4>4. m \in TryEnterBoard(toks, p, t, d)
        <5>1. m.token = t
          BY <4>1, <4>3 DEF ComputeMoveForToken, TryEnterBoard, TryMoveOnBoard, TryEnterHome,
                            TryMoveInHome, MoveTo
        <5>2. toks[p][t].state = "InBase" BY <5>1, <2>3, ComputedMove
        <5> QED BY <4>1, <5>2 DEF ComputeMoveForToken
      <4> QED BY <4>4 DEF TryEnterBoard, MoveTo
    <3>3. w4 = 100 BY <3>2, <1>7 DEF Weight, EndsSafe, IsSafeZone
    <3> HIDE DEF s, capture, bonus, w1, w2, w3, w4, w5, w6, w7
    <3> QED BY <1>1, <1>4, <1>6, <1>7, <2>1, <3>1, <3>3
          DEF Finishes, s, capture, bonus
  <2>4. CASE m.fromState # "InBase"
    <3>1. w3 = 0 /\ ~Enters(m) BY <2>4 DEF Weight, Enters
    <3>2. w6 \in 0..199
      <4>1. m.toPos \in Cell BY <1>2, <1>7 DEF Landing, Place, InBase, At
      <4>2. RelativePosition(p, m.toPos) \in Cell BY <4>1, StepsAreRelativePosition
      <4>3. RelativePosition(p, m.toPos) \in 0..199 BY <4>2 DEF WeightsSuffice, Cell
      <4> QED BY <4>3 DEF Weight
    <3> HIDE DEF s, capture, bonus, w1, w2, w3, w4, w5, w6, w7
    <3> QED BY <1>1, <1>4, <1>6, <1>7, <2>1, <2>2, <3>1, <3>2
          DEF Finishes, s, capture, bonus
  <2> QED BY <2>3, <2>4
<1>8. CASE m.toState # "OnBoard"
  <2>1. /\ w2 = 0 /\ w3 = 0 /\ w4 = 0 /\ w6 = 0 /\ w7 = 0
        /\ ~IsCapture(m) /\ ~Enters(m)
    BY <1>2, <1>4, <1>5, <1>8 DEF Weight, Enters, EndsSafe, Advances
  <2>2. CASE m.toState = "InHome"
    <3>1. w1 = 0 BY <1>3, <2>2
    <3>2. m.toPos \in 0..24
      BY <1>2, <2>2 DEF Landing, Place, InBase, At, WeightsSuffice
    <3>3. w5 \in 50..290 BY <3>2, <2>2 DEF Weight
    <3> HIDE DEF s, capture, bonus, w1, w2, w3, w4, w5, w6, w7
    <3> QED BY <1>1, <1>6, <2>1, <2>2, <3>1, <3>3 DEF Finishes, s, capture, bonus
  <2>3. CASE m.toState = "Finished"
    <3>1. w5 = 0 /\ w1 = FinishWeight(aggressive) BY <1>3, <2>3 DEF Weight
    <3> HIDE DEF s, capture, bonus, w1, w2, w3, w4, w5, w6, w7
    <3> QED BY <1>1, <1>6, <2>1, <2>3, <3>1 DEF Finishes, s, capture, bonus
  <2> QED BY <1>2, <1>8, <2>2, <2>3
<1> QED BY <1>7, <1>8

\* There is a move with the top score (the first one after the sorting).
LEMMA SomeTopMove ==
  ASSUME WeightsSuffice, NEW toks \in Board, NEW p \in Player, NEW d \in Dice,
         NEW aggressive \in BOOLEAN, ComputeValidMoves(toks, p, d) # {}
  PROVE  TopMoves(ComputeValidMoves(toks, p, d), p, aggressive) # {}
<1> DEFINE moves == ComputeValidMoves(toks, p, d)
           lacking == {k \in Nat : \E m \in moves : k = 1320 - Score(m, p, aggressive)}
<1>1. \A m \in moves : Score(m, p, aggressive) \in Int /\ Score(m, p, aggressive) <= 1320
  <2> SUFFICES ASSUME NEW m \in moves
               PROVE  Score(m, p, aggressive) \in Int /\ Score(m, p, aggressive) <= 1320
    OBVIOUS
  <2> HIDE DEF moves
  <2> QED BY ScoreOfMove DEF moves, CaptureWeight, FinishWeight, BoardBonus
<1>2. lacking # {} BY <1>1
<1> HIDE DEF moves
<1>3. PICK k \in lacking : \A j \in lacking : k <= j
  <2> HIDE DEF lacking
  <2>1. lacking \subseteq Nat BY DEF lacking
  <2> QED BY <2>1, <1>2, SmallestNat
<1>4. PICK m \in moves : k = 1320 - Score(m, p, aggressive) BY <1>3
<1>5. ASSUME NEW n \in moves PROVE Score(n, p, aggressive) <= Score(m, p, aggressive)
  <2>1. 1320 - Score(n, p, aggressive) \in lacking BY <1>1
  <2>2. k <= 1320 - Score(n, p, aggressive) BY <2>1, <1>3
  <2> QED BY <2>2, <1>1, <1>4
<1> QED BY <1>4, <1>5 DEF TopMoves, moves

\* A move with the top score does what a better kind of move would have done.
LEMMA TopMovesKeepOrder ==
  ASSUME WeightsSuffice, NEW toks \in Board, NEW p \in Player, NEW d \in Dice,
         NEW aggressive \in BOOLEAN,
         NEW m \in TopMoves(ComputeValidMoves(toks, p, d), p, aggressive),
         NEW n \in ComputeValidMoves(toks, p, d)
  PROVE  /\ ~aggressive /\ Finishes(n) => Finishes(m)
         /\ aggressive /\ IsCapture(n) => IsCapture(m)
         /\ Finishes(n) \/ IsCapture(n) => Finishes(m) \/ IsCapture(m)
         /\ Enters(n) => Finishes(m) \/ IsCapture(m) \/ Enters(m)
<1>1. m \in ComputeValidMoves(toks, p, d) /\ Score(n, p, aggressive) <= Score(m, p, aggressive)
  BY DEF TopMoves
<1> DEFINE Bounds(x) ==
      LET s == Score(x, p, aggressive)
          capture == CaptureWeight(aggressive)
          bonus   == BoardBonus(aggressive)
      IN  /\ s \in Int
          /\ Finishes(x) => ~IsCapture(x) /\ ~Enters(x) /\ s = FinishWeight(aggressive)
          /\ ~Finishes(x) /\ IsCapture(x) => capture <= s /\ s <= capture + 320
          /\ ~Finishes(x) /\ ~IsCapture(x) /\ Enters(x) => s = 300 + bonus
          /\ ~Finishes(x) /\ ~IsCapture(x) /\ ~Enters(x) => s < 300 + bonus
<1>2. Bounds(m) BY <1>1, ScoreOfMove
<1>3. Bounds(n) BY ScoreOfMove
<1>4. CASE aggressive
  <2>1. /\ CaptureWeight(aggressive) = 1000 /\ FinishWeight(aggressive) = 800
        /\ BoardBonus(aggressive) = 20
    BY <1>4 DEF CaptureWeight, FinishWeight, BoardBonus
  <2>2. IsCapture(n) => IsCapture(m) BY <1>1, <1>2, <1>3, <2>1
  <2>3. Finishes(n) => Finishes(m) \/ IsCapture(m) BY <1>1, <1>2, <1>3, <2>1
  <2>4. Enters(n) => Finishes(m) \/ IsCapture(m) \/ Enters(m)
    BY <1>1, <1>2, <1>3, <2>1
  <2> QED BY <1>4, <2>2, <2>3, <2>4
<1>5. CASE ~aggressive
  BY <1>1, <1>2, <1>3, <1>5 DEF CaptureWeight, FinishWeight, BoardBonus
<1> QED BY <1>4, <1>5

\* In a game that goes on the moves are those of the present board.
LEMMA MovesOnOffer ==
  ASSUME TypeInv, ~GameOver, validMoves # {}
  PROVE  /\ tokens \in Board /\ currentTurn \in Player /\ diceValue \in Dice
         /\ validMoves = ComputeValidMoves(tokens, currentTurn, diceValue)
  BY DEF TypeInv, TypeOK, OfferedMovesCurrent, Board

\* The order follows from the types.
LEMMA PrioritiesFollow == ASSUME WeightsSuffice, TypeInv PROVE BotPriorities
<1> DEFINE basic == Choices("basic", validMoves, currentTurn)
           aggressive == Choices("aggressive", validMoves, currentTurn)
<1>1. /\ basic = TopMoves(validMoves, currentTurn, FALSE)
      /\ aggressive = TopMoves(validMoves, currentTurn, TRUE)
  BY DEF Choices
<1>2. CASE GameOver BY <1>2 DEF BotPriorities
<1>3. CASE validMoves = {}
  BY <1>3 DEF BotPriorities, Prefers
<1>4. CASE ~GameOver /\ validMoves # {}
  <2>1. basic # {} /\ aggressive # {}
    BY <1>1, <1>4, MovesOnOffer, SomeTopMove
  <2>2. ASSUME NEW m \in basic, NEW n \in validMoves
        PROVE  /\ Finishes(n) => Finishes(m)
               /\ Finishes(n) \/ IsCapture(n) => Finishes(m) \/ IsCapture(m)
               /\ Enters(n) => Finishes(m) \/ IsCapture(m) \/ Enters(m)
    <3>1. m \in TopMoves(validMoves, currentTurn, FALSE) BY <1>1
    <3>2. /\ tokens \in Board /\ currentTurn \in Player /\ diceValue \in Dice
          /\ validMoves = ComputeValidMoves(tokens, currentTurn, diceValue)
      BY <1>4, MovesOnOffer
    <3>3. FALSE \in BOOLEAN OBVIOUS
    <3> HIDE DEF basic, aggressive
    <3> QED BY <3>1, <3>2, <3>3, TopMovesKeepOrder
  <2>3. ASSUME NEW m \in aggressive, NEW n \in validMoves
        PROVE  /\ IsCapture(n) => IsCapture(m)
               /\ Finishes(n) \/ IsCapture(n) => Finishes(m) \/ IsCapture(m)
               /\ Enters(n) => Finishes(m) \/ IsCapture(m) \/ Enters(m)
    <3>1. m \in TopMoves(validMoves, currentTurn, TRUE) BY <1>1
    <3>2. /\ tokens \in Board /\ currentTurn \in Player /\ diceValue \in Dice
          /\ validMoves = ComputeValidMoves(tokens, currentTurn, diceValue)
      BY <1>4, MovesOnOffer
    <3>3. TRUE \in BOOLEAN OBVIOUS
    <3> HIDE DEF basic, aggressive
    <3> QED BY <3>1, <3>2, <3>3, TopMovesKeepOrder
  <2> HIDE DEF basic, aggressive
  <2> QED BY <2>1, <2>2, <2>3 DEF BotPriorities, Prefers, basic, aggressive
<1> QED BY <1>2, <1>3, <1>4

\* Bots play the kind of move the comments put first, whatever the weights of
\* the cells add to it, on the board of the code and on all up to 200 cells
\* (pickBestMove).
THEOREM BotsKeepPriorities ==
  ASSUME WeightsSuffice PROVE Spec => []BotPriorities
<1>1. TypeInv => BotPriorities BY PrioritiesFollow
<1> QED BY TypeInvInit, TypeInvNext, <1>1, PTL DEF Spec

\* A plain advance scores the steps that lie behind it.
LEMMA PlainScore ==
  ASSUME NEW toks \in Board, NEW p \in Player, NEW d \in Dice,
         NEW m \in ComputeValidMoves(toks, p, d), NEW aggressive \in BOOLEAN, Plain(m)
  PROVE  LET rel == RelativePosition(p, m.toPos)
         IN  /\ rel \in Nat
             /\ Score(m, p, aggressive) = rel + BoardBonus(aggressive)
             /\ Progress(p, Landing(m)) = 1 + rel
<1> USE BoardAssumption
<1> DEFINE rel == RelativePosition(p, m.toPos)
<1>1. /\ m.fromState = "OnBoard" /\ m.toState = "OnBoard"
      /\ ~IsCapture(m) /\ ~EndsSafe(m)
  BY DEF Plain, Advances
<1>2. m.toPos \in Cell
  <2>1. Landing(m) \in Place BY ComputedMove
  <2> QED BY <1>1, <2>1 DEF Landing, Place, InBase, At
<1>3. rel \in Nat /\ StepsOnTrack(p, m.toPos) = rel
  BY <1>2, StepsAreRelativePosition DEF Cell
<1>4. Progress(p, Landing(m)) = 1 + rel
  BY <1>1, <1>3 DEF Progress, Landing, At
<1> HIDE DEF rel
<1>5. /\ Weight(Finishes(m), IF aggressive THEN 800 ELSE 1000) = 0
      /\ Weight(IsCapture(m), IF aggressive THEN 1000 ELSE 500) = 0
      /\ Weight(Enters(m), 200) = 0 /\ Weight(EndsSafe(m), 100) = 0
      /\ Weight(m.toState = "InHome", 50 + m.toPos * 10) = 0
      /\ Weight(Advances(m), RelativePosition(p, m.toPos)) = rel
  BY <1>1 DEF Weight, Finishes, Enters, Advances, rel
<1>6. Weight(aggressive /\ m.toState = "OnBoard", 20) = BoardBonus(aggressive)
  BY <1>1 DEF Weight, BoardBonus
<1>7. BoardBonus(aggressive) \in Nat BY DEF BoardBonus
<1>8. Score(m, p, aggressive) = rel + BoardBonus(aggressive)
  BY <1>3, <1>5, <1>6, <1>7 DEF Score
<1> QED BY <1>3, <1>4, <1>8 DEF rel

\* Of two plain advances the one with the top score ends closer to home.
LEMMA CloserFollows == ASSUME TypeInv PROVE CloserTokenFirst
<1> SUFFICES ASSUME ~GameOver, NEW strategy \in {"basic", "aggressive"},
                    NEW m \in Choices(strategy, validMoves, currentTurn),
                    NEW n \in validMoves, Plain(m), Plain(n)
             PROVE  Progress(currentTurn, Landing(n)) <= Progress(currentTurn, Landing(m))
  BY DEF CloserTokenFirst
<1> DEFINE aggressive == strategy = "aggressive"
<1>1. m \in TopMoves(validMoves, currentTurn, aggressive) BY DEF Choices
<1>2. m \in validMoves /\ Score(n, currentTurn, aggressive) <= Score(m, currentTurn, aggressive)
  BY <1>1 DEF TopMoves
<1>3. /\ tokens \in Board /\ currentTurn \in Player /\ diceValue \in Dice
      /\ validMoves = ComputeValidMoves(tokens, currentTurn, diceValue)
  BY MovesOnOffer
<1>4. aggressive \in BOOLEAN OBVIOUS
<1> HIDE DEF aggressive
<1> DEFINE Steps(x) == RelativePosition(currentTurn, x.toPos)
           Fact(x) == /\ Steps(x) \in Nat
                      /\ Score(x, currentTurn, aggressive) = Steps(x) + BoardBonus(aggressive)
                      /\ Progress(currentTurn, Landing(x)) = 1 + Steps(x)
<1>5. Fact(m) BY <1>2, <1>3, <1>4, PlainScore
<1>6. Fact(n) BY <1>3, <1>4, PlainScore
<1>7. BoardBonus(aggressive) \in Nat BY DEF BoardBonus
<1> HIDE DEF Steps
<1> QED BY <1>2, <1>5, <1>6, <1>7

\* Among tokens that only advance, a bot moves the one that ends closer to home,
\* counted from its own start (pickBestMove).
THEOREM BotsMoveCloserToken == Spec => []CloserTokenFirst
<1>1. TypeInv => CloserTokenFirst BY CloserFollows
<1> QED BY TypeInvInit, TypeInvNext, <1>1, PTL DEF Spec
=============================================================================

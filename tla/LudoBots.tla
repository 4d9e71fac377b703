------------------------------ MODULE LudoBots ------------------------------
(***************************************************************************)
(* How the bots choose among the moves on offer (internal/ai/strategy.go): *)
(* at random, or by a score.  The score adds up weights of its own for     *)
(* what a move does, so that what wins depends on how they add up.         *)
(***************************************************************************)
EXTENDS LudoGame

Weight(condition, points) == IF condition THEN points ELSE 0

Finishes(m) == m.toState = "Finished"
Enters(m)   == m.fromState = "InBase" /\ m.toState = "OnBoard"
Advances(m) == m.fromState = "OnBoard" /\ m.toState = "OnBoard"
EndsSafe(m) == m.toState = "OnBoard" /\ IsSafeZone(m.toPos)

\* A plausible slip: cells counted from the corner of the board.
Score_GlobalCell(m, p, aggressive) ==
  Weight(Finishes(m), IF aggressive THEN 800 ELSE 1000)
  + Weight(IsCapture(m), IF aggressive THEN 1000 ELSE 500)
  + Weight(Enters(m), 200) + Weight(EndsSafe(m), 100)
  + Weight(m.toState = "InHome", 50 + m.toPos * 10)
  + Weight(Advances(m), m.toPos)
  + Weight(aggressive /\ m.toState = "OnBoard", 20)

\* A plausible slip: the bonus for the board makes entering beat a capture.
Score_Eager(m, p, aggressive) ==
  Weight(Finishes(m), IF aggressive THEN 800 ELSE 1000)
  + Weight(IsCapture(m), IF aggressive THEN 1000 ELSE 200)
  + Weight(Enters(m), 200) + Weight(EndsSafe(m), 100)
  + Weight(m.toState = "InHome", 50 + m.toPos * 10)
  + Weight(Advances(m), RelativePosition(p, m.toPos))
  + Weight(aggressive /\ m.toState = "OnBoard", 20)

\* What pickBestMove makes of a move.
Score(m, p, aggressive) ==
  Weight(Finishes(m), IF aggressive THEN 800 ELSE 1000)
  + Weight(IsCapture(m), IF aggressive THEN 1000 ELSE 500)
  + Weight(Enters(m), 200) + Weight(EndsSafe(m), 100)
  + Weight(m.toState = "InHome", 50 + m.toPos * 10)
  + Weight(Advances(m), RelativePosition(p, m.toPos))
  + Weight(aggressive /\ m.toState = "OnBoard", 20)

\* The moves with the top score, of which one is picked at random.
TopMoves(moves, p, aggressive) ==
  {m \in moves : \A n \in moves : Score(n, p, aggressive) <= Score(m, p, aggressive)}

\* The moves a strategy may pick (NewStrategy, ChooseMove).
Strategy == {"random", "basic", "aggressive"}

Choices(strategy, moves, p) ==
  IF strategy = "random" THEN moves ELSE TopMoves(moves, p, strategy = "aggressive")

-----------------------------------------------------------------------------
\* Some move is chosen that does what is asked for, unless none does.
Prefers(chosen, moves, Wanted(_)) ==
  (\E n \in moves : Wanted(n)) => \A m \in chosen : Wanted(m)

\* The weights add up to the order the comments give: finishing a token comes
\* first for the basic strategy and capturing for the aggressive one, each
\* being second for the other, and a new token comes before any other move;
\* and there is a move to choose whenever there are moves (pickBestMove).
\* A game that is over still shows the moves of its last roll.
BotPriorities ==
  LET basic      == Choices("basic", validMoves, currentTurn)
      aggressive == Choices("aggressive", validMoves, currentTurn)
      Either(m)  == Finishes(m) \/ IsCapture(m)
      Third(m)   == Either(m) \/ Enters(m)
  IN  ~GameOver =>
      /\ Prefers(basic, validMoves, Finishes)
      /\ Prefers(aggressive, validMoves, IsCapture)
      /\ \A chosen \in {basic, aggressive} :
           /\ validMoves # {} => chosen # {}
           /\ Prefers(chosen, validMoves, Either)
           /\ Prefers(chosen, validMoves, Third)

\* Of two tokens that only advance to unsafe cells of the track, a bot moves
\* the one that ends closer to home ("prefer tokens closer to home").
Plain(m) == Advances(m) /\ ~EndsSafe(m) /\ ~IsCapture(m)

CloserTokenFirst ==
  ~GameOver => \A strategy \in {"basic", "aggressive"} :
    \A m \in Choices(strategy, validMoves, currentTurn), n \in validMoves :
      Plain(m) /\ Plain(n) =>
        Progress(currentTurn, Landing(n)) <= Progress(currentTurn, Landing(m))
=============================================================================

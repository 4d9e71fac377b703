------------------------- MODULE LudoGameRefinement -------------------------
(***************************************************************************)
(* LudoGame implements TurnGame: what a room sees of a game on a real      *)
(* board is a game of turns.                                               *)
(***************************************************************************)
EXTENDS MCLudoGame

\* What is left of a state when the board is forgotten.
HomeTokens(p) == {t \in Token : tokens[p][t].state = "Finished"}
OfferOf(m)    == [token |-> m.token, finishes |-> m.toState = "Finished"]

TG == INSTANCE TurnGame WITH
  numPlayers <- NumPlayers,
  home       <- [p \in Player |-> HomeTokens(p)],
  turn       <- currentTurn,
  phase      <- turnPhase,
  offer      <- {OfferOf(m) : m \in validMoves}

\* Every game on a board is a game of turns: rolls offer only moves of
\* unfinished tokens, a move is ranked when it takes the last token home, and
\* the turn goes where TurnGame lets it go (ApplyDiceRoll, ApplyMove).
ImplementsTurnGame == TG!Spec
=============================================================================

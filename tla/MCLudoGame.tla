----------------------------- MODULE MCLudoGame -----------------------------
(***************************************************************************)
(* Boards for TLC: small rings on which players meet often.  What the      *)
(* theorems assume of a board is checked for the real one.                 *)
(***************************************************************************)
EXTENDS LudoBots

\* PlayerConfigs and SafeZones of board.go.
RealBoard == INSTANCE LudoBoard WITH
  NumPlayers <- 4, MainTrackSize <- 52, HomeColumnSize <- 6, DiceSides <- 6,
  StartPosition <- [p \in 0..3 |-> 13 * p],
  SafeZones <- {0, 8, 13, 21, 26, 34, 39, 47}

ASSUME RealBoardIsABoard == RealBoard!BoardAssumption

\* Two players opposite each other on a ring; only the starts are safe.
DuelStart     == [p \in Player |-> p * (MainTrackSize \div 2)]
DuelSafeZones == {DuelStart[p] : p \in Player}

\* Three players around a ring.
TrioStart     == [p \in Player |-> p * (MainTrackSize \div 3)]
TrioSafeZones == {TrioStart[p] : p \in Player}
=============================================================================

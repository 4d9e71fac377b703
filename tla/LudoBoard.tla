----------------------------- MODULE LudoBoard -----------------------------
(***************************************************************************)
(* The geometry of the board (internal/game/board.go): the main track, the *)
(* home columns and the arithmetic that takes a token from one to the      *)
(* other.  The code fixes a track of 52 cells, home columns of 6 and a     *)
(* six-sided die; they are CONSTANTS here so that small boards can be      *)
(* searched exhaustively and the theorems hold for every board.            *)
(*                                                                         *)
(* A player is an index into GameState.Players.  Colours are pairwise      *)
(* distinct in a room, so the index stands for the colour too.             *)
(* PlayerConfig.HomeEntry is read by no function and left out.             *)
(***************************************************************************)
EXTENDS Integers

CONSTANTS
  NumPlayers,      \* len(GameState.Players)
  MainTrackSize,   \* cells of the main track (52)
  HomeColumnSize,  \* cells of a home column (6), the last one being the goal
  DiceSides,       \* faces of the die; the highest one enters tokens (6)
  StartPosition,   \* where a player's tokens enter the main track
  SafeZones        \* cells on which nobody is captured

Player == 0..(NumPlayers - 1)
Cell   == 0..(MainTrackSize - 1)
Dice   == 1..DiceSides

ASSUME BoardAssumption ==
  /\ NumPlayers \in Nat /\ NumPlayers >= 2
  /\ MainTrackSize \in Nat /\ HomeColumnSize \in Nat /\ DiceSides \in Nat
  /\ DiceSides >= 1
  /\ DiceSides < MainTrackSize
  /\ DiceSides <= HomeColumnSize
  /\ StartPosition \in [Player -> Cell]
  /\ SafeZones \subseteq Cell
  /\ \A p \in Player : StartPosition[p] \in SafeZones

-----------------------------------------------------------------------------
GlobalPosition(p, relativeSteps) ==
  (StartPosition[p] + relativeSteps) % MainTrackSize

RelativePosition(p, globalPos) ==
  (globalPos - StartPosition[p] + MainTrackSize) % MainTrackSize

IsSafeZone(pos) == pos \in SafeZones

\* The last step on the main track: the code writes 51 for a track of 52.
MaxMainTrackSteps == MainTrackSize - 1

CanEnterHome(relativeSteps, d) == relativeSteps + d > MaxMainTrackSteps

\* A plausible slip: the home column counted from one.
HomeColumnPosition_OffByOne(relativeSteps, d) ==
  relativeSteps + d - MaxMainTrackSteps

HomeColumnPosition(relativeSteps, d) ==
  IF CanEnterHome(relativeSteps, d)
  THEN relativeSteps + d - MaxMainTrackSteps - 1
  ELSE -1

IsValidHomePosition(homePos) == homePos \in 0..(HomeColumnSize - 1)

IsExactFinish(homePos) == homePos = HomeColumnSize - 1

\* The new position in the home column, whether it is the goal, and whether
\* the token may move at all: rolling past the goal is not allowed.
CanMoveInHomeColumn(homePos, d) ==
  LET newPos == homePos + d
      valid  == newPos <= HomeColumnSize - 1
  IN  [newPos |-> IF valid THEN newPos ELSE -1,
       finishes |-> newPos = HomeColumnSize - 1,
       valid |-> valid]
=============================================================================

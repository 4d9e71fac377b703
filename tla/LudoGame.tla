------------------------------ MODULE LudoGame ------------------------------
(***************************************************************************)
(* The game engine (internal/game/engine.go and state.go): the state of a  *)
(* game in progress and the two calls that change it, ApplyDiceRoll and    *)
(* ApplyMove.  The engine has no locks of its own; its callers hold the    *)
(* room's.  They call ApplyDiceRoll when a roll is awaited and ApplyMove   *)
(* with one of the moves that roll offered, and a caller that watches      *)
(* AllPlayersFinished stops when it turns true.  What happens to a caller  *)
(* that does not is the business of LudoRoom.                              *)
(*                                                                         *)
(* GameState.TurnNumber only ever grows and is read by nobody; it is left  *)
(* out, and so are the events, which carry no state.                       *)
(***************************************************************************)
EXTENDS LudoBoard, FiniteSets

CONSTANTS TokensPerPlayer, None

Token == 0..(TokensPerPlayer - 1)

ASSUME GameAssumption ==
  /\ TokensPerPlayer \in Nat \ {0}
  /\ None \notin Player

VARIABLES
  tokens,            \* Players[p].Tokens[t]: state and position
  currentTurn,       \* whose turn it is
  turnPhase,         \* a roll or a move is awaited
  diceValue,         \* the roll being played, 0 if there is none
  consecutiveSixes,  \* highest faces rolled in a row in this turn
  validMoves,        \* the moves the roll offered
  winner,            \* the first player to finish, or None
  finishedCount,     \* players that have finished
  finishOrder        \* Players[p].FinishOrder, 0 = not finished

turnVars  == <<currentTurn, turnPhase, diceValue, consecutiveSixes, validMoves>>
rankVars  == <<winner, finishedCount, finishOrder>>
vars      == <<tokens, turnVars, rankVars>>

-----------------------------------------------------------------------------
(* Tokens and moves.                                                       *)

TokenState == {"InBase", "OnBoard", "InHome", "Finished"}
At(state, pos) == [state |-> state, pos |-> pos]
InBase == At("InBase", -1)

\* A place a token can be in.
Place == {InBase, At("Finished", -1)}
           \cup [state : {"OnBoard"}, pos : Cell]
           \cup [state : {"InHome"}, pos : 0..(HomeColumnSize - 2)]

\* At most one captured token, as the set of its <<player, token>>.
Move == [token : Token, fromState : TokenState, toState : TokenState,
         toPos : Nat, captured : SUBSET (Player \X Token)]

MoveTo(t, from, to, pos, captured) ==
  [token |-> t, fromState |-> from, toState |-> to, toPos |-> pos,
   captured |-> captured]

IsCapture(m) == m.captured # {}

\* GetPlayerByColor(..).Tokens other than t: is one of them at that place?
OwnTokenAt(toks, p, t, state, pos) ==
  \E u \in Token \ {t} : toks[p][u] = At(state, pos)

\* A plausible slip: a token on a safe zone can be captured.
FindCapturable_AnyCell(toks, p, pos) ==
  LET hits == {h \in (Player \ {p}) \X Token : toks[h[1]][h[2]] = At("OnBoard", pos)}
  IN  IF hits = {} THEN {} ELSE {CHOOSE h \in hits : TRUE}

\* The first opposing token found on a cell, as a set with at most one pair.
FindCapturable(toks, p, pos) ==
  LET hits == {h \in (Player \ {p}) \X Token : toks[h[1]][h[2]] = At("OnBoard", pos)}
      Before(g, h) == g[1] < h[1] \/ (g[1] = h[1] /\ g[2] <= h[2])
  IN  IF IsSafeZone(pos) \/ hits = {}
      THEN {}
      ELSE {CHOOSE g \in hits : \A h \in hits : Before(g, h)}

\* The next three return the move of one token as a set of at most one move.
TryEnterBoard(toks, p, t, d) ==
  IF d = DiceSides /\ ~OwnTokenAt(toks, p, t, "OnBoard", StartPosition[p])
  THEN {MoveTo(t, "InBase", "OnBoard", StartPosition[p],
               FindCapturable(toks, p, StartPosition[p]))}
  ELSE {}

\* From the main track into the home column.
TryEnterHome(toks, p, t, d) ==
  LET homePos == HomeColumnPosition(RelativePosition(p, toks[p][t].pos), d)
  IN  IF IsExactFinish(homePos)
      THEN {MoveTo(t, "OnBoard", "Finished", homePos, {})}
      ELSE IF IsValidHomePosition(homePos) /\ ~OwnTokenAt(toks, p, t, "InHome", homePos)
           THEN {MoveTo(t, "OnBoard", "InHome", homePos, {})}
           ELSE {}

TryMoveOnBoard(toks, p, t, d) ==
  LET newPos == (toks[p][t].pos + d) % MainTrackSize
  IN  IF CanEnterHome(RelativePosition(p, toks[p][t].pos), d)
      THEN TryEnterHome(toks, p, t, d)
      ELSE IF OwnTokenAt(toks, p, t, "OnBoard", newPos)
           THEN {}
           ELSE {MoveTo(t, "OnBoard", "OnBoard", newPos, FindCapturable(toks, p, newPos))}

\* A plausible slip: no look at one's own home column.
TryMoveInHome_Unblocked(toks, p, t, d) ==
  LET step == CanMoveInHomeColumn(toks[p][t].pos, d)
  IN  IF ~step.valid THEN {}
      ELSE {MoveTo(t, "InHome", IF step.finishes THEN "Finished" ELSE "InHome",
                   step.newPos, {})}

TryMoveInHome(toks, p, t, d) ==
  LET step == CanMoveInHomeColumn(toks[p][t].pos, d)
  IN  IF ~step.valid
      THEN {}
      ELSE IF step.finishes
           THEN {MoveTo(t, "InHome", "Finished", step.newPos, {})}
           ELSE IF OwnTokenAt(toks, p, t, "InHome", step.newPos)
                THEN {}
                ELSE {MoveTo(t, "InHome", "InHome", step.newPos, {})}

ComputeMoveForToken(toks, p, t, d) ==
  CASE toks[p][t].state = "InBase"   -> TryEnterBoard(toks, p, t, d)
    [] toks[p][t].state = "OnBoard"  -> TryMoveOnBoard(toks, p, t, d)
    [] toks[p][t].state = "InHome"   -> TryMoveInHome(toks, p, t, d)
    [] toks[p][t].state = "Finished" -> {}

ComputeValidMoves(toks, p, d) ==
  UNION {ComputeMoveForToken(toks, p, t, d) : t \in Token}

-----------------------------------------------------------------------------
(* Who has finished and who is next (state.go).                            *)

HasAllTokensFinished(toks, p) == \A t \in Token : toks[p][t].state = "Finished"

\* At most one player is unfinished.
AllPlayersFinished(toks) ==
  \A p, q \in Player :
    ~HasAllTokensFinished(toks, p) /\ ~HasAllTokensFinished(toks, q) => p = q

\* A plausible slip: finished players are not skipped.
NextPlayerColor_NoSkip(toks, p) == (p + 1) % NumPlayers

NextPlayerColor(toks, p) ==
  LET Seat(offset) == (p + offset) % NumPlayers
      live == {o \in 1..NumPlayers : ~HasAllTokensFinished(toks, Seat(o))}
  IN  IF live = {} THEN p ELSE Seat(CHOOSE o \in live : \A q \in live : o <= q)

GameOver == AllPlayersFinished(tokens)

-----------------------------------------------------------------------------
(* ApplyDiceRoll.                                                          *)

PassTurn(toks, p) ==
  /\ currentTurn' = NextPlayerColor(toks, p)
  /\ turnPhase' = "WaitingForRoll"
  /\ diceValue' = 0
  /\ consecutiveSixes' = 0

SixesWith(d) == IF d = DiceSides THEN consecutiveSixes + 1 ELSE 0

OfferedFor(d) == ComputeValidMoves(tokens, currentTurn, d)

\* The third highest face in a row forfeits the turn.
ForfeitTurn(d) ==
  /\ SixesWith(d) >= 3
  /\ PassTurn(tokens, currentTurn)
  /\ UNCHANGED <<tokens, validMoves, rankVars>>

\* A plausible slip: a roll without a move is rolled again.
SkipTurn_RollAgain(d) ==
  /\ SixesWith(d) < 3
  /\ OfferedFor(d) = {}
  /\ consecutiveSixes' = SixesWith(d)
  /\ UNCHANGED <<tokens, currentTurn, turnPhase, diceValue, validMoves, rankVars>>

SkipTurn(d) ==
  /\ SixesWith(d) < 3
  /\ OfferedFor(d) = {}
  /\ validMoves' = {}
  /\ PassTurn(tokens, currentTurn)
  /\ UNCHANGED <<tokens, rankVars>>

OfferMoves(d) ==
  /\ SixesWith(d) < 3
  /\ OfferedFor(d) # {}
  /\ turnPhase' = "WaitingForMove"
  /\ diceValue' = d
  /\ consecutiveSixes' = SixesWith(d)
  /\ validMoves' = OfferedFor(d)
  /\ UNCHANGED <<tokens, currentTurn, rankVars>>

ApplyDiceRoll(d) ==
  /\ turnPhase = "WaitingForRoll"
  /\ ForfeitTurn(d) \/ SkipTurn(d) \/ OfferMoves(d)

-----------------------------------------------------------------------------
(* ApplyMove.                                                              *)

\* A plausible slip: a finished token keeps its last position.
Landing_KeepPosition(m) == At(m.toState, m.toPos)

\* Where the moved token ends up; a finished token has no position.
Landing(m) == At(m.toState, IF m.toState = "Finished" THEN -1 ELSE m.toPos)

\* A plausible slip: the captured token stays where it is.
TokensAfter_NoCapture(m) ==
  [tokens EXCEPT ![currentTurn][m.token] = Landing(m)]

\* The board after a move: captured tokens go back to base.
TokensAfter(m) ==
  [p \in Player |-> [t \in Token |->
     IF <<p, t>> \in m.captured THEN InBase
     ELSE IF p = currentTurn /\ t = m.token THEN Landing(m)
     ELSE tokens[p][t]]]

\* The move takes the player's last token home.
FinishesPlayer(m) ==
  m.toState = "Finished" /\ HasAllTokensFinished(TokensAfter(m), currentTurn)

\* A plausible slip: whoever finishes last is the winner.
RankPlayer_LastWins(m) ==
  IF FinishesPlayer(m)
  THEN /\ finishedCount' = finishedCount + 1
       /\ finishOrder' = [finishOrder EXCEPT ![currentTurn] = finishedCount + 1]
       /\ winner' = currentTurn
  ELSE UNCHANGED rankVars

RankPlayer(m) ==
  IF FinishesPlayer(m)
  THEN /\ finishedCount' = finishedCount + 1
       /\ finishOrder' = [finishOrder EXCEPT ![currentTurn] = finishedCount + 1]
       /\ winner' = IF finishedCount = 0 THEN currentTurn ELSE winner
  ELSE UNCHANGED rankVars

\* A plausible slip: finishing keeps the turn even with no token left.
GrantsExtraTurn_Always(m) ==
  \/ diceValue = DiceSides /\ consecutiveSixes < 3
  \/ IsCapture(m)
  \/ m.toState = "Finished"

GrantsExtraTurn(m) ==
  /\ \/ diceValue = DiceSides /\ consecutiveSixes < 3
     \/ IsCapture(m)
     \/ m.toState = "Finished"
  /\ ~HasAllTokensFinished(TokensAfter(m), currentTurn)

\* A plausible slip: the moves of the last roll stay on offer.
EndTurn_KeepMoves(m) ==
  IF FinishesPlayer(m) /\ AllPlayersFinished(TokensAfter(m))
  THEN UNCHANGED turnVars
  ELSE /\ UNCHANGED validMoves
       /\ IF GrantsExtraTurn(m)
          THEN /\ turnPhase' = "WaitingForRoll"
               /\ diceValue' = 0
               /\ UNCHANGED <<currentTurn, consecutiveSixes>>
          ELSE PassTurn(TokensAfter(m), currentTurn)

\* The move that ends the game returns before the turn is cleared up.
EndTurn(m) ==
  IF FinishesPlayer(m) /\ AllPlayersFinished(TokensAfter(m))
  THEN UNCHANGED turnVars
  ELSE /\ validMoves' = {}
       /\ IF GrantsExtraTurn(m)
          THEN /\ turnPhase' = "WaitingForRoll"
               /\ diceValue' = 0
               /\ UNCHANGED <<currentTurn, consecutiveSixes>>
          ELSE PassTurn(TokensAfter(m), currentTurn)

ApplyMove(m) ==
  /\ turnPhase = "WaitingForMove"
  /\ m \in validMoves
  /\ tokens' = TokensAfter(m)
  /\ RankPlayer(m)
  /\ EndTurn(m)

-----------------------------------------------------------------------------
(* A game of NumPlayers players, all tokens in base (NewGameState).        *)

Init ==
  /\ tokens = [p \in Player |-> [t \in Token |-> InBase]]
  /\ currentTurn = 0
  /\ turnPhase = "WaitingForRoll"
  /\ diceValue = 0
  /\ consecutiveSixes = 0
  /\ validMoves = {}
  /\ winner = None
  /\ finishedCount = 0
  /\ finishOrder = [p \in Player |-> 0]

\* The caller stops for good: nothing is left to do in a game that is over.
Stopped == GameOver /\ UNCHANGED vars

RollDice == ~GameOver /\ \E d \in Dice : ApplyDiceRoll(d)
MoveToken == ~GameOver /\ \E m \in validMoves : ApplyMove(m)

Next == RollDice \/ MoveToken \/ Stopped

Spec == Init /\ [][Next]_vars

\* Room.Run, the turn timer and the bot goroutines see to it that a turn
\* that can go on does go on; nothing is promised of the dice.
FairSpec == Spec /\ WF_vars(RollDice) /\ WF_vars(MoveToken)

-----------------------------------------------------------------------------
(* What the engine promises.                                               *)

\* Every variable has its type: a token is at a place of the board, a move
\* names a token and where it goes (models.GameState, Token and Move).
TypeOK ==
  /\ tokens \in [Player -> [Token -> Place]]
  /\ currentTurn \in Player
  /\ turnPhase \in {"WaitingForRoll", "WaitingForMove"}
  /\ diceValue \in {0} \cup Dice
  /\ consecutiveSixes \in 0..2
  /\ validMoves \in SUBSET Move
  /\ winner \in Player \cup {None}
  /\ finishedCount \in Nat
  /\ finishOrder \in [Player -> Nat]

\* Two players never share a cell on which captures are allowed.
\* findCapturable sends home only the first opponent it finds, so a second
\* one would survive the landing: this is why one is enough.
UnsafeCellExclusive ==
  \A p, q \in Player : \A t, u \in Token :
    /\ p # q
    /\ tokens[p][t].state = "OnBoard"
    /\ tokens[p][t] = tokens[q][u]
    => tokens[p][t].pos \in SafeZones

\* A player's own tokens never share a cell of the track or of the home
\* column, although each of the three try functions checks its own kind of
\* destination only, and against the board before the capture.
NoOwnStacking ==
  \A p \in Player : \A t, u \in Token :
    tokens[p][t].state \in {"OnBoard", "InHome"} /\ tokens[p][t] = tokens[p][u]
      => t = u

\* While a move is awaited there is one to play, and the offered moves are
\* exactly those the rules give on the present board for the present roll;
\* while a roll is awaited no move of an earlier roll is left for
\* FindMoveByTokenID to find.
OfferedMovesCurrent ==
  ~GameOver =>
    IF turnPhase = "WaitingForMove"
    THEN /\ diceValue \in Dice
         /\ validMoves # {}
         /\ validMoves = ComputeValidMoves(tokens, currentTurn, diceValue)
    ELSE validMoves = {} /\ diceValue = 0

\* The turn is never held by a player with no token left to move: he could
\* only roll in vain, and every roll of his would be skipped.
TurnHolderUnfinished == ~GameOver => ~HasAllTokensFinished(tokens, currentTurn)

\* The finishing places are 1, 2, .., FinishedCount without gap or tie, they
\* belong to the players that have finished, and the winner has the first.
FinishLedger ==
  LET finished == {p \in Player : HasAllTokensFinished(tokens, p)}
  IN  /\ finishedCount = Cardinality(finished)
      /\ {finishOrder[p] : p \in finished} = 1..finishedCount
      /\ \A p \in Player \ finished : finishOrder[p] = 0
      /\ IF finished = {} THEN winner = None
         ELSE winner \in finished /\ finishOrder[winner] = 1

-----------------------------------------------------------------------------
(* The course of a token, counted independently of the home column code: 0  *)
(* in base, then one for every cell up to the goal.                         *)

StepsOnTrack(p, pos) == CHOOSE k \in Cell : GlobalPosition(p, k) = pos

Progress(p, tok) ==
  CASE tok.state = "InBase"   -> 0
    [] tok.state = "OnBoard"  -> 1 + StepsOnTrack(p, tok.pos)
    [] tok.state = "InHome"   -> 1 + MainTrackSize + tok.pos
    [] tok.state = "Finished" -> MainTrackSize + HomeColumnSize

\* A token of the player to move leaves the base by one cell on the highest
\* face and otherwise advances by exactly the roll, through the wrap of the
\* track, the turn into the home column and up to the goal; and only one
\* token advances.
MoverAdvancesByDice ==
  [][LET moved == {t \in Token : tokens'[currentTurn][t] # tokens[currentTurn][t]}
     IN  /\ Cardinality(moved) <= 1
         /\ \A t \in moved :
              Progress(currentTurn, tokens'[currentTurn][t]) =
                IF tokens[currentTurn][t] = InBase /\ diceValue = DiceSides
                THEN 1
                ELSE Progress(currentTurn, tokens[currentTurn][t]) + diceValue]_vars

\* The tokens of the others stay where they are, except one that is sent back
\* to base from an unsafe cell on which a token of the player to move lands;
\* that player keeps the turn.
CapturedNow(p, t) ==
  /\ tokens'[p][t] = InBase
  /\ tokens[p][t].state = "OnBoard"
  /\ tokens[p][t].pos \notin SafeZones
  /\ \E u \in Token : /\ tokens'[currentTurn][u] = tokens[p][t]
                      /\ tokens[currentTurn][u] # tokens'[currentTurn][u]
  /\ currentTurn' = currentTurn

SetbackOnlyByCapture ==
  [][\A p \in Player \ {currentTurn} : \A t \in Token :
       tokens'[p][t] # tokens[p][t] => CapturedNow(p, t)]_vars

\* The turn passes to the next seat that is still playing: everybody between
\* the old and the new holder has finished, and the new holder has not.
PassesToNextUnfinished ==
  LET distance == (currentTurn' - currentTurn + NumPlayers) % NumPlayers
  IN  /\ ~HasAllTokensFinished(tokens', currentTurn')
      /\ \A k \in 1..(distance - 1) :
           HasAllTokensFinished(tokens', (currentTurn + k) % NumPlayers)

NoPlayerSkipped == [][currentTurn' # currentTurn => PassesToNextUnfinished]_vars

\* Nobody keeps the turn for ever: extra turns for sixes, captures and
\* finished tokens run out because every move of the holder brings him closer
\* to the goal and nobody moves in between.
TurnPasses == \A p \in Player : []<>(currentTurn # p \/ GameOver)
=============================================================================

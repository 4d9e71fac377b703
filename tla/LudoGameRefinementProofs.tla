----------------------- MODULE LudoGameRefinementProofs -----------------------
(***************************************************************************)
(* A game on a board is a game of turns: the step simulation behind        *)
(* ImplementsTurnGame, for every board of at most four players, which is   *)
(* what a room seats.                                                      *)
(***************************************************************************)
EXTENDS LudoGameRefinement, LudoGameProofs

-----------------------------------------------------------------------------
(* What the refinement mapping makes of a board.                           *)

\* The tokens that are home on a board.
HomeOf(toks) == [p \in Player |-> {t \in Token : toks[p][t].state = "Finished"}]

\* The variables of TurnGame, as the mapping defines them.
homeNow  == [p \in Player |-> HomeTokens(p)]
offerNow == {OfferOf(m) : m \in validMoves}

\* The board itself: what the mapping calls home.
LEMMA HomeNow == homeNow = HomeOf(tokens)
  BY DEF homeNow, HomeOf, HomeTokens

\* Seats and tokens are those of the board.
LEMMA SameSets == TG!Seat = Player /\ TG!Token = Token
  BY DEF TG!Seat, TG!Token, Player, Token

\* A player is through in the one sense if he is in the other.
LEMMA SameFinished ==
  ASSUME NEW toks, NEW p \in Player
  PROVE  TG!AllHome(HomeOf(toks), p) <=> HasAllTokensFinished(toks, p)
  BY SameSets DEF TG!AllHome, HomeOf, HasAllTokensFinished

\* And so a game is over, or not.
LEMMA SameOver ==
  ASSUME NEW toks
  PROVE  TG!Over(HomeOf(toks)) <=> AllPlayersFinished(toks)
  BY SameSets, SameFinished DEF TG!Over, AllPlayersFinished

\* And the next player is the same.
LEMMA SameNext ==
  ASSUME NEW toks, NEW p \in Player
  PROVE  TG!NextSeat(HomeOf(toks), p) = NextPlayerColor(toks, p)
<1> DEFINE After(o) == (p + o) % NumPlayers
           live == {o \in 1..NumPlayers : ~HasAllTokensFinished(toks, After(o))}
           alive == {o \in 1..NumPlayers : ~TG!AllHome(HomeOf(toks), After(o))}
<1>1. \A o \in 1..NumPlayers : After(o) \in Player
  BY BoardAssumption DEF Player
<1>2. live = alive
  BY <1>1, SameFinished
<1>3. NextPlayerColor(toks, p) =
        IF live = {} THEN p ELSE After(CHOOSE o \in live : \A q \in live : o <= q)
  BY DEF NextPlayerColor
<1>4. TG!NextSeat(HomeOf(toks), p) =
        IF alive = {} THEN p ELSE After(CHOOSE o \in alive : \A q \in alive : o <= q)
  BY DEF TG!NextSeat
<1> HIDE DEF live, alive, After
<1> QED BY <1>2, <1>3, <1>4

-----------------------------------------------------------------------------
(* What a roll offers.                                                     *)

\* A token has at most one move, and none when it is home (computeMoveForToken).
LEMMA OneMovePerToken ==
  ASSUME NEW toks \in Board, NEW p \in Player, NEW d, NEW t \in Token
  PROVE  /\ \A m \in ComputeMoveForToken(toks, p, t, d) : m.token = t
         /\ \A m, n \in ComputeMoveForToken(toks, p, t, d) : m = n
         /\ toks[p][t].state = "Finished" => ComputeMoveForToken(toks, p, t, d) = {}
<1> DEFINE moves == ComputeMoveForToken(toks, p, t, d)
<1>1. toks[p][t].state \in {"InBase", "OnBoard", "InHome", "Finished"}
  BY DEF Board, Place, InBase, At
<1>2. CASE toks[p][t].state = "InBase"
  <2>1. moves = TryEnterBoard(toks, p, t, d)
    BY <1>2 DEF ComputeMoveForToken
  <2> QED BY <1>2, <2>1 DEF TryEnterBoard, MoveTo
<1>3. CASE toks[p][t].state = "OnBoard"
  <2>1. moves = TryMoveOnBoard(toks, p, t, d)
    BY <1>3 DEF ComputeMoveForToken
  <2>2. \A m, n \in TryEnterHome(toks, p, t, d) : m.token = t /\ m = n
    BY DEF TryEnterHome, MoveTo
  <2>3. CASE CanEnterHome(RelativePosition(p, toks[p][t].pos), d)
    BY <1>3, <2>1, <2>2, <2>3 DEF TryMoveOnBoard
  <2>4. CASE ~CanEnterHome(RelativePosition(p, toks[p][t].pos), d)
    BY <1>3, <2>1, <2>4 DEF TryMoveOnBoard, MoveTo
  <2> QED BY <2>3, <2>4
<1>4. CASE toks[p][t].state = "InHome"
  <2>1. moves = TryMoveInHome(toks, p, t, d)
    BY <1>4 DEF ComputeMoveForToken
  <2> QED BY <1>4, <2>1 DEF TryMoveInHome, MoveTo
<1>5. CASE toks[p][t].state = "Finished"
  BY <1>5 DEF ComputeMoveForToken
<1> QED BY <1>1, <1>2, <1>3, <1>4, <1>5

\* The moves a roll offers are an offer of TurnGame.
LEMMA OfferFact ==
  ASSUME TypeInv, NEW d \in Dice, OfferedFor(d) # {}
  PROVE  LET moves == {OfferOf(m) : m \in OfferedFor(d)}
         IN  moves \in SUBSET TG!Offer /\ TG!Offering(moves)
<1> DEFINE c == currentTurn
           moves == {OfferOf(m) : m \in OfferedFor(d)}
<1>1. tokens \in Board /\ c \in Player
  BY DEF TypeInv, TypeOK, Board
<1>2. ASSUME NEW m \in OfferedFor(d)
      PROVE  /\ m.token \in Token /\ m \in ComputeMoveForToken(tokens, c, m.token, d)
             /\ tokens[c][m.token].state # "Finished"
  <2>1. PICK t \in Token : m \in ComputeMoveForToken(tokens, c, t, d)
    BY DEF OfferedFor, ComputeValidMoves
  <2> QED BY <1>1, <2>1, OneMovePerToken
<1>3. ASSUME NEW m \in OfferedFor(d), NEW n \in OfferedFor(d), m.token = n.token
      PROVE  m = n
  BY <1>1, <1>2, <1>3, OneMovePerToken
<1>4. \A m \in OfferedFor(d) : OfferOf(m) \in TG!Offer
  <2> TAKE m \in OfferedFor(d)
  <2> DEFINE f == m.toState = "Finished"
  <2>1. f \in BOOLEAN
    OBVIOUS
  <2>2. OfferOf(m) = [token |-> m.token, finishes |-> f]
    BY DEF OfferOf
  <2> HIDE DEF f
  <2> QED BY <1>2, <2>1, <2>2, SameSets DEF TG!Offer
<1>5. \A o \in moves : o.token \notin HomeOf(tokens)[c]
  BY <1>1, <1>2 DEF HomeOf, OfferOf
<1>6. \A a, b \in moves : a.token = b.token => a = b
  BY <1>3 DEF OfferOf
<1>7. moves \in SUBSET TG!Offer /\ moves # {}
  BY <1>4
<1> QED BY <1>5, <1>6, <1>7, HomeNow DEF TG!Offering, homeNow

-----------------------------------------------------------------------------
(* What a move does.                                                       *)

\* The move as TurnGame sees it: the same tokens get home, and the mover is
\* through, and the game over, if he is.
LEMMA HomeAfterFact ==
  ASSUME TypeInv, ~GameOver, turnPhase = "WaitingForMove", NEW m \in validMoves
  PROVE  /\ TG!HomeAfter(OfferOf(m)) = HomeOf(TokensAfter(m))
         /\ TG!LastHome(OfferOf(m)) <=> FinishesPlayer(m)
         /\ OfferOf(m).finishes <=> m.toState = "Finished"
<1> DEFINE c == currentTurn
           after == TokensAfter(m)
           o == OfferOf(m)
<1>1. tokens \in Board /\ c \in Player
  BY DEF TypeInv, TypeOK, Board
<1>2. /\ m.token \in Token /\ m.toState \in {"OnBoard", "InHome", "Finished"}
      /\ m.captured \subseteq Opponents(tokens, c, m.toPos)
      /\ after[c][m.token] = Landing(m)
      /\ \A p \in Player, t \in Token :
           p # c \/ t # m.token =>
             after[p][t] = IF <<p, t>> \in m.captured THEN InBase ELSE tokens[p][t]
  BY MoveEffect
<1>3. tokens[c][m.token].state # "Finished"
  <2>1. m \in ComputeValidMoves(tokens, c, diceValue)
    BY PlayedMove
  <2>2. PICK t \in Token : m \in ComputeMoveForToken(tokens, c, t, diceValue)
    BY <2>1 DEF ComputeValidMoves
  <2> QED BY <1>1, <2>2, OneMovePerToken
<1>4. ASSUME NEW p \in Player, NEW t \in Token, p # c \/ t # m.token
      PROVE  after[p][t].state = "Finished" <=> tokens[p][t].state = "Finished"
  <2>1. CASE <<p, t>> \in m.captured
    <3>1. tokens[p][t] = At("OnBoard", m.toPos)
      BY <1>2, <2>1 DEF Opponents
    <3> QED BY <1>2, <1>4, <2>1, <3>1 DEF At, InBase
  <2>2. CASE <<p, t>> \notin m.captured
    BY <1>2, <1>4, <2>2
  <2> QED BY <2>1, <2>2
<1>5. after[c][m.token].state = m.toState
  BY <1>2 DEF Landing, At
<1>6. o.token = m.token /\ (o.finishes <=> m.toState = "Finished")
  BY DEF OfferOf
<1> HIDE DEF o, after
<1>7. \A p \in Player : HomeOf(after)[p] =
        IF p = c /\ m.toState = "Finished" THEN HomeOf(tokens)[p] \cup {m.token}
        ELSE HomeOf(tokens)[p]
  <2> TAKE p \in Player
  <2>1. CASE p = c
    BY <1>1, <1>2, <1>3, <1>4, <1>5, <2>1 DEF HomeOf
  <2>2. CASE p # c
    BY <1>4, <2>2 DEF HomeOf
  <2> QED BY <2>1, <2>2
<1>8. TG!HomeAfter(o) = HomeOf(after)
  <2>1. TG!HomeAfter(o) = IF o.finishes
                          THEN [HomeOf(tokens) EXCEPT ![c] = @ \cup {o.token}]
                          ELSE HomeOf(tokens)
    BY HomeNow DEF TG!HomeAfter, homeNow
  <2>2. /\ HomeOf(after) = [p \in Player |-> HomeOf(after)[p]]
        /\ HomeOf(tokens) = [p \in Player |-> HomeOf(tokens)[p]]
    BY DEF HomeOf
  <2> HIDE DEF HomeOf
  <2>3. CASE m.toState = "Finished"
    BY <1>1, <1>6, <1>7, <2>1, <2>2, <2>3
  <2>4. CASE m.toState # "Finished"
    BY <1>6, <1>7, <2>1, <2>2, <2>4
  <2> QED BY <2>3, <2>4
<1>9. TG!LastHome(o) <=> FinishesPlayer(m)
  BY <1>1, <1>6, <1>8, SameFinished DEF TG!LastHome, FinishesPlayer, after
<1> QED BY <1>6, <1>8, <1>9 DEF o, after

-----------------------------------------------------------------------------
(* The simulation.                                                         *)

\* A new game on a board is a new game of turns.
LEMMA GameInit == NumPlayers <= 4 /\ Init => TG!Init
<1> SUFFICES ASSUME NumPlayers <= 4, Init PROVE TG!Init
  OBVIOUS
<1>1. NumPlayers \in 2..4
  BY BoardAssumption
<1>2. homeNow = [p \in Player |-> {}]
  BY DEF Init, homeNow, HomeTokens, InBase, At
<1>3. offerNow = {}
  BY DEF Init, offerNow
<1> QED BY <1>1, <1>2, <1>3, SameSets DEF TG!Init, Init, homeNow, offerNow

\* A roll that forfeits or skips the turn moves nothing; any other offers the
\* moves it has found (ApplyDiceRoll).
LEMMA GameRoll == TypeInv /\ RollDice => TG!Roll
<1> SUFFICES ASSUME TypeInv, ~GameOver, NEW d \in Dice, ApplyDiceRoll(d)
             PROVE  TG!Roll
  BY DEF RollDice
<1>1. turnPhase = "WaitingForRoll" /\ currentTurn \in Player
  BY DEF ApplyDiceRoll, TypeInv, TypeOK
<1>2. TG!NextSeat(homeNow, currentTurn) = NextPlayerColor(tokens, currentTurn)
  BY <1>1, HomeNow, SameNext
<1>3. UNCHANGED <<tokens, winner, finishedCount, finishOrder>>
  BY DEF ApplyDiceRoll, ForfeitTurn, SkipTurn, OfferMoves, rankVars
<1>4. homeNow' = homeNow
  BY <1>3 DEF homeNow, HomeTokens
<1>5. CASE ForfeitTurn(d)
  <2>1. /\ currentTurn' = NextPlayerColor(tokens, currentTurn)
        /\ turnPhase' = turnPhase /\ offerNow' = offerNow
    BY <1>1, <1>5 DEF ForfeitTurn, PassTurn, offerNow
  <2> QED BY <1>1, <1>2, <1>3, <1>4, <2>1 DEF TG!Roll, TG!RollInVain, homeNow, offerNow
<1>6. CASE SkipTurn(d)
  <2>1. currentTurn' = NextPlayerColor(tokens, currentTurn) /\ turnPhase' = turnPhase
    BY <1>1, <1>6 DEF SkipTurn, PassTurn
  <2>2. validMoves' = validMoves
    <3>1. ~GameOver => validMoves = {}
      BY <1>1 DEF TypeInv, OfferedMovesCurrent
    <3> QED BY <1>6, <3>1 DEF SkipTurn
  <2>3. offerNow' = offerNow
    BY <2>2 DEF offerNow
  <2> QED BY <1>1, <1>2, <1>3, <1>4, <2>1, <2>3 DEF TG!Roll, TG!RollInVain, homeNow, offerNow
<1>7. CASE OfferMoves(d)
  <2> DEFINE moves == {OfferOf(m) : m \in OfferedFor(d)}
  <2>1. moves \in SUBSET TG!Offer /\ TG!Offering(moves)
    BY <1>7, OfferFact DEF OfferMoves
  <2>2. turnPhase' = "WaitingForMove" /\ offerNow' = moves /\ currentTurn' = currentTurn
    BY <1>7 DEF OfferMoves, offerNow
  <2> HIDE DEF moves
  <2>3. TG!RollOffers(moves)
    BY <1>1, <1>3, <1>4, <2>2 DEF TG!RollOffers, homeNow, offerNow
  <2> QED BY <2>1, <2>3 DEF TG!Roll
<1> QED BY <1>5, <1>6, <1>7 DEF ApplyDiceRoll

\* A move on the board is a move of the game of turns (ApplyMove).
LEMMA GameMove == TypeInv /\ MoveToken => \E o \in offerNow : TG!Play(o)
<1> SUFFICES ASSUME TypeInv, ~GameOver, NEW m \in validMoves, ApplyMove(m)
             PROVE  \E o \in offerNow : TG!Play(o)
  BY DEF MoveToken
<1> DEFINE c == currentTurn
           after == TokensAfter(m)
           o == OfferOf(m)
<1>1. /\ turnPhase = "WaitingForMove" /\ tokens' = after
      /\ RankPlayer(m) /\ EndTurn(m) /\ c \in Player
  BY DEF ApplyMove, TypeInv, TypeOK
<1>2. /\ TG!HomeAfter(o) = HomeOf(after)
      /\ TG!LastHome(o) <=> FinishesPlayer(m)
      /\ o.finishes <=> m.toState = "Finished"
  BY <1>1, HomeAfterFact
<1>3. o \in offerNow
  BY DEF offerNow
<1> HIDE DEF o
<1>4. homeNow' = TG!HomeAfter(o)
  <2>1. homeNow' = HomeOf(after)
    BY <1>1 DEF homeNow, HomeTokens, HomeOf
  <2> QED BY <1>2, <2>1
<1>5. TG!Rank(o)
  BY <1>1, <1>2 DEF TG!Rank, RankPlayer, rankVars
<1>6. TG!Over(TG!HomeAfter(o)) <=> AllPlayersFinished(after)
  BY <1>2, SameOver
<1>7. TG!NextSeat(TG!HomeAfter(o), c) = NextPlayerColor(after, c)
  BY <1>1, <1>2, SameNext
<1>8. CASE FinishesPlayer(m) /\ AllPlayersFinished(after)
  <2>1. UNCHANGED turnVars
    BY <1>1, <1>8 DEF EndTurn
  <2>2. currentTurn' = currentTurn /\ turnPhase' = "WaitingForMove" /\ offerNow' = offerNow
    BY <1>1, <2>1 DEF turnVars, offerNow
  <2> HIDE DEF after
  <2>3. TG!PlayOf(o, offerNow)
    BY <1>2, <1>4, <1>5, <1>6, <1>8, <2>2 DEF TG!PlayOf, homeNow, offerNow
  <2> QED BY <1>1, <1>3, <2>3 DEF TG!Play, offerNow
<1>9. CASE ~(FinishesPlayer(m) /\ AllPlayersFinished(after))
  <2>1. /\ validMoves' = {}
        /\ IF GrantsExtraTurn(m)
           THEN turnPhase' = "WaitingForRoll" /\ currentTurn' = currentTurn
           ELSE PassTurn(after, c)
    BY <1>1, <1>9 DEF EndTurn
  <2>2. offerNow' = {} /\ turnPhase' = "WaitingForRoll"
    BY <2>1 DEF offerNow, PassTurn
  <2>3. CASE GrantsExtraTurn(m)
    <3>1. TG!KeepTurn
      BY <2>1, <2>3 DEF TG!KeepTurn
    <3>2. ~TG!LastHome(o)
      BY <1>2, <2>3 DEF GrantsExtraTurn, FinishesPlayer
    <3> QED BY <1>1, <1>2, <1>3, <1>4, <1>5, <1>6, <1>9, <2>2, <3>1, <3>2
         DEF TG!Play, TG!PlayOf, homeNow, offerNow
  <2>4. CASE ~GrantsExtraTurn(m)
    <3>1. TG!YieldTurn(o)
      BY <1>7, <2>1, <2>4 DEF TG!YieldTurn, PassTurn
    <3>2. o.finishes => TG!LastHome(o)
      BY <1>2, <2>4 DEF GrantsExtraTurn, FinishesPlayer
    <3> QED BY <1>1, <1>2, <1>3, <1>4, <1>5, <1>6, <1>9, <2>2, <3>1, <3>2
         DEF TG!Play, TG!PlayOf, homeNow, offerNow
  <2> QED BY <2>3, <2>4
<1> QED BY <1>8, <1>9

\* Every step of the engine is a step of the game of turns, or none.
LEMMA GameStep == TypeInv /\ [Next]_vars => [TG!Next]_TG!gameVars
<1> SUFFICES ASSUME TypeInv, [Next]_vars PROVE [TG!Next]_TG!gameVars
  OBVIOUS
<1>1. GameOver <=> TG!Over(homeNow)
  BY HomeNow, SameOver DEF GameOver
<1>2. CASE RollDice
  BY <1>1, <1>2, GameRoll DEF RollDice, TG!Next, homeNow
<1>3. CASE MoveToken
  BY <1>1, <1>3, GameMove DEF MoveToken, TG!Next, homeNow, offerNow
<1>4. CASE UNCHANGED vars
  <2>1. homeNow' = homeNow /\ offerNow' = offerNow
    BY <1>4 DEF vars, turnVars, homeNow, HomeTokens, offerNow
  <2> QED BY <1>4, <2>1 DEF vars, turnVars, rankVars, TG!gameVars, homeNow, offerNow
<1> QED BY <1>2, <1>3, <1>4 DEF Next, Stopped

\* What a room may rely on about a game holds on every board: who is next, what
\* a roll may offer, when a player is ranked and when the game is over.
THEOREM GameImplementsTurnGame == NumPlayers <= 4 /\ Spec => ImplementsTurnGame
  BY TypeInvInit, TypeInvNext, GameInit, GameStep, PTL
     DEF Spec, ImplementsTurnGame, TG!Spec
=============================================================================

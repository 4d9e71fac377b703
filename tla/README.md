# A verified model of the Ludo server

The repository is a multiplayer Ludo server in Go: a game engine, rooms in which
people and bots play over WebSockets, wallets that hold the stakes, and payment
providers that fill and empty the wallets. This directory holds TLA+ modules of
its core logic, TLC configurations that check them on small instances, and
TLAPS proofs about all of them: the game engine, the bots, the rooms, the
wallets, the payments and the hub, with the refinements of section 4.

## 1. The system

| Component | Source | State it keeps | Operations | Module |
|---|---|---|---|---|
| Board geometry | `internal/game/board.go` | none (pure functions) | positions, wrap of the track, entry into the home column, finishing | `LudoBoard` |
| Game engine | `internal/game/{engine,state,dice}.go`, `pkg/models/models.go` | `GameState`: tokens, turn, phase, dice, offered moves, ranks | `ApplyDiceRoll`, `ApplyMove` | `LudoGame`, abstractly `TurnGame` |
| Room | `internal/room/room.go` | players, host, status, the game, the turn timer, a channel of messages | `handleJoin`, `handleStartGame`, `handleRollDice`, `handleMoveToken`, `handleAddBot`, `handleRemoveBot`, `handleTurnTimeout`, the bot goroutine | `LudoRoom` |
| Bot strategies | `internal/ai` | none | `ChooseMove`, `pickBestMove` | `LudoBots`; any choice in `LudoRoom` |
| Wallet | `internal/wallet/service.go` | `wallets` and `transactions` in SQLite | `LockBet`, `SettleGame`, `Deposit`, `Withdraw`, pending transactions | `LudoWallet` |
| Payments | `internal/payment`, `internal/server/wallet_handler.go` | a request's progress, cached tokens | `HandleDeposit`, `HandleWithdraw`, two callbacks; logging in, retrying | `LudoWallet`, `LudoPayment` |
| Room manager | `internal/room/manager.go` | map of rooms | create, look up, remove | `CreateRoom` in `LudoHub` |
| Hub and clients | `internal/ws` | registered clients, their rooms, send buffers | register, unregister, route, join, leave, broadcast | `LudoHub`, abstractly `SessionRegistry` |
| Player sessions | `internal/player/session.go` | two maps | create, reconnect, clean up | no; no other package uses it |
| Storage, HTTP server, configuration | `internal/storage`, `internal/server`, `internal/config`, `cmd` | tables, routes | I/O and wiring | no |

How they interact. A client's read pump hands a message to the hub, which puts
it into the channel of the client's room. The room's main loop takes one message
at a time and calls a handler under the room's mutex. The callback of the turn
timer and the goroutines that play for bots run beside the loop and take the
same mutex. Handlers call the engine (a pure state change), the wallet (a
database transaction) and the hub (broadcasts). HTTP handlers and the
providers' callbacks reach the wallet without the room.

What is hard about it, and what makes it correct:

- **Engine.** Long sequences of legal moves: one capture per landing is enough
  only if two players never share an unsafe cell; the turn must never stay with
  a player who is through; ranks are handed out over many moves. Extra turns must
  run out.
- **Room.** Messages, timer callbacks and bot goroutines interleave. `Timer.Stop`
  does not take back a callback that has started; a bot rolls, looks, chooses and
  sends in four separate steps; `start_game` is accepted at any time. A person's
  turn must always be timed, a bot's turn always driven, the pot settled once.
- **Wallet and payments.** Check first and write later, from several connections;
  callbacks that arrive twice or before their pending row; two transactions in
  one handler of which the first may fail; a crash between taking the money and
  asking the provider. Balances must stay explicable and nonnegative. A token
  shared by all requests expires, is refused and is renewed under them; an order
  must not be taken twice, and no request may wait for ever.
- **Hub.** Two connections of one player, their ends and the notices to rooms in
  any order; three kinds of channels and two kinds of mutexes, taken in both
  directions between hub and rooms. Nobody may wait in a circle, and a session
  that ends must be told to its room.
- **Bots.** Scores add up unrelated weights, of which none says what wins.

`PROJECT.json` lists the hazards one by one, at the line where each bites.

## 2. The modules

### `LudoBoard` – geometry
Players are 0, 1, .. in the order of the colours. Ring size, home column, die and
each player's start and the safe cells are constants; the real table is
`RealBoard` in `MCLudoGame`. `BoardAssumption` asks for what `board.go` has in
general terms: two players or more, a die smaller than the track and no larger
than the home column, every start a safe cell of the ring. It asks for no
particular numbers. `MCLudoGame` instantiates the module a second time with the
real table and asserts it (`RealBoardIsABoard`), so that every theorem about
boards is one about the real board.

### `LudoGame` – the engine
`tokens`, `currentTurn`, `turnPhase`, `diceValue`, `consecutiveSixes`,
`validMoves`, `winner`, `finishedCount`, `finishOrder` are the fields of
`models.GameState`. `ComputeValidMoves` and the three `Try..` operators follow
`engine.go`; a move carries its destination and its captures as `models.Move`
does, computed when the dice were rolled. `RollDice` is `ApplyDiceRoll` with any
face (third six, no move, or moves offered), `MoveToken` is `ApplyMove` with any
offered move, with the order of its effects: capture, rank, the early return of
the move that ends the game, extra turn or next player. Events and `TurnNumber`
are left out: nothing reads them.

### `TurnGame` – what a game promises without a board
Whose turn, roll or move awaited, which tokens may move, who is home and ranked.
Whether a roll offers a move and whether a move earns another turn is open.
`LudoGameRefinement` maps `LudoGame` to it. `LudoRoom` extends it, so the
room is checked against every game a board could produce (and more) without
carrying the board along.

### `LudoBots` – what bots choose
`Score` is the sum `pickBestMove` makes for a move, `TopMoves` the moves among
which it picks at random, `Choices` those a strategy may return. The module
extends `LudoGame`, so the offers are those of reachable boards. The sort is left
out: it only serves to find the top score.

### `LudoRoom` – the room
One action per concurrent step: `Send` (a client's message enters the channel),
`ProcessMessage` (the main loop takes one and runs the whole handler),
`TimerFires` and `HandleTurnTimeout` (a callback that has started may wait for
the mutex while the timer is stopped or started again), and `BotRoll`, `BotLook`,
`BotChoose`, `BotSend` (the goroutine of `tryBotTurn`, which holds the lock only
within each). `players` are the sessions in the room, `seats` those the running
game was started with: they differ when bots come and go or the game restarts.
`LockBet` succeeds or fails. `crashed` records that a strategy was handed an
empty list, which panics outside any recovery and ends the process.

### `LudoWallet` – money
`records` are the rows of `transactions`, `balance` is `wallets.balance`. A
handler is a process with a stage per request; a database transaction reads in
one step and writes in a later one. `fresh` holds the actors whose snapshot
nobody has outdated: the database runs in WAL mode with deferred transactions
(`sqlite.go:25`), so a transaction that has read and wants to write after
another has committed is refused with SQLITE_BUSY at once. Every such refusal is
modelled, and what the handler does then – mostly nothing. Statements outside a
transaction wait for the lock and succeed. `ProviderStep` is external: an order
is accepted or not, paid or failed, in its own time; a call may fail although
the order has been accepted. `Crash` forgets every handler and room.
A callback is assumed to name its order: one without `merchant_order_id`
(`wallet_handler.go:226`) would match the pending withdrawals that have no reference
yet. The amount a callback carries is not modelled; it is the one that was asked for.

The room's side of the money is `bet` and `pot`. The first to join is made the host
before his stake is locked, and stays when it cannot be (`"unpaid"`); others are
turned away and may try again. A game needs one person at least, since bots fill
the other seats; the pot counts every person in the room, and any of them may win it.
The host may start again after a game: each game whose pot is settled is a member of
`Settlements`, and settles the same bets once more. Games a bot wins settle nothing
and do not appear.

### `LudoPayment` and `PaymentCall` – requests to the providers
A request (`stage`) gets the cached token or logs in, sends, waits, and on a 401
to its first attempt drops whatever token is cached and starts over. The stage
`"login"` holds the mutex; getting and dropping a token take and release it in a
step. Both providers have the same code (`doMpesaRequest`, `doUSDTRequest` and
their logins), so a definition is mapped to either. The providers are external:
they revoke tokens at any time, and `Arrive` may come after `TimesOut`. A
successful login is assumed to carry a token that is new and not empty.
`PaymentCall` is what the wallet's handlers rely on: the order is taken at most
once, success means taken, failure means nothing. It is the behaviour `LudoWallet`
gives to `CallSucceeds` and `CallFails`.

### `LudoHub` and `SessionRegistry` – connections
The processes are the hub's loop, a read pump for each session and the goroutines
of each room, of which the mutex lets in one at a time. `pc` gives each its stage,
and locks are stages: `HubLocked`, `RoomLocked` and `RoomReaders` say who is inside.
`ReceiveRegister` and `ReceiveUnregister` are the rendezvous on the unbuffered
channels, after which the sender goes on; `UpdateClients` and `UnlockHub` are what
the loop does under the mutex and after it; `StartNotice`, `LockForReading` and
`EndNotice` are `HandlePlayerDisconnect` with its two critical sections, for
whoever calls it. Whether a join lets the player in is `LudoRoom`'s question
and open here (`LetIn`); what the room's handlers do is shortened to taking the
mutex and broadcasting. `roomOf` is written without a lock: between
`storing` or `clearing` and the store, whoever reads it may find it half written and
crash the process (`Torn`, `crashed`). `SessionRegistry` is the promise: at
most one session per player, the latest, until that one ends.

## 3. Runs

Each property has a mutant – a plausible slip in a mapped definition – that TLC
refutes under the same configuration.

| Run | Instance | Question |
|---|---|---|
| `game_duel` | 2 players, 2 tokens, ring of 6, home column of 3, die of 3 | Are the board invariants and the offered moves right on every board; are tokens set back only by capture and advanced by exactly the roll; do the bots choose by their priorities; does a turn end? |
| `game_trio` | 3 players, 1 token, ring of 6, home column of 2, die of 2 | Is the ranking right, is nobody skipped, and does the engine implement `TurnGame`? |
| `room` | 2 people, 2 bots, 3 places, 2 starts, channel of 1, 2 in flight | Seats, timing, driving, funding, settling under every interleaving |
| `room_live` | 2 people, 1 bot, 1 start | Is a move that nobody makes made by the timeout? |
| `wallet` | 2 players, 1 deposit, 1 withdrawal, every outcome called back twice, 2 games settled, 1 crash | No overdraft, no payout without deduction, nothing settled or returned twice; does every settling share out one stake of everybody in the room, and do the rows explain the balances? |
| `payment` | 2 requests, 1 provider, 4 tokens | Is an order taken at most once, is the second attempt made with another token, does every request end? |
| `hub` | 2 players, one with 2 sessions, 1 room with a channel of 1, 2 messages | Does the hub implement `SessionRegistry`, can processes wait in a circle, is a session that ends told to its room? |
| `room_empty_choice`, `room_stale_auto_move`, `room_unfunded_pot`, `wallet_withdrawal_credited`, `hub_kicked_session` | as above | The divergences of section 6 |

Why these bounds are enough to be interesting:

- On the ring of 6 both players pass both starts and each other, may own two tokens on
  unsafe cells, and have a home column longer than one step; captures, blocking
  in the home column and on the track, third sixes and finishing all occur. The
  real numbers matter only for arithmetic, which the proofs do for every board.
- Three players are the fewest for which somebody finishes while the game goes on.
- In a room a token per player suffices: the room sees only which token, whether
  it is home, and who is through. Two bots let one leave and another come while a
  game runs, and let the turn go from bot to bot. Two starts let a second game
  begin under the first one's timers and goroutines. `MaxInFlight` bounds queued
  messages, fired callbacks and goroutines together where a client or the timer
  adds one, not where a handler starts a goroutine; `QueueCap` 1 makes the channel
  full, so that goroutines wait. `TimerFires` has the bound
  `finishedCount <= numPlayers`, because the replay of section 6 would count for ever.
- People are interchangeable, and so are bot IDs: `LudoRoom` compares IDs for
  equality only, so `Interchangeable` is a symmetry. It is used only for safety; `room_live` runs without.
- In the wallet the amounts are chosen so that the balance covers a bet or a
  withdrawal but not both. Two deliveries let the same callback race itself and
  follow itself. They are named in order of arrival. A second settling meets the rows
  and the balances the first has left; settlings are interchangeable
  (`SettlementSymmetry`). Requests are
  finite, so the system stops: `CHECK_DEADLOCK FALSE`, as in `payment`. Everywhere
  else deadlock is checked; a game that is over (`Stopped`) and a process that is gone
  (`Crashed`) stutter explicitly.
- Two requests are enough to change the token under each other, and a second
  provider would share only the mutex, which two requests contend for already. A
  request logs in at most twice, so four tokens never run out.
- Two sessions of one player show kicking, late unregistering and two pumps that
  work on one room; the session of another player must be left alone by all of
  it. With two messages (`MaxRead`) a client joins and leaves, or joins and plays, or
  two join at once; a channel of one is full at once. With one player and four
  messages (joining again, both sessions coming and going) the same properties
  hold.

### Fairness
`FairSpec` of `LudoGame`: a roll or a move that is possible is made. This is what
the room provides by timeouts and bot goroutines. Nothing is assumed of the dice.
`FairRoomSpec`: weak fairness of the main loop (`Room.Run` is a loop over the
channel), of an armed timer (`time.AfterFunc` runs its callback) and of a
callback waiting for the mutex (Go's mutex does not starve); strong fairness of
the bots' goroutines, since a goroutine waiting on a full channel is served in
order of arrival. No person is ever assumed to act.
`FairSpec` of `LudoHub`: the hub's loop, the pumps and the rooms' handlers go on.
It is strong where a process needs a mutex or a place in a channel that others
take again and again, because Go serves waiting goroutines in order (`sync.RWMutex`
blocks new readers behind a waiting writer, channels queue their senders).
Clients and timers are not assumed to do anything.
`FairSpec` of `LudoPayment`: the client's timeout of 30 seconds ends a login or an
answer that does not come (weak), and `sync.Mutex` hands itself over to
the goroutine that has waited longest (strong). Providers may do nothing.

## 4. Proofs

Every invariant, every action property and every refinement that a run checks is
also a theorem, for all values of the constants that satisfy the named
assumptions. Each model has a module of proofs beside it.

| Theorem | Says | From |
|---|---|---|
| `LudoGameProofs!TypeCorrect` | `[]TypeOK` | `TypeInv` |
| `LudoGameProofs!OffersAreCurrent` | `[]OfferedMovesCurrent` | `TypeInv` |
| `LudoGameProofs!UnsafeCellsAreExclusive` | `[]UnsafeCellExclusive` | `BoardInv` |
| `LudoGameProofs!OwnTokensApart` | `[]NoOwnStacking` | `BoardInv` |
| `LudoGameProofs!TurnHolderCanPlay` | `[]TurnHolderUnfinished` | itself, `TypeInv` |
| `LudoGameProofs!NobodySkipped` | `NoPlayerSkipped`, an action property | `TypeInv` |
| `LudoGameProofs!OnlyCapturesSetBack` | `SetbackOnlyByCapture`, an action property | `TypeInv` |
| `LudoGameProofs!PlacesAreRight` | `[]FinishLedger` | itself, `TurnHolderUnfinished` |
| `LudoGameProgressProofs!RollIsWalked` | `MoverAdvancesByDice`, an action property | `TypeInv` |
| `LudoGameRefinementProofs!GameImplementsTurnGame` | `ImplementsTurnGame`, if `NumPlayers <= 4` | `TypeInv` |
| `LudoBotsProofs!BotsKeepPriorities` | `[]BotPriorities`, if the track has 200 cells at most and the home column 26 (`WeightsSuffice`) | `TypeInv` |
| `LudoBotsProofs!BotsMoveCloserToken` | `[]CloserTokenFirst` | `TypeInv` |
| `LudoRoomProofs!RoomTypeCorrect` | `[]RoomTypeOK` | `RoomInv` |
| `LudoRoomProofs!RoomSeatsDistinct` | `[]SeatsDistinct` | `RoomInv` |
| `LudoRoomProofs!RoomGuestsFunded` | `[]GuestsFunded` | `RoomInv` |
| `LudoRoomProofs!RoomHumanTurnTimed` | `[]HumanTurnTimed` | `RoomInv` |
| `LudoRoomProofs!RoomBotTurnDriven` | `[]BotTurnDriven` | `RoomInv` |
| `LudoRoomProofs!RoomSettledOnce` | `[]SettledOncePerStart` | `RoomInv` |
| `LudoWalletProofs!WalletTypeCorrect` | `[]WalletTypeOK` | `WalletInv` |
| `LudoWalletProofs!WalletNoOverdraft` | `[]NoOverdraft` | `WalletInv` |
| `LudoWalletProofs!WalletPayoutsAreDeducted` | `[]PayoutsAreDeducted` | `WalletInv` |
| `LudoWalletProofs!WalletReturnedOnce` | `[]ReturnedOnce` | `WalletInv` |
| `LudoWalletProofs!WalletSettledOnce` | `SettledOnce`, an action property | `WalletInv` |
| `LudoWalletProofs!WalletRecordsExplainBalance` | `[]RecordsExplainBalance` | `WalletInv`, `Ledger` |
| `LudoWalletProofs!WalletPotIsShared` | `[]PotIsShared` | `WalletInv`, `Pots` |
| `LudoPaymentProofs!PaymentTypeCorrect` | `[]PaymentTypeOK` | `PaymentInv` |
| `LudoPaymentProofs!RetryTokenIsNewer` | `[]RetryUsesAnotherToken` | `PaymentInv` |
| `LudoPaymentProofs!PaymentImplementsCall` | `ImplementsPaymentCall` | `PaymentInv` |
| `LudoHubProofs!HubTypeCorrect` | `[]HubTypeOK` | `HubInv` |
| `LudoHubProofs!HubNoWaitCycle` | `[]NoWaitCycle` | `HubInv` |
| `LudoHubProofs!HubImplementsRegistry` | `ImplementsRegistry` | `HubInv` |

What is assumed of the constants is in the modules that declare them:
`BoardAssumption`, `GameAssumption`, `TurnAssumption`, `RoomAssumption`,
`WalletAssumption`, `PaymentAssumption`, `HubAssumption`. They say which
sets are disjoint (a person is not a bot, a player is not a request: whoever opens
a transaction is an actor of its own), that amounts, capacities and numbers of tokens
are positive, that players and requests are finitely many, and that a room has
two to four places. TLC evaluates them in every run.

### The engine
`TypeInv` is `TypeOK` with `OfferedMovesCurrent`: types alone are
not inductive, because `ApplyMove` trusts the destination a move carries, and
that it is a place of the board follows only from the move having been computed
on the present board (`ComputedMove`, `PlayedMove`). `MoveEffect` says once what
a move does to the tokens; every later proof uses it instead of the definition.
`BoardInv`, the two facts about sharing cells, is inductive only as a pair with
`TypeInv`: landing on an unsafe cell leaves it exclusive because there was at
most one opponent there (`UnsafeCellExclusive`) and it is the one that is
captured (`FindCapturableFact`), and a player's own token would have blocked the
move (`ComputedMove`). `NextPlayerColorFact` turns the search loop into a
statement about the seats in between; it uses that a nonempty set of naturals has
a least element (`SmallestNat`, from the library's well-foundedness of the
naturals). `FinishLedger` is inductive given `TurnHolderUnfinished`: a mover
who was not through is not yet ranked, so his rank is new.

`RollIsWalked` measures a place by its distance from base (`Progress`) and shows
for each of the three `Try..` operators that the place it computes is the
dice further on; the arithmetic of `%` around the ring is confined to lemmas about
`RelativePosition`. The bots' theorems need that what a move is scored for
is what it does (`OfferedMovesCurrent`), a bound for each weight, and that the
bounds add up: beyond the sizes of `WeightsSuffice` they do not, and a token far
advanced would beat a capture.

`GameImplementsTurnGame` shows that the two searches for the next player find the
same seat, that the offered moves are of tokens not home and one per
token, and that a move takes home exactly what it says. Four players are the most a
room seats (`MaxPlayers`), and `TurnGame` starts no larger game. The theorem is what
makes the room's theorems theorems about real games: `LudoRoom` plays `TurnGame`.

### The room
`RoomInv` has a part for each piece of the state and is inductive only as a whole.
`Membership`: the first session is the (pending) host's and no bot's, IDs and
colours are distinct, and a bot's ID is never handed out again, so a bot that has
been removed does not come back into the seat of a running game. `Table`: the game
has the seats it was started with, whoever comes or goes afterwards. `Drivers` and
`Channel`: types of goroutines and messages; a start that waits in the channel has
its place among the starts that are counted. `Settled` is stronger than the
property: while a game is played, all settlements are of earlier starts; the handler that
settles ends the game in the same step, and only a start begins another. `HumanTurnTimed` and
`BotTurnDriven` then hold because every handler that hands the turn over arms the
timer and calls `tryBotTurn`, and because a stale goroutine or callback, which may
play for somebody else's turn or find nothing to do, uses up only itself.

### The money
`WalletInv` says why a fresh snapshot is worth something: whoever has read
a balance and has not been overtaken still finds there what he has read (`Funds`),
and any write outdates all others. `Rows`: the row with the reference of a request is stored
at the end of its handler, at most once, and not beside a reversal. `Deductions`: who has asked, or
is about to ask, for a payout has deducted it. `Unasked` and `Callbacks` tie the stages of handlers to the
provider's orders. `SettledOnce` follows since a pending row is the only row with its
reference (`PendingFact`).

`Ledger` adds that the rows are finitely many and that nobody writes a row twice
(`Writers`), which with `WalletInv` makes `RecordsExplainBalance` inductive. The sum over
rows is the community modules' fold, which picks row after row by `CHOOSE`;
`SumExists`, `SumUnique` and `SumWith` show from its definition that there is such a sum
and that any row may be picked first. They argue by a smallest set that would
be a counterexample. A step then adds one row, or puts one in the place of a pending row that
told nothing (`LedgerAdd`, `LedgerReplace`).

`Pots` makes `PotIsShared` inductive: the rows of a settling are the shares of what is in the
pot *now*, and whoever is still locking his stake does so before the first settling, so
nobody joins behind one.

### Payments and the hub
`PaymentInv` keeps, for a request in its second attempt, that the first was
refused and that the token kept by the service is none or a newer one than that of the
first attempt: tokens are numbered as they are issued, and whoever logs in meanwhile
gets a newer one. The refinement needs that nothing has been sent for an attempt a
request has not come to.

`HubInv` says what a process at each stage holds (`Sound`) and what the registry
promises (`RegistryOK`). `NoWaitCycle` has a ranking: whom a process waits for is of a lower rank
(`WaitsDownwards`), so in any group one of the lowest rank waits for nobody in it. The
refinement needs that only the loop changes the map, and that what it has
received has left its sender.

### Only model-checked
`TurnPasses`, `AwaitedMoveIsMade`, `LeaverIsShownGone` and `RequestEnds`: liveness
under fairness, which the prover cannot treat. The runs of section 6 are
counterexamples and have nothing to prove.

## 5. What the models leave out

- Contents of broadcasts, wording, logging; `HandlePlayerReconnect`, which is called by
  nobody: a player once disconnected stays so. `IsConnected` steers nothing in the
  room, so only `LudoHub` has it.
- Write pumps and send buffers: a full buffer drops messages to a client.
- `RemoveRoom`, `ListRooms`, `UnregisterRoom` and `Client.Close`, which nothing
  calls, and `handleReconnect`, which only logs.
- The session store, the schema of the database, routes and configuration.
- A failing random source: `RollDice` never fails here.
- In `LudoRoom`, a settlement the database refuses; `LudoWallet` has it (`pot` becomes
  `"lost"`; no code retries it, a further game settles anew).
- In `NoWaitCycle`, the wait of a reader for a writer that itself waits, which
  `sync.RWMutex` has and `WaitsFor` has not. The code nests no read lock in another, so
  such a reader waits for what the writer waits for, and no circle is hidden.
- Rounding to whole shillings, currency conversion, collisions of references
  made within a millisecond: requests are their own references.
- `UnlockBet` and `RefundAllPlayers`, which nothing calls; `GetTransactions` and
  balance queries, which change nothing. A wallet that does not exist is one
  with balance 0.
- `TurnGame` lets a roll offer any moves, so rooms see games no board has. This
  only adds behaviours: an invariant that holds here holds of the real room.
  Of the divergences in section 6 that are found in the room, each was read
  again in the code: none depends on a game that a board cannot produce.

## 6. Where code and words disagree

1. **A bot chooses from nothing** (`room_empty_choice`): the list is checked under
   the lock and read again after a pause without it. If somebody has played in
   between, the strategy indexes an empty list; the panic ends the process.
2. **Auto-move at the end of a game** (`room_stale_auto_move`): a timeout that makes
   the last move does not finish the game; the next one replays a move of a token
   that is home and ranks the player again.
3. **A pot that nobody has paid** (`room_unfunded_pot`): a host whose stake could
   not be locked stays host and is counted in the pot. Repeated starts settle the
   same stakes again.
4. **A completed withdrawal is credited** (`wallet_withdrawal_credited`): the
   callback looks for a deposit by reference alone and finds the withdrawal's row.
5. **A kicked session plays on** (`hub_kicked_session`): a new connection takes the
   old one out of the map and does not close it. The old one's messages are still
   routed, and when it leaves, the player's new session is shown as disconnected.

Without a run: `HomeEntry` is documented as the last cell before the home column,
50 cells from the start (`board.go:15`), while tokens stop at relative position
51 too (`board.go:65`). Nothing reads the field.

`RecordsExplainBalance` is stated so that it holds in spite of another weakness: a
withdrawal may be marked failed without having been refunded, when
`RefundFailedWithdraw` is refused by a busy database and `FailPendingTransaction`
follows. The rows do not tell the two cases apart, and the property says exactly
that. `BotTurnDriven` excepts bots that have been removed in the middle of a game:
nobody plays their turns. No sentence of the repository promises otherwise
in either case, so they are recorded as hazards.

## 7. Plan

Modelled: the board, the engine, bots, rooms, wallets, payments, the hub. What is
not is either never called or pure I/O. Proved: every safety property, every action
property and every refinement of the runs.

What could come next:

1. `PaymentCall` and `LudoWallet` meet in prose (section 2): a theorem that the
   wallet's `CallSucceeds` and `CallFails` are steps of `PaymentCall`.
2. That the room only uses `TurnGame` by its own actions, replays excepted, as a
   theorem about `RoomSpec`.
3. Invariants of `TurnGame` itself (places, turns), proved once without a board.

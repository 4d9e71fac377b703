----------------------------- MODULE LudoWallet -----------------------------
(***************************************************************************)
(* Money: the wallets (internal/wallet/service.go), the requests that move *)
(* money in and out of them (HandleDeposit and HandleWithdraw of           *)
(* internal/server/wallet_handler.go with internal/payment/service.go),    *)
(* the callbacks of the payment providers, and the bets of a room.         *)
(*                                                                         *)
(* Requests, callbacks and bets run concurrently, each in steps between    *)
(* which the others run and the server may crash.  A database transaction  *)
(* reads first and writes later: SQLite gives it a snapshot and refuses    *)
(* the write if anybody has written since, so a step can fail in the       *)
(* middle of any handler; most handlers ignore it.                         *)
(*                                                                         *)
(* The providers are external: an order is accepted or lost, paid or       *)
(* failed, and its outcome is called back any number of times, at any      *)
(* time.  A wallet that does not exist yet is one with balance 0.  A       *)
(* callback names its order, and moves the amount that was asked for.      *)
(***************************************************************************)
EXTENDS Integers, FiniteSets, FiniteSetsExt

CONSTANTS
  Player,
  Deposits, Withdrawals,  \* requests; each is its own reference
  Owner,                  \* whose request it is
  Amount, Stake,          \* what a request moves, and what a bet locks
  Opening,                \* balance of a wallet at the beginning
  MaxDeliveries,          \* bound: how often one outcome is called back
  MaxCrashes,             \* bound: crashes of the server
  Settlements             \* bound: games of the room that end with its pot settled

Request == Deposits \cup Withdrawals
Delivery == Request \X (1..MaxDeliveries)

ASSUME WalletAssumption ==
  /\ Deposits \cap Withdrawals = {}
  /\ Owner \in [Request -> Player]
  /\ Amount \in Nat \ {0} /\ Stake \in Nat \ {0} /\ Opening \in Nat
  /\ MaxDeliveries \in Nat /\ MaxCrashes \in Nat
  /\ IsFiniteSet(Request) /\ IsFiniteSet(Player)
  \* Everybody who opens a transaction is an actor of its own.
  /\ Player \cap Request = {} /\ (Player \cup Request) \cap Delivery = {}
  /\ Settlements \cap (Player \cup Request \cup Delivery) = {}

VARIABLES
  balance,      \* wallets.balance
  records,      \* the rows of transactions
  fresh,        \* actors in a transaction that nobody has written behind
  method,       \* "mpesa" or "usdt", once a withdrawal has come in
  request,      \* how far the handler of a request is
  order,        \* the provider's view of it
  delivery,     \* how far the handler of a callback is
  bet,          \* how far a player's bet is, and whether he is in the room
  pot,          \* how far each settling of the pot is
  crashes

money   == <<balance, records>>
vars    == <<money, fresh, method, request, order, delivery, bet, pot, crashes>>

-----------------------------------------------------------------------------
(* The database.                                                           *)

Record(by, p, type, amount, referenced, status) ==
  [by |-> by, player |-> p, type |-> type, amount |-> amount,
   referenced |-> referenced, status |-> status]

\* A first read in a transaction: the snapshot is the present.
ReadIn(a) == fresh' = fresh \cup {a}

\* A plausible slip: no transaction around the read and the write.
SnapshotHolds_Unchecked(a) == TRUE

\* Nobody has written since the transaction has read.
SnapshotHolds(a) == a \in fresh

\* A plausible slip: writers do not get in each other's way.
Written_Unnoticed == UNCHANGED fresh

\* Any write ends the writer's transaction and outdates all others.
Written == fresh' = {}

\* A write that is refused rolls the transaction back.
Busy(a) == ~SnapshotHolds(a) /\ UNCHANGED <<money, fresh>>

Add(p, amount) == balance' = [balance EXCEPT ![p] = @ + amount]

\* The rows a callback looks for: with the reference of r and pending.
PendingRows(r) == {x \in records : x.by = r /\ x.referenced /\ x.status = "pending"}
Replace(x, y) == records' = (records \ {x}) \cup y

-----------------------------------------------------------------------------
(* HandleDeposit and HandleWithdraw.                                        *)

At(r, stage) == request[r] = stage
Goto(r, stage) == request' = [request EXCEPT ![r] = stage]
Ask(r) == order' = [order EXCEPT ![r] = "asked"]

ElsewhereThanRequest == <<delivery, bet, pot, crashes>>

\* The provider is asked before anything is written down.  Deposits are handled
\* alike by either method, and so are their callbacks.
StartDeposit(r) ==
  /\ r \in Deposits /\ At(r, "idle")
  /\ Goto(r, "calling") /\ Ask(r)
  /\ UNCHANGED <<money, fresh, method, ElsewhereThanRequest>>

\* Withdraw reads the balance ..
StartWithdrawal(r, m) ==
  /\ r \in Withdrawals /\ At(r, "idle")
  /\ method' = [method EXCEPT ![r] = m]
  /\ IF balance[Owner[r]] < Amount
     THEN Goto(r, "done") /\ UNCHANGED fresh
     ELSE Goto(r, "deducting") /\ ReadIn(r)
  /\ UNCHANGED <<money, order, ElsewhereThanRequest>>

\* .. and deducts the amount, leaving a pending row without a reference.
Deduct(r) ==
  /\ At(r, "deducting")
  /\ \/ Busy(r) /\ Goto(r, "done")
     \/ /\ SnapshotHolds(r) /\ Written
        /\ Add(Owner[r], -Amount)
        /\ records' = records \cup
             {Record(r, Owner[r], "withdrawal", -Amount, FALSE, "pending")}
        /\ Goto(r, "deducted")
  /\ UNCHANGED <<method, order, ElsewhereThanRequest>>

\* A plausible slip: the provider is asked to pay before the deduction.
AskForPayout_First(r) ==
  /\ At(r, "deducting") \/ At(r, "deducted")
  /\ order[r] = "none"
  /\ Ask(r)
  /\ IF At(r, "deducted") THEN Goto(r, "calling") ELSE UNCHANGED request
  /\ UNCHANGED <<money, fresh, method, ElsewhereThanRequest>>

\* A plausible slip: the row that callbacks look for is stored beforehand.
AskForPayout_RowFirst(r) ==
  /\ At(r, "deducted")
  /\ records' = records \cup
       {Record(r, Owner[r], "withdrawal", -Amount, TRUE, "pending")}
  /\ Written /\ UNCHANGED balance
  /\ Ask(r) /\ Goto(r, "calling")
  /\ UNCHANGED <<method, ElsewhereThanRequest>>

AskForPayout(r) ==
  /\ At(r, "deducted")
  /\ Ask(r) /\ Goto(r, "calling")
  /\ UNCHANGED <<money, fresh, method, ElsewhereThanRequest>>

\* A call succeeds only if the provider has the order; it may fail all the
\* same when the answer is lost.
CallSucceeds(r) ==
  /\ At(r, "calling") /\ order[r] \notin {"none", "asked"}
  /\ Goto(r, "accepted")
  /\ UNCHANGED <<money, fresh, method, order, ElsewhereThanRequest>>

CallFails(r) ==
  /\ At(r, "calling")
  /\ Goto(r, IF r \in Withdrawals THEN "rejected" ELSE "done")
  /\ UNCHANGED <<money, fresh, method, order, ElsewhereThanRequest>>

\* The row by which a callback will find the request; a USDT withdrawal is
\* final and leaves none.
CreatePending(r) ==
  /\ At(r, "accepted")
  /\ IF r \in Withdrawals /\ method[r] = "usdt"
     THEN UNCHANGED <<money, fresh>>
     ELSE /\ records' = records \cup
               {IF r \in Deposits
                THEN Record(r, Owner[r], "deposit", Amount, TRUE, "pending")
                ELSE Record(r, Owner[r], "withdrawal", -Amount, TRUE, "pending")}
          /\ Written /\ UNCHANGED balance
  /\ Goto(r, "done")
  /\ UNCHANGED <<method, order, ElsewhereThanRequest>>

\* The deduction is reversed by a deposit.  Its error is ignored.
StartReversal(r) ==
  /\ At(r, "rejected")
  /\ ReadIn(r) /\ Goto(r, "reversing")
  /\ UNCHANGED <<money, method, order, ElsewhereThanRequest>>

Reverse(r) ==
  /\ At(r, "reversing")
  /\ \/ Busy(r)
     \/ /\ SnapshotHolds(r) /\ Written
        /\ Add(Owner[r], Amount)
        /\ records' = records \cup
             {Record(r, Owner[r], "deposit", Amount, FALSE, "completed")}
  /\ Goto(r, "done")
  /\ UNCHANGED <<method, order, ElsewhereThanRequest>>

RequestStep(r) ==
  \/ StartDeposit(r) \/ \E m \in {"mpesa", "usdt"} : StartWithdrawal(r, m)
  \/ Deduct(r) \/ AskForPayout(r) \/ CallSucceeds(r) \/ CallFails(r)
  \/ CreatePending(r) \/ StartReversal(r) \/ Reverse(r)

-----------------------------------------------------------------------------
(* The providers.                                                          *)

ProviderStep(r) ==
  /\ \/ order[r] = "asked" /\ order' = [order EXCEPT ![r] = "accepted"]
     \/ /\ order[r] = "accepted"
        /\ \E outcome \in {"paid", "failed"} : order' = [order EXCEPT ![r] = outcome]
  /\ UNCHANGED <<money, fresh, method, request, delivery, bet, pot, crashes>>

\* A USDT withdrawal is asked for without a callback address.
CalledBack(r) == order[r] \in {"paid", "failed"} /\ ~(r \in Withdrawals /\ method[r] = "usdt")

-----------------------------------------------------------------------------
(* HandleMpesaCallback and HandleUSDTCallback.                              *)

DeliveryAt(d, stage) == delivery[d] = stage
Proceed(d, stage) == delivery' = [delivery EXCEPT ![d] = stage]

ElsewhereThanDelivery == <<method, request, order, bet, pot, crashes>>

\* The rows the first transaction of a callback works on.  Completing a
\* deposit does not ask for the type of the row; refunding a withdrawal does,
\* and a failed USDT payment is not refunded at all.
Settleable(r) ==
  IF order[r] = "paid" THEN PendingRows(r)
  ELSE {x \in PendingRows(r) : x.type = "withdrawal" /\ method[r] = "mpesa"}

ReceiveCallback(d) ==
  /\ CalledBack(d[1]) /\ DeliveryAt(d, "none")
  /\ \A k \in 1..(d[2] - 1) : ~DeliveryAt(<<d[1], k>>, "none")
  /\ IF Settleable(d[1]) = {}
     THEN Proceed(d, "closing") /\ UNCHANGED fresh
     ELSE Proceed(d, "settling") /\ ReadIn(d)
  /\ UNCHANGED <<money, ElsewhereThanDelivery>>

\* A plausible slip: the pending row is left after the credit.
CompletePendingDeposit_KeepRow(r, x) ==
  /\ Add(x.player, Amount)
  /\ records' = records \cup {Record(r, x.player, "deposit", Amount, TRUE, "completed")}

CompletePendingDeposit(r, x) ==
  /\ Add(x.player, Amount)
  /\ Replace(x, {Record(r, x.player, "deposit", Amount, TRUE, "completed")})

\* A plausible slip: a refunded withdrawal is not marked.
RefundFailedWithdraw_Unmarked(x) == Add(x.player, -x.amount) /\ UNCHANGED records

RefundFailedWithdraw(x) ==
  /\ Add(x.player, -x.amount)
  /\ Replace(x, {[x EXCEPT !.status = "failed"]})

\* Whether it succeeds or not, the handler goes on: after a credit it is done.
Settle(d) ==
  LET r == d[1]
  IN  /\ DeliveryAt(d, "settling")
      /\ \/ Busy(d) /\ Proceed(d, "closing")
         \/ /\ SnapshotHolds(d) /\ Written
            /\ \E x \in PendingRows(r) :
                 IF order[r] = "paid"
                 THEN CompletePendingDeposit(r, x) /\ Proceed(d, "done")
                 ELSE RefundFailedWithdraw(x) /\ Proceed(d, "closing")
      /\ UNCHANGED ElsewhereThanDelivery

\* The second call: what is still pending is marked, the type being looked at
\* only for a completed withdrawal.
Closed(r, x) ==
  IF order[r] = "failed" THEN [x EXCEPT !.status = "failed"]
  ELSE IF x.type = "withdrawal" /\ method[r] = "mpesa" THEN [x EXCEPT !.status = "completed"]
  ELSE x

Close(d) ==
  LET closed == {Closed(d[1], x) : x \in PendingRows(d[1])}
  IN  /\ DeliveryAt(d, "closing")
      /\ records' = (records \ PendingRows(d[1])) \cup closed
      /\ IF closed = PendingRows(d[1]) THEN UNCHANGED fresh ELSE Written
      /\ Proceed(d, "done")
      /\ UNCHANGED <<balance, ElsewhereThanDelivery>>

DeliveryStep(d) == ReceiveCallback(d) \/ Settle(d) \/ Close(d)

-----------------------------------------------------------------------------
(* The bets of a room: LockBet when a player joins, SettleGame when a game  *)
(* ends.  The room handles one message after the other.  A player whose     *)
(* stake cannot be locked is turned away and may try again; only the first, *)
(* who has been made the host before, stays.                                *)

BetAt(p, stage) == bet[p] = stage
Locked == {p \in Player : BetAt(p, "locked")}
InRoom == Locked \cup {p \in Player : BetAt(p, "unpaid")}
PotAt(s, stage) == pot[s] = stage
ElsewhereThanBet == <<method, request, order, delivery, crashes>>

Turned(p) == bet' = [bet EXCEPT ![p] = IF InRoom = {} THEN "unpaid" ELSE "refused"]

\* A plausible slip: people join after the game has been started.
StartLockBet_Late(p) ==
  /\ BetAt(p, "none") \/ BetAt(p, "refused")
  /\ \A q \in Player : ~BetAt(q, "locking")
  /\ IF balance[p] < Stake
     THEN Turned(p) /\ UNCHANGED fresh
     ELSE bet' = [bet EXCEPT ![p] = "locking"] /\ ReadIn(p)
  /\ UNCHANGED <<money, pot, ElsewhereThanBet>>

StartLockBet(p) ==
  /\ \A s \in Settlements : PotAt(s, "none")
  /\ BetAt(p, "none") \/ BetAt(p, "refused")
  /\ \A q \in Player : ~BetAt(q, "locking")
  /\ IF balance[p] < Stake
     THEN Turned(p) /\ UNCHANGED fresh
     ELSE bet' = [bet EXCEPT ![p] = "locking"] /\ ReadIn(p)
  /\ UNCHANGED <<money, pot, ElsewhereThanBet>>

LockBet(p) ==
  /\ BetAt(p, "locking")
  /\ \/ Busy(p) /\ Turned(p)
     \/ /\ SnapshotHolds(p) /\ Written
        /\ Add(p, -Stake)
        /\ records' = records \cup {Record(p, p, "bet_lock", -Stake, FALSE, "completed")}
        /\ bet' = [bet EXCEPT ![p] = "locked"]
  /\ UNCHANGED <<pot, ElsewhereThanBet>>

\* A game ends that one person or more have played, with or without bots.  The
\* host may start another, whose end settles the same bets again; nobody joins
\* once the first has been started.
StartSettlement(s) ==
  /\ PotAt(s, "none") /\ InRoom # {}
  /\ \A q \in Player : ~BetAt(q, "locking")
  /\ \A g \in Settlements : ~PotAt(g, "settling")
  /\ pot' = [pot EXCEPT ![s] = "settling"] /\ ReadIn(s)
  /\ UNCHANGED <<money, bet, ElsewhereThanBet>>

Payout(total) == total - total \div 5

\* 80% of the pot for the winner, 20% for the house.
SettleGame(s, w, total) ==
  /\ Add(w, Payout(total))
  /\ records' = records \cup
       {Record(s, w, "bet_win", Payout(total), FALSE, "completed"),
        Record(s, w, "house_fee", total \div 5, FALSE, "completed")}

\* The pot counts every person in the room, a host who has not paid as well.
\* An error is logged and the pot stays where it is.
FinishSettlement(s) ==
  /\ PotAt(s, "settling")
  /\ \/ Busy(s) /\ pot' = [pot EXCEPT ![s] = "lost"]
     \/ /\ SnapshotHolds(s) /\ Written
        /\ \E w \in InRoom : SettleGame(s, w, Stake * Cardinality(InRoom))
        /\ pot' = [pot EXCEPT ![s] = "settled"]
  /\ UNCHANGED <<bet, ElsewhereThanBet>>

BetStep ==
  \/ \E p \in Player : StartLockBet(p) \/ LockBet(p)
  \/ \E s \in Settlements : StartSettlement(s) \/ FinishSettlement(s)

-----------------------------------------------------------------------------
\* The server is restarted: what was in memory is gone, the database stays.
Crash ==
  /\ crashes < MaxCrashes
  /\ crashes' = crashes + 1
  /\ fresh' = {}
  /\ request' = [r \in Request |-> IF At(r, "idle") THEN "idle" ELSE "done"]
  /\ delivery' = [d \in Delivery |-> IF DeliveryAt(d, "none") THEN "none" ELSE "done"]
  /\ bet' = [p \in Player |-> IF BetAt(p, "locking") THEN "refused" ELSE bet[p]]
  /\ pot' = [s \in Settlements |-> IF PotAt(s, "settled") THEN "settled" ELSE "lost"]
  /\ UNCHANGED <<money, method, order>>

Init ==
  /\ balance = [p \in Player |-> Opening]
  /\ records = {}
  /\ fresh = {}
  /\ method = [r \in Request |-> "none"]
  /\ request = [r \in Request |-> "idle"]
  /\ order = [r \in Request |-> "none"]
  /\ delivery = [d \in Delivery |-> "none"]
  /\ bet = [p \in Player |-> "none"]
  /\ pot = [s \in Settlements |-> "none"]
  /\ crashes = 0

Next ==
  \/ \E r \in Request : RequestStep(r) \/ ProviderStep(r)
  \/ \E d \in Delivery : DeliveryStep(d)
  \/ BetStep
  \/ Crash

Spec == Init /\ [][Next]_vars

-----------------------------------------------------------------------------
(* What the wallet promises.                                               *)

InTransaction ==
  {r \in Request : request[r] \in {"deducting", "reversing"}}
    \cup {d \in Delivery : DeliveryAt(d, "settling")}
    \cup {p \in Player : BetAt(p, "locking")}
    \cup {s \in Settlements : PotAt(s, "settling")}

\* Every variable has its type, and only a transaction has a snapshot.
WalletTypeOK ==
  /\ balance \in [Player -> Int]
  /\ records \subseteq
       [by : Player \cup Request \cup Settlements, player : Player,
        type : {"deposit", "withdrawal", "bet_lock", "bet_win", "house_fee"},
        amount : Int, referenced : BOOLEAN, status : {"pending", "completed", "failed"}]
  /\ fresh \subseteq InTransaction
  /\ method \in [Request -> {"none", "mpesa", "usdt"}]
  /\ request \in [Request -> {"idle", "deducting", "deducted", "calling", "accepted",
                              "rejected", "reversing", "done"}]
  /\ order \in [Request -> {"none", "asked", "accepted", "paid", "failed"}]
  /\ delivery \in [Delivery -> {"none", "settling", "closing", "done"}]
  /\ bet \in [Player -> {"none", "locking", "locked", "refused", "unpaid"}]
  /\ pot \in [Settlements -> {"none", "settling", "settled", "lost"}]
  /\ crashes \in 0..MaxCrashes

\* Nobody spends what he does not have, although a bet and a withdrawal may
\* each find the balance sufficient before either has deducted anything
\* (LockBet and Withdraw check first and write later).
NoOverdraft == \A p \in Player : balance[p] >= 0

\* A callback moves money only for a request that no earlier callback has
\* settled, however often an outcome is called back and however the handlers
\* interleave (CompletePendingDeposit, RefundFailedWithdraw).
SettledRows(r) ==
  {x \in records : x.by = r /\ x.referenced /\ x.status \in {"completed", "failed"}}

SettledOnce ==
  [][\A d \in Delivery :
       balance' # balance /\ delivery'[d] # delivery[d] => SettledRows(d[1]) = {}]_vars

\* A provider is asked to pay out only what has been taken from the wallet,
\* also when the server crashes between the two (the "Pre-deduct" of
\* HandleWithdraw).
PayoutsAreDeducted ==
  \A r \in Withdrawals :
    order[r] # "none" => \E x \in records : x.by = r /\ x.type = "withdrawal" /\ ~x.referenced

\* The money of a withdrawal is returned by the handler, when its call fails,
\* or by a callback, but not by both: the call may fail although the provider
\* has the order and calls back later (the reversals of HandleWithdraw,
\* RefundFailedWithdraw).
ReturnedOnce ==
  \A r \in Withdrawals :
    LET rows == {x \in records : x.by = r}
    IN  (\E x \in rows : x.type = "deposit" /\ ~x.referenced) => ~\E x \in rows : x.referenced

\* What a row says about the balance: pending deposits and the rows that give
\* a withdrawal its reference say nothing, house fees are the house's.
Entered(x) ==
  IF \/ x.type = "deposit" /\ x.status = "completed"
     \/ x.type = "withdrawal" /\ ~x.referenced
     \/ x.type \in {"bet_lock", "bet_win"}
  THEN x.amount ELSE 0

\* At every moment the balance of a wallet follows from its rows, as far as
\* they tell: a failed withdrawal with a reference may have been refunded or
\* not, because FailPendingTransaction marks it either way.
RecordsExplainBalance ==
  \A p \in Player :
    LET rows   == {x \in records : x.player = p}
        failed == {x \in rows : x.type = "withdrawal" /\ x.referenced /\ x.status = "failed"}
    IN  \E refunded \in SUBSET failed :
          balance[p] = Opening + MapThenSumSet(Entered, rows) + Amount * Cardinality(refunded)

\* Whenever a game of the room has ended, the prize and the fee add up to a
\* stake of everybody who is in the room, now and then: nobody joins once a
\* game has been started, and nobody leaves (handleJoin, handleMoveToken).
PotIsShared ==
  \A x, y \in records :
    x.by = y.by /\ x.type = "bet_win" /\ y.type = "house_fee" =>
      x.amount + y.amount = Stake * Cardinality(InRoom)

-----------------------------------------------------------------------------
\* CompletePendingDeposit is said to find a pending deposit, and its caller to
\* try a withdrawal when there is none: no withdrawal is ever credited.
OnlyDepositsAreCredited ==
  \A x \in records : x.type = "deposit" /\ x.referenced => x.by \in Deposits
=============================================================================

--------------------------- MODULE LudoWalletProofs ---------------------------
(***************************************************************************)
(* Theorems about the money, for any number of players, of deposits and of *)
(* withdrawals, any amounts, any number of callbacks and of crashes.       *)
(***************************************************************************)
EXTENDS LudoWallet, FiniteSetTheorems, WellFoundedInduction, TLAPS

-----------------------------------------------------------------------------
(* The inductive invariant.                                                *)

\* What a transaction has found in a wallet is there as long as nobody has
\* written behind it.
Funds ==
  /\ NoOverdraft
  /\ \A r \in Withdrawals : At(r, "deducting") /\ r \in fresh => balance[Owner[r]] >= Amount
  /\ \A p \in Player : BetAt(p, "locking") /\ p \in fresh => balance[p] >= Stake

\* The row with the reference of a request is stored at the end of its handler,
\* and so is the reversal of a withdrawal.
RowOK(x) ==
  /\ x.referenced =>
       /\ x.by \in Request /\ At(x.by, "done")
       /\ x.status = "pending" =>
            \/ x.by \in Deposits /\ x.type = "deposit"
            \/ x.by \in Withdrawals /\ x.type = "withdrawal" /\ x.amount = -Amount
  /\ ~x.referenced /\ x.type = "deposit" => x.by \in Request /\ At(x.by, "done")

\* A request has one row with its reference at most, and not with a reversal.
PairOK(x, y) ==
  x.referenced /\ x.by = y.by => IF y.referenced THEN x = y ELSE y.type # "deposit"

Rows == (\A x \in records : RowOK(x)) /\ (\A x, y \in records : PairOK(x, y))

\* The requests whose payout may have been, or is about to be, asked for.
Owed(r) ==
  order[r] # "none" \/ At(r, "deducted") \/ At(r, "calling") \/ At(r, "accepted")
    \/ At(r, "rejected") \/ At(r, "reversing")
Deducted(r) == \E x \in records : x.by = r /\ x.type = "withdrawal" /\ ~x.referenced
Deductions == \A r \in Withdrawals : Owed(r) => Deducted(r)

\* Nothing is ordered before the handler of a request has come so far.
Unasked ==
  \A r \in Request :
    /\ request[r] \in {"idle", "deducting", "deducted"} => order[r] = "none"
    /\ request[r] = "deducting" => r \in Withdrawals

\* Callbacks are about final orders, and refund withdrawals only.
Callbacks ==
  \A d \in Delivery : DeliveryAt(d, "settling") =>
    /\ order[d[1]] \in {"paid", "failed"}
    /\ order[d[1]] = "failed" => d[1] \in Withdrawals

WalletInv == WalletTypeOK /\ Funds /\ Rows /\ Deductions /\ Unasked /\ Callbacks

\* Its parts, by name.
LEMMA InvParts ==
  ASSUME WalletInv
  PROVE  WalletTypeOK /\ Funds /\ Rows /\ Deductions /\ Unasked /\ Callbacks
  BY DEF WalletInv

\* Actors are of one kind each, and requests have their players.
LEMMA Actors ==
  /\ Deposits \subseteq Request /\ Withdrawals \subseteq Request
  /\ \A r \in Deposits : r \notin Withdrawals
  /\ \A r \in Request : Owner[r] \in Player /\ r \notin Player /\ r \notin Delivery /\ r \notin Settlements
  /\ \A p \in Player : p \notin Request /\ p \notin Delivery /\ p \notin Settlements
  /\ \A d \in Delivery : d[1] \in Request /\ d \notin Player /\ d \notin Request /\ d \notin Settlements
  /\ Amount \in Int /\ Amount > 0 /\ Stake \in Int /\ Stake > 0 /\ Opening \in Int /\ Opening >= 0
  BY WalletAssumption DEF Request, Delivery

\* Rows, as records.
Row ==
  [by : Player \cup Request \cup Settlements, player : Player,
   type : {"deposit", "withdrawal", "bet_lock", "bet_win", "house_fee"},
   amount : Int, referenced : BOOLEAN, status : {"pending", "completed", "failed"}]

\* What an update of one balance leaves in every wallet.
LEMMA AddFact ==
  ASSUME balance \in [Player -> Int], NEW p \in Player, NEW amount \in Int, Add(p, amount)
  PROVE  /\ balance' \in [Player -> Int]
         /\ balance'[p] = balance[p] + amount
         /\ \A q \in Player : q # p => balance'[q] = balance[q]
  BY DEF Add

\* Who has a fresh snapshot is in a transaction.
LEMMA FreshFact ==
  ASSUME WalletTypeOK
  PROVE  /\ \A r \in Request : r \in fresh => request[r] \in {"deducting", "reversing"}
         /\ \A d \in Delivery : d \in fresh => DeliveryAt(d, "settling")
         /\ \A p \in Player : p \in fresh => BetAt(p, "locking")
         /\ \A s \in Settlements : s \in fresh => PotAt(s, "settling")
  BY Actors DEF WalletTypeOK, InTransaction

\* The same, for one actor of whatever kind.
LEMMA FreshMembers ==
  ASSUME WalletTypeOK, NEW a \in fresh
  PROVE  \/ a \in Request /\ request[a] \in {"deducting", "reversing"}
         \/ a \in Delivery /\ DeliveryAt(a, "settling")
         \/ a \in Player /\ BetAt(a, "locking")
         \/ a \in Settlements /\ PotAt(a, "settling")
  BY DEF WalletTypeOK, InTransaction

-----------------------------------------------------------------------------
(* What keeps the parts of the invariant.                                  *)

\* Steps that write no row, and take no handler back.
LEMMA RowsKept ==
  ASSUME Rows, UNCHANGED records, \A r \in Request : At(r, "done") => At(r, "done")'
  PROVE  Rows'
  BY DEF Rows, RowOK, PairOK

\* A row without a reference, other than a reversal, disturbs no other.
LEMMA RowAdded ==
  ASSUME Rows, NEW z, ~z.referenced, z.type # "deposit", records' = records \cup {z},
         \A r \in Request : At(r, "done") => At(r, "done")'
  PROVE  Rows'
<1>1. \A x \in records' : RowOK(x)' BY DEF Rows, RowOK
<1>2. \A x, y \in records' : PairOK(x, y)
  BY DEF Rows, PairOK
<1>3. \A x, y : PairOK(x, y)' <=> PairOK(x, y) BY DEF PairOK
<1> QED BY <1>1, <1>2, <1>3 DEF Rows

\* A pending row gives way to one that is settled.
LEMMA RowReplaced ==
  ASSUME Rows, NEW r \in Request, NEW x \in PendingRows(r),
         NEW y, y.by = r, y.referenced, y.status # "pending",
         records' = (records \ {x}) \cup {y}, UNCHANGED request
  PROVE  Rows'
<1>1. x \in records /\ x.by = r /\ x.referenced BY DEF PendingRows
<1>2. At(r, "done") BY <1>1 DEF Rows, RowOK
<1>3. \A z \in records' : RowOK(z)'
  BY <1>2 DEF Rows, RowOK, At
<1>4. \A z \in records : z.by = r => z = x \/ (~z.referenced /\ z.type # "deposit")
  BY <1>1 DEF Rows, PairOK
<1>5. \A z, u \in records' : PairOK(z, u)
  BY <1>4 DEF Rows, PairOK
<1>6. \A z, u : PairOK(z, u)' <=> PairOK(z, u) BY DEF PairOK
<1> QED BY <1>3, <1>5, <1>6 DEF Rows

\* Steps that move no money and begin no transaction.
LEMMA FundsKept ==
  ASSUME Funds, UNCHANGED balance, fresh' \subseteq fresh,
         \A r \in Withdrawals : r \in fresh' /\ At(r, "deducting")' => At(r, "deducting"),
         \A p \in Player : p \in fresh' /\ BetAt(p, "locking")' => BetAt(p, "locking")
  PROVE  Funds'
  BY DEF Funds, NoOverdraft

\* After a write nobody relies on what he has read before.
LEMMA FundsWritten ==
  ASSUME Written, \A p \in Player : balance'[p] >= 0
  PROVE  Funds'
  BY DEF Funds, NoOverdraft, Written

\* Deductions stay in the records, and nobody owes a new one.
LEMMA DeductionsKept ==
  ASSUME Deductions, \A x \in records : ~x.referenced => x \in records',
         \A r \in Withdrawals : Owed(r)' => Owed(r)
  PROVE  Deductions'
  BY DEF Deductions, Deducted

\* The outcome of an order is final.
LEMMA CallbacksKept ==
  ASSUME Callbacks,
         \A r \in Request : order[r] \in {"paid", "failed"} => order'[r] = order[r],
         \A d \in Delivery : DeliveryAt(d, "settling")' => DeliveryAt(d, "settling")
  PROVE  Callbacks'
  BY Actors DEF Callbacks

\* A request that goes to another stage of its handler.
LEMMA RequestMoves ==
  ASSUME WalletTypeOK, NEW r \in Request,
         NEW stage \in {"deducting", "deducted", "calling", "accepted", "rejected", "reversing", "done"},
         Goto(r, stage), UNCHANGED <<delivery, bet, pot, crashes>>, fresh' \subseteq fresh \cup {r},
         r \in fresh' => stage \in {"deducting", "reversing"}
  PROVE  /\ (request \in [Request -> {"idle", "deducting", "deducted", "calling", "accepted",
                                      "rejected", "reversing", "done"}])'
         /\ (fresh \subseteq InTransaction)'
         /\ request'[r] = stage
         /\ \A q \in Request : q # r => request'[q] = request[q]
<1>1. /\ request' \in [Request -> {"idle", "deducting", "deducted", "calling", "accepted",
                                   "rejected", "reversing", "done"}]
      /\ request'[r] = stage
      /\ \A q \in Request : q # r => request'[q] = request[q]
  BY DEF WalletTypeOK, Goto
<1>2. ASSUME NEW a \in fresh'
      PROVE  \/ a \in Request /\ request'[a] \in {"deducting", "reversing"}
             \/ a \in Delivery /\ DeliveryAt(a, "settling")'
             \/ a \in Player /\ BetAt(a, "locking")'
             \/ a \in Settlements /\ PotAt(a, "settling")'
  <2>1. CASE a = r BY <1>1, <2>1
  <2>2. CASE a # r
    <3>1. a \in fresh BY <2>2
    <3> QED BY <1>1, <2>2, <3>1, FreshMembers DEF DeliveryAt, BetAt, PotAt
  <2> QED BY <2>1, <2>2
<1>3. (fresh \subseteq InTransaction)'
  BY <1>2 DEF InTransaction
<1> QED BY <1>1, <1>3

\* A callback that goes to another stage of its handler.
LEMMA DeliveryMoves ==
  ASSUME WalletTypeOK, NEW d \in Delivery, NEW stage \in {"settling", "closing", "done"},
         Proceed(d, stage), UNCHANGED <<request, bet, pot, crashes>>, fresh' \subseteq fresh \cup {d},
         d \in fresh' => stage = "settling"
  PROVE  /\ (delivery \in [Delivery -> {"none", "settling", "closing", "done"}])'
         /\ (fresh \subseteq InTransaction)'
         /\ delivery'[d] = stage
         /\ \A e \in Delivery : e # d => delivery'[e] = delivery[e]
<1>1. /\ delivery' \in [Delivery -> {"none", "settling", "closing", "done"}]
      /\ delivery'[d] = stage
      /\ \A e \in Delivery : e # d => delivery'[e] = delivery[e]
  BY DEF WalletTypeOK, Proceed
<1>2. ASSUME NEW a \in fresh'
      PROVE  \/ a \in Request /\ request'[a] \in {"deducting", "reversing"}
             \/ a \in Delivery /\ delivery'[a] = "settling"
             \/ a \in Player /\ BetAt(a, "locking")'
             \/ a \in Settlements /\ PotAt(a, "settling")'
  <2>1. CASE a = d BY <1>1, <2>1
  <2>2. CASE a # d
    <3>1. a \in fresh BY <2>2
    <3> QED BY <1>1, <2>2, <3>1, FreshMembers DEF DeliveryAt, BetAt, PotAt
  <2> QED BY <2>1, <2>2
<1>3. (fresh \subseteq InTransaction)'
  BY <1>2 DEF InTransaction, DeliveryAt
<1> QED BY <1>1, <1>3

\* A bet that goes on.
LEMMA BetMoves ==
  ASSUME WalletTypeOK, NEW p \in Player, NEW stage \in {"locking", "locked", "refused", "unpaid"},
         bet' = [bet EXCEPT ![p] = stage], UNCHANGED <<request, delivery, pot, crashes>>,
         fresh' \subseteq fresh \cup {p}, p \in fresh' => stage = "locking"
  PROVE  /\ (bet \in [Player -> {"none", "locking", "locked", "refused", "unpaid"}])'
         /\ (fresh \subseteq InTransaction)'
         /\ bet'[p] = stage
         /\ \A q \in Player : q # p => bet'[q] = bet[q]
<1>1. /\ bet' \in [Player -> {"none", "locking", "locked", "refused", "unpaid"}]
      /\ bet'[p] = stage
      /\ \A q \in Player : q # p => bet'[q] = bet[q]
  BY DEF WalletTypeOK
<1>2. ASSUME NEW a \in fresh'
      PROVE  \/ a \in Request /\ request'[a] \in {"deducting", "reversing"}
             \/ a \in Delivery /\ DeliveryAt(a, "settling")'
             \/ a \in Player /\ bet'[a] = "locking"
             \/ a \in Settlements /\ PotAt(a, "settling")'
  <2>1. CASE a = p BY <1>1, <2>1
  <2>2. CASE a # p
    <3>1. a \in fresh BY <2>2
    <3> QED BY <1>1, <2>2, <3>1, FreshMembers DEF DeliveryAt, BetAt, PotAt
  <2> QED BY <2>1, <2>2
<1>3. (fresh \subseteq InTransaction)'
  BY <1>2 DEF InTransaction, BetAt
<1> QED BY <1>1, <1>3

-----------------------------------------------------------------------------
(* HandleDeposit and HandleWithdraw.                                       *)

\* A request goes on without touching the money.
LEMMA QuietRequest ==
  ASSUME WalletInv, NEW r \in Request, request[r] # "done",
         NEW stage \in {"calling", "accepted", "rejected", "done"},
         Goto(r, stage), UNCHANGED <<money, fresh, delivery, bet, pot, crashes>>,
         r \notin fresh,
         method' \in [Request -> {"none", "mpesa", "usdt"}],
         order' \in [Request -> {"none", "asked", "accepted", "paid", "failed"}],
         \A q \in Request : order'[q] = order[q] \/ (q = r /\ order[q] = "none"),
         r \in Withdrawals /\ Owed(r)' => Owed(r)
  PROVE  WalletInv'
<1> USE InvParts, Actors
<1>1. /\ (request \in [Request -> {"idle", "deducting", "deducted", "calling", "accepted",
                                   "rejected", "reversing", "done"}])'
      /\ (fresh \subseteq InTransaction)'
      /\ request'[r] = stage
      /\ \A q \in Request : q # r => request'[q] = request[q]
  BY RequestMoves
<1>2. WalletTypeOK' BY <1>1 DEF WalletTypeOK, money
<1>3. Funds'
  BY <1>1, FundsKept DEF At, BetAt, money
<1>4. Rows' BY <1>1, RowsKept DEF At, money
<1>5. Deductions'
  <2>1. \A q \in Withdrawals : q # r => (Owed(q)' <=> Owed(q)) BY <1>1 DEF Owed, At
  <2> QED BY <2>1, DeductionsKept DEF money
<1>6. Unasked' BY <1>1 DEF Unasked
<1>7. Callbacks' BY CallbacksKept DEF DeliveryAt
<1> QED BY <1>2, <1>3, <1>4, <1>5, <1>6, <1>7 DEF WalletInv

\* A deposit is asked for; it has no row yet.
LEMMA StartDepositStep ==
  ASSUME WalletInv, NEW r \in Request, StartDeposit(r)
  PROVE  WalletInv'
<1> USE InvParts, Actors
<1>1. /\ r \in Deposits /\ request[r] = "idle" /\ Goto(r, "calling")
      /\ order' = [order EXCEPT ![r] = "asked"]
      /\ UNCHANGED <<money, fresh, method, delivery, bet, pot, crashes>>
  BY DEF StartDeposit, At, Ask, ElsewhereThanRequest
<1>2. r \notin fresh /\ order[r] = "none" /\ r \notin Withdrawals
  BY <1>1, FreshFact DEF Unasked
<1>3. /\ method' \in [Request -> {"none", "mpesa", "usdt"}]
      /\ order' \in [Request -> {"none", "asked", "accepted", "paid", "failed"}]
      /\ \A q \in Request : order'[q] = order[q] \/ (q = r /\ order[q] = "none")
  BY <1>1, <1>2 DEF WalletTypeOK
<1> QED BY <1>1, <1>2, <1>3, QuietRequest

\* The balance that a withdrawal has read covers it.
LEMMA StartWithdrawalStep ==
  ASSUME WalletInv, NEW r \in Request, NEW m \in {"mpesa", "usdt"}, StartWithdrawal(r, m)
  PROVE  WalletInv'
<1> USE InvParts, Actors
<1>1. /\ r \in Withdrawals /\ request[r] = "idle"
      /\ method' = [method EXCEPT ![r] = m]
      /\ UNCHANGED <<money, order, delivery, bet, pot, crashes>>
  BY DEF StartWithdrawal, At, ElsewhereThanRequest
<1>2. r \notin fresh /\ method' \in [Request -> {"none", "mpesa", "usdt"}]
  BY <1>1, FreshFact DEF WalletTypeOK
<1>3. CASE balance[Owner[r]] < Amount
  <2>1. Goto(r, "done") /\ UNCHANGED fresh BY <1>3 DEF StartWithdrawal
  <2>2. request'[r] = "done" BY <2>1 DEF Goto, WalletTypeOK
  <2>3. Owed(r)' => Owed(r) BY <1>1, <2>2 DEF Owed, At
  <2>4. order' \in [Request -> {"none", "asked", "accepted", "paid", "failed"}]
    BY <1>1 DEF WalletTypeOK
  <2> QED BY <1>1, <1>2, <2>1, <2>3, <2>4, QuietRequest
<1>4. CASE ~(balance[Owner[r]] < Amount)
  <2>1. Goto(r, "deducting") /\ fresh' = fresh \cup {r}
    BY <1>4 DEF StartWithdrawal, ReadIn
  <2>2. /\ (request \in [Request -> {"idle", "deducting", "deducted", "calling", "accepted",
                                     "rejected", "reversing", "done"}])'
        /\ (fresh \subseteq InTransaction)'
        /\ request'[r] = "deducting"
        /\ \A q \in Request : q # r => request'[q] = request[q]
    BY <1>1, <2>1, RequestMoves
  <2>3. WalletTypeOK' BY <1>1, <1>2, <2>2 DEF WalletTypeOK, money
  <2>4. Funds'
    <3>1. balance[Owner[r]] >= Amount BY <1>4 DEF WalletTypeOK
    <3> QED BY <1>1, <2>1, <2>2, <3>1 DEF Funds, NoOverdraft, At, BetAt, money
  <2>5. Rows' BY <1>1, <2>2, RowsKept DEF At, money
  <2>6. Deductions'
    <3>1. \A q \in Withdrawals : Owed(q)' => Owed(q) BY <1>1, <2>2 DEF Owed, At
    <3> QED BY <1>1, <3>1, DeductionsKept DEF money
  <2>7. Unasked' BY <1>1, <2>2 DEF Unasked
  <2>8. Callbacks' BY <1>1, CallbacksKept DEF DeliveryAt
  <2> QED BY <2>3, <2>4, <2>5, <2>6, <2>7, <2>8 DEF WalletInv
<1> QED BY <1>3, <1>4

\* What is deducted was there when it was read, and nobody has written since.
LEMMA DeductStep ==
  ASSUME WalletInv, NEW r \in Request, Deduct(r)
  PROVE  WalletInv'
<1> USE InvParts, Actors
<1>1. /\ request[r] = "deducting" /\ order[r] = "none"
      /\ UNCHANGED <<method, order, delivery, bet, pot, crashes>>
  BY DEF Deduct, At, ElsewhereThanRequest, Unasked
<1>2. CASE Busy(r) /\ Goto(r, "done")
  <2>1. r \notin fresh /\ UNCHANGED <<money, fresh>> BY <1>2 DEF Busy, SnapshotHolds
  <2>2. request'[r] = "done" BY <1>2 DEF Goto, WalletTypeOK
  <2>3. Owed(r)' => Owed(r) BY <1>1, <2>2 DEF Owed, At
  <2>4. /\ order' \in [Request -> {"none", "asked", "accepted", "paid", "failed"}]
        /\ method' \in [Request -> {"none", "mpesa", "usdt"}]
    BY <1>1 DEF WalletTypeOK
  <2> QED BY <1>1, <1>2, <2>1, <2>3, <2>4, QuietRequest
<1>3. CASE /\ SnapshotHolds(r) /\ Written /\ Add(Owner[r], -Amount) /\ Goto(r, "deducted")
           /\ records' = records \cup {Record(r, Owner[r], "withdrawal", -Amount, FALSE, "pending")}
  <2> DEFINE z == Record(r, Owner[r], "withdrawal", -Amount, FALSE, "pending")
  <2>1. r \in fresh /\ fresh' = {} BY <1>3 DEF SnapshotHolds, Written
  <2>2. /\ (request \in [Request -> {"idle", "deducting", "deducted", "calling", "accepted",
                                     "rejected", "reversing", "done"}])'
        /\ (fresh \subseteq InTransaction)'
        /\ request'[r] = "deducted"
        /\ \A q \in Request : q # r => request'[q] = request[q]
    BY <1>1, <1>3, <2>1, RequestMoves
  <2>3. /\ z \in Row /\ z.by = r /\ ~z.referenced /\ z.type = "withdrawal"
        /\ records' = records \cup {z}
    <3>1. Owner[r] \in Player /\ -Amount \in Int OBVIOUS
    <3>2. z \in Row /\ z.by = r /\ z.referenced = FALSE /\ z.type = "withdrawal"
      BY <3>1 DEF Record, Row
    <3> QED BY <1>3, <3>2
  <2>4. /\ balance' \in [Player -> Int]
        /\ balance'[Owner[r]] = balance[Owner[r]] + (-Amount)
        /\ \A q \in Player : q # Owner[r] => balance'[q] = balance[q]
    BY <1>3, AddFact DEF WalletTypeOK
  <2> HIDE DEF z
  <2>5. WalletTypeOK' BY <1>1, <2>2, <2>3, <2>4 DEF WalletTypeOK, Row
  <2>6. Funds'
    <3>1. r \in Withdrawals BY <1>1 DEF Unasked
    <3>2. balance[Owner[r]] >= Amount BY <1>1, <2>1, <3>1 DEF Funds, At
    <3>3. \A q \in Player : balance'[q] >= 0 BY <2>4, <3>2 DEF Funds, NoOverdraft, WalletTypeOK
    <3> QED BY <1>3, <3>3, FundsWritten
  <2>7. Rows' BY <1>1, <2>2, <2>3, RowAdded DEF At
  <2>8. Deductions'
    <3>1. Deducted(r)' BY <2>3 DEF Deducted
    <3>2. \A q \in Withdrawals : q # r => (Owed(q)' <=> Owed(q)) BY <1>1, <2>2 DEF Owed, At
    <3> QED BY <2>3, <3>1, <3>2 DEF Deductions, Deducted
  <2>9. Unasked' BY <1>1, <2>2 DEF Unasked
  <2>10. Callbacks' BY <1>1, CallbacksKept DEF DeliveryAt
  <2> QED BY <2>5, <2>6, <2>7, <2>8, <2>9, <2>10 DEF WalletInv
<1> QED BY <1>2, <1>3 DEF Deduct

\* The payout is asked for when the deduction is in the records.
LEMMA AskForPayoutStep ==
  ASSUME WalletInv, NEW r \in Request, AskForPayout(r)
  PROVE  WalletInv'
<1> USE InvParts, Actors
<1>1. /\ request[r] = "deducted" /\ Goto(r, "calling") /\ order' = [order EXCEPT ![r] = "asked"]
      /\ UNCHANGED <<money, fresh, method, delivery, bet, pot, crashes>>
  BY DEF AskForPayout, At, Ask, ElsewhereThanRequest
<1>2. r \notin fresh /\ order[r] = "none" /\ Owed(r)
  BY <1>1, FreshFact DEF Unasked, Owed, At
<1>3. /\ method' \in [Request -> {"none", "mpesa", "usdt"}]
      /\ order' \in [Request -> {"none", "asked", "accepted", "paid", "failed"}]
      /\ \A q \in Request : order'[q] = order[q] \/ (q = r /\ order[q] = "none")
  BY <1>1, <1>2 DEF WalletTypeOK
<1> QED BY <1>1, <1>2, <1>3, QuietRequest

\* The provider has answered, or not: the deduction is there either way.
LEMMA CallStep ==
  ASSUME WalletInv, NEW r \in Request, CallSucceeds(r) \/ CallFails(r)
  PROVE  WalletInv'
<1> USE InvParts, Actors
<1>1. /\ request[r] = "calling"
      /\ Goto(r, "accepted") \/ Goto(r, "rejected") \/ Goto(r, "done")
      /\ UNCHANGED <<money, fresh, method, order, delivery, bet, pot, crashes>>
  BY DEF CallSucceeds, CallFails, At, ElsewhereThanRequest
<1>2. r \notin fresh /\ Owed(r)
  BY <1>1, FreshFact DEF Owed, At
<1>3. /\ method' \in [Request -> {"none", "mpesa", "usdt"}]
      /\ order' \in [Request -> {"none", "asked", "accepted", "paid", "failed"}]
  BY <1>1 DEF WalletTypeOK
<1> QED BY <1>1, <1>2, <1>3, QuietRequest

\* The row with the reference is the first of its request.
LEMMA CreatePendingStep ==
  ASSUME WalletInv, NEW r \in Request, CreatePending(r)
  PROVE  WalletInv'
<1> USE InvParts, Actors
<1>1. /\ request[r] = "accepted" /\ Goto(r, "done")
      /\ UNCHANGED <<method, order, delivery, bet, pot, crashes>>
  BY DEF CreatePending, At, ElsewhereThanRequest
<1>2. CASE UNCHANGED <<money, fresh>>
  <2>1. r \notin fresh /\ Owed(r) BY <1>1, FreshFact DEF Owed, At
  <2>2. /\ method' \in [Request -> {"none", "mpesa", "usdt"}]
        /\ order' \in [Request -> {"none", "asked", "accepted", "paid", "failed"}]
    BY <1>1 DEF WalletTypeOK
  <2> QED BY <1>1, <1>2, <2>1, <2>2, QuietRequest
<1>3. ASSUME NEW z, records' = records \cup {z}, Written, UNCHANGED balance,
             \/ r \in Deposits /\ z = Record(r, Owner[r], "deposit", Amount, TRUE, "pending")
             \/ r \in Withdrawals /\ z = Record(r, Owner[r], "withdrawal", -Amount, TRUE, "pending")
      PROVE  WalletInv'
  <2>1. Owner[r] \in Player /\ -Amount \in Int OBVIOUS
  <2>2. /\ z \in Row /\ z.by = r /\ z.referenced /\ z.status = "pending"
        /\ \/ r \in Deposits /\ z.type = "deposit"
           \/ r \in Withdrawals /\ z.type = "withdrawal" /\ z.amount = -Amount
    <3>1. CASE r \in Deposits /\ z = Record(r, Owner[r], "deposit", Amount, TRUE, "pending")
      BY <2>1, <3>1 DEF Record, Row
    <3>2. CASE r \in Withdrawals /\ z = Record(r, Owner[r], "withdrawal", -Amount, TRUE, "pending")
      BY <2>1, <3>2 DEF Record, Row
    <3> QED BY <1>3, <3>1, <3>2
  <2>3. fresh' = {} BY <1>3 DEF Written
  <2>4. /\ (request \in [Request -> {"idle", "deducting", "deducted", "calling", "accepted",
                                     "rejected", "reversing", "done"}])'
        /\ (fresh \subseteq InTransaction)'
        /\ request'[r] = "done"
        /\ \A q \in Request : q # r => request'[q] = request[q]
    BY <1>1, <2>3, RequestMoves
  <2>5. WalletTypeOK' BY <1>1, <1>3, <2>2, <2>4 DEF WalletTypeOK, Row
  <2>6. Funds' BY <1>3, FundsWritten DEF Funds, NoOverdraft
  <2>7. Rows'
    <3>1. \A x \in records : x.by = r => ~x.referenced /\ x.type # "deposit"
      BY <1>1 DEF Rows, RowOK, At
    <3>2. \A x \in records' : RowOK(x)'
      BY <1>3, <2>2, <2>4 DEF Rows, RowOK, At
    <3>3. \A x, y \in records' : PairOK(x, y)
      <4> TAKE x, y \in records'
      <4>1. CASE x = z BY <1>3, <2>2, <3>1, <4>1 DEF PairOK
      <4>2. CASE x \in records /\ y = z BY <2>2, <3>1, <4>2 DEF PairOK
      <4>3. CASE x \in records /\ y \in records BY <4>3 DEF Rows
      <4> QED BY <1>3, <4>1, <4>2, <4>3
    <3>4. \A x, y : PairOK(x, y)' <=> PairOK(x, y) BY DEF PairOK
    <3> QED BY <3>2, <3>3, <3>4 DEF Rows
  <2>8. Deductions'
    <3>1. \A q \in Withdrawals : Owed(q)' => Owed(q) BY <1>1, <2>4 DEF Owed, At
    <3> QED BY <1>3, <3>1, DeductionsKept
  <2>9. Unasked' BY <1>1, <2>4 DEF Unasked
  <2>10. Callbacks' BY <1>1, CallbacksKept DEF DeliveryAt
  <2> QED BY <2>5, <2>6, <2>7, <2>8, <2>9, <2>10 DEF WalletInv
<1> QED BY <1>2, <1>3 DEF CreatePending, Request

\* The reversal opens its transaction.
LEMMA StartReversalStep ==
  ASSUME WalletInv, NEW r \in Request, StartReversal(r)
  PROVE  WalletInv'
<1> USE InvParts, Actors
<1>1. /\ request[r] = "rejected" /\ Goto(r, "reversing") /\ fresh' = fresh \cup {r}
      /\ UNCHANGED <<money, method, order, delivery, bet, pot, crashes>>
  BY DEF StartReversal, At, ReadIn, ElsewhereThanRequest
<1>2. /\ (request \in [Request -> {"idle", "deducting", "deducted", "calling", "accepted",
                                   "rejected", "reversing", "done"}])'
      /\ (fresh \subseteq InTransaction)'
      /\ request'[r] = "reversing"
      /\ \A q \in Request : q # r => request'[q] = request[q]
  BY <1>1, RequestMoves
<1>3. WalletTypeOK' BY <1>1, <1>2 DEF WalletTypeOK, money
<1>4. Funds' BY <1>1, <1>2 DEF Funds, NoOverdraft, At, BetAt, money
<1>5. Rows' BY <1>1, <1>2, RowsKept DEF At, money
<1>6. Deductions'
  <2>1. \A q \in Withdrawals : Owed(q)' => Owed(q) BY <1>1, <1>2 DEF Owed, At
  <2> QED BY <1>1, <2>1, DeductionsKept DEF money
<1>7. Unasked' BY <1>1, <1>2 DEF Unasked
<1>8. Callbacks' BY <1>1, CallbacksKept DEF DeliveryAt
<1> QED BY <1>3, <1>4, <1>5, <1>6, <1>7, <1>8 DEF WalletInv

\* A reversal is stored when there is no row with the reference, and never will be.
LEMMA ReverseStep ==
  ASSUME WalletInv, NEW r \in Request, Reverse(r)
  PROVE  WalletInv'
<1> USE InvParts, Actors
<1>1. /\ request[r] = "reversing" /\ Goto(r, "done")
      /\ UNCHANGED <<method, order, delivery, bet, pot, crashes>>
  BY DEF Reverse, At, ElsewhereThanRequest
<1>2. CASE Busy(r)
  <2>1. r \notin fresh /\ UNCHANGED <<money, fresh>> /\ Owed(r)
    BY <1>1, <1>2 DEF Busy, SnapshotHolds, Owed, At
  <2>2. /\ method' \in [Request -> {"none", "mpesa", "usdt"}]
        /\ order' \in [Request -> {"none", "asked", "accepted", "paid", "failed"}]
    BY <1>1 DEF WalletTypeOK
  <2> QED BY <1>1, <2>1, <2>2, QuietRequest
<1>3. CASE /\ SnapshotHolds(r) /\ Written /\ Add(Owner[r], Amount)
           /\ records' = records \cup {Record(r, Owner[r], "deposit", Amount, FALSE, "completed")}
  <2> DEFINE z == Record(r, Owner[r], "deposit", Amount, FALSE, "completed")
  <2>1. fresh' = {} BY <1>3 DEF Written
  <2>2. /\ (request \in [Request -> {"idle", "deducting", "deducted", "calling", "accepted",
                                     "rejected", "reversing", "done"}])'
        /\ (fresh \subseteq InTransaction)'
        /\ request'[r] = "done"
        /\ \A q \in Request : q # r => request'[q] = request[q]
    BY <1>1, <2>1, RequestMoves
  <2>3. /\ z \in Row /\ z.by = r /\ z.referenced = FALSE /\ z.type = "deposit"
        /\ records' = records \cup {z}
    <3>1. Owner[r] \in Player OBVIOUS
    <3>2. z \in Row /\ z.by = r /\ z.referenced = FALSE /\ z.type = "deposit"
      BY <3>1 DEF Record, Row
    <3> QED BY <1>3, <3>2
  <2>4. /\ balance' \in [Player -> Int]
        /\ balance'[Owner[r]] = balance[Owner[r]] + Amount
        /\ \A q \in Player : q # Owner[r] => balance'[q] = balance[q]
    BY <1>3, AddFact DEF WalletTypeOK
  <2> HIDE DEF z
  <2>5. WalletTypeOK' BY <1>1, <2>2, <2>3, <2>4 DEF WalletTypeOK, Row
  <2>6. Funds'
    <3>1. \A q \in Player : balance'[q] >= 0 BY <2>4 DEF Funds, NoOverdraft, WalletTypeOK
    <3> QED BY <1>3, <3>1, FundsWritten
  <2>7. Rows'
    <3>1. \A x \in records : x.by = r => ~x.referenced
      BY <1>1 DEF Rows, RowOK, At
    <3>2. \A x \in records' : RowOK(x)'
      BY <2>2, <2>3 DEF Rows, RowOK, At
    <3>3. \A x, y \in records' : PairOK(x, y)
      <4> TAKE x, y \in records'
      <4>1. CASE x = z BY <2>3, <4>1 DEF PairOK
      <4>2. CASE x \in records /\ y = z BY <2>3, <3>1, <4>2 DEF PairOK
      <4>3. CASE x \in records /\ y \in records BY <4>3 DEF Rows
      <4> QED BY <2>3, <4>1, <4>2, <4>3
    <3>4. \A x, y : PairOK(x, y)' <=> PairOK(x, y) BY DEF PairOK
    <3> QED BY <3>2, <3>3, <3>4 DEF Rows
  <2>8. Deductions'
    <3>1. \A q \in Withdrawals : Owed(q)' => Owed(q) BY <1>1, <2>2 DEF Owed, At
    <3> QED BY <2>3, <3>1, DeductionsKept
  <2>9. Unasked' BY <1>1, <2>2 DEF Unasked
  <2>10. Callbacks' BY <1>1, CallbacksKept DEF DeliveryAt
  <2> QED BY <2>5, <2>6, <2>7, <2>8, <2>9, <2>10 DEF WalletInv
<1> QED BY <1>2, <1>3 DEF Reverse

\* What a provider makes of an order.
LEMMA ProviderKeeps ==
  ASSUME WalletInv, NEW r \in Request, ProviderStep(r)
  PROVE  WalletInv'
<1> USE InvParts, Actors
<1>1. /\ order[r] \in {"asked", "accepted"}
      /\ \E outcome \in {"accepted", "paid", "failed"} : order' = [order EXCEPT ![r] = outcome]
      /\ UNCHANGED <<money, fresh, method, request, delivery, bet, pot, crashes>>
  BY DEF ProviderStep
<1>2. /\ order' \in [Request -> {"none", "asked", "accepted", "paid", "failed"}]
      /\ \A q \in Request : q # r => order'[q] = order[q]
  BY <1>1 DEF WalletTypeOK
<1>3. (fresh \subseteq InTransaction)'
  BY <1>1 DEF WalletTypeOK, InTransaction, DeliveryAt, BetAt, PotAt
<1>4. WalletTypeOK' BY <1>1, <1>2, <1>3 DEF WalletTypeOK, money
<1>5. Funds' BY <1>1, FundsKept DEF At, BetAt, money
<1>6. Rows' BY <1>1, RowsKept DEF At, money
<1>7. Deductions'
  <2>1. \A q \in Withdrawals : Owed(q)' => Owed(q) BY <1>1, <1>2 DEF Owed, At
  <2> QED BY <1>1, <2>1, DeductionsKept DEF money
<1>8. Unasked' BY <1>1, <1>2 DEF Unasked
<1>9. Callbacks'
  <2>1. \A q \in Request : order[q] \in {"paid", "failed"} => order'[q] = order[q]
    BY <1>1, <1>2
  <2> QED BY <1>1, <2>1, CallbacksKept DEF DeliveryAt
<1> QED BY <1>4, <1>5, <1>6, <1>7, <1>8, <1>9 DEF WalletInv

-----------------------------------------------------------------------------
(* The callbacks.                                                          *)

\* A callback goes on without touching the money.
LEMMA QuietDelivery ==
  ASSUME WalletInv, NEW d \in Delivery, NEW stage \in {"settling", "closing", "done"},
         Proceed(d, stage), UNCHANGED <<money, ElsewhereThanDelivery>>,
         fresh' \subseteq fresh \cup {d}, d \in fresh' => stage = "settling",
         stage = "settling" => /\ order[d[1]] \in {"paid", "failed"}
                               /\ order[d[1]] = "failed" => d[1] \in Withdrawals
  PROVE  WalletInv'
<1> USE InvParts, Actors DEF ElsewhereThanDelivery, money
<1>1. /\ (delivery \in [Delivery -> {"none", "settling", "closing", "done"}])'
      /\ (fresh \subseteq InTransaction)'
      /\ delivery'[d] = stage
      /\ \A e \in Delivery : e # d => delivery'[e] = delivery[e]
  BY DeliveryMoves
<1>2. WalletTypeOK' BY <1>1 DEF WalletTypeOK
<1>3. Funds' BY DEF Funds, NoOverdraft, At, BetAt
<1>4. Rows' BY RowsKept DEF At
<1>5. Deductions' BY DeductionsKept DEF Owed, At
<1>6. Unasked' BY DEF Unasked
<1>7. Callbacks' BY <1>1 DEF Callbacks, DeliveryAt
<1> QED BY <1>2, <1>3, <1>4, <1>5, <1>6, <1>7 DEF WalletInv

\* A pending row is the only one that carries the reference of its request.
LEMMA PendingFact ==
  ASSUME WalletInv, NEW r \in Request, NEW x \in PendingRows(r)
  PROVE  /\ x \in records /\ x.by = r /\ x.referenced /\ x.status = "pending"
         /\ x \in Row /\ At(r, "done")
         /\ \/ r \in Deposits /\ x.type = "deposit"
            \/ r \in Withdrawals /\ x.type = "withdrawal" /\ x.amount = -Amount
         /\ \A y \in records : y.by = r /\ y.referenced => y = x
         /\ PendingRows(r) = {x} /\ SettledRows(r) = {}
<1> USE InvParts
<1>1. x \in records /\ x.by = r /\ x.referenced /\ x.status = "pending"
  BY DEF PendingRows
<1>2. x \in Row BY <1>1 DEF WalletTypeOK, Row
<1>3. RowOK(x) BY <1>1 DEF Rows
<1>4. \A y \in records : y.by = r /\ y.referenced => y = x
  BY <1>1 DEF Rows, PairOK
<1>5. PendingRows(r) = {x} BY <1>1, <1>4 DEF PendingRows
<1>6. SettledRows(r) = {} BY <1>1, <1>4 DEF SettledRows
<1> QED BY <1>1, <1>2, <1>3, <1>4, <1>5, <1>6 DEF RowOK

\* A failed order is settled by a transaction only if it was a withdrawal.
LEMMA ReceiveCallbackStep ==
  ASSUME WalletInv, NEW d \in Delivery, ReceiveCallback(d)
  PROVE  WalletInv'
<1> USE InvParts, Actors
<1> DEFINE r == d[1]
<1>1. /\ order[r] \in {"paid", "failed"} /\ delivery[d] = "none"
      /\ UNCHANGED <<money, ElsewhereThanDelivery>>
  BY DEF ReceiveCallback, CalledBack, DeliveryAt
<1>2. d \notin fresh BY <1>1, FreshFact DEF DeliveryAt
<1>3. CASE Settleable(r) = {}
  <2>1. Proceed(d, "closing") /\ UNCHANGED fresh BY <1>3 DEF ReceiveCallback
  <2> QED BY <1>1, <1>2, <2>1, QuietDelivery
<1>4. CASE Settleable(r) # {}
  <2>1. Proceed(d, "settling") /\ fresh' = fresh \cup {d}
    BY <1>4 DEF ReceiveCallback, ReadIn
  <2>2. ASSUME order[r] = "failed" PROVE r \in Withdrawals
    <3>1. PICK x \in PendingRows(r) : x.type = "withdrawal"
      BY <1>4, <2>2 DEF Settleable
    <3> QED BY <3>1, PendingFact
  <2> QED BY <1>1, <2>1, <2>2, QuietDelivery
<1> QED BY <1>3, <1>4

\* A credit or a refund settles the one row of its request, for the first time.
LEMMA SettleStep ==
  ASSUME WalletInv, NEW d \in Delivery, Settle(d)
  PROVE  /\ WalletInv'
         /\ balance' # balance => SettledRows(d[1]) = {}
         /\ \A e \in Delivery : e # d => delivery'[e] = delivery[e]
<1> USE InvParts, Actors
<1> DEFINE r == d[1]
<1>1. /\ DeliveryAt(d, "settling") /\ r \in Request
      /\ UNCHANGED ElsewhereThanDelivery
      /\ \E stage \in {"closing", "done"} : Proceed(d, stage)
  BY DEF Settle
<1>2. \A e \in Delivery : e # d => delivery'[e] = delivery[e]
  BY <1>1 DEF Proceed, WalletTypeOK
<1>3. CASE Busy(d)
  <2>1. d \notin fresh /\ UNCHANGED <<money, fresh>> BY <1>3 DEF Busy, SnapshotHolds
  <2>2. UNCHANGED balance BY <2>1 DEF money
  <2> QED BY <1>1, <1>2, <2>1, <2>2, QuietDelivery
<1>4. ASSUME NEW x \in PendingRows(r), Written,
             IF order[r] = "paid" THEN CompletePendingDeposit(r, x) ELSE RefundFailedWithdraw(x)
      PROVE  WalletInv' /\ SettledRows(r) = {}
  <2>1. fresh' = {} BY <1>4 DEF Written
  <2>2. /\ x \in records /\ x.by = r /\ x.referenced /\ x.status = "pending"
        /\ x \in Row /\ SettledRows(r) = {}
        /\ \/ r \in Deposits /\ x.type = "deposit"
           \/ r \in Withdrawals /\ x.type = "withdrawal" /\ x.amount = -Amount
    BY <1>1, PendingFact
  <2>3. x.player \in Player /\ x.amount \in Int BY <2>2 DEF Row
  <2>4. PICK y \in Row : /\ y.by = r /\ y.referenced /\ y.status # "pending"
                         /\ records' = (records \ {x}) \cup {y}
                         /\ Add(x.player, Amount)
    <3>1. CASE order[r] = "paid"
      <4> DEFINE y == Record(r, x.player, "deposit", Amount, TRUE, "completed")
      <4>1. Add(x.player, Amount) /\ records' = (records \ {x}) \cup {y}
        BY <1>4, <3>1 DEF CompletePendingDeposit, Replace
      <4>2. y \in Row /\ y.by = r /\ y.referenced /\ y.status = "completed"
        BY <1>1, <2>3 DEF Record, Row
      <4> QED BY <4>1, <4>2
    <3>2. CASE order[r] # "paid"
      <4> DEFINE y == [x EXCEPT !.status = "failed"]
      <4>1. order[r] = "failed" BY <1>1, <3>2 DEF Callbacks
      <4>2. r \in Withdrawals BY <1>1, <4>1 DEF Callbacks
      <4>3. -x.amount = Amount BY <2>2, <4>2
      <4>4. Add(x.player, Amount) /\ records' = (records \ {x}) \cup {y}
        BY <1>4, <3>2, <4>3 DEF RefundFailedWithdraw, Replace
      <4>5. y \in Row /\ y.by = r /\ y.referenced /\ y.status = "failed"
        BY <2>2 DEF Row
      <4> QED BY <4>4, <4>5
    <3> QED BY <3>1, <3>2
  <2>5. /\ (delivery \in [Delivery -> {"none", "settling", "closing", "done"}])'
        /\ (fresh \subseteq InTransaction)'
        /\ \A e \in Delivery : DeliveryAt(e, "settling")' => DeliveryAt(e, "settling")
    BY <1>1, <2>1, DeliveryMoves DEF ElsewhereThanDelivery, DeliveryAt
  <2>6. /\ balance' \in [Player -> Int]
        /\ \A p \in Player : balance'[p] >= balance[p]
    <3>1. balance \in [Player -> Int] BY DEF WalletTypeOK
    <3> QED BY <2>3, <2>4, <3>1, AddFact
  <2>7. WalletTypeOK'
    BY <1>1, <2>4, <2>5, <2>6 DEF WalletTypeOK, Row, ElsewhereThanDelivery
  <2>8. Funds'
    <3>1. \A p \in Player : balance'[p] >= 0
      BY <2>6 DEF Funds, NoOverdraft, WalletTypeOK
    <3> QED BY <1>4, <3>1, FundsWritten
  <2>9. Rows' BY <1>1, <2>4, RowReplaced DEF ElsewhereThanDelivery
  <2>10. Deductions'
    <3>1. \A q \in Withdrawals : Owed(q)' => Owed(q)
      BY <1>1 DEF Owed, At, ElsewhereThanDelivery
    <3> QED BY <2>2, <2>4, <3>1, DeductionsKept
  <2>11. Unasked' BY <1>1 DEF Unasked, ElsewhereThanDelivery
  <2>12. Callbacks' BY <1>1, <2>5, CallbacksKept DEF ElsewhereThanDelivery
  <2> QED BY <2>2, <2>7, <2>8, <2>9, <2>10, <2>11, <2>12 DEF WalletInv
<1> QED BY <1>2, <1>3, <1>4 DEF Settle

\* What is still pending is marked; the money stays where it is.
LEMMA CloseStep ==
  ASSUME WalletInv, NEW d \in Delivery, Close(d)
  PROVE  WalletInv'
<1> USE InvParts, Actors
<1> DEFINE r == d[1]
           closed == {Closed(r, x) : x \in PendingRows(r)}
<1>1. /\ delivery[d] = "closing" /\ Proceed(d, "done") /\ r \in Request
      /\ records' = (records \ PendingRows(r)) \cup closed
      /\ IF closed = PendingRows(r) THEN UNCHANGED fresh ELSE Written
      /\ UNCHANGED <<balance, ElsewhereThanDelivery>>
  BY DEF Close, DeliveryAt
<1>2. d \notin fresh BY <1>1, FreshFact DEF DeliveryAt
<1>3. CASE closed = PendingRows(r)
  <2>1. UNCHANGED fresh BY <1>1, <1>3
  <2>2. records' = records BY <1>1, <1>3 DEF PendingRows
  <2>3. UNCHANGED <<money, ElsewhereThanDelivery>> BY <1>1, <2>2 DEF money
  <2> QED BY <1>1, <1>2, <2>1, <2>3, QuietDelivery
<1>4. CASE closed # PendingRows(r)
  <2>1. PICK x \in PendingRows(r) : TRUE BY <1>4
  <2>2. /\ x \in records /\ x.by = r /\ x.referenced /\ x.status = "pending" /\ x \in Row
        /\ PendingRows(r) = {x}
    BY <1>1, <2>1, PendingFact
  <2> DEFINE y == Closed(r, x)
  <2>3. closed = {y} BY <2>2
  <2>4. y # x BY <1>4, <2>2, <2>3
  <2>5. y \in Row /\ y.by = r /\ y.referenced /\ y.status # "pending"
    <3>1. CASE order[r] = "failed" BY <2>2, <3>1 DEF Closed, Row
    <3>2. CASE order[r] # "failed"
      <4>1. y = [x EXCEPT !.status = "completed"] BY <2>4, <3>2 DEF Closed
      <4> HIDE DEF y
      <4> QED BY <2>2, <4>1 DEF Row
    <3> QED BY <3>1, <3>2
  <2>6. records' = (records \ {x}) \cup {y} BY <1>1, <2>2, <2>3
  <2> HIDE DEF y
  <2>7. Written /\ fresh' = {} BY <1>1, <1>4 DEF Written
  <2>8. /\ (delivery \in [Delivery -> {"none", "settling", "closing", "done"}])'
        /\ (fresh \subseteq InTransaction)'
        /\ \A e \in Delivery : DeliveryAt(e, "settling")' => DeliveryAt(e, "settling")
    BY <1>1, <2>7, DeliveryMoves DEF ElsewhereThanDelivery, DeliveryAt
  <2>9. WalletTypeOK'
    BY <1>1, <2>5, <2>6, <2>8 DEF WalletTypeOK, Row, ElsewhereThanDelivery
  <2>10. Funds' BY <1>1, <2>7, FundsWritten DEF Funds, NoOverdraft
  <2>11. Rows' BY <1>1, <2>1, <2>5, <2>6, RowReplaced DEF ElsewhereThanDelivery
  <2>12. Deductions'
    <3>1. \A q \in Withdrawals : Owed(q)' => Owed(q)
      BY <1>1 DEF Owed, At, ElsewhereThanDelivery
    <3> QED BY <2>2, <2>6, <3>1, DeductionsKept
  <2>13. Unasked' BY <1>1 DEF Unasked, ElsewhereThanDelivery
  <2>14. Callbacks' BY <1>1, <2>8, CallbacksKept DEF ElsewhereThanDelivery
  <2> QED BY <2>9, <2>10, <2>11, <2>12, <2>13, <2>14 DEF WalletInv
<1> QED BY <1>3, <1>4

-----------------------------------------------------------------------------
(* Bets and the pot.                                                       *)

\* The parts that bets and the pot do not touch.
LEMMA BetsElsewhere ==
  ASSUME WalletInv, UNCHANGED ElsewhereThanBet,
         \A x \in records : ~x.referenced => x \in records'
  PROVE  Deductions' /\ Unasked' /\ Callbacks'
<1> USE InvParts DEF ElsewhereThanBet
<1>1. Deductions' BY DeductionsKept DEF Owed, At
<1>2. Unasked' BY DEF Unasked
<1>3. Callbacks' BY DEF Callbacks, DeliveryAt
<1> QED BY <1>1, <1>2, <1>3

\* The balance that a bet has read covers the stake.
LEMMA StartLockBetStep ==
  ASSUME WalletInv, NEW p \in Player, StartLockBet(p)
  PROVE  WalletInv'
<1> USE InvParts, Actors DEF ElsewhereThanBet, money
<1>1. bet[p] \in {"none", "refused"} /\ UNCHANGED <<money, pot, ElsewhereThanBet>>
  BY DEF StartLockBet, BetAt
<1>2. PICK stage \in {"refused", "unpaid", "locking"} :
        /\ bet' = [bet EXCEPT ![p] = stage]
        /\ stage # "locking" => fresh' = fresh
        /\ stage = "locking" => fresh' = fresh \cup {p} /\ balance[p] >= Stake
  <2>1. CASE balance[p] < Stake BY <2>1 DEF StartLockBet, Turned
  <2>2. CASE ~(balance[p] < Stake)
    <3>1. balance[p] >= Stake BY <2>2 DEF WalletTypeOK
    <3> QED BY <2>2, <3>1 DEF StartLockBet, ReadIn
  <2> QED BY <2>1, <2>2
<1>3. p \notin fresh BY <1>1, FreshFact DEF BetAt
<1>4. /\ (bet \in [Player -> {"none", "locking", "locked", "refused", "unpaid"}])'
      /\ (fresh \subseteq InTransaction)'
      /\ bet'[p] = stage
      /\ \A q \in Player : q # p => bet'[q] = bet[q]
  BY <1>1, <1>2, <1>3, BetMoves
<1>5. WalletTypeOK' BY <1>1, <1>4 DEF WalletTypeOK
<1>6. Funds' BY <1>1, <1>2, <1>4 DEF Funds, NoOverdraft, At, BetAt
<1>7. Rows' BY <1>1, RowsKept DEF At
<1>8. Deductions' /\ Unasked' /\ Callbacks' BY <1>1, BetsElsewhere
<1> QED BY <1>5, <1>6, <1>7, <1>8 DEF WalletInv

\* What a bet locks was there when it was read, and nobody has written since.
LEMMA LockBetStep ==
  ASSUME WalletInv, NEW p \in Player, LockBet(p)
  PROVE  WalletInv'
<1> USE InvParts, Actors DEF ElsewhereThanBet, money
<1>1. BetAt(p, "locking") /\ UNCHANGED <<pot, ElsewhereThanBet>>
  BY DEF LockBet
<1>2. CASE Busy(p) /\ Turned(p)
  <2>1. p \notin fresh /\ UNCHANGED <<balance, records, fresh>>
    BY <1>2 DEF Busy, SnapshotHolds
  <2> PICK stage \in {"refused", "unpaid"} : bet' = [bet EXCEPT ![p] = stage]
    BY <1>2 DEF Turned
  <2>2. /\ (bet \in [Player -> {"none", "locking", "locked", "refused", "unpaid"}])'
        /\ (fresh \subseteq InTransaction)'
        /\ bet'[p] = stage
        /\ \A q \in Player : q # p => bet'[q] = bet[q]
    BY <1>1, <1>2, <2>1, BetMoves
  <2>3. WalletTypeOK' BY <1>1, <2>1, <2>2 DEF WalletTypeOK
  <2>4. Funds' BY <1>1, <2>1, <2>2 DEF Funds, NoOverdraft, At, BetAt
  <2>5. Rows' BY <1>1, <2>1, RowsKept DEF At
  <2>6. Deductions' /\ Unasked' /\ Callbacks' BY <1>1, <2>1, BetsElsewhere
  <2> QED BY <2>3, <2>4, <2>5, <2>6 DEF WalletInv
<1>3. CASE /\ SnapshotHolds(p) /\ Written /\ Add(p, -Stake)
           /\ records' = records \cup {Record(p, p, "bet_lock", -Stake, FALSE, "completed")}
           /\ bet' = [bet EXCEPT ![p] = "locked"]
  <2> DEFINE z == Record(p, p, "bet_lock", -Stake, FALSE, "completed")
  <2>1. p \in fresh /\ fresh' = {} BY <1>3 DEF SnapshotHolds, Written
  <2>2. /\ (bet \in [Player -> {"none", "locking", "locked", "refused", "unpaid"}])'
        /\ (fresh \subseteq InTransaction)'
    BY <1>1, <1>3, <2>1, BetMoves
  <2>3. /\ z \in Row /\ ~z.referenced /\ z.type # "deposit" /\ records' = records \cup {z}
    <3>1. -Stake \in Int OBVIOUS
    <3>2. z \in Row /\ z.referenced = FALSE /\ z.type = "bet_lock"
      BY <3>1 DEF Record, Row
    <3> QED BY <1>3, <3>2
  <2>4. /\ balance' \in [Player -> Int]
        /\ balance'[p] = balance[p] + (-Stake)
        /\ \A q \in Player : q # p => balance'[q] = balance[q]
    BY <1>3, AddFact DEF WalletTypeOK
  <2> HIDE DEF z
  <2>5. WalletTypeOK' BY <1>1, <2>2, <2>3, <2>4 DEF WalletTypeOK, Row
  <2>6. Funds'
    <3>1. balance[p] >= Stake BY <1>1, <2>1 DEF Funds
    <3>2. \A q \in Player : balance'[q] >= 0 BY <2>4, <3>1 DEF Funds, NoOverdraft, WalletTypeOK
    <3> QED BY <1>3, <3>2, FundsWritten
  <2>7. Rows' BY <1>1, <2>3, RowAdded DEF At
  <2>8. Deductions' /\ Unasked' /\ Callbacks' BY <1>1, <2>3, BetsElsewhere
  <2> QED BY <2>5, <2>6, <2>7, <2>8 DEF WalletInv
<1> QED BY <1>2, <1>3 DEF LockBet

\* The winner's share and the house's are no debts.
LEMMA Shares ==
  ASSUME NEW total \in Nat
  PROVE  Payout(total) \in Nat /\ total \div 5 \in Nat
  BY DEF Payout

\* A pot is a natural number, whoever is in the room.
LEMMA PotNat == Stake * Cardinality(InRoom) \in Nat /\ InRoom \subseteq Player
<1>1. InRoom \subseteq Player BY DEF InRoom, Locked
<1>2. IsFiniteSet(InRoom) BY <1>1, WalletAssumption, FS_Subset
<1>3. Cardinality(InRoom) \in Nat BY <1>2, FS_CardinalityType
<1> QED BY <1>1, <1>3, WalletAssumption

\* The pot is read and paid out, in a transaction of its own.
LEMMA SettlementStep ==
  ASSUME WalletInv, NEW s \in Settlements, StartSettlement(s) \/ FinishSettlement(s)
  PROVE  WalletInv'
<1> USE InvParts, Actors DEF ElsewhereThanBet, money
<1>1. UNCHANGED <<bet, ElsewhereThanBet>>
  BY DEF StartSettlement, FinishSettlement
<1>2. ASSUME UNCHANGED money,
             NEW stage \in {"settling", "lost"}, pot' = [pot EXCEPT ![s] = stage],
             \/ stage = "settling" /\ fresh' = fresh \cup {s}
             \/ stage = "lost" /\ fresh' = fresh /\ s \notin fresh
      PROVE  WalletInv'
  <2>1. /\ pot' \in [Settlements -> {"none", "settling", "settled", "lost"}]
        /\ pot'[s] = stage /\ \A g \in Settlements : g # s => pot'[g] = pot[g]
    BY <1>2 DEF WalletTypeOK
  <2>2. ASSUME NEW a \in fresh'
        PROVE  \/ a \in Request /\ request'[a] \in {"deducting", "reversing"}
               \/ a \in Delivery /\ DeliveryAt(a, "settling")'
               \/ a \in Player /\ BetAt(a, "locking")'
               \/ a \in Settlements /\ PotAt(a, "settling")'
    <3>1. CASE a = s BY <1>2, <2>1, <2>2, <3>1 DEF PotAt
    <3>2. CASE a # s
      <4>1. a \in fresh BY <1>2, <2>2, <3>2
      <4> QED BY <1>1, <2>1, <3>2, <4>1, FreshMembers DEF DeliveryAt, BetAt, PotAt
    <3> QED BY <3>1, <3>2
  <2>3. (fresh \subseteq InTransaction)' BY <2>2 DEF InTransaction
  <2>4. WalletTypeOK' BY <1>1, <1>2, <2>1, <2>3 DEF WalletTypeOK
  <2>5. Funds' BY <1>1, <1>2 DEF Funds, NoOverdraft, At, BetAt
  <2>6. Rows' BY <1>1, <1>2, RowsKept DEF At
  <2>7. Deductions' /\ Unasked' /\ Callbacks' BY <1>1, <1>2, BetsElsewhere
  <2> QED BY <2>4, <2>5, <2>6, <2>7 DEF WalletInv
<1>3. CASE StartSettlement(s)
  <2>1. /\ pot' = [pot EXCEPT ![s] = "settling"] /\ fresh' = fresh \cup {s}
        /\ UNCHANGED money
    BY <1>3 DEF StartSettlement, ReadIn
  <2> QED BY <1>2, <2>1
<1>4. CASE FinishSettlement(s) /\ Busy(s)
  <2>1. /\ pot' = [pot EXCEPT ![s] = "lost"] /\ fresh' = fresh /\ s \notin fresh
        /\ UNCHANGED money
    BY <1>4 DEF FinishSettlement, Busy, SnapshotHolds
  <2> QED BY <1>2, <2>1
<1>5. CASE FinishSettlement(s) /\ ~Busy(s)
  <2> DEFINE total == Stake * Cardinality(InRoom)
  <2>1. PICK w \in InRoom :
          SettleGame(s, w, total) /\ Written /\ pot' = [pot EXCEPT ![s] = "settled"]
    BY <1>5 DEF FinishSettlement
  <2>2. w \in Player BY PotNat
  <2>3. total \in Nat BY PotNat
  <2> HIDE DEF total
  <2> DEFINE win == Record(s, w, "bet_win", Payout(total), FALSE, "completed")
             fee == Record(s, w, "house_fee", total \div 5, FALSE, "completed")
  <2>4. Payout(total) \in Int /\ Payout(total) >= 0 /\ total \div 5 \in Int BY <2>3, Shares
  <2>5. win \in Row /\ fee \in Row
    BY <2>2, <2>4 DEF Record, Row
  <2>6. /\ win.referenced = FALSE /\ win.type = "bet_win"
        /\ fee.referenced = FALSE /\ fee.type = "house_fee"
    BY DEF Record
  <2>7. Add(w, Payout(total)) /\ records' = records \cup {win, fee} BY <2>1 DEF SettleGame
  <2> HIDE DEF win, fee
  <2>8. /\ balance' \in [Player -> Int]
        /\ \A q \in Player : balance'[q] >= balance[q]
    <3>1. balance \in [Player -> Int] BY DEF WalletTypeOK
    <3> QED BY <2>2, <2>4, <2>7, <3>1, AddFact
  <2>9. fresh' = {} BY <2>1 DEF Written
  <2>10. WalletTypeOK' BY <1>1, <2>1, <2>5, <2>7, <2>8, <2>9 DEF WalletTypeOK, Row
  <2>11. Funds'
    <3>1. \A q \in Player : balance'[q] >= 0 BY <2>8 DEF Funds, NoOverdraft, WalletTypeOK
    <3> QED BY <2>1, <3>1, FundsWritten
  <2>12. Rows'
    <3>1. \A x \in records' : RowOK(x)' BY <1>1, <2>6, <2>7 DEF Rows, RowOK, At
    <3>2. \A x, y \in records' : PairOK(x, y) BY <2>6, <2>7 DEF Rows, PairOK
    <3>3. \A x, y : PairOK(x, y)' <=> PairOK(x, y) BY DEF PairOK
    <3> QED BY <3>1, <3>2, <3>3 DEF Rows
  <2>13. Deductions' /\ Unasked' /\ Callbacks' BY <1>1, <2>7, BetsElsewhere
  <2> QED BY <2>10, <2>11, <2>12, <2>13 DEF WalletInv
<1> QED BY <1>3, <1>4, <1>5

-----------------------------------------------------------------------------
(* The invariant.                                                          *)

\* After a restart no transaction goes on, and no handler.
LEMMA CrashStep == WalletInv /\ Crash => WalletInv'
<1> SUFFICES ASSUME WalletInv, Crash PROVE WalletInv'
  OBVIOUS
<1> USE InvParts, Actors DEF money
<1>1. /\ crashes < MaxCrashes /\ crashes' = crashes + 1 /\ fresh' = {}
      /\ request' = [r \in Request |-> IF At(r, "idle") THEN "idle" ELSE "done"]
      /\ delivery' = [d \in Delivery |-> IF DeliveryAt(d, "none") THEN "none" ELSE "done"]
      /\ bet' = [p \in Player |-> IF BetAt(p, "locking") THEN "refused" ELSE bet[p]]
      /\ pot' = [s \in Settlements |-> IF PotAt(s, "settled") THEN "settled" ELSE "lost"]
      /\ UNCHANGED <<balance, records, method, order>>
  BY DEF Crash
<1>2. WalletTypeOK'
  <2>1. crashes' \in 0..MaxCrashes
    <3>1. crashes \in 0..MaxCrashes BY DEF WalletTypeOK
    <3> QED BY <1>1, <3>1, WalletAssumption
  <2>2. bet' \in [Player -> {"none", "locking", "locked", "refused", "unpaid"}]
    BY <1>1 DEF WalletTypeOK
  <2> QED BY <1>1, <2>1, <2>2 DEF WalletTypeOK
<1>3. Funds' BY <1>1 DEF Funds, NoOverdraft
<1>4. Rows' BY <1>1, RowsKept DEF At
<1>5. Deductions'
  <2>1. \A q \in Withdrawals : Owed(q)' => Owed(q) BY <1>1 DEF Owed, At
  <2> QED BY <1>1, <2>1, DeductionsKept
<1>6. Unasked' BY <1>1 DEF Unasked, At
<1>7. Callbacks' BY <1>1, CallbacksKept DEF DeliveryAt
<1> QED BY <1>2, <1>3, <1>4, <1>5, <1>6, <1>7 DEF WalletInv

\* In the beginning nothing has been asked for and nothing is recorded.
LEMMA WalletInit == Init => WalletInv
<1> SUFFICES ASSUME Init PROVE WalletInv
  OBVIOUS
<1> USE Actors, WalletAssumption DEF Init
<1>1. WalletTypeOK BY DEF WalletTypeOK
<1>2. Funds BY DEF Funds, NoOverdraft
<1>3. Rows BY DEF Rows
<1>4. Deductions BY DEF Deductions, Owed, At
<1>5. Unasked BY DEF Unasked
<1>6. Callbacks BY DEF Callbacks, DeliveryAt
<1> QED BY <1>1, <1>2, <1>3, <1>4, <1>5, <1>6 DEF WalletInv

\* Every step keeps the invariant.
LEMMA WalletNext == WalletInv /\ [Next]_vars => WalletInv'
<1> SUFFICES ASSUME WalletInv, [Next]_vars PROVE WalletInv'
  OBVIOUS
<1>1. CASE UNCHANGED vars
  <2>1. UNCHANGED <<balance, records, fresh, method, request, order, delivery, bet, pot, crashes>>
    BY <1>1 DEF vars, money
  <2> QED BY <2>1, InvParts DEF WalletInv, WalletTypeOK, Funds, NoOverdraft, Rows, RowOK, PairOK, Deductions,
                     Deducted, Owed, Unasked, Callbacks, At, BetAt, DeliveryAt, PotAt, InTransaction
<1>2. ASSUME NEW r \in Request, RequestStep(r) PROVE WalletInv'
  BY <1>2, StartDepositStep, StartWithdrawalStep, DeductStep, AskForPayoutStep, CallStep,
     CreatePendingStep, StartReversalStep, ReverseStep
  DEF RequestStep
<1>3. ASSUME NEW r \in Request, ProviderStep(r) PROVE WalletInv'
  BY <1>3, ProviderKeeps
<1>4. ASSUME NEW d \in Delivery, DeliveryStep(d) PROVE WalletInv'
  BY <1>4, ReceiveCallbackStep, SettleStep, CloseStep DEF DeliveryStep
<1>5. CASE BetStep
  BY <1>5, StartLockBetStep, LockBetStep, SettlementStep DEF BetStep
<1>6. CASE Crash
  BY <1>6, CrashStep
<1> QED BY <1>1, <1>2, <1>3, <1>4, <1>5, <1>6 DEF Next

\* The invariant of the wallet.
LEMMA WalletInvariant == Spec => []WalletInv
  BY WalletInit, WalletNext, PTL DEF Spec

-----------------------------------------------------------------------------
(* What a set of rows sums up to.  The sum is defined by picking row after *)
(* row; it is the same whichever row is picked first.                      *)

Sum(S) == MapThenSumSet(Entered, S)
Pick(S) == CHOOSE x \in S : TRUE
IsSum(g, S) ==
  g = [s \in SUBSET S |-> IF s = {} THEN 0 ELSE Entered(Pick(s)) + g[s \ {Pick(s)}]]

\* The sum of the community modules, spelled out.
LEMMA SumDefinition ==
  ASSUME NEW S
  PROVE  Sum(S) = (CHOOSE g : IsSum(g, S))[S]
  BY DEF Sum, MapThenSumSet, MapThenFoldSet, IsSum, Pick

NatLess == {ss \in Nat \X Nat : ss[1] < ss[2]}

\* A nonempty set of naturals has a smallest element: the proofs about sums
\* look at the smallest set of which they would be wrong.
LEMMA SmallestNat ==
  ASSUME NEW S \in SUBSET Nat, S # {}
  PROVE  \E k \in S : \A j \in S : k <= j
<1>1. IsWellFoundedOn(NatLess, Nat)
  BY NatLessThanWellFounded DEF OpToRel, NatLess
<1>2. PICK k \in S : \A j \in S : ~(<<j, k>> \in NatLess)
  BY <1>1, WFMin
<1>3. \A j \in S : ~(j < k)
  BY <1>2 DEF NatLess
<1> QED BY <1>3

\* One element less.
LEMMA OneLess ==
  ASSUME NEW S, IsFiniteSet(S), NEW x \in S
  PROVE  /\ IsFiniteSet(S \ {x})
         /\ Cardinality(S) \in Nat /\ Cardinality(S \ {x}) \in Nat
         /\ Cardinality(S \ {x}) < Cardinality(S)
<1>1. IsFiniteSet(S \ {x}) /\ Cardinality(S \ {x}) = Cardinality(S) - 1
  BY FS_RemoveElement
<1>2. Cardinality(S) \in Nat /\ Cardinality(S \ {x}) \in Nat
  BY <1>1, FS_CardinalityType
<1> QED BY <1>1, <1>2

\* Any two functions that sum up agree on the sets they have in common.
LEMMA SumUnique ==
  ASSUME NEW S, NEW T, NEW g, NEW h, IsSum(g, S), IsSum(h, T),
         NEW s, s \subseteq S, s \subseteq T, IsFiniteSet(s)
  PROVE  g[s] = h[s]
<1> SUFFICES ASSUME g[s] # h[s] PROVE FALSE
  OBVIOUS
<1> DEFINE bad == {n \in Nat : \E u \in SUBSET s : Cardinality(u) = n /\ g[u] # h[u]}
<1>1. \A u \in SUBSET s : IsFiniteSet(u) /\ Cardinality(u) \in Nat
  BY FS_Subset, FS_CardinalityType
<1>2. bad # {} /\ bad \in SUBSET Nat BY <1>1
<1>3. PICK n \in bad : \A j \in bad : n <= j
  <2> HIDE DEF bad
  <2> QED BY <1>2, SmallestNat
<1>4. PICK u \in SUBSET s : Cardinality(u) = n /\ g[u] # h[u] BY <1>3
<1>5. CASE u = {} BY <1>4, <1>5 DEF IsSum
<1>6. CASE u # {}
  <2> DEFINE x == Pick(u)
             v == u \ {x}
  <2>1. x \in u BY <1>6 DEF Pick
  <2>2. Cardinality(v) \in Nat /\ Cardinality(v) < n /\ v \in SUBSET s
    BY <1>1, <1>4, <2>1, OneLess
  <2>3. g[v] = h[v] BY <1>3, <2>2
  <2>4. g[u] = Entered(x) + g[v]
    <3>1. u \in SUBSET S OBVIOUS
    <3> QED BY <1>6, <3>1 DEF IsSum
  <2>5. h[u] = Entered(x) + h[v]
    <3>1. u \in SUBSET T OBVIOUS
    <3> QED BY <1>6, <3>1 DEF IsSum
  <2> QED BY <1>4, <2>3, <2>4, <2>5
<1> QED BY <1>5, <1>6

\* There is one for every finite set.
LEMMA SumExists ==
  ASSUME NEW S, IsFiniteSet(S)
  PROVE  \E g : IsSum(g, S)
<1> SUFFICES ASSUME ~ \E g : IsSum(g, S) PROVE FALSE
  OBVIOUS
<1> DEFINE bad == {n \in Nat : \E u \in SUBSET S : Cardinality(u) = n /\ ~ \E g : IsSum(g, u)}
<1>1. \A u \in SUBSET S : IsFiniteSet(u) /\ Cardinality(u) \in Nat
  BY FS_Subset, FS_CardinalityType
<1>2. bad # {} /\ bad \in SUBSET Nat BY <1>1
<1>3. PICK n \in bad : \A j \in bad : n <= j
  <2> HIDE DEF bad
  <2> QED BY <1>2, SmallestNat
<1>4. PICK u \in SUBSET S : Cardinality(u) = n /\ ~ \E g : IsSum(g, u) BY <1>3
<1> DEFINE sums(w) == CHOOSE h : IsSum(h, w)
           G == [s \in SUBSET u |->
                   IF s = {} THEN 0 ELSE Entered(Pick(s)) + sums(s \ {Pick(s)})[s \ {Pick(s)}]]
<1>5. \A w \in SUBSET u : w # u => IsSum(sums(w), w)
  <2> SUFFICES ASSUME NEW w \in SUBSET u, w # u PROVE \E h : IsSum(h, w)
    OBVIOUS
  <2>1. PICK x \in u : x \notin w OBVIOUS
  <2>2. Cardinality(u \ {x}) < n BY <1>1, <1>4, OneLess
  <2>3. Cardinality(w) \in Nat /\ Cardinality(u \ {x}) \in Nat /\ Cardinality(w) <= Cardinality(u \ {x})
    BY <1>1, <2>1, FS_Subset
  <2>4. Cardinality(w) \notin bad /\ w \in SUBSET S
    <3>1. n \in Nat OBVIOUS
    <3> HIDE DEF bad
    <3> QED BY <1>3, <2>2, <2>3, <3>1
  <2> QED BY <2>3, <2>4
<1> HIDE DEF sums
<1>6. \A w \in SUBSET u : w # u => G[w] = sums(w)[w]
  <2> SUFFICES ASSUME NEW w \in SUBSET u, w # u PROVE G[w] = sums(w)[w]
    OBVIOUS
  <2>1. IsSum(sums(w), w) BY <1>5
  <2>2. CASE w = {} BY <2>1, <2>2 DEF IsSum
  <2>3. CASE w # {}
    <3> DEFINE x == Pick(w)
               v == w \ {x}
    <3>1. x \in w BY <2>3 DEF Pick
    <3>2. IsSum(sums(v), v) /\ IsFiniteSet(v) /\ v \subseteq w
      <4>1. v \in SUBSET u /\ v # u BY <3>1
      <4> QED BY <1>1, <1>5, <4>1
    <3>3. sums(w)[v] = sums(v)[v] BY <2>1, <3>2, SumUnique
    <3>4. sums(w)[w] = Entered(x) + sums(w)[v] BY <2>1, <2>3 DEF IsSum
    <3> QED BY <2>3, <3>3, <3>4
  <2> QED BY <2>2, <2>3
<1>7. IsSum(G, u)
  <2>1. \A s \in SUBSET u : s # {} => G[s \ {Pick(s)}] = sums(s \ {Pick(s)})[s \ {Pick(s)}]
    <3> SUFFICES ASSUME NEW s \in SUBSET u, s # {}
                 PROVE  G[s \ {Pick(s)}] = sums(s \ {Pick(s)})[s \ {Pick(s)}]
      OBVIOUS
    <3>1. Pick(s) \in s BY DEF Pick
    <3>2. s \ {Pick(s)} \in SUBSET u /\ s \ {Pick(s)} # u BY <3>1
    <3> HIDE DEF G
    <3> QED BY <1>6, <3>2
  <2>2. G = [s \in SUBSET u |-> IF s = {} THEN 0 ELSE Entered(Pick(s)) + G[s \ {Pick(s)}]]
    <3> DEFINE H == [s \in SUBSET u |-> IF s = {} THEN 0 ELSE Entered(Pick(s)) + G[s \ {Pick(s)}]]
    <3>1. \A s \in SUBSET u : G[s] = H[s]
      <4> SUFFICES ASSUME NEW s \in SUBSET u PROVE G[s] = H[s]
        OBVIOUS
      <4>1. CASE s = {} BY <4>1
      <4>2. CASE s # {}
        <5>1. G[s] = Entered(Pick(s)) + sums(s \ {Pick(s)})[s \ {Pick(s)}] BY <4>2
        <5>2. G[s \ {Pick(s)}] = sums(s \ {Pick(s)})[s \ {Pick(s)}] BY <2>1, <4>2
        <5> HIDE DEF G
        <5> QED BY <4>2, <5>1, <5>2
      <4> QED BY <4>1, <4>2
    <3>2. G = [s \in SUBSET u |-> G[s]] OBVIOUS
    <3>3. H = [s \in SUBSET u |-> H[s]] OBVIOUS
    <3>4. [s \in SUBSET u |-> G[s]] = [s \in SUBSET u |-> H[s]]
      <4> HIDE DEF G, H
      <4> QED BY <3>1
    <3>5. G = H
      <4> HIDE DEF G, H
      <4> QED BY <3>2, <3>3, <3>4
    <3> HIDE DEF G
    <3> QED BY <3>5
  <2> HIDE DEF G
  <2> QED BY <2>2 DEF IsSum
<1> QED BY <1>4, <1>7

\* The sum, picked apart.
LEMMA SumSteps ==
  ASSUME NEW S, IsFiniteSet(S)
  PROVE  Sum(S) = IF S = {} THEN 0 ELSE Entered(Pick(S)) + Sum(S \ {Pick(S)})
<1> DEFINE g == CHOOSE g : IsSum(g, S)
           v == S \ {Pick(S)}
           h == CHOOSE h : IsSum(h, v)
<1>1. IsSum(g, S) BY SumExists
<1>2. CASE S = {}
  <2>1. g[S] = 0 BY <1>1, <1>2 DEF IsSum
  <2> QED BY <1>2, <2>1, SumDefinition
<1>3. CASE S # {}
  <2>1. IsFiniteSet(v) /\ v \subseteq S BY FS_Subset
  <2>2. IsSum(h, v) BY <2>1, SumExists
  <2>3. g[v] = h[v] BY <1>1, <2>1, <2>2, SumUnique
  <2>4. g[S] = Entered(Pick(S)) + g[v] BY <1>1, <1>3 DEF IsSum
  <2>5. Sum(S) = g[S] /\ Sum(v) = h[v] BY SumDefinition
  <2> HIDE DEF g, h
  <2> QED BY <1>3, <2>3, <2>4, <2>5
<1> QED BY <1>2, <1>3

\* What a row tells of is an integer ..
LEMMA EnteredInt ==
  ASSUME NEW x \in Row
  PROVE  Entered(x) \in Int
  BY DEF Row, Entered

\* .. and so is what a set of rows sums up to.
LEMMA SumInt ==
  ASSUME NEW S, IsFiniteSet(S), S \subseteq Row
  PROVE  Sum(S) \in Int
<1> SUFFICES ASSUME Sum(S) \notin Int PROVE FALSE
  OBVIOUS
<1> DEFINE bad == {n \in Nat : \E u \in SUBSET S : Cardinality(u) = n /\ Sum(u) \notin Int}
<1>1. \A u \in SUBSET S : IsFiniteSet(u) /\ Cardinality(u) \in Nat
  BY FS_Subset, FS_CardinalityType
<1>2. bad # {} /\ bad \in SUBSET Nat BY <1>1
<1>3. PICK n \in bad : \A j \in bad : n <= j
  <2> HIDE DEF bad
  <2> QED BY <1>2, SmallestNat
<1>4. PICK u \in SUBSET S : Cardinality(u) = n /\ Sum(u) \notin Int BY <1>3
<1>5. Sum(u) = IF u = {} THEN 0 ELSE Entered(Pick(u)) + Sum(u \ {Pick(u)}) BY <1>1, SumSteps
<1>6. u # {} BY <1>4, <1>5
<1> DEFINE v == u \ {Pick(u)}
<1>7. Pick(u) \in u BY <1>6 DEF Pick
<1>8. Cardinality(v) \in Nat /\ Cardinality(v) < n /\ v \in SUBSET S BY <1>1, <1>4, <1>7, OneLess
<1>9. Sum(v) \in Int BY <1>3, <1>8
<1>10. Entered(Pick(u)) \in Int BY <1>7, EnteredInt
<1> QED BY <1>4, <1>5, <1>6, <1>9, <1>10

\* Any row may be picked first.
LEMMA SumWith ==
  ASSUME NEW S, IsFiniteSet(S), S \subseteq Row, NEW x \in S
  PROVE  Sum(S) = Entered(x) + Sum(S \ {x})
<1> SUFFICES ASSUME Sum(S) # Entered(x) + Sum(S \ {x}) PROVE FALSE
  OBVIOUS
<1> DEFINE wrong(u) == \E y \in u : Sum(u) # Entered(y) + Sum(u \ {y})
           bad == {n \in Nat : \E u \in SUBSET S : Cardinality(u) = n /\ wrong(u)}
<1>1. \A u \in SUBSET S : IsFiniteSet(u) /\ Cardinality(u) \in Nat /\ Sum(u) \in Int
  BY FS_Subset, FS_CardinalityType, SumInt
<1>2. bad # {} /\ bad \in SUBSET Nat BY <1>1
<1>3. PICK n \in bad : \A j \in bad : n <= j
  <2> HIDE DEF bad
  <2> QED BY <1>2, SmallestNat
<1>4. PICK u \in SUBSET S : Cardinality(u) = n /\ wrong(u) BY <1>3
<1>5. PICK y \in u : Sum(u) # Entered(y) + Sum(u \ {y}) BY <1>4
<1> DEFINE z == Pick(u)
<1>6. z \in u BY DEF Pick
<1>7. Sum(u) = Entered(z) + Sum(u \ {z}) BY <1>1, <1>6, SumSteps
<1>8. y # z BY <1>5, <1>7
<1>9. \A a \in u : \A b \in u \ {a} : Sum(u \ {a}) = Entered(b) + Sum((u \ {a}) \ {b})
  <2> SUFFICES ASSUME NEW a \in u, NEW b \in u \ {a}
               PROVE  Sum(u \ {a}) = Entered(b) + Sum((u \ {a}) \ {b})
    OBVIOUS
  <2>1. Cardinality(u \ {a}) \in Nat /\ Cardinality(u \ {a}) < n /\ u \ {a} \in SUBSET S
    BY <1>1, <1>4, OneLess
  <2>2. ~wrong(u \ {a}) BY <1>3, <2>1
  <2> QED BY <2>2
<1>10. Sum(u \ {z}) = Entered(y) + Sum((u \ {z}) \ {y}) BY <1>6, <1>8, <1>9
<1>11. Sum(u \ {y}) = Entered(z) + Sum((u \ {y}) \ {z}) BY <1>6, <1>8, <1>9
<1>12. (u \ {z}) \ {y} = (u \ {y}) \ {z} OBVIOUS
<1>13. Entered(y) \in Int /\ Entered(z) \in Int /\ Sum((u \ {z}) \ {y}) \in Int
  BY <1>1, <1>6, EnteredInt
<1>14. PICK rest \in Int : Sum(u \ {y}) = Entered(z) + rest /\ Sum(u \ {z}) = Entered(y) + rest
  BY <1>10, <1>11, <1>12, <1>13
<1>15. Sum(u) = Entered(z) + (Entered(y) + rest) BY <1>7, <1>14
<1>16. Sum(u) # Entered(y) + (Entered(z) + rest) BY <1>5, <1>14
<1> QED BY <1>13, <1>15, <1>16

-----------------------------------------------------------------------------
(* What the rows say about the balances.                                   *)

\* A row more.
LEMMA SumAdd ==
  ASSUME NEW S, IsFiniteSet(S), S \subseteq Row, NEW z \in Row, z \notin S \/ Entered(z) = 0
  PROVE  Sum(S \cup {z}) = Sum(S) + Entered(z)
<1>1. Sum(S) \in Int /\ Entered(z) \in Int BY SumInt, EnteredInt
<1>2. CASE z \in S
  <2>1. S \cup {z} = S BY <1>2
  <2>2. Entered(z) = 0 BY <1>2
  <2>3. Sum(S) + 0 = Sum(S) BY <1>1
  <2> QED BY <2>1, <2>2, <2>3
<1>3. CASE z \notin S
  <2> DEFINE T == S \cup {z}
  <2>1. IsFiniteSet(T) /\ T \subseteq Row /\ z \in T /\ T \ {z} = S BY <1>3, FS_AddElement
  <2>2. Sum(T) = Entered(z) + Sum(T \ {z})
    <3> HIDE DEF T
    <3> QED BY <2>1, SumWith
  <2> QED BY <1>1, <2>1, <2>2
<1> QED BY <1>2, <1>3

RowsOf(p, R)   == {x \in R : x.player = p}
FailedOf(p, R) == {x \in RowsOf(p, R) : x.type = "withdrawal" /\ x.referenced /\ x.status = "failed"}
Explains(p, b, R) ==
  \E refunded \in SUBSET FailedOf(p, R) :
    b = Opening + Sum(RowsOf(p, R)) + Amount * Cardinality(refunded)

\* The property, in these words.
LEMMA ExplainedIs == RecordsExplainBalance <=> \A p \in Player : Explains(p, balance[p], records)
  BY DEF RecordsExplainBalance, Explains, Sum, FailedOf, RowsOf

\* The rows of a wallet sum up to an integer, and so do the refunds.
LEMMA ExplainedInt ==
  ASSUME NEW p \in Player, NEW R, IsFiniteSet(R), R \subseteq Row
  PROVE  /\ IsFiniteSet(RowsOf(p, R)) /\ RowsOf(p, R) \subseteq Row /\ Sum(RowsOf(p, R)) \in Int
         /\ \A S \in SUBSET FailedOf(p, R) : IsFiniteSet(S) /\ Amount * Cardinality(S) \in Int
<1>1. IsFiniteSet(RowsOf(p, R)) /\ RowsOf(p, R) \subseteq Row BY FS_Subset DEF RowsOf
<1>2. \A S \in SUBSET FailedOf(p, R) : IsFiniteSet(S) BY <1>1, FS_Subset DEF FailedOf
<1>3. \A S \in SUBSET FailedOf(p, R) : Cardinality(S) \in Int BY <1>2, FS_CardinalityType
<1> QED BY <1>1, <1>2, <1>3, SumInt, WalletAssumption

\* A new row that tells of what has been added to the balance.
LEMMA ExplainedAdd ==
  ASSUME NEW R, IsFiniteSet(R), R \subseteq Row, NEW z \in Row, z \notin R \/ Entered(z) = 0,
         NEW p \in Player, NEW b, Explains(p, b, R)
  PROVE  Explains(p, b + (IF z.player = p THEN Entered(z) ELSE 0), R \cup {z})
<1> DEFINE Z == R \cup {z}
<1>1. PICK refunded \in SUBSET FailedOf(p, R) :
        b = Opening + Sum(RowsOf(p, R)) + Amount * Cardinality(refunded)
  BY DEF Explains
<1>2. refunded \in SUBSET FailedOf(p, Z) BY DEF FailedOf, RowsOf
<1>3. Sum(RowsOf(p, R)) \in Int /\ Amount * Cardinality(refunded) \in Int /\ Entered(z) \in Int
  BY ExplainedInt, EnteredInt
<1>4. Opening \in Int BY WalletAssumption
<1>5. CASE z.player = p
  <2>1. RowsOf(p, Z) = RowsOf(p, R) \cup {z} BY <1>5 DEF RowsOf
  <2>2. Sum(RowsOf(p, Z)) = Sum(RowsOf(p, R)) + Entered(z)
    <3>1. z \notin RowsOf(p, R) \/ Entered(z) = 0 BY DEF RowsOf
    <3> QED BY <2>1, <3>1, ExplainedInt, SumAdd
  <2>3. b + Entered(z) = Opening + Sum(RowsOf(p, Z)) + Amount * Cardinality(refunded)
    BY <1>1, <1>3, <1>4, <2>2
  <2> HIDE DEF Z
  <2>4. Explains(p, b + Entered(z), Z) BY <1>2, <2>3 DEF Explains
  <2> QED BY <1>5, <2>4 DEF Z
<1>6. CASE z.player # p
  <2>1. RowsOf(p, Z) = RowsOf(p, R) BY <1>6 DEF RowsOf
  <2>2. b + 0 = Opening + Sum(RowsOf(p, Z)) + Amount * Cardinality(refunded)
    BY <1>1, <1>3, <1>4, <2>1
  <2> HIDE DEF Z
  <2>3. Explains(p, b + 0, Z) BY <1>2, <2>2 DEF Explains
  <2> QED BY <1>6, <2>3 DEF Z
<1> QED BY <1>5, <1>6

\* A row that tells nothing goes.
LEMMA ExplainedRemove ==
  ASSUME NEW R, IsFiniteSet(R), R \subseteq Row, NEW x \in R, Entered(x) = 0, x.status # "failed",
         NEW p \in Player, NEW b, Explains(p, b, R)
  PROVE  Explains(p, b, R \ {x})
<1> DEFINE Z == R \ {x}
<1>1. PICK refunded \in SUBSET FailedOf(p, R) :
        b = Opening + Sum(RowsOf(p, R)) + Amount * Cardinality(refunded)
  BY DEF Explains
<1>2. refunded \in SUBSET FailedOf(p, Z) BY DEF FailedOf, RowsOf
<1>3. Sum(RowsOf(p, Z)) = Sum(RowsOf(p, R))
  <2>1. IsFiniteSet(Z) /\ Z \subseteq Row BY FS_Subset
  <2>2. CASE x.player = p
    <3>1. x \in RowsOf(p, R) /\ RowsOf(p, R) \ {x} = RowsOf(p, Z) BY <2>2 DEF RowsOf
    <3>2. Sum(RowsOf(p, R)) = Entered(x) + Sum(RowsOf(p, Z)) BY <3>1, ExplainedInt, SumWith
    <3>3. Sum(RowsOf(p, Z)) \in Int
      <4> HIDE DEF Z
      <4> QED BY <2>1, ExplainedInt
    <3> QED BY <3>2, <3>3
  <2>3. CASE x.player # p
    <3>1. RowsOf(p, R) = RowsOf(p, Z) BY <2>3 DEF RowsOf
    <3> QED BY <3>1
  <2> QED BY <2>2, <2>3
<1> HIDE DEF Z
<1>4. Explains(p, b, Z) BY <1>1, <1>2, <1>3 DEF Explains
<1> QED BY <1>4 DEF Z

\* A withdrawal that has failed, and is refunded.
LEMMA ExplainedRefund ==
  ASSUME NEW R, IsFiniteSet(R), R \subseteq Row, NEW y \in Row, y \notin R,
         y.type = "withdrawal", y.referenced, y.status = "failed",
         NEW p \in Player, y.player = p, NEW b, Explains(p, b, R)
  PROVE  Explains(p, b + Amount, R \cup {y})
<1> DEFINE Z == R \cup {y}
<1>1. PICK refunded \in SUBSET FailedOf(p, R) :
        b = Opening + Sum(RowsOf(p, R)) + Amount * Cardinality(refunded)
  BY DEF Explains
<1>2. refunded \cup {y} \in SUBSET FailedOf(p, Z) BY DEF FailedOf, RowsOf
<1>3. y \notin refunded BY DEF FailedOf, RowsOf
<1>4. Cardinality(refunded \cup {y}) = Cardinality(refunded) + 1
  <2>1. IsFiniteSet(refunded) BY ExplainedInt
  <2> QED BY <1>3, <2>1, FS_AddElement
<1>5. Entered(y) = 0 BY DEF Entered
<1>6. Sum(RowsOf(p, Z)) = Sum(RowsOf(p, R))
  <2>1. RowsOf(p, Z) = RowsOf(p, R) \cup {y} BY DEF RowsOf
  <2>2. Sum(RowsOf(p, Z)) = Sum(RowsOf(p, R)) + 0 BY <1>5, <2>1, ExplainedInt, SumAdd
  <2> QED BY <2>2, ExplainedInt
<1>7. b + Amount = Opening + Sum(RowsOf(p, Z)) + Amount * Cardinality(refunded \cup {y})
  <2>1. Cardinality(refunded) \in Int /\ Sum(RowsOf(p, R)) \in Int
    <3>1. IsFiniteSet(refunded) /\ Sum(RowsOf(p, R)) \in Int BY ExplainedInt
    <3>2. Cardinality(refunded) \in Nat BY <3>1, FS_CardinalityType
    <3> QED BY <3>1, <3>2
  <2>2. Amount * (Cardinality(refunded) + 1) = Amount * Cardinality(refunded) + Amount
    BY <2>1, WalletAssumption
  <2>3. Amount * Cardinality(refunded) \in Int BY ExplainedInt
  <2> QED BY <1>1, <1>4, <1>6, <2>1, <2>2, <2>3, WalletAssumption
<1> HIDE DEF Z
<1>8. Explains(p, b + Amount, Z) BY <1>2, <1>7 DEF Explains
<1> QED BY <1>8 DEF Z

\* A row is written by somebody who has come so far, and who does not write
\* the same row again.
WriterOK(x) ==
  /\ x.by \in Request => request[x.by] \notin {"idle", "deducting"}
  /\ x.by \in Player => BetAt(x.by, "locked")
  /\ x.by \in Settlements => PotAt(x.by, "settled")
Writers == \A x \in records : WriterOK(x)

Ledger == IsFiniteSet(records) /\ Writers /\ RecordsExplainBalance

\* Steps that leave the money alone.
LEMMA LedgerKept ==
  ASSUME Ledger, UNCHANGED money,
         \A r \in Request : request'[r] \in {"idle", "deducting"} => request[r] \in {"idle", "deducting"},
         \A p \in Player : BetAt(p, "locked") => BetAt(p, "locked")',
         \A s \in Settlements : PotAt(s, "settled") => PotAt(s, "settled")'
  PROVE  Ledger'
<1>1. balance' = balance /\ records' = records BY DEF money
<1>2. RecordsExplainBalance' BY <1>1 DEF Ledger, RecordsExplainBalance
<1>3. Writers' BY <1>1 DEF Ledger, Writers, WriterOK
<1> QED BY <1>1, <1>2, <1>3 DEF Ledger

\* Steps that write one row, and move what it tells of.
LEMMA LedgerAdd ==
  ASSUME Ledger, WalletTypeOK, NEW z \in Row, z \notin records \/ Entered(z) = 0,
         records' = records \cup {z}, Writers',
         \A p \in Player : balance'[p] = balance[p] + (IF z.player = p THEN Entered(z) ELSE 0)
  PROVE  Ledger'
<1>1. IsFiniteSet(records) /\ records \subseteq Row BY DEF Ledger, WalletTypeOK, Row
<1>2. \A p \in Player : Explains(p, balance[p], records) BY ExplainedIs DEF Ledger
<1>3. \A p \in Player : Explains(p, balance'[p], records')
  <2> SUFFICES ASSUME NEW p \in Player PROVE Explains(p, balance'[p], records')
    OBVIOUS
  <2>1. Explains(p, balance[p], records) BY <1>2
  <2>2. Explains(p, balance[p] + (IF z.player = p THEN Entered(z) ELSE 0), records \cup {z})
    BY <1>1, <2>1, ExplainedAdd
  <2>3. balance'[p] = balance[p] + (IF z.player = p THEN Entered(z) ELSE 0) OBVIOUS
  <2> QED BY <2>2, <2>3
<1>4. RecordsExplainBalance'
  BY <1>3 DEF RecordsExplainBalance, Explains, Sum, FailedOf, RowsOf
<1>5. IsFiniteSet(records') BY <1>1, FS_AddElement
<1> QED BY <1>4, <1>5 DEF Ledger

\* Steps that put a row in the place of a pending one, which told nothing.
LEMMA LedgerReplace ==
  ASSUME Ledger, WalletTypeOK, NEW x \in records, Entered(x) = 0, x.status = "pending",
         NEW y \in Row, y \notin records, y.player = x.player,
         records' = (records \ {x}) \cup {y}, Writers',
         \/ \A p \in Player : balance'[p] = balance[p] + (IF y.player = p THEN Entered(y) ELSE 0)
         \/ /\ y.type = "withdrawal" /\ y.referenced /\ y.status = "failed"
            /\ \A p \in Player : balance'[p] = balance[p] + (IF y.player = p THEN Amount ELSE 0)
  PROVE  Ledger'
<1> DEFINE R == records \ {x}
<1>1. IsFiniteSet(records) /\ records \subseteq Row BY DEF Ledger, WalletTypeOK, Row
<1>2. IsFiniteSet(R) /\ R \subseteq Row /\ y \notin R /\ records' = R \cup {y} BY <1>1, FS_Subset
<1>3. \A p \in Player : Explains(p, balance[p], R)
  BY <1>1, ExplainedIs, ExplainedRemove DEF Ledger
<1> HIDE DEF R
<1>4. \A p \in Player : Explains(p, balance'[p], R \cup {y})
  <2> SUFFICES ASSUME NEW p \in Player PROVE Explains(p, balance'[p], R \cup {y})
    OBVIOUS
  <2>1. Explains(p, balance[p], R) BY <1>3
  <2>2. CASE balance'[p] = balance[p] + (IF y.player = p THEN Entered(y) ELSE 0)
    <3>1. Explains(p, balance[p] + (IF y.player = p THEN Entered(y) ELSE 0), R \cup {y})
      BY <1>2, <2>1, ExplainedAdd
    <3> QED BY <2>2, <3>1
  <2>3. CASE /\ y.type = "withdrawal" /\ y.referenced /\ y.status = "failed"
             /\ balance'[p] = balance[p] + (IF y.player = p THEN Amount ELSE 0)
    <3>1. CASE y.player = p
      <4>1. Explains(p, balance[p] + Amount, R \cup {y})
        BY <1>2, <2>1, <2>3, <3>1, ExplainedRefund
      <4> QED BY <2>3, <3>1, <4>1
    <3>2. CASE y.player # p
      <4>1. Explains(p, balance[p] + (IF y.player = p THEN Entered(y) ELSE 0), R \cup {y})
        BY <1>2, <2>1, ExplainedAdd
      <4> QED BY <2>3, <3>2, <4>1
    <3> QED BY <3>1, <3>2
  <2> QED BY <2>2, <2>3
<1>5. RecordsExplainBalance'
  BY <1>2, <1>4 DEF RecordsExplainBalance, Explains, Sum, FailedOf, RowsOf
<1>6. IsFiniteSet(records') BY <1>2, FS_AddElement
<1> QED BY <1>5, <1>6 DEF Ledger

\* What a new balance is, said with the player of a row.
LEMMA AddIs ==
  ASSUME WalletTypeOK, NEW q \in Player, NEW amount \in Int, Add(q, amount)
  PROVE  \A p \in Player : balance'[p] = balance[p] + (IF q = p THEN amount ELSE 0)
  BY DEF WalletTypeOK, Add

\* A request that goes on without touching the money.
LEMMA LedgerQuietRequest ==
  ASSUME WalletInv, Ledger, NEW r \in Request, UNCHANGED <<money, bet, pot>>,
         NEW stage, Goto(r, stage),
         stage \in {"idle", "deducting"} => request[r] \in {"idle", "deducting"}
  PROVE  Ledger'
<1>1. \A q \in Request : request'[q] \in {"idle", "deducting"} => request[q] \in {"idle", "deducting"}
  BY DEF Goto, WalletInv, WalletTypeOK
<1> QED BY <1>1, LedgerKept DEF BetAt, PotAt

\* A row that a request has written.
LEMMA WritersRequest ==
  ASSUME WalletTypeOK, Writers, NEW r \in Request, UNCHANGED <<bet, pot>>,
         NEW stage \in {"deducted", "done"}, Goto(r, stage),
         NEW z, z.by = r, records' = records \cup {z}
  PROVE  Writers'
  BY Actors DEF Writers, WriterOK, WalletTypeOK, Goto, BetAt, PotAt

\* A request deducts, stores its row or is reversed: each of these once.
LEMMA LedgerRequest ==
  ASSUME WalletInv, Ledger, NEW r \in Request, RequestStep(r)
  PROVE  Ledger'
<1> USE InvParts, Actors DEF ElsewhereThanRequest, At
<1>1. CASE StartDeposit(r) \/ \E m \in {"mpesa", "usdt"} : StartWithdrawal(r, m)
  <2>1. /\ request[r] = "idle" /\ UNCHANGED <<money, bet, pot>>
        /\ \E stage \in {"calling", "done", "deducting"} : Goto(r, stage)
    BY <1>1 DEF StartDeposit, StartWithdrawal
  <2> QED BY <2>1, LedgerQuietRequest
<1>2. CASE AskForPayout(r) \/ CallSucceeds(r) \/ CallFails(r) \/ StartReversal(r)
  <2>1. /\ UNCHANGED <<money, bet, pot>>
        /\ \E stage \in {"calling", "accepted", "rejected", "done", "reversing"} : Goto(r, stage)
    BY <1>2 DEF AskForPayout, CallSucceeds, CallFails, StartReversal
  <2> QED BY <2>1, LedgerQuietRequest
<1>3. CASE Deduct(r)
  <2>1. request[r] = "deducting" /\ UNCHANGED <<bet, pot>> BY <1>3 DEF Deduct
  <2>2. CASE Busy(r) /\ Goto(r, "done")
    BY <2>1, <2>2, LedgerQuietRequest DEF Busy
  <2>3. CASE ~Busy(r)
    <3> DEFINE z == Record(r, Owner[r], "withdrawal", -Amount, FALSE, "pending")
    <3>1. Add(Owner[r], -Amount) /\ records' = records \cup {z} /\ Goto(r, "deducted")
      BY <1>3, <2>3 DEF Deduct
    <3>2. Owner[r] \in Player /\ -Amount \in Int OBVIOUS
    <3>3. z \in Row /\ z.by = r /\ z.player = Owner[r] /\ Entered(z) = -Amount
      BY <3>2 DEF Record, Row, Entered
    <3> HIDE DEF z
    <3>4. z \notin records BY <2>1, <3>3 DEF Ledger, Writers, WriterOK
    <3>5. Writers' BY <2>1, <3>1, <3>3, WritersRequest DEF Ledger
    <3>6. \A p \in Player : balance'[p] = balance[p] + (IF z.player = p THEN Entered(z) ELSE 0)
      BY <3>1, <3>2, <3>3, AddIs
    <3> QED BY <3>1, <3>3, <3>4, <3>5, <3>6, LedgerAdd
  <2> QED BY <1>3, <2>2, <2>3 DEF Deduct, Busy
<1>4. CASE CreatePending(r)
  <2>1. Goto(r, "done") /\ UNCHANGED <<bet, pot>> BY <1>4 DEF CreatePending
  <2>2. CASE UNCHANGED money
    BY <2>1, <2>2, LedgerQuietRequest
  <2>3. ASSUME NEW z, records' = records \cup {z}, UNCHANGED balance,
               \/ z = Record(r, Owner[r], "deposit", Amount, TRUE, "pending")
               \/ z = Record(r, Owner[r], "withdrawal", -Amount, TRUE, "pending")
        PROVE  Ledger'
    <3>1. Owner[r] \in Player /\ -Amount \in Int OBVIOUS
    <3>2. z \in Row /\ z.by = r /\ Entered(z) = 0
      <4>1. CASE z = Record(r, Owner[r], "deposit", Amount, TRUE, "pending")
        BY <3>1, <4>1 DEF Record, Row, Entered
      <4>2. CASE z = Record(r, Owner[r], "withdrawal", -Amount, TRUE, "pending")
        BY <3>1, <4>2 DEF Record, Row, Entered
      <4> QED BY <2>3, <4>1, <4>2
    <3>3. Writers' BY <2>1, <2>3, <3>2, WritersRequest DEF Ledger
    <3>4. \A p \in Player : balance'[p] = balance[p] + (IF z.player = p THEN Entered(z) ELSE 0)
      BY <2>3, <3>2 DEF WalletTypeOK
    <3> QED BY <2>3, <3>2, <3>3, <3>4, LedgerAdd
  <2> QED BY <1>4, <2>2, <2>3 DEF CreatePending
<1>5. CASE Reverse(r)
  <2>1. request[r] = "reversing" /\ Goto(r, "done") /\ UNCHANGED <<bet, pot>>
    BY <1>5 DEF Reverse
  <2>2. CASE Busy(r)
    BY <2>1, <2>2, LedgerQuietRequest DEF Busy
  <2>3. CASE ~Busy(r)
    <3> DEFINE z == Record(r, Owner[r], "deposit", Amount, FALSE, "completed")
    <3>1. Add(Owner[r], Amount) /\ records' = records \cup {z} BY <1>5, <2>3 DEF Reverse
    <3>2. Owner[r] \in Player OBVIOUS
    <3>3. /\ z \in Row /\ z.by = r /\ z.player = Owner[r] /\ Entered(z) = Amount
          /\ z.type = "deposit" /\ z.referenced = FALSE
      BY <3>2 DEF Record, Row, Entered
    <3> HIDE DEF z
    <3>4. z \notin records BY <2>1, <3>3 DEF Rows, RowOK
    <3>5. Writers' BY <2>1, <3>1, <3>3, WritersRequest DEF Ledger
    <3>6. \A p \in Player : balance'[p] = balance[p] + (IF z.player = p THEN Entered(z) ELSE 0)
      BY <3>1, <3>2, <3>3, AddIs
    <3> QED BY <3>1, <3>3, <3>4, <3>5, <3>6, LedgerAdd
  <2> QED BY <1>5, <2>2, <2>3 DEF Reverse
<1> QED BY <1>1, <1>2, <1>3, <1>4, <1>5 DEF RequestStep

\* A callback puts a row in the place of the pending one.
LEMMA LedgerDelivery ==
  ASSUME WalletInv, Ledger, NEW d \in Delivery, DeliveryStep(d)
  PROVE  Ledger'
<1> USE InvParts, Actors DEF ElsewhereThanDelivery
<1> DEFINE r == d[1]
<1>1. r \in Request /\ UNCHANGED <<order, request, bet, pot>>
  BY DEF DeliveryStep, ReceiveCallback, Settle, Close
<1>2. CASE UNCHANGED money
  BY <1>1, <1>2, LedgerKept DEF BetAt, PotAt
<1>3. ASSUME NEW x \in PendingRows(r),
             NEW y \in Row, y.by = r, y.referenced, y.status # "pending", y.player = x.player,
             records' = (records \ {x}) \cup {y},
             \/ \A p \in Player : balance'[p] = balance[p] + (IF y.player = p THEN Entered(y) ELSE 0)
             \/ /\ y.type = "withdrawal" /\ y.status = "failed"
                /\ \A p \in Player : balance'[p] = balance[p] + (IF y.player = p THEN Amount ELSE 0)
      PROVE  Ledger'
  <2>1. /\ x \in records /\ x.by = r /\ x.referenced /\ x.status = "pending"
        /\ x.type \in {"deposit", "withdrawal"}
        /\ \A u \in records : u.by = r /\ u.referenced => u = x
    BY <1>1, PendingFact
  <2>2. Entered(x) = 0 BY <2>1 DEF Entered
  <2>3. y \notin records BY <1>3, <2>1
  <2>4. Writers'
    <3>1. WriterOK(x) BY <2>1 DEF Ledger, Writers
    <3> QED BY <1>1, <1>3, <2>1, <3>1 DEF Ledger, Writers, WriterOK, BetAt, PotAt
  <2> QED BY <1>3, <2>1, <2>2, <2>3, <2>4, LedgerReplace
<1>4. CASE ReceiveCallback(d)
  BY <1>2, <1>4 DEF ReceiveCallback
<1>5. CASE Settle(d)
  <2>1. CASE Busy(d) BY <1>2, <2>1 DEF Busy, money
  <2>2. CASE ~Busy(d)
    <3>1. PICK x \in PendingRows(r) :
            IF order[r] = "paid" THEN CompletePendingDeposit(r, x) ELSE RefundFailedWithdraw(x)
      BY <1>5, <2>2 DEF Settle
    <3>2. x \in Row /\ x.by = r /\ x.referenced BY <1>1, PendingFact
    <3>3. x.player \in Player BY <3>2 DEF Row
    <3>4. CASE order[r] = "paid"
      <4> DEFINE y == Record(r, x.player, "deposit", Amount, TRUE, "completed")
      <4>1. Add(x.player, Amount) /\ records' = (records \ {x}) \cup {y}
        BY <3>1, <3>4 DEF CompletePendingDeposit, Replace
      <4>2. /\ y \in Row /\ y.by = r /\ y.referenced /\ y.status = "completed"
            /\ y.player = x.player /\ Entered(y) = Amount
        BY <1>1, <3>3 DEF Record, Row, Entered
      <4> HIDE DEF y
      <4>3. \A p \in Player : balance'[p] = balance[p] + (IF y.player = p THEN Entered(y) ELSE 0)
        BY <3>3, <4>1, <4>2, AddIs
      <4> QED BY <1>3, <4>1, <4>2, <4>3
    <3>5. CASE order[r] # "paid"
      <4> DEFINE y == [x EXCEPT !.status = "failed"]
      <4>1. r \in Withdrawals
        <5>1. DeliveryAt(d, "settling") BY <1>5 DEF Settle
        <5> QED BY <3>5, <5>1 DEF Callbacks
      <4>2. x.type = "withdrawal" /\ -x.amount = Amount BY <1>1, <4>1, PendingFact
      <4>3. Add(x.player, Amount) /\ records' = (records \ {x}) \cup {y}
        BY <3>1, <3>5, <4>2 DEF RefundFailedWithdraw, Replace
      <4>4. /\ y \in Row /\ y.by = r /\ y.referenced /\ y.status = "failed"
            /\ y.player = x.player /\ y.type = "withdrawal"
        BY <3>2, <4>2 DEF Row
      <4> HIDE DEF y
      <4>5. \A p \in Player : balance'[p] = balance[p] + (IF y.player = p THEN Amount ELSE 0)
        BY <3>3, <4>3, <4>4, AddIs
      <4> QED BY <1>3, <4>3, <4>4, <4>5
    <3> QED BY <3>4, <3>5
  <2> QED BY <2>1, <2>2
<1>6. CASE Close(d)
  <2> DEFINE closed == {Closed(r, x) : x \in PendingRows(r)}
  <2>1. records' = (records \ PendingRows(r)) \cup closed /\ UNCHANGED balance
    BY <1>6 DEF Close
  <2>2. CASE closed = PendingRows(r)
    <3>1. records' = records BY <2>1, <2>2 DEF PendingRows
    <3> QED BY <1>2, <2>1, <3>1 DEF money
  <2>3. CASE closed # PendingRows(r)
    <3>1. PICK x \in PendingRows(r) : TRUE BY <2>3
    <3>2. /\ x \in Row /\ x.by = r /\ x.referenced /\ x.status = "pending"
          /\ x.type \in {"deposit", "withdrawal"} /\ PendingRows(r) = {x}
      BY <1>1, <3>1, PendingFact
    <3> DEFINE y == Closed(r, x)
    <3>3. closed = {y} BY <3>2
    <3>4. y # x BY <2>3, <3>2, <3>3
    <3>5. \/ y = [x EXCEPT !.status = "failed"]
          \/ y = [x EXCEPT !.status = "completed"] /\ x.type = "withdrawal"
      BY <3>4 DEF Closed
    <3>6. records' = (records \ {x}) \cup {y} BY <2>1, <3>2, <3>3
    <3> HIDE DEF y
    <3>7. /\ y \in Row /\ y.by = r /\ y.referenced /\ y.status # "pending"
          /\ y.player = x.player /\ Entered(y) = 0
      BY <3>2, <3>5 DEF Row, Entered
    <3>8. \A p \in Player : balance'[p] = balance[p] + (IF y.player = p THEN Entered(y) ELSE 0)
      BY <2>1, <3>7 DEF WalletTypeOK
    <3> QED BY <1>3, <3>6, <3>7, <3>8
  <2> QED BY <2>2, <2>3
<1> QED BY <1>4, <1>5, <1>6 DEF DeliveryStep

\* A player's bet is locked once, and a game is settled once.
LEMMA LedgerBets ==
  ASSUME WalletInv, Ledger, BetStep
  PROVE  Ledger'
<1> USE InvParts, Actors DEF ElsewhereThanBet
<1>1. UNCHANGED request
  BY DEF BetStep, StartLockBet, LockBet, StartSettlement, FinishSettlement
<1>2. ASSUME NEW p \in Player, UNCHANGED <<money, pot>>, NEW stage,
             bet' = [bet EXCEPT ![p] = stage], bet[p] # "locked"
      PROVE  Ledger'
  <2>1. \A q \in Player : BetAt(q, "locked") => BetAt(q, "locked")'
    BY <1>2 DEF WalletTypeOK, BetAt
  <2> QED BY <1>1, <1>2, <2>1, LedgerKept DEF PotAt
<1>3. ASSUME NEW p \in Player, StartLockBet(p) PROVE Ledger'
  <2>1. /\ bet[p] \in {"none", "refused"} /\ UNCHANGED <<money, pot>>
        /\ \E stage \in {"refused", "unpaid", "locking"} : bet' = [bet EXCEPT ![p] = stage]
    BY <1>3 DEF StartLockBet, BetAt, Turned
  <2> QED BY <1>2, <2>1
<1>4. ASSUME NEW p \in Player, LockBet(p) PROVE Ledger'
  <2>1. bet[p] = "locking" /\ UNCHANGED pot BY <1>4 DEF LockBet, BetAt
  <2>2. CASE Busy(p) /\ Turned(p)
    BY <1>2, <2>1, <2>2 DEF Busy, Turned
  <2>3. CASE ~Busy(p)
    <3> DEFINE z == Record(p, p, "bet_lock", -Stake, FALSE, "completed")
    <3>1. /\ Add(p, -Stake) /\ records' = records \cup {z}
          /\ bet' = [bet EXCEPT ![p] = "locked"]
      BY <1>4, <2>3 DEF LockBet
    <3>2. -Stake \in Int OBVIOUS
    <3>3. z \in Row /\ z.by = p /\ z.player = p /\ Entered(z) = -Stake
      BY <3>2 DEF Record, Row, Entered
    <3> HIDE DEF z
    <3>4. z \notin records BY <2>1, <3>3 DEF Ledger, Writers, WriterOK, BetAt
    <3>5. bet'[p] = "locked" /\ \A q \in Player : q # p => bet'[q] = bet[q]
      BY <3>1 DEF WalletTypeOK
    <3>6. Writers'
      BY <1>1, <2>1, <3>1, <3>3, <3>5 DEF Ledger, Writers, WriterOK, BetAt, PotAt
    <3>7. \A q \in Player : balance'[q] = balance[q] + (IF z.player = q THEN Entered(z) ELSE 0)
      BY <3>1, <3>2, <3>3, AddIs
    <3> QED BY <3>1, <3>3, <3>4, <3>6, <3>7, LedgerAdd
  <2> QED BY <1>4, <2>2, <2>3 DEF LockBet, Busy
<1>5. ASSUME NEW s \in Settlements, StartSettlement(s) PROVE Ledger'
  <2>1. UNCHANGED <<money, bet>> /\ pot[s] = "none" /\ pot' = [pot EXCEPT ![s] = "settling"]
    BY <1>5 DEF StartSettlement, PotAt
  <2>2. \A g \in Settlements : PotAt(g, "settled") => PotAt(g, "settled")'
    BY <2>1 DEF WalletTypeOK, PotAt
  <2> QED BY <1>1, <2>1, <2>2, LedgerKept DEF BetAt
<1>6. ASSUME NEW s \in Settlements, FinishSettlement(s) PROVE Ledger'
  <2>1. pot[s] = "settling" /\ UNCHANGED bet BY <1>6 DEF FinishSettlement, PotAt
  <2>2. CASE Busy(s)
    <3>1. UNCHANGED money /\ \E stage : pot' = [pot EXCEPT ![s] = stage]
      BY <1>6, <2>2 DEF FinishSettlement, Busy, money
    <3>2. \A g \in Settlements : PotAt(g, "settled") => PotAt(g, "settled")'
      BY <2>1, <3>1 DEF WalletTypeOK, PotAt
    <3> QED BY <1>1, <2>1, <3>1, <3>2, LedgerKept DEF BetAt
  <2>3. CASE ~Busy(s)
    <3> DEFINE total == Stake * Cardinality(InRoom)
    <3>1. PICK w \in InRoom : SettleGame(s, w, total) /\ pot' = [pot EXCEPT ![s] = "settled"]
      BY <1>6, <2>3 DEF FinishSettlement
    <3>2. w \in Player BY PotNat
    <3>3. total \in Nat BY PotNat
    <3> HIDE DEF total
    <3>4. Payout(total) \in Int /\ total \div 5 \in Int BY <3>3, Shares
    <3> DEFINE win == Record(s, w, "bet_win", Payout(total), FALSE, "completed")
               fee == Record(s, w, "house_fee", total \div 5, FALSE, "completed")
    <3>5. /\ win \in Row /\ win.by = s /\ win.player = w /\ Entered(win) = Payout(total)
          /\ fee \in Row /\ fee.by = s /\ fee.player = w /\ Entered(fee) = 0
      BY <3>2, <3>4 DEF Record, Row, Entered
    <3>6. Add(w, Payout(total)) /\ records' = (records \cup {win}) \cup {fee}
      BY <3>1 DEF SettleGame
    <3> HIDE DEF win, fee
    <3>7. win \notin records BY <2>1, <3>5 DEF Ledger, Writers, WriterOK, PotAt
    <3>8. Writers'
      <4>1. \A g \in Settlements : PotAt(g, "settled")' <=> PotAt(g, "settled") \/ g = s
        BY <2>1, <3>1 DEF WalletTypeOK, PotAt
      <4>2. \A x \in records : WriterOK(x)'
        BY <1>1, <2>1, <4>1 DEF Ledger, Writers, WriterOK, BetAt
      <4>3. \A x : x.by = s => WriterOK(x)' BY <4>1 DEF WriterOK
      <4> QED BY <3>5, <3>6, <4>2, <4>3 DEF Writers
    <3>9. IsFiniteSet(records) /\ records \subseteq Row BY DEF Ledger, WalletTypeOK, Row
    <3>10. ASSUME NEW p \in Player PROVE Explains(p, balance'[p], records')
      <4>1. Explains(p, balance[p], records) BY ExplainedIs DEF Ledger
      <4>2. Explains(p, balance[p] + (IF win.player = p THEN Entered(win) ELSE 0), records \cup {win})
        BY <3>5, <3>7, <3>9, <4>1, ExplainedAdd
      <4>3. balance'[p] = balance[p] + (IF win.player = p THEN Entered(win) ELSE 0)
        BY <3>2, <3>4, <3>5, <3>6, AddIs
      <4>4. Explains(p, balance'[p], records \cup {win}) BY <4>2, <4>3
      <4>5. IsFiniteSet(records \cup {win}) /\ records \cup {win} \subseteq Row
        BY <3>5, <3>9, FS_AddElement
      <4>6. Explains(p, balance'[p] + (IF fee.player = p THEN Entered(fee) ELSE 0), records')
        BY <3>5, <3>6, <4>4, <4>5, ExplainedAdd
      <4>7. balance'[p] \in Int
        <5>1. balance[p] \in Int BY DEF WalletTypeOK
        <5> QED BY <3>4, <3>5, <4>3, <5>1
      <4>8. balance'[p] + (IF fee.player = p THEN Entered(fee) ELSE 0) = balance'[p]
        BY <3>5, <4>7
      <4> QED BY <4>6, <4>8
    <3>11. RecordsExplainBalance'
      BY <3>10 DEF RecordsExplainBalance, Explains, Sum, FailedOf, RowsOf
    <3>12. IsFiniteSet(records') BY <3>6, <3>9, FS_AddElement
    <3> QED BY <3>8, <3>11, <3>12 DEF Ledger
  <2> QED BY <2>2, <2>3
<1> QED BY <1>3, <1>4, <1>5, <1>6 DEF BetStep

\* In the beginning there are no rows.
LEMMA LedgerInit == Init => Ledger
<1> SUFFICES ASSUME Init PROVE Ledger
  OBVIOUS
<1>1. records = {} /\ \A p \in Player : balance[p] = Opening BY DEF Init
<1>2. ASSUME NEW p \in Player PROVE Explains(p, balance[p], records)
  <2>1. RowsOf(p, records) = {} BY <1>1 DEF RowsOf
  <2>2. Sum({}) = 0 BY FS_EmptySet, SumSteps
  <2>3. Cardinality({}) = 0 BY FS_EmptySet
  <2>4. balance[p] = Opening + Sum(RowsOf(p, records)) + Amount * Cardinality({})
    <3>1. Opening \in Int /\ Amount \in Int BY WalletAssumption
    <3>2. Opening = Opening + 0 + Amount * 0 BY <3>1
    <3> QED BY <1>1, <2>1, <2>2, <2>3, <3>2
  <2>5. {} \in SUBSET FailedOf(p, records) OBVIOUS
  <2> QED BY <2>4, <2>5 DEF Explains
<1>3. RecordsExplainBalance BY <1>2, ExplainedIs
<1>4. Writers /\ IsFiniteSet(records) BY <1>1, FS_EmptySet DEF Writers
<1> QED BY <1>3, <1>4 DEF Ledger

\* Every step keeps the ledger; after a restart it is as before.
LEMMA LedgerNext == WalletInv /\ Ledger /\ [Next]_vars => Ledger'
<1> SUFFICES ASSUME WalletInv, Ledger, [Next]_vars PROVE Ledger'
  OBVIOUS
<1>1. CASE UNCHANGED vars
  BY <1>1, LedgerKept DEF vars, BetAt, PotAt
<1>2. ASSUME NEW r \in Request, ProviderStep(r) PROVE Ledger'
  BY <1>2, LedgerKept DEF ProviderStep, BetAt, PotAt
<1>3. CASE Crash
  <2>1. /\ UNCHANGED money
        /\ \A r \in Request : request'[r] \in {"idle", "deducting"} => request[r] \in {"idle", "deducting"}
        /\ \A p \in Player : BetAt(p, "locked") => BetAt(p, "locked")'
        /\ \A s \in Settlements : PotAt(s, "settled") => PotAt(s, "settled")'
    BY <1>3 DEF Crash, At, BetAt, PotAt
  <2> QED BY <2>1, LedgerKept
<1> QED BY <1>1, <1>2, <1>3, LedgerRequest, LedgerDelivery, LedgerBets DEF Next

\* The ledger, at every moment.
LEMMA LedgerInvariant == Spec => []Ledger
  BY WalletInvariant, LedgerInit, LedgerNext, PTL DEF Spec

-----------------------------------------------------------------------------
(* The pot.                                                                *)

\* The rows of a settling share out what is in the pot now, and nobody is
\* about to join once there is a settling.
PotRowOK(x) ==
  x.type \in {"bet_win", "house_fee"} =>
    /\ x.by \in Settlements /\ PotAt(x.by, "settled")
    /\ x.amount = IF x.type = "bet_win" THEN Payout(Stake * Cardinality(InRoom))
                  ELSE (Stake * Cardinality(InRoom)) \div 5
Pots ==
  /\ \A x \in records : PotRowOK(x)
  /\ \A p \in Player, s \in Settlements : BetAt(p, "locking") => PotAt(s, "none")

\* Steps that leave the pot and its rows alone.
LEMMA PotsKept ==
  ASSUME Pots, UNCHANGED <<bet, pot>>,
         \A x \in records' : x.type \in {"bet_win", "house_fee"} => x \in records
  PROVE  Pots'
<1>1. \A x : PotRowOK(x)' <=> PotRowOK(x) BY DEF PotRowOK, PotAt, InRoom, Locked, BetAt
<1>2. \A x \in records' : PotRowOK(x)
  <2> TAKE x \in records'
  <2>1. CASE x.type \in {"bet_win", "house_fee"} BY <2>1 DEF Pots
  <2>2. CASE x.type \notin {"bet_win", "house_fee"} BY <2>2 DEF PotRowOK
  <2> QED BY <2>1, <2>2
<1>3. \A x \in records' : PotRowOK(x)' BY <1>1, <1>2
<1>4. \A p \in Player, s \in Settlements : BetAt(p, "locking")' => PotAt(s, "none")'
  BY DEF Pots, BetAt, PotAt
<1> QED BY <1>3, <1>4 DEF Pots

\* While nothing has been settled there are no rows about it: whoever joins
\* disturbs none.
LEMMA PotsOpen ==
  ASSUME Pots, UNCHANGED pot, \A s \in Settlements : PotAt(s, "none"),
         \A x \in records' : x.type \in {"bet_win", "house_fee"} => x \in records
  PROVE  Pots'
<1>1. \A x \in records : x.type \notin {"bet_win", "house_fee"}
  BY DEF Pots, PotRowOK, PotAt
<1>2. \A x \in records' : x.type \notin {"bet_win", "house_fee"} BY <1>1
<1>3. \A x \in records' : PotRowOK(x)' BY <1>2 DEF PotRowOK
<1>4. \A s \in Settlements : PotAt(s, "none")' BY DEF PotAt
<1> QED BY <1>3, <1>4 DEF Pots

\* Bets are locked before the first settling; a settling shares out the pot.
LEMMA PotsBets ==
  ASSUME WalletInv, Pots, BetStep
  PROVE  Pots'
<1> USE InvParts, Actors DEF money
<1>1. ASSUME NEW p \in Player, StartLockBet(p) PROVE Pots'
  <2>1. UNCHANGED <<records, pot>> /\ \A s \in Settlements : PotAt(s, "none")
    BY <1>1 DEF StartLockBet
  <2> QED BY <2>1, PotsOpen
<1>2. ASSUME NEW p \in Player, LockBet(p) PROVE Pots'
  <2>1. UNCHANGED pot /\ \A s \in Settlements : PotAt(s, "none")
    BY <1>2 DEF LockBet, Pots
  <2>2. \A x \in records' : x.type \in {"bet_win", "house_fee"} => x \in records
    BY <1>2 DEF LockBet, Busy, Record
  <2> QED BY <2>1, <2>2, PotsOpen
<1>3. ASSUME NEW s \in Settlements, NEW stage \in {"settling", "settled", "lost"},
             PotAt(s, "none") \/ PotAt(s, "settling"),
             \A q \in Player : ~BetAt(q, "locking"),
             UNCHANGED bet, pot' = [pot EXCEPT ![s] = stage],
             \A x \in records' : x.type \in {"bet_win", "house_fee"} =>
               x \in records \/ (stage = "settled" /\ x.by = s /\ PotRowOK(x)')
      PROVE  Pots'
  <2>1. \A g \in Settlements : PotAt(g, "settled") => PotAt(g, "settled")'
    BY <1>3 DEF WalletTypeOK, PotAt
  <2>2. InRoom' = InRoom BY <1>3 DEF InRoom, Locked, BetAt
  <2>3. \A x \in records : PotRowOK(x)' BY <2>1, <2>2 DEF Pots, PotRowOK
  <2>4. \A x \in records' : PotRowOK(x)'
    <3> TAKE x \in records'
    <3>1. CASE x.type \in {"bet_win", "house_fee"} BY <1>3, <2>3, <3>1
    <3>2. CASE x.type \notin {"bet_win", "house_fee"} BY <3>2 DEF PotRowOK
    <3> QED BY <3>1, <3>2
  <2>5. \A q \in Player : ~BetAt(q, "locking")' BY <1>3 DEF BetAt
  <2> QED BY <2>4, <2>5 DEF Pots
<1>4. ASSUME NEW s \in Settlements, StartSettlement(s) PROVE Pots'
  <2>1. /\ PotAt(s, "none") /\ \A q \in Player : ~BetAt(q, "locking")
        /\ UNCHANGED <<bet, records>> /\ pot' = [pot EXCEPT ![s] = "settling"]
    BY <1>4 DEF StartSettlement
  <2> QED BY <1>3, <2>1
<1>5. ASSUME NEW s \in Settlements, FinishSettlement(s) PROVE Pots'
  <2>1. PotAt(s, "settling") /\ UNCHANGED bet BY <1>5 DEF FinishSettlement
  <2>2. \A q \in Player : ~BetAt(q, "locking") BY <2>1 DEF Pots, PotAt
  <2>3. CASE Busy(s) /\ pot' = [pot EXCEPT ![s] = "lost"]
    <3>1. UNCHANGED records BY <2>3 DEF Busy
    <3> QED BY <1>3, <2>1, <2>2, <2>3, <3>1
  <2>4. CASE /\ \E w \in InRoom : SettleGame(s, w, Stake * Cardinality(InRoom))
             /\ pot' = [pot EXCEPT ![s] = "settled"]
    <3> DEFINE total == Stake * Cardinality(InRoom)
    <3>1. PICK w \in InRoom : SettleGame(s, w, total) BY <2>4
    <3>2. InRoom' = InRoom BY <2>1 DEF InRoom, Locked, BetAt
    <3>3. PotAt(s, "settled")' BY <2>4 DEF WalletTypeOK, PotAt
    <3>4. ASSUME NEW x \in records', x \notin records
          PROVE  x.by = s /\ PotRowOK(x)'
      <4>1. \/ x = Record(s, w, "bet_win", Payout(total), FALSE, "completed")
            \/ x = Record(s, w, "house_fee", total \div 5, FALSE, "completed")
        BY <3>1, <3>4 DEF SettleGame
      <4>2. /\ x.by = s
            /\ x.amount = IF x.type = "bet_win" THEN Payout(total) ELSE total \div 5
        BY <4>1 DEF Record
      <4> QED BY <3>2, <3>3, <4>2 DEF PotRowOK
    <3> QED BY <1>3, <2>1, <2>2, <2>4, <3>4
  <2> QED BY <1>5, <2>3, <2>4 DEF FinishSettlement
<1> QED BY <1>1, <1>2, <1>4, <1>5 DEF BetStep

\* Every other step leaves the pot alone, or drops the room.
LEMMA PotsNext == WalletInv /\ Pots /\ [Next]_vars => Pots'
<1> SUFFICES ASSUME WalletInv, Pots, [Next]_vars PROVE Pots'
  OBVIOUS
<1> USE DEF money
<1>1. CASE UNCHANGED vars
  <2>1. UNCHANGED <<bet, pot, records>> BY <1>1 DEF vars
  <2> QED BY <2>1, PotsKept
<1>2. ASSUME NEW r \in Request, RequestStep(r) PROVE Pots'
  <2>1. UNCHANGED <<bet, pot>>
    BY <1>2 DEF RequestStep, StartDeposit, StartWithdrawal, Deduct, AskForPayout, CallSucceeds,
       CallFails, CreatePending, StartReversal, Reverse, ElsewhereThanRequest
  <2>2. \A x \in records' : x.type \in {"bet_win", "house_fee"} => x \in records
    BY <1>2 DEF RequestStep, StartDeposit, StartWithdrawal, Deduct, AskForPayout, CallSucceeds,
       CallFails, CreatePending, StartReversal, Reverse, Busy, Record
  <2> QED BY <2>1, <2>2, PotsKept
<1>3. ASSUME NEW r \in Request, ProviderStep(r) PROVE Pots'
  <2>1. UNCHANGED <<bet, pot, records>> BY <1>3 DEF ProviderStep
  <2> QED BY <2>1, PotsKept
<1>4. ASSUME NEW d \in Delivery, DeliveryStep(d) PROVE Pots'
  <2>1. UNCHANGED <<bet, pot>>
    BY <1>4 DEF DeliveryStep, ReceiveCallback, Settle, Close, ElsewhereThanDelivery
  <2>2. d[1] \in Request BY Actors
  <2>3. \A x \in PendingRows(d[1]) : x.type \in {"deposit", "withdrawal"} /\ x \in Row
    BY <2>2, PendingFact, InvParts DEF WalletTypeOK, Row
  <2>4. \A x \in records' : x.type \in {"bet_win", "house_fee"} => x \in records
    <3>1. CASE ReceiveCallback(d) BY <3>1 DEF ReceiveCallback
    <3>2. CASE Settle(d)
      BY <2>3, <3>2 DEF Settle, Busy, CompletePendingDeposit, RefundFailedWithdraw, Replace, Record, Row
    <3>3. CASE Close(d)
      <4>1. \A x \in PendingRows(d[1]) : Closed(d[1], x).type = x.type
        BY <2>3 DEF Closed, Row
      <4> QED BY <2>3, <3>3, <4>1 DEF Close
    <3> QED BY <1>4, <3>1, <3>2, <3>3 DEF DeliveryStep
  <2> QED BY <2>1, <2>4, PotsKept
<1>5. CASE BetStep BY <1>5, PotsBets
<1>6. CASE Crash
  <2>1. /\ UNCHANGED records
        /\ \A p \in Player : bet'[p] = IF BetAt(p, "locking") THEN "refused" ELSE bet[p]
        /\ \A s \in Settlements : PotAt(s, "settled") => PotAt(s, "settled")'
    BY <1>6 DEF Crash, PotAt
  <2>2. InRoom' = InRoom BY <2>1 DEF InRoom, Locked, BetAt
  <2>3. \A x \in records' : PotRowOK(x)' BY <2>1, <2>2 DEF Pots, PotRowOK
  <2>4. \A p \in Player : ~BetAt(p, "locking")' BY <2>1 DEF BetAt
  <2> QED BY <2>3, <2>4 DEF Pots
<1> QED BY <1>1, <1>2, <1>3, <1>4, <1>5, <1>6 DEF Next

\* The pot and its rows, at every moment.
LEMMA PotsInvariant == Spec => []Pots
<1>1. Init => Pots BY DEF Init, Pots, BetAt
<1> QED BY <1>1, WalletInvariant, PotsNext, PTL DEF Spec

-----------------------------------------------------------------------------
\* Every variable keeps its type, and only a transaction has a snapshot.
THEOREM WalletTypeCorrect == Spec => []WalletTypeOK
  BY WalletInvariant, PTL DEF WalletInv

\* No wallet is overdrawn, however bets, withdrawals, refunds and settlements
\* interleave and wherever the server crashes: a transaction that has checked
\* the balance is refused when anybody has written since (LockBet, Withdraw).
THEOREM WalletNoOverdraft == Spec => []NoOverdraft
<1>1. WalletInv => NoOverdraft BY DEF WalletInv, Funds
<1> QED BY <1>1, WalletInvariant, PTL

\* A payout is asked for only after it has been deducted (HandleWithdraw).
THEOREM WalletPayoutsAreDeducted == Spec => []PayoutsAreDeducted
<1>1. WalletInv => PayoutsAreDeducted
  BY DEF WalletInv, Deductions, Deducted, Owed, PayoutsAreDeducted
<1> QED BY <1>1, WalletInvariant, PTL

\* The money of a withdrawal is not returned both by its handler and by a
\* callback: a request with a reversal never has a row for callbacks to find
\* (HandleWithdraw, RefundFailedWithdraw).
THEOREM WalletReturnedOnce == Spec => []ReturnedOnce
<1>1. WalletInv => ReturnedOnce
  BY DEF WalletInv, Rows, PairOK, ReturnedOnce
<1> QED BY <1>1, WalletInvariant, PTL

\* However often an outcome is called back, and however the handlers of the
\* callbacks interleave, only one of them moves the money
\* (CompletePendingDeposit, RefundFailedWithdraw).
THEOREM WalletSettledOnce == Spec => SettledOnce
<1> DEFINE Once == \A d \in Delivery :
                     balance' # balance /\ delivery'[d] # delivery[d] => SettledRows(d[1]) = {}
<1>1. ASSUME WalletInv, [Next]_vars PROVE Once
  <2> SUFFICES ASSUME NEW d \in Delivery, balance' # balance, delivery'[d] # delivery[d]
               PROVE  SettledRows(d[1]) = {}
    OBVIOUS
  <2>1. \A r \in Request : ~RequestStep(r) /\ ~ProviderStep(r)
    BY <1>1 DEF RequestStep, StartDeposit, StartWithdrawal, Deduct, AskForPayout, CallSucceeds,
       CallFails, CreatePending, StartReversal, Reverse, ProviderStep, ElsewhereThanRequest
  <2>2. ~BetStep
    BY <1>1 DEF BetStep, StartLockBet, LockBet, StartSettlement, FinishSettlement, ElsewhereThanBet
  <2>3. ~Crash BY DEF Crash, money
  <2>4. PICK e \in Delivery : DeliveryStep(e)
    BY <1>1, <2>1, <2>2, <2>3 DEF Next, vars, money
  <2>5. Settle(e)
    BY <2>4 DEF DeliveryStep, ReceiveCallback, Close, money
  <2>6. d = e BY <1>1, <2>5, SettleStep
  <2> QED BY <1>1, <2>5, <2>6, SettleStep
<1>2. WalletInv /\ [Next]_vars => [Once]_vars BY <1>1
<1> QED BY <1>2, WalletInvariant, PTL DEF Spec, SettledOnce

\* At every moment the balance of every wallet follows from its rows, whatever
\* interleaves and wherever the server crashes: each handler writes its row and
\* moves what the row tells of in one transaction (Deposit, Withdraw, LockBet,
\* CompletePendingDeposit, RefundFailedWithdraw, SettleGame).
THEOREM WalletRecordsExplainBalance == Spec => []RecordsExplainBalance
<1>1. Ledger => RecordsExplainBalance BY DEF Ledger
<1> QED BY <1>1, LedgerInvariant, PTL

\* Whoever is in the room, however often games are played and whatever fails in
\* between: the prize and the fee of each settling add up to a stake of every
\* person who is in the room (handleJoin, handleMoveToken, SettleGame).
THEOREM WalletPotIsShared == Spec => []PotIsShared
<1>1. WalletInv /\ Pots => PotIsShared
  <2> SUFFICES ASSUME WalletInv, Pots, NEW x \in records, NEW y \in records,
                      x.by = y.by, x.type = "bet_win", y.type = "house_fee"
               PROVE  x.amount + y.amount = Stake * Cardinality(InRoom)
    BY DEF PotIsShared
  <2> DEFINE total == Stake * Cardinality(InRoom)
  <2>1. x.amount = Payout(total) /\ y.amount = total \div 5 BY DEF Pots, PotRowOK
  <2>2. total \in Nat BY PotNat
  <2> HIDE DEF total
  <2>3. total \div 5 \in Nat BY <2>2, Shares
  <2>4. x.amount + y.amount = total BY <2>1, <2>2, <2>3 DEF Payout
  <2> QED BY <2>4 DEF total
<1> QED BY <1>1, WalletInvariant, PotsInvariant, PTL
=============================================================================

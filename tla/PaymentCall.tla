----------------------------- MODULE PaymentCall -----------------------------
(***************************************************************************)
(* What a request for a payment promises its caller, the wallet: the       *)
(* provider takes the order at most once, a success means that it has      *)
(* taken it, and a failure means nothing.  LudoPayment implements it.      *)
(***************************************************************************)
EXTENDS Naturals

CONSTANT Call

VARIABLES taken, result

callVars == <<taken, result>>

Init ==
  /\ taken = [c \in Call |-> 0]
  /\ result = [c \in Call |-> "none"]

\* Also after the caller has given up.
Take(c) ==
  /\ taken[c] = 0
  /\ taken' = [taken EXCEPT ![c] = 1]
  /\ UNCHANGED result

Succeed(c) ==
  /\ result[c] = "none" /\ taken[c] = 1
  /\ result' = [result EXCEPT ![c] = "ok"]
  /\ UNCHANGED taken

Fail(c) ==
  /\ result[c] = "none"
  /\ result' = [result EXCEPT ![c] = "error"]
  /\ UNCHANGED taken

Next == \E c \in Call : Take(c) \/ Succeed(c) \/ Fail(c)

Spec == Init /\ [][Next]_callVars
=============================================================================

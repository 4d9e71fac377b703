---------------------------- MODULE MCLudoPayment ----------------------------
(***************************************************************************)
(* Payments for TLC: two requests that share a provider and so its token.  *)
(***************************************************************************)
EXTENDS LudoPayment

CONSTANT mpesa

AllToMpesa == [c \in Call |-> mpesa]
=============================================================================

---------------------------- MODULE MCLudoWallet ----------------------------
(***************************************************************************)
(* Wallets for TLC.  One player both bets and moves money in and out; his  *)
(* opening balance covers a bet or a withdrawal, not both.  Settlings are  *)
(* told apart by nothing but their names.                                  *)
(***************************************************************************)
EXTENDS LudoWallet, TLC

CONSTANTS spender, opponent

SettlementSymmetry == Permutations(Settlements)
FirstOwner == [r \in Request |-> spender]
=============================================================================

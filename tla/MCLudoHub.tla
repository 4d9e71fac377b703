----------------------------- MODULE MCLudoHub -----------------------------
(***************************************************************************)
(* A hub for TLC: a player who opens a second connection while the first   *)
(* one lasts, another player who may have one of his own, and one room.    *)
(***************************************************************************)
EXTENDS LudoHub

CONSTANTS ann, bob, bob1

Owners == [s \in Session |-> IF s = bob1 THEN bob ELSE ann]
=============================================================================

----------------------------- MODULE MCLudoRoom -----------------------------
(***************************************************************************)
(* Rooms for TLC.  People are interchangeable until one of them becomes    *)
(* the host, and so are the IDs handed out to bots: LudoRoom compares them *)
(* for equality only, so permuting them is a symmetry.                     *)
(***************************************************************************)
EXTENDS LudoRoom, TLC

Interchangeable == Permutations(Human) \cup Permutations(Bot)
=============================================================================

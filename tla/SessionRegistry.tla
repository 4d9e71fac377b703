--------------------------- MODULE SessionRegistry ---------------------------
(***************************************************************************)
(* What the hub promises of the connections of its players: a player has   *)
(* at most one, the latest, until that one ends.  LudoHub implements it.   *)
(***************************************************************************)

CONSTANTS Session, PlayerOf

VARIABLES registry, arrived, ended

registryVars == <<registry, arrived, ended>>

Init == registry = {} /\ arrived = {} /\ ended = {}

\* A session takes the place of whatever session its player has had.
Open(s) ==
  /\ s \notin arrived
  /\ arrived' = arrived \cup {s}
  /\ registry' = {t \in registry : PlayerOf[t] # PlayerOf[s]} \cup {s}
  /\ UNCHANGED ended

\* A connection ends ..
End(s) ==
  /\ s \in arrived \ ended
  /\ ended' = ended \cup {s}
  /\ UNCHANGED <<registry, arrived>>

\* .. and its session, if it has not been replaced, is closed and no other.
Close(s) ==
  /\ s \in registry \cap ended
  /\ registry' = registry \ {s}
  /\ UNCHANGED <<arrived, ended>>

Next == \E s \in Session : Open(s) \/ End(s) \/ Close(s)

Spec == Init /\ [][Next]_registryVars
=============================================================================

------------------------- MODULE ExclusiveSections -------------------------
(***************************************************************************)
(* What a store is promised by the turns: pieces of work that name the     *)
(* keys they touch, two of which never run together when they share one.   *)
(* Nothing is said of lines, promises or the order keys are taken in.      *)
(***************************************************************************)
CONSTANTS Callers, Keys

VARIABLES section,  \* per caller, the keys its work runs under
          inside    \* the callers whose work is running

secVars == <<section, inside>>

SecInit ==
  /\ section = [c \in Callers |-> {}]
  /\ inside = {}

Free(ks) == \A d \in inside : section[d] \cap ks = {}

Enter(c, ks) ==
  /\ c \notin inside
  /\ Free(ks)
  /\ section' = [section EXCEPT ![c] = ks]
  /\ inside' = inside \cup {c}

Exit(c) ==
  /\ c \in inside
  /\ section' = [section EXCEPT ![c] = {}]
  /\ inside' = inside \ {c}

SecNext == \E c \in Callers : Exit(c) \/ \E ks \in SUBSET Keys : Enter(c, ks)

SecSpec == SecInit /\ [][SecNext]_secVars

=============================================================================

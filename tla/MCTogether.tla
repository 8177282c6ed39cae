----------------------------- MODULE MCTogether -----------------------------
(* A frame of two gestures, pages of two rows among them, and a frame of   *)
(* one beside it, inside it or in line behind it.                          *)
EXTENDS Together, TLC

CONSTANTS f1, f2, none

MCRows == {1, 2}
Pages(kinds) == {[kind |-> kd, keys |-> {1, 2}] : kd \in kinds}
OfRow(k, kinds) == {[kind |-> kd, keys |-> {k}] : kd \in kinds}
MCGestures ==
  f1 :> (Pages({"create", "upsert"}) \cup OfRow(1, {"update"}))
    @@ f2 :> OfRow(1, {"update", "delete"})
MCMost == f1 :> 2 @@ f2 :> 1

(* One updateByKeys, whose second change may throw. *)
PageChanges == [f \in Frames |-> Pages({"update"})]
OneEach == [f \in Frames |-> 1]

(* Alone and in line they do not meet, so what the rows held says little. *)
TogetherStart ==
  /\ TogetherInit
  /\ \A k \in Rows : kept[k] = kept[1]
  /\ (context /\ \A f \in Frames : inside[f] = none) \/ kept[1] = "seed"
TogetherSpec == TogetherStart /\ [][TogetherNext]_togetherVars /\ TogetherFairness
=============================================================================

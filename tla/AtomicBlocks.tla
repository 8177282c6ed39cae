---------------------------- MODULE AtomicBlocks ----------------------------
(***************************************************************************)
(* What `Together` promises over one engine: "what the callback did        *)
(* happens entirely, or not at all" (site, data/together).  A block names  *)
(* the keys it writes; it ends once, with a mark on every one of them or   *)
(* on none, and the marks of the blocks before it stay.  Nothing is said   *)
(* of locks, turns or the order of its gestures.                           *)
(***************************************************************************)
CONSTANTS Callers, Keys

VARIABLES touches,  \* per caller, the keys its block writes
          stored,   \* per key, the blocks whose write the row carries for good
          ended     \* the blocks that answered or were refused

blockVars == <<touches, stored, ended>>

BlocksInit ==
  /\ touches \in [Callers -> SUBSET Keys]
  /\ stored = [k \in Keys |-> {}]
  /\ ended = {}

Ends(t) == t \notin ended /\ ended' = ended \cup {t} /\ UNCHANGED touches

Stand(t) ==
  /\ Ends(t)
  /\ stored' = [k \in Keys |-> IF k \in touches[t] THEN stored[k] \cup {t} ELSE stored[k]]

Fall(t) == Ends(t) /\ UNCHANGED stored

BlocksNext == \E t \in Callers : Stand(t) \/ Fall(t)

BlocksSpec == BlocksInit /\ [][BlocksNext]_blockVars

=============================================================================

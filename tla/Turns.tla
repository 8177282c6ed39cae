------------------------------- MODULE Turns -------------------------------
(***************************************************************************)
(* Writes on one key, one after the other: core/src/storage/Turns.ts.      *)
(*                                                                         *)
(* `last` is the Map of promises the class keeps.  A promise is modelled   *)
(* by the caller whose `take` made it, and the chain `before.then(work)`   *)
(* by `ahead`: the caller this one's work was chained to, or NoCaller once *)
(* that promise has settled.  `takeAll` takes the smallest key it still    *)
(* lacks, and only from inside the turn of the one before; it leaves them  *)
(* in the opposite order, because an outer promise settles after the one   *)
(* nested in it.  Keys are strings compared by sort(): here numbers.       *)
(***************************************************************************)
EXTENDS Integers

CONSTANTS
  Callers,    \* the calls in progress that may ask for turns
  Keys,       \* the keys of one store
  NoCaller    \* no promise: an absent entry of the Map, or a settled promise

ASSUME KeysAreOrdered == Keys \subseteq Nat
ASSUME NoCallerIsNone == NoCaller \notin Callers

VARIABLES
  last,     \* per key, whose promise the Map holds
  ahead,    \* per caller and key, whom its take was chained to
  lined,    \* per caller, the keys it has called take for and not left
  turn,     \* per caller, the keys whose turn has come
  wants,    \* per caller, the keys given to takeAll
  phase     \* per caller, where takeAll stands

turnVars == <<last, ahead, lined, turn, wants, phase>>

Phases == {"idle", "lining", "working", "leaving"}

TurnsTypeOK ==
  /\ last \in [Keys -> Callers \cup {NoCaller}]
  /\ ahead \in [Callers -> [Keys -> Callers \cup {NoCaller}]]
  /\ lined \in [Callers -> SUBSET Keys]
  /\ turn \in [Callers -> SUBSET Keys]
  /\ wants \in [Callers -> SUBSET Keys]
  /\ phase \in [Callers -> Phases]

TurnsInit ==
  /\ last = [k \in Keys |-> NoCaller]
  /\ ahead = [c \in Callers |-> [k \in Keys |-> NoCaller]]
  /\ lined = [c \in Callers |-> {}]
  /\ turn = [c \in Callers |-> {}]
  /\ wants = [c \in Callers |-> {}]
  /\ phase = [c \in Callers |-> "idle"]

-----------------------------------------------------------------------------
(* Wrong on purpose, for the mutation runs: keys in the caller's order, a  *)
(* take that does not wait for the one before, a turn that wakes nobody.   *)
AnyOf(k, ks) == k \in ks
TakeAtOnce(c, k) ==
  /\ last' = [last EXCEPT ![k] = c]
  /\ ahead' = [ahead EXCEPT ![c][k] = NoCaller]
  /\ lined' = [lined EXCEPT ![c] = @ \cup {k}]

(* The first of a set of keys in key order, and the last. *)
IsFirst(k, ks) == k \in ks /\ \A j \in ks : k <= j
IsLast(k, ks)  == k \in ks /\ \A j \in ks : j <= k

(* take(key, work): chained to whatever the Map holds, and now what it holds. *)
Take(c, k) ==
  /\ last' = [last EXCEPT ![k] = c]
  /\ ahead' = [ahead EXCEPT ![c][k] = last[k]]
  /\ lined' = [lined EXCEPT ![c] = @ \cup {k}]

(* takeAll(keys, work): no key is no turn, and the work starts at once. *)
TakeAll(c, ks) ==
  /\ phase[c] = "idle"
  /\ wants' = [wants EXCEPT ![c] = ks]
  /\ UNCHANGED turn
  /\ \/ /\ ks = {}
        /\ phase' = [phase EXCEPT ![c] = "working"]
        /\ UNCHANGED <<last, ahead, lined>>
     \/ /\ phase' = [phase EXCEPT ![c] = "lining"]
        /\ \E k \in ks : IsFirst(k, ks) /\ Take(c, k)

(* The promise ahead settled: the turn has come, and the next key is asked *)
(* for from inside it; with every key in hand the work runs.               *)
TurnComes(c) ==
  \E k \in lined[c] \ turn[c] :
    LET rest == wants[c] \ (turn[c] \cup {k}) IN
    /\ phase[c] = "lining"
    /\ ahead[c][k] = NoCaller
    /\ turn' = [turn EXCEPT ![c] = @ \cup {k}]
    /\ UNCHANGED wants
    /\ \/ /\ rest = {}
          /\ phase' = [phase EXCEPT ![c] = "working"]
          /\ UNCHANGED <<last, ahead, lined>>
       \/ /\ UNCHANGED phase
          /\ \E j \in rest : IsFirst(j, rest) /\ Take(c, j)

(* The work's promise settled, fulfilled or rejected alike. *)
Settle(c) ==
  /\ phase[c] = "working"
  /\ phase' = [phase EXCEPT ![c] = IF turn[c] = {} THEN "idle" ELSE "leaving"]
  /\ wants' = [wants EXCEPT ![c] = IF turn[c] = {} THEN {} ELSE @]
  /\ UNCHANGED <<last, ahead, lined, turn>>

(* Wrong on purpose: the key leaves the Map, and whoever waits is not told. *)
LeaveSilently(c) ==
  \E k \in turn[c] :
    LET still == turn[c] \ {k} IN
    /\ phase[c] = "leaving"
    /\ turn' = [turn EXCEPT ![c] = still]
    /\ lined' = [lined EXCEPT ![c] = @ \ {k}]
    /\ last' = [last EXCEPT ![k] = IF @ = c THEN NoCaller ELSE @]
    /\ phase' = [phase EXCEPT ![c] = IF still = {} THEN "idle" ELSE @]
    /\ wants' = [wants EXCEPT ![c] = IF still = {} THEN {} ELSE @]
    /\ UNCHANGED ahead

(* One take settles, innermost first: whoever was chained to it may run,   *)
(* and the Map forgets the key unless somebody has lined up since.         *)
Leave(c) ==
  \E k \in turn[c] :
    LET still == turn[c] \ {k} IN
    /\ phase[c] = "leaving"
    /\ IsLast(k, turn[c])
    /\ turn' = [turn EXCEPT ![c] = still]
    /\ lined' = [lined EXCEPT ![c] = @ \ {k}]
    /\ ahead' = [d \in Callers |->
                   [ahead[d] EXCEPT ![k] = IF @ = c THEN NoCaller ELSE @]]
    /\ last' = [last EXCEPT ![k] = IF @ = c THEN NoCaller ELSE @]
    /\ phase' = [phase EXCEPT ![c] = IF still = {} THEN "idle" ELSE @]
    /\ wants' = [wants EXCEPT ![c] = IF still = {} THEN {} ELSE @]

TurnsStep(c) == TurnComes(c) \/ Settle(c) \/ Leave(c)

TurnsNext == \E c \in Callers : TurnsStep(c) \/ \E ks \in SUBSET Keys : TakeAll(c, ks)

TurnsSpec == TurnsInit /\ [][TurnsNext]_turnVars

-----------------------------------------------------------------------------
(***************************************************************************)
(* Properties.                                                             *)
(***************************************************************************)

(* A key has one turn at a time, whatever takes and takeAlls overlap. *)
OneTurnPerKey ==
  \A c, d \in Callers : c # d => turn[c] \cap turn[d] = {}

(* Nobody waits for a key below one it holds: "two callers sharing keys    *)
(* queue instead of crossing" (Turns.ts:20), so no cycle of waits can form.*)
NeverCrossing ==
  \A c \in Callers : \A held \in turn[c], asked \in wants[c] \ turn[c] : held < asked

(* Seen from outside, the lines are exclusive sections over sets of keys:  *)
(* two pieces of work sharing a key never run together (Turns.ts:1-4).     *)
Sections == INSTANCE ExclusiveSections WITH
  section <- [c \in Callers |-> IF phase[c] = "working" THEN wants[c] ELSE {}],
  inside  <- {c \in Callers : phase[c] = "working"}

SectionsExclusive == Sections!SecSpec

=============================================================================

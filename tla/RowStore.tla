------------------------------ MODULE RowStore ------------------------------
(***************************************************************************)
(* The storage gestures over one Store: core/src/storage/Store.ts, composed*)
(* with the turns of Turns.tla.  Every `await store...` is a step of its   *)
(* own.  update and updateByKeys run inside turns; upsert, create and      *)
(* delete ask for none.                                                    *)
(*                                                                         *)
(* A row is the set of callers whose write it carries: a write that starts *)
(* from the row it read adds one mark, so a lost write is a lost mark.  No *)
(* row is the empty set.                                                   *)
(***************************************************************************)
EXTENDS Turns

VARIABLES
  rows,       \* per key, the marks of the writes the stored row carries
  gesture,    \* per caller, the gesture under way
  input,      \* per caller, the keys of that gesture
  seen,       \* per caller, the keys it has read
  copy,       \* per caller and key, what it read
  written,    \* per caller, the keys it has set
  disturbed   \* per caller, keys it read that a gesture without a turn wrote since

rowVars == <<rows, gesture, input, seen, copy, written, disturbed>>
storeVars == <<turnVars, rowVars>>

Gestures == {"none", "update", "upsert", "create"}
NoRow == {}

RowsTypeOK ==
  /\ rows \in [Keys -> SUBSET Callers]
  /\ gesture \in [Callers -> Gestures]
  /\ input \in [Callers -> SUBSET Keys]
  /\ seen \in [Callers -> SUBSET Keys]
  /\ copy \in [Callers -> [Keys -> SUBSET Callers]]
  /\ written \in [Callers -> SUBSET Keys]
  /\ disturbed \in [Callers -> SUBSET Keys]

StoreTypeOK == TurnsTypeOK /\ RowsTypeOK

StoreInit ==
  /\ TurnsInit
  /\ rows \in [Keys -> SUBSET Callers]
  /\ gesture = [c \in Callers |-> "none"]
  /\ input = [c \in Callers |-> {}]
  /\ seen = [c \in Callers |-> {}]
  /\ copy = [c \in Callers |-> [k \in Keys |-> NoRow]]
  /\ written = [c \in Callers |-> {}]
  /\ disturbed = [c \in Callers |-> {}]

-----------------------------------------------------------------------------
Begin(c, kind, ks) ==
  /\ gesture[c] = "none"
  /\ phase[c] = "idle"
  /\ gesture' = [gesture EXCEPT ![c] = kind]
  /\ input' = [input EXCEPT ![c] = ks]
  /\ UNCHANGED <<rows, seen, copy, written, disturbed>>

(* The gesture answered, or was refused: nothing of it is kept. *)
Forget(c) ==
  /\ gesture' = [gesture EXCEPT ![c] = "none"]
  /\ input' = [input EXCEPT ![c] = {}]
  /\ seen' = [seen EXCEPT ![c] = {}]
  /\ copy' = [copy EXCEPT ![c] = [k \in Keys |-> NoRow]]
  /\ written' = [written EXCEPT ![c] = {}]
  /\ disturbed' = [disturbed EXCEPT ![c] = {}]

Read(c, k) ==
  /\ k \in input[c] \ seen[c]
  /\ seen' = [seen EXCEPT ![c] = @ \cup {k}]
  /\ copy' = [copy EXCEPT ![c][k] = rows[k]]
  /\ UNCHANGED <<rows, gesture, input, written, disturbed>>

(* store.set, over whatever the row has become since it was read. *)
SetRow(c, k) ==
  /\ rows' = [rows EXCEPT ![k] = copy[c][k] \cup {c}]
  /\ written' = [written EXCEPT ![c] = @ \cup {k}]
  /\ UNCHANGED <<gesture, input, seen, copy>>

Disturb(k) ==
  disturbed' = [d \in Callers |->
    IF k \in seen[d] THEN disturbed[d] \cup {k} ELSE disturbed[d]]

Absent(c) == {k \in seen[c] : copy[c][k] = NoRow}

-----------------------------------------------------------------------------
(* Wrong on purpose: the work runs at once, in line for nothing. *)
UpdateWithoutTurns(c, ks) == Begin(c, "update", ks) /\ TakeAll(c, {})

(* update(id, ...) and updateByKeys(ids, ...): in line for every key first. *)
Update(c, ks) == Begin(c, "update", ks) /\ TakeAll(c, ks)

(* The reads run side by side under the turns; none is missing before the  *)
(* first row is judged.                                                    *)
UpdateReads(c) ==
  /\ gesture[c] = "update" /\ phase[c] = "working"
  /\ \E k \in input[c] : Read(c, k)
  /\ UNCHANGED turnVars

(* A key with no row refuses them all. *)
UpdateRefused(c) ==
  /\ gesture[c] = "update" /\ phase[c] = "working"
  /\ seen[c] = input[c] /\ Absent(c) # {} /\ written[c] = {}
  /\ Settle(c) /\ Forget(c) /\ UNCHANGED rows

(* The change answered for the next key, in key order, and its row is set. *)
ChangeLands(c, k) ==
  /\ gesture[c] = "update" /\ phase[c] = "working"
  /\ seen[c] = input[c] /\ Absent(c) = {}
  /\ IsFirst(k, input[c] \ written[c])
  /\ SetRow(c, k)
  /\ UNCHANGED <<turnVars, disturbed>>

(* The change, or a call of the store, threw: rows already set stay set. *)
UpdateThrows(c) ==
  /\ gesture[c] = "update" /\ phase[c] = "working"
  /\ written[c] # input[c]
  /\ Settle(c) /\ Forget(c) /\ UNCHANGED rows

UpdateAnswers(c) ==
  /\ gesture[c] = "update" /\ phase[c] = "working"
  /\ seen[c] = input[c] /\ written[c] = input[c]
  /\ Settle(c) /\ Forget(c) /\ UNCHANGED rows

-----------------------------------------------------------------------------
(* upsert and upsertAll: one key after the other, and no turn. *)
Upsert(c, ks) == ks # {} /\ Begin(c, "upsert", ks) /\ UNCHANGED turnVars

UpsertReads(c, k) ==
  /\ gesture[c] = "upsert"
  /\ seen[c] = written[c]
  /\ Read(c, k)
  /\ UNCHANGED turnVars

UpsertSets(c, k) ==
  /\ gesture[c] = "upsert"
  /\ k \in seen[c] \ written[c]
  /\ SetRow(c, k) /\ Disturb(k)
  /\ UNCHANGED turnVars

(* create and createAll: every key looked up before the first row is set. *)
Create(c, ks) == ks # {} /\ Begin(c, "create", ks) /\ UNCHANGED turnVars

CreateLooks(c, k) == gesture[c] = "create" /\ Read(c, k) /\ UNCHANGED turnVars

CreateRefused(c) ==
  /\ gesture[c] = "create"
  /\ Absent(c) # seen[c]
  /\ Forget(c) /\ UNCHANGED <<rows, turnVars>>

CreateSets(c, k) ==
  /\ gesture[c] = "create"
  /\ seen[c] = input[c] /\ Absent(c) = input[c]
  /\ k \in input[c] \ written[c]
  /\ SetRow(c, k) /\ Disturb(k)
  /\ UNCHANGED turnVars

PlainAnswers(c) ==
  /\ gesture[c] \in {"upsert", "create"}
  /\ written[c] = input[c]
  /\ Forget(c) /\ UNCHANGED <<rows, turnVars>>

PlainThrows(c) ==
  /\ gesture[c] \in {"upsert", "create"}
  /\ written[c] # input[c]
  /\ Forget(c) /\ UNCHANGED <<rows, turnVars>>

(* delete: one call on the store. *)
Delete(c, k) ==
  /\ gesture[c] = "none" /\ phase[c] = "idle"
  /\ rows' = [rows EXCEPT ![k] = NoRow]
  /\ Disturb(k)
  /\ UNCHANGED <<turnVars, gesture, input, seen, copy, written>>

-----------------------------------------------------------------------------
(* What goes on by itself once a gesture has begun. *)
Progress(c) ==
  \/ TurnComes(c) /\ UNCHANGED rowVars
  \/ Leave(c) /\ UNCHANGED rowVars
  \/ UpdateReads(c)
  \/ UpdateRefused(c)
  \/ \E k \in Keys : ChangeLands(c, k)
  \/ UpdateAnswers(c)
  \/ \E k \in Keys : UpsertReads(c, k)
  \/ \E k \in Keys : UpsertSets(c, k)
  \/ \E k \in Keys : CreateLooks(c, k)
  \/ CreateRefused(c)
  \/ \E k \in Keys : CreateSets(c, k)
  \/ PlainAnswers(c)

StoreNext ==
  \E c \in Callers :
    \/ Progress(c)
    \/ UpdateThrows(c)
    \/ PlainThrows(c)
    \/ \E ks \in SUBSET Keys : Update(c, ks) \/ Upsert(c, ks) \/ Create(c, ks)
    \/ \E k \in Keys : Delete(c, k)

(* A settled promise has its continuation run, and a store answers. *)
StoreFairness == \A c \in Callers : WF_storeVars(Progress(c))

StoreSpec == StoreInit /\ [][StoreNext]_storeVars
StoreFairSpec == StoreSpec /\ StoreFairness

-----------------------------------------------------------------------------
(***************************************************************************)
(* Properties.                                                             *)
(***************************************************************************)

(* The row a change is computed from is the row it will replace, whatever  *)
(* other updates and updateByKeys are under way; only a gesture that takes *)
(* no turn can have moved it (Store.ts:162-191).                           *)
HeldRowsUnmoved ==
  \A c \in Callers :
    gesture[c] = "update" =>
      \A k \in seen[c] \ (written[c] \cup disturbed[c]) : rows[k] = copy[c][k]

(* Whoever lines up is served, which is the only way out of a line: sets of*)
(* keys taken in different orders by different callers do not wait for one *)
(* another for ever.                                                       *)
EveryCallerServed ==
  \A c \in Callers : []<>(phase[c] # "lining")

=============================================================================

--------------------------- MODULE RowStoreProofs ---------------------------
(***************************************************************************)
(* RowStore.tla for every set of callers and keys: the row an update is    *)
(* computed from is only ever moved by a gesture that takes no turn.       *)
(***************************************************************************)
EXTENDS Host, TurnsProofs, AppProofs

(* What an update has read and written, against the turns it holds. *)
Working(c) ==
  /\ gesture[c] = "update" => phase[c] \in {"lining", "working"} /\ wants[c] = input[c]
  /\ gesture[c] # "update" => phase[c] \in {"idle", "leaving"}
  /\ gesture[c] = "update" /\ phase[c] = "lining" => seen[c] = {} /\ written[c] = {}
  /\ gesture[c] = "none" => seen[c] = {} /\ written[c] = {}
  /\ seen[c] \subseteq input[c]

AllWorking == \A c \in Callers : Working(c)

RowsInv == RowsTypeOK /\ AllWorking /\ HeldRowsUnmoved

(* The inductive invariant of the store over its turns. *)
RowInv == TurnsInv /\ RowsInv

-----------------------------------------------------------------------------
(* A gesture moves the turns as Turns.tla says, or leaves them alone. *)
LEMMA NextMovesTurns == [StoreNext]_storeVars => [TurnsNext]_turnVars
<1> SUFFICES ASSUME [StoreNext]_storeVars PROVE [TurnsNext]_turnVars
  OBVIOUS
<1>1. ASSUME NEW c \in Callers, Progress(c) PROVE [TurnsNext]_turnVars
  <2>1. CASE (TurnComes(c) \/ Leave(c)) /\ UNCHANGED rowVars
    BY <2>1 DEF TurnsNext, TurnsStep
  <2>2. CASE UpdateRefused(c) \/ UpdateAnswers(c)
    BY <2>2 DEF UpdateRefused, UpdateAnswers, TurnsNext, TurnsStep
  <2>3. CASE \/ UpdateReads(c) \/ CreateRefused(c) \/ PlainAnswers(c)
             \/ \E k \in Keys : \/ ChangeLands(c, k) \/ UpsertReads(c, k) \/ UpsertSets(c, k)
                                \/ CreateLooks(c, k) \/ CreateSets(c, k)
    BY <2>3 DEF UpdateReads, ChangeLands, UpsertReads, UpsertSets, CreateLooks,
                CreateRefused, CreateSets, PlainAnswers
  <2> QED BY <1>1, <2>1, <2>2, <2>3 DEF Progress
<1>2. ASSUME NEW c \in Callers, UpdateThrows(c) \/ PlainThrows(c) PROVE [TurnsNext]_turnVars
  BY <1>2 DEF UpdateThrows, PlainThrows, TurnsNext, TurnsStep
<1>3. ASSUME NEW c \in Callers, NEW ks \in SUBSET Keys, Update(c, ks)
      PROVE  [TurnsNext]_turnVars
  BY <1>3 DEF Update, TurnsNext
<1>4. ASSUME NEW c \in Callers, NEW ks \in SUBSET Keys, Upsert(c, ks) \/ Create(c, ks)
      PROVE  [TurnsNext]_turnVars
  BY <1>4 DEF Upsert, Create
<1>5. ASSUME NEW c \in Callers, NEW k \in Keys, Delete(c, k) PROVE [TurnsNext]_turnVars
  BY <1>5 DEF Delete
<1>6. CASE UNCHANGED storeVars
  BY <1>6 DEF storeVars
<1> QED BY <1>1, <1>2, <1>3, <1>4, <1>5, <1>6 DEF StoreNext

(* The store of Store.ts uses the turns of Turns.ts, whatever it interleaves. *)
THEOREM StoreUsesTurns == StoreSpec => TurnsSpec
<1>1. StoreInit => TurnsInit
  BY DEF StoreInit
<1> QED BY <1>1, NextMovesTurns, PTL DEF StoreSpec, TurnsSpec

(* One gesture on a key at a time inside a turn, over every store gesture.  *)
THEOREM StoreTurnsExclusive == StoreSpec => SectionsExclusive
BY StoreUsesTurns, TurnsImplementSections, PTL

-----------------------------------------------------------------------------
(* A caller that moves only its turns, none of its gesture. *)
LEMMA OnlyTurnsMove ==
  ASSUME TurnsTypeOK, RowsInv, NEW c \in Callers, TurnComes(c) \/ Leave(c), UNCHANGED rowVars
  PROVE  RowsInv'
<1> USE DEF RowsInv, rowVars
<1>1. RowsTypeOK' /\ HeldRowsUnmoved'
  BY DEF RowsTypeOK, HeldRowsUnmoved
<1>2. \A d \in Callers : d # c => phase'[d] = phase[d] /\ wants'[d] = wants[d]
  BY DEF TurnsTypeOK, TurnComes, Leave
<1>3. CASE TurnComes(c)
  <2>1. phase[c] = "lining" /\ phase'[c] \in {"lining", "working"} /\ wants' = wants
    BY <1>3 DEF TurnsTypeOK, TurnComes
  <2> QED BY <1>1, <1>2, <2>1 DEF AllWorking, Working
<1>4. CASE Leave(c)
  <2>1. phase[c] = "leaving" /\ phase'[c] \in {"leaving", "idle"}
    BY <1>4 DEF TurnsTypeOK, Leave
  <2> QED BY <1>1, <1>2, <2>1 DEF AllWorking, Working
<1> QED BY <1>3, <1>4

(* A gesture that begins has read nothing. *)
LEMMA BeginSafe ==
  ASSUME TurnsTypeOK, RowsInv, NEW c \in Callers, NEW ks \in SUBSET Keys,
         Update(c, ks) \/ Upsert(c, ks) \/ Create(c, ks)
  PROVE  RowsInv'
<1> USE DEF RowsInv
<1>1. PICK kind \in {"update", "upsert", "create"} : Begin(c, kind, ks)
  BY DEF Update, Upsert, Create
<1>2. RowsTypeOK'
  BY <1>1 DEF Begin, RowsTypeOK, Gestures
<1>3. Working(c) /\ seen[c] = {} /\ written[c] = {}
  BY <1>1 DEF Begin, AllWorking, Working
<1>4. HeldRowsUnmoved'
  BY <1>1, <1>3 DEF Begin, HeldRowsUnmoved, RowsTypeOK
<1>5. CASE Update(c, ks)
  <2>1. /\ gesture' = [gesture EXCEPT ![c] = "update"] /\ input' = [input EXCEPT ![c] = ks]
        /\ phase'[c] \in {"lining", "working"} /\ wants' = [wants EXCEPT ![c] = ks]
        /\ \A d \in Callers : d # c => phase'[d] = phase[d]
    BY <1>5 DEF Update, Begin, TakeAll, TurnsTypeOK
  <2> QED BY <1>1, <1>2, <1>3, <1>4, <2>1 DEF Begin, AllWorking, Working, TurnsTypeOK, RowsTypeOK
<1>6. CASE Upsert(c, ks) \/ Create(c, ks)
  <2>1. UNCHANGED turnVars /\ gesture'[c] \in {"upsert", "create"}
    BY <1>6 DEF Upsert, Create, Begin, RowsTypeOK
  <2> QED BY <1>1, <1>2, <1>3, <1>4, <2>1 DEF Begin, AllWorking, Working, turnVars, TurnsTypeOK, RowsTypeOK
<1> QED BY <1>5, <1>6

(* A read copies the row as it stands. *)
LEMMA ReadSafe ==
  ASSUME TurnsTypeOK, RowsInv, NEW c \in Callers, NEW k \in Keys, Read(c, k),
         gesture[c] # "none", gesture[c] = "update" => phase[c] = "working",
         UNCHANGED turnVars
  PROVE  RowsInv'
<1> USE DEF RowsInv
<1>1. RowsTypeOK'
  BY DEF Read, RowsTypeOK
<1>2. AllWorking'
  BY DEF Read, RowsTypeOK, AllWorking, Working, turnVars
<1>3. HeldRowsUnmoved'
  BY DEF Read, RowsTypeOK, HeldRowsUnmoved
<1> QED BY <1>1, <1>2, <1>3

(* Inside its turns, a gesture moves no row another update has read. *)
LEMMA ChangeLandsSafe ==
  ASSUME TurnsInv, RowsInv, NEW c \in Callers, NEW k \in Keys, ChangeLands(c, k)
  PROVE  RowsInv'
<1> USE DEF RowsInv
<1>1. /\ gesture[c] = "update" /\ phase[c] = "working" /\ k \in input[c] \ written[c]
      /\ SetRow(c, k) /\ UNCHANGED turnVars /\ disturbed' = disturbed
  BY DEF ChangeLands, IsFirst
<1>2. RowsTypeOK'
  BY <1>1 DEF SetRow, RowsTypeOK
<1>3. AllWorking'
  BY <1>1 DEF SetRow, RowsTypeOK, AllWorking, Working, turnVars
<1>4. \A d \in Callers : gesture[d] = "update" /\ k \in seen[d] => d = c
  <2> SUFFICES ASSUME NEW d \in Callers, gesture[d] = "update", k \in seen[d] PROVE d = c
    OBVIOUS
  <2>1. phase[d] = "working" /\ k \in wants[d] /\ k \in wants[c]
    BY <1>1 DEF AllWorking, Working
  <2>2. k \in turn[d] /\ k \in turn[c]
    BY <1>1, <2>1 DEF TurnsInv, AllStanding, Standing
  <2> QED BY <2>2, InvOneTurn DEF OneTurnPerKey
<1>5. HeldRowsUnmoved'
  BY <1>1, <1>4 DEF SetRow, RowsTypeOK, HeldRowsUnmoved
<1> QED BY <1>2, <1>3, <1>5

(* Outside every turn, a gesture that moves a row says whom it disturbed. *)
LEMMA PlainSetSafe ==
  ASSUME TurnsTypeOK, RowsInv, NEW c \in Callers, NEW k \in Keys,
         UpsertSets(c, k) \/ CreateSets(c, k) \/ Delete(c, k)
  PROVE  RowsInv'
<1> USE DEF RowsInv
<1>1. /\ Disturb(k) /\ UNCHANGED <<turnVars, gesture, input, seen, copy>>
      /\ \E r \in SUBSET Callers : rows' = [rows EXCEPT ![k] = r]
      /\ written' = written \/ (gesture[c] \in {"upsert", "create"}
                                /\ written' = [written EXCEPT ![c] = @ \cup {k}])
  BY DEF UpsertSets, CreateSets, Delete, SetRow, RowsTypeOK, NoRow
<1>2. RowsTypeOK'
  <2>1. disturbed' \in [Callers -> SUBSET Keys]
    BY <1>1 DEF Disturb, RowsTypeOK
  <2>2. written' \in [Callers -> SUBSET Keys]
    <3>1. written \in [Callers -> SUBSET Keys]
      BY DEF RowsTypeOK
    <3>2. \/ written' = written
          \/ written' = [written EXCEPT ![c] = @ \cup {k}]
      BY <1>1
    <3> QED BY <3>1, <3>2
  <2> QED BY <1>1, <2>1, <2>2 DEF RowsTypeOK
<1>3. AllWorking'
  BY <1>1 DEF RowsTypeOK, AllWorking, Working, turnVars
<1>4. HeldRowsUnmoved'
  BY <1>1 DEF Disturb, RowsTypeOK, HeldRowsUnmoved
<1> QED BY <1>2, <1>3, <1>4

(* A gesture that ends keeps nothing. *)
LEMMA EndSafe ==
  ASSUME TurnsTypeOK, RowsInv, NEW c \in Callers, Forget(c), UNCHANGED rows,
         gesture[c] # "none",
         \/ gesture[c] = "update" /\ Settle(c)
         \/ gesture[c] # "update" /\ UNCHANGED turnVars
  PROVE  RowsInv'
<1> USE DEF RowsInv
<1>1. RowsTypeOK'
  BY DEF Forget, RowsTypeOK, Gestures, NoRow
<1>2. HeldRowsUnmoved'
  BY DEF Forget, RowsTypeOK, HeldRowsUnmoved
<1>3. /\ phase'[c] \in {"idle", "leaving"}
      /\ \A d \in Callers : d # c => phase'[d] = phase[d] /\ wants'[d] = wants[d]
  BY DEF Settle, TurnsTypeOK, turnVars, AllWorking, Working
<1>4. AllWorking'
  BY <1>3 DEF Forget, RowsTypeOK, AllWorking, Working
<1> QED BY <1>1, <1>2, <1>4

-----------------------------------------------------------------------------
LEMMA RowInvInit == StoreInit => RowInv
<1> SUFFICES ASSUME StoreInit PROVE RowInv
  OBVIOUS
<1>1. TurnsInv
  BY TurnsInvInit DEF StoreInit
<1>2. RowsTypeOK
  BY DEF StoreInit, RowsTypeOK, Gestures, NoRow
<1>3. AllWorking /\ HeldRowsUnmoved
  BY DEF StoreInit, TurnsInit, AllWorking, Working, HeldRowsUnmoved
<1> QED BY <1>1, <1>2, <1>3 DEF RowInv, RowsInv

LEMMA RowInvStep == RowInv /\ [StoreNext]_storeVars => RowInv'
<1> SUFFICES ASSUME RowInv, [StoreNext]_storeVars PROVE RowInv'
  OBVIOUS
<1>1. TurnsInv /\ TurnsTypeOK /\ RowsInv
  BY DEF RowInv, RowsInv, TurnsInv
<1>2. TurnsInv'
  BY <1>1, NextMovesTurns, TurnsInvStep
<1>3. ASSUME NEW c \in Callers, Progress(c) PROVE RowsInv'
  <2>1. CASE (TurnComes(c) \/ Leave(c)) /\ UNCHANGED rowVars
    BY <1>1, <2>1, OnlyTurnsMove
  <2>2. CASE UpdateReads(c)
    BY <1>1, <2>2, ReadSafe DEF UpdateReads, RowsInv, RowsTypeOK
  <2>3. CASE UpdateRefused(c) \/ UpdateAnswers(c)
    BY <1>1, <2>3, EndSafe DEF UpdateRefused, UpdateAnswers
  <2>4. ASSUME NEW k \in Keys, ChangeLands(c, k) PROVE RowsInv'
    BY <1>1, <2>4, ChangeLandsSafe
  <2>5. ASSUME NEW k \in Keys, UpsertReads(c, k) \/ CreateLooks(c, k) PROVE RowsInv'
    BY <1>1, <2>5, ReadSafe DEF UpsertReads, CreateLooks
  <2>6. ASSUME NEW k \in Keys, UpsertSets(c, k) \/ CreateSets(c, k) PROVE RowsInv'
    BY <1>1, <2>6, PlainSetSafe
  <2>7. CASE CreateRefused(c) \/ PlainAnswers(c)
    BY <1>1, <2>7, EndSafe DEF CreateRefused, PlainAnswers
  <2> QED BY <1>3, <2>1, <2>2, <2>3, <2>4, <2>5, <2>6, <2>7 DEF Progress
<1>4. ASSUME NEW c \in Callers, UpdateThrows(c) \/ PlainThrows(c) PROVE RowsInv'
  BY <1>1, <1>4, EndSafe DEF UpdateThrows, PlainThrows
<1>5. ASSUME NEW c \in Callers, NEW ks \in SUBSET Keys,
             Update(c, ks) \/ Upsert(c, ks) \/ Create(c, ks)
      PROVE  RowsInv'
  BY <1>1, <1>5, BeginSafe
<1>6. ASSUME NEW c \in Callers, NEW k \in Keys, Delete(c, k) PROVE RowsInv'
  BY <1>1, <1>6, PlainSetSafe
<1>7. ASSUME UNCHANGED storeVars PROVE RowsInv'
  <2>1. UNCHANGED turnVars /\ UNCHANGED rowVars
    BY <1>7 DEF storeVars
  <2>2. RowsTypeOK' /\ HeldRowsUnmoved'
    BY <1>1, <2>1 DEF rowVars, RowsInv, RowsTypeOK, HeldRowsUnmoved
  <2>3. AllWorking'
    BY <1>1, <2>1 DEF turnVars, rowVars, RowsInv, AllWorking, Working
  <2> QED BY <2>2, <2>3 DEF RowsInv
<1>8. RowsInv'
  <2>1. CASE StoreNext
    BY <1>3, <1>4, <1>5, <1>6, <2>1, Zenon DEF StoreNext
  <2> QED BY <1>7, <2>1
<1> QED BY <1>2, <1>8 DEF RowInv, RowsInv

LEMMA RowInvariant == StoreSpec => []RowInv
BY RowInvInit, RowInvStep, PTL DEF StoreSpec

(* Every variable of the store and of its turns keeps its type. *)
THEOREM StoreTyped == StoreSpec => []StoreTypeOK
<1>1. RowInv => StoreTypeOK
  BY DEF RowInv, RowsInv, TurnsInv, StoreTypeOK
<1> QED BY <1>1, RowInvariant, PTL

(* Store.ts:162-191: between an update's read and its write, no other      *)
(* update moves the row; whatever did took no turn.                        *)
THEOREM UpdatesReadWhatTheyReplace == StoreSpec => []HeldRowsUnmoved
<1>1. RowInv => HeldRowsUnmoved
  BY DEF RowInv, RowsInv
<1> QED BY <1>1, RowInvariant, PTL

-----------------------------------------------------------------------------
(* Host.tla: the turns from app to app, the one that comes down, the rows. *)
LEMMA HostRunsAll == AppSpec => HostSpec /\ ClosingSpec /\ StoreSpec
<1>1. AppInit => HostInit /\ ClosingInit /\ StoreInit
  BY DEF AppInit
<1>2. [AppNext]_appVars => [HostNext]_hostVars /\ [ClosingNext]_closingVars /\ [StoreNext]_storeVars
  BY DEF AppNext, appVars
<1> QED BY <1>1, <1>2, PTL DEF AppSpec, HostSpec, ClosingSpec, StoreSpec

(* A host keeps its types while apps follow each other, one comes down and *)
(* callers write (boot.ts, ascent.ts with the container, Store.ts).        *)
THEOREM AppKeepsItsTypes == AppSpec => []AppTypeOK
<1>1. HostTypeOK /\ ClosingTypeOK /\ StoreTypeOK => AppTypeOK
  BY DEF AppTypeOK
<1> QED BY <1>1, HostRunsAll, HostTyped, ClosingTyped, StoreTyped, PTL

=============================================================================

------------------------------ MODULE Migrate ------------------------------
(***************************************************************************)
(* One entity, its frozen versions and one table that follows them:        *)
(* `fougere freeze` (cli/…/FreezeHandler.ts, versions.ts), `fougere        *)
(* migrate` (MigrateHandler.ts), the plan it runs (adapter/sql/src/step/   *)
(* Plan.ts) and the additive pass after it (diff/Change.ts).  A freeze     *)
(* records the one change made since the freeze before.                    *)
(*                                                                         *)
(* A field keeps its number through its renames: a column is the set of    *)
(* the fields whose values it holds, so that values left under another     *)
(* name, or under another field's, are seen.  Statements run one by one,   *)
(* outside any transaction, and the process may stop between two of them;  *)
(* two release steps may run at once.  "tightened" stands for every change *)
(* that `realise` refuses.                                                 *)
(***************************************************************************)
EXTENDS Naturals, SequencesExt

CONSTANTS
  Names,        \* the names a field may have
  First,        \* the name of the field the first version has
  Migrators,    \* the release steps that may run
  Latest,       \* is this a local database, which need not wait for a freeze
  NamesReturn,  \* may a name that was used be used again
  MaxEdits, MaxDeploys, MaxTightened

ASSUME FirstIsAName == First \in Names
ASSUME MigrateBounds == {MaxEdits, MaxDeploys, MaxTightened} \subseteq Nat
ASSUME MigrateSwitches == {Latest, NamesReturn} \subseteq BOOLEAN

VARIABLES
  shape,     \* per name, the field it declares on the disk, 0 for none
  born,      \* how many fields there have been
  line,      \* the steps of the frozen versions, end to end
  unfrozen,  \* the change no version records yet
  previous,  \* the rename the entity declares
  chain,     \* what the line and the entity say together, composed
  column,    \* per name, the fields whose values its column holds
  there,     \* the names the table has a column for
  written,   \* the fields the app has written values of
  stage,     \* per migrator, what it is doing
  plan,      \* per migrator, the statements of its plan left to run
  lacks,     \* per migrator, the columns its additive pass has still to add
  stranded,  \* has the table been asked for, at a name the line passes through
  edits, deploys, tightened

disk == <<shape, born, line, unfrozen, previous, chain, edits, tightened>>
table == <<column, there>>
migrateVars == <<disk, table, written, stage, plan, lacks, stranded, deploys>>

FieldIds == 0..(MaxEdits + 1)
Kinds == {"renamed", "removed", "added", "tightened"}
StepChange == [kind : Kinds, name : Names, to : Names]

MigrateTypeOK ==
  /\ shape \in [Names -> FieldIds] /\ born \in FieldIds
  /\ line \in Seq(StepChange) /\ unfrozen \in Seq(StepChange) /\ previous \in Seq(StepChange)
  /\ chain \in Seq(StepChange)
  /\ column \in [Names -> SUBSET FieldIds] /\ there \in SUBSET Names
  /\ \A n \in Names \ there : column[n] = {}
  /\ written \in SUBSET FieldIds
  /\ stage \in [Migrators -> {"idle", "moving", "adding"}]
  /\ plan \in [Migrators -> Seq(StepChange)]
  /\ lacks \in [Migrators -> SUBSET Names]
  /\ stranded \in BOOLEAN
  /\ edits \in 0..MaxEdits /\ deploys \in 0..MaxDeploys /\ tightened \in 0..MaxTightened

(* A first version with one field, and no table yet. *)
MigrateInit ==
  /\ shape = [n \in Names |-> IF n = First THEN 1 ELSE 0]
  /\ born = 1 /\ line = <<>> /\ unfrozen = <<>> /\ previous = <<>> /\ chain = <<>>
  /\ column = [n \in Names |-> {}] /\ there = {} /\ written = {}
  /\ stage = [m \in Migrators |-> "idle"]
  /\ plan = [m \in Migrators |-> <<>>]
  /\ lacks = [m \in Migrators |-> {}]
  /\ stranded = FALSE
  /\ edits = 0 /\ deploys = 0 /\ tightened = 0

-----------------------------------------------------------------------------
(* Were each step planned by itself. *)
Appended(held, change) == Append(held, change)

(* One change added to what the chain has said so far. *)
Compose(held, change) ==
  LET at == SelectInSeq(held, LAMBDA each : each.kind = "renamed" /\ each.to = change.name)
      on == at # 0 /\ change.kind = "renamed"
      gone == IF change.kind = "removed" THEN RemoveAt(held, at) ELSE held
  IN CASE at = 0 -> Append(held, change)
       [] on /\ held[at].name = change.to -> RemoveAt(held, at)
       [] on /\ held[at].name # change.to -> [held EXCEPT ![at].to = change.to]
       [] OTHER -> Append(gone, [change EXCEPT !.name = held[at].name])

CollapseChain(steps) ==
  LET said[i \in 0..Len(steps)] == IF i = 0 THEN <<>> ELSE Compose(said[i - 1], steps[i])
  IN said[Len(steps)]

(* A sequence less what is in a set. *)
Without(s, S) ==
  LET left[i \in 0..Len(s)] ==
        IF i = 0 THEN <<>> ELSE IF s[i] \in S THEN left[i - 1] ELSE Append(left[i - 1], s[i])
  IN left[Len(s)]

(* The frond's chain, the fronds', and what the entity declares beside them. *)
Composed(steps, declared) ==
  LET frozen == CollapseChain(CollapseChain(steps))
      said == Without(declared, ToSet(frozen))
  IN CollapseChain(frozen \o said)

(* What the disk says.                                                     *)
Declared == {n \in Names : shape[n] # 0}
Named == Declared \cup {line[i].name : i \in DOMAIN line} \cup {line[i].to : i \in DOMAIN line}
Usable == IF NamesReturn THEN Names \ Declared ELSE Names \ Named

(* Nobody migrates: what a migration reads off the disk stays as it read it. *)
AtRest == \A m \in Migrators : stage[m] = "idle"

Edits(change, sh) ==
  /\ unfrozen = <<>> /\ edits < MaxEdits /\ AtRest
  /\ edits' = edits + 1
  /\ shape' = sh
  /\ unfrozen' = <<change>>
  /\ UNCHANGED <<line, table, written, stage, plan, lacks, stranded, deploys>>

Renames ==
  \E n \in Declared, to \in Usable :
    LET change == [kind |-> "renamed", name |-> n, to |-> to] IN
    /\ Edits(change, [shape EXCEPT ![n] = 0, ![to] = shape[n]])
    /\ previous' = <<change>> /\ chain' = Composed(line, <<change>>)
    /\ UNCHANGED <<born, tightened>>

Removes ==
  \E n \in Declared :
    /\ Edits([kind |-> "removed", name |-> n, to |-> n], [shape EXCEPT ![n] = 0])
    /\ previous' = Without(previous, {p \in ToSet(previous) : p.to = n})
    /\ chain' = Composed(line, previous')
    /\ UNCHANGED <<born, tightened>>

Adds ==
  \E n \in Usable :
    /\ Edits([kind |-> "added", name |-> n, to |-> n], [shape EXCEPT ![n] = born + 1])
    /\ born' = born + 1
    /\ UNCHANGED <<previous, chain, tightened>>

Tightens ==
  \E n \in Declared :
    /\ tightened < MaxTightened
    /\ Edits([kind |-> "tightened", name |-> n, to |-> n], shape)
    /\ tightened' = tightened + 1
    /\ UNCHANGED <<born, previous, chain>>

Freezes ==
  /\ unfrozen # <<>> /\ AtRest
  /\ line' = line \o unfrozen
  /\ chain' = Composed(line', previous)
  /\ unfrozen' = <<>>
  /\ UNCHANGED <<shape, born, previous, edits, tightened, table, written, stage, plan, lacks, stranded, deploys>>

(* "Once frozen, the declaration has done its work and can go." *)
Undeclares ==
  /\ unfrozen = <<>> /\ previous # <<>> /\ AtRest
  /\ previous' = <<>>
  /\ chain' = Composed(line, <<>>)
  /\ UNCHANGED <<shape, born, line, unfrozen, edits, tightened, table, written, stage, plan, lacks, stranded, deploys>>

-----------------------------------------------------------------------------
(* A change whose old name is gone has nothing left to carry. *)
Done(change) == change.name \notin there

Refused == \E i \in DOMAIN chain : chain[i].kind = "tightened"
Planned == Without(chain, {c \in ToSet(chain) : c.kind \notin {"renamed", "removed"} \/ Done(c)})
Missing == Declared \ there

(* A column stands at a name the changes reach and leave again: the plan,  *)
(* which knows where a field began and where it ends, has no word for it.  *)
Between ==
  LET said == line \o unfrozen IN
  \E i, j \in DOMAIN said :
    i < j /\ said[i].kind = "renamed" /\ said[j].name = said[i].to
      /\ said[j].kind \in {"renamed", "removed"} /\ said[i].to \in there

(* The plan of a process that read versions, entities and columns at once. *)
Plans(m) ==
  /\ stage[m] = "idle" /\ deploys < MaxDeploys
  /\ Latest \/ unfrozen = <<>>
  /\ ~Refused
  /\ deploys' = deploys + 1
  /\ stage' = [stage EXCEPT ![m] = "moving"]
  /\ plan' = [plan EXCEPT ![m] = Planned]
  /\ stranded' = (stranded \/ Between)
  /\ UNCHANGED <<disk, table, written, lacks>>

Accepts(statement) ==
  statement.name \in there /\ (statement.kind = "renamed" => statement.to \notin there)

RenameColumn(from, to) ==
  /\ there' = (there \ {from}) \cup {to}
  /\ column' = [column EXCEPT ![to] = column[from], ![from] = {}]

DropColumn(n) ==
  /\ there' = there \ {n}
  /\ column' = [column EXCEPT ![n] = {}]

(* applyStep: what touches live data, statement after statement. *)
Moves(m) ==
  /\ stage[m] = "moving" /\ plan[m] # <<>>
  /\ Accepts(Head(plan[m]))
  /\ IF Head(plan[m]).kind = "renamed"
     THEN RenameColumn(Head(plan[m]).name, Head(plan[m]).to)
     ELSE DropColumn(Head(plan[m]).name)
  /\ plan' = [plan EXCEPT ![m] = Tail(@)]
  /\ UNCHANGED <<disk, written, stage, lacks, stranded, deploys>>

(* Were the columns added before any was moved. *)
AddsFirst(m) == stage[m] = "moving"

MovedAll(m) == stage[m] = "moving" /\ plan[m] = <<>>

(* The additive pass reads the columns again. *)
ReadsMissing(m) ==
  /\ MovedAll(m)
  /\ stage' = [stage EXCEPT ![m] = "adding"]
  /\ lacks' = [lacks EXCEPT ![m] = Missing]
  /\ UNCHANGED <<disk, table, written, plan, stranded, deploys>>

(* Were the pass to make the table what the entity declares. *)
OnlyDeclared == there \cap Declared

(* It is additive: "nothing is dropped behind your back" (drift.ts). *)
Kept == there

(* A table that is not there is created whole; a column, by itself. *)
AddsColumn(m) ==
  /\ stage[m] = "adding"
  /\ \E ns \in (IF there = {} THEN {lacks[m]} ELSE {{n} : n \in lacks[m]}) :
       /\ ns # {} /\ ns \cap there = {}
       /\ there' = Kept \cup ns
       /\ column' = [n \in Names |-> IF n \in Kept THEN column[n] ELSE {}]
       /\ lacks' = [lacks EXCEPT ![m] = @ \ ns]
  /\ UNCHANGED <<disk, written, stage, plan, stranded, deploys>>

Ends(m) ==
  /\ stage' = [stage EXCEPT ![m] = "idle"]
  /\ plan' = [plan EXCEPT ![m] = <<>>]
  /\ lacks' = [lacks EXCEPT ![m] = {}]
  /\ UNCHANGED <<disk, table, written, stranded, deploys>>

Completes(m) == stage[m] = "adding" /\ lacks[m] = {} /\ Ends(m)

(* A statement the engine refuses, or a process that stops between two. *)
BreaksOff(m) == stage[m] # "idle" /\ Ends(m)

(* The boot refuses a table that lacks a column; an app that is up writes. *)
Serves ==
  /\ Missing = {} /\ AtRest
  /\ column' = [n \in Names |-> IF n \in Declared THEN column[n] \cup {shape[n]} ELSE column[n]]
  /\ written' = written \cup {shape[n] : n \in Declared}
  /\ UNCHANGED <<disk, there, stage, plan, lacks, stranded, deploys>>

MigratorStep(m) ==
  \/ Plans(m) \/ Moves(m) \/ ReadsMissing(m) \/ AddsColumn(m) \/ Completes(m) \/ BreaksOff(m)

MigrateNext ==
  \/ Renames \/ Removes \/ Adds \/ Tightens \/ Freezes \/ Undeclares \/ Serves
  \/ \E m \in Migrators : MigratorStep(m)

MigrateSpec == MigrateInit /\ [][MigrateNext]_migrateVars

-----------------------------------------------------------------------------
(***************************************************************************)
(* Properties.                                                             *)
(***************************************************************************)

Follows ==
  \A n \in Declared :
    /\ column[n] \subseteq {shape[n]}
    /\ shape[n] \in written => shape[n] \in column[n]

(* A table the boot accepts holds, under each name, every value written to *)
(* that field under any name and no other's: "the rows follow" (site,      *)
(* data/evolve), however far behind the table was, wherever a migration    *)
(* broke off and whichever ran beside it, unless a plan met a column at a  *)
(* name the line passes through.                                           *)
DataFollowsItsField == (Missing = {} /\ AtRest) => Follows \/ stranded

(* The same without the exception: "Nothing has to know which version the  *)
(* database sits at" (site, data/evolve).                                  *)
DataFollowsFromAnywhere == (Missing = {} /\ AtRest) => Follows

(* Values go with their field's removal and with nothing else: whatever a  *)
(* migration does, those of a field that is declared are in some column.   *)
NothingDeclaredIsDestroyed ==
  [][\A n \in Declared :
       (\E k \in Names : shape[n] \in column[k])
         => (\E k \in Names : shape[n] \in column'[k])]_migrateVars

(* "Run `migrate` twice and the second run answers up to date" (site,      *)
(* data/evolve): a migration that completed leaves nothing to plan.        *)
LeavesNothingToPlan ==
  [][\A m \in Migrators : Completes(m) => (Missing' = {} /\ Planned' = <<>>)]_migrateVars

=============================================================================

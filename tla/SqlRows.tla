------------------------------- MODULE SqlRows -------------------------------
(***************************************************************************)
(* Writes over one SQL engine: adapter/sql/src/crud/SqlStorage.ts, the     *)
(* transaction of source/SqlSource.ts and the block of together.ts that    *)
(* runs in it.  A caller is one transaction, a block of gestures:          *)
(*   "change"  update(id, change) or updateByKeys(ids, change): a turn for *)
(*             every row it does not hold yet (Turns.tla), the lock        *)
(*             statement from inside the turns, the change, the write;     *)
(*   "plain"   a statement that locks and writes its row by itself:        *)
(*             update(id, patch), upsert, delete.                          *)
(* A gesture outside a block opens its own transaction: a block of one.    *)
(*                                                                         *)
(* The engine is external and modelled by what the code needs of it: row   *)
(* locks kept to the end of the transaction, granted to any waiter, a      *)
(* rollback, and a victim chosen in a circle of waits for LOCKS.  It knows *)
(* nothing of the turns.  A row is the set of blocks whose write it        *)
(* carries: a lost write is a lost mark.                                   *)
(***************************************************************************)
EXTENDS Turns, Sequences

CONSTANT Programs   \* the blocks a caller may run, as sequences of gestures

Gestures == [kind : {"change", "plain"}, keys : SUBSET Keys]
ASSUME ProgramsAreGestures == Programs \subseteq Seq(Gestures)

VARIABLES
  block,    \* per caller, the gestures of its block
  todo,     \* per caller, those it has still to make
  at,       \* per caller, where the gesture under way stands
  outcome,  \* per caller, whether its block stands, fell, or runs
  mine,     \* per caller, the rows its connection is known to hold (SqlStorage.held)
  owner,    \* per key, the transaction that has its lock
  rows,     \* per key, the marks its row carries
  seen      \* per caller and key, what the lock statement read

sqlVars == <<block, todo, at, outcome, mine, owner, rows, seen>>
sqlAll == <<turnVars, sqlVars>>

SqlTypeOK ==
  /\ TurnsTypeOK
  /\ block \in [Callers -> Seq(Gestures)]
  /\ todo \in [Callers -> Seq(Gestures)]
  /\ at \in [Callers -> {"body", "lock", "change"}]
  /\ outcome \in [Callers -> {"running", "stands", "fell"}]
  /\ mine \in [Callers -> SUBSET Keys]
  /\ owner \in [Keys -> Callers \cup {NoCaller}]
  /\ rows \in [Keys -> SUBSET Callers]
  /\ seen \in [Callers -> [Keys -> SUBSET Callers]]

SqlInitWith(program) ==
  /\ TurnsInit
  /\ block = program
  /\ todo = program
  /\ at = [t \in Callers |-> "body"]
  /\ outcome = [t \in Callers |-> "running"]
  /\ mine = [t \in Callers |-> {}]
  /\ owner = [k \in Keys |-> NoCaller]
  /\ rows = [k \in Keys |-> {}]
  /\ seen = [t \in Callers |-> [k \in Keys |-> {}]]

SqlInit == \E program \in [Callers -> Programs] : SqlInitWith(program)

-----------------------------------------------------------------------------
Runs(t, stage) == outcome[t] = "running" /\ at[t] = stage
Faces(t, kind) == todo[t] # <<>> /\ Head(todo[t]).kind = kind
Sought(t) == IF todo[t] = <<>> THEN {} ELSE Head(todo[t]).keys
Unlocked(t) == {k \in Sought(t) : owner[k] # t}

(* Were every row asked for in line, and were none. *)
NoLine(t) == {}

(* inTurn: a row this transaction already holds needs no turn. *)
InLine(t) == Sought(t) \ mine[t]

AsksTurns(t) ==
  /\ Runs(t, "body") /\ Faces(t, "change")
  /\ TakeAll(t, InLine(t))
  /\ at' = [at EXCEPT ![t] = "lock"]
  /\ UNCHANGED <<block, todo, outcome, mine, owner, rows, seen>>

(* for update, or the touch that writes the key onto itself: the lock      *)
(* statement goes row by row, in key order, and waits at each one.         *)
LocksRow(t) ==
  \E k \in Unlocked(t) :
    /\ Runs(t, "lock") /\ phase[t] = "working"
    /\ IsFirst(k, Unlocked(t))
    /\ owner[k] = NoCaller
    /\ owner' = [owner EXCEPT ![k] = t]
    /\ seen' = [seen EXCEPT ![t][k] = rows[k]]
    /\ UNCHANGED <<turnVars, block, todo, at, outcome, mine, rows>>

(* Were only the rows of this gesture kept. *)
OnlyThese(t) == [k \in Sought(t) |-> rows[k]]

(* A row held already is read again by the statement of another gesture. *)
Reread(t) == [k \in Keys |-> IF k \in Sought(t) THEN rows[k] ELSE seen[t][k]]

(* Were the statement not awaited. *)
Unasked(t) == TRUE

Locked(t) == Unlocked(t) = {}

(* The statement answered: the turns are given back, the locks are not. *)
RowsHeld(t) ==
  /\ Runs(t, "lock") /\ Locked(t)
  /\ Settle(t)
  /\ mine' = [mine EXCEPT ![t] = @ \cup Sought(t)]
  /\ seen' = [seen EXCEPT ![t] = Reread(t)]
  /\ at' = [at EXCEPT ![t] = "change"]
  /\ UNCHANGED <<block, todo, outcome, owner, rows>>

Onward(t) ==
  /\ todo' = [todo EXCEPT ![t] = Tail(@)]
  /\ at' = [at EXCEPT ![t] = "body"]

(* The change answered for every row, and the rows are written. *)
ChangeWrites(t) ==
  /\ Runs(t, "change") /\ phase[t] = "idle"
  /\ rows' = [k \in Keys |-> IF k \in Sought(t) THEN seen[t][k] \cup {t} ELSE rows[k]]
  /\ Onward(t)
  /\ UNCHANGED <<turnVars, block, outcome, mine, owner, seen>>

PlainWrites(t) ==
  \E k \in Keys :
    /\ Runs(t, "body") /\ Faces(t, "plain") /\ Sought(t) = {k}
    /\ owner[k] \in {NoCaller, t}
    /\ owner' = [owner EXCEPT ![k] = t]
    /\ rows' = [rows EXCEPT ![k] = @ \cup {t}]
    /\ Onward(t)
    /\ UNCHANGED <<turnVars, block, outcome, mine, seen>>

-----------------------------------------------------------------------------
Freed(t) == [k \in Keys |-> IF owner[k] = t THEN NoCaller ELSE owner[k]]

(* The block returned: the transaction commits. *)
Commits(t) ==
  /\ Runs(t, "body") /\ todo[t] = <<>>
  /\ outcome' = [outcome EXCEPT ![t] = "stands"]
  /\ owner' = Freed(t)
  /\ UNCHANGED <<turnVars, block, todo, at, mine, rows, seen>>

(* Were each gesture a transaction of its own: what it wrote stays. *)
LeftAsItIs(t) == rows

(* The before-image of every row this transaction wrote. *)
Restored(t) == [k \in Keys |-> rows[k] \ {t}]

(* Whatever refuses, the turns are given back and the transaction undoes   *)
(* what it wrote; rows counted as held stay so, on a connection done with. *)
RollsBack(t) ==
  /\ outcome' = [outcome EXCEPT ![t] = "fell"]
  /\ owner' = Freed(t)
  /\ rows' = Restored(t)
  /\ UNCHANGED <<block, todo, at, seen>>
  /\ IF Runs(t, "lock")
     THEN Settle(t) /\ mine' = [mine EXCEPT ![t] = @ \cup Sought(t)]
     ELSE UNCHANGED <<turnVars, mine>>

(* The block, a change or a statement throws, or a row is not there. *)
Throws(t) ==
  /\ outcome[t] = "running"
  /\ phase[t] = IF at[t] = "lock" THEN "working" ELSE "idle"
  /\ RollsBack(t)

(* Whose lock a statement of t waits for, as the engine sees it. *)
LockAwaited(t) ==
  IF outcome[t] # "running" THEN {}
  ELSE IF at[t] = "lock" /\ phase[t] = "working"
       THEN {owner[k] : k \in {j \in Unlocked(t) : IsFirst(j, Unlocked(t))}} \ {NoCaller}
       ELSE IF at[t] = "body" /\ Faces(t, "plain")
            THEN {owner[k] : k \in Unlocked(t)} \ {NoCaller}
            ELSE {}

InCircle(t) ==
  \E S \in SUBSET Callers :
    /\ t \in S
    /\ \A u \in S : LockAwaited(u) # {} /\ LockAwaited(u) \subseteq S
    /\ \A u \in S : \E v \in S : u \in LockAwaited(v)

(* The engine gives up on one of a circle; the gesture answers CONFLICT. *)
EngineGivesUpOn(t) == InCircle(t) /\ RollsBack(t)

SqlProgress(t) ==
  \/ AsksTurns(t)
  \/ TurnComes(t) /\ UNCHANGED sqlVars
  \/ LocksRow(t)
  \/ RowsHeld(t)
  \/ Leave(t) /\ UNCHANGED sqlVars
  \/ ChangeWrites(t)
  \/ PlainWrites(t)
  \/ Commits(t)
  \/ EngineGivesUpOn(t)

SqlNext == \E t \in Callers : SqlProgress(t) \/ Throws(t)

(* A block's own code goes on, a settled promise is continued, the engine  *)
(* answers whoever can have what it waits for.                             *)
SqlFairness == \A t \in Callers : WF_sqlAll(SqlProgress(t))

SqlSpec == SqlInit /\ [][SqlNext]_sqlAll
SqlFairSpec == SqlSpec /\ SqlFairness

-----------------------------------------------------------------------------
(***************************************************************************)
(* Properties.                                                             *)
(***************************************************************************)

(* A change lands on the row it read, whoever writes beside it, with turns *)
(* or without: "no other write reaches that row between the read and the   *)
(* write" (SqlStorage.ts:587).                                             *)
ChangeLandsOnWhatItRead ==
  \A t \in Callers :
    Runs(t, "change") => \A k \in Sought(t) : rows[k] = seen[t][k]

(* Two changes never race for one lock in the engine, which keeps no order:*)
(* "a transaction waits its turn here rather than racing for it there"     *)
(* (SqlStorage.ts:113-120).                                                *)
NoRaceForALock ==
  \A t, u \in Callers :
    (t # u /\ Runs(t, "lock") /\ Runs(u, "lock") /\ phase[t] = "working" /\ phase[u] = "working")
      => Unlocked(t) \cap Unlocked(u) = {}

(* A block happens entirely or not at all, and takes nothing of another    *)
(* away, seen from whoever reads what is committed.                        *)
Atomic == INSTANCE AtomicBlocks WITH
  touches <- [t \in Callers |-> UNION {block[t][i].keys : i \in DOMAIN block[t]}],
  stored  <- [k \in Keys |-> {t \in rows[k] : outcome[t] # "running"}],
  ended   <- {t \in Callers : outcome[t] # "running"}

BlocksAreAtomic == Atomic!BlocksSpec

(* Every block ends, standing or refused: "they cannot stop each other"    *)
(* (site, data/together).                                                  *)
EveryBlockEnds == \A t \in Callers : []<>(outcome[t] # "running")

=============================================================================

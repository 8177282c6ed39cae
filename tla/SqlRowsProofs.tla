---------------------------- MODULE SqlRowsProofs ----------------------------
(***************************************************************************)
(* SqlRows.tla for every set of callers, keys and programs: a change lands *)
(* on the row it read, two changes never race in the engine for one lock,  *)
(* and blocks are atomic.  The turns keep the race away; the engine's      *)
(* locks alone carry the other two.                                        *)
(***************************************************************************)
EXTENDS Database, TurnsProofs, MigrateProofs

(* How far a block is, against the marks its rows carry. *)
Made(t) ==
  \E n \in 0..Len(block[t]) :
    /\ Len(todo[t]) = Len(block[t]) - n
    /\ \A i \in 1..Len(todo[t]) : todo[t][i] = block[t][n + i]
    /\ \A k \in Keys : t \in rows[k] <=> \E i \in 1..n : k \in block[t][i].keys

(* What a block that runs has marked, it has locked; what it counts as     *)
(* locked is; and where it stands in its gesture says what that holds.     *)
Own(t) ==
  outcome[t] = "running" =>
    /\ \A k \in Keys : t \in rows[k] => owner[k] = t
    /\ \A k \in mine[t] : owner[k] = t
    /\ at[t] = "lock" => phase[t] \in {"lining", "working"} /\ wants[t] = InLine(t)
    /\ at[t] # "body" => todo[t] # <<>>
    /\ at[t] = "change" => \A k \in Sought(t) : owner[k] = t /\ rows[k] = seen[t][k]
    /\ Made(t)

SqlTyped ==
  /\ block \in [Callers -> Seq(Gestures)]
  /\ todo \in [Callers -> Seq(Gestures)]
  /\ at \in [Callers -> {"body", "lock", "change"}]
  /\ outcome \in [Callers -> {"running", "stands", "fell"}]
  /\ mine \in [Callers -> SUBSET Keys]
  /\ owner \in [Keys -> Callers \cup {NoCaller}]
  /\ rows \in [Keys -> SUBSET Callers]
  /\ seen \in [Callers -> [Keys -> SUBSET Callers]]

(* The inductive invariant of the blocks, over that of the turns. *)
BlockInv == SqlTyped /\ \A t \in Callers : Own(t)
SqlInv == TurnsInv /\ BlockInv

(* What a step of t leaves of every other block. *)
Beside(t) ==
  \A u \in Callers \ {t} :
    /\ at'[u] = at[u] /\ todo'[u] = todo[u] /\ outcome'[u] = outcome[u]
    /\ mine'[u] = mine[u] /\ seen'[u] = seen[u]
    /\ phase'[u] = phase[u] /\ wants'[u] = wants[u]
    /\ \A k \in Keys : /\ owner'[k] = u <=> owner[k] = u
                       /\ u \in rows'[k] <=> u \in rows[k]
                       /\ owner[k] = u => rows'[k] = rows[k]

-----------------------------------------------------------------------------
LEMMA SoughtAreKeys ==
  ASSUME SqlTyped, NEW t \in Callers
  PROVE  Sought(t) \in SUBSET Keys /\ Unlocked(t) \in SUBSET Keys /\ InLine(t) \in SUBSET Keys
<1>1. Sought(t) \in SUBSET Keys
  <2>1. CASE todo[t] = <<>>
    BY <2>1 DEF Sought
  <2>2. CASE todo[t] # <<>>
    <3>1. Head(todo[t]) \in Gestures
      BY <2>2 DEF SqlTyped
    <3> QED BY <2>2, <3>1 DEF Sought, Gestures
  <2> QED BY <2>1, <2>2
<1> QED BY <1>1 DEF Unlocked, InLine

(* A step moves the turns as Turns.tla says, or leaves them alone. *)
LEMMA SqlMovesTurns == SqlTyped /\ [SqlNext]_sqlAll => [TurnsNext]_turnVars
<1> SUFFICES ASSUME SqlTyped, [SqlNext]_sqlAll PROVE [TurnsNext]_turnVars
  OBVIOUS
<1>1. ASSUME NEW t \in Callers, RollsBack(t) PROVE [TurnsNext]_turnVars
  BY <1>1 DEF RollsBack, TurnsNext, TurnsStep
<1>2. ASSUME NEW t \in Callers, AsksTurns(t) PROVE [TurnsNext]_turnVars
  BY <1>2, SoughtAreKeys DEF AsksTurns, TurnsNext
<1>3. ASSUME NEW t \in Callers, SqlProgress(t) PROVE [TurnsNext]_turnVars
  <2>1. CASE AsksTurns(t)
    BY <2>1, <1>2
  <2>2. CASE (TurnComes(t) \/ Leave(t)) /\ UNCHANGED sqlVars
    BY <2>2 DEF TurnsNext, TurnsStep
  <2>3. CASE RowsHeld(t)
    BY <2>3 DEF RowsHeld, TurnsNext, TurnsStep
  <2>4. CASE LocksRow(t) \/ ChangeWrites(t) \/ PlainWrites(t) \/ Commits(t)
    BY <2>4 DEF LocksRow, ChangeWrites, PlainWrites, Commits
  <2>5. CASE EngineGivesUpOn(t)
    BY <2>5, <1>1 DEF EngineGivesUpOn
  <2> QED BY <1>3, <2>1, <2>2, <2>3, <2>4, <2>5 DEF SqlProgress
<1>4. ASSUME NEW t \in Callers, Throws(t) PROVE [TurnsNext]_turnVars
  BY <1>4, <1>1 DEF Throws
<1>5. CASE UNCHANGED sqlAll
  BY <1>5 DEF sqlAll
<1> QED BY <1>3, <1>4, <1>5 DEF SqlNext

-----------------------------------------------------------------------------
(* A block that nothing moved but locks and marks of others. *)
LEMMA OthersKept ==
  ASSUME NEW t \in Callers, Beside(t), UNCHANGED block, BlockInv
  PROVE  \A u \in Callers \ {t} : Own(u)'
<1> SUFFICES ASSUME NEW u \in Callers \ {t} PROVE Own(u)'
  OBVIOUS
<1>1. Sought(u)' = Sought(u) /\ Sought(u) \in SUBSET Keys /\ InLine(u)' = InLine(u)
  BY SoughtAreKeys DEF Beside, Sought, InLine, BlockInv
<1>2. CASE outcome[u] = "running"
  <2>1. Own(u) /\ mine[u] \in SUBSET Keys
    BY DEF BlockInv, SqlTyped
  <2>2. Made(u)'
    <3>1. PICK n \in 0..Len(block[u]) :
            /\ Len(todo[u]) = Len(block[u]) - n
            /\ \A i \in 1..Len(todo[u]) : todo[u][i] = block[u][n + i]
            /\ \A k \in Keys : u \in rows[k] <=> \E i \in 1..n : k \in block[u][i].keys
      BY <1>2, <2>1 DEF Own, Made
    <3>2. block' = block /\ todo'[u] = todo[u] /\ \A k \in Keys : u \in rows'[k] <=> u \in rows[k]
      BY DEF Beside
    <3> QED BY <3>1, <3>2 DEF Made
  <2> QED BY <1>1, <1>2, <2>1, <2>2 DEF Own, Beside
<1> QED BY <1>2 DEF Own, Beside

(* Only one block's turns moved. *)
LEMMA TurnsBeside ==
  ASSUME TurnsTypeOK, NEW t \in Callers,
         \/ TakeAll(t, InLine(t)) \/ TurnComes(t) \/ Settle(t) \/ Leave(t)
  PROVE  \A u \in Callers \ {t} : phase'[u] = phase[u] /\ wants'[u] = wants[u]
<1>1. CASE TakeAll(t, InLine(t))
  BY <1>1 DEF TakeAll, TurnsTypeOK
<1>2. CASE TurnComes(t)
  BY <1>2 DEF TurnComes, TurnsTypeOK
<1>3. CASE Settle(t)
  BY <1>3 DEF Settle, TurnsTypeOK
<1>4. CASE Leave(t)
  BY <1>4 DEF Leave, TurnsTypeOK
<1> QED BY <1>1, <1>2, <1>3, <1>4

(* What is left to prove of a step of t, once it leaves the others alone. *)
LEMMA StepOf ==
  ASSUME NEW t \in Callers, BlockInv, Beside(t), UNCHANGED block, SqlTyped', Own(t)'
  PROVE  BlockInv'
<1>1. \A u \in Callers \ {t} : Own(u)'
  BY OthersKept
<1> QED BY <1>1 DEF BlockInv

LEMMA AsksTurnsSafe ==
  ASSUME TurnsTypeOK, BlockInv, NEW t \in Callers, AsksTurns(t)
  PROVE  BlockInv'
<1>1. Beside(t) /\ SqlTyped'
  BY TurnsBeside DEF AsksTurns, Beside, BlockInv, SqlTyped
<1>2. phase'[t] \in {"lining", "working"} /\ wants'[t] = InLine(t)
  BY SoughtAreKeys DEF AsksTurns, TakeAll, TurnsTypeOK, BlockInv
<1>3. Sought(t)' = Sought(t) /\ InLine(t)' = InLine(t) /\ Made(t)' = Made(t)
  BY DEF AsksTurns, Sought, InLine, Made
<1>4. at'[t] = "lock" /\ Runs(t, "body") /\ todo[t] # <<>>
  BY DEF AsksTurns, Faces, BlockInv, SqlTyped
<1>5. Own(t)'
  BY <1>2, <1>3, <1>4 DEF Own, Runs, AsksTurns, BlockInv
<1> QED BY <1>1, <1>5, StepOf DEF AsksTurns

(* The turns move under a block: one comes, or one is left. *)
LEMMA TurnsMoveSafe ==
  ASSUME TurnsTypeOK, BlockInv, NEW t \in Callers, TurnComes(t) \/ Leave(t), UNCHANGED sqlVars
  PROVE  BlockInv'
<1> USE DEF sqlVars
<1>1. Beside(t) /\ SqlTyped'
  BY TurnsBeside DEF Beside, BlockInv, SqlTyped
<1>2. Sought(t)' = Sought(t) /\ InLine(t)' = InLine(t) /\ Made(t)' = Made(t)
  BY DEF Sought, InLine, Made
<1>3. at[t] = "lock" /\ outcome[t] = "running" => phase'[t] \in {"lining", "working"} /\ wants'[t] = wants[t]
  <2>1. CASE TurnComes(t)
    BY <2>1 DEF TurnComes, TurnsTypeOK
  <2>2. CASE Leave(t)
    BY <2>2 DEF Leave, BlockInv, Own
  <2> QED BY <2>1, <2>2
<1>4. Own(t)'
  BY <1>2, <1>3 DEF Own, BlockInv
<1> QED BY <1>1, <1>4, StepOf

LEMMA LocksRowSafe ==
  ASSUME BlockInv, NEW t \in Callers, LocksRow(t)
  PROVE  BlockInv'
<1>1. PICK k \in Unlocked(t) :
        /\ Runs(t, "lock") /\ owner[k] = NoCaller /\ owner' = [owner EXCEPT ![k] = t]
        /\ seen' = [seen EXCEPT ![t][k] = rows[k]]
        /\ UNCHANGED <<turnVars, block, todo, at, outcome, mine, rows>>
  BY DEF LocksRow
<1>2. k \in Keys
  BY <1>1, SoughtAreKeys DEF BlockInv
<1>3. seen' \in [Callers -> [Keys -> SUBSET Callers]] /\ \A u \in Callers \ {t} : seen'[u] = seen[u]
  BY <1>1, <1>2 DEF BlockInv, SqlTyped
<1>4. owner' \in [Keys -> Callers \cup {NoCaller}] /\ owner'[k] = t
      /\ \A j \in Keys \ {k} : owner'[j] = owner[j]
  BY <1>1, <1>2 DEF BlockInv, SqlTyped
<1>5. Beside(t) /\ SqlTyped'
  BY <1>1, <1>2, <1>3, <1>4, NoCallerIsNone DEF Beside, BlockInv, SqlTyped, turnVars
<1>6. Sought(t)' = Sought(t) /\ InLine(t)' = InLine(t) /\ Made(t)' = Made(t)
  BY <1>1 DEF Sought, InLine, Made
<1>7. Own(t) /\ mine[t] \in SUBSET Keys
  BY DEF BlockInv, SqlTyped
<1>8. Own(t)'
  BY <1>1, <1>2, <1>4, <1>6, <1>7 DEF Own, Runs, turnVars
<1> QED BY <1>1, <1>5, <1>8, StepOf

LEMMA RowsHeldSafe ==
  ASSUME TurnsTypeOK, BlockInv, NEW t \in Callers, RowsHeld(t)
  PROVE  BlockInv'
<1>1. Sought(t) \in SUBSET Keys
  BY SoughtAreKeys DEF BlockInv
<1>2. Reread(t) \in [Keys -> SUBSET Callers] /\ \A k \in Sought(t) : Reread(t)[k] = rows[k]
  BY <1>1 DEF Reread, BlockInv, SqlTyped
<1>3. SqlTyped'
  BY <1>1, <1>2 DEF RowsHeld, BlockInv, SqlTyped
<1>4. Beside(t)
  BY TurnsBeside DEF RowsHeld, Beside, BlockInv, SqlTyped
<1>5. Sought(t)' = Sought(t) /\ Made(t)' = Made(t)
  BY DEF RowsHeld, Sought, Made
<1>6. /\ outcome[t] = "running" /\ at[t] = "lock" /\ at'[t] = "change"
      /\ seen'[t] = Reread(t) /\ mine'[t] = mine[t] \cup Sought(t)
  BY DEF RowsHeld, Runs, BlockInv, SqlTyped
<1>7. \A k \in Sought(t) : owner[k] = t
  BY DEF RowsHeld, Locked, Unlocked
<1>8. Own(t) /\ UNCHANGED <<block, todo, outcome, owner, rows>>
  BY DEF BlockInv, RowsHeld
<1>9. Own(t)'
  BY <1>2, <1>5, <1>6, <1>7, <1>8 DEF Own
<1> QED BY <1>3, <1>4, <1>8, <1>9, StepOf

-----------------------------------------------------------------------------
(* The gesture under way is over, and its mark is on what it sought. *)
LEMMA OnwardIsMade ==
  ASSUME SqlTyped, NEW t \in Callers, todo[t] # <<>>, Made(t), Onward(t), block' = block,
         \A k \in Keys : t \in rows'[k] <=> k \in Sought(t) \/ t \in rows[k]
  PROVE  Made(t)'
<1>1. PICK n \in 0..Len(block[t]) :
        /\ Len(todo[t]) = Len(block[t]) - n
        /\ \A i \in 1..Len(todo[t]) : todo[t][i] = block[t][n + i]
        /\ \A k \in Keys : t \in rows[k] <=> \E i \in 1..n : k \in block[t][i].keys
  BY DEF Made
<1>2. todo[t] \in Seq(Gestures) /\ block[t] \in Seq(Gestures)
  BY DEF SqlTyped
<1>3. Len(todo[t]) \in Nat \ {0} /\ Len(block[t]) \in Nat
  BY <1>2
<1>4. Sought(t) = block[t][n + 1].keys
  BY <1>1, <1>2, <1>3 DEF Sought
<1>5. todo'[t] = Tail(todo[t])
  BY DEF Onward, SqlTyped
<1>6. /\ Len(todo'[t]) = Len(todo[t]) - 1
      /\ \A i \in 1..Len(todo'[t]) : todo'[t][i] = todo[t][i + 1]
  BY <1>2, <1>3, <1>5
<1>7. /\ n + 1 \in 0..Len(block[t]) /\ Len(todo'[t]) = Len(block[t]) - (n + 1)
      /\ \A i \in 1..Len(todo'[t]) : todo'[t][i] = block[t][(n + 1) + i]
  <2>1. n + 1 \in 0..Len(block[t]) /\ Len(todo'[t]) = Len(block[t]) - (n + 1)
    BY <1>1, <1>3, <1>6
  <2>2. ASSUME NEW i \in 1..Len(todo'[t]) PROVE todo'[t][i] = block[t][(n + 1) + i]
    <3>1. i + 1 \in 1..Len(todo[t]) /\ n + (i + 1) = (n + 1) + i
      BY <1>3, <1>6
    <3> QED BY <1>1, <1>6, <3>1
  <2> QED BY <2>1, <2>2
<1>8. ASSUME NEW k \in Keys PROVE t \in rows'[k] <=> \E i \in 1..(n + 1) : k \in block[t][i].keys
  <2>1. (\E i \in 1..(n + 1) : k \in block[t][i].keys)
          <=> k \in block[t][n + 1].keys \/ \E i \in 1..n : k \in block[t][i].keys
    <3>1. 1..(n + 1) = 1..n \cup {n + 1}
      OBVIOUS
    <3> QED BY <3>1, Zenon
  <2> QED BY <1>1, <1>4, <2>1
<1> QED BY <1>7, <1>8 DEF Made

LEMMA OnwardTyped ==
  ASSUME SqlTyped, NEW t \in Callers, todo[t] # <<>>, Onward(t)
  PROVE  /\ todo' \in [Callers -> Seq(Gestures)] /\ at' \in [Callers -> {"body", "lock", "change"}]
         /\ at'[t] = "body" /\ \A u \in Callers \ {t} : at'[u] = at[u] /\ todo'[u] = todo[u]
<1>1. Tail(todo[t]) \in Seq(Gestures)
  BY DEF SqlTyped
<1> QED BY <1>1 DEF Onward, SqlTyped

LEMMA ChangeWritesSafe ==
  ASSUME BlockInv, NEW t \in Callers, ChangeWrites(t)
  PROVE  /\ BlockInv'
         /\ \A u \in Callers \ {t}, k \in Keys : u \in rows'[k] <=> u \in rows[k]
<1>1. /\ outcome[t] = "running" /\ at[t] = "change" /\ Onward(t) /\ todo[t] # <<>>
      /\ UNCHANGED <<turnVars, block, outcome, mine, owner, seen>>
  BY DEF ChangeWrites, Runs, BlockInv, Own
<1>2. /\ Own(t) /\ SqlTyped /\ Sought(t) \in SUBSET Keys
      /\ \A k \in Sought(t) : owner[k] = t /\ rows[k] = seen[t][k]
  BY <1>1, SoughtAreKeys DEF BlockInv, Own
<1>3. \A k \in Keys : rows'[k] = IF k \in Sought(t) THEN rows[k] \cup {t} ELSE rows[k]
  BY <1>2 DEF ChangeWrites
<1>4. rows' \in [Keys -> SUBSET Callers]
  BY <1>2 DEF ChangeWrites, SqlTyped
<1>5. Beside(t) /\ SqlTyped'
  BY <1>1, <1>2, <1>3, <1>4, OnwardTyped DEF Beside, SqlTyped, turnVars
<1>6. Made(t)'
  <2>1. Made(t) /\ \A k \in Keys : t \in rows'[k] <=> k \in Sought(t) \/ t \in rows[k]
    BY <1>1, <1>2, <1>3 DEF Own
  <2> QED BY <1>1, <1>2, <2>1, OnwardIsMade
<1>7. at'[t] = "body" /\ mine[t] \in SUBSET Keys
  BY <1>1, <1>2, OnwardTyped DEF SqlTyped
<1>8. Own(t)'
  BY <1>1, <1>2, <1>3, <1>6, <1>7 DEF Own
<1> QED BY <1>1, <1>3, <1>5, <1>8, StepOf

LEMMA PlainWritesSafe ==
  ASSUME BlockInv, NEW t \in Callers, PlainWrites(t)
  PROVE  /\ BlockInv'
         /\ \A u \in Callers \ {t}, k \in Keys : u \in rows'[k] <=> u \in rows[k]
<1>1. PICK k \in Keys :
        /\ Runs(t, "body") /\ Faces(t, "plain") /\ Sought(t) = {k}
        /\ owner[k] \in {NoCaller, t} /\ owner' = [owner EXCEPT ![k] = t]
        /\ rows' = [rows EXCEPT ![k] = @ \cup {t}]
        /\ Onward(t) /\ UNCHANGED <<turnVars, block, outcome, mine, seen>>
  BY DEF PlainWrites
<1>2. Own(t) /\ SqlTyped /\ outcome[t] = "running" /\ todo[t] # <<>>
  BY <1>1 DEF BlockInv, Runs, Faces
<1>3. /\ rows' \in [Keys -> SUBSET Callers] /\ rows'[k] = rows[k] \cup {t}
      /\ \A j \in Keys \ {k} : rows'[j] = rows[j]
  BY <1>1, <1>2 DEF SqlTyped
<1>4. /\ owner' \in [Keys -> Callers \cup {NoCaller}] /\ owner'[k] = t
      /\ \A j \in Keys \ {k} : owner'[j] = owner[j]
  BY <1>1, <1>2 DEF SqlTyped
<1>5. Beside(t) /\ SqlTyped'
  BY <1>1, <1>2, <1>3, <1>4, OnwardTyped, NoCallerIsNone DEF Beside, SqlTyped, turnVars
<1>6. Made(t)'
  <2>1. Made(t) /\ \A j \in Keys : t \in rows'[j] <=> j \in Sought(t) \/ t \in rows[j]
    BY <1>1, <1>2, <1>3 DEF Own
  <2> QED BY <1>1, <1>2, <2>1, OnwardIsMade
<1>7. at'[t] = "body" /\ mine[t] \in SUBSET Keys
  BY <1>1, <1>2, OnwardTyped DEF SqlTyped
<1>8. Own(t)'
  BY <1>1, <1>2, <1>3, <1>4, <1>6, <1>7 DEF Own
<1> QED BY <1>1, <1>3, <1>5, <1>8, StepOf

LEMMA CommitsSafe ==
  ASSUME BlockInv, NEW t \in Callers, Commits(t)
  PROVE  BlockInv'
<1>1. /\ outcome'[t] = "stands" /\ \A u \in Callers \ {t} : outcome'[u] = outcome[u]
      /\ outcome' \in [Callers -> {"running", "stands", "fell"}]
  BY DEF Commits, BlockInv, SqlTyped
<1>2. owner' \in [Keys -> Callers \cup {NoCaller}] /\ owner' = Freed(t)
  BY DEF Commits, Freed, BlockInv, SqlTyped
<1>3. SqlTyped' /\ Beside(t)
  BY <1>1, <1>2, NoCallerIsNone DEF Commits, Freed, Beside, BlockInv, SqlTyped, turnVars
<1> QED BY <1>1, <1>3, StepOf DEF Own, Commits

LEMMA RollsBackSafe ==
  ASSUME TurnsTypeOK, BlockInv, NEW t \in Callers, outcome[t] = "running", RollsBack(t)
  PROVE  /\ BlockInv'
         /\ \A u \in Callers \ {t}, k \in Keys : u \in rows'[k] <=> u \in rows[k]
<1>1. /\ outcome'[t] = "fell" /\ \A u \in Callers \ {t} : outcome'[u] = outcome[u]
      /\ outcome' \in [Callers -> {"running", "stands", "fell"}]
  BY DEF RollsBack, BlockInv, SqlTyped
<1>2. owner' \in [Keys -> Callers \cup {NoCaller}] /\ owner' = Freed(t)
  BY DEF RollsBack, Freed, BlockInv, SqlTyped
<1>3. rows' \in [Keys -> SUBSET Callers] /\ \A k \in Keys : rows'[k] = rows[k] \ {t}
  BY DEF RollsBack, Restored, BlockInv, SqlTyped
<1>4. mine' \in [Callers -> SUBSET Keys] /\ \A u \in Callers \ {t} : mine'[u] = mine[u]
  <2>1. Sought(t) \in SUBSET Keys /\ mine \in [Callers -> SUBSET Keys]
    BY SoughtAreKeys DEF BlockInv, SqlTyped
  <2>2. CASE Runs(t, "lock")
    BY <2>1, <2>2 DEF RollsBack
  <2>3. CASE ~Runs(t, "lock")
    BY <2>1, <2>3 DEF RollsBack
  <2> QED BY <2>2, <2>3
<1>5. \A u \in Callers \ {t} : phase'[u] = phase[u] /\ wants'[u] = wants[u]
  BY TurnsBeside DEF RollsBack, turnVars
<1>6. SqlTyped'
  BY <1>1, <1>2, <1>3, <1>4 DEF RollsBack, BlockInv, SqlTyped
<1>7. ASSUME NEW u \in Callers \ {t}, NEW k \in Keys
      PROVE  /\ owner'[k] = u <=> owner[k] = u
             /\ u \in rows'[k] <=> u \in rows[k]
  BY <1>2, <1>3, NoCallerIsNone DEF Freed
<1>8. ASSUME NEW u \in Callers \ {t}, NEW k \in Keys, owner[k] = u PROVE rows'[k] = rows[k]
  <2>1. SUFFICES ASSUME t \in rows[k] PROVE FALSE
    BY <1>3
  <2> QED BY <1>8, <2>1 DEF BlockInv, Own
<1>9. Beside(t)
  BY <1>1, <1>4, <1>5, <1>7, <1>8 DEF Beside, RollsBack
<1> QED BY <1>1, <1>6, <1>7, <1>9, StepOf DEF Own, RollsBack

-----------------------------------------------------------------------------
(* The engine gives up on one that waits, and so runs. *)
LEMMA CircleRuns == ASSUME NEW t \in Callers, InCircle(t) PROVE outcome[t] = "running"
<1>1. LockAwaited(t) # {}
  BY DEF InCircle
<1> QED BY <1>1 DEF LockAwaited

LEMMA SqlInvInit == SqlInit => SqlInv
<1> SUFFICES ASSUME SqlInit PROVE SqlInv
  OBVIOUS
<1>1. PICK program \in [Callers -> Programs] : SqlInitWith(program)
  BY DEF SqlInit
<1>2. program \in [Callers -> Seq(Gestures)]
  BY ProgramsAreGestures
<1>3. SqlTyped
  BY <1>1, <1>2 DEF SqlInitWith, SqlTyped
<1>4. ASSUME NEW t \in Callers PROVE Made(t)
  <2>1. program[t] \in Seq(Gestures) /\ todo[t] = block[t] /\ block[t] = program[t]
    BY <1>1, <1>2 DEF SqlInitWith
  <2>2. 0 \in 0..Len(block[t]) /\ Len(todo[t]) = Len(block[t]) - 0
    BY <2>1
  <2>3. \A i \in 1..Len(todo[t]) : todo[t][i] = block[t][0 + i]
    BY <2>1
  <2>4. \A k \in Keys : t \notin rows[k]
    BY <1>1 DEF SqlInitWith
  <2> QED BY <2>2, <2>3, <2>4 DEF Made
<1>5. \A t \in Callers : Own(t)
  BY <1>1, <1>4 DEF SqlInitWith, Own
<1> QED BY <1>1, <1>3, <1>5, TurnsInvInit DEF SqlInv, BlockInv, SqlInitWith

LEMMA SqlInvStep == SqlInv /\ [SqlNext]_sqlAll => SqlInv'
<1> SUFFICES ASSUME SqlInv, [SqlNext]_sqlAll PROVE SqlInv'
  OBVIOUS
<1>1. TurnsInv /\ TurnsTypeOK /\ BlockInv
  BY DEF SqlInv, TurnsInv
<1>2. TurnsInv'
  BY <1>1, SqlMovesTurns, TurnsInvStep DEF BlockInv
<1>3. ASSUME NEW t \in Callers, SqlProgress(t) PROVE BlockInv'
  <2>1. CASE AsksTurns(t)
    BY <1>1, <2>1, AsksTurnsSafe
  <2>2. CASE (TurnComes(t) \/ Leave(t)) /\ UNCHANGED sqlVars
    BY <1>1, <2>2, TurnsMoveSafe
  <2>3. CASE LocksRow(t)
    BY <1>1, <2>3, LocksRowSafe
  <2>4. CASE RowsHeld(t)
    BY <1>1, <2>4, RowsHeldSafe
  <2>5. CASE ChangeWrites(t)
    BY <1>1, <2>5, ChangeWritesSafe
  <2>6. CASE PlainWrites(t)
    BY <1>1, <2>6, PlainWritesSafe
  <2>7. CASE Commits(t)
    BY <1>1, <2>7, CommitsSafe
  <2>8. CASE EngineGivesUpOn(t)
    BY <1>1, <2>8, CircleRuns, RollsBackSafe DEF EngineGivesUpOn
  <2> QED BY <1>3, <2>1, <2>2, <2>3, <2>4, <2>5, <2>6, <2>7, <2>8 DEF SqlProgress
<1>4. ASSUME NEW t \in Callers, Throws(t) PROVE BlockInv'
  BY <1>1, <1>4, RollsBackSafe DEF Throws
<1>5. ASSUME UNCHANGED sqlAll PROVE BlockInv'
  <2>1. SqlTyped'
    BY <1>1, <1>5 DEF sqlAll, sqlVars, BlockInv, SqlTyped
  <2>2. ASSUME NEW t \in Callers PROVE Own(t)'
    <3>1. Sought(t)' = Sought(t) /\ InLine(t)' = InLine(t) /\ Made(t)' = Made(t)
      BY <1>5 DEF sqlAll, sqlVars, Sought, InLine, Made
    <3>2. Own(t) /\ UNCHANGED <<block, todo, at, outcome, mine, owner, rows, seen, phase, wants>>
      BY <1>1, <1>5 DEF sqlAll, sqlVars, turnVars, BlockInv
    <3> QED BY <3>1, <3>2 DEF Own
  <2>3. \A t \in Callers : Own(t)'
    BY <2>2
  <2> QED BY <2>1, <2>3 DEF BlockInv
<1> QED BY <1>2, <1>3, <1>4, <1>5 DEF SqlNext, SqlInv

(* SqlStorage.ts:617-777: the invariant of the blocks and of their turns.  *)
THEOREM SqlInvariant == SqlSpec => []SqlInv
BY SqlInvInit, SqlInvStep, PTL DEF SqlSpec

(* Every variable of a block, of its locks and of its turns keeps its type.*)
THEOREM SqlKeepsItsTypes == SqlSpec => []SqlTypeOK
<1>1. SqlInv => SqlTypeOK
  BY DEF SqlInv, BlockInv, TurnsInv, SqlTyped, SqlTypeOK
<1> QED BY <1>1, SqlInvariant, PTL

(* SqlStorage.ts:587: a change lands on the row it read, for any number of *)
(* blocks and rows, whoever writes beside it.                              *)
THEOREM ChangesLand == SqlSpec => []ChangeLandsOnWhatItRead
<1>1. SqlInv => ChangeLandsOnWhatItRead
  BY DEF SqlInv, BlockInv, Own, ChangeLandsOnWhatItRead, Runs
<1> QED BY <1>1, SqlInvariant, PTL

(* Whoever works holds the turn of every key it wants. *)
LEMMA WorkHolds == ASSUME TurnsInv, NEW t \in Callers, phase[t] = "working" PROVE turn[t] = wants[t]
BY DEF TurnsInv, AllStanding, Standing

(* SqlStorage.ts:113-120: two changes never wait in the engine for one     *)
(* lock, so the engine's order of granting it does not matter to them.     *)
THEOREM ChangesDoNotRace == SqlSpec => []NoRaceForALock
<1>1. SqlInv => NoRaceForALock
  <2> SUFFICES ASSUME SqlInv, NEW t \in Callers, NEW u \in Callers, t # u,
                      Runs(t, "lock"), Runs(u, "lock"), phase[t] = "working", phase[u] = "working"
               PROVE  Unlocked(t) \cap Unlocked(u) = {}
    BY DEF NoRaceForALock
  <2>1. turn[t] \cap turn[u] = {}
    BY InvOneTurn DEF SqlInv, OneTurnPerKey
  <2>2. turn[t] = InLine(t) /\ turn[u] = InLine(u)
    BY WorkHolds DEF SqlInv, BlockInv, Own, Runs
  <2>3. Unlocked(t) \subseteq InLine(t) /\ Unlocked(u) \subseteq InLine(u)
    BY DEF SqlInv, BlockInv, Own, Runs, Unlocked, InLine
  <2> QED BY <2>1, <2>2, <2>3
<1> QED BY <1>1, SqlInvariant, PTL

-----------------------------------------------------------------------------
(* The refinement: what is committed moves when a block ends, and all of   *)
(* the block's marks at once.                                              *)

LEMMA TouchesKept == UNCHANGED block => UNCHANGED [t \in Callers |-> UNION {block[t][i].keys : i \in DOMAIN block[t]}]
OBVIOUS

(* No block ends, and the marks of those that ended stay. *)
LEMMA NothingCommitted ==
  ASSUME SqlTyped, SqlTyped', UNCHANGED <<block, outcome>>,
         \A u \in Callers, k \in Keys : outcome[u] # "running" => (u \in rows'[k] <=> u \in rows[k])
  PROVE  UNCHANGED Atomic!blockVars
<1>1. ASSUME NEW k \in Keys
      PROVE  {t \in rows'[k] : outcome'[t] # "running"} = {t \in rows[k] : outcome[t] # "running"}
  <2>1. rows'[k] \subseteq Callers /\ rows[k] \subseteq Callers
    BY DEF SqlTyped
  <2> QED BY <2>1
<1> QED BY <1>1, TouchesKept DEF Atomic!blockVars

(* A block that runs falls: what it marked was never committed. *)
LEMMA RollsBackFalls ==
  ASSUME SqlTyped, SqlTyped', NEW t \in Callers, outcome[t] = "running", RollsBack(t)
  PROVE  Atomic!Fall(t)
<1>1. outcome' = [outcome EXCEPT ![t] = "fell"] /\ rows' = [k \in Keys |-> rows[k] \ {t}] /\ block' = block
  BY DEF RollsBack, Restored
<1>2. ASSUME NEW k \in Keys
      PROVE  {u \in rows'[k] : outcome'[u] # "running"} = {u \in rows[k] : outcome[u] # "running"}
  <2>1. rows[k] \subseteq Callers /\ rows'[k] = rows[k] \ {t}
    BY <1>1 DEF SqlTyped
  <2>2. \A u \in Callers \ {t} : outcome'[u] = outcome[u]
    BY <1>1 DEF SqlTyped
  <2> QED BY <2>1, <2>2
<1>3. {u \in Callers : outcome'[u] # "running"} = {u \in Callers : outcome[u] # "running"} \cup {t}
  BY <1>1 DEF SqlTyped
<1> QED BY <1>1, <1>2, <1>3, TouchesKept DEF Atomic!Fall, Atomic!Ends

(* A block that commits has marked what it touches, all of it and no more. *)
LEMMA CommitsStands ==
  ASSUME BlockInv, SqlTyped', NEW t \in Callers, Commits(t)
  PROVE  Atomic!Stand(t)
<1> DEFINE touched == UNION {block[t][i].keys : i \in DOMAIN block[t]}
<1>1. /\ outcome[t] = "running" /\ outcome' = [outcome EXCEPT ![t] = "stands"]
      /\ todo[t] = <<>> /\ UNCHANGED <<block, rows>> /\ SqlTyped
  BY DEF Commits, Runs, BlockInv
<1>2. \A k \in Keys : t \in rows[k] <=> k \in touched
  <2>1. PICK n \in 0..Len(block[t]) :
          /\ Len(todo[t]) = Len(block[t]) - n
          /\ \A k \in Keys : t \in rows[k] <=> \E i \in 1..n : k \in block[t][i].keys
    BY <1>1 DEF BlockInv, Own, Made
  <2>2. block[t] \in Seq(Gestures)
    BY <1>1 DEF SqlTyped
  <2>3. n = Len(block[t]) /\ DOMAIN block[t] = 1..n
    BY <1>1, <2>1, <2>2
  <2> QED BY <2>1, <2>3
<1>3. ASSUME NEW k \in Keys
      PROVE  {u \in rows'[k] : outcome'[u] # "running"}
               = IF k \in touched THEN {u \in rows[k] : outcome[u] # "running"} \cup {t}
                 ELSE {u \in rows[k] : outcome[u] # "running"}
  <2>1. rows[k] \subseteq Callers /\ rows'[k] = rows[k] /\ (t \in rows[k] <=> k \in touched)
    BY <1>1, <1>2 DEF SqlTyped
  <2>2. outcome'[t] = "stands" /\ \A u \in Callers \ {t} : outcome'[u] = outcome[u]
    BY <1>1 DEF SqlTyped
  <2> HIDE DEF touched
  <2> QED BY <1>1, <2>1, <2>2
<1>4. {u \in Callers : outcome'[u] # "running"} = {u \in Callers : outcome[u] # "running"} \cup {t}
  BY <1>1 DEF SqlTyped
<1> QED BY <1>1, <1>3, <1>4, TouchesKept DEF Atomic!Stand, Atomic!Ends

LEMMA AtomicStep == SqlInv /\ SqlInv' /\ [SqlNext]_sqlAll => [Atomic!BlocksNext]_(Atomic!blockVars)
<1> SUFFICES ASSUME SqlInv, SqlInv', [SqlNext]_sqlAll
             PROVE  [Atomic!BlocksNext]_(Atomic!blockVars)
  OBVIOUS
<1>1. BlockInv /\ SqlTyped /\ SqlTyped' /\ TurnsTypeOK
  BY DEF SqlInv, BlockInv, TurnsInv
<1>2. ASSUME NEW t \in Callers, UNCHANGED <<block, outcome, rows>> PROVE UNCHANGED Atomic!blockVars
  BY <1>1, <1>2, NothingCommitted
<1>3. ASSUME NEW t \in Callers, ChangeWrites(t) \/ PlainWrites(t) PROVE UNCHANGED Atomic!blockVars
  <2>1. outcome[t] = "running" /\ UNCHANGED <<block, outcome>>
    BY <1>3 DEF ChangeWrites, PlainWrites, Runs
  <2>2. \A u \in Callers \ {t}, k \in Keys : u \in rows'[k] <=> u \in rows[k]
    BY <1>1, <1>3, ChangeWritesSafe, PlainWritesSafe
  <2> QED BY <1>1, <2>1, <2>2, NothingCommitted
<1>4. ASSUME NEW t \in Callers, SqlProgress(t) PROVE [Atomic!BlocksNext]_(Atomic!blockVars)
  <2>1. CASE AsksTurns(t) \/ LocksRow(t) \/ RowsHeld(t)
    BY <1>2, <2>1 DEF AsksTurns, LocksRow, RowsHeld
  <2>2. CASE (TurnComes(t) \/ Leave(t)) /\ UNCHANGED sqlVars
    BY <1>2, <2>2 DEF sqlVars
  <2>3. CASE ChangeWrites(t) \/ PlainWrites(t)
    BY <1>3, <2>3
  <2>4. CASE Commits(t)
    BY <1>1, <2>4, CommitsStands DEF Atomic!BlocksNext
  <2>5. CASE EngineGivesUpOn(t)
    BY <1>1, <2>5, CircleRuns, RollsBackFalls DEF EngineGivesUpOn, Atomic!BlocksNext
  <2> QED BY <1>4, <2>1, <2>2, <2>3, <2>4, <2>5 DEF SqlProgress
<1>5. ASSUME NEW t \in Callers, Throws(t) PROVE [Atomic!BlocksNext]_(Atomic!blockVars)
  BY <1>1, <1>5, RollsBackFalls DEF Throws, Atomic!BlocksNext
<1>6. CASE UNCHANGED sqlAll
  <2>1. UNCHANGED <<block, outcome, rows>>
    BY <1>6 DEF sqlAll, sqlVars
  <2> QED BY <1>1, <2>1, NothingCommitted
<1> QED BY <1>4, <1>5, <1>6 DEF SqlNext

LEMMA AtomicInit == SqlInit => Atomic!BlocksInit
<1> SUFFICES ASSUME SqlInit PROVE Atomic!BlocksInit
  OBVIOUS
<1>1. PICK program \in [Callers -> Programs] : SqlInitWith(program)
  BY DEF SqlInit
<1>2. SqlTyped
  BY SqlInvInit DEF SqlInv, BlockInv
<1>3. ASSUME NEW t \in Callers PROVE UNION {block[t][i].keys : i \in DOMAIN block[t]} \in SUBSET Keys
  <2>1. block[t] \in Seq(Gestures)
    BY <1>2 DEF SqlTyped
  <2>2. ASSUME NEW i \in DOMAIN block[t] PROVE block[t][i].keys \in SUBSET Keys
    <3>1. block[t][i] \in Gestures
      BY <2>1
    <3> QED BY <3>1 DEF Gestures
  <2> QED BY <2>2
<1>4. \A k \in Keys : {t \in rows[k] : outcome[t] # "running"} = {}
  BY <1>1 DEF SqlInitWith
<1>5. {t \in Callers : outcome[t] # "running"} = {}
  BY <1>1 DEF SqlInitWith
<1> QED BY <1>3, <1>4, <1>5 DEF Atomic!BlocksInit

(* together.ts:221-232 over SqlSource.ts:68: what a block did happens      *)
(* entirely or not at all, and takes nothing of another away: refinement   *)
(* of AtomicBlocks.                                                        *)
THEOREM BlocksImplementAtomic == SqlSpec => BlocksAreAtomic
BY AtomicInit, AtomicStep, SqlInvariant, PTL DEF SqlSpec, BlocksAreAtomic, Atomic!BlocksSpec

-----------------------------------------------------------------------------
(* Database.tla: the blocks on the rows, the migrations of the columns.    *)
LEMMA DatabaseRunsBoth == DatabaseSpec => SqlSpec /\ MigrateSpec
<1>1. DatabaseInit => SqlInit /\ MigrateInit
  BY DEF DatabaseInit
<1>2. [DatabaseNext]_databaseVars => [SqlNext]_sqlAll /\ [MigrateNext]_migrateVars
  BY DEF DatabaseNext, databaseVars
<1> QED BY <1>1, <1>2, PTL DEF DatabaseSpec, SqlSpec, MigrateSpec

(* A database keeps its types, whatever blocks run and whatever migrates   *)
(* (SqlStorage.ts; Version.ts and versioned.ts).                           *)
THEOREM DatabaseWellTyped == DatabaseSpec => []DatabaseTypeOK
<1>1. SqlTypeOK /\ MigrateTypeOK => DatabaseTypeOK
  BY DEF DatabaseTypeOK
<1> QED BY <1>1, DatabaseRunsBoth, SqlKeepsItsTypes, MigrateWellTyped, PTL

=============================================================================

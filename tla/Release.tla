------------------------------ MODULE Release ------------------------------
(***************************************************************************)
(* What a delete does to the rows that name it, across processes:          *)
(* core/src/module/relation/Release.ts, reached through RelationGuard.ts   *)
(* and peerOver.ts, written down by RunRepository.ts and finished by       *)
(* RunHandler.ts.                                                          *)
(*                                                                         *)
(* A call of release() is a frame: where it runs, who awaits it, and what  *)
(* is left of its walk.  The recursion of walk() inside one call is the    *)
(* list `todo`; a delete of a row below, and a question put to a peer, is  *)
(* another call, so another frame.  Every await is a step of its own.  A   *)
(* process that stops loses its frames and keeps its rows.                 *)
(*                                                                         *)
(* Errors are of two kinds, as the code tells them apart: "refused" is a   *)
(* FougereError (CONFLICT, NOT_FOUND, a peer nobody could reach), "failed" *)
(* is any other, and becomes a FougereError once it crosses a wire.        *)
(***************************************************************************)
EXTENDS Integers, Sequences, SequencesExt, FiniteSets

CONSTANTS
  Procs,       \* the processes
  Users,       \* calls from outside: each deletes one row, once
  Rows,        \* every row there may be; a row is its mark entity#key
  Entity,      \* the entity of each row
  Fields,      \* the references no foreign key holds: [of, to, rule], as declared
  Declares,    \* per process, the entities whose source it has
  Hosts,       \* per process, the entities it registers a storage for
  Peers,       \* per process, the remotes it declares
  JournalOf,   \* per process, where its journal keeps runs, or Nobody
  Names,       \* per field, the row each row names at the start
  Requests,    \* the <<user, process, row>> that may be asked
  Nobody,      \* names no row, awaited by no one, driven by none
  MaxCrashes, MaxFaults, MaxOvertaken, MaxFrames  \* bounds of the model

ASSUME NamesAreRows == Nobody \notin Rows \cup Users
ASSUME FieldsAreRules ==
  \A i \in DOMAIN Fields : Fields[i].rule \in {"restrict", "cascade", "set null"}
ASSUME AskedWhereHosted ==
  Requests \subseteq Users \X Procs \X Rows /\ \A q \in Requests : Entity[q[3]] \in Hosts[q[2]]
ASSUME HostedIsDeclared == \A p \in Procs : Hosts[p] \subseteq Declares[p]
ASSUME PeersAreProcs == Peers \in [Procs -> SUBSET Procs]
ASSUME NamesFit ==
  /\ Names \in [DOMAIN Fields -> [Rows -> Rows \cup {Nobody}]]
  /\ \A i \in DOMAIN Fields : \A r \in Rows : Names[i][r] # Nobody =>
       Entity[r] = Fields[i].of /\ Entity[Names[i][r]] = Fields[i].to
ASSUME CallersAreNoFrames ==
  MaxFrames \in Nat /\ \A who \in Users \cup {Nobody} : who \notin 1 .. MaxFrames

VARIABLES
  stored,    \* the rows there are
  names,     \* per field and row, the row it names
  frames,    \* the calls of release() under way, and the sweeps
  runs,      \* per journal and row, its run
  leases,    \* per journal, the runs whose lease has not run out, oldest first
  asked,     \* per user, what became of its delete
  up,        \* the processes that are up
  pid,       \* per process, how many times it was started
  faults     \* how much went wrong so far

vars == <<stored, names, frames, runs, leases, asked, up, pid, faults>>

FrameIds == 1 .. MaxFrames
Driver(p) == <<p, pid[p]>>

Journals == {JournalOf[p] : p \in Procs} \ {Nobody}
Journalled(p) == JournalOf[p] # Nobody

NoRun == [status |-> "none", owner |-> Nobody]

Init ==
  /\ stored = Rows
  /\ names = Names
  /\ frames = << >>
  /\ runs = [j \in Journals |-> [r \in Rows |-> NoRun]]
  /\ leases = [j \in Journals |-> << >>]
  /\ asked = [u \in Users |-> "idle"]
  /\ up = Procs
  /\ pid = [p \in Procs |-> 1]
  /\ faults = [crash |-> 0, call |-> 0, slow |-> 0]

-----------------------------------------------------------------------------
(* What is left to do, one await at a time: the fields of a level yet to be *)
(* looked at, the rows, or the questions to peers.                         *)
Item(do, fields, rows, asks) == [do |-> do, fields |-> fields, rows |-> rows, asks |-> asks]

(* walk(): every refusal of a level before any of its rows move. *)
Walk(p, entity, keys) ==
  LET Among(rules) == {i \in DOMAIN Fields :
        Fields[i].of \in Declares[p] /\ Fields[i].to = entity /\ Fields[i].rule \in rules}
      Pass(do, is) == IF is = {} THEN << >> ELSE <<Item(do, is, keys, {})>>
  IN  Pass("restrict", Among({"restrict"})) \o Pass("level", Among({"cascade", "set null"}))

(* A question to every peer about each of these rows. *)
Ask(p, keys) == Item("ask", {}, {}, keys \X Peers[p])

(* Frame, were the rows asked about not handed on to the peer. *)
FrameWithoutTrail(p, who, kind, r, visited) ==
  [at |-> p, caller |-> who, kind |-> kind, row |-> r,
   trail |-> {r}, seen |-> {r},
   stage |-> IF Journalled(p) THEN "open" ELSE "hop",
   todo |-> IF Peers[p] = {} THEN << >> ELSE <<Ask(p, {r})>>,
   fresh |-> FALSE, waits |-> FALSE, err |-> "none", due |-> {}]

(* The call as it starts: release(entity, key, world, visited, row). *)
Frame(p, who, kind, r, visited) ==
  [at |-> p, caller |-> who, kind |-> kind, row |-> r,
   trail |-> visited \cup {r}, seen |-> {r},
   stage |-> IF Journalled(p) THEN "open" ELSE "hop",
   todo |-> IF r \in visited \/ Peers[p] = {} THEN << >> ELSE <<Ask(p, {r})>>,
   fresh |-> FALSE, waits |-> FALSE, err |-> "none", due |-> {}]

(* Onward, were what is left to do not looked at again. *)
Lingers(f) == f

(* Onward, were the level below read before the peers' answer and not after:*)
(* the row goes with what names it still there.                            *)
SkipsTheWalk(f) ==
  IF f.todo # << >> \/ f.stage \notin {"hop", "walk"} THEN f ELSE [f EXCEPT !.stage = "row"]

(* One await behind it, the call goes on to its next. *)
Onward(f) ==
  IF f.todo # << >> THEN f
  ELSE CASE f.stage = "hop"  -> LET todo == Walk(f.at, Entity[f.row], {f.row}) IN
                                [f EXCEPT !.todo = todo,
                                          !.stage = IF todo = << >> THEN "row" ELSE "walk"]
         [] f.stage = "walk" -> [f EXCEPT !.stage = "row"]
         [] OTHER            -> f

(* Which errors close the run: a refusal of the walk, and any of the row.  *)
ClosesRun(f, error) ==
  /\ Journalled(f.at) /\ f.kind # "sweep"
  /\ f.stage \in {"row", "close"} \/ (f.stage = "walk" /\ error = "refused")

Fail(f, error) ==
  [f EXCEPT !.err = error, !.todo = << >>,
            !.stage = IF ClosesRun(f, error) THEN "close" ELSE "end"]

Next1(f) == f.todo[1]

(* The same item, less what is being dealt with. *)
Less(f, rows, asks) ==
  LET item == [Next1(f) EXCEPT !.rows = @ \ rows, !.asks = @ \ asks]
      done == item.rows = {} /\ item.asks = {}
  IN [f EXCEPT !.todo = (IF done THEN << >> ELSE <<item>>) \o Tail(@)]

(* A level goes through its fields as they are declared, and what it finds *)
(* under one comes before the next.                                        *)
LooksAt(f, do, i) ==
  Next1(f).do = do /\ i \in Next1(f).fields /\ \A other \in Next1(f).fields : i <= other

Then(f, i, items) ==
  LET left == Next1(f).fields \ {i}
      rest == IF left = {} THEN << >> ELSE <<[Next1(f) EXCEPT !.fields = left]>>
  IN  Onward([f EXCEPT !.todo = items \o rest \o Tail(@)])

FreeIds == FrameIds \ DOMAIN frames
Free == CHOOSE id \in FreeIds : \A other \in FreeIds : id <= other

(* f calls, and waits for the answer. *)
Awaits(id, f, callee) ==
  /\ FreeIds # {}
  /\ frames' = [i \in DOMAIN frames \cup {Free} |->
                  IF i = Free THEN callee
                  ELSE IF i = id THEN [f EXCEPT !.waits = TRUE] ELSE frames[i]]

Becomes(id, f) == frames' = [frames EXCEPT ![id] = f]

Runnable(id, stage) == frames[id].stage = stage /\ ~frames[id].waits

Naming(i, keys) == {r \in stored : Entity[r] = Fields[i].of /\ names[i][r] \in keys}

HostedAt(p, i) == Fields[i].of \in Hosts[p]

Journal(f) == JournalOf[f.at]

-----------------------------------------------------------------------------
(* The gesture: RelationGuard's delete, from outside. *)
Deletes(u, p, r) ==
  /\ <<u, p, r>> \in Requests
  /\ asked[u] = "idle" /\ p \in up /\ FreeIds # {}
  /\ asked' = [asked EXCEPT ![u] = "waiting"]
  /\ frames' = [i \in DOMAIN frames \cup {Free} |->
                  IF i = Free THEN Onward(Frame(p, u, "gesture", r, {})) ELSE frames[i]]
  /\ UNCHANGED <<stored, names, runs, leases, up, pid, faults>>

(* Leased, were the lease a lock. *)
NeverRunsOut(j, r) == runs[j][r].status = "running"

Leased(j, r) == Contains(leases[j], r)

(* open(): the run is read, and somebody else's live lease says busy.      *)
OpenReads(id) ==
  LET f == frames[id]
      run == runs[Journal(f)][f.row]
      busy == run.status = "running" /\ Leased(Journal(f), f.row) /\ run.owner # Driver(f.at)
  IN
  /\ Runnable(id, "open")
  /\ Becomes(id, [f EXCEPT !.fresh = (run.status = "none"),
                           !.stage = IF ~busy THEN "take"
                                     ELSE IF f.kind = "sweep" THEN "pick" ELSE "end"])
  /\ UNCHANGED <<stored, names, runs, leases, asked, up, pid, faults>>

(* ... and then written; a run that appeared meanwhile refuses the create. *)
OpenWrites(id) ==
  LET f == frames[id]
      taken == f.fresh /\ runs[Journal(f)][f.row] # NoRun
  IN
  /\ Runnable(id, "take")
  /\ UNCHANGED <<stored, names, asked, up, pid, faults>>
  /\ \/ /\ taken
        /\ Becomes(id, Fail(f, "refused"))
        /\ UNCHANGED <<runs, leases>>
     \/ /\ ~taken
        /\ runs' = [runs EXCEPT ![Journal(f)][f.row] =
                      [status |-> "running", owner |-> Driver(f.at)]]
        /\ leases' = [leases EXCEPT ![Journal(f)] = Append(Remove(@, f.row), f.row)]
        /\ IF f.kind = "sweep"
           THEN Becomes(id, [f EXCEPT !.stage = "walk", !.todo = <<Item("redo", {}, {f.row}, {})>>])
           ELSE Becomes(id, Onward([f EXCEPT !.stage = "hop"]))

(* A restricting row refuses the whole level. *)
RefuseRestricted(id, i) ==
  LET f == frames[id] IN
  /\ Runnable(id, "walk") /\ LooksAt(f, "restrict", i)
  /\ IF HostedAt(f.at, i) /\ Naming(i, Next1(f).rows) # {}
     THEN Becomes(id, Fail(f, "refused"))
     ELSE Becomes(id, Then(f, i, << >>))
  /\ UNCHANGED <<stored, names, runs, leases, asked, up, pid, faults>>

(* releaseLevel(): asked of the peers, or read and laid out here.          *)
Level(id, i) ==
  LET f == frames[id]
      found == Naming(i, Next1(f).rows)
      below == found \ f.seen
  IN
  /\ Runnable(id, "walk") /\ LooksAt(f, "level", i)
  /\ Becomes(id,
       IF ~HostedAt(f.at, i)
       THEN LET ask == Ask(f.at, Next1(f).rows \ f.trail) IN
            Then(f, i, IF ask.asks = {} THEN << >> ELSE <<ask>>)
       ELSE IF found = {} THEN Then(f, i, << >>)
       ELSE IF Fields[i].rule = "set null" THEN Then(f, i, <<Item("null", {i}, found, {})>>)
       ELSE IF below = {} THEN Then(f, i, << >>)
       ELSE Then([f EXCEPT !.seen = @ \cup below], i,
                 Append(Walk(f.at, Fields[i].of, below), Item("delete", {}, below, {}))))
  /\ UNCHANGED <<stored, names, runs, leases, asked, up, pid, faults>>

(* update(id, {field: null}): a row gone since the read answers NOT_FOUND. *)
Null(id, r) ==
  LET f == frames[id] IN
  /\ Runnable(id, "walk") /\ Next1(f).do = "null" /\ r \in Next1(f).rows
  /\ IF r \in stored
     THEN /\ \E i \in Next1(f).fields : names' = [names EXCEPT ![i][r] = Nobody]
          /\ Becomes(id, Onward(Less(f, {r}, {})))
     ELSE Becomes(id, Fail(f, "refused")) /\ UNCHANGED names
  /\ UNCHANGED <<stored, runs, leases, asked, up, pid, faults>>

(* rows.delete(id) below, and the sweep's release: a release of its own.   *)
DeleteBelow(id, r) ==
  LET f == frames[id] IN
  /\ Runnable(id, "walk") /\ r \in Next1(f).rows
  /\ \/ /\ Next1(f).do = "delete"
        /\ Awaits(id, Less(f, {r}, {}), Onward(Frame(f.at, id, "gesture", r, {})))
     \/ /\ Next1(f).do = "redo"
        /\ Awaits(id, Less(f, {r}, {}), Onward(Frame(f.at, id, "redo", r, {})))
  /\ UNCHANGED <<stored, names, runs, leases, asked, up, pid, faults>>

(* peer.release(entity, key, trail); nobody there is a FougereError.       *)
AskPeer(id, r, q) ==
  LET f == frames[id] IN
  /\ f.stage \in {"hop", "walk"} /\ ~f.waits
  /\ Next1(f).do = "ask" /\ <<r, q>> \in Next1(f).asks
  /\ IF q \in up
     THEN Awaits(id, Less(f, {}, {<<r, q>>}), Onward(Frame(q, id, "ask", r, f.trail)))
     ELSE Becomes(id, Fail(f, "refused"))
  /\ UNCHANGED <<stored, names, runs, leases, asked, up, pid, faults>>

(* The row itself, last: the storage's own delete, nothing when asked by a *)
(* peer, the guarded delete once more when a sweep redoes the run.         *)
RowGoes(id) ==
  LET f == frames[id]
      after == [f EXCEPT !.stage = IF Journalled(f.at) THEN "close" ELSE "end"]
      here == Entity[f.row] \in Hosts[f.at]
  IN
  /\ Runnable(id, "row")
  /\ UNCHANGED <<runs, leases, asked, up, pid, faults>>
  /\ \/ /\ f.kind = "gesture"
        /\ stored' = stored \ {f.row}
        /\ names' = [i \in DOMAIN names |-> [names[i] EXCEPT ![f.row] = Nobody]]
        /\ Becomes(id, after)
     \/ /\ f.kind \in {"ask", "sweep"} \/ (f.kind = "redo" /\ ~here)
        /\ Becomes(id, after)
        /\ UNCHANGED <<stored, names>>
     \/ /\ f.kind = "redo" /\ here
        /\ Awaits(id, after, Onward(Frame(f.at, id, "gesture", f.row, {})))
        /\ UNCHANGED <<stored, names>>

Closes(id) ==
  LET f == frames[id] IN
  /\ Runnable(id, "close")
  /\ runs' = [runs EXCEPT ![Journal(f)][f.row].status = "done"]
  /\ leases' = [leases EXCEPT ![Journal(f)] = Remove(@, f.row)]
  /\ Becomes(id, [f EXCEPT !.stage = IF f.kind = "sweep" THEN "pick" ELSE "end"])
  /\ UNCHANGED <<stored, names, asked, up, pid, faults>>

(* The call ends, and whoever awaits it goes on or fails.                  *)
Crossing(error, from, to) == IF from # to /\ error = "failed" THEN "refused" ELSE error

Answers(id) ==
  LET f == frames[id]
      left == DOMAIN frames \ {id}
      Told(g) == IF f.err = "none" THEN Onward([g EXCEPT !.waits = FALSE])
                 ELSE Fail([g EXCEPT !.waits = FALSE], Crossing(f.err, f.at, g.at))
  IN
  /\ Runnable(id, "end")
  /\ frames' = [i \in left |-> IF i = f.caller THEN Told(frames[i]) ELSE frames[i]]
  /\ asked' = IF f.caller \in Users
              THEN [asked EXCEPT ![f.caller] = IF f.err = "none" THEN "answered" ELSE f.err]
              ELSE asked
  /\ UNCHANGED <<stored, names, runs, leases, up, pid, faults>>

-----------------------------------------------------------------------------
(* RunHandler.sweep(): the abandoned runs, read once, then one by one.     *)
Sweep(p) ==
  LET j == JournalOf[p]
      due == {r \in Rows : runs[j][r].status = "running" /\ ~Leased(j, r)}
  IN
  /\ Journalled(p) /\ p \in up /\ FreeIds # {} /\ due # {}
  /\ \A id \in DOMAIN frames : ~(frames[id].at = p /\ frames[id].kind = "sweep")
  /\ frames' = [i \in DOMAIN frames \cup {Free} |->
       IF i = Free THEN [Frame(p, Nobody, "sweep", CHOOSE r \in due : TRUE, {})
                           EXCEPT !.stage = "pick", !.todo = << >>, !.due = due]
       ELSE frames[i]]
  /\ UNCHANGED <<stored, names, runs, leases, asked, up, pid, faults>>

SweepPicks(id) ==
  LET f == frames[id] IN
  /\ Runnable(id, "pick")
  /\ \/ f.due = {} /\ Becomes(id, [f EXCEPT !.stage = "end"])
     \/ \E r \in f.due : Becomes(id, [f EXCEPT !.row = r, !.due = @ \ {r}, !.stage = "open"])
  /\ UNCHANGED <<stored, names, runs, leases, asked, up, pid, faults>>

(* LEASE_MS went by since the oldest lease was taken.  Its driver may be   *)
(* slow and not stopped: that happens at most MaxOvertaken times.          *)
Driven(j, r) ==
  \E id \in DOMAIN frames :
    /\ frames[id].row = r /\ JournalOf[frames[id].at] = j
    /\ Driver(frames[id].at) = runs[j][r].owner

LeaseRunsOut(j) ==
  /\ leases[j] # << >>
  /\ leases' = [leases EXCEPT ![j] = Tail(@)]
  /\ \/ ~Driven(j, leases[j][1]) /\ UNCHANGED faults
     \/ /\ Driven(j, leases[j][1]) /\ faults.slow < MaxOvertaken
        /\ faults' = [faults EXCEPT !.slow = @ + 1]
  /\ UNCHANGED <<stored, names, frames, runs, asked, up, pid>>

-----------------------------------------------------------------------------
(* A storage call throws, an answer is lost, a process stops.              *)
StorageFails(id) ==
  LET f == frames[id] IN
  /\ faults.call < MaxFaults
  /\ faults' = [faults EXCEPT !.call = @ + 1]
  /\ f.stage \in {"walk", "row"} /\ ~f.waits
  /\ f.stage = "row" => f.kind = "gesture"
  /\ f.stage = "walk" => Next1(f).do \in {"restrict", "level", "null"}
  /\ Becomes(id, Fail(f, "failed"))
  /\ UNCHANGED <<stored, names, runs, leases, asked, up, pid>>

AnswerLost(id) ==
  LET f == frames[id] IN
  /\ faults.call < MaxFaults
  /\ faults' = [faults EXCEPT !.call = @ + 1]
  /\ f.kind = "ask" /\ f.caller \in DOMAIN frames
  /\ frames[f.caller].at # f.at
  /\ frames' = [frames EXCEPT ![id].caller = Nobody,
                              ![f.caller] = Fail([@ EXCEPT !.waits = FALSE], "refused")]
  /\ UNCHANGED <<stored, names, runs, leases, asked, up, pid>>

Crash(p) ==
  LET gone == {id \in DOMAIN frames : frames[id].at = p}
      orphaned(f) == f.caller \in gone
      cutOff(i) == \E id \in gone : frames[id].caller = i
  IN
  /\ faults.crash < MaxCrashes /\ p \in up
  /\ faults' = [faults EXCEPT !.crash = @ + 1]
  /\ up' = up \ {p}
  /\ frames' = [i \in DOMAIN frames \ gone |->
       LET f == IF orphaned(frames[i]) THEN [frames[i] EXCEPT !.caller = Nobody] ELSE frames[i]
       IN IF cutOff(i) THEN Fail([f EXCEPT !.waits = FALSE], "refused") ELSE f]
  /\ asked' = [u \in Users |->
       IF \E id \in gone : frames[id].caller = u THEN "refused" ELSE asked[u]]
  /\ UNCHANGED <<stored, names, runs, leases, pid>>

Restart(p) ==
  /\ p \notin up
  /\ up' = up \cup {p}
  /\ pid' = [pid EXCEPT ![p] = @ + 1]
  /\ UNCHANGED <<stored, names, frames, runs, leases, asked, faults>>

-----------------------------------------------------------------------------
Step(id) ==
  \/ OpenReads(id) \/ OpenWrites(id)
  \/ \E i \in DOMAIN Fields : RefuseRestricted(id, i) \/ Level(id, i)
  \/ RowGoes(id) \/ Closes(id) \/ Answers(id) \/ SweepPicks(id)
  \/ \E r \in Rows : Null(id, r) \/ DeleteBelow(id, r)
  \/ \E r \in Rows, q \in Procs : AskPeer(id, r, q)

Next ==
  \/ \E id \in DOMAIN frames : Step(id) \/ StorageFails(id) \/ AnswerLost(id)
  \/ \E q \in Requests : Deletes(q[1], q[2], q[3])
  \/ \E p \in Procs : Sweep(p) \/ Crash(p) \/ Restart(p)
  \/ \E j \in Journals : LeaseRunsOut(j)

(* Promises settle, a lease is bounded, the beat comes round, and whoever  *)
(* runs the processes starts them again.                                   *)
Fairness ==
  /\ \A id \in FrameIds : WF_vars(id \in DOMAIN frames /\ Step(id))
  /\ \A p \in Procs : WF_vars(Sweep(p)) /\ WF_vars(Restart(p))
  /\ \A j \in Journals : WF_vars(LeaseRunsOut(j))

Spec == Init /\ [][Next]_vars
FairSpec == Spec /\ Fairness

-----------------------------------------------------------------------------
(***************************************************************************)
(* Properties.                                                             *)
(***************************************************************************)

TypeOK ==
  /\ stored \subseteq Rows
  /\ \A i \in DOMAIN Fields : names[i] \in [Rows -> Rows \cup {Nobody}]
  /\ DOMAIN frames \subseteq FrameIds
  /\ \A id \in DOMAIN frames :
       /\ frames[id].at \in up
       /\ frames[id].stage \in {"open", "take", "hop", "walk", "row", "close", "end", "pick"}
       /\ frames[id].stage \in {"hop", "walk"} /\ ~frames[id].waits => frames[id].todo # << >>
  /\ asked \in [Users -> {"idle", "waiting", "answered", "refused", "failed"}]

(* What a deployment must be for the two below: wherever a row may be      *)
(* deleted, what may name it is hosted there or at a peer.  And for the    *)
(* first of them, that nothing is written down.                            *)
EveryChildIsAsked ==
  \A p \in Procs : \A i \in DOMAIN Fields : Fields[i].to \in Hosts[p] =>
    \E q \in {p} \cup Peers[p] : Fields[i].of \in Hosts[q]
Unjournalled == \A p \in Procs : JournalOf[p] = Nobody

(* "A child never outlives its parent ... never an orphan" (Release.ts:29- *)
(* 30), at every instant: while a delete is under way, across processes,   *)
(* and after any of them stopped half way.                                 *)
NoOrphan ==
  \A i \in DOMAIN Fields : \A r \in stored :
    names[i][r] # Nobody => names[i][r] \in stored

(* A run that q may once have found in other hands, and taken to be seen   *)
(* to: q was started again, or its journal is not its own.                 *)
Begun(q, r) ==
  /\ Journalled(q) /\ runs[JournalOf[q]][r] # NoRun
  /\ pid[q] > 1 \/ \E p \in Procs \ {q} : JournalOf[p] = JournalOf[q]
AskedAbout(q, r) == \E p \in Procs : Entity[r] \in Hosts[p] /\ q \in Peers[p]

(* NoOrphan with journals, where release() answers "busy" as it answers    *)
(* that it is done (Release.ts:55): a child outlives its parent only where *)
(* its own release had been begun already, or where a peer had begun that  *)
(* of the parent, and in both cases by another driver than the one that    *)
(* then passed it over.                                                    *)
OrphansWereBegun ==
  \A i \in DOMAIN Fields : \A r \in stored : names[i][r] \notin stored \cup {Nobody} =>
    \E q \in Procs : HostedAt(q, i) /\
      (Begun(q, r) \/ (AskedAbout(q, names[i][r]) /\ Begun(q, names[i][r])))

(* Two processes that ask each other about the same rows do not do so for  *)
(* ever: every delete is answered, whatever stops or is lost on the way    *)
(* (the trail, Release.ts:47-50 and 139-140).                              *)
EveryDeleteAnswered ==
  \A u \in Users : []<>(asked[u] # "waiting")

(* "A row already visited is not visited again, which is what ends a cycle"*)
(* (Release.ts:33), said of one delete: no call of release() on a row is   *)
(* made from inside another call on that row, by the same process.         *)
VisitedOnce ==
  \A i, j \in DOMAIN frames :
    i # j /\ frames[i].kind = "gesture" /\ frames[j].kind = "gesture"
      => frames[i].row # frames[j].row

(* A release once written down is finished, however often its driver stops:*)
(* its run is closed, and nothing names the row any more (Journal.ts:6-9,  *)
(* RunHandler.ts:7-27).                                                    *)
BegunIsFinished ==
  /\ \A j \in Journals : \A r \in Rows : []<>(runs[j][r].status # "running")
  /\ <>[](\A j \in Journals : \A r \in Rows :
            runs[j][r].status = "done" => \A i \in DOMAIN Fields : Naming(i, {r}) = {})

(* ... and no orphan is left for good.                                     *)
OrphansGo == <>[]NoOrphan

=============================================================================

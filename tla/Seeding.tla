------------------------------ MODULE Seeding ------------------------------
(***************************************************************************)
(* The seeds of an ascent: core/src/boot/seed.ts, awaited by createApp     *)
(* before an app answers anyone (bootstrap.ts, AppLifecycle.up).  The      *)
(* processes are replicas over the same rows, or parts of a split app, as  *)
(* `hosting` says; a process that stops or whose boot is refused is        *)
(* started again, and finds the rows it left.                              *)
(*                                                                         *)
(* Seeds are the nodes of a graph, ranked as they are declared; an edge    *)
(* per reference, and row i of a seed names row i of each it refers to, or *)
(* the row before it where a seed refers to itself.  No row is deleted     *)
(* here, so the reads of a row's targets and its write are one step.       *)
(***************************************************************************)
EXTENDS Multigraph, Sequences

CONSTANTS
  Processes,      \* the processes
  References,  \* the graphs of seeds there may be
  Hostings,    \* per process the seeds whose storage it has: what may be
  Keyed,       \* seeds whose rows are given their key
  Lines,       \* rows of a seed
  MaxBreaks    \* storages that fail and processes that stop, a bound of the model

ASSUME SeedsHaveRows == Lines \in Nat \ {0}
ASSUME HostedAreSeeds == Hostings \subseteq [Processes -> SUBSET Nodes]

VARIABLES
  hosting,   \* per process, the seeds it plants
  planted,   \* per seed and line, how many such rows there are
  boot,      \* per process, how far it is
  plan,      \* per process, the seeds it has not come to
  line,      \* per process, the row of the first of them to plant, or 0
  stops,     \* how much went wrong
  raced,     \* seeds that two boots found empty
  halved     \* seeds whose boot broke off between two rows

seedVars == <<hosting, planted, boot, plan, line, stops, raced, halved>>

SeedInitIn(how) ==
  /\ hosting \in Hostings
  /\ planted = [s \in Nodes |-> [i \in 1..Lines |-> 0]]
  /\ boot = [p \in Processes |-> how]
  /\ plan = [p \in Processes |-> <<>>] /\ line = [p \in Processes |-> 0]
  /\ stops = 0
  /\ raced = {} /\ halved = {}

SeedInit == answering = "none" /\ edges \in References /\ SeedInitIn("down")

-----------------------------------------------------------------------------
Ranked(left) ==
  LET sorted[S \in SUBSET left] ==
        IF S = {} THEN <<>>
        ELSE LET n == CHOOSE n \in S : \A m \in S : n <= m IN <<n>> \o sorted[S \ {n}]
  IN  sorted[left]

(* Were they planted as they are declared. *)
AsDeclared == Ranked(Nodes)

(* orderSeeds, then a cycle and what waits on it, as declared.             *)
SeedOrder ==
  LET order[left \in SUBSET Nodes] ==
        IF Placeable(left) = {} THEN Ranked(left)
        ELSE LET n == Ranked(Placeable(left))[1] IN <<n>> \o order[left \ {n}]
  IN  order[Nodes]

Boots(p) ==
  /\ boot[p] = "down"
  /\ boot' = [boot EXCEPT ![p] = "seeds"]
  /\ plan' = [plan EXCEPT ![p] = SeedOrder]
  /\ UNCHANGED <<graphVars, hosting, planted, line, stops, raced, halved>>

Plants(p) == IF line[p] = 0 THEN {} ELSE {Head(plan[p])}

(* Were rows never seen, as when a page was read as a list. *)
Unread(s) == TRUE

Empty(s) == \A i \in 1..Lines : planted[s][i] = 0

(* storageFor, then list: no storage here, rows already, or none. *)
Looks(p) ==
  /\ boot[p] = "seeds" /\ line[p] = 0 /\ plan[p] # <<>>
  /\ LET s == Head(plan[p])
         mine == s \in hosting[p] /\ Empty(s)
     IN  /\ plan' = IF mine THEN plan ELSE [plan EXCEPT ![p] = Tail(@)]
         /\ line' = IF mine THEN [line EXCEPT ![p] = 1] ELSE line
         /\ raced' = IF mine /\ \E q \in Processes : s \in Plants(q) THEN raced \cup {s} ELSE raced
  /\ UNCHANGED <<graphVars, hosting, planted, boot, stops, halved>>

(* The row that row i of s names by an edge: here, or asked of a process   *)
(* that is up and has it.                                                  *)
Named(p, e, i) ==
  LET n == IF Loop(e) THEN i - 1 ELSE i
      reached == \E q \in Processes : e.to \in hosting[q] /\ (q = p \/ boot[q] = "up")
  IN  n > 0 => planted[e.to][n] > 0 /\ reached

Accepted(p, s, i) ==
  /\ \A e \in Leaving(s) : Named(p, e, i)
  /\ s \in Keyed => planted[s][i] = 0

PlantsRow(p) ==
  \E s \in Plants(p) :
    /\ Accepted(p, s, line[p])
    /\ planted' = [planted EXCEPT ![s][line[p]] = @ + 1]
    /\ line' = [line EXCEPT ![p] = IF @ = Lines THEN 0 ELSE @ + 1]
    /\ plan' = IF line[p] = Lines THEN [plan EXCEPT ![p] = Tail(@)] ELSE plan
    /\ UNCHANGED <<graphVars, hosting, boot, stops, raced, halved>>

(* A boot that ends before its time: its app is let go of, its rows stay.  *)
BreaksOff(p) ==
  /\ boot' = [boot EXCEPT ![p] = "down"]
  /\ plan' = [plan EXCEPT ![p] = <<>>] /\ line' = [line EXCEPT ![p] = 0]
  /\ halved' = IF line[p] > 1 THEN halved \cup Plants(p) ELSE halved
  /\ UNCHANGED <<graphVars, hosting, planted, raced>>

(* The error names the entity and the row, and refuses the boot. *)
Refuses(p) ==
  /\ \E s \in Plants(p) : ~Accepted(p, s, line[p])
  /\ BreaksOff(p) /\ UNCHANGED stops

(* The storage fails, or the process stops. *)
Stops(p) ==
  /\ boot[p] # "down" /\ stops < MaxBreaks
  /\ stops' = stops + 1
  /\ BreaksOff(p)

ComesUp(p) ==
  /\ boot[p] = "seeds" /\ plan[p] = <<>>
  /\ boot' = [boot EXCEPT ![p] = "up"]
  /\ UNCHANGED <<graphVars, hosting, planted, plan, line, stops, raced, halved>>

Ascends(p) == Boots(p) \/ Looks(p) \/ PlantsRow(p) \/ Refuses(p) \/ ComesUp(p)
SeedNext == \E p \in Processes : Ascends(p) \/ Stops(p)

(* Whoever starts the processes starts them again; a boot goes on. *)
SeedFairness == \A p \in Processes : WF_<<graphVars, seedVars>>(Ascends(p))
SeedSpec == SeedInit /\ [][SeedNext]_<<graphVars, seedVars>> /\ SeedFairness

-----------------------------------------------------------------------------
(* "The same seed is planted once" (data/5.seeds.md:31), and "is skipped   *)
(* when its entity already holds rows" (:32): once every boot is done with *)
(* it, a seed is there whole or not at all, and no row of it is there      *)
(* twice; but for a seed whose rows have no key and that two boots found   *)
(* empty at once, and for one whose boot broke off between two rows, which *)
(* no later boot completes.                                                *)
SeedsPlantedOnce ==
  \A s \in Nodes : \A i \in 1..Lines :
    /\ planted[s][i] > 1 => s \in raced \ Keyed
    /\ (planted[s][i] = 0 /\ \A p \in Processes : s \notin Plants(p)) => Empty(s) \/ s \in halved

(* What no order plants, a process that waits for one that waits for it,   *)
(* and a half seed whose missing row is named.                             *)
Unorderable == \E left \in (SUBSET Nodes) \ {{}} : Placeable(left) = {}
WaitsFor(p, q) ==
  \E e \in edges : e.from \in hosting[p] /\ e.to \in hosting[q] \ hosting[p]
InRing(p) ==
  \E S \in SUBSET Processes : p \in S /\ \A q \in S : \E r \in S : WaitsFor(q, r)
Barred(p) == Unorderable \/ InRing(p) \/ halved # {}

(* "A `ref()` target is planted before its referrer" (:29), whatever order *)
(* the seeds are declared in, whichever process has them, and after any    *)
(* stop: every process comes up in the end, and stays.                     *)
EveryBootComesUp ==
  \A p \in Processes : <>[](boot[p] = "up" \/ Barred(p))

(* "a seed runs in the process that hosts its entity's storage ... The     *)
(* same seed is planted once, in process or split, with no code of its own *)
(* deciding it" (:30-31): where an order plants every seed, every one is   *)
(* there in the end, whichever process has it.                             *)
PlantedInProcessOrSplit ==
  <>[](Unorderable \/ halved # {} \/
       \A s \in Nodes : (\E p \in Processes : s \in hosting[p]) => ~Empty(s))
=============================================================================

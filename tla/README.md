# A verification of fougere's core

fougere is a TypeScript framework: entities and handlers are grouped in *fronds*, an app is
assembled from fronds at boot, and the same app is served in one process or spread over several
(*remotes*) without its code saying so. This directory holds TLA+ models of the parts of it that
run concurrently, their TLC configurations, and proofs checked by TLAPS. Paths below are relative
to `packages/` unless they say otherwise.

## 1. Inventory

What runs concurrently: JavaScript runs one piece of code at a time, from one `await` to the next.
Calls interleave at every `await` within a process, processes interleave freely and stop, and
between two processes a question may go unanswered. A model therefore has one step from each
`await` to the next, and no finer.

| Part | State | Operations | Talks to | What is hard | What makes it correct |
|---|---|---|---|---|---|
| **Turns** `core/src/storage/Turns.ts` | a promise per key | `take`, `takeAll` | the storages over one store | chains of promises, sets of keys in different orders | one turn per key; no circle of waits; everyone served |
| **Storage over a store** `core/src/storage/Store.ts` | rows | create, update, updateByKeys, upsert, delete | Turns, the store | reads and writes apart; some gestures take no turn | a change replaces the row it read |
| **SQL rows** `adapter/sql/src/crud/SqlStorage.ts`, `source/SqlSource.ts` | rows, the rows a connection holds | update, updateByKeys, plain writes, the transaction of a block | Turns, the engine's locks | two kinds of waiting, one of which the engine cannot see | a block is atomic, and ends |
| **Versions, migrations** `adapter/sql/src/step/`, `diff/`, `cli/src/…/versions` | frozen versions, the table's columns | freeze, plan, migrate, the boot's check | the engine | statements outside a transaction, chains, two release steps at once | the rows follow their field |
| **Release** `core/src/module/relation/Release.ts` | none of its own: rows, a trail | the walk of a delete, its peers, its journal | storages, RelationGuard, peers, Journal | crossing processes, crashes, lost answers, cycles | never an orphan; every delete is answered |
| **Relation guard** `core/src/module/relation/RelationGuard.ts` | none | delete through release; targets of a write | storages, Release | a target that goes between check and write | a written reference has a target |
| **Journal and sweep** `workflow/src/Run*.ts` | runs with leases | open, close, abandoned, sweep | Release | leases that run out, restarts | a release begun is finished |
| **Later** `workflow/src/Later*.ts`, `index.ts` | kept calls with takes | keep, due, take, done; the beat | Dispatcher | overlapping beats, throws, stops | no call lost, none early |
| **Dispatcher, InFlight** `core/src/dispatch/` | a count, a closed flag, who waits | dispatch, enter, drain | everything that calls | calls in calls, closing while calls come in | a drained app has nothing running |
| **Host** `app/shared/src/boot.ts` | the handle, the replaced apps, the configuration | useFougereApp, configureFougere, extendFougere, reloadFougere | InFlight, an app's release | crossing reloads, refused boots, deadlines | the handle serves; an app is released once, and idle |
| **App lifecycle** `core/src/boot/bootstrap.ts`, `AppLifecycle.ts` | the ascent's members | createApp, up, down, dispose | extensions, container | one level of several refusing; a boot that stops half way | everything is told to close, in the reverse order |
| **Container, scopes** `container/src/ScopeContainer.ts` | scopes, instances, what is to be closed | createScope, resolve, dispose | the boot, frames | scopes that close themselves while the one above closes | nothing closes under what stands on it |
| **Frames** `core/src/module/frame/`, `core/src/boot/ambient.*` | a list of undos, who holds the frame | together, record, unwind, enterFrame | storages, emissions | undoing without isolation, nesting without async context | a frame that fails leaves nothing, or says what it left |
| **Emissions** `core/src/module/fact/` | subscribers, links, carrier | announce, ask, deliver | frames, remotes | partial answers, facts inside frames, rings | an answer is everyone's answer |
| **Remote router** `core/src/boot/remote.ts` | what is pending, who serves what | discover, route, listenersOf | transports | overlapping discoveries, cards refused half way | one remote per address, one listener once |
| **Graph** `graph/src/Graph.ts`, `RankQueue.ts` | nodes, labelled edges | connect, `order`, `cycles` | relations, seeds, the container's boot | two labels between the same nodes, loops, cycles with a tail, a recursion unrolled | an order puts nothing before what it names; every knot is found, and nothing else |
| **Seeds** `core/src/boot/seed.ts` | none of its own: rows | orderSeeds, runSeeds | the graph, storages, RelationGuard, remotes | two boots at once, a boot that breaks off, targets in another process | a seed is planted once and whole; the app comes up |
| Log buffer, state keepers, presenters, values, schema, registry | per boot, or none | – | – | answer within one synchronous call | – |
| Compiler, command line, other adapters, transports, hosts, observability, authentication | – | – | – | build time, wiring, or I/O | – |

How they meet: a call enters through the **Dispatcher**, which counts it (**InFlight**) and runs
it against the fronds of the **app** the **host** answers with; a call to what is not here goes
through the **router**. Its writes go through **RelationGuard** to the **storage**, where a change
takes its **turn** and, on a SQL engine, a lock; its deletes go through **Release**, which asks the
other processes, and which the **journal** writes down when the workflow package is installed. A
block of `Together` is a transaction of the SQL source when one engine holds every row, and a
**frame** with a journal of inverses otherwise; a fact announced inside it waits for its end
(**Emissions**), then reaches the listeners here and on every remote the **router** discovered. A
frame opens a **scope** of the **container**, which the release of the app closes if it is still
there. Before an app answers anyone its ascent plants the **seeds**, in the order the **graph** of
their references gives. The workflow's **beat** makes the calls kept for **later**, and runs the **sweep**.

## 2. The modules

A MC module that names several components is a run about one of them, chosen in the first state:
their states add up and do not multiply.

### FramesAndFacts, Host, Database, Workflow
What stands in one place: a process (`Together`, `Facts`), a host (`HostReload`, `Closing`,
`RowStore`), a database (`SqlRows`, `Migrate`), and what outlives the process that began it
(`Release`, `Later`). Here the components move in any order; their code shares no variable, so each
leaves the variables of the others alone. Their type invariants are those of all they hold. The MC
modules restrict them, to one component at a time.

### Turns, ExclusiveSections, RowStore
`Turns.tla` models the class: `last` is its Map, a promise is the caller whose `take` made it,
`ahead[c][k]` is the promise the caller's work was chained to. `TakeAll` takes the smallest key,
`TurnComes` the next from inside the turn of the one before, `Settle` and `Leave` settle the
promises innermost first. `ExclusiveSections.tla` is what they promise: pieces of work that name
the keys they touch, two of which never run together when they share one. `Turns` implements it,
with `section` the keys of a caller whose work runs.

`RowStore.tla` composes the turns with the gestures of `storageOver`. A row is the set of callers
whose write it carries, so that a lost write is a lost mark. Reads and writes are separate steps;
`update` and `updateByKeys` are one gesture over a set of keys; `create`/`createAll` and
`upsert`/`upsertAll` likewise. `disturbed` remembers the keys a gesture without a turn wrote after
they were read, which is what `HeldRowsUnmoved` sets apart. Left out: what fields hold, defaults,
criteria, paging, the refusals made before the first await.

### SqlRows, AtomicBlocks
A caller of `SqlRows.tla` runs one block, a sequence of gestures: a *change* takes a turn for each
row its connection is not known to hold (`mine` is `SqlStorage.held`), runs the lock statement row
by row in key order from inside the turns, gives the turns back, has the change answer and writes;
a *plain* write locks and writes in its own statement. A gesture outside a block is a block of one.
The engine is external: row locks kept to the end of the transaction, granted to any waiter, a
rollback, and a victim in a circle of waits *for locks*. `AtomicBlocks.tla` is what a block
promises - it happens whole or leaves nothing, and takes nothing of another away - and `SqlRows`
implements it, seen from what is committed. Left out: reads, criteria, paging, generated keys,
unique violations, the statements' text, an engine's lock timeout.

### Migrate
One entity and one table. A field has a number for life; `shape` says which field each name
declares, a column is the set of fields whose values it holds. Edits of the entity (`Renames`,
`Removes`, `Adds`, `Tightens`) are frozen one at a time into `line`; `chain` is what
`collapseChain` makes of it with the rename the entity declares. A migrator plans (`Plans`: the
chain less what is `Done`), moves, reads what is missing and adds it, statement by statement
outside any transaction, and may break off between any two; two migrators may run at once. What the
code folds or filters (`CollapseChain`, `Without`) is a recursive function, so that it can be reasoned
about.
`Serves` is the boot's refusal of a table that lacks a column, and an app that writes. `stranded`
remembers that a plan met a column at a name the line passes through: the exception of
`DataFollowsItsField`, and the subject of `migrate_behind`. `NamesReturn` says whether a name once
used may be used again: the subject of `migrate_replay`. Left out: several fronds and engines,
indexes, foreign keys, types. Nobody edits while a migration runs.

### Release
A call of `release()` is a *frame*: its process, its caller, its trail, the stage it is at and the
list of what its walk has still to do. The recursion of `walk` within one call is that list: per
level, its restricting fields and then the others, each set looked at in the order the fields are
declared, so that every refusal comes before any row moves. The delete of a row below and the question
to a peer are calls, hence frames. The stages follow the
function: `open`/`take` (journal), `hop` (peers), `walk`, `row`, `close`, `end`; a sweep is a
frame that `pick`s a run, opens it and calls. Errors keep the two kinds the code tells apart: a
FougereError closes the run, anything else leaves it to the sweep, and crossing a wire turns the
second into the first. `Crash` drops the frames of a process and the calls that wait for it,
`Restart` starts it with another pid, `LeaseRunsOut` lets the oldest lease go.

Simplified: reference fields are a list with their rule, those a foreign key holds left out; one
call of a storage is one step; a journal's own storage does not fail; one sweep at a time per
process; peers are asked in any order.

### Later
A *beat* is one run of `beatOnce`; beats overlap, because the interval does not wait and processes
share the rows. `BeatReads` is `due()`, `TakeReads` and `TakeWrites` the two halves of `take()`,
then `Makes` or `CallThrows`, then `Done`. The clock is what the code tells apart: which hours
have passed, and which takes are still believed. A call that throws is taken to have done nothing.

### HostReload
`handle` is `_appPromise`, `replaced` is `_replaced`, a boot is a promise numbered in the order
they begin. A request asks (`Asks`), gets its app at some later moment and enters its door
(`Enters`), may call inside a call (`Nests`), and settles. A reload replaces and boots in one step
(`ReloadBegins`), hears of the new boot, and then for each replaced app: closes its door, waits
for its calls, disposes of it. What a boot does is one promise; a disposal is one step here, and
`Closing` is its inside.

### Closing
One app from its first scope to its last. `level` follows createApp (`Installed`, `Rises`), a boot
that refuses at either level (`BootRefusesAt`), and the release: the extensions newest first
(`GoesDown`), the container (`RootCloses`), the source that was handed in (`SourceCloses`). A scope
is closed by two closers, its owner and the one above it, each a little program: the scopes it
holds, then what it built, then its registrations. A frame's scope is closed by its owner when the
frame ends (`FrameEnds`), and leaves the list of the one above, if it is in it, before it closes
anything. A frame's scope may be opened while the one above closes, after its list was read: then it
is still held when that one is over (`StillHeld`). Instances
are singletons that say how they close, built on what they need. Not modelled: names, replacement,
fallbacks and cycles of resolution, which are refused or answered within one synchronous call.

### Together
Frames realized by compensation. A body makes gestures, several at a time on different rows; each
is split into the read its inverse needs, the writes row by row, and the inverse noted once the
whole gesture answered - one per row, but one for all rows of an upsert. A body that throws unwinds:
inverses most recent first, an update's in two steps (look, write), what cannot be put back reported. `context` says whether the runtime has an
async context (nested frames and announcements are refused) or a queue (they wait, with a
deadline). A row holds the frame that wrote it last; `meddled` remembers what others wrote over a
frame's rows. A write from outside is a frame of one gesture that returns. Left out: a frame in one
SQL transaction, which is a block of `SqlRows`; values other than who wrote last.

### Facts
One process whole: its announcements, its calls to addresses that are not here, and the
discoveries both may start side by side. A *world* says what it serves, whose code it read, what
each remote's card says and whether it can be walked, and who hears and announces what. A discover
asks every pending remote at once (`Discovers`, `CardComes`, `NoCardComes`) and indexes the cards
in the order declared (`Indexes`), where the first one refused ends it. An announcement runs its
links, finds its listeners (`Hands`), each of which answers or not, and concludes. Listeners may
announce in turn (`AnnouncesOn`); `chain` is the async-context slot, lost when a call crosses to
another process, and `causes` what really led here. Left out: the carrier and `deliver`.

### Multigraph, Ordering, Knots
`Multigraph.tla` is the graph its callers build: `edges` is what is connected, one edge per pair
and label, and a node is the rank it was added with. `Ordering.tla` is `order()`, a node per step:
`waitingOn` counts the edges each node still waits on, one per label, a loop not counted; `ready`
is the queue, of which `RankQueue` gives the lowest rank (its heap is taken as a set with a least
element). `Knots.tla` is `cycles()`, which is Tarjan's algorithm with its own stack: `path` is the
walk, each node of it with the edges it has not followed, `stack` and `low` are as in the code. One
step follows one edge or leaves one node. The edges of a node are followed in any order. What it is
held against says nothing of walks: a node reaches another that is in every set the edges do not
leave and it is in (`Reach`), and a knot is the nodes that lead to one another. Left out:
the closed path that is printed for a knot, `components`, and the walks along the graph.

### Seeding
The seeds of an ascent, in processes that boot at their own time over shared rows. `hosting` says
which seeds a process has the storage of: all (replicas), some (a split app), or a mix.
`SeedOrder` is orderSeeds: the graph's order, then what no order places, as declared. A boot looks
at one seed (`Looks`: not here, has rows, or empty) and plants its rows one at a time
(`PlantsRow`); a row whose target is not found, here or at a process that is up, or whose key is
taken, refuses the boot (`Refuses`), and the process is started again. `Stops` is a storage that
fails or a process that stops. Row i of a seed names row i of each it refers to, or the row before
it where a seed refers to itself. Left out: what a seed's fields hold. A reference whose target
has neither a storage here nor a remote is written unchecked by the code; here somebody always
has the target. Nothing is deleted, so the look at the targets and the write are one step.

### Proof modules
They extend the modules they are about and hold theorems, the invariants these need and lemmas:
`TurnsProofs`, `RowStoreProofs` (and `Host`), `SqlRowsProofs` (and `Database`), `MigrateProofs`,
`ReleaseProofs` (`Release`, `Later`, `Workflow`), `AppProofs` (`HostReload` and `Closing`),
`FactsAndFramesProofs` (`Facts`, `Together`, `FramesAndFacts`) and `GraphProofs` (`Ordering`, `Knots` and
`Seeding`).

Definitions said to be *wrong on purpose*, or introduced by "were …", are plausible bugs of the
definition after them; no next-state relation uses them. Each property of a passing run fails when
one of them takes the place of the right one (`mutants` in PROJECT.json).

## 3. The runs

| Run | Expected | Instance | Shows |
|---|---|---|---|
| `release` | pass, 243,385 states | 2 processes that hold each other's dependents, all three rules, 5 rows, 2 deletes at once, 1 crash, 1 failed call; or 1 process and its journal, 2 rows, 2 deletes, 2 crashes; or every graph of 4 nodes and at most 4 edges out of 18, ordered, or walked for its cycles; or 4 graphs of seeds under 4 hostings, 2 rows each, 1 stop; or 2 kept calls, 2 beats, 1 throw, 1 stop, 1 slow taker | `OrphansWereBegun` at every instant, `EveryDeleteAnswered`, `BegunIsFinished`, `OrphansGo`; `OrderIsSound`; `KnotsAreExact`; `SeedsPlantedOnce`, `EveryBootComesUp`; `DeletedOnceMade`, `EveryKeptCallMade` |
| `host` | pass, 697,585 states | 4 boots, 2 requests, 2 reloads, 1 reconfiguration, 1 deadline or failed disposal; or 3 scopes, 4 instances, 2 extensions, 1 refusal; or 2 callers, 2 keys, every gesture on every set of keys | `CallsStandOnAnApp`, `HandleServes`, `HeldOnce`, `LetGoOnlyDisposed`, `ReloadsEnd`; `DependentsFirst`, `ReleasedInReverse`, `EverythingCloses`; `NeverCrossing`, `SectionsExclusive` (refinement), `HeldRowsUnmoved`, `EveryCallerServed` |
| `sql` | pass, 517,816 states | 3 blocks out of 5 on 2 rows, any of which may throw (or 3 empty ones, which open the second half); or 3 edits, 4 names, 2 migrators, 3 migrations | `ChangeLandsOnWhatItRead`, `NoRaceForALock`, `BlocksAreAtomic` (refinement), `EveryBlockEnds`; `DataFollowsItsField`, `NothingDeclaredIsDestroyed`, `LeavesNothingToPlan` |
| `frames` | pass, 836,487 states | 2 frames, 2 rows, 1 fault, with and without a context; or 2 announcements and a call over 2 remotes in 4 worlds, 1 silence | `AllOrNothing`, `UpdatesUndoneSpareOthers`, `NothingSaidOfWhatFell`; `EveryoneAnswered`, `NotedOnce`, `NotFoundIsSo`, `EveryoneGetsThrough` of both |
| `orphan_stays` | violation | 1 journalled process and a peer, 3 rows, 2 deletes, 1 crash | a post outlives its user for good |
| `release_cycle` | violation | 2 rows naming each other | the same row is released inside its own release |
| `sql_hang` | violation | 2 blocks on 2 rows, in key order | two blocks stop each other, and no engine sees it |
| `migrate_behind` | violation | 2 renames, a migration between them | values stay under the name in the middle |
| `migrate_replay` | violation | a name removed, then added again | a later migration drops the live column |
| `together_half` | violation | 1 `updateByKeys`, 1 fault | a row set before the change that throws is neither put back nor reported |
| `seeds_ring` | violation | 3 seeds, 2 processes, each naming rows of the other | the two boots wait for each other, and refuse for ever |
| `facts_ring` | violation | 2 facts, 1 remote | a ring of facts goes round through another process |

**Why the bounds are enough to be interesting.** Crossing needs two callers and two keys. A bounce
needs two processes that declare each other, a release that comes back needs three levels
(user – post – comment across web and blog), and each rule appears once. A sweep redoing a release
needs one crash; a sweep that is itself interrupted needs two, which the process with a journal has. Overtaking in `Later` needs two
beats. Two reloads that cross need three boots, and a request that kept an app across a turn needs
the fourth. A closing that meets another needs a frame's scope under a frond's under the root, and
something of each built on what is above; a refusal that another one follows needs two extensions.
A circle of the two kinds of waiting takes two blocks and two rows; the third block is the one that
writes without a turn. A chain is composed from two renames on, and a name that is passed through
or comes back needs three edits. An inverse that meets another's write takes two frames, and a page
that fails half way two rows. Two discoveries overlap with two askers; a claim that clashes needs
two remotes; a partial answer needs one that is silent. Four nodes are two knots at once, a knot
with a tail, a diamond and a chain of three beside a loop; four edges connect them, and the two
that have a second label tell a count of edges from a count of nodes. The four graphs of seeds are
a chain declared against its order, a seed that names its own rows, a circle with one behind it,
and a diamond; two rows are the least a boot can break off between, and two seeds have keys so
that two boots at once are refused in one place and not in another.

Bounds of the model, in the guards: `MaxFrames` caps the calls under way of a release - no state of
the passing runs has that many, it only cuts the endless recursion of `release_cycle` -,
`MaxEdges` the size of a graph, and `MaxMade` only stops a counter. `MaxBoots`, `MaxConfigs`, `MaxEdits`, `MaxDeploys`, `MaxTightened`,
`MaxGestures` and the number of announcements bound what users ask for; `MaxCrashes`, `MaxFaults`,
`MaxOvertaken`, `MaxSlow`, `MaxThrows`, `MaxStops`, `MaxBreaks`, `MaxLate`, `MaxRefusals` and
`MaxSilent` bound what goes wrong.

**Deadlock.** Each run has a part that does come to rest (every delete answered, every block ended,
no boot left, every graph walked), so the configurations say
`CHECK_DEADLOCK FALSE`; that they do not rest too early is what their liveness properties say.

**Fairness.** Weak fairness of what goes on by itself once begun: a settled promise has its
continuation run, a storage call answers, a boot settles, a call ends, the interval fires, a clock
goes on, a stopped process is started again. Nothing asks a user to call, a peer to be down, or a
deadline to pass. In `Release`, `Restart` is fair because whoever runs the processes starts them
again: the sweep's promise is worth nothing otherwise, and a boot of `Seeding` that was refused is
tried again for the same reason. In `SqlRows` each caller is treated fairly on its own: the engine grants a lock that is free, and gives up on one of a circle it sees. In
`Closing`, `Together` and `Facts` one weak fairness of everything that goes on by itself is
enough, because what the bounds leave to do is finite: it says that the process does not stop in
the middle, not who goes first. A frame's body ends (it returns or throws), a transport answers or
times out, what is told to close settles.

The blocks of `sql` (`TurnsFirst`) take every turn they need before they hold a row: that is what
`EveryBlockEnds` depends on, and `sql_hang` has the two blocks that do not. The five blocks mix
changes of one and of both rows, a second change of a row already held, and plain writes before
and after.

## 4. Where the code and what is said of it part

1. **An orphan stays** (`orphan_stays`). `Release.ts:29-30` says a child never outlives its parent,
   and `Release.ts:64-65` that a refusal closes its run. A refusal of a *peer* is thrown above the
   `try` that closes (`Release.ts:59` against `:62-67`), so a run stopped on its way to such a peer
   stays open; the delete of a row above answers "busy" to it as it answers that it is done
   (`Release.ts:55`), and takes its own row out. The sweep redoes the run, is refused again, and so
   for ever: the child stays, and what it names is gone.
2. **A cycle is not ended** (`release_cycle`). `Release.ts:33-34` says a visited row ends it; the
   delete below goes through the guard (`RelationGuard.ts:50-54`) and starts with an empty trail.
3. **Two blocks can stop each other** (`sql_hang`). `site/…/3.data/8.together.md:58-66` says they
   queue in key order, or the engine gives up on one. A turn is held while its lock statement waits
   in the engine (`SqlStorage.ts:730`), so a circle can pass through both kinds of waiting, which
   only a lock timeout ends.
4. **A table in the middle of a chain is not migrated** (`migrate_behind`).
   `site/…/3.data/4.evolve.md:122` says nothing has to know where the database sits. The chain
   composes a→b→c into a→c (`Plan.ts:53`), and `done` skips it where there is no a (`Plan.ts:210`).
5. **A second migration can drop a live column** (`migrate_replay`). `MigrateHandler.ts:35-37` says
   everything replays safely. A removal in the chain is judged by the column's name alone, also
   when a later field has taken it.
6. **A page that fails half way stays written** (`together_half`). `8.together.md:95` says all or
   nothing either way; the inverses of an `updateByKeys` are noted once it answered
   (`frame.ts:141`), and over a Map or a file it sets its rows one by one (`Store.ts:186`).
7. **A ring of facts is refused in one process only** (`facts_ring`). `1.concepts/6.fact.md:62-63`
   says a ring is refused; the facts up the stack are in an async context that a call to another
   process does not carry (`Emissions.ts:372`).
8. **A split app whose seeds name each other's never comes up** (`seeds_ring`).
   `site/…/3.data/5.seeds.md:30-31` says the same seed is planted once, in process or split, with
   no code of its own deciding it. A process answers nobody before its seeds are planted, so a
   process that asks another for a target while that one asks it is refused at every boot, where
   one process with both would come up.

Exceptions written into a property, each named in its comment:

- a gesture without a turn overtakes a change of a store (`HeldRowsUnmoved`, `disturbed`):
  `create`, `upsert` and `delete` of `Store.ts` take none, where `Change.ts:2-3` and
  `Storage.ts:77-79` say no other write reaches the row;
- with a journal, a child outlives its parent for a while where its release, or its parent's at a
  peer, had been begun by another driver (`Release.ts:55` against `Release.ts:29-30`): a process
  before it stopped, or another process on the same journal (`Begun` in `OrphansWereBegun`). Two
  processes that share a journal come to it with no crash and no failed call;
- a kept call may go out twice (`LaterRepository.ts:45` against `Later.ts:6-7`);
  `EveryKeptCallMade` says at least once;
- a refused old boot empties a newer handle, whose app is then released by nobody, and a reload
  that gives up drops the rest of its list (`LetGoOnlyDisposed`);
- a frame's scope that closes itself has left the list of the one above, which may close what it
  stands on, and one opened while that one closes is still held when it has
  (`DependentsFirst`, against `lifecycle.md:92-94`); what is built between a scope's last
  look and its end is never closed (`EverythingCloses`);
- a remote whose card is refused is neither pending nor indexed: its addresses answer NOT_FOUND and
  announcements that wait answer without it (`NotFoundIsSo`, `EveryoneAnswered`, against
  `remote.ts:38-41` and `Emissions.ts:248-255`);
- two discoveries that overlap note a listener twice, for as long as the process lives
  (`NotedOnce`);
- without an async context an announcement nobody awaits goes out after its frame fell, and one
  that is awaited waits for its own frame for ever (`NothingSaidOfWhatFell`, `EveryoneGetsThrough`,
  against `ambient-port.ts:23-26`).

- a seed is skipped when its entity holds any row (`seed.ts:62`): one whose boot broke off between
  two rows is never completed (`halved` in `SeedsPlantedOnce`), and what names a missing row keeps
  its process from coming up (`Barred` in `EveryBootComesUp`);
- two boots that find a seed empty at the same time plant it twice, unless its rows are given
  their key (`raced` in `SeedsPlantedOnce`, against `5.seeds.md:31`).

Seen while modelling, without a property: a refused reload leaves the previous app unreached
(`boot.ts:127`, against `boot.ts:140` and `lifecycle.md:51-52`); a slow driver and a sweep may
close each other's run; a `restrict` below refuses after a sibling's rows went; a handler's inner calls are refused
while its app drains; a beat ends at the first row deleted under it; an update inside a change of
the same key waits for itself; two names that swap within one step collapse to nothing; a step
`realise` refuses blocks every later migration; the undo of a create or an upsert is blind, and an
undo may restore a value another frame took back; two overlapping writes of one file can tear its
row, and `all()` of the file adapter refuses when a row vanishes between the listing and the read;
an extension whose `up` never ran is told to go down.

## 5. What is proved

Proofs hold for every value of the constants that meets the modules' ASSUMEs (keys are numbers, no
caller is the absent one, bounds are counts, remotes are numbered, a world is a world).

- **Turns.** `TurnsInvariant`: one turn per key is not inductive, because nothing in it says that a
  newcomer stands *behind* whoever holds the key. `Chained` adds what a line is: the callers lined
  up for a key form a sequence without repetition, each chained to the one before and the first to
  nobody, and the Map holds the last of them. `Standing` adds where a caller is in its own set of
  keys: it waits for the smallest it lacks, works with all of them in hand. A turn is then the head
  of its line, so there is one. From it: `TurnsTyped`, `OneTurnAtATime`, `WaitsNeverCross`, and
  `TurnsImplementSections`, by mapping each step to an Enter, an Exit or a stutter.
- **RowStore.** `StoreUsesTurns` shows that each gesture is a step of `Turns` or leaves it alone,
  so the theorems above carry over (`StoreTurnsExclusive`). `UpdatesReadWhatTheyReplace` proves
  `HeldRowsUnmoved` from the exclusion of sections: a row is only set by an update that holds its
  turn, or by a gesture that marks it disturbed.
- **SqlRows.** `SqlInvariant`: whoever works under its turns has asked for every row it does not
  hold (so a row another caller locks by a change is one whose turn it has), whoever is about to
  write owns the locks of all its rows and read them under those locks, and a running block's marks
  are only on rows it owns. From it: `SqlKeepsItsTypes`, `ChangesLand`, `ChangesDoNotRace`, and
  `BlocksImplementAtomic`, where a commit is a Stand, a rollback a Fall, and every other step a
  stutter, because an unfinished block's marks are invisible and nobody else's are touched.
- **Migrate.** `DataFollows`, `DeclaredIsSpared` and `UpToDate`, where no name is used twice
  (`~NamesReturn`, the run's own setting: with names that return, `migrate_replay` shows a
  declared column dropped). What the table holds depends on what a *composed* chain says of a line of any length,
  so the argument is of the composition: a story in which no name returns (`Story`) collapses to
  changes that each say where one field was and where it is (`CollapseTells`), no two to one name and
  none starting where another ends. Hence there is an assignment of names to fields for good
  (`Owned`): a column only holds values of its field, a change goes from a name of a field to another
  of the same (`ChainCarries`), what a migrator has still to run is what the chain says of the columns
  there are (`Running`), and a field that is declared is in one column at a time (`Single`) until a
  plan meets a column at a name the line passes through. The fold itself is unfolded by `Recursively`,
  which gives a recursive function its values from a well-founded order on the numbers.
  `MigrateWellTyped` needs no hypothesis.
- **Release.** `OrphansComeFromBusyRuns` proves `OrphansWereBegun` for any processes, fields, rows
  and requests, any journals, own or shared, and whatever stops, is lost or overtaken, where whatever
  may name a row is hosted where it is deleted or at a peer of that place (`EveryChildIsAsked`;
  `MCRelease` asserts it of its deployment). That no row names a missing one is far from inductive,
  because a row goes at the end of a walk that looked long before. `OrphanInv` says what a call
  *owes*: each row that names its own by a field hosted here is yet to be looked for, to be emptied,
  to be deleted, or being deleted by a call of this one; each peer is to be asked, being asked, or
  clear; a delete that answered has deleted. Nothing is created, so what is done stays done; an
  error, a crash or a lost answer ends the call, which owes nothing and deletes nothing. A journal
  adds one way out: a call that found its run in other hands answers without having deleted, and then
  somebody else opened that run - an earlier life of the process, since a run of the pid it has now
  is its own and it takes it, or a process that shares the journal. A
  run, once written, is never unwritten, so what `Begun` says stays true after the call has gone. A
  sweep's call owes what any call owes, from the day it takes its run over.
  `NeverAnOrphan` is the corollary where nothing is written down (`Unjournalled`): no orphan at any
  instant. `ReleaseKeepsItsTypes` is of every deployment: calls stand where a process is up, and one
  that is not waiting in its walk has something to do.
- **Later.** `KeptCallsAreNotLost` and `KeptCallsWait` (no call is made before its hour), from an
  invariant that follows a beat: what it is done with was made, what it has in hand had come due.
  Neither rests on the takes. `KeptCallsKeepTheirTypes` does: a row is in the list of
  takes once (`Once`), taking one out leaves the rest once (`LessOne`), and a beat has a call in hand
  just when it is at work (`InHandOnly`).
- **HostReload.** `HostTyped`, `CallsKeepTheirApp`, `HandleOnAnOpenDoor`, from two more facts: the
  handle is in no list an app is released from, and a door is closed before its app is disposed of
  and while it drains. Without the first, a reload could close the door of the app in service;
  without the second, a late call could enter an app that was disposed of. `ReleasedByOne` and
  `NoAppIsLost` add whose list a boot is in (`OnceInv`): no list has it twice, no two have it, and a
  reload that is not under way has none.
- **Closing.** `NothingStandsOnTheClosed`, `ClosedInReverse` and `ClosingTyped`, for any tree of
  scopes and any needs. `DownInv` has five parts: `DownShape`; `Ascent`, how far the app is and whom it
  told; `Tree`, that an open scope is on the list of the one above, or being closed for it, or closes
  on its own, and that whoever closes a scope for the one above is waited for by it; `Lives`, that what
  is built is on its scope's stack once until somebody closes it, and that nothing is left when the
  scope is over; `StandsOnBuilt`, that on one stack what a thing needs is below it. The last two order what
  closes within a scope, `Tree` orders the scopes.
- **Together.** `FallenFramesLeaveNoTrace` (`AllOrNothing`), `FallenFramesAnnounceNothing`,
  `UndoneUpdatesSpareOthers` and `FramesWellTyped`. A frame that runs and one that unwinds are told
  apart by their journal: while it is open the inverses of a row form a chain from what the row held
  first to what it holds now (`Grown`), each giving back what the one before wrote; once it falls the
  same chain is read from its end (`Replays`), and each inverse that runs takes its last link. A row
  that another frame wrote, that a gesture left half way, or that was reported is out of the chain
  (`Lost`). `Announced` says who can still be waiting to be told out, `AllLooked` that between an
  undo's look and its write only what it saw is written over, but for what landed in between.
- **Facts.** `FactsInvariant` has two halves. `CardsInv`, of what was discovered: a remote is
  pending, dropped, or indexed with every address it serves routed and noted, and a discover under
  way holds only remotes that were pending when it began - one that another asker also holds is in
  `twice`. `AnswersInv`, of what was said: an announcement that waits settles with every remote
  indexed or dropped, each listener is still to settle, heard or missed, and one missed refuses it.
  From them: `WaitsForEveryone`, `NotedTwiceIsOverlap`, `NotFoundIsTrue`, `ClaimsAreKept`
  (an address answers with the remote that declared it first, which no run checks), and
  `FactsKeepTheirShape`.
- **FramesAndFacts, Host, Database, Workflow.** A step of any of them is a step of one component and leaves
  the others where they are, so it runs each as its own specification says (`ProcessRunsBoth`,
  `HostRunsAll`, `DatabaseRunsBoth`, `WorkflowRunsBoth`), and every theorem above holds there too.
  `ProcessWellTyped`, `AppKeepsItsTypes`, `DatabaseWellTyped` and `WorkflowKeepsItsTypes` are their
  type invariants.
- **Ordering.** `OrderInv` says what `waitingOn` counts while nodes are placed: the edges of a node
  to another that is not placed; that `ready` is exactly the nodes it is 0 for and that are not
  placed; that each placed node stands behind all it points to. `OrderIsAlwaysSound` follows, for
  every graph: when nothing is ready, whatever is left waits on something left.
- **Knots.** `KnotsAlwaysExact`: Tarjan's walk with its own stack, for every graph and any order of
  its edges. `KnotInv`: the nodes on the path cut the stack in stretches; a node of the path
  reaches what is on the stack above it (`Below`), and what is on the stack reaches a node of the path
  at or under it (`Above`); the low link of a node is the entry of something on the stack that it
  leads to (`Lows`) and at or below whatever the edges
  followed from its stretch lead to (`Floors`); what was found is closed under edges. So where a
  node's low link is its own entry, what is on the stack from it on is one group, and with what was
  found before a set that no edge leaves - which is what `Reach` quantifies over, so that no induction
  along paths is needed.
- **Seeding.** `SeedInv`, of four parts: a boot plants what it has the storage of, and has passed no
  missing row (`Walks`); what is there in part is being planted or was broken off (`InPart`); a
  keyed row is there once, and whoever plants a seed nobody raced for is alone with it and finds
  nothing ahead of it (`Singly`). The last is what makes "once" inductive.
  `SeedsAreAlwaysPlantedOnce` follows, for every graph, hosting and number of stops. Nothing in it
  depends on the order, so the recursive function `SeedOrder` is never unfolded.

**Only model-checked.** Every liveness property, since ENABLED and fairness are beyond the prover:
`EveryCallerServed`, `BegunIsFinished`, `OrphansGo`, `EveryDeleteAnswered`, `EveryBootComesUp`,
`EveryKeptCallMade`, `ReloadsEnd`, `EverythingCloses`, `EveryBlockEnds`, `EveryoneGetsThrough`.
That whoever waits is answered is written "again and again nobody waits" (`[]<>`), which is what
"waiting leads to answered" says, and is checked faster. Every invariant and every action property of the passing runs is a theorem.

## 6. Not modelled, and why

Within the modelled parts: see what each section of 2 leaves out; besides, a slow driver of a
release (`MaxOvertaken = 0`) and two processes sharing one journal, whose state spaces exceed the time a
run has: the theorems about `Release` cover both, the liveness properties do not. What `boot()` reads between its awaits (a reconfiguration may give it the storage of one
configuration and the fronds of another, `boot.ts:178`) is inside a promise of `HostReload`. Parts
not modelled are in PROJECT.json with their reason: code that answers within one synchronous call
(presenters, values, log buffer, state keepers), data (schema, registry),
build time (compiler, command line) or I/O (other adapters, transports, observability,
authentication, web hosts). They are most of the repository by lines, and little of it by states.

## 7. The plan

Written in the order of what the system rests on. Done: `Turns` with `ExclusiveSections` and
`RowStore` over it; `Release` with its journal; `Later`; `HostReload`; `Together` with the queue of
`ambient.queue.ts`; `Facts` with the remotes; `SqlRows` with `AtomicBlocks`; `Migrate`; `Closing`;
`Ordering` and `Knots`; `Seeding`; the proofs of section 5. Left:

1. `RelationGuard`'s writes beside a release: which references may be left without a target.
2. The carrier and `deliver`: a fact that comes in more than once, or after its process restarted.
3. Two journalled processes with a slow driver, if the states can be cut.

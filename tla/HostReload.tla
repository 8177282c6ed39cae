----------------------------- MODULE HostReload -----------------------------
(***************************************************************************)
(* The one app a host serves, and its turns: boot.ts in app/shared, with   *)
(* the door that counts an app's calls, core's InFlight.ts.                *)
(*                                                                         *)
(* A boot is a promise of an app, numbered in the order they begin.  The   *)
(* module's variables are the code's: `handle` is _appPromise, `replaced`  *)
(* is _replaced.  Between two awaits JavaScript runs alone, so a step is   *)
(* what happens from one await to the next.                                *)
(***************************************************************************)
EXTENDS Integers, Sequences, SequencesExt, FiniteSets

CONSTANTS
  Requests,    \* what reaches a door, each once
  Reloads,     \* calls of reloadFougere()
  MaxBoots,    \* boots begun at most
  MaxConfigs,  \* calls of configureFougere() or extendFougere()
  MaxLate      \* drains that meet their deadline, or disposals that throw

ASSUME BoundsAreCounts == {MaxBoots, MaxConfigs, MaxLate} \subseteq Nat

Boots == 1 .. MaxBoots
None == 0

VARIABLES
  app,       \* per boot, what its promise is: an app, a refusal, or not yet
  accepting, \* per boot, whether the app's door takes new calls
  handle,    \* the boot useFougereApp() answers with, or None
  replaced,  \* the boots replaced since the last reload took them
  request,   \* per request, the app it asked for and how far it is
  reload,    \* per reload, the boot it waits for and those it releases
  configs,   \* how often the host was configured again
  late       \* how often a release went wrong

hostVars == <<app, accepting, handle, replaced, request, reload, configs, late>>

HostInit ==
  /\ app = [b \in Boots |-> "unborn"]
  /\ accepting = [b \in Boots |-> TRUE]
  /\ handle = None
  /\ replaced = << >>
  /\ request = [q \in Requests |-> [stage |-> "idle", of |-> None]]
  /\ reload = [r \in Reloads |-> [stage |-> "idle", next |-> None, previous |-> << >>]]
  /\ configs = 0
  /\ late = 0

-----------------------------------------------------------------------------
(* The next boot there is to begin. *)
IsNext(b) ==
  /\ app[b] = "unborn"
  /\ \A other \in Boots : app[other] = "unborn" => b <= other

(* Replaced, pushed whether there is a handle or not. *)
PushedAnyway == Append(replaced, handle)

(* _replaced, with the handle replace() lets go of. *)
Replaced == IF handle = None THEN replaced ELSE Append(replaced, handle)

(* Running, were an inner call to let go for the outer one as well. *)
RunningOuter(b) == {q \in Requests : request[q].of = b /\ request[q].stage = "running"}

(* The calls an app counts: nested ones twice, so one running is enough. *)
Running(b) == {q \in Requests : request[q].of = b /\ request[q].stage \in {"running", "nested"}}

-----------------------------------------------------------------------------
(* Configure, were the handle kept. *)
ConfigureKeeps ==
  /\ configs < MaxConfigs
  /\ configs' = configs + 1
  /\ replaced' = Replaced
  /\ UNCHANGED <<app, accepting, handle, request, reload, late>>

(* configureFougere(), extendFougere(): the next to ask boots anew. *)
Configure ==
  /\ configs < MaxConfigs
  /\ configs' = configs + 1
  /\ replaced' = Replaced
  /\ handle' = None
  /\ UNCHANGED <<app, accepting, request, reload, late>>

(* boot() settles. *)
BootAnswers(b) ==
  /\ app[b] = "booting"
  /\ app' = [app EXCEPT ![b] = "up"]
  /\ UNCHANGED <<accepting, handle, replaced, request, reload, configs, late>>

(* BootRefuses, were the handle left on the refusal. *)
RefusalIsKept(b) ==
  /\ app[b] = "booting"
  /\ app' = [app EXCEPT ![b] = "refused"]
  /\ UNCHANGED <<accepting, handle, replaced, request, reload, configs, late>>

(* A refusal is not kept: whatever the handle is by now, it is emptied. *)
BootRefuses(b) ==
  /\ app[b] = "booting"
  /\ app' = [app EXCEPT ![b] = "refused"]
  /\ handle' = None
  /\ UNCHANGED <<accepting, replaced, request, reload, configs, late>>

-----------------------------------------------------------------------------
(* A door asks useFougereApp(), which boots when there is no handle ...    *)
Asks(q) ==
  /\ request[q].stage = "idle"
  /\ UNCHANGED <<accepting, replaced, reload, configs, late>>
  /\ \/ /\ handle # None
        /\ request' = [request EXCEPT ![q] = [stage |-> "asked", of |-> handle]]
        /\ UNCHANGED <<app, handle>>
     \/ /\ handle = None
        /\ \E b \in Boots :
             /\ IsNext(b)
             /\ app' = [app EXCEPT ![b] = "booting"]
             /\ handle' = b
             /\ request' = [request EXCEPT ![q] = [stage |-> "asked", of |-> b]]

(* ... and once it has the app, at some later moment, calls it.            *)
Enters(q) ==
  LET b == request[q].of IN
  /\ request[q].stage = "asked" /\ app[b] \notin {"booting", "unborn"}
  /\ request' = [request EXCEPT ![q].stage =
       IF app[b] = "refused" THEN "failed"
       ELSE IF accepting[b] THEN "running" ELSE "unavailable"]
  /\ UNCHANGED <<app, accepting, handle, replaced, reload, configs, late>>

(* A handler calls another facade of its app: through the same door.       *)
Nests(q) ==
  /\ request[q].stage = "running"
  /\ request' = [request EXCEPT ![q].stage =
       IF accepting[request[q].of] THEN "nested" ELSE "cut"]
  /\ UNCHANGED <<app, accepting, handle, replaced, reload, configs, late>>

(* Settles, were a call that ended still counted. *)
KeepsCounting(q) ==
  /\ request[q].stage = "nested"
  /\ request' = [request EXCEPT ![q].stage = "running"]
  /\ UNCHANGED <<app, accepting, handle, replaced, reload, configs, late>>

(* release(): the inner call lets go first, the outer one last, once.      *)
Settles(q) ==
  /\ request[q].stage \in {"nested", "running"}
  /\ request' = [request EXCEPT ![q].stage = IF @ = "nested" THEN "running" ELSE "answered"]
  /\ UNCHANGED <<app, accepting, handle, replaced, reload, configs, late>>

-----------------------------------------------------------------------------
(* reloadFougere(): replaced and booted again before its first await.      *)
ReloadBegins(r) ==
  /\ reload[r].stage = "idle"
  /\ \E b \in Boots :
       /\ IsNext(b)
       /\ app' = [app EXCEPT ![b] = "booting"]
       /\ handle' = b
       /\ reload' = [reload EXCEPT ![r] = [stage |-> "waits", next |-> b, previous |-> Replaced]]
  /\ replaced' = << >>
  /\ UNCHANGED <<accepting, request, configs, late>>

(* Restored, were only those replaced since kept. *)
NotRestored(r) == replaced

(* A refusal gives the previous ones back, before any replaced since. *)
Restored(r) == reload[r].previous \o replaced

ReloadHears(r) ==
  /\ reload[r].stage = "waits" /\ app[reload[r].next] # "booting"
  /\ IF app[reload[r].next] = "refused"
     THEN /\ reload' = [reload EXCEPT ![r].stage = "refused", ![r].previous = << >>]
          /\ replaced' = Restored(r)
     ELSE /\ reload' = [reload EXCEPT ![r].stage = "releases"]
          /\ UNCHANGED replaced
  /\ UNCHANGED <<app, accepting, handle, request, configs, late>>

(* The next of the previous ones: awaited, and its door closed.  One that  *)
(* never came up refuses again here, and the reload with it.               *)
ReloadCloses(r) ==
  LET old == reload[r].previous[1] IN
  /\ reload[r].stage = "releases" /\ reload[r].previous # << >>
  /\ app[old] # "booting"
  /\ IF app[old] = "refused"
     THEN /\ reload' = [reload EXCEPT ![r].stage = "gave up", ![r].previous = << >>]
          /\ UNCHANGED accepting
     ELSE /\ reload' = [reload EXCEPT ![r].stage = "drains"]
          /\ accepting' = [accepting EXCEPT ![old] = FALSE]
  /\ UNCHANGED <<app, handle, replaced, request, configs, late>>

(* drain() answered: nothing runs in it any more, and it is disposed of. A *)
(* disposal tells every level to close, and then may throw.                *)
ReloadDisposes(r) ==
  LET old == reload[r].previous[1] IN
  /\ reload[r].stage = "drains" /\ Running(old) = {}
  /\ app' = [app EXCEPT ![old] = "disposed"]
  /\ \/ /\ reload' = [reload EXCEPT ![r].stage = "releases", ![r].previous = Tail(@)]
        /\ UNCHANGED late
     \/ /\ late < MaxLate
        /\ late' = late + 1
        /\ reload' = [reload EXCEPT ![r].stage = "gave up", ![r].previous = << >>]
  /\ UNCHANGED <<accepting, handle, replaced, request, configs>>

(* drain() met its deadline with calls still running. *)
DrainExpires(r) ==
  /\ reload[r].stage = "drains" /\ Running(reload[r].previous[1]) # {}
  /\ late < MaxLate
  /\ late' = late + 1
  /\ reload' = [reload EXCEPT ![r].stage = "gave up", ![r].previous = << >>]
  /\ UNCHANGED <<app, accepting, handle, replaced, request, configs>>

ReloadEnds(r) ==
  /\ reload[r].stage = "releases" /\ reload[r].previous = << >>
  /\ reload' = [reload EXCEPT ![r].stage = "turned"]
  /\ UNCHANGED <<app, accepting, handle, replaced, request, configs, late>>

-----------------------------------------------------------------------------
ReloadStep(r) == ReloadHears(r) \/ ReloadCloses(r) \/ ReloadDisposes(r) \/ ReloadEnds(r)

HostNext ==
  \/ Configure
  \/ \E b \in Boots : BootAnswers(b) \/ BootRefuses(b)
  \/ \E q \in Requests : Asks(q) \/ Enters(q) \/ Nests(q) \/ Settles(q)
  \/ \E r \in Reloads : ReloadBegins(r) \/ ReloadStep(r) \/ DrainExpires(r)

(* A boot settles, a call ends, and what a reload awaits settles. *)
HostFairness ==
  /\ \A b \in Boots : WF_hostVars(BootAnswers(b) \/ BootRefuses(b))
  /\ \A q \in Requests : WF_hostVars(Enters(q)) /\ WF_hostVars(Settles(q))
  /\ \A r \in Reloads : WF_hostVars(ReloadStep(r))

HostSpec == HostInit /\ [][HostNext]_hostVars
HostFairSpec == HostSpec /\ HostFairness

-----------------------------------------------------------------------------
(***************************************************************************)
(* Properties.                                                             *)
(***************************************************************************)

Held(b) ==
  \/ b = handle
  \/ Contains(replaced, b)
  \/ \E r \in Reloads : Contains(reload[r].previous, b)

Shape ==
  /\ app \in [Boots -> {"unborn", "booting", "up", "refused", "disposed"}]
  /\ accepting \in [Boots -> BOOLEAN]
  /\ handle \in Boots \cup {None}
  /\ replaced \in Seq(Boots)
  /\ request \in [Requests ->
       [stage : {"idle", "asked", "running", "nested", "answered",
                 "failed", "unavailable", "cut"}, of : Boots \cup {None}]]
  /\ reload \in [Reloads ->
       [stage : {"idle", "waits", "releases", "drains", "turned", "refused", "gave up"},
        next : Boots \cup {None}, previous : Seq(Boots)]]

(* A boot that was not begun is nowhere yet. *)
UnbornIsNew ==
  \A b \in Boots : app[b] = "unborn" => ~Held(b) /\ accepting[b]

HostTypeOK == Shape /\ UnbornIsNew

(* "Releasing an app closes its storage connection and every frond scope - *)
(* which is what the calls still running are standing on" (lifecycle.md:56)*)
(* : no call, nested or not, runs in an app that was disposed of, however  *)
(* late it entered and whatever reloads cross.                             *)
CallsStandOnAnApp ==
  \A b \in Boots : Running(b) # {} => app[b] = "up"

(* What useFougereApp() answers with is never an app whose door is closed, *)
(* nor a boot that refused: "the handle already points at the new app"     *)
(* (lifecycle.md:74).                                                      *)
HandleServes ==
  handle # None => app[handle] \in {"booting", "up"} /\ accepting[handle]

(* A replaced app is released by one reload at most, and the app in        *)
(* service by none: no boot is in two of the lists at once.                *)
HeldOnce ==
  /\ \A r \in Reloads : Len(reload[r].previous) = Cardinality(ToSet(reload[r].previous))
  /\ Len(replaced) = Cardinality(ToSet(replaced))
  /\ \A b \in Boots :
       Cardinality({r \in Reloads : Contains(reload[r].previous, b)})
         + (IF Contains(replaced, b) THEN 1 ELSE 0) + (IF b = handle THEN 1 ELSE 0) <= 1

(* An app that is up is let go of by being disposed of - but for the two   *)
(* ways the code has of losing one: a reload that gives up part way, and a *)
(* refusal that empties a handle it is no longer behind.                   *)
LetGoOnlyDisposed ==
  [][\A b \in Boots :
       app[b] \in {"booting", "up"} /\ Held(b) /\ ~Held(b)' =>
         \/ app'[b] \in {"disposed", "refused"}
         \/ \E r \in Reloads : reload[r].stage # "gave up" /\ reload'[r].stage = "gave up"
         \/ \E other \in Boots \ {b} : app[other] = "booting" /\ app'[other] = "refused"]_hostVars

(* A reload that was asked for ends: the calls its drain waits for end, and*)
(* none comes in meanwhile.                                                *)
ReloadsEnd ==
  \A r \in Reloads : []<>(reload[r].stage \notin {"waits", "releases", "drains"})

=============================================================================

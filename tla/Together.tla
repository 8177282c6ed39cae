------------------------------ MODULE Together ------------------------------
(***************************************************************************)
(* The compensated realization of a frame: core/module/frame/frame.ts and  *)
(* together.ts, and the ambient that says whose frame is open: an async    *)
(* context (boot/ambient.over.ts), or a queue where a runtime has none     *)
(* (boot/ambient.queue.ts).  A frame's body makes gestures on rows no one  *)
(* engine holds; each leaves its inverse in the journal once it answered,  *)
(* and a body that throws has them replayed, most recent first.            *)
(*                                                                         *)
(* A row has one field, which holds the frame that wrote it last.  A body  *)
(* awaits a gesture on a row before its next one on that row; on two rows  *)
(* it may have two under way, and throw while one still is.                *)
(***************************************************************************)
EXTENDS Naturals, Sequences, FiniteSetsExt

CONSTANTS
  Frames,       \* runs of a frame; each other one is a write from outside
  Rows,         \* the keys, integers
  Gestures,     \* per frame, what its body may ask: [kind, keys]
  Announcers,   \* the frames whose body may announce a fact
  NoFrame,      \* opened by no body
  MaxGestures,  \* per frame, gestures of its body, a bound of the model
  MaxFaults     \* refusals of a storage or a change, a bound of the model

Kinds == {"create", "update", "delete", "upsert"}
ASSUME RowsAreKeys == Rows \subseteq Nat /\ IsFiniteSet(Rows)
ASSUME GesturesHaveRows ==
  /\ Gestures \in [Frames -> SUBSET [kind : Kinds, keys : (SUBSET Rows) \ {{}}]]
  /\ \A f \in Frames : \A g \in Gestures[f] : g.kind = "delete" => \E k \in Rows : g.keys = {k}
ASSUME NoFrameIsNone == NoFrame \notin Frames

Contents == Frames \cup {"seed", "absent"}

VARIABLES
  context,   \* whether the runtime has an async context
  inside,    \* per frame, the one whose body opens it, or NoFrame
  state,     \* per frame, how far it is
  said,      \* per frame, what became of a fact its body announced
  awaited,   \* per frame, whether the body awaits that announcement
  kept,      \* per row, what it holds
  made,      \* per frame, the gestures its body made
  journal,   \* per frame, the inverses noted, then those its unwind has left
  looked,    \* per frame, whether the update being undone was looked at
  stuck,     \* per frame, the rows it reported
  origin,    \* per frame and row, what it held when the body first asked
  meddled,   \* per frame, the rows another wrote since
  faults     \* how much was refused so far

frameVars == <<context, inside, state, said, awaited>>
rowVars == <<kept, made, journal, looked, stuck, origin, meddled, faults>>
togetherVars == <<frameVars, rowVars>>

Ended == {"stands", "fell", "refused"}

TogetherTypeOK ==
  /\ context \in BOOLEAN
  /\ inside \in [Frames -> Frames \cup {NoFrame}]
  /\ state \in [Frames -> {"new", "waits", "open", "unwinds"} \cup Ended]
  /\ said \in [Frames -> {"nothing", "waits", "out", "refused"}]
  /\ awaited \in [Frames -> BOOLEAN]
  /\ kept \in [Rows -> Contents]
  /\ looked \in [Frames -> {"no", "yes", "moved"}]
  /\ stuck \in [Frames -> SUBSET Rows]
  /\ origin \in [Frames -> [Rows -> Contents]]
  /\ meddled \in [Frames -> SUBSET Rows]
  /\ \A f \in Frames :
       /\ \A i \in DOMAIN made[f] :
            /\ made[f][i].kind \in Kinds
            /\ made[f][i].left \subseteq made[f][i].keys
            /\ made[f][i].stage \in {"asked", "writes", "noted", "late", "refused"}
       /\ \A i \in DOMAIN journal[f] : journal[f][i].keys \in (SUBSET Rows) \ {{}}

TogetherInitIn(how) ==
  /\ context \in BOOLEAN
  /\ inside \in [Frames -> Frames \cup {NoFrame}]
  /\ \A f \in Frames : inside[f] # NoFrame => inside[f] # f /\ inside[inside[f]] = NoFrame
  /\ state = [f \in Frames |-> how]
  /\ said = [f \in Frames |-> "nothing"]
  /\ awaited = [f \in Frames |-> FALSE]
  /\ kept \in [Rows -> {"seed", "absent"}]
  /\ made = [f \in Frames |-> <<>>]
  /\ journal = [f \in Frames |-> <<>>]
  /\ looked = [f \in Frames |-> "no"]
  /\ stuck = [f \in Frames |-> {}]
  /\ origin = [f \in Frames |-> kept]
  /\ meddled = [f \in Frames |-> {}]
  /\ faults = 0

TogetherInit == TogetherInitIn("new")

-----------------------------------------------------------------------------
(* Entering a frame.                                                       *)

Held == {f \in Frames : state[f] \in {"open", "unwinds"}}
Becomes(f, s) == state' = [state EXCEPT ![f] = s] /\ UNCHANGED <<context, inside, said, awaited>>

(* enterFrame: with a context, refused inside another; without, one at a   *)
(* time.                                                                   *)
MayEnter(f) == IF context THEN inside[f] = NoFrame ELSE Held = {}

Opens(f) ==
  /\ state[f] \in {"new", "waits"}
  /\ (state[f] = "new" /\ inside[f] # NoFrame) => state[inside[f]] = "open"
  /\ \/ MayEnter(f) /\ Becomes(f, "open")
     \/ ~MayEnter(f) /\ state[f] = "new" /\ Becomes(f, IF context THEN "refused" ELSE "waits")
  /\ UNCHANGED rowVars

(* Were there no deadline. *)
WaitsOn(f) == FALSE

(* NESTED_TIMEOUT_MS went by: it was probably opened inside the other. *)
GivesUp(f) ==
  /\ state[f] = "waits" /\ Held # {}
  /\ Becomes(f, "refused")
  /\ UNCHANGED rowVars

(* Emit inside the block; beforeAnnounce refuses or waits. *)
Announces(f, await) ==
  /\ f \in Announcers /\ state[f] = "open" /\ said[f] = "nothing"
  /\ said' = [said EXCEPT ![f] = IF context THEN "refused" ELSE "waits"]
  /\ awaited' = [awaited EXCEPT ![f] = await /\ ~context]
  /\ UNCHANGED <<context, inside, state, rowVars>>

(* Were the fact handed over with the frame still open. *)
AtOnce(f) == said[f] = "waits"

NoneOpen(f) == said[f] = "waits" /\ Held = {}

GoesOut(f) ==
  /\ NoneOpen(f)
  /\ said' = [said EXCEPT ![f] = "out"]
  /\ UNCHANGED <<context, inside, state, awaited, rowVars>>

-----------------------------------------------------------------------------
(* The gestures of a body.                                                 *)

Asked(f) == UNION {made[f][i].keys : i \in DOMAIN made[f]}
UnderWay(f) == {i \in DOMAIN made[f] : made[f][i].stage \in {"asked", "writes"}}

(* Row k now holds v, by f: whoever has it in hand was meddled with. *)
Lands(f, k, v, own) ==
  LET others == {g \in Frames \ {f} : k \in Asked(g)}
      watched(g) == looked[g] = "yes" /\ Head(journal[g]).keys = {k}
  IN  /\ kept' = [kept EXCEPT ![k] = v]
      /\ meddled' = [g \in Frames |-> IF g \in others THEN meddled[g] \cup {k} ELSE meddled[g]]
      /\ looked' = [g \in Frames |->
           IF g = f THEN own ELSE IF watched(g) THEN "moved" ELSE looked[g]]

BodyFree(f) ==
  /\ state[f] = "open"
  /\ ~(awaited[f] /\ said[f] = "waits")
  /\ \A g \in Frames : inside[g] = f => state[g] \in {"new"} \cup Ended

Asks(f, g) ==
  /\ BodyFree(f) /\ Len(made[f]) < MaxGestures[f]
  /\ \A i \in UnderWay(f) : made[f][i].keys \cap g.keys = {}
  /\ made' = [made EXCEPT ![f] = Append(@,
       [kind |-> g.kind, keys |-> g.keys, left |-> g.keys, before |-> <<>>,
        stage |-> IF g.kind = "create" THEN "writes" ELSE "asked"])]
  /\ origin' = [origin EXCEPT ![f] = [k \in Rows |-> IF k \in g.keys \ Asked(f) THEN kept[k] ELSE @[k]]]
  /\ UNCHANGED <<frameVars, kept, journal, looked, stuck, meddled, faults>>

(* The read that an inverse needs, before the write and under no turn. *)
ReadsBefore(f, i) ==
  /\ made[f][i].stage = "asked"
  /\ made' = [made EXCEPT ![f][i] = [@ EXCEPT !.before = kept, !.stage = "writes"]]
  /\ UNCHANGED <<frameVars, kept, journal, looked, stuck, origin, meddled, faults>>

(* What settles once the unwind has begun settles where nobody looks. *)
Settled(f, how) == IF state[f] = "open" THEN how ELSE "late"

(* What the storage judges before the first row is written. *)
Judged(g) ==
  g.left = g.keys =>
    CASE g.kind = "create" -> \A k \in g.keys : kept[k] = "absent"
      [] g.kind = "update" -> \A k \in g.keys : kept[k] # "absent"
      [] OTHER -> TRUE

(* The rows an inverse is noted of, and the i-th of them: one inverse per  *)
(* row, and one for the whole page of an upsert; nothing to take back      *)
(* where an update or a delete found no row.                               *)
Had(g) == {k \in g.keys : g.kind = "create" \/ g.before[k] # "absent"}
Nth(S, i) == CHOOSE k \in S : Cardinality({j \in S : j <= k}) = i

Inverses(g) ==
  IF g.kind = "upsert" THEN <<[kind |-> g.kind, keys |-> g.keys, before |-> g.before]>>
  ELSE [i \in 1 .. Cardinality(Had(g)) |->
         [kind |-> g.kind, keys |-> {Nth(Had(g), i)}, before |-> g.before]]

(* Rows are written one after the other; the last one answers. *)
WritesRow(f, i) ==
  LET g == made[f][i]
      k == Min(g.left)
      last == g.left = {k}
      gone == g.kind = "delete" /\ kept[k] = "absent"
  IN  /\ g.stage = "writes" /\ Judged(g)
      /\ made' = [made EXCEPT ![f][i] = [g EXCEPT !.left = @ \ {k},
           !.stage = IF last THEN Settled(f, "noted") ELSE @, !.before = IF last THEN <<>> ELSE @]]
      /\ journal' = IF last /\ ~gone /\ state[f] = "open"
                    THEN [journal EXCEPT ![f] = @ \o Inverses(g)] ELSE journal
      /\ IF gone THEN UNCHANGED <<kept, meddled, looked>>
         ELSE Lands(f, k, IF g.kind = "delete" THEN "absent" ELSE f, looked[f])
      /\ UNCHANGED <<frameVars, stuck, origin, faults>>

(* A gesture refuses: a row judged, a read, a change that throws, a write  *)
(* the store refused.  What it wrote stays, and the journal says nothing.  *)
Refused(f, i) ==
  /\ made[f][i].stage = "writes" /\ ~Judged(made[f][i])
  /\ made' = [made EXCEPT ![f][i] = [@ EXCEPT !.stage = Settled(f, "refused"), !.before = <<>>]]
  /\ UNCHANGED <<frameVars, kept, journal, looked, stuck, origin, meddled, faults>>

GestureFails(f, i) ==
  /\ made[f][i].stage \in {"asked", "writes"} /\ faults < MaxFaults
  /\ made' = [made EXCEPT ![f][i] = [@ EXCEPT !.stage = Settled(f, "refused"), !.before = <<>>]]
  /\ faults' = faults + 1
  /\ UNCHANGED <<frameVars, kept, journal, looked, stuck, origin, meddled>>

BodyReturns(f) ==
  /\ BodyFree(f) /\ UnderWay(f) = {}
  /\ Becomes(f, "stands")
  /\ UNCHANGED rowVars

-----------------------------------------------------------------------------
(* The unwind.                                                             *)

(* Were the inverses replayed as they were noted. *)
AsNoted(s) == s
LastFirst(s) == [i \in DOMAIN s |-> s[Len(s) + 1 - i]]

(* The block throws, a gesture of it still under way or not. *)
BodyThrows(f) ==
  /\ BodyFree(f)
  /\ Becomes(f, "unwinds")
  /\ journal' = [journal EXCEPT ![f] = LastFirst(@)]
  /\ UNCHANGED <<kept, made, looked, stuck, origin, meddled, faults>>

Unwinding(f) == state[f] = "unwinds" /\ journal[f] # <<>>

(* Were an inverse kept when its last row is back. *)
KeepsIt(f, k) == journal' = [journal EXCEPT ![f][1].keys = @ \ {k}]

(* The row at hand is taken back, or the rest of the inverse is reported. *)
Without(e, k) == [e EXCEPT !.keys = @ \ {k}]
RunsOn(f, k) ==
  journal' = [journal EXCEPT ![f] =
    IF Head(@).keys = {k} THEN Tail(@) ELSE <<Without(Head(@), k)>> \o Tail(@)]

Reports(f) ==
  /\ stuck' = [stuck EXCEPT ![f] = @ \cup Head(journal[f]).keys]
  /\ journal' = [journal EXCEPT ![f] = Tail(@)]
  /\ looked' = [looked EXCEPT ![f] = "no"]
  /\ UNCHANGED <<kept, meddled>>

(* Were the row put back without being read again. *)
Unseen(f, k) == TRUE
AsWritten(f, k) == kept[k] = f

(* An update is put back in two steps: the row is as it was written, then  *)
(* the write.                                                              *)
LooksAgain(f, k) ==
  IF AsWritten(f, k)
  THEN looked' = [looked EXCEPT ![f] = "yes"] /\ UNCHANGED <<kept, meddled, journal, stuck>>
  ELSE Reports(f)

PutsBack(f, k, v) == Lands(f, k, v, "no") /\ RunsOn(f, k) /\ UNCHANGED stuck

Undoes(f) ==
  LET e == Head(journal[f])
      k == Min(e.keys)
      was == e.before[k]
  IN  /\ Unwinding(f)
      /\ CASE e.kind = "create" -> PutsBack(f, k, "absent")
           [] e.kind = "delete" -> IF kept[k] = "absent" THEN PutsBack(f, k, was) ELSE Reports(f)
           [] e.kind = "update" ->
                IF looked[f] = "no" THEN LooksAgain(f, k)
                ELSE IF kept[k] = "absent" THEN Reports(f) ELSE PutsBack(f, k, was)
           [] e.kind = "upsert" ->
                IF was = "absent" THEN PutsBack(f, k, "absent")
                ELSE IF kept[k] = "absent" THEN Reports(f) ELSE PutsBack(f, k, was)
      /\ UNCHANGED <<frameVars, made, origin, faults>>

UndoFails(f) ==
  /\ Unwinding(f) /\ faults < MaxFaults
  /\ Reports(f)
  /\ faults' = faults + 1
  /\ UNCHANGED <<frameVars, made, origin>>

Falls(f) ==
  /\ state[f] = "unwinds" /\ journal[f] = <<>>
  /\ Becomes(f, "fell")
  /\ UNCHANGED rowVars

FrameGoesOn(f) ==
  \/ Opens(f) \/ GivesUp(f) \/ GoesOut(f)
  \/ \E i \in DOMAIN made[f] : ReadsBefore(f, i) \/ WritesRow(f, i) \/ Refused(f, i)
  \/ BodyReturns(f) \/ BodyThrows(f)
  \/ Undoes(f) \/ Falls(f)

TogetherNext ==
  \E f \in Frames :
    \/ FrameGoesOn(f)
    \/ UndoFails(f)
    \/ \E i \in DOMAIN made[f] : GestureFails(f, i)
    \/ \E await \in BOOLEAN : Announces(f, await)
    \/ \E g \in Gestures[f] : Asks(f, g)

(* Storages settle what they are asked, timers fire, and a body ends.      *)
TogetherFairness == WF_togetherVars(\E f \in Frames : FrameGoesOn(f))

-----------------------------------------------------------------------------
(***************************************************************************)
(* Properties.                                                             *)
(***************************************************************************)

Written(f, stages) == UNION {made[f][i].keys \ made[f][i].left :
                               i \in {j \in DOMAIN made[f] : made[f][j].stage \in stages}}

Restored(f, k) == kept[k] = origin[f][k] \/ k \in meddled[f] \/ k \in stuck[f]

(* A frame that fell leaves every row as it found it, unless it reported   *)
(* the row or another wrote it too: "All-or-nothing holds either way"      *)
(* (site, data/together).  Two sorts of rows are left out: those of a      *)
(* gesture that refused half way, and of one still under way when the body *)
(* threw.                                                                  *)
AllOrNothing ==
  \A f \in Frames : state[f] = "fell" =>
    \A k \in Asked(f) \ Written(f, {"refused", "late", "writes"}) : Restored(f, k)

(* The same of a gesture that refused half way: the page's own words.      *)
AllOrNothingEitherWay ==
  \A f \in Frames : state[f] = "fell" =>
    \A k \in Asked(f) \ Written(f, {"late", "writes"}) : Restored(f, k)

(* The undo of an update never writes over what another wrote, unless that *)
(* landed after it looked: "a write landing between them is overwritten    *)
(* unseen" and no other (frame.ts:164).                                    *)
UpdatesUndoneSpareOthers ==
  [][\A f \in Frames, k \in Rows :
       (Unwinding(f) /\ Head(journal[f]).kind = "update" /\ journal'[f] # journal[f] /\ kept'[k] # kept[k])
         => (kept[k] = f \/ looked[f] = "moved")]_togetherVars

(* "A fact announced inside a frame that then rolls back is a lie"         *)
(* (Emissions.ts:223): none goes out, but one that nobody awaits where     *)
(* there is no async context.                                              *)
NothingSaidOfWhatFell ==
  \A f \in Frames : (said[f] = "out" /\ state[f] = "fell") => (~context /\ ~awaited[f])

(* Whoever asked for a frame is answered, also one opened inside another;  *)
(* but for a body that awaits, without an async context, its own           *)
(* announcement, which waits for the frame it is made in.                  *)
EveryFrameEnds ==
  []<>(\A f \in Frames : state[f] \in {"new"} \cup Ended \/ (awaited[f] /\ said[f] = "waits"))
=============================================================================

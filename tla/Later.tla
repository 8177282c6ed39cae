------------------------------- MODULE Later -------------------------------
(***************************************************************************)
(* Calls kept for their hour: Dispatcher.keep and LaterRepository.ts write *)
(* them down, beatOnce in workflow/src/index.ts makes them.                *)
(*                                                                         *)
(* A beat is one run of beatOnce.  Beats overlap: the interval does not    *)
(* wait for the last one, and every process that shares the rows has its   *)
(* own.  Each of its awaits is a step.  The clock is kept as what it tells *)
(* apart: which hours have passed, and which takes are still believed,     *)
(* oldest first.                                                           *)
(***************************************************************************)
EXTENDS Integers, Sequences, SequencesExt, FiniteSets

CONSTANTS
  Calls,      \* what may be kept, each under a key of its own
  Beats,      \* runs of beatOnce that may be under way at once
  NoCall,     \* what a beat without a call in hand holds
  MaxMade,    \* a call is counted as made up to this often
  MaxThrows, MaxStops, MaxSlow   \* bounds of the model

ASSUME NoCallIsNoCall == NoCall \notin Calls
ASSUME MadeCounts == MaxMade \in Nat \ {0}

VARIABLES
  row,       \* per call, whether its row was written, is there, was deleted
  hour,      \* the calls whose runAt has passed
  takes,     \* the calls whose takenUntil has not passed, oldest first
  beat,      \* per beat, where it is, the rows left of its due(), the one in hand
  made,      \* per call, how often the app made it
  went       \* how much went wrong

laterVars == <<row, hour, takes, beat, made, went>>

Asleep == [stage |-> "asleep", left |-> {}, call |-> NoCall]

LaterInit ==
  /\ row = [c \in Calls |-> "never"]
  /\ hour = {}
  /\ takes = << >>
  /\ beat = [b \in Beats |-> Asleep]
  /\ made = [c \in Calls |-> 0]
  /\ went = [throws |-> 0, stops |-> 0, slow |-> 0]

Taken(c) == Contains(takes, c)

(* Which of the rows a beat tries: due(). *)
Due == {c \in hour : row[c] = "kept" /\ ~Taken(c)}

(* The takes without that of c, of which there is one at most. *)
Untaken(c) ==
  IF Taken(c) THEN RemoveAt(takes, CHOOSE k \in DOMAIN takes : takes[k] = c) ELSE takes

(* takenUntil := now + TAKE_MS, whatever it was. *)
Hold(c) == Append(Untaken(c), c)

(* The loop, less the row it looks at; and with none in hand any more. *)
Passed(b, c) == [beat[b] EXCEPT !.left = @ \ {c}]
Freed(b) == [beat[b] EXCEPT !.stage = "next", !.call = NoCall]

-----------------------------------------------------------------------------
(* dispatch() of a call with a runAt: the row, and no answer.              *)
Keep(c) ==
  /\ row[c] = "never"
  /\ row' = [row EXCEPT ![c] = "kept"]
  /\ UNCHANGED <<hour, takes, beat, made, went>>

HourComes(c) ==
  /\ row[c] = "kept" /\ c \notin hour
  /\ hour' = hour \cup {c}
  /\ UNCHANGED <<row, takes, beat, made, went>>

(* setInterval: due() is read once, for the whole beat. *)
BeatReads(b) ==
  /\ beat[b].stage = "asleep" /\ Due # {}
  /\ beat' = [beat EXCEPT ![b] = [stage |-> "next", left |-> Due, call |-> NoCall]]
  /\ UNCHANGED <<row, hour, takes, made, went>>

(* take(), its read: gone or held by another is passed over. *)
TakeReads(b, c) ==
  /\ beat[b].stage = "next" /\ c \in beat[b].left
  /\ beat' = [beat EXCEPT ![b] = IF row[c] = "kept" /\ ~Taken(c)
                                 THEN [Passed(b, c) EXCEPT !.stage = "take", !.call = c]
                                 ELSE Passed(b, c)]
  /\ UNCHANGED <<row, hour, takes, made, went>>

(* take(), its write: over whatever was written since.  A row deleted      *)
(* meanwhile answers NOT_FOUND, which nothing in the loop catches: the     *)
(* whole beat ends.                                                        *)
TakeWrites(b) ==
  LET c == beat[b].call IN
  /\ beat[b].stage = "take"
  /\ IF row[c] = "kept"
     THEN /\ takes' = Hold(c)
          /\ beat' = [beat EXCEPT ![b].stage = "make"]
     ELSE /\ beat' = [beat EXCEPT ![b] = Asleep]
          /\ UNCHANGED takes
  /\ UNCHANGED <<row, hour, made, went>>

(* app.dispatch(callOf(row)): made, or thrown before it did anything. *)
Makes(b) ==
  /\ beat[b].stage = "make"
  /\ made' = [made EXCEPT ![beat[b].call] = IF @ < MaxMade THEN @ + 1 ELSE @]
  /\ beat' = [beat EXCEPT ![b].stage = "done"]
  /\ UNCHANGED <<row, hour, takes, went>>

(* CallThrows, were a call that throws done with like any other. *)
ThrownIsDone(b) ==
  LET c == beat[b].call IN
  /\ beat[b].stage = "make" /\ went.throws < MaxThrows
  /\ went' = [went EXCEPT !.throws = @ + 1]
  /\ row' = [row EXCEPT ![c] = "deleted"]
  /\ takes' = Untaken(c)
  /\ beat' = [beat EXCEPT ![b] = Freed(b)]
  /\ UNCHANGED <<hour, made>>

CallThrows(b) ==
  /\ beat[b].stage = "make" /\ went.throws < MaxThrows
  /\ went' = [went EXCEPT !.throws = @ + 1]
  /\ beat' = [beat EXCEPT ![b] = Freed(b)]
  /\ UNCHANGED <<row, hour, takes, made>>

(* done(): the row goes, and its take with it. *)
Done(b) ==
  LET c == beat[b].call IN
  /\ beat[b].stage = "done"
  /\ row' = [row EXCEPT ![c] = "deleted"]
  /\ takes' = Untaken(c)
  /\ beat' = [beat EXCEPT ![b] = Freed(b)]
  /\ UNCHANGED <<hour, made, went>>

BeatEnds(b) ==
  /\ beat[b].stage = "next" /\ beat[b].left = {}
  /\ beat' = [beat EXCEPT ![b] = Asleep]
  /\ UNCHANGED <<row, hour, takes, made, went>>

-----------------------------------------------------------------------------
(* TAKE_MS went by since the oldest take; whoever took it may be slow, and *)
(* still making the call: at most MaxSlow times.                           *)
Making(c) == \E b \in Beats : beat[b].call = c /\ beat[b].stage \in {"make", "done"}

(* TakeRunsOut, were a take a lock. *)
TakeIsALock == FALSE /\ UNCHANGED laterVars

TakeRunsOut ==
  /\ takes # << >>
  /\ takes' = Tail(takes)
  /\ \/ ~Making(takes[1]) /\ UNCHANGED went
     \/ /\ Making(takes[1]) /\ went.slow < MaxSlow
        /\ went' = [went EXCEPT !.slow = @ + 1]
  /\ UNCHANGED <<row, hour, beat, made>>

(* The process of a beat stops: the beat is gone, its take is not.  A      *)
(* storage call that throws ends it the same way.                          *)
BeatStops(b) ==
  /\ beat[b].stage # "asleep" /\ went.stops < MaxStops
  /\ went' = [went EXCEPT !.stops = @ + 1]
  /\ beat' = [beat EXCEPT ![b] = Asleep]
  /\ UNCHANGED <<row, hour, takes, made>>

-----------------------------------------------------------------------------
BeatStep(b) ==
  \/ BeatReads(b) \/ TakeWrites(b) \/ Makes(b) \/ Done(b) \/ BeatEnds(b)
  \/ \E c \in Calls : TakeReads(b, c)

LaterNext ==
  \/ \E c \in Calls : Keep(c) \/ HourComes(c)
  \/ \E b \in Beats : BeatStep(b) \/ CallThrows(b) \/ BeatStops(b)
  \/ TakeRunsOut

(* The interval fires, what a beat awaits settles, the clock goes on.      *)
LaterFairness ==
  /\ \A b \in Beats : WF_laterVars(BeatStep(b))
  /\ \A c \in Calls : WF_laterVars(HourComes(c))
  /\ WF_laterVars(TakeRunsOut)

LaterSpec == LaterInit /\ [][LaterNext]_laterVars
LaterFairSpec == LaterSpec /\ LaterFairness

-----------------------------------------------------------------------------
(***************************************************************************)
(* Properties.                                                             *)
(***************************************************************************)

LaterTypeOK ==
  /\ row \in [Calls -> {"never", "kept", "deleted"}]
  /\ hour \in SUBSET Calls
  /\ takes \in Seq(Calls) /\ \A i, j \in DOMAIN takes : takes[i] = takes[j] => i = j
  /\ \A b \in Beats :
       /\ beat[b].stage \in {"asleep", "next", "take", "make", "done"}
       /\ beat[b].left \subseteq Calls
       /\ beat[b].call = NoCall <=> beat[b].stage \in {"asleep", "next"}
  /\ made \in [Calls -> 0 .. MaxMade]

(* A kept call is not lost: its row goes only once the call was made,      *)
(* whoever threw, stopped or was overtaken (index.ts:72-73, "a call that   *)
(* throws is left for the take to expire").                                *)
DeletedOnceMade == \A c \in Calls : row[c] = "deleted" => made[c] >= 1

(* It is made at its hour and no sooner, and by a beat that read it as     *)
(* due: a take that outlives its holder, or a beat that read long ago,     *)
(* never makes a call early.                                               *)
NotBeforeItsHour ==
  /\ \A c \in Calls : made[c] > 0 => c \in hour
  /\ \A b \in Beats : beat[b].left \subseteq hour

(* Every call kept is made in the end, and its row is gone: a thrown call, *)
(* a stopped process and a taker nobody hears of again only delay it.      *)
EveryKeptCallMade ==
  \A c \in Calls : []<>(row[c] = "never" \/ (row[c] = "deleted" /\ made[c] >= 1))

=============================================================================

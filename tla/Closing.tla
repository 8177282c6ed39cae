------------------------------- MODULE Closing -------------------------------
(***************************************************************************)
(* An app goes up and comes down: createApp and its release (core/boot/    *)
(* bootstrap.ts), the extensions (AppLifecycle.ts), and the scopes with    *)
(* what they built (container/ScopeContainer.ts).  A boot opens the scopes *)
(* of its fronds; a frame opens one under its frond's while it runs, and   *)
(* closes it itself (core/module/frame/together.ts, inScope).              *)
(*                                                                         *)
(* Only what a scope closes is an instance here: a singleton that says how *)
(* it closes.  It is built on what it needs, in its own scope or above.    *)
(* Calls go on while an app is let go of: "a script releases at once".     *)
(***************************************************************************)
EXTENDS Naturals, Sequences, SequencesExt

CONSTANTS
  Scopes,      \* the containers of one app
  Root,        \* the one createApp makes
  Above,       \* per other scope, the one it was opened from
  FrameScopes, \* those that frames open
  Instances,   \* what scopes build and close
  Home,        \* per instance, the scope that registered it
  Needs,       \* per instance, those its constructor is handed
  Members,     \* how many extensions there are
  MaxRefusals  \* refusals of an extension, a bound of the model

(* Going up from s, from one scope to the one above, leads to p. *)
Reaches(s, p) ==
  \A S \in SUBSET Scopes : s \in S /\ (\A c \in S \ {Root} : Above[c] \in S) => p \in S

ASSUME ScopesAreATree ==
  /\ Root \in Scopes \ FrameScopes /\ FrameScopes \subseteq Scopes
  /\ Above \in [Scopes \ {Root} -> Scopes \ FrameScopes]
  /\ \A s \in Scopes : Reaches(s, Root)
ASSUME InstancesHaveHomes ==
  /\ Home \in [Instances -> Scopes] /\ Needs \in [Instances -> SUBSET Instances]
  /\ \A i \in Instances : \A d \in Needs[i] : Reaches(Home[i], Home[d])
ASSUME MembersAreCounted == {Members, MaxRefusals} \subseteq Nat

(* A scope is closed by whoever opened it, and by the one above it.        *)
Closers == Scopes \X {"own", "above"}

VARIABLES
  level,     \* how far the app is: on its way up, up, or which level of its release
  risen,     \* how many extensions are up
  told,      \* the extensions told to go down, in order
  refusals,  \* how many of them refused
  opened,    \* the scopes there are
  children,  \* per scope, those it holds, oldest first
  stack,     \* per scope, what it built and has to close, oldest first
  emptied,   \* the scopes whose registrations are gone
  life,      \* per instance, what became of it
  closer,    \* per closer, what it is doing and what it waits for
  behind,      \* the instances built on what was closing already
  slipped    \* those built between a scope's last look and its end

scopeVars == <<opened, children, stack, emptied, life, closer, behind, slipped>>
closingVars == <<level, risen, told, refusals, scopeVars>>

Levels == {"builds", "rises", "up", "extensions", "container", "over"}
Doing == {"nothing", "children", "child", "built", "instance", "clears", "over"}

ClosingTypeOK ==
  /\ level \in Levels /\ risen \in 0..Members /\ told \in Seq(1..Members)
  /\ refusals \in 0..MaxRefusals
  /\ opened \subseteq Scopes /\ emptied \subseteq opened
  /\ children \in [Scopes -> Seq(opened \ {Root})]
  /\ \A s \in Scopes : \A i \in ToSet(stack[s]) : Home[i] = s /\ life[i] = "built"
  /\ life \in [Instances -> {"unbuilt", "built", "closing", "closed"}]
  /\ \A x \in Closers : closer[x].at \in Doing /\ (closer[x].at # "nothing" => x[1] \in opened)

Idle == [at |-> "nothing", on |-> Root]

ClosingInit ==
  /\ level = "builds" /\ risen = 0 /\ told = <<>> /\ refusals = 0
  /\ opened = {Root} /\ emptied = {}
  /\ children = [s \in Scopes |-> <<>>]
  /\ stack = [s \in Scopes |-> <<>>]
  /\ life = [i \in Instances |-> "unbuilt"]
  /\ closer = [x \in Closers |-> Idle]
  /\ behind = {} /\ slipped = {}

-----------------------------------------------------------------------------
(* Scopes, and what they build.                                            *)

(* Were a new scope not written down by the one above. *)
Unlisted(s) == children

(* createScope: the one above holds it. *)
Listed(s) == [children EXCEPT ![Above[s]] = Append(@, s)]

OpensScope(s) ==
  /\ s \in Scopes \ opened /\ Above[s] \in opened
  /\ s \notin FrameScopes => level = "builds"
  /\ opened' = opened \cup {s}
  /\ children' = Listed(s)
  /\ UNCHANGED <<level, risen, told, refusals, stack, emptied, life, closer, behind, slipped>>

(* It has nothing left to close and its registrations go next. *)
LooksNoMore(s) == \E by \in {"own", "above"} : closer[<<s, by>>].at = "clears"

(* resolve, of what is not there yet: its needs answer, open or closed.    *)
Builds(i) ==
  LET s == Home[i] IN
  /\ s \in opened \ emptied /\ life[i] = "unbuilt"
  /\ \A d \in Needs[i] : life[d] # "unbuilt" /\ Home[d] \notin emptied
  /\ life' = [life EXCEPT ![i] = "built"]
  /\ stack' = [stack EXCEPT ![s] = Append(@, i)]
  /\ behind' = IF \E d \in Needs[i] : life[d] # "built" THEN behind \cup {i} ELSE behind
  /\ slipped' = IF LooksNoMore(s) THEN slipped \cup {i} ELSE slipped
  /\ UNCHANGED <<level, risen, told, refusals, opened, children, emptied, closer>>

-----------------------------------------------------------------------------
(* dispose, by one closer x: the scopes it holds, then what it built.      *)

(* removeChild: it leaves the list, if it is in it. *)
Left(list, s) ==
  IF Contains(list, s) THEN RemoveAt(list, CHOOSE k \in DOMAIN list : list[k] = s) ELSE list
Without(s) == [children EXCEPT ![Above[s]] = Left(@, s)]
Does(x, doing, thing) == closer' = [closer EXCEPT ![x] = [at |-> doing, on |-> thing]]

(* What a frame runs ends, and so does its scope: it leaves the one above  *)
(* before it closes anything.                                              *)
FrameEnds(f) ==
  /\ f \in FrameScopes \cap opened /\ closer[<<f, "own">>].at = "nothing"
  /\ children' = Without(f)
  /\ Does(<<f, "own">>, "children", f)
  /\ UNCHANGED <<level, risen, told, refusals, opened, stack, emptied, life, behind, slipped>>

AsksChild(x) ==
  LET c == Last(children[x[1]]) IN
  /\ closer[x].at = "children" /\ children[x[1]] # <<>>
  /\ children' = Without(c)
  /\ closer' = [closer EXCEPT ![x] = [at |-> "child", on |-> c], ![<<c, "above">>] = [at |-> "children", on |-> c]]
  /\ UNCHANGED <<level, risen, told, refusals, opened, stack, emptied, life, behind, slipped>>

ChildIsClosed(x) ==
  /\ closer[x].at = "child" /\ closer[<<closer[x].on, "above">>].at = "over"
  /\ Does(x, "children", x[1])
  /\ UNCHANGED <<level, risen, told, refusals, opened, children, stack, emptied, life, behind, slipped>>

(* Were what was built first closed first. *)
OldestFirst(s) == Reverse(stack[s])
NewestLast(s) == stack[s]

(* Its scopes are closed: the last thing it built, until there is none.    *)
ClosesNext(x) ==
  LET s == x[1]
      left == NewestLast(s)
  IN  /\ \/ closer[x].at = "children" /\ children[s] = <<>>
         \/ closer[x].at = "built"
      /\ IF closer[x].at = "children" THEN Does(x, "built", s) /\ UNCHANGED <<stack, life>>
         ELSE IF left = <<>> THEN Does(x, "clears", s) /\ UNCHANGED <<stack, life>>
         ELSE /\ Does(x, "instance", Last(left))
              /\ stack' = [stack EXCEPT ![s] = Front(@)]
              /\ life' = [life EXCEPT ![Last(left)] = "closing"]
      /\ UNCHANGED <<level, risen, told, refusals, opened, children, emptied, behind, slipped>>

(* It answered, or refused, which is heard of in the end. *)
IsClosed(x) ==
  /\ closer[x].at = "instance"
  /\ life' = [life EXCEPT ![closer[x].on] = "closed"]
  /\ Does(x, "built", x[1])
  /\ UNCHANGED <<level, risen, told, refusals, opened, children, stack, emptied, behind, slipped>>

Clears(x) ==
  /\ closer[x].at = "clears"
  /\ emptied' = emptied \cup {x[1]}
  /\ Does(x, "over", x[1])
  /\ UNCHANGED <<level, risen, told, refusals, opened, children, stack, life, behind, slipped>>

CloserGoesOn(x) == AsksChild(x) \/ ChildIsClosed(x) \/ ClosesNext(x) \/ IsClosed(x) \/ Clears(x)

-----------------------------------------------------------------------------
(* The app.                                                                *)

Moves(to) == level' = to /\ UNCHANGED scopeVars

(* The fronds are installed, and the app there is goes up. *)
Installed ==
  /\ level = "builds" /\ Scopes \ FrameScopes \subseteq opened
  /\ Moves("rises") /\ UNCHANGED <<risen, told, refusals>>

Rises ==
  /\ level = "rises"
  /\ risen' = IF risen < Members THEN risen + 1 ELSE risen
  /\ Moves(IF risen < Members THEN "rises" ELSE "up")
  /\ UNCHANGED <<told, refusals>>

(* A boot that refuses lets go of what it took; before there is an app, no *)
(* extension is told.                                                      *)
BootRefusesAt ==
  /\ level \in {"builds", "rises"}
  /\ Moves(IF level = "builds" THEN "container" ELSE "extensions")
  /\ UNCHANGED <<risen, told, refusals>>

Disposed == level = "up" /\ Moves("extensions") /\ UNCHANGED <<risen, told, refusals>>

(* Were a refusal the last thing heard of. *)
ToldOrRefused == Len(told) = Members \/ refusals > 0

(* A refusal keeps no other from being told. *)
AllTold == Len(told) = Members

(* Every one is told, the newest first, whether it came up or not. *)
GoesDown ==
  /\ level = "extensions" /\ ~AllTold
  /\ told' = Append(told, Members - Len(told))
  /\ refusals' \in {refusals} \cup {n \in 1..MaxRefusals : n = refusals + 1}
  /\ UNCHANGED <<level, risen, scopeVars>>

ExtensionsAreDown == level = "extensions" /\ AllTold /\ Moves("container") /\ UNCHANGED <<risen, told, refusals>>

RootCloses ==
  /\ level = "container" /\ closer[<<Root, "own">>].at = "nothing"
  /\ Does(<<Root, "own">>, "children", Root)
  /\ UNCHANGED <<level, risen, told, refusals, opened, children, stack, emptied, life, behind, slipped>>

(* onDispose: the connection that was handed in. *)
SourceCloses ==
  /\ level = "container" /\ closer[<<Root, "own">>].at = "over"
  /\ Moves("over") /\ UNCHANGED <<risen, told, refusals>>

ReleaseGoesOn == GoesDown \/ ExtensionsAreDown \/ RootCloses \/ SourceCloses

ClosingProgress ==
  \/ ReleaseGoesOn
  \/ \E f \in FrameScopes : FrameEnds(f)
  \/ \E x \in Closers : CloserGoesOn(x)

ClosingNext ==
  \/ Installed \/ Rises \/ BootRefusesAt \/ Disposed \/ ClosingProgress
  \/ \E s \in Scopes : OpensScope(s)
  \/ \E i \in Instances : Builds(i)

(* What is told to close settles, and a frame's body ends. *)
ClosingFairness == WF_closingVars(ClosingProgress)

ClosingSpec == ClosingInit /\ [][ClosingNext]_closingVars /\ ClosingFairness

-----------------------------------------------------------------------------
(***************************************************************************)
(* Properties.                                                             *)
(***************************************************************************)

(* A frame that ends has left the list of the scope above it. *)
OnItsOwn(s) == s \in FrameScopes /\ closer[<<s, "own">>].at # "nothing"

(* The scope above is through with those it holds, and holds this one: it  *)
(* was opened late, and is reported, not closed.                           *)
StillHeld(s) ==
  /\ s # Root /\ Contains(children[Above[s]], s)
  /\ \E by \in {"own", "above"} :
       closer[<<Above[s], by>>].at \in {"built", "instance", "clears", "over"}

(* "Each scope disposing the scopes it opened, deepest first, then what it *)
(* built itself" (lifecycle.md:92): nothing is told to close while what    *)
(* was built on it is open, whoever closes what, and however boots, frames *)
(* and the release cross.  Four ways out are the code's: what was built on *)
(* something that closes already or slips past its scope's last look, a    *)
(* frame that closes its own scope, which nobody waits for any more, and a *)
(* scope "still held after this one closed - probably opened while it was  *)
(* closing" (ScopeContainer.ts:85).                                        *)
DependentsFirst ==
  \A i \in Instances : \A d \in Needs[i] :
    life[d] \in {"closing", "closed"} /\ life[i] # "unbuilt" =>
      life[i] = "closed" \/ i \in behind \cup slipped \/ OnItsOwn(Home[i]) \/ StillHeld(Home[i])

(* "What an extension took on last, then the container's own, then whoever *)
(* handed a resource in" (bootstrap.ts:437): nothing the app holds closes  *)
(* before every extension of it was told, the newest first, one refusal or *)
(* not, and the source goes when nothing the app holds is open.  A boot    *)
(* that refused before there was an app tells none.                        *)
ReleasedInReverse ==
  \A i \in Instances :
    LET ofTheApp == Home[i] \notin FrameScopes IN
    /\ ofTheApp /\ life[i] \in {"closing", "closed"} =>
         \/ told = [k \in 1..Members |-> Members + 1 - k]
         \/ told = <<>> /\ risen = 0
    /\ ofTheApp /\ level = "over" => life[i] \in {"unbuilt", "closed"} \/ i \in slipped

(* What was built is closed once the app was let go of, by a boot that     *)
(* refused as well: a scope's, and a frame's that was open or was opened   *)
(* meanwhile.  What slips in between a scope's last look and its end is    *)
(* the exception.                                                          *)
EverythingCloses ==
  []<>(level = "over" => \A i \in Instances : life[i] \in {"unbuilt", "closed"} \/ i \in slipped)
=============================================================================

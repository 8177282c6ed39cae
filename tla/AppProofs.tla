------------------------------ MODULE AppProofs ------------------------------
(***************************************************************************)
(* The promises an app's host and its closing rest on.                     *)
(*                                                                         *)
(* HostReload.tla, for any number of boots, requests, reloads and          *)
(* reconfigurations: no call runs in an app that was disposed of, the      *)
(* handle is never on an app whose door is closed, no app is released      *)
(* twice, and none is lost but in the ways the code has.                   *)
(*                                                                         *)
(* Closing.tla, for any tree of scopes, any instances, needs and homes,    *)
(* and whatever a disposal refuses: what is closed leaves nothing that     *)
(* stands on it, and extensions are told in reverse.  The inductive        *)
(* invariant of the second half has five parts: the shape of the state,    *)
(* how far the app and its extensions are (Ascent), who closes which scope *)
(* for whom (Tree), what became of what was built (Lives), and what it     *)
(* stands on (StandsOnBuilt).                                              *)
(***************************************************************************)
EXTENDS HostReload, Closing, FiniteSetTheorems, SequenceTheorems, TLAPS

(* The handle is in none of the lists an app is released from.             *)
HandleApart ==
  handle # None =>
    /\ ~Contains(replaced, handle)
    /\ \A r \in Reloads : ~Contains(reload[r].previous, handle)

(* A door is closed before its app is disposed of, and while it drains.    *)
ClosedFirst ==
  /\ \A b \in Boots : app[b] = "disposed" => ~accepting[b]
  /\ \A r \in Reloads : reload[r].stage = "drains" =>
       reload[r].previous # << >> /\ ~accepting[reload[r].previous[1]]

ReloadInv ==
  HostTypeOK /\ HandleApart /\ ClosedFirst /\ CallsStandOnAnApp /\ HandleServes

(* What an appended list holds, and a joined one. *)
LEMMA ContainsAppended ==
  ASSUME NEW S, NEW s \in Seq(S), NEW x \in S, NEW e
  PROVE  /\ Append(s, x) \in Seq(S)
         /\ Contains(Append(s, x), e) <=> Contains(s, e) \/ e = x
  BY DEF Contains

LEMMA ContainsJoined ==
  ASSUME NEW S, NEW s \in Seq(S), NEW t \in Seq(S), NEW e
  PROVE  /\ s \o t \in Seq(S)
         /\ Contains(s \o t, e) => Contains(s, e) \/ Contains(t, e)
<1>1. s \o t \in Seq(S)
  OBVIOUS
<1>2. ASSUME Contains(s \o t, e)
      PROVE  Contains(s, e) \/ Contains(t, e)
  <2>1. PICK i \in 1 .. Len(s \o t) : (s \o t)[i] = e
    BY <1>2 DEF Contains
  <2>2. CASE i <= Len(s)
    BY <2>1, <2>2 DEF Contains
  <2>3. CASE i > Len(s)
    <3>1. i - Len(s) \in 1 .. Len(t) /\ t[i - Len(s)] = e
      BY <2>1, <2>3
    <3> QED
      BY <3>1 DEF Contains
  <2> QED
    BY <2>1, <2>2, <2>3
<1> QED
  BY <1>1, <1>2

LEMMA ContainsRest ==
  ASSUME NEW S, NEW s \in Seq(S), s # << >>, NEW e
  PROVE  /\ Tail(s) \in Seq(S) /\ s[1] \in S /\ Contains(s, s[1])
         /\ Contains(Tail(s), e) => Contains(s, e)
<1>1. Tail(s) \in Seq(S) /\ s[1] \in S /\ Contains(s, s[1])
  BY DEF Contains
<1>2. ASSUME Contains(Tail(s), e)
      PROVE  Contains(s, e)
  <2>1. PICK i \in 1 .. Len(Tail(s)) : Tail(s)[i] = e
    BY <1>2 DEF Contains
  <2>2. i + 1 \in 1 .. Len(s) /\ s[i + 1] = e
    BY <2>1
  <2> QED
    BY <2>2 DEF Contains
<1> QED
  BY <1>1, <1>2

LEMMA EmptyIsAList == \A S : << >> \in Seq(S)
  OBVIOUS

LEMMA ContainsNone == ASSUME NEW e PROVE ~Contains(<< >>, e)
  BY DEF Contains

(* A reload that moves on and leaves some of its list behind. *)
ReloadStages == {"idle", "waits", "releases", "drains", "turned", "refused", "gave up"}
ReloadShape == [stage : ReloadStages, next : Boots \cup {None}, previous : Seq(Boots)]

Moved(r, stage, previous) ==
  [reload EXCEPT ![r].stage = stage, ![r].previous = previous]

LEMMA ReloadMovesOn ==
  ASSUME Shape, NEW r \in Reloads, NEW STATE stage, stage \in ReloadStages,
         NEW STATE previous, previous \in Seq(Boots),
         reload' = Moved(r, stage, previous)
  PROVE  /\ reload' \in [Reloads -> ReloadShape]
         /\ reload'[r].stage = stage /\ reload'[r].previous = previous
         /\ \A other \in Reloads \ {r} : reload'[other] = reload[other]
<1> USE DEF Moved
<1>1. reload \in [Reloads -> ReloadShape] /\ reload[r] \in ReloadShape
  BY DEF Shape, ReloadShape, ReloadStages
<1>2. reload'[r] = [[reload[r] EXCEPT !.stage = stage] EXCEPT !.previous = previous]
  BY <1>1
<1>3. reload'[r] = [stage |-> stage, next |-> reload[r].next, previous |-> previous]
  BY <1>1, <1>2 DEF ReloadShape
<1>4. reload'[r] \in ReloadShape /\ reload'[r].stage = stage /\ reload'[r].previous = previous
  BY <1>1, <1>3 DEF ReloadShape
<1>5. DOMAIN reload' = Reloads /\ \A other \in Reloads \ {r} : reload'[other] = reload[other]
  BY <1>1
<1>6. reload' = [other \in Reloads |-> reload'[other]]
  BY <1>1
<1>7. \A other \in Reloads : reload'[other] \in ReloadShape
  BY <1>1, <1>4, <1>5
<1> QED
  BY <1>4, <1>5, <1>6, <1>7

LEMMA NoneIsNoBoot == None \notin Boots
  BY BoundsAreCounts DEF Boots, None

(* What replace() puts aside is what was there and what was in service.    *)
LEMMA ReplacedHolds ==
  ASSUME HostTypeOK, NEW e
  PROVE  /\ Replaced \in Seq(Boots)
         /\ Contains(Replaced, e) => Contains(replaced, e) \/ (handle # None /\ e = handle)
  BY ContainsAppended DEF Replaced, HostTypeOK, Shape

LEMMA InvAtFirst == HostInit => ReloadInv
  BY ContainsNone, BoundsAreCounts
  DEF HostInit, ReloadInv, HostTypeOK, Shape, UnbornIsNew, Held, HandleApart, ClosedFirst,
      CallsStandOnAnApp, HandleServes, Running, Boots, None

(* Reconfigured: the app in service joins the replaced, and nothing is in  *)
(* service.                                                                *)
LEMMA InvKeptByConfigure == ASSUME ReloadInv, Configure PROVE ReloadInv'
<1> USE DEF ReloadInv
<1>1. \A e : Contains(replaced', e) => Contains(replaced, e) \/ (handle # None /\ e = handle)
  BY ReplacedHolds DEF Configure
<1>2. Shape'
  BY ReplacedHolds DEF Configure, HostTypeOK, Shape
<1>3. UnbornIsNew'
  <2> SUFFICES ASSUME NEW b \in Boots, app[b] = "unborn"
               PROVE  ~Held(b)' /\ accepting[b]
    BY DEF Configure, UnbornIsNew
  <2>1. ~Held(b) /\ accepting[b]
    BY DEF HostTypeOK, UnbornIsNew
  <2> QED
    BY <1>1, <2>1 DEF Configure, Held, Boots, None
<1>4. HandleApart' /\ ClosedFirst' /\ CallsStandOnAnApp' /\ HandleServes'
  BY DEF Configure, HandleApart, ClosedFirst, CallsStandOnAnApp, HandleServes, Running
<1> QED
  BY <1>2, <1>3, <1>4 DEF HostTypeOK

(* A boot settles: a refused one is not left in service.                   *)
LEMMA InvKeptByABoot ==
  ASSUME ReloadInv, NEW b \in Boots, BootAnswers(b) \/ BootRefuses(b)
  PROVE  ReloadInv'
<1> USE DEF ReloadInv, HostTypeOK, Shape
<1>1. /\ app[b] = "booting" /\ app'[b] \in {"up", "refused"}
      /\ \A c \in Boots \ {b} : app'[c] = app[c]
      /\ UNCHANGED <<accepting, replaced, request, reload>>
      /\ handle' \in {handle, None} /\ (app'[b] = "refused" => handle' = None)
  BY DEF BootAnswers, BootRefuses
<1>2. Shape'
  BY <1>1 DEF BootAnswers, BootRefuses
<1>3. UnbornIsNew'
  <2> SUFFICES ASSUME NEW c \in Boots, app'[c] = "unborn"
               PROVE  ~Held(c)' /\ accepting'[c]
    BY DEF UnbornIsNew
  <2>1. ~Held(c) /\ accepting[c]
    BY <1>1 DEF UnbornIsNew
  <2>2. handle' # c
    BY <1>1, <2>1, NoneIsNoBoot DEF Held
  <2> QED
    BY <1>1, <2>1, <2>2 DEF Held
<1>4. HandleApart' /\ ClosedFirst' /\ HandleServes'
  BY <1>1 DEF HandleApart, ClosedFirst, HandleServes
<1>5. CallsStandOnAnApp'
  BY <1>1 DEF CallsStandOnAnApp, Running
<1> QED
  BY <1>2, <1>3, <1>4, <1>5

(* A request asks: of what is in service, or of a boot nobody held.        *)
LEMMA InvKeptByAsks ==
  ASSUME ReloadInv, NEW q \in Requests, Asks(q)
  PROVE  ReloadInv'
<1> USE DEF ReloadInv, HostTypeOK
<1>1. CASE handle # None
  <2>1. /\ UNCHANGED <<app, accepting, handle, replaced, reload>>
        /\ request' = [request EXCEPT ![q] = [stage |-> "asked", of |-> handle]]
    BY <1>1 DEF Asks
  <2>2. Shape' /\ UnbornIsNew' /\ HandleApart' /\ ClosedFirst' /\ HandleServes'
    BY <2>1 DEF Shape, UnbornIsNew, Held, HandleApart, ClosedFirst, HandleServes
  <2>3. CallsStandOnAnApp'
    BY <2>1 DEF Shape, CallsStandOnAnApp, Running
  <2> QED
    BY <2>2, <2>3
<1>2. CASE handle = None
  <2> PICK b \in Boots : /\ app[b] = "unborn"
                         /\ app' = [app EXCEPT ![b] = "booting"]
                         /\ handle' = b
                         /\ request' = [request EXCEPT ![q] = [stage |-> "asked", of |-> b]]
    BY <1>2 DEF Asks, IsNext
  <2>1. ~Held(b) /\ accepting[b]
    BY DEF UnbornIsNew
  <2>2. Shape'
    BY DEF Asks, Shape
  <2>3. UnbornIsNew'
    BY <2>1 DEF Asks, UnbornIsNew, Held, Shape
  <2>4. HandleApart' /\ HandleServes'
    BY <2>1 DEF Asks, HandleApart, HandleServes, Held, Shape
  <2>5. ClosedFirst' /\ CallsStandOnAnApp'
    BY DEF Asks, ClosedFirst, CallsStandOnAnApp, Running, Shape
  <2> QED
    BY <2>2, <2>3, <2>4, <2>5
<1> QED
  BY <1>1, <1>2

(* A call enters, nests, settles: it enters an app whose door is open, and *)
(* such an app was not disposed of.                                        *)
LEMMA InvKeptByACall ==
  ASSUME ReloadInv, NEW q \in Requests, Enters(q) \/ Nests(q) \/ Settles(q)
  PROVE  ReloadInv'
<1> USE DEF ReloadInv, HostTypeOK
<1>1. UNCHANGED <<app, accepting, handle, replaced, reload>>
  BY DEF Enters, Nests, Settles
<1>2. UnbornIsNew' /\ HandleApart' /\ ClosedFirst' /\ HandleServes'
  BY <1>1 DEF UnbornIsNew, Held, HandleApart, ClosedFirst, HandleServes
<1>3. PICK stage \in {"running", "nested", "answered", "failed", "unavailable", "cut"} :
        request' = [request EXCEPT ![q].stage = stage]
  <2>1. CASE Enters(q)
    BY <2>1 DEF Enters
  <2>2. CASE Nests(q)
    BY <2>2 DEF Nests
  <2>3. CASE Settles(q)
    BY <2>3 DEF Settles
  <2> QED
    BY <2>1, <2>2, <2>3
<1>4. /\ request'[q].stage = stage /\ request'[q].of = request[q].of
      /\ request' \in [Requests ->
           [stage : {"idle", "asked", "running", "nested", "answered",
                     "failed", "unavailable", "cut"}, of : Boots \cup {None}]]
      /\ \A p \in Requests \ {q} : request'[p] = request[p]
  BY <1>3 DEF Shape
<1>5. Shape'
  BY <1>1, <1>4 DEF Shape
<1>6. ASSUME request[q].of \in Boots, stage \in {"running", "nested"}
      PROVE  app[request[q].of] = "up"
  <2>1. CASE Enters(q)
    <3>1. request'[q].stage = IF app[request[q].of] = "refused" THEN "failed"
                              ELSE IF accepting[request[q].of] THEN "running" ELSE "unavailable"
      BY <2>1 DEF Enters, Shape
    <3>2. accepting[request[q].of] /\ app[request[q].of] # "refused"
      BY <3>1, <1>4, <1>6
    <3>3. app[request[q].of] \notin {"booting", "unborn"}
      BY <2>1 DEF Enters
    <3> QED
      BY <3>2, <3>3, <1>6 DEF ClosedFirst, Shape
  <2>2. CASE Nests(q) \/ Settles(q)
    <3>1. request[q].stage \in {"running", "nested"}
      BY <2>2 DEF Nests, Settles
    <3> QED
      BY <3>1, <1>6 DEF CallsStandOnAnApp, Running
  <2> QED
    BY <2>1, <2>2
<1>7. CallsStandOnAnApp'
  <2> SUFFICES ASSUME NEW b \in Boots, NEW p \in Requests, request'[p].of = b,
                      request'[p].stage \in {"running", "nested"}
               PROVE  app[b] = "up"
    BY <1>1 DEF CallsStandOnAnApp, Running
  <2>1. CASE p = q
    BY <2>1, <1>4, <1>6
  <2>2. CASE p # q
    <3>1. request[p].of = b /\ request[p].stage \in {"running", "nested"}
      BY <2>2, <1>4
    <3> QED
      BY <3>1 DEF CallsStandOnAnApp, Running
  <2> QED
    BY <2>1, <2>2
<1> QED
  BY <1>2, <1>5, <1>7

(* A reload goes from one await to the next: what it takes up was held, it *)
(* closes before it drains, and it disposes of what no call runs in.       *)
LEMMA InvKeptByReloadBegins ==
  ASSUME ReloadInv, NEW r \in Reloads, ReloadBegins(r)
  PROVE  ReloadInv'
<1> USE DEF ReloadInv, HostTypeOK
<1> PICK b \in Boots :
      /\ app[b] = "unborn"
      /\ app' = [app EXCEPT ![b] = "booting"]
      /\ handle' = b
      /\ reload' = [reload EXCEPT ![r] = [stage |-> "waits", next |-> b, previous |-> Replaced]]
  BY DEF ReloadBegins, IsNext
<1>1. replaced' = << >> /\ UNCHANGED <<accepting, request>>
  BY DEF ReloadBegins
<1>2. /\ Replaced \in Seq(Boots)
      /\ \A e : Contains(Replaced, e) => Contains(replaced, e) \/ (handle # None /\ e = handle)
  BY ReplacedHolds
<1>3. /\ reload'[r].stage = "waits" /\ reload'[r].previous = Replaced
      /\ \A other \in Reloads \ {r} : reload'[other] = reload[other]
      /\ reload' \in [Reloads -> ReloadShape]
  BY <1>2 DEF Shape, ReloadShape, ReloadStages
<1>4. \A e : ~Contains(replaced', e)
  BY <1>1, ContainsNone
<1>5. ~Held(b) /\ accepting[b]
  BY DEF UnbornIsNew
<1>6. Shape'
  <2>1. app' \in [Boots -> {"unborn", "booting", "up", "refused", "disposed"}]
    BY DEF Shape
  <2>2. replaced' \in Seq(Boots)
    BY <1>1
  <2> QED
    BY <2>1, <2>2, <1>1, <1>3 DEF Shape, ReloadShape, ReloadStages
<1>7. \A c \in Boots : ~Held(c) /\ c # b => ~Held(c)'
  BY <1>2, <1>3, <1>4 DEF Held
<1>8. UnbornIsNew'
  BY <1>1, <1>7 DEF UnbornIsNew, Shape
<1>9. HandleApart'
  BY <1>2, <1>3, <1>4, <1>5 DEF HandleApart, Held
<1>10. ClosedFirst' /\ CallsStandOnAnApp' /\ HandleServes'
  BY <1>1, <1>3, <1>5 DEF ClosedFirst, CallsStandOnAnApp, HandleServes, Running, Shape
<1> QED
  BY <1>6, <1>8, <1>9, <1>10

LEMMA InvKeptByReloadHears ==
  ASSUME ReloadInv, NEW r \in Reloads, ReloadHears(r)
  PROVE  ReloadInv'
<1> USE DEF ReloadInv, HostTypeOK
<1>1. UNCHANGED <<app, accepting, handle, request>>
  BY DEF ReloadHears
<1>2. reload[r].previous \in Seq(Boots) /\ replaced \in Seq(Boots)
  BY DEF Shape
<1>3. /\ reload'[r].stage \in {"refused", "releases"}
      /\ reload'[r].previous \in Seq(Boots)
      /\ \A e : Contains(reload'[r].previous, e) => Contains(reload[r].previous, e)
      /\ \A other \in Reloads \ {r} : reload'[other] = reload[other]
      /\ reload' \in [Reloads -> ReloadShape]
  <2>1. \/ reload' = Moved(r, "refused", << >>)
        \/ reload' = [reload EXCEPT ![r].stage = "releases"]
    BY DEF ReloadHears, Moved
  <2>2. CASE reload' = Moved(r, "refused", << >>)
    <3>1. /\ reload' \in [Reloads -> ReloadShape]
          /\ reload'[r].stage = "refused" /\ reload'[r].previous = << >>
          /\ \A other \in Reloads \ {r} : reload'[other] = reload[other]
      BY <2>2, ReloadMovesOn, EmptyIsAList DEF ReloadStages
    <3> QED
      BY <3>1, ContainsNone
  <2>3. CASE reload' = [reload EXCEPT ![r].stage = "releases"]
    <3>1. reload'[r].stage = "releases" /\ reload'[r].previous = reload[r].previous
      BY <2>3 DEF Shape
    <3> QED
      BY <2>3, <3>1 DEF Shape, ReloadShape, ReloadStages
  <2> QED
    BY <2>1, <2>2, <2>3
<1>4. /\ replaced' \in Seq(Boots)
      /\ \A e : Contains(replaced', e) => Contains(reload[r].previous, e) \/ Contains(replaced, e)
  <2>1. replaced' \in {replaced, Restored(r)}
    BY DEF ReloadHears, Moved
  <2>2. /\ Restored(r) \in Seq(Boots)
        /\ \A e : Contains(Restored(r), e) => Contains(reload[r].previous, e) \/ Contains(replaced, e)
    BY <1>2, ContainsJoined DEF Restored
  <2> QED
    BY <2>1, <2>2, <1>2
<1>5. Shape'
  BY <1>1, <1>3, <1>4 DEF Shape, ReloadShape, ReloadStages
<1>6. \A c \in Boots : ~Held(c) => ~Held(c)'
  BY <1>1, <1>3, <1>4 DEF Held
<1>7. UnbornIsNew' /\ HandleApart'
  BY <1>1, <1>3, <1>4, <1>6 DEF UnbornIsNew, HandleApart
<1>8. ClosedFirst' /\ CallsStandOnAnApp' /\ HandleServes'
  BY <1>1, <1>3 DEF ClosedFirst, CallsStandOnAnApp, HandleServes, Running
<1> QED
  BY <1>5, <1>7, <1>8

LEMMA InvKeptByReloadCloses ==
  ASSUME ReloadInv, NEW r \in Reloads, ReloadCloses(r)
  PROVE  ReloadInv'
<1> USE DEF ReloadInv, HostTypeOK
<1> DEFINE old == reload[r].previous[1]
<1>1. UNCHANGED <<app, handle, replaced, request>> /\ reload[r].previous # << >>
  BY DEF ReloadCloses
<1>2. reload[r].previous \in Seq(Boots)
  BY DEF Shape
<1>3. old \in Boots /\ Contains(reload[r].previous, old)
  BY <1>1, <1>2, ContainsRest
<1>4. /\ reload'[r].previous \in {<< >>, reload[r].previous}
      /\ reload'[r].stage \in {"gave up", "drains"}
      /\ reload'[r].stage = "drains" =>
           reload'[r].previous = reload[r].previous /\ accepting' = [accepting EXCEPT ![old] = FALSE]
      /\ accepting' = accepting \/ accepting' = [accepting EXCEPT ![old] = FALSE]
      /\ \A other \in Reloads \ {r} : reload'[other] = reload[other]
      /\ reload' \in [Reloads -> ReloadShape]
  <2>1. \/ /\ reload' = Moved(r, "gave up", << >>)
           /\ accepting' = accepting
        \/ /\ reload' = [reload EXCEPT ![r].stage = "drains"]
           /\ accepting' = [accepting EXCEPT ![old] = FALSE]
    BY DEF ReloadCloses, Moved
  <2>2. CASE /\ reload' = Moved(r, "gave up", << >>)
             /\ accepting' = accepting
    BY <2>2, ReloadMovesOn, EmptyIsAList DEF ReloadStages
  <2>3. CASE /\ reload' = [reload EXCEPT ![r].stage = "drains"]
             /\ accepting' = [accepting EXCEPT ![old] = FALSE]
    <3>1. reload'[r].stage = "drains" /\ reload'[r].previous = reload[r].previous
      BY <2>3 DEF Shape
    <3> QED
      BY <2>3, <3>1 DEF Shape, ReloadShape, ReloadStages
  <2> QED
    BY <2>1, <2>2, <2>3
<1>5. /\ accepting' \in [Boots -> BOOLEAN]
      /\ \A c \in Boots : accepting'[c] => accepting[c]
      /\ \A c \in Boots : c # old => accepting'[c] = accepting[c]
      /\ reload'[r].stage = "drains" => ~accepting'[old]
  <2>1. accepting \in [Boots -> BOOLEAN]
    BY DEF Shape
  <2> QED
    BY <2>1, <1>3, <1>4
<1>6. \A e : Contains(reload'[r].previous, e) => Contains(reload[r].previous, e)
  BY <1>4, ContainsNone
<1>7. Shape'
  BY <1>1, <1>4, <1>5 DEF Shape, ReloadShape, ReloadStages
<1>8. \A c \in Boots : ~Held(c) => ~Held(c)'
  BY <1>1, <1>4, <1>6 DEF Held
<1>9. UnbornIsNew' /\ HandleApart'
  <2>1. HandleApart'
    BY <1>1, <1>4, <1>6 DEF HandleApart
  <2>2. UnbornIsNew'
    <3> SUFFICES ASSUME NEW c \in Boots, app[c] = "unborn"
                 PROVE  ~Held(c)' /\ accepting'[c]
      BY <1>1 DEF UnbornIsNew
    <3>1. ~Held(c) /\ accepting[c]
      BY DEF UnbornIsNew
    <3>2. c # old
      BY <3>1, <1>3 DEF Held
    <3> QED
      BY <3>1, <3>2, <1>5, <1>8
  <2> QED
    BY <2>1, <2>2
<1>10. ClosedFirst'
  <2>1. \A c \in Boots : app'[c] = "disposed" => ~accepting'[c]
    BY <1>1, <1>5 DEF ClosedFirst
  <2>2. ASSUME NEW other \in Reloads, reload'[other].stage = "drains"
        PROVE  reload'[other].previous # << >> /\ ~accepting'[reload'[other].previous[1]]
    <3>1. CASE other = r
      BY <3>1, <2>2, <1>1, <1>4, <1>5
    <3>2. CASE other # r
      <4>1. /\ reload'[other] = reload[other]
            /\ reload[other].previous # << >> /\ ~accepting[reload[other].previous[1]]
        BY <3>2, <2>2, <1>4 DEF ClosedFirst
      <4>2. reload[other].previous[1] \in Boots
        BY <4>1, ContainsRest DEF Shape
      <4> QED
        BY <4>1, <4>2, <1>5
    <3> QED
      BY <3>1, <3>2
  <2> QED
    BY <2>1, <2>2 DEF ClosedFirst
<1>11. HandleServes'
  <2> SUFFICES ASSUME handle # None
               PROVE  app[handle] \in {"booting", "up"} /\ accepting'[handle]
    BY <1>1 DEF HandleServes
  <2>1. handle # old
    BY <1>3 DEF HandleApart
  <2>2. handle \in Boots
    BY DEF Shape
  <2> QED
    BY <2>1, <2>2, <1>5 DEF HandleServes
<1>12. CallsStandOnAnApp'
  BY <1>1 DEF CallsStandOnAnApp, Running
<1> QED
  BY <1>7, <1>9, <1>10, <1>11, <1>12

LEMMA InvKeptByReloadDisposes ==
  ASSUME ReloadInv, NEW r \in Reloads, ReloadDisposes(r)
  PROVE  ReloadInv'
<1> USE DEF ReloadInv, HostTypeOK
<1> DEFINE old == reload[r].previous[1]
<1>1. /\ UNCHANGED <<accepting, handle, replaced, request>>
      /\ Running(old) = {} /\ app' = [app EXCEPT ![old] = "disposed"]
      /\ reload[r].stage = "drains"
  BY DEF ReloadDisposes
<1>2. reload[r].previous # << >> /\ ~accepting[old] /\ reload[r].previous \in Seq(Boots)
  BY <1>1 DEF ClosedFirst, Shape
<1>3. /\ old \in Boots /\ Contains(reload[r].previous, old)
      /\ Tail(reload[r].previous) \in Seq(Boots)
      /\ \A e : Contains(Tail(reload[r].previous), e) => Contains(reload[r].previous, e)
  BY <1>2, ContainsRest
<1>4. /\ reload'[r].previous \in {<< >>, Tail(reload[r].previous)}
      /\ reload'[r].stage \in {"gave up", "releases"}
      /\ \A other \in Reloads \ {r} : reload'[other] = reload[other]
      /\ reload' \in [Reloads -> ReloadShape]
  <2>1. \/ reload' = Moved(r, "releases", Tail(reload[r].previous))
        \/ reload' = Moved(r, "gave up", << >>)
    BY DEF ReloadDisposes, Moved
  <2>2. CASE reload' = Moved(r, "releases", Tail(reload[r].previous))
    BY <2>2, <1>3, ReloadMovesOn DEF ReloadStages
  <2>3. CASE reload' = Moved(r, "gave up", << >>)
    BY <2>3, ReloadMovesOn, EmptyIsAList DEF ReloadStages
  <2> QED
    BY <2>1, <2>2, <2>3
<1>5. \A e : Contains(reload'[r].previous, e) => Contains(reload[r].previous, e)
  BY <1>3, <1>4, ContainsNone
<1>6. /\ app' \in [Boots -> {"unborn", "booting", "up", "refused", "disposed"}]
      /\ app'[old] = "disposed"
      /\ \A c \in Boots \ {old} : app'[c] = app[c]
  BY <1>1, <1>3 DEF Shape
<1>7. Shape'
  BY <1>1, <1>4, <1>6 DEF Shape, ReloadShape, ReloadStages
<1>8. \A c \in Boots : ~Held(c) => ~Held(c)'
  BY <1>1, <1>4, <1>5 DEF Held
<1>9. UnbornIsNew'
  <2> SUFFICES ASSUME NEW c \in Boots, app'[c] = "unborn"
               PROVE  ~Held(c)' /\ accepting[c]
    BY <1>1 DEF UnbornIsNew
  <2>1. app[c] = "unborn"
    BY <1>6
  <2> QED
    BY <2>1, <1>8 DEF UnbornIsNew
<1>10. HandleApart'
  BY <1>1, <1>4, <1>5 DEF HandleApart
<1>11. ClosedFirst'
  <2>1. \A c \in Boots : app'[c] = "disposed" => ~accepting'[c]
    BY <1>1, <1>2, <1>6 DEF ClosedFirst
  <2>2. \A other \in Reloads : reload'[other].stage = "drains" =>
          reload'[other].previous # << >> /\ ~accepting'[reload'[other].previous[1]]
    BY <1>1, <1>4 DEF ClosedFirst
  <2> QED
    BY <2>1, <2>2 DEF ClosedFirst
<1>12. HandleServes'
  <2> SUFFICES ASSUME handle # None
               PROVE  app'[handle] \in {"booting", "up"} /\ accepting[handle]
    BY <1>1 DEF HandleServes
  <2>1. handle \in Boots /\ accepting[handle] /\ app[handle] \in {"booting", "up"}
    BY DEF HandleServes, Shape
  <2>2. handle # old
    BY <2>1, <1>2
  <2> QED
    BY <2>1, <2>2, <1>6
<1>13. CallsStandOnAnApp'
  <2> SUFFICES ASSUME NEW c \in Boots, Running(c) # {}
               PROVE  app'[c] = "up"
    BY <1>1 DEF CallsStandOnAnApp, Running
  <2>1. c # old
    BY <1>1
  <2> QED
    BY <2>1, <1>6 DEF CallsStandOnAnApp
<1> QED
  BY <1>7, <1>9, <1>10, <1>11, <1>12, <1>13

LEMMA InvKeptByReloadStops ==
  ASSUME ReloadInv, NEW r \in Reloads, DrainExpires(r) \/ ReloadEnds(r)
  PROVE  ReloadInv'
<1> USE DEF ReloadInv, HostTypeOK
<1>1. UNCHANGED <<app, accepting, handle, replaced, request>>
  BY DEF DrainExpires, ReloadEnds
<1>2. /\ reload'[r].stage \in {"gave up", "turned"}
      /\ reload'[r].previous = << >>
      /\ \A other \in Reloads \ {r} : reload'[other] = reload[other]
      /\ reload' \in [Reloads -> ReloadShape]
  <2>1. CASE DrainExpires(r)
    <3>1. reload' = Moved(r, "gave up", << >>)
      BY <2>1 DEF DrainExpires, Moved
    <3> QED
      BY <3>1, ReloadMovesOn, EmptyIsAList DEF ReloadStages
  <2>2. CASE ReloadEnds(r)
    <3>1. reload'[r].stage = "turned" /\ reload'[r].previous = << >>
      BY <2>2 DEF ReloadEnds, Shape
    <3> QED
      BY <2>2, <3>1 DEF ReloadEnds, Shape, ReloadShape, ReloadStages
  <2> QED
    BY <2>1, <2>2
<1>3. \A e : ~Contains(reload'[r].previous, e)
  BY <1>2, ContainsNone
<1>4. Shape'
  BY <1>1, <1>2 DEF Shape, ReloadShape, ReloadStages
<1>5. UnbornIsNew' /\ HandleApart'
  BY <1>1, <1>2, <1>3 DEF UnbornIsNew, Held, HandleApart
<1>6. ClosedFirst' /\ CallsStandOnAnApp' /\ HandleServes'
  BY <1>1, <1>2 DEF ClosedFirst, CallsStandOnAnApp, HandleServes, Running
<1> QED
  BY <1>4, <1>5, <1>6

LEMMA InvKeptByAStep == ReloadInv /\ [HostNext]_hostVars => ReloadInv'
<1> SUFFICES ASSUME ReloadInv, [HostNext]_hostVars PROVE ReloadInv'
  OBVIOUS
<1>1. CASE Configure
  BY <1>1, InvKeptByConfigure
<1>2. ASSUME NEW b \in Boots, BootAnswers(b) \/ BootRefuses(b) PROVE ReloadInv'
  BY <1>2, InvKeptByABoot
<1>3. ASSUME NEW q \in Requests, Asks(q) PROVE ReloadInv'
  BY <1>3, InvKeptByAsks
<1>4. ASSUME NEW q \in Requests, Enters(q) \/ Nests(q) \/ Settles(q) PROVE ReloadInv'
  BY <1>4, InvKeptByACall
<1>5. ASSUME NEW r \in Reloads, ReloadBegins(r) PROVE ReloadInv'
  BY <1>5, InvKeptByReloadBegins
<1>6. ASSUME NEW r \in Reloads, ReloadHears(r) PROVE ReloadInv'
  BY <1>6, InvKeptByReloadHears
<1>7. ASSUME NEW r \in Reloads, ReloadCloses(r) PROVE ReloadInv'
  BY <1>7, InvKeptByReloadCloses
<1>8. ASSUME NEW r \in Reloads, ReloadDisposes(r) PROVE ReloadInv'
  BY <1>8, InvKeptByReloadDisposes
<1>9. ASSUME NEW r \in Reloads, DrainExpires(r) \/ ReloadEnds(r) PROVE ReloadInv'
  BY <1>9, InvKeptByReloadStops
<1>10. CASE UNCHANGED hostVars
  BY <1>10 DEF hostVars, ReloadInv, HostTypeOK, Shape, UnbornIsNew, Held, HandleApart, ClosedFirst,
               CallsStandOnAnApp, HandleServes, Running
<1> QED
  BY <1>1, <1>2, <1>3, <1>4, <1>5, <1>6, <1>7, <1>8, <1>9, <1>10 DEF HostNext, ReloadStep

(* The four promises and the two they rest on hold throughout.             *)
THEOREM ReloadInvariant == HostSpec => []ReloadInv
  BY InvAtFirst, InvKeptByAStep, PTL DEF HostSpec

(* The host's state keeps its shape, and a boot nobody began is held by    *)
(* nothing: neither by the handle nor by a list of replaced apps.          *)
THEOREM HostTyped == HostSpec => []HostTypeOK
<1>1. ReloadInv => HostTypeOK
  BY DEF ReloadInv
<1> QED
  BY <1>1, ReloadInvariant, PTL

(* No call runs in an app that was disposed of, however many reloads cross *)
(* and however late it entered (InFlight.ts drain before release).         *)
THEOREM CallsKeepTheirApp == HostSpec => []CallsStandOnAnApp
<1>1. ReloadInv => CallsStandOnAnApp
  BY DEF ReloadInv
<1> QED
  BY <1>1, ReloadInvariant, PTL

(* useFougereApp() never answers with an app whose door is closed, nor     *)
(* with a boot that refused.                                               *)
THEOREM HandleOnAnOpenDoor == HostSpec => []HandleServes
<1>1. ReloadInv => HandleServes
  BY DEF ReloadInv
<1> QED
  BY <1>1, ReloadInvariant, PTL

-----------------------------------------------------------------------------
(* Whose list a boot is in: no list has it twice, no two lists have it,    *)
(* and a reload that is not under way has none.                            *)
Once(t) == \A m, n \in 1 .. Len(t) : t[m] = t[n] => m = n

OnceInv ==
  /\ Once(replaced)
  /\ \A r \in Reloads :
       /\ Once(reload[r].previous)
       /\ reload[r].stage = "idle" => reload[r].previous = << >>
       /\ \A b : Contains(reload[r].previous, b) =>
            /\ ~Contains(replaced, b)
            /\ \A other \in Reloads \ {r} : ~Contains(reload[other].previous, b)

HeldInv == ReloadInv /\ OnceInv

LEMMA OnceAppended ==
  ASSUME NEW S, NEW t \in Seq(S), NEW x \in S, Once(t), ~Contains(t, x)
  PROVE  Once(Append(t, x))
<1> SUFFICES ASSUME NEW m \in 1 .. Len(t) + 1, NEW n \in 1 .. Len(t) + 1, Append(t, x)[m] = Append(t, x)[n]
             PROVE  m = n
  BY DEF Once
<1>1. \A k \in 1 .. Len(t) : Append(t, x)[k] = t[k] /\ t[k] # x
  BY DEF Contains
<1>2. Append(t, x)[Len(t) + 1] = x
  OBVIOUS
<1>3. CASE m \in 1 .. Len(t) /\ n \in 1 .. Len(t)
  BY <1>1, <1>3 DEF Once
<1>4. CASE m = Len(t) + 1 /\ n \in 1 .. Len(t)
  BY <1>1, <1>2, <1>4
<1>5. CASE n = Len(t) + 1 /\ m \in 1 .. Len(t)
  BY <1>1, <1>2, <1>5
<1> QED BY <1>3, <1>4, <1>5

LEMMA OnceJoined ==
  ASSUME NEW S, NEW s \in Seq(S), NEW t \in Seq(S), Once(s), Once(t),
         \A e : Contains(s, e) => ~Contains(t, e)
  PROVE  Once(s \o t)
<1> SUFFICES ASSUME NEW m \in 1 .. Len(s) + Len(t), NEW n \in 1 .. Len(s) + Len(t), (s \o t)[m] = (s \o t)[n]
             PROVE  m = n
  BY DEF Once
<1>1. \A k \in 1 .. Len(s) : (s \o t)[k] = s[k] /\ Contains(s, s[k])
  BY DEF Contains
<1>2. ASSUME NEW k \in 1 .. Len(s) + Len(t), k > Len(s)
      PROVE  k - Len(s) \in 1 .. Len(t) /\ (s \o t)[k] = t[k - Len(s)] /\ Contains(t, t[k - Len(s)])
  <2>1. k - Len(s) \in 1 .. Len(t) /\ (s \o t)[k] = t[k - Len(s)]
    BY <1>2
  <2> QED BY <2>1 DEF Contains
<1>3. CASE m <= Len(s) /\ n <= Len(s)
  BY <1>1, <1>3 DEF Once
<1>4. CASE m > Len(s) /\ n > Len(s)
  <2>1. m - Len(s) = n - Len(s)
    BY <1>2, <1>4 DEF Once
  <2> QED BY <2>1
<1>5. CASE m <= Len(s) /\ n > Len(s)
  BY <1>1, <1>2, <1>5
<1>6. CASE n <= Len(s) /\ m > Len(s)
  BY <1>1, <1>2, <1>6
<1> QED BY <1>3, <1>4, <1>5, <1>6

LEMMA OnceRest ==
  ASSUME NEW S, NEW t \in Seq(S), t # << >>, Once(t)
  PROVE  /\ Once(Tail(t))
         /\ \A e : Contains(t, e) => e = t[1] \/ Contains(Tail(t), e)
<1>1. \A k \in 1 .. Len(Tail(t)) : Tail(t)[k] = t[k + 1] /\ k + 1 \in 1 .. Len(t)
  OBVIOUS
<1>2. ASSUME NEW m \in 1 .. Len(Tail(t)), NEW n \in 1 .. Len(Tail(t)), Tail(t)[m] = Tail(t)[n]
      PROVE  m = n
  <2>1. m + 1 = n + 1
    BY <1>1, <1>2 DEF Once
  <2> QED BY <2>1
<1>3. ASSUME NEW k \in 1 .. Len(t), k # 1 PROVE Contains(Tail(t), t[k])
  <2>1. k - 1 \in 1 .. Len(Tail(t)) /\ Tail(t)[k - 1] = t[k]
    BY <1>3
  <2> QED BY <2>1 DEF Contains
<1> QED BY <1>2, <1>3 DEF Once, Contains

LEMMA OnceNone == Once(<< >>)
  BY DEF Once

LEMMA JoinedContains ==
  ASSUME NEW S, NEW s \in Seq(S), NEW t \in Seq(S), NEW e
  PROVE  Contains(s, e) \/ Contains(t, e) => Contains(s \o t, e)
<1>1. ASSUME NEW k \in 1 .. Len(s), s[k] = e PROVE Contains(s \o t, e)
  <2>1. k \in 1 .. Len(s \o t) /\ (s \o t)[k] = e
    BY <1>1
  <2> QED BY <2>1 DEF Contains
<1>2. ASSUME NEW k \in 1 .. Len(t), t[k] = e PROVE Contains(s \o t, e)
  <2>1. Len(s) + k \in 1 .. Len(s \o t) /\ (s \o t)[Len(s) + k] = e
    BY <1>2
  <2> QED BY <2>1 DEF Contains
<1> QED BY <1>1, <1>2 DEF Contains

(* A list that has nothing twice is as long as the set of what it has. *)
LEMMA OnceCounts ==
  ASSUME NEW S, NEW t \in Seq(S), Once(t)
  PROVE  Len(t) = Cardinality(ToSet(t))
<1>1. t \in [1 .. Len(t) -> ToSet(t)] /\ Len(t) \in Nat
  BY DEF ToSet
<1>2. t \in Bijection(1 .. Len(t), ToSet(t))
  BY <1>1 DEF Once, Bijection, Injection, Surjection, IsInjective, ToSet
<1> QED BY <1>1, <1>2, FS_CountingElements DEF ExistsBijection

(* What replace() puts aside: nothing is left out, nothing is there twice. *)
LEMMA ReplacedOnce ==
  ASSUME HeldInv
  PROVE  /\ Replaced \in Seq(Boots) /\ Once(Replaced)
         /\ \A b : Contains(Replaced, b) <=> Contains(replaced, b) \/ (handle # None /\ b = handle)
<1>1. replaced \in Seq(Boots) /\ Once(replaced) /\ HostTypeOK
  BY DEF HeldInv, ReloadInv, HostTypeOK, Shape, OnceInv
<1>2. CASE handle = None
  BY <1>1, <1>2 DEF Replaced
<1>3. CASE handle # None
  <2>1. handle \in Boots /\ ~Contains(replaced, handle)
    BY <1>3 DEF HeldInv, ReloadInv, HostTypeOK, Shape, HandleApart
  <2> QED BY <1>1, <1>3, <2>1, ContainsAppended, OnceAppended DEF Replaced
<1> QED BY <1>2, <1>3

(* A reload that releases what it took: it leaves its list as it was, or   *)
(* disposes of the first, or gives up, or has nothing left.                *)
LEMMA WhatAReleaseLeaves ==
  ASSUME HostTypeOK, ClosedFirst, NEW r \in Reloads,
         ReloadCloses(r) \/ ReloadDisposes(r) \/ DrainExpires(r) \/ ReloadEnds(r)
  PROVE  /\ replaced' = replaced /\ handle' = handle
         /\ reload'[r].stage # "idle"
         /\ \A other \in Reloads \ {r} : reload'[other] = reload[other]
         /\ \/ reload'[r].previous = reload[r].previous
            \/ /\ reload[r].previous # << >> /\ reload'[r].previous = Tail(reload[r].previous)
               /\ app' = [app EXCEPT ![reload[r].previous[1]] = "disposed"]
            \/ /\ reload[r].stage # "gave up" /\ reload'[r].stage = "gave up"
               /\ reload'[r].previous = << >>
<1> USE DEF HostTypeOK, Moved
<1>1. reload[r].previous \in Seq(Boots)
  BY DEF Shape
<1>2. CASE ReloadCloses(r)
  <2>1. \/ reload' = Moved(r, "gave up", << >>)
        \/ reload' = [reload EXCEPT ![r].stage = "drains"]
    BY <1>2 DEF ReloadCloses
  <2>2. replaced' = replaced /\ handle' = handle /\ reload[r].stage = "releases"
    BY <1>2 DEF ReloadCloses
  <2>3. CASE reload' = Moved(r, "gave up", << >>)
    BY <2>2, <2>3, ReloadMovesOn, EmptyIsAList DEF ReloadStages
  <2>4. CASE reload' = [reload EXCEPT ![r].stage = "drains"]
    BY <2>2, <2>4 DEF Shape
  <2> QED BY <2>1, <2>3, <2>4
<1>3. CASE ReloadDisposes(r)
  <2>1. /\ replaced' = replaced /\ handle' = handle /\ reload[r].stage = "drains"
        /\ app' = [app EXCEPT ![reload[r].previous[1]] = "disposed"]
        /\ \/ reload' = Moved(r, "releases", Tail(reload[r].previous))
           \/ reload' = Moved(r, "gave up", << >>)
    BY <1>3 DEF ReloadDisposes
  <2>2. reload[r].previous # << >>
    BY <2>1 DEF ClosedFirst
  <2>3. Tail(reload[r].previous) \in Seq(Boots)
    BY <1>1, <2>2
  <2>4. CASE reload' = Moved(r, "releases", Tail(reload[r].previous))
    BY <2>1, <2>2, <2>3, <2>4, ReloadMovesOn DEF ReloadStages
  <2>5. CASE reload' = Moved(r, "gave up", << >>)
    BY <2>1, <2>5, ReloadMovesOn, EmptyIsAList DEF ReloadStages
  <2> QED BY <2>1, <2>4, <2>5
<1>4. CASE DrainExpires(r)
  <2>1. /\ reload' = Moved(r, "gave up", << >>) /\ reload[r].stage = "drains"
        /\ replaced' = replaced /\ handle' = handle
    BY <1>4 DEF DrainExpires
  <2> QED BY <2>1, ReloadMovesOn, EmptyIsAList DEF ReloadStages
<1>5. CASE ReloadEnds(r)
  BY <1>5 DEF ReloadEnds, Shape
<1> QED BY <1>2, <1>3, <1>4, <1>5

(* One list has less in it, and no other is touched. *)
LEMMA OnceShrinks ==
  ASSUME OnceInv, NEW r \in Reloads, replaced' = replaced, reload'[r].stage # "idle",
         Once(reload'[r].previous),
         \A e : Contains(reload'[r].previous, e) => Contains(reload[r].previous, e),
         \A other \in Reloads \ {r} : reload'[other] = reload[other]
  PROVE  OnceInv'
  BY DEF OnceInv, Once

LEMMA OnceAtFirst == HostInit => OnceInv
  BY ContainsNone, OnceNone DEF HostInit, OnceInv

LEMMA OnceKeptByConfigure == ASSUME HeldInv, Configure PROVE OnceInv'
<1>1. /\ replaced' = Replaced /\ reload' = reload
      /\ Once(Replaced)
      /\ \A b : Contains(Replaced, b) => Contains(replaced, b) \/ (handle # None /\ b = handle)
  BY ReplacedOnce DEF Configure
<1> QED BY <1>1 DEF HeldInv, ReloadInv, HandleApart, OnceInv, Once

LEMMA OnceKeptByReloadBegins ==
  ASSUME HeldInv, NEW r \in Reloads, ReloadBegins(r)
  PROVE  OnceInv'
<1>1. PICK b \in Boots :
        reload' = [reload EXCEPT ![r] = [stage |-> "waits", next |-> b, previous |-> Replaced]]
  BY DEF ReloadBegins
<1>2. /\ reload'[r].stage = "waits" /\ reload'[r].previous = Replaced
      /\ \A other \in Reloads \ {r} : reload'[other] = reload[other]
  BY <1>1 DEF HeldInv, ReloadInv, HostTypeOK, Shape
<1>3. replaced' = << >> /\ \A e : ~Contains(replaced', e)
  BY ContainsNone DEF ReloadBegins
<1>4. Once(replaced')
  BY <1>3, OnceNone DEF Once
<1>5. /\ Once(Replaced)
      /\ \A e : Contains(Replaced, e) => Contains(replaced, e) \/ (handle # None /\ e = handle)
  BY ReplacedOnce
<1>6. \A e : Contains(Replaced, e) => \A other \in Reloads \ {r} : ~Contains(reload[other].previous, e)
  BY <1>5 DEF HeldInv, ReloadInv, HandleApart, OnceInv
<1> QED BY <1>2, <1>3, <1>4, <1>5, <1>6 DEF HeldInv, OnceInv, Once

LEMMA OnceKeptByReloadHears ==
  ASSUME HeldInv, NEW r \in Reloads, ReloadHears(r)
  PROVE  OnceInv'
<1> USE DEF HeldInv, ReloadInv, HostTypeOK
<1>1. reload[r].previous \in Seq(Boots) /\ replaced \in Seq(Boots)
  BY DEF Shape
<1>2. CASE reload' = [reload EXCEPT ![r].stage = "releases"] /\ replaced' = replaced
  <2>1. /\ reload'[r].stage = "releases" /\ reload'[r].previous = reload[r].previous
        /\ \A other \in Reloads \ {r} : reload'[other] = reload[other]
    BY <1>2 DEF Shape
  <2>2. \A other \in Reloads : reload'[other].previous = reload[other].previous
    BY <2>1
  <2>3. \A other \in Reloads : Once(reload'[other].previous)
    BY <2>2 DEF OnceInv, Once
  <2> QED BY <1>2, <2>1, <2>2, <2>3 DEF OnceInv, Once
<1>3. CASE reload' = Moved(r, "refused", << >>) /\ replaced' = Restored(r)
  <2>1. /\ reload'[r].stage = "refused" /\ reload'[r].previous = << >>
        /\ \A other \in Reloads \ {r} : reload'[other] = reload[other]
    BY <1>3, ReloadMovesOn, EmptyIsAList DEF ReloadStages
  <2>2. Once(reload[r].previous) /\ Once(replaced)
        /\ \A e : Contains(reload[r].previous, e) => ~Contains(replaced, e)
    BY DEF OnceInv
  <2>3. Once(Restored(r))
        /\ \A e : Contains(Restored(r), e) => Contains(reload[r].previous, e) \/ Contains(replaced, e)
    BY <1>1, <2>2, OnceJoined, ContainsJoined DEF Restored
  <2>4. Once(replaced')
    BY <1>3, <2>3 DEF Once
  <2>5. Once(reload'[r].previous) /\ \A e : ~Contains(reload'[r].previous, e)
    BY <2>1, OnceNone, ContainsNone DEF Once
  <2>6. ASSUME NEW other \in Reloads \ {r}, NEW e, Contains(reload[other].previous, e)
        PROVE  ~Contains(replaced', e)
    BY <1>3, <2>3, <2>6 DEF OnceInv
  <2> QED BY <2>1, <2>4, <2>5, <2>6 DEF OnceInv, Once
<1> QED BY <1>2, <1>3 DEF ReloadHears, Moved

LEMMA OnceKeptByARelease ==
  ASSUME HeldInv, NEW r \in Reloads,
         ReloadCloses(r) \/ ReloadDisposes(r) \/ DrainExpires(r) \/ ReloadEnds(r)
  PROVE  OnceInv'
<1>1. HostTypeOK /\ ClosedFirst /\ OnceInv /\ Once(reload[r].previous)
  BY DEF HeldInv, ReloadInv, OnceInv
<1>2. reload[r].previous \in Seq(Boots)
  BY <1>1 DEF HostTypeOK, Shape
<1>3. /\ replaced' = replaced /\ reload'[r].stage # "idle"
      /\ \A other \in Reloads \ {r} : reload'[other] = reload[other]
      /\ \/ reload'[r].previous = reload[r].previous
         \/ reload[r].previous # << >> /\ reload'[r].previous = Tail(reload[r].previous)
         \/ reload'[r].previous = << >>
  BY <1>1, WhatAReleaseLeaves
<1>4. /\ Once(reload'[r].previous)
      /\ \A e : Contains(reload'[r].previous, e) => Contains(reload[r].previous, e)
  <2>1. CASE reload'[r].previous = reload[r].previous
    BY <1>1, <2>1 DEF Once
  <2>2. CASE reload[r].previous # << >> /\ reload'[r].previous = Tail(reload[r].previous)
    BY <1>1, <1>2, <2>2, OnceRest, ContainsRest DEF Once
  <2>3. CASE reload'[r].previous = << >>
    BY <2>3, OnceNone, ContainsNone DEF Once
  <2> QED BY <1>3, <2>1, <2>2, <2>3
<1> QED BY <1>1, <1>3, <1>4, OnceShrinks

LEMMA HeldKeptByAStep == HeldInv /\ [HostNext]_hostVars => HeldInv'
<1> SUFFICES ASSUME HeldInv, [HostNext]_hostVars PROVE OnceInv'
  BY InvKeptByAStep DEF HeldInv
<1>1. CASE Configure
  BY <1>1, OnceKeptByConfigure
<1>2. ASSUME UNCHANGED <<replaced, reload>> PROVE OnceInv'
  BY <1>2 DEF HeldInv, OnceInv, Once
<1>3. ASSUME NEW b \in Boots, BootAnswers(b) \/ BootRefuses(b) PROVE OnceInv'
  BY <1>2, <1>3 DEF BootAnswers, BootRefuses
<1>4. ASSUME NEW q \in Requests, Asks(q) \/ Enters(q) \/ Nests(q) \/ Settles(q) PROVE OnceInv'
  BY <1>2, <1>4 DEF Asks, Enters, Nests, Settles
<1>5. ASSUME NEW r \in Reloads, ReloadBegins(r) PROVE OnceInv'
  BY <1>5, OnceKeptByReloadBegins
<1>6. ASSUME NEW r \in Reloads, ReloadHears(r) PROVE OnceInv'
  BY <1>6, OnceKeptByReloadHears
<1>7. ASSUME NEW r \in Reloads,
             ReloadCloses(r) \/ ReloadDisposes(r) \/ DrainExpires(r) \/ ReloadEnds(r)
      PROVE  OnceInv'
  BY <1>7, OnceKeptByARelease
<1>8. CASE UNCHANGED hostVars
  BY <1>2, <1>8 DEF hostVars
<1> QED
  BY <1>1, <1>3, <1>4, <1>5, <1>6, <1>7, <1>8 DEF HostNext, ReloadStep

LEMMA HeldThroughout == HostSpec => []HeldInv
<1>1. HostInit => HeldInv
  BY InvAtFirst, OnceAtFirst DEF HeldInv
<1> QED
  BY <1>1, HeldKeptByAStep, PTL DEF HostSpec

(* A replaced app is in one list at most, and the app in service in none:  *)
(* no app is released twice, whatever reloads cross (boot.ts release).     *)
THEOREM ReleasedByOne == HostSpec => []HeldOnce
<1>1. ASSUME HeldInv PROVE HeldOnce
  <2> USE <1>1 DEF HeldInv, ReloadInv
  <2>1. /\ replaced \in Seq(Boots) /\ Once(replaced)
        /\ \A r \in Reloads : reload[r].previous \in Seq(Boots) /\ Once(reload[r].previous)
    BY DEF HostTypeOK, Shape, OnceInv
  <2>2. /\ Len(replaced) = Cardinality(ToSet(replaced))
        /\ \A r \in Reloads : Len(reload[r].previous) = Cardinality(ToSet(reload[r].previous))
    BY <2>1, OnceCounts
  <2>3. ASSUME NEW b \in Boots
        PROVE  Cardinality({r \in Reloads : Contains(reload[r].previous, b)})
                 + (IF Contains(replaced, b) THEN 1 ELSE 0) + (IF b = handle THEN 1 ELSE 0) <= 1
    <3> DEFINE having == {r \in Reloads : Contains(reload[r].previous, b)}
    <3>1. b # None
      BY NoneIsNoBoot
    <3>2. ~(Contains(replaced, b) /\ b = handle)
      BY <3>1 DEF HandleApart
    <3>3. CASE having = {}
      <4>1. Cardinality(having) = 0
        BY <3>3, FS_EmptySet
      <4> QED BY <3>2, <4>1
    <3>4. ASSUME NEW r \in having PROVE Cardinality(having) = 1 /\ ~Contains(replaced, b) /\ b # handle
      <4>1. ~Contains(replaced, b) /\ b # handle
        BY <3>1 DEF HandleApart, OnceInv
      <4>2. having = {r}
        BY DEF OnceInv
      <4> QED BY <4>1, <4>2, FS_Singleton
    <3> QED BY <3>2, <3>3, <3>4
  <2> QED BY <2>2, <2>3 DEF HeldOnce
<1> QED
  BY <1>1, HeldThroughout, PTL

(* An app that is up is let go of only by being disposed of - but for a    *)
(* reload that gives up part way and a refusal that empties a handle it is *)
(* not behind (boot.ts useFougereApp's catch, release).                    *)
THEOREM NoAppIsLost == HostSpec => LetGoOnlyDisposed
<1> DEFINE LetGo(b) == app[b] \in {"booting", "up"} /\ Held(b) /\ ~Held(b)'
           Why(b) ==
             \/ app'[b] \in {"disposed", "refused"}
             \/ \E r \in Reloads : reload[r].stage # "gave up" /\ reload'[r].stage = "gave up"
             \/ \E other \in Boots \ {b} : app[other] = "booting" /\ app'[other] = "refused"
<1>1. ASSUME HeldInv, [HostNext]_hostVars, NEW b \in Boots, LetGo(b) PROVE Why(b)
  <2> USE <1>1 DEF HeldInv, ReloadInv
  <2>1. CASE Configure
    <3>1. Held(b)'
      BY <2>1, ReplacedOnce, NoneIsNoBoot DEF Configure, Held
    <3> QED BY <3>1
  <2>2. ASSUME NEW c \in Boots, BootAnswers(c) \/ BootRefuses(c) PROVE Why(b)
    <3>1. CASE BootAnswers(c)
      BY <3>1 DEF BootAnswers, Held
    <3>2. CASE BootRefuses(c)
      BY <3>2 DEF BootRefuses, HostTypeOK, Shape
    <3> QED BY <2>2, <3>1, <3>2
  <2>3. ASSUME NEW q \in Requests, Asks(q) \/ Enters(q) \/ Nests(q) \/ Settles(q) PROVE Why(b)
    <3>1. Held(b)'
      BY <2>3, NoneIsNoBoot DEF Asks, Enters, Nests, Settles, Held
    <3> QED BY <3>1
  <2>4. ASSUME NEW r \in Reloads, ReloadBegins(r) PROVE Why(b)
    <3>1. PICK c \in Boots :
            reload' = [reload EXCEPT ![r] = [stage |-> "waits", next |-> c, previous |-> Replaced]]
      BY <2>4 DEF ReloadBegins
    <3>2. /\ reload'[r].previous = Replaced
          /\ \A other \in Reloads \ {r} : reload'[other] = reload[other]
      BY <3>1 DEF HostTypeOK, Shape
    <3>3. Contains(Replaced, b) <=> Contains(replaced, b) \/ (handle # None /\ b = handle)
      BY ReplacedOnce
    <3>4. ~Contains(reload[r].previous, b)
      BY <2>4, ContainsNone DEF ReloadBegins, OnceInv
    <3>5. Held(b)'
      BY <3>2, <3>3, <3>4, NoneIsNoBoot DEF Held
    <3> QED BY <3>5
  <2>5. ASSUME NEW r \in Reloads, ReloadHears(r) PROVE Why(b)
    <3>1. reload[r].previous \in Seq(Boots) /\ replaced \in Seq(Boots)
      BY DEF HostTypeOK, Shape
    <3>2. CASE reload' = [reload EXCEPT ![r].stage = "releases"] /\ replaced' = replaced
      <4>1. \A other \in Reloads : reload'[other].previous = reload[other].previous
        BY <3>2 DEF HostTypeOK, Shape
      <4>2. Held(b)'
        BY <2>5, <3>2, <4>1 DEF Held, ReloadHears
      <4> QED BY <4>2
    <3>3. CASE reload' = Moved(r, "refused", << >>) /\ replaced' = Restored(r)
      <4>1. \A other \in Reloads \ {r} : reload'[other] = reload[other]
        BY <3>3, ReloadMovesOn, EmptyIsAList DEF ReloadStages, HostTypeOK
      <4>2. Contains(reload[r].previous, b) \/ Contains(replaced, b) => Contains(replaced', b)
        BY <3>1, <3>3, JoinedContains DEF Restored
      <4>3. Held(b)'
        BY <2>5, <4>1, <4>2 DEF Held, ReloadHears
      <4> QED BY <4>3
    <3> QED BY <2>5, <3>2, <3>3 DEF ReloadHears, Moved
  <2>6. ASSUME NEW r \in Reloads,
               ReloadCloses(r) \/ ReloadDisposes(r) \/ DrainExpires(r) \/ ReloadEnds(r)
        PROVE  Why(b)
    <3>1. /\ replaced' = replaced /\ handle' = handle
          /\ \A other \in Reloads \ {r} : reload'[other] = reload[other]
          /\ \/ reload'[r].previous = reload[r].previous
             \/ /\ reload[r].previous # << >> /\ reload'[r].previous = Tail(reload[r].previous)
                /\ app' = [app EXCEPT ![reload[r].previous[1]] = "disposed"]
             \/ reload[r].stage # "gave up" /\ reload'[r].stage = "gave up"
      BY <2>6, WhatAReleaseLeaves
    <3>2. CASE reload'[r].previous = reload[r].previous
      <4>1. Held(b)'
        BY <3>1, <3>2 DEF Held
      <4> QED BY <4>1
    <3>3. CASE /\ reload[r].previous # << >> /\ reload'[r].previous = Tail(reload[r].previous)
               /\ app' = [app EXCEPT ![reload[r].previous[1]] = "disposed"]
      <4>1. Contains(reload[r].previous, b) => b = reload[r].previous[1] \/ Contains(reload'[r].previous, b)
        <5> PICK previous : previous = reload[r].previous
          OBVIOUS
        <5>1. previous \in Seq(Boots) /\ Once(previous)
          BY DEF HostTypeOK, Shape, OnceInv
        <5> QED BY <3>3, <5>1, OnceRest
      <4>2. b = reload[r].previous[1]
        BY <3>1, <4>1 DEF Held
      <4> QED BY <3>3, <4>2 DEF HostTypeOK, Shape
    <3> QED BY <3>1, <3>2, <3>3
  <2>7. CASE UNCHANGED hostVars
    BY <2>7 DEF hostVars, Held
  <2> QED
    BY <2>1, <2>2, <2>3, <2>4, <2>5, <2>6, <2>7 DEF HostNext, ReloadStep
<1>2. HeldInv /\ [HostNext]_hostVars => [\A b \in Boots : LetGo(b) => Why(b)]_hostVars
  BY <1>1
<1> QED
  BY <1>2, HeldThroughout, PTL DEF HostSpec, LetGoOnlyDisposed

-----------------------------------------------------------------------------
Past == {"built", "instance", "clears", "over"}

(* Who closes a scope: the app the root's, the one above a frond's; and a  *)
(* frame's is closed by the one above as well as by itself.                *)
Asked(s) == <<s, "above">>
Main(s) == IF s = Root THEN <<s, "own">> ELSE Asked(s)

DownShape ==
  /\ level \in Levels /\ risen \in 0 .. Members /\ refusals \in 0 .. MaxRefusals
  /\ opened \subseteq Scopes /\ Root \in opened /\ emptied \subseteq opened
  /\ children \in [Scopes -> Seq(Scopes)]
  /\ stack \in [Scopes -> Seq(Instances)]
  /\ life \in [Instances -> {"unbuilt", "built", "closing", "closed"}]
  /\ closer \in [Closers -> [at : Doing, on : Scopes \cup Instances]]

(* What is told is told newest first, all of it before anything closes.    *)
Ascent ==
  /\ told \in Seq(1 .. Members) /\ Len(told) <= Members
  /\ \A k \in 1 .. Len(told) : told[k] = Members + 1 - k
  /\ level = "builds" => risen = 0
  /\ level \in {"builds", "rises", "up"} => told = << >>
  /\ level \in {"container", "over"} => Len(told) = Members \/ (told = << >> /\ risen = 0)
  /\ \A x \in Closers :
       x[1] \notin FrameScopes /\ closer[x].at # "nothing" => level \in {"container", "over"}
  /\ level = "over" => closer[Main(Root)].at = "over"

Tree ==
  /\ \A c \in opened \ {Root} : Above[c] \in opened
  /\ \A x \in Closers : closer[x].at # "nothing" =>
       x[1] \in opened /\ (x[1] \notin FrameScopes => x = Main(x[1]))
  /\ closer[Asked(Root)].at = "nothing"
  /\ \A p \in Scopes :
       /\ Once(children[p])
       /\ \A c \in Scopes : Contains(children[p], c) =>
            /\ c \in opened \ {Root} /\ Above[c] = p
            /\ \A x \in Closers : x[1] = c => closer[x].at = "nothing"
            /\ c \notin FrameScopes => closer[Main(p)].at \notin Past
  /\ \A c \in opened \ {Root} :
       \/ Contains(children[Above[c]], c)
       \/ closer[Asked(c)].at # "nothing"
       \/ OnItsOwn(c)
  /\ \A c \in Scopes \ {Root} : closer[Asked(c)].at \notin {"nothing", "over"} =>
       closer[Main(Above[c])].at = "child" /\ closer[Main(Above[c])].on = c

Lives ==
  /\ \A s \in Scopes :
       /\ Once(stack[s])
       /\ \A i \in Instances : Contains(stack[s], i) => Home[i] = s /\ life[i] = "built"
  /\ \A i \in Instances : life[i] = "built" => Contains(stack[Home[i]], i)
  /\ \A i \in Instances : life[i] # "unbuilt" => Home[i] \in opened
  /\ \A x \in Closers : closer[x].at = "instance" =>
       closer[x].on \in Instances /\ Home[closer[x].on] = x[1] /\ life[closer[x].on] = "closing"
  /\ \A x, y \in Closers :
       closer[x].at = "instance" /\ closer[y].at = "instance" /\ closer[x].on = closer[y].on => x = y
  /\ \A i \in Instances : life[i] = "closing" =>
       \E x \in Closers : x[1] = Home[i] /\ closer[x].at = "instance" /\ closer[x].on = i
  /\ \A i \in Instances : life[i] \in {"closing", "closed"} =>
       \E x \in Closers : x[1] = Home[i] /\ closer[x].at \in Past
  /\ \A x \in Closers : closer[x].at = "over" => x[1] \in emptied
  /\ \A i \in Instances : \A x \in Closers : x[1] = Home[i] /\ closer[x].at \in {"clears", "over"} =>
       life[i] \in {"unbuilt", "closed"} \/ i \in slipped \/ OnItsOwn(Home[i])

(* In one scope, what something was built on comes before it on the stack, *)
(* and is open while it closes.                                            *)
StandsOnBuilt ==
  /\ \A s \in Scopes : \A n \in 1 .. Len(stack[s]) : \A d \in Needs[stack[s][n]] :
       Home[d] = s /\ stack[s][n] \notin behind => \E m \in 1 .. n - 1 : stack[s][m] = d
  /\ \A i \in Instances : \A d \in Needs[i] :
       life[i] = "closing" /\ i \notin behind /\ ~OnItsOwn(Home[i]) /\ Home[d] = Home[i] =>
         life[d] = "built"

DownInv == DownShape /\ Ascent /\ Tree /\ Lives /\ StandsOnBuilt

LEMMA PartOfAList ==
  ASSUME NEW S, NEW t \in Seq(S), NEW m \in 1 .. Len(t) + 1, NEW n \in m - 1 .. Len(t)
  PROVE  /\ SubSeq(t, m, n) \in Seq(S)
         /\ Len(SubSeq(t, m, n)) = n - m + 1
         /\ \A i \in 1 .. n - m + 1 : SubSeq(t, m, n)[i] = t[m + i - 1]
<1>1. m \in Int /\ n \in Int /\ \A i \in m .. n : t[i] \in S
  OBVIOUS
<1>2. (IF m <= n THEN n - m + 1 ELSE 0) = n - m + 1
  BY <1>1
<1> QED BY <1>1, <1>2, SubSeqProperties

LEMMA TheTree ==
  /\ Root \in Scopes /\ Root \notin FrameScopes
  /\ \A c \in Scopes \ {Root} : Above[c] \in Scopes /\ Above[c] \notin FrameScopes
  BY ScopesAreATree

LEMMA ClosersAre ==
  /\ \A x \in Closers : x[1] \in Scopes
  /\ \A s \in Scopes : Asked(s) \in Closers /\ Asked(s)[1] = s /\ Main(s) \in Closers /\ Main(s)[1] = s
  /\ \A s \in Scopes : <<s, "own">> \in Closers /\ <<s, "own">>[1] = s
  /\ \A s \in Scopes : s # Root => Main(s) = Asked(s)
  /\ \A s, t \in Scopes : Asked(s) = Asked(t) => s = t
  BY DEF Closers, Asked, Main

LEMMA CloserMoves ==
  ASSUME DownShape, NEW x \in Closers, NEW STATE doing, doing \in Doing,
         NEW STATE thing, thing \in Scopes \cup Instances, Does(x, doing, thing)
  PROVE  /\ closer' \in [Closers -> [at : Doing, on : Scopes \cup Instances]]
         /\ closer'[x].at = doing /\ closer'[x].on = thing
         /\ \A y \in Closers \ {x} : closer'[y] = closer[y]
  BY DEF Does, DownShape

(* What is left of a list when one leaves it. *)
LEMMA LeftHolds ==
  ASSUME NEW S, NEW t \in Seq(S), Once(t), NEW c
  PROVE  /\ Left(t, c) \in Seq(S) /\ Once(Left(t, c))
         /\ \A e : Contains(Left(t, c), e) <=> Contains(t, e) /\ e # c
<1>1. CASE ~Contains(t, c)
  BY <1>1 DEF Left
<1>2. CASE Contains(t, c)
  <2>1. PICK k \in 1 .. Len(t) : t[k] = c
    BY <1>2 DEF Contains
  <2>2. (CHOOSE j \in DOMAIN t : t[j] = c) = k
    BY <2>1 DEF Once
  <2>3. PICK u, p, q : u = p \o q /\ p = SubSeq(t, 1, k - 1) /\ q = SubSeq(t, k + 1, Len(t))
    OBVIOUS
  <2>4. Left(t, c) = u
    BY <1>2, <2>2, <2>3 DEF Left, RemoveAt
  <2>5. /\ u \in Seq(S) /\ Len(u) = Len(t) - 1
        /\ \A j \in 1 .. Len(u) : u[j] = IF j < k THEN t[j] ELSE t[j + 1]
    <3>1. p \in Seq(S) /\ Len(p) = k - 1 /\ \A j \in 1 .. k - 1 : p[j] = t[j]
      <4>1. k - 1 \in 1 - 1 .. Len(t) /\ 1 \in 1 .. Len(t) + 1
        BY <2>1
      <4>2. /\ p \in Seq(S) /\ Len(p) = k - 1 - 1 + 1
            /\ \A j \in 1 .. k - 1 - 1 + 1 : p[j] = t[1 + j - 1]
        BY <2>3, <4>1, PartOfAList
      <4> QED BY <2>1, <4>2
    <3>2. q \in Seq(S) /\ Len(q) = Len(t) - k /\ \A j \in 1 .. Len(t) - k : q[j] = t[k + j]
      <4>1. k + 1 \in 1 .. Len(t) + 1 /\ Len(t) \in k + 1 - 1 .. Len(t)
        BY <2>1
      <4>2. /\ q \in Seq(S) /\ Len(q) = Len(t) - (k + 1) + 1
            /\ \A j \in 1 .. Len(t) - (k + 1) + 1 : q[j] = t[k + 1 + j - 1]
        BY <2>3, <4>1, PartOfAList
      <4> QED BY <2>1, <4>2
    <3>3. /\ u \in Seq(S) /\ Len(u) = Len(p) + Len(q)
          /\ \A j \in 1 .. Len(u) : u[j] = IF j <= Len(p) THEN p[j] ELSE q[j - Len(p)]
      <4>1. u = p \o q
        BY <2>3
      <4>2. p \in Seq(S) /\ q \in Seq(S)
        BY <3>1, <3>2
      <4> QED BY <4>1, <4>2, ConcatProperties
    <3>4. ASSUME NEW j \in 1 .. Len(u) PROVE u[j] = IF j < k THEN t[j] ELSE t[j + 1]
      <4>1. CASE j < k
        BY <2>1, <3>1, <3>2, <3>3, <4>1
      <4>2. CASE j >= k
        <5>1. j - Len(p) \in 1 .. Len(q) /\ u[j] = q[j - Len(p)]
          BY <2>1, <3>1, <3>2, <3>3, <4>2
        <5>2. k + (j - Len(p)) = j + 1
          BY <2>1, <3>1
        <5> QED BY <2>1, <3>1, <3>2, <4>2, <5>1, <5>2
      <4> QED BY <2>1, <4>1, <4>2
    <3> QED BY <2>1, <3>1, <3>2, <3>3, <3>4
  <2>6. Once(u)
    <3> SUFFICES ASSUME NEW m \in 1 .. Len(u), NEW n \in 1 .. Len(u), u[m] = u[n] PROVE m = n
      BY DEF Once
    <3>1. PICK mm \in 1 .. Len(t) : mm = (IF m < k THEN m ELSE m + 1) /\ u[m] = t[mm]
      BY <2>1, <2>5
    <3>2. PICK nn \in 1 .. Len(t) : nn = (IF n < k THEN n ELSE n + 1) /\ u[n] = t[nn]
      BY <2>1, <2>5
    <3>3. mm = nn
      BY <3>1, <3>2 DEF Once
    <3> QED BY <2>1, <3>1, <3>2, <3>3
  <2>7. ASSUME NEW j \in 1 .. Len(u) PROVE Contains(t, u[j]) /\ u[j] # c
    <3>1. PICK jj \in 1 .. Len(t) : jj # k /\ u[j] = t[jj]
      <4>1. CASE j < k
        BY <2>1, <2>5, <4>1
      <4>2. CASE j >= k
        <5>1. j + 1 \in 1 .. Len(t) /\ j + 1 # k
          BY <2>1, <2>5, <4>2
        <5> QED BY <2>1, <2>5, <4>2, <5>1
      <4> QED BY <2>1, <4>1, <4>2
    <3> QED BY <2>1, <3>1 DEF Once, Contains
  <2>8. ASSUME NEW j \in 1 .. Len(t), t[j] # c PROVE Contains(u, t[j])
    <3>1. CASE j < k
      <4>1. j \in 1 .. Len(u) /\ u[j] = t[j]
        BY <2>1, <2>5, <3>1
      <4> QED BY <4>1 DEF Contains
    <3>2. CASE j > k
      <4>1. j - 1 \in 1 .. Len(u) /\ u[j - 1] = t[j]
        BY <2>1, <2>5, <3>2
      <4> QED BY <4>1 DEF Contains
    <3> QED BY <2>1, <2>8, <3>1, <3>2
  <2>9. ASSUME NEW e PROVE Contains(u, e) <=> Contains(t, e) /\ e # c
    BY <2>7, <2>8 DEF Contains
  <2> QED BY <2>4, <2>5, <2>6, <2>9
<1> QED BY <1>1, <1>2

(* What a stack holds beside its last. *)
LEMMA FrontHolds ==
  ASSUME NEW S, NEW t \in Seq(S), t # << >>, Once(t)
  PROVE  /\ Front(t) \in Seq(S) /\ Once(Front(t)) /\ Len(Front(t)) = Len(t) - 1
         /\ \A n \in 1 .. Len(t) - 1 : Front(t)[n] = t[n]
         /\ Last(t) \in S /\ Contains(t, Last(t))
         /\ \A e : Contains(Front(t), e) <=> Contains(t, e) /\ e # Last(t)
<1>1. PICK u : u = Front(t)
  OBVIOUS
<1>2. /\ u \in Seq(S) /\ Len(u) = Len(t) - 1
      /\ \A n \in 1 .. Len(t) - 1 : u[n] = t[n]
  <2>1. Len(t) - 1 \in 1 - 1 .. Len(t) /\ 1 \in 1 .. Len(t) + 1
    OBVIOUS
  <2>2. /\ u \in Seq(S) /\ Len(u) = Len(t) - 1 - 1 + 1
        /\ \A n \in 1 .. Len(t) - 1 - 1 + 1 : u[n] = t[1 + n - 1]
    BY <1>1, <2>1, PartOfAList DEF Front
  <2> QED BY <2>2
<1>3. PICK l \in S : l = Last(t) /\ l = t[Len(t)]
  BY DEF Last
<1>4. Len(t) \in 1 .. Len(t)
  OBVIOUS
<1>5. Once(u)
  BY <1>2 DEF Once
<1>6. ASSUME NEW n \in 1 .. Len(u) PROVE Contains(t, u[n]) /\ u[n] # l
  <2>1. n \in 1 .. Len(t) /\ n # Len(t) /\ u[n] = t[n]
    BY <1>2
  <2> QED BY <1>3, <1>4, <2>1 DEF Once, Contains
<1>7. ASSUME NEW n \in 1 .. Len(t), t[n] # l PROVE Contains(u, t[n])
  <2>1. n \in 1 .. Len(u) /\ u[n] = t[n]
    BY <1>2, <1>3, <1>7
  <2> QED BY <2>1 DEF Contains
<1>8. Contains(t, l)
  BY <1>3, <1>4 DEF Contains
<1>9. \A e : Contains(u, e) <=> Contains(t, e) /\ e # l
  BY <1>6, <1>7 DEF Contains
<1> QED BY <1>1, <1>2, <1>3, <1>5, <1>8, <1>9

LEMMA DownAtFirst == ClosingInit => DownInv
<1> SUFFICES ASSUME ClosingInit PROVE DownInv
  OBVIOUS
<1>1. DownShape
  BY TheTree, MembersAreCounted DEF ClosingInit, DownShape, Levels, Doing, Idle
<1>2. \A x \in Closers : closer[x].at = "nothing"
  BY DEF ClosingInit, Idle
<1>3. Ascent
  BY <1>2, MembersAreCounted DEF ClosingInit, Ascent
<1>4. Tree
  BY <1>2, ClosersAre, TheTree, OnceNone, ContainsNone DEF ClosingInit, Tree, Once
<1>5. Lives
  BY <1>2, OnceNone, ContainsNone DEF ClosingInit, Lives, Once
<1>6. StandsOnBuilt
  BY DEF ClosingInit, StandsOnBuilt
<1> QED BY <1>1, <1>3, <1>4, <1>5, <1>6 DEF DownInv

(* The app goes on, and nothing of its scopes changes. *)
LEMMA DownKeptByTheApp ==
  ASSUME DownInv,
         \/ Installed \/ Rises \/ BootRefusesAt \/ Disposed
         \/ GoesDown \/ ExtensionsAreDown \/ SourceCloses
  PROVE  DownInv'
<1> USE DEF DownInv
<1>1. UNCHANGED scopeVars
  BY DEF Installed, Rises, BootRefusesAt, Disposed, GoesDown, ExtensionsAreDown, SourceCloses, Moves
<1>2. Tree' /\ Lives' /\ StandsOnBuilt'
  BY <1>1 DEF scopeVars, Tree, Lives, StandsOnBuilt, OnItsOwn, Once
<1>3. DownShape' /\ Ascent'
  <2> USE <1>1, MembersAreCounted DEF scopeVars, DownShape, Ascent, Levels
  <2>1. CASE Installed
    BY <2>1 DEF Installed, Moves
  <2>2. CASE Rises
    BY <2>2 DEF Rises, Moves
  <2>3. CASE BootRefusesAt
    BY <2>3 DEF BootRefusesAt, Moves
  <2>4. CASE Disposed
    BY <2>4 DEF Disposed, Moves
  <2>5. CASE GoesDown
    <3>1. told' = Append(told, Members - Len(told)) /\ level' = level /\ risen' = risen /\ level = "extensions"
      BY <2>5 DEF GoesDown
    <3>2. refusals' \in 0 .. MaxRefusals
      BY <2>5 DEF GoesDown
    <3>3. Len(told) < Members /\ Members \in Nat /\ Len(told) \in Nat
      BY <2>5 DEF GoesDown, AllTold
    <3>4. told' \in Seq(1 .. Members) /\ Len(told') = Len(told) + 1
      BY <3>1, <3>3
    <3>5. \A k \in 1 .. Len(told') : told'[k] = Members + 1 - k
      BY <3>1, <3>3, <3>4
    <3> QED BY <3>1, <3>2, <3>3, <3>4, <3>5
  <2>6. CASE ExtensionsAreDown
    BY <2>6 DEF ExtensionsAreDown, Moves, AllTold
  <2>7. CASE SourceCloses
    <3>1. closer[Main(Root)].at = "over"
      BY <2>7 DEF SourceCloses, Main
    <3> QED BY <2>7, <3>1 DEF SourceCloses, Moves
  <2> QED BY <2>1, <2>2, <2>3, <2>4, <2>5, <2>6, <2>7
<1> QED BY <1>2, <1>3

(* A closer is the scope's own or the one above's; of a scope that is no   *)
(* frame's there is one.                                                   *)
LEMMA CloserIsOneOfTwo ==
  ASSUME NEW x \in Closers
  PROVE  x = <<x[1], "own">> \/ x = Asked(x[1])
  BY DEF Closers, Asked

LEMMA TwoAreOnItsOwn ==
  ASSUME Tree, NEW x \in Closers, NEW y \in Closers, x # y, x[1] = y[1],
         closer[x].at # "nothing", closer[y].at # "nothing"
  PROVE  OnItsOwn(x[1])
<1>1. x[1] \in FrameScopes
  BY DEF Tree
<1>2. x = <<x[1], "own">> \/ y = <<x[1], "own">>
  BY CloserIsOneOfTwo DEF Asked
<1> QED BY <1>1, <1>2 DEF OnItsOwn

LEMMA OwnIsNoMain ==
  ASSUME NEW f \in FrameScopes, NEW s \in Scopes
  PROVE  Main(s) # <<f, "own">> /\ Asked(s) # <<f, "own">>
  BY TheTree DEF Main, Asked

(* A closer that is under way goes on to the next thing. *)
LEMMA TreeKeptByAMove ==
  ASSUME DownShape, Tree, NEW x \in Closers, NEW STATE doing, doing \in Doing \ {"nothing"},
         NEW STATE thing, thing \in Scopes \cup Instances, Does(x, doing, thing),
         opened' = opened, children' = children,
         closer[x].at \notin {"nothing", "over"},
         closer[x].at = "child" => closer[Asked(closer[x].on)].at = "over",
         doing \in Past => closer[x].at \in Past \/ children[x[1]] = << >>
  PROVE  Tree'
<1>1. /\ closer'[x].at = doing
      /\ \A y \in Closers \ {x} : closer'[y] = closer[y]
  BY CloserMoves
<1>2. \A y \in Closers : closer'[y].at # "nothing" <=> closer[y].at # "nothing"
  BY <1>1
<1>3. \A c \in opened \ {Root} : Above[c] \in opened
  BY DEF Tree
<1>4. \A y \in Closers : closer'[y].at # "nothing" =>
        y[1] \in opened /\ (y[1] \notin FrameScopes => y = Main(y[1]))
  BY <1>2 DEF Tree
<1>5. closer'[Asked(Root)].at = "nothing"
  BY <1>2, ClosersAre, TheTree DEF Tree
<1>6. ASSUME NEW p \in Scopes
      PROVE  /\ Once(children[p])
             /\ \A c \in Scopes : Contains(children[p], c) =>
                  /\ c \in opened \ {Root} /\ Above[c] = p
                  /\ \A y \in Closers : y[1] = c => closer'[y].at = "nothing"
                  /\ c \notin FrameScopes => closer'[Main(p)].at \notin Past
  <2>1. ASSUME NEW c \in Scopes, Contains(children[p], c), c \notin FrameScopes
        PROVE  closer'[Main(p)].at \notin Past
    <3>1. closer[Main(p)].at \notin Past /\ Main(p) \in Closers /\ Main(p)[1] = p
      BY <2>1, ClosersAre DEF Tree
    <3>2. children[p] # << >>
      BY <2>1, ContainsNone
    <3> QED BY <1>1, <3>1, <3>2
  <2> QED BY <1>2, <2>1 DEF Tree
<1>7. \A c \in opened \ {Root} :
        Contains(children[Above[c]], c) \/ closer'[Asked(c)].at # "nothing" \/ OnItsOwn(c)'
  <2>1. \A c \in Scopes : OnItsOwn(c) => OnItsOwn(c)'
    BY <1>2, ClosersAre DEF OnItsOwn
  <2> QED BY <1>2, <2>1, ClosersAre DEF Tree, DownShape
<1>8. ASSUME NEW c \in Scopes \ {Root}, closer'[Asked(c)].at \notin {"nothing", "over"}
      PROVE  closer'[Main(Above[c])].at = "child" /\ closer'[Main(Above[c])].on = c
  <2>1. Asked(c) \in Closers /\ Main(Above[c]) \in Closers
    BY ClosersAre, TheTree
  <2>2. closer[Asked(c)].at \notin {"nothing", "over"}
    BY <1>1, <1>8, <2>1
  <2>3. closer[Main(Above[c])].at = "child" /\ closer[Main(Above[c])].on = c
    BY <2>2 DEF Tree
  <2>4. Main(Above[c]) # x
    BY <2>2, <2>3
  <2> QED BY <1>1, <2>1, <2>3, <2>4
<1> QED BY <1>3, <1>4, <1>5, <1>6, <1>7, <1>8 DEF Tree, Once

LEMMA TreeKeptByOpens ==
  ASSUME DownShape, Ascent, Tree, NEW s \in Scopes, OpensScope(s)
  PROVE  Tree'
<1>1. /\ s \notin opened /\ s # Root /\ Above[s] \in opened
      /\ s \notin FrameScopes => level = "builds"
      /\ opened' = opened \cup {s} /\ closer' = closer
      /\ children' = [children EXCEPT ![Above[s]] = Append(@, s)]
  BY DEF OpensScope, Listed, DownShape
<1>2. Above[s] \in Scopes \ FrameScopes /\ children \in [Scopes -> Seq(Scopes)]
  BY <1>1, TheTree DEF DownShape
<1>3. \A x \in Closers : x[1] = s => closer[x].at = "nothing"
  BY <1>1 DEF Tree
<1>4. PICK now : now = children[Above[s]]
  OBVIOUS
<1>5. now \in Seq(Scopes) /\ Once(now) /\ ~Contains(now, s)
  BY <1>1, <1>2, <1>4 DEF Tree
<1>6. PICK new : new = Append(now, s)
  OBVIOUS
<1>7. Once(new) /\ \A e : Contains(new, e) <=> Contains(now, e) \/ e = s
  BY <1>5, <1>6, OnceAppended, ContainsAppended
<1>8. /\ children'[Above[s]] = new
      /\ \A p \in Scopes \ {Above[s]} : children'[p] = children[p]
  BY <1>1, <1>2, <1>4, <1>6
<1>9. s \notin FrameScopes => closer[Main(Above[s])].at = "nothing"
  BY <1>1, <1>2, ClosersAre DEF Ascent
<1>10. ASSUME NEW p \in Scopes
       PROVE  /\ Once(children'[p])
              /\ \A c \in Scopes : Contains(children'[p], c) =>
                   /\ c \in opened' \ {Root} /\ Above[c] = p
                   /\ \A x \in Closers : x[1] = c => closer[x].at = "nothing"
                   /\ c \notin FrameScopes => closer[Main(p)].at \notin Past
  <2>1. CASE p # Above[s]
    BY <1>1, <1>8, <2>1 DEF Tree
  <2>2. CASE p = Above[s]
    <3>1. Once(children'[p])
      BY <1>7, <1>8, <2>2
    <3>2. ASSUME NEW c \in Scopes, Contains(children'[p], c)
          PROVE  /\ c \in opened' \ {Root} /\ Above[c] = p
                 /\ \A x \in Closers : x[1] = c => closer[x].at = "nothing"
                 /\ c \notin FrameScopes => closer[Main(p)].at \notin Past
      <4>1. CASE c = s
        BY <1>1, <1>3, <1>9, <2>2, <4>1 DEF Past
      <4>2. CASE c # s
        <5>1. Contains(children[p], c)
          BY <1>4, <1>7, <1>8, <2>2, <3>2, <4>2
        <5> QED BY <1>1, <5>1 DEF Tree
      <4> QED BY <4>1, <4>2
    <3> QED BY <3>1, <3>2
  <2> QED BY <2>1, <2>2
<1>11. ASSUME NEW c \in opened' \ {Root}
       PROVE  /\ Above[c] \in opened'
              /\ \/ Contains(children'[Above[c]], c)
                 \/ closer[Asked(c)].at # "nothing"
                 \/ OnItsOwn(c)
  <2>1. CASE c = s
    BY <1>1, <1>7, <1>8, <2>1
  <2>2. CASE c # s
    <3>1. /\ c \in opened \ {Root} /\ Above[c] \in opened /\ Above[c] \in Scopes
          /\ Contains(children[Above[c]], c) \/ closer[Asked(c)].at # "nothing" \/ OnItsOwn(c)
      BY <1>1, <2>2 DEF Tree, DownShape
    <3> QED BY <1>1, <1>4, <1>7, <1>8, <3>1
  <2> QED BY <2>1, <2>2
<1>12. \A c : OnItsOwn(c)' <=> OnItsOwn(c)
  BY <1>1 DEF OnItsOwn
<1>13. /\ \A x \in Closers : closer[x].at # "nothing" =>
            x[1] \in opened' /\ (x[1] \notin FrameScopes => x = Main(x[1]))
       /\ closer[Asked(Root)].at = "nothing"
       /\ \A c \in Scopes \ {Root} : closer[Asked(c)].at \notin {"nothing", "over"} =>
            closer[Main(Above[c])].at = "child" /\ closer[Main(Above[c])].on = c
  BY <1>1 DEF Tree
<1> QED BY <1>1, <1>10, <1>11, <1>12, <1>13 DEF Tree, Once

(* A scope leaves the list of the one above it. *)
LEMMA WithoutHolds ==
  ASSUME DownShape, Tree, NEW s \in Scopes \ {Root}, children' = Without(s)
  PROVE  /\ children' \in [Scopes -> Seq(Scopes)]
         /\ \A p \in Scopes : Once(children'[p])
         /\ \A p \in Scopes : \A c \in Scopes :
              Contains(children'[p], c) <=> Contains(children[p], c) /\ c # s
<1>1. PICK now, left : now = children[Above[s]] /\ left = Left(now, s)
  OBVIOUS
<1>2. Above[s] \in Scopes /\ children \in [Scopes -> Seq(Scopes)]
  BY TheTree DEF DownShape
<1>3. now \in Seq(Scopes) /\ Once(now)
  BY <1>1, <1>2 DEF Tree
<1>4. left \in Seq(Scopes) /\ Once(left) /\ \A e : Contains(left, e) <=> Contains(now, e) /\ e # s
  BY <1>1, <1>3, LeftHolds
<1>5. /\ children' \in [Scopes -> Seq(Scopes)]
      /\ children'[Above[s]] = left
      /\ \A p \in Scopes \ {Above[s]} : children'[p] = children[p]
  BY <1>1, <1>2, <1>4 DEF Without
<1>6. \A p \in Scopes \ {Above[s]} : ~Contains(children[p], s)
  BY DEF Tree
<1>7. ASSUME NEW p \in Scopes
      PROVE  /\ Once(children'[p])
             /\ \A c \in Scopes : Contains(children'[p], c) <=> Contains(children[p], c) /\ c # s
  <2>1. CASE p = Above[s]
    BY <1>1, <1>4, <1>5, <2>1
  <2>2. CASE p # Above[s]
    <3>1. children'[p] = children[p] /\ Once(children[p])
      BY <1>5, <2>2 DEF Tree
    <3> QED BY <1>6, <2>2, <3>1 DEF Once
  <2> QED BY <2>1, <2>2
<1> QED BY <1>5, <1>7

LEMMA TreeKeptByFrameEnds ==
  ASSUME DownShape, Tree, NEW f \in FrameScopes, FrameEnds(f)
  PROVE  Tree'
<1> DEFINE own == <<f, "own">>
<1>1. /\ f \in opened /\ f \in Scopes \ {Root} /\ closer[own].at = "nothing"
      /\ children' = Without(f) /\ opened' = opened
      /\ Does(own, "children", f)
  BY TheTree DEF FrameEnds, DownShape
<1>2. own \in Closers /\ own[1] = f
  BY <1>1, ClosersAre
<1>3. /\ closer'[own].at = "children"
      /\ \A y \in Closers \ {own} : closer'[y] = closer[y]
  BY <1>1, <1>2, CloserMoves DEF Doing
<1>4. /\ \A p \in Scopes : Once(children'[p])
      /\ \A p \in Scopes : \A c \in Scopes :
           Contains(children'[p], c) <=> Contains(children[p], c) /\ c # f
  BY <1>1, WithoutHolds
<1>5. \A s \in Scopes : /\ closer'[Main(s)] = closer[Main(s)]
                        /\ closer'[Asked(s)] = closer[Asked(s)]
  BY <1>3, ClosersAre, OwnIsNoMain
<1>6. \A c \in Scopes : OnItsOwn(c) => OnItsOwn(c)'
  BY <1>3, ClosersAre DEF OnItsOwn
<1>7. OnItsOwn(f)'
  BY <1>3 DEF OnItsOwn
<1> HIDE DEF own
<1>8. \A y \in Closers : closer'[y].at # "nothing" =>
        y[1] \in opened' /\ (y[1] \notin FrameScopes => y = Main(y[1]))
  BY <1>1, <1>2, <1>3 DEF Tree
<1>9. \A p \in Scopes : \A c \in Scopes : Contains(children'[p], c) =>
        /\ c \in opened' \ {Root} /\ Above[c] = p
        /\ \A x \in Closers : x[1] = c => closer'[x].at = "nothing"
        /\ c \notin FrameScopes => closer'[Main(p)].at \notin Past
  BY <1>1, <1>2, <1>3, <1>4, <1>5 DEF Tree
<1>10. \A c \in opened' \ {Root} :
         /\ Above[c] \in opened'
         /\ Contains(children'[Above[c]], c) \/ closer'[Asked(c)].at # "nothing" \/ OnItsOwn(c)'
  <2> SUFFICES ASSUME NEW c \in opened \ {Root}, c # f
               PROVE  /\ Above[c] \in opened
                      /\ Contains(children'[Above[c]], c) \/ closer'[Asked(c)].at # "nothing" \/ OnItsOwn(c)'
    BY <1>1, <1>7 DEF Tree
  <2>1. c \in Scopes /\ Above[c] \in Scopes
    BY TheTree DEF DownShape
  <2> QED BY <1>4, <1>5, <1>6, <2>1 DEF Tree
<1>11. closer'[Asked(Root)].at = "nothing"
  BY <1>5, TheTree DEF Tree
<1>12. \A c \in Scopes \ {Root} : closer'[Asked(c)].at \notin {"nothing", "over"} =>
         closer'[Main(Above[c])].at = "child" /\ closer'[Main(Above[c])].on = c
  BY <1>5, TheTree DEF Tree
<1> QED BY <1>4, <1>8, <1>9, <1>10, <1>11, <1>12 DEF Tree, Once

(* A scope that closes asks the last of those it holds, which leaves its   *)
(* list and starts to close.                                               *)
LEMMA AsksFacts ==
  ASSUME DownShape, Tree, NEW x \in Closers, AsksChild(x)
  PROVE  \E c \in opened \ {Root} :
           /\ c \in Scopes /\ Above[c] = x[1] /\ x = Main(x[1]) /\ x[1] \notin FrameScopes
           /\ closer[x].at = "children" /\ Asked(c) # x
           /\ \A y \in Closers : y[1] = c => closer[y].at = "nothing"
           /\ closer'[x].at = "child" /\ closer'[x].on = c
           /\ closer'[Asked(c)].at = "children"
           /\ \A y \in Closers \ {x, Asked(c)} : closer'[y] = closer[y]
           /\ closer' \in [Closers -> [at : Doing, on : Scopes \cup Instances]]
           /\ children' = Without(c)
<1>1. PICK held : held = children[x[1]]
  OBVIOUS
<1>2. x[1] \in Scopes /\ held \in Seq(Scopes) /\ held # << >>
  BY <1>1, ClosersAre DEF DownShape, AsksChild
<1>3. PICK c \in Scopes : c = Last(held) /\ Contains(held, c)
  BY <1>2 DEF Last, Contains
<1>4. /\ c \in opened \ {Root} /\ Above[c] = x[1]
      /\ \A y \in Closers : y[1] = c => closer[y].at = "nothing"
  BY <1>1, <1>2, <1>3 DEF Tree
<1>5. /\ closer[x].at = "children" /\ children' = Without(c)
      /\ closer' = [closer EXCEPT ![x] = [at |-> "child", on |-> c],
                                  ![Asked(c)] = [at |-> "children", on |-> c]]
  BY <1>1, <1>3 DEF AsksChild, Asked
<1>6. x[1] \notin FrameScopes
  BY <1>4, TheTree
<1>7. x = Main(x[1])
  BY <1>5, <1>6 DEF Tree
<1>8. Asked(c) \in Closers /\ Asked(c) # x
  BY <1>3, <1>4, <1>5, ClosersAre
<1>9. /\ closer'[x].at = "child" /\ closer'[x].on = c
      /\ closer'[Asked(c)].at = "children"
      /\ \A y \in Closers \ {x, Asked(c)} : closer'[y] = closer[y]
      /\ closer' \in [Closers -> [at : Doing, on : Scopes \cup Instances]]
  <2>1. closer \in [Closers -> [at : Doing, on : Scopes \cup Instances]]
    BY DEF DownShape
  <2>2. /\ [at |-> "child", on |-> c] \in [at : Doing, on : Scopes \cup Instances]
        /\ [at |-> "children", on |-> c] \in [at : Doing, on : Scopes \cup Instances]
    BY <1>3 DEF Doing
  <2> QED BY <1>5, <1>8, <2>1, <2>2
<1> QED BY <1>3, <1>4, <1>5, <1>6, <1>7, <1>8, <1>9

LEMMA TreeKeptByAsks ==
  ASSUME DownShape, Tree, NEW x \in Closers, AsksChild(x)
  PROVE  Tree'
<1>1. PICK c \in opened \ {Root} :
        /\ c \in Scopes /\ Above[c] = x[1] /\ x = Main(x[1]) /\ x[1] \notin FrameScopes
        /\ closer[x].at = "children" /\ Asked(c) # x
        /\ \A y \in Closers : y[1] = c => closer[y].at = "nothing"
        /\ closer'[x].at = "child" /\ closer'[x].on = c
        /\ closer'[Asked(c)].at = "children"
        /\ \A y \in Closers \ {x, Asked(c)} : closer'[y] = closer[y]
        /\ children' = Without(c)
  BY AsksFacts
<1>2. /\ opened' = opened /\ Asked(c) \in Closers /\ Asked(c)[1] = c /\ Asked(c) = Main(c)
      /\ x[1] \in opened /\ x[1] \in Scopes
  BY <1>1, ClosersAre DEF AsksChild, Tree
<1>3. /\ \A p \in Scopes : Once(children'[p])
      /\ \A p \in Scopes : \A e \in Scopes :
           Contains(children'[p], e) <=> Contains(children[p], e) /\ e # c
  BY <1>1, WithoutHolds
<1>4. \A y \in Closers : closer[y].at # "nothing" => closer'[y].at # "nothing"
  BY <1>1
<1>5. \A y \in Closers : closer'[y].at # "nothing" => closer[y].at # "nothing" \/ y = Asked(c)
  BY <1>1
<1>6. \A y \in Closers : closer'[y].at \in Past => closer[y].at \in Past
  BY <1>1 DEF Past
<1>7. \A y \in Closers : closer'[y].at # "nothing" =>
        y[1] \in opened' /\ (y[1] \notin FrameScopes => y = Main(y[1]))
  BY <1>2, <1>5 DEF Tree
<1>8. closer'[Asked(Root)].at = "nothing"
  <2>1. Asked(Root) \in Closers /\ Asked(Root) # x /\ Asked(Root) # Asked(c)
    BY <1>1, <1>2, ClosersAre, TheTree DEF Tree
  <2> QED BY <1>1, <2>1 DEF Tree
<1>9. ASSUME NEW p \in Scopes, NEW e \in Scopes, Contains(children'[p], e)
      PROVE  /\ e \in opened' \ {Root} /\ Above[e] = p
             /\ \A y \in Closers : y[1] = e => closer'[y].at = "nothing"
             /\ e \notin FrameScopes => closer'[Main(p)].at \notin Past
  <2>1. Contains(children[p], e) /\ e # c
    BY <1>3, <1>9
  <2>2. /\ e \in opened \ {Root} /\ Above[e] = p
        /\ \A y \in Closers : y[1] = e => closer[y].at = "nothing"
        /\ e \notin FrameScopes => closer[Main(p)].at \notin Past
    BY <2>1 DEF Tree
  <2>3. \A y \in Closers : y[1] = e => closer'[y].at = "nothing"
    BY <1>2, <1>5, <2>1, <2>2
  <2> QED BY <1>2, <1>6, <2>2, <2>3, ClosersAre
<1>10. ASSUME NEW e \in opened' \ {Root}
       PROVE  /\ Above[e] \in opened'
              /\ Contains(children'[Above[e]], e) \/ closer'[Asked(e)].at # "nothing" \/ OnItsOwn(e)'
  <2>1. e \in opened \ {Root} /\ e \in Scopes /\ Above[e] \in Scopes
    BY <1>2, <1>10, TheTree DEF DownShape
  <2>2. OnItsOwn(e) => OnItsOwn(e)'
    BY <1>4, <2>1, ClosersAre DEF OnItsOwn
  <2>3. closer[Asked(e)].at # "nothing" => closer'[Asked(e)].at # "nothing"
    BY <1>4, <2>1, ClosersAre
  <2> QED BY <1>1, <1>2, <1>3, <2>1, <2>2, <2>3 DEF Tree
<1>11. ASSUME NEW e \in Scopes \ {Root}, closer'[Asked(e)].at \notin {"nothing", "over"}
       PROVE  closer'[Main(Above[e])].at = "child" /\ closer'[Main(Above[e])].on = e
  <2>1. CASE e = c
    BY <1>1, <2>1
  <2>2. CASE e # c
    <3>1. /\ Asked(e) \in Closers /\ Asked(e) # Asked(c)
          /\ Above[e] \in Scopes /\ Main(Above[e]) \in Closers
      BY <1>1, <2>2, ClosersAre, TheTree
    <3>2. closer[Asked(e)].at \notin {"nothing", "over"}
      BY <1>1, <1>11, <3>1
    <3>3. closer[Main(Above[e])].at = "child" /\ closer[Main(Above[e])].on = e
      BY <3>2 DEF Tree
    <3>4. Main(Above[e]) # x /\ Main(Above[e]) # Asked(c)
      BY <1>1, <1>2, <3>3
    <3> QED BY <1>1, <3>1, <3>3, <3>4
  <2> QED BY <2>1, <2>2
<1> QED BY <1>3, <1>7, <1>8, <1>9, <1>10, <1>11 DEF Tree, Once

LEMMA RootClosesFacts ==
  ASSUME DownShape, RootCloses
  PROVE  /\ Main(Root) \in Closers /\ Main(Root)[1] = Root
         /\ level = "container" /\ closer[Main(Root)].at = "nothing"
         /\ closer'[Main(Root)].at = "children"
         /\ \A y \in Closers \ {Main(Root)} : closer'[y] = closer[y]
         /\ closer' \in [Closers -> [at : Doing, on : Scopes \cup Instances]]
<1>1. Main(Root) = <<Root, "own">> /\ Main(Root) \in Closers /\ Main(Root)[1] = Root
  BY ClosersAre, TheTree DEF Main
<1>2. Does(Main(Root), "children", Root) /\ level = "container" /\ closer[Main(Root)].at = "nothing"
  BY <1>1 DEF RootCloses
<1> QED BY <1>1, <1>2, CloserMoves, TheTree DEF Doing

LEMMA TreeKeptByRootCloses ==
  ASSUME DownShape, Tree, RootCloses
  PROVE  Tree'
<1>1. /\ Main(Root) \in Closers /\ Main(Root)[1] = Root
      /\ closer[Main(Root)].at = "nothing"
      /\ closer'[Main(Root)].at = "children"
      /\ \A y \in Closers \ {Main(Root)} : closer'[y] = closer[y]
  BY RootClosesFacts
<1>2. opened' = opened /\ children' = children
  BY DEF RootCloses
<1>3. \A s \in Scopes : Asked(s) # Main(Root)
  BY DEF Asked, Main
<1>4. \A s \in Scopes : closer'[Asked(s)] = closer[Asked(s)]
  BY <1>1, <1>3, ClosersAre
<1>5. \A y \in Closers : closer'[y].at # "nothing" =>
        y[1] \in opened' /\ (y[1] \notin FrameScopes => y = Main(y[1]))
  <2>1. Main(Root)[1] \in opened /\ Main(Root) = Main(Main(Root)[1])
    BY <1>1 DEF DownShape
  <2>2. ASSUME NEW y \in Closers \ {Main(Root)}, closer'[y].at # "nothing"
        PROVE  y[1] \in opened /\ (y[1] \notin FrameScopes => y = Main(y[1]))
    BY <1>1, <2>2 DEF Tree
  <2> QED BY <1>2, <2>1, <2>2
<1>6. ASSUME NEW p \in Scopes
      PROVE  /\ Once(children[p])
             /\ \A c \in Scopes : Contains(children[p], c) =>
                  /\ c \in opened \ {Root} /\ Above[c] = p
                  /\ \A y \in Closers : y[1] = c => closer'[y].at = "nothing"
                  /\ c \notin FrameScopes => closer'[Main(p)].at \notin Past
  BY <1>1, ClosersAre DEF Tree, Past
<1>7. \A c \in Scopes : OnItsOwn(c) => OnItsOwn(c)'
  BY <1>1, ClosersAre DEF OnItsOwn
<1>8. \A c \in opened \ {Root} :
        Contains(children[Above[c]], c) \/ closer'[Asked(c)].at # "nothing" \/ OnItsOwn(c)'
  BY <1>4, <1>7 DEF Tree, DownShape
<1>9. ASSUME NEW c \in Scopes \ {Root}, closer'[Asked(c)].at \notin {"nothing", "over"}
      PROVE  closer'[Main(Above[c])].at = "child" /\ closer'[Main(Above[c])].on = c
  <2>1. closer[Main(Above[c])].at = "child" /\ closer[Main(Above[c])].on = c
    BY <1>4, <1>9 DEF Tree
  <2>2. Main(Above[c]) \in Closers \ {Main(Root)}
    BY <1>1, <2>1, ClosersAre, TheTree
  <2> QED BY <1>1, <2>1, <2>2
<1>10. \A c \in opened \ {Root} : Above[c] \in opened
  BY DEF Tree
<1> QED BY <1>2, <1>4, <1>5, <1>6, <1>8, <1>9, <1>10, TheTree DEF Tree, Once

(* Nothing but closers goes on, and none of them at an instance. *)
LEMMA LivesKeptByClosers ==
  ASSUME DownShape, Tree, Lives, StandsOnBuilt,
         \A y \in Closers : closer[y].at = "instance" => closer'[y] = closer[y],
         \A y \in Closers : closer'[y].at = "instance" => closer'[y] = closer[y],
         \A y \in Closers : closer[y].at \in Past => closer'[y].at \in Past,
         \A y \in Closers : closer[y].at # "nothing" => closer'[y].at # "nothing",
         \A y \in Closers : closer'[y].at = "over" => closer[y].at = "over",
         \A y \in Closers : closer'[y].at = "clears" =>
           closer[y].at = "clears" \/ (closer[y].at = "built" /\ stack[y[1]] = << >>),
         UNCHANGED <<opened, stack, life, emptied, behind, slipped>>
  PROVE  Lives' /\ StandsOnBuilt'
<1>1. \A s \in Scopes : OnItsOwn(s) => OnItsOwn(s)'
  BY ClosersAre DEF OnItsOwn
<1>2. \A i \in Instances : Home[i] \in Scopes
  BY InstancesHaveHomes
<1>3. StandsOnBuilt'
  BY <1>1, <1>2 DEF StandsOnBuilt
<1>4. \A y \in Closers : closer'[y].at = "instance" =>
        closer'[y].on \in Instances /\ Home[closer'[y].on] = y[1] /\ life[closer'[y].on] = "closing"
  BY DEF Lives
<1>5. \A x, y \in Closers :
        closer'[x].at = "instance" /\ closer'[y].at = "instance" /\ closer'[x].on = closer'[y].on => x = y
  BY DEF Lives
<1>6. \A i \in Instances : life[i] = "closing" =>
        \E x \in Closers : x[1] = Home[i] /\ closer'[x].at = "instance" /\ closer'[x].on = i
  BY DEF Lives
<1>7. \A i \in Instances : life[i] \in {"closing", "closed"} =>
        \E x \in Closers : x[1] = Home[i] /\ closer'[x].at \in Past
  BY DEF Lives
<1>8. \A x \in Closers : closer'[x].at = "over" => x[1] \in emptied
  BY DEF Lives
<1>9. ASSUME NEW i \in Instances, NEW x \in Closers, x[1] = Home[i], closer'[x].at \in {"clears", "over"}
      PROVE  life[i] \in {"unbuilt", "closed"} \/ i \in slipped \/ OnItsOwn(Home[i])'
  <2>1. CASE closer[x].at \in {"clears", "over"}
    BY <1>1, <1>2, <1>9, <2>1 DEF Lives
  <2>2. CASE closer[x].at = "built" /\ stack[x[1]] = << >>
    <3>1. life[i] # "built"
      BY <1>9, <2>2, ContainsNone DEF Lives
    <3>2. ASSUME life[i] = "closing" PROVE OnItsOwn(Home[i])
      <4>1. PICK y \in Closers : y[1] = Home[i] /\ closer[y].at = "instance"
        BY <3>2 DEF Lives
      <4>2. y # x /\ closer[y].at # "nothing" /\ closer[x].at # "nothing"
        BY <2>2, <4>1
      <4> QED BY <1>9, <4>1, <4>2, TwoAreOnItsOwn
    <3>3. life[i] \in {"unbuilt", "built", "closing", "closed"}
      BY DEF DownShape
    <3> QED BY <1>1, <1>2, <3>1, <3>2, <3>3
  <2> QED BY <1>9, <2>1, <2>2
<1>10. \A s \in Scopes :
         /\ Once(stack'[s])
         /\ \A i \in Instances : Contains(stack'[s], i) => Home[i] = s /\ life'[i] = "built"
  BY DEF Lives
<1>11. /\ \A i \in Instances : life'[i] = "built" => Contains(stack'[Home[i]], i)
       /\ \A i \in Instances : life'[i] # "unbuilt" => Home[i] \in opened'
  BY DEF Lives
<1> QED BY <1>3, <1>4, <1>5, <1>6, <1>7, <1>8, <1>9, <1>10, <1>11 DEF Lives, Once

(* What a scope builds is last on its stack, above what it was built on.   *)
LEMMA LivesKeptByBuilds ==
  ASSUME DownShape, Tree, Lives, StandsOnBuilt, NEW i \in Instances, Builds(i)
  PROVE  Lives' /\ StandsOnBuilt'
<1>1. PICK s, now, new : s = Home[i] /\ now = stack[s] /\ new = Append(now, i)
  OBVIOUS
<1>2. /\ s \in opened \ emptied /\ s \in Scopes /\ life[i] = "unbuilt"
      /\ life' = [life EXCEPT ![i] = "built"] /\ stack' = [stack EXCEPT ![s] = new]
      /\ behind' = IF \E d \in Needs[i] : life[d] # "built" THEN behind \cup {i} ELSE behind
      /\ slipped' = IF LooksNoMore(s) THEN slipped \cup {i} ELSE slipped
      /\ closer' = closer /\ opened' = opened /\ emptied' = emptied
  BY <1>1 DEF Builds, DownShape
<1>3. /\ now \in Seq(Instances) /\ Once(now)
      /\ ~Contains(now, i)
  BY <1>1, <1>2 DEF DownShape, Lives
<1>4. /\ Once(new) /\ new \in Seq(Instances)
      /\ \A e : Contains(new, e) <=> Contains(now, e) \/ e = i
  BY <1>1, <1>3, OnceAppended, ContainsAppended
<1>5. /\ stack'[s] = new /\ \A t \in Scopes \ {s} : stack'[t] = stack[t]
      /\ life'[i] = "built" /\ \A j \in Instances \ {i} : life'[j] = life[j]
  BY <1>2 DEF DownShape
<1>6. \A c : OnItsOwn(c)' <=> OnItsOwn(c)
  BY <1>2 DEF OnItsOwn
<1>7. ASSUME NEW t \in Scopes
      PROVE  /\ Once(stack'[t])
             /\ \A j \in Instances : Contains(stack'[t], j) => Home[j] = t /\ life'[j] = "built"
  <2>1. CASE t = s
    BY <1>1, <1>2, <1>4, <1>5, <2>1 DEF Lives
  <2>2. CASE t # s
    BY <1>2, <1>5, <2>2 DEF Lives
  <2> QED BY <2>1, <2>2
<1>8. ASSUME NEW j \in Instances
      PROVE  /\ life'[j] = "built" => Contains(stack'[Home[j]], j)
             /\ life'[j] # "unbuilt" => Home[j] \in opened'
  <2>1. CASE j = i
    BY <1>1, <1>2, <1>4, <1>5, <2>1
  <2>2. CASE j # i
    <3>1. life'[j] = life[j] /\ Home[j] \in Scopes
      BY <1>5, <2>2, InstancesHaveHomes
    <3>2. Contains(stack[Home[j]], j) => Contains(stack'[Home[j]], j)
      BY <1>1, <1>4, <1>5, <3>1
    <3> QED BY <1>2, <3>1, <3>2 DEF Lives
  <2> QED BY <2>1, <2>2
<1>9. /\ \A x \in Closers : closer[x].at = "instance" =>
           closer[x].on \in Instances /\ Home[closer[x].on] = x[1] /\ life'[closer[x].on] = "closing"
      /\ \A j \in Instances : life'[j] = "closing" =>
           \E x \in Closers : x[1] = Home[j] /\ closer[x].at = "instance" /\ closer[x].on = j
      /\ \A j \in Instances : life'[j] \in {"closing", "closed"} =>
           \E x \in Closers : x[1] = Home[j] /\ closer[x].at \in Past
  BY <1>2, <1>5 DEF Lives
<1>10. ASSUME NEW j \in Instances, NEW x \in Closers, x[1] = Home[j], closer[x].at \in {"clears", "over"}
       PROVE  life'[j] \in {"unbuilt", "closed"} \/ j \in slipped' \/ OnItsOwn(Home[j])
  <2>1. CASE j = i
    <3>1. closer[x].at # "over"
      BY <1>1, <1>2, <1>10, <2>1 DEF Lives
    <3>2. x = <<s, "own">> \/ x = <<s, "above">>
      BY <1>1, <1>10, <2>1, CloserIsOneOfTwo DEF Asked
    <3>3. LooksNoMore(s)
      BY <1>10, <3>1, <3>2 DEF LooksNoMore
    <3> QED BY <1>2, <2>1, <3>3
  <2>2. CASE j # i
    <3>1. slipped \subseteq slipped' /\ life'[j] = life[j]
      BY <1>2, <1>5, <2>2
    <3> QED BY <1>10, <3>1 DEF Lives
  <2> QED BY <2>1, <2>2
<1>11. Lives'
  <2>1. /\ \A x, y \in Closers :
             closer[x].at = "instance" /\ closer[y].at = "instance" /\ closer[x].on = closer[y].on => x = y
        /\ \A x \in Closers : closer[x].at = "over" => x[1] \in emptied
    BY DEF Lives
  <2> QED BY <1>2, <1>6, <1>7, <1>8, <1>9, <1>10, <2>1 DEF Lives, Once
<1>12. ASSUME NEW t \in Scopes, NEW n \in 1 .. Len(stack'[t]), NEW d \in Needs[stack'[t][n]],
              Home[d] = t, stack'[t][n] \notin behind'
       PROVE  \E m \in 1 .. n - 1 : stack'[t][m] = d
  <2>1. behind \subseteq behind'
    BY <1>2
  <2>2. CASE t # s
    BY <1>5, <1>12, <2>1, <2>2 DEF StandsOnBuilt
  <2>3. CASE t = s
    <3>1. Len(now) \in Nat /\ Len(new) = Len(now) + 1 /\ new[Len(new)] = i
          /\ \A m \in 1 .. Len(now) : new[m] = now[m]
      BY <1>1, <1>3
    <3>2. CASE n = Len(new)
      <4>1. new[n] = i /\ d \in Needs[i] /\ i \notin behind' /\ i \in Instances
        BY <1>5, <1>12, <2>3, <3>1, <3>2
      <4>2. life[d] = "built"
        BY <1>2, <4>1
      <4>3. d \in Instances
        BY <4>1, InstancesHaveHomes
      <4>4. Contains(now, d)
        BY <1>1, <1>12, <2>3, <4>2, <4>3 DEF Lives
      <4>5. PICK m \in 1 .. Len(now) : now[m] = d
        BY <4>4 DEF Contains
      <4>6. m \in 1 .. n - 1 /\ new[m] = d
        BY <3>1, <3>2, <4>5
      <4> QED BY <1>5, <2>3, <4>6
    <3>3. CASE n # Len(new)
      <4>1. n \in 1 .. Len(now) /\ new[n] = now[n]
        BY <1>5, <1>12, <2>3, <3>1, <3>3
      <4>2. PICK m \in 1 .. n - 1 : now[m] = d
        <5>1. now[n] = stack'[t][n] /\ d \in Needs[now[n]] /\ now[n] \notin behind
          BY <1>5, <1>12, <2>1, <2>3, <4>1
        <5>2. stack[s][n] = now[n] /\ n \in 1 .. Len(stack[s]) /\ Home[d] = s
          BY <1>1, <1>12, <2>3, <4>1
        <5>3. \E m \in 1 .. n - 1 : stack[s][m] = d
          BY <1>2, <5>1, <5>2 DEF StandsOnBuilt
        <5> QED BY <1>1, <5>3
      <4>3. m \in 1 .. Len(now)
        BY <3>1, <4>1, <4>2
      <4> QED BY <1>5, <2>3, <3>1, <4>2, <4>3
    <3> QED BY <3>2, <3>3
  <2> QED BY <2>2, <2>3
<1>13. \A j \in Instances : \A d \in Needs[j] :
         life'[j] = "closing" /\ j \notin behind' /\ ~OnItsOwn(Home[j]) /\ Home[d] = Home[j] =>
           life'[d] = "built"
  <2>1. behind \subseteq behind'
    BY <1>2
  <2>2. \A j \in Instances : Needs[j] \subseteq Instances
    BY InstancesHaveHomes
  <2> QED BY <1>5, <2>1, <2>2 DEF StandsOnBuilt
<1> QED BY <1>6, <1>11, <1>12, <1>13 DEF StandsOnBuilt

(* A scope takes the last thing it built off its stack and closes it. *)
Pops(x) ==
  /\ closer[x].at = "built" /\ stack[x[1]] # << >>
  /\ Does(x, "instance", Last(stack[x[1]]))
  /\ stack' = [stack EXCEPT ![x[1]] = Front(@)]
  /\ life' = [life EXCEPT ![Last(stack[x[1]])] = "closing"]
  /\ UNCHANGED <<level, risen, told, refusals, opened, children, emptied, behind, slipped>>

LEMMA PopFacts ==
  ASSUME DownShape, Tree, Lives, NEW x \in Closers, Pops(x)
  PROVE  \E i \in Instances :
           /\ Home[i] = x[1] /\ life[i] = "built" /\ i = stack[x[1]][Len(stack[x[1]])]
           /\ Len(stack[x[1]]) \in Nat \ {0}
           /\ closer'[x].at = "instance" /\ closer'[x].on = i
           /\ \A y \in Closers \ {x} : closer'[y] = closer[y]
           /\ closer' \in [Closers -> [at : Doing, on : Scopes \cup Instances]]
           /\ life'[i] = "closing" /\ \A j \in Instances \ {i} : life'[j] = life[j]
           /\ life' \in [Instances -> {"unbuilt", "built", "closing", "closed"}]
           /\ stack' \in [Scopes -> Seq(Instances)]
           /\ \A t \in Scopes \ {x[1]} : stack'[t] = stack[t]
           /\ Once(stack'[x[1]]) /\ Len(stack'[x[1]]) = Len(stack[x[1]]) - 1
           /\ \A n \in 1 .. Len(stack[x[1]]) - 1 : stack'[x[1]][n] = stack[x[1]][n]
           /\ \A e : Contains(stack'[x[1]], e) <=> Contains(stack[x[1]], e) /\ e # i
<1>1. PICK s, now, rest : s = x[1] /\ now = stack[s] /\ rest = Front(now)
  OBVIOUS
<1>2. s \in Scopes /\ now \in Seq(Instances) /\ now # << >> /\ Once(now)
  BY <1>1, ClosersAre DEF DownShape, Lives, Pops
<1>3. /\ rest \in Seq(Instances) /\ Once(rest) /\ Len(rest) = Len(now) - 1
      /\ \A n \in 1 .. Len(now) - 1 : rest[n] = now[n]
      /\ Last(now) \in Instances /\ Contains(now, Last(now))
      /\ \A e : Contains(rest, e) <=> Contains(now, e) /\ e # Last(now)
  BY <1>1, <1>2, FrontHolds
<1>4. PICK i \in Instances : i = Last(now) /\ Contains(now, i) /\ i = now[Len(now)]
  BY <1>3 DEF Last
<1>5. Home[i] = s /\ life[i] = "built"
  BY <1>1, <1>2, <1>4 DEF Lives
<1>6. /\ Does(x, "instance", i) /\ life' = [life EXCEPT ![i] = "closing"]
      /\ stack' = [stack EXCEPT ![s] = rest]
  BY <1>1, <1>4 DEF Pops
<1>7. /\ closer'[x].at = "instance" /\ closer'[x].on = i
      /\ \A y \in Closers \ {x} : closer'[y] = closer[y]
      /\ closer' \in [Closers -> [at : Doing, on : Scopes \cup Instances]]
  BY <1>6, CloserMoves DEF Doing
<1>8. /\ life'[i] = "closing" /\ \A j \in Instances \ {i} : life'[j] = life[j]
      /\ life' \in [Instances -> {"unbuilt", "built", "closing", "closed"}]
  BY <1>6 DEF DownShape
<1>9. /\ stack'[s] = rest /\ \A t \in Scopes \ {s} : stack'[t] = stack[t]
      /\ stack' \in [Scopes -> Seq(Instances)]
  BY <1>2, <1>3, <1>6 DEF DownShape
<1>10. Len(now) \in Nat \ {0}
  BY <1>2
<1> QED BY <1>1, <1>3, <1>4, <1>5, <1>7, <1>8, <1>9, <1>10

LEMMA LivesKeptByPops ==
  ASSUME DownShape, Tree, Lives, StandsOnBuilt, NEW x \in Closers, Pops(x)
  PROVE  Lives' /\ StandsOnBuilt'
<1> DEFINE s == x[1]
<1>1. PICK i \in Instances :
        /\ Home[i] = s /\ life[i] = "built" /\ i = stack[s][Len(stack[s])]
        /\ Len(stack[s]) \in Nat \ {0}
        /\ closer'[x].at = "instance" /\ closer'[x].on = i
        /\ \A y \in Closers \ {x} : closer'[y] = closer[y]
        /\ life'[i] = "closing" /\ \A j \in Instances \ {i} : life'[j] = life[j]
        /\ \A t \in Scopes \ {s} : stack'[t] = stack[t]
        /\ Once(stack'[s]) /\ Len(stack'[s]) = Len(stack[s]) - 1
        /\ \A n \in 1 .. Len(stack[s]) - 1 : stack'[s][n] = stack[s][n]
        /\ \A e : Contains(stack'[s], e) <=> Contains(stack[s], e) /\ e # i
  BY PopFacts
<1>2. /\ closer[x].at = "built" /\ s \in Scopes
      /\ UNCHANGED <<opened, emptied, behind, slipped>>
  BY ClosersAre DEF Pops
<1> HIDE DEF s
<1>3. \A c \in Scopes : OnItsOwn(c) => OnItsOwn(c)'
  BY <1>1, <1>2, ClosersAre DEF OnItsOwn
<1>4. ASSUME NEW t \in Scopes
      PROVE  /\ Once(stack'[t])
             /\ \A j \in Instances : Contains(stack'[t], j) => Home[j] = t /\ life'[j] = "built"
  <2>1. CASE t = s
    BY <1>1, <2>1 DEF Lives
  <2>2. CASE t # s
    <3>1. stack'[t] = stack[t] /\ Once(stack[t])
      BY <1>1, <2>2 DEF Lives
    <3>2. \A j \in Instances : Contains(stack[t], j) => Home[j] = t /\ life[j] = "built" /\ j # i
      BY <1>1, <2>2 DEF Lives
    <3> QED BY <1>1, <3>1, <3>2 DEF Once
  <2> QED BY <2>1, <2>2
<1>5. ASSUME NEW j \in Instances
      PROVE  /\ life'[j] = "built" => Contains(stack'[Home[j]], j)
             /\ life'[j] # "unbuilt" => Home[j] \in opened'
  <2>1. Home[j] \in Scopes
    BY InstancesHaveHomes
  <2>2. CASE j = i
    BY <1>1, <1>2, <2>2 DEF Lives
  <2>3. CASE j # i
    BY <1>1, <1>2, <2>1, <2>3 DEF Lives
  <2> QED BY <2>2, <2>3
<1>6. \A y \in Closers \ {x} : closer[y].at = "instance" => closer[y].on # i
  BY <1>1 DEF Lives
<1>7. /\ \A y \in Closers : closer'[y].at = "instance" =>
           closer'[y].on \in Instances /\ Home[closer'[y].on] = y[1] /\ life'[closer'[y].on] = "closing"
      /\ \A y, z \in Closers :
           closer'[y].at = "instance" /\ closer'[z].at = "instance" /\ closer'[y].on = closer'[z].on => y = z
  <2>1. x[1] = s
    BY DEF s
  <2> QED BY <1>1, <1>6, <2>1 DEF Lives
<1>8. ASSUME NEW j \in Instances
      PROVE  /\ life'[j] = "closing" =>
                  \E y \in Closers : y[1] = Home[j] /\ closer'[y].at = "instance" /\ closer'[y].on = j
             /\ life'[j] \in {"closing", "closed"} =>
                  \E y \in Closers : y[1] = Home[j] /\ closer'[y].at \in Past
  <2>1. CASE j = i
    BY <1>1, <2>1 DEF s, Past
  <2>2. CASE j # i
    <3>1. \A y \in Closers : /\ closer[y].at = "instance" => closer'[y] = closer[y]
                             /\ closer[y].at \in Past => closer'[y].at \in Past
      BY <1>1, <1>2 DEF Past
    <3> QED BY <1>1, <2>2, <3>1 DEF Lives
  <2> QED BY <2>1, <2>2
<1>9. \A y \in Closers : closer'[y].at = "over" => y[1] \in emptied'
  BY <1>1, <1>2 DEF Lives
<1>10. ASSUME NEW j \in Instances, NEW y \in Closers, y[1] = Home[j], closer'[y].at \in {"clears", "over"}
       PROVE  life'[j] \in {"unbuilt", "closed"} \/ j \in slipped' \/ OnItsOwn(Home[j])'
  <2>1. y # x /\ closer'[y] = closer[y] /\ Home[j] \in Scopes
    BY <1>1, <1>10, InstancesHaveHomes
  <2>2. life[j] \in {"unbuilt", "closed"} \/ j \in slipped \/ OnItsOwn(Home[j])
    BY <1>10, <2>1 DEF Lives
  <2> QED BY <1>1, <1>2, <1>3, <2>1, <2>2
<1>11. Lives'
  BY <1>4, <1>5, <1>7, <1>8, <1>9, <1>10 DEF Lives, Once
<1>12. ASSUME NEW t \in Scopes, NEW n \in 1 .. Len(stack'[t]), NEW d \in Needs[stack'[t][n]],
              Home[d] = t, stack'[t][n] \notin behind'
       PROVE  \E m \in 1 .. n - 1 : stack'[t][m] = d
  <2>1. CASE t # s
    <3>1. stack'[t] = stack[t]
      BY <1>1, <2>1
    <3> QED BY <1>2, <1>12, <3>1 DEF StandsOnBuilt
  <2>2. CASE t = s
    <3>1. n \in 1 .. Len(stack[s]) - 1 /\ n \in 1 .. Len(stack[s]) /\ stack'[s][n] = stack[s][n]
      BY <1>1, <1>12, <2>2
    <3>2. \E m \in 1 .. n - 1 : stack[s][m] = d
      BY <1>2, <1>12, <2>2, <3>1 DEF StandsOnBuilt
    <3> QED BY <1>1, <2>2, <3>1, <3>2
  <2> QED BY <2>1, <2>2
<1>13. ASSUME NEW j \in Instances, NEW d \in Needs[j],
              life'[j] = "closing", j \notin behind', ~OnItsOwn(Home[j])', Home[d] = Home[j]
       PROVE  life'[d] = "built"
  <2>1. d \in Instances /\ Home[j] \in Scopes
    BY InstancesHaveHomes
  <2>2. CASE j = i
    <3>1. \E m \in 1 .. Len(stack[s]) - 1 : stack[s][m] = d
      BY <1>1, <1>2, <1>13, <2>2 DEF StandsOnBuilt
    <3>2. Contains(stack'[s], d)
      BY <1>1, <3>1 DEF Contains
    <3> QED BY <1>4, <1>2, <2>1, <3>2
  <2>3. CASE j # i
    <3>1. life[j] = "closing" /\ ~OnItsOwn(Home[j])
      BY <1>1, <1>3, <1>13, <2>1, <2>3
    <3>2. life[d] = "built"
      BY <1>2, <1>13, <3>1 DEF StandsOnBuilt
    <3>3. d # i
      <4> SUFFICES ASSUME d = i PROVE FALSE
        OBVIOUS
      <4>1. PICK y \in Closers : y[1] = Home[j] /\ closer[y].at = "instance"
        BY <3>1 DEF Lives
      <4>2. y # x /\ y[1] = x[1]
        BY <1>1, <1>2, <1>13, <4>1 DEF s
      <4>3. OnItsOwn(x[1])
        BY <1>2, <4>1, <4>2, TwoAreOnItsOwn
      <4> QED BY <3>1, <4>1, <4>2, <4>3
    <3> QED BY <1>1, <2>1, <3>2, <3>3
  <2> QED BY <2>2, <2>3
<1>14. StandsOnBuilt'
  <2>1. \A t \in Scopes : \A n \in 1 .. Len(stack'[t]) : \A d \in Needs[stack'[t][n]] :
          Home[d] = t /\ stack'[t][n] \notin behind' => \E m \in 1 .. n - 1 : stack'[t][m] = d
    BY <1>12
  <2>2. \A j \in Instances : \A d \in Needs[j] :
          life'[j] = "closing" /\ j \notin behind' /\ ~OnItsOwn(Home[j])' /\ Home[d] = Home[j] =>
            life'[d] = "built"
    BY <1>13
  <2> QED BY <2>1, <2>2 DEF StandsOnBuilt
<1> QED BY <1>11, <1>14

(* What was told to close answered, and is closed. *)
LEMMA LivesKeptByIsClosed ==
  ASSUME DownShape, Tree, Lives, StandsOnBuilt, NEW x \in Closers, IsClosed(x)
  PROVE  Lives' /\ StandsOnBuilt'
<1>1. PICK i : i = closer[x].on
  OBVIOUS
<1>2. /\ closer[x].at = "instance" /\ i \in Instances /\ Home[i] = x[1] /\ life[i] = "closing"
      /\ life' = [life EXCEPT ![i] = "closed"] /\ Does(x, "built", x[1])
      /\ UNCHANGED <<opened, stack, emptied, behind, slipped>>
  BY <1>1 DEF IsClosed, Lives
<1>3. closer'[x].at = "built" /\ \A y \in Closers \ {x} : closer'[y] = closer[y]
  BY <1>2, CloserMoves, ClosersAre DEF Doing
<1>4. life'[i] = "closed" /\ \A j \in Instances \ {i} : life'[j] = life[j]
  BY <1>2 DEF DownShape
<1>5. \A c \in Scopes : OnItsOwn(c) => OnItsOwn(c)'
  BY <1>2, <1>3, ClosersAre DEF OnItsOwn
<1>6. \A y \in Closers \ {x} : closer[y].at = "instance" => closer[y].on # i
  BY <1>1, <1>2 DEF Lives
<1>7. \A y \in Closers : closer[y].at \in Past => closer'[y].at \in Past
  BY <1>3 DEF Past
<1>8. ASSUME NEW t \in Scopes
      PROVE  /\ Once(stack'[t])
             /\ \A j \in Instances : Contains(stack'[t], j) => Home[j] = t /\ life'[j] = "built"
  BY <1>2, <1>4 DEF Lives, Once
<1>9. ASSUME NEW j \in Instances
      PROVE  /\ life'[j] = "built" => Contains(stack'[Home[j]], j)
             /\ life'[j] # "unbuilt" => Home[j] \in opened'
  BY <1>2, <1>4 DEF Lives
<1>10. /\ \A y \in Closers : closer'[y].at = "instance" =>
            closer'[y].on \in Instances /\ Home[closer'[y].on] = y[1] /\ life'[closer'[y].on] = "closing"
       /\ \A y, z \in Closers :
            closer'[y].at = "instance" /\ closer'[z].at = "instance" /\ closer'[y].on = closer'[z].on => y = z
  BY <1>3, <1>4, <1>6 DEF Lives
<1>11. ASSUME NEW j \in Instances, life'[j] = "closing"
       PROVE  \E y \in Closers : y[1] = Home[j] /\ closer'[y].at = "instance" /\ closer'[y].on = j
  <2>1. j # i /\ life[j] = "closing"
    BY <1>4, <1>11
  <2>2. PICK y \in Closers : y[1] = Home[j] /\ closer[y].at = "instance" /\ closer[y].on = j
    BY <2>1 DEF Lives
  <2>3. y # x
    BY <1>1, <2>1, <2>2
  <2> QED BY <1>3, <2>2, <2>3
<1>12. ASSUME NEW j \in Instances, life'[j] \in {"closing", "closed"}
       PROVE  \E y \in Closers : y[1] = Home[j] /\ closer'[y].at \in Past
  <2>1. life[j] \in {"closing", "closed"}
    BY <1>2, <1>4, <1>12
  <2> QED BY <1>7, <2>1 DEF Lives
<1>13. \A y \in Closers : closer'[y].at = "over" => y[1] \in emptied'
  BY <1>2, <1>3 DEF Lives
<1>14. ASSUME NEW j \in Instances, NEW y \in Closers, y[1] = Home[j], closer'[y].at \in {"clears", "over"}
       PROVE  life'[j] \in {"unbuilt", "closed"} \/ j \in slipped' \/ OnItsOwn(Home[j])'
  <2>1. y # x /\ closer'[y] = closer[y] /\ Home[j] \in Scopes
    BY <1>3, <1>14, InstancesHaveHomes
  <2>2. life[j] \in {"unbuilt", "closed"} \/ j \in slipped \/ OnItsOwn(Home[j])
    BY <1>14, <2>1 DEF Lives
  <2> QED BY <1>2, <1>4, <1>5, <2>1, <2>2
<1>15. Lives'
  BY <1>8, <1>9, <1>10, <1>11, <1>12, <1>13, <1>14 DEF Lives
<1>16. \A j \in Instances : Needs[j] \subseteq Instances /\ Home[j] \in Scopes
  BY InstancesHaveHomes
<1>17. \A t \in Scopes : \A n \in 1 .. Len(stack'[t]) : \A d \in Needs[stack'[t][n]] :
         Home[d] = t /\ stack'[t][n] \notin behind' => \E m \in 1 .. n - 1 : stack'[t][m] = d
  BY <1>2 DEF StandsOnBuilt
<1>18. \A j \in Instances : \A d \in Needs[j] :
         life'[j] = "closing" /\ j \notin behind' /\ ~OnItsOwn(Home[j])' /\ Home[d] = Home[j] =>
           life'[d] = "built"
  <2> SUFFICES ASSUME NEW j \in Instances, NEW d \in Needs[j], life'[j] = "closing",
                      j \notin behind, ~OnItsOwn(Home[j])', Home[d] = Home[j]
               PROVE  life'[d] = "built"
    BY <1>2
  <2>1. life[j] = "closing" /\ ~OnItsOwn(Home[j]) /\ d \in Instances
    BY <1>4, <1>5, <1>16
  <2>2. life[d] = "built"
    BY <2>1 DEF StandsOnBuilt
  <2> QED BY <1>2, <1>4, <2>1, <2>2
<1> QED BY <1>15, <1>17, <1>18 DEF StandsOnBuilt

(* The registrations go. *)
LEMMA LivesKeptByClears ==
  ASSUME DownShape, Tree, Lives, StandsOnBuilt, NEW x \in Closers, Clears(x)
  PROVE  Lives' /\ StandsOnBuilt'
<1>1. /\ closer[x].at = "clears" /\ Does(x, "over", x[1]) /\ emptied' = emptied \cup {x[1]}
      /\ UNCHANGED <<opened, stack, life, behind, slipped>>
  BY DEF Clears
<1>2. closer'[x].at = "over" /\ \A y \in Closers \ {x} : closer'[y] = closer[y]
  BY <1>1, CloserMoves, ClosersAre DEF Doing
<1>3. \A c \in Scopes : OnItsOwn(c) => OnItsOwn(c)'
  BY <1>1, <1>2, ClosersAre DEF OnItsOwn
<1>4. /\ \A y \in Closers : closer[y].at = "instance" => closer'[y] = closer[y]
      /\ \A y \in Closers : closer'[y].at = "instance" => closer'[y] = closer[y]
      /\ \A y \in Closers : closer[y].at \in Past => closer'[y].at \in Past
      /\ \A y \in Closers : closer'[y].at \in {"clears", "over"} => closer[y].at \in {"clears", "over"}
  BY <1>1, <1>2 DEF Past
<1>5. \A i \in Instances : Home[i] \in Scopes
  BY InstancesHaveHomes
<1>6. StandsOnBuilt'
  BY <1>1, <1>3, <1>5 DEF StandsOnBuilt
<1>7. \A s \in Scopes :
        /\ Once(stack'[s])
        /\ \A i \in Instances : Contains(stack'[s], i) => Home[i] = s /\ life'[i] = "built"
  BY <1>1 DEF Lives, Once
<1>8. /\ \A i \in Instances : life'[i] = "built" => Contains(stack'[Home[i]], i)
      /\ \A i \in Instances : life'[i] # "unbuilt" => Home[i] \in opened'
  BY <1>1 DEF Lives
<1>9. /\ \A y \in Closers : closer'[y].at = "instance" =>
           closer'[y].on \in Instances /\ Home[closer'[y].on] = y[1] /\ life'[closer'[y].on] = "closing"
      /\ \A y, z \in Closers :
           closer'[y].at = "instance" /\ closer'[z].at = "instance" /\ closer'[y].on = closer'[z].on => y = z
  BY <1>1, <1>4 DEF Lives
<1>10. \A i \in Instances : life'[i] = "closing" =>
         \E y \in Closers : y[1] = Home[i] /\ closer'[y].at = "instance" /\ closer'[y].on = i
  BY <1>1, <1>4 DEF Lives
<1>11. \A i \in Instances : life'[i] \in {"closing", "closed"} =>
         \E y \in Closers : y[1] = Home[i] /\ closer'[y].at \in Past
  BY <1>1, <1>4 DEF Lives
<1>12. \A y \in Closers : closer'[y].at = "over" => y[1] \in emptied'
  BY <1>1, <1>2 DEF Lives
<1>13. \A i \in Instances : \A y \in Closers : y[1] = Home[i] /\ closer'[y].at \in {"clears", "over"} =>
         life'[i] \in {"unbuilt", "closed"} \/ i \in slipped' \/ OnItsOwn(Home[i])'
  BY <1>1, <1>3, <1>4, <1>5 DEF Lives
<1> QED BY <1>6, <1>7, <1>8, <1>9, <1>10, <1>11, <1>12, <1>13 DEF Lives

(* A closer goes on, or starts for a frame or below one that goes on: what *)
(* closes is still closed after every extension was told.                  *)
LEMMA AscentKeptByClosers ==
  ASSUME DownShape, Ascent,
         \A x \in Closers : closer'[x].at # "nothing" /\ x[1] \notin FrameScopes =>
           level \in {"container", "over"},
         closer[Main(Root)].at = "over" => closer'[Main(Root)].at = "over",
         UNCHANGED <<level, risen, told>>
  PROVE  Ascent'
  BY DEF Ascent

LEMMA DownKeptByOpens ==
  ASSUME DownInv, NEW s \in Scopes, OpensScope(s)
  PROVE  DownInv'
<1> USE DEF DownInv
<1>1. Tree'
  BY TreeKeptByOpens
<1>2. /\ opened' = opened \cup {s} /\ Above[s] \in Scopes
      /\ children' = [children EXCEPT ![Above[s]] = Append(@, s)]
      /\ UNCHANGED <<level, risen, told, refusals, stack, emptied, life, closer, behind, slipped>>
  BY TheTree DEF OpensScope, Listed, DownShape
<1>3. children' \in [Scopes -> Seq(Scopes)]
  BY <1>2 DEF DownShape
<1>4. DownShape' /\ Ascent'
  BY <1>2, <1>3 DEF DownShape, Ascent
<1>5. Lives' /\ StandsOnBuilt'
  BY <1>2 DEF Lives, StandsOnBuilt, OnItsOwn, Once
<1> QED BY <1>1, <1>4, <1>5

LEMMA DownKeptByBuilds ==
  ASSUME DownInv, NEW i \in Instances, Builds(i)
  PROVE  DownInv'
<1> USE DEF DownInv
<1>1. Lives' /\ StandsOnBuilt'
  BY LivesKeptByBuilds
<1>2. /\ Home[i] \in Scopes
      /\ life' = [life EXCEPT ![i] = "built"] /\ stack' = [stack EXCEPT ![Home[i]] = Append(@, i)]
      /\ UNCHANGED <<level, risen, told, refusals, opened, children, emptied, closer>>
  BY InstancesHaveHomes DEF Builds
<1>3. stack' \in [Scopes -> Seq(Instances)] /\ life' \in [Instances -> {"unbuilt", "built", "closing", "closed"}]
  BY <1>2 DEF DownShape
<1>4. DownShape' /\ Ascent' /\ Tree'
  <2>1. DownShape'
    BY <1>2, <1>3 DEF DownShape
  <2>2. Ascent'
    BY <1>2 DEF Ascent
  <2>3. Tree'
    BY <1>2 DEF Tree, OnItsOwn, Once
  <2> QED BY <2>1, <2>2, <2>3
<1> QED BY <1>1, <1>4

LEMMA DownKeptByFrameEnds ==
  ASSUME DownInv, NEW f \in FrameScopes, FrameEnds(f)
  PROVE  DownInv'
<1> USE DEF DownInv
<1> DEFINE own == <<f, "own">>
<1>1. /\ f \in Scopes \ {Root} /\ closer[own].at = "nothing" /\ children' = Without(f)
      /\ Does(own, "children", f) /\ own \in Closers /\ own[1] = f
      /\ UNCHANGED <<level, risen, told, refusals, opened, stack, emptied, life, behind, slipped>>
  BY TheTree, ClosersAre DEF FrameEnds, DownShape
<1>2. /\ closer' \in [Closers -> [at : Doing, on : Scopes \cup Instances]]
      /\ closer'[own].at = "children"
      /\ \A y \in Closers \ {own} : closer'[y] = closer[y]
  BY <1>1, CloserMoves DEF Doing
<1>3. Tree'
  BY TreeKeptByFrameEnds
<1>4. children' \in [Scopes -> Seq(Scopes)]
  BY <1>1, WithoutHolds
<1> HIDE DEF own
<1>5. DownShape'
  BY <1>1, <1>2, <1>4 DEF DownShape
<1>6. Lives' /\ StandsOnBuilt'
  BY <1>1, <1>2, LivesKeptByClosers DEF Past
<1>7. Ascent'
  <2>1. \A x \in Closers : closer'[x].at # "nothing" /\ x[1] \notin FrameScopes =>
          level \in {"container", "over"}
    BY <1>1, <1>2 DEF Ascent
  <2>2. closer'[Main(Root)] = closer[Main(Root)]
    BY <1>2, ClosersAre, OwnIsNoMain, TheTree DEF own
  <2> QED BY <1>1, <2>1, <2>2, AscentKeptByClosers
<1> QED BY <1>3, <1>5, <1>6, <1>7

LEMMA DownKeptByAsks ==
  ASSUME DownInv, NEW x \in Closers, AsksChild(x)
  PROVE  DownInv'
<1> USE DEF DownInv
<1>1. PICK c \in opened \ {Root} :
        /\ c \in Scopes /\ x = Main(x[1]) /\ x[1] \notin FrameScopes
        /\ closer[x].at = "children" /\ Asked(c) # x
        /\ \A y \in Closers : y[1] = c => closer[y].at = "nothing"
        /\ closer'[x].at = "child"
        /\ closer'[Asked(c)].at = "children"
        /\ \A y \in Closers \ {x, Asked(c)} : closer'[y] = closer[y]
        /\ closer' \in [Closers -> [at : Doing, on : Scopes \cup Instances]]
        /\ children' = Without(c)
  BY AsksFacts
<1>2. UNCHANGED <<level, risen, told, refusals, opened, stack, emptied, life, behind, slipped>>
  BY DEF AsksChild
<1>3. Asked(c) \in Closers /\ Asked(c)[1] = c /\ closer[Asked(c)].at = "nothing"
  BY <1>1, ClosersAre
<1>4. Tree'
  BY TreeKeptByAsks
<1>5. children' \in [Scopes -> Seq(Scopes)]
  BY <1>1, WithoutHolds
<1>6. DownShape'
  BY <1>1, <1>2, <1>5 DEF DownShape
<1>7. Lives' /\ StandsOnBuilt'
  BY <1>1, <1>2, <1>3, LivesKeptByClosers DEF Past
<1>8. Ascent'
  <2>1. level \in {"container", "over"}
    BY <1>1 DEF Ascent
  <2>2. closer[Main(Root)].at = "over" => closer'[Main(Root)].at = "over"
    BY <1>1, <1>3, ClosersAre, TheTree
  <2> QED BY <1>2, <2>1, <2>2, AscentKeptByClosers
<1> QED BY <1>4, <1>6, <1>7, <1>8

LEMMA DownKeptByRootCloses ==
  ASSUME DownInv, RootCloses
  PROVE  DownInv'
<1> USE DEF DownInv
<1>1. /\ Main(Root) \in Closers
      /\ level = "container" /\ closer[Main(Root)].at = "nothing"
      /\ closer'[Main(Root)].at = "children"
      /\ \A y \in Closers \ {Main(Root)} : closer'[y] = closer[y]
      /\ closer' \in [Closers -> [at : Doing, on : Scopes \cup Instances]]
  BY RootClosesFacts
<1>2. UNCHANGED <<level, risen, told, refusals, opened, children, stack, emptied, life, behind, slipped>>
  BY DEF RootCloses
<1>3. Tree'
  BY TreeKeptByRootCloses
<1>4. DownShape'
  BY <1>1, <1>2 DEF DownShape
<1>5. Lives' /\ StandsOnBuilt'
  BY <1>1, <1>2, LivesKeptByClosers DEF Past
<1>6. Ascent'
  BY <1>1, <1>2, AscentKeptByClosers
<1> QED BY <1>3, <1>4, <1>5, <1>6

(* A closer under way goes on: what a step of it is, and what it needs.    *)
LEMMA DownKeptByAMove ==
  ASSUME DownInv, NEW x \in Closers, NEW STATE doing, doing \in Doing \ {"nothing"},
         NEW STATE thing, thing \in Scopes \cup Instances, Does(x, doing, thing),
         UNCHANGED <<level, risen, told, refusals, opened, children>>,
         closer[x].at \notin {"nothing", "over"},
         closer[x].at = "child" => closer[Asked(closer[x].on)].at = "over",
         doing \in Past => closer[x].at \in Past \/ children[x[1]] = << >>,
         Lives' /\ StandsOnBuilt',
         emptied' \subseteq opened, stack' \in [Scopes -> Seq(Instances)],
         life' \in [Instances -> {"unbuilt", "built", "closing", "closed"}]
  PROVE  DownInv'
<1> USE DEF DownInv
<1>1. Tree'
  BY TreeKeptByAMove
<1>2. /\ closer' \in [Closers -> [at : Doing, on : Scopes \cup Instances]]
      /\ closer'[x].at = doing
      /\ \A y \in Closers \ {x} : closer'[y] = closer[y]
  BY CloserMoves
<1>3. DownShape'
  BY <1>2 DEF DownShape
<1>4. Ascent'
  <2>1. \A y \in Closers : closer'[y].at # "nothing" /\ y[1] \notin FrameScopes =>
          level \in {"container", "over"}
    BY <1>2 DEF Ascent
  <2>2. closer[Main(Root)].at = "over" => closer'[Main(Root)].at = "over"
    BY <1>2, ClosersAre, TheTree
  <2> QED BY <2>1, <2>2, AscentKeptByClosers
<1> QED BY <1>1, <1>3, <1>4

LEMMA DownKeptByGoesOn ==
  ASSUME DownInv, NEW x \in Closers, CloserGoesOn(x)
  PROVE  DownInv'
<1>1. CASE AsksChild(x)
  BY <1>1, DownKeptByAsks
<1>2. CASE ChildIsClosed(x)
  <2>1. /\ closer[x].at = "child" /\ closer[Asked(closer[x].on)].at = "over"
        /\ Does(x, "children", x[1]) /\ x[1] \in Scopes
        /\ UNCHANGED <<level, risen, told, refusals, opened, children, stack, emptied, life, behind, slipped>>
    BY <1>2, ClosersAre DEF ChildIsClosed, Asked
  <2>2. closer'[x].at = "children" /\ \A y \in Closers \ {x} : closer'[y] = closer[y]
    BY <2>1, CloserMoves DEF DownInv, Doing
  <2>3. Lives' /\ StandsOnBuilt'
    BY <2>1, <2>2, LivesKeptByClosers DEF DownInv, Past
  <2>4. /\ emptied' \subseteq opened /\ stack' \in [Scopes -> Seq(Instances)]
        /\ life' \in [Instances -> {"unbuilt", "built", "closing", "closed"}]
    BY <2>1 DEF DownInv, DownShape
  <2> QED BY <2>1, <2>3, <2>4, DownKeptByAMove DEF Doing, Past
<1>3. CASE ClosesNext(x)
  <2>1. x[1] \in Scopes
    BY ClosersAre
  <2>2. CASE closer[x].at = "children"
    <3>1. /\ children[x[1]] = << >> /\ Does(x, "built", x[1])
          /\ UNCHANGED <<level, risen, told, refusals, opened, children, stack, emptied, life, behind, slipped>>
      BY <1>3, <2>2 DEF ClosesNext
    <3>2. closer'[x].at = "built" /\ \A y \in Closers \ {x} : closer'[y] = closer[y]
      BY <2>1, <3>1, CloserMoves DEF DownInv, Doing
    <3>3. Lives' /\ StandsOnBuilt'
      BY <2>2, <3>1, <3>2, LivesKeptByClosers DEF DownInv, Past
    <3>4. /\ emptied' \subseteq opened /\ stack' \in [Scopes -> Seq(Instances)]
          /\ life' \in [Instances -> {"unbuilt", "built", "closing", "closed"}]
      BY <3>1 DEF DownInv, DownShape
    <3> QED BY <2>1, <2>2, <3>1, <3>3, <3>4, DownKeptByAMove DEF Doing
  <2>3. CASE closer[x].at = "built" /\ stack[x[1]] = << >>
    <3>1. /\ Does(x, "clears", x[1])
          /\ UNCHANGED <<level, risen, told, refusals, opened, children, stack, emptied, life, behind, slipped>>
      BY <1>3, <2>3 DEF ClosesNext, NewestLast
    <3>2. closer'[x].at = "clears" /\ \A y \in Closers \ {x} : closer'[y] = closer[y]
      BY <2>1, <3>1, CloserMoves DEF DownInv, Doing
    <3>3. Lives' /\ StandsOnBuilt'
      BY <2>3, <3>1, <3>2, LivesKeptByClosers DEF DownInv, Past
    <3>4. /\ emptied' \subseteq opened /\ stack' \in [Scopes -> Seq(Instances)]
          /\ life' \in [Instances -> {"unbuilt", "built", "closing", "closed"}]
      BY <3>1 DEF DownInv, DownShape
    <3> QED BY <2>1, <2>3, <3>1, <3>3, <3>4, DownKeptByAMove DEF Doing, Past
  <2>4. CASE closer[x].at = "built" /\ stack[x[1]] # << >>
    <3>1. Pops(x)
      BY <1>3, <2>4 DEF ClosesNext, NewestLast, Pops
    <3>2. Lives' /\ StandsOnBuilt'
      BY <3>1, LivesKeptByPops DEF DownInv
    <3>3. PICK i \in Instances :
            /\ closer'[x].at = "instance" /\ closer'[x].on = i
            /\ life' \in [Instances -> {"unbuilt", "built", "closing", "closed"}]
            /\ stack' \in [Scopes -> Seq(Instances)]
      BY <3>1, PopFacts DEF DownInv
    <3>4. Does(x, "instance", i)
      <4>1. closer' = [closer EXCEPT ![x] = [at |-> "instance", on |-> Last(stack[x[1]])]]
        BY <3>1 DEF Pops, Does
      <4>2. closer'[x].on = Last(stack[x[1]])
        BY <4>1 DEF DownInv, DownShape
      <4> QED BY <3>3, <4>1, <4>2 DEF Does
    <3>5. /\ UNCHANGED <<level, risen, told, refusals, opened, children>>
          /\ emptied' \subseteq opened
      BY <3>1 DEF Pops, DownInv, DownShape
    <3> QED BY <2>4, <3>2, <3>3, <3>4, <3>5, DownKeptByAMove DEF Doing, Past
  <2> QED BY <1>3, <2>2, <2>3, <2>4 DEF ClosesNext
<1>4. CASE IsClosed(x)
  <2>1. /\ closer[x].at = "instance" /\ Does(x, "built", x[1]) /\ x[1] \in Scopes
        /\ life' = [life EXCEPT ![closer[x].on] = "closed"]
        /\ UNCHANGED <<level, risen, told, refusals, opened, children, stack, emptied, behind, slipped>>
    BY <1>4, ClosersAre DEF IsClosed
  <2>2. Lives' /\ StandsOnBuilt'
    BY <1>4, LivesKeptByIsClosed DEF DownInv
  <2>3. /\ emptied' \subseteq opened /\ stack' \in [Scopes -> Seq(Instances)]
        /\ life' \in [Instances -> {"unbuilt", "built", "closing", "closed"}]
    BY <2>1 DEF DownInv, DownShape
  <2> QED BY <2>1, <2>2, <2>3, DownKeptByAMove DEF Doing, Past
<1>5. CASE Clears(x)
  <2>1. /\ closer[x].at = "clears" /\ Does(x, "over", x[1]) /\ x[1] \in Scopes
        /\ emptied' = emptied \cup {x[1]}
        /\ UNCHANGED <<level, risen, told, refusals, opened, children, stack, life, behind, slipped>>
    BY <1>5, ClosersAre DEF Clears
  <2>2. Lives' /\ StandsOnBuilt'
    BY <1>5, LivesKeptByClears DEF DownInv
  <2>3. /\ emptied' \subseteq opened /\ stack' \in [Scopes -> Seq(Instances)]
        /\ life' \in [Instances -> {"unbuilt", "built", "closing", "closed"}]
    BY <2>1 DEF DownInv, DownShape, Tree
  <2> QED BY <2>1, <2>2, <2>3, DownKeptByAMove DEF Doing, Past
<1> QED BY <1>1, <1>2, <1>3, <1>4, <1>5 DEF CloserGoesOn

LEMMA DownKeptByAStep == DownInv /\ [ClosingNext]_closingVars => DownInv'
<1> SUFFICES ASSUME DownInv, [ClosingNext]_closingVars PROVE DownInv'
  OBVIOUS
<1>1. CASE \/ Installed \/ Rises \/ BootRefusesAt \/ Disposed
           \/ GoesDown \/ ExtensionsAreDown \/ SourceCloses
  BY <1>1, DownKeptByTheApp
<1>2. CASE RootCloses
  BY <1>2, DownKeptByRootCloses
<1>3. ASSUME NEW s \in Scopes, OpensScope(s) PROVE DownInv'
  BY <1>3, DownKeptByOpens
<1>4. ASSUME NEW i \in Instances, Builds(i) PROVE DownInv'
  BY <1>4, DownKeptByBuilds
<1>5. ASSUME NEW f \in FrameScopes, FrameEnds(f) PROVE DownInv'
  BY <1>5, DownKeptByFrameEnds
<1>6. ASSUME NEW x \in Closers, CloserGoesOn(x) PROVE DownInv'
  BY <1>6, DownKeptByGoesOn
<1>7. CASE UNCHANGED closingVars
  BY <1>7 DEF closingVars, scopeVars, DownInv, DownShape, Ascent, Tree, Lives, StandsOnBuilt, OnItsOwn, Once
<1> QED
  BY <1>1, <1>2, <1>3, <1>4, <1>5, <1>6, <1>7 DEF ClosingNext, ClosingProgress, ReleaseGoesOn

(* The inductive invariant of an app's way up and down. *)
LEMMA DownThroughout == ClosingSpec => []DownInv
  BY DownAtFirst, DownKeptByAStep, PTL DEF ClosingSpec

(* Above what is past its children, every scope of the app's is past them  *)
(* too; so of what a scope reaches, the scope above it is past.            *)
LEMMA PastIsBelow ==
  ASSUME DownInv, NEW s \in opened, NEW p \in Scopes, Reaches(s, p), p # s,
         p \notin FrameScopes, closer[Main(p)].at \in Past
  PROVE  s # Root /\ Above[s] \in Scopes \ FrameScopes /\ closer[Main(Above[s])].at \in Past
<1> USE DEF DownInv
<1> DEFINE early == {c \in opened \ FrameScopes : closer[Main(c)].at \notin Past}
<1>1. \A c \in early \ {Root} : Above[c] \in early
  <2> SUFFICES ASSUME NEW c \in opened \ FrameScopes, c # Root, closer[Main(c)].at \notin Past
               PROVE  Above[c] \in opened \ FrameScopes /\ closer[Main(Above[c])].at \notin Past
    OBVIOUS
  <2>1. c \in Scopes /\ Above[c] \in opened /\ Above[c] \in Scopes \ FrameScopes /\ Main(c) = Asked(c)
    BY TheTree, ClosersAre DEF DownShape, Tree
  <2>2. CASE Contains(children[Above[c]], c)
    BY <2>1, <2>2 DEF Tree
  <2>3. CASE closer[Asked(c)].at # "nothing"
    <3>1. closer[Main(Above[c])].at = "child"
      BY <2>1, <2>3 DEF Tree, Past
    <3> QED BY <2>1, <3>1 DEF Past
  <2> QED BY <2>1, <2>2, <2>3 DEF Tree, OnItsOwn
<1>2. early \cup {s} \in SUBSET Scopes /\ s \in early \cup {s} /\ p \notin early
  BY DEF DownShape
<1> HIDE DEF early
<1>3. ~(\A c \in (early \cup {s}) \ {Root} : Above[c] \in early \cup {s})
  <2> SUFFICES ASSUME \A c \in (early \cup {s}) \ {Root} : Above[c] \in early \cup {s} PROVE FALSE
    OBVIOUS
  <2>1. p \in early \cup {s}
    BY <1>2 DEF Reaches
  <2> QED BY <1>2, <2>1
<1>4. s # Root /\ Above[s] \notin early
  BY <1>1, <1>3
<1>5. Above[s] \in opened /\ Above[s] \in Scopes \ FrameScopes
  BY <1>4, TheTree DEF Tree, DownShape
<1> QED BY <1>4, <1>5 DEF early

(* A scope below one that is past its children is closed, but for a frame's*)
(* that closes itself or is held still.                                    *)
LEMMA BelowPastIsOver ==
  ASSUME DownInv, NEW s \in opened, s # Root, closer[Main(Above[s])].at \in Past
  PROVE  closer[Asked(s)].at = "over" \/ (s \in FrameScopes /\ (OnItsOwn(s) \/ StillHeld(s)))
<1> USE DEF DownInv
<1>1. s \in Scopes /\ Above[s] \in Scopes
  BY TheTree DEF DownShape
<1>2. CASE closer[Asked(s)].at # "nothing"
  BY <1>1, <1>2 DEF Tree, Past
<1>3. CASE Contains(children[Above[s]], s)
  <2>1. s \in FrameScopes
    BY <1>1, <1>3 DEF Tree
  <2>2. Main(Above[s]) = <<Above[s], "own">> \/ Main(Above[s]) = <<Above[s], "above">>
    BY DEF Main, Asked
  <2>3. StillHeld(s)
    BY <1>3, <2>2 DEF StillHeld, Past
  <2> QED BY <2>1, <2>3
<1> QED BY <1>2, <1>3 DEF Tree, OnItsOwn

(* What closes is what nothing open stands on: each scope closes what it   *)
(* opened, then what it built, the newest first, with the code's four ways *)
(* out (ScopeContainer.ts dispose).                                        *)
THEOREM NothingStandsOnTheClosed == ClosingSpec => []DependentsFirst
<1>1. ASSUME DownInv PROVE DependentsFirst
  <2> USE <1>1 DEF DownInv
  <2> SUFFICES ASSUME NEW i \in Instances, NEW d \in Needs[i], life[d] \in {"closing", "closed"},
                      life[i] # "unbuilt", life[i] # "closed", i \notin behind \cup slipped,
                      ~OnItsOwn(Home[i]), ~StillHeld(Home[i])
               PROVE  FALSE
    BY DEF DependentsFirst
  <2>1. /\ d \in Instances /\ Home[i] \in opened /\ Home[i] \in Scopes /\ Home[d] \in Scopes
        /\ Reaches(Home[i], Home[d]) /\ life[i] \in {"built", "closing"}
    BY InstancesHaveHomes DEF Lives, DownShape
  <2>2. CASE Home[d] = Home[i]
    <3>1. CASE life[i] = "closing"
      BY <2>2, <3>1 DEF StandsOnBuilt
    <3>2. CASE life[i] = "built"
      <4>1. PICK n \in 1 .. Len(stack[Home[i]]) : stack[Home[i]][n] = i
        BY <3>2 DEF Lives, Contains
      <4>2. PICK m \in 1 .. n - 1 : stack[Home[i]][m] = d
        BY <2>1, <2>2, <4>1 DEF StandsOnBuilt
      <4>3. Len(stack[Home[i]]) \in Nat
        BY <2>1 DEF DownShape
      <4>4. Contains(stack[Home[i]], d)
        BY <4>1, <4>2, <4>3 DEF Contains
      <4> QED BY <2>1, <4>4 DEF Lives
    <3> QED BY <2>1, <3>1, <3>2
  <2>3. CASE Home[d] # Home[i]
    <3>1. Home[d] \notin FrameScopes
      <4>1. /\ {Home[i]} \cup (Scopes \ FrameScopes) \in SUBSET Scopes
            /\ \A c \in ({Home[i]} \cup (Scopes \ FrameScopes)) \ {Root} :
                 Above[c] \in {Home[i]} \cup (Scopes \ FrameScopes)
        BY <2>1, TheTree
      <4>2. Home[d] \in {Home[i]} \cup (Scopes \ FrameScopes)
        BY <2>1, <4>1 DEF Reaches
      <4> QED BY <2>3, <4>2
    <3>2. closer[Main(Home[d])].at \in Past
      <4>1. PICK x \in Closers : x[1] = Home[d] /\ closer[x].at \in Past
        BY <2>1 DEF Lives
      <4>2. x = Main(Home[d])
        BY <3>1, <4>1 DEF Tree, Past
      <4> QED BY <4>1, <4>2
    <3>3. Home[i] # Root /\ closer[Main(Above[Home[i]])].at \in Past
      BY <2>1, <2>3, <3>1, <3>2, PastIsBelow
    <3>4. closer[Asked(Home[i])].at = "over"
      BY <2>1, <3>3, BelowPastIsOver
    <3>5. Asked(Home[i]) \in Closers /\ Asked(Home[i])[1] = Home[i]
      BY <2>1, ClosersAre
    <3> QED BY <2>1, <3>4, <3>5 DEF Lives
  <2> QED BY <2>2, <2>3
<1> QED BY <1>1, DownThroughout, PTL

(* Nothing of an app closes before every extension of it was told, the     *)
(* newest first, and when its source closes nothing of it is open          *)
(* (bootstrap.ts release, AppLifecycle.ts down and closeAll).              *)
THEOREM ClosedInReverse == ClosingSpec => []ReleasedInReverse
<1>1. ASSUME DownInv, NEW i \in Instances, Home[i] \notin FrameScopes
      PROVE  /\ life[i] \in {"closing", "closed"} =>
                  told = [k \in 1 .. Members |-> Members + 1 - k] \/ (told = << >> /\ risen = 0)
             /\ level = "over" => life[i] \in {"unbuilt", "closed"} \/ i \in slipped
  <2> USE <1>1 DEF DownInv
  <2>1. Home[i] \in Scopes
    BY InstancesHaveHomes
  <2>2. ASSUME life[i] \in {"closing", "closed"}
        PROVE  told = [k \in 1 .. Members |-> Members + 1 - k] \/ (told = << >> /\ risen = 0)
    <3>1. PICK x \in Closers : x[1] = Home[i] /\ closer[x].at \in Past
      BY <2>2 DEF Lives
    <3>2. level \in {"container", "over"}
      BY <3>1 DEF Ascent, Past
    <3>3. CASE Len(told) = Members
      <4>1. told \in Seq(1 .. Members) /\ \A k \in 1 .. Members : told[k] = Members + 1 - k
        BY <3>3 DEF Ascent
      <4>2. told = [k \in 1 .. Members |-> told[k]]
        BY <3>3, <4>1
      <4> QED BY <4>1, <4>2
    <3> QED BY <3>2, <3>3 DEF Ascent
  <2>3. ASSUME level = "over", life[i] # "unbuilt" PROVE life[i] = "closed" \/ i \in slipped
    <3>1. closer[Main(Root)].at \in Past /\ Root \in Scopes /\ Root \notin FrameScopes
      BY <2>3, TheTree DEF Ascent, Past
    <3>2. Home[i] \in opened
      BY <2>3 DEF Lives
    <3>3. PICK x \in Closers : x[1] = Home[i] /\ closer[x].at = "over"
      <4>1. CASE Home[i] = Root
        BY <2>1, <2>3, <4>1, ClosersAre DEF Ascent
      <4>2. CASE Home[i] # Root
        <5>1. Reaches(Home[i], Root)
          BY <2>1, ScopesAreATree
        <5>2. closer[Main(Above[Home[i]])].at \in Past
          BY <3>1, <3>2, <4>2, <5>1, PastIsBelow
        <5>3. closer[Asked(Home[i])].at = "over"
          BY <3>2, <4>2, <5>2, BelowPastIsOver
        <5> QED BY <2>1, <5>3, ClosersAre
      <4> QED BY <4>1, <4>2
    <3>4. ~OnItsOwn(Home[i])
      BY DEF OnItsOwn
    <3> QED BY <2>3, <3>3, <3>4 DEF Lives
  <2> QED BY <2>2, <2>3
<1>2. DownInv => ReleasedInReverse
  BY <1>1 DEF ReleasedInReverse
<1> QED BY <1>2, DownThroughout, PTL

(* The state of an app that goes up and comes down keeps its shape: what a *)
(* scope's stack has is its own and open, and a closer is at work on a     *)
(* scope there is.                                                         *)
THEOREM ClosingTyped == ClosingSpec => []ClosingTypeOK
<1>1. ASSUME DownInv PROVE ClosingTypeOK
  <2> USE <1>1 DEF DownInv
  <2>1. children \in [Scopes -> Seq(opened \ {Root})]
    <3>1. ASSUME NEW p \in Scopes PROVE children[p] \in Seq(opened \ {Root})
      <4>1. PICK t : t = children[p]
        OBVIOUS
      <4>2. t \in Seq(Scopes) /\ DOMAIN t = 1 .. Len(t)
        BY <4>1 DEF DownShape
      <4>3. ASSUME NEW k \in 1 .. Len(t) PROVE t[k] \in opened \ {Root}
        <5>1. t[k] \in Scopes /\ Contains(children[p], t[k])
          BY <4>1, <4>2, ElementOfSeq DEF Contains
        <5> QED BY <5>1 DEF Tree
      <4> QED BY <4>1, <4>2, <4>3
    <3> QED BY <3>1 DEF DownShape
  <2>2. \A s \in Scopes : \A i \in ToSet(stack[s]) : Home[i] = s /\ life[i] = "built"
    <3> SUFFICES ASSUME NEW s \in Scopes, NEW i \in ToSet(stack[s])
                 PROVE  Home[i] = s /\ life[i] = "built"
      OBVIOUS
    <3>1. PICK t : t = stack[s]
      OBVIOUS
    <3>2. t \in Seq(Instances) /\ DOMAIN t = 1 .. Len(t)
      BY <3>1 DEF DownShape
    <3>3. PICK k \in 1 .. Len(t) : i = t[k]
      BY <3>1, <3>2 DEF ToSet
    <3>4. i \in Instances /\ Contains(stack[s], i)
      BY <3>1, <3>2, <3>3, ElementOfSeq DEF Contains
    <3> QED BY <3>4 DEF Lives
  <2>3. \A x \in Closers : closer[x].at \in Doing /\ (closer[x].at # "nothing" => x[1] \in opened)
    BY DEF DownShape, Tree
  <2> QED BY <2>1, <2>2, <2>3 DEF ClosingTypeOK, DownShape, Ascent
<1> QED BY <1>1, DownThroughout, PTL

=============================================================================

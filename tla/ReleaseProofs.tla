---------------------------- MODULE ReleaseProofs ----------------------------
(***************************************************************************)
(* Calls stand where a process is up and always have something to await,   *)
(* in every deployment; a kept call is not lost.                           *)
(*                                                                         *)
(* A row outlives what it names only where a run had been begun of it, or  *)
(* of what it names, by a driver other than the one that passed it over    *)
(* (OrphansWereBegun): for every number of processes, every graph of       *)
(* references, every request, journals that are shared or not, sweeps that *)
(* redo what was stopped, and whatever fails or stops on the way; when     *)
(* every row that may name another is hosted where it can be asked         *)
(* (EveryChildIsAsked).  So with nothing written down (Unjournalled) a     *)
(* delete leaves no orphan, at any instant.                                *)
(***************************************************************************)
EXTENDS Workflow, SequenceTheorems, WellFoundedInduction, TLAPS

-----------------------------------------------------------------------------
(* The shape of what there is. *)
CallStages == {"open", "take", "hop", "walk", "row", "close", "end", "pick"}

Items == [do : {"restrict", "level", "null", "delete", "ask", "redo"},
          fields : SUBSET DOMAIN Fields, rows : SUBSET Rows, asks : SUBSET (Rows \X Procs)]

Callings == [at : Procs, caller : Users \cup {Nobody} \cup FrameIds,
          kind : {"gesture", "ask", "redo", "sweep"},
          row : Rows, trail : SUBSET Rows, seen : SUBSET Rows,
          stage : CallStages, todo : Seq(Items), fresh : BOOLEAN,
          waits : BOOLEAN, err : {"none", "refused", "failed"}, due : SUBSET Rows]

In(t) == {t[n] : n \in DOMAIN t}
Todo(f) == In(f.todo)

(* A call waits for those its walk makes, or for the gesture a redone run  *)
(* ends in; only a process with a journal has a run to open and to close; a*)
(* delete is asked where its row is hosted.                                *)
Formed(f) ==
  /\ f \in Callings
  /\ f.stage = "row" => f.todo = << >>
  /\ f.waits => f.err = "none" /\
       (f.stage \in {"hop", "walk"} \/ (f.kind = "redo" /\ f.stage \in {"close", "end"}))
  /\ f.err # "none" => f.stage = "end" \/ (f.stage = "close" /\ f.kind # "sweep")
  /\ f.stage \in {"open", "take", "close", "pick"} \/ f.kind = "sweep" => Journalled(f.at)
  /\ f.stage = "pick" => f.kind = "sweep"
  /\ f.kind = "gesture" => Entity[f.row] \in Hosts[f.at]
  /\ \A item \in Todo(f) :
       /\ item.do = "delete" => \A c \in item.rows : Entity[c] \in Hosts[f.at]
       /\ item.do = "null" => \E i \in DOMAIN Fields : item.fields = {i}
Fit(f) == Formed(f) /\ (f.stage \in {"hop", "walk"} /\ ~f.waits => f.todo # << >>)

Shaped ==
  /\ stored \subseteq Rows
  /\ names \in [DOMAIN Fields -> [Rows -> Rows \cup {Nobody}]]
  /\ \A i \in DOMAIN Fields : \A r \in Rows : names[i][r] \in {Names[i][r], Nobody}
  /\ DOMAIN frames \subseteq FrameIds
  /\ \A id \in DOMAIN frames : Fit(frames[id])

(* A run under way is that of a process that keeps its runs there, as it   *)
(* was started last or before.                                             *)
Written ==
  /\ pid \in [Procs -> Nat \ {0}]
  /\ runs \in [Journals -> [Rows -> [status : {"none", "running", "done"},
                                     owner : (Procs \X Nat) \cup {Nobody}]]]
  /\ \A j \in Journals : \A r \in Rows : runs[j][r].status = "running" =>
       \E p \in Procs : \E n \in 1 .. pid[p] : JournalOf[p] = j /\ runs[j][r].owner = <<p, n>>

(* Whoever was called by a call is the only one, and is waited for.        *)
Linked ==
  /\ \A id \in DOMAIN frames : frames[id].caller \in FrameIds =>
       frames[id].caller \in DOMAIN frames /\ frames[frames[id].caller].waits
  /\ \A id, other \in DOMAIN frames :
       frames[id].caller = frames[other].caller /\ frames[id].caller \in FrameIds => id = other

-----------------------------------------------------------------------------
(* What a call still has to do about a row c that names its own.           *)
ToLook(f, i) ==
  \/ f.stage \in {"open", "take", "hop"}
  \/ \E item \in Todo(f) : item.do \in {"restrict", "level"} /\ i \in item.fields /\ f.row \in item.rows
ToNull(f, i, c) ==
  \E item \in Todo(f) : item.do = "null" /\ i \in item.fields /\ c \in item.rows
ToDelete(f, c) ==
  \E item \in Todo(f) : item.do = "delete" /\ c \in item.rows
Deleting(id, p, c) ==
  \E g \in DOMAIN frames :
    frames[g].caller = id /\ frames[g].kind = "gesture" /\ frames[g].row = c /\ frames[g].at = p

(* A sweep, and what it redoes, owe nothing: the gesture they end in does. *)
Owes(f) == f.err = "none" /\ f.kind \in {"gesture", "ask"} /\ f.stage \notin {"close", "end"}

(* No row is left out: one that names the row of a call, by a field this   *)
(* process hosts, is one the call has yet to look for, to empty, to delete *)
(* or to hear of, or one whose own run was found in other hands; and so is *)
(* one it took in hand.                                                    *)
HereDone(id) ==
  LET f == frames[id] IN
  Owes(f) =>
    \A i \in DOMAIN Fields : \A c \in stored \ {f.row} :
      HostedAt(f.at, i) /\ names[i][c] = f.row =>
        \/ ToLook(f, i) \/ ToNull(f, i, c) \/ ToDelete(f, c)
        \/ Deleting(id, f.at, c) \/ Begun(f.at, c)

SeenDone(id) ==
  LET f == frames[id] IN
  Owes(f) => \A c \in (f.seen \cap stored) \ {f.row} :
    ToDelete(f, c) \/ Deleting(id, f.at, c) \/ Begun(f.at, c)

(* A peer that answered has no row left that names the one it was asked of,*)
(* or had begun to release one of the two.                                 *)
Clear(q, r) ==
  \A i \in DOMAIN Fields : \A c \in stored \ {r} :
    HostedAt(q, i) /\ names[i][c] = r => Begun(q, c) \/ Begun(q, r)

ToAsk(f, q) == \E item \in Todo(f) : item.do = "ask" /\ <<f.row, q>> \in item.asks
Asking(id, q, r) ==
  \E g \in DOMAIN frames :
    frames[g].caller = id /\ frames[g].kind = "ask" /\ frames[g].row = r /\ frames[g].at = q

PeersDone(id) ==
  LET f == frames[id] IN
  Owes(f) /\ f.kind = "gesture" =>
    \A q \in Peers[f.at] : Clear(q, f.row) \/ ToAsk(f, q) \/ Asking(id, q, f.row)

(* A delete that answers has deleted its row, and a peer that answers has  *)
(* none left that names it: or the run was in other hands.                 *)
RowDone(f) ==
  f.err = "none" /\ f.stage \in {"close", "end"} =>
    /\ f.kind = "gesture" => f.row \notin stored \/ Begun(f.at, f.row)
    /\ f.kind = "ask" => Clear(f.at, f.row)

Duty(id) == HereDone(id) /\ SeenDone(id) /\ PeersDone(id) /\ RowDone(frames[id])

(* What a step may do to the rows and to the runs, and what it must leave a*)
(* call f that it makes g: whatever f still had to do is done, or g has it *)
(* to do.                                                                  *)
Shrinks ==
  /\ stored' \subseteq stored
  /\ names' \in [DOMAIN Fields -> [Rows -> Rows \cup {Nobody}]]
  /\ \A i \in DOMAIN Fields : \A c \in Rows : names'[i][c] \in {names[i][c], Nobody}
  /\ \A q \in Procs : \A r \in Rows : Begun(q, r) => Begun(q, r)'

Carries(id, f, g) ==
  /\ g.at = f.at /\ g.kind = f.kind
  /\ f.kind \in {"gesture", "ask"} => g.row = f.row
  /\ Owes(g) =>
       /\ Owes(f)
       /\ \A i \in DOMAIN Fields : HostedAt(f.at, i) /\ Fields[i].to = Entity[f.row] /\ ToLook(f, i) =>
            \/ ToLook(g, i)
            \/ \A c \in stored' \ {f.row} : names'[i][c] = f.row =>
                 ToNull(g, i, c) \/ ToDelete(g, c) \/ Deleting(id, f.at, c)' \/ Begun(f.at, c)'
       /\ \A i \in DOMAIN Fields : \A c \in stored' :
            ToNull(f, i, c) => ToNull(g, i, c) \/ names'[i][c] # f.row
       /\ \A c \in stored' \ {f.row} :
            ToDelete(f, c) \/ Deleting(id, f.at, c) =>
              ToDelete(g, c) \/ Deleting(id, f.at, c)' \/ Begun(f.at, c)'
       /\ \A c \in g.seen \ f.seen : ToDelete(g, c)
       /\ g.kind = "gesture" => \A q \in Peers[f.at] :
            ToAsk(f, q) \/ Asking(id, q, f.row) =>
              ToAsk(g, q) \/ Asking(id, q, f.row)' \/ Clear(q, f.row)'
  /\ g.err = "none" /\ g.stage \in {"close", "end"} =>
       /\ g.kind = "gesture" => g.row \notin stored' \/ Begun(g.at, g.row)'
       /\ g.kind = "ask" => Clear(g.at, g.row)'

(* The inductive invariant. *)
Owed == Shaped /\ Written /\ Linked /\ (\A id \in DOMAIN frames : Duty(id)) /\ OrphansWereBegun
OrphanInv == EveryChildIsAsked /\ Owed

-----------------------------------------------------------------------------
(* Lists of what is left to do.                                            *)
LEMMA Joined ==
  ASSUME NEW S, NEW s \in Seq(S), NEW t \in Seq(S)
  PROVE  s \o t \in Seq(S) /\ In(s \o t) = In(s) \cup In(t)
<1>1. s \o t \in Seq(S) /\ DOMAIN (s \o t) = 1 .. Len(s) + Len(t)
  OBVIOUS
<1>2. In(s \o t) \subseteq In(s) \cup In(t)
  <2> SUFFICES ASSUME NEW n \in 1 .. Len(s) + Len(t)
               PROVE  (s \o t)[n] \in In(s) \cup In(t)
    BY <1>1 DEF In
  <2>1. CASE n <= Len(s)
    BY <2>1 DEF In
  <2>2. CASE n > Len(s)
    <3>1. n - Len(s) \in DOMAIN t /\ (s \o t)[n] = t[n - Len(s)]
      BY <2>2
    <3> QED BY <3>1 DEF In
  <2> QED BY <2>1, <2>2
<1>3. In(s) \subseteq In(s \o t)
  <2> SUFFICES ASSUME NEW n \in DOMAIN s PROVE s[n] \in In(s \o t)
    BY DEF In
  <2>1. n \in 1 .. Len(s) + Len(t) /\ (s \o t)[n] = s[n]
    OBVIOUS
  <2> QED BY <1>1, <2>1 DEF In
<1>4. In(t) \subseteq In(s \o t)
  <2> SUFFICES ASSUME NEW n \in DOMAIN t PROVE t[n] \in In(s \o t)
    BY DEF In
  <2>1. Len(s) + n \in 1 .. Len(s) + Len(t) /\ (s \o t)[Len(s) + n] = t[n]
    OBVIOUS
  <2> QED BY <1>1, <2>1 DEF In
<1> QED BY <1>1, <1>2, <1>3, <1>4

LEMMA HeadAndRest ==
  ASSUME NEW S, NEW t \in Seq(S), t # << >>
  PROVE  t[1] \in S /\ Tail(t) \in Seq(S) /\ In(t) = {t[1]} \cup In(Tail(t))
<1>1. t[1] \in S /\ Tail(t) \in Seq(S) /\ Len(t) >= 1
  OBVIOUS
<1>2. In(t) \subseteq {t[1]} \cup In(Tail(t))
  <2> SUFFICES ASSUME NEW n \in DOMAIN t, n # 1 PROVE t[n] \in In(Tail(t))
    BY DEF In
  <2>1. n - 1 \in DOMAIN Tail(t) /\ Tail(t)[n - 1] = t[n]
    OBVIOUS
  <2> QED BY <2>1 DEF In
<1>3. In(Tail(t)) \subseteq In(t)
  <2> SUFFICES ASSUME NEW n \in DOMAIN Tail(t) PROVE Tail(t)[n] \in In(t)
    BY DEF In
  <2>1. n + 1 \in DOMAIN t /\ Tail(t)[n] = t[n + 1]
    OBVIOUS
  <2> QED BY <2>1 DEF In
<1>4. t[1] \in In(t)
  BY <1>1 DEF In
<1> QED BY <1>1, <1>2, <1>3, <1>4

LEMMA NoneAndOne ==
  /\ \A S : << >> \in Seq(S)
  /\ In(<< >>) = {}
  /\ \A S : \A x \in S : <<x>> \in Seq(S)
  /\ \A x : In(<<x>>) = {x}
<1>1. \A x : DOMAIN <<x>> = {1} /\ <<x>>[1] = x
  OBVIOUS
<1>2. \A x : In(<<x>>) = {x}
  BY <1>1 DEF In
<1>3. In(<< >>) = {}
  BY DEF In
<1> QED BY <1>2, <1>3

(* The walk over a level has every field that this process has the source  *)
(* of and that names an entity of it.                                      *)
LEMMA WalkLooks ==
  ASSUME NEW p, NEW entity, NEW keys \in SUBSET Rows
  PROVE  /\ Walk(p, entity, keys) \in Seq(Items)
         /\ \A item \in In(Walk(p, entity, keys)) :
              item.do \in {"restrict", "level"} /\ item.rows = keys
         /\ \A i \in DOMAIN Fields :
              Fields[i].of \in Declares[p] /\ Fields[i].to = entity =>
                \E item \in In(Walk(p, entity, keys)) : i \in item.fields
<1> DEFINE Among(rules) == {i \in DOMAIN Fields :
             Fields[i].of \in Declares[p] /\ Fields[i].to = entity /\ Fields[i].rule \in rules}
           Pass(do, is) == IF is = {} THEN << >> ELSE <<Item(do, is, keys, {})>>
           first == Pass("restrict", Among({"restrict"}))
           next == Pass("level", Among({"cascade", "set null"}))
<1>1. Walk(p, entity, keys) = first \o next
  BY DEF Walk
<1>2. ASSUME NEW do \in {"restrict", "level"}, NEW is \in SUBSET DOMAIN Fields
      PROVE  /\ Pass(do, is) \in Seq(Items)
             /\ \A item \in In(Pass(do, is)) : item.do = do /\ item.rows = keys
             /\ \A i \in is : \E item \in In(Pass(do, is)) : i \in item.fields
  <2>1. Item(do, is, keys, {}) \in Items
    BY DEF Item, Items
  <2>2. CASE is = {}
    BY <2>2, NoneAndOne
  <2>3. CASE is # {}
    <3>1. Pass(do, is) = <<Item(do, is, keys, {})>>
      BY <2>3
    <3>2. In(Pass(do, is)) = {Item(do, is, keys, {})}
      BY <3>1, NoneAndOne
    <3> QED BY <2>1, <3>1, <3>2, NoneAndOne DEF Item
  <2> QED BY <2>2, <2>3
<1>3. Among({"restrict"}) \in SUBSET DOMAIN Fields /\ Among({"cascade", "set null"}) \in SUBSET DOMAIN Fields
  OBVIOUS
<1>4. /\ first \in Seq(Items)
      /\ \A item \in In(first) : item.do = "restrict" /\ item.rows = keys
      /\ \A i \in Among({"restrict"}) : \E item \in In(first) : i \in item.fields
  BY <1>2, <1>3
<1>5. /\ next \in Seq(Items)
      /\ \A item \in In(next) : item.do = "level" /\ item.rows = keys
      /\ \A i \in Among({"cascade", "set null"}) : \E item \in In(next) : i \in item.fields
  BY <1>2, <1>3
<1>6. first \o next \in Seq(Items) /\ In(first \o next) = In(first) \cup In(next)
  <2>1. first \in Seq(Items) /\ next \in Seq(Items)
    BY <1>4, <1>5
  <2> HIDE DEF first, next
  <2> QED BY <2>1, Joined
<1>7. \A i \in DOMAIN Fields : Fields[i].of \in Declares[p] /\ Fields[i].to = entity =>
        i \in Among({"restrict"}) \/ i \in Among({"cascade", "set null"})
  BY FieldsAreRules
<1>8. ASSUME NEW i \in DOMAIN Fields, Fields[i].of \in Declares[p], Fields[i].to = entity
      PROVE  \E item \in In(first) \cup In(next) : i \in item.fields
  <2> HIDE DEF first, next, Among
  <2>1. CASE i \in Among({"restrict"})
    BY <2>1, <1>4
  <2>2. CASE i \in Among({"cascade", "set null"})
    BY <2>2, <1>5
  <2> QED BY <1>7, <1>8, <2>1, <2>2
<1>9. \A item \in In(first) \cup In(next) : item.do \in {"restrict", "level"} /\ item.rows = keys
  <2> HIDE DEF first, next, Among
  <2> QED BY <1>4, <1>5
<1> HIDE DEF first, next, Among
<1> QED BY <1>1, <1>6, <1>8, <1>9


-----------------------------------------------------------------------------
(* What is owed is still owed, one await on.                               *)
LEMMA OnwardOwes ==
  ASSUME NEW f, Formed(f), f.err = "none", f.stage \in {"hop", "walk"}, ~f.waits,
         NEW g, g = Onward(f)
  PROVE  /\ Fit(g)
         /\ g.at = f.at /\ g.caller = f.caller /\ g.kind = f.kind /\ g.row = f.row
         /\ g.seen = f.seen /\ g.err = "none" /\ ~g.waits /\ g.stage \in {"hop", "walk", "row"}
         /\ Todo(f) \subseteq Todo(g)
         /\ \A i \in DOMAIN Fields :
              HostedAt(f.at, i) /\ Fields[i].to = Entity[f.row] /\ ToLook(f, i) => ToLook(g, i)
<1> f \in Callings
  BY DEF Formed
<1>1. CASE f.todo # << >>
  <2>1. g = f
    BY <1>1 DEF Onward
  <2> QED BY <2>1, <1>1 DEF Fit, Formed
<1>2. CASE f.todo = << >> /\ f.stage = "walk"
  <2>1. g = [f EXCEPT !.stage = "row"]
    BY <1>2 DEF Onward
  <2>2. Todo(f) = {} /\ Todo(g) = {}
    BY <1>2, <2>1, NoneAndOne DEF Todo, Callings
  <2>3. g \in Callings
    BY <2>1 DEF Callings, CallStages
  <2>4. Fit(g)
    BY <1>2, <2>1, <2>2, <2>3 DEF Fit, Formed, Callings
  <2>5. \A i \in DOMAIN Fields : ~ToLook(f, i)
    BY <1>2, <2>2 DEF ToLook
  <2> QED BY <2>1, <2>2, <2>4, <2>5 DEF Callings
<1>3. CASE f.todo = << >> /\ f.stage = "hop"
  <2> DEFINE todo == Walk(f.at, Entity[f.row], {f.row})
  <2>1. g = [f EXCEPT !.todo = todo, !.stage = IF todo = << >> THEN "row" ELSE "walk"]
    BY <1>3 DEF Onward
  <2>2. f.row \in Rows /\ f.at \in Procs
    BY DEF Callings
  <2>3. /\ todo \in Seq(Items)
        /\ \A item \in In(todo) : item.do \in {"restrict", "level"} /\ item.rows = {f.row}
        /\ \A i \in DOMAIN Fields : Fields[i].of \in Declares[f.at] /\ Fields[i].to = Entity[f.row] =>
             \E item \in In(todo) : i \in item.fields
    BY <2>2, WalkLooks
  <2> HIDE DEF todo
  <2>4. g \in Callings /\ g.todo = todo
    BY <2>1, <2>3 DEF Callings, CallStages
  <2>5. Todo(f) = {}
    BY <1>3, NoneAndOne DEF Todo
  <2>6. Todo(g) = In(todo)
    BY <2>4 DEF Todo
  <2>7. /\ g.at = f.at /\ g.caller = f.caller /\ g.kind = f.kind /\ g.row = f.row
        /\ g.seen = f.seen /\ g.err = "none" /\ ~g.waits
        /\ g.stage = IF todo = << >> THEN "row" ELSE "walk"
    BY <2>1 DEF Callings
  <2>8. Fit(g)
    BY <2>3, <2>4, <2>6, <2>7 DEF Fit, Formed, CallStages
  <2>9. \A i \in DOMAIN Fields :
          HostedAt(f.at, i) /\ Fields[i].to = Entity[f.row] => ToLook(g, i)
    BY <2>2, <2>3, <2>6, <2>7, HostedIsDeclared DEF ToLook, HostedAt
  <2> QED BY <2>5, <2>7, <2>8, <2>9
<1> QED BY <1>1, <1>2, <1>3

(* A call past its walk, or before it, does not go on by itself. *)
LEMMA OnwardStays ==
  ASSUME NEW f, f.stage \notin {"hop", "walk"}
  PROVE  Onward(f) = f
  BY DEF Onward

(* A call that fails has nothing left but its run to close. *)
LEMMA FailFits ==
  ASSUME NEW f, Formed(f), ~f.waits, NEW error \in {"refused", "failed"},
         NEW g, g = Fail(f, error)
  PROVE  /\ Fit(g) /\ g.err # "none" /\ ~g.waits
         /\ g.at = f.at /\ g.caller = f.caller /\ g.kind = f.kind /\ g.row = f.row
<1> f \in Callings
  BY DEF Formed
<1>1. f.at \in Procs
  BY DEF Callings
<1>2. PICK s \in {"close", "end"} : s = IF ClosesRun(f, error) THEN "close" ELSE "end"
  OBVIOUS
<1>3. g = [f EXCEPT !.err = error, !.todo = << >>, !.stage = s]
  BY <1>2 DEF Fail
<1>4. g \in Callings
  <2>1. << >> \in Seq(Items)
    BY NoneAndOne
  <2> QED BY <1>3, <2>1 DEF Callings, CallStages
<1>5. Todo(g) = {}
  BY <1>3, NoneAndOne DEF Todo, Callings
<1>6. s = "close" => f.kind # "sweep" /\ Journalled(f.at)
  BY <1>2 DEF ClosesRun
<1>7. /\ g.at = f.at /\ g.caller = f.caller /\ g.kind = f.kind /\ g.row = f.row
      /\ g.err = error /\ g.stage = s /\ g.waits = f.waits
  BY <1>3 DEF Callings
<1>8. Formed(g)
  BY <1>4, <1>5, <1>6, <1>7 DEF Formed
<1> QED BY <1>7, <1>8 DEF Fit

(* A call that starts has all of it to do. *)
LEMMA NewCall ==
  ASSUME NEW p \in Procs, NEW who \in Users \cup {Nobody} \cup FrameIds,
         NEW kind \in {"gesture", "ask", "redo"}, NEW r \in Rows, NEW visited \in SUBSET Rows,
         kind = "gesture" => visited = {} /\ Entity[r] \in Hosts[p],
         NEW g, g = Onward(Frame(p, who, kind, r, visited))
  PROVE  /\ Fit(g) /\ ~g.waits /\ g.err = "none" /\ g.stage \notin {"close", "end"}
         /\ g.at = p /\ g.caller = who /\ g.kind = kind /\ g.row = r /\ g.seen = {r}
         /\ \A i \in DOMAIN Fields :
              HostedAt(p, i) /\ Fields[i].to = Entity[r] => ToLook(g, i)
         /\ kind = "gesture" => \A q \in Peers[p] : ToAsk(g, q)
<1> DEFINE f == Frame(p, who, kind, r, visited)
           todo == IF r \in visited \/ Peers[p] = {} THEN << >> ELSE <<Ask(p, {r})>>
<1> PICK s \in {"open", "hop"} : s = IF Journalled(p) THEN "open" ELSE "hop"
  OBVIOUS
<1>1. f = [at |-> p, caller |-> who, kind |-> kind, row |-> r,
           trail |-> visited \cup {r}, seen |-> {r}, stage |-> s, todo |-> todo,
           fresh |-> FALSE, waits |-> FALSE, err |-> "none", due |-> {}]
  BY DEF Frame
<1>2. Ask(p, {r}) \in Items /\ Ask(p, {r}).do = "ask" /\ Ask(p, {r}).asks = {r} \X Peers[p]
  BY PeersAreProcs DEF Ask, Item, Items
<1>4. todo \in Seq(Items) /\ \A item \in In(todo) : item.do = "ask"
  <2>1. PICK one : one = Ask(p, {r})
    OBVIOUS
  <2>2. todo = << >> \/ todo = <<one>>
    BY <2>1
  <2> QED BY <1>2, <2>1, <2>2, NoneAndOne
<1>5. r \notin visited /\ Peers[p] # {} => In(todo) = {Ask(p, {r})}
  BY NoneAndOne
<1> HIDE DEF todo
<1>6. f \in Callings /\ Todo(f) = In(todo)
  BY <1>1, <1>4 DEF Callings, Todo, CallStages
<1>3. f.at = p /\ f.caller = who /\ f.kind = kind /\ f.row = r /\ f.seen = {r} /\ f.err = "none"
       /\ ~f.waits /\ f.stage = s
  BY <1>1
<1>7. Formed(f)
  BY <1>3, <1>4, <1>6 DEF Formed
<1>8. \A i \in DOMAIN Fields : ToLook(f, i)
  BY <1>3 DEF ToLook
<1>9. kind = "gesture" => \A q \in Peers[p] : \E item \in Todo(f) : item.do = "ask" /\ <<r, q>> \in item.asks
  BY <1>2, <1>5, <1>6
<1>10. g = Onward(f)
  OBVIOUS
<1> HIDE DEF f
<1>11. CASE s = "hop"
  BY <1>3, <1>7, <1>8, <1>9, <1>10, <1>11, OnwardOwes DEF ToAsk
<1>12. CASE s = "open"
  <2>1. g = f
    BY <1>3, <1>10, <1>12, OnwardStays
  <2> QED BY <1>3, <1>7, <1>8, <1>9, <1>12, <2>1 DEF ToAsk, Fit
<1> QED BY <1>11, <1>12

(* What NewCall says of the call h, in a word. *)
NewlyMade(h, p, who, kind, r) ==
  /\ Fit(h) /\ ~h.waits /\ h.err = "none" /\ h.stage \notin {"close", "end"}
  /\ h.at = p /\ h.caller = who /\ h.kind = kind /\ h.row = r /\ h.seen = {r}
  /\ \A i \in DOMAIN Fields : HostedAt(p, i) /\ Fields[i].to = Entity[r] => ToLook(h, i)
  /\ kind = "gesture" => \A q \in Peers[p] : ToAsk(h, q)

LEMMA NewGesture ==
  ASSUME NEW p \in Procs, NEW who \in Users \cup {Nobody} \cup FrameIds, NEW r \in Rows,
         Entity[r] \in Hosts[p],
         NEW h, h = Onward(Frame(p, who, "gesture", r, {}))
  PROVE  NewlyMade(h, p, who, "gesture", r)
<1> PICK kind \in {"gesture", "ask", "redo"} : kind = "gesture"
  OBVIOUS
<1> PICK visited \in SUBSET Rows : visited = {}
  OBVIOUS
<1>1. h = Onward(Frame(p, who, kind, r, visited))
  OBVIOUS
<1>2. kind = "gesture" => visited = {} /\ Entity[r] \in Hosts[p]
  OBVIOUS
<1>3. NewlyMade(h, p, who, kind, r)
  BY <1>1, <1>2, NewCall DEF NewlyMade
<1> QED BY <1>3

(* What is dealt with is all that leaves the list. *)
LEMMA LessKeeps ==
  ASSUME NEW f, Formed(f), f.todo # << >>, NEW rows, NEW asks,
         NEW g, g = Less(f, rows, asks)
  PROVE  /\ Next1(f) \in Todo(f)
         /\ g.todo \in Seq(Items) /\ g = [f EXCEPT !.todo = g.todo]
         /\ \A item \in Todo(g) : item \in Todo(f) \/
              (\E was \in Todo(f) : item.do = was.do /\ item.fields = was.fields /\ item.rows \subseteq was.rows)
         /\ \A item \in Todo(f) : item \in Todo(g) \/
              /\ item = Next1(f)
              /\ \A c \in item.rows \ rows : \E left \in Todo(g) :
                   left.do = item.do /\ left.fields = item.fields /\ c \in left.rows
              /\ \A a \in item.asks \ asks : \E left \in Todo(g) :
                   left.do = item.do /\ a \in left.asks
<1> DEFINE head == Next1(f)
           item1 == [head EXCEPT !.rows = @ \ rows, !.asks = @ \ asks]
           first == IF item1.rows = {} /\ item1.asks = {} THEN << >> ELSE <<item1>>
<1>1. f \in Callings /\ f.todo \in Seq(Items)
  BY DEF Formed, Callings
<1>2. head \in Items /\ Tail(f.todo) \in Seq(Items) /\ Todo(f) = {head} \cup In(Tail(f.todo))
  BY <1>1, HeadAndRest DEF Next1, Todo
<1>3. g = [f EXCEPT !.todo = first \o Tail(f.todo)]
  BY DEF Less
<1> HIDE DEF head
<1>4. item1 \in Items /\ item1.do = head.do /\ item1.fields = head.fields
      /\ item1.rows = head.rows \ rows /\ item1.asks = head.asks \ asks
  BY <1>2 DEF Items
<1> HIDE DEF item1
<1>5. first \in Seq(Items) /\ (item1.rows # {} \/ item1.asks # {} => In(first) = {item1}) /\ In(first) \subseteq {item1}
  BY <1>4, NoneAndOne
<1> HIDE DEF first
<1>6. first \o Tail(f.todo) \in Seq(Items) /\ In(first \o Tail(f.todo)) = In(first) \cup In(Tail(f.todo))
  BY <1>2, <1>5, Joined
<1>7. g.todo = first \o Tail(f.todo)
  BY <1>1, <1>3 DEF Callings
<1>8. Todo(g) = In(first) \cup In(Tail(f.todo))
  BY <1>6, <1>7 DEF Todo
<1>9. \A item \in Todo(g) : item \in Todo(f) \/
        (\E was \in Todo(f) : item.do = was.do /\ item.fields = was.fields /\ item.rows \subseteq was.rows)
  BY <1>2, <1>4, <1>5, <1>8
<1>10. ASSUME NEW item \in Todo(f), item \notin Todo(g)
       PROVE  /\ item = head
              /\ \A c \in item.rows \ rows : \E left \in Todo(g) :
                   left.do = item.do /\ left.fields = item.fields /\ c \in left.rows
              /\ \A a \in item.asks \ asks : \E left \in Todo(g) :
                   left.do = item.do /\ a \in left.asks
  <2>1. item = head
    BY <1>2, <1>8, <1>10
  <2>2. ASSUME NEW c \in head.rows \ rows PROVE item1 \in Todo(g) /\ c \in item1.rows
    BY <1>4, <1>5, <1>8, <2>2
  <2>3. ASSUME NEW a \in head.asks \ asks PROVE item1 \in Todo(g) /\ a \in item1.asks
    BY <1>4, <1>5, <1>8, <2>3
  <2> QED BY <1>4, <2>1, <2>2, <2>3
<1>11. head = Next1(f)
  BY DEF head
<1> QED BY <1>2, <1>3, <1>6, <1>7, <1>9, <1>10, <1>11

(* One field of a level is looked at: the others wait, and what it finds   *)
(* is added.                                                               *)
LookedAt(f, i, items) ==
  items \o (IF Next1(f).fields \ {i} = {} THEN << >>
            ELSE <<[Next1(f) EXCEPT !.fields = Next1(f).fields \ {i}]>>) \o Tail(f.todo)

LEMMA ThenKeeps ==
  ASSUME NEW f, Formed(f), f.todo # << >>, NEW i, NEW items \in Seq(Items),
         NEW todo, todo = LookedAt(f, i, items)
  PROVE  /\ todo \in Seq(Items) /\ Next1(f) \in Todo(f)
         /\ In(items) \subseteq In(todo)
         /\ \A item \in In(todo) : item \in Todo(f) \/ item \in In(items) \/ item.do = Next1(f).do
         /\ \A item \in Todo(f) : item \in In(todo) \/
              /\ item = Next1(f)
              /\ \A j \in item.fields \ {i} : \E left \in In(todo) :
                   left.do = item.do /\ j \in left.fields /\ left.rows = item.rows
<1> DEFINE head == Next1(f)
           item1 == [head EXCEPT !.fields = head.fields \ {i}]
           first == IF head.fields \ {i} = {} THEN << >> ELSE <<item1>>
<1>1. f \in Callings /\ f.todo \in Seq(Items)
  BY DEF Formed, Callings
<1>2. head \in Items /\ Tail(f.todo) \in Seq(Items) /\ Todo(f) = {head} \cup In(Tail(f.todo))
  BY <1>1, HeadAndRest DEF Next1, Todo
<1>3. todo = items \o first \o Tail(f.todo)
  BY DEF LookedAt
<1>11. head = Next1(f)
  OBVIOUS
<1> HIDE DEF head
<1>4. item1 \in Items /\ item1.do = head.do /\ item1.fields = head.fields \ {i} /\ item1.rows = head.rows
  BY <1>2 DEF Items
<1>5. first \in Seq(Items) /\ (head.fields \ {i} # {} => In(first) = {item1}) /\ In(first) \subseteq {item1}
  <2> HIDE DEF item1
  <2> QED BY <1>4, NoneAndOne
<1> HIDE DEF first, item1
<1>6. /\ items \o first \in Seq(Items) /\ In(items \o first) = In(items) \cup In(first)
  BY <1>5, Joined
<1>7. /\ items \o first \o Tail(f.todo) \in Seq(Items)
      /\ In(items \o first \o Tail(f.todo)) = In(items \o first) \cup In(Tail(f.todo))
  <2> DEFINE ahead == items \o first
  <2>1. ahead \in Seq(Items) /\ Tail(f.todo) \in Seq(Items)
    BY <1>2, <1>6
  <2> HIDE DEF ahead
  <2>2. ahead \o Tail(f.todo) \in Seq(Items) /\ In(ahead \o Tail(f.todo)) = In(ahead) \cup In(Tail(f.todo))
    BY <2>1, Joined
  <2> QED BY <2>2 DEF ahead
<1>9. In(todo) = In(items) \cup In(first) \cup In(Tail(f.todo))
  BY <1>3, <1>6, <1>7
<1>10. ASSUME NEW item \in Todo(f), item \notin In(todo)
       PROVE  /\ item = head
              /\ \A j \in item.fields \ {i} : \E left \in In(todo) :
                   left.do = item.do /\ j \in left.fields /\ left.rows = item.rows
  <2>1. item = head
    BY <1>2, <1>9, <1>10
  <2>2. ASSUME NEW j \in head.fields \ {i} PROVE item1 \in In(todo) /\ j \in item1.fields
    BY <1>4, <1>5, <1>9, <2>2
  <2> QED BY <1>4, <2>1, <2>2
<1> QED BY <1>2, <1>4, <1>3, <1>5, <1>7, <1>9, <1>10, <1>11

LEMMA FreeIsFree ==
  ASSUME FreeIds # {} PROVE Free \in FrameIds \ DOMAIN frames
<1>1. FreeIds \subseteq Nat
  BY CallersAreNoFrames DEF FreeIds, FrameIds
<1>2. PICK m \in FreeIds : \A y \in FreeIds : ~(<<y, m>> \in OpToRel(<, Nat))
  BY <1>1, NatLessThanWellFounded, WFMin
<1>3. \A y \in FreeIds : m <= y
  <2>1. m \in Nat /\ \A y \in FreeIds : y \in Nat
    BY <1>1
  <2>2. \A y \in FreeIds : ~(y < m)
    BY <1>1, <1>2 DEF OpToRel
  <2> HIDE DEF FreeIds
  <2> QED BY <2>1, <2>2
<1>4. Free \in FreeIds
  BY <1>3 DEF Free
<1> QED BY <1>4 DEF FreeIds

-----------------------------------------------------------------------------
LEMMA ClearStays ==
  ASSUME Shaped, Shrinks, NEW q \in Procs, NEW r \in Rows, Clear(q, r)
  PROVE  Clear(q, r)'
<1> SUFFICES ASSUME NEW i \in DOMAIN Fields, NEW c \in stored' \ {r}, HostedAt(q, i), names'[i][c] = r
             PROVE  Begun(q, c)' \/ Begun(q, r)'
  BY DEF Clear
<1>1. c \in stored /\ c \in Rows /\ names[i][c] = r
  BY NamesAreRows DEF Shrinks, Shaped
<1>2. Begun(q, c) \/ Begun(q, r)
  BY <1>1 DEF Clear
<1> QED BY <1>1, <1>2 DEF Shrinks

(* A call that carries what it owes keeps its duty, a new one has it. *)
LEMMA CarriesDuty ==
  ASSUME Shaped, Shrinks, NEW id \in DOMAIN frames, NEW f, f = frames[id],
         NEW g, g = frames'[id], Duty(id), Carries(id, f, g)
  PROVE  Duty(id)'
<1>1. f \in Callings /\ f.row \in Rows /\ f.at \in Procs
  BY DEF Shaped, Fit, Formed, Callings
<1>2. ASSUME Owes(g)
      PROVE  Owes(f) /\ g.at = f.at /\ g.row = f.row /\ g.kind = f.kind
  BY <1>2 DEF Carries, Owes
<1>3. HereDone(id)'
  <2> SUFFICES ASSUME Owes(g), NEW i \in DOMAIN Fields, NEW c \in stored' \ {f.row},
                      HostedAt(f.at, i), names'[i][c] = f.row
               PROVE  \/ ToLook(g, i) \/ ToNull(g, i, c) \/ ToDelete(g, c)
                      \/ Deleting(id, f.at, c)' \/ Begun(f.at, c)'
    BY <1>2 DEF HereDone, HostedAt, Deleting, Begun
  <2>1. c \in Rows /\ c \in stored /\ names[i][c] = f.row
    BY <1>1, NamesAreRows DEF Shrinks, Shaped
  <2>2. Names[i][c] = f.row
    BY <1>1, <2>1, NamesAreRows DEF Shaped
  <2>3. Fields[i].to = Entity[f.row]
    BY <1>1, <2>1, <2>2, NamesAreRows, NamesFit
  <2>4. ToLook(f, i) \/ ToNull(f, i, c) \/ ToDelete(f, c) \/ Deleting(id, f.at, c) \/ Begun(f.at, c)
    BY <1>2, <2>1 DEF Duty, HereDone
  <2>5. Begun(f.at, c) => Begun(f.at, c)'
    BY <1>1, <2>1 DEF Shrinks
  <2> QED BY <2>1, <2>3, <2>4, <2>5 DEF Carries
<1>4. SeenDone(id)'
  <2> SUFFICES ASSUME Owes(g), NEW c \in (g.seen \cap stored') \ {f.row}
               PROVE  ToDelete(g, c) \/ Deleting(id, f.at, c)' \/ Begun(f.at, c)'
    BY <1>2 DEF SeenDone, Deleting, Begun
  <2>1. c \in f.seen => ToDelete(f, c) \/ Deleting(id, f.at, c) \/ Begun(f.at, c)
    BY <1>2 DEF Duty, SeenDone, Shrinks
  <2>2. c \in Rows
    BY DEF Shrinks, Shaped
  <2>3. Begun(f.at, c) => Begun(f.at, c)'
    BY <1>1, <2>2 DEF Shrinks
  <2> QED BY <2>1, <2>3 DEF Carries
<1>5. PeersDone(id)'
  <2> SUFFICES ASSUME Owes(g), f.kind = "gesture", NEW q \in Peers[f.at]
               PROVE  Clear(q, f.row)' \/ ToAsk(g, q) \/ Asking(id, q, f.row)'
    BY <1>2 DEF PeersDone, Clear, Asking, Begun
  <2>0. q \in Procs
    BY <1>1, PeersAreProcs
  <2>1. Clear(q, f.row) => Clear(q, f.row)'
    BY <1>1, <2>0, ClearStays
  <2>2. Clear(q, f.row) \/ ToAsk(f, q) \/ Asking(id, q, f.row)
    BY <1>2 DEF Duty, PeersDone
  <2> QED BY <1>2, <2>1, <2>2 DEF Carries
<1>6. RowDone(frames[id])'
  BY DEF RowDone, Carries, Clear, Begun
<1> QED BY <1>3, <1>4, <1>5, <1>6 DEF Duty

LEMMA NewDuty ==
  ASSUME Shaped, Shrinks, NEW k, NEW g, g = frames'[k], Fit(g), g.stage \notin {"close", "end"}, g.seen = {g.row},
         \A i \in DOMAIN Fields : HostedAt(g.at, i) /\ Fields[i].to = Entity[g.row] => ToLook(g, i),
         g.kind = "gesture" => \A q \in Peers[g.at] : ToAsk(g, q)
  PROVE  Duty(k)'
<1>1. g.row \in Rows
  BY DEF Fit, Formed, Callings
<1>2. HereDone(k)'
  <2> SUFFICES ASSUME NEW i \in DOMAIN Fields, NEW c \in stored' \ {g.row},
                      HostedAt(g.at, i), names'[i][c] = g.row
               PROVE  ToLook(g, i)
    BY DEF HereDone, HostedAt
  <2>1. c \in Rows /\ c \in stored /\ names[i][c] = g.row
    BY <1>1, NamesAreRows DEF Shrinks, Shaped
  <2>2. Names[i][c] = g.row
    BY <1>1, <2>1, NamesAreRows DEF Shaped
  <2>3. Fields[i].to = Entity[g.row]
    BY <1>1, <2>1, <2>2, NamesAreRows, NamesFit
  <2> QED BY <2>3
<1>3. SeenDone(k)' /\ PeersDone(k)' /\ RowDone(frames[k])'
  BY DEF SeenDone, PeersDone, RowDone
<1> QED BY <1>2, <1>3 DEF Duty

(* A sweep owes nothing. *)
LEMMA SweepsOweNothing ==
  ASSUME NEW k, NEW g, g = frames'[k], g.kind \in {"redo", "sweep"}
  PROVE  Duty(k)'
  BY DEF Duty, HereDone, SeenDone, PeersDone, RowDone, Owes

(* A call that a step leaves alone carries what it owes, when those it     *)
(* awaits are still there or have done what they were called for.          *)
LEMMA Untouched ==
  ASSUME Shaped, Shrinks, NEW id \in DOMAIN frames, NEW f, f = frames[id], Duty(id),
         \A c \in stored' \ {f.row} :
           Deleting(id, f.at, c) => Deleting(id, f.at, c)' \/ Begun(f.at, c)',
         \A q \in Peers[f.at] : Asking(id, q, f.row) => Asking(id, q, f.row)' \/ Clear(q, f.row)'
  PROVE  Carries(id, f, f)
<1>0. f.at \in Procs /\ f.row \in Rows
  BY DEF Shaped, Fit, Formed, Callings
<1>1. ASSUME f.err = "none", f.stage \in {"close", "end"}
      PROVE  /\ f.kind = "gesture" => f.row \notin stored' \/ Begun(f.at, f.row)'
             /\ f.kind = "ask" => Clear(f.at, f.row)'
  <2>1. /\ f.kind = "gesture" => f.row \notin stored \/ Begun(f.at, f.row)
        /\ f.kind = "ask" => Clear(f.at, f.row)
    BY <1>1 DEF Duty, RowDone
  <2>2. Begun(f.at, f.row) => Begun(f.at, f.row)'
    BY <1>0 DEF Shrinks
  <2>3. Clear(f.at, f.row) => Clear(f.at, f.row)'
    BY <1>0, ClearStays
  <2> QED BY <2>1, <2>2, <2>3 DEF Shrinks
<1> QED BY <1>1 DEF Carries

LEMMA ShapeStays ==
  ASSUME Shaped, Shrinks, DOMAIN frames' \subseteq FrameIds,
         \A k \in DOMAIN frames' : Fit(frames'[k])
  PROVE  Shaped'
<1>1. stored' \subseteq Rows
  BY DEF Shaped, Shrinks
<1>2. \A i \in DOMAIN Fields : \A r \in Rows : names'[i][r] \in {Names[i][r], Nobody}
  BY DEF Shaped, Shrinks
<1> QED BY <1>1, <1>2 DEF Shaped, Shrinks

LEMMA NothingGone ==
  ASSUME UNCHANGED <<stored, names, runs, pid>>, Shaped
  PROVE  Shrinks
  BY DEF Shrinks, Shaped, Begun

(* No step forgets a run, or a start of its process. *)
LEMMA NothingForgotten ==
  ASSUME UNCHANGED <<runs, pid>>
  PROVE  /\ Written => Written'
         /\ \A q \in Procs : \A r \in Rows : Begun(q, r) => Begun(q, r)'
  BY DEF Written, Begun

LEMMA ChildrenStay ==
  ASSUME \A k \in DOMAIN frames : /\ k \in DOMAIN frames'
                                  /\ frames'[k].at = frames[k].at /\ frames'[k].kind = frames[k].kind
                                  /\ frames[k].kind \in {"gesture", "ask"} => frames'[k].row = frames[k].row
                                  /\ frames'[k].caller = frames[k].caller
  PROVE  /\ \A id, p, c : Deleting(id, p, c) => Deleting(id, p, c)'
         /\ \A id, q, r : Asking(id, q, r) => Asking(id, q, r)'
  BY DEF Deleting, Asking

(* One call goes on, and no other does. *)
LEMMA OneMoves ==
  ASSUME OrphanInv, Shrinks, NEW id \in DOMAIN frames, NEW f, f = frames[id],
         NEW g, Becomes(id, g), Fit(g), g.caller = f.caller, g.waits = f.waits, Carries(id, f, g)
  PROVE  Shaped' /\ Linked' /\ \A k \in DOMAIN frames' : Duty(k)'
<1>1. /\ DOMAIN frames' = DOMAIN frames /\ frames'[id] = g
      /\ \A k \in DOMAIN frames \ {id} : frames'[k] = frames[k]
  BY DEF Becomes
<1>2. Shaped' 
  BY <1>1, ShapeStays DEF OrphanInv, Owed, Shaped
<1>3. \A k \in DOMAIN frames : frames'[k].caller = frames[k].caller /\ frames'[k].waits = frames[k].waits
  BY <1>1
<1>4. Linked'
  BY <1>1, <1>3 DEF OrphanInv, Owed, Linked
<1>5. \A k \in DOMAIN frames :
        /\ frames'[k].at = frames[k].at /\ frames'[k].kind = frames[k].kind
        /\ frames[k].kind \in {"gesture", "ask"} => frames'[k].row = frames[k].row
  BY <1>1 DEF Carries
<1>6. ASSUME NEW k \in DOMAIN frames PROVE Duty(k)'
  <2>1. CASE k = id
    BY <1>1, <2>1, CarriesDuty DEF OrphanInv, Owed
  <2>2. CASE k # id
    <3>1. frames'[k] = frames[k] /\ Duty(k)
      BY <1>1, <2>2 DEF OrphanInv, Owed, Shaped
    <3>2. Carries(k, frames[k], frames[k])
      BY <1>1, <1>3, <1>5, <3>1, ChildrenStay, Untouched DEF OrphanInv, Owed
    <3> QED BY <3>1, <3>2, CarriesDuty DEF OrphanInv, Owed
  <2> QED BY <2>1, <2>2
<1> QED BY <1>1, <1>2, <1>4, <1>6

(* One call makes another, and waits for it. *)
LEMMA OneCalls ==
  ASSUME OrphanInv, Shrinks, NEW id \in DOMAIN frames, NEW f, f = frames[id], ~f.waits,
         NEW k \in FrameIds \ DOMAIN frames, NEW g, NEW h,
         frames' = [i \in DOMAIN frames \cup {k} |-> IF i = k THEN h ELSE IF i = id THEN g ELSE frames[i]],
         Fit(g), g.caller = f.caller, g.waits, Carries(id, f, g),
         Fit(h), h.caller = id, Duty(k)'
  PROVE  Shaped' /\ Linked' /\ \A j \in DOMAIN frames' : Duty(j)'
<1>1. /\ DOMAIN frames' = DOMAIN frames \cup {k} /\ frames'[id] = g /\ frames'[k] = h
      /\ \A j \in DOMAIN frames \ {id} : frames'[j] = frames[j]
  OBVIOUS
<1>2. Shaped'
  BY <1>1, ShapeStays DEF OrphanInv, Owed, Shaped
<1>3. \A j \in DOMAIN frames :
        /\ frames'[j].caller = frames[j].caller /\ frames'[j].at = frames[j].at
        /\ frames'[j].kind = frames[j].kind
        /\ frames[j].kind \in {"gesture", "ask"} => frames'[j].row = frames[j].row
  BY <1>1 DEF Carries
<1>4. Linked'
  <2>1. id \in FrameIds /\ \A j \in DOMAIN frames : frames[j].caller # id
    BY DEF OrphanInv, Owed, Linked, Shaped
  <2>2. \A j \in DOMAIN frames' : frames'[j].caller \in FrameIds =>
          frames'[j].caller \in DOMAIN frames' /\ frames'[frames'[j].caller].waits
    <3> SUFFICES ASSUME NEW j \in DOMAIN frames', frames'[j].caller \in FrameIds
                 PROVE  frames'[j].caller \in DOMAIN frames' /\ frames'[frames'[j].caller].waits
      OBVIOUS
    <3>1. CASE j = k
      BY <1>1, <3>1
    <3>2. CASE j \in DOMAIN frames
      <4>1. frames[j].caller \in DOMAIN frames /\ frames[frames[j].caller].waits /\ frames[j].caller # id
        BY <1>3, <2>1, <3>2 DEF OrphanInv, Owed, Linked
      <4> QED BY <1>1, <1>3, <3>2, <4>1
    <3> QED BY <1>1, <3>1, <3>2
  <2>3. ASSUME NEW i \in DOMAIN frames', NEW j \in DOMAIN frames',
               frames'[i].caller = frames'[j].caller, frames'[i].caller \in FrameIds
        PROVE  i = j
    <3>1. CASE i \in DOMAIN frames /\ j \in DOMAIN frames
      BY <1>3, <2>3, <3>1 DEF OrphanInv, Owed, Linked
    <3>2. CASE i = k
      BY <1>1, <1>3, <2>1, <2>3, <3>2
    <3>3. CASE j = k
      BY <1>1, <1>3, <2>1, <2>3, <3>3
    <3> QED BY <1>1, <3>1, <3>2, <3>3
  <2> QED BY <2>2, <2>3 DEF Linked
<1>5. ASSUME NEW j \in DOMAIN frames PROVE Duty(j)'
  <2>1. CASE j = id
    BY <1>1, <2>1, CarriesDuty DEF OrphanInv, Owed
  <2>2. CASE j # id
    <3>1. frames'[j] = frames[j] /\ Duty(j)
      BY <1>1, <2>2 DEF OrphanInv, Owed, Shaped
    <3>2. Carries(j, frames[j], frames[j])
      BY <1>1, <1>3, <3>1, ChildrenStay, Untouched DEF OrphanInv, Owed
    <3> QED BY <3>1, <3>2, CarriesDuty DEF OrphanInv, Owed
  <2> QED BY <2>1, <2>2
<1> QED BY <1>1, <1>2, <1>4, <1>5

-----------------------------------------------------------------------------
LEMMA ThenOwes ==
  ASSUME NEW f, Formed(f), f.stage = "walk", ~f.waits, f.err = "none", f.todo # << >>,
         Next1(f).do \in {"restrict", "level"}, NEW i, NEW items \in Seq(Items),
         \A item \in In(items) :
           /\ item.do = "delete" => \A c \in item.rows : Entity[c] \in Hosts[f.at]
           /\ item.do = "null" => \E j \in DOMAIN Fields : item.fields = {j},
         NEW g, g = Then(f, i, items)
  PROVE  /\ Fit(g)
         /\ g.at = f.at /\ g.caller = f.caller /\ g.kind = f.kind /\ g.row = f.row
         /\ g.seen = f.seen /\ g.err = "none" /\ ~g.waits /\ g.stage \in {"hop", "walk", "row"}
         /\ In(items) \subseteq Todo(g)
         /\ \A j, c : ToNull(f, j, c) => ToNull(g, j, c)
         /\ \A c : ToDelete(f, c) => ToDelete(g, c)
         /\ \A q : ToAsk(f, q) => ToAsk(g, q)
         /\ \A j \in DOMAIN Fields :
              HostedAt(f.at, j) /\ Fields[j].to = Entity[f.row] /\ ToLook(f, j) =>
                ToLook(g, j) \/ (j = i /\ f.row \in Next1(f).rows)
<1>0. PICK todo : todo = LookedAt(f, i, items)
  OBVIOUS
<1> DEFINE h == [f EXCEPT !.todo = todo]
<1>1. g = Onward(h)
  BY <1>0 DEF Then, LookedAt
<1>2. /\ todo \in Seq(Items) /\ Next1(f) \in Todo(f)
      /\ In(items) \subseteq In(todo)
      /\ \A item \in In(todo) : item \in Todo(f) \/ item \in In(items) \/ item.do = Next1(f).do
      /\ \A item \in Todo(f) : item \in In(todo) \/
           /\ item = Next1(f)
           /\ \A j \in item.fields \ {i} : \E left \in In(todo) :
                left.do = item.do /\ j \in left.fields /\ left.rows = item.rows
  BY <1>0, ThenKeeps
<1>3. f \in Callings
  BY DEF Formed
<1>4. /\ h.at = f.at /\ h.caller = f.caller /\ h.kind = f.kind /\ h.row = f.row
      /\ h.seen = f.seen /\ h.err = f.err /\ h.waits = f.waits /\ h.stage = f.stage
      /\ h \in Callings /\ Todo(h) = In(todo)
  BY <1>2, <1>3 DEF Callings, Todo
<1> HIDE DEF h
<1>6. Formed(h)
  BY <1>2, <1>4 DEF Formed
<1>7. /\ Fit(g)
      /\ g.at = f.at /\ g.caller = f.caller /\ g.kind = f.kind /\ g.row = f.row
      /\ g.seen = f.seen /\ g.err = "none" /\ ~g.waits /\ g.stage \in {"hop", "walk", "row"}
      /\ Todo(h) \subseteq Todo(g)
      /\ \A j \in DOMAIN Fields :
           HostedAt(f.at, j) /\ Fields[j].to = Entity[f.row] /\ ToLook(h, j) => ToLook(g, j)
  BY <1>1, <1>4, <1>6, OnwardOwes
<1>8. \A j, c : ToNull(f, j, c) => ToNull(g, j, c)
  BY <1>2, <1>4, <1>7 DEF ToNull
<1>9. \A c : ToDelete(f, c) => ToDelete(g, c)
  BY <1>2, <1>4, <1>7 DEF ToDelete
<1>10. \A q : ToAsk(f, q) => ToAsk(g, q)
  BY <1>2, <1>4, <1>7 DEF ToAsk
<1>11. \A j \in DOMAIN Fields :
         ToLook(f, j) => ToLook(h, j) \/ (j = i /\ f.row \in Next1(f).rows)
  BY <1>2, <1>4 DEF ToLook
<1> QED BY <1>2, <1>4, <1>7, <1>8, <1>9, <1>10, <1>11

LEMMA LessOwes ==
  ASSUME NEW f, Fit(f), f.stage \in {"hop", "walk"}, ~f.waits, NEW rows, NEW asks,
         NEW g, g = Less(f, rows, asks)
  PROVE  /\ Formed(g) /\ Next1(f) \in Todo(f) /\ g.stage = f.stage /\ ~g.waits
         /\ g.at = f.at /\ g.caller = f.caller /\ g.kind = f.kind /\ g.row = f.row
         /\ g.seen = f.seen /\ g.err = "none" /\ f.err = "none"
         /\ \A j, c : ToNull(f, j, c) => ToNull(g, j, c) \/
              (Next1(f).do = "null" /\ j \in Next1(f).fields /\ c \in rows)
         /\ \A c : ToDelete(f, c) => ToDelete(g, c) \/ (Next1(f).do = "delete" /\ c \in rows)
         /\ \A q : ToAsk(f, q) => ToAsk(g, q) \/ (Next1(f).do = "ask" /\ <<f.row, q>> \in asks)
         /\ Next1(f).do \notin {"restrict", "level"} => \A j : ToLook(f, j) => ToLook(g, j)
<1>1. f \in Callings /\ Formed(f) /\ f.todo # << >> /\ f.err = "none"
  BY DEF Fit, Formed
<1>2. /\ Next1(f) \in Todo(f)
      /\ g.todo \in Seq(Items) /\ g = [f EXCEPT !.todo = g.todo]
      /\ \A item \in Todo(g) : item \in Todo(f) \/
           (\E was \in Todo(f) : item.do = was.do /\ item.fields = was.fields /\ item.rows \subseteq was.rows)
      /\ \A item \in Todo(f) : item \in Todo(g) \/
           /\ item = Next1(f)
           /\ \A c \in item.rows \ rows : \E left \in Todo(g) :
                left.do = item.do /\ left.fields = item.fields /\ c \in left.rows
           /\ \A a \in item.asks \ asks : \E left \in Todo(g) :
                left.do = item.do /\ a \in left.asks
  BY <1>1, LessKeeps
<1>3. /\ g.at = f.at /\ g.caller = f.caller /\ g.kind = f.kind /\ g.row = f.row
      /\ g.seen = f.seen /\ g.err = f.err /\ g.waits = f.waits /\ g.stage = f.stage
      /\ g \in Callings
  BY <1>1, <1>2 DEF Callings
<1>4. Formed(g)
  BY <1>1, <1>2, <1>3 DEF Formed
<1>5. \A j, c : ToNull(f, j, c) => ToNull(g, j, c) \/
        (Next1(f).do = "null" /\ j \in Next1(f).fields /\ c \in rows)
  BY <1>2 DEF ToNull
<1>6. \A c : ToDelete(f, c) => ToDelete(g, c) \/ (Next1(f).do = "delete" /\ c \in rows)
  BY <1>2 DEF ToDelete
<1>7. \A q : ToAsk(f, q) => ToAsk(g, q) \/ (Next1(f).do = "ask" /\ <<f.row, q>> \in asks)
  BY <1>2, <1>3 DEF ToAsk
<1>8. Next1(f).do \notin {"restrict", "level"} => \A j : ToLook(f, j) => ToLook(g, j)
  BY <1>2, <1>3 DEF ToLook
<1> QED BY <1>1, <1>2, <1>3, <1>4, <1>5, <1>6, <1>7, <1>8

-----------------------------------------------------------------------------
(* One lemma per step of a call. *)

LEMMA NoOneMoreOrphan ==
  ASSUME OrphanInv, UNCHANGED stored, Shrinks PROVE OrphansWereBegun'
<1> SUFFICES ASSUME NEW i \in DOMAIN Fields, NEW r \in stored, NEW x, x = names'[i][r],
                    x \notin stored \cup {Nobody}
             PROVE  \E q \in Procs : HostedAt(q, i) /\
                      (Begun(q, r)' \/ (AskedAbout(q, x) /\ Begun(q, x)'))
  BY DEF OrphansWereBegun, AskedAbout, Begun, HostedAt
<1>1. r \in Rows /\ names[i][r] = x /\ x \in Rows
  BY DEF OrphanInv, Owed, Shaped, Shrinks
<1>2. PICK q \in Procs : HostedAt(q, i) /\ (Begun(q, r) \/ (AskedAbout(q, x) /\ Begun(q, x)))
  BY <1>1 DEF OrphanInv, Owed, OrphansWereBegun
<1>3. (Begun(q, r) => Begun(q, r)') /\ (Begun(q, x) => Begun(q, x)')
  BY <1>1 DEF Shrinks
<1> QED BY <1>2, <1>3

(* A step that leaves the runs alone is left with the rows and the calls.  *)
LEMMA NoRunMoves ==
  ASSUME OrphanInv, UNCHANGED <<stored, runs, pid>>, Shrinks,
         Shaped', Linked', \A k \in DOMAIN frames' : Duty(k)'
  PROVE  Owed'
<1>1. OrphansWereBegun'
  BY NoOneMoreOrphan
<1>2. Written'
  BY NothingForgotten DEF OrphanInv, Owed
<1> QED BY <1>1, <1>2 DEF Owed

LEMMA RefusingFails ==
  ASSUME OrphanInv, NEW id \in DOMAIN frames, ~frames[id].waits, NEW error \in {"refused", "failed"},
         Becomes(id, Fail(frames[id], error)), UNCHANGED <<stored, names, runs, pid>>
  PROVE  Owed'
<1>1. PICK f : f = frames[id]
  OBVIOUS
<1>2. PICK g : g = Fail(f, error)
  OBVIOUS
<1>3. Fit(f) /\ Formed(f)
  BY <1>1 DEF OrphanInv, Owed, Shaped, Fit
<1>4. /\ Fit(g) /\ g.err # "none" /\ ~g.waits
      /\ g.at = f.at /\ g.caller = f.caller /\ g.kind = f.kind /\ g.row = f.row
  BY <1>1, <1>2, <1>3, FailFits
<1>5. Carries(id, f, g)
  BY <1>4 DEF Carries, Owes
<1>6. f.waits = FALSE /\ g.waits = FALSE
  BY <1>1, <1>3, <1>4 DEF Fit, Formed, Callings
<1>7. Shrinks
  BY NothingGone DEF OrphanInv, Owed
<1>8. Becomes(id, g)
  BY <1>1, <1>2
<1> QED BY <1>1, <1>4, <1>5, <1>6, <1>7, <1>8, OneMoves, NoRunMoves

(* A field looked at: what names the row of the call by it is laid out, or *)
(* in hand already.                                                        *)
LEMMA Looked ==
  ASSUME OrphanInv, NEW id \in DOMAIN frames, NEW f, f = frames[id], f.stage = "walk", ~f.waits,
         NEW do \in {"restrict", "level"}, NEW i \in DOMAIN Fields, LooksAt(f, do, i),
         NEW h, Formed(h), h.at = f.at, h.caller = f.caller, h.kind = f.kind, h.row = f.row,
         h.stage = f.stage, ~h.waits, h.err = f.err, h.todo = f.todo,
         NEW items \in Seq(Items),
         \A item \in In(items) :
           /\ item.do = "delete" => \A c \in item.rows : Entity[c] \in Hosts[f.at]
           /\ item.do = "null" => \E j \in DOMAIN Fields : item.fields = {j},
         HostedAt(f.at, i) => \A c \in Naming(i, Next1(f).rows) : c \in f.seen \/
           \E item \in In(items) :
             c \in item.rows /\ (item.do = "delete" \/ (item.do = "null" /\ i \in item.fields)),
         \A c \in h.seen \ f.seen : \E item \in In(items) : item.do = "delete" /\ c \in item.rows,
         Becomes(id, Then(h, i, items)), UNCHANGED <<stored, names, runs, pid>>
  PROVE  Owed'
<1>1. PICK g : g = Then(h, i, items)
  OBVIOUS
<1>2. Fit(f) /\ f.todo # << >> /\ f.err = "none" /\ f.row \in Rows /\ f \in Callings
  BY DEF OrphanInv, Owed, Shaped, Fit, Formed, Callings
<1>3. Next1(h) = Next1(f) /\ Next1(f).do = do /\ Todo(h) = Todo(f)
  BY DEF Next1, LooksAt, Todo
<1>4. /\ Fit(g)
      /\ g.at = f.at /\ g.caller = f.caller /\ g.kind = f.kind /\ g.row = f.row
      /\ g.seen = h.seen /\ g.err = "none" /\ ~g.waits /\ g.stage \in {"hop", "walk", "row"}
      /\ In(items) \subseteq Todo(g)
      /\ \A k, c : ToNull(h, k, c) => ToNull(g, k, c)
      /\ \A c : ToDelete(h, c) => ToDelete(g, c)
      /\ \A q : ToAsk(h, q) => ToAsk(g, q)
      /\ \A k \in DOMAIN Fields :
           HostedAt(f.at, k) /\ Fields[k].to = Entity[f.row] /\ ToLook(h, k) =>
             ToLook(g, k) \/ (k = i /\ f.row \in Next1(f).rows)
  BY <1>1, <1>2, <1>3, ThenOwes
<1>5. /\ \A k, c : ToNull(f, k, c) => ToNull(g, k, c)
      /\ \A c : ToDelete(f, c) => ToDelete(g, c)
      /\ \A q : ToAsk(f, q) => ToAsk(g, q)
  BY <1>3, <1>4 DEF ToNull, ToDelete, ToAsk
<1>6. \A k : ToLook(f, k) => ToLook(h, k)
  BY <1>3 DEF ToLook
<1>7. Shrinks
  BY NothingGone DEF OrphanInv, Owed
<1>8. Becomes(id, g) /\ f.waits = FALSE /\ g.waits = FALSE
  BY <1>1, <1>2, <1>4 DEF Fit, Formed, Callings
<1>9. /\ \A k, q, c : Deleting(k, q, c) => Deleting(k, q, c)'
      /\ \A k, q, r : Asking(k, q, r) => Asking(k, q, r)'
  <2>1. \A k \in DOMAIN frames : /\ k \in DOMAIN frames'
                                 /\ frames'[k].at = frames[k].at /\ frames'[k].kind = frames[k].kind
                                 /\ frames'[k].row = frames[k].row /\ frames'[k].caller = frames[k].caller
    BY <1>4, <1>8 DEF Becomes
  <2> QED BY <2>1, ChildrenStay
<1>14. Owes(g) => Owes(f)
  BY <1>2, <1>4 DEF Owes
<1>10. ASSUME Owes(f), HostedAt(f.at, i), f.row \in Next1(f).rows,
              NEW c \in stored' \ {f.row}, names'[i][c] = f.row
       PROVE  ToNull(g, i, c) \/ ToDelete(g, c) \/ Deleting(id, f.at, c)' \/ Begun(f.at, c)'
  <2>1. c \in stored /\ c \in Rows /\ names[i][c] = f.row /\ Names[i][c] = f.row
    BY <1>2, <1>10, NamesAreRows DEF OrphanInv, Owed, Shaped
  <2>2. c \in Naming(i, Next1(f).rows)
    BY <1>2, <1>10, <2>1, NamesAreRows, NamesFit DEF Naming
  <2>3. CASE c \in f.seen
    <3>1. ToDelete(f, c) \/ Deleting(id, f.at, c) \/ Begun(f.at, c)
      BY <1>2, <1>10, <2>1, <2>3 DEF OrphanInv, Owed, Duty, SeenDone
    <3>2. Begun(f.at, c) => Begun(f.at, c)'
      BY DEF Begun
    <3> QED BY <1>5, <1>9, <3>1, <3>2
  <2>4. CASE \E item \in In(items) :
               c \in item.rows /\ (item.do = "delete" \/ (item.do = "null" /\ i \in item.fields))
    BY <1>4, <2>4 DEF ToNull, ToDelete
  <2> QED BY <1>10, <2>2, <2>3, <2>4
<1>11. \A c \in g.seen \ f.seen : ToDelete(g, c)
  BY <1>4 DEF ToDelete
<1>12. Carries(id, f, g)
  BY <1>2, <1>4, <1>5, <1>6, <1>9, <1>10, <1>11, <1>14 DEF Carries
<1> QED BY <1>4, <1>7, <1>8, <1>12, OneMoves, NoRunMoves

LEMMA RestrictKeeps ==
  ASSUME OrphanInv, NEW id \in DOMAIN frames, NEW i \in DOMAIN Fields, RefuseRestricted(id, i)
  PROVE  Owed'
<1>1. PICK f : f = frames[id]
  OBVIOUS
<1>2. f.stage = "walk" /\ ~f.waits /\ LooksAt(f, "restrict", i) /\ UNCHANGED <<stored, names, runs, pid>> /\ Formed(f)
  BY <1>1 DEF RefuseRestricted, Runnable, OrphanInv, Owed, Shaped, Fit
<1>3. CASE HostedAt(f.at, i) /\ Naming(i, Next1(f).rows) # {}
  BY <1>1, <1>2, <1>3, RefusingFails DEF RefuseRestricted
<1>4. CASE ~(HostedAt(f.at, i) /\ Naming(i, Next1(f).rows) # {})
  <2>1. Becomes(id, Then(f, i, << >>))
    BY <1>1, <1>4 DEF RefuseRestricted
  <2>2. << >> \in Seq(Items) /\ In(<< >>) = {}
    BY NoneAndOne
  <2> QED BY <1>1, <1>2, <1>4, <2>1, <2>2, Looked
<1> QED BY <1>3, <1>4

LEMMA LevelKeeps ==
  ASSUME OrphanInv, NEW id \in DOMAIN frames, NEW i \in DOMAIN Fields, Level(id, i)
  PROVE  Owed'
<1>1. PICK f : f = frames[id]
  OBVIOUS
<1>2. /\ f.stage = "walk" /\ ~f.waits /\ LooksAt(f, "level", i) /\ UNCHANGED <<stored, names, runs, pid>>
      /\ Formed(f) /\ f \in Callings /\ f.todo # << >>
  BY <1>1 DEF Level, Runnable, OrphanInv, Owed, Shaped, Fit, Formed
<1>3. Next1(f) \in Items /\ Next1(f).rows \subseteq Rows
  <2>1. f.todo \in Seq(Items)
    BY <1>2 DEF Callings
  <2>2. f.todo[1] \in Items
    BY <1>2, <2>1, HeadAndRest
  <2> QED BY <2>2 DEF Next1, Items
<1> DEFINE found == Naming(i, Next1(f).rows)
           below == found \ f.seen
           ask == Ask(f.at, Next1(f).rows \ f.trail)
<1>4. found \subseteq Rows /\ \A c \in found : Entity[c] = Fields[i].of
  BY DEF Naming, OrphanInv, Owed, Shaped
<1>5. CASE ~HostedAt(f.at, i)
  <2>1. PICK items : items = IF ask.asks = {} THEN << >> ELSE <<ask>>
    OBVIOUS
  <2>2. ask \in Items /\ ask.do = "ask"
    BY <1>2, <1>3, PeersAreProcs DEF Ask, Item, Items, Callings
  <2>3. items \in Seq(Items) /\ \A item \in In(items) : item.do = "ask"
    <3> HIDE DEF ask
    <3> QED BY <2>1, <2>2, NoneAndOne
  <2>4. Becomes(id, Then(f, i, items))
    BY <1>1, <1>5, <2>1 DEF Level
  <2> QED BY <1>1, <1>2, <1>5, <2>3, <2>4, Looked
<1>6. CASE HostedAt(f.at, i) /\ (found = {} \/ (Fields[i].rule # "set null" /\ below = {}))
  <2>1. Becomes(id, Then(f, i, << >>))
    BY <1>1, <1>6 DEF Level
  <2>2. << >> \in Seq(Items) /\ In(<< >>) = {}
    BY NoneAndOne
  <2>3. \A c \in found : c \in f.seen
    BY <1>6
  <2> QED BY <1>1, <1>2, <2>1, <2>2, <2>3, Looked
<1>7. CASE HostedAt(f.at, i) /\ found # {} /\ Fields[i].rule = "set null"
  <2>1. PICK item : item = Item("null", {i}, found, {})
    OBVIOUS
  <2>2. item \in Items /\ item.do = "null" /\ item.fields = {i} /\ item.rows = found
    BY <1>4, <2>1 DEF Item, Items
  <2>0. PICK items : items = <<item>>
    OBVIOUS
  <2>3. Becomes(id, Then(f, i, items))
    BY <1>1, <1>7, <2>0, <2>1 DEF Level
  <2>4. items \in Seq(Items) /\ In(items) = {item}
    BY <2>0, <2>2, NoneAndOne
  <2> HIDE DEF found
  <2>5. \A c \in found : \E one \in In(items) :
          c \in one.rows /\ (one.do = "delete" \/ (one.do = "null" /\ i \in one.fields))
    BY <2>2, <2>4
  <2>6. \A one \in In(items) : one.do # "delete" /\ \E j \in DOMAIN Fields : one.fields = {j}
    BY <2>2, <2>4
  <2> QED BY <1>1, <1>2, <2>3, <2>4, <2>5, <2>6, Looked DEF found
<1>8. CASE HostedAt(f.at, i) /\ found # {} /\ Fields[i].rule # "set null" /\ below # {}
  <2>1. PICK item : item = Item("delete", {}, below, {})
    OBVIOUS
  <2>2. item \in Items /\ item.do = "delete" /\ item.rows = below
    BY <1>4, <2>1 DEF Item, Items
  <2>3. PICK walk : walk = Walk(f.at, Fields[i].of, below)
    OBVIOUS
  <2>4. walk \in Seq(Items) /\ \A one \in In(walk) : one.do \in {"restrict", "level"}
    BY <1>4, <2>3, WalkLooks
  <2>5. PICK items : items = walk \o <<item>>
    OBVIOUS
  <2>6. <<item>> \in Seq(Items) /\ In(<<item>>) = {item}
    BY <2>2, NoneAndOne
  <2>7. items \in Seq(Items) /\ In(items) = In(walk) \cup {item}
    <3>1. PICK last : last = <<item>>
      OBVIOUS
    <3>2. last \in Seq(Items) /\ In(last) = {item} /\ items = walk \o last
      BY <2>5, <2>6, <3>1
    <3> QED BY <2>4, <3>2, Joined
  <2>8. Append(walk, item) = items
    BY <2>2, <2>4, <2>5
  <2>9. PICK h : h = [f EXCEPT !.seen = @ \cup below]
    OBVIOUS
  <2>10. Becomes(id, Then(h, i, items))
    BY <1>1, <1>8, <2>1, <2>3, <2>8, <2>9 DEF Level
  <2>11. /\ h \in Callings /\ h.at = f.at /\ h.caller = f.caller /\ h.kind = f.kind /\ h.row = f.row
         /\ h.stage = f.stage /\ h.waits = f.waits /\ h.err = f.err /\ h.todo = f.todo
         /\ h.seen = f.seen \cup below
    BY <1>2, <1>4, <2>9 DEF Callings
  <2>12. Formed(h)
    BY <1>2, <2>11 DEF Formed, Todo
  <2>13. \A c \in item.rows : Entity[c] \in Hosts[f.at]
    BY <1>4, <1>8, <2>2 DEF HostedAt
  <2>14. \A c \in found : c \in f.seen \/ c \in item.rows
    BY <2>2
  <2>15. \A c \in h.seen \ f.seen : c \in item.rows
    BY <2>2, <2>11
  <2> HIDE DEF below
  <2> QED BY <1>1, <1>2, <2>2, <2>4, <2>7, <2>10, <2>11, <2>12, <2>13, <2>14, <2>15, Looked
<1> QED BY <1>5, <1>6, <1>7, <1>8

LEMMA NullKeeps ==
  ASSUME OrphanInv, NEW id \in DOMAIN frames, NEW r \in Rows, Null(id, r)
  PROVE  Owed'
<1>1. PICK f : f = frames[id]
  OBVIOUS
<1>2. /\ f.stage = "walk" /\ ~f.waits /\ Next1(f).do = "null" /\ r \in Next1(f).rows
      /\ UNCHANGED <<stored, runs, pid>> /\ Fit(f) /\ f \in Callings
  BY <1>1 DEF Null, Runnable, OrphanInv, Owed, Shaped, Fit, Formed
<1>3. CASE r \notin stored
  <2>1. Becomes(id, Fail(f, "refused")) /\ UNCHANGED names
    BY <1>1, <1>3 DEF Null
  <2> QED BY <1>1, <1>2, <2>1, RefusingFails
<1>4. CASE r \in stored
  <2>1. PICK i \in Next1(f).fields : names' = [names EXCEPT ![i][r] = Nobody]
    BY <1>1, <1>4 DEF Null
  <2>2. PICK h : h = Less(f, {r}, {})
    OBVIOUS
  <2>3. PICK g : g = Onward(h)
    OBVIOUS
  <2>4. /\ Formed(h) /\ Next1(f) \in Todo(f) /\ h.stage = f.stage /\ ~h.waits
        /\ h.at = f.at /\ h.caller = f.caller /\ h.kind = f.kind /\ h.row = f.row
        /\ h.seen = f.seen /\ h.err = "none" /\ f.err = "none"
        /\ \A j, c : ToNull(f, j, c) => ToNull(h, j, c) \/ (j \in Next1(f).fields /\ c = r)
        /\ \A c : ToDelete(f, c) => ToDelete(h, c)
        /\ \A q : ToAsk(f, q) => ToAsk(h, q)
        /\ \A j : ToLook(f, j) => ToLook(h, j)
    <3>1. PICK rows, asks : rows = {r} /\ asks = {}
      OBVIOUS
    <3>2. h = Less(f, rows, asks)
      BY <2>2, <3>1
    <3>3. /\ Formed(h) /\ Next1(f) \in Todo(f) /\ h.stage = f.stage /\ ~h.waits
          /\ h.at = f.at /\ h.caller = f.caller /\ h.kind = f.kind /\ h.row = f.row
          /\ h.seen = f.seen /\ h.err = "none" /\ f.err = "none"
          /\ \A j, c : ToNull(f, j, c) => ToNull(h, j, c) \/
               (Next1(f).do = "null" /\ j \in Next1(f).fields /\ c \in rows)
          /\ \A c : ToDelete(f, c) => ToDelete(h, c) \/ (Next1(f).do = "delete" /\ c \in rows)
          /\ \A q : ToAsk(f, q) => ToAsk(h, q) \/ (Next1(f).do = "ask" /\ <<f.row, q>> \in asks)
          /\ Next1(f).do \notin {"restrict", "level"} => \A j : ToLook(f, j) => ToLook(h, j)
      <4>1. Fit(f) /\ f.stage \in {"hop", "walk"} /\ ~f.waits
        BY <1>2
      <4> QED BY <3>2, <4>1, LessOwes
    <3> QED BY <1>2, <3>1, <3>3
  <2>5. /\ Fit(g)
        /\ g.at = f.at /\ g.caller = f.caller /\ g.kind = f.kind /\ g.row = f.row
        /\ g.seen = f.seen /\ g.err = "none" /\ ~g.waits /\ g.stage \in {"hop", "walk", "row"}
        /\ Todo(h) \subseteq Todo(g)
        /\ \A k \in DOMAIN Fields :
             HostedAt(f.at, k) /\ Fields[k].to = Entity[f.row] /\ ToLook(h, k) => ToLook(g, k)
    BY <1>2, <2>3, <2>4, OnwardOwes
  <2>6. Next1(f).fields = {i} /\ i \in DOMAIN Fields
    BY <1>2, <2>1, <2>4 DEF Fit, Formed
  <2>7. Shrinks /\ names'[i][r] = Nobody
    BY <1>2, <2>1, <2>6, NothingForgotten DEF Shrinks, OrphanInv, Owed, Shaped
  <2>8. Becomes(id, g) /\ f.waits = FALSE /\ g.waits = FALSE
    BY <1>1, <1>2, <1>4, <2>2, <2>3, <2>5 DEF Null, Fit, Formed, Callings
  <2>9. /\ \A k, q, c : Deleting(k, q, c) => Deleting(k, q, c)'
        /\ \A k, q, x : Asking(k, q, x) => Asking(k, q, x)'
    <3>1. \A k \in DOMAIN frames : /\ k \in DOMAIN frames'
                                   /\ frames'[k].at = frames[k].at /\ frames'[k].kind = frames[k].kind
                                   /\ frames'[k].row = frames[k].row /\ frames'[k].caller = frames[k].caller
      BY <1>1, <2>5, <2>8 DEF Becomes
    <3> QED BY <3>1, ChildrenStay
  <2>10. /\ \A j, c : ToNull(f, j, c) => ToNull(g, j, c) \/ (j = i /\ c = r)
         /\ \A c : ToDelete(f, c) => ToDelete(g, c)
         /\ \A q : ToAsk(f, q) => ToAsk(g, q)
    <3>1. /\ \A j, c : ToNull(h, j, c) => ToNull(g, j, c)
          /\ \A c : ToDelete(h, c) => ToDelete(g, c)
          /\ \A q : ToAsk(h, q) => ToAsk(g, q)
      BY <2>4, <2>5 DEF ToNull, ToDelete, ToAsk
    <3> QED BY <2>4, <2>6, <3>1
  <2>11. f.row # Nobody
    BY <1>2, NamesAreRows DEF Callings
  <2>12. Carries(id, f, g)
    BY <1>2, <2>4, <2>5, <2>7, <2>9, <2>10, <2>11 DEF Carries, Owes
  <2> QED BY <1>1, <1>2, <2>5, <2>7, <2>8, <2>12, OneMoves, NoRunMoves
<1> QED BY <1>3, <1>4

(* A call made for what heads the list: it takes over what was owed.       *)
LEMMA CalledKeeps ==
  ASSUME OrphanInv, NEW id \in DOMAIN frames, NEW f, f = frames[id],
         f.stage \in {"hop", "walk"}, ~f.waits, NEW rows, NEW asks,
         NEW p \in Procs, NEW kind \in {"gesture", "ask", "redo"}, NEW r \in Rows, NEW visited \in SUBSET Rows,
         kind = "gesture" => visited = {} /\ Entity[r] \in Hosts[p],
         Next1(f).do \in {"delete", "ask", "redo"},
         Next1(f).do = "delete" => kind = "gesture" /\ rows = {r} /\ p = f.at,
         Next1(f).do = "ask" => kind = "ask" /\ asks = {<<r, p>>},
         NEW h, h = Onward(Frame(p, id, kind, r, visited)),
         Awaits(id, Less(f, rows, asks), h), UNCHANGED <<stored, names, runs, pid>>
  PROVE  Owed'
<1>1. Fit(f) /\ f.row \in Rows
  BY DEF OrphanInv, Owed, Shaped, Fit, Formed, Callings
<1>2. PICK l : l = Less(f, rows, asks)
  OBVIOUS
<1>3. /\ Formed(l) /\ l.stage = f.stage /\ ~l.waits
      /\ l.at = f.at /\ l.caller = f.caller /\ l.kind = f.kind /\ l.row = f.row
      /\ l.seen = f.seen /\ l.err = "none" /\ f.err = "none"
      /\ \A j, c : ToNull(f, j, c) => ToNull(l, j, c) \/
           (Next1(f).do = "null" /\ j \in Next1(f).fields /\ c \in rows)
      /\ \A c : ToDelete(f, c) => ToDelete(l, c) \/ (Next1(f).do = "delete" /\ c \in rows)
      /\ \A q : ToAsk(f, q) => ToAsk(l, q) \/ (Next1(f).do = "ask" /\ <<f.row, q>> \in asks)
      /\ Next1(f).do \notin {"restrict", "level"} => \A j : ToLook(f, j) => ToLook(l, j)
  BY <1>1, <1>2, LessOwes
<1>4. PICK g : g = [l EXCEPT !.waits = TRUE]
  OBVIOUS
<1>5. /\ g \in Callings /\ g.at = l.at /\ g.caller = l.caller /\ g.kind = l.kind /\ g.row = l.row
      /\ g.seen = l.seen /\ g.err = l.err /\ g.stage = l.stage /\ g.waits /\ g.todo = l.todo
  BY <1>3, <1>4 DEF Formed, Callings
<1>6. Fit(g)
  BY <1>3, <1>5 DEF Fit, Formed, Todo
<1>7. /\ \A j, c : ToNull(f, j, c) => ToNull(g, j, c)
      /\ \A c : ToDelete(f, c) => ToDelete(g, c) \/ (kind = "gesture" /\ c = r /\ p = f.at)
      /\ \A q : ToAsk(f, q) => ToAsk(g, q) \/ (kind = "ask" /\ f.row = r /\ q = p)
      /\ \A j : ToLook(f, j) => ToLook(g, j)
  <2>1. /\ \A j, c : ToNull(l, j, c) => ToNull(g, j, c)
        /\ \A c : ToDelete(l, c) => ToDelete(g, c)
        /\ \A q : ToAsk(l, q) => ToAsk(g, q)
        /\ \A j : ToLook(l, j) => ToLook(g, j)
    BY <1>5 DEF ToNull, ToDelete, ToAsk, ToLook, Todo
  <2> QED BY <1>3, <2>1
<1>8. PICK k \in FrameIds \ DOMAIN frames :
        frames' = [i \in DOMAIN frames \cup {k} |-> IF i = k THEN h ELSE IF i = id THEN g ELSE frames[i]]
  BY <1>2, <1>4, FreeIsFree DEF Awaits
<1>9. id \in FrameIds /\ f.waits = FALSE
  BY <1>1 DEF OrphanInv, Owed, Shaped, Fit, Formed, Callings
<1>10. /\ Fit(h) /\ h.stage \notin {"close", "end"} /\ h.at = p /\ h.caller = id /\ h.kind = kind /\ h.row = r /\ h.seen = {r}
       /\ \A i \in DOMAIN Fields : HostedAt(p, i) /\ Fields[i].to = Entity[r] => ToLook(h, i)
       /\ kind = "gesture" => \A q \in Peers[p] : ToAsk(h, q)
  <2>1. PICK who \in Users \cup {Nobody} \cup FrameIds : who = id
    BY <1>9
  <2>2. h = Onward(Frame(p, who, kind, r, visited))
    BY <2>1
  <2>3. /\ Fit(h) /\ ~h.waits /\ h.err = "none" /\ h.stage \notin {"close", "end"}
        /\ h.at = p /\ h.caller = who /\ h.kind = kind /\ h.row = r /\ h.seen = {r}
        /\ \A i \in DOMAIN Fields : HostedAt(p, i) /\ Fields[i].to = Entity[r] => ToLook(h, i)
        /\ kind = "gesture" => \A q \in Peers[p] : ToAsk(h, q)
    BY <2>2, NewCall
  <2> QED BY <2>1, <2>3
<1>11. Shrinks
  BY NothingGone DEF OrphanInv, Owed
<1>12. frames'[k] = h
  BY <1>8
<1>13. Duty(k)'
  BY <1>10, <1>11, <1>12, NewDuty DEF OrphanInv, Owed
<1>14. /\ \A x, q, c : Deleting(x, q, c) => Deleting(x, q, c)'
       /\ \A x, q, y : Asking(x, q, y) => Asking(x, q, y)'
  <2>1. \A x \in DOMAIN frames : /\ x \in DOMAIN frames'
                                 /\ frames'[x].at = frames[x].at /\ frames'[x].kind = frames[x].kind
                                 /\ frames'[x].row = frames[x].row /\ frames'[x].caller = frames[x].caller
    BY <1>3, <1>5, <1>8
  <2> QED BY <2>1, ChildrenStay
<1>15. /\ kind = "gesture" => Deleting(id, p, r)'
       /\ kind = "ask" => Asking(id, p, r)'
  BY <1>8, <1>10, <1>12 DEF Deleting, Asking
<1>16. f.err = "none" /\ g.stage \in {"hop", "walk"} /\ f.stage \in {"hop", "walk"}
  BY <1>3, <1>5
<1>17. Carries(id, f, g)
  BY <1>3, <1>5, <1>7, <1>14, <1>15, <1>16 DEF Carries, Owes
<1>19. g.caller = f.caller
  BY <1>3, <1>5
<1> QED BY <1>5, <1>6, <1>8, <1>10, <1>11, <1>13, <1>17, <1>19, OneCalls, NoRunMoves

LEMMA DeleteBelowKeeps ==
  ASSUME OrphanInv, NEW id \in DOMAIN frames, NEW r \in Rows, DeleteBelow(id, r)
  PROVE  Owed'
<1>1. PICK f : f = frames[id]
  OBVIOUS
<1>2. /\ f.stage = "walk" /\ ~f.waits /\ r \in Next1(f).rows /\ UNCHANGED <<stored, names, runs, pid>>
      /\ Fit(f) /\ f \in Callings /\ f.todo # << >> /\ f.todo \in Seq(Items)
  BY <1>1 DEF DeleteBelow, Runnable, OrphanInv, Owed, Shaped, Fit, Formed, Callings
<1>3. Next1(f) \in Items /\ Next1(f) \in Todo(f)
  BY <1>2, HeadAndRest DEF Next1, Todo
<1>4. PICK rows, asks, visited : rows = {r} /\ asks = {} /\ visited = {}
  OBVIOUS
<1>5. f.at \in Procs /\ visited \in SUBSET Rows /\ f.stage \in {"hop", "walk"}
  BY <1>2, <1>4 DEF Callings
<1>6. CASE Next1(f).do = "delete"
  <2>1. PICK kind : kind = "gesture"
    OBVIOUS
  <2>2. PICK h : h = Onward(Frame(f.at, id, kind, r, visited))
    OBVIOUS
  <2>3. Awaits(id, Less(f, rows, asks), h)
    BY <1>1, <1>4, <1>6, <2>1, <2>2 DEF DeleteBelow
  <2>4. kind \in {"gesture", "ask", "redo"} /\ Entity[r] \in Hosts[f.at]
    BY <1>2, <1>3, <1>6, <2>1 DEF Fit, Formed
  <2> QED BY <1>1, <1>2, <1>4, <1>5, <1>6, <2>1, <2>2, <2>3, <2>4, CalledKeeps
<1>7. CASE Next1(f).do = "redo"
  <2>1. PICK kind : kind = "redo"
    OBVIOUS
  <2>2. PICK h : h = Onward(Frame(f.at, id, kind, r, visited))
    OBVIOUS
  <2>3. Awaits(id, Less(f, rows, asks), h)
    BY <1>1, <1>4, <1>7, <2>1, <2>2 DEF DeleteBelow
  <2>4. kind \in {"gesture", "ask", "redo"}
    BY <2>1
  <2> QED BY <1>1, <1>2, <1>4, <1>5, <1>7, <2>1, <2>2, <2>3, <2>4, CalledKeeps
<1> QED BY <1>1, <1>6, <1>7 DEF DeleteBelow

LEMMA AskPeerKeeps ==
  ASSUME OrphanInv, NEW id \in DOMAIN frames, NEW r \in Rows, NEW q \in Procs, AskPeer(id, r, q)
  PROVE  Owed'
<1>1. PICK f : f = frames[id]
  OBVIOUS
<1>2. /\ f.stage \in {"hop", "walk"} /\ ~f.waits /\ Next1(f).do = "ask" /\ UNCHANGED <<stored, names, runs, pid>>
      /\ Fit(f) /\ f.trail \in SUBSET Rows
  BY <1>1 DEF AskPeer, OrphanInv, Owed, Shaped, Fit, Formed, Callings
<1>3. CASE q \notin up
  <2>1. Becomes(id, Fail(f, "refused"))
    BY <1>1, <1>3 DEF AskPeer
  <2> QED BY <1>1, <1>2, <2>1, RefusingFails
<1>4. CASE q \in up
  <2>1. Awaits(id, Less(f, {}, {<<r, q>>}), Onward(Frame(q, id, "ask", r, f.trail)))
    BY <1>1, <1>4 DEF AskPeer
  <2>2. PICK rows, asks, kind, visited : rows = {} /\ asks = {<<r, q>>} /\ kind = "ask" /\ visited = f.trail
    OBVIOUS
  <2>3. PICK h : h = Onward(Frame(q, id, kind, r, visited))
    OBVIOUS
  <2>4. Awaits(id, Less(f, rows, asks), h)
    BY <2>1, <2>2, <2>3
  <2>5. kind \in {"gesture", "ask", "redo"} /\ visited \in SUBSET Rows
    BY <1>2, <2>2
  <2> QED BY <1>1, <1>2, <2>2, <2>3, <2>4, <2>5, CalledKeeps
<1> QED BY <1>3, <1>4

LEMMA StorageFailsKeeps ==
  ASSUME OrphanInv, NEW id \in DOMAIN frames, StorageFails(id)
  PROVE  Owed'
  BY RefusingFails DEF StorageFails

(* A call whose walk is over has no child, and nothing left to do. *)
LEMMA Childless ==
  ASSUME OrphanInv, NEW id \in DOMAIN frames, ~frames[id].waits
  PROVE  /\ \A p, c : ~Deleting(id, p, c)
         /\ \A q, r : ~Asking(id, q, r)
         /\ \A g \in DOMAIN frames : frames[g].caller # id
<1>1. id \in FrameIds
  BY DEF OrphanInv, Owed, Shaped
<1>2. \A g \in DOMAIN frames : frames[g].caller # id
  BY <1>1 DEF OrphanInv, Owed, Linked
<1> QED BY <1>2 DEF Deleting, Asking

LEMMA NothingToDo ==
  ASSUME NEW f, Formed(f), f.stage = "row"
  PROVE  /\ Todo(f) = {}
         /\ \A i : ~ToLook(f, i) /\ \A c : ~ToNull(f, i, c)
         /\ \A c : ~ToDelete(f, c)
         /\ \A q : ~ToAsk(f, q)
<1>1. Todo(f) = {}
  BY NoneAndOne DEF Formed, Todo
<1> QED BY <1>1 DEF ToLook, ToNull, ToDelete, ToAsk

(* The row goes last: what is stored still and names it, wherever it is,   *)
(* had been begun by another.                                              *)
LEMMA NoneNamesIt ==
  ASSUME OrphanInv, NEW id \in DOMAIN frames, NEW f, f = frames[id], f.stage = "row", ~f.waits,
         f.kind = "gesture", NEW i \in DOMAIN Fields, NEW c \in stored \ {f.row}, names[i][c] = f.row
  PROVE  \E q \in Procs : HostedAt(q, i) /\
           (Begun(q, c) \/ (AskedAbout(q, f.row) /\ Begun(q, f.row)))
<1>1. /\ Fit(f) /\ Formed(f) /\ f \in Callings /\ f.row \in Rows /\ f.at \in Procs /\ f.err = "none"
      /\ Entity[f.row] \in Hosts[f.at] /\ Owes(f)
  BY DEF OrphanInv, Owed, Shaped, Fit, Formed, Callings, Owes
<1>2. c \in Rows /\ Names[i][c] = f.row
  BY <1>1, NamesAreRows DEF OrphanInv, Owed, Shaped
<1>3. Fields[i].to = Entity[f.row]
  BY <1>1, <1>2, NamesAreRows, NamesFit
<1>4. PICK q \in {f.at} \cup Peers[f.at] : HostedAt(q, i)
  BY <1>1, <1>3 DEF OrphanInv, EveryChildIsAsked, HostedAt
<1>5. CASE q = f.at
  <2>1. HereDone(id)
    BY DEF OrphanInv, Owed, Duty
  <2>2. ToLook(f, i) \/ ToNull(f, i, c) \/ ToDelete(f, c) \/ Deleting(id, f.at, c) \/ Begun(f.at, c)
    BY <1>1, <1>4, <1>5, <2>1 DEF HereDone
  <2>3. Begun(f.at, c)
    BY <1>1, <2>2, Childless, NothingToDo
  <2> QED BY <1>1, <1>4, <1>5, <2>3
<1>6. CASE q \in Peers[f.at]
  <2>1. PeersDone(id)
    BY DEF OrphanInv, Owed, Duty
  <2>2. Clear(q, f.row) \/ ToAsk(f, q) \/ Asking(id, q, f.row)
    BY <1>1, <1>6, <2>1 DEF PeersDone
  <2>3. Clear(q, f.row)
    BY <1>1, <2>2, Childless, NothingToDo
  <2>4. Begun(q, c) \/ Begun(q, f.row)
    BY <1>4, <2>3 DEF Clear
  <2>5. q \in Procs /\ AskedAbout(q, f.row)
    BY <1>1, <1>6, PeersAreProcs DEF AskedAbout
  <2> QED BY <1>4, <2>4, <2>5
<1> QED BY <1>4, <1>5, <1>6

LEMMA RowGoesKeeps ==
  ASSUME OrphanInv, NEW id \in DOMAIN frames, RowGoes(id)
  PROVE  Owed'
<1>1. PICK f : f = frames[id]
  OBVIOUS
<1>2. f.stage = "row" /\ ~f.waits /\ Fit(f) /\ Formed(f) /\ f \in Callings /\ f.row \in Rows
      /\ f.at \in Procs /\ f.todo = << >> /\ f.err = "none" /\ UNCHANGED <<runs, pid>>
  BY <1>1 DEF RowGoes, Runnable, OrphanInv, Owed, Shaped, Fit, Formed, Callings
<1>3. PICK s, g : s = (IF Journalled(f.at) THEN "close" ELSE "end") /\ g = [f EXCEPT !.stage = s]
  OBVIOUS
<1>4. /\ g \in Callings /\ g.at = f.at /\ g.caller = f.caller /\ g.kind = f.kind /\ g.row = f.row
      /\ g.seen = f.seen /\ g.err = f.err /\ g.stage = s /\ g.waits = f.waits /\ g.todo = f.todo
      /\ s \in {"close", "end"}
  BY <1>2, <1>3 DEF Callings, CallStages
<1>5. Fit(g)
  BY <1>2, <1>3, <1>4, NothingToDo DEF Fit, Formed, Todo
<1>6. ASSUME UNCHANGED names, UNCHANGED stored
      PROVE  Shrinks
  BY <1>2, <1>6, NothingGone DEF OrphanInv, Owed
<1>7. f.kind = "ask" => Clear(f.at, f.row)
  <2> SUFFICES ASSUME f.kind = "ask", NEW i \in DOMAIN Fields, NEW c \in stored \ {f.row},
                      HostedAt(f.at, i), names[i][c] = f.row
               PROVE  Begun(f.at, c)
    BY DEF Clear
  <2>1. HereDone(id) /\ Owes(f)
    BY <1>2 DEF OrphanInv, Owed, Duty, Owes
  <2>2. ToLook(f, i) \/ ToNull(f, i, c) \/ ToDelete(f, c) \/ Deleting(id, f.at, c) \/ Begun(f.at, c)
    BY <1>1, <2>1 DEF HereDone
  <2> QED BY <1>1, <1>2, <2>2, Childless, NothingToDo
<1>8. ASSUME Shrinks, g.kind = "gesture" => g.row \notin stored'
      PROVE  Carries(id, f, g)
  <2>1. f.kind = "ask" => Clear(f.at, f.row)'
    BY <1>2, <1>7, <1>8, ClearStays DEF OrphanInv, Owed
  <2> QED BY <1>4, <1>8, <2>1 DEF Carries, Owes
<1>9. CASE f.kind \in {"ask", "sweep"} \/ (f.kind = "redo" /\ Entity[f.row] \notin Hosts[f.at])
  <2>1. UNCHANGED <<stored, names>> /\ Becomes(id, g)
    BY <1>1, <1>3, <1>9 DEF RowGoes
  <2>2. Shrinks /\ Carries(id, f, g)
    BY <1>4, <1>6, <1>8, <1>9, <2>1
  <2> QED BY <1>1, <1>2, <1>4, <1>5, <2>1, <2>2, OneMoves, NoRunMoves
<1>10. CASE f.kind = "gesture"
  <2>1. /\ stored' = stored \ {f.row} /\ Becomes(id, g)
        /\ names' = [i \in DOMAIN names |-> [names[i] EXCEPT ![f.row] = Nobody]]
    BY <1>1, <1>3, <1>10 DEF RowGoes
  <2>2. Shrinks
    <3>1. names \in [DOMAIN Fields -> [Rows -> Rows \cup {Nobody}]]
      BY DEF OrphanInv, Owed, Shaped
    <3>2. \A i \in DOMAIN Fields : names'[i] = [names[i] EXCEPT ![f.row] = Nobody]
      BY <2>1, <3>1
    <3>3. \A i \in DOMAIN Fields : names'[i] \in [Rows -> Rows \cup {Nobody}]
            /\ \A c \in Rows : names'[i][c] \in {names[i][c], Nobody}
      BY <1>2, <3>1, <3>2
    <3> QED BY <1>2, <2>1, <3>1, <3>3, NothingForgotten DEF Shrinks
  <2>3. OrphansWereBegun'
    <3> SUFFICES ASSUME NEW i \in DOMAIN Fields, NEW c \in stored', NEW x, x = names'[i][c],
                        x \notin stored' \cup {Nobody}
                 PROVE  \E q \in Procs : HostedAt(q, i) /\
                          (Begun(q, c)' \/ (AskedAbout(q, x) /\ Begun(q, x)'))
      BY DEF OrphansWereBegun, AskedAbout, Begun, HostedAt
    <3>1. c \in stored \ {f.row} /\ c \in Rows
      BY <2>1 DEF OrphanInv, Owed, Shaped
    <3>2. names[i][c] = x /\ x \in Rows
      BY <2>2, <3>1 DEF Shrinks, OrphanInv, Owed, Shaped
    <3>3. PICK q \in Procs : HostedAt(q, i) /\ (Begun(q, c) \/ (AskedAbout(q, x) /\ Begun(q, x)))
      <4>1. CASE x = f.row
        BY <1>1, <1>2, <1>10, <3>1, <3>2, <4>1, NoneNamesIt
      <4>2. CASE x # f.row
        BY <2>1, <3>1, <3>2, <4>2 DEF OrphanInv, Owed, OrphansWereBegun
      <4> QED BY <4>1, <4>2
    <3>4. (Begun(q, c) => Begun(q, c)') /\ (Begun(q, x) => Begun(q, x)')
      BY <2>2, <3>1, <3>2 DEF Shrinks
    <3> QED BY <3>3, <3>4
  <2>4. Carries(id, f, g)
    BY <1>4, <1>8, <2>1, <2>2
  <2>5. Shaped' /\ Linked' /\ \A k \in DOMAIN frames' : Duty(k)'
    BY <1>1, <1>4, <1>5, <2>1, <2>2, <2>4, OneMoves
  <2>6. Written'
    BY <1>2, NothingForgotten DEF OrphanInv, Owed
  <2> QED BY <2>3, <2>5, <2>6 DEF Owed
<1>11. CASE f.kind = "redo" /\ Entity[f.row] \in Hosts[f.at]
  <2>1. PICK p, r, kind, visited : p = f.at /\ r = f.row /\ kind = "gesture" /\ visited = {}
    OBVIOUS
  <2>2. PICK h : h = Onward(Frame(p, id, kind, r, visited))
    OBVIOUS
  <2>3. UNCHANGED <<stored, names>> /\ Awaits(id, g, h)
    BY <1>1, <1>3, <1>11, <2>1, <2>2 DEF RowGoes
  <2>4. PICK v : v = [g EXCEPT !.waits = TRUE]
    OBVIOUS
  <2>5. /\ v \in Callings /\ v.at = g.at /\ v.caller = g.caller /\ v.kind = g.kind /\ v.row = g.row
        /\ v.seen = g.seen /\ v.err = g.err /\ v.stage = g.stage /\ v.waits /\ v.todo = g.todo
    BY <1>4, <2>4 DEF Callings
  <2>6. Fit(v)
    BY <1>2, <1>4, <1>5, <1>11, <2>5 DEF Fit, Formed, Todo
  <2>7. PICK k \in FrameIds \ DOMAIN frames :
          frames' = [i \in DOMAIN frames \cup {k} |-> IF i = k THEN h ELSE IF i = id THEN v ELSE frames[i]]
    BY <2>3, <2>4, FreeIsFree DEF Awaits
  <2>8. PICK who \in Users \cup {Nobody} \cup FrameIds : who = id
    BY DEF OrphanInv, Owed, Shaped
  <2>9. /\ Fit(h) /\ h.stage \notin {"close", "end"} /\ h.at = p /\ h.caller = who
        /\ h.kind = kind /\ h.row = r /\ h.seen = {r}
        /\ \A i \in DOMAIN Fields : HostedAt(p, i) /\ Fields[i].to = Entity[r] => ToLook(h, i)
        /\ kind = "gesture" => \A q \in Peers[p] : ToAsk(h, q)
    <3>1. h = Onward(Frame(p, who, "gesture", r, {})) /\ p \in Procs /\ r \in Rows /\ Entity[r] \in Hosts[p]
      BY <1>2, <1>11, <2>1, <2>2, <2>8
    <3>2. NewlyMade(h, p, who, "gesture", r)
      BY <3>1, NewGesture
    <3> QED BY <2>1, <3>2 DEF NewlyMade
  <2>10. Shrinks
    BY <1>6, <2>3
  <2>11. frames'[k] = h
    BY <2>7
  <2>12. Duty(k)'
    BY <2>9, <2>10, <2>11, NewDuty DEF OrphanInv, Owed
  <2>13. Carries(id, f, v)
    BY <1>4, <1>11, <2>5 DEF Carries, Owes
  <2>14. v.caller = f.caller /\ h.caller = id
    BY <1>4, <2>5, <2>8, <2>9
  <2> QED BY <1>1, <1>2, <2>3, <2>5, <2>6, <2>7, <2>9, <2>10, <2>12, <2>13, <2>14, OneCalls, NoRunMoves
<1> QED BY <1>2, <1>9, <1>10, <1>11 DEF Callings

(* A call that nobody under way awaits. *)
LEMMA OneStarts ==
  ASSUME OrphanInv, UNCHANGED <<stored, names, runs, pid>>, NEW k \in FrameIds \ DOMAIN frames, NEW g,
         frames' = [i \in DOMAIN frames \cup {k} |-> IF i = k THEN g ELSE frames[i]],
         Fit(g), g.caller \notin FrameIds, Duty(k)'
  PROVE  Owed'
<1>1. Shrinks
  BY NothingGone DEF OrphanInv, Owed
<1>2. frames'[k] = g /\ \A x \in DOMAIN frames : frames'[x] = frames[x]
  OBVIOUS
<1>3. Linked'
  BY <1>2 DEF OrphanInv, Owed, Linked
<1>4. Shaped'
  BY <1>1, <1>2, ShapeStays DEF OrphanInv, Owed, Shaped
<1>5. ASSUME NEW x \in DOMAIN frames PROVE Duty(x)'
  <2>1. frames'[x] = frames[x] /\ Duty(x)
    BY <1>2 DEF OrphanInv, Owed
  <2>2. Carries(x, frames[x], frames[x])
    BY <1>1, <1>2, <2>1, ChildrenStay, Untouched DEF OrphanInv, Owed
  <2> QED BY <1>1, <2>1, <2>2, CarriesDuty DEF OrphanInv, Owed
<1> QED BY <1>1, <1>3, <1>4, <1>5, NoRunMoves

(* No call moves. *)
LEMMA CallsRest ==
  ASSUME OrphanInv, UNCHANGED frames, Shrinks
  PROVE  Shaped' /\ Linked' /\ \A k \in DOMAIN frames' : Duty(k)'
<1>1. Shaped'
  BY ShapeStays DEF OrphanInv, Owed, Shaped
<1>2. Linked'
  BY DEF OrphanInv, Owed, Linked
<1>3. ASSUME NEW x \in DOMAIN frames PROVE Duty(x)'
  <2>1. frames'[x] = frames[x] /\ Duty(x)
    BY DEF OrphanInv, Owed
  <2>2. Carries(x, frames[x], frames[x])
    BY <2>1, ChildrenStay, Untouched DEF OrphanInv, Owed
  <2> QED BY <2>1, <2>2, CarriesDuty DEF OrphanInv, Owed
<1> QED BY <1>1, <1>2, <1>3

(* The gesture. *)
LEMMA DeletesKeeps ==
  ASSUME OrphanInv, NEW q \in Requests, Deletes(q[1], q[2], q[3])
  PROVE  Owed'
<1>1. PICK u, p, r : u = q[1] /\ p = q[2] /\ r = q[3]
  OBVIOUS
<1>2. u \in Users /\ p \in Procs /\ r \in Rows /\ Entity[r] \in Hosts[p]
  BY <1>1, AskedWhereHosted
<1>3. PICK visited, kind, g : visited = {} /\ kind = "gesture" /\ g = Onward(Frame(p, u, kind, r, visited))
  OBVIOUS
<1>4. PICK k \in FrameIds \ DOMAIN frames :
        frames' = [i \in DOMAIN frames \cup {k} |-> IF i = k THEN g ELSE frames[i]]
  BY <1>1, <1>3, FreeIsFree DEF Deletes
<1>5. UNCHANGED <<stored, names, runs, pid>>
  BY <1>1 DEF Deletes
<1>6. /\ Fit(g) /\ g.stage \notin {"close", "end"}
      /\ g.at = p /\ g.caller = u /\ g.kind = kind /\ g.row = r /\ g.seen = {r}
      /\ \A i \in DOMAIN Fields : HostedAt(p, i) /\ Fields[i].to = Entity[r] => ToLook(g, i)
      /\ kind = "gesture" => \A x \in Peers[p] : ToAsk(g, x)
  <2>1. u \in Users \cup {Nobody} \cup FrameIds /\ kind \in {"gesture", "ask", "redo"} /\ visited \in SUBSET Rows
    BY <1>2, <1>3
  <2> QED BY <1>2, <1>3, <2>1, NewCall
<1>7. Shrinks
  BY <1>5, NothingGone DEF OrphanInv, Owed
<1>8. frames'[k] = g
  BY <1>4
<1>9. Duty(k)'
  BY <1>6, <1>7, <1>8, NewDuty DEF OrphanInv, Owed
<1>10. g.caller \notin FrameIds
  BY <1>2, <1>6, CallersAreNoFrames DEF FrameIds
<1> QED BY <1>4, <1>5, <1>6, <1>9, <1>10, OneStarts

(* The sweep, which owes nothing. *)
LEMMA SweepKeeps ==
  ASSUME OrphanInv, NEW p \in Procs, Sweep(p)
  PROVE  Owed'
<1>1. PICK due : due = {r \in Rows : runs[JournalOf[p]][r].status = "running" /\ ~Leased(JournalOf[p], r)}
  OBVIOUS
<1>2. PICK r : r = CHOOSE x \in due : TRUE
  OBVIOUS
<1>3. PICK g : g = [Frame(p, Nobody, "sweep", r, {}) EXCEPT !.stage = "pick", !.todo = << >>, !.due = due]
  OBVIOUS
<1>4. Journalled(p) /\ FreeIds # {} /\ due # {} /\ UNCHANGED <<stored, names, runs, pid>>
  BY <1>1 DEF Sweep
<1>5. PICK k \in FrameIds \ DOMAIN frames :
        frames' = [i \in DOMAIN frames \cup {k} |-> IF i = k THEN g ELSE frames[i]]
  BY <1>1, <1>2, <1>3, <1>4, FreeIsFree DEF Sweep
<1>6. r \in Rows /\ due \in SUBSET Rows
  BY <1>1, <1>2, <1>4
<1>7. g = [at |-> p, caller |-> Nobody, kind |-> "sweep", row |-> r,
           trail |-> {} \cup {r}, seen |-> {r}, stage |-> "pick", todo |-> << >>,
           fresh |-> FALSE, waits |-> FALSE, err |-> "none", due |-> due]
  BY <1>3 DEF Frame
<1>8. g \in Callings /\ Todo(g) = {}
  BY <1>6, <1>7, NoneAndOne DEF Callings, CallStages, Todo
<1>9. Fit(g)
  BY <1>4, <1>7, <1>8 DEF Fit, Formed
<1>10. g.caller \notin FrameIds /\ g.kind = "sweep"
  BY <1>7, CallersAreNoFrames DEF FrameIds
<1>11. frames'[k] = g
  BY <1>5
<1>12. Duty(k)'
  BY <1>10, <1>11, SweepsOweNothing
<1> QED BY <1>4, <1>5, <1>9, <1>10, <1>12, OneStarts

Loosed(f, who) == [f EXCEPT !.caller = who, !.waits = FALSE]

LEMMA WaitsNoMore ==
  ASSUME NEW f, Formed(f), NEW who \in {f.caller, Nobody}, NEW g, g = Loosed(f, who)
  PROVE  /\ Formed(g) /\ ~g.waits
         /\ g.at = f.at /\ g.caller = who /\ g.kind = f.kind /\ g.row = f.row
         /\ g.seen = f.seen /\ g.err = f.err /\ g.stage = f.stage /\ g.todo = f.todo
         /\ \A i : ToLook(f, i) => ToLook(g, i)
         /\ \A i, c : ToNull(f, i, c) => ToNull(g, i, c)
         /\ \A c : ToDelete(f, c) => ToDelete(g, c)
         /\ \A q : ToAsk(f, q) => ToAsk(g, q)
<1>1. f \in Callings
  BY DEF Formed
<1>2. /\ g \in Callings /\ ~g.waits
      /\ g.at = f.at /\ g.caller = who /\ g.kind = f.kind /\ g.row = f.row
      /\ g.seen = f.seen /\ g.err = f.err /\ g.stage = f.stage /\ g.todo = f.todo
  BY <1>1 DEF Callings, Loosed
<1>3. Formed(g)
  BY <1>2 DEF Formed, Todo
<1> QED BY <1>2, <1>3 DEF ToLook, ToNull, ToDelete, ToAsk, Todo

LEMMA AnswersKeeps ==
  ASSUME OrphanInv, NEW id \in DOMAIN frames, Answers(id)
  PROVE  Owed'
<1>1. PICK f : f = frames[id]
  OBVIOUS
<1>2. f.stage = "end" /\ ~f.waits /\ Fit(f) /\ Formed(f) /\ f \in Callings /\ UNCHANGED <<stored, names, runs, pid>>
  BY <1>1 DEF Answers, Runnable, OrphanInv, Owed, Shaped, Fit, Formed
<1>3. /\ DOMAIN frames' = DOMAIN frames \ {id}
      /\ \A j \in DOMAIN frames' : j # f.caller => frames'[j] = frames[j]
      /\ f.caller \in DOMAIN frames' =>
           frames'[f.caller] =
             IF f.err = "none" THEN Onward([frames[f.caller] EXCEPT !.waits = FALSE])
             ELSE Fail([frames[f.caller] EXCEPT !.waits = FALSE], Crossing(f.err, f.at, frames[f.caller].at))
  BY <1>1 DEF Answers
<1>4. \A j \in DOMAIN frames : frames[j].caller # id
  BY <1>1, <1>2, Childless
<1>5. Shrinks
  BY <1>2, NothingGone DEF OrphanInv, Owed
<1>6. ASSUME NEW k \in DOMAIN frames', k = f.caller, NEW w, w = frames[k],
             NEW g, g = frames'[k]
      PROVE  /\ Fit(g) /\ g.at = w.at /\ g.caller = w.caller /\ g.kind = w.kind /\ g.row = w.row
             /\ w.stage \notin {"hop", "walk"} => w.kind = "redo"
             /\ f.err = "none" /\ w.stage \in {"hop", "walk"} =>
                  /\ g.seen = w.seen /\ g.err = "none" /\ w.err = "none" /\ g.stage \in {"hop", "walk", "row"}
                  /\ \A i, c : ToNull(w, i, c) => ToNull(g, i, c)
                  /\ \A c : ToDelete(w, c) => ToDelete(g, c)
                  /\ \A q : ToAsk(w, q) => ToAsk(g, q)
                  /\ \A i \in DOMAIN Fields :
                       HostedAt(w.at, i) /\ Fields[i].to = Entity[w.row] /\ ToLook(w, i) => ToLook(g, i)
             /\ f.err # "none" => g.err # "none"
    <2>0. PICK v : v = [w EXCEPT !.waits = FALSE]
      OBVIOUS
    <2>1. k \in DOMAIN frames /\ k \in FrameIds
      BY <1>3 DEF OrphanInv, Owed, Shaped
    <2>2. w.waits /\ Fit(w) /\ Formed(w) /\ w \in Callings
      BY <1>1, <1>6, <2>1 DEF OrphanInv, Owed, Linked, Shaped, Fit, Formed
    <2>3. w.err = "none" /\ (w.stage \in {"hop", "walk"} \/ w.kind = "redo")
      BY <2>2 DEF Formed
    <2>4. PICK who \in {w.caller, Nobody} : who = w.caller
      OBVIOUS
    <2>5. v = Loosed(w, who)
      BY <2>0, <2>2, <2>4 DEF Callings, Loosed
    <2>6. /\ Formed(v) /\ ~v.waits
          /\ v.at = w.at /\ v.caller = who /\ v.kind = w.kind /\ v.row = w.row
          /\ v.seen = w.seen /\ v.err = w.err /\ v.stage = w.stage /\ v.todo = w.todo
          /\ \A i : ToLook(w, i) => ToLook(v, i)
          /\ \A i, c : ToNull(w, i, c) => ToNull(v, i, c)
          /\ \A c : ToDelete(w, c) => ToDelete(v, c)
          /\ \A q : ToAsk(w, q) => ToAsk(v, q)
      BY <2>2, <2>4, <2>5, WaitsNoMore
    <2>9. CASE f.err = "none" /\ w.stage \notin {"hop", "walk"}
      <3>1. g = v
        BY <1>3, <1>6, <2>0, <2>6, <2>9, OnwardStays
      <3> QED BY <2>3, <2>4, <2>6, <2>9, <3>1 DEF Fit
    <2>7. CASE f.err = "none" /\ w.stage \in {"hop", "walk"}
      <3>1. g = Onward(v)
        BY <1>3, <1>6, <2>0, <2>7
      <3>2. /\ Fit(g)
            /\ g.at = v.at /\ g.caller = v.caller /\ g.kind = v.kind /\ g.row = v.row
            /\ g.seen = v.seen /\ g.err = "none" /\ ~g.waits /\ g.stage \in {"hop", "walk", "row"}
            /\ Todo(v) \subseteq Todo(g)
            /\ \A i \in DOMAIN Fields :
                 HostedAt(v.at, i) /\ Fields[i].to = Entity[v.row] /\ ToLook(v, i) => ToLook(g, i)
        BY <2>3, <2>6, <2>7, <3>1, OnwardOwes
      <3>3. /\ \A i, c : ToNull(v, i, c) => ToNull(g, i, c)
            /\ \A c : ToDelete(v, c) => ToDelete(g, c)
            /\ \A q : ToAsk(v, q) => ToAsk(g, q)
        BY <3>2 DEF ToNull, ToDelete, ToAsk
      <3> QED BY <2>3, <2>4, <2>6, <2>7, <3>2, <3>3
    <2>8. CASE f.err # "none"
      <3>1. PICK error : error = Crossing(f.err, f.at, w.at)
        OBVIOUS
      <3>2. error \in {"refused", "failed"} /\ g = Fail(v, error)
        BY <1>2, <1>3, <1>6, <2>0, <2>8, <3>1 DEF Crossing, Callings
      <3> QED BY <2>3, <2>4, <2>6, <2>8, <3>2, FailFits
    <2> QED BY <2>7, <2>8, <2>9
<1>7. \A j \in DOMAIN frames' : /\ Fit(frames'[j]) /\ frames'[j].at = frames[j].at
                                /\ frames'[j].caller = frames[j].caller
                                /\ frames'[j].kind = frames[j].kind /\ frames'[j].row = frames[j].row
  BY <1>3, <1>6 DEF OrphanInv, Owed, Shaped
<1>8. Shaped'
  BY <1>3, <1>5, <1>7, ShapeStays DEF OrphanInv, Owed, Shaped
<1>9. Linked'
  <2>1. ASSUME NEW j \in DOMAIN frames', frames'[j].caller \in FrameIds
        PROVE  frames'[j].caller \in DOMAIN frames' /\ frames'[frames'[j].caller].waits
    <3>1. frames[j].caller \in DOMAIN frames /\ frames[frames[j].caller].waits /\ frames[j].caller # id
      BY <1>3, <1>4, <1>7, <2>1 DEF OrphanInv, Owed, Linked
    <3>2. frames[j].caller # f.caller
      BY <1>1, <1>3, <1>7, <2>1 DEF OrphanInv, Owed, Linked
    <3> QED BY <1>3, <1>7, <2>1, <3>1, <3>2
  <2> QED BY <1>3, <1>7, <2>1 DEF OrphanInv, Owed, Linked
<1>10. ASSUME NEW x \in DOMAIN frames', x # f.caller
       PROVE  /\ \A p, c : Deleting(x, p, c) => Deleting(x, p, c)'
              /\ \A q, r : Asking(x, q, r) => Asking(x, q, r)'
  BY <1>1, <1>3, <1>7, <1>10 DEF Deleting, Asking
<1>11. ASSUME NEW x \in DOMAIN frames', x = f.caller, f.err = "none"
       PROVE  /\ \A p : \A c \in stored' : Deleting(x, p, c) => Deleting(x, p, c)' \/ Begun(p, c)'
              /\ \A q, r : Asking(x, q, r) => Asking(x, q, r)' \/ Clear(q, r)'
  <2>1. ASSUME NEW p, NEW c \in stored', Deleting(x, p, c) PROVE Deleting(x, p, c)' \/ Begun(p, c)'
    <3>1. PICK h \in DOMAIN frames : frames[h].caller = x /\ frames[h].kind = "gesture" /\ frames[h].row = c /\ frames[h].at = p
      BY <2>1 DEF Deleting
    <3>2. CASE h = id
      <4>1. RowDone(f)
        BY <1>1 DEF OrphanInv, Owed, Duty
      <4>2. Begun(p, c)
        BY <1>1, <1>2, <1>11, <2>1, <3>1, <3>2, <4>1 DEF RowDone
      <4> QED BY <1>2, <4>2 DEF Begun
    <3>3. CASE h # id
      BY <1>3, <1>7, <3>1, <3>3 DEF Deleting
    <3> QED BY <3>2, <3>3
  <2>2. ASSUME NEW q, NEW r, Asking(x, q, r) PROVE Asking(x, q, r)' \/ Clear(q, r)'
    <3>1. PICK h \in DOMAIN frames : frames[h].caller = x /\ frames[h].kind = "ask" /\ frames[h].row = r /\ frames[h].at = q
      BY <2>2 DEF Asking
    <3>2. CASE h = id
      <4>1. Clear(q, r)
        <5>1. RowDone(f)
          BY <1>1 DEF OrphanInv, Owed, Duty
        <5> QED BY <1>1, <1>2, <1>11, <3>1, <3>2, <5>1 DEF RowDone
      <4> QED BY <1>2, <4>1 DEF Clear, Begun
    <3>3. CASE h # id
      BY <1>3, <1>7, <3>1, <3>3 DEF Asking
    <3> QED BY <3>2, <3>3
  <2> QED BY <2>1, <2>2
<1>12. ASSUME NEW x \in DOMAIN frames' PROVE Duty(x)'
  <2>1. PICK w, g : w = frames[x] /\ g = frames'[x]
    OBVIOUS
  <2>2. x \in DOMAIN frames /\ Duty(x)
    BY <1>3, <2>1 DEF OrphanInv, Owed
  <2>3. CASE x # f.caller
    <3>1. w = g
      BY <1>3, <2>1, <2>3
    <3>2. Carries(x, w, w)
      BY <1>5, <1>10, <2>1, <2>2, <2>3, Untouched DEF OrphanInv, Owed
    <3> QED BY <1>5, <2>1, <2>2, <3>1, <3>2, CarriesDuty DEF OrphanInv, Owed
  <2>4. CASE x = f.caller
    <3>1. Carries(x, w, g)
      <4>1. CASE f.err # "none"
        BY <1>6, <2>1, <2>4, <4>1 DEF Carries, Owes
      <4>2. CASE w.stage \notin {"hop", "walk"}
        BY <1>6, <2>1, <2>4, <4>2 DEF Carries, Owes
      <4>3. CASE f.err = "none" /\ w.stage \in {"hop", "walk"}
        BY <1>6, <1>11, <2>1, <2>4, <4>3 DEF Carries, Owes
      <4> QED BY <4>1, <4>2, <4>3
    <3> QED BY <1>5, <2>1, <2>2, <3>1, CarriesDuty DEF OrphanInv, Owed
  <2> QED BY <2>3, <2>4
<1> QED BY <1>2, <1>5, <1>8, <1>9, <1>12, NoRunMoves

LEMMA AnswerLostKeeps ==
  ASSUME OrphanInv, NEW id \in DOMAIN frames, AnswerLost(id)
  PROVE  Owed'
<1>1. PICK f, k, w : f = frames[id] /\ k = f.caller /\ w = frames[k]
  OBVIOUS
<1>2. /\ k \in DOMAIN frames /\ k # id /\ UNCHANGED <<stored, names, runs, pid>> /\ f.kind = "ask"
      /\ Fit(f) /\ Formed(f) /\ f \in Callings /\ Fit(w) /\ Formed(w) /\ w \in Callings /\ k \in FrameIds
  BY <1>1 DEF AnswerLost, OrphanInv, Owed, Shaped, Fit, Formed
<1>3. PICK v, e, g, l : /\ v = [w EXCEPT !.waits = FALSE] /\ e = Fail(v, "refused")
                        /\ g = [f EXCEPT !.caller = Nobody]
  OBVIOUS
<1>4. /\ DOMAIN frames' = DOMAIN frames /\ frames'[id] = g /\ frames'[k] = e
      /\ \A j \in DOMAIN frames \ {id, k} : frames'[j] = frames[j]
  BY <1>1, <1>2, <1>3 DEF AnswerLost
<1>5. Formed(v) /\ ~v.waits /\ v.at = w.at /\ v.caller = w.caller /\ v.kind = w.kind /\ v.row = w.row
  <2>1. PICK who \in {w.caller, Nobody} : who = w.caller
    OBVIOUS
  <2>2. v = Loosed(w, who)
    BY <1>2, <1>3, <2>1 DEF Callings, Loosed
  <2> QED BY <1>2, <2>1, <2>2, WaitsNoMore
<1>6. /\ Fit(e) /\ e.err # "none" /\ e.at = w.at /\ e.caller = w.caller /\ e.kind = w.kind /\ e.row = w.row
  <2>1. PICK error \in {"refused", "failed"} : error = "refused"
    OBVIOUS
  <2>2. e = Fail(v, error)
    BY <1>3, <2>1
  <2> QED BY <1>5, <2>2, FailFits
<1>7. /\ Fit(g) /\ g.at = f.at /\ g.kind = f.kind /\ g.row = f.row /\ g.caller = Nobody
      /\ g.seen = f.seen /\ g.err = f.err /\ g.stage = f.stage /\ g.waits = f.waits /\ g.todo = f.todo
  <2>1. /\ g \in Callings /\ g.at = f.at /\ g.kind = f.kind /\ g.row = f.row /\ g.caller = Nobody
        /\ g.seen = f.seen /\ g.err = f.err /\ g.stage = f.stage /\ g.waits = f.waits /\ g.todo = f.todo
    BY <1>2, <1>3 DEF Callings
  <2> QED BY <1>2, <2>1 DEF Fit, Formed, Todo
<1>8. Shrinks
  BY <1>2, NothingGone DEF OrphanInv, Owed
<1>9. \A j \in DOMAIN frames : /\ Fit(frames'[j]) /\ frames'[j].at = frames[j].at
                               /\ frames'[j].kind = frames[j].kind /\ frames'[j].row = frames[j].row
                               /\ j # id => frames'[j].caller = frames[j].caller
                               /\ j # k => frames'[j].waits = frames[j].waits
  BY <1>1, <1>4, <1>6, <1>7 DEF OrphanInv, Owed, Shaped
<1>10. Shaped'
  BY <1>4, <1>8, <1>9, ShapeStays DEF OrphanInv, Owed, Shaped
<1>11. Linked'
  <2>0. frames'[id].caller \notin FrameIds
    BY <1>4, <1>7, CallersAreNoFrames DEF FrameIds
  <2>1. ASSUME NEW j \in DOMAIN frames', frames'[j].caller \in FrameIds
        PROVE  /\ j # id /\ frames[j].caller \in FrameIds /\ frames'[j].caller = frames[j].caller
               /\ frames'[j].caller \in DOMAIN frames' /\ frames'[frames'[j].caller].waits
    <3>1. j # id /\ j \in DOMAIN frames /\ frames'[j].caller = frames[j].caller
      BY <1>4, <1>9, <2>0, <2>1
    <3>2. frames[j].caller \in DOMAIN frames /\ frames[frames[j].caller].waits /\ frames[j].caller # k
      BY <1>1, <1>2, <2>1, <3>1 DEF OrphanInv, Owed, Linked
    <3> QED BY <1>4, <1>9, <2>1, <3>1, <3>2
  <2> QED BY <1>4, <2>1 DEF OrphanInv, Owed, Linked
<1>12. ASSUME NEW x \in DOMAIN frames, x # k
       PROVE  /\ \A p, c : Deleting(x, p, c) => Deleting(x, p, c)'
              /\ \A q, r : Asking(x, q, r) => Asking(x, q, r)'
  BY <1>1, <1>4, <1>9, <1>12 DEF Deleting, Asking
<1>13. ASSUME NEW x \in DOMAIN frames PROVE Duty(x)'
  <2>1. Duty(x)
    BY DEF OrphanInv, Owed
  <2>2. CASE x = k
    <3>1. Carries(x, w, e)
      BY <1>6 DEF Carries, Owes
    <3> QED BY <1>1, <1>4, <1>8, <2>1, <2>2, <3>1, CarriesDuty DEF OrphanInv, Owed
  <2>3. CASE x = id
    <3>1. Carries(x, f, f)
      BY <1>1, <1>2, <1>8, <1>12, <2>1, <2>3, Untouched DEF OrphanInv, Owed
    <3>2. Carries(x, f, g)
      BY <1>7, <3>1 DEF Carries, Owes, ToLook, ToNull, ToDelete, ToAsk, Todo
    <3> QED BY <1>1, <1>4, <1>8, <2>1, <2>3, <3>2, CarriesDuty DEF OrphanInv, Owed
  <2>4. CASE x \notin {k, id}
    <3>1. Carries(x, frames[x], frames[x])
      BY <1>8, <1>12, <2>1, <2>4, Untouched DEF OrphanInv, Owed
    <3> QED BY <1>4, <1>8, <2>1, <2>4, <3>1, CarriesDuty DEF OrphanInv, Owed
  <2> QED BY <2>2, <2>3, <2>4
<1> QED BY <1>2, <1>4, <1>8, <1>10, <1>11, <1>13, NoRunMoves

(* A process that stops takes its calls with it: those that awaited them   *)
(* fail, those they awaited go on for nobody.                              *)
LEMMA CrashKeeps ==
  ASSUME OrphanInv, NEW p \in Procs, Crash(p)
  PROVE  Owed'
<1> DEFINE gone == {id \in DOMAIN frames : frames[id].at = p}
           CutOff(i) == \E id \in gone : frames[id].caller = i
           Heir(i) == IF frames[i].caller \in gone THEN Nobody ELSE frames[i].caller
<1>1. UNCHANGED <<stored, names, runs, pid>>
  BY DEF Crash
<1>2. Shrinks
  BY <1>1, NothingGone DEF OrphanInv, Owed
<1>3. /\ DOMAIN frames' = DOMAIN frames \ gone
      /\ \A i \in DOMAIN frames' :
           LET f == IF frames[i].caller \in gone THEN [frames[i] EXCEPT !.caller = Nobody] ELSE frames[i]
           IN  frames'[i] = IF CutOff(i) THEN Fail([f EXCEPT !.waits = FALSE], "refused") ELSE f
  BY DEF Crash
<1>4. \A i \in DOMAIN frames : Fit(frames[i]) /\ Formed(frames[i]) /\ frames[i] \in Callings /\ i \in FrameIds
  BY DEF OrphanInv, Owed, Shaped, Fit, Formed
<1>5. ASSUME NEW i \in DOMAIN frames', NEW w, w = frames[i], NEW g, g = frames'[i]
      PROVE  /\ Fit(g) /\ g.at = w.at /\ g.caller = Heir(i) /\ g.kind = w.kind /\ g.row = w.row
             /\ IF CutOff(i) THEN g.err # "none"
                ELSE /\ g.seen = w.seen /\ g.err = w.err /\ g.stage = w.stage
                     /\ g.waits = w.waits /\ g.todo = w.todo
  <2>1. i \in DOMAIN frames /\ Fit(w) /\ Formed(w) /\ w \in Callings
    BY <1>3, <1>4, <1>5
  <2>2. PICK f : f = IF w.caller \in gone THEN [w EXCEPT !.caller = Nobody] ELSE w
    OBVIOUS
  <2>3. g = IF CutOff(i) THEN Fail([f EXCEPT !.waits = FALSE], "refused") ELSE f
    BY <1>3, <1>5, <2>2
  <2>4. /\ f \in Callings /\ f.at = w.at /\ f.caller = Heir(i) /\ f.kind = w.kind /\ f.row = w.row
        /\ f.seen = w.seen /\ f.err = w.err /\ f.stage = w.stage /\ f.waits = w.waits /\ f.todo = w.todo
    BY <1>5, <2>1, <2>2 DEF Callings
  <2>5. Fit(f) /\ Formed(f)
    BY <2>1, <2>4 DEF Fit, Formed, Todo
  <2>6. CASE ~CutOff(i)
    BY <2>3, <2>4, <2>5, <2>6
  <2>7. CASE CutOff(i)
    <3>1. PICK who \in {f.caller, Nobody} : who = f.caller
      OBVIOUS
    <3>2. PICK v : v = Loosed(f, who)
      OBVIOUS
    <3>3. v = [f EXCEPT !.waits = FALSE]
      BY <2>4, <3>1, <3>2 DEF Callings, Loosed
    <3>4. Formed(v) /\ ~v.waits /\ v.at = f.at /\ v.caller = f.caller /\ v.kind = f.kind /\ v.row = f.row
      BY <2>5, <3>1, <3>2, WaitsNoMore
    <3>5. PICK error \in {"refused", "failed"} : error = "refused"
      OBVIOUS
    <3>6. g = Fail(v, error)
      BY <2>3, <2>7, <3>3, <3>5
    <3>7. Fit(g) /\ g.err # "none" /\ g.at = v.at /\ g.caller = v.caller /\ g.kind = v.kind /\ g.row = v.row
      BY <3>4, <3>5, <3>6, FailFits
    <3> QED BY <2>4, <2>7, <3>4, <3>7
  <2> QED BY <2>6, <2>7
<1>6. Shaped'
  <2>1. DOMAIN frames' \subseteq FrameIds
    BY <1>3, <1>4
  <2>2. \A k \in DOMAIN frames' : Fit(frames'[k])
    BY <1>5
  <2> QED BY <1>2, <2>1, <2>2, ShapeStays DEF OrphanInv, Owed
<1>7. Linked'
  <2>0. Nobody \notin FrameIds
    BY CallersAreNoFrames DEF FrameIds
  <2>1. ASSUME NEW j \in DOMAIN frames', frames'[j].caller \in FrameIds
        PROVE  /\ j \in DOMAIN frames /\ frames'[j].caller = frames[j].caller
               /\ frames'[j].caller \in DOMAIN frames' /\ frames'[frames'[j].caller].waits
    <3>1. j \in DOMAIN frames \ gone /\ frames'[j].caller = frames[j].caller /\ frames[j].caller \notin gone
      BY <1>3, <1>5, <2>0, <2>1
    <3>2. frames[j].caller \in DOMAIN frames /\ frames[frames[j].caller].waits
      BY <2>1, <3>1 DEF OrphanInv, Owed, Linked
    <3>3. ~CutOff(frames[j].caller)
      BY <2>1, <3>1 DEF OrphanInv, Owed, Linked
    <3>4. frames[j].caller \in DOMAIN frames'
      BY <1>3, <3>1, <3>2
    <3> QED BY <1>5, <3>1, <3>2, <3>3, <3>4
  <2> QED BY <2>1 DEF OrphanInv, Owed, Linked
<1>8. ASSUME NEW x \in DOMAIN frames', ~CutOff(x)
      PROVE  /\ \A q, c : Deleting(x, q, c) => Deleting(x, q, c)'
             /\ \A q, r : Asking(x, q, r) => Asking(x, q, r)'
  <2>1. x \in DOMAIN frames /\ x \notin gone
    BY <1>3
  <2>2. ASSUME NEW h \in DOMAIN frames, frames[h].caller = x
        PROVE  /\ h \in DOMAIN frames' /\ frames'[h].caller = x /\ frames'[h].kind = frames[h].kind
               /\ frames'[h].row = frames[h].row /\ frames'[h].at = frames[h].at
    <3>1. h \in DOMAIN frames'
      BY <1>3, <1>8, <2>2
    <3> QED BY <1>5, <2>1, <2>2, <3>1
  <2> QED BY <2>2 DEF Deleting, Asking
<1>9. ASSUME NEW x \in DOMAIN frames' PROVE Duty(x)'
  <2>1. PICK w, g : w = frames[x] /\ g = frames'[x]
    OBVIOUS
  <2>2. x \in DOMAIN frames /\ Duty(x)
    BY <1>3, <2>1 DEF OrphanInv, Owed
  <2>3. Carries(x, w, g)
    <3>1. CASE CutOff(x)
      BY <1>5, <2>1, <3>1 DEF Carries, Owes
    <3>2. CASE ~CutOff(x)
      <4>1. Carries(x, w, w)
        BY <1>2, <1>8, <2>1, <2>2, <3>2, Untouched DEF OrphanInv, Owed
      <4>2. /\ g.at = w.at /\ g.kind = w.kind /\ g.row = w.row
            /\ g.seen = w.seen /\ g.err = w.err /\ g.stage = w.stage /\ g.todo = w.todo
        BY <1>5, <2>1, <3>2
      <4> QED BY <4>1, <4>2 DEF Carries, Owes, ToLook, ToNull, ToDelete, ToAsk, Todo
    <3> QED BY <3>1, <3>2
  <2> QED BY <1>2, <2>1, <2>2, <2>3, CarriesDuty DEF OrphanInv, Owed
<1> QED BY <1>1, <1>2, <1>6, <1>7, <1>9, NoRunMoves

-----------------------------------------------------------------------------
(* open(): busy is said of a run that another began. *)
LEMMA BusyIsBegun ==
  ASSUME Written, NEW p \in Procs, NEW r \in Rows, Journalled(p),
         NEW run, run = runs[JournalOf[p]][r], run.status = "running", run.owner # Driver(p)
  PROVE  Begun(p, r)
<1>1. JournalOf[p] \in Journals
  BY DEF Journalled, Journals
<1>2. PICK q \in Procs : \E n \in 1 .. pid[q] : JournalOf[q] = JournalOf[p] /\ run.owner = <<q, n>>
  BY <1>1 DEF Written
<1>6. PICK n \in 1 .. pid[q] : JournalOf[q] = JournalOf[p] /\ run.owner = <<q, n>>
  BY <1>2
<1>3. run # NoRun
  BY DEF NoRun
<1>4. CASE q # p
  BY <1>3, <1>4, <1>6 DEF Begun
<1>5. CASE q = p
  <2>1. n # pid[p] /\ pid[p] \in Nat /\ n \in Nat /\ n >= 1 /\ n <= pid[p]
    BY <1>5, <1>6 DEF Driver, Written
  <2>2. pid[p] > 1
    BY <2>1
  <2> QED BY <1>3, <2>2 DEF Begun
<1> QED BY <1>4, <1>5

LEMMA OpenReadsKeeps ==
  ASSUME OrphanInv, NEW id \in DOMAIN frames, OpenReads(id)
  PROVE  Owed'
<1>1. PICK f : f = frames[id]
  OBVIOUS
<1>2. /\ f.stage = "open" /\ ~f.waits /\ Fit(f) /\ Formed(f) /\ f \in Callings /\ f.err = "none"
      /\ f.row \in Rows /\ f.at \in Procs /\ Journalled(f.at)
      /\ UNCHANGED <<stored, names, runs, pid>>
  BY <1>1 DEF OpenReads, Runnable, OrphanInv, Owed, Shaped, Fit, Formed, Callings
<1>3. PICK run, busy : /\ run = runs[JournalOf[f.at]][f.row]
                       /\ busy = (run.status = "running" /\ Leased(JournalOf[f.at], f.row) /\ run.owner # Driver(f.at))
  OBVIOUS
<1>4. PICK fresh \in BOOLEAN : fresh = (run.status = "none")
  OBVIOUS
<1>5. PICK s \in {"take", "pick", "end"} :
        s = IF ~busy THEN "take" ELSE IF f.kind = "sweep" THEN "pick" ELSE "end"
  OBVIOUS
<1>6. PICK g : g = [f EXCEPT !.fresh = fresh, !.stage = s]
  OBVIOUS
<1>7. Becomes(id, g)
  BY <1>1, <1>3, <1>4, <1>5, <1>6 DEF OpenReads, Journal
<1>8. /\ g \in Callings /\ g.at = f.at /\ g.caller = f.caller /\ g.kind = f.kind /\ g.row = f.row
      /\ g.seen = f.seen /\ g.err = f.err /\ g.stage = s /\ g.waits = f.waits /\ g.todo = f.todo
  BY <1>2, <1>6 DEF Callings, CallStages
<1>9. Fit(g)
  BY <1>2, <1>5, <1>8 DEF Fit, Formed, Todo
<1>10. Shrinks
  BY <1>2, NothingGone DEF OrphanInv, Owed
<1>11. s = "end" => Begun(f.at, f.row)
  BY <1>2, <1>3, <1>5, BusyIsBegun DEF OrphanInv, Owed
<1>12. s = "end" => Begun(f.at, f.row)' /\ Clear(f.at, f.row)'
  BY <1>2, <1>11 DEF Begun, Clear
<1>13. /\ \A k, q, c : Deleting(k, q, c) => Deleting(k, q, c)'
       /\ \A k, q, r : Asking(k, q, r) => Asking(k, q, r)'
  <2>1. \A k \in DOMAIN frames : /\ k \in DOMAIN frames'
                                 /\ frames'[k].at = frames[k].at /\ frames'[k].kind = frames[k].kind
                                 /\ frames'[k].row = frames[k].row /\ frames'[k].caller = frames[k].caller
    BY <1>1, <1>7, <1>8 DEF Becomes
  <2> QED BY <2>1, ChildrenStay
<1>14. Todo(g) = Todo(f)
  BY <1>8 DEF Todo
<1>15. Owes(g) => Owes(f) /\ s = "take"
  BY <1>2, <1>5, <1>8 DEF Owes, Formed
<1>16. Carries(id, f, g)
  BY <1>8, <1>12, <1>13, <1>14, <1>15 DEF Carries, ToLook, ToNull, ToDelete, ToAsk
<1> QED BY <1>1, <1>2, <1>7, <1>8, <1>9, <1>10, <1>16, OneMoves, NoRunMoves

(* A run is written once more: none is forgotten. *)
LEMMA RunIsWritten ==
  ASSUME Written, NEW p \in Procs, NEW r \in Rows, Journalled(p), pid' = pid,
         NEW run, run \in [status : {"running", "done"}, owner : (Procs \X Nat) \cup {Nobody}],
         run.status = "running" => run.owner = Driver(p),
         runs' = [runs EXCEPT ![JournalOf[p]][r] = run]
  PROVE  /\ Written'
         /\ \A q \in Procs : \A x \in Rows : Begun(q, x) => Begun(q, x)'
<1>1. JournalOf[p] \in Journals
  BY DEF Journalled, Journals
<1>2. \A j \in Journals : \A x \in Rows :
        runs'[j][x] = IF j = JournalOf[p] /\ x = r THEN run ELSE runs[j][x]
  BY <1>1 DEF Written
<1>3. runs' \in [Journals -> [Rows -> [status : {"none", "running", "done"},
                                      owner : (Procs \X Nat) \cup {Nobody}]]]
  BY <1>1 DEF Written
<1>4. pid[p] \in 1 .. pid[p]
  BY DEF Written
<1>5. ASSUME NEW j \in Journals, NEW x \in Rows, runs'[j][x].status = "running"
      PROVE  \E q \in Procs : \E n \in 1 .. pid[q] : JournalOf[q] = j /\ runs'[j][x].owner = <<q, n>>
  <2>1. CASE j = JournalOf[p] /\ x = r
    BY <1>2, <1>4, <1>5, <2>1 DEF Driver
  <2>2. CASE ~(j = JournalOf[p] /\ x = r)
    BY <1>2, <1>5, <2>2 DEF Written
  <2> QED BY <2>1, <2>2
<1>6. Written'
  BY <1>3, <1>5 DEF Written
<1>7. ASSUME NEW q \in Procs, NEW x \in Rows, Begun(q, x)
      PROVE  Begun(q, x)'
  <2>1. JournalOf[q] \in Journals
    BY <1>7 DEF Begun, Journalled, Journals
  <2>2. runs'[JournalOf[q]][x] # NoRun
    BY <1>2, <1>7, <2>1 DEF Begun, NoRun
  <2> QED BY <1>7, <2>2 DEF Begun
<1> QED BY <1>6, <1>7

LEMMA OpenWritesKeeps ==
  ASSUME OrphanInv, NEW id \in DOMAIN frames, OpenWrites(id)
  PROVE  Owed'
<1>1. PICK f : f = frames[id]
  OBVIOUS
<1>2. /\ f.stage = "take" /\ ~f.waits /\ Fit(f) /\ Formed(f) /\ f \in Callings /\ f.err = "none"
      /\ f.row \in Rows /\ f.at \in Procs /\ Journalled(f.at)
      /\ UNCHANGED <<stored, names, pid>>
  BY <1>1 DEF OpenWrites, Runnable, OrphanInv, Owed, Shaped, Fit, Formed, Callings
<1>3. PICK run : run = [status |-> "running", owner |-> Driver(f.at)]
  OBVIOUS
<1>4. \/ Becomes(id, Fail(f, "refused")) /\ UNCHANGED runs
      \/ /\ runs' = [runs EXCEPT ![JournalOf[f.at]][f.row] = run]
         /\ IF f.kind = "sweep"
            THEN Becomes(id, [f EXCEPT !.stage = "walk", !.todo = <<Item("redo", {}, {f.row}, {})>>])
            ELSE Becomes(id, Onward([f EXCEPT !.stage = "hop"]))
  BY <1>1, <1>3 DEF OpenWrites, Journal
<1>5. CASE Becomes(id, Fail(f, "refused")) /\ UNCHANGED runs
  BY <1>1, <1>2, <1>5, RefusingFails
<1>6. ASSUME runs' = [runs EXCEPT ![JournalOf[f.at]][f.row] = run],
             NEW g, Becomes(id, g), Fit(g), g.caller = f.caller, g.waits = f.waits,
             g.at = f.at, g.kind = f.kind, g.row = f.row, Shrinks => Carries(id, f, g)
      PROVE  Owed'
  <2>1. run \in [status : {"running", "done"}, owner : (Procs \X Nat) \cup {Nobody}]
        /\ run.status = "running" /\ run.owner = Driver(f.at)
    BY <1>2, <1>3 DEF Driver, OrphanInv, Owed, Written
  <2>2. PICK p, r : p = f.at /\ r = f.row
    OBVIOUS
  <2>3. /\ Written'
        /\ \A q \in Procs : \A x \in Rows : Begun(q, x) => Begun(q, x)'
    BY <1>2, <1>6, <2>1, <2>2, RunIsWritten DEF OrphanInv, Owed
  <2>4. Shrinks
    BY <1>2, <2>3 DEF Shrinks, OrphanInv, Owed, Shaped
  <2>5. OrphansWereBegun'
    BY <1>2, <2>4, NoOneMoreOrphan
  <2>6. Shaped' /\ Linked' /\ \A k \in DOMAIN frames' : Duty(k)'
    BY <1>1, <1>6, <2>4, OneMoves
  <2> QED BY <2>3, <2>5, <2>6 DEF Owed
<1>7. CASE /\ runs' = [runs EXCEPT ![JournalOf[f.at]][f.row] = run] /\ f.kind = "sweep"
           /\ Becomes(id, [f EXCEPT !.stage = "walk", !.todo = <<Item("redo", {}, {f.row}, {})>>])
  <2>1. PICK item, todo : item = Item("redo", {}, {f.row}, {}) /\ todo = <<item>>
    OBVIOUS
  <2>2. item \in Items /\ item.do = "redo"
    BY <1>2, <2>1 DEF Item, Items
  <2>3. todo \in Seq(Items) /\ In(todo) = {item} /\ todo # << >>
    BY <2>1, <2>2, NoneAndOne
  <2>4. PICK g : g = [f EXCEPT !.stage = "walk", !.todo = todo]
    OBVIOUS
  <2>5. /\ g \in Callings /\ g.at = f.at /\ g.caller = f.caller /\ g.kind = f.kind /\ g.row = f.row
        /\ g.err = f.err /\ g.stage = "walk" /\ g.waits = f.waits /\ g.todo = todo
    BY <1>2, <2>3, <2>4 DEF Callings, CallStages
  <2>6. Fit(g)
    BY <1>2, <2>2, <2>3, <2>5 DEF Fit, Formed, Todo
  <2>7. Becomes(id, g)
    BY <1>7, <2>1, <2>4
  <2>8. Carries(id, f, g)
    BY <1>7, <2>5 DEF Carries, Owes
  <2> QED BY <1>6, <1>7, <2>5, <2>6, <2>7, <2>8
<1>8. CASE /\ runs' = [runs EXCEPT ![JournalOf[f.at]][f.row] = run] /\ f.kind # "sweep"
           /\ Becomes(id, Onward([f EXCEPT !.stage = "hop"]))
  <2>1. PICK h : h = [f EXCEPT !.stage = "hop"]
    OBVIOUS
  <2>2. PICK g : g = Onward(h)
    OBVIOUS
  <2>3. /\ h \in Callings /\ h.at = f.at /\ h.caller = f.caller /\ h.kind = f.kind /\ h.row = f.row
        /\ h.seen = f.seen /\ h.err = f.err /\ h.stage = "hop" /\ h.waits = f.waits /\ h.todo = f.todo
    BY <1>2, <2>1 DEF Callings, CallStages
  <2>4. Formed(h)
    BY <1>2, <2>3 DEF Formed, Todo
  <2>5. /\ Fit(g)
        /\ g.at = h.at /\ g.caller = h.caller /\ g.kind = h.kind /\ g.row = h.row
        /\ g.seen = h.seen /\ g.err = "none" /\ ~g.waits /\ g.stage \in {"hop", "walk", "row"}
        /\ Todo(h) \subseteq Todo(g)
        /\ \A i \in DOMAIN Fields :
             HostedAt(h.at, i) /\ Fields[i].to = Entity[h.row] /\ ToLook(h, i) => ToLook(g, i)
    BY <1>2, <2>2, <2>3, <2>4, OnwardOwes
  <2>6. Becomes(id, g) /\ g.waits = FALSE /\ f.waits = FALSE
    BY <1>2, <1>8, <2>1, <2>2, <2>5 DEF Fit, Formed, Callings
  <2>7. Todo(f) \subseteq Todo(g) /\ \A i : ToLook(h, i)
    BY <2>3, <2>5 DEF Todo, ToLook
  <2>8. /\ \A k, q, c : Deleting(k, q, c) => Deleting(k, q, c)'
        /\ \A k, q, r : Asking(k, q, r) => Asking(k, q, r)'
    <3>1. \A k \in DOMAIN frames : /\ k \in DOMAIN frames'
                                   /\ frames'[k].at = frames[k].at /\ frames'[k].kind = frames[k].kind
                                   /\ frames'[k].row = frames[k].row /\ frames'[k].caller = frames[k].caller
      BY <1>1, <2>3, <2>5, <2>6 DEF Becomes
    <3> QED BY <3>1, ChildrenStay
  <2>9. Owes(g) => Owes(f)
    BY <1>2, <2>3, <2>5 DEF Owes
  <2>10. Carries(id, f, g)
    BY <2>3, <2>5, <2>7, <2>8, <2>9 DEF Carries, ToNull, ToDelete, ToAsk
  <2> QED BY <1>6, <1>8, <2>3, <2>5, <2>6, <2>10
<1> QED BY <1>4, <1>5, <1>7, <1>8

LEMMA ClosesKeeps ==
  ASSUME OrphanInv, NEW id \in DOMAIN frames, Closes(id)
  PROVE  Owed'
<1>1. PICK f : f = frames[id]
  OBVIOUS
<1>2. /\ f.stage = "close" /\ ~f.waits /\ Fit(f) /\ Formed(f) /\ f \in Callings
      /\ f.row \in Rows /\ f.at \in Procs /\ Journalled(f.at) /\ JournalOf[f.at] \in Journals
      /\ UNCHANGED <<stored, names, pid>> /\ (f.kind = "sweep" => f.err = "none")
  BY <1>1 DEF Closes, Runnable, OrphanInv, Owed, Shaped, Fit, Formed, Callings, Journals, Journalled
<1>3. PICK s \in {"pick", "end"} : s = IF f.kind = "sweep" THEN "pick" ELSE "end"
  OBVIOUS
<1>4. PICK g : g = [f EXCEPT !.stage = s]
  OBVIOUS
<1>5. /\ g \in Callings /\ g.at = f.at /\ g.caller = f.caller /\ g.kind = f.kind /\ g.row = f.row
      /\ g.seen = f.seen /\ g.err = f.err /\ g.stage = s /\ g.waits = f.waits /\ g.todo = f.todo
  BY <1>2, <1>4 DEF Callings, CallStages
<1>6. Fit(g)
  BY <1>2, <1>3, <1>5 DEF Fit, Formed, Todo
<1>7. PICK run : run = [runs[JournalOf[f.at]][f.row] EXCEPT !.status = "done"]
  OBVIOUS
<1>8. /\ run \in [status : {"running", "done"}, owner : (Procs \X Nat) \cup {Nobody}]
      /\ run.status = "done"
  <2>1. runs[JournalOf[f.at]][f.row] \in [status : {"none", "running", "done"}, owner : (Procs \X Nat) \cup {Nobody}]
    BY <1>2 DEF OrphanInv, Owed, Written
  <2> QED BY <1>7, <2>1
<1>9. runs' = [runs EXCEPT ![JournalOf[f.at]][f.row] = run] /\ Becomes(id, g)
  BY <1>1, <1>3, <1>4, <1>7 DEF Closes, Journal
<1>10. /\ Written'
       /\ \A q \in Procs : \A x \in Rows : Begun(q, x) => Begun(q, x)'
  <2>1. PICK p, r : p = f.at /\ r = f.row
    OBVIOUS
  <2> QED BY <1>2, <1>8, <1>9, <2>1, RunIsWritten DEF OrphanInv, Owed
<1>11. Shrinks
  BY <1>2, <1>10 DEF Shrinks, OrphanInv, Owed, Shaped
<1>12. ASSUME f.err = "none"
       PROVE  /\ f.kind = "gesture" => f.row \notin stored' \/ Begun(f.at, f.row)'
              /\ f.kind = "ask" => Clear(f.at, f.row)'
  <2>1. RowDone(f)
    BY <1>1 DEF OrphanInv, Owed, Duty
  <2>2. /\ f.kind = "gesture" => f.row \notin stored \/ Begun(f.at, f.row)
        /\ f.kind = "ask" => Clear(f.at, f.row)
    BY <1>2, <1>12, <2>1 DEF RowDone
  <2> QED BY <1>2, <1>10, <1>11, <2>2, ClearStays DEF OrphanInv, Owed
<1>13. Carries(id, f, g)
  BY <1>2, <1>3, <1>5, <1>12 DEF Carries, Owes
<1>14. OrphansWereBegun'
  BY <1>2, <1>11, NoOneMoreOrphan
<1>15. Shaped' /\ Linked' /\ \A k \in DOMAIN frames' : Duty(k)'
  BY <1>1, <1>5, <1>6, <1>9, <1>11, <1>13, OneMoves
<1> QED BY <1>10, <1>14, <1>15 DEF Owed

LEMMA SweepPicksKeeps ==
  ASSUME OrphanInv, NEW id \in DOMAIN frames, SweepPicks(id)
  PROVE  Owed'
<1>1. PICK f : f = frames[id]
  OBVIOUS
<1>2. /\ f.stage = "pick" /\ ~f.waits /\ Fit(f) /\ Formed(f) /\ f \in Callings
      /\ f.kind = "sweep" /\ Journalled(f.at) /\ f.err = "none"
      /\ UNCHANGED <<stored, names, runs, pid>>
  BY <1>1 DEF SweepPicks, Runnable, OrphanInv, Owed, Shaped, Fit, Formed
<1>3. ASSUME NEW g \in Callings, Becomes(id, g), g.at = f.at, g.caller = f.caller, g.kind = f.kind,
             g.err = f.err, g.stage \in {"end", "open"}, g.waits = f.waits, g.todo = f.todo
      PROVE  Owed'
  <2>1. Fit(g)
    BY <1>2, <1>3 DEF Fit, Formed, Todo
  <2>2. Carries(id, f, g)
    BY <1>2, <1>3 DEF Carries, Owes
  <2>3. Shrinks
    BY <1>2, NothingGone DEF OrphanInv, Owed
  <2> QED BY <1>1, <1>2, <1>3, <2>1, <2>2, <2>3, OneMoves, NoRunMoves
<1>4. CASE Becomes(id, [f EXCEPT !.stage = "end"])
  <2>1. PICK g : g = [f EXCEPT !.stage = "end"]
    OBVIOUS
  <2>2. /\ g \in Callings /\ g.at = f.at /\ g.caller = f.caller /\ g.kind = f.kind
        /\ g.err = f.err /\ g.stage = "end" /\ g.waits = f.waits /\ g.todo = f.todo
    BY <1>2, <2>1 DEF Callings, CallStages
  <2> QED BY <1>3, <1>4, <2>1, <2>2
<1>5. ASSUME NEW r \in f.due, Becomes(id, [f EXCEPT !.row = r, !.due = @ \ {r}, !.stage = "open"])
      PROVE  Owed'
  <2>1. PICK g : g = [f EXCEPT !.row = r, !.due = @ \ {r}, !.stage = "open"]
    OBVIOUS
  <2>2. /\ g \in Callings /\ g.at = f.at /\ g.caller = f.caller /\ g.kind = f.kind
        /\ g.err = f.err /\ g.stage = "open" /\ g.waits = f.waits /\ g.todo = f.todo
    BY <1>2, <2>1 DEF Callings, CallStages
  <2> QED BY <1>3, <1>5, <2>1, <2>2
<1> QED BY <1>1, <1>4, <1>5 DEF SweepPicks

LEMMA RestartKeeps ==
  ASSUME OrphanInv, NEW p \in Procs, Restart(p)
  PROVE  Owed'
<1>1. UNCHANGED <<stored, names, frames, runs>> /\ pid' = [pid EXCEPT ![p] = @ + 1]
  BY DEF Restart
<1>2. pid \in [Procs -> Nat \ {0}]
  BY DEF OrphanInv, Owed, Written
<1>3. pid' \in [Procs -> Nat \ {0}] /\ \A q \in Procs : pid'[q] >= pid[q]
  BY <1>1, <1>2
<1>4. \A q \in Procs : 1 .. pid[q] \subseteq 1 .. pid'[q]
  BY <1>2, <1>3
<1>5. Written'
  BY <1>1, <1>3, <1>4 DEF OrphanInv, Owed, Written
<1>6. \A q \in Procs : \A r \in Rows : Begun(q, r) => Begun(q, r)'
  <2>1. \A q \in Procs : pid[q] > 1 => pid'[q] > 1
    BY <1>2, <1>3
  <2> QED BY <1>1, <2>1 DEF Begun
<1>7. Shrinks
  BY <1>1, <1>6 DEF Shrinks, OrphanInv, Owed, Shaped
<1>8. OrphansWereBegun'
  BY <1>1, <1>7, NoOneMoreOrphan
<1>9. Shaped' /\ Linked' /\ \A k \in DOMAIN frames' : Duty(k)'
  BY <1>1, <1>7, CallsRest
<1> QED BY <1>5, <1>8, <1>9 DEF Owed

-----------------------------------------------------------------------------
LEMMA StartsOwed == ASSUME EveryChildIsAsked, Init PROVE OrphanInv
<1>1. DOMAIN frames = {}
  BY DEF Init
<1>2. Shaped
  BY <1>1, NamesFit DEF Init, Shaped
<1>3. Written
  <2>1. pid \in [Procs -> Nat \ {0}]
    BY DEF Init
  <2>2. NoRun \in [status : {"none", "running", "done"}, owner : (Procs \X Nat) \cup {Nobody}]
        /\ NoRun.status # "running"
    BY DEF NoRun
  <2>3. \A j \in Journals : \A r \in Rows : runs[j][r] = NoRun
    BY DEF Init
  <2>4. runs \in [Journals -> [Rows -> [status : {"none", "running", "done"},
                                       owner : (Procs \X Nat) \cup {Nobody}]]]
    <3> HIDE DEF NoRun
    <3> QED BY <2>2 DEF Init
  <2> QED BY <2>1, <2>2, <2>3, <2>4 DEF Written
<1>4. OrphansWereBegun
  BY NamesFit DEF Init, OrphansWereBegun
<1> QED BY <1>1, <1>2, <1>3, <1>4 DEF OrphanInv, Owed, Linked

LEMMA StepKeepsOwed == ASSUME OrphanInv, [Next]_vars PROVE OrphanInv'
<1> SUFFICES Owed'
  BY DEF OrphanInv, EveryChildIsAsked
<1>1. ASSUME NEW id \in DOMAIN frames, Step(id) PROVE Owed'
  <2>1. ASSUME NEW i \in DOMAIN Fields, RefuseRestricted(id, i) PROVE Owed'
    BY <2>1, RestrictKeeps
  <2>2. ASSUME NEW i \in DOMAIN Fields, Level(id, i) PROVE Owed'
    BY <2>2, LevelKeeps
  <2>3. ASSUME NEW r \in Rows, Null(id, r) PROVE Owed'
    BY <2>3, NullKeeps
  <2>4. ASSUME NEW r \in Rows, DeleteBelow(id, r) PROVE Owed'
    BY <2>4, DeleteBelowKeeps
  <2>5. ASSUME NEW r \in Rows, NEW q \in Procs, AskPeer(id, r, q) PROVE Owed'
    BY <2>5, AskPeerKeeps
  <2>6. CASE RowGoes(id)
    BY <2>6, RowGoesKeeps
  <2>7. CASE Answers(id)
    BY <2>7, AnswersKeeps
  <2>8. CASE OpenReads(id) \/ OpenWrites(id) \/ Closes(id) \/ SweepPicks(id)
    BY <2>8, OpenReadsKeeps, OpenWritesKeeps, ClosesKeeps, SweepPicksKeeps
  <2> QED BY <1>1, <2>1, <2>2, <2>3, <2>4, <2>5, <2>6, <2>7, <2>8 DEF Step
<1>2. ASSUME NEW id \in DOMAIN frames, StorageFails(id) PROVE Owed'
  BY <1>2, StorageFailsKeeps
<1>3. ASSUME NEW id \in DOMAIN frames, AnswerLost(id) PROVE Owed'
  BY <1>3, AnswerLostKeeps
<1>4. ASSUME NEW q \in Requests, Deletes(q[1], q[2], q[3]) PROVE Owed'
  BY <1>4, DeletesKeeps
<1>5. ASSUME NEW p \in Procs, Sweep(p) \/ Crash(p) \/ Restart(p) PROVE Owed'
  BY <1>5, SweepKeeps, CrashKeeps, RestartKeeps
<1>6. ASSUME UNCHANGED <<stored, names, frames, runs, pid>> PROVE Owed'
  <2>1. Shrinks
    BY <1>6, NothingGone DEF OrphanInv, Owed
  <2> QED BY <1>6, <2>1, CallsRest, NoRunMoves
<1>7. ASSUME NEW j \in Journals, LeaseRunsOut(j) PROVE Owed'
  <2>1. UNCHANGED <<stored, names, frames, runs, pid>>
    BY <1>7 DEF LeaseRunsOut
  <2> QED BY <1>6, <2>1
<1>8. CASE UNCHANGED vars
  <2>1. UNCHANGED <<stored, names, frames, runs, pid>>
    BY <1>8 DEF vars
  <2> QED BY <1>6, <2>1
<1>9. CASE Next
  BY <1>1, <1>2, <1>3, <1>4, <1>5, <1>7, <1>9 DEF Next
<1> QED BY <1>8, <1>9

(* OrphansWereBegun, for every deployment that asks all its children,      *)
(* journalled or not, whatever stops, is lost or overtaken: a delete,      *)
(* however far it reaches and wherever it fails, leaves a row naming one   *)
(* that is gone only where release() passed over a run in other hands      *)
(* (Release.ts:29-30, and "busy" at Release.ts:55).                        *)
THEOREM OrphansComeFromBusyRuns ==
  ASSUME EveryChildIsAsked PROVE Spec => []OrphansWereBegun
<1>1. Init => OrphanInv
  BY StartsOwed
<1>2. OrphanInv /\ [Next]_vars => OrphanInv'
  BY StepKeepsOwed
<1>3. OrphanInv => OrphansWereBegun
  BY DEF OrphanInv, Owed
<1> QED BY <1>1, <1>2, <1>3, PTL DEF Spec

(* Where nothing is written down, no run is ever in other hands: then never*)
(* an orphan, at any instant.                                              *)
THEOREM NeverAnOrphan ==
  ASSUME Unjournalled, EveryChildIsAsked PROVE Spec => []NoOrphan
<1>1. OrphansWereBegun => NoOrphan
  BY DEF Unjournalled, Journalled, OrphansWereBegun, Begun, NoOrphan
<1> QED BY <1>1, OrphansComeFromBusyRuns, PTL

-----------------------------------------------------------------------------
(***************************************************************************)
(* The shape of every deployment, journals and sweeps among them.  What is *)
(* left to do is never looked into: only that there is some, wherever a    *)
(* call is still on its way through the peers or the walk.                 *)
(***************************************************************************)
CallSorted(f) ==
  /\ f = [at |-> f.at, caller |-> f.caller, kind |-> f.kind, row |-> f.row, trail |-> f.trail,
          seen |-> f.seen, stage |-> f.stage, todo |-> f.todo, fresh |-> f.fresh,
          waits |-> f.waits, err |-> f.err, due |-> f.due]
  /\ f.stage \in CallStages /\ f.err \in {"none", "refused", "failed"}

(* An await behind it, a call has something to await. *)
Busy(f) == f.stage \in {"hop", "walk"} /\ ~f.waits => f.todo # << >>
CallFits(f) == CallSorted(f) /\ Busy(f) /\ f.at \in up

RowsTyped ==
  /\ stored \subseteq Rows
  /\ names \in [DOMAIN Fields -> [Rows -> Rows \cup {Nobody}]]
CallsTyped == DOMAIN frames \subseteq FrameIds /\ \A id \in DOMAIN frames : CallFits(frames[id])
AskedTyped == asked \in [Users -> {"idle", "waiting", "answered", "refused", "failed"}]
ReleaseTyped == RowsTyped /\ CallsTyped /\ AskedTyped

LEMMA OnwardFits ==
  ASSUME NEW f, CallSorted(f), NEW g, g = Onward(f)
  PROVE  CallSorted(g) /\ Busy(g) /\ g.at = f.at
<1>1. CASE f.todo # << >>
  BY <1>1 DEF Onward, Busy
<1>2. CASE f.todo = << >> /\ f.stage = "walk"
  <2>1. g = [f EXCEPT !.stage = "row"]
    BY <1>2 DEF Onward
  <2> QED BY <2>1 DEF CallSorted, Busy, CallStages
<1>3. CASE f.todo = << >> /\ f.stage = "hop"
  <2> PICK todo : todo = Walk(f.at, Entity[f.row], {f.row})
    OBVIOUS
  <2>1. g = [f EXCEPT !.todo = todo, !.stage = IF todo = << >> THEN "row" ELSE "walk"]
    BY <1>3 DEF Onward
  <2> QED BY <2>1 DEF CallSorted, Busy, CallStages
<1>4. CASE f.todo = << >> /\ f.stage \notin {"hop", "walk"}
  <2>1. g = f
    BY <1>4 DEF Onward
  <2> QED BY <2>1, <1>4 DEF Busy
<1> QED BY <1>1, <1>2, <1>3, <1>4

LEMMA FailedFits ==
  ASSUME NEW f, CallSorted(f), NEW error \in {"refused", "failed"}, NEW g, g = Fail(f, error)
  PROVE  CallSorted(g) /\ Busy(g) /\ g.at = f.at
<1> PICK s \in {"close", "end"} : s = IF ClosesRun(f, error) THEN "close" ELSE "end"
  OBVIOUS
<1>1. g = [f EXCEPT !.err = error, !.todo = << >>, !.stage = s]
  BY DEF Fail
<1> QED BY <1>1 DEF CallSorted, Busy, CallStages

LEMMA NoLongerWaits ==
  ASSUME NEW f, CallSorted(f), NEW g, g = [f EXCEPT !.waits = FALSE]
  PROVE  CallSorted(g) /\ g.at = f.at
BY DEF CallSorted

LEMMA LessFits ==
  ASSUME NEW f, CallSorted(f), NEW rows, NEW asks, NEW g, g = Less(f, rows, asks)
  PROVE  CallSorted(g) /\ g.at = f.at
<1>1. \E todo : g = [f EXCEPT !.todo = todo]
  BY DEF Less
<1> PICK todo : g = [f EXCEPT !.todo = todo]
  BY <1>1
<1> QED BY DEF CallSorted

LEMMA ThenFits ==
  ASSUME NEW f, CallSorted(f), NEW i, NEW items, NEW g, g = Then(f, i, items)
  PROVE  CallSorted(g) /\ Busy(g) /\ g.at = f.at
<1>1. \E todo : g = Onward([f EXCEPT !.todo = todo])
  BY DEF Then
<1> PICK todo : g = Onward([f EXCEPT !.todo = todo])
  BY <1>1
<1> PICK h : h = [f EXCEPT !.todo = todo]
  OBVIOUS
<1>2. CallSorted(h) /\ h.at = f.at /\ g = Onward(h)
  BY DEF CallSorted
<1> QED BY <1>2, OnwardFits

LEMMA FrameFits ==
  ASSUME NEW p, NEW who, NEW kind, NEW r, NEW visited, NEW h, h = Frame(p, who, kind, r, visited)
  PROVE  CallSorted(h) /\ h.at = p
<1> PICK todo, s : /\ todo = IF r \in visited \/ Peers[p] = {} THEN << >> ELSE <<Ask(p, {r})>>
                   /\ s = IF Journalled(p) THEN "open" ELSE "hop"
  OBVIOUS
<1>1. h = [at |-> p, caller |-> who, kind |-> kind, row |-> r,
           trail |-> visited \cup {r}, seen |-> {r}, stage |-> s, todo |-> todo,
           fresh |-> FALSE, waits |-> FALSE, err |-> "none", due |-> {}]
  BY DEF Frame
<1>2. s \in {"open", "hop"}
  OBVIOUS
<1> QED BY <1>1, <1>2 DEF CallSorted, CallStages

LEMMA NewFits ==
  ASSUME NEW p, NEW who, NEW kind, NEW r, NEW visited, NEW g, g = Onward(Frame(p, who, kind, r, visited))
  PROVE  CallSorted(g) /\ Busy(g) /\ g.at = p
<1> PICK h : h = Frame(p, who, kind, r, visited)
  OBVIOUS
<1> QED BY FrameFits, OnwardFits

LEMMA SweepFits ==
  ASSUME NEW h, CallSorted(h), NEW due, NEW g, g = [h EXCEPT !.stage = "pick", !.todo = << >>, !.due = due]
  PROVE  CallSorted(g) /\ Busy(g) /\ g.at = h.at
BY DEF CallSorted, Busy, CallStages

(* One call moves; one call waits for another. *)
LEMMA OneFits ==
  ASSUME CallsTyped, NEW id \in DOMAIN frames, NEW g, CallFits(g), Becomes(id, g), up' = up
  PROVE  CallsTyped'
BY DEF CallsTyped, CallFits, Becomes

LEMMA BothFit ==
  ASSUME CallsTyped, NEW id \in DOMAIN frames, NEW f, CallSorted(f), f.at \in up,
         NEW callee, CallFits(callee), Awaits(id, f, callee), up' = up
  PROVE  CallsTyped'
<1>1. Free \in FrameIds
  BY FreeIsFree DEF Awaits
<1> PICK g : g = [f EXCEPT !.waits = TRUE]
  OBVIOUS
<1>2. CallFits(g)
  BY DEF CallFits, CallSorted, Busy
<1>3. frames' = [i \in DOMAIN frames \cup {Free} |->
                  IF i = Free THEN callee ELSE IF i = id THEN g ELSE frames[i]]
  BY DEF Awaits
<1> QED BY <1>1, <1>2, <1>3 DEF CallsTyped, CallFits

LEMMA StepFits ==
  ASSUME ReleaseTyped, NEW id \in DOMAIN frames, Step(id) \/ StorageFails(id) \/ AnswerLost(id)
  PROVE  ReleaseTyped'
<1> PICK f : f = frames[id]
  OBVIOUS
<1>1. CallSorted(f) /\ Busy(f) /\ f.at \in up
  BY DEF ReleaseTyped, CallsTyped, CallFits
<1>2. ASSUME NEW g, CallSorted(g), Busy(g), g.at = f.at, Becomes(id, g), up' = up
      PROVE  CallsTyped'
  BY <1>1, <1>2, OneFits DEF ReleaseTyped, CallFits
<1>3. CASE OpenReads(id)
  <2>1. \E fresh, s : s \in CallStages \ {"hop", "walk"} /\ Becomes(id, [f EXCEPT !.fresh = fresh, !.stage = s])
    BY <1>3 DEF OpenReads, CallStages
  <2> PICK fresh, s : s \in CallStages \ {"hop", "walk"} /\ Becomes(id, [f EXCEPT !.fresh = fresh, !.stage = s])
    BY <2>1
  <2> PICK g : g = [f EXCEPT !.fresh = fresh, !.stage = s]
    OBVIOUS
  <2>2. CallSorted(g) /\ Busy(g) /\ g.at = f.at /\ Becomes(id, g)
    BY <1>1 DEF CallSorted, Busy
  <2>3. up' = up /\ UNCHANGED <<stored, names, asked>>
    BY <1>3 DEF OpenReads
  <2> QED BY <1>2, <2>2, <2>3 DEF ReleaseTyped, RowsTyped, AskedTyped
<1>4. CASE OpenWrites(id)
  <2>1. up' = up /\ UNCHANGED <<stored, names, asked>>
    BY <1>4 DEF OpenWrites
  <2>2. CallsTyped'
    <3>1. \/ Becomes(id, Fail(f, "refused"))
          \/ Becomes(id, [f EXCEPT !.stage = "walk", !.todo = <<Item("redo", {}, {f.row}, {})>>])
          \/ Becomes(id, Onward([f EXCEPT !.stage = "hop"]))
      BY <1>4 DEF OpenWrites
    <3>2. CASE Becomes(id, Fail(f, "refused"))
      BY <1>1, <1>2, <2>1, <3>2, FailedFits
    <3>3. CASE Becomes(id, [f EXCEPT !.stage = "walk", !.todo = <<Item("redo", {}, {f.row}, {})>>])
      <4> PICK todo : todo = <<Item("redo", {}, {f.row}, {})>>
        OBVIOUS
      <4>1. todo # << >>
        OBVIOUS
      <4> PICK g : g = [f EXCEPT !.stage = "walk", !.todo = todo]
        OBVIOUS
      <4>2. CallSorted(g) /\ Busy(g) /\ g.at = f.at
        BY <1>1, <4>1 DEF CallSorted, Busy, CallStages
      <4> QED BY <1>2, <2>1, <3>3, <4>2
    <3>4. CASE Becomes(id, Onward([f EXCEPT !.stage = "hop"]))
      <4> PICK h : h = [f EXCEPT !.stage = "hop"]
        OBVIOUS
      <4>1. CallSorted(h) /\ h.at = f.at
        BY <1>1 DEF CallSorted, CallStages
      <4> QED BY <1>2, <2>1, <3>4, <4>1, OnwardFits
    <3> QED BY <3>1, <3>2, <3>3, <3>4
  <2> QED BY <2>1, <2>2 DEF ReleaseTyped, RowsTyped, AskedTyped
<1>5. ASSUME NEW i \in DOMAIN Fields, RefuseRestricted(id, i) \/ Level(id, i) PROVE ReleaseTyped'
  <2>1. up' = up /\ UNCHANGED <<stored, names, asked>>
    BY <1>5 DEF RefuseRestricted, Level
  <2>2. \/ Becomes(id, Fail(f, "refused"))
        \/ \E items : Becomes(id, Then(f, i, items))
        \/ \E items, more : Becomes(id, Then([f EXCEPT !.seen = f.seen \cup more], i, items))
    <3>1. CASE RefuseRestricted(id, i)
      BY <3>1 DEF RefuseRestricted
    <3>2. CASE Level(id, i)
      BY <3>2 DEF Level
    <3> QED BY <1>5, <3>1, <3>2
  <2>3. CASE Becomes(id, Fail(f, "refused"))
    BY <1>1, <1>2, <2>1, <2>3, FailedFits DEF ReleaseTyped, RowsTyped, AskedTyped
  <2>4. CASE \E items : Becomes(id, Then(f, i, items))
    BY <1>1, <1>2, <2>1, <2>4, ThenFits DEF ReleaseTyped, RowsTyped, AskedTyped
  <2>5. CASE \E items, more : Becomes(id, Then([f EXCEPT !.seen = f.seen \cup more], i, items))
    <3> PICK items, more : Becomes(id, Then([f EXCEPT !.seen = f.seen \cup more], i, items))
      BY <2>5
    <3> PICK h : h = [f EXCEPT !.seen = f.seen \cup more]
      OBVIOUS
    <3>1. CallSorted(h) /\ h.at = f.at
      BY <1>1 DEF CallSorted
    <3> QED BY <1>2, <2>1, <3>1, ThenFits DEF ReleaseTyped, RowsTyped, AskedTyped
  <2> QED BY <2>2, <2>3, <2>4, <2>5
<1>6. ASSUME NEW r \in Rows, Null(id, r) PROVE ReleaseTyped'
  <2>1. up' = up /\ UNCHANGED <<stored, asked>>
    BY <1>6 DEF Null
  <2>2. names' \in [DOMAIN Fields -> [Rows -> Rows \cup {Nobody}]]
    <3>1. names' = names \/ \E i : names' = [names EXCEPT ![i][r] = Nobody]
      BY <1>6 DEF Null
    <3> QED BY <3>1 DEF ReleaseTyped, RowsTyped
  <2>3. Becomes(id, Onward(Less(f, {r}, {}))) \/ Becomes(id, Fail(f, "refused"))
    BY <1>6 DEF Null
  <2>4. CASE Becomes(id, Onward(Less(f, {r}, {})))
    <3> PICK h : h = Less(f, {r}, {})
      OBVIOUS
    <3>1. CallSorted(h) /\ h.at = f.at
      BY <1>1, LessFits
    <3>2. CallsTyped'
      BY <1>2, <2>1, <2>4, <3>1, OnwardFits
    <3> QED BY <2>1, <2>2, <3>2 DEF ReleaseTyped, RowsTyped, AskedTyped
  <2>5. CASE Becomes(id, Fail(f, "refused"))
    <3>1. CallsTyped'
      BY <1>1, <1>2, <2>1, <2>5, FailedFits
    <3> QED BY <2>1, <2>2, <3>1 DEF ReleaseTyped, RowsTyped, AskedTyped
  <2> QED BY <2>3, <2>4, <2>5
<1>7. ASSUME NEW r \in Rows, DeleteBelow(id, r) PROVE ReleaseTyped'
  <2>1. up' = up /\ UNCHANGED <<stored, names, asked>>
    BY <1>7 DEF DeleteBelow
  <2>2. \E kind : Awaits(id, Less(f, {r}, {}), Onward(Frame(f.at, id, kind, r, {})))
    BY <1>7 DEF DeleteBelow
  <2> PICK kind : Awaits(id, Less(f, {r}, {}), Onward(Frame(f.at, id, kind, r, {})))
    BY <2>2
  <2> PICK h, callee : h = Less(f, {r}, {}) /\ callee = Onward(Frame(f.at, id, kind, r, {}))
    OBVIOUS
  <2>3. CallSorted(h) /\ h.at \in up /\ CallFits(callee)
    BY <1>1, LessFits, NewFits DEF CallFits
  <2>4. CallsTyped'
    BY <2>1, <2>3, BothFit DEF ReleaseTyped
  <2> QED BY <2>1, <2>4 DEF ReleaseTyped, RowsTyped, AskedTyped
<1>8. ASSUME NEW r \in Rows, NEW q \in Procs, AskPeer(id, r, q) PROVE ReleaseTyped'
  <2>1. up' = up /\ UNCHANGED <<stored, names, asked>>
    BY <1>8 DEF AskPeer
  <2>2. CASE q \in up
    <3> PICK h, callee : h = Less(f, {}, {<<r, q>>}) /\ callee = Onward(Frame(q, id, "ask", r, f.trail))
      OBVIOUS
    <3>1. Awaits(id, h, callee)
      BY <1>8, <2>2 DEF AskPeer
    <3>2. CallSorted(h) /\ h.at \in up /\ CallFits(callee)
      BY <1>1, <2>2, LessFits, NewFits DEF CallFits
    <3>3. CallsTyped'
      BY <2>1, <3>1, <3>2, BothFit DEF ReleaseTyped
    <3> QED BY <2>1, <3>3 DEF ReleaseTyped, RowsTyped, AskedTyped
  <2>3. CASE q \notin up
    <3>1. Becomes(id, Fail(f, "refused"))
      BY <1>8, <2>3 DEF AskPeer
    <3> QED BY <1>1, <1>2, <2>1, <3>1, FailedFits DEF ReleaseTyped, RowsTyped, AskedTyped
  <2> QED BY <2>2, <2>3
<1>9. CASE RowGoes(id)
  <2>1. up' = up /\ asked' = asked
    BY <1>9 DEF RowGoes
  <2>2. RowsTyped'
    <3>1. \/ UNCHANGED <<stored, names>>
          \/ /\ stored' = stored \ {f.row}
             /\ names' = [i \in DOMAIN names |-> [names[i] EXCEPT ![f.row] = Nobody]]
      BY <1>9 DEF RowGoes
    <3> QED BY <3>1 DEF ReleaseTyped, RowsTyped
  <2>3. CallsTyped'
    <3> PICK s \in {"close", "end"} : s = IF Journalled(f.at) THEN "close" ELSE "end"
      OBVIOUS
    <3> PICK h : h = [f EXCEPT !.stage = s]
      OBVIOUS
    <3>1. CallSorted(h) /\ Busy(h) /\ h.at = f.at
      BY <1>1 DEF CallSorted, Busy, CallStages
    <3>2. \/ Becomes(id, h)
          \/ Awaits(id, h, Onward(Frame(f.at, id, "gesture", f.row, {})))
      BY <1>9 DEF RowGoes
    <3>3. CASE Becomes(id, h)
      BY <1>2, <2>1, <3>1, <3>3
    <3>4. CASE Awaits(id, h, Onward(Frame(f.at, id, "gesture", f.row, {})))
      <4> PICK callee : callee = Onward(Frame(f.at, id, "gesture", f.row, {}))
        OBVIOUS
      <4>1. CallFits(callee)
        BY <1>1, NewFits DEF CallFits
      <4> QED BY <1>1, <2>1, <3>1, <3>4, <4>1, BothFit DEF ReleaseTyped
    <3> QED BY <3>2, <3>3, <3>4
  <2> QED BY <2>1, <2>2, <2>3 DEF ReleaseTyped, AskedTyped
<1>10. CASE Closes(id) \/ SweepPicks(id)
  <2>1. up' = up /\ UNCHANGED <<stored, names, asked>>
    BY <1>10 DEF Closes, SweepPicks
  <2>2. \E k, due, s : /\ s \in CallStages \ {"hop", "walk"}
                         /\ Becomes(id, [f EXCEPT !.row = k, !.due = due, !.stage = s])
    <3>1. f = [f EXCEPT !.row = f.row] /\ f = [f EXCEPT !.due = f.due]
      BY <1>1 DEF CallSorted
    <3>2. ASSUME NEW s \in CallStages \ {"hop", "walk"}, Becomes(id, [f EXCEPT !.stage = s])
          PROVE  Becomes(id, [f EXCEPT !.row = f.row, !.due = f.due, !.stage = s])
      <4>1. [f EXCEPT !.row = f.row, !.due = f.due, !.stage = s] = [f EXCEPT !.stage = s]
        BY <1>1 DEF CallSorted
      <4> QED BY <3>2, <4>1
    <3>3. CASE Closes(id)
      <4>1. \E s \in CallStages \ {"hop", "walk"} : Becomes(id, [f EXCEPT !.stage = s])
        BY <3>3 DEF Closes, CallStages
      <4> QED BY <3>2, <4>1
    <3>4. CASE SweepPicks(id)
      <4>1. \/ Becomes(id, [f EXCEPT !.stage = "end"])
            \/ \E r \in f.due : Becomes(id, [f EXCEPT !.row = r, !.due = f.due \ {r}, !.stage = "open"])
        BY <3>4 DEF SweepPicks
      <4> QED BY <3>2, <4>1 DEF CallStages
    <3> QED BY <1>10, <3>3, <3>4
  <2> PICK k, due, s : /\ s \in CallStages \ {"hop", "walk"}
                         /\ Becomes(id, [f EXCEPT !.row = k, !.due = due, !.stage = s])
    BY <2>2
  <2> PICK g : g = [f EXCEPT !.row = k, !.due = due, !.stage = s]
    OBVIOUS
  <2>3. CallSorted(g) /\ Busy(g) /\ g.at = f.at
    BY <1>1 DEF CallSorted, Busy
  <2> QED BY <1>2, <2>1, <2>3 DEF ReleaseTyped, RowsTyped, AskedTyped
<1>11. CASE Answers(id)
  <2> DEFINE Told(g) == IF f.err = "none" THEN Onward([g EXCEPT !.waits = FALSE])
                        ELSE Fail([g EXCEPT !.waits = FALSE], Crossing(f.err, f.at, g.at))
  <2>1. /\ frames' = [i \in DOMAIN frames \ {id} |-> IF i = f.caller THEN Told(frames[i]) ELSE frames[i]]
        /\ up' = up /\ UNCHANGED <<stored, names>>
        /\ asked' = IF f.caller \in Users
                    THEN [asked EXCEPT ![f.caller] = IF f.err = "none" THEN "answered" ELSE f.err]
                    ELSE asked
    BY <1>11 DEF Answers
  <2>2. AskedTyped'
    BY <1>1, <2>1 DEF ReleaseTyped, AskedTyped, CallSorted
  <2>3. ASSUME NEW i \in DOMAIN frames PROVE CallFits(Told(frames[i]))
    <3> PICK g, h : g = frames[i] /\ h = [g EXCEPT !.waits = FALSE]
      OBVIOUS
    <3>1. CallSorted(h) /\ h.at = g.at /\ g.at \in up
      BY NoLongerWaits DEF ReleaseTyped, CallsTyped, CallFits
    <3>2. CASE f.err = "none"
      BY <3>1, <3>2, OnwardFits DEF CallFits
    <3>3. CASE f.err # "none"
      <4>1. Crossing(f.err, f.at, g.at) \in {"refused", "failed"}
        BY <1>1, <3>3 DEF CallSorted, Crossing
      <4> QED BY <3>1, <3>3, <4>1, FailedFits DEF CallFits
    <3> QED BY <3>2, <3>3
  <2> HIDE DEF Told
  <2>4. CallsTyped'
    BY <2>1, <2>3 DEF ReleaseTyped, CallsTyped, CallFits
  <2> QED BY <2>1, <2>2, <2>4 DEF ReleaseTyped, RowsTyped
<1>12. CASE StorageFails(id)
  <2>1. up' = up /\ UNCHANGED <<stored, names, asked>> /\ Becomes(id, Fail(f, "failed"))
    BY <1>12 DEF StorageFails
  <2> QED BY <1>1, <1>2, <2>1, FailedFits DEF ReleaseTyped, RowsTyped, AskedTyped
<1>13. CASE AnswerLost(id)
  <2>1. up' = up /\ UNCHANGED <<stored, names, asked>> /\ f.caller \in DOMAIN frames
        /\ frames[f.caller].at # f.at
    BY <1>13 DEF AnswerLost
  <2> PICK c, g, h, w : /\ c = f.caller /\ g = [f EXCEPT !.caller = Nobody]
                        /\ w = [frames[c] EXCEPT !.waits = FALSE] /\ h = Fail(w, "refused")
    OBVIOUS
  <2>2. CallFits(h)
    <3>1. CallSorted(w) /\ w.at = frames[c].at /\ frames[c].at \in up
      BY <2>1, NoLongerWaits DEF ReleaseTyped, CallsTyped, CallFits
    <3> QED BY <3>1, FailedFits DEF CallFits
  <2>3. CallFits(g)
    BY <1>1 DEF CallFits, CallSorted, Busy
  <2>4. DOMAIN frames' = DOMAIN frames
        /\ \A i \in DOMAIN frames : frames'[i] = IF i = c THEN h ELSE IF i = id THEN g ELSE frames[i]
    BY <1>13, <2>1 DEF AnswerLost
  <2>5. CallsTyped'
    BY <2>1, <2>2, <2>3, <2>4 DEF ReleaseTyped, CallsTyped, CallFits
  <2> QED BY <2>1, <2>5 DEF ReleaseTyped, RowsTyped, AskedTyped
<1> QED BY <1>3, <1>4, <1>5, <1>6, <1>7, <1>8, <1>9, <1>10, <1>11, <1>12, <1>13 DEF Step

LEMMA OutsideFits ==
  ASSUME ReleaseTyped,
         \/ \E q \in Requests : Deletes(q[1], q[2], q[3])
         \/ \E p \in Procs : Sweep(p) \/ Crash(p) \/ Restart(p)
         \/ \E j \in Journals : LeaseRunsOut(j)
         \/ UNCHANGED vars
  PROVE  ReleaseTyped'
<1>1. ASSUME NEW q \in Requests, Deletes(q[1], q[2], q[3]) PROVE ReleaseTyped'
  <2> PICK callee : callee = Onward(Frame(q[2], q[1], "gesture", q[3], {}))
    OBVIOUS
  <2>1. /\ q[2] \in up /\ FreeIds # {} /\ up' = up /\ UNCHANGED <<stored, names>>
        /\ asked' = [asked EXCEPT ![q[1]] = "waiting"]
        /\ frames' = [i \in DOMAIN frames \cup {Free} |-> IF i = Free THEN callee ELSE frames[i]]
    BY <1>1 DEF Deletes
  <2>2. CallFits(callee) /\ Free \in FrameIds
    BY <2>1, NewFits, FreeIsFree DEF CallFits
  <2>3. CallsTyped'
    BY <2>1, <2>2 DEF ReleaseTyped, CallsTyped, CallFits
  <2> QED BY <2>1, <2>3 DEF ReleaseTyped, RowsTyped, AskedTyped
<1>2. ASSUME NEW p \in Procs, Sweep(p) PROVE ReleaseTyped'
  <2>1. /\ \E due, r : frames' = [i \in DOMAIN frames \cup {Free} |->
             IF i = Free THEN [Frame(p, Nobody, "sweep", r, {}) EXCEPT !.stage = "pick", !.todo = << >>, !.due = due]
             ELSE frames[i]]
        /\ p \in up /\ FreeIds # {} /\ up' = up /\ UNCHANGED <<stored, names, asked>>
    BY <1>2 DEF Sweep
  <2> PICK due, r : frames' = [i \in DOMAIN frames \cup {Free} |->
             IF i = Free THEN [Frame(p, Nobody, "sweep", r, {}) EXCEPT !.stage = "pick", !.todo = << >>, !.due = due]
             ELSE frames[i]]
    BY <2>1
  <2> PICK g : g = [Frame(p, Nobody, "sweep", r, {}) EXCEPT !.stage = "pick", !.todo = << >>, !.due = due]
    OBVIOUS
  <2>2. CallFits(g)
    <3> PICK h : h = Frame(p, Nobody, "sweep", r, {})
      OBVIOUS
    <3>1. g = [h EXCEPT !.stage = "pick", !.todo = << >>, !.due = due]
      OBVIOUS
    <3>2. CallSorted(h) /\ h.at = p
      BY FrameFits
    <3>3. CallSorted(g) /\ Busy(g) /\ g.at = h.at
      BY <3>1, <3>2, SweepFits
    <3>4. p \in up
      BY <2>1
    <3> QED BY <3>2, <3>3, <3>4 DEF CallFits
  <2>3. Free \in FrameIds
    BY <2>1, FreeIsFree
  <2>4. CallsTyped'
    BY <2>1, <2>2, <2>3 DEF ReleaseTyped, CallsTyped, CallFits
  <2> QED BY <2>1, <2>4 DEF ReleaseTyped, RowsTyped, AskedTyped
<1>3. ASSUME NEW p \in Procs, Crash(p) PROVE ReleaseTyped'
  <2> DEFINE gone == {id \in DOMAIN frames : frames[id].at = p}
             left(i) == IF frames[i].caller \in gone THEN [frames[i] EXCEPT !.caller = Nobody] ELSE frames[i]
             cutOff(i) == \E id \in gone : frames[id].caller = i
  <2>1. /\ frames' = [i \in DOMAIN frames \ gone |->
             IF cutOff(i) THEN Fail([left(i) EXCEPT !.waits = FALSE], "refused") ELSE left(i)]
        /\ up' = up \ {p} /\ UNCHANGED <<stored, names>>
        /\ asked' = [u \in Users |-> IF \E id \in gone : frames[id].caller = u THEN "refused" ELSE asked[u]]
    BY <1>3 DEF Crash
  <2>2. AskedTyped'
    BY <2>1 DEF ReleaseTyped, AskedTyped
  <2>3. ASSUME NEW i \in DOMAIN frames \ gone
        PROVE  /\ CallSorted(frames'[i]) /\ Busy(frames'[i]) /\ frames'[i].at \in up'
    <3> PICK g, h, w : g = frames[i] /\ h = left(i) /\ w = [h EXCEPT !.waits = FALSE]
      OBVIOUS
    <3>1. CallSorted(g) /\ Busy(g) /\ g.at \in up /\ g.at # p
      BY DEF ReleaseTyped, CallsTyped, CallFits
    <3>2. CallSorted(h) /\ Busy(h) /\ h.at = g.at
      <4>1. h = g \/ h = [g EXCEPT !.caller = Nobody]
        OBVIOUS
      <4> QED BY <3>1, <4>1 DEF CallSorted, Busy
    <3>3. CallSorted(w) /\ w.at = g.at
      BY <3>2, NoLongerWaits
    <3> HIDE DEF left, cutOff
    <3>4. frames'[i] = Fail(w, "refused") \/ frames'[i] = h
      BY <2>1
    <3>5. h.at \in up' /\ w.at \in up'
      BY <2>1, <3>1, <3>2, <3>3
    <3>6. CASE frames'[i] = Fail(w, "refused")
      BY <3>3, <3>5, <3>6, FailedFits
    <3> QED BY <3>2, <3>4, <3>5, <3>6
  <2>4. DOMAIN frames' \subseteq FrameIds /\ DOMAIN frames' = DOMAIN frames \ gone
    BY <2>1 DEF ReleaseTyped, CallsTyped
  <2>5. CallsTyped'
    BY <2>3, <2>4 DEF CallsTyped, CallFits
  <2> QED BY <2>1, <2>2, <2>5 DEF ReleaseTyped, RowsTyped
<1>4. ASSUME NEW p \in Procs, Restart(p) PROVE ReleaseTyped'
  <2>1. up \subseteq up' /\ UNCHANGED <<stored, names, frames, asked>>
    BY <1>4 DEF Restart
  <2> QED BY <2>1 DEF ReleaseTyped, RowsTyped, CallsTyped, CallFits, AskedTyped
<1>5. ASSUME up' = up, UNCHANGED <<stored, names, frames, asked>> PROVE ReleaseTyped'
  BY <1>5 DEF ReleaseTyped, RowsTyped, CallsTyped, CallFits, AskedTyped
<1>6. ASSUME NEW j \in Journals, LeaseRunsOut(j) PROVE ReleaseTyped'
  BY <1>5, <1>6 DEF LeaseRunsOut
<1>7. CASE UNCHANGED vars
  BY <1>5, <1>7 DEF vars
<1> QED BY <1>1, <1>2, <1>3, <1>4, <1>6, <1>7

(* TypeOK, for every deployment, journalled or not: calls stand at         *)
(* processes that are up, and none is left in the middle of its walk with  *)
(* nothing to do and nobody to wait for.                                   *)
THEOREM ReleaseKeepsItsTypes == Spec => []TypeOK
<1>1. Init => ReleaseTyped
  <2> SUFFICES ASSUME Init PROVE ReleaseTyped
    OBVIOUS
  <2>1. DOMAIN frames = {}
    BY DEF Init
  <2> QED BY <2>1, NamesFit DEF Init, ReleaseTyped, RowsTyped, CallsTyped, AskedTyped
<1>2. ReleaseTyped /\ [Next]_vars => ReleaseTyped'
  BY StepFits, OutsideFits DEF Next
<1>3. ReleaseTyped => TypeOK
  BY DEF ReleaseTyped, RowsTyped, CallsTyped, CallFits, CallSorted, Busy, CallStages, AskedTyped, TypeOK
<1> QED BY <1>1, <1>2, <1>3, PTL DEF Spec

-----------------------------------------------------------------------------
(***************************************************************************)
(* Calls kept for later (Later.tla), for any number of calls and beats,    *)
(* however often they throw, stop and are taken over.  Nothing below       *)
(* depends on which takes are believed: safety does not rest on the take,  *)
(* only how soon a call is made does.                                      *)
(***************************************************************************)

(* The parts of the state the argument is about, and their shape. *)
LaterShape ==
  /\ row \in [Calls -> {"never", "kept", "deleted"}]
  /\ hour \in SUBSET Calls
  /\ made \in [Calls -> 0 .. MaxMade]
  /\ beat \in [Beats -> [stage : {"asleep", "next", "take", "make", "done"},
                         left : SUBSET Calls, call : Calls \cup {NoCall}]]

(* A beat has a call in hand from its take on. *)
InHand == \A b \in Beats : beat[b].stage \in {"take", "make", "done"} => beat[b].call \in hour

(* A beat is done with a call it made, and tries rows it read as due. *)
DoneIsMade == \A b \in Beats : beat[b].stage = "done" => made[beat[b].call] >= 1

LaterInv == LaterShape /\ InHand /\ DoneIsMade /\ DeletedOnceMade /\ NotBeforeItsHour

USE DEF Asleep, Passed, Freed

(* The invariant holds of no call kept. *)
LEMMA LaterAtFirst == LaterInit => LaterInv
  BY MadeCounts DEF LaterInit, LaterInv, LaterShape, InHand, DoneIsMade, DeletedOnceMade, NotBeforeItsHour

(* The writer, the clock and the expiry of a take. *)
LEMMA LaterKeptAside ==
  ASSUME LaterInv,
         (\E c \in Calls : Keep(c) \/ HourComes(c)) \/ TakeRunsOut \/ UNCHANGED laterVars
  PROVE  LaterInv'
<1>1. CASE \E c \in Calls : Keep(c)
  BY <1>1 DEF Keep, LaterInv, LaterShape, InHand, DoneIsMade, DeletedOnceMade, NotBeforeItsHour
<1>2. CASE \E c \in Calls : HourComes(c)
  BY <1>2 DEF HourComes, LaterInv, LaterShape, InHand, DoneIsMade, DeletedOnceMade, NotBeforeItsHour
<1>3. CASE TakeRunsOut
  BY <1>3 DEF TakeRunsOut, LaterInv, LaterShape, InHand, DoneIsMade, DeletedOnceMade, NotBeforeItsHour
<1>4. CASE UNCHANGED laterVars
  BY <1>4 DEF laterVars, LaterInv, LaterShape, InHand, DoneIsMade, DeletedOnceMade, NotBeforeItsHour
<1>5. QED
  BY <1>1, <1>2, <1>3, <1>4

(* Every step of a beat, wherever the other beats are. *)
LEMMA LaterKeptByABeat ==
  ASSUME LaterInv, NEW b \in Beats, BeatStep(b) \/ CallThrows(b) \/ BeatStops(b)
  PROVE  LaterInv'
<1> USE DEF LaterInv, LaterShape
<1>1. CASE BeatReads(b)
  BY <1>1 DEF BeatReads, Due, InHand, DoneIsMade, DeletedOnceMade, NotBeforeItsHour
<1>2. CASE \E c \in Calls : TakeReads(b, c)
  <2> PICK c \in Calls : TakeReads(b, c)
    BY <1>2
  <2>1. c \in hour
    BY DEF TakeReads, NotBeforeItsHour
  <2> QED
    BY <2>1 DEF TakeReads, InHand, DoneIsMade, DeletedOnceMade, NotBeforeItsHour
<1>3. CASE TakeWrites(b)
  BY <1>3 DEF TakeWrites, InHand, DoneIsMade, DeletedOnceMade, NotBeforeItsHour
<1>4. CASE Makes(b)
  <2>1. beat[b].call \in hour /\ beat[b].call \in Calls
    BY <1>4 DEF Makes, InHand
  <2>2. made' \in [Calls -> 0 .. MaxMade] /\ made'[beat[b].call] >= 1
    BY <1>4, <2>1, MadeCounts DEF Makes
  <2>3. \A c \in Calls : made[c] >= 1 => made'[c] >= 1
    BY <1>4, <2>1, MadeCounts DEF Makes
  <2>4. \A c \in Calls : made'[c] > 0 => c \in hour
    BY <1>4, <2>1 DEF Makes, NotBeforeItsHour
  <2>5. /\ \A d \in Beats : beat'[d].left = beat[d].left /\ beat'[d].call = beat[d].call
        /\ \A d \in Beats : d # b => beat'[d] = beat[d]
        /\ beat'[b].stage = "done" /\ beat[b].stage = "make"
    BY <1>4 DEF Makes
  <2>6. LaterShape'
    BY <1>4, <2>2 DEF Makes
  <2>7. DoneIsMade'
    <3> SUFFICES ASSUME NEW d \in Beats, beat'[d].stage = "done"
                 PROVE  made'[beat'[d].call] >= 1
      BY DEF DoneIsMade
    <3>1. CASE d = b
      BY <3>1, <2>2, <2>5
    <3>2. CASE d # b
      <4>1. beat[d].stage = "done" /\ beat'[d].call = beat[d].call
        BY <3>2, <2>5
      <4>2. beat[d].call \in Calls /\ made[beat[d].call] >= 1
        BY <4>1 DEF InHand, DoneIsMade
      <4> QED
        BY <4>1, <4>2, <2>3
    <3> QED
      BY <3>1, <3>2
  <2>8. InHand' /\ DeletedOnceMade' /\ NotBeforeItsHour'
    BY <1>4, <2>3, <2>4, <2>5 DEF Makes, InHand, DeletedOnceMade, NotBeforeItsHour
  <2> QED
    BY <2>6, <2>7, <2>8
<1>5. CASE Done(b)
  <2>1. beat[b].call \in Calls /\ made[beat[b].call] >= 1
    BY <1>5 DEF Done, InHand, DoneIsMade
  <2> QED
    BY <1>5, <2>1 DEF Done, InHand, DoneIsMade, DeletedOnceMade, NotBeforeItsHour
<1>6. CASE BeatEnds(b)
  BY <1>6 DEF BeatEnds, InHand, DoneIsMade, DeletedOnceMade, NotBeforeItsHour
<1>7. CASE CallThrows(b)
  BY <1>7 DEF CallThrows, InHand, DoneIsMade, DeletedOnceMade, NotBeforeItsHour
<1>8. CASE BeatStops(b)
  BY <1>8 DEF BeatStops, InHand, DoneIsMade, DeletedOnceMade, NotBeforeItsHour
<1>9. QED
  BY <1>1, <1>2, <1>3, <1>4, <1>5, <1>6, <1>7, <1>8 DEF BeatStep

(* The invariant holds throughout. *)
THEOREM KeptCallsInvariant == LaterSpec => []LaterInv
<1>1. LaterInv /\ [LaterNext]_laterVars => LaterInv'
  BY LaterKeptAside, LaterKeptByABeat DEF LaterNext
<1>2. QED
  BY LaterAtFirst, <1>1, PTL DEF LaterSpec

(* A row goes only once its call was made: no order of throws, stops,      *)
(* expiries and overlapping beats loses a kept call.                       *)
THEOREM KeptCallsAreNotLost == LaterSpec => []DeletedOnceMade
<1>1. LaterInv => DeletedOnceMade
  BY DEF LaterInv
<1>2. QED
  BY KeptCallsInvariant, <1>1, PTL

(* No beat makes a call before its hour, however long ago it read it.      *)
THEOREM KeptCallsWait == LaterSpec => []NotBeforeItsHour
<1>1. LaterInv => NotBeforeItsHour
  BY DEF LaterInv
<1>2. QED
  BY KeptCallsInvariant, <1>1, PTL

-----------------------------------------------------------------------------
(* The takes are a list without repetition: one that is let go of leaves   *)
(* the rest of them in their order.                                        *)
Once(t) == \A i, j \in DOMAIN t : t[i] = t[j] => i = j

LEMMA LessOne ==
  ASSUME NEW S, NEW t \in Seq(S), Once(t), NEW k \in 1 .. Len(t)
  PROVE  /\ RemoveAt(t, k) \in Seq(S) /\ Once(RemoveAt(t, k))
         /\ \A i \in DOMAIN RemoveAt(t, k) : RemoveAt(t, k)[i] # t[k]
<1>1. PICK u, p, q : u = p \o q /\ p = SubSeq(t, 1, k - 1) /\ q = SubSeq(t, k + 1, Len(t))
  OBVIOUS
<1>2. RemoveAt(t, k) = u
  BY <1>1 DEF RemoveAt
<1>3. p \in Seq(S) /\ Len(p) = k - 1 /\ \A j \in 1 .. k - 1 : p[j] = t[j]
  <2>1. /\ 1 \in Int /\ k - 1 \in Int /\ \A i \in 1 .. k - 1 : t[i] \in S
        /\ (IF 1 <= k - 1 THEN k - 1 - 1 + 1 ELSE 0) = k - 1
    OBVIOUS
  <2>2. /\ p \in Seq(S) /\ Len(p) = k - 1
        /\ \A j \in 1 .. k - 1 - 1 + 1 : p[j] = t[1 + j - 1]
    BY <1>1, <2>1, SubSeqProperties
  <2> QED BY <2>2
<1>4. q \in Seq(S) /\ Len(q) = Len(t) - k /\ \A j \in 1 .. Len(t) - k : q[j] = t[k + j]
  <2>1. /\ k + 1 \in Int /\ Len(t) \in Int /\ \A i \in k + 1 .. Len(t) : t[i] \in S
        /\ (IF k + 1 <= Len(t) THEN Len(t) - (k + 1) + 1 ELSE 0) = Len(t) - k
    OBVIOUS
  <2>2. /\ q \in Seq(S) /\ Len(q) = Len(t) - k
        /\ \A j \in 1 .. Len(t) - (k + 1) + 1 : q[j] = t[k + 1 + j - 1]
    BY <1>1, <2>1, SubSeqProperties
  <2> QED BY <2>2
<1>5. /\ u \in Seq(S) /\ Len(u) = Len(p) + Len(q)
      /\ \A j \in 1 .. Len(u) : u[j] = IF j <= Len(p) THEN p[j] ELSE q[j - Len(p)]
  <2>1. u = p \o q
    BY <1>1
  <2>2. p \in Seq(S) /\ q \in Seq(S)
    BY <1>3, <1>4
  <2> QED BY <2>1, <2>2, ConcatProperties
<1>6. ASSUME NEW j \in 1 .. Len(u)
      PROVE  \E m \in 1 .. Len(t) : m = (IF j < k THEN j ELSE j + 1) /\ u[j] = t[m]
  <2>1. CASE j < k
    BY <1>3, <1>4, <1>5, <2>1
  <2>2. CASE j >= k
    <3>1. j - Len(p) \in 1 .. Len(q) /\ u[j] = q[j - Len(p)]
      BY <1>3, <1>4, <1>5, <2>2
    <3>2. k + (j - Len(p)) = j + 1
      BY <1>3
    <3> QED BY <1>3, <1>4, <2>2, <3>1, <3>2
  <2> QED BY <2>1, <2>2
<1>7. Once(u) /\ \A j \in 1 .. Len(u) : u[j] # t[k]
  <2>1. ASSUME NEW i \in 1 .. Len(u), NEW j \in 1 .. Len(u), u[i] = u[j] PROVE i = j
    <3>1. PICK m \in 1 .. Len(t) : m = (IF i < k THEN i ELSE i + 1) /\ u[i] = t[m]
      BY <1>6
    <3>2. PICK n \in 1 .. Len(t) : n = (IF j < k THEN j ELSE j + 1) /\ u[j] = t[n]
      BY <1>6
    <3>3. t[m] = t[n]
      BY <2>1, <3>1, <3>2
    <3>4. m = n
      <4>1. DOMAIN t = 1 .. Len(t)
        OBVIOUS
      <4> QED BY <3>3, <4>1 DEF Once
    <3> QED BY <3>1, <3>2, <3>4
  <2>2. ASSUME NEW j \in 1 .. Len(u) PROVE u[j] # t[k]
    <3>1. PICK m \in 1 .. Len(t) : m = (IF j < k THEN j ELSE j + 1) /\ u[j] = t[m]
      BY <1>6
    <3> QED BY <3>1 DEF Once
  <2>3. DOMAIN u = 1 .. Len(u)
    BY <1>5
  <2> QED BY <2>1, <2>2, <2>3 DEF Once
<1> QED BY <1>2, <1>5, <1>7

TakesTyped == takes \in Seq(Calls) /\ Once(takes)

LEMMA UntakenKeeps ==
  ASSUME TakesTyped, NEW c \in Calls
  PROVE  /\ Untaken(c) \in Seq(Calls) /\ Once(Untaken(c))
         /\ Hold(c) \in Seq(Calls) /\ Once(Hold(c))
<1>1. PICK u : u = Untaken(c)
  OBVIOUS
<1>2. u \in Seq(Calls) /\ Once(u) /\ \A i \in DOMAIN u : u[i] # c
  <2>1. CASE ~Taken(c)
    BY <1>1, <2>1 DEF Untaken, Taken, Contains, TakesTyped
  <2>2. CASE Taken(c)
    <3>1. PICK k : k = CHOOSE j \in DOMAIN takes : takes[j] = c
      OBVIOUS
    <3>2. k \in 1 .. Len(takes) /\ takes[k] = c
      BY <2>2, <3>1 DEF Taken, Contains, TakesTyped
    <3>3. u = RemoveAt(takes, k)
      BY <1>1, <2>2, <3>1 DEF Untaken
    <3> QED BY <3>2, <3>3, LessOne DEF TakesTyped
  <2> QED BY <2>1, <2>2
<1>3. PICK h : h = Append(u, c)
  OBVIOUS
<1>4. h \in Seq(Calls) /\ Once(h)
  BY <1>2, <1>3 DEF Once
<1> QED BY <1>1, <1>2, <1>3, <1>4 DEF Hold

LEMMA TakesKept ==
  ASSUME TakesTyped, LaterInv, [LaterNext]_laterVars
  PROVE  TakesTyped'
<1>1. CASE UNCHANGED takes
  BY <1>1 DEF TakesTyped
<1>2. ASSUME NEW b \in Beats, TakeWrites(b) \/ Done(b)
      PROVE  TakesTyped'
  <2>1. beat[b].call \in Calls
    BY <1>2 DEF TakeWrites, Done, LaterInv, LaterShape, InHand
  <2> QED BY <1>1, <1>2, <2>1, UntakenKeeps DEF TakeWrites, Done, TakesTyped
<1>3. CASE TakeRunsOut
  <2>1. PICK t : t = Tail(takes)
    OBVIOUS
  <2>2. t \in Seq(Calls) /\ Once(t)
    BY <1>3, <2>1 DEF TakeRunsOut, TakesTyped, Once
  <2> QED BY <1>3, <2>1, <2>2 DEF TakeRunsOut, TakesTyped
<1>4. CASE \E c \in Calls : Keep(c) \/ HourComes(c)
  BY <1>1, <1>4 DEF Keep, HourComes
<1>5. CASE \E b \in Beats : BeatStep(b) \/ CallThrows(b) \/ BeatStops(b)
  <2> PICK b \in Beats : BeatStep(b) \/ CallThrows(b) \/ BeatStops(b)
    BY <1>5
  <2>1. TakeWrites(b) \/ Done(b) \/ UNCHANGED takes
    BY DEF BeatStep, BeatReads, TakeReads, Makes, BeatEnds, CallThrows, BeatStops
  <2> QED BY <1>1, <1>2, <2>1
<1>6. CASE UNCHANGED laterVars
  BY <1>1, <1>6 DEF laterVars
<1> QED BY <1>3, <1>4, <1>5, <1>6 DEF LaterNext

(* A beat has a call in hand from its take to its done, and none before.   *)
InHandOnly == \A b \in Beats : beat[b].call = NoCall <=> beat[b].stage \in {"asleep", "next"}

LEMMA InHandOnlyKept ==
  ASSUME InHandOnly, LaterInv, [LaterNext]_laterVars
  PROVE  InHandOnly'
<1> USE NoCallIsNoCall DEF InHandOnly, LaterInv, LaterShape
<1>1. CASE UNCHANGED beat
  BY <1>1
<1>2. CASE \E c \in Calls : Keep(c) \/ HourComes(c)
  BY <1>1, <1>2 DEF Keep, HourComes
<1>3. ASSUME NEW b \in Beats, BeatStep(b) \/ CallThrows(b) \/ BeatStops(b)
      PROVE  InHandOnly'
  <2>1. CASE BeatReads(b)
    BY <2>1 DEF BeatReads
  <2>2. ASSUME NEW c \in Calls, TakeReads(b, c)
        PROVE  InHandOnly'
    BY <2>2 DEF TakeReads
  <2>3. CASE TakeWrites(b)
    BY <2>3 DEF TakeWrites
  <2>4. CASE Makes(b)
    BY <2>4 DEF Makes
  <2>5. CASE Done(b) \/ CallThrows(b)
    <3>1. beat' = [beat EXCEPT ![b] = Freed(b)]
      BY <2>5 DEF Done, CallThrows
    <3> QED BY <3>1
  <2>6. CASE BeatEnds(b) \/ BeatStops(b)
    <3>1. beat' = [beat EXCEPT ![b] = Asleep]
      BY <2>6 DEF BeatEnds, BeatStops
    <3> QED BY <3>1
  <2> QED BY <1>3, <2>1, <2>2, <2>3, <2>4, <2>5, <2>6 DEF BeatStep
<1>4. CASE TakeRunsOut \/ UNCHANGED laterVars
  BY <1>1, <1>4 DEF TakeRunsOut, laterVars
<1> QED BY <1>2, <1>3, <1>4 DEF LaterNext

LaterTyped == LaterInv /\ TakesTyped /\ InHandOnly

LEMMA LaterTypedAtFirst == LaterInit => LaterTyped
  BY LaterAtFirst DEF LaterInit, LaterTyped, TakesTyped, InHandOnly, Once

LEMMA LaterTypedKept == LaterTyped /\ [LaterNext]_laterVars => LaterTyped'
<1>1. LaterInv /\ [LaterNext]_laterVars => LaterInv'
  BY LaterKeptAside, LaterKeptByABeat DEF LaterNext
<1> QED BY <1>1, TakesKept, InHandOnlyKept DEF LaterTyped

LEMMA LaterTypedIsOK == LaterTyped => LaterTypeOK
  BY DEF LaterTyped, LaterInv, LaterShape, TakesTyped, Once, InHandOnly, LaterTypeOK

(* Kept calls, their takes and the beats keep their shape, and a call is   *)
(* taken once at a time: its second take moves it to the end.              *)
THEOREM KeptCallsKeepTheirTypes == LaterSpec => []LaterTypeOK
<1> QED BY LaterTypedAtFirst, LaterTypedKept, LaterTypedIsOK, PTL DEF LaterSpec

-----------------------------------------------------------------------------
(* Workflow.tla: the releases and the calls kept for later.                *)
LEMMA WorkflowRunsBoth == WorkflowSpec => Spec /\ LaterSpec
<1>1. WorkflowInit => Init /\ LaterInit
  BY DEF WorkflowInit
<1>2. [WorkflowNext]_workflowVars => [Next]_vars /\ [LaterNext]_laterVars
  BY DEF WorkflowNext, workflowVars
<1> QED BY <1>1, <1>2, PTL DEF WorkflowSpec, Spec, LaterSpec

(* What outlives a process keeps its types, whatever stops in between      *)
(* (Release.ts with WorkflowRun.ts, Later.ts).                             *)
THEOREM WorkflowKeepsItsTypes == WorkflowSpec => []WorkflowTypeOK
<1>1. TypeOK /\ LaterTypeOK => WorkflowTypeOK
  BY DEF WorkflowTypeOK
<1> QED BY <1>1, WorkflowRunsBoth, ReleaseKeepsItsTypes, KeptCallsKeepTheirTypes, PTL

=============================================================================

----------------------------- MODULE GraphProofs -----------------------------
(***************************************************************************)
(* The components that walk the graph of references: the order an ascent   *)
(* lists its nodes in (Ordering.tla), the seeds it plants (Seeding.tla),   *)
(* and the knots a boot is refused for (Knots.tla), for every graph.       *)
(***************************************************************************)
EXTENDS Ordering, Seeding, Knots, FiniteSetTheorems, SequenceTheorems, TLAPS

(***************************************************************************)
(* Ordering.  The order is sound, and leaves out only what no order can    *)
(* place.  The counts of the code are what has to be said: a node counts   *)
(* the edges that lead to others not yet placed, each label apart, and is  *)
(* in the queue just when it counts none.                                  *)
(***************************************************************************)

Waits(n) == {e \in OrderedBy(n) : e.to \notin Placed}

OrderTyped ==
  /\ edges \in SUBSET Edges
  /\ answering \in {"none", "order"}
  /\ ready \in SUBSET Nodes
  /\ ordered \in Seq(Nodes)

Counts == \A n \in Nodes : waitingOn[n] = Cardinality(Waits(n))
Queue == ready = {n \in Nodes \ Placed : Waits(n) = {}}
Behind ==
  \A i \in DOMAIN ordered : \A e \in OrderedBy(ordered[i]) :
    \E j \in 1..(i - 1) : ordered[j] = e.to
Once == \A i, j \in DOMAIN ordered : ordered[i] = ordered[j] => i = j

(* The inductive invariant of an order under way. *)
OrderInv ==
  /\ OrderTyped
  /\ answering = "order" => Counts /\ Queue /\ Behind /\ Once

-----------------------------------------------------------------------------
LEMMA GraphIsFinite ==
  ASSUME OrderTyped, NEW n
  PROVE  /\ IsFiniteSet(OrderedBy(n)) /\ IsFiniteSet(Waits(n))
         /\ \A e \in OrderedBy(n) : e.from = n /\ e.to # n /\ e.from \in Nodes /\ e.to \in Nodes
<1>1. OrderedBy(n) \in SUBSET Edges /\ Waits(n) \in SUBSET Edges
  BY DEF OrderTyped, OrderedBy, Leaving, Waits
<1> QED
  BY <1>1, EdgesJoinNodes, FS_Subset DEF OrderedBy, Leaving, Loop

LEMMA OrderBegins ==
  ASSUME OrderTyped, Order
  PROVE  OrderInv'
<1>1. OrderTyped'
  BY DEF OrderTyped, Order
<1>2. Placed' = {}
  BY DEF Order, Placed
<1>3. \A n : OrderedBy(n)' = OrderedBy(n) /\ Waits(n)' = OrderedBy(n)
  BY <1>2 DEF Order, OrderedBy, Leaving, Loop, Waits
<1>4. Counts' /\ Queue'
  BY <1>2, <1>3 DEF Order, Counts, Queue
<1>5. Behind' /\ Once'
  BY DEF Order, Behind, Once
<1> QED
  BY <1>1, <1>4, <1>5 DEF OrderInv

(* Placing n takes its edges off what each other node waits on. *)
LEMMA PlacingFrees ==
  ASSUME OrderInv, NEW n \in Nodes, Places(n), NEW m \in Nodes
  PROVE  /\ Left(m, n) = Cardinality(Waits(m)')
         /\ EdgesTo(m, n) > 0 <=> \E e \in Waits(m) : e.to = n
         /\ Waits(m)' = {e \in Waits(m) : e.to # n}
<1>1. answering = "order" /\ OrderTyped /\ Counts /\ Queue
  BY DEF Places, OrderInv
<1>2. n \notin Placed
  BY <1>1 DEF Places, Queue
<1>3. Placed' = Placed \cup {n}
  BY <1>1 DEF Places, Placed, OrderTyped
<1>4. OrderedBy(m)' = OrderedBy(m)
  BY DEF Places, graphVars, OrderedBy, Leaving, Loop
<1>5. Waits(m)' = {e \in Waits(m) : e.to # n}
  BY <1>3, <1>4 DEF Waits
<1> DEFINE Off == {e \in Arriving(n) : e.from = m /\ ~Loop(e)}
<1>6. Off = {e \in Waits(m) : e.to = n}
  BY <1>2 DEF Arriving, Waits, OrderedBy, Leaving
<1>7. Waits(m)' = Waits(m) \ Off /\ Waits(m) \cap Off = Off
  BY <1>5, <1>6
<1>8. IsFiniteSet(Waits(m))
  BY <1>1, GraphIsFinite
<1>9. Cardinality(Waits(m)') = Cardinality(Waits(m)) - Cardinality(Off)
  BY <1>7, <1>8, FS_Difference
<1>10. IsFiniteSet(Off) /\ Cardinality(Off) \in Nat
  BY <1>6, <1>8, FS_Subset, FS_CardinalityType
<1>11. Cardinality(Off) = 0 <=> Off = {}
  BY <1>10, FS_EmptySet
<1>12. EdgesTo(m, n) = Cardinality(Off) /\ waitingOn[m] = Cardinality(Waits(m))
  BY <1>1 DEF EdgesTo, Counts
<1>13. EdgesTo(m, n) > 0 <=> Off # {}
  BY <1>10, <1>11, <1>12
<1> QED
  BY <1>5, <1>6, <1>9, <1>12, <1>13 DEF Left

LEMMA PlacingKeeps ==
  ASSUME OrderInv, NEW n \in Nodes, Places(n)
  PROVE  OrderInv'
<1>1. answering = "order" /\ OrderTyped /\ Counts /\ Queue /\ Behind /\ Once
  BY DEF Places, OrderInv
<1>2. n \notin Placed /\ Waits(n) = {}
  BY <1>1 DEF Places, Queue
<1>3. Placed' = Placed \cup {n} /\ ordered' = Append(ordered, n)
  BY <1>1 DEF Places, Placed, OrderTyped
<1>4. OrderTyped'
  BY <1>1 DEF OrderTyped, Places, graphVars
<1>5. Counts'
  BY PlacingFrees DEF Counts, Places
<1>6. Queue'
  <2>1. \A m \in Nodes : m \in ready' <=> m \notin Placed' /\ Waits(m)' = {}
    <3> SUFFICES ASSUME NEW m \in Nodes
                 PROVE  m \in ready' <=> m \notin Placed' /\ Waits(m)' = {}
      OBVIOUS
    <3>1. Left(m, n) = 0 <=> Waits(m)' = {}
      <4>1. Waits(m)' = {e \in Waits(m) : e.to # n} /\ Left(m, n) = Cardinality(Waits(m)')
        BY PlacingFrees
      <4>2. IsFiniteSet(Waits(m)')
        BY <1>1, <4>1, GraphIsFinite, FS_Subset
      <4> QED
        BY <4>1, <4>2, FS_EmptySet
    <3>2. m \in ready' <=> (m \in ready /\ m # n) \/ (EdgesTo(m, n) > 0 /\ Left(m, n) = 0)
      BY DEF Places
    <3>3. m \in ready <=> m \notin Placed /\ Waits(m) = {}
      BY <1>1 DEF Queue
    <3>4. (\E e \in Waits(m) : e.to = n) => m \notin Placed /\ m # n
      <4>1. m \in Placed => \A e \in OrderedBy(m) : e.to \in Placed
        <5>1. ASSUME m \in Placed, NEW e \in OrderedBy(m)
              PROVE  e.to \in Placed
          <6>1. PICK i \in DOMAIN ordered : ordered[i] = m
            BY <5>1 DEF Placed
          <6>2. PICK j \in 1..(i - 1) : ordered[j] = e.to
            BY <1>1, <5>1, <6>1 DEF Behind
          <6>3. j \in DOMAIN ordered
            BY <1>1, <6>1, <6>2 DEF OrderTyped
          <6> QED
            BY <6>2, <6>3 DEF Placed
        <5> QED
          BY <5>1
      <4> QED
        BY <1>2, <4>1 DEF Waits
    <3>5. Waits(m)' = {} <=> \A e \in Waits(m) : e.to = n
      BY PlacingFrees
    <3> QED
      BY <1>3, <3>1, <3>2, <3>3, <3>4, <3>5, PlacingFrees
  <2> QED
    BY <2>1, <1>4 DEF Queue, OrderTyped
<1>7. Behind'
  <2> SUFFICES ASSUME NEW i \in DOMAIN ordered', NEW e \in OrderedBy(ordered[i])'
               PROVE  \E j \in 1..(i - 1) : ordered'[j] = e.to
    BY DEF Behind
  <2>1. e \in OrderedBy(ordered'[i])
    BY DEF Places, graphVars, OrderedBy, Leaving, Loop
  <2>2. CASE i \in DOMAIN ordered
    <3>1. ordered'[i] = ordered[i]
      BY <1>1, <1>3, <2>2 DEF OrderTyped
    <3>2. e \in OrderedBy(ordered[i])
      BY <2>1, <3>1
    <3>3. PICK j \in 1..(i - 1) : ordered[j] = e.to
      BY <1>1, <2>2, <3>2 DEF Behind
    <3>4. DOMAIN ordered = 1..Len(ordered) /\ Len(ordered) \in Nat
      BY <1>1 DEF OrderTyped
    <3>5. j \in 1..Len(ordered)
      BY <2>2, <3>4
    <3>6. ordered'[j] = ordered[j]
      BY <1>1, <1>3, <3>5 DEF OrderTyped
    <3> QED
      BY <3>3, <3>6
  <2>3. CASE i \notin DOMAIN ordered
    <3>1. i = Len(ordered) + 1 /\ ordered'[i] = n
      BY <1>1, <1>3, <2>3 DEF OrderTyped
    <3>2. e.to \in Placed
      BY <1>2, <2>1, <3>1 DEF Waits
    <3>3. PICK j \in DOMAIN ordered : ordered[j] = e.to
      BY <3>2 DEF Placed
    <3> QED
      BY <1>1, <1>3, <3>1, <3>3 DEF OrderTyped
  <2> QED
    BY <2>2, <2>3
<1>8. Once'
  BY <1>1, <1>2, <1>3 DEF Once, OrderTyped, Placed
<1> QED
  BY <1>4, <1>5, <1>6, <1>7, <1>8 DEF OrderInv

(* What holds of every order under way, of any graph: see OrderInv.        *)
THEOREM OrderKeepsItsInvariant == OrderSpec => []OrderInv
<1>1. GraphInit /\ OrderInit => OrderInv
  BY DEF GraphInit, OrderInit, OrderInv, OrderTyped
<1>2. OrderInv /\ [OrderNext]_<<graphVars, orderVars>> => OrderInv'
  <2> SUFFICES ASSUME OrderInv, [OrderNext]_<<graphVars, orderVars>>
               PROVE  OrderInv'
    OBVIOUS
  <2>1. ASSUME NEW e \in Edges, Connect(e), UNCHANGED orderVars
        PROVE  OrderInv'
    BY <2>1 DEF Connect, orderVars, OrderInv, OrderTyped
  <2>2. CASE Order
    BY <2>2, OrderBegins DEF OrderInv
  <2>3. ASSUME NEW n \in Nodes, Places(n)
        PROVE  OrderInv'
    BY <2>3, PlacingKeeps
  <2>4. CASE UNCHANGED <<graphVars, orderVars>>
    BY <2>4 DEF graphVars, orderVars, OrderInv, OrderTyped, Counts, Queue, Behind, Once,
                Waits, OrderedBy, Leaving, Loop, Placed
  <2> QED
    BY <2>1, <2>2, <2>3, <2>4 DEF OrderNext
<1> QED
  BY <1>1, <1>2, PTL DEF OrderSpec

(* Each node is placed once and after every node it points to, and what is *)
(* not placed at the end waits on what is not either (Graph.order), for    *)
(* any nodes, any edges and any labels.                                    *)
THEOREM OrderIsAlwaysSound == OrderSpec => []OrderIsSound
<1>1. OrderInv => OrderIsSound
  <2> SUFFICES ASSUME OrderInv, answering = "order"
               PROVE  OrderIsSound
    BY DEF OrderIsSound
  <2>1. OrderTyped /\ Queue /\ Behind /\ Once
    BY DEF OrderInv
  <2>2. ASSUME NEW i \in DOMAIN ordered, NEW e \in Leaving(ordered[i]), e.to # e.from
        PROVE  \E j \in 1..(i - 1) : ordered[j] = e.to
    <3>1. e \in OrderedBy(ordered[i])
      BY <2>2 DEF OrderedBy, Loop
    <3> QED
      BY <2>1, <3>1 DEF Behind
  <2>3. ASSUME ready = {}, NEW n \in Placeable(Nodes \ Placed)
        PROVE  FALSE
    <3>1. n \in Nodes \ Placed /\ \A e \in Leaving(n) : e.to \notin (Nodes \ Placed) \ {n}
      BY <2>3 DEF Placeable
    <3>2. Waits(n) = {}
      BY <2>1, <3>1, GraphIsFinite DEF Waits, OrderedBy
    <3> QED
      BY <2>1, <2>3, <3>1, <3>2 DEF Queue
  <2> QED
    BY <2>1, <2>2, <2>3 DEF OrderIsSound, Once
<1> QED
  BY <1>1, OrderKeepsItsInvariant, PTL

-----------------------------------------------------------------------------
(***************************************************************************)
(* Seeding.  For any processes, seeds, references and rows: a seed is      *)
(* planted whole and once, but in the two ways that SeedsPlantedOnce       *)
(* names.  The order of the seeds plays no part in it.                     *)
(***************************************************************************)

SeedRows == 1..Lines

Planting(p, s) == line[p] # 0 /\ Head(plan[p]) = s
Whole(s) == \A i \in SeedRows : planted[s][i] > 0

SeedTyped ==
  /\ hosting \in [Processes -> SUBSET Nodes]
  /\ planted \in [Nodes -> [SeedRows -> Nat]]
  /\ boot \in [Processes -> {"down", "seeds", "up"}]
  /\ line \in [Processes -> 0..Lines]
  /\ DOMAIN plan = Processes

(* A boot plants what it has the storage of, and no row it has passed is   *)
(* missing.                                                                *)
Walks ==
  \A p \in Processes :
    /\ boot[p] = "down" => line[p] = 0
    /\ line[p] # 0 => Head(plan[p]) \in hosting[p]
    /\ \A s \in Nodes : Planting(p, s) =>
         \A i \in SeedRows : i < line[p] => planted[s][i] > 0

(* What is there in part is being planted, or was broken off. *)
InPart ==
  \A s \in Nodes : Empty(s) \/ Whole(s) \/ s \in halved
                   \/ \E p \in Processes : Planting(p, s) /\ line[p] > 1

(* A key is taken once; without keys, whoever plants a seed that nobody    *)
(* raced for is alone with it, and what it has not come to is not there.   *)
Singly ==
  \A s \in Nodes :
    /\ \A i \in SeedRows : planted[s][i] > 1 => s \in raced \ Keyed
    /\ s \notin raced \cup Keyed =>
         \A p \in Processes : Planting(p, s) =>
           /\ \A q \in Processes : Planting(q, s) => q = p
           /\ \A i \in SeedRows : i >= line[p] => planted[s][i] = 0

SeedInv == SeedTyped /\ Walks /\ InPart /\ Singly

-----------------------------------------------------------------------------
LEMMA SeedsBegin ==
  ASSUME SeedInit
  PROVE  SeedInv
<1>1. SeedTyped
  BY SeedsHaveRows, HostedAreSeeds DEF SeedInit, SeedInitIn, SeedTyped, SeedRows
<1>2. \A p \in Processes : line[p] = 0
  BY DEF SeedInit, SeedInitIn
<1>3. Walks /\ InPart /\ Singly
  BY <1>2 DEF SeedInit, SeedInitIn, Walks, InPart, Singly, Planting, Empty, SeedRows
<1> QED
  BY <1>1, <1>3 DEF SeedInv

LEMMA BootsKeeps ==
  ASSUME SeedInv, NEW p \in Processes, Boots(p)
  PROVE  SeedInv'
<1>1. SeedTyped /\ Walks /\ InPart /\ Singly
  BY DEF SeedInv
<1>2. SeedTyped'
  BY <1>1 DEF SeedTyped, Boots
<1>3. line[p] = 0 /\ line' = line
  BY <1>1 DEF Walks, Boots
<1>4. \A q \in Processes : line[q] # 0 => plan'[q] = plan[q] /\ boot'[q] = boot[q]
  BY <1>1, <1>3 DEF Boots, SeedTyped
<1>5. \A q \in Processes, s \in Nodes : Planting(q, s)' <=> Planting(q, s)
  BY <1>3, <1>4 DEF Planting
<1>6. Walks'
  BY <1>1, <1>3, <1>4, <1>5 DEF Walks, Boots, SeedTyped
<1>7. InPart' /\ Singly'
  BY <1>1, <1>3, <1>5 DEF InPart, Singly, Boots, Empty, Whole
<1> QED
  BY <1>1, <1>2, <1>6, <1>7 DEF SeedInv

LEMMA LooksKeeps ==
  ASSUME SeedInv, NEW p \in Processes, Looks(p)
  PROVE  SeedInv'
<1> DEFINE t == Head(plan[p])
<1>1. SeedTyped /\ Walks /\ InPart /\ Singly
  BY DEF SeedInv
<1>2. CASE t \in hosting[p] /\ Empty(t)
  <2>1. /\ plan' = plan /\ line' = [line EXCEPT ![p] = 1]
        /\ raced' = IF \E q \in Processes : t \in Plants(q) THEN raced \cup {t} ELSE raced
        /\ UNCHANGED <<hosting, planted, boot, halved>>
    BY <1>2 DEF Looks
  <2>2. SeedTyped'
    BY <1>1, <2>1, SeedsHaveRows DEF SeedTyped
  <2>3. line[p] = 0 /\ line'[p] = 1 /\ boot[p] = "seeds"
    BY <1>1, <2>1 DEF Looks, SeedTyped
  <2>4. \A q \in Processes \ {p} : line'[q] = line[q]
    BY <1>1, <2>1 DEF SeedTyped
  <2>5. \A q \in Processes \ {p}, s \in Nodes : Planting(q, s)' <=> Planting(q, s)
    BY <2>1, <2>4 DEF Planting
  <2>6. \A s \in Nodes : ~Planting(p, s) /\ (Planting(p, s)' <=> s = t)
    BY <2>1, <2>3 DEF Planting
  <2>7. Walks'
    BY <1>1, <1>2, <2>1, <2>3, <2>4, <2>5, <2>6 DEF Walks, SeedRows
  <2>8. InPart'
    <3> SUFFICES ASSUME NEW s \in Nodes
                 PROVE  (Empty(s) \/ Whole(s) \/ s \in halved
                         \/ \E q \in Processes : Planting(q, s) /\ line[q] > 1)'
      BY DEF InPart
    <3>1. CASE \E q \in Processes : Planting(q, s) /\ line[q] > 1
      <4>1. PICK q \in Processes : Planting(q, s) /\ line[q] > 1
        BY <3>1
      <4>2. q # p
        BY <2>6, <4>1
      <4> QED
        BY <2>4, <2>5, <4>1, <4>2
    <3>2. CASE Empty(s) \/ Whole(s) \/ s \in halved
      BY <2>1, <3>2 DEF Empty, Whole
    <3> QED
      BY <1>1, <3>1, <3>2 DEF InPart
  <2>9. Singly'
    <3> SUFFICES ASSUME NEW s \in Nodes
                 PROVE  /\ \A i \in SeedRows : planted[s][i] > 1 => s \in raced' \ Keyed
                        /\ s \notin raced' \cup Keyed =>
                             \A q \in Processes : Planting(q, s)' =>
                               /\ \A r \in Processes : Planting(r, s)' => r = q
                               /\ \A i \in SeedRows : i >= line'[q] => planted[s][i] = 0
      BY <2>1 DEF Singly
    <3>1. raced \subseteq raced'
      BY <2>1
    <3>2. CASE s # t
      BY <1>1, <2>4, <2>5, <2>6, <3>1, <3>2 DEF Singly
    <3>3. CASE s = t
      <4>1. s \notin raced' => \A q \in Processes : ~Planting(q, s)
        BY <2>1, <3>3 DEF Plants, Planting
      <4>2. s \notin raced' => \A q \in Processes : Planting(q, s)' => q = p
        BY <2>5, <4>1
      <4>3. \A i \in SeedRows : planted[s][i] = 0
        BY <1>2, <3>3 DEF Empty, SeedRows
      <4> QED
        BY <1>1, <3>1, <4>2, <4>3 DEF Singly
    <3> QED
      BY <3>2, <3>3
  <2> QED
    BY <2>2, <2>7, <2>8, <2>9 DEF SeedInv
<1>3. CASE ~(t \in hosting[p] /\ Empty(t))
  <2>1. /\ plan' = [plan EXCEPT ![p] = Tail(@)]
        /\ UNCHANGED <<hosting, planted, boot, line, raced, halved>>
    BY <1>3 DEF Looks
  <2>2. line[p] = 0
    BY DEF Looks
  <2>3. \A q \in Processes : line[q] # 0 => plan'[q] = plan[q]
    BY <1>1, <2>1, <2>2 DEF SeedTyped
  <2>4. \A q \in Processes, s \in Nodes : Planting(q, s)' <=> Planting(q, s)
    BY <2>1, <2>3 DEF Planting
  <2>5. SeedTyped'
    BY <1>1, <2>1 DEF SeedTyped
  <2>6. Walks'
    BY <1>1, <2>1, <2>3, <2>4 DEF Walks
  <2>7. InPart' /\ Singly'
    BY <1>1, <2>1, <2>4 DEF InPart, Singly, Empty, Whole
  <2> QED
    BY <2>5, <2>6, <2>7 DEF SeedInv
<1> QED
  BY <1>2, <1>3

LEMMA PlantsRowKeeps ==
  ASSUME SeedInv, NEW p \in Processes, PlantsRow(p)
  PROVE  SeedInv'
<1> DEFINE t == Head(plan[p])
           l == line[p]
<1>1. SeedTyped /\ Walks /\ InPart /\ Singly
  BY DEF SeedInv
<1>2. /\ l # 0 /\ Accepted(p, t, l)
      /\ planted' = [planted EXCEPT ![t][l] = @ + 1]
      /\ line' = [line EXCEPT ![p] = IF @ = Lines THEN 0 ELSE @ + 1]
      /\ plan' = IF l = Lines THEN [plan EXCEPT ![p] = Tail(@)] ELSE plan
      /\ UNCHANGED <<hosting, boot, raced, halved>>
  BY DEF PlantsRow, Plants
<1>3. t \in Nodes /\ l \in SeedRows /\ boot[p] # "down" /\ Planting(p, t)
  BY <1>1, <1>2, SeedsHaveRows DEF Walks, SeedTyped, SeedRows, Planting
<1>4. /\ line'[p] = IF l = Lines THEN 0 ELSE l + 1
      /\ \A q \in Processes \ {p} : line'[q] = line[q] /\ plan'[q] = plan[q]
      /\ l # Lines => plan'[p] = plan[p]
  BY <1>1, <1>2 DEF SeedTyped
<1>5. /\ planted'[t][l] = planted[t][l] + 1
      /\ \A s \in Nodes : \A i \in SeedRows : (s # t \/ i # l) => planted'[s][i] = planted[s][i]
  BY <1>1, <1>2, <1>3 DEF SeedTyped
<1>6. SeedTyped'
  <2>1. planted' \in [Nodes -> [SeedRows -> Nat]]
    BY <1>1, <1>2, <1>3 DEF SeedTyped
  <2>2. line' \in [Processes -> 0..Lines]
    BY <1>1, <1>2, <1>3, SeedsHaveRows DEF SeedTyped, SeedRows
  <2> QED
    BY <1>1, <1>2, <2>1, <2>2 DEF SeedTyped
<1>7. \A q \in Processes \ {p}, s \in Nodes : Planting(q, s)' <=> Planting(q, s)
  BY <1>4 DEF Planting
<1>8. \A s \in Nodes : Planting(p, s)' => s = t /\ line'[p] = l + 1 /\ l # Lines
  BY <1>3, <1>4 DEF Planting, SeedRows
<1>9. \A s \in Nodes : Planting(p, s) => s = t
  BY DEF Planting
<1>10. \A s \in Nodes : \A i \in SeedRows : planted[s][i] > 0 => planted'[s][i] > 0
  BY <1>1, <1>3, <1>5 DEF SeedTyped
<1>11. \A i \in SeedRows : i <= l => planted'[t][i] > 0
  <2> SUFFICES ASSUME NEW i \in SeedRows, i <= l
               PROVE  planted'[t][i] > 0
    OBVIOUS
  <2>1. CASE i = l
    <3>1. planted[t][l] \in Nat
      BY <1>1, <1>3 DEF SeedTyped
    <3> QED
      BY <1>5, <2>1, <3>1
  <2>2. CASE i # l
    <3>1. i < l
      BY <1>3, <2>2, SeedsHaveRows DEF SeedRows
    <3>2. planted[t][i] > 0
      BY <1>1, <1>3, <3>1 DEF Walks
    <3> QED
      BY <1>3, <1>10, <3>2
  <2> QED
    BY <2>1, <2>2
<1>12. Walks'
  <2> SUFFICES ASSUME NEW q \in Processes
               PROVE  /\ boot'[q] = "down" => line'[q] = 0
                      /\ line'[q] # 0 => Head(plan'[q]) \in hosting'[q]
                      /\ \A s \in Nodes : Planting(q, s)' =>
                           \A i \in SeedRows : i < line'[q] => planted'[s][i] > 0
    BY DEF Walks
  <2>1. CASE q = p
    <3>1. \A s \in Nodes : Planting(p, s)' =>
            \A i \in SeedRows : i < line'[p] => planted'[s][i] > 0
      BY <1>3, <1>8, <1>11 DEF SeedRows
    <3> QED
      BY <1>1, <1>2, <1>3, <1>4, <2>1, <3>1 DEF Walks
  <2>2. CASE q # p
    BY <1>1, <1>2, <1>4, <1>7, <1>10, <2>2 DEF Walks
  <2> QED
    BY <2>1, <2>2
<1>13. InPart'
  <2> SUFFICES ASSUME NEW s \in Nodes
               PROVE  (Empty(s) \/ Whole(s) \/ s \in halved
                       \/ \E q \in Processes : Planting(q, s) /\ line[q] > 1)'
    BY DEF InPart
  <2>1. CASE s = t /\ l = Lines
    BY <1>11, <2>1 DEF Whole, SeedRows
  <2>2. CASE s = t /\ l # Lines
    <3>1. line'[p] = l + 1 /\ l + 1 > 1 /\ plan'[p] = plan[p]
      BY <1>3, <1>4, <2>2 DEF SeedRows
    <3> QED
      BY <1>3, <2>2, <3>1 DEF Planting, SeedRows
  <2>3. CASE s # t
    <3>1. CASE \E q \in Processes : Planting(q, s) /\ line[q] > 1
      <4>1. PICK q \in Processes : Planting(q, s) /\ line[q] > 1
        BY <3>1
      <4>2. q # p
        BY <1>9, <2>3, <4>1
      <4> QED
        BY <1>4, <1>7, <4>1, <4>2
    <3>2. CASE Empty(s)
      BY <1>5, <2>3, <3>2 DEF Empty, SeedRows
    <3>3. CASE Whole(s) \/ s \in halved
      BY <1>2, <1>10, <3>3 DEF Whole
    <3> QED
      BY <1>1, <3>1, <3>2, <3>3 DEF InPart
  <2> QED
    BY <2>1, <2>2, <2>3
<1>14. Singly'
  <2> SUFFICES ASSUME NEW s \in Nodes
               PROVE  /\ \A i \in SeedRows : planted'[s][i] > 1 => s \in raced \ Keyed
                      /\ s \notin raced \cup Keyed =>
                           \A q \in Processes : Planting(q, s)' =>
                             /\ \A r \in Processes : Planting(r, s)' => r = q
                             /\ \A i \in SeedRows : i >= line'[q] => planted'[s][i] = 0
    BY <1>2 DEF Singly
  <2>1. CASE s # t
    <3>1. \A q \in Processes : Planting(q, s)' => q # p /\ Planting(q, s)
      BY <1>7, <1>8, <2>1
    <3>2. \A i \in SeedRows : planted'[s][i] = planted[s][i]
      BY <1>5, <2>1
    <3> QED
      BY <1>1, <1>4, <3>1, <3>2 DEF Singly
  <2>2. CASE s = t
    <3>1. ASSUME s \notin raced
          PROVE  planted[s][l] = 0
      <4>1. CASE s \in Keyed
        BY <1>2, <2>2, <4>1 DEF Accepted
      <4>2. CASE s \notin Keyed
        BY <1>1, <1>3, <2>2, <3>1, <4>2 DEF Singly, SeedTyped, SeedRows
      <4> QED
        BY <4>1, <4>2
    <3>2. ASSUME s \in Keyed
          PROVE  planted[s][l] = 0
      BY <1>2, <2>2, <3>2 DEF Accepted
    <3>3. \A i \in SeedRows : planted'[s][i] > 1 => s \in raced \ Keyed
      <4>1. \A i \in SeedRows : i # l => planted'[s][i] = planted[s][i]
        BY <1>5, <2>2
      <4>2. s \notin raced \ Keyed => planted'[s][l] = 1
        BY <1>5, <2>2, <3>1, <3>2
      <4> QED
        BY <1>1, <4>1, <4>2 DEF Singly
    <3>4. ASSUME s \notin raced \cup Keyed, NEW q \in Processes, Planting(q, s)'
          PROVE  /\ \A r \in Processes : Planting(r, s)' => r = q
                 /\ \A i \in SeedRows : i >= line'[q] => planted'[s][i] = 0
      <4>1. \A r \in Processes : Planting(r, s) => r = p
        BY <1>1, <1>3, <2>2, <3>4 DEF Singly
      <4>2. \A r \in Processes : Planting(r, s)' => r = p
        BY <1>7, <4>1
      <4>3. q = p /\ line'[p] = l + 1
        BY <1>8, <3>4, <4>2
      <4>4. \A i \in SeedRows : i >= l => planted[s][i] = 0
        BY <1>1, <1>3, <2>2, <3>4 DEF Singly
      <4>5. \A i \in SeedRows : i >= l + 1 => planted'[s][i] = 0
        BY <1>3, <1>5, <2>2, <4>4 DEF SeedRows
      <4> QED
        BY <4>2, <4>3, <4>5
    <3> QED
      BY <3>3, <3>4
  <2> QED
    BY <2>1, <2>2
<1> QED
  BY <1>6, <1>12, <1>13, <1>14 DEF SeedInv

(* A boot that is refused, and one that is stopped. *)
LEMMA BreaksOffKeeps ==
  ASSUME SeedInv, NEW p \in Processes, BreaksOff(p)
  PROVE  SeedInv'
<1>1. SeedTyped /\ Walks /\ InPart /\ Singly
  BY DEF SeedInv
<1>2. /\ boot' = [boot EXCEPT ![p] = "down"]
      /\ plan' = [plan EXCEPT ![p] = <<>>] /\ line' = [line EXCEPT ![p] = 0]
      /\ halved' = IF line[p] > 1 THEN halved \cup Plants(p) ELSE halved
      /\ UNCHANGED <<hosting, planted, raced>>
  BY DEF BreaksOff
<1>3. SeedTyped'
  BY <1>1, <1>2, SeedsHaveRows DEF SeedTyped
<1>4. /\ line'[p] = 0 /\ boot'[p] = "down"
      /\ \A q \in Processes \ {p} : line'[q] = line[q] /\ plan'[q] = plan[q] /\ boot'[q] = boot[q]
  BY <1>1, <1>2 DEF SeedTyped
<1>5. \A q \in Processes, s \in Nodes : Planting(q, s)' <=> q # p /\ Planting(q, s)
  BY <1>4 DEF Planting
<1>6. Walks'
  BY <1>1, <1>2, <1>4, <1>5 DEF Walks
<1>7. InPart'
  <2> SUFFICES ASSUME NEW s \in Nodes
               PROVE  (Empty(s) \/ Whole(s) \/ s \in halved
                       \/ \E q \in Processes : Planting(q, s) /\ line[q] > 1)'
    BY DEF InPart
  <2>1. CASE \E q \in Processes : Planting(q, s) /\ line[q] > 1
    <3>1. PICK q \in Processes : Planting(q, s) /\ line[q] > 1
      BY <2>1
    <3>2. CASE q = p
      BY <1>2, <3>1, <3>2 DEF Plants, Planting
    <3>3. CASE q # p
      BY <1>4, <1>5, <3>1, <3>3
    <3> QED
      BY <3>2, <3>3
  <2>2. CASE Empty(s) \/ Whole(s) \/ s \in halved
    BY <1>2, <2>2 DEF Empty, Whole
  <2> QED
    BY <1>1, <2>1, <2>2 DEF InPart
<1>8. Singly'
  BY <1>1, <1>2, <1>4, <1>5 DEF Singly
<1> QED
  BY <1>3, <1>6, <1>7, <1>8 DEF SeedInv

LEMMA ComesUpKeeps ==
  ASSUME SeedInv, NEW p \in Processes, ComesUp(p)
  PROVE  SeedInv'
<1>1. boot[p] = "seeds" /\ boot' = [boot EXCEPT ![p] = "up"]
  BY DEF ComesUp
<1>2. UNCHANGED <<hosting, planted, plan, line, raced, halved>>
  BY DEF ComesUp
<1>3. SeedTyped' /\ \A q \in Processes : boot'[q] = "down" => boot[q] = "down"
  BY <1>1, <1>2 DEF SeedInv, SeedTyped
<1> QED
  BY <1>2, <1>3 DEF SeedInv, Walks, InPart, Singly, Planting, Empty, Whole

(* What holds of every boot, of any seeds: see SeedInv.                    *)
THEOREM SeedsKeepTheirInvariant == SeedSpec => []SeedInv
<1>1. SeedInit => SeedInv
  BY SeedsBegin
<1>2. SeedInv /\ [SeedNext]_<<graphVars, seedVars>> => SeedInv'
  <2> SUFFICES ASSUME SeedInv, [SeedNext]_<<graphVars, seedVars>>
               PROVE  SeedInv'
    OBVIOUS
  <2>1. ASSUME NEW p \in Processes, Ascends(p)
        PROVE  SeedInv'
    <3>1. CASE Boots(p)
      BY <3>1, BootsKeeps
    <3>2. CASE Looks(p)
      BY <3>2, LooksKeeps
    <3>3. CASE PlantsRow(p)
      BY <3>3, PlantsRowKeeps
    <3>4. CASE Refuses(p)
      BY <3>4, BreaksOffKeeps DEF Refuses
    <3>5. CASE ComesUp(p)
      BY <3>5, ComesUpKeeps
    <3> QED
      BY <2>1, <3>1, <3>2, <3>3, <3>4, <3>5 DEF Ascends
  <2>2. ASSUME NEW p \in Processes, Stops(p)
        PROVE  SeedInv'
    BY <2>2, BreaksOffKeeps DEF Stops
  <2>3. CASE UNCHANGED <<graphVars, seedVars>>
    BY <2>3 DEF seedVars, SeedInv, SeedTyped, Walks, InPart, Singly, Planting, Empty, Whole
  <2> QED
    BY <2>1, <2>2, <2>3 DEF SeedNext
<1> QED
  BY <1>1, <1>2, PTL DEF SeedSpec

(* A seed is planted whole and once (runSeeds), for any processes, seeds,  *)
(* references and rows; but for rows without a key that two boots found    *)
(* missing at once, and for a seed whose boot broke off in the middle.     *)
THEOREM SeedsAreAlwaysPlantedOnce == SeedSpec => []SeedsPlantedOnce
<1>1. SeedInv => SeedsPlantedOnce
  <2> SUFFICES ASSUME SeedInv, NEW s \in Nodes, NEW i \in SeedRows
               PROVE  /\ planted[s][i] > 1 => s \in raced \ Keyed
                      /\ (planted[s][i] = 0 /\ \A p \in Processes : s \notin Plants(p))
                           => Empty(s) \/ s \in halved
    BY DEF SeedsPlantedOnce, SeedRows
  <2>1. InPart /\ Singly
    BY DEF SeedInv
  <2>2. planted[s][i] > 1 => s \in raced \ Keyed
    BY <2>1 DEF Singly
  <2>3. ASSUME planted[s][i] = 0, \A p \in Processes : s \notin Plants(p)
        PROVE  Empty(s) \/ s \in halved
    <3>1. ~Whole(s)
      BY <2>3 DEF Whole
    <3>2. \A p \in Processes : ~Planting(p, s)
      BY <2>3 DEF Plants, Planting
    <3> QED
      BY <2>1, <3>1, <3>2 DEF InPart
  <2> QED
    BY <2>2, <2>3
<1> QED
  BY <1>1, SeedsKeepTheirInvariant, PTL
-----------------------------------------------------------------------------
(***************************************************************************)
(* Knots.  Tarjan's walk finds the components of the graph, and nothing    *)
(* else.  The nodes on its path cut the stack in stretches; what is on the *)
(* stack reaches the path at or before its own stretch, and is reached     *)
(* from it; and the low link of a node on the path is at or below whatever *)
(* the edges followed from its stretch lead to.  Where a node's low link   *)
(* is its own entry, no edge leaves what is on the stack from it on but    *)
(* for components already found.                                           *)
(***************************************************************************)

KnotTyped ==
  /\ edges \in SUBSET Edges /\ answering \in {"none", "cycles"}
  /\ index \in [Nodes -> Nat] /\ low \in [Nodes -> Nat]
  /\ stack \in Seq(Nodes) /\ path \in Seq([node : Nodes, left : SUBSET Edges])
  /\ found \subseteq SUBSET Nodes

(* Nothing is walked before it is asked for. *)
Unwalked == answering = "none" => stack = <<>> /\ path = <<>> /\ found = {} /\ Entered = {}

Classed == UNION found
Followed(n) == {e \in Leaving(n) : \A i \in DOMAIN path : path[i].node = n => e \notin path[i].left}
At(i) == index[path[i].node]

Open(i) == Stacked(path[i].node) /\ path[i].left \subseteq Leaving(path[i].node)

(* The later entered, the further up: on the stack and on the path. *)
Stacks ==
  /\ \A n \in Entered : index[n] <= Cardinality(Entered)
  /\ \A i, j \in DOMAIN stack : i < j => index[stack[i]] < index[stack[j]]
  /\ \A i, j \in DOMAIN path : i < j => At(i) < At(j)
  /\ \A i \in DOMAIN path : Open(i)

(* A node is entered when it is on the stack or in a component, never both, *)
(* and whatever an edge was followed to is entered.                         *)
Entries ==
  /\ \A n \in Nodes : n \in Entered <=> (Stacked(n) \/ n \in Classed)
  /\ \A n \in Classed : ~Stacked(n)
  /\ \A n \in Entered : \A e \in Followed(n) : e.to \in Entered

(* What is found is a component, whole, and no edge leads out of what is found. *)
Components ==
  /\ \A c \in found : c # {} /\ \A m \in c : \A n \in Nodes : n \in c <=> (Reach(m, n) /\ Reach(n, m))
  /\ \A e \in edges : e.from \in Classed => e.to \in Classed

Below == \A i \in DOMAIN path : \A s \in Nodes : (Stacked(s) /\ At(i) <= index[s]) => Reach(path[i].node, s)
Above == \A s \in Nodes : Stacked(s) => \E i \in DOMAIN path : At(i) <= index[s] /\ Reach(s, path[i].node)
Lows ==
  \A s \in Nodes : Stacked(s) =>
    low[s] <= index[s] /\ \E t \in Nodes : Stacked(t) /\ index[t] = low[s] /\ Reach(s, t)

Stretch(i) == {s \in Nodes : Stacked(s) /\ At(i) <= index[s] /\ \A j \in DOMAIN path : i < j => index[s] < At(j)}
Floors ==
  \A i \in DOMAIN path : \A s \in Stretch(i) : \A e \in Followed(s) :
    Stacked(e.to) => low[path[i].node] <= index[e.to]

(* The inductive invariant of a walk. *)
KnotInv ==
  /\ KnotTyped /\ Unwalked /\ Stacks /\ Entries /\ Components
  /\ Below /\ Above /\ Lows /\ Floors
-----------------------------------------------------------------------------
(* Along the edges. *)
LEMMA ReachStays == ASSUME NEW m \in Nodes PROVE Reach(m, m)
BY DEF Reach

LEMMA ReachGoesOn ==
  ASSUME NEW k \in Nodes, NEW m \in Nodes, NEW n \in Nodes, Reach(k, m), Reach(m, n)
  PROVE  Reach(k, n)
BY DEF Reach

LEMMA EdgeReaches ==
  ASSUME KnotTyped, NEW e \in edges
  PROVE  e.from \in Nodes /\ e.to \in Nodes /\ Reach(e.from, e.to)
<1>1. e.from \in Nodes /\ e.to \in Nodes
  BY EdgesJoinNodes DEF KnotTyped
<1> QED BY <1>1 DEF Reach

(* What no edge leaves is not left. *)
LEMMA ReachWithin ==
  ASSUME NEW S \in SUBSET Nodes, \A e \in edges : e.from \in S => e.to \in S,
         NEW m \in S, NEW n \in Nodes, Reach(m, n)
  PROVE  n \in S
BY DEF Reach

LEMMA LeadsIsReach ==
  ASSUME KnotTyped, NEW m \in Nodes, NEW n \in Nodes
  PROVE  /\ Leads(m, n) => Reach(m, n)
         /\ (Reach(m, n) /\ m # n) => Leads(m, n)
<1>1. Leads(m, n) => Reach(m, n)
  <2> SUFFICES ASSUME NEW e \in Leaving(m), Reach(e.to, n) PROVE Reach(m, n)
    BY DEF Leads
  <2>1. e \in edges /\ e.from = m
    BY DEF Leaving
  <2> QED BY <2>1, EdgeReaches, ReachGoesOn
<1>2. (Reach(m, n) /\ m # n) => Leads(m, n)
  <2> SUFFICES ASSUME Reach(m, n), m # n PROVE Leads(m, n)
    OBVIOUS
  <2>1. PICK S : S = {m} \cup {k \in Nodes : Leads(m, k)}
    OBVIOUS
  <2>2. ASSUME NEW e \in edges, e.from \in S PROVE e.to \in S
    <3>1. e.from \in Nodes /\ e.to \in Nodes /\ Reach(e.from, e.to) /\ Reach(e.to, e.to)
      BY EdgeReaches, ReachStays
    <3>2. CASE e.from = m
      BY <2>1, <3>1, <3>2 DEF Leads, Leaving
    <3>3. CASE Leads(m, e.from)
      <4>1. PICK d \in Leaving(m) : Reach(d.to, e.from)
        BY <3>3 DEF Leads
      <4>2. d \in edges /\ d.to \in Nodes
        BY <4>1, EdgeReaches DEF Leaving
      <4>3. Reach(d.to, e.to)
        BY <3>1, <4>1, <4>2, ReachGoesOn
      <4> QED BY <2>1, <3>1, <4>1, <4>3 DEF Leads
    <3> QED BY <2>1, <2>2, <3>2, <3>3
  <2>3. n \in S
    BY <2>1, <2>2, ReachWithin
  <2> QED BY <2>1, <2>3
<1> QED BY <1>1, <1>2

LEMMA LeadsGoesOn ==
  ASSUME KnotTyped, NEW k \in Nodes, NEW m \in Nodes, NEW n \in Nodes
  PROVE  /\ (Leads(k, m) /\ Reach(m, n)) => Leads(k, n)
         /\ (Reach(k, m) /\ Leads(m, n)) => Leads(k, n)
<1>1. (Leads(k, m) /\ Reach(m, n)) => Leads(k, n)
  <2> SUFFICES ASSUME NEW e \in Leaving(k), Reach(e.to, m), Reach(m, n) PROVE Leads(k, n)
    BY DEF Leads
  <2>1. e.to \in Nodes
    BY EdgeReaches DEF Leaving
  <2> QED BY <2>1, ReachGoesOn DEF Leads
<1>2. (Reach(k, m) /\ Leads(m, n)) => Leads(k, n)
  <2> SUFFICES ASSUME Reach(k, m), Leads(m, n) PROVE Leads(k, n)
    OBVIOUS
  <2>1. CASE k = m
    BY <2>1
  <2>2. CASE k # m
    BY <1>1, <2>2, LeadsIsReach
  <2> QED BY <2>1, <2>2
<1> QED BY <1>1, <1>2

LEMMA SameEdges == ASSUME edges' = edges PROVE \A m, n : Reach(m, n)' <=> Reach(m, n)
BY DEF Reach
-----------------------------------------------------------------------------
LEMMA Opened ==
  ASSUME KnotInv
  PROVE  /\ \A n \in Nodes : Stacked(n) => n \in Entered /\ n \notin Classed
         /\ Cardinality(Entered) \in Nat /\ IsFiniteSet(Entered) /\ Entered \subseteq Nodes
         /\ \A i \in DOMAIN path : path[i].node \in Nodes /\ Stacked(path[i].node) /\ At(i) \in Nat
         /\ Len(path) \in Nat /\ DOMAIN path = 1 .. Len(path)
<1>1. Entered \subseteq Nodes
  BY DEF Entered
<1>2. IsFiniteSet(Entered) /\ Cardinality(Entered) \in Nat
  BY <1>1, NodesAreRanks, FS_Subset, FS_CardinalityType
<1>3. \A n \in Nodes : Stacked(n) => n \in Entered /\ n \notin Classed
  BY DEF KnotInv, Entries
<1>4. Len(path) \in Nat /\ DOMAIN path = 1 .. Len(path)
  BY DEF KnotInv, KnotTyped
<1>5. \A i \in DOMAIN path : path[i].node \in Nodes /\ Stacked(path[i].node) /\ At(i) \in Nat
  <2>1. index \in [Nodes -> Nat] /\ path \in Seq([node : Nodes, left : SUBSET Edges])
    BY DEF KnotInv, KnotTyped
  <2>2. \A i \in DOMAIN path : path[i] \in [node : Nodes, left : SUBSET Edges]
    BY <1>4, <2>1, ElementOfSeq
  <2>3. \A i \in DOMAIN path : path[i].node \in Nodes
    BY <2>2
  <2>4. \A i \in DOMAIN path : Stacked(path[i].node)
    BY DEF KnotInv, Stacks, Open
  <2> QED BY <2>1, <2>3, <2>4 DEF At
<1> QED BY <1>1, <1>2, <1>3, <1>4, <1>5

(* A node is entered, from the end of the path or from nowhere; w is the   *)
(* path, less the edge that led there.                                     *)
LEMMA EnterSafe ==
  ASSUME KnotInv, answering = "cycles", NEW n \in Nodes \ Entered,
         NEW w \in Seq([node : Nodes, left : SUBSET Edges]), DOMAIN w = DOMAIN path,
         \A i \in DOMAIN w :
           /\ w[i].node = path[i].node /\ w[i].left \subseteq path[i].left
           /\ \A e \in path[i].left : e \notin w[i].left => e.to = n,
         path # <<>> => Reach(path[Len(path)].node, n), Enter(n, w)
  PROVE  KnotInv'
<1>1. PICK N : N = Cardinality(Entered) + 1
  OBVIOUS
<1>2. PICK K : K = Len(path)
  OBVIOUS
<1>3. PICK L : L = Len(stack)
  OBVIOUS
<1>4. /\ N \in Nat \ {0} /\ K \in Nat /\ DOMAIN path = 1 .. K /\ L \in Nat /\ DOMAIN stack = 1 .. L
      /\ \A m \in Entered : index[m] < N /\ m # n /\ m \in Nodes
  <2>1. \A m \in Entered : index[m] \in Nat /\ index[m] <= Cardinality(Entered)
    BY DEF KnotInv, Stacks, KnotTyped, Entered
  <2> QED BY <1>1, <1>2, <1>3, <2>1, Opened DEF KnotInv, KnotTyped
<1>5. UNCHANGED <<edges, answering, found>> /\ \A k, m : Reach(k, m)' <=> Reach(k, m)
  BY SameEdges DEF Enter, graphVars
<1>6. /\ index' \in [Nodes -> Nat] /\ low' \in [Nodes -> Nat] /\ index'[n] = N /\ low'[n] = N
      /\ \A m \in Nodes : m # n => index'[m] = index[m] /\ low'[m] = low[m]
  BY <1>1, <1>4 DEF Enter, KnotInv, KnotTyped
<1>7. Entered' = Entered \cup {n} /\ Cardinality(Entered') = N
  <2>1. Entered' = Entered \cup {n}
    BY <1>4, <1>6 DEF Entered
  <2> QED BY <1>1, <2>1, Opened, FS_AddElement
<1>8. /\ stack' \in Seq(Nodes) /\ DOMAIN stack' = 1 .. (L + 1) /\ stack'[L + 1] = n
      /\ \A i \in 1 .. L : stack'[i] = stack[i]
  BY <1>3, <1>4 DEF Enter, KnotInv, KnotTyped
<1>9. \A m \in Nodes : Stacked(m)' <=> (Stacked(m) \/ m = n)
  BY <1>4, <1>8 DEF Stacked, ToSet
<1>10. /\ path' \in Seq([node : Nodes, left : SUBSET Edges]) /\ DOMAIN path' = 1 .. (K + 1)
       /\ path'[K + 1].node = n /\ path'[K + 1].left = Leaving(n)
       /\ \A i \in 1 .. K : path'[i].node = path[i].node /\ path'[i].left = w[i].left
  <2>1. PICK r : r = [node |-> n, left |-> Leaving(n)]
    OBVIOUS
  <2>2. r \in [node : Nodes, left : SUBSET Edges] /\ r.node = n /\ r.left = Leaving(n)
    BY <2>1 DEF Leaving, KnotInv, KnotTyped
  <2>3. path' = Append(w, r) /\ Len(w) = K
    BY <1>4, <2>1 DEF Enter
  <2>4. /\ path' \in Seq([node : Nodes, left : SUBSET Edges]) /\ DOMAIN path' = 1 .. (K + 1)
        /\ path'[K + 1] = r /\ \A i \in 1 .. K : path'[i] = w[i]
    BY <1>4, <2>2, <2>3
  <2> QED BY <1>4, <2>2, <2>4
<1>11. /\ At(K + 1)' = N /\ \A i \in 1 .. K : At(i)' = At(i) /\ At(i) \in Nat /\ At(i) < N
       /\ \A i \in 1 .. K : path[i].node \in Nodes /\ path[i].node # n /\ Stacked(path[i].node)
  <2>1. \A i \in 1 .. K : path[i].node \in Nodes /\ Stacked(path[i].node) /\ path[i].node \in Entered /\ At(i) \in Nat
    BY <1>4, Opened
  <2> QED BY <1>4, <1>6, <1>10, <2>1 DEF At
<1>12. /\ Followed(n)' = {}
       /\ \A s \in Nodes : s # n => \A e \in Followed(s)' : e \in edges /\ (e \in Followed(s) \/ e.to = n)
  <2>1. \A s : Leaving(s)' = Leaving(s)
    BY <1>5 DEF Leaving
  <2>2. Followed(n)' = {}
    BY <1>4, <1>10, <2>1 DEF Followed
  <2>3. ASSUME NEW s \in Nodes, s # n, NEW e \in Followed(s)', e \notin Followed(s) PROVE e.to = n
    <3>1. PICK i \in DOMAIN path : path[i].node = s /\ e \in path[i].left
      BY <2>1, <2>3 DEF Followed
    <3>2. e \notin w[i].left
      BY <1>4, <1>10, <2>3, <3>1 DEF Followed
    <3> QED BY <3>1, <3>2
  <2> QED BY <2>1, <2>2, <2>3 DEF Followed, Leaving
<1>13. KnotTyped' /\ Unwalked'
  BY <1>5, <1>6, <1>8, <1>10 DEF KnotInv, KnotTyped, Unwalked
<1>14. Stacks'
  <2>1. \A m \in Entered' : index'[m] <= Cardinality(Entered')
    BY <1>4, <1>6, <1>7 DEF KnotInv, KnotTyped
  <2>2. \A i \in 1 .. L : stack[i] \in Nodes /\ stack[i] \in Entered /\ index'[stack[i]] = index[stack[i]]
    <3>1. \A i \in 1 .. L : stack[i] \in Nodes /\ Stacked(stack[i])
      <4>1. \A i \in 1 .. L : stack[i] \in Nodes
        BY <1>3, <1>4, ElementOfSeq DEF KnotInv, KnotTyped
      <4>2. \A i \in 1 .. L : stack[i] \in ToSet(stack)
        BY <1>4 DEF ToSet
      <4> QED BY <4>1, <4>2 DEF Stacked
    <3> QED BY <1>4, <1>6, <3>1, Opened
  <2>3. \A i, j \in DOMAIN stack' : i < j => index'[stack'[i]] < index'[stack'[j]]
    <3>1. ASSUME NEW i \in 1 .. L, NEW j \in 1 .. L, i < j PROVE index'[stack'[i]] < index'[stack'[j]]
      <4>1. index[stack[i]] < index[stack[j]]
        BY <1>4, <3>1 DEF KnotInv, Stacks
      <4> QED BY <1>8, <2>2, <4>1
    <3>2. ASSUME NEW i \in 1 .. L PROVE index'[stack'[i]] < index'[stack'[L + 1]]
      <4>1. index[stack[i]] < N
        BY <1>4, <2>2
      <4> QED BY <1>6, <1>8, <2>2, <4>1
    <3>3. ~ (L + 1 < L + 1) /\ \A i \in 1 .. (L + 1) : i \in 1 .. L \/ i = L + 1
      BY <1>4
    <3>4. \A i \in 1 .. L : ~ (L + 1 < i)
      BY <1>4
    <3> QED BY <1>8, <3>1, <3>2, <3>3, <3>4
  <2>4. \A i, j \in DOMAIN path' : i < j => At(i)' < At(j)'
    <3>1. \A i, j \in 1 .. K : i < j => At(i)' < At(j)'
      <4>1. \A i, j \in 1 .. K : i < j => At(i) < At(j)
        BY <1>4 DEF KnotInv, Stacks
      <4> QED BY <1>11, <4>1
    <3>2. \A i \in 1 .. K : At(i)' < At(K + 1)' /\ ~ (K + 1 < i)
      BY <1>4, <1>11
    <3>3. ~ (K + 1 < K + 1) /\ \A i \in 1 .. (K + 1) : i \in 1 .. K \/ i = K + 1
      BY <1>4
    <3> QED BY <1>10, <3>1, <3>2, <3>3
  <2>5. \A m : Stacked(m)' <=> m \in ToSet(stack')
    BY DEF Stacked
  <2>6. \A i \in DOMAIN path' : Open(i)'
    <3>1. ASSUME NEW i \in 1 .. K PROVE Open(i)'
      <4>1. path[i].left \subseteq Leaving(path[i].node) /\ w[i].left \subseteq path[i].left
        BY <1>4 DEF KnotInv, Stacks, Open
      <4>2. path[i].node \in ToSet(stack')
        BY <1>9, <1>11, <2>5
      <4> QED BY <1>5, <1>10, <4>1, <4>2 DEF Open, Stacked, Leaving
    <3>2. Open(K + 1)'
      <4>1. n \in ToSet(stack')
        BY <1>9, <2>5
      <4> QED BY <1>5, <1>10, <4>1 DEF Open, Stacked, Leaving
    <3>3. \A i \in DOMAIN path' : i = K + 1 \/ i \in 1 .. K
      BY <1>4, <1>10
    <3> QED BY <3>1, <3>2, <3>3
  <2>7. \A s : Leaving(s)' = Leaving(s)
    BY <1>5 DEF Leaving
  <2> QED BY <2>1, <2>3, <2>4, <2>6, <2>7 DEF Stacks
<1>15. Entries'
  <2>1. n \notin Classed /\ Classed' = Classed
    BY <1>5 DEF KnotInv, Entries, Classed
  <2>2. \A m \in Nodes : m \in Entered' <=> (Stacked(m)' \/ m \in Classed')
    BY <1>7, <1>9, <2>1 DEF KnotInv, Entries
  <2>3. \A m \in Classed' : m \in Nodes /\ ~Stacked(m)'
    BY <1>9, <2>1 DEF KnotInv, Entries, Classed, KnotTyped
  <2>4. \A m \in Entered' : \A e \in Followed(m)' : e.to \in Entered'
    BY <1>4, <1>7, <1>12 DEF KnotInv, Entries
  <2> QED BY <2>2, <2>3, <2>4 DEF Entries
<1>16. Components'
  BY <1>5 DEF KnotInv, Components, Classed
<1>17. Below'
  <2>1. ASSUME NEW i \in 1 .. K, NEW s \in Nodes, Stacked(s)', At(i) <= index'[s]
        PROVE  Reach(path[i].node, s)
    <3>1. CASE s = n
      <4>1. K \in 1 .. K /\ path # <<>>
        BY <1>2, <1>4
      <4>2. Stacked(path[K].node) /\ path[K].node \in Nodes /\ Reach(path[K].node, n)
        BY <1>2, <1>11, <4>1
      <4>3. At(i) <= At(K)
        <5>1. i < K => At(i) < At(K)
          BY <1>4, <4>1 DEF KnotInv, Stacks
        <5> QED BY <1>4, <1>11, <4>1, <5>1
      <4>4. Reach(path[i].node, path[K].node)
        BY <1>4, <4>2, <4>3 DEF KnotInv, Below, At
      <4> QED BY <1>11, <3>1, <4>2, <4>4, ReachGoesOn
    <3>2. CASE s # n
      BY <1>4, <1>6, <1>9, <2>1, <3>2 DEF KnotInv, Below
    <3> QED BY <3>1, <3>2
  <2>2. ASSUME NEW s \in Nodes, Stacked(s)', N <= index'[s] PROVE Reach(n, s)
    <3>1. s = n
      BY <1>4, <1>6, <1>9, <2>2, Opened DEF KnotInv, KnotTyped
    <3> QED BY <3>1, ReachStays
  <2>3. \A i \in DOMAIN path' : i = K + 1 \/ i \in 1 .. K
    BY <1>4, <1>10
  <2> QED BY <1>5, <1>10, <1>11, <2>1, <2>2, <2>3 DEF Below
<1>18. Above'
  <2>1. ASSUME NEW s \in Nodes, Stacked(s)'
        PROVE  \E i \in 1 .. (K + 1) : At(i)' <= index'[s] /\ Reach(s, path'[i].node)
    <3>1. CASE s = n
      BY <1>4, <1>6, <1>10, <1>11, <3>1, ReachStays
    <3>2. CASE s # n
      <4>1. PICK i \in 1 .. K : At(i) <= index[s] /\ Reach(s, path[i].node)
        BY <1>4, <1>9, <2>1, <3>2 DEF KnotInv, Above
      <4>2. At(i)' <= index'[s] /\ Reach(s, path'[i].node)
        <5>1. At(i)' = At(i) /\ path'[i].node = path[i].node /\ index'[s] = index[s]
          BY <1>6, <1>10, <1>11, <3>2
        <5> QED BY <4>1, <5>1
      <4>3. i \in 1 .. (K + 1)
        BY <1>4
      <4> QED BY <4>2, <4>3
    <3> QED BY <3>1, <3>2
  <2> QED BY <1>5, <1>10, <2>1 DEF Above
<1>19. Lows'
  <2>1. ASSUME NEW s \in Nodes, Stacked(s)'
        PROVE  low'[s] <= index'[s] /\ \E t \in Nodes : Stacked(t)' /\ index'[t] = low'[s] /\ Reach(s, t)
    <3>1. CASE s = n
      BY <1>4, <1>6, <1>9, <3>1, ReachStays
    <3>2. CASE s # n
      <4>1. low[s] <= index[s] /\ \E t \in Nodes : Stacked(t) /\ index[t] = low[s] /\ Reach(s, t)
        BY <1>9, <2>1, <3>2 DEF KnotInv, Lows
      <4>2. \A t \in Nodes : Stacked(t) => t # n
        BY Opened
      <4> QED BY <1>6, <1>9, <3>2, <4>1, <4>2
    <3> QED BY <3>1, <3>2
  <2> QED BY <1>5, <2>1 DEF Lows
<1>20. Floors'
  <2>1. ASSUME NEW i \in DOMAIN path', NEW s \in Stretch(i)', NEW e \in Followed(s)', Stacked(e.to)'
        PROVE  low'[path'[i].node] <= index'[e.to]
    <3>1. s \in Nodes /\ Stacked(s)' /\ At(i)' <= index'[s]
      BY <2>1 DEF Stretch
    <3>2. CASE i = K + 1
      <4>1. s = n
        BY <1>4, <1>6, <1>9, <1>11, <3>1, <3>2, Opened DEF KnotInv, KnotTyped
      <4> QED BY <1>12, <2>1, <4>1
    <3>3. CASE i \in 1 .. K
      <4>1. s # n
        <5>1. index'[s] < At(K + 1)'
          BY <1>4, <1>10, <2>1, <3>3 DEF Stretch
        <5> QED BY <1>4, <1>6, <1>11, <5>1
      <4>2. s \in Stretch(i)
        <5>1. \A j \in 1 .. K : i < j => index[s] < At(j)
          <6> SUFFICES ASSUME NEW j \in 1 .. K, i < j PROVE index[s] < At(j)
            OBVIOUS
          <6>1. j \in DOMAIN path'
            BY <1>4, <1>10
          <6>2. index'[s] < At(j)'
            BY <2>1, <6>1 DEF Stretch
          <6> QED BY <1>6, <1>11, <3>1, <4>1, <6>2
        <5> QED BY <1>4, <1>6, <1>9, <1>11, <3>1, <3>3, <4>1, <5>1 DEF Stretch
      <4>3. low'[path'[i].node] = low[path[i].node]
        BY <1>6, <1>10, <1>11, <3>3
      <4>4. CASE e \in Followed(s)
        <5>1. e.to \in Entered /\ Stacked(e.to) /\ index'[e.to] = index[e.to]
          <6>1. s \in Entered
            BY <1>9, <3>1, <4>1, Opened
          <6>2. e.to \in Entered
            BY <4>4, <6>1 DEF KnotInv, Entries
          <6> QED BY <1>4, <1>6, <1>9, <2>1, <6>2
        <5> QED BY <1>4, <3>3, <4>2, <4>3, <4>4, <5>1 DEF KnotInv, Floors
      <4>5. CASE e.to = n
        <5>1. low[path[i].node] <= index[path[i].node] /\ index[path[i].node] < N
          BY <1>11, <3>3 DEF KnotInv, Lows, At
        <5>2. index'[e.to] = N
          BY <1>6, <4>5
        <5>3. low[path[i].node] \in Nat /\ index[path[i].node] \in Nat
          BY <1>11, <3>3 DEF KnotInv, KnotTyped
        <5> QED BY <1>4, <4>3, <5>1, <5>2, <5>3
      <4> QED BY <1>12, <2>1, <3>1, <4>1, <4>4, <4>5
    <3> QED BY <1>4, <1>10, <3>2, <3>3
  <2> QED BY <2>1 DEF Floors
<1> QED BY <1>13, <1>14, <1>15, <1>16, <1>17, <1>18, <1>19, <1>20 DEF KnotInv

LEMMA RootsSafe ==
  ASSUME KnotInv, NEW n \in Nodes, Roots(n)
  PROVE  KnotInv'
<1>1. path = <<>> /\ path \in Seq([node : Nodes, left : SUBSET Edges]) /\ DOMAIN path = {}
  BY DEF Roots, KnotInv, KnotTyped
<1> QED BY <1>1, EnterSafe DEF Roots

(* The path, once the edge e of its end is followed. *)
Taken(e) == Front(path) \o <<[Top EXCEPT !.left = @ \ {e}]>>

LEMMA Took ==
  ASSUME KnotInv, path # <<>>, NEW e \in Top.left
  PROVE  /\ e \in edges /\ e.from \in Nodes /\ e.to \in Nodes /\ Reach(e.from, e.to)
         /\ e.from = path[Len(path)].node /\ Len(path) \in DOMAIN path
         /\ Taken(e) \in Seq([node : Nodes, left : SUBSET Edges]) /\ DOMAIN Taken(e) = DOMAIN path
         /\ \A i \in DOMAIN path :
              /\ Taken(e)[i].node = path[i].node /\ Taken(e)[i].left \subseteq path[i].left
              /\ \A d \in path[i].left : d \notin Taken(e)[i].left => d = e
<1>1. PICK K : K = Len(path)
  OBVIOUS
<1>2. PICK T : T = [node : Nodes, left : SUBSET Edges]
  OBVIOUS
<1>3. path \in Seq(T) /\ K \in Nat \ {0} /\ DOMAIN path = 1 .. K /\ K \in DOMAIN path
  BY <1>1, <1>2 DEF KnotInv, KnotTyped
<1>4. PICK t : t = path[K]
  OBVIOUS
<1>5. t \in T /\ t = Top /\ t.node \in Nodes /\ t.left \in SUBSET Edges
  <2>1. t = Top
    BY <1>1, <1>4 DEF Last, Top
  <2>2. t \in T
    BY <1>1, <1>3, <1>4, ElementOfSeq
  <2> QED BY <1>2, <2>1, <2>2
<1>6. e \in edges /\ e.from = t.node
  <2>1. Open(K)
    BY <1>3 DEF KnotInv, Stacks
  <2> QED BY <1>4, <1>5, <2>1 DEF Open, Leaving
<1>7. e.from \in Nodes /\ e.to \in Nodes /\ Reach(e.from, e.to)
  BY <1>6, EdgeReaches DEF KnotInv
<1>8. PICK r : r = [Top EXCEPT !.left = @ \ {e}]
  OBVIOUS
<1>9. r \in T /\ r.node = t.node /\ r.left = t.left \ {e}
  BY <1>2, <1>5, <1>8
<1>10. PICK f : f = Front(path)
  OBVIOUS
<1>11. f \in Seq(T) /\ Len(f) = K - 1 /\ \A i \in 1 .. (K - 1) : f[i] = path[i]
  BY <1>1, <1>3, <1>10, SubSeqProperties DEF Front
<1>12. PICK g : g = <<r>>
  OBVIOUS
<1>13. g \in Seq(T) /\ Len(g) = 1 /\ g[1] = r
  BY <1>9, <1>12
<1>14. PICK w : w = f \o g
  OBVIOUS
<1>15. w \in Seq(T) /\ Len(w) = K /\ DOMAIN w = 1 .. K
  <2>1. w \in Seq(T) /\ Len(w) = Len(f) + Len(g)
    BY <1>11, <1>13, <1>14, ConcatProperties
  <2> QED BY <1>3, <1>11, <1>13, <2>1
<1>16. w[K] = r /\ \A i \in 1 .. (K - 1) : w[i] = path[i]
  <2>1. \A i \in 1 .. (Len(f) + Len(g)) : w[i] = IF i <= Len(f) THEN f[i] ELSE g[i - Len(f)]
    BY <1>11, <1>13, <1>14, ConcatProperties
  <2>2. Len(f) + Len(g) = K /\ K - Len(f) = 1 /\ ~ (K <= Len(f)) /\ K \in 1 .. K
    BY <1>3, <1>11, <1>13
  <2>3. w[K] = r
    BY <1>13, <2>1, <2>2
  <2>4. ASSUME NEW i \in 1 .. (K - 1) PROVE w[i] = path[i]
    <3>1. i \in 1 .. K /\ i <= Len(f)
      BY <1>3, <1>11
    <3> QED BY <1>11, <2>1, <2>2, <3>1
  <2> QED BY <2>3, <2>4
<1>17. w = Taken(e)
  BY <1>8, <1>10, <1>12, <1>14 DEF Taken
<1>18. \A i \in 1 .. K : i = K \/ i \in 1 .. (K - 1)
  BY <1>3
<1>19. \A i \in DOMAIN path :
         /\ w[i].node = path[i].node /\ w[i].left \subseteq path[i].left
         /\ \A d \in path[i].left : d \notin w[i].left => d = e
  BY <1>3, <1>4, <1>9, <1>16, <1>18
<1> QED BY <1>1, <1>2, <1>3, <1>4, <1>6, <1>7, <1>15, <1>17, <1>19

LEMMA FollowsSafe ==
  ASSUME KnotInv, NEW e \in Edges, Follows(e)
  PROVE  KnotInv'
<1>1. path # <<>> /\ e \in Top.left
  BY DEF Follows
<1>2. answering = "cycles"
  BY <1>1 DEF KnotInv, KnotTyped, Unwalked
<1>3. CASE e.to \notin Entered
  <2>1. PICK w : w = Taken(e)
    OBVIOUS
  <2>2. Enter(e.to, w)
    BY <1>3, <2>1 DEF Follows, Taken
  <2>3. /\ w \in Seq([node : Nodes, left : SUBSET Edges]) /\ DOMAIN w = DOMAIN path
        /\ e.to \in Nodes \ Entered /\ Reach(path[Len(path)].node, e.to)
    BY <1>1, <1>3, <2>1, Took
  <2>4. \A i \in DOMAIN w :
           /\ w[i].node = path[i].node /\ w[i].left \subseteq path[i].left
           /\ \A d \in path[i].left : d \notin w[i].left => d.to = e.to
    BY <1>1, <2>1, Took
  <2>5. PICK n : n = e.to
    OBVIOUS
  <2>6. n \in Nodes \ Entered /\ Enter(n, w) /\ Reach(path[Len(path)].node, n)
    BY <2>2, <2>3, <2>5
  <2>7. \A i \in DOMAIN w :
           /\ w[i].node = path[i].node /\ w[i].left \subseteq path[i].left
           /\ \A d \in path[i].left : d \notin w[i].left => d.to = n
    BY <2>4, <2>5
  <2> QED BY <1>2, <2>3, <2>6, <2>7, EnterSafe
<1>4. CASE e.to \in Entered
  <2>1. /\ path' = Taken(e)
        /\ low' = [low EXCEPT ![e.from] = IF Stacked(e.to) THEN Lowest(@, index[e.to]) ELSE @]
        /\ UNCHANGED <<edges, answering, found, index, stack>>
    BY <1>4 DEF Follows, Taken, graphVars
  <2>2. PICK p, K : p = e.from /\ K = Len(path)
    OBVIOUS
  <2>3. /\ K \in Nat \ {0} /\ K \in DOMAIN path /\ DOMAIN path = 1 .. K /\ DOMAIN path' = 1 .. K
        /\ p \in Nodes /\ p = path[K].node /\ e.to \in Nodes /\ Reach(p, e.to)
        /\ path' \in Seq([node : Nodes, left : SUBSET Edges])
        /\ \A i \in 1 .. K : path'[i].node = path[i].node /\ path'[i].left \subseteq path[i].left
        /\ \A i \in 1 .. K : \A d \in path[i].left : d \notin path'[i].left => d = e
    <3>1. K \in Nat /\ DOMAIN path = 1 .. K /\ K \in DOMAIN path
      BY <1>1, <2>2, Took, Opened
    <3>2. p \in Nodes /\ p = path[K].node /\ e.to \in Nodes /\ Reach(p, e.to)
      BY <1>1, <2>2, Took
    <3>3. path' \in Seq([node : Nodes, left : SUBSET Edges]) /\ DOMAIN path' = DOMAIN path
      BY <1>1, <2>1, Took
    <3>4. \A i \in DOMAIN path :
            /\ path'[i].node = path[i].node /\ path'[i].left \subseteq path[i].left
            /\ \A d \in path[i].left : d \notin path'[i].left => d = e
      BY <1>1, <2>1, Took
    <3> QED BY <3>1, <3>2, <3>3, <3>4
  <2>4. /\ \A k, m : Reach(k, m)' <=> Reach(k, m)
        /\ \A m : Leaving(m)' = Leaving(m) /\ Stacked(m)' = Stacked(m)
        /\ Entered' = Entered /\ Classed' = Classed
    BY <2>1, SameEdges DEF Leaving, Stacked, Entered, Classed
  <2>5. \A i \in 1 .. K : At(i)' = At(i) /\ At(i) \in Nat /\ path[i].node \in Nodes
    BY <2>1, <2>3, Opened DEF At
  <2>6. index \in [Nodes -> Nat] /\ low \in [Nodes -> Nat]
    BY DEF KnotInv, KnotTyped
  <2>7. low' \in [Nodes -> Nat] /\ \A m \in Nodes : low'[m] <= low[m] /\ (m # p => low'[m] = low[m])
    BY <2>1, <2>2, <2>3, <2>6 DEF Lowest
  <2>8. \/ low'[p] = low[p] /\ (Stacked(e.to) => low'[p] <= index[e.to])
        \/ low'[p] = index[e.to] /\ Stacked(e.to)
    BY <2>1, <2>2, <2>3, <2>6 DEF Lowest
  <2>9. \A s \in Nodes : \A d \in Followed(s)' : d \in edges /\ (d \in Followed(s) \/ (d = e /\ s = p))
    <3>1. ASSUME NEW s \in Nodes, NEW d \in Followed(s)', d \notin Followed(s) PROVE d = e /\ s = p
      <4>1. d \in Leaving(s)
        BY <2>4, <3>1 DEF Followed
      <4>2. PICK i \in DOMAIN path : path[i].node = s /\ d \in path[i].left
        BY <3>1, <4>1 DEF Followed
      <4>3. d \notin path'[i].left
        BY <2>3, <3>1, <4>2 DEF Followed
      <4>4. d = e
        BY <2>3, <4>2, <4>3
      <4> QED BY <2>2, <4>1, <4>4 DEF Leaving
    <3> QED BY <2>4, <3>1 DEF Followed, Leaving
  <2>10. KnotTyped' /\ Unwalked'
    BY <1>2, <2>1, <2>3, <2>7 DEF KnotInv, KnotTyped, Unwalked
  <2>11. Stacks'
    <3>1. ASSUME NEW i \in 1 .. K PROVE Open(i)'
      <4>1. Open(i)
        BY <2>3 DEF KnotInv, Stacks
      <4> QED BY <2>1, <2>3, <4>1 DEF Open, Stacked, Leaving
    <3>2. \A i, j \in 1 .. K : i < j => At(i)' < At(j)'
      BY <2>3, <2>5 DEF KnotInv, Stacks
    <3> QED BY <2>1, <2>3, <2>4, <3>1, <3>2 DEF KnotInv, Stacks
  <2>12. Entries'
    <3>1. \A m \in Entered : \A d \in Followed(m)' : d.to \in Entered
      BY <1>4, <2>9 DEF KnotInv, Entries, Entered
    <3> QED BY <2>4, <3>1 DEF KnotInv, Entries
  <2>13. Components'
    BY <2>1, <2>4 DEF KnotInv, Components
  <2>14. Below'
    <3>1. ASSUME NEW i \in 1 .. K, NEW s \in Nodes, Stacked(s), At(i) <= index[s] PROVE Reach(path[i].node, s)
      BY <2>3, <3>1 DEF KnotInv, Below
    <3> QED BY <2>1, <2>3, <2>4, <2>5, <3>1 DEF Below
  <2>15. Above'
    <3>1. ASSUME NEW s \in Nodes, Stacked(s) PROVE \E i \in 1 .. K : At(i)' <= index'[s] /\ Reach(s, path'[i].node)
      <4>1. PICK i \in 1 .. K : At(i) <= index[s] /\ Reach(s, path[i].node)
        BY <2>3, <3>1 DEF KnotInv, Above
      <4> QED BY <2>1, <2>3, <2>5, <4>1
    <3> QED BY <2>1, <2>3, <2>4, <3>1 DEF Above
  <2>16. Lows'
    <3>1. ASSUME NEW s \in Nodes, Stacked(s)
          PROVE  low'[s] <= index[s] /\ \E t \in Nodes : Stacked(t) /\ index[t] = low'[s] /\ Reach(s, t)
      <4>1. low[s] <= index[s] /\ \E t \in Nodes : Stacked(t) /\ index[t] = low[s] /\ Reach(s, t)
        BY <3>1 DEF KnotInv, Lows
      <4>2. CASE low'[s] = low[s]
        BY <4>1, <4>2
      <4>3. CASE low'[s] # low[s]
        <5>1. s = p
          BY <2>7, <4>3
        <5>2. low'[p] = index[e.to] /\ Stacked(e.to)
          BY <2>8, <4>3, <5>1
        <5>3. low'[s] <= index[s]
          BY <2>6, <2>7, <4>1
        <5> QED BY <2>3, <5>1, <5>2, <5>3
      <4> QED BY <4>2, <4>3
    <3> QED BY <2>1, <2>4, <3>1 DEF Lows
  <2>17. Floors'
    <3>1. ASSUME NEW i \in 1 .. K, NEW s \in Stretch(i)', NEW d \in Followed(s)', Stacked(d.to)'
          PROVE  low'[path'[i].node] <= index'[d.to]
      <4>1. s \in Nodes /\ s \in Stretch(i)
        BY <2>1, <2>3, <2>4, <2>5, <3>1 DEF Stretch
      <4>2. path'[i].node = path[i].node /\ path[i].node \in Nodes /\ low'[path[i].node] <= low[path[i].node]
        BY <2>3, <2>5, <2>7
      <4>3. d.to \in Nodes /\ Stacked(d.to)
        BY <2>4, <2>9, <3>1, <4>1, EdgeReaches DEF KnotInv
      <4>4. CASE d \in Followed(s)
        <5>1. low[path[i].node] <= index[d.to]
          BY <2>3, <4>1, <4>3, <4>4 DEF KnotInv, Floors
        <5> QED BY <2>1, <2>6, <2>7, <4>2, <4>3, <5>1
      <4>5. CASE d = e /\ s = p
        <5>1. i = K
          <6>1. i < K => index[s] < At(K)
            BY <2>3, <4>1 DEF Stretch
          <6>2. index[s] = At(K)
            BY <2>3, <4>5 DEF At
          <6> QED BY <2>3, <2>5, <6>1, <6>2
        <5>2. low'[p] <= index[e.to]
          BY <2>3, <2>6, <2>8, <4>3, <4>5
        <5> QED BY <2>1, <2>3, <4>2, <4>5, <5>1, <5>2
      <4> QED BY <2>9, <3>1, <4>1, <4>4, <4>5
    <3> QED BY <2>3, <3>1 DEF Floors
  <2> QED BY <2>10, <2>11, <2>12, <2>13, <2>14, <2>15, <2>16, <2>17 DEF KnotInv
<1> QED BY <1>3, <1>4

(* What is on the stack from n on, when n is open. *)
LEMMA SinceIsAbove ==
  ASSUME KnotInv, NEW n \in Nodes, Stacked(n)
  PROVE  /\ ToSet(Since(n)) = {s \in Nodes : Stacked(s) /\ index[n] <= index[s]}
         /\ SubSeq(stack, 1, Len(stack) - Len(Since(n))) \in Seq(Nodes)
         /\ \A s \in Nodes : s \in ToSet(SubSeq(stack, 1, Len(stack) - Len(Since(n)))) <=> (Stacked(s) /\ index[s] < index[n])
         /\ \A i, j \in DOMAIN SubSeq(stack, 1, Len(stack) - Len(Since(n))) : i < j =>
              index[SubSeq(stack, 1, Len(stack) - Len(Since(n)))[i]] < index[SubSeq(stack, 1, Len(stack) - Len(Since(n)))[j]]
<1>1. PICK L : L = Len(stack)
  OBVIOUS
<1>2. stack \in Seq(Nodes) /\ L \in Nat /\ DOMAIN stack = 1 .. L /\ index \in [Nodes -> Nat]
  BY <1>1 DEF KnotInv, KnotTyped
<1>3. PICK q \in 1 .. L : stack[q] = n
  BY <1>2 DEF Stacked, ToSet
<1>4. \A i, j \in 1 .. L : i < j => index[stack[i]] < index[stack[j]]
  BY <1>2 DEF KnotInv, Stacks
<1>5. \A i \in 1 .. L : stack[i] \in Nodes /\ index[stack[i]] \in Nat
  BY <1>2
<1>6. \A i \in 1 .. L : (q <= i <=> index[n] <= index[stack[i]]) /\ (stack[i] = n <=> i = q)
  <2>1. ASSUME NEW i \in 1 .. L, i < q PROVE index[stack[i]] < index[n]
    BY <1>3, <1>4, <2>1
  <2>2. ASSUME NEW i \in 1 .. L, q < i PROVE index[n] < index[stack[i]]
    BY <1>3, <1>4, <2>2
  <2> QED BY <1>3, <1>5, <2>1, <2>2
<1>7. SelectInSeq(stack, LAMBDA m : m = n) = q
  <2>1. PICK I : I = {i \in 1 .. Len(stack) : stack[i] = n}
    OBVIOUS
  <2>2. I = {q}
    BY <1>1, <1>6, <2>1
  <2>3. Min({q}) = q
    BY <1>2, <1>3 DEF Min
  <2> QED BY <2>1, <2>2, <2>3 DEF SelectInSeq
<1>8. PICK t, u : t = Since(n) /\ u = SubSeq(stack, 1, Len(stack) - Len(Since(n)))
  OBVIOUS
<1>9. t = SubSeq(stack, q, L)
  BY <1>1, <1>7, <1>8 DEF Since
<1>10. Len(t) = L - q + 1 /\ DOMAIN t = 1 .. (L - q + 1) /\ \A i \in 1 .. (L - q + 1) : t[i] = stack[q + i - 1]
  BY <1>2, <1>3, <1>9
<1>11. u = SubSeq(stack, 1, q - 1)
  <2>1. Len(stack) - Len(Since(n)) = q - 1
    BY <1>1, <1>2, <1>3, <1>8, <1>10
  <2> QED BY <1>8, <2>1
<1>12. u \in Seq(Nodes) /\ DOMAIN u = 1 .. (q - 1) /\ \A i \in 1 .. (q - 1) : u[i] = stack[i]
  BY <1>2, <1>3, <1>11
<1>13. ASSUME NEW s PROVE s \in ToSet(t) <=> \E i \in 1 .. L : q <= i /\ s = stack[i]
  <2>1. ASSUME NEW i \in 1 .. (L - q + 1), s = t[i] PROVE \E k \in 1 .. L : q <= k /\ s = stack[k]
    <3>1. q + i - 1 \in 1 .. L /\ q <= q + i - 1
      BY <1>2, <1>3
    <3> QED BY <1>10, <2>1, <3>1
  <2>2. ASSUME NEW i \in 1 .. L, q <= i, s = stack[i] PROVE \E k \in 1 .. (L - q + 1) : s = t[k]
    <3>1. i - q + 1 \in 1 .. (L - q + 1) /\ q + (i - q + 1) - 1 = i
      BY <1>2, <1>3, <2>2
    <3>2. t[i - q + 1] = stack[q + (i - q + 1) - 1]
      BY <1>10, <3>1
    <3> QED BY <2>2, <3>1, <3>2
  <2> QED BY <1>10, <2>1, <2>2 DEF ToSet
<1>14. ASSUME NEW s PROVE s \in ToSet(u) <=> \E i \in 1 .. L : i < q /\ s = stack[i]
  <2>1. \A i : i \in 1 .. (q - 1) <=> (i \in 1 .. L /\ i < q)
    BY <1>2, <1>3
  <2> QED BY <1>12, <2>1 DEF ToSet
<1>15. \A s : Stacked(s) <=> \E i \in 1 .. L : s = stack[i]
  BY <1>2 DEF Stacked, ToSet
<1>16. ToSet(t) = {s \in Nodes : Stacked(s) /\ index[n] <= index[s]}
  BY <1>5, <1>6, <1>13, <1>15
<1>17. \A s \in Nodes : s \in ToSet(u) <=> (Stacked(s) /\ index[s] < index[n])
  <2>1. \A i \in 1 .. L : i < q <=> index[stack[i]] < index[n]
    BY <1>2, <1>3, <1>5, <1>6
  <2> QED BY <1>14, <1>15, <2>1
<1>18. \A i, j \in DOMAIN u : i < j => index[u[i]] < index[u[j]]
  <2>1. \A i : i \in 1 .. (q - 1) => i \in 1 .. L
    BY <1>2, <1>3
  <2> QED BY <1>4, <1>12, <2>1
<1> QED BY <1>8, <1>12, <1>16, <1>17, <1>18

LEMMA LeavesSafe ==
  ASSUME KnotInv, NEW n \in Nodes, Leaves(n)
  PROVE  KnotInv'
<1>1. PICK K : K = Len(path)
  OBVIOUS
<1>2. /\ K \in Nat \ {0} /\ DOMAIN path = 1 .. K /\ K \in 1 .. K
      /\ path[K].node = n /\ path[K].left = {} /\ Stacked(n) /\ answering = "cycles"
  <2>1. path # <<>> /\ path[K] = [node |-> n, left |-> {}]
    BY <1>1 DEF Leaves, Top, Last
  <2>2. K \in Nat \ {0} /\ DOMAIN path = 1 .. K
    BY <1>1, <2>1 DEF KnotInv, KnotTyped
  <2>3. path[K].node = n /\ path[K].left = {}
    BY <2>1
  <2>4. Stacked(n)
    BY <2>2, <2>3, Opened
  <2> QED BY <2>1, <2>2, <2>3, <2>4 DEF KnotInv, KnotTyped, Unwalked
<1>3. /\ path' \in Seq([node : Nodes, left : SUBSET Edges]) /\ Len(path') = K - 1 /\ DOMAIN path' = 1 .. (K - 1)
      /\ \A i \in 1 .. (K - 1) : path'[i] = path[i] /\ i \in 1 .. K
  <2>1. PICK T : T = [node : Nodes, left : SUBSET Edges]
    OBVIOUS
  <2>2. path \in Seq(T) /\ path' = SubSeq(path, 1, K - 1)
    BY <1>1, <2>1 DEF Leaves, Front, KnotInv, KnotTyped
  <2>3. path' \in Seq(T) /\ Len(path') = K - 1 /\ DOMAIN path' = 1 .. (K - 1)
    BY <1>1, <1>2, <2>2
  <2>4. \A i \in 1 .. (K - 1) : path'[i] = path[i] /\ i \in 1 .. K
    BY <1>1, <1>2, <2>2
  <2> QED BY <2>1, <2>3, <2>4
<1>4. UNCHANGED <<edges, answering, index>>
  BY DEF Leaves, graphVars
<1>5. /\ \A k, m : Reach(k, m)' <=> Reach(k, m)
      /\ \A m : Leaving(m)' = Leaving(m)
      /\ Entered' = Entered
  BY <1>4, SameEdges DEF Leaving, Entered
<1>6. index \in [Nodes -> Nat] /\ low \in [Nodes -> Nat]
  BY DEF KnotInv, KnotTyped
<1>7. /\ \A i \in 1 .. K : At(i) \in Nat /\ path[i].node \in Nodes /\ Stacked(path[i].node)
      /\ \A i, j \in 1 .. K : i < j => At(i) < At(j)
      /\ At(K) = index[n] /\ \A i \in 1 .. K : At(i) <= index[n] /\ (At(i) < index[n] <=> i \in 1 .. (K - 1))
  <2>1. \A i \in 1 .. K : At(i) \in Nat /\ path[i].node \in Nodes /\ Stacked(path[i].node)
    BY <1>2, Opened
  <2>2. \A i, j \in 1 .. K : i < j => At(i) < At(j)
    BY <1>2 DEF KnotInv, Stacks
  <2>3. At(K) = index[n]
    BY <1>2 DEF At
  <2>4. \A i \in 1 .. K : i = K \/ (i < K /\ i \in 1 .. (K - 1))
    BY <1>2
  <2>5. K \notin 1 .. (K - 1)
    BY <1>2
  <2>6. ASSUME NEW i \in 1 .. K PROVE At(i) <= index[n] /\ (At(i) < index[n] <=> i \in 1 .. (K - 1))
    <3>1. CASE i = K
      BY <1>6, <2>3, <2>5, <3>1
    <3>2. CASE i < K /\ i \in 1 .. (K - 1)
      BY <1>2, <1>6, <2>1, <2>2, <2>3, <3>2
    <3> QED BY <2>4, <3>1, <3>2
  <2> QED BY <2>1, <2>2, <2>3, <2>6
<1>8. \A i \in 1 .. (K - 1) : At(i)' = At(i)
  BY <1>3, <1>4 DEF At
<1>9. \A s \in Nodes : Followed(s)' \subseteq Followed(s)
  <2>1. ASSUME NEW s \in Nodes, NEW d \in Followed(s)', NEW i \in 1 .. K, path[i].node = s, d \in path[i].left PROVE FALSE
    <3>1. i \in 1 .. (K - 1)
      BY <1>2, <2>1
    <3> QED BY <1>3, <2>1, <3>1 DEF Followed
  <2> QED BY <1>2, <1>5, <2>1 DEF Followed
<1>10. /\ low' \in [Nodes -> Nat] /\ \A m \in Nodes : low'[m] <= low[m]
       /\ \A m \in Nodes : low'[m] # low[m] =>
            1 < K /\ m = path[K - 1].node /\ low'[m] = low[n]
       /\ 1 < K => low'[path[K - 1].node] <= low[n]
  <2>1. CASE K = 1
    <3>1. path' = <<>>
      BY <1>3, <2>1
    <3> QED BY <1>6, <2>1, <3>1 DEF Leaves
  <2>2. CASE 1 < K
    <3>1. PICK p : p = path[K - 1].node
      OBVIOUS
    <3>2. K - 1 \in 1 .. (K - 1) /\ path' # <<>> /\ Last(path').node = p /\ p \in Nodes
      BY <1>2, <1>3, <1>7, <2>2, <3>1 DEF Last
    <3>3. low' = [low EXCEPT ![p] = Lowest(@, low[n])]
      BY <3>2 DEF Leaves
    <3> QED BY <1>6, <2>2, <3>1, <3>2, <3>3 DEF Lowest
  <2> QED BY <1>2, <2>1, <2>2
<1>11. KnotTyped' <=> (stack' \in Seq(Nodes) /\ found' \subseteq SUBSET Nodes)
  BY <1>3, <1>4, <1>10 DEF KnotInv, KnotTyped
<1>12. Unwalked'
  BY <1>2, <1>4 DEF Unwalked
<1>13. \A i \in 1 .. (K - 1) : Open(i)' <=> Stacked(path[i].node)'
  <2>1. ASSUME NEW i \in 1 .. (K - 1) PROVE Open(i)' <=> Stacked(path[i].node)'
    <3>1. Open(i)
      BY <1>2, <1>3 DEF KnotInv, Stacks
    <3> QED BY <1>3, <1>4, <3>1 DEF Open, Stacked, Leaving
  <2> QED BY <2>1
<1>14. \A i, j \in 1 .. (K - 1) : i < j => At(i)' < At(j)'
  BY <1>3, <1>7, <1>8
<1>15. \A n1 \in Entered' : index'[n1] <= Cardinality(Entered')
  BY <1>4, <1>5 DEF KnotInv, Stacks
<1>16. \A m \in Entered : \A e \in Followed(m)' : e.to \in Entered
  BY <1>9 DEF KnotInv, Entries, Entered
<1>17. CASE low[n] # index[n]
  <2>1. UNCHANGED <<found, stack>>
    BY <1>17 DEF Leaves
  <2>2. (\A m : Stacked(m)' = Stacked(m)) /\ Classed' = Classed
    BY <2>1 DEF Stacked, Classed
  <2>3. PICK t \in Nodes : Stacked(t) /\ index[t] = low[n] /\ Reach(n, t) /\ index[t] < index[n]
    BY <1>2, <1>6, <1>17 DEF KnotInv, Lows
  <2>4. PICK j \in 1 .. K : At(j) <= index[t] /\ Reach(t, path[j].node)
    BY <1>2, <2>3 DEF KnotInv, Above
  <2>5. j \in 1 .. (K - 1) /\ At(j) < index[n] /\ Reach(n, path[j].node)
    <3>1. At(j) < index[n]
      BY <1>6, <1>7, <2>3, <2>4
    <3> QED BY <1>7, <2>3, <2>4, <3>1, ReachGoesOn
  <2>6. Stacks'
    BY <1>3, <1>4, <1>7, <1>13, <1>14, <1>15, <2>1, <2>2 DEF KnotInv, Stacks
  <2>7. Entries'
    BY <1>5, <1>16, <2>2 DEF KnotInv, Entries
  <2>8. Components'
    BY <1>4, <1>5, <2>1, <2>2 DEF KnotInv, Components
  <2>9. Below'
    <3>1. ASSUME NEW i \in 1 .. (K - 1), NEW s \in Nodes, Stacked(s), At(i) <= index[s] PROVE Reach(path[i].node, s)
      BY <1>2, <1>3, <3>1 DEF KnotInv, Below
    <3> QED BY <1>3, <1>4, <1>5, <1>8, <2>2, <3>1 DEF Below
  <2>10. Above'
    <3>1. ASSUME NEW s \in Nodes, Stacked(s) PROVE \E i \in 1 .. (K - 1) : At(i) <= index[s] /\ Reach(s, path[i].node)
      <4>1. PICK i \in 1 .. K : At(i) <= index[s] /\ Reach(s, path[i].node)
        BY <1>2, <3>1 DEF KnotInv, Above
      <4>2. CASE i = K
        <5>1. Reach(s, n)
          BY <1>2, <4>1, <4>2
        <5>2. Reach(s, path[j].node)
          BY <1>7, <2>4, <2>5, <5>1, ReachGoesOn
        <5>3. At(j) <= index[s]
          BY <1>6, <1>7, <2>5, <4>1, <4>2
        <5> QED BY <2>5, <5>2, <5>3
      <4>3. CASE i \in 1 .. (K - 1)
        BY <4>1, <4>3
      <4> QED BY <1>2, <4>2, <4>3
    <3>2. ASSUME NEW s \in Nodes, Stacked(s)' PROVE \E i \in DOMAIN path' : At(i)' <= index'[s] /\ Reach(s, path'[i].node)
      <4>1. PICK i \in 1 .. (K - 1) : At(i) <= index[s] /\ Reach(s, path[i].node)
        BY <2>2, <3>1, <3>2
      <4> QED BY <1>3, <1>4, <1>8, <4>1
    <3> QED BY <1>5, <3>2 DEF Above
  <2>11. Lows'
    <3>1. ASSUME NEW s \in Nodes, Stacked(s)
          PROVE  low'[s] <= index[s] /\ \E v \in Nodes : Stacked(v) /\ index[v] = low'[s] /\ Reach(s, v)
      <4>1. low[s] <= index[s] /\ \E v \in Nodes : Stacked(v) /\ index[v] = low[s] /\ Reach(s, v)
        BY <3>1 DEF KnotInv, Lows
      <4>2. low'[s] <= index[s]
        BY <1>6, <1>10, <4>1
      <4>3. CASE low'[s] = low[s]
        BY <4>1, <4>3
      <4>4. CASE low'[s] # low[s]
        <5>1. 1 < K /\ s = path[K - 1].node /\ low'[s] = low[n]
          BY <1>10, <4>4
        <5>2. K - 1 \in 1 .. K /\ K - 1 \in 1 .. (K - 1)
          BY <1>2, <5>1
        <5>3. Reach(s, n)
          BY <1>2, <1>7, <5>1, <5>2 DEF KnotInv, Below
        <5>4. Reach(s, t)
          BY <2>3, <5>3, ReachGoesOn
        <5> QED BY <2>3, <4>2, <5>1, <5>4
      <4> QED BY <4>3, <4>4
    <3> QED BY <1>4, <1>5, <2>2, <3>1 DEF Lows
  <2>12. Floors'
    <3>1. ASSUME NEW i \in 1 .. (K - 1), NEW s \in Stretch(i)', NEW d \in Followed(s)', Stacked(d.to)'
          PROVE  low'[path'[i].node] <= index'[d.to]
      <4>1. s \in Nodes /\ Stacked(s) /\ At(i) <= index[s] /\ \A k \in 1 .. (K - 1) : i < k => index[s] < At(k)
        BY <1>3, <1>4, <1>8, <2>2, <3>1 DEF Stretch
      <4>2. d \in Followed(s) /\ d \in edges /\ d.to \in Nodes /\ Stacked(d.to)
        <5>1. d \in Followed(s)
          BY <1>9, <3>1, <4>1
        <5>2. d \in edges
          BY <5>1 DEF Followed, Leaving
        <5> QED BY <2>2, <3>1, <5>1, <5>2, EdgeReaches DEF KnotInv
      <4>3. PICK p : p = path[i].node
        OBVIOUS
      <4>4. i \in 1 .. K /\ p \in Nodes /\ path'[i].node = p /\ low'[p] <= low[p]
        BY <1>3, <1>7, <1>10, <4>3
      <4>5. CASE index[s] < index[n]
        <5>1. \A k \in 1 .. K : i < k => index[s] < At(k)
          BY <1>2, <1>7, <4>1, <4>5
        <5>2. s \in Stretch(i)
          BY <1>2, <4>1, <5>1 DEF Stretch
        <5>3. low[p] <= index[d.to]
          BY <1>2, <4>2, <4>3, <4>4, <5>2 DEF KnotInv, Floors
        <5> QED BY <1>4, <1>6, <1>10, <4>2, <4>4, <5>3
      <4>6. CASE index[n] <= index[s]
        <5>1. s \in Stretch(K)
          BY <1>2, <1>7, <4>1, <4>6 DEF Stretch
        <5>2. low[n] <= index[d.to]
          BY <1>2, <4>2, <5>1 DEF KnotInv, Floors
        <5>3. i = K - 1 /\ 1 < K
          <6>1. CASE i < K - 1
            <7>1. K - 1 \in 1 .. (K - 1) /\ K - 1 \in 1 .. K
              BY <1>2, <6>1
            <7>2. index[s] < At(K - 1) /\ At(K - 1) < index[n]
              BY <1>7, <4>1, <6>1, <7>1
            <7> QED BY <1>6, <1>7, <4>1, <4>6, <7>1, <7>2
          <6> QED BY <1>2, <6>1
        <5>4. low'[p] <= low[n]
          BY <1>10, <4>3, <5>3
        <5> QED BY <1>4, <1>6, <1>10, <4>2, <4>4, <5>2, <5>4
      <4> QED BY <1>6, <4>1, <4>5, <4>6
    <3> QED BY <1>3, <3>1 DEF Floors
  <2> QED BY <1>11, <1>12, <2>1, <2>6, <2>7, <2>8, <2>9, <2>10, <2>11, <2>12 DEF KnotInv, KnotTyped
<1>18. CASE low[n] = index[n]
  <2>1. PICK C : C = ToSet(Since(n))
    OBVIOUS
  <2>2. /\ found' = found \cup {C}
        /\ stack' = SubSeq(stack, 1, Len(stack) - Len(Since(n)))
    BY <1>18, <2>1 DEF Leaves
  <2>3. C = {s \in Nodes : Stacked(s) /\ index[n] <= index[s]}
    BY <1>2, <2>1, SinceIsAbove
  <2>4. /\ stack' \in Seq(Nodes)
        /\ \A i, j \in DOMAIN stack' : i < j => index[stack'[i]] < index[stack'[j]]
    BY <1>2, <2>2, SinceIsAbove
  <2>5. \A s \in Nodes : Stacked(s)' <=> (Stacked(s) /\ index[s] < index[n])
    <3>1. \A s \in Nodes : s \in ToSet(stack') <=> (Stacked(s) /\ index[s] < index[n])
      BY <1>2, <2>2, SinceIsAbove
    <3> QED BY <3>1 DEF Stacked
  <2>6. Classed' = Classed \cup C
    BY <2>2 DEF Classed
  <2>7. \A s \in Nodes : Stacked(s) => (s \in C \/ Stacked(s)')
    BY <1>6, <2>3, <2>5
  <2>8. \A s \in C : s \in Nodes /\ Stacked(s) /\ ~ Stacked(s)' /\ s \notin Classed
    <3>1. \A s \in C : s \in Nodes /\ Stacked(s) /\ index[n] <= index[s]
      BY <2>3
    <3> QED BY <1>6, <2>5, <3>1, Opened
  <2>9. \A s \in C : s \in Stretch(K) /\ \A d \in Leaving(s) : d \in Followed(s)
    <3>1. ASSUME NEW s \in C PROVE s \in Stretch(K)
      BY <1>2, <1>7, <2>3 DEF Stretch
    <3>2. ASSUME NEW s \in C, NEW i \in 1 .. K, path[i].node = s PROVE path[i].left = {}
      <4>1. index[n] <= At(i)
        BY <2>3, <3>2 DEF At
      <4>2. ~ (At(i) < index[n])
        BY <1>6, <1>7, <4>1
      <4>3. i = K
        BY <1>2, <1>7, <4>2
      <4> QED BY <1>2, <4>3
    <3> QED BY <1>2, <3>1, <3>2 DEF Followed
  <2>10. ASSUME NEW e \in edges, e.from \in C PROVE e.to \in C \/ e.to \in Classed
    <3>1. e.to \in Nodes /\ e \in Leaving(e.from)
      BY EdgeReaches DEF KnotInv, Leaving
    <3>2. e \in Followed(e.from) /\ e.from \in Stretch(K)
      BY <2>9, <2>10, <3>1
    <3>3. e.to \in Entered
      BY <2>8, <2>10, <3>2, Opened DEF KnotInv, Entries
    <3>4. CASE Stacked(e.to)
      <4>1. low[path[K].node] <= index[e.to]
        BY <1>2, <3>2, <3>4 DEF KnotInv, Floors
      <4> QED BY <1>2, <1>18, <2>3, <3>1, <3>4, <4>1
    <3> QED BY <3>1, <3>3, <3>4 DEF KnotInv, Entries
  <2>11. ASSUME NEW s \in C PROVE Reach(n, s) /\ Reach(s, n)
    <3>1. s \in Nodes /\ Stacked(s) /\ index[n] <= index[s]
      BY <2>3
    <3>2. Reach(n, s)
      BY <1>2, <1>7, <3>1 DEF KnotInv, Below
    <3>3. PICK i \in 1 .. K : At(i) <= index[s] /\ Reach(s, path[i].node)
      BY <1>2, <3>1 DEF KnotInv, Above
    <3>4. Reach(path[i].node, n)
      BY <1>2, <1>7 DEF KnotInv, Below
    <3> QED BY <1>7, <3>1, <3>2, <3>3, <3>4, ReachGoesOn
  <2>12. Components'
    <3>1. n \in C
      BY <1>2, <1>6, <2>3
    <3>2. ASSUME NEW e \in edges, e.from \in Classed \cup C PROVE e.to \in Classed \cup C
      BY <2>10, <3>2 DEF KnotInv, Components
    <3>3. Classed \subseteq Nodes /\ C \subseteq Nodes
      BY <2>3 DEF Classed, KnotInv, KnotTyped
    <3>4. ASSUME NEW a \in C, NEW b \in C PROVE Reach(a, b) /\ Reach(b, a)
      BY <2>8, <2>11, ReachGoesOn
    <3>5. ASSUME NEW a \in C, NEW b \in Nodes, Reach(a, b), Reach(b, a) PROVE b \in C
      <4>1. PICK S : S = Classed \cup C
        OBVIOUS
      <4>2. b \in S
        BY <3>2, <3>3, <3>5, <4>1, ReachWithin
      <4>3. ASSUME b \in Classed PROVE FALSE
        <5>1. \A e \in edges : e.from \in Classed => e.to \in Classed
          BY DEF KnotInv, Components
        <5>2. a \in Classed
          BY <3>3, <3>5, <4>3, <5>1, ReachWithin
        <5> QED BY <2>8, <5>2
      <4> QED BY <4>1, <4>2, <4>3
    <3>6. \A c \in found' : c # {} /\ \A m \in c : \A k \in Nodes : k \in c <=> (Reach(m, k) /\ Reach(k, m))
      <4>1. \A c \in found : c # {} /\ \A m \in c : \A k \in Nodes : k \in c <=> (Reach(m, k) /\ Reach(k, m))
        BY DEF KnotInv, Components
      <4>2. C # {} /\ \A m \in C : \A k \in Nodes : k \in C <=> (Reach(m, k) /\ Reach(k, m))
        BY <3>1, <3>4, <3>5
      <4> QED BY <2>2, <4>1, <4>2
    <3>7. \A e \in edges' : e.from \in Classed' => e.to \in Classed'
      BY <1>4, <2>6, <3>2
    <3> QED BY <1>5, <3>6, <3>7 DEF Components
  <2>13. KnotTyped'
    BY <1>11, <2>2, <2>3, <2>4 DEF KnotInv, KnotTyped
  <2>14. Stacks'
    <3>1. \A i \in 1 .. (K - 1) : Stacked(path[i].node)'
      BY <1>3, <1>4, <1>7, <2>5 DEF At
    <3> QED BY <1>3, <1>4, <1>13, <1>14, <1>15, <2>4, <3>1 DEF Stacks
  <2>15. Entries'
    <3>1. \A m \in Nodes : m \in Entered' <=> (Stacked(m)' \/ m \in Classed')
      BY <1>5, <2>5, <2>6, <2>7, <2>8 DEF KnotInv, Entries
    <3>2. \A m \in Nodes : m \in Classed' => ~ Stacked(m)'
      BY <2>5, <2>6, <2>8 DEF KnotInv, Entries
    <3>3. \A m \in Classed' : m \in Nodes
      BY <2>13 DEF KnotTyped, Classed
    <3> QED BY <1>5, <1>16, <3>1, <3>2, <3>3 DEF Entries
  <2>16. Below'
    <3>1. ASSUME NEW i \in 1 .. (K - 1), NEW s \in Nodes, Stacked(s)', At(i) <= index[s] PROVE Reach(path[i].node, s)
      BY <1>2, <1>3, <2>5, <3>1 DEF KnotInv, Below
    <3> QED BY <1>3, <1>4, <1>5, <1>8, <3>1 DEF Below
  <2>17. Above'
    <3>1. ASSUME NEW s \in Nodes, Stacked(s)' PROVE \E i \in DOMAIN path' : At(i)' <= index'[s] /\ Reach(s, path'[i].node)
      <4>1. PICK i \in 1 .. K : At(i) <= index[s] /\ Reach(s, path[i].node)
        BY <1>2, <2>5, <3>1 DEF KnotInv, Above
      <4>2. At(i) < index[n]
        BY <1>6, <1>7, <2>5, <3>1, <4>1
      <4>3. i \in 1 .. (K - 1)
        BY <1>7, <4>2
      <4> QED BY <1>3, <1>4, <1>8, <4>1, <4>3
    <3> QED BY <1>5, <3>1 DEF Above
  <2>18. low' = low
    <3>1. ASSUME NEW m \in Nodes, low'[m] # low[m] PROVE FALSE
      <4>1. 1 < K /\ m = path[K - 1].node /\ low'[m] = index[n] /\ low'[m] <= low[m]
        BY <1>10, <1>18, <3>1
      <4>2. K - 1 \in 1 .. K /\ K - 1 \in 1 .. (K - 1)
        BY <1>2, <4>1
      <4>3. Stacked(m) /\ index[m] < index[n]
        BY <1>7, <4>1, <4>2 DEF At
      <4>4. low[m] <= index[m]
        BY <4>3 DEF KnotInv, Lows
      <4> QED BY <1>6, <1>10, <4>1, <4>3, <4>4
    <3> QED BY <1>6, <1>10, <3>1
  <2>19. Lows'
    <3>1. ASSUME NEW s \in Nodes, Stacked(s)'
          PROVE  low[s] <= index[s] /\ \E v \in Nodes : Stacked(v)' /\ index[v] = low[s] /\ Reach(s, v)
      <4>1. Stacked(s) /\ index[s] < index[n]
        BY <2>5, <3>1
      <4>2. PICK v \in Nodes : Stacked(v) /\ index[v] = low[s] /\ Reach(s, v)
        BY <4>1 DEF KnotInv, Lows
      <4>3. low[s] <= index[s]
        BY <4>1 DEF KnotInv, Lows
      <4>4. Stacked(v)'
        BY <1>6, <2>5, <4>1, <4>2, <4>3
      <4> QED BY <4>2, <4>3, <4>4
    <3> QED BY <1>4, <1>5, <2>18, <3>1 DEF Lows
  <2>20. Floors'
    <3>1. ASSUME NEW i \in 1 .. (K - 1), NEW s \in Stretch(i)', NEW d \in Followed(s)', Stacked(d.to)'
          PROVE  low'[path'[i].node] <= index'[d.to]
      <4>1. s \in Nodes /\ Stacked(s)' /\ At(i) <= index[s] /\ \A k \in 1 .. (K - 1) : i < k => index[s] < At(k)
        BY <1>3, <1>4, <1>8, <3>1 DEF Stretch
      <4>2. Stacked(s) /\ index[s] < index[n]
        BY <2>5, <4>1
      <4>3. \A k \in 1 .. K : i < k => index[s] < At(k)
        BY <1>2, <1>7, <4>1, <4>2
      <4>4. i \in 1 .. K /\ s \in Stretch(i)
        BY <1>2, <1>3, <4>1, <4>2, <4>3 DEF Stretch
      <4>5. d \in Followed(s) /\ d \in edges /\ d.to \in Nodes
        <5>1. d \in Followed(s)
          BY <1>9, <3>1, <4>1
        <5>2. d \in edges
          BY <5>1 DEF Followed, Leaving
        <5> QED BY <5>1, <5>2, EdgeReaches DEF KnotInv
      <4>6. Stacked(d.to)
        BY <2>5, <3>1, <4>5
      <4>7. low[path[i].node] <= index[d.to]
        BY <1>2, <4>4, <4>5, <4>6 DEF KnotInv, Floors
      <4> QED BY <1>3, <1>4, <2>18, <4>7
    <3> QED BY <1>3, <3>1 DEF Floors
  <2> QED BY <1>12, <2>12, <2>13, <2>14, <2>15, <2>16, <2>17, <2>19, <2>20 DEF KnotInv
<1> QED BY <1>17, <1>18

(* Until it is asked, the graph grows; nothing is walked yet. *)
LEMMA GrowsSafe ==
  ASSUME KnotInv, answering = "none", edges' \in SUBSET Edges, answering' \in {"none", "cycles"}, UNCHANGED knotVars
  PROVE  KnotInv'
<1>1. UNCHANGED <<index, low, stack, path, found>>
  BY DEF knotVars
<1>2. stack = <<>> /\ path = <<>> /\ found = {} /\ Entered = {}
  BY DEF KnotInv, Unwalked
<1>3. stack' = <<>> /\ path' = <<>> /\ found' = {} /\ Entered' = {} /\ Classed' = {}
  BY <1>1, <1>2 DEF Entered, Classed
<1>4. DOMAIN stack' = {} /\ DOMAIN path' = {} /\ \A s : ~ Stacked(s)'
  BY <1>3 DEF Stacked, ToSet
<1>5. KnotTyped' /\ Unwalked'
  BY <1>1, <1>3 DEF KnotInv, KnotTyped, Unwalked
<1>6. Stacks' /\ Entries' /\ Components'
  BY <1>3, <1>4 DEF Stacks, Entries, Components
<1>7. Below' /\ Above' /\ Lows' /\ Floors'
  BY <1>4 DEF Below, Above, Lows, Floors
<1> QED BY <1>5, <1>6, <1>7 DEF KnotInv

LEMMA KnotInvStays == ASSUME KnotInv, [KnotNext]_<<graphVars, knotVars>> PROVE KnotInv'
<1>1. CASE KnotNext
  <2>1. ASSUME NEW e \in Edges, Connect(e), UNCHANGED knotVars PROVE KnotInv'
    BY <2>1, GrowsSafe DEF Connect, KnotInv, KnotTyped
  <2>2. ASSUME Cycles PROVE KnotInv'
    BY <2>2, GrowsSafe DEF Cycles, KnotInv, KnotTyped
  <2>3. ASSUME NEW n \in Nodes, Roots(n) PROVE KnotInv'
    BY <2>3, RootsSafe
  <2>4. ASSUME NEW n \in Nodes, Leaves(n) PROVE KnotInv'
    BY <2>4, LeavesSafe
  <2>5. ASSUME NEW e \in Edges, Follows(e) PROVE KnotInv'
    BY <2>5, FollowsSafe
  <2> QED BY <1>1, <2>1, <2>2, <2>3, <2>4, <2>5 DEF KnotNext
<1>2. CASE UNCHANGED <<graphVars, knotVars>>
  <2>1. UNCHANGED <<edges, answering, index, low, stack, path, found>>
    BY <1>2 DEF graphVars, knotVars
  <2>2. \A k, m : Reach(k, m)' <=> Reach(k, m)
    BY <2>1, SameEdges
  <2>3. \A m : Stacked(m)' = Stacked(m) /\ Followed(m)' = Followed(m) /\ At(m)' = At(m) /\ Stretch(m)' = Stretch(m) /\ Open(m)' = Open(m)
    BY <2>1 DEF Stacked, Followed, At, Stretch, Open, Leaving
  <2>4. Entered' = Entered /\ Classed' = Classed
    BY <2>1 DEF Entered, Classed
  <2>5. KnotTyped' /\ Unwalked' /\ Stacks' /\ Entries'
    BY <2>1, <2>3, <2>4 DEF KnotInv, KnotTyped, Unwalked, Stacks, Entries
  <2>6. Components' /\ Below' /\ Above' /\ Lows' /\ Floors'
    BY <2>1, <2>2, <2>3, <2>4 DEF KnotInv, Components, Below, Above, Lows, Floors
  <2> QED BY <2>5, <2>6 DEF KnotInv
<1> QED BY <1>1, <1>2

(* At the end of the walk everything is in a component. *)
LEMMA WalkedIsExact == ASSUME KnotInv PROVE KnotsAreExact
<1> SUFFICES ASSUME Walked
      PROVE  Knots = {{m \in Nodes : Leads(m, n) /\ Leads(n, m)} : n \in {k \in Nodes : Leads(k, k)}}
  BY DEF KnotsAreExact
<1> DEFINE Mutual(n) == {m \in Nodes : Leads(m, n) /\ Leads(n, m)}
<1>1. KnotTyped /\ \A s \in Nodes : ~ Stacked(s)
  BY DEF Walked, KnotInv, Above
<1>2. \A n \in Nodes : \E c \in found : n \in c
  BY <1>1 DEF Walked, KnotInv, Entries, Classed
<1>3. \A c \in found : c \subseteq Nodes /\ c # {} /\ \A m \in c : \A n \in Nodes : n \in c <=> (Reach(m, n) /\ Reach(n, m))
  BY <1>1 DEF KnotTyped, KnotInv, Components
<1>4. ASSUME NEW c \in found, NEW n \in c, Leads(n, n) PROVE c = Mutual(n)
  <2>1. ASSUME NEW m \in c PROVE Leads(m, n) /\ Leads(n, m)
    <3>1. m \in Nodes /\ n \in Nodes /\ Reach(m, n) /\ Reach(n, m)
      BY <1>3
    <3> QED BY <1>1, <1>4, <3>1, LeadsGoesOn
  <2>2. ASSUME NEW m \in Nodes, Leads(m, n), Leads(n, m) PROVE m \in c
    BY <1>1, <1>3, <2>2, LeadsIsReach
  <2> QED BY <1>3, <2>1, <2>2
<1>5. ASSUME NEW c \in Knots PROVE c \in found /\ \E n \in c : Leads(n, n)
  <2>1. c \in found /\ (Cardinality(c) > 1 \/ \E n \in c : \E e \in Leaving(n) : e.to = n)
    BY <1>5 DEF Knots
  <2>2. CASE \E n \in c : \E e \in Leaving(n) : e.to = n
    <3>1. PICK n \in c : \E e \in Leaving(n) : e.to = n
      BY <2>2
    <3>2. Reach(n, n)
      BY <1>3, <2>1, <3>1, ReachStays
    <3> QED BY <2>1, <3>1, <3>2 DEF Leads
  <2>3. CASE Cardinality(c) > 1
    <3>1. PICK n \in c : TRUE
      BY <1>3, <2>1
    <3>2. c # {n}
      <4>1. Cardinality({n}) = 1
        BY FS_Singleton
      <4> QED BY <2>3, <4>1
    <3>3. PICK m \in c : m # n
      BY <3>1, <3>2
    <3>4. m \in Nodes /\ n \in Nodes /\ Reach(m, n) /\ Reach(n, m)
      BY <1>3, <2>1, <3>1, <3>3
    <3>5. Leads(n, m)
      BY <1>1, <3>3, <3>4, LeadsIsReach
    <3>6. Leads(n, n)
      BY <1>1, <3>4, <3>5, LeadsGoesOn
    <3> QED BY <2>1, <3>6
  <2> QED BY <2>1, <2>2, <2>3
<1>6. ASSUME NEW c \in found, NEW n \in c, Leads(n, n) PROVE c \in Knots
  <2>1. PICK e \in Leaving(n) : Reach(e.to, n)
    BY <1>6 DEF Leads
  <2>2. n \in Nodes /\ e \in edges /\ e.from = n
    BY <1>3, <2>1 DEF Leaving
  <2>3. e.to \in Nodes /\ Reach(n, e.to)
    BY <1>1, <2>2, EdgeReaches
  <2>4. e.to \in c
    BY <1>3, <2>1, <2>2, <2>3
  <2>5. CASE e.to = n
    BY <2>1, <2>5 DEF Knots
  <2>6. CASE e.to # n
    <3>1. IsFiniteSet(c)
      BY <1>3, NodesAreRanks, FS_Subset
    <3>2. PICK d : d = {n, e.to}
      OBVIOUS
    <3>3. d \subseteq c /\ IsFiniteSet({n}) /\ e.to \notin {n} /\ d = {n} \cup {e.to}
      BY <2>4, <2>6, <3>2, FS_Singleton
    <3>4. Cardinality(d) = 2
      <4>1. Cardinality({n} \cup {e.to}) = Cardinality({n}) + 1
        BY <3>3, FS_AddElement
      <4>2. Cardinality({n}) = 1
        BY FS_Singleton
      <4> QED BY <3>3, <4>1, <4>2
    <3>5. Cardinality(d) <= Cardinality(c) /\ Cardinality(c) \in Nat
      BY <3>1, <3>3, FS_Subset, FS_CardinalityType
    <3>6. Cardinality(c) > 1
      BY <3>4, <3>5
    <3> QED BY <3>6 DEF Knots
  <2> QED BY <2>5, <2>6
<1>7. ASSUME NEW c \in Knots PROVE \E n \in {k \in Nodes : Leads(k, k)} : c = Mutual(n)
  <2>1. PICK n \in c : Leads(n, n)
    BY <1>5, <1>7
  <2>2. c \in found /\ n \in Nodes
    BY <1>3, <1>5, <1>7, <2>1
  <2> QED BY <1>4, <2>1, <2>2
<1>8. ASSUME NEW n \in Nodes, Leads(n, n) PROVE Mutual(n) \in Knots
  <2>1. PICK c \in found : n \in c
    BY <1>2
  <2> QED BY <1>4, <1>6, <1>8, <2>1
<1> QED BY <1>7, <1>8

(* Whatever the graph, and in whatever order its edges are walked, what    *)
(* Graph.cycles answers is every knot of nodes that reach each other, and  *)
(* no other set of them (Graph.ts:92): dependencyCycles refuses a boot     *)
(* when it must and only then.                                             *)
THEOREM KnotsAlwaysExact == KnotSpec => []KnotsAreExact
<1>1. GraphInit /\ KnotInit => KnotInv
  <2> SUFFICES ASSUME GraphInit, KnotInit PROVE KnotInv
    OBVIOUS
  <2>1. edges = {} /\ answering = "none" /\ stack = <<>> /\ path = <<>> /\ found = {} /\ Entered = {} /\ Classed = {}
    BY DEF GraphInit, KnotInit, Entered, Classed
  <2>2. DOMAIN stack = {} /\ DOMAIN path = {} /\ \A s : ~ Stacked(s)
    BY <2>1 DEF Stacked, ToSet
  <2>3. KnotTyped /\ Unwalked
    BY <2>1 DEF KnotInit, KnotTyped, Unwalked
  <2>4. Stacks /\ Entries /\ Components
    BY <2>1, <2>2 DEF Stacks, Entries, Components
  <2>5. Below /\ Above /\ Lows /\ Floors
    BY <2>2 DEF Below, Above, Lows, Floors
  <2> QED BY <2>3, <2>4, <2>5 DEF KnotInv
<1>2. KnotInv /\ [KnotNext]_<<graphVars, knotVars>> => KnotInv'
  BY KnotInvStays
<1>3. KnotInv => KnotsAreExact
  BY WalkedIsExact
<1> QED BY <1>1, <1>2, <1>3, PTL DEF KnotSpec
=============================================================================

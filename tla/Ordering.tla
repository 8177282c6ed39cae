------------------------------ MODULE Ordering ------------------------------
(***************************************************************************)
(* Graph.order(): each node after every node it points to, the first added *)
(* first among those ready.  One step places one node.  RankQueue.ts is a  *)
(* heap of ranks: what it answers is the lowest of those it holds.         *)
(***************************************************************************)
EXTENDS Multigraph, Sequences

VARIABLES
  waitingOn,  \* per node, how many edges it still waits on
  ready,      \* the ranks in the queue
  ordered     \* the nodes placed

orderVars == <<waitingOn, ready, ordered>>

OrderInit ==
  /\ waitingOn = [n \in Nodes |-> 0]
  /\ ready = {}
  /\ ordered = <<>>

Placed == {ordered[i] : i \in DOMAIN ordered}

(* Were a loop waited on. *)
AnyEdge(n) == Leaving(n)

(* What places a node against another: every edge but a loop. *)
OrderedBy(n) == {e \in Leaving(n) : ~Loop(e)}

Order ==
  /\ answering = "none" /\ answering' = "order"
  /\ waitingOn' = [n \in Nodes |-> Cardinality(OrderedBy(n))]
  /\ ready' = {n \in Nodes : OrderedBy(n) = {}}
  /\ ordered' = <<>>
  /\ UNCHANGED edges

(* One edge, or two under two labels, is one less each. *)
EdgesTo(m, n) == Cardinality({e \in Arriving(n) : e.from = m /\ ~Loop(e)})
Left(m, n) == waitingOn[m] - EdgesTo(m, n)

Places(n) ==
  /\ answering = "order"
  /\ n \in ready /\ \A m \in ready : n <= m
  /\ ordered' = Append(ordered, n)
  /\ waitingOn' = [m \in Nodes |-> Left(m, n)]
  /\ ready' = (ready \ {n}) \cup {m \in Nodes : EdgesTo(m, n) > 0 /\ Left(m, n) = 0}
  /\ UNCHANGED graphVars

OrderNext ==
  \/ \E e \in Edges : Connect(e) /\ UNCHANGED orderVars
  \/ Order
  \/ \E n \in Nodes : Places(n)

OrderSpec == GraphInit /\ OrderInit /\ [][OrderNext]_<<graphVars, orderVars>>

-----------------------------------------------------------------------------
(* "Each node after every node it points to", each once, and what no order *)
(* places is "a cycle and every node waiting on one" (Graph.ts:4 and       *)
(* 59-62): at the end each node that was not placed waits on another one   *)
(* that was not.                                                           *)
OrderIsSound ==
  answering = "order" =>
    /\ \A i \in DOMAIN ordered : \A e \in Leaving(ordered[i]) :
         e.to # e.from => \E j \in 1..(i - 1) : ordered[j] = e.to
    /\ \A i, j \in DOMAIN ordered : ordered[i] = ordered[j] => i = j
    /\ ready = {} => Placeable(Nodes \ Placed) = {}
=============================================================================

------------------------------- MODULE Knots -------------------------------
(***************************************************************************)
(* Graph.cycles(): the knots of nodes that reach each other, which is what *)
(* dependencyCycles refuses a boot for.  Tarjan's algorithm, with a stack  *)
(* of its own; one step follows one edge, or leaves one node.  The edges   *)
(* of a node are followed in the order they were connected in, which the   *)
(* set of them does not keep: any order is taken.                          *)
(***************************************************************************)
EXTENDS Multigraph, SequencesExt

VARIABLES
  index,   \* per node, when it was entered, or 0
  low,     \* per node, the earliest entry it is known to reach
  stack,   \* the nodes entered and in no component yet
  path,    \* the walk: per node on it, the edges it has not followed
  found    \* the components

knotVars == <<index, low, stack, path, found>>

KnotInit ==
  /\ index = [n \in Nodes |-> 0]
  /\ low = [n \in Nodes |-> 0]
  /\ stack = <<>> /\ path = <<>>
  /\ found = {}

Cycles == answering = "none" /\ answering' = "cycles" /\ UNCHANGED <<edges, knotVars>>

Entered == {n \in Nodes : index[n] # 0}
Top == Last(path)
Lowest(x, y) == IF x < y THEN x ELSE y

Enter(n, walked) ==
  /\ index' = [index EXCEPT ![n] = Cardinality(Entered) + 1]
  /\ low' = [low EXCEPT ![n] = Cardinality(Entered) + 1]
  /\ stack' = Append(stack, n)
  /\ path' = Append(walked, [node |-> n, left |-> Leaving(n)])
  /\ UNCHANGED <<graphVars, found>>

Roots(n) ==
  /\ answering = "cycles" /\ path = <<>>
  /\ n \notin Entered /\ \A m \in Nodes \ Entered : n <= m
  /\ Enter(n, path)

(* Were every node that was entered still open. *)
WasEntered(n) == n \in Entered

(* Whether an edge leads back to a node whose component is open. *)
Stacked(n) == n \in ToSet(stack)

Follows(e) ==
  /\ path # <<>> /\ e \in Top.left
  /\ LET walked == Front(path) \o <<[Top EXCEPT !.left = @ \ {e}]>>
     IN  IF e.to \notin Entered THEN Enter(e.to, walked)
         ELSE /\ path' = walked
              /\ low' = [low EXCEPT ![e.from] = IF Stacked(e.to) THEN Lowest(@, index[e.to]) ELSE @]
              /\ UNCHANGED <<graphVars, index, stack, found>>

(* Whatever is on the stack from n on is one component. *)
Since(n) == SubSeq(stack, SelectInSeq(stack, LAMBDA m : m = n), Len(stack))

Leaves(n) ==
  /\ path # <<>> /\ Top = [node |-> n, left |-> {}]
  /\ path' = Front(path)
  /\ low' = IF path' = <<>> THEN low
            ELSE [low EXCEPT ![Last(path').node] = Lowest(@, low[n])]
  /\ IF low[n] = index[n]
     THEN /\ found' = found \cup {ToSet(Since(n))}
          /\ stack' = SubSeq(stack, 1, Len(stack) - Len(Since(n)))
     ELSE UNCHANGED <<found, stack>>
  /\ UNCHANGED <<graphVars, index>>

KnotNext ==
  \/ \E e \in Edges : Connect(e) /\ UNCHANGED knotVars
  \/ Cycles
  \/ \E n \in Nodes : Roots(n) \/ Leaves(n)
  \/ \E e \in Edges : Follows(e)

KnotSpec == GraphInit /\ KnotInit /\ [][KnotNext]_<<graphVars, knotVars>>

(* What is answered: a component of several nodes, or of one that names    *)
(* itself.                                                                 *)
Knots ==
  {c \in found : Cardinality(c) > 1 \/ \E n \in c : \E e \in Leaving(n) : e.to = n}

-----------------------------------------------------------------------------
Walked == answering = "cycles" /\ path = <<>> /\ Entered = Nodes

(* Along the edges, from m to n: n is in every set of nodes that m is in   *)
(* and no edge leaves.  A cycle needs one edge at least.                   *)
Reach(m, n) ==
  \A S \in SUBSET Nodes : (m \in S /\ \A e \in edges : e.from \in S => e.to \in S) => n \in S
Leads(m, n) == \E e \in Leaving(m) : Reach(e.to, n)

(* "One closed path per knot of nodes that reach each other" (Graph.ts:    *)
(* 92): what the walk answers is, for any graph and whatever order its     *)
(* edges came in, the nodes on a cycle, grouped by who reaches whom and    *)
(* back; none is missed, and none that is not on a cycle is refused.       *)
KnotsAreExact ==
  Walked =>
    Knots = {{m \in Nodes : Leads(m, n) /\ Leads(n, m)} : n \in {k \in Nodes : Leads(k, k)}}
=============================================================================

----------------------------- MODULE Multigraph -----------------------------
(***************************************************************************)
(* The labelled directed multigraph of graph/src/Graph.ts, as its callers  *)
(* build it: relationGraph (an edge per `ref()`), orderSeeds (what a seed  *)
(* waits for), dependencyCycles (what a class asks for).  A node is the    *)
(* rank it was added with.                                                 *)
(***************************************************************************)
EXTENDS Naturals, FiniteSets

CONSTANTS
  Nodes,     \* the ranks of what was added
  Edges,     \* the edges a caller may connect: [from, to, label]
  MaxEdges   \* bound of the model

ASSUME NodesAreRanks == Nodes \subseteq Nat /\ IsFiniteSet(Nodes)
ASSUME EdgesJoinNodes ==
  IsFiniteSet(Edges) /\ \A e \in Edges : e.from \in Nodes /\ e.to \in Nodes

VARIABLES edges, answering   \* what is connected; the answer under way, or "none"

graphVars == <<edges, answering>>

GraphInit == edges = {} /\ answering = "none"

(* The same edge twice is one edge. *)
Connect(e) ==
  /\ answering = "none"
  /\ e \notin edges => Cardinality(edges) < MaxEdges
  /\ edges' = edges \cup {e}
  /\ UNCHANGED answering

Leaving(n) == {e \in edges : e.from = n}
Arriving(n) == {e \in edges : e.to = n}
Loop(e) == e.from = e.to

(* What is left and waits for nothing else that is left. *)
Placeable(left) == {n \in left : \A e \in Leaving(n) : e.to \notin left \ {n}}
=============================================================================

----------------------------- MODULE MCSeeding -----------------------------
(* Two processes of a split app: one has authors and the comments on posts,*)
(* the other the posts, which name authors.                                *)
EXTENDS Seeding, TLC

CONSTANTS web, blog

Edge(m, n) == [from |-> m, to |-> n, label |-> "a"]
MCEdges == {Edge(m, n) : m \in Nodes, n \in Nodes}
(* 1 is author, 2 is post, 3 is comment. *)
MCReferences == {{Edge(2, 1), Edge(3, 2)}}
MCHostings == {(web :> {1, 3}) @@ (blog :> {2})}
=============================================================================

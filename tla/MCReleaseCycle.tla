--------------------------- MODULE MCReleaseCycle ---------------------------
(* Two categories, each the parent of the other, in one process. *)
EXTENDS Release

CONSTANTS web, x, a, b, nobody

MCRows == {a, b}
MCEntity == [r \in MCRows |-> "category"]
MCFields == <<[of |-> "category", to |-> "category", rule |-> "cascade"]>>
MCNames == <<(a :> b) @@ (b :> a)>>
MCHosts == web :> {"category"}
MCPeers == web :> {}
MCNoJournal == web :> nobody
MCRequests == {<<x, web, a>>}
=============================================================================

------------------------------ MODULE MCOrphan ------------------------------
(* Posts of users in one process, which keeps a journal and is started     *)
(* again once; invoices that refuse the deletion of their post at a peer.  *)
EXTENDS Release

CONSTANTS web, blog, x, y, u, post, invoice, nobody, webRuns

MCRows == {u, post, invoice}
MCEntity == (u :> "user") @@ (post :> "post") @@ (invoice :> "invoice")
MCFields == <<[of |-> "post", to |-> "user", rule |-> "cascade"],
              [of |-> "invoice", to |-> "post", rule |-> "restrict"]>>
Naming1(r, s) == [q \in MCRows |-> IF q = r THEN s ELSE nobody]
MCNames == <<Naming1(post, u), Naming1(invoice, post)>>
MCDeclares == [p \in {web, blog} |-> {"user", "post", "invoice"}]
MCHosts == (web :> {"user", "post"}) @@ (blog :> {"invoice"})
MCPeers == (web :> {blog}) @@ (blog :> {})
MCJournals == (web :> webRuns) @@ (blog :> nobody)
MCRequests == {<<x, web, post>>, <<y, web, u>>}
=============================================================================

----------------------------- MODULE MCRelease -----------------------------
(***************************************************************************)
(* Two processes that hold each other's dependents: `web` has users,       *)
(* comments and badges, `blog` has posts and invoices.  A user's posts go  *)
(* with it, their comments with them, a badge forgets its user, and an     *)
(* invoice refuses.  web does not have the source of invoices.             *)
(*                                                                         *)
(* And a third, `solo`, that keeps a journal: deleting a team takes out its*)
(* member, a second call deletes the member meanwhile, and the process     *)
(* stops twice.                                                            *)
(*                                                                         *)
(* What else is read off the graph of relations, or of what classes ask    *)
(* for: an order, its knots, and the seeds of an ascent.                   *)
(*                                                                         *)
(* And what is kept for later: two calls and two beats, one that overtakes *)
(* itself or two processes that share the rows; a call throws once, a beat *)
(* stops once, a taker is slow once.                                       *)
(*                                                                         *)
(* The six share nothing here, so a run is about one of them, and they add *)
(* up, not multiply.                                                       *)
(***************************************************************************)
EXTENDS Workflow, Ordering, Knots, Seeding

CONSTANTS web, blog, solo, soloRuns, x, y, u, post, comment, badge, invoice, team, member, nobody
VARIABLE part

MCEntity == (u :> "user") @@ (post :> "post") @@ (comment :> "comment")
            @@ (badge :> "badge") @@ (invoice :> "invoice")
            @@ (team :> "team") @@ (member :> "member")
MCFields == <<[of |-> "post", to |-> "user", rule |-> "cascade"],
              [of |-> "badge", to |-> "user", rule |-> "set null"],
              [of |-> "comment", to |-> "post", rule |-> "cascade"],
              [of |-> "invoice", to |-> "post", rule |-> "restrict"],
              [of |-> "member", to |-> "team", rule |-> "cascade"]>>
Naming1(r, s) == [q \in DOMAIN MCEntity |-> IF q = r THEN s ELSE nobody]
MCNames == <<Naming1(post, u), Naming1(badge, u), Naming1(comment, post), Naming1(invoice, post),
             Naming1(member, team)>>
MCDeclares == (web :> {"user", "post", "comment", "badge"})
              @@ (blog :> {"user", "post", "comment", "invoice"}) @@ (solo :> {"team", "member"})
MCHosts == (web :> {"user", "comment", "badge"}) @@ (blog :> {"post", "invoice"})
           @@ (solo :> {"team", "member"})
MCPeers == (web :> {blog}) @@ (blog :> {web}) @@ (solo :> {})
MCJournals == (web :> nobody) @@ (blog :> nobody) @@ (solo :> soloRuns)

(* What OrphansComeFromBusyRuns is proved from. *)
ASSUME AllAsked == EveryChildIsAsked

MCRequests == {<<x, web, u>>, <<y, blog, post>>, <<y, blog, invoice>>, <<y, web, badge>>,
               <<x, solo, team>>, <<y, solo, member>>}

(* Calls are made of these processes only, and only they stop. *)
Among(ps) ==
  /\ \A id \in DOMAIN frames' : frames'[id].at \in ps
  /\ Procs \ ps \subseteq up'

(* Four nodes, every edge between them, and two that have a second label.  *)
Edge(m, n, l) == [from |-> m, to |-> n, label |-> l]
MCEdges ==
  {Edge(m, n, "a") : m \in Nodes, n \in Nodes} \cup {Edge(1, 2, "b"), Edge(2, 1, "b")}

(* Seeds declared against their order, one naming rows of its own, two in  *)
(* a circle with one behind them, and a diamond.                           *)
MCReferences ==
  {{Edge(1, 2, "a"), Edge(2, 3, "a"), Edge(4, 1, "a")},
   {Edge(1, 2, "a"), Edge(2, 2, "a"), Edge(3, 4, "a")},
   {Edge(1, 3, "a"), Edge(3, 1, "a"), Edge(2, 3, "a")},
   {Edge(1, 2, "a"), Edge(1, 3, "a"), Edge(2, 4, "a"), Edge(3, 4, "a")}}
MCHostings ==
  {(web :> Nodes) @@ (blog :> Nodes),
   (web :> {1, 4}) @@ (blog :> {2, 3}),
   (web :> Nodes) @@ (blog :> {2}),
   (web :> {1, 2, 3}) @@ (blog :> {4})}

partVars == <<part, vars, graphVars, orderVars, knotVars, seedVars, laterVars>>

PartInit ==
  /\ part \in {"release", "journal", "order", "cycles", "seeds", "later"}
  /\ WorkflowInit /\ OrderInit /\ KnotInit
  /\ IF part = "seeds"
     THEN SeedInit
     ELSE GraphInit /\ SeedInitIn("up") /\ hosting = CHOOSE h \in Hostings : TRUE

PartNext ==
  /\ UNCHANGED part
  /\ \/ /\ part = "release" /\ Next /\ Among({web, blog}) /\ faults'.crash <= 1
        /\ UNCHANGED <<graphVars, orderVars, knotVars, seedVars, laterVars>>
     \/ /\ part = "journal" /\ Next /\ Among({solo}) /\ faults'.call = 0
        /\ UNCHANGED <<graphVars, orderVars, knotVars, seedVars, laterVars>>
     \/ /\ part = "order" /\ OrderNext
        /\ UNCHANGED <<vars, knotVars, seedVars, laterVars>>
     \/ /\ part = "cycles" /\ KnotNext
        /\ UNCHANGED <<vars, orderVars, seedVars, laterVars>>
     \/ /\ part = "seeds" /\ SeedNext
        /\ UNCHANGED <<vars, orderVars, knotVars, laterVars>>
     \/ /\ part = "later" /\ LaterNext
        /\ UNCHANGED <<vars, graphVars, orderVars, knotVars, seedVars>>

(* What is fair is disabled in the parts that a run is not about. *)
PartSpec ==
  PartInit /\ [][PartNext]_partVars /\ Fairness /\ SeedFairness /\ LaterFairness
=============================================================================

------------------------------- MODULE MCHost -------------------------------
(* What goes on in a host: it turns to the next app, the one it leaves     *)
(* comes down, and callers meet at the rows of a Store.  The three share   *)
(* nothing here, so a run is about one of them, and they add up, not       *)
(* multiply.                                                               *)
(* Turns: four boots - the first, two reloads and a reconfiguration; two   *)
(* requests, which may keep the app they asked for across a turn; one      *)
(* deadline met or one disposal that throws.                               *)
(* Down: a root, a frond's scope and a frame's under it; two extensions, a *)
(* refusal; a connection in the root, a repository and a cache of the      *)
(* frond, the cache built on the repository and that on the connection,    *)
(* and a session of the frame's, built on the connection: two scopes up.   *)
(* Rows: two callers and two keys.                                         *)
EXTENDS Host

CONSTANTS t1, t2, none, connection, repository, cache, session, root, frond, frame
VARIABLE part

MCAbove == (frond :> root) @@ (frame :> frond)
MCHome == (connection :> root) @@ (repository :> frond) @@ (cache :> frond) @@ (session :> frame)
MCNeeds == (connection :> {}) @@ (repository :> {connection}) @@ (cache :> {repository}) @@ (session :> {connection})

MCCallers == {t1, t2}
MCKeys == {1, 2}

PartInit ==
  /\ part \in {"turns", "down", "rows"}
  /\ AppInit
  /\ part # "rows" => \A k \in Keys : rows[k] = NoRow

PartNext ==
  /\ UNCHANGED part
  /\ \/ part = "turns" /\ HostNext /\ UNCHANGED <<closingVars, storeVars>>
     \/ part = "down" /\ ClosingNext /\ UNCHANGED <<hostVars, storeVars>>
     \/ part = "rows" /\ StoreNext /\ UNCHANGED <<hostVars, closingVars>>

(* What is fair is disabled in the parts that a run is not about. *)
PartSpec ==
  PartInit /\ [][PartNext]_<<part, appVars>> /\ HostFairness /\ ClosingFairness /\ StoreFairness
=============================================================================

-------------------------------- MODULE Host --------------------------------
(* One host: it turns from app to app, the one it leaves comes down, and   *)
(* callers meet at the rows of a Store.  boot.ts, ascent.ts with the       *)
(* container, and Store.ts share no variable.                              *)
EXTENDS HostReload, Closing, RowStore

appVars == <<hostVars, closingVars, storeVars>>

AppInit == HostInit /\ ClosingInit /\ StoreInit

AppNext ==
  \/ HostNext /\ UNCHANGED <<closingVars, storeVars>>
  \/ ClosingNext /\ UNCHANGED <<hostVars, storeVars>>
  \/ StoreNext /\ UNCHANGED <<hostVars, closingVars>>

AppSpec ==
  AppInit /\ [][AppNext]_appVars /\ HostFairness /\ ClosingFairness /\ StoreFairness

(* What the variables of the three are, one type invariant for all.        *)
AppTypeOK == HostTypeOK /\ ClosingTypeOK /\ StoreTypeOK
=============================================================================

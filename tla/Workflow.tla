------------------------------ MODULE Workflow ------------------------------
(* What outlives the process that began it: releases, with the journal of  *)
(* runs they are swept from, and the calls kept for later.  Release.ts     *)
(* with WorkflowRun.ts, and Later.ts, share no variable here.              *)
EXTENDS Release, Later

workflowVars == <<vars, laterVars>>

WorkflowInit == Init /\ LaterInit

WorkflowNext ==
  \/ Next /\ UNCHANGED laterVars
  \/ LaterNext /\ UNCHANGED vars

WorkflowSpec == WorkflowInit /\ [][WorkflowNext]_workflowVars

(* What the variables of the two are, one type invariant for both.         *)
WorkflowTypeOK == TypeOK /\ LaterTypeOK
=============================================================================

------------------------------ MODULE MCFrames ------------------------------
(* What one process says and takes back: its compensated frames, then the  *)
(* facts it announces.  A run begins with one or with the other, so that   *)
(* they add up, not multiply: frames all refused open the second.          *)
EXTENDS MCTogether, MCFacts, FramesAndFacts

NoFrameRuns == \A f \in Frames : state[f] = "refused"

InFrames ==
  /\ TogetherStart
  /\ FactsStart /\ world = (CHOOSE w \in Worlds : TRUE)

Announcing ==
  /\ context = TRUE /\ kept = [k \in Rows |-> "seed"]
  /\ inside = [f \in Frames |-> NoFrame]
  /\ TogetherInitIn("refused")
  /\ FactsStart

ProcessStart == (InFrames \/ Announcing) /\ ProcessInit

FramesFirst ==
  \/ TogetherNext /\ UNCHANGED factsVars
  \/ NoFrameRuns /\ FactsNext /\ UNCHANGED togetherVars

FramesFirstSpec ==
  ProcessStart /\ [][FramesFirst]_processVars /\ TogetherFairness /\ FactsFairness

(* Whoever asks the process for something is answered: a frame that was    *)
(* opened, also inside another one, an announcement and a call.            *)
EveryoneGetsThrough == EveryFrameEnds /\ EveryAskerSettles
=============================================================================

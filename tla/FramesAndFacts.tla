--------------------------- MODULE FramesAndFacts ---------------------------
(* One process: it opens frames, and announces, calls and discovers beside *)
(* them.  together.ts keeps what a frame does and Emissions.ts and         *)
(* remote.ts what was said and asked; they share no variable.              *)
EXTENDS Together, Facts

processVars == <<togetherVars, factsVars>>

(* Frames not asked for yet, or all refused before this begins.            *)
FramesBegin == TogetherInit \/ TogetherInitIn("refused")
ProcessInit == FramesBegin /\ FactsInit

ProcessNext ==
  \/ TogetherNext /\ UNCHANGED factsVars
  \/ FactsNext /\ UNCHANGED togetherVars

ProcessSpec == ProcessInit /\ [][ProcessNext]_processVars

(* What the variables of the two are, one type invariant for both.         *)
ProcessTypeOK == TogetherTypeOK /\ FactsTypeOK
=============================================================================

------------------------------ MODULE MCFacts ------------------------------
(* Two remotes in four worlds: one whose code was read here, one whose     *)
(* card another one contradicts, one whose card cannot be walked, and a    *)
(* listener that announces what it heard.                                  *)
EXTENDS Facts, TLC

CONSTANTS l, a1, a2, s, F, G, c1, nothing

MCRemotes == {1, 2}
MCAddresses == {l, a1, a2, s}
AllHearF == [a \in MCAddresses |-> IF a = s THEN NoFact ELSE F]
Mute == [a \in MCAddresses |-> NoFact]
World(noted, serves, unread, hears, says) ==
  [here |-> {l}, noted |-> noted, serves |-> serves, unread |-> unread, hears |-> hears, says |-> says]

MCWorlds ==
  {World({l, a1}, <<{a1}, {a2}>>, {}, AllHearF, Mute),
   World({l}, <<{a1, s}, {a2, s}>>, {}, AllHearF, Mute),
   World({l}, <<{a1}, {a2}>>, {1}, AllHearF, Mute),
   World({l}, <<{a1}, {}>>, {}, AllHearF, [Mute EXCEPT ![l] = F])}

(* F is heard here and causes G, which is heard elsewhere and causes F. *)
RingWorlds ==
  {World({l}, <<{a1}, {}>>, {}, [Mute EXCEPT ![l] = F, ![a1] = G], [Mute EXCEPT ![l] = G, ![a1] = F])}

(* What is called is on the second remote, or on both. *)
FactsStart == FactsInit /\ (\A c \in Calls : sought[c] = IF world.serves[1] \cap world.serves[2] = {} THEN a2 ELSE s)
FactsSpec == FactsStart /\ [][FactsNext]_factsVars /\ FactsFairness
=============================================================================

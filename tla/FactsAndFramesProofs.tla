------------------------ MODULE FactsAndFramesProofs ------------------------
(***************************************************************************)
(* What leaves the process, and what a frame leaves behind.                *)
(*                                                                         *)
(* Facts.tla for any remotes, addresses, worlds and askers: what discovery *)
(* claims stands, what it notes is noted once unless two overlapped, and   *)
(* nobody is told that nothing serves an address, or that everyone         *)
(* answered, when it is not so.                                            *)
(*                                                                         *)
(* Together.tla for any frames, rows, gestures and faults: a frame that    *)
(* fell leaves no trace, none of its facts goes out, and its undos spare   *)
(* what others wrote.  The argument follows the inverses of one row: they  *)
(* are a chain from what the row holds to what it held first, which grows  *)
(* at its end while the frame is open, is turned round when its body       *)
(* throws, and is taken off its head by the unwind.                        *)
(***************************************************************************)
EXTENDS FramesAndFacts, SequenceTheorems, FiniteSetTheorems, WellFoundedInduction, TLAPS

(* The remotes whose card x indexes whole, and those of them that serve a. *)
Good(x) ==
  IF Refusable(x) = {} THEN reached[x] ELSE {r \in reached[x] : r < Min(Refusable(x))}
Serving(x, a) == {r \in Good(x) : a \in world.serves[r]}

(* What the variables are, as far as the argument needs it. *)
CardsTyped ==
  /\ world.serves \in [Remotes -> SUBSET Addresses]
  /\ pending \subseteq Remotes /\ dropped \subseteq Remotes
  /\ claim \in [Addresses -> Remotes \cup {Here}]
  /\ told \in [Addresses -> Nat]
  /\ left \in [Askers -> SUBSET Remotes]
  /\ reached \in [Askers -> SUBSET Remotes]

(* Who holds a remote's card, or waits for it. *)
Asking(x) == left[x] \cup reached[x]

(* A card that was taken off and not dropped is indexed; what is noted is  *)
(* claimed by a remote that is not pending any more.                       *)
Indexed ==
  \A r \in Remotes \ (pending \cup dropped) : \A a \in world.serves[r] :
    claim[a] # Here /\ (world.hears[a] # NoFact => told[a] >= 1)
NotedIsClaimed ==
  \A a \in Addresses : told[a] >= 1 =>
    claim[a] \in Remotes \ pending /\ a \in world.serves[claim[a]]

(* A remote asked by two, or asked and indexed meanwhile, is in `twice`.   *)
OverlapsSeen ==
  /\ \A x, y \in Askers : \A r \in Remotes :
       x # y /\ r \in Asking(x) /\ r \in Asking(y) => r \in twice
  /\ \A x \in Askers : \A r \in Asking(x) : r \in pending \cup twice

CardsInv == CardsTyped /\ Indexed /\ NotedIsClaimed /\ OverlapsSeen /\ NotedOnce

Stages == {"idle", "links", "asks", "asked", "settles"} \cup Over

SpokenTyped ==
  /\ stage \in [Askers -> Stages]
  /\ sought \in [Calls -> Addresses]
  /\ saying = [x \in Announcements |-> saying[x]]
  /\ \A x \in Announcements : saying[x].waiting => saying[x].fact \in FactNames
  /\ to \in [Announcements -> [Addresses -> Nat]]
  /\ heard \in [Announcements -> SUBSET Addresses]
  /\ missed \in [Announcements -> SUBSET Addresses]

(* Known only to remotes whose card was refused. *)
Excused(a) == a \notin world.noted /\ \A r \in Remotes : a \in world.serves[r] => r \in dropped

(* An announcement that waits has handed the fact to every listener.       *)
EachHandled ==
  \A x \in Announcements : stage[x] = "settles" /\ saying[x].waiting /\ saying[x].place = Here =>
    \A a \in Listening(saying[x].fact) :
      Excused(a) \/ to[x][a] > 0 \/ a \in heard[x] \/ a \in missed[x]

AnswersInv == SpokenTyped /\ EachHandled /\ EveryoneAnswered /\ NotFoundIsSo

(* The inductive invariant. *)
FactsInv == CardsInv /\ AnswersInv

-----------------------------------------------------------------------------
LEMMA MinIsLeast ==
  ASSUME NEW S \in SUBSET Nat, S # {}
  PROVE  Min(S) \in S /\ \A y \in S : Min(S) <= y
<1>1. \E m \in S : \A y \in S : ~(<<y, m>> \in OpToRel(<, Nat))
  BY NatLessThanWellFounded, WFMin
<1>2. \E m \in S : \A y \in S : m <= y
  <2>1. PICK m \in S : \A y \in S : ~(<<y, m>> \in OpToRel(<, Nat))
    BY <1>1
  <2>2. \A y \in S : ~(y < m)
    BY <2>1 DEF OpToRel
  <2> QED BY <2>2
<1> QED BY <1>2 DEF Min

LEMMA MaxOfOne == ASSUME NEW r \in Nat PROVE Max({r}) = r
BY DEF Max

(* A card indexed whole is one that nothing refuses. *)
LEMMA GoodIsNotRefused ==
  ASSUME CardsTyped, NEW x \in Askers, NEW r \in Good(x)
  PROVE  r \in reached[x] /\ r \in Remotes /\ r \in Nat \ {0} /\ Taken(x, r) = {}
<1>1. reached[x] \subseteq Remotes /\ reached[x] \subseteq Nat \ {0} /\ r \in reached[x]
  BY RemotesAreOrdered DEF CardsTyped, Good
<1>2. Refusable(x) \in SUBSET Nat /\ Refusable(x) \subseteq reached[x]
  BY <1>1 DEF Refusable
<1>3. r \notin Refusable(x)
  <2>1. CASE Refusable(x) = {}
    BY <2>1
  <2>2. CASE Refusable(x) # {}
    <3>1. r < Min(Refusable(x))
      BY <2>2 DEF Good
    <3>2. Min(Refusable(x)) \in Nat /\ \A y \in Refusable(x) : Min(Refusable(x)) <= y
      BY <1>2, <2>2, MinIsLeast
    <3> QED BY <1>1, <3>1, <3>2
  <2> QED BY <2>1, <2>2
<1> QED BY <1>1, <1>3 DEF Refusable

(* No two cards of one discover serve an address, nor does a claim of it   *)
(* belong to another.                                                      *)
LEMMA OneServes ==
  ASSUME CardsTyped, NEW x \in Askers, NEW a \in Addresses, NEW r \in Serving(x, a)
  PROVE  /\ Serving(x, a) = {r} /\ claim[a] \in {Here, r} /\ r \in reached[x]
         /\ r \in Remotes /\ r \in Nat \ {0} /\ a \in world.serves[r]
<1>1. \A q \in Serving(x, a) : /\ q \in reached[x] /\ q \in Remotes /\ q \in Nat \ {0}
                               /\ Taken(x, q) = {} /\ a \in world.serves[q]
  BY GoodIsNotRefused DEF Serving
<1>2. claim[a] \in {Here, r}
  BY <1>1 DEF Taken
<1>3. ASSUME NEW q \in Serving(x, a) PROVE q = r
  <2>1. ~(q < r) /\ ~(r < q)
    BY <1>1 DEF Taken
  <2> QED BY <1>1, <2>1
<1> QED BY <1>1, <1>2, <1>3

(* What a discover does to one address. *)
LEMMA IndexesClaims ==
  ASSUME CardsTyped, NEW x \in Askers, Indexes(x)
  PROVE  /\ claim' \in [Addresses -> Remotes \cup {Here}]
         /\ \A a \in Addresses : /\ claim[a] # Here => claim'[a] = claim[a]
                                /\ \A r \in Serving(x, a) : claim'[a] = r
<1> DEFINE clash == Min(Refusable(x))
           partly == IF Refusable(x) = {} \/ clash \in world.unread THEN {}
                     ELSE world.serves[clash] \ Taken(x, clash)
<1>1. PICK some \in SUBSET partly :
        claim' = [a \in Addresses |->
          IF Serving(x, a) # {} THEN Max(Serving(x, a)) ELSE IF a \in some THEN clash ELSE claim[a]]
  BY DEF Indexes, Serving, Good
<1>2. Refusable(x) # {} => clash \in Remotes /\ clash \in reached[x]
  <2>1. Refusable(x) \subseteq reached[x] /\ reached[x] \subseteq Remotes /\ Remotes \subseteq Nat
    BY RemotesAreOrdered DEF Refusable, CardsTyped
  <2> QED BY <2>1, MinIsLeast
<1>3. ASSUME NEW a \in Addresses
      PROVE  /\ claim'[a] \in Remotes \cup {Here}
             /\ claim[a] # Here => claim'[a] = claim[a]
             /\ \A r \in Serving(x, a) : claim'[a] = r
  <2>1. ASSUME NEW r \in Serving(x, a)
        PROVE  claim'[a] = r /\ r \in Remotes /\ claim[a] \in {Here, r}
    BY <1>1, <2>1, OneServes, MaxOfOne
  <2>2. CASE Serving(x, a) = {} /\ a \in some
    <3>1. Refusable(x) # {} /\ a \notin Taken(x, clash) /\ a \in world.serves[clash]
      BY <2>2
    <3>2. claim[a] \in {Here, clash}
      BY <3>1 DEF Taken
    <3>3. claim'[a] = clash
      BY <1>1, <2>2
    <3> QED BY <1>2, <2>2, <3>1, <3>2, <3>3
  <2>3. CASE Serving(x, a) = {} /\ a \notin some
    <3>1. claim'[a] = claim[a]
      BY <1>1, <2>3
    <3> QED BY <2>3, <3>1 DEF CardsTyped
  <2> QED BY <2>1, <2>2, <2>3
<1>4. claim' = [a \in Addresses |-> claim'[a]]
  BY <1>1
<1> QED BY <1>3, <1>4

(* Nothing but a discover moves a claim. *)
LEMMA OthersClaimNothing ==
  ASSUME [FactsNext]_factsVars, ~ \E x \in Askers : Indexes(x)
  PROVE  UNCHANGED <<world, cards>>
BY DEF FactsNext, AskerGoesOn, AnnouncementGoesOn, CardComes, NoCardComes, Routes, LinksFinish,
       Hands, Concludes, ListenerAnswers, ListenerRefuses, Settles, SeeksRoute, LinkRefuses,
       AnnouncesFact, AnnouncesOn, Starts, factsVars

-----------------------------------------------------------------------------
(* The cards, over every step. *)

LEMMA CardsAtFirst == FactsInit => CardsInv
BY WorldsAreWorlds DEF FactsInit, CardsInv, CardsTyped, Indexed, NotedIsClaimed, OverlapsSeen,
   NotedOnce, Asking

LEMMA CardComesSafe ==
  ASSUME CardsInv, NEW x \in Askers, NEW r \in Remotes, CardComes(x, r) \/ NoCardComes(x, r)
  PROVE  CardsInv'
<1> USE DEF CardsInv, CardsTyped
<1>1. UNCHANGED <<world, pending, claim, told, dropped, twice>>
  BY DEF CardComes, NoCardComes, cards, asking
<1>2. left' \in [Askers -> SUBSET Remotes] /\ reached' \in [Askers -> SUBSET Remotes]
  BY DEF CardComes, NoCardComes, asking
<1>3. \A y \in Askers : Asking(y)' \subseteq Asking(y)
  BY DEF CardComes, NoCardComes, Asking, asking
<1>4. OverlapsSeen'
  BY <1>1, <1>2, <1>3 DEF OverlapsSeen
<1> QED BY <1>1, <1>2, <1>4 DEF Indexed, NotedIsClaimed, NotedOnce

LEMMA DiscoversSafe ==
  ASSUME CardsInv, NEW x \in Askers, Discovers(x), UNCHANGED <<world, cards>>
  PROVE  CardsInv'
<1> USE DEF CardsInv, CardsTyped, cards
<1>1. left' \in [Askers -> SUBSET Remotes] /\ reached' \in [Askers -> SUBSET Remotes]
  BY DEF Discovers
<1>2. /\ Asking(x)' = pending /\ \A y \in Askers \ {x} : Asking(y)' = Asking(y)
      /\ twice' = twice \cup {r \in pending : \E y \in Askers : r \in Asking(y)}
  BY DEF Discovers, Asking
<1>3. OverlapsSeen'
  BY <1>1, <1>2 DEF OverlapsSeen
<1>4. NotedOnce'
  BY <1>2 DEF NotedOnce
<1> QED BY <1>1, <1>3, <1>4 DEF Indexed, NotedIsClaimed

LEMMA IndexesSafe ==
  ASSUME CardsInv, NEW x \in Askers, Indexes(x)
  PROVE  CardsInv'
<1> DEFINE bad == Refusable(x)
           off == Good(x) \cup (IF bad = {} THEN {} ELSE {Min(bad)})
<1>1. /\ UNCHANGED <<world, left, twice>> /\ left[x] = {}
      /\ pending' = pending \ off /\ reached' = [reached EXCEPT ![x] = {}]
      /\ dropped' = IF bad = {} THEN dropped ELSE dropped \cup {Min(bad)}
  BY DEF Indexes, StillPending, AllSettled, Good
<1>2. told' = [a \in Addresses |->
        IF world.hears[a] = NoFact THEN 0 ELSE told[a] + Cardinality(Serving(x, a))]
  BY DEF Indexes, Serving, Good
<1>3. bad # {} => Min(bad) \in Remotes /\ Min(bad) \in reached[x]
  <2>1. bad \subseteq reached[x] /\ reached[x] \subseteq Remotes /\ Remotes \subseteq Nat
    BY RemotesAreOrdered DEF Refusable, CardsInv, CardsTyped
  <2> QED BY <2>1, MinIsLeast
<1>4. CardsTyped /\ Good(x) \subseteq reached[x]
  BY DEF CardsInv, Good
<1>5. \A a \in Addresses :
        /\ Serving(x, a) = {} => Cardinality(Serving(x, a)) = 0
        /\ \A r \in Serving(x, a) : Cardinality(Serving(x, a)) = 1 /\ claim[a] \in {Here, r}
                                    /\ r \in reached[x] /\ r \in Remotes /\ a \in world.serves[r]
  <2>1. ASSUME NEW a \in Addresses, NEW r \in Serving(x, a) PROVE Cardinality(Serving(x, a)) = 1
    <3>1. Serving(x, a) = {r}
      BY <1>4, OneServes
    <3> QED BY <3>1, FS_Singleton
  <2> QED BY <1>4, <2>1, OneServes, FS_EmptySet
<1>6. /\ claim' \in [Addresses -> Remotes \cup {Here}]
      /\ \A a \in Addresses : /\ claim[a] # Here => claim'[a] = claim[a]
                             /\ \A r \in Serving(x, a) : claim'[a] = r
  BY <1>4, IndexesClaims
<1>7. told' \in [Addresses -> Nat]
  <2>1. \A a \in Addresses : Cardinality(Serving(x, a)) \in Nat
    BY <1>5
  <2> QED BY <1>2, <1>4, <2>1 DEF CardsTyped
<1>8. CardsTyped'
  BY <1>1, <1>3, <1>4, <1>6, <1>7 DEF CardsTyped
<1>9. Indexed'
  <2> SUFFICES ASSUME NEW r \in Remotes \ (pending' \cup dropped'), NEW a \in world.serves[r]
               PROVE  claim'[a] # Here /\ (world.hears[a] # NoFact => told'[a] >= 1)
    BY <1>1 DEF Indexed
  <2>1. a \in Addresses
    BY <1>4 DEF CardsTyped
  <2>2. CASE r \in Good(x)
    <3>1. r \in Serving(x, a)
      BY <2>2 DEF Serving
    <3> QED BY <1>2, <1>4, <1>5, <1>6, <2>1, <3>1, RemotesAreOrdered DEF CardsTyped, Here
  <2>3. CASE r \notin Good(x)
    <3>1. r \notin pending \cup dropped
      BY <1>1, <2>3
    <3>2. claim[a] # Here /\ (world.hears[a] # NoFact => told[a] >= 1)
      BY <3>1 DEF CardsInv, Indexed
    <3>3. Cardinality(Serving(x, a)) \in Nat
      BY <1>5, <2>1
    <3> QED BY <1>2, <1>4, <1>6, <2>1, <3>2, <3>3 DEF CardsTyped
  <2> QED BY <2>2, <2>3
<1>10. NotedIsClaimed'
  <2> SUFFICES ASSUME NEW a \in Addresses, told'[a] >= 1
               PROVE  claim'[a] \in Remotes \ pending' /\ a \in world.serves[claim'[a]]
    BY <1>1 DEF NotedIsClaimed
  <2>1. CASE Serving(x, a) = {}
    <3>1. told[a] >= 1
      BY <1>2, <1>4, <1>5, <2>1 DEF CardsTyped
    <3>2. claim[a] \in Remotes \ pending /\ a \in world.serves[claim[a]]
      BY <3>1 DEF CardsInv, NotedIsClaimed
    <3>3. claim'[a] = claim[a]
      BY <1>6, <3>2, RemotesAreOrdered DEF Here
    <3> QED BY <1>1, <3>2, <3>3
  <2>2. ASSUME NEW r \in Serving(x, a) PROVE claim'[a] \in Remotes \ pending' /\ a \in world.serves[claim'[a]]
    BY <1>1, <1>5, <1>6 DEF Serving
  <2> QED BY <2>1, <2>2
<1>11. OverlapsSeen'
  <2>1. Asking(x)' = {} /\ \A y \in Askers \ {x} : Asking(y)' = Asking(y)
    BY <1>1, <1>4 DEF Asking, CardsTyped
  <2>2. off \subseteq Asking(x)
    BY <1>3, <1>4 DEF Asking
  <2>3. \A y, z \in Askers : \A r \in Remotes :
          y # z /\ r \in Asking(y)' /\ r \in Asking(z)' => r \in twice'
    BY <1>1, <2>1 DEF CardsInv, OverlapsSeen
  <2>4. ASSUME NEW y \in Askers, NEW r \in Asking(y)' PROVE r \in pending' \cup twice'
    <3>1. y # x /\ r \in Asking(y) /\ r \in Remotes
      BY <1>4, <2>1, <2>4 DEF Asking, CardsTyped
    <3>2. CASE r \in off
      BY <1>1, <2>2, <3>1, <3>2 DEF CardsInv, OverlapsSeen
    <3>3. CASE r \notin off
      BY <1>1, <3>1, <3>3 DEF CardsInv, OverlapsSeen
    <3> QED BY <3>2, <3>3
  <2> QED BY <2>3, <2>4 DEF OverlapsSeen
<1>12. NotedOnce'
  <2> SUFFICES ASSUME NEW a \in Addresses, told'[a] > 1 PROVE \E r \in twice : a \in world.serves[r]
    BY <1>1 DEF NotedOnce
  <2>1. CASE Serving(x, a) = {}
    <3>1. told[a] > 1
      BY <1>2, <1>4, <1>5, <2>1 DEF CardsTyped
    <3> QED BY <3>1 DEF CardsInv, NotedOnce
  <2>2. ASSUME NEW r \in Serving(x, a) PROVE r \in twice /\ a \in world.serves[r]
    <3>1. told[a] >= 1
      BY <1>2, <1>4, <1>5 DEF CardsTyped
    <3>2. claim[a] = r /\ r \notin pending
      BY <1>5, <3>1, RemotesAreOrdered DEF CardsInv, NotedIsClaimed, Here
    <3>3. r \in Asking(x) /\ a \in world.serves[r]
      BY <1>5 DEF Asking
    <3> QED BY <3>2, <3>3 DEF CardsInv, OverlapsSeen
  <2> QED BY <2>1, <2>2
<1> QED BY <1>8, <1>9, <1>10, <1>11, <1>12 DEF CardsInv

-----------------------------------------------------------------------------
(* The answers, over every step. *)

(* A step that brings nobody to an end, nor to the listeners. *)
LEMMA AnswersKept ==
  ASSUME AnswersInv, SpokenTyped', UNCHANGED <<world, sought>>, dropped \subseteq dropped',
         \A x \in Announcements :
           /\ stage'[x] \in {"settles", "answered"} => stage'[x] = stage[x] /\ saying'[x] = saying[x]
           /\ to'[x] = to[x] /\ heard'[x] = heard[x] /\ missed'[x] = missed[x],
         \A c \in Calls : stage'[c] = "not found" => stage[c] = "not found"
  PROVE  AnswersInv'
<1> USE DEF AnswersInv, Listening
<1>1. \A a \in Addresses : Excused(a) => Excused(a)'
  BY DEF Excused
<1>2. EachHandled'
  BY <1>1 DEF EachHandled
<1>3. EveryoneAnswered'
  BY DEF EveryoneAnswered
<1>4. NotFoundIsSo'
  BY DEF NotFoundIsSo
<1> QED BY <1>2, <1>3, <1>4

LEMMA GoesTyped ==
  ASSUME SpokenTyped, NEW x \in Askers, NEW s \in Stages, Goes(x, s)
  PROVE  /\ stage' \in [Askers -> Stages] /\ stage'[x] = s
         /\ \A y \in Askers \ {x} : stage'[y] = stage[y]
BY DEF SpokenTyped, Goes

(* Discovery, and the beginnings. *)
LEMMA UnderWaySafe ==
  ASSUME AnswersInv, NEW x \in Askers, UNCHANGED <<world, sought, to, heard, missed>>,
         dropped \subseteq dropped', saying' = [y \in Announcements |-> saying'[y]],
         \A y \in Announcements : saying'[y].waiting => saying'[y].fact \in FactNames,
         \A y \in Announcements : y # x \/ stage[x] # "idle" => saying'[y] = saying[y],
         NEW s \in Stages \ {"settles", "answered", "not found"},
         Goes(x, s) \/ UNCHANGED <<stage, saying>>
  PROVE  AnswersInv'
<1>1. SpokenTyped
  BY DEF AnswersInv
<1>2. CASE Goes(x, s)
  <2>1. /\ stage' \in [Askers -> Stages] /\ stage'[x] = s
        /\ \A y \in Askers \ {x} : stage'[y] = stage[y]
    BY <1>1, <1>2, GoesTyped
  <2>2. SpokenTyped'
    BY <1>1, <2>1 DEF SpokenTyped
  <2>3. \A y \in Announcements : y \in Askers
    BY DEF Askers
  <2>4. \A c \in Calls : c \in Askers
    BY DEF Askers
  <2> QED BY <2>1, <2>2, <2>3, <2>4, AnswersKept
<1>3. CASE UNCHANGED <<stage, saying>>
  BY <1>1, <1>3, AnswersKept DEF SpokenTyped
<1> QED BY <1>2, <1>3

LEMMA RoutesSafe ==
  ASSUME CardsInv, AnswersInv, NEW c \in Calls, Routes(c)
  PROVE  AnswersInv'
<1> DEFINE s == IF claim[sought[c]] # Here THEN "served"
                ELSE IF pending # {} THEN "unavailable" ELSE "not found"
<1>1. SpokenTyped /\ c \in Askers /\ s \in Stages
  BY DEF AnswersInv, Askers, Stages, Over
<1>2. Goes(c, s) /\ UNCHANGED <<world, cards, sought, spoken>>
  BY DEF Routes
<1> HIDE DEF s
<1>3. /\ stage' \in [Askers -> Stages] /\ stage'[c] = s
      /\ \A y \in Askers \ {c} : stage'[y] = stage[y]
  BY <1>1, <1>2, GoesTyped
<1>4. s \notin {"settles", "answered"}
  BY DEF s
<1>5. SpokenTyped'
  BY <1>1, <1>2, <1>3 DEF SpokenTyped, spoken
<1>6. EachHandled' /\ EveryoneAnswered'
  BY <1>2, <1>3, <1>4 DEF AnswersInv, EachHandled, EveryoneAnswered, Excused, Listening, Askers, cards, spoken
<1>7. s = "not found" => \A r \in Remotes : sought[c] \in world.serves[r] => r \in dropped
  <2> SUFFICES ASSUME s = "not found", NEW r \in Remotes, sought[c] \in world.serves[r], r \notin dropped
               PROVE  FALSE
    OBVIOUS
  <2>1. claim[sought[c]] = Here /\ pending = {}
    BY DEF s
  <2> QED BY <2>1 DEF CardsInv, Indexed
<1>8. NotFoundIsSo'
  BY <1>2, <1>3, <1>7 DEF AnswersInv, NotFoundIsSo, Askers, cards
<1> QED BY <1>5, <1>6, <1>8 DEF AnswersInv

LEMMA HandsSafe ==
  ASSUME CardsInv, AnswersInv, NEW x \in Announcements, Hands(x)
  PROVE  AnswersInv'
<1> DEFINE refused == Unasked(x) # {} \/ saying[x].fact \in saying[x].chain
           times(a) == IF saying[x].place = Here THEN Noted(a) ELSE 1
           s == IF refused THEN "refused" ELSE "settles"
<1>1. SpokenTyped /\ CardsTyped /\ x \in Askers /\ s \in Stages \ {"answered", "not found"}
  BY DEF AnswersInv, CardsInv, Askers, Stages, Over
<1>2. Goes(x, s) /\ UNCHANGED <<world, cards, sought, saying, heard, missed>>
  BY DEF Hands
<1>3. to' = IF refused THEN to
            ELSE [to EXCEPT ![x] = [a \in Addresses |-> IF a \in Listening(saying[x].fact) THEN times(a) ELSE 0]]
  BY DEF Hands
<1>4. /\ stage' \in [Askers -> Stages] /\ stage'[x] = s
      /\ \A y \in Askers \ {x} : stage'[y] = stage[y]
  BY <1>1, <1>2, GoesTyped
<1>5. \A a \in Addresses : times(a) \in Nat
  BY <1>1 DEF CardsTyped, Noted
<1>6. to' \in [Announcements -> [Addresses -> Nat]] /\ \A y \in Announcements \ {x} : to'[y] = to[y]
  <2> HIDE DEF refused, times
  <2>1. [a \in Addresses |-> IF a \in Listening(saying[x].fact) THEN times(a) ELSE 0] \in [Addresses -> Nat]
    BY <1>5
  <2> QED BY <1>1, <1>3, <2>1 DEF SpokenTyped
<1>7. SpokenTyped'
  BY <1>1, <1>2, <1>4, <1>6 DEF SpokenTyped
<1>8. \A y \in Announcements : y \in Askers
  BY DEF Askers
<1>9. ASSUME ~refused, saying[x].waiting, saying[x].place = Here, NEW a \in Listening(saying[x].fact)
      PROVE  Excused(a) \/ to'[x][a] > 0
  <2>1. pending = {}
    BY <1>9 DEF Unasked
  <2>2. a \in Addresses /\ world.hears[a] # NoFact
    BY <1>1, <1>9, NoFactIsNone DEF Listening, SpokenTyped
  <2>3. to'[x][a] = Noted(a)
    <3> HIDE DEF refused
    <3> QED BY <1>1, <1>3, <1>9, <2>2 DEF SpokenTyped
  <2>4. ASSUME ~Excused(a) PROVE Noted(a) > 0
    <3>1. CASE a \in world.noted
      BY <3>1 DEF Noted
    <3>2. CASE a \notin world.noted
      <4>1. PICK r \in Remotes : a \in world.serves[r] /\ r \notin dropped
        BY <2>4, <3>2 DEF Excused
      <4>2. told[a] >= 1
        BY <2>1, <2>2, <4>1 DEF CardsInv, Indexed
      <4> QED BY <1>1, <2>2, <3>2, <4>2 DEF Noted, CardsTyped
    <3> QED BY <3>1, <3>2
  <2> QED BY <2>3, <2>4
<1>10. \A a \in Addresses : Excused(a)' = Excused(a)
  BY <1>2 DEF Excused, cards
<1>11. EachHandled'
  <2> SUFFICES ASSUME NEW y \in Announcements, stage'[y] = "settles", saying[y].waiting, saying[y].place = Here,
                      NEW a \in Listening(saying[y].fact)
               PROVE  Excused(a)' \/ to'[y][a] > 0 \/ a \in heard'[y] \/ a \in missed'[y]
    BY <1>2 DEF EachHandled, Listening
  <2>1. a \in Addresses
    BY DEF Listening
  <2>2. CASE y = x
    <3>1. ~refused
      BY <1>4, <2>2
    <3> QED BY <1>9, <1>10, <2>1, <2>2, <3>1
  <2>3. CASE y # x
    <3>1. stage[y] = "settles" /\ to'[y] = to[y]
      BY <1>4, <1>6, <1>8, <2>3
    <3> QED BY <1>2, <1>10, <2>1, <3>1 DEF AnswersInv, EachHandled
  <2> QED BY <2>2, <2>3
<1>12. \A y \in Askers : stage'[y] \in {"answered", "not found"} => stage[y] = stage'[y]
  BY <1>1, <1>4
<1> HIDE DEF refused, s, times
<1>13. EveryoneAnswered' /\ NotFoundIsSo'
  BY <1>2, <1>8, <1>12 DEF AnswersInv, EveryoneAnswered, NotFoundIsSo, Listening, Askers, cards
<1> QED BY <1>7, <1>11, <1>13 DEF AnswersInv

LEMMA ListenerSettles ==
  ASSUME AnswersInv, NEW x \in Announcements, NEW a \in Addresses,
         ListenerAnswers(x, a) \/ ListenerRefuses(x, a)
  PROVE  AnswersInv'
<1>1. /\ to[x][a] > 0 /\ to' = [to EXCEPT ![x][a] = @ - 1]
      /\ UNCHANGED <<world, cards, stage, sought, saying>>
  BY DEF ListenerAnswers, ListenerRefuses, Settles
<1>2. SpokenTyped
  BY DEF AnswersInv
<1>3. /\ to' \in [Announcements -> [Addresses -> Nat]]
      /\ \A y \in Announcements, b \in Addresses : y # x \/ b # a => to'[y][b] = to[y][b]
  BY <1>1, <1>2 DEF SpokenTyped
<1>4. /\ heard' \in [Announcements -> SUBSET Addresses] /\ missed' \in [Announcements -> SUBSET Addresses]
      /\ \A y \in Announcements : heard[y] \subseteq heard'[y] /\ missed[y] \subseteq missed'[y]
      /\ a \in heard'[x] \cup missed'[x]
  <2>1. \/ heard' = [heard EXCEPT ![x] = @ \cup {a}] /\ missed' = missed
        \/ missed' = [missed EXCEPT ![x] = @ \cup {a}] /\ heard' = heard
    BY DEF ListenerAnswers, ListenerRefuses
  <2>2. heard \in [Announcements -> SUBSET Addresses] /\ missed \in [Announcements -> SUBSET Addresses]
    BY <1>2 DEF SpokenTyped
  <2>3. CASE heard' = [heard EXCEPT ![x] = @ \cup {a}] /\ missed' = missed
    <3>1. heard' \in [Announcements -> SUBSET Addresses]
      BY <2>2, <2>3
    <3> QED BY <2>2, <2>3, <3>1
  <2>4. CASE missed' = [missed EXCEPT ![x] = @ \cup {a}] /\ heard' = heard
    <3>1. missed' \in [Announcements -> SUBSET Addresses]
      BY <2>2, <2>4
    <3> QED BY <2>2, <2>4, <3>1
  <2> QED BY <2>1, <2>3, <2>4
<1>5. SpokenTyped'
  BY <1>1, <1>2, <1>3, <1>4 DEF SpokenTyped
<1>6. EachHandled'
  BY <1>1, <1>3, <1>4 DEF AnswersInv, EachHandled, Listening, Excused, cards
<1>7. EveryoneAnswered' /\ NotFoundIsSo'
  BY <1>1, <1>4 DEF AnswersInv, EveryoneAnswered, NotFoundIsSo, Listening, cards
<1> QED BY <1>5, <1>6, <1>7 DEF AnswersInv

LEMMA ConcludesSafe ==
  ASSUME AnswersInv, NEW x \in Announcements, Concludes(x)
  PROVE  AnswersInv'
<1> DEFINE s == IF saying[x].waiting /\ missed[x] # {} THEN "refused" ELSE "answered"
<1>1. SpokenTyped /\ x \in Askers /\ s \in Stages
  BY DEF AnswersInv, Askers, Stages, Over
<1>2. /\ Goes(x, s) /\ UNCHANGED <<world, cards, sought, saying, to, heard, missed>>
      /\ stage[x] = "settles" /\ \A a \in Addresses : to[x][a] = 0
  BY DEF Concludes, spoken
<1>3. /\ stage' \in [Askers -> Stages] /\ stage'[x] = s
      /\ \A y \in Askers \ {x} : stage'[y] = stage[y]
  BY <1>1, <1>2, GoesTyped
<1>4. SpokenTyped'
  BY <1>1, <1>2, <1>3 DEF SpokenTyped
<1>5. \A y \in Announcements : y \in Askers
  BY DEF Askers
<1>6. EachHandled' /\ NotFoundIsSo'
  <2>1. s \notin {"settles", "not found"}
    OBVIOUS
  <2> HIDE DEF s
  <2> QED BY <1>2, <1>3, <1>5, <2>1 DEF AnswersInv, EachHandled, NotFoundIsSo, Listening, Excused, Askers, cards
<1>7. ASSUME s = "answered", saying[x].waiting, saying[x].place = Here, NEW a \in Listening(saying[x].fact)
      PROVE  a \in heard[x] \/ Excused(a)
  <2>1. missed[x] = {} /\ to[x][a] = 0
    BY <1>2, <1>7 DEF Listening
  <2> QED BY <1>2, <1>7, <2>1 DEF AnswersInv, EachHandled
<1> HIDE DEF s
<1>8. EveryoneAnswered'
  <2> SUFFICES ASSUME NEW y \in Announcements, stage'[y] = "answered", saying[y].waiting, saying[y].place = Here,
                      NEW a \in Listening(saying[y].fact)
               PROVE  a \in heard[y] \/ (a \notin world.noted /\ \A r \in Remotes : a \in world.serves[r] => r \in dropped)
    BY <1>2 DEF EveryoneAnswered, Listening, cards
  <2>1. CASE y = x
    BY <1>3, <1>7, <2>1 DEF Excused
  <2>2. CASE y # x
    BY <1>3, <1>5, <2>2 DEF AnswersInv, EveryoneAnswered
  <2> QED BY <2>1, <2>2
<1> QED BY <1>4, <1>6, <1>8 DEF AnswersInv

-----------------------------------------------------------------------------
LEMMA FactsInvInit == FactsInit => FactsInv
<1> SUFFICES ASSUME FactsInit PROVE FactsInv
  OBVIOUS
<1>1. AnswersInv
  BY DEF FactsInit, AnswersInv, SpokenTyped, EachHandled, EveryoneAnswered, NotFoundIsSo, Nothing,
         Stages, Askers
<1> QED BY <1>1, CardsAtFirst DEF FactsInv

(* A listener's, or this process's own, announcement begins. *)
LEMMA StartsSafe ==
  ASSUME FactsInv, NEW x \in Announcements, NEW what, Starts(x, what),
         what.waiting => what.fact \in FactNames
  PROVE  FactsInv'
<1>1. x \in Askers /\ "links" \in Stages
  BY DEF Askers, Stages
<1>2. /\ Goes(x, "links") /\ stage[x] = "idle" /\ saying' = [saying EXCEPT ![x] = what]
      /\ UNCHANGED <<world, cards, asking, sought, to, heard, missed>>
  BY DEF Starts
<1>3. SpokenTyped
  BY DEF FactsInv, AnswersInv
<1>4. /\ saying' = [y \in Announcements |-> saying'[y]] /\ saying'[x] = what
      /\ \A y \in Announcements \ {x} : saying'[y] = saying[y]
  BY <1>2, <1>3 DEF SpokenTyped
<1>5. AnswersInv'
  BY <1>1, <1>2, <1>3, <1>4, UnderWaySafe DEF FactsInv, cards, SpokenTyped
<1>6. CardsInv'
  BY <1>2 DEF FactsInv, CardsInv, CardsTyped, Indexed, NotedIsClaimed, OverlapsSeen, NotedOnce,
              Asking, cards, asking
<1> QED BY <1>5, <1>6 DEF FactsInv

(* Nothing of the cards moves. *)
LEMMA CardsStay ==
  ASSUME CardsInv, UNCHANGED <<world, cards, asking>>
  PROVE  CardsInv'
BY DEF CardsInv, CardsTyped, Indexed, NotedIsClaimed, OverlapsSeen, NotedOnce, Asking, cards, asking

LEMMA AskersSafe ==
  ASSUME FactsInv, NEW x \in Askers, AskerGoesOn(x)
  PROVE  FactsInv'
<1>1. CardsInv /\ AnswersInv /\ SpokenTyped
  BY DEF FactsInv, AnswersInv
<1>2. {"asked", "refused", "asks"} \subseteq Stages \ {"settles", "answered", "not found"}
  BY DEF Stages, Over
<1>3. CASE \E r \in Remotes : CardComes(x, r) \/ NoCardComes(x, r)
  <2>1. CardsInv'
    BY <1>1, <1>3, CardComesSafe
  <2>2. UNCHANGED <<world, cards, stage, sought, saying, to, heard, missed>>
    BY <1>3 DEF CardComes, NoCardComes, spoken
  <2>3. AnswersInv'
    BY <1>1, <1>2, <2>2, UnderWaySafe DEF cards, SpokenTyped
  <2> QED BY <2>1, <2>3 DEF FactsInv
<1>4. CASE Indexes(x)
  <2>1. CardsInv'
    BY <1>1, <1>4, IndexesSafe
  <2>2. /\ UNCHANGED <<world, sought, saying, to, heard, missed>> /\ dropped \subseteq dropped'
        /\ Goes(x, "asked") \/ Goes(x, "refused")
    BY <1>4 DEF Indexes, spoken
  <2>3. AnswersInv'
    BY <1>1, <1>2, <2>2, UnderWaySafe DEF SpokenTyped
  <2> QED BY <2>1, <2>3 DEF FactsInv
<1>5. CASE x \in Calls /\ Routes(x)
  <2>1. UNCHANGED <<world, cards, asking>>
    BY <1>5 DEF Routes
  <2> QED BY <1>1, <1>5, <2>1, CardsStay, RoutesSafe DEF FactsInv
<1>6. CASE x \in Announcements /\ LinksFinish(x)
  <2>1. UNCHANGED <<world, cards, sought, saying, to, heard, missed>>
    BY <1>6 DEF LinksFinish, spoken
  <2>2. \/ Goes(x, "asks") /\ Discovers(x)
        \/ Goes(x, "asked") /\ UNCHANGED asking
    BY <1>6 DEF LinksFinish, Discovers, Skips
  <2>3. CardsInv'
    BY <1>1, <2>1, <2>2, DiscoversSafe, CardsStay
  <2>4. AnswersInv'
    BY <1>1, <1>2, <2>1, <2>2, UnderWaySafe DEF cards, SpokenTyped
  <2> QED BY <2>3, <2>4 DEF FactsInv
<1>7. CASE x \in Announcements /\ Hands(x)
  <2>1. UNCHANGED <<world, cards, asking>>
    BY <1>7 DEF Hands
  <2> QED BY <1>1, <1>7, <2>1, CardsStay, HandsSafe DEF FactsInv
<1>8. CASE x \in Announcements /\ Concludes(x)
  <2>1. UNCHANGED <<world, cards, asking>>
    BY <1>8 DEF Concludes
  <2> QED BY <1>1, <1>8, <2>1, CardsStay, ConcludesSafe DEF FactsInv
<1>9. CASE x \in Announcements /\ \E a \in Addresses : ListenerAnswers(x, a) \/ ListenerRefuses(x, a)
  <2>1. UNCHANGED <<world, cards, asking>>
    BY <1>9 DEF ListenerAnswers, ListenerRefuses, Settles
  <2> QED BY <1>1, <1>9, <2>1, CardsStay, ListenerSettles DEF FactsInv
<1> QED BY <1>3, <1>4, <1>5, <1>6, <1>7, <1>8, <1>9 DEF AskerGoesOn, AnnouncementGoesOn

LEMMA FactsInvStep == FactsInv /\ [FactsNext]_factsVars => FactsInv'
<1> SUFFICES ASSUME FactsInv, [FactsNext]_factsVars PROVE FactsInv'
  OBVIOUS
<1>1. CardsInv /\ AnswersInv /\ SpokenTyped
  BY DEF FactsInv, AnswersInv
<1>2. {"asked", "refused", "asks"} \subseteq Stages \ {"settles", "answered", "not found"}
  BY DEF Stages, Over
<1>3. ASSUME NEW c \in Calls, SeeksRoute(c) PROVE FactsInv'
  <2>1. c \in Askers /\ UNCHANGED <<world, cards, sought, saying, to, heard, missed>>
    BY <1>3 DEF SeeksRoute, spoken, Askers
  <2>2. \/ Goes(c, "asks") /\ Discovers(c)
        \/ Goes(c, "asked") /\ UNCHANGED asking
    BY <1>3 DEF SeeksRoute, Discovers, Skips
  <2>3. CardsInv'
    BY <1>1, <2>1, <2>2, DiscoversSafe, CardsStay
  <2>4. AnswersInv'
    BY <1>1, <1>2, <2>1, <2>2, UnderWaySafe DEF cards, SpokenTyped
  <2> QED BY <2>3, <2>4 DEF FactsInv
<1>4. ASSUME NEW x \in Announcements, LinkRefuses(x) PROVE FactsInv'
  <2>1. x \in Askers /\ UNCHANGED <<world, cards, asking, sought, saying, to, heard, missed>>
    BY <1>4 DEF LinkRefuses, spoken, Askers
  <2>2. Goes(x, "refused")
    BY <1>4 DEF LinkRefuses
  <2>3. AnswersInv'
    BY <1>1, <1>2, <2>1, <2>2, UnderWaySafe DEF cards, SpokenTyped
  <2> QED BY <1>1, <2>1, <2>3, CardsStay DEF FactsInv
<1>5. ASSUME NEW x \in Announcements, AnnouncesFact(x) PROVE FactsInv'
  <2>1. PICK f \in FactNames, waiting \in BOOLEAN : Starts(x, [Nothing EXCEPT !.fact = f, !.waiting = waiting])
    BY <1>5 DEF AnnouncesFact
  <2>2. [Nothing EXCEPT !.fact = f, !.waiting = waiting].fact = f
    BY DEF Nothing
  <2> QED BY <2>1, <2>2, StartsSafe
<1>6. ASSUME NEW x \in Announcements, NEW y \in Announcements, NEW a \in Addresses, AnnouncesOn(x, y, a)
      PROVE  FactsInv'
  BY <1>6, StartsSafe DEF AnnouncesOn
<1>7. CASE UNCHANGED factsVars
  <2>1. UNCHANGED <<world, cards, asking, stage, sought, saying, to, heard, missed>>
    BY <1>7 DEF factsVars, spoken
  <2>2. AnswersInv'
    BY <1>1, <2>1, AnswersKept DEF SpokenTyped, cards
  <2> QED BY <1>1, <2>1, <2>2, CardsStay DEF FactsInv
<1> QED BY <1>3, <1>4, <1>5, <1>6, <1>7, AskersSafe DEF FactsNext

(* A process that announces, calls and discovers, whatever world it is in. *)
Discovering == FactsInit /\ [][FactsNext]_factsVars

(* Emissions.ts and remote.ts: the invariant of the cards and the answers. *)
THEOREM FactsInvariant == Discovering => []FactsInv
BY FactsInvInit, FactsInvStep, PTL DEF Discovering

(* Whoever waits for cards is discovering, and has none of those it waits  *)
(* for; a remote whose card was refused is not asked again.                *)
AsksTidily ==
  /\ pending \cap dropped = {}
  /\ \A x \in Askers : left[x] \cap reached[x] = {} /\ (left[x] # {} => stage[x] = "asks")

LEMMA TidyWhenNobodyMoves ==
  ASSUME AsksTidily, UNCHANGED <<cards, left, reached>>,
         \A x \in Askers : stage[x] = "asks" => stage'[x] = "asks"
  PROVE  AsksTidily'
BY DEF AsksTidily, cards

LEMMA TidyBeside ==
  ASSUME FactsInv, AsksTidily, NEW x \in Askers, NEW s, s # "asks", stage[x] # "asks",
         Goes(x, s), UNCHANGED <<cards, asking>>
  PROVE  AsksTidily'
BY DEF AsksTidily, cards, asking, Goes, FactsInv, AnswersInv, SpokenTyped

LEMMA TidyDiscovers ==
  ASSUME FactsInv, AsksTidily, NEW x \in Askers, Discovers(x), UNCHANGED cards
  PROVE  AsksTidily'
<1>1. /\ \A y \in Askers : y # x => left'[y] = left[y] /\ reached'[y] = reached[y] /\ stage'[y] = stage[y]
      /\ reached'[x] = {} /\ stage'[x] = "asks"
  BY DEF Discovers, Goes, FactsInv, CardsInv, CardsTyped, AnswersInv, SpokenTyped
<1> QED BY <1>1 DEF AsksTidily, cards

LEMMA TidyStep == FactsInv /\ AsksTidily /\ [FactsNext]_factsVars => AsksTidily'
<1> SUFFICES ASSUME FactsInv, AsksTidily, [FactsNext]_factsVars PROVE AsksTidily'
  OBVIOUS
<1>1. /\ left \in [Askers -> SUBSET Remotes] /\ reached \in [Askers -> SUBSET Remotes]
      /\ stage \in [Askers -> Stages]
  BY DEF FactsInv, CardsInv, CardsTyped, AnswersInv, SpokenTyped
<1>2. ASSUME NEW x \in Askers, NEW r \in Remotes, CardComes(x, r) \/ NoCardComes(x, r) PROVE AsksTidily'
  <2>1. /\ \A y \in Askers : y # x => left'[y] = left[y] /\ reached'[y] = reached[y]
        /\ left'[x] = left[x] \ {r} /\ r \in left[x] /\ reached'[x] \subseteq reached[x] \cup {r}
        /\ UNCHANGED <<pending, dropped, stage>>
    BY <1>1, <1>2 DEF CardComes, NoCardComes, cards
  <2> QED BY <2>1 DEF AsksTidily
<1>3. ASSUME NEW x \in Askers, Indexes(x) PROVE AsksTidily'
  <2>1. /\ left[x] = {} /\ left' = left /\ reached' = [reached EXCEPT ![x] = {}]
        /\ \E s : Goes(x, s)
        /\ \E good, bad : pending' = pending \ (good \cup bad) /\ dropped' \subseteq dropped \cup bad
    <3>1. left[x] = {} /\ left' = left /\ reached' = [reached EXCEPT ![x] = {}]
      BY <1>3 DEF Indexes, AllSettled
    <3>2. \E s : Goes(x, s)
      BY <1>3 DEF Indexes
    <3>3. \E good, bad : pending' = pending \ (good \cup bad) /\ dropped' \subseteq dropped \cup bad
      <4>1. CASE Refusable(x) = {}
        BY <1>3, <4>1 DEF Indexes, StillPending
      <4>2. CASE Refusable(x) # {}
        BY <1>3, <4>2 DEF Indexes, StillPending
      <4> QED BY <4>1, <4>2
    <3> QED BY <3>1, <3>2, <3>3
  <2>2. \A y \in Askers : /\ left'[y] \cap reached'[y] = {}
                          /\ left'[y] # {} => stage'[y] = "asks"
    BY <1>1, <2>1 DEF AsksTidily, Goes
  <2>3. pending' \cap dropped' = {}
    BY <2>1 DEF AsksTidily
  <2> QED BY <2>2, <2>3 DEF AsksTidily
<1>4. ASSUME NEW x \in Askers, NEW s, s # "asks", stage[x] # "asks", Goes(x, s), UNCHANGED <<cards, asking>>
      PROVE  AsksTidily'
  BY <1>4, TidyBeside
<1>5. ASSUME NEW x \in Askers, Discovers(x), UNCHANGED cards PROVE AsksTidily'
  BY <1>5, TidyDiscovers
<1>6. Announcements \subseteq Askers /\ Calls \subseteq Askers
  BY DEF Askers
<1>7. ASSUME NEW c \in Calls, Routes(c) \/ SeeksRoute(c) PROVE AsksTidily'
  <2>1. CASE Routes(c)
    BY <1>4, <1>6, <2>1 DEF Routes
  <2>2. CASE SeeksRoute(c)
    BY <1>4, <1>5, <1>6, <2>2 DEF SeeksRoute, Skips
  <2> QED BY <1>7, <2>1, <2>2
<1>8. ASSUME NEW x \in Announcements, LinksFinish(x) \/ LinkRefuses(x) \/ Hands(x) \/ Concludes(x)
      PROVE  AsksTidily'
  <2>1. CASE LinksFinish(x)
    BY <1>4, <1>5, <1>6, <2>1 DEF LinksFinish, Skips
  <2>2. CASE LinkRefuses(x)
    BY <1>4, <1>6, <2>2 DEF LinkRefuses
  <2>3. CASE Hands(x)
    BY <1>4, <1>6, <2>3 DEF Hands
  <2>4. CASE Concludes(x)
    BY <1>4, <1>6, <2>4 DEF Concludes
  <2> QED BY <1>8, <2>1, <2>2, <2>3, <2>4
<1>9. ASSUME NEW x \in Announcements, NEW a \in Addresses, ListenerAnswers(x, a) \/ ListenerRefuses(x, a)
      PROVE  AsksTidily'
  <2>1. UNCHANGED <<cards, left, reached, stage>>
    BY <1>9 DEF ListenerAnswers, ListenerRefuses, Settles, asking
  <2> QED BY <2>1, TidyWhenNobodyMoves
<1>10. ASSUME NEW x \in Announcements, NEW what, Starts(x, what) PROVE AsksTidily'
  BY <1>4, <1>6, <1>10 DEF Starts
<1>11. CASE UNCHANGED factsVars
  <2>1. UNCHANGED <<cards, left, reached, stage>>
    BY <1>11 DEF factsVars, asking
  <2> QED BY <2>1, TidyWhenNobodyMoves
<1>12. ASSUME NEW x \in Askers, AskerGoesOn(x) PROVE AsksTidily'
  BY <1>2, <1>3, <1>7, <1>8, <1>9, <1>12 DEF AskerGoesOn, AnnouncementGoesOn
<1> QED BY <1>7, <1>8, <1>10, <1>11, <1>12 DEF FactsNext, AnnouncesFact, AnnouncesOn

(* Discoveries and announcements keep their shape: a discover waits only   *)
(* while it asks, and for nothing it has.                                  *)
THEOREM FactsKeepTheirShape == Discovering => []FactsTypeOK
<1>1. FactsInit => AsksTidily
  BY DEF FactsInit, AsksTidily
<1>2. FactsInv /\ AsksTidily => FactsTypeOK
  BY DEF FactsInv, CardsInv, CardsTyped, AnswersInv, SpokenTyped, AsksTidily, Stages, FactsTypeOK
<1> QED BY <1>1, <1>2, FactsInvariant, TidyStep, PTL DEF Discovering

(* Emissions.ts:246-280: an announcement with an answer that was answered  *)
(* heard every listener, but those of a remote whose card was refused.     *)
THEOREM WaitsForEveryone == Discovering => []EveryoneAnswered
<1>1. FactsInv => EveryoneAnswered
  BY DEF FactsInv, AnswersInv
<1> QED BY <1>1, FactsInvariant, PTL

(* remote.ts:81-101: without overlapping discoveries a listener is noted   *)
(* once.                                                                   *)
THEOREM NotedTwiceIsOverlap == Discovering => []NotedOnce
<1>1. FactsInv => NotedOnce
  BY DEF FactsInv, CardsInv
<1> QED BY <1>1, FactsInvariant, PTL

(* remote.ts:102-119: nobody hears that nothing serves an address that a   *)
(* remote serves, unless its card was refused.                             *)
THEOREM NotFoundIsTrue == Discovering => []NotFoundIsSo
<1>1. FactsInv => NotFoundIsSo
  BY DEF FactsInv, AnswersInv
<1> QED BY <1>1, FactsInvariant, PTL

(* remote.ts:165: whatever discoveries overlap, a claim is never given to  *)
(* another remote.                                                         *)
THEOREM ClaimsAreKept == Discovering => ClaimsStand
<1>1. FactsInv /\ [FactsNext]_factsVars =>
        [\A a \in Addresses : claim[a] # Here => claim'[a] = claim[a]]_factsVars
  <2> SUFFICES ASSUME FactsInv, [FactsNext]_factsVars, NEW a \in Addresses, claim[a] # Here
               PROVE  claim'[a] = claim[a]
    OBVIOUS
  <2>1. CASE \E x \in Askers : Indexes(x)
    BY <2>1, IndexesClaims DEF FactsInv, CardsInv
  <2>2. CASE ~ \E x \in Askers : Indexes(x)
    BY <2>2, OthersClaimNothing DEF cards
  <2> QED BY <2>1, <2>2
<1> QED BY <1>1, FactsInvariant, PTL DEF Discovering, ClaimsStand
(* The kinds of records the state is made of: a gesture under way, and the *)
(* inverse of one.                                                         *)
Befores == {<<>>} \cup [Rows -> Contents]
Gesture == [kind : Kinds, keys : (SUBSET Rows) \ {{}}, left : SUBSET Rows, before : Befores,
            stage : {"asked", "writes", "noted", "late", "refused"}]
Undo == [kind : Kinds, keys : (SUBSET Rows) \ {{}}, before : Befores]

(* What was read is at hand where the write needs it, and a delete is of   *)
(* one row.                                                                *)
GestureFits(g) ==
  /\ g.left \subseteq g.keys
  /\ g.stage \in {"asked", "writes"} => g.left # {}
  /\ g.stage = "asked" => g.left = g.keys
  /\ (g.stage = "writes" /\ g.kind # "create") => g.before \in [Rows -> Contents]
  /\ g.kind = "delete" => \E k \in Rows : g.keys = {k}

InverseFits(e) ==
  /\ e.kind # "create" => e.before \in [Rows -> Contents]
  /\ e.kind # "upsert" => \E k \in Rows : e.keys = {k}

FramesTyped ==
  /\ context \in BOOLEAN
  /\ inside \in [Frames -> Frames \cup {NoFrame}]
  /\ state \in [Frames -> {"new", "waits", "open", "unwinds"} \cup Ended]
  /\ said \in [Frames -> {"nothing", "waits", "out", "refused"}]
  /\ awaited \in [Frames -> BOOLEAN]

RowsTyped ==
  /\ kept \in [Rows -> Contents]
  /\ looked \in [Frames -> {"no", "yes", "moved"}]
  /\ stuck \in [Frames -> SUBSET Rows]
  /\ origin \in [Frames -> [Rows -> Contents]]
  /\ meddled \in [Frames -> SUBSET Rows]

GesturesTyped ==
  /\ made \in [Frames -> Seq(Gesture)]
  /\ \A f \in Frames : \A i \in DOMAIN made[f] : GestureFits(made[f][i])

InversesTyped ==
  /\ journal \in [Frames -> Seq(Undo)]
  /\ \A f \in Frames : \A i \in DOMAIN journal[f] : InverseFits(journal[f][i])

FramesShape == FramesTyped /\ RowsTyped /\ GesturesTyped /\ InversesTyped

(* What a row holds once a frame has written it, and once that is undone.  *)
After(e, f) == IF e.kind = "delete" THEN "absent" ELSE f
Back(e, k) == IF e.kind = "create" THEN "absent" ELSE e.before[k]

(* The inverses of one row are a chain: each puts back what the one before *)
(* it undoes, the newest undoes what the row holds, v, and the oldest puts *)
(* back what it held first, o.  Written in the order they were noted, then *)
(* in the order they are replayed.                                         *)
Of(s, k) == {i \in DOMAIN s : k \in s[i].keys}

Grown(s, k, f, v, o) ==
  /\ Of(s, k) = {} => v = o
  /\ \A i \in Of(s, k) :
       /\ (\A j \in Of(s, k) : j <= i) => v = After(s[i], f)
       /\ (\A j \in Of(s, k) : i <= j) => Back(s[i], k) = o
       /\ \A j \in Of(s, k) :
            (i < j /\ \A l \in Of(s, k) : l <= i \/ j <= l) => Back(s[j], k) = After(s[i], f)

Replays(s, k, f, v, o) ==
  /\ Of(s, k) = {} => v = o
  /\ \A i \in Of(s, k) :
       /\ (\A j \in Of(s, k) : i <= j) => v = After(s[i], f)
       /\ (\A j \in Of(s, k) : j <= i) => Back(s[i], k) = o
       /\ \A j \in Of(s, k) :
            (i < j /\ \A l \in Of(s, k) : l <= i \/ j <= l) => Back(s[i], k) = After(s[j], f)

(* Rows nothing is said of: written by a gesture that refused or settled   *)
(* too late, written by another, reported.                                 *)
Lost(f) == Written(f, {"refused", "late"}) \cup meddled[f] \cup stuck[f]

Apart(f) == \A i, j \in UnderWay(f) : i # j => made[f][i].keys \cap made[f][j].keys = {}

(* A row of a gesture under way: as the journal has it until it is         *)
(* written, and what the gesture read of it is what the journal has.       *)
InHand(f, g, k) ==
  /\ k \in g.left =>
       /\ Grown(journal[f], k, f, kept[k], origin[f][k])
       /\ (g.stage = "writes" /\ g.kind # "create") => g.before[k] = kept[k]
       /\ (g.left # g.keys /\ g.kind = "create") => kept[k] = "absent"
       /\ (g.left # g.keys /\ g.kind = "update") => kept[k] # "absent"
  /\ k \notin g.left =>
       /\ kept[k] = After(g, f)
       /\ Grown(journal[f], k, f, Back(g, k), origin[f][k])
       /\ g.kind = "update" => g.before[k] # "absent"

Open(f) ==
  \A k \in Asked(f) \ Lost(f) :
    /\ \A i \in UnderWay(f) : k \in made[f][i].keys => InHand(f, made[f][i], k)
    /\ (\A i \in UnderWay(f) : k \notin made[f][i].keys) =>
         Grown(journal[f], k, f, kept[k], origin[f][k])

Undone(f) ==
  \A k \in Asked(f) \ (Lost(f) \cup Written(f, {"writes"})) :
    Replays(journal[f], k, f, kept[k], origin[f][k])

Recorded(f) ==
  /\ state[f] \in {"new", "waits", "refused"} => made[f] = <<>> /\ journal[f] = <<>>
  /\ \A i \in DOMAIN journal[f] : journal[f][i].keys \subseteq Asked(f)
  /\ Apart(f)
  /\ state[f] = "open" => Open(f)
  /\ state[f] \in {"unwinds", "fell"} => Undone(f)
  /\ state[f] = "fell" => journal[f] = <<>>

FramesInv == FramesShape /\ \A f \in Frames : Recorded(f)

-----------------------------------------------------------------------------
(* What follows from a chain when inverses are noted, turned round and     *)
(* replayed.                                                               *)

LEMMA ChainLengthens ==
  ASSUME NEW k, NEW f, NEW v, NEW o, NEW w, NEW s \in Seq(Undo), NEW t \in Seq(Undo),
         Grown(s, k, f, v, o),
         \/ Of(t, k) = {} /\ w = v
         \/ \E m \in DOMAIN t : Of(t, k) = {m} /\ Back(t[m], k) = v /\ w = After(t[m], f)
  PROVE  Grown(s \o t, k, f, w, o)
<1>1. PICK q : q = s \o t
  OBVIOUS
<1>2. /\ Len(s) \in Nat /\ Len(t) \in Nat /\ DOMAIN s = 1 .. Len(s) /\ DOMAIN t = 1 .. Len(t)
      /\ DOMAIN q = 1 .. (Len(s) + Len(t))
      /\ \A i \in 1 .. Len(s) : q[i] = s[i]
      /\ \A i \in 1 .. Len(t) : q[Len(s) + i] = t[i]
  BY <1>1
<1>3. \A i \in DOMAIN q : i \in DOMAIN s \/ \E m \in DOMAIN t : i = Len(s) + m
  <2>1. \A i \in DOMAIN q : i \notin DOMAIN s => i - Len(s) \in DOMAIN t /\ i = Len(s) + (i - Len(s))
    BY <1>2
  <2> QED BY <2>1
<1>4. Of(q, k) = Of(s, k) \cup {Len(s) + m : m \in Of(t, k)}
  BY <1>2, <1>3 DEF Of
<1>5. CASE Of(t, k) = {} /\ w = v
  <2>1. Of(q, k) = Of(s, k) /\ \A i \in Of(s, k) : q[i] = s[i]
    BY <1>2, <1>4, <1>5 DEF Of
  <2> QED BY <1>1, <1>5, <2>1 DEF Grown
<1>6. ASSUME NEW m \in DOMAIN t, Of(t, k) = {m}, Back(t[m], k) = v, w = After(t[m], f)
      PROVE  Grown(q, k, f, w, o)
  <2>1. PICK n : n = Len(s) + m
    OBVIOUS
  <2>2. /\ Of(q, k) = Of(s, k) \cup {n} /\ n \in Nat /\ q[n] = t[m]
        /\ \A i \in Of(s, k) : i \in Nat /\ i < n /\ q[i] = s[i]
    BY <1>2, <1>4, <1>6, <2>1 DEF Of
  <2>3. \A i \in Of(q, k) : (\A j \in Of(q, k) : j <= i) => i = n
    BY <2>2
  <2>4. \A i \in Of(q, k) : (\A j \in Of(q, k) : j <= i) => w = After(q[i], f)
    BY <1>6, <2>2, <2>3
  <2>5. \A i \in Of(q, k) : (\A j \in Of(q, k) : i <= j) => Back(q[i], k) = o
    <3>1. CASE Of(s, k) = {}
      BY <1>6, <2>2, <3>1 DEF Grown
    <3>2. CASE Of(s, k) # {}
      <4>1. \A i \in Of(q, k) : (\A j \in Of(q, k) : i <= j) =>
              i \in Of(s, k) /\ \A j \in Of(s, k) : i <= j
        BY <2>2, <3>2
      <4> QED BY <2>2, <4>1 DEF Grown
    <3> QED BY <3>1, <3>2
  <2>6. ASSUME NEW i \in Of(q, k), NEW j \in Of(q, k), i < j,
               \A l \in Of(q, k) : l <= i \/ j <= l
        PROVE  Back(q[j], k) = After(q[i], f)
    <3>1. i \in Of(s, k)
      BY <2>2, <2>6
    <3>2. CASE j = n
      <4>1. \A l \in Of(s, k) : l <= i
        BY <2>2, <2>6, <3>2
      <4>2. v = After(s[i], f)
        BY <3>1, <4>1 DEF Grown
      <4> QED BY <1>6, <2>2, <3>1, <3>2, <4>2
    <3>3. CASE j # n
      <4>1. j \in Of(s, k) /\ \A l \in Of(s, k) : l <= i \/ j <= l
        BY <2>2, <2>6, <3>3
      <4>2. Back(s[j], k) = After(s[i], f)
        BY <2>6, <3>1, <4>1 DEF Grown
      <4> QED BY <2>2, <3>1, <4>1, <4>2
    <3> QED BY <3>2, <3>3
  <2>7. Of(q, k) # {}
    BY <2>2
  <2> QED BY <2>4, <2>5, <2>6, <2>7 DEF Grown
<1> QED BY <1>1, <1>5, <1>6

LEMMA ChainTurns ==
  ASSUME NEW k, NEW f, NEW v, NEW o, NEW s \in Seq(Undo), Grown(s, k, f, v, o)
  PROVE  Replays(LastFirst(s), k, f, v, o)
<1>1. PICK q : q = LastFirst(s)
  OBVIOUS
<1>2. PICK n : n = Len(s)
  OBVIOUS
<1>3. n \in Nat /\ DOMAIN s = 1 .. n /\ DOMAIN q = 1 .. n /\ \A i \in 1 .. n : q[i] = s[n + 1 - i]
  BY <1>1, <1>2 DEF LastFirst
<1>4. \A i \in 1 .. n : n + 1 - i \in 1 .. n /\ n + 1 - (n + 1 - i) = i
  BY <1>3
<1>5. \A i \in 1 .. n : i \in Of(q, k) <=> n + 1 - i \in Of(s, k)
  BY <1>3, <1>4 DEF Of
<1>6. Of(q, k) \subseteq 1 .. n /\ Of(s, k) \subseteq 1 .. n
  BY <1>3 DEF Of
<1>7. Of(q, k) = {} => v = o
  <2>1. Of(q, k) = {} => Of(s, k) = {}
    BY <1>4, <1>5, <1>6
  <2> QED BY <2>1 DEF Grown
<1>8. ASSUME NEW i \in Of(q, k)
      PROVE  /\ (\A j \in Of(q, k) : i <= j) => v = After(q[i], f)
             /\ (\A j \in Of(q, k) : j <= i) => Back(q[i], k) = o
             /\ \A j \in Of(q, k) :
                  (i < j /\ \A l \in Of(q, k) : l <= i \/ j <= l) => Back(q[i], k) = After(q[j], f)
  <2>1. PICK a : a = n + 1 - i
    OBVIOUS
  <2>2. a \in Of(s, k) /\ q[i] = s[a] /\ i \in 1 .. n /\ a \in 1 .. n
    BY <1>3, <1>4, <1>5, <1>6, <2>1
  <2>3. \A c \in Of(s, k) : n + 1 - c \in Of(q, k) /\ n + 1 - c \in 1 .. n /\ c \in 1 .. n
    BY <1>4, <1>5, <1>6
  <2>4. (\A j \in Of(q, k) : i <= j) => v = After(q[i], f)
    <3>1. (\A j \in Of(q, k) : i <= j) => \A c \in Of(s, k) : c <= a
      BY <1>3, <2>1, <2>2, <2>3
    <3> QED BY <2>2, <3>1 DEF Grown
  <2>5. (\A j \in Of(q, k) : j <= i) => Back(q[i], k) = o
    <3>1. (\A j \in Of(q, k) : j <= i) => \A c \in Of(s, k) : a <= c
      BY <1>3, <2>1, <2>2, <2>3
    <3> QED BY <2>2, <3>1 DEF Grown
  <2>6. ASSUME NEW j \in Of(q, k), i < j, \A l \in Of(q, k) : l <= i \/ j <= l
        PROVE  Back(q[i], k) = After(q[j], f)
    <3>1. PICK b : b = n + 1 - j
      OBVIOUS
    <3>2. b \in Of(s, k) /\ q[j] = s[b] /\ j \in 1 .. n /\ b \in 1 .. n
      BY <1>3, <1>4, <1>5, <1>6, <3>1
    <3>3. b < a /\ \A c \in Of(s, k) : c <= b \/ a <= c
      BY <1>3, <2>1, <2>2, <2>3, <2>6, <3>1, <3>2
    <3> QED BY <2>2, <3>2, <3>3 DEF Grown
  <2> QED BY <2>4, <2>5, <2>6
<1> QED BY <1>1, <1>7, <1>8 DEF Replays

(* The rest of a chain, its head replayed or of other rows: as it stands,  *)
(* or with a row fewer in its head.                                        *)
LEMMA ChainShortens ==
  ASSUME NEW k, NEW f, NEW v, NEW o, NEW s \in Seq(Undo), s # <<>>, Replays(s, k, f, v, o)
  PROVE  /\ k \in s[1].keys => v = After(s[1], f) /\ Replays(Tail(s), k, f, Back(s[1], k), o)
         /\ k \notin s[1].keys => Replays(Tail(s), k, f, v, o)
<1>1. PICK q : q = Tail(s)
  OBVIOUS
<1>2. PICK n : n = Len(s)
  OBVIOUS
<1>3. /\ n \in Nat \ {0} /\ DOMAIN s = 1 .. n /\ DOMAIN q = 1 .. (n - 1)
      /\ \A i \in 1 .. (n - 1) : q[i] = s[i + 1]
  BY <1>1, <1>2
<1>4. \A i \in Of(q, k) : i + 1 \in Of(s, k) /\ i + 1 > 1 /\ i \in Nat /\ q[i] = s[i + 1]
  BY <1>3 DEF Of
<1>5. \A i \in Of(s, k) : i = 1 \/ (i - 1 \in Of(q, k) /\ i > 1 /\ i \in Nat)
  BY <1>3 DEF Of
<1>6. 1 \in Of(s, k) <=> k \in s[1].keys
  BY <1>3 DEF Of
<1>7. ASSUME NEW i \in Of(q, k), NEW j \in Of(q, k), i < j, \A l \in Of(q, k) : l <= i \/ j <= l
      PROVE  Back(q[i], k) = After(q[j], f)
  <2>1. \A l \in Of(s, k) : l <= i + 1 \/ j + 1 <= l
    BY <1>4, <1>5, <1>7
  <2>2. i + 1 < j + 1 /\ i + 1 \in Of(s, k) /\ j + 1 \in Of(s, k)
    BY <1>4, <1>7
  <2> QED BY <1>4, <2>1, <2>2 DEF Replays
<1>8. ASSUME NEW i \in Of(q, k), \A j \in Of(q, k) : j <= i
      PROVE  Back(q[i], k) = o
  <2>1. i + 1 \in Of(s, k) /\ \A l \in Of(s, k) : l <= i + 1
    BY <1>4, <1>5, <1>8
  <2> QED BY <1>4, <2>1 DEF Replays
<1>9. CASE k \in s[1].keys
  <2>1. 1 \in Of(s, k) /\ \A l \in Of(s, k) : 1 <= l
    BY <1>5, <1>6, <1>9
  <2>2. v = After(s[1], f)
    BY <2>1 DEF Replays
  <2>3. Of(q, k) = {} => Back(s[1], k) = o
    <3>1. Of(q, k) = {} => \A l \in Of(s, k) : l <= 1
      BY <1>5
    <3> QED BY <2>1, <3>1 DEF Replays
  <2>4. ASSUME NEW i \in Of(q, k), \A j \in Of(q, k) : i <= j
        PROVE  Back(s[1], k) = After(q[i], f)
    <3>1. i + 1 \in Of(s, k) /\ 1 < i + 1 /\ \A l \in Of(s, k) : l <= 1 \/ i + 1 <= l
      BY <1>4, <1>5, <2>4
    <3> QED BY <1>4, <2>1, <3>1 DEF Replays
  <2> QED BY <1>1, <1>7, <1>8, <1>9, <2>2, <2>3, <2>4 DEF Replays
<1>10. CASE k \notin s[1].keys
  <2>1. Of(q, k) = {} => v = o
    <3>1. Of(q, k) = {} => Of(s, k) = {}
      BY <1>5, <1>6, <1>10
    <3> QED BY <3>1 DEF Replays
  <2>2. ASSUME NEW i \in Of(q, k), \A j \in Of(q, k) : i <= j
        PROVE  v = After(q[i], f)
    <3>1. i + 1 \in Of(s, k) /\ \A l \in Of(s, k) : i + 1 <= l
      BY <1>4, <1>5, <1>6, <1>10, <2>2
    <3> QED BY <1>4, <3>1 DEF Replays
  <2> QED BY <1>1, <1>7, <1>8, <1>10, <2>1, <2>2 DEF Replays
<1> QED BY <1>9, <1>10

LEMMA ChainTrimmed ==
  ASSUME NEW f, NEW s \in Seq(Undo), s # <<>>, NEW x \in s[1].keys,
         NEW q, DOMAIN q = DOMAIN s, \A i \in 2 .. Len(s) : q[i] = s[i],
         q[1].kind = s[1].kind, q[1].before = s[1].before, q[1].keys = s[1].keys \ {x}
  PROVE  \A k, v, o : Replays(s, k, f, v, o) => Replays(q, k, f, IF k = x THEN Back(s[1], x) ELSE v, o)
<1>0. TAKE k, v, o
<1>2. HAVE Replays(s, k, f, v, o)
<1>1. PICK n : n = Len(s)
  OBVIOUS
<1>3. n \in Nat \ {0} /\ DOMAIN s = 1 .. n
  BY <1>1
<1>5. DOMAIN q = 1 .. n /\ \A i \in 2 .. n : q[i] = s[i]
  BY <1>1, <1>3
<1>6. \A i \in DOMAIN s : After(q[i], f) = After(s[i], f) /\ Back(q[i], k) = Back(s[i], k)
  <2>1. \A i \in DOMAIN s : i = 1 \/ i \in 2 .. n
    BY <1>3
  <2> QED BY <1>3, <1>5, <2>1 DEF After, Back
<1>7. CASE k # x
  <2>1. \A i \in DOMAIN s : i \in Of(q, k) <=> i \in Of(s, k)
    <3>1. \A i \in DOMAIN s : i = 1 \/ i \in 2 .. n
      BY <1>3
    <3> QED BY <1>3, <1>5, <1>7, <3>1 DEF Of
  <2>2. Of(q, k) = Of(s, k) /\ Of(s, k) \subseteq DOMAIN s
    BY <1>3, <1>5, <2>1 DEF Of
  <2>3. \A i \in Of(s, k) : After(q[i], f) = After(s[i], f) /\ Back(q[i], k) = Back(s[i], k)
    BY <1>6, <2>2
  <2>4. Replays(q, k, f, v, o)
    BY <1>2, <2>2, <2>3 DEF Replays
  <2> QED BY <1>7, <2>4
<1>8. CASE k = x
  <2>1. Of(q, k) = Of(s, k) \ {1} /\ 1 \in Of(s, k) /\ \A i \in Of(s, k) : i \in Nat /\ 1 <= i
    <3>1. \A i \in DOMAIN s : i = 1 \/ i \in 2 .. n
      BY <1>3
    <3>2. 1 \notin Of(q, k)
      BY <1>5, <1>8 DEF Of
    <3>3. \A i \in 2 .. n : i \in Of(q, k) <=> i \in Of(s, k)
      BY <1>3, <1>5 DEF Of
    <3> QED BY <1>3, <1>5, <1>8, <3>1, <3>2, <3>3 DEF Of
  <2>2. \A i \in Of(s, k) : i \in DOMAIN s
    BY DEF Of
  <2>3. Of(q, k) = {} => Back(s[1], k) = o
    <3>1. Of(q, k) = {} => \A j \in Of(s, k) : j <= 1
      BY <2>1
    <3> QED BY <1>2, <2>1, <3>1 DEF Replays
  <2>4. ASSUME NEW i \in Of(q, k), \A j \in Of(q, k) : i <= j
        PROVE  Back(s[1], k) = After(q[i], f)
    <3>0. i \in Of(s, k) /\ i \in Nat /\ 1 < i
      <4>1. i \in Of(s, k) /\ i # 1 /\ i \in Nat /\ 1 <= i
        BY <2>1
      <4> QED BY <4>1
    <3>1. 1 < i /\ \A l \in Of(s, k) : l <= 1 \/ i <= l
      <4>1. \A l \in Of(s, k) : l = 1 \/ l \in Of(q, k)
        BY <2>1
      <4>2. \A l \in Of(s, k) : l \in Nat
        BY <2>1
      <4> QED BY <2>4, <3>0, <4>1, <4>2
    <3>2. Back(s[1], k) = After(s[i], f)
      BY <1>2, <2>1, <3>0, <3>1 DEF Replays
    <3> QED BY <1>6, <2>2, <3>0, <3>2
  <2>5. ASSUME NEW i \in Of(q, k), \A j \in Of(q, k) : j <= i
        PROVE  Back(q[i], k) = o
    <3>1. i \in Of(s, k) /\ \A l \in Of(s, k) : l <= i
      BY <2>1, <2>5
    <3>2. Back(s[i], k) = o
      BY <1>2, <3>1 DEF Replays
    <3> QED BY <1>6, <2>2, <3>1, <3>2
  <2>6. ASSUME NEW i \in Of(q, k), NEW j \in Of(q, k), i < j, \A l \in Of(q, k) : l <= i \/ j <= l
        PROVE  Back(q[i], k) = After(q[j], f)
    <3>1. i \in Of(s, k) /\ j \in Of(s, k) /\ \A l \in Of(s, k) : l <= i \/ j <= l
      BY <2>1, <2>6
    <3>2. Back(s[i], k) = After(s[j], f)
      BY <1>2, <2>6, <3>1 DEF Replays
    <3> QED BY <1>6, <2>2, <3>1, <3>2
  <2>7. PICK w : w = Back(s[1], k)
    OBVIOUS
  <2>8. Replays(q, k, f, w, o)
    BY <2>3, <2>4, <2>5, <2>6, <2>7 DEF Replays
  <2> QED BY <1>8, <2>7, <2>8
<1> QED BY <1>7, <1>8
-----------------------------------------------------------------------------
(* Nth runs through a finite set of numbers, and each of them once.        *)
LEMMA NthRunsThrough ==
  ASSUME NEW S \in SUBSET Nat, IsFiniteSet(S)
  PROVE  /\ Cardinality(S) \in Nat
         /\ \A i \in 1 .. Cardinality(S) : Nth(S, i) \in S
         /\ \A k \in S : \E m \in 1 .. Cardinality(S) :
              \A i \in 1 .. Cardinality(S) : Nth(S, i) = k <=> i = m
<1> DEFINE Upto(k) == {j \in S : j <= k}
           p == [k \in S |-> Cardinality(Upto(k))]
<1>1. PICK n \in Nat : n = Cardinality(S)
  BY FS_CardinalityType
<1>2. \A k \in S : Cardinality(Upto(k)) \in 1 .. n
  <2>1. TAKE k \in S
  <2>2. IsFiniteSet(Upto(k)) /\ Cardinality(Upto(k)) <= n
    <3>1. Upto(k) \in SUBSET S
      OBVIOUS
    <3> HIDE DEF Upto
    <3> QED BY <1>1, <3>1, FS_Subset
  <2>3. Cardinality(Upto(k)) \in Nat
    BY <2>2, FS_CardinalityType
  <2>4. Cardinality(Upto(k)) # 0
    <3>1. k \in Upto(k)
      OBVIOUS
    <3> QED BY <2>2, <3>1, FS_EmptySet
  <2> QED BY <2>2, <2>3, <2>4
<1>3. ASSUME NEW k \in S, NEW m \in S, k < m
      PROVE  Cardinality(Upto(k)) # Cardinality(Upto(m))
  <2>1. IsFiniteSet(Upto(m))
    BY FS_Subset, Upto(m) \in SUBSET S
  <2>2. Upto(k) \in SUBSET Upto(m) /\ m \in Upto(m) /\ m \notin Upto(k)
    <3>1. \A j \in S : j <= k => j <= m
      BY <1>3
    <3>2. m <= m /\ ~(m <= k)
      BY <1>3
    <3> QED BY <3>1, <3>2
  <2> HIDE DEF Upto
  <2> QED BY <2>1, <2>2, FS_Subset
<1>4. \A k, m \in S : Cardinality(Upto(k)) = Cardinality(Upto(m)) => k = m
  <2>1. \A k, m \in S : k = m \/ k < m \/ m < k
    OBVIOUS
  <2> HIDE DEF Upto
  <2> QED BY <1>3, <2>1
<1> HIDE DEF Upto
<1>5. p \in Injection(S, 1 .. n)
  BY <1>2, <1>4 DEF Injection, IsInjective
<1>6. p \in Surjection(S, 1 .. n)
  <2>1. IsFiniteSet(1 .. n) /\ Cardinality(1 .. n) = n
    BY FS_Interval
  <2> HIDE DEF p
  <2> QED BY <1>1, <1>5, <2>1, FS_Injection
<1>7. \A i \in 1 .. n : \E k \in S : Cardinality(Upto(k)) = i
  BY <1>6 DEF Surjection
<1>8. \A i \in 1 .. n : Nth(S, i) \in S /\ Cardinality(Upto(Nth(S, i))) = i
  BY <1>7 DEF Nth, Upto
<1>9. \A k \in S : \A i \in 1 .. n : Nth(S, i) = k <=> i = Cardinality(Upto(k))
  BY <1>4, <1>8
<1> QED BY <1>1, <1>2, <1>8, <1>9

(* What a gesture leaves in the journal of each row it wrote: one inverse, *)
(* of what it read there.                                                  *)
LEMMA InversesNoted ==
  ASSUME NEW g \in Gesture, g.kind # "create" => g.before \in [Rows -> Contents]
  PROVE  /\ Inverses(g) \in Seq(Undo)
         /\ \A i \in DOMAIN Inverses(g) : InverseFits(Inverses(g)[i]) /\ Inverses(g)[i].keys \subseteq g.keys
         /\ \A k \in g.keys :
              IF g.kind = "upsert" \/ k \in Had(g)
              THEN \E m \in DOMAIN Inverses(g) : /\ Of(Inverses(g), k) = {m}
                                                 /\ Inverses(g)[m].kind = g.kind
                                                 /\ Inverses(g)[m].before = g.before
              ELSE Of(Inverses(g), k) = {}
<1>1. PICK q : q = Inverses(g)
  OBVIOUS
<1>2. CASE g.kind = "upsert"
  <2>1. q = <<[kind |-> g.kind, keys |-> g.keys, before |-> g.before]>>
    BY <1>1, <1>2 DEF Inverses
  <2>2. /\ q \in Seq(Undo) /\ DOMAIN q = {1} /\ q[1].kind = g.kind /\ q[1].keys = g.keys
        /\ q[1].before = g.before
    BY <2>1 DEF Gesture, Undo
  <2>3. \A k \in g.keys : Of(q, k) = {1}
    BY <2>2 DEF Of
  <2> QED BY <1>1, <1>2, <2>2, <2>3 DEF InverseFits, Gesture
<1>3. CASE g.kind # "upsert"
  <2>1. PICK S : S = Had(g)
    OBVIOUS
  <2>2. S \subseteq g.keys /\ g.keys \subseteq Rows /\ S \in SUBSET Nat /\ IsFiniteSet(S)
    <3>1. S \in SUBSET Rows /\ S \subseteq g.keys /\ g.keys \subseteq Rows
      BY <2>1 DEF Had, Gesture
    <3> QED BY <3>1, RowsAreKeys, FS_Subset
  <2>3. PICK n : n = Cardinality(S)
    OBVIOUS
  <2>4. /\ n \in Nat
        /\ \A i \in 1 .. n : Nth(S, i) \in S
        /\ \A k \in S : \E m \in 1 .. n : \A i \in 1 .. n : Nth(S, i) = k <=> i = m
    BY <2>2, <2>3, NthRunsThrough
  <2>5. q = [i \in 1 .. n |-> [kind |-> g.kind, keys |-> {Nth(S, i)}, before |-> g.before]]
    BY <1>1, <1>3, <2>1, <2>3 DEF Inverses
  <2>6. /\ DOMAIN q = 1 .. n
        /\ \A i \in 1 .. n : q[i].kind = g.kind /\ q[i].keys = {Nth(S, i)} /\ q[i].before = g.before
    BY <2>5
  <2>7. q \in Seq(Undo)
    <3>1. \A i \in 1 .. n : [kind |-> g.kind, keys |-> {Nth(S, i)}, before |-> g.before] \in Undo
      BY <2>2, <2>4 DEF Undo, Gesture
    <3> QED BY <2>4, <2>5, <3>1
  <2>8. \A i \in DOMAIN q : InverseFits(q[i]) /\ q[i].keys \subseteq g.keys
    BY <1>3, <2>2, <2>4, <2>6 DEF InverseFits
  <2>9. \A k \in S : \E m \in 1 .. n : Of(q, k) = {m}
    <3>1. TAKE k \in S
    <3>2. PICK m \in 1 .. n : \A i \in 1 .. n : Nth(S, i) = k <=> i = m
      BY <2>4
    <3>3. Of(q, k) = {m}
      BY <2>6, <3>2 DEF Of
    <3> QED BY <3>3
  <2>10. \A k \in g.keys \ S : Of(q, k) = {}
    BY <2>4, <2>6 DEF Of
  <2>11. \A k \in S : \E m \in DOMAIN q : Of(q, k) = {m} /\ q[m].kind = g.kind /\ q[m].before = g.before
    BY <2>6, <2>9
  <2> QED BY <1>1, <1>3, <2>1, <2>7, <2>8, <2>10, <2>11
<1> QED BY <1>2, <1>3
-----------------------------------------------------------------------------
LEMMA RowAsked ==
  ASSUME NEW f, NEW k
  PROVE  k \in Asked(f) <=> \E i \in DOMAIN made[f] : k \in made[f][i].keys
  BY DEF Asked

LEMMA RowWritten ==
  ASSUME NEW f, NEW k, NEW S
  PROVE  k \in Written(f, S) <=>
           \E i \in DOMAIN made[f] : made[f][i].stage \in S /\ k \in made[f][i].keys /\ k \notin made[f][i].left
  BY DEF Written

(* What the steps of others leave of a frame's account.                    *)
LEMMA Bystander ==
  ASSUME NEW f \in Frames, Recorded(f),
         made'[f] = made[f], journal'[f] = journal[f], state'[f] = state[f],
         origin'[f] = origin[f], stuck'[f] = stuck[f], meddled[f] \subseteq meddled'[f],
         \A k \in Asked(f) : kept'[k] = kept[k] \/ k \in meddled'[f]
  PROVE  Recorded(f)'
<1>1. Asked(f)' = Asked(f) /\ UnderWay(f)' = UnderWay(f)
  BY DEF Asked, UnderWay
<1>2. Written(f, {"refused", "late"})' = Written(f, {"refused", "late"})
      /\ Written(f, {"writes"})' = Written(f, {"writes"})
  BY DEF Written
<1>3. \A k \in Asked(f)' \ Lost(f)' : k \in Asked(f) \ Lost(f) /\ kept'[k] = kept[k]
  BY <1>1, <1>2 DEF Lost
<1>4. ASSUME state[f] = "open" PROVE Open(f)'
  <2>1. \A k \in Asked(f)' \ Lost(f)' : \A i \in UnderWay(f)' :
          InHand(f, made[f][i], k) => InHand(f, made[f][i], k)'
    BY <1>3 DEF InHand
  <2> QED BY <1>1, <1>3, <1>4, <2>1 DEF Recorded, Open
<1>5. ASSUME state[f] \in {"unwinds", "fell"} PROVE Undone(f)'
  BY <1>1, <1>2, <1>3, <1>5 DEF Recorded, Undone
<1>6. Apart(f)'
  BY <1>1 DEF Recorded, Apart
<1> QED BY <1>1, <1>4, <1>5, <1>6 DEF Recorded

LEMMA RowsStill ==
  ASSUME NEW f \in Frames, Recorded(f), UNCHANGED <<made, journal, origin, stuck, meddled, kept>>,
         state'[f] = state[f]
  PROVE  Recorded(f)'
  BY Bystander

LEMMA LandsOnOne ==
  ASSUME RowsTyped, NEW f \in Frames, NEW k \in Rows, NEW v \in Contents,
         NEW own \in {"no", "yes", "moved"}, Lands(f, k, v, own)
  PROVE  /\ kept' \in [Rows -> Contents] /\ meddled' \in [Frames -> SUBSET Rows]
         /\ looked' \in [Frames -> {"no", "yes", "moved"}]
         /\ kept'[k] = v /\ \A j \in Rows \ {k} : kept'[j] = kept[j]
         /\ meddled'[f] = meddled[f]
         /\ \A g \in Frames \ {f} : /\ meddled[g] \subseteq meddled'[g]
                                    /\ k \in Asked(g) => k \in meddled'[g]
  BY DEF Lands, RowsTyped

(* A gesture comes to be h.                                                *)
LEMMA GestureMoves ==
  ASSUME GesturesTyped, NEW f \in Frames, NEW i \in DOMAIN made[f], NEW h \in Gesture, GestureFits(h),
         made' = [made EXCEPT ![f][i] = h]
  PROVE  /\ GesturesTyped'
         /\ DOMAIN made'[f] = DOMAIN made[f] /\ made'[f][i] = h
         /\ \A j \in DOMAIN made[f] : j # i => made'[f][j] = made[f][j]
         /\ \A g \in Frames : g # f => made'[g] = made[g]
<1>1. PICK s \in Seq(Gesture) : s = made[f]
  BY DEF GesturesTyped
<1>2. PICK q : q = [s EXCEPT ![i] = h]
  OBVIOUS
<1>3. q \in Seq(Gesture) /\ DOMAIN q = DOMAIN s /\ q[i] = h /\ \A j \in DOMAIN s : j # i => q[j] = s[j]
  BY <1>1, <1>2
<1>4. made \in [Frames -> Seq(Gesture)]
  BY DEF GesturesTyped
<1>5. made' = [made EXCEPT ![f] = q]
  BY <1>1, <1>2
<1>6. made' \in [Frames -> Seq(Gesture)] /\ made'[f] = q /\ \A g \in Frames : g # f => made'[g] = made[g]
  BY <1>3, <1>4, <1>5
<1>7. \A g \in Frames : \A j \in DOMAIN made'[g] : GestureFits(made'[g][j])
  BY <1>1, <1>3, <1>6 DEF GesturesTyped
<1> QED BY <1>1, <1>3, <1>6, <1>7 DEF GesturesTyped

(* What a frame asked stays, and what it lost.                             *)
LEMMA GestureMoved ==
  ASSUME NEW f \in Frames, NEW i \in UnderWay(f), NEW h,
         DOMAIN made'[f] = DOMAIN made[f], made'[f][i] = h,
         \A j \in DOMAIN made[f] : j # i => made'[f][j] = made[f][j],
         h.keys = made[f][i].keys, h.left \subseteq made[f][i].left
  PROVE  /\ Asked(f)' = Asked(f)
         /\ UnderWay(f)' = {j \in UnderWay(f) : j # i \/ h.stage \in {"asked", "writes"}}
         /\ Apart(f) => Apart(f)'
         /\ Written(f, {"refused", "late"}) \subseteq Written(f, {"refused", "late"})'
         /\ \A k \in h.keys \ h.left :
              /\ h.stage \in {"refused", "late"} => k \in Written(f, {"refused", "late"})'
              /\ h.stage = "writes" => k \in Written(f, {"writes"})'
         /\ \A k \in Written(f, {"writes"}) :
              k \in Written(f, {"writes"})' \/ (k \in h.keys \ h.left /\ h.stage # "writes")
<1>1. i \in DOMAIN made[f] /\ made[f][i].stage \in {"asked", "writes"}
  BY DEF UnderWay
<1>2. \A j \in DOMAIN made[f] : made'[f][j].keys = made[f][j].keys
  OBVIOUS
<1>3. Asked(f)' = Asked(f)
  <2>1. \A k : k \in Asked(f)' <=> \E j \in DOMAIN made'[f] : k \in made'[f][j].keys
    BY DEF Asked
  <2>2. \A k : k \in Asked(f)' <=> k \in Asked(f)
    BY <1>2, <2>1, RowAsked
  <2> QED BY <2>2
<1>4. UnderWay(f)' = {j \in UnderWay(f) : j # i \/ h.stage \in {"asked", "writes"}}
  BY <1>1 DEF UnderWay
<1>5. Apart(f) => Apart(f)'
  <2>1. UnderWay(f)' \subseteq UnderWay(f) /\ UnderWay(f) \subseteq DOMAIN made[f]
    BY <1>4 DEF UnderWay
  <2> QED BY <1>2, <2>1 DEF Apart
<1>6. \A k, S : k \in Written(f, S)' <=>
        \E j \in DOMAIN made'[f] : made'[f][j].stage \in S /\ k \in made'[f][j].keys /\ k \notin made'[f][j].left
  BY DEF Written
<1>7. Written(f, {"refused", "late"}) \subseteq Written(f, {"refused", "late"})'
  <2> SUFFICES ASSUME NEW k \in Written(f, {"refused", "late"})
               PROVE  k \in Written(f, {"refused", "late"})'
    OBVIOUS
  <2>2. PICK j \in DOMAIN made[f] :
          made[f][j].stage \in {"refused", "late"} /\ k \in made[f][j].keys /\ k \notin made[f][j].left
    BY RowWritten
  <2>3. j # i
    BY <1>1, <2>2
  <2> QED BY <1>6, <2>2, <2>3
<1>8. ASSUME NEW k \in Written(f, {"writes"}), ~(k \in h.keys \ h.left /\ h.stage # "writes")
      PROVE  k \in Written(f, {"writes"})'
  <2>1. PICK j \in DOMAIN made[f] :
          made[f][j].stage \in {"writes"} /\ k \in made[f][j].keys /\ k \notin made[f][j].left
    BY <1>8, RowWritten
  <2> QED BY <1>6, <1>8, <2>1
<1>9. \A k \in h.keys \ h.left :
        /\ h.stage \in {"refused", "late"} => k \in Written(f, {"refused", "late"})'
        /\ h.stage = "writes" => k \in Written(f, {"writes"})'
  BY <1>1, <1>6
<1> QED BY <1>3, <1>4, <1>5, <1>7, <1>8, <1>9
-----------------------------------------------------------------------------
(* No frame is open at first.                                              *)
LEMMA FramesAtFirst == FramesBegin => FramesInv
<1> SUFFICES ASSUME FramesBegin PROVE FramesInv
  OBVIOUS
<1>1. PICK how \in {"new", "refused"} : TogetherInitIn(how)
  BY DEF FramesBegin, TogetherInit
<1>2. FramesTyped /\ RowsTyped
  BY <1>1 DEF TogetherInitIn, FramesTyped, RowsTyped, Contents, Ended
<1>3. \A f \in Frames : made[f] = <<>> /\ journal[f] = <<>> /\ state[f] = how
  BY <1>1 DEF TogetherInitIn
<1>4. GesturesTyped /\ InversesTyped
  BY <1>1, <1>3 DEF TogetherInitIn, GesturesTyped, InversesTyped
<1>5. \A f \in Frames : UnderWay(f) = {}
  BY <1>3 DEF UnderWay
<1>6. \A f \in Frames : Recorded(f)
  BY <1>3, <1>5 DEF Recorded, Apart
<1> QED BY <1>2, <1>4, <1>6 DEF FramesInv, FramesShape

(* A frame with no gesture yet is accounted for, open or not.              *)
LEMMA OpeningSafe ==
  ASSUME FramesInv, NEW f \in Frames, Opens(f) \/ GivesUp(f)
  PROVE  FramesInv'
<1>1. /\ state[f] \in {"new", "waits"} /\ UNCHANGED <<context, inside, said, awaited, rowVars>>
      /\ \E s \in {"open", "refused", "waits"} : state' = [state EXCEPT ![f] = s]
  BY DEF Opens, GivesUp, Becomes
<1>2. state' \in [Frames -> {"new", "waits", "open", "unwinds"} \cup Ended]
      /\ state'[f] \in {"open", "refused", "waits"} /\ \A g \in Frames : g # f => state'[g] = state[g]
  BY <1>1 DEF FramesInv, FramesShape, FramesTyped, Ended
<1>3. FramesShape'
  BY <1>1, <1>2 DEF FramesInv, FramesShape, FramesTyped, RowsTyped, GesturesTyped, InversesTyped, rowVars
<1>4. made'[f] = <<>> /\ journal'[f] = <<>>
  BY <1>1 DEF FramesInv, Recorded, rowVars
<1>5. Asked(f)' = {} /\ UnderWay(f)' = {}
  BY <1>4 DEF Asked, UnderWay
<1>6. Recorded(f)'
  BY <1>2, <1>4, <1>5 DEF Recorded, Open, Apart
<1>7. \A g \in Frames : g # f => Recorded(g)'
  <2>1. TAKE g \in Frames
  <2>2. HAVE g # f
  <2> QED BY <1>1, <1>2, <2>2, RowsStill DEF FramesInv, rowVars
<1> QED BY <1>3, <1>6, <1>7 DEF FramesInv

LEMMA SayingSafe ==
  ASSUME FramesInv, NEW f \in Frames, (\E await \in BOOLEAN : Announces(f, await)) \/ GoesOut(f)
  PROVE  FramesInv'
<1>1. UNCHANGED <<context, inside, state, rowVars>>
  BY DEF Announces, GoesOut
<1>2. said' \in [Frames -> {"nothing", "waits", "out", "refused"}] /\ awaited' \in [Frames -> BOOLEAN]
  BY DEF Announces, GoesOut, FramesInv, FramesShape, FramesTyped
<1>3. FramesShape'
  BY <1>1, <1>2 DEF FramesInv, FramesShape, FramesTyped, RowsTyped, GesturesTyped, InversesTyped, rowVars
<1>4. \A g \in Frames : Recorded(g)'
  BY <1>1, RowsStill DEF FramesInv, rowVars
<1> QED BY <1>3, <1>4 DEF FramesInv

(* A body that returns, and a journal that is replayed to its end.         *)
LEMMA EndingSafe ==
  ASSUME FramesInv, NEW f \in Frames, BodyReturns(f) \/ Falls(f)
  PROVE  FramesInv'
<1>1. /\ UNCHANGED <<context, inside, said, awaited, rowVars>>
      /\ \/ state' = [state EXCEPT ![f] = "stands"]
         \/ state' = [state EXCEPT ![f] = "fell"] /\ state[f] = "unwinds" /\ journal[f] = <<>>
  BY DEF BodyReturns, Falls, Becomes
<1>2. /\ state' \in [Frames -> {"new", "waits", "open", "unwinds"} \cup Ended]
      /\ \A g \in Frames : g # f => state'[g] = state[g]
      /\ state'[f] = "stands" \/ (state'[f] = "fell" /\ state[f] = "unwinds" /\ journal[f] = <<>>)
  BY <1>1 DEF FramesInv, FramesShape, FramesTyped, Ended
<1>3. FramesShape'
  BY <1>1, <1>2 DEF FramesInv, FramesShape, FramesTyped, RowsTyped, GesturesTyped, InversesTyped, rowVars
<1>4. Recorded(f)
  BY DEF FramesInv
<1>5. /\ Asked(f)' = Asked(f) /\ UnderWay(f)' = UnderWay(f) /\ Lost(f)' = Lost(f)
      /\ Written(f, {"writes"})' = Written(f, {"writes"})
  BY <1>1 DEF rowVars, Asked, UnderWay, Lost, Written
<1>6. Apart(f)' /\ \A i \in DOMAIN journal'[f] : journal'[f][i].keys \subseteq Asked(f)'
  BY <1>1, <1>4, <1>5 DEF rowVars, Recorded, Apart
<1>7. state[f] = "unwinds" => Undone(f)'
  BY <1>1, <1>4, <1>5 DEF rowVars, Recorded, Undone
<1>8. Recorded(f)'
  BY <1>1, <1>2, <1>6, <1>7 DEF Recorded, rowVars
<1>9. \A g \in Frames : g # f => Recorded(g)'
  <2>1. TAKE g \in Frames
  <2>2. HAVE g # f
  <2> QED BY <1>1, <1>2, <2>2, RowsStill DEF FramesInv, rowVars
<1> QED BY <1>3, <1>8, <1>9 DEF FramesInv

(* What an open frame noted of a row that no gesture of it has in hand, or *)
(* that one has yet to write, is a chain that leads to what the row holds. *)
LEMMA OpenChain ==
  ASSUME NEW f \in Frames, Open(f), NEW k \in Asked(f) \ Lost(f),
         \A i \in UnderWay(f) : k \in made[f][i].keys => k \in made[f][i].left
  PROVE  Grown(journal[f], k, f, kept[k], origin[f][k])
  BY DEF Open, InHand

(* A body that throws: its journal is turned round.                        *)
LEMMA ThrowingSafe ==
  ASSUME FramesInv, NEW f \in Frames, BodyThrows(f)
  PROVE  FramesInv'
<1>1. /\ UNCHANGED <<context, inside, said, awaited, kept, made, looked, stuck, origin, meddled>>
      /\ state' = [state EXCEPT ![f] = "unwinds"] /\ state[f] = "open"
      /\ journal' = [journal EXCEPT ![f] = LastFirst(journal[f])]
  BY DEF BodyThrows, BodyFree, Becomes
<1>2. /\ state' \in [Frames -> {"new", "waits", "open", "unwinds"} \cup Ended] /\ state'[f] = "unwinds"
      /\ \A g \in Frames : g # f => state'[g] = state[g]
  BY <1>1 DEF FramesInv, FramesShape, FramesTyped
<1>3. PICK s \in Seq(Undo) : s = journal[f]
  BY DEF FramesInv, FramesShape, InversesTyped
<1>4. /\ LastFirst(s) \in Seq(Undo) /\ DOMAIN LastFirst(s) = DOMAIN s
      /\ \A i \in DOMAIN s : \E j \in DOMAIN s : LastFirst(s)[i] = s[j]
  <2>1. Len(s) \in Nat /\ DOMAIN s = 1 .. Len(s)
    OBVIOUS
  <2>2. \A i \in 1 .. Len(s) : Len(s) + 1 - i \in 1 .. Len(s)
    BY <2>1
  <2> QED BY <2>1, <2>2 DEF LastFirst
<1>5. PICK q : q = LastFirst(s)
  OBVIOUS
<1>6. journal' \in [Frames -> Seq(Undo)] /\ journal'[f] = q /\ \A g \in Frames : g # f => journal'[g] = journal[g]
  BY <1>1, <1>3, <1>4, <1>5 DEF FramesInv, FramesShape, InversesTyped
<1>7. \A g \in Frames : \A i \in DOMAIN journal'[g] : InverseFits(journal'[g][i])
  <2>1. \A g \in Frames : \A i \in DOMAIN journal[g] : InverseFits(journal[g][i])
    BY DEF FramesInv, FramesShape, InversesTyped
  <2>2. \A i \in DOMAIN q : InverseFits(q[i])
    BY <1>3, <1>4, <1>5, <2>1
  <2> QED BY <1>6, <2>1, <2>2
<1>8. FramesShape'
  BY <1>1, <1>2, <1>6, <1>7 DEF FramesInv, FramesShape, FramesTyped, RowsTyped, GesturesTyped, InversesTyped
<1>9. Recorded(f) /\ Open(f)
  BY <1>1 DEF FramesInv, Recorded
<1>10. /\ Asked(f)' = Asked(f) /\ UnderWay(f)' = UnderWay(f) /\ Lost(f)' = Lost(f)
       /\ Written(f, {"writes"})' = Written(f, {"writes"})
  BY <1>1 DEF Asked, UnderWay, Lost, Written
<1>11. Undone(f)'
  <2> SUFFICES ASSUME NEW k \in Asked(f) \ (Lost(f) \cup Written(f, {"writes"}))
               PROVE  Replays(q, k, f, kept[k], origin[f][k])
    BY <1>1, <1>6, <1>10 DEF Undone
  <2>1. ASSUME NEW i \in UnderWay(f), k \in made[f][i].keys PROVE k \in made[f][i].left
    <3>1. i \in DOMAIN made[f] /\ made[f][i].stage \in {"asked", "writes"}
      BY DEF UnderWay
    <3>2. GestureFits(made[f][i])
      BY <3>1 DEF FramesInv, FramesShape, GesturesTyped
    <3>3. CASE made[f][i].stage = "asked"
      BY <2>1, <3>2, <3>3 DEF GestureFits
    <3>4. CASE made[f][i].stage = "writes"
      BY <2>1, <3>1, <3>4, RowWritten
    <3> QED BY <3>1, <3>3, <3>4
  <2>2. Grown(s, k, f, kept[k], origin[f][k])
    BY <1>3, <1>9, <2>1, OpenChain
  <2> QED BY <1>5, <2>2, ChainTurns
<1>12. Apart(f)' /\ \A i \in DOMAIN journal'[f] : journal'[f][i].keys \subseteq Asked(f)'
  <2>1. Apart(f)'
    BY <1>1, <1>9, <1>10 DEF Recorded, Apart
  <2> QED BY <1>3, <1>4, <1>5, <1>6, <1>9, <1>10, <2>1 DEF Recorded
<1>13. Recorded(f)'
  BY <1>2, <1>11, <1>12 DEF Recorded
<1>14. \A g \in Frames : g # f => Recorded(g)'
  <2>1. TAKE g \in Frames
  <2>2. HAVE g # f
  <2> QED BY <1>1, <1>2, <1>6, <2>2, Bystander DEF FramesInv
<1> QED BY <1>8, <1>13, <1>14 DEF FramesInv
-----------------------------------------------------------------------------
(* A body that asks: what the rows hold is what its journal leads to.      *)
LEMMA AskingSafe ==
  ASSUME FramesInv, NEW f \in Frames, NEW g \in Gestures[f], Asks(f, g)
  PROVE  FramesInv'
<1>1. /\ UNCHANGED <<frameVars, kept, journal, looked, stuck, meddled>> /\ state[f] = "open"
      /\ \A i \in UnderWay(f) : made[f][i].keys \cap g.keys = {}
  BY DEF Asks, BodyFree
<1>2. g.kind \in Kinds /\ g.keys \in (SUBSET Rows) \ {{}} /\ (g.kind = "delete" => \E k \in Rows : g.keys = {k})
  BY GesturesHaveRows
<1>3. PICK h : h = [kind |-> g.kind, keys |-> g.keys, left |-> g.keys, before |-> <<>>,
                    stage |-> IF g.kind = "create" THEN "writes" ELSE "asked"]
  OBVIOUS
<1>4. /\ h \in Gesture /\ GestureFits(h) /\ h.keys = g.keys /\ h.left = g.keys /\ h.kind = g.kind
      /\ h.stage \in {"asked", "writes"} /\ (h.stage = "writes" => h.kind = "create")
  BY <1>2, <1>3 DEF Gesture, GestureFits, Befores
<1>5. PICK s \in Seq(Gesture) : s = made[f]
  BY DEF FramesInv, FramesShape, GesturesTyped
<1>6. PICK n : n = Len(s) + 1
  OBVIOUS
<1>7. PICK q : q = Append(s, h)
  OBVIOUS
<1>8. /\ q \in Seq(Gesture) /\ n \in Nat \ {0} /\ DOMAIN s = 1 .. (n - 1) /\ DOMAIN q = 1 .. n
      /\ q[n] = h /\ \A i \in DOMAIN s : q[i] = s[i]
  BY <1>4, <1>5, <1>6, <1>7
<1>9. made' = [made EXCEPT ![f] = q]
  BY <1>3, <1>5, <1>7 DEF Asks
<1>10. made' \in [Frames -> Seq(Gesture)] /\ made'[f] = q /\ \A c \in Frames : c # f => made'[c] = made[c]
  BY <1>8, <1>9 DEF FramesInv, FramesShape, GesturesTyped
<1>11. DOMAIN q = DOMAIN s \cup {n} /\ n \notin DOMAIN s
  BY <1>8
<1>12. GesturesTyped'
  <2>1. \A c \in Frames : \A i \in DOMAIN made[c] : GestureFits(made[c][i])
    BY DEF FramesInv, FramesShape, GesturesTyped
  <2>2. \A i \in DOMAIN q : GestureFits(q[i])
    BY <1>4, <1>5, <1>8, <1>11, <2>1
  <2> QED BY <1>10, <2>1, <2>2 DEF GesturesTyped
<1>13. /\ origin' \in [Frames -> [Rows -> Contents]]
       /\ \A c \in Frames : c # f => origin'[c] = origin[c]
       /\ \A k \in Rows : origin'[f][k] = IF k \in g.keys \ Asked(f) THEN kept[k] ELSE origin[f][k]
  <2>1. PICK o : o = [k \in Rows |-> IF k \in g.keys \ Asked(f) THEN kept[k] ELSE origin[f][k]]
    OBVIOUS
  <2>2. origin \in [Frames -> [Rows -> Contents]] /\ kept \in [Rows -> Contents]
    BY DEF FramesInv, FramesShape, RowsTyped
  <2>3. origin' = [origin EXCEPT ![f] = o]
    BY <2>1 DEF Asks
  <2>4. o \in [Rows -> Contents]
    BY <2>1, <2>2
  <2> QED BY <2>1, <2>2, <2>3, <2>4
<1>14. FramesShape'
  BY <1>1, <1>12, <1>13 DEF FramesInv, FramesShape, FramesTyped, RowsTyped, InversesTyped, frameVars
<1>15. Recorded(f) /\ Open(f) /\ Apart(f)
  BY <1>1 DEF FramesInv, Recorded
<1>16. /\ Asked(f)' = Asked(f) \cup g.keys /\ UnderWay(f)' = UnderWay(f) \cup {n}
       /\ Written(f, {"refused", "late"})' = Written(f, {"refused", "late"})
  <2>1. \A k : k \in Asked(f)' <=> \E i \in DOMAIN q : k \in q[i].keys
    BY <1>10 DEF Asked
  <2>2. \A k : k \in Asked(f)' <=> k \in Asked(f) \/ k \in g.keys
    <3>1. \A k : k \in Asked(f) <=> \E i \in DOMAIN s : k \in q[i].keys
      BY <1>5, <1>8, RowAsked
    <3> QED BY <1>4, <1>8, <1>11, <2>1, <3>1
  <2>3. UnderWay(f)' = UnderWay(f) \cup {n}
    <3>1. \A i \in DOMAIN s : q[i] = made[f][i]
      BY <1>5, <1>8
    <3>2. UnderWay(f)' = {i \in DOMAIN q : q[i].stage \in {"asked", "writes"}}
      BY <1>10 DEF UnderWay
    <3>3. UnderWay(f) = {i \in DOMAIN s : made[f][i].stage \in {"asked", "writes"}}
      BY <1>5 DEF UnderWay
    <3> QED BY <1>4, <1>8, <1>11, <3>1, <3>2, <3>3
  <2>4. \A k : k \in Written(f, {"refused", "late"})' <=>
          \E i \in DOMAIN q : q[i].stage \in {"refused", "late"} /\ k \in q[i].keys /\ k \notin q[i].left
    BY <1>10 DEF Written
  <2>5. \A k : k \in Written(f, {"refused", "late"})' <=> k \in Written(f, {"refused", "late"})
    BY <1>4, <1>5, <1>8, <1>11, <2>4, RowWritten
  <2> QED BY <2>2, <2>3, <2>5
<1>17. Lost(f)' = Lost(f)
  BY <1>1, <1>16 DEF Lost
<1>18. \A i \in UnderWay(f) : i \in DOMAIN s /\ i # n /\ made'[f][i] = made[f][i]
  BY <1>5, <1>8, <1>10, <1>11 DEF UnderWay
<1>19. Apart(f)'
  <2>1. \A i \in UnderWay(f) : made'[f][i].keys \cap made'[f][n].keys = {}
    BY <1>1, <1>4, <1>8, <1>10, <1>18
  <2>2. \A i, j \in UnderWay(f) : i # j => made'[f][i].keys \cap made'[f][j].keys = {}
    BY <1>15, <1>18 DEF Apart
  <2> QED BY <1>16, <2>1, <2>2 DEF Apart
<1>20. \A i \in DOMAIN journal[f] : journal[f][i].keys \subseteq Asked(f)
  BY <1>15 DEF Recorded
<1>21. ASSUME NEW k \in g.keys, k \notin Lost(f)
       PROVE  Grown(journal[f], k, f, kept[k], origin'[f][k])
  <2>1. k \in Rows /\ \A i \in UnderWay(f) : k \notin made[f][i].keys
    BY <1>1, <1>2, <1>21
  <2>2. CASE k \in Asked(f)
    BY <1>13, <1>15, <1>21, <2>1, <2>2 DEF Open
  <2>3. CASE k \notin Asked(f)
    <3>1. Of(journal[f], k) = {} /\ origin'[f][k] = kept[k]
      BY <1>13, <1>20, <2>1, <2>3 DEF Of
    <3> QED BY <3>1 DEF Grown
  <2> QED BY <2>2, <2>3
<1>22. ASSUME NEW k \in Asked(f) \ Lost(f), k \notin g.keys
       PROVE  k \in Rows /\ origin'[f][k] = origin[f][k]
  <2>1. k \in Rows
    <3>1. PICK i \in DOMAIN made[f] : k \in made[f][i].keys
      BY <1>22, RowAsked
    <3>2. made[f][i] \in Gesture
      BY <1>5, <3>1
    <3> QED BY <3>1, <3>2 DEF Gesture
  <2> QED BY <1>13, <1>22, <2>1
<1>23. ASSUME NEW k \in Asked(f)' \ Lost(f)', NEW i \in UnderWay(f)', k \in made'[f][i].keys
       PROVE  InHand(f, made[f][i], k)'
  <2>1. CASE i = n
    <3>1. made'[f][i] = h /\ k \in g.keys /\ k \notin Lost(f)
      BY <1>4, <1>8, <1>10, <1>17, <1>23, <2>1
    <3>2. Grown(journal[f], k, f, kept[k], origin'[f][k])
      BY <1>21, <3>1
    <3> QED BY <1>1, <1>4, <3>1, <3>2 DEF InHand
  <2>2. CASE i # n
    <3>1. i \in UnderWay(f) /\ made'[f][i] = made[f][i] /\ k \notin g.keys
      BY <1>1, <1>16, <1>18, <1>23, <2>2
    <3>2. k \in Asked(f) \ Lost(f)
      BY <1>16, <1>17, <1>23, <3>1
    <3>3. InHand(f, made[f][i], k) /\ origin'[f][k] = origin[f][k]
      BY <1>15, <1>22, <1>23, <3>1, <3>2 DEF Open
    <3> QED BY <1>1, <3>1, <3>3 DEF InHand
  <2> QED BY <2>1, <2>2
<1>24. ASSUME NEW k \in Asked(f)' \ Lost(f)', \A i \in UnderWay(f)' : k \notin made'[f][i].keys
       PROVE  Grown(journal[f], k, f, kept[k], origin'[f][k])
  <2>1. k \notin g.keys /\ k \in Asked(f) \ Lost(f)
    BY <1>4, <1>8, <1>10, <1>16, <1>17, <1>24
  <2>2. \A i \in UnderWay(f) : k \notin made[f][i].keys
    BY <1>16, <1>18, <1>24
  <2> QED BY <1>15, <1>22, <2>1, <2>2 DEF Open
<1>25. Open(f)'
  BY <1>1, <1>23, <1>24 DEF Open
<1>26. Recorded(f)'
  BY <1>1, <1>16, <1>19, <1>20, <1>25 DEF Recorded, frameVars
<1>27. \A c \in Frames : c # f => Recorded(c)'
  <2>1. TAKE c \in Frames
  <2>2. HAVE c # f
  <2> QED BY <1>1, <1>10, <1>13, <2>2, Bystander DEF FramesInv, frameVars
<1> QED BY <1>14, <1>26, <1>27 DEF FramesInv
-----------------------------------------------------------------------------
(* A read before a write: what the gesture read is what the row holds.     *)
LEMMA ReadingSafe ==
  ASSUME FramesInv, NEW f \in Frames, NEW i \in DOMAIN made[f], ReadsBefore(f, i)
  PROVE  FramesInv'
<1>1. UNCHANGED <<frameVars, kept, journal, looked, stuck, origin, meddled>> /\ made[f][i].stage = "asked"
  BY DEF ReadsBefore
<1>2. PICK g : g = made[f][i]
  OBVIOUS
<1>3. g \in Gesture /\ GestureFits(g)
  BY <1>2 DEF FramesInv, FramesShape, GesturesTyped
<1>4. PICK h : h = [g EXCEPT !.before = kept, !.stage = "writes"]
  OBVIOUS
<1>5. /\ h \in Gesture /\ h.kind = g.kind /\ h.keys = g.keys /\ h.left = g.left /\ h.before = kept
      /\ h.stage = "writes"
  BY <1>3, <1>4 DEF Gesture, Befores, FramesInv, FramesShape, RowsTyped
<1>6. GestureFits(h) /\ h.left = h.keys
  BY <1>1, <1>2, <1>3, <1>5 DEF GestureFits, FramesInv, FramesShape, RowsTyped
<1>7. made' = [made EXCEPT ![f][i] = h]
  BY <1>2, <1>4 DEF ReadsBefore
<1>8. /\ GesturesTyped' /\ DOMAIN made'[f] = DOMAIN made[f] /\ made'[f][i] = h
      /\ \A j \in DOMAIN made[f] : j # i => made'[f][j] = made[f][j]
      /\ \A c \in Frames : c # f => made'[c] = made[c]
  BY <1>5, <1>6, <1>7, GestureMoves DEF FramesInv, FramesShape
<1>9. FramesShape'
  BY <1>1, <1>8 DEF FramesInv, FramesShape, FramesTyped, RowsTyped, InversesTyped, frameVars
<1>10. i \in UnderWay(f)
  BY <1>1 DEF UnderWay
<1>11. /\ Asked(f)' = Asked(f) /\ UnderWay(f)' = UnderWay(f) /\ (Apart(f) => Apart(f)')
       /\ Written(f, {"refused", "late"}) \subseteq Written(f, {"refused", "late"})'
       /\ Written(f, {"writes"}) \subseteq Written(f, {"writes"})'
  <2>1. /\ Asked(f)' = Asked(f) /\ (Apart(f) => Apart(f)')
        /\ UnderWay(f)' = {j \in UnderWay(f) : j # i \/ h.stage \in {"asked", "writes"}}
        /\ Written(f, {"refused", "late"}) \subseteq Written(f, {"refused", "late"})'
        /\ \A k \in Written(f, {"writes"}) :
              k \in Written(f, {"writes"})' \/ (k \in h.keys \ h.left /\ h.stage # "writes")
    BY <1>2, <1>5, <1>8, <1>10, GestureMoved
  <2> QED BY <1>5, <2>1
<1>12. Recorded(f)
  BY DEF FramesInv
<1>13. Lost(f) \subseteq Lost(f)'
  BY <1>1, <1>11 DEF Lost
<1>14. ASSUME state[f] = "open" PROVE Open(f)'
  <2>1. Open(f)
    BY <1>12, <1>14 DEF Recorded
  <2>2. ASSUME NEW k \in Asked(f) \ Lost(f), NEW j \in UnderWay(f), k \in made'[f][j].keys
        PROVE  InHand(f, made[f][j], k)'
    <3>1. CASE j = i
      <4>1. k \in g.left /\ InHand(f, g, k)
        BY <1>2, <1>5, <1>6, <1>8, <2>1, <2>2, <3>1 DEF Open
      <4>2. Grown(journal[f], k, f, kept[k], origin[f][k])
        BY <4>1 DEF InHand
      <4> QED BY <1>1, <1>5, <1>6, <1>8, <3>1, <4>1, <4>2 DEF InHand
    <3>2. CASE j # i
      <4>1. made'[f][j] = made[f][j]
        BY <1>8, <2>2, <3>2 DEF UnderWay
      <4>2. InHand(f, made[f][j], k)
        BY <2>1, <2>2, <4>1 DEF Open
      <4> QED BY <1>1, <4>1, <4>2 DEF InHand
    <3> QED BY <3>1, <3>2
  <2>3. ASSUME NEW k \in Asked(f) \ Lost(f), \A j \in UnderWay(f) : k \notin made'[f][j].keys
        PROVE  Grown(journal[f], k, f, kept[k], origin[f][k])
    <3>1. \A j \in UnderWay(f) : k \notin made[f][j].keys
      BY <1>2, <1>5, <1>8, <2>3 DEF UnderWay
    <3> QED BY <2>1, <2>3, <3>1 DEF Open
  <2> QED BY <1>1, <1>11, <1>13, <2>2, <2>3 DEF Open
<1>15. ASSUME state[f] \in {"unwinds", "fell"} PROVE Undone(f)'
  BY <1>1, <1>11, <1>12, <1>13, <1>15 DEF Recorded, Undone
<1>16. Recorded(f)'
  <2>1. made[f] # <<>>
    OBVIOUS
  <2>2. state[f] \notin {"new", "waits", "refused"}
    BY <1>12, <2>1 DEF Recorded
  <2> QED BY <1>1, <1>11, <1>12, <1>14, <1>15, <2>2 DEF Recorded, frameVars
<1>17. \A c \in Frames : c # f => Recorded(c)'
  <2>1. TAKE c \in Frames
  <2>2. HAVE c # f
  <2> QED BY <1>1, <1>8, <2>2, Bystander DEF FramesInv, frameVars
<1> QED BY <1>9, <1>16, <1>17 DEF FramesInv

(* A gesture that refuses: the rows it wrote are lost.                     *)
LEMMA RefusingSafe ==
  ASSUME FramesInv, NEW f \in Frames, NEW i \in DOMAIN made[f], Refused(f, i) \/ GestureFails(f, i)
  PROVE  FramesInv'
<1>1. /\ UNCHANGED <<frameVars, kept, journal, looked, stuck, origin, meddled>>
      /\ made[f][i].stage \in {"asked", "writes"}
  BY DEF Refused, GestureFails
<1>2. PICK g : g = made[f][i]
  OBVIOUS
<1>3. g \in Gesture /\ GestureFits(g)
  BY <1>2 DEF FramesInv, FramesShape, GesturesTyped
<1>4. PICK h : h = [g EXCEPT !.stage = Settled(f, "refused"), !.before = <<>>]
  OBVIOUS
<1>5. h \in Gesture /\ h.keys = g.keys /\ h.left = g.left /\ h.kind = g.kind /\ h.stage \in {"refused", "late"}
  BY <1>3, <1>4 DEF Gesture, Befores, Settled
<1>6. GestureFits(h)
  BY <1>3, <1>5 DEF GestureFits
<1>7. made' = [made EXCEPT ![f][i] = h]
  BY <1>2, <1>4 DEF Refused, GestureFails
<1>8. /\ GesturesTyped' /\ DOMAIN made'[f] = DOMAIN made[f] /\ made'[f][i] = h
      /\ \A j \in DOMAIN made[f] : j # i => made'[f][j] = made[f][j]
      /\ \A c \in Frames : c # f => made'[c] = made[c]
  BY <1>5, <1>6, <1>7, GestureMoves DEF FramesInv, FramesShape
<1>9. FramesShape'
  BY <1>1, <1>8 DEF FramesInv, FramesShape, FramesTyped, RowsTyped, InversesTyped, frameVars
<1>10. i \in UnderWay(f)
  BY <1>1 DEF UnderWay
<1>11. /\ Asked(f)' = Asked(f) /\ UnderWay(f)' = UnderWay(f) \ {i} /\ (Apart(f) => Apart(f)')
       /\ Written(f, {"refused", "late"}) \subseteq Written(f, {"refused", "late"})'
       /\ g.keys \ g.left \subseteq Written(f, {"refused", "late"})'
       /\ Written(f, {"writes"}) \subseteq Written(f, {"writes"})' \cup Written(f, {"refused", "late"})'
  <2>1. /\ Asked(f)' = Asked(f) /\ (Apart(f) => Apart(f)')
        /\ UnderWay(f)' = {j \in UnderWay(f) : j # i \/ h.stage \in {"asked", "writes"}}
        /\ Written(f, {"refused", "late"}) \subseteq Written(f, {"refused", "late"})'
        /\ \A k \in h.keys \ h.left : h.stage \in {"refused", "late"} => k \in Written(f, {"refused", "late"})'
        /\ \A k \in Written(f, {"writes"}) :
              k \in Written(f, {"writes"})' \/ (k \in h.keys \ h.left /\ h.stage # "writes")
    BY <1>2, <1>5, <1>8, <1>10, GestureMoved
  <2> QED BY <1>5, <2>1
<1>12. Recorded(f)
  BY DEF FramesInv
<1>13. Lost(f) \subseteq Lost(f)' /\ g.keys \ g.left \subseteq Lost(f)'
       /\ Lost(f) \cup Written(f, {"writes"}) \subseteq Lost(f)' \cup Written(f, {"writes"})'
  BY <1>1, <1>11 DEF Lost
<1>14. ASSUME state[f] = "open" PROVE Open(f)'
  <2>1. Open(f)
    BY <1>12, <1>14 DEF Recorded
  <2>2. \A j \in UnderWay(f)' : j \in UnderWay(f) /\ j # i /\ made'[f][j] = made[f][j]
    BY <1>8, <1>11 DEF UnderWay
  <2>3. ASSUME NEW k \in Asked(f) \ Lost(f)', NEW j \in UnderWay(f)', k \in made'[f][j].keys
        PROVE  InHand(f, made[f][j], k)'
    <3>1. InHand(f, made[f][j], k)
      BY <1>13, <2>1, <2>2, <2>3 DEF Open
    <3> QED BY <1>1, <2>2, <3>1 DEF InHand
  <2>4. ASSUME NEW k \in Asked(f) \ Lost(f)', \A j \in UnderWay(f)' : k \notin made'[f][j].keys
        PROVE  Grown(journal[f], k, f, kept[k], origin[f][k])
    <3>1. \A j \in UnderWay(f) : k \in made[f][j].keys => k \in made[f][j].left
      BY <1>2, <1>11, <1>13, <2>2, <2>4
    <3> QED BY <1>13, <2>1, <2>4, <3>1, OpenChain
  <2> QED BY <1>1, <1>11, <2>3, <2>4 DEF Open
<1>15. ASSUME state[f] \in {"unwinds", "fell"} PROVE Undone(f)'
  BY <1>1, <1>11, <1>12, <1>13, <1>15 DEF Recorded, Undone
<1>16. Recorded(f)'
  <2>1. state[f] \notin {"new", "waits", "refused"}
    BY <1>12 DEF Recorded
  <2> QED BY <1>1, <1>11, <1>12, <1>14, <1>15, <2>1 DEF Recorded, frameVars
<1>17. \A c \in Frames : c # f => Recorded(c)'
  <2>1. TAKE c \in Frames
  <2>2. HAVE c # f
  <2> QED BY <1>1, <1>8, <2>2, Bystander DEF FramesInv, frameVars
<1> QED BY <1>9, <1>16, <1>17 DEF FramesInv
-----------------------------------------------------------------------------
(* What a gesture found of a row it is about to write: what the journal    *)
(* leads to is what its inverse will put back, and there is one to note    *)
(* unless it deletes what is not there.                                    *)
LEMMA WritesWhatItRead ==
  ASSUME NEW f \in Frames, NEW g \in Gesture, GestureFits(g), NEW k \in g.left,
         g.stage = "writes", Judged(g), InHand(f, g, k)
  PROVE  /\ Grown(journal[f], k, f, kept[k], origin[f][k]) /\ Back(g, k) = kept[k]
         /\ (g.kind = "delete" /\ kept[k] = "absent") \/ g.kind = "upsert" \/ k \in Had(g)
         /\ g.kind = "update" => g.before[k] # "absent"
<1>1. /\ Grown(journal[f], k, f, kept[k], origin[f][k])
      /\ g.kind # "create" => g.before[k] = kept[k]
      /\ g.left # g.keys => (g.kind = "create" => kept[k] = "absent") /\ (g.kind = "update" => kept[k] # "absent")
  BY DEF InHand
<1>2. k \in g.keys /\ g.kind \in Kinds
  BY DEF GestureFits, Gesture
<1>3. (g.kind = "create" => kept[k] = "absent") /\ (g.kind = "update" => kept[k] # "absent")
  BY <1>1, <1>2 DEF Judged
<1>4. Back(g, k) = kept[k]
  BY <1>1, <1>3 DEF Back
<1>5. (g.kind = "delete" /\ kept[k] = "absent") \/ g.kind = "upsert" \/ k \in Had(g)
  BY <1>1, <1>2, <1>3 DEF Had, Kinds
<1> QED BY <1>1, <1>3, <1>4, <1>5

(* A row is written; the last one of a gesture has its inverses noted.     *)
LEMMA WritingSafe ==
  ASSUME FramesInv, NEW f \in Frames, NEW i \in DOMAIN made[f], WritesRow(f, i)
  PROVE  FramesInv'
<1>1. PICK g : g = made[f][i]
  OBVIOUS
<1>2. g \in Gesture /\ GestureFits(g)
  BY <1>1 DEF FramesInv, FramesShape, GesturesTyped
<1>3. PICK x : x = Min(g.left)
  OBVIOUS
<1>4. g.stage = "writes" /\ Judged(g) /\ UNCHANGED <<frameVars, stuck, origin>>
  BY <1>1 DEF WritesRow
<1>5. x \in g.left /\ x \in g.keys /\ x \in Rows /\ g.left \subseteq g.keys /\ g.keys \subseteq Rows
  <2>1. g.left # {} /\ g.left \subseteq g.keys /\ g.keys \subseteq Rows
    BY <1>2, <1>4 DEF GestureFits, Gesture
  <2>2. g.left \in SUBSET Nat
    BY <2>1, RowsAreKeys
  <2> QED BY <1>3, <2>1, <2>2, MinIsLeast
<1> DEFINE last == g.left = {x}
           gone == g.kind = "delete" /\ kept[x] = "absent"
<1>6. PICK h : h = [g EXCEPT !.left = @ \ {x}, !.stage = IF last THEN Settled(f, "noted") ELSE @,
                            !.before = IF last THEN <<>> ELSE @]
  OBVIOUS
<1>7. made' = [made EXCEPT ![f][i] = h]
  <2>1. made' = [made EXCEPT ![f][i] =
          [made[f][i] EXCEPT !.left = @ \ {Min(made[f][i].left)},
             !.stage = IF made[f][i].left = {Min(made[f][i].left)} THEN Settled(f, "noted") ELSE @,
             !.before = IF made[f][i].left = {Min(made[f][i].left)} THEN <<>> ELSE @]]
    BY DEF WritesRow
  <2> QED BY <1>1, <1>3, <1>6, <2>1
<1>8. /\ h \in Gesture /\ h.keys = g.keys /\ h.kind = g.kind /\ h.left = g.left \ {x}
      /\ last => h.stage = IF state[f] = "open" THEN "noted" ELSE "late"
      /\ ~last => h.stage = "writes" /\ h.before = g.before
  BY <1>2, <1>4, <1>6 DEF Gesture, Befores, Settled
<1>9. g.kind = "delete" => last
  BY <1>2, <1>5 DEF GestureFits
<1>10. GestureFits(h)
  BY <1>2, <1>4, <1>5, <1>8, <1>9 DEF GestureFits
<1>11. /\ GesturesTyped' /\ DOMAIN made'[f] = DOMAIN made[f] /\ made'[f][i] = h
       /\ \A j \in DOMAIN made[f] : j # i => made'[f][j] = made[f][j]
       /\ \A c \in Frames : c # f => made'[c] = made[c]
  BY <1>7, <1>8, <1>10, GestureMoves DEF FramesInv, FramesShape
<1>12. /\ kept' \in [Rows -> Contents] /\ meddled' \in [Frames -> SUBSET Rows]
       /\ looked' \in [Frames -> {"no", "yes", "moved"}] /\ meddled'[f] = meddled[f]
       /\ kept'[x] = After(g, f) /\ \A k \in Rows \ {x} : kept'[k] = kept[k]
       /\ \A c \in Frames \ {f} : /\ meddled[c] \subseteq meddled'[c]
                                  /\ kept'[x] = kept[x] \/ (x \in Asked(c) => x \in meddled'[c])
  <2>1. RowsTyped
    BY DEF FramesInv, FramesShape
  <2>2. CASE gone
    <3>1. UNCHANGED <<kept, meddled, looked>>
      BY <1>1, <1>3, <2>2 DEF WritesRow
    <3> QED BY <2>1, <2>2, <3>1 DEF RowsTyped, After
  <2>3. CASE ~gone
    <3>1. PICK v : v = IF g.kind = "delete" THEN "absent" ELSE f
      OBVIOUS
    <3>2. Lands(f, x, v, looked[f])
      BY <1>1, <1>3, <2>3, <3>1 DEF WritesRow
    <3>3. v \in Contents /\ looked[f] \in {"no", "yes", "moved"} /\ v = After(g, f)
      BY <2>1, <3>1 DEF Contents, RowsTyped, After
    <3> QED BY <1>5, <2>1, <3>2, <3>3, LandsOnOne
  <2> QED BY <2>2, <2>3
<1>13. PICK s \in Seq(Undo) : s = journal[f]
  BY DEF FramesInv, FramesShape, InversesTyped
<1>14. PICK t : t = IF last /\ ~gone /\ state[f] = "open" THEN Inverses(g) ELSE <<>>
  OBVIOUS
<1>15. g.kind # "create" => g.before \in [Rows -> Contents]
  BY <1>2, <1>4 DEF GestureFits
<1>16. t \in Seq(Undo) /\ \A j \in DOMAIN t : InverseFits(t[j]) /\ t[j].keys \subseteq g.keys
  <2>1. CASE t = <<>>
    BY <2>1
  <2>2. CASE t = Inverses(g)
    BY <1>2, <1>15, <2>2, InversesNoted
  <2> QED BY <1>14, <2>1, <2>2
<1>17. PICK q : q = s \o t
  OBVIOUS
<1>17a. t = <<>> => q = s
  <2>1. s \o <<>> = s
    BY ConcatEmptySeq
  <2> QED BY <1>17, <2>1
<1>18. journal' = [journal EXCEPT ![f] = q]
  <2>0. journal' = IF last /\ ~gone /\ state[f] = "open"
                   THEN [journal EXCEPT ![f] = journal[f] \o Inverses(g)] ELSE journal
    BY <1>1, <1>3 DEF WritesRow
  <2>1. CASE last /\ ~gone /\ state[f] = "open"
    BY <1>13, <1>14, <1>17, <2>0, <2>1
  <2>2. CASE ~(last /\ ~gone /\ state[f] = "open")
    <3>1. journal' = journal /\ q = s
      BY <1>14, <1>17a, <2>0, <2>2
    <3> QED BY <1>13, <3>1 DEF FramesInv, FramesShape, InversesTyped
  <2> QED BY <2>1, <2>2
<1>19. q \in Seq(Undo) /\ \A j \in DOMAIN q : \/ j \in DOMAIN s /\ q[j] = s[j]
                                              \/ \E m \in DOMAIN t : q[j] = t[m]
  <2>1. /\ Len(s) \in Nat /\ Len(t) \in Nat /\ DOMAIN s = 1 .. Len(s) /\ DOMAIN t = 1 .. Len(t)
        /\ q \in Seq(Undo) /\ DOMAIN q = 1 .. (Len(s) + Len(t))
        /\ \A j \in 1 .. Len(s) : q[j] = s[j]
        /\ \A j \in 1 .. Len(t) : q[Len(s) + j] = t[j]
    BY <1>16, <1>17
  <2>2. \A j \in DOMAIN q : j \notin DOMAIN s => j - Len(s) \in DOMAIN t /\ j = Len(s) + (j - Len(s))
    BY <2>1
  <2> QED BY <2>1, <2>2
<1>20. journal' \in [Frames -> Seq(Undo)] /\ journal'[f] = q /\ \A c \in Frames : c # f => journal'[c] = journal[c]
  BY <1>18, <1>19 DEF FramesInv, FramesShape, InversesTyped
<1>21. InversesTyped'
  <2>1. \A c \in Frames : \A j \in DOMAIN journal[c] : InverseFits(journal[c][j])
    BY DEF FramesInv, FramesShape, InversesTyped
  <2>2. \A j \in DOMAIN q : InverseFits(q[j])
    BY <1>13, <1>16, <1>19, <2>1
  <2> QED BY <1>20, <2>1, <2>2 DEF InversesTyped
<1>22. FramesShape'
  BY <1>4, <1>11, <1>12, <1>21 DEF FramesInv, FramesShape, FramesTyped, RowsTyped, frameVars
<1>23. i \in UnderWay(f)
  BY <1>1, <1>4 DEF UnderWay
<1>24. /\ Asked(f)' = Asked(f) /\ (Apart(f) => Apart(f)')
       /\ UnderWay(f)' = {j \in UnderWay(f) : j # i \/ h.stage \in {"asked", "writes"}}
       /\ Written(f, {"refused", "late"}) \subseteq Written(f, {"refused", "late"})'
       /\ \A k \in h.keys \ h.left :
              /\ h.stage \in {"refused", "late"} => k \in Written(f, {"refused", "late"})'
              /\ h.stage = "writes" => k \in Written(f, {"writes"})'
       /\ \A k \in Written(f, {"writes"}) :
              k \in Written(f, {"writes"})' \/ (k \in h.keys \ h.left /\ h.stage # "writes")
  <2>1. h.keys = made[f][i].keys /\ h.left \subseteq made[f][i].left
    BY <1>1, <1>8
  <2> QED BY <1>11, <1>23, <2>1, GestureMoved
<1>25. Recorded(f) /\ Apart(f)
  BY DEF FramesInv, Recorded
<1>26. Lost(f) \subseteq Lost(f)'
  BY <1>4, <1>12, <1>24 DEF Lost
<1>27. g.keys \subseteq Asked(f)
  BY <1>1, RowAsked
<1>28. \A j \in DOMAIN q : q[j].keys \subseteq Asked(f)
  <2>1. \A j \in DOMAIN s : s[j].keys \subseteq Asked(f)
    BY <1>13, <1>25 DEF Recorded
  <2> QED BY <1>16, <1>19, <1>27, <2>1
<1>29. ASSUME state[f] = "open" PROVE Open(f)'
  <2>1. Open(f)
    BY <1>25, <1>29 DEF Recorded
  <2>2. \A j \in UnderWay(f) : j # i => made'[f][j] = made[f][j] /\ g.keys \cap made[f][j].keys = {}
    BY <1>1, <1>11, <1>23, <1>25 DEF Apart, UnderWay
  <2>3. \A k \in Asked(f) \ Lost(f) : k \in g.keys => InHand(f, g, k)
    BY <1>1, <1>23, <2>1 DEF Open
  \* A row that the gesture has nothing to do with.
  <2>4. ASSUME NEW k \in Asked(f), k \notin g.keys
        PROVE  /\ kept'[k] = kept[k]
               /\ \A v, o : Grown(s, k, f, v, o) => Grown(q, k, f, v, o)
    <3>1. k \in Rows
      <4>1. PICK j \in DOMAIN made[f] : k \in made[f][j].keys
        BY <2>4, RowAsked
      <4>2. made[f][j] \in Gesture
        BY <4>1 DEF FramesInv, FramesShape, GesturesTyped
      <4> QED BY <4>1, <4>2 DEF Gesture
    <3>2. Of(t, k) = {}
      BY <1>16, <2>4 DEF Of
    <3>3. kept'[k] = kept[k]
      BY <1>5, <1>12, <2>4, <3>1
    <3> QED BY <1>16, <1>17, <3>2, <3>3, ChainLengthens
  \* A row of the gesture, which goes on with its next one.
  <2>5. ASSUME ~last, NEW k \in Asked(f) \ Lost(f), k \in g.keys
        PROVE  InHand(f, made[f][i], k)'
    <3>1. InHand(f, g, k) /\ q = s /\ g.kind # "delete" /\ h.stage = "writes" /\ h.before = g.before
      BY <1>8, <1>9, <1>13, <1>14, <1>17, <2>3, <2>5
    <3>2. \A j : Back(h, j) = Back(g, j) /\ After(h, f) = f /\ After(g, f) = f
      BY <1>8, <3>1 DEF Back, After
    <3>3. CASE k = x
      <4>1. /\ Grown(s, k, f, kept[k], origin[f][k]) /\ Back(g, k) = kept[k]
            /\ g.kind = "update" => g.before[k] # "absent"
        BY <1>2, <1>4, <1>5, <1>13, <3>1, <3>3, WritesWhatItRead
      <4>2. Grown(s, k, f, Back(h, k), origin[f][k])
        BY <3>2, <4>1
      <4>3. kept'[k] = After(h, f)
        BY <1>12, <3>2, <3>3
      <4>4. k \notin h.left /\ (h.kind = "update" => h.before[k] # "absent")
        BY <1>8, <3>1, <3>3, <4>1
      <4> QED BY <1>4, <1>11, <1>20, <3>1, <4>2, <4>3, <4>4 DEF InHand, Back, After
    <3>4. CASE k # x /\ k \in g.left
      <4>1. kept'[k] = kept[k] /\ k \in h.left
        BY <1>5, <1>8, <1>12, <3>4
      <4>2. /\ Grown(s, k, f, kept[k], origin[f][k]) /\ Back(g, k) = kept[k]
            /\ g.kind = "update" => g.before[k] # "absent"
        BY <1>2, <1>4, <1>13, <3>1, <3>4, WritesWhatItRead
      <4>3. /\ g.kind # "create" => g.before[k] = kept[k]
            /\ g.kind = "create" => kept[k] = "absent"
            /\ g.kind = "update" => kept[k] # "absent"
        BY <4>2 DEF Back
      <4> QED BY <1>4, <1>8, <1>11, <1>20, <3>1, <4>1, <4>2, <4>3 DEF InHand
    <3>5. CASE k \notin g.left
      <4>1. k # x /\ kept'[k] = kept[k] /\ k \notin h.left
        BY <1>5, <1>8, <1>12, <2>5, <3>5
      <4>2. /\ kept[k] = After(g, f) /\ Grown(s, k, f, Back(g, k), origin[f][k])
            /\ g.kind = "update" => g.before[k] # "absent"
        BY <1>13, <3>1, <3>5 DEF InHand
      <4>3. kept'[k] = After(h, f) /\ Grown(s, k, f, Back(h, k), origin[f][k])
        BY <3>2, <4>1, <4>2
      <4> QED BY <1>4, <1>8, <1>11, <1>20, <3>1, <4>1, <4>2, <4>3 DEF InHand, Back, After
    <3> QED BY <3>3, <3>4, <3>5
  \* A row of the gesture that is done.
  <2>6. ASSUME last, NEW k \in Asked(f) \ Lost(f), k \in g.keys
        PROVE  Grown(q, k, f, kept'[k], origin[f][k])
    <3>1. InHand(f, g, k) /\ g.kind \in Kinds
      BY <1>2, <2>3, <2>6 DEF Gesture
    <3>2. /\ Grown(s, k, f, Back(g, k), origin[f][k]) /\ kept'[k] = After(g, f)
          /\ gone => kept'[k] = Back(g, k)
          /\ ~gone => g.kind = "upsert" \/ k \in Had(g)
      <4>1. CASE k = x
        <5>1. /\ Grown(s, k, f, kept[k], origin[f][k]) /\ Back(g, k) = kept[k]
              /\ gone \/ g.kind = "upsert" \/ k \in Had(g)
          BY <1>2, <1>4, <1>5, <1>13, <3>1, <4>1, WritesWhatItRead
        <5>2. kept'[k] = After(g, f)
          BY <1>12, <4>1
        <5>3. gone => kept'[k] = kept[k]
          BY <4>1, <5>2 DEF After
        <5> QED BY <5>1, <5>2, <5>3
      <4>2. CASE k # x
        <5>1. k \notin g.left /\ kept'[k] = kept[k] /\ g.kind # "delete"
          BY <1>2, <1>5, <1>12, <2>6, <4>2 DEF GestureFits
        <5>2. /\ kept[k] = After(g, f) /\ Grown(s, k, f, Back(g, k), origin[f][k])
              /\ g.kind = "update" => g.before[k] # "absent"
          BY <1>13, <3>1, <5>1 DEF InHand
        <5>3. g.kind = "upsert" \/ k \in Had(g)
          BY <2>6, <3>1, <5>1, <5>2 DEF Had, Kinds
        <5> QED BY <5>1, <5>2, <5>3
      <4> QED BY <4>1, <4>2
    <3>3. CASE gone
      <4>1. q = s
        BY <1>14, <1>17, <3>3
      <4> QED BY <3>2, <3>3, <4>1
    <3>4. CASE ~gone
      <4>1. t = Inverses(g)
        BY <1>14, <1>29, <2>6, <3>4
      <4>2. PICK m \in DOMAIN t : Of(t, k) = {m} /\ t[m].kind = g.kind /\ t[m].before = g.before
        BY <1>2, <1>15, <2>6, <3>2, <3>4, <4>1, InversesNoted
      <4>3. Back(t[m], k) = Back(g, k) /\ After(t[m], f) = After(g, f)
        BY <4>2 DEF Back, After
      <4> QED BY <1>16, <1>17, <3>2, <4>2, <4>3, ChainLengthens
    <3> QED BY <3>3, <3>4
  <2>7. ASSUME NEW k \in Asked(f) \ Lost(f)', NEW j \in UnderWay(f)', k \in made'[f][j].keys
        PROVE  InHand(f, made[f][j], k)'
    <3>1. CASE j = i
      <4>1. ~last
        BY <1>8, <1>24, <1>29, <2>7, <3>1
      <4> QED BY <1>8, <1>11, <1>26, <2>5, <2>7, <3>1, <4>1
    <3>2. CASE j # i
      <4>1. j \in UnderWay(f) /\ made'[f][j] = made[f][j] /\ k \notin g.keys
        BY <1>24, <2>2, <2>7, <3>2
      <4>2. InHand(f, made[f][j], k)
        BY <1>26, <2>1, <2>7, <4>1 DEF Open
      <4>3. kept'[k] = kept[k] /\ \A v, o : Grown(s, k, f, v, o) => Grown(q, k, f, v, o)
        BY <2>4, <2>7, <4>1
      <4> QED BY <1>4, <1>13, <1>20, <4>1, <4>2, <4>3 DEF InHand
    <3> QED BY <3>1, <3>2
  <2>8. ASSUME NEW k \in Asked(f) \ Lost(f)', \A j \in UnderWay(f)' : k \notin made'[f][j].keys
        PROVE  Grown(q, k, f, kept'[k], origin[f][k])
    <3>1. CASE k \in g.keys
      <4>1. last
        BY <1>8, <1>11, <1>23, <1>24, <2>8, <3>1
      <4> QED BY <1>26, <2>6, <2>8, <3>1, <4>1
    <3>2. CASE k \notin g.keys
      <4>1. \A j \in UnderWay(f) : k \notin made[f][j].keys
        BY <1>1, <1>24, <2>2, <2>8, <3>2
      <4>2. Grown(s, k, f, kept[k], origin[f][k])
        BY <1>13, <1>26, <2>1, <2>8, <4>1 DEF Open
      <4> QED BY <2>4, <2>8, <3>2, <4>2
    <3> QED BY <3>1, <3>2
  <2>9. Asked(f)' = Asked(f) /\ journal'[f] = q /\ origin' = origin
    BY <1>4, <1>20, <1>24
  <2> QED BY <2>7, <2>8, <2>9 DEF Open
<1>30. ASSUME state[f] \in {"unwinds", "fell"} PROVE Undone(f)'
  <2>1. t = <<>> /\ q = s /\ h.stage \in {"writes", "late"}
    BY <1>8, <1>14, <1>17a, <1>30
  <2>2. ASSUME NEW k \in Asked(f) \ (Lost(f)' \cup Written(f, {"writes"})')
        PROVE  Replays(s, k, f, kept'[k], origin[f][k])
    <3>1. k \notin h.keys \ h.left
      BY <1>24, <2>1, <2>2 DEF Lost
    <3>2. k # x /\ k \notin Lost(f) /\ k \notin Written(f, {"writes"})
      BY <1>5, <1>8, <1>24, <1>26, <2>2, <3>1
    <3>3. k \in Rows
      <4>1. PICK j \in DOMAIN made[f] : k \in made[f][j].keys
        BY <2>2, RowAsked
      <4>2. made[f][j] \in Gesture
        BY <4>1 DEF FramesInv, FramesShape, GesturesTyped
      <4> QED BY <4>1, <4>2 DEF Gesture
    <3>4. kept'[k] = kept[k]
      BY <1>12, <3>2, <3>3
    <3> QED BY <1>13, <1>25, <1>30, <2>2, <3>2, <3>4 DEF Recorded, Undone
  <2> QED BY <1>4, <1>20, <1>24, <2>1, <2>2 DEF Undone
<1>31. Recorded(f)'
  <2>1. state[f] \notin {"new", "waits", "refused"}
    BY <1>25 DEF Recorded
  <2>2. state[f] = "fell" => q = <<>>
    BY <1>13, <1>14, <1>17, <1>25 DEF Recorded
  <2> QED BY <1>4, <1>20, <1>24, <1>25, <1>28, <1>29, <1>30, <2>1, <2>2 DEF Recorded, frameVars
<1>32. \A c \in Frames : c # f => Recorded(c)'
  <2>1. TAKE c \in Frames
  <2>2. HAVE c # f
  <2>3. \A k \in Asked(c) : kept'[k] = kept[k] \/ k \in meddled'[c]
    <3>1. TAKE k \in Asked(c)
    <3>2. PICK j \in DOMAIN made[c] : k \in made[c][j].keys
      BY RowAsked
    <3>3. made[c][j] \in Gesture
      BY <3>2 DEF FramesInv, FramesShape, GesturesTyped
    <3>4. k \in Rows
      BY <3>2, <3>3 DEF Gesture
    <3> QED BY <1>12, <2>2, <3>4
  <2> QED BY <1>4, <1>11, <1>12, <1>20, <2>2, <2>3, Bystander DEF FramesInv, frameVars
<1> QED BY <1>22, <1>31, <1>32 DEF FramesInv
-----------------------------------------------------------------------------
(* A step of an unwind, whichever it is.                                   *)
LEMMA UnwindingSafe ==
  ASSUME FramesInv, NEW f \in Frames, state[f] = "unwinds", UNCHANGED <<frameVars, made, origin>>,
         RowsTyped', InversesTyped',
         \A i \in DOMAIN journal'[f] : \E j \in DOMAIN journal[f] : journal'[f][i].keys \subseteq journal[f][j].keys,
         stuck[f] \subseteq stuck'[f], meddled[f] \subseteq meddled'[f],
         \A c \in Frames : c # f =>
           /\ journal'[c] = journal[c] /\ stuck'[c] = stuck[c] /\ meddled[c] \subseteq meddled'[c]
           /\ \A k \in Asked(c) : kept'[k] = kept[k] \/ k \in meddled'[c],
         \A k \in Asked(f) \ stuck'[f] :
           Replays(journal[f], k, f, kept[k], origin[f][k]) => Replays(journal'[f], k, f, kept'[k], origin[f][k])
  PROVE  FramesInv'
<1>1. FramesShape'
  BY DEF FramesInv, FramesShape, FramesTyped, GesturesTyped, frameVars
<1>2. Recorded(f) /\ Undone(f)
  BY DEF FramesInv, Recorded
<1>3. /\ Asked(f)' = Asked(f) /\ UnderWay(f)' = UnderWay(f)
      /\ Written(f, {"refused", "late"})' = Written(f, {"refused", "late"})
      /\ Written(f, {"writes"})' = Written(f, {"writes"})
  BY DEF Asked, UnderWay, Written
<1>4. Lost(f) \subseteq Lost(f)' /\ stuck'[f] \subseteq Lost(f)'
  BY <1>3 DEF Lost
<1>5. Undone(f)'
  <2>1. ASSUME NEW k \in Asked(f) \ (Lost(f)' \cup Written(f, {"writes"}))
        PROVE  Replays(journal'[f], k, f, kept'[k], origin[f][k])
    <3>1. k \in Asked(f) \ (Lost(f) \cup Written(f, {"writes"})) /\ k \in Asked(f) \ stuck'[f]
      BY <1>4, <2>1
    <3> QED BY <1>2, <3>1 DEF Undone
  <2> QED BY <1>3, <2>1 DEF Undone
<1>6. \A i \in DOMAIN journal'[f] : journal'[f][i].keys \subseteq Asked(f)
  BY <1>2 DEF Recorded
<1>7. Apart(f)'
  BY <1>2, <1>3 DEF Recorded, Apart
<1>8. Recorded(f)'
  BY <1>3, <1>5, <1>6, <1>7 DEF Recorded, frameVars
<1>9. \A c \in Frames : c # f => Recorded(c)'
  <2>1. TAKE c \in Frames
  <2>2. HAVE c # f
  <2> QED BY <2>2, Bystander DEF FramesInv, frameVars
<1> QED BY <1>1, <1>8, <1>9 DEF FramesInv

(* A journal that comes to be q.                                           *)
LEMMA JournalMoves ==
  ASSUME InversesTyped, NEW f \in Frames, NEW q \in Seq(Undo), journal' = [journal EXCEPT ![f] = q],
         \A i \in DOMAIN q : InverseFits(q[i])
  PROVE  InversesTyped' /\ journal'[f] = q /\ \A g \in Frames : g # f => journal'[g] = journal[g]
<1>1. journal' \in [Frames -> Seq(Undo)] /\ journal'[f] = q /\ \A g \in Frames : g # f => journal'[g] = journal[g]
  BY DEF InversesTyped
<1>2. \A g \in Frames : \A i \in DOMAIN journal[g] : InverseFits(journal[g][i])
  BY DEF InversesTyped
<1> QED BY <1>1, <1>2 DEF InversesTyped

LEMMA RestOf ==
  ASSUME NEW s \in Seq(Undo), s # <<>>
  PROVE  /\ s[1] \in Undo /\ Head(s) = s[1] /\ 1 \in DOMAIN s /\ Tail(s) \in Seq(Undo)
         /\ \A i \in DOMAIN Tail(s) : i + 1 \in DOMAIN s /\ Tail(s)[i] = s[i + 1]
         /\ DOMAIN s = 1 .. Len(s) /\ Len(Tail(s)) = Len(s) - 1 /\ Len(s) \in Nat \ {0}
  OBVIOUS

LEMMA ReportingSafe ==
  ASSUME FramesInv, NEW f \in Frames, Unwinding(f), UNCHANGED <<frameVars, made, origin>>, Reports(f)
  PROVE  FramesInv'
<1>1. PICK s \in Seq(Undo) : s = journal[f]
  BY DEF FramesInv, FramesShape, InversesTyped
<1>2. PICK q : q = Tail(s)
  OBVIOUS
<1>3. s # <<>> /\ state[f] = "unwinds"
  BY <1>1 DEF Unwinding
<1>4. /\ s[1] \in Undo /\ Head(s) = s[1] /\ q \in Seq(Undo)
      /\ \A i \in DOMAIN q : i + 1 \in DOMAIN s /\ q[i] = s[i + 1]
  BY <1>2, <1>3, RestOf
<1>5. /\ journal' = [journal EXCEPT ![f] = q] /\ stuck' = [stuck EXCEPT ![f] = stuck[f] \cup s[1].keys]
      /\ looked' = [looked EXCEPT ![f] = "no"] /\ UNCHANGED <<kept, meddled>>
  BY <1>1, <1>2, <1>4 DEF Reports
<1>6. \A i \in DOMAIN q : InverseFits(q[i]) /\ \E j \in DOMAIN s : q[i].keys \subseteq s[j].keys
  BY <1>1, <1>4 DEF FramesInv, FramesShape, InversesTyped
<1>7. InversesTyped' /\ journal'[f] = q /\ \A g \in Frames : g # f => journal'[g] = journal[g]
  BY <1>4, <1>5, <1>6, JournalMoves DEF FramesInv, FramesShape
<1>8. s[1].keys \subseteq Rows
  BY <1>4 DEF Undo
<1>9. /\ stuck' \in [Frames -> SUBSET Rows] /\ stuck'[f] = stuck[f] \cup s[1].keys
      /\ \A g \in Frames : g # f => stuck'[g] = stuck[g]
      /\ looked' \in [Frames -> {"no", "yes", "moved"}]
  BY <1>5, <1>8 DEF FramesInv, FramesShape, RowsTyped
<1>10. RowsTyped'
  BY <1>5, <1>9 DEF FramesInv, FramesShape, RowsTyped
<1>11. \A k \in Asked(f) \ stuck'[f] :
         Replays(s, k, f, kept[k], origin[f][k]) => Replays(q, k, f, kept[k], origin[f][k])
  BY <1>2, <1>3, <1>9, ChainShortens
<1> QED BY <1>1, <1>3, <1>5, <1>6, <1>7, <1>9, <1>10, <1>11, UnwindingSafe

(* A row is put back: what its inverse undoes is what it held, and what it *)
(* holds now is what the next one undoes.                                  *)
LEMMA PuttingBackSafe ==
  ASSUME FramesInv, NEW f \in Frames, Unwinding(f), UNCHANGED <<frameVars, made, origin>>,
         NEW x \in journal[f][1].keys, PutsBack(f, x, Back(journal[f][1], x))
  PROVE  FramesInv'
<1>1. PICK s \in Seq(Undo) : s = journal[f]
  BY DEF FramesInv, FramesShape, InversesTyped
<1>2. PICK w : w = Back(s[1], x)
  OBVIOUS
<1>3. s # <<>> /\ state[f] = "unwinds" /\ Lands(f, x, w, "no") /\ RunsOn(f, x) /\ UNCHANGED stuck
  BY <1>1, <1>2 DEF Unwinding, PutsBack
<1>4. /\ s[1] \in Undo /\ Head(s) = s[1] /\ Tail(s) \in Seq(Undo) /\ 1 \in DOMAIN s
      /\ \A i \in DOMAIN Tail(s) : i + 1 \in DOMAIN s /\ Tail(s)[i] = s[i + 1]
  BY <1>3, RestOf
<1>5. \A i \in DOMAIN s : InverseFits(s[i])
  BY <1>1 DEF FramesInv, FramesShape, InversesTyped
<1>6. x \in Rows /\ w \in Contents
  <2>1. x \in Rows /\ InverseFits(s[1])
    BY <1>1, <1>4, <1>5 DEF Undo
  <2> QED BY <1>2, <2>1 DEF InverseFits, Back, Contents
<1>7. /\ kept' \in [Rows -> Contents] /\ meddled' \in [Frames -> SUBSET Rows]
      /\ looked' \in [Frames -> {"no", "yes", "moved"}]
      /\ kept'[x] = w /\ \A j \in Rows \ {x} : kept'[j] = kept[j]
      /\ meddled'[f] = meddled[f]
      /\ \A g \in Frames \ {f} : /\ meddled[g] \subseteq meddled'[g]
                                 /\ x \in Asked(g) => x \in meddled'[g]
  BY <1>3, <1>6, LandsOnOne DEF FramesInv, FramesShape
<1>8. RowsTyped'
  BY <1>3, <1>7 DEF FramesInv, FramesShape, RowsTyped
<1>9. \A c \in Frames : \A k \in Asked(c) : k \in Rows
  <2>1. TAKE c \in Frames
  <2>2. TAKE k \in Asked(c)
  <2>3. PICK j \in DOMAIN made[c] : k \in made[c][j].keys
    BY RowAsked
  <2>4. made[c][j] \in Gesture
    BY <2>3 DEF FramesInv, FramesShape, GesturesTyped
  <2> QED BY <2>3, <2>4 DEF Gesture
<1>10. \E q \in Seq(Undo) :
         /\ journal' = [journal EXCEPT ![f] = q]
         /\ \A i \in DOMAIN q : InverseFits(q[i]) /\ \E j \in DOMAIN s : q[i].keys \subseteq s[j].keys
         /\ \A k, v, o : Replays(s, k, f, v, o) => Replays(q, k, f, IF k = x THEN w ELSE v, o)
  <2>1. CASE s[1].keys = {x}
    <3>1. journal' = [journal EXCEPT ![f] = Tail(s)]
      <4>1. Head(journal[f]).keys = {x} /\ Tail(journal[f]) = Tail(s)
        BY <1>1, <1>4, <2>1
      <4>2. journal' = [journal EXCEPT ![f] = Tail(journal[f])]
        BY <1>3, <4>1 DEF RunsOn
      <4> QED BY <4>1, <4>2
    <3>2. \A k, v, o : Replays(s, k, f, v, o) => Replays(Tail(s), k, f, IF k = x THEN w ELSE v, o)
      <4>1. ASSUME NEW k, NEW v, NEW o, Replays(s, k, f, v, o)
            PROVE  Replays(Tail(s), k, f, IF k = x THEN w ELSE v, o)
        <5>1. CASE k = x
          BY <1>2, <1>3, <2>1, <4>1, <5>1, ChainShortens
        <5>2. CASE k # x
          BY <1>3, <2>1, <4>1, <5>2, ChainShortens
        <5> QED BY <5>1, <5>2
      <4> QED BY <4>1
    <3>3. \A i \in DOMAIN Tail(s) : InverseFits(Tail(s)[i]) /\ \E j \in DOMAIN s : Tail(s)[i].keys \subseteq s[j].keys
      BY <1>4, <1>5
    <3> QED BY <1>4, <3>1, <3>2, <3>3
  <2>2. CASE s[1].keys # {x}
    <3>1. PICK e : e = [s[1] EXCEPT !.keys = @ \ {x}]
      OBVIOUS
    <3>2. PICK q : q = <<e>> \o Tail(s)
      OBVIOUS
    <3>3. journal' = [journal EXCEPT ![f] = q]
      <4>1. Head(journal[f]).keys # {x} /\ Tail(journal[f]) = Tail(s) /\ Head(journal[f]) = s[1]
        BY <1>1, <1>4, <2>2
      <4>2. journal' = [journal EXCEPT ![f] = <<Without(Head(journal[f]), x)>> \o Tail(journal[f])]
        BY <1>3, <4>1 DEF RunsOn
      <4> QED BY <3>1, <3>2, <4>1, <4>2 DEF Without
    <3>4. /\ e \in Undo /\ e.kind = s[1].kind /\ e.before = s[1].before /\ e.keys = s[1].keys \ {x}
      <4>1. s[1].keys \ {x} # {}
        BY <1>1, <2>2
      <4> QED BY <1>4, <3>1, <4>1 DEF Undo
    <3>5. /\ DOMAIN s = 1 .. Len(s) /\ Len(Tail(s)) = Len(s) - 1 /\ Len(s) \in Nat \ {0}
      BY <1>3, RestOf
    <3>6. q \in Seq(Undo) /\ DOMAIN q = DOMAIN s /\ q[1] = e /\ \A i \in 2 .. Len(s) : q[i] = s[i]
      <4>1. PICK t : t = Tail(s)
        OBVIOUS
      <4>2. /\ q \in Seq(Undo) /\ DOMAIN q = 1 .. (1 + Len(t)) /\ q[1] = e
            /\ \A i \in 2 .. (1 + Len(t)) : q[i] = t[i - 1]
        BY <1>4, <3>2, <3>4, <4>1
      <4>3. \A i \in 2 .. Len(s) : t[i - 1] = s[i]
        <5>1. \A i \in 2 .. Len(s) : i - 1 \in 1 .. Len(t) /\ (i - 1) + 1 = i
          BY <3>5, <4>1
        <5>2. \A j \in 1 .. Len(t) : t[j] = s[j + 1]
          BY <1>4, <4>1
        <5> QED BY <5>1, <5>2
      <4> QED BY <3>5, <4>1, <4>2, <4>3
    <3>7. InverseFits(e)
      <4>1. InverseFits(s[1]) /\ s[1].kind = "upsert"
        BY <1>1, <1>4, <1>5, <2>2 DEF InverseFits
      <4> QED BY <3>4, <4>1 DEF InverseFits
    <3>8. \A i \in DOMAIN q : InverseFits(q[i]) /\ \E j \in DOMAIN s : q[i].keys \subseteq s[j].keys
      <4>1. \A i \in DOMAIN s : i = 1 \/ i \in 2 .. Len(s)
        BY <3>5
      <4> QED BY <1>4, <1>5, <3>4, <3>6, <3>7, <4>1
    <3>9. \A k, v, o : Replays(s, k, f, v, o) => Replays(q, k, f, IF k = x THEN w ELSE v, o)
      <4>1. s # <<>> /\ DOMAIN q = DOMAIN s
        BY <1>3, <3>6
      <4>2. \A i \in 2 .. Len(s) : q[i] = s[i]
        BY <3>6
      <4>3. q[1].kind = s[1].kind /\ q[1].before = s[1].before /\ q[1].keys = s[1].keys \ {x}
        BY <3>4, <3>6
      <4>4. x \in s[1].keys
        BY <1>1
      <4> QED BY <1>2, <4>1, <4>2, <4>3, <4>4, ChainTrimmed
    <3> QED BY <3>3, <3>6, <3>8, <3>9
  <2> QED BY <2>1, <2>2
<1>11. PICK q \in Seq(Undo) :
         /\ journal' = [journal EXCEPT ![f] = q]
         /\ \A i \in DOMAIN q : InverseFits(q[i]) /\ \E j \in DOMAIN s : q[i].keys \subseteq s[j].keys
         /\ \A k, v, o : Replays(s, k, f, v, o) => Replays(q, k, f, IF k = x THEN w ELSE v, o)
  BY <1>10
<1>12. InversesTyped' /\ journal'[f] = q /\ \A g \in Frames : g # f => journal'[g] = journal[g]
  BY <1>11, JournalMoves DEF FramesInv, FramesShape
<1>13. \A k \in Asked(f) : kept'[k] = IF k = x THEN w ELSE kept[k]
  BY <1>7, <1>9
<1>14. \A k \in Asked(f) \ stuck'[f] :
         Replays(s, k, f, kept[k], origin[f][k]) => Replays(q, k, f, kept'[k], origin[f][k])
  BY <1>11, <1>13
<1>15. \A c \in Frames : c # f => \A k \in Asked(c) : kept'[k] = kept[k] \/ k \in meddled'[c]
  BY <1>7, <1>9
<1>16. \A i \in DOMAIN journal'[f] : \E j \in DOMAIN journal[f] : journal'[f][i].keys \subseteq journal[f][j].keys
  BY <1>1, <1>11, <1>12
<1>17. stuck[f] \subseteq stuck'[f] /\ meddled[f] \subseteq meddled'[f] /\ state[f] = "unwinds"
  BY <1>3, <1>7
<1>18. \A c \in Frames : c # f =>
         /\ journal'[c] = journal[c] /\ stuck'[c] = stuck[c] /\ meddled[c] \subseteq meddled'[c]
         /\ \A k \in Asked(c) : kept'[k] = kept[k] \/ k \in meddled'[c]
  BY <1>3, <1>7, <1>12, <1>15
<1>19. \A k \in Asked(f) \ stuck'[f] :
         Replays(journal[f], k, f, kept[k], origin[f][k]) => Replays(journal'[f], k, f, kept'[k], origin[f][k])
  BY <1>1, <1>12, <1>14
<1> QED BY <1>8, <1>12, <1>16, <1>17, <1>18, <1>19, UnwindingSafe
(* An inverse replayed: refused and reported, put back, or, for an update, *)
(* looked at first.                                                        *)
LEMMA UndoingSafe ==
  ASSUME FramesInv, NEW f \in Frames, Undoes(f)
  PROVE  FramesInv'
<1>1. PICK s \in Seq(Undo) : s = journal[f]
  BY DEF FramesInv, FramesShape, InversesTyped
<1>2. PICK e : e = s[1]
  OBVIOUS
<1>3. Unwinding(f) /\ s # <<>> /\ UNCHANGED <<frameVars, made, origin>>
  BY <1>1 DEF Undoes, Unwinding
<1>4. e \in Undo /\ Head(s) = e /\ 1 \in DOMAIN s /\ Head(journal[f]) = e /\ journal[f][1] = e
  BY <1>1, <1>2, <1>3, RestOf
<1>5. PICK x : x = Min(e.keys)
  OBVIOUS
<1>6. x \in e.keys
  <2>1. e.keys \in SUBSET Nat /\ e.keys # {}
    BY <1>4, RowsAreKeys DEF Undo
  <2> QED BY <1>5, <2>1, MinIsLeast
<1>7. e.kind \in {"create", "update", "delete", "upsert"}
  BY <1>4 DEF Undo, Kinds
<1>8. \/ Reports(f)
      \/ PutsBack(f, x, Back(e, x))
      \/ looked' = [looked EXCEPT ![f] = "yes"] /\ UNCHANGED <<kept, meddled, journal, stuck>>
  <2>1. e.kind = "create" => PutsBack(f, x, "absent")
    BY <1>4, <1>5 DEF Undoes
  <2>2. e.kind = "delete" => PutsBack(f, x, e.before[x]) \/ Reports(f)
    BY <1>4, <1>5 DEF Undoes
  <2>3. e.kind = "update" => LooksAgain(f, x) \/ PutsBack(f, x, e.before[x]) \/ Reports(f)
    BY <1>4, <1>5 DEF Undoes
  <2>4. e.kind = "upsert" => PutsBack(f, x, e.before[x]) \/ Reports(f)
    BY <1>4, <1>5 DEF Undoes
  <2>5. LooksAgain(f, x) =>
          Reports(f) \/ (looked' = [looked EXCEPT ![f] = "yes"] /\ UNCHANGED <<kept, meddled, journal, stuck>>)
    BY DEF LooksAgain
  <2> QED BY <1>7, <2>1, <2>2, <2>3, <2>4, <2>5 DEF Back
<1>9. CASE Reports(f)
  BY <1>3, <1>9, ReportingSafe
<1>10. CASE PutsBack(f, x, Back(e, x))
  BY <1>3, <1>4, <1>6, <1>10, PuttingBackSafe
<1>11. CASE looked' = [looked EXCEPT ![f] = "yes"] /\ UNCHANGED <<kept, meddled, journal, stuck>>
  <2>1. RowsTyped'
    BY <1>3, <1>11 DEF FramesInv, FramesShape, RowsTyped
  <2>2. InversesTyped'
    BY <1>11 DEF FramesInv, FramesShape, InversesTyped
  <2>3. \A g \in Frames : Recorded(g)'
    BY <1>3, <1>11, RowsStill DEF FramesInv, frameVars
  <2>4. FramesTyped' /\ GesturesTyped'
    BY <1>3 DEF FramesInv, FramesShape, FramesTyped, GesturesTyped, frameVars
  <2> QED BY <2>1, <2>2, <2>3, <2>4 DEF FramesInv, FramesShape
<1> QED BY <1>8, <1>9, <1>10, <1>11

LEMMA FramesStay == FramesInv /\ [TogetherNext]_togetherVars => FramesInv'
<1> SUFFICES ASSUME FramesInv, [TogetherNext]_togetherVars PROVE FramesInv'
  OBVIOUS
<1>1. ASSUME NEW f \in Frames, FrameGoesOn(f) PROVE FramesInv'
  <2>1. CASE Opens(f) \/ GivesUp(f)
    BY <2>1, OpeningSafe
  <2>2. CASE GoesOut(f)
    BY <2>2, SayingSafe
  <2>3. ASSUME NEW i \in DOMAIN made[f], ReadsBefore(f, i) \/ WritesRow(f, i) \/ Refused(f, i)
        PROVE  FramesInv'
    BY <2>3, ReadingSafe, WritingSafe, RefusingSafe
  <2>4. CASE BodyReturns(f) \/ Falls(f)
    BY <2>4, EndingSafe
  <2>5. CASE BodyThrows(f)
    BY <2>5, ThrowingSafe
  <2>6. CASE Undoes(f)
    BY <2>6, UndoingSafe
  <2> QED BY <1>1, <2>1, <2>2, <2>3, <2>4, <2>5, <2>6 DEF FrameGoesOn
<1>2. ASSUME NEW f \in Frames, UndoFails(f) PROVE FramesInv'
  BY <1>2, ReportingSafe DEF UndoFails
<1>3. ASSUME NEW f \in Frames, NEW i \in DOMAIN made[f], GestureFails(f, i) PROVE FramesInv'
  BY <1>3, RefusingSafe
<1>4. ASSUME NEW f \in Frames, NEW await \in BOOLEAN, Announces(f, await) PROVE FramesInv'
  BY <1>4, SayingSafe
<1>5. ASSUME NEW f \in Frames, NEW g \in Gestures[f], Asks(f, g) PROVE FramesInv'
  BY <1>5, AskingSafe
<1>6. CASE UNCHANGED togetherVars
  <2>1. FramesShape'
    BY <1>6 DEF togetherVars, frameVars, rowVars, FramesInv, FramesShape, FramesTyped, RowsTyped,
       GesturesTyped, InversesTyped
  <2>2. \A g \in Frames : Recorded(g)'
    BY <1>6, RowsStill DEF togetherVars, frameVars, rowVars, FramesInv
  <2> QED BY <2>1, <2>2 DEF FramesInv
<1> QED BY <1>1, <1>2, <1>3, <1>4, <1>5, <1>6 DEF TogetherNext

Framing == FramesBegin /\ [][TogetherNext]_togetherVars

(* Every state of the frames is one the argument is about. *)
LEMMA FramesAlways == Framing => []FramesInv
BY FramesAtFirst, FramesStay, PTL DEF Framing

(* The variables have their types.                                         *)
THEOREM FramesWellTyped == Framing => []TogetherTypeOK
<1>1. FramesInv => TogetherTypeOK
  <2> SUFFICES ASSUME FramesInv PROVE TogetherTypeOK
    OBVIOUS
  <2>1. FramesTyped /\ RowsTyped
    BY DEF FramesInv, FramesShape
  <2>2. ASSUME NEW f \in Frames, NEW i \in DOMAIN made[f]
        PROVE  /\ made[f][i].kind \in Kinds
               /\ made[f][i].left \subseteq made[f][i].keys
               /\ made[f][i].stage \in {"asked", "writes", "noted", "late", "refused"}
    <3>1. made[f][i] \in Gesture /\ GestureFits(made[f][i])
      BY DEF FramesInv, FramesShape, GesturesTyped
    <3> QED BY <3>1 DEF Gesture, GestureFits
  <2>3. ASSUME NEW f \in Frames, NEW i \in DOMAIN journal[f]
        PROVE  journal[f][i].keys \in (SUBSET Rows) \ {{}}
    <3>1. journal[f][i] \in Undo
      BY DEF FramesInv, FramesShape, InversesTyped
    <3> QED BY <3>1 DEF Undo
  <2> QED BY <2>1, <2>2, <2>3 DEF TogetherTypeOK, FramesTyped, RowsTyped
<1> QED BY <1>1, FramesAlways, PTL

(* A frame that fell leaves every row as it found it, unless it reported   *)
(* the row or another wrote it too, or it is of a gesture that refused     *)
(* half way or was under way when the body threw (together.ts, frame.ts).  *)
THEOREM FallenFramesLeaveNoTrace == Framing => []AllOrNothing
<1>1. FramesInv => AllOrNothing
  <2> SUFFICES ASSUME FramesInv, NEW f \in Frames, state[f] = "fell",
                      NEW k \in Asked(f) \ Written(f, {"refused", "late", "writes"})
               PROVE  Restored(f, k)
    BY DEF AllOrNothing
  <2>1. Undone(f) /\ journal[f] = <<>>
    BY DEF FramesInv, Recorded
  <2>2. k \notin Written(f, {"refused", "late"}) /\ k \notin Written(f, {"writes"})
    BY DEF Written
  <2>3. CASE k \in meddled[f] \cup stuck[f]
    BY <2>3 DEF Restored
  <2>4. CASE k \notin meddled[f] \cup stuck[f]
    <3>1. k \in Asked(f) \ (Lost(f) \cup Written(f, {"writes"}))
      BY <2>2, <2>4 DEF Lost
    <3>2. Replays(journal[f], k, f, kept[k], origin[f][k])
      BY <2>1, <3>1 DEF Undone
    <3>3. Of(journal[f], k) = {}
      BY <2>1 DEF Of
    <3> QED BY <3>2, <3>3 DEF Replays, Restored
  <2> QED BY <2>3, <2>4
<1> QED BY <1>1, FramesAlways, PTL
-----------------------------------------------------------------------------
(* What a frame announced.  A fact waits only without an async context,    *)
(* and a body that awaits one has its own frame open, for which it waits.  *)
Announced ==
  \A f \in Frames :
    /\ said[f] \in {"waits", "out"} => ~context
    /\ awaited[f] => said[f] = "waits" /\ state[f] = "open"

LEMMA AnnouncedStays == FramesInv /\ Announced /\ [TogetherNext]_togetherVars => Announced'
<1> SUFFICES ASSUME FramesInv, Announced, [TogetherNext]_togetherVars PROVE Announced'
  OBVIOUS
<1>1. FramesTyped
  BY DEF FramesInv, FramesShape
<1>2. CASE UNCHANGED frameVars
  BY <1>2 DEF frameVars, Announced
<1>3. ASSUME NEW f \in Frames, NEW v, Becomes(f, v), ~awaited[f] PROVE Announced'
  BY <1>1, <1>3 DEF Becomes, Announced, FramesTyped
<1>4. ASSUME NEW f \in Frames, Opens(f) \/ GivesUp(f) \/ BodyReturns(f) \/ BodyThrows(f) \/ Falls(f)
      PROVE  Announced'
  <2>1. ~awaited[f]
    BY <1>4 DEF Opens, GivesUp, BodyReturns, BodyThrows, Falls, BodyFree, Announced
  <2>2. \E v : Becomes(f, v)
    BY <1>4 DEF Opens, GivesUp, BodyReturns, BodyThrows, Falls
  <2> QED BY <1>3, <2>1, <2>2
<1>5. ASSUME NEW f \in Frames, GoesOut(f) PROVE Announced'
  <2>1. ~awaited[f] /\ said[f] = "waits"
    BY <1>5 DEF GoesOut, NoneOpen, Held, Announced
  <2> QED BY <1>1, <1>5, <2>1 DEF GoesOut, Announced, FramesTyped
<1>6. ASSUME NEW f \in Frames, NEW await \in BOOLEAN, Announces(f, await) PROVE Announced'
  BY <1>1, <1>6 DEF Announces, Announced, FramesTyped
<1>7. ASSUME NEW f \in Frames,
             \/ Undoes(f) \/ UndoFails(f)
             \/ \E i \in DOMAIN made[f] : ReadsBefore(f, i) \/ WritesRow(f, i) \/ Refused(f, i) \/ GestureFails(f, i)
             \/ \E g \in Gestures[f] : Asks(f, g)
      PROVE  UNCHANGED frameVars
  BY <1>7 DEF Undoes, UndoFails, ReadsBefore, WritesRow, Refused, GestureFails, Asks
<1> QED BY <1>2, <1>4, <1>5, <1>6, <1>7 DEF TogetherNext, FrameGoesOn, togetherVars

(* No fact of a frame that fell goes out, but one that nobody awaits where *)
(* there is no async context (Emissions.ts, ambient.queue.ts).             *)
THEOREM FallenFramesAnnounceNothing == Framing => []NothingSaidOfWhatFell
<1>1. FramesBegin => Announced
  BY DEF FramesBegin, TogetherInit, TogetherInitIn, Announced
<1>2. Announced => NothingSaidOfWhatFell
  BY DEF Announced, NothingSaidOfWhatFell
<1> QED BY <1>1, <1>2, FramesAlways, AnnouncedStays, PTL DEF Framing
-----------------------------------------------------------------------------
(* The update being undone, once looked at: the row is as this frame left  *)
(* it, unless another wrote it since.                                      *)
Looked(f) ==
  looked[f] = "yes" =>
    /\ state[f] = "unwinds" /\ journal[f] # <<>> /\ Head(journal[f]).kind = "update"
    /\ \A k \in Head(journal[f]).keys : kept[k] \in {f, "absent"}

AllLooked == \A f \in Frames : Looked(f)

(* The first inverse of an unwind is of one row, if an update's. *)
LEMMA HeadOfOne ==
  ASSUME FramesInv, NEW f \in Frames, journal[f] # <<>>
  PROVE  /\ Head(journal[f]).keys \in (SUBSET Rows) \ {{}}
         /\ Head(journal[f]).kind \in Kinds
         /\ Head(journal[f]).kind # "upsert" => \E k \in Rows : Head(journal[f]).keys = {k}
<1>1. PICK s \in Seq(Undo) : s = journal[f]
  BY DEF FramesInv, FramesShape, InversesTyped
<1>2. s[1] \in Undo /\ Head(s) = s[1] /\ 1 \in DOMAIN s
  BY <1>1, RestOf
<1>3. InverseFits(s[1])
  BY <1>1, <1>2 DEF FramesInv, FramesShape, InversesTyped
<1> QED BY <1>1, <1>2, <1>3 DEF Undo, InverseFits

(* What the replay of an inverse comes to. *)
LEMMA UndoTaken ==
  ASSUME FramesInv, NEW f \in Frames, Undoes(f), NEW e, e = Head(journal[f]), NEW x, x = Min(e.keys)
  PROVE  \/ Reports(f) \/ (\E v : PutsBack(f, x, v))
         \/ e.kind = "update" /\ LooksAgain(f, x)
<1>1. e.kind \in {"create", "update", "delete", "upsert"}
  BY HeadOfOne DEF Undoes, Unwinding, Kinds
<1>2. e.kind = "create" => \E v : PutsBack(f, x, v)
  BY DEF Undoes
<1>3. e.kind = "delete" => Reports(f) \/ \E v : PutsBack(f, x, v)
  BY DEF Undoes
<1>4. e.kind = "update" => Reports(f) \/ (\E v : PutsBack(f, x, v)) \/ LooksAgain(f, x)
  BY DEF Undoes
<1>5. e.kind = "upsert" => Reports(f) \/ \E v : PutsBack(f, x, v)
  BY DEF Undoes
<1> QED BY <1>1, <1>2, <1>3, <1>4, <1>5

(* A row written by another. *)
LEMMA WatchedRow ==
  ASSUME FramesInv, AllLooked, NEW c \in Frames, NEW x, NEW v, NEW own, Lands(c, x, v, own),
         NEW f \in Frames, f # c, journal'[f] = journal[f], state'[f] = state[f]
  PROVE  Looked(f)'
<1> SUFFICES ASSUME looked'[f] = "yes"
             PROVE  \A k \in Head(journal[f]).keys : kept'[k] \in {f, "absent"}
  BY DEF AllLooked, Looked, Lands
<1>1. looked[f] = "yes" /\ Head(journal[f]).keys # {x}
  BY DEF Lands
<1>2. /\ journal[f] # <<>> /\ Head(journal[f]).kind = "update"
      /\ \A k \in Head(journal[f]).keys : kept[k] \in {f, "absent"}
  BY <1>1 DEF AllLooked, Looked
<1>3. PICK k \in Rows : Head(journal[f]).keys = {k}
  BY <1>2, HeadOfOne
<1>4. kept'[k] = kept[k]
  BY <1>1, <1>3 DEF Lands, FramesInv, FramesShape, RowsTyped
<1> QED BY <1>2, <1>3, <1>4

LEMMA LookedStays == FramesInv /\ AllLooked /\ [TogetherNext]_togetherVars => AllLooked'
<1> SUFFICES ASSUME FramesInv, AllLooked, [TogetherNext]_togetherVars PROVE AllLooked'
  OBVIOUS
<1>1. /\ looked \in [Frames -> {"no", "yes", "moved"}] /\ kept \in [Rows -> Contents]
      /\ journal \in [Frames -> Seq(Undo)]
      /\ state \in [Frames -> {"new", "waits", "open", "unwinds"} \cup Ended]
  BY DEF FramesInv, FramesShape, FramesTyped, RowsTyped, InversesTyped
<1>2. CASE UNCHANGED <<kept, journal, looked, state>>
  BY <1>2 DEF AllLooked, Looked
<1>3. ASSUME NEW f \in Frames, Opens(f) \/ GivesUp(f) \/ BodyReturns(f) \/ BodyThrows(f) \/ Falls(f)
      PROVE  AllLooked'
  <2>1. looked[f] # "yes"
    BY <1>3 DEF Opens, GivesUp, BodyReturns, BodyThrows, Falls, BodyFree, AllLooked, Looked
  <2>2. /\ UNCHANGED <<kept, looked>> /\ \E v : state' = [state EXCEPT ![f] = v]
        /\ \A g \in Frames : g # f => journal'[g] = journal[g]
    BY <1>1, <1>3 DEF Opens, GivesUp, BodyReturns, BodyThrows, Falls, Becomes, rowVars
  <2> QED BY <1>1, <2>1, <2>2 DEF AllLooked, Looked
<1>4. ASSUME NEW f \in Frames, NEW i \in DOMAIN made[f], WritesRow(f, i) PROVE AllLooked'
  <2>1. PICK x, v :
          /\ Lands(f, x, v, looked[f]) \/ UNCHANGED <<kept, looked>>
          /\ v \in {f, "absent"}
    BY <1>4 DEF WritesRow
  <2>2. UNCHANGED state /\ \A g \in Frames : (g # f \/ state[f] # "open") => journal'[g] = journal[g]
    BY <1>1, <1>4 DEF WritesRow, frameVars
  <2>3. Looked(f)'
    <3>1. looked'[f] = looked[f]
      BY <2>1 DEF Lands
    <3>2. \A k : kept'[k] = kept[k] \/ kept'[k] \in {f, "absent"} \/ k \notin Rows
      BY <1>1, <2>1 DEF Lands
    <3>3. looked[f] = "yes" => Head(journal[f]).keys \subseteq Rows
      BY HeadOfOne DEF AllLooked, Looked
    <3> QED BY <2>2, <3>1, <3>2, <3>3 DEF AllLooked, Looked
  <2>4. ASSUME NEW g \in Frames, g # f PROVE Looked(g)'
    <3>1. CASE Lands(f, x, v, looked[f])
      BY <2>2, <2>4, <3>1, WatchedRow
    <3>2. CASE UNCHANGED <<kept, looked>>
      BY <2>2, <2>4, <3>2 DEF AllLooked, Looked
    <3> QED BY <2>1, <3>1, <3>2
  <2> QED BY <2>3, <2>4 DEF AllLooked
<1>5. ASSUME NEW f \in Frames, Reports(f), UNCHANGED state PROVE AllLooked'
  BY <1>1, <1>5 DEF Reports, AllLooked, Looked
<1>6. ASSUME NEW f \in Frames, Undoes(f) PROVE AllLooked'
  <2>1. UNCHANGED state /\ Unwinding(f)
    BY <1>6 DEF Undoes, frameVars
  <2>2. PICK e : e = Head(journal[f])
    OBVIOUS
  <2>3. PICK x : x = Min(e.keys)
    OBVIOUS
  <2>5. \/ Reports(f) \/ (\E v : PutsBack(f, x, v))
        \/ e.kind = "update" /\ LooksAgain(f, x)
    BY <1>6, <2>2, <2>3, UndoTaken
  <2>6. ASSUME NEW v, PutsBack(f, x, v) PROVE AllLooked'
    <3>1. Lands(f, x, v, "no") /\ \A g \in Frames : g # f => journal'[g] = journal[g]
      BY <1>1, <2>6 DEF PutsBack, RunsOn
    <3>2. looked'[f] = "no"
      BY <3>1 DEF Lands
    <3>3. \A g \in Frames : g # f => Looked(g)'
      BY <2>1, <3>1, WatchedRow
    <3> QED BY <3>2, <3>3 DEF AllLooked, Looked
  <2>7. CASE e.kind = "update" /\ LooksAgain(f, x) /\ ~Reports(f)
    <3>1. /\ looked' = [looked EXCEPT ![f] = "yes"] /\ UNCHANGED <<kept, journal>> /\ kept[x] = f
      BY <2>7 DEF LooksAgain, AsWritten
    <3>2. e.keys = {x}
      <4>1. PICK k \in Rows : e.keys = {k}
        BY <2>1, <2>2, <2>7, HeadOfOne DEF Unwinding
      <4>2. x \in e.keys
        BY <2>3, <4>1, RowsAreKeys, MinIsLeast
      <4> QED BY <4>1, <4>2
    <3> QED BY <1>1, <2>1, <2>2, <2>7, <3>1, <3>2 DEF AllLooked, Looked, Unwinding
  <2> QED BY <1>5, <2>1, <2>5, <2>6, <2>7
<1>7. ASSUME NEW f \in Frames, UndoFails(f) PROVE AllLooked'
  BY <1>5, <1>7 DEF UndoFails, frameVars
<1>8. ASSUME NEW f \in Frames,
             \/ GoesOut(f) \/ \E await \in BOOLEAN : Announces(f, await)
             \/ \E i \in DOMAIN made[f] : ReadsBefore(f, i) \/ Refused(f, i) \/ GestureFails(f, i)
             \/ \E g \in Gestures[f] : Asks(f, g)
      PROVE  UNCHANGED <<kept, journal, looked, state>>
  BY <1>8 DEF GoesOut, Announces, ReadsBefore, Refused, GestureFails, Asks, frameVars, rowVars
<1>9. UNCHANGED togetherVars => UNCHANGED <<kept, journal, looked, state>>
  BY DEF togetherVars, frameVars, rowVars
<1> QED BY <1>2, <1>3, <1>4, <1>6, <1>7, <1>8, <1>9 DEF TogetherNext, FrameGoesOn

(* The undo of an update never writes over what another wrote, unless that *)
(* landed after it looked (frame.ts).                                      *)
THEOREM UndoneUpdatesSpareOthers == Framing => UpdatesUndoneSpareOthers
<1>1. FramesBegin => AllLooked
  BY DEF FramesBegin, TogetherInit, TogetherInitIn, AllLooked, Looked
<1>2. FramesInv /\ AllLooked /\ [TogetherNext]_togetherVars =>
        [\A f \in Frames, k \in Rows :
           (Unwinding(f) /\ Head(journal[f]).kind = "update" /\ journal'[f] # journal[f] /\ kept'[k] # kept[k])
             => (kept[k] = f \/ looked[f] = "moved")]_togetherVars
  <2> SUFFICES ASSUME FramesInv, AllLooked, TogetherNext, NEW f \in Frames, NEW k \in Rows,
                      Unwinding(f), Head(journal[f]).kind = "update",
                      journal'[f] # journal[f], kept'[k] # kept[k]
               PROVE  kept[k] = f \/ looked[f] = "moved"
    OBVIOUS
  <2>1. journal \in [Frames -> Seq(Undo)] /\ kept \in [Rows -> Contents] /\ looked[f] \in {"no", "yes", "moved"}
    BY DEF FramesInv, FramesShape, RowsTyped, InversesTyped
  <2>2. Undoes(f)
    <3>1. PICK c \in Frames :
            \/ FrameGoesOn(c) \/ UndoFails(c)
            \/ \E i \in DOMAIN made[c] : GestureFails(c, i)
            \/ \E await \in BOOLEAN : Announces(c, await)
            \/ \E g \in Gestures[c] : Asks(c, g)
      BY DEF TogetherNext
    <3>2. UNCHANGED kept \/ Undoes(c) \/ \E i \in DOMAIN made[c] : WritesRow(c, i)
      BY <3>1 DEF FrameGoesOn, Opens, GivesUp, GoesOut, ReadsBefore, Refused, BodyReturns, BodyThrows,
         Falls, UndoFails, Reports, GestureFails, Announces, Asks, rowVars
    <3>3. (\E i \in DOMAIN made[c] : WritesRow(c, i)) => journal'[f] = journal[f]
      BY <2>1 DEF WritesRow, Unwinding
    <3>4. ASSUME Undoes(c) PROVE c = f
      <4>1. \/ Reports(c) \/ (\E x, v : PutsBack(c, x, v))
            \/ \E x : LooksAgain(c, x)
        BY <3>4, UndoTaken
      <4>2. c # f => journal'[f] = journal[f]
        BY <2>1, <4>1 DEF PutsBack, RunsOn, Reports, LooksAgain
      <4> QED BY <4>2
    <3> QED BY <3>2, <3>3, <3>4
  <2>3. PICK e : e = Head(journal[f])
    OBVIOUS
  <2>4. PICK x : x = Min(e.keys)
    OBVIOUS
  <2>5. looked[f] # "no" /\ kept[x] # "absent" /\ PutsBack(f, x, e.before[x])
    BY <2>2, <2>3, <2>4 DEF Undoes, LooksAgain, Reports
  <2>6. k = x
    BY <2>1, <2>5 DEF PutsBack, Lands
  <2>7. x \in e.keys
    <3>1. e.keys \in SUBSET Nat /\ e.keys # {}
      BY <2>3, HeadOfOne, RowsAreKeys DEF Unwinding
    <3> QED BY <2>4, <3>1, MinIsLeast
  <2>8. looked[f] = "yes" => kept[x] = f
    BY <2>3, <2>5, <2>7 DEF AllLooked, Looked
  <2> QED BY <2>1, <2>5, <2>6, <2>8
<1> QED BY <1>1, <1>2, FramesAlways, LookedStays, PTL DEF Framing, UpdatesUndoneSpareOthers

-----------------------------------------------------------------------------
(* FramesAndFacts.tla: frames, and what is said and asked beside them.     *)
LEMMA ProcessRunsBoth == ProcessSpec => Framing /\ Discovering
<1>1. ProcessInit => FramesBegin /\ FactsInit
  BY DEF ProcessInit
<1>2. [ProcessNext]_processVars => [TogetherNext]_togetherVars /\ [FactsNext]_factsVars
  BY DEF ProcessNext, processVars
<1> QED BY <1>1, <1>2, PTL DEF ProcessSpec, Framing, Discovering

(* A process keeps its types, however its frames and what it announces,    *)
(* calls and discovers cross (together.ts, Emissions.ts, remote.ts).       *)
THEOREM ProcessWellTyped == ProcessSpec => []ProcessTypeOK
<1>1. TogetherTypeOK /\ FactsTypeOK => ProcessTypeOK
  BY DEF ProcessTypeOK
<1> QED BY <1>1, ProcessRunsBoth, FramesWellTyped, FactsKeepTheirShape, PTL

=============================================================================

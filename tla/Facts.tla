------------------------------- MODULE Facts -------------------------------
(***************************************************************************)
(* Announcing a fact, and finding whoever is elsewhere: core/module/fact/  *)
(* Emissions.ts and core/boot/remote.ts.  One process is modelled whole:   *)
(* its announcements, its calls to remote facades, and the discoveries     *)
(* both may start, side by side.  Each remote has a card; the other        *)
(* processes run the same code, and appear as listeners that may announce. *)
(*                                                                         *)
(* An address is one operation of one facade.  A world says who serves it, *)
(* which fact it listens to and which one it may announce.                 *)
(***************************************************************************)
EXTENDS Integers, FiniteSetsExt

CONSTANTS
  Remotes,        \* the labels of `fronds:`, numbered as declared
  Addresses,
  FactNames,
  NoFact,
  Announcements,  \* announcements there may be, numbered
  Calls,          \* calls to an address that is not here
  Worlds,         \* where the process may find itself
  MaxSilent       \* answers that fail to come or refuse, a bound of the model

ASSUME RemotesAreOrdered == Remotes \subseteq Nat \ {0} /\ IsFiniteSet(Remotes)
ASSUME NoFactIsNone == NoFact \notin FactNames
ASSUME WorldsAreWorlds ==
  Worlds \subseteq
    [here   : SUBSET Addresses,                      \* served by this process
     noted  : SUBSET Addresses,                      \* whose code it read
     serves : [Remotes -> SUBSET Addresses],         \* per remote, what its card says
     unread : SUBSET Remotes,                        \* the cards it cannot walk
     hears  : [Addresses -> FactNames \cup {NoFact}],
     says   : [Addresses -> FactNames \cup {NoFact}]]

Here == 0

VARIABLES
  world,    \* where the process finds itself
  pending,  \* the remotes not yet reached
  claim,    \* per address, the remote it is routed to, or Here
  told,     \* per address, how often it is noted as a listener elsewhere
  dropped,  \* the remotes whose card was refused
  left,     \* per asker, the remotes that have not answered its discover
  reached,  \* per asker, those that have
  twice,    \* remotes that two askers asked at once
  stage,    \* per asker, how far it is
  sought,   \* per call, its address
  saying,   \* per announcement, [fact, waiting, place, chain, causes, by]
  to,       \* per announcement and address, the listeners still to settle
  heard,    \* per announcement, the addresses that answered
  missed,   \* per announcement, the addresses that did not
  silent    \* answers that failed so far

cards == <<pending, claim, told, dropped>>
asking == <<left, reached, twice>>
spoken == <<saying, to, heard, missed>>
factsVars == <<world, cards, asking, stage, sought, spoken, silent>>

Askers == Announcements \cup Calls
Over == {"answered", "refused", "served", "unavailable", "not found"}
Nothing == [fact |-> NoFact, waiting |-> FALSE, place |-> Here, chain |-> {}, causes |-> {}, by |-> <<>>]

FactsTypeOK ==
  /\ pending \subseteq Remotes /\ dropped \subseteq Remotes \ pending
  /\ claim \in [Addresses -> Remotes \cup {Here}]
  /\ told \in [Addresses -> Nat]
  /\ left \in [Askers -> SUBSET Remotes]
  /\ reached \in [Askers -> SUBSET Remotes]
  /\ stage \in [Askers -> {"idle", "links", "asks", "asked", "settles"} \cup Over]
  /\ to \in [Announcements -> [Addresses -> Nat]]
  /\ heard \in [Announcements -> SUBSET Addresses]
  /\ missed \in [Announcements -> SUBSET Addresses]
  /\ \A x \in Askers : left[x] \cap reached[x] = {} /\ (left[x] # {} => stage[x] = "asks")

FactsInit ==
  /\ world \in Worlds
  /\ pending = Remotes
  /\ claim = [a \in Addresses |-> Here]
  /\ told = [a \in Addresses |-> 0]
  /\ dropped = {}
  /\ left = [x \in Askers |-> {}]
  /\ reached = [x \in Askers |-> {}]
  /\ twice = {}
  /\ stage = [x \in Askers |-> "idle"]
  /\ sought \in [Calls -> Addresses]
  /\ saying = [x \in Announcements |-> Nothing]
  /\ to = [x \in Announcements |-> [a \in Addresses |-> 0]]
  /\ heard = [x \in Announcements |-> {}]
  /\ missed = [x \in Announcements |-> {}]
  /\ silent = 0

Listening(f) == {a \in Addresses : world.hears[a] = f}
Goes(x, s) == stage' = [stage EXCEPT ![x] = s]

-----------------------------------------------------------------------------
(* Discovery: every remote still pending is asked at once, and the cards   *)
(* are indexed in the order declared once all have answered or failed.     *)

Discovers(x) ==
  /\ left' = [left EXCEPT ![x] = pending]
  /\ reached' = [reached EXCEPT ![x] = {}]
  /\ twice' = twice \cup {r \in pending : \E y \in Askers : r \in left[y] \cup reached[y]}
  /\ Goes(x, "asks")

Skips(x) == Goes(x, "asked") /\ UNCHANGED asking

CardComes(x, r) ==
  /\ r \in left[x]
  /\ left' = [left EXCEPT ![x] = @ \ {r}]
  /\ reached' = [reached EXCEPT ![x] = @ \cup {r}]
  /\ UNCHANGED <<world, cards, twice, stage, sought, spoken, silent>>

(* Unreachable: it stays pending, retried on the next miss. *)
NoCardComes(x, r) ==
  /\ r \in left[x] /\ silent < MaxSilent
  /\ left' = [left EXCEPT ![x] = @ \ {r}]
  /\ silent' = silent + 1
  /\ UNCHANGED <<world, cards, reached, twice, stage, sought, spoken>>

(* What r serves that another remote, indexed before it, has claimed. *)
Taken(x, r) ==
  {a \in world.serves[r] : claim[a] \notin {Here, r} \/ \E q \in reached[x] : q < r /\ a \in world.serves[q]}

(* A card that cannot be walked, or claims what another one serves. *)
Refusable(x) == {r \in reached[x] : r \in world.unread \/ Taken(x, r) # {}}

(* Were every remote taken off, whether it answered or not. *)
AllOff(x, indexed) == {}

(* Were none taken off, and each discover index them again. *)
NoneOff(x, indexed) == pending

StillPending(x, indexed) == pending \ indexed

AllSettled(x) == left[x] = {}

(* The first card refused ends the discover: it was taken off before it    *)
(* was judged, what it served before the clash is routed, and those after  *)
(* it stay pending.  The refusal is the asker's.                           *)
Indexes(x) ==
  LET bad    == Refusable(x)
      good   == IF bad = {} THEN reached[x] ELSE {r \in reached[x] : r < Min(bad)}
      serves(a) == {r \in good : a \in world.serves[r]}
      partly == IF bad = {} \/ Min(bad) \in world.unread THEN {}
                ELSE world.serves[Min(bad)] \ Taken(x, Min(bad))
  IN  /\ stage[x] = "asks" /\ AllSettled(x)
      /\ \E some \in SUBSET partly :
           claim' = [a \in Addresses |->
             IF serves(a) # {} THEN Max(serves(a)) ELSE IF a \in some THEN Min(bad) ELSE claim[a]]
      /\ told' = [a \in Addresses |->
           IF world.hears[a] = NoFact THEN 0 ELSE told[a] + Cardinality(serves(a))]
      /\ pending' = StillPending(x, good \cup IF bad = {} THEN {} ELSE {Min(bad)})
      /\ dropped' = IF bad = {} THEN dropped ELSE dropped \cup {Min(bad)}
      /\ reached' = [reached EXCEPT ![x] = {}]
      /\ Goes(x, IF bad = {} THEN "asked" ELSE "refused")
      /\ UNCHANGED <<world, left, twice, sought, spoken, silent>>

-----------------------------------------------------------------------------
(* A call to an address that is not here: route. *)

SeeksRoute(c) ==
  /\ stage[c] = "idle"
  /\ IF claim[sought[c]] = Here /\ pending # {} THEN Discovers(c) ELSE Skips(c)
  /\ UNCHANGED <<world, cards, sought, spoken, silent>>

Routes(c) ==
  /\ stage[c] = "asked"
  /\ Goes(c, IF claim[sought[c]] # Here THEN "served"
             ELSE IF pending # {} THEN "unavailable" ELSE "not found")
  /\ UNCHANGED <<world, cards, asking, sought, spoken, silent>>

-----------------------------------------------------------------------------
(* Announcements. *)

HomeOf(a) == IF a \in world.here THEN Here ELSE Min({r \in Remotes : a \in world.serves[r]})

Starts(x, what) ==
  /\ stage[x] = "idle"
  /\ \A y \in Announcements : y < x => stage[y] # "idle"
  /\ saying' = [saying EXCEPT ![x] = what]
  /\ Goes(x, "links")
  /\ UNCHANGED <<world, cards, asking, sought, to, heard, missed, silent>>

AnnouncesFact(x) ==
  \E f \in FactNames, waiting \in BOOLEAN : Starts(x, [Nothing EXCEPT !.fact = f, !.waiting = waiting])

(* What a listener's own announcement is inside of: an async context does  *)
(* not cross to another process.                                           *)
Walked(y, a) == IF HomeOf(a) = saying[y].place THEN saying[y].chain \cup {saying[y].fact} ELSE {}

(* A listener announces in its turn, and awaits the handing over. *)
AnnouncesOn(x, y, a) ==
  /\ to[y][a] > 0 /\ world.says[a] # NoFact
  /\ \A z \in Announcements : saying[z].by # <<y, a>>
  /\ Starts(x, [fact |-> world.says[a], waiting |-> FALSE, place |-> HomeOf(a),
                chain |-> Walked(y, a), causes |-> saying[y].causes \cup {saying[y].fact}, by |-> <<y, a>>])

(* The links finish the fact; then its listeners elsewhere are asked for.  *)
LinksFinish(x) ==
  /\ stage[x] = "links"
  /\ IF saying[x].place = Here /\ pending # {} THEN Discovers(x) ELSE Skips(x)
  /\ UNCHANGED <<world, cards, sought, spoken, silent>>

LinkRefuses(x) ==
  /\ stage[x] = "links" /\ silent < MaxSilent
  /\ silent' = silent + 1
  /\ Goes(x, "refused")
  /\ UNCHANGED <<world, cards, asking, sought, spoken>>

(* Were an announcement that waits let go with a remote unreached. *)
Overlooked(x) == {}

Unasked(x) == IF saying[x].waiting /\ saying[x].place = Here THEN pending ELSE {}

(* One noted here and on a card is called once. *)
Noted(a) == IF a \in world.noted THEN 1 ELSE told[a]

(* Every listener is handed the fact; a loop, or a remote that could not   *)
(* be asked, refuses the announcement.                                     *)
Hands(x) ==
  LET f == saying[x].fact
      refused == Unasked(x) # {} \/ f \in saying[x].chain
      times(a) == IF saying[x].place = Here THEN Noted(a) ELSE 1
  IN  /\ stage[x] = "asked"
      /\ Goes(x, IF refused THEN "refused" ELSE "settles")
      /\ to' = IF refused THEN to
               ELSE [to EXCEPT ![x] = [a \in Addresses |-> IF a \in Listening(f) THEN times(a) ELSE 0]]
      /\ UNCHANGED <<world, cards, asking, sought, saying, heard, missed, silent>>

Own(x, a) == {z \in Announcements : saying[z].by = <<x, a>>}
Settles(x, a) ==
  /\ to[x][a] > 0
  /\ \A z \in Own(x, a) : stage[z] \notin {"links", "asks", "asked"}
  /\ to' = [to EXCEPT ![x][a] = @ - 1]
  /\ UNCHANGED <<world, cards, asking, stage, sought, saying>>

ListenerAnswers(x, a) ==
  /\ \A z \in Own(x, a) : stage[z] # "refused"
  /\ saying[x].place = Here /\ a \notin world.here => claim[a] # Here
  /\ Settles(x, a)
  /\ heard' = [heard EXCEPT ![x] = @ \cup {a}]
  /\ UNCHANGED <<missed, silent>>

(* What it announced was refused, no route leads to it, or it throws. *)
ListenerRefuses(x, a) ==
  /\ \/ \E z \in Own(x, a) : stage[z] = "refused"
     \/ saying[x].place = Here /\ a \notin world.here /\ claim[a] = Here
     \/ silent < MaxSilent
  /\ Settles(x, a)
  /\ missed' = [missed EXCEPT ![x] = @ \cup {a}]
  /\ silent' = IF silent < MaxSilent THEN silent + 1 ELSE silent
  /\ UNCHANGED heard

(* answersOf: one that did not answer refuses the whole announcement. *)
Concludes(x) ==
  /\ stage[x] = "settles" /\ \A a \in Addresses : to[x][a] = 0
  /\ Goes(x, IF saying[x].waiting /\ missed[x] # {} THEN "refused" ELSE "answered")
  /\ UNCHANGED <<world, cards, asking, sought, spoken, silent>>

AnnouncementGoesOn(x) ==
  \/ LinksFinish(x) \/ Hands(x) \/ Concludes(x)
  \/ \E a \in Addresses : ListenerAnswers(x, a) \/ ListenerRefuses(x, a)

AskerGoesOn(x) ==
  \/ \E r \in Remotes : CardComes(x, r) \/ NoCardComes(x, r)
  \/ Indexes(x)
  \/ x \in Calls /\ Routes(x)
  \/ x \in Announcements /\ AnnouncementGoesOn(x)

FactsNext ==
  \/ \E x \in Askers : AskerGoesOn(x)
  \/ \E c \in Calls : SeeksRoute(c)
  \/ \E x \in Announcements : LinkRefuses(x) \/ AnnouncesFact(x)
  \/ \E x, y \in Announcements, a \in Addresses : AnnouncesOn(x, y, a)

(* A transport answers or times out, a listener settles. *)
FactsFairness == WF_factsVars(\E x \in Askers : AskerGoesOn(x))

-----------------------------------------------------------------------------
(***************************************************************************)
(* Properties.                                                             *)
(***************************************************************************)

(* "An announcement with an answer type waits for everyone": one that was  *)
(* answered heard every listener there is, here and on every remote, but   *)
(* those of a remote whose card was refused.                               *)
EveryoneAnswered ==
  \A x \in Announcements :
    (stage[x] = "answered" /\ saying[x].waiting /\ saying[x].place = Here) =>
      \A a \in Listening(saying[x].fact) :
        a \in heard[x] \/ (a \notin world.noted /\ \A r \in Remotes : a \in world.serves[r] => r \in dropped)

(* A listener is noted once, unless two discoveries overlapped: then every *)
(* fact reaches it twice, for as long as the process lives.                *)
NotedOnce ==
  \A a \in Addresses : told[a] > 1 => \E r \in twice : a \in world.serves[r]

(* "Two remotes claiming one name is refused, never silently arbitrated"   *)
(* (remote.ts:165): what an address is routed to does not change.          *)
ClaimsStand ==
  [][\A a \in Addresses : claim[a] # Here => claim'[a] = claim[a]]_factsVars

(* A call is told that nothing serves its address only when that is so, or *)
(* when the remote that does had its card refused.                         *)
NotFoundIsSo ==
  \A c \in Calls : stage[c] = "not found" =>
    \A r \in Remotes : sought[c] \in world.serves[r] => r \in dropped

(* Whoever announces or calls is answered or refused: again and again,     *)
(* no one is in the middle.                                                *)
EveryAskerSettles == []<>(\A x \in Askers : stage[x] \in {"idle"} \cup Over)

(* "A fact cannot cause itself" (site, concepts/fact). *)
NoFactCausesItself ==
  \A x \in Announcements :
    stage[x] \in {"settles", "answered"} => saying[x].fact \notin saying[x].causes
=============================================================================

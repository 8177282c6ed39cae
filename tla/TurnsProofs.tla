---------------------------- MODULE TurnsProofs ----------------------------
(***************************************************************************)
(* Turns.tla for every set of callers and every set of keys: its type,     *)
(* one turn per key, no crossing of waits, and the exclusive sections it   *)
(* implements.                                                             *)
(***************************************************************************)
EXTENDS Turns, Sequences, SequenceTheorems, TLAPS

(* The promises chained on a key form one line: nobody is in it twice, each*)
(* is chained to the one before, and the Map holds the last of them.       *)
Chain(s, k) ==
  /\ \A i \in 1..Len(s) : k \in lined[s[i]]
  /\ \A c \in Callers : k \in lined[c] => \E i \in 1..Len(s) : s[i] = c
  /\ \A i, j \in 1..Len(s) : s[i] = s[j] => i = j
  /\ \A i \in 1..Len(s) : ahead[s[i]][k] = IF i = 1 THEN NoCaller ELSE s[i-1]
  /\ last[k] = IF Len(s) = 0 THEN NoCaller ELSE s[Len(s)]

Chained == \A k \in Keys : \E s \in Seq(Callers) : Chain(s, k)

(* Where a caller stands says which keys it is in line for. *)
Standing(c) ==
  /\ turn[c] \subseteq lined[c]
  /\ lined[c] \subseteq wants[c]
  /\ \A k \in turn[c] : ahead[c][k] = NoCaller
  /\ phase[c] = "idle" => wants[c] = {}
  /\ phase[c] = "lining" =>
       \A k \in lined[c] \ turn[c] : IsFirst(k, wants[c] \ turn[c])
  /\ phase[c] = "lining" => wants[c] # turn[c]
  /\ phase[c] = "working" => turn[c] = wants[c]
  /\ phase[c] = "leaving" => turn[c] = lined[c]

AllStanding == \A c \in Callers : Standing(c)

TurnsInv == TurnsTypeOK /\ Chained /\ AllStanding /\ NeverCrossing

-----------------------------------------------------------------------------
(* Lining up behind the last promise makes the line one longer. *)
LEMMA TakeLengthens ==
  ASSUME TurnsTypeOK, NEW c \in Callers, NEW k \in Keys, k \notin lined[c],
         NEW s \in Seq(Callers), Chain(s, k), Take(c, k)
  PROVE  Chain(Append(s, c), k)'
<1> DEFINE t == Append(s, c)
<1>1. /\ t \in Seq(Callers) /\ Len(t) = Len(s) + 1 /\ Len(s) \in Nat
      /\ \A i \in 1..Len(s) : t[i] = s[i] /\ s[i] \in Callers
      /\ t[Len(s) + 1] = c
  OBVIOUS
<1>2. \A i \in 1..Len(s) : s[i] # c
  BY DEF Chain
<1>3. \A d \in Callers : d # c => lined'[d] = lined[d] /\ ahead'[d] = ahead[d]
  BY DEF Take, TurnsTypeOK
<1>4. k \in lined'[c] /\ ahead'[c][k] = last[k] /\ last'[k] = c
  BY DEF Take, TurnsTypeOK
<1>5. \A i \in 1..Len(t) : k \in lined'[t[i]]
  BY <1>1, <1>2, <1>3, <1>4 DEF Chain
<1>6. \A d \in Callers : k \in lined'[d] => \E i \in 1..Len(t) : t[i] = d
  BY <1>1, <1>3 DEF Chain
<1>7. \A i, j \in 1..Len(t) : t[i] = t[j] => i = j
  BY <1>1, <1>2 DEF Chain
<1>8. \A i \in 1..Len(t) : ahead'[t[i]][k] = IF i = 1 THEN NoCaller ELSE t[i-1]
  <2> SUFFICES ASSUME NEW i \in 1..Len(t)
               PROVE  ahead'[t[i]][k] = IF i = 1 THEN NoCaller ELSE t[i-1]
    OBVIOUS
  <2>1. CASE i = Len(s) + 1
    BY <1>1, <1>4, <2>1 DEF Chain
  <2>2. CASE i \in 1..Len(s)
    <3>1. t[i] = s[i] /\ ahead'[s[i]] = ahead[s[i]]
      BY <1>1, <1>2, <1>3, <2>2
    <3>2. i # 1 => t[i-1] = s[i-1]
      BY <1>1, <2>2
    <3> QED BY <3>1, <3>2, <2>2 DEF Chain
  <2> QED BY <2>1, <2>2, <1>1
<1>9. last'[k] = IF Len(t) = 0 THEN NoCaller ELSE t[Len(t)]
  BY <1>1, <1>4
<1> QED BY <1>5, <1>6, <1>7, <1>8, <1>9 DEF Chain

(* Whoever leaves is the first of the line, and the line gets shorter. *)
LEMMA LeaveShortens ==
  ASSUME TurnsTypeOK, NEW c \in Callers, NEW k \in Keys, k \in lined[c],
         ahead[c][k] = NoCaller,
         NEW s \in Seq(Callers), Chain(s, k),
         lined' = [lined EXCEPT ![c] = @ \ {k}],
         ahead' = [d \in Callers |->
                     [ahead[d] EXCEPT ![k] = IF @ = c THEN NoCaller ELSE @]],
         last' = [last EXCEPT ![k] = IF @ = c THEN NoCaller ELSE @]
  PROVE  Chain(Tail(s), k)'
<1> DEFINE t == Tail(s)
<1>1. PICK h \in 1..Len(s) : s[h] = c
  BY DEF Chain
<1>2. h = 1
  <2>1. h # 1 => s[h-1] \in Callers
    OBVIOUS
  <2> QED BY <1>1, <2>1, NoCallerIsNone DEF Chain
<1>3. /\ s # <<>> /\ Len(s) \in Nat /\ Len(s) >= 1
      /\ t \in Seq(Callers) /\ Len(t) = Len(s) - 1
      /\ \A i \in 1..Len(t) : t[i] = s[i+1] /\ i + 1 \in 1..Len(s)
  BY <1>1
<1>4. s[1] = c /\ \A i \in 1..Len(s) : i # 1 => s[i] # c
  BY <1>1, <1>2 DEF Chain
<1>5. \A d \in Callers : /\ d # c => lined'[d] = lined[d]
                         /\ k \notin lined'[c]
                         /\ ahead'[d][k] = IF ahead[d][k] = c THEN NoCaller ELSE ahead[d][k]
  BY DEF TurnsTypeOK
<1>6. \A i \in 1..Len(t) : k \in lined'[t[i]]
  BY <1>3, <1>4, <1>5 DEF Chain
<1>7. \A d \in Callers : k \in lined'[d] => \E i \in 1..Len(t) : t[i] = d
  <2> SUFFICES ASSUME NEW d \in Callers, k \in lined'[d]
               PROVE  \E i \in 1..Len(t) : t[i] = d
    OBVIOUS
  <2>1. d # c /\ k \in lined[d]
    BY <1>5
  <2>2. PICK i \in 1..Len(s) : s[i] = d
    BY <2>1 DEF Chain
  <2>3. i # 1 /\ i - 1 \in 1..Len(t) /\ t[i-1] = s[i]
    BY <2>1, <2>2, <1>3, <1>4
  <2> QED BY <2>2, <2>3
<1>8. \A i, j \in 1..Len(t) : t[i] = t[j] => i = j
  BY <1>3 DEF Chain
<1>9. \A i \in 1..Len(t) : ahead'[t[i]][k] = IF i = 1 THEN NoCaller ELSE t[i-1]
  <2> SUFFICES ASSUME NEW i \in 1..Len(t)
               PROVE  ahead'[t[i]][k] = IF i = 1 THEN NoCaller ELSE t[i-1]
    OBVIOUS
  <2>1. t[i] = s[i+1] /\ ahead[s[i+1]][k] = s[i] /\ s[i+1] \in Callers /\ s[i] \in Callers
    BY <1>3 DEF Chain
  <2>2. CASE i = 1
    BY <2>1, <2>2, <1>4, <1>5
  <2>3. CASE i # 1
    <3>1. i - 1 \in 1..Len(t) /\ t[i-1] = s[i] /\ s[i] # c
      BY <2>3, <1>3, <1>4
    <3> QED BY <3>1, <2>1, <2>3, <1>5
  <2> QED BY <2>2, <2>3
<1>10. last'[k] = IF Len(t) = 0 THEN NoCaller ELSE t[Len(t)]
  <2>1. last[k] = s[Len(s)] /\ last'[k] = IF last[k] = c THEN NoCaller ELSE last[k]
    BY <1>3 DEF Chain, TurnsTypeOK
  <2>2. CASE Len(s) = 1
    BY <2>1, <2>2, <1>3, <1>4
  <2>3. CASE Len(s) # 1
    <3>1. Len(t) # 0 /\ t[Len(t)] = s[Len(s)] /\ s[Len(s)] # c
      BY <2>3, <1>3, <1>4
    <3> QED BY <3>1, <2>1
  <2> QED BY <2>2, <2>3
<1> QED BY <1>6, <1>7, <1>8, <1>9, <1>10 DEF Chain

(* A line nobody enters or leaves is the same line. *)
LEMMA LineKept ==
  ASSUME NEW k \in Keys, NEW s \in Seq(Callers), Chain(s, k),
         last'[k] = last[k],
         \A d \in Callers : /\ ahead'[d][k] = ahead[d][k]
                            /\ k \in lined'[d] <=> k \in lined[d]
  PROVE  Chain(s, k)'
<1>1. \A i \in 1..Len(s) : s[i] \in Callers
  OBVIOUS
<1> QED BY <1>1 DEF Chain

(* Only one caller of a line has nobody ahead. *)
LEMMA OneHead ==
  ASSUME Chained, NEW k \in Keys, NEW c \in Callers, NEW d \in Callers,
         k \in lined[c], k \in lined[d],
         ahead[c][k] = NoCaller, ahead[d][k] = NoCaller
  PROVE  c = d
<1>1. PICK s \in Seq(Callers) : Chain(s, k)
  BY DEF Chained
<1>2. \A i \in 1..Len(s) : ahead[s[i]][k] = NoCaller => i = 1
  <2>1. \A i \in 1..Len(s) : i # 1 => s[i-1] \in Callers
    OBVIOUS
  <2> QED BY <1>1, <2>1, NoCallerIsNone DEF Chain
<1>3. PICK i \in 1..Len(s) : s[i] = c
  BY <1>1 DEF Chain
<1>4. PICK j \in 1..Len(s) : s[j] = d
  BY <1>1 DEF Chain
<1> QED BY <1>2, <1>3, <1>4

(* Take leaves every other key's line alone. *)
LEMMA TakeKeepsLines ==
  ASSUME TurnsTypeOK, Chained, NEW c \in Callers, NEW k \in Keys,
         k \notin lined[c], Take(c, k)
  PROVE  Chained'
<1> SUFFICES ASSUME NEW j \in Keys
             PROVE  \E s \in Seq(Callers) : Chain(s, j)'
  BY DEF Chained
<1>1. PICK s \in Seq(Callers) : Chain(s, j)
  BY DEF Chained
<1>2. CASE j = k
  <2>1. Append(s, c) \in Seq(Callers)
    OBVIOUS
  <2>2. Chain(Append(s, c), j)'
    BY <1>1, <1>2, TakeLengthens
  <2> QED BY <2>1, <2>2
<1>3. CASE j # k
  <2>1. /\ last'[j] = last[j]
        /\ \A d \in Callers : /\ ahead'[d][j] = ahead[d][j]
                              /\ j \in lined'[d] <=> j \in lined[d]
    BY <1>3 DEF Take, TurnsTypeOK
  <2>2. Chain(s, j)'
    BY <1>1, <2>1, LineKept
  <2> QED BY <2>2
<1> QED BY <1>2, <1>3

(* With no line touched, every line is kept. *)
LEMMA LinesKept ==
  ASSUME Chained, UNCHANGED <<last, ahead, lined>>
  PROVE  Chained'
BY DEF Chained, Chain

-----------------------------------------------------------------------------
LEMMA TakeTyped ==
  ASSUME TurnsTypeOK, NEW c \in Callers, NEW k \in Keys, Take(c, k)
  PROVE  /\ last' \in [Keys -> Callers \cup {NoCaller}]
         /\ ahead' \in [Callers -> [Keys -> Callers \cup {NoCaller}]]
         /\ lined' \in [Callers -> SUBSET Keys]
BY DEF TurnsTypeOK, Take

LEMMA TakeAllSafe ==
  ASSUME TurnsInv, NEW c \in Callers, NEW ks \in SUBSET Keys, TakeAll(c, ks)
  PROVE  TurnsInv'
<1> USE DEF TurnsInv
<1>1. /\ phase[c] = "idle" /\ wants[c] = {} /\ lined[c] = {} /\ turn[c] = {}
      /\ turn' = turn /\ wants' = [wants EXCEPT ![c] = ks]
  BY DEF TakeAll, AllStanding, Standing
<1>2. CASE ks = {} /\ phase' = [phase EXCEPT ![c] = "working"] /\ UNCHANGED <<last, ahead, lined>>
  <2>1. TurnsTypeOK'
    BY <1>1, <1>2 DEF TurnsTypeOK, Phases
  <2>2. AllStanding'
    BY <1>1, <1>2 DEF TurnsTypeOK, AllStanding, Standing, IsFirst
  <2>3. NeverCrossing'
    BY <1>1, <1>2 DEF TurnsTypeOK, NeverCrossing
  <2> QED BY <1>2, <2>1, <2>2, <2>3, LinesKept
<1>3. CASE /\ phase' = [phase EXCEPT ![c] = "lining"]
           /\ \E k \in ks : IsFirst(k, ks) /\ Take(c, k)
  <2>1. PICK k \in ks : IsFirst(k, ks) /\ Take(c, k)
    BY <1>3
  <2>2. TurnsTypeOK'
    BY <1>1, <1>3, <2>1, TakeTyped DEF TurnsTypeOK, Phases
  <2>3. AllStanding'
    <3> SUFFICES ASSUME NEW d \in Callers PROVE Standing(d)'
      BY DEF AllStanding
    <3>1. Standing(d)
      BY DEF AllStanding
    <3>2. CASE d = c
      BY <1>1, <1>3, <2>1, <3>2 DEF TurnsTypeOK, Standing, Take, IsFirst
    <3>3. CASE d # c
      BY <1>1, <1>3, <2>1, <3>1, <3>3 DEF TurnsTypeOK, Standing, Take, IsFirst
    <3> QED BY <3>2, <3>3
  <2>4. NeverCrossing'
    BY <1>1 DEF TurnsTypeOK, NeverCrossing
  <2>5. Chained'
    BY <1>1, <2>1, TakeKeepsLines
  <2> QED BY <2>2, <2>3, <2>4, <2>5
<1> QED BY <1>2, <1>3 DEF TakeAll

LEMMA TurnComesSafe ==
  ASSUME TurnsInv, NEW c \in Callers, TurnComes(c)
  PROVE  TurnsInv'
<1> USE DEF TurnsInv
<1>1. PICK k \in lined[c] \ turn[c] :
        /\ phase[c] = "lining"
        /\ ahead[c][k] = NoCaller
        /\ turn' = [turn EXCEPT ![c] = @ \cup {k}]
        /\ wants' = wants
        /\ \/ /\ wants[c] \ (turn[c] \cup {k}) = {}
              /\ phase' = [phase EXCEPT ![c] = "working"]
              /\ UNCHANGED <<last, ahead, lined>>
           \/ /\ phase' = phase
              /\ \E j \in wants[c] \ (turn[c] \cup {k}) :
                   IsFirst(j, wants[c] \ (turn[c] \cup {k})) /\ Take(c, j)
  BY Zenon DEF TurnComes
<1>2. /\ k \in Keys /\ Keys \subseteq Nat /\ Standing(c)
      /\ lined[c] \subseteq wants[c] /\ wants[c] \subseteq Keys /\ turn[c] \subseteq lined[c]
      /\ IsFirst(k, wants[c] \ turn[c])
      /\ \A j \in lined[c] \ turn[c] : j = k
  BY <1>1, KeysAreOrdered DEF TurnsTypeOK, AllStanding, Standing, IsFirst
<1>3. NeverCrossing'
  BY <1>1, <1>2 DEF TurnsTypeOK, NeverCrossing, IsFirst
<1>4. CASE wants[c] \ (turn[c] \cup {k}) = {} /\ phase' = [phase EXCEPT ![c] = "working"]
           /\ UNCHANGED <<last, ahead, lined>>
  <2>1. TurnsTypeOK'
    BY <1>1, <1>2, <1>4 DEF TurnsTypeOK, Phases
  <2>2. AllStanding'
    <3> SUFFICES ASSUME NEW d \in Callers PROVE Standing(d)'
      BY DEF AllStanding
    <3>1. Standing(d)
      BY DEF AllStanding
    <3>2. CASE d = c
      BY <1>1, <1>2, <1>4, <3>1, <3>2 DEF TurnsTypeOK, Standing
    <3>3. CASE d # c
      BY <1>1, <1>4, <3>1, <3>3 DEF TurnsTypeOK, Standing, IsFirst
    <3> QED BY <3>2, <3>3
  <2> QED BY <1>3, <1>4, <2>1, <2>2, LinesKept
<1>5. CASE phase' = phase /\ \E j \in wants[c] \ (turn[c] \cup {k}) :
             IsFirst(j, wants[c] \ (turn[c] \cup {k})) /\ Take(c, j)
  <2>1. PICK j \in wants[c] \ (turn[c] \cup {k}) :
           IsFirst(j, wants[c] \ (turn[c] \cup {k})) /\ Take(c, j)
    BY <1>5
  <2>2. j \in Keys /\ j \notin lined[c] /\ j # k
    BY <1>2, <2>1
  <2>3. TurnsTypeOK'
    BY <1>1, <1>2, <1>5, <2>1, <2>2, TakeTyped DEF TurnsTypeOK
  <2>4. AllStanding'
    <3> SUFFICES ASSUME NEW d \in Callers PROVE Standing(d)'
      BY DEF AllStanding
    <3>1. Standing(d)
      BY DEF AllStanding
    <3>2. CASE d = c
      <4>1. /\ turn'[c] = turn[c] \cup {k} /\ lined'[c] = lined[c] \cup {j}
            /\ wants'[c] = wants[c] /\ phase'[c] = "lining"
            /\ \A i \in Keys : i # j => ahead'[c][i] = ahead[c][i]
        BY <1>1, <1>5, <2>1, <2>2 DEF TurnsTypeOK, Take
      <4>2. \A i \in lined'[c] \ turn'[c] : IsFirst(i, wants'[c] \ turn'[c])
        BY <1>2, <2>1, <4>1
      <4>3. \A i \in turn'[c] : ahead'[c][i] = NoCaller
        BY <1>1, <1>2, <2>2, <4>1 DEF Standing
      <4> QED BY <1>2, <2>1, <3>2, <4>1, <4>2, <4>3 DEF Standing
    <3>3. CASE d # c
      BY <1>1, <1>5, <2>1, <3>1, <3>3 DEF TurnsTypeOK, Standing, IsFirst, Take
    <3> QED BY <3>2, <3>3
  <2>5. Chained'
    BY <2>1, <2>2, TakeKeepsLines
  <2> QED BY <1>3, <2>3, <2>4, <2>5
<1> QED BY <1>1, <1>4, <1>5

LEMMA SettleSafe ==
  ASSUME TurnsInv, NEW c \in Callers, Settle(c)
  PROVE  TurnsInv'
<1> USE DEF TurnsInv
<1>1. TurnsTypeOK'
  BY DEF TurnsTypeOK, Settle, Phases
<1>2. Chained'
  BY LinesKept DEF Settle
<1>3. Standing(c)
  BY DEF AllStanding
<1>4. AllStanding'
  <2> SUFFICES ASSUME NEW d \in Callers PROVE Standing(d)'
    BY DEF AllStanding
  <2>1. Standing(d)
    BY DEF AllStanding
  <2>2. CASE d = c
    BY <2>1, <2>2 DEF TurnsTypeOK, Settle, Standing
  <2>3. CASE d # c
    BY <2>1, <2>3 DEF TurnsTypeOK, Settle, Standing, IsFirst
  <2> QED BY <2>2, <2>3
<1>5. NeverCrossing'
  BY <1>3 DEF TurnsTypeOK, Settle, NeverCrossing, Standing
<1> QED BY <1>1, <1>2, <1>4, <1>5

LEMMA LeaveSafe ==
  ASSUME TurnsInv, NEW c \in Callers, Leave(c)
  PROVE  TurnsInv'
<1> USE DEF TurnsInv
<1>1. PICK k \in turn[c] :
        /\ phase[c] = "leaving"
        /\ IsLast(k, turn[c])
        /\ turn' = [turn EXCEPT ![c] = turn[c] \ {k}]
        /\ lined' = [lined EXCEPT ![c] = @ \ {k}]
        /\ ahead' = [d \in Callers |->
                       [ahead[d] EXCEPT ![k] = IF @ = c THEN NoCaller ELSE @]]
        /\ last' = [last EXCEPT ![k] = IF @ = c THEN NoCaller ELSE @]
        /\ phase' = [phase EXCEPT ![c] = IF turn[c] \ {k} = {} THEN "idle" ELSE @]
        /\ wants' = [wants EXCEPT ![c] = IF turn[c] \ {k} = {} THEN {} ELSE @]
  BY Zenon DEF Leave
<1>2. /\ k \in Keys /\ Keys \subseteq Nat /\ Standing(c)
      /\ k \in lined[c] /\ turn[c] = lined[c] /\ ahead[c][k] = NoCaller
      /\ lined[c] \subseteq wants[c] /\ wants[c] \subseteq Keys
  BY <1>1, KeysAreOrdered DEF TurnsTypeOK, AllStanding, Standing
<1>3. TurnsTypeOK'
  BY <1>1, <1>2 DEF TurnsTypeOK, Phases
<1>4. Chained'
  <2> SUFFICES ASSUME NEW j \in Keys
               PROVE  \E s \in Seq(Callers) : Chain(s, j)'
    BY DEF Chained
  <2>1. PICK s \in Seq(Callers) : Chain(s, j)
    BY DEF Chained
  <2>2. CASE j = k
    <3>1. Chain(Tail(s), j)'
      BY <1>1, <1>2, <2>1, <2>2, LeaveShortens
    <3>2. s # << >>
      BY <1>2, <2>1, <2>2 DEF Chain
    <3>3. Tail(s) \in Seq(Callers)
      BY <3>2
    <3> QED BY <3>1, <3>3
  <2>3. CASE j # k
    <3>1. /\ last'[j] = last[j]
          /\ \A d \in Callers : /\ ahead'[d][j] = ahead[d][j]
                                /\ j \in lined'[d] <=> j \in lined[d]
      BY <1>1, <1>2, <2>3 DEF TurnsTypeOK
    <3>2. Chain(s, j)'
      BY <2>1, <3>1, LineKept
    <3> QED BY <3>2
  <2> QED BY <2>2, <2>3
<1>5. AllStanding'
  <2> SUFFICES ASSUME NEW d \in Callers PROVE Standing(d)'
    BY DEF AllStanding
  <2>1. Standing(d)
    BY DEF AllStanding
  <2>2. \A i \in Keys : ahead[d][i] = NoCaller => ahead'[d][i] = NoCaller
    BY <1>1, <1>2 DEF TurnsTypeOK
  <2>3. CASE d = c
    <3>1. turn'[c] = turn[c] \ {k} /\ lined'[c] = lined[c] \ {k}
      BY <1>1 DEF TurnsTypeOK
    <3>2. CASE turn[c] \ {k} = {}
      <4>1. phase'[c] = "idle" /\ wants'[c] = {}
        BY <1>1, <3>2 DEF TurnsTypeOK
      <4> QED BY <1>2, <2>3, <3>1, <3>2, <4>1 DEF Standing
    <3>3. CASE turn[c] \ {k} # {}
      <4>1. phase'[c] = "leaving" /\ wants'[c] = wants[c]
        BY <1>1, <3>3 DEF TurnsTypeOK
      <4>2. \A i \in turn'[c] : ahead'[c][i] = NoCaller
        BY <1>2, <2>2, <2>3, <3>1 DEF Standing
      <4> QED BY <1>2, <2>3, <3>1, <4>1, <4>2 DEF Standing
    <3> QED BY <3>2, <3>3
  <2>4. CASE d # c
    <3>1. turn'[d] = turn[d] /\ lined'[d] = lined[d] /\ wants'[d] = wants[d] /\ phase'[d] = phase[d]
      BY <1>1, <2>4 DEF TurnsTypeOK
    <3>2. \A i \in turn[d] : ahead'[d][i] = NoCaller
      BY <2>1, <2>2 DEF Standing, TurnsTypeOK
    <3> QED BY <2>1, <3>1, <3>2 DEF Standing, IsFirst
  <2> QED BY <2>3, <2>4
<1>6. NeverCrossing'
  BY <1>1, <1>2 DEF TurnsTypeOK, NeverCrossing, IsLast
<1> QED BY <1>3, <1>4, <1>5, <1>6

-----------------------------------------------------------------------------
LEMMA TurnsInvInit == TurnsInit => TurnsInv
<1> SUFFICES ASSUME TurnsInit PROVE TurnsInv
  OBVIOUS
<1>1. TurnsTypeOK
  BY DEF TurnsInit, TurnsTypeOK, Phases
<1>2. Chained
  <2> SUFFICES ASSUME NEW k \in Keys PROVE \E s \in Seq(Callers) : Chain(s, k)
    BY DEF Chained
  <2>1. << >> \in Seq(Callers) /\ Chain(<< >>, k)
    BY DEF TurnsInit, Chain
  <2> QED BY <2>1
<1>3. AllStanding /\ NeverCrossing
  BY DEF TurnsInit, AllStanding, Standing, NeverCrossing
<1> QED BY <1>1, <1>2, <1>3 DEF TurnsInv

LEMMA TurnsInvStep == TurnsInv /\ [TurnsNext]_turnVars => TurnsInv'
<1> SUFFICES ASSUME TurnsInv, [TurnsNext]_turnVars PROVE TurnsInv'
  OBVIOUS
<1>1. ASSUME NEW c \in Callers, NEW ks \in SUBSET Keys, TakeAll(c, ks) PROVE TurnsInv'
  BY <1>1, TakeAllSafe
<1>2. ASSUME NEW c \in Callers, TurnComes(c) PROVE TurnsInv'
  BY <1>2, TurnComesSafe
<1>3. ASSUME NEW c \in Callers, Settle(c) PROVE TurnsInv'
  BY <1>3, SettleSafe
<1>4. ASSUME NEW c \in Callers, Leave(c) PROVE TurnsInv'
  BY <1>4, LeaveSafe
<1>5. CASE UNCHANGED turnVars
  BY <1>5, LinesKept DEF turnVars, TurnsInv, TurnsTypeOK, AllStanding, Standing, NeverCrossing
<1> QED BY <1>1, <1>2, <1>3, <1>4, <1>5 DEF TurnsNext, TurnsStep

(* The inductive invariant: every line is a chain whose first has nobody   *)
(* ahead, and what a caller holds lies below what it still wants.          *)
THEOREM TurnsInvariant == TurnsSpec => []TurnsInv
BY TurnsInvInit, TurnsInvStep, PTL DEF TurnsSpec

(* Every variable keeps its type (Turns.ts). *)
THEOREM TurnsTyped == TurnsSpec => []TurnsTypeOK
<1>1. TurnsInv => TurnsTypeOK
  BY DEF TurnsInv
<1> QED BY <1>1, TurnsInvariant, PTL

LEMMA InvOneTurn == TurnsInv => OneTurnPerKey
<1> SUFFICES ASSUME TurnsInv, NEW c \in Callers, NEW d \in Callers, NEW k \in Keys,
                    k \in turn[c], k \in turn[d]
             PROVE  c = d
  BY DEF OneTurnPerKey, TurnsInv, TurnsTypeOK
<1> QED BY OneHead DEF TurnsInv, AllStanding, Standing

(* Turns.ts:28-38: take runs one piece of work per key at a time, for any  *)
(* number of callers and keys.                                             *)
THEOREM OneTurnAtATime == TurnsSpec => []OneTurnPerKey
BY InvOneTurn, TurnsInvariant, PTL

(* Turns.ts:20-26: a caller waits only for keys above those it holds, so   *)
(* no set of callers can wait in a circle, for any number of keys.         *)
THEOREM WaitsNeverCross == TurnsSpec => []NeverCrossing
<1>1. TurnsInv => NeverCrossing
  BY DEF TurnsInv
<1> QED BY <1>1, TurnsInvariant, PTL

-----------------------------------------------------------------------------
(* Work that starts shares no key with work that is running. *)
LEMMA WorkEnters ==
  ASSUME TurnsInv, TurnsInv', NEW c \in Callers, phase[c] # "working",
         \A d \in Callers : d # c => phase'[d] = phase[d] /\ wants'[d] = wants[d],
         phase'[c] = "working"
  PROVE  Sections!SecNext
<1>0. PICK ks \in SUBSET Keys : ks = wants'[c]
  BY DEF TurnsInv, TurnsTypeOK
<1>1. OneTurnPerKey'
  BY InvOneTurn, PTL
<1>2. \A d \in Callers : phase'[d] = "working" => turn'[d] = wants'[d]
  BY DEF TurnsInv, AllStanding, Standing
<1>3. ASSUME NEW d \in Callers, phase[d] = "working" PROVE wants[d] \cap ks = {}
  <2>1. d # c /\ phase'[d] = "working" /\ wants'[d] = wants[d]
    BY <1>3
  <2> QED BY <2>1, <1>0, <1>1, <1>2 DEF OneTurnPerKey
<1>4. Sections!Free(ks)
  BY <1>3 DEF Sections!Free
<1>5. [d \in Callers |-> IF phase'[d] = "working" THEN wants'[d] ELSE {}]
        = [[d \in Callers |-> IF phase[d] = "working" THEN wants[d] ELSE {}] EXCEPT ![c] = ks]
  BY <1>0
<1>6. {d \in Callers : phase'[d] = "working"} = {d \in Callers : phase[d] = "working"} \cup {c}
  OBVIOUS
<1>7. Sections!Enter(c, ks)
  BY <1>4, <1>5, <1>6 DEF Sections!Enter
<1> QED BY <1>7 DEF Sections!SecNext

LEMMA WorkExits ==
  ASSUME NEW c \in Callers, phase[c] = "working", phase'[c] # "working",
         \A d \in Callers : d # c => phase'[d] = phase[d] /\ wants'[d] = wants[d]
  PROVE  Sections!Exit(c)
BY DEF Sections!Exit

LEMMA SectionsStep ==
  TurnsInv /\ TurnsInv' /\ [TurnsNext]_turnVars => [Sections!SecNext]_(Sections!secVars)
<1> SUFFICES ASSUME TurnsInv, TurnsInv', [TurnsNext]_turnVars
             PROVE  [Sections!SecNext]_(Sections!secVars)
  OBVIOUS
<1> USE DEF TurnsInv, TurnsTypeOK
<1>2. ASSUME NEW c \in Callers, NEW ks \in SUBSET Keys, TakeAll(c, ks)
      PROVE  [Sections!SecNext]_(Sections!secVars)
  <2>1. \A d \in Callers : d # c => phase'[d] = phase[d] /\ wants'[d] = wants[d]
    BY <1>2 DEF TakeAll
  <2>2. phase[c] = "idle" /\ phase'[c] \in {"working", "lining"}
    BY <1>2 DEF TakeAll
  <2>3. CASE phase'[c] = "working"
    BY <2>1, <2>2, <2>3, WorkEnters
  <2>4. CASE phase'[c] = "lining"
    BY <2>1, <2>2, <2>4 DEF Sections!secVars
  <2> QED BY <2>2, <2>3, <2>4
<1>3. ASSUME NEW c \in Callers, TurnComes(c)
      PROVE  [Sections!SecNext]_(Sections!secVars)
  <2>1. wants' = wants /\ \A d \in Callers : d # c => phase'[d] = phase[d]
    BY <1>3 DEF TurnComes
  <2>2. phase[c] = "lining" /\ phase'[c] \in {"working", "lining"}
    BY <1>3 DEF TurnComes
  <2>3. CASE phase'[c] = "working"
    BY <2>1, <2>2, <2>3, WorkEnters
  <2>4. CASE phase'[c] = "lining"
    BY <2>1, <2>2, <2>4 DEF Sections!secVars
  <2> QED BY <2>2, <2>3, <2>4
<1>4. ASSUME NEW c \in Callers, Settle(c)
      PROVE  [Sections!SecNext]_(Sections!secVars)
  <2>1. \A d \in Callers : d # c => phase'[d] = phase[d] /\ wants'[d] = wants[d]
    BY <1>4 DEF Settle
  <2>2. phase[c] = "working" /\ phase'[c] # "working"
    BY <1>4 DEF Settle
  <2> QED BY <2>1, <2>2, WorkExits DEF Sections!SecNext
<1>5. ASSUME NEW c \in Callers, Leave(c)
      PROVE  [Sections!SecNext]_(Sections!secVars)
  <2>1. \A d \in Callers : d # c => phase'[d] = phase[d] /\ wants'[d] = wants[d]
    BY <1>5 DEF Leave
  <2>2. phase[c] = "leaving" /\ phase'[c] # "working"
    BY <1>5 DEF Leave
  <2> QED BY <2>1, <2>2 DEF Sections!secVars
<1>6. CASE UNCHANGED turnVars
  BY <1>6 DEF turnVars, Sections!secVars
<1> QED BY <1>2, <1>3, <1>4, <1>5, <1>6 DEF TurnsNext, TurnsStep

(* Turns.ts implements exclusive sections over sets of keys.               *)
THEOREM TurnsImplementSections == TurnsSpec => SectionsExclusive
<1>1. TurnsInit => Sections!SecInit
  BY DEF TurnsInit, Sections!SecInit
<1> QED BY <1>1, SectionsStep, TurnsInvariant, PTL DEF TurnsSpec, SectionsExclusive, Sections!SecSpec

=============================================================================

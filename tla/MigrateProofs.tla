---------------------------- MODULE MigrateProofs ----------------------------
(***************************************************************************)
(* Migrate.tla for any names, any number of edits, freezes, migrations at  *)
(* once and breaks, where no name is used twice (~NamesReturn): the rows   *)
(* follow their fields, nothing a migration does destroys what a declared  *)
(* field holds, and a migration that completed leaves nothing to plan.     *)
(*                                                                         *)
(* The argument.  A story that never uses a name twice composes to changes *)
(* that each say where one field was and where it is (Tells): no two reach *)
(* one name and none starts where another ends.  So every name belongs to  *)
(* one field for good (Owned), a column holds that field's values alone,   *)
(* and what a migrator moves goes to the same field's name (Carries).  A   *)
(* declared field stands in one place (Single) until a plan meets a column *)
(* at a name the line passes through, which is what `stranded` records.    *)
(***************************************************************************)
EXTENDS Migrate, NaturalsInduction, WellFoundedInduction, SequenceTheorems, TLAPS

(* What takes a field from the name it has. *)
Source(c) == c.kind \in {"renamed", "removed"}

(* What the first i steps leave, name and rename to. *)
LeftBy(s, i) == {s[j].name : j \in {l \in 1 .. i : Source(s[l])}}
NamedBy(s, i) == {s[j].name : j \in 1 .. i} \cup {s[j].to : j \in 1 .. i}
CameBy(s, i) == {s[j].to : j \in {l \in 1 .. i : s[l].kind = "renamed"}}
LeftIn(s) == LeftBy(s, Len(s))
NamesIn(s) == NamedBy(s, Len(s))
CameTo(s) == CameBy(s, Len(s))

(* A name is never used twice: a step that brings one brings a new one. *)
FreshAt(s, j) ==
  /\ s[j].kind \in {"renamed", "added"} => \A i \in DOMAIN s : i < j => s[i].name # s[j].to /\ s[i].to # s[j].to
  /\ s[j].kind = "renamed" => s[j].name # s[j].to
  /\ s[j].kind # "renamed" => s[j].name = s[j].to
Fresh(s) == \A j \in DOMAIN s : FreshAt(s, j)

(* The story of the disk, frozen or not; the names in it; the fields that  *)
(* are declared.                                                           *)
Said == line \o unfrozen
Used == Declared \cup NamesIn(Said)
Living == {shape[n] : n \in Declared}

DiskTyped ==
  /\ First \in Names /\ shape \in [Names -> Nat] /\ born \in Nat
  /\ line \in Seq(StepChange) /\ unfrozen \in Seq(StepChange) /\ previous \in Seq(StepChange)
  /\ column \in [Names -> SUBSET Nat] /\ there \in SUBSET Names /\ written \in SUBSET Nat
  /\ stage \in [Migrators -> {"idle", "moving", "adding"}]
  /\ plan \in [Migrators -> Seq(StepChange)] /\ lacks \in [Migrators -> SUBSET Names]
  /\ stranded \in BOOLEAN

(* What is on the disk tells the story of each field once. *)
Story ==
  /\ Len(unfrozen) <= 1 /\ Fresh(Said)
  /\ \A n \in Declared : n \notin LeftIn(Said)
  /\ \A n, k \in Declared : shape[n] = shape[k] => n = k
  /\ First \in Used
  /\ chain = Composed(line, previous)
  /\ (unfrozen # <<>> /\ unfrozen[1].kind = "renamed") => previous = unfrozen
  /\ previous # <<>> =>
       /\ Len(previous) = 1 /\ previous[1].kind = "renamed" /\ previous[1].to \in Declared
       /\ \E i \in DOMAIN Said : Said[i] = previous[1]

(* Whose each name is, and ever was: a column holds values of that field   *)
(* only, and a name whose field is declared is that field's, or was.       *)
Owned(o) ==
  /\ \A n \in Declared : o[n] = shape[n]
  /\ \A n \in Names : column[n] \subseteq {o[n]}
  /\ \A c \in ToSet(Said) : (c.kind = "renamed" => o[c.name] = o[c.to]) /\ (c.kind = "removed" => o[c.name] \notin Living)
  /\ \A z \in Used : o[z] <= born /\ (o[z] \in Living => z \in Declared \/ z \in LeftIn(Said))

(* What the table has a column for was once a name, and what is written of *)
(* a field that is declared is in it.                                      *)
Tables ==
  /\ there \subseteq Used /\ \A n \in Names \ there : column[n] = {}
  /\ \A f \in written : f <= born
  /\ \A n \in Declared : shape[n] \in written => \E k \in Names : shape[n] \in column[k]

(* What a migrator has still to run is what the chain says of the columns  *)
(* there are; once it adds, the chain has no more to say of them.          *)
SourcesOf(h) == {c \in ToSet(h) : Source(c)}
Sources == SourcesOf(chain)
Running ==
  \A m \in Migrators :
    /\ stage[m] = "moving" => ToSet(plan[m]) \subseteq Sources /\ \A c \in Sources : c.name \in there => c \in ToSet(plan[m])
    /\ stage[m] = "adding" => (\A c \in Sources : c.name \notin there) /\ lacks[m] \subseteq Declared /\ Declared \ lacks[m] \subseteq there

(* The fields that are declared, each in one place. *)
Single(o) ==
  ~stranded =>
    /\ \A k, j \in there : (o[k] = o[j] /\ o[k] \in Living) => k = j
    /\ ~AtRest => \A k \in there : ~(o[k] \in Living /\ k \in LeftIn(Said) /\ k \in CameTo(Said))

MigrateInv ==
  /\ DiskTyped /\ Story /\ Tables /\ Running
  /\ \E o \in [Names -> Nat] : Owned(o) /\ Single(o)

-----------------------------------------------------------------------------
LEMMA MinIsLeast ==
  ASSUME NEW S \in SUBSET Nat, S # {}
  PROVE  Min(S) \in S /\ \A y \in S : Min(S) <= y
<1>1. \E m \in S : \A y \in S : ~(<<y, m>> \in OpToRel(<, Nat))
  BY NatLessThanWellFounded, WFMin
<1>2. \E m \in S : \A y \in S : m <= y
  <2>1. PICK m \in S : \A y \in S : ~(<<y, m>> \in OpToRel(<, Nat))
    BY <1>1
  <2>2. \A y \in S : ~(y < m)
    BY <2>1 DEF OpToRel
  <2> QED BY <2>2
<1> QED BY <1>2 DEF Min

(* Induction up to a bound, over a set. *)
LEMMA UpTo ==
  ASSUME NEW N \in Nat, NEW T, 0 \in T, \A i \in 0 .. (N - 1) : i \in T => i + 1 \in T
  PROVE  \A i \in 0 .. N : i \in T
<1> SUFFICES ASSUME NEW j \in 0 .. N, j \notin T PROVE FALSE
  OBVIOUS
<1>1. PICK B : B = {i \in 0 .. N : i \notin T}
  OBVIOUS
<1>2. B \subseteq Nat /\ B # {}
  BY <1>1
<1>3. PICK k \in B : \A x \in B : <<x, k>> \notin OpToRel(<, Nat)
  BY <1>2, NatLessThanWellFounded, WFMin
<1>4. \A x \in B : ~(x < k)
  BY <1>2, <1>3 DEF OpToRel
<1>5. k \in 0 .. N /\ k \notin T /\ k # 0
  BY <1>1
<1>6. k - 1 \in 0 .. (N - 1) /\ k - 1 \in 0 .. N /\ k - 1 < k /\ (k - 1) + 1 = k
  BY <1>5
<1>7. k - 1 \in T
  BY <1>1, <1>4, <1>6
<1> QED BY <1>5, <1>6, <1>7

(* A function of numbers that is said by what it is at 0 and how it goes on. *)
Recursion(f, N, E, base, F) ==
  f \in [0 .. N -> E] /\ f[0] = base /\ \A i \in 1 .. N : f[i] = F[<<f[i - 1], i>>]
Closed(N, E, F) == \A x \in E : \A i \in 1 .. N : F[<<x, i>>] \in E

LEMMA Recursively ==
  ASSUME NEW N \in Nat, NEW E, NEW base \in E, NEW F, Closed(N, E, F)
  PROVE  \E f : Recursion(f, N, E, base, F)
<1> DEFINE Upto(n, f) == f \in [0 .. n -> E] /\ f[0] = base /\ \A i \in 1 .. n : f[i] = F[<<f[i - 1], i>>]
<1> DEFINE T == {n \in Nat : \E f : Upto(n, f)}
<1>1. 0 \in T
  <2>1. PICK g : g = [i \in 0 .. 0 |-> base]
    OBVIOUS
  <2>2. Upto(0, g)
    BY <2>1
  <2> QED BY <2>2
<1>2. ASSUME NEW n \in 0 .. (N - 1), n \in T PROVE n + 1 \in T
  <2>1. PICK f : Upto(n, f)
    BY <1>2
  <2>2. PICK c : c = F[<<f[n], n + 1>>]
    OBVIOUS
  <2>3. PICK g : g = [i \in 0 .. (n + 1) |-> IF i = n + 1 THEN c ELSE f[i]]
    OBVIOUS
  <2>4. n \in Nat /\ n + 1 \in Nat /\ n + 1 \in 0 .. (n + 1) /\ 0 \in 0 .. (n + 1) /\ 0 # n + 1 /\ (n + 1) - 1 = n
        /\ n \in 0 .. n /\ n \in 0 .. (n + 1) /\ n # n + 1 /\ n + 1 \in 1 .. N
    OBVIOUS
  <2>5. g[0] = base /\ g[n + 1] = c /\ g[n] = f[n] /\ c \in E
    BY <2>1, <2>2, <2>3, <2>4 DEF Closed
  <2>6. ASSUME NEW i \in 1 .. (n + 1) PROVE g[i] = F[<<g[i - 1], i>>]
    <3>1. CASE i = n + 1
      BY <2>2, <2>4, <2>5, <3>1
    <3>2. CASE i # n + 1
      <4>1. i \in 1 .. n /\ i \in 0 .. (n + 1) /\ i - 1 \in 0 .. (n + 1) /\ i - 1 # n + 1
        BY <2>4, <3>2
      <4>2. g[i] = f[i] /\ g[i - 1] = f[i - 1]
        BY <2>3, <3>2, <4>1
      <4>3. f[i] = F[<<f[i - 1], i>>]
        BY <2>1, <4>1
      <4> QED BY <4>2, <4>3
    <3> QED BY <3>1, <3>2
  <2>7. g \in [0 .. (n + 1) -> E]
    <3>1. \A i \in 0 .. (n + 1) : i # n + 1 => i \in 0 .. n
      BY <2>4
    <3> QED BY <2>1, <2>3, <2>5, <3>1
  <2>8. Upto(n + 1, g)
    BY <2>5, <2>6, <2>7
  <2> QED BY <2>4, <2>8
<1>3. N \in T
  <2> HIDE DEF T
  <2>1. \A i \in 0 .. N : i \in T
    BY <1>1, <1>2, UpTo
  <2> QED BY <2>1
<1> QED BY <1>3 DEF Recursion

-----------------------------------------------------------------------------
(* A sequence less what is in a set has the others, and no more. *)
LEMMA WithoutIsLess ==
  ASSUME NEW E, NEW s \in Seq(E), NEW S
  PROVE  Without(s, S) \in Seq(E) /\ Len(Without(s, S)) <= Len(s) /\ ToSet(Without(s, S)) = ToSet(s) \ S
<1>1. PICK N : N = Len(s)
  OBVIOUS
<1>2. N \in Nat /\ DOMAIN s = 1 .. N /\ \A i \in 1 .. N : s[i] \in E
  BY <1>1
<1>3. PICK F : F = [x \in Seq(E) \X (1 .. N) |-> IF s[x[2]] \in S THEN x[1] ELSE Append(x[1], s[x[2]])]
  OBVIOUS
<1>4. \A x \in Seq(E) : \A i \in 1 .. N : F[<<x, i>>] \in Seq(E)
  BY <1>2, <1>3
<1>5. \A h \in Seq(E) : \A i \in 1 .. N : F[<<h, i>>] = IF s[i] \in S THEN h ELSE Append(h, s[i])
  BY <1>3
<1>6. PICK h \in [0 .. N -> Seq(E)] : h[0] = <<>> /\ \A i \in 1 .. N : h[i] = F[<<h[i - 1], i>>]
  <2>1. PICK Q, e : Q = Seq(E) /\ e = <<>>
    OBVIOUS
  <2>2. e \in Q /\ Closed(N, Q, F)
    BY <1>4, <2>1 DEF Closed
  <2>3. \E f : Recursion(f, N, Q, e, F)
    BY <1>2, <2>2, Recursively
  <2> QED BY <2>1, <2>3 DEF Recursion
<1> DEFINE P(f) == f = [i \in 0 .. Len(s) |->
                         IF i = 0 THEN <<>> ELSE IF s[i] \in S THEN f[i - 1] ELSE Append(f[i - 1], s[i])]
<1>7. P(h)
  <2>1. \A i \in 0 .. N : i # 0 => i \in 1 .. N /\ i - 1 \in 0 .. N
    BY <1>2
  <2>2. \A i \in 0 .. N : h[i] = IF i = 0 THEN <<>> ELSE IF s[i] \in S THEN h[i - 1] ELSE Append(h[i - 1], s[i])
    BY <1>5, <1>6, <2>1
  <2> QED BY <1>1, <1>6, <2>2
<1>8. PICK k : k = CHOOSE f : P(f)
  OBVIOUS
<1>9. P(k)
  BY <1>7, <1>8, Zenon
<1>10. Without(s, S) = k[N]
  BY <1>1, <1>8 DEF Without
<1>11. k[0] = <<>> /\ \A i \in 1 .. N : k[i] = IF s[i] \in S THEN k[i - 1] ELSE Append(k[i - 1], s[i])
  <2>1. 0 \in 0 .. N /\ \A i \in 1 .. N : i \in 0 .. N /\ i # 0
    BY <1>2
  <2>2. k[0] = <<>>
    BY <1>1, <1>9, <2>1
  <2>3. ASSUME NEW i \in 1 .. N PROVE k[i] = IF s[i] \in S THEN k[i - 1] ELSE Append(k[i - 1], s[i])
    BY <1>1, <1>9, <2>1
  <2> QED BY <2>2, <2>3
<1> HIDE DEF P
<1> DEFINE T == {i \in 0 .. N : k[i] \in Seq(E) /\ Len(k[i]) <= i /\ \A x : x \in ToSet(k[i]) <=> (x \notin S /\ \E j \in 1 .. i : x = s[j])}
<1>12. 0 \in T
  <2>1. k[0] \in Seq(E) /\ Len(k[0]) <= 0 /\ 0 \in 0 .. N /\ ~ \E j \in 1 .. 0 : TRUE
    BY <1>2, <1>11
  <2>2. DOMAIN k[0] = {}
    BY <1>11
  <2>3. ToSet(k[0]) = {}
    BY <2>2 DEF ToSet
  <2> QED BY <2>1, <2>3
<1>13. ASSUME NEW i \in 0 .. (N - 1), i \in T PROVE i + 1 \in T
  <2>1. i \in Nat /\ i + 1 \in 0 .. N /\ i + 1 \in 1 .. N /\ (i + 1) - 1 = i
    BY <1>2
  <2>2. PICK h1, h2, c : h1 = k[i] /\ h2 = k[i + 1] /\ c = s[i + 1]
    OBVIOUS
  <2>3. h1 \in Seq(E) /\ Len(h1) \in Nat /\ Len(h1) <= i /\ c \in E /\ \A x : x \in ToSet(h1) <=> (x \notin S /\ \E j \in 1 .. i : x = s[j])
    BY <1>2, <1>13, <2>1, <2>2
  <2>4. h2 = IF c \in S THEN h1 ELSE Append(h1, c)
    BY <1>11, <2>1, <2>2
  <2>5. \A x : (\E j \in 1 .. (i + 1) : x = s[j]) <=> (x = c \/ \E j \in 1 .. i : x = s[j])
    <3>1. \A j \in 1 .. (i + 1) : j = i + 1 \/ j \in 1 .. i
      BY <2>1
    <3>2. i + 1 \in 1 .. (i + 1) /\ \A j \in 1 .. i : j \in 1 .. (i + 1)
      BY <2>1
    <3> QED BY <2>2, <3>1, <3>2
  <2>6. CASE c \in S
    <3>1. h2 = h1 /\ Len(h2) <= i + 1
      BY <2>1, <2>3, <2>4, <2>6
    <3> QED BY <2>1, <2>2, <2>3, <2>5, <2>6, <3>1
  <2>7. CASE c \notin S
    <3>1. h2 = Append(h1, c) /\ h2 \in Seq(E) /\ Len(h2) = Len(h1) + 1
      BY <2>3, <2>4, <2>7
    <3>2. \A x : x \in ToSet(h2) <=> (x \in ToSet(h1) \/ x = c)
      <4>1. PICK n : n = Len(h1)
        OBVIOUS
      <4>2. n \in Nat /\ DOMAIN h1 = 1 .. n /\ DOMAIN h2 = 1 .. (n + 1) /\ h2[n + 1] = c /\ \A j \in 1 .. n : h2[j] = h1[j]
        BY <2>3, <3>1, <4>1
      <4>3. \A j \in 1 .. (n + 1) : j = n + 1 \/ j \in 1 .. n
        BY <4>2
      <4>4. n + 1 \in 1 .. (n + 1) /\ \A j \in 1 .. n : j \in 1 .. (n + 1)
        BY <4>2
      <4> QED BY <4>2, <4>3, <4>4 DEF ToSet
    <3>3. Len(h2) <= i + 1
      BY <2>1, <2>3, <3>1
    <3> QED BY <2>1, <2>2, <2>3, <2>5, <2>7, <3>1, <3>2, <3>3
  <2> QED BY <2>6, <2>7
<1>14. N \in T
  <2> HIDE DEF T
  <2>1. \A i \in 0 .. N : i \in T
    BY <1>2, <1>12, <1>13, UpTo
  <2> QED BY <1>2, <2>1
<1>15. \A x : x \in ToSet(s) <=> \E j \in 1 .. N : x = s[j]
  BY <1>2 DEF ToSet
<1> QED BY <1>1, <1>10, <1>14, <1>15

-----------------------------------------------------------------------------
(* What a sequence holds without its place at. *)
Cut(r, h, at) ==
  /\ Len(r) = Len(h) - 1
  /\ \A k \in 1 .. (Len(h) - 1) : r[k] = h[IF k < at THEN k ELSE k + 1]

LEMMA RemoveAtIsCut ==
  ASSUME NEW E, NEW h \in Seq(E), NEW at \in 1 .. Len(h)
  PROVE  RemoveAt(h, at) \in Seq(E) /\ Cut(RemoveAt(h, at), h, at)
<1>1. PICK n, a, b : n = Len(h) /\ a = SubSeq(h, 1, at - 1) /\ b = SubSeq(h, at + 1, n)
  OBVIOUS
<1>2. n \in Nat /\ at \in Nat /\ 1 <= at /\ at <= n
  BY <1>1
<1>3. a \in Seq(E) /\ Len(a) = at - 1 /\ \A k \in 1 .. (at - 1) : a[k] = h[k]
  BY <1>1, <1>2
<1>4. b \in Seq(E) /\ Len(b) = n - at /\ \A k \in 1 .. (n - at) : b[k] = h[at + k]
  BY <1>1, <1>2
<1>5. PICK r : r = a \o b
  OBVIOUS
<1>6. /\ r \in Seq(E) /\ Len(r) = Len(a) + Len(b)
      /\ \A k \in 1 .. (Len(a) + Len(b)) : r[k] = IF k <= Len(a) THEN a[k] ELSE b[k - Len(a)]
  BY <1>3, <1>4, <1>5, ConcatProperties
<1>7. Len(a) + Len(b) = n - 1
  BY <1>2, <1>3, <1>4
<1>8. ASSUME NEW k \in 1 .. (n - 1) PROVE r[k] = h[IF k < at THEN k ELSE k + 1]
  <2>1. CASE k < at
    <3>1. k \in 1 .. (at - 1) /\ k <= Len(a)
      BY <1>2, <1>3, <2>1
    <3> QED BY <1>3, <1>6, <1>7, <2>1, <3>1
  <2>2. CASE ~(k < at)
    <3>1. ~(k <= Len(a)) /\ k - Len(a) \in 1 .. (n - at) /\ at + (k - Len(a)) = k + 1
      BY <1>2, <1>3, <2>2
    <3> QED BY <1>4, <1>6, <1>7, <2>2, <3>1
  <2> QED BY <2>1, <2>2
<1>9. RemoveAt(h, at) = r
  BY <1>1, <1>5 DEF RemoveAt
<1> QED BY <1>1, <1>6, <1>7, <1>8, <1>9 DEF Cut

(* Where a field is in what is held: the change that brought it its name. *)
Brought(h, k, c) == h[k].kind = "renamed" /\ h[k].to = c.name

(* What composing does, by cases. *)
Composing(h, c, r) ==
  \/ r = Append(h, c) /\ \A k \in DOMAIN h : ~ Brought(h, k, c)
  \/ \E at \in DOMAIN h :
       /\ Brought(h, at, c)
       /\ \/ /\ c.kind = "renamed" /\ h[at].name = c.to
             /\ r = RemoveAt(h, at)
          \/ /\ c.kind = "renamed" /\ h[at].name # c.to
             /\ r = [h EXCEPT ![at].to = c.to]
          \/ /\ c.kind = "removed"
             /\ r = Append(RemoveAt(h, at), [c EXCEPT !.name = h[at].name])
          \/ /\ ~ Source(c)
             /\ r = Append(h, [c EXCEPT !.name = h[at].name])

LEMMA ComposeIs ==
  ASSUME NEW h \in Seq(StepChange), NEW c \in StepChange
  PROVE  Composing(h, c, Compose(h, c))
<1>1. PICK r, at : r = Compose(h, c) /\ at = SelectInSeq(h, LAMBDA each : each.kind = "renamed" /\ each.to = c.name)
  OBVIOUS
<1>2. PICK I : I = {k \in 1 .. Len(h) : h[k].kind = "renamed" /\ h[k].to = c.name}
  OBVIOUS
<1>3. at = IF I # {} THEN Min(I) ELSE 0
  BY <1>1, <1>2 DEF SelectInSeq
<1>4. I \in SUBSET Nat /\ DOMAIN h = 1 .. Len(h)
  BY <1>2
<1>5. CASE I = {}
  <2>1. r = Append(h, c)
    <3>1. at = 0
      BY <1>3, <1>5
    <3> QED BY <1>1, <3>1 DEF Compose
  <2>2. \A k \in DOMAIN h : ~ Brought(h, k, c)
    BY <1>2, <1>4, <1>5 DEF Brought
  <2> QED BY <1>1, <2>1, <2>2 DEF Composing
<1>6. CASE I # {}
  <2>1. at \in I
    BY <1>3, <1>4, <1>6, MinIsLeast
  <2>2. at \in DOMAIN h /\ Brought(h, at, c) /\ at # 0
    BY <1>2, <1>4, <2>1 DEF Brought
  <2>3. r = IF c.kind = "renamed"
            THEN IF h[at].name = c.to THEN RemoveAt(h, at) ELSE [h EXCEPT ![at].to = c.to]
            ELSE Append(IF c.kind = "removed" THEN RemoveAt(h, at) ELSE h, [c EXCEPT !.name = h[at].name])
    BY <1>1, <2>2 DEF Compose
  <2>4. c.kind = "renamed" /\ h[at].name = c.to => r = RemoveAt(h, at)
    BY <2>3
  <2>5. c.kind = "renamed" /\ h[at].name # c.to => r = [h EXCEPT ![at].to = c.to]
    BY <2>3
  <2>6. c.kind = "removed" => r = Append(RemoveAt(h, at), [c EXCEPT !.name = h[at].name])
    BY <2>3
  <2>7. ~ Source(c) => r = Append(h, [c EXCEPT !.name = h[at].name])
    BY <2>3 DEF Source
  <2> QED BY <1>1, <2>2, <2>4, <2>5, <2>6, <2>7 DEF Composing, Source
<1> QED BY <1>5, <1>6

-----------------------------------------------------------------------------
(* A kind of change that composing does not leave. *)
Lasting(G) ==
  /\ G \subseteq StepChange
  /\ \A b, c \in G : (b.kind = "renamed" /\ b.to = c.name) =>
       /\ c.kind = "renamed" => [b EXCEPT !.to = c.to] \in G
       /\ c.kind # "renamed" => [c EXCEPT !.name = b.name] \in G

LEMMA ComposeWithin ==
  ASSUME NEW G, Lasting(G), NEW h \in Seq(G), NEW c \in G
  PROVE  Compose(h, c) \in Seq(G)
<1>1. PICK r : r = Compose(h, c)
  OBVIOUS
<1>2. h \in Seq(StepChange) /\ c \in StepChange /\ DOMAIN h = 1 .. Len(h) /\ \A k \in DOMAIN h : h[k] \in G
  BY SeqMonotonic, ElementOfSeq DEF Lasting
<1>3. Composing(h, c, r)
  BY <1>1, <1>2, ComposeIs
<1>4. CASE r = Append(h, c)
  BY <1>1, <1>4
<1>5. ASSUME NEW at \in DOMAIN h, Brought(h, at, c)
      PROVE  /\ RemoveAt(h, at) \in Seq(G)
             /\ c.kind = "renamed" => [h EXCEPT ![at].to = c.to] \in Seq(G)
             /\ c.kind # "renamed" => [c EXCEPT !.name = h[at].name] \in G
  <2>1. RemoveAt(h, at) \in Seq(G)
    BY <1>2, <1>5, RemoveAtIsCut
  <2>2. PICK b : b = h[at]
    OBVIOUS
  <2>3. b \in G /\ b.kind = "renamed" /\ b.to = c.name
    BY <1>2, <1>5, <2>2 DEF Brought
  <2>4. ASSUME c.kind = "renamed" PROVE [h EXCEPT ![at].to = c.to] \in Seq(G)
    <3>1. PICK d : d = [b EXCEPT !.to = c.to]
      OBVIOUS
    <3>2. d \in G
      BY <2>3, <2>4, <3>1 DEF Lasting
    <3>3. [h EXCEPT ![at] = d] \in Seq(G)
      BY <1>2, <3>2, ExceptSeq
    <3>4. [h EXCEPT ![at].to = c.to] = [h EXCEPT ![at] = d]
      BY <2>2, <3>1
    <3> QED BY <3>3, <3>4
  <2>5. ASSUME c.kind # "renamed" PROVE [c EXCEPT !.name = h[at].name] \in G
    BY <2>2, <2>3, <2>5 DEF Lasting
  <2> QED BY <2>1, <2>4, <2>5
<1>6. ASSUME NEW at \in DOMAIN h, Brought(h, at, c),
             \/ c.kind = "renamed" /\ r = RemoveAt(h, at)
             \/ c.kind = "renamed" /\ r = [h EXCEPT ![at].to = c.to]
             \/ c.kind = "removed" /\ r = Append(RemoveAt(h, at), [c EXCEPT !.name = h[at].name])
             \/ ~ Source(c) /\ r = Append(h, [c EXCEPT !.name = h[at].name])
      PROVE  r \in Seq(G)
  <2>1. c.kind = "renamed" /\ r = RemoveAt(h, at) => r \in Seq(G)
    BY <1>5, <1>6
  <2>2. c.kind = "renamed" /\ r = [h EXCEPT ![at].to = c.to] => r \in Seq(G)
    BY <1>5, <1>6
  <2>3. PICK d, g : d = [c EXCEPT !.name = h[at].name] /\ g = RemoveAt(h, at)
    OBVIOUS
  <2>4. c.kind # "renamed" => d \in G /\ g \in Seq(G) /\ Append(g, d) \in Seq(G) /\ Append(h, d) \in Seq(G)
    <3>1. c.kind # "renamed" => d \in G
      BY <1>5, <1>6, <2>3
    <3>2. g \in Seq(G)
      BY <1>5, <1>6, <2>3
    <3> QED BY <3>1, <3>2
  <2> QED BY <1>6, <2>1, <2>2, <2>3, <2>4 DEF Source
<1> QED BY <1>1, <1>3, <1>4, <1>6 DEF Composing

LEMMA AnyLasts == Lasting(StepChange)
BY DEF Lasting, StepChange

(* A chain collapses step by step. *)
LEMMA CollapseSteps ==
  ASSUME NEW s \in Seq(StepChange)
  PROVE  \E f : /\ f[0] = <<>> /\ \A i \in 1 .. Len(s) : f[i] = Compose(f[i - 1], s[i])
                /\ CollapseChain(s) = f[Len(s)]
<1>1. PICK N, Q, e : N = Len(s) /\ Q = Seq(StepChange) /\ e = <<>>
  OBVIOUS
<1>2. N \in Nat /\ \A i \in 1 .. N : s[i] \in StepChange
  BY <1>1
<1>3. PICK F : F = [x \in Q \X (1 .. N) |-> Compose(x[1], s[x[2]])]
  OBVIOUS
<1>4. \A h \in Q : \A i \in 1 .. N : F[<<h, i>>] = Compose(h, s[i]) /\ Compose(h, s[i]) \in Q
  BY <1>1, <1>2, <1>3, ComposeWithin, AnyLasts
<1>5. PICK h : Recursion(h, N, Q, e, F)
  <2>1. e \in Q
    BY <1>1
  <2>2. Closed(N, Q, F)
    BY <1>4 DEF Closed
  <2> QED BY <1>2, <2>1, <2>2, Recursively
<1> DEFINE P(f) == f = [i \in 0 .. Len(s) |-> IF i = 0 THEN <<>> ELSE Compose(f[i - 1], s[i])]
<1>6. P(h)
  <2>1. \A i \in 0 .. N : i # 0 => i \in 1 .. N /\ i - 1 \in 0 .. N
    BY <1>2
  <2>2. h \in [0 .. N -> Q] /\ h[0] = <<>> /\ \A i \in 1 .. N : h[i] = F[<<h[i - 1], i>>]
    BY <1>1, <1>5 DEF Recursion
  <2>3. \A i \in 0 .. N : h[i] = IF i = 0 THEN <<>> ELSE Compose(h[i - 1], s[i])
    BY <1>4, <2>1, <2>2
  <2> QED BY <1>1, <2>2, <2>3
<1>7. PICK k : k = CHOOSE f : P(f)
  OBVIOUS
<1>8. P(k)
  BY <1>6, <1>7, Zenon
<1>9. CollapseChain(s) = k[N]
  BY <1>1, <1>7 DEF CollapseChain
<1>10. k[0] = <<>> /\ \A i \in 1 .. N : k[i] = Compose(k[i - 1], s[i])
  <2>1. 0 \in 0 .. N /\ \A i \in 1 .. N : i \in 0 .. N /\ i # 0
    BY <1>2
  <2>2. k[0] = <<>>
    BY <1>1, <1>8, <2>1
  <2>3. ASSUME NEW i \in 1 .. N PROVE k[i] = Compose(k[i - 1], s[i])
    BY <1>1, <1>8, <2>1
  <2> QED BY <2>2, <2>3
<1> QED BY <1>1, <1>9, <1>10

(* What composing does not leave, collapsing does not. *)
LEMMA CollapseWithin ==
  ASSUME NEW G, Lasting(G), NEW s \in Seq(G)
  PROVE  CollapseChain(s) \in Seq(G)
<1>1. PICK N : N = Len(s)
  OBVIOUS
<1>2. s \in Seq(StepChange) /\ N \in Nat /\ \A i \in 1 .. N : s[i] \in G
  BY <1>1, SeqMonotonic, ElementOfSeq DEF Lasting
<1>3. PICK f : /\ f[0] = <<>> /\ \A i \in 1 .. N : f[i] = Compose(f[i - 1], s[i])
               /\ CollapseChain(s) = f[N]
  BY <1>1, <1>2, CollapseSteps
<1> DEFINE T == {i \in 0 .. N : f[i] \in Seq(G)}
<1>4. 0 \in T
  <2>1. f[0] \in Seq(G) /\ 0 \in 0 .. N
    BY <1>2, <1>3
  <2> QED BY <2>1
<1>5. ASSUME NEW i \in 0 .. (N - 1), i \in T PROVE i + 1 \in T
  <2>1. i + 1 \in 1 .. N /\ i + 1 \in 0 .. N /\ (i + 1) - 1 = i
    BY <1>2
  <2>2. f[i + 1] = Compose(f[i], s[i + 1])
    BY <1>3, <2>1
  <2>3. f[i] \in Seq(G) /\ s[i + 1] \in G
    BY <1>2, <1>5, <2>1
  <2> QED BY <2>1, <2>2, <2>3, ComposeWithin
<1>6. N \in T
  <2> HIDE DEF T
  <2>1. \A i \in 0 .. N : i \in T
    BY <1>2, <1>4, <1>5, UpTo
  <2> QED BY <1>2, <2>1
<1> QED BY <1>3, <1>6

(* Where no change names what a rename brought, there is nothing to        *)
(* collapse: composing again says the same.                                *)
Settled(h) == \A k, l \in DOMAIN h : h[k].kind = "renamed" => h[l].name # h[k].to

LEMMA SettledPrefix ==
  ASSUME NEW s \in Seq(StepChange), NEW f, f[0] = <<>>, \A i \in 1 .. Len(s) : f[i] = Compose(f[i - 1], s[i]),
         NEW t \in Seq(StepChange), Settled(t), Len(t) <= Len(s), \A k \in 1 .. Len(t) : s[k] = t[k]
  PROVE  f[Len(t)] = t
<1>1. PICK N : N = Len(t)
  OBVIOUS
<1>2. N \in Nat /\ DOMAIN t = 1 .. N /\ (\A i \in 1 .. N : t[i] \in StepChange) /\ \A i \in 1 .. N : f[i] = Compose(f[i - 1], t[i])
  BY <1>1
<1> DEFINE T == {i \in 0 .. N : f[i] \in Seq(StepChange) /\ Len(f[i]) = i /\ \A k \in 1 .. i : f[i][k] = t[k]}
<1>3. 0 \in T
  <2>1. f[0] \in Seq(StepChange) /\ Len(f[0]) = 0 /\ 0 \in 0 .. N
    BY <1>2
  <2>2. \A k : k \notin 1 .. 0
    OBVIOUS
  <2> QED BY <2>1, <2>2
<1>4. ASSUME NEW i \in 0 .. (N - 1), i \in T PROVE i + 1 \in T
  <2>1. i \in Nat /\ i + 1 \in 1 .. N /\ i + 1 \in 0 .. N /\ (i + 1) - 1 = i /\ \A k \in 1 .. i : k \in 1 .. N
    BY <1>2
  <2>2. PICK h, c, r : h = f[i] /\ c = t[i + 1] /\ r = f[i + 1]
    OBVIOUS
  <2>3. h \in Seq(StepChange) /\ Len(h) = i /\ DOMAIN h = 1 .. i /\ c \in StepChange /\ \A k \in 1 .. i : h[k] = t[k]
    BY <1>2, <1>4, <2>1, <2>2
  <2>4. r = Compose(h, c)
    BY <1>2, <2>1, <2>2
  <2>5. \A k \in DOMAIN h : ~ Brought(h, k, c)
    BY <1>2, <2>1, <2>2, <2>3 DEF Settled, Brought
  <2>6. Composing(h, c, r)
    BY <2>3, <2>4, ComposeIs
  <2>7. r = Append(h, c)
    BY <2>5, <2>6 DEF Composing
  <2>8. r \in Seq(StepChange) /\ Len(r) = i + 1 /\ r[i + 1] = c /\ \A k \in 1 .. i : r[k] = h[k]
    BY <2>1, <2>3, <2>7
  <2>9. \A k \in 1 .. (i + 1) : k = i + 1 \/ k \in 1 .. i
    BY <2>1
  <2>10. \A k \in 1 .. (i + 1) : r[k] = t[k]
    BY <2>2, <2>3, <2>8, <2>9
  <2> QED BY <2>1, <2>2, <2>8, <2>10
<1>5. N \in T
  <2> HIDE DEF T
  <2>1. \A i \in 0 .. N : i \in T
    BY <1>2, <1>3, <1>4, UpTo
  <2> QED BY <1>2, <2>1
<1>6. PICK r : r = f[N]
  OBVIOUS
<1>7. r \in Seq(StepChange) /\ Len(r) = N /\ \A k \in 1 .. N : r[k] = t[k]
  BY <1>5, <1>6
<1>8. r = t
  BY <1>1, <1>7, SeqEqual
<1> QED BY <1>1, <1>6, <1>8

LEMMA NothingToCompose ==
  ASSUME NEW t \in Seq(StepChange), Settled(t)
  PROVE  CollapseChain(t) = t
<1>1. PICK f : /\ f[0] = <<>> /\ \A i \in 1 .. Len(t) : f[i] = Compose(f[i - 1], t[i])
               /\ CollapseChain(t) = f[Len(t)]
  BY CollapseSteps
<1>2. Len(t) <= Len(t)
  OBVIOUS
<1>3. f[Len(t)] = t
  BY <1>1, <1>2, SettledPrefix
<1> QED BY <1>1, <1>3

LEMMA OneToCompose ==
  ASSUME NEW t \in Seq(StepChange), Settled(t), NEW c \in StepChange
  PROVE  CollapseChain(t \o <<c>>) = Compose(t, c)
<1>1. PICK n, s : n = Len(t) /\ s = t \o <<c>>
  OBVIOUS
<1>2. n \in Nat /\ s \in Seq(StepChange) /\ Len(s) = n + 1 /\ s[n + 1] = c /\ \A k \in 1 .. n : s[k] = t[k]
  <2>1. PICK g : g = <<c>>
    OBVIOUS
  <2>2. g \in Seq(StepChange) /\ Len(g) = 1 /\ g[1] = c
    BY <2>1
  <2>3. s \in Seq(StepChange) /\ Len(s) = Len(t) + Len(g)
        /\ \A i \in 1 .. (Len(t) + Len(g)) : s[i] = IF i <= Len(t) THEN t[i] ELSE g[i - Len(t)]
    BY <1>1, <2>1, <2>2, ConcatProperties
  <2>4. n \in Nat /\ n + 1 \in 1 .. (n + 1) /\ ~ (n + 1 <= n) /\ (n + 1) - n = 1 /\ \A k \in 1 .. n : k \in 1 .. (n + 1) /\ k <= n
    BY <1>1
  <2> QED BY <1>1, <2>2, <2>3, <2>4
<1>3. PICK f : /\ f[0] = <<>> /\ \A i \in 1 .. Len(s) : f[i] = Compose(f[i - 1], s[i])
               /\ CollapseChain(s) = f[Len(s)]
  BY <1>2, CollapseSteps
<1>4. f[n] = t
  <2>1. Len(t) <= Len(s) /\ \A k \in 1 .. Len(t) : s[k] = t[k]
    BY <1>1, <1>2
  <2>2. f[Len(t)] = t
    BY <1>2, <1>3, <2>1, SettledPrefix
  <2> QED BY <1>1, <2>2
<1>5. n + 1 \in 1 .. Len(s) /\ (n + 1) - 1 = n
  BY <1>2
<1>6. f[n + 1] = Compose(t, c)
  BY <1>2, <1>3, <1>4, <1>5
<1> QED BY <1>1, <1>2, <1>3, <1>6

-----------------------------------------------------------------------------
(* What is held after the first i steps of a story that never uses a name  *)
(* twice: of each field, where it was and where it is.                     *)
Tells(h, named, left, came) ==
  /\ h \in Seq(StepChange)
  /\ \A k \in DOMAIN h :
       /\ h[k].name \in named
       /\ Source(h[k]) => h[k].name \in left
       /\ h[k].kind = "renamed" => h[k].to \in came /\ h[k].to \notin left
  /\ \A k, l \in DOMAIN h : (h[k].kind = "renamed" /\ h[l].kind = "renamed" /\ h[k].to = h[l].to) => k = l
  /\ Settled(h)
  /\ \A a \in left : a \notin came => \E k \in DOMAIN h : Source(h[k]) /\ h[k].name = a

Told(s, i, h) == Tells(h, NamedBy(s, i), LeftBy(s, i), CameBy(s, i))

LEMMA OneMoreStep ==
  ASSUME NEW s \in Seq(StepChange), NEW i \in 0 .. (Len(s) - 1)
  PROVE  /\ i + 1 \in DOMAIN s /\ i \in Nat /\ s[i + 1] \in StepChange
         /\ NamedBy(s, i + 1) = NamedBy(s, i) \cup {s[i + 1].name, s[i + 1].to}
         /\ LeftBy(s, i + 1) = LeftBy(s, i) \cup (IF Source(s[i + 1]) THEN {s[i + 1].name} ELSE {})
         /\ CameBy(s, i + 1) = CameBy(s, i) \cup (IF s[i + 1].kind = "renamed" THEN {s[i + 1].to} ELSE {})
         /\ LeftBy(s, i) \subseteq NamedBy(s, i) /\ CameBy(s, i) \subseteq NamedBy(s, i)
<1>1. i + 1 \in DOMAIN s /\ i \in Nat /\ s[i + 1] \in StepChange
  OBVIOUS
<1>2. (\A j \in 1 .. (i + 1) : j = i + 1 \/ j \in 1 .. i) /\ i + 1 \in 1 .. (i + 1) /\ \A j \in 1 .. i : j \in 1 .. (i + 1)
  BY <1>1
<1>3. 1 .. (i + 1) = (1 .. i) \cup {i + 1}
  BY <1>2
<1>4. NamedBy(s, i + 1) = NamedBy(s, i) \cup {s[i + 1].name, s[i + 1].to}
  BY <1>3 DEF NamedBy
<1>5. LeftBy(s, i + 1) = LeftBy(s, i) \cup (IF Source(s[i + 1]) THEN {s[i + 1].name} ELSE {})
  BY <1>3 DEF LeftBy
<1>6. CameBy(s, i + 1) = CameBy(s, i) \cup (IF s[i + 1].kind = "renamed" THEN {s[i + 1].to} ELSE {})
  BY <1>3 DEF CameBy
<1>7. LeftBy(s, i) \subseteq NamedBy(s, i) /\ CameBy(s, i) \subseteq NamedBy(s, i)
  BY DEF LeftBy, CameBy, NamedBy
<1> QED BY <1>1, <1>4, <1>5, <1>6, <1>7

LEMMA FreshStep ==
  ASSUME NEW s \in Seq(StepChange), NEW i \in 0 .. (Len(s) - 1), FreshAt(s, i + 1)
  PROVE  /\ s[i + 1].kind \in {"renamed", "added"} => s[i + 1].to \notin NamedBy(s, i)
         /\ s[i + 1].kind = "renamed" => s[i + 1].name # s[i + 1].to
         /\ s[i + 1].kind # "renamed" => s[i + 1].name = s[i + 1].to
<1>1. \A j \in 1 .. i : j \in DOMAIN s /\ j < i + 1
  OBVIOUS
<1> QED BY <1>1 DEF FreshAt, NamedBy

LEMMA TellsGoesOn ==
  ASSUME NEW h, NEW Nm, NEW Lf, NEW Cm, Tells(h, Nm, Lf, Cm), Lf \subseteq Nm, Cm \subseteq Nm,
         NEW Nm2, NEW Lf2, NEW Cm2, NEW c \in StepChange,
         Nm2 = Nm \cup {c.name, c.to},
         Lf2 = Lf \cup (IF Source(c) THEN {c.name} ELSE {}),
         Cm2 = Cm \cup (IF c.kind = "renamed" THEN {c.to} ELSE {}),
         c.kind \in {"renamed", "added"} => c.to \notin Nm,
         c.kind = "renamed" => c.name # c.to
  PROVE  Tells(Compose(h, c), Nm2, Lf2, Cm2)
<1>1. PICK r, n : r = Compose(h, c) /\ n = Len(h)
  OBVIOUS
<1>2. h \in Seq(StepChange) /\ n \in Nat /\ DOMAIN h = 1 .. n /\ \A k \in 1 .. n : h[k] \in StepChange
  BY <1>1 DEF Tells
<1>3. /\ \A k \in 1 .. n :
           /\ h[k].name \in Nm
           /\ Source(h[k]) => h[k].name \in Lf
           /\ h[k].kind = "renamed" => h[k].to \in Cm /\ h[k].to \notin Lf
      /\ \A k, l \in 1 .. n : (h[k].kind = "renamed" /\ h[l].kind = "renamed" /\ h[k].to = h[l].to) => k = l
      /\ \A k, l \in 1 .. n : h[k].kind = "renamed" => h[l].name # h[k].to
      /\ \A a \in Lf : a \notin Cm => \E k \in 1 .. n : Source(h[k]) /\ h[k].name = a
  BY <1>2 DEF Tells, Settled
<1>4. Composing(h, c, r) /\ r \in Seq(StepChange)
  BY <1>1, <1>2, ComposeIs, ComposeWithin, AnyLasts
<1>5. c.kind = "renamed" => Source(c) /\ c.to \notin Nm /\ c.to \notin Lf2 /\ c.to \in Cm2 /\ c.to \notin Cm
  BY DEF Source
<1>6. Lf \subseteq Lf2 /\ Cm \subseteq Cm2 /\ Nm \subseteq Nm2 /\ c.name \in Nm2 /\ (Source(c) => c.name \in Lf2)
  OBVIOUS
<1>7. ASSUME \A k \in 1 .. n : ~ Brought(h, k, c), r = Append(h, c)
      PROVE  Tells(r, Nm2, Lf2, Cm2)
  <2>1. DOMAIN r = 1 .. (n + 1) /\ r[n + 1] = c /\ (\A k \in 1 .. n : r[k] = h[k] /\ k \in 1 .. (n + 1))
    BY <1>1, <1>2, <1>7
  <2>2. (\A k \in 1 .. (n + 1) : k = n + 1 \/ k \in 1 .. n) /\ n + 1 \in 1 .. (n + 1)
    BY <1>2
  <2>3. \A k \in 1 .. n : h[k].kind = "renamed" => h[k].to # c.name
    BY <1>7 DEF Brought
  <2>4. \A k \in 1 .. (n + 1) :
          /\ r[k].name \in Nm2
          /\ Source(r[k]) => r[k].name \in Lf2
          /\ r[k].kind = "renamed" => r[k].to \in Cm2 /\ r[k].to \notin Lf2
    <3>1. \A k \in 1 .. n :
            /\ h[k].name \in Nm2
            /\ Source(h[k]) => h[k].name \in Lf2
            /\ h[k].kind = "renamed" => h[k].to \in Cm2 /\ h[k].to \notin Lf2
      BY <1>3, <1>6, <2>3
    <3> QED BY <1>5, <1>6, <2>1, <2>2, <3>1
  <2>5. \A k, l \in 1 .. (n + 1) : (r[k].kind = "renamed" /\ r[l].kind = "renamed" /\ r[k].to = r[l].to) => k = l
    BY <1>3, <1>5, <2>1, <2>2
  <2>6. \A k, l \in 1 .. (n + 1) : r[k].kind = "renamed" => r[l].name # r[k].to
    BY <1>3, <1>5, <2>1, <2>2, <2>3
  <2>7. \A a \in Lf2 : a \notin Cm2 => \E k \in 1 .. (n + 1) : Source(r[k]) /\ r[k].name = a
    <3>1. ASSUME NEW a \in Lf, a \notin Cm2 PROVE \E k \in 1 .. (n + 1) : Source(r[k]) /\ r[k].name = a
      <4>1. PICK k \in 1 .. n : Source(h[k]) /\ h[k].name = a
        BY <1>3, <1>6, <3>1
      <4> QED BY <2>1, <4>1
    <3>2. ASSUME NEW a \in Lf2, a \notin Lf PROVE \E k \in 1 .. (n + 1) : Source(r[k]) /\ r[k].name = a
      <4>1. Source(c) /\ a = c.name
        BY <3>2
      <4> QED BY <2>1, <2>2, <4>1
    <3> QED BY <3>1, <3>2
  <2> QED BY <1>4, <2>1, <2>4, <2>5, <2>6, <2>7 DEF Tells, Settled
<1>8. ASSUME NEW at \in 1 .. n, Brought(h, at, c)
      PROVE  /\ h[at].kind = "renamed" /\ h[at].to = c.name /\ Source(h[at]) /\ h[at].name \in Lf
             /\ \A k \in 1 .. n : (k # at /\ h[k].kind = "renamed") => h[k].to \notin Lf2
             /\ \A a \in Lf2 : a \notin Cm2 => \E k \in 1 .. n : Source(h[k]) /\ h[k].name = a
  <2>1. h[at].kind = "renamed" /\ h[at].to = c.name /\ Source(h[at]) /\ h[at].name \in Lf /\ c.name \in Cm
    BY <1>3, <1>8 DEF Brought, Source
  <2>2. ASSUME NEW k \in 1 .. n, k # at, h[k].kind = "renamed" PROVE h[k].to \notin Lf2
    BY <1>3, <2>1, <2>2
  <2>3. ASSUME NEW a \in Lf2, a \notin Cm2 PROVE \E k \in 1 .. n : Source(h[k]) /\ h[k].name = a
    <3>1. a \in Lf /\ a \notin Cm
      BY <1>6, <2>1, <2>3
    <3> QED BY <1>3, <3>1
  <2> QED BY <2>1, <2>2, <2>3
<1>9. ASSUME NEW at \in 1 .. n, Brought(h, at, c), c.kind = "renamed", h[at].name = c.to
      PROVE  FALSE
  BY <1>3, <1>5, <1>9
<1>10. ASSUME NEW at \in 1 .. n, Brought(h, at, c), c.kind = "renamed", r = [h EXCEPT ![at].to = c.to]
       PROVE  Tells(r, Nm2, Lf2, Cm2)
  <2>1. PICK d : d = [h[at] EXCEPT !.to = c.to]
    OBVIOUS
  <2>2. d.name = h[at].name /\ d.kind = "renamed" /\ d.to = c.to
    <3>1. h[at] \in StepChange
      BY <1>2
    <3> QED BY <1>8, <1>10, <2>1, <3>1 DEF StepChange
  <2>3. DOMAIN r = 1 .. n /\ r[at] = d /\ \A k \in 1 .. n : k # at => r[k] = h[k]
    BY <1>2, <1>10, <2>1
  <2>4. \A k \in 1 .. n :
          /\ r[k].name \in Nm2
          /\ Source(r[k]) => r[k].name \in Lf2
          /\ r[k].kind = "renamed" => r[k].to \in Cm2 /\ r[k].to \notin Lf2
    <3>1. d.name \in Nm2 /\ d.name \in Lf2 /\ d.to \in Cm2 /\ d.to \notin Lf2
      BY <1>5, <1>6, <1>8, <1>10, <2>2
    <3>2. \A k \in 1 .. n : k # at =>
            /\ h[k].name \in Nm2
            /\ Source(h[k]) => h[k].name \in Lf2
            /\ h[k].kind = "renamed" => h[k].to \in Cm2 /\ h[k].to \notin Lf2
      BY <1>3, <1>6, <1>8, <1>10
    <3> QED BY <2>3, <3>1, <3>2
  <2>5. \A k, l \in 1 .. n : (r[k].kind = "renamed" /\ r[l].kind = "renamed" /\ r[k].to = r[l].to) => k = l
    BY <1>3, <1>5, <1>10, <2>2, <2>3
  <2>6. \A k, l \in 1 .. n : r[k].kind = "renamed" => r[l].name # r[k].to
    <3>1. \A l \in 1 .. n : r[l].name = h[l].name
      BY <2>2, <2>3
    <3>2. \A l \in 1 .. n : h[l].name # d.to
      BY <1>3, <1>5, <1>10, <2>2
    <3> QED BY <1>3, <2>3, <3>1, <3>2
  <2>7. \A a \in Lf2 : a \notin Cm2 => \E k \in 1 .. n : Source(r[k]) /\ r[k].name = a
    <3>1. \A k \in 1 .. n : r[k].name = h[k].name /\ (Source(h[k]) => Source(r[k]))
      BY <2>2, <2>3 DEF Source
    <3> QED BY <1>8, <1>10, <3>1
  <2> QED BY <1>4, <2>3, <2>4, <2>5, <2>6, <2>7 DEF Tells, Settled
<1>11. ASSUME NEW at \in 1 .. n, Brought(h, at, c), c.kind = "removed",
              r = Append(RemoveAt(h, at), [c EXCEPT !.name = h[at].name])
       PROVE  Tells(r, Nm2, Lf2, Cm2)
  <2>1. PICK d, g : d = [c EXCEPT !.name = h[at].name] /\ g = RemoveAt(h, at)
    OBVIOUS
  <2>2. d.name = h[at].name /\ d.kind = "removed" /\ Source(d) /\ d \in StepChange
    <3>1. h[at] \in StepChange
      BY <1>2
    <3> QED BY <1>11, <2>1, <3>1 DEF StepChange, Source
  <2>3. g \in Seq(StepChange) /\ Cut(g, h, at)
    BY <1>1, <1>2, <2>1, RemoveAtIsCut
  <2>4. DOMAIN r = 1 .. n /\ r[n] = d /\ \A k \in 1 .. (n - 1) : r[k] = g[k]
    <3>1. Len(g) = n - 1
      BY <1>1, <2>3 DEF Cut
    <3>2. r = Append(g, d)
      BY <1>11, <2>1
    <3> QED BY <1>2, <2>2, <2>3, <3>1, <3>2
  <2>5. \A k \in 1 .. n : k # n => \E m \in 1 .. n : m # at /\ r[k] = h[m] /\ m = IF k < at THEN k ELSE k + 1
    <3>1. ASSUME NEW k \in 1 .. n, k # n PROVE \E m \in 1 .. n : m # at /\ r[k] = h[m] /\ m = IF k < at THEN k ELSE k + 1
      <4>1. PICK m : m = IF k < at THEN k ELSE k + 1
        OBVIOUS
      <4>2. k \in 1 .. (n - 1) /\ m \in 1 .. n /\ m # at
        BY <1>2, <3>1, <4>1
      <4>3. r[k] = h[m]
        BY <1>1, <2>3, <2>4, <4>1, <4>2 DEF Cut
      <4> QED BY <4>1, <4>2, <4>3
    <3> QED BY <3>1
  <2>6. \A k \in 1 .. n :
          /\ r[k].name \in Nm2
          /\ Source(r[k]) => r[k].name \in Lf2
          /\ r[k].kind = "renamed" => r[k].to \in Cm2 /\ r[k].to \notin Lf2
    <3>1. \A m \in 1 .. n : m # at =>
            /\ h[m].name \in Nm2
            /\ Source(h[m]) => h[m].name \in Lf2
            /\ h[m].kind = "renamed" => h[m].to \in Cm2 /\ h[m].to \notin Lf2
      BY <1>3, <1>6, <1>8, <1>11
    <3>2. d.name \in Nm2 /\ d.name \in Lf2 /\ d.kind # "renamed"
      BY <1>6, <1>8, <1>11, <2>2
    <3>3. ASSUME NEW k \in 1 .. n, k # n
          PROVE  /\ r[k].name \in Nm2
                 /\ Source(r[k]) => r[k].name \in Lf2
                 /\ r[k].kind = "renamed" => r[k].to \in Cm2 /\ r[k].to \notin Lf2
      <4>1. PICK m \in 1 .. n : m # at /\ r[k] = h[m]
        BY <2>5, <3>3
      <4> QED BY <3>1, <4>1
    <3> QED BY <2>4, <3>2, <3>3
  <2>7. ASSUME NEW k \in 1 .. n, NEW l \in 1 .. n, r[k].kind = "renamed", r[l].kind = "renamed", r[k].to = r[l].to
        PROVE  k = l
    <3>1. k # n /\ l # n
      BY <2>2, <2>4, <2>7
    <3>2. PICK m1 \in 1 .. n : r[k] = h[m1] /\ m1 = IF k < at THEN k ELSE k + 1
      BY <2>5, <3>1
    <3>3. PICK m2 \in 1 .. n : r[l] = h[m2] /\ m2 = IF l < at THEN l ELSE l + 1
      BY <2>5, <3>1
    <3>4. m1 = m2
      BY <1>3, <2>7, <3>2, <3>3
    <3> QED BY <1>2, <3>2, <3>3, <3>4
  <2>8. ASSUME NEW k \in 1 .. n, NEW l \in 1 .. n, r[k].kind = "renamed" PROVE r[l].name # r[k].to
    <3>1. k # n
      BY <2>2, <2>4, <2>8
    <3>2. PICK m1 \in 1 .. n : r[k] = h[m1]
      BY <2>5, <3>1
    <3>3. \E m \in 1 .. n : r[l].name = h[m].name
      <4>1. CASE l = n
        BY <2>2, <2>4, <4>1
      <4>2. CASE l # n
        BY <2>5, <4>2
      <4> QED BY <4>1, <4>2
    <3> QED BY <1>3, <2>8, <3>2, <3>3
  <2>9. ASSUME NEW a \in Lf2, a \notin Cm2 PROVE \E k \in 1 .. n : Source(r[k]) /\ r[k].name = a
    <3>1. PICK m \in 1 .. n : Source(h[m]) /\ h[m].name = a
      BY <1>8, <1>11, <2>9
    <3>2. CASE m = at
      <4>1. n \in 1 .. n
        BY <1>2
      <4> QED BY <2>2, <2>4, <3>1, <3>2, <4>1
    <3>3. CASE m # at
      <4>1. PICK k : k = IF m < at THEN m ELSE m - 1
        OBVIOUS
      <4>2. k \in 1 .. n /\ k # n /\ m = IF k < at THEN k ELSE k + 1
        BY <1>2, <3>3, <4>1
      <4>3. r[k] = h[m]
        BY <2>5, <4>2
      <4> QED BY <3>1, <4>2, <4>3
    <3> QED BY <3>2, <3>3
  <2> QED BY <1>4, <2>4, <2>6, <2>7, <2>8, <2>9 DEF Tells, Settled
<1>12. ASSUME NEW at \in 1 .. n, Brought(h, at, c), ~ Source(c), r = Append(h, [c EXCEPT !.name = h[at].name])
       PROVE  Tells(r, Nm2, Lf2, Cm2)
  <2>1. PICK d : d = [c EXCEPT !.name = h[at].name]
    OBVIOUS
  <2>2. d.name = h[at].name /\ d.kind # "renamed" /\ ~ Source(d) /\ d \in StepChange
    <3>1. h[at] \in StepChange
      BY <1>2
    <3> QED BY <1>12, <2>1, <3>1 DEF StepChange, Source
  <2>3. DOMAIN r = 1 .. (n + 1) /\ r[n + 1] = d /\ (\A k \in 1 .. n : r[k] = h[k] /\ k \in 1 .. (n + 1))
    BY <1>1, <1>2, <1>12, <2>1, <2>2
  <2>4. \A k \in 1 .. (n + 1) : k = n + 1 \/ k \in 1 .. n
    BY <1>2
  <2>5. Lf2 = Lf
    BY <1>12
  <2>6. \A k \in 1 .. (n + 1) :
          /\ r[k].name \in Nm2
          /\ Source(r[k]) => r[k].name \in Lf2
          /\ r[k].kind = "renamed" => r[k].to \in Cm2 /\ r[k].to \notin Lf2
    <3>1. \A k \in 1 .. n :
            /\ h[k].name \in Nm2
            /\ Source(h[k]) => h[k].name \in Lf2
            /\ h[k].kind = "renamed" => h[k].to \in Cm2 /\ h[k].to \notin Lf2
      BY <1>3, <1>6, <2>5
    <3>2. d.name \in Nm2
      BY <1>3, <1>6, <1>12, <2>2
    <3> QED BY <2>2, <2>3, <2>4, <3>1, <3>2
  <2>7. \A k, l \in 1 .. (n + 1) : (r[k].kind = "renamed" /\ r[l].kind = "renamed" /\ r[k].to = r[l].to) => k = l
    BY <1>3, <2>2, <2>3, <2>4
  <2>8. \A k, l \in 1 .. (n + 1) : r[k].kind = "renamed" => r[l].name # r[k].to
    <3>1. \A l \in 1 .. (n + 1) : \E m \in 1 .. n : r[l].name = h[m].name
      BY <1>12, <2>2, <2>3, <2>4
    <3>2. \A k \in 1 .. (n + 1) : r[k].kind = "renamed" => \E m \in 1 .. n : r[k] = h[m]
      BY <2>2, <2>3, <2>4
    <3> QED BY <1>3, <3>1, <3>2
  <2>9. \A a \in Lf2 : a \notin Cm2 => \E k \in 1 .. (n + 1) : Source(r[k]) /\ r[k].name = a
    <3>1. ASSUME NEW a \in Lf2, a \notin Cm2 PROVE \E k \in 1 .. (n + 1) : Source(r[k]) /\ r[k].name = a
      <4>1. PICK k \in 1 .. n : Source(h[k]) /\ h[k].name = a
        BY <1>8, <1>12, <3>1
      <4> QED BY <2>3, <4>1
    <3> QED BY <3>1
  <2> QED BY <1>4, <2>3, <2>6, <2>7, <2>8, <2>9 DEF Tells, Settled
<1> QED BY <1>1, <1>2, <1>4, <1>7, <1>9, <1>10, <1>11, <1>12 DEF Composing

LEMMA ToldGoesOn ==
  ASSUME NEW s \in Seq(StepChange), NEW i \in 0 .. (Len(s) - 1), FreshAt(s, i + 1), NEW h, Told(s, i, h)
  PROVE  Told(s, i + 1, Compose(h, s[i + 1]))
<1>1. PICK c, Nm, Lf, Cm : c = s[i + 1] /\ Nm = NamedBy(s, i) /\ Lf = LeftBy(s, i) /\ Cm = CameBy(s, i)
  OBVIOUS
<1>2. PICK Nm2, Lf2, Cm2 : Nm2 = NamedBy(s, i + 1) /\ Lf2 = LeftBy(s, i + 1) /\ Cm2 = CameBy(s, i + 1)
  OBVIOUS
<1>3. /\ c \in StepChange
      /\ Nm2 = Nm \cup {c.name, c.to}
      /\ Lf2 = Lf \cup (IF Source(c) THEN {c.name} ELSE {})
      /\ Cm2 = Cm \cup (IF c.kind = "renamed" THEN {c.to} ELSE {})
      /\ Lf \subseteq Nm /\ Cm \subseteq Nm
  BY <1>1, <1>2, OneMoreStep
<1>4. /\ c.kind \in {"renamed", "added"} => c.to \notin Nm
      /\ c.kind = "renamed" => c.name # c.to
  BY <1>1, FreshStep
<1>5. Tells(h, Nm, Lf, Cm)
  BY <1>1 DEF Told
<1>6. Tells(Compose(h, c), Nm2, Lf2, Cm2)
  BY <1>3, <1>4, <1>5, TellsGoesOn
<1> QED BY <1>1, <1>2, <1>6 DEF Told

LEMMA CollapseTells ==
  ASSUME NEW s \in Seq(StepChange), Fresh(s)
  PROVE  Told(s, Len(s), CollapseChain(s))
<1>1. PICK N : N = Len(s)
  OBVIOUS
<1>2. N \in Nat /\ DOMAIN s = 1 .. N
  BY <1>1
<1>3. PICK f : /\ f[0] = <<>> /\ \A i \in 1 .. N : f[i] = Compose(f[i - 1], s[i])
               /\ CollapseChain(s) = f[N]
  BY <1>1, CollapseSteps
<1> DEFINE T == {i \in 0 .. N : Told(s, i, f[i])}
<1>4. 0 \in T
  <2>1. PICK h : h = f[0]
    OBVIOUS
  <2>2. h \in Seq(StepChange) /\ DOMAIN h = {}
    BY <1>3, <2>1
  <2>3. LeftBy(s, 0) = {}
    BY DEF LeftBy
  <2>4. Told(s, 0, h)
    BY <2>2, <2>3 DEF Told, Tells, Settled
  <2> QED BY <1>2, <2>1, <2>4
<1>5. ASSUME NEW i \in 0 .. (N - 1), i \in T PROVE i + 1 \in T
  <2>1. i + 1 \in 1 .. N /\ i + 1 \in 0 .. N /\ (i + 1) - 1 = i
    BY <1>2
  <2>2. f[i + 1] = Compose(f[i], s[i + 1])
    BY <1>3, <2>1
  <2>3. Told(s, i, f[i]) /\ FreshAt(s, i + 1)
    BY <1>2, <1>5, <2>1 DEF Fresh
  <2>4. PICK h : h = f[i]
    OBVIOUS
  <2>5. Told(s, i + 1, Compose(h, s[i + 1]))
    BY <1>1, <2>3, <2>4, ToldGoesOn
  <2> QED BY <2>1, <2>2, <2>4, <2>5
<1>6. N \in T
  <2> HIDE DEF T
  <2>1. \A i \in 0 .. N : i \in T
    BY <1>2, <1>4, <1>5, UpTo
  <2> QED BY <1>2, <2>1
<1> QED BY <1>1, <1>3, <1>6

(* A sequence of one. *)
LEMMA OnlyOne ==
  ASSUME NEW E, NEW d \in Seq(E), Len(d) <= 1, d # <<>>
  PROVE  Len(d) = 1 /\ 1 \in DOMAIN d /\ d[1] \in E /\ d = <<d[1]>> /\ ToSet(d) = {d[1]}
<1>1. PICK m : m = Len(d)
  OBVIOUS
<1>2. m \in Nat /\ DOMAIN d = 1 .. m /\ m <= 1
  BY <1>1
<1>3. m # 0
  BY <1>1
<1>4. m = 1
  BY <1>2, <1>3
<1>5. DOMAIN d = 1 .. 1 /\ 1 \in 1 .. 1 /\ 1 .. 1 = {1}
  BY <1>2, <1>4
<1>6. d[1] \in E
  BY <1>1, <1>4, <1>5, ElementOfSeq
<1>7. PICK g : g = <<d[1]>>
  OBVIOUS
<1>8. g \in Seq(E) /\ Len(g) = 1 /\ g[1] = d[1]
  BY <1>6, <1>7
<1>9. d = g
  <2>1. \A i \in 1 .. Len(d) : d[i] = g[i]
    BY <1>1, <1>4, <1>5, <1>8
  <2> QED BY <1>1, <1>4, <1>8, <2>1, SeqEqual
<1>10. ToSet(d) = {d[1]}
  BY <1>5 DEF ToSet
<1> QED BY <1>1, <1>4, <1>5, <1>6, <1>7, <1>9, <1>10

(* What the disk says in all: what the steps tell, and what is declared    *)
(* beside them unless they tell it.                                        *)
LEMMA ComposedIs ==
  ASSUME NEW s \in Seq(StepChange), Fresh(s), NEW d \in Seq(StepChange), Len(d) <= 1
  PROVE  /\ CollapseChain(s) \in Seq(StepChange)
         /\ Composed(s, d) = IF d = <<>> \/ d[1] \in ToSet(CollapseChain(s)) THEN CollapseChain(s)
                             ELSE Compose(CollapseChain(s), d[1])
<1>1. PICK h, w : h = CollapseChain(s) /\ w = Without(d, ToSet(h))
  OBVIOUS
<1>2. h \in Seq(StepChange) /\ Settled(h)
  BY <1>1, CollapseTells DEF Told, Tells
<1>3. CollapseChain(h) = h
  BY <1>2, NothingToCompose
<1>4. Composed(s, d) = CollapseChain(h \o w)
  BY <1>1, <1>3 DEF Composed
<1>5. w \in Seq(StepChange) /\ Len(w) <= Len(d) /\ ToSet(w) = ToSet(d) \ ToSet(h)
  BY <1>1, WithoutIsLess
<1>6. CASE d = <<>> \/ d[1] \in ToSet(h)
  <2>1. ToSet(w) = {}
    <3>1. \A x \in ToSet(d) : d # <<>> /\ x = d[1]
      BY DEF ToSet
    <3> QED BY <1>5, <1>6, <3>1
  <2>2. w = <<>>
    BY <1>5, <2>1 DEF ToSet
  <2>3. h \o w = h
    BY <1>2, <2>2, ConcatEmptySeq
  <2> QED BY <1>1, <1>2, <1>3, <1>4, <1>6, <2>3
<1>7. CASE ~(d = <<>> \/ d[1] \in ToSet(h))
  <2>1. Len(d) = 1 /\ 1 \in DOMAIN d /\ d[1] \in StepChange
    BY <1>7, OnlyOne
  <2>2. d[1] \in ToSet(w)
    BY <1>5, <1>7, <2>1 DEF ToSet
  <2>3. PICK k \in DOMAIN w : w[k] = d[1]
    BY <2>2 DEF ToSet
  <2>4. PICK g : g = <<d[1]>>
    OBVIOUS
  <2>5. g \in Seq(StepChange) /\ Len(g) = 1 /\ g[1] = d[1]
    BY <2>1, <2>4
  <2>6. Len(w) = 1 /\ k = 1
    BY <1>5, <2>1, <2>3
  <2>7. w = g
    <3>1. \A i \in 1 .. Len(w) : w[i] = g[i]
      BY <2>3, <2>5, <2>6
    <3> QED BY <1>5, <2>5, <2>6, <3>1, SeqEqual
  <2>8. Composed(s, d) = CollapseChain(h \o <<d[1]>>)
    BY <1>4, <2>4, <2>7
  <2> QED BY <1>1, <1>2, <1>7, <2>1, <2>8, OneToCompose
<1> QED BY <1>6, <1>7

(* One step more, at the end. *)
Ended(t, s, c) ==
  /\ t \in Seq(StepChange) /\ ToSet(t) = ToSet(s) \cup {c}
  /\ NamesIn(t) = NamesIn(s) \cup {c.name, c.to}
  /\ LeftIn(t) = LeftIn(s) \cup (IF Source(c) THEN {c.name} ELSE {})
  /\ CameTo(t) = CameTo(s) \cup (IF c.kind = "renamed" THEN {c.to} ELSE {})

(* A step that may follow: the name it brings was not used. *)
New(s, c) ==
  /\ c.kind \in {"renamed", "added"} => c.to \notin NamesIn(s)
  /\ c.kind = "renamed" => c.name # c.to
  /\ c.kind # "renamed" => c.name = c.to

LEMMA EndedWith ==
  ASSUME NEW s \in Seq(StepChange), NEW c \in StepChange
  PROVE  Ended(Append(s, c), s, c) /\ (Fresh(Append(s, c)) <=> Fresh(s) /\ New(s, c))
<1>1. PICK n, t : n = Len(s) /\ t = Append(s, c)
  OBVIOUS
<1>2. n \in Nat /\ t \in Seq(StepChange) /\ Len(t) = n + 1 /\ DOMAIN s = 1 .. n /\ DOMAIN t = 1 .. (n + 1)
      /\ t[n + 1] = c /\ \A j \in 1 .. n : t[j] = s[j]
  BY <1>1
<1>3. (\A j \in 1 .. (n + 1) : j = n + 1 \/ j \in 1 .. n) /\ n + 1 \in 1 .. (n + 1)
      /\ \A j \in 1 .. n : j \in 1 .. (n + 1) /\ j # n + 1 /\ j < n + 1 /\ ~(n + 1 < j)
  BY <1>2
<1>4. n \in 0 .. (Len(t) - 1)
  BY <1>2
<1>5. NamedBy(t, n) = NamesIn(s) /\ LeftBy(t, n) = LeftIn(s) /\ CameBy(t, n) = CameTo(s)
  <2>1. NamedBy(t, n) = NamesIn(s)
    BY <1>1, <1>2 DEF NamedBy, NamesIn
  <2>2. LeftBy(t, n) = LeftIn(s)
    BY <1>1, <1>2 DEF LeftBy, LeftIn
  <2>3. CameBy(t, n) = CameTo(s)
    BY <1>1, <1>2 DEF CameBy, CameTo
  <2> QED BY <2>1, <2>2, <2>3
<1>6. /\ NamesIn(t) = NamesIn(s) \cup {c.name, c.to}
      /\ LeftIn(t) = LeftIn(s) \cup (IF Source(c) THEN {c.name} ELSE {})
      /\ CameTo(t) = CameTo(s) \cup (IF c.kind = "renamed" THEN {c.to} ELSE {})
  <2>1. /\ NamedBy(t, n + 1) = NamedBy(t, n) \cup {t[n + 1].name, t[n + 1].to}
        /\ LeftBy(t, n + 1) = LeftBy(t, n) \cup (IF Source(t[n + 1]) THEN {t[n + 1].name} ELSE {})
        /\ CameBy(t, n + 1) = CameBy(t, n) \cup (IF t[n + 1].kind = "renamed" THEN {t[n + 1].to} ELSE {})
    BY <1>2, <1>4, OneMoreStep
  <2>2. NamesIn(t) = NamedBy(t, n + 1) /\ LeftIn(t) = LeftBy(t, n + 1) /\ CameTo(t) = CameBy(t, n + 1)
    BY <1>2 DEF NamesIn, LeftIn, CameTo
  <2> QED BY <1>2, <1>5, <2>1, <2>2
<1>7. ToSet(t) = ToSet(s) \cup {c}
  BY <1>2, <1>3 DEF ToSet
<1>8. FreshAt(t, n + 1) <=> New(s, c)
  <2>1. (\A i \in DOMAIN t : i < n + 1 => t[i].name # c.to /\ t[i].to # c.to) <=> c.to \notin NamesIn(s)
    <3>1. c.to \notin NamesIn(s) <=> \A i \in 1 .. n : t[i].name # c.to /\ t[i].to # c.to
      BY <1>5 DEF NamedBy
    <3>2. \A i \in DOMAIN t : i < n + 1 <=> i \in 1 .. n
      BY <1>2
    <3> QED BY <1>2, <1>3, <3>1, <3>2
  <2> QED BY <1>2, <2>1 DEF FreshAt, New
<1>9. \A j \in 1 .. n : FreshAt(t, j) <=> FreshAt(s, j)
  <2> SUFFICES ASSUME NEW j \in 1 .. n PROVE FreshAt(t, j) <=> FreshAt(s, j)
    OBVIOUS
  <2>1. t[j] = s[j] /\ ~(n + 1 < j)
    BY <1>2, <1>3
  <2>2. PICK b : b = s[j].to
    OBVIOUS
  <2>3. (\A i \in DOMAIN t : i < j => t[i].name # b /\ t[i].to # b) <=> (\A i \in DOMAIN s : i < j => s[i].name # b /\ s[i].to # b)
    BY <1>2, <1>3, <2>1
  <2> QED BY <2>1, <2>2, <2>3 DEF FreshAt
<1>10. Fresh(t) <=> Fresh(s) /\ New(s, c)
  BY <1>2, <1>3, <1>8, <1>9 DEF Fresh
<1> QED BY <1>1, <1>2, <1>6, <1>7, <1>10 DEF Ended

(* What is said is the line, or the line and the one change beside it. *)
LEMMA SaidIs ==
  ASSUME line \in Seq(StepChange), unfrozen \in Seq(StepChange), Len(unfrozen) <= 1
  PROVE  /\ unfrozen = <<>> => Said = line
         /\ unfrozen # <<>> => unfrozen[1] \in StepChange /\ Said = Append(line, unfrozen[1])
<1>1. CASE unfrozen = <<>>
  BY <1>1, ConcatEmptySeq DEF Said
<1>2. CASE unfrozen # <<>>
  <2>1. unfrozen[1] \in StepChange /\ unfrozen = <<unfrozen[1]>>
    BY <1>2, OnlyOne
  <2>2. PICK c : c = unfrozen[1]
    OBVIOUS
  <2>3. line \o <<c>> = Append(line, c)
    BY <2>1, <2>2, AppendIsConcat
  <2> QED BY <1>2, <2>1, <2>2, <2>3 DEF Said
<1> QED BY <1>1, <1>2

(* What a change may say of the fields, whoever's each name is. *)
Good(o) ==
  {c \in StepChange : (c.kind = "renamed" => o[c.name] = o[c.to]) /\ (c.kind = "removed" => o[c.name] \notin Living)}

LEMMA GoodLasts == ASSUME NEW o PROVE Lasting(Good(o))
<1>1. Good(o) \subseteq StepChange
  BY DEF Good
<1> SUFFICES ASSUME NEW b \in Good(o), NEW c \in Good(o), b.kind = "renamed", b.to = c.name
             PROVE  /\ c.kind = "renamed" => [b EXCEPT !.to = c.to] \in Good(o)
                    /\ c.kind # "renamed" => [c EXCEPT !.name = b.name] \in Good(o)
  BY <1>1 DEF Lasting
<1>2. b \in StepChange /\ c \in StepChange
  BY <1>1
<1>3. ASSUME c.kind = "renamed" PROVE [b EXCEPT !.to = c.to] \in Good(o)
  <2>1. PICK d : d = [b EXCEPT !.to = c.to]
    OBVIOUS
  <2>2. d \in StepChange /\ d.kind = "renamed" /\ d.name = b.name /\ d.to = c.to
    BY <1>2, <2>1 DEF StepChange
  <2>3. o[d.name] = o[d.to]
    BY <1>3, <2>2 DEF Good
  <2> QED BY <2>1, <2>2, <2>3 DEF Good
<1>4. ASSUME c.kind # "renamed" PROVE [c EXCEPT !.name = b.name] \in Good(o)
  <2>1. PICK d : d = [c EXCEPT !.name = b.name]
    OBVIOUS
  <2>2. d \in StepChange /\ d.kind = c.kind /\ d.name = b.name
    BY <1>2, <2>1 DEF StepChange
  <2>3. o[b.name] = o[c.name]
    BY DEF Good
  <2>4. d.kind = "removed" => o[d.name] \notin Living
    BY <2>2, <2>3 DEF Good
  <2> QED BY <1>4, <2>1, <2>2, <2>4 DEF Good
<1> QED BY <1>3, <1>4

(* What is held says where every field that is declared has gone. *)
Carries(h, o) ==
  /\ h \in Seq(StepChange)
  /\ \A c \in SourcesOf(h) : c.name \in LeftIn(Said)
  /\ \A c \in SourcesOf(h) : c.kind = "renamed" =>
       /\ c.to \in Used /\ o[c.name] = o[c.to]
       /\ o[c.to] \in Living => c.to \in Declared
       /\ \A d \in SourcesOf(h) : d.name # c.to
  /\ \A c \in SourcesOf(h) : c.kind = "removed" => o[c.name] \notin Living
  /\ \A a \in LeftIn(Said) : (a \notin CameTo(Said) /\ o[a] \in Living) => \E c \in SourcesOf(h) : c.name = a

LEMMA TellsCarries ==
  ASSUME NEW o, Owned(o), NEW h \in Seq(Good(o)), NEW Nm, NEW Lf, NEW Cm, Tells(h, Nm, Lf, Cm),
         Lf \subseteq LeftIn(Said), Nm \subseteq NamesIn(Said), Cm \subseteq CameTo(Said), Cm \subseteq Nm,
         \A a \in LeftIn(Said) : a \in Lf \/ o[a] \notin Living
  PROVE  Carries(h, o)
<1>1. h \in Seq(StepChange) /\ \A k \in DOMAIN h : h[k] \in Good(o)
  <2>1. DOMAIN h = 1 .. Len(h)
    OBVIOUS
  <2> QED BY <2>1, ElementOfSeq DEF Tells
<1>2. \A c : c \in SourcesOf(h) <=> \E k \in DOMAIN h : c = h[k] /\ Source(c)
  BY DEF SourcesOf, ToSet
<1>3. ASSUME NEW c \in SourcesOf(h) PROVE c.name \in LeftIn(Said)
  BY <1>2, <1>3 DEF Tells
<1>4. ASSUME NEW c \in SourcesOf(h), c.kind = "removed" PROVE o[c.name] \notin Living
  BY <1>1, <1>2, <1>4 DEF Good
<1>5. ASSUME NEW c \in SourcesOf(h), c.kind = "renamed"
      PROVE  /\ c.to \in Used /\ o[c.name] = o[c.to]
             /\ o[c.to] \in Living => c.to \in Declared
             /\ \A d \in SourcesOf(h) : d.name # c.to
  <2>1. PICK k \in DOMAIN h : c = h[k]
    BY <1>2, <1>5
  <2>2. c.to \in Cm /\ c.to \notin Lf /\ c.to \in Used
    BY <1>5, <2>1 DEF Tells, Used
  <2>3. o[c.name] = o[c.to]
    BY <1>1, <1>5, <2>1 DEF Good
  <2>4. o[c.to] \in Living => c.to \in Declared
    BY <2>2 DEF Owned
  <2>5. \A d \in SourcesOf(h) : d.name # c.to
    BY <1>2, <1>5, <2>1 DEF Tells, Settled
  <2> QED BY <2>2, <2>3, <2>4, <2>5
<1>6. ASSUME NEW a \in LeftIn(Said), a \notin CameTo(Said), o[a] \in Living
      PROVE  \E c \in SourcesOf(h) : c.name = a
  <2>1. PICK k \in DOMAIN h : Source(h[k]) /\ h[k].name = a
    BY <1>6 DEF Tells
  <2> QED BY <1>2, <2>1
<1> QED BY <1>1, <1>3, <1>4, <1>5, <1>6 DEF Carries

LEMMA ChainCarries ==
  ASSUME DiskTyped, Story, NEW o, Owned(o)
  PROVE  Carries(chain, o)
<1>1. PICK F : F = CollapseChain(line)
  OBVIOUS
<1>2. /\ line \in Seq(StepChange) /\ unfrozen \in Seq(StepChange) /\ previous \in Seq(StepChange)
      /\ Len(unfrozen) <= 1 /\ Fresh(Said) /\ Said \in Seq(StepChange)
  BY DEF DiskTyped, Story, Said
<1>3. Fresh(line)
  <2>1. CASE unfrozen = <<>>
    BY <1>2, <2>1, SaidIs
  <2>2. CASE unfrozen # <<>>
    BY <1>2, <2>2, SaidIs, EndedWith
  <2> QED BY <2>1, <2>2
<1>4. Tells(F, NamesIn(line), LeftIn(line), CameTo(line))
  BY <1>1, <1>2, <1>3, CollapseTells DEF Told, NamesIn, LeftIn, CameTo
<1>5. LeftIn(line) \subseteq NamesIn(line) /\ CameTo(line) \subseteq NamesIn(line)
  BY DEF NamesIn, LeftIn, CameTo, LeftBy, CameBy, NamedBy
<1>6. \A c \in ToSet(Said) : c \in Good(o)
  <2>1. \A c \in ToSet(Said) : c \in StepChange
    BY <1>2 DEF ToSet
  <2> QED BY <2>1 DEF Owned, Good
<1>7. F \in Seq(Good(o)) /\ Lasting(Good(o))
  <2>1. \A i \in 1 .. Len(line) : line[i] \in ToSet(line) /\ line[i] \in StepChange
    BY <1>2 DEF ToSet
  <2>2. ToSet(line) \subseteq ToSet(Said)
    <3>1. CASE unfrozen = <<>>
      BY <1>2, <3>1, SaidIs
    <3>2. CASE unfrozen # <<>>
      <4>1. PICK c : c = unfrozen[1]
        OBVIOUS
      <4>2. c \in StepChange /\ Said = Append(line, c)
        BY <1>2, <3>2, <4>1, SaidIs
      <4>3. Ended(Said, line, c)
        BY <1>2, <4>2, EndedWith
      <4> QED BY <4>3 DEF Ended
    <3> QED BY <3>1, <3>2
  <2>3. PICK G : G = Good(o)
    OBVIOUS
  <2>4. line \in Seq(G)
    <3>1. \A i \in 1 .. Len(line) : line[i] \in G
      BY <1>6, <2>1, <2>2, <2>3
    <3> QED BY <1>2, <3>1
  <2>5. Lasting(G)
    BY <2>3, GoodLasts
  <2> QED BY <1>1, <2>3, <2>4, <2>5, CollapseWithin
<1>8. previous # <<>> => /\ previous[1] \in StepChange /\ previous[1].kind = "renamed" /\ previous[1].to \in Declared
                         /\ previous[1] \in ToSet(Said) /\ Len(previous) <= 1
  <2> SUFFICES ASSUME previous # <<>>
               PROVE  /\ previous[1] \in StepChange /\ previous[1].kind = "renamed" /\ previous[1].to \in Declared
                      /\ previous[1] \in ToSet(Said) /\ Len(previous) <= 1
    OBVIOUS
  <2>1. Len(previous) = 1 /\ previous[1].kind = "renamed" /\ previous[1].to \in Declared
    BY DEF Story
  <2>2. \E i \in DOMAIN Said : Said[i] = previous[1]
    BY DEF Story
  <2>3. previous[1] \in StepChange
    BY <1>2, <2>1, OnlyOne
  <2> QED BY <2>1, <2>2, <2>3 DEF ToSet
<1>9. Len(previous) <= 1
  BY <1>8
<1>10. /\ chain = Composed(line, previous)
       /\ chain = IF previous = <<>> \/ previous[1] \in ToSet(F) THEN F ELSE Compose(F, previous[1])
  <2>1. chain = Composed(line, previous)
    BY DEF Story
  <2> QED BY <1>1, <1>2, <1>3, <1>9, <2>1, ComposedIs
<1>11. CASE unfrozen # <<>> /\ unfrozen[1].kind = "renamed"
  <2>1. PICK p : p = unfrozen[1]
    OBVIOUS
  <2>2. p \in StepChange /\ p.kind = "renamed" /\ previous # <<>> /\ previous[1] = p /\ Said = Append(line, p)
    BY <1>2, <1>11, <2>1, SaidIs DEF Story
  <2>3. Ended(Said, line, p) /\ New(line, p)
    BY <1>2, <2>2, EndedWith
  <2>4. p \notin ToSet(F)
    <3>1. SUFFICES ASSUME NEW k \in DOMAIN F, F[k] = p PROVE FALSE
      BY DEF ToSet
    <3>2. p.to \in CameTo(line)
      BY <1>4, <2>2, <3>1 DEF Tells
    <3> QED BY <1>5, <2>2, <2>3, <3>2 DEF New
  <2>5. chain = Compose(F, p)
    BY <1>10, <2>2, <2>4
  <2>6. PICK Nm, Lf, Cm : Nm = NamesIn(line) /\ Lf = LeftIn(line) /\ Cm = CameTo(line)
    OBVIOUS
  <2>7. PICK Nm2, Lf2, Cm2 : Nm2 = NamesIn(Said) /\ Lf2 = LeftIn(Said) /\ Cm2 = CameTo(Said)
    OBVIOUS
  <2>8. Tells(Compose(F, p), Nm2, Lf2, Cm2)
    <3>1. Tells(F, Nm, Lf, Cm) /\ Lf \subseteq Nm /\ Cm \subseteq Nm
      BY <1>4, <1>5, <2>6
    <3>2. /\ Nm2 = Nm \cup {p.name, p.to}
          /\ Lf2 = Lf \cup (IF Source(p) THEN {p.name} ELSE {})
          /\ Cm2 = Cm \cup (IF p.kind = "renamed" THEN {p.to} ELSE {})
      BY <2>3, <2>6, <2>7 DEF Ended
    <3>3. (p.kind \in {"renamed", "added"} => p.to \notin Nm) /\ (p.kind = "renamed" => p.name # p.to)
      BY <2>3, <2>6 DEF New
    <3> QED BY <2>2, <3>1, <3>2, <3>3, TellsGoesOn
  <2>9. chain \in Seq(Good(o))
    <3>1. p \in Good(o)
      BY <1>6, <2>3 DEF Ended
    <3> QED BY <1>7, <2>5, <3>1, ComposeWithin
  <2>10. Cm2 \subseteq Nm2
    BY <1>5, <2>3, <2>7 DEF Ended
  <2> QED BY <2>5, <2>7, <2>8, <2>9, <2>10, TellsCarries
<1>12. ASSUME ~(unfrozen # <<>> /\ unfrozen[1].kind = "renamed")
       PROVE  /\ LeftIn(line) \subseteq LeftIn(Said) /\ NamesIn(line) \subseteq NamesIn(Said) /\ CameTo(line) \subseteq CameTo(Said)
              /\ \A a \in LeftIn(Said) : a \in LeftIn(line) \/ o[a] \notin Living
              /\ \A c \in ToSet(Said) : c.kind = "renamed" => c \in ToSet(line)
  <2>1. CASE unfrozen = <<>>
    BY <1>2, <2>1, SaidIs
  <2>2. CASE unfrozen # <<>>
    <3>1. PICK p : p = unfrozen[1]
      OBVIOUS
    <3>2. p.kind # "renamed" /\ Ended(Said, line, p)
      BY <1>2, <1>12, <2>2, <3>1, SaidIs, EndedWith
    <3>3. p \in ToSet(Said) /\ (p.kind = "removed" => o[p.name] \notin Living)
      BY <3>2 DEF Ended, Owned
    <3> QED BY <3>2, <3>3 DEF Ended, Source
  <2> QED BY <2>1, <2>2
<1>13. ASSUME ~(unfrozen # <<>> /\ unfrozen[1].kind = "renamed")
       PROVE  Carries(F, o)
  <2>1. PICK Nm, Lf, Cm : Nm = NamesIn(line) /\ Lf = LeftIn(line) /\ Cm = CameTo(line)
    OBVIOUS
  <2>2. Tells(F, Nm, Lf, Cm) /\ Lf \subseteq LeftIn(Said) /\ Nm \subseteq NamesIn(Said) /\ Cm \subseteq CameTo(Said) /\ Cm \subseteq Nm
        /\ \A a \in LeftIn(Said) : a \in Lf \/ o[a] \notin Living
    BY <1>4, <1>5, <1>12, <1>13, <2>1
  <2> QED BY <1>7, <2>2, TellsCarries
<1>14. CASE ~(unfrozen # <<>> /\ unfrozen[1].kind = "renamed") /\ chain = F
  BY <1>13, <1>14
<1>15. CASE ~(unfrozen # <<>> /\ unfrozen[1].kind = "renamed") /\ chain # F
  <2>1. PICK p : p = previous[1]
    OBVIOUS
  <2>2. previous # <<>> /\ p \notin ToSet(F) /\ chain = Compose(F, p)
    BY <1>10, <1>15, <2>1
  <2>3. p \in StepChange /\ p.kind = "renamed" /\ p.to \in Declared /\ p \in ToSet(line) /\ p \in ToSet(Said)
    BY <1>8, <1>12, <1>15, <2>1, <2>2
  <2>4. p.name \in LeftIn(line) /\ p.to \notin LeftIn(Said)
    <3>1. p.to \notin LeftIn(Said)
      BY <2>3 DEF Story
    <3>2. PICK i \in DOMAIN line : line[i] = p
      BY <2>3 DEF ToSet
    <3>3. i \in 1 .. Len(line)
      BY <1>2
    <3> QED BY <2>3, <3>1, <3>2, <3>3 DEF LeftIn, LeftBy, Source
  <2>5. F \in Seq(StepChange) /\ \A k \in DOMAIN F : ~ Brought(F, k, p)
    BY <1>4, <2>4 DEF Tells, Brought
  <2>6. chain = Append(F, p)
    BY <2>2, <2>3, <2>5, ComposeIs DEF Composing
  <2>7. SourcesOf(chain) = SourcesOf(F) \cup {p}
    <3>1. ToSet(chain) = ToSet(F) \cup {p}
      BY <2>3, <2>5, <2>6, EndedWith DEF Ended
    <3> QED BY <2>3, <3>1 DEF SourcesOf, Source
  <2>8. Carries(F, o)
    BY <1>13, <1>15
  <2>9. p.name \in LeftIn(Said) /\ p.to \in Used /\ o[p.name] = o[p.to]
    BY <1>12, <1>15, <2>3, <2>4 DEF Used, Owned
  <2>10. \A c \in SourcesOf(F) : (c.kind = "renamed" => c.to # p.name) /\ c.name # p.to
    <3>1. \A c \in SourcesOf(F) : c.name \in LeftIn(Said)
      BY <2>8 DEF Carries
    <3>2. \A c \in SourcesOf(F) : \E k \in DOMAIN F : F[k] = c
      BY DEF SourcesOf, ToSet
    <3> QED BY <2>4, <2>5, <3>1, <3>2 DEF Brought
  <2>11. p.name # p.to
    BY <2>4, <2>9
  <2>12. chain \in Seq(StepChange)
    BY <2>3, <2>5, <2>6
  <2>13. \A c \in SourcesOf(chain) : c.name \in LeftIn(Said)
    BY <2>7, <2>8, <2>9 DEF Carries
  <2>14. ASSUME NEW c \in SourcesOf(chain), c.kind = "renamed"
         PROVE  /\ c.to \in Used /\ o[c.name] = o[c.to]
                /\ o[c.to] \in Living => c.to \in Declared
                /\ \A d \in SourcesOf(chain) : d.name # c.to
    BY <2>3, <2>7, <2>8, <2>9, <2>10, <2>11, <2>14 DEF Carries
  <2>15. \A c \in SourcesOf(chain) : c.kind = "removed" => o[c.name] \notin Living
    BY <2>3, <2>7, <2>8 DEF Carries
  <2>16. \A a \in LeftIn(Said) : (a \notin CameTo(Said) /\ o[a] \in Living) => \E c \in SourcesOf(chain) : c.name = a
    BY <2>7, <2>8 DEF Carries
  <2> QED BY <2>12, <2>13, <2>14, <2>15, <2>16 DEF Carries
<1> QED BY <1>11, <1>14, <1>15

-----------------------------------------------------------------------------
LEMMA MigrateStarts == MigrateInit => MigrateInv
<1> SUFFICES ASSUME MigrateInit PROVE MigrateInv
  OBVIOUS
<1>1. First \in Names
  BY FirstIsAName
<1>2. /\ shape = [n \in Names |-> IF n = First THEN 1 ELSE 0]
      /\ born = 1 /\ line = <<>> /\ unfrozen = <<>> /\ previous = <<>> /\ chain = <<>>
      /\ column = [n \in Names |-> {}] /\ there = {} /\ written = {}
      /\ stage = [m \in Migrators |-> "idle"] /\ plan = [m \in Migrators |-> <<>>] /\ lacks = [m \in Migrators |-> {}]
      /\ stranded = FALSE
  BY DEF MigrateInit
<1>3. Declared = {First} /\ shape[First] = 1 /\ Living = {1}
  BY <1>1, <1>2 DEF Declared, Living
<1>4. PICK e : e = <<>>
  OBVIOUS
<1>5. e \in Seq(StepChange) /\ Len(e) = 0 /\ DOMAIN e = {} /\ ToSet(e) = {}
  BY <1>4 DEF ToSet
<1>6. Said = e
  BY <1>2, <1>4, <1>5, ConcatEmptySeq DEF Said
<1>7. NamesIn(e) = {} /\ LeftIn(e) = {} /\ Fresh(e)
  BY <1>5 DEF NamesIn, LeftIn, NamedBy, LeftBy, Fresh
<1>8. DiskTyped
  BY <1>1, <1>2, <1>4, <1>5 DEF DiskTyped
<1>9. chain = Composed(line, previous)
  <2>1. CollapseChain(e) = e
    BY <1>5, NothingToCompose DEF Settled
  <2>2. Composed(e, e) = e
    <3>1. Len(e) <= 1 /\ e = <<>>
      BY <1>4, <1>5
    <3>2. Composed(e, e) = IF e = <<>> \/ e[1] \in ToSet(CollapseChain(e)) THEN CollapseChain(e) ELSE Compose(CollapseChain(e), e[1])
      BY <1>5, <1>7, <3>1, ComposedIs
    <3> QED BY <2>1, <3>1, <3>2
  <2> QED BY <1>2, <1>4, <2>2
<1>10. Story
  BY <1>1, <1>2, <1>3, <1>4, <1>5, <1>6, <1>7, <1>9 DEF Story, Used
<1>11. Tables /\ Running /\ AtRest
  BY <1>2 DEF Tables, Running, AtRest
<1>12. PICK o : o = shape
  OBVIOUS
<1>13. o \in [Names -> Nat] /\ Owned(o)
  BY <1>1, <1>2, <1>3, <1>5, <1>6, <1>7, <1>12 DEF Owned, Used
<1>14. Single(o)
  BY <1>2, <1>11 DEF Single
<1> QED BY <1>8, <1>10, <1>11, <1>13, <1>14 DEF MigrateInv

(* What the actions on the disk leave alone, and what it takes to add a    *)
(* change to it.                                                           *)
LEMMA AnEdit ==
  ASSUME MigrateInv, NEW c \in StepChange, NEW sh \in [Names -> Nat], Edits(c, sh), New(line, c),
         born' \in Nat, born <= born', previous' \in Seq(StepChange),
         Story', NEW o \in [Names -> Nat], Owned(o)', Used \subseteq Used',
         \A k \in there : \A j \in there : (o[k] = o[j] /\ o[k] \in Living') => stranded \/ k = j,
         \A n \in Declared' : shape'[n] \in written => \E k \in Names : shape'[n] \in column[k]
  PROVE  MigrateInv'
<1>1. /\ UNCHANGED <<line, column, there, written, stage, plan, lacks, stranded>> /\ AtRest /\ AtRest'
      /\ shape' = sh /\ unfrozen' = <<c>>
  BY DEF Edits, table, AtRest
<1>2. DiskTyped /\ Tables /\ Running
  BY DEF MigrateInv
<1>3. unfrozen' \in Seq(StepChange)
  <2>1. PICK g : g = <<c>>
    OBVIOUS
  <2>2. g \in Seq(StepChange)
    BY <2>1
  <2> QED BY <1>1, <2>1, <2>2
<1>4. DiskTyped'
  BY <1>1, <1>2, <1>3 DEF DiskTyped
<1>5. Tables'
  <2>1. there' \subseteq Used' /\ \A n \in Names \ there' : column'[n] = {}
    BY <1>1, <1>2 DEF Tables
  <2>2. \A f \in written' : f <= born'
    <3>1. \A f \in written : f \in Nat /\ f <= born /\ born \in Nat
      BY <1>2 DEF Tables, DiskTyped
    <3> QED BY <1>1, <3>1
  <2> QED BY <1>1, <2>1, <2>2 DEF Tables
<1>6. Running'
  BY <1>1 DEF Running, AtRest
<1>7. Single(o)'
  BY <1>1 DEF Single
<1> QED BY <1>4, <1>5, <1>6, <1>7 DEF MigrateInv

(* What an edit does to what is said. *)
LEMMA EditSays ==
  ASSUME DiskTyped, Story, NEW c \in StepChange, NEW sh, Edits(c, sh), New(line, c)
  PROVE  /\ Said = line /\ Ended(Said', Said, c) /\ Fresh(Said') /\ Len(unfrozen') = 1 /\ unfrozen'[1] = c /\ unfrozen' # <<>>
         /\ shape' = sh /\ line' = line /\ column' = column /\ there' = there
<1>1. unfrozen = <<>> /\ unfrozen' = <<c>> /\ shape' = sh /\ line' = line /\ column' = column /\ there' = there
  BY DEF Edits, table
<1>2. line \in Seq(StepChange) /\ Fresh(Said) /\ Said = line
  BY <1>1, SaidIs DEF DiskTyped, Story
<1>3. Said' = Append(line, c)
  BY <1>1, <1>2, AppendIsConcat DEF Said
<1>4. PICK g : g = <<c>>
  OBVIOUS
<1>5. Len(g) = 1 /\ g[1] = c /\ g # <<>>
  BY <1>4
<1> QED BY <1>1, <1>2, <1>3, <1>4, <1>5, EndedWith

LEMMA StoryGoesOn ==
  ASSUME DiskTyped, Story, NEW c \in StepChange, NEW sh, Edits(c, sh), New(line, c), chain' = Composed(line', previous'),
         First \in Used',
         \A n \in Declared' : n \notin LeftIn(Said) /\ (Source(c) => n # c.name),
         \A n \in Declared' : \A k \in Declared' : shape'[n] = shape'[k] => n = k,
         c.kind = "renamed" => previous' = <<c>>,
         previous' # <<>> => /\ Len(previous') = 1 /\ previous'[1].kind = "renamed" /\ previous'[1].to \in Declared'
                             /\ previous'[1] \in ToSet(Said) \cup {c}
  PROVE  Story'
<1>1. Ended(Said', Said, c) /\ Fresh(Said') /\ Len(unfrozen') = 1 /\ unfrozen'[1] = c /\ unfrozen' = <<c>>
  BY EditSays DEF Edits
<1>2. \A n \in Declared' : n \notin LeftIn(Said')
  BY <1>1 DEF Ended
<1>3. previous' # <<>> => \E i \in DOMAIN Said' : Said'[i] = previous'[1]
  <2>1. ToSet(Said') = ToSet(Said) \cup {c}
    BY <1>1 DEF Ended
  <2> QED BY <2>1 DEF ToSet
<1>4. Len(unfrozen') <= 1
  BY <1>1
<1>5. (unfrozen' # <<>> /\ unfrozen'[1].kind = "renamed") => previous' = unfrozen'
  BY <1>1
<1>6. First \in Used' /\ Fresh(Said') /\ chain' = Composed(line', previous')
      /\ \A n, k \in Declared' : shape'[n] = shape'[k] => n = k
  BY <1>1
<1>7. previous' # <<>> => /\ Len(previous') = 1 /\ previous'[1].kind = "renamed" /\ previous'[1].to \in Declared'
                          /\ \E i \in DOMAIN Said' : Said'[i] = previous'[1]
  BY <1>3
<1> QED BY <1>2, <1>4, <1>5, <1>6, <1>7 DEF Story

LEMMA RenamesKeeps ==
  ASSUME MigrateInv, ~NamesReturn, Renames
  PROVE  MigrateInv'
<1>1. DiskTyped /\ Story /\ Tables
  BY DEF MigrateInv
<1>2. PICK o \in [Names -> Nat] : Owned(o) /\ Single(o)
  BY DEF MigrateInv
<1>3. PICK n \in Declared, to \in Usable :
        /\ Edits([kind |-> "renamed", name |-> n, to |-> to], [shape EXCEPT ![n] = 0, ![to] = shape[n]])
        /\ previous' = <<[kind |-> "renamed", name |-> n, to |-> to]>>
        /\ chain' = Composed(line, <<[kind |-> "renamed", name |-> n, to |-> to]>>)
        /\ born' = born
  BY DEF Renames
<1>4. PICK c, sh : c = [kind |-> "renamed", name |-> n, to |-> to] /\ sh = [shape EXCEPT ![n] = 0, ![to] = shape[n]]
  OBVIOUS
<1>5. Edits(c, sh) /\ previous' = <<c>> /\ chain' = Composed(line, previous') /\ born' = born
  BY <1>3, <1>4
<1>6. n \in Names /\ to \in Names /\ shape[n] # 0 /\ to \notin Declared /\ to \notin NamesIn(line)
  <2>1. \A i : i \in DOMAIN line <=> i \in 1 .. Len(line)
    BY <1>1 DEF DiskTyped
  <2>2. to \in Names \ Named
    BY <1>3 DEF Usable
  <2> QED BY <2>1, <2>2 DEF Declared, Named, NamesIn, NamedBy
<1>7. c \in StepChange /\ c.kind = "renamed" /\ c.name = n /\ c.to = to /\ n # to /\ Source(c)
  BY <1>4, <1>6 DEF StepChange, Kinds, Source, Declared
<1>8. New(line, c)
  BY <1>6, <1>7 DEF New
<1>9. shape \in [Names -> Nat] /\ sh \in [Names -> Nat] /\ sh[n] = 0 /\ sh[to] = shape[n] /\ shape[to] = 0
      /\ \A k \in Names : k # n /\ k # to => sh[k] = shape[k]
  BY <1>1, <1>4, <1>6, <1>7 DEF DiskTyped, Declared
<1>10. /\ Said = line /\ Ended(Said', Said, c) /\ shape' = sh /\ column' = column /\ there' = there /\ line' = line
  BY <1>1, <1>5, <1>7, <1>8, EditSays
<1>11. Declared' = (Declared \ {n}) \cup {to} /\ Living' = Living
  <2>1. Declared' = (Declared \ {n}) \cup {to}
    BY <1>6, <1>7, <1>9, <1>10 DEF Declared
  <2>2. \A k \in Declared : \E l \in Declared' : shape'[l] = shape[k]
    <3>1. ASSUME NEW k \in Declared, k # n PROVE k \in Declared' /\ shape'[k] = shape[k]
      BY <1>6, <1>9, <1>10, <2>1, <3>1 DEF Declared
    <3>2. to \in Declared' /\ shape'[to] = shape[n]
      BY <1>9, <1>10, <2>1
    <3> QED BY <3>1, <3>2
  <2>3. \A l \in Declared' : \E k \in Declared : shape'[l] = shape[k]
    <3>1. ASSUME NEW l \in Declared', l # to PROVE l \in Declared /\ shape'[l] = shape[l]
      BY <1>6, <1>9, <1>10, <2>1, <3>1 DEF Declared
    <3>2. shape'[to] = shape[n] /\ n \in Declared
      BY <1>9, <1>10
    <3> QED BY <3>1, <3>2
  <2>4. Living' = {shape'[l] : l \in Declared'}
    BY DEF Living
  <2> QED BY <2>1, <2>2, <2>3, <2>4 DEF Living
<1>12. Used' = Used \cup {to} /\ to \notin Used /\ LeftIn(Said') = LeftIn(Said) \cup {n} /\ to \notin LeftIn(Said) /\ n \in Used
  <2>1. Used' = Declared' \cup NamesIn(Said') /\ NamesIn(Said') = NamesIn(Said) \cup {n, to} /\ LeftIn(Said') = LeftIn(Said) \cup {n}
    BY <1>7, <1>10 DEF Used, Ended
  <2>2. LeftIn(Said) \subseteq NamesIn(Said)
    BY DEF LeftIn, NamesIn, LeftBy, NamedBy
  <2> QED BY <1>6, <1>10, <1>11, <2>1, <2>2 DEF Used
<1>13. PICK p : p = [o EXCEPT ![to] = shape[n]]
  OBVIOUS
<1>14. p \in [Names -> Nat] /\ p[to] = shape[n] /\ o[n] = shape[n] /\ \A k \in Names : k # to => p[k] = o[k]
  BY <1>2, <1>3, <1>6, <1>9, <1>13 DEF Owned
<1>15. Used \subseteq Names /\ ToSet(Said) \subseteq StepChange /\ \A d \in ToSet(Said) : d.name \in Used /\ d.to \in Used
  <2>1. Said \in Seq(StepChange) /\ DOMAIN Said = 1 .. Len(Said)
    BY <1>1, <1>10 DEF DiskTyped
  <2>2. \A i \in 1 .. Len(Said) : Said[i] \in StepChange /\ Said[i].name \in Names /\ Said[i].to \in Names
    <3>1. \A i \in 1 .. Len(Said) : Said[i] \in StepChange
      BY <2>1, ElementOfSeq
    <3> QED BY <3>1 DEF StepChange
  <2> QED BY <2>1, <2>2 DEF Used, NamesIn, NamedBy, Declared, ToSet
<1>16. Owned(p)'
  <2>1. \A k \in Declared' : p[k] = shape'[k]
    BY <1>2, <1>6, <1>9, <1>10, <1>11, <1>14 DEF Owned, Declared
  <2>2. \A k \in Names : column'[k] \subseteq {p[k]}
    <3>1. to \notin there
      BY <1>1, <1>12 DEF Tables
    <3>2. column[to] = {}
      BY <1>1, <1>6, <3>1 DEF Tables
    <3> QED BY <1>2, <1>10, <1>14, <3>2 DEF Owned
  <2>3. ASSUME NEW d \in ToSet(Said')
        PROVE  (d.kind = "renamed" => p[d.name] = p[d.to]) /\ (d.kind = "removed" => p[d.name] \notin Living')
    <3>1. CASE d = c
      BY <1>6, <1>7, <1>14, <3>1
    <3>2. CASE d # c
      <4>1. d \in ToSet(Said)
        BY <1>10, <2>3, <3>2 DEF Ended
      <4>2. d.name \in Names /\ d.name # to /\ d.to \in Names /\ d.to # to
        BY <1>12, <1>15, <4>1
      <4> QED BY <1>2, <1>11, <1>14, <4>1, <4>2 DEF Owned
    <3> QED BY <3>1, <3>2
  <2>4. ASSUME NEW z \in Used'
        PROVE  p[z] <= born' /\ (p[z] \in Living' => z \in Declared' \/ z \in LeftIn(Said'))
    <3>1. CASE z = to
      <4>1. o[n] <= born
        BY <1>2, <1>12 DEF Owned
      <4> QED BY <1>5, <1>11, <1>14, <3>1, <4>1
    <3>2. CASE z # to
      <4>1. z \in Used /\ z \in Names /\ p[z] = o[z]
        BY <1>12, <1>14, <1>15, <2>4, <3>2
      <4> QED BY <1>2, <1>5, <1>11, <1>12, <4>1 DEF Owned
    <3> QED BY <3>1, <3>2
  <2> QED BY <2>1, <2>2, <2>3, <2>4 DEF Owned
<1>17. previous' \in Seq(StepChange) /\ Len(previous') = 1 /\ previous'[1] = c /\ born' \in Nat /\ born <= born'
  <2>1. PICK g : g = <<c>>
    OBVIOUS
  <2>2. g \in Seq(StepChange) /\ Len(g) = 1 /\ g[1] = c
    BY <1>7, <2>1
  <2> QED BY <1>1, <1>5, <2>1, <2>2 DEF DiskTyped
<1>18. Story'
  <2>1. First \in Used'
    BY <1>1, <1>12 DEF Story
  <2>2. \A k \in Declared' : k \notin LeftIn(Said) /\ (Source(c) => k # c.name)
    BY <1>1, <1>7, <1>11, <1>12 DEF Story
  <2>3. \A k \in Declared' : \A l \in Declared' : shape'[k] = shape'[l] => k = l
    <3>1. \A k \in Declared' : k = to \/ (k \in Declared /\ k # n /\ shape'[k] = shape[k])
      BY <1>6, <1>9, <1>10, <1>11 DEF Declared
    <3>2. shape'[to] = shape[n] /\ n \in Declared
      BY <1>3, <1>9, <1>10
    <3>3. \A k \in Declared : \A l \in Declared : shape[k] = shape[l] => k = l
      BY <1>1 DEF Story
    <3> QED BY <3>1, <3>2, <3>3
  <2>4. chain' = Composed(line', previous')
    BY <1>5, <1>10
  <2> QED BY <1>1, <1>5, <1>7, <1>8, <1>11, <1>17, <2>1, <2>2, <2>3, <2>4, StoryGoesOn
<1>19. \A k \in there : \A j \in there : (p[k] = p[j] /\ p[k] \in Living') => stranded \/ k = j
  <2>1. there \subseteq Used
    BY <1>1 DEF Tables
  <2>2. \A k \in there : p[k] = o[k]
    BY <1>12, <1>14, <1>15, <2>1
  <2> QED BY <1>2, <1>11, <2>2 DEF Single
<1>20. \A k \in Declared' : shape'[k] \in written => \E j \in Names : shape'[k] \in column[j]
  BY <1>1, <1>3, <1>6, <1>9, <1>10, <1>11 DEF Tables, Declared
<1> QED BY <1>5, <1>7, <1>8, <1>9, <1>12, <1>14, <1>16, <1>17, <1>18, <1>19, <1>20, AnEdit

LEMMA SaidOfNames ==
  ASSUME DiskTyped
  PROVE  /\ Used \subseteq Names /\ LeftIn(Said) \subseteq NamesIn(Said)
         /\ \A d \in ToSet(Said) : d \in StepChange /\ d.name \in Used /\ d.to \in Used
<1>1. Said \in Seq(StepChange) /\ DOMAIN Said = 1 .. Len(Said)
  BY DEF DiskTyped, Said
<1>2. \A i \in 1 .. Len(Said) : Said[i] \in StepChange /\ Said[i].name \in Names /\ Said[i].to \in Names
  <2>1. \A i \in 1 .. Len(Said) : Said[i] \in StepChange
    BY <1>1, ElementOfSeq
  <2> QED BY <2>1 DEF StepChange
<1>3. LeftIn(Said) \subseteq NamesIn(Said)
  BY DEF LeftIn, NamesIn, LeftBy, NamedBy
<1> QED BY <1>1, <1>2, <1>3 DEF Used, NamesIn, NamedBy, Declared, ToSet

LEMMA RemovesKeeps ==
  ASSUME MigrateInv, Removes
  PROVE  MigrateInv'
<1>1. DiskTyped /\ Story /\ Tables
  BY DEF MigrateInv
<1>2. PICK o \in [Names -> Nat] : Owned(o) /\ Single(o)
  BY DEF MigrateInv
<1>3. PICK n \in Declared :
        /\ Edits([kind |-> "removed", name |-> n, to |-> n], [shape EXCEPT ![n] = 0])
        /\ previous' = Without(previous, {p \in ToSet(previous) : p.to = n})
        /\ chain' = Composed(line, previous')
        /\ born' = born
  BY DEF Removes
<1>4. PICK c, sh, W : c = [kind |-> "removed", name |-> n, to |-> n] /\ sh = [shape EXCEPT ![n] = 0]
                      /\ W = {p \in ToSet(previous) : p.to = n}
  OBVIOUS
<1>5. Edits(c, sh) /\ previous' = Without(previous, W) /\ chain' = Composed(line, previous') /\ born' = born
  BY <1>3, <1>4
<1>6. n \in Names /\ shape[n] # 0 /\ n \in Used
  BY <1>3 DEF Declared, Used
<1>7. c \in StepChange /\ c.kind = "removed" /\ c.name = n /\ c.to = n /\ Source(c)
  BY <1>4, <1>6 DEF StepChange, Kinds, Source
<1>8. New(line, c)
  BY <1>7 DEF New
<1>9. shape \in [Names -> Nat] /\ sh \in [Names -> Nat] /\ sh[n] = 0 /\ \A k \in Names : k # n => sh[k] = shape[k]
  BY <1>1, <1>4, <1>6 DEF DiskTyped
<1>10. Said = line /\ Ended(Said', Said, c) /\ shape' = sh /\ column' = column /\ there' = there /\ line' = line
  BY <1>1, <1>5, <1>7, <1>8, EditSays
<1>11. Declared' = Declared \ {n} /\ \A k \in Declared' : k \in Declared /\ k # n /\ shape'[k] = shape[k]
  BY <1>6, <1>9, <1>10 DEF Declared
<1>12. Living' \subseteq Living /\ shape[n] \notin Living' /\ o[n] = shape[n]
  <2>1. Living' = {shape'[k] : k \in Declared'}
    BY DEF Living
  <2>2. \A k \in Declared' : shape[k] # shape[n]
    BY <1>1, <1>3, <1>11 DEF Story
  <2> QED BY <1>2, <1>3, <1>11, <2>1, <2>2 DEF Living, Owned
<1>13. Used' = Used /\ LeftIn(Said') = LeftIn(Said) \cup {n}
  <2>1. NamesIn(Said') = NamesIn(Said) \cup {n} /\ LeftIn(Said') = LeftIn(Said) \cup {n}
    BY <1>7, <1>10 DEF Ended
  <2>2. Used' = Declared' \cup NamesIn(Said')
    BY DEF Used
  <2> QED BY <1>6, <1>11, <2>1, <2>2 DEF Used
<1>14. Owned(o)'
  <2>1. \A k \in Declared' : o[k] = shape'[k]
    BY <1>2, <1>11 DEF Owned
  <2>2. \A k \in Names : column'[k] \subseteq {o[k]}
    BY <1>2, <1>10 DEF Owned
  <2>3. ASSUME NEW d \in ToSet(Said')
        PROVE  (d.kind = "renamed" => o[d.name] = o[d.to]) /\ (d.kind = "removed" => o[d.name] \notin Living')
    <3>1. d = c \/ d \in ToSet(Said)
      BY <1>10, <2>3 DEF Ended
    <3>2. CASE d = c
      BY <1>7, <1>12, <3>2
    <3>3. CASE d \in ToSet(Said)
      BY <1>2, <1>12, <3>3 DEF Owned
    <3> QED BY <3>1, <3>2, <3>3
  <2>4. ASSUME NEW z \in Used'
        PROVE  o[z] <= born' /\ (o[z] \in Living' => z \in Declared' \/ z \in LeftIn(Said'))
    BY <1>2, <1>5, <1>11, <1>12, <1>13 DEF Owned
  <2> QED BY <2>1, <2>2, <2>3, <2>4 DEF Owned
<1>15. previous' \in Seq(StepChange) /\ Len(previous') <= Len(previous) /\ ToSet(previous') = ToSet(previous) \ W
  BY <1>1, <1>5, WithoutIsLess DEF DiskTyped
<1>16. previous' # <<>> => /\ Len(previous') = 1 /\ previous'[1].kind = "renamed" /\ previous'[1].to \in Declared'
                           /\ previous'[1] \in ToSet(Said) \cup {c}
  <2> SUFFICES ASSUME previous' # <<>>
               PROVE  /\ Len(previous') = 1 /\ previous'[1].kind = "renamed" /\ previous'[1].to \in Declared'
                      /\ previous'[1] \in ToSet(Said) \cup {c}
    OBVIOUS
  <2>1. PICK r : r = previous'
    OBVIOUS
  <2>2. r \in Seq(StepChange) /\ r # <<>> /\ Len(r) <= Len(previous)
    BY <1>15, <2>1
  <2>3. previous # <<>>
    <3>1. Len(r) # 0 /\ Len(r) \in Nat
      BY <2>2
    <3> QED BY <2>2, <3>1
  <2>4. Len(previous) = 1 /\ previous[1].kind = "renamed" /\ previous[1].to \in Declared /\ previous[1] \in ToSet(Said)
    BY <1>1, <2>3 DEF Story, ToSet
  <2>5. Len(r) = 1 /\ ToSet(r) = {r[1]}
    <3>1. Len(r) <= 1
      BY <2>2, <2>4
    <3> QED BY <2>2, <3>1, OnlyOne
  <2>6. ToSet(previous) = {previous[1]}
    <3>1. Len(previous) <= 1 /\ previous \in Seq(StepChange)
      BY <1>1, <2>4 DEF DiskTyped
    <3> QED BY <2>3, <3>1, OnlyOne
  <2>7. r[1] = previous[1] /\ r[1] \notin W
    BY <1>15, <2>1, <2>5, <2>6
  <2>8. r[1].to # n
    BY <1>4, <2>6, <2>7
  <2> QED BY <1>11, <2>1, <2>4, <2>5, <2>7, <2>8
<1>17. Story'
  <2>1. First \in Used'
    BY <1>1, <1>13 DEF Story
  <2>2. \A k \in Declared' : k \notin LeftIn(Said) /\ (Source(c) => k # c.name)
    BY <1>1, <1>7, <1>11 DEF Story
  <2>3. \A k \in Declared' : \A l \in Declared' : shape'[k] = shape'[l] => k = l
    BY <1>1, <1>11 DEF Story
  <2>4. chain' = Composed(line', previous')
    BY <1>5, <1>10
  <2>5. c.kind # "renamed"
    BY <1>7
  <2> QED BY <1>1, <1>5, <1>7, <1>8, <1>16, <2>1, <2>2, <2>3, <2>4, <2>5, StoryGoesOn
<1>18. \A k \in there : \A j \in there : (o[k] = o[j] /\ o[k] \in Living') => stranded \/ k = j
  BY <1>2, <1>12 DEF Single
<1>19. \A k \in Declared' : shape'[k] \in written => \E j \in Names : shape'[k] \in column[j]
  BY <1>1, <1>11 DEF Tables
<1>20. born' \in Nat /\ born <= born' /\ Used \subseteq Used'
  BY <1>1, <1>5, <1>13 DEF DiskTyped
<1> QED BY <1>2, <1>5, <1>7, <1>8, <1>9, <1>14, <1>15, <1>17, <1>18, <1>19, <1>20, AnEdit

LEMMA AddsKeeps ==
  ASSUME MigrateInv, ~NamesReturn, Adds
  PROVE  MigrateInv'
<1>1. DiskTyped /\ Story /\ Tables
  BY DEF MigrateInv
<1>2. PICK o \in [Names -> Nat] : Owned(o) /\ Single(o)
  BY DEF MigrateInv
<1>3. PICK n \in Usable :
        /\ Edits([kind |-> "added", name |-> n, to |-> n], [shape EXCEPT ![n] = born + 1])
        /\ born' = born + 1 /\ previous' = previous /\ chain' = chain
  BY DEF Adds
<1>4. PICK c, sh : c = [kind |-> "added", name |-> n, to |-> n] /\ sh = [shape EXCEPT ![n] = born + 1]
  OBVIOUS
<1>5. Edits(c, sh) /\ previous' = previous /\ chain' = chain /\ born' = born + 1 /\ born \in Nat
  BY <1>1, <1>3, <1>4 DEF DiskTyped
<1>6. n \in Names /\ n \notin Declared /\ n \notin NamesIn(line)
  <2>1. \A i : i \in DOMAIN line <=> i \in 1 .. Len(line)
    BY <1>1 DEF DiskTyped
  <2>2. n \in Names \ Named
    BY <1>3 DEF Usable
  <2> QED BY <2>1, <2>2 DEF Declared, Named, NamesIn, NamedBy
<1>7. c \in StepChange /\ c.kind = "added" /\ c.name = n /\ c.to = n /\ ~ Source(c)
  BY <1>4, <1>6 DEF StepChange, Kinds, Source
<1>8. New(line, c)
  BY <1>6, <1>7 DEF New
<1>9. shape \in [Names -> Nat] /\ sh \in [Names -> Nat] /\ sh[n] = born + 1 /\ \A k \in Names : k # n => sh[k] = shape[k]
  BY <1>1, <1>4, <1>5, <1>6 DEF DiskTyped
<1>10. Said = line /\ Ended(Said', Said, c) /\ shape' = sh /\ column' = column /\ there' = there /\ line' = line
  BY <1>1, <1>5, <1>7, <1>8, EditSays
<1>11. Declared' = Declared \cup {n} /\ \A k \in Declared : k # n /\ k \in Names /\ shape'[k] = shape[k]
  <2>1. born + 1 # 0
    BY <1>5
  <2> QED BY <1>6, <1>9, <1>10, <2>1 DEF Declared
<1>12. Living' = Living \cup {born + 1}
  <2>1. Living' = {shape'[k] : k \in Declared'}
    BY DEF Living
  <2> QED BY <1>9, <1>10, <1>11, <2>1 DEF Living
<1>13. Used' = Used \cup {n} /\ LeftIn(Said') = LeftIn(Said) /\ n \notin Used /\ n \notin LeftIn(Said)
  <2>1. NamesIn(Said') = NamesIn(Said) \cup {n} /\ LeftIn(Said') = LeftIn(Said)
    BY <1>7, <1>10 DEF Ended
  <2>2. Used' = Declared' \cup NamesIn(Said')
    BY DEF Used
  <2>3. LeftIn(Said) \subseteq NamesIn(Said)
    BY <1>1, SaidOfNames
  <2> QED BY <1>6, <1>10, <1>11, <2>1, <2>2, <2>3 DEF Used
<1>14. PICK p : p = [o EXCEPT ![n] = born + 1]
  OBVIOUS
<1>15. p \in [Names -> Nat] /\ p[n] = born + 1 /\ \A k \in Names : k # n => p[k] = o[k]
  BY <1>5, <1>6, <1>14
<1>16. \A z \in Used : z \in Names /\ z # n /\ p[z] = o[z] /\ o[z] \in Nat /\ o[z] <= born /\ o[z] # born + 1
  <2>1. \A z \in Used : z \in Names /\ z # n
    BY <1>1, <1>13, SaidOfNames
  <2>2. \A z \in Used : o[z] \in Nat /\ o[z] <= born
    BY <1>2, <2>1 DEF Owned
  <2>3. \A z \in Used : o[z] # born + 1
    BY <1>5, <2>2
  <2> QED BY <1>15, <2>1, <2>2, <2>3
<1>17. Owned(p)'
  <2>1. \A k \in Declared' : p[k] = shape'[k]
    <3>1. \A k \in Declared : p[k] = shape'[k]
      BY <1>2, <1>11, <1>15 DEF Owned
    <3> QED BY <1>9, <1>10, <1>11, <1>15, <3>1
  <2>2. \A k \in Names : column'[k] \subseteq {p[k]}
    <3>1. n \notin there
      BY <1>1, <1>13 DEF Tables
    <3>2. column[n] = {}
      BY <1>1, <1>6, <3>1 DEF Tables
    <3> QED BY <1>2, <1>10, <1>15, <3>2 DEF Owned
  <2>3. ASSUME NEW d \in ToSet(Said')
        PROVE  (d.kind = "renamed" => p[d.name] = p[d.to]) /\ (d.kind = "removed" => p[d.name] \notin Living')
    <3>1. d = c \/ d \in ToSet(Said)
      BY <1>10, <2>3 DEF Ended
    <3>2. CASE d = c
      BY <1>7, <3>2
    <3>3. CASE d \in ToSet(Said)
      <4>1. d.name \in Used /\ d.to \in Used
        BY <1>1, <3>3, SaidOfNames
      <4>2. (d.kind = "renamed" => o[d.name] = o[d.to]) /\ (d.kind = "removed" => o[d.name] \notin Living)
        BY <1>2, <3>3 DEF Owned
      <4> QED BY <1>12, <1>16, <4>1, <4>2
    <3> QED BY <3>1, <3>2, <3>3
  <2>4. ASSUME NEW z \in Used'
        PROVE  p[z] <= born' /\ (p[z] \in Living' => z \in Declared' \/ z \in LeftIn(Said'))
    <3>1. CASE z = n
      BY <1>5, <1>11, <1>15, <3>1
    <3>2. CASE z # n
      <4>1. z \in Used
        BY <1>13, <2>4, <3>2
      <4>2. p[z] <= born'
        BY <1>5, <1>16, <4>1
      <4>3. p[z] \in Living' => o[z] \in Living
        BY <1>12, <1>16, <4>1
      <4> QED BY <1>2, <1>11, <1>13, <4>1, <4>2, <4>3 DEF Owned
    <3> QED BY <3>1, <3>2
  <2> QED BY <2>1, <2>2, <2>3, <2>4 DEF Owned
<1>18. Story'
  <2>1. First \in Used'
    BY <1>1, <1>13 DEF Story
  <2>2. \A k \in Declared' : k \notin LeftIn(Said) /\ (Source(c) => k # c.name)
    BY <1>1, <1>7, <1>11, <1>13 DEF Story
  <2>3. \A k \in Declared' : \A l \in Declared' : shape'[k] = shape'[l] => k = l
    <3>1. \A k \in Declared : shape'[k] = shape[k] /\ shape[k] # born + 1
      BY <1>2, <1>11, <1>16 DEF Owned, Used
    <3> QED BY <1>1, <1>9, <1>10, <1>11, <3>1 DEF Story
  <2>4. chain' = Composed(line', previous')
    BY <1>1, <1>5, <1>10 DEF Story
  <2>5. c.kind # "renamed"
    BY <1>7
  <2>6. previous' # <<>> => /\ Len(previous') = 1 /\ previous'[1].kind = "renamed" /\ previous'[1].to \in Declared'
                            /\ previous'[1] \in ToSet(Said) \cup {c}
    BY <1>1, <1>5, <1>11 DEF Story, ToSet
  <2> QED BY <1>1, <1>5, <1>7, <1>8, <2>1, <2>2, <2>3, <2>4, <2>5, <2>6, StoryGoesOn
<1>19. \A k \in there : \A j \in there : (p[k] = p[j] /\ p[k] \in Living') => stranded \/ k = j
  <2>1. \A k \in there : k \in Used
    BY <1>1 DEF Tables
  <2> QED BY <1>2, <1>12, <1>16, <2>1 DEF Single
<1>20. \A k \in Declared' : shape'[k] \in written => \E j \in Names : shape'[k] \in column[j]
  <2>1. \A f \in written : f \in Nat /\ f <= born
    BY <1>1 DEF Tables, DiskTyped
  <2>2. born + 1 \notin written
    BY <1>5, <2>1
  <2> QED BY <1>1, <1>9, <1>10, <1>11, <2>2 DEF Tables
<1>21. born' \in Nat /\ born <= born' /\ Used \subseteq Used' /\ previous' \in Seq(StepChange)
  BY <1>1, <1>5, <1>13 DEF DiskTyped
<1> QED BY <1>5, <1>7, <1>8, <1>9, <1>15, <1>17, <1>18, <1>19, <1>20, <1>21, AnEdit

LEMMA TightensKeeps ==
  ASSUME MigrateInv, Tightens
  PROVE  MigrateInv'
<1>1. DiskTyped /\ Story /\ Tables
  BY DEF MigrateInv
<1>2. PICK o \in [Names -> Nat] : Owned(o) /\ Single(o)
  BY DEF MigrateInv
<1>3. PICK n \in Declared :
        /\ Edits([kind |-> "tightened", name |-> n, to |-> n], shape)
        /\ born' = born /\ previous' = previous /\ chain' = chain
  BY DEF Tightens
<1>4. PICK c : c = [kind |-> "tightened", name |-> n, to |-> n]
  OBVIOUS
<1>5. Edits(c, shape)
  BY <1>3, <1>4
<1>6. n \in Names /\ n \in Used
  BY <1>3 DEF Declared, Used
<1>7. c \in StepChange /\ c.kind = "tightened" /\ c.name = n /\ c.to = n /\ ~ Source(c)
  BY <1>4, <1>6 DEF StepChange, Kinds, Source
<1>8. New(line, c) /\ shape \in [Names -> Nat]
  BY <1>1, <1>7 DEF New, DiskTyped
<1>9. Said = line /\ Ended(Said', Said, c) /\ shape' = shape /\ column' = column /\ there' = there /\ line' = line
  BY <1>1, <1>5, <1>7, <1>8, EditSays
<1>10. Declared' = Declared /\ Living' = Living
  BY <1>9 DEF Declared, Living
<1>11. Used' = Used /\ LeftIn(Said') = LeftIn(Said)
  BY <1>6, <1>7, <1>9, <1>10 DEF Used, Ended
<1>12. Owned(o)'
  <2>1. (\A k \in Declared' : o[k] = shape'[k]) /\ \A k \in Names : column'[k] \subseteq {o[k]}
    BY <1>2, <1>9, <1>10 DEF Owned
  <2>2. \A d \in ToSet(Said') : d = c \/ d \in ToSet(Said)
    BY <1>9 DEF Ended
  <2>3. \A d \in ToSet(Said') : (d.kind = "renamed" => o[d.name] = o[d.to]) /\ (d.kind = "removed" => o[d.name] \notin Living')
    BY <1>2, <1>7, <1>10, <2>2 DEF Owned
  <2>4. \A z \in Used' : o[z] <= born' /\ (o[z] \in Living' => z \in Declared' \/ z \in LeftIn(Said'))
    BY <1>2, <1>3, <1>10, <1>11 DEF Owned
  <2> QED BY <2>1, <2>3, <2>4 DEF Owned
<1>13. Story'
  <2>1. First \in Used' /\ \A k \in Declared' : k \notin LeftIn(Said) /\ (Source(c) => k # c.name)
    BY <1>1, <1>7, <1>10, <1>11 DEF Story
  <2>2. \A k \in Declared' : \A l \in Declared' : shape'[k] = shape'[l] => k = l
    BY <1>1, <1>9, <1>10 DEF Story
  <2>3. chain' = Composed(line', previous') /\ c.kind # "renamed"
    BY <1>1, <1>3, <1>7, <1>9 DEF Story
  <2>4. previous' # <<>> => /\ Len(previous') = 1 /\ previous'[1].kind = "renamed" /\ previous'[1].to \in Declared'
                            /\ previous'[1] \in ToSet(Said) \cup {c}
    BY <1>1, <1>3, <1>10 DEF Story, ToSet
  <2> QED BY <1>1, <1>5, <1>7, <1>8, <2>1, <2>2, <2>3, <2>4, StoryGoesOn
<1>14. \A k \in there : \A j \in there : (o[k] = o[j] /\ o[k] \in Living') => stranded \/ k = j
  BY <1>2, <1>10 DEF Single
<1>15. \A k \in Declared' : shape'[k] \in written => \E j \in Names : shape'[k] \in column[j]
  BY <1>1, <1>9, <1>10 DEF Tables
<1>16. born' \in Nat /\ born <= born' /\ Used \subseteq Used' /\ previous' \in Seq(StepChange)
  BY <1>1, <1>3, <1>11 DEF DiskTyped
<1> QED BY <1>2, <1>5, <1>7, <1>8, <1>12, <1>13, <1>14, <1>15, <1>16, AnEdit

(* Freezing, or taking a declaration away, says nothing new. *)
LEMMA SaidAgain ==
  ASSUME MigrateInv, Said' = Said, line' \in Seq(StepChange), unfrozen' \in Seq(StepChange), previous' \in Seq(StepChange),
         Len(unfrozen') <= 1, unfrozen' = <<>>, chain' = Composed(line', previous'), previous' = <<>> \/ previous' = previous,
         UNCHANGED <<shape, born, table, written, stage, plan, lacks, stranded>>, AtRest
  PROVE  MigrateInv'
<1>1. DiskTyped /\ Story /\ Tables
  BY DEF MigrateInv
<1>2. PICK o \in [Names -> Nat] : Owned(o) /\ Single(o)
  BY DEF MigrateInv
<1>3. Declared' = Declared /\ Living' = Living /\ AtRest'
  BY DEF Declared, Living, AtRest
<1>4. Used' = Used
  BY <1>3 DEF Used
<1>5. DiskTyped'
  BY <1>1 DEF DiskTyped, table
<1>6. Story'
  BY <1>1, <1>3, <1>4 DEF Story
<1>7. Tables'
  BY <1>1, <1>3, <1>4 DEF Tables, table
<1>8. Running'
  BY <1>3 DEF Running, AtRest
<1>9. Owned(o)'
  BY <1>2, <1>3, <1>4 DEF Owned, table
<1>10. Single(o)'
  BY <1>2, <1>3 DEF Single, table
<1> QED BY <1>5, <1>6, <1>7, <1>8, <1>9, <1>10 DEF MigrateInv

LEMMA FreezesKeeps == ASSUME MigrateInv, Freezes PROVE MigrateInv'
<1>1. line \in Seq(StepChange) /\ unfrozen \in Seq(StepChange) /\ previous \in Seq(StepChange)
  BY DEF MigrateInv, DiskTyped
<1>2. line' = Said /\ Said \in Seq(StepChange) /\ unfrozen' = <<>>
  BY <1>1 DEF Freezes, Said
<1>3. Said' = Said
  <2>1. Said' = line' \o unfrozen'
    BY DEF Said
  <2> QED BY <1>2, <2>1, ConcatEmptySeq
<1>4. PICK e : e = <<>>
  OBVIOUS
<1>5. e \in Seq(StepChange) /\ Len(e) <= 1 /\ unfrozen' = e
  BY <1>2, <1>4
<1> QED BY <1>1, <1>2, <1>3, <1>5, SaidAgain DEF Freezes

LEMMA UndeclaresKeeps == ASSUME MigrateInv, Undeclares PROVE MigrateInv'
<1>1. line \in Seq(StepChange)
  BY DEF MigrateInv, DiskTyped
<1>2. Said' = Said
  BY DEF Undeclares, Said
<1>3. PICK e : e = <<>>
  OBVIOUS
<1>4. e \in Seq(StepChange) /\ Len(e) <= 1 /\ unfrozen' = e /\ previous' = e
  BY <1>3 DEF Undeclares
<1>5. chain' = Composed(line', previous')
  BY DEF Undeclares
<1> QED BY <1>1, <1>2, <1>3, <1>4, <1>5, SaidAgain DEF Undeclares

-----------------------------------------------------------------------------
(* What stays while the disk does. *)
LEMMA DiskStands ==
  ASSUME UNCHANGED disk
  PROVE  /\ Declared' = Declared /\ Living' = Living /\ Said' = Said /\ Used' = Used /\ chain' = chain /\ Sources' = Sources
         /\ shape' = shape /\ born' = born /\ (Story => Story')
         /\ line' = line /\ unfrozen' = unfrozen /\ previous' = previous
<1>1. shape' = shape /\ born' = born /\ line' = line /\ unfrozen' = unfrozen /\ previous' = previous /\ chain' = chain
  BY DEF disk
<1>2. Declared' = Declared /\ Living' = Living /\ Said' = Said
  BY <1>1 DEF Declared, Living, Said
<1>3. Used' = Used /\ Sources' = Sources
  BY <1>1, <1>2 DEF Used, Sources
<1>4. Story => Story'
  BY <1>1, <1>2, <1>3 DEF Story
<1> QED BY <1>1, <1>2, <1>3, <1>4

LEMMA OwnedStands ==
  ASSUME UNCHANGED disk, NEW o, Owned(o), \A n \in Names : column'[n] \subseteq {o[n]}
  PROVE  Owned(o)'
<1>1. Declared' = Declared /\ Living' = Living /\ Said' = Said /\ Used' = Used /\ shape' = shape /\ born' = born
  BY DiskStands
<1> QED BY <1>1 DEF Owned

LEMMA PlannedIs ==
  ASSUME chain \in Seq(StepChange)
  PROVE  /\ Planned \in Seq(StepChange)
         /\ \A c : c \in ToSet(Planned) <=> c \in Sources /\ c.name \in there
<1>1. PICK S : S = {c \in ToSet(chain) : c.kind \notin {"renamed", "removed"} \/ Done(c)}
  OBVIOUS
<1>2. Planned = Without(chain, S)
  BY <1>1 DEF Planned
<1>3. Planned \in Seq(StepChange) /\ ToSet(Planned) = ToSet(chain) \ S
  BY <1>2, WithoutIsLess
<1> QED BY <1>1, <1>3 DEF Sources, SourcesOf, Source, Done

(* A column where the chain passes through is one a plan has no word for. *)
LEMMA InBetween ==
  ASSUME Said \in Seq(StepChange), Fresh(Said), NEW k \in there, k \in LeftIn(Said), k \in CameTo(Said)
  PROVE  Between
<1>1. PICK N : N = Len(Said)
  OBVIOUS
<1>2. N \in Nat /\ DOMAIN Said = 1 .. N
  BY <1>1
<1>3. PICK j \in 1 .. N : Source(Said[j]) /\ Said[j].name = k
  BY <1>1 DEF LeftIn, LeftBy
<1>4. PICK i \in 1 .. N : Said[i].kind = "renamed" /\ Said[i].to = k
  BY <1>1 DEF CameTo, CameBy
<1>5. FreshAt(Said, i)
  BY <1>2 DEF Fresh
<1>6. i # j
  BY <1>3, <1>4, <1>5 DEF FreshAt
<1>7. ~(j < i)
  BY <1>2, <1>3, <1>4, <1>5 DEF FreshAt
<1>8. i < j
  BY <1>2, <1>6, <1>7
<1>9. \E l, m \in DOMAIN Said :
        l < m /\ Said[l].kind = "renamed" /\ Said[m].name = Said[l].to
          /\ Said[m].kind \in {"renamed", "removed"} /\ Said[l].to \in there
  BY <1>2, <1>3, <1>4, <1>8 DEF Source
<1> QED BY <1>9 DEF Between, Said

LEMMA PlansKeeps ==
  ASSUME MigrateInv, NEW m \in Migrators, Plans(m)
  PROVE  MigrateInv'
<1>1. DiskTyped /\ Story /\ Tables /\ Running
  BY DEF MigrateInv
<1>2. PICK o \in [Names -> Nat] : Owned(o) /\ Single(o)
  BY DEF MigrateInv
<1>3. /\ UNCHANGED disk /\ column' = column /\ there' = there /\ written' = written /\ lacks' = lacks
      /\ stage' = [stage EXCEPT ![m] = "moving"] /\ plan' = [plan EXCEPT ![m] = Planned] /\ stranded' = (stranded \/ Between)
  BY DEF Plans, table
<1>4. /\ Declared' = Declared /\ Living' = Living /\ Said' = Said /\ Used' = Used /\ Sources' = Sources
      /\ shape' = shape /\ born' = born /\ Story' /\ line' = line /\ unfrozen' = unfrozen /\ previous' = previous
  BY <1>1, <1>3, DiskStands
<1>5. Carries(chain, o)
  BY <1>1, <1>2, ChainCarries
<1>6. Planned \in Seq(StepChange) /\ \A c : c \in ToSet(Planned) <=> c \in Sources /\ c.name \in there
  BY <1>5, PlannedIs DEF Carries
<1>7. DiskTyped'
  <2>1. stage' \in [Migrators -> {"idle", "moving", "adding"}] /\ plan' \in [Migrators -> Seq(StepChange)]
    BY <1>1, <1>3, <1>6 DEF DiskTyped
  <2>2. stranded' \in BOOLEAN
    BY <1>1, <1>3 DEF DiskTyped
  <2> QED BY <1>1, <1>3, <1>4, <2>1, <2>2 DEF DiskTyped
<1>8. Tables'
  BY <1>1, <1>3, <1>4 DEF Tables
<1>9. Running'
  <2> SUFFICES ASSUME NEW w \in Migrators
               PROVE  /\ stage'[w] = "moving" => /\ ToSet(plan'[w]) \subseteq Sources
                                                 /\ \A c \in Sources : c.name \in there => c \in ToSet(plan'[w])
                      /\ stage'[w] = "adding" => /\ \A c \in Sources : c.name \notin there
                                                 /\ lacks'[w] \subseteq Declared /\ Declared \ lacks'[w] \subseteq there
    BY <1>3, <1>4 DEF Running
  <2>1. CASE w = m
    <3>1. stage'[w] = "moving" /\ plan'[w] = Planned
      BY <1>1, <1>3, <2>1 DEF DiskTyped
    <3> QED BY <1>6, <3>1
  <2>2. CASE w # m
    <3>1. stage'[w] = stage[w] /\ plan'[w] = plan[w] /\ lacks'[w] = lacks[w]
      BY <1>1, <1>3, <2>2 DEF DiskTyped
    <3> QED BY <1>1, <3>1 DEF Running
  <2> QED BY <2>1, <2>2
<1>10. Owned(o)'
  <2>1. \A n \in Names : column'[n] \subseteq {o[n]}
    BY <1>2, <1>3 DEF Owned
  <2> QED BY <1>2, <1>3, <2>1, OwnedStands
<1>11. Single(o)'
  <2> SUFFICES ASSUME ~ stranded'
               PROVE  /\ \A k, j \in there : (o[k] = o[j] /\ o[k] \in Living) => k = j
                      /\ \A k \in there : ~(o[k] \in Living /\ k \in LeftIn(Said) /\ k \in CameTo(Said))
    BY <1>3, <1>4 DEF Single
  <2>1. ~ stranded /\ ~ Between
    BY <1>3
  <2>2. Said \in Seq(StepChange) /\ Fresh(Said)
    BY <1>1 DEF DiskTyped, Story, Said
  <2> QED BY <1>2, <2>1, <2>2, InBetween DEF Single
<1> QED BY <1>4, <1>7, <1>8, <1>9, <1>10, <1>11 DEF MigrateInv

(* A migrator that goes on to add, or ends. *)
LEMMA TableStands ==
  ASSUME MigrateInv, UNCHANGED disk, UNCHANGED <<column, there, written, stranded>>, ~ AtRest,
         stage' \in [Migrators -> {"idle", "moving", "adding"}], plan' \in [Migrators -> Seq(StepChange)],
         lacks' \in [Migrators -> SUBSET Names], Running'
  PROVE  MigrateInv'
<1>1. DiskTyped /\ Story /\ Tables
  BY DEF MigrateInv
<1>2. PICK o \in [Names -> Nat] : Owned(o) /\ Single(o)
  BY DEF MigrateInv
<1>3. /\ Declared' = Declared /\ Living' = Living /\ Said' = Said /\ Used' = Used
      /\ shape' = shape /\ born' = born /\ Story' /\ line' = line /\ unfrozen' = unfrozen /\ previous' = previous
  BY <1>1, DiskStands
<1>4. DiskTyped'
  BY <1>1, <1>3 DEF DiskTyped
<1>5. Tables'
  BY <1>1, <1>3 DEF Tables
<1>6. Owned(o)'
  BY <1>2, OwnedStands DEF Owned
<1>7. Single(o)'
  BY <1>2, <1>3 DEF Single
<1> QED BY <1>3, <1>4, <1>5, <1>6, <1>7 DEF MigrateInv

LEMMA ReadsMissingKeeps ==
  ASSUME MigrateInv, NEW m \in Migrators, ReadsMissing(m)
  PROVE  MigrateInv'
<1>1. DiskTyped /\ Story /\ Running
  BY DEF MigrateInv
<1>2. /\ stage[m] = "moving" /\ plan[m] = <<>> /\ UNCHANGED disk /\ UNCHANGED <<column, there, written, stranded>> /\ plan' = plan
      /\ stage' = [stage EXCEPT ![m] = "adding"] /\ lacks' = [lacks EXCEPT ![m] = Missing]
  BY DEF ReadsMissing, MovedAll, table
<1>3. ~ AtRest
  BY <1>2 DEF AtRest
<1>4. stage' \in [Migrators -> {"idle", "moving", "adding"}] /\ plan' \in [Migrators -> Seq(StepChange)]
  BY <1>1, <1>2 DEF DiskTyped
<1>5. lacks' \in [Migrators -> SUBSET Names]
  BY <1>1, <1>2 DEF DiskTyped, Missing, Declared
<1>6. Sources' = Sources /\ Declared' = Declared
  BY <1>2, DiskStands
<1>7. Running'
  <2> SUFFICES ASSUME NEW w \in Migrators
               PROVE  /\ stage'[w] = "moving" => /\ ToSet(plan[w]) \subseteq Sources
                                                 /\ \A c \in Sources : c.name \in there => c \in ToSet(plan[w])
                      /\ stage'[w] = "adding" => /\ \A c \in Sources : c.name \notin there
                                                 /\ lacks'[w] \subseteq Declared /\ Declared \ lacks'[w] \subseteq there
    BY <1>2, <1>6 DEF Running
  <2>1. CASE w = m
    <3>1. stage'[w] = "adding" /\ lacks'[w] = Missing
      BY <1>1, <1>2, <2>1 DEF DiskTyped
    <3>2. ToSet(plan[m]) = {}
      BY <1>2 DEF ToSet
    <3>3. \A c \in Sources : c.name \notin there
      BY <1>1, <1>2, <3>2 DEF Running
    <3> QED BY <3>1, <3>3 DEF Missing
  <2>2. CASE w # m
    <3>1. stage'[w] = stage[w] /\ lacks'[w] = lacks[w]
      BY <1>1, <1>2, <2>2 DEF DiskTyped
    <3> QED BY <1>1, <3>1 DEF Running
  <2> QED BY <2>1, <2>2
<1> QED BY <1>2, <1>3, <1>4, <1>5, <1>7, TableStands

LEMMA EndsKeeps ==
  ASSUME MigrateInv, NEW m \in Migrators, stage[m] # "idle", Ends(m)
  PROVE  MigrateInv'
<1>1. DiskTyped /\ Story /\ Running
  BY DEF MigrateInv
<1>2. /\ UNCHANGED disk /\ UNCHANGED <<column, there, written, stranded>>
      /\ stage' = [stage EXCEPT ![m] = "idle"] /\ plan' = [plan EXCEPT ![m] = <<>>] /\ lacks' = [lacks EXCEPT ![m] = {}]
  BY DEF Ends, table
<1>3. ~ AtRest
  BY DEF AtRest
<1>4. stage' \in [Migrators -> {"idle", "moving", "adding"}] /\ plan' \in [Migrators -> Seq(StepChange)]
  <2>1. PICK e : e = <<>>
    OBVIOUS
  <2>2. e \in Seq(StepChange) /\ plan' = [plan EXCEPT ![m] = e]
    BY <1>2, <2>1
  <2> QED BY <1>1, <1>2, <2>2 DEF DiskTyped
<1>5. lacks' \in [Migrators -> SUBSET Names]
  BY <1>1, <1>2 DEF DiskTyped
<1>6. Sources' = Sources /\ Declared' = Declared
  BY <1>2, DiskStands
<1>7. Running'
  <2> SUFFICES ASSUME NEW w \in Migrators
               PROVE  /\ stage'[w] = "moving" => /\ ToSet(plan'[w]) \subseteq Sources
                                                 /\ \A c \in Sources : c.name \in there => c \in ToSet(plan'[w])
                      /\ stage'[w] = "adding" => /\ \A c \in Sources : c.name \notin there
                                                 /\ lacks'[w] \subseteq Declared /\ Declared \ lacks'[w] \subseteq there
    BY <1>2, <1>6 DEF Running
  <2>1. CASE w = m
    BY <1>1, <1>2, <2>1 DEF DiskTyped
  <2>2. CASE w # m
    <3>1. stage'[w] = stage[w] /\ lacks'[w] = lacks[w] /\ plan'[w] = plan[w]
      BY <1>1, <1>2, <2>2 DEF DiskTyped
    <3> QED BY <1>1, <3>1 DEF Running
  <2> QED BY <2>1, <2>2
<1> QED BY <1>2, <1>3, <1>4, <1>5, <1>7, TableStands

-----------------------------------------------------------------------------
(* The values of the fields that are declared stay in the table. *)
Spared == \A n \in Declared : (\E k \in Names : shape[n] \in column[k]) => (\E k \in Names : shape[n] \in column'[k])

LEMMA MovesKeeps ==
  ASSUME MigrateInv, NEW m \in Migrators, Moves(m)
  PROVE  MigrateInv' /\ Spared
<1>1. DiskTyped /\ Story /\ Tables /\ Running
  BY DEF MigrateInv
<1>2. PICK o \in [Names -> Nat] : Owned(o) /\ Single(o)
  BY DEF MigrateInv
<1>3. PICK h, q : h = Head(plan[m]) /\ q = plan[m]
  OBVIOUS
<1>4. /\ stage[m] = "moving" /\ q # <<>> /\ h.name \in there /\ (h.kind = "renamed" => h.to \notin there)
      /\ UNCHANGED disk /\ written' = written /\ stage' = stage /\ lacks' = lacks /\ stranded' = stranded
      /\ plan' = [plan EXCEPT ![m] = Tail(q)]
  BY <1>3 DEF Moves, Accepts
<1>5. IF h.kind = "renamed" THEN RenameColumn(h.name, h.to) ELSE DropColumn(h.name)
  BY <1>3 DEF Moves
<1>6. Carries(chain, o)
  BY <1>1, <1>2, ChainCarries
<1>7. /\ Declared' = Declared /\ Living' = Living /\ Said' = Said /\ Used' = Used /\ Sources' = Sources
      /\ shape' = shape /\ born' = born /\ Story' /\ line' = line /\ unfrozen' = unfrozen /\ previous' = previous
  BY <1>1, <1>4, DiskStands
<1>8. q \in Seq(StepChange) /\ Tail(q) \in Seq(StepChange) /\ ToSet(q) = {h} \cup ToSet(Tail(q))
  <2>1. q \in Seq(StepChange)
    BY <1>1, <1>3 DEF DiskTyped
  <2>2. PICK n, t : n = Len(q) /\ t = Tail(q)
    OBVIOUS
  <2>3. n \in Nat /\ n # 0 /\ DOMAIN q = 1 .. n /\ h = q[1]
    BY <1>3, <1>4, <2>1, <2>2
  <2>4. t \in Seq(StepChange) /\ Len(t) = n - 1 /\ DOMAIN t = 1 .. (n - 1) /\ \A i \in 1 .. (n - 1) : t[i] = q[i + 1]
    BY <1>4, <2>1, <2>2
  <2>5. (\A i \in 1 .. n : i = 1 \/ (i - 1 \in 1 .. (n - 1) /\ (i - 1) + 1 = i)) /\ 1 \in 1 .. n /\ \A i \in 1 .. (n - 1) : i + 1 \in 1 .. n
    BY <2>3
  <2>6. ASSUME NEW i \in 1 .. n PROVE q[i] = h \/ \E l \in 1 .. (n - 1) : q[i] = t[l]
    BY <2>3, <2>4, <2>5
  <2>7. \A x : x \in ToSet(q) <=> (x = h \/ x \in ToSet(t))
    <3>1. ASSUME NEW x \in ToSet(q) PROVE x = h \/ x \in ToSet(t)
      <4>1. PICK i \in 1 .. n : x = q[i]
        BY <2>3, <3>1 DEF ToSet
      <4>2. ASSUME x # h PROVE x \in ToSet(t)
        <5>1. PICK l \in 1 .. (n - 1) : x = t[l]
          BY <2>6, <4>1, <4>2
        <5> QED BY <2>4, <5>1 DEF ToSet
      <4> QED BY <4>2
    <3>2. ASSUME NEW x \in ToSet(t) PROVE x \in ToSet(q)
      <4>1. PICK l \in 1 .. (n - 1) : x = t[l]
        BY <2>4, <3>2 DEF ToSet
      <4>2. l + 1 \in 1 .. n /\ x = q[l + 1]
        BY <2>4, <2>5, <4>1
      <4> QED BY <2>3, <4>2 DEF ToSet
    <3>3. h \in ToSet(q)
      BY <2>3, <2>5 DEF ToSet
    <3> QED BY <3>1, <3>2, <3>3
  <2> QED BY <2>1, <2>2, <2>4, <2>7
<1>9. h \in Sources /\ ToSet(q) \subseteq Sources /\ \A c \in Sources : c.name \in there => c \in ToSet(q)
  BY <1>1, <1>3, <1>4, <1>8 DEF Running
<1>10. PICK x, y : x = h.name /\ y = h.to
  OBVIOUS
<1>11. x \in there /\ x \in Names /\ y \in Names /\ (h.kind = "renamed" \/ h.kind = "removed")
  <2>1. h \in StepChange
    <3>1. h \in ToSet(chain)
      BY <1>9 DEF Sources, SourcesOf
    <3>2. \A i \in DOMAIN chain : chain[i] \in StepChange
      BY <1>6 DEF Carries
    <3> QED BY <3>1, <3>2 DEF ToSet
  <2> QED BY <1>4, <1>9, <1>10, <2>1 DEF StepChange, Sources, SourcesOf, Source
<1>12. \A w \in Migrators : stage[w] # "adding"
  BY <1>1, <1>4, <1>9 DEF Running
<1>13. \A n \in Names \ there : column[n] = {}
  BY <1>1 DEF Tables
<1>14. ~ AtRest
  BY <1>4 DEF AtRest
<1>15. plan' \in [Migrators -> Seq(StepChange)] /\ plan'[m] = Tail(q) /\ \A w \in Migrators : w # m => plan'[w] = plan[w]
  BY <1>1, <1>4, <1>8 DEF DiskTyped
<1>16. ASSUME there' \subseteq Names, \A c \in Sources : c.name \in there' => c.name \in there /\ c.name # x PROVE Running'
  <2> SUFFICES ASSUME NEW w \in Migrators, stage[w] = "moving"
               PROVE  ToSet(plan'[w]) \subseteq Sources /\ \A c \in Sources : c.name \in there' => c \in ToSet(plan'[w])
    BY <1>4, <1>7, <1>12 DEF Running
  <2>1. CASE w = m
    <3>1. ToSet(plan'[w]) \subseteq Sources
      BY <1>8, <1>9, <1>15, <2>1
    <3>2. ASSUME NEW c \in Sources, c.name \in there' PROVE c \in ToSet(plan'[w])
      <4>1. c \in ToSet(q) /\ c # h
        BY <1>9, <1>10, <1>16, <3>2
      <4> QED BY <1>8, <1>15, <2>1, <4>1
    <3> QED BY <3>1, <3>2
  <2>2. CASE w # m
    BY <1>1, <1>15, <1>16, <2>2 DEF Running
  <2> QED BY <2>1, <2>2
<1>17. CASE h.kind = "renamed"
  <2>1. /\ there' = (there \ {x}) \cup {y}
        /\ column' = [column EXCEPT ![y] = column[x], ![x] = {}]
    BY <1>5, <1>10, <1>17 DEF RenameColumn
  <2>2. /\ y \in Used /\ o[x] = o[y] /\ (o[y] \in Living => y \in Declared) /\ y \notin there
        /\ \A d \in Sources : d.name # y
    BY <1>4, <1>6, <1>9, <1>10, <1>17 DEF Carries, Sources
  <2>3. x # y
    BY <1>11, <2>2
  <2>4. column' \in [Names -> SUBSET Nat] /\ column'[y] = column[x] /\ column'[x] = {} /\ column[y] = {}
        /\ \A k \in Names : k # x /\ k # y => column'[k] = column[k]
    BY <1>1, <1>11, <1>13, <2>1, <2>2, <2>3 DEF DiskTyped
  <2>5. DiskTyped'
    <3>1. there' \in SUBSET Names
      BY <1>1, <1>11, <2>1 DEF DiskTyped
    <3> QED BY <1>1, <1>4, <1>7, <1>15, <2>4, <3>1 DEF DiskTyped
  <2>6. Spared
    <3> SUFFICES ASSUME NEW n \in Declared, NEW k \in Names, shape[n] \in column[k]
                 PROVE  \E j \in Names : shape[n] \in column'[j]
      BY DEF Spared
    <3>1. CASE k = x
      BY <1>11, <2>4, <3>1
    <3>2. CASE k # x
      <4>1. k # y
        BY <2>4
      <4> QED BY <2>4, <3>2, <4>1
    <3> QED BY <3>1, <3>2
  <2>7. Tables'
    <3>1. there' \subseteq Used
      BY <1>1, <2>1, <2>2 DEF Tables
    <3>2. \A n \in Names \ there' : column'[n] = {}
      BY <1>13, <2>1, <2>4
    <3>3. \A n \in Declared : shape[n] \in written => \E k \in Names : shape[n] \in column'[k]
      BY <1>1, <2>6 DEF Tables, Spared
    <3>4. \A f \in written' : f <= born'
      BY <1>1, <1>4, <1>7 DEF Tables
    <3> QED BY <1>4, <1>7, <3>1, <3>2, <3>3, <3>4 DEF Tables
  <2>8. Running'
    <3>1. \A c \in Sources : c.name \in there' => c.name \in there /\ c.name # x
      BY <2>1, <2>2
    <3>2. there' \subseteq Names
      BY <2>5 DEF DiskTyped
    <3> QED BY <1>16, <3>1, <3>2
  <2>9. Owned(o)'
    <3>1. \A n \in Names : column[n] \subseteq {o[n]}
      BY <1>2 DEF Owned
    <3>2. \A n \in Names : column'[n] \subseteq {o[n]}
      BY <1>11, <2>2, <2>4, <3>1
    <3> QED BY <1>2, <1>4, <3>2, OwnedStands
  <2>10. Single(o)'
    <3> SUFFICES ASSUME ~ stranded
                 PROVE  /\ \A k, j \in there' : (o[k] = o[j] /\ o[k] \in Living) => k = j
                        /\ \A k \in there' : ~(o[k] \in Living /\ k \in LeftIn(Said) /\ k \in CameTo(Said))
      BY <1>4, <1>7 DEF Single
    <3>1. /\ \A k, j \in there : (o[k] = o[j] /\ o[k] \in Living) => k = j
          /\ \A k \in there : ~(o[k] \in Living /\ k \in LeftIn(Said) /\ k \in CameTo(Said))
      BY <1>2, <1>14 DEF Single
    <3>2. \A k \in there' : k = y \/ (k \in there /\ k # x)
      BY <2>1
    <3>3. o[y] \in Living => y \notin LeftIn(Said)
      BY <1>1, <2>2 DEF Story
    <3> QED BY <1>11, <2>2, <3>1, <3>2, <3>3
  <2> QED BY <1>2, <1>7, <2>5, <2>6, <2>7, <2>8, <2>9, <2>10 DEF MigrateInv
<1>18. CASE h.kind = "removed"
  <2>1. there' = there \ {x} /\ column' = [column EXCEPT ![x] = {}]
    BY <1>5, <1>10, <1>18 DEF DropColumn
  <2>2. o[x] \notin Living
    BY <1>6, <1>9, <1>10, <1>18 DEF Carries, Sources
  <2>3. column' \in [Names -> SUBSET Nat] /\ column'[x] = {} /\ \A k \in Names : k # x => column'[k] = column[k]
    BY <1>1, <1>11, <2>1 DEF DiskTyped
  <2>4. DiskTyped'
    <3>1. there' \in SUBSET Names
      BY <1>1, <2>1 DEF DiskTyped
    <3> QED BY <1>1, <1>4, <1>7, <1>15, <2>3, <3>1 DEF DiskTyped
  <2>5. Spared
    <3> SUFFICES ASSUME NEW n \in Declared, NEW k \in Names, shape[n] \in column[k]
                 PROVE  \E j \in Names : shape[n] \in column'[j]
      BY DEF Spared
    <3>1. shape[n] = o[k] /\ shape[n] \in Living
      BY <1>2 DEF Owned, Living
    <3>2. k # x
      BY <2>2, <3>1
    <3> QED BY <2>3, <3>2
  <2>6. Tables'
    <3>1. there' \subseteq Used
      BY <1>1, <2>1 DEF Tables
    <3>2. \A n \in Names \ there' : column'[n] = {}
      BY <1>13, <2>1, <2>3
    <3>3. \A n \in Declared : shape[n] \in written => \E k \in Names : shape[n] \in column'[k]
      BY <1>1, <2>5 DEF Tables, Spared
    <3>4. \A f \in written' : f <= born'
      BY <1>1, <1>4, <1>7 DEF Tables
    <3> QED BY <1>4, <1>7, <3>1, <3>2, <3>3, <3>4 DEF Tables
  <2>7. Running'
    <3>1. \A c \in Sources : c.name \in there' => c.name \in there /\ c.name # x
      BY <2>1
    <3>2. there' \subseteq Names
      BY <2>4 DEF DiskTyped
    <3> QED BY <1>16, <3>1, <3>2
  <2>8. Owned(o)'
    <3>1. \A n \in Names : column'[n] \subseteq {o[n]}
      BY <1>2, <2>3 DEF Owned
    <3> QED BY <1>2, <1>4, <3>1, OwnedStands
  <2>9. Single(o)'
    BY <1>2, <1>4, <1>7, <1>14, <2>1 DEF Single
  <2> QED BY <1>2, <1>7, <2>4, <2>5, <2>6, <2>7, <2>8, <2>9 DEF MigrateInv
<1> QED BY <1>11, <1>17, <1>18

LEMMA AddsColumnKeeps ==
  ASSUME MigrateInv, NEW m \in Migrators, AddsColumn(m)
  PROVE  MigrateInv' /\ column' = column
<1>1. DiskTyped /\ Story /\ Tables /\ Running
  BY DEF MigrateInv
<1>2. PICK o \in [Names -> Nat] : Owned(o) /\ Single(o)
  BY DEF MigrateInv
<1>3. /\ stage[m] = "adding" /\ UNCHANGED disk /\ written' = written /\ stage' = stage /\ plan' = plan /\ stranded' = stranded
  BY DEF AddsColumn
<1>4. PICK ns : /\ ns \subseteq lacks[m] /\ ns \cap there = {} /\ there' = there \cup ns
                /\ column' = [n \in Names |-> IF n \in there THEN column[n] ELSE {}]
                /\ lacks' = [lacks EXCEPT ![m] = lacks[m] \ ns]
  <2>1. PICK ns \in (IF there = {} THEN {lacks[m]} ELSE {{n} : n \in lacks[m]}) :
               /\ ns # {} /\ ns \cap there = {} /\ there' = Kept \cup ns
               /\ column' = [n \in Names |-> IF n \in Kept THEN column[n] ELSE {}]
               /\ lacks' = [lacks EXCEPT ![m] = @ \ ns]
    BY DEF AddsColumn
  <2>2. ns \subseteq lacks[m]
    BY <2>1
  <2> QED BY <2>1, <2>2 DEF Kept
<1>5. Carries(chain, o)
  BY <1>1, <1>2, ChainCarries
<1>6. /\ Declared' = Declared /\ Living' = Living /\ Said' = Said /\ Used' = Used /\ Sources' = Sources
      /\ shape' = shape /\ born' = born /\ Story' /\ line' = line /\ unfrozen' = unfrozen /\ previous' = previous
  BY <1>1, <1>3, DiskStands
<1>7. (\A c \in Sources : c.name \notin there) /\ ns \subseteq Declared /\ Declared \ lacks[m] \subseteq there
  BY <1>1, <1>3, <1>4 DEF Running
<1>8. column' = column
  <2>1. \A n \in Names : n \notin there => column[n] = {}
    BY <1>1 DEF Tables
  <2>2. column \in [Names -> SUBSET Nat]
    BY <1>1 DEF DiskTyped
  <2> QED BY <1>4, <2>1, <2>2
<1>9. ns \subseteq Names /\ ns \subseteq Used /\ \A n \in ns : n \notin LeftIn(Said)
  BY <1>1, <1>7 DEF Declared, Used, Story
<1>10. ~ AtRest
  BY <1>3 DEF AtRest
<1>11. \A c \in Sources : c.name \notin there'
  <2>1. \A c \in Sources : c.name \in LeftIn(Said)
    BY <1>5 DEF Carries, Sources
  <2> QED BY <1>4, <1>7, <1>9, <2>1
<1>12. DiskTyped'
  <2>1. there' \in SUBSET Names
    BY <1>1, <1>4, <1>9 DEF DiskTyped
  <2>2. lacks' \in [Migrators -> SUBSET Names]
    BY <1>1, <1>4 DEF DiskTyped
  <2> QED BY <1>1, <1>3, <1>6, <1>8, <2>1, <2>2 DEF DiskTyped
<1>13. Tables'
  <2>1. there' \subseteq Used /\ \A n \in Names \ there' : column'[n] = {}
    BY <1>1, <1>4, <1>8, <1>9 DEF Tables
  <2> QED BY <1>1, <1>3, <1>6, <1>8, <2>1 DEF Tables
<1>14. Running'
  <2> SUFFICES ASSUME NEW w \in Migrators
               PROVE  /\ stage[w] = "moving" => ToSet(plan[w]) \subseteq Sources
                      /\ stage[w] = "adding" => lacks'[w] \subseteq Declared /\ Declared \ lacks'[w] \subseteq there'
    BY <1>3, <1>6, <1>11 DEF Running
  <2>1. stage[w] = "moving" => ToSet(plan[w]) \subseteq Sources
    BY <1>1 DEF Running
  <2>2. ASSUME stage[w] = "adding" PROVE lacks'[w] \subseteq Declared /\ Declared \ lacks'[w] \subseteq there'
    <3>1. lacks[w] \subseteq Declared /\ Declared \ lacks[w] \subseteq there
      BY <1>1, <2>2 DEF Running
    <3>2. CASE w = m
      <4>1. lacks'[w] = lacks[w] \ ns
        BY <1>1, <1>4, <3>2 DEF DiskTyped
      <4> QED BY <1>4, <3>1, <4>1
    <3>3. CASE w # m
      <4>1. lacks'[w] = lacks[w]
        BY <1>1, <1>4, <3>3 DEF DiskTyped
      <4> QED BY <1>4, <3>1, <4>1
    <3> QED BY <3>2, <3>3
  <2> QED BY <2>1, <2>2
<1>15. Owned(o)'
  <2>1. \A n \in Names : column'[n] \subseteq {o[n]}
    BY <1>2, <1>8 DEF Owned
  <2> QED BY <1>2, <1>3, <2>1, OwnedStands
<1>16. Single(o)'
  <2> SUFFICES ASSUME ~ stranded
               PROVE  /\ \A k, j \in there' : (o[k] = o[j] /\ o[k] \in Living) => k = j
                      /\ \A k \in there' : ~(o[k] \in Living /\ k \in LeftIn(Said) /\ k \in CameTo(Said))
    BY <1>3, <1>6 DEF Single
  <2>1. /\ \A k, j \in there : (o[k] = o[j] /\ o[k] \in Living) => k = j
        /\ \A k \in there : ~(o[k] \in Living /\ k \in LeftIn(Said) /\ k \in CameTo(Said))
    BY <1>2, <1>10 DEF Single
  <2>2. \A k \in ns : \A j \in Declared : o[k] = o[j] => k = j
    <3>1. \A j \in Declared : o[j] = shape[j]
      BY <1>2 DEF Owned
    <3>2. \A k, j \in Declared : shape[k] = shape[j] => k = j
      BY <1>1 DEF Story
    <3> QED BY <1>7, <3>1, <3>2
  <2>3. \A j \in there : o[j] \in Living => j \in Declared
    <3> SUFFICES ASSUME NEW j \in there, o[j] \in Living, j \notin Declared PROVE FALSE
      OBVIOUS
    <3>1. j \in LeftIn(Said)
      BY <1>1, <1>2 DEF Tables, Owned
    <3>2. j \notin CameTo(Said)
      BY <2>1, <3>1
    <3>3. \E c \in Sources : c.name = j
      BY <1>5, <3>1, <3>2 DEF Carries, Sources
    <3> QED BY <1>7, <3>3
  <2>4. \A k \in ns : \A j \in there : o[k] = o[j] /\ o[k] \in Living => k = j
    BY <2>2, <2>3
  <2>5. \A k \in ns : \A j \in ns : o[k] = o[j] => k = j
    BY <1>7, <2>2
  <2> QED BY <1>4, <1>9, <2>1, <2>4, <2>5
<1> QED BY <1>2, <1>6, <1>8, <1>12, <1>13, <1>14, <1>15, <1>16 DEF MigrateInv

LEMMA ServesKeeps ==
  ASSUME MigrateInv, Serves
  PROVE  MigrateInv' /\ Spared
<1>1. DiskTyped /\ Story /\ Tables
  BY DEF MigrateInv
<1>2. PICK o \in [Names -> Nat] : Owned(o) /\ Single(o)
  BY DEF MigrateInv
<1>3. /\ Missing = {} /\ AtRest /\ UNCHANGED disk /\ there' = there /\ stage' = stage /\ plan' = plan
      /\ lacks' = lacks /\ stranded' = stranded
      /\ column' = [n \in Names |-> IF n \in Declared THEN column[n] \cup {shape[n]} ELSE column[n]]
      /\ written' = written \cup {shape[n] : n \in Declared}
  BY DEF Serves
<1>4. /\ Declared' = Declared /\ Living' = Living /\ Said' = Said /\ Used' = Used
      /\ shape' = shape /\ born' = born /\ Story' /\ line' = line /\ unfrozen' = unfrozen /\ previous' = previous
  BY <1>1, <1>3, DiskStands
<1>5. /\ Declared \subseteq Names /\ Declared \subseteq there /\ AtRest'
      /\ \A n \in Declared : shape[n] \in Nat /\ shape[n] = o[n] /\ shape[n] <= born
  BY <1>1, <1>2, <1>3 DEF Declared, Missing, AtRest, DiskTyped, Owned, Used
<1>6. column' \in [Names -> SUBSET Nat] /\ \A n \in Names : column[n] \subseteq column'[n]
  BY <1>1, <1>3, <1>5 DEF DiskTyped
<1>7. Spared
  BY <1>6 DEF Spared
<1>8. DiskTyped'
  <2>1. written' \in SUBSET Nat
    BY <1>1, <1>3, <1>5 DEF DiskTyped
  <2> QED BY <1>1, <1>3, <1>4, <1>6, <2>1 DEF DiskTyped
<1>9. Tables'
  <2>1. \A n \in Names \ there : column'[n] = {}
    BY <1>1, <1>3, <1>5 DEF Tables
  <2>2. \A f \in written' : f <= born
    BY <1>1, <1>3, <1>5 DEF Tables
  <2>3. \A n \in Declared : \E k \in Names : shape[n] \in column'[k]
    BY <1>3, <1>5
  <2> QED BY <1>1, <1>3, <1>4, <2>1, <2>2, <2>3 DEF Tables
<1>10. Running'
  BY <1>5 DEF Running, AtRest
<1>11. Owned(o)'
  <2>1. \A n \in Names : column[n] \subseteq {o[n]}
    BY <1>2 DEF Owned
  <2>2. \A n \in Names : column'[n] \subseteq {o[n]}
    BY <1>3, <1>5, <2>1
  <2> QED BY <1>2, <1>3, <2>2, OwnedStands
<1>12. Single(o)'
  BY <1>2, <1>3, <1>4, <1>5 DEF Single
<1> QED BY <1>4, <1>7, <1>8, <1>9, <1>10, <1>11, <1>12 DEF MigrateInv

-----------------------------------------------------------------------------
LEMMA MigrateKeeps ==
  ASSUME MigrateInv, ~NamesReturn, [MigrateNext]_migrateVars
  PROVE  MigrateInv' /\ Spared
<1>1. ASSUME column' = column PROVE Spared
  BY <1>1 DEF Spared
<1>2. CASE UNCHANGED migrateVars
  <2>1. UNCHANGED <<disk, table, written, stage, plan, lacks, stranded>> /\ column' = column
    BY <1>2 DEF migrateVars, table
  <2>2. /\ Declared' = Declared /\ Living' = Living /\ Said' = Said /\ Used' = Used /\ Sources' = Sources
        /\ shape' = shape /\ born' = born /\ (Story => Story')
        /\ line' = line /\ unfrozen' = unfrozen /\ previous' = previous
    BY <2>1, DiskStands
  <2>3. DiskTyped' /\ Story' /\ Tables' /\ Running'
    BY <2>1, <2>2 DEF MigrateInv, DiskTyped, Tables, Running, table
  <2>4. PICK o \in [Names -> Nat] : Owned(o) /\ Single(o)
    BY DEF MigrateInv
  <2>5. Owned(o)'
    BY <2>1, <2>4, OwnedStands DEF Owned
  <2>6. Single(o)'
    BY <2>1, <2>2, <2>4 DEF Single, AtRest, table
  <2> QED BY <1>1, <2>1, <2>3, <2>4, <2>5, <2>6 DEF MigrateInv
<1>3. CASE Renames
  <2>1. column' = column
    BY <1>3 DEF Renames, Edits, table
  <2> QED BY <1>1, <1>3, <2>1, RenamesKeeps
<1>4. CASE Removes
  <2>1. column' = column
    BY <1>4 DEF Removes, Edits, table
  <2> QED BY <1>1, <1>4, <2>1, RemovesKeeps
<1>5. CASE Adds
  <2>1. column' = column
    BY <1>5 DEF Adds, Edits, table
  <2> QED BY <1>1, <1>5, <2>1, AddsKeeps
<1>6. CASE Tightens
  <2>1. column' = column
    BY <1>6 DEF Tightens, Edits, table
  <2> QED BY <1>1, <1>6, <2>1, TightensKeeps
<1>7. CASE Freezes
  <2>1. column' = column
    BY <1>7 DEF Freezes, table
  <2> QED BY <1>1, <1>7, <2>1, FreezesKeeps
<1>8. CASE Undeclares
  <2>1. column' = column
    BY <1>8 DEF Undeclares, table
  <2> QED BY <1>1, <1>8, <2>1, UndeclaresKeeps
<1>9. CASE Serves
  BY <1>9, ServesKeeps
<1>10. ASSUME NEW m \in Migrators, MigratorStep(m) PROVE MigrateInv' /\ Spared
  <2>1. CASE Plans(m)
    <3>1. column' = column
      BY <2>1 DEF Plans, table
    <3> QED BY <1>1, <2>1, <3>1, PlansKeeps
  <2>2. CASE Moves(m)
    BY <2>2, MovesKeeps
  <2>3. CASE ReadsMissing(m)
    <3>1. column' = column
      BY <2>3 DEF ReadsMissing, table
    <3> QED BY <1>1, <2>3, <3>1, ReadsMissingKeeps
  <2>4. CASE AddsColumn(m)
    BY <1>1, <2>4, AddsColumnKeeps
  <2>5. CASE Completes(m) \/ BreaksOff(m)
    <3>1. stage[m] # "idle" /\ Ends(m)
      BY <2>5 DEF Completes, BreaksOff
    <3>2. column' = column
      BY <3>1 DEF Ends, table
    <3> QED BY <1>1, <3>1, <3>2, EndsKeeps
  <2> QED BY <1>10, <2>1, <2>2, <2>3, <2>4, <2>5 DEF MigratorStep
<1> QED BY <1>2, <1>3, <1>4, <1>5, <1>6, <1>7, <1>8, <1>9, <1>10 DEF MigrateNext

(* In every state of a disk where no name is used twice, whatever breaks   *)
(* off and whichever migrations run side by side, what is written of       *)
(* migrations above holds.                                                 *)
LEMMA MigrateAlways ==
  ASSUME ~NamesReturn
  PROVE  MigrateSpec => []MigrateInv
<1>1. MigrateInv /\ [MigrateNext]_migrateVars => MigrateInv'
  BY MigrateKeeps
<1> QED BY <1>1, MigrateStarts, PTL DEF MigrateSpec

(* A table the boot accepts holds, under each name, every value written to *)
(* that field under any name and no other's, unless a plan met a column at *)
(* a name the line passes through: the plan of Plan.ts, the pass of        *)
(* Change.ts and the order `migrate` runs them in, for any number of       *)
(* names, edits, breaks and migrations at once.                            *)
THEOREM DataFollows ==
  ASSUME ~NamesReturn
  PROVE  MigrateSpec => []DataFollowsItsField
<1>1. MigrateInv => DataFollowsItsField
  <2> SUFFICES ASSUME MigrateInv, Missing = {}, AtRest, ~ stranded, NEW n \in Declared
               PROVE  /\ column[n] \subseteq {shape[n]}
                      /\ shape[n] \in written => shape[n] \in column[n]
    BY DEF DataFollowsItsField, Follows
  <2>1. PICK o \in [Names -> Nat] : Owned(o) /\ Single(o)
    BY DEF MigrateInv
  <2>2. n \in Names /\ o[n] = shape[n] /\ n \in there /\ shape[n] \in Living
    BY <2>1 DEF Owned, Declared, Missing, Living
  <2>3. column[n] \subseteq {shape[n]}
    BY <2>1, <2>2 DEF Owned
  <2>4. ASSUME shape[n] \in written PROVE shape[n] \in column[n]
    <3>1. PICK k \in Names : shape[n] \in column[k]
      BY <2>4 DEF MigrateInv, Tables
    <3>2. k \in there /\ o[k] = shape[n]
      BY <2>1, <3>1 DEF MigrateInv, Tables, Owned
    <3>3. k = n
      BY <2>1, <2>2, <3>2 DEF Single
    <3> QED BY <3>1, <3>3
  <2> QED BY <2>3, <2>4
<1> QED BY <1>1, MigrateAlways, PTL

(* Values go with their field's removal and with nothing else: no rename,  *)
(* drop or add of a migration, of however old a plan, takes those of a     *)
(* field that is declared out of the table.                                *)
THEOREM DeclaredIsSpared ==
  ASSUME ~NamesReturn
  PROVE  MigrateSpec => NothingDeclaredIsDestroyed
<1>1. MigrateInv /\ [MigrateNext]_migrateVars
        => [\A n \in Declared : (\E k \in Names : shape[n] \in column[k]) => (\E k \in Names : shape[n] \in column'[k])]_migrateVars
  BY MigrateKeeps DEF Spared
<1> QED BY <1>1, MigrateAlways, PTL DEF MigrateSpec, NothingDeclaredIsDestroyed

(* A migration that completed leaves nothing to plan, and no column to     *)
(* add: "run `migrate` twice and the second run answers up to date".       *)
THEOREM UpToDate ==
  ASSUME ~NamesReturn
  PROVE  MigrateSpec => LeavesNothingToPlan
<1>1. MigrateInv /\ [MigrateNext]_migrateVars
        => [\A m \in Migrators : Completes(m) => (Missing' = {} /\ Planned' = <<>>)]_migrateVars
  <2> SUFFICES ASSUME MigrateInv, NEW m \in Migrators, Completes(m)
               PROVE  Missing' = {} /\ Planned' = <<>>
    OBVIOUS
  <2>1. stage[m] = "adding" /\ lacks[m] = {} /\ UNCHANGED disk /\ there' = there
    BY DEF Completes, Ends, table
  <2>2. (\A c \in Sources : c.name \notin there) /\ Declared \subseteq there
    BY <2>1 DEF MigrateInv, Running
  <2>3. Missing' = {}
    <3>1. Declared' = Declared
      BY <2>1, DiskStands
    <3> QED BY <2>1, <2>2, <3>1 DEF Missing
  <2>4. Planned' = Planned
    <3>1. chain' = chain
      BY <2>1, DiskStands
    <3> QED BY <2>1, <3>1 DEF Planned, Done
  <2>5. Planned = <<>>
    <3>1. PICK o \in [Names -> Nat] : Owned(o)
      BY DEF MigrateInv
    <3>2. chain \in Seq(StepChange)
      BY <3>1, ChainCarries DEF MigrateInv, Carries
    <3>3. PICK r : r = Planned
      OBVIOUS
    <3>4. r \in Seq(StepChange) /\ ToSet(r) = {}
      BY <2>2, <3>2, <3>3, PlannedIs
    <3>5. DOMAIN r = {}
      BY <3>4 DEF ToSet
    <3>6. r = <<>>
      BY <3>4, <3>5
    <3> QED BY <3>3, <3>6
  <2> QED BY <2>3, <2>4, <2>5
<1> QED BY <1>1, MigrateAlways, PTL DEF MigrateSpec, LeavesNothingToPlan

-----------------------------------------------------------------------------
LEMMA ComposedTyped ==
  ASSUME NEW s \in Seq(StepChange), NEW d \in Seq(StepChange)
  PROVE  Composed(s, d) \in Seq(StepChange)
<1>1. PICK h : h = CollapseChain(CollapseChain(s))
  OBVIOUS
<1>2. h \in Seq(StepChange)
  BY <1>1, AnyLasts, CollapseWithin
<1>3. PICK w : w = Without(d, ToSet(h))
  OBVIOUS
<1>4. w \in Seq(StepChange)
  BY <1>3, WithoutIsLess
<1>5. PICK t : t = h \o w
  OBVIOUS
<1>6. t \in Seq(StepChange)
  BY <1>2, <1>4, <1>5, ConcatProperties
<1> QED BY <1>1, <1>3, <1>5, <1>6, AnyLasts, CollapseWithin DEF Composed

(* There is at most one field more than there were edits. *)
MigrateTyped == MigrateTypeOK /\ born <= edits + 1

LEMMA EditTyped ==
  ASSUME MigrateTyped, NEW c \in StepChange, NEW sh \in [Names -> FieldIds], Edits(c, sh),
         born' \in Nat, born' <= born + 1, previous' \in Seq(StepChange), chain' \in Seq(StepChange),
         tightened' \in 0 .. MaxTightened
  PROVE  MigrateTyped'
<1>1. /\ UNCHANGED <<line, column, there, written, stage, plan, lacks, stranded, deploys>>
      /\ shape' = sh /\ unfrozen' = <<c>> /\ edits' = edits + 1 /\ edits < MaxEdits
  BY DEF Edits, table
<1>2. MaxEdits \in Nat /\ edits \in 0 .. MaxEdits /\ born \in Nat /\ born <= edits + 1
  BY MigrateBounds DEF MigrateTyped, MigrateTypeOK, FieldIds
<1>3. edits' \in 0 .. MaxEdits /\ born' <= edits' + 1 /\ born' \in FieldIds
  BY <1>1, <1>2 DEF FieldIds
<1>4. unfrozen' \in Seq(StepChange)
  <2>1. PICK g : g = <<c>>
    OBVIOUS
  <2>2. g \in Seq(StepChange)
    BY <2>1
  <2> QED BY <1>1, <2>1, <2>2
<1> QED BY <1>1, <1>3, <1>4 DEF MigrateTyped, MigrateTypeOK

LEMMA MigrateStaysTyped ==
  ASSUME MigrateTyped, [MigrateNext]_migrateVars
  PROVE  MigrateTyped'
<1> USE DEF MigrateTyped
<1>1. /\ shape \in [Names -> FieldIds] /\ born \in FieldIds /\ MaxEdits \in Nat /\ FieldIds \subseteq Nat /\ 0 \in FieldIds
      /\ line \in Seq(StepChange) /\ unfrozen \in Seq(StepChange) /\ previous \in Seq(StepChange)
      /\ edits \in 0 .. MaxEdits /\ tightened \in 0 .. MaxTightened /\ born <= edits + 1 /\ chain \in Seq(StepChange)
  BY MigrateBounds DEF MigrateTypeOK, FieldIds
<1>2. CASE UNCHANGED migrateVars
  BY <1>2 DEF MigrateTypeOK, migrateVars, disk, table
<1>3. CASE Renames
  <2>1. PICK n \in Declared, to \in Usable :
          /\ Edits([kind |-> "renamed", name |-> n, to |-> to], [shape EXCEPT ![n] = 0, ![to] = shape[n]])
          /\ previous' = <<[kind |-> "renamed", name |-> n, to |-> to]>>
          /\ chain' = Composed(line, <<[kind |-> "renamed", name |-> n, to |-> to]>>)
          /\ born' = born /\ tightened' = tightened
    BY <1>3 DEF Renames
  <2>2. PICK c, sh, g : c = [kind |-> "renamed", name |-> n, to |-> to] /\ sh = [shape EXCEPT ![n] = 0, ![to] = shape[n]] /\ g = <<c>>
    OBVIOUS
  <2>3. n \in Names /\ to \in Names
    BY DEF Declared, Usable
  <2>4. c \in StepChange /\ sh \in [Names -> FieldIds]
    BY <1>1, <2>2, <2>3 DEF StepChange, Kinds
  <2>5. g \in Seq(StepChange) /\ previous' = g /\ chain' = Composed(line, g) /\ Edits(c, sh)
    BY <2>1, <2>2, <2>4
  <2>6. chain' \in Seq(StepChange)
    BY <1>1, <2>5, ComposedTyped
  <2>7. born' \in Nat /\ born' <= born + 1 /\ tightened' \in 0 .. MaxTightened
    BY <1>1, <2>1
  <2> QED BY <2>4, <2>5, <2>6, <2>7, EditTyped
<1>4. CASE Removes
  <2>1. PICK n \in Declared :
          /\ Edits([kind |-> "removed", name |-> n, to |-> n], [shape EXCEPT ![n] = 0])
          /\ previous' = Without(previous, {p \in ToSet(previous) : p.to = n})
          /\ chain' = Composed(line, previous')
          /\ born' = born /\ tightened' = tightened
    BY <1>4 DEF Removes
  <2>2. PICK c, sh, g : c = [kind |-> "removed", name |-> n, to |-> n] /\ sh = [shape EXCEPT ![n] = 0] /\ g = previous'
    OBVIOUS
  <2>3. c \in StepChange /\ sh \in [Names -> FieldIds]
    BY <1>1, <2>2 DEF StepChange, Kinds, Declared
  <2>4. g \in Seq(StepChange) /\ chain' = Composed(line, g) /\ Edits(c, sh)
    BY <1>1, <2>1, <2>2, WithoutIsLess
  <2>5. chain' \in Seq(StepChange)
    BY <1>1, <2>4, ComposedTyped
  <2>6. born' \in Nat /\ born' <= born + 1 /\ tightened' \in 0 .. MaxTightened
    BY <1>1, <2>1
  <2>7. previous' \in Seq(StepChange)
    BY <2>2, <2>4
  <2> QED BY <2>3, <2>4, <2>5, <2>6, <2>7, EditTyped
<1>5. CASE Adds
  <2>1. PICK n \in Usable :
          /\ Edits([kind |-> "added", name |-> n, to |-> n], [shape EXCEPT ![n] = born + 1])
          /\ born' = born + 1 /\ previous' = previous /\ chain' = chain /\ tightened' = tightened
    BY <1>5 DEF Adds
  <2>2. PICK c, sh : c = [kind |-> "added", name |-> n, to |-> n] /\ sh = [shape EXCEPT ![n] = born + 1]
    OBVIOUS
  <2>3. n \in Names
    BY DEF Usable
  <2>4. edits < MaxEdits
    BY <2>1 DEF Edits
  <2>5. born + 1 \in FieldIds
    BY <1>1, <2>4 DEF FieldIds
  <2>6. c \in StepChange /\ sh \in [Names -> FieldIds] /\ Edits(c, sh)
    BY <1>1, <2>1, <2>2, <2>3, <2>5 DEF StepChange, Kinds
  <2> QED BY <1>1, <2>1, <2>6, EditTyped
<1>6. CASE Tightens
  <2>1. PICK n \in Declared :
          /\ tightened < MaxTightened
          /\ Edits([kind |-> "tightened", name |-> n, to |-> n], shape)
          /\ tightened' = tightened + 1 /\ born' = born /\ previous' = previous /\ chain' = chain
    BY <1>6 DEF Tightens
  <2>2. PICK c : c = [kind |-> "tightened", name |-> n, to |-> n]
    OBVIOUS
  <2>3. c \in StepChange /\ Edits(c, shape)
    BY <2>1, <2>2 DEF StepChange, Kinds, Declared
  <2>4. tightened' \in 0 .. MaxTightened
    BY <1>1, <2>1, MigrateBounds
  <2> QED BY <1>1, <2>1, <2>3, <2>4, EditTyped
<1>7. CASE Freezes
  <2>1. line' \in Seq(StepChange)
    BY <1>1, <1>7 DEF Freezes
  <2>2. PICK l : l = line'
    OBVIOUS
  <2>3. chain' = Composed(l, previous) /\ l \in Seq(StepChange)
    BY <1>7, <2>1, <2>2 DEF Freezes
  <2>4. chain' \in Seq(StepChange)
    BY <1>1, <2>3, ComposedTyped
  <2>5. unfrozen' \in Seq(StepChange)
    <3>1. PICK e : e = <<>>
      OBVIOUS
    <3>2. e \in Seq(StepChange) /\ unfrozen' = e
      BY <1>7, <3>1 DEF Freezes
    <3> QED BY <3>2
  <2> QED BY <1>1, <1>7, <2>1, <2>4, <2>5 DEF Freezes, MigrateTypeOK, table
<1>8. CASE Undeclares
  <2>1. PICK e : e = <<>>
    OBVIOUS
  <2>2. e \in Seq(StepChange) /\ previous' = e /\ chain' = Composed(line, e)
    BY <1>8, <2>1 DEF Undeclares
  <2>3. chain' \in Seq(StepChange)
    BY <1>1, <2>2, ComposedTyped
  <2> QED BY <1>1, <1>8, <2>2, <2>3 DEF Undeclares, MigrateTypeOK, table
<1>9. ASSUME UNCHANGED disk, there' \in SUBSET Names, column' \in [Names -> SUBSET FieldIds],
             \A n \in Names \ there' : column'[n] = {}, written' \in SUBSET FieldIds,
             stage' \in [Migrators -> {"idle", "moving", "adding"}], plan' \in [Migrators -> Seq(StepChange)],
             lacks' \in [Migrators -> SUBSET Names], stranded' \in BOOLEAN, deploys' \in 0 .. MaxDeploys
      PROVE  MigrateTyped'
  BY <1>9 DEF disk, MigrateTypeOK
<1>10. /\ there \in SUBSET Names /\ column \in [Names -> SUBSET FieldIds] /\ written \in SUBSET FieldIds
       /\ \A n \in Names \ there : column[n] = {}
       /\ stage \in [Migrators -> {"idle", "moving", "adding"}] /\ plan \in [Migrators -> Seq(StepChange)]
       /\ lacks \in [Migrators -> SUBSET Names] /\ stranded \in BOOLEAN /\ deploys \in 0 .. MaxDeploys
  BY DEF MigrateTypeOK
<1>11. CASE Serves
  <2>1. \A n \in Declared : n \in Names /\ shape[n] \in FieldIds /\ n \in there
    BY <1>1, <1>11 DEF Serves, Missing, Declared
  <2>2. column' \in [Names -> SUBSET FieldIds] /\ written' \in SUBSET FieldIds /\ \A n \in Names \ there : column'[n] = {}
    BY <1>10, <1>11, <2>1 DEF Serves
  <2> QED BY <1>9, <1>10, <1>11, <2>2 DEF Serves
<1>12. ASSUME NEW m \in Migrators, MigratorStep(m) PROVE MigrateTyped'
  <2>1. CASE Plans(m)
    <3>1. Planned \in Seq(StepChange)
      BY <1>1, PlannedIs
    <3>2. plan' \in [Migrators -> Seq(StepChange)] /\ stage' \in [Migrators -> {"idle", "moving", "adding"}]
      BY <1>10, <2>1, <3>1 DEF Plans
    <3>3. stranded' \in BOOLEAN
      BY <1>10, <2>1 DEF Plans
    <3>4. deploys' \in 0 .. MaxDeploys
      BY <1>10, <2>1, MigrateBounds DEF Plans
    <3> QED BY <1>9, <1>10, <2>1, <3>2, <3>3, <3>4 DEF Plans, table
  <2>2. CASE Moves(m)
    <3>1. PICK q, h : q = plan[m] /\ h = Head(q)
      OBVIOUS
    <3>2. q \in Seq(StepChange) /\ q # <<>> /\ h \in StepChange /\ Tail(q) \in Seq(StepChange)
      <4>1. q \in Seq(StepChange) /\ q # <<>>
        BY <1>10, <2>2, <3>1 DEF Moves
      <4> QED BY <3>1, <4>1, HeadTailProperties
    <3>3. h.name \in Names /\ h.to \in Names
      BY <3>2 DEF StepChange
    <3>4. /\ UNCHANGED disk /\ written' = written /\ stage' = stage /\ lacks' = lacks /\ stranded' = stranded /\ deploys' = deploys
          /\ plan' = [plan EXCEPT ![m] = Tail(q)]
          /\ IF h.kind = "renamed" THEN RenameColumn(h.name, h.to) ELSE DropColumn(h.name)
          /\ h.name \in there
      BY <2>2, <3>1 DEF Moves, Accepts
    <3>5. plan' \in [Migrators -> Seq(StepChange)]
      BY <1>10, <3>2, <3>4
    <3>6. there' \in SUBSET Names /\ column' \in [Names -> SUBSET FieldIds] /\ \A n \in Names \ there' : column'[n] = {}
      <4>1. CASE h.kind = "renamed"
        BY <1>10, <3>3, <3>4, <4>1 DEF RenameColumn
      <4>2. CASE h.kind # "renamed"
        BY <1>10, <3>3, <3>4, <4>2 DEF DropColumn
      <4> QED BY <4>1, <4>2
    <3> QED BY <1>9, <1>10, <3>4, <3>5, <3>6
  <2>3. CASE ReadsMissing(m)
    <3>1. Missing \subseteq Names
      BY DEF Missing, Declared
    <3>2. stage' \in [Migrators -> {"idle", "moving", "adding"}] /\ lacks' \in [Migrators -> SUBSET Names]
      BY <1>10, <2>3, <3>1 DEF ReadsMissing
    <3> QED BY <1>9, <1>10, <2>3, <3>2 DEF ReadsMissing, table
  <2>4. CASE AddsColumn(m)
    <3>1. PICK ns \in (IF there = {} THEN {lacks[m]} ELSE {{n} : n \in lacks[m]}) :
                 /\ there' = there \cup ns
                 /\ column' = [n \in Names |-> IF n \in there THEN column[n] ELSE {}]
                 /\ lacks' = [lacks EXCEPT ![m] = lacks[m] \ ns]
      BY <2>4 DEF AddsColumn, Kept
    <3>2. ns \subseteq Names
      BY <1>10, <3>1
    <3>3. /\ there' \in SUBSET Names /\ column' \in [Names -> SUBSET FieldIds] /\ lacks' \in [Migrators -> SUBSET Names]
          /\ \A n \in Names \ there' : column'[n] = {}
      BY <1>10, <3>1, <3>2
    <3> QED BY <1>9, <1>10, <2>4, <3>3 DEF AddsColumn
  <2>5. CASE Completes(m) \/ BreaksOff(m)
    <3>1. Ends(m)
      BY <2>5 DEF Completes, BreaksOff
    <3>2. PICK e : e = <<>>
      OBVIOUS
    <3>3. e \in Seq(StepChange) /\ plan' = [plan EXCEPT ![m] = e]
      BY <3>1, <3>2 DEF Ends
    <3>4. /\ stage' \in [Migrators -> {"idle", "moving", "adding"}] /\ lacks' \in [Migrators -> SUBSET Names]
          /\ plan' \in [Migrators -> Seq(StepChange)]
      BY <1>10, <3>1, <3>3 DEF Ends
    <3> QED BY <1>9, <1>10, <3>1, <3>4 DEF Ends, table
  <2> QED BY <1>12, <2>1, <2>2, <2>3, <2>4, <2>5 DEF MigratorStep
<1> QED BY <1>2, <1>3, <1>4, <1>5, <1>6, <1>7, <1>8, <1>11, <1>12 DEF MigrateNext

(* The disk, the table and the migrators keep their shape, names used      *)
(* again or not: what the plan composes is always a list of changes.       *)
THEOREM MigrateWellTyped == MigrateSpec => []MigrateTypeOK
<1>1. ASSUME MigrateInit PROVE MigrateTyped
  <2>1. PICK e : e = <<>>
    OBVIOUS
  <2>2. e \in Seq(StepChange)
    BY <2>1
  <2>3. /\ line = e /\ unfrozen = e /\ previous = e /\ chain = e /\ born = 1 /\ edits = 0
        /\ shape = [n \in Names |-> IF n = First THEN 1 ELSE 0] /\ column = [n \in Names |-> {}]
        /\ plan = [m \in Migrators |-> e]
    BY <1>1, <2>1 DEF MigrateInit
  <2>4. MaxEdits \in Nat /\ MaxDeploys \in Nat /\ MaxTightened \in Nat
    BY MigrateBounds
  <2>5. 0 \in FieldIds /\ 1 \in FieldIds
    BY <2>4 DEF FieldIds
  <2>6. shape \in [Names -> FieldIds] /\ born \in FieldIds /\ column \in [Names -> SUBSET FieldIds] /\ \A n \in Names : column[n] = {}
    BY <2>3, <2>5
  <2>7. line \in Seq(StepChange) /\ unfrozen \in Seq(StepChange) /\ previous \in Seq(StepChange) /\ chain \in Seq(StepChange)
        /\ plan \in [Migrators -> Seq(StepChange)]
    BY <2>2, <2>3
  <2>8. /\ there = {} /\ written = {} /\ stage = [m \in Migrators |-> "idle"] /\ lacks = [m \in Migrators |-> {}]
        /\ stranded = FALSE /\ deploys = 0 /\ tightened = 0
    BY <1>1 DEF MigrateInit
  <2>9. born <= edits + 1 /\ edits \in 0 .. MaxEdits /\ deploys \in 0 .. MaxDeploys /\ tightened \in 0 .. MaxTightened
    BY <2>3, <2>4, <2>8
  <2>10. /\ there \in SUBSET Names /\ written \in SUBSET FieldIds /\ stage \in [Migrators -> {"idle", "moving", "adding"}]
         /\ lacks \in [Migrators -> SUBSET Names] /\ stranded \in BOOLEAN
    BY <2>8
  <2> QED BY <2>6, <2>7, <2>9, <2>10 DEF MigrateTyped, MigrateTypeOK
<1>2. MigrateTyped /\ [MigrateNext]_migrateVars => MigrateTyped'
  BY MigrateStaysTyped
<1> QED BY <1>1, <1>2, PTL DEF MigrateSpec, MigrateTyped

=============================================================================

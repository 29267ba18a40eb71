------------------------- MODULE RenderManagerProofs -------------------------
(***************************************************************************)
(* Theorems about the queue and the render pool, for any set of workers,   *)
(* any tasks, any containment relation and any bounds.                     *)
(*                                                                         *)
(* First, what the queue operations return.  Without is a recursive        *)
(* function, so its facts need induction over the positions of the queue;  *)
(* SetInduction is that principle for a set of naturals, which needs no    *)
(* operator parameter.                                                     *)
(***************************************************************************)
EXTENDS RenderManager, FiniteSetTheorems, WellFoundedInduction, TLAPS

(* A set of naturals that is not empty has a least member.                 *)
LEMMA LeastMember ==
  ASSUME NEW T \in SUBSET Nat, T # {}
  PROVE  \E m \in T : \A k \in T : m <= k
<1> DEFINE R == OpToRel(<, Nat)
<1>1. IsWellFoundedOn(R, Nat)
  BY NatLessThanWellFounded, Zenon
<1>2. PICK m \in T : \A k \in T : ~(<<k, m>> \in R)
  <2> HIDE DEF R
  <2> QED BY <1>1, WFMin
<1>3. \A k \in T : ~(k < m)
  BY <1>2 DEF OpToRel
<1> QED BY <1>3

(* A set of naturals that holds 0 and is closed under successor is Nat.    *)
LEMMA SetInduction ==
  ASSUME NEW G \in SUBSET Nat, 0 \in G, \A n \in G : n + 1 \in G
  PROVE  G = Nat
<1>1. SUFFICES ASSUME Nat \ G # {} PROVE FALSE
  OBVIOUS
<1>2. PICK m \in Nat \ G : \A k \in Nat \ G : m <= k
  BY <1>1, LeastMember
<1>3. m # 0 /\ m - 1 \in G
  BY <1>2
<1>4. (m - 1) + 1 \in G
  BY <1>3, Zenon
<1>5. (m - 1) + 1 = m
  OBVIOUS
<1> QED BY <1>2, <1>4, <1>5

(* The function by which Without is defined exists, one position longer    *)
(* each time, and its values are queues.                                   *)
LEMMA KeptExists ==
  ASSUME NEW q \in Seq(Tasks), NEW S
  PROVE  \A n \in 0 .. Len(q) :
           \E f \in [0 .. n -> Seq(Tasks)] :
             \A i \in 0 .. n : f[i] = KeptSoFar(q, S, f, i)
<1> DEFINE Good(k) == \E f \in [0 .. k -> Seq(Tasks)] :
                        \A i \in 0 .. k : f[i] = KeptSoFar(q, S, f, i)
<1> DEFINE G == {k \in Nat : k <= Len(q) => Good(k)}
<1>1. 0 \in G
  <2>1. Good(0)
    <3> DEFINE f == [i \in 0 .. 0 |-> <<>>]
    <3>1. f \in [0 .. 0 -> Seq(Tasks)]
      OBVIOUS
    <3>2. \A i \in 0 .. 0 : f[i] = KeptSoFar(q, S, f, i)
      BY DEF KeptSoFar
    <3> HIDE DEF f
    <3> QED BY <3>1, <3>2
  <2> QED BY <2>1
<1>2. ASSUME NEW k \in G PROVE k + 1 \in G
  <2>1. SUFFICES ASSUME k + 1 <= Len(q) PROVE Good(k + 1)
    <3> HIDE DEF Good
    <3> QED OBVIOUS
  <2>2. k \in Nat /\ k <= Len(q) /\ q[k + 1] \in Tasks
    BY <2>1
  <2>3. PICK f \in [0 .. k -> Seq(Tasks)] :
          \A i \in 0 .. k : f[i] = KeptSoFar(q, S, f, i)
    <3>1. Good(k)
      <4> HIDE DEF Good
      <4> QED BY <2>2
    <3> QED BY <3>1
  <2> DEFINE g == [i \in 0 .. k + 1 |->
                     IF i <= k THEN f[i] ELSE KeptSoFar(q, S, f, i)]
  <2>4. g \in [0 .. k + 1 -> Seq(Tasks)]
    <3>1. f[k] \in Seq(Tasks)
      BY <2>2
    <3>2. KeptSoFar(q, S, f, k + 1) \in Seq(Tasks)
      BY <2>2, <3>1 DEF KeptSoFar
    <3> QED BY <2>2, <3>2
  <2>5. ASSUME NEW i \in 0 .. k + 1 PROVE g[i] = KeptSoFar(q, S, g, i)
    <3>1. CASE i \in 0 .. k
      <4>1. f[i] = KeptSoFar(q, S, f, i)
        BY <3>1, <2>3
      <4>2. g[i] = f[i] /\ (i # 0 => g[i - 1] = f[i - 1])
        BY <3>1, <2>2
      <4> QED BY <4>1, <4>2 DEF KeptSoFar
    <3>2. CASE i = k + 1
      BY <3>2, <2>2 DEF KeptSoFar
    <3> QED BY <3>1, <3>2, <2>2
  <2> HIDE DEF g
  <2> QED BY <2>4, <2>5
<1>3. G = Nat
  <2>1. G \in SUBSET Nat
    OBVIOUS
  <2> HIDE DEF G
  <2> QED BY <1>1, <1>2, <2>1, SetInduction
<1> HIDE DEF Good
<1>4. \A n \in 0 .. Len(q) : Good(n)
  BY <1>3
<1> QED BY <1>4 DEF Good

(* Without(q, S) is the last value of a function that obeys its recursion. *)
LEMMA WithoutRecursion ==
  ASSUME NEW q \in Seq(Tasks), NEW S
  PROVE  \E f \in [0 .. Len(q) -> Seq(Tasks)] :
           /\ \A i \in 0 .. Len(q) : f[i] = KeptSoFar(q, S, f, i)
           /\ Without(q, S) = f[Len(q)]
<1> DEFINE Body(f) == [i \in 0 .. Len(q) |-> KeptSoFar(q, S, f, i)]
<1> DEFINE kept == CHOOSE f : f = Body(f)
<1>1. Without(q, S) = kept[Len(q)]
  BY DEF Without, KeptSoFar
<1>2. PICK f \in [0 .. Len(q) -> Seq(Tasks)] :
        \A i \in 0 .. Len(q) : f[i] = KeptSoFar(q, S, f, i)
  <2>1. Len(q) \in 0 .. Len(q)
    OBVIOUS
  <2> QED BY <2>1, KeptExists
<1>3. f = Body(f)
  BY <1>2
<1>4. kept = Body(kept)
  <2> HIDE DEF Body
  <2> QED BY <1>3
<1> HIDE DEF kept
<1>5. \A i \in 0 .. Len(q) : kept[i] = KeptSoFar(q, S, kept, i)
  BY <1>4
<1> DEFINE G == {k \in Nat : k <= Len(q) => kept[k] \in Seq(Tasks)}
<1>6. 0 \in G
  <2>1. kept[0] = <<>>
    BY <1>5 DEF KeptSoFar
  <2>2. kept[0] \in Seq(Tasks)
    BY <2>1
  <2> QED BY <2>2
<1>7. ASSUME NEW k \in G PROVE k + 1 \in G
  <2>1. SUFFICES ASSUME k + 1 <= Len(q) PROVE kept[k + 1] \in Seq(Tasks)
    OBVIOUS
  <2>2. kept[k + 1] = KeptSoFar(q, S, kept, k + 1)
    BY <2>1, <1>5
  <2>3. kept[k] \in Seq(Tasks) /\ q[k + 1] \in Tasks
    BY <2>1
  <2> QED BY <2>2, <2>3 DEF KeptSoFar
<1>8. G = Nat
  <2>1. G \in SUBSET Nat
    OBVIOUS
  <2> HIDE DEF G
  <2> QED BY <1>6, <1>7, <2>1, SetInduction
<1>9. kept \in [0 .. Len(q) -> Seq(Tasks)]
  <2>1. \A i \in 0 .. Len(q) : kept[i] \in Seq(Tasks)
    BY <1>8
  <2> QED BY <1>4, <2>1
<1> QED BY <1>1, <1>5, <1>9

(* Filtering a queue gives a queue.                                        *)
LEMMA WithoutType ==
  ASSUME NEW q \in Seq(Tasks), NEW S
  PROVE  Without(q, S) \in Seq(Tasks)
BY WithoutRecursion

(* r draws on the first k members of q, leaving out those in S: what is in *)
(* r comes from q, two places of r from two places of q, and what is not   *)
(* in S is in r.                                                           *)
Draws(r, q, S, k) ==
  /\ \A i \in 1 .. Len(r) : \E a \in 1 .. k : r[i] = q[a] /\ r[i] \notin S
  /\ \A i, j \in 1 .. Len(r) :
       i # j => \E a, b \in 1 .. k : a # b /\ r[i] = q[a] /\ r[j] = q[b]
  /\ \A a \in 1 .. k : q[a] \notin S => \E i \in 1 .. Len(r) : r[i] = q[a]

LEMMA DrawsNext ==
  ASSUME NEW q \in Seq(Tasks), NEW S, NEW k \in Nat, k + 1 <= Len(q),
         NEW r \in Seq(Tasks), Draws(r, q, S, k)
  PROVE  /\ q[k + 1] \in S => Draws(r, q, S, k + 1)
         /\ q[k + 1] \notin S => Draws(Append(r, q[k + 1]), q, S, k + 1)
<1>1. \A a \in 1 .. k + 1 : a \in 1 .. k \/ a = k + 1
  OBVIOUS
<1>2. \A a \in 1 .. k : a \in 1 .. k + 1 /\ a # k + 1
  OBVIOUS
<1>3. k + 1 \in 1 .. k + 1
  OBVIOUS
<1>4. ASSUME q[k + 1] \in S PROVE Draws(r, q, S, k + 1)
  <2>1. \A i \in 1 .. Len(r) :
          \E a \in 1 .. k + 1 : r[i] = q[a] /\ r[i] \notin S
    BY <1>2 DEF Draws
  <2>2. ASSUME NEW i \in 1 .. Len(r), NEW j \in 1 .. Len(r), i # j
        PROVE  \E a, b \in 1 .. k + 1 : a # b /\ r[i] = q[a] /\ r[j] = q[b]
    <3>1. PICK a, b \in 1 .. k : a # b /\ r[i] = q[a] /\ r[j] = q[b]
      BY <2>2 DEF Draws
    <3> QED BY <3>1, <1>2
  <2>3. \A a \in 1 .. k + 1 :
          q[a] \notin S => \E i \in 1 .. Len(r) : r[i] = q[a]
    BY <1>1, <1>4 DEF Draws
  <2> QED BY <2>1, <2>2, <2>3 DEF Draws
<1>5. ASSUME q[k + 1] \notin S
      PROVE  Draws(Append(r, q[k + 1]), q, S, k + 1)
  <2> DEFINE s == Append(r, q[k + 1])
  <2> DEFINE last == Len(r) + 1
  <2>1. /\ s \in Seq(Tasks) /\ Len(s) = last /\ s[last] = q[k + 1]
        /\ last \in 1 .. last
    OBVIOUS
  <2>2. \A i \in 1 .. last : (i \in 1 .. Len(r) /\ s[i] = r[i]) \/ i = last
    OBVIOUS
  <2>3. \A i \in 1 .. Len(r) : i \in 1 .. last /\ s[i] = r[i]
    OBVIOUS
  <2> HIDE DEF s, last
  <2>4. ASSUME NEW i \in 1 .. last
        PROVE  \E a \in 1 .. k + 1 : s[i] = q[a] /\ s[i] \notin S
    <3>1. CASE i = last
      BY <3>1, <2>1, <1>3, <1>5
    <3>2. CASE i \in 1 .. Len(r) /\ s[i] = r[i]
      BY <3>2, <1>2 DEF Draws
    <3> QED BY <3>1, <3>2, <2>2
  <2>5. ASSUME NEW i \in 1 .. last, NEW j \in 1 .. last, i # j
        PROVE  \E a, b \in 1 .. k + 1 : a # b /\ s[i] = q[a] /\ s[j] = q[b]
    <3>1. CASE i = last
      <4>1. j \in 1 .. Len(r) /\ s[j] = r[j]
        BY <3>1, <2>5, <2>2
      <4>2. PICK b \in 1 .. k : r[j] = q[b]
        BY <4>1 DEF Draws
      <4> QED BY <3>1, <4>1, <4>2, <2>1, <1>2, <1>3
    <3>2. CASE j = last
      <4>1. i \in 1 .. Len(r) /\ s[i] = r[i]
        BY <3>2, <2>5, <2>2
      <4>2. PICK a \in 1 .. k : r[i] = q[a]
        BY <4>1 DEF Draws
      <4> QED BY <3>2, <4>1, <4>2, <2>1, <1>2, <1>3
    <3>3. CASE i # last /\ j # last
      <4>1. /\ i \in 1 .. Len(r) /\ s[i] = r[i]
            /\ j \in 1 .. Len(r) /\ s[j] = r[j]
        BY <3>3, <2>2
      <4>2. PICK a, b \in 1 .. k : a # b /\ r[i] = q[a] /\ r[j] = q[b]
        BY <4>1, <2>5 DEF Draws
      <4> QED BY <4>1, <4>2, <1>2
    <3> QED BY <3>1, <3>2, <3>3
  <2>6. ASSUME NEW a \in 1 .. k + 1, q[a] \notin S
        PROVE  \E i \in 1 .. last : s[i] = q[a]
    <3>1. CASE a = k + 1
      BY <3>1, <2>1
    <3>2. CASE a \in 1 .. k
      <4>1. PICK i \in 1 .. Len(r) : r[i] = q[a]
        BY <3>2, <2>6 DEF Draws
      <4> QED BY <4>1, <2>3
    <3> QED BY <3>1, <3>2, <1>1
  <2>7. Draws(s, q, S, k + 1)
    BY <2>1, <2>4, <2>5, <2>6 DEF Draws
  <2> QED BY <2>7 DEF s
<1> QED BY <1>4, <1>5

(* Filtering keeps what is not in S, each place once.                      *)
LEMMA WithoutDraws ==
  ASSUME NEW q \in Seq(Tasks), NEW S
  PROVE  Draws(Without(q, S), q, S, Len(q))
<1>1. PICK f \in [0 .. Len(q) -> Seq(Tasks)] :
        /\ \A i \in 0 .. Len(q) : f[i] = KeptSoFar(q, S, f, i)
        /\ Without(q, S) = f[Len(q)]
  BY WithoutRecursion
<1> DEFINE G == {k \in Nat : k <= Len(q) => Draws(f[k], q, S, k)}
<1>2. 0 \in G
  <2>1. f[0] = <<>>
    BY <1>1 DEF KeptSoFar
  <2>2. Draws(<<>>, q, S, 0)
    BY DEF Draws
  <2> QED BY <2>1, <2>2
<1>3. ASSUME NEW k \in G PROVE k + 1 \in G
  <2>1. SUFFICES ASSUME k + 1 <= Len(q) PROVE Draws(f[k + 1], q, S, k + 1)
    OBVIOUS
  <2>2. /\ k \in Nat /\ k <= Len(q) /\ Draws(f[k], q, S, k)
        /\ f[k] \in Seq(Tasks)
    BY <2>1
  <2>3. f[k + 1] = IF q[k + 1] \in S THEN f[k] ELSE Append(f[k], q[k + 1])
    <3>1. f[k + 1] = KeptSoFar(q, S, f, k + 1)
      BY <1>1, <2>1, <2>2
    <3>2. (k + 1) - 1 = k /\ k + 1 # 0
      BY <2>2
    <3> QED BY <3>1, <3>2 DEF KeptSoFar
  <2> QED BY <2>1, <2>2, <2>3, DrawsNext
<1>4. G = Nat
  <2>1. G \in SUBSET Nat
    OBVIOUS
  <2> HIDE DEF G
  <2> QED BY <1>2, <1>3, <2>1, SetInduction
<1>5. Len(q) \in G
  <2> HIDE DEF G
  <2> QED BY <1>4
<1> QED BY <1>1, <1>5

(* Every queue operation gives a queue, and none of them displaces a head. *)
LEMMA WithoutBehindHeadFacts ==
  ASSUME NEW q \in Seq(Tasks), q # <<>>, NEW S
  PROVE  /\ WithoutBehindHead(q, S) \in Seq(Tasks)
         /\ WithoutBehindHead(q, S) # <<>>
         /\ Head(WithoutBehindHead(q, S)) = Head(q)
<1>1. Tail(q) \in Seq(Tasks)
  OBVIOUS
<1>2. Without(Tail(q), S) \in Seq(Tasks)
  BY <1>1, WithoutType
<1> QED BY <1>2 DEF WithoutBehindHead

LEMMA DropContainedFacts ==
  ASSUME NEW q \in Seq(Tasks), q # <<>>, NEW t \in Tasks
  PROVE  /\ DropContained(q, t) \in Seq(Tasks)
         /\ DropContained(q, t) # <<>>
         /\ Head(DropContained(q, t)) = Head(q)
BY WithoutBehindHeadFacts DEF DropContained

LEMMA ScheduledFacts ==
  ASSUME NEW q \in Seq(Tasks), NEW t \in Tasks
  PROVE  /\ Scheduled(q, t) \in Seq(Tasks)
         /\ ScheduledNext(q, t) \in Seq(Tasks)
         /\ q # <<>> => /\ Scheduled(q, t) # <<>>
                        /\ ScheduledNext(q, t) # <<>>
                        /\ Head(Scheduled(q, t)) = Head(q)
                        /\ Head(ScheduledNext(q, t)) = Head(q)
<1>1. CASE q = <<>>
  BY <1>1 DEF Scheduled, ScheduledNext, DropContained
<1>2. CASE q # <<>>
  <2> DEFINE d == DropContained(q, t)
  <2>1. d \in Seq(Tasks) /\ d # <<>> /\ Head(d) = Head(q)
    BY <1>2, DropContainedFacts
  <2> HIDE DEF d
  <2>2. /\ Append(d, t) \in Seq(Tasks)
        /\ Append(d, t) # <<>>
        /\ Head(Append(d, t)) = Head(q)
    BY <2>1
  <2>3. Tail(d) \in Seq(Tasks)
    BY <2>1
  <2>4. /\ <<Head(q), t>> \o Tail(d) \in Seq(Tasks)
        /\ <<Head(q), t>> \o Tail(d) # <<>>
        /\ Head(<<Head(q), t>> \o Tail(d)) = Head(q)
    BY <1>2, <2>3
  <2>5. /\ Scheduled(q, t) = Append(d, t)
        /\ \/ ScheduledNext(q, t) = Scheduled(q, t)
           \/ ScheduledNext(q, t) = <<Head(q), t>> \o Tail(d)
    BY DEF Scheduled, ScheduledNext, d
  <2> QED BY <2>2, <2>4, <2>5
<1> QED BY <1>1, <1>2

LEMMA ReorderedFacts ==
  ASSUME NEW q \in Seq(Tasks), NEW front
  PROVE  /\ Reordered(q, front) \in Seq(Tasks)
         /\ q # <<>> => /\ Reordered(q, front) # <<>>
                        /\ Head(Reordered(q, front)) = Head(q)
<1>1. CASE Len(q) <= 2
  BY <1>1 DEF Reordered
<1>2. CASE Len(q) > 2
  <2>1. /\ Without(Tail(q), Tasks \ front) \in Seq(Tasks)
        /\ Without(Tail(q), front) \in Seq(Tasks)
    <3>1. Tail(q) \in Seq(Tasks)
      BY <1>2
    <3> QED BY <3>1, WithoutType
  <2> QED BY <1>2, <2>1 DEF Reordered
<1> QED BY <1>1, <1>2

LEMMA RemoveFirstFacts ==
  ASSUME NEW q \in Seq(Tasks), q # <<>>, NEW t \in Tasks
  PROVE  /\ RemoveFirst(q, t) \in Seq(Tasks)
         /\ RemoveFirst(q, t) # <<>>
         /\ Head(RemoveFirst(q, t)) = Head(q)
<1> DEFINE hits == {i \in 2 .. Len(q) : <<q[i], t>> \in Same}
<1>1. CASE hits = {}
  BY <1>1 DEF RemoveFirst
<1>2. CASE hits # {}
  <2>1. \E j \in hits : \A k \in hits : j <= k
    <3>1. hits \in SUBSET Nat
      OBVIOUS
    <3> HIDE DEF hits
    <3> QED BY <3>1, <1>2, LeastMember
  <2>2. PICK i \in hits : RemoveFirst(q, t)
                            = SubSeq(q, 1, i - 1) \o SubSeq(q, i + 1, Len(q))
    BY <1>2, <2>1 DEF RemoveFirst
  <2>3. i \in 2 .. Len(q)
    OBVIOUS
  <2> HIDE DEF hits
  <2>4. /\ SubSeq(q, 1, i - 1) \in Seq(Tasks)
        /\ SubSeq(q, 1, i - 1) # <<>>
        /\ Head(SubSeq(q, 1, i - 1)) = Head(q)
    BY <2>3
  <2>5. SubSeq(q, i + 1, Len(q)) \in Seq(Tasks)
    BY <2>3
  <2> QED BY <2>2, <2>4, <2>5
<1> QED BY <1>1, <1>2
------------------------------------------------------------------------------
(* Pending tasks: apart when none contains another, taken from the pending *)
(* tasks of another queue place by place, covered by what is in another.   *)
Apart(q) ==
  \A i, j \in 2 .. Len(q) : i # j => <<q[i], q[j]>> \notin Contains

PendingFrom(r, q) ==
  \A i, j \in 2 .. Len(r) :
    i # j => \E a, b \in 2 .. Len(q) : a # b /\ r[i] = q[a] /\ r[j] = q[b]

PendingIn(q, r) ==
  \A a \in 2 .. Len(q) : \E i \in 1 .. Len(r) : <<r[i], q[a]>> \in Contains

LEMMA ContainsItself == \A t \in Tasks : <<t, t>> \in Contains
BY ContainsAssumption

LEMMA FromApart ==
  ASSUME NEW q, NEW r, PendingFrom(r, q), Apart(q)
  PROVE  Apart(r)
<1>1. ASSUME NEW i \in 2 .. Len(r), NEW j \in 2 .. Len(r), i # j
      PROVE  <<r[i], r[j]>> \notin Contains
  <2>1. PICK a, b \in 2 .. Len(q) : a # b /\ r[i] = q[a] /\ r[j] = q[b]
    BY <1>1, Zenon DEF PendingFrom
  <2>2. <<q[a], q[b]>> \notin Contains
    BY <2>1, Zenon DEF Apart
  <2> QED BY <2>1, <2>2, Zenon
<1> QED BY <1>1, Zenon DEF Apart

LEMMA WithoutBehindHeadDraws ==
  ASSUME NEW q \in Seq(Tasks), q # <<>>, NEW S,
         NEW r, r = WithoutBehindHead(q, S)
  PROVE  /\ PendingFrom(r, q)
         /\ \A i \in 2 .. Len(r) :
              r[i] \notin S /\ \E a \in 2 .. Len(q) : r[i] = q[a]
         /\ \A a \in 2 .. Len(q) :
              q[a] \notin S => \E i \in 2 .. Len(r) : r[i] = q[a]
<1> DEFINE p == Tail(q)
<1> DEFINE d == Without(p, S)
<1>1. /\ p \in Seq(Tasks) /\ Len(p) = Len(q) - 1 /\ Len(q) \in Nat
      /\ \A a \in 1 .. Len(p) : p[a] = q[a + 1] /\ a + 1 \in 2 .. Len(q)
      /\ \A a \in 2 .. Len(q) : a - 1 \in 1 .. Len(p) /\ q[a] = p[a - 1]
  OBVIOUS
<1> HIDE DEF p
<1>2. d \in Seq(Tasks) /\ Draws(d, p, S, Len(p))
  BY <1>1, WithoutType, WithoutDraws
<1>3. r = <<Head(q)>> \o d
  BY DEF WithoutBehindHead, d, p
<1> HIDE DEF d
<1>4. /\ Len(r) = Len(d) + 1 /\ Len(d) \in Nat
      /\ \A i \in 2 .. Len(r) : i - 1 \in 1 .. Len(d) /\ r[i] = d[i - 1]
      /\ \A i \in 1 .. Len(d) : i + 1 \in 2 .. Len(r) /\ r[i + 1] = d[i]
  BY <1>2, <1>3
<1>5. ASSUME NEW i \in 2 .. Len(r), NEW j \in 2 .. Len(r), i # j
      PROVE  \E a, b \in 2 .. Len(q) : a # b /\ r[i] = q[a] /\ r[j] = q[b]
  <2>1. i - 1 \in 1 .. Len(d) /\ j - 1 \in 1 .. Len(d) /\ i - 1 # j - 1
    BY <1>4, <1>5
  <2>2. PICK a, b \in 1 .. Len(p) :
          a # b /\ d[i - 1] = p[a] /\ d[j - 1] = p[b]
    BY <2>1, <1>2 DEF Draws
  <2>3. /\ a + 1 \in 2 .. Len(q) /\ b + 1 \in 2 .. Len(q) /\ a + 1 # b + 1
        /\ r[i] = q[a + 1] /\ r[j] = q[b + 1]
    BY <2>2, <1>1, <1>4
  <2> QED BY <2>3
<1>6. ASSUME NEW i \in 2 .. Len(r)
      PROVE  r[i] \notin S /\ \E a \in 2 .. Len(q) : r[i] = q[a]
  <2>1. PICK a \in 1 .. Len(p) : d[i - 1] = p[a] /\ d[i - 1] \notin S
    BY <1>2, <1>4 DEF Draws
  <2> QED BY <2>1, <1>1, <1>4
<1>7. ASSUME NEW a \in 2 .. Len(q), q[a] \notin S
      PROVE  \E i \in 2 .. Len(r) : r[i] = q[a]
  <2>1. a - 1 \in 1 .. Len(p) /\ p[a - 1] \notin S /\ q[a] = p[a - 1]
    BY <1>1, <1>7
  <2>2. PICK i \in 1 .. Len(d) : d[i] = p[a - 1]
    BY <2>1, <1>2 DEF Draws
  <2> QED BY <2>1, <2>2, <1>4
<1> QED BY <1>5, <1>6, <1>7 DEF PendingFrom

(* A queue whose head is retired.                                          *)
LEMMA TailFacts ==
  ASSUME NEW q \in Seq(Tasks), q # <<>>
  PROVE  PendingFrom(Tail(q), q) /\ PendingIn(q, Tail(q))
<1> DEFINE r == Tail(q)
<1>1. /\ \A i \in 2 .. Len(r) : i + 1 \in 2 .. Len(q) /\ r[i] = q[i + 1]
      /\ \A a \in 2 .. Len(q) : /\ a - 1 \in 1 .. Len(r) /\ r[a - 1] = q[a]
                                /\ q[a] \in Tasks
  OBVIOUS
<1>2. \A i, j \in 2 .. Len(r) : i # j => i + 1 # j + 1
  OBVIOUS
<1> HIDE DEF r
<1>3. PendingFrom(r, q)
  BY <1>1, <1>2 DEF PendingFrom
<1>4. PendingIn(q, r)
  BY <1>1, ContainsItself DEF PendingIn
<1> QED BY <1>3, <1>4 DEF r

LEMMA RemoveFirstDraws ==
  ASSUME NEW q \in Seq(Tasks), NEW t \in Tasks
  PROVE  PendingFrom(RemoveFirst(q, t), q)
<1> DEFINE hits == {i \in 2 .. Len(q) : <<q[i], t>> \in Same}
<1>1. CASE hits = {}
  <2>1. RemoveFirst(q, t) = q
    BY <1>1 DEF RemoveFirst
  <2> QED BY <2>1 DEF PendingFrom
<1>2. CASE hits # {}
  <2>1. \E j \in hits : \A k \in hits : j <= k
    <3>1. hits \in SUBSET Nat
      OBVIOUS
    <3> HIDE DEF hits
    <3> QED BY <3>1, <1>2, LeastMember
  <2>2. PICK h \in hits : RemoveFirst(q, t)
                            = SubSeq(q, 1, h - 1) \o SubSeq(q, h + 1, Len(q))
    BY <1>2, <2>1 DEF RemoveFirst
  <2>3. h \in 2 .. Len(q)
    OBVIOUS
  <2> HIDE DEF hits
  <2> DEFINE r == SubSeq(q, 1, h - 1) \o SubSeq(q, h + 1, Len(q))
  <2> DEFINE from(i) == IF i < h THEN i ELSE i + 1
  <2>4. \A i \in 2 .. Len(r) : from(i) \in 2 .. Len(q) /\ r[i] = q[from(i)]
    <3> DEFINE a == SubSeq(q, 1, h - 1)
    <3> DEFINE b == SubSeq(q, h + 1, Len(q))
    <3>1. /\ a \in Seq(Tasks) /\ Len(a) = h - 1
          /\ \A i \in 1 .. h - 1 : a[i] = q[i]
      BY <2>3
    <3>2. /\ b \in Seq(Tasks) /\ Len(b) = Len(q) - h
          /\ \A i \in 1 .. Len(q) - h : b[i] = q[i + h]
      BY <2>3
    <3> HIDE DEF a, b
    <3>3. ASSUME NEW i \in 2 .. Len(a \o b)
          PROVE  /\ from(i) \in 2 .. Len(q)
                 /\ (a \o b)[i] = q[from(i)]
      <4>1. i \in 2 .. Len(q) - 1
        BY <3>1, <3>2, <2>3
      <4>2. CASE i < h
        BY <4>1, <4>2, <3>1, <3>2, <2>3
      <4>3. CASE i >= h
        <5>1. i - (h - 1) \in 1 .. Len(q) - h
          BY <4>1, <4>3, <2>3
        <5>2. (a \o b)[i] = b[i - (h - 1)]
          BY <4>1, <4>3, <3>1, <3>2, <2>3
        <5>3. (i - (h - 1)) + h = i + 1
          BY <4>1, <2>3
        <5>4. b[i - (h - 1)] = q[i + 1]
          BY <5>1, <5>3, <3>2
        <5> QED BY <5>2, <5>4, <4>1, <4>3, <2>3
      <4> QED BY <4>1, <4>2, <4>3, <2>3
    <3> QED BY <3>3 DEF a, b
  <2>5. \A i, j \in 2 .. Len(r) : i # j => from(i) # from(j)
    BY <2>3
  <2> HIDE DEF r, from
  <2>6. PendingFrom(r, q)
    BY <2>4, <2>5 DEF PendingFrom
  <2> QED BY <2>2, <2>6 DEF r
<1> QED BY <1>1, <1>2

LEMMA ReorderedDraws ==
  ASSUME NEW q \in Seq(Tasks), NEW front \in SUBSET Tasks
  PROVE  /\ PendingFrom(Reordered(q, front), q)
         /\ PendingIn(q, Reordered(q, front))
<1>1. CASE Len(q) <= 2
  <2>1. Reordered(q, front) = q
    BY <1>1 DEF Reordered
  <2>2. \A a \in 2 .. Len(q) : a \in 1 .. Len(q) /\ q[a] \in Tasks
    OBVIOUS
  <2> QED BY <2>1, <2>2, ContainsItself DEF PendingFrom, PendingIn
<1>2. CASE Len(q) > 2
  <2> DEFINE p == Tail(q)
  <2> DEFINE x == Without(p, Tasks \ front)
  <2> DEFINE y == Without(p, front)
  <2> DEFINE r == <<Head(q)>> \o x \o y
  <2>1. /\ p \in Seq(Tasks)
        /\ \A a \in 1 .. Len(p) : p[a] = q[a + 1] /\ a + 1 \in 2 .. Len(q)
        /\ \A a \in 2 .. Len(q) : /\ a - 1 \in 1 .. Len(p) /\ q[a] = p[a - 1]
                                  /\ q[a] \in Tasks
        /\ \A a, b \in 1 .. Len(p) : a # b => a + 1 # b + 1
    BY <1>2
  <2> HIDE DEF p
  <2>2. /\ x \in Seq(Tasks) /\ Draws(x, p, Tasks \ front, Len(p))
        /\ y \in Seq(Tasks) /\ Draws(y, p, front, Len(p))
    BY <2>1, WithoutType, WithoutDraws
  <2> HIDE DEF x, y
  <2>3. r = Reordered(q, front)
    BY <1>2 DEF Reordered, x, y, p
  <2> DEFINE n == 1 + Len(x)
  <2>4. \A i \in 2 .. Len(r) :
          \/ i <= n /\ i - 1 \in 1 .. Len(x) /\ r[i] = x[i - 1]
          \/ i > n /\ i - n \in 1 .. Len(y) /\ r[i] = y[i - n]
    BY <2>2
  <2>5. /\ \A i \in 1 .. Len(x) : i + 1 \in 1 .. Len(r) /\ r[i + 1] = x[i]
        /\ \A i \in 1 .. Len(y) : i + n \in 1 .. Len(r) /\ r[i + n] = y[i]
        /\ n \in Nat
    BY <2>2
  <2> HIDE DEF r, n
  <2>6. \A i \in 1 .. Len(x) :
          \E a \in 1 .. Len(p) : x[i] = p[a] /\ x[i] \in front
    <3>1. SUFFICES ASSUME NEW i \in 1 .. Len(x)
                   PROVE  \E a \in 1 .. Len(p) : x[i] = p[a] /\ x[i] \in front
      OBVIOUS
    <3>2. x[i] \in Tasks
      BY <2>2
    <3>3. PICK a \in 1 .. Len(p) : x[i] = p[a] /\ x[i] \notin Tasks \ front
      BY <2>2, Zenon DEF Draws
    <3> QED BY <3>2, <3>3, Zenon
  <2>7. \A i \in 1 .. Len(y) :
          \E a \in 1 .. Len(p) : y[i] = p[a] /\ y[i] \notin front
    BY <2>2 DEF Draws
  <2>8. ASSUME NEW i \in 2 .. Len(r), NEW j \in 2 .. Len(r), i # j
        PROVE  \E a, b \in 1 .. Len(p) : a # b /\ r[i] = p[a] /\ r[j] = p[b]
    <3>1. CASE i <= n /\ j <= n
      <4>1. /\ i - 1 \in 1 .. Len(x) /\ j - 1 \in 1 .. Len(x) /\ i - 1 # j - 1
            /\ r[i] = x[i - 1] /\ r[j] = x[j - 1]
        BY <3>1, <2>4, <2>5, <2>8
      <4>2. PICK a, b \in 1 .. Len(p) :
              a # b /\ x[i - 1] = p[a] /\ x[j - 1] = p[b]
        BY <4>1, <2>2, Zenon DEF Draws
      <4> QED BY <4>1, <4>2, Zenon
    <3>2. CASE i > n /\ j > n
      <4>1. /\ i - n \in 1 .. Len(y) /\ j - n \in 1 .. Len(y) /\ i - n # j - n
            /\ r[i] = y[i - n] /\ r[j] = y[j - n]
        BY <3>2, <2>4, <2>5, <2>8
      <4>2. PICK a, b \in 1 .. Len(p) :
              a # b /\ y[i - n] = p[a] /\ y[j - n] = p[b]
        BY <4>1, <2>2, Zenon DEF Draws
      <4> QED BY <4>1, <4>2, Zenon
    <3>3. CASE i <= n /\ j > n
      <4>1. /\ i - 1 \in 1 .. Len(x) /\ r[i] = x[i - 1]
            /\ j - n \in 1 .. Len(y) /\ r[j] = y[j - n]
        BY <3>3, <2>4, <2>5
      <4>2. PICK a \in 1 .. Len(p) : x[i - 1] = p[a] /\ x[i - 1] \in front
        BY <4>1, <2>6, Zenon
      <4>3. PICK b \in 1 .. Len(p) : y[j - n] = p[b] /\ y[j - n] \notin front
        BY <4>1, <2>7, Zenon
      <4> QED BY <4>1, <4>2, <4>3, Zenon
    <3>4. CASE i > n /\ j <= n
      <4>1. /\ j - 1 \in 1 .. Len(x) /\ r[j] = x[j - 1]
            /\ i - n \in 1 .. Len(y) /\ r[i] = y[i - n]
        BY <3>4, <2>4, <2>5
      <4>2. PICK b \in 1 .. Len(p) : x[j - 1] = p[b] /\ x[j - 1] \in front
        BY <4>1, <2>6, Zenon
      <4>3. PICK a \in 1 .. Len(p) : y[i - n] = p[a] /\ y[i - n] \notin front
        BY <4>1, <2>7, Zenon
      <4> QED BY <4>1, <4>2, <4>3, Zenon
    <3> QED BY <3>1, <3>2, <3>3, <3>4, <2>5
  <2>9. PendingFrom(r, q)
    <3>1. ASSUME NEW i \in 2 .. Len(r), NEW j \in 2 .. Len(r), i # j
          PROVE  \E a, b \in 2 .. Len(q) : a # b /\ r[i] = q[a] /\ r[j] = q[b]
      <4>1. PICK a, b \in 1 .. Len(p) : a # b /\ r[i] = p[a] /\ r[j] = p[b]
        BY <3>1, <2>8
      <4> QED BY <4>1, <2>1
    <3> QED BY <3>1 DEF PendingFrom
  <2>10. PendingIn(q, r)
    <3>1. ASSUME NEW a \in 2 .. Len(q)
          PROVE  \E i \in 1 .. Len(r) : r[i] = q[a]
      <4>1. a - 1 \in 1 .. Len(p) /\ q[a] = p[a - 1]
        BY <2>1
      <4>2. CASE q[a] \in front
        <5>1. PICK i \in 1 .. Len(x) : x[i] = p[a - 1]
          BY <4>1, <4>2, <2>2 DEF Draws
        <5> QED BY <4>1, <5>1, <2>5
      <4>3. CASE q[a] \notin front
        <5>1. PICK i \in 1 .. Len(y) : y[i] = p[a - 1]
          BY <4>1, <4>3, <2>2 DEF Draws
        <5> QED BY <4>1, <5>1, <2>5
      <4> QED BY <4>2, <4>3
    <3> QED BY <3>1, <2>1, ContainsItself DEF PendingIn
  <2> QED BY <2>3, <2>9, <2>10
<1> QED BY <1>1, <1>2

(* What the new task contains goes, and nothing else.                      *)
LEMMA DropContainedDraws ==
  ASSUME NEW q \in Seq(Tasks), NEW t \in Tasks
  PROVE  LET d == DropContained(q, t)
         IN  /\ d \in Seq(Tasks) /\ PendingFrom(d, q) /\ (q # <<>> => d # <<>>)
             /\ \A i \in 2 .. Len(d) :
                  /\ <<t, d[i]>> \notin Contains
                  /\ \E a \in 2 .. Len(q) : d[i] = q[a]
             /\ \A a \in 2 .. Len(q) :
                  \/ <<t, q[a]>> \in Contains
                  \/ \E i \in 2 .. Len(d) : d[i] = q[a]
<1> DEFINE d == DropContained(q, t)
<1>1. CASE Len(q) < 2
  <2>1. d = q /\ 2 .. Len(q) = {}
    BY <1>1 DEF DropContained
  <2> QED BY <2>1 DEF PendingFrom
<1>2. CASE Len(q) >= 2
  <2>1. d = WithoutBehindHead(q, ContainedIn(t)) /\ q # <<>>
    BY <1>2 DEF DropContained
  <2>2. d \in Seq(Tasks) /\ d # <<>>
    BY <2>1, WithoutBehindHeadFacts
  <2>3. \A s \in Tasks : s \in ContainedIn(t) <=> <<t, s>> \in Contains
    BY DEF ContainedIn
  <2>4. /\ \A i \in 2 .. Len(q) : q[i] \in Tasks
        /\ \A i \in 2 .. Len(d) : d[i] \in Tasks
    BY <2>2
  <2> HIDE DEF d
  <2>5. /\ PendingFrom(d, q)
        /\ \A i \in 2 .. Len(d) : /\ d[i] \notin ContainedIn(t)
                                  /\ \E a \in 2 .. Len(q) : d[i] = q[a]
        /\ \A a \in 2 .. Len(q) :
             q[a] \notin ContainedIn(t) => \E i \in 2 .. Len(d) : d[i] = q[a]
    <3> DEFINE S == ContainedIn(t)
    <3>1. d = WithoutBehindHead(q, S) /\ q # <<>>
      BY <2>1
    <3> HIDE DEF S
    <3> QED BY <3>1, WithoutBehindHeadDraws DEF S
  <2>6. \A i \in 2 .. Len(d) : /\ <<t, d[i]>> \notin Contains
                               /\ \E a \in 2 .. Len(q) : d[i] = q[a]
    BY <2>3, <2>4, <2>5, Zenon
  <2>7. \A a \in 2 .. Len(q) : \/ <<t, q[a]>> \in Contains
                               \/ \E i \in 2 .. Len(d) : d[i] = q[a]
    BY <2>3, <2>4, <2>5, Zenon
  <2> QED BY <2>2, <2>5, <2>6, <2>7, Zenon DEF d
<1> QED BY <1>1, <1>2

(* A task that nothing pending contains joins, at the end or behind the    *)
(* head, and what was pending is covered.                                  *)
LEMMA ScheduledApart ==
  ASSUME NEW q \in Seq(Tasks), NEW t \in Tasks,
         ~ContainsRenderTask(q, t), Apart(q),
         NEW s \in {Scheduled(q, t), ScheduledNext(q, t)}
  PROVE  Apart(s) /\ PendingIn(q, s)
<1> DEFINE d == DropContained(q, t)
<1>1. /\ d \in Seq(Tasks) /\ PendingFrom(d, q) /\ (q # <<>> => d # <<>>)
      /\ \A i \in 2 .. Len(d) : /\ <<t, d[i]>> \notin Contains
                                /\ \E a \in 2 .. Len(q) : d[i] = q[a]
      /\ \A a \in 2 .. Len(q) : \/ <<t, q[a]>> \in Contains
                                \/ \E i \in 2 .. Len(d) : d[i] = q[a]
  BY DropContainedDraws
<1>2. Apart(d)
  BY <1>1, FromApart
<1>3. \A a \in 2 .. Len(q) : <<q[a], t>> \notin Contains
  BY DEF ContainsRenderTask, Pending
<1>4. /\ s = Append(d, t) \/ (q # <<>> /\ s = <<Head(q), t>> \o Tail(d))
  BY DEF Scheduled, ScheduledNext, d
<1>5. \A a \in 2 .. Len(q) : q[a] \in Tasks
  OBVIOUS
<1> HIDE DEF d
<1>6. ASSUME NEW last, last \in 1 .. Len(s), s[last] = t,
             \A i \in 2 .. Len(s) :
               i = last \/ \E a \in 2 .. Len(d) : s[i] = d[a],
             \A i, j \in 2 .. Len(s) : i # j /\ i # last /\ j # last =>
               \E a, b \in 2 .. Len(d) : a # b /\ s[i] = d[a] /\ s[j] = d[b],
             \A a \in 2 .. Len(d) : \E i \in 1 .. Len(s) : s[i] = d[a]
      PROVE  Apart(s) /\ PendingIn(q, s)
  <2>1. ASSUME NEW i \in 2 .. Len(s), NEW j \in 2 .. Len(s), i # j
        PROVE  <<s[i], s[j]>> \notin Contains
    <3>1. CASE i = last
      <4>1. PICK b \in 2 .. Len(d) : s[j] = d[b]
        BY <3>1, <2>1, <1>6, Zenon
      <4>2. <<t, d[b]>> \notin Contains
        BY <1>1, Zenon
      <4> QED BY <3>1, <4>1, <4>2, <1>6, Zenon
    <3>2. CASE j = last
      <4>1. PICK a \in 2 .. Len(d) : s[i] = d[a]
        BY <3>2, <2>1, <1>6, Zenon
      <4>2. PICK c \in 2 .. Len(q) : d[a] = q[c]
        BY <1>1, Zenon
      <4>3. <<q[c], t>> \notin Contains
        BY <1>3, Zenon
      <4> QED BY <3>2, <4>1, <4>2, <4>3, <1>6, Zenon
    <3>3. CASE i # last /\ j # last
      <4>1. PICK a, b \in 2 .. Len(d) :
              a # b /\ s[i] = d[a] /\ s[j] = d[b]
        BY <3>3, <2>1, <1>6, Zenon
      <4>2. <<d[a], d[b]>> \notin Contains
        BY <4>1, <1>2, Zenon DEF Apart
      <4> QED BY <4>1, <4>2, Zenon
    <3> QED BY <3>1, <3>2, <3>3
  <2>2. ASSUME NEW a \in 2 .. Len(q)
        PROVE  \E i \in 1 .. Len(s) : <<s[i], q[a]>> \in Contains
    <3>1. CASE <<t, q[a]>> \in Contains
      BY <3>1, <1>6
    <3>2. CASE \E i \in 2 .. Len(d) : d[i] = q[a]
      BY <3>2, <1>5, <1>6, ContainsItself
    <3> QED BY <3>1, <3>2, <1>1
  <2> QED BY <2>1, <2>2 DEF Apart, PendingIn
<1>7. CASE s = Append(d, t)
  <2> DEFINE last == Len(d) + 1
  <2>1. /\ Len(s) = last /\ s[last] = t /\ last \in 1 .. Len(s)
        /\ \A i \in 1 .. Len(d) : i \in 1 .. Len(s) /\ s[i] = d[i]
        /\ \A i \in 2 .. Len(s) : i = last \/ i \in 2 .. Len(d)
        /\ \A i \in 2 .. Len(d) : i \in 1 .. Len(d)
    BY <1>1, <1>7
  <2> HIDE DEF last
  <2>2. \A i \in 2 .. Len(s) :
          i # last => i \in 2 .. Len(d) /\ s[i] = d[i]
    BY <2>1
  <2> QED BY <2>1, <2>2, <1>6
<1>8. CASE q # <<>> /\ s = <<Head(q), t>> \o Tail(d)
  <2>1. /\ Len(s) = Len(d) + 1 /\ s[2] = t /\ 2 \in 1 .. Len(s)
        /\ \A i \in 2 .. Len(s) :
             i # 2 => i - 1 \in 2 .. Len(d) /\ s[i] = d[i - 1]
        /\ \A i \in 2 .. Len(d) : i + 1 \in 1 .. Len(s) /\ s[i + 1] = d[i]
    <3>1. d # <<>> /\ Tail(d) \in Seq(Tasks) /\ Len(Tail(d)) = Len(d) - 1
      BY <1>1, <1>8
    <3> QED BY <1>1, <1>8, <3>1
  <2>2. \A i, j \in 2 .. Len(s) : i # j => i - 1 # j - 1
    OBVIOUS
  <2>3. \A i \in 2 .. Len(s) : i = 2 \/ \E a \in 2 .. Len(d) : s[i] = d[a]
    BY <2>1
  <2>4. ASSUME NEW i \in 2 .. Len(s), NEW j \in 2 .. Len(s),
               i # j, i # 2, j # 2
        PROVE  \E a, b \in 2 .. Len(d) : a # b /\ s[i] = d[a] /\ s[j] = d[b]
    <3>1. /\ i - 1 \in 2 .. Len(d) /\ s[i] = d[i - 1]
          /\ j - 1 \in 2 .. Len(d) /\ s[j] = d[j - 1] /\ i - 1 # j - 1
      BY <2>1, <2>2, <2>4
    <3> QED BY <3>1, Zenon
  <2>5. \A a \in 2 .. Len(d) : \E i \in 1 .. Len(s) : s[i] = d[a]
    BY <2>1
  <2> QED BY <2>1, <2>3, <2>4, <2>5, <1>6
<1> QED BY <1>4, <1>7, <1>8
------------------------------------------------------------------------------
(* The pool.                                                               *)

(* The type invariant is inductive: every queue operation gives a queue of *)
(* tasks and a worker that leaves finds itself counted.  The last needs    *)
(* busyCount > 0, so it is proved together with the count.                 *)
Occupancy ==
  /\ BusyCountExact
  /\ InsideHeadOnly

Safe == TypeOK /\ Occupancy

LEMMA InsideFinite == IsFiniteSet(Inside)
BY PoolAssumption, FS_Subset DEF Inside

LEMMA InsideFinitePrime == IsFiniteSet(Inside')
BY PoolAssumption, FS_Subset DEF Inside

(* Nobody is counted exactly when nobody is inside.                        *)
LEMMA CountedNobody ==
  ASSUME BusyCountExact, TypeOK
  PROVE  busyCount <= 0 <=> Inside = {}
<1>1. Cardinality(Inside) = 0 <=> Inside = {}
  BY InsideFinite, FS_EmptySet
<1>2. busyCount = Cardinality(Inside) /\ busyCount \in Nat
  BY DEF BusyCountExact, TypeOK
<1> QED BY <1>1, <1>2

LEMMA HeadIsTask == TypeOK /\ renderTasks # <<>> => Current \in Tasks
BY DEF TypeOK, Current

LEMMA InitSafe == Init => Safe
<1> SUFFICES ASSUME Init PROVE Safe
  OBVIOUS
<1>1. TypeOK
  <2>1. <<>> \in Seq(Tasks) /\ work \in [Tasks -> Nat]
    BY PoolAssumption DEF Init
  <2> QED BY <2>1 DEF Init, TypeOK, WorkerState, CallerState
<1>2. Inside = {}
  BY DEF Init, Inside
<1> QED BY <1>1, <1>2, FS_EmptySet
       DEF Init, Safe, Occupancy, BusyCountExact, InsideHeadOnly

(* A step that moves nobody into or out of a task, counts nobody and keeps *)
(* the head of the queue keeps the occupancy.                              *)
LEMMA HeadKeptOccupancy ==
  ASSUME Safe, Inside' = Inside, UNCHANGED <<busyCount, at>>,
         renderTasks # <<>> => renderTasks' # <<>> /\ Current' = Current
  PROVE  Occupancy'
BY DEF Safe, Occupancy, BusyCountExact, InsideHeadOnly

(* A worker that leaves was counted, and is no longer.                     *)
LEMMA LeaveSafe ==
  ASSUME Safe, NEW w \in Inside, NEW next \in {"ready", "backoff"},
         LeaveDoWork(w, next), errors' \in Nat
  PROVE  Safe'
<1>1. Inside' = Inside \ {w}
  BY DEF LeaveDoWork, WakeIdle, Inside, Safe, TypeOK
<1>2. /\ Cardinality(Inside') = Cardinality(Inside) - 1
      /\ Cardinality(Inside') \in Nat
  BY <1>1, InsideFinite, InsideFinitePrime, FS_RemoveElement,
     FS_CardinalityType
<1>3. BusyCountExact' /\ busyCount' \in Nat
  BY <1>2 DEF LeaveDoWork, Safe, Occupancy, BusyCountExact
<1>4. InsideHeadOnly'
  BY <1>1 DEF LeaveDoWork, Safe, Occupancy, InsideHeadOnly, TypeOK, Inside,
              queueVars, Current
<1>5. TypeOK'
  BY <1>3 DEF LeaveDoWork, Safe, TypeOK, WakeIdle, Woken, Inside, WorkerState,
              CallerState, queueVars
<1> QED BY <1>3, <1>4, <1>5 DEF Safe, Occupancy

LEMMA CallerSafe == Safe /\ Caller => Safe'
<1> SUFFICES ASSUME Safe, Caller PROVE Safe'
  OBVIOUS
<1> USE DEF Safe, Current
<1>1. ASSUME NEW members \in SUBSET Workers, Start(members) PROVE Safe'
  <2>1. Inside' = {} /\ TypeOK'
    BY <1>1 DEF Start, Inside, TypeOK, WorkerState, queueVars
  <2> QED BY <1>1, <2>1, FS_EmptySet
         DEF Start, Occupancy, BusyCountExact, InsideHeadOnly
<1>2. CASE Stop
  <2>1. Inside' = Inside
    BY <1>2 DEF Stop, Inside, TypeOK
  <2>2. TypeOK'
    BY <1>2 DEF Stop, TypeOK, WorkerState, CallerState, Woken, queueVars
  <2> QED BY <1>2, <2>1, <2>2, HeadKeptOccupancy DEF Stop, queueVars
<1>3. CASE Schedule
  <2> PICK t \in Tasks : ScheduleRenderTask(t) \/ ScheduleRenderTaskNext(t)
    BY <1>3 DEF Schedule
  <2> PICK q \in {Scheduled(renderTasks, t), ScheduledNext(renderTasks, t)} :
        Accept(t, q)
    BY DEF ScheduleRenderTask, ScheduleRenderTaskNext
  <2>1. Inside' = Inside
    BY DEF Accept, WakeIdle, Inside, TypeOK
  <2>2. /\ renderTasks' \in Seq(Tasks)
        /\ renderTasks # <<>> => renderTasks' # <<>> /\ Current' = Current
    BY ScheduledFacts DEF Accept, TypeOK
  <2>3. work' \in [Tasks -> Nat]
    BY HeadIsTask DEF Accept, MayCancel, TypeOK, CancelsHead
  <2>4. TypeOK'
    BY <2>2, <2>3
       DEF Accept, TypeOK, WakeIdle, Woken, WorkerState, CallerState
  <2> QED BY <2>1, <2>2, <2>4, HeadKeptOccupancy DEF Accept
<1>4. ASSUME NEW t \in Tasks, RemoveRenderTask(t) PROVE Safe'
  <2>1. /\ renderTasks' \in Seq(Tasks)
        /\ renderTasks' # <<>> /\ Current' = Current
    BY <1>4, RemoveFirstFacts DEF RemoveRenderTask, TypeOK
  <2>2. work' \in [Tasks -> Nat]
    BY <1>4, HeadIsTask DEF RemoveRenderTask, MayCancel, TypeOK
  <2>3. TypeOK' /\ Inside' = Inside
    BY <1>4, <2>1, <2>2 DEF RemoveRenderTask, TypeOK, poolVars, Inside
  <2> QED BY <1>4, <2>1, <2>3, HeadKeptOccupancy
         DEF RemoveRenderTask, poolVars
<1>5. ASSUME NEW S \in Selections, RemoveRenderTasksIf(S) PROVE Safe'
  <2>1. /\ renderTasks' \in Seq(Tasks)
        /\ renderTasks' # <<>> /\ Current' = Current
    BY <1>5, WithoutBehindHeadFacts DEF RemoveRenderTasksIf, TypeOK
  <2>2. work' \in [Tasks -> Nat]
    BY <1>5, HeadIsTask DEF RemoveRenderTasksIf, MayCancel, TypeOK
  <2>3. TypeOK' /\ Inside' = Inside
    BY <1>5, <2>1, <2>2 DEF RemoveRenderTasksIf, TypeOK, poolVars, Inside
  <2> QED BY <1>5, <2>1, <2>3, HeadKeptOccupancy
         DEF RemoveRenderTasksIf, poolVars
<1>6. ASSUME NEW front \in Selections, ReorderRenderTasks(front) PROVE Safe'
  <2>1. /\ renderTasks' \in Seq(Tasks)
        /\ renderTasks # <<>> => renderTasks' # <<>> /\ Current' = Current
    BY <1>6, ReorderedFacts DEF ReorderRenderTasks, TypeOK
  <2>2. TypeOK' /\ Inside' = Inside
    BY <1>6, <2>1 DEF ReorderRenderTasks, TypeOK, poolVars, Inside
  <2> QED BY <1>6, <2>1, <2>2, HeadKeptOccupancy
         DEF ReorderRenderTasks, poolVars
<1>7. CASE AwaitIdle \/ AwaitShutdown \/ CallerTimeout
  <2>1. TypeOK' /\ Inside' = Inside
    BY <1>7 DEF AwaitIdle, AwaitShutdown, CallerTimeout, Woken, TypeOK,
                CallerState, poolVars, queueVars, Inside
  <2> QED BY <1>7, <2>1, HeadKeptOccupancy
         DEF AwaitIdle, AwaitShutdown, CallerTimeout, poolVars, queueVars
<1> QED BY <1>1, <1>2, <1>3, <1>4, <1>5, <1>6, <1>7 DEF Caller, Remove

LEMMA WorkerSafe ==
  ASSUME Safe, NEW w \in Workers, Progress(w) \/ Throw(w)
  PROVE  Safe'
<1> USE DEF Safe, Current
<1>1. CASE Exit(w) \/ WaitForTask(w) \/ WorkerTimeout(w)
  <2>1. Inside' = Inside
    BY <1>1 DEF Exit, WaitForTask, WorkerTimeout, Turn, Inside, TypeOK
  <2>2. TypeOK'
    BY <1>1 DEF Exit, WaitForTask, WorkerTimeout, TypeOK, WorkerState, Woken,
                CallerState, queueVars
  <2> QED BY <1>1, <2>1, <2>2, HeadKeptOccupancy
         DEF Exit, WaitForTask, WorkerTimeout, queueVars
<1>2. CASE WaitForOthers(w)
  <2>1. Inside' = Inside
    BY <1>2 DEF WaitForOthers, Turn, Inside, TypeOK
  <2>2. TypeOK'
    BY <1>2, HeadIsTask
       DEF WaitForOthers, TypeOK, WorkerState, Follow, queueVars
  <2> QED BY <1>2, <2>1, <2>2, HeadKeptOccupancy DEF WaitForOthers, queueVars
<1>3. CASE Retire(w)
  <2>1. Inside = {} /\ Inside' = {}
    BY <1>3, CountedNobody
       DEF Retire, Occupancy, WakeIdle, Inside, TypeOK
  <2>2. completedTasks' \in Seq(Tasks)
    BY <1>3, PoolAssumption DEF Retire, PutCompleted, TypeOK
  <2>3. TypeOK'
    BY <1>3, <2>2 DEF Retire, TypeOK, WakeIdle, Woken, Follow, WorkerState,
                      CallerState
  <2> QED BY <1>3, <2>1, <2>3, FS_EmptySet
         DEF Retire, Occupancy, BusyCountExact, InsideHeadOnly
<1>4. CASE CallDoWork(w)
  <2>1. Inside' = Inside \cup {w} /\ w \notin Inside
    BY <1>4 DEF CallDoWork, Turn, Inside, TypeOK
  <2>2. BusyCountExact'
    BY <1>4, <2>1, InsideFinite, FS_AddElement
       DEF CallDoWork, Occupancy, BusyCountExact
  <2>3. InsideHeadOnly'
    BY <1>4, <2>1 DEF CallDoWork, Occupancy, InsideHeadOnly, Inside, TypeOK,
                      queueVars
  <2>4. TypeOK'
    <3>1. Head(renderTasks) \in Tasks
      BY <1>4 DEF CallDoWork, TypeOK
    <3>2. /\ tracked' \in Tasks \cup {NoTask}
          /\ at' \in [Workers -> Tasks \cup {NoTask}]
      BY <1>4, <3>1 DEF CallDoWork, TypeOK, Follow
    <3>3. busyCount' \in Nat /\ pc' \in [Workers -> WorkerState]
      BY <1>4 DEF CallDoWork, TypeOK, WorkerState
    <3> QED BY <1>4, <3>2, <3>3 DEF CallDoWork, TypeOK, queueVars
  <2> QED BY <2>2, <2>3, <2>4 DEF Occupancy
<1>5. CASE TakeUnit(w)
  <2>1. Inside' = Inside /\ at[w] \in Tasks
    BY <1>5 DEF TakeUnit, Inside, TypeOK, Occupancy, InsideHeadOnly
  <2>2. TypeOK'
    BY <1>5, <2>1 DEF TakeUnit, TypeOK, WorkerState
  <2> QED BY <1>5, <2>1, <2>2, HeadKeptOccupancy DEF TakeUnit
<1>6. CASE Return(w) \/ Throw(w)
  <2>1. w \in Inside
    BY <1>6 DEF Return, Throw, Inside
  <2>2. errors' \in Nat
    BY <1>6 DEF Return, Throw, TypeOK
  <2>3. LeaveDoWork(w, "ready") \/ LeaveDoWork(w, "backoff")
    BY <1>6 DEF Return, Throw
  <2> QED BY <2>1, <2>2, <2>3, LeaveSafe
<1> QED BY <1>1, <1>2, <1>3, <1>4, <1>5, <1>6 DEF Progress

LEMMA StepSafe == Safe /\ [Next]_vars => Safe'
<1> SUFFICES ASSUME Safe, [Next]_vars PROVE Safe'
  OBVIOUS
<1>1. CASE Caller
  BY <1>1, CallerSafe
<1>2. ASSUME NEW w \in Workers, Progress(w) \/ Throw(w) PROVE Safe'
  BY <1>2, WorkerSafe
<1>3. CASE UNCHANGED vars
  BY <1>3 DEF vars, poolVars, queueVars, Safe, TypeOK, Occupancy, Inside,
              BusyCountExact, InsideHeadOnly, Current
<1> QED BY <1>1, <1>2, <1>3 DEF Next

(* What is tracked, counted and occupied fits the queue in every state.    *)
THEOREM Safety == Spec => []Safe
BY InitSafe, StepSafe, PTL DEF Spec

(* Every reachable state of the pool has the types TypeOK gives it.        *)
THEOREM TypeCorrect == Spec => []TypeOK
<1>1. Safe => TypeOK
  BY DEF Safe
<1> QED BY <1>1, Safety, PTL

(* The busy count is exact and everyone inside a task is inside the head   *)
(* of the queue, whatever is scheduled, removed, thrown or restarted.      *)
THEOREM OccupancyCorrect == Spec => []BusyCountExact /\ []InsideHeadOnly
<1>1. Safe => BusyCountExact /\ InsideHeadOnly
  BY DEF Safe, Occupancy
<1> QED BY <1>1, Safety, PTL

(* What a caller does to the queue of a running pool leaves its head where *)
(* it is: a head is only ever replaced by a worker that retires it.        *)
LEMMA CallerKeepsHead ==
  ASSUME TypeOK, Caller, renderTasks # <<>>
  PROVE  renderTasks' # <<>> /\ Current' = Current
<1> USE DEF Current, TypeOK
<1>1. CASE \/ \E members \in SUBSET Workers : Start(members)
           \/ Stop \/ AwaitIdle \/ AwaitShutdown \/ CallerTimeout
  BY <1>1 DEF Start, Stop, AwaitIdle, AwaitShutdown, CallerTimeout, queueVars
<1>2. CASE Schedule
  <2> PICK t \in Tasks : ScheduleRenderTask(t) \/ ScheduleRenderTaskNext(t)
    BY <1>2 DEF Schedule
  <2>1. renderTasks' \in
          {Scheduled(renderTasks, t), ScheduledNext(renderTasks, t)}
    BY DEF ScheduleRenderTask, ScheduleRenderTaskNext, Accept
  <2> QED BY <2>1, ScheduledFacts
<1>3. ASSUME NEW t \in Tasks, RemoveRenderTask(t)
      PROVE  renderTasks' # <<>> /\ Current' = Current
  BY <1>3, RemoveFirstFacts DEF RemoveRenderTask
<1>4. ASSUME NEW S \in Selections, RemoveRenderTasksIf(S)
      PROVE  renderTasks' # <<>> /\ Current' = Current
  BY <1>4, WithoutBehindHeadFacts DEF RemoveRenderTasksIf
<1>5. ASSUME NEW front \in Selections, ReorderRenderTasks(front)
      PROVE  renderTasks' # <<>> /\ Current' = Current
  BY <1>5, ReorderedFacts DEF ReorderRenderTasks
<1> QED BY <1>1, <1>2, <1>3, <1>4, <1>5 DEF Caller, Remove

LEMMA CallerKeepsSampler ==
  ASSUME TypeOK, SamplerFollowsHead, Caller
  PROVE  SamplerFollowsHead'
<1>1. CASE Stop \/ \E members \in SUBSET Workers : Start(members)
  BY <1>1 DEF Stop, Start, SamplerFollowsHead
<1>2. CASE ~(Stop \/ \E members \in SUBSET Workers : Start(members))
  <2>1. UNCHANGED <<running, newTask, tracked>>
    BY <1>2 DEF Caller, Schedule, ScheduleRenderTask, ScheduleRenderTaskNext,
                Accept, Remove, RemoveRenderTask, RemoveRenderTasksIf,
                ReorderRenderTasks, AwaitIdle, AwaitShutdown, CallerTimeout,
                poolVars
  <2> QED BY <2>1, CallerKeepsHead DEF SamplerFollowsHead
<1> QED BY <1>1, <1>2

(* A worker that reads the head samples it if it is new, and a head that   *)
(* leaves the queue leaves the next one marked new.                        *)
LEMMA WorkerKeepsSampler ==
  ASSUME TypeOK, SamplerFollowsHead,
         NEW w \in Workers, Progress(w) \/ Throw(w)
  PROVE  SamplerFollowsHead'
<1> USE DEF SamplerFollowsHead, Current
<1>1. CASE WaitForOthers(w) \/ CallDoWork(w)
  BY <1>1 DEF WaitForOthers, CallDoWork, Turn, Follow, queueVars
<1>2. CASE Retire(w)
  BY <1>2 DEF Retire, Turn
<1>3. CASE \/ Exit(w) \/ WaitForTask(w) \/ TakeUnit(w)
           \/ Return(w) \/ Throw(w) \/ WorkerTimeout(w)
  BY <1>3 DEF Exit, WaitForTask, TakeUnit, Return, Throw, LeaveDoWork,
              WorkerTimeout, queueVars
<1> QED BY <1>1, <1>2, <1>3 DEF Progress

(* While the pool runs its sampler reads the task at the head of the queue *)
(* (#progressTracker), whatever callers do to the queue behind it.         *)
THEOREM SamplerCorrect == Spec => []SamplerFollowsHead
<1>1. Init => SamplerFollowsHead
  BY DEF Init, SamplerFollowsHead
<1>2. TypeOK /\ SamplerFollowsHead /\ [Next]_vars => SamplerFollowsHead'
  <2>1. UNCHANGED vars /\ SamplerFollowsHead => SamplerFollowsHead'
    BY DEF vars, poolVars, queueVars, SamplerFollowsHead, Current
  <2> QED BY <2>1, CallerKeepsSampler, WorkerKeepsSampler DEF Next
<1> QED BY <1>1, <1>2, TypeCorrect, PTL DEF Spec

(* Between entering and leaving a task everyone stays put.                 *)
LEMMA CallerStaysPut ==
  ASSUME TypeOK,
         Caller, ~\E members \in SUBSET Workers : Start(members)
  PROVE  Inside' = Inside /\ at' = at
<1> USE DEF TypeOK, Inside
<1>1. CASE Stop \/ AwaitIdle \/ AwaitShutdown \/ CallerTimeout
  BY <1>1 DEF Stop, AwaitIdle, AwaitShutdown, CallerTimeout, poolVars
<1>2. CASE Schedule
  BY <1>2 DEF Schedule, ScheduleRenderTask, ScheduleRenderTaskNext, Accept,
              WakeIdle
<1>3. CASE Remove \/ \E front \in Selections : ReorderRenderTasks(front)
  BY <1>3 DEF Remove, RemoveRenderTask, RemoveRenderTasksIf,
              ReorderRenderTasks, poolVars
<1> QED BY <1>1, <1>2, <1>3 DEF Caller

LEMMA WorkerStaysPut ==
  ASSUME TypeOK, NEW w \in Workers,
         \/ Exit(w) \/ WaitForTask(w) \/ Retire(w) \/ WaitForOthers(w)
         \/ TakeUnit(w) \/ WorkerTimeout(w)
  PROVE  Inside' = Inside /\ at' = at
<1> USE DEF TypeOK, Inside
<1>1. CASE Exit(w) \/ WaitForTask(w) \/ WaitForOthers(w) \/ WorkerTimeout(w)
  BY <1>1 DEF Exit, WaitForTask, WaitForOthers, WorkerTimeout, Turn
<1>2. CASE Retire(w) \/ TakeUnit(w)
  BY <1>2 DEF Retire, TakeUnit, WakeIdle
<1> QED BY <1>1, <1>2

(* One step of the pool is one turn-taking step or none: the turn passes   *)
(* only when nobody is inside, and the others only enter or leave.         *)
LEMMA StepTakesTurns ==
  ASSUME Safe, Safe', [Next]_vars
  PROVE  [Turns!Next]_(Turns!vars)
<1> DEFINE turn == IF renderTasks = <<>> THEN NoTask ELSE Current
<1> USE DEF Safe, Turns!vars
<1>1. turn \in Tasks \cup {NoTask} /\ turn' \in Tasks \cup {NoTask}
  BY DEF TypeOK, Current
<1>2. ASSUME Inside = {}, Inside' = {} PROVE [Turns!Next]_(Turns!vars)
  BY <1>1, <1>2 DEF Turns!Next, Turns!PassTurn
<1>3. ASSUME NEW v \in Inside, v \in Inside', at'[v] = at[v]
      PROVE  turn' = turn
  BY <1>3 DEF Occupancy, InsideHeadOnly
<1>4. ASSUME Inside' = Inside, at' = at PROVE [Turns!Next]_(Turns!vars)
  <2>1. CASE Inside = {}
    BY <1>2, <1>4, <2>1
  <2>2. CASE Inside # {}
    BY <1>3, <1>4, <2>2
  <2> QED BY <2>1, <2>2
<1>5. ASSUME NEW members \in SUBSET Workers, Start(members)
      PROVE  Inside = {} /\ Inside' = {}
  BY <1>5 DEF Start, IsRunning, Inside
<1>6. ASSUME NEW w \in Workers, CallDoWork(w)
      PROVE  [Turns!Next]_(Turns!vars)
  <2>1. w \notin Inside /\ Inside' = Inside \cup {w}
    BY <1>6 DEF CallDoWork, Turn, Inside, TypeOK
  <2>2. turn' = turn /\ turn # NoTask
    BY <1>6, PoolAssumption DEF CallDoWork, queueVars, Current, TypeOK
  <2>3. Turns!Enter(w)
    BY <2>1, <2>2 DEF Turns!Enter
  <2> QED BY <2>3 DEF Turns!Next
<1>7. ASSUME NEW w \in Workers, Return(w) \/ Throw(w)
      PROVE  [Turns!Next]_(Turns!vars)
  <2>1. w \in Inside /\ Inside' = Inside \ {w} /\ turn' = turn
    BY <1>7 DEF Return, Throw, LeaveDoWork, WakeIdle, Inside, TypeOK, Current,
                queueVars
  <2>2. Turns!Leave(w)
    BY <2>1 DEF Turns!Leave
  <2> QED BY <2>2 DEF Turns!Next
<1>8. CASE Caller
  <2>1. CASE \E members \in SUBSET Workers : Start(members)
    BY <2>1, <1>2, <1>5
  <2>2. CASE ~\E members \in SUBSET Workers : Start(members)
    <3>1. Inside' = Inside /\ at' = at
      BY <1>8, <2>2, CallerStaysPut DEF Caller
    <3> QED BY <3>1, <1>4
  <2> QED BY <2>1, <2>2
<1>9. ASSUME NEW w \in Workers, Progress(w) \/ Throw(w)
      PROVE  [Turns!Next]_(Turns!vars)
  <2>1. CASE CallDoWork(w)
    BY <2>1, <1>6
  <2>2. CASE Return(w) \/ Throw(w)
    BY <2>2, <1>7
  <2>3. CASE Exit(w) \/ WaitForTask(w) \/ Retire(w) \/ WaitForOthers(w)
             \/ TakeUnit(w) \/ WorkerTimeout(w)
    BY <2>3, <1>4, WorkerStaysPut
  <2> QED BY <1>9, <2>1, <2>2, <2>3 DEF Progress
<1>10. CASE UNCHANGED vars
  BY <1>10, <1>4 DEF vars, poolVars, Inside
<1> QED BY <1>8, <1>9, <1>10 DEF Next

(* The pool implements TaskTurns: tasks take turns, and a task's turn ends *)
(* only when nobody is inside it.                                          *)
THEOREM TurnsImplemented == Spec => TasksTakeTurns
<1>1. Init => Turns!Init
  BY DEF Init, Turns!Init, Inside
<1>2. Safe /\ Safe' /\ [Next]_vars => [Turns!Next]_(Turns!vars)
  BY StepTakesTurns
<1> QED BY <1>1, <1>2, Safety, PTL DEF Spec, TasksTakeTurns, Turns!Spec
------------------------------------------------------------------------------
(* What a step other than a removal does to the queue: it stays, loses its *)
(* head, is sorted, or is joined by a task nothing pending contains.  A    *)
(* removal takes places out of it.                                         *)
QueueStep ==
  \/ UNCHANGED renderTasks
  \/ renderTasks # <<>> /\ renderTasks' = Tail(renderTasks)
  \/ \E front \in SUBSET Tasks : renderTasks' = Reordered(renderTasks, front)
  \/ \E t \in Tasks :
       /\ ~ContainsRenderTask(renderTasks, t)
       /\ renderTasks' \in {Scheduled(renderTasks, t),
                            ScheduledNext(renderTasks, t)}

LEMMA StepIsQueueStep ==
  ASSUME [Next]_vars
  PROVE  QueueStep \/ Remove
<1>1. CASE UNCHANGED vars
  BY <1>1 DEF vars, queueVars, QueueStep
<1>2. CASE Schedule
  BY <1>2 DEF Schedule, ScheduleRenderTask, ScheduleRenderTaskNext, Accept,
              QueueStep
<1>3. ASSUME NEW front \in Selections, ReorderRenderTasks(front)
      PROVE  QueueStep
  BY <1>3, PoolAssumption DEF ReorderRenderTasks, QueueStep
<1>4. CASE \/ \E members \in SUBSET Workers : Start(members)
           \/ Stop \/ AwaitIdle \/ AwaitShutdown \/ CallerTimeout
  BY <1>4 DEF Start, Stop, AwaitIdle, AwaitShutdown, CallerTimeout, queueVars,
              QueueStep
<1>5. ASSUME NEW w \in Workers, Progress(w) \/ Throw(w) PROVE QueueStep
  <2>1. CASE Retire(w)
    BY <2>1 DEF Retire, QueueStep
  <2>2. CASE ~Retire(w)
    BY <1>5, <2>2
       DEF Progress, Exit, WaitForTask, WaitForOthers, CallDoWork, TakeUnit,
           Return, Throw, LeaveDoWork, WorkerTimeout, queueVars, QueueStep
  <2> QED BY <2>1, <2>2
<1> QED BY <1>1, <1>2, <1>3, <1>4, <1>5 DEF Next, Caller

LEMMA QueueStepKeepsApart ==
  ASSUME TypeOK, Apart(renderTasks), QueueStep
  PROVE  Apart(renderTasks') /\ PendingIn(renderTasks, renderTasks')
<1>1. renderTasks \in Seq(Tasks)
  BY DEF TypeOK
<1>2. CASE UNCHANGED renderTasks
  <2>1. \A a \in 2 .. Len(renderTasks) : /\ a \in 1 .. Len(renderTasks)
                                         /\ renderTasks[a] \in Tasks
    BY <1>1
  <2> QED BY <1>2, <2>1, ContainsItself DEF PendingIn
<1>3. CASE renderTasks # <<>> /\ renderTasks' = Tail(renderTasks)
  BY <1>1, <1>3, TailFacts, FromApart
<1>4. ASSUME NEW front \in SUBSET Tasks,
             renderTasks' = Reordered(renderTasks, front)
      PROVE  Apart(renderTasks') /\ PendingIn(renderTasks, renderTasks')
  BY <1>1, <1>4, ReorderedDraws, FromApart
<1>5. ASSUME NEW t \in Tasks, ~ContainsRenderTask(renderTasks, t),
             renderTasks' \in {Scheduled(renderTasks, t),
                               ScheduledNext(renderTasks, t)}
      PROVE  Apart(renderTasks') /\ PendingIn(renderTasks, renderTasks')
  BY <1>1, <1>5, ScheduledApart
<1> QED BY <1>2, <1>3, <1>4, <1>5 DEF QueueStep

LEMMA RemoveKeepsApart ==
  ASSUME TypeOK, Apart(renderTasks), Remove
  PROVE  Apart(renderTasks')
<1>1. renderTasks \in Seq(Tasks) /\ renderTasks # <<>>
  BY DEF TypeOK, Remove, RemoveRenderTask, RemoveRenderTasksIf
<1>2. ASSUME NEW t \in Tasks, RemoveRenderTask(t) PROVE Apart(renderTasks')
  <2>1. \/ renderTasks' = renderTasks
        \/ renderTasks' = RemoveFirst(renderTasks, t)
    BY <1>2 DEF RemoveRenderTask
  <2> QED BY <1>1, <2>1, RemoveFirstDraws, FromApart
<1>3. ASSUME NEW S \in Selections, RemoveRenderTasksIf(S)
      PROVE  Apart(renderTasks')
  BY <1>1, <1>3, WithoutBehindHeadDraws, FromApart DEF RemoveRenderTasksIf
<1> QED BY <1>2, <1>3 DEF Remove

(* Behind the head no queued task contains another: schedules leave out    *)
(* what is contained, and nothing else brings tasks together.              *)
THEOREM PendingCorrect == Spec => []PendingIncomparable
<1>1. Init => PendingIncomparable
  BY DEF Init, PendingIncomparable
<1>2. TypeOK /\ PendingIncomparable /\ [Next]_vars => PendingIncomparable'
  <2>1. PendingIncomparable <=> Apart(renderTasks)
    BY DEF PendingIncomparable, Apart
  <2>2. PendingIncomparable' <=> Apart(renderTasks')
    BY DEF PendingIncomparable, Apart
  <2> QED BY <2>1, <2>2, StepIsQueueStep, QueueStepKeepsApart,
             RemoveKeepsApart
<1> QED BY <1>1, <1>2, TypeCorrect, PTL DEF Spec

(* No step but a removal takes a pending task's work out of the queue.     *)
THEOREM CoverageCorrect == Spec => PendingStaysCovered
<1> DEFINE Covers == \A s \in Pending(renderTasks) :
                       \E i \in DOMAIN renderTasks' :
                         <<renderTasks'[i], s>> \in Contains
<1>1. TypeOK /\ TypeOK' /\ PendingIncomparable /\ [Next]_vars
        => [~Remove => Covers]_vars
  <2> SUFFICES ASSUME TypeOK, TypeOK', PendingIncomparable, [Next]_vars,
                      ~Remove
               PROVE  Covers
    OBVIOUS
  <2>1. Apart(renderTasks)
    BY DEF PendingIncomparable, Apart
  <2>2. PendingIn(renderTasks, renderTasks')
    BY <2>1, StepIsQueueStep, QueueStepKeepsApart
  <2>3. DOMAIN renderTasks' = 1 .. Len(renderTasks')
    BY DEF TypeOK
  <2> QED BY <2>2, <2>3 DEF PendingIn, Pending
<1> QED BY <1>1, TypeCorrect, PendingCorrect, PTL DEF Spec, PendingStaysCovered
==============================================================================

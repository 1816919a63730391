-------------------------- MODULE Scheduler_proofs --------------------------
(***************************************************************************)
(* Proofs about Scheduler for every set of tasks and every interval.       *)
(***************************************************************************)
EXTENDS Scheduler, SequenceTheorems, WellFoundedInduction, TLAPS

-----------------------------------------------------------------------------
(* The list operations *)

\* A non-empty set of naturals has a least member.
LEMMA LeastNat ==
  ASSUME NEW T \in SUBSET Nat, T # {}
  PROVE  \E x \in T : \A y \in T : x <= y
<1>1. PICK x \in T : \A y \in T : <<y, x>> \notin OpToRel(<, Nat)
  BY NatLessThanWellFounded, WFMin
<1>2. OpToRel(<, Nat) = {ss \in Nat \X Nat : ss[1] < ss[2]}
  BY Zenon DEF OpToRel
<1>3. \A y \in T : ~ y < x
  BY <1>1, <1>2
<1> QED BY <1>3

\* RemoveTaskInternal takes out an entry of the task.
LEMMA RemoveTaskPlace ==
  ASSUME NEW s \in Seq(Tasks), NEW t \in ToSet(s)
  PROVE  \E k \in 1..Len(s) : s[k] = t /\ RemoveTaskInternal(s, t) = RemoveAt(s, k)
<1> DEFINE I == {i \in 1..Len(s) : s[i] = t}
<1>1. I \in SUBSET Nat /\ I # {}
  BY DEF ToSet
<1>2. \E x \in I : \A y \in I : x <= y
  BY <1>1, LeastNat
<1>3. Min(I) \in I
  BY <1>2 DEF Min
<1>4. RemoveFirst(s, t) = RemoveAt(s, Min(I))
  BY <1>1 DEF RemoveFirst, SelectInSeq
<1> QED BY <1>3, <1>4 DEF RemoveTaskInternal

\* What it means for r to be s with t put in at place k.
InsertedAt(r, s, k, t) ==
  /\ r \in Seq(Tasks) /\ Len(r) = Len(s) + 1
  /\ \A j \in 1..Len(r) : r[j] = IF j < k THEN s[j] ELSE IF j = k THEN t ELSE s[j - 1]

\* InsertAt puts an element in at its place.
LEMMA InsertAtPlace ==
  ASSUME NEW s \in Seq(Tasks), NEW t \in Tasks, NEW k \in 1..(Len(s) + 1)
  PROVE  InsertedAt(InsertAt(s, k, t), s, k, t)
<1> DEFINE l == SubSeq(s, 1, k - 1)
           m == SubSeq(s, k, Len(s))
<1>1. Len(s) \in Nat /\ k \in Int /\ \A i \in 1..Len(s) : s[i] \in Tasks
  BY LenProperties, ElementOfSeq
<1>2. l \in Seq(Tasks) /\ Len(l) = k - 1 /\ \A i \in 1..(k - 1) : l[i] = s[i]
  BY <1>1, SubSeqProperties
<1>3. m \in Seq(Tasks) /\ Len(m) = Len(s) - k + 1 /\ \A i \in 1..(Len(s) - k + 1) : m[i] = s[k + i - 1]
  BY <1>1, SubSeqProperties
<1>4. <<t>> \in Seq(Tasks) /\ Len(<<t>>) = 1 /\ <<t>>[1] = t
  OBVIOUS
<1> HIDE DEF l, m
<1>5. /\ l \o <<t>> \in Seq(Tasks) /\ Len(l \o <<t>>) = k
      /\ \A i \in 1..k : (l \o <<t>>)[i] = IF i <= k - 1 THEN s[i] ELSE t
  BY <1>1, <1>2, <1>4, ConcatProperties
<1>6. /\ (l \o <<t>>) \o m \in Seq(Tasks) /\ Len((l \o <<t>>) \o m) = Len(s) + 1
      /\ \A i \in 1..(Len(s) + 1) :
            ((l \o <<t>>) \o m)[i] = IF i <= k THEN (l \o <<t>>)[i] ELSE m[i - k]
  <2> DEFINE q == l \o <<t>>
  <2>0. q \in Seq(Tasks) /\ Len(q) = k
    BY <1>5
  <2> HIDE DEF q
  <2>1. Len(q) + Len(m) = Len(s) + 1 /\ q \in Seq(Tasks) /\ Len(q) = k
    BY <1>1, <1>3, <2>0
  <2>2. /\ q \o m \in Seq(Tasks) /\ Len(q \o m) = Len(q) + Len(m)
        /\ \A i \in 1..(Len(q) + Len(m)) : (q \o m)[i] = IF i <= Len(q) THEN q[i] ELSE m[i - Len(q)]
    BY <1>3, <2>1, ConcatProperties
  <2>3. /\ q \o m \in Seq(Tasks) /\ Len(q \o m) = Len(s) + 1
        /\ \A i \in 1..(Len(s) + 1) : (q \o m)[i] = IF i <= k THEN q[i] ELSE m[i - k]
    BY <2>1, <2>2
  <2> QED BY <2>3 DEF q
<1> DEFINE q == l \o <<t>>
           r == q \o m
<1>7. /\ r \in Seq(Tasks) /\ Len(r) = Len(s) + 1
      /\ \A i \in 1..(Len(s) + 1) : r[i] = IF i <= k THEN q[i] ELSE m[i - k]
      /\ \A i \in 1..k : q[i] = IF i <= k - 1 THEN s[i] ELSE t
  BY <1>5, <1>6
<1> HIDE DEF q, r
<1>8. ASSUME NEW i \in 1..(Len(s) + 1)
      PROVE  r[i] = IF i < k THEN s[i] ELSE IF i = k THEN t ELSE s[i - 1]
  <2>1. CASE i <= k
    BY <1>1, <1>7, <2>1
  <2>2. CASE i > k
    <3>1. i - k \in 1..(Len(s) - k + 1) /\ k + (i - k) - 1 = i - 1
      BY <1>1, <2>2
    <3>2. m[i - k] = s[k + (i - k) - 1]
      BY <1>3, <3>1
    <3>3. r[i] = m[i - k]
      BY <1>1, <1>7, <2>2
    <3>4. ~(i < k) /\ i # k
      BY <1>1, <2>2
    <3> QED BY <3>1, <3>2, <3>3, <3>4
  <2> QED BY <1>1, <2>1, <2>2
<1>9. InsertAt(s, k, t) = r
  BY DEF InsertAt, r, q, l, m
<1> QED BY <1>7, <1>8, <1>9 DEF InsertedAt

\* So does putting it in front.
LEMMA FrontPlace ==
  ASSUME NEW s \in Seq(Tasks), NEW t \in Tasks
  PROVE  InsertedAt(<<t>> \o s, s, 1, t)
<1>1. <<t>> \in Seq(Tasks) /\ Len(<<t>>) = 1 /\ <<t>>[1] = t /\ Len(s) \in Nat
  BY LenProperties
<1>2. /\ <<t>> \o s \in Seq(Tasks) /\ Len(<<t>> \o s) = 1 + Len(s)
      /\ \A i \in 1..(1 + Len(s)) : (<<t>> \o s)[i] = IF i <= 1 THEN <<t>>[i] ELSE s[i - 1]
  BY <1>1, ConcatProperties
<1> QED BY <1>1, <1>2 DEF InsertedAt

\* A new task of the list is in it once, and so are the others.
LEMMA InsertedOnce ==
  ASSUME NEW s \in Seq(Tasks), NEW t \in Tasks, NEW k \in 1..(Len(s) + 1), NEW r,
         InsertedAt(r, s, k, t), t \notin ToSet(s), IsInjective(s)
  PROVE  /\ r \in Seq(Tasks) /\ r # <<>>
         /\ ToSet(r) = ToSet(s) \cup {t}
         /\ IsInjective(r)
         /\ Head(r) = IF k = 1 THEN t ELSE Head(s)
<1>1. Len(s) \in Nat /\ Len(r) = Len(s) + 1 /\ DOMAIN s = 1..Len(s) /\ DOMAIN r = 1..Len(r) /\ k \in Nat
  BY LenProperties DEF InsertedAt
<1>2. r \in Seq(Tasks) /\ r # <<>>
  BY <1>1 DEF InsertedAt
<1>3. \A j \in 1..Len(r) :
         /\ j < k => j \in 1..Len(s) /\ r[j] = s[j]
         /\ j = k => r[j] = t
         /\ j > k => j - 1 \in 1..Len(s) /\ r[j] = s[j - 1]
  BY <1>1 DEF InsertedAt
<1>4. \A j \in 1..Len(s) : s[j] # t
  BY <1>1 DEF ToSet
<1>5. ToSet(r) \subseteq ToSet(s) \cup {t}
  BY <1>1, <1>3 DEF ToSet
<1>6. ASSUME NEW j \in 1..Len(s) PROVE s[j] \in ToSet(r)
  <2>1. CASE j < k
    BY <1>1, <1>3, <2>1 DEF ToSet
  <2>2. CASE j >= k
    <3>1. j + 1 \in 1..Len(r) /\ j + 1 > k /\ (j + 1) - 1 = j
      BY <1>1, <2>2
    <3> QED BY <1>1, <1>3, <3>1 DEF ToSet
  <2> QED BY <1>1, <2>1, <2>2
<1>7. t \in ToSet(r)
  BY <1>1, <1>3 DEF ToSet
<1>8. ToSet(s) \subseteq ToSet(r)
  BY <1>1, <1>6 DEF ToSet
<1>9. ASSUME NEW i \in 1..Len(r), NEW j \in 1..Len(r), r[i] = r[j] PROVE i = j
  <2>1. \A x, y \in 1..Len(s) : s[x] = s[y] => x = y
    BY <1>1 DEF IsInjective
  <2> QED BY <1>1, <1>3, <1>4, <1>9, <2>1
<1>10. Head(r) = r[1] /\ 1 \in 1..Len(r) /\ (k # 1 => Head(s) = s[1])
  BY <1>1, <1>2
<1>11. Head(r) = IF k = 1 THEN t ELSE Head(s)
  BY <1>1, <1>3, <1>10
<1>12. IsInjective(r)
  BY <1>1, <1>9 DEF IsInjective
<1> QED BY <1>2, <1>5, <1>7, <1>8, <1>11, <1>12

\* AddTaskInternal adds the task once, in front exactly when the list is empty
\* or its first task is later.
LEMMA AddTaskFacts ==
  ASSUME NEW s \in Seq(Tasks), NEW t \in Tasks, NEW d \in [Tasks -> Int],
         t \notin ToSet(s), IsInjective(s)
  PROVE  /\ AddTaskInternal(s, t, d) \in Seq(Tasks)
         /\ AddTaskInternal(s, t, d) # <<>>
         /\ ToSet(AddTaskInternal(s, t, d)) = ToSet(s) \cup {t}
         /\ IsInjective(AddTaskInternal(s, t, d))
         /\ Head(AddTaskInternal(s, t, d)) =
              IF s = <<>> \/ d[Head(s)] > d[t] THEN t ELSE Head(s)
<1>1. Len(s) \in Nat /\ 1 \in 1..(Len(s) + 1)
  BY LenProperties
<1>2. CASE s = <<>> \/ d[Head(s)] > d[t]
  <2>1. AddTaskInternal(s, t, d) = <<t>> \o s
    BY <1>2 DEF AddTaskInternal
  <2>2. InsertedAt(<<t>> \o s, s, 1, t)
    BY FrontPlace
  <2> HIDE DEF AddTaskInternal
  <2> QED BY <1>1, <1>2, <2>1, <2>2, InsertedOnce
<1>3. CASE ~(s = <<>> \/ d[Head(s)] > d[t])
  <2> DEFINE I == {k \in 1..Len(s) : k = Len(s) \/ d[s[k]] >= d[t]}
             K == CHOOSE k \in 1..Len(s) :
                    /\ k = Len(s) \/ d[s[k]] >= d[t]
                    /\ \A l \in 1..(k - 1) : d[s[l]] < d[t]
  <2>1. Len(s) \in 1..Len(s)
    BY <1>1, <1>3
  <2>2. I \in SUBSET Nat /\ I # {}
    BY <1>1, <2>1
  <2>3. PICK k \in I : \A y \in I : k <= y
    BY <2>2, LeastNat
  <2>4. ASSUME NEW l \in 1..(k - 1) PROVE d[s[l]] < d[t]
    <3>1. l \in 1..Len(s) /\ l < k
      BY <1>1, <2>3
    <3>2. s[l] \in Tasks /\ d[s[l]] \in Int /\ d[t] \in Int
      BY <3>1, ElementOfSeq
    <3>3. l \notin I
      BY <2>2, <2>3, <3>1
    <3> QED BY <3>1, <3>2, <3>3
  <2>5. K \in 1..Len(s)
    BY <2>3, <2>4
  <2>6. K + 1 \in 1..(Len(s) + 1) /\ K + 1 # 1
    BY <1>1, <2>5
  <2>7. AddTaskInternal(s, t, d) = InsertAt(s, K + 1, t)
    BY <1>3 DEF AddTaskInternal
  <2> HIDE DEF K, I
  <2>8. InsertedAt(InsertAt(s, K + 1, t), s, K + 1, t)
    BY <2>6, InsertAtPlace
  <2> QED BY <1>3, <2>6, <2>7, <2>8, InsertedOnce
<1> QED BY <1>2, <1>3

\* RemoveTaskInternal takes the task out of the list and keeps the others.
LEMMA RemoveTaskFacts ==
  ASSUME NEW s \in Seq(Tasks), NEW t \in ToSet(s), IsInjective(s)
  PROVE  /\ RemoveTaskInternal(s, t) \in Seq(Tasks)
         /\ ToSet(RemoveTaskInternal(s, t)) = ToSet(s) \ {t}
         /\ IsInjective(RemoveTaskInternal(s, t))
<1>1. PICK k \in 1..Len(s) : s[k] = t /\ RemoveTaskInternal(s, t) = RemoveAt(s, k)
  BY RemoveTaskPlace
<1> DEFINE l == SubSeq(s, 1, k - 1)
           m == SubSeq(s, k + 1, Len(s))
           r == l \o m
<1>2. Len(s) \in Nat /\ DOMAIN s = 1..Len(s) /\ k \in Nat /\ \A i \in 1..Len(s) : s[i] \in Tasks
  BY LenProperties, ElementOfSeq
<1>3. l \in Seq(Tasks) /\ Len(l) = k - 1 /\ \A i \in 1..(k - 1) : l[i] = s[i]
  BY <1>2, SubSeqProperties
<1>4. m \in Seq(Tasks) /\ Len(m) = Len(s) - k /\ \A i \in 1..(Len(s) - k) : m[i] = s[k + i]
  <2>1. \A i \in (k + 1)..Len(s) : s[i] \in Tasks
    BY <1>2
  <2>2. /\ m \in Seq(Tasks)
        /\ Len(m) = IF k + 1 <= Len(s) THEN Len(s) - (k + 1) + 1 ELSE 0
        /\ \A i \in 1..(Len(s) - (k + 1) + 1) : m[i] = s[k + 1 + i - 1]
    BY <1>2, <2>1, SubSeqProperties
  <2> HIDE DEF m
  <2>3. Len(m) = Len(s) - k
    <3>1. k <= Len(s) /\ k \in Nat
      BY <1>2
    <3>2. CASE k + 1 <= Len(s)
      BY <1>2, <2>2, <3>1, <3>2
    <3>3. CASE ~(k + 1 <= Len(s))
      <4>1. k = Len(s)
        <5>1. \A a, b \in Nat : a <= b /\ ~(a + 1 <= b) => a = b
          OBVIOUS
        <5> QED BY <1>2, <3>1, <3>3, <5>1
      <4>2. Len(m) = 0
        BY <2>2, <3>3
      <4> QED BY <1>2, <4>1, <4>2
    <3> QED BY <3>2, <3>3
  <2>4. ASSUME NEW i \in 1..(Len(s) - k) PROVE m[i] = s[k + i]
    <3>1. i \in 1..(Len(s) - (k + 1) + 1) /\ k + 1 + i - 1 = k + i
      BY <1>2
    <3> QED BY <2>2, <3>1
  <2> QED BY <2>2, <2>3, <2>4
<1> HIDE DEF l, m
<1>5. /\ r \in Seq(Tasks) /\ Len(r) = Len(s) - 1
      /\ \A i \in 1..(Len(s) - 1) : r[i] = IF i <= k - 1 THEN l[i] ELSE m[i - (k - 1)]
  <2>1. Len(l) + Len(m) = Len(s) - 1
    BY <1>2, <1>3, <1>4
  <2>2. /\ r \in Seq(Tasks) /\ Len(r) = Len(l) + Len(m)
        /\ \A i \in 1..(Len(l) + Len(m)) : r[i] = IF i <= Len(l) THEN l[i] ELSE m[i - Len(l)]
    BY <1>3, <1>4, ConcatProperties
  <2> HIDE DEF r
  <2> QED BY <1>3, <2>1, <2>2
<1> HIDE DEF r
<1>6. \A i \in 1..Len(r) :
         /\ i < k => i \in 1..Len(s) /\ r[i] = s[i]
         /\ i >= k => i + 1 \in 1..Len(s) /\ r[i] = s[i + 1]
  <2> SUFFICES ASSUME NEW i \in 1..Len(r)
               PROVE  /\ i < k => i \in 1..Len(s) /\ r[i] = s[i]
                      /\ i >= k => i + 1 \in 1..Len(s) /\ r[i] = s[i + 1]
    OBVIOUS
  <2>1. CASE i < k
    <3>1. i \in 1..(Len(s) - 1) /\ i \in 1..(k - 1) /\ i \in 1..Len(s) /\ i <= k - 1 /\ ~(i >= k)
      BY <1>2, <1>5, <2>1
    <3>2. r[i] = l[i] /\ l[i] = s[i]
      BY <1>3, <1>5, <3>1
    <3> QED BY <3>1, <3>2
  <2>2. CASE i >= k
    <3>1. i - (k - 1) \in 1..(Len(s) - k) /\ k + (i - (k - 1)) = i + 1 /\ i + 1 \in 1..Len(s)
      BY <1>2, <1>5, <2>2
    <3>2. m[i - (k - 1)] = s[k + (i - (k - 1))]
      BY <1>4, <3>1
    <3> QED BY <1>2, <1>5, <2>2, <3>1, <3>2
  <2> QED BY <1>2, <1>5, <2>1, <2>2
<1>7. \A x, y \in 1..Len(s) : s[x] = s[y] => x = y
  BY <1>2 DEF IsInjective
<1>8. DOMAIN r = 1..Len(r) /\ Len(r) = Len(s) - 1
  BY <1>5, LenProperties
<1>9. ToSet(r) \subseteq ToSet(s) \ {t}
  <2> SUFFICES ASSUME NEW i \in 1..Len(r) PROVE r[i] \in ToSet(s) /\ r[i] # t
    BY <1>8 DEF ToSet
  <2>1. PICK j \in 1..Len(s) : r[i] = s[j] /\ j # k
    BY <1>2, <1>6, <1>8
  <2> QED BY <1>1, <1>2, <1>7, <2>1 DEF ToSet
<1>10. ASSUME NEW j \in 1..Len(s), s[j] # t PROVE s[j] \in ToSet(r)
  <2>1. j # k
    BY <1>1, <1>10
  <2>2. CASE j < k
    BY <1>2, <1>6, <1>8, <2>2 DEF ToSet
  <2>3. CASE j > k
    <3>1. j - 1 \in 1..Len(r) /\ j - 1 >= k /\ (j - 1) + 1 = j
      BY <1>2, <1>8, <2>3
    <3> QED BY <1>6, <1>8, <3>1 DEF ToSet
  <2> QED BY <1>2, <2>1, <2>2, <2>3
<1>11. ToSet(s) \ {t} \subseteq ToSet(r)
  BY <1>2, <1>10 DEF ToSet
<1>12. IsInjective(r)
  <2> SUFFICES ASSUME NEW i \in 1..Len(r), NEW j \in 1..Len(r), r[i] = r[j] PROVE i = j
    BY <1>8 DEF IsInjective
  <2> QED BY <1>2, <1>6, <1>7, <1>8
<1>13. RemoveTaskInternal(s, t) = r
  BY <1>1 DEF RemoveAt, r, l, m
<1> QED BY <1>5, <1>9, <1>11, <1>12, <1>13

-----------------------------------------------------------------------------
(* The inductive invariant *)

\* A task that is about to be put in the list is not in it yet, and nobody
\* else is about to put it in.
AddingNew ==
  /\ \A a \in Callers : call[a][1] = "insert" => call[a][2] \in Tasks \ alive
  /\ \A a, b \in Callers : call[a][1] = "insert" /\ call[a][2] = call[b][2] => a = b

SchedulerInv == TypeOK /\ ListedOnce /\ WakesForFirst /\ AddingNew

\* A caller's next step in a call, and the end of a call, are steps of a call.
LEMMA CallType ==
  ASSUME TypeOK, NEW a \in Callers, NEW t \in Tasks \cup {NoTask},
         NEW step \in {"none", "insert", "notify", "stop", "join", "gone"}
  PROVE  /\ [call EXCEPT ![a] = <<step, t>>] \in
              [Callers -> {"none", "insert", "notify", "stop", "join", "gone"} \X (Tasks \cup {NoTask})]
         /\ \A b \in Callers : [call EXCEPT ![a] = <<step, t>>][b] =
              IF b = a THEN <<step, t>> ELSE call[b]
BY DEF TypeOK

\* The first task of a list is in the list.
LEMMA HeadListed ==
  ASSUME NEW s \in Seq(Tasks), s # <<>>
  PROVE  Head(s) \in Tasks /\ Head(s) \in ToSet(s)
<1>1. Head(s) = s[1] /\ 1 \in DOMAIN s /\ Head(s) \in Tasks
  OBVIOUS
<1> QED BY <1>1 DEF ToSet

\* Taking the first task off leaves the others, each still once.
LEMMA TailFacts ==
  ASSUME NEW s \in Seq(Tasks), s # <<>>, IsInjective(s)
  PROVE  Tail(s) \in Seq(Tasks) /\ ToSet(Tail(s)) = ToSet(s) \ {Head(s)} /\ IsInjective(Tail(s))
<1>1. /\ Len(s) \in Nat /\ DOMAIN s = 1..Len(s) /\ Head(s) = s[1] /\ 1 \in 1..Len(s)
      /\ Tail(s) \in Seq(Tasks) /\ Len(Tail(s)) = Len(s) - 1 /\ DOMAIN Tail(s) = 1..(Len(s) - 1)
      /\ \A i \in 1..(Len(s) - 1) : Tail(s)[i] = s[i + 1]
  BY LenProperties, HeadTailProperties
<1>2. \A x, y \in 1..Len(s) : s[x] = s[y] => x = y
  BY <1>1 DEF IsInjective
<1>3. IsInjective(Tail(s))
  BY <1>1, <1>2 DEF IsInjective
<1>4. ToSet(Tail(s)) \subseteq ToSet(s) \ {Head(s)}
  BY <1>1, <1>2 DEF ToSet
<1>5. ASSUME NEW j \in 1..Len(s), s[j] # Head(s) PROVE s[j] \in ToSet(Tail(s))
  <2>1. j - 1 \in 1..(Len(s) - 1) /\ (j - 1) + 1 = j
    BY <1>1, <1>5
  <2> QED BY <1>1, <2>1 DEF ToSet
<1>6. ToSet(s) \ {Head(s)} \subseteq ToSet(Tail(s))
  BY <1>1, <1>5 DEF ToSet
<1> QED BY <1>1, <1>3, <1>4, <1>6

\* Adding a task that is not in the list changes no time of a listed one.
LEMMA AddTaskKeeps ==
  ASSUME SchedulerInv, NEW a \in Callers, NEW t \in Tasks, NEW n \in Intervals, AddTask(a, t, n)
  PROVE  SchedulerInv'
<1>1. /\ due' \in [Tasks -> Int] /\ interval' \in [Tasks -> Intervals \cup {0}]
      /\ \A u \in Tasks : u # t => due'[u] = due[u]
  BY SchedulerAssumption DEF SchedulerInv, TypeOK, AddTask
<1>2. call' = [call EXCEPT ![a] = <<"insert", t>>] /\ call[a] = None /\ t \notin alive
      /\ \A b \in Callers : call[b][2] # t
  BY DEF AddTask, Continue, CanCall, Unused
<1>3. /\ call' \in [Callers -> {"none", "insert", "notify", "stop", "join", "gone"} \X (Tasks \cup {NoTask})]
      /\ \A b \in Callers : call'[b] = IF b = a THEN <<"insert", t>> ELSE call[b]
  BY <1>2, CallType DEF SchedulerInv
<1>4. UNCHANGED <<list, alive, thread, wait, running, wake, stop>>
  BY DEF AddTask, threadVars
<1>5. TypeOK'
  BY <1>1, <1>3, <1>4 DEF SchedulerInv, TypeOK
<1>6. ListedOnce' /\ AddingNew'
  BY <1>2, <1>3, <1>4 DEF SchedulerInv, ListedOnce, AddingNew
<1>7. WakesForFirst'
  <2>1. Notified' <=> Notified
    BY <1>2, <1>3, <1>4 DEF Notified, None
  <2>2. list # <<>> => due'[Head(list)] = due[Head(list)]
    BY <1>1, <1>2, HeadListed DEF SchedulerInv, TypeOK, ListedOnce
  <2> QED BY <1>4, <2>1, <2>2 DEF SchedulerInv, WakesForFirst
<1> QED BY <1>5, <1>6, <1>7 DEF SchedulerInv

\* A call that has changed the list and is about to set the event.
LEMMA NotifyKeeps ==
  ASSUME SchedulerInv, NEW a \in Callers, NEW t \in Tasks,
         call' = [call EXCEPT ![a] = <<"notify", t>>],
         list' \in Seq(Tasks), due' \in [Tasks -> Int], interval' \in [Tasks -> Intervals \cup {0}],
         UNCHANGED <<thread, wait, running, wake, stop>>,
         alive' \subseteq Tasks, alive' \subseteq alive \cup {t},
         \A b \in Callers : b # a /\ call[b][1] = "insert" => call[b][2] # t,
         ListedOnce'
  PROVE  SchedulerInv'
<1>1. /\ call' \in [Callers -> {"none", "insert", "notify", "stop", "join", "gone"} \X (Tasks \cup {NoTask})]
      /\ \A b \in Callers : call'[b] = IF b = a THEN <<"notify", t>> ELSE call[b]
  <2>1. TypeOK /\ t \in Tasks \cup {NoTask}
        /\ "notify" \in {"none", "insert", "notify", "stop", "join", "gone"}
    BY DEF SchedulerInv
  <2> QED BY <2>1, CallType
<1>2. TypeOK'
  BY <1>1 DEF SchedulerInv, TypeOK
<1>3. AddingNew'
  BY <1>1 DEF SchedulerInv, AddingNew
<1>4. WakesForFirst'
  BY <1>1 DEF WakesForFirst, Notified
<1> QED BY <1>2, <1>3, <1>4 DEF SchedulerInv

\* A new task is put in once.
LEMMA InsertTaskKeeps ==
  ASSUME SchedulerInv, NEW a \in Callers, InsertTask(a)
  PROVE  SchedulerInv'
<1> DEFINE t == call[a][2]
<1>1. call[a][1] = "insert" /\ t \in Tasks \ alive
  BY DEF SchedulerInv, AddingNew, InsertTask, InCall
<1>2. list \in Seq(Tasks) /\ due \in [Tasks -> Int] /\ t \notin ToSet(list) /\ IsInjective(list)
  BY <1>1 DEF SchedulerInv, TypeOK, ListedOnce
<1>3. /\ list' = AddTaskInternal(list, t, due) /\ alive' = alive \cup {t}
      /\ call' = [call EXCEPT ![a] = <<"notify", t>>]
      /\ UNCHANGED <<due, interval, thread, wait, running, wake, stop>>
  BY DEF InsertTask, Continue, threadVars
<1>4. \A b \in Callers : b # a /\ call[b][1] = "insert" => call[b][2] # t
  BY <1>1 DEF SchedulerInv, AddingNew
<1> HIDE DEF t
<1>5. list' \in Seq(Tasks) /\ ListedOnce'
  BY <1>1, <1>2, <1>3, AddTaskFacts DEF SchedulerInv, ListedOnce
<1>6. alive' \subseteq Tasks /\ due' \in [Tasks -> Int] /\ interval' \in [Tasks -> Intervals \cup {0}]
  BY <1>1, <1>3 DEF SchedulerInv, TypeOK
<1> QED BY <1>1, <1>3, <1>4, <1>5, <1>6, NotifyKeeps

\* A removed task is in the list no more.
LEMMA RemoveTaskKeeps ==
  ASSUME SchedulerInv, NEW a \in Callers, NEW t \in Tasks, RemoveTask(a, t)
  PROVE  SchedulerInv'
<1>1. list \in Seq(Tasks) /\ t \in ToSet(list) /\ IsInjective(list)
  BY DEF SchedulerInv, TypeOK, ListedOnce, RemoveTask
<1>2. /\ list' = RemoveTaskInternal(list, t) /\ alive' = alive \ {t}
      /\ call' = [call EXCEPT ![a] = <<"notify", t>>]
      /\ UNCHANGED <<thread, wait, running, wake, stop>>
      /\ \A b \in Callers : call[b][2] # t
  BY DEF RemoveTask, Continue, threadVars, Unused
<1>3. list' \in Seq(Tasks) /\ ListedOnce'
  BY <1>1, <1>2, RemoveTaskFacts DEF SchedulerInv, ListedOnce
<1>4. alive' \subseteq Tasks /\ due' \in [Tasks -> Int] /\ interval' \in [Tasks -> Intervals \cup {0}]
  BY <1>2 DEF SchedulerInv, TypeOK, RemoveTask
<1> QED BY <1>2, <1>3, <1>4, NotifyKeeps

\* A rescheduled task moves to its new place.
LEMMA RescheduleTaskKeeps ==
  ASSUME SchedulerInv, NEW a \in Callers, NEW t \in Tasks, NEW n \in Intervals, RescheduleTask(a, t, n)
  PROVE  SchedulerInv'
<1> DEFINE s == RemoveTaskInternal(list, t)
<1>1. list \in Seq(Tasks) /\ t \in ToSet(list) /\ IsInjective(list)
  BY DEF SchedulerInv, TypeOK, ListedOnce, RescheduleTask
<1>2. s \in Seq(Tasks) /\ ToSet(s) = ToSet(list) \ {t} /\ IsInjective(s)
  BY <1>1, RemoveTaskFacts
<1>3. due' \in [Tasks -> Int] /\ interval' \in [Tasks -> Intervals \cup {0}]
  BY SchedulerAssumption DEF SchedulerInv, TypeOK, RescheduleTask
<1>4. /\ list' = AddTaskInternal(s, t, due') /\ alive' = alive
      /\ call' = [call EXCEPT ![a] = <<"notify", t>>]
      /\ UNCHANGED <<thread, wait, running, wake, stop>>
      /\ \A b \in Callers : call[b][2] # t
  BY DEF RescheduleTask, Continue, threadVars, Unused
<1> HIDE DEF s
<1>5. list' \in Seq(Tasks) /\ ListedOnce'
  <2>1. t \notin ToSet(s) /\ ToSet(s) \cup {t} = ToSet(list) /\ ToSet(list) = alive
    BY <1>1, <1>2 DEF SchedulerInv, ListedOnce
  <2>2. list' \in Seq(Tasks) /\ ToSet(list') = ToSet(s) \cup {t} /\ IsInjective(list')
    BY <1>2, <1>3, <1>4, <2>1, AddTaskFacts
  <2> QED BY <1>4, <2>1, <2>2 DEF ListedOnce
<1>6. alive' \subseteq Tasks
  BY <1>4 DEF SchedulerInv, TypeOK
<1> QED BY <1>3, <1>4, <1>5, <1>6, NotifyKeeps

\* A shutdown goes through its steps, at the end of which the list is empty.
LEMMA StoppingKeeps ==
  ASSUME SchedulerInv, Shutdown \/ Stopping \/ TerminateThread
  PROVE  SchedulerInv'
<1>1. "app" \in Callers
  BY DEF Callers
<1>2. CASE Shutdown \/ WakeToStop
  <2>1. PICK step \in {"stop", "join"} : call' = [call EXCEPT !["app"] = <<step, NoTask>>]
    BY <1>2 DEF Shutdown, WakeToStop, Continue
  <2>2. /\ call' \in [Callers -> {"none", "insert", "notify", "stop", "join", "gone"} \X (Tasks \cup {NoTask})]
        /\ \A b \in Callers : call'[b] = IF b = "app" THEN <<step, NoTask>> ELSE call[b]
    BY <1>1, <2>1, CallType DEF SchedulerInv
  <2>3. /\ UNCHANGED <<list, due, interval, alive, thread, wait, running>>
        /\ wake' \in BOOLEAN /\ stop' \in BOOLEAN
        /\ wake' \/ call'["app"] = <<"stop", NoTask>>
    BY <1>1, <1>2, <2>2 DEF Shutdown, WakeToStop, Continue, tasksVars, threadVars, SchedulerInv, TypeOK
  <2>4. TypeOK' /\ ListedOnce'
    BY <2>2, <2>3 DEF SchedulerInv, TypeOK, ListedOnce
  <2>5. AddingNew'
    BY <2>2, <2>3, SchedulerAssumption DEF SchedulerInv, AddingNew
  <2>6. WakesForFirst'
    BY <1>1, <2>3 DEF WakesForFirst, Notified
  <2> QED BY <2>4, <2>5, <2>6 DEF SchedulerInv
<1>3. CASE TerminateThread
  <2>1. thread' = "killed" /\ UNCHANGED <<list, due, interval, alive, wait, running, wake, stop, call>>
    BY <1>3 DEF TerminateThread, tasksVars
  <2> QED BY <2>1 DEF SchedulerInv, TypeOK, ListedOnce, WakesForFirst, AddingNew
<1>4. CASE FreeScheduler
  <2>1. /\ list' = <<>> /\ alive' = {} /\ UNCHANGED <<due, interval, thread, wait, running, wake, stop>>
        /\ call' = [call EXCEPT !["app"] = <<"gone", NoTask>>]
    BY <1>4 DEF FreeScheduler, threadVars, Continue
  <2>2. /\ call' \in [Callers -> {"none", "insert", "notify", "stop", "join", "gone"} \X (Tasks \cup {NoTask})]
        /\ \A b \in Callers : call'[b] = IF b = "app" THEN <<"gone", NoTask>> ELSE call[b]
    BY <1>1, <2>1, CallType DEF SchedulerInv
  <2>3. TypeOK'
    BY <2>1, <2>2 DEF SchedulerInv, TypeOK
  <2>4. ListedOnce' /\ WakesForFirst'
    BY <2>1 DEF ListedOnce, WakesForFirst, ToSet, IsInjective
  <2>5. AddingNew'
    BY <2>1, <2>2, SchedulerAssumption DEF SchedulerInv, AddingNew
  <2> QED BY <2>3, <2>4, <2>5 DEF SchedulerInv
<1> QED BY <1>2, <1>3, <1>4 DEF Stopping

\* The thread puts the task it runs back, and waits for no longer than the
\* first task allows.
LEMMA ThreadKeeps ==
  ASSUME SchedulerInv, Thread
  PROVE  SchedulerInv'
<1>1. CASE Check
  <2>1. /\ UNCHANGED <<list, due, interval, alive, running, wake, stop, call>>
        /\ wait' = Infinite /\ (thread' = "wait" => list = <<>>)
        /\ thread' \in {"exited", "wait", "work"}
    BY <1>1 DEF Check, tasksVars
  <2>2. TypeOK'
    BY <2>1 DEF SchedulerInv, TypeOK
  <2> QED BY <2>1, <2>2 DEF SchedulerInv, ListedOnce, WakesForFirst, AddingNew
<1>2. CASE CallbackReturns
  BY <1>2, SchedulerAssumption DEF CallbackReturns, tasksVars, SchedulerInv, TypeOK, ListedOnce, WakesForFirst, AddingNew
<1>3. CASE WaitReturns
  BY <1>3 DEF WaitReturns, tasksVars, SchedulerInv, TypeOK, ListedOnce, WakesForFirst, AddingNew
<1>4. CASE Work /\ list # <<>> /\ due[Head(list)] < 0
  <2> DEFINE t == Head(list)
             s == Tail(list)
  <2>1. t \in Tasks /\ t \in ToSet(list) /\ list \in Seq(Tasks) /\ IsInjective(list)
    BY <1>4, HeadListed DEF SchedulerInv, TypeOK, ListedOnce
  <2>2. s \in Seq(Tasks) /\ ToSet(s) = ToSet(list) \ {t} /\ IsInjective(s)
    BY <1>4, <2>1, TailFacts
  <2>3. /\ due' = [due EXCEPT ![t] = @ + interval[t]] /\ list' = AddTaskInternal(s, t, due')
        /\ running' = t /\ thread' = "callback" /\ UNCHANGED <<wait, interval, alive, wake, stop, call>>
    BY <1>4 DEF Work
  <2> HIDE DEF t, s
  <2>4. interval[t] \in Int /\ due[t] \in Int
    <3>1. interval[t] \in Intervals \cup {0}
      BY <2>1 DEF SchedulerInv, TypeOK
    <3>2. Intervals \cup {0} \subseteq Int
      BY SchedulerAssumption
    <3> QED BY <2>1, <3>1, <3>2 DEF SchedulerInv, TypeOK
  <2>5. due' \in [Tasks -> Int]
    BY <2>1, <2>3, <2>4 DEF SchedulerInv, TypeOK
  <2>6. list' \in Seq(Tasks) /\ ListedOnce'
    <3>1. t \notin ToSet(s) /\ ToSet(s) \cup {t} = ToSet(list) /\ ToSet(list) = alive
      BY <2>1, <2>2 DEF SchedulerInv, ListedOnce
    <3>2. list' \in Seq(Tasks) /\ ToSet(list') = ToSet(s) \cup {t} /\ IsInjective(list')
      BY <2>1, <2>2, <2>3, <2>5, <3>1, AddTaskFacts
    <3> QED BY <2>3, <3>1, <3>2 DEF ListedOnce
  <2>7. TypeOK' /\ WakesForFirst' /\ AddingNew'
    BY <2>1, <2>3, <2>5, <2>6 DEF SchedulerInv, TypeOK, WakesForFirst, AddingNew
  <2> QED BY <2>6, <2>7 DEF SchedulerInv
<1>5. CASE Work /\ ~(list # <<>> /\ due[Head(list)] < 0)
  <2>1. /\ wait' = IF list = <<>> THEN Infinite ELSE due[Head(list)]
        /\ thread' = "wait" /\ UNCHANGED <<list, due, running, interval, alive, wake, stop, call>>
    BY <1>5 DEF Work
  <2>2. list # <<>> => due[Head(list)] \in Nat
    BY <1>5, HeadListed DEF SchedulerInv, TypeOK
  <2>3. TypeOK' /\ ListedOnce' /\ AddingNew'
    BY <2>1, <2>2 DEF SchedulerInv, TypeOK, ListedOnce, AddingNew
  <2>4. WakesForFirst'
    BY <2>1, <2>2, SchedulerAssumption DEF WakesForFirst
  <2> QED BY <2>3, <2>4 DEF SchedulerInv
<1> QED BY <1>1, <1>2, <1>3, <1>4, <1>5 DEF Thread

\* Time brings the end of the wait and the first task closer by the same step.
LEMMA TickKeeps ==
  ASSUME SchedulerInv, Tick
  PROVE  SchedulerInv'
<1>1. /\ wait' = IF thread = "wait" /\ wait # Infinite /\ wait > 0 THEN wait - 1 ELSE wait
      /\ UNCHANGED <<list, interval, alive, thread, running, wake, stop, call>>
      /\ \A t \in ToSet(list) : t \in Tasks => due'[t] = due[t] - 1
  BY DEF Tick
<1>2. due' \in [Tasks -> Int]
  BY DEF Tick, SchedulerInv, TypeOK
<1>3. TypeOK' /\ ListedOnce' /\ AddingNew'
  BY <1>1, <1>2 DEF SchedulerInv, TypeOK, ListedOnce, AddingNew
<1>4. WakesForFirst'
  <2> SUFFICES ASSUME thread = "wait", ~Notified, list # <<>>
               PROVE  wait' # Infinite /\ (wait' = 0 \/ wait' <= due'[Head(list)])
    BY <1>1 DEF WakesForFirst, Notified
  <2>1. wait # Infinite /\ (wait = 0 \/ wait <= due[Head(list)]) /\ wait \in Nat
    BY DEF SchedulerInv, WakesForFirst, TypeOK
  <2>2. Head(list) \in ToSet(list) /\ Head(list) \in Tasks /\ due[Head(list)] \in Int
    BY HeadListed DEF SchedulerInv, TypeOK
  <2>3. due'[Head(list)] = due[Head(list)] - 1
    BY <1>1, <2>2
  <2>4. wait' \in Nat /\ (wait' = 0 \/ wait' = wait - 1)
    BY <1>1, <2>1
  <2>5. wait' # Infinite
    BY <2>4, SchedulerAssumption
  <2> QED BY <1>1, <2>1, <2>2, <2>3, <2>4, <2>5
<1> QED BY <1>3, <1>4 DEF SchedulerInv

\* Setting the event ends a call.
LEMMA SetEventKeeps ==
  ASSUME SchedulerInv, NEW a \in Callers, SetEvent(a)
  PROVE  SchedulerInv'
<1>1. wake' = TRUE /\ call' = [call EXCEPT ![a] = <<"none", NoTask>>]
      /\ UNCHANGED <<list, due, interval, alive, thread, wait, running, stop>>
  BY DEF SetEvent, None, tasksVars, threadVars
<1>2. /\ call' \in [Callers -> {"none", "insert", "notify", "stop", "join", "gone"} \X (Tasks \cup {NoTask})]
      /\ \A b \in Callers : call'[b] = IF b = a THEN <<"none", NoTask>> ELSE call[b]
  BY <1>1, CallType DEF SchedulerInv
<1>3. TypeOK' /\ ListedOnce' /\ WakesForFirst'
  BY <1>1, <1>2 DEF SchedulerInv, TypeOK, ListedOnce, WakesForFirst, Notified
<1>4. AddingNew'
  BY <1>1, <1>2, SchedulerAssumption DEF SchedulerInv, AddingNew
<1> QED BY <1>3, <1>4 DEF SchedulerInv

\* Every step keeps the invariant.
LEMMA SchedulerStep == SchedulerInv /\ [Next]_vars => SchedulerInv'
<1> SUFFICES ASSUME SchedulerInv, [Next]_vars PROVE SchedulerInv'
  OBVIOUS
<1>1. CASE UNCHANGED vars
  BY <1>1 DEF vars, tasksVars, threadVars, SchedulerInv, TypeOK, ListedOnce, WakesForFirst, Notified,
              AddingNew
<1>2. CASE \E a \in Callers : Call(a) \/ InsertTask(a) \/ SetEvent(a)
  BY <1>2, AddTaskKeeps, RescheduleTaskKeeps, RemoveTaskKeeps, InsertTaskKeeps, SetEventKeeps DEF Call
<1> QED BY <1>1, <1>2, StoppingKeeps, ThreadKeeps, TickKeeps DEF Next

\* The scheduler starts with nothing to do.
LEMMA SchedulerInit == Init => SchedulerInv
<1> SUFFICES ASSUME Init PROVE SchedulerInv
  OBVIOUS
<1>1. TypeOK
  <2>1. <<>> \in Seq(Tasks) /\ None \in {"none"} \X (Tasks \cup {NoTask})
    BY DEF None
  <2>2. call \in [Callers -> {"none", "insert", "notify", "stop", "join", "gone"} \X (Tasks \cup {NoTask})]
    BY <2>1 DEF Init
  <2>3. due \in [Tasks -> Int] /\ interval \in [Tasks -> Intervals \cup {0}] /\ list \in Seq(Tasks)
    BY <2>1 DEF Init
  <2>4. alive \subseteq Tasks /\ running \in Tasks \cup {NoTask} /\ wait \in Nat \cup {Infinite}
        /\ wake \in BOOLEAN /\ stop \in BOOLEAN
        /\ thread \in {"check", "work", "callback", "wait", "exited", "killed"}
    BY DEF Init
  <2> QED BY <2>2, <2>3, <2>4 DEF TypeOK
<1>2. ListedOnce /\ WakesForFirst /\ AddingNew
  BY DEF Init, ListedOnce, WakesForFirst, AddingNew, None, ToSet, IsInjective
<1> QED BY <1>1, <1>2 DEF SchedulerInv

\* The invariant holds in every state.
LEMMA SchedulerCorrect == Spec => []SchedulerInv
BY SchedulerInit, SchedulerStep, PTL DEF Spec

\* Every variable of the scheduler keeps its type: the time the thread waits
\* is never negative.
THEOREM TypeCorrect == Spec => []TypeOK
<1>1. SchedulerInv => TypeOK
  BY DEF SchedulerInv
<1> QED BY <1>1, SchedulerCorrect, PTL

\* A task that was added and not removed is in the list exactly once, whatever
\* the application and the callback in progress do to the list.
THEOREM TasksListedOnce == Spec => []ListedOnce
<1>1. SchedulerInv => ListedOnce
  BY DEF SchedulerInv
<1> QED BY <1>1, SchedulerCorrect, PTL

\* No change of the list is missed: unless somebody is about to wake it, the
\* thread wakes up no later than the first task of the list is due.
THEOREM FirstTaskWakes == Spec => []WakesForFirst
<1>1. SchedulerInv => WakesForFirst
  BY DEF SchedulerInv
<1> QED BY <1>1, SchedulerCorrect, PTL
=============================================================================

--------------------------- MODULE RateGateProofs ---------------------------
(***************************************************************************)
(* Proofs, for any callers, sizes, responses and initial budget, of the     *)
(* safety properties of RateGate.                                           *)
(***************************************************************************)
EXTENDS RateGate, FiniteSetTheorems, SequenceTheorems, WellFoundedInduction, TLAPS

(* A ceiling is known only with a rate, and a known request rate allows one *)
(* request at least: the gate looks at the oldest request only if there is  *)
(* one.                                                                     *)
BudgetInv ==
    /\ BudgetWithinCeiling
    /\ rpm = 0 => ceilRpm = 0
    /\ tpm = 0 => ceilTpm = 0
    /\ rpm = 0 \/ rpm >= 100
    /\ ceilRpm = 0 \/ ceilRpm >= 100

(* The invariant of a step: neither type nor sum can be kept without the    *)
(* other, because the running total is a natural number only as a sum.      *)
GateInv == TypeOK /\ WindowsConsistent /\ QueueMatches /\ BudgetInv

-----------------------------------------------------------------------------
(* Every set of natural numbers has a least element.                        *)
LEMMA LeastNumber ==
    ASSUME NEW T \in SUBSET Nat, T # {}
    PROVE  \E m \in T : \A n \in T : m <= n
  <1>1. \A m, n \in Nat : n < m => <<n, m>> \in OpToRel(<, Nat)
    BY DEF OpToRel
  <1>2. PICK R : IsWellFoundedOn(R, Nat) /\ \A m, n \in Nat : n < m => <<n, m>> \in R
    BY <1>1, NatLessThanWellFounded, Zenon
  <1>3. PICK m \in T : \A n \in T : <<n, m>> \notin R
    BY <1>2, WFMin
  <1>4. ASSUME NEW n \in T PROVE m <= n
    <2>1. n \in Nat /\ m \in Nat /\ ~(n < m)
      BY <1>2, <1>3
    <2> QED
      BY <2>1
  <1> QED
    BY <1>3, <1>4

(* h starts where f starts and grows by the steps of f, up to L.            *)
FollowsSteps(h, f, L) ==
    /\ \A n \in 0..L : f[n] \in Int
    /\ f[0] = h[0]
    /\ \A n \in 1..L : h[n] = h[n - 1] + (f[n] - f[n - 1])

(* Two functions that start alike and grow by the same steps are the same:  *)
(* there is no least argument at which they differ.                         *)
LEMMA SameSteps ==
    ASSUME NEW L \in Nat, NEW f, NEW h, FollowsSteps(h, f, L)
    PROVE  f[L] = h[L]
  <1> DEFINE T == {n \in 0..L : f[n] # h[n]}
  <1> SUFFICES ASSUME T # {} PROVE FALSE
    <2> L \in 0..L
      OBVIOUS
    <2> QED
      BY Zenon
  <1> USE DEF FollowsSteps
  <1>1. PICK m \in T : \A n \in T : m <= n
    <2> T \in SUBSET Nat
      OBVIOUS
    <2> QED
      BY LeastNumber
  <1>2. m \in 1..L
    BY <1>1
  <1>3. m - 1 \in 0..L /\ f[m - 1] = h[m - 1]
    BY <1>1, <1>2
  <1>4. h[m] = h[m - 1] + (f[m] - f[m - 1])
    BY <1>2
  <1>5. f[m] \in Int /\ f[m - 1] \in Int
    BY <1>2, <1>3
  <1>6. f[m] = h[m]
    BY <1>3, <1>4, <1>5
  <1> QED
    BY <1>1, <1>6

(* The types of the constants, one by one.                                  *)
LEMMA ConstantTypes ==
    /\ Window \in Nat \ {0} /\ Day \in Nat \ {0} /\ MaxLoops \in Nat \ {0} /\ GrowAfter \in Nat \ {0}
    /\ MaxBackoff \in Nat \ {0} /\ DefaultReset \in Nat \ {0}
    /\ Rpm \in Nat /\ Tpm \in Nat /\ Rpd \in Nat /\ MaxWait \in Nat
    /\ MinRpm \in Nat /\ MinRpm >= 100 /\ MinTpm \in Nat \ {0}
    /\ \A n \in Sizes \union Usages : n \in Nat \ {0}
  BY GateAssumption

(* f is the running sum of the first m values of g.                         *)
RunsUp(f, g, m) ==
    /\ f \in [0..m -> Nat]
    /\ f[0] = 0
    /\ \A n \in 1..m : f[n] = f[n - 1] + g[n]

(* The running sum of a sequence of numbers exists.                         *)
LEMMA SumExists ==
    ASSUME NEW L \in Nat, NEW g, \A n \in 1..L : g[n] \in Nat
    PROVE  \E f : RunsUp(f, g, L)
  <1> DEFINE T == {m \in 0..L : ~(\E f : RunsUp(f, g, m))}
  <1> SUFFICES ASSUME T # {} PROVE FALSE
    <2> L \in 0..L
      OBVIOUS
    <2> QED
      BY Zenon
  <1>1. PICK m \in T : \A n \in T : m <= n
    <2> T \in SUBSET Nat
      OBVIOUS
    <2> QED
      BY LeastNumber
  <1>2. RunsUp([n \in 0..0 |-> 0], g, 0)
    BY DEF RunsUp
  <1>3. m \in 0..L /\ ~(\E f : RunsUp(f, g, m))
    OBVIOUS
  <1>4. m # 0
    BY <1>2, <1>3, Zenon
  <1>5. m \in 1..L /\ m - 1 \in 0..L /\ ~(m <= m - 1)
    BY <1>3, <1>4
  <1>6. PICK f : RunsUp(f, g, m - 1)
    BY <1>1, <1>5, Zenon
  <1> DEFINE h == [n \in 0..m |-> IF n = m THEN f[m - 1] + g[m] ELSE f[n]]
  <1>7. g[m] \in Nat /\ f[m - 1] \in Nat /\ f \in [0..(m - 1) -> Nat] /\ f[0] = 0
    BY <1>5, <1>6 DEF RunsUp
  <1>8. h \in [0..m -> Nat] /\ h[0] = 0
    BY <1>5, <1>7
  <1>9. ASSUME NEW n \in 1..m PROVE h[n] = h[n - 1] + g[n]
    <2>1. CASE n = m
      BY <1>5, <2>1
    <2>2. CASE n # m
      <3>1. n \in 1..(m - 1) /\ n \in 0..m /\ n - 1 \in 0..m /\ n - 1 # m
        BY <1>5, <2>2
      <3>2. h[n] = f[n] /\ h[n - 1] = f[n - 1]
        BY <3>1, <2>2
      <3> QED
        BY <1>6, <3>1, <3>2 DEF RunsUp
    <2> QED
      BY <2>1, <2>2
  <1>10. RunsUp(h, g, m)
    <2> HIDE DEF h
    <2> QED
      BY <1>8, <1>9 DEF RunsUp
  <1> QED
    BY <1>3, <1>10, Zenon

(* What a sequence of entries is, element by element.                       *)
LEMMA Entries ==
    ASSUME NEW s \in Seq(Entry)
    PROVE  /\ Len(s) \in Nat
           /\ \A n \in 1..Len(s) : /\ s[n] \in Entry
                                   /\ s[n].size \in Nat /\ s[n].age \in 0..Window
  <1>1. \A e \in Entry : e.size \in Nat /\ e.age \in 0..Window
    BY DEF Entry
  <1>2. \A n \in 1..Len(s) : s[n] \in Entry
    OBVIOUS
  <1> QED
    BY <1>1, <1>2

(* SumSizes is the last value of the running sum of the sizes.              *)
SizesOf(s) == [n \in 1..Len(s) |-> s[n].size]

(* The recursive function in SumSizes is a running sum of the sizes.        *)
LEMMA RunningSum ==
    ASSUME NEW s \in Seq(Entry)
    PROVE  \E f : RunsUp(f, SizesOf(s), Len(s)) /\ SumSizes(s) = f[Len(s)]
  <1> DEFINE sum == CHOOSE f : f = [n \in 0..Len(s) |-> IF n = 0 THEN 0 ELSE f[n - 1] + s[n].size]
  <1>1. Len(s) \in Nat /\ \A n \in 1..Len(s) : SizesOf(s)[n] = s[n].size /\ SizesOf(s)[n] \in Nat
    BY Entries DEF SizesOf
  <1>2. PICK f : RunsUp(f, SizesOf(s), Len(s))
    BY <1>1, SumExists
  <1>3. f = [n \in 0..Len(s) |-> IF n = 0 THEN 0 ELSE f[n - 1] + s[n].size]
    BY <1>1, <1>2 DEF RunsUp
  <1>4. sum = [n \in 0..Len(s) |-> IF n = 0 THEN 0 ELSE sum[n - 1] + s[n].size]
    BY <1>3, Zenon
  <1>5. SumSizes(s) = sum[Len(s)]
    BY Zenon DEF SumSizes
  <1> HIDE DEF sum
  <1>6. f[0] = sum[0] /\ \A n \in 0..Len(s) : f[n] \in Int
    BY <1>1, <1>2, <1>4 DEF RunsUp
  <1>7. ASSUME NEW n \in 1..Len(s) PROVE sum[n] = sum[n - 1] + (f[n] - f[n - 1])
    <2>1. sum[n] = sum[n - 1] + s[n].size
      BY <1>1, <1>4
    <2>2. f[n] = f[n - 1] + s[n].size /\ f[n - 1] \in Int /\ s[n].size \in Int
      BY <1>1, <1>2 DEF RunsUp
    <2>3. f[n] - f[n - 1] = s[n].size
      BY <2>2
    <2> QED
      BY <2>1, <2>3
  <1>8. f[Len(s)] = sum[Len(s)]
    <2>1. FollowsSteps(sum, f, Len(s))
      BY <1>6, <1>7 DEF FollowsSteps
    <2> QED
      BY <1>1, <2>1, SameSteps
  <1> QED
    BY <1>2, <1>5, <1>8

(* The sum of a window is a natural number, and so is what its oldest       *)
(* entries sum up to; nothing sums up to 0.                                 *)
LEMMA SumIsNat ==
    ASSUME NEW s \in Seq(Entry)
    PROVE  SumSizes(s) \in Nat
  BY RunningSum, Entries DEF RunsUp

(* An empty window holds no tokens.                                         *)
LEMMA SumOfEmpty == SumSizes(<<>>) = 0
  <1>1. <<>> \in Seq(Entry) /\ Len(<<>>) = 0
    OBVIOUS
  <1>2. PICK f : RunsUp(f, SizesOf(<<>>), Len(<<>>)) /\ SumSizes(<<>>) = f[Len(<<>>)]
    BY <1>1, RunningSum
  <1> QED
    BY <1>1, <1>2 DEF RunsUp

(* Two sequences whose sizes agree up to the length of the shorter.         *)
LEMMA SumOfPrefix ==
    ASSUME NEW s \in Seq(Entry), NEW t \in Seq(Entry), NEW f, NEW n \in 0..Len(s),
           RunsUp(f, SizesOf(s), Len(s)), Len(t) = n, \A i \in 1..n : t[i].size = s[i].size
    PROVE  SumSizes(t) = f[n]
  <1>1. PICK h : RunsUp(h, SizesOf(t), Len(t)) /\ SumSizes(t) = h[Len(t)]
    BY RunningSum
  <1>2. n \in Nat /\ n <= Len(s) /\ Len(s) \in Nat
    BY Entries
  <1>3. \A i \in 1..n : SizesOf(t)[i] = s[i].size /\ SizesOf(s)[i] = s[i].size /\ s[i].size \in Int
    BY <1>2, Entries DEF SizesOf
  <1>4. /\ \A i \in 0..n : f[i] \in Int /\ h[i] \in Int
        /\ f[0] = h[0]
    BY <1>1, <1>2 DEF RunsUp
  <1>5. ASSUME NEW i \in 1..n PROVE h[i] = h[i - 1] + (f[i] - f[i - 1])
    <2>1. f[i] = f[i - 1] + s[i].size /\ h[i] = h[i - 1] + s[i].size
      BY <1>1, <1>2, <1>3 DEF RunsUp
    <2>2. f[i - 1] \in Int /\ h[i - 1] \in Int /\ s[i].size \in Int
      BY <1>2, <1>3, <1>4
    <2> QED
      BY <2>1, <2>2
  <1>6. f[n] = h[n]
    <2>1. FollowsSteps(h, f, n)
      BY <1>4, <1>5 DEF FollowsSteps
    <2> QED
      BY <1>2, <2>1, SameSteps
  <1> QED
    BY <1>1, <1>6

(* An entry that is appended adds its size.                                 *)
LEMMA SumOfAppend ==
    ASSUME NEW s \in Seq(Entry), NEW e \in Entry
    PROVE  SumSizes(Append(s, e)) = SumSizes(s) + e.size
  <1> DEFINE t == Append(s, e)
  <1>1. /\ t \in Seq(Entry) /\ Len(t) = Len(s) + 1 /\ Len(s) \in Nat
        /\ (\A i \in 1..Len(s) : s[i].size = t[i].size) /\ t[Len(s) + 1] = e
    OBVIOUS
  <1> HIDE DEF t
  <1>2. PICK f : RunsUp(f, SizesOf(t), Len(t)) /\ SumSizes(t) = f[Len(t)]
    BY <1>1, RunningSum
  <1>3. Len(s) \in 0..Len(t)
    BY <1>1
  <1>4. SumSizes(s) = f[Len(s)]
    BY <1>1, <1>2, <1>3, SumOfPrefix
  <1>5. f[Len(t)] = f[Len(s)] + e.size
    BY <1>1, <1>2 DEF RunsUp, SizesOf
  <1> QED
    BY <1>2, <1>4, <1>5 DEF t

(* A window that only aged has the sum it had.                              *)
LEMMA SumOfSame ==
    ASSUME NEW s \in Seq(Entry), NEW t \in Seq(Entry), Len(t) = Len(s),
           \A i \in 1..Len(s) : t[i].size = s[i].size
    PROVE  SumSizes(t) = SumSizes(s)
  <1>1. PICK f : RunsUp(f, SizesOf(s), Len(s)) /\ SumSizes(s) = f[Len(s)]
    BY RunningSum
  <1>2. Len(s) \in 0..Len(s)
    BY Entries
  <1> QED
    BY <1>1, <1>2, SumOfPrefix

(* What leaves the window and what stays in it are the whole.               *)
LEMMA SumOfSplit ==
    ASSUME NEW s \in Seq(Entry), NEW n \in 0..Len(s)
    PROVE  SumSizes(s) = SumSizes(SubSeq(s, 1, n)) + SumSizes(SubSeq(s, n + 1, Len(s)))
  <1> DEFINE p == SubSeq(s, 1, n)
             q == SubSeq(s, n + 1, Len(s))
  <1>1. n \in Nat /\ n <= Len(s) /\ Len(s) \in Nat
    BY Entries
  <1>2. p \in Seq(Entry) /\ Len(p) = n /\ \A i \in 1..n : p[i] = s[i]
    BY <1>1
  <1>3. q \in Seq(Entry) /\ Len(q) = Len(s) - n /\ \A i \in 1..(Len(s) - n) : q[i] = s[n + i]
    BY <1>1
  <1> HIDE DEF p, q
  <1>4. PICK f : RunsUp(f, SizesOf(s), Len(s)) /\ SumSizes(s) = f[Len(s)]
    BY RunningSum
  <1>5. PICK g : RunsUp(g, SizesOf(q), Len(q)) /\ SumSizes(q) = g[Len(q)]
    BY <1>3, RunningSum
  <1>6. SumSizes(p) = f[n]
    BY <1>2, <1>4, SumOfPrefix
  <1> DEFINE h == [i \in 0..Len(q) |-> f[n + i] - f[n]]
  <1>7. /\ Len(q) \in Nat /\ n + Len(q) = Len(s)
        /\ \A i \in 0..Len(q) : n + i \in 0..Len(s)
        /\ \A i \in 1..Len(q) : n + i \in 1..Len(s) /\ i - 1 \in 0..Len(q) /\ (n + i) - 1 = n + (i - 1)
    BY <1>1, <1>3
  <1>8. \A i \in 0..Len(s) : f[i] \in Nat
    BY <1>4 DEF RunsUp
  <1>9. FollowsSteps(h, g, Len(q))
    <2>1. (\A i \in 0..Len(q) : g[i] \in Int) /\ g[0] = 0 /\ f[n] \in Int
      <3>1. (\A i \in 0..Len(q) : g[i] \in Int) /\ g[0] = 0
        <4>1. g \in [0..Len(q) -> Nat] /\ g[0] = 0
          BY <1>5 DEF RunsUp
        <4> QED
          BY <4>1
      <3>2. f[n] \in Int
        BY <1>8
      <3> QED
        BY <3>1, <3>2
    <2>2. h[0] = 0
      <3>1. 0 \in 0..Len(q) /\ n + 0 = n
        BY <1>1, <1>7
      <3> QED
        BY <2>1, <3>1
    <2>3. ASSUME NEW i \in 1..Len(q) PROVE h[i] = h[i - 1] + (g[i] - g[i - 1])
      <3>1. f[n + i] = f[n + (i - 1)] + s[n + i].size
        BY <1>4, <1>7 DEF RunsUp, SizesOf
      <3>2. g[i] = g[i - 1] + s[n + i].size
        BY <1>3, <1>5 DEF RunsUp, SizesOf
      <3>3. f[n + (i - 1)] \in Int /\ g[i - 1] \in Int /\ s[n + i].size \in Int
        BY <1>7, <1>8, <2>1, Entries
      <3>4. h[i] = f[n + i] - f[n] /\ h[i - 1] = f[n + (i - 1)] - f[n]
        BY <1>7
      <3> HIDE DEF h
      <3>5. f[n] \in Int
        BY <2>1
      <3>6. h[i] = (f[n + (i - 1)] + s[n + i].size) - f[n]
        BY <3>1, <3>4
      <3>7. h[i] = (f[n + (i - 1)] - f[n]) + s[n + i].size
        BY <3>3, <3>5, <3>6
      <3>8. g[i] - g[i - 1] = s[n + i].size
        BY <3>2, <3>3
      <3> QED
        BY <3>4, <3>7, <3>8
    <2> HIDE DEF h
    <2> QED
      BY <2>1, <2>2, <2>3 DEF FollowsSteps
  <1>10. g[Len(q)] = h[Len(q)]
    BY <1>7, <1>9, SameSteps
  <1>11. h[Len(q)] = f[Len(s)] - f[n] /\ f[Len(s)] \in Int /\ f[n] \in Int
    <2>1. Len(q) \in 0..Len(q) /\ n \in 0..Len(s) /\ Len(s) \in 0..Len(s)
      BY <1>1, <1>7
    <2>2. h[Len(q)] = f[n + Len(q)] - f[n]
      BY <2>1
    <2>3. n + Len(q) = Len(s)
      BY <1>7
    <2>4. f[Len(s)] \in Nat /\ f[n] \in Nat
      BY <1>8, <2>1
    <2> HIDE DEF h
    <2> QED
      BY <2>2, <2>3, <2>4
  <1> QED
    BY <1>4, <1>5, <1>6, <1>10, <1>11 DEF p, q

-----------------------------------------------------------------------------
(* The popleft loop stops at the first entry that is young enough.          *)
LEMMA ExpiredFacts ==
    ASSUME NEW s \in Seq(Entry)
    PROVE  /\ Expired(s) \in 0..Len(s)
           /\ \A i \in 1..Expired(s) : s[i].age >= Window
           /\ Expired(s) < Len(s) => s[Expired(s) + 1].age < Window
  <1> DEFINE T == {n \in 0..Len(s) : n < Len(s) => s[n + 1].age < Window}
  <1>1. Len(s) \in T /\ T \in SUBSET Nat
    BY Entries
  <1>2. PICK m \in T : \A n \in T : m <= n
    BY <1>1, LeastNumber
  <1>3. ASSUME NEW i \in 1..m PROVE s[i].age >= Window
    <2>1. i - 1 \in 0..Len(s) /\ ~(m <= i - 1) /\ (i - 1) + 1 = i /\ i \in 1..Len(s)
      BY <1>1
    <2>2. ~(s[i].age < Window)
      BY <1>2, <2>1
    <2> QED
      BY <2>1, <2>2, Entries, ConstantTypes
  <1>4. \E n \in 0..Len(s) : /\ \A i \in 1..n : s[i].age >= Window
                             /\ n < Len(s) => s[n + 1].age < Window
    BY <1>3
  <1> QED
    BY <1>4, Zenon DEF Expired

(* What _prune leaves of a window.                                          *)
LEMMA PruneFacts ==
    ASSUME NEW s \in Seq(Entry)
    PROVE  /\ Prune(s) \in Seq(Entry)
           /\ Len(Prune(s)) <= Len(s)
           /\ Len(Prune(s)) = Len(s) - Expired(s)
           /\ \A i \in 1..Len(Prune(s)) : i + Expired(s) \in 1..Len(s) /\ Prune(s)[i] = s[i + Expired(s)]
           /\ PrunedTotal(s, SumSizes(s)) = SumSizes(Prune(s))
           /\ OldestFirst(s) => OldestFirst(Prune(s))
           /\ OldestFirst(s) => \A i \in 1..Len(Prune(s)) : Prune(s)[i].age < Window
  <1> DEFINE x == Expired(s)
             p == Prune(s)
  <1>1. /\ x \in 0..Len(s) /\ Len(s) \in Nat
        /\ x < Len(s) => s[x + 1].age < Window
    BY ExpiredFacts, Entries
  <1>2. p = SubSeq(s, x + 1, Len(s))
    BY DEF Prune
  <1>3. SumSizes(s) = SumSizes(SubSeq(s, 1, x)) + SumSizes(p)
    BY <1>1, <1>2, SumOfSplit
  <1>4. SubSeq(s, 1, x) \in Seq(Entry)
    BY <1>1
  <1>5. p \in Seq(Entry) /\ Len(p) = Len(s) - x /\ \A i \in 1..Len(p) : p[i] = s[i + x]
    BY <1>1, <1>2
  <1>6. SumSizes(SubSeq(s, 1, x)) \in Nat /\ SumSizes(p) \in Nat
    BY <1>4, <1>5, SumIsNat
  <1>7. PrunedTotal(s, SumSizes(s)) = SumSizes(p)
    BY <1>3, <1>6 DEF PrunedTotal
  <1> HIDE DEF x, p
  <1>8. \A i \in 1..Len(p) : i + x \in 1..Len(s)
    BY <1>1, <1>5
  <1>9. OldestFirst(s) => OldestFirst(p)
    <2> SUFFICES ASSUME OldestFirst(s), NEW i \in 1..Len(p), NEW j \in 1..Len(p), i < j
                 PROVE  p[i].age >= p[j].age
      BY DEF OldestFirst
    <2>1. i + x \in 1..Len(s) /\ j + x \in 1..Len(s) /\ i + x < j + x
      BY <1>1, <1>8
    <2>2. s[i + x].age >= s[j + x].age
      BY <2>1 DEF OldestFirst
    <2> QED
      BY <1>5, <2>2
  <1>10. ASSUME OldestFirst(s), NEW i \in 1..Len(p) PROVE p[i].age < Window
    <2>1. x + 1 \in 1..Len(s) /\ i + x \in 1..Len(s) /\ s[x + 1].age < Window
      BY <1>1, <1>5, <1>8
    <2>2. i = 1 \/ x + 1 < i + x
      BY <1>1
    <2>3. i = 1 \/ s[x + 1].age >= s[i + x].age
      BY <1>10, <2>1, <2>2 DEF OldestFirst
    <2>4. s[i + x].age \in Int /\ s[x + 1].age \in Int /\ Window \in Int
      BY <2>1, Entries, ConstantTypes
    <2> QED
      BY <1>1, <1>5, <2>1, <2>3, <2>4
  <1> QED
    BY <1>1, <1>5, <1>7, <1>8, <1>9, <1>10 DEF x, p

(* An entry made now goes to the young end.                                 *)
LEMMA AppendFacts ==
    ASSUME NEW s \in Seq(Entry), NEW n \in Nat
    PROVE  /\ Append(s, [age |-> 0, size |-> n]) \in Seq(Entry)
           /\ SumSizes(Append(s, [age |-> 0, size |-> n])) = SumSizes(s) + n
           /\ OldestFirst(s) => OldestFirst(Append(s, [age |-> 0, size |-> n]))
  <1> DEFINE e == [age |-> 0, size |-> n]
             t == Append(s, e)
  <1>1. e \in Entry /\ e.age = 0 /\ e.size = n
    BY ConstantTypes DEF Entry
  <1> HIDE DEF e
  <1>2. /\ t \in Seq(Entry) /\ Len(t) = Len(s) + 1 /\ Len(s) \in Nat
        /\ (\A i \in 1..Len(s) : t[i] = s[i]) /\ t[Len(s) + 1] = e
    BY <1>1
  <1>3. SumSizes(t) = SumSizes(s) + n
    BY <1>1, SumOfAppend
  <1> HIDE DEF t
  <1>4. OldestFirst(s) => OldestFirst(t)
    <2> SUFFICES ASSUME OldestFirst(s), NEW i \in 1..Len(t), NEW j \in 1..Len(t), i < j
                 PROVE  t[i].age >= t[j].age
      BY DEF OldestFirst
    <2>1. i \in 1..Len(s) /\ s[i].age \in Nat
      BY <1>2, Entries, ConstantTypes
    <2>2. CASE j \in 1..Len(s)
      BY <1>2, <2>1, <2>2 DEF OldestFirst
    <2>3. CASE j = Len(s) + 1
      BY <1>1, <1>2, <2>1, <2>3
    <2> QED
      BY <1>2, <2>2, <2>3
  <1> QED
    BY <1>2, <1>3, <1>4 DEF e, t

(* Time makes every entry older, up to Window, and keeps their order.       *)
LEMMA OlderFacts ==
    ASSUME NEW s \in Seq(Entry)
    PROVE  /\ Older(s) \in Seq(Entry)
           /\ SumSizes(Older(s)) = SumSizes(s)
           /\ OldestFirst(s) => OldestFirst(Older(s))
  <1> DEFINE t == Older(s)
  <1>1. ASSUME NEW e \in Entry
        PROVE  /\ [e EXCEPT !.age = Least(Window, @ + 1)] \in Entry
               /\ [e EXCEPT !.age = Least(Window, @ + 1)].size = e.size
               /\ [e EXCEPT !.age = Least(Window, @ + 1)].age = Least(Window, e.age + 1)
    <2> DEFINE m == Least(Window, e.age + 1)
    <2>1. e.age \in 0..Window
      BY DEF Entry
    <2>2. m \in 0..Window
      BY <2>1, ConstantTypes DEF Least
    <2> HIDE DEF m
    <2>3. /\ [e EXCEPT !.age = m] \in Entry
          /\ [e EXCEPT !.age = m].size = e.size
          /\ [e EXCEPT !.age = m].age = m
      BY <2>2 DEF Entry
    <2> QED
      BY <2>3 DEF m
  <1>2. t = [i \in 1..Len(s) |-> [s[i] EXCEPT !.age = Least(Window, @ + 1)]]
    BY DEF Older
  <1>3. Len(s) \in Nat /\ \A i \in 1..Len(s) : s[i] \in Entry
    BY Entries
  <1>4. \A i \in 1..Len(s) : t[i] \in Entry /\ t[i].size = s[i].size /\ t[i].age = Least(Window, s[i].age + 1)
    BY <1>1, <1>2, <1>3
  <1>5. t \in Seq(Entry) /\ Len(t) = Len(s)
    <2>1. t \in [1..Len(s) -> Entry]
      BY <1>2, <1>4
    <2> HIDE DEF t
    <2> QED
      BY <1>3, <2>1
  <1> HIDE DEF t
  <1>6. SumSizes(t) = SumSizes(s)
    BY <1>4, <1>5, SumOfSame
  <1>7. OldestFirst(s) => OldestFirst(t)
    <2> SUFFICES ASSUME OldestFirst(s), NEW i \in 1..Len(s), NEW j \in 1..Len(s), i < j
                 PROVE  t[i].age >= t[j].age
      BY <1>5 DEF OldestFirst
    <2>1. s[i].age >= s[j].age /\ s[i].age \in Nat /\ s[j].age \in Nat
      BY Entries, ConstantTypes DEF OldestFirst
    <2>2. t[i].age = Least(Window, s[i].age + 1) /\ t[j].age = Least(Window, s[j].age + 1)
      BY <1>4
    <2> QED
      BY <2>1, <2>2, ConstantTypes DEF Least
  <1> QED
    BY <1>5, <1>6, <1>7 DEF t

-----------------------------------------------------------------------------
(* The two windows, their total and their order.                            *)
WindowInv ==
    /\ reqs \in Seq(Entry) /\ toks \in Seq(Entry)
    /\ WindowsConsistent

(* Every step keeps both windows sorted and within their span, and the      *)
(* cached total equal to the sum.                                           *)
LEMMA WindowStep ==
    ASSUME WindowInv, want \in [Caller -> {0} \union Sizes], [Next]_vars
    PROVE  WindowInv'
  <1> USE DEF WindowInv, WindowsConsistent
  <1>1. CASE PruneWindows
    BY <1>1, PruneFacts DEF PruneWindows
  <1>2. ASSUME NEW c \in Caller, Enter(c) PROVE WindowInv'
    <2>1. want[c] \in Nat /\ 1 \in Nat
      BY ConstantTypes
    <2>2. Prune(reqs) \in Seq(Entry) /\ Prune(toks) \in Seq(Entry) /\ OldestFirst(Prune(reqs))
          /\ OldestFirst(Prune(toks)) /\ PrunedTotal(toks, tokTotal) = SumSizes(Prune(toks))
      BY PruneFacts
    <2>3. /\ reqs' = Append(Prune(reqs), [age |-> 0, size |-> 1])
          /\ toks' = Append(Prune(toks), [age |-> 0, size |-> want[c]])
          /\ tokTotal' = PrunedTotal(toks, tokTotal) + want[c]
      BY <1>2 DEF Enter
    <2>4. reqs' \in Seq(Entry) /\ OldestFirst(reqs')
      BY <2>1, <2>2, <2>3, AppendFacts
    <2>5. toks' \in Seq(Entry) /\ OldestFirst(toks') /\ SumSizes(toks') = SumSizes(Prune(toks)) + want[c]
      BY <2>1, <2>2, <2>3, AppendFacts
    <2> QED
      BY <2>2, <2>3, <2>4, <2>5
  <1>3. ASSUME NEW c \in Caller, NEW n \in Usages, record_usage(c, n) PROVE WindowInv'
    <2> DEFINE more == Append(toks, [age |-> 0, size |-> n])
    <2>1. n \in Nat
      BY ConstantTypes
    <2>2. more \in Seq(Entry) /\ OldestFirst(more) /\ SumSizes(more) = tokTotal + n
      BY <2>1, AppendFacts
    <2>3. reqs' = Prune(reqs) /\ toks' = Prune(more) /\ tokTotal' = PrunedTotal(more, tokTotal + n)
      BY <1>3 DEF record_usage
    <2> HIDE DEF more
    <2>4. tokTotal' = SumSizes(toks') /\ toks' \in Seq(Entry) /\ OldestFirst(toks')
      BY <2>2, <2>3, PruneFacts
    <2>5. reqs' \in Seq(Entry) /\ OldestFirst(reqs')
      BY <2>3, PruneFacts
    <2> QED
      BY <2>4, <2>5
  <1>4. CASE Tick
    BY <1>4, OlderFacts DEF Tick
  <1>5. CASE UNCHANGED window
    BY <1>5 DEF window, OldestFirst, SumSizes
  <1>6. ASSUME NEW c \in Caller, Sleep(c) \/ Reject(c) PROVE PruneWindows \/ UNCHANGED window
    BY <1>6 DEF Sleep, Reject
  <1>7. ASSUME NEW c \in Caller,
               \/ \E n \in Sizes : Call(c, n)
               \/ Cancel(c) \/ Finish(c) \/ \E resp \in Response : observe(c, resp)
        PROVE  UNCHANGED window
    BY <1>7 DEF Call, Cancel, Finish, observe
  <1>8. UNCHANGED vars => UNCHANGED window
    BY DEF vars
  <1> QED
    BY <1>1, <1>2, <1>3, <1>4, <1>5, <1>6, <1>7, <1>8 DEF Next, acquire, Admit, Inspect

-----------------------------------------------------------------------------
(* round(x, 2) is within half a unit of n tenths.                           *)
LEMMA RoundFacts ==
    ASSUME NEW n \in Nat, NEW y \in Round(n)
    PROVE  y \in Nat /\ 10 * y <= n + 5 /\ n <= 10 * y + 5
  <1>1. n \div 10 \in Nat
    OBVIOUS
  <1> QED
    BY <1>1 DEF Round

(* The rate and its ceiling, for requests (floor MinRpm, least rate 100) or *)
(* tokens (floor MinTpm, least rate 0).                                     *)
RateKept(rate, ceil, floor, least) ==
    /\ rate \in Nat /\ ceil \in Nat
    /\ (rate # 0 /\ ceil # 0) => rate <= Most(ceil, floor)
    /\ rate = 0 => ceil = 0
    /\ rate = 0 \/ rate >= least
    /\ ceil = 0 \/ ceil >= least

RatesInv == RateKept(rpm, ceilRpm, MinRpm, 100) /\ RateKept(tpm, ceilTpm, MinTpm, 0)

(* The two rates, each with its ceiling, are what the type and the budget   *)
(* invariants say of them.                                                  *)
LEMMA RatesAreBudget ==
    RatesInv <=> {rpm, tpm, ceilRpm, ceilTpm} \subseteq Nat /\ BudgetInv
  BY DEF RatesInv, RateKept, BudgetInv, BudgetWithinCeiling

(* A limit that a response reports is the new ceiling, and the rate if it   *)
(* is lower.                                                                *)
LEMMA AdoptKeeps ==
    ASSUME NEW rate, NEW ceil, NEW floor \in Nat, NEW least \in Nat, NEW limit \in Nat,
           RateKept(rate, ceil, floor, least), limit = 0 \/ limit >= least
    PROVE  RateKept(Adopt(rate, limit), IF limit # 0 THEN limit ELSE ceil, floor, least)
  BY DEF RateKept, Adopt, Most

(* Seven tenths of a rate, rounded, are at most the rate; the floor is at   *)
(* least the least rate.                                                    *)
LEMMA CutKeeps ==
    ASSUME NEW rate, NEW ceil, NEW floor \in Nat \ {0}, NEW least \in Nat,
           RateKept(rate, ceil, floor, least), floor >= least, rate # 0, NEW y \in Round(7 * rate)
    PROVE  RateKept(Most(floor, y), ceil, floor, least)
  <1>1. rate \in Nat /\ 7 * rate \in Nat
    BY DEF RateKept
  <1>2. y \in Nat /\ 10 * y <= 7 * rate + 5
    BY <1>1, RoundFacts
  <1>3. y <= rate
    BY <1>1, <1>2
  <1> QED
    BY <1>1, <1>2, <1>3 DEF RateKept, Most

(* A rate that grows stops at the ceiling.                                  *)
LEMMA GrowthKeeps ==
    ASSUME NEW rate, NEW ceil, NEW floor \in Nat, NEW least \in Nat,
           RateKept(rate, ceil, floor, least), NEW y \in Grown(rate, ceil)
    PROVE  RateKept(y, ceil, floor, least)
  <1>1. CASE ceil # 0 /\ rate # 0 /\ rate < ceil
    <2>1. PICK z \in Round(11 * rate) : y = Least(ceil, z)
      BY <1>1 DEF Grown
    <2>2. rate \in Nat /\ ceil \in Nat /\ 11 * rate \in Nat
      BY DEF RateKept
    <2>3. z \in Nat /\ 11 * rate <= 10 * z + 5
      BY <2>2, RoundFacts
    <2>4. z >= rate
      BY <2>2, <2>3
    <2> QED
      BY <1>1, <2>1, <2>2, <2>3, <2>4 DEF RateKept, Least, Most
  <1>2. CASE ~(ceil # 0 /\ rate # 0 /\ rate < ceil)
    <2>1. y = rate
      BY <1>2 DEF Grown
    <2> QED
      BY <2>1
  <1> QED
    BY <1>1, <1>2

(* What is known of a response.                                             *)
LEMMA ResponseFacts ==
    ASSUME NEW resp \in Response
    PROVE  /\ resp.limitRpm \in Nat /\ (resp.limitRpm = 0 \/ resp.limitRpm >= 100)
           /\ resp.limitTpm \in Nat /\ resp.reset \in Nat /\ resp.retry \in Nat
           /\ resp.status \in {"ok", "limited", "other"} /\ resp.exhausted \in BOOLEAN
  <1>1. resp \in [status : {"ok", "limited", "other"}, exhausted : BOOLEAN,
                  limitRpm : {0} \union {n \in Nat : n >= 100}, limitTpm : Nat,
                  reset : Nat, retry : Nat]
    BY GateAssumption
  <1> QED
    BY <1>1

(* A response changes the rates through its limits first, then its status.  *)
LEMMA ObserveRates ==
    ASSUME RatesInv, reqs \in Seq(Entry),
           NEW c \in Caller, NEW resp \in Response, observe(c, resp)
    PROVE  RatesInv'
  <1> DEFINE r0 == Adopt(rpm, resp.limitRpm)
             t0 == Adopt(tpm, resp.limitTpm)
             c0 == IF resp.limitRpm # 0 THEN resp.limitRpm ELSE ceilRpm
             d0 == IF resp.limitTpm # 0 THEN resp.limitTpm ELSE ceilTpm
             p0 == IF resp.exhausted
                   THEN Most(pause, IF resp.reset # 0 THEN resp.reset ELSE DefaultReset) ELSE pause
  <1>1. RateKept(r0, c0, MinRpm, 100) /\ RateKept(t0, d0, MinTpm, 0)
    <2>1. RateKept(rpm, ceilRpm, MinRpm, 100) /\ RateKept(tpm, ceilTpm, MinTpm, 0)
      BY DEF RatesInv
    <2> QED
      BY <2>1, ResponseFacts, ConstantTypes, AdoptKeeps
  <1>2. \/ note_rejected(resp, r0, t0, p0) /\ ceilTpm' = d0
        \/ note_success(r0, t0, c0, d0, p0)
        \/ rpm' = r0 /\ tpm' = t0 /\ ceilRpm' = c0 /\ ceilTpm' = d0
    BY DEF observe
  <1>3. \/ /\ \E r \in IF r0 # 0 THEN Round(7 * r0) ELSE Round(70 * Len(reqs) * 10) :
               rpm' = IF r0 = 0 /\ reqs = <<>> THEN 0 ELSE Most(MinRpm, r)
           /\ ceilRpm' = IF r0 = 0 /\ c0 = 0 THEN rpm' ELSE c0
           /\ \E t \in Round(7 * t0) : tpm' = IF t0 = 0 THEN 0 ELSE Most(MinTpm, t)
           /\ ceilTpm' = d0
        \/ rpm' \in {r0} \union Grown(r0, c0) /\ tpm' \in {t0} \union Grown(t0, d0)
           /\ ceilRpm' = c0 /\ ceilTpm' = d0
    BY <1>2 DEF note_rejected, note_success
  <1> HIDE DEF r0, t0, c0, d0, p0
  <1>4. CASE /\ \E r \in IF r0 # 0 THEN Round(7 * r0) ELSE Round(70 * Len(reqs) * 10) :
                 rpm' = IF r0 = 0 /\ reqs = <<>> THEN 0 ELSE Most(MinRpm, r)
             /\ ceilRpm' = IF r0 = 0 /\ c0 = 0 THEN rpm' ELSE c0
             /\ \E t \in Round(7 * t0) : tpm' = IF t0 = 0 THEN 0 ELSE Most(MinTpm, t)
             /\ ceilTpm' = d0
    <2>1. RateKept(rpm', ceilRpm', MinRpm, 100)
      <3>1. CASE r0 # 0
        <4>1. PICK r \in Round(7 * r0) : rpm' = Most(MinRpm, r)
          BY <1>4, <3>1
        <4>2. ceilRpm' = c0
          BY <1>4, <3>1
        <4>3. RateKept(Most(MinRpm, r), c0, MinRpm, 100)
          BY <1>1, <3>1, <4>1, ConstantTypes, CutKeeps
        <4> QED
          BY <4>1, <4>2, <4>3
      <3>2. CASE r0 = 0
        <4>1. c0 = 0 /\ ceilRpm' = rpm'
          BY <1>1, <1>4, <3>2 DEF RateKept
        <4>2. Len(reqs) \in Nat /\ 70 * Len(reqs) * 10 \in Nat
          BY Entries
        <4>3. PICK r \in Round(70 * Len(reqs) * 10) : rpm' = 0 \/ rpm' = Most(MinRpm, r)
          BY <1>4, <3>2
        <4>4. r \in Nat
          BY <4>2, RoundFacts
        <4> QED
          BY <4>1, <4>3, <4>4, ConstantTypes DEF RateKept, Most
      <3> QED
        BY <3>1, <3>2
    <2>2. RateKept(tpm', ceilTpm', MinTpm, 0)
      <3>1. CASE t0 # 0
        <4>1. PICK t \in Round(7 * t0) : tpm' = Most(MinTpm, t)
          BY <1>4, <3>1
        <4>2. RateKept(Most(MinTpm, t), d0, MinTpm, 0)
          BY <1>1, <3>1, <4>1, ConstantTypes, CutKeeps
        <4> QED
          BY <1>4, <4>1, <4>2
      <3>2. CASE t0 = 0
        BY <1>1, <1>4, <3>2 DEF RateKept
      <3> QED
        BY <3>1, <3>2
    <2> QED
      BY <2>1, <2>2 DEF RatesInv
  <1>5. CASE rpm' \in {r0} \union Grown(r0, c0) /\ tpm' \in {t0} \union Grown(t0, d0)
             /\ ceilRpm' = c0 /\ ceilTpm' = d0
    <2>1. RateKept(rpm', c0, MinRpm, 100)
      BY <1>1, <1>5, ConstantTypes, GrowthKeeps
    <2>2. RateKept(tpm', d0, MinTpm, 0)
      BY <1>1, <1>5, ConstantTypes, GrowthKeeps
    <2> QED
      BY <1>5, <2>1, <2>2 DEF RatesInv
  <1> QED
    BY <1>3, <1>4, <1>5

(* Only a response changes the rates.                                       *)
LEMMA RatesStep ==
    ASSUME RatesInv, reqs \in Seq(Entry), [Next]_vars
    PROVE  RatesInv'
  <1>1. ASSUME UNCHANGED <<rpm, tpm, ceilRpm, ceilTpm>> PROVE RatesInv'
    BY <1>1 DEF RatesInv, RateKept
  <1>2. ASSUME NEW c \in Caller,
               \/ \E n \in Sizes : Call(c, n)
               \/ acquire(c) \/ Cancel(c) \/ (\E n \in Usages : record_usage(c, n)) \/ Finish(c)
        PROVE  UNCHANGED <<rpm, tpm, ceilRpm, ceilTpm>>
    BY <1>2 DEF Call, acquire, Admit, Enter, Sleep, Reject, Cancel, record_usage, Finish, budget
  <1>3. Inspect \/ Tick \/ UNCHANGED vars => UNCHANGED <<rpm, tpm, ceilRpm, ceilTpm>>
    BY DEF Inspect, Tick, vars, budget
  <1> QED
    BY <1>1, <1>2, <1>3, ObserveRates DEF Next

-----------------------------------------------------------------------------
Places == {"idle", "queued", "sleeping", "inflight", "reading"}

QueueInv == pc \in [Caller -> Places] /\ queue \in Seq(Caller) /\ QueueMatches

(* A sequence without its i-th element.                                     *)
IsWithout(r, q, i) ==
    /\ r \in Seq(Caller)
    /\ Len(r) = Len(q) - 1
    /\ \A j \in 1..(Len(q) - 1) : r[j] = IF j < i THEN q[j] ELSE q[j + 1]

(* RemoveAt (SequencesExt) takes one place out of the queue and closes the  *)
(* gap.                                                                     *)
LEMMA RemoveAtFacts ==
    ASSUME NEW q \in Seq(Caller), NEW i \in 1..Len(q)
    PROVE  IsWithout(RemoveAt(q, i), q, i)
  <1> DEFINE front == SubSeq(q, 1, i - 1)
             back == SubSeq(q, i + 1, Len(q))
  <1>1. Len(q) \in Nat /\ i \in Nat /\ i <= Len(q) /\ i >= 1
    OBVIOUS
  <1>2. front \in Seq(Caller) /\ Len(front) = i - 1 /\ \A j \in 1..(i - 1) : front[j] = q[j]
    BY <1>1
  <1>3. back \in Seq(Caller) /\ Len(back) = Len(q) - i /\ \A j \in 1..(Len(q) - i) : back[j] = q[i + j]
    BY <1>1
  <1>4. RemoveAt(q, i) = front \o back
    BY DEF RemoveAt
  <1> HIDE DEF front, back
  <1>5. front \o back \in Seq(Caller) /\ Len(front \o back) = Len(q) - 1
    <2>1. /\ front \o back \in Seq(Caller)
          /\ Len(front \o back) = Len(front) + Len(back)
      BY <1>2, <1>3, ConcatProperties
    <2> QED
      BY <1>1, <1>2, <1>3, <2>1
  <1>6. ASSUME NEW j \in 1..(Len(q) - 1)
        PROVE  (front \o back)[j] = IF j < i THEN q[j] ELSE q[j + 1]
    <2>1. CASE j < i
      BY <1>1, <1>2, <1>3, <2>1
    <2>2. CASE ~(j < i)
      <3>1. j - (i - 1) \in 1..(Len(q) - i) /\ i + (j - (i - 1)) = j + 1
        BY <1>1, <2>2
      <3>2. (front \o back)[j] = back[j - (i - 1)]
        BY <1>1, <1>2, <1>3, <2>2
      <3> QED
        BY <1>3, <2>2, <3>1, <3>2
    <2> QED
      BY <2>1, <2>2
  <1> QED
    BY <1>4, <1>5, <1>6 DEF IsWithout

(* Leaving the lock or its queue: the others keep their places.             *)
LEMMA ReleaseKeeps ==
    ASSUME QueueInv, NEW c \in Caller, NEW there \in {"idle", "inflight"},
           Release(c), pc' = [pc EXCEPT ![c] = there]
    PROVE  QueueInv'
  <1> USE DEF QueueInv, QueueMatches
  <1>1. PICK i \in 1..Len(queue) : queue[i] = c /\ queue' = RemoveAt(queue, i)
    BY DEF Release
  <1>2. /\ queue' \in Seq(Caller) /\ Len(queue') = Len(queue) - 1 /\ Len(queue) \in Nat
        /\ \A j \in 1..(Len(queue) - 1) : queue'[j] = IF j < i THEN queue[j] ELSE queue[j + 1]
    <2>1. queue \in Seq(Caller) /\ Len(queue) \in Nat
      OBVIOUS
    <2>2. IsWithout(queue', queue, i)
      BY <1>1, <2>1, RemoveAtFacts, Zenon
    <2> QED
      BY <2>1, <2>2 DEF IsWithout
  <1>3. pc' \in [Caller -> Places] /\ pc'[c] = there /\ \A d \in Caller \ {c} : pc'[d] = pc[d]
    BY DEF Places
  <1>4. \A j \in 1..Len(queue') : \E k \in 1..Len(queue) \ {i} : queue'[j] = queue[k] /\ k = IF j < i THEN j ELSE j + 1
    BY <1>1, <1>2
  <1>5. \A j \in 1..Len(queue) \ {i} : \E k \in 1..Len(queue') : queue'[k] = queue[j]
    <2> TAKE j \in 1..Len(queue) \ {i}
    <2>1. CASE j < i
      BY <1>1, <1>2, <2>1
    <2>2. CASE ~(j < i)
      <3>1. j - 1 \in 1..(Len(queue) - 1) /\ ~(j - 1 < i) /\ (j - 1) + 1 = j
        BY <1>1, <1>2, <2>2
      <3> QED
        <4>1. queue'[j - 1] = queue[(j - 1) + 1] /\ j - 1 \in 1..Len(queue')
          BY <1>2, <3>1
        <4> QED
          BY <3>1, <4>1
    <2> QED
      BY <2>1, <2>2
  <1>6. \A k, l \in 1..Len(queue') : queue'[k] = queue'[l] => k = l
    <2> SUFFICES ASSUME NEW k \in 1..Len(queue'), NEW l \in 1..Len(queue'), queue'[k] = queue'[l]
                 PROVE  k = l
      OBVIOUS
    <2>1. (IF k < i THEN k ELSE k + 1) = (IF l < i THEN l ELSE l + 1)
      BY <1>4
    <2> QED
      BY <1>1, <1>2, <2>1
  <1>7. ASSUME NEW d \in Caller
        PROVE  pc'[d] \in {"queued", "sleeping"} <=> \E k \in 1..Len(queue') : queue'[k] = d
    <2>1. CASE d = c
      <3>1. ~(\E k \in 1..Len(queue') : queue'[k] = d)
        BY <1>1, <1>4, <2>1
      <3> QED
        BY <1>3, <2>1, <3>1
    <2>2. CASE d # c
      <3>1. (\E k \in 1..Len(queue') : queue'[k] = d) <=> \E k \in 1..Len(queue) : queue[k] = d
        <4>1. ASSUME NEW k \in 1..Len(queue'), queue'[k] = d PROVE \E j \in 1..Len(queue) : queue[j] = d
          BY <1>4, <4>1
        <4>2. ASSUME NEW k \in 1..Len(queue), queue[k] = d PROVE \E j \in 1..Len(queue') : queue'[j] = d
          BY <1>1, <1>5, <2>2, <4>2
        <4> QED
          BY <4>1, <4>2
      <3> QED
        BY <1>3, <2>2, <3>1
    <2> QED
      BY <2>1, <2>2
  <1>8. ASSUME NEW d \in Caller, pc'[d] = "sleeping" PROVE Head(queue') = d
    <2>1. d # c /\ pc[d] = "sleeping" /\ queue # <<>> /\ queue[1] = d
      <3>1. d # c /\ pc[d] = "sleeping"
        BY <1>3, <1>8
      <3>2. Head(queue) = d /\ \E k \in 1..Len(queue) : queue[k] = d
        BY <3>1
      <3>3. queue # <<>>
        BY <3>2
      <3> QED
        BY <3>1, <3>2, <3>3
    <2>2. i # 1 /\ 1 \in 1..(Len(queue) - 1) /\ 1 < i
      BY <1>1, <1>2, <2>1
    <2>3. queue'[1] = d /\ queue' # <<>>
      BY <1>2, <2>1, <2>2
    <2> QED
      BY <1>2, <2>3
  <1> QED
    BY <1>2, <1>3, <1>6, <1>7, <1>8

(* Every step keeps who is in the queue and who sleeps.                     *)
LEMMA QueueStep ==
    ASSUME QueueInv, [Next]_vars
    PROVE  QueueInv'
  <1> USE DEF QueueInv, QueueMatches
  <1>1. ASSUME UNCHANGED <<pc, queue>> PROVE QueueInv'
    BY <1>1
  <1>2. ASSUME NEW c \in Caller, NEW n \in Sizes, Call(c, n) PROVE QueueInv'
    <2>1. pc[c] = "idle" /\ pc' = [pc EXCEPT ![c] = "queued"] /\ queue' = Append(queue, c)
      BY <1>2 DEF Call
    <2>2. /\ queue' \in Seq(Caller) /\ Len(queue) \in Nat /\ Len(queue') = Len(queue) + 1
          /\ queue'[Len(queue) + 1] = c /\ \A j \in 1..Len(queue) : queue'[j] = queue[j]
      BY <2>1
    <2>3. pc' \in [Caller -> Places] /\ pc'[c] = "queued" /\ \A d \in Caller \ {c} : pc'[d] = pc[d]
      BY <2>1 DEF Places
    <2>4. \A j \in 1..Len(queue) : queue[j] # c
      BY <2>1
    <2>5. \A j, k \in 1..Len(queue') : queue'[j] = queue'[k] => j = k
      BY <2>2, <2>4
    <2>6. \A d \in Caller : pc'[d] \in {"queued", "sleeping"} <=> \E j \in 1..Len(queue') : queue'[j] = d
      BY <2>2, <2>3, <2>4
    <2>7. ASSUME NEW d \in Caller, pc'[d] = "sleeping" PROVE Head(queue') = d
      <3>1. pc[d] = "sleeping" /\ Head(queue) = d /\ \E j \in 1..Len(queue) : queue[j] = d
        BY <2>3, <2>7
      <3>2. 1 \in 1..Len(queue) /\ queue[1] = d
        BY <2>2, <3>1
      <3> QED
        BY <2>2, <3>2
    <2> QED
      BY <2>2, <2>3, <2>5, <2>6, <2>7
  <1>3. ASSUME NEW c \in Caller, Admit(c) \/ Reject(c) \/ Cancel(c) PROVE QueueInv'
    <2>1. Release(c) /\ \E there \in {"idle", "inflight"} : pc' = [pc EXCEPT ![c] = there]
      BY <1>3 DEF Admit, Enter, Reject, Cancel
    <2> QED
      BY <2>1, ReleaseKeeps
  <1>4. ASSUME NEW c \in Caller, Sleep(c) PROVE QueueInv'
    <2>1. queue # <<>> /\ Head(queue) = c /\ pc' = [pc EXCEPT ![c] = "sleeping"] /\ queue' = queue
      BY <1>4 DEF Sleep, Turn
    <2>2. pc' \in [Caller -> Places] /\ pc'[c] = "sleeping" /\ \A d \in Caller \ {c} : pc'[d] = pc[d]
      BY <2>1 DEF Places
    <2>3. 1 \in 1..Len(queue) /\ queue[1] = c
      BY <2>1
    <2> QED
      BY <2>1, <2>2, <2>3
  <1>5. ASSUME NEW c \in Caller,
               \/ \E resp \in Response : observe(c, resp)
               \/ \E n \in Usages : record_usage(c, n)
               \/ Finish(c)
        PROVE  QueueInv'
    <2>1. UNCHANGED <<pc, queue>>
          \/ \E there \in {"idle", "reading"} : /\ pc[c] \in {"inflight", "reading"} /\ queue' = queue
                                                /\ pc' = [pc EXCEPT ![c] = there]
      BY <1>5 DEF observe, record_usage, Finish
    <2>2. ASSUME NEW there \in {"idle", "reading"}, pc[c] \in {"inflight", "reading"}, queue' = queue,
                 pc' = [pc EXCEPT ![c] = there]
          PROVE  QueueInv'
      <3>1. pc' \in [Caller -> Places] /\ pc'[c] = there /\ \A d \in Caller \ {c} : pc'[d] = pc[d]
        BY <2>2 DEF Places
      <3> QED
        BY <2>2, <3>1
    <2> QED
      BY <1>1, <2>1, <2>2
  <1>6. Inspect \/ Tick \/ UNCHANGED vars => UNCHANGED <<pc, queue>>
    BY DEF Inspect, Tick, vars
  <1> QED
    BY <1>1, <1>2, <1>3, <1>4, <1>5, <1>6 DEF Next, acquire

-----------------------------------------------------------------------------
(* The variables that no other invariant speaks of.                         *)
RestTyped ==
    /\ want \in [Caller -> {0} \union Sizes]
    /\ sleepLeft \in Nat /\ loops \in Nat
    /\ pause \in Nat /\ okRun \in Nat
    /\ dayUsed \in Nat /\ dayLeft \in 1..Day /\ dayStale \in BOOLEAN

(* The inductive invariant in the parts that are proved one by one.         *)
LEMMA InvariantParts == GateInv <=> WindowInv /\ RatesInv /\ QueueInv /\ RestTyped
  <1>1. WindowInv => tokTotal \in Nat
    BY SumIsNat DEF WindowInv, WindowsConsistent
  <1> QED
    BY <1>1, RatesAreBudget
       DEF GateInv, TypeOK, WindowInv, QueueInv, RestTyped, Places

(* The gate starts with empty windows, an empty queue and its configured    *)
(* rates.                                                                   *)
LEMMA InitInvariant == Init => GateInv
  <1> SUFFICES ASSUME Init PROVE WindowInv /\ RatesInv /\ QueueInv /\ RestTyped
    BY InvariantParts
  <1>1. WindowInv
    BY SumOfEmpty DEF Init, WindowInv, WindowsConsistent, OldestFirst
  <1>2. RatesInv
    BY ConstantTypes, GateAssumption DEF Init, RatesInv, RateKept, Most
  <1>3. QueueInv
    <2>1. queue = <<>> /\ pc = [c \in Caller |-> "idle"]
      BY DEF Init
    <2> QED
      BY <2>1 DEF QueueInv, QueueMatches, Places
  <1>4. RestTyped
    <2>1. /\ want = [c \in Caller |-> 0] /\ sleepLeft = 0 /\ loops = 0
          /\ pause = 0 /\ dayUsed = 0 /\ dayLeft = Day /\ dayStale = FALSE /\ okRun = 0
      BY DEF Init
    <2>2. dayStale \in BOOLEAN
      BY <2>1, Zenon
    <2>3. want \in [Caller -> {0} \union Sizes]
      BY <2>1
    <2>4. Day \in 1..Day
      BY ConstantTypes
    <2> QED
      BY <2>1, <2>2, <2>3, <2>4 DEF RestTyped
  <1> QED
    BY <1>1, <1>2, <1>3, <1>4

(* What a response does to the pause and to the run of successes.           *)
LEMMA ObserveRest ==
    ASSUME RestTyped, NEW c \in Caller, NEW resp \in Response, observe(c, resp)
    PROVE  pause' \in Nat /\ okRun' \in Nat
  <1> DEFINE p0 == IF resp.exhausted
                   THEN Most(pause, IF resp.reset # 0 THEN resp.reset ELSE DefaultReset) ELSE pause
  <1>1. p0 \in Nat
    BY ResponseFacts, ConstantTypes DEF RestTyped, Most
  <1>2. \/ pause' = Most(p0, Retry(resp)) /\ okRun' = 0
        \/ pause' = p0 /\ okRun' \in {okRun, okRun + 1, 0}
    BY DEF observe, note_rejected, note_success
  <1>3. Retry(resp) \in Nat
    <2>1. Fallback \in Int
      <3>1. Least(6, okRun + 1) \in Nat
        BY DEF RestTyped, Least
      <3>2. 2 ^ Least(6, okRun + 1) \in Int
        BY <3>1
      <3> QED
        BY <3>2, ConstantTypes DEF Fallback, Least
    <2> QED
      BY <2>1, ResponseFacts, ConstantTypes DEF Retry, Most, Least
  <1> HIDE DEF p0
  <1> QED
    BY <1>1, <1>2, <1>3 DEF Most, RestTyped

(* Every step keeps the types of the stages, the pauses and the daily       *)
(* counters.                                                                *)
LEMMA RestStep ==
    ASSUME RestTyped, [Next]_vars
    PROVE  RestTyped'
  <1> USE DEF RestTyped
  <1>1. RollDay \in Nat
    BY DEF RollDay
  <1>2. ASSUME NEW c \in Caller, NEW n \in Sizes, Call(c, n) PROVE RestTyped'
    BY <1>2 DEF Call, owner, window, budget, daily
  <1>3. ASSUME NEW c \in Caller, Release(c) PROVE sleepLeft' \in Nat /\ loops' \in Nat
    BY <1>3 DEF Release, owner
  <1>4. ASSUME NEW c \in Caller, Admit(c) PROVE RestTyped'
    <2>1. /\ dayUsed' = IF Rpd = 0 THEN 0 ELSE RollDay + 1
          /\ dayStale' \in BOOLEAN
          /\ UNCHANGED <<want, pause, okRun, dayLeft>>
      BY <1>4 DEF Admit, Enter, budget
    <2>2. sleepLeft' \in Nat /\ loops' \in Nat
      BY <1>3, <1>4 DEF Admit, Enter
    <2> QED
      BY <1>1, <2>1, <2>2
  <1>5. ASSUME NEW c \in Caller, Sleep(c) PROVE RestTyped'
    <2>1. /\ sleepLeft' = AcquireWait(want[c]) /\ AcquireWait(want[c]) \in 1..MaxWait
          /\ loops' = loops + 1 /\ dayUsed' = RollDay /\ dayStale' \in BOOLEAN
          /\ UNCHANGED <<want, pause, okRun, dayLeft>>
      BY <1>5 DEF Sleep, Refresh, budget
    <2>2. sleepLeft' \in Nat
      BY <2>1, ConstantTypes
    <2> QED
      BY <1>1, <2>1, <2>2
  <1>6. ASSUME NEW c \in Caller, Reject(c) PROVE RestTyped'
    BY <1>1, <1>3, <1>6 DEF Reject, Refresh, budget, daily
  <1>7. ASSUME NEW c \in Caller, Cancel(c) PROVE RestTyped'
    BY <1>3, <1>7 DEF Cancel, window, budget, daily
  <1>8. ASSUME NEW c \in Caller, NEW resp \in Response, observe(c, resp) PROVE RestTyped'
    <2>1. want' = [want EXCEPT ![c] = 0] /\ UNCHANGED <<owner, daily>>
      BY <1>8 DEF observe
    <2> QED
      BY <1>8, <2>1, ObserveRest DEF owner, daily
  <1>9. ASSUME NEW c \in Caller, Finish(c) \/ \E n \in Usages : record_usage(c, n) PROVE RestTyped'
    BY <1>9 DEF Finish, record_usage, owner, budget, daily
  <1>10. CASE Inspect
    BY <1>1, <1>10 DEF Inspect, Refresh, owner, budget
  <1>11. CASE Tick
    BY <1>11, ConstantTypes DEF Tick, Less
  <1>12. CASE UNCHANGED vars
    BY <1>12 DEF vars, owner, budget, daily
  <1> QED
    BY <1>2, <1>4, <1>5, <1>6, <1>7, <1>8, <1>9, <1>10, <1>11, <1>12 DEF Next, acquire

(* The inductive invariant holds in every reachable state: its parts are    *)
(* kept by each step of acquire, release and the response handlers.         *)
LEMMA GateInvariant == Spec => []GateInv
  <1>1. Init => GateInv
    BY InitInvariant
  <1>2. ASSUME GateInv, [Next]_vars PROVE GateInv'
    <2>1. WindowInv /\ RatesInv /\ QueueInv /\ RestTyped
      BY <1>2, InvariantParts
    <2>2. reqs \in Seq(Entry) /\ want \in [Caller -> {0} \union Sizes]
      BY <2>1 DEF WindowInv, RestTyped
    <2>3. WindowInv' /\ RatesInv' /\ QueueInv' /\ RestTyped'
      BY <1>2, <2>1, <2>2, WindowStep, RatesStep, QueueStep, RestStep
    <2>4. GateInv' <=> WindowInv' /\ RatesInv' /\ QueueInv' /\ RestTyped'
      BY InvariantParts, PTL
    <2> QED
      BY <2>3, <2>4
  <1> QED
    BY <1>1, <1>2, PTL DEF Spec

(* Every variable keeps its type: a running total never falls below zero,   *)
(* although _prune subtracts from it, and no rate is lost on the way down.  *)
THEOREM TypesSound == Spec => []TypeOK
  <1>1. GateInv => TypeOK
    BY DEF GateInv
  <1> QED
    BY <1>1, GateInvariant, PTL

(* _tok_total is the sum of the token window, and both windows stay oldest  *)
(* first, however acquire, record_usage and _prune interleave.              *)
THEOREM WindowsSound == Spec => []WindowsConsistent
  <1>1. GateInv => WindowsConsistent
    BY DEF GateInv
  <1> QED
    BY <1>1, GateInvariant, PTL

(* The lock's queue holds exactly the callers inside acquire, once each,    *)
(* and only its head sleeps, through admissions, rejections and             *)
(* cancellations in any order.                                              *)
THEOREM QueueSound == Spec => []QueueMatches
  <1>1. GateInv => QueueMatches
    BY DEF GateInv
  <1> QED
    BY <1>1, GateInvariant, PTL

(* note_rejected, note_success and the limits of observe never leave a rate *)
(* above both the ceiling and the floor.                                    *)
THEOREM CeilingSound == Spec => []BudgetWithinCeiling
  <1>1. GateInv => BudgetWithinCeiling
    BY DEF GateInv, BudgetInv
  <1> QED
    BY <1>1, GateInvariant, PTL

-----------------------------------------------------------------------------
(* A wait for the request window is none exactly if one more fits.          *)
LEMMA RpmWaitFacts ==
    ASSUME GateInv
    PROVE  /\ RpmWait(Prune(reqs)) \in Nat
           /\ RpmWait(Prune(reqs)) = 0 => rpm = 0 \/ 100 * (Len(Prune(reqs)) + 1) <= rpm
  <1> DEFINE q == Prune(reqs)
  <1>1. reqs \in Seq(Entry) /\ OldestFirst(reqs) /\ rpm \in Nat /\ (rpm = 0 \/ rpm >= 100)
    BY DEF GateInv, TypeOK, WindowsConsistent, BudgetInv
  <1>2. q \in Seq(Entry) /\ \A i \in 1..Len(q) : q[i].age < Window
    BY <1>1, PruneFacts
  <1> HIDE DEF q
  <1>3. CASE rpm # 0 /\ 100 * (Len(q) + 1) > rpm
    <2>1. Len(q) \in Nat /\ Len(q) # 0
      BY <1>1, <1>2, <1>3, Entries
    <2>2. 1 \in 1..Len(q)
      BY <2>1
    <2>3. q[1].age \in 0..Window /\ q[1].age < Window
      BY <1>2, <2>2, Entries
    <2>4. Window - q[1].age \in Nat \ {0}
      BY <2>3, ConstantTypes
    <2> QED
      BY <1>3, <2>4 DEF RpmWait, q
  <1>4. CASE ~(rpm # 0 /\ 100 * (Len(q) + 1) > rpm)
    <2>1. rpm = 0 \/ 100 * (Len(q) + 1) <= rpm
      BY <1>1, <1>2, <1>4, Entries
    <2> QED
      BY <1>4, <2>1 DEF RpmWait, q
  <1> QED
    BY <1>3, <1>4

(* A wait for the next day is none exactly if the day has a request left.   *)
LEMMA DayWaitFacts ==
    ASSUME GateInv
    PROVE  /\ RollDay \in Nat
           /\ DayWait(RollDay) \in Nat
           /\ DayWait(RollDay) = 0 => Rpd = 0 \/ RollDay + 1 <= Rpd
  <1>1. RollDay \in Nat /\ dayLeft \in Nat \ {0}
    BY ConstantTypes DEF GateInv, TypeOK, RollDay
  <1> QED
    BY <1>1, ConstantTypes DEF DayWait

(* acquire's wait for the token window is none exactly if the tokens fit or *)
(* the window is empty, and otherwise at least the wait for its first entry.*)
LEMMA TpmWaitFacts ==
    ASSUME GateInv, NEW n \in Nat,
           NEW k, k = Prune(toks), NEW total, total = PrunedTotal(toks, tokTotal)
    PROVE  /\ total \in Nat
           /\ TpmWait(k, total, n) \in Nat
           /\ tpm = 0 \/ 100 * (total + n) <= tpm \/ k = <<>> => TpmWait(k, total, n) = 0
           /\ tpm # 0 /\ 100 * (total + n) > tpm /\ k # <<>> =>
                 /\ Window - k[1].age \in Nat \ {0}
                 /\ TpmWait(k, total, n) >= Window - k[1].age
  <1>1. toks \in Seq(Entry) /\ OldestFirst(toks) /\ tokTotal = SumSizes(toks) /\ tpm \in Nat
    BY DEF GateInv, TypeOK, WindowsConsistent
  <1>2. /\ k \in Seq(Entry) /\ OldestFirst(k) /\ total = SumSizes(k)
        /\ \A i \in 1..Len(k) : k[i].age < Window
    BY <1>1, PruneFacts
  <1>3. total \in Nat /\ Len(k) \in Nat
    BY <1>2, SumIsNat
  <1>4. CASE tpm = 0 \/ 100 * (total + n) <= tpm \/ k = <<>>
    <2>1. TpmWait(k, total, n) = 0
      BY <1>4, Zenon DEF TpmWait
    <2>2. ~(tpm # 0 /\ 100 * (total + n) > tpm /\ k # <<>>)
      BY <1>1, <1>3, <1>4
    <2> QED
      BY <1>3, <2>1, <2>2
  <1>5. CASE ~(tpm = 0 \/ 100 * (total + n) <= tpm \/ k = <<>>)
    <2> DEFINE enough == {i \in 1..Len(k) : 100 * Released(k, i) >= 100 * (total + n) - tpm}
               last == IF enough = {} THEN Len(k) ELSE CHOOSE i \in enough : \A j \in enough : i <= j
    <2>1. TpmWait(k, total, n) = Window - k[last].age
      BY <1>5, Zenon DEF TpmWait
    <2>2. Len(k) \in 1..Len(k) /\ 1 \in 1..Len(k)
      BY <1>2, <1>3, <1>5
    <2>3. last \in 1..Len(k)
      <3>1. CASE enough = {}
        BY <2>2, <3>1
      <3>2. CASE enough # {}
        <4>1. enough \in SUBSET Nat /\ enough \subseteq 1..Len(k)
          OBVIOUS
        <4> HIDE DEF enough
        <4>2. \E i \in enough : \A j \in enough : i <= j
          BY <3>2, <4>1, LeastNumber
        <4>3. last \in enough
          BY <3>2, <4>2, Zenon
        <4> QED
          BY <4>1, <4>3
      <3> QED
        BY <3>1, <3>2
    <2> HIDE DEF last
    <2>4. /\ k[1].age \in 0..Window /\ k[last].age \in 0..Window
          /\ k[1].age < Window /\ k[last].age < Window
      BY <1>2, <2>2, <2>3, Entries
    <2>5. k[last].age <= k[1].age
      <3>1. last = 1 \/ 1 < last
        BY <1>3, <2>3
      <3> QED
        BY <1>2, <2>2, <2>3, <2>4, <3>1, ConstantTypes DEF OldestFirst
    <2>6. /\ Window - k[1].age \in Nat \ {0} /\ Window - k[last].age \in Nat
          /\ Window - k[last].age >= Window - k[1].age
      BY <2>4, <2>5, ConstantTypes
    <2> QED
      BY <1>3, <1>5, <2>1, <2>6
  <1> QED
    BY <1>4, <1>5

(* estimate_wait, the copy of acquire's arithmetic that the hub asks, never *)
(* overstates, and while nobody sleeps with the lock it says "ready"        *)
(* exactly when a caller would be let through at once.                      *)
LEMMA EstimateFacts == GateInv => EstimateIsReadiness
  <1> SUFFICES ASSUME GateInv, NEW n \in Sizes
               PROVE  /\ estimate_wait(n) <= AcquireWait(n)
                      /\ LockWait = 0 => (estimate_wait(n) = 0 <=> EntryWait(n) = 0)
    BY DEF EstimateIsReadiness
  <1> DEFINE k == Prune(toks)
             total == PrunedTotal(toks, tokTotal)
             over == tpm # 0 /\ 100 * (total + n) > tpm /\ k # <<>>
             E == IF over THEN Window - k[1].age ELSE 0
             T == TpmWait(k, total, n)
             R == RpmWait(Prune(reqs))
             D == DayWait(RollDay)
  <1>1. estimate_wait(n) = Most(Most(pause, R), Most(E, D))
    BY DEF estimate_wait
  <1>2. AcquireWait(n) = Most(Most(pause, R), Most(T, D))
    BY DEF AcquireWait
  <1>3. n \in Nat /\ tpm \in Nat /\ pause \in Nat
    BY ConstantTypes DEF GateInv, TypeOK
  <1>4. /\ total \in Nat /\ T \in Nat
        /\ tpm = 0 \/ 100 * (total + n) <= tpm \/ k = <<>> => T = 0
        /\ over => Window - k[1].age \in Nat \ {0} /\ T >= Window - k[1].age
    BY <1>3, TpmWaitFacts
  <1>5. R \in Nat /\ D \in Nat
    BY RpmWaitFacts, DayWaitFacts
  <1>6. E \in Nat /\ T \in Nat /\ E <= T /\ (E = 0 <=> T = 0)
    <2>1. CASE over
      BY <1>4, <2>1
    <2>2. CASE ~over
      <3>1. tpm = 0 \/ 100 * (total + n) <= tpm \/ k = <<>>
        BY <1>3, <1>4, <2>2
      <3> QED
        BY <1>4, <2>2, <3>1
    <2> QED
      BY <2>1, <2>2
  <1>7. LockWait \in Nat
    BY DEF LockWait, GateInv, TypeOK
  <1> HIDE DEF E, T, R, D
  <1>8. /\ estimate_wait(n) \in Nat /\ AcquireWait(n) \in Nat
        /\ estimate_wait(n) <= AcquireWait(n)
        /\ estimate_wait(n) = 0 <=> AcquireWait(n) = 0
    BY <1>1, <1>2, <1>3, <1>5, <1>6 DEF Most
  <1> QED
    BY <1>7, <1>8 DEF EntryWait, Most

(* estimate_wait, the hub's copy of acquire's arithmetic, never exceeds the *)
(* wait acquire computes, and unless a sleeper keeps the lock it is 0       *)
(* exactly when a caller that enters acquire now has nothing to wait for.   *)
THEOREM EstimateSound == Spec => []EstimateIsReadiness
  BY EstimateFacts, GateInvariant, PTL

(* Only Admit takes a caller in flight that was not.                        *)
LEMMA AdmissionStep ==
    ASSUME GateInv, [Next]_vars, NEW c \in Caller, Admission(c)
    PROVE  Admit(c)
  <1>1. pc \in [Caller -> Places] /\ pc[c] # "inflight" /\ pc'[c] = "inflight"
    BY DEF GateInv, TypeOK, Places, Admission
  <1>2. ASSUME NEW d \in Caller, NEW there \in Places \ {"inflight"}, pc' = [pc EXCEPT ![d] = there]
        PROVE  FALSE
    BY <1>1, <1>2
  <1>3. ASSUME NEW d \in Caller,
               \/ \E n \in Sizes : Call(d, n)
               \/ Sleep(d) \/ Reject(d) \/ Cancel(d) \/ Finish(d)
               \/ \E resp \in Response : observe(d, resp)
        PROVE  FALSE
    <2>1. \E there \in Places \ {"inflight"} : pc' = [pc EXCEPT ![d] = there]
      BY <1>3 DEF Call, Sleep, Reject, Cancel, Finish, observe, Places
    <2> QED
      BY <1>2, <2>1
  <1>4. pc' # pc
    BY <1>1
  <1>5. ~(Inspect \/ Tick \/ UNCHANGED vars) /\ \A d \in Caller, n \in Usages : ~record_usage(d, n)
    BY <1>4 DEF Inspect, Tick, vars, record_usage
  <1>6. PICK d \in Caller : Admit(d)
    BY <1>3, <1>5 DEF Next, acquire
  <1>7. pc' = [pc EXCEPT ![d] = "inflight"]
    BY <1>6 DEF Admit, Enter
  <1>8. c = d
    BY <1>1, <1>7
  <1> QED
    BY <1>6, <1>8

(* What acquire lets through fits into the budget of that moment.           *)
LEMMA AdmitFits ==
    ASSUME GateInv, NEW c \in Caller, Admit(c)
    PROVE  /\ pause = 0
           /\ rpm # 0 => 100 * Cardinality({i \in 1..Len(reqs') : reqs'[i].age < Window}) <= rpm
           /\ tpm # 0 => 100 * tokTotal' <= tpm \/ Len(toks') = 1
           /\ Rpd # 0 => dayUsed' <= Rpd
  <1> DEFINE n == want[c]
             q == Prune(reqs)
             k == Prune(toks)
             total == PrunedTotal(toks, tokTotal)
             T == TpmWait(k, total, n)
             R == RpmWait(q)
             D == DayWait(RollDay)
  <1>1. n \in Nat /\ tpm \in Nat /\ rpm \in Nat /\ pause \in Nat
        /\ reqs \in Seq(Entry) /\ toks \in Seq(Entry)
    BY ConstantTypes DEF GateInv, TypeOK
  <1>2. Most(Most(pause, R), Most(T, D)) = 0
    BY DEF Admit, AcquireWait
  <1>3. R \in Nat /\ D \in Nat /\ T \in Nat /\ total \in Nat
    BY <1>1, RpmWaitFacts, DayWaitFacts, TpmWaitFacts
  <1>4. pause = 0 /\ R = 0 /\ D = 0 /\ T = 0
    <2> HIDE DEF T, R, D
    <2> QED
      BY <1>1, <1>2, <1>3 DEF Most
  <1>5. /\ reqs' = Append(q, [age |-> 0, size |-> 1])
        /\ toks' = Append(k, [age |-> 0, size |-> n])
        /\ tokTotal' = total + n
        /\ dayUsed' = IF Rpd = 0 THEN 0 ELSE RollDay + 1
    BY DEF Admit, Enter
  <1>6. q \in Seq(Entry) /\ k \in Seq(Entry) /\ Len(q) \in Nat
    BY <1>1, PruneFacts, Entries
  <1>7. ASSUME rpm # 0
        PROVE  100 * Cardinality({i \in 1..Len(reqs') : reqs'[i].age < Window}) <= rpm
    <2> DEFINE S == {i \in 1..Len(reqs') : reqs'[i].age < Window}
    <2>1. 100 * (Len(q) + 1) <= rpm
      BY <1>4, <1>7, RpmWaitFacts
    <2>2. Len(reqs') = Len(q) + 1
      BY <1>5, <1>6
    <2>3. IsFiniteSet(1..Len(reqs')) /\ Cardinality(1..Len(reqs')) = Len(q) + 1
      BY <1>6, <2>2, FS_Interval
    <2>4. S \in SUBSET (1..Len(reqs'))
      OBVIOUS
    <2> HIDE DEF S
    <2>5. IsFiniteSet(S) /\ Cardinality(S) <= Len(q) + 1
      BY <2>3, <2>4, FS_Subset
    <2>6. Cardinality(S) \in Nat
      BY <2>5, FS_CardinalityType
    <2>7. 100 * Cardinality(S) <= rpm
      BY <1>1, <1>6, <2>1, <2>5, <2>6
    <2> QED
      BY <2>7 DEF S
  <1>8. ASSUME tpm # 0 PROVE 100 * tokTotal' <= tpm \/ Len(toks') = 1
    <2>1. CASE 100 * (total + n) <= tpm
      BY <1>5, <2>1
    <2>2. CASE k = <<>>
      BY <1>5, <2>2
    <2>3. CASE ~(100 * (total + n) <= tpm) /\ k # <<>>
      <3>1. 100 * (total + n) > tpm
        BY <1>1, <1>3, <2>3
      <3>2. Window - k[1].age \in Nat \ {0} /\ T >= Window - k[1].age
        BY <1>1, <1>8, <2>3, <3>1, TpmWaitFacts
      <3> HIDE DEF T
      <3> QED
        BY <1>4, <3>2
    <2> QED
      BY <2>1, <2>2, <2>3
  <1>9. Rpd # 0 => dayUsed' <= Rpd
    BY <1>4, <1>5, DayWaitFacts
  <1> QED
    BY <1>4, <1>7, <1>8, <1>9

(* A request leaves the gate only unparked and within the request, token    *)
(* and daily budget of that moment, whatever responses changed while its    *)
(* caller slept: acquire measures again before it lets a sleeper through.   *)
THEOREM AdmissionSound == Spec => AdmittedWithinBudget
  <1> DEFINE Fits(c) ==
        /\ pause = 0
        /\ rpm # 0 => 100 * Cardinality({i \in 1..Len(reqs') : reqs'[i].age < Window}) <= rpm
        /\ tpm # 0 => 100 * tokTotal' <= tpm \/ Len(toks') = 1
        /\ Rpd # 0 => dayUsed' <= Rpd
  <1>1. ASSUME GateInv, [Next]_vars PROVE \A c \in Caller : Admission(c) => Fits(c)
    BY <1>1, AdmissionStep, AdmitFits
  <1> QED
    BY <1>1, GateInvariant, PTL DEF Spec, AdmittedWithinBudget
=============================================================================

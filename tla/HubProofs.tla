----------------------------- MODULE HubProofs -----------------------------
(***************************************************************************)
(* Proofs, for every pool, every number of calls and every strategy, that   *)
(* the hub never splices the answers of two slots, that a call fails only   *)
(* after every slot that could have served it has failed it, and that every *)
(* variable keeps its type.                                                 *)
(***************************************************************************)
EXTENDS Hub, FiniteSetTheorems, SequenceTheorems, TLAPS

PC == {"idle", "trying", "done", "failed", "broken", "cancelled"}

Domains ==
    /\ pc \in [Call -> PC]
    /\ DOMAIN source = Call
    /\ DOMAIN order = Call

(* Nothing, or one slot's output, has reached the caller.                   *)
OneSource(c) == source[c] = {} \/ \E s : source[c] = {s}

(* While a call tries, what it delivered came from the request in flight; a *)
(* call that has not begun has delivered nothing.  NoSplice alone is not    *)
(* inductive: the next chunk might come from another slot.                  *)
FromInFlight ==
    \A c \in Call :
        /\ OneSource(c)
        /\ pc[c] = "idle" => source[c] = {}
        /\ pc[c] = "trying" => source[c] = {} \/ source[c] = {Head(order[c])}

(* No call has begun or delivered at first.                                 *)
LEMMA InitSource == Init => Domains /\ FromInFlight
  <1> SUFFICES ASSUME Init PROVE Domains /\ FromInFlight
    OBVIOUS
  <1>1. pc \in [Call -> PC] /\ \A c \in Call : pc[c] = "idle" /\ source[c] = {}
    BY DEF Init, PC
  <1>2. DOMAIN source = Call /\ DOMAIN order = Call
    BY Zenon DEF Init
  <1> QED
    BY <1>1, <1>2 DEF Domains, FromInFlight, OneSource

(* A step of any call keeps every call to its one slot.                     *)
LEMMA SourceStep ==
    ASSUME Domains, FromInFlight, [Next]_vars
    PROVE  Domains' /\ FromInFlight'
  <1> USE DEF Domains, FromInFlight, OneSource, PC
  <1>1. ASSUME NEW c \in Call, Begin(c) PROVE Domains' /\ FromInFlight'
    <2>1. PICK q : order' = [order EXCEPT ![c] = q]
      BY <1>1 DEF Begin
    <2> QED
      BY <1>1, <2>1 DEF Begin
  <1>2. ASSUME NEW c \in Call, Succeed(c) PROVE Domains' /\ FromInFlight'
    BY <1>2 DEF Succeed, Leave, Trying, InFlight
  <1>3. ASSUME NEW c \in Call, Chunk(c) PROVE Domains' /\ FromInFlight'
    BY <1>3 DEF Chunk, Trying, InFlight
  <1>4. ASSUME NEW c \in Call, NEW t \in CoolTimes, Fail(c, t) PROVE Domains' /\ FromInFlight'
    BY <1>4 DEF Fail, TryNext, Leave, Trying
  <1>5. ASSUME NEW c \in Call, BreakOff(c) \/ Cancel(c) PROVE Domains' /\ FromInFlight'
    BY <1>5 DEF BreakOff, Cancel, Leave, Trying
  <1>6. CASE Tick \/ UNCHANGED vars
    BY <1>6 DEF Tick, vars
  <1> QED
    BY <1>1, <1>2, <1>3, <1>4, <1>5, <1>6 DEF Next, Resolve

(* However calls overlap and slots fail, what reached a caller came from    *)
(* one slot.                                                                *)
THEOREM SingleSource == Spec => []NoSplice
  <1>1. Domains /\ FromInFlight => NoSplice
    <2> SUFFICES ASSUME FromInFlight, NEW c \in Call PROVE Cardinality(source[c]) <= 1
      BY DEF NoSplice
    <2>1. CASE source[c] = {}
      BY <2>1, FS_EmptySet
    <2>2. CASE \E s : source[c] = {s}
      <3>1. PICK s : source[c] = {s}
        BY <2>2
      <3>2. Cardinality({s}) = 1
        BY FS_Singleton
      <3> QED
        BY <3>1, <3>2
    <2> QED
      BY <2>1, <2>2 DEF FromInFlight, OneSource
  <1> QED
    BY InitSource, SourceStep, <1>1, PTL DEF Spec

-----------------------------------------------------------------------------
(* The slots a sequence mentions.                                           *)
Mentioned(q) == {q[i] : i \in 1..Len(q)}

(* A call that tries has in its order every slot it still owes an attempt;  *)
(* one that failed owes none and has delivered nothing.                     *)
OwedInOrder ==
    \A c \in Call :
        /\ pc[c] = "trying" =>
              order[c] \in Seq(Slot) /\ order[c] # <<>> /\ owed[c] \subseteq Mentioned(order[c])
        /\ pc[c] = "failed" => owed[c] = {} /\ source[c] = {}

OwedInv ==
    /\ cool \in [Slot -> Nat]
    /\ DOMAIN owed = Call
    /\ OwedInOrder

(* The pool is a sequence: there are finitely many slots.                   *)
LEMMA FiniteSlots == IsFiniteSet(Slot)
  <1> DEFINE f == [i \in 1..Len(Pool) |-> Pool[i]]
  <1>1. Len(Pool) \in Nat /\ Slot = {Pool[i] : i \in 1..Len(Pool)}
    BY HubAssumption DEF Slot
  <1>2. f \in Surjection(1..Len(Pool), Slot)
    BY <1>1 DEF Surjection
  <1>3. IsFiniteSet(1..Len(Pool))
    BY <1>1, FS_Interval
  <1> HIDE DEF f
  <1> QED
    BY <1>2, <1>3, FS_Surjection

(* An arrangement of a set of slots mentions each of them and no other: it  *)
(* is as long as the set, so no repetition leaves room for an omission.     *)
LEMMA ArrangementMentionsAll ==
    ASSUME NEW S, S \subseteq Slot, NEW q \in SetToSeqs(S)
    PROVE  q \in Seq(S) /\ Mentioned(q) = S
  <1> DEFINE D == 1..Cardinality(S)
  <1>1. IsFiniteSet(S)
    BY FiniteSlots, FS_Subset
  <1>2. Cardinality(S) \in Nat
    BY <1>1, FS_CardinalityType
  <1>3. q \in [D -> S] /\ \A i, j \in D : i # j => q[i] # q[j]
    BY DEF SetToSeqs
  <1>4. q \in Seq(S) /\ Len(q) = Cardinality(S)
    BY <1>2, <1>3
  <1>5. Cardinality(D) = Cardinality(S)
    BY <1>2, FS_Interval
  <1>6. q \in Injection(D, S)
    BY <1>3, Zenon DEF Injection, IsInjective
  <1>7. q \in Surjection(D, S)
    BY <1>1, <1>5, <1>6, FS_Injection
  <1>8. \A s \in S : \E i \in D : q[i] = s
    BY <1>7, Zenon DEF Surjection
  <1> QED
    BY <1>3, <1>4, <1>8 DEF Mentioned

(* A sequence over some of the slots is one over the slots.                 *)
LEMMA SeqWidens ==
    ASSUME NEW S, S \subseteq Slot
    PROVE  Seq(S) \subseteq Seq(Slot)
  OBVIOUS

(* Sorting arranges.                                                        *)
LEMMA SortedMentionsAll ==
    ASSUME NEW S, S \subseteq Slot, NEW key, NEW q \in SortBy(S, key)
    PROVE  q \in Seq(S) /\ Mentioned(q) = S
  <1>1. q \in SetToSeqs(S)
    BY DEF SortBy
  <1> QED
    BY <1>1, ArrangementMentionsAll

(* Whichever the strategy, the ready slots all come out.                    *)
LEMMA ReadyMentionsAll ==
    ASSUME NEW c, NEW pace, Ready(c, pace) \subseteq Slot, NEW q \in ReadyOrders(c, pace)
    PROVE  q \in Seq(Ready(c, pace)) /\ Mentioned(q) = Ready(c, pace)
  <1>1. CASE Fastest
    BY <1>1, ArrangementMentionsAll DEF ReadyOrders
  <1>2. CASE ~Fastest
    BY <1>2, SortedMentionsAll DEF ReadyOrders
  <1> QED
    BY <1>1, <1>2

(* A chain mentions what its two parts mention.                             *)
LEMMA ChainMentions ==
    ASSUME NEW q \in Seq(Slot), NEW r \in Seq(Slot)
    PROVE  q \o r \in Seq(Slot) /\ Mentioned(q \o r) = Mentioned(q) \union Mentioned(r)
  <1>1. q \o r \in Seq(Slot) /\ Len(q \o r) = Len(q) + Len(r)
    BY ConcatProperties
  <1>2. Mentioned(q \o r) \subseteq Mentioned(q) \union Mentioned(r)
    <2> SUFFICES ASSUME NEW i \in 1..Len(q \o r)
                 PROVE  (q \o r)[i] \in Mentioned(q) \union Mentioned(r)
      BY DEF Mentioned
    <2>1. CASE i <= Len(q)
      BY <1>1, <2>1, ConcatProperties DEF Mentioned
    <2>2. CASE i > Len(q)
      <3>1. i - Len(q) \in 1..Len(r) /\ (q \o r)[i] = r[i - Len(q)]
        BY <1>1, <2>2, ConcatProperties
      <3> QED
        BY <3>1 DEF Mentioned
    <2> QED
      BY <2>1, <2>2
  <1>3. Mentioned(q) \subseteq Mentioned(q \o r)
    <2> SUFFICES ASSUME NEW i \in 1..Len(q) PROVE q[i] \in Mentioned(q \o r)
      BY DEF Mentioned
    <2>1. i \in 1..Len(q \o r) /\ (q \o r)[i] = q[i]
      BY <1>1, ConcatProperties
    <2> QED
      BY <2>1 DEF Mentioned
  <1>4. Mentioned(r) \subseteq Mentioned(q \o r)
    <2> SUFFICES ASSUME NEW i \in 1..Len(r) PROVE r[i] \in Mentioned(q \o r)
      BY DEF Mentioned
    <2>1. Len(q) + i \in 1..Len(q \o r) /\ (q \o r)[Len(q) + i] = r[i]
      BY <1>1, ConcatProperties
    <2> QED
      BY <2>1 DEF Mentioned
  <1> QED
    BY <1>1, <1>2, <1>3, <1>4

(* The order a call begins with has a slot, and has every slot that could   *)
(* serve it, or all the lobe's slots if none is ready.                      *)
LEMMA OrderCovers ==
    ASSUME NEW c \in Call, cool \in [Slot -> Nat],
           NEW pace \in [Own[c] -> Paces], NEW q \in Orders(c, pace)
    PROVE  /\ q \in Seq(Slot) /\ q # <<>>
           /\ (IF Ready(c, pace) # {} THEN {s \in Own[c] : cool[s] = 0} ELSE Own[c])
                 \subseteq Mentioned(q)
  <1>1. Own[c] \subseteq Slot /\ Own[c] # {}
    <2>1. Own \in [Call -> (SUBSET Slot) \ {{}}]
      BY HubAssumption, Zenon
    <2> QED
      BY <2>1
  <1>2. \A s \in Own[c] : cool[s] \in Nat /\ pace[s] \in Nat
    BY <1>1, HubAssumption
  <1>3. {s \in Own[c] : cool[s] = 0} = Ready(c, pace) \union Waiting(c, pace)
    BY <1>2 DEF Ready, Waiting
  <1>4. Own[c] = Ready(c, pace) \union Waiting(c, pace) \union Cooling(c)
    BY <1>2 DEF Ready, Waiting, Cooling
  <1>5. Ready(c, pace) \subseteq Slot /\ Waiting(c, pace) \subseteq Slot /\ Cooling(c) \subseteq Slot
    BY <1>1 DEF Ready, Waiting, Cooling
  <1>6. CASE Ready(c, pace) # {}
    <2>1. PICK f \in ReadyOrders(c, pace), r \in SortBy(Waiting(c, pace), pace) : q = f \o r
      BY <1>6 DEF Orders, Chain
    <2>2. f \in Seq(Slot) /\ Mentioned(f) = Ready(c, pace)
      BY <1>5, ReadyMentionsAll
    <2>3. r \in Seq(Slot) /\ Mentioned(r) = Waiting(c, pace)
      BY <1>5, SortedMentionsAll, SeqWidens
    <2>4. q \in Seq(Slot) /\ Mentioned(q) = Ready(c, pace) \union Waiting(c, pace)
      BY <2>1, <2>2, <2>3, ChainMentions
    <2>5. q # <<>>
      BY <1>6, <2>4 DEF Mentioned
    <2> QED
      BY <1>3, <1>6, <2>4, <2>5
  <1>7. CASE Ready(c, pace) = {}
    <2>1. PICK f \in SortBy(Waiting(c, pace), pace), r \in SortBy(Cooling(c), cool) : q = f \o r
      BY <1>7 DEF Orders, Chain
    <2>2. f \in Seq(Slot) /\ Mentioned(f) = Waiting(c, pace)
      BY <1>5, SortedMentionsAll, SeqWidens
    <2>3. r \in Seq(Slot) /\ Mentioned(r) = Cooling(c)
      BY <1>5, SortedMentionsAll, SeqWidens
    <2>4. q \in Seq(Slot) /\ Mentioned(q) = Own[c]
      BY <1>4, <1>7, <2>1, <2>2, <2>3, ChainMentions
    <2>5. q # <<>>
      BY <1>1, <2>4 DEF Mentioned
    <2> QED
      BY <1>7, <2>4, <2>5
  <1> QED
    BY <1>6, <1>7

(* Dropping the head of an order drops at most the head from what it        *)
(* mentions, and leaves nothing of an order of one.                         *)
LEMMA HeadDropped ==
    ASSUME NEW q \in Seq(Slot), q # <<>>
    PROVE  /\ Head(q) \in Slot
           /\ Len(q) = 1 => Mentioned(q) \ {Head(q)} = {}
           /\ Len(q) # 1 => /\ Tail(q) \in Seq(Slot) /\ Tail(q) # <<>>
                            /\ Mentioned(q) \ {Head(q)} \subseteq Mentioned(Tail(q))
  <1>1. Len(q) \in Nat /\ Len(q) >= 1 /\ Head(q) = q[1] /\ q[1] \in Slot
    OBVIOUS
  <1>2. Len(q) = 1 => Mentioned(q) \ {Head(q)} = {}
    BY <1>1 DEF Mentioned
  <1>3. ASSUME Len(q) # 1
        PROVE  /\ Tail(q) \in Seq(Slot) /\ Tail(q) # <<>>
               /\ Mentioned(q) \ {Head(q)} \subseteq Mentioned(Tail(q))
    <2>1. Tail(q) \in Seq(Slot) /\ Len(Tail(q)) = Len(q) - 1
      BY <1>1
    <2>2. Tail(q) # <<>>
      <3>1. Len(Tail(q)) # 0
        BY <1>1, <1>3, <2>1
      <3> QED
        BY <2>1, <3>1, EmptySeq
    <2>3. ASSUME NEW i \in 1..Len(q), q[i] # Head(q) PROVE q[i] \in Mentioned(Tail(q))
      <3>1. i # 1
        BY <1>1, <2>3
      <3>2. i - 1 \in 1..Len(Tail(q)) /\ Tail(q)[i - 1] = q[i]
        BY <1>1, <2>1, <3>1
      <3> QED
        BY <3>2 DEF Mentioned
    <2> QED
      BY <2>1, <2>2, <2>3 DEF Mentioned
  <1> QED
    BY <1>1, <1>2, <1>3

(* Nothing is cooling and no call has begun at first.                       *)
LEMMA InitOwed == Init => OwedInv
  <1> SUFFICES ASSUME Init PROVE OwedInv
    OBVIOUS
  <1>1. cool \in [Slot -> Nat] /\ \A c \in Call : pc[c] = "idle"
    BY DEF Init
  <1>2. DOMAIN owed = Call
    BY Zenon DEF Init
  <1> QED
    BY <1>1, <1>2 DEF OwedInv, OwedInOrder

(* A step keeps every call's debt within its order.                         *)
LEMMA OwedStep ==
    ASSUME Domains, OwedInv, [Next]_vars
    PROVE  OwedInv'
  <1> USE DEF Domains, OwedInv, OwedInOrder, PC
  <1>1. ASSUME NEW c \in Call, Begin(c) PROVE OwedInv'
    <2>1. PICK pace \in [Own[c] -> Paces] :
            /\ \E q \in Orders(c, pace) : order' = [order EXCEPT ![c] = q]
            /\ owed' = [owed EXCEPT ![c] =
                  IF Ready(c, pace) # {} THEN {s \in Own[c] : cool[s] = 0} ELSE Own[c]]
      BY <1>1 DEF Begin
    <2>2. PICK q \in Orders(c, pace) : order' = [order EXCEPT ![c] = q]
      BY <2>1
    <2>3. q \in Seq(Slot) /\ q # <<>>
          /\ (IF Ready(c, pace) # {} THEN {s \in Own[c] : cool[s] = 0} ELSE Own[c])
                \subseteq Mentioned(q)
      BY OrderCovers
    <2>4. order'[c] = q /\ owed'[c] \subseteq Mentioned(q)
      BY <2>1, <2>2, <2>3
    <2>5. pc' = [pc EXCEPT ![c] = "trying"] /\ UNCHANGED <<cool, source>>
      BY <1>1 DEF Begin
    <2>6. \A d \in Call \ {c} : /\ pc'[d] = pc[d] /\ order'[d] = order[d]
                               /\ owed'[d] = owed[d] /\ source'[d] = source[d]
      BY <2>1, <2>2, <2>5
    <2>7. pc'[c] = "trying" /\ DOMAIN owed' = Call /\ cool' \in [Slot -> Nat]
      BY <2>1, <2>5
    <2> QED
      BY <2>3, <2>4, <2>6, <2>7
  <1>2. ASSUME NEW c \in Call, Succeed(c) PROVE OwedInv'
    <2>1. cool' \in [Slot -> Nat]
      BY <1>2 DEF Succeed, MarkOk
    <2> QED
      BY <1>2, <2>1 DEF Succeed, Leave, Trying
  <1>3. ASSUME NEW c \in Call, Chunk(c) PROVE OwedInv'
    BY <1>3 DEF Chunk, Trying
  <1>4. ASSUME NEW c \in Call, NEW t \in CoolTimes, Fail(c, t) PROVE OwedInv'
    <2>1. /\ order[c] \in Seq(Slot) /\ order[c] # <<>>
          /\ owed[c] \subseteq Mentioned(order[c]) /\ pc[c] = "trying" /\ source[c] = {}
      BY <1>4 DEF Fail, TryNext, Trying
    <2>2. t \in Nat
      BY HubAssumption
    <2>3. cool' \in [Slot -> Nat]
      BY <1>4, <2>2 DEF Fail, TryNext, MarkFailed
    <2>4. owed' = [owed EXCEPT ![c] = @ \ {Head(order[c])}] /\ UNCHANGED source
      BY <1>4 DEF Fail, TryNext, InFlight
    <2>5. CASE Len(order[c]) = 1
      <3>1. owed'[c] = {}
        BY <2>1, <2>4, <2>5, HeadDropped
      <3>2. pc' = [pc EXCEPT ![c] = "failed"] /\ order' = [order EXCEPT ![c] = <<>>]
        BY <1>4, <2>5 DEF Fail, TryNext, Leave
      <3> QED
        BY <2>1, <2>3, <2>4, <3>1, <3>2
    <2>6. CASE Len(order[c]) # 1
      <3>1. order' = [order EXCEPT ![c] = Tail(@)] /\ pc' = pc
        BY <1>4, <2>6 DEF Fail, TryNext
      <3>2. order'[c] = Tail(order[c]) /\ owed'[c] = owed[c] \ {Head(order[c])}
        BY <2>4, <3>1
      <3>3. order'[c] \in Seq(Slot) /\ order'[c] # <<>> /\ owed'[c] \subseteq Mentioned(order'[c])
        BY <2>1, <2>6, <3>2, HeadDropped
      <3>4. \A d \in Call \ {c} : order'[d] = order[d] /\ owed'[d] = owed[d]
        BY <2>4, <3>1
      <3> QED
        BY <2>1, <2>3, <2>4, <3>1, <3>3, <3>4
    <2> QED
      BY <2>5, <2>6
  <1>5. ASSUME NEW c \in Call, BreakOff(c) \/ Cancel(c) PROVE OwedInv'
    BY <1>5 DEF BreakOff, Cancel, Leave, Trying
  <1>6. CASE Tick
    <2>1. cool' \in [Slot -> Nat]
      BY <1>6 DEF Tick
    <2> QED
      BY <1>6, <2>1 DEF Tick
  <1>7. CASE UNCHANGED vars
    BY <1>7 DEF vars
  <1> QED
    BY <1>1, <1>2, <1>3, <1>4, <1>5, <1>6, <1>7 DEF Next, Resolve

(* Although the order is computed once and other calls change the           *)
(* cool-downs under it, an error reaches the caller only after every slot   *)
(* that could have served the call when it began has failed it.             *)
THEOREM FailureSound == Spec => []FailsOnlyWhenAllFailed
  <1>1. OwedInv => FailsOnlyWhenAllFailed
    BY DEF OwedInv, OwedInOrder, FailsOnlyWhenAllFailed
  <1> QED
    BY InitSource, SourceStep, InitOwed, OwedStep, <1>1, PTL DEF Spec

-----------------------------------------------------------------------------
(* What the types need beyond what is known of orders and debts.            *)
Bounded ==
    /\ next \in Nat
    /\ cool \in [Slot -> 0..MaxCool]
    /\ order \in [Call -> Seq(Slot)]
    /\ source \in [Call -> SUBSET Slot]
    /\ owed \in [Call -> SUBSET Slot]

(* No cool-down is longer than the longest.                                 *)
LEMMA LongestCool ==
    ASSUME NEW m \in CoolTimes, \A u \in CoolTimes : u <= m
    PROVE  MaxCool \in Nat /\ \A u \in CoolTimes : u \in 0..MaxCool
  <1>1. MaxCool \in CoolTimes /\ \A u \in CoolTimes : u <= MaxCool
    BY DEF MaxCool
  <1>2. CoolTimes \subseteq Nat
    BY HubAssumption
  <1> QED
    BY <1>1, <1>2

(* Everything fits its type at first.                                       *)
LEMMA InitBounded ==
    ASSUME MaxCool \in Nat, Init
    PROVE  Bounded
  <1>1. <<>> \in Seq(Slot)
    OBVIOUS
  <1> QED
    BY <1>1 DEF Bounded, Init

(* A step keeps the types: a mark never leaves the range of cool-downs, and *)
(* what is in flight is a slot because a call that tries has one.           *)
LEMMA BoundedStep ==
    ASSUME MaxCool \in Nat, \A u \in CoolTimes : u \in 0..MaxCool,
           Domains, OwedInv, Bounded, [Next]_vars
    PROVE  Bounded'
  <1> USE DEF Bounded
  <1>1. <<>> \in Seq(Slot)
    OBVIOUS
  <1>2. \A c \in Call : Trying(c) => InFlight(c) \in Slot
    BY HeadDropped DEF OwedInv, OwedInOrder, Trying, InFlight
  <1>3. ASSUME NEW c \in Call, Begin(c) PROVE Bounded'
    <2>1. PICK pace \in [Own[c] -> Paces] :
            /\ \E q \in Orders(c, pace) : order' = [order EXCEPT ![c] = q]
            /\ owed' = [owed EXCEPT ![c] =
                  IF Ready(c, pace) # {} THEN {s \in Own[c] : cool[s] = 0} ELSE Own[c]]
      BY <1>3 DEF Begin
    <2>2. PICK q \in Orders(c, pace) : order' = [order EXCEPT ![c] = q]
      BY <2>1
    <2>3. q \in Seq(Slot)
      BY OrderCovers DEF OwedInv
    <2>4. Own[c] \subseteq Slot
      <3>1. Own \in [Call -> (SUBSET Slot) \ {{}}]
        BY HubAssumption, Zenon
      <3> QED
        BY <3>1
    <2>5. owed' \in [Call -> SUBSET Slot]
      BY <2>1, <2>4
    <2>6. next' \in Nat /\ UNCHANGED <<cool, source>>
      BY <1>3 DEF Begin
    <2> QED
      BY <2>2, <2>3, <2>5, <2>6
  <1>4. ASSUME NEW c \in Call, Succeed(c) PROVE Bounded'
    <2>1. Trying(c) /\ order' = [order EXCEPT ![c] = <<>>] /\ next' = next
      BY <1>4 DEF Succeed, Leave
    <2>2. source' \in [Call -> SUBSET Slot]
      <3>1. source[c] \in SUBSET Slot /\ InFlight(c) \in Slot
        BY <1>2, <2>1
      <3>2. source' = [source EXCEPT ![c] =
                          IF c \in Streams THEN source[c] ELSE source[c] \union {InFlight(c)}]
        BY <1>4 DEF Succeed
      <3> QED
        BY <3>1, <3>2
    <2>3. cool' \in [Slot -> 0..MaxCool]
      <3>1. 0 \in 0..MaxCool
        OBVIOUS
      <3>2. cool' = [cool EXCEPT ![InFlight(c)] = 0]
        BY <1>4 DEF Succeed, MarkOk
      <3> QED
        BY <3>1, <3>2
    <2>4. owed' \in [Call -> SUBSET Slot]
      BY <1>4 DEF Succeed
    <2> QED
      BY <1>1, <2>1, <2>2, <2>3, <2>4
  <1>5. ASSUME NEW c \in Call, Chunk(c) PROVE Bounded'
    <2>1. Trying(c) /\ UNCHANGED <<next, cool, order, owed>>
      BY <1>5 DEF Chunk
    <2>2. source[c] \in SUBSET Slot /\ InFlight(c) \in Slot
      BY <1>2, <2>1
    <2>3. source' = [source EXCEPT ![c] = source[c] \union {InFlight(c)}]
      BY <1>5 DEF Chunk
    <2> QED
      BY <2>1, <2>2, <2>3
  <1>6. ASSUME NEW c \in Call, NEW t \in CoolTimes, Fail(c, t) PROVE Bounded'
    <2>1. Trying(c) /\ UNCHANGED source /\ next' = next
      BY <1>6 DEF Fail, TryNext, Leave
    <2>2. cool' \in [Slot -> 0..MaxCool]
      BY <1>6 DEF Fail, TryNext, MarkFailed
    <2>3. owed' \in [Call -> SUBSET Slot]
      BY <1>6 DEF Fail, TryNext
    <2>4. order[c] \in Seq(Slot) /\ order[c] # <<>>
      BY <2>1 DEF OwedInv, OwedInOrder, Trying
    <2>5. order' \in [Call -> Seq(Slot)]
      <3>1. CASE Len(order[c]) = 1
        BY <1>1, <1>6, <3>1 DEF Fail, TryNext, Leave
      <3>2. CASE Len(order[c]) # 1
        <4>1. Tail(order[c]) \in Seq(Slot)
          BY <2>4, <3>2, HeadDropped
        <4>2. order' = [order EXCEPT ![c] = Tail(@)]
          BY <1>6, <3>2 DEF Fail, TryNext
        <4> QED
          BY <4>1, <4>2
      <3> QED
        BY <3>1, <3>2
    <2> QED
      BY <2>1, <2>2, <2>3, <2>5
  <1>7. ASSUME NEW c \in Call, BreakOff(c) \/ Cancel(c) PROVE Bounded'
    BY <1>1, <1>7 DEF BreakOff, Cancel, Leave
  <1>8. CASE Tick
    <2>1. \A s \in Slot : (IF cool[s] = 0 THEN 0 ELSE cool[s] - 1) \in 0..MaxCool
      OBVIOUS
    <2>2. cool' \in [Slot -> 0..MaxCool]
      BY <1>8, <2>1 DEF Tick
    <2> QED
      BY <1>8, <2>2 DEF Tick
  <1>9. CASE UNCHANGED vars
    BY <1>9 DEF vars
  <1> QED
    BY <1>3, <1>4, <1>5, <1>6, <1>7, <1>8, <1>9 DEF Next, Resolve

(* Every variable keeps its type and a call that tries has a slot in        *)
(* flight: buffered and stream never run on past the end of their order.    *)
(* That the longest cool-down exists is what MaxCool is about.              *)
THEOREM TypesSound ==
    ASSUME \E m \in CoolTimes : \A u \in CoolTimes : u <= m
    PROVE  Spec => []TypeOK
  <1>1. MaxCool \in Nat /\ \A u \in CoolTimes : u \in 0..MaxCool
    BY LongestCool
  <1>2. Init => Bounded
    BY <1>1, InitBounded
  <1>3. Domains /\ OwedInv /\ Bounded /\ [Next]_vars => Bounded'
    BY <1>1, BoundedStep
  <1>4. Domains /\ OwedInv /\ Bounded => TypeOK
    BY DEF Domains, PC, OwedInv, OwedInOrder, Bounded, TypeOK
  <1> QED
    BY InitSource, SourceStep, InitOwed, OwedStep, <1>2, <1>3, <1>4, PTL DEF Spec
============================================================================

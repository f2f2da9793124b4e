------------------------- MODULE MeterFilterProofs -------------------------
(***************************************************************************)
(* Proofs, for every set of chunks and every number of them, that what the  *)
(* stream filter emits is a prefix of the answer and at most blanks and one *)
(* line behind it; and that for an answer cut at line ends it is what       *)
(* strip_deception_meter makes of the whole text.                           *)
(***************************************************************************)
EXTENDS MeterFilter, SequenceTheorems, WellFoundedInduction, TLAPS

(* Every variable keeps its type.                                           *)
Types ==
    /\ pending \in Seq(Symbol)
    /\ text \in Seq(Symbol)
    /\ emitted \in Seq(Symbol)
    /\ blocked \in BOOLEAN
    /\ whole \in BOOLEAN
    /\ finished \in BOOLEAN
    /\ fed \in Nat

(* Until a heading is found, what was emitted and what is pending make up   *)
(* the text, so that the prefix survives the next chunk; once finished the  *)
(* filter is blocked.                                                       *)
PrefixInv ==
    /\ Types
    /\ PrefixOneLineBehind
    /\ finished => blocked

-----------------------------------------------------------------------------
(* Every set of natural numbers has a least element.                        *)
LEMMA LeastNumber ==
    ASSUME NEW T \in SUBSET Nat, T # {}
    PROVE  \E m \in T : \A n \in T : m <= n
  <1>1. \A m, n \in Nat : n < m => <<n, m>> \in OpToRel(<, Nat)
    BY DEF OpToRel
  <1>2. PICK R : IsWellFoundedOn(R, Nat) /\ \A m, n \in Nat : n < m => <<n, m>> \in R
    BY <1>1, NatLessThanWellFounded, Zenon
  <1>3. PICK m \in T : \A n \in T : <<n, m>> \notin R
    BY <1>2, WFMin
  <1>4. ASSUME NEW n \in T PROVE m <= n
    <2>1. n \in Nat /\ m \in Nat /\ ~(n < m)
      BY <1>2, <1>3
    <2> QED
      BY <2>1
  <1> QED
    BY <1>3, <1>4

(* n symbols of S, and no more, begin q.                                    *)
Begins(q, S, n) ==
    /\ n \in 0..Len(q)
    /\ \A i \in 1..n : q[i] \in S
    /\ n < Len(q) => q[n + 1] \notin S

(* There is a longest prefix of symbols in S: it ends at the first symbol   *)
(* outside of S.                                                            *)
LEMMA PrefixOfBegins ==
    ASSUME NEW q \in Seq(Symbol), NEW S
    PROVE  Begins(q, S, PrefixOf(q, S))
  <1> DEFINE T == {n \in 0..Len(q) : n < Len(q) => q[n + 1] \notin S}
  <1>1. Len(q) \in T /\ T \in SUBSET Nat
    OBVIOUS
  <1>2. PICK n \in T : \A k \in T : n <= k
    <2> HIDE DEF T
    <2> QED
      BY <1>1, LeastNumber
  <1>3. ASSUME NEW i \in 1..n PROVE q[i] \in S
    <2>1. i - 1 \in 0..Len(q) /\ i - 1 < Len(q) /\ (i - 1) + 1 = i /\ ~(n <= i - 1)
      BY <1>2
    <2> QED
      BY <1>2, <2>1
  <1>4. n \in 0..Len(q) /\ (n < Len(q) => q[n + 1] \notin S)
    BY <1>2
  <1> QED
    BY <1>3, <1>4 DEF PrefixOf, Begins

(* n symbols of S, and no more, end q.                                      *)
Ends(q, S, n) ==
    /\ n \in 0..Len(q)
    /\ \A i \in (Len(q) - n + 1)..Len(q) : q[i] \in S
    /\ n < Len(q) => q[Len(q) - n] \notin S

(* The same from the end, where the text is read backwards.                 *)
LEMMA SuffixOfEnds ==
    ASSUME NEW q \in Seq(Symbol), NEW S
    PROVE  Ends(q, S, SuffixOf(q, S))
  <1> DEFINE r == Reverse(q)
             n == PrefixOf(r, S)
  <1>1. r \in Seq(Symbol) /\ Len(r) = Len(q) /\ Len(q) \in Nat
    BY DEF Reverse
  <1>2. \A i \in 1..Len(q) : r[i] = q[Len(q) - i + 1]
    BY DEF Reverse
  <1> HIDE DEF r
  <1>3. Begins(r, S, n)
    BY <1>1, PrefixOfBegins
  <1> HIDE DEF n
  <1>4. n \in 0..Len(q)
    BY <1>1, <1>3 DEF Begins
  <1>5. ASSUME NEW i \in (Len(q) - n + 1)..Len(q) PROVE q[i] \in S
    <2>1. /\ Len(q) - i + 1 \in 1..n /\ Len(q) - i + 1 \in 1..Len(q)
          /\ Len(q) - (Len(q) - i + 1) + 1 = i
      BY <1>1, <1>4
    <2>2. r[Len(q) - i + 1] = q[i]
      BY <1>2, <2>1
    <2> QED
      BY <1>3, <2>1, <2>2 DEF Begins
  <1>6. ASSUME n < Len(q) PROVE q[Len(q) - n] \notin S
    <2>1. n + 1 \in 1..Len(q) /\ Len(q) - (n + 1) + 1 = Len(q) - n
      BY <1>1, <1>4, <1>6
    <2>2. r[n + 1] = q[Len(q) - n]
      BY <1>2, <2>1
    <2> QED
      BY <1>1, <1>3, <1>6, <2>2 DEF Begins
  <1> QED
    BY <1>4, <1>5, <1>6 DEF Ends, SuffixOf, n, r

(* The first n symbols of q.                                                *)
LEMMA TakeFacts ==
    ASSUME NEW q \in Seq(Symbol), NEW n \in 0..Len(q)
    PROVE  /\ Take(q, n) \in Seq(Symbol)
           /\ Len(Take(q, n)) = n
           /\ \A i \in 1..n : Take(q, n)[i] = q[i]
  <1>1. \A i \in 1..n : q[i] \in Symbol
    BY ElementOfSeq
  <1>2. 1 \in Int /\ n \in Int
    OBVIOUS
  <1>3. /\ SubSeq(q, 1, n) \in Seq(Symbol)
        /\ Len(SubSeq(q, 1, n)) = IF 1 <= n THEN n - 1 + 1 ELSE 0
        /\ \A i \in 1..(n - 1 + 1) : SubSeq(q, 1, n)[i] = q[1 + i - 1]
    BY <1>1, <1>2, SubSeqProperties
  <1> QED
    BY <1>3 DEF Take

(* What follows the first n symbols of q.                                   *)
LEMMA DropFacts ==
    ASSUME NEW q \in Seq(Symbol), NEW n \in 0..Len(q)
    PROVE  /\ Drop(q, n) \in Seq(Symbol)
           /\ Len(Drop(q, n)) = Len(q) - n
           /\ \A i \in 1..(Len(q) - n) : Drop(q, n)[i] = q[n + i]
  <1>1. \A i \in (n + 1)..Len(q) : q[i] \in Symbol
    BY ElementOfSeq
  <1>2. n + 1 \in Int /\ Len(q) \in Int /\ Len(q) \in Nat
    OBVIOUS
  <1>3. /\ SubSeq(q, n + 1, Len(q)) \in Seq(Symbol)
        /\ Len(SubSeq(q, n + 1, Len(q))) = IF n + 1 <= Len(q) THEN Len(q) - (n + 1) + 1 ELSE 0
        /\ \A i \in 1..(Len(q) - (n + 1) + 1) :
              SubSeq(q, n + 1, Len(q))[i] = q[(n + 1) + i - 1]
    BY <1>1, <1>2, SubSeqProperties
  <1>4. \A i \in 1..(Len(q) - n) : (n + 1) + i - 1 = n + i /\ i \in 1..(Len(q) - (n + 1) + 1)
    BY <1>2
  <1> QED
    BY <1>2, <1>3, <1>4 DEF Drop

(* The two make up q.                                                       *)
LEMMA TakeThenDrop ==
    ASSUME NEW q \in Seq(Symbol), NEW n \in 0..Len(q)
    PROVE  Take(q, n) \o Drop(q, n) = q
  <1>1. 1 \in 1..Len(q) + 1 /\ n \in 1 - 1..Len(q) /\ Len(q) \in n..Len(q)
    OBVIOUS
  <1> QED
    BY <1>1, ConcatAdjacentSubSeq, SubSeqFull DEF Take, Drop

(* Prefixes, symbol by symbol.                                              *)
LEMMA PrefixMeans ==
    ASSUME NEW s \in Seq(Symbol), NEW t \in Seq(Symbol)
    PROVE  IsPrefix(s, t) <=> Len(s) <= Len(t) /\ \A i \in 1..Len(s) : s[i] = t[i]
  <1>1. SubSeq(s, 1, Len(s)) = s
    BY SubSeqFull
  <1>2. ASSUME Len(s) <= Len(t)
        PROVE  SubSeq(t, 1, Len(s)) = s <=> \A i \in 1..Len(s) : s[i] = t[i]
    <2>1. Len(s) \in 0..Len(t)
      BY <1>2
    <2>2. /\ SubSeq(t, 1, Len(s)) \in Seq(Symbol)
          /\ Len(SubSeq(t, 1, Len(s))) = Len(s)
          /\ \A i \in 1..Len(s) : SubSeq(t, 1, Len(s))[i] = t[i]
      BY <2>1, TakeFacts DEF Take
    <2> QED
      BY <2>2, SeqEqual
  <1> QED
    BY <1>1, <1>2 DEF IsPrefix

(* A prefix of the text stays one when the text grows.                      *)
LEMMA PrefixGrows ==
    ASSUME NEW s \in Seq(Symbol), NEW t \in Seq(Symbol), NEW u \in Seq(Symbol), IsPrefix(s, t)
    PROVE  IsPrefix(s, t \o u)
  <1>1. Len(s) <= Len(t) /\ \A i \in 1..Len(s) : s[i] = t[i]
    BY PrefixMeans
  <1>2. /\ t \o u \in Seq(Symbol) /\ Len(t \o u) = Len(t) + Len(u)
        /\ \A i \in 1..Len(t) : (t \o u)[i] = t[i]
    BY ConcatProperties
  <1>3. Len(s) <= Len(t \o u) /\ \A i \in 1..Len(s) : s[i] = (t \o u)[i]
    BY <1>1, <1>2
  <1> QED
    BY <1>2, <1>3, PrefixMeans

(* Texts can be put together in either order.                               *)
LEMMA Reassociated ==
    \A a, b, c \in Seq(Symbol) : (a \o b) \o c = a \o (b \o c)
  BY ConcatAssociative

(* Emitting the first n symbols of q after e leaves a prefix of e and q.    *)
LEMMA PrefixEmitted ==
    ASSUME NEW e \in Seq(Symbol), NEW q \in Seq(Symbol), NEW n \in 0..Len(q)
    PROVE  e \o Take(q, n) \in Seq(Symbol) /\ IsPrefix(e \o Take(q, n), e \o q)
  <1> DEFINE a == Take(q, n)
             b == Drop(q, n)
             u == e \o a
  <1>1. a \in Seq(Symbol) /\ b \in Seq(Symbol) /\ a \o b = q
    BY TakeFacts, DropFacts, TakeThenDrop
  <1> HIDE DEF a, b
  <1>2. u \in Seq(Symbol)
    BY <1>1, ConcatProperties
  <1>3. e \o q = u \o b
    <2>1. (e \o a) \o b = e \o (a \o b)
      BY <1>1, Reassociated
    <2> QED
      BY <1>1, <2>1
  <1> HIDE DEF u
  <1>4. IsPrefix(u, u)
    BY <1>2, PrefixMeans
  <1>5. IsPrefix(u, u \o b)
    BY <1>1, <1>2, <1>4, PrefixGrows
  <1> QED
    BY <1>2, <1>3, <1>5 DEF u, a

-----------------------------------------------------------------------------
(* Trailing blanks are cut off and nothing else.                            *)
LEMMA RStripFacts ==
    ASSUME NEW q \in Seq(Symbol)
    PROVE  \E n \in 0..Len(q) :
              /\ RStrip(q) = Take(q, n) /\ Len(RStrip(q)) = n
              /\ \A i \in (n + 1)..Len(q) : q[i] \in Blank
              /\ n > 0 => q[n] \notin Blank
  <1> DEFINE k == SuffixOf(q, Blank)
             n == Len(q) - k
  <1>1. Ends(q, Blank, k)
    BY SuffixOfEnds
  <1>2. RStrip(q) = Take(q, n)
    BY DEF RStrip
  <1> HIDE DEF k
  <1>3. n \in 0..Len(q) /\ Len(q) \in Nat /\ k \in 0..Len(q)
    BY <1>1 DEF Ends
  <1>4. /\ \A i \in (n + 1)..Len(q) : q[i] \in Blank
        /\ n > 0 => q[n] \notin Blank
    BY <1>1, <1>3 DEF Ends
  <1>5. Len(Take(q, n)) = n
    BY <1>3, TakeFacts
  <1> QED
    BY <1>2, <1>3, <1>4, <1>5

(* Where the last line starts.                                              *)
LEMMA LineStartFacts ==
    ASSUME NEW q \in Seq(Symbol)
    PROVE  /\ LineStart(q) \in 0..Len(q)
           /\ \A i \in (LineStart(q) + 1)..Len(q) : q[i] # "nl"
           /\ LineStart(q) > 0 => q[LineStart(q)] = "nl"
  <1> DEFINE S == Symbol \ {"nl"}
             k == SuffixOf(q, S)
  <1>1. Ends(q, S, k)
    BY SuffixOfEnds
  <1>2. LineStart(q) = Len(q) - k
    BY DEF LineStart
  <1>3. \A i \in 1..Len(q) : q[i] \in Symbol
    BY ElementOfSeq
  <1> HIDE DEF k
  <1>4. k \in 0..Len(q) /\ Len(q) \in Nat
    BY <1>1 DEF Ends
  <1>5. \A i \in (Len(q) - k + 1)..Len(q) : q[i] # "nl"
    BY <1>1 DEF Ends
  <1>6. k < Len(q) => q[Len(q) - k] = "nl"
    <2>1. k < Len(q) => Len(q) - k \in 1..Len(q) /\ q[Len(q) - k] \notin S
      BY <1>1, <1>4 DEF Ends
    <2> QED
      BY <1>3, <2>1
  <1> QED
    BY <1>2, <1>4, <1>5, <1>6

(* What is held back when the last line may be a heading: that line and the *)
(* blanks in front of it.                                                   *)
LEMMA HeldFacts ==
    ASSUME NEW q \in Seq(Symbol)
    PROVE  /\ Held(q) \in 0..LineStart(q)
           /\ \A i \in (Held(q) + 1)..LineStart(q) : q[i] \in Blank
           /\ Held(q) > 0 => q[Held(q)] \notin Blank
  <1> DEFINE L == LineStart(q)
             p == Take(q, L)
  <1>1. L \in 0..Len(q) /\ Len(q) \in Nat
    BY LineStartFacts
  <1>2. p \in Seq(Symbol) /\ Len(p) = L /\ \A i \in 1..L : p[i] = q[i]
    BY <1>1, TakeFacts
  <1>3. Held(q) = Len(RStrip(p))
    BY DEF Held
  <1> HIDE DEF L, p
  <1>4. PICK n \in 0..Len(p) : /\ Len(RStrip(p)) = n
                               /\ \A i \in (n + 1)..Len(p) : p[i] \in Blank
                               /\ n > 0 => p[n] \notin Blank
    BY <1>2, RStripFacts
  <1>5. \A i \in (n + 1)..L : i \in 1..L
    BY <1>1, <1>2, <1>4
  <1>6. n > 0 => n \in 1..L
    BY <1>1, <1>2, <1>4
  <1> QED
    BY <1>1, <1>2, <1>3, <1>4, <1>5, <1>6 DEF L

(* In what is pending, only blanks stand in front of the last line.         *)
BlanksAndOneLine(q) == \A i \in 1..LineStart(q) : q[i] \in Blank

(* What is held back is blanks and one line.                                *)
LEMMA HeldBack ==
    ASSUME NEW q \in Seq(Symbol)
    PROVE  BlanksAndOneLine(Drop(q, Held(q)))
  <1> DEFINE n == Held(q)
             d == Drop(q, n)
             L == LineStart(q)
  <1>1. /\ n \in 0..L /\ L \in 0..Len(q) /\ Len(q) \in Nat
        /\ \A i \in (n + 1)..L : q[i] \in Blank
        /\ \A i \in (L + 1)..Len(q) : q[i] # "nl"
    BY HeldFacts, LineStartFacts
  <1> HIDE DEF n, L
  <1>2. d \in Seq(Symbol) /\ Len(d) = Len(q) - n /\ \A i \in 1..(Len(q) - n) : d[i] = q[n + i]
    <2>1. n \in 0..Len(q)
      BY <1>1
    <2> QED
      BY <2>1, DropFacts
  <1> HIDE DEF d
  <1>3. LineStart(d) \in 0..Len(d) /\ (LineStart(d) > 0 => d[LineStart(d)] = "nl")
    BY <1>2, LineStartFacts
  <1>4. LineStart(d) <= L - n
    <2> SUFFICES ASSUME LineStart(d) > L - n PROVE FALSE
      BY <1>1, <1>3
    <2>1. /\ LineStart(d) \in 1..(Len(q) - n)
          /\ n + LineStart(d) \in (L + 1)..Len(q)
      BY <1>1, <1>2, <1>3
    <2>2. q[n + LineStart(d)] = "nl"
      BY <1>2, <1>3, <2>1
    <2> QED
      BY <1>1, <2>1, <2>2
  <1>5. ASSUME NEW i \in 1..LineStart(d) PROVE d[i] \in Blank
    <2>1. i \in 1..(Len(q) - n) /\ n + i \in (n + 1)..L
      BY <1>1, <1>3, <1>4
    <2> QED
      BY <1>1, <1>2, <2>1
  <1> QED
    BY <1>5 DEF BlanksAndOneLine, d, n

(* Stripping a meter leaves a prefix.                                       *)
LEMMA StripIsPrefix ==
    ASSUME NEW q \in Seq(Symbol)
    PROVE  \E n \in 0..Len(q) : strip_deception_meter(q) = Take(q, n)
  <1>0. Len(q) \in Nat
    OBVIOUS
  <1>1. CASE Headings(q) = {}
    <2>1. Take(q, Len(q)) = q
      BY SubSeqFull DEF Take
    <2> QED
      BY <1>0, <1>1, <2>1 DEF strip_deception_meter
  <1>2. CASE Headings(q) # {}
    <2> DEFINE f == FirstHeading(q)
    <2>1. Headings(q) \subseteq 1..Len(q) /\ Headings(q) \in SUBSET Nat
      BY DEF Headings
    <2>2. \E m \in Headings(q) : \A n \in Headings(q) : m <= n
      BY <1>2, <2>1, LeastNumber
    <2>3. f \in Headings(q)
      BY <2>2 DEF FirstHeading
    <2>4. strip_deception_meter(q) = RStrip(Take(q, f - 1))
      BY <1>2 DEF strip_deception_meter
    <2> HIDE DEF f
    <2>5. f - 1 \in 0..Len(q)
      BY <1>0, <2>1, <2>3
    <2> DEFINE p == Take(q, f - 1)
    <2>6. p \in Seq(Symbol) /\ Len(p) = f - 1 /\ \A i \in 1..(f - 1) : p[i] = q[i]
      BY <2>5, TakeFacts
    <2> HIDE DEF p
    <2>7. PICK n \in 0..Len(p) : RStrip(p) = Take(p, n)
      BY <2>6, RStripFacts
    <2>8. n \in 0..Len(q) /\ n \in 0..Len(p) /\ n <= f - 1
      BY <1>0, <2>5, <2>6, <2>7
    <2>9. /\ Take(p, n) \in Seq(Symbol) /\ Len(Take(p, n)) = n
          /\ \A i \in 1..n : Take(p, n)[i] = p[i]
      BY <2>6, <2>8, TakeFacts
    <2>10. /\ Take(q, n) \in Seq(Symbol) /\ Len(Take(q, n)) = n
           /\ \A i \in 1..n : Take(q, n)[i] = q[i]
      BY <2>8, TakeFacts
    <2>11. \A i \in 1..n : Take(p, n)[i] = Take(q, n)[i]
      BY <2>5, <2>6, <2>8, <2>9, <2>10
    <2>12. Take(p, n) = Take(q, n)
      BY <2>9, <2>10, <2>11, SeqEqual
    <2> QED
      BY <2>4, <2>7, <2>8, <2>12 DEF p
  <1> QED
    BY <1>1, <1>2

-----------------------------------------------------------------------------
(* Nothing was fed and nothing emitted at first.                            *)
LEMMA InitPrefix == Init => PrefixInv
  <1> SUFFICES ASSUME Init PROVE PrefixInv
    OBVIOUS
  <1>1. Types
    <2>1. <<>> \in Seq(Symbol)
      BY EmptySeq
    <2> QED
      BY <2>1 DEF Init, Types
  <1>2. IsPrefix(emitted, text)
    <2>1. emitted \in Seq(Symbol) /\ text \in Seq(Symbol)
      BY <1>1 DEF Types
    <2>2. Len(emitted) <= Len(text) /\ \A i \in 1..Len(emitted) : emitted[i] = text[i]
      BY DEF Init
    <2> QED
      BY <2>1, <2>2, PrefixMeans
  <1>3. emitted \o pending = text
    BY DEF Init
  <1>4. BlanksAndOneLine(pending)
    <2>1. pending \in Seq(Symbol) /\ Len(pending) = 0
      BY <1>1 DEF Init, Types
    <2>2. LineStart(pending) \in 0..0
      BY <2>1, LineStartFacts
    <2> QED
      BY <2>2 DEF BlanksAndOneLine
  <1> QED
    BY <1>1, <1>2, <1>3, <1>4 DEF Init, PrefixInv, PrefixOneLineBehind, BlanksAndOneLine

(* Emitting the first n symbols of what is pending keeps the two making up  *)
(* the text.                                                                *)
LEMMA EmitKeeps ==
    ASSUME Types, NEW q \in Seq(Symbol), NEW n \in 0..Len(q), NEW t,
           emitted \o q = t, Emit(q, n)
    PROVE  /\ pending' \in Seq(Symbol) /\ emitted' \in Seq(Symbol)
           /\ emitted' \o pending' = t
           /\ IsPrefix(emitted', t)
  <1> DEFINE a == Take(q, n)
             b == Drop(q, n)
  <1>1. a \in Seq(Symbol) /\ b \in Seq(Symbol) /\ a \o b = q
    BY TakeFacts, DropFacts, TakeThenDrop
  <1>2. emitted' = emitted \o a /\ pending' = b /\ emitted \in Seq(Symbol)
    BY DEF Emit, Types
  <1>3. emitted \o a \in Seq(Symbol) /\ IsPrefix(emitted \o a, t)
    BY <1>2, PrefixEmitted
  <1> HIDE DEF a, b
  <1>4. (emitted \o a) \o b = t
    <2>1. (emitted \o a) \o b = emitted \o (a \o b)
      BY <1>1, <1>2, Reassociated
    <2> QED
      BY <1>1, <2>1
  <1> QED
    BY <1>1, <1>2, <1>3, <1>4

(* Each chunk leaves a prefix, and little behind it.                        *)
LEMMA FeedKeeps ==
    ASSUME PrefixInv, NEW chunk \in Chunks, feed(chunk)
    PROVE  PrefixInv'
  <1> DEFINE q == pending \o chunk
  <1>1. /\ Types /\ chunk \in Seq(Symbol)
        /\ IsPrefix(emitted, text) /\ ~finished
        /\ ~blocked => emitted \o pending = text
    BY ChunkAssumption DEF PrefixInv, PrefixOneLineBehind, feed
  <1>2. /\ text' = text \o chunk /\ fed' = fed + 1
        /\ whole' = (whole /\ Last(chunk) = "nl") /\ finished' = finished
    BY DEF feed
  <1>3. q \in Seq(Symbol) /\ text' \in Seq(Symbol)
    BY <1>1, <1>2, ConcatProperties DEF Types
  <1>4. fed' \in Nat /\ finished' \in BOOLEAN
    BY <1>1, <1>2 DEF Types
  <1>5. whole' \in BOOLEAN
    BY <1>1, <1>2, Zenon DEF Types
  <1>6. ~blocked => emitted \o q = text'
    <2>1. (emitted \o pending) \o chunk = emitted \o (pending \o chunk)
      BY <1>1, Reassociated DEF Types
    <2> QED
      BY <1>1, <1>2, <2>1
  <1>7. CASE blocked /\ UNCHANGED <<pending, blocked, emitted>>
    <2>1. IsPrefix(emitted, text')
      BY <1>1, <1>2, PrefixGrows DEF Types
    <2> QED
      BY <1>1, <1>3, <1>4, <1>5, <1>7, <2>1, <1>2 DEF Types, PrefixInv, PrefixOneLineBehind
  <1>8. CASE /\ ~blocked /\ blocked' = TRUE /\ pending' = <<>>
             /\ emitted' = emitted \o strip_deception_meter(q)
    <2> HIDE DEF q
    <2>1. PICK n \in 0..Len(q) : strip_deception_meter(q) = Take(q, n)
      BY <1>3, StripIsPrefix
    <2>2. emitted' \in Seq(Symbol) /\ IsPrefix(emitted', text')
      BY <1>1, <1>3, <1>6, <1>8, <2>1, PrefixEmitted DEF Types
    <2>3. pending' \in Seq(Symbol) /\ blocked' \in BOOLEAN
      BY <1>8, EmptySeq
    <2> QED
      BY <1>3, <1>4, <1>5, <1>8, <2>2, <2>3 DEF Types, PrefixInv, PrefixOneLineBehind
  <1>9. CASE /\ ~blocked /\ blocked' = blocked
             /\ Emit(q, IF Possible(Drop(q, LineStart(q))) THEN Held(q) ELSE Len(q))
    <2> DEFINE n == IF Possible(Drop(q, LineStart(q))) THEN Held(q) ELSE Len(q)
    <2> HIDE DEF q
    <2>1. n \in 0..Len(q)
      <3>1. Held(q) \in 0..LineStart(q) /\ LineStart(q) \in 0..Len(q) /\ Len(q) \in Nat
        BY <1>3, HeldFacts, LineStartFacts
      <3> QED
        BY <3>1
    <2>2. BlanksAndOneLine(Drop(q, n))
      <3>1. CASE n = Held(q)
        BY <1>3, <3>1, HeldBack
      <3>2. CASE n = Len(q)
        <4>1. Drop(q, n) \in Seq(Symbol) /\ Len(Drop(q, n)) = 0
          <5> HIDE DEF n
          <5>1. Len(Drop(q, n)) = Len(q) - n /\ Len(q) \in Nat /\ Drop(q, n) \in Seq(Symbol)
            BY <1>3, <2>1, DropFacts
          <5> QED
            BY <3>2, <5>1
        <4> HIDE DEF n
        <4>2. LineStart(Drop(q, n)) \in 0..0
          BY <4>1, LineStartFacts
        <4> QED
          BY <4>2 DEF BlanksAndOneLine
      <3> QED
        BY <3>1, <3>2
    <2> HIDE DEF n
    <2>3. Emit(q, n)
      BY <1>9 DEF n
    <2>4. /\ pending' \in Seq(Symbol) /\ emitted' \in Seq(Symbol)
          /\ emitted' \o pending' = text' /\ IsPrefix(emitted', text')
      BY <1>1, <1>3, <1>6, <1>9, <2>1, <2>3, EmitKeeps
    <2>5. pending' = Drop(q, n)
      BY <2>3 DEF Emit
    <2>6. BlanksAndOneLine(pending')
      BY <2>2, <2>5
    <2> QED
      BY <1>1, <1>2, <1>3, <1>4, <1>5, <1>9, <2>4, <2>6
      DEF Types, PrefixInv, PrefixOneLineBehind, BlanksAndOneLine
  <1> QED
    BY <1>7, <1>8, <1>9 DEF feed

(* So does the end, which strips what is pending.                           *)
LEMMA FinishKeeps ==
    ASSUME PrefixInv, finish
    PROVE  PrefixInv'
  <1>1. /\ Types /\ IsPrefix(emitted, text)
        /\ ~blocked => emitted \o pending = text
    BY DEF PrefixInv, PrefixOneLineBehind
  <1>2. /\ text' = text /\ fed' = fed /\ whole' = whole
        /\ finished' = TRUE /\ blocked' = TRUE /\ pending' = <<>>
        /\ emitted' = IF blocked THEN emitted ELSE emitted \o strip_deception_meter(pending)
    BY DEF finish
  <1>3. emitted' \in Seq(Symbol) /\ IsPrefix(emitted', text')
    <2>1. CASE blocked
      BY <1>1, <1>2, <2>1 DEF Types
    <2>2. CASE ~blocked
      <3>1. PICK n \in 0..Len(pending) : strip_deception_meter(pending) = Take(pending, n)
        BY <1>1, StripIsPrefix DEF Types
      <3> QED
        BY <1>1, <1>2, <2>2, <3>1, PrefixEmitted DEF Types
    <2> QED
      BY <2>1, <2>2
  <1>4. pending' \in Seq(Symbol)
    BY <1>2, EmptySeq
  <1> QED
    BY <1>1, <1>2, <1>3, <1>4 DEF Types, PrefixInv, PrefixOneLineBehind

(* A step of the filter keeps the invariant.                                *)
LEMMA PrefixStep == PrefixInv /\ [Next]_vars => PrefixInv'
  <1> SUFFICES ASSUME PrefixInv, [Next]_vars PROVE PrefixInv'
    OBVIOUS
  <1>1. CASE UNCHANGED vars
    BY <1>1 DEF vars, PrefixInv, Types, PrefixOneLineBehind
  <1> QED
    BY <1>1, FeedKeeps, FinishKeeps DEF Next

(* However the answer is cut into chunks, the client sees a prefix of it,   *)
(* and until a heading appears nothing is lost and no more is held back     *)
(* than blanks and one incomplete line.                                     *)
THEOREM PrefixSound == Spec => []PrefixOneLineBehind
  <1>1. PrefixInv /\ [Next]_vars => PrefixInv'
    BY PrefixStep
  <1>2. PrefixInv => PrefixOneLineBehind
    BY DEF PrefixInv
  <1> QED
    BY InitPrefix, <1>1, <1>2, PTL DEF Spec

-----------------------------------------------------------------------------
(* A text that ends with its line.                                          *)
Closed(d) == d \in Seq(Symbol) /\ Len(d) > 0 /\ d[Len(d)] = "nl"

AllBlank(q) == \A i \in 1..Len(q) : q[i] \in Blank

(* There is one length of the longest prefix.                               *)
LEMMA OnePrefix ==
    ASSUME NEW q \in Seq(Symbol), NEW S, NEW n, Begins(q, S, n)
    PROVE  PrefixOf(q, S) = n
  <1> DEFINE k == PrefixOf(q, S)
  <1>1. Begins(q, S, k)
    BY PrefixOfBegins
  <1> HIDE DEF k
  <1>2. n \in 0..Len(q) /\ k \in 0..Len(q) /\ Len(q) \in Nat
    BY <1>1 DEF Begins
  <1>3. ~(k < n)
    <2> SUFFICES ASSUME k < n PROVE FALSE
      OBVIOUS
    <2>1. k + 1 \in 1..n /\ k < Len(q)
      BY <1>2
    <2> QED
      BY <1>1, <2>1 DEF Begins
  <1>4. ~(n < k)
    <2> SUFFICES ASSUME n < k PROVE FALSE
      OBVIOUS
    <2>1. n + 1 \in 1..k /\ n < Len(q)
      BY <1>2
    <2> QED
      BY <1>1, <2>1 DEF Begins
  <1> QED
    BY <1>2, <1>3, <1>4 DEF k

(* Dropping from the first of two texts leaves its rest and the second.     *)
LEMMA DropConcat ==
    ASSUME NEW d \in Seq(Symbol), NEW u \in Seq(Symbol), NEW n \in 0..Len(d)
    PROVE  Drop(d \o u, n) = Drop(d, n) \o u
  <1> DEFINE a == Drop(d \o u, n)
             b == Drop(d, n)
             c == b \o u
  <1>1. /\ d \o u \in Seq(Symbol) /\ Len(d \o u) = Len(d) + Len(u)
        /\ \A i \in 1..Len(d) + Len(u) :
              (d \o u)[i] = IF i <= Len(d) THEN d[i] ELSE u[i - Len(d)]
    BY ConcatProperties
  <1>2. Len(d) \in Nat /\ Len(u) \in Nat /\ n \in 0..Len(d \o u)
    BY <1>1
  <1>3. /\ a \in Seq(Symbol) /\ Len(a) = Len(d) + Len(u) - n
        /\ \A i \in 1..(Len(d) + Len(u) - n) : a[i] = (d \o u)[n + i]
    <2> DEFINE t == d \o u
    <2>1. t \in Seq(Symbol) /\ Len(t) = Len(d) + Len(u) /\ n \in 0..Len(t)
      BY <1>1, <1>2
    <2> HIDE DEF t
    <2>2. /\ Drop(t, n) \in Seq(Symbol) /\ Len(Drop(t, n)) = Len(t) - n
          /\ \A i \in 1..(Len(t) - n) : Drop(t, n)[i] = t[n + i]
      BY <2>1, DropFacts
    <2> QED
      BY <2>1, <2>2 DEF t
  <1>4. b \in Seq(Symbol) /\ Len(b) = Len(d) - n /\ \A i \in 1..(Len(d) - n) : b[i] = d[n + i]
    BY DropFacts
  <1> HIDE DEF a, b
  <1>5. /\ c \in Seq(Symbol) /\ Len(c) = Len(b) + Len(u)
        /\ \A i \in 1..Len(b) + Len(u) : c[i] = IF i <= Len(b) THEN b[i] ELSE u[i - Len(b)]
    BY <1>4, ConcatProperties
  <1> HIDE DEF c
  <1>6. Len(a) = Len(c)
    BY <1>2, <1>3, <1>4, <1>5
  <1>7. ASSUME NEW i \in 1..Len(a) PROVE a[i] = c[i]
    <2>1. i \in 1..(Len(d) + Len(u) - n) /\ n + i \in 1..(Len(d) + Len(u)) /\ i \in Nat
      BY <1>2, <1>3
    <2>2. a[i] = IF n + i <= Len(d) THEN d[n + i] ELSE u[n + i - Len(d)]
      BY <1>1, <1>3, <2>1
    <2>3. c[i] = IF i <= Len(b) THEN b[i] ELSE u[i - Len(b)]
      BY <1>5, <1>6
    <2>4. CASE n + i <= Len(d)
      <3>1. i <= Len(b) /\ i \in 1..(Len(d) - n)
        BY <1>2, <1>4, <2>1, <2>4
      <3> QED
        BY <1>4, <2>2, <2>3, <2>4, <3>1
    <2>5. CASE ~(n + i <= Len(d))
      <3>1. ~(i <= Len(b)) /\ n + i - Len(d) = i - Len(b)
        BY <1>2, <1>4, <2>1, <2>5
      <3> QED
        BY <2>2, <2>3, <2>5, <3>1
    <2> QED
      BY <2>4, <2>5
  <1>8. a = c
    BY <1>3, <1>5, <1>6, <1>7, SeqEqual
  <1> QED
    BY <1>8 DEF a, b, c

(* Dropping less than all of a text that ends with its line leaves one.     *)
LEMMA DropClosed ==
    ASSUME NEW d, Closed(d), NEW n \in 0..Len(d), n < Len(d)
    PROVE  Closed(Drop(d, n))
  <1>1. /\ Drop(d, n) \in Seq(Symbol) /\ Len(Drop(d, n)) = Len(d) - n
        /\ \A i \in 1..(Len(d) - n) : Drop(d, n)[i] = d[n + i]
    BY DropFacts DEF Closed
  <1>2. Len(d) \in Nat /\ Len(d) - n \in 1..(Len(d) - n) /\ n + (Len(d) - n) = Len(d)
    BY DEF Closed
  <1> QED
    BY <1>1, <1>2 DEF Closed

(* What such a text begins with does not depend on what comes after it.     *)
LEMMA PrefixLocal ==
    ASSUME NEW d, Closed(d), NEW u \in Seq(Symbol), NEW S, "nl" \notin S
    PROVE  /\ PrefixOf(d, S) \in 0..Len(d) /\ PrefixOf(d, S) < Len(d)
           /\ PrefixOf(d \o u, S) = PrefixOf(d, S)
  <1> DEFINE n == PrefixOf(d, S)
  <1>1. Begins(d, S, n)
    BY PrefixOfBegins DEF Closed
  <1> HIDE DEF n
  <1>2. /\ d \o u \in Seq(Symbol) /\ Len(d \o u) = Len(d) + Len(u)
        /\ \A i \in 1..Len(d) : (d \o u)[i] = d[i]
    BY ConcatProperties DEF Closed
  <1>3. n \in 0..Len(d) /\ Len(d) \in Nat /\ Len(u) \in Nat
    BY <1>1 DEF Begins, Closed
  <1>4. n < Len(d)
    <2> SUFFICES ASSUME n = Len(d) PROVE FALSE
      BY <1>3
    <2>1. Len(d) \in 1..n
      BY <1>3 DEF Closed
    <2> QED
      BY <1>1, <2>1 DEF Begins, Closed
  <1>5. n + 1 \in 1..Len(d) /\ \A i \in 1..n : i \in 1..Len(d)
    BY <1>3, <1>4
  <1>6. Begins(d \o u, S, n)
    BY <1>1, <1>2, <1>3, <1>4, <1>5 DEF Begins
  <1>7. PrefixOf(d \o u, S) = n
    BY <1>2, <1>6, OnePrefix
  <1> QED
    BY <1>3, <1>4, <1>7 DEF n

LStripped(d, u, S) ==
    /\ LStrip(d \o u, S) = LStrip(d, S) \o u
    /\ Closed(LStrip(d, S))

(* Nor does what is left without it.                                        *)
LEMMA LStripLocal ==
    ASSUME NEW d, Closed(d), NEW u \in Seq(Symbol), NEW S, "nl" \notin S
    PROVE  LStripped(d, u, S)
  <1>1. /\ PrefixOf(d, S) \in 0..Len(d) /\ PrefixOf(d, S) < Len(d)
        /\ PrefixOf(d \o u, S) = PrefixOf(d, S)
    BY PrefixLocal
  <1>2. Drop(d \o u, PrefixOf(d, S)) = Drop(d, PrefixOf(d, S)) \o u
    BY <1>1, DropConcat DEF Closed
  <1>3. Closed(Drop(d, PrefixOf(d, S)))
    BY <1>1, DropClosed
  <1> QED
    BY <1>1, <1>2, <1>3 DEF LStripped, LStrip

(* Nor whether it begins with words of one line.                            *)
LEMMA WordsLocal ==
    ASSUME NEW d, Closed(d), NEW u \in Seq(Symbol), NEW w \in Seq(Symbol),
           \A i \in 1..Len(w) : w[i] # "nl"
    PROVE  /\ IsPrefix(w, d \o u) <=> IsPrefix(w, d)
           /\ IsPrefix(w, d) => Len(w) < Len(d)
  <1>1. /\ d \o u \in Seq(Symbol) /\ Len(d \o u) = Len(d) + Len(u)
        /\ \A i \in 1..Len(d) : (d \o u)[i] = d[i]
    BY ConcatProperties DEF Closed
  <1>2. /\ d \in Seq(Symbol) /\ Len(d) \in Nat /\ Len(d) > 0 /\ Len(u) \in Nat /\ Len(w) \in Nat
        /\ d[Len(d)] = "nl"
    BY DEF Closed
  <1>3. /\ IsPrefix(w, d) <=> Len(w) <= Len(d) /\ \A i \in 1..Len(w) : w[i] = d[i]
        /\ IsPrefix(w, d \o u)
             <=> Len(w) <= Len(d \o u) /\ \A i \in 1..Len(w) : w[i] = (d \o u)[i]
    BY <1>1, <1>2, PrefixMeans
  <1>4. ASSUME IsPrefix(w, d \o u) PROVE Len(w) < Len(d) /\ IsPrefix(w, d)
    <2>1. Len(w) < Len(d)
      <3> SUFFICES ASSUME Len(w) >= Len(d) PROVE FALSE
        BY <1>2
      <3>1. Len(d) \in 1..Len(w) /\ Len(d) \in 1..Len(d)
        BY <1>2
      <3>2. w[Len(d)] = (d \o u)[Len(d)]
        BY <1>3, <1>4, <3>1
      <3> QED
        BY <1>1, <1>2, <3>1, <3>2
    <2>2. \A i \in 1..Len(w) : i \in 1..Len(d)
      BY <1>2, <2>1
    <2> QED
      BY <1>1, <1>2, <1>3, <1>4, <2>1, <2>2
  <1>5. ASSUME IsPrefix(w, d) PROVE IsPrefix(w, d \o u)
    <2>1. \A i \in 1..Len(w) : i \in 1..Len(d)
      BY <1>2, <1>3, <1>5
    <2> QED
      BY <1>1, <1>2, <1>3, <1>5, <2>1
  <1> QED
    BY <1>4, <1>5

(* Nor the hashes skipped,                                                  *)
LEMMA HashesLocal ==
    ASSUME NEW d, Closed(d), NEW u \in Seq(Symbol)
    PROVE  SkipHashes(d \o u) = SkipHashes(d) \o u /\ Closed(SkipHashes(d))
  <1> DEFINE n == PrefixOf(d, {"#"})
             m == IF n > 6 THEN 6 ELSE n
             r == Drop(d, m)
  <1>1. n \in 0..Len(d) /\ n < Len(d) /\ PrefixOf(d \o u, {"#"}) = n
    BY PrefixLocal
  <1>2. Len(d) \in Nat
    BY DEF Closed
  <1>3. SkipHashes(d) = (IF n = 0 THEN d ELSE LStrip(r, {"sp"}))
    BY DEF SkipHashes
  <1>4. SkipHashes(d \o u) = (IF n = 0 THEN d \o u ELSE LStrip(Drop(d \o u, m), {"sp"}))
    BY <1>1 DEF SkipHashes
  <1> HIDE DEF n
  <1>5. m \in 0..Len(d) /\ m < Len(d)
    BY <1>1, <1>2
  <1> HIDE DEF m
  <1>6. Drop(d \o u, m) = r \o u /\ Closed(r)
    BY <1>5, DropConcat, DropClosed DEF Closed
  <1> HIDE DEF r
  <1>7. LStripped(r, u, {"sp"})
    BY <1>6, LStripLocal
  <1> QED
    BY <1>3, <1>4, <1>6, <1>7 DEF LStripped

(* nor the stars,                                                           *)
LEMMA StarsLocal ==
    ASSUME NEW d, Closed(d), NEW u \in Seq(Symbol)
    PROVE  SkipStars(d \o u) = SkipStars(d) \o u /\ Closed(SkipStars(d))
  <1> DEFINE w == <<"*", "*">>
             r == Drop(d, 2)
  <1>1. w \in Seq(Symbol) /\ Len(w) = 2 /\ \A i \in 1..Len(w) : w[i] # "nl"
    BY DEF Symbol
  <1>2. /\ SkipStars(d) = (IF IsPrefix(w, d) THEN LStrip(r, {"sp"}) ELSE d)
        /\ SkipStars(d \o u)
             = (IF IsPrefix(w, d \o u) THEN LStrip(Drop(d \o u, 2), {"sp"}) ELSE d \o u)
    BY DEF SkipStars
  <1> HIDE DEF w
  <1>3. (IsPrefix(w, d \o u) <=> IsPrefix(w, d)) /\ (IsPrefix(w, d) => Len(w) < Len(d))
    BY <1>1, WordsLocal
  <1>4. CASE ~IsPrefix(w, d)
    BY <1>2, <1>3, <1>4
  <1>5. CASE IsPrefix(w, d)
    <2>1. 2 \in 0..Len(d) /\ 2 < Len(d)
      BY <1>1, <1>3, <1>5 DEF Closed
    <2>2. Drop(d \o u, 2) = r \o u /\ Closed(r)
      BY <2>1, DropConcat, DropClosed DEF Closed
    <2> HIDE DEF r
    <2>3. LStripped(r, u, {"sp"})
      BY <2>2, LStripLocal
    <2> QED
      BY <1>2, <1>3, <1>5, <2>2, <2>3 DEF LStripped
  <1> QED
    BY <1>4, <1>5

(* nor the words of the heading.                                            *)
LEMMA SaysLocal ==
    ASSUME NEW d, Closed(d), NEW u \in Seq(Symbol)
    PROVE  SaysMeter(d \o u) <=> SaysMeter(d)
  <1> DEFINE v == <<"decep", "tion", "sp">>
             w == <<"meter">>
             r == LStrip(Drop(d, 2), {"sp"})
             Rest(q) == LStrip(Drop(q, 2), {"sp"})
  <1>1. v \in Seq(Symbol) /\ Len(v) = 3 /\ \A i \in 1..Len(v) : v[i] # "nl"
    BY DEF Symbol
  <1>2. w \in Seq(Symbol) /\ Len(w) = 1 /\ \A i \in 1..Len(w) : w[i] # "nl"
    BY DEF Symbol
  <1>3. \A q : SaysMeter(q) <=> /\ IsPrefix(v, q) /\ IsPrefix(w, Rest(q))
                                /\ Len(Rest(q)) > 1 => Rest(q)[2] \notin WordSymbols
    BY Zenon DEF SaysMeter
  <1> HIDE DEF v, w
  <1>4. (IsPrefix(v, d \o u) <=> IsPrefix(v, d)) /\ (IsPrefix(v, d) => Len(v) < Len(d))
    BY <1>1, WordsLocal
  <1>5. CASE ~IsPrefix(v, d)
    BY <1>3, <1>4, <1>5
  <1>6. CASE IsPrefix(v, d)
    <2>1. 2 \in 0..Len(d) /\ 2 < Len(d)
      BY <1>1, <1>4, <1>6 DEF Closed
    <2>2. Drop(d \o u, 2) = Drop(d, 2) \o u /\ Closed(Drop(d, 2))
      BY <2>1, DropConcat, DropClosed DEF Closed
    <2>3. LStripped(Drop(d, 2), u, {"sp"})
      BY <2>2, LStripLocal
    <2>4. Rest(d) = r /\ Rest(d \o u) = r \o u /\ Closed(r)
      BY <2>2, <2>3 DEF LStripped
    <2> HIDE DEF r, Rest
    <2>5. (IsPrefix(w, r \o u) <=> IsPrefix(w, r)) /\ (IsPrefix(w, r) => Len(w) < Len(r))
      BY <1>2, <2>4, WordsLocal
    <2>6. /\ Len(r \o u) = Len(r) + Len(u) /\ Len(r) \in Nat /\ Len(u) \in Nat
          /\ \A i \in 1..Len(r) : (r \o u)[i] = r[i]
      BY <2>4, ConcatProperties DEF Closed
    <2>7. CASE ~IsPrefix(w, r)
      BY <1>3, <2>4, <2>5, <2>7
    <2>8. CASE IsPrefix(w, r)
      <3>1. Len(r) > 1 /\ Len(r \o u) > 1 /\ 2 \in 1..Len(r)
        BY <1>2, <2>5, <2>6, <2>8
      <3>2. (r \o u)[2] = r[2]
        BY <2>6, <3>1
      <3> QED
        BY <1>3, <1>4, <1>6, <2>4, <2>5, <2>8, <3>1, <3>2
    <2> QED
      BY <2>7, <2>8
  <1> QED
    BY <1>5, <1>6

(* Whether a complete line is a heading is settled: no later text makes it  *)
(* one or makes it none.                                                    *)
LEMMA HeadingSettled ==
    ASSUME NEW t, Closed(t), NEW u \in Seq(Symbol), NEW i \in 1..Len(t)
    PROVE  HeadingAt(t \o u, i) <=> HeadingAt(t, i)
  <1> DEFINE d == Drop(t, i - 1)
             a == LStrip(d, {"sp"})
             b == SkipHashes(a)
             c == SkipStars(b)
             e == SkipStars(c)
  <1>1. i - 1 \in 0..Len(t) /\ i - 1 < Len(t) /\ Len(t) \in Nat
    BY DEF Closed
  <1>2. Drop(t \o u, i - 1) = d \o u /\ Closed(d)
    BY <1>1, DropConcat, DropClosed DEF Closed
  <1> HIDE DEF d
  <1>3. LStrip(d \o u, {"sp"}) = a \o u /\ Closed(a)
    BY <1>2, LStripLocal DEF LStripped
  <1> HIDE DEF a
  <1>4. SkipHashes(a \o u) = b \o u /\ Closed(b)
    BY <1>3, HashesLocal
  <1> HIDE DEF b
  <1>5. SkipStars(b \o u) = c \o u /\ Closed(c)
    BY <1>4, StarsLocal
  <1> HIDE DEF c
  <1>6. SkipStars(c \o u) = e \o u /\ Closed(e)
    BY <1>5, StarsLocal
  <1> HIDE DEF e
  <1>7. SaysMeter(e \o u) <=> SaysMeter(e)
    BY <1>6, SaysLocal
  <1>8. Unadorned(LStrip(Drop(t \o u, i - 1), {"sp"})) = e \o u
    BY <1>2, <1>3, <1>4, <1>5, <1>6 DEF Unadorned
  <1>9. Unadorned(LStrip(Drop(t, i - 1), {"sp"})) = e
    BY DEF Unadorned, a, b, c, d, e
  <1>10. i = 1 \/ (t \o u)[i - 1] = t[i - 1]
    <2>1. \A k \in 1..Len(t) : (t \o u)[k] = t[k]
      BY ConcatProperties DEF Closed
    <2> QED
      BY <1>1, <2>1
  <1> QED
    BY <1>7, <1>8, <1>9, <1>10 DEF HeadingAt

(* A line further down is a heading whatever stands above it.               *)
LEMMA HeadingShifted ==
    ASSUME NEW e \in Seq(Symbol), NEW q \in Seq(Symbol), NEW i \in 1..Len(q), i > 1
    PROVE  HeadingAt(e \o q, Len(e) + i) <=> HeadingAt(q, i)
  <1> DEFINE k == Len(e) + i - 1
             a == Drop(e \o q, k)
             b == Drop(q, i - 1)
  <1>1. /\ e \o q \in Seq(Symbol) /\ Len(e \o q) = Len(e) + Len(q)
        /\ \A j \in 1..Len(e) + Len(q) :
              (e \o q)[j] = IF j <= Len(e) THEN e[j] ELSE q[j - Len(e)]
    BY ConcatProperties
  <1>2. Len(e) \in Nat /\ Len(q) \in Nat /\ k \in 0..Len(e \o q) /\ i - 1 \in 0..Len(q)
    BY <1>1
  <1>3. /\ a \in Seq(Symbol) /\ Len(a) = Len(e) + Len(q) - k
        /\ \A j \in 1..(Len(e) + Len(q) - k) : a[j] = (e \o q)[k + j]
    <2> DEFINE t == e \o q
    <2>1. t \in Seq(Symbol) /\ Len(t) = Len(e) + Len(q) /\ k \in 0..Len(t)
      BY <1>1, <1>2
    <2> HIDE DEF t, k
    <2>2. /\ Drop(t, k) \in Seq(Symbol) /\ Len(Drop(t, k)) = Len(t) - k
          /\ \A j \in 1..(Len(t) - k) : Drop(t, k)[j] = t[k + j]
      BY <2>1, DropFacts
    <2> QED
      BY <2>1, <2>2 DEF t
  <1>4. /\ b \in Seq(Symbol) /\ Len(b) = Len(q) - (i - 1)
        /\ \A j \in 1..(Len(q) - (i - 1)) : b[j] = q[i - 1 + j]
    BY <1>2, DropFacts
  <1> HIDE DEF a, b
  <1>5. Len(a) = Len(b)
    BY <1>2, <1>3, <1>4
  <1>6. ASSUME NEW j \in 1..Len(a) PROVE a[j] = b[j]
    <2>1. /\ j \in 1..(Len(e) + Len(q) - k) /\ j \in 1..(Len(q) - (i - 1))
          /\ k + j \in 1..(Len(e) + Len(q)) /\ ~(k + j <= Len(e))
          /\ k + j - Len(e) = i - 1 + j
      BY <1>2, <1>3
    <2>2. a[j] = (e \o q)[k + j] /\ b[j] = q[i - 1 + j]
      BY <1>3, <1>4, <2>1
    <2>3. (e \o q)[k + j] = q[k + j - Len(e)]
      BY <1>1, <2>1
    <2> QED
      BY <2>1, <2>2, <2>3
  <1>7. a = b
    BY <1>3, <1>4, <1>5, <1>6, SeqEqual
  <1>8. (e \o q)[k] = q[i - 1]
    <2>1. k \in 1..(Len(e) + Len(q)) /\ ~(k <= Len(e)) /\ k - Len(e) = i - 1
      BY <1>2
    <2> QED
      BY <1>1, <2>1
  <1>9. Len(e) + i # 1
    BY <1>2
  <1> QED
    BY <1>7, <1>8, <1>9 DEF HeadingAt, a, b

-----------------------------------------------------------------------------
(* How long RStrip leaves a text: nothing but blanks follows, and no blank  *)
(* is last.                                                                 *)
Stripped(q, n) ==
    /\ n \in 0..Len(q)
    /\ \A i \in (n + 1)..Len(q) : q[i] \in Blank
    /\ n > 0 => q[n] \notin Blank

(* RStrip cuts a text to the one length at which no blank is last and only  *)
(* blanks follow.                                                           *)
LEMMA RStripIs ==
    ASSUME NEW q \in Seq(Symbol), NEW n, Stripped(q, n)
    PROVE  RStrip(q) = Take(q, n)
  <1>1. PICK k \in 0..Len(q) : /\ RStrip(q) = Take(q, k)
                               /\ \A i \in (k + 1)..Len(q) : q[i] \in Blank
                               /\ k > 0 => q[k] \notin Blank
    BY RStripFacts
  <1>2. n \in 0..Len(q) /\ Len(q) \in Nat
    BY DEF Stripped
  <1>3. ~(k < n)
    <2> SUFFICES ASSUME k < n PROVE FALSE
      OBVIOUS
    <2>1. n \in (k + 1)..Len(q) /\ n > 0
      BY <1>2
    <2> QED
      BY <1>1, <2>1 DEF Stripped
  <1>4. ~(n < k)
    <2> SUFFICES ASSUME n < k PROVE FALSE
      OBVIOUS
    <2>1. k \in (n + 1)..Len(q) /\ k > 0
      BY <1>2
    <2> QED
      BY <1>1, <2>1 DEF Stripped
  <1>5. k = n
    BY <1>2, <1>3, <1>4
  <1> QED
    BY <1>1, <1>5

(* A text that ends without a blank, or is empty.                           *)
Trimmed(e) == Len(e) > 0 => e[Len(e)] \notin Blank

(* What follows it is stripped on its own.                                  *)
LEMMA RStripConcat ==
    ASSUME NEW e \in Seq(Symbol), Trimmed(e), NEW p \in Seq(Symbol)
    PROVE  RStrip(e \o p) = e \o RStrip(p)
  <1> DEFINE t == e \o p
  <1>1. /\ t \in Seq(Symbol) /\ Len(t) = Len(e) + Len(p)
        /\ \A i \in 1..Len(e) + Len(p) : t[i] = IF i <= Len(e) THEN e[i] ELSE p[i - Len(e)]
    BY ConcatProperties
  <1>2. PICK n \in 0..Len(p) : /\ RStrip(p) = Take(p, n)
                               /\ \A i \in (n + 1)..Len(p) : p[i] \in Blank
                               /\ n > 0 => p[n] \notin Blank
    BY RStripFacts
  <1> DEFINE m == Len(e) + n
             a == Take(t, m)
             b == Take(p, n)
             c == e \o b
  <1> HIDE DEF t
  <1>3. Len(e) \in Nat /\ Len(p) \in Nat /\ m \in 0..Len(t) /\ m \in Nat
    BY <1>1
  <1>4. ASSUME NEW i \in (m + 1)..Len(t) PROVE t[i] \in Blank
    <2>1. i \in 1..Len(e) + Len(p) /\ ~(i <= Len(e)) /\ i - Len(e) \in (n + 1)..Len(p)
      BY <1>1, <1>3
    <2> QED
      BY <1>1, <1>2, <2>1
  <1>5. ASSUME m > 0 PROVE t[m] \notin Blank
    <2>1. CASE n > 0
      <3>1. m \in 1..Len(e) + Len(p) /\ ~(m <= Len(e)) /\ m - Len(e) = n
        BY <1>3, <2>1
      <3> QED
        BY <1>1, <1>2, <2>1, <3>1
    <2>2. CASE n = 0
      <3>1. m = Len(e) /\ Len(e) > 0 /\ m \in 1..Len(e) + Len(p) /\ m <= Len(e)
        BY <1>3, <1>5, <2>2
      <3> QED
        BY <1>1, <3>1 DEF Trimmed
    <2> QED
      BY <2>1, <2>2
  <1>6. RStrip(t) = a
    <2> HIDE DEF m
    <2>1. Stripped(t, m)
      BY <1>3, <1>4, <1>5 DEF Stripped
    <2> QED
      BY <1>1, <2>1, RStripIs
  <1>7. a \in Seq(Symbol) /\ Len(a) = m /\ \A i \in 1..m : a[i] = t[i]
    <2> HIDE DEF m
    <2> QED
      BY <1>1, <1>3, TakeFacts
  <1>8. b \in Seq(Symbol) /\ Len(b) = n /\ \A i \in 1..n : b[i] = p[i]
    BY TakeFacts
  <1> HIDE DEF a, b
  <1>9. /\ c \in Seq(Symbol) /\ Len(c) = Len(e) + n
        /\ \A i \in 1..Len(e) + n : c[i] = IF i <= Len(e) THEN e[i] ELSE b[i - Len(e)]
    BY <1>8, ConcatProperties
  <1> HIDE DEF c
  <1>10. ASSUME NEW i \in 1..Len(a) PROVE a[i] = c[i]
    <2>1. i \in 1..m /\ i \in 1..Len(e) + Len(p) /\ i \in 1..Len(e) + n
      BY <1>3, <1>7
    <2>2. a[i] = IF i <= Len(e) THEN e[i] ELSE p[i - Len(e)]
      BY <1>1, <1>7, <2>1
    <2>3. ~(i <= Len(e)) => i - Len(e) \in 1..n
      BY <1>3, <2>1
    <2> QED
      BY <1>8, <1>9, <2>1, <2>2, <2>3
  <1>11. a = c
    BY <1>7, <1>9, <1>10, SeqEqual
  <1> QED
    BY <1>2, <1>6, <1>11 DEF t, b, c

(* Blanks are no heading.                                                   *)
LEMMA BlankNoHeading ==
    ASSUME NEW q \in Seq(Symbol), AllBlank(q)
    PROVE  Headings(q) = {}
  <1> SUFFICES ASSUME NEW i \in 1..Len(q), HeadingAt(q, i) PROVE FALSE
    BY DEF Headings
  <1> DEFINE d == Drop(q, i - 1)
             n == PrefixOf(d, {"sp"})
             a == LStrip(d, {"sp"})
  <1>1. i - 1 \in 0..Len(q) /\ Len(q) \in Nat
    OBVIOUS
  <1>2. /\ d \in Seq(Symbol) /\ Len(d) = Len(q) - (i - 1)
        /\ \A j \in 1..(Len(q) - (i - 1)) : d[j] = q[i - 1 + j]
    BY <1>1, DropFacts
  <1> HIDE DEF d
  <1>3. \A j \in 1..Len(d) : d[j] \in Blank
    <2>1. \A j \in 1..Len(d) : j \in 1..(Len(q) - (i - 1)) /\ i - 1 + j \in 1..Len(q)
      BY <1>1, <1>2
    <2> QED
      BY <1>2, <2>1 DEF AllBlank
  <1>4. n \in 0..Len(d) /\ a = Drop(d, n) /\ Len(d) \in Nat
    BY <1>2, PrefixOfBegins DEF Begins, LStrip
  <1> HIDE DEF n
  <1>5. a \in Seq(Symbol) /\ Len(a) = Len(d) - n /\ \A j \in 1..(Len(d) - n) : a[j] = d[n + j]
    BY <1>2, <1>4, DropFacts
  <1>6. Len(a) > 0 => a[1] \in Blank
    <2>1. Len(a) > 0 => 1 \in 1..(Len(d) - n) /\ n + 1 \in 1..Len(d)
      BY <1>4, <1>5
    <2> QED
      BY <1>3, <1>5, <2>1
  <1> HIDE DEF a
  <1>7. SkipHashes(a) = a
    <2>1. Begins(a, {"#"}, 0)
      BY <1>5, <1>6 DEF Begins, Blank
    <2>2. PrefixOf(a, {"#"}) = 0
      BY <1>5, <2>1, OnePrefix
    <2> QED
      BY <2>2 DEF SkipHashes
  <1>8. SkipStars(a) = a
    <2> DEFINE w == <<"*", "*">>
    <2>1. w \in Seq(Symbol) /\ Len(w) = 2 /\ w[1] = "*" /\ 1 \in 1..Len(w)
      BY DEF Symbol
    <2>2. SkipStars(a) = IF IsPrefix(w, a) THEN LStrip(Drop(a, 2), {"sp"}) ELSE a
      BY DEF SkipStars
    <2> HIDE DEF w
    <2>3. ~IsPrefix(w, a)
      <3> SUFFICES ASSUME IsPrefix(w, a) PROVE FALSE
        OBVIOUS
      <3>1. Len(w) <= Len(a) /\ w[1] = a[1]
        BY <1>5, <2>1, PrefixMeans
      <3> QED
        BY <1>6, <2>1, <3>1 DEF Blank
    <2> QED
      BY <2>2, <2>3
  <1>9. SaysMeter(a)
    BY <1>7, <1>8 DEF HeadingAt, Unadorned, a, d
  <1> DEFINE v == <<"decep", "tion", "sp">>
  <1>10. v \in Seq(Symbol) /\ Len(v) = 3 /\ v[1] = "decep" /\ 1 \in 1..Len(v)
    BY DEF Symbol
  <1>11. IsPrefix(v, a)
    BY <1>9 DEF SaysMeter
  <1> HIDE DEF v
  <1>12. Len(v) <= Len(a) /\ v[1] = a[1]
    BY <1>5, <1>10, <1>11, PrefixMeans
  <1> QED
    BY <1>6, <1>10, <1>12 DEF Blank

(* The empty line may become a heading.                                     *)
LEMMA EmptyPossible == Possible(<<>>)
  <1>1. \A S : LStrip(<<>>, S) = <<>>
    <2> SUFFICES ASSUME NEW S PROVE LStrip(<<>>, S) = <<>>
      OBVIOUS
    <2>1. <<>> \in Seq(Symbol) /\ Len(<<>>) = 0
      BY EmptySeq
    <2>2. Begins(<<>>, S, 0)
      BY <2>1 DEF Begins
    <2>3. PrefixOf(<<>>, S) = 0
      BY <2>1, <2>2, OnePrefix
    <2>4. Drop(<<>>, 0) = <<>>
      BY <2>1, SubSeqEmpty DEF Drop
    <2> QED
      BY <2>3, <2>4 DEF LStrip
  <1>2. SkipHashes(<<>>) = <<>>
    <2>1. Begins(<<>>, {"#"}, 0)
      BY DEF Begins
    <2>2. PrefixOf(<<>>, {"#"}) = 0
      BY <2>1, OnePrefix, EmptySeq
    <2> QED
      BY <2>2 DEF SkipHashes
  <1>3. SkipStars(<<>>) = <<>>
    <2>1. Len(<<"*", "*">>) = 2 /\ Len(<<>>) = 0
      OBVIOUS
    <2>2. ~IsPrefix(<<"*", "*">>, <<>>)
      BY <2>1 DEF IsPrefix
    <2> QED
      BY <2>2 DEF SkipStars
  <1>4. Unadorned(LStrip(<<>>, Blank)) = <<>>
    BY <1>1, <1>2, <1>3 DEF Unadorned
  <1> QED
    BY <1>4 DEF Possible

-----------------------------------------------------------------------------
(* While chunks end with their lines, nothing is pending but the blanks     *)
(* after the last text, which ends where a line does, so that the filter    *)
(* meets the same headings in what is pending as stripping meets in the     *)
(* whole; and once blocked it has emitted what stripping leaves, because    *)
(* later text adds no heading before the first.                             *)
AgreementInv ==
    whole =>
        /\ Len(text) > 0 => text[Len(text)] = "nl"
        /\ blocked => emitted = strip_deception_meter(text)
        /\ blocked /\ ~finished => Headings(text) # {}
        /\ ~blocked => /\ Headings(text) = {}
                       /\ AllBlank(pending) /\ Trimmed(emitted)
                       /\ Len(text) > 0 => Len(pending) > 0

(* A set of headings has a first one.                                       *)
LEMMA FirstHeadingFacts ==
    ASSUME NEW q \in Seq(Symbol), Headings(q) # {}
    PROVE  /\ FirstHeading(q) \in Headings(q) /\ FirstHeading(q) \in 1..Len(q)
           /\ \A k \in Headings(q) : FirstHeading(q) <= k
  <1>1. Headings(q) \subseteq 1..Len(q) /\ Headings(q) \in SUBSET Nat
    BY DEF Headings
  <1>2. \E m \in Headings(q) : \A n \in Headings(q) : m <= n
    BY <1>1, LeastNumber
  <1>3. FirstHeading(q) \in Headings(q) /\ \A k \in Headings(q) : FirstHeading(q) <= k
    BY <1>2 DEF FirstHeading
  <1> QED
    BY <1>1, <1>3

(* It is the only one that is not after another.                            *)
LEMMA FirstHeadingIs ==
    ASSUME NEW q \in Seq(Symbol), NEW f \in Headings(q), \A k \in Headings(q) : f <= k
    PROVE  FirstHeading(q) = f
  <1>1. FirstHeading(q) \in Headings(q) /\ \A k \in Headings(q) : FirstHeading(q) <= k
    BY FirstHeadingFacts
  <1>2. Headings(q) \subseteq Nat
    BY DEF Headings
  <1>3. FirstHeading(q) <= f /\ f <= FirstHeading(q) /\ FirstHeading(q) \in Nat /\ f \in Nat
    BY <1>1, <1>2
  <1> QED
    BY <1>3

(* A beginning of the first of two texts is one of both.                    *)
LEMMA TakeConcat ==
    ASSUME NEW t \in Seq(Symbol), NEW u \in Seq(Symbol), NEW n \in 0..Len(t)
    PROVE  Take(t \o u, n) = Take(t, n)
  <1> DEFINE v == t \o u
             a == Take(v, n)
             b == Take(t, n)
  <1>1. v \in Seq(Symbol) /\ Len(v) = Len(t) + Len(u) /\ \A i \in 1..Len(t) : v[i] = t[i]
    BY ConcatProperties
  <1> HIDE DEF v
  <1>2. n \in 0..Len(v) /\ \A i \in 1..n : i \in 1..Len(t)
    BY <1>1
  <1>3. a \in Seq(Symbol) /\ Len(a) = n /\ \A i \in 1..n : a[i] = v[i]
    BY <1>1, <1>2, TakeFacts
  <1>4. b \in Seq(Symbol) /\ Len(b) = n /\ \A i \in 1..n : b[i] = t[i]
    BY TakeFacts
  <1> HIDE DEF a, b
  <1>5. a = b
    BY <1>1, <1>2, <1>3, <1>4, SeqEqual
  <1> QED
    BY <1>5 DEF a, b, v

(* A beginning that reaches into the second of two texts.                   *)
LEMMA TakeBeyond ==
    ASSUME NEW e \in Seq(Symbol), NEW q \in Seq(Symbol), NEW n \in 0..Len(q)
    PROVE  Take(e \o q, Len(e) + n) = e \o Take(q, n)
  <1> DEFINE a == Take(q, n)
             b == Drop(q, n)
             t == e \o a
  <1>1. a \in Seq(Symbol) /\ b \in Seq(Symbol) /\ a \o b = q /\ Len(a) = n
    BY TakeFacts, DropFacts, TakeThenDrop
  <1> HIDE DEF a, b
  <1>2. t \in Seq(Symbol) /\ Len(t) = Len(e) + n
    BY <1>1, ConcatProperties
  <1>3. e \o q = t \o b
    BY <1>1, Reassociated
  <1> HIDE DEF t
  <1>4. Len(t) \in 0..Len(t) /\ Take(t \o b, Len(t)) = Take(t, Len(t))
    BY <1>1, <1>2, TakeConcat
  <1>5. Take(t, Len(t)) = t
    BY <1>2, SubSeqFull DEF Take
  <1> QED
    BY <1>2, <1>3, <1>4, <1>5 DEF t, a

(* Text after a text with a heading that ends with its line changes nothing *)
(* about what stripping leaves.                                             *)
LEMMA StripSettled ==
    ASSUME NEW t, Closed(t), Headings(t) # {}, NEW u \in Seq(Symbol)
    PROVE  /\ Headings(t \o u) # {}
           /\ strip_deception_meter(t \o u) = strip_deception_meter(t)
  <1> DEFINE f == FirstHeading(t)
             v == t \o u
  <1>1. t \in Seq(Symbol) /\ Len(t) \in Nat
    BY DEF Closed
  <1>2. v \in Seq(Symbol) /\ Len(v) = Len(t) + Len(u) /\ Len(u) \in Nat
    BY <1>1, ConcatProperties
  <1>3. f \in Headings(t) /\ f \in 1..Len(t) /\ \A k \in Headings(t) : f <= k
    BY <1>1, FirstHeadingFacts
  <1>4. \A i \in 1..Len(t) : HeadingAt(v, i) <=> HeadingAt(t, i)
    BY HeadingSettled
  <1> HIDE DEF v
  <1>5. f \in Headings(v)
    <2>1. HeadingAt(t, f) /\ f \in 1..Len(v)
      BY <1>1, <1>2, <1>3 DEF Headings
    <2> QED
      BY <1>3, <1>4, <2>1 DEF Headings
  <1>6. ASSUME NEW k \in Headings(v) PROVE f <= k
    <2>1. k \in 1..Len(v) /\ HeadingAt(v, k)
      BY DEF Headings
    <2>2. CASE k <= Len(t)
      <3>1. k \in 1..Len(t)
        BY <1>1, <2>1, <2>2
      <3>2. k \in Headings(t)
        BY <1>4, <2>1, <3>1 DEF Headings
      <3> QED
        BY <1>3, <3>2
    <2>3. CASE ~(k <= Len(t))
      BY <1>1, <1>2, <1>3, <2>1, <2>3
    <2> QED
      BY <2>2, <2>3
  <1> HIDE DEF f
  <1>7. FirstHeading(v) = f
    BY <1>2, <1>5, <1>6, FirstHeadingIs
  <1>8. Take(v, f - 1) = Take(t, f - 1)
    <2>1. f - 1 \in 0..Len(t)
      BY <1>1, <1>3
    <2> QED
      BY <1>1, <2>1, TakeConcat DEF v
  <1>9. strip_deception_meter(v) = RStrip(Take(t, f - 1))
    BY <1>5, <1>7, <1>8 DEF strip_deception_meter
  <1>10. strip_deception_meter(t) = RStrip(Take(t, f - 1))
    BY DEF strip_deception_meter, f
  <1> QED
    BY <1>5, <1>9, <1>10 DEF v

(* The headings of the whole text are those the filter meets: the text      *)
(* before has none, and what is pending of it is blanks.                    *)
LEMMA SameHeadings ==
    ASSUME NEW e \in Seq(Symbol), NEW p \in Seq(Symbol), NEW c \in Seq(Symbol),
           AllBlank(p), Headings(e \o p) = {},
           Len(e \o p) > 0 => Len(p) > 0 /\ p[Len(p)] = "nl"
    PROVE  /\ \A i \in Headings(p \o c) : Len(e) + i \in Headings(e \o (p \o c))
           /\ \A k \in Headings(e \o (p \o c)) :
                 k - Len(e) \in Headings(p \o c)
  <1> DEFINE q == p \o c
             t == e \o p
             v == e \o q
  <1>1. /\ q \in Seq(Symbol) /\ Len(q) = Len(p) + Len(c)
        /\ Len(p) \in Nat /\ Len(c) \in Nat /\ Len(e) \in Nat
    BY ConcatProperties
  <1>2. /\ t \in Seq(Symbol) /\ Len(t) = Len(e) + Len(p)
        /\ \A i \in 1..Len(e) + Len(p) : t[i] = IF i <= Len(e) THEN e[i] ELSE p[i - Len(e)]
    BY ConcatProperties
  <1>3. v = t \o c
    BY Reassociated
  <1> HIDE DEF q
  <1>4. v \in Seq(Symbol) /\ Len(v) = Len(e) + Len(q)
    BY <1>1, ConcatProperties
  <1>5. CASE Len(t) = 0
    <2>1. Len(e) = 0
      BY <1>1, <1>2, <1>5
    <2>2. e = <<>>
      BY <2>1, EmptySeq
    <2>3. v = q
      BY <1>1, <2>2, ConcatEmptySeq
    <2>4. \A k \in Nat : Len(e) + k = k /\ k - Len(e) = k
      BY <2>1
    <2>5. Headings(q) \subseteq Nat
      BY DEF Headings
    <2> HIDE DEF v
    <2>6. /\ \A i \in Headings(q) : Len(e) + i \in Headings(v)
          /\ \A k \in Headings(v) : k - Len(e) \in Headings(q)
      BY <2>3, <2>4, <2>5
    <2> QED
      BY <2>6 DEF v, q
  <1>6. CASE Len(t) > 0
    <2>1. Len(p) > 0 /\ p[Len(p)] = "nl" /\ Closed(p)
      BY <1>6 DEF Closed
    <2>2. t[Len(t)] = "nl" /\ Closed(t)
      <3>1. Len(t) \in 1..Len(e) + Len(p) /\ ~(Len(t) <= Len(e)) /\ Len(t) - Len(e) = Len(p)
        BY <1>1, <1>2, <2>1
      <3>2. t[Len(t)] = "nl"
        BY <1>2, <2>1, <3>1
      <3> QED
        BY <1>2, <1>6, <3>2 DEF Closed
    <2>3. \A i \in 1..Len(t) : ~HeadingAt(v, i)
      <3>1. \A i \in 1..Len(t) : ~HeadingAt(t, i)
        BY DEF Headings
      <3> HIDE DEF t
      <3>2. \A i \in 1..Len(t) : HeadingAt(t \o c, i) <=> HeadingAt(t, i)
        BY <2>2, HeadingSettled
      <3> QED
        BY <1>3, <3>1, <3>2
    <2>4. \A i \in 1..Len(p) : ~HeadingAt(q, i)
      <3>1. Headings(p) = {}
        BY BlankNoHeading
      <3>2. \A i \in 1..Len(p) : ~HeadingAt(p, i)
        BY <3>1 DEF Headings
      <3>3. \A i \in 1..Len(p) : HeadingAt(p \o c, i) <=> HeadingAt(p, i)
        BY <2>1, HeadingSettled
      <3> QED
        BY <3>2, <3>3 DEF q
    <2>5. \A i \in 1..Len(q) : i > 1 => (HeadingAt(v, Len(e) + i) <=> HeadingAt(q, i))
      BY <1>1, HeadingShifted
    <2> HIDE DEF t, v
    <2>6. ASSUME NEW i \in Headings(q) PROVE Len(e) + i \in Headings(v)
      <3>1. i \in 1..Len(q) /\ HeadingAt(q, i)
        BY DEF Headings
      <3>2. i \notin 1..Len(p)
        BY <2>4, <3>1
      <3>3. i > 1 /\ Len(e) + i \in 1..Len(v)
        BY <1>1, <1>4, <2>1, <3>1, <3>2
      <3>4. HeadingAt(v, Len(e) + i)
        BY <2>5, <3>1, <3>3
      <3> QED
        BY <3>3, <3>4 DEF Headings
    <2>7. ASSUME NEW k \in Headings(v) PROVE k - Len(e) \in Headings(q)
      <3>1. k \in 1..Len(v) /\ HeadingAt(v, k)
        BY DEF Headings
      <3>2. k \notin 1..Len(t)
        BY <2>3, <3>1
      <3>3. k - Len(e) \in 1..Len(q) /\ k - Len(e) > 1 /\ Len(e) + (k - Len(e)) = k
        BY <1>1, <1>2, <1>4, <2>1, <3>1, <3>2
      <3>4. HeadingAt(q, k - Len(e))
        BY <2>5, <3>1, <3>3
      <3> QED
        BY <3>3, <3>4 DEF Headings
    <2> QED
      BY <2>6, <2>7 DEF v, q
  <1> QED
    BY <1>1, <1>2, <1>5, <1>6

(* Stripping the whole text is stripping what the filter has pending, after *)
(* a text that ends without a blank.                                        *)
LEMMA StripShifted ==
    ASSUME NEW e \in Seq(Symbol), Trimmed(e), NEW q \in Seq(Symbol), Headings(q) # {},
           \A i \in Headings(q) : Len(e) + i \in Headings(e \o q),
           \A k \in Headings(e \o q) : k - Len(e) \in Headings(q)
    PROVE  /\ Headings(e \o q) # {}
           /\ strip_deception_meter(e \o q) = e \o strip_deception_meter(q)
  <1> DEFINE f == FirstHeading(q)
             v == e \o q
             p == Take(q, f - 1)
  <1>1. v \in Seq(Symbol) /\ Len(e) \in Nat /\ Len(q) \in Nat
    BY ConcatProperties
  <1>2. f \in Headings(q) /\ f \in 1..Len(q) /\ \A k \in Headings(q) : f <= k
    BY FirstHeadingFacts
  <1> HIDE DEF f, v
  <1>3. Headings(v) \subseteq Nat
    BY DEF Headings
  <1>4. Len(e) + f \in Headings(v) /\ \A k \in Headings(v) : Len(e) + f <= k
    <2>1. Len(e) + f \in Headings(v)
      BY <1>2 DEF v
    <2>2. ASSUME NEW k \in Headings(v) PROVE Len(e) + f <= k
      <3>1. k - Len(e) \in Headings(q) /\ k \in Nat
        BY <1>3 DEF v
      <3>2. f <= k - Len(e) /\ f \in Nat
        BY <1>2, <3>1
      <3> QED
        BY <1>1, <3>1, <3>2
    <2> QED
      BY <2>1, <2>2
  <1>5. FirstHeading(v) = Len(e) + f
    BY <1>1, <1>4, FirstHeadingIs
  <1>6. f - 1 \in 0..Len(q) /\ FirstHeading(v) - 1 = Len(e) + (f - 1)
    BY <1>1, <1>2, <1>5
  <1>7. Take(v, Len(e) + (f - 1)) = e \o p
    BY <1>6, TakeBeyond DEF v
  <1>8. p \in Seq(Symbol)
    BY <1>6, TakeFacts
  <1>9. strip_deception_meter(v) = RStrip(e \o p)
    BY <1>4, <1>6, <1>7 DEF strip_deception_meter
  <1>10. strip_deception_meter(q) = RStrip(p)
    BY <1>2 DEF strip_deception_meter, f
  <1> HIDE DEF p
  <1>11. RStrip(e \o p) = e \o RStrip(p)
    BY <1>8, RStripConcat
  <1> QED
    BY <1>4, <1>9, <1>10, <1>11 DEF v

(* Nothing was fed: there is nothing to agree on.                           *)
LEMMA InitAgreement == Init => AgreementInv
  <1> SUFFICES ASSUME Init PROVE AgreementInv
    OBVIOUS
  <1>1. Len(text) = 0 /\ Len(pending) = 0 /\ Len(emitted) = 0 /\ ~blocked
    BY DEF Init
  <1>2. Headings(text) = {} /\ AllBlank(pending) /\ Trimmed(emitted)
    BY <1>1 DEF Headings, AllBlank, Trimmed
  <1> QED
    BY <1>1, <1>2 DEF AgreementInv

(* Of a text that ends with its line and has no heading, all is emitted but *)
(* the blanks at its end.                                                   *)
LEMMA HeldOfLines ==
    ASSUME NEW q, Closed(q), NEW e \in Seq(Symbol), Trimmed(e)
    PROVE  /\ Possible(Drop(q, LineStart(q)))
           /\ AllBlank(Drop(q, Held(q))) /\ Len(Drop(q, Held(q))) > 0
           /\ Trimmed(e \o Take(q, Held(q)))
  <1> DEFINE n == Held(q)
             a == Take(q, n)
             b == Drop(q, n)
             t == e \o a
  <1>0. q \in Seq(Symbol) /\ Len(q) \in Nat /\ Len(q) > 0 /\ q[Len(q)] = "nl"
    BY DEF Closed
  <1>1. LineStart(q) = Len(q)
    <2>1. LineStart(q) \in 0..Len(q) /\ \A i \in (LineStart(q) + 1)..Len(q) : q[i] # "nl"
      BY <1>0, LineStartFacts
    <2>2. ~(LineStart(q) < Len(q))
      <3> SUFFICES ASSUME LineStart(q) < Len(q) PROVE FALSE
        OBVIOUS
      <3>1. Len(q) \in (LineStart(q) + 1)..Len(q)
        BY <1>0, <2>1
      <3> QED
        BY <1>0, <2>1, <3>1
    <2> QED
      BY <1>0, <2>1, <2>2
  <1>2. Possible(Drop(q, LineStart(q)))
    <2>1. Drop(q, Len(q)) = <<>>
      BY <1>0, SubSeqEmpty DEF Drop
    <2> QED
      BY <1>1, <2>1, EmptyPossible
  <1>3. /\ n \in 0..Len(q)
        /\ \A i \in (n + 1)..Len(q) : q[i] \in Blank
        /\ n > 0 => q[n] \notin Blank
    BY <1>0, <1>1, HeldFacts
  <1> HIDE DEF n
  <1>4. n < Len(q)
    <2> SUFFICES ASSUME n = Len(q) PROVE FALSE
      BY <1>0, <1>3
    <2> QED
      BY <1>0, <1>3 DEF Blank
  <1>5. b \in Seq(Symbol) /\ Len(b) = Len(q) - n /\ \A i \in 1..(Len(q) - n) : b[i] = q[n + i]
    BY <1>0, <1>3, DropFacts
  <1>6. a \in Seq(Symbol) /\ Len(a) = n /\ \A i \in 1..n : a[i] = q[i]
    BY <1>0, <1>3, TakeFacts
  <1> HIDE DEF a, b
  <1>7. AllBlank(b) /\ Len(b) > 0
    <2>1. \A i \in 1..Len(b) : i \in 1..(Len(q) - n) /\ n + i \in (n + 1)..Len(q)
      BY <1>0, <1>3, <1>5
    <2> QED
      BY <1>0, <1>3, <1>4, <1>5, <2>1 DEF AllBlank
  <1>8. /\ t \in Seq(Symbol) /\ Len(t) = Len(e) + n
        /\ \A i \in 1..Len(e) + n : t[i] = IF i <= Len(e) THEN e[i] ELSE a[i - Len(e)]
    BY <1>6, ConcatProperties
  <1> HIDE DEF t
  <1>9. ASSUME Len(t) > 0 PROVE t[Len(t)] \notin Blank
    <2>1. Len(e) \in Nat /\ n \in Nat
      BY <1>3
    <2>2. CASE n > 0
      <3>1. Len(t) \in 1..Len(e) + n /\ ~(Len(t) <= Len(e)) /\ Len(t) - Len(e) = n /\ n \in 1..n
        BY <1>8, <2>1, <2>2
      <3>2. t[Len(t)] = a[n] /\ a[n] = q[n]
        BY <1>6, <1>8, <3>1
      <3> QED
        BY <1>3, <2>2, <3>2
    <2>3. CASE n = 0
      <3>1. Len(t) \in 1..Len(e) + n /\ Len(t) = Len(e) /\ Len(e) > 0
        BY <1>8, <1>9, <2>1, <2>3
      <3>2. t[Len(t)] = e[Len(e)]
        BY <1>8, <2>1, <3>1
      <3> QED
        BY <3>1, <3>2 DEF Trimmed
    <2> QED
      BY <2>1, <2>2, <2>3
  <1> QED
    BY <1>2, <1>7, <1>9 DEF Trimmed, n, a, b, t

(* A chunk that ends with its line keeps filter and stripping together.     *)
LEMMA FeedAgrees ==
    ASSUME PrefixInv, AgreementInv, NEW chunk \in Chunks, feed(chunk)
    PROVE  AgreementInv'
  <1> DEFINE q == pending \o chunk
             t == text'
  <1> SUFFICES ASSUME whole'
               PROVE  /\ Len(t) > 0 => t[Len(t)] = "nl"
                      /\ blocked' => emitted' = strip_deception_meter(t)
                      /\ blocked' /\ ~finished' => Headings(t) # {}
                      /\ ~blocked' => /\ Headings(t) = {}
                                      /\ AllBlank(pending') /\ Trimmed(emitted')
                                      /\ Len(t) > 0 => Len(pending') > 0
    BY DEF AgreementInv, AllBlank
  <1>1. /\ Types /\ ~finished
        /\ ~blocked => emitted \o pending = text
    BY DEF PrefixInv, PrefixOneLineBehind, feed
  <1>2. t = text \o chunk /\ whole /\ Last(chunk) = "nl"
    <2>1. whole' = (whole /\ Last(chunk) = "nl") /\ t = text \o chunk
      BY DEF feed
    <2> QED
      BY <2>1
  <1>3. chunk \in Seq(Symbol) /\ Len(chunk) \in Nat /\ Len(chunk) > 0
    <2>1. chunk \in Seq(Symbol) /\ chunk # <<>>
      BY ChunkAssumption
    <2> QED
      BY <2>1, EmptySeq
  <1>4. chunk[Len(chunk)] = "nl"
    BY <1>2 DEF Last
  <1>5. /\ Len(text) > 0 => text[Len(text)] = "nl"
        /\ blocked => emitted = strip_deception_meter(text) /\ Headings(text) # {}
        /\ ~blocked => /\ Headings(text) = {} /\ AllBlank(pending) /\ Trimmed(emitted)
                       /\ Len(text) > 0 => Len(pending) > 0
    BY <1>1, <1>2 DEF AgreementInv
  <1>6. text \in Seq(Symbol) /\ pending \in Seq(Symbol) /\ emitted \in Seq(Symbol)
    BY <1>1 DEF Types
  <1>7. \A s \in Seq(Symbol) : Closed(s \o chunk)
    <2> SUFFICES ASSUME NEW s \in Seq(Symbol) PROVE Closed(s \o chunk)
      OBVIOUS
    <2>1. /\ s \o chunk \in Seq(Symbol) /\ Len(s \o chunk) = Len(s) + Len(chunk)
          /\ \A i \in 1..Len(s) + Len(chunk) :
                (s \o chunk)[i] = IF i <= Len(s) THEN s[i] ELSE chunk[i - Len(s)]
      BY <1>3, ConcatProperties
    <2>2. /\ Len(s) + Len(chunk) \in 1..Len(s) + Len(chunk)
          /\ ~(Len(s) + Len(chunk) <= Len(s)) /\ Len(s) + Len(chunk) - Len(s) = Len(chunk)
          /\ Len(s) + Len(chunk) > 0
      BY <1>3
    <2>3. (s \o chunk)[Len(s) + Len(chunk)] = "nl"
      BY <1>4, <2>1, <2>2
    <2> QED
      BY <2>1, <2>2, <2>3 DEF Closed
  <1>8. Closed(t) /\ Closed(q)
    BY <1>2, <1>6, <1>7
  <1>9. Len(t) > 0 /\ t[Len(t)] = "nl"
    BY <1>8 DEF Closed
  <1>10. CASE blocked /\ UNCHANGED <<pending, blocked, emitted>>
    <2>1. Closed(text)
      <3>1. Len(text) > 0
        <4>1. Headings(text) # {} /\ Len(text) \in Nat
          BY <1>5, <1>6, <1>10
        <4> QED
          BY <4>1 DEF Headings
      <3> QED
        BY <1>5, <1>6, <3>1 DEF Closed
    <2>2. Headings(t) # {} /\ strip_deception_meter(t) = strip_deception_meter(text)
      BY <1>2, <1>3, <1>5, <1>10, <2>1, StripSettled
    <2> QED
      BY <1>5, <1>9, <1>10, <2>2
  <1>11. ASSUME ~blocked
         PROVE  /\ t = emitted \o q /\ q \in Seq(Symbol)
                /\ \A i \in Headings(q) : Len(emitted) + i \in Headings(t)
                /\ \A k \in Headings(t) : k - Len(emitted) \in Headings(q)
    <2>1. emitted \o pending = text
      BY <1>1, <1>11
    <2>2. t = emitted \o q /\ q \in Seq(Symbol)
      <3>1. (emitted \o pending) \o chunk = emitted \o (pending \o chunk)
        BY <1>3, <1>6, Reassociated
      <3> QED
        BY <1>2, <1>8, <2>1, <3>1 DEF Closed
    <2>3. Len(text) > 0 => Len(pending) > 0 /\ pending[Len(pending)] = "nl"
      <3>1. /\ Len(text) = Len(emitted) + Len(pending)
            /\ \A i \in 1..Len(emitted) + Len(pending) :
                  text[i] = IF i <= Len(emitted) THEN emitted[i] ELSE pending[i - Len(emitted)]
        BY <1>6, <2>1, ConcatProperties
      <3>2. ASSUME Len(text) > 0 PROVE pending[Len(pending)] = "nl"
        <4>1. Len(pending) > 0 /\ Len(pending) \in Nat /\ Len(emitted) \in Nat
          BY <1>5, <1>6, <1>11, <3>2
        <4>2. /\ Len(text) \in 1..Len(emitted) + Len(pending) /\ ~(Len(text) <= Len(emitted))
              /\ Len(text) - Len(emitted) = Len(pending)
          BY <3>1, <4>1
        <4> QED
          BY <1>5, <3>1, <3>2, <4>2
      <3> QED
        BY <1>5, <1>11, <3>2
    <2>4. AllBlank(pending) /\ Headings(emitted \o pending) = {}
      BY <1>5, <1>11, <2>1
    <2>5. /\ \A i \in Headings(q) : Len(emitted) + i \in Headings(emitted \o q)
          /\ \A k \in Headings(emitted \o q) : k - Len(emitted) \in Headings(q)
      BY <1>3, <1>6, <2>1, <2>3, <2>4, SameHeadings
    <2> QED
      BY <2>2, <2>5
  <1>12. CASE /\ ~blocked /\ Headings(q) # {} /\ blocked' = TRUE
              /\ emitted' = emitted \o strip_deception_meter(q)
    <2> HIDE DEF q
    <2>1. Trimmed(emitted)
      BY <1>5, <1>12
    <2>2. /\ Headings(emitted \o q) # {}
          /\ strip_deception_meter(emitted \o q) = emitted \o strip_deception_meter(q)
      <3>1. /\ \A i \in Headings(q) : Len(emitted) + i \in Headings(emitted \o q)
            /\ \A k \in Headings(emitted \o q) : k - Len(emitted) \in Headings(q)
            /\ q \in Seq(Symbol)
        BY <1>11, <1>12
      <3> QED
        BY <1>6, <1>12, <2>1, <3>1, StripShifted
    <2> QED
      BY <1>9, <1>11, <1>12, <2>2
  <1>13. CASE /\ ~blocked /\ Headings(q) = {} /\ blocked' = blocked
              /\ Emit(q, IF Possible(Drop(q, LineStart(q))) THEN Held(q) ELSE Len(q))
    <2> HIDE DEF q
    <2>1. Headings(t) = {}
      BY <1>11, <1>13
    <2>2. /\ Possible(Drop(q, LineStart(q)))
          /\ AllBlank(Drop(q, Held(q))) /\ Len(Drop(q, Held(q))) > 0
          /\ Trimmed(emitted \o Take(q, Held(q)))
      BY <1>5, <1>6, <1>8, <1>13, HeldOfLines
    <2>3. pending' = Drop(q, Held(q)) /\ emitted' = emitted \o Take(q, Held(q))
      BY <1>13, <2>2 DEF Emit
    <2> QED
      BY <1>9, <1>13, <2>1, <2>2, <2>3
  <1> QED
    BY <1>10, <1>12, <1>13 DEF feed

(* So does the end.                                                         *)
LEMMA FinishAgrees ==
    ASSUME PrefixInv, AgreementInv, finish
    PROVE  AgreementInv'
  <1>1. /\ text' = text /\ whole' = whole /\ finished' = TRUE /\ blocked' = TRUE
        /\ emitted' = IF blocked THEN emitted ELSE emitted \o strip_deception_meter(pending)
    BY DEF finish
  <1>2. ASSUME whole PROVE emitted' = strip_deception_meter(text)
    <2>1. CASE blocked
      BY <1>1, <1>2, <2>1 DEF AgreementInv
    <2>2. CASE ~blocked
      <3>1. Headings(pending) = {}
        BY <1>2, <2>2, BlankNoHeading DEF AgreementInv, PrefixInv, Types
      <3>2. strip_deception_meter(pending) = pending
        BY <3>1 DEF strip_deception_meter
      <3>3. emitted \o pending = text
        BY <2>2 DEF PrefixInv, PrefixOneLineBehind
      <3>4. strip_deception_meter(text) = text
        BY <1>2, <2>2 DEF AgreementInv, strip_deception_meter
      <3> QED
        BY <1>1, <2>2, <3>2, <3>3, <3>4
    <2> QED
      BY <2>1, <2>2
  <1>3. whole => (Len(text) > 0 => text[Len(text)] = "nl")
    BY DEF AgreementInv
  <1> QED
    BY <1>1, <1>2, <1>3 DEF AgreementInv

(* For an answer cut at line ends, of any length and any number of chunks,  *)
(* the stream is exactly what stripping makes of the assembled answer.      *)
THEOREM AgreementSound == Spec => []AgreesWithStrip
  <1>1. PrefixInv /\ [Next]_vars => PrefixInv'
    BY PrefixStep
  <1>2. PrefixInv /\ AgreementInv /\ [Next]_vars => AgreementInv'
    <2> SUFFICES ASSUME PrefixInv, AgreementInv, [Next]_vars PROVE AgreementInv'
      OBVIOUS
    <2>1. CASE UNCHANGED vars
      BY <2>1 DEF vars, AgreementInv, AllBlank, Trimmed
    <2> QED
      BY <2>1, FeedAgrees, FinishAgrees DEF Next
  <1>3. PrefixInv /\ AgreementInv => AgreesWithStrip
    BY DEF PrefixInv, AgreementInv, AgreesWithStrip
  <1> QED
    BY InitPrefix, InitAgreement, <1>1, <1>2, <1>3, PTL DEF Spec
============================================================================

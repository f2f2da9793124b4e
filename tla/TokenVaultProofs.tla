-------------------------- MODULE TokenVaultProofs --------------------------
(***************************************************************************)
(* Proofs, for every text, every set of values and every number of tokens,  *)
(* of the safety properties of TokenVault.  What str.replace does to a text *)
(* is a recursive function; its facts are proved by induction on the length *)
(* of the text.                                                             *)
(***************************************************************************)
EXTENDS TokenVault, FiniteSetTheorems, SequenceTheorems, WellFoundedInduction, TLAPS

Text == Seq(Atom)

(* Every set of natural numbers has a least element.                        *)
LEMMA LeastNumber ==
    ASSUME NEW T \in SUBSET Nat, T # {}
    PROVE  \E m \in T : \A n \in T : m <= n
  <1>1. \A m, n \in Nat : n < m => <<n, m>> \in OpToRel(<, Nat)
    BY DEF OpToRel
  <1>2. PICK R : IsWellFoundedOn(R, Nat) /\ \A m, n \in Nat : n < m => <<n, m>> \in R
    BY <1>1, NatLessThanWellFounded, Zenon
  <1>3. PICK m \in T : \A n \in T : <<n, m>> \notin R
    BY <1>2, WFMin
  <1>4. ASSUME NEW n \in T PROVE m <= n
    <2>1. n \in Nat /\ m \in Nat /\ ~(n < m)
      BY <1>2, <1>3
    <2> QED
      BY <2>1
  <1> QED
    BY <1>3, <1>4

(* A set of numbers that has 0 and with each number the next one has all up *)
(* to N.                                                                    *)
LEMMA CountUp ==
    ASSUME NEW N \in Nat, NEW P, 0 \in P, \A n \in 1..N : n - 1 \in P => n \in P
    PROVE  0..N \subseteq P
  <1> DEFINE T == {n \in 0..N : n \notin P}
  <1> SUFFICES ASSUME T # {} PROVE FALSE
    OBVIOUS
  <1>1. T \in SUBSET Nat
    OBVIOUS
  <1>2. PICK m \in T : \A n \in T : m <= n
    <2> HIDE DEF T
    <2> QED
      BY <1>1, LeastNumber
  <1>3. m \in 1..N /\ m - 1 \in 0..N /\ ~(m <= m - 1)
    BY <1>2
  <1> QED
    BY <1>2, <1>3

(* A set of texts that has a text whenever it has all shorter ones has all. *)
LEMMA TextInduction ==
    ASSUME NEW P,
           \A t \in Text : (\A u \in Text : Len(u) < Len(t) => u \in P) => t \in P
    PROVE  Text \subseteq P
  <1> SUFFICES ASSUME NEW s \in Text, s \notin P PROVE FALSE
    OBVIOUS
  <1> DEFINE T == {n \in Nat : \E t \in Text : t \notin P /\ n = Len(t)}
  <1>1. \A t \in Text : Len(t) \in Nat
    BY DEF Text
  <1>2. Len(s) \in T
    BY <1>1
  <1>3. PICK m \in T : \A n \in T : m <= n
    <2>1. T \in SUBSET Nat /\ T # {}
      BY <1>2
    <2> HIDE DEF T
    <2> QED
      BY <2>1, LeastNumber
  <1>4. PICK t \in Text : t \notin P /\ m = Len(t)
    BY <1>3
  <1>5. ASSUME NEW u \in Text, Len(u) < Len(t) PROVE u \in P
    <2>1. ~(Len(t) <= Len(u))
      BY <1>1, <1>5
    <2>2. Len(u) \notin T
      BY <1>3, <1>4, <2>1
    <2> QED
      BY <1>1, <2>2
  <1> QED
    BY <1>4, <1>5

(* A text from a position on.                                               *)
From(t, k) == SubSeq(t, k, Len(t))

LEMMA FromFacts ==
    ASSUME NEW t \in Text, NEW k \in 1..(Len(t) + 1)
    PROVE  /\ From(t, k) \in Text
           /\ Len(From(t, k)) = Len(t) + 1 - k
           /\ \A i \in 1..(Len(t) + 1 - k) : From(t, k)[i] = t[k + i - 1]
  <1>1. Len(t) \in Nat /\ k \in Int /\ \A i \in k..Len(t) : t[i] \in Atom
    BY DEF Text
  <1>2. /\ SubSeq(t, k, Len(t)) \in Seq(Atom)
        /\ Len(SubSeq(t, k, Len(t))) = IF k <= Len(t) THEN Len(t) - k + 1 ELSE 0
        /\ \A i \in 1..(Len(t) - k + 1) : SubSeq(t, k, Len(t))[i] = t[k + i - 1]
    BY <1>1, SubSeqProperties
  <1> QED
    BY <1>1, <1>2 DEF From, Text

(* A text up to a position.                                                 *)
LEMMA UpToFacts ==
    ASSUME NEW t \in Text, NEW k \in 0..Len(t)
    PROVE  /\ SubSeq(t, 1, k) \in Text
           /\ Len(SubSeq(t, 1, k)) = k
           /\ \A i \in 1..k : SubSeq(t, 1, k)[i] = t[i]
  <1>1. Len(t) \in Nat /\ k \in Int /\ \A i \in 1..k : t[i] \in Atom
    BY DEF Text
  <1>2. /\ SubSeq(t, 1, k) \in Seq(Atom)
        /\ Len(SubSeq(t, 1, k)) = IF 1 <= k THEN k - 1 + 1 ELSE 0
        /\ \A i \in 1..(k - 1 + 1) : SubSeq(t, 1, k)[i] = t[1 + i - 1]
    BY <1>1, SubSeqProperties
  <1> QED
    BY <1>1, <1>2 DEF Text

(* The first atom of a text and the rest of it.                             *)
LEMMA HeadAndTail ==
    ASSUME NEW t \in Text, t # <<>>
    PROVE  /\ Head(t) = t[1] /\ Head(t) \in Atom
           /\ Tail(t) = From(t, 2) /\ Tail(t) \in Text /\ Len(Tail(t)) = Len(t) - 1
           /\ Len(t) >= 1
           /\ t = <<Head(t)>> \o Tail(t)
  <1>1. Len(t) \in Nat /\ Len(t) >= 1 /\ Head(t) = t[1]
    BY EmptySeq DEF Text
  <1>2. Head(t) \in Atom /\ Tail(t) \in Text /\ Len(Tail(t)) = Len(t) - 1
    BY HeadTailProperties DEF Text
  <1>3. Tail(t) = From(t, 2)
    BY TailIsSubSeq DEF Text, From
  <1>4. t = <<Head(t)>> \o Tail(t)
    BY <1>1, <1>2 DEF Text
  <1> QED
    BY <1>1, <1>2, <1>3, <1>4

-----------------------------------------------------------------------------
(* What one step of a replacement makes of a text, r being what the         *)
(* replacement makes of shorter ones.                                       *)
Body(r, old, new, s) ==
    CASE s = <<>> -> <<>>
      [] s # <<>> /\ OccursAt(old, 1, s) -> new \o r[SubSeq(s, Len(old) + 1, Len(s))]
      [] OTHER -> <<Head(s)>> \o r[Tail(s)]

Short(n) == {t \in Text : Len(t) <= n}

\* r replaces in all texts of n atoms at most.
Replaces(r, old, new, n) ==
    r \in [Short(n) -> Text] /\ \A s \in Short(n) : r[s] = Body(r, old, new, s)

(* A step leaves a shorter text to the rest of the replacement.             *)
LEMMA RestIsShorter ==
    ASSUME NEW old \in Text, old # <<>>, NEW s \in Text, s # <<>>
    PROVE  /\ Tail(s) \in Text /\ Len(Tail(s)) < Len(s)
           /\ OccursAt(old, 1, s) =>
                 /\ SubSeq(s, Len(old) + 1, Len(s)) \in Text
                 /\ Len(SubSeq(s, Len(old) + 1, Len(s))) < Len(s)
                 /\ SubSeq(s, Len(old) + 1, Len(s)) = From(s, Len(old) + 1)
                 /\ Len(old) + 1 \in 1..(Len(s) + 1)
  <1>1. Tail(s) \in Text /\ Len(Tail(s)) = Len(s) - 1 /\ Len(s) \in Nat
    BY HeadAndTail DEF Text
  <1>2. Len(old) \in Nat /\ Len(old) >= 1
    BY EmptySeq DEF Text
  <1>3. ASSUME OccursAt(old, 1, s)
        PROVE  Len(old) + 1 \in 1..(Len(s) + 1)
    BY <1>1, <1>2, <1>3 DEF OccursAt
  <1>4. ASSUME OccursAt(old, 1, s)
        PROVE  From(s, Len(old) + 1) \in Text /\ Len(From(s, Len(old) + 1)) < Len(s)
    <2>1. From(s, Len(old) + 1) \in Text
          /\ Len(From(s, Len(old) + 1)) = Len(s) + 1 - (Len(old) + 1)
      BY <1>3, <1>4, FromFacts
    <2> QED
      BY <1>1, <1>2, <2>1
  <1> QED
    BY <1>1, <1>3, <1>4 DEF From

(* The step gives a text, and looks at what shorter texts become only.      *)
LEMMA BodyFacts ==
    ASSUME NEW old \in Text, old # <<>>, NEW new \in Text, NEW s \in Text, NEW r,
           \A u \in Text : Len(u) < Len(s) => r[u] \in Text
    PROVE  /\ Body(r, old, new, s) \in Text
           /\ \A q : (\A u \in Text : Len(u) < Len(s) => q[u] = r[u])
                 => Body(q, old, new, s) = Body(r, old, new, s)
  <1>1. CASE s = <<>>
    BY <1>1 DEF Body, Text
  <1>2. CASE s # <<>> /\ OccursAt(old, 1, s)
    <2>1. r[SubSeq(s, Len(old) + 1, Len(s))] \in Text
          /\ \A q : Body(q, old, new, s) = new \o q[SubSeq(s, Len(old) + 1, Len(s))]
      BY <1>2, RestIsShorter DEF Body
    <2>2. new \o r[SubSeq(s, Len(old) + 1, Len(s))] \in Text
      BY <2>1, ConcatProperties DEF Text
    <2> QED
      BY <1>2, <2>1, <2>2, RestIsShorter
  <1>3. CASE s # <<>> /\ ~OccursAt(old, 1, s)
    <2>1. r[Tail(s)] \in Text /\ Head(s) \in Atom
          /\ \A q : Body(q, old, new, s) = <<Head(s)>> \o q[Tail(s)]
      BY <1>3, RestIsShorter, HeadAndTail DEF Body
    <2>2. <<Head(s)>> \in Seq(Atom)
      BY <2>1
    <2>3. <<Head(s)>> \o r[Tail(s)] \in Text
      BY <2>1, <2>2, ConcatProperties DEF Text
    <2> QED
      BY <1>3, <2>1, <2>3, RestIsShorter
  <1> QED
    BY <1>1, <1>2, <1>3

(* Two replacements agree where both are defined.                           *)
LEMMA ReplacesUnique ==
    ASSUME NEW old \in Text, old # <<>>, NEW new \in Text,
           NEW m \in Nat, NEW n \in Nat, NEW q, NEW r,
           Replaces(q, old, new, m), Replaces(r, old, new, n), m <= n
    PROVE  \A s \in Short(m) : q[s] = r[s]
  <1> DEFINE P == {s \in Text : Len(s) <= m => q[s] = r[s]}
  <1>1. ASSUME NEW t \in Text, \A u \in Text : Len(u) < Len(t) => u \in P PROVE t \in P
    <2> SUFFICES ASSUME Len(t) <= m PROVE q[t] = r[t]
      OBVIOUS
    <2>1. t \in Short(m) /\ t \in Short(n) /\ Len(t) \in Nat
      BY DEF Short, Text
    <2>2. ASSUME NEW u \in Text, Len(u) < Len(t) PROVE r[u] \in Text /\ q[u] = r[u]
      <3>1. Len(u) <= m /\ Len(u) <= n
        BY <2>1, <2>2 DEF Text
      <3>2. u \in Short(n)
        BY <3>1 DEF Short
      <3> QED
        BY <1>1, <2>2, <3>1, <3>2 DEF Replaces
    <2>3. Body(q, old, new, t) = Body(r, old, new, t)
      BY <2>2, BodyFacts
    <2> QED
      BY <2>1, <2>3 DEF Replaces
  <1>2. Text \subseteq P
    <2> HIDE DEF P
    <2> QED
      BY <1>1, TextInduction
  <1> QED
    BY <1>2 DEF Short

(* There is a replacement for texts of any length.                          *)
LEMMA ReplacesExist ==
    ASSUME NEW old \in Text, old # <<>>, NEW new \in Text, NEW N \in Nat
    PROVE  \E r : Replaces(r, old, new, N)
  <1> DEFINE P == {n \in 0..N : \E r : Replaces(r, old, new, n)}
  <1>1. 0 \in P
    <2> DEFINE r == [s \in Short(0) |-> <<>>]
    <2>1. \A s \in Short(0) : s = <<>>
      BY EmptySeq DEF Short, Text
    <2>2. r \in [Short(0) -> Text]
      BY DEF Text
    <2>3. \A s \in Short(0) : r[s] = Body(r, old, new, s)
      BY <2>1 DEF Body
    <2>4. Replaces(r, old, new, 0)
      BY <2>2, <2>3 DEF Replaces
    <2> QED
      BY <2>4
  <1>2. ASSUME NEW n \in 1..N, n - 1 \in P PROVE n \in P
    <2>1. PICK h : Replaces(h, old, new, n - 1)
      BY <1>2
    <2> DEFINE r == [s \in Short(n) |-> IF Len(s) < n THEN h[s] ELSE Body(h, old, new, s)]
    <2>2. ASSUME NEW s \in Text, Len(s) < n PROVE s \in Short(n - 1) /\ s \in Short(n)
      BY <2>2 DEF Short, Text
    <2>3. \A s \in Text : Len(s) < n => h[s] \in Text /\ r[s] = h[s] /\ h[s] = Body(h, old, new, s)
      BY <2>1, <2>2 DEF Replaces
    <2>4. ASSUME NEW s \in Short(n) PROVE r[s] \in Text /\ r[s] = Body(r, old, new, s)
      <3>1. s \in Text /\ Len(s) <= n /\ Len(s) \in Nat
        BY DEF Short, Text
      <3>2. \A u \in Text : Len(u) < Len(s) => h[u] \in Text /\ r[u] = h[u]
        <4> SUFFICES ASSUME NEW u \in Text, Len(u) < Len(s) PROVE Len(u) < n
          BY <2>3
        <4> QED
          BY <3>1 DEF Text
      <3>3. Body(h, old, new, s) \in Text /\ Body(r, old, new, s) = Body(h, old, new, s)
        <4> HIDE DEF r
        <4> QED
          BY <3>1, <3>2, BodyFacts
      <3>4. r[s] = Body(h, old, new, s)
        BY <2>3, <3>1
      <3> QED
        BY <3>3, <3>4
    <2>5. r \in [Short(n) -> Text]
      <3>1. r = [s \in Short(n) |-> r[s]]
        OBVIOUS
      <3> HIDE DEF r
      <3> QED
        BY <2>4, <3>1
    <2>6. Replaces(r, old, new, n)
      <3> HIDE DEF r
      <3> QED
        BY <2>4, <2>5 DEF Replaces
    <2> QED
      BY <2>6
  <1>3. 0..N \subseteq P
    <2> HIDE DEF P
    <2> QED
      BY <1>1, <1>2, CountUp
  <1> QED
    BY <1>3

(* There is a replacement for all texts, which the recursive definition     *)
(* therefore names.                                                         *)
LEMMA ReplaceIsBody ==
    ASSUME NEW old \in Text, old # <<>>, NEW new \in Text
    PROVE  \E r \in [Text -> Text] :
              /\ \A s \in Text : r[s] = Body(r, old, new, s)
              /\ \A t \in Text : Replace(t, old, new) = r[t]
  <1> DEFINE part(n) == CHOOSE g : Replaces(g, old, new, n)
             r == [s \in Text |-> part(Len(s))[s]]
             body(q) == [s \in Seq(Atom) |->
                            CASE s = <<>> -> <<>>
                              [] s # <<>> /\ OccursAt(old, 1, s) ->
                                    new \o q[SubSeq(s, Len(old) + 1, Len(s))]
                              [] OTHER -> <<Head(s)>> \o q[Tail(s)]]
  <1>1. \A n \in Nat : Replaces(part(n), old, new, n)
    BY ReplacesExist
  <1>2. \A s \in Text : Len(s) \in Nat /\ s \in Short(Len(s))
    BY DEF Short, Text
  <1>3. \A s \in Text : r[s] = part(Len(s))[s]
    OBVIOUS
  <1> HIDE DEF part
  <1>4. ASSUME NEW s \in Text PROVE r[s] \in Text /\ r[s] = Body(r, old, new, s)
    <2> DEFINE g == part(Len(s))
    <2>1. Replaces(g, old, new, Len(s)) /\ Len(s) \in Nat /\ s \in Short(Len(s))
      BY <1>1, <1>2
    <2>2. ASSUME NEW u \in Text, Len(u) < Len(s) PROVE g[u] \in Text /\ r[u] = g[u]
      <3>1. Len(u) \in Nat /\ Len(u) <= Len(s) /\ u \in Short(Len(u))
        BY <1>2, <2>1, <2>2
      <3>2. u \in Short(Len(s))
        BY <3>1 DEF Short
      <3>3. Replaces(part(Len(u)), old, new, Len(u))
        BY <1>1, <3>1
      <3> HIDE DEF g
      <3>4. part(Len(u))[u] = g[u]
        BY <2>1, <3>1, <3>3, ReplacesUnique
      <3> QED
        BY <1>3, <2>1, <3>2, <3>4 DEF Replaces
    <2> HIDE DEF r
    <2>3. r[s] = g[s]
      BY <1>3
    <2> HIDE DEF g
    <2>4. Body(r, old, new, s) = Body(g, old, new, s)
      BY <2>2, BodyFacts
    <2> QED
      BY <2>1, <2>3, <2>4 DEF Replaces
  <1>5. r \in [Text -> Text]
    <2>1. r = [s \in Text |-> r[s]]
      OBVIOUS
    <2> HIDE DEF r
    <2> QED
      BY <1>4, <2>1
  <1>6. r = body(r)
    <2>1. \A s \in Text : body(r)[s] = Body(r, old, new, s)
      BY DEF Body, Text
    <2>2. DOMAIN body(r) = Text /\ body(r) = [s \in Text |-> body(r)[s]]
      BY DEF Text
    <2>3. r = [s \in Text |-> r[s]]
      OBVIOUS
    <2> HIDE DEF r, body
    <2> QED
      BY <1>4, <2>1, <2>2, <2>3
  <1> DEFINE c == CHOOSE q : q = body(q)
  <1> HIDE DEF r
  <1>7. c = body(c)
    <2> HIDE DEF body
    <2> QED
      BY <1>6
  <1>8. \A t : Replace(t, old, new) = c[t]
    BY DEF Replace
  <1>9. \A s \in Text : c[s] = Body(c, old, new, s)
    <2>1. \A s \in Text : body(c)[s] = Body(c, old, new, s)
      BY DEF Body, Text
    <2> HIDE DEF c, body
    <2> QED
      BY <1>7, <2>1
  <1>10. c \in [Text -> Text]
    <2> DEFINE P == {s \in Text : c[s] \in Text}
    <2>1. ASSUME NEW t \in Text, \A u \in Text : Len(u) < Len(t) => u \in P PROVE t \in P
      <3> HIDE DEF c
      <3>1. \A u \in Text : Len(u) < Len(t) => c[u] \in Text
        BY <2>1
      <3>2. Body(c, old, new, t) \in Text
        BY <3>1, BodyFacts
      <3> QED
        BY <1>9, <3>2
    <2>2. Text \subseteq P
      <3> HIDE DEF P
      <3> QED
        BY <2>1, TextInduction
    <2>3. c = [s \in Text |-> c[s]]
      <3>1. \A q : body(q) = [s \in Text |-> body(q)[s]]
        BY DEF Text
      <3> HIDE DEF c, body
      <3> QED
        BY <1>7, <3>1
    <2> HIDE DEF c
    <2> QED
      BY <2>2, <2>3
  <1> HIDE DEF c
  <1> QED
    BY <1>8, <1>9, <1>10

(* What str.replace makes of a text, by how the text begins.                *)
LEMMA ReplaceFacts ==
    ASSUME NEW old \in Text, old # <<>>, NEW new \in Text
    PROVE  /\ Replace(<<>>, old, new) = <<>>
           /\ \A t \in Text : Replace(t, old, new) \in Text
           /\ \A t \in Text : t # <<>> /\ OccursAt(old, 1, t) =>
                 Replace(t, old, new) = new \o Replace(From(t, Len(old) + 1), old, new)
           /\ \A t \in Text : t # <<>> /\ ~OccursAt(old, 1, t) =>
                 Replace(t, old, new) = <<Head(t)>> \o Replace(Tail(t), old, new)
  <1>1. PICK r \in [Text -> Text] :
              /\ \A s \in Text : r[s] = Body(r, old, new, s)
              /\ \A t \in Text : Replace(t, old, new) = r[t]
    BY ReplaceIsBody
  <1>2. <<>> \in Text
    BY DEF Text
  <1>3. Replace(<<>>, old, new) = <<>>
    BY <1>1, <1>2 DEF Body
  <1>4. ASSUME NEW t \in Text, t # <<>>, OccursAt(old, 1, t)
        PROVE  Replace(t, old, new) = new \o Replace(From(t, Len(old) + 1), old, new)
    <2>1. r[t] = new \o r[SubSeq(t, Len(old) + 1, Len(t))]
      BY <1>1, <1>4 DEF Body
    <2> QED
      BY <1>1, <1>4, <2>1, RestIsShorter
  <1>5. ASSUME NEW t \in Text, t # <<>>, ~OccursAt(old, 1, t)
        PROVE  Replace(t, old, new) = <<Head(t)>> \o Replace(Tail(t), old, new)
    <2>1. r[t] = <<Head(t)>> \o r[Tail(t)]
      BY <1>1, <1>5 DEF Body
    <2> QED
      BY <1>1, <1>5, <2>1, RestIsShorter
  <1> QED
    BY <1>1, <1>3, <1>4, <1>5

(* Putting texts together.                                                  *)
LEMMA ConcatText ==
    ASSUME NEW s \in Text, NEW t \in Text
    PROVE  /\ s \o t \in Text
           /\ Len(s \o t) = Len(s) + Len(t)
           /\ \A i \in 1..Len(s) : (s \o t)[i] = s[i]
           /\ \A i \in 1..Len(t) : (s \o t)[Len(s) + i] = t[i]
           /\ <<>> \o t = t /\ t \o <<>> = t
           /\ \A u \in Text : (s \o t) \o u = s \o (t \o u)
  <1>1. s \o t \in Text /\ Len(s \o t) = Len(s) + Len(t) /\ Len(s) \in Nat /\ Len(t) \in Nat
    BY ConcatProperties, LenProperties DEF Text
  <1>2. ASSUME NEW i \in 1..Len(s) PROVE (s \o t)[i] = s[i]
    BY <1>1, ConcatProperties DEF Text
  <1>3. ASSUME NEW i \in 1..Len(t) PROVE (s \o t)[Len(s) + i] = t[i]
    <2>1. Len(s) + i \in 1..(Len(s) + Len(t)) /\ ~(Len(s) + i <= Len(s)) /\ Len(s) + i - Len(s) = i
      BY <1>1
    <2> QED
      BY <2>1, ConcatProperties DEF Text
  <1>4. <<>> \o t = t /\ t \o <<>> = t
    BY ConcatEmptySeq DEF Text
  <1>5. \A u \in Text : (s \o t) \o u = s \o (t \o u)
    BY ConcatAssociative DEF Text
  <1> QED
    BY <1>1, <1>2, <1>3, <1>4, <1>5

LEMMA ConcatAssociates ==
    \A a, b, c \in Text : (a \o b) \o c = a \o (b \o c) /\ a \o b \in Text
  BY ConcatText, Zenon

(* A text with an atom in front.                                            *)
LEMMA ConsText ==
    ASSUME NEW a \in Atom, NEW q \in Text
    PROVE  /\ <<a>> \in Text /\ <<a>> # <<>> /\ Len(<<a>>) = 1
           /\ <<a>> \o q \in Text /\ <<a>> \o q # <<>>
           /\ Head(<<a>> \o q) = a /\ Tail(<<a>> \o q) = q
           /\ \A t \in Text : (<<a>> \o q) \o t = <<a>> \o (q \o t)
  <1>1. <<a>> \in Text /\ <<a>> # <<>> /\ Len(<<a>>) = 1 /\ <<a>>[1] = a
    BY DEF Text
  <1> DEFINE s == <<a>>
  <1> HIDE DEF s
  <1>2. s \in Text /\ s # <<>> /\ Len(s) = 1 /\ s[1] = a
    BY <1>1 DEF s
  <1>3. /\ s \o q \in Text /\ Len(s \o q) = 1 + Len(q) /\ Len(q) \in Nat
        /\ (s \o q)[1] = a /\ \A i \in 1..Len(q) : (s \o q)[1 + i] = q[i]
        /\ \A t \in Text : (s \o q) \o t = s \o (q \o t)
    <2>1. Len(q) \in Nat
      BY LenProperties DEF Text
    <2>2. s \o q \in Text /\ Len(s \o q) = Len(s) + Len(q)
      BY <1>2, ConcatText, Zenon
    <2>3. \A i \in 1..Len(s) : (s \o q)[i] = s[i]
      BY <1>2, ConcatText, Zenon
    <2>4. \A i \in 1..Len(q) : (s \o q)[Len(s) + i] = q[i]
      BY <1>2, ConcatText, Zenon
    <2>5. \A t \in Text : (s \o q) \o t = s \o (q \o t)
      BY <1>2, ConcatText, Zenon
    <2>6. (s \o q)[1] = a
      <3>1. 1 \in 1..Len(s)
        BY <1>2
      <3> QED
        BY <1>2, <2>3, <3>1, Zenon
    <2> QED
      BY <1>2, <2>1, <2>2, <2>4, <2>5, <2>6
  <1>4. s \o q # <<>>
    BY <1>3, EmptySeq
  <1>5. Head(s \o q) = a
    BY <1>3, <1>4, HeadAndTail
  <1>6. Tail(s \o q) \in Text /\ Len(Tail(s \o q)) = Len(q) /\ Tail(s \o q) = From(s \o q, 2)
    <2>1. Tail(s \o q) \in Text /\ Tail(s \o q) = From(s \o q, 2)
          /\ Len(Tail(s \o q)) = Len(s \o q) - 1
      BY <1>3, <1>4, HeadAndTail, Zenon
    <2> QED
      BY <1>3, <2>1
  <1>7. ASSUME NEW i \in 1..Len(q) PROVE Tail(s \o q)[i] = q[i]
    <2>1. 2 \in 1..(Len(s \o q) + 1) /\ i \in 1..(Len(s \o q) + 1 - 2) /\ 2 + i - 1 = 1 + i
      BY <1>3
    <2>2. From(s \o q, 2)[i] = (s \o q)[2 + i - 1]
      BY <1>3, <2>1, FromFacts
    <2> QED
      BY <1>3, <1>6, <2>1, <2>2
  <1>8. Tail(s \o q) = q
    BY <1>6, <1>7, SeqEqual DEF Text
  <1> QED
    BY <1>1, <1>3, <1>4, <1>5, <1>8 DEF s

LEMMA ConcatBegins ==
    ASSUME NEW s \in Text, s # <<>>, NEW t \in Text
    PROVE  s \o t # <<>> /\ Head(s \o t) = Head(s) /\ Tail(s \o t) = Tail(s) \o t
  <1>1. PICK a \in Atom, q \in Text : s = <<a>> \o q
    BY HeadAndTail
  <1>2. Head(s) = a /\ Tail(s) = q /\ s \o t = <<a>> \o (q \o t)
    BY <1>1, ConsText
  <1>3. q \o t \in Text
    BY ConcatText
  <1>4. <<a>> \o (q \o t) # <<>> /\ Head(<<a>> \o (q \o t)) = a /\ Tail(<<a>> \o (q \o t)) = q \o t
    BY <1>3, ConsText, Zenon
  <1> QED
    BY <1>2, <1>4, Zenon

(* Replacing one atom treats the atoms of a text one by one.                *)
LEMMA ReplaceAtomFirst ==
    ASSUME NEW x \in Atom, NEW new \in Text, NEW t \in Text, t # <<>>
    PROVE  Replace(t, <<x>>, new) =
              (IF Head(t) = x THEN new ELSE <<Head(t)>>) \o Replace(Tail(t), <<x>>, new)
  <1> DEFINE old == <<x>>
  <1>1. old \in Text /\ old # <<>> /\ Len(old) = 1 /\ old[1] = x
    BY DEF Text
  <1>2. Head(t) = t[1] /\ Len(t) >= 1 /\ Len(t) \in Nat /\ Tail(t) = From(t, 2)
    <2>1. Len(t) \in Nat
      BY LenProperties DEF Text
    <2> QED
      BY <2>1, HeadAndTail
  <1> HIDE DEF old
  <1>3. OccursAt(old, 1, t) <=> Head(t) = x
    BY <1>1, <1>2 DEF OccursAt
  <1>4. From(t, Len(old) + 1) = Tail(t)
    BY <1>1, <1>2
  <1>5. CASE Head(t) = x
    <2>1. Replace(t, old, new) = new \o Replace(Tail(t), old, new)
      <3>1. OccursAt(old, 1, t)
        BY <1>3, <1>5
      <3>2. Replace(t, old, new) = new \o Replace(From(t, Len(old) + 1), old, new)
        BY <1>1, <3>1, ReplaceFacts, Zenon
      <3> QED
        BY <1>4, <3>2, Zenon
    <2> QED
      BY <1>5, <2>1 DEF old
  <1>6. CASE Head(t) # x
    <2>1. Replace(t, old, new) = <<Head(t)>> \o Replace(Tail(t), old, new)
      BY <1>1, <1>3, <1>6, ReplaceFacts
    <2> QED
      BY <1>6, <2>1 DEF old
  <1> QED
    BY <1>5, <1>6

LEMMA ReplaceAtomOfAtom ==
    ASSUME NEW x \in Atom, NEW new \in Text, NEW a \in Atom
    PROVE  Replace(<<a>>, <<x>>, new) = IF a = x THEN new ELSE <<a>>
  <1>1. <<a>> \in Text /\ <<a>> # <<>> /\ Head(<<a>>) = a /\ Tail(<<a>>) = <<>>
    BY DEF Text
  <1>2. <<x>> \in Text /\ <<x>> # <<>>
    BY DEF Text
  <1>3. Replace(<<>>, <<x>>, new) = <<>>
    BY <1>2, ReplaceFacts
  <1> DEFINE h == IF a = x THEN new ELSE <<a>>
             t == <<a>>
  <1>4. h \in Text
    BY <1>1
  <1> HIDE DEF t
  <1>5. Replace(t, <<x>>, new) = (IF Head(t) = x THEN new ELSE <<Head(t)>>) \o Replace(Tail(t), <<x>>, new)
    BY <1>1, ReplaceAtomFirst DEF t
  <1>6. Replace(t, <<x>>, new) = h \o <<>>
    BY <1>1, <1>3, <1>5 DEF t
  <1>7. h \o <<>> = h
    <2> HIDE DEF h
    <2> QED
      BY <1>4, ConcatText
  <1> QED
    BY <1>6, <1>7 DEF t

LEMMA ReplaceAtomOfConcat ==
    ASSUME NEW x \in Atom, NEW new \in Text, NEW s \in Text, NEW t \in Text
    PROVE  Replace(s \o t, <<x>>, new) = Replace(s, <<x>>, new) \o Replace(t, <<x>>, new)
  <1> DEFINE R(q) == Replace(q, <<x>>, new)
             P == {q \in Text : R(q \o t) = R(q) \o R(t)}
  <1>1. <<x>> \in Text /\ <<x>> # <<>>
    BY DEF Text
  <1>2. R(<<>>) = <<>> /\ \A q \in Text : R(q) \in Text
    BY <1>1, ReplaceFacts
  <1>3. \A q \in Text : q # <<>> => R(q) = (IF Head(q) = x THEN new ELSE <<Head(q)>>) \o R(Tail(q))
    BY ReplaceAtomFirst
  <1> HIDE DEF R
  <1>4. ASSUME NEW q \in Text, \A u \in Text : Len(u) < Len(q) => u \in P PROVE q \in P
    <2>1. CASE q = <<>>
      <3>1. q \o t = t /\ R(q) \o R(t) = R(t)
        BY <1>2, <2>1, ConcatText
      <3> QED
        BY <3>1
    <2>2. CASE q # <<>>
      <3> DEFINE h == IF Head(q) = x THEN new ELSE <<Head(q)>>
      <3>1. Head(q) \in Atom /\ Tail(q) \in Text /\ Len(Tail(q)) < Len(q)
        BY <2>2, HeadAndTail DEF Text
      <3>2. h \in Text
        BY <3>1 DEF Text
      <3>3. R(Tail(q) \o t) = R(Tail(q)) \o R(t)
        BY <1>4, <3>1
      <3>4. q \o t \in Text /\ q \o t # <<>> /\ Head(q \o t) = Head(q) /\ Tail(q \o t) = Tail(q) \o t
        BY <2>2, ConcatBegins, ConcatText
      <3>5. R(q \o t) = h \o R(Tail(q) \o t)
        BY <1>3, <3>4
      <3>6. R(q) = h \o R(Tail(q))
        BY <1>3, <2>2
      <3> HIDE DEF h
      <3>7. (h \o R(Tail(q))) \o R(t) = h \o (R(Tail(q)) \o R(t))
        <4>1. R(Tail(q)) \in Text /\ R(t) \in Text
          BY <1>2, <3>1
        <4> QED
          BY <3>2, <4>1, ConcatAssociates, Zenon
      <3> QED
        BY <3>3, <3>5, <3>6, <3>7
    <2> QED
      BY <2>1, <2>2
  <1>5. Text \subseteq P
    <2> HIDE DEF P
    <2> QED
      BY <1>4, TextInduction
  <1> QED
    BY <1>5 DEF R

-----------------------------------------------------------------------------
(* A value of S changed N times in a row: f lists what it is in turn.       *)
Chained(f, N, S, x0, F) ==
    f \in [0..N -> S] /\ f[0] = x0 /\ \A n \in 1..N : f[n] = F[n][f[n - 1]]

LEMMA Chain ==
    ASSUME NEW N \in Nat, NEW S, NEW x0 \in S, NEW F,
           \A n \in 1..N : \A x \in S : F[n][x] \in S
    PROVE  \E f : Chained(f, N, S, x0, F)
  <1> DEFINE P == {m \in 0..N : \E f \in [0..m -> S] :
                                   f[0] = x0 /\ \A n \in 1..m : f[n] = F[n][f[n - 1]]}
  <1>1. 0 \in P
    <2> DEFINE f == [n \in 0..0 |-> x0]
    <2>1. f \in [0..0 -> S] /\ f[0] = x0 /\ \A n \in 1..0 : f[n] = F[n][f[n - 1]]
      OBVIOUS
    <2> HIDE DEF f
    <2> QED
      BY <2>1
  <1>2. ASSUME NEW m \in 1..N, m - 1 \in P PROVE m \in P
    <2>1. PICK f \in [0..(m - 1) -> S] :
             f[0] = x0 /\ \A n \in 1..(m - 1) : f[n] = F[n][f[n - 1]]
      BY <1>2
    <2> DEFINE g == [n \in 0..m |-> IF n = m THEN F[m][f[m - 1]] ELSE f[n]]
    <2>2. g \in [0..m -> S] /\ g[0] = x0
      BY <2>1
    <2>3. ASSUME NEW n \in 1..m PROVE g[n] = F[n][g[n - 1]]
      <3>1. g[n - 1] = f[n - 1]
        OBVIOUS
      <3>2. CASE n = m
        BY <3>1, <3>2
      <3>3. CASE n # m
        <4>1. n \in 1..(m - 1) /\ g[n] = f[n]
          BY <3>3
        <4> HIDE DEF g
        <4> QED
          BY <2>1, <3>1, <4>1
      <3> QED
        BY <3>2, <3>3
    <2> HIDE DEF g
    <2> QED
      BY <2>2, <2>3
  <1>3. 0..N \subseteq P
    <2> HIDE DEF P
    <2> QED
      BY <1>1, <1>2, CountUp
  <1> QED
    BY <1>3 DEF Chained

-----------------------------------------------------------------------------
(* The type of a vault.  A value holds tokens of earlier entries only.      *)
Labels == {"sensitive", "secret", "shaped", "direct"}

Entries == [label : Labels, raw : Text \ {<<>>}]

\* The atoms of a text when k tokens were issued.
Issued(k) == Ordinary \cup 1..k

Over(t, k) == \A i \in DOMAIN t : t[i] \in Issued(k)

Vaults ==
    {v \in Seq(Entries) :
        /\ \A i \in 1..Len(v) : Over(v[i].raw, i - 1)
        /\ \A i, j \in 1..Len(v) : v[i] = v[j] => i = j}

LEMMA AtomFacts ==
    /\ \A a \in Ordinary : a \in Atom /\ a \notin Nat /\ a \notin Tokens
    /\ \A i \in Nat : i # 0 => i \in Tokens /\ i \in Atom
    /\ \A k \in Nat : Issued(k) \subseteq Atom
  BY AtomAssumption DEF Atom, Tokens, Issued

LEMMA VaultFacts ==
    ASSUME NEW v \in Vaults
    PROVE  /\ Len(v) \in Nat /\ DOMAIN v = 1..Len(v)
           /\ \A i \in 1..Len(v) :
                 /\ v[i] \in Entries
                 /\ v[i].raw \in Text /\ v[i].raw # <<>> /\ Over(v[i].raw, i - 1)
                 /\ i \in Tokens /\ i \in Atom /\ <<i>> \in Text /\ <<i>> # <<>>
  <1>1. v \in Seq(Entries) /\ \A i \in 1..Len(v) : Over(v[i].raw, i - 1)
    BY DEF Vaults
  <1>2. Len(v) \in Nat /\ DOMAIN v = 1..Len(v) /\ \A i \in 1..Len(v) : v[i] \in Entries
    BY <1>1
  <1>3. ASSUME NEW i \in 1..Len(v)
        PROVE  i \in Tokens /\ i \in Atom /\ <<i>> \in Text /\ <<i>> # <<>>
    <2>1. i \in Tokens /\ i \in Atom
      BY <1>2, AtomFacts
    <2> QED
      BY <2>1 DEF Text
  <1> QED
    BY <1>1, <1>2, <1>3 DEF Entries

(* The tokens replaced one after the other: f lists what becomes of t.      *)
Restoring(f, v, t, order) ==
    /\ f \in [0..Len(v) -> Text]
    /\ f[0] = t
    /\ f[Len(v)] = RestoreInOrder(v, t, order)
    /\ \A n \in 1..Len(v) : f[n] = Restore(v, f[n - 1], order[n])

LEMMA RestoreSteps ==
    ASSUME NEW v \in Vaults, NEW t \in Text, NEW order \in [1..Len(v) -> 1..Len(v)]
    PROVE  \E f : Restoring(f, v, t, order)
  <1> DEFINE N == Len(v)
             F == [n \in 1..N |-> [x \in Text |-> Restore(v, x, order[n])]]
             body(f) == [n \in 0..N |-> IF n = 0 THEN t ELSE Restore(v, f[n - 1], order[n])]
             c == CHOOSE f : f = body(f)
  <1>1. N \in Nat
    BY VaultFacts
  <1>2. ASSUME NEW n \in 1..N, NEW x \in Text
        PROVE  F[n][x] = Restore(v, x, order[n]) /\ F[n][x] \in Text
    <2>1. order[n] \in 1..N
      OBVIOUS
    <2>2. Restore(v, x, order[n]) \in Text
      <3> DEFINE i == order[n]
      <3>1. <<i>> \in Text /\ <<i>> # <<>> /\ v[i].raw \in Text
        BY <2>1, VaultFacts
      <3> HIDE DEF i
      <3>2. Replace(x, <<i>>, v[i].raw) \in Text
        BY <3>1, ReplaceFacts, Zenon
      <3> QED
        BY <3>2 DEF Restore, i
    <2> QED
      BY <2>2
  <1> HIDE DEF F
  <1>3. PICK f : Chained(f, N, Text, t, F)
    <2> HIDE DEF N
    <2>1. \A n \in 1..N : \A x \in Text : F[n][x] \in Text
      BY <1>2
    <2> QED
      BY <1>1, <2>1, Chain
  <1>4. f = body(f)
    <2>1. f \in [0..N -> Text] /\ f[0] = t /\ \A n \in 1..N : f[n] = F[n][f[n - 1]]
      BY <1>3 DEF Chained
    <2>2. \A n \in 0..N : f[n] = IF n = 0 THEN t ELSE Restore(v, f[n - 1], order[n])
      BY <1>1, <1>2, <2>1
    <2>3. f = [n \in 0..N |-> f[n]]
      BY <2>1
    <2> QED
      BY <2>2, <2>3
  <1>5. c = body(c)
    <2> HIDE DEF body
    <2> QED
      BY <1>4
  <1>6. c[N] = RestoreInOrder(v, t, order)
    BY DEF RestoreInOrder
  <1> HIDE DEF c
  <1>7. c[0] = t /\ \A n \in 1..N : c[n] = Restore(v, c[n - 1], order[n])
    BY <1>1, <1>5
  <1>8. c = [n \in 0..N |-> c[n]]
    <2>1. DOMAIN body(c) = 0..N /\ body(c) = [n \in 0..N |-> body(c)[n]]
      OBVIOUS
    <2> HIDE DEF body
    <2> QED
      BY <1>5, <2>1
  <1>9. 0..N \subseteq {n \in 0..N : c[n] \in Text}
    <2> DEFINE P == {n \in 0..N : c[n] \in Text}
    <2>1. 0 \in P
      BY <1>1, <1>7
    <2>2. \A n \in 1..N : n - 1 \in P => n \in P
      BY <1>1, <1>2, <1>7
    <2> HIDE DEF P
    <2>3. 0..N \subseteq P
      BY <1>1, <2>1, <2>2, CountUp
    <2> QED
      BY <2>3 DEF P
  <1>10. c \in [0..N -> Text]
    BY <1>8, <1>9
  <1> QED
    BY <1>6, <1>7, <1>10 DEF Restoring

-----------------------------------------------------------------------------
(* A text over some atoms: its rest, and its first atom.                    *)
LEMMA RestOver ==
    ASSUME NEW t \in Text, t # <<>>, NEW A, \A i \in DOMAIN t : t[i] \in A
    PROVE  Head(t) \in A /\ \A i \in DOMAIN Tail(t) : Tail(t)[i] \in A
  <1>1. Head(t) = t[1] /\ Tail(t) = From(t, 2) /\ Len(t) >= 1 /\ Tail(t) \in Text
        /\ Len(Tail(t)) = Len(t) - 1
    BY HeadAndTail
  <1>2. Len(t) \in Nat /\ DOMAIN t = 1..Len(t) /\ DOMAIN Tail(t) = 1..Len(Tail(t))
    BY <1>1, LenProperties DEF Text
  <1>3. \A i \in 1..(Len(t) + 1 - 2) : From(t, 2)[i] = t[2 + i - 1]
    <2>1. 2 \in 1..(Len(t) + 1)
      BY <1>1, <1>2
    <2> QED
      BY <2>1, FromFacts
  <1>4. ASSUME NEW i \in DOMAIN Tail(t) PROVE Tail(t)[i] \in A
    <2>1. i \in 1..(Len(t) + 1 - 2) /\ 2 + i - 1 \in DOMAIN t
      BY <1>1, <1>2
    <2> QED
      BY <1>1, <1>3, <2>1
  <1> QED
    BY <1>1, <1>2, <1>4

(* A replacement of an atom that a text does not have leaves the text.      *)
LEMMA ReplaceAbsent ==
    ASSUME NEW x \in Atom, NEW new \in Text
    PROVE  \A t \in Text : (\A i \in DOMAIN t : t[i] # x) => Replace(t, <<x>>, new) = t
  <1> DEFINE R(q) == Replace(q, <<x>>, new)
             P == {q \in Text : (\A i \in DOMAIN q : q[i] # x) => R(q) = q}
  <1>1. <<x>> \in Text /\ <<x>> # <<>>
    BY DEF Text
  <1>2. R(<<>>) = <<>>
    BY <1>1, ReplaceFacts
  <1>3. \A q \in Text : q # <<>> => R(q) = (IF Head(q) = x THEN new ELSE <<Head(q)>>) \o R(Tail(q))
    BY ReplaceAtomFirst
  <1> HIDE DEF R
  <1>4. ASSUME NEW q \in Text, \A u \in Text : Len(u) < Len(q) => u \in P PROVE q \in P
    <2> SUFFICES ASSUME \A i \in DOMAIN q : q[i] # x, q # <<>> PROVE R(q) = q
      BY <1>2
    <2>1. Head(q) # x /\ \A i \in DOMAIN Tail(q) : Tail(q)[i] # x
      <3>1. \A i \in DOMAIN q : q[i] \in Atom \ {x}
        BY DEF Text
      <3>2. Head(q) \in Atom \ {x} /\ \A i \in DOMAIN Tail(q) : Tail(q)[i] \in Atom \ {x}
        BY <3>1, RestOver, Zenon
      <3> QED
        BY <3>2
    <2>2. Tail(q) \in Text /\ Len(Tail(q)) < Len(q) /\ q = <<Head(q)>> \o Tail(q)
      BY RestIsShorter, HeadAndTail, <1>1
    <2>3. R(Tail(q)) = Tail(q)
      BY <1>4, <2>1, <2>2
    <2>4. R(q) = <<Head(q)>> \o R(Tail(q))
      BY <1>3, <2>1
    <2> QED
      BY <2>2, <2>3, <2>4
  <1>5. Text \subseteq P
    <2> HIDE DEF P
    <2> QED
      BY <1>4, TextInduction
  <1> QED
    BY <1>5 DEF R

-----------------------------------------------------------------------------
(* Functions on texts that treat the parts of a text one by one.            *)
Hom(H) ==
    /\ H \in [Text -> Text]
    /\ H[<<>>] = <<>>
    /\ \A s, t \in Text : H[s \o t] = H[s] \o H[t]

LEMMA OccursSplit ==
    ASSUME NEW old \in Text, old # <<>>, NEW t \in Text, t # <<>>, OccursAt(old, 1, t)
    PROVE  t = old \o From(t, Len(old) + 1)
  <1> DEFINE k == Len(old)
             q == From(t, k + 1)
  <1>1. k \in Nat /\ Len(t) \in Nat /\ k + 1 \in 1..(Len(t) + 1)
    BY RestIsShorter, LenProperties DEF Text
  <1>2. q \in Text /\ Len(q) = Len(t) - k /\ \A i \in 1..(Len(t) - k) : q[i] = t[k + i]
    <2>1. /\ q \in Text /\ Len(q) = Len(t) + 1 - (k + 1)
          /\ \A i \in 1..(Len(t) + 1 - (k + 1)) : q[i] = t[(k + 1) + i - 1]
      BY <1>1, FromFacts, Zenon
    <2>2. Len(t) + 1 - (k + 1) = Len(t) - k
      BY <1>1
    <2>3. \A i \in 1..(Len(t) - k) : (k + 1) + i - 1 = k + i
      BY <1>1
    <2> HIDE DEF q, k
    <2> QED
      BY <2>1, <2>2, <2>3
  <1>3. \A i \in 1..k : t[i] = old[i]
    BY <1>1 DEF OccursAt
  <1> HIDE DEF q
  <1>4. old \o q \in Text /\ Len(old \o q) = k + Len(q)
    BY <1>2, ConcatText, Zenon
  <1>5. \A i \in 1..k : (old \o q)[i] = old[i]
    BY <1>2, ConcatText, Zenon
  <1>6. \A i \in 1..Len(q) : (old \o q)[k + i] = q[i]
    BY <1>2, ConcatText, Zenon
  <1>7. ASSUME NEW i \in 1..Len(t) PROVE (old \o q)[i] = t[i]
    <2>1. CASE i <= k
      BY <1>1, <1>3, <1>5, <2>1
    <2>2. CASE ~(i <= k)
      <3>1. i - k \in 1..Len(q) /\ k + (i - k) = i
        BY <1>1, <1>2, <2>2
      <3>2. (old \o q)[k + (i - k)] = t[k + (i - k)]
        BY <1>2, <1>6, <3>1
      <3> QED
        BY <3>1, <3>2
    <2> QED
      BY <2>1, <2>2
  <1>8. Len(old \o q) = Len(t)
    BY <1>1, <1>2, <1>4
  <1>9. old \o q = t
    BY <1>4, <1>7, <1>8, SeqEqual DEF Text
  <1> QED
    BY <1>9 DEF q

(* What such a function does not tell from the value it replaces may be put *)
(* in its place.                                                            *)
LEMMA HomReplace ==
    ASSUME NEW H, Hom(H), NEW old \in Text, old # <<>>, NEW new \in Text, H[old] = H[new]
    PROVE  \A t \in Text : H[Replace(t, old, new)] = H[t]
  <1> DEFINE R(q) == Replace(q, old, new)
             P == {q \in Text : H[R(q)] = H[q]}
  <1>1. /\ R(<<>>) = <<>> /\ \A q \in Text : R(q) \in Text
        /\ \A q \in Text : q # <<>> /\ OccursAt(old, 1, q) => R(q) = new \o R(From(q, Len(old) + 1))
        /\ \A q \in Text : q # <<>> /\ ~OccursAt(old, 1, q) => R(q) = <<Head(q)>> \o R(Tail(q))
    BY ReplaceFacts
  <1> HIDE DEF R
  <1>2. ASSUME NEW q \in Text, \A u \in Text : Len(u) < Len(q) => u \in P PROVE q \in P
    <2>1. CASE q = <<>>
      BY <1>1, <2>1
    <2>2. CASE q # <<>> /\ OccursAt(old, 1, q)
      <3> DEFINE u == From(q, Len(old) + 1)
      <3>1. u \in Text /\ Len(u) < Len(q)
        BY <2>2, RestIsShorter
      <3>2. q = old \o u
        BY <2>2, OccursSplit
      <3>3. R(q) = new \o R(u)
        BY <1>1, <2>2
      <3> HIDE DEF u
      <3>4. H[R(u)] = H[u] /\ R(u) \in Text
        BY <1>1, <1>2, <3>1
      <3>5. H[q] = H[old] \o H[u]
        BY <3>1, <3>2 DEF Hom
      <3>6. H[R(q)] = H[new] \o H[R(u)]
        BY <3>3, <3>4 DEF Hom
      <3> QED
        BY <3>4, <3>5, <3>6
    <2>3. CASE q # <<>> /\ ~OccursAt(old, 1, q)
      <3> DEFINE u == Tail(q)
                 h == <<Head(q)>>
      <3>1. u \in Text /\ Len(u) < Len(q) /\ q = h \o u /\ Head(q) \in Atom
        BY <2>3, RestIsShorter, HeadAndTail
      <3>2. h \in Text
        BY <3>1 DEF Text
      <3>3. R(q) = h \o R(u)
        BY <1>1, <2>3
      <3> HIDE DEF u, h
      <3>4. H[R(u)] = H[u] /\ R(u) \in Text
        BY <1>1, <1>2, <3>1
      <3>5. H[q] = H[h] \o H[u]
        BY <3>1, <3>2 DEF Hom
      <3>6. H[R(q)] = H[h] \o H[R(u)]
        BY <3>2, <3>3, <3>4 DEF Hom
      <3> QED
        BY <3>4, <3>5, <3>6
    <2> QED
      BY <2>1, <2>2, <2>3
  <1>3. Text \subseteq P
    <2> HIDE DEF P
    <2> QED
      BY <1>2, TextInduction
  <1> QED
    BY <1>3 DEF R

(* Two of them that agree on the atoms of a text agree on the text.         *)
LEMMA HomEqual ==
    ASSUME NEW G, Hom(G), NEW H, Hom(H), NEW A \in SUBSET Atom,
           \A a \in A : G[<<a>>] = H[<<a>>]
    PROVE  \A t \in Text : (\A i \in DOMAIN t : t[i] \in A) => G[t] = H[t]
  <1> DEFINE P == {q \in Text : (\A i \in DOMAIN q : q[i] \in A) => G[q] = H[q]}
  <1>1. ASSUME NEW q \in Text, \A u \in Text : Len(u) < Len(q) => u \in P PROVE q \in P
    <2> SUFFICES ASSUME \A i \in DOMAIN q : q[i] \in A, q # <<>> PROVE G[q] = H[q]
      BY DEF Hom
    <2> DEFINE u == Tail(q)
               h == <<Head(q)>>
    <2>1. u \in Text /\ Len(u) < Len(q) /\ q = h \o u /\ Head(q) \in Atom
      <3>1. u \in Text /\ Len(u) = Len(q) - 1 /\ q = h \o u /\ Head(q) \in Atom
        BY HeadAndTail
      <3> QED
        BY <3>1, LenProperties DEF Text
    <2>2. Head(q) \in A /\ \A i \in DOMAIN u : u[i] \in A
      BY RestOver, Zenon
    <2>3. h \in Text
      BY <2>1 DEF Text
    <2>4. G[u] = H[u] /\ G[h] = H[h]
      BY <1>1, <2>1, <2>2
    <2> HIDE DEF u, h
    <2>5. G[h \o u] = G[h] \o G[u]
      BY <2>1, <2>3 DEF Hom
    <2>6. H[h \o u] = H[h] \o H[u]
      BY <2>1, <2>3 DEF Hom
    <2>7. G[h \o u] = H[h \o u]
      BY <2>4, <2>5, <2>6
    <2> QED
      BY <2>1, <2>7
  <1>2. Text \subseteq P
    <2> HIDE DEF P
    <2> QED
      BY <1>1, TextInduction
  <1> QED
    BY <1>2

LEMMA HomIdentity == Hom([t \in Text |-> t])
  <1>1. <<>> \in Text /\ \A s, t \in Text : s \o t \in Text
    BY ConcatText DEF Text
  <1> QED
    BY <1>1 DEF Hom

-----------------------------------------------------------------------------
(* Putting the values back, in any order of the tokens.                     *)
RestoreMap(v, order) == [t \in Text |-> RestoreInOrder(v, t, order)]

\* One token put back.
LEMMA RestoreFacts ==
    ASSUME NEW v \in Vaults, NEW i \in 1..Len(v)
    PROVE  /\ \A t \in Text : Restore(v, t, i) \in Text
           /\ \A s, t \in Text : Restore(v, s \o t, i) = Restore(v, s, i) \o Restore(v, t, i)
           /\ \A t \in Text : (\A k \in DOMAIN t : t[k] # i) => Restore(v, t, i) = t
           /\ Restore(v, <<i>>, i) = v[i].raw
           /\ \A a \in Atom : a # i => Restore(v, <<a>>, i) = <<a>>
  <1>1. i \in Atom /\ <<i>> \in Text /\ <<i>> # <<>> /\ v[i].raw \in Text
    BY VaultFacts
  <1>2. \A t \in Text : Restore(v, t, i) \in Text
    BY <1>1, ReplaceFacts DEF Restore
  <1>3. \A s, t \in Text : Restore(v, s \o t, i) = Restore(v, s, i) \o Restore(v, t, i)
    BY <1>1, ReplaceAtomOfConcat, Zenon DEF Restore
  <1>4. \A t \in Text : (\A k \in DOMAIN t : t[k] # i) => Restore(v, t, i) = t
    BY <1>1, ReplaceAbsent, Zenon DEF Restore
  <1>5. Restore(v, <<i>>, i) = v[i].raw /\ \A a \in Atom : a # i => Restore(v, <<a>>, i) = <<a>>
    BY <1>1, ReplaceAtomOfAtom DEF Restore
  <1> QED
    BY <1>2, <1>3, <1>4, <1>5

LEMMA RestoreOfConcat ==
    ASSUME NEW v \in Vaults, NEW i \in 1..Len(v), NEW s \in Text, NEW t \in Text
    PROVE  Restore(v, s \o t, i) = Restore(v, s, i) \o Restore(v, t, i)
  <1>1. i \in Atom /\ v[i].raw \in Text
    BY VaultFacts, Zenon
  <1> QED
    BY <1>1, ReplaceAtomOfConcat, Zenon DEF Restore

LEMMA RestoreOfAbsent ==
    ASSUME NEW v \in Vaults, NEW i \in 1..Len(v), NEW t \in Text,
           \A k \in DOMAIN t : t[k] # i
    PROVE  Restore(v, t, i) = t
  BY RestoreFacts, Zenon

LEMMA RestoreHom ==
    ASSUME NEW v \in Vaults, NEW order \in [1..Len(v) -> 1..Len(v)]
    PROVE  Hom(RestoreMap(v, order))
  <1> DEFINE N == Len(v)
             H == RestoreMap(v, order)
  <1>1. N \in Nat
    BY VaultFacts
  <1>2. ASSUME NEW t \in Text PROVE H[t] = RestoreInOrder(v, t, order) /\ H[t] \in Text
    <2>1. PICK f : Restoring(f, v, t, order)
      BY RestoreSteps
    <2>2. RestoreInOrder(v, t, order) \in Text
      BY <1>1, <2>1 DEF Restoring
    <2> QED
      BY <2>2 DEF RestoreMap
  <1>3. ASSUME NEW s \in Text, NEW t \in Text PROVE H[s \o t] = H[s] \o H[t]
    <2> DEFINE q == s \o t
    <2>1. q \in Text
      BY ConcatText
    <2>2. PICK f : Restoring(f, v, s, order)
      BY RestoreSteps, Zenon
    <2>3. PICK g : Restoring(g, v, t, order)
      BY RestoreSteps, Zenon
    <2> HIDE DEF q
    <2>4. PICK h : Restoring(h, v, q, order)
      BY <2>1, RestoreSteps, Zenon
    <2> DEFINE P == {n \in 0..N : h[n] = f[n] \o g[n]}
    <2>5. 0 \in P
      BY <1>1, <2>2, <2>3, <2>4 DEF q, Restoring
    <2>6. ASSUME NEW n \in 1..N, n - 1 \in P PROVE n \in P
      <3> DEFINE x == f[n - 1]
                 y == g[n - 1]
                 i == order[n]
      <3>1. x \in Text /\ y \in Text /\ i \in 1..N /\ n \in 0..N
        BY <1>1, <2>2, <2>3 DEF Restoring
      <3>2. h[n - 1] = x \o y
        BY <2>6
      <3>3. h[n] = Restore(v, x \o y, i) /\ f[n] = Restore(v, x, i) /\ g[n] = Restore(v, y, i)
        BY <2>2, <2>3, <2>4, <3>2 DEF Restoring
      <3> HIDE DEF x, y, i
      <3>4. Restore(v, x \o y, i) = Restore(v, x, i) \o Restore(v, y, i)
        BY <3>1, RestoreOfConcat, Zenon
      <3> QED
        BY <3>1, <3>3, <3>4
    <2>7. 0..N \subseteq P
      <3> HIDE DEF P
      <3> QED
        BY <1>1, <2>5, <2>6, CountUp
    <2>8. h[N] = f[N] \o g[N]
      <3>1. N \in P
        <4> HIDE DEF P
        <4> QED
          BY <1>1, <2>7
      <3> QED
        BY <3>1
    <2>9. H[q] = h[N] /\ H[s] = f[N] /\ H[t] = g[N]
      BY <1>2, <2>1, <2>2, <2>3, <2>4 DEF Restoring
    <2> QED
      BY <2>8, <2>9 DEF q
  <1>4. <<>> \in Text /\ H[<<>>] = <<>>
    <2> DEFINE e == <<>>
    <2>1. e \in Text /\ \A k \in DOMAIN e : FALSE
      BY DEF Text
    <2>2. PICK f : Restoring(f, v, e, order)
      <3> HIDE DEF e
      <3> QED
        BY <2>1, RestoreSteps, Zenon
    <2> HIDE DEF e
    <2> DEFINE P == {n \in 0..N : f[n] = e}
    <2>3. 0 \in P
      BY <1>1, <2>2 DEF Restoring
    <2>4. ASSUME NEW n \in 1..N, n - 1 \in P PROVE n \in P
      <3>1. f[n] = Restore(v, e, order[n]) /\ order[n] \in 1..N
        BY <2>2, <2>4 DEF Restoring
      <3>2. Restore(v, e, order[n]) = e
        BY <2>1, <3>1, RestoreFacts
      <3> QED
        BY <3>1, <3>2
    <2>5. 0..N \subseteq P
      <3> HIDE DEF P
      <3> QED
        BY <1>1, <2>3, <2>4, CountUp
    <2>6. f[N] = e
      BY <1>1, <2>5
    <2>7. e \in Text /\ H[e] = e
      BY <1>2, <2>1, <2>2, <2>6 DEF Restoring
    <2> QED
      BY <2>7 DEF e
  <1>5. H \in [Text -> Text]
    <2>1. H = [t \in Text |-> H[t]]
      BY DEF RestoreMap
    <2> HIDE DEF H
    <2> QED
      BY <1>2, <2>1
  <1> HIDE DEF H
  <1>6. Hom(H)
    BY <1>3, <1>4, <1>5 DEF Hom
  <1> QED
    BY <1>6 DEF H

(* A text without tokens of the vault stays.                                *)
LEMMA RestoreLeaves ==
    ASSUME NEW v \in Vaults, NEW order \in [1..Len(v) -> 1..Len(v)],
           NEW t \in Text, \A i \in 1..Len(v) : \A k \in DOMAIN t : t[k] # i
    PROVE  RestoreInOrder(v, t, order) = t
  <1> DEFINE N == Len(v)
  <1>1. N \in Nat
    BY VaultFacts
  <1>2. PICK f : Restoring(f, v, t, order)
    BY RestoreSteps, Zenon
  <1> DEFINE P == {n \in 0..N : f[n] = t}
  <1>3. 0 \in P
    BY <1>1, <1>2 DEF Restoring
  <1>4. ASSUME NEW n \in 1..N, n - 1 \in P PROVE n \in P
    <2>1. f[n] = Restore(v, t, order[n]) /\ order[n] \in 1..N
      BY <1>2, <1>4 DEF Restoring
    <2>2. Restore(v, t, order[n]) = t
      BY <2>1, RestoreFacts
    <2> QED
      BY <2>1, <2>2
  <1>5. 0..N \subseteq P
    <2> HIDE DEF P
    <2> QED
      BY <1>1, <1>3, <1>4, CountUp
  <1> QED
    BY <1>1, <1>2, <1>5 DEF Restoring

(* A token becomes what its value becomes, if no token of the value has its *)
(* turn before that of the token.                                           *)
LEMMA RestoreOfToken ==
    ASSUME NEW v \in Vaults, NEW order \in [1..Len(v) -> 1..Len(v)],
           NEW m \in 1..Len(v), NEW i \in 1..Len(v), order[m] = i,
           \A n \in 1..(m - 1) : order[n] # i,
           \A n \in 1..m : \A k \in DOMAIN v[i].raw : v[i].raw[k] # order[n]
    PROVE  RestoreInOrder(v, <<i>>, order) = RestoreInOrder(v, v[i].raw, order)
  <1> DEFINE N == Len(v)
             tok == <<i>>
             raw == v[i].raw
  <1>1. N \in Nat /\ tok \in Text /\ raw \in Text /\ i \in Atom
    BY VaultFacts
  <1>2. ASSUME NEW j \in 1..N
        PROVE  (j # i => Restore(v, tok, j) = tok) /\ (j = i => Restore(v, tok, j) = raw)
    <2>1. Restore(v, <<j>>, j) = v[j].raw /\ \A a \in Atom : a # j => Restore(v, <<a>>, j) = <<a>>
      BY RestoreFacts, Zenon
    <2> QED
      BY <1>1, <2>1
  <1> HIDE DEF tok
  <1>3. PICK f : Restoring(f, v, tok, order)
    BY <1>1, RestoreSteps, Zenon
  <1>4. PICK g : Restoring(g, v, raw, order)
    BY <1>1, RestoreSteps, Zenon
  <1>5. \A n \in 1..m : Restore(v, raw, order[n]) = raw
    <2> SUFFICES ASSUME NEW n \in 1..m PROVE Restore(v, raw, order[n]) = raw
      OBVIOUS
    <2>1. order[n] \in 1..N /\ \A k \in DOMAIN raw : raw[k] # order[n]
      BY <1>1
    <2> HIDE DEF raw
    <2> QED
      BY <1>1, <2>1, RestoreOfAbsent, Zenon
  <1> HIDE DEF raw
  <1> DEFINE P == {n \in 0..N : IF n < m THEN f[n] = tok /\ g[n] = raw ELSE f[n] = g[n]}
  <1>6. 0 \in P
    BY <1>1, <1>3, <1>4 DEF Restoring
  <1>7. ASSUME NEW n \in 1..N, n - 1 \in P PROVE n \in P
    <2>1. f[n] = Restore(v, f[n - 1], order[n]) /\ g[n] = Restore(v, g[n - 1], order[n])
          /\ order[n] \in 1..N
      BY <1>3, <1>4 DEF Restoring
    <2>2. CASE n < m
      <3>1. n - 1 < m /\ n \in 1..(m - 1) /\ n \in 1..m
        BY <1>1, <2>2
      <3>2. f[n - 1] = tok /\ g[n - 1] = raw
        BY <1>7, <3>1
      <3>3. f[n] = tok
        BY <1>2, <2>1, <3>1, <3>2
      <3>4. g[n] = raw
        BY <1>5, <2>1, <3>1, <3>2
      <3> QED
        BY <2>2, <3>3, <3>4
    <2>3. CASE n = m
      <3>1. n - 1 < m /\ n \in 1..m /\ ~(n < m)
        BY <1>1, <2>3
      <3>2. f[n - 1] = tok /\ g[n - 1] = raw
        BY <1>7, <3>1
      <3>3. f[n] = raw
        BY <1>2, <2>1, <2>3, <3>2
      <3>4. g[n] = raw
        BY <1>5, <2>1, <3>1, <3>2
      <3> QED
        BY <3>1, <3>3, <3>4
    <2>4. CASE n > m
      <3>1. ~(n - 1 < m) /\ ~(n < m)
        BY <1>1, <2>4
      <3>2. f[n - 1] = g[n - 1]
        BY <1>7, <3>1
      <3> QED
        BY <2>1, <3>1, <3>2
    <2> QED
      BY <1>1, <2>2, <2>3, <2>4
  <1>8. 0..N \subseteq P
    <2> HIDE DEF P
    <2> QED
      BY <1>1, <1>6, <1>7, CountUp
  <1>9. f[N] = g[N]
    BY <1>1, <1>8
  <1> QED
    BY <1>3, <1>4, <1>9 DEF tok, raw, Restoring

(* With the latest token first, every token becomes what its value becomes. *)
Latest(v) == [n \in DOMAIN v |-> Len(v) + 1 - n]

LEMMA ResolvedFacts ==
    ASSUME NEW v \in Vaults
    PROVE  /\ Latest(v) \in [1..Len(v) -> 1..Len(v)]
           /\ \A t : Resolved(v, t) = RestoreInOrder(v, t, Latest(v))
           /\ Hom(RestoreMap(v, Latest(v)))
           /\ \A t \in Text : RestoreMap(v, Latest(v))[t] = Resolved(v, t)
           /\ \A i \in 1..Len(v) : Resolved(v, <<i>>) = Resolved(v, v[i].raw)
  <1> DEFINE N == Len(v)
  <1>1. N \in Nat /\ DOMAIN v = 1..N
    BY VaultFacts
  <1>2. Latest(v) \in [1..N -> 1..N]
    BY <1>1 DEF Latest
  <1>3. \A t : Resolved(v, t) = RestoreInOrder(v, t, Latest(v))
    BY DEF Resolved, Latest
  <1>4. \A n \in 1..N : Latest(v)[n] = N + 1 - n
    BY <1>1 DEF Latest
  <1>5. ASSUME NEW i \in 1..N PROVE Resolved(v, <<i>>) = Resolved(v, v[i].raw)
    <2> DEFINE m == N + 1 - i
    <2>1. m \in 1..N /\ Latest(v)[m] = i
      BY <1>1, <1>4
    <2>2. \A n \in 1..(m - 1) : Latest(v)[n] # i
      BY <1>1, <1>4
    <2>3. ASSUME NEW n \in 1..m, NEW k \in DOMAIN v[i].raw PROVE v[i].raw[k] # Latest(v)[n]
      <3>1. v[i].raw[k] \in Issued(i - 1)
        BY VaultFacts DEF Over
      <3>2. Latest(v)[n] \in Nat /\ Latest(v)[n] >= i
        BY <1>1, <1>4
      <3>3. CASE v[i].raw[k] \in Ordinary
        BY <3>2, <3>3, AtomFacts
      <3>4. CASE v[i].raw[k] \in 1..(i - 1)
        BY <1>1, <3>2, <3>4
      <3> QED
        BY <3>1, <3>3, <3>4 DEF Issued
    <2> HIDE DEF m
    <2>4. RestoreInOrder(v, <<i>>, Latest(v)) = RestoreInOrder(v, v[i].raw, Latest(v))
      BY <1>2, <2>1, <2>2, <2>3, RestoreOfToken, Zenon
    <2> QED
      BY <1>3, <2>4
  <1>6. Hom(RestoreMap(v, Latest(v)))
    BY <1>2, RestoreHom
  <1> QED
    BY <1>2, <1>3, <1>5, <1>6 DEF RestoreMap

-----------------------------------------------------------------------------
(* The widest first: every position has its turn, and one that precedes     *)
(* another has it earlier.                                                  *)
LEMMA PrecedesOrders ==
    ASSUME NEW N \in Nat, NEW width \in [1..N -> Nat]
    PROVE  /\ \A i \in 1..N : ~Precedes(width, i, i)
           /\ \A i, j \in 1..N : i # j => Precedes(width, i, j) \/ Precedes(width, j, i)
           /\ \A i, j, k \in 1..N :
                 Precedes(width, i, j) /\ Precedes(width, j, k) => Precedes(width, i, k)
  <1>1. \A i \in 1..N : width[i] \in Nat /\ i \in Nat
    OBVIOUS
  <1> QED
    BY <1>1 DEF Precedes

Before(width, i) == {j \in DOMAIN width : Precedes(width, j, i)}

LEMMA WidestFirstFacts ==
    ASSUME NEW N \in Nat, NEW width \in [1..N -> Nat]
    PROVE  /\ WidestFirst(width) \in [1..N -> 1..N]
           /\ \A i \in 1..N : \E n \in 1..N : WidestFirst(width)[n] = i
           /\ \A m, n \in 1..N : m < n =>
                 Precedes(width, WidestFirst(width)[m], WidestFirst(width)[n])
  <1> DEFINE rank == [i \in 1..N |-> Cardinality(Before(width, i))]
             w == WidestFirst(width)
  <1>1. 1 \in Int /\ N \in Int /\ 0 \in Int /\ N - 1 \in Int
    OBVIOUS
  <1>2. IsFiniteSet(1..N) /\ Cardinality(1..N) = N
        /\ IsFiniteSet(0..(N - 1)) /\ Cardinality(0..(N - 1)) = N
    <2>1. IsFiniteSet(1..N) /\ Cardinality(1..N) = IF 1 > N THEN 0 ELSE N - 1 + 1
      BY <1>1, FS_Interval, Zenon
    <2>2. IsFiniteSet(0..(N - 1)) /\ Cardinality(0..(N - 1)) = IF 0 > N - 1 THEN 0 ELSE N - 1 - 0 + 1
      BY <1>1, FS_Interval, Zenon
    <2> QED
      BY <2>1, <2>2
  <1>3. ASSUME NEW i \in 1..N
        PROVE  /\ IsFiniteSet(Before(width, i)) /\ rank[i] = Cardinality(Before(width, i))
               /\ rank[i] \in 0..(N - 1)
    <2>1. IsFiniteSet((1..N) \ {i}) /\ Cardinality((1..N) \ {i}) = N - 1
      BY <1>2, FS_RemoveElement
    <2>2. Before(width, i) \in SUBSET ((1..N) \ {i})
      BY PrecedesOrders DEF Before
    <2>3. IsFiniteSet(Before(width, i)) /\ Cardinality(Before(width, i)) <= N - 1
      BY <2>1, <2>2, FS_Subset
    <2> QED
      BY <2>3, FS_CardinalityType
  <1>4. ASSUME NEW i \in 1..N, NEW j \in 1..N, Precedes(width, i, j) PROVE rank[i] < rank[j]
    <2>1. /\ Before(width, i) \in SUBSET Before(width, j)
          /\ i \in Before(width, j) /\ i \notin Before(width, i)
      BY <1>4, PrecedesOrders DEF Before
    <2>2. IsFiniteSet(Before(width, j))
      BY <1>3
    <2>3. Cardinality(Before(width, i)) <= Cardinality(Before(width, j))
          /\ Cardinality(Before(width, i)) # Cardinality(Before(width, j))
      BY <2>1, <2>2, FS_Subset
    <2>4. /\ rank[i] = Cardinality(Before(width, i)) /\ rank[i] \in Int
          /\ rank[j] = Cardinality(Before(width, j)) /\ rank[j] \in Int
      BY <1>3
    <2> HIDE DEF rank
    <2> QED
      BY <2>3, <2>4
  <1>5. ASSUME NEW i \in 1..N, NEW j \in 1..N, i # j PROVE rank[i] # rank[j]
    <2>1. Precedes(width, i, j) \/ Precedes(width, j, i)
      BY <1>5, PrecedesOrders
    <2>2. rank[i] < rank[j] \/ rank[j] < rank[i]
      BY <1>4, <2>1
    <2>3. rank[i] \in Int /\ rank[j] \in Int
      BY <1>3
    <2> HIDE DEF rank
    <2> QED
      BY <2>2, <2>3
  <1>6. \A k \in 0..(N - 1) : \E i \in 1..N : rank[i] = k
    <2>1. rank \in [1..N -> 0..(N - 1)]
      BY <1>3
    <2> HIDE DEF rank
    <2>2. rank \in Injection(1..N, 0..(N - 1))
      BY <1>5, <2>1 DEF Injection, IsInjective
    <2>3. rank \in Surjection(1..N, 0..(N - 1))
      BY <1>2, <2>2, FS_Injection
    <2> QED
      BY <2>3 DEF Surjection
  <1>7. ASSUME NEW n \in 1..N PROVE w[n] \in 1..N /\ rank[w[n]] = n - 1
    <2>1. w[n] = CHOOSE i \in 1..N : rank[i] = n - 1
      BY DEF WidestFirst, Before
    <2>2. \E i \in 1..N : rank[i] = n - 1
      BY <1>6
    <2> HIDE DEF rank, w
    <2> QED
      BY <2>1, <2>2
  <1>8. w \in [1..N -> 1..N]
    <2> DEFINE pick(n) == CHOOSE i \in DOMAIN width : Cardinality(Before(width, i)) = n - 1
    <2>0. w = [n \in DOMAIN width |-> pick(n)]
      BY DEF WidestFirst, Before
    <2> HIDE DEF w, pick
    <2>1. w = [n \in 1..N |-> w[n]]
      BY <2>0
    <2> HIDE DEF w
    <2> QED
      BY <1>7, <2>1
  <1> HIDE DEF w, rank
  <1>9. ASSUME NEW i \in 1..N PROVE \E n \in 1..N : w[n] = i
    <2>1. rank[i] + 1 \in 1..N /\ (rank[i] + 1) - 1 = rank[i]
      BY <1>3
    <2>2. w[rank[i] + 1] \in 1..N /\ rank[w[rank[i] + 1]] = rank[i]
      BY <1>7, <2>1
    <2>3. w[rank[i] + 1] = i
      BY <1>5, <2>2
    <2> QED
      BY <2>1, <2>3
  <1>10. ASSUME NEW m \in 1..N, NEW n \in 1..N, m < n PROVE Precedes(width, w[m], w[n])
    <2>1. w[m] \in 1..N /\ w[n] \in 1..N /\ rank[w[m]] = m - 1 /\ rank[w[n]] = n - 1
      BY <1>7
    <2>2. w[m] # w[n] /\ ~(rank[w[n]] < rank[w[m]])
      BY <1>10, <2>1
    <2>3. ~Precedes(width, w[n], w[m])
      BY <1>4, <2>1, <2>2
    <2> QED
      BY <2>1, <2>2, <2>3, PrecedesOrders
  <1> QED
    BY <1>8, <1>9, <1>10 DEF w

-----------------------------------------------------------------------------
(* Texts over a set of atoms.                                               *)
LEMMA TextOver ==
    ASSUME NEW A \in SUBSET Atom
    PROVE  /\ Seq(A) \subseteq Text
           /\ \A t \in Text : t \in Seq(A) <=> \A i \in DOMAIN t : t[i] \in A
  <1>1. ASSUME NEW t \in Seq(A) PROVE t \in Text /\ \A i \in DOMAIN t : t[i] \in A
    BY DEF Text
  <1>2. ASSUME NEW t \in Text, \A i \in DOMAIN t : t[i] \in A PROVE t \in Seq(A)
    <2>1. Len(t) \in Nat /\ DOMAIN t = 1..Len(t) /\ \A i \in 1..Len(t) : t[i] \in A
      BY <1>2 DEF Text
    <2>2. t = [i \in 1..Len(t) |-> t[i]]
      BY <2>1 DEF Text
    <2>3. t \in [1..Len(t) -> A]
      BY <2>1, <2>2
    <2> QED
      BY <2>1, <2>3, SeqDef
  <1> QED
    BY <1>1, <1>2

LEMMA ReplaceOver ==
    ASSUME NEW A \in SUBSET Atom, NEW old \in Text, old # <<>>, NEW new \in Seq(A)
    PROVE  \A t \in Seq(A) : Replace(t, old, new) \in Seq(A)
  <1> DEFINE R(q) == Replace(q, old, new)
             P == {q \in Text : q \in Seq(A) => R(q) \in Seq(A)}
  <1>1. new \in Text /\ <<>> \in Seq(A) /\ Seq(A) \subseteq Text
    BY TextOver
  <1>2. /\ R(<<>>) = <<>> /\ \A q \in Text : R(q) \in Text
        /\ \A q \in Text : q # <<>> /\ OccursAt(old, 1, q) => R(q) = new \o R(From(q, Len(old) + 1))
        /\ \A q \in Text : q # <<>> /\ ~OccursAt(old, 1, q) => R(q) = <<Head(q)>> \o R(Tail(q))
    BY <1>1, ReplaceFacts
  <1> HIDE DEF R
  <1>3. ASSUME NEW q \in Text, \A u \in Text : Len(u) < Len(q) => u \in P PROVE q \in P
    <2> SUFFICES ASSUME q \in Seq(A), q # <<>> PROVE R(q) \in Seq(A)
      BY <1>1, <1>2
    <2>1. CASE OccursAt(old, 1, q)
      <3> DEFINE u == From(q, Len(old) + 1)
      <3>1. u \in Text /\ Len(u) < Len(q) /\ Len(old) + 1 \in 1..(Len(q) + 1)
        BY <2>1, RestIsShorter
      <3>2. u \in Seq(A)
        <4>1. Len(old) \in Nat /\ Len(q) \in Nat /\ \A i \in (Len(old) + 1)..Len(q) : q[i] \in A
          BY LenProperties DEF Text
        <4> QED
          BY <4>1, SubSeqProperties DEF From
      <3>3. R(q) = new \o R(u)
        BY <1>2, <2>1
      <3> HIDE DEF u
      <3>4. R(u) \in Seq(A)
        BY <1>3, <3>1, <3>2
      <3> QED
        BY <3>3, <3>4, ConcatProperties
    <2>2. CASE ~OccursAt(old, 1, q)
      <3> DEFINE u == Tail(q)
                 h == <<Head(q)>>
      <3>1. u \in Text /\ Len(u) < Len(q)
        BY RestIsShorter
      <3>2. u \in Seq(A) /\ Head(q) \in A
        BY HeadTailProperties
      <3>3. h \in Seq(A)
        BY <3>2
      <3>4. R(q) = h \o R(u)
        BY <1>2, <2>2
      <3> HIDE DEF u, h
      <3>5. R(u) \in Seq(A)
        BY <1>3, <3>1, <3>2
      <3> QED
        BY <3>3, <3>4, <3>5, ConcatProperties
    <2> QED
      BY <2>1, <2>2
  <1>4. Text \subseteq P
    <2> HIDE DEF P
    <2> QED
      BY <1>3, TextInduction
  <1> QED
    BY <1>1, <1>4 DEF R

-----------------------------------------------------------------------------
(* The width of a text, and the widths of its beginnings.                   *)
LEMMA AtomWidthPositive == \A v, a : AtomWidth(v, a) \in Nat /\ AtomWidth(v, a) >= 1
  <1>1. \A l : LabelWidth(l) \in Nat
    BY DEF LabelWidth
  <1>2. ASSUME NEW v, NEW a PROVE AtomWidth(v, a) \in Nat /\ AtomWidth(v, a) >= 1
    <2>1. LabelWidth(v[a].label) \in Nat
      BY <1>1
    <2> DEFINE l == LabelWidth(v[a].label)
    <2>2. AtomWidth(v, a) = IF a \in Tokens THEN 19 + l ELSE 1
      BY DEF AtomWidth
    <2> HIDE DEF l
    <2> QED
      BY <2>1, <2>2 DEF l
  <1> QED
    BY <1>2

Summing(f, v, t) ==
    /\ f \in [0..Len(t) -> Nat]
    /\ f[0] = 0
    /\ f[Len(t)] = Width(v, t)
    /\ \A n \in 1..Len(t) : f[n] = f[n - 1] + AtomWidth(v, t[n])

LEMMA WidthSteps ==
    ASSUME NEW v, NEW t \in Text
    PROVE  \E f : Summing(f, v, t)
  <1> DEFINE N == Len(t)
             F == [n \in 1..N |-> [x \in Nat |-> x + AtomWidth(v, t[n])]]
             body(f) == [n \in 0..N |-> IF n = 0 THEN 0 ELSE f[n - 1] + AtomWidth(v, t[n])]
             c == CHOOSE f : f = body(f)
  <1>1. N \in Nat
    BY LenProperties DEF Text
  <1>2. \A n \in 1..N : \A x \in Nat : F[n][x] = x + AtomWidth(v, t[n]) /\ F[n][x] \in Nat
    BY AtomWidthPositive
  <1> HIDE DEF F
  <1>3. PICK f : Chained(f, N, Nat, 0, F)
    <2> HIDE DEF N
    <2> QED
      BY <1>1, <1>2, Chain
  <1>4. f = body(f)
    <2>1. f \in [0..N -> Nat] /\ f[0] = 0 /\ \A n \in 1..N : f[n] = F[n][f[n - 1]]
      BY <1>3 DEF Chained
    <2>2. \A n \in 0..N : f[n] = IF n = 0 THEN 0 ELSE f[n - 1] + AtomWidth(v, t[n])
      BY <1>1, <1>2, <2>1
    <2>3. f = [n \in 0..N |-> f[n]]
      BY <2>1
    <2> QED
      BY <2>2, <2>3
  <1>5. c = body(c)
    <2> HIDE DEF body
    <2> QED
      BY <1>4
  <1>6. c[N] = Width(v, t)
    BY DEF Width
  <1> HIDE DEF c
  <1>7. c[0] = 0 /\ \A n \in 1..N : c[n] = c[n - 1] + AtomWidth(v, t[n])
    BY <1>1, <1>5
  <1>8. c = [n \in 0..N |-> c[n]]
    <2>1. body(c) = [n \in 0..N |-> body(c)[n]]
      OBVIOUS
    <2> HIDE DEF body
    <2> QED
      BY <1>5, <2>1
  <1> DEFINE P == {n \in 0..N : c[n] \in Nat}
  <1>9. 0 \in P
    BY <1>1, <1>7
  <1>10. \A n \in 1..N : n - 1 \in P => n \in P
    BY <1>1, <1>7, AtomWidthPositive
  <1>11. 0..N \subseteq P
    <2> HIDE DEF P, N
    <2> QED
      BY <1>1, <1>9, <1>10, CountUp
  <1>12. c \in [0..N -> Nat]
    BY <1>8, <1>11
  <1> QED
    BY <1>6, <1>7, <1>12 DEF Summing

LEMMA WidthType == \A v : \A t \in Text : Width(v, t) \in Nat
  <1>1. ASSUME NEW v, NEW t \in Text PROVE Width(v, t) \in Nat
    <2>1. PICK f : Summing(f, v, t)
      BY WidthSteps
    <2>2. Len(t) \in 0..Len(t)
      BY LenProperties DEF Text
    <2> QED
      BY <2>1, <2>2 DEF Summing
  <1> QED
    BY <1>1

(* Every value has its turn in replace_known and every token in             *)
(* rehydrate_text, the widest value and the widest token first.             *)
LEMMA KnownInOrderFacts ==
    ASSUME NEW v \in Vaults
    PROVE  /\ KnownInOrder(v) \in [1..Len(v) -> 1..Len(v)]
           /\ \A i \in 1..Len(v) : \E n \in 1..Len(v) : KnownInOrder(v)[n] = i
           /\ \A m, n \in 1..Len(v) : m < n =>
                 Width(v, v[KnownInOrder(v)[m]].raw) >= Width(v, v[KnownInOrder(v)[n]].raw)
  <1> DEFINE N == Len(v)
             width == [i \in 1..N |-> Width(v, v[i].raw)]
             w == WidestFirst(width)
  <1>1. N \in Nat /\ DOMAIN v = 1..N /\ \A i \in 1..N : v[i].raw \in Text
    BY VaultFacts
  <1>2. KnownInOrder(v) = w
    BY <1>1 DEF KnownInOrder
  <1>3. width \in [1..N -> Nat]
    BY <1>1, WidthType
  <1>4. \A i \in 1..N : width[i] = Width(v, v[i].raw)
    OBVIOUS
  <1> HIDE DEF width, N, w
  <1>5. /\ w \in [1..N -> 1..N]
        /\ \A i \in 1..N : \E n \in 1..N : w[n] = i
        /\ \A m, n \in 1..N : m < n => Precedes(width, w[m], w[n])
    BY <1>1, <1>3, WidestFirstFacts DEF w
  <1>6. ASSUME NEW m \in 1..N, NEW n \in 1..N, m < n
        PROVE  Width(v, v[w[m]].raw) >= Width(v, v[w[n]].raw)
    <2>1. Precedes(width, w[m], w[n]) /\ w[m] \in 1..N /\ w[n] \in 1..N
      BY <1>5, <1>6
    <2>2. width[w[m]] >= width[w[n]]
      BY <1>3, <2>1 DEF Precedes
    <2> QED
      BY <1>4, <2>1, <2>2
  <1> QED
    BY <1>2, <1>5, <1>6 DEF N

LEMMA RehydrateFacts ==
    ASSUME NEW v \in Vaults
    PROVE  \E order \in [1..Len(v) -> 1..Len(v)] :
              /\ \A t : rehydrate_text(v, t) = RestoreInOrder(v, t, order)
              /\ \A i \in 1..Len(v) : \E n \in 1..Len(v) : order[n] = i
  <1> DEFINE N == Len(v)
             width == [i \in 1..N |-> LabelWidth(v[i].label)]
             w == WidestFirst(width)
  <1>1. N \in Nat /\ DOMAIN v = 1..N
    BY VaultFacts
  <1>2. \A t : rehydrate_text(v, t) = RestoreInOrder(v, t, w)
    BY <1>1 DEF rehydrate_text
  <1>3. width \in [1..N -> Nat]
    <2>1. \A l : LabelWidth(l) \in Nat
      BY DEF LabelWidth
    <2> QED
      BY <2>1
  <1> HIDE DEF width, N, w
  <1>4. w \in [1..N -> 1..N] /\ \A i \in 1..N : \E n \in 1..N : w[n] = i
    BY <1>1, <1>3, WidestFirstFacts DEF w
  <1> QED
    BY <1>2, <1>4 DEF N

-----------------------------------------------------------------------------
(* The vault grows: what is in it stays.                                    *)
Extends(v, w) ==
    /\ v \in Vaults /\ w \in Vaults
    /\ Len(v) <= Len(w)
    /\ \A i \in 1..Len(v) : w[i] = v[i]

LEMMA ExtendsFacts ==
    /\ \A v \in Vaults : Extends(v, v)
    /\ \A u, v, w : Extends(u, v) /\ Extends(v, w) => Extends(u, w)
  <1>1. ASSUME NEW v \in Vaults PROVE Extends(v, v)
    BY VaultFacts DEF Extends
  <1>2. ASSUME NEW u, NEW v, NEW w, Extends(u, v), Extends(v, w) PROVE Extends(u, w)
    <2>1. Len(u) \in Nat /\ Len(v) \in Nat /\ Len(w) \in Nat
      BY <1>2, VaultFacts DEF Extends
    <2> QED
      BY <1>2, <2>1 DEF Extends
  <1> QED
    BY <1>1, <1>2

\* The texts for which k tokens suffice.
TextsOver(k) == Seq(Issued(k))

LEMMA TextsOverFacts ==
    /\ \A k \in Nat : TextsOver(k) \subseteq Text
    /\ \A j, k \in Nat : j <= k => TextsOver(j) \subseteq TextsOver(k)
    /\ \A k \in Nat : \A t \in Text : t \in TextsOver(k) <=> Over(t, k)
  <1>1. \A j, k \in Nat : j <= k => Issued(j) \subseteq Issued(k)
    BY DEF Issued
  <1>2. \A k \in Nat : Issued(k) \in SUBSET Atom
    BY AtomFacts
  <1>3. \A k \in Nat : \A t \in Text : t \in TextsOver(k) <=> Over(t, k)
    BY <1>2, TextOver DEF TextsOver, Over
  <1>4. \A k \in Nat : TextsOver(k) \subseteq Text
    BY <1>2, TextOver DEF TextsOver
  <1>5. ASSUME NEW j \in Nat, NEW k \in Nat, j <= k PROVE TextsOver(j) \subseteq TextsOver(k)
    <2>1. Issued(j) \subseteq Issued(k)
      BY <1>1, <1>5
    <2> QED
      BY <2>1 DEF TextsOver
  <1> QED
    BY <1>3, <1>4, <1>5

(* The token of a value is that of its entry.                               *)
LEMMA EntryFacts ==
    ASSUME NEW u, Len(u) \in Nat, NEW label, NEW raw
    PROVE  LET e == [label |-> label, raw |-> raw]
           IN  IF \E i \in 1..Len(u) : u[i] = e
               THEN Entry(u, label, raw) \in 1..Len(u) /\ u[Entry(u, label, raw)] = e
               ELSE Entry(u, label, raw) = 0
  <1> DEFINE e == [label |-> label, raw |-> raw]
             at == {i \in 1..Len(u) : u[i] = e}
  <1>1. Entry(u, label, raw) = IF at # {} THEN CHOOSE x \in at : \A y \in at : x <= y ELSE 0
    BY DEF Entry, SelectInSeq, Min
  <1>2. at \in SUBSET Nat /\ (at # {} <=> \E i \in 1..Len(u) : u[i] = e)
    OBVIOUS
  <1>3. ASSUME at # {} PROVE Entry(u, label, raw) \in at
    <2> HIDE DEF at
    <2>1. \E x \in at : \A y \in at : x <= y
      BY <1>2, <1>3, LeastNumber
    <2> QED
      BY <1>1, <1>3, <2>1
  <1> QED
    BY <1>1, <1>2, <1>3

\* A token for a value, of the vault so far or new.
LEMMA TokenizeFacts ==
    ASSUME NEW v \in Vaults, NEW label \in Labels,
           NEW raw \in TextsOver(Len(v)), raw # <<>>
    PROVE  LET w == tokenize(v, label, raw)
               i == TokenOf(w, label, raw)
           IN  Extends(v, w) /\ i \in 1..Len(w) /\ w[i] = [label |-> label, raw |-> raw]
  <1> DEFINE e == [label |-> label, raw |-> raw]
             w == tokenize(v, label, raw)
  <1>1. Len(v) \in Nat /\ raw \in Text /\ e \in Entries /\ Over(raw, Len(v))
    BY VaultFacts, TextsOverFacts DEF Entries
  <1>2. CASE \E i \in 1..Len(v) : v[i] = e
    <2>1. Entry(v, label, raw) \in 1..Len(v) /\ v[Entry(v, label, raw)] = e
      BY <1>1, <1>2, EntryFacts
    <2>2. w = v
      BY <1>1, <2>1 DEF tokenize
    <2> QED
      BY <2>1, <2>2, ExtendsFacts DEF TokenOf
  <1>3. CASE \A i \in 1..Len(v) : v[i] # e
    <2>1. Entry(v, label, raw) = 0
      BY <1>1, <1>3, EntryFacts
    <2>2. w = Append(v, e)
      BY <2>1 DEF tokenize
    <2>3. /\ w \in Seq(Entries) /\ Len(w) = Len(v) + 1
          /\ \A i \in 1..Len(v) : w[i] = v[i]
          /\ w[Len(v) + 1] = e
      BY <1>1, <2>2, AppendProperties DEF Vaults
    <2> HIDE DEF w
    <2>4. ASSUME NEW i \in 1..Len(w) PROVE Over(w[i].raw, i - 1)
      <3>1. CASE i \in 1..Len(v)
        BY <2>3, <3>1, VaultFacts
      <3>2. CASE i = Len(v) + 1
        BY <1>1, <2>3, <3>2
      <3> QED
        BY <1>1, <2>3, <3>1, <3>2
    <2>5. ASSUME NEW i \in 1..Len(w), NEW j \in 1..Len(w), w[i] = w[j] PROVE i = j
      <3>1. \A k \in 1..Len(v) : w[k] # e
        BY <1>3, <2>3
      <3>2. \A k, l \in 1..Len(v) : w[k] = w[l] => k = l
        BY <2>3 DEF Vaults
      <3>3. \A k \in 1..Len(w) : k \in 1..Len(v) \/ (k = Len(v) + 1 /\ w[k] = e)
        BY <1>1, <2>3
      <3> QED
        BY <2>5, <3>1, <3>2, <3>3
    <2>6. w \in Vaults
      BY <2>3, <2>4, <2>5 DEF Vaults
    <2>7. Extends(v, w)
      BY <1>1, <2>3, <2>6 DEF Extends
    <2>8. Len(w) \in Nat /\ \E i \in 1..Len(w) : w[i] = e
      BY <1>1, <2>3
    <2>9. Entry(w, label, raw) \in 1..Len(w) /\ w[Entry(w, label, raw)] = e
      BY <2>8, EntryFacts
    <2> QED
      BY <2>7, <2>9 DEF TokenOf, w
  <1> QED
    BY <1>2, <1>3

-----------------------------------------------------------------------------
(* The values known become tokens.                                          *)
LEMMA PutTokenFacts ==
    ASSUME NEW v \in Vaults, NEW i \in 1..Len(v), NEW t \in TextsOver(Len(v))
    PROVE  /\ PutToken(v, t, i) \in TextsOver(Len(v))
           /\ \A w : Extends(v, w) => Resolved(w, PutToken(v, t, i)) = Resolved(w, t)
  <1> DEFINE old == v[i].raw
             new == <<i>>
  <1>1. /\ Len(v) \in Nat /\ old \in Text /\ old # <<>> /\ new \in Text /\ t \in Text
        /\ Issued(Len(v)) \in SUBSET Atom
    BY VaultFacts, TextsOverFacts, AtomFacts
  <1>2. new \in Seq(Issued(Len(v)))
    BY <1>1 DEF Issued
  <1> HIDE DEF old, new
  <1>3. PutToken(v, t, i) = Replace(t, old, new)
    BY DEF PutToken, old, new
  <1>4. PutToken(v, t, i) \in TextsOver(Len(v))
    BY <1>1, <1>2, <1>3, ReplaceOver DEF TextsOver
  <1>5. ASSUME NEW w, Extends(v, w) PROVE Resolved(w, PutToken(v, t, i)) = Resolved(w, t)
    <2> DEFINE H == RestoreMap(w, Latest(w))
    <2>1. w \in Vaults /\ i \in 1..Len(w) /\ w[i] = v[i]
      BY <1>1, <1>5, VaultFacts DEF Extends
    <2>2. Hom(H) /\ \A s \in Text : H[s] = Resolved(w, s)
      BY <2>1, ResolvedFacts
    <2>3. Resolved(w, new) = Resolved(w, old)
      BY <2>1, ResolvedFacts DEF old, new
    <2> HIDE DEF H
    <2>4. H[old] = H[new]
      BY <1>1, <2>2, <2>3
    <2>5. H[Replace(t, old, new)] = H[t]
      BY <1>1, <2>2, <2>4, HomReplace
    <2>6. Replace(t, old, new) \in Text
      BY <1>1, ReplaceFacts
    <2> QED
      BY <1>1, <1>3, <2>2, <2>5, <2>6
  <1> QED
    BY <1>4, <1>5

Replacing(f, v, t) ==
    /\ f \in [0..Len(v) -> TextsOver(Len(v))]
    /\ f[0] = t
    /\ f[Len(v)] = replace_known(v, t)
    /\ \A n \in 1..Len(v) : f[n] = PutToken(v, f[n - 1], KnownInOrder(v)[n])

LEMMA ReplaceKnownSteps ==
    ASSUME NEW v \in Vaults, NEW t \in TextsOver(Len(v))
    PROVE  \E f : Replacing(f, v, t)
  <1> DEFINE N == Len(v)
             S == TextsOver(Len(v))
             order == KnownInOrder(v)
             F == [n \in 1..N |-> [x \in S |-> PutToken(v, x, order[n])]]
             body(f) == [n \in 0..N |-> IF n = 0 THEN t ELSE PutToken(v, f[n - 1], order[n])]
             c == CHOOSE f : f = body(f)
  <1>1. N \in Nat /\ order \in [1..N -> 1..N]
    BY VaultFacts, KnownInOrderFacts
  <1>2. \A n \in 1..N : \A x \in S : F[n][x] = PutToken(v, x, order[n]) /\ F[n][x] \in S
    BY <1>1, PutTokenFacts
  <1>3. replace_known(v, t) = c[N]
    BY DEF replace_known
  <1>4. t \in S
    OBVIOUS
  <1> HIDE DEF F, S, N, order
  <1>5. PICK f : Chained(f, N, S, t, F)
    BY <1>1, <1>2, <1>4, Chain
  <1>6. f = body(f)
    <2>1. f \in [0..N -> S] /\ f[0] = t /\ \A n \in 1..N : f[n] = F[n][f[n - 1]]
      BY <1>5 DEF Chained
    <2>2. ASSUME NEW n \in 0..N PROVE f[n] = IF n = 0 THEN t ELSE PutToken(v, f[n - 1], order[n])
      <3>1. CASE n = 0
        BY <2>1, <3>1
      <3>2. CASE n # 0
        <4>1. n \in 1..N /\ f[n - 1] \in S
          BY <1>1, <2>1, <3>2
        <4> QED
          BY <1>2, <2>1, <3>2, <4>1
      <3> QED
        BY <3>1, <3>2
    <2>3. f = [n \in 0..N |-> f[n]]
      BY <2>1
    <2> QED
      BY <2>2, <2>3
  <1>7. c = body(c)
    <2> HIDE DEF body
    <2> QED
      BY <1>6
  <1> HIDE DEF c
  <1>8. c[0] = t /\ \A n \in 1..N : c[n] = PutToken(v, c[n - 1], order[n])
    <2>1. \A n \in 0..N : c[n] = body(c)[n]
      <3> HIDE DEF body
      <3> QED
        BY <1>7
    <2>2. \A n \in 0..N : body(c)[n] = IF n = 0 THEN t ELSE PutToken(v, c[n - 1], order[n])
      OBVIOUS
    <2>3. 0 \in 0..N /\ \A n \in 1..N : n \in 0..N /\ n # 0
      BY <1>1
    <2> HIDE DEF body
    <2> QED
      BY <2>1, <2>2, <2>3
  <1>9. c = [n \in 0..N |-> c[n]]
    <2>1. body(c) = [n \in 0..N |-> body(c)[n]]
      OBVIOUS
    <2> HIDE DEF body
    <2> QED
      BY <1>7, <2>1
  <1> DEFINE P == {n \in 0..N : c[n] \in S}
  <1>10. 0 \in P
    BY <1>1, <1>4, <1>8
  <1>11. ASSUME NEW n \in 1..N, n - 1 \in P PROVE n \in P
    <2>1. c[n - 1] \in S /\ n \in 0..N
      BY <1>1, <1>11
    <2>2. PutToken(v, c[n - 1], order[n]) \in S
      BY <1>2, <2>1
    <2> QED
      BY <1>8, <2>1, <2>2
  <1>12. 0..N \subseteq P
    <2> HIDE DEF P
    <2> QED
      BY <1>1, <1>10, <1>11, CountUp
  <1>13. c \in [0..N -> S]
    BY <1>9, <1>12
  <1> QED
    BY <1>3, <1>8, <1>13 DEF Replacing, N, S, order

LEMMA ReplaceKnownKeeps ==
    ASSUME NEW v \in Vaults, NEW t \in TextsOver(Len(v))
    PROVE  /\ replace_known(v, t) \in TextsOver(Len(v))
           /\ \A w : Extends(v, w) => Resolved(w, replace_known(v, t)) = Resolved(w, t)
  <1> DEFINE N == Len(v)
  <1>1. N \in Nat /\ KnownInOrder(v) \in [1..N -> 1..N]
    BY VaultFacts, KnownInOrderFacts
  <1>2. PICK f : Replacing(f, v, t)
    BY ReplaceKnownSteps
  <1>3. /\ f \in [0..N -> TextsOver(N)] /\ f[0] = t /\ f[N] = replace_known(v, t)
        /\ \A n \in 1..N : f[n] = PutToken(v, f[n - 1], KnownInOrder(v)[n])
    BY <1>2 DEF Replacing
  <1>4. replace_known(v, t) \in TextsOver(N)
    BY <1>1, <1>3
  <1>5. ASSUME NEW w, Extends(v, w) PROVE Resolved(w, f[N]) = Resolved(w, t)
    <2> DEFINE P == {n \in 0..N : Resolved(w, f[n]) = Resolved(w, t)}
    <2>1. 0 \in P
      BY <1>1, <1>3
    <2>2. ASSUME NEW n \in 1..N, n - 1 \in P PROVE n \in P
      <3> DEFINE x == f[n - 1]
                 i == KnownInOrder(v)[n]
      <3>1. x \in TextsOver(N) /\ i \in 1..N /\ f[n] = PutToken(v, x, i) /\ n \in 0..N
        BY <1>1, <1>3
      <3>2. Resolved(w, x) = Resolved(w, t)
        BY <2>2
      <3> HIDE DEF x, i
      <3>3. Resolved(w, PutToken(v, x, i)) = Resolved(w, x)
        BY <1>5, <3>1, PutTokenFacts
      <3> QED
        BY <3>1, <3>2, <3>3
    <2> HIDE DEF N
    <2>3. 0..N \subseteq P
      <3> HIDE DEF P
      <3> QED
        BY <1>1, <2>1, <2>2, CountUp
    <2>4. N \in 0..N
      BY <1>1
    <2> QED
      BY <2>3, <2>4
  <1> QED
    BY <1>3, <1>4, <1>5

-----------------------------------------------------------------------------
(* A text cut in two.                                                       *)
LEMMA PartFacts ==
    ASSUME NEW t \in Text, NEW a \in 1..(Len(t) + 1), NEW b \in (a - 1)..Len(t)
    PROVE  /\ SubSeq(t, a, b) \in Text
           /\ Len(SubSeq(t, a, b)) = b + 1 - a
           /\ \A i \in 1..(b + 1 - a) : SubSeq(t, a, b)[i] = t[a + i - 1]
  <1>1. Len(t) \in Nat /\ a \in Int /\ b \in Int /\ \A i \in a..b : t[i] \in Atom
    BY LenProperties DEF Text
  <1>2. /\ SubSeq(t, a, b) \in Seq(Atom)
        /\ Len(SubSeq(t, a, b)) = IF a <= b THEN b - a + 1 ELSE 0
        /\ \A i \in 1..(b - a + 1) : SubSeq(t, a, b)[i] = t[a + i - 1]
    BY <1>1, SubSeqProperties
  <1> QED
    BY <1>1, <1>2 DEF Text

LEMMA Whole == \A t \in Text : From(t, 1) = t
  <1>1. ASSUME NEW t \in Text PROVE From(t, 1) = t
    <2>1. Len(t) \in Nat /\ 1 \in 1..(Len(t) + 1)
      BY LenProperties DEF Text
    <2>2. From(t, 1) \in Text /\ Len(From(t, 1)) = Len(t) + 1 - 1
          /\ \A i \in 1..(Len(t) + 1 - 1) : From(t, 1)[i] = t[1 + i - 1]
      BY <2>1, FromFacts, Zenon
    <2>3. Len(From(t, 1)) = Len(t) /\ \A i \in 1..Len(t) : From(t, 1)[i] = t[i]
      BY <2>1, <2>2
    <2> QED
      BY <2>2, <2>3, SeqEqual DEF Text
  <1> QED
    BY <1>1

LEMMA Cut ==
    ASSUME NEW t \in Text, NEW a \in 1..(Len(t) + 1), NEW b \in (a - 1)..Len(t)
    PROVE  From(t, a) = SubSeq(t, a, b) \o From(t, b + 1)
  <1> DEFINE p == SubSeq(t, a, b)
             q == From(t, b + 1)
             r == From(t, a)
             n == b + 1 - a
  <1>1. Len(t) \in Nat /\ a \in Nat /\ b \in Nat /\ a >= 1 /\ b + 1 \in 1..(Len(t) + 1)
    BY LenProperties DEF Text
  <1>2. p \in Text /\ Len(p) = n /\ \A i \in 1..n : p[i] = t[a + i - 1]
    BY PartFacts, Zenon
  <1>3. q \in Text /\ Len(q) = Len(t) + 1 - (b + 1)
        /\ \A i \in 1..(Len(t) + 1 - (b + 1)) : q[i] = t[(b + 1) + i - 1]
    BY <1>1, FromFacts, Zenon
  <1>4. r \in Text /\ Len(r) = Len(t) + 1 - a
        /\ \A i \in 1..(Len(t) + 1 - a) : r[i] = t[a + i - 1]
    BY FromFacts, Zenon
  <1> HIDE DEF p, q, r
  <1>5. p \o q \in Text /\ Len(p \o q) = Len(p) + Len(q)
    BY <1>2, <1>3, ConcatText, Zenon
  <1>6. \A i \in 1..Len(p) : (p \o q)[i] = p[i]
    BY <1>2, <1>3, ConcatText, Zenon
  <1>7. \A i \in 1..Len(q) : (p \o q)[Len(p) + i] = q[i]
    BY <1>2, <1>3, ConcatText, Zenon
  <1>8. Len(p \o q) = Len(r) /\ n \in Nat
    BY <1>1, <1>2, <1>3, <1>4, <1>5
  <1>9. ASSUME NEW i \in 1..Len(r) PROVE (p \o q)[i] = r[i]
    <2>1. r[i] = t[a + i - 1] /\ i \in Nat
      BY <1>4
    <2>2. CASE i <= n
      <3>1. i \in 1..n
        BY <2>2, <1>8
      <3> QED
        BY <1>2, <1>6, <2>1, <3>1
    <2>3. CASE ~(i <= n)
      <3> DEFINE j == i - n
      <3>1. j \in 1..Len(q) /\ n + j = i /\ (b + 1) + j - 1 = a + i - 1
        BY <1>1, <1>3, <1>4, <1>8, <2>3
      <3> HIDE DEF j, n
      <3>2. (p \o q)[n + j] = q[j]
        BY <1>2, <1>7, <3>1
      <3>3. q[j] = t[(b + 1) + j - 1]
        BY <1>3, <3>1
      <3> QED
        BY <2>1, <3>1, <3>2, <3>3
    <2> QED
      BY <2>2, <2>3
  <1>10. p \o q = r
    BY <1>4, <1>5, <1>8, <1>9, SeqEqual DEF Text
  <1> QED
    BY <1>10 DEF p, q, r

-----------------------------------------------------------------------------
(* The private word of a text.                                              *)
LEMMA GreatestNumber ==
    ASSUME NEW a \in Nat, NEW b \in Nat, NEW T \in SUBSET (a..b), T # {}
    PROVE  \E m \in T : \A n \in T : m >= n
  <1> DEFINE U == {u \in 0..b : b - u \in T}
  <1>1. ASSUME NEW x \in T PROVE x \in Nat /\ \E u \in U : b - u = x
    <2> DEFINE u == b - x
    <2>1. x \in Nat /\ u \in 0..b /\ b - u = x
      OBVIOUS
    <2> HIDE DEF u
    <2>2. u \in U
      BY <2>1
    <2> HIDE DEF U
    <2> QED
      BY <2>1, <2>2
  <1>2. U \in SUBSET Nat /\ U # {}
    <2>1. U \in SUBSET Nat
      OBVIOUS
    <2> HIDE DEF U
    <2> QED
      BY <1>1, <2>1
  <1>3. PICK m \in U : \A n \in U : m <= n
    <2> HIDE DEF U
    <2> QED
      BY <1>2, LeastNumber
  <1>4. b - m \in T /\ m \in Nat
    OBVIOUS
  <1>5. ASSUME NEW y \in T PROVE b - m >= y
    <2>1. PICK u \in U : b - u = y
      BY <1>1
    <2>2. m <= u /\ u \in Nat
      BY <1>3
    <2> QED
      BY <1>4, <2>1, <2>2
  <1> QED
    BY <1>4, <1>5

\* The first and the last of a set of numbers, or 0 if there is none.
LEMMA FirstOrNone ==
    ASSUME NEW a \in Nat, NEW b \in Nat, NEW T \in SUBSET (a..b)
    PROVE  LET m == IF T # {} THEN Min(T) ELSE 0
           IN  IF T = {} THEN m = 0 ELSE m \in T /\ \A n \in T : m <= n
  <1>1. T # {} => \E m \in T : \A n \in T : m <= n
    BY LeastNumber
  <1> QED
    BY <1>1 DEF Min

LEMMA LastOrNone ==
    ASSUME NEW a \in Nat, NEW b \in Nat, NEW T \in SUBSET (a..b)
    PROVE  LET m == IF T # {} THEN Max(T) ELSE 0
           IN  IF T = {} THEN m = 0 ELSE m \in T /\ \A n \in T : m >= n
  <1>1. T # {} => \E m \in T : \A n \in T : m >= n
    BY GreatestNumber
  <1> QED
    BY <1>1 DEF Max

\* k is the first keyword of t, and the word after it begins at w.
KeywordBefore(t, k, w) ==
    /\ k \in 1..(w - 1) /\ w \in 1..Len(t)
    /\ t[k] = Keyword /\ \A i \in 1..(k - 1) : t[i] # Keyword
    /\ t[w] # Blank /\ \A i \in (k + 1)..(w - 1) : t[i] = Blank

LEMMA WordStartFacts ==
    ASSUME NEW t \in Text
    PROVE  /\ WordStart(t) # 0 => KeywordBefore(t, KeywordAt(t), WordStart(t))
           /\ \A k, w : KeywordBefore(t, k, w) => WordStart(t) = w /\ KeywordAt(t) = k
  <1> DEFINE N == Len(t)
             T == {i \in 1..N : t[i] = Keyword}
             U(k) == {i \in (k + 1)..N : t[i] # Blank}
             first(X) == IF X # {} THEN Min(X) ELSE 0
             kw == first(T)
  <1>1. N \in Nat
    BY LenProperties DEF Text
  <1>2. KeywordAt(t) = kw /\ WordStart(t) = IF kw = 0 THEN 0 ELSE first(U(kw))
    BY DEF WordStart, KeywordAt, SelectInSeq, SelectInSubSeq
  <1>3. IF T = {} THEN kw = 0 ELSE kw \in T /\ \A n \in T : kw <= n
    <2>1. T \in SUBSET (1..N)
      OBVIOUS
    <2> HIDE DEF T
    <2> QED
      BY <1>1, <2>1, FirstOrNone
  <1>4. ASSUME NEW k \in 1..N
        PROVE  IF U(k) = {} THEN first(U(k)) = 0 ELSE first(U(k)) \in U(k) /\ \A n \in U(k) : first(U(k)) <= n
    <2>1. U(k) \in SUBSET ((k + 1)..N) /\ k + 1 \in Nat
      OBVIOUS
    <2> HIDE DEF U
    <2> QED
      BY <1>1, <2>1, FirstOrNone
  <1> HIDE DEF first, kw
  <1>5. ASSUME WordStart(t) # 0 PROVE KeywordBefore(t, KeywordAt(t), WordStart(t))
    <2>1. kw # 0 /\ kw \in T /\ \A n \in T : kw <= n
      BY <1>2, <1>3, <1>5
    <2>2. kw \in 1..N
      BY <2>1
    <2>3. WordStart(t) = first(U(kw))
      BY <1>2, <2>1
    <2>4. WordStart(t) \in U(kw) /\ \A n \in U(kw) : WordStart(t) <= n
      BY <1>4, <1>5, <2>2, <2>3
    <2> DEFINE w == WordStart(t)
    <2> HIDE DEF w
    <2>5. KeywordBefore(t, kw, w)
      <3>1. w \in (kw + 1)..N /\ t[w] # Blank /\ \A n \in (kw + 1)..N : t[n] # Blank => w <= n
        BY <2>4 DEF w
      <3>2. kw \in 1..(w - 1) /\ w \in 1..N
        BY <1>1, <2>2, <3>1
      <3>3. \A i \in (kw + 1)..(w - 1) : t[i] = Blank
        BY <1>1, <2>2, <3>1, <3>2
      <3>4. t[kw] = Keyword
        BY <2>1
      <3>5. \A i \in 1..(kw - 1) : t[i] # Keyword
        BY <1>1, <2>1, <2>2
      <3> QED
        BY <3>1, <3>2, <3>3, <3>4, <3>5 DEF KeywordBefore
    <2> QED
      BY <1>2, <2>5 DEF w
  <1>6. ASSUME NEW k, NEW w, KeywordBefore(t, k, w) PROVE WordStart(t) = w /\ KeywordAt(t) = k
    <2>1. k \in 1..N /\ w \in (k + 1)..N /\ k \in T
      BY <1>1, <1>6 DEF KeywordBefore
    <2>2. kw \in T /\ kw <= k /\ kw \in 1..N
      BY <1>3, <2>1
    <2>3. kw = k /\ KeywordAt(t) = k
      BY <1>2, <1>6, <2>1, <2>2 DEF KeywordBefore
    <2>4. WordStart(t) = first(U(k))
      BY <1>2, <2>1, <2>3
    <2>5. w \in U(k) /\ \A n \in U(k) : w <= n
      BY <1>1, <1>6, <2>1 DEF KeywordBefore
    <2>6. first(U(k)) \in U(k) /\ first(U(k)) <= w
      BY <1>4, <2>1, <2>5
    <2>7. w <= first(U(k)) /\ first(U(k)) \in Nat /\ w \in Nat
      BY <2>1, <2>5, <2>6
    <2> QED
      BY <2>3, <2>4, <2>6, <2>7
  <1> QED
    BY <1>5, <1>6

\* Where the word ends, with and without its trailing punctuation.
LEMMA WordEndFacts ==
    ASSUME NEW t \in Text, WordStart(t) # 0
    PROVE  LET w == WordStart(t)
               e == WordEnd(t)
               d == TrailingEnd(t)
           IN  /\ w \in 1..Len(t) /\ e \in w..Len(t)
               /\ \A i \in w..e : t[i] # Blank
               /\ e # Len(t) => t[e + 1] = Blank
               /\ d = 0 => \A i \in w..e : t[i] = Dot
               /\ d # 0 => d \in w..e /\ t[d] # Dot /\ \A i \in (d + 1)..e : t[i] = Dot
  <1> DEFINE N == Len(t)
             w == WordStart(t)
             e == WordEnd(t)
             d == TrailingEnd(t)
             T == {i \in w..N : t[i] = Blank}
             next == IF T # {} THEN Min(T) ELSE 0
             U == {i \in w..e : t[i] # Dot}
  <1>1. N \in Nat /\ w \in 1..N /\ t[w] # Blank
    BY WordStartFacts, LenProperties DEF Text, KeywordBefore
  <1>2. e = IF next = 0 THEN N ELSE next - 1
    BY DEF WordEnd, SelectInSubSeq
  <1>3. IF T = {} THEN next = 0 ELSE next \in T /\ \A n \in T : next <= n
    <2>1. T \in SUBSET (w..N) /\ w \in Nat
      BY <1>1
    <2> HIDE DEF T, w, N
    <2> QED
      BY <1>1, <2>1, FirstOrNone
  <1>4. d = IF U # {} THEN Max(U) ELSE 0
    BY DEF TrailingEnd, SelectLastInSubSeq
  <1> HIDE DEF next, w, e, d
  <1>5. e \in w..N /\ (\A i \in w..e : t[i] # Blank) /\ (e # N => t[e + 1] = Blank)
    <2>1. CASE T = {}
      <3>1. e = N
        BY <1>2, <1>3, <2>1
      <3> QED
        BY <1>1, <2>1, <3>1
    <2>2. CASE T # {}
      <3>1. next \in T /\ \A n \in T : next <= n
        BY <1>3, <2>2
      <3>2. next \in w..N /\ next # w /\ t[next] = Blank
        BY <1>1, <3>1
      <3>3. e = next - 1
        BY <1>1, <1>2, <3>2
      <3>4. \A i \in w..e : t[i] # Blank
        BY <1>1, <3>1, <3>2, <3>3
      <3> QED
        BY <1>1, <3>2, <3>3, <3>4
    <2> QED
      BY <2>1, <2>2
  <1>6. IF U = {} THEN d = 0 ELSE d \in U /\ \A n \in U : d >= n
    <2>1. U \in SUBSET (w..e) /\ w \in Nat /\ e \in Nat
      BY <1>1, <1>5
    <2> HIDE DEF U
    <2> QED
      BY <1>4, <2>1, LastOrNone
  <1>7. d = 0 => \A i \in w..e : t[i] = Dot
    BY <1>1, <1>5, <1>6
  <1>8. d # 0 => d \in w..e /\ t[d] # Dot /\ \A i \in (d + 1)..e : t[i] = Dot
    <2> SUFFICES ASSUME d # 0 PROVE d \in w..e /\ t[d] # Dot /\ \A i \in (d + 1)..e : t[i] = Dot
      OBVIOUS
    <2>1. d \in w..e /\ t[d] # Dot /\ \A n \in w..e : t[n] # Dot => d >= n
      BY <1>6
    <2> QED
      BY <1>1, <1>5, <2>1
  <1> QED
    BY <1>1, <1>5, <1>7, <1>8 DEF w, e, d

-----------------------------------------------------------------------------
(* The private word becomes a token.                                        *)
LEMMA PartsOver ==
    ASSUME NEW k \in Nat, NEW t \in TextsOver(k)
    PROVE  /\ \A a \in 1..(Len(t) + 1) : \A b \in (a - 1)..Len(t) : SubSeq(t, a, b) \in TextsOver(k)
           /\ \A s \in TextsOver(k) : s \o t \in TextsOver(k)
  <1>1. Len(t) \in Nat /\ \A i \in 1..Len(t) : t[i] \in Issued(k)
    BY DEF TextsOver
  <1>2. ASSUME NEW a \in 1..(Len(t) + 1), NEW b \in (a - 1)..Len(t)
        PROVE  SubSeq(t, a, b) \in TextsOver(k)
    <2>1. a \in Int /\ b \in Int /\ \A i \in a..b : t[i] \in Issued(k)
      BY <1>1
    <2> QED
      BY <2>1, SubSeqProperties DEF TextsOver
  <1>3. ASSUME NEW s \in TextsOver(k) PROVE s \o t \in TextsOver(k)
    BY ConcatProperties DEF TextsOver
  <1> QED
    BY <1>2, <1>3

\* The word stands at its place, which is not before the phrase.
LEMMA PlaceFacts ==
    ASSUME NEW t \in Text, Announced(t)
    PROVE  LET w == WordStart(t)
               e == WordEnd(t)
           IN  /\ w \in 1..Len(t) /\ e \in w..Len(t)
               /\ PhraseStart(t) \in 1..(w - 1) /\ Place(t) \in PhraseStart(t)..w
               /\ Place(t) + e - w <= Len(t)
               /\ \A i \in w..e : t[Place(t) + i - w] = t[i]
  <1> DEFINE w == WordStart(t)
             e == WordEnd(t)
             f == PhraseStart(t)
             word == SubSeq(t, w, e)
             T == {i \in f..w : OccursAt(word, i, t)}
             m == Place(t)
  <1>1. w # 0 /\ f > 0 /\ Len(t) \in Nat /\ Len(Phrase) \in Nat
    BY AtomAssumption, LenProperties DEF Announced, Text
  <1>2. w \in 1..Len(t) /\ e \in w..Len(t)
    BY <1>1, WordEndFacts
  <1>3. f \in 1..(w - 1)
    <2>1. KeywordAt(t) \in 1..(w - 1)
      BY <1>1, WordStartFacts DEF KeywordBefore
    <2> QED
      BY <1>1, <1>2, <2>1 DEF PhraseStart
  <1>4. Len(word) = e + 1 - w /\ \A i \in 1..(e + 1 - w) : word[i] = t[w + i - 1]
    <2>1. w \in 1..(Len(t) + 1) /\ e \in (w - 1)..Len(t)
      BY <1>1, <1>2
    <2> HIDE DEF w, e
    <2> QED
      BY <2>1, PartFacts
  <1>5. m = CHOOSE i \in f..w : OccursAt(word, i, t) /\ \A j \in f..(i - 1) : ~OccursAt(word, j, t)
    BY DEF Place
  <1> HIDE DEF w, e, f, word, m
  <1>6. w \in T
    <2>1. OccursAt(word, w, t)
      <3>1. w + Len(word) - 1 <= Len(t)
        BY <1>1, <1>2, <1>4
      <3>2. \A k \in 1..Len(word) : t[w + k - 1] = word[k]
        BY <1>4
      <3> QED
        BY <3>1, <3>2 DEF OccursAt
    <2> QED
      BY <1>1, <1>2, <1>3, <2>1
  <1>7. PICK i \in T : \A j \in T : i <= j
    <2>1. T \in SUBSET Nat
      BY <1>2, <1>3
    <2> HIDE DEF T
    <2> QED
      BY <1>6, <2>1, LeastNumber
  <1>8. i \in f..w /\ OccursAt(word, i, t) /\ \A j \in f..(i - 1) : ~OccursAt(word, j, t)
    <2>1. i \in f..w /\ OccursAt(word, i, t)
      OBVIOUS
    <2>2. ASSUME NEW j \in f..(i - 1), OccursAt(word, j, t) PROVE FALSE
      <3>1. j \in f..w /\ j < i
        BY <1>2, <1>3, <2>1
      <3>2. j \in T
        BY <2>2, <3>1
      <3> QED
        BY <1>2, <1>3, <1>7, <2>1, <3>1, <3>2
    <2> QED
      BY <2>1, <2>2
  <1>9. m \in f..w /\ OccursAt(word, m, t)
    BY <1>5, <1>8, Zenon
  <1>10. m + Len(word) - 1 <= Len(t) /\ \A k \in 1..Len(word) : t[m + k - 1] = word[k]
    BY <1>9 DEF OccursAt
  <1>11. m + e - w <= Len(t)
    BY <1>1, <1>2, <1>3, <1>4, <1>9, <1>10
  <1>12. ASSUME NEW n \in w..e PROVE t[m + n - w] = t[n]
    <2>1. n - w + 1 \in 1..Len(word) /\ m + (n - w + 1) - 1 = m + n - w /\ w + (n - w + 1) - 1 = n
      BY <1>1, <1>2, <1>3, <1>4, <1>9
    <2>2. t[m + (n - w + 1) - 1] = word[n - w + 1]
      BY <1>10, <2>1
    <2>3. word[n - w + 1] = t[w + (n - w + 1) - 1]
      BY <1>4, <2>1
    <2> QED
      BY <2>1, <2>2, <2>3
  <1> QED
    BY <1>2, <1>3, <1>9, <1>11, <1>12 DEF w, e, f, m

LEMMA SecretFacts ==
    ASSUME NEW k \in Nat, NEW t \in TextsOver(k), Announced(t)
    PROVE  /\ Place(t) \in 1..Len(t)
           /\ KeptFrom(t) \in Place(t)..(Len(t) + 1)
           /\ AfterSecret(t) = From(t, KeptFrom(t)) /\ AfterSecret(t) \in TextsOver(k)
           /\ SubSeq(t, 1, Place(t) - 1) \in TextsOver(k)
           /\ Secret(t) \in TextsOver(k) /\ Secret(t) # <<>>
           /\ ~OnlyDots(t) =>
                 t = SubSeq(t, 1, Place(t) - 1) \o (Secret(t) \o AfterSecret(t))
  <1> DEFINE N == Len(t)
             w == WordStart(t)
             e == WordEnd(t)
             d == TrailingEnd(t)
             last_ == IF d = 0 THEN e ELSE d
             m == Place(t)
             p == KeptFrom(t)
  <1>1. t \in Text /\ N \in Nat
    BY TextsOverFacts, LenProperties DEF Text
  <1>2. w \in 1..N /\ e \in w..N /\ (d # 0 => d \in w..e)
    BY <1>1, WordEndFacts DEF Announced
  <1>3. Secret(t) = SubSeq(t, w, last_) /\ AfterSecret(t) = From(t, p)
        /\ AfterSecret(t) = SubSeq(t, p, N)
    BY DEF Secret, AfterSecret, From
  <1>4. /\ m \in 1..w /\ m + e - w <= N
        /\ \A i \in w..e : t[m + i - w] = t[i]
    BY <1>1, <1>2, PlaceFacts
  <1>5. p = m + (IF d = 0 THEN 0 ELSE d + 1 - w)
    BY DEF KeptFrom
  <1>6. OnlyDots(t) <=> d = 0
    BY <1>1, <1>2 DEF OnlyDots
  <1> HIDE DEF w, e, d, m, p, N
  <1>7. last_ \in w..e /\ p \in m..(N + 1)
    BY <1>1, <1>2, <1>4, <1>5
  <1>8. d # 0 => p = m + last_ + 1 - w
    BY <1>2, <1>4, <1>5
  <1> HIDE DEF last_
  <1>9. /\ 1 \in 1..(N + 1) /\ m - 1 \in (1 - 1)..N
        /\ w \in 1..(N + 1) /\ last_ \in (w - 1)..N
        /\ p \in 1..(N + 1) /\ N \in (p - 1)..N /\ m \in 1..N
    <2>1. /\ N \in Nat /\ w \in Nat /\ e \in Nat /\ m \in Nat /\ last_ \in Nat /\ p \in Nat
          /\ 1 <= m /\ m <= w /\ w <= e /\ e <= N /\ w <= last_ /\ last_ <= e /\ m <= p /\ p <= N + 1
      BY <1>1, <1>2, <1>4, <1>7
    <2> QED
      BY <2>1
  <1>10. /\ SubSeq(t, 1, m - 1) \in TextsOver(k)
         /\ SubSeq(t, w, last_) \in TextsOver(k)
         /\ SubSeq(t, p, N) \in TextsOver(k)
    BY <1>9, PartsOver DEF N
  <1>11. SubSeq(t, w, last_) # <<>>
    <2>1. Len(SubSeq(t, w, last_)) = last_ + 1 - w
      BY <1>1, <1>9, PartFacts DEF N
    <2>2. last_ + 1 - w >= 1
      BY <1>1, <1>2, <1>7
    <2> DEFINE s == SubSeq(t, w, last_)
    <2>3. Len(s) >= 1
      BY <2>1, <2>2
    <2>4. Len(<<>>) = 0
      OBVIOUS
    <2> HIDE DEF s
    <2>5. s # <<>>
      BY <2>3, <2>4
    <2> QED
      BY <2>5 DEF s
  <1>12. ASSUME ~OnlyDots(t)
         PROVE  t = SubSeq(t, 1, m - 1) \o (SubSeq(t, w, last_) \o From(t, p))
    <2>1. /\ p = m + last_ + 1 - w /\ (m - 1) + 1 = m /\ (p - 1) + 1 = p
          /\ p - 1 \in (m - 1)..N /\ m \in 1..(N + 1) /\ last_ + 1 - w \in Nat
      BY <1>1, <1>2, <1>4, <1>6, <1>7, <1>9, <1>8, <1>12
    <2>2. From(t, 1) = SubSeq(t, 1, m - 1) \o From(t, (m - 1) + 1)
      BY <1>1, <1>9, Cut, Zenon DEF N
    <2>3. From(t, m) = SubSeq(t, m, p - 1) \o From(t, (p - 1) + 1)
      BY <1>1, <2>1, Cut, Zenon DEF N
    <2>4. From(t, 1) = t
      BY <1>1, Whole
    <2>5. SubSeq(t, m, p - 1) = SubSeq(t, w, last_)
      <3> DEFINE x == SubSeq(t, m, p - 1)
                 y == SubSeq(t, w, last_)
                 n == last_ + 1 - w
                 g == p - 1
      <3>1. g \in (m - 1)..N /\ g + 1 - m = n
        BY <1>1, <1>2, <1>4, <1>7, <2>1
      <3>2. x \in Text /\ Len(x) = n /\ \A i \in 1..n : x[i] = t[m + i - 1]
        <4> HIDE DEF g
        <4>1. SubSeq(t, m, g) \in Text /\ Len(SubSeq(t, m, g)) = g + 1 - m
              /\ \A i \in 1..(g + 1 - m) : SubSeq(t, m, g)[i] = t[m + i - 1]
          BY <1>1, <2>1, <3>1, PartFacts DEF N
        <4> HIDE DEF n
        <4> QED
          BY <3>1, <4>1 DEF g
      <3>3. y \in Text /\ Len(y) = n /\ \A i \in 1..n : y[i] = t[w + i - 1]
        BY <1>1, <1>9, PartFacts DEF N
      <3>4. ASSUME NEW i \in 1..n PROVE x[i] = y[i]
        <4>1. w + i - 1 \in w..e /\ m + (w + i - 1) - w = m + i - 1
          BY <1>1, <1>2, <1>4, <1>7
        <4>2. t[m + (w + i - 1) - w] = t[w + i - 1]
          BY <1>4, <4>1
        <4> QED
          BY <3>2, <3>3, <4>1, <4>2
      <3> HIDE DEF x, y, n
      <3>5. x = y
        BY <3>2, <3>3, <3>4, SeqEqual DEF Text
      <3> QED
        BY <3>5 DEF x, y
    <2> QED
      BY <2>1, <2>2, <2>3, <2>4, <2>5
  <1> QED
    BY <1>3, <1>7, <1>9, <1>10, <1>11, <1>12 DEF m, p, N

\* A text whose middle became a token.
Marked(t, i) == SubSeq(t, 1, Place(t) - 1) \o (<<i>> \o AfterSecret(t))

LEMMA TakeSecretFacts ==
    ASSUME NEW v \in Vaults, NEW t \in TextsOver(Len(v)),
           NEW r, r = TakeSecret([vault |-> v, text |-> t])
    PROVE  /\ ~Announced(t) => r.vault = v /\ r.text = t
           /\ Announced(t) => \E i \in 1..Len(r.vault) : r.text = Marked(t, i)
           /\ Extends(v, r.vault)
           /\ r.text \in TextsOver(Len(r.vault))
           /\ ~OnlyDots(t) =>
                 \A w : Extends(r.vault, w) => Resolved(w, r.text) = Resolved(w, t)
  <1>1. Len(v) \in Nat /\ t \in Text
    BY VaultFacts, TextsOverFacts
  <1>2. CASE ~Announced(t)
    <2>1. r = [vault |-> v, text |-> t]
      BY <1>2 DEF TakeSecret
    <2>2. r.vault = v /\ r.text = t
      BY <2>1
    <2>3. Extends(v, v)
      BY ExtendsFacts
    <2> QED
      BY <1>2, <2>2, <2>3
  <1>3. CASE Announced(t)
    <2> DEFINE u == tokenize(v, "secret", Secret(t))
               i == TokenOf(u, "secret", Secret(t))
               before == SubSeq(t, 1, Place(t) - 1)
               after == AfterSecret(t)
    <2>1. /\ before \in TextsOver(Len(v)) /\ after \in TextsOver(Len(v))
          /\ Secret(t) \in TextsOver(Len(v)) /\ Secret(t) # <<>>
          /\ ~OnlyDots(t) => t = before \o (Secret(t) \o after)
      BY <1>1, <1>3, SecretFacts
    <2>2. "secret" \in Labels
      BY DEF Labels
    <2>3. Extends(v, u) /\ i \in 1..Len(u) /\ u[i].raw = Secret(t)
      <3> DEFINE word == Secret(t)
      <3>1. word \in TextsOver(Len(v)) /\ word # <<>>
        BY <2>1
      <3> HIDE DEF word
      <3>2. /\ Extends(v, tokenize(v, "secret", word))
            /\ TokenOf(tokenize(v, "secret", word), "secret", word)
                  \in 1..Len(tokenize(v, "secret", word))
            /\ tokenize(v, "secret", word)[TokenOf(tokenize(v, "secret", word), "secret", word)]
                  = [label |-> "secret", raw |-> word]
        BY <2>2, <3>1, TokenizeFacts, Zenon
      <3> QED
        BY <3>2 DEF word
    <2>4. r.vault = u /\ r.text = (before \o <<i>>) \o after
      <3>1. r = [vault |-> u, text |-> (before \o <<i>>) \o after]
        BY <1>3 DEF TakeSecret
      <3> HIDE DEF u, i, before, after
      <3> QED
        BY <3>1
    <2> HIDE DEF u, i
    <2>5. Len(u) \in Nat /\ Len(v) <= Len(u) /\ u \in Vaults
      BY <2>3, VaultFacts DEF Extends
    <2>6. before \in TextsOver(Len(u)) /\ after \in TextsOver(Len(u)) /\ Secret(t) \in TextsOver(Len(u))
      BY <1>1, <2>1, <2>5, TextsOverFacts
    <2>7. <<i>> \in TextsOver(Len(u))
      BY <2>3, <2>5 DEF TextsOver, Issued
    <2>8. before \in Text /\ after \in Text /\ <<i>> \in Text /\ Secret(t) \in Text
      <3>1. TextsOver(Len(u)) \subseteq Text
        BY <2>5, TextsOverFacts
      <3> QED
        BY <2>6, <2>7, <3>1, Zenon
    <2> HIDE DEF before, after
    <2>9. (before \o <<i>>) \o after = before \o (<<i>> \o after)
      <3> DEFINE tok == <<i>>
      <3>1. tok \in Text
        BY <2>8
      <3> HIDE DEF tok
      <3>2. \A c \in Text : (before \o tok) \o c = before \o (tok \o c)
        BY <2>8, <3>1, ConcatText, Zenon
      <3>3. (before \o tok) \o after = before \o (tok \o after)
        BY <2>8, <3>2, Zenon
      <3> QED
        BY <3>3 DEF tok
    <2>10. before \o (<<i>> \o after) \in TextsOver(Len(u))
      <3>1. <<i>> \o after \in TextsOver(Len(u))
        BY <2>5, <2>6, <2>7, PartsOver, Zenon
      <3> QED
        BY <2>5, <2>6, <3>1, PartsOver, Zenon
    <2>11. r.vault = u /\ r.text = before \o (<<i>> \o after)
      BY <2>4, <2>9
    <2>12. ASSUME ~OnlyDots(t), NEW w, Extends(u, w) PROVE Resolved(w, r.text) = Resolved(w, t)
      <3> DEFINE H == RestoreMap(w, Latest(w))
                 tok == <<i>>
                 word == Secret(t)
      <3>1. w \in Vaults /\ i \in 1..Len(w) /\ w[i] = u[i]
        BY <2>3, <2>5, <2>12, VaultFacts DEF Extends
      <3>2. Hom(H) /\ \A s \in Text : H[s] = Resolved(w, s)
        BY <3>1, ResolvedFacts
      <3>3. Resolved(w, tok) = Resolved(w, word)
        BY <2>3, <3>1, ResolvedFacts
      <3>4. t = before \o (word \o after) /\ r.text = before \o (tok \o after)
        BY <2>1, <2>11, <2>12 DEF before, after
      <3> HIDE DEF H, tok, word
      <3>5. tok \in Text /\ word \in Text
        BY <2>8 DEF tok, word
      <3>6. tok \o after \in Text /\ word \o after \in Text
        BY <2>8, <3>5, ConcatAssociates, Zenon
      <3>7. H[tok \o after] = H[word \o after]
        <4>1. H[tok \o after] = H[tok] \o H[after]
          BY <2>8, <3>2, <3>5 DEF Hom
        <4>2. H[word \o after] = H[word] \o H[after]
          BY <2>8, <3>2, <3>5 DEF Hom
        <4>3. H[tok] = H[word]
          BY <3>2, <3>3, <3>5
        <4> QED
          BY <4>1, <4>2, <4>3
      <3>8. H[before \o (tok \o after)] = H[before] \o H[tok \o after]
        BY <2>8, <3>2, <3>6 DEF Hom
      <3>9. H[before \o (word \o after)] = H[before] \o H[word \o after]
        BY <2>8, <3>2, <3>6 DEF Hom
      <3>10. before \o (tok \o after) \in Text /\ before \o (word \o after) \in Text
        BY <2>8, <3>6, ConcatAssociates, Zenon
      <3> QED
        BY <3>2, <3>4, <3>7, <3>8, <3>9, <3>10
    <2> QED
      BY <1>3, <2>3, <2>10, <2>11, <2>12 DEF Marked, before, after
  <1> QED
    BY <1>2, <1>3

-----------------------------------------------------------------------------
(* Atoms of a recognisable form become tokens.                              *)
LEMMA TailAt ==
    ASSUME NEW t \in Text, t # <<>>
    PROVE  /\ Len(t) \in Nat /\ Len(t) >= 1
           /\ Tail(t) \in Text /\ Len(Tail(t)) = Len(t) - 1
           /\ t = <<t[1]>> \o Tail(t) /\ t[1] \in Atom
           /\ \A i \in 1..(Len(t) - 1) : Tail(t)[i] = t[i + 1]
  <1>1. /\ Len(t) \in Nat /\ Len(t) >= 1 /\ Tail(t) \in Text /\ Len(Tail(t)) = Len(t) - 1
        /\ Tail(t) = From(t, 2) /\ t = <<t[1]>> \o Tail(t) /\ t[1] \in Atom
    <2>1. Len(t) \in Nat
      BY LenProperties DEF Text
    <2> QED
      BY <2>1, HeadAndTail
  <1>2. \A i \in 1..(Len(t) + 1 - 2) : From(t, 2)[i] = t[2 + i - 1]
    <2>1. 2 \in 1..(Len(t) + 1)
      BY <1>1
    <2> QED
      BY <2>1, FromFacts, Zenon
  <1>3. ASSUME NEW i \in 1..(Len(t) - 1) PROVE Tail(t)[i] = t[i + 1]
    <2>1. i \in 1..(Len(t) + 1 - 2) /\ 2 + i - 1 = i + 1
      BY <1>1
    <2>2. From(t, 2)[i] = t[i + 1]
      BY <1>2, <2>1
    <2> QED
      BY <1>1, <2>2
  <1> QED
    BY <1>1, <1>3

LEMMA HomPointwise ==
    ASSUME NEW H, Hom(H)
    PROVE  \A s \in Text : \A t \in Text :
              Len(s) = Len(t) /\ (\A i \in 1..Len(s) : H[<<s[i]>>] = H[<<t[i]>>]) => H[s] = H[t]
  <1> DEFINE P == {s \in Text : \A t \in Text :
                      Len(s) = Len(t) /\ (\A i \in 1..Len(s) : H[<<s[i]>>] = H[<<t[i]>>])
                         => H[s] = H[t]}
  <1>1. ASSUME NEW s \in Text, \A u \in Text : Len(u) < Len(s) => u \in P PROVE s \in P
    <2> SUFFICES ASSUME NEW t \in Text, Len(s) = Len(t),
                        \A i \in 1..Len(s) : H[<<s[i]>>] = H[<<t[i]>>]
                 PROVE  H[s] = H[t]
      OBVIOUS
    <2>1. CASE s = <<>>
      <3>1. Len(t) = 0
        BY <2>1
      <3>2. t = <<>>
        BY <3>1, EmptySeq DEF Text
      <3> QED
        BY <2>1, <3>2
    <2>2. CASE s # <<>>
      <3> DEFINE a == <<s[1]>>
                 b == <<t[1]>>
                 p == Tail(s)
                 q == Tail(t)
      <3>1. Len(s) \in Nat /\ Len(s) >= 1 /\ p \in Text /\ Len(p) = Len(s) - 1 /\ s = a \o p
            /\ s[1] \in Atom /\ \A i \in 1..(Len(s) - 1) : p[i] = s[i + 1]
        BY <2>2, TailAt, Zenon
      <3>2. t # <<>>
        <4>1. Len(t) >= 1
          BY <3>1
        <4> QED
          BY <4>1
      <3>3. q \in Text /\ Len(q) = Len(t) - 1 /\ t = b \o q
            /\ t[1] \in Atom /\ \A i \in 1..(Len(t) - 1) : q[i] = t[i + 1]
        BY <3>2, TailAt, Zenon
      <3>4. a \in Text /\ b \in Text
        BY <3>1, <3>3 DEF Text
      <3>5. H[a] = H[b]
        <4>1. 1 \in 1..Len(s)
          BY <3>1
        <4> QED
          BY <4>1
      <3>6. \A i \in 1..Len(p) : H[<<p[i]>>] = H[<<q[i]>>]
        <4> SUFFICES ASSUME NEW i \in 1..Len(p) PROVE H[<<p[i]>>] = H[<<q[i]>>]
          OBVIOUS
        <4>1. i \in 1..(Len(s) - 1) /\ i \in 1..(Len(t) - 1) /\ i + 1 \in 1..Len(s)
          BY <3>1
        <4>2. p[i] = s[i + 1] /\ q[i] = t[i + 1]
          BY <3>1, <3>3, <4>1
        <4>3. H[<<s[i + 1]>>] = H[<<t[i + 1]>>]
          BY <4>1
        <4> HIDE DEF p, q
        <4> QED
          BY <4>2, <4>3
      <3> HIDE DEF p, q, a, b
      <3>7. H[p] = H[q]
        <4>1. p \in P /\ Len(p) = Len(q)
          BY <1>1, <3>1, <3>3
        <4> QED
          BY <3>3, <3>6, <4>1
      <3>8. H[a \o p] = H[a] \o H[p]
        BY <3>1, <3>4 DEF Hom
      <3>9. H[b \o q] = H[b] \o H[q]
        BY <3>3, <3>4 DEF Hom
      <3>10. H[a \o p] = H[b \o q]
        BY <3>5, <3>7, <3>8, <3>9
      <3> QED
        BY <3>1, <3>3, <3>10
    <2> QED
      BY <2>1, <2>2
  <1>2. Text \subseteq P
    <2> HIDE DEF P
    <2> QED
      BY <1>1, TextInduction
  <1> QED
    BY <1>2

\* The vaults on the way through a text.
Shaping(f, v, t, w) ==
    /\ f \in [0..Len(t) -> {x \in Vaults : Extends(v, x)}]
    /\ f[0] = v /\ f[Len(t)] = w
    /\ \A n \in 1..Len(t) :
          f[n] = IF t[n] \in Shaped THEN tokenize(f[n - 1], "shaped", <<t[n]>>) ELSE f[n - 1]

LEMMA ShapingSteps ==
    ASSUME NEW v \in Vaults, NEW t \in TextsOver(Len(v)),
           NEW r, r = TakeShaped([vault |-> v, text |-> t])
    PROVE  \E f : Shaping(f, v, t, r.vault)
  <1> DEFINE N == Len(t)
             S == {x \in Vaults : Extends(v, x)}
             shaped == {i \in DOMAIN t : t[i] \in Shaped}
             F == [n \in 1..N |-> [x \in S |->
                      IF n \in shaped THEN tokenize(x, "shaped", <<t[n]>>) ELSE x]]
             body(f) == [n \in 0..N |->
                            CASE n = 0 -> v
                              [] n \in shaped -> tokenize(f[n - 1], "shaped", <<t[n]>>)
                              [] OTHER -> f[n - 1]]
             c == CHOOSE f : f = body(f)
  <1>1. N \in Nat /\ DOMAIN t = 1..N /\ \A n \in 1..N : t[n] \in Issued(Len(v))
    BY DEF TextsOver
  <1>2. shaped \subseteq 1..N /\ \A n \in 1..N : n \in shaped <=> t[n] \in Shaped
    BY <1>1
  <1>3. r.vault = c[N]
    BY DEF TakeShaped
  <1>4. v \in S
    BY ExtendsFacts
  <1>5. ASSUME NEW n \in 1..N, NEW x \in S
        PROVE  (IF n \in shaped THEN tokenize(x, "shaped", <<t[n]>>) ELSE x) \in S
    <2>1. Len(v) \in Nat /\ Len(x) \in Nat /\ Len(v) <= Len(x)
      BY VaultFacts DEF Extends
    <2>2. t[n] \in Issued(Len(x))
      BY <1>1, <2>1 DEF Issued
    <2> DEFINE word == <<t[n]>>
    <2>3. word \in TextsOver(Len(x)) /\ word # <<>> /\ "shaped" \in Labels
      BY <2>2 DEF TextsOver, Labels
    <2> HIDE DEF word
    <2>4. Extends(x, tokenize(x, "shaped", word))
      BY <2>3, TokenizeFacts
    <2>5. Extends(v, tokenize(x, "shaped", word))
      BY <2>4, ExtendsFacts
    <2>6. tokenize(x, "shaped", word) \in S
      BY <2>4, <2>5 DEF Extends
    <2> QED
      BY <2>6 DEF word
  <1>6. \A n \in 1..N : \A x \in S :
           F[n][x] = (IF n \in shaped THEN tokenize(x, "shaped", <<t[n]>>) ELSE x) /\ F[n][x] \in S
    BY <1>5
  <1> HIDE DEF F, S, N, shaped
  <1>7. PICK f : Chained(f, N, S, v, F)
    BY <1>1, <1>4, <1>6, Chain
  <1>8. f \in [0..N -> S] /\ f[0] = v /\ \A n \in 1..N : f[n] = F[n][f[n - 1]]
    BY <1>7 DEF Chained
  <1>9. ASSUME NEW n \in 1..N
        PROVE  f[n] = (IF n \in shaped THEN tokenize(f[n - 1], "shaped", <<t[n]>>) ELSE f[n - 1])
    <2>1. f[n - 1] \in S
      BY <1>1, <1>8
    <2> QED
      BY <1>6, <1>8, <2>1
  <1>10. f = body(f)
    <2>1. ASSUME NEW n \in 0..N
          PROVE  f[n] = CASE n = 0 -> v
                          [] n \in shaped -> tokenize(f[n - 1], "shaped", <<t[n]>>)
                          [] OTHER -> f[n - 1]
      <3>1. CASE n = 0
        <4>1. n \notin shaped
          BY <1>1, <1>2, <3>1
        <4> QED
          BY <1>8, <3>1, <4>1
      <3>2. CASE n # 0
        <4>1. n \in 1..N
          BY <1>1, <3>2
        <4> QED
          BY <1>9, <3>2, <4>1
      <3> QED
        BY <3>1, <3>2
    <2>2. f = [n \in 0..N |-> f[n]]
      BY <1>8
    <2> QED
      BY <2>1, <2>2
  <1>11. c = body(c)
    <2> HIDE DEF body
    <2> QED
      BY <1>10
  <1> HIDE DEF c
  <1>12. \A n \in 0..N : c[n] = CASE n = 0 -> v
                                  [] n \in shaped -> tokenize(c[n - 1], "shaped", <<t[n]>>)
                                  [] OTHER -> c[n - 1]
    <2>1. \A n \in 0..N : c[n] = body(c)[n]
      <3> HIDE DEF body
      <3> QED
        BY <1>11
    <2> QED
      BY <2>1
  <1>13. c[0] = v
    <2>1. 0 \in 0..N /\ 0 \notin shaped
      BY <1>1, <1>2
    <2> QED
      BY <1>12, <2>1
  <1>14. ASSUME NEW n \in 1..N
         PROVE  c[n] = IF n \in shaped THEN tokenize(c[n - 1], "shaped", <<t[n]>>) ELSE c[n - 1]
    <2>1. n \in 0..N /\ n # 0
      BY <1>1
    <2> QED
      BY <1>12, <2>1
  <1>15. c = [n \in 0..N |-> c[n]]
    <2>1. body(c) = [n \in 0..N |-> body(c)[n]]
      OBVIOUS
    <2> HIDE DEF body
    <2> QED
      BY <1>11, <2>1
  <1> DEFINE P == {n \in 0..N : c[n] \in S}
  <1>16. 0 \in P
    BY <1>1, <1>4, <1>13
  <1>17. ASSUME NEW n \in 1..N, n - 1 \in P PROVE n \in P
    <2>1. c[n - 1] \in S /\ n \in 0..N
      BY <1>1, <1>17
    <2>2. (IF n \in shaped THEN tokenize(c[n - 1], "shaped", <<t[n]>>) ELSE c[n - 1]) \in S
      BY <1>5, <2>1
    <2> QED
      BY <1>14, <2>1, <2>2
  <1>18. 0..N \subseteq P
    <2> HIDE DEF P
    <2> QED
      BY <1>1, <1>16, <1>17, CountUp
  <1>19. c \in [0..N -> S]
    BY <1>15, <1>18
  <1>20. \A n \in 1..N :
            c[n] = IF t[n] \in Shaped THEN tokenize(c[n - 1], "shaped", <<t[n]>>) ELSE c[n - 1]
    BY <1>2, <1>14
  <1> QED
    BY <1>3, <1>13, <1>19, <1>20 DEF Shaping, N, S

LEMMA TakeShapedFacts ==
    ASSUME NEW v \in Vaults, NEW t \in TextsOver(Len(v)),
           NEW r, r = TakeShaped([vault |-> v, text |-> t])
    PROVE  /\ Extends(v, r.vault)
           /\ r.text \in TextsOver(Len(r.vault)) /\ Len(r.text) = Len(t)
           /\ \A i \in 1..Len(t) :
                 IF t[i] \in Shaped
                 THEN r.text[i] \in 1..Len(r.vault) /\ r.vault[r.text[i]].raw = <<t[i]>>
                 ELSE r.text[i] = t[i]
           /\ \A w : Extends(r.vault, w) => Resolved(w, r.text) = Resolved(w, t)
  <1> DEFINE N == Len(t)
             u == r.vault
             s == r.text
  <1>1. PICK f : Shaping(f, v, t, u)
    BY ShapingSteps
  <1>2. /\ N \in Nat /\ DOMAIN t = 1..N /\ Len(v) \in Nat /\ t \in Text
        /\ \A n \in 1..N : t[n] \in Issued(Len(v))
    <2>1. N \in Nat /\ DOMAIN t = 1..N /\ \A n \in 1..N : t[n] \in Issued(Len(v))
      BY DEF TextsOver
    <2>2. Len(v) \in Nat
      BY VaultFacts
    <2>3. t \in Text
      BY <2>2, TextsOverFacts
    <2> QED
      BY <2>1, <2>2, <2>3
  <1>3. /\ \A n \in 0..N : f[n] \in Vaults /\ Extends(v, f[n])
        /\ f[0] = v /\ f[N] = u
        /\ \A n \in 1..N :
              f[n] = IF t[n] \in Shaped THEN tokenize(f[n - 1], "shaped", <<t[n]>>) ELSE f[n - 1]
    BY <1>1 DEF Shaping
  <1>4. ASSUME NEW n \in 1..N
        PROVE  /\ Extends(f[n - 1], f[n])
               /\ t[n] \in Shaped =>
                     \E i \in 1..Len(f[n]) : f[n][i] = [label |-> "shaped", raw |-> <<t[n]>>]
    <2> DEFINE x == f[n - 1]
               word == <<t[n]>>
    <2>1. x \in Vaults /\ Extends(v, x)
      BY <1>2, <1>3
    <2>2. CASE t[n] \in Shaped
      <3>1. Len(x) \in Nat /\ Len(v) <= Len(x)
        BY <2>1, VaultFacts DEF Extends
      <3>2. t[n] \in Issued(Len(x))
        BY <1>2, <3>1 DEF Issued
      <3>3. word \in TextsOver(Len(x)) /\ word # <<>> /\ "shaped" \in Labels
        BY <3>2 DEF TextsOver, Labels
      <3>4. f[n] = tokenize(x, "shaped", word)
        BY <1>3, <2>2
      <3> HIDE DEF x, word
      <3>5. /\ Extends(x, tokenize(x, "shaped", word))
            /\ \E i \in 1..Len(tokenize(x, "shaped", word)) :
                  tokenize(x, "shaped", word)[i] = [label |-> "shaped", raw |-> word]
        BY <2>1, <3>3, TokenizeFacts
      <3> QED
        BY <3>4, <3>5 DEF x, word
    <2>3. CASE t[n] \notin Shaped
      <3>1. f[n] = x
        BY <1>3, <2>3
      <3>2. Extends(x, x)
        BY <2>1, ExtendsFacts
      <3> QED
        BY <2>3, <3>1, <3>2
    <2> QED
      BY <2>2, <2>3
  <1>5. ASSUME NEW n \in 0..N PROVE Extends(f[n], u)
    <2> DEFINE P == {m \in 0..N : m >= n => Extends(f[n], f[m])}
    <2>1. Extends(f[n], f[n])
      BY <1>3, ExtendsFacts
    <2>2. 0 \in P
      BY <1>2, <2>1
    <2>3. ASSUME NEW m \in 1..N, m - 1 \in P PROVE m \in P
      <3>1. CASE m - 1 >= n
        <4>1. Extends(f[n], f[m - 1]) /\ Extends(f[m - 1], f[m])
          BY <1>4, <2>3, <3>1
        <4>2. Extends(f[n], f[m])
          BY <4>1, ExtendsFacts
        <4> QED
          BY <1>2, <4>2
      <3>2. CASE ~(m - 1 >= n)
        <4>1. m = n \/ ~(m >= n)
          BY <1>2, <3>2
        <4> QED
          BY <1>2, <2>1, <4>1
      <3> QED
        BY <3>1, <3>2
    <2>4. 0..N \subseteq P
      <3> HIDE DEF P
      <3> QED
        BY <1>2, <2>2, <2>3, CountUp
    <2>5. N \in P
      <3> HIDE DEF P
      <3> QED
        BY <1>2, <2>4
    <2> QED
      BY <1>2, <1>3, <2>5
  <1>6. Extends(v, u) /\ u \in Vaults /\ Len(u) \in Nat /\ Len(v) <= Len(u)
    <2>1. Extends(v, u)
      BY <1>2, <1>3
    <2> QED
      BY <2>1, VaultFacts DEF Extends
  <1>7. ASSUME NEW n \in 1..N, t[n] \in Shaped
        PROVE  TokenOf(u, "shaped", <<t[n]>>) \in 1..Len(u)
               /\ u[TokenOf(u, "shaped", <<t[n]>>)].raw = <<t[n]>>
    <2> DEFINE word == <<t[n]>>
               e == [label |-> "shaped", raw |-> word]
    <2>1. PICK i \in 1..Len(f[n]) : f[n][i] = e
      BY <1>4, <1>7
    <2>2. Extends(f[n], u) /\ Len(f[n]) \in Nat
      BY <1>2, <1>3, <1>5, VaultFacts
    <2>3. i \in 1..Len(u) /\ u[i] = e
      <3> HIDE DEF e
      <3> QED
        BY <1>6, <2>1, <2>2 DEF Extends
    <2> HIDE DEF word
    <2>4. Entry(u, "shaped", word) \in 1..Len(u) /\ u[Entry(u, "shaped", word)] = e
      BY <1>6, <2>3, EntryFacts
    <2> QED
      BY <2>4 DEF TokenOf, word
  <1>8. s = [i \in 1..N |-> IF t[i] \in Shaped THEN TokenOf(u, "shaped", <<t[i]>>) ELSE t[i]]
    <2> DEFINE shaped == {i \in DOMAIN t : t[i] \in Shaped}
    <2>1. s = [i \in DOMAIN t |-> IF i \in shaped THEN TokenOf(u, "shaped", <<t[i]>>) ELSE t[i]]
      BY DEF TakeShaped
    <2>2. \A i \in 1..N : i \in shaped <=> t[i] \in Shaped
      BY <1>2
    <2> HIDE DEF shaped, u
    <2> QED
      BY <1>2, <2>1, <2>2
  <1> HIDE DEF s, u
  <1>9. \A i \in 1..N :
           IF t[i] \in Shaped THEN s[i] \in 1..Len(u) /\ u[s[i]].raw = <<t[i]>> ELSE s[i] = t[i]
    BY <1>7, <1>8
  <1>10. \A i \in 1..N : s[i] \in Issued(Len(u))
    <2>1. \A i \in 1..N : t[i] \in Issued(Len(u))
      BY <1>2, <1>6 DEF Issued
    <2> QED
      BY <1>9, <2>1 DEF Issued
  <1>11. s \in TextsOver(Len(u)) /\ Len(s) = N /\ s \in Text
    <2>1. s \in [1..N -> Issued(Len(u))]
      BY <1>8, <1>10
    <2>2. s \in Seq(Issued(Len(u)))
      BY <1>2, <2>1, SeqDef
    <2>3. Len(s) = N
      BY <1>2, <2>1, <2>2, LenProperties
    <2> QED
      BY <1>6, <2>2, <2>3, TextsOverFacts DEF TextsOver
  <1>12. ASSUME NEW w, Extends(u, w) PROVE Resolved(w, s) = Resolved(w, t)
    <2> DEFINE H == RestoreMap(w, Latest(w))
    <2>1. w \in Vaults /\ Len(w) \in Nat /\ Len(u) <= Len(w) /\ \A i \in 1..Len(u) : w[i] = u[i]
      BY <1>12, VaultFacts DEF Extends
    <2>2. Hom(H) /\ \A x \in Text : H[x] = Resolved(w, x)
      BY <2>1, ResolvedFacts
    <2> HIDE DEF H
    <2>3. ASSUME NEW i \in 1..Len(s) PROVE H[<<s[i]>>] = H[<<t[i]>>]
      <3> DEFINE a == <<s[i]>>
                 b == <<t[i]>>
      <3>1. i \in 1..N
        BY <1>11
      <3>2. s[i] \in Atom /\ t[i] \in Atom
        BY <1>11, <1>2, <3>1 DEF Text
      <3>3. a \in Text /\ b \in Text
        BY <3>2 DEF Text
      <3>4. CASE t[i] \in Shaped
        <4>1. s[i] \in 1..Len(u) /\ u[s[i]].raw = b
          BY <1>9, <3>1, <3>4
        <4>2. s[i] \in 1..Len(w) /\ w[s[i]].raw = b
          BY <1>6, <2>1, <4>1
        <4>3. Resolved(w, a) = Resolved(w, w[s[i]].raw)
          BY <2>1, <4>2, ResolvedFacts
        <4> HIDE DEF a, b
        <4> QED
          BY <2>2, <3>3, <4>2, <4>3 DEF a, b
      <3>5. CASE t[i] \notin Shaped
        BY <1>9, <3>1, <3>5
      <3> QED
        BY <3>4, <3>5
    <2>4. H[s] = H[t]
      BY <1>2, <1>11, <2>2, <2>3, HomPointwise
    <2> QED
      BY <1>2, <1>11, <2>2, <2>4
  <1> QED
    BY <1>6, <1>9, <1>11, <1>12 DEF s, u

-----------------------------------------------------------------------------
(* What a replacement leaves between two tokens is copied: the atoms from m *)
(* to n of u are those of t, d places further, and the value replaced does  *)
(* not begin at any of them.                                                *)
Copied(t, u, old, m, n, d) ==
    /\ d \in Nat /\ n + d <= Len(t)
    /\ \A k \in m..n : t[k + d] = u[k] /\ ~OccursAt(old, k + d, t)
    /\ n = Len(u) => n + d = Len(t)

LEMMA ConsAt ==
    ASSUME NEW a \in Atom, NEW q \in Text
    PROVE  /\ <<a>> \o q \in Text /\ Len(<<a>> \o q) = Len(q) + 1 /\ Len(q) \in Nat
           /\ (<<a>> \o q)[1] = a
           /\ \A i \in 1..Len(q) : (<<a>> \o q)[i + 1] = q[i]
  <1> DEFINE s == <<a>> \o q
  <1>1. s \in Text /\ s # <<>> /\ Head(s) = a /\ Tail(s) = q
    BY ConsText, Zenon
  <1>2. Len(q) \in Nat
    BY LenProperties DEF Text
  <1> HIDE DEF s
  <1>3. Head(s) = s[1]
    BY <1>1, HeadAndTail, Zenon
  <1> DEFINE r == Tail(s)
  <1>4. Len(s) \in Nat /\ Len(r) = Len(s) - 1 /\ r = q
        /\ \A i \in 1..(Len(s) - 1) : r[i] = s[i + 1]
    BY <1>1, TailAt
  <1> HIDE DEF r
  <1>5. Len(s) = Len(q) + 1
    BY <1>2, <1>4
  <1>6. \A i \in 1..Len(q) : s[i + 1] = q[i]
    BY <1>2, <1>4, <1>5
  <1> QED
    BY <1>1, <1>2, <1>3, <1>5, <1>6 DEF s

LEMMA OccursFurther ==
    ASSUME NEW old \in Text, NEW t \in Text, NEW j \in 1..(Len(t) + 1), NEW k \in Nat, k >= 1
    PROVE  OccursAt(old, k, From(t, j)) <=> OccursAt(old, k + j - 1, t)
  <1> DEFINE q == From(t, j)
  <1>1. Len(t) \in Nat /\ Len(old) \in Nat
    BY LenProperties DEF Text
  <1>2. q \in Text /\ Len(q) = Len(t) + 1 - j /\ \A i \in 1..(Len(t) + 1 - j) : q[i] = t[j + i - 1]
    BY FromFacts, Zenon
  <1> HIDE DEF q
  <1>3. k + Len(old) - 1 <= Len(q) <=> (k + j - 1) + Len(old) - 1 <= Len(t)
    BY <1>1, <1>2
  <1>4. ASSUME k + Len(old) - 1 <= Len(q), NEW i \in 1..Len(old)
        PROVE  q[k + i - 1] = t[(k + j - 1) + i - 1]
    <2>1. k + i - 1 \in 1..(Len(t) + 1 - j) /\ j + (k + i - 1) - 1 = (k + j - 1) + i - 1
      BY <1>1, <1>2, <1>4
    <2> QED
      BY <1>2, <2>1
  <1>5. OccursAt(old, k, q) <=> OccursAt(old, k + j - 1, t)
    BY <1>3, <1>4 DEF OccursAt
  <1> QED
    BY <1>5 DEF q

\* What a replacement by a token makes of the first atom of a text t: u and q
\* are what it makes of t and of the rest, which begins at j.
FirstSpan(t, old) == IF OccursAt(old, 1, t) THEN Len(old) + 1 ELSE 2

FirstReplaced(t, old, x, u, j, rest, q) ==
    /\ j \in 2..(Len(t) + 1)
    /\ rest \in Text /\ Len(rest) = Len(t) + 1 - j /\ Len(rest) < Len(t)
    /\ u \in Text /\ q \in Text
    /\ Len(u) = Len(q) + 1 /\ Len(q) \in Nat
    /\ u[1] = (IF OccursAt(old, 1, t) THEN x ELSE t[1])
    /\ \A i \in 1..Len(q) : u[i + 1] = q[i]

LEMMA ReplaceByToken ==
    ASSUME NEW old \in Text, old # <<>>, NEW x \in Atom, NEW t \in Text, t # <<>>
    PROVE  FirstReplaced(t, old, x, Replace(t, old, <<x>>), FirstSpan(t, old),
                         From(t, FirstSpan(t, old)), Replace(From(t, FirstSpan(t, old)), old, <<x>>))
  <1> DEFINE new == <<x>>
             u == Replace(t, old, new)
             j == FirstSpan(t, old)
             rest == From(t, j)
             q == Replace(rest, old, new)
             a == IF OccursAt(old, 1, t) THEN x ELSE t[1]
  <1>1. new \in Text
    BY DEF Text
  <1>2. Len(t) \in Nat /\ Len(t) >= 1 /\ Tail(t) = From(t, 2) /\ t[1] \in Atom /\ Head(t) = t[1]
    BY TailAt, HeadAndTail
  <1>3. Len(old) \in Nat /\ Len(old) >= 1
    BY EmptySeq DEF Text
  <1>4. j \in 2..(Len(t) + 1)
    BY <1>2, <1>3, RestIsShorter DEF FirstSpan
  <1>5. rest \in Text /\ Len(rest) = Len(t) + 1 - j
    <2>1. j \in 1..(Len(t) + 1)
      BY <1>2, <1>4
    <2> HIDE DEF j
    <2>2. From(t, j) \in Text
      BY <2>1, FromFacts
    <2>3. Len(From(t, j)) = Len(t) + 1 - j
      BY <2>1, FromFacts
    <2> QED
      BY <2>2, <2>3
  <1>6. Len(rest) < Len(t)
    BY <1>2, <1>4, <1>5
  <1>7. a \in Atom
    BY <1>2
  <1>8. u = <<a>> \o q
    <2>1. CASE OccursAt(old, 1, t)
      <3>1. j = Len(old) + 1 /\ a = x
        BY <2>1 DEF FirstSpan
      <3>2. u = new \o Replace(From(t, Len(old) + 1), old, new)
        BY <1>1, <2>1, ReplaceFacts, Zenon
      <3> QED
        BY <3>1, <3>2, Zenon
    <2>2. CASE ~OccursAt(old, 1, t)
      <3>1. j = 2 /\ a = t[1]
        BY <2>2 DEF FirstSpan
      <3>2. u = <<Head(t)>> \o Replace(Tail(t), old, new)
        BY <1>1, <2>2, ReplaceFacts, Zenon
      <3> QED
        BY <1>2, <3>1, <3>2, Zenon
    <2> QED
      BY <2>1, <2>2
  <1> HIDE DEF rest, a
  <1>9. u \in Text /\ q \in Text
    BY <1>1, <1>5, ReplaceFacts
  <1> HIDE DEF q, u
  <1>10. Len(u) = Len(q) + 1 /\ Len(q) \in Nat /\ u[1] = a /\ \A i \in 1..Len(q) : u[i + 1] = q[i]
    BY <1>7, <1>8, <1>9, ConsAt
  <1> QED
    BY <1>4, <1>5, <1>6, <1>9, <1>10 DEF u, q, rest, a, FirstReplaced

LEMMA CopiedFromFirst ==
    ASSUME NEW old \in Text, old # <<>>, NEW x \in Atom
    PROVE  \A t \in Text : \A n \in Nat :
              LET u == Replace(t, old, <<x>>)
              IN  n <= Len(u) /\ (\A k \in 1..n : u[k] # x) => Copied(t, u, old, 1, n, 0)
  <1> DEFINE R(t) == Replace(t, old, <<x>>)
             P == {t \in Text : \A n \in Nat :
                      n <= Len(R(t)) /\ (\A k \in 1..n : R(t)[k] # x) => Copied(t, R(t), old, 1, n, 0)}
  <1>1. <<x>> \in Text
    BY DEF Text
  <1>2. ASSUME NEW t \in Text, \A s \in Text : Len(s) < Len(t) => s \in P PROVE t \in P
    <2> SUFFICES ASSUME NEW n \in Nat, n <= Len(R(t)), \A k \in 1..n : R(t)[k] # x
                 PROVE  Copied(t, R(t), old, 1, n, 0)
      OBVIOUS
    <2>1. CASE t = <<>>
      <3>1. R(t) = <<>>
        BY <1>1, <2>1, ReplaceFacts
      <3>2. n = 0 /\ Len(t) = 0 /\ Len(R(t)) = 0
        BY <2>1, <3>1
      <3> HIDE DEF R
      <3> QED
        BY <3>2 DEF Copied
    <2>2. CASE t # <<>>
      <3> DEFINE u == R(t)
                 j == FirstSpan(t, old)
                 rest == From(t, j)
                 q == R(rest)
      <3>1. /\ j \in 2..(Len(t) + 1)
            /\ rest \in Text /\ Len(rest) = Len(t) + 1 - j /\ Len(rest) < Len(t)
            /\ u \in Text /\ q \in Text /\ Len(u) = Len(q) + 1 /\ Len(q) \in Nat
            /\ u[1] = (IF OccursAt(old, 1, t) THEN x ELSE t[1])
            /\ \A i \in 1..Len(q) : u[i + 1] = q[i]
        <4>1. FirstReplaced(t, old, x, u, j, rest, q)
          BY <2>2, ReplaceByToken, Zenon
        <4> HIDE DEF u, j, rest, q
        <4> QED
          BY <4>1 DEF FirstReplaced
      <3>2. Len(t) \in Nat /\ \A i \in 1..(Len(t) + 1 - 2) : From(t, 2)[i] = t[i + 1]
        <4>1. Len(t) \in Nat /\ Tail(t) = From(t, 2) /\ \A i \in 1..(Len(t) - 1) : Tail(t)[i] = t[i + 1]
          BY <2>2, TailAt, HeadAndTail
        <4>2. Len(t) + 1 - 2 = Len(t) - 1
          BY <4>1
        <4> QED
          BY <4>1, <4>2
      <3>3. n <= Len(u) /\ \A k \in 1..n : u[k] # x
        OBVIOUS
      <3>4. CASE n = 0
        <4> HIDE DEF u, q
        <4>1. n + 0 <= Len(t) /\ (n = Len(u) => n + 0 = Len(t)) /\ 1..n = {}
          BY <3>1, <3>2, <3>4
        <4> QED
          BY <4>1 DEF Copied, u
      <3>5. CASE n # 0
        <4>1. n - 1 \in Nat /\ 1 \in 1..n
          BY <3>5
        <4>2. ~OccursAt(old, 1, t) /\ j = 2 /\ u[1] = t[1]
          <5>1. ~OccursAt(old, 1, t)
            <6> HIDE DEF u, j, rest, q
            <6> QED
              BY <3>1, <3>3, <4>1
          <5>2. u[1] = t[1]
            <6> HIDE DEF u, j, rest, q
            <6> QED
              BY <3>1, <5>1
          <5> QED
            BY <5>1, <5>2 DEF FirstSpan
        <4>3. rest \in P
          BY <1>2, <3>1
        <4>4. n - 1 <= Len(q) /\ \A k \in 1..(n - 1) : q[k] # x
          <5> HIDE DEF u, q
          <5>1. n - 1 <= Len(q)
            BY <3>1, <3>3
          <5>2. ASSUME NEW k \in 1..(n - 1) PROVE q[k] # x
            <6>1. k \in 1..Len(q) /\ k + 1 \in 1..n
              BY <3>1, <5>1
            <6> QED
              BY <3>1, <3>3, <6>1
          <5> QED
            BY <5>1, <5>2
        <4>5. Copied(rest, q, old, 1, n - 1, 0)
          <5> HIDE DEF rest
          <5> QED
            BY <4>1, <4>3, <4>4
        <4> HIDE DEF u, q, rest
        <4>6. /\ n - 1 <= Len(rest) /\ (n - 1 = Len(q) => n - 1 = Len(rest))
              /\ \A k \in 1..(n - 1) : rest[k] = q[k] /\ ~OccursAt(old, k, rest)
          <5>1. /\ (n - 1) + 0 <= Len(rest) /\ (n - 1 = Len(q) => (n - 1) + 0 = Len(rest))
                /\ \A k \in 1..(n - 1) : rest[k + 0] = q[k] /\ ~OccursAt(old, k + 0, rest)
            BY <4>5 DEF Copied
          <5>2. \A k \in 1..(n - 1) : k + 0 = k
            OBVIOUS
          <5>3. (n - 1) + 0 = n - 1
            OBVIOUS
          <5> QED
            BY <5>1, <5>2, <5>3
        <4>7. ASSUME NEW k \in 1..n PROVE t[k] = u[k] /\ ~OccursAt(old, k, t)
          <5>1. CASE k = 1
            BY <4>2, <5>1
          <5>2. CASE k # 1
            <6> DEFINE i == k - 1
            <6>1. i \in 1..(n - 1) /\ i + 1 = k /\ i >= 1 /\ i \in Nat /\ i \in 1..Len(q)
                  /\ i \in 1..(Len(t) + 1 - 2) /\ i + 2 - 1 = k /\ 2 \in 1..(Len(t) + 1)
              BY <3>1, <3>2, <3>3, <4>2, <4>4, <4>6, <5>2
            <6> HIDE DEF i
            <6>2. rest = From(t, 2)
              BY <4>2 DEF rest
            <6>3. rest[i] = q[i] /\ ~OccursAt(old, i, rest)
              BY <4>6, <6>1
            <6>4. u[k] = q[i] /\ rest[i] = t[k]
              BY <3>1, <3>2, <6>1, <6>2
            <6>5. OccursAt(old, i, From(t, 2)) <=> OccursAt(old, i + 2 - 1, t)
              BY <6>1, OccursFurther, Zenon
            <6> QED
              BY <6>1, <6>2, <6>3, <6>4, <6>5
          <5> QED
            BY <5>1, <5>2
        <4>8. n + 0 = n /\ n <= Len(t) /\ (n = Len(u) => n = Len(t)) /\ \A k \in 1..n : k + 0 = k
          BY <3>1, <3>2, <4>2, <4>6
        <4>9. Copied(t, u, old, 1, n, 0)
          BY <4>7, <4>8 DEF Copied
        <4> QED
          BY <4>9 DEF u
      <3> QED
        BY <3>4, <3>5
    <2> QED
      BY <2>1, <2>2
  <1>3. Text \subseteq P
    <2> HIDE DEF P
    <2> QED
      BY <1>2, TextInduction
  <1> QED
    BY <1>3

\* Any stretch of the result without the token comes from the text.
LEMMA Stretch ==
    ASSUME NEW old \in Text, old # <<>>, NEW x \in Atom
    PROVE  \A t \in Text : \A m, n \in Nat :
              LET u == Replace(t, old, <<x>>)
              IN  1 <= m /\ m <= n /\ n <= Len(u) /\ (\A k \in m..n : u[k] # x)
                  => \E d : Copied(t, u, old, m, n, d)
  <1> DEFINE R(t) == Replace(t, old, <<x>>)
             P == {t \in Text : \A m, n \in Nat :
                      1 <= m /\ m <= n /\ n <= Len(R(t)) /\ (\A k \in m..n : R(t)[k] # x)
                      => \E d : Copied(t, R(t), old, m, n, d)}
  <1>1. <<x>> \in Text
    BY DEF Text
  <1>2. ASSUME NEW t \in Text, \A s \in Text : Len(s) < Len(t) => s \in P PROVE t \in P
    <2> SUFFICES ASSUME NEW m \in Nat, NEW n \in Nat,
                        1 <= m /\ m <= n /\ n <= Len(R(t)) /\ (\A k \in m..n : R(t)[k] # x)
                 PROVE  \E d : Copied(t, R(t), old, m, n, d)
      OBVIOUS
    <2>1. t # <<>>
      <3>1. Replace(<<>>, old, <<x>>) = <<>>
        BY <1>1, ReplaceFacts
      <3>2. Len(<<>>) = 0
        OBVIOUS
      <3> QED
        BY <3>1, <3>2
    <2>2. CASE m = 1
      <3>1. n <= Len(R(t)) /\ \A k \in 1..n : R(t)[k] # x
        BY <2>2
      <3>2. Copied(t, R(t), old, 1, n, 0)
        BY <3>1, CopiedFromFirst
      <3> QED
        BY <2>2, <3>2
    <2>3. CASE m # 1
      <3> DEFINE u == R(t)
                 j == FirstSpan(t, old)
                 rest == From(t, j)
                 q == R(rest)
      <3>1. /\ j \in 2..(Len(t) + 1)
            /\ rest \in Text /\ Len(rest) = Len(t) + 1 - j /\ Len(rest) < Len(t)
            /\ u \in Text /\ q \in Text /\ Len(u) = Len(q) + 1 /\ Len(q) \in Nat
            /\ \A i \in 1..Len(q) : u[i + 1] = q[i]
        <4>1. FirstReplaced(t, old, x, u, j, rest, q)
          BY <2>1, ReplaceByToken, Zenon
        <4> HIDE DEF u, j, rest, q
        <4> QED
          BY <4>1 DEF FirstReplaced
      <3>2. Len(t) \in Nat
        BY LenProperties DEF Text
      <3> DEFINE a == m - 1
                 b == n - 1
      <3>3. a \in Nat /\ b \in Nat /\ 1 <= a /\ a <= b /\ a + 1 = m /\ b + 1 = n
        BY <2>3
      <3> HIDE DEF a, b
      <3>4. b <= Len(q) /\ \A k \in a..b : q[k] # x
        <4>1. n <= Len(u) /\ \A k \in m..n : u[k] # x
          OBVIOUS
        <4> HIDE DEF u, q, rest
        <4>2. b <= Len(q)
          BY <3>1, <3>3, <4>1
        <4>3. ASSUME NEW k \in a..b PROVE q[k] # x
          <5>1. k \in 1..Len(q) /\ k + 1 \in m..n
            BY <3>3, <4>2, <3>1
          <5> QED
            BY <3>1, <4>1, <5>1
        <4> QED
          BY <4>2, <4>3
      <3>5. PICK e : Copied(rest, q, old, a, b, e)
        <4>1. rest \in P
          BY <1>2, <3>1
        <4> HIDE DEF rest
        <4> QED
          BY <3>3, <3>4, <4>1
      <3> DEFINE d == e + j - 2
      <3>6. (n = Len(u) => b = Len(q)) /\ Copied(rest, q, old, a, b, e)
        <4> HIDE DEF u, q, rest, j
        <4> QED
          BY <3>1, <3>3, <3>5
      <3> HIDE DEF u, q, j
      <3>7. /\ e \in Nat /\ b + e <= Len(rest) /\ (n = Len(u) => b + e = Len(rest))
            /\ \A k \in a..b : rest[k + e] = q[k] /\ ~OccursAt(old, k + e, rest)
        BY <3>6 DEF Copied
      <3>8. d \in Nat /\ n + d <= Len(t) /\ (n = Len(u) => n + d = Len(t))
        <4> DEFINE L == Len(rest)
        <4>1. L = Len(t) + 1 - j /\ b + e <= L /\ (n = Len(u) => b + e = L)
          BY <3>1, <3>7
        <4>2. j \in Nat /\ j >= 2 /\ e \in Nat /\ b \in Nat /\ n = b + 1
          BY <3>1, <3>2, <3>3, <3>7
        <4> HIDE DEF L
        <4>3. d \in Nat /\ n + d = b + e + j - 1
          BY <4>2
        <4> QED
          BY <3>2, <4>1, <4>2, <4>3
      <3>9. ASSUME NEW k \in m..n PROVE t[k + d] = u[k] /\ ~OccursAt(old, k + d, t)
        <4> DEFINE i == k - 1
                   p == i + e
        <4>1. i \in a..b /\ i + 1 = k /\ i \in 1..Len(q)
          BY <3>1, <3>3, <3>4
        <4>2. /\ p \in Nat /\ p >= 1 /\ p \in 1..(Len(t) + 1 - j)
              /\ p + j - 1 = k + d /\ j + p - 1 = k + d /\ j \in 1..(Len(t) + 1)
          <5> HIDE DEF rest
          <5> QED
            BY <3>1, <3>2, <3>3, <3>7, <4>1
        <4>3. u[k] = q[i] /\ rest[p] = q[i] /\ ~OccursAt(old, p, rest)
          BY <3>1, <3>7, <4>1
        <4> HIDE DEF i, p, d
        <4>4. rest[p] = t[j + p - 1]
          BY <4>2, FromFacts DEF rest
        <4>5. OccursAt(old, p, From(t, j)) <=> OccursAt(old, p + j - 1, t)
          BY <4>2, OccursFurther, Zenon
        <4> QED
          BY <4>2, <4>3, <4>4, <4>5 DEF rest
      <3>10. Copied(t, u, old, m, n, d)
        <4> HIDE DEF d
        <4> QED
          BY <3>8, <3>9 DEF Copied
      <3> QED
        BY <3>10 DEF u
    <2> QED
      BY <2>2, <2>3
  <1>3. Text \subseteq P
    <2> HIDE DEF P
    <2> QED
      BY <1>2, TextInduction
  <1> QED
    BY <1>3

\* What occurs in the result and holds no token occurred in the text, and is not
\* the value that was replaced.
LEMMA OccursBefore ==
    ASSUME NEW old \in Text, old # <<>>, NEW x \in Atom, NEW t \in Text,
           NEW q \in Text, q # <<>>, \A k \in 1..Len(q) : q[k] # x,
           Occurs(q, Replace(t, old, <<x>>))
    PROVE  Occurs(q, t) /\ q # old
  <1> DEFINE u == Replace(t, old, <<x>>)
  <1>1. u \in Text
    <2>1. <<x>> \in Text
      BY DEF Text
    <2> QED
      BY <2>1, ReplaceFacts
  <1>2. PICK i \in 1..Len(u) : OccursAt(q, i, u)
    BY DEF Occurs
  <1> DEFINE n == i + Len(q) - 1
  <1>3. Len(q) \in Nat /\ Len(q) >= 1 /\ Len(u) \in Nat /\ Len(t) \in Nat
    BY <1>1, EmptySeq, LenProperties DEF Text
  <1>4. i \in Nat /\ 1 <= i /\ n \in Nat /\ i <= n /\ n <= Len(u)
    BY <1>2, <1>3 DEF OccursAt
  <1>5. \A k \in i..n : u[k] # x
    <2> SUFFICES ASSUME NEW k \in i..n PROVE u[k] # x
      OBVIOUS
    <2>1. k - i + 1 \in 1..Len(q) /\ i + (k - i + 1) - 1 = k
      BY <1>3, <1>4
    <2>2. u[k] = q[k - i + 1]
      BY <1>2, <2>1 DEF OccursAt
    <2> QED
      BY <2>1, <2>2
  <1>6. PICK d : Copied(t, u, old, i, n, d)
    <2> HIDE DEF n
    <2> QED
      BY <1>4, <1>5, Stretch
  <1>7. d \in Nat /\ n + d <= Len(t) /\ \A k \in i..n : t[k + d] = u[k] /\ ~OccursAt(old, k + d, t)
    BY <1>6 DEF Copied
  <1> HIDE DEF u
  <1>8. OccursAt(q, i + d, t)
    <2>1. (i + d) + Len(q) - 1 <= Len(t)
      BY <1>3, <1>4, <1>7
    <2>2. ASSUME NEW k \in 1..Len(q) PROVE t[(i + d) + k - 1] = q[k]
      <3>1. i + k - 1 \in i..n /\ (i + k - 1) + d = (i + d) + k - 1
        BY <1>3, <1>4, <1>7
      <3>2. u[i + k - 1] = q[k]
        BY <1>2 DEF OccursAt
      <3>3. t[(i + k - 1) + d] = u[i + k - 1]
        BY <1>7, <3>1
      <3> QED
        BY <3>1, <3>2, <3>3
    <2> QED
      BY <2>1, <2>2 DEF OccursAt
  <1>9. i + d \in 1..Len(t) /\ i \in i..n
    BY <1>3, <1>4, <1>7
  <1> QED
    BY <1>7, <1>8, <1>9 DEF Occurs

\* The atoms of the result are the token and atoms of the text.
LEMMA AtomsBefore ==
    ASSUME NEW old \in Text, old # <<>>, NEW x \in Atom, NEW t \in Text,
           NEW u, u = Replace(t, old, <<x>>), NEW k \in 1..Len(u), u[k] # x
    PROVE  \E i \in 1..Len(t) : t[i] = u[k]
  <1>1. <<x>> \in Text
    BY DEF Text
  <1>2. u \in Text
    BY <1>1, ReplaceFacts
  <1>3. Len(u) \in Nat /\ Len(t) \in Nat
    BY <1>2, LenProperties DEF Text
  <1>4. k \in Nat /\ 1 <= k /\ k <= k /\ k <= Len(u) /\ \A i \in k..k : u[i] # x
    BY <1>3
  <1>5. PICK d : Copied(t, u, old, k, k, d)
    BY <1>4, Stretch
  <1>6. d \in Nat /\ k + d <= Len(t) /\ k \in k..k /\ t[k + d] = u[k]
    BY <1>3, <1>5 DEF Copied
  <1>7. k + d \in 1..Len(t)
    BY <1>3, <1>6
  <1> QED
    BY <1>6, <1>7

LEMMA KeywordsKept ==
    ASSUME NEW old \in Text, old # <<>>, NEW x \in Atom, x # Keyword
    PROVE  \A t \in Text : AtMostOneKeyword(t) => AtMostOneKeyword(Replace(t, old, <<x>>))
  <1> DEFINE R(t) == Replace(t, old, <<x>>)
             One(t) == \A i, k \in 1..Len(t) : t[i] = Keyword /\ t[k] = Keyword => i = k
             P == {t \in Text : One(t) => One(R(t))}
  <1>0. <<x>> \in Text
    BY DEF Text
  <1>1. \A t \in Text : AtMostOneKeyword(t) <=> One(t)
    <2>1. \A t \in Text : DOMAIN t = 1..Len(t)
      BY LenProperties DEF Text
    <2> QED
      BY <2>1 DEF AtMostOneKeyword
  <1>2. ASSUME NEW t \in Text, \A s \in Text : Len(s) < Len(t) => s \in P, One(t)
        PROVE  One(R(t))
    <2>1. CASE t = <<>>
      <3>1. R(t) = <<>>
        BY <1>0, <2>1, ReplaceFacts
      <3>2. Len(R(t)) = 0
        BY <3>1
      <3> QED
        BY <3>2
    <2>2. CASE t # <<>>
      <3> DEFINE u == R(t)
                 j == FirstSpan(t, old)
                 rest == From(t, j)
                 q == R(rest)
      <3>1. /\ j \in 2..(Len(t) + 1)
            /\ rest \in Text /\ Len(rest) = Len(t) + 1 - j /\ Len(rest) < Len(t)
            /\ u \in Text /\ q \in Text /\ Len(u) = Len(q) + 1 /\ Len(q) \in Nat
            /\ u[1] = (IF OccursAt(old, 1, t) THEN x ELSE t[1])
            /\ \A i \in 1..Len(q) : u[i + 1] = q[i]
        <4>1. FirstReplaced(t, old, x, u, j, rest, q)
          BY <2>2, ReplaceByToken, Zenon
        <4> HIDE DEF u, j, rest, q
        <4> QED
          BY <4>1 DEF FirstReplaced
      <3>2. Len(t) \in Nat
        BY LenProperties DEF Text
      <3>3. \A i \in 1..(Len(t) + 1 - j) : rest[i] = t[j + i - 1]
        <4>1. j \in 1..(Len(t) + 1)
          BY <3>1
        <4> HIDE DEF j
        <4> QED
          BY <4>1, FromFacts
      <3>4. \A k \in 1..Len(q) : q[k] # x => \E i \in 1..Len(rest) : rest[i] = q[k]
        <4> SUFFICES ASSUME NEW k \in 1..Len(q), q[k] # x PROVE \E i \in 1..Len(rest) : rest[i] = q[k]
          OBVIOUS
        <4>1. q = Replace(rest, old, <<x>>) /\ rest \in Text
          BY <3>1
        <4> HIDE DEF rest, q
        <4> QED
          BY <4>1, AtomsBefore
      <3>5. rest \in P
        <4> HIDE DEF P, rest
        <4> QED
          BY <1>2, <3>1
      <3> HIDE DEF u, j, rest, q
      <3>6. One(rest)
        <4>1. ASSUME NEW i \in 1..Len(rest), NEW k \in 1..Len(rest), rest[i] = Keyword, rest[k] = Keyword
              PROVE  i = k
          <5>1. /\ j + i - 1 \in 1..Len(t) /\ j + k - 1 \in 1..Len(t)
                /\ i \in 1..(Len(t) + 1 - j) /\ k \in 1..(Len(t) + 1 - j)
            BY <3>1, <3>2
          <5>2. t[j + i - 1] = Keyword /\ t[j + k - 1] = Keyword
            BY <3>3, <4>1, <5>1
          <5>3. j + i - 1 = j + k - 1
            BY <1>2, <5>1, <5>2
          <5> QED
            BY <3>1, <3>2, <5>3
        <4> QED
          BY <4>1
      <3>7. One(q)
        BY <3>5, <3>6 DEF q
      <3>8. ASSUME u[1] = Keyword, NEW k \in 1..Len(q) PROVE q[k] # Keyword
        <4> SUFFICES ASSUME q[k] = Keyword PROVE FALSE
          OBVIOUS
        <4>1. t[1] = Keyword
          BY <3>1, <3>8
        <4>2. PICK i \in 1..Len(rest) : rest[i] = q[k]
          <5>1. q[k] # x /\ k \in 1..Len(q) /\ rest \in Text
            BY <3>1
          <5> QED
            BY <3>4, <5>1
        <4>3. j + i - 1 \in 1..Len(t) /\ i \in 1..(Len(t) + 1 - j) /\ 1 \in 1..Len(t) /\ j + i - 1 # 1
          BY <3>1, <3>2
        <4>4. t[j + i - 1] = Keyword
          BY <3>3, <4>2, <4>3
        <4> QED
          BY <1>2, <4>1, <4>3, <4>4
      <3>9. ASSUME NEW i \in 1..Len(u), NEW k \in 1..Len(u), u[i] = Keyword, u[k] = Keyword
            PROVE  i = k
        <4>1. \A n \in 1..Len(u) : n = 1 \/ (n - 1 \in 1..Len(q) /\ u[n] = q[n - 1])
          <5> SUFFICES ASSUME NEW n \in 1..Len(u), n # 1 PROVE n - 1 \in 1..Len(q) /\ u[n] = q[n - 1]
            OBVIOUS
          <5>1. n - 1 \in 1..Len(q) /\ (n - 1) + 1 = n
            BY <3>1
          <5> QED
            BY <3>1, <5>1
        <4>2. CASE i = 1 \/ k = 1
          BY <3>8, <3>9, <4>1, <4>2
        <4>3. CASE i # 1 /\ k # 1
          <5>1. i - 1 \in 1..Len(q) /\ k - 1 \in 1..Len(q) /\ q[i - 1] = Keyword /\ q[k - 1] = Keyword
            BY <3>9, <4>1, <4>3
          <5>2. i - 1 = k - 1
            BY <3>7, <5>1
          <5> QED
            BY <5>2
        <4> QED
          BY <4>2, <4>3
      <3>10. One(u)
        BY <3>9
      <3> QED
        BY <3>10 DEF u
    <2> QED
      BY <2>1, <2>2
  <1>3. Text \subseteq P
    <2>1. \A t \in Text : (\A s \in Text : Len(s) < Len(t) => s \in P) => t \in P
      BY <1>2
    <2> HIDE DEF P
    <2> QED
      BY <2>1, TextInduction
  <1> QED
    <2> SUFFICES ASSUME NEW t \in Text, AtMostOneKeyword(t) PROVE AtMostOneKeyword(R(t))
      OBVIOUS
    <2>1. One(t) /\ R(t) \in Text
      BY <1>0, <1>1, ReplaceFacts
    <2>2. One(R(t))
      BY <1>3, <2>1
    <2> HIDE DEF R
    <2> QED
      BY <1>1, <2>1, <2>2

\* A replacement by a token makes no word of punctuation behind a keyword.
LEMMA OnlyDotsBefore ==
    ASSUME NEW old \in Text, old # <<>>, NEW x \in Tokens, NEW t \in Text, AtMostOneKeyword(t),
           NEW u, u = Replace(t, old, <<x>>), OnlyDots(u)
    PROVE  OnlyDots(t)
  <1>1. x \in Atom /\ x # Keyword /\ x # Blank /\ x # Dot
    BY AtomFacts DEF Atom, Ordinary, Tokens
  <1>2. u \in Text
    <2>1. <<x>> \in Text
      BY <1>1 DEF Text
    <2> QED
      BY <2>1, ReplaceFacts
  <1>3. Len(u) \in Nat /\ Len(t) \in Nat
    BY <1>2, LenProperties DEF Text
  <1> DEFINE w == WordStart(u)
             e == WordEnd(u)
  <1>4. w # 0 /\ TrailingEnd(u) = 0
    BY DEF OnlyDots
  <1>5. PICK k : KeywordBefore(u, k, w)
    BY <1>2, <1>4, WordStartFacts
  <1>6. /\ w \in 1..Len(u) /\ e \in w..Len(u) /\ (e # Len(u) => u[e + 1] = Blank)
        /\ \A i \in w..e : u[i] = Dot
    BY <1>2, <1>4, WordEndFacts
  <1> DEFINE n == IF e = Len(u) THEN e ELSE e + 1
  <1>7. /\ k \in 1..(w - 1) /\ u[k] = Keyword /\ u[w] # Blank
        /\ \A i \in (k + 1)..(w - 1) : u[i] = Blank
    BY <1>5 DEF KeywordBefore
  <1> HIDE DEF w, e
  <1>8. k \in Nat /\ w \in Nat /\ e \in Nat /\ 1 <= k /\ k < w /\ w <= e /\ e <= Len(u)
    BY <1>3, <1>6, <1>7
  <1>9. n \in Nat /\ e <= n /\ n <= Len(u) /\ k <= n
    BY <1>3, <1>8
  <1>10. ASSUME NEW i \in k..n PROVE u[i] # x
    <2>1. i = k \/ i \in (k + 1)..(w - 1) \/ i \in w..e \/ (i = e + 1 /\ e # Len(u))
      BY <1>8, <1>9
    <2> QED
      BY <1>1, <1>6, <1>7, <2>1
  <1>11. PICK d : Copied(t, u, old, k, n, d)
    <2> HIDE DEF n
    <2> QED
      BY <1>1, <1>8, <1>9, <1>10, Stretch
  <1>12. d \in Nat /\ n + d <= Len(t) /\ (n = Len(u) => n + d = Len(t)) /\ \A i \in k..n : t[i + d] = u[i]
    BY <1>11 DEF Copied
  <1>13. KeywordBefore(t, k + d, w + d)
    <2>1. k + d \in 1..((w + d) - 1) /\ w + d \in 1..Len(t) /\ k \in k..n /\ w \in k..n
      BY <1>3, <1>8, <1>9, <1>12
    <2>2. t[k + d] = Keyword /\ t[w + d] # Blank
      BY <1>7, <1>12, <2>1
    <2>3. ASSUME NEW i \in 1..((k + d) - 1) PROVE t[i] # Keyword
      <3>1. i \in DOMAIN t /\ k + d \in DOMAIN t /\ i # k + d
        <4>1. DOMAIN t = 1..Len(t)
          BY LenProperties DEF Text
        <4>2. k + d \in 1..Len(t) /\ d \in Nat /\ Len(t) \in Nat /\ k \in Nat
          BY <1>3, <1>8, <1>12, <2>1
        <4>3. i \in 1..Len(t) /\ i # k + d
          BY <4>2
        <4> QED
          BY <4>1, <4>2, <4>3
      <3> QED
        BY <2>2, <2>3, <3>1 DEF AtMostOneKeyword
    <2>4. ASSUME NEW i \in ((k + d) + 1)..((w + d) - 1) PROVE t[i] = Blank
      <3>1. i - d \in (k + 1)..(w - 1) /\ i - d \in k..n /\ (i - d) + d = i
        BY <1>8, <1>9, <1>12
      <3> QED
        BY <1>7, <1>12, <3>1
    <2> QED
      BY <2>1, <2>2, <2>3, <2>4 DEF KeywordBefore
  <1>14. WordStart(t) = w + d /\ WordStart(t) # 0
    <2>1. WordStart(t) = w + d
      BY <1>13, WordStartFacts
    <2> QED
      BY <1>8, <1>12, <2>1
  <1> DEFINE f == WordEnd(t)
             g == TrailingEnd(t)
  <1>15. /\ f \in (w + d)..Len(t) /\ (f # Len(t) => t[f + 1] = Blank)
         /\ \A i \in (w + d)..f : t[i] # Blank
         /\ g # 0 => g \in (w + d)..f /\ t[g] # Dot
    BY <1>14, WordEndFacts
  <1>16. \A i \in (w + d)..(e + d) : t[i] = Dot
    <2> SUFFICES ASSUME NEW i \in (w + d)..(e + d) PROVE t[i] = Dot
      OBVIOUS
    <2>1. i - d \in w..e /\ i - d \in k..n /\ (i - d) + d = i
      BY <1>8, <1>9, <1>12
    <2> QED
      BY <1>6, <1>12, <2>1
  <1>17. e + d # Len(t) => e + d < Len(t) /\ t[e + d + 1] = Blank
    <2> SUFFICES ASSUME e + d # Len(t) PROVE e + d < Len(t) /\ t[e + d + 1] = Blank
      OBVIOUS
    <2>1. e # Len(u) /\ n = e + 1
      BY <1>12
    <2>2. n \in k..n /\ n + d = e + d + 1 /\ e + d < Len(t)
      BY <1>3, <1>8, <1>9, <1>12, <2>1
    <2>3. t[n + d] = u[n] /\ u[n] = Blank
      BY <1>6, <1>12, <2>1, <2>2
    <2> QED
      BY <2>2, <2>3
  <1> HIDE DEF f, g, n
  <1>18. g = 0
    <2> SUFFICES ASSUME g # 0 PROVE FALSE
      OBVIOUS
    <2>1. g \in (w + d)..f /\ t[g] # Dot /\ f \in Nat
      BY <1>3, <1>8, <1>12, <1>15
    <2>2. f <= e + d
      <3> SUFFICES ASSUME f > e + d PROVE FALSE
        BY <1>8, <1>12, <2>1
      <3>1. e + d # Len(t) /\ e + d + 1 \in (w + d)..f
        BY <1>3, <1>8, <1>12, <1>15
      <3> QED
        BY <1>15, <1>17, <3>1
    <2>3. g \in (w + d)..(e + d)
      BY <1>8, <1>12, <2>1, <2>2
    <2> QED
      BY <1>16, <2>1, <2>3
  <1> QED
    <2>1. w + d > 0
      BY <1>8, <1>12
    <2> QED
      BY <1>14, <1>18, <2>1 DEF OnlyDots, g

-----------------------------------------------------------------------------
(* What replace_known leaves: no plain value of the vault, one keyword at    *)
(* most, and no word of punctuation behind it that was not there before.     *)
LEMMA ReplaceKnownClears ==
    ASSUME NEW v \in Vaults, NEW t \in TextsOver(Len(v)), AtMostOneKeyword(t),
           NEW u, u = replace_known(v, t)
    PROVE  /\ AtMostOneKeyword(u)
           /\ OnlyDots(u) => OnlyDots(t)
           /\ \A i \in 1..Len(v) : Plain(v[i].raw) => ~Occurs(v[i].raw, u)
  <1> DEFINE order == KnownInOrder(v)
             Cleared(s, n) == \A m \in 1..n : Plain(v[order[m]].raw) => ~Occurs(v[order[m]].raw, s)
  <1>1. PICK f : Replacing(f, v, t)
    BY ReplaceKnownSteps
  <1> DEFINE P == {n \in 0..Len(v) : /\ AtMostOneKeyword(f[n])
                                     /\ OnlyDots(f[n]) => OnlyDots(t)
                                     /\ Cleared(f[n], n)}
  <1>2. /\ Len(v) \in Nat
        /\ order \in [1..Len(v) -> 1..Len(v)]
        /\ \A i \in 1..Len(v) : \E n \in 1..Len(v) : order[n] = i
    BY VaultFacts, KnownInOrderFacts
  <1> HIDE DEF order
  <1>3. /\ f \in [0..Len(v) -> TextsOver(Len(v))] /\ f[0] = t /\ f[Len(v)] = u
        /\ \A n \in 1..Len(v) : f[n] = PutToken(v, f[n - 1], order[n])
    BY <1>1 DEF Replacing, order
  <1>4. 0 \in P
    <2>1. Cleared(f[0], 0)
      OBVIOUS
    <2> QED
      BY <1>2, <1>3, <2>1
  <1>5. ASSUME NEW n \in 1..Len(v), n - 1 \in P PROVE n \in P
    <2> DEFINE s == f[n - 1]
               i == order[n]
               old == v[i].raw
    <2>1. i \in 1..Len(v) /\ n - 1 \in 0..Len(v) /\ n \in 0..Len(v)
      BY <1>2
    <2>2. s \in Text
      <3>1. s \in TextsOver(Len(v))
        BY <1>3, <2>1
      <3> QED
        BY <1>2, <3>1, TextsOverFacts
    <2>3. AtMostOneKeyword(s) /\ (OnlyDots(s) => OnlyDots(t)) /\ Cleared(s, n - 1)
      BY <1>5
    <2>4. f[n] = PutToken(v, s, i)
      BY <1>3
    <2> HIDE DEF s, i
    <2>5. old \in Text /\ old # <<>> /\ i \in Tokens /\ i \in Atom
      BY <2>1, VaultFacts
    <2>6. f[n] = Replace(s, old, <<i>>)
      BY <2>4 DEF PutToken
    <2> HIDE DEF old
    <2>7. i # Keyword
      BY <2>5, AtomFacts DEF Ordinary
    <2>8. AtMostOneKeyword(f[n])
      BY <2>2, <2>3, <2>5, <2>6, <2>7, KeywordsKept
    <2>9. OnlyDots(f[n]) => OnlyDots(s)
      BY <2>2, <2>3, <2>5, <2>6, OnlyDotsBefore
    <2>10. ASSUME NEW q \in Text, q # <<>>, Plain(q), Occurs(q, f[n]) PROVE Occurs(q, s) /\ q # old
      <3>1. DOMAIN q = 1..Len(q)
        BY LenProperties DEF Text
      <3>2. \A k \in 1..Len(q) : q[k] # i
        BY <2>5, <2>10, <3>1 DEF Plain
      <3>3. Occurs(q, Replace(s, old, <<i>>))
        BY <2>6, <2>10
      <3> QED
        BY <2>2, <2>5, <2>10, <3>2, <3>3, OccursBefore
    <2>11. ASSUME NEW m \in 1..n, Plain(v[order[m]].raw), Occurs(v[order[m]].raw, f[n])
           PROVE  FALSE
      <3> DEFINE q == v[order[m]].raw
      <3>1. m \in 1..Len(v) /\ order[m] \in 1..Len(v) /\ (m = n \/ m \in 1..(n - 1))
        <4> HIDE DEF P
        <4>1. m \in 1..Len(v) /\ (m = n \/ m \in 1..(n - 1))
          BY <1>2
        <4> QED
          BY <1>2, <4>1
      <3>2. q \in Text /\ q # <<>>
        BY <3>1, VaultFacts
      <3>3. Occurs(q, s) /\ q # old
        BY <2>10, <2>11, <3>2
      <3>4. m # n
        BY <3>3 DEF old, i
      <3> QED
        BY <2>3, <2>11, <3>1, <3>3, <3>4
    <2> QED
      BY <2>1, <2>3, <2>8, <2>9, <2>11
  <1>6. 0..Len(v) \subseteq P
    <2> HIDE DEF P
    <2> QED
      BY <1>2, <1>4, <1>5, CountUp
  <1>7. Len(v) \in P
    <2> HIDE DEF P
    <2> QED
      BY <1>2, <1>6
  <1>8. AtMostOneKeyword(u) /\ (OnlyDots(u) => OnlyDots(t)) /\ Cleared(u, Len(v))
    BY <1>3, <1>7
  <1>9. ASSUME NEW i \in 1..Len(v), Plain(v[i].raw) PROVE ~Occurs(v[i].raw, u)
    <2>1. PICK n \in 1..Len(v) : order[n] = i
      BY <1>2
    <2> QED
      BY <1>8, <1>9, <2>1
  <1> QED
    BY <1>8, <1>9

\* A text with a token in the place of its private word, atom by atom.
LEMMA MarkedFacts ==
    ASSUME NEW k \in Nat, NEW t \in TextsOver(k), Announced(t), NEW i \in Tokens,
           NEW s, s = Marked(t, i)
    PROVE  /\ s \in Text /\ Len(t) \in Nat
           /\ Place(t) \in 1..Len(t) /\ KeptFrom(t) \in Place(t)..(Len(t) + 1)
           /\ Len(s) = Place(t) + (Len(t) + 1 - KeptFrom(t))
           /\ s[Place(t)] = i
           /\ \A n \in 1..(Place(t) - 1) : s[n] = t[n]
           /\ \A n \in 1..(Len(t) + 1 - KeptFrom(t)) : s[Place(t) + n] = t[KeptFrom(t) + n - 1]
  <1> DEFINE w == Place(t)
             b == KeptFrom(t)
             front == SubSeq(t, 1, w - 1)
             back == From(t, b)
             tail == <<i>> \o back
  <1>1. /\ w \in 1..Len(t) /\ b \in w..(Len(t) + 1) /\ AfterSecret(t) = back
    BY SecretFacts
  <1>2. t \in Text /\ Len(t) \in Nat /\ i \in Atom
    <2>1. t \in Text
      BY TextsOverFacts
    <2> QED
      BY <2>1, LenProperties DEF Text, Atom
  <1> HIDE DEF w, b
  <1>3. w - 1 \in 0..Len(t) /\ b \in 1..(Len(t) + 1)
    BY <1>1, <1>2
  <1>4. /\ front \in Text /\ Len(front) = w - 1
        /\ \A n \in 1..(w - 1) : front[n] = t[n]
    <2> DEFINE c == w - 1
    <2>1. c \in 0..Len(t)
      BY <1>3
    <2> HIDE DEF c
    <2>2. SubSeq(t, 1, c) \in Text /\ Len(SubSeq(t, 1, c)) = c /\ \A n \in 1..c : SubSeq(t, 1, c)[n] = t[n]
      BY <1>2, <2>1, UpToFacts
    <2> QED
      BY <2>2 DEF c
  <1>5. /\ back \in Text /\ Len(back) = Len(t) + 1 - b
        /\ \A n \in 1..(Len(t) + 1 - b) : back[n] = t[b + n - 1]
    BY <1>2, <1>3, FromFacts
  <1> HIDE DEF front, back
  <1>6. /\ tail \in Text /\ Len(tail) = Len(back) + 1 /\ tail[1] = i
        /\ \A n \in 1..Len(back) : tail[n + 1] = back[n]
    BY <1>2, <1>5, ConsAt
  <1>7. s = front \o tail
    BY <1>1 DEF Marked, front, w
  <1> HIDE DEF tail
  <1>8. /\ s \in Text /\ Len(s) = Len(front) + Len(tail)
        /\ \A n \in 1..Len(front) : s[n] = front[n]
        /\ \A n \in 1..Len(tail) : s[Len(front) + n] = tail[n]
    <2>1. front \in Text /\ tail \in Text
      BY <1>4, <1>6
    <2>2. front \o tail \in Text /\ Len(front \o tail) = Len(front) + Len(tail)
      BY <2>1, ConcatText
    <2>3. \A n \in 1..Len(front) : (front \o tail)[n] = front[n]
      BY <2>1, ConcatText, Zenon
    <2>4. \A n \in 1..Len(tail) : (front \o tail)[Len(front) + n] = tail[n]
      BY <2>1, ConcatText, Zenon
    <2> QED
      BY <1>7, <2>2, <2>3, <2>4, Zenon
  <1>9. Len(s) = w + (Len(t) + 1 - b)
    BY <1>1, <1>2, <1>4, <1>5, <1>6, <1>8
  <1>10. s[w] = i
    <2>1. 1 \in 1..Len(tail) /\ Len(front) + 1 = w
      BY <1>1, <1>2, <1>4, <1>5, <1>6
    <2> QED
      BY <1>6, <1>8, <2>1
  <1>11. \A n \in 1..(w - 1) : s[n] = t[n]
    BY <1>4, <1>8
  <1>12. ASSUME NEW n \in 1..(Len(t) + 1 - b) PROVE s[w + n] = t[b + n - 1]
    <2>1. n + 1 \in 1..Len(tail) /\ Len(front) + (n + 1) = w + n /\ n \in 1..Len(back)
      BY <1>1, <1>2, <1>4, <1>5, <1>6
    <2>2. s[Len(front) + (n + 1)] = tail[n + 1] /\ tail[n + 1] = back[n]
      BY <1>6, <1>8, <2>1
    <2> QED
      BY <1>5, <2>1, <2>2
  <1> QED
    BY <1>1, <1>2, <1>8, <1>9, <1>10, <1>11, <1>12 DEF w, b

\* Where an atom of the marked text was before.
Origin(t, n) == IF n < Place(t) THEN n ELSE n - Place(t) + KeptFrom(t) - 1

LEMMA MarkedOrigin ==
    ASSUME NEW k \in Nat, NEW t \in TextsOver(k), Announced(t), NEW i \in Tokens,
           NEW s, s = Marked(t, i), NEW n \in 1..Len(s), n # Place(t)
    PROVE  Origin(t, n) \in 1..Len(t) /\ s[n] = t[Origin(t, n)]
  <1> DEFINE w == Place(t)
             b == KeptFrom(t)
  <1>1. /\ Len(t) \in Nat /\ w \in 1..Len(t) /\ b \in w..(Len(t) + 1)
        /\ Len(s) = w + (Len(t) + 1 - b)
        /\ \A j \in 1..(w - 1) : s[j] = t[j]
        /\ \A j \in 1..(Len(t) + 1 - b) : s[w + j] = t[b + j - 1]
    BY MarkedFacts
  <1> HIDE DEF w, b
  <1>2. w \in Nat /\ b \in Nat /\ w >= 1 /\ b >= w /\ n \in Nat /\ n >= 1
    BY <1>1
  <1>3. CASE n < w
    <2>1. n \in 1..(w - 1) /\ n \in 1..Len(t)
      BY <1>1, <1>2, <1>3
    <2>2. Origin(t, n) = n
      BY <1>3 DEF Origin, w
    <2> QED
      BY <1>1, <2>1, <2>2
  <1>4. CASE ~(n < w)
    <2>1. n - w \in 1..(Len(t) + 1 - b) /\ w + (n - w) = n
      <3>1. n > w
        BY <1>2, <1>4 DEF w
      <3> QED
        BY <1>1, <1>2, <3>1
    <2>2. Origin(t, n) = n - w + b - 1
      BY <1>4 DEF Origin, w, b
    <2>3. b + (n - w) - 1 = n - w + b - 1 /\ n - w + b - 1 \in 1..Len(t)
      BY <1>1, <1>2, <2>1
    <2> QED
      BY <1>1, <2>1, <2>2, <2>3
  <1> QED
    BY <1>3, <1>4

LEMMA MarkedKeywords ==
    ASSUME NEW k \in Nat, NEW t \in TextsOver(k), Announced(t), NEW i \in Tokens,
           NEW s, s = Marked(t, i), AtMostOneKeyword(t)
    PROVE  AtMostOneKeyword(s)
  <1>1. /\ s \in Text /\ Len(t) \in Nat /\ t \in Text
        /\ Place(t) \in 1..Len(t) /\ KeptFrom(t) \in Place(t)..(Len(t) + 1)
        /\ s[Place(t)] = i
    BY MarkedFacts, TextsOverFacts
  <1>2. DOMAIN s = 1..Len(s) /\ DOMAIN t = 1..Len(t) /\ Len(s) \in Nat
    BY <1>1, LenProperties DEF Text
  <1>3. i # Keyword
    BY AtomFacts DEF Ordinary, Tokens
  <1>4. ASSUME NEW m \in 1..Len(s), NEW n \in 1..Len(s), s[m] = Keyword, s[n] = Keyword
        PROVE  m = n
    <2>1. m # Place(t) /\ n # Place(t)
      BY <1>1, <1>3, <1>4
    <2>2. /\ Origin(t, m) \in 1..Len(t) /\ s[m] = t[Origin(t, m)]
          /\ Origin(t, n) \in 1..Len(t) /\ s[n] = t[Origin(t, n)]
      BY <2>1, MarkedOrigin
    <2>3. Origin(t, m) = Origin(t, n)
      BY <1>2, <1>4, <2>2 DEF AtMostOneKeyword
    <2>4. /\ Place(t) \in Nat /\ KeptFrom(t) \in Nat /\ KeptFrom(t) >= Place(t)
          /\ m \in Nat /\ n \in Nat
      BY <1>1, <1>2
    <2> DEFINE w == Place(t)
               b == KeptFrom(t)
    <2>5. (IF m < w THEN m ELSE m - w + b - 1) = (IF n < w THEN n ELSE n - w + b - 1)
      BY <2>3 DEF Origin
    <2>6. w \in Nat /\ b \in Nat /\ b >= w /\ m # w /\ n # w
      BY <2>1, <2>4
    <2> HIDE DEF w, b
    <2> QED
      BY <2>4, <2>5, <2>6
  <1> QED
    BY <1>2, <1>4 DEF AtMostOneKeyword

LEMMA SanitizeTextFacts ==
    ASSUME NEW v \in Vaults, NEW t \in TextsOver(Len(v)), AtMostOneKeyword(t),
           NEW r, r = _sanitize_text(v, t)
    PROVE  /\ Extends(v, r.vault)
           /\ r.text \in TextsOver(Len(r.vault)) /\ AtMostOneKeyword(r.text)
           /\ ~OnlyDots(t) =>
                 \A w : Extends(r.vault, w) => Resolved(w, r.text) = Resolved(w, t)
  <1> DEFINE known == replace_known(v, t)
             marked == TakeSecret([vault |-> v, text |-> known])
             shaped == TakeShaped(marked)
  <1>1. r = shaped
    BY DEF _sanitize_text
  <1>2. /\ known \in TextsOver(Len(v))
        /\ \A w : Extends(v, w) => Resolved(w, known) = Resolved(w, t)
    BY ReplaceKnownKeeps
  <1>3. AtMostOneKeyword(known) /\ (OnlyDots(known) => OnlyDots(t))
    BY ReplaceKnownClears
  <1>4. marked = [vault |-> marked.vault, text |-> marked.text]
    BY DEF TakeSecret
  <1> HIDE DEF known
  <1>5. /\ ~Announced(known) => marked.vault = v /\ marked.text = known
        /\ Announced(known) => \E i \in 1..Len(marked.vault) : marked.text = Marked(known, i)
        /\ Extends(v, marked.vault)
        /\ marked.text \in TextsOver(Len(marked.vault))
        /\ ~OnlyDots(known) =>
              \A w : Extends(marked.vault, w) => Resolved(w, marked.text) = Resolved(w, known)
    BY <1>2, TakeSecretFacts
  <1> DEFINE x == marked.vault
             s == marked.text
  <1>6. shaped = TakeShaped([vault |-> x, text |-> s])
    BY <1>4
  <1> HIDE DEF marked, shaped
  <1>7. x \in Vaults /\ Extends(v, x) /\ s \in TextsOver(Len(x)) /\ Len(x) \in Nat
    <2>1. x \in Vaults
      BY <1>5 DEF Extends
    <2> QED
      BY <1>5, <2>1, VaultFacts
  <1>8. AtMostOneKeyword(s)
    <2>1. CASE ~Announced(known)
      BY <1>3, <1>5, <2>1
    <2>2. CASE Announced(known)
      <3>1. PICK i \in 1..Len(x) : s = Marked(known, i)
        BY <1>5, <2>2
      <3>2. i \in Tokens /\ Len(v) \in Nat
        BY <1>7, VaultFacts
      <3> HIDE DEF s
      <3> QED
        BY <1>2, <1>3, <2>2, <3>1, <3>2, MarkedKeywords
    <2> QED
      BY <2>1, <2>2
  <1> HIDE DEF x, s
  <1>9. /\ Extends(x, r.vault)
        /\ r.text \in TextsOver(Len(r.vault)) /\ Len(r.text) = Len(s)
        /\ \A i \in 1..Len(s) :
              IF s[i] \in Shaped
              THEN r.text[i] \in 1..Len(r.vault) /\ r.vault[r.text[i]].raw = <<s[i]>>
              ELSE r.text[i] = s[i]
        /\ \A w : Extends(r.vault, w) => Resolved(w, r.text) = Resolved(w, s)
    BY <1>1, <1>6, <1>7, TakeShapedFacts
  <1>10. Extends(v, r.vault)
    BY <1>7, <1>9, ExtendsFacts
  <1>11. AtMostOneKeyword(r.text)
    <2>1. r.vault \in Vaults
      BY <1>9 DEF Extends
    <2>2. Len(r.vault) \in Nat
      BY <2>1, VaultFacts
    <2>3. r.text \in Text /\ s \in Text
      BY <1>7, <1>9, <2>2, TextsOverFacts
    <2>4. DOMAIN r.text = 1..Len(r.text) /\ DOMAIN s = 1..Len(s)
      BY <2>3, LenProperties DEF Text
    <2>5. \A i \in 1..Len(s) : r.text[i] = Keyword => s[i] = Keyword
      <3> SUFFICES ASSUME NEW i \in 1..Len(s), r.text[i] = Keyword, s[i] # Keyword PROVE FALSE
        OBVIOUS
      <3>1. r.text[i] \in 1..Len(r.vault)
        BY <1>9
      <3>2. r.text[i] \in Nat
        BY <2>2, <3>1
      <3> QED
        BY <3>2, AtomFacts DEF Ordinary
    <2> QED
      BY <1>8, <1>9, <2>4, <2>5 DEF AtMostOneKeyword
  <1>12. ASSUME ~OnlyDots(t), NEW w, Extends(r.vault, w) PROVE Resolved(w, r.text) = Resolved(w, t)
    <2>1. Extends(x, w) /\ Extends(v, w)
      BY <1>7, <1>9, <1>12, ExtendsFacts
    <2>2. Resolved(w, r.text) = Resolved(w, s)
      BY <1>9, <1>12
    <2>3. Resolved(w, s) = Resolved(w, known)
      BY <1>3, <1>5, <1>12, <2>1 DEF x, s
    <2>4. Resolved(w, known) = Resolved(w, t)
      BY <1>2, <2>1
    <2> QED
      BY <2>2, <2>3, <2>4
  <1> QED
    BY <1>9, <1>10, <1>11, <1>12

-----------------------------------------------------------------------------
(* A record, field by field.                                                *)
\* s and t say the same, in every vault that extends x.
Alike(x, s, t) == \A w : Extends(x, w) => Resolved(w, s) = Resolved(w, t)

\* A field as it is in a sanitized record.
Cleaned == [name : Seq(Ordinary), direct : BOOLEAN, number : BOOLEAN, text : Text]

Taken(v, f) ==
    CASE f.direct /\ f.text # <<>> -> TakeWhole(v, f.text)
      [] ~(f.direct /\ f.text # <<>>) /\ f.number -> [vault |-> v, text |-> f.text]
      [] OTHER -> _sanitize_text(v, f.text)

LEMMA TakenFacts ==
    ASSUME NEW v \in Vaults, NEW f, f.text \in Seq(Ordinary), AtMostOneKeyword(f.text),
           NEW r, r = Taken(v, f)
    PROVE  /\ Extends(v, r.vault)
           /\ r.text \in TextsOver(Len(r.vault))
           /\ f.direct \/ ~OnlyDots(f.text) => Alike(r.vault, r.text, f.text)
  <1> DEFINE t == f.text
  <1>1. Len(v) \in Nat
    BY VaultFacts
  <1>2. t \in TextsOver(Len(v)) /\ t \in Text
    <2>1. t \in TextsOver(Len(v))
      BY DEF TextsOver, Issued
    <2> QED
      BY <1>1, <2>1, TextsOverFacts
  <1> HIDE DEF t
  <1>3. CASE f.direct /\ t # <<>>
    <2> DEFINE x == tokenize(v, "direct", t)
               i == TokenOf(x, "direct", t)
    <2>1. r = [vault |-> x, text |-> <<i>>]
      BY <1>3 DEF Taken, TakeWhole, t
    <2>2. Extends(v, x) /\ i \in 1..Len(x) /\ x[i] = [label |-> "direct", raw |-> t]
      <3>1. "direct" \in Labels
        BY DEF Labels
      <3> QED
        BY <1>2, <1>3, <3>1, TokenizeFacts
    <2> HIDE DEF x, i
    <2>3. x \in Vaults /\ Len(x) \in Nat /\ r.vault = x /\ r.text = <<i>>
      <3>1. x \in Vaults
        BY <2>2 DEF Extends
      <3> QED
        BY <2>1, <3>1, VaultFacts
    <2>4. <<i>> \in TextsOver(Len(x))
      BY <2>2 DEF TextsOver, Issued
    <2>5. ASSUME NEW w, Extends(x, w) PROVE Resolved(w, <<i>>) = Resolved(w, t)
      <3>1. w \in Vaults /\ Len(w) \in Nat /\ i \in 1..Len(w) /\ w[i] = x[i]
        <4>1. w \in Vaults /\ Len(x) <= Len(w) /\ w[i] = x[i]
          BY <2>2, <2>5 DEF Extends
        <4>2. Len(w) \in Nat
          BY <4>1, VaultFacts
        <4> QED
          BY <2>2, <2>3, <4>1, <4>2
      <3>2. Resolved(w, <<i>>) = Resolved(w, w[i].raw)
        BY <3>1, ResolvedFacts
      <3>3. w[i].raw = t
        BY <2>2, <3>1
      <3> QED
        BY <3>2, <3>3
    <2> QED
      BY <2>2, <2>3, <2>4, <2>5 DEF t, Alike
  <1>4. CASE ~(f.direct /\ t # <<>>) /\ f.number
    <2>1. r = [vault |-> v, text |-> t]
      BY <1>4 DEF Taken, t
    <2>2. r.vault = v /\ r.text = t
      BY <2>1
    <2> QED
      BY <1>2, <2>2, ExtendsFacts DEF Alike, t
  <1>5. CASE ~(f.direct /\ t # <<>>) /\ ~f.number
    <2>1. r = _sanitize_text(v, t)
      BY <1>5 DEF Taken, t
    <2>2. AtMostOneKeyword(t)
      BY DEF t
    <2>3. /\ Extends(v, r.vault)
          /\ r.text \in TextsOver(Len(r.vault))
          /\ ~OnlyDots(t) =>
                \A w : Extends(r.vault, w) => Resolved(w, r.text) = Resolved(w, t)
      BY <1>2, <2>1, <2>2, SanitizeTextFacts
    <2>4. f.direct => ~OnlyDots(t)
      <3> SUFFICES ASSUME t = <<>>, WordStart(t) # 0 PROVE FALSE
        BY <1>5 DEF OnlyDots
      <3>1. PICK k : KeywordBefore(t, k, WordStart(t))
        BY <1>2, WordStartFacts
      <3>2. WordStart(t) \in 1..0
        BY <3>1 DEF KeywordBefore
      <3> QED
        BY <3>2
    <2> QED
      BY <2>3, <2>4 DEF t, Alike
  <1> QED
    BY <1>3, <1>4, <1>5

(* The first n fields of a record are sanitized in r.                        *)
FieldsTaken(r, fields, n) ==
    /\ r.vault \in Vaults
    /\ r.text \in Seq(Cleaned) /\ Len(r.text) = n
    /\ \A i \in 1..n :
          /\ r.text[i].text \in TextsOver(Len(r.vault))
          /\ fields[i].direct \/ ~OnlyDots(fields[i].text) =>
                Alike(r.vault, r.text[i].text, fields[i].text)

LEMMA NextField ==
    ASSUME NEW fields, NEW N \in Nat, NEW n \in 1..N,
           fields[n] \in Field, AtMostOneKeyword(fields[n].text),
           NEW acc, FieldsTaken(acc, fields, n - 1),
           NEW st, st = Taken(acc.vault, fields[n]),
           NEW r, r = [vault |-> st.vault, text |-> Append(acc.text, [fields[n] EXCEPT !.text = st.text])]
    PROVE  Extends(acc.vault, r.vault) /\ FieldsTaken(r, fields, n)
  <1> DEFINE f == fields[n]
             g == [f EXCEPT !.text = st.text]
             s == acc.text
             v == acc.vault
             x == st.vault
  <1>1. /\ v \in Vaults /\ s \in Seq(Cleaned) /\ Len(s) = n - 1
        /\ \A i \in 1..(n - 1) :
              /\ s[i].text \in TextsOver(Len(v))
              /\ fields[i].direct \/ ~OnlyDots(fields[i].text) =>
                    Alike(v, s[i].text, fields[i].text)
    BY DEF FieldsTaken
  <1>2. /\ Extends(v, x)
        /\ st.text \in TextsOver(Len(x))
        /\ f.direct \/ ~OnlyDots(f.text) => Alike(x, st.text, f.text)
    <2>1. f.text \in Seq(Ordinary) /\ AtMostOneKeyword(f.text)
      BY DEF Field
    <2> HIDE DEF f, v
    <2>2. st = Taken(v, f)
      BY DEF f, v
    <2>3. v \in Vaults
      BY <1>1
    <2>4. Extends(v, st.vault) /\ st.text \in TextsOver(Len(st.vault))
      BY <2>1, <2>2, <2>3, TakenFacts, Zenon
    <2>5. f.direct \/ ~OnlyDots(f.text) => Alike(st.vault, st.text, f.text)
      BY <2>1, <2>2, <2>3, TakenFacts, Zenon
    <2> QED
      BY <2>4, <2>5
  <1>3. x \in Vaults /\ Len(x) \in Nat /\ Len(v) \in Nat /\ Len(v) <= Len(x)
    <2>1. x \in Vaults /\ Len(v) <= Len(x)
      BY <1>2 DEF Extends
    <2> QED
      BY <1>1, <2>1, VaultFacts
  <1>4. g \in Cleaned /\ g.text = st.text
    <2>1. st.text \in Text
      BY <1>2, <1>3, TextsOverFacts
    <2> QED
      BY <2>1 DEF Field, Cleaned
  <1> HIDE DEF s, v, x, g
  <1>5. r.vault = x /\ r.text = Append(s, g)
    BY DEF s, x, g
  <1> DEFINE q == Append(s, g)
  <1>6. /\ q \in Seq(Cleaned) /\ Len(q) = n
        /\ q[n] = g /\ \A i \in 1..(n - 1) : q[i] = s[i]
    <2>1. s \in Seq(Cleaned) /\ g \in Cleaned
      BY <1>1, <1>4
    <2>2. /\ q \in Seq(Cleaned) /\ Len(q) = Len(s) + 1 /\ q[Len(s) + 1] = g
          /\ \A i \in 1..Len(s) : q[i] = s[i]
      BY <2>1, AppendProperties
    <2>3. Len(s) + 1 = n /\ Len(s) = n - 1
      BY <1>1
    <2> QED
      BY <2>2, <2>3
  <1> HIDE DEF q
  <1>7. ASSUME NEW i \in 1..n
        PROVE  /\ q[i].text \in TextsOver(Len(x))
               /\ fields[i].direct \/ ~OnlyDots(fields[i].text) =>
                     Alike(x, q[i].text, fields[i].text)
    <2>1. CASE i = n
      BY <1>2, <1>4, <1>6, <2>1
    <2>2. CASE i # n
      <3>1. i \in 1..(n - 1) /\ q[i] = s[i]
        BY <1>6, <2>2
      <3>2. q[i].text \in TextsOver(Len(x))
        BY <1>1, <1>3, <3>1, TextsOverFacts
      <3>3. \A w : Extends(x, w) => Extends(v, w)
        BY <1>2, ExtendsFacts
      <3> QED
        BY <1>1, <3>1, <3>2, <3>3 DEF Alike
    <2> QED
      BY <2>1, <2>2
  <1>8. FieldsTaken(r, fields, n)
    BY <1>3, <1>5, <1>6, <1>7 DEF FieldsTaken, q
  <1> QED
    BY <1>2, <1>5, <1>8 DEF v

\* A record and the state after each of its fields.
AfterField(x, f) ==
    LET st == Taken(x.vault, f)
    IN  [vault |-> st.vault, text |-> Append(x.text, [f EXCEPT !.text = st.text])]

LEMMA SanitizeObjectFacts ==
    ASSUME NEW v \in Vaults, NEW fields \in Records, NEW r, r = _sanitize_object(v, fields)
    PROVE  Extends(v, r.vault) /\ FieldsTaken(r, fields, Len(fields))
  <1> DEFINE N == Len(fields)
             S == [vault : Vaults, text : Seq(Cleaned)]
             x0 == [vault |-> v, text |-> <<>>]
             F == [n \in 1..N |-> [x \in S |-> AfterField(x, fields[n])]]
             body(f) == [n \in 0..N |->
                            IF n = 0 THEN [vault |-> v, text |-> <<>>]
                            ELSE LET acc == f[n - 1]
                                     g == fields[n]
                                     st == CASE g.direct /\ g.text # <<>> -> TakeWhole(acc.vault, g.text)
                                            [] ~(g.direct /\ g.text # <<>>) /\ g.number ->
                                                  [vault |-> acc.vault, text |-> g.text]
                                            [] OTHER -> _sanitize_text(acc.vault, g.text)
                                 IN  [vault |-> st.vault,
                                      text |-> Append(acc.text, [g EXCEPT !.text = st.text])]]
             c == CHOOSE f : f = body(f)
  <1>1. /\ N \in Nat
        /\ \A n \in 1..N : /\ fields[n] \in Field
                           /\ AtMostOneKeyword(fields[n].text)
    <2>1. fields \in Seq(Field)
      BY TextAssumption
    <2>2. \A i \in DOMAIN fields : AtMostOneKeyword(fields[i].text)
      BY TextAssumption
    <2>3. N \in Nat /\ DOMAIN fields = 1..N /\ \A n \in 1..N : fields[n] \in Field
      BY <2>1
    <2> QED
      BY <2>2, <2>3
  <1>2. r = c[N]
    BY DEF _sanitize_object
  <1> HIDE DEF N
  <1>3. x0 \in S /\ Extends(v, v) /\ FieldsTaken(x0, fields, 0)
    <2>1. x0 \in S
      OBVIOUS
    <2>2. FieldsTaken(x0, fields, 0)
      BY DEF FieldsTaken
    <2> QED
      BY <2>1, <2>2, ExtendsFacts
  <1>4. ASSUME NEW n \in 1..N, NEW x \in S PROVE AfterField(x, fields[n]) \in S
    <2> DEFINE f == fields[n]
               st == Taken(x.vault, f)
               g == [f EXCEPT !.text = st.text]
    <2>1. f.text \in Seq(Ordinary) /\ AtMostOneKeyword(f.text) /\ f.direct \in BOOLEAN
          /\ f \in Field
      BY <1>1 DEF Field
    <2>2. x.vault \in Vaults /\ x.text \in Seq(Cleaned)
      OBVIOUS
    <2> HIDE DEF f
    <2>3. Extends(x.vault, st.vault) /\ st.text \in TextsOver(Len(st.vault))
      BY <2>1, <2>2, TakenFacts, Zenon
    <2>4. st.vault \in Vaults /\ st.text \in Text
      <3>1. st.vault \in Vaults
        BY <2>3 DEF Extends
      <3>2. Len(st.vault) \in Nat
        BY <3>1, VaultFacts
      <3> QED
        BY <2>3, <3>1, <3>2, TextsOverFacts
    <2>5. g \in Cleaned
      BY <2>1, <2>4 DEF Field, Cleaned
    <2>6. AfterField(x, f) = [vault |-> st.vault, text |-> Append(x.text, g)]
      BY DEF AfterField
    <2> HIDE DEF st, g
    <2>7. Append(x.text, g) \in Seq(Cleaned)
      BY <2>2, <2>5
    <2> QED
      BY <2>4, <2>6, <2>7 DEF f
  <1>5. \A n \in 1..N : \A x \in S : F[n][x] = AfterField(x, fields[n]) /\ F[n][x] \in S
    BY <1>4
  <1> HIDE DEF F, S, x0
  <1>6. PICK f : Chained(f, N, S, x0, F)
    BY <1>1, <1>3, <1>5, Chain
  <1>7. f \in [0..N -> S] /\ f[0] = x0 /\ \A n \in 1..N : f[n] = F[n][f[n - 1]]
    BY <1>6 DEF Chained
  <1>8. ASSUME NEW n \in 1..N PROVE f[n] = AfterField(f[n - 1], fields[n])
    <2>1. f[n - 1] \in S
      BY <1>1, <1>7
    <2> QED
      BY <1>5, <1>7, <2>1
  <1>9. f = body(f)
    <2>1. ASSUME NEW n \in 0..N PROVE f[n] = body(f)[n]
      <3>1. CASE n = 0
        BY <1>7, <3>1 DEF x0
      <3>2. CASE n # 0
        <4>1. n \in 1..N
          BY <1>1, <3>2
        <4>2. f[n] = AfterField(f[n - 1], fields[n])
          BY <1>8, <4>1
        <4> QED
          BY <3>2, <4>2 DEF AfterField, Taken
      <3> QED
        BY <3>1, <3>2
    <2>2. f = [n \in 0..N |-> f[n]]
      BY <1>7
    <2>3. body(f) = [n \in 0..N |-> body(f)[n]]
      OBVIOUS
    <2> HIDE DEF body
    <2> QED
      BY <2>1, <2>2, <2>3
  <1>10. c = body(c)
    <2> HIDE DEF body
    <2> QED
      BY <1>9
  <1> HIDE DEF c
  <1>11. \A n \in 0..N : c[n] = body(c)[n]
    <2> HIDE DEF body
    <2> QED
      BY <1>10
  <1>12. c[0] = x0 /\ \A n \in 1..N : c[n] = AfterField(c[n - 1], fields[n])
    <2>1. c[0] = x0
      <3>1. 0 \in 0..N
        BY <1>1
      <3>2. c[0] = body(c)[0]
        <4> HIDE DEF body
        <4> QED
          BY <1>11, <3>1
      <3>3. body(c)[0] = x0
        BY <3>1, Zenon DEF x0
      <3> QED
        BY <3>2, <3>3
    <2>2. ASSUME NEW n \in 1..N PROVE c[n] = AfterField(c[n - 1], fields[n])
      <3>1. n \in 0..N /\ n # 0
        BY <1>1
      <3>2. c[n] = body(c)[n]
        BY <1>11, <3>1
      <3> QED
        BY <3>1, <3>2 DEF AfterField, Taken
    <2> QED
      BY <2>1, <2>2
  <1> DEFINE P == {n \in 0..N : Extends(v, c[n].vault) /\ FieldsTaken(c[n], fields, n)}
  <1>13. 0 \in P
    <2>1. c[0].vault = v
      BY <1>12 DEF x0
    <2> QED
      BY <1>1, <1>3, <1>12, <2>1
  <1>14. ASSUME NEW n \in 1..N, n - 1 \in P PROVE n \in P
    <2> DEFINE acc == c[n - 1]
               st == Taken(acc.vault, fields[n])
               z == [vault |-> st.vault, text |-> Append(acc.text, [fields[n] EXCEPT !.text = st.text])]
    <2>1. Extends(v, acc.vault) /\ FieldsTaken(acc, fields, n - 1)
      BY <1>14
    <2>2. c[n] = z
      BY <1>12 DEF AfterField
    <2> HIDE DEF acc
    <2>3. Extends(acc.vault, z.vault) /\ FieldsTaken(z, fields, n)
      BY <1>1, <2>1, NextField
    <2>4. n \in 0..N
      BY <1>1
    <2> HIDE DEF z
    <2> QED
      BY <2>1, <2>2, <2>3, <2>4, ExtendsFacts
  <1>15. 0..N \subseteq P
    <2> HIDE DEF P
    <2> QED
      BY <1>1, <1>13, <1>14, CountUp
  <1>16. N \in P
    <2> HIDE DEF P
    <2> QED
      BY <1>1, <1>15
  <1> QED
    BY <1>2, <1>16 DEF N

-----------------------------------------------------------------------------
(* Rehydration and resolution.                                              *)
Flat(v) == \A i \in DOMAIN v : Plain(v[i].raw)

LEMMA PlainIsKept ==
    ASSUME NEW v \in Vaults, NEW order \in [1..Len(v) -> 1..Len(v)], NEW t \in Text, Plain(t)
    PROVE  RestoreInOrder(v, t, order) = t
  <1>1. \A i \in 1..Len(v) : i \in Tokens
    BY VaultFacts
  <1>2. \A i \in 1..Len(v) : \A k \in DOMAIN t : t[k] # i
    BY <1>1 DEF Plain
  <1> QED
    BY <1>2, RestoreLeaves

LEMMA ResolvedPlain ==
    ASSUME NEW v \in Vaults, NEW t \in Text, Plain(t)
    PROVE  Resolved(v, t) = t
  <1>1. Latest(v) \in [1..Len(v) -> 1..Len(v)] /\ Resolved(v, t) = RestoreInOrder(v, t, Latest(v))
    BY ResolvedFacts
  <1> QED
    BY <1>1, PlainIsKept

\* When no value holds a token, the order in which tokens are replaced is of no
\* consequence.
LEMMA FlatRehydrate ==
    ASSUME NEW v \in Vaults, Flat(v), NEW t \in TextsOver(Len(v))
    PROVE  rehydrate_text(v, t) = Resolved(v, t)
  <1> DEFINE N == Len(v)
             late == Latest(v)
             A == Issued(N)
  <1>1. N \in Nat /\ DOMAIN v = 1..N
        /\ \A i \in 1..N : v[i].raw \in Text /\ <<i>> \in Text /\ i \in Tokens
    BY VaultFacts
  <1>2. \A i \in 1..N : Plain(v[i].raw)
    BY <1>1 DEF Flat
  <1>3. PICK order \in [1..N -> 1..N] :
           /\ \A s : rehydrate_text(v, s) = RestoreInOrder(v, s, order)
           /\ \A i \in 1..N : \E n \in 1..N : order[n] = i
    BY RehydrateFacts
  <1>4. /\ late \in [1..N -> 1..N]
        /\ \A s : Resolved(v, s) = RestoreInOrder(v, s, late)
        /\ Hom(RestoreMap(v, late))
        /\ \A i \in 1..N : Resolved(v, <<i>>) = Resolved(v, v[i].raw)
    BY ResolvedFacts
  <1>5. Hom(RestoreMap(v, order))
    BY RestoreHom
  <1> HIDE DEF N, late, A
  <1>6. ASSUME NEW i \in 1..N
        PROVE  RestoreInOrder(v, <<i>>, order) = v[i].raw /\ RestoreInOrder(v, <<i>>, late) = v[i].raw
    <2>1. v[i].raw \in Text /\ Plain(v[i].raw)
      BY <1>1, <1>2
    <2>2. RestoreInOrder(v, v[i].raw, order) = v[i].raw /\ Resolved(v, v[i].raw) = v[i].raw
      BY <2>1, PlainIsKept, ResolvedPlain DEF N
    <2>3. RestoreInOrder(v, <<i>>, late) = v[i].raw
      BY <1>4, <2>2
    <2> DEFINE T == {n \in 1..N : order[n] = i}
    <2>4. T \in SUBSET Nat /\ T # {}
      <3>1. PICK n \in 1..N : order[n] = i
        BY <1>3
      <3>2. n \in T
        BY <3>1
      <3>3. T \subseteq 1..N /\ 1..N \subseteq Nat
        BY <1>1
      <3> HIDE DEF T
      <3> QED
        BY <3>2, <3>3
    <2>5. PICK m \in T : \A n \in T : m <= n
      <3> HIDE DEF T
      <3> QED
        BY <2>4, LeastNumber
    <2>6. m \in 1..N /\ order[m] = i
      OBVIOUS
    <2>7. \A n \in 1..(m - 1) : order[n] # i
      <3> SUFFICES ASSUME NEW n \in 1..(m - 1), order[n] = i PROVE FALSE
        OBVIOUS
      <3>1. n \in 1..N /\ ~(m <= n)
        BY <1>1, <2>6
      <3> QED
        BY <2>5, <3>1
    <2>8. \A n \in 1..m : \A k \in DOMAIN v[i].raw : v[i].raw[k] # order[n]
      <3> SUFFICES ASSUME NEW n \in 1..m, NEW k \in DOMAIN v[i].raw PROVE v[i].raw[k] # order[n]
        OBVIOUS
      <3>1. n \in 1..N
        BY <1>1, <2>6
      <3>2. order[n] \in Tokens
        <4>1. order \in [1..N -> 1..N]
          BY <1>3
        <4>2. order[n] \in 1..N
          BY <3>1, <4>1
        <4> QED
          BY <1>1, <4>2
      <3> QED
        BY <2>1, <3>2 DEF Plain
    <2>9. RestoreInOrder(v, <<i>>, order) = RestoreInOrder(v, v[i].raw, order)
      <3> HIDE DEF T
      <3> QED
        BY <2>6, <2>7, <2>8, RestoreOfToken DEF N
    <2> QED
      BY <2>2, <2>3, <2>9
  <1>7. ASSUME NEW a \in Ordinary
        PROVE  RestoreInOrder(v, <<a>>, order) = RestoreInOrder(v, <<a>>, late)
    <2> DEFINE s == <<a>>
    <2>1. s \in Text /\ Plain(s)
      <3>1. a \in Atom /\ a \notin Tokens
        BY AtomFacts
      <3> QED
        BY <3>1 DEF Plain, Text
    <2> HIDE DEF s
    <2>2. RestoreInOrder(v, s, order) = s /\ RestoreInOrder(v, s, late) = s
      BY <1>4, <2>1, PlainIsKept DEF N
    <2> QED
      BY <2>2 DEF s
  <1>8. A \subseteq Atom
    BY <1>1, AtomFacts DEF A
  <1>9. ASSUME NEW a \in A PROVE RestoreMap(v, order)[<<a>>] = RestoreMap(v, late)[<<a>>]
    <2>1. <<a>> \in Text
      <3>1. a \in Atom
        BY <1>8
      <3> QED
        BY <3>1 DEF Text
    <2>2. RestoreInOrder(v, <<a>>, order) = RestoreInOrder(v, <<a>>, late)
      <3>1. a \in Ordinary \/ a \in 1..N
        BY DEF A, Issued
      <3> QED
        BY <1>6, <1>7, <3>1
    <2> QED
      BY <2>1, <2>2 DEF RestoreMap
  <1>10. t \in Text /\ \A i \in DOMAIN t : t[i] \in A
    <2>1. t \in Text /\ Over(t, N)
      BY <1>1, TextsOverFacts DEF N
    <2> QED
      BY <2>1 DEF Over, A
  <1>11. RestoreMap(v, order)[t] = RestoreMap(v, late)[t]
    <2> DEFINE G == RestoreMap(v, order)
               H == RestoreMap(v, late)
    <2>1. Hom(G) /\ Hom(H) /\ \A a \in A : G[<<a>>] = H[<<a>>]
      BY <1>4, <1>5, <1>9
    <2> HIDE DEF G, H
    <2>2. G[t] = H[t]
      BY <1>8, <1>10, <2>1, HomEqual
    <2> QED
      BY <2>2 DEF G, H
  <1>12. RestoreInOrder(v, t, order) = RestoreInOrder(v, t, late)
    BY <1>10, <1>11 DEF RestoreMap
  <1> QED
    BY <1>3, <1>4, <1>12

-----------------------------------------------------------------------------
(* The invariant: every value of the vault is over atoms issued before it   *)
(* and no entry is there twice, so that every token has one meaning; the    *)
(* last text and its sanitized form are over the tokens issued, and say the *)
(* same in every vault that extends the present one.                        *)
LastInv(v, l) ==
    \/ l = NoOp
    \/ /\ l.op = "text"
       /\ l.arg \in TextsOver(Len(v)) /\ l.res \in TextsOver(Len(v))
       /\ AtMostOneKeyword(l.res)
       /\ ~OnlyDots(l.arg) => Alike(v, l.res, l.arg)
    \/ /\ l.op = "record"
       /\ \A i \in DOMAIN l.arg :
             l.arg[i].direct \/ ~OnlyDots(l.arg[i].text) => Alike(v, l.res[i].text, l.arg[i].text)

VaultInv == vault \in Vaults /\ LastInv(vault, last)

LEMMA VaultInit == Init => VaultInv
  <1> SUFFICES ASSUME Init PROVE VaultInv
    OBVIOUS
  <1>1. vault = <<>> /\ last = NoOp
    BY DEF Init
  <1>2. <<>> \in Vaults
    BY DEF Vaults
  <1> QED
    BY <1>1, <1>2 DEF VaultInv, LastInv

\* Learn: a value without tokens gets an entry.
LEMMA LearnKeeps ==
    ASSUME VaultInv, NEW raw \in Raws, Learn(raw)
    PROVE  VaultInv' /\ last' = NoOp
  <1>1. vault \in Vaults /\ Len(vault) \in Nat
    BY VaultFacts DEF VaultInv
  <1>2. vault' = tokenize(vault, "sensitive", raw) /\ last' = NoOp
    BY DEF Learn
  <1>3. raw \in TextsOver(Len(vault)) /\ raw # <<>>
    BY TextAssumption DEF TextsOver, Issued
  <1>4. Extends(vault, tokenize(vault, "sensitive", raw))
    <2>1. "sensitive" \in Labels
      BY DEF Labels
    <2> QED
      BY <1>1, <1>3, <2>1, TokenizeFacts
  <1>5. vault' \in Vaults
    BY <1>2, <1>4 DEF Extends
  <1> QED
    BY <1>2, <1>5 DEF VaultInv, LastInv

\* Sanitize: of a new text or of one sanitized before.
LEMMA SanitizeKeeps ==
    ASSUME VaultInv, NEW text \in TextsOver(Len(vault)), AtMostOneKeyword(text), Sanitize(text)
    PROVE  VaultInv'
  <1> DEFINE r == sanitize(vault, text)
  <1>1. vault \in Vaults /\ Len(vault) \in Nat
    BY VaultFacts DEF VaultInv
  <1>2. /\ vault' = r.vault
        /\ last' = [op |-> "text", arg |-> text, res |-> r.text, known |-> Len(vault)]
    BY DEF Sanitize, Take
  <1>3. /\ Extends(vault, r.vault)
        /\ r.text \in TextsOver(Len(r.vault)) /\ AtMostOneKeyword(r.text)
        /\ ~OnlyDots(text) => Alike(r.vault, r.text, text)
    <2>1. CASE text \in Scalars
      <3>1. r.vault = vault /\ r.text = text
        BY <2>1 DEF sanitize
      <3> QED
        BY <1>1, <3>1, ExtendsFacts DEF Alike
    <2>2. CASE text \notin Scalars
      <3>1. r = _sanitize_text(vault, text)
        BY <2>2 DEF sanitize
      <3> HIDE DEF r
      <3> QED
        BY <1>1, <3>1, SanitizeTextFacts DEF Alike
    <2> QED
      BY <2>1, <2>2
  <1> HIDE DEF r
  <1>4. r.vault \in Vaults /\ Len(r.vault) \in Nat /\ Len(vault) <= Len(r.vault)
    BY <1>3, VaultFacts DEF Extends
  <1>5. text \in TextsOver(Len(r.vault))
    BY <1>1, <1>4, TextsOverFacts
  <1>6. LastInv(r.vault, last')
    <2>1. last'.op = "text" /\ last'.arg = text /\ last'.res = r.text
      BY <1>2
    <2> QED
      BY <1>3, <1>5, <2>1 DEF LastInv
  <1> QED
    BY <1>2, <1>4, <1>6 DEF VaultInv

LEMMA SanitizeRecordKeeps ==
    ASSUME VaultInv, NEW fields \in Records, SanitizeRecord(fields)
    PROVE  VaultInv'
  <1> DEFINE r == _sanitize_object(vault, fields)
  <1>1. vault \in Vaults
    BY DEF VaultInv
  <1>2. /\ vault' = r.vault
        /\ last' = [op |-> "record", arg |-> fields, res |-> r.text, known |-> Len(vault)]
    BY DEF SanitizeRecord, Take
  <1>3. Extends(vault, r.vault) /\ FieldsTaken(r, fields, Len(fields))
    BY <1>1, SanitizeObjectFacts
  <1> HIDE DEF r
  <1>4. r.vault \in Vaults
    BY <1>3 DEF Extends
  <1>5. \A i \in DOMAIN fields :
           fields[i].direct \/ ~OnlyDots(fields[i].text) => Alike(r.vault, r.text[i].text, fields[i].text)
    <2>1. DOMAIN fields = 1..Len(fields)
      <3>1. fields \in Seq(Field)
        BY TextAssumption
      <3> QED
        BY <3>1
    <2> QED
      BY <1>3, <2>1 DEF FieldsTaken
  <1>6. LastInv(r.vault, last')
    <2>1. last'.op = "record" /\ last'.arg = fields /\ last'.res = r.text
      BY <1>2
    <2> QED
      BY <1>5, <2>1 DEF LastInv
  <1> QED
    BY <1>2, <1>4, <1>6 DEF VaultInv

LEMMA DestroyKeeps == destroy_key => VaultInv' /\ last' = NoOp
  <1> SUFFICES ASSUME destroy_key PROVE VaultInv' /\ last' = NoOp
    OBVIOUS
  <1>1. vault' = <<>> /\ last' = NoOp
    BY DEF destroy_key
  <1>2. <<>> \in Vaults
    BY DEF Vaults
  <1> QED
    BY <1>1, <1>2 DEF VaultInv, LastInv

\* What a step can be: it forgets the last operation, or sanitizes a text of
\* which no more than the vault is assumed, or a record, or changes nothing.
LEMMA StepIs ==
    ASSUME VaultInv, [Next]_vars
    PROVE  \/ VaultInv' /\ last' = NoOp
           \/ \E text \in TextsOver(Len(vault)) : AtMostOneKeyword(text) /\ Sanitize(text)
           \/ \E fields \in Records : SanitizeRecord(fields)
           \/ UNCHANGED vars
  <1>1. CASE \E raw \in Raws : Learn(raw)
    BY <1>1, LearnKeeps
  <1>2. CASE \E text \in Texts : Sanitize(text)
    <2>1. PICK text \in Texts : Sanitize(text)
      BY <1>2
    <2>2. AtMostOneKeyword(text) /\ text \in TextsOver(Len(vault))
      BY TextAssumption DEF TextsOver, Issued
    <2> QED
      BY <2>1, <2>2
  <1>3. CASE last.op = "text" /\ Sanitize(last.res)
    <2>1. last # NoOp /\ last.op # "record"
      BY <1>3 DEF NoOp
    <2>2. last.res \in TextsOver(Len(vault)) /\ AtMostOneKeyword(last.res)
      BY <2>1 DEF VaultInv, LastInv
    <2> QED
      BY <1>3, <2>2
  <1>4. CASE \E fields \in Records : SanitizeRecord(fields)
    BY <1>4
  <1>5. CASE destroy_key
    BY <1>5, DestroyKeeps
  <1>6. CASE UNCHANGED vars
    BY <1>6
  <1> QED
    BY <1>1, <1>2, <1>3, <1>4, <1>5, <1>6 DEF Next

\* The vault of a reachable state names every value once, by a token that no
\* earlier value holds.
THEOREM VaultSound == Spec => []VaultInv
  <1>1. VaultInv /\ [Next]_vars => VaultInv'
    <2> SUFFICES ASSUME VaultInv, [Next]_vars PROVE VaultInv'
      OBVIOUS
    <2>1. CASE \E text \in TextsOver(Len(vault)) : AtMostOneKeyword(text) /\ Sanitize(text)
      BY <2>1, SanitizeKeeps
    <2>2. CASE \E fields \in Records : SanitizeRecord(fields)
      BY <2>2, SanitizeRecordKeeps
    <2>3. CASE UNCHANGED vars
      BY <2>3 DEF VaultInv, vars
    <2> QED
      BY <2>1, <2>2, <2>3, StepIs
  <1> QED
    BY VaultInit, <1>1, PTL DEF Spec

\* Nothing of a text is lost or doubled by its sanitized form.
THEOREM NothingLostSound == Spec => []NothingLost
  <1>1. VaultInv => NothingLost
    <2> SUFFICES ASSUME VaultInv PROVE NothingLost
      OBVIOUS
    <2>1. Extends(vault, vault)
      BY ExtendsFacts DEF VaultInv
    <2>2. ASSUME last.op = "text", ~OnlyDots(last.arg)
          PROVE  Resolved(vault, last.res) = Resolved(vault, last.arg)
      <3>1. last # NoOp /\ last.op # "record"
        BY <2>2 DEF NoOp
      <3>2. Alike(vault, last.res, last.arg)
        BY <2>2, <3>1 DEF VaultInv, LastInv
      <3> QED
        BY <2>1, <3>2 DEF Alike
    <2>3. ASSUME last.op = "record", NEW i \in DOMAIN last.arg,
                 last.arg[i].direct \/ ~OnlyDots(last.arg[i].text)
          PROVE  Resolved(vault, last.res[i].text) = Resolved(vault, last.arg[i].text)
      <3>1. last # NoOp /\ last.op # "text"
        BY <2>3 DEF NoOp
      <3>2. Alike(vault, last.res[i].text, last.arg[i].text)
        BY <2>3, <3>1 DEF VaultInv, LastInv
      <3> QED
        BY <2>1, <3>2 DEF Alike
    <2> QED
      BY <2>2, <2>3 DEF NothingLost
  <1> QED
    BY VaultSound, <1>1, PTL

\* While no value holds a token, rehydrate_text gives a plain text back.
THEOREM RoundTripSound == Spec => []RoundTripWhenFlat
  <1>1. VaultInv => RoundTripWhenFlat
    <2> SUFFICES ASSUME VaultInv, last.op = "text", Plain(last.arg), ~OnlyDots(last.arg), Flat(vault)
                 PROVE  rehydrate_text(vault, last.res) = last.arg
      BY DEF RoundTripWhenFlat, Flat
    <2>1. vault \in Vaults /\ Len(vault) \in Nat /\ Extends(vault, vault)
      BY VaultFacts, ExtendsFacts DEF VaultInv
    <2>2. last # NoOp /\ last.op # "record"
      BY DEF NoOp
    <2>3. /\ last.arg \in TextsOver(Len(vault)) /\ last.res \in TextsOver(Len(vault))
          /\ Alike(vault, last.res, last.arg)
      BY <2>2 DEF VaultInv, LastInv
    <2>4. last.arg \in Text
      BY <2>1, <2>3, TextsOverFacts
    <2>5. rehydrate_text(vault, last.res) = Resolved(vault, last.res)
      BY <2>1, <2>3, FlatRehydrate
    <2>6. Resolved(vault, last.res) = Resolved(vault, last.arg)
      BY <2>1, <2>3 DEF Alike
    <2>7. Resolved(vault, last.arg) = last.arg
      BY <2>1, <2>4, ResolvedPlain
    <2> QED
      BY <2>5, <2>6, <2>7
  <1> QED
    BY VaultSound, <1>1, PTL

-----------------------------------------------------------------------------
(* For NoneLeft: replacements of a whole text, and of what is not there.     *)
LEMMA ReplaceWhole ==
    ASSUME NEW t \in Text, t # <<>>, NEW x \in Atom
    PROVE  Replace(t, t, <<x>>) = <<x>>
  <1>1. Len(t) \in Nat /\ Len(t) >= 1 /\ <<x>> \in Text
    BY EmptySeq DEF Text
  <1>2. OccursAt(t, 1, t)
    <2>1. 1 + Len(t) - 1 <= Len(t)
      BY <1>1
    <2>2. \A k \in 1..Len(t) : 1 + k - 1 = k
      BY <1>1
    <2> QED
      BY <2>1, <2>2 DEF OccursAt
  <1> DEFINE rest == From(t, Len(t) + 1)
  <1>3. rest \in Text /\ Len(rest) = 0
    <2> DEFINE k == Len(t) + 1
    <2>1. k \in 1..(Len(t) + 1) /\ Len(t) + 1 - k = 0
      BY <1>1
    <2> HIDE DEF k
    <2>2. From(t, k) \in Text
      BY <2>1, FromFacts
    <2>3. Len(From(t, k)) = Len(t) + 1 - k
      BY <2>1, FromFacts
    <2> QED
      BY <2>1, <2>2, <2>3 DEF k
  <1>4. rest = <<>>
    <2> HIDE DEF rest
    <2> QED
      BY <1>3, EmptySeq DEF Text
  <1> DEFINE new == <<x>>
  <1> HIDE DEF new
  <1>5. new \in Text
    BY <1>1 DEF new
  <1>6. Replace(t, t, new) = new \o Replace(rest, t, new)
    BY <1>2, <1>5, ReplaceFacts
  <1>7. Replace(<<>>, t, new) = <<>>
    BY <1>5, ReplaceFacts
  <1>8. new \o <<>> = new
    BY <1>5, ConcatText, Zenon
  <1> QED
    BY <1>4, <1>6, <1>7, <1>8 DEF new

LEMMA ReplaceNone ==
    ASSUME NEW old \in Text, old # <<>>, NEW new \in Text
    PROVE  \A t \in Text : ~Occurs(old, t) => Replace(t, old, new) = t
  <1> DEFINE P == {t \in Text : ~Occurs(old, t) => Replace(t, old, new) = t}
  <1>1. ASSUME NEW t \in Text, \A u \in Text : Len(u) < Len(t) => u \in P, ~Occurs(old, t)
        PROVE  Replace(t, old, new) = t
    <2>1. CASE t = <<>>
      BY <2>1, ReplaceFacts
    <2>2. CASE t # <<>>
      <3> DEFINE q == Tail(t)
      <3>1. /\ Len(t) \in Nat /\ Len(t) >= 1 /\ q \in Text /\ Len(q) = Len(t) - 1
            /\ q = From(t, 2) /\ t = <<Head(t)>> \o q
        BY <2>2, TailAt, HeadAndTail
      <3>2. ~OccursAt(old, 1, t)
        BY <1>1, <3>1 DEF Occurs
      <3>3. Replace(t, old, new) = <<Head(t)>> \o Replace(q, old, new)
        BY <2>2, <3>2, ReplaceFacts, Zenon
      <3> HIDE DEF q
      <3>4. ~Occurs(old, q)
        <4> SUFFICES ASSUME NEW k \in 1..Len(q), OccursAt(old, k, q) PROVE FALSE
          BY DEF Occurs
        <4>1. k \in Nat /\ k >= 1 /\ 2 \in 1..(Len(t) + 1) /\ k + 2 - 1 \in 1..Len(t)
          BY <3>1
        <4>2. OccursAt(old, k, From(t, 2)) <=> OccursAt(old, k + 2 - 1, t)
          BY <4>1, OccursFurther
        <4> QED
          BY <1>1, <3>1, <4>1, <4>2 DEF Occurs
      <3>5. Len(q) < Len(t)
        BY <3>1
      <3>6. Replace(q, old, new) = q
        BY <1>1, <3>1, <3>4, <3>5
      <3> QED
        BY <3>1, <3>3, <3>6
    <2> QED
      BY <2>1, <2>2
  <1>2. \A t \in Text : (\A u \in Text : Len(u) < Len(t) => u \in P) => t \in P
    BY <1>1
  <1>3. Text \subseteq P
    <2> HIDE DEF P
    <2> QED
      BY <1>2, TextInduction
  <1> QED
    BY <1>3

LEMMA SameText ==
    ASSUME NEW s \in Text, NEW t \in Text, Len(s) = Len(t), \A i \in 1..Len(s) : s[i] = t[i]
    PROVE  s = t
  BY SeqEqual DEF Text

LEMMA OccursInAtom ==
    ASSUME NEW old \in Text, old # <<>>, NEW a \in Atom, Occurs(old, <<a>>)
    PROVE  old = <<a>>
  <1> DEFINE s == <<a>>
  <1>1. s \in Text /\ Len(s) = 1 /\ Len(old) \in Nat /\ Len(old) >= 1 /\ Occurs(old, s)
    BY EmptySeq DEF Text
  <1> HIDE DEF s
  <1>2. PICK i \in 1..1 : OccursAt(old, i, s)
    BY <1>1 DEF Occurs
  <1>3. i = 1 /\ i + Len(old) - 1 <= Len(s) /\ \A k \in 1..Len(old) : s[i + k - 1] = old[k]
    <2>1. i = 1
      OBVIOUS
    <2> QED
      BY <1>2, <2>1 DEF OccursAt
  <1>4. Len(old) = 1
    <2> DEFINE m == Len(old)
    <2>1. m \in Nat /\ m >= 1 /\ i = 1 /\ i + m - 1 <= 1
      BY <1>1, <1>3
    <2> HIDE DEF m
    <2>2. m = 1
      BY <2>1
    <2> QED
      BY <2>2 DEF m
  <1>5. \A k \in 1..Len(old) : old[k] = s[k]
    <2> SUFFICES ASSUME NEW k \in 1..Len(old) PROVE old[k] = s[k]
      OBVIOUS
    <2>1. k = 1 /\ i + k - 1 = k
      BY <1>3, <1>4
    <2> QED
      BY <1>3, <2>1
  <1>6. old = s
    BY <1>1, <1>4, <1>5, SameText
  <1> QED
    BY <1>6 DEF s

\* A part of a text that is not all of it is narrower.
LEMMA PartIsNarrower ==
    ASSUME NEW v, NEW q \in Text, NEW t \in Text, Occurs(q, t), q # t
    PROVE  Width(v, q) < Width(v, t)
  <1>1. PICK n \in 1..Len(t) : OccursAt(q, n, t)
    BY DEF Occurs
  <1>2. PICK f : Summing(f, v, t)
    BY WidthSteps
  <1>3. PICK g : Summing(g, v, q)
    BY WidthSteps
  <1> DEFINE N == Len(t)
             M == Len(q)
             m == n - 1 + M
  <1>4. N \in Nat /\ M \in Nat
    BY LenProperties DEF Text
  <1>5. n \in Nat /\ n >= 1 /\ m <= N /\ m \in Nat /\ \A k \in 1..M : t[n + k - 1] = q[k]
    BY <1>1, <1>4 DEF OccursAt
  <1>6. /\ f \in [0..N -> Nat] /\ f[0] = 0 /\ f[N] = Width(v, t)
        /\ \A k \in 1..N : f[k] = f[k - 1] + AtomWidth(v, t[k])
    BY <1>2 DEF Summing
  <1>7. /\ g \in [0..M -> Nat] /\ g[0] = 0 /\ g[M] = Width(v, q)
        /\ \A k \in 1..M : g[k] = g[k - 1] + AtomWidth(v, q[k])
    BY <1>3 DEF Summing
  <1> HIDE DEF N, M
  <1>8. \A k \in 1..N : f[k] >= f[k - 1] + 1
    <2> SUFFICES ASSUME NEW k \in 1..N PROVE f[k] >= f[k - 1] + 1
      OBVIOUS
    <2>1. AtomWidth(v, t[k]) \in Nat /\ AtomWidth(v, t[k]) >= 1
      BY AtomWidthPositive
    <2>2. f[k] \in Nat /\ f[k - 1] \in Nat
      BY <1>4, <1>6
    <2> QED
      BY <1>6, <2>1, <2>2
  <1>9. \A k \in 0..M : f[n - 1 + k] = f[n - 1] + g[k]
    <2> DEFINE P == {k \in 0..M : f[n - 1 + k] = f[n - 1] + g[k]}
    <2>1. 0 \in P
      <3>1. n - 1 \in 0..N /\ n - 1 + 0 = n - 1
        BY <1>4, <1>5
      <3>2. f[n - 1] \in Nat
        BY <1>6, <3>1
      <3> QED
        BY <1>4, <1>7, <3>1, <3>2
    <2>2. ASSUME NEW k \in 1..M, k - 1 \in P PROVE k \in P
      <3> DEFINE j == n - 1 + k
      <3>1. j \in 1..N /\ j - 1 = n - 1 + (k - 1) /\ j = n + k - 1 /\ k \in 0..M /\ k - 1 \in 0..M
            /\ n - 1 \in 0..N
        BY <1>4, <1>5
      <3>2. f[j - 1] = f[n - 1] + g[k - 1]
        BY <2>2, <3>1
      <3>3. f[j] = f[j - 1] + AtomWidth(v, t[j]) /\ t[j] = q[k]
        BY <1>5, <1>6, <3>1
      <3>4. g[k] = g[k - 1] + AtomWidth(v, q[k])
        BY <1>7
      <3>5. AtomWidth(v, q[k]) \in Nat /\ g[k - 1] \in Nat /\ f[n - 1] \in Nat
        BY <1>6, <1>7, <3>1, AtomWidthPositive
      <3> HIDE DEF j
      <3>6. f[j] = f[n - 1] + g[k]
        BY <3>2, <3>3, <3>4, <3>5
      <3> QED
        BY <3>1, <3>6 DEF j
    <2>3. 0..M \subseteq P
      <3> HIDE DEF P
      <3> QED
        BY <1>4, <2>1, <2>2, CountUp
    <2> QED
      BY <2>3
  <1>10. \A k \in 0..N : f[k] >= k
    <2> DEFINE P == {k \in 0..N : f[k] >= k}
    <2>1. 0 \in P
      BY <1>4, <1>6
    <2>2. ASSUME NEW k \in 1..N, k - 1 \in P PROVE k \in P
      <3>1. k \in 0..N /\ k - 1 \in 0..N /\ k \in Nat /\ f[k - 1] >= k - 1 /\ f[k] >= f[k - 1] + 1
        BY <1>4, <1>8, <2>2
      <3>2. f[k] \in Nat /\ f[k - 1] \in Nat
        BY <1>6, <3>1
      <3>3. f[k] >= k
        BY <3>1, <3>2
      <3> QED
        BY <3>1, <3>3
    <2>3. 0..N \subseteq P
      <3> HIDE DEF P
      <3> QED
        BY <1>4, <2>1, <2>2, CountUp
    <2> QED
      BY <2>3
  <1>11. \A k \in 0..(N - m) : f[m + k] >= f[m] + k
    <2> DEFINE K == N - m
               P == {k \in 0..K : f[m + k] >= f[m] + k}
    <2>0. K \in Nat /\ m + K = N /\ m \in Nat /\ f[m] \in Nat
      <3>1. m \in 0..N
        BY <1>4, <1>5
      <3> HIDE DEF m
      <3> QED
        BY <1>4, <1>6, <3>1
    <2> HIDE DEF K, m
    <2>1. 0 \in P
      <3>1. m + 0 = m
        BY <2>0
      <3> QED
        BY <2>0, <3>1
    <2>2. ASSUME NEW k \in 1..K, k - 1 \in P PROVE k \in P
      <3> DEFINE j == m + k
      <3>1. j \in 1..N /\ j - 1 = m + (k - 1) /\ j \in 0..N /\ j - 1 \in 0..N /\ k \in 0..K /\ k \in Nat
        BY <1>4, <2>0
      <3>2. f[j - 1] >= f[m] + (k - 1)
        BY <2>2, <3>1
      <3> HIDE DEF j
      <3>3. f[j] >= f[j - 1] + 1 /\ f[j] \in Nat /\ f[j - 1] \in Nat
        BY <1>6, <1>8, <3>1
      <3>4. f[j] >= f[m] + k
        BY <2>0, <3>1, <3>2, <3>3
      <3> QED
        BY <3>1, <3>4 DEF j
    <2>3. 0..K \subseteq P
      <3> HIDE DEF P
      <3> QED
        BY <2>0, <2>1, <2>2, CountUp
    <2> QED
      BY <2>3 DEF K
  <1>12. f[m] = f[n - 1] + g[M] /\ f[n - 1] >= n - 1 /\ f[N] >= f[m] + (N - m)
    <2>1. M \in 0..M /\ n - 1 \in 0..N /\ N - m \in 0..(N - m) /\ m + (N - m) = N /\ m = n - 1 + M
      BY <1>4, <1>5
    <2>2. f[N] >= f[m] + (N - m)
      <3> HIDE DEF m
      <3> QED
        BY <1>11, <2>1
    <2> QED
      BY <1>9, <1>10, <2>1, <2>2
  <1>13. f[m] \in Nat /\ f[n - 1] \in Nat /\ f[N] \in Nat /\ g[M] \in Nat
    <2>1. m \in 0..N /\ n - 1 \in 0..N /\ N \in 0..N /\ M \in 0..M
      BY <1>4, <1>5
    <2> HIDE DEF m
    <2> QED
      BY <1>6, <1>7, <2>1
  <1>14. n # 1 \/ m # N
    <2> SUFFICES ASSUME n = 1, m = N PROVE FALSE
      OBVIOUS
    <2>1. M = N
      BY <1>4
    <2>2. \A k \in 1..M : q[k] = t[k]
      <3> SUFFICES ASSUME NEW k \in 1..M PROVE q[k] = t[k]
        OBVIOUS
      <3>1. n + k - 1 = k
        BY <1>4
      <3> QED
        BY <1>5, <3>1
    <2>3. q = t
      BY <2>1, <2>2, SameText DEF M, N
    <2> QED
      BY <2>3
  <1>15. g[M] < f[N]
    <2> DEFINE x == f[n - 1]
               y == f[m]
    <2>1. y = x + g[M] /\ x >= n - 1 /\ f[N] >= y + (N - m) /\ x \in Nat /\ y \in Nat
      BY <1>12, <1>13
    <2>2. m \in Nat /\ m <= N
      BY <1>5
    <2> HIDE DEF x, y, m
    <2> QED
      BY <1>4, <1>5, <1>13, <1>14, <2>1, <2>2
  <1> QED
    BY <1>6, <1>7, <1>15

\* A text that is a value of the vault is replaced as a whole: the values that come
\* before it are as wide at least, and so are no part of it.
LEMMA KnownWhole ==
    ASSUME NEW v \in Vaults, NEW i \in 1..Len(v), NEW t, t = v[i].raw,
           NEW u, u = replace_known(v, t)
    PROVE  \E tok \in 1..Len(v) : u = <<tok>>
  <1> DEFINE N == Len(v)
             order == KnownInOrder(v)
  <1>1. /\ N \in Nat
        /\ \A j \in 1..N : v[j].raw \in Text /\ v[j].raw # <<>> /\ j \in Atom
    BY VaultFacts
  <1>2. t \in TextsOver(N) /\ t \in Text /\ t # <<>>
    <2>1. t \in Text /\ t # <<>> /\ Over(t, i - 1)
      BY VaultFacts
    <2>2. i - 1 \in Nat /\ i - 1 <= N
      BY <1>1
    <2> QED
      BY <1>1, <2>1, <2>2, TextsOverFacts
  <1>3. PICK f : Replacing(f, v, t)
    BY <1>2, ReplaceKnownSteps
  <1>4. /\ f[0] = t /\ f[N] = u
        /\ \A n \in 1..N : f[n] = PutToken(v, f[n - 1], order[n])
    BY <1>3 DEF Replacing
  <1>5. /\ order \in [1..N -> 1..N]
        /\ \A j \in 1..N : \E n \in 1..N : order[n] = j
        /\ \A m, n \in 1..N : m < n =>
              Width(v, v[order[m]].raw) >= Width(v, v[order[n]].raw)
    BY KnownInOrderFacts
  <1>6. PICK m \in 1..N : order[m] = i
    BY <1>5
  <1> HIDE DEF N, order
  <1> DEFINE Single(s) == \E tok \in 1..N : s = <<tok>>
             P == {n \in 0..N : (n < m /\ f[n] = t) \/ Single(f[n])}
  <1>7. 0 \in P
    BY <1>1, <1>4
  <1>8. ASSUME NEW n \in 1..N, n - 1 \in P PROVE n \in P
    <2> DEFINE j == order[n]
               old == v[j].raw
    <2>1. n \in 0..N /\ j \in 1..N /\ n \in Nat /\ m \in Nat
      BY <1>1, <1>5
    <2>2. f[n] = Replace(f[n - 1], old, <<j>>)
      BY <1>4 DEF PutToken
    <2>3. old \in Text /\ old # <<>> /\ j \in Atom
      BY <1>1, <2>1
    <2>4. <<j>> \in Text
      BY <2>3 DEF Text
    <2> HIDE DEF j
    <2>5. CASE n - 1 < m /\ f[n - 1] = t
      <3>1. CASE old = t
        <4>1. Replace(t, t, <<j>>) = <<j>>
          BY <1>2, <2>3, ReplaceWhole
        <4>2. f[n] = <<j>>
          BY <2>2, <2>5, <3>1, <4>1
        <4> QED
          BY <2>1, <4>2
      <3>2. CASE old # t
        <4>1. n # m
          BY <1>6, <3>2 DEF j, N
        <4>2. n < m
          BY <2>1, <2>5, <4>1
        <4>3. Width(v, old) >= Width(v, t)
          BY <1>5, <1>6, <4>2 DEF j
        <4> HIDE DEF old
        <4>4. ~Occurs(old, t)
          <5> SUFFICES ASSUME Occurs(old, t) PROVE FALSE
            OBVIOUS
          <5>1. Width(v, old) < Width(v, t)
            BY <1>2, <2>3, <3>2, PartIsNarrower
          <5>2. Width(v, old) \in Nat /\ Width(v, t) \in Nat
            BY <1>2, <2>3, WidthType
          <5> QED
            BY <4>3, <5>1, <5>2
        <4>5. Replace(t, old, <<j>>) = t
          BY <1>2, <2>3, <2>4, <4>4, ReplaceNone
        <4>6. f[n] = t
          BY <2>2, <2>5, <4>5
        <4> QED
          BY <2>1, <4>2, <4>6
      <3> QED
        BY <3>1, <3>2
    <2>6. CASE Single(f[n - 1])
      <3>1. PICK tok \in 1..N : f[n - 1] = <<tok>>
        BY <2>6
      <3>2. tok \in Atom
        BY <1>1
      <3> DEFINE s == <<tok>>
      <3>3. s \in Text /\ s # <<>>
        BY <3>2 DEF Text
      <3>4. CASE Occurs(old, s)
        <4> HIDE DEF old
        <4>1. old = s
          BY <2>3, <3>2, <3>4, OccursInAtom
        <4> HIDE DEF s
        <4>2. Replace(s, s, <<j>>) = <<j>>
          BY <2>3, <3>3, ReplaceWhole
        <4>3. f[n] = <<j>>
          BY <2>2, <3>1, <4>1, <4>2 DEF s
        <4> QED
          BY <2>1, <4>3
      <3>5. CASE ~Occurs(old, s)
        <4> HIDE DEF old, s
        <4>1. Replace(s, old, <<j>>) = s
          BY <2>3, <2>4, <3>3, <3>5, ReplaceNone
        <4>2. f[n] = s
          BY <2>2, <3>1, <4>1 DEF s
        <4> QED
          BY <2>1, <4>2 DEF s
      <3> QED
        BY <3>4, <3>5
    <2> QED
      BY <1>8, <2>5, <2>6
  <1>9. 0..N \subseteq P
    <2> HIDE DEF P
    <2> QED
      BY <1>1, <1>7, <1>8, CountUp
  <1>10. N \in P
    <2> HIDE DEF P
    <2> QED
      BY <1>1, <1>9
  <1>11. ~(N < m)
    BY <1>1
  <1> QED
    BY <1>4, <1>10, <1>11 DEF N

\* What occurs in a marked text and holds no token occurred in the text.
LEMMA PlainInMarked ==
    ASSUME NEW k \in Nat, NEW t \in TextsOver(k), Announced(t), NEW i \in Tokens,
           NEW s, s = Marked(t, i),
           NEW q \in Text, q # <<>>, Plain(q), Occurs(q, s)
    PROVE  Occurs(q, t)
  <1> DEFINE w == Place(t)
             b == KeptFrom(t)
             M == Len(q)
  <1>1. /\ s \in Text /\ Len(t) \in Nat /\ w \in 1..Len(t) /\ b \in w..(Len(t) + 1) /\ s[w] = i
    BY MarkedFacts
  <1>2. M \in Nat /\ M >= 1 /\ DOMAIN q = 1..M /\ Len(s) \in Nat
    BY <1>1, EmptySeq DEF Text
  <1>3. PICK n \in 1..Len(s) : OccursAt(q, n, s)
    BY DEF Occurs
  <1>4. n + M - 1 <= Len(s) /\ \A j \in 1..M : s[n + j - 1] = q[j]
    BY <1>3 DEF OccursAt
  <1> HIDE DEF M
  <1>5. \A j \in 1..M : n + j - 1 \in 1..Len(s) /\ n + j - 1 # w
    <2> SUFFICES ASSUME NEW j \in 1..M PROVE n + j - 1 \in 1..Len(s) /\ n + j - 1 # w
      OBVIOUS
    <2>1. n + j - 1 \in 1..Len(s)
      BY <1>2, <1>4
    <2>2. s[n + j - 1] \notin Tokens
      BY <1>2, <1>4 DEF Plain
    <2> QED
      BY <1>1, <2>1, <2>2
  <1>6. \A j \in 1..M : Origin(t, n + j - 1) \in 1..Len(t) /\ t[Origin(t, n + j - 1)] = q[j]
    <2> SUFFICES ASSUME NEW j \in 1..M
                 PROVE  Origin(t, n + j - 1) \in 1..Len(t) /\ t[Origin(t, n + j - 1)] = q[j]
      OBVIOUS
    <2> DEFINE p == n + j - 1
    <2>1. p \in 1..Len(s) /\ p # w /\ s[p] = q[j]
      BY <1>4, <1>5
    <2> HIDE DEF p
    <2>2. Origin(t, p) \in 1..Len(t) /\ s[p] = t[Origin(t, p)]
      BY <2>1, MarkedOrigin
    <2> QED
      BY <2>1, <2>2 DEF p
  <1> DEFINE o == IF n < w THEN n ELSE n - w + b - 1
  <1>7. \A j \in 1..M : Origin(t, n + j - 1) = o + j - 1
    <2> SUFFICES ASSUME NEW j \in 1..M PROVE Origin(t, n + j - 1) = o + j - 1
      OBVIOUS
    <2>1. (n < w) => n + j - 1 < w
      <3> SUFFICES ASSUME n < w, n + j - 1 >= w PROVE FALSE
        BY <1>1
      <3>1. w - n + 1 \in 1..M /\ n + (w - n + 1) - 1 = w
        BY <1>1, <1>2
      <3> QED
        BY <1>5, <3>1
    <2>2. w \in Nat /\ b \in Nat /\ n \in Nat /\ j \in Nat /\ j >= 1 /\ n # w
      <3>1. 1 \in 1..M /\ n + 1 - 1 = n
        BY <1>2
      <3> QED
        BY <1>1, <1>2, <1>5, <3>1
    <2>3. Origin(t, n + j - 1) = IF n + j - 1 < w THEN n + j - 1 ELSE (n + j - 1) - w + b - 1
      BY DEF Origin
    <2> HIDE DEF w, b
    <2>4. CASE n < w
      BY <2>1, <2>2, <2>3, <2>4
    <2>5. CASE ~(n < w)
      <3>1. ~(n + j - 1 < w)
        BY <2>2, <2>5
      <3>2. (n + j - 1) - w + b - 1 = (n - w + b - 1) + j - 1
        BY <2>2
      <3> QED
        BY <2>3, <2>5, <3>1, <3>2
    <2> QED
      BY <2>4, <2>5
  <1>8. o \in 1..Len(t) /\ o + M - 1 <= Len(t)
    <2>1. 1 \in 1..M /\ M \in 1..M
      BY <1>2
    <2>2. o + 1 - 1 \in 1..Len(t) /\ o + M - 1 \in 1..Len(t)
      <3> HIDE DEF o
      <3> QED
        BY <1>6, <1>7, <2>1
    <2>3. o \in Int
      BY <1>1
    <2> HIDE DEF o
    <2> QED
      BY <1>1, <2>2, <2>3
  <1> HIDE DEF o
  <1>9. \A j \in 1..M : t[o + j - 1] = q[j]
    BY <1>6, <1>7
  <1>10. OccursAt(q, o, t)
    BY <1>8, <1>9 DEF OccursAt, M
  <1> QED
    BY <1>8, <1>10 DEF Occurs

\* A word in the phrase is one of its letters, and so has no punctuation behind it.
LEMMA PlaceInPhrase ==
    ASSUME NEW t \in Text, Announced(t), AtMostOneKeyword(t), Place(t) # WordStart(t)
    PROVE  /\ KeywordAt(t) \in 1..Len(t) /\ t[KeywordAt(t)] = Keyword
           /\ PhraseStart(t) \in 1..Place(t)
           /\ Place(t) < KeptFrom(t) /\ KeptFrom(t) <= KeywordAt(t)
  <1> DEFINE w == WordStart(t)
             e == WordEnd(t)
             d == TrailingEnd(t)
             k == KeywordAt(t)
             f == PhraseStart(t)
             m == Place(t)
  <1>1. Len(t) \in Nat /\ Len(Phrase) \in Nat /\ DOMAIN t = 1..Len(t)
    BY AtomAssumption, LenProperties DEF Text
  <1>2. /\ w \in 1..Len(t) /\ e \in w..Len(t)
        /\ f \in 1..(w - 1) /\ m \in f..w
        /\ \A i \in w..e : t[m + i - w] = t[i]
    BY PlaceFacts
  <1>3. /\ \A i \in w..e : t[i] # Blank
        /\ d = 0 => \A i \in w..e : t[i] = Dot
        /\ d # 0 => d \in w..e
    BY WordEndFacts DEF Announced
  <1>4. /\ k \in 1..(w - 1) /\ t[k] = Keyword
        /\ \A i \in (k + 1)..(w - 1) : t[i] = Blank
    BY WordStartFacts DEF Announced, KeywordBefore
  <1>5. f = k - Len(Phrase) /\ \A i \in 1..Len(Phrase) : t[f + i - 1] = Phrase[i]
    BY DEF Announced, PhraseStart, OccursAt
  <1>6. KeptFrom(t) = m + (IF d = 0 THEN 0 ELSE d + 1 - w) /\ m # w
    BY DEF KeptFrom
  <1> HIDE DEF w, e, d, k, f, m
  <1>7. /\ w \in Nat /\ e \in Nat /\ k \in Nat /\ f \in Nat /\ m \in Nat
        /\ 1 <= f /\ f <= m /\ m < w /\ k < w /\ w <= e /\ e <= Len(t) /\ 1 <= k
    BY <1>1, <1>2, <1>4, <1>6
  <1>8. m + e - w < k
    <2>1. m + e - w # k /\ m # k /\ \A i \in w..e : m + i - w # k
      <3>1. ASSUME NEW i \in w..e, m + i - w = k PROVE FALSE
        <4>1. t[i] = Keyword
          BY <1>2, <1>4, <3>1, Zenon
        <4>2. i \in DOMAIN t /\ k \in DOMAIN t /\ i # k
          BY <1>1, <1>7
        <4> QED
          BY <1>4, <4>1, <4>2 DEF AtMostOneKeyword
      <3>2. w \in w..e /\ e \in w..e /\ m + w - w = m
        BY <1>7
      <3> QED
        BY <3>1, <3>2
    <2>2. m < k
      <3> SUFFICES ASSUME m > k PROVE FALSE
        BY <1>7, <2>1
      <3>1. m \in (k + 1)..(w - 1) /\ w \in w..e /\ m + w - w = m
        BY <1>7
      <3>2. t[m] = Blank /\ t[m] = t[w]
        BY <1>2, <1>4, <3>1
      <3> QED
        BY <1>3, <3>1, <3>2
    <2>3. ASSUME m + e - w > k PROVE FALSE
      <3>1. k - m + w \in w..e /\ m + (k - m + w) - w = k
        BY <1>7, <2>2, <2>3
      <3> QED
        BY <2>1, <3>1
    <2> QED
      BY <1>7, <2>1, <2>3
  <1>9. t[m] \in Letters
    <2>1. m - f + 1 \in 1..Len(Phrase) /\ f + (m - f + 1) - 1 = m
      <3>1. m < k
        BY <1>7, <1>8
      <3> QED
        BY <1>1, <1>5, <1>7, <3>1
    <2>2. Phrase[m - f + 1] \in Letters
      BY <2>1, AtomAssumption
    <2> QED
      BY <1>5, <2>1, <2>2
  <1>10. d # 0
    <2> SUFFICES ASSUME d = 0 PROVE FALSE
      OBVIOUS
    <2>1. w \in w..e /\ m + w - w = m
      BY <1>7
    <2>2. t[m] = t[w] /\ t[w] = Dot
      BY <1>2, <1>3, <2>1
    <2> QED
      BY <1>9, <2>2, AtomAssumption
  <1>11. d \in w..e /\ KeptFrom(t) = m + (d + 1 - w)
    BY <1>3, <1>6, <1>10
  <1>12. m < KeptFrom(t) /\ KeptFrom(t) <= k
    BY <1>7, <1>8, <1>11
  <1>13. k \in 1..Len(t) /\ f \in 1..m
    BY <1>1, <1>7
  <1> QED
    BY <1>4, <1>12, <1>13 DEF k, f, m

\* Where a text with a token in it still announces a word, the token is the word.
LEMMA MarkedWordStart ==
    ASSUME NEW c \in Nat, NEW t \in TextsOver(c), Announced(t), AtMostOneKeyword(t), NEW i \in Tokens,
           NEW s, s = Marked(t, i), Announced(s)
    PROVE  WordStart(s) \in 1..Len(s) /\ s[WordStart(s)] = i
  <1> DEFINE w == WordStart(t)
             m == Place(t)
             b == KeptFrom(t)
             k == KeywordAt(t)
  <1>1. /\ s \in Text /\ t \in Text /\ Len(t) \in Nat /\ Len(s) \in Nat /\ m \in 1..Len(t)
        /\ b \in m..(Len(t) + 1)
        /\ Len(s) = m + (Len(t) + 1 - b)
        /\ s[m] = i /\ \A n \in 1..(m - 1) : s[n] = t[n]
        /\ \A n \in 1..(Len(t) + 1 - b) : s[m + n] = t[b + n - 1]
    <2>1. t \in Text
      BY TextsOverFacts
    <2>2. /\ s \in Text /\ Len(t) \in Nat /\ m \in 1..Len(t)
          /\ b \in m..(Len(t) + 1)
          /\ Len(s) = m + (Len(t) + 1 - b)
          /\ s[m] = i /\ \A n \in 1..(m - 1) : s[n] = t[n]
          /\ \A n \in 1..(Len(t) + 1 - b) : s[m + n] = t[b + n - 1]
      BY MarkedFacts, SMTT(60)
    <2> HIDE DEF m, b
    <2>3. Len(s) \in Nat
      BY <2>2
    <2> QED
      BY <2>1, <2>2, <2>3
  <1>2. KeywordBefore(t, k, w)
    BY <1>1, WordStartFacts DEF Announced
  <1>3. i # Blank /\ i # Keyword
    BY AtomFacts DEF Ordinary, Tokens
  <1>4. CASE m = w
    <2>1. w \in 1..Len(s)
      BY <1>1, <1>4
    <2> HIDE DEF w, k, b
    <2>2. KeywordBefore(s, k, w)
      <3>1. /\ k \in 1..(w - 1)
            /\ t[k] = Keyword /\ \A n \in 1..(k - 1) : t[n] # Keyword
            /\ \A n \in (k + 1)..(w - 1) : t[n] = Blank
        BY <1>2 DEF KeywordBefore
      <3>2. \A n \in 1..(k - 1) : n \in 1..(w - 1)
        BY <1>1, <1>4, <3>1
      <3>3. \A n \in (k + 1)..(w - 1) : n \in 1..(w - 1)
        BY <1>1, <1>4, <3>1
      <3> HIDE DEF m
      <3> QED
        BY <1>1, <1>3, <1>4, <2>1, <3>1, <3>2, <3>3 DEF KeywordBefore
    <2>3. WordStart(s) = w
      BY <1>1, <2>2, WordStartFacts
    <2> QED
      BY <1>1, <1>4, <2>1, <2>3
  <1>5. CASE m # w
    <2>1. /\ k \in 1..Len(t) /\ t[k] = Keyword
          /\ PhraseStart(t) \in 1..m /\ m < b /\ b <= k
      BY <1>1, <1>5, PlaceInPhrase
    <2> DEFINE f == PhraseStart(t)
               L == Len(Phrase)
               h == k - b + 1 + m
    <2>2. L \in Nat /\ f = k - L
      BY AtomAssumption DEF PhraseStart
    <2> HIDE DEF w, m, b, k, f, L
    <2>3. /\ m \in Nat /\ b \in Nat /\ k \in Nat /\ f \in Nat /\ 1 <= f /\ f <= m /\ m < b /\ b <= k
          /\ k <= Len(t) /\ h \in 1..Len(s) /\ m < h /\ h - L <= m
      BY <1>1, <2>1, <2>2 DEF f
    <2>4. s[h] = Keyword
      <3>1. k - b + 1 \in 1..(Len(t) + 1 - b) /\ m + (k - b + 1) = h /\ b + (k - b + 1) - 1 = k
        BY <1>1, <2>3
      <3>2. s[m + (k - b + 1)] = t[b + (k - b + 1) - 1]
        BY <1>1, <3>1
      <3> QED
        BY <2>1, <3>1, <3>2
    <2> HIDE DEF h
    <2>5. KeywordAt(s) = h
      <3>1. KeywordBefore(s, KeywordAt(s), WordStart(s))
        BY <1>1, WordStartFacts DEF Announced
      <3>2. KeywordAt(s) \in 1..Len(s) /\ s[KeywordAt(s)] = Keyword
        <4> DEFINE x == KeywordAt(s)
                   y == WordStart(s)
        <4> HIDE DEF x, y
        <4>1. x \in 1..(y - 1) /\ y \in 1..Len(s) /\ s[x] = Keyword
          BY <3>1 DEF x, y, KeywordBefore
        <4>2. x \in 1..Len(s)
          BY <1>1, <4>1
        <4> QED
          BY <4>1, <4>2 DEF x
      <3>3. AtMostOneKeyword(s)
        BY MarkedKeywords
      <3>4. DOMAIN s = 1..Len(s)
        BY <1>1, LenProperties DEF Text
      <3> QED
        BY <2>3, <2>4, <3>2, <3>3, <3>4 DEF AtMostOneKeyword
    <2>6. PhraseStart(s) = h - L /\ h - L > 0 /\ \A n \in 1..L : s[(h - L) + n - 1] = Phrase[n]
      BY <2>5 DEF Announced, PhraseStart, OccursAt, L
    <2>7. m - (h - L) + 1 \in 1..L /\ (h - L) + (m - (h - L) + 1) - 1 = m
      BY <1>1, <2>2, <2>3, <2>6
    <2>8. Phrase[m - (h - L) + 1] = i
      BY <1>1, <2>6, <2>7
    <2>9. Phrase[m - (h - L) + 1] \in Letters
      BY <2>7, AtomAssumption DEF L
    <2> QED
      BY <2>8, <2>9, AtomFacts DEF Ordinary, Tokens
  <1> QED
    BY <1>4, <1>5

\* What TakeShaped makes of a text, atom by atom.
ShapedTo(s, res, n) ==
    /\ s \in Text /\ res \in Text /\ Len(res) = Len(s) /\ Len(s) \in Nat
    /\ \A i \in 1..Len(s) :
          IF s[i] \in Shaped THEN res[i] \in 1..n /\ n \in Nat ELSE res[i] = s[i]

LEMMA ShapedToFacts ==
    ASSUME NEW s, NEW res, NEW n, ShapedTo(s, res, n)
    PROVE  /\ \A i \in 1..Len(res) : res[i] \notin Shaped
           /\ \A i \in 1..Len(s) : \A a \in {Keyword, Blank} : res[i] = a <=> s[i] = a
           /\ \A i \in 1..Len(s) : s[i] \in Tokens => res[i] = s[i]
           /\ \A q \in Text : Plain(q) /\ Occurs(q, res) => Occurs(q, s)
           /\ WordStart(res) # 0 => WordStart(s) = WordStart(res) /\ WordStart(s) \in 1..Len(s)
           /\ Announced(res) => Announced(s)
  <1>1. /\ s \in Text /\ res \in Text /\ Len(res) = Len(s) /\ Len(s) \in Nat
        /\ \A i \in 1..Len(s) : s[i] \in Shaped => res[i] \in Tokens
        /\ \A i \in 1..Len(s) : s[i] \notin Shaped => res[i] = s[i]
    BY DEF ShapedTo, Tokens
  <1>2. \A a \in Tokens : a \notin Shaped /\ a # Keyword /\ a # Blank
    BY AtomFacts DEF Ordinary, Tokens
  <1>3. Keyword \notin Shaped /\ Blank \notin Shaped
    BY AtomAssumption
  <1>4. \A i \in 1..Len(res) : res[i] \notin Shaped
    BY <1>1, <1>2
  <1>5. \A i \in 1..Len(s) : \A a \in {Keyword, Blank} : res[i] = a <=> s[i] = a
    BY <1>1, <1>2, <1>3
  <1>6. \A i \in 1..Len(s) : s[i] \in Tokens => res[i] = s[i]
    BY <1>1, <1>2
  <1>7. ASSUME NEW q \in Text, Plain(q), Occurs(q, res) PROVE Occurs(q, s)
    <2>1. PICK i \in 1..Len(s) : OccursAt(q, i, res)
      BY <1>1, <1>7 DEF Occurs
    <2>2. Len(q) \in Nat /\ DOMAIN q = 1..Len(q)
      BY LenProperties DEF Text
    <2>3. i + Len(q) - 1 <= Len(s) /\ \A k \in 1..Len(q) : res[i + k - 1] = q[k]
      BY <1>1, <2>1 DEF OccursAt
    <2>4. ASSUME NEW k \in 1..Len(q) PROVE s[i + k - 1] = q[k]
      <3>1. i + k - 1 \in 1..Len(s)
        BY <1>1, <2>2, <2>3
      <3>2. res[i + k - 1] \notin Tokens
        BY <1>7, <2>2, <2>3 DEF Plain
      <3> QED
        BY <1>1, <2>3, <3>1, <3>2
    <2>5. OccursAt(q, i, s)
      BY <2>3, <2>4 DEF OccursAt
    <2> QED
      BY <2>5 DEF Occurs
  <1>8. ASSUME WordStart(res) # 0
        PROVE  WordStart(s) = WordStart(res) /\ WordStart(s) \in 1..Len(s) /\ KeywordAt(s) = KeywordAt(res)
    <2> DEFINE w == WordStart(res)
    <2>1. PICK k : KeywordBefore(res, k, w)
      BY <1>1, <1>8, WordStartFacts
    <2> HIDE DEF w
    <2>2. /\ k \in 1..(w - 1) /\ w \in 1..Len(s)
          /\ res[k] = Keyword /\ \A i \in 1..(k - 1) : res[i] # Keyword
          /\ res[w] # Blank /\ \A i \in (k + 1)..(w - 1) : res[i] = Blank
      BY <1>1, <2>1 DEF KeywordBefore
    <2>3. k \in 1..Len(s) /\ \A i \in 1..(w - 1) : i \in 1..Len(s)
      BY <1>1, <2>2
    <2>4. s[k] = Keyword /\ s[w] # Blank
      BY <1>5, <2>2, <2>3
    <2>5. ASSUME NEW i \in 1..(k - 1) PROVE s[i] # Keyword
      <3>1. i \in 1..(w - 1)
        BY <1>1, <2>2
      <3> QED
        BY <1>5, <2>2, <2>3, <3>1
    <2>6. ASSUME NEW i \in (k + 1)..(w - 1) PROVE s[i] = Blank
      <3>1. i \in 1..(w - 1)
        BY <1>1, <2>2
      <3> QED
        BY <1>5, <2>2, <2>3, <3>1
    <2>7. KeywordBefore(s, k, w)
      BY <2>2, <2>4, <2>5, <2>6 DEF KeywordBefore
    <2>8. WordStart(s) = w /\ KeywordAt(s) = k
      BY <1>1, <2>7, WordStartFacts
    <2>9. KeywordAt(res) = k
      BY <1>1, <2>1, WordStartFacts
    <2> QED
      BY <2>2, <2>8, <2>9 DEF w
  <1>9. ASSUME Announced(res) PROVE Announced(s)
    <2>1. WordStart(res) # 0
      BY <1>9 DEF Announced
    <2>2. WordStart(s) \in 1..Len(s) /\ PhraseStart(s) = PhraseStart(res)
      BY <1>8, <2>1 DEF PhraseStart
    <2> DEFINE f == PhraseStart(res)
               L == Len(Phrase)
               k == KeywordAt(res)
    <2>3. f > 0 /\ f + L - 1 <= Len(res) /\ \A j \in 1..L : res[f + j - 1] = Phrase[j]
      BY <1>9 DEF Announced, OccursAt
    <2>4. L \in Nat /\ f \in Int
      <3>1. KeywordBefore(res, k, WordStart(res))
        BY <1>1, <2>1, WordStartFacts
      <3>2. k \in Int
        BY <3>1 DEF KeywordBefore
      <3>3. L \in Nat
        BY AtomAssumption
      <3> QED
        BY <3>2, <3>3 DEF PhraseStart
    <2> HIDE DEF f, L
    <2>5. ASSUME NEW j \in 1..L PROVE s[f + j - 1] = Phrase[j]
      <3>1. f + j - 1 \in 1..Len(s)
        BY <1>1, <2>3, <2>4
      <3>2. Phrase[j] \in Letters
        BY AtomAssumption DEF L
      <3>3. Phrase[j] \notin Tokens
        BY <3>2, AtomFacts DEF Ordinary, Tokens
      <3>4. res[f + j - 1] = Phrase[j]
        BY <2>3
      <3> QED
        BY <1>1, <3>1, <3>3, <3>4
    <2>6. OccursAt(Phrase, f, s)
      BY <1>1, <2>3, <2>5 DEF OccursAt, L
    <2>7. WordStart(s) > 0
      BY <2>2
    <2> QED
      BY <2>2, <2>3, <2>6, <2>7 DEF Announced, f
  <1> QED
    BY <1>4, <1>5, <1>6, <1>7, <1>8, <1>9

LEMMA SanitizeClears ==
    ASSUME NEW v \in Vaults, NEW t \in TextsOver(Len(v)), AtMostOneKeyword(t),
           NEW r, r = _sanitize_text(v, t)
    PROVE  /\ \A i \in 1..Len(v) : Plain(v[i].raw) => ~Occurs(v[i].raw, r.text)
           /\ \A i \in DOMAIN r.text : r.text[i] \notin Shaped
           /\ Announced(r.text) => r.text[WordStart(r.text)] \in Tokens
           /\ \A i \in 1..Len(v) : t = v[i].raw => \E tok \in 1..Len(v) : r.text = <<tok>>
  <1> DEFINE known == replace_known(v, t)
             marked == TakeSecret([vault |-> v, text |-> known])
             shaped == TakeShaped(marked)
             x == marked.vault
             s == marked.text
  <1>1. r = shaped
    BY DEF _sanitize_text
  <1>2. known \in TextsOver(Len(v)) /\ Len(v) \in Nat
    BY ReplaceKnownKeeps, VaultFacts
  <1>3. \A i \in 1..Len(v) : Plain(v[i].raw) => ~Occurs(v[i].raw, known)
    BY ReplaceKnownClears
  <1>4. \A i \in 1..Len(v) : t = v[i].raw => \E tok \in 1..Len(v) : known = <<tok>>
    BY KnownWhole
  <1>5. marked = [vault |-> marked.vault, text |-> marked.text]
    BY DEF TakeSecret
  <1> HIDE DEF known
  <1>6. /\ ~Announced(known) => marked.vault = v /\ marked.text = known
        /\ Announced(known) => \E i \in 1..Len(marked.vault) : marked.text = Marked(known, i)
        /\ Extends(v, marked.vault)
        /\ marked.text \in TextsOver(Len(marked.vault))
    BY <1>2, TakeSecretFacts
  <1>7. shaped = TakeShaped([vault |-> x, text |-> s])
    BY <1>5
  <1> HIDE DEF marked, shaped
  <1>8. x \in Vaults /\ s \in TextsOver(Len(x)) /\ Len(x) \in Nat
    <2>1. x \in Vaults
      BY <1>6 DEF Extends
    <2> QED
      BY <1>6, <2>1, VaultFacts
  <1>9. ~Announced(known) => s = known
    BY <1>6
  <1>10. Announced(known) => \E i \in Tokens : s = Marked(known, i)
    <2>1. \A i \in 1..Len(x) : i \in Tokens
      BY <1>8, VaultFacts
    <2> QED
      BY <1>6, <2>1
  <1> HIDE DEF x, s
  <1>11. /\ Extends(x, r.vault)
         /\ r.text \in TextsOver(Len(r.vault)) /\ Len(r.text) = Len(s)
         /\ \A i \in 1..Len(s) :
               IF s[i] \in Shaped
               THEN r.text[i] \in 1..Len(r.vault) /\ r.vault[r.text[i]].raw = <<s[i]>>
               ELSE r.text[i] = s[i]
    BY <1>1, <1>7, <1>8, TakeShapedFacts
  <1>12. ShapedTo(s, r.text, Len(r.vault)) /\ s \in Text /\ r.text \in Text
    <2>1. r.vault \in Vaults
      BY <1>11 DEF Extends
    <2>2. Len(r.vault) \in Nat
      BY <2>1, VaultFacts
    <2>3. r.text \in Text /\ s \in Text
      BY <1>8, <1>11, <2>2, TextsOverFacts
    <2>4. Len(s) \in Nat
      BY <2>3, LenProperties DEF Text
    <2> QED
      BY <1>11, <2>2, <2>3, <2>4 DEF ShapedTo
  <1>13. /\ \A i \in 1..Len(r.text) : r.text[i] \notin Shaped
         /\ \A i \in 1..Len(s) : s[i] \in Tokens => r.text[i] = s[i]
         /\ \A q \in Text : Plain(q) /\ Occurs(q, r.text) => Occurs(q, s)
         /\ WordStart(r.text) # 0 => WordStart(s) = WordStart(r.text) /\ WordStart(s) \in 1..Len(s)
         /\ Announced(r.text) => Announced(s)
    BY <1>12, ShapedToFacts
  <1>14. DOMAIN r.text = 1..Len(r.text)
    BY <1>12, LenProperties DEF Text
  <1>15. ASSUME NEW i \in 1..Len(v), Plain(v[i].raw) PROVE ~Occurs(v[i].raw, r.text)
    <2> DEFINE q == v[i].raw
    <2>1. q \in Text /\ q # <<>> /\ ~Occurs(q, known)
      BY <1>3, <1>15, VaultFacts
    <2>2. Plain(q)
      BY <1>15
    <2> HIDE DEF q
    <2>3. ~Occurs(q, s)
      <3>1. CASE ~Announced(known)
        BY <1>9, <2>1, <3>1
      <3>2. CASE Announced(known)
        <4>1. PICK j \in Tokens : s = Marked(known, j)
          BY <1>10, <3>2
        <4> QED
          BY <1>2, <2>1, <2>2, <3>2, <4>1, PlainInMarked
      <3> QED
        BY <3>1, <3>2
    <2>4. ~Occurs(q, r.text)
      BY <1>13, <2>1, <2>2, <2>3
    <2> QED
      BY <2>4 DEF q
  <1>16. ASSUME Announced(r.text) PROVE r.text[WordStart(r.text)] \in Tokens
    <2>1. WordStart(s) = WordStart(r.text) /\ WordStart(s) \in 1..Len(s) /\ Announced(s)
      BY <1>13, <1>16 DEF Announced
    <2>2. Announced(known)
      <3> SUFFICES ASSUME ~Announced(known) PROVE FALSE
        OBVIOUS
      <3> QED
        BY <1>9, <2>1
    <2>3. PICK j \in Tokens : s = Marked(known, j)
      BY <1>10, <2>2
    <2>4. AtMostOneKeyword(known)
      BY ReplaceKnownClears DEF known
    <2>5. s[WordStart(s)] = j
      BY <1>2, <2>1, <2>2, <2>3, <2>4, MarkedWordStart
    <2> QED
      BY <1>13, <2>1, <2>5
  <1>17. ASSUME NEW i \in 1..Len(v), t = v[i].raw PROVE \E tok \in 1..Len(v) : r.text = <<tok>>
    <2>1. PICK tok \in 1..Len(v) : known = <<tok>>
      BY <1>4, <1>17
    <2>2. tok \in Tokens /\ Len(<<tok>>) = 1 /\ <<tok>>[1] = tok
      BY VaultFacts
    <2>3. ~Announced(known)
      <3> SUFFICES ASSUME WordStart(known) # 0 PROVE FALSE
        BY DEF Announced
      <3>1. known \in Text
        BY <1>2, TextsOverFacts
      <3>2. PICK k : KeywordBefore(known, k, WordStart(known))
        BY <3>1, WordStartFacts
      <3>3. Len(known) = 1
        BY <2>1, <2>2
      <3> DEFINE w == WordStart(known)
      <3>4. k \in 1..(w - 1) /\ w \in 1..1
        BY <3>2, <3>3 DEF KeywordBefore
      <3> HIDE DEF w
      <3> QED
        BY <3>4
    <2> DEFINE one == <<tok>>
    <2>4. s = one /\ Len(one) = 1 /\ one[1] = tok
      BY <1>9, <2>1, <2>2, <2>3
    <2> HIDE DEF one
    <2>5. Len(r.text) = 1 /\ r.text[1] = tok
      BY <1>11, <1>13, <2>2, <2>4
    <2>6. r.text = s
      <3>1. Len(r.text) = Len(s) /\ \A k \in 1..Len(r.text) : r.text[k] = s[k]
        BY <2>4, <2>5
      <3> QED
        BY <1>12, <3>1, SameText
    <2> QED
      BY <2>4, <2>6 DEF one
  <1> QED
    BY <1>13, <1>14, <1>15, <1>16, <1>17

\* In a sanitized text that is no JSON scalar nothing is left of what the vault
\* knows or of a recognisable form, and a phrase left in it announces a token; a
\* secret may be left where the token has taken a part of the phrase.
THEOREM NoneLeftSound == Spec => []NoneLeft
  <1>1. Init => NoneLeft
    BY DEF Init, NoneLeft, NoOp
  <1>2. VaultInv /\ NoneLeft /\ [Next]_vars => NoneLeft'
    <2> SUFFICES ASSUME VaultInv, NoneLeft, [Next]_vars PROVE NoneLeft'
      OBVIOUS
    <2>1. CASE last' = NoOp
      BY <2>1 DEF NoneLeft, NoOp
    <2>2. ASSUME NEW text \in TextsOver(Len(vault)), AtMostOneKeyword(text), Sanitize(text)
          PROVE  NoneLeft'
      <3> SUFFICES ASSUME text \notin Scalars PROVE NoneLeft'
        <4>1. last'.arg = text
          BY <2>2 DEF Sanitize, Take
        <4> QED
          BY <4>1 DEF NoneLeft
      <3> DEFINE r == _sanitize_text(vault, text)
      <3>1. vault \in Vaults
        BY DEF VaultInv
      <3>2. /\ vault' = r.vault
            /\ last' = [op |-> "text", arg |-> text, res |-> r.text, known |-> Len(vault)]
        BY <2>2 DEF Sanitize, Take, sanitize
      <3>3. Extends(vault, r.vault)
        BY <2>2, <3>1, SanitizeTextFacts
      <3>4. /\ \A i \in 1..Len(vault) : Plain(vault[i].raw) => ~Occurs(vault[i].raw, r.text)
            /\ \A i \in DOMAIN r.text : r.text[i] \notin Shaped
            /\ Announced(r.text) => r.text[WordStart(r.text)] \in Tokens
            /\ \A i \in 1..Len(vault) : text = vault[i].raw => \E tok \in 1..Len(vault) : r.text = <<tok>>
        BY <2>2, <3>1, SanitizeClears
      <3> HIDE DEF r
      <3>5. /\ last'.arg = text /\ last'.res = r.text /\ last'.known = Len(vault)
        BY <3>2
      <3>6. \A i \in 1..Len(vault) : vault'[i] = vault[i]
        BY <3>2, <3>3 DEF Extends
      <3>7. 1..Len(vault) \subseteq DOMAIN vault'
        <4>1. r.vault \in Vaults /\ Len(vault) <= Len(r.vault)
          BY <3>3 DEF Extends
        <4>2. DOMAIN r.vault = 1..Len(r.vault) /\ Len(r.vault) \in Nat /\ Len(vault) \in Nat
          BY <3>1, <4>1, VaultFacts
        <4> QED
          BY <3>2, <4>1, <4>2
      <3> QED
        BY <3>4, <3>5, <3>6, <3>7 DEF NoneLeft
    <2>3. ASSUME NEW fields \in Records, SanitizeRecord(fields) PROVE NoneLeft'
      <3>1. last'.op = "record"
        BY <2>3 DEF SanitizeRecord, Take
      <3> QED
        BY <3>1 DEF NoneLeft
    <2>4. CASE UNCHANGED vars
      BY <2>4 DEF vars, NoneLeft
    <2> QED
      BY <2>1, <2>2, <2>3, <2>4, StepIs
  <1> QED
    BY VaultSound, <1>1, <1>2, PTL DEF Spec
=============================================================================

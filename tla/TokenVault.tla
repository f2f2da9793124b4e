----------------------------- MODULE TokenVault -----------------------------
(***************************************************************************)
(* The privacy guard of the secure mode (bidirectional/privacy.py): a vault *)
(* of opaque tokens for one request, and the sanitizer that puts tokens in  *)
(* the place of private values before lobe A sees a text.                   *)
(*                                                                          *)
(* A text is a sequence of atoms.  Blank separates words, Keyword stands    *)
(* for what comes between a phrase such as "my password" and the word it    *)
(* announces, as " is" or ":", and Dot for trailing punctuation; an atom of *)
(* Shaped is a value a pattern recognises by its form; those of Letters are *)
(* pieces of ordinary words, the phrase among them.  A token, which is      *)
(* random and names its entry, is the number of the entry and one atom:     *)
(* that a value might occur inside the spelling of a token is left out, and *)
(* so is a client's text that spells a token.  One contextual and one shape *)
(* pattern stand for the six of the code; quoted values, values that occur  *)
(* in the separator, and phrases inside a longer word are left out, and a   *)
(* text has one keyword at most.  Of the texts that parse as JSON the       *)
(* scalars and flat records are modelled, without their re-serialization.   *)
(***************************************************************************)
EXTENDS Naturals, Sequences, FiniteSets, SequencesExt

CONSTANTS
    Blank, Keyword, Dot,    \* atoms with a role of their own
    Shaped,         \* atoms recognised by their form
    Letters,        \* all other atoms but the tokens
    Phrase,         \* the words that announce a secret
    Scalars,        \* texts that parse as a JSON number, true, false or null
    MaxTokens,      \* bound on the tokens of a vault
    MaxTexts,       \* bound on the texts sanitized in a request
    Texts,          \* the texts that are sanitized
    Raws,           \* the values the local gate may name
    Records         \* JSON records: sequences of fields

Tokens == Nat \ {0}
Ordinary == {Blank, Keyword, Dot} \cup Shaped \cup Letters
Atom == Ordinary \cup Tokens

AtMostOneKeyword(t) ==
    \A i, j \in DOMAIN t : t[i] = Keyword /\ t[j] = Keyword => i = j

\* A field of a record: its key, whether the key names an identifier, and its
\* value, written out, which may be a number.
Field == [name : Seq(Ordinary), direct : BOOLEAN, number : BOOLEAN, text : Seq(Ordinary)]

ASSUME AtomAssumption ==
    /\ Blank # Keyword /\ Blank # Dot /\ Keyword # Dot
    /\ {Blank, Keyword, Dot} \cap (Shaped \cup Letters) = {} /\ Shaped \cap Letters = {}
    /\ Phrase \in Seq(Letters)
    /\ Ordinary \cap Nat = {}

ASSUME TextAssumption ==
    /\ Texts \subseteq Seq(Ordinary)
    /\ \A t \in Texts : AtMostOneKeyword(t)
    /\ Raws \subseteq Seq(Ordinary) \ {<<>>}
    /\ Scalars \subseteq Seq(Ordinary)
    /\ \A r \in Records :
          /\ r \in Seq(Field)
          /\ \A i \in DOMAIN r : AtMostOneKeyword(r[i].text)

VARIABLES
    vault,      \* the entries [label, raw], in order of issue; token i is that of entry i
    destroyed,  \* whether the key is destroyed
    last,       \* the last operation: its input, its result, the tokens before
    texts       \* texts sanitized so far

vars == <<vault, destroyed, last, texts>>

NoOp == [op |-> "none", arg |-> <<>>, res |-> <<>>, known |-> 0]

Init == /\ vault = <<>>
        /\ destroyed = FALSE
        /\ last = NoOp
        /\ texts = 0

-----------------------------------------------------------------------------
(* str.replace: every occurrence, from the left, without overlaps.          *)
OccursAt(s, i, t) == /\ i + Len(s) - 1 <= Len(t)
                     /\ \A k \in 1 .. Len(s) : t[i + k - 1] = s[k]

Occurs(s, t) == \E i \in 1 .. Len(t) : OccursAt(s, i, t)

Replace(t, old, new) ==
    LET rest[s \in Seq(Atom)] ==
            CASE s = <<>> -> <<>>
              [] s # <<>> /\ OccursAt(old, 1, s) ->
                    new \o rest[SubSeq(s, Len(old) + 1, Len(s))]
              [] OTHER -> <<Head(s)>> \o rest[Tail(s)]
    IN  rest[t]

(* Lengths in characters: an atom is one, a token has a frame around its     *)
(* label, which is spelled out.                                             *)
LabelWidth(label) == CASE label = "sensitive" -> 9 [] label = "secret" -> 6 [] OTHER -> 5

AtomWidth(v, a) ==
    IF a \in Tokens THEN 19 + LabelWidth(v[a].label) ELSE 1

Width(v, raw) ==
    LET upto[n \in 0 .. Len(raw)] == IF n = 0 THEN 0 ELSE upto[n - 1] + AtomWidth(v, raw[n])
    IN  upto[Len(raw)]

Precedes(width, i, j) ==
    \/ width[i] > width[j]
    \/ width[i] = width[j] /\ i < j

\* The positions of a sequence of widths, the widest first; those of one width in
\* their order, as sorted with reverse=True leaves them.
WidestFirst(width) ==
    [n \in DOMAIN width |->
        CHOOSE i \in DOMAIN width :
            Cardinality({j \in DOMAIN width : Precedes(width, j, i)}) = n - 1]

(***************************************************************************)
(* The operations of the vault.  tokenize issues a token for a new value    *)
(* and label and reuses it afterwards.                                      *)
(***************************************************************************)
Entry(v, label, raw) == SelectInSeq(v, LAMBDA e : e = [label |-> label, raw |-> raw])

tokenize(v, label, raw) ==
    IF Entry(v, label, raw) > 0 THEN v ELSE Append(v, [label |-> label, raw |-> raw])

TokenOf(v, label, raw) == Entry(v, label, raw)

\* Longest value first, so that a value is not cut by a shorter one inside it.
KnownInOrder(v) == WidestFirst([i \in DOMAIN v |-> Width(v, v[i].raw)])

\* Mutant: the first occurrence only.
PutFirst(v, t, i) == ReplaceFirstSubSeq(<<i>>, v[i].raw, t)

PutToken(v, t, i) == Replace(t, v[i].raw, <<i>>)

replace_known(v, text) ==
    LET known == KnownInOrder(v)
        after[n \in 0 .. Len(v)] ==
            IF n = 0 THEN text ELSE PutToken(v, after[n - 1], known[n])
    IN  after[Len(v)]

\* Mutant: the first occurrence only.
RestoreFirst(v, t, i) == ReplaceFirstSubSeq(v[i].raw, <<i>>, t)

Restore(v, t, i) == Replace(t, <<i>>, v[i].raw)

\* The tokens of the vault replaced one after the other, each once: what a value
\* brings in is not looked at again unless its own turn is still to come.
RestoreInOrder(v, text, order) ==
    LET after[n \in 0 .. Len(v)] ==
            IF n = 0 THEN text ELSE Restore(v, after[n - 1], order[n])
    IN  after[Len(v)]

\* Longest token first.
rehydrate_text(v, text) ==
    RestoreInOrder(v, text, WidestFirst([i \in DOMAIN v |-> LabelWidth(v[i].label)]))

(***************************************************************************)
(* The sanitizer.  A keyword behind its phrase takes the next word, without  *)
(* its trailing punctuation; then atoms of a recognisable form are taken.   *)
(***************************************************************************)
KeywordAt(t) == SelectInSeq(t, LAMBDA a : a = Keyword)

\* The word behind the keyword.
WordStart(t) ==
    LET k == KeywordAt(t)
    IN  IF k = 0 THEN 0 ELSE SelectInSubSeq(t, k + 1, Len(t), LAMBDA a : a # Blank)

WordEnd(t) ==
    LET next == SelectInSubSeq(t, WordStart(t), Len(t), LAMBDA a : a = Blank)
    IN  IF next = 0 THEN Len(t) ELSE next - 1

PhraseStart(t) == KeywordAt(t) - Len(Phrase)

\* The pattern matches from the phrase to the end of the word.
Announced(t) == WordStart(t) > 0 /\ PhraseStart(t) > 0 /\ OccursAt(Phrase, PhraseStart(t), t)

\* Where the word ends without its trailing punctuation; 0 if it is nothing else.
\* Then the whole word is the value, and is kept behind the token as well.
TrailingEnd(t) == SelectLastInSubSeq(t, WordStart(t), WordEnd(t), LAMBDA a : a # Dot)

Secret(t) == SubSeq(t, WordStart(t), IF TrailingEnd(t) = 0 THEN WordEnd(t) ELSE TrailingEnd(t))

\* What is replaced is the first occurrence of the word in the match: one in the
\* phrase, if there is one, and then the word stays.
Place(t) ==
    CHOOSE i \in PhraseStart(t) .. WordStart(t) :
        /\ OccursAt(SubSeq(t, WordStart(t), WordEnd(t)), i, t)
        /\ \A j \in PhraseStart(t) .. i - 1 : ~OccursAt(SubSeq(t, WordStart(t), WordEnd(t)), j, t)

KeptFrom(t) == Place(t) + (IF TrailingEnd(t) = 0 THEN 0 ELSE TrailingEnd(t) + 1 - WordStart(t))

\* Mutant: the punctuation is lost with the word.
AfterSecretDotless(t) == SubSeq(t, Place(t) + WordEnd(t) + 1 - WordStart(t), Len(t))

AfterSecret(t) == SubSeq(t, KeptFrom(t), Len(t))

TakeSecret(st) ==
    LET t == st.text
        v == tokenize(st.vault, "secret", Secret(t))
    IN  IF ~Announced(t) THEN st
        ELSE [vault |-> v,
              text |-> SubSeq(t, 1, Place(t) - 1)
                         \o <<TokenOf(v, "secret", Secret(t))>> \o AfterSecret(t)]

TakeShaped(st) ==
    LET t == st.text
        shaped == {i \in DOMAIN t : t[i] \in Shaped}
        upto[n \in 0 .. Len(t)] ==
            CASE n = 0 -> st.vault
              [] n \in shaped -> tokenize(upto[n - 1], "shaped", <<t[n]>>)
              [] OTHER -> upto[n - 1]
        v == upto[Len(t)]
    IN  [vault |-> v,
         text |-> [i \in DOMAIN t |-> IF i \in shaped THEN TokenOf(v, "shaped", <<t[i]>>)
                                       ELSE t[i]]]

_sanitize_text(v, text) ==
    TakeShaped(TakeSecret([vault |-> v, text |-> replace_known(v, text)]))

\* A JSON record, field by field: the value under a key that names an identifier
\* is taken whole, other texts are sanitized, other numbers and the keys are kept.
TakeWhole(v, f) ==
    LET w == tokenize(v, "direct", f)
    IN  [vault |-> w, text |-> <<TokenOf(w, "direct", f)>>]

_sanitize_object(v, fields) ==
    LET upto[n \in 0 .. Len(fields)] ==
            IF n = 0 THEN [vault |-> v, text |-> <<>>]
            ELSE LET acc == upto[n - 1]
                     f == fields[n]
                     st == CASE f.direct /\ f.text # <<>> -> TakeWhole(acc.vault, f.text)
                             [] ~(f.direct /\ f.text # <<>>) /\ f.number ->
                                   [vault |-> acc.vault, text |-> f.text]
                             [] OTHER -> _sanitize_text(acc.vault, f.text)
                 IN  [vault |-> st.vault, text |-> Append(acc.text, [f EXCEPT !.text = st.text])]
    IN  upto[Len(fields)]

\* A text that parses as a scalar is not looked into.
sanitize(v, text) ==
    IF text \in Scalars THEN [vault |-> v, text |-> text] ELSE _sanitize_text(v, text)

-----------------------------------------------------------------------------
Room(v) == Len(v) <= MaxTokens

Take(op, arg, st) ==
    /\ ~destroyed
    /\ texts < MaxTexts
    /\ Room(st.vault)
    /\ vault' = st.vault
    /\ last' = [op |-> op, arg |-> arg, res |-> st.text, known |-> Len(vault)]
    /\ texts' = texts + 1
    /\ UNCHANGED destroyed

\* The gate names a value before anything is sanitized.
Learn(raw) ==
    /\ ~destroyed
    /\ last = NoOp
    /\ vault' = tokenize(vault, "sensitive", raw)
    /\ Room(vault')
    /\ UNCHANGED <<destroyed, last, texts>>

\* A new text, or one that was sanitized before and is sanitized again.
Sanitize(text) == Take("text", text, sanitize(vault, text))

SanitizeRecord(fields) == Take("record", fields, _sanitize_object(vault, fields))

\* The key is overwritten and the known values forgotten; the guard is not used
\* after that.
destroy_key ==
    /\ ~destroyed
    /\ destroyed' = TRUE
    /\ vault' = <<>>
    /\ last' = NoOp
    /\ UNCHANGED texts

Next ==
    \/ \E raw \in Raws : Learn(raw)
    \/ \E text \in Texts : Sanitize(text)
    \/ last.op = "text" /\ Sanitize(last.res)
    \/ \E fields \in Records : SanitizeRecord(fields)
    \/ destroy_key

Spec == Init /\ [][Next]_vars

-----------------------------------------------------------------------------
\* All tokens resolved, those inside values too: a value holds earlier tokens
\* only, so the latest token is resolved first.
Resolved(v, text) == RestoreInOrder(v, text, [n \in DOMAIN v |-> Len(v) + 1 - n])

Plain(s) == \A i \in DOMAIN s : s[i] \notin Tokens

\* A keyword before a word that is all punctuation, which comes out doubled.
OnlyDots(t) == WordStart(t) > 0 /\ TrailingEnd(t) = 0

(* After a text, other than a JSON scalar, was sanitized none of the values  *)
(* known before is left in it, no value of a recognisable form, and no      *)
(* phrase that announces a plain word.  A word announced may be left, but   *)
(* only where a token has taken the place of a part of the phrase itself:   *)
(* SecretsTaken.  Of a known value that is the whole text one token is      *)
(* left, also when shorter known values are parts of it.                    *)
NoneLeft ==
    last.op = "text" /\ last.arg \notin Scalars =>
        /\ \A i \in 1 .. last.known : Plain(vault[i].raw) => ~Occurs(vault[i].raw, last.res)
        /\ \A i \in DOMAIN last.res : last.res[i] \notin Shaped
        /\ Announced(last.res) => last.res[WordStart(last.res)] \in Tokens
        /\ \A i \in 1 .. last.known :
              last.arg = vault[i].raw => \E tok \in DOMAIN vault : last.res = <<tok>>

(* What the pattern is for: a word a text announces as secret is not left   *)
(* behind the keyword.  It does not hold: in "my password is password" the  *)
(* first occurrence is the one in the phrase, and a known value that occurs *)
(* in the phrase hides the phrase from the pattern (README).                *)
SecretsTaken ==
    last.op = "text" /\ Announced(last.arg) /\ WordStart(last.res) > 0
        => last.res[WordStart(last.res)] \in Tokens

(* No private value is left by its form, wherever it stands: neither does   *)
(* this hold, for a text that is a number is returned as it is.             *)
ShapesTaken == last.op = "text" => \A i \in DOMAIN last.res : last.res[i] \notin Shaped

(* No part of a text is lost or doubled: with every token resolved, also    *)
(* the tokens that stand for values with tokens in them, a text and its     *)
(* sanitized form are the same, and so are the fields of a record.          *)
NothingLost ==
    /\ last.op = "text" /\ ~OnlyDots(last.arg) =>
          Resolved(vault, last.res) = Resolved(vault, last.arg)
    /\ last.op = "record" =>
          \A i \in DOMAIN last.arg :
             last.arg[i].direct \/ ~OnlyDots(last.arg[i].text) =>
                Resolved(vault, last.res[i].text) = Resolved(vault, last.arg[i].text)

(* As long as no value has a token in it, rehydrate_text gives a sanitized  *)
(* text back as it was, whichever values are parts of others.               *)
RoundTripWhenFlat ==
    /\ last.op = "text" /\ Plain(last.arg) /\ ~OnlyDots(last.arg)
    /\ \A i \in DOMAIN vault : Plain(vault[i].raw)
    => rehydrate_text(vault, last.res) = last.arg

(* The same without the condition.  It does not hold: a value that the gate *)
(* names and that follows a keyword gets a token for a token (README).      *)
RoundTrip ==
    last.op = "text" /\ Plain(last.arg) /\ ~OnlyDots(last.arg)
    => rehydrate_text(vault, last.res) = last.arg
=============================================================================

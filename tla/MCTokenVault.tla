---------------------------- MODULE MCTokenVault ----------------------------
(***************************************************************************)
(* An instance of TokenVault for TLC: all short texts over two letters and  *)
(* a blank, and texts with the other atoms.                                 *)
(***************************************************************************)
EXTENDS TokenVault

CONSTANTS a, b, p, at   \* letters, p of the phrase only, and an atom of a recognisable form

Words(n) == UNION {[1 .. k -> {a, b, Blank}] : k \in 1 .. n}

(* The phrase; one word of the texts is a part of it.                       *)
Announcing == <<p, b>>

(* A number of a recognisable form.                                         *)
Numbers == {<<at, at>>}

(* Plain texts, texts with a keyword behind the phrase and without it, and  *)
(* some with punctuation and a value recognised by its form.                *)
ShortTexts ==
    Words(3) \cup {<<p, b, Keyword>> \o w : w \in Words(2)} \cup Numbers
    \cup {<<p, b, Keyword, a, b, Blank, a>>, <<a, b, a, Blank, b>>,
          <<b, Blank, p, b, Keyword, Blank, a, b, Dot>>, <<p, b, Keyword, p, b>>,
          <<p, b, Keyword, b, Dot>>, <<b, Keyword, a>>,
          <<p, b, Keyword, Dot>>, <<p, b, Keyword>>, <<p, b, Keyword, a, Dot, Dot>>, <<at>>,
          <<at, Blank, a, Blank, at>>, <<p, b, Keyword, at, b>>, <<at, Blank, p, b, Keyword, at>>}

GateValues == {<<a>>, <<a, b>>, <<b, a>>}

(* A name and a remark, in both orders, and numbers under either key.       *)
Remarks == {<<a>>, <<p, b, Keyword, a>>, <<b, Blank, a, b>>, <<at>>}
FieldOf(d, n, t) == [name |-> <<b, a>>, direct |-> d, number |-> n, text |-> t]
NameRecords ==
    {<<FieldOf(TRUE, FALSE, n), FieldOf(FALSE, FALSE, r)>> : n \in GateValues \cup {<<>>}, r \in Remarks}
    \cup {<<FieldOf(FALSE, FALSE, r), FieldOf(TRUE, FALSE, n)>> : n \in GateValues, r \in Remarks}
    \cup {<<FieldOf(d, TRUE, <<at, at>>), FieldOf(FALSE, FALSE, r)>> : d \in BOOLEAN, r \in Remarks}
=============================================================================

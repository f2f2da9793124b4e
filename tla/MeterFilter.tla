---------------------------- MODULE MeterFilter ----------------------------
(***************************************************************************)
(* The stream filter of core/meter_format.py: A's answer arrives in chunks  *)
(* cut anywhere; the filter passes ordinary text on at once and holds back  *)
(* a line that may turn out to be a meter heading.  strip_deception_meter   *)
(* does the same to the assembled text; the gated handler compares the two. *)
(*                                                                          *)
(* Text is a sequence of symbols: a newline, a space, '#', '*', the word    *)
(* "deception" in two halves, the word "meter", and "w" for any other word  *)
(* character.  The shield emoji and '__' act like '**' and are left out.    *)
(***************************************************************************)
EXTENDS Naturals, Sequences, SequencesExt

CONSTANTS
    Chunks,     \* the pieces of text the upstream may send
    MaxChunks   \* bound on the pieces of one answer

Symbol == {"nl", "sp", "#", "*", "decep", "tion", "meter", "w"}
WordSymbols == {"decep", "tion", "meter", "w"}
Blank == {"nl", "sp"}

ASSUME ChunkAssumption ==
    /\ Chunks \subseteq Seq(Symbol) \ {<<>>}
    /\ MaxChunks \in Nat

VARIABLES
    pending,    \* _pending
    blocked,    \* _blocked
    finished,   \* finish() was called
    text,       \* what was fed
    emitted,    \* what feed and finish returned
    fed,        \* chunks so far
    whole       \* every chunk so far ended with its line

vars == <<pending, blocked, finished, text, emitted, fed, whole>>

Init ==
    /\ pending = <<>> /\ blocked = FALSE /\ finished = FALSE
    /\ text = <<>> /\ emitted = <<>> /\ fed = 0 /\ whole = TRUE

-----------------------------------------------------------------------------
(* The length of the longest prefix, or suffix, of symbols in S.            *)
PrefixOf(q, S) ==
    CHOOSE n \in 0..Len(q) : (\A i \in 1..n : q[i] \in S) /\ (n < Len(q) => q[n + 1] \notin S)
SuffixOf(q, S) == PrefixOf(Reverse(q), S)

Drop(q, n) == SubSeq(q, n + 1, Len(q))
Take(q, n) == SubSeq(q, 1, n)
LStrip(q, S) == Drop(q, PrefixOf(q, S))
RStrip(q) == Take(q, Len(q) - SuffixOf(q, Blank))

(* At most six hashes, or one pair of stars, and the spaces after them.      *)
SkipHashes(q) ==
    LET n == PrefixOf(q, {"#"})
    IN IF n = 0 THEN q ELSE LStrip(Drop(q, IF n > 6 THEN 6 ELSE n), {"sp"})
SkipStars(q) == IF IsPrefix(<<"*", "*">>, q) THEN LStrip(Drop(q, 2), {"sp"}) ELSE q

Unadorned(q) == SkipStars(SkipStars(SkipHashes(q)))

(* The words, one or more spaces apart, at the start of the rest of a line. *)
SaysMeter(q) ==
    /\ IsPrefix(<<"decep", "tion", "sp">>, q)
    /\ LET rest == LStrip(Drop(q, 2), {"sp"})
       IN /\ IsPrefix(<<"meter">>, rest)
          /\ Len(rest) > 1 => rest[2] \notin WordSymbols

(* _METER_HEADING matches the line that starts at position i of q.          *)
HeadingAt(q, i) ==
    /\ i = 1 \/ q[i - 1] = "nl"
    /\ SaysMeter(Unadorned(LStrip(Drop(q, i - 1), {"sp"})))

Headings(q) == {i \in 1..Len(q) : HeadingAt(q, i)}
FirstHeading(q) == CHOOSE i \in Headings(q) : \A k \in Headings(q) : i <= k

strip_deception_meter(q) ==
    IF Headings(q) = {} THEN q ELSE RStrip(Take(q, FirstHeading(q) - 1))

(* Where the last line of q starts: rfind("\n") + 1, as a length.           *)
LineStart(q) == Len(q) - SuffixOf(q, Symbol \ {"nl"})

(* The last line may still become a heading.                                *)
Possible(line) ==
    LET candidate == Unadorned(LStrip(line, Blank))
    IN \/ candidate = <<>>
       \/ candidate[1] = "#"
       \/ IsPrefix(candidate, <<"decep", "tion", "sp", "meter">>)

(* Mutant of Held: the line break before a possible heading goes out.       *)
HeldFromLineStart(q) == LineStart(q)

(* Everything before the blanks in front of a possible heading is safe.     *)
Held(q) == Len(RStrip(Take(q, LineStart(q))))

-----------------------------------------------------------------------------
(* Mutant of Emit: what is held back is sent as well.                       *)
EmitAll(q, keep) ==
    /\ emitted' = emitted \o q
    /\ pending' = Drop(q, keep)

(* The first keep symbols of q are returned, the rest stays pending.        *)
Emit(q, keep) ==
    /\ emitted' = emitted \o Take(q, keep)
    /\ pending' = Drop(q, keep)

feed(chunk) ==
    /\ ~finished
    /\ fed < MaxChunks
    /\ fed' = fed + 1
    /\ text' = text \o chunk
    /\ whole' = (whole /\ Last(chunk) = "nl")
    /\ LET q == pending \o chunk
       IN \/ /\ blocked
             /\ UNCHANGED <<pending, blocked, emitted>>
          \/ /\ ~blocked /\ Headings(q) # {}
             /\ emitted' = emitted \o strip_deception_meter(q)
             /\ pending' = <<>>
             /\ blocked' = TRUE
          \/ /\ ~blocked /\ Headings(q) = {}
             /\ Emit(q, IF Possible(Drop(q, LineStart(q))) THEN Held(q) ELSE Len(q))
             /\ UNCHANGED blocked
    /\ UNCHANGED finished

finish ==
    /\ ~finished
    /\ finished' = TRUE
    /\ emitted' = IF blocked THEN emitted ELSE emitted \o strip_deception_meter(pending)
    /\ pending' = <<>>
    /\ blocked' = TRUE
    /\ UNCHANGED <<text, fed, whole>>

Next == (\E chunk \in Chunks : feed(chunk)) \/ finish

Spec == Init /\ [][Next]_vars

-----------------------------------------------------------------------------
(* However the answer is cut, the client sees a prefix of it: the filter    *)
(* drops nothing before what it emits, repeats nothing and reorders         *)
(* nothing.  And it "holds only a possible meter-heading line": of text     *)
(* that is still flowing nothing is lost, and no more is held back than     *)
(* blanks and one line that is not complete.                                *)
PrefixOneLineBehind ==
    /\ IsPrefix(emitted, text)
    /\ ~blocked => /\ emitted \o pending = text
                   /\ \A i \in 1..LineStart(pending) : pending[i] \in Blank

(* For an answer cut at line ends, the streamed text is exactly what        *)
(* strip_deception_meter makes of the assembled answer, which the gated     *)
(* handler relies on when it sends only what follows the streamed text.     *)
AgreesWithStrip == finished /\ whole => emitted = strip_deception_meter(text)

(* "so ordinary text streams immediately": an answer without a meter        *)
(* heading is streamed in full.                                             *)
OrdinaryTextStreams == (finished /\ Headings(text) = {}) => emitted = text
============================================================================

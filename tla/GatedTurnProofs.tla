-------------------------- MODULE GatedTurnProofs --------------------------
(***************************************************************************)
(* Proofs, for any number of overlapping turns, any caps and any number of  *)
(* evidence rounds, that no turn shows a verdict about another text than    *)
(* its answer, that an interrupted answer is never completed, that only a   *)
(* verdict that was shown is kept for the next turn, that an answer that    *)
(* nothing replaced is delivered whole, and that every variable keeps its   *)
(* type.                                                                    *)
(***************************************************************************)
EXTENDS GatedTurn, SequenceTheorems, TLAPS

(* The functions a step updates at one turn are defined on every turn.      *)
Domains ==
    /\ pc \in [Turn -> Stage]
    /\ DOMAIN content = Turn
    /\ DOMAIN level = Turn
    /\ DOMAIN about = Turn

Rated == {"reconsidering", "concluding", "recording", "done"}

(* A verdict is about the current content from the moment it is given until *)
(* the turn is over; reconsidering leaves Rated before it changes content.  *)
RatedAsIs ==
    \A t \in Turn : (pc[t] \in Rated /\ level[t] # "YELLOW") => about[t] = content[t]

Answered == Rated \union {"proxy", "continuing", "verifying", "rechecking"}

(* Only a complete answer leaves the stage in which A answers.              *)
AnsweredInFull == \A t \in Turn : (pc[t] \in Answered \/ t \in recorded) => t \in complete

(* Nothing is rated, answered or recorded at first.                         *)
LEMMA InitFacts == Init => Domains /\ RatedAsIs /\ AnsweredInFull
  <1> SUFFICES ASSUME Init PROVE Domains /\ RatedAsIs /\ AnsweredInFull
    OBVIOUS
  <1>1. pc \in [Turn -> Stage] /\ (\A t \in Turn : pc[t] = "idle") /\ recorded = {}
    BY DEF Init, Stage
  <1>2. DOMAIN content = Turn /\ DOMAIN level = Turn /\ DOMAIN about = Turn
    BY Zenon DEF Init
  <1> QED
    BY <1>1, <1>2 DEF Domains, RatedAsIs, AnsweredInFull, Rated, Answered

(* A step of a turn keeps the domains and the verdict of every turn.        *)
LEMMA RatedStep ==
    ASSUME Domains, RatedAsIs, [Next]_vars
    PROVE  Domains' /\ RatedAsIs'
  <1> USE DEF Domains, Stage, RatedAsIs, Rated, Goto, At, Set
  <1>1. ASSUME NEW t \in Turn, Begin(t) \/ AFail(t) \/ ExecuteProxyCalls(t) \/ Disconnect(t)
        PROVE  Domains' /\ RatedAsIs'
    BY <1>1 DEF Begin, AFail, ExecuteProxyCalls, Disconnect, text, verdict
  <1>2. ASSUME NEW t \in Turn, StreamChunk(t) PROVE Domains' /\ RatedAsIs'
    BY <1>2 DEF StreamChunk, verdict
  <1>3. ASSUME NEW t \in Turn, NEW b \in BOOLEAN, AAnswer(t, b) PROVE Domains' /\ RatedAsIs'
    BY <1>3 DEF AAnswer, verdict
  <1>4. ASSUME NEW t \in Turn, Continue(t) \/ ContinueFail(t) PROVE Domains' /\ RatedAsIs'
    <2>1. PICK msg : Continued(t, msg)
      BY <1>4 DEF Continue, ContinueFail
    <2> QED
      BY <2>1 DEF Continued, verdict
  <1>5. ASSUME NEW t \in Turn, ReviewInvalid(t) \/ Sense(t) PROVE Domains' /\ RatedAsIs'
    BY <1>5 DEF ReviewInvalid, Sense, text
  <1>6. ASSUME NEW t \in Turn, NEW lvl, NEW on, Verdict(t, lvl, on), lvl = "YELLOW" \/ on = content[t]
        PROVE  Domains' /\ RatedAsIs'
    <2>1. AfterVerdict(t, lvl) \in Stage
      BY DEF AfterVerdict
    <2> QED
      BY <1>6, <2>1 DEF Verdict, text
  <1>7. ASSUME NEW t \in Turn, Rate(t) \/ ReviewFail(t) PROVE Domains' /\ RatedAsIs'
    BY <1>6, <1>7 DEF Rate, ReviewFail
  <1>8. ASSUME NEW t \in Turn, Reconsider(t) PROVE Domains' /\ RatedAsIs'
    BY <1>8 DEF Reconsider, verdict
  <1>9. ASSUME NEW t \in Turn, ReconsiderFail(t) \/ Conclude(t) \/ Record(t)
        PROVE  Domains' /\ RatedAsIs'
    BY <1>9 DEF ReconsiderFail, Conclude, Record, text, verdict
  <1>10. CASE UNCHANGED vars
    BY <1>10 DEF vars
  <1> QED
    BY <1>1, <1>2, <1>3, <1>4, <1>5, <1>7, <1>8, <1>9, <1>10 DEF Next, Step

(* A step of a turn lets it on only with a complete answer.                 *)
LEMMA AnsweredStep ==
    ASSUME ~CutShort, Domains, AnsweredInFull, [Next]_vars
    PROVE  AnsweredInFull'
  <1> USE DEF Domains, Stage, AnsweredInFull, Answered, Rated, Goto, At, Set
  <1>1. ASSUME NEW t \in Turn, Begin(t) \/ AFail(t) \/ ExecuteProxyCalls(t) \/ Disconnect(t)
        PROVE  AnsweredInFull'
    BY <1>1 DEF Begin, AFail, ExecuteProxyCalls, Disconnect, text
  <1>2. ASSUME NEW t \in Turn, StreamChunk(t) PROVE AnsweredInFull'
    BY <1>2 DEF StreamChunk
  <1>3. ASSUME NEW t \in Turn, NEW b \in BOOLEAN, AAnswer(t, b) PROVE AnsweredInFull'
    BY <1>3 DEF AAnswer
  <1>4. ASSUME NEW t \in Turn, Continue(t) \/ ContinueFail(t) PROVE AnsweredInFull'
    <2>1. PICK msg : Continued(t, msg)
      BY <1>4 DEF Continue, ContinueFail
    <2>2. pc[t] = "continuing"
      BY <1>4 DEF Continue, ContinueFail
    <2> QED
      BY <2>1, <2>2 DEF Continued
  <1>5. ASSUME NEW t \in Turn, ReviewInvalid(t) \/ Sense(t) PROVE AnsweredInFull'
    BY <1>5 DEF ReviewInvalid, Sense, text
  <1>6. ASSUME NEW t \in Turn, Rate(t) \/ ReviewFail(t) PROVE AnsweredInFull'
    <2>1. PICK lvl, on : Verdict(t, lvl, on)
      BY <1>6 DEF Rate, ReviewFail
    <2>2. pc[t] \in {"verifying", "rechecking"}
      BY <1>6 DEF Rate, ReviewFail, Reviewing
    <2> QED
      BY <2>1, <2>2 DEF Verdict, text
  <1>7. ASSUME NEW t \in Turn, Reconsider(t) PROVE AnsweredInFull'
    BY <1>7 DEF Reconsider
  <1>8. ASSUME NEW t \in Turn, ReconsiderFail(t) \/ Conclude(t) \/ Record(t)
        PROVE  AnsweredInFull'
    BY <1>8 DEF ReconsiderFail, Conclude, Record, text
  <1>9. CASE UNCHANGED vars
    BY <1>9 DEF vars
  <1> QED
    BY <1>1, <1>2, <1>3, <1>4, <1>5, <1>6, <1>7, <1>8, <1>9 DEF Next, Step

(* No answer is shown with a GREEN or RED verdict about another text.       *)
THEOREM VerdictSound == Spec => []VerdictIsOfThisAnswer
  <1>1. Domains /\ RatedAsIs => VerdictIsOfThisAnswer
    BY DEF Domains, RatedAsIs, Rated, VerdictIsOfThisAnswer, Concluded
  <1> QED
    BY InitFacts, RatedStep, <1>1, PTL DEF Spec

(* If upstreams never close a stream between two events, an interrupted     *)
(* answer is never rated, stored or recorded.                               *)
THEOREM InterruptionSound ==
    ASSUME ~CutShort
    PROVE  Spec => []InterruptedNeverCompletes
  <1>1. Domains /\ AnsweredInFull => InterruptedNeverCompletes
    BY DEF AnsweredInFull, Answered, Rated, InterruptedNeverCompletes, Concluded
  <1>2. Domains /\ RatedAsIs /\ AnsweredInFull /\ [Next]_vars
            => (Domains /\ RatedAsIs /\ AnsweredInFull)'
    BY RatedStep, AnsweredStep
  <1> QED
    BY InitFacts, <1>1, <1>2, PTL DEF Spec

-----------------------------------------------------------------------------
Words == {"a1", "a2", "c", "r", "m"}

(* The text of a turn is made of words: it is never the sign for "no        *)
(* verdict".                                                                *)
TextTyped ==
    /\ received \in [Turn -> 0..2]
    /\ content \in [Turn -> Seq(Words)]
    /\ streamed \in [Turn -> Seq(Words)]
    /\ DOMAIN sent = Turn /\ DOMAIN used = Turn /\ DOMAIN handoff = Turn

(* B's handoff goes with its verdict, as long as the verdict stands.        *)
HandedAsRated ==
    \A t \in Turn : (pc[t] \in Rated /\ level[t] # "YELLOW") => handoff[t] = content[t]

(* Every stored verdict is that of a turn that has concluded.               *)
StoredInv == (\A v \in store : v.turn \in Turn) /\ StoreIsShownVerdict

StoreInv == Domains /\ TextTyped /\ HandedAsRated /\ StoredInv

(* A's answer is two words long.                                            *)
LEMMA AnswerFacts == Answer \in Seq(Words) /\ Len(Answer) = 2
  <1>1. "a1" \in Words /\ "a2" \in Words
    BY DEF Words
  <1> QED
    BY <1>1 DEF Answer

(* A's answer up to any of its pieces.                                      *)
LEMMA PieceFacts ==
    ASSUME NEW n \in 0..2
    PROVE  /\ Piece(n) \in Seq(Words) /\ Len(Piece(n)) = n
           /\ \A i \in 1..n : Piece(n)[i] = Answer[i]
  <1>1. Answer \in Seq(Words) /\ Len(Answer) = 2
    BY AnswerFacts
  <1>2. n \in Nat /\ n <= 2
    OBVIOUS
  <1>3. /\ SubSeq(Answer, 1, n) \in Seq(Words)
        /\ Len(SubSeq(Answer, 1, n)) = n
        /\ \A i \in 1..n : SubSeq(Answer, 1, n)[i] = Answer[i]
    <2>1. 1 \in Int /\ n \in Int /\ \A i \in 1..n : Answer[i] \in Words
      BY <1>1, <1>2
    <2>2. /\ SubSeq(Answer, 1, n) \in Seq(Words)
          /\ Len(SubSeq(Answer, 1, n)) = IF 1 <= n THEN n - 1 + 1 ELSE 0
          /\ \A i \in 1..(n - 1 + 1) : SubSeq(Answer, 1, n)[i] = Answer[1 + i - 1]
      BY <2>1, SubSeqProperties
    <2> QED
      BY <1>2, <2>2
  <1> QED
    BY <1>3 DEF Piece

(* A step keeps the text of every turn a sequence of words.                 *)
LEMMA TextStep ==
    ASSUME Domains, TextTyped, [Next]_vars
    PROVE  TextTyped'
  <1> USE DEF TextTyped
  <1>1. ASSUME UNCHANGED <<received, content, streamed, handoff>>,
               DOMAIN sent' = Turn, DOMAIN used' = Turn
        PROVE  TextTyped'
    BY <1>1
  <1>2. ASSUME NEW t \in Turn, StreamChunk(t) PROVE TextTyped'
    <2>1. received[t] + 1 \in 0..2
      <3>1. received[t] < 2
        BY <1>2, AnswerFacts DEF StreamChunk
      <3>2. received[t] \in 0..2
        OBVIOUS
      <3> QED
        BY <3>1, <3>2
    <2>2. Piece(received[t] + 1) \in Seq(Words)
      BY <2>1, PieceFacts
    <2> QED
      BY <1>2, <2>1, <2>2 DEF StreamChunk, StreamUpTo, Set, verdict
  <1>3. ASSUME NEW t \in Turn, NEW b \in BOOLEAN, AAnswer(t, b) PROVE TextTyped'
    <2>1. PICK n \in 0..2 : /\ content' = Set(content, t, Piece(n))
                            /\ received' = Set(received, t, n)
                            /\ StreamUpTo(t, n) \/ UNCHANGED <<streamed, sent>>
      BY <1>3, AnswerFacts DEF AAnswer
    <2>2. Piece(n) \in Seq(Words)
      BY PieceFacts
    <2>3. UNCHANGED <<used, handoff>>
      BY <1>3 DEF AAnswer, verdict
    <2> QED
      BY <2>1, <2>2, <2>3 DEF StreamUpTo, Set
  <1>4. ASSUME NEW t \in Turn, Continue(t) \/ ContinueFail(t) PROVE TextTyped'
    <2>1. <<>> \in Seq(Words) /\ <<"c">> \in Seq(Words) /\ content[t] \in Seq(Words)
      BY DEF Words
    <2>2. PICK msg \in Seq(Words) : Continued(t, msg)
      BY <1>4, <2>1 DEF Continue, ContinueFail
    <2>3. streamed[t] \o msg \in Seq(Words)
      OBVIOUS
    <2> QED
      BY <2>2, <2>3 DEF Continued, Set, verdict
  <1>5. ASSUME NEW t \in Turn, Reconsider(t) PROVE TextTyped'
    <2>1. <<>> \in Seq(Words) /\ <<"r">> \in Seq(Words)
      BY DEF Words
    <2>2. PICK msg \in Seq(Words) : content' = Set(content, t, msg)
      BY <1>5, <2>1 DEF Reconsider
    <2> QED
      BY <1>5, <2>2 DEF Reconsider, Set, verdict
  <1>6. ASSUME NEW t \in Turn, Rate(t) \/ ReviewFail(t) PROVE TextTyped'
    <2>1. UNCHANGED <<text, used>> /\ DOMAIN handoff' = Turn
      BY <1>6 DEF Rate, ReviewFail, Verdict, _extract_handoff, Set
    <2> QED
      BY <2>1 DEF text
  <1>7. ASSUME NEW t \in Turn,
               \/ Begin(t) \/ AFail(t) \/ ReviewInvalid(t) \/ Sense(t) \/ ReconsiderFail(t)
               \/ Record(t) \/ Disconnect(t)
        PROVE  TextTyped'
    <2>1. UNCHANGED <<text, used, handoff>>
      BY <1>7 DEF Begin, AFail, ReviewInvalid, Sense, ReconsiderFail, Record, Disconnect, verdict
    <2> QED
      BY <2>1 DEF text
  <1>8. ASSUME NEW t \in Turn, ExecuteProxyCalls(t) \/ Conclude(t) PROVE TextTyped'
    BY <1>1, <1>8 DEF ExecuteProxyCalls, Conclude, Set, text, verdict
  <1>9. CASE UNCHANGED vars
    BY <1>9 DEF vars
  <1> QED
    BY <1>2, <1>3, <1>4, <1>5, <1>6, <1>7, <1>8, <1>9 DEF Next, Step

(* A turn that is over keeps its verdict and its text.                      *)
LEMMA OverKept ==
    ASSUME Domains, TextTyped, [Next]_vars,
           NEW u \in Turn, pc[u] \in {"recording", "done", "gone"}
    PROVE  /\ pc'[u] \in {"recording", "done", "gone"}
           /\ level'[u] = level[u] /\ about'[u] = about[u] /\ content'[u] = content[u]
  <1> USE DEF Domains, Stage, Goto, At, Set
  <1>1. ASSUME NEW t \in Turn, Record(t) \/ Disconnect(t)
        PROVE  /\ UNCHANGED <<level, about, content>> /\ pc'[u] \in {"recording", "done", "gone"}
    BY <1>1 DEF Record, Disconnect, text, verdict
  <1>2. ASSUME NEW t \in Turn,
               \/ Begin(t) \/ AFail(t) \/ ExecuteProxyCalls(t) \/ ReviewInvalid(t) \/ Sense(t)
               \/ ReconsiderFail(t) \/ Conclude(t) \/ StreamChunk(t)
        PROVE  /\ UNCHANGED <<level, about, content>> /\ pc'[u] = pc[u]
    BY <1>2 DEF Begin, AFail, ExecuteProxyCalls, ReviewInvalid, Sense, Reviewing, ReconsiderFail, Conclude,
                StreamChunk, text, verdict
  <1>3. ASSUME NEW t \in Turn,
               \/ \E b \in BOOLEAN : AAnswer(t, b)
               \/ Continue(t) \/ ContinueFail(t) \/ Reconsider(t)
        PROVE  /\ UNCHANGED <<level, about>> /\ pc'[u] = pc[u] /\ content'[u] = content[u]
    BY <1>3 DEF AAnswer, Continue, ContinueFail, Continued, Reconsider, verdict
  <1>4. ASSUME NEW t \in Turn, Rate(t) \/ ReviewFail(t)
        PROVE  /\ UNCHANGED content /\ pc'[u] = pc[u] /\ level'[u] = level[u] /\ about'[u] = about[u]
    <2>1. PICK lvl, on : Verdict(t, lvl, on)
      BY <1>4 DEF Rate, ReviewFail
    <2>2. t # u
      BY <1>4 DEF Rate, ReviewFail, Reviewing
    <2> QED
      BY <2>1, <2>2 DEF Verdict, text
  <1> QED
    BY <1>1, <1>2, <1>3, <1>4 DEF Next, Step, vars

(* A step keeps B's handoff with its verdict.                               *)
LEMMA HandedStep ==
    ASSUME Domains, TextTyped, HandedAsRated, [Next]_vars
    PROVE  HandedAsRated'
  <1> USE DEF Domains, Stage, HandedAsRated, Rated, Goto, At, Set
  <1>1. ASSUME NEW t \in Turn,
               \/ Begin(t) \/ AFail(t) \/ ExecuteProxyCalls(t) \/ ReviewInvalid(t) \/ Sense(t)
               \/ ReconsiderFail(t) \/ Conclude(t) \/ StreamChunk(t) \/ Record(t) \/ Disconnect(t)
        PROVE  HandedAsRated'
    BY <1>1 DEF Begin, AFail, ExecuteProxyCalls, ReviewInvalid, Sense, ReconsiderFail, Conclude,
                StreamChunk, Record, Disconnect, text, verdict
  <1>2. ASSUME NEW t \in Turn,
               \/ \E b \in BOOLEAN : AAnswer(t, b)
               \/ Continue(t) \/ ContinueFail(t) \/ Reconsider(t)
        PROVE  HandedAsRated'
    <2>1. UNCHANGED <<level, handoff>>
      BY <1>2 DEF AAnswer, Continue, ContinueFail, Continued, Reconsider, verdict
    <2>2. (\E there \in {"proxy", "verifying", "rechecking"} : Goto(t, there))
          /\ \A u \in Turn \ {t} : content'[u] = content[u]
      BY <1>2 DEF AAnswer, Continue, ContinueFail, Continued, Reconsider
    <2> QED
      BY <2>1, <2>2
  <1>3. ASSUME NEW t \in Turn, NEW lvl \in Level, Verdict(t, lvl, content[t]) PROVE HandedAsRated'
    <2>1. content[t] # NoVerdict
      <3>1. content[t] \in Seq(Words) /\ "none" \notin Words
        BY DEF TextTyped, Words
      <3>2. Len(NoVerdict) = 1 /\ NoVerdict[1] = "none"
        BY DEF NoVerdict
      <3>3. ASSUME content[t] = NoVerdict PROVE FALSE
        <4>1. Len(content[t]) = 1 /\ content[t][1] = "none"
          BY <3>2, <3>3
        <4>2. content[t][1] \in Words
          <5>1. content[t] \in Seq(Words) /\ 1 \in 1..Len(content[t])
            BY <3>1, <4>1
          <5> QED
            BY <5>1
        <4> QED
          BY <3>1, <4>1, <4>2
      <3> QED
        BY <3>3
    <2>2. handoff' = [handoff EXCEPT ![t] = content[t]] /\ level' = [level EXCEPT ![t] = lvl]
          /\ content' = content /\ Goto(t, AfterVerdict(t, lvl))
      BY <1>3, <2>1 DEF Verdict, _extract_handoff, text
    <2> QED
      BY <2>2 DEF TextTyped
  <1>4. ASSUME NEW t \in Turn, Verdict(t, "YELLOW", NoVerdict) PROVE HandedAsRated'
    BY <1>4 DEF Verdict, _extract_handoff, text
  <1>5. CASE UNCHANGED vars
    BY <1>5 DEF vars
  <1> QED
    BY <1>1, <1>2, <1>3, <1>4, <1>5 DEF Next, Step, Rate, ReviewFail

(* Only a turn that concludes stores a verdict: the one it shows.           *)
LEMMA StoredStep ==
    ASSUME StoreInv, [Next]_vars
    PROVE  StoredInv'
  <1> USE DEF StoreInv, StoredInv, StoreIsShownVerdict
  <1>1. ASSUME store' = store PROVE StoredInv'
    BY <1>1, OverKept
  <1>2. ASSUME NEW t \in Turn, Conclude(t) PROVE StoredInv'
    <2>1. /\ store' = {[turn |-> t, level |-> level[t], about |-> about[t],
                        handoff |-> handoff[t], assist |-> assist[t]]}
          /\ UNCHANGED <<level, about, content>>
          /\ pc[t] = "concluding" /\ pc'[t] = "recording"
      BY <1>2 DEF Conclude, At, Goto, Domains, verdict
    <2>2. level[t] # "YELLOW" => handoff[t] = content[t]
      BY <2>1 DEF HandedAsRated, Rated
    <2> QED
      BY <2>1, <2>2
  <1>3. ASSUME NEW t \in Turn,
               \/ Begin(t) \/ AFail(t) \/ ExecuteProxyCalls(t) \/ ReviewInvalid(t) \/ Sense(t)
               \/ ReconsiderFail(t) \/ StreamChunk(t) \/ Record(t) \/ Disconnect(t)
               \/ (\E b \in BOOLEAN : AAnswer(t, b))
               \/ Continue(t) \/ ContinueFail(t) \/ Reconsider(t) \/ Rate(t) \/ ReviewFail(t)
        PROVE  store' = store
    BY <1>3 DEF Begin, AFail, ExecuteProxyCalls, ReviewInvalid, Sense, ReconsiderFail, StreamChunk, Record,
                Disconnect, AAnswer, Continue, ContinueFail, Continued, Reconsider, Rate, ReviewFail, Verdict
  <1>4. UNCHANGED vars => store' = store
    BY DEF vars
  <1> QED
    BY <1>1, <1>2, <1>3, <1>4 DEF Next, Step

(* At the start no text was rated and nothing is stored.                    *)
LEMMA InitStore == Init => TextTyped /\ HandedAsRated /\ StoredInv
  <1> SUFFICES ASSUME Init PROVE TextTyped /\ HandedAsRated /\ StoredInv
    OBVIOUS
  <1>1. /\ received = [t \in Turn |-> 0] /\ content = [t \in Turn |-> <<>>]
        /\ streamed = [t \in Turn |-> <<>>]
        /\ store = {} /\ \A t \in Turn : pc[t] = "idle"
    BY DEF Init
  <1>2. DOMAIN sent = Turn /\ DOMAIN used = Turn /\ DOMAIN handoff = Turn
    BY Zenon DEF Init
  <1> QED
    BY <1>1, <1>2 DEF TextTyped, HandedAsRated, StoredInv, StoreIsShownVerdict, Rated

(* The verdict that the next turn of the run is warned with was shown by    *)
(* its turn: _meter_store is written only where the meter is appended, and  *)
(* nothing about a turn changes after that.                                 *)
THEOREM StoreSound == Spec => []StoreIsShownVerdict
  <1>1. Init => Domains /\ RatedAsIs /\ TextTyped /\ HandedAsRated /\ StoredInv
    BY InitFacts, InitStore
  <1>2. Domains /\ RatedAsIs /\ TextTyped /\ HandedAsRated /\ StoredInv /\ [Next]_vars
            => (Domains /\ RatedAsIs /\ TextTyped /\ HandedAsRated /\ StoredInv)'
    BY RatedStep, TextStep, HandedStep, StoredStep DEF StoreInv
  <1>3. StoredInv => StoreIsShownVerdict
    BY DEF StoredInv
  <1> QED
    BY <1>1, <1>2, <1>3, PTL DEF Spec

-----------------------------------------------------------------------------
(* The stages before the rest of an answer is sent.                         *)
Open == {"idle", "answering", "proxy", "continuing", "verifying", "reconsidering", "rechecking",
         "concluding"}

(* Until then a stream has sent what it counts as streamed, and that is the *)
(* beginning of A's answer unless the proxy tools were used.                *)
StreamedIsSent ==
    \A t \in Streamed : pc[t] \in Open =>
        /\ sent[t] = streamed[t]
        /\ pc[t] \in {"idle", "answering", "proxy"} \/ ~used[t] =>
              \E k \in 0..received[t] : streamed[t] = Piece(k)

DeliveredInv == StreamedIsSent /\ UnreplacedDelivered

(* The rest of a text, after a beginning of it, completes it.               *)
LEMMA SuffixCompletes ==
    ASSUME NEW S, NEW F \in Seq(S), NEW s \in Seq(S), Len(s) <= Len(F), \A i \in 1..Len(s) : s[i] = F[i]
    PROVE  IsPrefix(s, F) /\ s \o SubSeq(F, Len(s) + 1, Len(F)) = F
  <1> DEFINE k == Len(s)
             n == Len(F)
  <1>1. k \in Nat /\ n \in Nat /\ k <= n
    OBVIOUS
  <1>2. SubSeq(F, 1, k) = s
    <2>1. /\ SubSeq(F, 1, k) \in Seq(S) /\ Len(SubSeq(F, 1, k)) = k
          /\ \A i \in 1..k : SubSeq(F, 1, k)[i] = F[i]
      <3>1. 1 \in Int /\ k \in Int /\ \A i \in 1..k : F[i] \in S
        BY <1>1
      <3>2. /\ SubSeq(F, 1, k) \in Seq(S)
            /\ Len(SubSeq(F, 1, k)) = IF 1 <= k THEN k - 1 + 1 ELSE 0
            /\ \A i \in 1..(k - 1 + 1) : SubSeq(F, 1, k)[i] = F[1 + i - 1]
        <4> HIDE DEF k
        <4> QED
          BY <3>1, SubSeqProperties
      <3> HIDE DEF k
      <3> QED
        BY <1>1, <3>2
    <2> QED
      BY <2>1, SeqEqual
  <1>3. SubSeq(s, 1, k) = s /\ SubSeq(F, 1, n) = F
    BY SubSeqFull
  <1>4. SubSeq(F, 1, k) \o SubSeq(F, k + 1, n) = SubSeq(F, 1, n)
    <2>1. 1 \in 1..(n + 1) /\ k \in (1 - 1)..n /\ n \in k..n
      BY <1>1
    <2> QED
      BY <2>1, ConcatAdjacentSubSeq
  <1> QED
    BY <1>2, <1>3, <1>4 DEF IsPrefix

(* The rest that a stream sends completes what it sent, if that is the      *)
(* beginning of A's answer and A's answer is what is returned.              *)
LEMMA PieceCompletes ==
    ASSUME TextTyped, NEW t \in Turn, NEW n \in 0..2, NEW k \in 0..n,
           content[t] = Piece(n), streamed[t] = Piece(k)
    PROVE  streamed[t] \o Suffix(t) = Final(t)
  <1> DEFINE F == Final(t)
             s == streamed[t]
  <1>1. n \in Nat /\ k \in 0..2 /\ k <= n
    OBVIOUS
  <1>2. content[t] \in Seq(Words) /\ Len(content[t]) = n /\ \A i \in 1..n : content[t][i] = Answer[i]
    <2>1. content[t] \in Seq(Words)
      BY DEF TextTyped
    <2> QED
      BY <2>1, PieceFacts
  <1>3. s \in Seq(Words) /\ Len(s) = k /\ \A i \in 1..k : s[i] = Answer[i]
    <2>1. s \in Seq(Words)
      BY DEF TextTyped
    <2> QED
      BY <1>1, <2>1, PieceFacts
  <1>4. <<"m">> \in Seq(Words) /\ Len(<<"m">>) = 1 /\ <<>> \in Seq(Words)
    BY DEF Words
  <1>5. F \in Seq(Words) /\ k <= Len(F) /\ \A i \in 1..k : s[i] = F[i]
    <2>1. CASE content[t] = <<>>
      BY <1>1, <1>2, <1>4, <2>1 DEF Final
    <2>2. CASE content[t] # <<>>
      <3>1. F = content[t] \o <<"m">>
        BY <2>2 DEF Final
      <3>2. /\ content[t] \o <<"m">> \in Seq(Words)
            /\ Len(content[t] \o <<"m">>) = n + 1
            /\ \A i \in 1..(n + 1) : (content[t] \o <<"m">>)[i] =
                  IF i <= n THEN content[t][i] ELSE <<"m">>[i - n]
        BY <1>2, <1>4, ConcatProperties
      <3> HIDE DEF F, s
      <3>3. \A i \in 1..k : F[i] = content[t][i]
        BY <1>1, <3>1, <3>2
      <3> QED
        BY <1>1, <1>2, <1>3, <3>1, <3>2, <3>3
    <2> QED
      BY <2>1, <2>2
  <1>6. IsPrefix(s, F) /\ s \o SubSeq(F, Len(s) + 1, Len(F)) = F
    BY <1>3, <1>5, SuffixCompletes
  <1> QED
    BY <1>6 DEF Suffix

(* A step keeps what a stream sent and what it counts as streamed together. *)
LEMMA StreamStep ==
    ASSUME Domains, TextTyped, StreamedIsSent, [Next]_vars
    PROVE  StreamedIsSent'
  <1> USE TurnAssumption DEF Domains, TextTyped, Stage, StreamedIsSent, Open, Goto, At, Set
  <1>1. ASSUME NEW t \in Turn,
               \/ Begin(t) \/ AFail(t) \/ Record(t) \/ Disconnect(t) \/ ReviewInvalid(t) \/ Sense(t)
               \/ ReconsiderFail(t) \/ Rate(t) \/ ReviewFail(t)
        PROVE  StreamedIsSent'
    <2>1. UNCHANGED <<streamed, sent, received, used>>
      BY <1>1 DEF Begin, AFail, Record, Disconnect, ReviewInvalid, Sense, ReconsiderFail, Rate, ReviewFail,
                  Verdict, text
    <2>2. \/ pc' = pc
          \/ pc[t] = "idle" /\ Goto(t, "answering")
          \/ Goto(t, "error") \/ Goto(t, "done") \/ Goto(t, "gone")
          \/ /\ pc[t] \in {"verifying", "reconsidering", "rechecking"}
             /\ Goto(t, "concluding") \/ Goto(t, "reconsidering")
      BY <1>1 DEF Begin, AFail, Record, Disconnect, ReviewInvalid, Sense, ReconsiderFail, Rate, ReviewFail,
                  Reviewing, Verdict, AfterVerdict
    <2> QED
      BY <2>1, <2>2
  <1>2. ASSUME NEW t \in Turn, StreamChunk(t) PROVE StreamedIsSent'
    <2>1. /\ pc[t] = "answering" /\ t \in Streamed
          /\ received' = [received EXCEPT ![t] = received[t] + 1]
          /\ \/ /\ streamed' = [streamed EXCEPT ![t] = Piece(received[t] + 1)]
                /\ sent' = [sent EXCEPT ![t] = Piece(received[t] + 1)]
             \/ UNCHANGED <<streamed, sent>>
          /\ UNCHANGED <<pc, used>>
      BY <1>2 DEF StreamChunk, StreamUpTo
    <2>2. received[t] \in Nat /\ \A k \in 0..received[t] : k \in 0..(received[t] + 1)
      <3>1. received[t] \in 0..2
        OBVIOUS
      <3> QED
        BY <3>1
    <2>3. received[t] + 1 \in 0..(received[t] + 1)
      BY <2>2
    <2> QED
      BY <2>1, <2>2, <2>3
  <1>3. ASSUME NEW t \in Turn, NEW b \in BOOLEAN, AAnswer(t, b) PROVE StreamedIsSent'
    <2>1. PICK n \in 0..2 :
             /\ t \in Streamed => n = received[t]
             /\ received' = [received EXCEPT ![t] = n]
             /\ \/ /\ t \in Streamed
                   /\ streamed' = [streamed EXCEPT ![t] = Piece(n)]
                   /\ sent' = [sent EXCEPT ![t] = Piece(n)]
                \/ UNCHANGED <<streamed, sent>>
      BY <1>3, AnswerFacts DEF AAnswer, StreamUpTo
    <2>2. pc[t] = "answering" /\ (Goto(t, "proxy") \/ Goto(t, "verifying")) /\ UNCHANGED used
      BY <1>3 DEF AAnswer
    <2>3. n \in 0..n
      OBVIOUS
    <2> QED
      BY <2>1, <2>2, <2>3
  <1>4. ASSUME NEW t \in Turn, ExecuteProxyCalls(t) PROVE StreamedIsSent'
    BY <1>4 DEF ExecuteProxyCalls, text
  <1>5. ASSUME NEW t \in Turn, Continue(t) \/ ContinueFail(t) PROVE StreamedIsSent'
    <2>1. PICK msg : Continued(t, msg)
      BY <1>5 DEF Continue, ContinueFail
    <2>2. /\ pc[t] = "continuing" /\ Goto(t, "verifying") /\ UNCHANGED <<received, used>>
          /\ \/ /\ used[t]
                /\ sent' = [sent EXCEPT ![t] = sent[t] \o msg]
                /\ streamed' = [streamed EXCEPT ![t] = streamed[t] \o msg]
             \/ UNCHANGED <<sent, streamed>>
      BY <1>5, <2>1 DEF Continue, ContinueFail, Continued
    <2>3. CASE UNCHANGED <<sent, streamed>>
      BY <2>2, <2>3
    <2>4. CASE /\ used[t]
               /\ sent' = [sent EXCEPT ![t] = sent[t] \o msg]
               /\ streamed' = [streamed EXCEPT ![t] = streamed[t] \o msg]
      <3> SUFFICES ASSUME NEW u \in Streamed, pc'[u] \in Open
                   PROVE  /\ sent'[u] = streamed'[u]
                          /\ pc'[u] \in {"idle", "answering", "proxy"} \/ ~used'[u] =>
                                \E k \in 0..received'[u] : streamed'[u] = Piece(k)
        BY Zenon DEF StreamedIsSent
      <3>1. CASE u = t
        <4>1. sent[t] = streamed[t] /\ t \in Streamed
          BY <2>2, <3>1
        <4>2. pc'[t] = "verifying" /\ used'[t]
          BY <2>2, <2>4
        <4>3. sent'[t] = streamed'[t]
          BY <2>4, <4>1
        <4> QED
          BY <3>1, <4>2, <4>3
      <3>2. CASE u # t
        BY <2>2, <2>4, <3>2
      <3> QED
        BY <3>1, <3>2
    <2> QED
      BY <2>2, <2>3, <2>4
  <1>6. ASSUME NEW t \in Turn, Reconsider(t) PROVE StreamedIsSent'
    BY <1>6 DEF Reconsider
  <1>7. ASSUME NEW t \in Turn, Conclude(t) PROVE StreamedIsSent'
    BY <1>7 DEF Conclude
  <1>8. CASE UNCHANGED vars
    BY <1>8 DEF vars
  <1> QED
    BY <1>1, <1>2, <1>3, <1>4, <1>5, <1>6, <1>7, <1>8 DEF Next, Step

(* A turn concludes with all that was held back, and sends nothing more.    *)
LEMMA DeliveredStep ==
    ASSUME Domains, TextTyped, DeliveredInv, [Next]_vars
    PROVE  UnreplacedDelivered'
  <1> USE DEF Domains, Stage, UnreplacedDelivered, Concluded, Goto, At, Set
  <1>1. ASSUME NEW t \in Turn, Conclude(t) PROVE UnreplacedDelivered'
    <2>1. /\ pc[t] = "concluding" /\ UNCHANGED <<received, content, streamed, used>>
          /\ pc' = [pc EXCEPT ![t] = "recording"]
          /\ sent' = [sent EXCEPT ![t] = IF t \in Streamed THEN sent[t] \o Suffix(t) ELSE Final(t)]
      BY <1>1 DEF Conclude
    <2>2. \A u \in Turn : Final(u)' = Final(u)
      BY <2>1 DEF Final
    <2>3. ASSUME ~used[t], content[t] = Piece(received[t]) PROVE sent'[t] = Final(t)
      <3>1. CASE t \notin Streamed
        BY <2>1, <3>1 DEF TextTyped
      <3>2. CASE t \in Streamed
        <4>1. sent[t] = streamed[t] /\ \E k \in 0..received[t] : streamed[t] = Piece(k)
          BY <2>1, <2>3, <3>2 DEF DeliveredInv, StreamedIsSent, Open
        <4>2. received[t] \in 0..2
          BY DEF TextTyped
        <4>3. streamed[t] \o Suffix(t) = Final(t)
          BY <2>3, <4>1, <4>2, PieceCompletes
        <4> QED
          BY <2>1, <3>2, <4>1, <4>3 DEF TextTyped
      <3> QED
        BY <3>1, <3>2
    <2> QED
      BY <2>1, <2>2, <2>3 DEF DeliveredInv, TextTyped
  <1>2. ASSUME NEW t \in Turn, Record(t) PROVE UnreplacedDelivered'
    <2>1. UNCHANGED <<received, content, used, sent>> /\ pc[t] = "recording" /\ Goto(t, "done")
      BY <1>2 DEF Record, text
    <2>2. \A u \in Turn : Final(u)' = Final(u)
      BY <2>1 DEF Final
    <2> QED
      BY <2>1, <2>2 DEF DeliveredInv
  <1>3. ASSUME NEW t \in Turn,
               \/ Begin(t) \/ AFail(t) \/ ExecuteProxyCalls(t) \/ ReviewInvalid(t) \/ Sense(t)
               \/ ReconsiderFail(t) \/ StreamChunk(t) \/ Disconnect(t)
               \/ (\E b \in BOOLEAN : AAnswer(t, b))
               \/ Continue(t) \/ ContinueFail(t) \/ Reconsider(t) \/ Rate(t) \/ ReviewFail(t)
        PROVE  UnreplacedDelivered'
    <2>1. /\ pc'[t] \notin {"recording", "done"}
          /\ \A u \in Turn \ {t} : pc'[u] = pc[u]
      <3>1. ASSUME Rate(t) \/ ReviewFail(t) PROVE \E there \in {"reconsidering", "concluding"} : Goto(t, there)
        BY <3>1 DEF Rate, ReviewFail, Verdict, AfterVerdict
      <3>2. ASSUME ~(Rate(t) \/ ReviewFail(t))
            PROVE  \/ pc' = pc /\ pc[t] \notin {"recording", "done"}
                   \/ \E there \in Stage \ {"recording", "done"} : Goto(t, there)
        BY <1>3, <3>2 DEF Begin, AFail, ExecuteProxyCalls, ReviewInvalid, Sense, Reviewing, ReconsiderFail,
                          StreamChunk, Disconnect, AAnswer, Continue, ContinueFail, Continued, Reconsider
      <3> QED
        BY <3>1, <3>2
    <2>2. \A u \in Turn \ {t} : /\ received'[u] = received[u] /\ content'[u] = content[u]
                                /\ used'[u] = used[u] /\ sent'[u] = sent[u]
      <3>1. ASSUME NEW u \in Turn \ {t},
                   \/ Begin(t) \/ AFail(t) \/ ExecuteProxyCalls(t) \/ ReviewInvalid(t) \/ Sense(t)
                   \/ ReconsiderFail(t) \/ Disconnect(t) \/ Rate(t) \/ ReviewFail(t)
            PROVE  /\ received'[u] = received[u] /\ content'[u] = content[u]
                   /\ used'[u] = used[u] /\ sent'[u] = sent[u]
        BY <3>1 DEF Begin, AFail, ExecuteProxyCalls, ReviewInvalid, Sense, ReconsiderFail, Disconnect,
                    Rate, ReviewFail, Verdict, text, TextTyped
      <3>2. ASSUME NEW u \in Turn \ {t}, StreamChunk(t) \/ Reconsider(t)
            PROVE  /\ received'[u] = received[u] /\ content'[u] = content[u]
                   /\ used'[u] = used[u] /\ sent'[u] = sent[u]
        BY <3>2 DEF StreamChunk, StreamUpTo, Reconsider, TextTyped
      <3>3. ASSUME NEW u \in Turn \ {t}, NEW b \in BOOLEAN, AAnswer(t, b)
            PROVE  /\ received'[u] = received[u] /\ content'[u] = content[u]
                   /\ used'[u] = used[u] /\ sent'[u] = sent[u]
        BY <3>3 DEF AAnswer, StreamUpTo, TextTyped
      <3>4. ASSUME NEW u \in Turn \ {t}, Continue(t) \/ ContinueFail(t)
            PROVE  /\ received'[u] = received[u] /\ content'[u] = content[u]
                   /\ used'[u] = used[u] /\ sent'[u] = sent[u]
        BY <3>4 DEF Continue, ContinueFail, Continued, TextTyped
      <3> QED
        BY <1>3, <3>1, <3>2, <3>3, <3>4
    <2>3. \A u \in Turn \ {t} : Final(u)' = Final(u)
      BY <2>2 DEF Final
    <2> QED
      BY <2>1, <2>2, <2>3 DEF DeliveredInv
  <1>4. ASSUME UNCHANGED vars PROVE UnreplacedDelivered'
    <2>1. \A u \in Turn : Final(u)' = Final(u)
      BY <1>4 DEF Final, vars
    <2> QED
      BY <1>4, <2>1 DEF DeliveredInv, vars
  <1> QED
    BY <1>1, <1>2, <1>3, <1>4 DEF Next, Step

(* At the start nothing was streamed or delivered.                          *)
LEMMA InitDelivered == Init => DeliveredInv
  <1> SUFFICES ASSUME Init PROVE DeliveredInv
    OBVIOUS
  <1>1. \A t \in Turn : pc[t] = "idle" /\ received[t] = 0 /\ streamed[t] = <<>> /\ sent[t] = <<>>
    BY DEF Init
  <1>2. Piece(0) = <<>>
    BY PieceFacts
  <1>3. 0 \in 0..0
    OBVIOUS
  <1> QED
    BY <1>1, <1>2, <1>3, TurnAssumption DEF DeliveredInv, StreamedIsSent, UnreplacedDelivered, Concluded

(* An answer that was not replaced reaches the client whole: what the meter *)
(* filter held back of a stream is in the rest that goes out with the meter,*)
(* whatever chunks it let through before.                                   *)
THEOREM DeliverySound == Spec => []UnreplacedDelivered
  <1>1. Init => Domains /\ RatedAsIs /\ TextTyped /\ DeliveredInv
    BY InitFacts, InitStore, InitDelivered
  <1>2. Domains /\ RatedAsIs /\ TextTyped /\ DeliveredInv /\ [Next]_vars
            => (Domains /\ RatedAsIs /\ TextTyped /\ DeliveredInv)'
    BY RatedStep, TextStep, StreamStep, DeliveredStep DEF DeliveredInv
  <1>3. DeliveredInv => UnreplacedDelivered
    BY DEF DeliveredInv
  <1> QED
    BY <1>1, <1>2, <1>3, PTL DEF Spec

-----------------------------------------------------------------------------
(* What the types need beyond the text of the answers.                      *)
OutputTyped ==
    /\ complete \subseteq Turn /\ recorded \subseteq Turn
    /\ sent \in [Turn -> Seq(Pieces)]
    /\ used \in [Turn -> BOOLEAN]

VerdictTyped ==
    /\ about \in [Turn -> Seq(Pieces)]
    /\ handoff \in [Turn -> Seq(Pieces)]
    /\ tries \in [Turn -> 0..1]
    /\ rounds \in [Turn -> 0..MaxRounds]
    /\ level \in [Turn -> Level]
    /\ assist \in [Turn -> BOOLEAN]
    /\ told \in [Turn -> SUBSET {"warning", "material"}]

(* Words are pieces, and so is the sign for "no verdict".                   *)
LEMMA WordsArePieces ==
    /\ \A s \in Seq(Words) : s \in Seq(Pieces)
    /\ NoVerdict \in Seq(Pieces) /\ <<>> \in Seq(Pieces)
  <1>1. Words \subseteq Pieces /\ "none" \in Pieces
    BY DEF Words, Pieces
  <1>2. Seq(Words) \subseteq Seq(Pieces)
    BY <1>1
  <1>3. <<"none">> \in Seq(Pieces) /\ <<>> \in Seq(Pieces)
    BY <1>1
  <1> QED
    BY <1>2, <1>3 DEF NoVerdict

(* What is sent at the end is text.                                         *)
LEMMA EndIsText ==
    ASSUME TextTyped, NEW t \in Turn
    PROVE  Final(t) \in Seq(Words) /\ Suffix(t) \in Seq(Words)
  <1>1. content[t] \in Seq(Words) /\ streamed[t] \in Seq(Words)
    BY DEF TextTyped
  <1>2. <<"m">> \in Seq(Words) /\ <<>> \in Seq(Words)
    BY DEF Words
  <1>3. Final(t) \in Seq(Words)
    BY <1>1, <1>2 DEF Final
  <1>4. SubSeq(Final(t), Len(streamed[t]) + 1, Len(Final(t))) \in Seq(Words)
    <2>1. Len(streamed[t]) \in Nat /\ Len(Final(t)) \in Nat
      BY <1>1, <1>3
    <2>2. \A i \in (Len(streamed[t]) + 1)..Len(Final(t)) : Final(t)[i] \in Words
      BY <1>3, <2>1
    <2> QED
      BY <2>1, <2>2, SubSeqProperties
  <1> QED
    BY <1>2, <1>3, <1>4 DEF Suffix

(* A step sends text, and records and completes turns.                      *)
LEMMA OutputStep ==
    ASSUME TextTyped, OutputTyped, [Next]_vars
    PROVE  OutputTyped'
  <1> USE DEF OutputTyped
  <1>1. ASSUME UNCHANGED <<sent, used, complete, recorded>> PROVE OutputTyped'
    BY <1>1
  <1>2. ASSUME NEW t \in Turn, StreamChunk(t) PROVE OutputTyped'
    <2>1. received[t] + 1 \in 0..2
      <3>1. received[t] < 2
        BY <1>2, AnswerFacts DEF StreamChunk
      <3>2. received[t] \in 0..2
        BY DEF TextTyped
      <3> QED
        BY <3>1, <3>2
    <2>2. Piece(received[t] + 1) \in Seq(Pieces)
      BY <2>1, PieceFacts, WordsArePieces
    <2> QED
      BY <1>2, <2>2 DEF StreamChunk, StreamUpTo, Set
  <1>3. ASSUME NEW t \in Turn, NEW b \in BOOLEAN, AAnswer(t, b) PROVE OutputTyped'
    <2>1. PICK n \in 0..2 : StreamUpTo(t, n) \/ UNCHANGED <<streamed, sent>>
      <3>1. received[t] \in 0..2
        BY DEF TextTyped
      <3> QED
        BY <1>3, <3>1, AnswerFacts DEF AAnswer
    <2>2. Piece(n) \in Seq(Pieces)
      BY PieceFacts, WordsArePieces
    <2>3. UNCHANGED <<used, recorded>> /\ complete' \subseteq Turn
      BY <1>3 DEF AAnswer
    <2> QED
      BY <2>1, <2>2, <2>3 DEF StreamUpTo, Set
  <1>4. ASSUME NEW t \in Turn, ExecuteProxyCalls(t) PROVE OutputTyped'
    <2>1. (ProxyCap > 0) \in BOOLEAN
      BY TurnAssumption
    <2>2. used' = [used EXCEPT ![t] = (ProxyCap > 0)] /\ UNCHANGED <<text, recorded>>
      BY <1>4 DEF ExecuteProxyCalls, Set
    <2> QED
      BY <2>1, <2>2 DEF text
  <1>5. ASSUME NEW t \in Turn, Continue(t) \/ ContinueFail(t) PROVE OutputTyped'
    <2>1. <<>> \in Seq(Words) /\ <<"c">> \in Seq(Words) /\ content[t] \in Seq(Words)
      BY DEF Words, TextTyped
    <2>2. PICK msg \in Seq(Words) : Continued(t, msg)
      BY <1>5, <2>1 DEF Continue, ContinueFail
    <2>3. msg \in Seq(Pieces)
      BY WordsArePieces
    <2>4. sent[t] \o msg \in Seq(Pieces)
      BY <2>3
    <2> QED
      BY <2>2, <2>4 DEF Continued, Set
  <1>6. ASSUME NEW t \in Turn, Conclude(t) PROVE OutputTyped'
    <2>1. Final(t) \in Seq(Pieces) /\ Suffix(t) \in Seq(Pieces)
      BY EndIsText, WordsArePieces
    <2>2. sent[t] \o Suffix(t) \in Seq(Pieces)
      BY <2>1
    <2>3. sent' = [sent EXCEPT ![t] = IF t \in Streamed THEN sent[t] \o Suffix(t) ELSE Final(t)]
      BY <1>6 DEF Conclude, Set
    <2>4. UNCHANGED <<used, complete, recorded>>
      BY <1>6 DEF Conclude
    <2> QED
      BY <2>1, <2>2, <2>3, <2>4
  <1>7. ASSUME NEW t \in Turn, Record(t) PROVE OutputTyped'
    BY <1>7 DEF Record, text
  <1>8. ASSUME NEW t \in Turn,
               \/ Begin(t) \/ AFail(t) \/ ReviewInvalid(t) \/ Sense(t) \/ ReconsiderFail(t)
               \/ Disconnect(t) \/ Reconsider(t)
        PROVE  OutputTyped'
    BY <1>1, <1>8 DEF Begin, AFail, ReviewInvalid, Sense, ReconsiderFail, Disconnect, Reconsider, text
  <1>9. ASSUME NEW t \in Turn, Rate(t) \/ ReviewFail(t) PROVE OutputTyped'
    BY <1>1, <1>9 DEF Rate, ReviewFail, Verdict, text
  <1>10. CASE UNCHANGED vars
    BY <1>1, <1>10 DEF vars
  <1> QED
    BY <1>2, <1>3, <1>4, <1>5, <1>6, <1>7, <1>8, <1>9, <1>10 DEF Next, Step

(* A verdict has a level and is about a text; attempts and evidence rounds  *)
(* stay within their bounds.                                                *)
LEMMA VerdictStep ==
    ASSUME TextTyped, VerdictTyped, [Next]_vars
    PROVE  VerdictTyped'
  <1> USE DEF VerdictTyped
  <1>1. MaxRounds \in Nat
    BY TurnAssumption
  <1>2. ASSUME NEW t \in Turn, Begin(t) PROVE VerdictTyped'
    <2>1. _insert_system_injections \union _build_assist_injections \subseteq {"warning", "material"}
      BY DEF _insert_system_injections, _build_assist_injections
    <2> QED
      BY <1>2, <2>1 DEF Begin, Set
  <1>3. ASSUME NEW t \in Turn, ReviewInvalid(t) PROVE VerdictTyped'
    BY <1>3 DEF ReviewInvalid, Set
  <1>4. ASSUME NEW t \in Turn, Sense(t) PROVE VerdictTyped'
    <2>1. rounds[t] + 1 \in 0..MaxRounds
      BY <1>1, <1>4 DEF Sense
    <2> QED
      BY <1>4, <2>1 DEF Sense, Set
  <1>5. ASSUME NEW t \in Turn, Rate(t) \/ ReviewFail(t) PROVE VerdictTyped'
    <2>1. content[t] \in Seq(Pieces) /\ NoVerdict \in Seq(Pieces)
      BY WordsArePieces DEF TextTyped
    <2>2. PICK lvl \in Level, on \in Seq(Pieces) : Verdict(t, lvl, on)
      <3>1. CASE Rate(t)
        BY <2>1, <3>1 DEF Rate
      <3>2. CASE ReviewFail(t)
        <4>1. "YELLOW" \in Level
          BY DEF Level
        <4> QED
          BY <2>1, <3>2, <4>1 DEF ReviewFail
      <3> QED
        BY <1>5, <3>1, <3>2
    <2>3. handoff' \in [Turn -> Seq(Pieces)]
      BY <2>2 DEF Verdict, _extract_handoff, Set
    <2>4. assist' \in [Turn -> BOOLEAN]
      <3>1. (on # NoVerdict) \in BOOLEAN
        OBVIOUS
      <3>2. assist' = [assist EXCEPT ![t] = (on # NoVerdict)] \/ assist' = assist
        BY <2>2 DEF Verdict, Assistance, Set
      <3> QED
        BY <3>1, <3>2
    <2>5. rounds' \in [Turn -> 0..MaxRounds]
      BY <1>1, <2>2 DEF Verdict, Set
    <2> QED
      BY <2>2, <2>3, <2>4, <2>5 DEF Verdict, Set
  <1>6. ASSUME NEW t \in Turn,
               \/ AFail(t) \/ ExecuteProxyCalls(t) \/ ReconsiderFail(t) \/ Conclude(t)
               \/ StreamChunk(t) \/ Record(t) \/ Disconnect(t) \/ Reconsider(t)
        PROVE  VerdictTyped'
    BY <1>6 DEF AFail, ExecuteProxyCalls, ReconsiderFail, Conclude, StreamChunk, Record, Disconnect,
                Reconsider, verdict
  <1>7. ASSUME NEW t \in Turn,
               (\E b \in BOOLEAN : AAnswer(t, b)) \/ Continue(t) \/ ContinueFail(t)
        PROVE  VerdictTyped'
    BY <1>7 DEF AAnswer, Continue, ContinueFail, Continued, verdict
  <1>8. CASE UNCHANGED vars
    BY <1>8 DEF vars
  <1> QED
    BY <1>2, <1>3, <1>4, <1>5, <1>6, <1>7, <1>8 DEF Next, Step

(* Everything fits its type at first.                                       *)
LEMMA InitTyped == Init => OutputTyped /\ VerdictTyped
  <1> SUFFICES ASSUME Init PROVE OutputTyped /\ VerdictTyped
    OBVIOUS
  <1>1. MaxRounds \in Nat
    BY TurnAssumption
  <1>2. "YELLOW" \in Level
    BY DEF Level
  <1>3. OutputTyped
    BY WordsArePieces DEF Init, OutputTyped
  <1>4. VerdictTyped
    BY <1>1, <1>2, WordsArePieces DEF Init, VerdictTyped
  <1> QED
    BY <1>3, <1>4

(* Every variable keeps its type; a verification makes at most two attempts *)
(* per review and as many evidence rounds as it may.                        *)
THEOREM TypesSound == Spec => []TypeOK
  <1>1. Init => Domains /\ TextTyped /\ OutputTyped /\ VerdictTyped
    BY InitFacts, InitStore, InitTyped
  <1>2. Domains /\ RatedAsIs /\ [Next]_vars => Domains' /\ RatedAsIs'
    BY RatedStep
  <1>3. Domains /\ TextTyped /\ [Next]_vars => TextTyped'
    BY TextStep
  <1>4. TextTyped /\ OutputTyped /\ [Next]_vars => OutputTyped'
    BY OutputStep
  <1>5. TextTyped /\ VerdictTyped /\ [Next]_vars => VerdictTyped'
    BY VerdictStep
  <1>6. Domains /\ TextTyped /\ OutputTyped /\ VerdictTyped => TypeOK
    <2> SUFFICES ASSUME Domains, TextTyped, OutputTyped, VerdictTyped PROVE TypeOK
      OBVIOUS
    <2>1. received \in [Turn -> 0..Len(Answer)]
      BY AnswerFacts DEF TextTyped
    <2>2. content \in [Turn -> Seq(Pieces)] /\ streamed \in [Turn -> Seq(Pieces)]
      BY WordsArePieces DEF TextTyped
    <2> QED
      BY <2>1, <2>2 DEF Domains, OutputTyped, VerdictTyped, TypeOK
  <1> QED
    BY InitFacts, <1>1, <1>2, <1>3, <1>4, <1>5, <1>6, PTL DEF Spec
============================================================================

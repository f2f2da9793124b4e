----------------------------- MODULE GatedTurn -----------------------------
(***************************************************************************)
(* The gated turn (gated/handler.py): lobe A answers, buffered or streamed, *)
(* its proxy tool calls are executed and continued once, lobe B rates the   *)
(* answer, A may be asked to reconsider, the verdict is stored for the next *)
(* turn of the run and appended to the answer.  Turns of one run overlap:   *)
(* they share the meter store, a process-wide dict without a lock.          *)
(*                                                                          *)
(* A step runs from one await to the next.  Text is a sequence of pieces:   *)
(* "a1", "a2" are A's answer, "c" the continuation, "r" the revised answer, *)
(* "m" the meter; blank lines between them are left out.  Tool calls for    *)
(* the client and headers are left out too.                                 *)
(***************************************************************************)
EXTENDS Naturals, Sequences, SequencesExt

CONSTANTS
    Turn,           \* requests, all of one run
    Streamed,       \* the turns served by gated_stream
    ProxyOn,        \* settings.proxy_tools_enabled
    ProxyCap,       \* the per-turn cap of the proxy tools, 0 allowed
    FlipBack,       \* settings.gated_flip_back
    MaxRounds,      \* evidence rounds of one verification, 0 when disabled
    CutShort        \* an upstream may close a stream between two events

ASSUME TurnAssumption ==
    /\ Streamed \subseteq Turn
    /\ {ProxyOn, FlipBack, CutShort} \subseteq BOOLEAN
    /\ {ProxyCap, MaxRounds} \subseteq Nat

Level == {"GREEN", "YELLOW", "RED"}
Answer == <<"a1", "a2">>
Stage == {"idle", "answering", "error", "proxy", "continuing", "verifying", "reconsidering",
          "rechecking", "concluding", "recording", "done", "gone"}

VARIABLES
    pc,
    received,   \* pieces of A's answer received so far
    complete,   \* turns in which A's answer ended with a finish_reason
    content,    \* content of the message that will be returned
    streamed,   \* streamed_text
    sent,       \* what the client received
    used,       \* proxy_used is not empty
    tries,      \* attempt in _call_review
    rounds,     \* evidence rounds done in _sense_once
    level,      \* deception_level
    about,      \* the text the verdict is about; <<"none">> for no verdict
    handoff,    \* the text B's handoff is about
    assist,     \* there are questions or notes of B's first review
    told,       \* what A was told at the start of the turn of the last one
    store,      \* _meter_store: the turn, level, text and handoff of the last verdict
    recorded    \* turns whose exchange was handed to shared memory

vars == <<pc, received, complete, content, streamed, sent, used, tries, rounds,
          level, about, handoff, assist, told, store, recorded>>
text == <<received, complete, content, streamed, sent>>
verdict == <<tries, rounds, level, about, handoff, assist, told>>

NoVerdict == <<"none">>

Init ==
    /\ pc = [t \in Turn |-> "idle"]
    /\ received = [t \in Turn |-> 0]
    /\ complete = {}
    /\ content = [t \in Turn |-> <<>>]
    /\ streamed = [t \in Turn |-> <<>>]
    /\ sent = [t \in Turn |-> <<>>]
    /\ used = [t \in Turn |-> FALSE]
    /\ tries = [t \in Turn |-> 0]
    /\ rounds = [t \in Turn |-> 0]
    /\ level = [t \in Turn |-> "YELLOW"]
    /\ about = [t \in Turn |-> NoVerdict]
    /\ handoff = [t \in Turn |-> NoVerdict]
    /\ assist = [t \in Turn |-> FALSE]
    /\ told = [t \in Turn |-> {}]
    /\ store = {}
    /\ recorded = {}

-----------------------------------------------------------------------------
At(t, here) == pc[t] = here
Goto(t, there) == pc' = [pc EXCEPT ![t] = there]
Set(f, t, v) == [f EXCEPT ![t] = v]
Piece(n) == SubSeq(Answer, 1, n)

(* What A is told of the last verdict of the run: a warning unless it was   *)
(* GREEN, and B's material as the result of a tool call; a review is taken  *)
(* to have something to say.                                                *)
_build_meter_warning(v) == v.level # "GREEN"
_render_handoff(v) == v.assist \/ v.handoff # NoVerdict
_insert_system_injections == IF \E v \in store : _build_meter_warning(v) THEN {"warning"} ELSE {}
_build_assist_injections == IF \E v \in store : _render_handoff(v) THEN {"material"} ELSE {}

(* _prepare, and the request to A is sent.                                  *)
Begin(t) ==
    /\ At(t, "idle")
    /\ told' = Set(told, t, _insert_system_injections \union _build_assist_injections)
    /\ Goto(t, "answering")
    /\ UNCHANGED <<text, used, tries, rounds, level, about, handoff, assist, store, recorded>>

(* The client gets everything up to piece n that it does not have yet.      *)
StreamUpTo(t, n) ==
    /\ streamed' = Set(streamed, t, Piece(n))
    /\ sent' = Set(sent, t, Piece(n))

(* A chunk with text; the meter filter passes it on or holds it back.       *)
StreamChunk(t) ==
    /\ At(t, "answering")
    /\ t \in Streamed
    /\ received[t] < Len(Answer)
    /\ received' = Set(received, t, received[t] + 1)
    /\ StreamUpTo(t, received[t] + 1) \/ UNCHANGED <<streamed, sent>>
    /\ UNCHANGED <<pc, complete, content, used, verdict, store, recorded>>

(* Mutant of AFail: what arrived before the error is taken for the answer.  *)
AFailAsStop(t) ==
    /\ At(t, "answering")
    /\ content' = Set(content, t, Piece(received[t]))
    /\ Goto(t, "verifying")
    /\ UNCHANGED <<received, complete, streamed, sent, used, verdict, store, recorded>>

(* A's call raises or times out, before or amid the stream: the client gets *)
(* an error event (or body) and the turn is over.                           *)
AFail(t) ==
    /\ At(t, "answering")
    /\ Goto(t, "error")
    /\ UNCHANGED <<text, used, verdict, store, recorded>>

(* A's answer has ended.  In a stream it is what was received, and the      *)
(* filter's tail goes out unless the filter took the text for a heading.    *)
(* The adapter takes the end of the response for the end of the stream and  *)
(* _assemble_stream supplies a missing finish_reason.                       *)
AAnswer(t, wantsProxy) ==
    /\ At(t, "answering")
    /\ complete' = complete \union {t} \/ (CutShort /\ t \in Streamed /\ UNCHANGED complete)
    /\ \E n \in IF t \in Streamed THEN {received[t]} ELSE 0..Len(Answer) :
        /\ content' = Set(content, t, Piece(n))
        /\ received' = Set(received, t, n)
        /\ \/ t \in Streamed /\ StreamUpTo(t, n)
           \/ UNCHANGED <<streamed, sent>>
    /\ Goto(t, IF ProxyOn /\ wantsProxy THEN "proxy" ELSE "verifying")
    /\ UNCHANGED <<used, verdict, store, recorded>>

-----------------------------------------------------------------------------
(* _resolve_proxy_tools: the calls are executed within their caps; then the *)
(* continuation replaces the message.                                       *)
ExecuteProxyCalls(t) ==
    /\ At(t, "proxy")
    /\ used' = Set(used, t, ProxyCap > 0)
    /\ Goto(t, "continuing")
    /\ UNCHANGED <<text, verdict, store, recorded>>

(* The message is now msg; a stream sends it if the proxy was used, and     *)
(* takes the whole streamed text for the content.                           *)
Continued(t, msg) ==
    /\ IF t \in Streamed /\ used[t] /\ msg # <<>>
       THEN /\ sent' = Set(sent, t, sent[t] \o msg)
            /\ streamed' = Set(streamed, t, streamed[t] \o msg)
            /\ content' = Set(content, t, streamed[t] \o msg)
       ELSE /\ content' = Set(content, t, msg)
            /\ UNCHANGED <<sent, streamed>>
    /\ Goto(t, "verifying")
    /\ UNCHANGED <<received, complete, used, verdict, store, recorded>>

Continue(t) ==
    /\ At(t, "continuing")
    /\ \E msg \in {<<>>, <<"c">>} : Continued(t, msg)

(* The continuation failed: A's first message without its proxy calls.      *)
ContinueFail(t) ==
    /\ At(t, "continuing")
    /\ Continued(t, content[t])

-----------------------------------------------------------------------------
(* verify_output, for the first verdict and for the recheck.                *)
Reviewing(t) == At(t, "verifying") \/ At(t, "rechecking")

(* Mutant of AfterVerdict: A is asked to reconsider until B is content.     *)
AfterVerdictAgain(t, lvl) ==
    IF FlipBack /\ lvl # "GREEN" THEN "reconsidering" ELSE "concluding"

AfterVerdict(t, lvl) ==
    IF At(t, "verifying") /\ FlipBack /\ lvl # "GREEN" THEN "reconsidering" ELSE "concluding"

(* B's answer was empty, not JSON or not grounded: one more attempt.        *)
ReviewInvalid(t) ==
    /\ Reviewing(t)
    /\ tries[t] = 0
    /\ tries' = Set(tries, t, 1)
    /\ UNCHANGED <<pc, text, used, rounds, level, about, handoff, assist, told, store, recorded>>

(* A valid review asks for evidence: it is fetched and B reviews again.     *)
Sense(t) ==
    /\ Reviewing(t)
    /\ rounds[t] < MaxRounds
    /\ rounds' = Set(rounds, t, rounds[t] + 1)
    /\ tries' = Set(tries, t, 0)
    /\ UNCHANGED <<pc, text, used, level, about, handoff, assist, told, store, recorded>>

(* B's handoff is about the text it reviewed; without a review an earlier   *)
(* one stays.  Its questions and notes are those of the first review.       *)
_extract_handoff(t, on) == IF on = NoVerdict THEN handoff ELSE Set(handoff, t, on)
Assistance(t, on) == IF At(t, "verifying") THEN Set(assist, t, on # NoVerdict) ELSE assist

(* Mutant of Verdict: the meter is stored as soon as there is one.          *)
VerdictStored(t, lvl, on) ==
    /\ level' = Set(level, t, lvl)
    /\ about' = Set(about, t, on)
    /\ tries' = Set(tries, t, 0)
    /\ rounds' = Set(rounds, t, 0)
    /\ handoff' = _extract_handoff(t, on)
    /\ assist' = Assistance(t, on)
    /\ store' = {[turn |-> t, level |-> lvl, about |-> on, handoff |-> on, assist |-> on # NoVerdict]}
    /\ Goto(t, AfterVerdict(t, lvl))
    /\ UNCHANGED <<text, used, told, recorded>>

Verdict(t, lvl, on) ==
    /\ level' = Set(level, t, lvl)
    /\ about' = Set(about, t, on)
    /\ tries' = Set(tries, t, 0)
    /\ rounds' = Set(rounds, t, 0)
    /\ handoff' = _extract_handoff(t, on)
    /\ assist' = Assistance(t, on)
    /\ Goto(t, AfterVerdict(t, lvl))
    /\ UNCHANGED <<text, used, told, store, recorded>>

(* _verified_meter: a verdict without a valid level or rationale is YELLOW. *)
Rate(t) ==
    /\ Reviewing(t)
    /\ \E lvl \in Level : Verdict(t, lvl, content[t])

(* Mutant of ReviewFail: a failed recheck leaves the first verdict.         *)
ReviewFailKeepsLevel(t) ==
    /\ Reviewing(t)
    /\ IF At(t, "verifying") THEN Verdict(t, "YELLOW", NoVerdict)
       ELSE Verdict(t, level[t], about[t])

(* The second attempt was invalid too, or a call raised or timed out.       *)
ReviewFail(t) ==
    /\ Reviewing(t)
    /\ Verdict(t, "YELLOW", NoVerdict)

(* A reconsiders; its new answer is not streamed.                           *)
Reconsider(t) ==
    /\ At(t, "reconsidering")
    /\ \E msg \in {<<>>, <<"r">>} : content' = Set(content, t, msg)
    /\ Goto(t, "rechecking")
    /\ UNCHANGED <<received, complete, streamed, sent, used, verdict, store, recorded>>

(* The second call of A failed: the original is forwarded as rated.         *)
ReconsiderFail(t) ==
    /\ At(t, "reconsidering")
    /\ Goto(t, "concluding")
    /\ UNCHANGED <<text, used, verdict, store, recorded>>

-----------------------------------------------------------------------------
Final(t) == IF content[t] = <<>> THEN <<>> ELSE content[t] \o <<"m">>

(* Mutant of Suffix: everything but the meter is taken to be streamed.      *)
SuffixMeterOnly(t) == IF content[t] = <<>> THEN <<>> ELSE <<"m">>

(* What is left to send: nothing if the streamed text is not its beginning. *)
Suffix(t) ==
    IF IsPrefix(streamed[t], Final(t))
    THEN SubSeq(Final(t), Len(streamed[t]) + 1, Len(Final(t))) ELSE <<>>

(* The meter is stored and appended, the rest of the answer is sent.        *)
Conclude(t) ==
    /\ At(t, "concluding")
    /\ store' = {[turn |-> t, level |-> level[t], about |-> about[t],
                  handoff |-> handoff[t], assist |-> assist[t]]}
    /\ sent' = Set(sent, t, IF t \in Streamed THEN sent[t] \o Suffix(t) ELSE Final(t))
    /\ Goto(t, "recording")
    /\ UNCHANGED <<received, complete, content, streamed, used, verdict, recorded>>

(* on_done, or the background task of a buffered response.                  *)
Record(t) ==
    /\ At(t, "recording")
    /\ recorded' = recorded \union {t}
    /\ Goto(t, "done")
    /\ UNCHANGED <<text, used, verdict, store>>

(* The client closes the stream: the generator is closed where it stands.   *)
Disconnect(t) ==
    /\ t \in Streamed
    /\ pc[t] \notin {"idle", "done", "error", "gone"}
    /\ Goto(t, "gone")
    /\ UNCHANGED <<text, used, verdict, store, recorded>>

Step(t) ==
    \/ StreamChunk(t)
    \/ AFail(t)
    \/ \E wantsProxy \in BOOLEAN : AAnswer(t, wantsProxy)
    \/ ExecuteProxyCalls(t)
    \/ Continue(t)
    \/ ContinueFail(t)
    \/ ReviewInvalid(t)
    \/ Sense(t)
    \/ Rate(t)
    \/ ReviewFail(t)
    \/ Reconsider(t)
    \/ ReconsiderFail(t)
    \/ Conclude(t)
    \/ Record(t)

Next == \E t \in Turn : Begin(t) \/ Step(t) \/ Disconnect(t)

Spec == Init /\ [][Next]_vars

(* Every call of a model or a tool is under a timeout, so a turn moves on.  *)
FairSpec == Spec /\ \A t \in Turn : WF_vars(Step(t))

-----------------------------------------------------------------------------
Pieces == {"a1", "a2", "c", "r", "m", "none"}

(* Every variable keeps its type.                                           *)
TypeOK ==
    /\ pc \in [Turn -> Stage]
    /\ received \in [Turn -> 0..Len(Answer)]
    /\ complete \subseteq Turn
    /\ {content, streamed, sent, about, handoff} \subseteq [Turn -> Seq(Pieces)]
    /\ used \in [Turn -> BOOLEAN]
    /\ tries \in [Turn -> 0..1]
    /\ rounds \in [Turn -> 0..MaxRounds]
    /\ level \in [Turn -> Level]
    /\ assist \in [Turn -> BOOLEAN]
    /\ told \in [Turn -> SUBSET {"warning", "material"}]
    /\ recorded \subseteq Turn

Concluded(t) == pc[t] \in {"recording", "done"}

(* An answer is rated GREEN or RED only if exactly this answer is the one B *)
(* judged: after a continuation, a revision, a failed recheck or a failed   *)
(* reconsideration no verdict about another text is shown with it.          *)
VerdictIsOfThisAnswer ==
    \A t \in Turn : (Concluded(t) /\ level[t] # "YELLOW") => about[t] = content[t]

(* "Never turn a failed or interrupted upstream stream into a normal        *)
(* stop/completion": an answer that did not come to its end is never rated, *)
(* stored or recorded, however much of it the client already has.           *)
InterruptedNeverCompletes ==
    \A t \in Turn : Concluded(t) \/ t \in recorded => t \in complete

(* The meter the next turn of the run is warned with is the final verdict   *)
(* of a turn that showed it: a verdict that is still to be rechecked, or    *)
(* whose client left before it was shown, is never stored, although turns   *)
(* overlap and overwrite each other's meter.                                *)
StoreIsShownVerdict ==
    \A v \in store :
        /\ pc[v.turn] \in {"recording", "done", "gone"}
        /\ v.level = level[v.turn] /\ v.about = about[v.turn]
        /\ v.level # "YELLOW" => v.handoff = content[v.turn]

(* An answer that neither the proxy tools nor a reconsideration replaced    *)
(* reaches the client exactly as it was rated and recorded, followed by the *)
(* meter: whatever the filter held back while it streamed comes with it.    *)
UnreplacedDelivered ==
    \A t \in Turn : (Concluded(t) /\ ~used[t] /\ content[t] = Piece(received[t])) => sent[t] = Final(t)

(* gated_stream: "A's text reaches the client as it is generated; B checks  *)
(* the finished answer and the meter arrives as the last chunk": what the   *)
(* client received is the answer that was rated and recorded, then the      *)
(* meter.                                                                   *)
StreamDeliversFinal == \A t \in Turn : Concluded(t) => sent[t] = Final(t)

(* Every turn ends: with the answer recorded, an error, or the client gone. *)
EveryTurnEnds == \A t \in Turn : (pc[t] = "answering") ~> (pc[t] \in {"done", "error", "gone"})
============================================================================

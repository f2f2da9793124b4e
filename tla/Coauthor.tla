------------------------------ MODULE Coauthor ------------------------------
(***************************************************************************)
(* A conversation in the bidirectional mode (bidirectional/handler.py): the *)
(* lobe the user addresses owns the turn, may consult its peer, use the     *)
(* proxy's tools or hand the turn over, and the other lobe verifies the     *)
(* answer.  In the secure variant a privacy guard stands before lobe A: the *)
(* local lobe B names the private values of the conversation, A is sent     *)
(* tokens instead of the values recognised, and the answer is restored for  *)
(* the user.                                                                *)
(*                                                                          *)
(* A text is reduced to the private values it mentions: in clear (raw), as  *)
(* a token of this request (tok), or as a token of an earlier request, whose *)
(* key is gone (stale).  A message mentions nothing or every value, and a   *)
(* reply nothing or all of what the model was sent.  A step runs from one   *)
(* model call to the next.                                                  *)
(***************************************************************************)
EXTENDS Naturals

CONSTANTS
    Values,         \* the private values a message may mention
    Shaped,         \* those the patterns of the guard recognise
    Missed,         \* those that stand where the guard leaves them in clear: keys
                    \* of a record, a text that is a number, a secret that also
                    \* occurs in the words announcing it
    Notes,          \* whether episodic memory is on
    StrayCalls,     \* tools a model may call without being offered them
    MaxRequests     \* bound on the requests of the conversation

ASSUME CoauthorAssumption ==
    /\ Shaped \subseteq Values
    /\ Missed \subseteq Values
    /\ Notes \in BOOLEAN
    /\ StrayCalls \subseteq {"proxy", "handoff", "consult", "client"}
    /\ MaxRequests \in Nat

VARIABLES
    pc,         \* where the handler is
    asked,      \* the latest user message: whom it addresses and what it asks
    pending,    \* lobe whose tool calls the client still has to answer, or "none"
    turn,       \* the locals of _run
    reply,      \* the message the speaker returned last
    chat,       \* what the client resends: user messages and the rest
    memory,     \* what the shared space keeps: recorded exchanges and notes
    sentA,      \* values lobe A was sent in clear in this request
    shown,      \* the last response
    requests    \* requests so far

vars == <<pc, asked, pending, turn, reply, chat, memory, sentA, shown, requests>>

Lobes == {"A", "B"}
Other(l) == IF l = "A" THEN "B" ELSE "A"
Calls == {"proxy", "handoff", "consult", "client"}

(***************************************************************************)
(* Texts and the guard.                                                     *)
(***************************************************************************)
Text == [raw : SUBSET Values, tok : SUBSET Values, stale : SUBSET Values]
NoText == [raw |-> {}, tok |-> {}, stale |-> {}]
Says(vs) == [NoText EXCEPT !.raw = vs]
Join(t, u) == [raw |-> t.raw \cup u.raw, tok |-> t.tok \cup u.tok,
               stale |-> t.stale \cup u.stale]
Mentions(t) == {NoText, t}

\* What guard.sanitize masks with a vault that knows the values in known.
Masked(known) == (Shaped \cup known) \ Missed

Sanitize(t, known) ==
    LET hit == t.raw \cap Masked(known)
    IN  [t EXCEPT !.raw = @ \ hit, !.tok = @ \cup hit]

\* vault.rehydrate_text: tokens of another request are not in the vault.
Rehydrate(t) == [t EXCEPT !.raw = @ \cup t.tok, !.tok = {}]

\* What a lobe is given of a text: _privacy_view for A and _rehydrate_messages
\* for B in the secure variant.
ViewOf(l, t) ==
    CASE ~turn.secure -> t
      [] turn.secure /\ l = "A" -> Sanitize(t, turn.known)
      [] OTHER -> Rehydrate(t)

\* Mutant: guarded by who speaks, not by who is sent the text.
GuardedBySpeaker(l, t) == IF turn.secure /\ turn.speaker = "A" THEN Sanitize(t, turn.known) ELSE t

\* Text that goes to A passes the guard; text that goes to B stays as it is.
GuardedFor(l, t) == IF turn.secure /\ l = "A" THEN Sanitize(t, turn.known) ELSE t

SentTo(l, t) == sentA' = IF l = "A" THEN sentA \cup t.raw ELSE sentA

-----------------------------------------------------------------------------
NoTurn == [secure |-> FALSE, speaker |-> "A", peer |-> "B", cont |-> FALSE,
           consulted |-> FALSE, note |-> "none", consultee |-> "none",
           dialogue |-> NoText, safe |-> NoText, known |-> {}, found |-> {}, aside |-> {},
           routed |-> FALSE]
NoReply == [by |-> "A", calls |-> {}, text |-> NoText]
NoAnswer == [kind |-> "none", by |-> "A", verifier |-> "B", calls |-> {},
             text |-> NoText, cont |-> FALSE,
             note |-> "none", consultee |-> "none"]
Nothing == [to |-> "A", handoff |-> "none", consult |-> "none", secure |-> FALSE]
NoChat == [user |-> NoText, rest |-> NoText]
NoMemory == [exchanges |-> NoText, notes |-> NoText]

Init ==
    /\ pc = "idle"
    /\ asked = Nothing
    /\ pending = "none"
    /\ turn = NoTurn
    /\ reply = NoReply
    /\ chat = NoChat
    /\ memory = NoMemory
    /\ sentA = {}
    /\ shown = NoAnswer
    /\ requests = 0

(***************************************************************************)
(* The request.  A user message addresses a lobe (A unless it names one),   *)
(* may ask for a handoff or for the view of a lobe, and mentions values; it *)
(* continues the conversation or starts one.  A continuation brings the     *)
(* results of the pending tool calls, and its latest user message is still  *)
(* the one before.                                                          *)
(***************************************************************************)
UserMessages == [to : Lobes, handoff : Lobes \cup {"none"},
                 consult : Lobes \cup {"none"}, secure : BOOLEAN]

Begin(secure, cont) ==
    /\ pc = "idle"
    /\ requests < MaxRequests
    /\ requests' = requests + 1
    /\ turn' = [NoTurn EXCEPT !.secure = secure, !.cont = cont]
    /\ pc' = IF secure THEN "gate" ELSE "start"
    /\ shown' = NoAnswer
    /\ UNCHANGED <<reply, memory, sentA>>

Ask(m, vs, earlier) ==
    /\ Begin(m.secure, FALSE)
    /\ asked' = m
    /\ pending' = "none"
    /\ earlier \in {chat, NoChat}
    /\ chat' = [earlier EXCEPT !.user = Join(@, Says(vs))]

ToolResults(vs) ==
    /\ pending # "none"
    /\ Begin(asked.secure, TRUE)
    /\ chat' = [chat EXCEPT !.rest = Join(@, Says(vs))]
    /\ UNCHANGED <<asked, pending>>

(***************************************************************************)
(* _secure_gate: B names values, or its reply cannot be read, in which case *)
(* the user messages are withheld from A's view.  Shared memory is injected *)
(* as a user message.                                                       *)
(***************************************************************************)
inject_shared_memory == Join(chat.user, Join(memory.exchanges, memory.notes))

_secure_gate(named, valid) ==
    /\ pc = "gate"
    /\ turn' = [turn EXCEPT
                  !.known = named,
                  !.safe = Join(Sanitize(chat.rest, named),
                                IF valid THEN Sanitize(inject_shared_memory, named) ELSE NoText)]
    /\ pc' = "start"
    /\ UNCHANGED <<asked, pending, reply, chat, memory, sentA, shown, requests>>

Gate ==
    \/ \E named \in SUBSET (inject_shared_memory.raw \cup chat.rest.raw) :
          _secure_gate(named, TRUE)
    \/ _secure_gate({}, FALSE)

(***************************************************************************)
(* Who speaks: the owner of resumed tool calls, else the addressee; an      *)
(* explicit request to give the turn to a lobe then overrides both.         *)
(***************************************************************************)
\* Mutant: the owner of resumed tool calls is not looked up.
SelectAddressee == asked.to

select_speaker == IF turn.cont THEN pending ELSE asked.to

requested(target, speaker) == IF target = speaker THEN "none" ELSE target

Speaker ==
    LET handoff_target == requested(asked.handoff, select_speaker)
    IN  IF handoff_target = "none" THEN select_speaker ELSE handoff_target

explicit_peer == IF turn.cont THEN "none" ELSE requested(asked.consult, Speaker)

\* auto: the request leaves the choice of a tool to the model.
Start(auto) ==
    /\ pc = "start"
    /\ turn' = [turn EXCEPT
                  !.speaker = Speaker,
                  !.peer = Other(Speaker),
                  !.dialogue = IF turn.secure /\ Speaker = "A" THEN turn.safe
                               ELSE Join(inject_shared_memory, chat.rest),
                  !.routed = explicit_peer = "none" /\ ~turn.cont /\ auto]
    /\ pc' = IF explicit_peer = "none" THEN "speak" ELSE "consult"
    /\ UNCHANGED <<asked, pending, reply, chat, memory, sentA, shown, requests>>

(***************************************************************************)
(* _consult: the other lobe of the speaker is sent its view of the dialogue *)
(* and its advice passes the guard on the way to A.  It never raises.       *)
(***************************************************************************)
Advised(named) ==
    {[turn EXCEPT !.dialogue = Join(@, GuardedFor(turn.speaker, advice)), !.consulted = TRUE,
                  !.note = named, !.consultee = Other(turn.speaker)] :
        advice \in Mentions(ViewOf(Other(turn.speaker), turn.dialogue))}

\* At the user's request, before the speaker's first call.
ConsultPeer ==
    /\ pc = "consult"
    /\ turn' \in Advised(explicit_peer)
    /\ SentTo(Other(turn.speaker), ViewOf(Other(turn.speaker), turn.dialogue))
    /\ pc' = "speak"
    /\ UNCHANGED <<asked, pending, reply, chat, memory, shown, requests>>

(***************************************************************************)
(* _call: the speaker is sent the dialogue and returns tool calls or text.  *)
(* The stages after a reply are taken in the order proxy, handoff, consult. *)
(***************************************************************************)
\* tools: the caller's; a request without any is one in which none is called.
ClientTools == {"client"}

exposed_tools ==
    ClientTools \cup (IF turn.cont THEN {} ELSE {"proxy"})
                \cup (IF turn.routed THEN {"consult", "handoff"} ELSE {})

Stage(calls, done) ==
    CASE done = "speak" /\ "proxy" \in calls /\ ~turn.cont -> "proxy"
      [] done \in {"speak", "proxy"} /\ "handoff" \in calls /\ ~turn.cont -> "handoff"
      [] done # "advice" /\ "consult" \in calls /\ ~turn'.consulted -> "advice"
      [] OTHER -> "answer"

Reply(offered, done) ==
    \E calls \in SUBSET (offered \cup StrayCalls), text \in Mentions(turn'.dialogue) :
        /\ reply' = [by |-> turn'.speaker, calls |-> calls, text |-> text]
        /\ pc' = Stage(calls, done)

Speak ==
    /\ pc = "speak"
    /\ UNCHANGED turn
    /\ Reply(exposed_tools, "speak")
    /\ SentTo(turn.speaker, turn.dialogue)
    /\ UNCHANGED <<asked, pending, chat, memory, shown, requests>>

\* A memory search returns what the space keeps, or nothing.  A task or question
\* takes the transcript of the dialogue to the peer's own model as it stands,
\* without the guard.  A call past its limit or with bad arguments says nothing.
execute_proxy_call ==
    {[result |-> r, found |-> r.raw, toPeer |-> {}] :
        r \in Mentions(Join(memory.exchanges, memory.notes))}
    \cup {[result |-> r, found |-> {}, toPeer |-> turn.dialogue.raw] :
             r \in Mentions(turn.dialogue)}

\* Results add up, so that two calls stand for any number of them.
ProxyTools ==
    /\ pc = "proxy"
    /\ \E x, y \in execute_proxy_call :
          turn' = [turn EXCEPT
                     !.dialogue = Join(@, Join(x.result, y.result)),
                     !.found = @ \cup x.found \cup y.found,
                     !.aside = IF turn.secure /\ turn.speaker = "B"
                               THEN @ \cup x.toPeer \cup y.toPeer ELSE @]
    /\ Reply(ClientTools, "proxy")
    /\ SentTo(turn.speaker, turn'.dialogue)
    /\ UNCHANGED <<asked, pending, chat, memory, shown, requests>>

\* Mutant: the consultation of the first speaker is kept.
HandedOverKeepingNote == [turn EXCEPT !.speaker = Other(@), !.peer = turn.speaker,
                                      !.dialogue = ViewOf(Other(turn.speaker), @),
                                      !.consulted = FALSE]

\* The peer takes the user-facing turn; speaker and verifier change places.
HandedOver == [turn EXCEPT !.speaker = Other(@), !.peer = turn.speaker,
                           !.dialogue = ViewOf(Other(turn.speaker), @),
                           !.consulted = FALSE, !.note = "none", !.consultee = "none"]

Handoff ==
    /\ pc = "handoff"
    /\ turn' = HandedOver
    /\ Reply(ClientTools, "handoff")
    /\ SentTo(turn'.speaker, turn'.dialogue)
    /\ UNCHANGED <<asked, pending, chat, memory, shown, requests>>

\* A consultation by tool call; whichever of the two lobes is A is sent its part.
Advise ==
    /\ pc = "advice"
    /\ turn' \in Advised(turn.peer)
    /\ Reply(ClientTools, "advice")
    /\ SentTo("A", IF turn.speaker = "A" THEN turn'.dialogue ELSE ViewOf("A", turn.dialogue))
    /\ UNCHANGED <<asked, pending, chat, memory, shown, requests>>

-----------------------------------------------------------------------------
(***************************************************************************)
(* The end of a request.  The endpoint answers 502 when a call of a model   *)
(* raises, except the calls of _consult, of the verification and for notes, *)
(* or when a reply has neither tool calls nor text.                         *)
(***************************************************************************)
client_calls == reply.calls \ {"consult"}

EndTurn ==
    /\ pc' = "idle"
    /\ turn' = NoTurn
    /\ reply' = NoReply
    /\ sentA' = {}
    /\ asked' = IF pending' = "none" THEN Nothing ELSE asked
    /\ UNCHANGED requests

Raise ==
    /\ \/ pc \in {"gate", "speak", "proxy", "handoff", "advice"}
       \/ pc = "answer" /\ client_calls = {} /\ reply.text = NoText
    /\ shown' = [NoAnswer EXCEPT !.kind = "error"]
    /\ pending' = "none"
    /\ EndTurn
    /\ UNCHANGED <<chat, memory>>

\* The endpoint records the request and the response after it answered, which
\* may fail: in the secure variant A's view of the request and the sanitized
\* response, both with every token redacted.
Redacted(t) == [t EXCEPT !.tok = {}, !.stale = {}]

Recorded(said) ==
    IF turn.secure THEN Redacted(Join(turn.safe, Sanitize(said, turn.known)))
                   ELSE Join(Join(chat.user, chat.rest), said)

Record(said) ==
    memory' \in {memory, [memory EXCEPT !.exchanges = Join(@, Recorded(said))]}

\* Arguments are restored at the tool boundary; the calls carry their owner's tag.
Arguments == IF turn.secure /\ turn.speaker = "A" THEN Rehydrate(reply.text) ELSE reply.text

ReturnToolCalls ==
    /\ pc = "answer"
    /\ client_calls # {}
    /\ shown' = [NoAnswer EXCEPT !.kind = "tools", !.by = reply.by, !.verifier = turn.peer,
                    !.calls = client_calls, !.text = Arguments, !.cont = turn.cont]
    /\ pending' = turn.speaker
    /\ Record(reply.text)
    /\ EndTurn
    /\ UNCHANGED chat

(***************************************************************************)
(* Verification by the other lobe.  It is sent the whole exchange, for A    *)
(* sanitized; what it says is data (a failure counts as YELLOW).  Then B    *)
(* may take notes from the sanitized transcript, the answer is restored and *)
(* the key destroyed.                                                       *)
(***************************************************************************)
Exchange == Join(Join(turn.dialogue, reply.text), chat.user)

Verify ==
    /\ pc = "answer"
    /\ client_calls = {}
    /\ SentTo(turn.peer, GuardedFor(turn.peer, Exchange))
    /\ shown' = [NoAnswer EXCEPT !.kind = "pending", !.by = reply.by, !.verifier = turn.peer,
                    !.cont = turn.cont,
                    !.note = turn.note, !.consultee = turn.consultee]
    /\ pc' = IF Notes THEN "notes" ELSE "deliver"
    /\ UNCHANGED <<asked, pending, turn, reply, chat, memory, requests>>

\* Notes quote the transcript; a token they quote outlives its key.
Noted(t) == [raw |-> t.raw, tok |-> {}, stale |-> t.stale \cup t.tok]

\* Mutant: notes are taken from the dialogue as it stands.
TranscriptAsIs == Join(turn.dialogue, reply.text)

Transcript == LET t == Join(turn.dialogue, reply.text)
              IN  IF turn.secure THEN Sanitize(t, turn.known) ELSE t

_capture_notes ==
    /\ pc = "notes"
    /\ \E quoted \in Mentions(Transcript) :
          memory' = [memory EXCEPT !.notes = Join(@, Noted(quoted))]
    /\ pc' = "deliver"
    /\ UNCHANGED <<asked, pending, turn, reply, chat, sentA, shown, requests>>

\* Mutant: only what A wrote is restored.
AnswerOfA == IF turn.secure /\ turn.speaker = "A" THEN Rehydrate(reply.text) ELSE reply.text

Answer == IF turn.secure THEN Rehydrate(reply.text) ELSE reply.text

Deliver ==
    /\ pc = "deliver"
    /\ shown' = [shown EXCEPT !.kind = "answer", !.text = Answer]
    /\ chat' = [chat EXCEPT !.rest = Join(@, Answer)]
    /\ pending' = "none"
    /\ Record(reply.text)
    /\ EndTurn

Next ==
    \/ \E m \in UserMessages, vs \in {{}, Values}, earlier \in {chat, NoChat} :
          Ask(m, vs, earlier)
    \/ \E vs \in {{}, Values} : ToolResults(vs)
    \/ Gate
    \/ \E auto \in BOOLEAN : Start(auto)
    \/ ConsultPeer
    \/ Speak
    \/ ProxyTools
    \/ Handoff
    \/ Advise
    \/ Raise
    \/ ReturnToolCalls
    \/ Verify
    \/ _capture_notes
    \/ Deliver

Spec == Init /\ [][Next]_vars

-----------------------------------------------------------------------------
(* Every variable has its type, the speaker and its peer are the two lobes, *)
(* and a continuation has the calls it continues.                           *)
TypeOK ==
    /\ pc \in {"idle", "gate", "start", "consult", "speak", "proxy", "handoff",
               "advice", "answer", "notes", "deliver"}
    /\ asked \in UserMessages
    /\ pending \in Lobes \cup {"none"}
    /\ turn \in [secure : BOOLEAN, speaker : Lobes, peer : Lobes, cont : BOOLEAN,
                 consulted : BOOLEAN, note : Lobes \cup {"none"},
                 consultee : Lobes \cup {"none"}, dialogue : Text, safe : Text,
                 known : SUBSET Values, found : SUBSET Values, aside : SUBSET Values,
                 routed : BOOLEAN]
    /\ reply \in [by : Lobes, calls : SUBSET Calls, text : Text]
    /\ chat \in [user : Text, rest : Text]
    /\ memory \in [exchanges : Text, notes : Text]
    /\ sentA \subseteq Values
    /\ shown \in [kind : {"none", "error", "tools", "pending", "answer"}, by : Lobes,
                  verifier : Lobes, calls : SUBSET Calls, text : Text,
                  cont : BOOLEAN,
                  note : Lobes \cup {"none"}, consultee : Lobes \cup {"none"}]
    /\ requests \in 0 .. MaxRequests
    /\ turn.peer = Other(turn.speaker)
    /\ turn.cont => pending # "none"

(* In the secure variant the calls that pass the guard send lobe A no value *)
(* it masks in clear, whoever speaks, consults, hands over or verifies.     *)
(* Left out is what the proxy's own tools bring past the guard: the text a  *)
(* memory search finds (found), and the transcript a question of B's takes  *)
(* to A (aside), which PrivateStaysLocal counts.                            *)
GuardedCallsClean ==
    turn.secure => sentA \cap Masked(turn.known) \subseteq turn.found

(* What the contract of the secure variant promises: lobe A receives only   *)
(* sanitized text, and any message to it is sanitized.  The code breaks it: *)
(* when B speaks and uses proxy_consult or proxy_delegate, lobe A is sent   *)
(* the dialogue as B sees it.                                               *)
PrivateStaysLocal ==
    turn.secure => (sentA \cup turn.aside) \cap Masked(turn.known) = {}

(* A secure turn adds no value the guard masks in clear to shared memory,   *)
(* be it through the recorded exchange or through B's notes, and no         *)
(* exchange it records quotes a token whose key is gone.                    *)
KeptClean ==
    [][turn.secure =>
         /\ ((memory'.exchanges.raw \ memory.exchanges.raw)
               \cup (memory'.notes.raw \ memory.notes.raw)) \cap Masked(turn.known) = {}
         /\ memory'.exchanges.tok = {}
         /\ memory'.exchanges.stale = memory.exchanges.stale]_vars

(* The user is shown no token of the request: an answer is restored after   *)
(* handoffs and consultations in either direction, and so are the arguments *)
(* of lobe A's tool calls.                                                  *)
AnswersRestored ==
    shown.kind = "answer" \/ (shown.kind = "tools" /\ shown.by = "A") => shown.text.tok = {}

(* An answer is never rated by its author, also after a handoff, and the    *)
(* consultation it reports names the lobe that was really asked.            *)
CrossChecked ==
    shown.kind \in {"pending", "answer"} =>
        /\ shown.verifier # shown.by
        /\ shown.note = shown.consultee
        /\ shown.consultee # shown.by

(* Tool results go back to the lobe that asked for them, unless the user's  *)
(* message itself gives the turn to a lobe: a continuation is not handed    *)
(* over by the model.                                                       *)
ResumedByOwner ==
    [][turn.cont /\ asked.handoff = "none" /\ shown' # shown
         => shown'.kind = "error" \/ shown'.by = pending]_vars
=============================================================================

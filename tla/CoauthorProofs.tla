---------------------------- MODULE CoauthorProofs ----------------------------
(***************************************************************************)
(* Proofs, for any values, patterns, stray calls and number of requests, of *)
(* the properties of a bidirectional conversation.                          *)
(***************************************************************************)
EXTENDS Coauthor, TLAPS

TurnType == [secure : BOOLEAN, speaker : Lobes, peer : Lobes, cont : BOOLEAN,
             consulted : BOOLEAN, note : Lobes \cup {"none"},
             consultee : Lobes \cup {"none"}, dialogue : Text, safe : Text,
             known : SUBSET Values, found : SUBSET Values, aside : SUBSET Values,
             routed : BOOLEAN]

Private == Masked(turn.known)

Replied == {"proxy", "handoff", "advice", "answer"}

-----------------------------------------------------------------------------
(* The guard and the vault on texts: what they return is a text again, a    *)
(* sanitized one mentions no value the vault knows or the patterns           *)
(* recognise, and a restored one has no token left.                         *)
LEMMA Texts ==
    /\ NoText \in Text
    /\ \A t, u \in Text : Join(t, u) \in Text
    /\ \A vs \in SUBSET Values : Says(vs) \in Text
    /\ \A t \in Text, known \in SUBSET Values :
          Sanitize(t, known) \in Text /\ Sanitize(t, known).raw \cap Masked(known) = {}
    /\ \A t \in Text : Rehydrate(t) \in Text /\ Rehydrate(t).tok = {}
    /\ \A t \in Text : Redacted(t) \in Text /\ Noted(t) \in Text
  BY CoauthorAssumption
     DEF Text, NoText, Join, Says, Sanitize, Masked, Rehydrate, Redacted, Noted

(* A lobe's view and a guarded text are texts; what A is given of them has  *)
(* no recognised value; outside the secure variant they are the text.       *)
LEMMA Views ==
    ASSUME turn \in TurnType, NEW t \in Text, NEW l \in Lobes
    PROVE  /\ ViewOf(l, t) \in Text
           /\ GuardedFor(l, t) \in Text
           /\ turn.secure /\ l = "A" => /\ ViewOf(l, t).raw \cap Private = {}
                                        /\ GuardedFor(l, t).raw \cap Private = {}
           /\ ~turn.secure => ViewOf(l, t) = t /\ GuardedFor(l, t) = t
  <1>1. turn.known \in SUBSET Values /\ turn.secure \in BOOLEAN
    BY DEF TurnType
  <1> QED
    BY <1>1, Texts DEF ViewOf, GuardedFor, Private

(* A model's reply is the speaker's, of what the speaker was sent, and a    *)
(* continuation is routed neither to the proxy's tools nor to the peer.     *)
LEMMA Replies ==
    ASSUME NEW offered \in SUBSET Calls, NEW done, Reply(offered, done)
    PROVE  /\ \E calls \in SUBSET Calls, text \in Mentions(turn'.dialogue) :
                 reply' = [by |-> turn'.speaker, calls |-> calls, text |-> text]
           /\ pc' \in Replied
           /\ pc' \in {"proxy", "handoff"} => ~turn.cont
  <1>1. StrayCalls \subseteq Calls
    BY CoauthorAssumption DEF Calls
  <1> QED
    BY <1>1 DEF Reply, Stage, Replied

(* A consultation changes nothing of the turn but the dialogue, which the   *)
(* advice joins, and what is noted of it.                                   *)
LEMMA Consultations ==
    ASSUME turn \in TurnType, NEW named, turn' \in Advised(named)
    PROVE  \E advice \in Mentions(ViewOf(Other(turn.speaker), turn.dialogue)) :
              turn' = [turn EXCEPT
                         !.dialogue = Join(turn.dialogue, GuardedFor(turn.speaker, advice)),
                         !.consulted = TRUE, !.note = named, !.consultee = Other(turn.speaker)]
  BY DEF Advised, TurnType

-----------------------------------------------------------------------------
(* The conversation starts without a request.                               *)
LEMMA InitTypeOK == Init => TypeOK
  BY Texts, CoauthorAssumption
     DEF Init, TypeOK, Nothing, NoTurn, NoReply, NoChat, NoMemory, NoAnswer, UserMessages,
         Lobes, Other

(* What ends a request leaves neither a turn nor a reply.                   *)
LEMMA Ended ==
    ASSUME TypeOK, EndTurn, pending' \in Lobes \cup {"none"}
    PROVE  /\ pc' = "idle" /\ turn' = NoTurn /\ reply' = NoReply /\ sentA' = {}
           /\ asked' \in UserMessages /\ requests' \in 0 .. MaxRequests
  BY DEF EndTurn, TypeOK, Nothing, UserMessages, Lobes

(* The empty turn, reply and answer have their types.                       *)
LEMMA Defaults ==
    /\ NoTurn \in TurnType /\ NoTurn.peer = Other(NoTurn.speaker) /\ ~NoTurn.cont
    /\ NoReply \in [by : Lobes, calls : SUBSET Calls, text : Text]
    /\ NoAnswer \in [kind : {"none", "error", "tools", "pending", "answer"}, by : Lobes,
                     verifier : Lobes, calls : SUBSET Calls, text : Text,
                     cont : BOOLEAN,
                     note : Lobes \cup {"none"}, consultee : Lobes \cup {"none"}]
  BY Texts DEF NoTurn, NoReply, NoAnswer, TurnType, Lobes, Other

(* Every step keeps the types, and two lobes opposite each other.           *)
LEMMA TypeStep ==
    ASSUME TypeOK, [Next]_vars
    PROVE  TypeOK'
  <1> DEFINE Kinds == [kind : {"none", "error", "tools", "pending", "answer"}, by : Lobes,
                       verifier : Lobes, calls : SUBSET Calls, text : Text, cont : BOOLEAN,
                       note : Lobes \cup {"none"}, consultee : Lobes \cup {"none"}]
             ReplyType == [by : Lobes, calls : SUBSET Calls, text : Text]
  <1>0. /\ turn \in TurnType /\ turn.peer = Other(turn.speaker) /\ turn.dialogue \in Text
        /\ turn.safe \in Text /\ turn.speaker \in Lobes /\ turn.peer \in Lobes
        /\ turn.known \in SUBSET Values /\ turn.found \in SUBSET Values
        /\ turn.aside \in SUBSET Values
        /\ chat.user \in Text /\ chat.rest \in Text
        /\ memory.exchanges \in Text /\ memory.notes \in Text
        /\ reply.text \in Text /\ reply.by \in Lobes /\ reply.calls \in SUBSET Calls
    BY DEF TypeOK, TurnType
  <1>1. ASSUME NEW secure \in BOOLEAN, NEW cont \in BOOLEAN, Begin(secure, cont)
        PROVE  /\ pc' \in {"gate", "start"} /\ turn' \in TurnType
               /\ turn'.peer = Other(turn'.speaker) /\ turn'.cont = cont
               /\ shown' \in Kinds /\ requests' \in 0 .. MaxRequests
               /\ UNCHANGED <<reply, memory, sentA>>
    <2>1. turn' \in TurnType /\ turn'.peer = Other(turn'.speaker) /\ turn'.cont = cont
      BY <1>1, Defaults DEF Begin, NoTurn, TurnType, Other
    <2> QED
      BY <1>1, <2>1, Defaults, CoauthorAssumption DEF Begin, TypeOK
  <1>2. ASSUME NEW m \in UserMessages, NEW vs \in {{}, Values},
               NEW earlier \in {chat, NoChat}, Ask(m, vs, earlier)
        PROVE  TypeOK'
    <2>1. chat' \in [user : Text, rest : Text]
      BY <1>2, Texts DEF Ask, NoChat, TypeOK
    <2>2. m.secure \in BOOLEAN
      BY DEF UserMessages
    <2> QED
      BY <1>1, <1>2, <2>1, <2>2 DEF Ask, TypeOK, TurnType
  <1>3. ASSUME NEW vs \in {{}, Values}, ToolResults(vs) PROVE TypeOK'
    <2>1. chat' \in [user : Text, rest : Text]
      BY <1>3, Texts DEF ToolResults, TypeOK
    <2>2. asked.secure \in BOOLEAN
      BY DEF UserMessages, TypeOK
    <2> QED
      BY <1>1, <1>3, <2>1, <2>2 DEF ToolResults, TypeOK, TurnType
  <1>4. inject_shared_memory \in Text
    BY <1>0, Texts DEF inject_shared_memory
  <1>5. CASE Gate
    <2>1. ASSUME NEW named \in SUBSET Values, NEW valid \in BOOLEAN, _secure_gate(named, valid)
          PROVE  TypeOK'
      <3>1. Join(Sanitize(chat.rest, named),
                 IF valid THEN Sanitize(inject_shared_memory, named) ELSE NoText) \in Text
        BY <1>0, <1>4, Texts
      <3> QED
        BY <2>1, <3>1 DEF _secure_gate, TypeOK
    <2>2. inject_shared_memory.raw \cup chat.rest.raw \subseteq Values
      BY <1>0, <1>4 DEF Text
    <2> QED
      BY <1>5, <2>1, <2>2 DEF Gate
  <1>6. ASSUME NEW auto \in BOOLEAN, Start(auto) PROVE TypeOK'
    <2>1. Join(inject_shared_memory, chat.rest) \in Text
      BY <1>0, <1>4, Texts
    <2>2. Speaker \in Lobes
      BY DEF Speaker, select_speaker, requested, TypeOK, UserMessages, Lobes
    <2>3. Other(Speaker) \in Lobes
      BY DEF Other, Lobes
    <2>4. turn' \in TurnType /\ turn'.peer = Other(turn'.speaker) /\ turn'.cont = turn.cont
      BY <1>0, <1>6, <2>1, <2>2, <2>3 DEF Start, TurnType
    <2> QED
      BY <1>6, <2>4 DEF Start, TypeOK, TurnType
  <1>7. ASSUME NEW named \in Lobes \cup {"none"}, turn' \in Advised(named)
        PROVE  turn' \in TurnType /\ turn'.peer = Other(turn'.speaker) /\ turn'.cont = turn.cont
    <2>1. Other(turn.speaker) \in Lobes
      BY DEF Other, Lobes
    <2>2. PICK advice \in Mentions(ViewOf(Other(turn.speaker), turn.dialogue)) :
              turn' = [turn EXCEPT
                         !.dialogue = Join(turn.dialogue, GuardedFor(turn.speaker, advice)),
                         !.consulted = TRUE, !.note = named, !.consultee = Other(turn.speaker)]
      BY <1>0, <1>7, Consultations
    <2>3. advice \in Text
      <3>1. ViewOf(Other(turn.speaker), turn.dialogue) \in Text
        BY <1>0, <2>1, Views
      <3> QED
        BY <3>1, Texts DEF Mentions
    <2>4. Join(turn.dialogue, GuardedFor(turn.speaker, advice)) \in Text
      BY <1>0, <2>3, Views, Texts
    <2> QED
      BY <1>0, <2>1, <2>2, <2>4 DEF TurnType
  <1>8. ASSUME NEW l \in Lobes, NEW t \in Text, SentTo(l, t) PROVE sentA' \subseteq Values
    BY <1>8 DEF SentTo, TypeOK, Text
  <1>9. ASSUME NEW offered \in SUBSET Calls, NEW done, Reply(offered, done), turn' \in TurnType
        PROVE  reply' \in ReplyType /\ pc' \in Replied
    <2>1. Mentions(turn'.dialogue) \subseteq Text /\ turn'.speaker \in Lobes
      BY <1>9, Texts DEF Mentions, TurnType
    <2> QED
      BY <1>9, <2>1, Replies
  <1>10. ClientTools \in SUBSET Calls /\ exposed_tools \in SUBSET Calls
    BY DEF ClientTools, exposed_tools, Calls
  <1>11. explicit_peer \in Lobes \cup {"none"} /\ Other(turn.speaker) \in Lobes
    BY DEF explicit_peer, requested, TypeOK, UserMessages, Other, Lobes
  <1>12. ViewOf(Other(turn.speaker), turn.dialogue) \in Text /\ ViewOf("A", turn.dialogue) \in Text
    BY <1>0, <1>11, Views DEF Lobes
  <1>13. CASE ConsultPeer
    BY <1>7, <1>8, <1>11, <1>12, <1>13 DEF ConsultPeer, TypeOK, TurnType
  <1>14. CASE Speak
    <2>1. turn' \in TurnType /\ SentTo(turn.speaker, turn.dialogue)
      BY <1>0, <1>14 DEF Speak
    <2> QED
      BY <1>0, <1>8, <1>9, <1>10, <1>14, <2>1 DEF Speak, TypeOK, TurnType, Replied
  <1>15. CASE ProxyTools
    <2> DEFINE toA(x, y) == IF turn.secure /\ turn.speaker = "B"
                            THEN turn.aside \cup x.toPeer \cup y.toPeer ELSE turn.aside
    <2>1. PICK x \in execute_proxy_call, y \in execute_proxy_call :
              turn' = [turn EXCEPT
                         !.dialogue = Join(turn.dialogue, Join(x.result, y.result)),
                         !.found = turn.found \cup x.found \cup y.found,
                         !.aside = toA(x, y)]
      BY <1>0, <1>15 DEF ProxyTools, TurnType
    <2>2. /\ x.result \in Text /\ x.found \in SUBSET Values /\ x.toPeer \in SUBSET Values
          /\ y.result \in Text /\ y.found \in SUBSET Values /\ y.toPeer \in SUBSET Values
      <3>1. Join(memory.exchanges, memory.notes) \in Text
        BY <1>0, Texts
      <3> QED
        BY <1>0, <3>1, Texts DEF execute_proxy_call, Mentions, Text
    <2>3. /\ Join(turn.dialogue, Join(x.result, y.result)) \in Text
          /\ turn.found \cup x.found \cup y.found \in SUBSET Values
          /\ toA(x, y) \in SUBSET Values
      BY <1>0, <2>2, Texts
    <2> HIDE DEF toA
    <2>4. /\ turn' \in TurnType /\ turn'.peer = Other(turn'.speaker) /\ turn'.cont = turn.cont
          /\ turn'.dialogue \in Text
      BY <1>0, <2>1, <2>3 DEF TurnType
    <2> QED
      BY <1>0, <1>8, <1>9, <1>10, <1>15, <2>4 DEF ProxyTools, TypeOK, TurnType, Replied
  <1>16. CASE Handoff
    <2>1. ViewOf(Other(turn.speaker), turn.dialogue) \in Text
      BY <1>12
    <2>2. /\ turn' \in TurnType /\ turn'.peer = Other(turn'.speaker) /\ turn'.cont = turn.cont
          /\ turn'.dialogue \in Text /\ turn'.speaker \in Lobes
      BY <1>0, <1>11, <1>16, <2>1 DEF Handoff, HandedOver, TurnType, Other, Lobes
    <2> QED
      BY <1>0, <1>8, <1>9, <1>10, <1>16, <2>2 DEF Handoff, TypeOK, TurnType, Replied
  <1>17. CASE Advise
    <2>1. /\ turn' \in TurnType /\ turn'.peer = Other(turn'.speaker) /\ turn'.cont = turn.cont
          /\ turn'.dialogue \in Text
      BY <1>0, <1>7, <1>17 DEF Advise, TurnType
    <2>2. (IF turn.speaker = "A" THEN turn'.dialogue ELSE ViewOf("A", turn.dialogue)) \in Text
      BY <1>12, <2>1
    <2>3. sentA' \subseteq Values
      BY <1>8, <1>17, <2>2 DEF Advise, Lobes
    <2> QED
      BY <1>0, <1>9, <1>10, <1>17, <2>1, <2>3 DEF Advise, TypeOK, TurnType, Replied
  <1>18. CASE Raise
    BY <1>18, Ended, Defaults DEF Raise, TypeOK, TurnType
  <1>19. ASSUME NEW said \in Text, Record(said)
         PROVE  memory' \in [exchanges : Text, notes : Text]
    <2>1. Recorded(said) \in Text
      BY <1>0, Texts DEF Recorded
    <2>2. Join(memory.exchanges, Recorded(said)) \in Text
      BY <1>0, <2>1, Texts
    <2> QED
      BY <1>0, <1>19, <2>2 DEF Record, TypeOK
  <1>20. CASE ReturnToolCalls
    <2>1. shown' = [NoAnswer EXCEPT !.kind = "tools", !.by = reply.by, !.verifier = turn.peer,
                       !.calls = client_calls, !.text = Arguments, !.cont = turn.cont]
      BY <1>20 DEF ReturnToolCalls
    <2>2. Arguments \in Text /\ client_calls \in SUBSET Calls /\ turn.cont \in BOOLEAN
      BY <1>0, Texts DEF Arguments, client_calls, TurnType
    <2>3. shown' \in Kinds
      BY <1>0, <2>1, <2>2, Defaults DEF Lobes
    <2>4. memory' \in [exchanges : Text, notes : Text]
      BY <1>0, <1>19, <1>20 DEF ReturnToolCalls
    <2> QED
      BY <1>0, <1>20, <2>3, <2>4, Ended, Defaults DEF ReturnToolCalls, TypeOK, TurnType
  <1>21. CASE Verify
    <2>1. Exchange \in Text
      BY <1>0, Texts DEF Exchange
    <2>2. sentA' \subseteq Values
      BY <1>0, <1>8, <1>21, <2>1, Views DEF Verify
    <2>3. shown' = [NoAnswer EXCEPT !.kind = "pending", !.by = reply.by, !.verifier = turn.peer,
                       !.cont = turn.cont, !.note = turn.note, !.consultee = turn.consultee]
      BY <1>21 DEF Verify
    <2>4. turn.cont \in BOOLEAN /\ turn.note \in Lobes \cup {"none"}
          /\ turn.consultee \in Lobes \cup {"none"}
      BY <1>0 DEF TurnType
    <2>5. shown' \in Kinds
      BY <1>0, <2>3, <2>4, Defaults DEF Lobes
    <2> QED
      BY <1>21, <2>2, <2>5 DEF Verify, TypeOK
  <1>22. CASE _capture_notes
    <2>1. PICK quoted \in Mentions(Transcript) :
              memory' = [memory EXCEPT !.notes = Join(memory.notes, Noted(quoted))]
      BY <1>22 DEF _capture_notes, TypeOK
    <2>2. Transcript \in Text
      BY <1>0, Texts DEF Transcript
    <2>3. Join(memory.notes, Noted(quoted)) \in Text
      BY <1>0, <2>2, Texts DEF Mentions
    <2>4. memory' \in [exchanges : Text, notes : Text]
      BY <2>1, <2>3 DEF TypeOK
    <2> QED
      BY <1>22, <2>4 DEF _capture_notes, TypeOK
  <1>23. CASE Deliver
    <2>1. Answer \in Text
      BY <1>0, Texts DEF Answer
    <2>2. shown' \in Kinds
      BY <1>23, <2>1 DEF Deliver, TypeOK
    <2>3. Join(chat.rest, Answer) \in Text
      BY <1>0, <2>1, Texts
    <2>4. chat' \in [user : Text, rest : Text]
      BY <1>23, <2>3 DEF Deliver, TypeOK
    <2>5. memory' \in [exchanges : Text, notes : Text]
      BY <1>0, <1>19, <1>23 DEF Deliver
    <2> QED
      BY <1>23, <2>2, <2>4, <2>5, Ended, Defaults DEF Deliver, TypeOK, TurnType
  <1>24. CASE UNCHANGED vars
    BY <1>24 DEF vars, TypeOK
  <1> QED
    BY <1>2, <1>3, <1>5, <1>6, <1>13, <1>14, <1>15, <1>16, <1>17, <1>18, <1>20, <1>21, <1>22,
       <1>23, <1>24 DEF Next

(* A conversation is always well formed.                                    *)
THEOREM TypesSound == Spec => []TypeOK
  BY InitTypeOK, TypeStep, PTL DEF Spec

-----------------------------------------------------------------------------
(* Before lobe A is called in a request nothing has been sent to it: the    *)
(* locals of _run are as they were made, until the gate fills the vault.    *)
Unsent ==
    /\ pc \in {"idle", "gate", "start"} => sentA = {} /\ turn.dialogue = NoText
    /\ pc = "gate" => turn.safe = NoText
    /\ pc = "idle" => turn = NoTurn

(* In the secure variant, what A was sent and, while A speaks, what it is   *)
(* sent next, mention no recognised value that a memory search did not      *)
(* bring; while B speaks the dialogue may, so that every step that gives A  *)
(* a text or the turn has to sanitize it.                                   *)
PrivateKept ==
    turn.secure =>
        /\ turn.safe.raw \cap Private = {}
        /\ turn.speaker = "A" => turn.dialogue.raw \cap Private \subseteq turn.found
        /\ sentA \cap Private \subseteq turn.found

PrivateInv == Unsent /\ PrivateKept

(* No request, nothing sent.                                                *)
LEMMA InitPrivate == Init => PrivateInv
  BY DEF Init, PrivateInv, Unsent, PrivateKept, NoTurn

(* What the turn keeps of its vault while the lobes are called.             *)
SameVault == turn'.secure = turn.secure /\ turn'.known = turn.known /\ turn'.safe = turn.safe

(* While the lobes are called it is enough to show of a step that it keeps  *)
(* the vault and that A's dialogue and what A is sent stay clean.           *)
LEMMA PrivateWhileCalling ==
    ASSUME PrivateInv, SameVault, turn.found \subseteq turn'.found,
           pc' \notin {"idle", "gate", "start"},
           turn.secure => /\ turn'.speaker = "A" => turn'.dialogue.raw \cap Private \subseteq turn'.found
                          /\ sentA' \cap Private \subseteq turn'.found
    PROVE  PrivateInv'
  BY DEF PrivateInv, Unsent, PrivateKept, SameVault, Private

(* Nothing the guard recognises reaches A, whichever step gives A a text.   *)
LEMMA PrivateStep ==
    ASSUME TypeOK, PrivateInv, [Next]_vars
    PROVE  PrivateInv'
  <1>0. /\ turn \in TurnType /\ turn.peer = Other(turn.speaker) /\ turn.dialogue \in Text
        /\ turn.safe \in Text /\ turn.speaker \in Lobes /\ turn.peer \in Lobes
        /\ turn.secure \in BOOLEAN /\ turn.known \in SUBSET Values
        /\ chat.user \in Text /\ chat.rest \in Text
        /\ memory.exchanges \in Text /\ memory.notes \in Text /\ reply.text \in Text
    BY DEF TypeOK, TurnType
  <1>1. inject_shared_memory \in Text
    BY <1>0, Texts DEF inject_shared_memory
  <1>2. ClientTools \in SUBSET Calls /\ exposed_tools \in SUBSET Calls
    BY DEF ClientTools, exposed_tools, Calls
  <1>3. Other(turn.speaker) \in Lobes /\ (turn.speaker # "A" => Other(turn.speaker) = "A")
    BY DEF Other, Lobes
  <1>4. ASSUME NEW secure \in BOOLEAN, NEW cont \in BOOLEAN, Begin(secure, cont)
        PROVE  PrivateInv'
    BY <1>4 DEF Begin, PrivateInv, Unsent, PrivateKept, NoTurn, NoText
  <1>5. ASSUME NEW m \in UserMessages, NEW vs, NEW earlier, Ask(m, vs, earlier)
        PROVE  PrivateInv'
    BY <1>4, <1>5 DEF Ask, UserMessages
  <1>6. ASSUME NEW vs, ToolResults(vs) PROVE PrivateInv'
    BY <1>4, <1>6 DEF ToolResults, UserMessages, TypeOK
  <1>7. CASE Gate
    <2>1. ASSUME NEW named \in SUBSET Values, NEW valid \in BOOLEAN, _secure_gate(named, valid)
          PROVE  PrivateInv'
      <3> DEFINE safe == Join(Sanitize(chat.rest, named),
                              IF valid THEN Sanitize(inject_shared_memory, named) ELSE NoText)
      <3>1. safe.raw \cap Masked(named) = {}
        <4>1. Sanitize(chat.rest, named).raw \cap Masked(named) = {}
              /\ Sanitize(inject_shared_memory, named).raw \cap Masked(named) = {}
          BY <1>0, <1>1, Texts
        <4> QED
          BY <4>1 DEF Join, NoText
      <3>2. turn' = [turn EXCEPT !.known = named, !.safe = safe] /\ pc' = "start" /\ UNCHANGED sentA
        BY <2>1 DEF _secure_gate
      <3>3. /\ turn'.known = named /\ turn'.safe = safe /\ turn'.dialogue = turn.dialogue
            /\ sentA = {} /\ turn.dialogue = NoText
        BY <1>0, <2>1, <3>2 DEF TurnType, PrivateInv, Unsent, _secure_gate
      <3> HIDE DEF safe
      <3> QED
        BY <3>1, <3>2, <3>3 DEF PrivateInv, Unsent, PrivateKept, Private, NoText
    <2>2. inject_shared_memory.raw \cup chat.rest.raw \subseteq Values
      BY <1>0, <1>1 DEF Text
    <2> QED
      BY <1>7, <2>1, <2>2 DEF Gate
  <1>8. ASSUME NEW auto \in BOOLEAN, Start(auto) PROVE PrivateInv'
    <2>1. /\ turn' = [turn EXCEPT !.speaker = Speaker, !.peer = Other(Speaker),
                         !.dialogue = IF turn.secure /\ Speaker = "A" THEN turn.safe
                                      ELSE Join(inject_shared_memory, chat.rest),
                         !.routed = explicit_peer = "none" /\ ~turn.cont /\ auto]
          /\ pc' \in {"speak", "consult"} /\ sentA' = {}
      BY <1>8 DEF Start, PrivateInv, Unsent
    <2>2. /\ SameVault /\ turn'.found = turn.found /\ turn'.speaker = Speaker
          /\ turn.secure /\ Speaker = "A" => turn'.dialogue = turn.safe
      BY <1>0, <2>1 DEF TurnType, SameVault
    <2> QED
      BY <2>1, <2>2, PrivateWhileCalling DEF PrivateInv, PrivateKept
  <1>9. ASSUME NEW named, turn' \in Advised(named)
        PROVE  /\ SameVault /\ turn'.found = turn.found /\ turn'.speaker = turn.speaker
               /\ turn.secure /\ turn.speaker = "A"
                      => turn'.dialogue.raw \cap Private \subseteq turn.found
    <2>1. PICK advice \in Mentions(ViewOf(Other(turn.speaker), turn.dialogue)) :
              turn' = [turn EXCEPT
                         !.dialogue = Join(turn.dialogue, GuardedFor(turn.speaker, advice)),
                         !.consulted = TRUE, !.note = named, !.consultee = Other(turn.speaker)]
      BY <1>0, <1>9, Consultations
    <2>2. advice \in Text
      <3>1. ViewOf(Other(turn.speaker), turn.dialogue) \in Text
        BY <1>0, <1>3, Views
      <3> QED
        BY <3>1, Texts DEF Mentions
    <2>3. /\ SameVault /\ turn'.found = turn.found /\ turn'.speaker = turn.speaker
          /\ turn'.dialogue = Join(turn.dialogue, GuardedFor(turn.speaker, advice))
      BY <1>0, <2>1 DEF TurnType, SameVault
    <2>4. turn.secure /\ turn.speaker = "A"
              => GuardedFor(turn.speaker, advice).raw \cap Private = {}
      BY <1>0, <2>2, Views
    <2> QED
      BY <2>3, <2>4 DEF Join, PrivateInv, PrivateKept
  <1>10. turn.secure => ViewOf("A", turn.dialogue).raw \cap Private = {}
    BY <1>0, Views DEF Lobes
  <1>11. ASSUME NEW offered \in SUBSET Calls, NEW done, Reply(offered, done)
         PROVE  pc' \notin {"idle", "gate", "start"}
    BY <1>11, Replies DEF Replied
  <1>12. CASE ConsultPeer
    <2>1. SentTo(Other(turn.speaker), ViewOf(Other(turn.speaker), turn.dialogue))
          /\ pc' = "speak"
      BY <1>12 DEF ConsultPeer
    <2>2. turn.secure => sentA' \cap Private \subseteq turn.found
      BY <1>3, <1>10, <2>1 DEF SentTo, PrivateInv, PrivateKept
    <2>3. turn' \in Advised(explicit_peer)
      BY <1>12 DEF ConsultPeer
    <2>4. /\ SameVault /\ turn'.found = turn.found /\ turn'.speaker = turn.speaker
          /\ turn.secure /\ turn.speaker = "A"
                 => turn'.dialogue.raw \cap Private \subseteq turn.found
      BY <1>9, <2>3
    <2> QED
      BY <2>1, <2>2, <2>4, PrivateWhileCalling
  <1>13. CASE Speak
    <2>1. SentTo(turn.speaker, turn.dialogue) /\ UNCHANGED turn /\ Reply(exposed_tools, "speak")
      BY <1>13 DEF Speak
    <2>2. turn.secure => sentA' \cap Private \subseteq turn.found
      BY <2>1 DEF SentTo, PrivateInv, PrivateKept
    <2>3. SameVault
      BY <2>1 DEF SameVault
    <2> QED
      BY <1>2, <1>11, <2>1, <2>2, <2>3, PrivateWhileCalling DEF PrivateInv, PrivateKept
  <1>14. CASE ProxyTools
    <2> DEFINE toA(x, y) == IF turn.secure /\ turn.speaker = "B"
                            THEN turn.aside \cup x.toPeer \cup y.toPeer ELSE turn.aside
    <2>1. PICK x \in execute_proxy_call, y \in execute_proxy_call :
              turn' = [turn EXCEPT
                         !.dialogue = Join(turn.dialogue, Join(x.result, y.result)),
                         !.found = turn.found \cup x.found \cup y.found,
                         !.aside = toA(x, y)]
      BY <1>0, <1>14 DEF ProxyTools, TurnType
    <2> HIDE DEF toA
    <2>2. SentTo(turn.speaker, turn'.dialogue) /\ Reply(ClientTools, "proxy")
      BY <1>14 DEF ProxyTools
    <2>3. /\ SameVault /\ turn'.found = turn.found \cup x.found \cup y.found
          /\ turn'.speaker = turn.speaker
          /\ turn'.dialogue = Join(turn.dialogue, Join(x.result, y.result))
      BY <1>0, <2>1 DEF TurnType, SameVault
    <2>4. /\ x.result.raw \subseteq x.found \cup turn.dialogue.raw
          /\ y.result.raw \subseteq y.found \cup turn.dialogue.raw
      BY DEF execute_proxy_call, Mentions, NoText
    <2>5. turn.secure /\ turn.speaker = "A"
              => turn'.dialogue.raw \cap Private \subseteq turn'.found
      BY <2>3, <2>4 DEF Join, PrivateInv, PrivateKept
    <2>6. turn.secure => sentA' \cap Private \subseteq turn'.found
      BY <2>2, <2>3, <2>5 DEF SentTo, PrivateInv, PrivateKept
    <2> QED
      BY <1>2, <1>11, <2>2, <2>3, <2>5, <2>6, PrivateWhileCalling
  <1>15. CASE Handoff
    <2>1. /\ SentTo(turn'.speaker, turn'.dialogue) /\ Reply(ClientTools, "handoff")
          /\ turn' = HandedOver
      BY <1>15 DEF Handoff
    <2>2. /\ SameVault /\ turn'.found = turn.found /\ turn'.speaker = Other(turn.speaker)
          /\ turn'.dialogue = ViewOf(Other(turn.speaker), turn.dialogue)
      BY <1>0, <2>1 DEF HandedOver, TurnType, SameVault
    <2>3. turn.secure /\ turn'.speaker = "A" => turn'.dialogue.raw \cap Private = {}
      BY <1>10, <2>2
    <2>4. turn.secure => sentA' \cap Private \subseteq turn.found
      BY <2>1, <2>3 DEF SentTo, PrivateInv, PrivateKept
    <2> QED
      BY <1>2, <1>11, <2>1, <2>2, <2>3, <2>4, PrivateWhileCalling
  <1>16. CASE Advise
    <2>1. /\ SentTo("A", IF turn.speaker = "A" THEN turn'.dialogue ELSE ViewOf("A", turn.dialogue))
          /\ Reply(ClientTools, "advice") /\ turn' \in Advised(turn.peer)
      BY <1>16 DEF Advise
    <2>2. /\ SameVault /\ turn'.found = turn.found /\ turn'.speaker = turn.speaker
          /\ turn.secure /\ turn.speaker = "A"
                 => turn'.dialogue.raw \cap Private \subseteq turn.found
      BY <1>9, <2>1
    <2>3. turn.secure => sentA' \cap Private \subseteq turn.found
      BY <1>10, <2>1, <2>2 DEF SentTo, PrivateInv, PrivateKept
    <2> QED
      BY <1>2, <1>11, <2>1, <2>2, <2>3, PrivateWhileCalling
  <1>17. CASE Raise \/ ReturnToolCalls \/ Deliver
    <2>1. pc' = "idle" /\ turn' = NoTurn /\ sentA' = {}
      BY <1>17 DEF Raise, ReturnToolCalls, Deliver, EndTurn
    <2> QED
      BY <2>1 DEF PrivateInv, Unsent, PrivateKept, NoTurn
  <1>18. CASE Verify
    <2>1. SentTo(turn.peer, GuardedFor(turn.peer, Exchange)) /\ UNCHANGED turn
          /\ pc' \in {"notes", "deliver"}
      BY <1>18 DEF Verify
    <2>2. Exchange \in Text
      BY <1>0, Texts DEF Exchange
    <2>3. turn.secure /\ turn.peer = "A"
              => GuardedFor(turn.peer, Exchange).raw \cap Private = {}
      BY <1>0, <2>2, Views
    <2>4. turn.secure => sentA' \cap Private \subseteq turn.found
      BY <2>1, <2>3 DEF SentTo, PrivateInv, PrivateKept
    <2>5. SameVault
      BY <2>1 DEF SameVault
    <2> QED
      BY <2>1, <2>4, <2>5, PrivateWhileCalling DEF PrivateInv, PrivateKept
  <1>19. CASE _capture_notes
    BY <1>19 DEF _capture_notes, PrivateInv, Unsent, PrivateKept, Private
  <1>20. CASE UNCHANGED vars
    BY <1>20 DEF vars, PrivateInv, Unsent, PrivateKept, Private
  <1> QED
    BY <1>5, <1>6, <1>7, <1>8, <1>12, <1>13, <1>14, <1>15, <1>16, <1>17, <1>18, <1>19, <1>20
       DEF Next

(* In the secure variant no value the guard masks reaches lobe A in clear   *)
(* by a call that passes the guard.                                         *)
THEOREM PrivacySound == Spec => []GuardedCallsClean
  <1>1. PrivateInv => GuardedCallsClean
    BY DEF PrivateInv, PrivateKept, GuardedCallsClean, Private
  <1> QED
    BY InitTypeOK, TypeStep, InitPrivate, PrivateStep, <1>1, PTL DEF Spec

-----------------------------------------------------------------------------
(* The record a reader may resend or recall mentions no token of a request: *)
(* shared memory has them redacted or stale, the client was given the       *)
(* restored answer.  Outside the secure variant there are none at all.      *)
Untokened ==
    /\ memory.exchanges.tok = {} /\ memory.notes.tok = {}
    /\ chat.user.tok = {} /\ chat.rest.tok = {}
    /\ ~turn.secure => turn.dialogue.tok = {} /\ reply.text.tok = {}

Spoken == Replied \cup {"notes", "deliver"}

(* A reply is acted on in the name of the lobe that gave it, and what is    *)
(* shown while it is verified is attributed to that lobe.                   *)
ByTheSpeaker ==
    /\ pc \in Spoken => reply.by = turn.speaker
    /\ pc \in {"notes", "deliver"} => shown.kind = "pending" /\ shown.by = turn.speaker

(* A consultation is noted under the lobe that was asked, never the speaker. *)
NotedAsAsked ==
    /\ turn.note = turn.consultee
    /\ turn.consultee # turn.speaker
    /\ pc \in {"idle", "gate", "start"} => turn.consultee = "none"
    /\ pc = "consult" => explicit_peer = Other(turn.speaker)

(* A continuation is taken up by the lobe the calls belong to, and not      *)
(* handed over by that lobe.                                                *)
OwnerKept ==
    /\ pc \in {"proxy", "handoff"} => ~turn.cont
    /\ turn.cont /\ asked.handoff = "none" /\ pc \notin {"idle", "gate", "start"}
          => turn.speaker = pending

(* No request: nothing said, nothing noted.                                 *)
LEMMA InitSpoken == Init => Untokened /\ ByTheSpeaker /\ NotedAsAsked /\ OwnerKept
  BY DEF Init, Untokened, ByTheSpeaker, NotedAsAsked, OwnerKept, NoTurn, NoReply, NoChat, NoMemory,
         NoText, Spoken, Replied, Nothing

(* Nothing but the tokens of a request brings tokens into a text.           *)
LEMMA TokensOf ==
    /\ NoText.tok = {}
    /\ \A t, u : Join(t, u).tok = t.tok \cup u.tok
    /\ \A vs : Says(vs).tok = {}
    /\ \A t \in Text : Redacted(t).tok = {} /\ Redacted(t).stale = {} /\ Noted(t).tok = {}
  BY DEF NoText, Join, Says, Redacted, Noted, Text

(* What the endpoint records of a request quotes no token.                  *)
LEMMA RecordUntokened ==
    ASSUME TypeOK, Untokened, NEW said \in Text, ~turn.secure => said.tok = {}, Record(said)
    PROVE  memory'.exchanges.tok = {} /\ memory'.notes = memory.notes
  <1>1. chat.user \in Text /\ chat.rest \in Text /\ turn.safe \in Text
        /\ turn.known \in SUBSET Values /\ memory.exchanges \in Text
    BY DEF TypeOK, TurnType
  <1>2. Join(turn.safe, Sanitize(said, turn.known)) \in Text
    BY <1>1, Texts
  <1>3. Recorded(said).tok = {}
    BY <1>1, <1>2, TokensOf DEF Recorded, Untokened
  <1> QED
    BY <1>3, TokensOf DEF Record, Untokened, TypeOK

(* Tokens stay in the texts of the request they were made for.              *)
LEMMA UntokenedStep ==
    ASSUME TypeOK, PrivateInv, Untokened, [Next]_vars
    PROVE  Untokened'
  <1>0. /\ turn \in TurnType /\ turn.dialogue \in Text /\ turn.speaker \in Lobes
        /\ turn.secure \in BOOLEAN /\ turn.known \in SUBSET Values
        /\ chat \in [user : Text, rest : Text] /\ chat.user \in Text /\ chat.rest \in Text
        /\ memory \in [exchanges : Text, notes : Text]
        /\ memory.exchanges \in Text /\ memory.notes \in Text /\ reply.text \in Text
    BY DEF TypeOK, TurnType
  <1>1. inject_shared_memory.tok = {}
    BY TokensOf DEF inject_shared_memory, Untokened
  <1>2. ClientTools \in SUBSET Calls /\ exposed_tools \in SUBSET Calls
    BY DEF ClientTools, exposed_tools, Calls
  <1>3. ASSUME NEW secure, NEW cont, Begin(secure, cont)
        PROVE  turn'.dialogue = NoText /\ UNCHANGED <<reply, memory>> /\ reply = reply'
               /\ turn = NoTurn
    BY <1>3 DEF Begin, NoTurn, PrivateInv, Unsent
  <1>4. ASSUME NEW m \in UserMessages, NEW vs, NEW earlier \in {chat, NoChat},
               Ask(m, vs, earlier)
        PROVE  Untokened'
    <2>1. turn'.dialogue = NoText /\ UNCHANGED <<reply, memory>> /\ turn = NoTurn
      BY <1>3, <1>4 DEF Ask
    <2>2. chat'.user.tok = {} /\ chat'.rest.tok = {}
      BY <1>4, TokensOf, <1>0 DEF Ask, Untokened, NoChat
    <2> QED
      BY <2>1, <2>2, TokensOf DEF Untokened, NoTurn
  <1>5. ASSUME NEW vs, ToolResults(vs) PROVE Untokened'
    <2>1. turn'.dialogue = NoText /\ UNCHANGED <<reply, memory>> /\ turn = NoTurn
      BY <1>3, <1>5 DEF ToolResults
    <2>2. chat'.user.tok = {} /\ chat'.rest.tok = {}
      BY <1>5, TokensOf, <1>0 DEF ToolResults, Untokened
    <2> QED
      BY <2>1, <2>2, TokensOf DEF Untokened, NoTurn
  <1>6. CASE Gate
    <2>1. /\ turn'.secure = turn.secure /\ turn'.dialogue = turn.dialogue
          /\ UNCHANGED <<reply, chat, memory>>
      BY <1>0, <1>6 DEF Gate, _secure_gate, TurnType
    <2> QED
      BY <2>1 DEF Untokened
  <1>7. ASSUME NEW auto, Start(auto) PROVE Untokened'
    <2>1. /\ turn' = [turn EXCEPT !.speaker = Speaker, !.peer = Other(Speaker),
                         !.dialogue = IF turn.secure /\ Speaker = "A" THEN turn.safe
                                      ELSE Join(inject_shared_memory, chat.rest),
                         !.routed = explicit_peer = "none" /\ ~turn.cont /\ auto]
          /\ UNCHANGED <<reply, chat, memory>>
      BY <1>7 DEF Start
    <2>2. turn'.secure = turn.secure
          /\ (~turn.secure => turn'.dialogue = Join(inject_shared_memory, chat.rest))
      BY <1>0, <2>1 DEF TurnType
    <2> QED
      BY <1>1, <2>1, <2>2, TokensOf DEF Untokened
  <1>8. ASSUME NEW named, turn' \in Advised(named)
        PROVE  turn'.secure = turn.secure /\ (~turn.secure => turn'.dialogue.tok = {})
    <2>1. PICK advice \in Mentions(ViewOf(Other(turn.speaker), turn.dialogue)) :
              turn' = [turn EXCEPT
                         !.dialogue = Join(turn.dialogue, GuardedFor(turn.speaker, advice)),
                         !.consulted = TRUE, !.note = named, !.consultee = Other(turn.speaker)]
      BY <1>0, <1>8, Consultations
    <2>2. turn'.secure = turn.secure
          /\ turn'.dialogue = Join(turn.dialogue, GuardedFor(turn.speaker, advice))
      BY <1>0, <2>1 DEF TurnType
    <2>3. ~turn.secure => advice.tok = {} /\ GuardedFor(turn.speaker, advice) = advice
      BY TokensOf DEF Mentions, ViewOf, GuardedFor, Untokened
    <2> QED
      BY <2>2, <2>3, TokensOf DEF Untokened
  <1>9. ASSUME NEW offered \in SUBSET Calls, NEW done, Reply(offered, done),
               turn'.secure = turn.secure, ~turn.secure => turn'.dialogue.tok = {},
               UNCHANGED <<chat, memory>>
        PROVE  Untokened'
    <2>1. reply'.text \in Mentions(turn'.dialogue)
      BY <1>9, Replies
    <2> QED
      BY <1>9, <2>1, TokensOf DEF Untokened, Mentions
  <1>10. CASE ConsultPeer
    <2>1. turn' \in Advised(explicit_peer) /\ UNCHANGED <<reply, chat, memory>>
      BY <1>10 DEF ConsultPeer
    <2>2. turn'.secure = turn.secure /\ (~turn.secure => turn'.dialogue.tok = {})
      BY <1>8, <2>1
    <2> QED
      BY <2>1, <2>2 DEF Untokened
  <1>11. CASE Speak
    BY <1>2, <1>9, <1>11 DEF Speak, Untokened
  <1>12. CASE ProxyTools
    <2> DEFINE toA(x, y) == IF turn.secure /\ turn.speaker = "B"
                            THEN turn.aside \cup x.toPeer \cup y.toPeer ELSE turn.aside
    <2>1. PICK x \in execute_proxy_call, y \in execute_proxy_call :
              turn' = [turn EXCEPT
                         !.dialogue = Join(turn.dialogue, Join(x.result, y.result)),
                         !.found = turn.found \cup x.found \cup y.found,
                         !.aside = toA(x, y)]
      BY <1>0, <1>12 DEF ProxyTools, TurnType
    <2> HIDE DEF toA
    <2>2. turn'.secure = turn.secure
          /\ turn'.dialogue = Join(turn.dialogue, Join(x.result, y.result))
      BY <1>0, <2>1 DEF TurnType
    <2>3. ~turn.secure => x.result.tok = {} /\ y.result.tok = {}
      BY TokensOf DEF execute_proxy_call, Mentions, Untokened
    <2>4. ~turn.secure => turn'.dialogue.tok = {}
      BY <2>2, <2>3, TokensOf DEF Untokened
    <2> QED
      BY <1>2, <1>9, <1>12, <2>2, <2>4 DEF ProxyTools
  <1>13. CASE Handoff
    <2>1. turn'.secure = turn.secure /\ turn'.dialogue = ViewOf(Other(turn.speaker), turn.dialogue)
      BY <1>0, <1>13 DEF Handoff, HandedOver, TurnType
    <2>2. ~turn.secure => turn'.dialogue.tok = {}
      BY <2>1 DEF ViewOf, Untokened
    <2> QED
      BY <1>2, <1>9, <1>13, <2>1, <2>2 DEF Handoff
  <1>14. CASE Advise
    <2>1. turn' \in Advised(turn.peer) /\ Reply(ClientTools, "advice") /\ UNCHANGED <<chat, memory>>
      BY <1>14 DEF Advise
    <2>2. turn'.secure = turn.secure /\ (~turn.secure => turn'.dialogue.tok = {})
      BY <1>8, <2>1
    <2> QED
      BY <1>2, <1>9, <2>1, <2>2
  <1>15. NoTurn.dialogue.tok = {} /\ NoReply.text.tok = {}
    BY TokensOf DEF NoTurn, NoReply
  <1>16. CASE Raise
    BY <1>15, <1>16 DEF Raise, EndTurn, Untokened
  <1>17. CASE ReturnToolCalls
    <2>1. memory'.exchanges.tok = {} /\ memory'.notes = memory.notes
      BY <1>0, <1>17, RecordUntokened DEF ReturnToolCalls, Untokened
    <2> QED
      BY <1>15, <1>17, <2>1 DEF ReturnToolCalls, EndTurn, Untokened
  <1>18. CASE Verify
    BY <1>18 DEF Verify, Untokened
  <1>19. CASE _capture_notes
    <2>1. PICK quoted \in Mentions(Transcript) :
              memory' = [memory EXCEPT !.notes = Join(memory.notes, Noted(quoted))]
      BY <1>0, <1>19 DEF _capture_notes
    <2>2. Noted(quoted).tok = {}
      BY DEF Noted
    <2>3. memory'.notes.tok = {} /\ memory'.exchanges = memory.exchanges
      BY <1>0, <2>1, <2>2, TokensOf DEF Untokened
    <2> QED
      BY <1>19, <2>3 DEF _capture_notes, Untokened
  <1>20. CASE Deliver
    <2>1. memory'.exchanges.tok = {} /\ memory'.notes = memory.notes
      BY <1>0, <1>20, RecordUntokened DEF Deliver, Untokened
    <2>2. Answer.tok = {}
      BY <1>0, Texts DEF Answer, Untokened
    <2>3. chat'.user = chat.user /\ chat'.rest.tok = {}
      BY <1>0, <1>20, <2>2, TokensOf DEF Deliver, Untokened
    <2> QED
      BY <1>15, <1>20, <2>1, <2>3 DEF Deliver, EndTurn, Untokened
  <1>21. CASE UNCHANGED vars
    BY <1>21 DEF vars, Untokened
  <1> QED
    BY <1>4, <1>5, <1>6, <1>7, <1>10, <1>11, <1>12, <1>13, <1>14, <1>16, <1>17, <1>18, <1>19,
       <1>20, <1>21 DEF Next

-----------------------------------------------------------------------------
SpokenInv == ByTheSpeaker /\ NotedAsAsked /\ OwnerKept

(* The request is resumed, spoken, consulted on, handed over and verified   *)
(* under the right names.                                                   *)
LEMMA SpokenStep ==
    ASSUME TypeOK, PrivateInv, SpokenInv, [Next]_vars
    PROVE  SpokenInv'
  <1> USE DEF SpokenInv, Spoken, Replied
  <1>0. /\ turn \in TurnType /\ turn.peer = Other(turn.speaker) /\ turn.speaker \in Lobes
        /\ Other(turn.speaker) \in Lobes /\ Other(turn.speaker) # turn.speaker
        /\ Other(Other(turn.speaker)) = turn.speaker /\ "none" \notin Lobes
        /\ turn.cont \in BOOLEAN /\ asked.consult \in Lobes \cup {"none"}
    BY DEF TypeOK, TurnType, Other, Lobes, UserMessages
  <1>1. ClientTools \in SUBSET Calls /\ exposed_tools \in SUBSET Calls
    BY DEF ClientTools, exposed_tools, Calls
  <1>2. ASSUME NEW secure \in BOOLEAN, NEW cont \in BOOLEAN, Begin(secure, cont)
        PROVE  SpokenInv'
    <2>1. pc' \in {"gate", "start"} /\ turn' = [NoTurn EXCEPT !.secure = secure, !.cont = cont]
      BY <1>2 DEF Begin
    <2>2. turn'.note = "none" /\ turn'.consultee = "none" /\ turn'.speaker = "A"
      BY <2>1 DEF NoTurn
    <2> QED
      BY <2>1, <2>2 DEF ByTheSpeaker, NotedAsAsked, OwnerKept
  <1>3. ASSUME NEW m \in UserMessages, NEW vs, NEW earlier, Ask(m, vs, earlier)
        PROVE  SpokenInv'
    BY <1>2, <1>3 DEF Ask, UserMessages
  <1>4. ASSUME NEW vs, ToolResults(vs) PROVE SpokenInv'
    BY <1>2, <1>4 DEF ToolResults, UserMessages, TypeOK
  <1>5. CASE Gate
    <2>1. /\ turn'.note = turn.note /\ turn'.consultee = turn.consultee
          /\ turn'.speaker = turn.speaker /\ pc = "gate" /\ pc' = "start"
      BY <1>0, <1>5 DEF Gate, _secure_gate, TurnType
    <2> QED
      BY <2>1 DEF ByTheSpeaker, NotedAsAsked, OwnerKept
  <1>6. ASSUME NEW auto, Start(auto) PROVE SpokenInv'
    <2>1. /\ turn' = [turn EXCEPT !.speaker = Speaker, !.peer = Other(Speaker),
                         !.dialogue = IF turn.secure /\ Speaker = "A" THEN turn.safe
                                      ELSE Join(inject_shared_memory, chat.rest),
                         !.routed = explicit_peer = "none" /\ ~turn.cont /\ auto]
          /\ pc = "start" /\ pc' = IF explicit_peer = "none" THEN "speak" ELSE "consult"
          /\ UNCHANGED <<asked, pending>>
      BY <1>6 DEF Start
    <2>2. /\ turn'.speaker = Speaker /\ turn'.cont = turn.cont
          /\ turn'.note = turn.note /\ turn'.consultee = turn.consultee
      BY <1>0, <2>1 DEF TurnType
    <2>3. explicit_peer' = explicit_peer
      BY <2>1, <2>2 DEF explicit_peer, requested, Speaker, select_speaker
    <2>4. Speaker \in Lobes
      BY DEF Speaker, select_speaker, requested, TypeOK, UserMessages, Lobes
    <2>5. explicit_peer = "none" \/ explicit_peer = Other(Speaker)
      BY <1>0, <2>4 DEF explicit_peer, requested, Other, Lobes
    <2>6. turn.consultee = "none" /\ turn.note = "none"
      BY <2>1 DEF NotedAsAsked
    <2>7. turn.cont /\ asked.handoff = "none" => Speaker = pending
      BY DEF Speaker, select_speaker, requested
    <2>8. NotedAsAsked'
      <3>1. turn'.note = turn'.consultee /\ turn'.consultee # turn'.speaker
        BY <1>0, <2>2, <2>4, <2>6
      <3>2. pc' = "consult" => explicit_peer' = Other(turn'.speaker)
        BY <2>1, <2>2, <2>3, <2>5
      <3> QED
        BY <2>1, <3>1, <3>2 DEF NotedAsAsked
    <2> QED
      BY <2>1, <2>2, <2>7, <2>8 DEF ByTheSpeaker, OwnerKept
  <1>7. ASSUME NEW named, named = Other(turn.speaker), turn' \in Advised(named)
        PROVE  /\ turn'.speaker = turn.speaker /\ turn'.cont = turn.cont
               /\ turn'.note = Other(turn.speaker) /\ turn'.consultee = Other(turn.speaker)
    <2>1. PICK advice \in Mentions(ViewOf(Other(turn.speaker), turn.dialogue)) :
              turn' = [turn EXCEPT
                         !.dialogue = Join(turn.dialogue, GuardedFor(turn.speaker, advice)),
                         !.consulted = TRUE, !.note = named, !.consultee = Other(turn.speaker)]
      BY <1>0, <1>7, Consultations
    <2> QED
      BY <1>0, <1>7, <2>1 DEF TurnType
  <1>8. ASSUME NEW offered \in SUBSET Calls, NEW done, Reply(offered, done),
               turn'.cont = turn.cont, turn'.note = turn'.consultee,
               turn'.consultee # turn'.speaker, UNCHANGED <<asked, pending>>,
               turn.cont /\ asked.handoff = "none" => turn'.speaker = pending
        PROVE  SpokenInv'
    <2>1. reply'.by = turn'.speaker /\ pc' \in Replied
          /\ (pc' \in {"proxy", "handoff"} => ~turn.cont)
      BY <1>8, Replies
    <2> QED
      BY <1>8, <2>1 DEF ByTheSpeaker, NotedAsAsked, OwnerKept
  <1>9. CASE ConsultPeer
    <2>1. turn' \in Advised(explicit_peer) /\ explicit_peer = Other(turn.speaker)
          /\ pc = "consult" /\ pc' = "speak" /\ UNCHANGED <<asked, pending>>
      BY <1>9 DEF ConsultPeer, NotedAsAsked
    <2>2. /\ turn'.speaker = turn.speaker /\ turn'.cont = turn.cont
          /\ turn'.note = turn'.consultee /\ turn'.consultee # turn'.speaker
      BY <1>0, <1>7, <2>1
    <2> QED
      BY <2>1, <2>2 DEF ByTheSpeaker, NotedAsAsked, OwnerKept
  <1>10. CASE Speak
    BY <1>1, <1>8, <1>10 DEF Speak, NotedAsAsked, OwnerKept
  <1>11. CASE ProxyTools
    <2>1. /\ turn'.speaker = turn.speaker /\ turn'.cont = turn.cont
          /\ turn'.note = turn.note /\ turn'.consultee = turn.consultee
      BY <1>0, <1>11 DEF ProxyTools, TurnType
    <2> QED
      BY <1>1, <1>8, <1>11, <2>1 DEF ProxyTools, NotedAsAsked, OwnerKept
  <1>12. CASE Handoff
    <2>1. /\ turn'.speaker = Other(turn.speaker) /\ turn'.cont = turn.cont
          /\ turn'.note = "none" /\ turn'.consultee = "none"
      BY <1>0, <1>12 DEF Handoff, HandedOver, TurnType
    <2>2. ~turn.cont
      BY <1>12 DEF Handoff, OwnerKept
    <2> QED
      BY <1>0, <1>1, <1>8, <1>12, <2>1, <2>2 DEF Handoff
  <1>13. CASE Advise
    <2>1. turn' \in Advised(turn.peer) /\ turn.peer = Other(turn.speaker) /\ pc = "advice"
      BY <1>0, <1>13 DEF Advise
    <2>2. /\ turn'.speaker = turn.speaker /\ turn'.cont = turn.cont
          /\ turn'.note = turn'.consultee /\ turn'.consultee # turn'.speaker
      BY <1>0, <1>7, <2>1
    <2> QED
      BY <1>1, <1>8, <1>13, <2>1, <2>2 DEF Advise, OwnerKept
  <1>14. CASE Raise \/ ReturnToolCalls \/ Deliver
    <2>1. pc' = "idle" /\ turn' = NoTurn
      BY <1>14 DEF Raise, ReturnToolCalls, Deliver, EndTurn
    <2> QED
      BY <2>1 DEF ByTheSpeaker, NotedAsAsked, OwnerKept, NoTurn
  <1>15. CASE Verify
    <2>1. /\ pc = "answer" /\ pc' \in {"notes", "deliver"}
          /\ UNCHANGED <<asked, pending, turn, reply>>
          /\ shown' = [NoAnswer EXCEPT !.kind = "pending", !.by = reply.by, !.verifier = turn.peer,
                          !.cont = turn.cont, !.note = turn.note, !.consultee = turn.consultee]
      BY <1>15 DEF Verify
    <2>2. shown'.kind = "pending" /\ shown'.by = reply.by
      BY <2>1 DEF NoAnswer
    <2> QED
      BY <2>1, <2>2 DEF ByTheSpeaker, NotedAsAsked, OwnerKept
  <1>16. CASE _capture_notes
    BY <1>16 DEF _capture_notes, ByTheSpeaker, NotedAsAsked, OwnerKept
  <1>17. CASE UNCHANGED vars
    BY <1>17 DEF vars, ByTheSpeaker, NotedAsAsked, OwnerKept, explicit_peer, requested, Speaker,
              select_speaker
  <1> QED
    BY <1>3, <1>4, <1>5, <1>6, <1>9, <1>10, <1>11, <1>12, <1>13, <1>14, <1>15, <1>16, <1>17
       DEF Next

ConversationInv == TypeOK /\ PrivateInv /\ Untokened /\ SpokenInv

(* The parts of the invariant hold together.                                *)
LEMMA ConversationInvariant == Spec => []ConversationInv
  <1>1. Init => ConversationInv
    BY InitTypeOK, InitPrivate, InitSpoken DEF ConversationInv, SpokenInv
  <1>2. ConversationInv /\ [Next]_vars => ConversationInv'
    BY TypeStep, PrivateStep, UntokenedStep, SpokenStep DEF ConversationInv
  <1> QED
    BY <1>1, <1>2, PTL DEF Spec

-----------------------------------------------------------------------------
(* What is shown changes only when a request begins, fails, is answered     *)
(* with tool calls, is verified or is delivered.                            *)
LEMMA ShownStep ==
    ASSUME ConversationInv, [Next]_vars
    PROVE  \/ UNCHANGED shown
           \/ shown' = NoAnswer /\ pc = "idle"
           \/ shown'.kind = "error"
           \/ /\ pc = "answer" /\ shown'.kind = "tools" /\ shown'.by = reply.by
              /\ shown'.text = Arguments
           \/ /\ pc = "answer" /\ shown'.kind = "pending" /\ shown'.by = reply.by
              /\ shown'.verifier = turn.peer /\ shown'.note = turn.note
              /\ shown'.consultee = turn.consultee
           \/ /\ pc = "deliver" /\ shown'.kind = "answer" /\ shown'.text = Answer
              /\ shown'.by = shown.by /\ shown'.verifier = shown.verifier
              /\ shown'.note = shown.note /\ shown'.consultee = shown.consultee
  <1>1. CASE Raise
    <2>1. shown' = [NoAnswer EXCEPT !.kind = "error"]
      BY <1>1 DEF Raise
    <2> QED
      BY <2>1 DEF NoAnswer
  <1>2. CASE ReturnToolCalls
    <2>1. pc = "answer"
          /\ shown' = [NoAnswer EXCEPT !.kind = "tools", !.by = reply.by, !.verifier = turn.peer,
                          !.calls = client_calls, !.text = Arguments, !.cont = turn.cont]
      BY <1>2 DEF ReturnToolCalls
    <2> QED
      BY <2>1 DEF NoAnswer
  <1>3. CASE Verify
    <2>1. pc = "answer"
          /\ shown' = [NoAnswer EXCEPT !.kind = "pending", !.by = reply.by, !.verifier = turn.peer,
                          !.cont = turn.cont, !.note = turn.note, !.consultee = turn.consultee]
      BY <1>3 DEF Verify
    <2> QED
      BY <2>1 DEF NoAnswer
  <1>4. CASE Deliver
    <2>1. pc = "deliver" /\ shown' = [shown EXCEPT !.kind = "answer", !.text = Answer]
      BY <1>4 DEF Deliver
    <2> QED
      BY <2>1 DEF ConversationInv, TypeOK
  <1>5. CASE \/ \E m \in UserMessages, vs \in {{}, Values}, earlier \in {chat, NoChat} :
                   Ask(m, vs, earlier)
             \/ \E vs \in {{}, Values} : ToolResults(vs)
    BY <1>5 DEF Ask, ToolResults, Begin
  <1>6. CASE \/ Gate \/ (\E auto \in BOOLEAN : Start(auto)) \/ ConsultPeer \/ Speak \/ ProxyTools
             \/ Handoff \/ Advise \/ _capture_notes \/ UNCHANGED vars
    BY <1>6 DEF Gate, _secure_gate, Start, ConsultPeer, Speak, ProxyTools, Handoff, Advise,
                _capture_notes, vars
  <1> QED
    BY <1>1, <1>2, <1>3, <1>4, <1>5, <1>6 DEF Next

(* The user is shown no token, whoever spoke, advised or handed over.       *)
THEOREM RestoredSound == Spec => []AnswersRestored
  <1>1. Init => AnswersRestored
    BY DEF Init, AnswersRestored, NoAnswer
  <1>2. ASSUME ConversationInv, AnswersRestored, [Next]_vars PROVE AnswersRestored'
    <2>1. reply.text \in Text /\ Rehydrate(reply.text).tok = {}
          /\ (~turn.secure => reply.text.tok = {})
      BY <1>2, Texts DEF ConversationInv, TypeOK, Untokened
    <2>2. Answer.tok = {} /\ (turn.speaker = "A" => Arguments.tok = {})
      BY <2>1 DEF Answer, Arguments
    <2>3. pc = "answer" => reply.by = turn.speaker
      BY <1>2 DEF ConversationInv, SpokenInv, ByTheSpeaker, Spoken, Replied
    <2> QED
      BY <1>2, <2>2, <2>3, ShownStep DEF AnswersRestored, NoAnswer
  <1> QED
    BY ConversationInvariant, <1>1, <1>2, PTL DEF Spec

(* An answer is rated by the other lobe, and names whom it consulted.       *)
THEOREM CrossCheckSound == Spec => []CrossChecked
  <1>1. Init => CrossChecked
    BY DEF Init, CrossChecked, NoAnswer
  <1>2. ASSUME ConversationInv, CrossChecked, [Next]_vars PROVE CrossChecked'
    <2>1. /\ turn.peer # turn.speaker /\ turn.note = turn.consultee
          /\ turn.consultee # turn.speaker
      BY <1>2 DEF ConversationInv, TypeOK, Other, Lobes, SpokenInv, NotedAsAsked
    <2>2. /\ pc = "answer" => reply.by = turn.speaker
          /\ pc = "deliver" => shown.kind = "pending"
      BY <1>2 DEF ConversationInv, SpokenInv, ByTheSpeaker, Spoken, Replied
    <2> QED
      BY <1>2, <2>1, <2>2, ShownStep DEF CrossChecked, NoAnswer
  <1> QED
    BY ConversationInvariant, <1>1, <1>2, PTL DEF Spec

(* Tool results are answered by the lobe that asked for them.               *)
THEOREM OwnerSound == Spec => ResumedByOwner
  <1>1. ASSUME ConversationInv, [Next]_vars
        PROVE  [turn.cont /\ asked.handoff = "none" /\ shown' # shown
                  => shown'.kind = "error" \/ shown'.by = pending]_vars
    <2>1. /\ pc = "idle" => ~turn.cont
          /\ pc = "answer" => reply.by = turn.speaker
          /\ pc = "deliver" => shown.by = turn.speaker
          /\ turn.cont /\ asked.handoff = "none" /\ pc \in {"answer", "deliver"}
                => turn.speaker = pending
      BY <1>1, Defaults DEF ConversationInv, PrivateInv, Unsent, SpokenInv, ByTheSpeaker, OwnerKept,
                            Spoken, Replied
    <2> QED
      BY <1>1, <2>1, ShownStep
  <1> QED
    BY ConversationInvariant, <1>1, PTL DEF Spec, ResumedByOwner

(* A secure turn keeps shared memory clean.                                 *)
THEOREM MemorySound == Spec => KeptClean
  <1>1. ASSUME ConversationInv, [Next]_vars
        PROVE  [turn.secure =>
                 /\ ((memory'.exchanges.raw \ memory.exchanges.raw)
                       \cup (memory'.notes.raw \ memory.notes.raw))
                      \cap Masked(turn.known) = {}
                 /\ memory'.exchanges.tok = {}
                 /\ memory'.exchanges.stale = memory.exchanges.stale]_vars
    <2> SUFFICES ASSUME turn.secure
                 PROVE  /\ ((memory'.exchanges.raw \ memory.exchanges.raw)
                              \cup (memory'.notes.raw \ memory.notes.raw)) \cap Private = {}
                        /\ memory'.exchanges.tok = {}
                        /\ memory'.exchanges.stale = memory.exchanges.stale
      BY DEF Private
    <2>0. /\ turn.safe \in Text /\ turn.dialogue \in Text /\ reply.text \in Text
          /\ turn.known \in SUBSET Values /\ memory.exchanges.tok = {}
          /\ memory \in [exchanges : Text, notes : Text]
          /\ turn.safe.raw \cap Private = {}
      BY <1>1 DEF ConversationInv, TypeOK, TurnType, Untokened, PrivateInv, PrivateKept
    <2>1. ASSUME UNCHANGED memory
          PROVE  /\ ((memory'.exchanges.raw \ memory.exchanges.raw)
                       \cup (memory'.notes.raw \ memory.notes.raw)) \cap Private = {}
                 /\ memory'.exchanges.tok = {}
                 /\ memory'.exchanges.stale = memory.exchanges.stale
      BY <2>0, <2>1
    <2>2. ASSUME Record(reply.text)
          PROVE  /\ ((memory'.exchanges.raw \ memory.exchanges.raw)
                       \cup (memory'.notes.raw \ memory.notes.raw)) \cap Private = {}
                 /\ memory'.exchanges.tok = {}
                 /\ memory'.exchanges.stale = memory.exchanges.stale
      <3> DEFINE said == Recorded(reply.text)
      <3>1. memory' = memory
            \/ memory' = [memory EXCEPT !.exchanges = Join(memory.exchanges, said)]
        BY <2>0, <2>2 DEF Record
      <3>2. Sanitize(reply.text, turn.known) \in Text
            /\ Sanitize(reply.text, turn.known).raw \cap Private = {}
        BY <2>0, Texts DEF Private
      <3>3. said = Redacted(Join(turn.safe, Sanitize(reply.text, turn.known)))
        BY DEF Recorded
      <3>4. Join(turn.safe, Sanitize(reply.text, turn.known)) \in Text
            /\ Join(turn.safe, Sanitize(reply.text, turn.known)).raw \cap Private = {}
        BY <2>0, <3>2, Texts DEF Join
      <3>5. said.raw \cap Private = {} /\ said.tok = {} /\ said.stale = {}
        BY <3>3, <3>4 DEF Redacted, Text
      <3> HIDE DEF said
      <3>6. /\ Join(memory.exchanges, said).raw = memory.exchanges.raw \cup said.raw
            /\ Join(memory.exchanges, said).tok = {}
            /\ Join(memory.exchanges, said).stale = memory.exchanges.stale
        BY <2>0, <3>5 DEF Join
      <3>7. CASE memory' = [memory EXCEPT !.exchanges = Join(memory.exchanges, said)]
        <4>1. memory'.exchanges = Join(memory.exchanges, said) /\ memory'.notes = memory.notes
          BY <2>0, <3>7
        <4> QED
          BY <3>5, <3>6, <4>1
      <3> QED
        BY <2>1, <3>1, <3>7
    <2>3. CASE _capture_notes
      <3>1. PICK quoted \in Mentions(Transcript) :
                memory' = [memory EXCEPT !.notes = Join(memory.notes, Noted(quoted))]
        BY <2>0, <2>3 DEF _capture_notes
      <3>2. Join(turn.dialogue, reply.text) \in Text
        BY <2>0, Texts
      <3>3. Transcript.raw \cap Private = {}
        BY <2>0, <3>2, Texts DEF Transcript, Private
      <3>4. Noted(quoted).raw \cap Private = {}
        BY <3>3 DEF Noted, Mentions, NoText
      <3>5. memory'.notes = Join(memory.notes, Noted(quoted))
            /\ memory'.exchanges = memory.exchanges
        BY <2>0, <3>1
      <3> QED
        BY <2>0, <3>4, <3>5 DEF Join
    <2>4. CASE ReturnToolCalls \/ Deliver
      BY <2>2, <2>4 DEF ReturnToolCalls, Deliver
    <2>5. CASE \/ \E m \in UserMessages, vs \in {{}, Values}, earlier \in {chat, NoChat} :
                     Ask(m, vs, earlier)
               \/ \E vs \in {{}, Values} : ToolResults(vs)
               \/ Gate \/ (\E auto \in BOOLEAN : Start(auto)) \/ ConsultPeer \/ Speak \/ ProxyTools
               \/ Handoff \/ Advise \/ Raise \/ Verify \/ UNCHANGED vars
      BY <2>1, <2>5 DEF Ask, ToolResults, Begin, Gate, _secure_gate, Start, ConsultPeer, Speak,
                        ProxyTools, Handoff, Advise, Raise, Verify, vars
    <2> QED
      BY <1>1, <2>3, <2>4, <2>5 DEF Next
  <1> QED
    BY ConversationInvariant, <1>1, PTL DEF Spec, KeptClean
===============================================================================

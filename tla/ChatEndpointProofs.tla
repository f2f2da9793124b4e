-------------------------- MODULE ChatEndpointProofs --------------------------
(***************************************************************************)
(* Proofs, for any requests, asks, calls of the events endpoint, journal,   *)
(* limits and number of crashes, of the safety properties of ChatEndpoint.  *)
(***************************************************************************)
EXTENDS ChatEndpoint, FiniteSetTheorems, WellFoundedInduction, TLAPS

Stages == {"idle", "finding", "storing", "routing", "loading", "answering", "auditing",
           "recording", "committing", "done"}

(* The functions a step updates at one request or call are defined on all.  *)
Domains ==
    /\ pc \in [Request -> Stages]
    /\ DOMAIN ask = Request
    /\ DOMAIN result = Request
    /\ DOMAIN runOf = Request
    /\ DOMAIN runs = External
    /\ \A x \in External : DOMAIN runs[x] = {"id", "attempt"}
    /\ DOMAIN ianswer = Ingest
    /\ \A r \in Request : pc[r] # "idle" => ask[r] \in Asks

(* The run of a request keeps its number once it has one: a row that is     *)
(* there is only brought up to date.                                        *)
RunsKept ==
    \A r \in Request :
        /\ runOf[r] > 0 => runs[ExternalRun(r)].id = runOf[r]
        /\ pc[r] = "idle" => runOf[r] = 0

-----------------------------------------------------------------------------
(* Every set of natural numbers has a least element.                        *)
LEMMA LeastNumber ==
    ASSUME NEW T \in SUBSET Nat, T # {}
    PROVE  \E m \in T : \A n \in T : m <= n
  <1>1. \A m, n \in Nat : n < m => <<n, m>> \in OpToRel(<, Nat)
    BY DEF OpToRel
  <1>2. PICK R : IsWellFoundedOn(R, Nat) /\ \A m, n \in Nat : n < m => <<n, m>> \in R
    BY <1>1, NatLessThanWellFounded, Zenon
  <1>3. PICK m \in T : \A n \in T : <<n, m>> \notin R
    BY <1>2, WFMin
  <1>4. ASSUME NEW n \in T PROVE m <= n
    <2>1. n \in Nat /\ m \in Nat /\ ~(n < m)
      BY <1>2, <1>3
    <2> QED
      BY <2>1
  <1> QED
    BY <1>3, <1>4

-----------------------------------------------------------------------------
(* The process begins with no request under way.                            *)
LEMMA InitDomains == Init => Domains /\ RunsKept
  <1> SUFFICES ASSUME Init PROVE Domains /\ RunsKept
    OBVIOUS
  <1>1. pc \in [Request -> Stages] /\ (\A r \in Request : pc[r] = "idle" /\ runOf[r] = 0)
    BY DEF Init, Stages
  <1>2. /\ DOMAIN ask = Request /\ DOMAIN result = Request /\ DOMAIN runOf = Request
        /\ DOMAIN runs = External /\ DOMAIN ianswer = Ingest
    BY Zenon DEF Init
  <1>3. \A x \in External : DOMAIN runs[x] = {"id", "attempt"}
    <2>1. DOMAIN NoRun = {"id", "attempt"}
      BY DEF NoRun
    <2> QED
      BY <2>1 DEF Init
  <1> QED
    BY <1>1, <1>2, <1>3 DEF Domains, RunsKept

(* The steps of a request other than its arrival and the storing of its run *)
(* leave its ask and the runs alone.                                        *)
LEMMA LaterStep ==
    ASSUME NEW r \in Request,
           \/ FindRun(r) \/ Route(r) \/ RouteFails(r) \/ Load(r) \/ LoadFails(r)
           \/ (\E res \in {"answered", "failed"} : Answer(r, res))
           \/ PersistCall(r) \/ RecordMemory(r) \/ CommitMemory(r) \/ Disconnect(r)
    PROVE  /\ pc[r] # "idle" /\ (\E there \in Stages \ {"idle"} : Goto(r, there))
           /\ UNCHANGED <<mode, ask, runs, runOf, ianswer, ipc>>
           /\ result' = result \/ (\E res : result' = [result EXCEPT ![r] = res])
  BY DEF FindRun, Route, RouteFails, Load, LoadFails, Answer, PersistCall, RecordMemory, CommitMemory,
         Disconnect, At, Finish, Goto, AfterRouting, RecordNext, Stages, askVars, runVars, eventVars

(* The other endpoints, the clock and a reader leave the requests alone.    *)
LEMMA OtherStep ==
    ASSUME (\E i \in Ingest : CheckEvent(i) \/ InsertEvent(i)) \/ inspect \/ Tick \/ UNCHANGED vars
    PROVE  UNCHANGED <<mode, pc, ask, result, runs, runOf, sure, journal, pending, serial>>
  BY DEF CheckEvent, InsertEvent, append_event, IngestTo, inspect, Tick, vars, askVars, runVars,
         memoryVars

(* An arrival gives an idle request what it carries.                        *)
LEMMA ArrivalStep ==
    ASSUME NEW r \in Request, NEW a \in Asks, Refuse(r, a) \/ Throttle(r, a) \/ Admit(r, a)
    PROVE  /\ pc[r] = "idle" /\ (\E there \in {"done", "finding"} : Goto(r, there))
           /\ ask' = [ask EXCEPT ![r] = a]
           /\ UNCHANGED <<mode, runs, runOf, ianswer, ipc, events, sure, journal, pending, serial, page>>
           /\ result' = result \/ (\E res \in {"401", "403", "400", "none", "429"} :
                                      result' = [result EXCEPT ![r] = res])
  <1>1. Refusal(a) \in {"401", "403", "400", "none"}
    BY DEF Refusal, require_scope
  <1> QED
    BY <1>1 DEF Refuse, Throttle, Admit, Arrive, At, Finish, Goto, runVars, eventVars, memoryVars

(* Every step keeps the functions defined where they were.                  *)
LEMMA DomainsStep ==
    ASSUME Domains, [Next]_vars
    PROVE  Domains'
  <1> USE DEF Domains, Goto
  <1>1. ASSUME NEW r \in Request, NEW a \in Asks, Refuse(r, a) \/ Throttle(r, a) \/ Admit(r, a)
        PROVE  Domains'
    BY <1>1, ArrivalStep DEF Stages
  <1>2. ASSUME NEW r \in Request, StoreRun(r) PROVE Domains'
    <2>1. ExternalRun(r) \in External
      BY <1>2 DEF StoreRun, At, ExternalRun, External
    <2>2. DOMAIN RunRow(r) = {"id", "attempt"}
      BY <2>1 DEF RunRow, NewRun
    <2>3. pc[r] = "storing" /\ (\E there \in Stages : Goto(r, there)) /\ ask' = ask
          /\ runs' = [runs EXCEPT ![ExternalRun(r)] = RunRow(r)]
          /\ runOf' = [runOf EXCEPT ![r] = RunRow(r).id] /\ UNCHANGED <<result, ianswer>>
      BY <1>2 DEF StoreRun, At, AfterRouting, Stages, askVars, eventVars
    <2> QED
      BY <2>2, <2>3
  <1>3. ASSUME NEW r \in Request,
               \/ FindRun(r) \/ Route(r) \/ RouteFails(r) \/ Load(r) \/ LoadFails(r)
               \/ (\E res \in {"answered", "failed"} : Answer(r, res))
               \/ PersistCall(r) \/ RecordMemory(r) \/ CommitMemory(r) \/ Disconnect(r)
        PROVE  Domains'
    BY <1>3, LaterStep
  <1>4. CASE (\E i \in Ingest : CheckEvent(i) \/ InsertEvent(i)) \/ inspect \/ Tick \/ UNCHANGED vars
    <2>1. DOMAIN ianswer' = Ingest
      BY <1>4 DEF CheckEvent, InsertEvent, append_event, IngestTo, inspect, Tick, vars, eventVars
    <2> QED
      BY <1>4, <2>1, OtherStep
  <1>5. CASE Crash
    BY <1>5 DEF Crash, At, Stages, askVars, runVars
  <1> QED
    BY <1>1, <1>2, <1>3, <1>4, <1>5 DEF Next, RequestStep

(* A run is numbered once.                                                  *)
LEMMA RunsStep ==
    ASSUME Domains, RunsKept, [Next]_vars
    PROVE  RunsKept'
  <1> USE DEF Domains, RunsKept, ExternalRun
  <1>1. ASSUME NEW r \in Request, NEW a \in Asks, Refuse(r, a) \/ Throttle(r, a) \/ Admit(r, a)
        PROVE  RunsKept'
    BY <1>1, ArrivalStep DEF Goto
  <1>2. ASSUME NEW r \in Request, StoreRun(r) PROVE RunsKept'
    <2>1. pc[r] = "storing" /\ (\E there \in Stages \ {"idle"} : Goto(r, there)) /\ ask' = ask
          /\ runs' = [runs EXCEPT ![ExternalRun(r)] = RunRow(r)]
          /\ runOf' = [runOf EXCEPT ![r] = RunRow(r).id]
      BY <1>2 DEF StoreRun, At, AfterRouting, Stages, askVars
    <2>2. ExternalRun(r) \in External
      BY <2>1 DEF External
    <2>3. RunRow(r).id = runs[ExternalRun(r)].id \/ runs[ExternalRun(r)].id = 0
      BY <2>2 DEF RunRow
    <2>4. \A q \in Request : ExternalRun(q)' = ExternalRun(q)
      BY <2>1
    <2>5. ASSUME NEW q \in Request, runOf'[q] > 0
          PROVE  runs'[ExternalRun(q)].id = runOf'[q]
      <3>1. CASE q = r
        BY <2>1, <2>2, <3>1
      <3>2. CASE q # r /\ ExternalRun(q) = ExternalRun(r)
        BY <2>1, <2>2, <2>3, <2>5, <3>2
      <3>3. CASE q # r /\ ExternalRun(q) # ExternalRun(r)
        BY <2>1, <2>5, <3>3
      <3> QED
        BY <3>1, <3>2, <3>3
    <2> QED
      BY <2>1, <2>4, <2>5 DEF Goto
  <1>3. ASSUME NEW r \in Request,
               \/ FindRun(r) \/ Route(r) \/ RouteFails(r) \/ Load(r) \/ LoadFails(r)
               \/ (\E res \in {"answered", "failed"} : Answer(r, res))
               \/ PersistCall(r) \/ RecordMemory(r) \/ CommitMemory(r) \/ Disconnect(r)
        PROVE  RunsKept'
    BY <1>3, LaterStep DEF Goto
  <1>4. CASE (\E i \in Ingest : CheckEvent(i) \/ InsertEvent(i)) \/ inspect \/ Tick \/ UNCHANGED vars
    BY <1>4, OtherStep
  <1>5. CASE Crash
    BY <1>5 DEF Crash, At, askVars, runVars
  <1> QED
    BY <1>1, <1>2, <1>3, <1>4, <1>5 DEF Next, RequestStep

-----------------------------------------------------------------------------
(* The index on the keys: a key has one row, and a call that was answered   *)
(* with a row was answered with the one of its key.                         *)
EventsIndexed ==
    /\ \A e, f \in events : e.key = f.key /\ e.key # None => e = f
    /\ \A i \in Ingest :
          ianswer[i] \in Ingest => \E e \in events : e.key = KeyOf[i] /\ e.by = ianswer[i]

(* There are no events at first.                                            *)
LEMMA InitEvents == Init => EventsIndexed
  BY ChatEndpointAssumption DEF Init, EventsIndexed

(* A row without a key joins the others, and one with a key only when there *)
(* is none, in the same step that looked.                                   *)
LEMMA EventsStep ==
    ASSUME Domains, EventsIndexed, [Next]_vars
    PROVE  EventsIndexed'
  <1> USE DEF EventsIndexed
  <1>1. ASSUME NEW r \in Request, NEW kind, UNCHANGED ianswer,
               events' = events \/ events' = events \cup {Event(kind, r, None)}
        PROVE  EventsIndexed'
    BY <1>1 DEF Event
  <1>2. ASSUME NEW r \in Request, NEW a \in Asks, Refuse(r, a) \/ Throttle(r, a) \/ Admit(r, a)
        PROVE  EventsIndexed'
    BY <1>2, ArrivalStep
  <1>3. ASSUME NEW r \in Request, Route(r) \/ PersistCall(r) PROVE EventsIndexed'
    <2>1. UNCHANGED ianswer /\ \E kind : events' = events \/ events' = events \cup {Event(kind, r, None)}
      BY <1>3 DEF Route, PersistCall
    <2> QED
      BY <1>1, <2>1
  <1>4. ASSUME NEW r \in Request,
               \/ FindRun(r) \/ StoreRun(r) \/ RouteFails(r) \/ Load(r) \/ LoadFails(r)
               \/ (\E res \in {"answered", "failed"} : Answer(r, res))
               \/ RecordMemory(r) \/ CommitMemory(r) \/ Disconnect(r)
        PROVE  EventsIndexed'
    BY <1>4 DEF FindRun, StoreRun, RouteFails, Load, LoadFails, Answer, RecordMemory, CommitMemory,
                Disconnect, eventVars
  <1>5. ASSUME NEW i \in Ingest, NEW e \in Keyed(i), ianswer' = [ianswer EXCEPT ![i] = e.by],
               UNCHANGED events
        PROVE  EventsIndexed'
    BY <1>5 DEF Keyed, Domains
  <1>6. ASSUME NEW i \in Ingest, CheckEvent(i) PROVE EventsIndexed'
    <2>1. CASE \E answer \in {"404", None} : ianswer' = [ianswer EXCEPT ![i] = answer]
      BY <1>6, <2>1, ChatEndpointAssumption DEF CheckEvent, Domains
    <2>2. CASE \E e \in Keyed(i) : ianswer' = [ianswer EXCEPT ![i] = e.by]
      BY <1>5, <1>6, <2>2 DEF CheckEvent
    <2> QED
      BY <1>6, <2>1, <2>2 DEF CheckEvent, IngestTo
  <1>7. ASSUME NEW i \in Ingest, InsertEvent(i) PROVE EventsIndexed'
    <2>1. CASE Keyed(i) = {}
      <3>1. events' = events \cup {Event("ingested", i, KeyOf[i])}
            /\ ianswer' = [ianswer EXCEPT ![i] = i]
        BY <1>7, <2>1 DEF InsertEvent, append_event, IngestTo
      <3>2. Event("ingested", i, KeyOf[i]).key = KeyOf[i] /\ Event("ingested", i, KeyOf[i]).by = i
        BY DEF Event
      <3>3. \A e \in events : e.key # KeyOf[i]
        BY <2>1 DEF Keyed
      <3> QED
        BY <3>1, <3>2, <3>3 DEF Domains
    <2>2. CASE Keyed(i) # {}
      BY <1>5, <1>7, <2>2 DEF InsertEvent, append_event, IngestTo
    <2> QED
      BY <2>1, <2>2
  <1>8. CASE inspect \/ Tick \/ Crash \/ UNCHANGED vars
    BY <1>8 DEF inspect, Tick, Crash, vars, eventVars
  <1> QED
    BY <1>2, <1>3, <1>4, <1>6, <1>7, <1>8 DEF Next, RequestStep

(* A name, of a run or of an event, identifies what it names.               *)
THEOREM NamesSound == Spec => []NamesIdentify
  <1>1. RunsKept /\ EventsIndexed => NamesIdentify
    BY ChatEndpointAssumption DEF RunsKept, EventsIndexed, NamesIdentify, OneRunPerName, EventOnce
  <1> QED
    BY InitDomains, DomainsStep, RunsStep, InitEvents, EventsStep, <1>1, PTL DEF Spec

-----------------------------------------------------------------------------
Routed == {"loading", "answering", "auditing", "recording", "committing", "done"}

(* A request whose routing decided goes on, in the flat mode, only when the *)
(* message is for its agent; one that was silenced is never answered.       *)
TargetsKept ==
    \A r \in sure :
        /\ r \in Request
        /\ pc[r] \in Routed
        /\ mode = "flat" /\ (pc[r] # "done" \/ result[r] = "answered")
              => Target(ask[r].talk) \in {None, ask[r].agent}

(* Nothing has been routed.                                                 *)
LEMMA InitTargets == Init => TargetsKept
  BY DEF Init, TargetsKept

(* Nothing but the decision lets a routed request on.                       *)
LEMMA TargetsStep ==
    ASSUME Domains, TargetsKept, [Next]_vars
    PROVE  TargetsKept'
  <1> USE DEF Domains, TargetsKept, Routed, Stages, Goto
  <1>1. ASSUME NEW r \in Request, NEW a \in Asks, Refuse(r, a) \/ Throttle(r, a) \/ Admit(r, a)
        PROVE  TargetsKept'
    BY <1>1, ArrivalStep
  <1>2. ASSUME NEW r \in Request, FindRun(r) \/ StoreRun(r) \/ RouteFails(r)
        PROVE  TargetsKept'
    BY <1>2 DEF FindRun, StoreRun, RouteFails, At, askVars
  <1>3. ASSUME NEW r \in Request, Route(r) PROVE TargetsKept'
    <2>1. PICK respond \in route_message(mode, ask[r].agent, ask[r].talk) :
              IF respond THEN Goto(r, AfterRouting(r)) /\ UNCHANGED result
                         ELSE Finish(r, "suppressed")
      BY <1>3 DEF Route
    <2>2. pc[r] = "routing" /\ sure' = sure \cup {r} /\ UNCHANGED <<mode, ask>>
      BY <1>3 DEF Route, At, askVars
    <2>3. CASE respond
      <3>1. mode = "flat" => Target(ask[r].talk) \in {None, ask[r].agent}
        BY <2>1, <2>3 DEF route_message
      <3>2. pc' = [pc EXCEPT ![r] = AfterRouting(r)] /\ AfterRouting(r) \in {"answering", "loading"}
            /\ UNCHANGED result
        BY <2>1, <2>3 DEF AfterRouting
      <3> QED
        BY <2>2, <3>1, <3>2
    <2>4. CASE ~respond
      BY <2>1, <2>2, <2>4 DEF Finish
    <2> QED
      BY <2>3, <2>4
  <1>4. ASSUME NEW r \in Request,
               \/ Load(r) \/ LoadFails(r) \/ (\E res \in {"answered", "failed"} : Answer(r, res))
               \/ PersistCall(r) \/ RecordMemory(r) \/ CommitMemory(r) \/ Disconnect(r)
        PROVE  TargetsKept'
    BY <1>4 DEF Load, LoadFails, Answer, PersistCall, RecordMemory, CommitMemory, Disconnect, At,
                Finish, RecordNext, askVars
  <1>5. CASE (\E i \in Ingest : CheckEvent(i) \/ InsertEvent(i)) \/ inspect \/ Tick \/ UNCHANGED vars
    BY <1>5, OtherStep
  <1>6. CASE Crash
    BY <1>6 DEF Crash, At, askVars
  <1> QED
    BY <1>1, <1>2, <1>3, <1>4, <1>5, <1>6 DEF Next, RequestStep

(* Agents do not talk over each other in the flat mode.                     *)
THEOREM SpeaksSound == Spec => []OneSpeaks
  <1>1. Domains /\ TargetsKept => OneSpeaks
    <2>1. ASSUME NEW c, ~c.lobe, ~RouteRequired("flat", c, FALSE) PROVE Target(c) = None
      BY <2>1 DEF RouteRequired, routing_requested, flat_route_required, explicit_addressee, Target
    <2> QED
      BY <2>1 DEF TargetsKept, OneSpeaks
  <1> QED
    BY InitDomains, DomainsStep, InitTargets, TargetsStep, <1>1, PTL DEF Spec

-----------------------------------------------------------------------------
(* An entry of an answered request, in the space of its key's persona.      *)
OfAnswer(e) ==
    /\ e.by \in Request
    /\ result[e.by] = "answered"
    /\ ask[e.by].key = "companion" => e.space = Persona

(* A request has an entry that waits for its commit while it commits, and   *)
(* one in the journal when it is done; it has never both, and never two.    *)
EntriesKept ==
    /\ \A e \in pending : OfAnswer(e) /\ pc[e.by] = "committing"
    /\ \A e \in journal \ Earlier : OfAnswer(e) /\ pc[e.by] = "done"
    /\ \A e, f \in pending : e.by = f.by => e = f
    /\ \A e, f \in journal \ Earlier : e.by = f.by => e = f
    /\ \A r \in Request : pc[r] \in {"recording", "committing"} => result[r] = "answered"

(* Nothing is recorded but what was there.                                  *)
LEMMA InitEntries == Init => EntriesKept
  BY DEF Init, MemoryInit, EntriesKept

(* An entry is inserted once, after the answer, and committed once or lost. *)
LEMMA EntriesStep ==
    ASSUME Domains, EntriesKept, [Next]_vars
    PROVE  EntriesKept'
  <1> USE DEF Domains, EntriesKept, Stages, Goto, OfAnswer
  <1>1. ASSUME NEW r \in Request, NEW a \in Asks, Refuse(r, a) \/ Throttle(r, a) \/ Admit(r, a)
        PROVE  EntriesKept'
    BY <1>1, ArrivalStep
  <1>2. ASSUME NEW r \in Request,
               \/ FindRun(r) \/ StoreRun(r) \/ Route(r) \/ RouteFails(r) \/ Load(r) \/ LoadFails(r)
        PROVE  EntriesKept'
    <2>1. /\ pc[r] \in {"finding", "storing", "routing", "loading"}
          /\ UNCHANGED <<ask, journal, pending>>
          /\ \E there \in {"storing", "routing", "loading", "answering", "done"} : Goto(r, there)
          /\ result' = result \/ \E res : result' = [result EXCEPT ![r] = res]
      BY <1>2 DEF FindRun, StoreRun, Route, RouteFails, Load, LoadFails, At, Finish, AfterRouting,
                  askVars, memoryVars
    <2> QED
      BY <2>1
  <1>3. ASSUME NEW r \in Request, NEW res, Answer(r, res) PROVE EntriesKept'
    BY <1>3 DEF Answer, At, RecordNext, memoryVars
  <1>4. ASSUME NEW r \in Request, PersistCall(r) PROVE EntriesKept'
    BY <1>4 DEF PersistCall, At, RecordNext, askVars, memoryVars
  <1>5. ASSUME NEW r \in Request, RecordMemory(r) PROVE EntriesKept'
    <2> DEFINE new == [id |-> serial + 1, space |-> SpaceOf(ask[r]), by |-> r, topic |-> ask[r].topic,
                       dense |-> ask[r].dense]
    <2>1. /\ pc[r] = "recording" /\ pc' = [pc EXCEPT ![r] = "committing"]
          /\ pending' = pending \cup {new} /\ UNCHANGED <<ask, result, journal>>
      BY <1>5 DEF RecordMemory, RecordInsert, At, askVars
    <2>2. new.by = r /\ (ask[r].key = "companion" => new.space = Persona)
      BY DEF SpaceOf
    <2> HIDE DEF new
    <2> QED
      BY <2>1, <2>2
  <1>6. ASSUME NEW r \in Request, CommitMemory(r) \/ Disconnect(r) PROVE EntriesKept'
    <2>1. /\ pc[r] \in {"answering", "recording", "committing"} /\ pc' = [pc EXCEPT ![r] = "done"]
          /\ UNCHANGED <<ask, result>>
          /\ \/ pc[r] = "committing" /\ RecordCommit(r)
             \/ RecordLost(r)
      BY <1>6 DEF CommitMemory, Disconnect, At, askVars
    <2> QED
      BY <2>1 DEF RecordCommit, RecordLost, Uncommitted
  <1>7. CASE (\E i \in Ingest : CheckEvent(i) \/ InsertEvent(i)) \/ inspect \/ Tick \/ UNCHANGED vars
    BY <1>7, OtherStep
  <1>8. CASE Crash
    BY <1>8 DEF Crash, At, askVars
  <1> QED
    BY <1>1, <1>2, <1>3, <1>4, <1>5, <1>6, <1>7, <1>8 DEF Next, RequestStep

(* The journal is one of answered requests, each recorded once.             *)
THEOREM JournalSound == Spec => []JournalOfAnswers
  <1>1. EntriesKept => JournalOfAnswers
    BY ChatEndpointAssumption DEF EntriesKept, OfAnswer, JournalOfAnswers
  <1> QED
    BY InitDomains, DomainsStep, InitEntries, EntriesStep, <1>1, PTL DEF Spec

-----------------------------------------------------------------------------
(* The newest n entries of a set: whatever is newer than one of them is one *)
(* of them, they are at most n, and all when they are fewer.                *)
LEMMA NewestFirst ==
    ASSUME NEW es, IsFiniteSet(es), \A e \in es : e.id \in Nat,
           \A e, f \in es : e.id = f.id => e = f, NEW n \in Nat \ {0}
    PROVE  /\ \A e \in Newest(es, n), f \in es : f.id > e.id => f \in Newest(es, n)
           /\ IsFiniteSet(Newest(es, n))
           /\ Cardinality(Newest(es, n)) \in 0 .. n
           /\ Cardinality(Newest(es, n)) # n => Newest(es, n) = es
  <1> DEFINE R == Newest(es, n)
  <1>1. /\ R \subseteq es /\ IsFiniteSet(R) /\ Cardinality(R) \in Nat
        /\ \A e \in es : e \in R <=> Cardinality(Newer(es, e)) < n
    <2>1. R \subseteq es /\ \A e \in es : e \in R <=> Cardinality(Newer(es, e)) < n
      BY DEF Newest
    <2> QED
      BY <2>1, FS_Subset, FS_CardinalityType
  <1>2. \A e \in es : /\ Newer(es, e) \subseteq es /\ IsFiniteSet(Newer(es, e))
                      /\ Cardinality(Newer(es, e)) \in Nat
    <2>1. \A e \in es : Newer(es, e) \subseteq es
      BY DEF Newer
    <2> QED
      BY <2>1, FS_Subset, FS_CardinalityType
  <1>3. ASSUME NEW e \in es, NEW f \in es, f.id > e.id
        PROVE  Cardinality(Newer(es, f)) < Cardinality(Newer(es, e))
    <2>1. Newer(es, f) \subseteq Newer(es, e) /\ f \in Newer(es, e) /\ f \notin Newer(es, f)
      BY <1>3 DEF Newer
    <2>2. /\ Cardinality(Newer(es, f)) <= Cardinality(Newer(es, e))
          /\ Cardinality(Newer(es, f)) # Cardinality(Newer(es, e))
      BY <1>2, <2>1, FS_Subset
    <2> QED
      BY <1>2, <2>2
  <1>4. ASSUME NEW e \in R, NEW f \in es, f.id > e.id PROVE f \in R
    <2>1. e \in es /\ Cardinality(Newer(es, e)) < n
      BY <1>1
    <2>2. Cardinality(Newer(es, f)) < Cardinality(Newer(es, e))
      BY <1>3, <1>4, <2>1
    <2>3. Cardinality(Newer(es, f)) < n
      BY <1>2, <2>1, <2>2
    <2> QED
      BY <1>1, <2>3
  <1>5. Cardinality(R) <= n
    <2>1. CASE R = {}
      BY <2>1, FS_EmptySet
    <2>2. CASE R # {}
      <3>1. {e.id : e \in R} \in SUBSET Nat /\ {e.id : e \in R} # {}
        BY <1>1, <2>2
      <3>2. PICK m \in {e.id : e \in R} : \A k \in {e.id : e \in R} : m <= k
        BY <3>1, LeastNumber
      <3>3. PICK e \in R : m = e.id
        BY <3>2
      <3>4. ASSUME NEW f \in R PROVE f = e \/ f \in Newer(es, e)
        <4>1. f \in es /\ e \in es /\ f.id \in Nat /\ e.id \in Nat /\ e.id <= f.id
          BY <1>1, <3>2, <3>3
        <4> QED
          BY <4>1 DEF Newer
      <3>5. e \in es /\ Cardinality(Newer(es, e)) < n /\ IsFiniteSet(Newer(es, e))
            /\ Cardinality(Newer(es, e)) \in Nat /\ e \notin Newer(es, e)
        BY <1>1, <1>2 DEF Newer
      <3>6. /\ IsFiniteSet(Newer(es, e) \cup {e})
            /\ Cardinality(Newer(es, e) \cup {e}) = Cardinality(Newer(es, e)) + 1
        BY <3>5, FS_AddElement
      <3>7. Cardinality(R) <= Cardinality(Newer(es, e) \cup {e})
        BY <3>4, <3>6, FS_Subset
      <3> QED
        BY <1>1, <3>5, <3>6, <3>7
    <2> QED
      BY <2>1, <2>2
  <1>6. ASSUME Cardinality(R) < n PROVE R = es
    <2> SUFFICES ASSUME es \ R # {} PROVE FALSE
      BY <1>1
    <2> DEFINE Ranks == {Cardinality(Newer(es, e)) : e \in es \ R}
    <2>1. Ranks \in SUBSET Nat /\ Ranks # {}
      BY <1>2
    <2>2. PICK m \in Ranks : \A k \in Ranks : m <= k
      BY <2>1, LeastNumber
    <2>3. PICK e \in es \ R : m = Cardinality(Newer(es, e))
      BY <2>2
    <2>4. ASSUME NEW f \in Newer(es, e) PROVE f \in R
      <3>1. f \in es /\ f.id > e.id
        BY DEF Newer
      <3>2. Cardinality(Newer(es, f)) < Cardinality(Newer(es, e))
        BY <1>3, <2>3, <3>1
      <3>3. f \notin R => m <= Cardinality(Newer(es, f))
        BY <2>2, <3>1
      <3>4. Cardinality(Newer(es, f)) \in Nat /\ Cardinality(Newer(es, e)) \in Nat
        BY <1>2, <2>3, <3>1
      <3> HIDE DEF R
      <3> QED
        BY <2>3, <3>2, <3>3, <3>4
    <2>5. Cardinality(Newer(es, e)) <= Cardinality(R)
      BY <1>1, <2>4, FS_Subset
    <2> QED
      BY <1>1, <1>2, <1>6, <2>3, <2>5
  <1> HIDE DEF R
  <1>7. /\ \A e \in R, f \in es : f.id > e.id => f \in R
        /\ IsFiniteSet(R) /\ Cardinality(R) \in 0 .. n /\ (Cardinality(R) # n => R = es)
    BY <1>1, <1>4, <1>5, <1>6
  <1> QED
    BY <1>7 DEF R

-----------------------------------------------------------------------------
Entries == journal \cup pending

(* Entries are numbered from 1, each number is given out once.              *)
Numbered ==
    /\ serial \in Nat
    /\ IsFiniteSet(Entries)
    /\ \A e \in Entries : e.id \in 1 .. serial
    /\ \A e, f \in Entries : e.id = f.id => e = f

(* The journal at the start is numbered.                                    *)
LEMMA InitNumbered == Init => Numbered
  <1> SUFFICES ASSUME Init PROVE Numbered
    OBVIOUS
  <1>1. Entries = Earlier /\ serial = Cardinality(Earlier)
    BY DEF Init, MemoryInit, Entries
  <1> QED
    BY <1>1, SharedMemoryAssumption, FS_CardinalityType DEF Numbered

(* Which steps touch the memory.                                            *)
LEMMA MemoryStep ==
    ASSUME [Next]_vars
    PROVE  \/ UNCHANGED memoryVars
           \/ journal' = journal /\ pending' \subseteq pending /\ serial' = serial
           \/ \E r \in Request : RecordCommit(r)
           \/ \E r \in Request : RecordInsert(r, SpaceOf(ask[r]), ask[r].topic, ask[r].dense)
  <1> USE DEF memoryVars
  <1>1. ASSUME NEW r \in Request, NEW a \in Asks, Refuse(r, a) \/ Throttle(r, a) \/ Admit(r, a)
        PROVE  UNCHANGED memoryVars
    BY <1>1, ArrivalStep
  <1>2. ASSUME NEW r \in Request,
               \/ FindRun(r) \/ StoreRun(r) \/ Route(r) \/ RouteFails(r) \/ Load(r) \/ LoadFails(r)
               \/ (\E res \in {"answered", "failed"} : Answer(r, res)) \/ PersistCall(r)
        PROVE  UNCHANGED memoryVars
    BY <1>2 DEF FindRun, StoreRun, Route, RouteFails, Load, LoadFails, Answer, PersistCall
  <1>3. ASSUME NEW r \in Request, RecordMemory(r)
        PROVE  RecordInsert(r, SpaceOf(ask[r]), ask[r].topic, ask[r].dense)
    BY <1>3 DEF RecordMemory
  <1>4. ASSUME NEW r \in Request, CommitMemory(r) \/ Disconnect(r)
        PROVE  RecordCommit(r)
               \/ (journal' = journal /\ pending' \subseteq pending /\ serial' = serial)
    BY <1>4 DEF CommitMemory, Disconnect, RecordLost
  <1>5. CASE (\E i \in Ingest : CheckEvent(i) \/ InsertEvent(i)) \/ inspect \/ Tick \/ UNCHANGED vars
    BY <1>5, OtherStep
  <1>6. CASE Crash
    BY <1>6 DEF Crash
  <1> QED
    BY <1>1, <1>2, <1>3, <1>4, <1>5, <1>6 DEF Next, RequestStep

(* A number is taken when an entry is inserted and stays with it.           *)
LEMMA NumberedStep ==
    ASSUME Numbered, [Next]_vars
    PROVE  Numbered' /\ journal \subseteq journal'
  <1> USE DEF Numbered, Entries
  <1>1. CASE UNCHANGED memoryVars \/ (journal' = journal /\ pending' \subseteq pending /\ serial' = serial)
    <2>1. Entries' \subseteq Entries /\ serial' = serial /\ journal \subseteq journal'
      BY <1>1 DEF memoryVars
    <2>2. IsFiniteSet(Entries')
      BY <2>1, FS_Subset
    <2> QED
      BY <2>1, <2>2
  <1>2. ASSUME NEW r \in Request, RecordCommit(r)
        PROVE  Numbered' /\ journal \subseteq journal'
    <2>1. Entries' = Entries /\ serial' = serial /\ journal \subseteq journal'
      BY <1>2 DEF RecordCommit, Uncommitted
    <2> QED
      BY <2>1
  <1>3. ASSUME NEW r \in Request,
               RecordInsert(r, SpaceOf(ask[r]), ask[r].topic, ask[r].dense)
        PROVE  Numbered' /\ journal \subseteq journal'
    <2> DEFINE new == [id |-> serial + 1, space |-> SpaceOf(ask[r]), by |-> r, topic |-> ask[r].topic,
                       dense |-> ask[r].dense]
    <2>1. journal' = journal /\ pending' = pending \cup {new} /\ serial' = serial + 1
      BY <1>3 DEF RecordInsert
    <2>2. new.id = serial + 1
      OBVIOUS
    <2> HIDE DEF new
    <2>3. Entries' = Entries \cup {new}
      BY <2>1
    <2>4. IsFiniteSet(Entries')
      BY <2>3, FS_AddElement
    <2>5. \A e, f \in Entries' : e.id = f.id => e = f
      BY <2>2, <2>3
    <2> QED
      BY <2>1, <2>2, <2>3, <2>4, <2>5
  <1> QED
    BY <1>1, <1>2, <1>3, MemoryStep

(* A page is a stretch of what was before it, without a gap, and the next   *)
(* page begins under its lowest entry, or there is nothing under it.        *)
LEMMA PageFacts ==
    ASSUME Numbered, NEW before,
           NEW open, open = {e \in EntriesOf(Default) : before = 0 \/ e.id < before},
           NEW rows, rows = Page(Default, before)
    PROVE  /\ rows \subseteq open
           /\ next_before(rows) \in Nat
           /\ next_before(rows) = 0 => rows = open
           /\ next_before(rows) # 0 => /\ \E e \in rows : e.id = next_before(rows)
                                       /\ \A e \in rows : e.id >= next_before(rows)
                                       /\ \A e \in open : e.id >= next_before(rows) => e \in rows
  <1>1. /\ open \subseteq Entries /\ IsFiniteSet(open)
        /\ \A e \in open : e.id \in Nat \ {0}
        /\ \A e, f \in open : e.id = f.id => e = f
    <2>1. open \subseteq Entries
      BY DEF EntriesOf, Entries
    <2> QED
      BY <2>1, FS_Subset DEF Numbered
  <1>2. rows = Newest(open, PageSize) /\ rows \subseteq open
    BY DEF Page, Newest
  <1>3. /\ \A e \in rows, f \in open : f.id > e.id => f \in rows
        /\ IsFiniteSet(rows) /\ (Cardinality(rows) # PageSize => rows = open)
    <2>1. PageSize \in Nat \ {0} /\ \A e \in open : e.id \in Nat
      BY <1>1, SharedMemoryAssumption
    <2>2. /\ \A e \in Newest(open, PageSize), f \in open :
                f.id > e.id => f \in Newest(open, PageSize)
          /\ IsFiniteSet(Newest(open, PageSize))
          /\ Cardinality(Newest(open, PageSize)) # PageSize => Newest(open, PageSize) = open
      BY <1>1, <2>1, NewestFirst
    <2> QED
      BY <1>2, <2>2
  <1>4. CASE Cardinality(rows) # PageSize
    BY <1>2, <1>3, <1>4 DEF next_before
  <1>5. CASE Cardinality(rows) = PageSize
    <2> DEFINE ids == {e.id : e \in rows}
    <2>1. rows # {}
      BY <1>5, FS_EmptySet, SharedMemoryAssumption
    <2>2. ids \in SUBSET (Nat \ {0}) /\ ids # {}
      BY <1>1, <1>2, <2>1
    <2>3. \E m \in ids : \A k \in ids : m <= k
      BY <2>2, LeastNumber
    <2>4. Min(ids) \in ids /\ \A k \in ids : Min(ids) <= k
      BY <2>3 DEF Min
    <2>5. next_before(rows) = Min(ids)
      BY <1>5 DEF next_before
    <2>6. PICK low \in rows : low.id = Min(ids)
      BY <2>4
    <2>7. ASSUME NEW e \in open, e.id >= Min(ids) PROVE e \in rows
      <3>1. e.id = low.id => e = low
        BY <1>1, <1>2
      <3>2. e.id \in Nat /\ low.id \in Nat
        BY <1>1, <1>2
      <3> QED
        BY <1>3, <2>6, <2>7, <3>1, <3>2
    <2> QED
      BY <1>2, <2>2, <2>4, <2>5, <2>6, <2>7
  <1> QED
    BY <1>4, <1>5

-----------------------------------------------------------------------------
Read == UNION {page.got[n] : n \in DOMAIN page.got}

(* A reader who goes on has read, of what was there when it began, all from *)
(* where it goes on, and nothing below; at the end it has read all of it.   *)
PageKept ==
    /\ page.got \in Seq(SUBSET Nat)
    /\ page.state = "idle" => page = Closed
    /\ page.state \in {"idle", "reading", "done"}
    /\ page.start \subseteq EntriesOf(Default)
    /\ page.state = "reading" =>
          /\ page.before \in Nat \ {0}
          /\ \A id \in Read : id >= page.before
          /\ \A e \in page.start : e.id >= page.before => e.id \in Read
    /\ page.state = "done" => \A e \in page.start : e.id \in Read
    /\ \A m, n \in DOMAIN page.got : m # n => page.got[m] \cap page.got[n] = {}

(* No page has been read.                                                   *)
LEMMA InitPage == Init => PageKept
  BY DEF Init, PageKept, Closed, Read

(* The next page adds what stands between where the last one ended and      *)
(* where it ends itself, which no page before it had.                       *)
LEMMA InspectStep ==
    ASSUME Numbered, PageKept, inspect
    PROVE  PageKept'
  <1> DEFINE rows == Page(Default, page.before)
             next == next_before(rows)
             open == {e \in EntriesOf(Default) : page.before = 0 \/ e.id < page.before}
             ids == {e.id : e \in rows}
  <1>1. /\ page.state # "done" /\ UNCHANGED journal
        /\ page' = [state  |-> IF next = 0 THEN "done" ELSE "reading",
                    before |-> next,
                    got    |-> Append(page.got, ids),
                    start  |-> IF page.state = "idle" THEN EntriesOf(Default) ELSE page.start]
    BY DEF inspect, memoryVars
  <1>2. /\ rows \subseteq open /\ next \in Nat /\ (next = 0 => rows = open)
        /\ next # 0 => /\ \E e \in rows : e.id = next
                       /\ \A e \in rows : e.id >= next
                       /\ \A e \in open : e.id >= next => e \in rows
    <2>1. rows = Page(Default, page.before) /\ next = next_before(rows)
          /\ open = {e \in EntriesOf(Default) : page.before = 0 \/ e.id < page.before}
      OBVIOUS
    <2> HIDE DEF rows, open, next
    <2> QED
      BY <2>1, PageFacts
  <1>3. /\ page.state = "idle" => page.before = 0 /\ page.got = <<>>
        /\ page.state = "reading" => page.before \in Nat \ {0}
        /\ page.state \in {"idle", "reading"}
    BY <1>1 DEF PageKept, Closed
  <1>4. \A e \in EntriesOf(Default) : e.id \in Nat
    BY DEF EntriesOf, Numbered, Entries
  <1> HIDE DEF next, rows
  <1>5. ids \in SUBSET Nat
    BY <1>2, <1>4
  <1>6. page.got \in Seq(SUBSET Nat)
    BY DEF PageKept
  <1>7. Read' = Read \cup ids
    <2>1. page'.got = Append(page.got, ids)
      BY <1>1
    <2> HIDE DEF ids
    <2> QED
      BY <1>5, <1>6, <2>1 DEF Read
  <1>8. \A id \in Read : id \in Nat /\ page.state = "reading" /\ id >= page.before
    BY <1>3, <1>6 DEF PageKept, Read
  <1>9. \A id \in ids : id \notin Read
    BY <1>2, <1>3, <1>4, <1>8
  <1>10. page'.start \subseteq EntriesOf(Default)
    BY <1>1 DEF PageKept
  <1>11. \A e \in page'.start : e \in open \/ e.id \in Read
    <2>1. CASE page.state = "idle"
      BY <1>3, <1>10, <2>1
    <2>2. CASE page.state = "reading"
      BY <1>1, <1>3, <1>4, <1>10, <2>2 DEF PageKept
    <2> QED
      BY <1>3, <2>1, <2>2
  <1>12. page'.state = "done" => \A e \in page'.start : e.id \in Read'
    BY <1>1, <1>2, <1>7, <1>11
  <1>13. page'.state = "reading" =>
            /\ page'.before \in Nat \ {0}
            /\ \A id \in Read' : id >= page'.before
            /\ \A e \in page'.start : e.id >= page'.before => e.id \in Read'
    <2> SUFFICES ASSUME page'.state = "reading"
                 PROVE  /\ page'.before \in Nat \ {0}
                        /\ \A id \in Read' : id >= page'.before
                        /\ \A e \in page'.start : e.id >= page'.before => e.id \in Read'
      OBVIOUS
    <2>1. page'.before = next /\ next # 0
      BY <1>1
    <2>2. \A id \in ids : id >= next
      BY <1>2, <2>1
    <2>3. ASSUME NEW id \in Read PROVE id >= next
      <3>1. page.state = "reading" /\ id \in Nat /\ id >= page.before
        BY <1>8
      <3>2. PICK e \in open : e.id = next
        BY <1>2, <2>1
      <3> QED
        BY <1>3, <1>4, <3>1, <3>2
    <2> QED
      BY <1>2, <1>7, <1>11, <2>1, <2>2, <2>3
  <1>14. \A m, n \in DOMAIN page'.got : m # n => page'.got[m] \cap page'.got[n] = {}
    <2>1. page'.got = Append(page.got, ids)
      BY <1>1
    <2>2. \A n \in DOMAIN page.got : page.got[n] \cap ids = {}
      BY <1>9 DEF Read
    <2>3. DOMAIN page.got = 1 .. Len(page.got) /\ DOMAIN page'.got = 1 .. Len(page.got) + 1
          /\ page'.got[Len(page.got) + 1] = ids
          /\ \A n \in 1 .. Len(page.got) : page'.got[n] = page.got[n]
      <3> HIDE DEF ids
      <3> QED
        BY <1>5, <1>6, <2>1
    <2>4. \A m, n \in DOMAIN page.got : m # n => page.got[m] \cap page.got[n] = {}
      BY DEF PageKept
    <2>5. Len(page.got) \in Nat
      BY <1>6
    <2> HIDE DEF ids
    <2> QED
      BY <2>2, <2>3, <2>4, <2>5
  <1>15. page'.got \in Seq(SUBSET Nat)
    <2> HIDE DEF ids
    <2> QED
      BY <1>1, <1>5, <1>6
  <1>16. page'.start \subseteq EntriesOf(Default)'
    BY <1>1, <1>10 DEF EntriesOf
  <1>17. page'.state \in {"reading", "done"}
    BY <1>1
  <1> QED
    BY <1>12, <1>13, <1>14, <1>15, <1>16, <1>17 DEF PageKept

(* Nothing but the reader moves the page, and entries are never taken away. *)
LEMMA PageStep ==
    ASSUME Numbered, PageKept, [Next]_vars
    PROVE  PageKept'
  <1>1. CASE inspect
    BY <1>1, InspectStep
  <1>2. CASE UNCHANGED page
    <2>1. EntriesOf(Default) \subseteq EntriesOf(Default)'
      BY NumberedStep DEF EntriesOf
    <2> QED
      BY <1>2, <2>1 DEF PageKept, Read
  <1>3. inspect \/ UNCHANGED page
    <2>1. ASSUME NEW r \in Request, NEW a \in Asks, Refuse(r, a) \/ Throttle(r, a) \/ Admit(r, a)
          PROVE  UNCHANGED page
      BY <2>1, ArrivalStep
    <2> QED
      BY <2>1 DEF Next, RequestStep, FindRun, StoreRun, Route, RouteFails, Load, LoadFails, Answer,
                  PersistCall, RecordMemory, CommitMemory, Disconnect, CheckEvent, InsertEvent,
                  append_event, IngestTo, Tick, Crash, vars
  <1> QED
    BY <1>1, <1>2, <1>3

(* A reader who follows next_before to the end misses nothing and reads     *)
(* nothing twice.                                                           *)
THEOREM PagesSound == Spec => []PagesComplete
  <1>1. PageKept => PagesComplete
    BY DEF PageKept, PagesComplete, Read
  <1> QED
    BY InitNumbered, NumberedStep, InitPage, PageStep, <1>1, PTL DEF Spec

-----------------------------------------------------------------------------
(* Induction on the subsets of a finite set: P holds of a set when it holds *)
(* of the set without any one of its elements.                              *)
LEMMA SubsetInduction ==
    ASSUME NEW S, IsFiniteSet(S), NEW P,
           \A R \in SUBSET S : (\A x \in R : R \ {x} \in P) => R \in P
    PROVE  \A R \in SUBSET S : R \in P
  <1> DEFINE T == {n \in Nat : \E R \in SUBSET S : R \notin P /\ Cardinality(R) = n}
  <1> SUFFICES ASSUME NEW Q \in SUBSET S, Q \notin P PROVE FALSE
    OBVIOUS
  <1>1. \A R \in SUBSET S : IsFiniteSet(R) /\ Cardinality(R) \in Nat
    BY FS_Subset, FS_CardinalityType
  <1>2. Cardinality(Q) \in T
    BY <1>1
  <1>3. PICK m \in T : \A n \in T : m <= n
    <2> T \in SUBSET Nat /\ T # {}
      BY <1>2
    <2> HIDE DEF T
    <2> QED
      BY LeastNumber
  <1>4. PICK R \in SUBSET S : R \notin P /\ Cardinality(R) = m
    BY <1>3
  <1>5. PICK x \in R : R \ {x} \notin P
    BY <1>4
  <1>6. Cardinality(R \ {x}) = m - 1
    BY <1>1, <1>4, FS_RemoveElement
  <1>7. R \ {x} \in SUBSET S /\ Cardinality(R \ {x}) \in Nat
    BY <1>1
  <1>8. m - 1 \in T /\ m \in Nat
    BY <1>3, <1>5, <1>6, <1>7
  <1>9. m <= m - 1
    BY <1>3, <1>8
  <1> QED
    BY <1>8, <1>9

(* The element with which the sum over a set begins.                        *)
Some(s) == CHOOSE x \in s : TRUE

(* f is the sum of w over the subsets of S.                                 *)
AddsUp(f, w, S) ==
    /\ f[{}] = 0
    /\ \A s \in SUBSET S : s # {} => f[s] = w[Some(s)] + f[s \ {Some(s)}]

Sums(f, w, S) == f \in [SUBSET S -> Nat] /\ AddsUp(f, w, S)

Weighs(w, S) == IsFiniteSet(S) /\ \A x \in S : w[x] \in Nat

Total(w, S) == (CHOOSE f : Sums(f, w, S))[S]

(* The equations hold for the subsets of up to n elements.                  *)
SumsUpTo(f, w, S, n) ==
    /\ f \in [SUBSET S -> Nat]
    /\ f[{}] = 0
    /\ \A s \in SUBSET S : s # {} /\ Cardinality(s) <= n => f[s] = w[Some(s)] + f[s \ {Some(s)}]

(* The sum over the subsets of a finite set exists.                         *)
LEMMA SumsExist ==
    ASSUME NEW w, NEW S, Weighs(w, S)
    PROVE  \E f : Sums(f, w, S)
  <1> DEFINE T == {n \in Nat : ~(\E f : SumsUpTo(f, w, S, n))}
  <1>1. \A s \in SUBSET S : /\ IsFiniteSet(s) /\ Cardinality(s) \in Nat
                            /\ Cardinality(s) <= Cardinality(S)
    BY FS_Subset, FS_CardinalityType DEF Weighs
  <1>2. \A s \in SUBSET S : s # {} => /\ Some(s) \in s
                                      /\ s \ {Some(s)} \in SUBSET S
                                      /\ Cardinality(s \ {Some(s)}) = Cardinality(s) - 1
                                      /\ w[Some(s)] \in Nat /\ Cardinality(s) # 0
    <2> SUFFICES ASSUME NEW s \in SUBSET S, s # {}
                 PROVE  /\ Some(s) \in s
                        /\ s \ {Some(s)} \in SUBSET S
                        /\ Cardinality(s \ {Some(s)}) = Cardinality(s) - 1
                        /\ w[Some(s)] \in Nat /\ Cardinality(s) # 0
      OBVIOUS
    <2>1. Some(s) \in s
      BY Zenon DEF Some
    <2>2. IsFiniteSet(s)
      BY <1>1
    <2> QED
      BY <2>1, <2>2, FS_RemoveElement, FS_EmptySet DEF Weighs
  <1>3. T = {}
    <2> SUFFICES ASSUME T # {} PROVE FALSE
      OBVIOUS
    <2>1. PICK m \in T : \A n \in T : m <= n
      <3> T \in SUBSET Nat
        OBVIOUS
      <3> HIDE DEF T
      <3> QED
        BY LeastNumber
    <2>2. m \in Nat /\ ~(\E f : SumsUpTo(f, w, S, m))
      OBVIOUS
    <2>3. m # 0
      <3>1. SumsUpTo([s \in SUBSET S |-> 0], w, S, 0)
        BY <1>1, <1>2 DEF SumsUpTo
      <3> QED
        BY <2>2, <3>1, Zenon
    <2>4. m - 1 \in Nat /\ ~(m <= m - 1)
      BY <2>2, <2>3
    <2>5. PICK f : SumsUpTo(f, w, S, m - 1)
      BY <2>1, <2>4, Zenon
    <2> DEFINE h == [s \in SUBSET S |-> IF Cardinality(s) = m THEN w[Some(s)] + f[s \ {Some(s)}] ELSE f[s]]
    <2>6. f \in [SUBSET S -> Nat] /\ f[{}] = 0
      BY <2>5 DEF SumsUpTo
    <2>7. {} \in SUBSET S /\ Cardinality({}) = 0
      BY FS_EmptySet
    <2>8. \A s \in SUBSET S : Cardinality(s) = m => s # {}
      BY <2>3, <2>7
    <2>9. h \in [SUBSET S -> Nat] /\ h[{}] = 0
      <3>1. ASSUME NEW s \in SUBSET S
            PROVE  (IF Cardinality(s) = m THEN w[Some(s)] + f[s \ {Some(s)}] ELSE f[s]) \in Nat
        <4>1. CASE Cardinality(s) = m
          <5>1. w[Some(s)] \in Nat /\ f[s \ {Some(s)}] \in Nat
            BY <1>2, <2>6, <2>8, <4>1
          <5> QED
            BY <4>1, <5>1
        <4>2. CASE Cardinality(s) # m
          BY <2>6, <4>2
        <4> QED
          BY <4>1, <4>2
      <3>2. h \in [SUBSET S -> Nat]
        BY <3>1
      <3>3. h[{}] = f[{}]
        BY <2>3, <2>7
      <3> QED
        BY <2>6, <3>2, <3>3
    <2>10. ASSUME NEW s \in SUBSET S, s # {}, Cardinality(s) <= m
           PROVE  h[s] = w[Some(s)] + h[s \ {Some(s)}]
      <3>1. s \ {Some(s)} \in SUBSET S /\ Cardinality(s \ {Some(s)}) = Cardinality(s) - 1
        BY <1>2, <2>10
      <3>2. Cardinality(s) \in Nat
        BY <1>1
      <3>3. h[s \ {Some(s)}] = f[s \ {Some(s)}]
        BY <2>2, <2>10, <3>1, <3>2
      <3>4. CASE Cardinality(s) = m
        BY <3>3, <3>4
      <3>5. CASE Cardinality(s) # m
        <4>1. Cardinality(s) <= m - 1
          BY <2>2, <2>10, <3>2, <3>5
        <4>2. f[s] = w[Some(s)] + f[s \ {Some(s)}]
          BY <2>5, <2>10, <4>1 DEF SumsUpTo
        <4> QED
          BY <3>3, <3>5, <4>2
      <3> QED
        BY <3>4, <3>5
    <2>11. SumsUpTo(h, w, S, m)
      <3> HIDE DEF h
      <3> QED
        BY <2>9, <2>10 DEF SumsUpTo
    <2> QED
      BY <2>2, <2>11, Zenon
  <1>4. Cardinality(S) \in Nat
    BY <1>1
  <1>5. PICK f : SumsUpTo(f, w, S, Cardinality(S))
    BY <1>3, <1>4, Zenon
  <1>6. Sums(f, w, S)
    BY <1>1, <1>5 DEF Sums, AddsUp, SumsUpTo
  <1> QED
    BY <1>6

(* The sum depends on the weights of the elements only.                     *)
LEMMA SumsUnique ==
    ASSUME NEW f, NEW w, NEW S, NEW g, NEW v, NEW R, IsFiniteSet(S), AddsUp(f, w, S), AddsUp(g, v, R),
           S \subseteq R, \A x \in S : w[x] = v[x]
    PROVE  f[S] = g[S]
  <1> DEFINE P == {s \in SUBSET S : f[s] = g[s]}
  <1>1. ASSUME NEW s \in SUBSET S, \A x \in s : s \ {x} \in P PROVE s \in P
    <2>1. CASE s = {}
      BY <2>1 DEF AddsUp
    <2>2. CASE s # {}
      <3>1. Some(s) \in s
        BY <2>2, Zenon DEF Some
      <3>2. f[s \ {Some(s)}] = g[s \ {Some(s)}] /\ w[Some(s)] = v[Some(s)]
        BY <1>1, <3>1
      <3>3. f[s] = w[Some(s)] + f[s \ {Some(s)}]
        BY <2>2 DEF AddsUp
      <3>4. g[s] = v[Some(s)] + g[s \ {Some(s)}]
        <4>1. s \in SUBSET R
          OBVIOUS
        <4> QED
          BY <2>2, <4>1 DEF AddsUp
      <3> QED
        BY <3>2, <3>3, <3>4
    <2> QED
      BY <2>1, <2>2
  <1>2. \A s \in SUBSET S : s \in P
    <2> HIDE DEF P
    <2> QED
      BY <1>1, SubsetInduction
  <1>3. S \in P
    BY <1>2
  <1> QED
    BY <1>3

(* What a sum begins with, and that it is a number.                         *)
LEMMA TotalFacts ==
    ASSUME NEW w, NEW S, Weighs(w, S)
    PROVE  /\ Total(w, S) \in Nat
           /\ S = {} => Total(w, S) = 0
           /\ S # {} => /\ Some(S) \in S
                        /\ Total(w, S) = w[Some(S)] + Total(w, S \ {Some(S)})
  <1>1. PICK f : f = (CHOOSE g : Sums(g, w, S)) /\ Sums(f, w, S)
    BY SumsExist
  <1>2. Total(w, S) = f[S] /\ f \in [SUBSET S -> Nat] /\ S \in SUBSET S
    BY <1>1 DEF Total, Sums
  <1>3. S = {} => Total(w, S) = 0
    BY <1>1, <1>2 DEF Sums, AddsUp
  <1>4. ASSUME S # {}
        PROVE  Some(S) \in S /\ Total(w, S) = w[Some(S)] + Total(w, S \ {Some(S)})
    <2> DEFINE R == S \ {Some(S)}
    <2>1. Some(S) \in S
      BY <1>4, Zenon DEF Some
    <2>2. R \subseteq S /\ IsFiniteSet(R) /\ Weighs(w, R)
      BY FS_Subset DEF Weighs
    <2>3. PICK g : g = (CHOOSE h : Sums(h, w, R)) /\ Sums(g, w, R)
      BY <2>2, SumsExist
    <2>4. g[R] = f[R]
      <3> HIDE DEF R
      <3> QED
        BY <1>1, <2>2, <2>3, SumsUnique DEF Sums
    <2>5. Total(w, R) = f[R]
      BY <2>3, <2>4 DEF Total
    <2>6. f[S] = w[Some(S)] + f[R]
      BY <1>1, <1>2, <1>4 DEF Sums, AddsUp
    <2> QED
      BY <1>2, <2>1, <2>5, <2>6
  <1> QED
    BY <1>2, <1>3, <1>4

(* Weights that agree on a set have the same sum.                           *)
LEMMA TotalSame ==
    ASSUME NEW w, NEW v, NEW S, Weighs(w, S), \A x \in S : w[x] = v[x]
    PROVE  Total(w, S) = Total(v, S)
  <1>1. Weighs(v, S) /\ IsFiniteSet(S)
    BY DEF Weighs
  <1>2. PICK f : f = (CHOOSE h : Sums(h, w, S)) /\ Sums(f, w, S)
    BY SumsExist
  <1>3. PICK g : g = (CHOOSE h : Sums(h, v, S)) /\ Sums(g, v, S)
    BY <1>1, SumsExist
  <1>4. f[S] = g[S]
    BY <1>1, <1>2, <1>3, SumsUnique DEF Sums
  <1> QED
    BY <1>2, <1>3, <1>4 DEF Total

(* A further element adds its weight, whatever element the sum begins with. *)
LEMMA TotalAdd ==
    ASSUME NEW w, NEW S, Weighs(w, S), NEW y, y \notin S, w[y] \in Nat
    PROVE  Total(w, S \cup {y}) = Total(w, S) + w[y]
  <1> DEFINE U == S \cup {y}
             P == {R \in SUBSET U : \A x \in U \ R : Total(w, R \cup {x}) = Total(w, R) + w[x]}
  <1>1. Weighs(w, U) /\ IsFiniteSet(U)
    BY FS_AddElement DEF Weighs
  <1>2. \A R \in SUBSET U : Weighs(w, R)
    BY <1>1, FS_Subset DEF Weighs
  <1>3. ASSUME NEW R \in SUBSET U, \A x \in R : R \ {x} \in P PROVE R \in P
    <2> SUFFICES ASSUME NEW x \in U \ R PROVE Total(w, R \cup {x}) = Total(w, R) + w[x]
      OBVIOUS
    <2> DEFINE V == R \cup {x}
               z == Some(V)
    <2>1. V \in SUBSET U /\ V # {} /\ x \in V /\ V \ {x} = R
      OBVIOUS
    <2>2. z \in V /\ Total(w, V) = w[z] + Total(w, V \ {z})
      <3> HIDE DEF V
      <3> QED
        BY <1>2, <2>1, TotalFacts
    <2> HIDE DEF z
    <2>3. Total(w, R) \in Nat /\ w[x] \in Nat /\ w[z] \in Nat
      BY <1>1, <1>2, <2>2, TotalFacts DEF Weighs
    <2>4. CASE z = x
      <3>1. Total(w, V) = w[x] + Total(w, R)
        BY <2>1, <2>2, <2>4
      <3> QED
        BY <2>3, <3>1
    <2>5. CASE z # x
      <3> DEFINE Q == R \ {z}
      <3>1. z \in R /\ Q \in P /\ z \in U \ Q /\ x \in U \ Q
        BY <1>3, <2>2, <2>5
      <3>2. Q \cup {z} = R /\ Q \cup {x} = V \ {z}
        BY <2>5, <3>1
      <3>3. Q \in SUBSET U
        OBVIOUS
      <3>4. Total(w, Q \cup {x}) = Total(w, Q) + w[x] /\ Total(w, Q \cup {z}) = Total(w, Q) + w[z]
        BY <3>1
      <3>5. Total(w, Q) \in Nat
        BY <1>2, <3>3, TotalFacts
      <3> HIDE DEF Q, V, P
      <3>6. Total(w, V) = w[z] + (Total(w, Q) + w[x]) /\ Total(w, R) = Total(w, Q) + w[z]
        BY <2>2, <3>2, <3>4
      <3>7. Total(w, V) = Total(w, R) + w[x]
        BY <2>3, <3>5, <3>6
      <3> QED
        BY <3>7 DEF V
    <2> QED
      BY <2>4, <2>5
  <1>4. \A R \in SUBSET U : R \in P
    <2> HIDE DEF P
    <2> QED
      BY <1>1, <1>3, SubsetInduction
  <1>5. S \in P /\ y \in U \ S
    BY <1>4
  <1> QED
    BY <1>5

(* Part of a set has no larger sum.                                         *)
LEMMA TotalSubset ==
    ASSUME NEW w, NEW S, Weighs(w, S), NEW R \in SUBSET S
    PROVE  Total(w, R) <= Total(w, S)
  <1> DEFINE P == {D \in SUBSET (S \ R) : Total(w, R) <= Total(w, R \cup D)}
  <1>1. \A Q \in SUBSET S : Weighs(w, Q)
    BY FS_Subset DEF Weighs
  <1>2. IsFiniteSet(S \ R) /\ (S \ R) \in SUBSET (S \ R)
    BY FS_Subset DEF Weighs
  <1>3. ASSUME NEW D \in SUBSET (S \ R), \A x \in D : D \ {x} \in P PROVE D \in P
    <2>1. CASE D = {}
      <3>1. R \cup D = R /\ Total(w, R) \in Nat
        BY <1>1, <2>1, TotalFacts
      <3>2. Total(w, R) <= Total(w, R \cup D)
        BY <3>1
      <3> QED
        BY <3>2
    <2>2. CASE D # {}
      <3>1. PICK x \in D : TRUE
        BY <2>2
      <3> DEFINE Q == R \cup (D \ {x})
      <3>2. Total(w, R) <= Total(w, Q)
        BY <1>3, <3>1
      <3>3. Q \in SUBSET S /\ x \notin Q /\ w[x] \in Nat /\ Q \cup {x} = R \cup D
        BY <3>1 DEF Weighs
      <3> HIDE DEF Q
      <3>4. Total(w, Q \cup {x}) = Total(w, Q) + w[x] /\ Total(w, Q) \in Nat /\ Total(w, R) \in Nat
        BY <1>1, <3>3, TotalAdd, TotalFacts
      <3>5. Total(w, R \cup D) = Total(w, Q) + w[x]
        BY <3>3, <3>4
      <3>6. Total(w, R) <= Total(w, Q) + w[x]
        BY <3>2, <3>3, <3>4
      <3>7. Total(w, R) <= Total(w, R \cup D)
        BY <3>5, <3>6
      <3> QED
        BY <3>7
    <2> QED
      BY <2>1, <2>2
  <1>4. \A D \in SUBSET (S \ R) : D \in P
    <2> DEFINE B == S \ R
    <2>1. IsFiniteSet(B) /\ \A D \in SUBSET B : (\A x \in D : D \ {x} \in P) => D \in P
      BY <1>2, <1>3
    <2>2. \A D \in SUBSET B : D \in P
      <3> HIDE DEF B, P
      <3> QED
        BY <2>1, SubsetInduction
    <2> QED
      BY <2>2
  <1>5. (S \ R) \in P /\ R \cup (S \ R) = S
    BY <1>2, <1>4
  <1> QED
    BY <1>5

(* A sum of like weights is a product, of weights from 1 on no less than    *)
(* the number of elements.                                                  *)
LEMMA TotalBounds ==
    ASSUME NEW w, NEW S, Weighs(w, S), NEW c \in Nat
    PROVE  /\ (\A x \in S : w[x] = c) => Total(w, S) = c * Cardinality(S)
           /\ (\A x \in S : w[x] >= 1) => Total(w, S) >= Cardinality(S)
  <1> DEFINE P == {R \in SUBSET S :
                      /\ (\A x \in S : w[x] = c) => Total(w, R) = c * Cardinality(R)
                      /\ (\A x \in S : w[x] >= 1) => Total(w, R) >= Cardinality(R)}
  <1>1. \A Q \in SUBSET S : Weighs(w, Q) /\ IsFiniteSet(Q) /\ Cardinality(Q) \in Nat
    BY FS_Subset, FS_CardinalityType DEF Weighs
  <1>2. ASSUME NEW R \in SUBSET S, \A x \in R : R \ {x} \in P PROVE R \in P
    <2>1. CASE R = {}
      <3>1. Total(w, R) = 0
        BY <1>1, <2>1, TotalFacts
      <3>2. Cardinality(R) = 0 /\ c * 0 = 0
        BY <2>1, FS_EmptySet
      <3> QED
        BY <3>1, <3>2
    <2>2. CASE R # {}
      <3>1. PICK x \in R : TRUE
        BY <2>2
      <3> DEFINE Q == R \ {x}
                 n == Cardinality(Q)
      <3>2. Q \in P /\ Q \in SUBSET S /\ x \notin Q /\ w[x] \in Nat /\ Q \cup {x} = R
        BY <1>2, <3>1 DEF Weighs
      <3>3. Total(w, R) = Total(w, Q) + w[x] /\ Total(w, Q) \in Nat
        <4> HIDE DEF Q
        <4>1. Total(w, Q \cup {x}) = Total(w, Q) + w[x]
          BY <1>1, <3>2, TotalAdd
        <4> QED
          BY <1>1, <3>2, <4>1, TotalFacts
      <3>4. Cardinality(R) = n + 1 /\ n \in Nat
        <4> HIDE DEF Q
        <4>1. Cardinality(Q \cup {x}) = Cardinality(Q) + 1
          BY <1>1, <3>2, FS_AddElement
        <4> QED
          BY <1>1, <3>2, <4>1
      <3>5. ASSUME \A y \in S : w[y] = c PROVE Total(w, R) = c * Cardinality(R)
        <4>1. Total(w, Q) = c * n /\ w[x] = c
          BY <3>1, <3>2, <3>5
        <4>2. c * (n + 1) = c * n + c
          BY <3>4
        <4> HIDE DEF Q, n
        <4> QED
          BY <3>3, <3>4, <4>1, <4>2
      <3>6. ASSUME \A y \in S : w[y] >= 1 PROVE Total(w, R) >= Cardinality(R)
        <4>1. Total(w, Q) >= n /\ w[x] >= 1
          BY <3>1, <3>2, <3>6
        <4> HIDE DEF Q, n
        <4> QED
          BY <3>2, <3>3, <3>4, <4>1
      <3> QED
        BY <3>5, <3>6
    <2> QED
      BY <2>1, <2>2
  <1>3. \A R \in SUBSET S : R \in P
    <2> HIDE DEF P
    <2> QED
      BY <1>2, SubsetInduction DEF Weighs
  <1>4. S \in P
    BY <1>3
  <1> QED
    BY <1>4

(* The weights of hits, as a function.                                      *)
WeightOf(hits) == [h \in hits |-> h.weight]

(* Used, a fold of the community modules, is such a sum.                    *)
LEMMA UsedIsTotal ==
    ASSUME NEW hits, IsFiniteSet(hits), \A h \in hits : h.weight \in Nat
    PROVE  Used(hits) = Total(WeightOf(hits), hits)
  <1> DEFINE w == WeightOf(hits)
             iter == CHOOSE f : f = [s \in SUBSET hits |->
                         IF s = {} THEN 0
                         ELSE (CHOOSE x \in s : TRUE).weight + f[s \ {CHOOSE x \in s : TRUE}]]
  <1>1. Weighs(w, hits)
    BY DEF Weighs, WeightOf
  <1>2. PICK f : Sums(f, w, hits)
    BY <1>1, SumsExist
  <1>3. \A s \in SUBSET hits : s # {} => w[Some(s)] = Some(s).weight
    BY DEF WeightOf, Some
  <1>4. f = [s \in SUBSET hits |->
                         IF s = {} THEN 0
                         ELSE (CHOOSE x \in s : TRUE).weight + f[s \ {CHOOSE x \in s : TRUE}]]
    BY <1>2, <1>3 DEF Sums, AddsUp, Some
  <1>5. iter = [s \in SUBSET hits |->
                         IF s = {} THEN 0
                         ELSE (CHOOSE x \in s : TRUE).weight + iter[s \ {CHOOSE x \in s : TRUE}]]
    BY <1>4, Zenon
  <1>6. Used(hits) = iter[hits]
    BY Zenon DEF Used, MapThenSumSet, MapThenFoldSet
  <1> HIDE DEF iter
  <1>7. AddsUp(iter, w, hits)
    BY <1>3, <1>5 DEF AddsUp, Some
  <1>8. PICK g : g = (CHOOSE h : Sums(h, w, hits)) /\ Sums(g, w, hits)
    BY <1>1, SumsExist
  <1> HIDE DEF w
  <1>9. iter[hits] = g[hits]
    BY <1>7, <1>8, SumsUnique DEF Sums
  <1> QED
    BY <1>6, <1>8, <1>9 DEF Total, w

-----------------------------------------------------------------------------
(* Hits are finitely many, with weights.                                    *)
Weighed(hits) == IsFiniteSet(hits) /\ \A h \in hits : h.weight \in Nat

(* A further hit adds its weight to what is used.                           *)
LEMMA UsedAdd ==
    ASSUME NEW hits, Weighed(hits), NEW h, h \notin hits, h.weight \in Nat
    PROVE  Used(hits \cup {h}) = Used(hits) + h.weight
  <1> DEFINE all == hits \cup {h}
             w == WeightOf(all)
  <1>1. IsFiniteSet(hits) /\ Weighed(all) /\ h \in all /\ hits \subseteq all
    BY FS_AddElement DEF Weighed
  <1>2. \A g \in all : w[g] = g.weight
    BY DEF WeightOf
  <1>3. \A g \in hits : WeightOf(hits)[g] = g.weight
    BY DEF WeightOf
  <1> HIDE DEF w
  <1>4. Weighs(w, hits) /\ w[h] = h.weight /\ w[h] \in Nat
    BY <1>1, <1>2 DEF Weighs, Weighed
  <1>5. Used(all) = Total(w, all)
    <2> HIDE DEF all
    <2> QED
      BY <1>1, UsedIsTotal DEF Weighed, w
  <1>6. Used(hits) = Total(WeightOf(hits), hits)
    BY UsedIsTotal DEF Weighed
  <1>7. Total(w, hits) = Total(WeightOf(hits), hits)
    BY <1>1, <1>2, <1>3, <1>4, TotalSame
  <1>8. Total(w, all) = Total(w, hits) + w[h]
    BY <1>4, TotalAdd
  <1> QED
    BY <1>4, <1>5, <1>6, <1>7, <1>8

(* Part of the hits uses no more, and hits that weigh something use no less *)
(* than their number.                                                       *)
LEMMA UsedBounds ==
    ASSUME NEW hits, Weighed(hits), NEW part \in SUBSET hits
    PROVE  /\ Used(hits) \in Nat
           /\ Used(part) <= Used(hits)
           /\ (\A h \in hits : h.weight >= 1) => Cardinality(hits) <= Used(hits)
  <1> DEFINE w == WeightOf(hits)
  <1>1. /\ \A h \in hits : w[h] = h.weight
        /\ \A h \in part : WeightOf(part)[h] = h.weight
    BY DEF WeightOf
  <1> HIDE DEF w
  <1>2. Weighs(w, hits) /\ IsFiniteSet(part) /\ Weighs(w, part)
    BY <1>1, FS_Subset DEF Weighs, Weighed
  <1>3. Used(hits) = Total(w, hits)
    BY UsedIsTotal DEF Weighed, w
  <1>4. Used(part) = Total(WeightOf(part), part)
    BY <1>2, UsedIsTotal DEF Weighed
  <1>5. Total(w, part) = Total(WeightOf(part), part)
    BY <1>1, <1>2, TotalSame
  <1>6. Total(w, hits) \in Nat /\ Total(w, part) <= Total(w, hits)
    BY <1>2, TotalFacts, TotalSubset
  <1>7. (\A h \in hits : w[h] >= 1) => Total(w, hits) >= Cardinality(hits)
    BY <1>2, TotalBounds
  <1>8. (\A h \in hits : h.weight >= 1) => \A h \in hits : w[h] >= 1
    BY <1>1
  <1>9. Cardinality(hits) \in Nat
    BY FS_CardinalityType DEF Weighed
  <1> QED
    BY <1>3, <1>4, <1>5, <1>6, <1>7, <1>8, <1>9

(* Hits are of the past and of requests that have arrived.                  *)
HitsOf(hits) ==
    /\ Weighed(hits)
    /\ \A h \in hits : /\ h.at \in Nat /\ h.at <= now
                       /\ h.by \in Request => pc[h.by] # "idle"

(* What was admitted in the current window is still charged to the windows, *)
(* whatever else is, so that what they leave is what may still be admitted. *)
Charged ==
    \A g \in admitted :
        now - g.at < Window => /\ \E h \in rpm : h.by = g.by /\ h.at = g.at
                               /\ TpmLimit > 0 => g \in tpm

AdmissionInv ==
    /\ now \in Nat
    /\ HitsOf(rpm) /\ HitsOf(tpm) /\ HitsOf(admitted)
    /\ \A h \in rpm : h.weight = 1
    /\ \A g, h \in admitted : g.by = h.by => g = h
    /\ Charged
    /\ AdmittedWithinLimits

(* What was admitted in the current window fits into what is charged.       *)
LEMMA LiveFits ==
    ASSUME AdmissionInv, NEW live, live = {g \in admitted : now - g.at < Window}
    PROVE  /\ Weighed(live) /\ Weighed(Live(rpm)) /\ Weighed(Live(tpm))
           /\ Cardinality(live) <= Used(Live(rpm))
           /\ TpmLimit > 0 => Used(live) <= Used(Live(tpm))
  <1> USE DEF AdmissionInv, HitsOf
  <1>1. Weighed(live) /\ Weighed(Live(rpm)) /\ Weighed(Live(tpm))
    <2>1. live \subseteq admitted /\ Live(rpm) \subseteq rpm /\ Live(tpm) \subseteq tpm
      BY DEF Live
    <2> QED
      BY <2>1, FS_Subset DEF Weighed
  <1>2. Cardinality(live) <= Cardinality(Live(rpm))
    <2> DEFINE f == [g \in live |-> CHOOSE h \in Live(rpm) : h.by = g.by]
    <2>1. ASSUME NEW g \in live PROVE \E h \in Live(rpm) : h.by = g.by
      BY DEF Charged, Live
    <2>2. \A g \in live : f[g] \in Live(rpm) /\ f[g].by = g.by
      BY <2>1
    <2>3. f \in [live -> Live(rpm)]
      BY <2>2
    <2> HIDE DEF f
    <2>4. \A g, h \in live : f[g] = f[h] => g = h
      <3> SUFFICES ASSUME NEW g \in live, NEW h \in live, f[g] = f[h]
                   PROVE  g = h
        OBVIOUS
      <3>1. g.by = h.by
        BY <2>2
      <3>2. g \in admitted /\ h \in admitted
        OBVIOUS
      <3> QED
        BY <3>1, <3>2
    <2>5. f \in Injection(live, Live(rpm))
      BY <2>3, <2>4 DEF Injection, IsInjective
    <2> QED
      BY <1>1, <2>5, FS_Injection DEF Weighed
  <1>3. Cardinality(Live(rpm)) <= Used(Live(rpm)) /\ Used(Live(rpm)) \in Nat
    <2>1. \A h \in Live(rpm) : h.weight >= 1
      BY DEF Live
    <2> QED
      BY <1>1, <2>1, UsedBounds
  <1>4. Cardinality(live) \in Nat /\ Cardinality(Live(rpm)) \in Nat
    BY <1>1, FS_CardinalityType DEF Weighed
  <1>5. ASSUME TpmLimit > 0 PROVE Used(live) <= Used(Live(tpm))
    <2>1. live \in SUBSET Live(tpm)
      BY <1>5 DEF Charged, Live
    <2> QED
      BY <1>1, <2>1, UsedBounds
  <1> QED
    BY <1>1, <1>2, <1>3, <1>4, <1>5

(* The windows respect the limits at first.                                 *)
LEMMA InitAdmission == Init => AdmissionInv
  <1> SUFFICES ASSUME Init PROVE AdmissionInv
    OBVIOUS
  <1>1. /\ now = 0 /\ tpm = EarlierHits /\ admitted = EarlierHits
        /\ rpm = {[by |-> h.by, at |-> h.at, weight |-> 1] : h \in EarlierHits}
    BY DEF Init
  <1>2. Weighed(EarlierHits) /\ IsFiniteSet(EarlierHits)
    BY AdmissionAssumption DEF Weighed
  <1>3. Weighed(rpm)
    <2> DEFINE f == [h \in EarlierHits |-> [by |-> h.by, at |-> h.at, weight |-> 1]]
    <2>1. IsFiniteSet(rpm)
      <3>1. f \in Surjection(EarlierHits, rpm)
        BY <1>1 DEF Surjection
      <3> QED
        BY <1>2, <3>1, FS_Surjection
    <2> QED
      BY <1>1, <2>1 DEF Weighed
  <1>4. HitsOf(rpm) /\ HitsOf(tpm) /\ HitsOf(admitted)
    BY <1>1, <1>2, <1>3, AdmissionAssumption DEF HitsOf
  <1>5. AdmittedWithinLimits
    <2> SUFFICES ASSUME NEW h \in admitted,
                        NEW window, window = {g \in admitted : g.at <= h.at /\ h.at - g.at < Window}
                 PROVE  /\ RpmLimit > 0 => Cardinality(window) <= RpmLimit
                        /\ TpmLimit > 0 => Used(window) <= TpmLimit
      BY DEF AdmittedWithinLimits
    <2>1. window \in SUBSET EarlierHits
      BY <1>1
    <2>2. /\ Cardinality(window) <= Cardinality(EarlierHits) /\ Used(window) <= Used(EarlierHits)
          /\ {Cardinality(window), Cardinality(EarlierHits), Used(window), Used(EarlierHits)} \subseteq Nat
      <3>1. Weighed(window)
        BY <1>2, <2>1, FS_Subset DEF Weighed
      <3> QED
        BY <1>2, <2>1, <3>1, UsedBounds, FS_Subset, FS_CardinalityType
    <2> QED
      BY <2>2, AdmissionAssumption
  <1>6. Charged
    <2> SUFFICES ASSUME NEW g \in admitted
                 PROVE  /\ \E h \in rpm : h.by = g.by /\ h.at = g.at
                        /\ g \in tpm
      BY DEF Charged
    <2>1. [by |-> g.by, at |-> g.at, weight |-> 1] \in rpm
      BY <1>1
    <2> QED
      BY <1>1, <2>1
  <1> QED
    BY <1>1, <1>4, <1>5, <1>6, AdmissionAssumption DEF AdmissionInv

(* What _local_sliding leaves of a window: what still counts, and the hit   *)
(* when it fits.                                                            *)
LEMMA SlidingFacts ==
    ASSUME NEW hits, HitsOf(hits), NEW r, NEW weight \in Nat, NEW limit, now \in Nat
    PROVE  LET left == _local_sliding(hits, r, weight, limit)
               hit == [by |-> r, at |-> now, weight |-> weight]
           IN  /\ Weighed(left)
               /\ Live(hits) \subseteq left /\ left \subseteq hits \cup {hit}
               /\ Fits(hits, weight, limit) => hit \in left
  <1> DEFINE left == _local_sliding(hits, r, weight, limit)
             hit == [by |-> r, at |-> now, weight |-> weight]
  <1>1. left = Live(hits) \/ left = Live(hits) \cup {hit}
    BY DEF _local_sliding
  <1>2. Live(hits) \subseteq left /\ Live(hits) \subseteq hits /\ (Fits(hits, weight, limit) => hit \in left)
    BY DEF _local_sliding, Live
  <1>3. Weighed(Live(hits)) /\ hit.weight \in Nat
    BY <1>2, FS_Subset DEF HitsOf, Weighed
  <1> HIDE DEF left, hit
  <1>4. Weighed(left)
    BY <1>1, <1>3, FS_AddElement DEF Weighed
  <1> QED
    BY <1>1, <1>2, <1>4 DEF left, hit

(* Throttle and Admit: check_limits keeps in the windows what counts.       *)
LEMMA ChargeStep ==
    ASSUME Domains, AdmissionInv, NEW r \in Request, NEW a \in Asks, Throttle(r, a) \/ Admit(r, a)
    PROVE  /\ now' = now /\ pc[r] = "idle"
           /\ HitsOf(rpm)' /\ HitsOf(tpm)' /\ HitsOf(admitted)'
           /\ \A h \in rpm' : h.weight = 1
           /\ \A g \in admitted : now - g.at < Window =>
                 /\ \E h \in rpm' : h.by = g.by /\ h.at = g.at
                 /\ TpmLimit > 0 => g \in tpm'
           /\ Admit(r, a) => /\ \E h \in rpm' : h.by = r /\ h.at = now
                             /\ TpmLimit > 0 => [by |-> r, at |-> now, weight |-> a.weight] \in tpm'
  <1> DEFINE one == [by |-> r, at |-> now, weight |-> 1]
             hit == [by |-> r, at |-> now, weight |-> a.weight]
  <1>1. /\ now' = now /\ now \in Nat /\ pc[r] = "idle" /\ Charge(r, a)
        /\ \E there : there # "idle" /\ pc' = [pc EXCEPT ![r] = there]
        /\ admitted' = admitted \/ admitted' = admitted \cup {hit}
        /\ a.weight \in Nat /\ 1 \in Nat
    BY AdmissionAssumption DEF AdmissionInv, Throttle, Admit, Arrive, At, Charge, Goto, Finish
  <1>2. /\ rpm' = _local_sliding(rpm, r, 1, RpmLimit)
        /\ tpm' = IF TpmLimit = 0 THEN tpm ELSE _local_sliding(tpm, r, a.weight, TpmLimit)
    BY <1>1 DEF Charge
  <1>3. HitsOf(rpm) /\ HitsOf(tpm) /\ HitsOf(admitted)
    BY DEF AdmissionInv
  <1>4. /\ Weighed(rpm') /\ Live(rpm) \subseteq rpm' /\ rpm' \subseteq rpm \cup {one}
        /\ Fits(rpm, 1, RpmLimit) => one \in rpm'
    BY <1>1, <1>2, <1>3, SlidingFacts
  <1>5. /\ Weighed(tpm') /\ Live(tpm) \subseteq tpm' /\ tpm' \subseteq tpm \cup {hit}
        /\ TpmLimit > 0 /\ Fits(tpm, a.weight, TpmLimit) => hit \in tpm'
    <2>1. CASE TpmLimit = 0
      BY <1>2, <1>3, <2>1 DEF HitsOf, Live
    <2>2. CASE TpmLimit # 0
      BY <1>1, <1>2, <1>3, <2>2, SlidingFacts
    <2> QED
      BY <2>1, <2>2
  <1>6. Weighed(admitted')
    <2>1. Weighed(admitted) /\ hit.weight \in Nat
      BY <1>1, <1>3 DEF HitsOf
    <2> HIDE DEF hit
    <2>2. Weighed(admitted \cup {hit})
      BY <2>1, FS_AddElement DEF Weighed
    <2> QED
      BY <1>1, <2>1, <2>2
  <1>7. ASSUME NEW hits, HitsOf(hits), NEW others, Weighed(others),
               others \subseteq hits \cup {one, hit}
        PROVE  \A h \in others : /\ h.at \in Nat /\ h.at <= now
                                 /\ h.by \in Request => pc'[h.by] # "idle"
    <2>1. pc \in [Request -> Stages]
      BY DEF Domains
    <2> SUFFICES ASSUME NEW h \in others
                 PROVE  /\ h.at \in Nat /\ h.at <= now
                        /\ h.by \in Request => pc'[h.by] # "idle"
      OBVIOUS
    <2>2. CASE h \in hits
      BY <1>1, <1>7, <2>1, <2>2 DEF HitsOf
    <2>3. CASE h \in {one, hit}
      BY <1>1, <2>1, <2>3
    <2> QED
      BY <1>7, <2>2, <2>3
  <1>8. HitsOf(rpm)' /\ HitsOf(tpm)' /\ HitsOf(admitted)'
    <2>1. admitted' \subseteq admitted \cup {one, hit}
      BY <1>1
    <2> HIDE DEF one, hit
    <2> QED
      BY <1>1, <1>3, <1>4, <1>5, <1>6, <1>7, <2>1 DEF HitsOf, Weighed
  <1>9. \A h \in rpm' : h.weight = 1
    BY <1>4 DEF AdmissionInv
  <1>10. ASSUME NEW g \in admitted, now - g.at < Window
         PROVE  (\E h \in rpm' : h.by = g.by /\ h.at = g.at) /\ (TpmLimit > 0 => g \in tpm')
    BY <1>4, <1>5, <1>10 DEF AdmissionInv, Charged, Live
  <1>11. ASSUME Admit(r, a)
         PROVE  (\E h \in rpm' : h.by = r /\ h.at = now) /\ (TpmLimit > 0 => hit \in tpm')
    <2>1. Fits(rpm, 1, RpmLimit) /\ (TpmLimit > 0 => Fits(tpm, a.weight, TpmLimit))
      BY <1>11 DEF Admit, Allowed
    <2> QED
      BY <1>4, <1>5, <2>1
  <1> QED
    BY <1>1, <1>8, <1>9, <1>10, <1>11

(* What was admitted within a window that ends with h.                      *)
WindowOf(h, hits) == {g \in hits : g.at <= h.at /\ h.at - g.at < Window}

(* A request that is admitted is the only one of its name, stays charged,   *)
(* and fits with what was admitted in the window that ends with it; a       *)
(* window that ends earlier is as it was.                                   *)
LEMMA AdmitStep ==
    ASSUME Domains, AdmissionInv, NEW r \in Request, NEW a \in Asks, Admit(r, a)
    PROVE  AdmissionInv'
  <1> DEFINE hit == [by |-> r, at |-> now, weight |-> a.weight]
             live == {g \in admitted : now - g.at < Window}
  <1>1. /\ now' = now /\ now \in Nat /\ pc[r] = "idle" /\ admitted' = admitted \cup {hit}
        /\ HitsOf(rpm)' /\ HitsOf(tpm)' /\ HitsOf(admitted)'
        /\ \A h \in rpm' : h.weight = 1
    BY ChargeStep DEF Admit, AdmissionInv
  <1>2. /\ \A g \in admitted : now - g.at < Window =>
              /\ \E h \in rpm' : h.by = g.by /\ h.at = g.at
              /\ TpmLimit > 0 => g \in tpm'
        /\ \E h \in rpm' : h.by = r /\ h.at = now
        /\ TpmLimit > 0 => hit \in tpm'
    BY ChargeStep
  <1>3. Charged'
    BY <1>1, <1>2 DEF Charged
  <1>4. \A g \in admitted : g.by # r /\ g.at \in Nat /\ g.at <= now
    BY <1>1 DEF AdmissionInv, HitsOf
  <1>5. \A g, h \in admitted' : g.by = h.by => g = h
    BY <1>1, <1>4 DEF AdmissionInv
  <1>6. hit \notin admitted /\ hit.weight = a.weight /\ hit.at = now /\ a.weight \in Nat
    BY <1>4, AdmissionAssumption
  <1>7. /\ Weighed(live) /\ Weighed(Live(rpm)) /\ Weighed(Live(tpm))
        /\ Cardinality(live) <= Used(Live(rpm))
        /\ TpmLimit > 0 => Used(live) <= Used(Live(tpm))
    BY LiveFits
  <1>8. /\ RpmLimit > 0 => Used(Live(rpm)) + 1 <= RpmLimit
        /\ TpmLimit > 0 => Used(Live(tpm)) + a.weight <= TpmLimit
    BY AdmissionAssumption DEF Admit, Allowed, Fits
  <1>9. hit \notin live /\ IsFiniteSet(live) /\ \A g \in live : g.weight \in Nat
    BY <1>6, <1>7 DEF Weighed
  <1>10. {RpmLimit, TpmLimit, Window} \subseteq Nat
    BY AdmissionAssumption
  <1>11. ASSUME NEW h \in admitted', NEW window, window = WindowOf(h, admitted')
         PROVE  /\ RpmLimit > 0 => Cardinality(window) <= RpmLimit
                /\ TpmLimit > 0 => Used(window) <= TpmLimit
    <2>1. CASE h.at = now
      <3>1. window \in SUBSET (live \cup {hit})
        BY <1>1, <1>11, <2>1 DEF WindowOf
      <3> HIDE DEF live, hit
      <3>2. Weighed(live \cup {hit}) /\ IsFiniteSet(live \cup {hit})
        BY <1>6, <1>9, FS_AddElement DEF Weighed
      <3>3. Cardinality(live \cup {hit}) = Cardinality(live) + 1 /\ Cardinality(live) \in Nat
        BY <1>9, FS_AddElement, FS_CardinalityType
      <3>4. Used(live \cup {hit}) = Used(live) + a.weight
        BY <1>6, <1>7, <1>9, UsedAdd
      <3>5. Cardinality(window) <= Cardinality(live \cup {hit}) /\ Cardinality(window) \in Nat
        BY <3>1, <3>2, FS_Subset, FS_CardinalityType
      <3>6. Weighed(window) /\ Used(window) <= Used(live \cup {hit})
        BY <3>1, <3>2, FS_Subset, UsedBounds DEF Weighed
      <3>7. {Used(window), Used(live), Used(Live(rpm)), Used(Live(tpm))} \subseteq Nat
        BY <1>7, <3>6, UsedBounds
      <3>8. ASSUME RpmLimit > 0 PROVE Cardinality(window) <= RpmLimit
        BY <1>7, <1>8, <1>10, <3>3, <3>5, <3>7, <3>8
      <3>9. ASSUME TpmLimit > 0 PROVE Used(window) <= TpmLimit
        BY <1>6, <1>7, <1>8, <1>10, <3>4, <3>6, <3>7, <3>9
      <3> QED
        BY <3>8, <3>9
    <2>2. CASE h.at # now
      <3>1. h \in admitted /\ h.at < now
        BY <1>1, <1>4, <1>6, <2>2
      <3>2. window = WindowOf(h, admitted)
        BY <1>1, <1>4, <1>6, <1>11, <3>1 DEF WindowOf
      <3> QED
        BY <3>1, <3>2 DEF AdmissionInv, AdmittedWithinLimits, WindowOf
    <2> QED
      BY <2>1, <2>2
  <1>12. AdmittedWithinLimits'
    <2> HIDE DEF hit, live
    <2> QED
      BY <1>11, Zenon DEF AdmittedWithinLimits, WindowOf
  <1> QED
    BY <1>1, <1>3, <1>5, <1>12 DEF AdmissionInv

(* The invariant holds over every step: a rejected request only adds to the *)
(* windows, time only takes from what counts, a crash forgets everything.   *)
LEMMA AdmissionStep ==
    ASSUME Domains, AdmissionInv, [Next]_vars
    PROVE  AdmissionInv'
  <1>1. ASSUME UNCHANGED limitVars, \A q \in Request : pc[q] # "idle" => pc'[q] # "idle"
        PROVE  AdmissionInv'
    <2>1. now' = now /\ rpm' = rpm /\ tpm' = tpm /\ admitted' = admitted
      BY <1>1 DEF limitVars
    <2>2. AdmittedWithinLimits' <=> AdmittedWithinLimits
      BY <2>1 DEF AdmittedWithinLimits
    <2>3. HitsOf(rpm)' /\ HitsOf(tpm)' /\ HitsOf(admitted)'
      BY <1>1, <2>1 DEF AdmissionInv, HitsOf
    <2>4. Charged'
      BY <2>1 DEF AdmissionInv, Charged
    <2> QED
      BY <2>1, <2>2, <2>3, <2>4 DEF AdmissionInv
  <1>2. ASSUME NEW r \in Request, NEW there \in Stages \ {"idle"}, Goto(r, there)
        PROVE  \A q \in Request : pc[q] # "idle" => pc'[q] # "idle"
    BY <1>2 DEF Goto, Domains
  <1>3. ASSUME NEW r \in Request, NEW a \in Asks, Refuse(r, a) PROVE AdmissionInv'
    BY <1>1, <1>2, <1>3 DEF Refuse, Finish, Stages
  <1>4. ASSUME NEW r \in Request, NEW a \in Asks, Throttle(r, a) PROVE AdmissionInv'
    <2>1. now' = now /\ admitted' = admitted
      BY <1>4, ChargeStep DEF Throttle
    <2>2. HitsOf(rpm)' /\ HitsOf(tpm)' /\ HitsOf(admitted)' /\ \A h \in rpm' : h.weight = 1
      BY <1>4, ChargeStep
    <2>3. \A g \in admitted : now - g.at < Window =>
             /\ \E h \in rpm' : h.by = g.by /\ h.at = g.at
             /\ TpmLimit > 0 => g \in tpm'
      BY <1>4, ChargeStep
    <2>4. Charged'
      BY <2>1, <2>3 DEF Charged
    <2>5. AdmittedWithinLimits' <=> AdmittedWithinLimits
      BY <2>1 DEF AdmittedWithinLimits
    <2> QED
      BY <2>1, <2>2, <2>4, <2>5 DEF AdmissionInv
  <1>5. ASSUME NEW r \in Request, NEW a \in Asks, Admit(r, a) PROVE AdmissionInv'
    BY <1>5, AdmitStep
  <1>6. ASSUME NEW r \in Request, StoreRun(r) PROVE AdmissionInv'
    <2>1. UNCHANGED limitVars /\ \E there \in Stages \ {"idle"} : Goto(r, there)
      BY <1>6 DEF StoreRun, AfterRouting, Stages
    <2> QED
      BY <1>1, <1>2, <2>1
  <1>7. ASSUME NEW r \in Request,
               \/ FindRun(r) \/ Route(r) \/ RouteFails(r) \/ Load(r) \/ LoadFails(r)
               \/ (\E res \in {"answered", "failed"} : Answer(r, res))
               \/ PersistCall(r) \/ RecordMemory(r) \/ CommitMemory(r) \/ Disconnect(r)
        PROVE  AdmissionInv'
    <2>1. \E there \in Stages \ {"idle"} : Goto(r, there)
      BY <1>7, LaterStep
    <2>2. UNCHANGED limitVars
      BY <1>7 DEF FindRun, Route, RouteFails, Load, LoadFails, Answer, PersistCall, RecordMemory,
                  CommitMemory, Disconnect
    <2> QED
      BY <1>1, <1>2, <2>1, <2>2
  <1>8. CASE (\E i \in Ingest : CheckEvent(i) \/ InsertEvent(i)) \/ inspect \/ UNCHANGED vars
    <2>1. pc' = pc
      BY <1>8, OtherStep
    <2>2. UNCHANGED limitVars
      BY <1>8 DEF CheckEvent, InsertEvent, append_event, IngestTo, inspect, vars
    <2> QED
      BY <1>1, <2>1, <2>2
  <1>9. CASE Tick
    <2>1. now' = now + 1 /\ UNCHANGED <<rpm, tpm, admitted, pc>>
      BY <1>9 DEF Tick
    <2>2. AdmittedWithinLimits' <=> AdmittedWithinLimits
      BY <2>1 DEF AdmittedWithinLimits
    <2>3. HitsOf(rpm)' /\ HitsOf(tpm)' /\ HitsOf(admitted)'
      BY <2>1 DEF AdmissionInv, HitsOf
    <2>4. Charged'
      <3>1. \A g \in admitted : now' - g.at < Window => now - g.at < Window
        BY <2>1, AdmissionAssumption DEF AdmissionInv, HitsOf
      <3> QED
        BY <2>1, <3>1 DEF AdmissionInv, Charged
    <2> QED
      BY <2>1, <2>2, <2>3, <2>4 DEF AdmissionInv
  <1>10. CASE Crash
    <2>1. now' = now /\ rpm' = {} /\ tpm' = {} /\ admitted' = {}
      BY <1>10 DEF Crash
    <2>2. HitsOf(rpm)' /\ HitsOf(tpm)' /\ HitsOf(admitted)'
      BY <2>1, FS_EmptySet DEF HitsOf, Weighed
    <2> QED
      BY <2>1, <2>2 DEF AdmissionInv, Charged, AdmittedWithinLimits
  <1> QED
    BY <1>3, <1>4, <1>5, <1>6, <1>7, <1>8, <1>9, <1>10 DEF Next, RequestStep

(* check_limits: within a window of any admitted request no more requests   *)
(* are admitted, and no more tokens, than the limits allow, as long as the  *)
(* process lives, for any requests, weights and limits.                     *)
THEOREM LimitsSound == Spec => []AdmittedWithinLimits
  <1>1. Init => Domains /\ AdmissionInv
    BY InitDomains, InitAdmission
  <1>2. Domains /\ AdmissionInv /\ [Next]_vars => Domains' /\ AdmissionInv'
    BY DomainsStep, AdmissionStep
  <1>3. AdmissionInv => AdmittedWithinLimits
    BY DEF AdmissionInv
  <1> QED
    BY <1>1, <1>2, <1>3, PTL DEF Spec

-----------------------------------------------------------------------------
(* The lengths of encoded excerpts, as a function.                          *)
LengthOf(es, share) == [e \in es |-> Encoded(e, share)]

(* EncodedLength, another fold, is one too.                                 *)
LEMMA LengthIsTotal ==
    ASSUME NEW es, IsFiniteSet(es), NEW share \in Nat
    PROVE  EncodedLength(es, share) = Total(LengthOf(es, share), es)
  <1> DEFINE w == LengthOf(es, share)
             iter == CHOOSE f : f = [s \in SUBSET es |->
                         IF s = {} THEN 0
                         ELSE Encoded(CHOOSE x \in s : TRUE, share) + f[s \ {CHOOSE x \in s : TRUE}]]
  <1>1. Weighs(w, es)
    BY SharedMemoryAssumption DEF Weighs, LengthOf, Encoded
  <1>2. PICK f : Sums(f, w, es)
    BY <1>1, SumsExist
  <1>3. \A s \in SUBSET es : s # {} => w[Some(s)] = Encoded(Some(s), share)
    BY DEF LengthOf, Some
  <1>4. f = [s \in SUBSET es |->
                         IF s = {} THEN 0
                         ELSE Encoded(CHOOSE x \in s : TRUE, share) + f[s \ {CHOOSE x \in s : TRUE}]]
    BY <1>2, <1>3 DEF Sums, AddsUp, Some
  <1>5. iter = [s \in SUBSET es |->
                         IF s = {} THEN 0
                         ELSE Encoded(CHOOSE x \in s : TRUE, share) + iter[s \ {CHOOSE x \in s : TRUE}]]
    BY <1>4, Zenon
  <1>6. EncodedLength(es, share) = iter[es]
    BY Zenon DEF EncodedLength, MapThenSumSet, MapThenFoldSet
  <1> HIDE DEF iter
  <1>7. AddsUp(iter, w, es)
    BY <1>3, <1>5 DEF AddsUp, Some
  <1>8. PICK g : g = (CHOOSE h : Sums(h, w, es)) /\ Sums(g, w, es)
    BY <1>1, SumsExist
  <1> HIDE DEF w
  <1>9. iter[es] = g[es]
    BY <1>7, <1>8, SumsUnique DEF Sums
  <1> QED
    BY <1>6, <1>8, <1>9 DEF Total, w

LEMMA TimesLess ==
    ASSUME NEW a \in Nat, NEW b \in Nat, NEW c \in Nat, b <= c
    PROVE  a * b <= a * c /\ a * b \in Nat /\ a * c \in Nat
  <1>1. c - b \in Nat
    OBVIOUS
  <1>2. a * (c - b) >= 0 /\ a * (c - b) = a * c - a * b
    BY <1>1
  <1> QED
    BY <1>2

LEMMA GreaterOfTwo ==
    ASSUME NEW a \in Nat, NEW b \in Nat
    PROVE  Max({a, b}) \in {a, b} /\ Max({a, b}) >= a /\ Max({a, b}) >= b
  <1>1. \E m \in {a, b} : \A k \in {a, b} : m >= k
    <2>1. CASE a >= b
      BY <2>1
    <2>2. CASE a < b
      BY <2>2
    <2> QED
      BY <2>1, <2>2
  <1>2. Max({a, b}) \in {a, b} /\ \A k \in {a, b} : Max({a, b}) >= k
    BY <1>1 DEF Max
  <1> QED
    BY <1>2

(* Of entries none of which is dense, compose keeps the newest: an equal    *)
(* share of the room, or the floor if that is more, for each of them fits.  *)
LEMMA ComposeKeeps ==
    ASSUME NEW es, IsFiniteSet(es), \A e \in es : ~e.dense /\ e.id \in Nat,
           NEW entry \in es, Cardinality(Newer(es, entry)) < Recent
    PROVE  entry \in compose(es)
  <1> DEFINE n == Cardinality(es)
             most == Max({1, n})
             equal == Room \div most
             share == Max({Floor, equal})
             part == Newer(es, entry) \cup {entry}
             w == LengthOf(part, share)
             k == Cardinality(part)
             each == Overhead + share
  <1>1. /\ n \in Nat /\ Room \in Nat /\ Floor \in Nat /\ Overhead \in Nat
        /\ Reserve \in Nat /\ Recent \in Nat
    BY FS_CardinalityType, SharedMemoryAssumption
  <1>2. most \in Nat \ {0} /\ n <= most
    <2> HIDE DEF n
    <2>1. most \in {1, n} /\ most >= 1 /\ most >= n
      BY <1>1, GreaterOfTwo
    <2> HIDE DEF most
    <2> QED
      BY <1>1, <2>1
  <1> HIDE DEF n, most
  <1>3. equal \in Nat /\ equal * most <= Room
    BY <1>1, <1>2
  <1> HIDE DEF equal
  <1>4. share \in {Floor, equal} /\ share \in Nat
    BY <1>1, <1>3, GreaterOfTwo
  <1> HIDE DEF share
  <1>5. part \subseteq es /\ entry \notin Newer(es, entry) /\ IsFiniteSet(Newer(es, entry))
    <2>1. Newer(es, entry) \subseteq es
      BY DEF Newer
    <2>2. entry \notin Newer(es, entry)
      BY DEF Newer
    <2> QED
      BY <2>1, <2>2, FS_Subset
  <1>6. IsFiniteSet(part) /\ k \in Nat /\ k <= n /\ k <= Recent
    <2>1. IsFiniteSet(part) /\ k <= n
      BY <1>5, FS_Subset DEF n
    <2>2. k = Cardinality(Newer(es, entry)) + 1 /\ Cardinality(Newer(es, entry)) \in Nat
      BY <1>5, FS_AddElement, FS_CardinalityType
    <2> QED
      BY <1>1, <2>1, <2>2
  <1> HIDE DEF part
  <1>7. Weighs(w, part) /\ \A f \in part : w[f] = each
    BY <1>1, <1>4, <1>5, <1>6 DEF Weighs, LengthOf, Encoded
  <1>8. EncodedLength(part, share) = each * k
    <2>1. EncodedLength(part, share) = Total(w, part)
      BY <1>4, <1>6, LengthIsTotal
    <2>2. each \in Nat
      BY <1>1, <1>4
    <2> HIDE DEF w, each
    <2>3. Total(w, part) = each * k
      BY <1>6, <1>7, <2>2, TotalBounds
    <2> QED
      BY <2>1, <2>3
  <1> HIDE DEF k, w
  <1>9. each * k <= Room + Reserve
    <2>1. each * k = Overhead * k + share * k
      BY <1>1, <1>4, <1>6
    <2>2. CASE share = equal
      <3>1. Overhead * k <= Overhead * Recent /\ Overhead * k \in Nat /\ Overhead * Recent \in Nat
        BY <1>1, <1>6, TimesLess
      <3>2. k <= most
        BY <1>1, <1>2, <1>6
      <3>3. equal * k <= equal * most /\ equal * k \in Nat /\ equal * most \in Nat
        BY <1>2, <1>3, <1>6, <3>2, TimesLess
      <3> QED
        BY <1>1, <1>3, <2>1, <2>2, <3>1, <3>3, RoomAssumption
    <2>3. CASE share = Floor
      <3>1. each = Floor + Overhead /\ each \in Nat
        BY <1>1, <2>3
      <3>2. each * k <= each * Recent /\ each * k \in Nat /\ each * Recent \in Nat
        BY <1>1, <1>6, <3>1, TimesLess
      <3>3. each * Recent <= Room + Reserve
        BY <3>1, RoomAssumption
      <3> HIDE DEF each
      <3> QED
        BY <1>1, <3>2, <3>3
    <2> QED
      BY <1>4, <2>2, <2>3
  <1>10. compose(es) = {e \in es : EncodedLength(Newer(es, e) \cup {e}, share) <= Room + Reserve}
    BY Zenon DEF compose, share, equal, most, n
  <1> QED
    BY <1>8, <1>9, <1>10 DEF part

(* An entry of a space without dense entries is loaded unless Recent newer  *)
(* ones are there.                                                          *)
LEMMA LoadRecalls ==
    ASSUME Numbered, NEW space, NEW topic, \A e \in EntriesOf(space) : ~e.dense,
           NEW entry \in EntriesOf(space),
           Cardinality({e \in EntriesOf(space) : e.id > entry.id}) < Recent,
           NEW given \in load(space, topic)
    PROVE  entry \in given
  <1> DEFINE es == EntriesOf(space)
  <1>1. IsFiniteSet(es)
    <2>1. es \subseteq Entries
      BY DEF EntriesOf, Entries
    <2> QED
      BY <2>1, FS_Subset DEF Numbered
  <1>2. PICK best \in Matches(es, topic) : given = compose(RecentOf(es) \cup First(es) \cup best)
    BY DEF load
  <1> DEFINE all == RecentOf(es) \cup First(es) \cup best
  <1>3. best \subseteq es
    BY DEF Matches, kSubset
  <1>4. RecentOf(es) \subseteq es /\ First(es) \subseteq es
    BY DEF RecentOf, Newest, First
  <1>5. all \subseteq es
    BY <1>3, <1>4
  <1>6. entry \in RecentOf(es)
    BY DEF RecentOf, Newest, Newer
  <1> HIDE DEF all
  <1>7. IsFiniteSet(all) /\ \A e \in all : ~e.dense /\ e.id \in Nat
    <2>1. \A e \in es : e.id \in Nat
      BY DEF Numbered, EntriesOf, Entries
    <2> QED
      BY <1>1, <1>5, <2>1, FS_Subset
  <1>8. entry \in all /\ Cardinality(Newer(all, entry)) < Recent
    <2>1. entry \in all
      BY <1>6 DEF all
    <2> DEFINE later == {e \in es : e.id > entry.id}
    <2>2. Newer(all, entry) \subseteq later /\ IsFiniteSet(later)
      BY <1>1, <1>5, FS_Subset DEF Newer
    <2>3. Cardinality(later) < Recent
      OBVIOUS
    <2> HIDE DEF later
    <2>4. /\ Cardinality(Newer(all, entry)) <= Cardinality(later)
          /\ Cardinality(Newer(all, entry)) \in Nat /\ Cardinality(later) \in Nat
      BY <2>2, FS_Subset, FS_CardinalityType
    <2> QED
      BY <2>1, <2>3, <2>4, SharedMemoryAssumption
  <1>9. entry \in compose(all)
    BY <1>7, <1>8, ComposeKeeps
  <1> QED
    BY <1>2, <1>9 DEF all

(* The newest entry of a space is there, unless there is none.              *)
LEMMA NewestThere ==
    ASSUME Numbered, NEW space, NEW m, m = Max({0} \cup {e.id : e \in EntriesOf(space)})
    PROVE  m \in Nat /\ (m > 0 => \E e \in EntriesOf(space) : e.id = m)
  <1> DEFINE ids == {0} \cup {e.id : e \in EntriesOf(space)}
             T == {serial - k : k \in ids}
  <1>1. ids \subseteq 0..serial /\ serial \in Nat
    BY DEF Numbered, EntriesOf, Entries
  <1>2. T \in SUBSET Nat /\ T # {}
    BY <1>1
  <1> HIDE DEF T
  <1>3. PICK t \in T : \A k \in T : t <= k
    BY <1>2, LeastNumber
  <1>4. PICK top \in ids : t = serial - top
    BY <1>3 DEF T
  <1>5. ASSUME NEW k \in ids PROVE top >= k
    <2>1. t <= serial - k
      BY <1>3 DEF T
    <2>2. top \in 0..serial /\ k \in 0..serial
      BY <1>1
    <2> QED
      BY <1>1, <1>4, <2>1, <2>2
  <1>6. m \in ids
    <2>1. \E x \in ids : \A y \in ids : x >= y
      BY <1>5
    <2> HIDE DEF ids
    <2> QED
      BY <2>1, Zenon DEF Max, ids
  <1>7. m \in Nat
    BY <1>1, <1>6
  <1>8. m = 0 \/ m \in {e.id : e \in EntriesOf(space)}
    BY <1>6
  <1>9. m = 0 \/ \E e \in EntriesOf(space) : e.id = m
    BY <1>8
  <1>10. m > 0 => m # 0
    BY <1>7
  <1> QED
    BY <1>7, <1>9, <1>10, Zenon

(* What a request was given refers to an entry that is still there: from    *)
(* its arrival to the answer its newest entry is in its space; and without  *)
(* a space there is none.                                                   *)
UnderWay == {"finding", "storing", "routing", "loading", "answering"}

Recalled(r) ==
    /\ pc[r] \in UnderWay /\ latest[r] > 0
          => \E e \in EntriesOf(SpaceOf(ask[r])) : e.id = latest[r]
    /\ At(r, "answering") /\ latest[r] > 0 /\ (\A e \in EntriesOf(SpaceOf(ask[r])) : ~e.dense)
          => \/ latest[r] \in loaded[r]
             \/ Cardinality({e \in EntriesOf(SpaceOf(ask[r])) : e.id > latest[r]}) >= Recent

Spaced ==
    /\ \A e \in Entries : e.space # None
    /\ \A r \in Request : pc[r] = "recording" => SpaceOf(ask[r]) # None

RecallInv ==
    /\ latest \in [Request -> Nat]
    /\ DOMAIN loaded = Request
    /\ Spaced
    /\ \A r \in Request : Recalled(r)

(* Nothing has arrived.                                                     *)
LEMMA InitRecall == Init => RecallInv
  <1> SUFFICES ASSUME Init PROVE RecallInv
    OBVIOUS
  <1>1. /\ latest = [r \in Request |-> 0] /\ DOMAIN loaded = Request
        /\ \A r \in Request : pc[r] = "idle"
        /\ Entries = Earlier
    BY DEF Init, MemoryInit, Entries
  <1> QED
    BY <1>1, ChatEndpointAssumption
       DEF RecallInv, Recalled, Spaced, UnderWay, At

(* A request that is not touched keeps what it has: its entry stays, and    *)
(* newer ones only become more.                                             *)
LEMMA UntouchedStays ==
    ASSUME Numbered, Numbered', journal \subseteq journal', NEW r \in Request, Recalled(r),
           pc'[r] = pc[r] \/ pc'[r] \notin UnderWay, ask'[r] = ask[r],
           pc'[r] \in UnderWay => latest'[r] = latest[r] /\ loaded'[r] = loaded[r]
    PROVE  Recalled(r)'
  <1> DEFINE es == EntriesOf(SpaceOf(ask[r]))
             fs == EntriesOf(SpaceOf(ask[r]))'
  <1>1. es \subseteq fs /\ fs \subseteq Entries'
    BY DEF EntriesOf, Entries, SpaceOf
  <1>2. CASE pc'[r] \notin UnderWay
    BY <1>2 DEF UnderWay, Recalled, At
  <1>3. CASE pc'[r] \in UnderWay
    <2>1. pc'[r] = pc[r] /\ latest'[r] = latest[r] /\ loaded'[r] = loaded[r]
      BY <1>3
    <2>2. latest'[r] > 0 => \E e \in fs : e.id = latest'[r]
      BY <1>1, <1>3, <2>1 DEF Recalled
    <2>3. ASSUME pc[r] = "answering", latest[r] > 0, \A e \in fs : ~e.dense
          PROVE  \/ latest[r] \in loaded[r]
                 \/ Cardinality({e \in fs : e.id > latest[r]}) >= Recent
      <3> DEFINE A == {e \in es : e.id > latest[r]}
                 B == {e \in fs : e.id > latest[r]}
      <3>1. latest[r] \in loaded[r] \/ Cardinality(A) >= Recent
        BY <1>1, <2>3 DEF Recalled, At
      <3>2. A \subseteq B /\ B \subseteq Entries'
        BY <1>1
      <3> HIDE DEF A, B
      <3>3. IsFiniteSet(B)
        BY <3>2, FS_Subset DEF Numbered
      <3>4. Cardinality(A) <= Cardinality(B) /\ {Cardinality(A), Cardinality(B)} \subseteq Nat
        BY <3>2, <3>3, FS_Subset, FS_CardinalityType
      <3>5. latest[r] \in loaded[r] \/ Cardinality(B) >= Recent
        BY <3>1, <3>4, SharedMemoryAssumption
      <3> QED
        BY <3>5 DEF B
    <2> QED
      BY <2>1, <2>2, <2>3 DEF Recalled, At
  <1> QED
    BY <1>2, <1>3

(* A step of one request leaves the others as they were.                    *)
LEMMA OneMoves ==
    ASSUME Numbered, Numbered', journal \subseteq journal', RecallInv, NEW r \in Request, Recalled(r)',
           \A q \in Request \ {r} : /\ pc'[q] = pc[q] /\ ask'[q] = ask[q]
                                    /\ latest'[q] = latest[q] /\ loaded'[q] = loaded[q]
    PROVE  \A q \in Request : Recalled(q)'
  <1> SUFFICES ASSUME NEW q \in Request, q # r PROVE Recalled(q)'
    OBVIOUS
  <1>1. Recalled(q) /\ pc'[q] = pc[q] /\ ask'[q] = ask[q] /\ latest'[q] = latest[q] /\ loaded'[q] = loaded[q]
    BY DEF RecallInv
  <1> QED
    BY <1>1, UntouchedStays

(* A request that is let through without loading has no space and so no     *)
(* newest entry.                                                            *)
LEMMA WithoutSpace ==
    ASSUME RecallInv, NEW r \in Request, pc[r] \in UnderWay, SpaceOf(ask[r]) = None
    PROVE  latest[r] = 0
  <1>1. \A e \in EntriesOf(None) : FALSE
    BY DEF RecallInv, Spaced, EntriesOf, Entries
  <1>2. latest[r] \in Nat /\ ~(latest[r] > 0)
    BY <1>1 DEF RecallInv, Recalled
  <1> QED
    BY <1>2

(* An arriving request is given the newest entry its space has.             *)
LEMMA ArrivalRecalls ==
    ASSUME Domains, Numbered, Numbered', RecallInv, NEW r \in Request, NEW a \in Asks,
           Refuse(r, a) \/ Throttle(r, a) \/ Admit(r, a)
    PROVE  RecallInv'
  <1> DEFINE top == Max({0} \cup {e.id : e \in EntriesOf(SpaceOf(a))})
  <1>1. /\ pc[r] = "idle" /\ (\E there \in {"done", "finding"} : Goto(r, there))
        /\ ask' = [ask EXCEPT ![r] = a] /\ latest' = [latest EXCEPT ![r] = top] /\ loaded' = loaded
        /\ journal' = journal /\ pending' = pending
    BY ArrivalStep DEF Refuse, Throttle, Admit, Arrive, memoryVars
  <1>2. top \in Nat /\ (top > 0 => \E e \in EntriesOf(SpaceOf(a)) : e.id = top)
    BY NewestThere
  <1> HIDE DEF top
  <1>3. ask'[r] = a /\ latest'[r] = top /\ pc'[r] \in {"done", "finding"}
        /\ latest' \in [Request -> Nat] /\ DOMAIN loaded' = Request
    BY <1>1, <1>2 DEF RecallInv, Domains, Goto
  <1>4. EntriesOf(SpaceOf(ask[r]))' = EntriesOf(SpaceOf(a))
    BY <1>1, <1>3 DEF EntriesOf, SpaceOf
  <1>5. Recalled(r)'
    BY <1>2, <1>3, <1>4 DEF Recalled, At, UnderWay
  <1>6. \A q \in Request \ {r} : /\ pc'[q] = pc[q] /\ ask'[q] = ask[q]
                                 /\ latest'[q] = latest[q] /\ loaded'[q] = loaded[q]
    BY <1>1 DEF Goto, Domains, RecallInv
  <1>7. \A q \in Request : Recalled(q)'
    BY <1>1, <1>5, <1>6, OneMoves
  <1>8. Spaced'
    BY <1>1, <1>3, <1>6 DEF RecallInv, Spaced, Entries, SpaceOf
  <1> QED
    BY <1>3, <1>7, <1>8 DEF RecallInv

(* A request on its way to its answer keeps its newest entry, and without a *)
(* space it needs none.                                                     *)
LEMMA WayRecalls ==
    ASSUME Domains, Numbered, Numbered', RecallInv, NEW r \in Request,
           FindRun(r) \/ StoreRun(r) \/ Route(r) \/ RouteFails(r)
    PROVE  RecallInv'
  <1>1. /\ pc[r] \in UnderWay
        /\ \E there \in UnderWay \cup {"done"} :
              Goto(r, there) /\ (there = "answering" => SpaceOf(ask[r]) = None)
        /\ UNCHANGED <<ask, latest, loaded, journal, pending>>
    BY DEF FindRun, StoreRun, Route, RouteFails, AfterRouting, UnderWay, At, Finish, askVars, memoryVars, Goto
  <1>2. pc'[r] \in UnderWay \cup {"done"} /\ (pc'[r] = "answering" => SpaceOf(ask[r]) = None)
    BY <1>1 DEF Goto, Domains
  <1>3. EntriesOf(SpaceOf(ask[r]))' = EntriesOf(SpaceOf(ask[r]))
    BY <1>1 DEF EntriesOf, SpaceOf
  <1>4. Recalled(r)
    BY DEF RecallInv
  <1>5. pc'[r] = "answering" => latest[r] = 0
    BY <1>1, <1>2, WithoutSpace
  <1>6. Recalled(r)'
    BY <1>1, <1>2, <1>3, <1>4, <1>5 DEF Recalled, At, UnderWay
  <1>7. \A q \in Request \ {r} : /\ pc'[q] = pc[q] /\ ask'[q] = ask[q]
                                 /\ latest'[q] = latest[q] /\ loaded'[q] = loaded[q]
    BY <1>1 DEF Goto, Domains
  <1>8. \A q \in Request : Recalled(q)'
    BY <1>1, <1>6, <1>7, OneMoves
  <1>9. Spaced'
    BY <1>1, <1>2, <1>7 DEF RecallInv, Spaced, Entries, SpaceOf, UnderWay
  <1> QED
    BY <1>1, <1>8, <1>9 DEF RecallInv

(* What a request loads has its newest entry, or Recent newer ones are      *)
(* there by now.                                                            *)
LEMMA LoadStepRecalls ==
    ASSUME Domains, Numbered, Numbered', RecallInv, NEW r \in Request, Load(r)
    PROVE  RecallInv'
  <1> DEFINE es == EntriesOf(SpaceOf(ask[r]))
  <1>1. PICK given \in load(SpaceOf(ask[r]), ask[r].topic) :
            loaded' = [loaded EXCEPT ![r] = {e.id : e \in given}]
    BY DEF Load
  <1>2. /\ pc[r] = "loading" /\ Goto(r, "answering")
        /\ UNCHANGED <<ask, latest, journal, pending>>
    BY DEF Load, At, askVars, memoryVars
  <1>3. pc'[r] = "answering" /\ loaded'[r] = {e.id : e \in given} /\ DOMAIN loaded' = Request
    BY <1>1, <1>2 DEF Goto, Domains, RecallInv
  <1>4. EntriesOf(SpaceOf(ask[r]))' = es
    BY <1>2 DEF EntriesOf, SpaceOf
  <1>5. latest[r] > 0 => \E e \in es : e.id = latest[r]
    BY <1>2 DEF RecallInv, Recalled, UnderWay
  <1>6. ASSUME latest[r] > 0, \A e \in es : ~e.dense, ~(Cardinality({e \in es : e.id > latest[r]}) >= Recent)
        PROVE  latest[r] \in loaded'[r]
    <2>1. PICK entry \in es : entry.id = latest[r]
      BY <1>5, <1>6
    <2> DEFINE newer == {e \in es : e.id > entry.id}
    <2>2. newer = {e \in es : e.id > latest[r]}
      BY <2>1
    <2>3. IsFiniteSet(newer)
      <3>1. newer \subseteq Entries
        BY DEF EntriesOf, Entries
      <3> QED
        BY <3>1, FS_Subset DEF Numbered
    <2> HIDE DEF newer
    <2>4. Cardinality(newer) < Recent
      BY <1>6, <2>2, <2>3, FS_CardinalityType, SharedMemoryAssumption
    <2>5. entry \in given
      BY <1>1, <1>6, <2>1, <2>4, LoadRecalls DEF newer
    <2> QED
      BY <1>3, <2>1, <2>5
  <1>7. Recalled(r)'
    BY <1>2, <1>3, <1>4, <1>5, <1>6 DEF Recalled, At
  <1>8. \A q \in Request \ {r} : /\ pc'[q] = pc[q] /\ ask'[q] = ask[q]
                                 /\ latest'[q] = latest[q] /\ loaded'[q] = loaded[q]
    BY <1>1, <1>2 DEF Goto, Domains, RecallInv
  <1>9. \A q \in Request : Recalled(q)'
    BY <1>2, <1>7, <1>8, OneMoves
  <1>10. Spaced'
    BY <1>2, <1>3, <1>8 DEF RecallInv, Spaced, Entries, SpaceOf
  <1> QED
    BY <1>2, <1>3, <1>9, <1>10 DEF RecallInv

(* After its answer nothing more is asked of what a request was given; what *)
(* it records is in its space.                                              *)
LEMMA AfterwardsRecalls ==
    ASSUME Domains, Numbered, Numbered', journal \subseteq journal', RecallInv, NEW r \in Request,
           \/ LoadFails(r) \/ (\E res \in {"answered", "failed"} : Answer(r, res))
           \/ PersistCall(r) \/ RecordMemory(r) \/ CommitMemory(r) \/ Disconnect(r)
    PROVE  RecallInv'
  <1>1. /\ \E there \in Stages \ UnderWay :
              Goto(r, there) /\ (there = "recording" => SpaceOf(ask[r]) # None)
        /\ ask' = ask /\ (latest' = latest \/ latest' = [latest EXCEPT ![r] = 0])
        /\ loaded' = loaded \/ loaded' = [loaded EXCEPT ![r] = {}]
    BY DEF LoadFails, Answer, PersistCall, RecordMemory, CommitMemory, Disconnect, Goto, Finish, RecordNext,
           Stages, UnderWay, askVars
  <1>2. pc'[r] \notin UnderWay /\ (pc'[r] = "recording" => SpaceOf(ask[r]) # None)
        /\ latest' \in [Request -> Nat] /\ DOMAIN loaded' = Request
    BY <1>1 DEF Goto, Domains, RecallInv
  <1>3. Recalled(r)'
    BY <1>2 DEF Recalled, At, UnderWay
  <1>4. \A q \in Request \ {r} : /\ pc'[q] = pc[q] /\ ask'[q] = ask[q]
                                 /\ latest'[q] = latest[q] /\ loaded'[q] = loaded[q]
    BY <1>1 DEF Goto, Domains, RecallInv
  <1>5. \A q \in Request : Recalled(q)'
    BY <1>3, <1>4, OneMoves
  <1>6. \A e \in Entries' : e.space # None
    <2>1. CASE RecordMemory(r)
      BY <2>1 DEF RecordMemory, RecordInsert, RecallInv, Spaced, Entries, At
    <2>2. CASE ~RecordMemory(r)
      <3>1. Entries' \subseteq Entries
        BY <2>2 DEF LoadFails, Answer, PersistCall, CommitMemory, Disconnect, RecordCommit, RecordLost,
                    Uncommitted, Entries, memoryVars
      <3> QED
        BY <3>1 DEF RecallInv, Spaced
    <2> QED
      BY <2>1, <2>2
  <1>7. Spaced'
    BY <1>1, <1>2, <1>4, <1>6 DEF RecallInv, Spaced, SpaceOf
  <1> QED
    BY <1>2, <1>5, <1>7 DEF RecallInv

(* Every step keeps the invariant.                                          *)
LEMMA RecallStep ==
    ASSUME Domains, Numbered, RecallInv, [Next]_vars
    PROVE  RecallInv'
  <1>1. Numbered' /\ journal \subseteq journal'
    BY NumberedStep
  <1>2. ASSUME UNCHANGED <<ask, latest, loaded>>, Entries' \subseteq Entries,
               \A q \in Request : pc'[q] = pc[q] \/ pc'[q] = "done"
        PROVE  RecallInv'
    <2>1. ASSUME NEW q \in Request PROVE Recalled(q)'
      <3>1. Recalled(q) /\ (pc'[q] = pc[q] \/ pc'[q] \notin UnderWay)
        BY <1>2 DEF RecallInv, UnderWay
      <3> QED
        BY <1>1, <1>2, <3>1, UntouchedStays
    <2>2. Spaced'
      BY <1>2 DEF RecallInv, Spaced, SpaceOf
    <2> QED
      BY <1>2, <2>1, <2>2 DEF RecallInv
  <1>3. ASSUME NEW r \in Request, RequestStep(r) PROVE RecallInv'
    <2>1. CASE \E a \in Asks : Refuse(r, a) \/ Throttle(r, a) \/ Admit(r, a)
      BY <1>1, <2>1, ArrivalRecalls
    <2>2. CASE FindRun(r) \/ StoreRun(r) \/ Route(r) \/ RouteFails(r)
      BY <1>1, <2>2, WayRecalls
    <2>3. CASE Load(r)
      BY <1>1, <2>3, LoadStepRecalls
    <2>4. CASE \/ LoadFails(r) \/ (\E res \in {"answered", "failed"} : Answer(r, res))
               \/ PersistCall(r) \/ RecordMemory(r) \/ CommitMemory(r) \/ Disconnect(r)
      BY <1>1, <2>4, AfterwardsRecalls
    <2> QED
      BY <1>3, <2>1, <2>2, <2>3, <2>4 DEF RequestStep
  <1>4. CASE (\E i \in Ingest : CheckEvent(i) \/ InsertEvent(i)) \/ inspect \/ Tick \/ UNCHANGED vars
    <2>1. UNCHANGED <<pc, ask, journal, pending>>
      BY <1>4, OtherStep
    <2>2. UNCHANGED <<latest, loaded>>
      BY <1>4 DEF CheckEvent, InsertEvent, append_event, IngestTo, inspect, Tick, vars, askVars
    <2> QED
      BY <1>2, <2>1, <2>2 DEF Entries
  <1>5. CASE Crash
    <2>1. UNCHANGED <<ask, latest, loaded>> /\ Entries' \subseteq Entries
      BY <1>5 DEF Crash, askVars, Entries
    <2>2. \A q \in Request : pc'[q] = pc[q] \/ pc'[q] = "done"
      BY <1>5 DEF Crash, At
    <2> QED
      BY <1>2, <2>1, <2>2
  <1> QED
    BY <1>3, <1>4, <1>5 DEF Next

(* load: unless Recent newer entries were recorded meanwhile or one of the  *)
(* space is dense, a request is given the newest entry its space had when   *)
(* it arrived, for any journal, room and number of concurrent requests.     *)
THEOREM RecallSound == Spec => []LatestRemembered
  <1>1. Init => Domains /\ Numbered /\ RecallInv
    BY InitDomains, InitNumbered, InitRecall
  <1>2. Domains /\ Numbered /\ RecallInv /\ [Next]_vars => Domains' /\ Numbered' /\ RecallInv'
    BY DomainsStep, NumberedStep, RecallStep
  <1>3. RecallInv => LatestRemembered
    BY DEF RecallInv, Recalled, LatestRemembered
  <1> QED
    BY <1>1, <1>2, <1>3, PTL DEF Spec
=============================================================================

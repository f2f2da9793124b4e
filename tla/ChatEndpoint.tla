---------------------------- MODULE ChatEndpoint ----------------------------
(***************************************************************************)
(* The chat-completions endpoint (api/chat.py) of one tenant, with what its *)
(* requests share: the admission windows (api/limits.py), the runs and      *)
(* events (state/repositories.py), the shared memory; and the endpoints for *)
(* events (api/events.py) and for reading the memory (api/memory.py).       *)
(*                                                                          *)
(* A step runs from one await to the next.  The answer of the lobes is one  *)
(* step: GatedTurn and Coauthor are its models.  An ask is what a request   *)
(* carries: [key, model, space, run, attempt, agent, talk, bypass, stream,  *)
(* weight, topic, dense]; space and run are None without the header.        *)
(***************************************************************************)
EXTENDS SharedMemory, RecipientRouter, Sequences

CONSTANTS
    Request,        \* chat requests
    Asks,           \* what a request may carry
    Ingest,         \* calls of the events endpoint
    KeyOf,          \* their idempotency keys
    EventRun,       \* the run the events are about
    EarlierHits,    \* the hits in the admission windows at the start
    RpmLimit, TpmLimit, Window,     \* admission limits; a limit of 0 is none
    MaxTime,        \* bound on the clock
    MaxCrashes      \* bound on the crashes of the process

\* The calls of the events endpoint are those that bring a key: an event
\* without one is inserted whatever is there.
ASSUME ChatEndpointAssumption ==
    /\ \A e \in Earlier : e.by \notin Request /\ e.space # None
    /\ \A i \in Ingest : KeyOf[i] # None
    /\ {None, "404"} \cap Ingest = {}

Default == "main"           \* settings.default_memory_id
Persona == "persona"        \* the space of the companion key's persona

VARIABLES
    mode,       \* settings.routing_mode, fixed
    now, rpm, tpm,      \* clock, admission windows: sets of [by, at, weight]
    admitted,   \* the hits of admitted requests since the process started
    pc, ask, result,
    latest,     \* the newest entry of the request's space when it arrived
    found,      \* the run that get_or_create_run found, 0 for none
    runs,       \* run rows by external id: [id, attempt]; id 0 for no row
    runOf,      \* the run of a request
    sure,       \* requests whose recipient was decided by route_message
    loaded,     \* the entries given to the lobes
    events,     \* event rows [kind, by, key]
    ipc, ianswer,       \* events endpoint: stage and answer
    page,       \* a client that reads the journal page by page
    crashes

limitVars == <<now, rpm, tpm, admitted>>
runVars == <<found, runs, runOf>>
eventVars == <<events, ipc, ianswer>>
askVars == <<ask, latest>>
vars == <<mode, limitVars, pc, ask, result, latest, runVars, sure, loaded, memoryVars,
          eventVars, page, crashes>>

\* Without the header a request has a run of its own, named by a fresh uuid.
External == ({a.run : a \in Asks} \ {None}) \cup Request \cup {EventRun}
ExternalRun(r) == IF ask[r].run = None THEN r ELSE ask[r].run

NoRun == [id |-> 0, attempt |-> 0]
Event(kind, by, key) == [kind |-> kind, by |-> by, key |-> key]
Closed == [state |-> "idle", before |-> 0, got |-> <<>>, start |-> {}]

Init ==
    /\ mode \in Modes
    /\ now = 0 /\ admitted = EarlierHits
    /\ rpm = {[by |-> h.by, at |-> h.at, weight |-> 1] : h \in EarlierHits} /\ tpm = EarlierHits
    /\ pc = [r \in Request |-> "idle"]
    /\ ask = [r \in Request |-> None]
    /\ result = [r \in Request |-> "none"]
    /\ latest = [r \in Request |-> 0]
    /\ found = [r \in Request |-> 0]
    /\ runs = [x \in External |-> NoRun]
    /\ runOf = [r \in Request |-> 0]
    /\ sure = {}
    /\ loaded = [r \in Request |-> {}]
    /\ MemoryInit
    /\ events = {}
    /\ ipc = [i \in Ingest |-> "idle"]
    /\ ianswer = [i \in Ingest |-> None]
    /\ page = Closed
    /\ crashes = 0

-----------------------------------------------------------------------------
At(r, here) == pc[r] = here
Goto(r, there) == pc' = [pc EXCEPT ![r] = there]
Finish(r, res) == /\ Goto(r, "done")
                  /\ result' = [result EXCEPT ![r] = res]

(***************************************************************************)
(* The memory space: the key's persona, else the header, else the default.  *)
(***************************************************************************)
SpaceOf(a) ==
    CASE a.key = "companion" -> Persona
      [] a.key # "companion" /\ a.space = "off" -> None
      [] a.key # "companion" /\ a.space = None -> Default
      [] OTHER -> a.space

(***************************************************************************)
(* Checks before anything is shared: the key and its scope, the payload,    *)
(* the model, the name of the space.                                        *)
(***************************************************************************)
require_scope(a) ==
    CASE a.key = "unknown" -> "401" [] a.key = "unscoped" -> "403" [] OTHER -> "none"

validate_space(space) == space # "malformed"

Refusal(a) ==
    CASE require_scope(a) # "none" -> require_scope(a)
      [] a.model \notin {"general", "secure"} \/ ~validate_space(SpaceOf(a)) -> "400"
      [] OTHER -> "none"

(***************************************************************************)
(* check_limits: a sliding window of requests and one of tokens.  A hit is  *)
(* charged to each window it fits in, also when the other one refuses.      *)
(***************************************************************************)
Used(hits) == MapThenSumSet(LAMBDA h : h.weight, hits)

\* What was let in before respects the limits.
ASSUME AdmissionAssumption ==
    /\ {RpmLimit, TpmLimit, Window} \subseteq Nat
    /\ \A a \in Asks : a.weight \in Nat
    /\ IsFiniteSet(EarlierHits)
    /\ \A h \in EarlierHits : h.by \notin Request /\ h.at = 0 /\ h.weight \in Nat
    /\ \A g, h \in EarlierHits : g.by = h.by => g = h
    /\ RpmLimit > 0 => Cardinality(EarlierHits) <= RpmLimit
    /\ TpmLimit > 0 => Used(EarlierHits) <= TpmLimit

\* Mutant: hits expire a tick early.
LiveLess(hits) == {h \in hits : now - h.at < Window - 1}

Live(hits) == {h \in hits : now - h.at < Window}

Fits(hits, w, limit) == limit = 0 \/ Used(Live(hits)) + w <= limit

_local_sliding(hits, r, w, limit) ==
    Live(hits) \cup IF Fits(hits, w, limit) THEN {[by |-> r, at |-> now, weight |-> w]} ELSE {}

Charge(r, a) ==
    /\ rpm' = _local_sliding(rpm, r, 1, RpmLimit)
    /\ tpm' = IF TpmLimit = 0 THEN tpm ELSE _local_sliding(tpm, r, a.weight, TpmLimit)
    /\ UNCHANGED now

Allowed(a) == Fits(rpm, 1, RpmLimit) /\ (TpmLimit = 0 \/ Fits(tpm, a.weight, TpmLimit))

Arrive(r, a) ==
    /\ At(r, "idle")
    /\ ask' = [ask EXCEPT ![r] = a]
    /\ latest' = [latest EXCEPT ![r] = Max({0} \cup {e.id : e \in EntriesOf(SpaceOf(a))})]
    /\ UNCHANGED <<mode, runVars, sure, loaded, memoryVars, eventVars, page, crashes>>

Refuse(r, a) ==
    /\ Arrive(r, a)
    /\ Refusal(a) # "none"
    /\ Finish(r, Refusal(a))
    /\ UNCHANGED limitVars

Throttle(r, a) ==
    /\ Arrive(r, a)
    /\ Refusal(a) = "none" /\ ~Allowed(a)
    /\ Charge(r, a)
    /\ Finish(r, "429")
    /\ UNCHANGED admitted

Admit(r, a) ==
    /\ Arrive(r, a)
    /\ Refusal(a) = "none" /\ Allowed(a)
    /\ Charge(r, a)
    /\ admitted' = admitted \cup {[by |-> r, at |-> now, weight |-> a.weight]}
    /\ Goto(r, "finding")
    /\ UNCHANGED result

(***************************************************************************)
(* get_or_create_run: look for the row; then bring a row that was found up  *)
(* to date, if the request has words for a goal, or insert one, unless      *)
(* another request has done so meanwhile: then its row is taken as it is.   *)
(***************************************************************************)
\* With no row, routing or no memory to wait for, a request goes further at once.
AfterRouting(r) == IF SpaceOf(ask[r]) = None THEN "answering" ELSE "loading"

FindRun(r) ==
    /\ At(r, "finding")
    /\ found' = [found EXCEPT ![r] = runs[ExternalRun(r)].id]
    /\ Goto(r, "storing")
    /\ UNCHANGED <<mode, limitVars, askVars, result, runs, runOf, sure, loaded, memoryVars, eventVars,
                   page, crashes>>

NewRun(r) == [id |-> 1 + Max({runs[x].id : x \in External}), attempt |-> ask[r].attempt]

\* Mutant: a row is inserted again.
RunAgain(r) == IF found[r] > 0 THEN [runs[ExternalRun(r)] EXCEPT !.attempt = ask[r].attempt] ELSE NewRun(r)

RunRow(r) ==
    LET row == runs[ExternalRun(r)]
    IN  CASE found[r] > 0 /\ ~ask[r].talk.blank -> [row EXCEPT !.attempt = ask[r].attempt]
          [] found[r] = 0 /\ row.id = 0 -> NewRun(r)
          [] OTHER -> row

StoreRun(r) ==
    /\ At(r, "storing")
    /\ runs' = [runs EXCEPT ![ExternalRun(r)] = RunRow(r)]
    /\ runOf' = [runOf EXCEPT ![r] = RunRow(r).id]
    /\ found' = [found EXCEPT ![r] = 0]
    /\ Goto(r, IF RouteRequired(mode, ask[r].talk, ask[r].bypass) THEN "routing" ELSE AfterRouting(r))
    /\ UNCHANGED <<mode, limitVars, askVars, result, sure, loaded, memoryVars, eventVars, page, crashes>>

(***************************************************************************)
(* Recipient routing.  A message for another agent is answered with an      *)
(* empty completion, and nothing of it is kept but the event; when routing  *)
(* fails its transaction is rolled back and the request proceeds.           *)
(***************************************************************************)
Route(r) ==
    /\ At(r, "routing")
    /\ sure' = sure \cup {r}
    /\ \E respond \in route_message(mode, ask[r].agent, ask[r].talk) :
          IF respond THEN Goto(r, AfterRouting(r)) /\ UNCHANGED result
                     ELSE Finish(r, "suppressed")
    /\ events' = events \cup IF ask[r].talk.blank THEN {} ELSE {Event("recipient_routed", r, None)}
    /\ UNCHANGED <<mode, limitVars, askVars, runVars, loaded, memoryVars, ipc, ianswer, page, crashes>>

RouteFails(r) ==
    /\ At(r, "routing")
    /\ Goto(r, AfterRouting(r))
    /\ UNCHANGED <<mode, limitVars, askVars, result, runVars, sure, loaded, memoryVars, eventVars, page, crashes>>

(***************************************************************************)
(* The memory is loaded before a lobe is called; without it, no call.       *)
(***************************************************************************)
Load(r) ==
    /\ At(r, "loading")
    /\ \E entries \in load(SpaceOf(ask[r]), ask[r].topic) :
          loaded' = [loaded EXCEPT ![r] = {e.id : e \in entries}]
    /\ Goto(r, "answering")
    /\ UNCHANGED <<mode, limitVars, askVars, result, runVars, sure, memoryVars, eventVars, page, crashes>>

LoadFails(r) ==
    /\ At(r, "loading")
    /\ Finish(r, "503")
    /\ UNCHANGED <<mode, limitVars, askVars, runVars, sure, loaded, memoryVars, eventVars, page, crashes>>

(***************************************************************************)
(* The lobes answer.  The secure model and turns that ask for a lobe go to  *)
(* the co-authors, the others to the gated turn, where a buffered answer is *)
(* followed by an event; then the exchange is recorded.                     *)
(***************************************************************************)
CoAuthored(a) == a.model = "secure" \/ routing_requested(a.talk)
Buffered(a) == ~CoAuthored(a) /\ ~a.stream

\* Mutant: the exchange is recorded whatever came of it.
RecordNextAlways(r, res) == IF SpaceOf(ask[r]) # None THEN "recording" ELSE "done"

\* _record_background, on_done.
RecordNext(r, res) == IF res = "answered" /\ SpaceOf(ask[r]) # None THEN "recording" ELSE "done"

Answer(r, res) ==
    /\ At(r, "answering")
    /\ result' = [result EXCEPT ![r] = res]
    /\ Goto(r, IF Buffered(ask[r]) THEN "auditing" ELSE RecordNext(r, res))
    /\ loaded' = [loaded EXCEPT ![r] = {}]
    /\ latest' = [latest EXCEPT ![r] = 0]
    /\ UNCHANGED <<mode, limitVars, ask, runVars, sure, memoryVars, eventVars, page, crashes>>

\* _persist_gated_call, in the background; its failure is logged.
PersistCall(r) ==
    /\ At(r, "auditing")
    /\ events' = events \cup {Event("worker_call", r, None)} \/ UNCHANGED events
    /\ Goto(r, RecordNext(r, result[r]))
    /\ UNCHANGED <<mode, limitVars, askVars, result, runVars, sure, loaded, memoryVars, ipc, ianswer, page, crashes>>

\* _record_memory_now, after the response was sent.
RecordMemory(r) ==
    /\ At(r, "recording")
    /\ RecordInsert(r, SpaceOf(ask[r]), ask[r].topic, ask[r].dense)
    /\ Goto(r, "committing")
    /\ UNCHANGED <<mode, limitVars, askVars, result, runVars, sure, loaded, eventVars, page, crashes>>

CommitMemory(r) ==
    /\ At(r, "committing")
    /\ RecordCommit(r) \/ RecordLost(r)
    /\ Goto(r, "done")
    /\ UNCHANGED <<mode, limitVars, askVars, result, runVars, sure, loaded, eventVars, page, crashes>>

\* The client of a gated stream leaves: the generator is cancelled where it is.
Disconnect(r) ==
    /\ pc[r] \in {"answering", "recording", "committing"}
    /\ ask[r].stream /\ ~CoAuthored(ask[r])
    /\ RecordLost(r)
    /\ Goto(r, "done")
    /\ UNCHANGED <<mode, limitVars, askVars, result, runVars, sure, loaded, eventVars, page, crashes>>

RequestStep(r) ==
    \/ \E a \in Asks : Refuse(r, a) \/ Throttle(r, a) \/ Admit(r, a)
    \/ FindRun(r) \/ StoreRun(r)
    \/ Route(r) \/ RouteFails(r)
    \/ Load(r) \/ LoadFails(r)
    \/ \E res \in {"answered", "failed"} : Answer(r, res)
    \/ PersistCall(r) \/ RecordMemory(r) \/ CommitMemory(r)
    \/ Disconnect(r)

-----------------------------------------------------------------------------
(***************************************************************************)
(* The events endpoint: the run must exist; an event with a known key is    *)
(* answered with the one that is there; else it is inserted, unless another *)
(* call has done so meanwhile.                                              *)
(***************************************************************************)
Keyed(i) == {e \in events : e.key = KeyOf[i]}

IngestTo(i, there, answer) ==
    /\ ipc' = [ipc EXCEPT ![i] = there]
    /\ ianswer' = [ianswer EXCEPT ![i] = answer]
    /\ UNCHANGED <<mode, limitVars, askVars, pc, result, runVars, sure, loaded, memoryVars, page, crashes>>

CheckEvent(i) ==
    /\ ipc[i] = "idle"
    /\ CASE runs[EventRun].id = 0 -> IngestTo(i, "done", "404")
         [] runs[EventRun].id > 0 /\ Keyed(i) = {} -> IngestTo(i, "inserting", None)
         [] OTHER -> \E e \in Keyed(i) : IngestTo(i, "done", e.by)
    /\ UNCHANGED events

\* Mutant: inserted without a look at the index.
AppendBlindly(i) ==
    /\ events' = events \cup {Event("ingested", i, KeyOf[i])}
    /\ IngestTo(i, "done", i)

append_event(i) ==
    IF Keyed(i) = {} THEN /\ events' = events \cup {Event("ingested", i, KeyOf[i])}
                          /\ IngestTo(i, "done", i)
    ELSE /\ \E e \in Keyed(i) : IngestTo(i, "done", e.by)
         /\ UNCHANGED events

InsertEvent(i) == ipc[i] = "inserting" /\ append_event(i)

(***************************************************************************)
(* A client reads the default space from the newest entry to the oldest.    *)
(***************************************************************************)
inspect ==
    LET rows == Page(Default, page.before)
    IN  /\ page.state # "done"
        /\ page' = [state  |-> IF next_before(rows) = 0 THEN "done" ELSE "reading",
                    before |-> next_before(rows),
                    got    |-> Append(page.got, {e.id : e \in rows}),
                    start  |-> IF page.state = "idle" THEN EntriesOf(Default) ELSE page.start]
        /\ UNCHANGED <<mode, limitVars, askVars, pc, result, runVars, sure, loaded, memoryVars,
                       eventVars, crashes>>

Tick ==
    /\ now < MaxTime
    /\ now' = now + 1
    /\ UNCHANGED <<mode, rpm, tpm, admitted, askVars, pc, result, runVars, sure, loaded, memoryVars,
                   eventVars, page, crashes>>

\* The process stops and starts again: requests and open transactions are gone,
\* the windows are empty.
Crash ==
    /\ crashes < MaxCrashes
    /\ crashes' = crashes + 1
    /\ rpm' = {} /\ tpm' = {} /\ admitted' = {}
    /\ pc' = [r \in Request |-> IF At(r, "idle") THEN "idle" ELSE "done"]
    /\ pending' = {}
    /\ ipc' = [i \in Ingest |-> IF ipc[i] = "idle" THEN "idle" ELSE "done"]
    /\ UNCHANGED <<mode, now, askVars, result, runVars, sure, loaded, journal, serial,
                   events, ianswer, page>>

Next ==
    \/ \E r \in Request : RequestStep(r)
    \/ \E i \in Ingest : CheckEvent(i) \/ InsertEvent(i)
    \/ inspect
    \/ Tick
    \/ Crash

Spec == Init /\ [][Next]_vars

-----------------------------------------------------------------------------
(* The requests admitted within a window of any admitted request are no     *)
(* more, and weigh no more, than the limits allow, as long as the process   *)
(* lives.                                                                   *)
AdmittedWithinLimits ==
    \A h \in admitted :
        LET window == {g \in admitted : g.at <= h.at /\ h.at - g.at < Window}
        IN  /\ RpmLimit > 0 => Cardinality(window) <= RpmLimit
            /\ TpmLimit > 0 => Used(window) <= TpmLimit

(* Requests with the same external id, at the same time or across a crash,  *)
(* are on the same run, and the run is the one that is stored.              *)
OneRunPerName ==
    \A r \in Request : runOf[r] > 0 => runs[ExternalRun(r)].id = runOf[r]

(* An entry of the journal is an exchange that a lobe answered, recorded    *)
(* once, and in the persona's space if the key has one: a request that was  *)
(* refused, that failed or that was cancelled is not remembered as if it    *)
(* had been answered, whatever happens meanwhile.  That a suppressed one is *)
(* not remembered at all is not what the documentation says:                *)
(* SuppressedRemembered.                                                    *)
JournalOfAnswers ==
    \A e \in journal \ Earlier :
        /\ result[e.by] = "answered"
        /\ ask[e.by].key = "companion" => e.space = Persona
        /\ \A f \in journal : f.by = e.by => f = e

(* A request is given the newest entry that its space had when it arrived,  *)
(* unless Recent newer ones were recorded before it got to the memory, or   *)
(* an entry is dense: see compose.                                          *)
LatestRemembered ==
    \A r \in Request :
        LET es == EntriesOf(SpaceOf(ask[r]))
        IN  At(r, "answering") /\ latest[r] > 0 /\ (\A e \in es : ~e.dense)
            => \/ latest[r] \in loaded[r]
               \/ Cardinality({e \in es : e.id > latest[r]}) >= Recent

(* A client that follows next_before to the end has read every entry that   *)
(* was there when it began, and none twice, whatever is recorded meanwhile. *)
PagesComplete ==
    /\ page.state = "done" =>
          \A e \in page.start : \E n \in DOMAIN page.got : e.id \in page.got[n]
    /\ \A m, n \in DOMAIN page.got : m # n => page.got[m] \cap page.got[n] = {}

(* Calls with the same idempotency key make one event and all get its id.   *)
EventOnce ==
    \A i, j \in Ingest :
        KeyOf[i] = KeyOf[j] /\ {ianswer[i], ianswer[j]} \subseteq Ingest => ianswer[i] = ianswer[j]

(* What names a run or an event identifies it, for every caller and in every *)
(* interleaving of the look-ups with the inserts of others.                  *)
NamesIdentify == OneRunPerName /\ EventOnce

(* In the flat mode a message addressed by name, or a follow-up to one, is  *)
(* answered by the agent it names only: agents do not talk over each other. *)
(* Requests that bypass B, turns that ask for a lobe, and turns whose       *)
(* routing failed, are not silenced.                                        *)
OneSpeaks ==
    \A r \in Request :
        /\ mode = "flat" /\ result[r] = "answered"
        /\ ~ask[r].bypass /\ ~ask[r].talk.lobe
        /\ r \in sure \/ ~RouteRequired(mode, ask[r].talk, FALSE)
        => Target(ask[r].talk) \in {None, ask[r].agent}

(* A suppressed message is stored in memory, so that the agent is aware of  *)
(* it in its next turn (docs/RECIPIENT_ROUTING.md, and the comments of      *)
(* route_message).  It does not hold: the endpoint drops the second result  *)
(* of route_message, which says so, and returns.                            *)
SuppressedRemembered ==
    \A r \in Request :
        At(r, "done") /\ result[r] = "suppressed" /\ SpaceOf(ask[r]) # None
        => \E e \in journal \cup pending : e.by = r
=============================================================================

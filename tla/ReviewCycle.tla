----------------------------- MODULE ReviewCycle -----------------------------
(***************************************************************************)
(* One review cycle of lobe B after another for a run (run_shadow_cycle of  *)
(* b/context_shadow.py): the reasons to skip an observation, what of the    *)
(* previous state B is shown, B's output, its grounding and the corrective  *)
(* retry, the evidence the gateway gathers at B's request, and the state    *)
(* that is saved and read back by the state endpoint.  That only one cycle  *)
(* of a run is under way at a time is what ObserverJobs establishes.        *)
(*                                                                          *)
(* A scope is a floor and an attempt of the run.  Of what B writes the      *)
(* model keeps the level, where the quotes of its concern come from, and    *)
(* the evidence request; of what B concluded, the scopes it rests on.       *)
(***************************************************************************)
EXTENDS Integers, FiniteSets

CONSTANTS
    Scopes,          \* floors and attempts of the run
    Enabled,         \* b_enabled and one of the three channels
    ContextMemoryEnabled,  \* context_memory_enabled
    ClaimsEnabled,   \* claim_checks_enabled
    SensingEnabled,  \* evidence_sensing_enabled
    RoutingEnabled,  \* recipient_routing_enabled
    MaxRounds,       \* b_tool_max_rounds
    OpsPerRun,       \* b_evidence_ops_per_run
    StateTtl,        \* b_state_ttl_seconds
    MemoryTtl,       \* context_memory_ttl_seconds
    Cooldown,        \* b_cooldown_seconds
    MaxTime,         \* bound on the clock
    MaxCycles        \* bound on the cycles that reach a model

ASSUME CycleAssumption ==
    /\ {Enabled, ContextMemoryEnabled, ClaimsEnabled, SensingEnabled, RoutingEnabled} \subseteq BOOLEAN
    /\ {MaxRounds, OpsPerRun, StateTtl, MemoryTtl, Cooldown, MaxTime, MaxCycles} \subseteq Nat

VARIABLES
    now,        \* the clock
    latest,     \* payload of the latest b_state row
    phase,      \* where run_shadow_cycle is
    obs,        \* the observation under review: when and in which scope
    fed,        \* scopes behind the conclusions B is shown again
    review,     \* the last accepted review of this cycle
    attempt,    \* corrective retries of the review asked for
    rounds,     \* evidence operations of this cycle
    used,       \* evidence operations counted for the run
    fetched,    \* evidence operations executed for the run
    lost,       \* those of cycles that ended without counting them
    stored,     \* evidence entries in the observer's memory space
    cycles      \* cycles begun

cycleVars == <<now, latest, phase, obs, fed, review, attempt, rounds, used, fetched,
               lost, stored, cycles>>

-----------------------------------------------------------------------------
(***************************************************************************)
(* B's output.  It is a JSON object as it is, one wrapped in fences or      *)
(* prose, or neither.  A concern quotes its claim from a section of the     *)
(* prompt, and its basis from another or not at all; the section CONTEXT    *)
(* stands for EVENTS and LATEST_REQUEST too.                                *)
(***************************************************************************)
Level == {"GREEN", "YELLOW", "RED"}
Concern == [signal : {"UNSUPPORTED", "CONTRADICTION"}, claim : {"OUTPUT", "SENSED"},
            basis : {"none", "CONTEXT", "PRIOR_REVIEW", "SENSED"}]
Review == [level : Level, concerns : {{}} \cup {{c} : c \in Concern}, asks : BOOLEAN]
Output == [form : {"bare", "wrapped", "broken"}, says : Review]

\* The object is found in what B wrote.
_extract_json_object(out) == out.form = "wrapped"

parse_review(out) == out.form = "bare" \/ _extract_json_object(out)

Grounded(c) ==
    /\ c.claim = "OUTPUT"
    /\ c.signal # "UNSUPPORTED" => c.basis # "none"
    /\ c.basis \in {"none", "CONTEXT"}

\* Mutant: the basis is looked up in the whole prompt.
GroundAnywhere(r) ==
    \A c \in r.concerns : c.claim = "OUTPUT" /\ (c.signal # "UNSUPPORTED" => c.basis # "none")

ground_review(r) == \A c \in r.concerns : Grounded(c)

Accepted == {out.says : out \in {o \in Output : parse_review(o) /\ ground_review(o.says)}}
SomeRejected == \E out \in Output : ~(parse_review(out) /\ ground_review(out.says))

-----------------------------------------------------------------------------
(***************************************************************************)
(* The state of a run.  from: the scopes whose observations, or conclusions *)
(* shown again, the findings rest on.                                       *)
(***************************************************************************)
NoMemory == [at |-> 0]
NoReview == [level |-> "none"]

NoState == [schema |-> 3, oversight |-> "none", at |-> 0, reviewedAt |-> 0, used |-> 0,
            memory |-> NoMemory, from |-> {}, level |-> "none", concerns |-> {}]

\* A row of the previous schema: its review is its memory too.
LegacyState(s) ==
    [schema |-> 2, oversight |-> "reviewed", at |-> 1, reviewedAt |-> 1, used |-> 0,
     memory |-> NoMemory, from |-> {s}, level |-> "GREEN", concerns |-> {}, scope |-> s]

completed_memory(state) ==
    IF state.memory # NoMemory THEN state.memory
    ELSE IF state.schema = 2 /\ state.oversight = "reviewed"
         THEN [at |-> state.at, scope |-> state.scope, from |-> state.from]
         ELSE NoMemory

memory_status(memory, s) ==
    IF memory = NoMemory THEN "none"
    ELSE IF memory.scope # s THEN "scope_mismatch"
    ELSE IF now - memory.at \in 0 .. MemoryTtl THEN "available" ELSE "stale"

usable_state(state, s) ==
    /\ state.oversight = "reviewed"
    /\ state.scope = s
    /\ now - state.at \in 0 .. StateTtl

\* Mutant: the last memory is shown whatever its status.
ShownAnyMemory(s) ==
    (IF ContextMemoryEnabled /\ completed_memory(latest) # NoMemory
     THEN completed_memory(latest).from ELSE {})
    \cup (IF ClaimsEnabled /\ usable_state(latest, s) THEN latest.from ELSE {})

\* The conclusions of earlier cycles in the prompt: prior_memory and prior_claims.
Shown(s) ==
    (IF ContextMemoryEnabled /\ memory_status(completed_memory(latest), s) = "available"
     THEN completed_memory(latest).from ELSE {})
    \cup (IF ClaimsEnabled /\ usable_state(latest, s) THEN latest.from ELSE {})

\* GET state: the oversight and memory status a reader in scope s is told.
run_state(s) ==
    [oversight |-> IF latest.oversight = "reviewed" /\ ~usable_state(latest, s)
                   THEN "stale" ELSE latest.oversight,
     memory |-> memory_status(completed_memory(latest), s)]

-----------------------------------------------------------------------------
CycleInit ==
    /\ now = Cooldown + 1
    /\ latest \in {NoState} \cup {LegacyState(s) : s \in Scopes}
    /\ phase = "idle"
    /\ obs = [at |-> 0]
    /\ fed = {}
    /\ review = NoReview
    /\ attempt = 0
    /\ rounds = 0
    /\ used = 0
    /\ fetched = 0
    /\ lost = 0
    /\ stored = 0
    /\ cycles = 0

Tick ==
    /\ now < MaxTime
    /\ now' = now + 1
    /\ UNCHANGED <<latest, phase, obs, fed, review, attempt, rounds, used, fetched,
                   lost, stored, cycles>>

\* Disabled, expired (or from the future), superseded, cooling down.  Such an
\* observation, one over the budget of the minute and one that is not for this
\* agent leave an event and nothing else (SkipReview of ObserverJobs).
Skippable(o) ==
    \/ ~Enabled
    \/ now - o.at \notin 0 .. StateTtl
    \/ latest.at >= o.at
    \/ now - latest.reviewedAt < Cooldown

\* A message without text is not routed, a routing that raises lets it pass, and
\* one that is not sure enough counts as directed elsewhere.
Routing == {"blank", "raised", "directed", "unsure", "elsewhere"}

_should_respond_to_message(r) ==
    ~RoutingEnabled \/ r \in {"blank", "raised", "directed"}

Begin(o, r) ==
    /\ phase = "idle"
    /\ cycles < MaxCycles
    /\ ~Skippable(o)
    /\ _should_respond_to_message(r)
    /\ phase' = "reviewing"
    /\ obs' = o
    /\ fed' = Shown(o.scope)
    /\ used' = latest.used
    /\ cycles' = cycles + 1
    /\ UNCHANGED <<now, latest, review, attempt, rounds, fetched, lost, stored>>

-----------------------------------------------------------------------------
(***************************************************************************)
(* _review_with_sensing: a review, then rounds of an evidence operation and *)
(* a new review.  A first review that cannot be had degrades the cycle; a   *)
(* later one leaves the review before it.                                   *)
(***************************************************************************)
Senses(r) ==
    SensingEnabled /\ rounds < MaxRounds /\ r.asks /\ used < OpsPerRun

\* _obtain_review, an output that parses and is grounded.
Obtain(r) ==
    /\ phase = "reviewing"
    /\ review' = r
    /\ attempt' = 0
    /\ phase' = IF Senses(r) THEN "sensing" ELSE "saving"
    /\ UNCHANGED <<now, latest, obs, fed, rounds, used, fetched, lost, stored, cycles>>

\* One corrective retry for an output that does not.
Retry ==
    /\ phase = "reviewing"
    /\ attempt = 0
    /\ SomeRejected
    /\ attempt' = 1
    /\ UNCHANGED <<now, latest, phase, obs, fed, review, rounds, used, fetched, lost,
                   stored, cycles>>

\* The retry was invalid too, or the call of the model raised.
GiveUp ==
    /\ phase = "reviewing"
    /\ phase' = IF review = NoReview THEN "degrading" ELSE "saving"
    /\ attempt' = 0
    /\ UNCHANGED <<now, latest, obs, fed, review, rounds, used, fetched, lost, stored,
                   cycles>>

\* Both report their failures as a result, which counts; only an argument that
\* is no URL or path at all raises.
fetch_url == {"result", "raise"}
read_artifact == {"result", "raise"}

_execute_evidence ==
    /\ phase = "sensing"
    /\ \/ /\ "result" \in fetch_url \cup read_artifact
          /\ phase' = "reviewing"
          /\ used' = used + 1
          /\ rounds' = rounds + 1
          /\ fetched' = fetched + 1
       \/ /\ "raise" \in fetch_url \cup read_artifact
          /\ phase' = "degrading"
          /\ UNCHANGED <<used, rounds, fetched>>
    /\ UNCHANGED <<now, latest, obs, fed, review, attempt, lost, stored, cycles>>

-----------------------------------------------------------------------------
(* RED must come with a concern.                                            *)
Downgraded(r) == IF r.level = "RED" /\ r.concerns = {} THEN "YELLOW" ELSE r.level

\* What this cycle concluded rests on its observation and what B was shown.
Lineage == {obs.scope} \cup fed

reviewed_state ==
    [schema |-> 3, oversight |-> "reviewed", at |-> obs.at, reviewedAt |-> now,
     scope |-> obs.scope, level |-> Downgraded(review), used |-> used, from |-> Lineage,
     concerns |-> IF ClaimsEnabled THEN review.concerns ELSE {},
     memory |-> IF ContextMemoryEnabled
                THEN [at |-> obs.at, scope |-> obs.scope, from |-> Lineage]
                ELSE completed_memory(latest)]

\* Mutant: a failed review starts the count of operations again.
degraded_state_uncounted ==
    [schema |-> 3, oversight |-> "degraded", at |-> obs.at, reviewedAt |-> now,
     scope |-> obs.scope, level |-> latest.level, used |-> 0, from |-> {},
     concerns |-> {}, memory |-> completed_memory(latest)]

degraded_state ==
    [schema |-> 3, oversight |-> "degraded", at |-> obs.at, reviewedAt |-> now,
     scope |-> obs.scope, level |-> latest.level, used |-> latest.used, from |-> {},
     concerns |-> {}, memory |-> completed_memory(latest)]

\* The evidence is written on a connection of its own, and may fail.
record_evidence_memory ==
    stored' \in IF rounds > 0 THEN {stored, stored + 1} ELSE {stored}

EndCycle ==
    /\ phase' = "idle"
    /\ obs' = [at |-> 0]
    /\ fed' = {}
    /\ review' = NoReview
    /\ attempt' = 0
    /\ rounds' = 0
    /\ used' = 0
    /\ UNCHANGED <<now, fetched, cycles>>

Save ==
    /\ phase = "saving"
    /\ latest' = reviewed_state
    /\ record_evidence_memory
    /\ EndCycle
    /\ UNCHANGED lost

Degrade ==
    /\ phase = "degrading"
    /\ latest' = degraded_state
    /\ lost' = lost + rounds
    /\ EndCycle
    /\ UNCHANGED stored

\* The worker dies or a statement raises: the transaction is rolled back, the
\* evidence written on the other connection stays.
Rollback ==
    /\ phase # "idle"
    /\ IF phase = "saving" THEN record_evidence_memory ELSE UNCHANGED stored
    /\ lost' = lost + rounds
    /\ EndCycle
    /\ UNCHANGED latest

CycleNext ==
    \/ Tick
    \/ \E o \in [at : 1 .. MaxTime, scope : Scopes] :
          \E r \in Routing : Begin(o, r)
    \/ \E r \in Accepted : Obtain(r)
    \/ Retry
    \/ GiveUp
    \/ _execute_evidence
    \/ Save
    \/ Degrade
    \/ Rollback

CycleSpec == CycleInit /\ [][CycleNext]_cycleVars

-----------------------------------------------------------------------------
(* What B concluded about one floor or attempt never reaches another: the   *)
(* memory and the findings a reader is told are current rest on nothing but *)
(* this scope, although cycles of several scopes follow each other, fail,   *)
(* and carry the memory of another scope along.                             *)
ScopesKeptApart ==
    \A s \in Scopes :
        /\ run_state(s).oversight = "reviewed" => latest.from = {s}
        /\ run_state(s).memory = "available" => completed_memory(latest).from = {s}

(* A RED state names a concern, and every concern that is saved quotes the  *)
(* answer and rests on the supplied record, never on B's own earlier review *)
(* or on nothing, whichever of the up to 2 * (1 + MaxRounds) outputs of the *)
(* cycle it comes from.                                                     *)
FindingsGrounded ==
    latest.oversight = "reviewed" =>
        /\ latest.level = "RED" /\ ClaimsEnabled => latest.concerns # {}
        /\ \A c \in latest.concerns : c.claim = "OUTPUT" /\ c.basis \in {"none", "CONTEXT"}
                                      /\ (c.basis = "none" => c.signal = "UNSUPPORTED")

(* The budget of evidence operations is the run's, not the cycle's: however *)
(* many cycles there are, and although failed ones save a state too, no     *)
(* more are executed than the budget and those of failed cycles.            *)
EvidenceWithinBudget == fetched <= OpsPerRun + lost
=============================================================================

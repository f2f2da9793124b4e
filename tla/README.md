# Verification of dual-lobe-proxy

dual-lobe-proxy is an OpenAI-compatible gateway. Lobe A answers the client;
lobe B watches: in the *gated* mode it rates every answer before the turn ends,
in the *observer* mode it reviews completed calls in the background. Paths below
are relative to `src/src/dual_lobe/`.

## Inventory

| Part | State it keeps | Operations | Interacts with |
|---|---|---|---|
| Observation pipeline: `b/outbox.py`, `b/worker.py`, `state/repositories.py` | tables `outbox`, `b_jobs`, `b_state`; advisory lock per run | enqueue, publish, claim, process, defer, mark done/failed | chat endpoint (producer), review cycle, PostgreSQL |
| Review cycle: `b/context_shadow.py`, `b/channels.py` | the previous `b_state` row, read before and replaced after the model calls | skip, suppress, review, degrade, save | pipeline, lobe B, evidence tools, recipient router |
| Pacing gate: `provider/ratelimit.py` | request and token windows, live rates and ceilings, pause, daily count, asyncio lock | acquire, estimate, observe, record usage, snapshot | adapter, hub |
| Provider hub: `provider/hub.py` | pool, rotation index, cool-down per slot | order, buffered, stream, mark | adapter, gate, gated turn |
| Adapter: `provider/adapters.py` | none | buffered, stream | gate, HTTP |
| Meter filter: `core/meter_format.py` | pending text, blocked flag | feed, finish, strip | gated stream |
| Gated turn: `gated/handler.py`, `b/verification.py`, `proxy/tools.py` | locals of a turn, process-wide meter store per run | answer or stream, proxy tools and continuation, verify, flip-back, store, record | hub, filter, shared memory |
| Co-author mode: `bidirectional/handler.py`, `routing.py` | locals of a request; across requests only what the client resends and shared memory | gate, choose speaker, consult, proxy tools, hand over, verify, take notes, restore | hub, privacy guard, proxy tools, shared memory |
| Privacy guard: `bidirectional/privacy.py` | token vault of one request | tokenize, replace known values, sanitize, rehydrate, destroy | co-author mode |
| Shared memory: `state/memory.py` | journal of exchanges per space, notebook, notes | load, record, inspect, search | chat endpoint, proxy tools |
| Recipient routing: `b/recipient_router.py`, `b/rules.py` | process-wide rules | decide who answers | chat endpoint, review cycle |
| Chat endpoint: `api/chat.py`, `limits.py`, `auth.py` | runs, admission windows | refuse, admit, route, load, dispatch, record | everything |
| Other endpoints: `api/events.py`, `memory.py`, `state.py` | events | ingest, page, read state | pipeline, memory |

What is hard here: worker processes that claim under a lease shorter than the
work; rows read before a model call and written after it; coroutines that sleep
with a lock held while others change what they computed; orders of slots that
age while they are used; streams that fail after part of them was delivered, or
whose chunk boundaries fall anywhere; answers replaced after they were streamed;
private text that changes hands between a local and a remote model in four
different ways; rows looked up by two requests before either inserts one; work
done after the response was sent.
`PROJECT.json` lists these hazards with the lines they are at.

## Modules

| Module | Models | Composes or uses |
|---|---|---|
| `ReviewLedger` | the promise of the pipeline to its reader: one snapshot per run, moving forward | – |
| `ObserverJobs` | outbox, jobs, workers, lock, review rows | instantiates `ReviewLedger` |
| `RateGate` | one pacing gate and its callers | – |
| `Hub` | the slot pool, cool-downs and calls of both lobes | takes the gate's waits as inputs |
| `MeterFilter` | the stream filter and the strip function | – |
| `GatedTurn` | turns of one run, with verifier, proxy tools and meter store | takes from `MeterFilter` that the filter emits a prefix |
| `ReviewCycle` | one cycle of lobe B after another for a run | relies on the serialization `ObserverJobs` establishes |
| `Coauthor` | a conversation in the co-author mode | takes the guard as "recognised values become tokens", which `TokenVault` examines |
| `TokenVault` | the vault and the sanitizer, on texts as sequences of atoms | – |
| `SharedMemory` | journal, load, record, inspect | – |
| `RecipientRouter` | who answers, as operators | – |
| `ChatEndpoint` | requests of one tenant, events, memory reading | extends `SharedMemory` and `RecipientRouter`; the lobes' answer is one step |
| `ObserverProofs`, `RateGateProofs`, `HubProofs`, `MeterFilterProofs`, `GatedTurnProofs`, `CoauthorProofs`, `TokenVaultProofs`, `ChatEndpointProofs` | theorems | extend their component; `ObserverProofs` extends `ObserverJobs` and `ReviewCycle` |
| `MC*` | values for the runs | extend their component |

### ObserverJobs

A database transaction is one step, except where another process can see into
it: taking the advisory lock (`TryLock`), reading the previous row
(`BeginReview`) and the final commit (`SaveReview`, `SkipReview`, `DropStale`)
are separate, because a whole model call lies between them. `pc[w, j]` is the
coroutine of worker `w` for job `j`; two workers may both have one for the same
job, after an overrun. `lease` reduces `lock_until` to none, held and expired.
`rows[r]` is the append-only `b_state` table of a run, its revision the position.
`Defer` writes `pending` without looking at the status and `mark_job_done`
leaves the lease alone, as the code does. Faults are `Raise` (any statement of
the `try` block), `MarkFailedLost`, `CycleError`, `Crash` and `Overrun`; at most
`MaxFaults` of them, the loss of the mark after a failure not counted again. Which skip reason applies is not modelled, except
`superseded`, which guards the save.

### RateGate

Time is relative: a window entry keeps its age, a deadline the time left, so the
state space is finite although time goes on. Rates are integers in hundredths,
since the code rounds to two decimals; `Round` allows both neighbours at a tie.
0 stands for `None`. The asyncio lock is the queue of its owner and waiters; the
owner sleeps at the head of it. Parsing of headers and bodies is an input
(`Response`), and the gate is assumed enabled. `MaxEntries` bounds the windows,
for TLC only. `AcquireWait` is the wait the owner of the lock computes,
`LockWait` the rest of the sleep of an owner that sleeps, and `EntryWait` the larger of
the two: what a caller meets who enters now. `estimate_wait` sees the first only.

### Hub

Everything between two awaits is one step. `order[c]` is the rest of the order a
call computed when it began; its head is in flight. `owed[c]` is a history
variable for the property on failures: the slots that were not cooling when the
call began, if one of them was ready, else all, less those that have failed it.
The waits of the gates, error classes (as cool-down times) and speeds are
inputs. With `Fastest` any order of the ready slots may come out.

### MeterFilter

Text is a sequence of symbols: newline, space, `#`, `*`, the two halves of
"deception", "meter", and one for any other word character. Case, tabs, the
shield emoji and `__` are left out. The regular expression is modelled by what
it matches (`HeadingAt`), the candidate test by `Possible`.

### GatedTurn

A step runs from one await to the next. Text is a sequence of pieces: two of A's
answer, the continuation, the revision, the meter. `sent` is what the client
has, `streamed` the handler's `streamed_text`, `about` the text B judged.
`complete` holds the turns whose answer came with a finish reason; `CutShort`
allows an upstream to close a stream between two events, which the adapter takes
for its end. A review is valid or not, asks for evidence or not, and rates: what
it says is an input. The handoff (B's unverified and missing items and next
step) and the assistance (its questions and notes) are stored with the verdict:
`handoff` is the text B's handoff is about, and `told` what A is told of the
last verdict when its turn begins. Left out: tool calls for the client, headers,
blank lines. B's tool calls and history search cannot occur: `Review` forbids
fields it does not declare, so a review that has them is invalid. A buffered turn
is not cancelled when its client leaves; a streamed one is closed wherever it
stands.

### ReviewCycle

`ObserverJobs` has a review as two steps, the read of the previous row and the
commit; `ReviewCycle` is what lies between. A scope is a pair of floor and
attempt. Of a review the model keeps the level, where the quotes of a concern
come from, and whether evidence is asked for; of a state, age, scope, counted
operations and the set `from` of scopes its conclusions rest on. `from` is a
history variable: the scope reviewed, and what B was shown again (`fed`). The
clock starts late enough that a state of age 0 has cooled down. `fetched` counts
executed operations, `lost` those whose cycle degraded or was rolled back.
A cycle is skipped without a step here: the effects of a skip are in
`ObserverJobs`.

### Coauthor

A step runs from one model call to the next. A text is the sets of values it
mentions in clear, as tokens of this request and as tokens of an earlier one.
A message mentions nothing or every value, a reply nothing or all of what its
author was sent: texts in between add no states the properties tell apart, as
each property is about the presence of a value. `known` are the values the local
gate named in this request, `Shaped` those the patterns find. `asked` is the
latest user message after parsing (`routing.py` and the request parsers of
`handler.py` are regular expressions over the text). `sentA` collects what lobe
A was sent in clear, in consultations, handoffs and verifications too: the calls
that pass the guard. Two things do not pass it. `found` is what a proxy memory
search returned to the dialogue, which the guard does not look at again.
`aside` is the transcript of the dialogue that a `proxy_consult` or
`proxy_delegate` of lobe B takes to lobe A as it stands (`proxy/tools.py:221-242`).
`GuardedCallsClean` speaks of the first kind of call and excepts `found`;
`PrivateStaysLocal` is the contract, counts all three, and is broken by `aside`.
`Missed` are values that the patterns or the gate find and the guard still does
not mask (keys of JSON objects, numbers, words that occur in their own phrase: see
`TokenVault`); every property is about the values it masks.

### TokenVault

Texts are sequences of atoms: blank, a keyword, a dot, an atom of recognisable
form, and pieces of words. A keyword (" is", ":") behind the phrase that announces a
secret makes the next word private. As in the code, the token is put at the first
occurrence of that word in the match, phrase included (`Place`), a text that parses
as a JSON scalar is returned as it is, a record's keys and numbers are kept unless
the key names an identifier, and its texts are sanitized. A vault is the sequence
of its entries, and a token is the number of its entry: the code draws a token at
random and draws again while it is taken, so tokens are distinct and tell nothing.
`replace_known` and `rehydrate_text` replace in the order of lengths the code
sorts by. Left out: texts with a second keyword, quotes around a value, values that
occur in the separator, phrases inside a longer word, texts of a client that spell a
token, values inside the spelling of a token, nested JSON, and the re-serialization
of JSON with sorted keys (`privacy.py:285`), after which a text comes back as the same
data and not as the same characters.

### SharedMemory, RecipientRouter, ChatEndpoint

An entry of the journal gets its number at the insert and is visible at the
commit (`pending`, `journal`). `compose` cuts excerpts to equal shares, though not below
`Floor` (120 characters), and drops the oldest entries while the encoded text, with
an `Overhead` around each excerpt, is longer than `Room` and the `Reserve` of 800
characters; a `dense` entry encodes to twice its length. `RoomAssumption` says that the
recent entries fit at their shortest and that the reserve holds what is around
them: the notebook is at most 4000 characters (`memory.py:237`), the budget at
least 6000 (`core/settings.py:106`), and the recent entries are three. The rank of
full-text matches is arbitrary.

A conversation is reduced to whom its last two user messages address. The
model's judgement in the semantic modes is an input, an invalid one counts as
"respond".

`ChatEndpoint` has one step per await: arrival and refusals, the admission
windows (under one lock, so one step), the look-up of a run and its insert, routing,
load, answer, the background tasks, the commit. Events and the paging client
interleave with them. `Crash` is a restart of the process: the windows are gone,
so `admitted` starts again. `admitted`, `latest`, `sure` and `page` exist for the
properties.

## Runs

| Run | Checks | Bounds |
|---|---|---|
| `ObserverJobs_worker` | `Serialized`, `PrevFresh`, `LedgerOrdered`, `MemoryOfLastReview`, `DoneAccounted`, refinement of `ReviewLedger`, `EventuallySettled` | 2 workers with 1 slot each, 3 jobs of one run, published against their order, two with equal times, 2 attempts, 1 fault |
| `ReviewCycle_scopes` | `ScopesKeptApart`, `FindingsGrounded`, `EvidenceWithinBudget` | 3 cycles, 2 scopes, 2 evidence rounds, a budget of 2 operations, times to live of 1 and 2 ticks, clock up to 4 |
| `RateGate_pacing` | `WindowsConsistent`, `QueueMatches`, `BudgetWithinCeiling`, `EstimateIsReadiness`, `AdmittedWithinBudget`, `EveryCallerLeaves` | 2 callers, window of 2 ticks, maximum wait of 1, 2 requests a day of 2 ticks, 2 loops, 2 entries, growth after each success |
| `Hub_lobes` | `NoSplice`, `FailsOnlyWhenAllFailed`, `EveryCallEnds` | 3 calls, 3 slots, two of them shared by the lobes |
| `MeterFilter_chunks` | `PrefixOneLineBehind`, `AgreesWithStrip` | 5 chunks, each a symbol or one of 9 lines |
| `GatedTurn_full` | `VerdictIsOfThisAnswer`, `InterruptedNeverCompletes`, `UnreplacedDelivered`, `StoreIsShownVerdict` | a streamed and a buffered turn, 1 evidence round, proxy tools and flip-back on |
| `GatedTurn_ends` | `EveryTurnEnds` | 1 streamed turn, 2 evidence rounds |
| `Coauthor_turns` | `GuardedCallsClean`, `AnswersRestored`, `CrossChecked`, `KeptClean`, `ResumedByOwner` | 2 requests, a value the patterns find and one only the gate can name, stray consult and handoff calls, nothing missed |
| `Coauthor_promise` | `PrivateStaysLocal`, which is violated | 1 request, one value more that the guard misses |
| `TokenVault_texts` | `NoneLeft`, `NothingLost`, `RoundTripWhenFlat` | 2 texts, scalars or records, 5 tokens, a phrase of two letters of which one occurs in the texts |
| `ChatEndpoint_room` | `AdmittedWithinLimits`, `NamesIdentify`, `JournalOfAnswers`, `LatestRemembered`, `PagesComplete`, `OneSpeaks` | 2 requests of 11 kinds, 2 event calls with one key, 1 crash, 3 earlier entries, of which not all loaded ones fit, every routing mode |
| `ChatEndpoint_promise` | `SuppressedRemembered`, which is violated | those of `ChatEndpoint_room` |

Why the bounds are enough to be of interest. The pipeline's conflicts are
between two coroutines and a third job that makes one of them stale; one fault
gives an overrun, a failure or a crash at any point, and the proofs hold for any
number. The gate's are between one
sleeper and one response. The hub needs a call that shares slots with two others
and has a slot left when two have failed. A heading of the shortest form has
four symbols, so five chunks cut it everywhere and leave one to follow. Two
overlapping turns are enough for one to overwrite the other's meter. A third
review cycle is shown what the first concluded after a second one of another
scope, or a failed one, carried it along, and a budget of two operations is used
up by one cycle or by two. A conversation needs a second request for tool results
and for what the first one left in memory. Two texts share a vault in the way a
request's messages do. Two requests race for a run and a third kind of actor
(events, a reader of pages) races with one of them; `Focus`, the constraint of
`ChatEndpoint_room`, lets the other endpoints run with requests that are not
routed only, since they share no state with the routing. The
proofs below remove the bounds for the properties they cover.

Runs with `CHECK_DEADLOCK FALSE` are those whose calls, turns, cycles or requests
are made a bounded number of times and end; the pipeline and the gate never stop and are checked for deadlock.

### Fairness

`ObserverJobs`: `run_forever` polls for ever, a coroutine that can go on does
(every await of it is on a database or on a call under `asyncio.timeout`), and
leases run out. Producers and faults are not fair. `RateGate`: time passes and
the event loop runs a caller whose lock is free or whose sleep is over; calls,
cancellations and responses are not fair. `Hub`: an attempt ends, as the HTTP
client has a timeout. `GatedTurn`: a turn moves on, as every call of a model or
tool is under a timeout; that its retries end is what the run shows.

## Known disagreements

The runs state what the code does. Where a comment, docstring or document says
something else, the formula that states it is kept in the module, if the model can
tell. Two of them are broken promises of a document, and runs that expect the
violation show them:

- `Coauthor!PrivateStaysLocal`, in `Coauthor_promise`: when lobe B speaks in the
  secure variant and calls `proxy_consult` or `proxy_delegate`, lobe A is sent the
  transcript of the dialogue as B sees it, and B's question, in clear
  (`bidirectional/handler.py:543`, `proxy/tools.py:221-242`), against
  `docs/TWO_MODEL_VARIANTS.md:30`, "A receives only sanitized text and opaque tokens".
- `ChatEndpoint!SuppressedRemembered`, in `ChatEndpoint_promise`: a suppressed message
  is not stored (`api/chat.py:407`), against `docs/RECIPIENT_ROUTING.md:29`, "Suppress
  output BUT store in memory", and `b/recipient_router.py:608` and `:747`.

For the others the recipe shows the counterexample.

- `ObserverJobs!OnlyRetryableProcessed`, as an invariant in the configuration of
  `ObserverJobs_worker`: a deferral
  (`b/worker.py:44`) overwrites `failed` with `pending`, and a job without attempts
  left is processed again, against `state/repositories.py:327`. `LedgerOrdered`
  still holds: the repetition costs a model call and never a second row.
- `MeterFilter!OrdinaryTextStreams`, with `Chunks <- Halves` and
  `MaxChunks = 4`: an ordinary sentence that mentions the deception meter ends the
  stream of the answer if a chunk ends just before the words
  (`core/meter_format.py:67` against `:57`). In the gated stream the missing rest
  arrives with the meter.
- `GatedTurn!StreamDeliversFinal`, in `GatedTurn_full`: with flip-back the revised
  answer, which is rated and recorded, never reaches a streaming client, nor does a
  meter line (`gated/handler.py:755` against `:686`).
- `GatedTurn!InterruptedNeverCompletes` with `CutShort = TRUE`: a stream closed
  between two events is completed as `stop` (`gated/handler.py:672` against `:719`).
- `RateGate!ReadyIsAdmitted`, in `RateGate_pacing`: `estimate_wait` is 0 although
  `acquire` blocks behind a caller that sleeps with the lock
  (`provider/ratelimit.py:295`, "Seconds acquire would wait", against `:254` and `:291`).
- `TokenVault!SecretsTaken`, in `TokenVault_texts`: in "my password is password" the
  token takes the place of the word in the phrase and the secret stays
  (`bidirectional/privacy.py:241`), and a known value that occurs in the phrase hides the
  phrase from the pattern.
- `TokenVault!ShapesTaken`, in `TokenVault_texts`: a text that parses as a JSON number is
  returned as it is (`privacy.py:279` and `:270`).
- `TokenVault!RoundTrip`, in `TokenVault_texts`: a value the gate names that also
  follows a keyword gets a token for a token, and is not restored.

Met while modelling, without a formula. In the review cycle: the contract in
`b/prompts.py:286` names SENSED among the sources of a basis, `ground_review` rejects
it; an evidence request that is no URL or path raises and degrades the valid
review it came with, where `b/protocol.py:29` has it dropped; operations of a
degraded or rolled-back cycle are not counted (`lost`), and evidence written by a cycle
that is rolled back stays; a degraded row carries the level of another scope along;
`_should_respond_to_message` suppresses on the confidence 0.0 of the safe default,
where the documentation has a failed analysis respond. In the gated turn: after a
flip-back the meter shown has the notes of the first review, and after a failed
recheck the stored handoff is about the replaced answer, hence the condition on
the level in `StoreIsShownVerdict`; `_extract_b_tool_calls`, `_merge_b_tool_calls` and
`_memory_search_into` have nothing to work on. In the co-author mode: an invalid
gate reply withholds the user messages from A's first view only; arguments of B's tool
calls that quote tokens are not restored; a message that asks for a handoff takes
resumed tool calls from their owner (`bidirectional/handler.py:491`); keys of JSON
objects are never sanitized (`privacy.py:264`). In routing: the
hierarchy mode imports a package that does not exist and always responds; a rule
applies to the message that sets it; rules are shared by all tenants; a follow-up to a
message that addressed a lobe by letter is suppressed in the flat mode. In the
memory: one dense entry can empty what is loaded (`state/memory.py:94`). In the hub, a success of an older
request clears the cool-down another call has just set (`hub.py:105`).

Never reached by a request: the generic observer path of `api/chat.py` (598 on) with
`_stream_body`, `_persist_observation`, `_read_context` and `prepare_context`. The
producer of `ObserverJobs` is `enqueue_outbox`, which that path calls.

In the gate, the hub and the filter:
`ratelimit.py:16` "never asked for more than it allows" (a request larger than
the budget is admitted into an empty window, which `AdmittedWithinBudget`
states); `ratelimit.py:18` "A 429 still shrinks the budget" (a budget reported
below `MIN_TPM` is raised to it, hence the floor in `BudgetWithinCeiling`);
`ratelimit.py:20` "exponential fallback" (the exponent counts successes before
the refusal, not refusals); `ratelimit.py:51` "inside max wait" (checked per
sleep); `hub.py:239` "never touch a cooling one
this call" (the order is computed once); `hub.py:4` "Each call starts on the next
slot" (the index also advances over slots the lobe does not have);
`meter_format.py:14` "Remove any model-authored meter block" (a `**` cut in two
lets a heading through); `gated/handler.py:741` "send whatever it added" (after
a failed continuation A's text is sent again, after an empty one the streamed
text stays under a verdict about the empty answer).

## Proofs

Each invariant that is not inductive comes with the strengthening that is. What
is proved holds for all values of the constants under the modules' assumptions:
`JobAssumption` and `LimitAssumption`, `GateAssumption` (the window and the day
are not empty, the floor of the request budget is at least one request per
window), `HubAssumption` (each lobe owns a slot), `ChunkAssumption`,
`SharedMemoryAssumption` (earlier entries are numbered, the sizes are numbers),
`RoomAssumption` (the recent entries fit at their shortest, see above),
`ChatEndpointAssumption` (earlier entries are not of these requests and have a
space; the calls of the events endpoint modelled are those with a key),
`AdmissionAssumption` (what was let in before the start respects the limits, each
hit being of a request of its own), `AtomAssumption` (the kinds of atoms differ,
no atom is a number, which tokens are, and the phrase is made of letters),
`TextAssumption` (the texts and
records that arrive are made of atoms, with one keyword at most), and the types of the switches and bounds of
`GatedTurn`, `ReviewCycle` and `Coauthor`. The last step of each theorem is a temporal one;
everything else is first-order.

Induction over data is out of the prover's reach in its usual form. Where it is
needed, the modules prove that a set of numbers has a least element
(`LeastNumber`) or that a set of texts that holds a text whenever it holds all
shorter ones holds every text (`TextInduction`), and argue about sets: that the
running sum behind `SumSizes` and the sum over a set behind `Used` and
`EncodedLength` exist and what they come to (`SubsetInduction`, `TotalAdd`), that
replacement does and what it returns, that slots can be sorted, that there is a
first heading, a newest entry, a last completed review.

`ObserverProofs`, about `ObserverJobs`:

- `Invariance`: `IInv == TypeOK /\ Serialized /\ PrevFresh /\ RowsOfRun /\
  LedgerOrdered` is inductive. None of the parts but the first two is inductive
  alone. `PrevFresh` needs `Serialized` (no other coroutine of the run can
  append while one reviews). `LedgerOrdered` needs `PrevFresh`: the guard `~Superseded`
  speaks of the row that was read, and only freshness makes it a fact about the
  last row, from which `LedgerOrdered` itself gives all earlier ones
  (`AllOlder`). `RowsOfRun` says that a run's rows are about its own jobs.
- `TypeCorrect`, `RunSerialization`, `NoLostUpdate`, `ReviewsInOrder` follow.
- `LedgerRefinement`: initial states map to initial states, `SaveReview` to
  `Complete` or `KeepMemory` (`SaveIsLedgerStep`), every other step to a stutter.
- `NothingLost`: `DoneAccounted`, from `IInv` and the fact that rows, skip events
  and published jobs never go away (`RecordsStay`).
- `MemorySound`: `MemoryOfLastReview`. `MemoryInv` names, for each row, the last
  completed one up to it as the source of its memory, and the number of
  completed ones as its version; an append extends the count by one or not at all.

`ObserverProofs`, about `ReviewCycle`: `ScopesSound` from `ScopeInv == LatestPure /\ FedPure` (what
the latest state rests on, and what B was shown of it, is of one scope);
`FindingsSound` from `ReviewGrounded` (a concern of the review under way stays
grounded or is dropped when it is validated); `BudgetSound` from `BudgetInv ==
OperationsCounted /\ BudgetKept` (the count that a state carries forward is of
all operations of its scope that were not lost).

`RateGateProofs`: `GateInv == TypeOK /\ WindowsConsistent /\ QueueMatches /\
BudgetInv`. The cached `tokTotal` is the sum of the window, through the arithmetic
of `SumSizes` (`SumOfAppend`, `SumOfSplit`, `PruneFacts`); that pruning stops at the
first young entry is enough only because the window is in the order of time.
`QueueMatches` needs that removing a waiter keeps each caller in the queue once
(`RemoveAtFacts`). `BudgetInv` adds that a ceiling, once reported, is not below
the floor. `EstimateSound` and the action property `AdmissionSound` follow from it.

`HubProofs`: `SingleSource` from `FromInFlight` (the output of a call that is still
trying comes from the slot in flight: a second slot is tried only while there is
none). `FailureSound` from `OwedInv`: the slots that a trying call owes an answer
are in the rest of its order. It rests on the order holding every slot that is
tried, `SortBy` being stated by what a stable sort returns (`Chain`). `TypesSound`
from these and `Bounded`, assuming that there is a longest cool-down.

`MeterFilterProofs`: `PrefixSound` from `PrefixInv` (until a heading is found,
emitted and pending text make up the text). `AgreementSound` from `AgreementInv`:
while chunks end with their lines nothing but blanks is pending, which begin where
a line does. The lemmas behind it say that whether a heading stands somewhere is
settled by its line (`HeadingSettled`), so that the filter, which sees the pending
text, and `strip_deception_meter`, which sees all, find the same, and that text
which arrives later adds no heading before the first.

`GatedTurnProofs`: `VerdictSound`, with `RatedAsIs`: from the verdict on, a level
other than YELLOW is about the present content, and the only step that changes
the content, the reconsideration, leads to the recheck. `InterruptionSound`,
assuming `~CutShort`, with `AnsweredInFull`; without the assumption it does not
hold, see above. `StoreSound` from `StoreInv` (`HandedAsRated`: B's handoff is
about the content as long as its verdict stands). `DeliverySound` from
`DeliveredInv == StreamedIsSent /\ UnreplacedDelivered`: what is sent at the end
is the rest of the answer behind what was streamed. `TypesSound` from `TextTyped`,
`OutputTyped` and `VerdictTyped`.

`CoauthorProofs`: `ConversationInv == TypeOK /\ PrivateInv /\ Untokened /\ SpokenInv`
bounds what the dialogue may hold in clear and as tokens, for each author and
each stage, and who spoke last. `PrivacySound`, `RestoredSound`, `CrossCheckSound`
and the action properties `OwnerSound` and `MemorySound` follow. `PrivacySound` is
about `GuardedCallsClean`, for any values the guard misses (in `Coauthor_turns` there
are none); it says nothing of what proxy questions of lobe B take past the guard.

`TokenVaultProofs`: that the recursive definition of replacement has a value is
proved first (`ReplaceIsBody`, `ReplaceFacts`). Resolving tokens works on the
parts of a text separately (`Hom`, `RestoreHom`), so replacing a value by its token
changes nothing that is resolved (`HomReplace`). `VaultSound`: `VaultInv` says that
the value of an entry is made of atoms and tokens issued before, that no value
has two entries, and `LastInv`, that the last text and its result resolve to the same
(`Alike`), now and under every later vault. `NothingLostSound` is what it says of
the present vault. `NoneLeftSound` speaks of texts that are looked into, and of
announced words as far as the code takes them: where a token stands in the phrase
the phrase is gone (`PlaceFacts`, `PlaceInPhrase`). It needs the order of replacements: what stands
between two tokens of a result was copied from the text (`Stretch`, `Copied`), so
replacing brings no value back that was replaced before (`OccursBefore`), and no
word of dots that the patterns would have passed over (`OnlyDotsBefore`); a value
that is part of another is narrower (`PartIsNarrower`), so widest first leaves
none (`KnownWhole`). `RoundTripSound` needs that no value holds a token, when
the order in which tokens are resolved is of no consequence (`FlatRehydrate`).

`ChatEndpointProofs`: `NamesSound` from `RunsKept` (a stored run number is the
row's) and `EventsIndexed` (a key has one row); `SpeaksSound` from `TargetsKept`;
`JournalSound` from `EntriesKept` (every entry is of a request that is past its
answer, committed or pending, not both); what it does not say is that every request
leaves an entry, and a suppressed one does not. It speaks of keys with a persona,
because any other key may name the persona's space in its header.
`PagesSound` from `Numbered` and `PageKept`: what is left to read is older than the
number the client holds, and entries that become visible late with a smaller
number than that one were not there when it began.
`LimitsSound` from `AdmissionInv`: `Charged` says that all that was admitted in
the current window is still charged to both windows, so that what fits beside the
charged hits (`Fits`) fits beside the admitted ones (`LiveFits`); a window that
ended earlier does not change any more. `RecallSound` from `RecallInv` (`Recalled`: from
its arrival on, a request's newest entry is in its space, and entries only become
more); `ComposeKeeps` shows that in a space without dense entries the recent ones fit,
whichever older ones are dropped.

Every invariant and every action property that a run checks is the subject of a
theorem. Model-checked only is liveness (`EventuallySettled`, `EveryCallerLeaves`,
`EveryCallEnds`, `EveryTurnEnds`): fairness and ENABLED are outside the prover.

## Not modelled

Prompt texts, the wording of reviews, rendering of the meter, header parsing,
SSE parsing, HTTP, the contents of evidence, the implementation auditor, busy
agents, evaluation, client and demo: text and I/O without state shared by
actors. Settings, bootstrap, engines, registry, telemetry and redaction:
configuration. In the modelled parts: client tool calls of a gated turn, the
notebook and search of shared memory, behavioural rules of the router, encryption and
expiry of the vault, and the code no request reaches.

## Plan

1. Done: `ObserverJobs` with `ReviewLedger` and its proofs, `RateGate`, `Hub`,
   `MeterFilter`, `GatedTurn`.
2. Done: `ReviewCycle`, `Coauthor`, `TokenVault`, `SharedMemory`, `RecipientRouter`,
   `ChatEndpoint`.
3. Done: proofs of all safety properties of `ObserverJobs`, `RateGate`, `Hub`,
   `MeterFilter`, `GatedTurn`, `ReviewCycle`, `Coauthor`, `TokenVault` and `ChatEndpoint`
   that a run checks.
4. Next: that turns of `GatedTurn` with `MeterFilter` as their filter deliver what
   `DeliverySound` says; texts with several keywords and quoted values in
   `TokenVault`; client tool calls in `GatedTurn`.

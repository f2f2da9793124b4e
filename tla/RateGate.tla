------------------------------ MODULE RateGate ------------------------------
(***************************************************************************)
(* One upstream pacing gate (provider/ratelimit.py) shared by the callers   *)
(* that use the same provider credential.  acquire() sleeps while it holds  *)
(* the gate's asyncio lock; responses of earlier calls are observed in the  *)
(* meantime and change the budget the sleeper will meet when it wakes.      *)
(*                                                                          *)
(* Time is relative: a stamp is kept as its age, a deadline as the time     *)
(* left, so the state space is finite although time never ends.  Rates are  *)
(* in hundredths, the precision the code rounds them to; a rate of 0 stands *)
(* for None.                                                                *)
(***************************************************************************)
EXTENDS Integers, Sequences, FiniteSets, SequencesExt

CONSTANTS
    Caller,         \* coroutines that call the provider
    Sizes,          \* token estimates of requests
    Response,       \* the responses the provider may give
    Usages,         \* token counts a response may report
    Rpm, Tpm, Rpd,  \* the initial budget; Rpd is in whole requests
    Window,         \* WINDOW, in ticks
    Day,            \* DAY, in ticks
    MaxWait,        \* upstream_rate_max_wait
    MaxLoops,       \* 64 in acquire
    GrowAfter,      \* 10 successes in note_success
    MinRpm, MinTpm, \* MIN_RPM, MIN_TPM
    MaxBackoff,     \* MAX_BACKOFF
    DefaultReset,   \* 5 seconds in observe
    MaxEntries      \* bound on the entries of a window, for TLC

ASSUME GateAssumption ==
    /\ Sizes \subseteq Nat \ {0}
    /\ Usages \subseteq Nat \ {0}
    /\ {Rpm, Tpm, Rpd} \subseteq Nat
    /\ Rpm = 0 \/ Rpm >= 100
    /\ {Window, Day, MaxLoops, GrowAfter, MaxBackoff, DefaultReset} \subseteq Nat \ {0}
    /\ MaxWait \in Nat /\ MaxEntries \in Nat
    /\ MinRpm \in Nat /\ MinRpm >= 100 /\ MinTpm \in Nat \ {0}
    (* status: 2xx, 429 or anything else; limits, reset and retry are 0     *)
    (* where the header, or the hint in the body, is missing.               *)
    /\ Response \subseteq [status : {"ok", "limited", "other"}, exhausted : BOOLEAN,
                           limitRpm : {0} \union {n \in Nat : n >= 100}, limitTpm : Nat,
                           reset : Nat, retry : Nat]

VARIABLES
    pc, want,               \* per caller: where it is, tokens it asks for
    queue,                  \* the asyncio lock: its owner and its waiters
    sleepLeft, loops,       \* the owner's sleep and iterations
    reqs, toks, tokTotal,   \* the two windows
    rpm, tpm, ceilRpm, ceilTpm,
    pause,                  \* time left until _pause_until
    dayUsed, dayLeft,       \* _day_used, time left in the day
    dayStale,               \* the day changed since _day_index was set
    okRun                   \* _consecutive_ok

budget == <<rpm, tpm, ceilRpm, ceilTpm, pause, okRun>>
window == <<reqs, toks, tokTotal>>
daily == <<dayUsed, dayLeft, dayStale>>
owner == <<sleepLeft, loops>>
vars == <<pc, want, queue, owner, window, budget, daily>>

Least(a, b) == IF a < b THEN a ELSE b
Most(a, b) == IF a > b THEN a ELSE b

Init ==
    /\ pc = [c \in Caller |-> "idle"]
    /\ want = [c \in Caller |-> 0]
    /\ queue = <<>>
    /\ sleepLeft = 0 /\ loops = 0
    /\ reqs = <<>> /\ toks = <<>> /\ tokTotal = 0
    /\ rpm = Rpm /\ ceilRpm = Rpm
    /\ tpm = Tpm /\ ceilTpm = Tpm
    /\ pause = 0
    /\ dayUsed = 0 /\ dayLeft = Day /\ dayStale = FALSE
    /\ okRun = 0

-----------------------------------------------------------------------------
(* A window is a sequence of entries, oldest first; a request has size 1.   *)
SumSizes(s) ==
    LET sum[n \in 0..Len(s)] == IF n = 0 THEN 0 ELSE sum[n - 1] + s[n].size
    IN sum[Len(s)]

(* How many entries the popleft loop of _prune takes off a window.          *)
Expired(s) ==
    CHOOSE n \in 0..Len(s) :
        /\ \A i \in 1..n : s[i].age >= Window
        /\ n < Len(s) => s[n + 1].age < Window

Prune(s) == SubSeq(s, Expired(s) + 1, Len(s))

(* Mutant of PrunedTotal: what leaves the window is not subtracted.         *)
TotalKept(s, total) == total

PrunedTotal(s, total) == total - SumSizes(SubSeq(s, 1, Expired(s)))

RollDay == IF dayStale THEN 0 ELSE dayUsed

(* The waits that the pruned windows q and k impose on n more tokens.       *)
RpmWait(q) == IF rpm # 0 /\ 100 * (Len(q) + 1) > rpm THEN Window - q[1].age ELSE 0
DayWait(used) == IF Rpd # 0 /\ used + 1 > Rpd THEN dayLeft ELSE 0
Released(k, i) == SumSizes(SubSeq(k, 1, i))

(* acquire walks the token window until enough would have left it; if the   *)
(* whole window is not enough it waits for the last entry.                  *)
TpmWait(k, total, n) ==
    IF tpm = 0 \/ 100 * (total + n) <= tpm \/ k = <<>> THEN 0
    ELSE LET enough == {i \in 1..Len(k) : 100 * Released(k, i) >= 100 * (total + n) - tpm}
             last == IF enough = {} THEN Len(k) ELSE CHOOSE i \in enough : \A j \in enough : i <= j
         IN Window - k[last].age

\* The wait acquire computes for itself once it has the lock.
AcquireWait(n) ==
    LET k == Prune(toks)
    IN Most(Most(pause, RpmWait(Prune(reqs))),
            Most(TpmWait(k, PrunedTotal(toks, tokTotal), n), DayWait(RollDay)))

(* Mutant of estimate_wait: the pause after a refusal is forgotten.         *)
EstimateWithoutPause(n) ==
    LET k == Prune(toks)
        over == tpm # 0 /\ 100 * (PrunedTotal(toks, tokTotal) + n) > tpm /\ k # <<>>
    IN Most(RpmWait(Prune(reqs)), Most(IF over THEN Window - k[1].age ELSE 0, DayWait(RollDay)))

(* estimate_wait looks at the first token entry only.                       *)
estimate_wait(n) ==
    LET k == Prune(toks)
        over == tpm # 0 /\ 100 * (PrunedTotal(toks, tokTotal) + n) > tpm /\ k # <<>>
    IN Most(Most(pause, RpmWait(Prune(reqs))),
            Most(IF over THEN Window - k[1].age ELSE 0, DayWait(RollDay)))

\* How long the caller that sleeps with the lock still keeps it.
LockWait == IF queue # <<>> /\ pc[Head(queue)] = "sleeping" THEN sleepLeft ELSE 0

\* What acquire imposes, as things stand, on a caller that enters it now.
EntryWait(n) == Most(LockWait, AcquireWait(n))

-----------------------------------------------------------------------------
(* A caller enters acquire and queues for the lock.                         *)
Call(c, n) ==
    /\ pc[c] = "idle"
    /\ Len(reqs) < MaxEntries
    /\ pc' = [pc EXCEPT ![c] = "queued"]
    /\ want' = [want EXCEPT ![c] = n]
    /\ queue' = Append(queue, c)
    /\ UNCHANGED <<owner, window, budget, daily>>

Turn(c) ==
    /\ queue # <<>> /\ Head(queue) = c
    /\ pc[c] = "queued" \/ (pc[c] = "sleeping" /\ sleepLeft = 0)

(* _prune and _roll_day, at the top of every iteration.                     *)
Refresh ==
    /\ dayUsed' = RollDay
    /\ dayStale' = FALSE
    /\ dayLeft' = dayLeft

(* Mutants of Release: whoever leaves frees the head, or nobody is freed.   *)
ReleaseHead(c) ==
    /\ queue' = Tail(queue)
    /\ sleepLeft' = 0 /\ loops' = 0
ReleaseNothing(c) == UNCHANGED <<queue, owner>>

(* async with self._lock: the lock is released on every way out.            *)
Release(c) ==
    /\ \E i \in 1..Len(queue) : queue[i] = c /\ queue' = RemoveAt(queue, i)
    /\ IF queue # <<>> /\ Head(queue) = c
       THEN sleepLeft' = 0 /\ loops' = 0
       ELSE UNCHANGED owner

(* The request is entered in both windows and in the daily count.           *)
Enter(c) ==
    /\ reqs' = Append(Prune(reqs), [age |-> 0, size |-> 1])
    /\ toks' = Append(Prune(toks), [age |-> 0, size |-> want[c]])
    /\ tokTotal' = PrunedTotal(toks, tokTotal) + want[c]
    /\ dayUsed' = IF Rpd = 0 THEN 0 ELSE RollDay + 1
    /\ dayStale' = FALSE
    /\ pc' = [pc EXCEPT ![c] = "inflight"]
    /\ Release(c)
    /\ UNCHANGED <<want, budget, dayLeft>>

(* Mutant of Admit: a caller that has slept is let in without a second look. *)
AdmitAfterSleep(c) ==
    /\ Turn(c)
    /\ loops < MaxLoops
    /\ pc[c] = "sleeping" \/ AcquireWait(want[c]) = 0
    /\ Enter(c)

Admit(c) ==
    /\ Turn(c)
    /\ loops < MaxLoops
    /\ AcquireWait(want[c]) = 0
    /\ Enter(c)

PruneWindows ==
    /\ reqs' = Prune(reqs)
    /\ toks' = Prune(toks)
    /\ tokTotal' = PrunedTotal(toks, tokTotal)

Sleep(c) ==
    /\ Turn(c)
    /\ loops < MaxLoops
    /\ AcquireWait(want[c]) \in 1..MaxWait
    /\ PruneWindows /\ Refresh
    /\ pc' = [pc EXCEPT ![c] = "sleeping"]
    /\ sleepLeft' = AcquireWait(want[c])
    /\ loops' = loops + 1
    /\ UNCHANGED <<want, queue, budget>>

(* UpstreamRateLimited: the wait is too long, or the loop did not converge. *)
Reject(c) ==
    /\ Turn(c)
    /\ \/ loops = MaxLoops /\ UNCHANGED <<window, daily>>
       \/ loops < MaxLoops /\ AcquireWait(want[c]) > MaxWait /\ PruneWindows /\ Refresh
    /\ pc' = [pc EXCEPT ![c] = "idle"]
    /\ want' = [want EXCEPT ![c] = 0]
    /\ Release(c)
    /\ UNCHANGED budget

(* snapshot and estimate_wait, called from outside: they prune as well.     *)
Inspect ==
    /\ PruneWindows /\ Refresh
    /\ UNCHANGED <<pc, want, queue, owner, budget>>

(* asyncio.timeout around the call, or a client that hung up.               *)
Cancel(c) ==
    /\ pc[c] \in {"queued", "sleeping"}
    /\ pc' = [pc EXCEPT ![c] = "idle"]
    /\ want' = [want EXCEPT ![c] = 0]
    /\ Release(c)
    /\ UNCHANGED <<window, budget, daily>>

-----------------------------------------------------------------------------
(* round(x, 2) of n tenths of a hundredth: at a tie the binary value of the *)
(* product decides, so either neighbour is possible.                        *)
Round(n) == {y \in (n \div 10)..(n \div 10 + 1) : 10 * y <= n + 5 /\ n <= 10 * y + 5}

Adopt(rate, limit) == IF limit # 0 /\ (rate = 0 \/ rate > limit) THEN limit ELSE rate

(* note_rejected, after observe adopted the limits r0 and t0.               *)
Fallback == Least(MaxBackoff, 2 ^ Least(6, okRun + 1))
Retry(resp) == Most(1, Least(MaxBackoff, IF resp.retry # 0 THEN resp.retry ELSE Fallback))

note_rejected(resp, r0, t0, p0) ==
    /\ \E r \in IF r0 # 0 THEN Round(7 * r0) ELSE Round(70 * Len(reqs) * 10) :
        rpm' = IF r0 = 0 /\ reqs = <<>> THEN 0 ELSE Most(MinRpm, r)
    /\ ceilRpm' = LET c0 == IF resp.limitRpm # 0 THEN resp.limitRpm ELSE ceilRpm
                  IN IF r0 = 0 /\ c0 = 0 THEN rpm' ELSE c0
    /\ \E t \in Round(7 * t0) : tpm' = IF t0 = 0 THEN 0 ELSE Most(MinTpm, t)
    /\ pause' = Most(p0, Retry(resp))
    /\ okRun' = 0

(* Mutant of Grown: the ceiling decides whether to grow, not how far.       *)
GrownFreely(rate, ceil) == IF ceil # 0 /\ rate # 0 /\ rate < ceil THEN Round(11 * rate) ELSE {rate}

(* note_success: every GrowAfter-th success in a row lets the rates grow.   *)
Grown(rate, ceil) ==
    IF ceil # 0 /\ rate # 0 /\ rate < ceil
    THEN {Least(ceil, y) : y \in Round(11 * rate)} ELSE {rate}

note_success(r0, t0, c0, d0, p0) ==
    /\ IF okRun + 1 < GrowAfter
       THEN okRun' = okRun + 1 /\ rpm' = r0 /\ tpm' = t0
       ELSE okRun' = 0 /\ rpm' \in Grown(r0, c0) /\ tpm' \in Grown(t0, d0)
    /\ ceilRpm' = c0 /\ ceilTpm' = d0
    /\ pause' = p0

(* The headers of a response, then its status.                              *)
observe(c, resp) ==
    LET r0 == Adopt(rpm, resp.limitRpm)
        t0 == Adopt(tpm, resp.limitTpm)
        c0 == IF resp.limitRpm # 0 THEN resp.limitRpm ELSE ceilRpm
        d0 == IF resp.limitTpm # 0 THEN resp.limitTpm ELSE ceilTpm
        p0 == IF resp.exhausted
              THEN Most(pause, IF resp.reset # 0 THEN resp.reset ELSE DefaultReset) ELSE pause
    IN /\ pc[c] = "inflight"
       /\ CASE resp.status = "limited" -> note_rejected(resp, r0, t0, p0) /\ ceilTpm' = d0
            [] resp.status = "ok" -> note_success(r0, t0, c0, d0, p0)
            [] OTHER -> /\ rpm' = r0 /\ tpm' = t0 /\ ceilRpm' = c0 /\ ceilTpm' = d0
                        /\ pause' = p0 /\ UNCHANGED okRun
       /\ pc' = [pc EXCEPT ![c] = IF resp.status = "ok" THEN "reading" ELSE "idle"]
       /\ want' = [want EXCEPT ![c] = 0]
       /\ UNCHANGED <<queue, owner, window, daily>>

(* The usage of a buffered answer, or of a chunk of a stream.               *)
record_usage(c, n) ==
    /\ pc[c] = "reading"
    /\ Len(toks) < MaxEntries
    /\ LET more == Append(toks, [age |-> 0, size |-> n])
       IN /\ toks' = Prune(more)
          /\ tokTotal' = PrunedTotal(more, tokTotal + n)
    /\ reqs' = Prune(reqs)
    /\ UNCHANGED <<pc, want, queue, owner, budget, daily>>

(* The answer ends, or the connection fails before a response.              *)
Finish(c) ==
    /\ pc[c] \in {"inflight", "reading"}
    /\ pc' = [pc EXCEPT ![c] = "idle"]
    /\ want' = [want EXCEPT ![c] = 0]
    /\ UNCHANGED <<queue, owner, window, budget, daily>>

(* Time passes.  A sleeper may wake late, so nothing forces its turn.       *)
Older(s) == [i \in 1..Len(s) |-> [s[i] EXCEPT !.age = Least(Window, @ + 1)]]
Less(n) == IF n = 0 THEN 0 ELSE n - 1

Tick ==
    /\ reqs' = Older(reqs)
    /\ toks' = Older(toks)
    /\ pause' = Less(pause)
    /\ sleepLeft' = Less(sleepLeft)
    /\ dayLeft' = IF dayLeft = 1 THEN Day ELSE dayLeft - 1
    /\ dayStale' = (dayStale \/ (dayLeft = 1 /\ Rpd # 0))
    /\ UNCHANGED <<pc, want, queue, loops, tokTotal, rpm, tpm, ceilRpm, ceilTpm,
                   dayUsed, okRun>>

acquire(c) == Admit(c) \/ Sleep(c) \/ Reject(c)

Next ==
    \/ \E c \in Caller :
        \/ \E n \in Sizes : Call(c, n)
        \/ acquire(c)
        \/ Cancel(c)
        \/ \E resp \in Response : observe(c, resp)
        \/ \E n \in Usages : record_usage(c, n)
        \/ Finish(c)
    \/ Inspect
    \/ Tick

Spec == Init /\ [][Next]_vars

(* The event loop runs a coroutine whose lock is free or whose sleep is     *)
(* over, and time passes.  Calls, cancellations and answers are not fair.   *)
FairSpec == Spec /\ WF_vars(Tick) /\ \A c \in Caller : WF_vars(acquire(c))

-----------------------------------------------------------------------------
Entry == [age : 0..Window, size : Nat]

(* Every variable keeps its type.                                           *)
TypeOK ==
    /\ pc \in [Caller -> {"idle", "queued", "sleeping", "inflight", "reading"}]
    /\ want \in [Caller -> {0} \union Sizes]
    /\ queue \in Seq(Caller)
    /\ {sleepLeft, loops, tokTotal, rpm, tpm, ceilRpm, ceilTpm,
        pause, dayUsed, okRun} \subseteq Nat
    /\ reqs \in Seq(Entry) /\ toks \in Seq(Entry)
    /\ dayLeft \in 1..Day /\ dayStale \in BOOLEAN

OldestFirst(s) == \A i, j \in 1..Len(s) : i < j => s[i].age >= s[j].age

(* The running total _tok_total is the sum of the window it summarises, and *)
(* the windows are oldest first, which popleft relies on: adds from acquire *)
(* and record_usage interleave with prunes of both.                         *)
WindowsConsistent ==
    /\ tokTotal = SumSizes(toks)
    /\ OldestFirst(reqs) /\ OldestFirst(toks)

(* Only the head of the lock's queue sleeps, and it sleeps inside acquire:  *)
(* a caller that leaves, cancelled or rejected, leaves the queue as well.   *)
QueueMatches ==
    /\ \A c \in Caller : (pc[c] \in {"queued", "sleeping"}) <=> (\E i \in 1..Len(queue) : queue[i] = c)
    /\ \A i, j \in 1..Len(queue) : queue[i] = queue[j] => i = j
    /\ \A c \in Caller : pc[c] = "sleeping" => Head(queue) = c

(* The live budget never exceeds the ceiling the provider reported, or the  *)
(* floor MIN_RPM or MIN_TPM where that is higher, through any sequence of   *)
(* rejections, recoveries and changed limits.                               *)
BudgetWithinCeiling ==
    /\ (rpm # 0 /\ ceilRpm # 0) => rpm <= Most(ceilRpm, MinRpm)
    /\ (tpm # 0 /\ ceilTpm # 0) => tpm <= Most(ceilTpm, MinTpm)

Admission(c) == pc[c] # "inflight" /\ pc'[c] = "inflight"

(* A request leaves the gate only while the gate is not parked and within   *)
(* the request, token and daily budget of that moment, however the budget   *)
(* changed while the caller slept.  A request larger than the whole token   *)
(* budget leaves only into an empty token window.                           *)
AdmittedWithinBudget ==
    [][\A c \in Caller : Admission(c) =>
        /\ pause = 0
        /\ rpm # 0 => 100 * Cardinality({i \in 1..Len(reqs') : reqs'[i].age < Window}) <= rpm
        /\ tpm # 0 => 100 * tokTotal' <= tpm \/ Len(toks') = 1
        /\ Rpd # 0 => dayUsed' <= Rpd]_vars

(* Every caller of acquire gets through, is rejected or gives up: no caller *)
(* waits for ever behind another's sleep.                                   *)
EveryCallerLeaves ==
    \A c \in Caller : (pc[c] = "queued") ~> (pc[c] \in {"idle", "inflight"})

(* The hub calls a slot ready when estimate_wait is 0.  The estimate, an    *)
(* independent copy of acquire's arithmetic, never exceeds the wait acquire *)
(* computes, and as long as nobody sleeps with the lock it is 0 exactly     *)
(* when a caller that enters now would be let through at once.              *)
(* Behind a sleeper it may be 0 although acquire blocks: ReadyIsAdmitted.   *)
EstimateIsReadiness ==
    \A n \in Sizes :
        /\ estimate_wait(n) <= AcquireWait(n)
        /\ LockWait = 0 => (estimate_wait(n) = 0 <=> EntryWait(n) = 0)

(* What the docstring of estimate_wait says: the seconds acquire would wait *)
(* right now.  It does not hold: the estimate does not see that another     *)
(* caller sleeps while it holds the lock.                                   *)
ReadyIsAdmitted == \A n \in Sizes : estimate_wait(n) = 0 => EntryWait(n) = 0
=============================================================================

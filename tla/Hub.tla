-------------------------------- MODULE Hub --------------------------------
(***************************************************************************)
(* The round-robin provider hub (provider/hub.py): one process-wide pool of *)
(* provider slots and one rotation index shared by the lobes, a cool-down   *)
(* per slot shared by all calls, and calls that work through an order of    *)
(* slots they compute once, when they begin, while other calls change the   *)
(* cool-downs.                                                              *)
(*                                                                          *)
(* Everything between two awaits is one step: _order runs without one, and  *)
(* a failed attempt is classified, marked and followed by the start of the  *)
(* next attempt in the same step.  The head of order[c] is the slot whose   *)
(* request is in flight.                                                    *)
(***************************************************************************)
EXTENDS Naturals, Sequences, FiniteSets, SequencesExt

CONSTANTS
    Call,       \* requests to the hub, each made once
    Streams,    \* the calls made through stream(), the others are buffered()
    Pool,       \* _POOL: the slots in global order
    Own,        \* per call: the slots its lobe's HubAdapter has
    CoolTimes,  \* cool-downs _classify may return; 0 is a request-level error
    Paces,      \* waits a slot's pacing gate may estimate
    Fastest     \* DUAL_LOBE_HUB_STRATEGY is "fastest"

Slot == {Pool[i] : i \in 1..Len(Pool)}
MaxCool == CHOOSE t \in CoolTimes : \A u \in CoolTimes : u <= t

ASSUME HubAssumption ==
    /\ Streams \subseteq Call
    /\ Pool \in Seq(Slot) /\ Pool # <<>>
    /\ \A i, j \in 1..Len(Pool) : Pool[i] = Pool[j] => i = j
    /\ Own \in [Call -> (SUBSET Slot) \ {{}}]
    /\ CoolTimes \subseteq Nat /\ CoolTimes # {}
    /\ Paces \subseteq Nat /\ Paces # {}
    /\ Fastest \in BOOLEAN

VARIABLES
    next,       \* _NEXT
    cool,       \* per slot: time left until cool_until
    pc,         \* per call
    order,      \* per call: the slots not given up yet
    source,     \* per call: the slots whose output reached the caller
    owed        \* per call: the slots that could serve when it began, or all
                \* if none could, as long as they have not failed it

vars == <<next, cool, pc, order, source, owed>>

Init ==
    /\ next = 0
    /\ cool = [s \in Slot |-> 0]
    /\ pc = [c \in Call |-> "idle"]
    /\ order = [c \in Call |-> <<>>]
    /\ source = [c \in Call |-> {}]
    /\ owed = [c \in Call |-> {}]

-----------------------------------------------------------------------------
(* Where _rotation, which starts at the next index, meets a slot.           *)
Index(s) == CHOOSE i \in 1..Len(Pool) : Pool[i] = s
Rotation(s) == (Index(s) - 1 + Len(Pool) - (next % Len(Pool))) % Len(Pool)

(* list.sort(key=...) is stable: the rotation breaks ties.                  *)
SortBy(S, key) ==
    {q \in SetToSeqs(S) : \A i, j \in 1..Len(q) : i < j =>
        \/ key[q[i]] < key[q[j]]
        \/ key[q[i]] = key[q[j]] /\ Rotation(q[i]) < Rotation(q[j])}

Ready(c, pace) == {s \in Own[c] : cool[s] = 0 /\ pace[s] = 0}
Waiting(c, pace) == {s \in Own[c] : cool[s] = 0 /\ pace[s] > 0}
Cooling(c) == {s \in Own[c] : cool[s] > 0}

(* Under "fastest" measured speeds order the ready slots; they are not      *)
(* modelled, so any order may come out.  Otherwise it is the rotation.      *)
ReadyOrders(c, pace) ==
    IF Fastest THEN SetToSeqs(Ready(c, pace)) ELSE SortBy(Ready(c, pace), pace)

Chain(front, back) == {q \o r : q \in front, r \in back}

(* Mutant of Orders: with a ready slot the waiting ones are left out too.   *)
OrdersReadyOnly(c, pace) ==
    IF Ready(c, pace) # {} THEN ReadyOrders(c, pace)
    ELSE Chain(SortBy(Waiting(c, pace), pace), SortBy(Cooling(c), cool))

Orders(c, pace) ==
    IF Ready(c, pace) # {} THEN Chain(ReadyOrders(c, pace), SortBy(Waiting(c, pace), pace))
    ELSE Chain(SortBy(Waiting(c, pace), pace), SortBy(Cooling(c), cool))

(* The call computes its order and sends the first request.                 *)
Begin(c) ==
    /\ pc[c] = "idle"
    /\ pc' = [pc EXCEPT ![c] = "trying"]
    /\ next' = next + 1
    /\ \E pace \in [Own[c] -> Paces] :
        /\ \E q \in Orders(c, pace) : order' = [order EXCEPT ![c] = q]
        /\ owed' = [owed EXCEPT ![c] =
                        IF Ready(c, pace) # {} THEN {s \in Own[c] : cool[s] = 0} ELSE Own[c]]
    /\ UNCHANGED <<cool, source>>

-----------------------------------------------------------------------------
Trying(c) == pc[c] = "trying"
InFlight(c) == Head(order[c])

(* _mark(ident, True): the slot is healthy, whatever marked it meanwhile.   *)
MarkOk(s) == cool' = [cool EXCEPT ![s] = 0]

(* _mark(ident, False, cool): a cool-down is only ever extended.            *)
MarkFailed(s, t) == cool' = [cool EXCEPT ![s] = IF t > @ THEN t ELSE @]

(* The call is over; its local variables are gone.                          *)
Leave(c, how) ==
    /\ Trying(c)
    /\ pc' = [pc EXCEPT ![c] = how]
    /\ order' = [order EXCEPT ![c] = <<>>]
    /\ UNCHANGED next

(* A whole buffered answer, or the end of a stream, empty or not.           *)
Succeed(c) ==
    /\ Leave(c, "done")
    /\ MarkOk(InFlight(c))
    /\ source' = [source EXCEPT ![c] = IF c \in Streams THEN @ ELSE @ \union {InFlight(c)}]
    /\ owed' = [owed EXCEPT ![c] = {}]

Chunk(c) ==
    /\ Trying(c)
    /\ c \in Streams
    /\ source' = [source EXCEPT ![c] = @ \union {InFlight(c)}]
    /\ UNCHANGED <<next, cool, pc, order, owed>>

(* The attempt failed, was classified and marked; the next slot is tried,   *)
(* or the last error is raised when none is left.                           *)
TryNext(c, t) ==
    /\ Trying(c)
    /\ MarkFailed(InFlight(c), t)
    /\ owed' = [owed EXCEPT ![c] = @ \ {InFlight(c)}]
    /\ IF Len(order[c]) = 1 THEN Leave(c, "failed")
       ELSE /\ order' = [order EXCEPT ![c] = Tail(@)]
            /\ UNCHANGED <<next, pc>>
    /\ UNCHANGED source

(* Mutant of Fail: a stream that breaks off goes on with the next slot.     *)
FailOver(c, t) == TryNext(c, t)

(* Mutant of Fail: the loop tries the failed slot again.                    *)
FailInPlace(c, t) ==
    /\ Trying(c)
    /\ source[c] = {}
    /\ MarkFailed(InFlight(c), t)
    /\ UNCHANGED <<next, pc, order, source, owed>>

Fail(c, t) ==
    /\ source[c] = {}
    /\ TryNext(c, t)

(* Output already reached the client: the error is raised, nothing marked.  *)
BreakOff(c) ==
    /\ source[c] # {}
    /\ Leave(c, "broken")
    /\ owed' = [owed EXCEPT ![c] = {}]
    /\ UNCHANGED <<cool, source>>

(* CancelledError or GeneratorExit: the caller gave up or timed out.        *)
Cancel(c) ==
    /\ Leave(c, "cancelled")
    /\ owed' = [owed EXCEPT ![c] = {}]
    /\ UNCHANGED <<cool, source>>

Tick ==
    /\ \E s \in Slot : cool[s] > 0
    /\ cool' = [s \in Slot |-> IF cool[s] = 0 THEN 0 ELSE cool[s] - 1]
    /\ UNCHANGED <<next, pc, order, source, owed>>

Resolve(c) == Succeed(c) \/ (\E t \in CoolTimes : Fail(c, t)) \/ BreakOff(c)

Next ==
    \/ \E c \in Call : Begin(c) \/ Resolve(c) \/ Chunk(c) \/ Cancel(c)
    \/ Tick

Spec == Init /\ [][Next]_vars

(* Every attempt ends: the HTTP client has a timeout on each read.          *)
FairSpec == Spec /\ \A c \in Call : WF_vars(Resolve(c))

-----------------------------------------------------------------------------
(* Every variable keeps its type; a call that tries has a slot to try.      *)
TypeOK ==
    /\ next \in Nat
    /\ cool \in [Slot -> 0..MaxCool]
    /\ pc \in [Call -> {"idle", "trying", "done", "failed", "broken", "cancelled"}]
    /\ order \in [Call -> Seq(Slot)]
    /\ \A c \in Call : pc[c] = "trying" => order[c] # <<>>
    /\ source \in [Call -> SUBSET Slot]
    /\ owed \in [Call -> SUBSET Slot]

(* "switching providers mid-answer would splice two different answers       *)
(* together": what reached the caller came from one slot.                   *)
NoSplice == \A c \in Call : Cardinality(source[c]) <= 1

(* A call raises an error only after every slot that could have served it   *)
(* when it began has failed it; if none could, after all of them have.      *)
FailsOnlyWhenAllFailed ==
    \A c \in Call : pc[c] = "failed" => owed[c] = {} /\ source[c] = {}

(* A call that began ends: it is answered, fails, breaks off or is          *)
(* cancelled, whatever other calls do to the cool-downs.                    *)
EveryCallEnds == \A c \in Call : (pc[c] = "trying") ~> (pc[c] # "trying")
============================================================================

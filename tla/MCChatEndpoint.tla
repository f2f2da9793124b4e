--------------------------- MODULE MCChatEndpoint ---------------------------
(***************************************************************************)
(* Instances of ChatEndpoint for TLC: a room with the agents ann and bob,   *)
(* requests that name a run or have their own, keys with and without a      *)
(* persona, and a journal that already has entries.                         *)
(***************************************************************************)
EXTENDS ChatEndpoint, TLC

CONSTANTS r1, r2, i1, i2

Talk(to, before, answered) ==
    [to |-> to, before |-> before, answered |-> answered, lobe |-> FALSE, blank |-> FALSE]
ToAll == Talk(None, None, FALSE)

Ask == [key |-> "plain", model |-> "general", space |-> None, run |-> "x", attempt |-> 1,
        agent |-> "ann", talk |-> ToAll, bypass |-> FALSE, stream |-> FALSE,
        weight |-> 1, topic |-> "sea", dense |-> FALSE]

(* Named, followed up, to a lobe, blank; the same message reaches both      *)
(* agents in turn.                                                          *)
RoomAsks ==
    {Ask,
     [Ask EXCEPT !.agent = "bob", !.talk = Talk("ann", None, FALSE), !.stream = TRUE, !.attempt = 2],
     [Ask EXCEPT !.agent = "bob", !.talk = Talk(None, "ann", TRUE), !.topic = "war"],
     [Ask EXCEPT !.key = "companion", !.space = "main", !.run = None, !.stream = TRUE,
                 !.dense = TRUE],
     [Ask EXCEPT !.model = "secure", !.talk.lobe = TRUE, !.space = "off", !.weight = 2],
     [Ask EXCEPT !.talk = Talk("bob", None, FALSE), !.bypass = TRUE, !.space = "off"],
     [Ask EXCEPT !.talk = [Talk(None, "ann", TRUE) EXCEPT !.blank = TRUE], !.space = "off"]}

RefusedAsks ==
    {[Ask EXCEPT !.key = "unknown"], [Ask EXCEPT !.key = "unscoped"],
     [Ask EXCEPT !.model = "lobe-a"], [Ask EXCEPT !.space = "malformed"]}

MCAsks == RoomAsks \cup RefusedAsks

MCEarlier ==
    {[id |-> 1, space |-> "main", by |-> "e1", topic |-> "war", dense |-> FALSE],
     [id |-> 2, space |-> "persona", by |-> "e2", topic |-> "sea", dense |-> FALSE],
     [id |-> 3, space |-> "main", by |-> "e3", topic |-> "sea", dense |-> FALSE]}

MCEarlierHits == {[by |-> "e3", at |-> 0, weight |-> 2]}

SameKey == [i \in Ingest |-> "k"]

(* The other endpoints and the routing do not meet: their calls are mixed   *)
(* with requests that are not routed, in the mode without routing.          *)
Focus ==
    IF mode = "off"
    THEN \A r \in Request :
            pc[r] # "idle" => ~RouteRequired("flat", ask[r].talk, ask[r].bypass)
    ELSE page = Closed /\ \A i \in Ingest : ipc[i] = "idle"

Symmetry == Permutations(Request) \cup Permutations(Ingest)
=============================================================================

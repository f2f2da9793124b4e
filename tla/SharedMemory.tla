---------------------------- MODULE SharedMemory ----------------------------
(***************************************************************************)
(* The shared memory of a tenant (state/memory.py): a journal of exchanges  *)
(* in named spaces.  An entry gets its serial number when it is inserted    *)
(* and is visible when its transaction commits, so entries may become       *)
(* visible out of order.  by is the request an entry records; topic stands  *)
(* for the words that full-text search matches; the excerpt of a dense      *)
(* entry is quotes and backslashes, which JSON encodes as two characters.   *)
(* The notebook and the personal notes take room and are left out: Room is  *)
(* what they leave.  Excerpts are as long as they may be.                   *)
(***************************************************************************)
EXTENDS Naturals, FiniteSets, FiniteSetsExt

CONSTANTS
    Earlier,        \* the journal at the start, numbered from 1
    Recent,         \* entries loaded for being recent
    Relevant,       \* entries loaded for their words
    Room,           \* room for excerpts in the text that is loaded
    Reserve,        \* room kept for what is around the excerpts
    Overhead,       \* what is around one: its id, run and time
    Floor,          \* length to which an excerpt may always be cut
    PageSize        \* entries on a page of the inspection endpoint

ASSUME SharedMemoryAssumption ==
    /\ IsFiniteSet(Earlier)
    /\ \A e \in Earlier : e.id \in 1 .. Cardinality(Earlier)
    /\ \A e, f \in Earlier : e.id = f.id => e = f
    /\ {Recent, Relevant, Room, Reserve, Overhead, Floor} \subseteq Nat
    /\ PageSize \in Nat \ {0}

\* The notebook is limited so that it leaves room for the recent entries, of which
\* there are three, each cut to 120 characters.
ASSUME RoomAssumption ==
    /\ Overhead * Recent <= Reserve
    /\ (Floor + Overhead) * Recent <= Room + Reserve

VARIABLES
    journal,    \* committed entries
    pending,    \* inserted entries that are not committed
    serial      \* the last number given out

memoryVars == <<journal, pending, serial>>

MemoryInit ==
    /\ journal = Earlier
    /\ pending = {}
    /\ serial = Cardinality(Earlier)

EntriesOf(space) == {e \in journal : e.space = space}
Newer(es, e) == {f \in es : f.id > e.id}

\* ORDER BY id DESC LIMIT n.
Newest(es, n) == {e \in es : Cardinality(Newer(es, e)) < n}

(***************************************************************************)
(* compose: every excerpt is cut to an equal share of the room, but not     *)
(* below the floor; when the encoded text is too long, entries are dropped  *)
(* from the oldest on.                                                      *)
(***************************************************************************)
Encoded(e, share) == Overhead + (IF e.dense THEN 2 * share ELSE share)
EncodedLength(es, share) == MapThenSumSet(LAMBDA e : Encoded(e, share), es)

compose(es) ==
    LET share == Max({Floor, Room \div Max({1, Cardinality(es)})})
    IN  {e \in es : EncodedLength(Newer(es, e) \cup {e}, share) <= Room + Reserve}

(***************************************************************************)
(* load: the most recent entries, the first one and the best matches.  The  *)
(* rank of a match is not modelled: any Relevant of them.                   *)
(***************************************************************************)
Matches(es, topic) ==
    LET found == {e \in es : e.topic = topic}
    IN  kSubset(Min({Relevant, Cardinality(found)}), found)

\* Mutant: ORDER BY id LIMIT 3.
OldestOf(es) == {e \in es : Cardinality({f \in es : f.id < e.id}) < Recent}

RecentOf(es) == Newest(es, Recent)

First(es) == {e \in es : \A f \in es : e.id <= f.id}

load(space, topic) ==
    LET es == EntriesOf(space)
    IN  {compose(RecentOf(es) \cup First(es) \cup best) : best \in Matches(es, topic)}

(***************************************************************************)
(* record: one transaction, which commits, or is rolled back on an error    *)
(* or a timeout.  Its number stays used.                                    *)
(***************************************************************************)
RecordInsert(r, space, topic, dense) ==
    /\ serial' = serial + 1
    /\ pending' = pending \cup
           {[id |-> serial + 1, space |-> space, by |-> r, topic |-> topic, dense |-> dense]}
    /\ UNCHANGED journal

Uncommitted(r) == {e \in pending : e.by = r}

RecordCommit(r) ==
    /\ journal' = journal \cup Uncommitted(r)
    /\ pending' = pending \ Uncommitted(r)
    /\ UNCHANGED serial

RecordLost(r) ==
    /\ pending' = pending \ Uncommitted(r)
    /\ UNCHANGED <<journal, serial>>

(***************************************************************************)
(* inspect: a page of entries before a number, 0 for no bound, and where    *)
(* the next page begins, 0 when there is none.                              *)
(***************************************************************************)
\* Mutant: the page ends with the entry the last one began before.
PageThrough(space, before) ==
    Newest({e \in EntriesOf(space) : before = 0 \/ e.id <= before}, PageSize)

Page(space, before) ==
    Newest({e \in EntriesOf(space) : before = 0 \/ e.id < before}, PageSize)

next_before(rows) == IF Cardinality(rows) = PageSize THEN Min({e.id : e \in rows}) ELSE 0
=============================================================================

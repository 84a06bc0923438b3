----------------------------- MODULE LocalCLTable -----------------------------
(***************************************************************************)
(* The dirty table of one thread (include/localCLTable.hpp, with the entry *)
(* encoding of include/clGroup.hpp): a hash table of cache line groups in  *)
(* which log_store and log_range_store of include/threadOps.hpp record the *)
(* lines the thread stores to, until write_to_log publishes the table.     *)
(* Module Coherence takes the table for a set of lines; this module says   *)
(* what the entries really cover.                                          *)
(*                                                                         *)
(* An entry is a group index and an upper field, kept as its set of one    *)
(* bits: the mask of the lines of one group, or the length of a run of     *)
(* whole groups.  The table is private to its thread.  A store is one      *)
(* action, a store to a range takes one action per insertion.              *)
(***************************************************************************)
EXTENDS Integers, FiniteSets, FiniteSetsExt

CONSTANTS
  GROUP_SIZE,     \* cache lines in a group
  TABLE_SIZE,     \* LOCAL_CL_TABLE_SIZE
  SEARCH_ITERS,   \* LOCAL_CL_TABLE_SEARCH_ITERS
  GROUP_LEN_MIN,  \* shortest run of groups stored as a length
  GROUP_LEN_MAX,  \* longest one, 2^25 - 1 in the code
  StoreLines,     \* lines the program stores to one by one
  Ranges          \* ranges it stores to, as MemRange and StrRange build them

(* Group 0 is not in CXL memory: the entry 0 means an empty cell.          *)
ASSUME LocalCLTableAssumption ==
  /\ GROUP_SIZE \in Nat \ {0} /\ TABLE_SIZE \in Nat \ {0}
  /\ SEARCH_ITERS \in 1 .. TABLE_SIZE
  /\ GROUP_LEN_MIN \in Nat \ {0}
  /\ GROUP_LEN_MAX \in Nat \ {0}
  /\ \A x \in StoreLines : x \in Nat /\ x >= GROUP_SIZE
  /\ \A r \in Ranges : r.begin \in Nat /\ r.begin >= GROUP_SIZE
                       /\ r.end \in Nat /\ r.begin <= r.end

None  == 0
Cells == 0 .. TABLE_SIZE - 1

VARIABLES
  table,
  recent_cl,           \* the line of the last store, None after a release
  pc, begin_, end_,    \* control and arguments of range_insert
  dirty,               \* history: lines stored to and not published since
  partial              \* history: the same, for the lines of ranges that
                       \* range_insert does not record

histVars == <<dirty, partial>>
vars == <<table, recent_cl, pc, begin_, end_, histVars>>

-----------------------------------------------------------------------------
(* Entries.                                                                *)

Entry(is_length, index, bits) ==
  [is_length |-> is_length, index |-> index, bits |-> bits]

Empty == Entry(FALSE, 0, {})

FULL_MASK == 0 .. GROUP_SIZE - 1

BitsOf(n) == {b \in 0 .. n : (n \div 2^b) % 2 = 1}

LengthEntry(index, len) == Entry(TRUE, index, BitsOf(len))

get_length(e) == MapThenSumSet(LAMBDA b : 2^b, e.bits)

GroupOf(cl) == cl \div GROUP_SIZE
PosOf(cl)   == cl % GROUP_SIZE

(* The lines an entry stands for, for write_to_log as for process_log.     *)
LinesOf(e) ==
  IF e.is_length
  THEN e.index * GROUP_SIZE .. (e.index + get_length(e)) * GROUP_SIZE - 1
  ELSE {e.index * GROUP_SIZE + p : p \in e.bits}

Covered == UNION {LinesOf(table[i]) : i \in Cells}

Init ==
  /\ table = [i \in Cells |-> Empty]
  /\ recent_cl = None
  /\ pc = "run" /\ begin_ = 0 /\ end_ = 0
  /\ dirty = {} /\ partial = {}

-----------------------------------------------------------------------------
(* insert_mask: the first of SEARCH_ITERS cells that is empty or has the   *)
(* group, whatever its kind.                                               *)

Probe(index) == {k \in 0 .. SEARCH_ITERS - 1 :
                   LET e == table[(index + k) % TABLE_SIZE]
                   IN  e = Empty \/ e.index = index}

MaskFits(index) == Probe(index) # {}

InsertMask(index, mask) ==
  LET c == (index + Min(Probe(index))) % TABLE_SIZE
      e == table[c]
  IN  [table EXCEPT ![c] = Entry(e.is_length, index, e.bits \cup mask)]

(* try_coalesce of the runs (i1, l1) and (i2, l2), when it is tried.       *)
Coalesces(i1, i2, l1, l2) == i1 + l1 > i2 \/ i2 + l2 > i1

Coalesced(i1, i2, l1, l2) ==
  LengthEntry(Max({i1, i2}), Max({i1 + l1, i2 + l2}) - Max({i1, i2}))

(* insert_length: one scan of the table drops the runs that are coalesced  *)
(* and the masks that the new run covers; the entry, as the last           *)
(* coalescing left it, goes into the first cell that was empty or emptied. *)
Joined(index, len) ==
  {i \in Cells : table[i].is_length /\ Coalesces(table[i].index, index, get_length(table[i]), len)}

Swallowed(index, len) ==
  {i \in Cells : /\ table[i] # Empty /\ ~table[i].is_length
                 /\ table[i].index \in index .. index + len - 1}

Vacant(index, len) ==
  {i \in Cells : table[i] = Empty} \cup Joined(index, len) \cup Swallowed(index, len)

LengthFits(index, len) == Vacant(index, len) # {}

InsertLength(index, len) ==
  LET joined == Joined(index, len)
      e == IF joined = {} THEN LengthEntry(index, len)
           ELSE LET v == table[Max(joined)]
                IN  Coalesced(v.index, index, get_length(v), len)
  IN  [i \in Cells |-> IF i = Min(Vacant(index, len)) THEN e
                       ELSE IF i \in Vacant(index, len) THEN Empty
                       ELSE table[i]]

-----------------------------------------------------------------------------
(* write_to_log: the lines of the table are published, the table cleared.  *)
Cleared == [i \in Cells |-> Empty]

Published ==
  /\ dirty' = dirty \ Covered
  /\ partial' = partial \ Covered

(* log_store, before the store itself: a table without room is published.  *)
mutStoreFull(cl) == Cleared

StoreFull(cl) ==
  [Cleared EXCEPT ![GroupOf(cl) % TABLE_SIZE] = Entry(FALSE, GroupOf(cl), {PosOf(cl)})]

LogStore(cl) ==
  /\ pc = "run"
  /\ recent_cl' = cl
  /\ \/ /\ cl = recent_cl
        /\ dirty' = dirty \cup {cl}
        /\ UNCHANGED <<table, partial>>
     \/ /\ cl # recent_cl /\ MaskFits(GroupOf(cl))
        /\ table' = InsertMask(GroupOf(cl), {PosOf(cl)})
        /\ dirty' = dirty \cup {cl}
        /\ UNCHANGED partial
     \/ /\ cl # recent_cl /\ ~MaskFits(GroupOf(cl))
        /\ table' = StoreFull(cl)
        /\ dirty' = (dirty \ Covered) \cup {cl}
        /\ partial' = partial \ Covered
  /\ UNCHANGED <<pc, begin_, end_>>

(* thread_release: nothing to do without a recent line.                    *)
Release ==
  /\ pc = "run"
  /\ recent_cl # None
  /\ recent_cl' = None
  /\ Published
  /\ table' = Cleared
  /\ UNCHANGED <<pc, begin_, end_>>

-----------------------------------------------------------------------------
(* log_range_store, called by memcpy and the like after they have written: *)
(* range_insert is repeated, each time on a published table, until it has  *)
(* inserted what is left of the range.                                     *)

(* The range of a call, from the lines of the first byte and of the byte   *)
(* after the last one that is logged, and whether bytes of the latter line *)
(* were written: for memcpy and the like when the range ends within it,    *)
(* for strcpy always, since the null byte is written and not logged.       *)
MemRange(begin, end, inside) == [begin |-> begin, end |-> end, ragged |-> inside]
StrRange(begin, end)         == [begin |-> begin, end |-> end, ragged |-> TRUE]

(* The lines that were written.                                            *)
RangeLines(r) == r.begin .. (IF r.ragged THEN r.end ELSE r.end - 1)

(* The lines that range_insert records for the bounds b and e: of the      *)
(* group of e the line e alone, and only if it does not begin the group.   *)
Recorded(b, e) ==
  IF PosOf(b) # 0 /\ GroupOf(b) = GroupOf(e)
  THEN {e}
  ELSE (b .. e - PosOf(e) - 1) \cup {x \in {e} : PosOf(x) # 0}

LogRangeStore(r) ==
  /\ pc = "run"
  /\ recent_cl' = r.end
  /\ begin_' = r.begin
  /\ end_' = r.end
  /\ dirty' = dirty \cup (RangeLines(r) \cap Recorded(r.begin, r.end))
  /\ partial' = partial \cup (RangeLines(r) \ Recorded(r.begin, r.end))
  /\ pc' = "range"
  /\ UNCHANGED table

RangeDone ==
  /\ pc' = "run"
  /\ begin_' = 0
  /\ end_' = 0

RangeFull ==
  /\ pc' = "full"
  /\ UNCHANGED <<table, begin_, end_>>

(* The group in which the range begins, unless it begins with the group.   *)
mutBeginMask == PosOf(begin_) .. PosOf(begin_) + GROUP_SIZE - 1
BeginMask == PosOf(begin_) .. GROUP_SIZE - 1

RangeBegin ==
  /\ pc = "range"
  /\ \/ /\ PosOf(begin_) = 0
        /\ pc' = "tail"
        /\ UNCHANGED <<table, begin_, end_>>
     \/ /\ PosOf(begin_) # 0
        /\ GroupOf(begin_) = GroupOf(end_)
        /\ MaskFits(GroupOf(begin_))
        /\ table' = InsertMask(GroupOf(begin_), BeginMask \cap {PosOf(end_)})
        /\ RangeDone
     \/ /\ PosOf(begin_) # 0
        /\ GroupOf(begin_) # GroupOf(end_)
        /\ MaskFits(GroupOf(begin_))
        /\ table' = InsertMask(GroupOf(begin_), BeginMask)
        /\ begin_' = begin_ + GROUP_SIZE - PosOf(begin_)
        /\ pc' = "tail"
        /\ UNCHANGED end_
     \/ /\ PosOf(begin_) # 0
        /\ ~MaskFits(GroupOf(begin_))
        /\ RangeFull
  /\ UNCHANGED <<recent_cl, histVars>>

(* The group in which it ends; then the groups between, as masks if they   *)
(* are few.                                                                *)
WholeGroups ==
  pc' = IF GroupOf(end_) - GroupOf(begin_) < GROUP_LEN_MIN THEN "masks" ELSE "lengths"

RangeEnd ==
  /\ pc = "tail"
  /\ \/ /\ PosOf(end_) = 0
        /\ WholeGroups
        /\ UNCHANGED <<table, begin_, end_>>
     \/ /\ PosOf(end_) # 0
        /\ MaskFits(GroupOf(end_))
        /\ table' = InsertMask(GroupOf(end_), {PosOf(end_)})
        /\ end_' = end_ - PosOf(end_)
        /\ WholeGroups
        /\ UNCHANGED begin_
     \/ /\ PosOf(end_) # 0
        /\ ~MaskFits(GroupOf(end_))
        /\ RangeFull
  /\ UNCHANGED <<recent_cl, histVars>>

RangeMask ==
  /\ pc = "masks"
  /\ \/ /\ begin_ = end_
        /\ RangeDone
        /\ UNCHANGED table
     \/ /\ begin_ # end_
        /\ MaskFits(GroupOf(begin_))
        /\ table' = InsertMask(GroupOf(begin_), FULL_MASK)
        /\ begin_' = begin_ + GROUP_SIZE
        /\ UNCHANGED <<pc, end_>>
     \/ /\ begin_ # end_
        /\ ~MaskFits(GroupOf(begin_))
        /\ RangeFull
  /\ UNCHANGED <<recent_cl, histVars>>

(* The length of the next run: the low bits of what is left.               *)
RunLength == (GroupOf(end_) - GroupOf(begin_)) % (GROUP_LEN_MAX + 1)

RangeLength ==
  /\ pc = "lengths"
  /\ \/ /\ begin_ = end_
        /\ RangeDone
        /\ UNCHANGED table
     \/ /\ begin_ # end_
        /\ LengthFits(GroupOf(begin_), RunLength)
        /\ table' = InsertLength(GroupOf(begin_), RunLength)
        /\ begin_' = begin_ + RunLength * GROUP_SIZE
        /\ UNCHANGED <<pc, end_>>
     \/ /\ begin_ # end_
        /\ ~LengthFits(GroupOf(begin_), RunLength)
        /\ RangeFull
  /\ UNCHANGED <<recent_cl, histVars>>

(* write_to_log(false), and range_insert again.                            *)
mutRangePublish ==
  /\ pc = "full"
  /\ Published
  /\ pc' = "range"
  /\ UNCHANGED <<table, recent_cl, begin_, end_>>

RangePublish ==
  /\ pc = "full"
  /\ Published
  /\ table' = Cleared
  /\ pc' = "range"
  /\ UNCHANGED <<recent_cl, begin_, end_>>

-----------------------------------------------------------------------------
RangeStep == RangeBegin \/ RangeEnd \/ RangeMask \/ RangeLength \/ RangePublish

Next ==
  \/ \E cl \in StoreLines : LogStore(cl)
  \/ \E r \in Ranges : LogRangeStore(r)
  \/ Release
  \/ RangeStep

Spec == Init /\ [][Next]_vars

(* The thread runs; what it stores to next is the program's choice.        *)
FairSpec == Spec /\ WF_vars(RangeStep)

-----------------------------------------------------------------------------
(* A mask has bits of its group only, and the bounds of a range that is    *)
(* inserted piece by piece do not cross.                                   *)
TypeOK ==
  /\ \A i \in Cells :
       /\ table[i].is_length \in BOOLEAN
       /\ table[i].index \in Nat
       /\ table[i].bits \subseteq Nat
       /\ ~table[i].is_length => table[i].bits \subseteq FULL_MASK
  /\ recent_cl \in Nat
  /\ pc \in {"run", "range", "tail", "masks", "lengths", "full"}
  /\ begin_ \in Nat /\ end_ \in Nat /\ begin_ <= end_
  /\ dirty \subseteq Nat /\ partial \subseteq Nat

(* After a release no line is left that was stored to and not published:   *)
(* what log_store and range_insert record survives collisions, a table     *)
(* that is full in the middle of a range, masks ored into a run and runs   *)
(* that begin alike.  Not counted are the lines in partial, which          *)
(* range_insert never records; not met are programs that store to the line *)
(* after a range, which recent_cl suppresses, and runs that begin apart,   *)
(* which try_coalesce shortens.                                            *)
ReleasePublishesAll == pc = "run" /\ recent_cl = None => dirty = {}

(* The same with the lines that range_insert does not record: the lines a  *)
(* thread modified are published before its release, as the design         *)
(* document states.                                                        *)
AllPublished == pc = "run" /\ recent_cl = None => dirty \cup partial = {}

(* log_range_store ends: each repetition starts with an empty table and    *)
(* gets on.                                                                *)
RangeEnds == pc = "range" ~> pc = "run"
===============================================================================

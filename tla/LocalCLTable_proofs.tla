-------------------------- MODULE LocalCLTable_proofs --------------------------
(* Theorems about the dirty table of module LocalCLTable: types for every  *)
(* program, and that a release publishes every line of a program whose     *)
(* ranges are short enough to be recorded as masks.                        *)
EXTENDS LocalCLTable, TLAPS, WellFoundedInduction

-----------------------------------------------------------------------------
(* Least and greatest elements.                                            *)

(* A nonempty set of naturals has a least element.                         *)
LEMMA LeastExists ==
  ASSUME NEW T, T \subseteq Nat, T # {}
  PROVE  \E x \in T : \A y \in T : x <= y
<1>1. \E x \in T : \A y \in T : ~ (<<y, x>> \in OpToRel(<,Nat))
  BY NatLessThanWellFounded, WFMin, Zenon
<1>2. \A x \in T, y \in T : ~ (<<y, x>> \in OpToRel(<,Nat)) => x <= y
  BY DEF OpToRel
<1>3. QED
  BY <1>1, <1>2, Zenon

(* Min finds it.                                                           *)
LEMMA MinOf ==
  ASSUME NEW T, T \subseteq Nat, T # {}
  PROVE  Min(T) \in T /\ \A y \in T : Min(T) <= y
BY LeastExists, Zenon DEF Min

(* Max finds the greatest element of a set that has a bound.               *)
LEMMA MaxOf ==
  ASSUME NEW T, NEW n \in Nat, T \subseteq 0 .. n, T # {}
  PROVE  Max(T) \in T
<1> DEFINE U == {n - x : x \in T}
<1>1. U \subseteq Nat
  OBVIOUS
<1>2. U # {}
  OBVIOUS
<1>3. PICK u \in U : \A y \in U : u <= y
  BY <1>1, <1>2, LeastExists
<1>4. PICK x \in T : u = n - x
  BY <1>3
<1>5. ASSUME NEW y \in T PROVE x >= y
  <2>1. n - y \in U
    OBVIOUS
  <2>2. n - x <= n - y
    BY <1>3, <1>4, <2>1
  <2>3. QED
    BY <2>2
<1>6. QED
  BY <1>5, Zenon DEF Max

(* The greater of two numbers.                                             *)
LEMMA MaxOfTwo ==
  ASSUME NEW a \in Nat, NEW b \in Nat
  PROVE  Max({a, b}) \in Nat
<1>1. \E x \in {a, b} : \A y \in {a, b} : x >= y
  OBVIOUS
<1>2. Max({a, b}) \in {a, b}
  BY <1>1, Zenon DEF Max
<1>3. QED
  BY <1>2

-----------------------------------------------------------------------------
(* Lines, groups and positions.                                            *)

(* A line is its group and its position in the group.                      *)
LEMMA LineIsGroupAndPos ==
  ASSUME NEW cl \in Nat
  PROVE  /\ GroupOf(cl) \in Nat
         /\ PosOf(cl) \in 0 .. GROUP_SIZE - 1
         /\ cl = GROUP_SIZE * GroupOf(cl) + PosOf(cl)
<1>1. GROUP_SIZE \in Nat \ {0}
  BY LocalCLTableAssumption DEF LocalCLTableAssumption
<1>2. cl \div GROUP_SIZE \in Nat
  BY <1>1
<1>3. cl % GROUP_SIZE \in 0 .. GROUP_SIZE - 1
  BY <1>1
<1>4. cl = GROUP_SIZE * (cl \div GROUP_SIZE) + (cl % GROUP_SIZE)
  BY <1>1
<1>5. QED
  BY <1>2, <1>3, <1>4 DEF GroupOf, PosOf

(* Products keep the order of the factors.                                 *)
LEMMA Multiples ==
  ASSUME NEW g \in Nat \ {0}, NEW a \in Int, NEW b \in Int
  PROVE  /\ a <= b => g * a <= g * b
         /\ a < b => g * a + g <= g * b
<1>1. ASSUME a <= b PROVE g * a <= g * b
  <2>1. g * (b - a) >= 0
    BY <1>1
  <2>2. g * (b - a) = g * b - g * a
    OBVIOUS
  <2>3. QED
    BY <2>1, <2>2
<1>2. ASSUME a < b PROVE g * a + g <= g * b
  <2>1. g * (b - a - 1) >= 0
    BY <1>2
  <2>2. g * (b - a - 1) = g * b - g * a - g
    OBVIOUS
  <2>3. QED
    BY <2>1, <2>2
<1>3. QED
  BY <1>1, <1>2

(* A number has one quotient and one remainder.                            *)
LEMMA OneQuotient ==
  ASSUME NEW q \in Int, NEW p \in 0 .. GROUP_SIZE - 1, NEW cl \in Nat,
         cl = GROUP_SIZE * q + p
  PROVE  GroupOf(cl) = q /\ PosOf(cl) = p
<1>1. GROUP_SIZE \in Nat \ {0}
  BY LocalCLTableAssumption DEF LocalCLTableAssumption
<1> DEFINE a == GroupOf(cl)
           r == PosOf(cl)
<1>2. a \in Nat /\ r \in 0 .. GROUP_SIZE - 1 /\ cl = GROUP_SIZE * a + r
  BY LineIsGroupAndPos
<1> SUFFICES a = q /\ r = p
  OBVIOUS
<1> HIDE DEF a, r
<1>3. ~(a < q)
  <2>1. SUFFICES ASSUME a < q PROVE FALSE
    OBVIOUS
  <2>2. GROUP_SIZE * a + GROUP_SIZE <= GROUP_SIZE * q
    BY <1>1, <1>2, <2>1, Multiples
  <2>3. GROUP_SIZE * a \in Int /\ GROUP_SIZE * q \in Int
    BY <1>1, <1>2
  <2>4. QED
    BY <1>1, <1>2, <2>2, <2>3
<1>4. ~(q < a)
  <2>1. SUFFICES ASSUME q < a PROVE FALSE
    OBVIOUS
  <2>2. GROUP_SIZE * q + GROUP_SIZE <= GROUP_SIZE * a
    BY <1>1, <1>2, <2>1, Multiples
  <2>3. GROUP_SIZE * a \in Int /\ GROUP_SIZE * q \in Int
    BY <1>1, <1>2
  <2>4. QED
    BY <1>1, <1>2, <2>2, <2>3
<1>5. a = q
  BY <1>2, <1>3, <1>4
<1>6. GROUP_SIZE * q \in Int
  BY <1>1
<1>7. r = p
  BY <1>1, <1>2, <1>5, <1>6
<1>8. QED
  BY <1>5, <1>7

(* Going to the end or to the beginning of a group ends between groups.    *)
LEMMA GroupBounds ==
  ASSUME NEW cl \in Nat
  PROVE  /\ cl + GROUP_SIZE - PosOf(cl) \in Nat
         /\ PosOf(cl + GROUP_SIZE - PosOf(cl)) = 0
         /\ GroupOf(cl + GROUP_SIZE - PosOf(cl)) = GroupOf(cl) + 1
         /\ cl - PosOf(cl) \in Nat
         /\ PosOf(cl - PosOf(cl)) = 0
         /\ GroupOf(cl - PosOf(cl)) = GroupOf(cl)
<1> DEFINE a == GroupOf(cl)
           r == PosOf(cl)
           up == cl + GROUP_SIZE - r
           down == cl - r
<1>1. GROUP_SIZE \in Nat \ {0} /\ 0 \in 0 .. GROUP_SIZE - 1
  BY LocalCLTableAssumption DEF LocalCLTableAssumption
<1>2. a \in Nat /\ r \in 0 .. GROUP_SIZE - 1 /\ cl = GROUP_SIZE * a + r
  BY LineIsGroupAndPos
<1> SUFFICES /\ up \in Nat /\ PosOf(up) = 0 /\ GroupOf(up) = a + 1
             /\ down \in Nat /\ PosOf(down) = 0 /\ GroupOf(down) = a
  OBVIOUS
<1> HIDE DEF a, r
<1>3. GROUP_SIZE * a \in Nat
  BY <1>1, <1>2
<1>4. GROUP_SIZE * (a + 1) = GROUP_SIZE * a + GROUP_SIZE
  BY <1>1, <1>2
<1>5. up \in Nat /\ up = GROUP_SIZE * (a + 1) + 0
  BY <1>1, <1>2, <1>3, <1>4
<1>6. down \in Nat /\ down = GROUP_SIZE * a + 0
  BY <1>1, <1>2, <1>3
<1> HIDE DEF up, down
<1>7. PosOf(up) = 0 /\ GroupOf(up) = a + 1
  <2>1. a + 1 \in Int
    BY <1>2
  <2>2. QED
    BY <1>1, <1>5, <2>1, OneQuotient
<1>8. PosOf(down) = 0 /\ GroupOf(down) = a
  <2>1. a \in Int
    BY <1>2
  <2>2. QED
    BY <1>1, <1>6, <2>1, OneQuotient
<1>9. QED
  BY <1>5, <1>6, <1>7, <1>8

-----------------------------------------------------------------------------
(* Types.                                                                  *)

Entries == [is_length : BOOLEAN, index : Nat, bits : SUBSET Nat]

(* Masks have bits of one group.                                           *)
MasksFit == \A i \in Cells : ~table[i].is_length => table[i].bits \subseteq FULL_MASK

(* What is left of a range consists of whole groups once its ends are      *)
(* recorded, and does not turn negative.                                   *)
BoundsOK ==
  /\ begin_ \in Nat /\ end_ \in Nat /\ begin_ <= end_
  /\ pc \in {"tail", "masks", "lengths"} => PosOf(begin_) = 0
  /\ pc \in {"masks", "lengths"} => PosOf(end_) = 0

TableInv ==
  /\ table \in [Cells -> Entries]
  /\ MasksFit
  /\ pc \in {"run", "range", "tail", "masks", "lengths", "full"}
  /\ recent_cl \in Nat
  /\ dirty \subseteq Nat /\ partial \subseteq Nat

(* Constants.                                                              *)
LEMMA Constants ==
  /\ GROUP_SIZE \in Nat \ {0} /\ TABLE_SIZE \in Nat \ {0}
  /\ SEARCH_ITERS \in 1 .. TABLE_SIZE
  /\ \A x \in StoreLines : x \in Nat /\ x # None
  /\ \A r \in Ranges : r.begin \in Nat /\ r.end \in Nat /\ r.begin <= r.end /\ r.end # None
  /\ \A n \in Int : n % TABLE_SIZE \in Cells
BY LocalCLTableAssumption DEF LocalCLTableAssumption, None, Cells

(* The empty entry and the masks that are inserted.                        *)
LEMMA Masks ==
  /\ Empty \in Entries /\ ~Empty.is_length /\ Empty.bits = {} /\ Empty.index = 0
  /\ FULL_MASK \subseteq Nat
  /\ \A cl \in Nat : PosOf(cl) \in FULL_MASK
  /\ begin_ \in Nat => BeginMask \subseteq FULL_MASK
<1>1. GROUP_SIZE \in Nat \ {0}
  BY Constants
<1>2. \A cl \in Nat : PosOf(cl) \in 0 .. GROUP_SIZE - 1
  BY LineIsGroupAndPos
<1>3. QED
  BY <1>1, <1>2 DEF Entries, Empty, Entry, FULL_MASK, BeginMask

(* Probing finds a cell of the table.                                      *)
LEMMA ProbeCell ==
  ASSUME NEW index \in Nat, MaskFits(index)
  PROVE  /\ (index + Min(Probe(index))) % TABLE_SIZE \in Cells
         /\ LET e == table[(index + Min(Probe(index))) % TABLE_SIZE]
            IN  e = Empty \/ e.index = index
<1>1. Probe(index) \subseteq Nat
  BY Constants DEF Probe
<1>2. Min(Probe(index)) \in Probe(index)
  BY <1>1, MinOf DEF MaskFits
<1>3. index + Min(Probe(index)) \in Int
  BY <1>1, <1>2
<1>4. (index + Min(Probe(index))) % TABLE_SIZE \in Cells
  BY <1>3, Constants
<1>5. LET e == table[(index + Min(Probe(index))) % TABLE_SIZE]
      IN  e = Empty \/ e.index = index
  BY <1>2 DEF Probe
<1>6. QED
  BY <1>4, <1>5

(* insert_mask changes one cell: the kind stays, the bits are added.       *)
LEMMA InsertMaskEffect ==
  ASSUME table \in [Cells -> Entries], NEW index \in Nat, MaskFits(index), NEW mask
  PROVE  \E c \in Cells :
           /\ InsertMask(index, mask) =
                [table EXCEPT ![c] = Entry(table[c].is_length, index, table[c].bits \cup mask)]
           /\ table[c] = Empty \/ table[c].index = index
BY ProbeCell, Zenon DEF InsertMask

(* insert_mask keeps the types.                                            *)
LEMMA InsertMaskTypes ==
  ASSUME table \in [Cells -> Entries], MasksFit, NEW index \in Nat, MaskFits(index),
         NEW mask \in SUBSET FULL_MASK
  PROVE  /\ InsertMask(index, mask) \in [Cells -> Entries]
         /\ \A i \in Cells : ~InsertMask(index, mask)[i].is_length
                                => InsertMask(index, mask)[i].bits \subseteq FULL_MASK
<1>1. PICK c \in Cells :
        InsertMask(index, mask) =
          [table EXCEPT ![c] = Entry(table[c].is_length, index, table[c].bits \cup mask)]
  BY InsertMaskEffect
<1> DEFINE e == Entry(table[c].is_length, index, table[c].bits \cup mask)
<1>2. table[c] \in Entries
  OBVIOUS
<1>3. table[c].is_length \in BOOLEAN /\ table[c].bits \subseteq Nat
  BY <1>2 DEF Entries
<1>4. e \in Entries
  BY <1>3, Masks DEF Entries, Entry
<1>5. ~e.is_length => e.bits \subseteq FULL_MASK
  BY DEF MasksFit, Entry
<1> HIDE DEF e
<1>6. \A i \in Cells : InsertMask(index, mask)[i] = IF i = c THEN e ELSE table[i]
  BY <1>1 DEF e
<1>7. InsertMask(index, mask) \in [Cells -> Entries]
  BY <1>1, <1>4 DEF e
<1>8. QED
  BY <1>5, <1>6, <1>7 DEF MasksFit

(* insert_length keeps the types.                                          *)
LEMMA InsertLengthTypes ==
  ASSUME table \in [Cells -> Entries], MasksFit, NEW index \in Nat, NEW len
  PROVE  /\ InsertLength(index, len) \in [Cells -> Entries]
         /\ \A i \in Cells : ~InsertLength(index, len)[i].is_length
                                => InsertLength(index, len)[i].bits \subseteq FULL_MASK
<1> DEFINE joined == Joined(index, len)
           v == table[Max(joined)]
           e == IF joined = {} THEN LengthEntry(index, len)
                ELSE Coalesced(v.index, index, get_length(v), len)
<1>1. \A n : BitsOf(n) \subseteq Nat
  BY DEF BitsOf
<1>2. \A i \in Nat : \A n : LengthEntry(i, n) \in Entries /\ LengthEntry(i, n).is_length
  BY <1>1 DEF LengthEntry, Entry, Entries
<1>3. joined # {} => v.index \in Nat
  <2>1. joined \subseteq 0 .. TABLE_SIZE - 1 /\ TABLE_SIZE - 1 \in Nat
    BY Constants DEF Joined, Cells
  <2>2. joined # {} => Max(joined) \in joined
    BY <2>1, MaxOf
  <2>3. joined # {} => v \in Entries
    BY <2>1, <2>2 DEF Cells
  <2>4. QED
    BY <2>3 DEF Entries
<1>4. e \in Entries /\ e.is_length
  <2>1. joined # {} => Max({v.index, index}) \in Nat
    BY <1>3, MaxOfTwo
  <2>2. QED
    BY <1>2, <2>1 DEF Coalesced
<1>5. InsertLength(index, len) =
        [i \in Cells |-> IF i = Min(Vacant(index, len)) THEN e
                         ELSE IF i \in Vacant(index, len) THEN Empty ELSE table[i]]
  BY DEF InsertLength
<1> HIDE DEF e
<1>6. QED
  BY <1>4, <1>5, Masks DEF MasksFit

(* So does publishing, also when it is followed by an insertion.           *)
LEMMA ClearedTypes ==
  /\ Cleared \in [Cells -> Entries]
  /\ \A i \in Cells : Cleared[i].bits \subseteq FULL_MASK
  /\ \A cl \in Nat : /\ StoreFull(cl) \in [Cells -> Entries]
                     /\ \A i \in Cells : /\ ~StoreFull(cl)[i].is_length
                                         /\ StoreFull(cl)[i].bits \subseteq FULL_MASK
<1>1. /\ Cleared \in [Cells -> Entries]
      /\ \A i \in Cells : ~Cleared[i].is_length /\ Cleared[i].bits \subseteq FULL_MASK
  BY Masks DEF Cleared
<1>2. ASSUME NEW cl \in Nat
      PROVE  /\ StoreFull(cl) \in [Cells -> Entries]
             /\ \A i \in Cells : /\ ~StoreFull(cl)[i].is_length
                                 /\ StoreFull(cl)[i].bits \subseteq FULL_MASK
  <2> DEFINE e == Entry(FALSE, GroupOf(cl), {PosOf(cl)})
  <2>1. e \in Entries /\ ~e.is_length /\ e.bits \subseteq FULL_MASK
    BY Masks, LineIsGroupAndPos DEF Entries, Entry
  <2>2. StoreFull(cl) = [Cleared EXCEPT ![GroupOf(cl) % TABLE_SIZE] = e]
    BY DEF StoreFull
  <2> HIDE DEF e
  <2>3. QED
    BY <1>1, <2>1, <2>2
<1>3. QED
  BY <1>1, <1>2

(* Groups of ordered lines are ordered, and there is room up to the next   *)
(* group.                                                                  *)
LEMMA GroupOrder ==
  ASSUME NEW a \in Nat, NEW b \in Nat, a <= b
  PROVE  /\ GroupOf(a) <= GroupOf(b)
         /\ PosOf(a) = 0 => a <= b - PosOf(b)
         /\ GroupOf(a) # GroupOf(b) => a + GROUP_SIZE - PosOf(a) <= b - PosOf(b)
         /\ PosOf(a) = 0 /\ PosOf(b) = 0 /\ a # b => GroupOf(a) # GroupOf(b)
<1> DEFINE ga == GroupOf(a)
           gb == GroupOf(b)
           pa == PosOf(a)
           pb == PosOf(b)
<1>1. GROUP_SIZE \in Nat \ {0}
  BY Constants
<1>2. ga \in Nat /\ pa \in 0 .. GROUP_SIZE - 1 /\ a = GROUP_SIZE * ga + pa
  BY LineIsGroupAndPos
<1>3. gb \in Nat /\ pb \in 0 .. GROUP_SIZE - 1 /\ b = GROUP_SIZE * gb + pb
  BY LineIsGroupAndPos
<1> SUFFICES /\ ga <= gb
             /\ pa = 0 => a <= b - pb
             /\ ga # gb => a + GROUP_SIZE - pa <= b - pb
             /\ pa = 0 /\ pb = 0 /\ a # b => ga # gb
  OBVIOUS
<1> HIDE DEF ga, gb, pa, pb
<1>4. GROUP_SIZE * ga \in Nat /\ GROUP_SIZE * gb \in Nat
  BY <1>1, <1>2, <1>3
<1>5. ga <= gb
  <2>1. SUFFICES ASSUME gb < ga PROVE FALSE
    BY <1>2, <1>3
  <2>2. GROUP_SIZE * gb + GROUP_SIZE <= GROUP_SIZE * ga
    BY <1>1, <1>2, <1>3, <2>1, Multiples
  <2>3. QED
    BY <1>1, <1>2, <1>3, <1>4, <2>2
<1>6. GROUP_SIZE * ga <= GROUP_SIZE * gb
  BY <1>1, <1>2, <1>3, <1>5, Multiples
<1>7. ga # gb => GROUP_SIZE * ga + GROUP_SIZE <= GROUP_SIZE * gb
  BY <1>1, <1>2, <1>3, <1>5, Multiples
<1>8. QED
  BY <1>1, <1>2, <1>3, <1>4, <1>5, <1>6, <1>7

(* A run of groups that is inserted lies in what is left of the range.     *)
LEMMA RunInRange ==
  ASSUME BoundsOK, pc = "lengths"
  PROVE  /\ begin_ + RunLength * GROUP_SIZE \in Nat
         /\ begin_ + RunLength * GROUP_SIZE <= end_
         /\ PosOf(begin_ + RunLength * GROUP_SIZE) = 0
<1> DEFINE ga == GroupOf(begin_)
           gb == GroupOf(end_)
           l == RunLength
           next == begin_ + l * GROUP_SIZE
<1>1. GROUP_SIZE \in Nat \ {0} /\ GROUP_LEN_MAX + 1 \in Nat \ {0} /\ 0 \in 0 .. GROUP_SIZE - 1
  BY LocalCLTableAssumption DEF LocalCLTableAssumption
<1>2. begin_ \in Nat /\ end_ \in Nat /\ begin_ <= end_ /\ PosOf(begin_) = 0 /\ PosOf(end_) = 0
  BY DEF BoundsOK
<1>3. ga \in Nat /\ begin_ = GROUP_SIZE * ga
  BY <1>1, <1>2, LineIsGroupAndPos
<1>4. gb \in Nat /\ end_ = GROUP_SIZE * gb
  BY <1>1, <1>2, LineIsGroupAndPos
<1>5. ga <= gb
  BY <1>2, GroupOrder
<1>6. l \in Nat /\ ga + l <= gb
  <2> DEFINE n == gb - ga
             m == GROUP_LEN_MAX + 1
  <2>1. n \in Nat /\ m \in Nat \ {0}
    BY <1>1, <1>3, <1>4, <1>5
  <2>2. l = n % m
    BY DEF RunLength
  <2> HIDE DEF n, m
  <2>3. n % m \in Nat /\ n % m <= n
    BY <2>1
  <2>4. ga + n = gb
    BY <1>3, <1>4 DEF n
  <2> HIDE DEF ga, gb, l
  <2>5. QED
    BY <1>3, <1>4, <2>1, <2>2, <2>3, <2>4
<1> SUFFICES next \in Nat /\ next <= end_ /\ PosOf(next) = 0
  OBVIOUS
<1> HIDE DEF ga, gb, l
<1>7. GROUP_SIZE * (ga + l) = GROUP_SIZE * ga + l * GROUP_SIZE
  BY <1>1, <1>3, <1>6
<1>8. GROUP_SIZE * (ga + l) <= GROUP_SIZE * gb
  BY <1>1, <1>3, <1>4, <1>6, Multiples
<1>9. GROUP_SIZE * (ga + l) \in Nat /\ ga + l \in Int
  BY <1>1, <1>3, <1>6
<1>10. next = GROUP_SIZE * (ga + l) + 0
  BY <1>2, <1>3, <1>7, <1>9
<1>11. next \in Nat /\ next <= end_
  BY <1>4, <1>8, <1>9, <1>10
<1> HIDE DEF next
<1>12. PosOf(next) = 0
  BY <1>1, <1>9, <1>10, <1>11, OneQuotient
<1>13. QED
  BY <1>11, <1>12

(* Every step keeps the bounds of the range in order.                      *)
LEMMA BoundsStep ==
  ASSUME BoundsOK, [Next]_vars
  PROVE  BoundsOK'
<1>0. /\ begin_ \in Nat /\ end_ \in Nat /\ begin_ <= end_
      /\ GROUP_SIZE \in Nat \ {0}
  BY Constants DEF BoundsOK
<1>1. ASSUME NEW cl \in StoreLines, LogStore(cl) PROVE BoundsOK'
  BY <1>1 DEF BoundsOK, LogStore
<1>2. ASSUME NEW r \in Ranges, LogRangeStore(r) PROVE BoundsOK'
  BY <1>2, Constants DEF BoundsOK, LogRangeStore
<1>3. CASE Release
  BY <1>3 DEF BoundsOK, Release
<1>4. CASE RangeBegin
  <2>1. PosOf(begin_ + GROUP_SIZE - PosOf(begin_)) = 0 /\ begin_ + GROUP_SIZE - PosOf(begin_) \in Nat
    BY <1>0, GroupBounds
  <2>2. GroupOf(begin_) # GroupOf(end_) => begin_ + GROUP_SIZE - PosOf(begin_) <= end_
    <3>1. PosOf(end_) \in Nat
      BY <1>0, LineIsGroupAndPos
    <3>2. QED
      BY <1>0, <2>1, <3>1, GroupOrder
  <2>3. QED
    BY <1>0, <1>4, <2>1, <2>2 DEF BoundsOK, RangeBegin, RangeDone, RangeFull
<1>5. CASE RangeEnd
  <2>1. PosOf(end_ - PosOf(end_)) = 0 /\ end_ - PosOf(end_) \in Nat
    BY <1>0, GroupBounds
  <2>2. PosOf(begin_) = 0 /\ begin_ <= end_ - PosOf(end_)
    BY <1>0, <1>5, GroupOrder DEF BoundsOK, RangeEnd
  <2>3. QED
    BY <1>0, <1>5, <2>1, <2>2 DEF BoundsOK, RangeEnd, WholeGroups, RangeFull
<1>6. CASE RangeMask
  <2>1. PosOf(begin_) = 0 /\ PosOf(end_) = 0
    BY <1>6 DEF BoundsOK, RangeMask
  <2>2. PosOf(begin_ + GROUP_SIZE) = 0 /\ begin_ + GROUP_SIZE \in Nat
    <3>1. begin_ + GROUP_SIZE - PosOf(begin_) = begin_ + GROUP_SIZE
      BY <1>0, <2>1
    <3>2. QED
      BY <1>0, <3>1, GroupBounds
  <2>3. begin_ # end_ => begin_ + GROUP_SIZE <= end_
    <3>1. begin_ # end_ => begin_ + GROUP_SIZE - PosOf(begin_) <= end_ - PosOf(end_)
      BY <1>0, <2>1, GroupOrder
    <3>2. QED
      BY <1>0, <2>1, <3>1
  <2>4. QED
    BY <1>0, <1>6, <2>1, <2>2, <2>3 DEF BoundsOK, RangeMask, RangeDone, RangeFull
<1>7. CASE RangeLength
  <2>1. pc = "lengths"
    BY <1>7 DEF RangeLength
  <2>2. /\ begin_ + RunLength * GROUP_SIZE \in Nat
        /\ begin_ + RunLength * GROUP_SIZE <= end_
        /\ PosOf(begin_ + RunLength * GROUP_SIZE) = 0
    BY <2>1, RunInRange
  <2>3. QED
    BY <1>0, <1>7, <2>2 DEF BoundsOK, RangeLength, RangeDone, RangeFull
<1>8. CASE RangePublish
  BY <1>8 DEF BoundsOK, RangePublish
<1>9. CASE UNCHANGED vars
  BY <1>9 DEF BoundsOK, vars
<1>10. QED
  BY <1>1, <1>2, <1>3, <1>4, <1>5, <1>6, <1>7, <1>8, <1>9 DEF Next, RangeStep

(* Every step keeps the types.                                             *)
LEMMA TableStep ==
  ASSUME BoundsOK, TableInv, [Next]_vars
  PROVE  TableInv'
<1>0. /\ table \in [Cells -> Entries] /\ MasksFit
      /\ begin_ \in Nat /\ end_ \in Nat
      /\ GroupOf(begin_) \in Nat /\ GroupOf(end_) \in Nat
      /\ PosOf(end_) \in FULL_MASK
      /\ recent_cl \in Nat /\ dirty \subseteq Nat /\ partial \subseteq Nat
  BY LineIsGroupAndPos, Masks DEF BoundsOK, TableInv
<1>a. ASSUME NEW index \in Nat, NEW mask \in SUBSET FULL_MASK, MaskFits(index),
             table' = InsertMask(index, mask)
      PROVE  table' \in [Cells -> Entries] /\ MasksFit'
  BY <1>0, <1>a, InsertMaskTypes DEF MasksFit
<1>b. table' = table => table' \in [Cells -> Entries] /\ MasksFit'
  BY <1>0 DEF MasksFit
<1>c. table' = Cleared => table' \in [Cells -> Entries] /\ MasksFit'
  BY ClearedTypes DEF MasksFit
<1>1. ASSUME NEW cl \in StoreLines, LogStore(cl) PROVE TableInv'
  <2>1. cl \in Nat /\ GroupOf(cl) \in Nat /\ {PosOf(cl)} \subseteq FULL_MASK
    BY Constants, Masks, LineIsGroupAndPos
  <2>2. table' = StoreFull(cl) => table' \in [Cells -> Entries] /\ MasksFit'
    BY <2>1, ClearedTypes DEF MasksFit
  <2>3. table' \in [Cells -> Entries] /\ MasksFit'
    BY <1>1, <1>a, <1>b, <2>1, <2>2 DEF LogStore
  <2>4. QED
    BY <1>0, <1>1, <2>1, <2>3 DEF TableInv, LogStore
<1>2. ASSUME NEW r \in Ranges, LogRangeStore(r) PROVE TableInv'
  <2>1. r.begin \in Nat /\ r.end \in Nat /\ RangeLines(r) \subseteq Nat
    BY Constants DEF RangeLines
  <2>2. QED
    BY <1>0, <1>2, <1>b, <2>1 DEF TableInv, LogRangeStore
<1>3. CASE Release
  BY <1>0, <1>3, <1>c DEF TableInv, Release, Published, None
<1>4. CASE RangeBegin
  <2>1. BeginMask \subseteq FULL_MASK
    BY <1>0, Masks
  <2>2. table' \in [Cells -> Entries] /\ MasksFit'
    BY <1>0, <1>4, <1>a, <1>b, <2>1 DEF RangeBegin, RangeFull
  <2>3. QED
    BY <1>0, <1>4, <2>2 DEF TableInv, RangeBegin, RangeDone, RangeFull, histVars
<1>5. CASE RangeEnd
  <2>1. table' \in [Cells -> Entries] /\ MasksFit'
    BY <1>0, <1>5, <1>a, <1>b DEF RangeEnd, RangeFull
  <2>2. QED
    BY <1>0, <1>5, <2>1 DEF TableInv, RangeEnd, WholeGroups, RangeFull, histVars
<1>6. CASE RangeMask
  <2>1. table' \in [Cells -> Entries] /\ MasksFit'
    BY <1>0, <1>6, <1>a, <1>b DEF RangeMask, RangeFull
  <2>2. QED
    BY <1>0, <1>6, <2>1 DEF TableInv, RangeMask, RangeDone, RangeFull, histVars
<1>7. CASE RangeLength
  <2>1. table' \in [Cells -> Entries] /\ MasksFit'
    BY <1>0, <1>7, <1>b, InsertLengthTypes DEF RangeLength, RangeFull, MasksFit
  <2>2. QED
    BY <1>0, <1>7, <2>1 DEF TableInv, RangeLength, RangeDone, RangeFull, histVars
<1>8. CASE RangePublish
  BY <1>0, <1>8, <1>c DEF TableInv, RangePublish, Published
<1>9. CASE UNCHANGED vars
  BY <1>0, <1>9, <1>b DEF TableInv, vars, histVars
<1>10. QED
  BY <1>1, <1>2, <1>3, <1>4, <1>5, <1>6, <1>7, <1>8, <1>9 DEF Next, RangeStep

(* The initial state.                                                      *)
LEMMA TableInit == Init => BoundsOK /\ TableInv
BY ClearedTypes, Constants DEF Init, BoundsOK, TableInv, MasksFit, Cleared, None

(* Every variable of the dirty table keeps its type, with runs of groups,  *)
(* coalescing and masks added to lengths: a mask has bits of its group     *)
(* only, and the bounds of a range do not cross while range_insert advances *)
(* them.                                                                   *)
THEOREM TableTypes == Spec => []TypeOK
<1>1. BoundsOK /\ TableInv /\ [Next]_vars => (BoundsOK /\ TableInv)'
  BY BoundsStep, TableStep
<1>2. BoundsOK /\ TableInv => TypeOK
  BY DEF BoundsOK, TableInv, MasksFit, Entries, TypeOK
<1>3. QED
  BY <1>1, <1>2, TableInit, PTL DEF Spec

-----------------------------------------------------------------------------
(* What the entries cover.                                                 *)

Cover(tab) == UNION {LinesOf(tab[i]) : i \in Cells}

(* Programs whose ranges are recorded as masks: no range has GROUP_LEN_MIN *)
(* whole groups.                                                           *)
ShortRanges == \A r \in Ranges : GroupOf(r.end) - GroupOf(r.begin) < GROUP_LEN_MIN

(* log_range_store leaves in recent_cl the line after the range.  It is in *)
(* the table when the range ends only if the range lies in the end of one  *)
(* group: otherwise range_insert does not record it, or records it before  *)
(* it publishes the table.  The program stores to no such line next.       *)
EndsApart ==
  \A r \in Ranges :
    r.end \in StoreLines => PosOf(r.begin) # 0 /\ GroupOf(r.begin) = GroupOf(r.end)

(* Programs whose ranges range_insert records to the last line.            *)
FullyRecorded == \A r \in Ranges : RangeLines(r) \subseteq Recorded(r.begin, r.end)

(* The lines that range_insert is still to record.                         *)
Left == IF pc = "run" THEN {} ELSE Recorded(begin_, end_)

(* recent_cl stands for a line in the table, which is why log_store skips  *)
(* it; while a range is inserted it will be the range's only line.         *)
RecentInv ==
  /\ recent_cl = None => pc = "run" /\ dirty = {}
  /\ recent_cl \in StoreLines =>
       IF pc = "run" THEN recent_cl \in Covered
       ELSE /\ end_ = recent_cl
            /\ PosOf(begin_) # 0 /\ GroupOf(begin_) = GroupOf(end_)

ShortInv ==
  /\ pc # "lengths"
  /\ GroupOf(end_) - GroupOf(begin_) < GROUP_LEN_MIN
  /\ \A i \in Cells : ~table[i].is_length

(* Every line in dirty is in the table or still to be recorded.            *)
DirtyInv == dirty \subseteq Covered \cup Left

CoverInv == ShortInv /\ RecentInv /\ DirtyInv

(* The lines of a group from one on.                                       *)
LEMMA SameGroup ==
  ASSUME NEW a \in Nat, NEW x \in Nat, a <= x, x < a + GROUP_SIZE - PosOf(a)
  PROVE  GroupOf(x) = GroupOf(a) /\ PosOf(x) \in PosOf(a) .. GROUP_SIZE - 1
<1> DEFINE g == GroupOf(a)
           q == PosOf(a)
<1>1. GROUP_SIZE \in Nat \ {0}
  BY Constants
<1>2. g \in Nat /\ q \in 0 .. GROUP_SIZE - 1 /\ a = GROUP_SIZE * g + q
  BY LineIsGroupAndPos
<1> SUFFICES GroupOf(x) = g /\ PosOf(x) \in q .. GROUP_SIZE - 1
  OBVIOUS
<1>0. x < a + GROUP_SIZE - q
  OBVIOUS
<1> HIDE DEF g, q
<1> DEFINE p == x - GROUP_SIZE * g
<1>3. GROUP_SIZE * g \in Nat
  BY <1>1, <1>2
<1>4. p \in 0 .. GROUP_SIZE - 1 /\ p \in q .. GROUP_SIZE - 1 /\ x = GROUP_SIZE * g + p
  BY <1>0, <1>1, <1>2, <1>3
<1>5. g \in Int
  BY <1>2
<1> HIDE DEF p
<1>6. GroupOf(x) = g /\ PosOf(x) = p
  BY <1>4, <1>5, OneQuotient
<1>7. QED
  BY <1>4, <1>6

(* In one group the positions are ordered as the lines.                    *)
LEMMA PosOrder ==
  ASSUME NEW a \in Nat, NEW b \in Nat, a <= b, GroupOf(a) = GroupOf(b)
  PROVE  PosOf(a) <= PosOf(b)
<1> DEFINE g == GroupOf(a)
<1>0. g \in Nat /\ GROUP_SIZE \in Nat
  BY Constants, LineIsGroupAndPos
<1>1. GROUP_SIZE * g \in Nat
  <2> HIDE DEF g
  <2>1. QED
    BY <1>0
<1>2. a = GROUP_SIZE * g + PosOf(a) /\ PosOf(a) \in Nat
  BY Constants, LineIsGroupAndPos
<1>3. b = GROUP_SIZE * g + PosOf(b) /\ PosOf(b) \in Nat
  BY Constants, LineIsGroupAndPos
<1> HIDE DEF g
<1>4. QED
  BY <1>1, <1>2, <1>3

(* A mask entry covers the lines whose bits it has.                        *)
LEMMA MaskCovers ==
  ASSUME NEW e \in Entries, ~e.is_length, NEW cl \in Nat,
         e.index = GroupOf(cl), PosOf(cl) \in e.bits
  PROVE  cl \in LinesOf(e)
<1> DEFINE g == GroupOf(cl)
<1>1. cl = GROUP_SIZE * g + PosOf(cl) /\ g \in Nat /\ GROUP_SIZE \in Nat
  BY Constants, LineIsGroupAndPos
<1> HIDE DEF g
<1>2. GROUP_SIZE * g = g * GROUP_SIZE
  BY <1>1
<1>3. cl = e.index * GROUP_SIZE + PosOf(cl)
  BY <1>1, <1>2 DEF g
<1>4. QED
  BY <1>3 DEF LinesOf

(* insert_mask loses no line and covers those of the mask.                 *)
LEMMA InsertMaskCovers ==
  ASSUME table \in [Cells -> Entries], \A i \in Cells : ~table[i].is_length,
         NEW index \in Nat, MaskFits(index), NEW mask \in SUBSET Nat
  PROVE  /\ \A i \in Cells : ~InsertMask(index, mask)[i].is_length
         /\ Cover(table) \subseteq Cover(InsertMask(index, mask))
         /\ \A cl \in Nat : GroupOf(cl) = index /\ PosOf(cl) \in mask
                              => cl \in Cover(InsertMask(index, mask))
<1> DEFINE tab == InsertMask(index, mask)
<1>1. PICK c \in Cells :
        /\ tab = [table EXCEPT ![c] = Entry(table[c].is_length, index, table[c].bits \cup mask)]
        /\ table[c] = Empty \/ table[c].index = index
  BY InsertMaskEffect
<1>2. \A i \in Cells : i # c => tab[i] = table[i]
  BY <1>1
<1>3. tab[c] = Entry(table[c].is_length, index, table[c].bits \cup mask)
  BY <1>1
<1>4. /\ tab[c] \in Entries /\ ~tab[c].is_length
      /\ tab[c].index = index /\ tab[c].bits = table[c].bits \cup mask
  <2>1. table[c] \in Entries
    OBVIOUS
  <2>2. table[c].is_length \in BOOLEAN /\ table[c].bits \subseteq Nat
    BY <2>1 DEF Entries
  <2>3. ~table[c].is_length
    OBVIOUS
  <2> HIDE DEF tab
  <2> DEFINE b == table[c].bits \cup mask
  <2>4. b \in SUBSET Nat
    BY <2>2
  <2>5. tab[c] = [is_length |-> FALSE, index |-> index, bits |-> b]
    BY <1>3, <2>2, <2>3 DEF Entry
  <2> HIDE DEF b
  <2>6. /\ tab[c] \in Entries /\ ~tab[c].is_length
        /\ tab[c].index = index /\ tab[c].bits = b
    BY <2>4, <2>5 DEF Entries
  <2>7. QED
    BY <2>6 DEF b
<1> SUFFICES /\ \A i \in Cells : ~tab[i].is_length
             /\ Cover(table) \subseteq Cover(tab)
             /\ \A cl \in Nat : GroupOf(cl) = index /\ PosOf(cl) \in mask => cl \in Cover(tab)
  OBVIOUS
<1> HIDE DEF tab
<1>5. \A i \in Cells : ~tab[i].is_length
  BY <1>2, <1>4
<1>6. LinesOf(table[c]) \subseteq LinesOf(tab[c])
  <2>1. CASE table[c] = Empty
    <3>1. ~Empty.is_length /\ Empty.bits = {}
      BY Masks
    <3>2. LinesOf(Empty) = {}
      BY <3>1 DEF LinesOf
    <3>3. QED
      BY <2>1, <3>2
  <2>2. CASE table[c].index = index
    BY <1>4, <2>2 DEF LinesOf
  <2>3. QED
    BY <1>1, <2>1, <2>2
<1>7. \A i \in Cells : LinesOf(table[i]) \subseteq LinesOf(tab[i])
  BY <1>2, <1>6
<1>8. Cover(table) \subseteq Cover(tab)
  BY <1>7 DEF Cover
<1>9. ASSUME NEW cl \in Nat, GroupOf(cl) = index, PosOf(cl) \in mask
      PROVE  cl \in Cover(tab)
  <2>1. cl \in LinesOf(tab[c])
    BY <1>4, <1>9, MaskCovers
  <2>2. QED
    BY <2>1 DEF Cover
<1>10. QED
  BY <1>5, <1>8, <1>9

(* A table that was published and took a line covers it.                   *)
LEMMA StoreFullCovers ==
  ASSUME NEW cl \in Nat
  PROVE  cl \in Cover(StoreFull(cl))
<1> DEFINE e == Entry(FALSE, GroupOf(cl), {PosOf(cl)})
           c == GroupOf(cl) % TABLE_SIZE
<1>1. c \in Cells
  BY Constants, LineIsGroupAndPos
<1>2. StoreFull(cl)[c] = e
  BY <1>1, ClearedTypes DEF StoreFull
<1>3. e \in Entries /\ ~e.is_length /\ e.index = GroupOf(cl) /\ PosOf(cl) \in e.bits
  BY Masks, LineIsGroupAndPos DEF Entries, Entry
<1> HIDE DEF e, c
<1>4. cl \in LinesOf(e)
  BY <1>3, MaskCovers
<1>5. QED
  BY <1>1, <1>2, <1>4 DEF Cover

(* Covered is the cover of the table, before and after a step.             *)
LEMMA CoveredIsCover == Covered = Cover(table) /\ Covered' = Cover(table')
BY DEF Covered, Cover

(* What is left depends on the bounds alone while a range is inserted.     *)
LEMMA LeftFrame ==
  ASSUME pc # "run", pc' # "run", begin_' = begin_, end_' = end_
  PROVE  Left' = Left
BY DEF Left, Recorded, GroupOf, PosOf

(* A store of one line: it is in the table afterwards, with what was there *)
(* or had to be published to make room.                                    *)
LEMMA StoreCovers ==
  ASSUME BoundsOK, TableInv, CoverInv, NEW cl \in StoreLines, LogStore(cl)
  PROVE  CoverInv'
<1>0. /\ table \in [Cells -> Entries] /\ cl \in Nat /\ cl # None
      /\ GroupOf(cl) \in Nat /\ {PosOf(cl)} \in SUBSET Nat
      /\ pc = "run" /\ pc' = "run" /\ recent_cl' = cl /\ begin_' = begin_ /\ end_' = end_
  BY Constants, LineIsGroupAndPos DEF TableInv, LogStore
<1>1. dirty \subseteq Covered
  BY <1>0 DEF CoverInv, DirtyInv, Left
<1>2. /\ \A i \in Cells : ~table'[i].is_length
      /\ cl \in Covered'
      /\ dirty' \subseteq Covered'
  <2>1. CASE cl = recent_cl /\ dirty' = dirty \cup {cl} /\ table' = table
    <3>1. Covered' = Covered
      BY <2>1, CoveredIsCover
    <3>2. cl \in Covered
      BY <1>0, <2>1 DEF CoverInv, RecentInv
    <3>3. QED
      BY <1>1, <2>1, <3>1, <3>2 DEF CoverInv, ShortInv
  <2>2. CASE /\ MaskFits(GroupOf(cl)) /\ table' = InsertMask(GroupOf(cl), {PosOf(cl)})
             /\ dirty' = dirty \cup {cl}
    <3>1. \A i \in Cells : ~table[i].is_length
      BY DEF CoverInv, ShortInv
    <3>2. /\ \A i \in Cells : ~table'[i].is_length
          /\ Cover(table) \subseteq Cover(table')
          /\ cl \in Cover(table')
      BY <1>0, <2>2, <3>1, InsertMaskCovers
    <3>3. QED
      BY <1>1, <2>2, <3>2, CoveredIsCover
  <2>3. CASE table' = StoreFull(cl) /\ dirty' = (dirty \ Covered) \cup {cl}
    <3>1. cl \in Covered'
      BY <1>0, <2>3, StoreFullCovers, CoveredIsCover
    <3>2. \A i \in Cells : ~table'[i].is_length
      BY <1>0, <2>3, ClearedTypes
    <3>3. QED
      BY <1>1, <2>3, <3>1, <3>2
  <2>4. QED
    BY <2>1, <2>2, <2>3 DEF LogStore
<1>3. ShortInv'
  BY <1>0, <1>2 DEF CoverInv, ShortInv
<1>4. RecentInv'
  BY <1>0, <1>2 DEF RecentInv
<1>5. DirtyInv'
  BY <1>2 DEF DirtyInv
<1>6. QED
  BY <1>3, <1>4, <1>5 DEF CoverInv

(* A store of a range: its lines are left to be recorded.                  *)
LEMMA RangeStoreCovers ==
  ASSUME ShortRanges, EndsApart, BoundsOK, TableInv, CoverInv,
         NEW r \in Ranges, LogRangeStore(r)
  PROVE  CoverInv'
<1>0. /\ r.begin \in Nat /\ r.end \in Nat /\ r.begin <= r.end /\ r.end # None
      /\ pc = "run" /\ pc' = "range" /\ recent_cl' = r.end
      /\ begin_' = r.begin /\ end_' = r.end /\ table' = table
  BY Constants DEF LogRangeStore
<1>1. dirty \subseteq Covered /\ Covered' = Covered
  BY <1>0, CoveredIsCover DEF CoverInv, DirtyInv, Left
<1>2. ShortInv'
  BY <1>0 DEF ShortRanges, CoverInv, ShortInv, GroupOf
<1>3. RecentInv'
  BY <1>0 DEF EndsApart, RecentInv, GroupOf, PosOf
<1>4. Left' = Recorded(r.begin, r.end)
  BY <1>0 DEF Left, Recorded, GroupOf, PosOf
<1>5. dirty' \subseteq dirty \cup Recorded(r.begin, r.end)
  BY DEF LogRangeStore
<1>6. DirtyInv'
  BY <1>1, <1>4, <1>5 DEF DirtyInv
<1>7. QED
  BY <1>2, <1>3, <1>6 DEF CoverInv

(* An insertion covers lines; what it does not cover is still left.        *)
LEMMA InsertionCovers ==
  ASSUME TableInv, CoverInv, dirty' = dirty,
         NEW index \in Nat, MaskFits(index), NEW mask \in SUBSET Nat,
         table' = InsertMask(index, mask),
         \A x \in Left : x \in Left' \/ (x \in Nat /\ GroupOf(x) = index /\ PosOf(x) \in mask)
  PROVE  /\ DirtyInv'
         /\ \A i \in Cells : ~table'[i].is_length
         /\ \A x \in Nat : GroupOf(x) = index /\ PosOf(x) \in mask => x \in Covered'
<1>1. table \in [Cells -> Entries] /\ \A i \in Cells : ~table[i].is_length
  BY DEF TableInv, CoverInv, ShortInv
<1>2. /\ \A i \in Cells : ~table'[i].is_length
      /\ Cover(table) \subseteq Cover(table')
      /\ \A x \in Nat : GroupOf(x) = index /\ PosOf(x) \in mask => x \in Cover(table')
  BY <1>1, InsertMaskCovers
<1>3. dirty \subseteq Cover(table) \cup Left
  BY CoveredIsCover DEF CoverInv, DirtyInv
<1>4. dirty' \subseteq Cover(table') \cup Left'
  BY <1>2, <1>3
<1>5. QED
  BY <1>2, <1>4, CoveredIsCover DEF DirtyInv

(* Nothing is inserted and nothing less is left.                           *)
LEMMA QuietCovers ==
  ASSUME CoverInv, dirty' = dirty, table' = table, Left \subseteq Left'
  PROVE  DirtyInv' /\ \A i \in Cells : ~table'[i].is_length
BY CoveredIsCover DEF CoverInv, ShortInv, DirtyInv

(* The first group of the range.                                           *)
LEMMA RangeBeginCovers ==
  ASSUME BoundsOK, TableInv, CoverInv, RangeBegin
  PROVE  CoverInv'
<1>0. /\ begin_ \in Nat /\ end_ \in Nat /\ begin_ <= end_
      /\ GroupOf(begin_) \in Nat /\ GroupOf(end_) \in Nat
      /\ PosOf(begin_) \in 0 .. GROUP_SIZE - 1 /\ PosOf(end_) \in 0 .. GROUP_SIZE - 1
      /\ GROUP_SIZE \in Nat \ {0}
      /\ pc = "range" /\ recent_cl' = recent_cl /\ dirty' = dirty
      /\ BeginMask = PosOf(begin_) .. GROUP_SIZE - 1
  BY Constants, LineIsGroupAndPos DEF BoundsOK, RangeBegin, histVars, BeginMask
<1>1. /\ recent_cl # None
      /\ recent_cl \in StoreLines => /\ end_ = recent_cl
                                     /\ PosOf(begin_) # 0 /\ GroupOf(begin_) = GroupOf(end_)
      /\ GroupOf(end_) - GroupOf(begin_) < GROUP_LEN_MIN
  BY <1>0 DEF CoverInv, RecentInv, ShortInv
<1>2. CASE PosOf(begin_) = 0 /\ pc' = "tail" /\ UNCHANGED <<table, begin_, end_>>
  <2>1. Left' = Left
    BY <1>0, <1>2, LeftFrame
  <2>2. DirtyInv' /\ \A i \in Cells : ~table'[i].is_length
    BY <1>0, <1>2, <2>1, QuietCovers
  <2>3. ShortInv' /\ RecentInv'
    BY <1>0, <1>1, <1>2, <2>2 DEF ShortInv, RecentInv
  <2>4. QED
    BY <2>2, <2>3 DEF CoverInv
<1>3. CASE /\ PosOf(begin_) # 0 /\ GroupOf(begin_) = GroupOf(end_) /\ MaskFits(GroupOf(begin_))
           /\ table' = InsertMask(GroupOf(begin_), BeginMask \cap {PosOf(end_)})
           /\ RangeDone
  <2>1. PosOf(begin_) <= PosOf(end_)
    BY <1>0, <1>3, PosOrder
  <2>2. PosOf(end_) \in BeginMask /\ BeginMask \cap {PosOf(end_)} \in SUBSET Nat
    BY <1>0, <2>1
  <2>3. Left = {end_}
    BY <1>0, <1>3 DEF Left, Recorded
  <2>4. /\ DirtyInv'
        /\ \A i \in Cells : ~table'[i].is_length
        /\ end_ \in Covered'
    <3> DEFINE index == GroupOf(begin_)
               mask == BeginMask \cap {PosOf(end_)}
    <3>1. \A x \in Left : x \in Nat /\ GroupOf(x) = index /\ PosOf(x) \in mask
      BY <1>0, <1>3, <2>2, <2>3
    <3>2. index \in Nat /\ mask \in SUBSET Nat /\ MaskFits(index)
          /\ table' = InsertMask(index, mask)
      BY <1>0, <1>3, <2>2
    <3>3. GroupOf(end_) = index /\ PosOf(end_) \in mask
      BY <1>3, <2>2
    <3> HIDE DEF index, mask
    <3>4. QED
      BY <1>0, <3>1, <3>2, <3>3, InsertionCovers
  <2>5. ShortInv'
    <3>1. GroupOf(end_)' - GroupOf(begin_)' = 0
      <4>1. GroupOf(0) \in Nat
        BY LineIsGroupAndPos
      <4>2. GroupOf(end_)' = GroupOf(0) /\ GroupOf(begin_)' = GroupOf(0)
        BY <1>3 DEF RangeDone
      <4>3. QED
        BY <4>1, <4>2
    <3>2. GROUP_LEN_MIN > 0
      BY LocalCLTableAssumption DEF LocalCLTableAssumption
    <3>3. pc' = "run"
      BY <1>3 DEF RangeDone
    <3>4. QED
      BY <2>4, <3>1, <3>2, <3>3 DEF ShortInv
  <2>6. RecentInv'
    BY <1>0, <1>1, <1>3, <2>4 DEF RecentInv, RangeDone
  <2>7. QED
    BY <2>4, <2>5, <2>6 DEF CoverInv
<1>4. CASE /\ PosOf(begin_) # 0 /\ GroupOf(begin_) # GroupOf(end_) /\ MaskFits(GroupOf(begin_))
           /\ table' = InsertMask(GroupOf(begin_), BeginMask)
           /\ begin_' = begin_ + GROUP_SIZE - PosOf(begin_)
           /\ pc' = "tail" /\ end_' = end_
  <2>1. \A x \in Left : x \in Left' \/ (x \in Nat /\ GroupOf(x) = GroupOf(begin_) /\ PosOf(x) \in BeginMask)
    <3>1. SUFFICES ASSUME NEW x \in Left, x \notin Left'
                   PROVE  x \in Nat /\ GroupOf(x) = GroupOf(begin_) /\ PosOf(x) \in BeginMask
      OBVIOUS
    <3>2. PosOf(begin_') = 0 /\ PosOf(end_') = PosOf(end_)
      BY <1>0, <1>4, GroupBounds
    <3>3. Left' = (begin_' .. end_ - PosOf(end_) - 1) \cup {y \in {end_} : PosOf(y) # 0}
      <4>1. Left' = Recorded(begin_', end_')
        BY <1>4 DEF Left, Recorded, GroupOf, PosOf
      <4>2. QED
        BY <1>4, <3>2, <4>1 DEF Recorded
    <3>4. x \in begin_ .. end_ - PosOf(end_) - 1 /\ x \in Nat /\ begin_ <= x
      <4>1. Left = (begin_ .. end_ - PosOf(end_) - 1) \cup {y \in {end_} : PosOf(y) # 0}
        BY <1>0, <1>4 DEF Left, Recorded
      <4>2. x \in begin_ .. end_ - PosOf(end_) - 1
        BY <3>1, <3>3, <4>1
      <4>3. QED
        BY <1>0, <4>2
    <3>5. begin_' \in Nat
      BY <1>0, <1>4
    <3>6. x < begin_ + GROUP_SIZE - PosOf(begin_)
      BY <1>0, <1>4, <3>1, <3>3, <3>4, <3>5
    <3>7. QED
      BY <1>0, <3>4, <3>6, SameGroup
  <2>2. DirtyInv' /\ \A i \in Cells : ~table'[i].is_length
    <3> DEFINE index == GroupOf(begin_)
    <3>1. BeginMask \in SUBSET Nat
      BY <1>0
    <3> HIDE DEF index
    <3>2. QED
      BY <1>0, <1>4, <2>1, <3>1, InsertionCovers DEF index
  <2>3. ShortInv'
    <3>1. GroupOf(begin_)' = GroupOf(begin_) + 1 /\ GroupOf(end_)' = GroupOf(end_)
      BY <1>0, <1>4, GroupBounds
    <3>2. GROUP_LEN_MIN \in Nat
      BY LocalCLTableAssumption DEF LocalCLTableAssumption
    <3>3. GroupOf(end_)' - GroupOf(begin_)' < GROUP_LEN_MIN
      BY <1>0, <1>1, <3>1, <3>2
    <3>4. QED
      BY <1>4, <2>2, <3>3 DEF ShortInv
  <2>4. RecentInv'
    BY <1>0, <1>1, <1>4 DEF RecentInv
  <2>5. QED
    BY <2>2, <2>3, <2>4 DEF CoverInv
<1>5. CASE RangeFull
  <2>1. Left' = Left /\ table' = table
    BY <1>0, <1>5, LeftFrame DEF RangeFull
  <2>2. DirtyInv' /\ \A i \in Cells : ~table'[i].is_length
    BY <1>0, <2>1, QuietCovers
  <2>3. ShortInv' /\ RecentInv'
    BY <1>0, <1>1, <1>5, <2>2 DEF ShortInv, RecentInv, RangeFull
  <2>4. QED
    BY <2>2, <2>3 DEF CoverInv
<1>6. QED
  BY <1>2, <1>3, <1>4, <1>5 DEF RangeBegin

(* The last group of the range: its end line is recorded, the groups       *)
(* between are left.                                                       *)
LEMMA RangeEndCovers ==
  ASSUME BoundsOK, TableInv, CoverInv, RangeEnd
  PROVE  CoverInv'
<1>0. /\ begin_ \in Nat /\ end_ \in Nat /\ begin_ <= end_ /\ PosOf(begin_) = 0
      /\ GroupOf(begin_) \in Nat /\ GroupOf(end_) \in Nat
      /\ PosOf(end_) \in Nat
      /\ pc = "tail" /\ recent_cl' = recent_cl /\ dirty' = dirty /\ begin_' = begin_
  BY Constants, LineIsGroupAndPos DEF BoundsOK, RangeEnd, histVars, RangeFull
<1>1. /\ recent_cl # None /\ recent_cl \notin StoreLines
      /\ GroupOf(end_) - GroupOf(begin_) < GROUP_LEN_MIN
  BY <1>0 DEF CoverInv, RecentInv, ShortInv
<1>2. WholeGroups => pc' = "masks"
  BY <1>1 DEF WholeGroups
<1>3. CASE PosOf(end_) = 0 /\ WholeGroups /\ UNCHANGED <<table, begin_, end_>>
  <2>1. Left' = Left
    BY <1>0, <1>2, <1>3, LeftFrame
  <2>2. DirtyInv' /\ \A i \in Cells : ~table'[i].is_length
    BY <1>0, <1>3, <2>1, QuietCovers
  <2>3. ShortInv' /\ RecentInv'
    BY <1>0, <1>1, <1>2, <1>3, <2>2 DEF ShortInv, RecentInv
  <2>4. QED
    BY <2>2, <2>3 DEF CoverInv
<1>4. CASE /\ PosOf(end_) # 0 /\ MaskFits(GroupOf(end_))
           /\ table' = InsertMask(GroupOf(end_), {PosOf(end_)})
           /\ end_' = end_ - PosOf(end_) /\ WholeGroups
  <2>1. \A x \in Left : \/ x \in Left'
                        \/ x \in Nat /\ GroupOf(x) = GroupOf(end_) /\ PosOf(x) \in {PosOf(end_)}
    <3>1. Left = (begin_ .. end_ - PosOf(end_) - 1) \cup {y \in {end_} : PosOf(y) # 0}
      BY <1>0 DEF Left, Recorded
    <3>2. PosOf(end_') = 0 /\ PosOf(begin_') = 0 /\ end_' \in Nat
      BY <1>0, <1>4, GroupBounds
    <3>3. Left' = (begin_ .. end_' - 1) \cup {y \in {end_'} : PosOf(y) # 0}
      <4>1. Left' = Recorded(begin_', end_')
        BY <1>2, <1>4 DEF Left, Recorded, GroupOf, PosOf
      <4>2. end_' - PosOf(end_') - 1 = end_' - 1
        BY <3>2
      <4>3. QED
        BY <1>0, <3>2, <4>1, <4>2 DEF Recorded
    <3>4. QED
      BY <1>0, <1>4, <3>1, <3>3
  <2>2. DirtyInv' /\ \A i \in Cells : ~table'[i].is_length
    BY <1>0, <1>4, <2>1, InsertionCovers
  <2>3. GroupOf(begin_)' = GroupOf(begin_) /\ GroupOf(end_)' = GroupOf(end_)
    BY <1>0, <1>4, GroupBounds
  <2>4. ShortInv' /\ RecentInv'
    BY <1>0, <1>1, <1>2, <1>4, <2>2, <2>3 DEF ShortInv, RecentInv
  <2>5. QED
    BY <2>2, <2>4 DEF CoverInv
<1>5. CASE RangeFull
  <2>1. Left' = Left /\ table' = table
    BY <1>0, <1>5, LeftFrame DEF RangeFull
  <2>2. DirtyInv' /\ \A i \in Cells : ~table'[i].is_length
    BY <1>0, <2>1, QuietCovers
  <2>3. ShortInv' /\ RecentInv'
    BY <1>0, <1>1, <1>5, <2>2 DEF ShortInv, RecentInv, RangeFull
  <2>4. QED
    BY <2>2, <2>3 DEF CoverInv
<1>6. QED
  BY <1>3, <1>4, <1>5 DEF RangeEnd

(* The groups between, one mask each.                                      *)
LEMMA RangeMaskCovers ==
  ASSUME BoundsOK, TableInv, CoverInv, RangeMask
  PROVE  CoverInv'
<1>0. /\ begin_ \in Nat /\ end_ \in Nat /\ begin_ <= end_
      /\ PosOf(begin_) = 0 /\ PosOf(end_) = 0
      /\ GroupOf(begin_) \in Nat /\ GroupOf(end_) \in Nat
      /\ GROUP_SIZE \in Nat \ {0} /\ GROUP_LEN_MIN \in Nat \ {0}
      /\ pc = "masks" /\ recent_cl' = recent_cl /\ dirty' = dirty
  BY LocalCLTableAssumption, LineIsGroupAndPos
     DEF LocalCLTableAssumption, BoundsOK, RangeMask, histVars
<1>1. /\ recent_cl # None /\ recent_cl \notin StoreLines
      /\ GroupOf(end_) - GroupOf(begin_) < GROUP_LEN_MIN
      /\ Left = begin_ .. end_ - 1
  <2>1. Left = (begin_ .. end_ - PosOf(end_) - 1) \cup {y \in {end_} : PosOf(y) # 0}
    BY <1>0 DEF Left, Recorded
  <2>2. end_ - PosOf(end_) - 1 = end_ - 1
    BY <1>0
  <2>3. QED
    BY <1>0, <2>1, <2>2 DEF CoverInv, RecentInv, ShortInv
<1>2. CASE begin_ = end_ /\ RangeDone /\ table' = table
  <2>1. Left = {}
    BY <1>0, <1>1, <1>2
  <2>2. DirtyInv' /\ \A i \in Cells : ~table'[i].is_length
    BY <1>0, <1>2, <2>1, QuietCovers
  <2>3. GroupOf(0) - GroupOf(0) = 0
    <3>1. GroupOf(0) \in Nat
      BY LineIsGroupAndPos
    <3>2. QED
      BY <3>1
  <2>4. pc' = "run" /\ GroupOf(end_)' - GroupOf(begin_)' = 0
    BY <1>2, <2>3 DEF RangeDone
  <2>5. ShortInv' /\ RecentInv'
    BY <1>0, <1>1, <2>2, <2>4 DEF ShortInv, RecentInv
  <2>6. QED
    BY <2>2, <2>5 DEF CoverInv
<1>3. CASE /\ begin_ # end_ /\ MaskFits(GroupOf(begin_))
           /\ table' = InsertMask(GroupOf(begin_), FULL_MASK)
           /\ begin_' = begin_ + GROUP_SIZE
           /\ pc' = pc /\ end_' = end_
  <2>1. Left' = begin_ + GROUP_SIZE .. end_ - 1
    <3>1. begin_ + GROUP_SIZE - PosOf(begin_) = begin_ + GROUP_SIZE
      BY <1>0
    <3>2. PosOf(begin_') = 0 /\ PosOf(end_') = 0
      BY <1>0, <1>3, <3>1, GroupBounds
    <3>3. Left' = Recorded(begin_', end_')
      BY <1>0, <1>3 DEF Left, Recorded, GroupOf, PosOf
    <3>4. end_' - PosOf(end_') - 1 = end_ - 1
      BY <1>0, <1>3, <3>2
    <3>5. Left' = (begin_' .. end_ - 1) \cup {y \in {end_'} : PosOf(y) # 0}
      BY <3>2, <3>3, <3>4 DEF Recorded
    <3>6. QED
      BY <1>3, <3>2, <3>5
  <2>2. ASSUME NEW x \in Left, x \notin Left'
        PROVE  x \in Nat /\ GroupOf(x) = GroupOf(begin_) /\ PosOf(x) \in FULL_MASK
    <3>1. x \in Nat /\ begin_ <= x /\ x < begin_ + GROUP_SIZE - PosOf(begin_)
      BY <1>0, <1>1, <2>1, <2>2
    <3>2. GroupOf(x) = GroupOf(begin_) /\ PosOf(x) \in PosOf(begin_) .. GROUP_SIZE - 1
      BY <1>0, <3>1, SameGroup
    <3>3. QED
      BY <1>0, <3>1, <3>2 DEF FULL_MASK
  <2>3. DirtyInv' /\ \A i \in Cells : ~table'[i].is_length
    BY <1>0, <1>3, <2>2, Masks, InsertionCovers
  <2>4. GroupOf(begin_)' = GroupOf(begin_) + 1 /\ GroupOf(end_)' = GroupOf(end_)
    <3>1. begin_ + GROUP_SIZE - PosOf(begin_) = begin_ + GROUP_SIZE
      BY <1>0
    <3>2. GroupOf(begin_ + GROUP_SIZE) = GroupOf(begin_) + 1
      BY <1>0, <3>1, GroupBounds
    <3>3. QED
      BY <1>3, <3>2
  <2>5. GroupOf(end_)' - GroupOf(begin_)' < GROUP_LEN_MIN
    BY <1>0, <1>1, <2>4
  <2>6. ShortInv' /\ RecentInv'
    BY <1>0, <1>1, <1>3, <2>3, <2>5 DEF ShortInv, RecentInv
  <2>7. QED
    BY <2>3, <2>6 DEF CoverInv
<1>4. CASE RangeFull
  <2>1. Left' = Left /\ table' = table
    BY <1>0, <1>4, LeftFrame DEF RangeFull
  <2>2. DirtyInv' /\ \A i \in Cells : ~table'[i].is_length
    BY <1>0, <2>1, QuietCovers
  <2>3. ShortInv' /\ RecentInv'
    BY <1>0, <1>1, <1>4, <2>2 DEF ShortInv, RecentInv, RangeFull
  <2>4. QED
    BY <2>2, <2>3 DEF CoverInv
<1>5. QED
  BY <1>2, <1>3, <1>4 DEF RangeMask

(* Publishing takes everything that the table covers out of dirty.         *)
LEMMA PublishCovers ==
  ASSUME BoundsOK, TableInv, CoverInv, Release \/ RangePublish
  PROVE  CoverInv'
<1>1. /\ \A i \in Cells : ~table'[i].is_length
      /\ dirty' = dirty \ Covered /\ begin_' = begin_ /\ end_' = end_
  BY Masks DEF Release, RangePublish, Published, Cleared
<1>2. dirty' \subseteq Left
  BY <1>1 DEF CoverInv, DirtyInv
<1>3. CASE Release
  <2>1. dirty' = {} /\ pc' = "run" /\ recent_cl' = None
    BY <1>2, <1>3 DEF Release, Left
  <2>2. None \notin StoreLines
    BY Constants
  <2>3. ShortInv' /\ RecentInv' /\ DirtyInv'
    BY <1>1, <2>1, <2>2 DEF CoverInv, ShortInv, RecentInv, DirtyInv
  <2>4. QED
    BY <2>3 DEF CoverInv
<1>4. CASE RangePublish
  <2>1. pc = "full" /\ pc' = "range" /\ recent_cl' = recent_cl
    BY <1>4 DEF RangePublish
  <2>2. Left' = Left
    BY <1>1, <2>1, LeftFrame
  <2>3. ShortInv' /\ RecentInv' /\ DirtyInv'
    BY <1>1, <1>2, <2>1, <2>2 DEF CoverInv, ShortInv, RecentInv, DirtyInv
  <2>4. QED
    BY <2>3 DEF CoverInv
<1>5. QED
  BY <1>3, <1>4

(* The initial state.                                                      *)
LEMMA CoverInit ==
  ASSUME Init
  PROVE  CoverInv
<1>1. GroupOf(0) - GroupOf(0) = 0 /\ GROUP_LEN_MIN > 0
  <2>1. GroupOf(0) \in Nat
    BY LineIsGroupAndPos
  <2>2. QED
    BY <2>1, LocalCLTableAssumption DEF LocalCLTableAssumption
<1>2. None \notin StoreLines
  BY Constants
<1>3. \A i \in Cells : ~table[i].is_length
  BY Masks DEF Init
<1>4. QED
  BY <1>1, <1>2, <1>3 DEF Init, CoverInv, ShortInv, RecentInv, DirtyInv

(* The inductive invariant of programs with short ranges: a line of dirty, *)
(* that is one which log_store or range_insert has to record, is in the    *)
(* table or in the part of a range that is still to be recorded.  The      *)
(* lines of partial, which range_insert leaves out, are not in dirty.      *)
THEOREM TableCovers ==
  ASSUME ShortRanges, EndsApart
  PROVE  Spec => [](BoundsOK /\ TableInv /\ CoverInv)
<1>1. ASSUME BoundsOK, TableInv, CoverInv, [Next]_vars PROVE CoverInv'
  <2>1. CASE RangeLength
    BY <1>1, <2>1 DEF RangeLength, CoverInv, ShortInv
  <2>2. CASE UNCHANGED vars
    <3>1. /\ table' = table /\ pc' = pc /\ begin_' = begin_ /\ end_' = end_
          /\ dirty' = dirty /\ recent_cl' = recent_cl
      BY <2>2 DEF vars, histVars
    <3>2. Covered' = Covered /\ Left' = Left
      BY <3>1, CoveredIsCover, LeftFrame DEF Left
    <3>3. QED
      BY <1>1, <3>1, <3>2 DEF CoverInv, ShortInv, RecentInv, DirtyInv
  <2>3. QED
    BY <1>1, <2>1, <2>2, StoreCovers, RangeStoreCovers, RangeBeginCovers, RangeEndCovers,
       RangeMaskCovers, PublishCovers DEF Next, RangeStep
<1>2. BoundsOK /\ TableInv /\ CoverInv /\ [Next]_vars => (BoundsOK /\ TableInv /\ CoverInv)'
  BY <1>1, BoundsStep, TableStep
<1>3. Init => BoundsOK /\ TableInv /\ CoverInv
  BY TableInit, CoverInit
<1>4. QED
  BY <1>2, <1>3, PTL DEF Spec

(* A release publishes every line of dirty, whatever the table did with    *)
(* collisions and overflows in the middle of a range, in a program whose   *)
(* ranges are short and do not end at a line it stores to next.  Of a      *)
(* range that ends inside a group the lines of that group before its end   *)
(* are in partial, and nothing is said of them.                            *)
THEOREM ShortRangesPublished ==
  ASSUME ShortRanges, EndsApart
  PROVE  Spec => []ReleasePublishesAll
<1>1. CoverInv => ReleasePublishesAll
  BY DEF CoverInv, RecentInv, ReleasePublishesAll
<1>2. QED
  BY <1>1, TableCovers, PTL

(* When besides range_insert records every range to its last line, as it   *)
(* does for those that end with a group, a release publishes every line    *)
(* the thread stored to: what the design document asks for.                *)
THEOREM FullRangesPublished ==
  ASSUME ShortRanges, EndsApart, FullyRecorded
  PROVE  Spec => []AllPublished
<1> DEFINE NonePartial == partial = {}
<1>1. NonePartial /\ [Next]_vars => NonePartial'
  <2> SUFFICES ASSUME partial = {}, [Next]_vars PROVE partial' = {}
    OBVIOUS
  <2>1. ASSUME NEW cl \in StoreLines, LogStore(cl) PROVE partial' = {}
    BY <2>1 DEF LogStore
  <2>2. ASSUME NEW r \in Ranges, LogRangeStore(r) PROVE partial' = {}
    BY <2>2 DEF LogRangeStore, FullyRecorded
  <2>3. CASE Release \/ RangeStep \/ UNCHANGED vars
    BY <2>3 DEF Release, RangeStep, RangeBegin, RangeEnd, RangeMask, RangeLength,
                RangePublish, Published, vars, histVars
  <2>4. QED
    BY <2>1, <2>2, <2>3 DEF Next
<1>2. Init => NonePartial
  BY DEF Init
<1>3. ReleasePublishesAll /\ NonePartial => AllPublished
  BY DEF ReleasePublishesAll, AllPublished
<1> HIDE DEF NonePartial
<1>4. QED
  BY <1>1, <1>2, <1>3, ShortRangesPublished, PTL DEF Spec
================================================================================

------------------------ MODULE ChannelHistory_proofs ------------------------
(***************************************************************************)
(* Proofs about ChannelHistory: its type invariant and its four safety     *)
(* invariants, for every number of turns, every history limit, every       *)
(* compaction limit and every number of restarts.                          *)
(*                                                                         *)
(* The row lists are filtered by KeepAt, which lists the kept indices in   *)
(* order.  The first part proves what that needs: a least element of a set *)
(* of numbers (from the well-foundedness of <), the rank of an index among *)
(* the kept ones, and that the rank is a bijection that keeps the order.   *)
(***************************************************************************)
EXTENDS ChannelHistory, FiniteSetTheorems, WellFoundedInduction, TLAPS

-----------------------------------------------------------------------------
(* The inductive invariant.                                                *)

Busy == {t \in Turns : InFlight(t)}

\* in_flight_counter counts the turns in flight; a runtime that is down has none.
CountInv ==
    /\ IsFiniteSet(Busy)
    /\ counts = Cardinality(Busy)
    /\ runtime = "down" => counts = 0

\* As long as no turn began while another was in flight, at most one is.
SerialInv == ~overlapped => \A t, u \in Busy : t = u

Saving == {"savingUser", "savingCompact", "savingEnd"}

\* A snapshot is held from the lock to the write, and by no other turn.
SnapInv == \A t \in Turns : pc[t] \notin Saving => snap[t] = <<>>

TurnsIn(rows) == {rows[i].turn : i \in 1..Len(rows)}

\* The turns a DELETE of the runtime or a lone /new erased.
Gone == forgotten \cup {t \in erased : erasedBy = "runtime"}

\* A DELETE succeeds once; the turns that are gone write no more, and no copy of the
\* history holds a row of theirs, not even an unsaved snapshot.
GoneInv ==
    /\ erasedBy # "nobody" => del = "deleted"
    /\ \A t \in Gone : pc[t] \in {"ending", "over"}
    /\ TurnsIn(ram) \cap Gone = {} /\ TurnsIn(store) \cap Gone = {}
    /\ \A t \in Turns : TurnsIn(snap[t]) \cap Gone = {}

\* Every tool row of rows comes right after its carrier or a tool row of its turn.
Follows(prev, r) == prev.turn = r.turn /\ prev.role \in {"carrier", "tool"}
Carried(rows) ==
    \A i \in 1..Len(rows) : rows[i].role = "tool" => i > 1 /\ Follows(rows[i - 1], rows[i])

ToolInv == Carried(ram)

\* A turn that is alone holds as its snapshot, or clears, what the map holds, and
\* between the two steps of a write only are the map and the stored row different,
\* unless they are known to be apart.
Settled == \A t \in Turns : pc[t] \notin Saving \cup {"clearing"}

DurableInv ==
    runtime # "down" =>
        /\ ~overlapped => \A t \in Turns : /\ pc[t] \in Saving => snap[t] = ram
                                           /\ pc[t] = "clearing" => ram = <<>>
        /\ (Settled /\ ~apart) => Seeded(store) = Seeded(ram)

HistoryInv == CountInv /\ SerialInv /\ SnapInv /\ GoneInv /\ ToolInv /\ DurableInv

-----------------------------------------------------------------------------
(* Sets of numbers and their ranks.                                        *)

\* A set of numbers that is not empty has a least element.
LEMMA LeastElement ==
    ASSUME NEW T \in SUBSET Nat, T # {}
    PROVE  \E x \in T : \A y \in T : x <= y
<1>1. PICK x \in T : \A y \in T : <<y, x>> \notin OpToRel(<, Nat)
  <2>1. IsWellFoundedOn(OpToRel(<, Nat), Nat)
    BY NatLessThanWellFounded
  <2>2. T \subseteq Nat
    OBVIOUS
  <2> QED
    BY <2>1, <2>2, WFMin
<1>2. ASSUME NEW y \in T
      PROVE  x <= y
  <2>1. ~(y < x)
    BY <1>1 DEF OpToRel
  <2> QED
    BY <2>1
<1> QED
  BY <1>2

\* How many elements of K come no later than i.
Upto(K, i) == {j \in K : j <= i}
Rank(K, i) == Cardinality(Upto(K, i))

LEMMA UptoFinite ==
    ASSUME NEW m \in Nat, NEW K \in SUBSET (1..m), NEW i \in Nat
    PROVE  /\ IsFiniteSet(K) /\ Cardinality(K) \in Nat
           /\ IsFiniteSet(Upto(K, i)) /\ Rank(K, i) \in Nat /\ Rank(K, i) <= Cardinality(K)
<1>1. IsFiniteSet(1..m)
  BY FS_Interval
<1>2. IsFiniteSet(K)
  BY <1>1, FS_Subset
<1>3. Upto(K, i) \in SUBSET K
  BY DEF Upto
<1>4. IsFiniteSet(Upto(K, i)) /\ Rank(K, i) <= Cardinality(K)
  BY <1>2, <1>3, FS_Subset DEF Rank
<1> QED
  BY <1>2, <1>4, FS_CardinalityType DEF Rank

LEMMA RankZero ==
    ASSUME NEW m \in Nat, NEW K \in SUBSET (1..m)
    PROVE  Rank(K, 0) = 0
<1>0. \A j \in K : j \in Nat /\ 1 <= j /\ j <= m
  OBVIOUS
<1>1. Upto(K, 0) = {}
  <2>1. \A j \in K : ~(j <= 0)
    BY <1>0
  <2> QED
    BY <2>1 DEF Upto
<1> QED
  BY <1>1, FS_EmptySet DEF Rank

LEMMA RankLast ==
    ASSUME NEW m \in Nat, NEW K \in SUBSET (1..m)
    PROVE  Rank(K, m) = Cardinality(K)
<1>0. \A j \in K : j \in Nat /\ 1 <= j /\ j <= m
  OBVIOUS
<1>1. Upto(K, m) = K
  BY <1>0 DEF Upto
<1> QED
  BY <1>1 DEF Rank

\* An element of K raises the rank by one, and nothing else does.
LEMMA RankStep ==
    ASSUME NEW m \in Nat, NEW K \in SUBSET (1..m), NEW i \in Nat \ {0}
    PROVE  Rank(K, i) = IF i \in K THEN Rank(K, i - 1) + 1 ELSE Rank(K, i - 1)
<1>0. \A j \in K : j \in Nat /\ 1 <= j /\ j <= m
  OBVIOUS
<1>1. IsFiniteSet(Upto(K, i - 1))
  BY UptoFinite, i - 1 \in Nat
<1>2. CASE i \in K
  <2>1. Upto(K, i) = Upto(K, i - 1) \cup {i}
    <3>1. \A j \in K : j <= i <=> j <= i - 1 \/ j = i
      BY <1>0
    <3>2. i <= i
      OBVIOUS
    <3> QED
      BY <3>1, <3>2, <1>2 DEF Upto
  <2>2. i \notin Upto(K, i - 1)
    BY DEF Upto
  <2> QED
    BY <1>1, <1>2, <2>1, <2>2, FS_AddElement DEF Rank
<1>3. CASE i \notin K
  <2>1. Upto(K, i) = Upto(K, i - 1)
    <3>1. \A j \in K : j <= i <=> j <= i - 1
      BY <1>0, <1>3
    <3> QED
      BY <3>1 DEF Upto
  <2> QED
    BY <1>3, <2>1 DEF Rank
<1> QED
  BY <1>2, <1>3

\* A later element of K has a higher rank.
LEMMA RankIncreases ==
    ASSUME NEW m \in Nat, NEW K \in SUBSET (1..m),
           NEW i \in Nat, NEW j \in K, i < j
    PROVE  Rank(K, i) < Rank(K, j)
<1>0. \A k \in K : k \in Nat /\ 1 <= k /\ k <= m
  OBVIOUS
<1>1. j \in Nat \ {0} /\ j - 1 \in Nat
  BY <1>0
<1>2. IsFiniteSet(Upto(K, j - 1)) /\ Rank(K, j - 1) \in Nat /\ Rank(K, i) \in Nat
  BY <1>1, UptoFinite
<1>3. Upto(K, i) \in SUBSET Upto(K, j - 1)
  <2>1. \A k \in K : k <= i => k <= j - 1
    BY <1>0, <1>1
  <2> QED
    BY <2>1 DEF Upto
<1>4. Rank(K, i) <= Rank(K, j - 1)
  BY <1>2, <1>3, FS_Subset DEF Rank
<1>5. Rank(K, j) = Rank(K, j - 1) + 1
  BY <1>1, RankStep
<1> QED
  BY <1>2, <1>4, <1>5

\* Every rank up to the number of elements is the rank of an element: the first
\* index that reaches it.
LEMMA RankReached ==
    ASSUME NEW m \in Nat, NEW K \in SUBSET (1..m), NEW n \in 1..Cardinality(K)
    PROVE  \E i \in K : Rank(K, i) = n
<1>1. IsFiniteSet(K) /\ Cardinality(K) \in Nat /\ n \in Nat \ {0}
  <2>1. IsFiniteSet(K) /\ Cardinality(K) \in Nat
    BY UptoFinite, 0 \in Nat
  <2> QED
    BY <2>1
<1> DEFINE T == {i \in Nat : Rank(K, i) >= n}
<1>2. m \in T
  BY <1>1, RankLast
<1>3. PICK i \in T : \A j \in T : i <= j
  <2>1. T \in SUBSET Nat /\ T # {}
    BY <1>2
  <2> QED
    BY <2>1, LeastElement
<1>4. i \in Nat \ {0}
  <2>1. Rank(K, 0) = 0
    BY RankZero
  <2>2. i # 0
    BY <2>1, <1>1
  <2> QED
    BY <2>2
<1>5. i - 1 \in Nat /\ i - 1 \notin T
  BY <1>3, <1>4
<1>6. Rank(K, i - 1) \in Nat /\ Rank(K, i) \in Nat
  BY <1>4, <1>5, UptoFinite
<1>7. Rank(K, i - 1) < n
  BY <1>1, <1>5, <1>6
<1>8. Rank(K, i) = IF i \in K THEN Rank(K, i - 1) + 1 ELSE Rank(K, i - 1)
  BY <1>4, RankStep
<1> QED
  BY <1>1, <1>6, <1>7, <1>8

\* The n-th index is the one element of rank n.
LEMMA NthRank ==
    ASSUME NEW m \in Nat, NEW K \in SUBSET (1..m), NEW n \in 1..Cardinality(K)
    PROVE  Nth(K, n) \in K /\ Rank(K, Nth(K, n)) = n
<1>1. PICK i \in K : Cardinality({j \in K : j <= i}) = n
  BY RankReached DEF Rank, Upto
<1>2. Nth(K, n) \in K /\ Cardinality({j \in K : j <= Nth(K, n)}) = n
  BY <1>1 DEF Nth
<1> QED
  BY <1>2 DEF Rank, Upto

LEMMA RankNth ==
    ASSUME NEW m \in Nat, NEW K \in SUBSET (1..m), NEW i \in K
    PROVE  Rank(K, i) \in 1..Cardinality(K) /\ Nth(K, Rank(K, i)) = i
<1>0. \A j \in K : j \in Nat /\ 1 <= j /\ j <= m
  OBVIOUS
<1>1. i \in Nat \ {0} /\ 0 \in Nat /\ 0 < i
  BY <1>0
<1>2. Rank(K, i) \in Nat /\ Rank(K, i) <= Cardinality(K) /\ Cardinality(K) \in Nat
  BY <1>1, UptoFinite
<1>3. Rank(K, 0) = 0
  BY RankZero
<1>4. Rank(K, 0) < Rank(K, i)
  BY <1>1, RankIncreases
<1>5. Rank(K, i) \in 1..Cardinality(K)
  BY <1>2, <1>3, <1>4
<1> DEFINE k == Nth(K, Rank(K, i))
<1>6. k \in K /\ Rank(K, k) = Rank(K, i)
  BY <1>5, NthRank
<1> HIDE DEF k
<1>7. k \in Nat
  BY <1>0, <1>6
<1>8. ~(k < i)
  <2>1. SUFFICES ASSUME k < i PROVE FALSE
    OBVIOUS
  <2>2. Rank(K, k) < Rank(K, i)
    BY <1>7, <2>1, RankIncreases
  <2> QED
    BY <1>2, <1>6, <2>2
<1>9. ~(i < k)
  <2>1. SUFFICES ASSUME i < k PROVE FALSE
    OBVIOUS
  <2>2. Rank(K, i) < Rank(K, k)
    BY <1>1, <1>6, <2>1, RankIncreases
  <2> QED
    BY <1>2, <1>6, <2>2
<1> QED
  BY <1>1, <1>5, <1>7, <1>8, <1>9 DEF k

-----------------------------------------------------------------------------
(* KeepAt.                                                                 *)

\* The rows KeepAt lists are rows at the indices kept.
LEMMA KeepAtRows ==
    ASSUME NEW S, NEW rows \in Seq(S), NEW K \in SUBSET (1..Len(rows))
    PROVE  /\ KeepAt(rows, K) \in Seq(S)
           /\ Len(KeepAt(rows, K)) = Cardinality(K) /\ Cardinality(K) \in Nat
           /\ \A n \in 1..Cardinality(K) :
                 Nth(K, n) \in K /\ KeepAt(rows, K)[n] = rows[Nth(K, n)]
<1>1. Len(rows) \in Nat /\ \A i \in 1..Len(rows) : rows[i] \in S
  OBVIOUS
<1>2. Cardinality(K) \in Nat
  BY <1>1, UptoFinite, 0 \in Nat
<1>3. \A n \in 1..Cardinality(K) : Nth(K, n) \in K
  BY <1>1, NthRank
<1>4. KeepAt(rows, K) \in [1..Cardinality(K) -> S]
  BY <1>1, <1>3 DEF KeepAt
<1>5. KeepAt(rows, K) \in Seq(S) /\ Len(KeepAt(rows, K)) = Cardinality(K)
  BY <1>2, <1>4
<1>6. \A n \in 1..Cardinality(K) : KeepAt(rows, K)[n] = rows[Nth(K, n)]
  BY DEF KeepAt
<1> QED
  BY <1>2, <1>3, <1>5, <1>6

LEMMA KeepAtTurns ==
    ASSUME NEW rows \in Seq(Rows), NEW K \in SUBSET (1..Len(rows))
    PROVE  TurnsIn(KeepAt(rows, K)) \subseteq TurnsIn(rows)
<1>1. /\ Len(KeepAt(rows, K)) = Cardinality(K)
      /\ \A n \in 1..Cardinality(K) :
            Nth(K, n) \in K /\ KeepAt(rows, K)[n] = rows[Nth(K, n)]
  BY KeepAtRows
<1>2. \A n \in 1..Cardinality(K) : Nth(K, n) \in 1..Len(rows)
  BY <1>1
<1> QED
  BY <1>1, <1>2 DEF TurnsIn

\* Keeping every row changes nothing.
LEMMA KeepAtAll ==
    ASSUME NEW S, NEW rows \in Seq(S)
    PROVE  KeepAt(rows, 1..Len(rows)) = rows
<1> DEFINE m == Len(rows)
           K == 1..m
<1>1. m \in Nat /\ K \in SUBSET (1..m)
  OBVIOUS
<1>2. Cardinality(K) = m
  <2>1. Cardinality(K) = IF 1 > m THEN 0 ELSE m - 1 + 1
    BY <1>1, FS_Interval, 1 \in Int, m \in Int
  <2> HIDE DEF K, m
  <2> QED
    BY <1>1, <2>1
<1>3. ASSUME NEW i \in K
      PROVE  Nth(K, i) = i
  <2>1. Upto(K, i) = 1..i
    BY DEF Upto
  <2>2. Rank(K, i) = i
    BY <2>1, FS_Interval DEF Rank
  <2> QED
    BY <1>1, <2>2, RankNth
<1>4. KeepAt(rows, K) = [n \in 1..m |-> rows[n]]
  BY <1>2, <1>3 DEF KeepAt
<1>5. rows = [n \in 1..m |-> rows[n]]
  OBVIOUS
<1> QED
  BY <1>4, <1>5

\* Where no tool row is kept without the row before it, which it follows, none is
\* left without its carrier.
LEMMA KeepAtCarried ==
    ASSUME NEW rows \in Seq(Rows), NEW K \in SUBSET (1..Len(rows)),
           \A i \in K : rows[i].role = "tool" => i - 1 \in K /\ Follows(rows[i - 1], rows[i])
    PROVE  Carried(KeepAt(rows, K))
<1> DEFINE kept == KeepAt(rows, K)
<1>1. /\ Len(rows) \in Nat
      /\ Len(kept) = Cardinality(K) /\ Cardinality(K) \in Nat
      /\ \A n \in 1..Cardinality(K) : Nth(K, n) \in K /\ kept[n] = rows[Nth(K, n)]
  BY KeepAtRows
<1> HIDE DEF kept
<1>2. ASSUME NEW n \in 1..Len(kept), kept[n].role = "tool"
      PROVE  n > 1 /\ Follows(kept[n - 1], kept[n])
  <2> DEFINE i == Nth(K, n)
  <2>1. i \in K /\ kept[n] = rows[i] /\ Rank(K, i) = n
    BY <1>1, NthRank
  <2> HIDE DEF i
  <2>2. i - 1 \in K /\ Follows(rows[i - 1], rows[i])
    BY <1>2, <2>1
  <2>3. i \in Nat \ {0} /\ i - 1 \in Nat
    <3>1. \A k \in K : k \in Nat /\ 1 <= k
      OBVIOUS
    <3> QED
      BY <2>1, <2>2, <3>1
  <2>4. n = Rank(K, i - 1) + 1
    BY <1>1, <2>1, <2>3, RankStep
  <2>5. Rank(K, i - 1) \in 1..Cardinality(K) /\ Nth(K, Rank(K, i - 1)) = i - 1
    BY <1>1, <2>2, RankNth
  <2>6. n - 1 \in 1..Cardinality(K) /\ Nth(K, n - 1) = i - 1 /\ n > 1
    BY <1>1, <2>4, <2>5
  <2>7. kept[n - 1] = rows[i - 1]
    BY <1>1, <2>6
  <2> QED
    BY <2>1, <2>2, <2>6, <2>7
<1> QED
  BY <1>2 DEF Carried, kept

-----------------------------------------------------------------------------
(* The row lists: what each operation returns.                             *)

\* What a list of rows may become: its turns are among those of rows.
FromRows(new, rows) == new \in Seq(Rows) /\ TurnsIn(new) \subseteq TurnsIn(rows)

\* A restart seeds rows of the stored turns, and no tool rows.
LEMMA SeededRows ==
    ASSUME NEW rows \in Seq(Rows)
    PROVE  /\ FromRows(Seeded(rows), rows)
           /\ \A i \in 1..Len(Seeded(rows)) : ~IsToolRow(Seeded(rows)[i])
           /\ Carried(Seeded(rows))
<1> DEFINE K == {i \in 1..Len(rows) : ~IsToolRow(rows[i])}
<1>1. K \in SUBSET (1..Len(rows))
  OBVIOUS
<1>2. Seeded(rows) = KeepAt(rows, K)
  BY DEF Seeded
<1>3. FromRows(Seeded(rows), rows)
  BY <1>1, <1>2, KeepAtRows, KeepAtTurns DEF FromRows
<1>4. \A i \in 1..Len(Seeded(rows)) : ~IsToolRow(Seeded(rows)[i])
  <2>1. /\ Len(KeepAt(rows, K)) = Cardinality(K)
        /\ \A n \in 1..Cardinality(K) :
              Nth(K, n) \in K /\ KeepAt(rows, K)[n] = rows[Nth(K, n)]
    BY <1>1, KeepAtRows
  <2> QED
    BY <1>2, <2>1
<1>5. Carried(Seeded(rows))
  BY <1>4 DEF Carried, IsToolRow
<1> QED
  BY <1>3, <1>4, <1>5

\* Seeding what was seeded changes nothing.
LEMMA SeededTwice ==
    ASSUME NEW rows \in Seq(Rows)
    PROVE  Seeded(Seeded(rows)) = Seeded(rows)
<1> DEFINE seeded == Seeded(rows)
<1>1. seeded \in Seq(Rows) /\ \A i \in 1..Len(seeded) : ~IsToolRow(seeded[i])
  BY SeededRows DEF FromRows
<1> HIDE DEF seeded
<1>2. {i \in 1..Len(seeded) : ~IsToolRow(seeded[i])} = 1..Len(seeded)
  BY <1>1
<1>3. Seeded(seeded) = KeepAt(seeded, 1..Len(seeded))
  BY <1>2 DEF Seeded
<1> QED
  BY <1>1, <1>3, KeepAtAll DEF seeded

\* trim_to_whole_turns cuts where a turn begins.
LEMMA TrimmedRows ==
    ASSUME NEW rows \in Seq(Rows), HistoryAssumption
    PROVE  /\ FromRows(TrimToWholeTurns(rows), rows)
           /\ Carried(rows) => Carried(TrimToWholeTurns(rows))
<1> DEFINE Cuts == {i \in 2..Len(rows) :
                       rows[i].role = "user" /\ Len(rows) - i + 1 <= MaxHistory}
           cut == CHOOSE i \in Cuts : \A j \in Cuts : i <= j
           tail == SubSeq(rows, cut, Len(rows))
<1>1. CASE Len(rows) <= MaxHistory
  BY <1>1 DEF TrimToWholeTurns, FromRows
<1>2. CASE ~(Len(rows) <= MaxHistory) /\ Cuts = {}
  <2>1. TrimToWholeTurns(rows) = <<>>
    BY <1>2 DEF TrimToWholeTurns
  <2>2. <<>> \in Seq(Rows) /\ Len(<<>>) = 0
    OBVIOUS
  <2> QED
    BY <2>1, <2>2 DEF FromRows, TurnsIn, Carried
<1>3. CASE ~(Len(rows) <= MaxHistory) /\ Cuts # {}
  <2>1. cut \in Cuts
    <3>1. Cuts \in SUBSET Nat
      OBVIOUS
    <3>2. \E i \in Cuts : \A j \in Cuts : i <= j
      BY <1>3, <3>1, LeastElement
    <3> QED
      BY <3>2
  <2>2. TrimToWholeTurns(rows) = tail
    BY <1>3 DEF TrimToWholeTurns
  <2>3. cut \in 2..Len(rows) /\ rows[cut].role = "user" /\ Len(rows) \in Nat
    BY <2>1
  <2> HIDE DEF cut, Cuts
  <2>4. /\ tail \in Seq(Rows) /\ Len(tail) = Len(rows) - cut + 1
        /\ \A i \in 1..Len(tail) : tail[i] = rows[cut + i - 1] /\ cut + i - 1 \in 1..Len(rows)
    BY <2>3
  <2> HIDE DEF tail
  <2>5. FromRows(tail, rows)
    BY <2>4 DEF FromRows, TurnsIn
  <2>6. ASSUME Carried(rows) PROVE Carried(tail)
    <3>1. ASSUME NEW i \in 1..Len(tail), tail[i].role = "tool"
          PROVE  i > 1 /\ Follows(tail[i - 1], tail[i])
      <4>1. i # 1
        BY <2>3, <2>4, <3>1
      <4>2. i - 1 \in 1..Len(tail) /\ i > 1
        BY <2>3, <2>4, <4>1
      <4>3. tail[i - 1] = rows[(cut + i - 1) - 1]
        BY <2>3, <2>4, <4>2
      <4>4. Follows(rows[(cut + i - 1) - 1], rows[cut + i - 1])
        BY <2>4, <2>6, <3>1 DEF Carried
      <4> QED
        BY <2>4, <4>2, <4>3, <4>4
    <3> QED
      BY <3>1 DEF Carried
  <2> QED
    BY <2>2, <2>5, <2>6
<1> QED
  BY <1>1, <1>2, <1>3

\* All but the first row of a list of rows that was cut out of a longer one.
CarriedInside(rows) ==
    \A i \in 2..Len(rows) : rows[i].role = "tool" => Follows(rows[i - 1], rows[i])

LEMMA SuffixRows ==
    ASSUME NEW rows \in Seq(Rows), NEW from \in 1..(Len(rows) + 1)
    PROVE  /\ FromRows(SubSeq(rows, from, Len(rows)), rows)
           /\ Carried(rows) => CarriedInside(SubSeq(rows, from, Len(rows)))
<1> DEFINE tail == SubSeq(rows, from, Len(rows))
<1>1. /\ from \in Nat \ {0} /\ Len(rows) \in Nat
      /\ tail \in Seq(Rows) /\ Len(tail) = Len(rows) - from + 1
      /\ \A i \in 1..Len(tail) : tail[i] = rows[from + i - 1] /\ from + i - 1 \in 1..Len(rows)
  OBVIOUS
<1> HIDE DEF tail
<1>2. FromRows(tail, rows)
  BY <1>1 DEF FromRows, TurnsIn
<1>3. ASSUME Carried(rows), NEW i \in 2..Len(tail), tail[i].role = "tool"
      PROVE  Follows(tail[i - 1], tail[i])
  <2>1. i \in 1..Len(tail) /\ i - 1 \in 1..Len(tail)
    BY <1>1
  <2>2. Follows(rows[(from + i - 1) - 1], rows[from + i - 1])
    BY <1>1, <1>3, <2>1 DEF Carried
  <2>3. tail[i - 1] = rows[(from + i - 1) - 1]
    BY <1>1, <2>1
  <2> QED
    BY <1>1, <2>1, <2>2, <2>3
<1> QED
  BY <1>2, <1>3 DEF CarriedInside, tail

\* normalize_cached_channel_turns keeps a tool row only with the rows from its
\* carrier on.
LEMMA NormalizedRows ==
    ASSUME NEW rows \in Seq(Rows)
    PROVE  /\ FromRows(Normalized(rows), rows)
           /\ CarriedInside(rows) => Carried(Normalized(rows))
<1> DEFINE Keeps(i) ==
              CASE rows[i].role = "user" -> TRUE
                [] rows[i].role = "tool" ->
                      \E j \in 1..(i - 1) :
                          /\ rows[j].role = "carrier"
                          /\ \A k \in (j + 1)..(i - 1) : rows[k].role = "tool"
                          /\ \E k \in 1..(j - 1) : rows[k].role = "user"
                [] OTHER -> \E k \in 1..(i - 1) : rows[k].role = "user"
           K == {i \in 1..Len(rows) : Keeps(i)}
<1>1. Normalized(rows) = KeepAt(rows, K) /\ K \in SUBSET (1..Len(rows))
  BY DEF Normalized
<1>2. FromRows(Normalized(rows), rows)
  BY <1>1, KeepAtRows, KeepAtTurns DEF FromRows
<1>3. ASSUME CarriedInside(rows), NEW i \in K, rows[i].role = "tool"
      PROVE  i - 1 \in K /\ Follows(rows[i - 1], rows[i])
  <2>1. i \in 1..Len(rows) /\ Keeps(i) /\ Len(rows) \in Nat
    OBVIOUS
  <2>2. PICK j \in 1..(i - 1) :
            /\ rows[j].role = "carrier"
            /\ \A k \in (j + 1)..(i - 1) : rows[k].role = "tool"
            /\ \E k \in 1..(j - 1) : rows[k].role = "user"
    BY <1>3, <2>1
  <2>3. i - 1 \in 1..Len(rows) /\ i \in 2..Len(rows)
    BY <2>1, <2>2
  <2>4. Follows(rows[i - 1], rows[i])
    BY <1>3, <2>3 DEF CarriedInside
  <2>5. CASE j = i - 1
    <3>1. \E k \in 1..((i - 1) - 1) : rows[k].role = "user"
      BY <2>2, <2>5
    <3>2. Keeps(i - 1)
      BY <2>2, <2>5, <3>1
    <3> QED
      BY <2>3, <2>4, <3>2
  <2>6. CASE j # i - 1
    <3>1. j \in 1..((i - 1) - 1) /\ i - 1 \in (j + 1)..(i - 1)
      BY <2>1, <2>2, <2>6
    <3>2. rows[i - 1].role = "tool"
      BY <2>2, <3>1
    <3>3. \A k \in (j + 1)..((i - 1) - 1) : rows[k].role = "tool"
      BY <2>1, <2>2
    <3>4. Keeps(i - 1)
      BY <2>2, <3>1, <3>2, <3>3
    <3> QED
      BY <2>3, <2>4, <3>4
  <2> QED
    BY <2>5, <2>6
<1> HIDE DEF K
<1> QED
  BY <1>1, <1>2, <1>3, KeepAtCarried

\* compact_sender_history drops the results of a turn with their carrier, and all
\* the results of a carrier it shortens to prose.
LEMMA CompactedRows ==
    ASSUME NEW rows \in Seq(Rows), NEW overlong, NEW cut, HistoryAssumption
    PROVE  /\ FromRows(Compacted(rows, overlong, cut), rows)
           /\ Carried(rows) => Carried(Compacted(rows, overlong, cut))
<1> DEFINE from == IF Len(rows) > CompactKeep THEN Len(rows) - CompactKeep + 1 ELSE 1
           Dropped(r) == \/ r.turn \in overlong /\ IsToolRow(r)
                         \/ r.turn \in cut /\ r.role = "tool"
           Shortened(r) == IF r.turn \in cut /\ r.role = "carrier"
                           THEN Row(r.turn, "assistant") ELSE r
           tail == SubSeq(rows, from, Len(rows))
           normal == Normalized(tail)
           K == {i \in 1..Len(normal) : ~Dropped(normal[i])}
           kept == KeepAt(normal, K)
           result == [i \in 1..Len(kept) |-> Shortened(kept[i])]
<1>1. Compacted(rows, overlong, cut) = result
  BY DEF Compacted
<1>2. FromRows(tail, rows) /\ (Carried(rows) => CarriedInside(tail))
  <2>1. from \in 1..(Len(rows) + 1)
    BY DEF HistoryAssumption
  <2> HIDE DEF from
  <2> QED
    BY <2>1, SuffixRows
<1> HIDE DEF tail
<1>3. FromRows(normal, tail) /\ (CarriedInside(tail) => Carried(normal))
  BY <1>2, NormalizedRows DEF FromRows
<1>4. normal \in Seq(Rows) /\ TurnsIn(normal) \subseteq TurnsIn(rows)
      /\ (Carried(rows) => Carried(normal))
  BY <1>2, <1>3 DEF FromRows
<1> HIDE DEF normal
<1>5. K \in SUBSET (1..Len(normal))
  OBVIOUS
<1>6. /\ kept \in Seq(Rows) /\ TurnsIn(kept) \subseteq TurnsIn(rows)
      /\ Len(kept) = Cardinality(K) /\ Cardinality(K) \in Nat
      /\ \A n \in 1..Len(kept) : Nth(K, n) \in K /\ kept[n] = normal[Nth(K, n)]
  BY <1>4, <1>5, KeepAtRows, KeepAtTurns
<1>7. \A n \in 1..Len(kept) : kept[n] \in Rows /\ ~Dropped(kept[n])
  BY <1>6
<1>8. ASSUME Carried(rows)
      PROVE  Carried(kept)
  <2>1. ASSUME NEW i \in K, normal[i].role = "tool"
        PROVE  i - 1 \in K /\ Follows(normal[i - 1], normal[i])
    <3>1. i \in 1..Len(normal) /\ ~Dropped(normal[i]) /\ Len(normal) \in Nat
      BY <1>4
    <3>2. i > 1 /\ Follows(normal[i - 1], normal[i])
      BY <1>4, <1>8, <2>1, <3>1 DEF Carried
    <3>3. normal[i].turn \notin overlong /\ normal[i].turn \notin cut
      BY <2>1, <3>1 DEF IsToolRow
    <3>4. ~Dropped(normal[i - 1])
      BY <3>2, <3>3 DEF Follows
    <3>5. i - 1 \in 1..Len(normal)
      BY <3>1, <3>2
    <3> QED
      BY <3>2, <3>4, <3>5
  <2> HIDE DEF K
  <2> QED
    BY <1>4, <1>5, <2>1, KeepAtCarried
<1> HIDE DEF kept, K
<1>9. /\ Len(kept) \in Nat
      /\ \A n \in 1..Len(kept) : result[n] \in Rows /\ result[n].turn = kept[n].turn
  BY <1>6, <1>7 DEF Rows, Row, Roles
<1>10. result \in Seq(Rows) /\ Len(result) = Len(kept)
  BY <1>9
<1>11. FromRows(result, rows)
  BY <1>6, <1>9, <1>10 DEF FromRows, TurnsIn
<1>12. ASSUME Carried(rows)
       PROVE  Carried(result)
  <2>1. ASSUME NEW n \in 1..Len(result), result[n].role = "tool"
        PROVE  n > 1 /\ Follows(result[n - 1], result[n])
    <3>1. n \in 1..Len(kept) /\ kept[n].role = "tool" /\ result[n] = kept[n]
      BY <1>10, <2>1 DEF Row
    <3>2. n > 1 /\ Follows(kept[n - 1], kept[n])
      BY <1>8, <1>12, <3>1 DEF Carried
    <3>3. kept[n].turn \notin cut
      BY <1>7, <3>1
    <3>4. n - 1 \in 1..Len(kept) /\ kept[n - 1].turn \notin cut
      BY <1>9, <3>1, <3>2, <3>3 DEF Follows
    <3>5. result[n - 1] = kept[n - 1]
      BY <3>4
    <3> QED
      BY <3>1, <3>2, <3>5
  <2> QED
    BY <2>1 DEF Carried
<1> QED
  BY <1>1, <1>11, <1>12

\* What a turn appends is its own, and its tool row comes after its carrier.
LEMMA AppendedRows ==
    ASSUME NEW rows \in Seq(Rows), NEW t \in Turns, HistoryAssumption,
           NEW new \in {<<Row(t, "user")>>, <<Row(t, "assistant")>>, EndRows(t)}
    PROVE  /\ TrimToWholeTurns(rows \o new) \in Seq(Rows)
           /\ TurnsIn(TrimToWholeTurns(rows \o new)) \subseteq TurnsIn(rows) \cup {t}
           /\ Carried(rows) => Carried(TrimToWholeTurns(rows \o new))
<1> DEFINE all == rows \o new
<1>1. \A role \in Roles : Row(t, role) \in Rows /\ Row(t, role).turn = t /\ Row(t, role).role = role
  BY DEF Row, Rows
<1>2. /\ new \in Seq(Rows) /\ Len(new) \in {1, 3}
      /\ \A i \in 1..Len(new) : new[i].turn = t
      /\ new[1].role # "tool"
      /\ Len(new) = 3 => new[1].role = "carrier" /\ new[3].role = "assistant"
  <2>1. CASE new = <<Row(t, "user")>>
    BY <1>1, <2>1 DEF Roles
  <2>2. CASE new = <<Row(t, "assistant")>>
    BY <1>1, <2>2 DEF Roles
  <2>3. CASE new = <<Row(t, "carrier"), Row(t, "tool"), Row(t, "assistant")>>
    BY <1>1, <2>3 DEF Roles
  <2> QED
    BY <2>1, <2>2, <2>3 DEF EndRows
<1>3. /\ all \in Seq(Rows) /\ Len(all) = Len(rows) + Len(new)
      /\ Len(rows) \in Nat /\ Len(new) \in Nat
      /\ \A i \in 1..Len(rows) : all[i] = rows[i]
      /\ \A i \in 1..Len(new) : all[Len(rows) + i] = new[i]
  BY <1>2
<1> HIDE DEF all
<1>4. ASSUME NEW i \in 1..Len(all), i \notin 1..Len(rows)
      PROVE  i - Len(rows) \in 1..Len(new) /\ all[i] = new[i - Len(rows)]
  <2>1. i - Len(rows) \in 1..Len(new) /\ Len(rows) + (i - Len(rows)) = i
    BY <1>3, <1>4
  <2> QED
    BY <1>3, <2>1
<1>5. TurnsIn(all) \subseteq TurnsIn(rows) \cup {t}
  <2>1. ASSUME NEW i \in 1..Len(all)
        PROVE  all[i].turn \in TurnsIn(rows) \cup {t}
    <3>1. CASE i \in 1..Len(rows)
      BY <1>3, <3>1 DEF TurnsIn
    <3>2. CASE i \notin 1..Len(rows)
      BY <1>2, <1>4, <3>2
    <3> QED
      BY <3>1, <3>2
  <2> QED
    BY <2>1 DEF TurnsIn
<1>6. ASSUME Carried(rows)
      PROVE  Carried(all)
  <2>1. ASSUME NEW i \in 1..Len(all), all[i].role = "tool"
        PROVE  i > 1 /\ Follows(all[i - 1], all[i])
    <3>1. CASE i \in 1..Len(rows)
      <4>1. i > 1 /\ Follows(rows[i - 1], rows[i])
        BY <1>3, <1>6, <2>1, <3>1 DEF Carried
      <4>2. i - 1 \in 1..Len(rows)
        BY <1>3, <3>1, <4>1
      <4> QED
        BY <1>3, <3>1, <4>1, <4>2
    <3>2. CASE i \notin 1..Len(rows)
      <4> DEFINE n == i - Len(rows)
      <4>1. n \in 1..Len(new) /\ all[i] = new[n] /\ new[n].role = "tool" /\ n \in Nat
        BY <1>3, <1>4, <2>1, <3>2
      <4>2. n = 2 /\ Len(new) = 3
        BY <1>2, <1>3, <4>1
      <4>3. i > 1 /\ i - 1 = Len(rows) + 1
        <5>1. i = Len(rows) + 2
          BY <1>3, <2>1, <4>2
        <5> QED
          BY <1>3, <5>1
      <4>4. all[i - 1] = new[1]
        BY <1>3, <4>2, <4>3
      <4>5. new[1].turn = t /\ new[n].turn = t /\ new[1].role = "carrier"
        BY <1>2, <4>1, <4>2
      <4> QED
        BY <4>1, <4>3, <4>4, <4>5 DEF Follows
    <3> QED
      BY <3>1, <3>2
  <2> QED
    BY <2>1 DEF Carried
<1>7. /\ FromRows(TrimToWholeTurns(all), all)
      /\ Carried(all) => Carried(TrimToWholeTurns(all))
  BY <1>3, TrimmedRows
<1> QED
  BY <1>5, <1>6, <1>7 DEF FromRows, all

-----------------------------------------------------------------------------
(* The steps that rewrite the map.                                         *)

\* A step of a turn appends, compacts, saves, clears or only moves on.
AppendStep(t) ==
    \E new \in {<<Row(t, "user")>>, <<Row(t, "assistant")>>, EndRows(t)} : AppendToRam(t, new)

LEMMA RecordEndAppends ==
    ASSUME NEW t \in Turns, RecordEnd(t)
    PROVE  /\ AppendStep(t) /\ pc[t] \in {"model", "compacted"} /\ Goto(t, "savingEnd")
           /\ UNCHANGED <<store, counts, runtime, handler, del, restarts, history,
                          overlapped, apart>>
BY DEF RecordEnd, AppendStep

LEMMA RecordUserAppends ==
    ASSUME NEW t \in Turns, RecordUser(t)
    PROVE  /\ AppendStep(t) /\ pc[t] = "counted" /\ Goto(t, "savingUser")
           /\ UNCHANGED <<store, counts, runtime, handler, del, restarts, history,
                          overlapped, apart>>
BY DEF RecordUser, AppendStep

\* What an append or a compaction leaves in the map, which it snapshots.
Rewrites(t, more) ==
    /\ ram' \in Seq(Rows) /\ TurnsIn(ram') \subseteq TurnsIn(ram) \cup more
    /\ Carried(ram) => Carried(ram')
    /\ snap' = [snap EXCEPT ![t] = ram']

LEMMA AppendRewrites ==
    ASSUME NEW t \in Turns, ram \in Seq(Rows), HistoryAssumption, AppendStep(t)
    PROVE  Rewrites(t, {t})
<1>1. PICK new \in {<<Row(t, "user")>>, <<Row(t, "assistant")>>, EndRows(t)} : AppendToRam(t, new)
  BY DEF AppendStep
<1>2. ram' = TrimToWholeTurns(ram \o new) /\ snap' = [snap EXCEPT ![t] = ram']
  BY <1>1 DEF AppendToRam
<1> QED
  BY <1>2, AppendedRows DEF Rewrites

LEMMA CompactRewrites ==
    ASSUME NEW t \in Turns, ram \in Seq(Rows), HistoryAssumption, CompactHistory(t)
    PROVE  Rewrites(t, {})
<1>1. PICK overlong \in SUBSET ToolTurns, cut \in SUBSET ToolTurns :
          /\ ram' = Compacted(ram, overlong, cut)
          /\ snap' = [snap EXCEPT ![t] = Compacted(ram, overlong, cut)]
  BY DEF CompactHistory
<1> QED
  BY <1>1, CompactedRows DEF FromRows, Rewrites

-----------------------------------------------------------------------------
(* The turns in flight.                                                    *)

\* A step of a turn other than its first and its last.
Inside(t) ==
    \/ RecordUser(t) \/ SaveUser(t) \/ SaveCompacted(t) \/ RecordEnd(t) \/ SaveEnd(t)
    \/ ClearRam(t) \/ ClearStore(t) \/ CompactHistory(t) \/ LeaveOpen(t)

\* What serves the DELETE, and the life of the runtime but for a crash.
Aside ==
    \/ AskDrop \/ DropConversation \/ DropHalfFails \/ HandlerExits \/ GatewayDeletes
    \/ Shutdown \/ RuntimeEnds \/ Restart

LEMMA NextSteps ==
    ASSUME ChannelHistoryNext
    PROVE  \/ \E t \in Turns : StartTurn(t) \/ EndTurn(t) \/ Inside(t)
           \/ Aside \/ Crash
BY DEF ChannelHistoryNext, TurnStep, Inside, Aside

\* A step inside a turn leaves it in flight, and the other turns where they are.
LEMMA InsideMoves ==
    ASSUME TypeOK, NEW t \in Turns, Inside(t)
    PROVE  /\ InFlight(t) /\ pc[t] # "ending"
           /\ \E phase \in Phases \ {"idle", "over"} : Goto(t, phase)
           /\ UNCHANGED <<counts, runtime, handler, del, restarts, deletes, overlapped>>
BY DEF Inside, RecordUser, SaveUser, SaveCompacted, RecordEnd, SaveEnd, ClearRam, ClearStore,
       CompactHistory, LeaveOpen, InFlight, Phases, history, deletes

LEMMA AsideLeavesTurns ==
    ASSUME Aside
    PROVE  UNCHANGED <<pc, snap, counts, overlapped>>
BY DEF Aside, AskDrop, DropConversation, DropHalfFails, HandlerExits, GatewayDeletes,
       Shutdown, RuntimeEnds, Restart

LEMMA CountInit == ChannelHistoryInit => CountInv
<1> SUFFICES ASSUME ChannelHistoryInit
             PROVE  CountInv
  OBVIOUS
<1>1. Busy = {}
  BY DEF ChannelHistoryInit, Busy, InFlight
<1> QED
  BY <1>1, FS_EmptySet DEF ChannelHistoryInit, CountInv

LEMMA CountStep ==
    ASSUME TypeOK, CountInv, [ChannelHistoryNext]_vars
    PROVE  CountInv'
<1>1. ASSUME NEW t \in Turns, StartTurn(t)
      PROVE  CountInv'
  <2>1. t \notin Busy /\ Busy' = Busy \cup {t}
    BY <1>1 DEF TypeOK, StartTurn, Goto, Busy, InFlight
  <2>2. IsFiniteSet(Busy \cup {t}) /\ Cardinality(Busy \cup {t}) = Cardinality(Busy) + 1
    BY <2>1, FS_AddElement DEF CountInv
  <2> QED
    BY <1>1, <2>1, <2>2 DEF CountInv, StartTurn
<1>2. ASSUME NEW t \in Turns, EndTurn(t)
      PROVE  CountInv'
  <2>1. t \in Busy /\ Busy' = Busy \ {t}
    BY <1>2 DEF TypeOK, EndTurn, Goto, Busy, InFlight
  <2>2. IsFiniteSet(Busy \ {t}) /\ Cardinality(Busy \ {t}) = Cardinality(Busy) - 1
    BY <2>1, FS_RemoveElement DEF CountInv
  <2>3. Cardinality(Busy) # 0
    BY <2>1, FS_EmptySet DEF CountInv
  <2> QED
    BY <1>2, <2>1, <2>2, <2>3 DEF CountInv, EndTurn
<1>3. ASSUME NEW t \in Turns, Inside(t)
      PROVE  CountInv'
  <2>1. PICK phase \in Phases \ {"idle", "over"} : Goto(t, phase)
    BY <1>3, InsideMoves
  <2>2. InFlight(t) /\ UNCHANGED <<counts, runtime>>
    BY <1>3, InsideMoves
  <2>3. Busy' = Busy
    BY <2>1, <2>2 DEF TypeOK, Goto, Busy, InFlight
  <2> QED
    BY <2>2, <2>3 DEF CountInv
<1>4. CASE Aside
  <2>1. Busy' = Busy /\ counts' = counts
    BY <1>4, AsideLeavesTurns DEF Busy, InFlight
  <2>2. runtime' = "down" => runtime = "down" \/ counts = 0
    BY <1>4 DEF Aside, AskDrop, DropConversation, DropHalfFails, HandlerExits, GatewayDeletes,
                Shutdown, RuntimeEnds, Restart
  <2> QED
    BY <2>1, <2>2 DEF CountInv
<1>5. CASE Crash
  <2>1. Busy' = {} /\ counts' = 0
    BY <1>5 DEF Crash, Busy, InFlight, TypeOK
  <2> QED
    BY <2>1, FS_EmptySet DEF CountInv
<1>6. CASE UNCHANGED vars
  BY <1>6 DEF vars, CountInv, Busy, InFlight
<1> QED
  BY <1>1, <1>2, <1>3, <1>4, <1>5, <1>6, NextSteps

-----------------------------------------------------------------------------
(* Types.                                                                  *)

LEMMA TypeInit == ChannelHistoryInit /\ HistoryAssumption => TypeOK
<1> SUFFICES ASSUME ChannelHistoryInit, HistoryAssumption
             PROVE  TypeOK
  OBVIOUS
<1>1. <<>> \in Seq(Rows)
  OBVIOUS
<1>2. 0 \in 0..MaxRestarts
  BY DEF HistoryAssumption
<1>3. snap \in [Turns -> Seq(Rows)] /\ pc \in [Turns -> Phases]
  BY <1>1 DEF ChannelHistoryInit, Phases
<1> QED
  BY <1>1, <1>2, <1>3 DEF ChannelHistoryInit, TypeOK

\* The three steps inside a turn that are several actions each: the map rewritten
\* under its lock, the snapshot saved after it, and a turn that is left open.
Rewriting(t) ==
    /\ pc[t] \in {"counted", "model", "compacted"} /\ Rewrites(t, {t})
    /\ \E phase \in Saving : Goto(t, phase)
    /\ UNCHANGED <<store, forgotten, apart>>

Saves(t) ==
    /\ pc[t] \in Saving /\ Persist(t)
    /\ \E phase \in {"model", "compacted", "ending"} : Goto(t, phase)
    /\ UNCHANGED <<ram, forgotten>>

LEMMA InsideShape ==
    ASSUME TypeOK, HistoryAssumption, NEW t \in Turns, Inside(t)
    PROVE  Rewriting(t) \/ Saves(t) \/ ClearRam(t) \/ ClearStore(t) \/ LeaveOpen(t)
<1>1. ram \in Seq(Rows)
  BY DEF TypeOK
<1>2. CASE RecordUser(t) \/ RecordEnd(t)
  <2>1. Rewrites(t, {t})
    BY <1>1, <1>2, RecordUserAppends, RecordEndAppends, AppendRewrites
  <2> QED
    BY <1>2, <2>1, RecordUserAppends, RecordEndAppends DEF Rewriting, Saving, history
<1>3. CASE CompactHistory(t)
  <2>1. Rewrites(t, {})
    BY <1>1, <1>3, CompactRewrites
  <2>2. Rewrites(t, {t})
    BY <2>1 DEF Rewrites
  <2> QED
    BY <1>3, <2>2 DEF CompactHistory, Rewriting, Saving, history
<1>4. CASE SaveUser(t) \/ SaveCompacted(t) \/ SaveEnd(t)
  BY <1>4 DEF SaveUser, SaveCompacted, SaveEnd, Saves, Saving, history
<1> QED
  BY <1>2, <1>3, <1>4 DEF Inside

LEMMA TypeStep ==
    ASSUME TypeOK, CountInv', HistoryAssumption, [ChannelHistoryNext]_vars
    PROVE  TypeOK'
<1>1. <<>> \in Seq(Rows)
  OBVIOUS
<1>2. counts' \in Nat
  BY FS_CardinalityType DEF CountInv
<1>3. ASSUME NEW t \in Turns, StartTurn(t)
      PROVE  TypeOK'
  BY <1>2, <1>3 DEF TypeOK, StartTurn, Goto, Phases, history
<1>4. ASSUME NEW t \in Turns, EndTurn(t)
      PROVE  TypeOK'
  BY <1>2, <1>4 DEF TypeOK, EndTurn, Goto, Phases, history
<1>5. ASSUME NEW t \in Turns, Inside(t)
      PROVE  TypeOK'
  <2>1. PICK phase \in Phases : Goto(t, phase)
    BY <1>5, InsideMoves
  <2>2. UNCHANGED <<counts, runtime, handler, del, restarts, deletes, overlapped>>
    BY <1>5, InsideMoves
  <2>3. /\ ram' \in Seq(Rows) /\ store' \in Seq(Rows) /\ snap' \in [Turns -> Seq(Rows)]
        /\ forgotten' \in SUBSET Turns /\ apart' \in BOOLEAN
    <3>1. ram \in Seq(Rows) /\ store \in Seq(Rows) /\ snap \in [Turns -> Seq(Rows)]
          /\ forgotten \in SUBSET Turns /\ apart \in BOOLEAN /\ overlapped \in BOOLEAN
      BY DEF TypeOK
    <3>2. CASE Rewriting(t)
      BY <3>1, <3>2 DEF Rewriting, Rewrites
    <3>3. CASE Saves(t)
      BY <1>1, <3>1, <3>3 DEF Saves, Persist, Write
    <3>4. CASE ClearRam(t) \/ ClearStore(t) \/ LeaveOpen(t)
      BY <1>1, <3>1, <3>4 DEF ClearRam, ClearStore, Write, Begun, LeaveOpen, history
    <3> QED
      BY <1>5, <3>2, <3>3, <3>4, InsideShape
  <2> QED
    BY <2>1, <2>2, <2>3 DEF TypeOK, Goto, deletes
<1>6. CASE Crash
  BY <1>1, <1>6 DEF TypeOK, Crash, Phases, history
<1>7. CASE Aside
  <2>1. Seeded(store) \in Seq(Rows)
    BY SeededRows DEF TypeOK, FromRows
  <2>2. {t \in Turns : pc[t] # "idle"} \in SUBSET Turns
    OBVIOUS
  <2>3. ASSUME Restart
        PROVE  TypeOK'
    <3>1. restarts' \in 0..MaxRestarts
      BY <2>3 DEF TypeOK, Restart, HistoryAssumption
    <3> QED
      BY <2>1, <2>3, <3>1 DEF TypeOK, Restart, history
  <2>4. ASSUME DropConversation \/ GatewayDeletes
        PROVE  TypeOK'
    BY <1>1, <2>2, <2>4 DEF TypeOK, DropConversation, GatewayDeletes, Erase, Begun, history, deletes
  <2>5. ASSUME AskDrop \/ DropHalfFails \/ HandlerExits \/ Shutdown \/ RuntimeEnds
        PROVE  TypeOK'
    BY <1>1, <2>5 DEF TypeOK, AskDrop, DropHalfFails, HandlerExits, Shutdown, RuntimeEnds, history
  <2> QED
    BY <1>7, <2>3, <2>4, <2>5 DEF Aside
<1>8. CASE UNCHANGED vars
  BY <1>8 DEF TypeOK, vars
<1> QED
  BY <1>3, <1>4, <1>5, <1>6, <1>7, <1>8, NextSteps

-----------------------------------------------------------------------------
(* Turns one after the other, and the snapshots they hold.                 *)

LEMMA SerialStep ==
    ASSUME TypeOK, CountInv, SerialInv, [ChannelHistoryNext]_vars
    PROVE  SerialInv'
<1>1. ASSUME NEW t \in Turns, StartTurn(t)
      PROVE  SerialInv'
  <2>1. CASE counts = 0
    <3>1. Busy = {}
      BY <2>1, FS_EmptySet DEF CountInv
    <3>2. Busy' \subseteq {t}
      BY <1>1, <3>1 DEF TypeOK, StartTurn, Goto, Busy, InFlight
    <3> QED
      BY <3>2 DEF SerialInv
  <2>2. CASE counts # 0
    <3>1. counts > 0
      BY <2>2 DEF TypeOK
    <3>2. overlapped'
      BY <1>1, <3>1, Zenon DEF StartTurn
    <3> QED
      BY <3>2 DEF SerialInv
  <2> QED
    BY <2>1, <2>2
<1>2. ASSUME Busy' \subseteq Busy, overlapped' = overlapped
      PROVE  SerialInv'
  BY <1>2 DEF SerialInv
<1>3. ASSUME NEW t \in Turns, EndTurn(t)
      PROVE  Busy' \subseteq Busy /\ overlapped' = overlapped
  BY <1>3 DEF TypeOK, EndTurn, Goto, Busy, InFlight
<1>4. ASSUME NEW t \in Turns, Inside(t)
      PROVE  Busy' \subseteq Busy /\ overlapped' = overlapped
  BY <1>4, InsideMoves DEF TypeOK, Goto, Busy, InFlight
<1>5. ASSUME Aside \/ UNCHANGED vars
      PROVE  Busy' \subseteq Busy /\ overlapped' = overlapped
  BY <1>5, AsideLeavesTurns DEF Busy, InFlight, vars
<1>6. ASSUME Crash
      PROVE  Busy' \subseteq Busy /\ overlapped' = overlapped
  BY <1>6 DEF Crash, Busy, InFlight
<1> QED
  BY <1>1, <1>2, <1>3, <1>4, <1>5, <1>6, NextSteps

LEMMA SnapStep ==
    ASSUME TypeOK, HistoryAssumption, SnapInv, [ChannelHistoryNext]_vars
    PROVE  SnapInv'
<1>1. ASSUME NEW t \in Turns, StartTurn(t) \/ EndTurn(t)
      PROVE  SnapInv'
  BY <1>1 DEF TypeOK, SnapInv, StartTurn, EndTurn, Goto, Saving
<1>2. ASSUME NEW t \in Turns, Rewriting(t)
      PROVE  SnapInv'
  BY <1>2 DEF TypeOK, SnapInv, Rewriting, Rewrites, Goto, Saving
<1>3. ASSUME NEW t \in Turns, Saves(t)
      PROVE  SnapInv'
  BY <1>3 DEF TypeOK, SnapInv, Saves, Persist, Write, Goto, Saving
<1>4. ASSUME NEW t \in Turns, ClearRam(t) \/ ClearStore(t) \/ LeaveOpen(t)
      PROVE  SnapInv'
  BY <1>4 DEF TypeOK, SnapInv, ClearRam, ClearStore, Write, LeaveOpen, Goto, Saving
<1>5. CASE Aside \/ UNCHANGED vars
  BY <1>5, AsideLeavesTurns DEF SnapInv, vars
<1>6. CASE Crash
  BY <1>6 DEF SnapInv, Crash
<1> QED
  BY <1>1, <1>2, <1>3, <1>4, <1>5, <1>6, NextSteps, InsideShape

-----------------------------------------------------------------------------
(* Tool rows.                                                              *)

LEMMA EmptyRows == <<>> \in Seq(Rows) /\ TurnsIn(<<>>) = {} /\ Carried(<<>>)
BY DEF TurnsIn, Carried

LEMMA ToolStep ==
    ASSUME TypeOK, HistoryAssumption, ToolInv, [ChannelHistoryNext]_vars
    PROVE  ToolInv'
<1>1. ASSUME ram' = ram \/ ram' = <<>>
      PROVE  ToolInv'
  BY <1>1, EmptyRows DEF ToolInv
<1>2. ASSUME NEW t \in Turns, StartTurn(t) \/ EndTurn(t)
      PROVE  ToolInv'
  BY <1>1, <1>2 DEF StartTurn, EndTurn
<1>3. ASSUME NEW t \in Turns, Rewriting(t)
      PROVE  ToolInv'
  BY <1>3 DEF ToolInv, Rewriting, Rewrites
<1>4. ASSUME NEW t \in Turns, Saves(t) \/ ClearRam(t) \/ ClearStore(t) \/ LeaveOpen(t)
      PROVE  ToolInv'
  BY <1>1, <1>4 DEF Saves, ClearRam, ClearStore, LeaveOpen
<1>5. CASE Restart
  <2>1. Carried(Seeded(store))
    BY SeededRows DEF TypeOK
  <2> QED
    BY <1>5, <2>1 DEF Restart, ToolInv
<1>6. CASE AskDrop \/ DropConversation \/ DropHalfFails \/ HandlerExits \/ GatewayDeletes
  BY <1>1, <1>6 DEF AskDrop, DropConversation, DropHalfFails, HandlerExits, GatewayDeletes
<1>7. CASE Shutdown \/ RuntimeEnds \/ Crash \/ UNCHANGED vars
  BY <1>1, <1>7 DEF Shutdown, RuntimeEnds, Crash, vars
<1> QED
  BY <1>2, <1>3, <1>4, <1>5, <1>6, <1>7, NextSteps, InsideShape DEF Aside

-----------------------------------------------------------------------------
(* A DELETE the runtime answered.                                          *)

\* A turn that goes on is not an erased one, and what it writes are its own rows and
\* rows of copies that are clean.
LEMMA GoneStep ==
    ASSUME TypeOK, HistoryAssumption, CountInv, SerialInv, SnapInv, GoneInv, DurableInv,
           [ChannelHistoryNext]_vars
    PROVE  GoneInv'
<1> DEFINE Clean(rows) == TurnsIn(rows) \cap Gone = {}
\* No more turns are gone, and what is written is clean.
<1>1. ASSUME Gone' = Gone, erasedBy' # "nobody" => del' = "deleted",
             \A t \in Gone : pc'[t] \in {"ending", "over"},
             Clean(ram'), Clean(store'), \A t \in Turns : Clean(snap'[t])
      PROVE  GoneInv'
  BY <1>1 DEF GoneInv
\* More turns are gone, and nothing is left.
<1>2. ASSUME erasedBy' # "nobody" => del' = "deleted",
             \A t \in Gone' : pc'[t] \in {"ending", "over"},
             ram' = <<>>, store' = <<>>, \A t \in Turns : snap'[t] = <<>>
      PROVE  GoneInv'
  <2>1. TurnsIn(ram') = {} /\ TurnsIn(store') = {} /\ \A t \in Turns : TurnsIn(snap'[t]) = {}
    BY <1>2, EmptyRows
  <2> QED
    BY <1>2, <2>1 DEF GoneInv
<1>3. /\ \A t \in Gone : t \in Turns /\ pc[t] \in {"ending", "over"}
      /\ Clean(ram) /\ Clean(store) /\ Clean(<<>>) /\ \A t \in Turns : Clean(snap[t])
      /\ erasedBy # "nobody" => del = "deleted"
  BY EmptyRows DEF GoneInv, Gone, TypeOK
<1>4. ASSUME UNCHANGED history
      PROVE  Gone' = Gone /\ erasedBy' = erasedBy
  BY <1>4 DEF Gone, history
<1>5. ASSUME NEW t \in Turns, StartTurn(t) \/ EndTurn(t)
      PROVE  GoneInv'
  <2>1. \A u \in Gone : pc'[u] \in {"ending", "over"}
    BY <1>3, <1>5 DEF TypeOK, StartTurn, EndTurn, Goto
  <2>2. UNCHANGED <<del, history, ram, store, snap>>
    BY <1>5 DEF StartTurn, EndTurn
  <2> HIDE DEF Clean
  <2> QED
    BY <1>1, <1>3, <1>4, <2>1, <2>2
<1>6. ASSUME NEW t \in Turns, Inside(t), UNCHANGED forgotten
      PROVE  GoneInv'
  <2>1. t \notin Gone
    BY <1>3, <1>6, InsideMoves DEF InFlight
  <2>2. UNCHANGED <<del, history>>
    BY <1>6, InsideMoves DEF deletes, history
  <2>3. \A u \in Turns : u # t => pc'[u] = pc[u]
    BY <1>6, InsideMoves DEF TypeOK, Goto
  <2>4. Clean(ram') /\ Clean(store') /\ \A u \in Turns : Clean(snap'[u])
    <3>1. CASE Rewriting(t)
      <4>1. TurnsIn(ram') \subseteq TurnsIn(ram) \cup {t} /\ UNCHANGED store
            /\ snap' = [snap EXCEPT ![t] = ram']
        BY <3>1 DEF Rewriting, Rewrites
      <4>2. Clean(ram')
        BY <1>3, <2>1, <4>1
      <4>3. \A u \in Turns : snap'[u] = ram' \/ snap'[u] = snap[u]
        BY <4>1 DEF TypeOK
      <4> HIDE DEF Clean
      <4> QED
        BY <1>3, <4>1, <4>2, <4>3
    <3>2. CASE Saves(t)
      <4>1. /\ store' = snap[t] \/ store' = store
            /\ \A u \in Turns : snap'[u] = <<>> \/ snap'[u] = snap[u]
            /\ ram' = ram
        BY <3>2 DEF Saves, Persist, Write, TypeOK
      <4> HIDE DEF Clean
      <4> QED
        BY <1>3, <4>1
    <3>3. CASE ClearRam(t) \/ ClearStore(t) \/ LeaveOpen(t)
      <4>1. /\ ram' = ram \/ ram' = <<>>
            /\ store' = store \/ store' = <<>>
            /\ snap' = snap
        BY <3>3 DEF ClearRam, ClearStore, Write, LeaveOpen
      <4> HIDE DEF Clean
      <4> QED
        BY <1>3, <4>1
    <3> QED
      BY <1>6, <3>1, <3>2, <3>3, InsideShape
  <2> HIDE DEF Clean
  <2> QED
    BY <1>1, <1>3, <1>4, <2>1, <2>2, <2>3, <2>4
<1>7. ASSUME NEW t \in Turns, Inside(t)
      PROVE  GoneInv'
  <2>1. CASE forgotten' = forgotten
    BY <1>6, <1>7, <2>1
  <2>2. CASE forgotten' # forgotten
    <3>1. ClearStore(t)
      BY <1>7, <2>2, InsideShape DEF Rewriting, Saves, ClearRam, LeaveOpen, history
    <3>2. ~apart' /\ forgotten' = forgotten \cup Begun
      BY <2>2, <3>1 DEF ClearStore
    <3>3. ~overlapped /\ store' = <<>>
      BY <3>1, <3>2 DEF ClearStore, Write
    <3>4. pc[t] = "clearing" /\ t \in Busy /\ UNCHANGED <<ram, snap>>
      BY <3>1 DEF ClearStore, Busy, InFlight
    <3>5. ram = <<>>
      <4>1. counts # 0
        BY <3>4, FS_EmptySet DEF CountInv
      <4> QED
        BY <3>3, <3>4, <4>1 DEF CountInv, DurableInv
    <3>6. \A u \in Turns : u # t => pc[u] \in {"idle", "over"}
      BY <3>3, <3>4 DEF SerialInv, Busy, InFlight
    <3>7. \A u \in Turns : snap[u] = <<>>
      BY <3>4, <3>6 DEF SnapInv, Saving
    <3>8. pc'[t] = "ending" /\ \A u \in Turns : u # t => pc'[u] = pc[u]
      BY <3>1 DEF ClearStore, Goto, TypeOK
    <3>9. UNCHANGED deletes /\ UNCHANGED del
      BY <3>1 DEF ClearStore
    <3>10. Gone' = Gone \cup Begun
      BY <3>2, <3>9 DEF Gone, deletes
    <3>11. \A u \in Gone' : pc'[u] \in {"ending", "over"}
      <4>1. \A u \in Begun : u \in Turns /\ pc[u] # "idle"
        BY DEF Begun
      <4> HIDE DEF Clean
      <4> QED
        BY <1>3, <3>6, <3>8, <3>10, <4>1
    <3>12. erasedBy' # "nobody" => del' = "deleted"
      BY <3>9 DEF deletes, GoneInv
    <3> QED
      BY <1>2, <3>3, <3>4, <3>5, <3>7, <3>11, <3>12
  <2> QED
    BY <2>1, <2>2
<1>8. CASE DropConversation
  <2>1. erasedBy = "nobody" /\ Gone = forgotten /\ UNCHANGED <<pc, snap, forgotten>>
    BY <1>3, <1>8 DEF DropConversation, Gone
  <2>2. CASE counts > 0
    <3>1. UNCHANGED <<ram, store, history>>
      BY <1>8, <2>1, <2>2 DEF DropConversation, deletes, history
    <3> HIDE DEF Clean
    <3> QED
      BY <1>1, <1>3, <1>4, <2>1, <3>1
  <2>3. CASE ~(counts > 0)
    <3>1. \A t \in Turns : pc[t] \in {"idle", "over"}
      <4>1. counts = 0
        BY <2>3 DEF TypeOK
      <4>2. Busy = {}
        BY <4>1, FS_EmptySet DEF CountInv
      <4> QED
        BY <4>2 DEF Busy, InFlight
    <3>2. \A t \in Turns : snap[t] = <<>>
      BY <3>1 DEF SnapInv, Saving
    <3>3. /\ ram' = <<>> /\ store' = <<>> /\ snap' = snap /\ pc' = pc
          /\ del' = "deleted" /\ erased' = Begun
      BY <1>8, <2>3 DEF DropConversation, Erase
    <3>4. \A t \in Gone' : pc'[t] \in {"ending", "over"}
      <4>1. \A t \in Begun : t \in Turns /\ pc[t] # "idle"
        BY DEF Begun
      <4>2. Gone' \subseteq forgotten \cup Begun
        BY <2>1, <3>3 DEF Gone
      <4> HIDE DEF Clean
      <4> QED
        BY <1>3, <2>1, <3>1, <3>3, <4>1, <4>2
    <3> HIDE DEF Clean
    <3> QED
      BY <1>2, <3>2, <3>3, <3>4
  <2> QED
    BY <2>2, <2>3
<1>9. CASE GatewayDeletes
  <2>1. erasedBy = "nobody" /\ UNCHANGED <<ram, pc, snap, forgotten>>
    BY <1>3, <1>9 DEF GatewayDeletes
  <2>2. /\ store' = <<>> \/ store' = store
        /\ (erasedBy' = "gateway" /\ del' = "deleted") \/ erasedBy' = "nobody"
    <3>1. CASE store' = <<>> /\ apart' = TRUE /\ del' = "deleted" /\ Erase("gateway")
      BY <3>1 DEF Erase
    <3>2. CASE del' = "refused" /\ UNCHANGED <<store, deletes, apart>>
      BY <2>1, <3>2 DEF deletes
    <3> QED
      BY <1>9, <3>1, <3>2 DEF GatewayDeletes
  <2>3. Gone' = Gone
    BY <2>1, <2>2 DEF Gone
  <2> HIDE DEF Clean
  <2> QED
    BY <1>1, <1>3, <2>1, <2>2, <2>3
<1>10. CASE AskDrop \/ DropHalfFails \/ HandlerExits
  <2>1. UNCHANGED <<store, snap, pc, history>> /\ (ram' = ram \/ ram' = <<>>)
    BY <1>10 DEF AskDrop, DropHalfFails, HandlerExits
  <2>2. del = "deleted" => del' = "deleted"
    BY <1>10 DEF AskDrop, DropHalfFails, HandlerExits
  <2> HIDE DEF Clean
  <2> QED
    BY <1>1, <1>3, <1>4, <2>1, <2>2
<1>11. CASE Restart
  <2>1. TurnsIn(Seeded(store)) \subseteq TurnsIn(store)
    BY SeededRows DEF TypeOK, FromRows
  <2>2. ram' = Seeded(store) /\ UNCHANGED <<store, snap, pc, del, history>>
    BY <1>11 DEF Restart
  <2>3. Clean(ram')
    BY <1>3, <2>1, <2>2
  <2> HIDE DEF Clean
  <2> QED
    BY <1>1, <1>3, <1>4, <2>2, <2>3
<1>12. CASE Shutdown \/ RuntimeEnds \/ UNCHANGED vars
  <2>1. (ram' = ram \/ ram' = <<>>) /\ UNCHANGED <<store, snap, pc, del, history>>
    BY <1>12 DEF Shutdown, RuntimeEnds, vars, history
  <2> HIDE DEF Clean
  <2> QED
    BY <1>1, <1>3, <1>4, <2>1
<1>13. CASE Crash
  <2>1. ram' = <<>> /\ UNCHANGED <<store, history>> /\ \A t \in Turns : snap'[t] = <<>>
    BY <1>13 DEF Crash
  <2>2. \A t \in Turns : pc'[t] = pc[t] \/ pc'[t] = "over"
    BY <1>13 DEF Crash
  <2>3. del = "deleted" => del' = "deleted"
    BY <1>13 DEF Crash
  <2> HIDE DEF Clean
  <2> QED
    BY <1>1, <1>3, <1>4, <2>1, <2>2, <2>3
<1> QED
  BY <1>5, <1>7, <1>8, <1>9, <1>10, <1>11, <1>12, <1>13, NextSteps DEF Aside

-----------------------------------------------------------------------------
(* What a restart would resume.                                            *)

LEMMA DurableStep ==
    ASSUME TypeOK, HistoryAssumption, CountInv, SerialInv, DurableInv,
           [ChannelHistoryNext]_vars
    PROVE  DurableInv'
<1> DEFINE Writing == Saving \cup {"clearing"}
\* Nothing changes that the invariant speaks of.
<1>1. ASSUME UNCHANGED <<ram, store, snap, apart>>,
             \A u \in Turns : pc'[u] = pc[u] \/ (pc[u] \notin Writing /\ pc'[u] \notin Writing),
             runtime' # "down" => runtime # "down",
             ~overlapped' => ~overlapped \/ Settled'
      PROVE  DurableInv'
  <2>1. SUFFICES ASSUME runtime' # "down" PROVE DurableInv'
    BY DEF DurableInv
  <2>2. \A u \in Turns : pc'[u] \in Writing => pc'[u] = pc[u]
    BY <1>1
  <2>3. Settled' => Settled
    BY <1>1 DEF Settled
  <2>4. ASSUME ~overlapped', NEW u \in Turns
        PROVE  (pc'[u] \in Saving => snap'[u] = ram') /\ (pc'[u] = "clearing" => ram' = <<>>)
    <3>1. CASE Settled'
      BY <3>1 DEF Settled
    <3>2. CASE ~overlapped
      BY <1>1, <2>1, <2>2, <3>2 DEF DurableInv
    <3> QED
      BY <1>1, <2>4, <3>1, <3>2
  <2> QED
    BY <1>1, <2>1, <2>3, <2>4 DEF DurableInv
\* A turn that is the only one in flight decides it alone.
<1>2. ASSUME NEW t \in Turns, InFlight(t), ~overlapped
      PROVE  \A u \in Turns : u # t => pc[u] \in {"idle", "over"}
  BY <1>2 DEF SerialInv, Busy, InFlight
<1>3. counts = 0 => \A t \in Turns : pc[t] \in {"idle", "over"}
  <2>1. SUFFICES ASSUME counts = 0 PROVE Busy = {}
    BY DEF Busy, InFlight
  <2> QED
    BY <2>1, FS_EmptySet DEF CountInv
<1>4. ASSUME NEW t \in Turns, StartTurn(t)
      PROVE  DurableInv'
  <2>1. UNCHANGED <<ram, store, snap, apart, runtime>>
    BY <1>4 DEF StartTurn
  <2>2. \A u \in Turns : pc'[u] = pc[u] \/ (pc[u] \notin Writing /\ pc'[u] \notin Writing)
    BY <1>4 DEF TypeOK, StartTurn, Goto, Saving
  <2>3. ASSUME ~overlapped' PROVE Settled'
    <3>1. ~(counts > 0)
      BY <1>4, <2>3, Zenon DEF StartTurn
    <3>2. counts = 0
      BY <3>1 DEF TypeOK
    <3> QED
      BY <1>3, <2>2, <3>2 DEF Settled, Saving
  <2> HIDE DEF Writing
  <2> QED
    BY <1>1, <2>1, <2>2, <2>3
<1>5. ASSUME NEW t \in Turns, EndTurn(t) \/ LeaveOpen(t)
      PROVE  DurableInv'
  <2>1. UNCHANGED <<ram, store, snap, apart, runtime, overlapped>>
    BY <1>5 DEF EndTurn, LeaveOpen
  <2>2. \A u \in Turns : pc'[u] = pc[u] \/ (pc[u] \notin Writing /\ pc'[u] \notin Writing)
    BY <1>5 DEF TypeOK, EndTurn, LeaveOpen, Goto, Saving
  <2> HIDE DEF Writing
  <2> QED
    BY <1>1, <2>1, <2>2
<1>6. ASSUME NEW t \in Turns, Inside(t), ~overlapped'
      PROVE  /\ ~overlapped
             /\ \A u \in Turns : u # t => pc'[u] = pc[u] /\ pc'[u] \in {"idle", "over"}
  <2>1. InFlight(t) /\ UNCHANGED overlapped
    BY <1>6, InsideMoves
  <2>2. \A u \in Turns : u # t => pc'[u] = pc[u]
    BY <1>6, InsideMoves DEF TypeOK, Goto
  <2> QED
    BY <1>2, <1>6, <2>1, <2>2
<1>7. ASSUME NEW t \in Turns, Inside(t), Rewriting(t)
      PROVE  DurableInv'
  <2>1. pc'[t] \in Saving /\ snap'[t] = ram'
    BY <1>7 DEF TypeOK, Rewriting, Rewrites, Goto
  <2>2. ~Settled'
    BY <2>1 DEF Settled
  <2>3. ~overlapped' => \A u \in Turns : u # t => pc'[u] \in {"idle", "over"}
    BY <1>6, <1>7
  <2> QED
    BY <2>1, <2>2, <2>3 DEF DurableInv, Saving
\* A write of a turn that was alone makes the stored row what the map holds.
<1>8. ASSUME NEW t \in Turns, Inside(t), Saves(t) \/ ClearStore(t)
      PROVE  DurableInv'
  <2>1. SUFFICES ASSUME runtime' # "down" PROVE DurableInv'
    BY DEF DurableInv
  <2>2. runtime # "down" /\ overlapped' = overlapped
    BY <1>8, <2>1, InsideMoves
  <2>3. pc'[t] \notin Writing /\ ram' = ram
    BY <1>8 DEF TypeOK, Saves, ClearStore, Goto, Saving
  <2>4. ~overlapped' => \A u \in Turns : pc'[u] \notin Writing
    BY <1>6, <1>8, <2>3 DEF Saving
  <2>5. ASSUME ~apart' PROVE store' = ram'
    <3>1. CASE Saves(t)
      <4>1. pc[t] \in Saving /\ store' = snap[t] /\ ~overlapped
        BY <2>5, <3>1 DEF Saves, Persist, Write
      <4> QED
        BY <2>2, <2>3, <4>1 DEF DurableInv
    <3>2. CASE ClearStore(t)
      <4>1. pc[t] = "clearing" /\ store' = <<>> /\ ~overlapped
        BY <2>5, <3>2 DEF ClearStore, Write
      <4> QED
        BY <2>2, <2>3, <4>1 DEF DurableInv
    <3> QED
      BY <1>8, <3>1, <3>2
  <2> QED
    BY <2>4, <2>5 DEF DurableInv
<1>9. ASSUME NEW t \in Turns, Inside(t), ClearRam(t)
      PROVE  DurableInv'
  <2>1. pc'[t] = "clearing" /\ ram' = <<>>
    BY <1>9 DEF TypeOK, ClearRam, Goto
  <2>2. ~Settled'
    BY <2>1 DEF Settled
  <2>3. ~overlapped' => \A u \in Turns : u # t => pc'[u] \in {"idle", "over"}
    BY <1>6, <1>9
  <2> QED
    BY <2>1, <2>2, <2>3 DEF DurableInv, Saving
<1>10. CASE DropConversation
  <2>1. UNCHANGED <<snap, pc, runtime, overlapped>>
    BY <1>10 DEF DropConversation
  <2>2. CASE counts > 0
    <3>1. UNCHANGED <<ram, store, apart>>
      BY <1>10, <2>2 DEF DropConversation
    <3> QED
      BY <1>1, <2>1, <3>1
  <2>3. CASE ~(counts > 0)
    <3>1. ram' = <<>> /\ store' = <<>>
      BY <1>10, <2>3 DEF DropConversation
    <3>2. \A t \in Turns : pc'[t] \in {"idle", "over"}
      BY <1>3, <2>1, <2>3 DEF TypeOK
    <3> QED
      BY <3>1, <3>2 DEF DurableInv, Saving
  <2> QED
    BY <2>2, <2>3
<1>11. CASE DropHalfFails
  <2>1. apart' /\ counts = 0 /\ pc' = pc
    BY <1>11 DEF DropHalfFails
  <2>2. \A t \in Turns : pc'[t] \in {"idle", "over"}
    BY <1>3, <2>1
  <2> QED
    BY <2>1, <2>2 DEF DurableInv, Saving
<1>12. CASE GatewayDeletes
  <2>1. UNCHANGED <<ram, snap, pc, runtime, overlapped>>
    BY <1>12 DEF GatewayDeletes
  <2>2. apart' \/ UNCHANGED <<store, apart>>
    BY <1>12 DEF GatewayDeletes
  <2> QED
    BY <1>1, <2>1, <2>2 DEF DurableInv
<1>13. CASE RuntimeEnds \/ Crash
  BY <1>13 DEF RuntimeEnds, Crash, DurableInv
<1>14. CASE AskDrop \/ HandlerExits \/ Shutdown \/ UNCHANGED vars
  <2>1. UNCHANGED <<ram, store, snap, pc, apart, overlapped>>
    BY <1>14 DEF AskDrop, HandlerExits, Shutdown, vars
  <2>2. runtime' # "down" => runtime # "down"
    BY <1>14 DEF AskDrop, HandlerExits, Shutdown, vars
  <2> QED
    BY <1>1, <2>1, <2>2
<1>15. CASE Restart
  <2>1. \A t \in Turns : pc'[t] \in {"idle", "over"}
    BY <1>3, <1>15 DEF Restart, CountInv
  <2>2. Seeded(ram') = Seeded(store')
    BY <1>15, SeededTwice DEF Restart, TypeOK
  <2> QED
    BY <2>1, <2>2 DEF DurableInv, Saving
<1> QED
  BY <1>4, <1>5, <1>7, <1>8, <1>9, <1>10, <1>11, <1>12, <1>13, <1>14, <1>15, NextSteps, InsideShape
     DEF Aside

-----------------------------------------------------------------------------
(* The theorems.                                                           *)

LEMMA HistoryInit ==
    ASSUME ChannelHistoryInit, HistoryAssumption
    PROVE  TypeOK /\ HistoryInv
<1>1. TypeOK /\ CountInv
  BY TypeInit, CountInit
<1>2. \A t \in Turns : pc[t] = "idle" /\ snap[t] = <<>>
  BY DEF ChannelHistoryInit
<1>3. SerialInv /\ SnapInv
  BY <1>2 DEF SerialInv, SnapInv, Busy, InFlight
<1>4. GoneInv
  BY <1>2, EmptyRows DEF ChannelHistoryInit, GoneInv, Gone
<1>5. ToolInv /\ DurableInv
  BY <1>2, EmptyRows DEF ChannelHistoryInit, ToolInv, DurableInv, Saving
<1> QED
  BY <1>1, <1>3, <1>4, <1>5 DEF HistoryInv

LEMMA HistoryStep ==
    ASSUME TypeOK, HistoryInv, HistoryAssumption, [ChannelHistoryNext]_vars
    PROVE  TypeOK' /\ HistoryInv'
<1>1. CountInv'
  BY CountStep DEF HistoryInv
<1>2. TypeOK'
  BY <1>1, TypeStep
<1>3. SerialInv' /\ SnapInv' /\ GoneInv'
  BY SerialStep, SnapStep, GoneStep DEF HistoryInv
<1>4. ToolInv' /\ DurableInv'
  BY ToolStep, DurableStep DEF HistoryInv
<1> QED
  BY <1>1, <1>2, <1>3, <1>4 DEF HistoryInv

\* The type invariant and the inductive invariant hold in every state, for every
\* set of turns, every limit of the history and of its compaction.
THEOREM HistoryInvariant == ChannelHistorySpec => [](TypeOK /\ HistoryInv)
<1>1. ChannelHistoryInit => TypeOK /\ HistoryInv
  BY HistoryInit, HistoryAssumption
<1>2. TypeOK /\ HistoryInv /\ [ChannelHistoryNext]_vars => (TypeOK /\ HistoryInv)'
  BY HistoryStep, HistoryAssumption
<1> QED
  BY <1>1, <1>2, PTL DEF ChannelHistorySpec

\* Every variable keeps its type: the counter of turns in flight
\* (InFlightCountGuard, channels/dispatch.rs) never goes below zero, and what the
\* appends, trims and compactions of channels/history.rs return are row lists.
THEOREM HistoryTypeCorrect == ChannelHistorySpec => []TypeOK
BY HistoryInvariant, PTL

\* A DELETE that run_channel_bus_requests answered leaves no row of a turn that had
\* begun by then, in the map or on disk, whatever writes, restarts and crashes come
\* after it: the refcounts it holds while it clears both copies are enough.
THEOREM DeleteStaysFinal == ChannelHistorySpec => []RuntimeDeleteIsFinal
<1>1. TypeOK /\ HistoryInv => RuntimeDeleteIsFinal
  BY DEF TypeOK, HistoryInv, GoneInv, Gone, RuntimeDeleteIsFinal, RowTurns, TurnsIn
<1> QED
  BY <1>1, HistoryInvariant, PTL

\* A /new that was alone and deleted the row (clear_sender_history in two steps) is
\* as final: whatever began before it has nothing left to write.
THEOREM LoneNewStaysFinal == ChannelHistorySpec => []LoneNewIsFinal
<1>1. TypeOK /\ HistoryInv => LoneNewIsFinal
  BY DEF TypeOK, HistoryInv, GoneInv, Gone, LoneNewIsFinal, RowTurns, TurnsIn
<1> QED
  BY <1>1, HistoryInvariant, PTL

\* No append, trim_to_whole_turns, compact_sender_history or seed of load_all leaves
\* a tool row in the map without its carrier right before its results.
THEOREM ToolRowsKeepTheirCarrier == ChannelHistorySpec => []ToolRowsFollowTheirCarrier
<1>1. HistoryInv => ToolRowsFollowTheirCarrier
  BY DEF HistoryInv, ToolInv, Carried, Follows, ToolRowsFollowTheirCarrier
<1> QED
  BY <1>1, HistoryInvariant, PTL

\* When no turn is in flight and the last write (persist_sender_turns or
\* clear_sender_history) succeeded and was that of a turn that had been alone, or of
\* a DELETE, the stored row seeds what the map holds: whatever fell behind before,
\* over any number of turns, failures, overlaps and restarts, is made good by it.
THEOREM SerialTurnsSurvive == ChannelHistorySpec => []SerialTurnsSurviveRestart
<1>1. ASSUME HistoryInv, Quiet
      PROVE  Settled /\ runtime # "down"
  <2>1. Busy = {}
    BY <1>1, FS_EmptySet DEF HistoryInv, CountInv, Quiet
  <2> QED
    BY <1>1, <2>1 DEF Busy, InFlight, Saving, Settled, Quiet
<1>2. HistoryInv => SerialTurnsSurviveRestart
  BY <1>1 DEF HistoryInv, DurableInv, SerialTurnsSurviveRestart
<1> QED
  BY <1>2, HistoryInvariant, PTL
=============================================================================

--------------------------- MODULE DocumentProofs ---------------------------
(***************************************************************************)
(* What a rule gets of a document of any length: no row of a table is      *)
(* lost, rules do not share tables, and a unit above a table is found.     *)
(***************************************************************************)
EXTENDS PreparationProofs, WellFoundedInduction

----------------------------------------------------------------------------
Below == OpToRel(<, Nat)

LEMMA Least ==
  ASSUME NEW T \in SUBSET Nat, T # {}
  PROVE  \E n \in T : \A m \in T : n <= m
<1>1. IsWellFoundedOn(Below, Nat)
  BY NatLessThanWellFounded DEF Below
<1>2. \A m, n \in Nat : <<m, n>> \in Below <=> m < n
  BY DEF Below, OpToRel
<1>3. PICK n \in T : \A m \in T : ~(<<m, n>> \in Below)
  BY <1>1, WFMin
<1>4. \A m \in T : ~(m < n)
  BY <1>2, <1>3
<1> QED
  BY <1>4

LEMMA MinIsLeast ==
  ASSUME NEW T \in SUBSET Nat, T # {}
  PROVE  Min(T) \in T /\ \A m \in T : Min(T) <= m
BY Least DEF Min

(* Ascending lists a finite set of naturals, each element once and in order. *)
LEMMA CountsAscend ==
  ASSUME NEW S \in SUBSET Nat, IsFiniteSet(S)
  PROVE  /\ \A k \in S : UpTo(S, k) \in 1..Cardinality(S)
         /\ \A k, l \in S : k < l => UpTo(S, k) < UpTo(S, l)
<1> DEFINE Low(k) == {j \in S : j <= k}
<1>1. \A k \in S : /\ IsFiniteSet(Low(k)) /\ Cardinality(Low(k)) \in Nat
                   /\ Cardinality(Low(k)) <= Cardinality(S)
  <2> TAKE k \in S
  <2>1. Low(k) \in SUBSET S
    OBVIOUS
  <2> HIDE DEF Low
  <2> QED
    BY <2>1, FS_Subset, FS_CardinalityType
<1>2. \A k \in S : Cardinality(Low(k)) >= 1
  <2> TAKE k \in S
  <2>1. {k} \in SUBSET Low(k)
    OBVIOUS
  <2>2. Cardinality({k}) = 1
    BY FS_Singleton
  <2> HIDE DEF Low
  <2> QED
    BY <1>1, <2>1, <2>2, FS_Subset
<1>3. ASSUME NEW k \in S, NEW l \in S, k < l
      PROVE  Cardinality(Low(k)) < Cardinality(Low(l))
  <2>0. \A j \in S : j \in Nat
    OBVIOUS
  <2>1. Low(k) \in SUBSET Low(l) /\ l \in Low(l) /\ l \notin Low(k)
    <3>1. k \in Nat /\ l \in Nat /\ ~(l <= k) /\ l <= l
      BY <1>3, <2>0
    <3>2. \A j \in Nat : j <= k => j <= l
      BY <1>3, <3>1
    <3> QED
      BY <2>0, <3>1, <3>2
  <2> HIDE DEF Low
  <2>2. Cardinality(Low(k)) <= Cardinality(Low(l)) /\ Cardinality(Low(k)) # Cardinality(Low(l))
    BY <1>1, <2>1, FS_Subset
  <2> QED
    BY <1>1, <2>2
<1>4. Cardinality(S) \in Nat
  BY FS_CardinalityType
<1>5. \A k \in S : UpTo(S, k) = Cardinality(Low(k))
  BY DEF UpTo
<1> HIDE DEF Low
<1> QED
  BY <1>1, <1>2, <1>3, <1>4, <1>5

LEMMA AscendingOrder ==
  ASSUME NEW S \in SUBSET Nat, IsFiniteSet(S)
  PROVE  /\ Cardinality(S) \in Nat /\ DOMAIN Ascending(S) = 1..Cardinality(S)
         /\ \A n \in DOMAIN Ascending(S) : Ascending(S)[n] \in S
         /\ \A k \in S : \E n \in DOMAIN Ascending(S) : Ascending(S)[n] = k
         /\ \A m, n \in DOMAIN Ascending(S) : m < n => Ascending(S)[m] < Ascending(S)[n]
<1> DEFINE size == Cardinality(S)
           count == [k \in S |-> UpTo(S, k)]
<1>1. size \in Nat /\ IsFiniteSet(1..size) /\ Cardinality(1..size) = size
  BY FS_CardinalityType, FS_Interval
<1>2. count \in Injection(S, 1..size)
  BY CountsAscend DEF Injection, IsInjective
<1>3. count \in Surjection(S, 1..size)
  <2> HIDE DEF count, size
  <2>1. Cardinality(S) = Cardinality(1..size)
    BY <1>1 DEF size
  <2> QED
    BY <1>1, <1>2, <2>1, FS_Injection
<1>4. \A n \in 1..size : \E k \in S : UpTo(S, k) = n
  BY <1>3 DEF Surjection
<1>5. \A n \in 1..size : Ascending(S)[n] \in S /\ UpTo(S, Ascending(S)[n]) = n
  BY <1>4 DEF Ascending
<1>6. DOMAIN Ascending(S) = 1..size
  BY DEF Ascending
<1>7. \A k, l \in S : UpTo(S, k) = UpTo(S, l) => k = l
  <2> SUFFICES ASSUME NEW k \in S, NEW l \in S, k # l
               PROVE  UpTo(S, k) # UpTo(S, l)
    OBVIOUS
  <2>1. k \in Nat /\ l \in Nat /\ UpTo(S, k) \in Nat /\ UpTo(S, l) \in Nat
    BY <1>1, CountsAscend
  <2>2. k < l \/ l < k
    BY <2>1
  <2> QED
    BY <2>1, <2>2, CountsAscend
<1>8. ASSUME NEW k \in S
      PROVE  \E n \in 1..size : Ascending(S)[n] = k
  <2>1. UpTo(S, k) \in 1..size
    BY CountsAscend
  <2>2. PICK n \in 1..size : n = UpTo(S, k)
    BY <2>1
  <2>3. Ascending(S)[n] \in S /\ UpTo(S, Ascending(S)[n]) = UpTo(S, k)
    BY <1>5, <2>2
  <2> QED
    BY <1>7, <2>3
<1>9. ASSUME NEW m \in 1..size, NEW n \in 1..size, m < n
      PROVE  Ascending(S)[m] < Ascending(S)[n]
  <2> DEFINE a == Ascending(S)[m]
             b == Ascending(S)[n]
  <2>1. a \in S /\ b \in S /\ UpTo(S, a) < UpTo(S, b)
    BY <1>5, <1>9
  <2> HIDE DEF a, b
  <2>2. a \in Nat /\ b \in Nat /\ UpTo(S, a) \in Nat /\ UpTo(S, b) \in Nat
    BY <1>1, <2>1, CountsAscend
  <2>3. ~(b < a) /\ b # a
    BY <2>1, <2>2, CountsAscend
  <2>4. a < b
    BY <2>2, <2>3
  <2> QED
    BY <2>4 DEF a, b
<1> QED
  BY <1>1, <1>5, <1>6, <1>8, <1>9

LEMMA AscendingIsSeq ==
  ASSUME NEW S \in SUBSET Nat, IsFiniteSet(S)
  PROVE  Ascending(S) \in Seq(Nat)
<1>1. /\ Cardinality(S) \in Nat /\ DOMAIN Ascending(S) = 1..Cardinality(S)
      /\ \A n \in DOMAIN Ascending(S) : Ascending(S)[n] \in Nat
  BY AscendingOrder
<1>2. Ascending(S) = [n \in 1..Cardinality(S) |-> Ascending(S)[n]]
  BY DEF Ascending
<1> QED
  BY <1>1, <1>2

----------------------------------------------------------------------------
(* The rows of logical tables. *)
IsAmong(rows, row) == \E n \in DOMAIN rows : row = rows[n]

IsRowOf(table, row) == IsAmong(table.rows, row)

IsBelowHeader(document, row) ==
  \E i \in TableBlocksOf(document) : \E k \in 2..Len(document[i].table_body) :
    document[i].table_body[k] # "blank" /\ row = <<i, k>>

RowsComplete ==
  \A row : (\E t \in Tables : IsRowOf(logical_tables[t], row)) <=> IsBelowHeader(blocks, row)

RowsOrdered ==
  \A t, u \in Tables :
    \A m \in DOMAIN logical_tables[t].rows, n \in DOMAIN logical_tables[u].rows :
      t < u \/ (t = u /\ m < n) => Precedes(logical_tables[t].rows[m], logical_tables[u].rows[n])

(* A row of a block before the given one, or of that one. *)
StandsBefore(row, index) == row[1] \in Nat /\ row[1] < index

StandsIn(row, index) == row[1] = index

AllStandBefore(rows, index) ==
  /\ rows \in Seq(Nat \X Nat)
  /\ \A n \in DOMAIN rows : StandsBefore(rows[n], index)

(* Rows stand in blocks that were read, so those of the next block follow them. *)
RowsInv ==
  /\ \A t \in Tables : AllStandBefore(logical_tables[t].rows, Len(blocks) + 1)
  /\ RowsComplete
  /\ RowsOrdered

LEMMA RowsInvSuffices ==
  RowsInv => NoRowLost
<1> SUFFICES ASSUME RowsInv PROVE NoRowLost
  OBVIOUS
<1> DEFINE Found == UNION {Range(logical_tables[t].rows) : t \in Tables}
           NotBlank(i) == {k \in 2..Len(blocks[i].table_body) : blocks[i].table_body[k] # "blank"}
           Wanted == UNION {{<<i, k>> : k \in NotBlank(i)} : i \in TableBlocks}
<1>1. \A row : row \in Found <=> \E t \in Tables : IsRowOf(logical_tables[t], row)
  BY DEF IsRowOf, IsAmong, Range
<1>2. \A row : row \in Wanted <=> IsBelowHeader(blocks, row)
  BY DEF IsBelowHeader, TableBlocks, TableBlocksOf, Blocks
<1>3. Found = Wanted
  <2> HIDE DEF Found, Wanted
  <2> QED
    BY <1>1, <1>2 DEF RowsInv, RowsComplete
<1> QED
  BY <1>3 DEF NoRowLost, RowsInv, RowsOrdered

(* What _normalize_rows keeps of a block, from the row below its header on. *)
LEMMA NewRows ==
  ASSUME NEW block \in Block, NEW index \in Nat
  PROVE  LET rows == NormalizedRows(block, index, 2)
         IN  /\ rows \in Seq(Nat \X Nat)
             /\ \A n \in DOMAIN rows : /\ StandsIn(rows[n], index)
                                       /\ \E k \in 2..Len(block.table_body) :
                                            block.table_body[k] # "blank" /\ rows[n] = <<index, k>>
             /\ \A k \in 2..Len(block.table_body) :
                  block.table_body[k] # "blank" => \E n \in DOMAIN rows : rows[n] = <<index, k>>
             /\ \A m, n \in DOMAIN rows : m < n => Precedes(rows[m], rows[n])
<1> DEFINE places == {k \in 2..Len(block.table_body) : block.table_body[k] # "blank"}
           kept == Ascending(places)
           rows == NormalizedRows(block, index, 2)
<1>1. block.table_body \in Seq(STRING)
  BY DEF Block
<1>2. Len(block.table_body) \in Nat
  BY <1>1, LenProperties
<1>3. places \in SUBSET Nat /\ IsFiniteSet(places)
  <2>1. places \in SUBSET (2..Len(block.table_body))
    OBVIOUS
  <2>2. IsFiniteSet(2..Len(block.table_body))
    BY <1>2, FS_Interval
  <2>3. \A k \in 2..Len(block.table_body) : k \in Nat
    BY <1>2
  <2> HIDE DEF places
  <2> QED
    BY <2>1, <2>2, <2>3, FS_Subset
<1>4. rows = [n \in DOMAIN kept |-> <<index, kept[n]>>]
  BY DEF NormalizedRows
<1>5. \A k : k \in places <=> k \in 2..Len(block.table_body) /\ block.table_body[k] # "blank"
  OBVIOUS
<1>6. /\ Cardinality(places) \in Nat /\ DOMAIN kept = 1..Cardinality(places)
      /\ \A n \in DOMAIN kept : kept[n] \in places
      /\ \A k \in places : \E n \in DOMAIN kept : kept[n] = k
      /\ \A m, n \in DOMAIN kept : m < n => kept[m] < kept[n]
  <2> HIDE DEF places
  <2> QED
    BY <1>3, AscendingOrder
<1> HIDE DEF places, kept, rows
<1>7. DOMAIN rows = DOMAIN kept /\ \A n \in DOMAIN rows : rows[n] = <<index, kept[n]>>
  BY <1>4
<1>8. rows \in Seq(Nat \X Nat)
  <2>1. \A n \in DOMAIN kept : kept[n] \in Nat
    BY <1>3, <1>6
  <2> QED
    BY <1>4, <1>6, <2>1
<1>9. \A m, n \in DOMAIN rows : m < n => Precedes(rows[m], rows[n])
  BY <1>6, <1>7 DEF Precedes
<1>10. \A n \in DOMAIN rows : /\ StandsIn(rows[n], index)
                              /\ \E k \in 2..Len(block.table_body) :
                                   block.table_body[k] # "blank" /\ rows[n] = <<index, k>>
  BY <1>5, <1>6, <1>7 DEF StandsIn
<1>11. \A k \in 2..Len(block.table_body) :
         block.table_body[k] # "blank" => \E n \in DOMAIN rows : rows[n] = <<index, k>>
  <2> SUFFICES ASSUME NEW k \in 2..Len(block.table_body), block.table_body[k] # "blank"
               PROVE  \E n \in DOMAIN rows : rows[n] = <<index, k>>
    OBVIOUS
  <2>1. PICK n \in DOMAIN kept : kept[n] = k
    BY <1>5, <1>6
  <2> QED
    BY <1>7, <2>1
<1> QED
  BY <1>8, <1>9, <1>10, <1>11 DEF rows

(* The rows below the headers of a longer document. *)
LEMMA MoreBelowHeader ==
  ASSUME NEW document \in Seq(Block), NEW block \in Block
  PROVE  \A row : IsBelowHeader(Append(document, block), row) <=>
           \/ IsBelowHeader(document, row)
           \/ /\ IsTable(block)
              /\ \E k \in 2..Len(block.table_body) :
                   block.table_body[k] # "blank" /\ row = <<Len(document) + 1, k>>
<1> DEFINE longer == Append(document, block)
<1>1. /\ \A i \in TableBlocksOf(document) : longer[i] = document[i]
      /\ longer[Len(document) + 1] = block
      /\ TableBlocksOf(longer) =
           TableBlocksOf(document) \union (IF IsTable(block) THEN {Len(document) + 1} ELSE {})
  BY AppendedBlock DEF TableBlocksOf
<1> HIDE DEF longer
<1>2. \A i : i \in TableBlocksOf(longer) <=>
        i \in TableBlocksOf(document) \/ (IsTable(block) /\ i = Len(document) + 1)
  BY <1>1
<1>3. \A row : IsBelowHeader(longer, row) <=>
           \/ IsBelowHeader(document, row)
           \/ /\ IsTable(block)
              /\ \E k \in 2..Len(block.table_body) :
                   block.table_body[k] # "blank" /\ row = <<Len(document) + 1, k>>
  BY <1>1, <1>2 DEF IsBelowHeader
<1> QED
  BY <1>3 DEF longer

(* The places of a concatenation. *)
LEMMA SplitPlaces ==
  ASSUME NEW a \in Nat, NEW b \in Nat, NEW n \in 1..(a + b)
  PROVE  n \in 1..a \/ \E k \in 1..b : n = a + k
<1>1. CASE n <= a
  BY <1>1
<1>2. CASE n > a
  <2>1. n - a \in 1..b /\ n = a + (n - a)
    BY <1>2
  <2> QED
    BY <2>1
<1> QED
  BY <1>1, <1>2

IsConcatenation(S, joined, s, t) ==
  /\ joined \in Seq(S)
  /\ Len(s) \in Nat /\ Len(t) \in Nat /\ Len(joined) = Len(s) + Len(t)
  /\ \A n \in DOMAIN s : n \in DOMAIN joined /\ joined[n] = s[n]
  /\ \A n \in DOMAIN t : Len(s) + n \in DOMAIN joined /\ joined[Len(s) + n] = t[n]
  /\ \A n \in DOMAIN joined : n \in DOMAIN s \/ \E k \in DOMAIN t : n = Len(s) + k

LEMMA Concatenated ==
  ASSUME NEW S, NEW s \in Seq(S), NEW t \in Seq(S)
  PROVE  IsConcatenation(S, s \o t, s, t)
<1>1. /\ s \o t \in Seq(S)
      /\ Len(s) \in Nat /\ DOMAIN s = 1..Len(s) /\ Len(t) \in Nat /\ DOMAIN t = 1..Len(t)
      /\ Len(s \o t) = Len(s) + Len(t)
      /\ DOMAIN (s \o t) = 1..(Len(s) + Len(t))
      /\ \A n \in DOMAIN s : n \in DOMAIN (s \o t) /\ (s \o t)[n] = s[n]
      /\ \A n \in DOMAIN t :
           Len(s) + n \in DOMAIN (s \o t) /\ (s \o t)[Len(s) + n] = t[n]
  OBVIOUS
<1>2. \A n \in 1..(Len(s) + Len(t)) : n \in 1..Len(s) \/ \E k \in 1..Len(t) : n = Len(s) + k
  BY <1>1, SplitPlaces, Zenon
<1> QED
  BY <1>1, <1>2, Zenon DEF IsConcatenation

LEMMA PlacesAreNumbers ==
  ASSUME NEW S, NEW s \in Seq(S)
  PROVE  Len(s) \in Nat /\ \A n \in DOMAIN s : n \in Nat /\ n <= Len(s)
OBVIOUS

LEMMA LaterBlock ==
  ASSUME NEW index \in Nat, NEW row, NEW next, StandsBefore(row, index), StandsIn(next, index)
  PROVE  Precedes(row, next)
BY DEF StandsBefore, StandsIn, Precedes

(* Rows of a later block after rows of earlier blocks. *)
InOrderOf(rows, old, new) ==
  /\ rows \in Seq(Nat \X Nat)
  /\ \A n \in DOMAIN rows :
       \/ \E k \in DOMAIN old : rows[n] = old[k]
       \/ \E k \in DOMAIN new : rows[n] = new[k]
  /\ \A n \in DOMAIN old : \E k \in DOMAIN rows : rows[k] = old[n]
  /\ \A n \in DOMAIN new : \E k \in DOMAIN rows : rows[k] = new[n]
  /\ \A m, n \in DOMAIN rows : m < n => Precedes(rows[m], rows[n])

LEMMA RowsOfBoth ==
  ASSUME NEW rows, NEW old, NEW new, InOrderOf(rows, old, new), NEW row
  PROVE  IsAmong(rows, row) <=> IsAmong(old, row) \/ IsAmong(new, row)
BY DEF InOrderOf, IsAmong

LEMMA RowsJoined ==
  ASSUME NEW old \in Seq(Nat \X Nat), NEW new \in Seq(Nat \X Nat), NEW index \in Nat,
         \A n \in DOMAIN old : StandsBefore(old[n], index),
         \A n \in DOMAIN new : StandsIn(new[n], index),
         \A m, n \in DOMAIN old : m < n => Precedes(old[m], old[n]),
         \A m, n \in DOMAIN new : m < n => Precedes(new[m], new[n])
  PROVE  InOrderOf(old \o new, old, new)
<1> DEFINE rows == old \o new
           Rows == Nat \X Nat
<1>0. old \in Seq(Rows) /\ new \in Seq(Rows)
  OBVIOUS
<1> HIDE DEF Rows
<1>1. IsConcatenation(Rows, rows, old, new)
  BY <1>0, Concatenated, Zenon
<1>6. /\ Len(old) \in Nat
      /\ \A n \in DOMAIN old : n \in Nat /\ n <= Len(old)
      /\ \A n \in DOMAIN new : n \in Nat
  BY <1>0, PlacesAreNumbers, Zenon
<1> HIDE DEF rows
<1>2. \A n \in DOMAIN rows :
        \/ n \in DOMAIN old /\ rows[n] = old[n]
        \/ \E k \in DOMAIN new : n = Len(old) + k /\ rows[n] = new[k]
  BY <1>1, Zenon DEF IsConcatenation
<1>3. ASSUME NEW m \in DOMAIN rows, NEW n \in DOMAIN rows, m < n
      PROVE  Precedes(rows[m], rows[n])
  <2>1. CASE n \in DOMAIN old
    <3>1. ASSUME NEW k \in DOMAIN new, m = Len(old) + k
          PROVE  FALSE
      <4>1. Len(old) \in Nat /\ k \in Nat /\ n \in Nat /\ n <= Len(old)
        BY <1>6, <2>1, <3>1
      <4> QED
        BY <1>3, <3>1, <4>1
    <3>2. m \in DOMAIN old /\ rows[m] = old[m] /\ rows[n] = old[n]
      BY <1>1, <1>2, <2>1, <3>1, Zenon DEF IsConcatenation
    <3> QED
      BY <1>3, <2>1, <3>2, Zenon
  <2>2. ASSUME NEW k \in DOMAIN new, n = Len(old) + k, rows[n] = new[k]
        PROVE  Precedes(rows[m], rows[n])
    <3>1. CASE m \in DOMAIN old /\ rows[m] = old[m]
      <4>1. StandsBefore(rows[m], index) /\ StandsIn(rows[n], index)
        BY <2>2, <3>1, Zenon
      <4> QED
        BY <4>1, LaterBlock, Zenon
    <3>2. ASSUME NEW j \in DOMAIN new, m = Len(old) + j, rows[m] = new[j]
          PROVE  Precedes(rows[m], rows[n])
      <4>1. Len(old) \in Nat /\ j \in Nat /\ k \in Nat
        BY <1>6, <2>2, <3>2
      <4>2. j < k
        BY <1>3, <2>2, <3>2, <4>1
      <4> QED
        BY <2>2, <3>2, <4>2, Zenon
    <3> QED
      BY <1>2, <3>1, <3>2, Zenon
  <2> QED
    BY <1>2, <2>1, <2>2, Zenon
<1>4. \A n \in DOMAIN rows :
        \/ \E k \in DOMAIN old : rows[n] = old[k]
        \/ \E k \in DOMAIN new : rows[n] = new[k]
  BY <1>2, Zenon
<1>5. /\ \A n \in DOMAIN old : \E k \in DOMAIN rows : rows[k] = old[n]
      /\ \A n \in DOMAIN new : \E k \in DOMAIN rows : rows[k] = new[n]
  BY <1>1, Zenon DEF IsConcatenation
<1> QED
  BY <1>1, <1>3, <1>4, <1>5 DEF IsConcatenation, InOrderOf, rows, Rows

LEMMA StandsLater ==
  ASSUME NEW index \in Nat, NEW row
  PROVE  (StandsBefore(row, index) \/ StandsIn(row, index)) => StandsBefore(row, index + 1)
BY DEF StandsBefore, StandsIn

(* The rows of a table block are put at the end of the last logical table, which is
   a new one (old = <<>>) or one that was there.                                   *)
LEMMA RowsAdded ==
  ASSUME blocks \in Seq(Block), RowsInv, NEW block \in Block, IsTable(block),
         blocks' = Append(blocks, block),
         NEW last \in Nat, Tables' = Tables \union {last}, Tables \in SUBSET Nat,
         \A t \in Tables : t <= last,
         \A t \in Tables : t # last => logical_tables'[t] = logical_tables[t],
         NEW old, last \in Tables => old = logical_tables[last].rows,
         last \notin Tables => old = <<>>,
         NEW rows, rows = logical_tables'[last].rows,
         rows = old \o NormalizedRows(block, Len(blocks) + 1, 2)
  PROVE  RowsInv'
<1> DEFINE index == Len(blocks) + 1
           new == NormalizedRows(block, index, 2)
<1>1. Len(blocks) \in Nat /\ index \in Nat /\ Len(blocks') = index
  BY AppendedBlock
<1>2. /\ new \in Seq(Nat \X Nat)
      /\ \A n \in DOMAIN new : /\ StandsIn(new[n], index)
                               /\ \E k \in 2..Len(block.table_body) :
                                    block.table_body[k] # "blank" /\ new[n] = <<index, k>>
      /\ \A k \in 2..Len(block.table_body) :
           block.table_body[k] # "blank" => \E n \in DOMAIN new : new[n] = <<index, k>>
      /\ \A m, n \in DOMAIN new : m < n => Precedes(new[m], new[n])
  BY <1>1, NewRows
<1>3. \A t \in Tables : AllStandBefore(logical_tables[t].rows, index)
  BY DEF RowsInv
<1>9. rows = old \o new
  OBVIOUS
<1> HIDE DEF new, index
<1>4. /\ AllStandBefore(old, index)
      /\ \A m, n \in DOMAIN old : m < n => Precedes(old[m], old[n])
      /\ last \notin Tables => DOMAIN old = {}
  <2>1. CASE last \in Tables
    BY <1>3, <2>1, Zenon DEF RowsInv, RowsOrdered
  <2>2. CASE last \notin Tables
    <3>1. old = <<>> /\ old \in Seq(Nat \X Nat) /\ DOMAIN old = {}
      BY <2>2
    <3> QED
      BY <2>2, <3>1 DEF AllStandBefore
  <2> QED
    BY <2>1, <2>2
<1>5. InOrderOf(rows, old, new)
  <2>1. old \in Seq(Nat \X Nat) /\ \A n \in DOMAIN old : StandsBefore(old[n], index)
    BY <1>4 DEF AllStandBefore
  <2>2. \A n \in DOMAIN new : StandsIn(new[n], index)
    BY <1>2
  <2> QED
    BY <1>1, <1>2, <1>4, <1>9, <2>1, <2>2, RowsJoined
<1>6. ASSUME NEW t \in Tables'
      PROVE  AllStandBefore(logical_tables'[t].rows, index + 1)
  <2>1. CASE t # last
    <3>1. AllStandBefore(logical_tables'[t].rows, index)
      BY <1>3, <2>1
    <3> QED
      BY <1>1, <3>1, StandsLater DEF AllStandBefore
  <2>2. CASE t = last
    <3>1. ASSUME NEW n \in DOMAIN rows
          PROVE  StandsBefore(rows[n], index + 1)
      <4>1. StandsBefore(rows[n], index) \/ StandsIn(rows[n], index)
        BY <1>2, <1>4, <1>5, Zenon DEF AllStandBefore, InOrderOf
      <4> QED
        BY <1>1, <4>1, StandsLater
    <3>2. AllStandBefore(rows, index + 1)
      BY <1>5, <3>1 DEF AllStandBefore, InOrderOf
    <3> QED
      BY <2>2, <3>2
  <2> QED
    BY <2>1, <2>2
<1>7. RowsComplete'
  <2>1. \A row : IsRowOf(logical_tables'[last], row) <=> IsAmong(old, row) \/ IsAmong(new, row)
    BY <1>5, RowsOfBoth DEF IsRowOf
  <2>2. \A row : IsAmong(old, row) <=> last \in Tables /\ IsRowOf(logical_tables[last], row)
    <3>1. CASE last \in Tables
      BY <3>1, Zenon DEF IsRowOf
    <3>2. CASE last \notin Tables
      BY <1>4, <3>2, Zenon DEF IsAmong
    <3> QED
      BY <3>1, <3>2
  <2>3. \A t \in Tables : t # last => \A row :
          IsRowOf(logical_tables'[t], row) <=> IsRowOf(logical_tables[t], row)
    BY Zenon
  <2>4. \A row : (\E t \in Tables' : IsRowOf(logical_tables'[t], row)) <=>
          \/ \E t \in Tables : IsRowOf(logical_tables[t], row)
          \/ IsAmong(new, row)
    <3> TAKE row
    <3>1. \A t : t \in Tables' <=> t \in Tables \/ t = last
      OBVIOUS
    <3>2. (\E t \in Tables' : IsRowOf(logical_tables'[t], row)) <=>
            \/ \E t \in Tables : t # last /\ IsRowOf(logical_tables[t], row)
            \/ IsRowOf(logical_tables'[last], row)
      BY <2>3, <3>1, Zenon
    <3> QED
      BY <2>1, <2>2, <3>2, Zenon
  <2>5. \A row : IsAmong(new, row) <=>
          \E k \in 2..Len(block.table_body) : block.table_body[k] # "blank" /\ row = <<index, k>>
    BY <1>2, Zenon DEF IsAmong
  <2>6. \A row : IsBelowHeader(blocks', row) <=>
          \/ IsBelowHeader(blocks, row)
          \/ \E k \in 2..Len(block.table_body) : block.table_body[k] # "blank" /\ row = <<index, k>>
    BY MoreBelowHeader DEF index
  <2>7. \A row : (\E t \in Tables' : IsRowOf(logical_tables'[t], row)) <=> IsBelowHeader(blocks', row)
    BY <2>4, <2>5, <2>6, Zenon DEF RowsInv, RowsComplete
  <2> QED
    BY <2>7 DEF RowsComplete
<1>8. ASSUME NEW t \in Tables', NEW u \in Tables',
             NEW m \in DOMAIN logical_tables'[t].rows, NEW n \in DOMAIN logical_tables'[u].rows,
             t < u \/ (t = u /\ m < n)
      PROVE  Precedes(logical_tables'[t].rows[m], logical_tables'[u].rows[n])
  <2>0. t \in Nat /\ u \in Nat /\ t <= last /\ u <= last
    OBVIOUS
  <2>1. CASE u # last
    <3>1. t # last /\ t \in Tables /\ u \in Tables
      BY <1>8, <2>0, <2>1
    <3>2. logical_tables'[t] = logical_tables[t] /\ logical_tables'[u] = logical_tables[u]
      BY <2>1, <3>1
    <3> QED
      BY <1>8, <3>1, <3>2, Zenon DEF RowsInv, RowsOrdered
  <2>2. CASE u = last /\ t = last
    <3>1. m < n
      BY <1>8, <2>0, <2>2
    <3> QED
      BY <1>5, <2>2, <3>1, Zenon DEF InOrderOf
  <2>3. CASE u = last /\ t # last
    <3>1. t \in Tables /\ logical_tables'[t] = logical_tables[t] /\ t < last
      BY <1>8, <2>3
    <3>2. m \in DOMAIN logical_tables[t].rows /\ StandsBefore(logical_tables[t].rows[m], index)
      BY <1>3, <3>1, Zenon DEF AllStandBefore
    <3>3. ASSUME NEW k \in DOMAIN old, rows[n] = old[k]
          PROVE  Precedes(logical_tables[t].rows[m], rows[n])
      <4>1. last \in Tables
        BY <1>4
      <4> QED
        BY <3>1, <3>2, <3>3, <4>1, Zenon DEF RowsInv, RowsOrdered
    <3>4. ASSUME NEW k \in DOMAIN new, rows[n] = new[k]
          PROVE  Precedes(logical_tables[t].rows[m], rows[n])
      BY <1>1, <1>2, <3>2, <3>4, LaterBlock, Zenon
    <3>5. n \in DOMAIN rows
      BY <2>3
    <3>6. Precedes(logical_tables[t].rows[m], rows[n])
      <4> QED
        BY <1>5, <3>3, <3>4, <3>5, Zenon DEF InOrderOf
    <3> QED
      BY <2>3, <3>1, <3>6
  <2> QED
    BY <2>1, <2>2, <2>3
<1>10. RowsOrdered'
  BY <1>8, Zenon DEF RowsOrdered
<1>11. \A t \in Tables' : AllStandBefore(logical_tables'[t].rows, Len(blocks') + 1)
  BY <1>1, <1>6
<1> QED
  BY <1>7, <1>10, <1>11 DEF RowsInv

LEMMA SkipBlockRows ==
  ASSUME PreparationInv, RowsInv, NEW block \in Block, blocks' = Append(blocks, block),
         SkipBlock(block)
  PROVE  RowsInv'
<1>1. /\ blocks \in Seq(Block) /\ ~IsTable(block) /\ logical_tables' = logical_tables
      /\ Tables' = Tables
  BY DEF PreparationInv, SkipBlock, Tables
<1>2. Len(blocks) \in Nat /\ Len(blocks') = Len(blocks) + 1
  BY <1>1, AppendedBlock
<1>3. \A t \in Tables : AllStandBefore(logical_tables[t].rows, (Len(blocks) + 1) + 1)
  BY <1>2, StandsLater DEF RowsInv, AllStandBefore
<1>4. \A row : IsBelowHeader(blocks', row) <=> IsBelowHeader(blocks, row)
  BY <1>1, MoreBelowHeader
<1>5. RowsComplete' /\ RowsOrdered'
  <2>1. RowsComplete'
    BY <1>1, <1>4 DEF RowsInv, RowsComplete
  <2>2. RowsOrdered'
    BY <1>1 DEF RowsInv, RowsOrdered
  <2> QED
    BY <2>1, <2>2
<1> QED
  BY <1>1, <1>2, <1>3, <1>5 DEF RowsInv

LEMMA StartTableRows ==
  ASSUME PreparationInv, RowsInv, NEW block \in Block, blocks' = Append(blocks, block),
         StartTable(block)
  PROVE  RowsInv'
<1> DEFINE table == NewLogicalTable(block, Len(blocks) + 1)
           last == Len(logical_tables) + 1
           new == NormalizedRows(block, Len(blocks) + 1, 2)
<1>1. /\ blocks \in Seq(Block) /\ IsTable(block)
      /\ logical_tables' = Append(logical_tables, table) /\ table.rows = new
  BY DEF PreparationInv, StartTable, NewLogicalTable
<1>2. <<>> \o new = new
  <2>1. Len(blocks) + 1 \in Nat
    BY <1>1, AppendedBlock
  <2>2. new \in Seq(Nat \X Nat)
    BY <2>1, NewRows
  <2> HIDE DEF new
  <2> QED
    BY <2>2
<1>3. PICK S : logical_tables \in Seq(S)
  BY DEF PreparationInv, TablesInv
<1> HIDE DEF table, new
<1>4. /\ last \in Nat /\ Tables = 1..(last - 1) /\ Tables' = 1..last
      /\ \A t \in Tables : logical_tables'[t] = logical_tables[t]
      /\ logical_tables'[last] = table
  <2>1. logical_tables \in Seq(S \union {table})
    BY <1>3, SeqMonotonic
  <2> QED
    BY <1>1, <2>1 DEF Tables
<1> HIDE DEF last
<1>5. /\ Tables' = Tables \union {last} /\ Tables \in SUBSET Nat /\ last \notin Tables
      /\ \A t \in Tables : t <= last
  <2>1. \A n \in Nat : /\ 1..n = 1..(n - 1) \union {n} \/ n = 0
                       /\ \A t \in 1..(n - 1) : t \in Nat /\ t < n
    OBVIOUS
  <2>2. last # 0
    BY <1>3, LenProperties DEF last
  <2> QED
    BY <1>4, <2>1, <2>2
<1>6. \A t \in Tables : t # last => logical_tables'[t] = logical_tables[t]
  BY <1>4
<1>7. logical_tables'[last].rows = <<>> \o new
  BY <1>1, <1>2, <1>4
<1> QED
  BY <1>1, <1>4, <1>5, <1>6, <1>7, RowsAdded DEF new

LEMMA MergeTableRows ==
  ASSUME PreparationInv, RowsInv, NEW block \in Block, blocks' = Append(blocks, block),
         MergeTable(block)
  PROVE  RowsInv'
<1> DEFINE last == Len(logical_tables)
           active == logical_tables[last]
           extended == Extended(active, block, Len(blocks) + 1)
           new == NormalizedRows(block, Len(blocks) + 1, 2)
<1>1. /\ blocks \in Seq(Block) /\ IsTable(block) /\ Continues(block)
      /\ logical_tables' = [logical_tables EXCEPT ![last] = extended]
      /\ logical_tables # <<>>
  BY DEF PreparationInv, MergeTable, Continues
<1>2. PICK S : logical_tables \in Seq(S)
  BY DEF PreparationInv, TablesInv
<1>3. /\ last \in Nat /\ Tables = 1..last /\ last \in Tables
      /\ Tables' = Tables
      /\ \A t \in Tables : t # last => logical_tables'[t] = logical_tables[t]
      /\ logical_tables'[last] = extended
  <2> HIDE DEF extended
  <2>1. logical_tables \in Seq(S \union {extended}) /\ last \in Tables
    BY <1>1, <1>2, SeqMonotonic, EmptySeq, LenProperties DEF Tables
  <2> QED
    BY <1>1, <2>1, ExceptSeq DEF Tables
<1>4. extended.rows = active.rows \o new
  <2>1. WellFormed(blocks, active)
    BY <1>3 DEF PreparationInv, TablesInv
  <2>2. Header(block) = Header(ActiveBlock(active))
    BY <1>1 DEF Continues, ShouldMerge, Last
  <2>3. Len(active.segments) \in DOMAIN active.segments
    BY <2>1, EmptySeq, LenProperties DEF WellFormed
  <2>4. Header(ActiveBlock(active)) = active.header
    BY <2>1, <2>3 DEF WellFormed, ActiveBlock, Last
  <2>5. FirstNewRow(block, active.header) = 2
    BY <2>2, <2>4 DEF FirstNewRow
  <2> HIDE DEF active
  <2>6. "rows" \in DOMAIN active
    BY <2>1 DEF WellFormed
  <2> QED
    BY <2>5, <2>6 DEF Extended
<1> HIDE DEF last, extended, new
<1>5. /\ Tables' = Tables \union {last} /\ Tables \in SUBSET Nat
      /\ \A t \in Tables : t <= last
  BY <1>3
<1>6. logical_tables'[last].rows = logical_tables[last].rows \o new
  BY <1>3, <1>4
<1> QED
  BY <1>1, <1>3, <1>5, <1>6, RowsAdded DEF new

(* However many pages a table goes over, and whatever stands between its parts: no
   row is lost, repeated or moved, and no repeated header comes in: NoRowLost.      *)
THEOREM RowsKept == Spec => []NoRowLost
<1>1. Init => RowsInv
  <2> SUFFICES ASSUME Init PROVE RowsInv
    OBVIOUS
  <2>1. Tables = {} /\ TableBlocksOf(blocks) = {}
    BY DEF Init, Tables, TableBlocksOf
  <2> QED
    BY <2>1 DEF RowsInv, RowsComplete, RowsOrdered, IsBelowHeader
<1>2. PreparationInv /\ RowsInv /\ [Next]_vars => RowsInv'
  <2> SUFFICES ASSUME PreparationInv, RowsInv, [Next]_vars
               PROVE  RowsInv'
    OBVIOUS
  <2>1. ASSUME NEW kind \in BlockKinds, ReadBlock(PlacedBlock(kind))
        PROVE  RowsInv'
    <3> DEFINE block == PlacedBlock(kind)
    <3>1. block \in Block
      BY PlacedBlockType DEF PreparationInv
    <3> HIDE DEF block
    <3>2. blocks' = Append(blocks, block) /\ BuildTables(block)
      BY <2>1 DEF ReadBlock, block
    <3> QED
      BY <3>1, <3>2, SkipBlockRows, StartTableRows, MergeTableRows DEF BuildTables
  <2>2. CASE UNCHANGED vars
    BY <2>2 DEF vars, RowsInv, RowsComplete, RowsOrdered, Tables
  <2> QED
    BY <2>1, <2>2 DEF Next
<1> QED
  BY <1>1, <1>2, Invariance, RowsInvSuffices, PTL DEF Spec

----------------------------------------------------------------------------
(* Whatever the documents, the rules and the answers: an outcome is one that the
   pipeline's extractor knows, so its runs leave out no document: OutcomesExpected. *)
THEOREM OutcomesKnown == Spec => []OutcomesExpected
<1>1. ASSUME NEW decision, NEW answer \in LlmAnswers
      PROVE  Outcome(decision, answer) \in Outcomes
  <2>1. FirstUnit(decision) \in Units \union {"NONE"}
    <3>1. \A words : UnitOf(words) \in Units \union {"NONE"}
      BY DEF UnitOf, Units
    <3>2. TextUnit(decision) \in Units \union {"NONE"}
      BY <3>1 DEF TextUnit, UnitNamed
    <3>3. TitleUnit(decision.matched_path) \in Units \union {"NONE"}
      BY <3>1 DEF TitleUnit
    <3> QED
      BY <3>2, <3>3 DEF FirstUnit
  <2>2. LET outcome == BuildOutcome(decision, answer)
        IN  /\ outcome.extraction_route \in {"FAST_TRACK", "SLOW_TRACK", "NONE"}
            /\ outcome.data_status \in {"SUCCESS", "NOT_DISCLOSED", "NOT_FIND"}
            /\ outcome.extraction_route = "NONE" <=> outcome.data_status = "NOT_FIND"
            /\ outcome.extraction_route = "FAST_TRACK" => outcome.data_status = "SUCCESS"
    <3>1. CASE decision.decision = "FAST_TRACK"
      BY <3>1 DEF BuildOutcome, FastTrackExtract
    <3>2. CASE decision.decision = "SLOW_TRACK"
      BY <3>2 DEF BuildOutcome, LlmExtract, LlmAnswers
    <3>3. CASE decision.decision \notin {"FAST_TRACK", "SLOW_TRACK"}
      BY <3>3 DEF BuildOutcome
    <3> QED
      BY <3>1, <3>2, <3>3
  <2> QED
    BY <2>1, <2>2 DEF Outcome, Normalize, Outcomes
<1>2. OutcomesExpected
  BY <1>1 DEF OutcomesExpected
<1> QED
  BY <1>2, PTL

----------------------------------------------------------------------------
(* What the router finds in the logical tables. *)
BlocksInv ==
  \A i \in Blocks : \E kind \in BlockKinds :
    /\ blocks[i].type = kind.type /\ blocks[i].words = kind.words
    /\ blocks[i].table_body = kind.table_body

(* The context of a table is that of its first block. *)
HasContext(document, table) == table.context_before = TextsBeforeOf(document, Head(table.segments))

ContextInv == \A t \in Tables : HasContext(blocks, logical_tables[t])

RoutingInv == PreparationInv /\ BlocksInv /\ ContextInv

LEMMA HeadersKnown ==
  ASSUME RoutingInv, NEW t \in Tables
  PROVE  logical_tables[t].header \in TableHeaders
<1>1. WellFormed(blocks, logical_tables[t])
  BY DEF RoutingInv, PreparationInv, TablesInv
<1>2. 1 \in DOMAIN logical_tables[t].segments
  BY <1>1, EmptySeq, LenProperties DEF WellFormed
<1>3. PICK i \in TableBlocksOf(blocks) : Header(blocks[i]) = logical_tables[t].header
  BY <1>1, <1>2 DEF WellFormed
<1>4. PICK kind \in BlockKinds : blocks[i].type = kind.type /\ blocks[i].table_body = kind.table_body
  BY DEF RoutingInv, BlocksInv, TableBlocksOf, Blocks
<1>5. IsTable(kind) /\ Header(kind) = Header(blocks[i])
  BY <1>4 DEF IsTable, Header, TableBlocksOf
<1> QED
  BY <1>3, <1>5 DEF TableHeaders

LEMMA CandidateTextKnown ==
  ASSUME RoutingInv, NEW t \in Tables
  PROVE  CandidateText(t) \in TableHeaders \X SUBSET Words
<1>1. logical_tables[t].context_before \in SUBSET Blocks
  <2>1. logical_tables[t].context_before =
          TextsBeforeOf(blocks, Head(logical_tables[t].segments))
    BY DEF RoutingInv, ContextInv, HasContext
  <2> QED
    BY <2>1 DEF TextsBeforeOf, Blocks
<1>2. \A i \in Blocks : \A word \in blocks[i].words : word \in Words
  <2>1. \A i \in Blocks : \E kind \in BlockKinds : blocks[i].words = kind.words
    BY DEF RoutingInv, BlocksInv
  <2> QED
    BY <2>1 DEF Words
<1>3. WordsBefore(t) \in SUBSET Words
  BY <1>1, <1>2 DEF WordsBefore
<1> QED
  BY <1>3, HeadersKnown DEF CandidateText

LEMMA TextsBeforeType ==
  ASSUME blocks \in Seq(Block), NEW index \in Nat
  PROVE  /\ TextsBefore(index) \in SUBSET Texts /\ Texts \in SUBSET Nat /\ IsFiniteSet(Texts)
         /\ index - 1 \in Texts => index - 1 \in TextsBefore(index)
<1>1. Len(blocks) \in Nat /\ Blocks = 1..Len(blocks)
  BY DEF Blocks
<1>2. Texts \in SUBSET Nat /\ IsFiniteSet(Texts)
  <2>1. Texts \in SUBSET (1..Len(blocks)) /\ IsFiniteSet(1..Len(blocks))
    BY <1>1, FS_Interval DEF Texts
  <2>2. \A i \in 1..Len(blocks) : i \in Nat
    BY <1>1
  <2>3. IsFiniteSet(Texts)
    BY <2>1, FS_Subset
  <2> QED
    BY <2>1, <2>2, <2>3
<1>3. TextsBefore(index) \in SUBSET Texts
  BY DEF TextsBefore, Texts
<1>4. ASSUME index - 1 \in Texts
      PROVE  index - 1 \in TextsBefore(index)
  <2> DEFINE texts == {i \in Blocks : i < index /\ blocks[i].type = "text"}
             latest == {j \in texts : j >= index - 1}
  <2>1. index - 1 \in texts
    BY <1>1, <1>4 DEF Texts
  <2>2. latest = {index - 1}
    BY <1>1, <2>1
  <2>3. Cardinality({index - 1}) = 1
    BY FS_Singleton
  <2> HIDE DEF latest
  <2>4. Cardinality(latest) <= 2
    BY <2>2, <2>3
  <2> QED
    BY <2>1, <2>4 DEF TextsBefore, latest
<1> QED
  BY <1>2, <1>3, <1>4

LEMMA ContextKept ==
  ASSUME NEW document \in Seq(Block), NEW block \in Block, NEW table,
         WellFormed(document, table), HasContext(document, table)
  PROVE  /\ HasContext(Append(document, block), table)
         /\ HasContext(Append(document, block), Extended(table, block, Len(document) + 1))
<1> DEFINE extended == Extended(table, block, Len(document) + 1)
<1>1. /\ table.segments \in Seq(Nat) /\ table.segments # <<>>
      /\ Head(table.segments) \in DOMAIN document
  <2>1. /\ table.segments \in Seq(Nat) /\ table.segments # <<>>
        /\ \A s \in DOMAIN table.segments : table.segments[s] \in TableBlocksOf(document)
    BY DEF WellFormed
  <2>2. 1 \in DOMAIN table.segments /\ Head(table.segments) = table.segments[1]
    BY <2>1, EmptySeq, LenProperties
  <2> QED
    BY <2>1, <2>2 DEF TableBlocksOf
<1>2. Head(table.segments) \in 1..(Len(document) + 1)
  BY <1>1, AppendedBlock
<1>3. HasContext(Append(document, block), table)
  BY <1>2, TextsBeforeKept DEF HasContext
<1>4. /\ extended.context_before = table.context_before
      /\ extended.segments = Append(table.segments, Len(document) + 1)
  BY DEF Extended, WellFormed
<1> HIDE DEF extended
<1>5. Head(extended.segments) = Head(table.segments)
  <2>1. \A seq \in Seq(Nat) : seq # <<>> => Head(Append(seq, Len(document) + 1)) = Head(seq)
    <3>1. Len(document) + 1 \in Nat
      BY AppendedBlock
    <3> QED
      BY <3>1
  <2> QED
    BY <1>1, <1>4, <2>1
<1>6. HasContext(Append(document, block), extended)
  BY <1>3, <1>4, <1>5 DEF HasContext
<1> QED
  BY <1>3, <1>6 DEF extended

LEMMA ContextStep ==
  ASSUME PreparationInv, ContextInv, NEW block \in Block, blocks' = Append(blocks, block),
         BuildTables(block)
  PROVE  ContextInv'
<1> DEFINE index == Len(blocks) + 1
           last == Len(logical_tables)
           table == NewLogicalTable(block, index)
           extended == Extended(logical_tables[last], block, index)
<1>1. blocks \in Seq(Block) /\ Len(blocks) \in Nat /\ index \in 1..(Len(blocks) + 1)
  BY LenProperties DEF PreparationInv
<1>2. PICK S : logical_tables \in Seq(S)
  BY DEF PreparationInv, TablesInv
<1>3. ASSUME NEW t \in Tables
      PROVE  /\ HasContext(blocks', logical_tables[t])
             /\ HasContext(blocks', Extended(logical_tables[t], block, index))
  <2>1. WellFormed(blocks, logical_tables[t]) /\ HasContext(blocks, logical_tables[t])
    BY DEF PreparationInv, TablesInv, ContextInv
  <2> QED
    BY <1>1, <2>1, ContextKept
<1>4. HasContext(blocks', table)
  <2>1. TextsBefore(index) = TextsBeforeOf(blocks, index)
    BY ContextIsTextsBefore
  <2>2. TextsBeforeOf(blocks', index) = TextsBeforeOf(blocks, index)
    BY <1>1, TextsBeforeKept
  <2>3. table.context_before = TextsBefore(index) /\ Head(table.segments) = index
    BY DEF NewLogicalTable
  <2> QED
    BY <2>1, <2>2, <2>3 DEF HasContext
<1> HIDE DEF table, extended
<1>5. CASE SkipBlock(block)
  BY <1>3, <1>5 DEF SkipBlock, ContextInv, Tables
<1>6. CASE StartTable(block)
  <2>1. logical_tables' = Append(logical_tables, table)
    BY <1>6 DEF StartTable, table
  <2>2. logical_tables \in Seq(S \union {table})
    BY <1>2, SeqMonotonic
  <2>3. \A t \in Tables' : \/ t \in Tables /\ logical_tables'[t] = logical_tables[t]
                           \/ logical_tables'[t] = table
    BY <2>1, <2>2 DEF Tables
  <2> QED
    BY <1>3, <1>4, <2>3 DEF ContextInv
<1>7. CASE MergeTable(block)
  <2>1. logical_tables' = [logical_tables EXCEPT ![last] = extended] /\ logical_tables # <<>>
    BY <1>7 DEF MergeTable, Continues, extended
  <2>2. last \in Tables
    BY <1>2, <2>1, EmptySeq, LenProperties DEF Tables
  <2>3. \A t \in Tables' : t \in Tables /\ (logical_tables'[t] = logical_tables[t]
                                            \/ logical_tables'[t] = extended)
    BY <2>1 DEF Tables
  <2>4. HasContext(blocks', extended)
    BY <1>3, <2>2 DEF extended
  <2> QED
    BY <1>3, <2>3, <2>4 DEF ContextInv
<1> QED
  BY <1>5, <1>6, <1>7 DEF BuildTables

LEMMA BlocksStep ==
  ASSUME blocks \in Seq(Block), BlocksInv, NEW kind \in BlockKinds, PlacedBlock(kind) \in Block,
         blocks' = Append(blocks, PlacedBlock(kind))
  PROVE  BlocksInv'
<1> DEFINE block == PlacedBlock(kind)
<1>1. /\ block.type = kind.type /\ block.words = kind.words
      /\ block.table_body = kind.table_body
  BY DEF PlacedBlock
<1> HIDE DEF block
<1>2. \A i \in Blocks' : (i \in Blocks /\ blocks'[i] = blocks[i]) \/ blocks'[i] = block
  BY DEF Blocks, block
<1> QED
  BY <1>1, <1>2 DEF BlocksInv

LEMMA RoutingInvariance == Spec => []RoutingInv
<1>1. Init => RoutingInv
  <2>1. ASSUME Init
        PROVE  /\ Tables = {} /\ TableBlocks = {} /\ Blocks = {}
               /\ blocks \in Seq(Block) /\ logical_tables \in Seq(Block)
    BY <2>1 DEF Init, Tables, TableBlocks, Blocks
  <2> QED
    BY <2>1 DEF RoutingInv, BlocksInv, ContextInv, PreparationInv, TablesInv, LatestInv,
      ContinuationsJoined
<1>2. BlocksInv /\ ContextInv /\ PreparationInv /\ [Next]_vars => BlocksInv' /\ ContextInv'
  <2> SUFFICES ASSUME BlocksInv, ContextInv, PreparationInv, [Next]_vars
               PROVE  BlocksInv' /\ ContextInv'
    OBVIOUS
  <2>1. ASSUME NEW kind \in BlockKinds, ReadBlock(PlacedBlock(kind))
        PROVE  BlocksInv' /\ ContextInv'
    <3> DEFINE block == PlacedBlock(kind)
    <3>1. block \in Block
      BY PlacedBlockType DEF PreparationInv
    <3> HIDE DEF block
    <3>2. blocks' = Append(blocks, block) /\ BuildTables(block)
      BY <2>1 DEF ReadBlock, block
    <3>3. ContextInv'
      BY <3>1, <3>2, ContextStep
    <3>4. BlocksInv'
      BY <3>1, <3>2, BlocksStep DEF PreparationInv, block
    <3> QED
      BY <3>3, <3>4
  <2>2. CASE UNCHANGED vars
    BY <2>2 DEF vars, BlocksInv, ContextInv, Tables, Blocks
  <2> QED
    BY <2>1, <2>2 DEF Next
<1>3. PreparationInv /\ BlocksInv /\ ContextInv <=> RoutingInv
  BY DEF RoutingInv
<1> QED
  BY <1>1, <1>2, <1>3, Invariance, PTL DEF Spec

(* A highest score exists and is the best table's. *)
LEMMA MinOfTwo ==
  ASSUME NEW a \in Int, NEW b \in Int
  PROVE  Min({a, b}) = IF a <= b THEN a ELSE b
<1>1. CASE a <= b
  <2>1. \A n \in {a, b} : (\A m \in {a, b} : n <= m) <=> n = a
    BY <1>1
  <2> QED
    BY <1>1, <2>1 DEF Min
<1>2. CASE ~(a <= b)
  <2>1. \A n \in {a, b} : (\A m \in {a, b} : n <= m) <=> n = b
    BY <1>2
  <2> QED
    BY <1>2, <2>1 DEF Min
<1> QED
  BY <1>1, <1>2

(* A name for the highest score: Zenon writes a number out in unary. *)
ScoreCap == 1000000

LEMMA ScoreType ==
  ASSUME RoutingInv, NEW rule \in ActiveRules, NEW t \in Tables
  PROVE  /\ rule.similarity[CandidateText(t)] \in Int
         /\ CandidateScore(rule, t) \in 350..950
         /\ TotalScore(rule, t) \in Int /\ TotalScore(rule, t) <= ScoreCap
         /\ TotalScore(rule, t) <=
              1000 * CandidateScore(rule, t) + 350 * rule.similarity[CandidateText(t)]
<1>1. rule.similarity[CandidateText(t)] \in Int
  BY CandidateTextKnown, ActiveRulesAssumption
<1>2. CandidateScore(rule, t) \in 350..950
  <2> DEFINE a == IF logical_tables[t].header \in rule.required_headers THEN 350 ELSE 0
             b == IF rule.required_context_keywords \subseteq ContextWords(t) THEN 150 ELSE 0
             c == IF rule.title_pattern \intersect ContextWords(t) # {} THEN 100 ELSE 0
  <2>1. a \in {0, 350} /\ b \in {0, 150} /\ c \in {0, 100}
    BY Zenon
  <2>2. CandidateScore(rule, t) = 350 + a + b + c
    BY DEF CandidateScore
  <2> HIDE DEF a, b, c
  <2> QED
    BY <2>1, <2>2
<1> DEFINE score == 1000 * CandidateScore(rule, t) + 350 * rule.similarity[CandidateText(t)]
<1>3. score \in Int
  <2>1. \A a, b \in Int : 1000 * a + 350 * b \in Int
    BY SMT
  <2>2. CandidateScore(rule, t) \in Int
    BY <1>2
  <2> QED
    BY <1>1, <2>1, <2>2, SMT
<1>4. TotalScore(rule, t) = Min({score, ScoreCap}) /\ ScoreCap \in Int
  BY SMT DEF TotalScore, ScoreCap
<1> HIDE DEF score
<1>5. /\ TotalScore(rule, t) \in Int /\ TotalScore(rule, t) <= ScoreCap
      /\ TotalScore(rule, t) <= score
  BY <1>3, <1>4, MinOfTwo
<1> QED
  BY <1>1, <1>2, <1>5, SMT DEF score

LEMMA ScoreCapped ==
  ASSUME RoutingInv, NEW rule \in ActiveRules, NEW t \in Tables
  PROVE  TotalScore(rule, t) \in Int /\ TotalScore(rule, t) <= ScoreCap
BY ScoreType

LEMMA BestTableExists ==
  ASSUME RoutingInv, NEW rule \in ActiveRules, SectionTables(rule) # {}
  PROVE  BestTable(rule) \in SectionTables(rule)
<1> DEFINE Candidates == SectionTables(rule)
           Behind(t) == ScoreCap - TotalScore(rule, t)
           Best(t) == \A u \in Candidates :
                        \/ TotalScore(rule, t) > TotalScore(rule, u)
                        \/ TotalScore(rule, t) = TotalScore(rule, u) /\ t <= u
<1>1. Candidates \in SUBSET Tables /\ Candidates # {} /\ Tables \in SUBSET Nat
  <2>1. PICK S : logical_tables \in Seq(S)
    BY DEF RoutingInv, PreparationInv, TablesInv
  <2>2. Tables \in SUBSET Nat
    BY <2>1 DEF Tables
  <2> QED
    BY <2>2 DEF SectionTables
<1>2. \A t \in Candidates : TotalScore(rule, t) \in Int /\ TotalScore(rule, t) <= ScoreCap
  <2>1. \A t \in Tables : TotalScore(rule, t) \in Int /\ TotalScore(rule, t) <= ScoreCap
    BY ScoreCapped, Zenon
  <2> QED
    BY <1>1, <2>1, Zenon
<1>11. ScoreCap \in Int
  BY SMT DEF ScoreCap
<1>3. BestTable(rule) = CHOOSE t \in Candidates : Best(t)
  BY DEF BestTable
<1> HIDE DEF Candidates
<1>4. \A t \in Candidates : Behind(t) \in Nat
  BY <1>2, <1>11
<1>5. PICK n \in {Behind(t) : t \in Candidates} : \A m \in {Behind(t) : t \in Candidates} : n <= m
  <2> HIDE DEF Behind
  <2>1. {Behind(t) : t \in Candidates} \in SUBSET Nat /\ {Behind(t) : t \in Candidates} # {}
    BY <1>1, <1>4
  <2> QED
    BY <2>1, Least
<1> DEFINE Highest == {t \in Candidates : Behind(t) = n}
<1>6. Highest \in SUBSET Nat /\ Highest # {}
  BY <1>1, <1>5
<1>7. PICK t \in Highest : \A u \in Highest : t <= u
  <2> HIDE DEF Highest
  <2> QED
    BY <1>6, Least
<1>8. ASSUME NEW u \in Candidates
      PROVE  \/ TotalScore(rule, t) > TotalScore(rule, u)
             \/ TotalScore(rule, t) = TotalScore(rule, u) /\ t <= u
  <2>1. Behind(t) <= Behind(u) /\ (Behind(u) = Behind(t) => t <= u)
    BY <1>5, <1>7, <1>8
  <2>2. \A a, b, c \in Int : c - a <= c - b => a > b \/ (a = b /\ c - b = c - a)
    OBVIOUS
  <2>3. TotalScore(rule, t) \in Int /\ TotalScore(rule, u) \in Int
    BY <1>2, <1>7, <1>8
  <2> QED
    BY <1>11, <2>1, <2>2, <2>3
<1>9. t \in Candidates /\ Best(t)
  BY <1>7, <1>8
<1> HIDE DEF Best
<1>10. BestTable(rule) \in Candidates
  BY <1>3, <1>9
<1> QED
  BY <1>10 DEF Candidates

TableDecision(t) ==
  RouteDecision("FAST_TRACK", logical_tables[t].section_path, t, logical_tables[t].context_before)

(* A rule gets a table of its section, over the threshold, or none. *)
LEMMA RouteFinds ==
  ASSUME RoutingInv, NEW rule \in ActiveRules, Route(rule).matched_table # NoTable
  PROVE  LET t == Route(rule).matched_table
         IN  /\ t \in Tables
             /\ TotalScore(rule, t) >= Threshold(rule)
             /\ Route(rule) = TableDecision(t)
<1> DEFINE best == BestTable(rule)
<1>1. /\ SectionTables(rule) # {} /\ TotalScore(rule, best) >= Threshold(rule)
      /\ Route(rule) = TableDecision(best)
  BY DEF Route, RouteDecision, TableDecision
<1>2. Route(rule).matched_table = best
  BY <1>1 DEF RouteDecision, TableDecision
<1>3. best \in Tables
  BY <1>1, BestTableExists DEF SectionTables
<1> QED
  BY <1>1, <1>2, <1>3

(* The headers of an anchor decide as long as keywords and title, which are worth 250
   on top of the 350 for the section, do not clear the threshold.                     *)
ThresholdsAboveContext ==
  \A rule \in ActiveRules : rule.min_match_score = 0 \/ rule.min_match_score > 600

LEMMA HeadersRequired ==
  ASSUME ThresholdsAboveContext, RoutingInv, NEW rule \in ActiveRules,
         rule \in PlainRules,
         Route(rule).matched_table # NoTable
  PROVE  logical_tables[Route(rule).matched_table].header \in rule.required_headers
<1> DEFINE t == Route(rule).matched_table
           similarity == rule.similarity[CandidateText(t)]
<1>1. t \in Tables /\ TotalScore(rule, t) >= Threshold(rule)
  BY RouteFinds
<1> HIDE DEF t
<1>2. similarity = 0
  BY <1>1, CandidateTextKnown, ActiveRulesAssumption DEF PlainRules
<1>3. \E s \in Int : s > 600 /\ Threshold(rule) = 1000 * s
  <2>1. rule.min_match_score \in Int
    BY ActiveRulesAssumption
  <2>2. CASE rule.min_match_score = 0
    BY <2>2, SMT DEF Threshold
  <2>3. CASE rule.min_match_score # 0
    BY <2>1, <2>3, SMT DEF Threshold, ThresholdsAboveContext
  <2> QED
    BY <2>2, <2>3
<1>4. PICK s \in Int : s > 600 /\ Threshold(rule) = 1000 * s
  BY <1>3
<1>5. /\ TotalScore(rule, t) \in Int /\ CandidateScore(rule, t) \in Int
      /\ TotalScore(rule, t) <= 1000 * CandidateScore(rule, t) + 350 * similarity
  BY <1>1, ScoreType
<1>6. CandidateScore(rule, t) > 600
  <2>1. \A a, b, c \in Int : a >= 1000 * b /\ a <= 1000 * c + 350 * 0 /\ b > 600 => c > 600
    BY SMT
  <2> HIDE DEF similarity
  <2> QED
    BY <1>1, <1>2, <1>4, <1>5, <2>1, SMT
<1>7. ASSUME logical_tables[t].header \notin rule.required_headers
      PROVE  CandidateScore(rule, t) <= 600
  <2> DEFINE b == IF rule.required_context_keywords \subseteq ContextWords(t) THEN 150 ELSE 0
             c == IF rule.title_pattern \intersect ContextWords(t) # {} THEN 100 ELSE 0
  <2>1. b \in {0, 150} /\ c \in {0, 100}
    BY Zenon
  <2>2. CandidateScore(rule, t) = 350 + 0 + b + c
    BY <1>7 DEF CandidateScore
  <2> HIDE DEF b, c
  <2> QED
    BY <2>1, <2>2
<1>8. logical_tables[t].header \in rule.required_headers
  BY <1>5, <1>6, <1>7
<1> QED
  BY <1>8 DEF t

(* Rules that ask for different headers share no table, whatever the document, their
   keywords, titles and sections: RulesShareNoTable.  With a threshold of 600 or less
   the keywords and the title alone would do.                                         *)
THEOREM TablesNotShared ==
  ASSUME ThresholdsAboveContext
  PROVE  Spec => []RulesShareNoTable
<1>1. ASSUME RoutingInv
      PROVE  RulesShareNoTable
  <2>1. ASSUME NEW r \in PlainRules, NEW q \in PlainRules,
               r.required_headers \intersect q.required_headers = {}
        PROVE  \/ Route(r).matched_table = NoTable
               \/ Route(r).matched_table # Route(q).matched_table
    <3>1. ASSUME Route(r).matched_table # NoTable,
                 Route(r).matched_table = Route(q).matched_table
          PROVE  FALSE
      <4>1. logical_tables[Route(r).matched_table].header \in r.required_headers
        BY <1>1, <3>1, HeadersRequired DEF PlainRules
      <4>2. logical_tables[Route(q).matched_table].header \in q.required_headers
        BY <1>1, <3>1, HeadersRequired DEF PlainRules
      <4> QED
        BY <2>1, <3>1, <4>1, <4>2
    <3> QED
      BY <3>1
  <2> QED
    BY <2>1, Zenon DEF RulesShareNoTable
<1> QED
  BY <1>1, RoutingInvariance, PTL

----------------------------------------------------------------------------
(* What stands right above a table is part of its context. *)
LEMMA ContextOfTable ==
  ASSUME RoutingInv, NEW t \in Tables
  PROVE  /\ logical_tables[t].context_before \in SUBSET Texts
         /\ Texts \in SUBSET Nat /\ IsFiniteSet(Texts)
         /\ TextAbove(t) \in Texts => TextAbove(t) \in logical_tables[t].context_before
<1> DEFINE segments == logical_tables[t].segments
           first == Head(segments)
<1>1. /\ blocks \in Seq(Block) /\ WellFormed(blocks, logical_tables[t])
      /\ HasContext(blocks, logical_tables[t])
  BY DEF RoutingInv, PreparationInv, TablesInv, ContextInv
<1>2. segments \in Seq(Nat) /\ segments # <<>>
  BY <1>1 DEF WellFormed
<1> HIDE DEF segments
<1>3. first \in Nat
  BY <1>2
<1>4. logical_tables[t].context_before = TextsBefore(first) /\ TextAbove(t) = first - 1
  BY <1>1, ContextIsTextsBefore DEF HasContext, TextAbove, segments
<1> HIDE DEF first
<1> QED
  BY <1>1, <1>3, <1>4, TextsBeforeType

(* The texts the normaliser reads for a rule that has a table. *)
LEMMA CandidatesOrder ==
  ASSUME RoutingInv, NEW t \in Tables
  PROVE  LET decision == TableDecision(t)
             texts == CandidateTexts(decision)
             near == {i \in Texts : blocks[i].page_idx \in PagesOf(t)}
                       \union logical_tables[t].context_before
         IN  /\ DOMAIN texts \in SUBSET Nat
             /\ \A n \in DOMAIN texts : texts[n] \in near
             /\ \A i \in logical_tables[t].context_before : \E n \in DOMAIN texts : texts[n] = i
<1> DEFINE decision == TableDecision(t)
           onPages == {i \in Texts : blocks[i].page_idx \in PagesOf(t)}
           context == logical_tables[t].context_before
           a == Ascending(onPages)
           b == Ascending(context)
<1>1. t # NoTable
  <2>1. PICK S : logical_tables \in Seq(S)
    BY DEF RoutingInv, PreparationInv, TablesInv
  <2> QED
    BY <2>1 DEF Tables, NoTable
<1>2. CandidateTexts(decision) = a \o b
  BY <1>1 DEF CandidateTexts, RouteDecision, TableDecision, MatchedPages
<1>3. /\ onPages \in SUBSET Texts /\ context \in SUBSET Texts
      /\ Texts \in SUBSET Nat /\ IsFiniteSet(Texts)
  BY ContextOfTable
<1> HIDE DEF onPages, context
<1>4. /\ onPages \in SUBSET Nat /\ IsFiniteSet(onPages)
      /\ context \in SUBSET Nat /\ IsFiniteSet(context)
  BY <1>3, FS_Subset
<1>5. /\ a \in Seq(Nat) /\ \A n \in DOMAIN a : a[n] \in onPages
      /\ b \in Seq(Nat) /\ \A n \in DOMAIN b : b[n] \in context
      /\ \A i \in context : \E n \in DOMAIN b : b[n] = i
  BY <1>4, AscendingOrder, AscendingIsSeq
<1> HIDE DEF a, b
<1>6. IsConcatenation(Nat, a \o b, a, b)
  BY <1>5, Concatenated
<1>7. DOMAIN (a \o b) \in SUBSET Nat
  BY <1>5
<1> DEFINE texts == a \o b
<1> HIDE DEF texts
<1>8. \A n \in DOMAIN texts : texts[n] \in onPages \union context
  BY <1>5, <1>6, Zenon DEF IsConcatenation, texts
<1>9. \A i \in context : \E n \in DOMAIN texts : texts[n] = i
  BY <1>5, <1>6, Zenon DEF IsConcatenation, texts
<1> QED
  BY <1>2, <1>7, <1>8, <1>9 DEF texts, onPages, context

(* The text above a table is among those the normaliser reads, on whatever page it is,
   and what it takes is named near the table: UnitAboveIsFound.                        *)
THEOREM UnitsFound == Spec => []UnitAboveIsFound
<1>1. ASSUME RoutingInv, NEW rule \in ActiveRules, Route(rule).matched_table # NoTable,
             HasUnitAbove(Route(rule).matched_table)
      PROVE  LET t == Route(rule).matched_table
                 near == {i \in Texts : blocks[i].page_idx \in PagesOf(t)}
                           \union logical_tables[t].context_before
             IN  FirstUnit(Route(rule)) \in {UnitNamed(i) : i \in near} \ {"NONE"}
  <2> DEFINE t == Route(rule).matched_table
             near == {i \in Texts : blocks[i].page_idx \in PagesOf(t)}
                       \union logical_tables[t].context_before
             texts == CandidateTexts(Route(rule))
             naming == {n \in DOMAIN texts : UnitNamed(texts[n]) # "NONE"}
  <2>1. /\ t \in Tables
        /\ Route(rule) = TableDecision(t)
    BY <1>1, RouteFinds
  <2> HIDE DEF t
  <2>2. TextAbove(t) \in logical_tables[t].context_before /\ UnitNamed(TextAbove(t)) # "NONE"
    <3>1. TextAbove(t) \in Texts /\ UnitNamed(TextAbove(t)) # "NONE"
      BY <1>1 DEF HasUnitAbove, t
    <3> QED
      BY <1>1, <2>1, <3>1, ContextOfTable
  <2>3. /\ DOMAIN texts \in SUBSET Nat
        /\ \A n \in DOMAIN texts : texts[n] \in near
        /\ \A i \in logical_tables[t].context_before : \E n \in DOMAIN texts : texts[n] = i
    BY <1>1, <2>1, CandidatesOrder
  <2> HIDE DEF texts, near
  <2>4. naming \in SUBSET Nat /\ naming # {}
    BY <2>2, <2>3
  <2>5. Min(naming) \in naming
    <3> HIDE DEF naming
    <3> QED
      BY <2>4, MinIsLeast
  <2>6. texts[Min(naming)] \in near /\ UnitNamed(texts[Min(naming)]) # "NONE"
    BY <2>3, <2>5
  <2>7. TextUnit(Route(rule)) = UnitNamed(texts[Min(naming)])
    BY <2>4 DEF TextUnit, texts
  <2>8. FirstUnit(Route(rule)) = UnitNamed(texts[Min(naming)])
    BY <2>6, <2>7 DEF FirstUnit
  <2> QED
    BY <2>6, <2>8 DEF near, t
<1>2. RoutingInv => UnitAboveIsFound
  BY <1>1, Zenon DEF UnitAboveIsFound
<1> QED
  BY <1>2, RoutingInvariance, PTL
=============================================================================

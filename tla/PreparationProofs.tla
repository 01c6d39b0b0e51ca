-------------------------- MODULE PreparationProofs --------------------------
(***************************************************************************)
(* The merge of tables over page breaks, for documents of any length and   *)
(* blocks of any kind: what goes on over a page break is joined, and       *)
(* nothing else is.                                                        *)
(*                                                                         *)
(* Neither is inductive: the second needs that the block merged last       *)
(* stands on the table's last page, the first that this block, of the      *)
(* table that was begun last, is the latest table block of the document.   *)
(***************************************************************************)
EXTENDS Preparation, SequenceTheorems, FiniteSetTheorems, TLAPS

Block == [type : {"text", "table"}, words : SUBSET STRING, table_body : Seq(STRING),
          section_path : Seq(STRING), page_idx : Nat]

TableBlocksOf(document) == {i \in DOMAIN document : IsTable(document[i])}

(* One logical table of a document: its pages and header, as OnlyContinuationsJoined
   has them, over existing blocks.                                                  *)
WellFormed(document, table) ==
  /\ DOMAIN table = {"section_path", "header", "start_page", "end_page", "segments", "rows",
                    "context_before"}
  /\ table.start_page \in Nat /\ table.end_page \in Nat
  /\ table.segments \in Seq(Nat) /\ table.segments # <<>>
  /\ Len(table.segments) = table.end_page - table.start_page + 1
  /\ \A s \in DOMAIN table.segments :
       /\ table.segments[s] \in TableBlocksOf(document)
       /\ document[table.segments[s]].page_idx = table.start_page + s - 1
       /\ Header(document[table.segments[s]]) = table.header

TablesInv ==
  /\ \E S : logical_tables \in Seq(S)
  /\ \A t \in Tables : WellFormed(blocks, logical_tables[t])

(* active_block is the latest table block. *)
LatestInv ==
  \A i \in TableBlocks :
    logical_tables # <<>> /\ i <= Last(Last(logical_tables).segments)

PreparationInv ==
  /\ blocks \in Seq(Block)
  /\ TablesInv
  /\ LatestInv
  /\ ContinuationsJoined

----------------------------------------------------------------------------
LEMMA PlacedBlockType ==
  ASSUME blocks \in Seq(Block), NEW kind \in BlockKinds
  PROVE  PlacedBlock(kind) \in Block
<1>1. kind.step \in Nat /\ kind.type \in {"text", "table"} /\ kind.words \in SUBSET STRING
      /\ kind.table_body \in Seq(STRING) /\ kind.section_path \in Seq(STRING)
  BY BlockKindsAssumption
<1>2. blocks # <<>> => Last(blocks) \in Block
  BY DEF Last
<1>3. (IF blocks = <<>> THEN 0 ELSE Last(blocks).page_idx) \in Nat
  BY <1>2 DEF Block
<1>. QED  BY <1>1, <1>3 DEF PlacedBlock, Block

(* What an appended block changes. *)
LEMMA AppendedBlock ==
  ASSUME NEW document \in Seq(Block), NEW block \in Block
  PROVE  LET longer == Append(document, block)
             index == Len(document) + 1
         IN  /\ longer \in Seq(Block) /\ Len(longer) = index
             /\ DOMAIN longer = 1..index /\ DOMAIN document = 1..Len(document)
             /\ Len(document) \in Nat
             /\ \A i \in DOMAIN document : longer[i] = document[i]
             /\ longer[index] = block
             /\ TableBlocksOf(longer) =
                  TableBlocksOf(document) \union (IF IsTable(block) THEN {index} ELSE {})
<1>. DEFINE longer == Append(document, block)
            index == Len(document) + 1
<1>1. /\ longer \in Seq(Block) /\ Len(longer) = index
      /\ DOMAIN longer = 1..index /\ DOMAIN document = 1..Len(document)
      /\ Len(document) \in Nat
      /\ \A i \in DOMAIN document : longer[i] = document[i]
      /\ longer[index] = block
  OBVIOUS
<1>2. \A i : i \in DOMAIN longer <=> i \in DOMAIN document \/ i = index
  BY <1>1
<1>. HIDE DEF longer
<1>3. \A i : i \in TableBlocksOf(longer) <=>
                i \in TableBlocksOf(document) \/ (i = index /\ IsTable(block))
  BY <1>1, <1>2 DEF TableBlocksOf
<1>4. TableBlocksOf(longer) =
        TableBlocksOf(document) \union (IF IsTable(block) THEN {index} ELSE {})
  BY <1>3
<1>. QED  BY <1>1, <1>4 DEF longer

LEMMA WellFormedKept ==
  ASSUME NEW document \in Seq(Block), NEW block \in Block,
         NEW table, WellFormed(document, table)
  PROVE  WellFormed(Append(document, block), table)
BY AppendedBlock DEF WellFormed, TableBlocksOf

LEMMA NewTableWellFormed ==
  ASSUME NEW document \in Seq(Block), NEW block \in Block, IsTable(block)
  PROVE  WellFormed(Append(document, block), NewLogicalTable(block, Len(document) + 1))
<1>. DEFINE table == NewLogicalTable(block, Len(document) + 1)
            longer == Append(document, block)
            index == Len(document) + 1
<1>. SUFFICES WellFormed(longer, table)
  OBVIOUS
<1>1. /\ table.start_page = block.page_idx /\ table.end_page = block.page_idx
      /\ table.segments = <<index>> /\ table.header = Header(block)
      /\ DOMAIN table = {"section_path", "header", "start_page", "end_page", "segments", "rows",
                    "context_before"}
  BY DEF NewLogicalTable
<1>2. block.page_idx \in Nat
  BY DEF Block
<1>3. longer[index] = block /\ index \in TableBlocksOf(longer) /\ index \in Nat
  BY AppendedBlock
<1>. HIDE DEF table, longer, index
<1>4. /\ table.segments \in Seq(Nat) /\ table.segments # <<>> /\ Len(table.segments) = 1
      /\ \A s \in DOMAIN table.segments : s = 1 /\ table.segments[s] = index
  BY <1>1, <1>3
<1>. QED  BY <1>1, <1>2, <1>3, <1>4 DEF WellFormed

LEMMA SegmentAppended ==
  ASSUME NEW segments \in Seq(Nat), NEW index \in Nat
  PROVE  /\ Append(segments, index) \in Seq(Nat) /\ Append(segments, index) # <<>>
         /\ Len(Append(segments, index)) = Len(segments) + 1
         /\ \A s \in 1..Len(segments) : Append(segments, index)[s] = segments[s]
         /\ Append(segments, index)[Len(segments) + 1] = index
BY AppendProperties

LEMMA ExtendedWellFormed ==
  ASSUME NEW document \in Seq(Block), NEW block \in Block, IsTable(block),
         NEW table, WellFormed(document, table),
         block.page_idx = document[Last(table.segments)].page_idx + 1,
         Header(block) = Header(document[Last(table.segments)])
  PROVE  LET extended == Extended(table, block, Len(document) + 1)
         IN  /\ WellFormed(Append(document, block), extended)
             /\ extended.segments = Append(table.segments, Len(document) + 1)
<1>. DEFINE extended == Extended(table, block, Len(document) + 1)
            longer == Append(document, block)
            index == Len(document) + 1
            last == Len(table.segments)
<1>. SUFFICES WellFormed(longer, extended) /\ extended.segments = Append(table.segments, index)
  OBVIOUS
<1>1. /\ extended.start_page = table.start_page /\ extended.end_page = block.page_idx
      /\ extended.segments = Append(table.segments, index)
      /\ extended.header = table.header
      /\ DOMAIN extended = {"section_path", "header", "start_page", "end_page", "segments", "rows",
                    "context_before"}
  BY DEF Extended, WellFormed
<1>2. /\ last \in Nat /\ last > 0 /\ DOMAIN table.segments = 1..last
      /\ table.segments \in Seq(Nat)
  <2>1. table.segments \in Seq(Nat) /\ table.segments # <<>>
    BY DEF WellFormed
  <2>. QED  BY <2>1, EmptySeq, LenProperties
<1>3. /\ document[table.segments[last]].page_idx = table.start_page + last - 1
      /\ Header(document[table.segments[last]]) = table.header
      /\ last = table.end_page - table.start_page + 1
      /\ table.start_page \in Nat /\ table.end_page \in Nat
  <2>1. last \in DOMAIN table.segments
    BY <1>2
  <2>. QED  BY <2>1 DEF WellFormed
<1>. HIDE DEF extended, longer, index
<1>4. block.page_idx = table.end_page + 1 /\ Header(block) = table.header
  <2>1. document[Last(table.segments)] = document[table.segments[last]]
    BY DEF Last
  <2>. HIDE DEF last
  <2>2. Header(block) = table.header
    BY <2>1, <1>3
  <2>3. \A start, end, n \in Nat : n = end - start + 1 => start + n - 1 + 1 = end + 1
    OBVIOUS
  <2>4. block.page_idx = table.start_page + last - 1 + 1
    BY <2>1, <1>3
  <2>5. block.page_idx = table.end_page + 1
    BY <2>3, <2>4, <1>2, <1>3
  <2>. QED  BY <2>2, <2>5
<1>5. block.page_idx = table.start_page + last /\ table.start_page \in Nat
      /\ block.page_idx \in Nat
  <2>1. \A start, end, n \in Nat : n = end - start + 1 => end + 1 = start + n
    OBVIOUS
  <2>. HIDE DEF last
  <2>2. /\ last = table.end_page - table.start_page + 1 /\ last \in Nat
        /\ table.start_page \in Nat /\ table.end_page \in Nat
    BY <1>2, <1>3
  <2>3. table.end_page + 1 = table.start_page + last
    BY <2>1, <2>2
  <2>4. table.end_page + 1 \in Nat
    BY <2>2
  <2>. QED  BY <2>2, <2>3, <2>4, <1>4
<1>6. /\ longer[index] = block /\ index \in TableBlocksOf(longer) /\ index \in Nat
      /\ \A i \in TableBlocksOf(document) :
           i \in TableBlocksOf(longer) /\ longer[i] = document[i]
  BY AppendedBlock DEF TableBlocksOf, longer, index
<1>7. /\ extended.segments \in Seq(Nat) /\ extended.segments # <<>>
      /\ Len(extended.segments) = last + 1 /\ DOMAIN extended.segments = 1..(last + 1)
      /\ extended.segments[last + 1] = index
      /\ \A s \in 1..last : extended.segments[s] = table.segments[s]
  <2>1. extended.segments = Append(table.segments, index) /\ Len(table.segments) = last
    BY <1>1
  <2>2. table.segments \in Seq(Nat) /\ index \in Nat /\ last \in Nat
    BY <1>2, <1>6
  <2>. HIDE DEF last
  <2>3. LET longest == Append(table.segments, index)
        IN  /\ longest \in Seq(Nat) /\ longest # <<>>
            /\ Len(longest) = Len(table.segments) + 1
            /\ \A s \in 1..Len(table.segments) : longest[s] = table.segments[s]
            /\ longest[Len(table.segments) + 1] = index
    BY <2>2, SegmentAppended
  <2>4. /\ extended.segments \in Seq(Nat) /\ extended.segments # <<>>
        /\ Len(extended.segments) = last + 1
        /\ \A s \in 1..last : extended.segments[s] = table.segments[s]
        /\ extended.segments[last + 1] = index
    BY <2>1, <2>3
  <2>5. DOMAIN extended.segments = 1..(last + 1)
    BY <2>4, LenProperties
  <2>. QED  BY <2>4, <2>5
<1>. HIDE DEF last
<1>8. ASSUME NEW s \in 1..(last + 1)
      PROVE  /\ extended.segments[s] \in TableBlocksOf(longer)
             /\ longer[extended.segments[s]].page_idx = extended.start_page + s - 1
             /\ Header(longer[extended.segments[s]]) = extended.header
  <2>1. CASE s \in 1..last
    BY <2>1, <1>1, <1>2, <1>6, <1>7 DEF WellFormed
  <2>2. CASE s = last + 1
    <3>1. block.page_idx = table.start_page + s - 1
      BY <2>2, <1>2, <1>5
    <3>. QED  BY <3>1, <2>2, <1>1, <1>4, <1>6, <1>7
  <2>. QED  BY <2>1, <2>2, <1>2
<1>9. /\ Len(extended.segments) = extended.end_page - extended.start_page + 1
      /\ extended.start_page \in Nat /\ extended.end_page \in Nat
  BY <1>1, <1>2, <1>5, <1>7
<1>. QED  BY <1>1, <1>7, <1>8, <1>9 DEF WellFormed

LEMMA LastTextPrecedes ==
  ASSUME blocks \in Seq(Block), blocks # <<>>, blocks[Len(blocks)].type = "text"
  PROVE  Len(blocks) \in TextsBefore(Len(blocks) + 1)
<1>. DEFINE n == Len(blocks)
            texts == {i \in Blocks : i < n + 1 /\ blocks[i].type = "text"}
<1>1. n \in Nat /\ Blocks = 1..n /\ n \in texts
  BY EmptySeq, LenProperties DEF Blocks
<1>. DEFINE latest == {j \in texts : j >= n}
<1>2. latest = {n}
  BY <1>1
<1>3. Cardinality({n}) = 1
  BY FS_Singleton
<1>. HIDE DEF latest
<1>4. Cardinality(latest) <= 2
  BY <1>2, <1>3
<1>. QED  BY <1>1, <1>4 DEF TextsBefore, latest

(* The condition of ContinuationsJoined on a pair of blocks of a document. *)
GoesOn(document, i, j) ==
  /\ i < j
  /\ \A k \in (i + 1)..(j - 1) : k \notin TableBlocksOf(document)
  /\ document[j].page_idx = document[i].page_idx + 1
  /\ Header(document[i]) = Header(document[j])
  /\ \/ document[j - 1].type = "text" /\ IsContinued(document[j - 1])
     \/ /\ document[i].section_path = document[j].section_path
        /\ document[i].section_path # <<>>

LEMMA ContinuationsAreGoesOn ==
  ContinuationsJoined <=>
    \A i, j \in TableBlocksOf(blocks) : GoesOn(blocks, i, j) => AreJoined(i, j)
BY DEF ContinuationsJoined, GoesOn, TableBlocks, TableBlocksOf, Blocks

(* A block that goes on from the latest table block is merged into its table. *)
LEMMA GoesOnIsMerged ==
  ASSUME blocks \in Seq(Block), TablesInv, LatestInv, NEW block \in Block, IsTable(block),
         NEW i \in TableBlocksOf(blocks),
         GoesOn(Append(blocks, block), i, Len(blocks) + 1)
  PROVE  /\ Continues(block)
         /\ i = Last(Last(logical_tables).segments)
<1>. DEFINE longer == Append(blocks, block)
            last == Last(Last(logical_tables).segments)
            n == Len(blocks)
<1>1. /\ longer[n + 1] = block /\ n \in Nat /\ i \in 1..n
      /\ TableBlocksOf(longer) = TableBlocksOf(blocks) \union {n + 1}
      /\ \A k \in 1..n : longer[k] = blocks[k]
      /\ DOMAIN blocks = 1..n
  BY AppendedBlock DEF TableBlocksOf
<1>2. logical_tables # <<>> /\ i <= last
  BY DEF LatestInv, TableBlocks, TableBlocksOf, Blocks
<1>3. last \in TableBlocksOf(blocks)
  <2>1. PICK S : logical_tables \in Seq(S)
    BY DEF TablesInv
  <2>2. Len(logical_tables) \in Tables
    BY <1>2, <2>1, EmptySeq, LenProperties DEF Tables
  <2>3. WellFormed(blocks, Last(logical_tables))
    BY <2>2 DEF TablesInv, Last
  <2>4. /\ Last(logical_tables).segments \in Seq(Nat)
        /\ Last(logical_tables).segments # <<>>
    BY <2>3 DEF WellFormed
  <2>5. Len(Last(logical_tables).segments) \in DOMAIN Last(logical_tables).segments
    BY <2>4, EmptySeq, LenProperties
  <2>. QED  BY <2>3, <2>5 DEF WellFormed, Last
<1>. HIDE DEF longer, last, n
<1>4. last \in 1..n
  BY <1>1, <1>3 DEF TableBlocksOf
<1>5. i = last
  <2>1. ~(last \in (i + 1)..((n + 1) - 1))
    BY <1>1, <1>3 DEF GoesOn, longer, n
  <2>. QED  BY <2>1, <1>1, <1>2, <1>4
<1>6. /\ block.page_idx = blocks[i].page_idx + 1
      /\ Header(block) = Header(blocks[i])
      /\ \/ longer[n].type = "text" /\ IsContinued(longer[n])
         \/ block.section_path = blocks[i].section_path /\ blocks[i].section_path # <<>>
  <2>1. (n + 1) - 1 = n
    BY <1>1
  <2>. QED  BY <1>1, <2>1 DEF GoesOn, longer, n
<1>7. CASE longer[n].type = "text" /\ IsContinued(longer[n])
  <2>1. n \in 1..n /\ longer[n] = blocks[n]
    BY <1>1
  <2>2. blocks # <<>>
    BY <1>1, EmptySeq DEF n
  <2>3. n \in TextsBefore(n + 1) /\ IsContinued(blocks[n])
    BY <1>7, <2>1, <2>2, LastTextPrecedes DEF n
  <2>. QED  BY <2>3, <1>2, <1>5, <1>6 DEF Continues, ShouldMerge, ActiveBlock, last, n
<1>8. CASE block.section_path = blocks[i].section_path /\ blocks[i].section_path # <<>>
  BY <1>8, <1>2, <1>5, <1>6 DEF Continues, ShouldMerge, ActiveBlock, last
<1>. QED  BY <1>5, <1>6, <1>7, <1>8 DEF last

----------------------------------------------------------------------------
(* What is left of ContinuationsJoined for a step: the pairs that end with the new
   block, as those before it stay joined.                                         *)
LEMMA JoinedKept ==
  ASSUME blocks \in Seq(Block), ContinuationsJoined, NEW block \in Block,
         blocks' = Append(blocks, block),
         \A i, j \in TableBlocksOf(blocks) : AreJoined(i, j) => AreJoined(i, j)',
         \A n : \A i \in TableBlocksOf(blocks) :
           n = Len(blocks) + 1 /\ IsTable(block) /\ GoesOn(blocks', i, n)
             => AreJoined(i, n)'
  PROVE  ContinuationsJoined'
<1>. DEFINE n == Len(blocks)
<1>1. /\ blocks'[n + 1] = block /\ n \in Nat /\ DOMAIN blocks = 1..n
      /\ TableBlocksOf(blocks') =
           TableBlocksOf(blocks) \union (IF IsTable(block) THEN {n + 1} ELSE {})
      /\ \A k \in 1..n : blocks'[k] = blocks[k]
      /\ TableBlocksOf(blocks) \subseteq 1..n
  BY AppendedBlock DEF TableBlocksOf
<1>2. ASSUME NEW i \in TableBlocksOf(blocks'), NEW j \in TableBlocksOf(blocks'),
             GoesOn(blocks', i, j)
      PROVE  AreJoined(i, j)'
  <2>1. i < j
    BY <1>2 DEF GoesOn
  <2>2. CASE j \in TableBlocksOf(blocks)
    <3>1. i \in TableBlocksOf(blocks)
      BY <1>1, <2>1, <2>2
    <3>2. j - 1 \in 1..n /\ i \in 1..n /\ j \in 1..n
      BY <1>1, <2>1, <2>2, <3>1
    <3>3. GoesOn(blocks, i, j)
      BY <1>1, <1>2, <3>2 DEF GoesOn
    <3>. QED  BY <2>2, <3>1, <3>3, ContinuationsAreGoesOn
  <2>3. CASE j = n + 1 /\ IsTable(block)
    <3>1. i \in TableBlocksOf(blocks)
      BY <1>1, <2>1, <2>3
    <3>. QED  BY <1>2, <2>3, <3>1
  <2>4. j \in TableBlocksOf(blocks) \/ (j = n + 1 /\ IsTable(block))
    BY <1>1
  <2>. QED  BY <2>2, <2>3, <2>4
<1>. QED  BY <1>2 DEF ContinuationsJoined, GoesOn, TableBlocks, TableBlocksOf, Blocks

LEMMA SkipBlockInv ==
  ASSUME PreparationInv, NEW block \in Block, blocks' = Append(blocks, block), SkipBlock(block)
  PROVE  PreparationInv'
<1>1. /\ blocks \in Seq(Block) /\ TablesInv /\ LatestInv /\ ContinuationsJoined
      /\ ~IsTable(block) /\ logical_tables' = logical_tables
  BY DEF PreparationInv, SkipBlock
<1>2. blocks' \in Seq(Block) /\ TableBlocksOf(blocks') = TableBlocksOf(blocks)
  BY <1>1, AppendedBlock
<1>3. TablesInv'
  BY <1>1, WellFormedKept DEF TablesInv, Tables
<1>4. LatestInv'
  BY <1>1, <1>2 DEF LatestInv, TableBlocks, TableBlocksOf, Blocks
<1>5. ContinuationsJoined'
  <2>1. \A i, j : AreJoined(i, j) => AreJoined(i, j)'
    BY <1>1 DEF AreJoined, Tables
  <2>. QED  BY <1>1, <2>1, JoinedKept
<1>. QED  BY <1>2, <1>3, <1>4, <1>5 DEF PreparationInv

LEMMA StartTableInv ==
  ASSUME PreparationInv, NEW block \in Block, blocks' = Append(blocks, block), StartTable(block)
  PROVE  PreparationInv'
<1>. DEFINE table == NewLogicalTable(block, Len(blocks) + 1)
            last == Len(logical_tables)
<1>1. /\ blocks \in Seq(Block) /\ TablesInv /\ LatestInv /\ ContinuationsJoined
      /\ IsTable(block) /\ ~Continues(block)
      /\ logical_tables' = Append(logical_tables, table)
  BY DEF PreparationInv, StartTable
<1>2. /\ blocks' \in Seq(Block)
      /\ TableBlocksOf(blocks') = TableBlocksOf(blocks) \union {Len(blocks) + 1}
      /\ TableBlocksOf(blocks) \subseteq 1..Len(blocks) /\ Len(blocks) \in Nat
  BY <1>1, AppendedBlock DEF TableBlocksOf
<1>3. /\ last \in Nat /\ Tables = 1..last /\ Tables' = 1..(last + 1)
      /\ \E S : logical_tables' \in Seq(S)
      /\ \A t \in Tables : logical_tables'[t] = logical_tables[t]
      /\ logical_tables'[last + 1] = table
      /\ logical_tables' # <<>> /\ Len(logical_tables') = last + 1
  <2>1. PICK S : logical_tables \in Seq(S)
    BY <1>1 DEF TablesInv
  <2>. HIDE DEF table
  <2>2. logical_tables \in Seq(S \union {table})
    BY <2>1, SeqMonotonic
  <2>. QED  BY <1>1, <2>2 DEF Tables
<1>4. TablesInv'
  <2>1. WellFormed(blocks', table)
    BY <1>1, NewTableWellFormed
  <2>2. \A t \in Tables : WellFormed(blocks', logical_tables[t])
    BY <1>1, WellFormedKept DEF TablesInv
  <2>. HIDE DEF table, last
  <2>. QED  BY <1>3, <2>1, <2>2 DEF TablesInv
<1>5. LatestInv'
  <2>1. Last(Last(logical_tables').segments) = Len(blocks) + 1
    <3>1. table.segments = <<Len(blocks) + 1>>
      BY DEF NewLogicalTable
    <3>. HIDE DEF table, last
    <3>2. Last(logical_tables') = table
      BY <1>3 DEF Last
    <3>3. \A n : Last(<<n>>) = n
      BY DEF Last
    <3>. QED  BY <3>1, <3>2, <3>3
  <2>. HIDE DEF table, last
  <2>. QED  BY <1>2, <1>3, <2>1 DEF LatestInv, TableBlocks, TableBlocksOf, Blocks, Last
<1>6. ContinuationsJoined'
  <2>. HIDE DEF table, last
  <2>1. \A i, j : AreJoined(i, j) => AreJoined(i, j)'
    BY <1>3 DEF AreJoined
  <2>2. \A i \in TableBlocksOf(blocks) : ~GoesOn(blocks', i, Len(blocks) + 1)
    BY <1>1, GoesOnIsMerged
  <2>. QED  BY <1>1, <2>1, <2>2, JoinedKept
<1>. QED  BY <1>2, <1>4, <1>5, <1>6 DEF PreparationInv

LEMMA MergeTableInv ==
  ASSUME PreparationInv, NEW block \in Block, blocks' = Append(blocks, block), MergeTable(block)
  PROVE  PreparationInv'
<1>. DEFINE last == Len(logical_tables)
            index == Len(blocks) + 1
            active == logical_tables[last]
            extended == Extended(active, block, index)
<1>1. /\ blocks \in Seq(Block) /\ TablesInv /\ LatestInv /\ ContinuationsJoined
      /\ IsTable(block) /\ Continues(block)
      /\ logical_tables' = [logical_tables EXCEPT ![last] = extended]
  BY DEF PreparationInv, MergeTable
<1>2. /\ blocks' \in Seq(Block)
      /\ TableBlocksOf(blocks') = TableBlocksOf(blocks) \union {index}
      /\ TableBlocksOf(blocks) \subseteq 1..Len(blocks) /\ Len(blocks) \in Nat
  BY <1>1, AppendedBlock DEF TableBlocksOf
<1>3. /\ logical_tables # <<>> /\ Last(logical_tables) = active
      /\ block.page_idx = blocks[Last(active.segments)].page_idx + 1
      /\ Header(block) = Header(blocks[Last(active.segments)])
  BY <1>1 DEF Continues, ShouldMerge, ActiveBlock, Last
<1>4. /\ last \in Tables /\ Tables' = Tables
      /\ \E S : logical_tables' \in Seq(S)
      /\ \A t \in Tables : t # last => logical_tables'[t] = logical_tables[t]
      /\ logical_tables'[last] = extended
      /\ Last(logical_tables') = extended
  <2>1. PICK S : logical_tables \in Seq(S)
    BY <1>1 DEF TablesInv
  <2>. HIDE DEF extended
  <2>2. logical_tables \in Seq(S \union {extended}) /\ last \in Tables
    BY <1>3, <2>1, SeqMonotonic, EmptySeq, LenProperties DEF Tables
  <2>. QED  BY <1>1, <2>2, ExceptSeq DEF Tables, Last
<1>5. /\ WellFormed(blocks', extended)
      /\ extended.segments = Append(active.segments, index)
      /\ active.segments \in Seq(Nat)
  <2>1. WellFormed(blocks, active)
    BY <1>1, <1>4 DEF TablesInv
  <2>2. active.segments \in Seq(Nat)
    BY <2>1 DEF WellFormed
  <2>. QED  BY <1>1, <1>3, <2>1, <2>2, ExtendedWellFormed
<1>6. Last(extended.segments) = index
  BY <1>5 DEF Last
<1>. HIDE DEF extended, active, last
<1>7. /\ \A s \in DOMAIN active.segments :
           s \in DOMAIN extended.segments /\ extended.segments[s] = active.segments[s]
      /\ Len(extended.segments) \in DOMAIN extended.segments
  <2>1. \A k : \A seq \in Seq(Nat) :
          /\ \A s \in DOMAIN seq :
               s \in DOMAIN Append(seq, k) /\ Append(seq, k)[s] = seq[s]
          /\ Len(Append(seq, k)) \in DOMAIN Append(seq, k)
    OBVIOUS
  <2>. QED  BY <1>5, <2>1
<1>. HIDE DEF index
<1>8. TablesInv'
  <2>1. \A t \in Tables : WellFormed(blocks', logical_tables[t])
    BY <1>1, WellFormedKept DEF TablesInv
  <2>. QED  BY <1>4, <1>5, <2>1 DEF TablesInv
<1>9. LatestInv'
  <2>1. logical_tables' # <<>>
    BY <1>4 DEF Tables
  <2>. QED  BY <1>2, <1>4, <1>6, <2>1 DEF LatestInv, TableBlocks, TableBlocksOf, Blocks, index
<1>10. ContinuationsJoined'
  <2>1. ASSUME NEW i, NEW j, AreJoined(i, j)
        PROVE  AreJoined(i, j)'
    <3>1. PICK t \in Tables :
            {i, j} \subseteq {logical_tables[t].segments[s] :
                                s \in DOMAIN logical_tables[t].segments}
      BY <2>1 DEF AreJoined
    <3>2. CASE t = last
      BY <1>4, <1>7, <3>1, <3>2 DEF AreJoined, active
    <3>3. CASE t # last
      BY <1>4, <3>1, <3>3 DEF AreJoined
    <3>. QED  BY <3>2, <3>3
  <2>2. ASSUME NEW i \in TableBlocksOf(blocks), NEW n, n = Len(blocks) + 1,
               GoesOn(blocks', i, n)
        PROVE  AreJoined(i, n)'
    <3>1. i = Last(active.segments)
      BY <1>1, <1>3, <2>2, GoesOnIsMerged
    <3>2. Len(active.segments) \in DOMAIN active.segments
      <4>1. WellFormed(blocks, active)
        BY <1>1, <1>4 DEF TablesInv, active
      <4>. QED  BY <4>1, EmptySeq, LenProperties DEF WellFormed
    <3>3. i \in {extended.segments[s] : s \in DOMAIN extended.segments}
      BY <1>7, <3>1, <3>2 DEF Last
    <3>4. n \in {extended.segments[s] : s \in DOMAIN extended.segments}
      BY <1>6, <1>7, <2>2 DEF Last, index
    <3>. QED  BY <1>4, <3>3, <3>4 DEF AreJoined
  <2>. QED  BY <1>1, <2>1, <2>2, JoinedKept
<1>. QED  BY <1>2, <1>8, <1>9, <1>10 DEF PreparationInv

(* Inductiveness: blocks of any kind, documents of any length. *)
THEOREM Invariance == Spec => []PreparationInv
<1>1. Init => PreparationInv
  <2>1. ASSUME Init
        PROVE  /\ Tables = {} /\ TableBlocks = {}
               /\ blocks \in Seq(Block) /\ logical_tables \in Seq(Block)
    BY <2>1 DEF Init, Tables, TableBlocks, Blocks
  <2>. QED  BY <2>1 DEF PreparationInv, TablesInv, LatestInv, ContinuationsJoined
<1>2. PreparationInv /\ [Next]_vars => PreparationInv'
  <2>. SUFFICES ASSUME PreparationInv, [Next]_vars
                PROVE  PreparationInv'
    OBVIOUS
  <2>1. ASSUME NEW kind \in BlockKinds, ReadBlock(PlacedBlock(kind))
        PROVE  PreparationInv'
    <3>. DEFINE block == PlacedBlock(kind)
    <3>1. block \in Block
      BY PlacedBlockType DEF PreparationInv
    <3>. HIDE DEF block
    <3>2. blocks' = Append(blocks, block) /\ BuildTables(block)
      BY <2>1 DEF ReadBlock, block
    <3>. QED  BY <3>1, <3>2, SkipBlockInv, StartTableInv, MergeTableInv DEF BuildTables
  <2>2. CASE UNCHANGED vars
    BY <2>2 DEF vars, PreparationInv, TablesInv, LatestInv, ContinuationsJoined, Tables,
      TableBlocks, Blocks, AreJoined
  <2>. QED  BY <2>1, <2>2 DEF Next
<1>. QED  BY <1>1, <1>2, PTL DEF Spec

----------------------------------------------------------------------------
TextsBeforeOf(document, index) ==
  LET texts == {i \in DOMAIN document : i < index /\ document[i].type = "text"}
  IN  {i \in texts : Cardinality({j \in texts : j >= i}) <= 2}

GoesOnWithOf(document, i, j) ==
  \/ document[i].section_path = document[j].section_path /\ document[i].section_path # <<>>
  \/ \E k \in TextsBeforeOf(document, j) : IsContinued(document[k])

HasJoins(document, table) ==
  \A s \in DOMAIN table.segments :
    s > 1 => GoesOnWithOf(document, table.segments[s - 1], table.segments[s])

(* Each segment goes on with the one before it. *)
JoinsInv == \A t \in Tables : HasJoins(blocks, logical_tables[t])

LEMMA ContextIsTextsBefore ==
  \A index : TextsBefore(index) = TextsBeforeOf(blocks, index)
BY DEF TextsBefore, TextsBeforeOf, Blocks

LEMMA TextsBeforeKept ==
  ASSUME NEW document \in Seq(Block), NEW block \in Block, NEW index \in 1..(Len(document) + 1)
  PROVE  TextsBeforeOf(Append(document, block), index) = TextsBeforeOf(document, index)
<1> DEFINE texts(d) == {i \in DOMAIN d : i < index /\ d[i].type = "text"}
           longer == Append(document, block)
<1>1. /\ Len(document) \in Nat /\ DOMAIN document = 1..Len(document)
      /\ DOMAIN longer = 1..(Len(document) + 1)
      /\ \A i \in DOMAIN document : longer[i] = document[i]
  BY AppendedBlock
<1> HIDE DEF longer
<1>2. \A i : i \in texts(longer) <=> i \in texts(document)
  BY <1>1
<1>3. texts(longer) = texts(document)
  <2> HIDE DEF texts
  <2> QED
    BY <1>2
<1> QED
  BY <1>3 DEF TextsBeforeOf, longer

LEMMA GoesOnWithKept ==
  ASSUME NEW document \in Seq(Block), NEW block \in Block,
         NEW i \in DOMAIN document, NEW j \in DOMAIN document, GoesOnWithOf(document, i, j)
  PROVE  GoesOnWithOf(Append(document, block), i, j)
<1> DEFINE longer == Append(document, block)
<1>1. /\ \A k \in DOMAIN document : longer[k] = document[k]
      /\ j \in 1..(Len(document) + 1)
  BY AppendedBlock
<1>2. TextsBeforeOf(longer, j) = TextsBeforeOf(document, j)
  BY <1>1, TextsBeforeKept
<1>3. TextsBeforeOf(document, j) \in SUBSET (DOMAIN document)
  BY DEF TextsBeforeOf
<1> HIDE DEF longer
<1>4. GoesOnWithOf(longer, i, j)
  BY <1>1, <1>2, <1>3 DEF GoesOnWithOf
<1> QED
  BY <1>4 DEF longer

LEMMA JoinsKept ==
  ASSUME NEW document \in Seq(Block), NEW block \in Block, NEW table,
         WellFormed(document, table), HasJoins(document, table)
  PROVE  HasJoins(Append(document, block), table)
<1>1. /\ table.segments \in Seq(Nat)
      /\ \A s \in DOMAIN table.segments : table.segments[s] \in DOMAIN document
  BY DEF WellFormed, TableBlocksOf
<1>2. \A s \in DOMAIN table.segments : s > 1 => s - 1 \in DOMAIN table.segments
  BY <1>1
<1> QED
  BY <1>1, <1>2, GoesOnWithKept DEF HasJoins

(* The code's condition for a merge is what GoesOnWith asks for. *)
LEMMA MergedJoins ==
  ASSUME PreparationInv, JoinsInv, NEW block \in Block, blocks' = Append(blocks, block),
         MergeTable(block)
  PROVE  LET active == logical_tables[Len(logical_tables)]
         IN  HasJoins(blocks', Extended(active, block, Len(blocks) + 1))
<1> DEFINE active == logical_tables[Len(logical_tables)]
           index == Len(blocks) + 1
           extended == Extended(active, block, index)
           last == Len(active.segments)
<1>1. /\ blocks \in Seq(Block) /\ WellFormed(blocks, active) /\ HasJoins(blocks, active)
      /\ ShouldMerge(blocks[active.segments[last]], block)
  <2>1. logical_tables # <<>> /\ ShouldMerge(blocks[active.segments[last]], block)
    BY DEF MergeTable, Continues, ActiveBlock, Last
  <2>2. PICK S : logical_tables \in Seq(S)
    BY DEF PreparationInv, TablesInv
  <2>3. Len(logical_tables) \in Tables
    BY <2>1, <2>2, EmptySeq, LenProperties DEF Tables
  <2> QED
    BY <2>1, <2>3 DEF PreparationInv, TablesInv, JoinsInv
<1>2. /\ active.segments \in Seq(Nat) /\ active.segments # <<>>
      /\ \A s \in DOMAIN active.segments : active.segments[s] \in DOMAIN blocks
      /\ extended.segments = Append(active.segments, index)
  BY <1>1 DEF WellFormed, TableBlocksOf, Extended
<1> HIDE DEF active
<1>3. /\ index \in Nat /\ index \in 1..(Len(blocks) + 1) /\ blocks'[index] = block
      /\ \A k \in DOMAIN blocks : blocks'[k] = blocks[k]
  BY <1>1, AppendedBlock
<1>4. /\ last \in Nat /\ last > 0 /\ DOMAIN active.segments = 1..last
      /\ DOMAIN extended.segments = 1..(last + 1)
      /\ \A s \in 1..last : extended.segments[s] = active.segments[s]
      /\ extended.segments[last + 1] = index
  <2> HIDE DEF extended, index
  <2> QED
    BY <1>2, <1>3, EmptySeq, LenProperties, SegmentAppended
<1> HIDE DEF extended, last
<1>5. GoesOnWithOf(blocks', active.segments[last], index)
  <2>1. active.segments[last] \in DOMAIN blocks
    BY <1>2, <1>4
  <2>2. TextsBefore(index) = TextsBeforeOf(blocks', index)
    BY <1>1, <1>3, ContextIsTextsBefore, TextsBeforeKept
  <2>3. TextsBefore(index) \in SUBSET (DOMAIN blocks)
    BY DEF TextsBefore, Blocks
  <2>4. \/ \E i \in TextsBefore(index) : IsContinued(blocks[i])
        \/ /\ blocks[active.segments[last]].section_path # <<>>
           /\ block.section_path = blocks[active.segments[last]].section_path
    BY <1>1 DEF ShouldMerge
  <2> HIDE DEF index
  <2> QED
    BY <1>3, <2>1, <2>2, <2>3, <2>4 DEF GoesOnWithOf
<1> HIDE DEF index
<1>6. HasJoins(blocks', active)
  BY <1>1, JoinsKept
<1>7. ASSUME NEW s \in 1..(last + 1), s > 1
      PROVE  GoesOnWithOf(blocks', extended.segments[s - 1], extended.segments[s])
  <2>1. CASE s \in 1..last
    <3>1. s - 1 \in 1..last
      BY <1>4, <1>7, <2>1
    <3> QED
      BY <1>4, <1>6, <1>7, <2>1, <3>1 DEF HasJoins
  <2>2. CASE s = last + 1
    <3>1. s - 1 = last /\ last \in 1..last
      BY <1>4, <2>2
    <3> QED
      BY <1>4, <1>5, <2>2, <3>1
  <2> QED
    BY <1>4, <2>1, <2>2
<1>8. HasJoins(blocks', extended)
  BY <1>4, <1>7 DEF HasJoins
<1> QED
  BY <1>8 DEF extended, active, index

LEMMA JoinsStep ==
  ASSUME PreparationInv, JoinsInv, NEW block \in Block, blocks' = Append(blocks, block),
         BuildTables(block)
  PROVE  JoinsInv'
<1> DEFINE last == Len(logical_tables)
           table == NewLogicalTable(block, Len(blocks) + 1)
           extended == Extended(logical_tables[last], block, Len(blocks) + 1)
<1>1. PICK S : logical_tables \in Seq(S)
  BY DEF PreparationInv, TablesInv
<1>2. \A t \in Tables : HasJoins(blocks', logical_tables[t])
  BY JoinsKept DEF PreparationInv, TablesInv, JoinsInv
<1>3. HasJoins(blocks', table)
  <2>1. \A n : DOMAIN <<n>> = {1}
    OBVIOUS
  <2>2. table.segments = <<Len(blocks) + 1>>
    BY DEF NewLogicalTable
  <2> HIDE DEF table
  <2>3. \A s \in DOMAIN table.segments : ~(s > 1)
    BY <2>1, <2>2
  <2> QED
    BY <2>3 DEF HasJoins
<1> HIDE DEF table
<1>4. CASE SkipBlock(block)
  BY <1>2, <1>4 DEF SkipBlock, JoinsInv, Tables
<1>5. CASE StartTable(block)
  <2>1. logical_tables' = Append(logical_tables, table)
    BY <1>5 DEF StartTable, table
  <2>2. logical_tables \in Seq(S \union {table})
    BY <1>1, SeqMonotonic
  <2>3. \A t \in Tables' : \/ t \in Tables /\ logical_tables'[t] = logical_tables[t]
                           \/ logical_tables'[t] = table
    BY <2>1, <2>2 DEF Tables
  <2> QED
    BY <1>2, <1>3, <2>3 DEF JoinsInv
<1>6. CASE MergeTable(block)
  <2>1. HasJoins(blocks', extended)
    BY <1>6, MergedJoins
  <2>2. logical_tables' = [logical_tables EXCEPT ![last] = extended]
    BY <1>6 DEF MergeTable
  <2> HIDE DEF extended
  <2>3. \A t \in Tables' : t \in Tables /\ (logical_tables'[t] = logical_tables[t]
                                            \/ logical_tables'[t] = extended)
    BY <2>2 DEF Tables
  <2> QED
    BY <1>2, <2>1, <2>3 DEF JoinsInv
<1> QED
  BY <1>4, <1>5, <1>6 DEF BuildTables

LEMMA JoinsInvariance == Spec => []JoinsInv
<1>1. Init => JoinsInv
  BY DEF Init, JoinsInv, Tables
<1>2. PreparationInv /\ JoinsInv /\ [Next]_vars => JoinsInv'
  <2> SUFFICES ASSUME PreparationInv, JoinsInv, [Next]_vars
               PROVE  JoinsInv'
    OBVIOUS
  <2>1. ASSUME NEW kind \in BlockKinds, ReadBlock(PlacedBlock(kind))
        PROVE  JoinsInv'
    <3> DEFINE block == PlacedBlock(kind)
    <3>1. block \in Block
      BY PlacedBlockType DEF PreparationInv
    <3> HIDE DEF block
    <3>2. blocks' = Append(blocks, block) /\ BuildTables(block)
      BY <2>1 DEF ReadBlock, block
    <3> QED
      BY <3>1, <3>2, JoinsStep
  <2>2. CASE UNCHANGED vars
    BY <2>2 DEF vars, JoinsInv, Tables
  <2> QED
    BY <2>1, <2>2 DEF Next
<1> QED
  BY <1>1, <1>2, Invariance, PTL DEF Spec

(* Nothing is joined that does not go on: not tables side by side on a page, nor of
   other sections without a "continued" line, nor over a page in between.  The
   property is OnlyContinuationsJoined.                                             *)
THEOREM SegmentsFollowPages == Spec => []OnlyContinuationsJoined
<1>1. PreparationInv /\ JoinsInv => OnlyContinuationsJoined
  <2> SUFFICES ASSUME PreparationInv, JoinsInv, NEW t \in Tables
               PROVE  LET table == logical_tables[t]
                      IN  /\ Len(table.segments) = table.end_page - table.start_page + 1
                          /\ \A s \in DOMAIN table.segments :
                               /\ blocks[table.segments[s]].page_idx = table.start_page + s - 1
                               /\ Header(blocks[table.segments[s]]) = table.header
                               /\ s > 1 => GoesOnWith(table.segments[s - 1], table.segments[s])
    BY DEF OnlyContinuationsJoined
  <2>1. WellFormed(blocks, logical_tables[t]) /\ HasJoins(blocks, logical_tables[t])
    BY DEF PreparationInv, TablesInv, JoinsInv
  <2>2. \A i, j : GoesOnWithOf(blocks, i, j) <=> GoesOnWith(i, j)
    BY ContextIsTextsBefore DEF GoesOnWithOf, GoesOnWith
  <2> QED
    BY <2>1, <2>2 DEF WellFormed, HasJoins
<1> QED
  BY <1>1, Invariance, JoinsInvariance, PTL

(* Whatever goes on over a page break ends up in one logical table, over any number
   of pages: ContinuationsJoined.                                                   *)
THEOREM ContinuationsMerged == Spec => []ContinuationsJoined
<1>1. PreparationInv => ContinuationsJoined
  BY DEF PreparationInv
<1>. QED  BY <1>1, Invariance, PTL
=============================================================================

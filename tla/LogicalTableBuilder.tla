------------------------- MODULE LogicalTableBuilder -------------------------
(***************************************************************************)
(* The merge of tables that a page break cut: LogicalTableBuilder.build,   *)
(* one step per content block, in reading order.                           *)
(*                                                                         *)
(* A block keeps what is read of it: its type, its page, its section, of a *)
(* table the header (first row of table_body) and which other rows are     *)
(* blank, of a text the words the code looks for in it; "continued" stands *)
(* for those of a continued table.  A row of a logical table is named by   *)
(* its block and its place in table_body.  Bounding boxes and blank texts  *)
(* are left out.                                                           *)
(***************************************************************************)
EXTENDS Integers, SequencesExt, FiniteSets, Ordering

VARIABLES blocks,          \* the blocks read so far
          logical_tables   \* the last one is the code's active_table

Tables == DOMAIN logical_tables
Blocks == DOMAIN blocks

IsTable(block) == block.type = "table" /\ block.table_body # <<>>

Header(block) == Head(block.table_body)

(* The rows of table_body from the given one on, without the blank ones. *)
NormalizedRows(block, index, first) ==
  LET kept == Ascending({k \in first..Len(block.table_body) : block.table_body[k] # "blank"})
  IN  [n \in DOMAIN kept |-> <<index, kept[n]>>]

(* Mutant: the header of the next page stays among the rows. *)
HeaderKept(block, header) == 1

(* _drop_repeated_header: where the new rows of a merged block begin. *)
FirstNewRow(block, header) == IF Header(block) = header THEN 2 ELSE 1

(* _collect_preceding_texts: the two texts before a block, tables and page breaks
   between them skipped.                                                          *)
TextsBefore(index) ==
  LET texts == {i \in Blocks : i < index /\ blocks[i].type = "text"}
  IN  {i \in texts : Cardinality({j \in texts : j >= i}) <= 2}

IsContinued(block) == "continued" \in block.words

(* Mutants: headers and sections decide, pages do not; pages and headers decide alone. *)
ShouldMergeAnyPage(previous, block) ==
  /\ Header(block) = Header(previous)
  /\ \/ \E i \in TextsBefore(Len(blocks) + 1) : IsContinued(blocks[i])
     \/ previous.section_path # <<>> /\ block.section_path = previous.section_path

ShouldMergeAnySection(previous, block) ==
  block.page_idx = previous.page_idx + 1 /\ Header(block) = Header(previous)

(* A block has no section_path (None) exactly if the sequence is empty. *)
ShouldMerge(previous, block) ==
  /\ block.page_idx = previous.page_idx + 1
  /\ Header(block) = Header(previous)
  /\ \/ \E i \in TextsBefore(Len(blocks) + 1) : IsContinued(blocks[i])
     \/ previous.section_path # <<>> /\ block.section_path = previous.section_path

(* Mutant: active_block stays the first block of the table. *)
FirstBlock(table) == blocks[Head(table.segments)]

(* active_block: the block that was merged last.  Its header is active_header,
   as only blocks with that header are merged.                               *)
ActiveBlock(table) == blocks[Last(table.segments)]

NewLogicalTable(block, index) ==
  [section_path |-> block.section_path, header |-> Header(block),
   start_page |-> block.page_idx, end_page |-> block.page_idx,
   segments |-> <<index>>, rows |-> NormalizedRows(block, index, 2),
   context_before |-> TextsBefore(index)]

Extended(table, block, index) ==
  [table EXCEPT !.end_page = block.page_idx,
                !.segments = Append(@, index),
                !.rows = @ \o NormalizedRows(block, index, FirstNewRow(block, table.header))]

Continues(block) ==
  logical_tables # <<>> /\ ShouldMerge(ActiveBlock(Last(logical_tables)), block)

----------------------------------------------------------------------------
SkipBlock(block) ==
  /\ ~IsTable(block)
  /\ UNCHANGED logical_tables

StartTable(block) ==
  /\ IsTable(block)
  /\ ~Continues(block)
  /\ logical_tables' = Append(logical_tables, NewLogicalTable(block, Len(blocks) + 1))

MergeTable(block) ==
  /\ IsTable(block)
  /\ Continues(block)
  /\ logical_tables' = [logical_tables EXCEPT ![Len(logical_tables)] =
                          Extended(@, block, Len(blocks) + 1)]

BuildTables(block) == SkipBlock(block) \/ StartTable(block) \/ MergeTable(block)
=============================================================================

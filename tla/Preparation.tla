----------------------------- MODULE Preparation -----------------------------
(***************************************************************************)
(* What the extractor makes of content_list.json: the logical tables and   *)
(* the table of contents, and the outcome of each rule.  The two builders  *)
(* scan the same list one after the other and share nothing, so one step   *)
(* hands a block to both; every state is the outcome for the document that *)
(* ends there.                                                             *)
(*                                                                         *)
(* BlockKinds are blocks with a "step" in place of their page: how many    *)
(* pages after the block before it a block stands.                         *)
(***************************************************************************)
EXTENDS RuleExtraction

CONSTANTS BlockKinds, MaxBlocks,
          ActiveRules   \* the rules of the document's type

ASSUME BlockKindsAssumption ==
  BlockKinds \subseteq [type : {"text", "table"}, words : SUBSET STRING, step : Nat,
                        table_body : Seq(STRING), section_path : Seq(STRING)]

TableHeaders == {Header(kind) : kind \in {k \in BlockKinds : IsTable(k)}}

Words == UNION {kind.words : kind \in BlockKinds}

(* A score is a NUMERIC(4, 3), a similarity a dot product: each may be negative. *)
ASSUME ActiveRulesAssumption ==
  \A rule \in ActiveRules :
    /\ rule.min_match_score \in Int
    /\ rule.similarity \in [TableHeaders \X SUBSET Words -> Int]

vars == <<blocks, logical_tables, nodes_by_path>>

PlacedBlock(kind) ==
  [type |-> kind.type, words |-> kind.words, table_body |-> kind.table_body,
   section_path |-> kind.section_path,
   page_idx |-> kind.step + (IF blocks = <<>> THEN 0 ELSE Last(blocks).page_idx)]

Init == blocks = <<>> /\ logical_tables = <<>> /\ nodes_by_path = <<>>

ReadBlock(block) ==
  /\ BuildTables(block)
  /\ BuildToc(block)
  /\ blocks' = Append(blocks, block)

Next ==
  /\ Len(blocks) < MaxBlocks
  /\ \E kind \in BlockKinds : ReadBlock(PlacedBlock(kind))

Spec == Init /\ [][Next]_vars

----------------------------------------------------------------------------
TableBlocks == {i \in Blocks : IsTable(blocks[i])}

Precedes(row, next) == row[1] < next[1] \/ (row[1] = next[1] /\ row[2] < next[2])

(* Merging loses no row, repeats none and keeps their order, and no header comes
   in as a row: the logical tables, one after the other, have exactly the rows
   below the header of every table block that are not blank.                     *)
NoRowLost ==
  /\ UNION {Range(logical_tables[t].rows) : t \in Tables} =
       UNION {{<<i, k>> : k \in {k \in 2..Len(blocks[i].table_body) :
                                   blocks[i].table_body[k] # "blank"}} : i \in TableBlocks}
  /\ \A t, u \in Tables :
       \A m \in DOMAIN logical_tables[t].rows, n \in DOMAIN logical_tables[u].rows :
         t < u \/ (t = u /\ m < n) => Precedes(logical_tables[t].rows[m], logical_tables[u].rows[n])

(* What may stand between two parts of a table: nothing but a page break within their
   section, or a "continued" line, one of the two texts before the second part.      *)
GoesOnWith(i, j) ==
  \/ blocks[i].section_path = blocks[j].section_path /\ blocks[i].section_path # <<>>
  \/ \E k \in TextsBefore(j) : IsContinued(blocks[k])

(* Nothing else is joined: a logical table has one segment on each page from its first
   to its last, all with its header, and each goes on with the one before it.  Tables
   side by side, of other sections, or on pages apart stay apart.                      *)
OnlyContinuationsJoined ==
  \A t \in Tables :
    LET table == logical_tables[t] IN
    /\ Len(table.segments) = table.end_page - table.start_page + 1
    /\ \A s \in DOMAIN table.segments :
         /\ blocks[table.segments[s]].page_idx = table.start_page + s - 1
         /\ Header(blocks[table.segments[s]]) = table.header
         /\ s > 1 => GoesOnWith(table.segments[s - 1], table.segments[s])

AreJoined(i, j) ==
  \E t \in Tables : {i, j} \subseteq {logical_tables[t].segments[s] :
                                        s \in DOMAIN logical_tables[t].segments}

(* A table that goes on over any number of pages is one logical table: two table
   blocks with no other between them, on successive pages, with one header, and
   in one section or with a "continued" line right above the second, are joined. *)
ContinuationsJoined ==
  \A i, j \in TableBlocks :
    (/\ i < j
     /\ \A k \in (i + 1)..(j - 1) : k \notin TableBlocks
     /\ blocks[j].page_idx = blocks[i].page_idx + 1
     /\ Header(blocks[i]) = Header(blocks[j])
     /\ \/ blocks[j - 1].type = "text" /\ IsContinued(blocks[j - 1])
        \/ blocks[i].section_path = blocks[j].section_path /\ blocks[i].section_path # <<>>)
    => AreJoined(i, j)

SectionBlocks(path) == {i \in Blocks : path # <<>> /\ IsPrefix(path, blocks[i].section_path)}

Sections == UNION {Prefixes(blocks[i].section_path) \ {<<>>} : i \in Blocks}

(* The tree has one node for each section of any block, and its pages run from the
   first to the last block of the section, those of its subsections included.      *)
TocCoversBlocks ==
  /\ {nodes_by_path[n].path : n \in Nodes} = Sections
  /\ Len(nodes_by_path) = Cardinality(Sections)
  /\ \A n \in Nodes :
       LET pages == {blocks[i].page_idx : i \in SectionBlocks(nodes_by_path[n].path)}
       IN  nodes_by_path[n].start_page = Min(pages) /\ nodes_by_path[n].end_page = Max(pages)

(* No section goes on after a block of another section, as in a report whose
   headings were all recognised.                                              *)
NeverReturns ==
  \A path \in Sections : \A i, k \in SectionBlocks(path) :
    \A j \in i..k : j \in SectionBlocks(path) \/ blocks[j].section_path = <<>>

InToc(path) == TocContainsPath(path, ReplaceForTask)

Paths == UNION {Prefixes(kind.section_path) : kind \in BlockKinds}

(* In such a report the walk over the stored rows, which know titles and parents
   but no paths, finds exactly the sections of the document, also where a title
   stands in several of them.                                                    *)
SectionsFound ==
  NeverReturns => \A path \in Paths : InToc(path) <=> path \in Sections

(* requirement.md: NOT_FIND says that the document has no such section.  No rule
   whose section holds a logical table may get it.                               *)
RuleFindsItsSection ==
  \A t \in Tables : logical_tables[t].section_path # <<>> =>
    InToc(logical_tables[t].section_path)

----------------------------------------------------------------------------
(* The pipeline's model of an extraction lets a rule yield any of Outcomes; no
   document, rule or answer of the LLM yields another.                         *)
OutcomesExpected ==
  \A rule \in ActiveRules :
    LET decision == Route(rule)
    IN  \A answer \in LlmAnswers : Outcome(decision, answer) \in Outcomes

PlainRules ==
  {r \in ActiveRules : \A text \in DOMAIN r.similarity : r.similarity[text] = 0}

(* An anchor tells tables apart: of two rules without vectors that ask for different
   headers, no table is extracted for both, with any thresholds above 600.          *)
RulesShareNoTable ==
  LET taken == [r \in PlainRules |-> Route(r).matched_table]
  IN  \A r, q \in PlainRules :
        r.required_headers \intersect q.required_headers = {}
          => taken[r] = NoTable \/ taken[r] # taken[q]

(* The text right above a table, which requirement.md asks to search for the unit. *)
TextAbove(t) == Head(logical_tables[t].segments) - 1

HasUnitAbove(t) == TextAbove(t) \in Texts /\ UnitNamed(TextAbove(t)) # "NONE"

(* A table with its unit right above it, on its own page or at the foot of the page
   before, is never taken for one without a unit, and what it gets is named above it
   or on its pages.                                                                 *)
UnitAboveIsFound ==
  \A rule \in ActiveRules :
    LET decision == Route(rule)
        t == decision.matched_table
        near == {i \in Texts : blocks[i].page_idx \in PagesOf(t)}
                  \union logical_tables[t].context_before
    IN  t # NoTable /\ HasUnitAbove(t) =>
          FirstUnit(decision) \in {UnitNamed(i) : i \in near} \ {"NONE"}
=============================================================================

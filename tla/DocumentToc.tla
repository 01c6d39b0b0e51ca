----------------------------- MODULE DocumentToc -----------------------------
(***************************************************************************)
(* The tree of sections: DocumentTocBuilder.build, one step per content    *)
(* block; the rows DocumentTocRepository.replace_for_task makes of it; and *)
(* the router's search of a rule's path in those rows.                     *)
(*                                                                         *)
(* The builder keys its nodes by path, a row of t_document_toc has a level,*)
(* a title and a parent only.  The id of a row is its place; 0 is no row.  *)
(* Coordinates on the page are left out.                                   *)
(***************************************************************************)
EXTENDS Integers, SequencesExt, FiniteSetsExt, Ordering

VARIABLE nodes_by_path   \* in insertion order, as a dict keeps it

Nodes == DOMAIN nodes_by_path

NewNode(path, page) == [path |-> path, start_page |-> page, end_page |-> page]

(* Mutant: only the innermost section of a block grows. *)
IsInnermost(node, path) == node.path = path

IsOpenIn(node, path) == IsPrefix(node.path, path)

(* Every section on the path of the block ends, so far, on its page; those not
   seen before are opened, outermost first.                                    *)
BuildToc(block) ==
  LET path == block.section_path
      known == {nodes_by_path[n].path : n \in Nodes}
      grown == [n \in Nodes |-> IF IsOpenIn(nodes_by_path[n], path)
                                THEN [nodes_by_path[n] EXCEPT !.end_page = block.page_idx]
                                ELSE nodes_by_path[n]]
      opened == Ascending({depth \in DOMAIN path : SubSeq(path, 1, depth) \notin known})
  IN  nodes_by_path' =
        grown \o [n \in DOMAIN opened |-> NewNode(SubSeq(path, 1, opened[n]), block.page_idx)]

----------------------------------------------------------------------------
Level(n) == Len(nodes_by_path[n].path)
Title(n) == Last(nodes_by_path[n].path)

RowsAbove(n) == {m \in 1..(n - 1) : Level(m) = Level(n) - 1}

(* Mutant: the parent is the first row of the level above. *)
OldestAbove(n) == IF RowsAbove(n) = {} THEN 0 ELSE Min(RowsAbove(n))

(* latest_ids_by_level.get(level - 1) *)
LatestAbove(n) == IF RowsAbove(n) = {} THEN 0 ELSE Max(RowsAbove(n))

(* The rows of the task, parents by id. *)
ReplaceForTask ==
  [n \in Nodes |-> [level |-> Level(n), title |-> Title(n), parent_id |-> LatestAbove(n)]]

(* The walk down a rule's path_fingerprints: at each level the first row of that
   level and title under the row found before.                                   *)
TocContainsPath(path, toc_nodes) ==
  LET found[level \in 0..Len(path)] ==
        IF level = 0 THEN 0
        ELSE IF level > 1 /\ found[level - 1] = 0 THEN 0
        ELSE SelectInSeq(toc_nodes, LAMBDA row : /\ row.level = level
                                                 /\ row.title = path[level]
                                                 /\ row.parent_id = found[level - 1])
  IN  path # <<>> /\ found[Len(path)] # 0
=============================================================================

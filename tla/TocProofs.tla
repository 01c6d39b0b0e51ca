------------------------------ MODULE TocProofs ------------------------------
(***************************************************************************)
(* The table of contents of a document of any length and depth: the tree   *)
(* has a node for every section, and the router's walk over the rows that  *)
(* were stored of it, which know no paths, finds exactly the sections.     *)
(***************************************************************************)
EXTENDS DocumentProofs

(* The table of contents.  A block is within a section if the section's path is
   a beginning of its own.                                                      *)
Path == Seq(STRING)

Outer(path, depth) == SubSeq(path, 1, depth)

IsWithin(block, path) == path # <<>> /\ IsPrefix(path, block.section_path)

LEMMA OuterPaths ==
  ASSUME NEW path \in Path
  PROVE  /\ Len(path) \in Nat /\ DOMAIN path = 1..Len(path)
         /\ \A d \in DOMAIN path : /\ Outer(path, d) \in Path /\ Outer(path, d) # <<>>
                                   /\ Len(Outer(path, d)) = d
         /\ \A d, e \in DOMAIN path : Outer(path, d) = Outer(path, e) => d = e
         /\ Prefixes(path) \ {<<>>} = {Outer(path, d) : d \in DOMAIN path}
<1>1. Len(path) \in Nat /\ DOMAIN path = 1..Len(path)
  BY DEF Path
<1>2. ASSUME NEW d \in DOMAIN path
      PROVE  Outer(path, d) \in Path /\ Outer(path, d) # <<>> /\ Len(Outer(path, d)) = d
  <2>1. d \in Int /\ 1 <= d /\ d <= Len(path) /\ 1 \in Int
    BY <1>1
  <2>2. \A i \in 1..d : path[i] \in STRING
    BY <1>1, <2>1 DEF Path
  <2>3. Outer(path, d) \in Path /\ Len(Outer(path, d)) = d - 1 + 1
    BY <2>1, <2>2, SubSeqProperties DEF Outer, Path
  <2> QED
    BY <2>1, <2>3 DEF Path
<1>3. \A d, e \in DOMAIN path : Outer(path, d) = Outer(path, e) => d = e
  BY <1>2
<1>4. Outer(path, 0) = <<>>
  BY SubSeqEmpty DEF Outer
<1>5. \A l : l \in 0..Len(path) <=> l = 0 \/ l \in DOMAIN path
  BY <1>1
<1>6. \A p : p \in Prefixes(path) \ {<<>>} <=> \E d \in DOMAIN path : p = Outer(path, d)
  <2>1. \A p : p \in Prefixes(path) <=> \E l \in 0..Len(path) : p = Outer(path, l)
    BY DEF Prefixes, Outer
  <2> QED
    BY <1>2, <1>4, <1>5, <2>1, Zenon
<1>7. Prefixes(path) \ {<<>>} = {Outer(path, d) : d \in DOMAIN path}
  BY <1>6
<1> QED
  BY <1>1, <1>2, <1>3, <1>7

LEMMA WithinIsOuter ==
  ASSUME NEW block \in Block, NEW path \in Path
  PROVE  IsWithin(block, path) <=> \E d \in DOMAIN block.section_path :
                                     path = Outer(block.section_path, d)
<1> DEFINE own == block.section_path
<1>1. own \in Path
  BY DEF Block, Path
<1> HIDE DEF own
<1>2. /\ Len(own) \in Nat /\ DOMAIN own = 1..Len(own)
      /\ \A d \in DOMAIN own : Outer(own, d) # <<>> /\ Len(Outer(own, d)) = d
  BY <1>1, OuterPaths
<1>3. Outer(path, Len(path)) = path /\ Len(path) \in Nat
  BY SubSeqFull DEF Outer, Path
<1>4. path # <<>> => Len(path) # 0
  BY EmptySeq DEF Path
<1>5. ASSUME path # <<>>, IsPrefix(path, own)
      PROVE  \E d \in DOMAIN own : path = Outer(own, d)
  <2>1. Len(path) <= Len(own) /\ path = Outer(own, Len(path))
    BY <1>3, <1>5 DEF IsPrefix, Outer
  <2>2. Len(path) \in DOMAIN own
    BY <1>2, <1>3, <1>4, <1>5, <2>1
  <2> QED
    BY <2>1, <2>2
<1>6. ASSUME NEW d \in DOMAIN own, path = Outer(own, d)
      PROVE  path # <<>> /\ IsPrefix(path, own)
  <2>1. Len(path) = d /\ path # <<>>
    BY <1>2, <1>6
  <2>2. Outer(path, Len(path)) = Outer(own, Len(path)) /\ Len(path) <= Len(own)
    BY <1>2, <1>3, <1>6, <2>1
  <2> QED
    BY <2>1, <2>2 DEF IsPrefix, Outer
<1> QED
  BY <1>5, <1>6 DEF IsWithin, own

(* The nodes of a tree for the blocks of a document. *)
Node == [path : Path, start_page : Nat, end_page : Nat]

IsSpan(document, node) ==
  /\ \E i \in DOMAIN document : /\ IsWithin(document[i], node.path)
                                /\ document[i].page_idx = node.start_page
  /\ \E i \in DOMAIN document : /\ IsWithin(document[i], node.path)
                                /\ document[i].page_idx = node.end_page
  /\ \A i \in DOMAIN document : IsWithin(document[i], node.path) =>
       node.start_page <= document[i].page_idx /\ document[i].page_idx <= node.end_page

HasNode(nodes, path) == \E n \in DOMAIN nodes : nodes[n].path = path

HasSection(document, path) == \E i \in DOMAIN document : IsWithin(document[i], path)

IsTreeOf(nodes, document) ==
  /\ nodes \in Seq(Node)
  /\ \A path \in Path : HasNode(nodes, path) <=> HasSection(document, path)
  /\ \A m, n \in DOMAIN nodes : nodes[m].path = nodes[n].path => m = n
  /\ \A n \in DOMAIN nodes : IsSpan(document, nodes[n])

(* Nodes stand in the order in which their sections are met, outer ones first: what
   is within the section q was met in p before, or is within p, which is shorter.    *)
Follows(document, p, q) ==
  \A j \in DOMAIN document : IsWithin(document[j], q) =>
    \/ \E i \in DOMAIN document : i < j /\ IsWithin(document[i], p)
    \/ IsWithin(document[j], p) /\ Len(p) < Len(q)

IsOrdered(nodes, document) ==
  \A m, n \in DOMAIN nodes : m < n => Follows(document, nodes[m].path, nodes[n].path)

(* Nobody turns back a page, so a block ends every section it is within. *)
PagesAscend == \A i \in Blocks : \A j \in Blocks : i <= j => blocks[i].page_idx <= blocks[j].page_idx

TocInv ==
  /\ blocks \in Seq(Block)
  /\ PagesAscend
  /\ IsTreeOf(nodes_by_path, blocks)
  /\ IsOrdered(nodes_by_path, blocks)

LEMMA SectionsAre ==
  ASSUME blocks \in Seq(Block)
  PROVE  \A path : path \in Sections <=> path \in Path /\ HasSection(blocks, path)
<1>1. \A i \in Blocks : /\ blocks[i] \in Block
                         /\ blocks[i].section_path \in Path /\ blocks[i].page_idx \in Nat
  <2>1. \A i \in Blocks : blocks[i] \in Block
    BY DEF Blocks
  <2>2. \A block \in Block : block.section_path \in Path /\ block.page_idx \in Nat
    BY DEF Block, Path
  <2> QED
    BY <2>1, <2>2
<1>2. \A path : path \in Sections <=> path \in Path /\ HasSection(blocks, path)
  <2>1. \A i \in Blocks : \A path :
          path \in Prefixes(blocks[i].section_path) \ {<<>>} <=>
            path \in Path /\ IsWithin(blocks[i], path)
    <3> TAKE i \in Blocks
    <3> TAKE path
    <3>1. path \in Prefixes(blocks[i].section_path) \ {<<>>} <=>
            \E d \in DOMAIN blocks[i].section_path : path = Outer(blocks[i].section_path, d)
      BY <1>1, OuterPaths
    <3>2. \A d \in DOMAIN blocks[i].section_path : Outer(blocks[i].section_path, d) \in Path
      BY <1>1, OuterPaths
    <3>3. path \in Path => (IsWithin(blocks[i], path) <=>
            \E d \in DOMAIN blocks[i].section_path : path = Outer(blocks[i].section_path, d))
      BY <1>1, WithinIsOuter
    <3> QED
      BY <3>1, <3>2, <3>3, Zenon
  <2>2. \A path : path \in Sections <=>
          \E i \in Blocks : path \in Prefixes(blocks[i].section_path) \ {<<>>}
    BY DEF Sections
  <2> QED
    BY <2>1, <2>2, Zenon DEF HasSection, Blocks
<1> QED
  BY <1>2

LEMMA TreeSuffices ==
  ASSUME TocInv
  PROVE  TocCoversBlocks
<1> DEFINE paths == {nodes_by_path[n].path : n \in Nodes}
<1>1. \A i \in Blocks : /\ blocks[i] \in Block
                         /\ blocks[i].section_path \in Path /\ blocks[i].page_idx \in Nat
  <2>1. \A i \in Blocks : blocks[i] \in Block
    BY DEF TocInv, Blocks
  <2>2. \A block \in Block : block.section_path \in Path /\ block.page_idx \in Nat
    BY DEF Block, Path
  <2> QED
    BY <2>1, <2>2
<1>2. \A path : path \in Sections <=> path \in Path /\ HasSection(blocks, path)
  BY SectionsAre DEF TocInv
<1>3. /\ nodes_by_path \in Seq(Node)
      /\ \A path \in Path : HasNode(nodes_by_path, path) <=> HasSection(blocks, path)
      /\ \A m, n \in Nodes : nodes_by_path[m].path = nodes_by_path[n].path => m = n
      /\ \A n \in Nodes : IsSpan(blocks, nodes_by_path[n])
  BY DEF TocInv, IsTreeOf, Nodes
<1>4. /\ Len(nodes_by_path) \in Nat /\ Nodes = 1..Len(nodes_by_path)
      /\ \A n \in Nodes : nodes_by_path[n] \in Node
  BY <1>3 DEF Nodes
<1>5. paths = Sections
  <2>1. \A path : path \in paths <=> path \in Path /\ HasNode(nodes_by_path, path)
    BY <1>4 DEF HasNode, Node, Nodes
  <2> HIDE DEF paths
  <2> QED
    BY <1>2, <1>3, <2>1
<1>6. Len(nodes_by_path) = Cardinality(Sections)
  <2> DEFINE pathOf == [n \in Nodes |-> nodes_by_path[n].path]
  <2>1. pathOf \in Surjection(Nodes, paths)
    BY DEF Surjection
  <2>2. pathOf \in Injection(Nodes, paths)
    BY <1>3 DEF Injection, IsInjective
  <2>3. IsFiniteSet(Nodes) /\ Cardinality(Nodes) = Len(nodes_by_path)
    <3>1. \A k \in Nat : IsFiniteSet(1..k) /\ Cardinality(1..k) = k
      BY FS_Interval
    <3> QED
      BY <1>4, <3>1
  <2> HIDE DEF pathOf, paths
  <2> QED
    BY <1>5, <2>1, <2>2, <2>3, FS_Surjection
<1>7. ASSUME NEW n \in Nodes
      PROVE  LET pages == {blocks[i].page_idx : i \in SectionBlocks(nodes_by_path[n].path)}
             IN  nodes_by_path[n].start_page = Min(pages) /\ nodes_by_path[n].end_page = Max(pages)
  <2> DEFINE node == nodes_by_path[n]
             pages == {blocks[i].page_idx : i \in SectionBlocks(node.path)}
  <2>1. IsSpan(blocks, node) /\ node.start_page \in Nat /\ node.end_page \in Nat
    BY <1>3, <1>4 DEF Node
  <2> HIDE DEF node
  <2>2. \A page : page \in pages <=>
          \E i \in Blocks : IsWithin(blocks[i], node.path) /\ page = blocks[i].page_idx
    BY DEF SectionBlocks, IsWithin
  <2>3. \A page \in pages : page \in Nat
    BY <1>1, <2>2
  <2>4. /\ node.start_page \in pages /\ node.end_page \in pages
        /\ \A page \in pages : node.start_page <= page /\ page <= node.end_page
    BY <2>1, <2>2 DEF IsSpan, Blocks
  <2> HIDE DEF pages
  <2>5. node.start_page = Min(pages)
    <3>1. \A page \in pages : (\A other \in pages : page <= other) <=> page = node.start_page
      BY <2>1, <2>3, <2>4
    <3> QED
      BY <2>4, <3>1 DEF Min
  <2>6. node.end_page = Max(pages)
    <3>1. \A page \in pages : (\A other \in pages : page >= other) <=> page = node.end_page
      BY <2>1, <2>3, <2>4
    <3> QED
      BY <2>4, <3>1 DEF Max
  <2> QED
    BY <2>5, <2>6 DEF node, pages
<1> QED
  BY <1>5, <1>6, <1>7 DEF TocCoversBlocks

(* The blocks of a longer document. *)
LEMMA LongerDocument ==
  ASSUME NEW document \in Seq(Block), NEW block \in Block
  PROVE  LET longer == Append(document, block)
         IN  /\ \A i \in DOMAIN longer : \/ i \in DOMAIN document /\ longer[i] = document[i]
                                         \/ longer[i] = block
             /\ \A i \in DOMAIN document : i \in DOMAIN longer /\ longer[i] = document[i]
             /\ \E i \in DOMAIN longer : longer[i] = block
             /\ \A i \in DOMAIN document : document[i].page_idx \in Nat
             /\ block.page_idx \in Nat /\ block.section_path \in Path
<1>1. /\ \A i \in DOMAIN document : document[i] \in Block
      /\ \A b \in Block : b.page_idx \in Nat /\ b.section_path \in Path
  <2>1. \A b \in Block : b.page_idx \in Nat /\ b.section_path \in Path
    BY DEF Block, Path
  <2> QED
    BY <2>1
<1>2. LET longer == Append(document, block)
      IN  /\ \A i \in DOMAIN longer : \/ i \in DOMAIN document /\ longer[i] = document[i]
                                      \/ longer[i] = block
          /\ \A i \in DOMAIN document : i \in DOMAIN longer /\ longer[i] = document[i]
          /\ Len(document) + 1 \in DOMAIN longer /\ longer[Len(document) + 1] = block
  OBVIOUS
<1> QED
  BY <1>1, <1>2

LEMMA SectionsOfLonger ==
  ASSUME NEW document \in Seq(Block), NEW block \in Block, NEW path
  PROVE  HasSection(Append(document, block), path) <=>
           HasSection(document, path) \/ IsWithin(block, path)
BY LongerDocument DEF HasSection

NeverBefore(document, block) == \A i \in DOMAIN document : document[i].page_idx <= block.page_idx

LEMMA SpanGrows ==
  ASSUME NEW document \in Seq(Block), NEW block \in Block, NeverBefore(document, block),
         NEW node \in Node, IsSpan(document, node), IsWithin(block, node.path)
  PROVE  IsSpan(Append(document, block), [node EXCEPT !.end_page = block.page_idx])
<1> DEFINE grown == [node EXCEPT !.end_page = block.page_idx]
           longer == Append(document, block)
<1>1. grown.path = node.path /\ grown.start_page = node.start_page
      /\ grown.end_page = block.page_idx /\ node.start_page \in Nat
  BY DEF Node
<1>2. /\ \A i \in DOMAIN longer : \/ i \in DOMAIN document /\ longer[i] = document[i]
                                  \/ longer[i] = block
      /\ \A i \in DOMAIN document : i \in DOMAIN longer /\ longer[i] = document[i]
      /\ \E i \in DOMAIN longer : longer[i] = block
      /\ \A i \in DOMAIN document : document[i].page_idx \in Nat
      /\ block.page_idx \in Nat
  BY LongerDocument
<1> HIDE DEF grown, longer
<1>3. PICK first \in DOMAIN document : IsWithin(document[first], node.path)
                                       /\ document[first].page_idx = node.start_page
  BY DEF IsSpan
<1>4. node.start_page <= block.page_idx
  BY <1>3 DEF NeverBefore
<1>5. \A i \in DOMAIN longer : IsWithin(longer[i], node.path) =>
        node.start_page <= longer[i].page_idx /\ longer[i].page_idx <= block.page_idx
  BY <1>2, <1>4 DEF IsSpan, NeverBefore
<1>6. \E i \in DOMAIN longer : IsWithin(longer[i], node.path)
                               /\ longer[i].page_idx = node.start_page
  BY <1>2, <1>3
<1>7. \E i \in DOMAIN longer : IsWithin(longer[i], node.path)
                               /\ longer[i].page_idx = block.page_idx
  BY <1>2
<1> QED
  BY <1>1, <1>5, <1>6, <1>7 DEF IsSpan, grown, longer

LEMMA SpanKept ==
  ASSUME NEW document \in Seq(Block), NEW block \in Block,
         NEW node, IsSpan(document, node), ~IsWithin(block, node.path)
  PROVE  IsSpan(Append(document, block), node)
<1> DEFINE longer == Append(document, block)
<1>1. /\ \A i \in DOMAIN longer : \/ i \in DOMAIN document /\ longer[i] = document[i]
                                  \/ longer[i] = block
      /\ \A i \in DOMAIN document : i \in DOMAIN longer /\ longer[i] = document[i]
  BY LongerDocument
<1> HIDE DEF longer
<1> QED
  BY <1>1, Zenon DEF IsSpan, longer

LEMMA SpanOpened ==
  ASSUME NEW document \in Seq(Block), NEW block \in Block,
         NEW path, ~HasSection(document, path), IsWithin(block, path)
  PROVE  IsSpan(Append(document, block), NewNode(path, block.page_idx))
<1> DEFINE longer == Append(document, block)
           node == NewNode(path, block.page_idx)
<1>1. /\ \A i \in DOMAIN longer : \/ i \in DOMAIN document /\ longer[i] = document[i]
                                  \/ longer[i] = block
      /\ \E i \in DOMAIN longer : longer[i] = block
      /\ block.page_idx \in Nat
  BY LongerDocument
<1>2. node.path = path /\ node.start_page = block.page_idx /\ node.end_page = block.page_idx
  BY DEF NewNode
<1> HIDE DEF longer, node
<1>3. \A i \in DOMAIN longer : IsWithin(longer[i], path) => longer[i] = block
  BY <1>1 DEF HasSection
<1>4. block.page_idx <= block.page_idx
  BY <1>1
<1> QED
  BY <1>1, <1>2, <1>3, <1>4, Zenon DEF IsSpan, longer, node

(* The sections that are known grow, ... *)
GrownNodes(nodes, block) ==
  [n \in DOMAIN nodes |-> IF IsOpenIn(nodes[n], block.section_path)
                          THEN [nodes[n] EXCEPT !.end_page = block.page_idx]
                          ELSE nodes[n]]

LEMMA Grown ==
  ASSUME NEW document \in Seq(Block), NEW block \in Block, NeverBefore(document, block),
         NEW nodes, IsTreeOf(nodes, document)
  PROVE  /\ GrownNodes(nodes, block) \in Seq(Node)
         /\ DOMAIN GrownNodes(nodes, block) = DOMAIN nodes
         /\ \A n \in DOMAIN nodes :
              /\ GrownNodes(nodes, block)[n].path = nodes[n].path
              /\ IsSpan(Append(document, block), GrownNodes(nodes, block)[n])
<1> DEFINE grown == GrownNodes(nodes, block)
           later(node) == [node EXCEPT !.end_page = block.page_idx]
<1>1. /\ nodes \in Seq(Node)
      /\ \A n \in DOMAIN nodes : IsSpan(document, nodes[n])
  BY DEF IsTreeOf
<1>2. block.page_idx \in Nat
  BY LongerDocument
<1>3. \A node \in Node : later(node) \in Node /\ later(node).path = node.path
  BY <1>2 DEF Node
<1>4. DOMAIN grown = DOMAIN nodes
      /\ \A n \in DOMAIN nodes :
           grown[n] = IF IsOpenIn(nodes[n], block.section_path) THEN later(nodes[n]) ELSE nodes[n]
  BY DEF GrownNodes
<1> HIDE DEF grown
<1>5. ASSUME NEW n \in DOMAIN nodes
      PROVE  /\ grown[n] \in Node /\ grown[n].path = nodes[n].path
             /\ IsSpan(Append(document, block), grown[n])
  <2>1. nodes[n] \in Node /\ nodes[n].path # <<>>
    <3>1. nodes[n] \in Node
      BY <1>1
    <3> QED
      BY <1>1, <3>1 DEF IsSpan, IsWithin
  <2>2. IsOpenIn(nodes[n], block.section_path) <=> IsWithin(block, nodes[n].path)
    BY <2>1 DEF IsOpenIn, IsWithin
  <2>3. CASE IsOpenIn(nodes[n], block.section_path)
    <3>1. IsSpan(Append(document, block), later(nodes[n]))
      BY <1>1, <2>1, <2>2, <2>3, SpanGrows
    <3>2. grown[n] = later(nodes[n])
      BY <1>4, <2>3
    <3>3. later(nodes[n]) \in Node /\ later(nodes[n]).path = nodes[n].path
      BY <1>3, <2>1
    <3> HIDE DEF later
    <3> QED
      BY <3>1, <3>2, <3>3
  <2>4. CASE ~IsOpenIn(nodes[n], block.section_path)
    BY <1>1, <1>4, <2>1, <2>2, <2>4, SpanKept
  <2> QED
    BY <2>3, <2>4
<1>6. grown \in Seq(Node)
  <2>1. \E k \in Nat : DOMAIN grown = 1..k
    BY <1>1, <1>4
  <2>2. grown = [n \in DOMAIN grown |-> grown[n]]
    BY DEF grown, GrownNodes
  <2> QED
    BY <1>4, <1>5, <2>1, <2>2
<1> QED
  BY <1>4, <1>5, <1>6 DEF grown

(* ... and those that are not are opened, each once. *)
OpenedDepths(nodes, path) == {d \in DOMAIN path : ~HasNode(nodes, Outer(path, d))}

OpenedNodes(nodes, block) ==
  LET opened == Ascending(OpenedDepths(nodes, block.section_path))
  IN  [n \in DOMAIN opened |-> NewNode(Outer(block.section_path, opened[n]), block.page_idx)]

LEMMA Opened ==
  ASSUME NEW document \in Seq(Block), NEW block \in Block,
         NEW nodes, IsTreeOf(nodes, document)
  PROVE  LET fresh == OpenedNodes(nodes, block)
             own == block.section_path
         IN  /\ fresh \in Seq(Node)
             /\ \A n \in DOMAIN fresh : /\ ~HasNode(nodes, fresh[n].path)
                                        /\ IsWithin(block, fresh[n].path)
                                        /\ IsSpan(Append(document, block), fresh[n])
             /\ \A d \in DOMAIN own :
                  ~HasNode(nodes, Outer(own, d)) => HasNode(fresh, Outer(own, d))
             /\ \A m, n \in DOMAIN fresh : fresh[m].path = fresh[n].path => m = n
             /\ \A m, n \in DOMAIN fresh :
                  m < n => Len(fresh[m].path) < Len(fresh[n].path)
<1> DEFINE own == block.section_path
           depths == OpenedDepths(nodes, own)
           opened == Ascending(depths)
           fresh == OpenedNodes(nodes, block)
           node(d) == NewNode(Outer(own, d), block.page_idx)
<1>1. own \in Path /\ block.page_idx \in Nat
  BY LongerDocument
<1>2. fresh = [n \in DOMAIN opened |-> node(opened[n])]
  BY DEF OpenedNodes
<1> HIDE DEF own, fresh, opened, depths
<1>3. /\ Len(own) \in Nat /\ DOMAIN own = 1..Len(own)
      /\ \A d \in DOMAIN own : Outer(own, d) \in Path
      /\ \A d, e \in DOMAIN own : Outer(own, d) = Outer(own, e) => d = e
  BY <1>1, OuterPaths
<1>4. \A d : d \in depths <=> d \in DOMAIN own /\ ~HasNode(nodes, Outer(own, d))
  BY DEF depths, OpenedDepths
<1>5. depths \in SUBSET Nat /\ IsFiniteSet(depths)
  <2>1. depths \in SUBSET (1..Len(own)) /\ IsFiniteSet(1..Len(own))
    BY <1>3, <1>4, FS_Interval
  <2>2. \A d \in 1..Len(own) : d \in Nat
    BY <1>3
  <2>3. IsFiniteSet(depths)
    BY <2>1, FS_Subset
  <2> QED
    BY <2>1, <2>2, <2>3
<1>6. /\ Cardinality(depths) \in Nat /\ DOMAIN opened = 1..Cardinality(depths)
      /\ \A n \in DOMAIN opened : opened[n] \in depths
      /\ \A d \in depths : \E n \in DOMAIN opened : opened[n] = d
      /\ \A m, n \in DOMAIN opened : m < n => opened[m] < opened[n]
  BY <1>5, AscendingOrder DEF opened
<1>7. \A d \in depths : /\ node(d) \in Node /\ node(d).path = Outer(own, d)
                        /\ ~HasNode(nodes, Outer(own, d))
                        /\ IsWithin(block, Outer(own, d))
                        /\ IsSpan(Append(document, block), node(d))
  <2> TAKE d \in depths
  <2>1. Outer(own, d) \in Path /\ d \in DOMAIN own /\ ~HasNode(nodes, Outer(own, d))
    BY <1>3, <1>4
  <2>2. IsWithin(block, Outer(own, d))
    BY <2>1, WithinIsOuter DEF own
  <2>3. ~HasSection(document, Outer(own, d))
    BY <2>1 DEF IsTreeOf
  <2>4. node(d) \in Node /\ node(d).path = Outer(own, d)
    BY <1>1, <2>1 DEF NewNode, Node
  <2>5. IsSpan(Append(document, block), node(d))
    BY <2>2, <2>3, SpanOpened
  <2> QED
    BY <2>1, <2>2, <2>4, <2>5
<1> HIDE DEF node
<1>8. DOMAIN fresh = DOMAIN opened /\ \A n \in DOMAIN fresh : fresh[n] = node(opened[n])
  BY <1>2
<1>9. fresh \in Seq(Node)
  <2>1. \A n \in DOMAIN opened : node(opened[n]) \in Node
    BY <1>6, <1>7
  <2> QED
    BY <1>2, <1>6, <2>1
<1>10. \A n \in DOMAIN fresh : /\ ~HasNode(nodes, fresh[n].path)
                               /\ IsWithin(block, fresh[n].path)
                               /\ IsSpan(Append(document, block), fresh[n])
  BY <1>6, <1>7, <1>8
<1>11. \A d \in DOMAIN own : ~HasNode(nodes, Outer(own, d)) => HasNode(fresh, Outer(own, d))
  BY <1>4, <1>6, <1>7, <1>8 DEF HasNode
<1>12. ASSUME NEW m \in DOMAIN fresh, NEW n \in DOMAIN fresh, fresh[m].path = fresh[n].path
       PROVE  m = n
  <2>1. opened[m] = opened[n] /\ m \in DOMAIN opened /\ n \in DOMAIN opened
    BY <1>3, <1>4, <1>6, <1>7, <1>8, <1>12
  <2>2. opened[m] \in Nat /\ m \in Nat /\ n \in Nat
    <3>1. opened \in Seq(Nat)
      BY <1>5, AscendingIsSeq DEF opened
    <3> QED
      BY <2>1, <3>1
  <2>3. ~(m < n) /\ ~(n < m)
    BY <1>6, <2>1, <2>2
  <2> QED
    BY <2>2, <2>3
<1>13. \A m, n \in DOMAIN fresh : m < n => Len(fresh[m].path) < Len(fresh[n].path)
  <2>1. \A d \in depths : Len(node(d).path) = d
    BY <1>1, <1>4, <1>7, OuterPaths
  <2> QED
    BY <1>6, <1>8, <2>1
<1> QED
  BY <1>9, <1>10, <1>11, <1>12, <1>13 DEF fresh, own

LEMMA TreeGrows ==
  ASSUME NEW document \in Seq(Block), NEW block \in Block, NeverBefore(document, block),
         NEW nodes, IsTreeOf(nodes, document)
  PROVE  IsTreeOf(GrownNodes(nodes, block) \o OpenedNodes(nodes, block), Append(document, block))
<1> DEFINE grown == GrownNodes(nodes, block)
           fresh == OpenedNodes(nodes, block)
           all == grown \o fresh
           longer == Append(document, block)
           own == block.section_path
<1>1. /\ grown \in Seq(Node) /\ DOMAIN grown = DOMAIN nodes
      /\ \A n \in DOMAIN nodes : grown[n].path = nodes[n].path /\ IsSpan(longer, grown[n])
  BY Grown
<1>2. /\ fresh \in Seq(Node)
      /\ \A n \in DOMAIN fresh : /\ ~HasNode(nodes, fresh[n].path) /\ IsWithin(block, fresh[n].path)
                                 /\ IsSpan(longer, fresh[n])
      /\ \A d \in DOMAIN own : ~HasNode(nodes, Outer(own, d)) => HasNode(fresh, Outer(own, d))
      /\ \A m, n \in DOMAIN fresh : fresh[m].path = fresh[n].path => m = n
  BY Opened
<1>3. \A path : HasSection(longer, path) <=> HasSection(document, path) \/ IsWithin(block, path)
  BY SectionsOfLonger
<1>4. \A path \in Path : IsWithin(block, path) <=> \E d \in DOMAIN own : path = Outer(own, d)
  BY WithinIsOuter
<1>5. /\ \A path \in Path : HasNode(nodes, path) <=> HasSection(document, path)
      /\ \A m, n \in DOMAIN nodes : nodes[m].path = nodes[n].path => m = n
  BY DEF IsTreeOf
<1> HIDE DEF grown, fresh, longer, own
<1>6. IsConcatenation(Node, all, grown, fresh)
  BY <1>1, <1>2, Concatenated
<1> HIDE DEF all
<1>7. all \in Seq(Node)
  BY <1>6 DEF IsConcatenation
<1>8. \A n \in DOMAIN all : \/ n \in DOMAIN grown /\ all[n] = grown[n]
                            \/ \E k \in DOMAIN fresh : n = Len(grown) + k /\ all[n] = fresh[k]
  BY <1>6, Zenon DEF IsConcatenation
<1>9. \A path : HasNode(grown, path) <=> HasNode(nodes, path)
  BY <1>1 DEF HasNode
<1>10. \A path : HasNode(all, path) <=> HasNode(grown, path) \/ HasNode(fresh, path)
  <2> TAKE path
  <2>1. HasNode(all, path) => HasNode(grown, path) \/ HasNode(fresh, path)
    BY <1>8 DEF HasNode
  <2>2. HasNode(grown, path) => HasNode(all, path)
    BY <1>6 DEF HasNode, IsConcatenation
  <2>3. HasNode(fresh, path) => HasNode(all, path)
    BY <1>6 DEF HasNode, IsConcatenation
  <2> QED
    BY <2>1, <2>2, <2>3
<1>11. ASSUME NEW path \in Path
       PROVE  HasNode(all, path) <=> HasSection(longer, path)
  <2>1. HasNode(fresh, path) => IsWithin(block, path)
    BY <1>2 DEF HasNode
  <2>2. IsWithin(block, path) => HasNode(nodes, path) \/ HasNode(fresh, path)
    BY <1>2, <1>4
  <2> QED
    BY <1>3, <1>5, <1>9, <1>10, <2>1, <2>2
<1>12. ASSUME NEW m \in DOMAIN all, NEW n \in DOMAIN all, all[m].path = all[n].path
       PROVE  m = n
  <2>1. CASE m \in DOMAIN grown /\ all[m] = grown[m] /\ n \in DOMAIN grown /\ all[n] = grown[n]
    BY <1>1, <1>5, <1>12, <2>1
  <2>2. ASSUME NEW k \in DOMAIN fresh, all[m] = fresh[k], n \in DOMAIN grown, all[n] = grown[n]
        PROVE  FALSE
    BY <1>1, <1>2, <1>12, <2>2 DEF HasNode
  <2>3. ASSUME NEW k \in DOMAIN fresh, all[n] = fresh[k], m \in DOMAIN grown, all[m] = grown[m]
        PROVE  FALSE
    BY <1>1, <1>2, <1>12, <2>3 DEF HasNode
  <2>4. ASSUME NEW j \in DOMAIN fresh, m = Len(grown) + j, all[m] = fresh[j],
               NEW k \in DOMAIN fresh, n = Len(grown) + k, all[n] = fresh[k]
        PROVE  m = n
    BY <1>2, <1>12, <2>4
  <2> QED
    BY <1>8, <2>1, <2>2, <2>3, <2>4, Zenon
<1>13. \A n \in DOMAIN all : IsSpan(longer, all[n])
  BY <1>1, <1>2, <1>8, Zenon
<1> QED
  BY <1>7, <1>11, <1>12, <1>13 DEF IsTreeOf, all, longer, grown, fresh

LEMMA LongerPlaces ==
  ASSUME NEW document \in Seq(Block), NEW block \in Block
  PROVE  LET longer == Append(document, block)
             last == Len(document) + 1
         IN  /\ \A i \in DOMAIN longer : \/ i \in DOMAIN document /\ longer[i] = document[i]
                                         \/ i = last /\ longer[i] = block
             /\ \A i \in DOMAIN document : i \in DOMAIN longer /\ longer[i] = document[i] /\ i < last
             /\ last \in DOMAIN longer /\ longer[last] = block
             /\ \A i \in DOMAIN longer : i \in Nat
BY AppendedBlock

LEMMA FollowsKept ==
  ASSUME NEW document \in Seq(Block), NEW block \in Block, NEW p, NEW q,
         HasSection(document, q), Follows(document, p, q)
  PROVE  Follows(Append(document, block), p, q)
<1> DEFINE longer == Append(document, block)
           last == Len(document) + 1
<1>1. /\ \A i \in DOMAIN longer : \/ i \in DOMAIN document /\ longer[i] = document[i]
                                  \/ i = last /\ longer[i] = block
      /\ \A i \in DOMAIN document : i \in DOMAIN longer /\ longer[i] = document[i] /\ i < last
      /\ last \in DOMAIN longer /\ longer[last] = block
  BY LongerPlaces
<1> HIDE DEF longer, last
<1>2. ASSUME NEW j \in DOMAIN document, IsWithin(document[j], q)
      PROVE  \/ \E i \in DOMAIN longer : i < j /\ IsWithin(longer[i], p)
             \/ IsWithin(longer[j], p) /\ Len(p) < Len(q)
  BY <1>1, <1>2, Zenon DEF Follows
<1>3. \E i \in DOMAIN longer : i < last /\ IsWithin(longer[i], p)
  <2>1. PICK j \in DOMAIN document : IsWithin(document[j], q)
    BY DEF HasSection
  <2>2. \E i \in DOMAIN document : IsWithin(document[i], p)
    BY <2>1, Zenon DEF Follows
  <2> QED
    BY <1>1, <2>2, Zenon
<1>4. ASSUME NEW j \in DOMAIN longer, IsWithin(longer[j], q)
      PROVE  \/ \E i \in DOMAIN longer : i < j /\ IsWithin(longer[i], p)
             \/ IsWithin(longer[j], p) /\ Len(p) < Len(q)
  BY <1>1, <1>2, <1>3, <1>4, Zenon
<1> QED
  BY <1>4, Zenon DEF Follows, longer

LEMMA FollowsWhenOpened ==
  ASSUME NEW document \in Seq(Block), NEW block \in Block, NEW p, NEW q,
         ~HasSection(document, q),
         HasSection(document, p) \/ (IsWithin(block, p) /\ Len(p) < Len(q))
  PROVE  Follows(Append(document, block), p, q)
<1> DEFINE longer == Append(document, block)
           last == Len(document) + 1
<1>1. /\ \A i \in DOMAIN longer : \/ i \in DOMAIN document /\ longer[i] = document[i]
                                  \/ i = last /\ longer[i] = block
      /\ \A i \in DOMAIN document : i \in DOMAIN longer /\ longer[i] = document[i] /\ i < last
      /\ last \in DOMAIN longer /\ longer[last] = block
  BY LongerPlaces
<1> HIDE DEF longer, last
<1>2. ASSUME NEW j \in DOMAIN longer, IsWithin(longer[j], q)
      PROVE  j = last /\ longer[j] = block
  BY <1>1, <1>2 DEF HasSection
<1>3. \/ \E i \in DOMAIN longer : i < last /\ IsWithin(longer[i], p)
      \/ IsWithin(block, p) /\ Len(p) < Len(q)
  BY <1>1 DEF HasSection
<1> QED
  BY <1>2, <1>3, Zenon DEF Follows, longer

LEMMA OrderKept ==
  ASSUME NEW document \in Seq(Block), NEW block \in Block, NeverBefore(document, block),
         NEW nodes, IsTreeOf(nodes, document), IsOrdered(nodes, document)
  PROVE  IsOrdered(GrownNodes(nodes, block) \o OpenedNodes(nodes, block), Append(document, block))
<1> DEFINE grown == GrownNodes(nodes, block)
           fresh == OpenedNodes(nodes, block)
           all == grown \o fresh
           longer == Append(document, block)
<1>1. /\ grown \in Seq(Node) /\ DOMAIN grown = DOMAIN nodes /\ nodes \in Seq(Node)
      /\ \A n \in DOMAIN nodes : grown[n].path = nodes[n].path
  BY Grown DEF IsTreeOf
<1>2. /\ fresh \in Seq(Node)
      /\ \A n \in DOMAIN fresh : ~HasNode(nodes, fresh[n].path) /\ IsWithin(block, fresh[n].path)
      /\ \A m, n \in DOMAIN fresh : m < n => Len(fresh[m].path) < Len(fresh[n].path)
  BY Opened
<1> HIDE DEF grown, fresh, longer
<1>3. IsConcatenation(Node, all, grown, fresh)
  BY <1>1, <1>2, Concatenated
<1>4. /\ Len(grown) \in Nat /\ \A n \in DOMAIN grown : n \in Nat /\ n <= Len(grown)
      /\ \A n \in DOMAIN fresh : n \in Nat
  BY <1>1, <1>2, PlacesAreNumbers
<1> HIDE DEF all
<1>5. \A n \in DOMAIN all : \/ n \in DOMAIN grown /\ all[n] = grown[n]
                            \/ \E k \in DOMAIN fresh : n = Len(grown) + k /\ all[n] = fresh[k]
  BY <1>3, Zenon DEF IsConcatenation
<1>6. \A n \in DOMAIN grown : HasSection(document, grown[n].path)
  <2>1. \A n \in DOMAIN grown : nodes[n].path \in Path /\ HasNode(nodes, nodes[n].path)
    <3>1. \A node \in Node : node.path \in Path
      BY DEF Node
    <3>2. \A n \in DOMAIN grown : nodes[n] \in Node
      BY <1>1
    <3> QED
      BY <1>1, <3>1, <3>2 DEF HasNode
  <2> QED
    BY <1>1, <2>1 DEF IsTreeOf
<1>7. \A n \in DOMAIN fresh : ~HasSection(document, fresh[n].path)
  <2>1. \A node \in Node : node.path \in Path
    BY DEF Node
  <2>2. \A n \in DOMAIN fresh : fresh[n] \in Node
    BY <1>2
  <2> QED
    BY <1>2, <2>1, <2>2 DEF IsTreeOf
<1>8. ASSUME NEW m \in DOMAIN all, NEW n \in DOMAIN all, m < n
      PROVE  Follows(longer, all[m].path, all[n].path)
  <2>1. CASE m \in DOMAIN grown /\ all[m] = grown[m] /\ n \in DOMAIN grown /\ all[n] = grown[n]
    <3>1. Follows(document, grown[m].path, grown[n].path)
      BY <1>1, <1>8, <2>1 DEF IsOrdered
    <3>2. HasSection(document, grown[n].path)
      BY <1>6, <2>1
    <3> QED
      BY <2>1, <3>1, <3>2, FollowsKept DEF longer
  <2>2. ASSUME NEW k \in DOMAIN fresh, all[n] = fresh[k], m \in DOMAIN grown, all[m] = grown[m]
        PROVE  Follows(longer, all[m].path, all[n].path)
    <3>1. HasSection(document, all[m].path) /\ ~HasSection(document, all[n].path)
      BY <1>6, <1>7, <2>2
    <3> QED
      BY <3>1, FollowsWhenOpened DEF longer
  <2>3. ASSUME NEW k \in DOMAIN fresh, m = Len(grown) + k, n \in DOMAIN grown
        PROVE  FALSE
    <3>1. k \in Nat /\ n \in Nat /\ n <= Len(grown) /\ Len(grown) \in Nat
      BY <1>4, <2>3
    <3> QED
      BY <1>8, <2>3, <3>1
  <2>4. ASSUME NEW j \in DOMAIN fresh, m = Len(grown) + j, all[m] = fresh[j],
               NEW k \in DOMAIN fresh, n = Len(grown) + k, all[n] = fresh[k]
        PROVE  Follows(longer, all[m].path, all[n].path)
    <3>1. j \in Nat /\ k \in Nat /\ Len(grown) \in Nat
      BY <1>4
    <3>2. j < k
      BY <1>8, <2>4, <3>1
    <3>3. /\ IsWithin(block, fresh[j].path) /\ Len(fresh[j].path) < Len(fresh[k].path)
          /\ ~HasSection(document, fresh[k].path)
      BY <1>2, <1>7, <3>2
    <3> QED
      BY <2>4, <3>3, FollowsWhenOpened DEF longer
  <2> QED
    BY <1>5, <2>1, <2>2, <2>3, <2>4, Zenon
<1> QED
  BY <1>8 DEF IsOrdered, all, longer, grown, fresh

(* BuildToc of a block. *)
LEMMA TocBuilt ==
  ASSUME TocInv, NEW block \in Block, BuildToc(block)
  PROVE  nodes_by_path' = GrownNodes(nodes_by_path, block) \o OpenedNodes(nodes_by_path, block)
<1> DEFINE path == block.section_path
           known == {nodes_by_path[n].path : n \in Nodes}
           new == {depth \in DOMAIN path : SubSeq(path, 1, depth) \notin known}
<1>1. \A p : p \in known <=> HasNode(nodes_by_path, p)
  BY DEF HasNode, Nodes
<1>2. new = OpenedDepths(nodes_by_path, path)
  <2> HIDE DEF known
  <2> QED
    BY <1>1 DEF OpenedDepths, Outer
<1>3. nodes_by_path' =
        GrownNodes(nodes_by_path, block)
          \o [n \in DOMAIN Ascending(new) |-> NewNode(SubSeq(path, 1, Ascending(new)[n]), block.page_idx)]
  BY Zenon DEF BuildToc, GrownNodes, Nodes
<1> HIDE DEF new
<1> QED
  BY <1>2, <1>3 DEF OpenedNodes, Outer

(* Every block is read on the page of the block before it or on a later one. *)
LEMMA PagesStep ==
  ASSUME blocks \in Seq(Block), PagesAscend, NEW kind \in BlockKinds
  PROVE  NeverBefore(blocks, PlacedBlock(kind))
<1> DEFINE n == Len(blocks)
<1>1. /\ Blocks = 1..n /\ n \in Nat
      /\ \A i \in Blocks : blocks[i] \in Block
  BY DEF Blocks
<1>2. \A i \in Blocks : blocks[i].page_idx \in Nat
  <2>1. \A b \in Block : b.page_idx \in Nat
    BY DEF Block
  <2> QED
    BY <1>1, <2>1
<1>3. kind.step \in Nat
  BY BlockKindsAssumption
<1>4. ASSUME NEW i \in Blocks
      PROVE  blocks[i].page_idx <= PlacedBlock(kind).page_idx
  <2>1. n \in Blocks /\ i <= n /\ blocks # <<>>
    BY <1>1
  <2>2. blocks[i].page_idx <= blocks[n].page_idx
    BY <2>1 DEF PagesAscend
  <2>3. PlacedBlock(kind).page_idx = kind.step + blocks[n].page_idx
    BY <2>1 DEF PlacedBlock, Last
  <2> HIDE DEF n
  <2>4. \A a, b, c \in Nat : a <= b => a <= c + b
    OBVIOUS
  <2> QED
    BY <1>2, <1>3, <2>1, <2>2, <2>3, <2>4
<1> QED
  BY <1>4 DEF NeverBefore, Blocks

LEMMA PagesKept ==
  ASSUME blocks \in Seq(Block), PagesAscend, NEW block \in Block, NeverBefore(blocks, block),
         blocks' = Append(blocks, block)
  PROVE  PagesAscend'
<1>1. /\ Len(blocks) \in Nat /\ Blocks = 1..Len(blocks) /\ Blocks' = 1..(Len(blocks) + 1)
      /\ \A i \in Blocks : blocks'[i] = blocks[i]
      /\ blocks'[Len(blocks) + 1] = block /\ block.page_idx \in Nat
  BY AppendedBlock, LongerDocument DEF Blocks
<1>2. ASSUME NEW i \in Blocks', NEW j \in Blocks', i <= j
      PROVE  blocks'[i].page_idx <= blocks'[j].page_idx
  <2>1. CASE j \in Blocks
    <3>1. i \in Blocks
      BY <1>1, <1>2, <2>1
    <3> QED
      BY <1>1, <1>2, <2>1, <3>1 DEF PagesAscend
  <2>2. CASE j = Len(blocks) + 1
    <3>1. i \in Blocks \/ i = Len(blocks) + 1
      BY <1>1
    <3>2. block.page_idx <= block.page_idx
      BY <1>1
    <3> QED
      BY <1>1, <2>2, <3>1, <3>2 DEF NeverBefore, Blocks
  <2> QED
    BY <1>1, <2>1, <2>2
<1> QED
  BY <1>2 DEF PagesAscend

LEMMA TocInvariance == Spec => []TocInv
<1>1. Init => TocInv
  <2> SUFFICES ASSUME Init PROVE TocInv
    OBVIOUS
  <2>1. blocks = <<>> /\ nodes_by_path = <<>> /\ Blocks = {}
    BY DEF Init, Blocks
  <2>2. blocks \in Seq(Block) /\ nodes_by_path \in Seq(Node)
        /\ DOMAIN blocks = {} /\ DOMAIN nodes_by_path = {}
    BY <2>1
  <2> QED
    BY <2>1, <2>2 DEF TocInv, PagesAscend, IsTreeOf, IsOrdered, HasNode, HasSection
<1>2. TocInv /\ [Next]_vars => TocInv'
  <2> SUFFICES ASSUME TocInv, [Next]_vars
               PROVE  TocInv'
    OBVIOUS
  <2>1. ASSUME NEW kind \in BlockKinds, ReadBlock(PlacedBlock(kind))
        PROVE  TocInv'
    <3> DEFINE block == PlacedBlock(kind)
    <3>1. block \in Block /\ NeverBefore(blocks, block)
      BY PlacedBlockType, PagesStep DEF TocInv
    <3> HIDE DEF block
    <3>2. blocks' = Append(blocks, block) /\ BuildToc(block)
      BY <2>1 DEF ReadBlock, block
    <3>3. IsTreeOf(nodes_by_path', blocks') /\ IsOrdered(nodes_by_path', blocks')
      BY <3>1, <3>2, TocBuilt, TreeGrows, OrderKept DEF TocInv
    <3>4. blocks' \in Seq(Block) /\ PagesAscend'
      BY <3>1, <3>2, AppendedBlock, PagesKept DEF TocInv
    <3> QED
      BY <3>3, <3>4 DEF TocInv
  <2>2. CASE UNCHANGED vars
    BY <2>2 DEF vars, TocInv, PagesAscend, Blocks
  <2> QED
    BY <2>1, <2>2 DEF Next
<1> QED
  BY <1>1, <1>2, PTL DEF Spec

(* The tree has a node for every section and no other, and its pages span the blocks of
   the section, in a document of any length, depth and order: TocCoversBlocks.         *)
THEOREM TreeCoversBlocks == Spec => []TocCoversBlocks
BY TreeSuffices, TocInvariance, PTL

----------------------------------------------------------------------------
(* Paths and the sections around them. *)
LEMMA OuterOfOuter ==
  ASSUME NEW path \in Path, NEW e \in DOMAIN path, NEW d \in 1..e
  PROVE  /\ Outer(Outer(path, e), d) = Outer(path, d)
         /\ d \in DOMAIN path /\ d \in DOMAIN Outer(path, e)
         /\ Outer(path, e)[d] = path[d]
<1>1. Len(path) \in Nat /\ DOMAIN path = 1..Len(path) /\ path \in Seq(STRING)
  BY DEF Path
<1>2. /\ e \in 1..Len(path) /\ 1 \in 1..Len(path) /\ 1 \in 1..(e - 1 + 1) /\ d \in 1..(e - 1 + 1)
      /\ 1 + 1 - 1 = 1 /\ 1 + d - 1 = d /\ d \in 1..Len(path)
  BY <1>1
<1>3. SubSeq(SubSeq(path, 1, e), 1, d) = SubSeq(path, 1 + 1 - 1, 1 + d - 1)
  BY <1>1, <1>2, SubSeqOfSubSeq
<1>4. Outer(path, e) \in Path /\ Len(Outer(path, e)) = e
  BY OuterPaths
<1>5. d \in DOMAIN Outer(path, e)
  BY <1>2, <1>4 DEF Path
<1>6. Outer(path, e)[d] = path[d]
  <2>1. \A i \in 1..e : path[i] \in STRING
    BY <1>1, <1>2
  <2>2. SubSeq(path, 1, e)[d] = path[1 + d - 1]
    BY <1>2, <2>1, SubSeqProperties
  <2> QED
    BY <1>2, <2>2 DEF Outer
<1> QED
  BY <1>1, <1>2, <1>3, <1>5, <1>6 DEF Outer

LEMMA OuterWithin ==
  ASSUME NEW block \in Block, NEW path \in Path, IsWithin(block, path), NEW d \in DOMAIN path
  PROVE  IsWithin(block, Outer(path, d))
<1>1. block.section_path \in Path
  BY DEF Block, Path
<1>2. PICK e \in DOMAIN block.section_path : path = Outer(block.section_path, e)
  BY WithinIsOuter
<1>3. Len(path) = e
  BY <1>1, <1>2, OuterPaths
<1>4. d \in 1..e
  BY <1>3, OuterPaths
<1>5. Outer(path, d) = Outer(block.section_path, d) /\ d \in DOMAIN block.section_path
  BY <1>1, <1>2, <1>4, OuterOfOuter
<1>6. Outer(path, d) \in Path
  BY OuterPaths
<1> QED
  BY <1>5, <1>6, WithinIsOuter

LEMMA SameLevel ==
  ASSUME NEW block \in Block, NEW p \in Path, NEW q \in Path,
         IsWithin(block, p), IsWithin(block, q), Len(p) = Len(q)
  PROVE  p = q
<1>1. block.section_path \in Path
  BY DEF Block, Path
<1>2. PICK d \in DOMAIN block.section_path : p = Outer(block.section_path, d)
  BY WithinIsOuter
<1>3. PICK e \in DOMAIN block.section_path : q = Outer(block.section_path, e)
  BY WithinIsOuter
<1>4. Len(p) = d /\ Len(q) = e
  BY <1>1, <1>2, <1>3, OuterPaths
<1> QED
  BY <1>2, <1>3, <1>4

LEMMA SectionHasTitle ==
  ASSUME NEW block \in Block, NEW path \in Path, IsWithin(block, path)
  PROVE  block.section_path # <<>> /\ path # <<>>
<1>1. PICK d \in DOMAIN block.section_path : path = Outer(block.section_path, d)
  BY WithinIsOuter
<1> QED
  BY <1>1 DEF IsWithin

LEMMA PathByParent ==
  ASSUME NEW p \in Path, NEW path \in Path, NEW l \in DOMAIN path, Len(p) = l, p[l] = path[l],
         l > 1 => Outer(p, l - 1) = Outer(path, l - 1)
  PROVE  p = Outer(path, l)
<1> DEFINE q == Outer(path, l)
<1>1. /\ l \in Nat /\ l > 0 /\ q \in Path /\ Len(q) = l
      /\ DOMAIN p = 1..l /\ DOMAIN path = 1..Len(path) /\ Len(path) \in Nat
  BY OuterPaths
<1>2. \A i \in 1..l : q[i] = path[i]
  BY OuterOfOuter
<1> HIDE DEF q
<1>3. ASSUME NEW i \in 1..l
      PROVE  p[i] = q[i]
  <2>1. CASE i = l
    BY <1>2, <2>1
  <2>2. CASE i # l
    <3>1. l > 1 /\ i \in 1..(l - 1) /\ l - 1 \in DOMAIN p /\ l - 1 \in DOMAIN path
      BY <1>1, <2>2
    <3>2. Outer(p, l - 1)[i] = p[i] /\ Outer(path, l - 1)[i] = path[i]
      BY <3>1, OuterOfOuter
    <3> QED
      BY <1>2, <3>1, <3>2
  <2> QED
    BY <2>1, <2>2
<1>4. p \in Seq(STRING) /\ q \in Seq(STRING) /\ Len(p) = Len(q)
  BY <1>1 DEF Path
<1> QED
  BY <1>1, <1>3, <1>4, SeqEqual DEF q

----------------------------------------------------------------------------
(* The parent of a row is the latest row of the level above, which is right as long as
   no section goes on after another one.                                              *)
StaysIn(document) ==
  \A path \in Path : \A i, k \in DOMAIN document :
    IsWithin(document[i], path) /\ IsWithin(document[k], path) =>
      \A j \in i..k : IsWithin(document[j], path) \/ document[j].section_path = <<>>

LEMMA NeverReturnsStaysIn ==
  ASSUME blocks \in Seq(Block), NeverReturns
  PROVE  StaysIn(blocks)
<1> SUFFICES ASSUME NEW path \in Path, NEW i \in Blocks, NEW k \in Blocks,
                    IsWithin(blocks[i], path), IsWithin(blocks[k], path), NEW j \in i..k
             PROVE  IsWithin(blocks[j], path) \/ blocks[j].section_path = <<>>
  BY DEF StaysIn, Blocks
<1>1. path \in Sections
  BY SectionsAre DEF HasSection, Blocks
<1>2. \A n : n \in SectionBlocks(path) <=> n \in Blocks /\ IsWithin(blocks[n], path)
  BY DEF SectionBlocks, IsWithin
<1> QED
  BY <1>1, <1>2 DEF NeverReturns

LEMMA ParentPrecedes ==
  ASSUME NEW document \in Seq(Block), StaysIn(document),
         NEW nodes, IsTreeOf(nodes, document), IsOrdered(nodes, document),
         NEW n \in DOMAIN nodes, NEW k \in DOMAIN nodes, NEW l \in Nat,
         Len(nodes[n].path) = l + 1, l \in DOMAIN nodes[n].path,
         nodes[k].path = Outer(nodes[n].path, l)
  PROVE  /\ k < n
         /\ \A m \in DOMAIN nodes : k < m /\ m < n => Len(nodes[m].path) # l
<1> DEFINE p == nodes[n].path
           q == nodes[k].path
<1>1. /\ nodes \in Seq(Node)
      /\ \A m \in DOMAIN nodes : nodes[m].path \in Path /\ HasSection(document, nodes[m].path)
  <2>1. nodes \in Seq(Node) /\ \A node \in Node : node.path \in Path
    BY DEF IsTreeOf, Node
  <2>2. \A m \in DOMAIN nodes : nodes[m].path \in Path
    BY <2>1
  <2> QED
    BY <2>1, <2>2 DEF IsTreeOf, HasNode
<1>2. /\ n \in Nat /\ k \in Nat /\ \A m \in DOMAIN nodes : m \in Nat
      /\ \A i \in DOMAIN document : i \in Nat /\ document[i] \in Block
  BY <1>1
<1>3. p \in Path /\ q \in Path /\ Len(q) = l /\ Len(p) = l + 1
  BY <1>1, OuterPaths
<1>4. \A i \in DOMAIN document : IsWithin(document[i], p) => IsWithin(document[i], q)
  BY <1>1, <1>2, OuterWithin
<1>5. k < n
  <2>1. k # n
    BY <1>3
  <2>2. ASSUME n < k
        PROVE  FALSE
    <3> DEFINE within == {i \in DOMAIN document : IsWithin(document[i], q)}
    <3>1. Follows(document, p, q)
      BY <2>2 DEF IsOrdered
    <3>2. within \in SUBSET Nat /\ within # {}
      BY <1>1, <1>2 DEF HasSection
    <3>3. PICK j \in within : \A i \in within : j <= i
      <4> HIDE DEF within
      <4> QED
        BY <3>2, Least
    <3> HIDE DEF p, q
    <3>4. ~(Len(p) < Len(q))
      BY <1>3
    <3>5. PICK i \in DOMAIN document : i < j /\ IsWithin(document[i], p)
      BY <3>1, <3>4 DEF Follows
    <3>6. i \in within /\ i \in Nat /\ j \in Nat
      BY <1>2, <1>4, <3>5
    <3> QED
      BY <3>3, <3>5, <3>6
  <2> QED
    BY <1>2, <2>1, <2>2
<1>6. ASSUME NEW m \in DOMAIN nodes, k < m, m < n, Len(nodes[m].path) = l
      PROVE  FALSE
  <2> DEFINE r == nodes[m].path
  <2>1. r \in Path /\ Len(r) = Len(q) /\ r # q
    <3>1. m \in Nat /\ m # k
      BY <1>2, <1>6
    <3> QED
      BY <1>1, <1>3, <1>6, <3>1 DEF IsTreeOf
  <2>2. Follows(document, q, r) /\ Follows(document, r, p)
    BY <1>6 DEF IsOrdered
  <2>3. HasSection(document, p)
    BY <1>1
  <2> HIDE DEF p, q, r
  <2>4. PICK j \in DOMAIN document : IsWithin(document[j], p)
    BY <2>3 DEF HasSection
  <2>5. \A i \in DOMAIN document : ~(IsWithin(document[i], q) /\ IsWithin(document[i], r))
    BY <1>2, <1>3, <2>1, SameLevel
  <2>6. IsWithin(document[j], q)
    BY <1>4, <2>4
  <2>7. PICK i \in DOMAIN document : i < j /\ IsWithin(document[i], r)
    BY <2>2, <2>4, <2>5, <2>6 DEF Follows
  <2>8. ~(Len(q) < Len(r))
    BY <1>3, <2>1
  <2>9. PICK h \in DOMAIN document : h < i /\ IsWithin(document[h], q)
    BY <2>2, <2>7, <2>8 DEF Follows
  <2>10. i \in h..j
    BY <1>2, <2>7, <2>9
  <2>11. document[i].section_path = <<>>
    BY <1>3, <2>5, <2>6, <2>7, <2>9, <2>10 DEF StaysIn
  <2> QED
    BY <1>2, <2>1, <2>7, <2>11, SectionHasTitle
<1> QED
  BY <1>5, <1>6

----------------------------------------------------------------------------
(* The row of a section, 0 without one. *)
RowOf(path) ==
  IF HasNode(nodes_by_path, path) THEN CHOOSE n \in Nodes : nodes_by_path[n].path = path ELSE 0

LEMMA NodeFacts ==
  ASSUME TocInv
  PROVE  /\ Nodes = 1..Len(nodes_by_path) /\ Len(nodes_by_path) \in Nat
         /\ \A n \in Nodes : /\ nodes_by_path[n].path \in Path /\ Level(n) \in Nat /\ Level(n) > 0
                             /\ Level(n) \in DOMAIN nodes_by_path[n].path
                             /\ Title(n) = nodes_by_path[n].path[Level(n)]
                             /\ HasSection(blocks, nodes_by_path[n].path)
                             /\ RowOf(nodes_by_path[n].path) = n
         /\ \A path \in Path : RowOf(path) # 0 =>
              RowOf(path) \in Nodes /\ nodes_by_path[RowOf(path)].path = path
         /\ \A path \in Path : RowOf(path) # 0 <=> path \in Sections
<1>1. /\ nodes_by_path \in Seq(Node)
      /\ \A path \in Path : HasNode(nodes_by_path, path) <=> HasSection(blocks, path)
      /\ \A m, n \in Nodes : nodes_by_path[m].path = nodes_by_path[n].path => m = n
      /\ blocks \in Seq(Block)
  BY DEF TocInv, IsTreeOf, Nodes
<1>2. /\ Nodes = 1..Len(nodes_by_path) /\ Len(nodes_by_path) \in Nat
      /\ \A n \in Nodes : nodes_by_path[n].path \in Path /\ n \in Nat /\ n # 0
  <2>1. \A node \in Node : node.path \in Path
    BY DEF Node
  <2> QED
    BY <1>1, <2>1 DEF Nodes
<1>3. ASSUME NEW n \in Nodes
      PROVE  /\ HasNode(nodes_by_path, nodes_by_path[n].path)
             /\ HasSection(blocks, nodes_by_path[n].path)
             /\ RowOf(nodes_by_path[n].path) = n
  <2>1. HasNode(nodes_by_path, nodes_by_path[n].path)
    BY DEF HasNode, Nodes
  <2>2. (CHOOSE m \in Nodes : nodes_by_path[m].path = nodes_by_path[n].path) = n
    BY <1>1
  <2> QED
    BY <1>1, <1>2, <2>1, <2>2 DEF RowOf
<1>4. ASSUME NEW n \in Nodes
      PROVE  /\ Level(n) \in Nat /\ Level(n) > 0
             /\ Level(n) \in DOMAIN nodes_by_path[n].path
             /\ Title(n) = nodes_by_path[n].path[Level(n)]
  <2> DEFINE path == nodes_by_path[n].path
  <2>1. path \in Seq(STRING)
    BY <1>2 DEF Path
  <2>2. path # <<>>
    BY <1>3 DEF HasSection, IsWithin
  <2>3. Level(n) = Len(path) /\ Title(n) = path[Len(path)]
    BY DEF Level, Title, Last
  <2> HIDE DEF path
  <2>4. Len(path) \in Nat /\ Len(path) > 0 /\ DOMAIN path = 1..Len(path)
    BY <2>1, <2>2, EmptySeq, LenProperties
  <2>5. Len(path) \in DOMAIN path
    BY <2>4
  <2> QED
    BY <2>3, <2>4, <2>5 DEF path
<1>5. ASSUME NEW path \in Path
      PROVE  /\ RowOf(path) # 0 <=> HasNode(nodes_by_path, path)
             /\ RowOf(path) # 0 => RowOf(path) \in Nodes /\ nodes_by_path[RowOf(path)].path = path
  <2>1. CASE HasNode(nodes_by_path, path)
    <3>1. \E n \in Nodes : nodes_by_path[n].path = path
      BY <2>1 DEF HasNode, Nodes
    <3>2. RowOf(path) \in Nodes /\ nodes_by_path[RowOf(path)].path = path
      BY <2>1, <3>1 DEF RowOf
    <3> QED
      BY <1>2, <2>1, <3>2
  <2>2. CASE ~HasNode(nodes_by_path, path)
    BY <2>2 DEF RowOf
  <2> QED
    BY <2>1, <2>2
<1>6. \A path \in Path : RowOf(path) # 0 <=> path \in Sections
  BY <1>1, <1>5, SectionsAre
<1> QED
  BY <1>2, <1>3, <1>4, <1>5, <1>6

LEMMA Parents ==
  ASSUME TocInv, StaysIn(blocks), NEW n \in Nodes
  PROVE  LatestAbove(n) = IF Level(n) = 1 THEN 0 ELSE RowOf(Outer(nodes_by_path[n].path, Level(n) - 1))
<1> DEFINE path == nodes_by_path[n].path
           k == RowOf(Outer(path, Level(n) - 1))
<1>1. /\ Nodes = 1..Len(nodes_by_path) /\ Len(nodes_by_path) \in Nat
      /\ \A m \in Nodes : Level(m) \in Nat /\ Level(m) > 0
      /\ path \in Path /\ Len(path) = Level(n) /\ HasSection(blocks, path)
      /\ DOMAIN path = 1..Level(n)
  <2>1. path \in Path /\ Len(path) = Level(n)
    BY NodeFacts DEF Level
  <2> QED
    BY <2>1, NodeFacts, OuterPaths
<1>2. \A m : m \in RowsAbove(n) <=> m \in 1..(n - 1) /\ Level(m) = Level(n) - 1
  BY DEF RowsAbove
<1>3. CASE Level(n) = 1
  <2>1. \A m \in 1..(n - 1) : m \in Nodes
    BY <1>1
  <2>2. RowsAbove(n) = {}
    BY <1>1, <1>2, <1>3, <2>1
  <2> QED
    BY <1>3, <2>2 DEF LatestAbove
<1>4. CASE Level(n) # 1
  <2> DEFINE l == Level(n) - 1
             q == Outer(path, l)
  <2>1. l \in Nat /\ l \in DOMAIN path /\ Level(n) = l + 1
    BY <1>1, <1>4
  <2>2. q \in Path /\ Len(q) = l
    BY <1>1, <2>1, OuterPaths
  <2>3. HasSection(blocks, q)
    <3>1. \A i \in Blocks : blocks[i] \in Block
      BY DEF TocInv, Blocks
    <3> QED
      BY <1>1, <2>1, <3>1, OuterWithin DEF HasSection, Blocks
  <2>4. k \in Nodes /\ nodes_by_path[k].path = q
    <3>1. q \in Sections
      BY <2>2, <2>3, SectionsAre DEF TocInv
    <3> QED
      BY <2>2, <3>1, NodeFacts
  <2> HIDE DEF l, q, k
  <2>5. /\ k < n
        /\ \A m \in Nodes : k < m /\ m < n => Len(nodes_by_path[m].path) # l
    <3>1. Len(nodes_by_path[n].path) = l + 1 /\ l \in DOMAIN nodes_by_path[n].path
          /\ nodes_by_path[k].path = Outer(nodes_by_path[n].path, l)
      BY <1>1, <2>1, <2>4 DEF q
    <3>2. n \in DOMAIN nodes_by_path /\ k \in DOMAIN nodes_by_path
      BY <2>4 DEF Nodes
    <3>3. blocks \in Seq(Block) /\ IsTreeOf(nodes_by_path, blocks) /\ IsOrdered(nodes_by_path, blocks)
      BY DEF TocInv
    <3> QED
      BY <2>1, <3>1, <3>2, <3>3, ParentPrecedes DEF Nodes
  <2>6. k \in RowsAbove(n)
    BY <1>1, <1>2, <2>1, <2>2, <2>4, <2>5 DEF Level
  <2>7. \A m \in RowsAbove(n) : m \in Nat /\ k >= m
    <3> SUFFICES ASSUME NEW m \in RowsAbove(n)
                 PROVE  m \in Nat /\ k >= m
      OBVIOUS
    <3>1. m \in Nodes /\ m \in Nat /\ m < n /\ Len(nodes_by_path[m].path) = l /\ k \in Nat
      BY <1>1, <1>2, <2>1, <2>4 DEF Level
    <3> QED
      BY <2>5, <3>1
  <2>8. \A m \in RowsAbove(n) : (\A j \in RowsAbove(n) : m >= j) <=> m = k
    <3> SUFFICES ASSUME NEW m \in RowsAbove(n)
                 PROVE  (\A j \in RowsAbove(n) : m >= j) <=> m = k
      OBVIOUS
    <3>1. m \in Nat /\ k \in Nat /\ k >= m
      BY <2>6, <2>7
    <3> QED
      BY <2>6, <2>7, <3>1
  <2>9. Max(RowsAbove(n)) = k
    BY <2>6, <2>8 DEF Max
  <2> QED
    BY <1>4, <2>6, <2>9 DEF LatestAbove, k
<1> QED
  BY <1>3, <1>4

(* The walk, level by level. *)
Matches(rows, path, level, parent) ==
  {n \in 1..Len(rows) : /\ rows[n].level = level
                        /\ rows[n].title = path[level]
                        /\ rows[n].parent_id = parent}

FirstMatch(rows, path, level, parent) ==
  IF Matches(rows, path, level, parent) # {} THEN Min(Matches(rows, path, level, parent)) ELSE 0

WalkStep(rows, path, walk, level) ==
  IF level = 0 THEN 0
  ELSE IF level > 1 /\ walk[level - 1] = 0 THEN 0
  ELSE FirstMatch(rows, path, level, walk[level - 1])

IsWalk(rows, path, walk) == walk = [level \in 0..Len(path) |-> WalkStep(rows, path, walk, level)]

(* There is one walk only. *)
LEMMA OneWalk ==
  ASSUME NEW rows, NEW path \in Path, NEW v, NEW w, IsWalk(rows, path, v), IsWalk(rows, path, w)
  PROVE  v = w
<1> DEFINE apart == {l \in 0..Len(path) : v[l] # w[l]}
<1>1. Len(path) \in Nat
  BY DEF Path
<1>2. \A l \in 0..Len(path) :
        v[l] = WalkStep(rows, path, v, l) /\ w[l] = WalkStep(rows, path, w, l)
  BY DEF IsWalk
<1>3. ASSUME apart # {}
      PROVE  FALSE
  <2>1. apart \in SUBSET Nat
    BY <1>1
  <2>2. PICK l \in apart : \A k \in apart : l <= k
    <3> HIDE DEF apart
    <3> QED
      BY <1>3, <2>1, Least
  <2>3. CASE l = 0
    BY <1>2, <2>2, <2>3 DEF WalkStep
  <2>4. CASE l # 0
    <3>1. l - 1 \in 0..Len(path) /\ l - 1 < l /\ ~(l <= l - 1)
      BY <1>1, <2>2, <2>4
    <3>2. v[l - 1] = w[l - 1]
      BY <2>2, <3>1
    <3>3. WalkStep(rows, path, v, l) = WalkStep(rows, path, w, l)
      BY <3>2 DEF WalkStep
    <3> QED
      BY <1>2, <2>2, <3>3
  <2> QED
    BY <2>3, <2>4
<1>4. \A l \in 0..Len(path) : v[l] = w[l]
  BY <1>3
<1> QED
  BY <1>4 DEF IsWalk

LEMMA WalkFinds ==
  ASSUME NEW rows, NEW path \in Path, NEW walk, IsWalk(rows, path, walk)
  PROVE  TocContainsPath(path, rows) <=> path # <<>> /\ walk[Len(path)] # 0
<1> DEFINE found[level \in 0..Len(path)] ==
             IF level = 0 THEN 0
             ELSE IF level > 1 /\ found[level - 1] = 0 THEN 0
             ELSE SelectInSeq(rows, LAMBDA row : /\ row.level = level
                                                 /\ row.title = path[level]
                                                 /\ row.parent_id = found[level - 1])
<1>1. TocContainsPath(path, rows) <=> path # <<>> /\ found[Len(path)] # 0
  BY DEF TocContainsPath
<1>2. found = CHOOSE w : IsWalk(rows, path, w)
  BY DEF IsWalk, WalkStep, FirstMatch, Matches, SelectInSeq
<1> HIDE DEF found
<1>3. found = walk
  <2>1. IsWalk(rows, path, found)
    BY <1>2
  <2> QED
    BY <2>1, OneWalk
<1> QED
  BY <1>1, <1>3

(* A step of the walk finds the section's row, if the step before found its parent's. *)
RowOfOuter(path, level) == IF level = 0 THEN 0 ELSE RowOf(Outer(path, level))

LEMMA MatchIsRow ==
  ASSUME TocInv, StaysIn(blocks), NEW path \in Path, NEW l \in DOMAIN path,
         l > 1 => RowOfOuter(path, l - 1) # 0
  PROVE  FirstMatch(ReplaceForTask, path, l, RowOfOuter(path, l - 1)) = RowOf(Outer(path, l))
<1> DEFINE rows == ReplaceForTask
           parent == RowOfOuter(path, l - 1)
           matches == Matches(rows, path, l, parent)
           own == Outer(path, l)
<1>1. /\ Len(rows) = Len(nodes_by_path) /\ 1..Len(rows) = Nodes
      /\ \A n \in Nodes : /\ rows[n].level = Level(n) /\ rows[n].title = Title(n)
                          /\ rows[n].parent_id = LatestAbove(n)
  <2>1. Nodes = 1..Len(nodes_by_path) /\ Len(nodes_by_path) \in Nat
    BY NodeFacts
  <2>2. rows = [n \in 1..Len(nodes_by_path) |->
                  [level |-> Level(n), title |-> Title(n), parent_id |-> LatestAbove(n)]]
    BY <2>1 DEF ReplaceForTask
  <2> HIDE DEF rows
  <2>3. Len(rows) = Len(nodes_by_path)
    BY <2>1, <2>2
  <2> QED
    BY <2>1, <2>2, <2>3
<1>2. /\ l \in Nat /\ l > 0 /\ own \in Path /\ Len(own) = l
      /\ l > 1 => l - 1 \in DOMAIN path /\ Outer(path, l - 1) \in Path
  <2>1. /\ Len(path) \in Nat /\ DOMAIN path = 1..Len(path)
        /\ own \in Path /\ Len(own) = l
    BY OuterPaths
  <2>2. l > 1 => l - 1 \in DOMAIN path
    BY <2>1
  <2> QED
    BY <2>1, <2>2, OuterPaths
<1>3. l > 1 => /\ parent = RowOf(Outer(path, l - 1)) /\ parent \in Nodes
               /\ nodes_by_path[parent].path = Outer(path, l - 1)
  <2>1. l > 1 => parent = RowOf(Outer(path, l - 1))
    BY <1>2 DEF RowOfOuter
  <2> QED
    BY <1>2, <2>1, NodeFacts
<1>4. l = 1 => parent = 0
  BY DEF RowOfOuter
<1> HIDE DEF rows, parent, own
<1>5. ASSUME NEW n \in Nodes
      PROVE  n \in matches <=> nodes_by_path[n].path = own
  <2> DEFINE p == nodes_by_path[n].path
  <2>1. /\ p \in Path /\ Level(n) = Len(p) /\ Title(n) = p[Level(n)]
        /\ Level(n) \in Nat /\ Level(n) > 0 /\ Level(n) \in DOMAIN p
    BY NodeFacts DEF Level
  <2>2. LatestAbove(n) = IF Level(n) = 1 THEN 0 ELSE RowOf(Outer(p, Level(n) - 1))
    BY Parents
  <2>3. n \in matches <=> Level(n) = l /\ Title(n) = path[l] /\ LatestAbove(n) = parent
    BY <1>1 DEF Matches
  <2> HIDE DEF p, matches
  <2>4. ASSUME p = own
        PROVE  n \in matches
    <3>1. Level(n) = l /\ Title(n) = path[l]
      <4>1. l \in 1..l
        BY <1>2
      <4> QED
        BY <1>2, <2>1, <2>4, <4>1, OuterOfOuter DEF own
    <3>2. LatestAbove(n) = parent
      <4>1. CASE l = 1
        BY <1>4, <2>2, <3>1, <4>1
      <4>2. CASE l # 1
        <5>1. l > 1 /\ l - 1 \in 1..l
          BY <1>2, <4>2
        <5>2. Outer(p, l - 1) = Outer(path, l - 1)
          BY <2>4, <5>1, OuterOfOuter DEF own
        <5> QED
          BY <1>3, <2>2, <3>1, <4>2, <5>1, <5>2
      <4> QED
        BY <4>1, <4>2
    <3> QED
      BY <2>3, <3>1, <3>2
  <2>5. ASSUME n \in matches
        PROVE  p = own
    <3>1. Len(p) = l /\ p[l] = path[l] /\ LatestAbove(n) = parent /\ Level(n) = l
      BY <2>1, <2>3, <2>5
    <3>2. ASSUME l > 1
          PROVE  Outer(p, l - 1) = Outer(path, l - 1)
      <4>1. l - 1 \in DOMAIN p /\ Level(n) # 1
        <5>1. DOMAIN p = 1..Len(p)
          BY <2>1, OuterPaths
        <5> QED
          BY <1>2, <3>1, <3>2, <5>1
      <4>2. Outer(p, l - 1) \in Path
        BY <2>1, <4>1, OuterPaths
      <4>3. RowOf(Outer(p, l - 1)) = parent /\ parent # 0
        <5>1. parent # 0
          BY <3>2 DEF parent
        <5> QED
          BY <2>2, <3>1, <4>1, <5>1
      <4>4. nodes_by_path[parent].path = Outer(p, l - 1)
        BY <4>2, <4>3, NodeFacts
      <4> QED
        BY <1>3, <3>2, <4>4
    <3> QED
      BY <2>1, <3>1, <3>2, PathByParent DEF own
  <2> QED
    BY <2>4, <2>5 DEF p
<1>6. matches \in SUBSET Nodes
  BY <1>1 DEF Matches
<1>7. FirstMatch(rows, path, l, parent) = IF matches # {} THEN Min(matches) ELSE 0
  BY DEF FirstMatch
<1> HIDE DEF matches
<1>8. CASE RowOf(own) # 0
  <2>1. RowOf(own) \in Nodes /\ nodes_by_path[RowOf(own)].path = own
    BY <1>2, <1>8, NodeFacts
  <2>2. \A n \in Nodes : nodes_by_path[n].path = own => n = RowOf(own)
    BY NodeFacts
  <2>3. matches = {RowOf(own)} /\ RowOf(own) \in Nat
    <3>1. RowOf(own) \in Nat
      BY <2>1, NodeFacts
    <3> QED
      BY <1>5, <1>6, <2>1, <2>2, <3>1
  <2>4. \A k \in Nat : Min({k}) = k
    <3> SUFFICES ASSUME NEW k \in Nat PROVE Min({k}) = k
      OBVIOUS
    <3>1. {k} \in SUBSET Nat /\ {k} # {}
      OBVIOUS
    <3>2. Min({k}) \in {k}
      BY <3>1, MinIsLeast
    <3> QED
      BY <3>2
  <2> QED
    BY <1>7, <2>3, <2>4 DEF rows, parent, own
<1>9. CASE RowOf(own) = 0
  <2>1. \A n \in Nodes : nodes_by_path[n].path = own => n = 0
    BY <1>9, NodeFacts
  <2>2. \A n \in Nodes : n # 0
    BY NodeFacts
  <2>3. matches = {}
    BY <1>5, <1>6, <2>1, <2>2
  <2> QED
    BY <1>7, <1>9, <2>3 DEF rows, parent, own
<1> QED
  BY <1>8, <1>9

LEMMA WalkOfSections ==
  ASSUME TocInv, StaysIn(blocks), NEW path \in Path
  PROVE  IsWalk(ReplaceForTask, path, [level \in 0..Len(path) |-> RowOfOuter(path, level)])
<1> DEFINE walk == [level \in 0..Len(path) |-> RowOfOuter(path, level)]
<1>1. Len(path) \in Nat /\ DOMAIN path = 1..Len(path)
  BY OuterPaths
<1>2. ASSUME NEW l \in 0..Len(path)
      PROVE  walk[l] = WalkStep(ReplaceForTask, path, walk, l)
  <2>1. CASE l = 0
    BY <2>1 DEF WalkStep, RowOfOuter
  <2>2. CASE l # 0
    <3>1. l \in DOMAIN path /\ l - 1 \in 0..Len(path) /\ l \in Nat
      BY <1>1, <2>2
    <3>2. walk[l - 1] = RowOfOuter(path, l - 1) /\ walk[l] = RowOf(Outer(path, l))
      BY <2>2, <3>1 DEF RowOfOuter
    <3> HIDE DEF walk
    <3>3. CASE l > 1 /\ walk[l - 1] = 0
      <4>1. l - 1 \in DOMAIN path /\ Outer(path, l - 1) \in Path /\ Outer(path, l) \in Path
        <5>1. l - 1 \in DOMAIN path
          BY <1>1, <3>1, <3>3
        <5> QED
          BY <3>1, <5>1, OuterPaths
      <4>2. RowOf(Outer(path, l - 1)) = 0
        BY <3>1, <3>2, <3>3 DEF RowOfOuter
      <4>3. Outer(path, l - 1) = Outer(Outer(path, l), l - 1) /\ l - 1 \in DOMAIN Outer(path, l)
        <5>1. l - 1 \in 1..l
          BY <3>1, <3>3
        <5> QED
          BY <3>1, <5>1, OuterOfOuter
      <4>4. Outer(path, l) \in Sections => Outer(path, l - 1) \in Sections
        <5>1. \A i \in DOMAIN blocks : blocks[i] \in Block
          BY DEF TocInv
        <5>2. HasSection(blocks, Outer(path, l)) => HasSection(blocks, Outer(path, l - 1))
          BY <4>1, <4>3, <5>1, OuterWithin DEF HasSection
        <5> QED
          BY <4>1, <5>2, SectionsAre DEF TocInv
      <4>5. RowOf(Outer(path, l)) = 0
        BY <4>1, <4>2, <4>4, NodeFacts
      <4> QED
        BY <2>2, <3>2, <3>3, <4>5 DEF WalkStep
    <3>4. CASE ~(l > 1 /\ walk[l - 1] = 0)
      <4>1. l > 1 => RowOfOuter(path, l - 1) # 0
        BY <3>2, <3>4
      <4>2. FirstMatch(ReplaceForTask, path, l, RowOfOuter(path, l - 1)) = RowOf(Outer(path, l))
        BY <3>1, <4>1, MatchIsRow
      <4> QED
        BY <2>2, <3>2, <3>4, <4>2 DEF WalkStep
    <3> QED
      BY <3>3, <3>4
  <2> QED
    BY <2>1, <2>2
<1> QED
  BY <1>2, Zenon DEF IsWalk

(* In a report in which no section goes on after another one, the router finds a path
   in the rows of the table of contents exactly if the document has that section, how
   ever deep it lies and however often its title comes up elsewhere: SectionsFound.   *)
THEOREM SectionsAreFound == Spec => []SectionsFound
<1>1. ASSUME TocInv, NeverReturns, NEW path \in Path
      PROVE  InToc(path) <=> path \in Sections
  <2> DEFINE walk == [level \in 0..Len(path) |-> RowOfOuter(path, level)]
  <2>1. StaysIn(blocks)
    BY <1>1, NeverReturnsStaysIn DEF TocInv
  <2>2. IsWalk(ReplaceForTask, path, walk)
    BY <1>1, <2>1, WalkOfSections
  <2>3. InToc(path) <=> path # <<>> /\ walk[Len(path)] # 0
    <3> HIDE DEF walk
    <3> QED
      BY <2>2, WalkFinds DEF InToc
  <2>4. path \in Sections => path # <<>>
    BY <1>1, SectionsAre DEF TocInv, HasSection, IsWithin
  <2>5. path # <<>> => walk[Len(path)] = RowOf(path)
    <3>1. path \in Seq(STRING)
      BY DEF Path
    <3>2. Len(path) \in Nat /\ (path # <<>> => Len(path) # 0) /\ Outer(path, Len(path)) = path
      BY <3>1, EmptySeq, LenProperties, SubSeqFull DEF Outer
    <3> QED
      BY <3>2 DEF RowOfOuter
  <2> HIDE DEF walk
  <2>6. RowOf(path) # 0 <=> path \in Sections
    BY <1>1, NodeFacts
  <2> QED
    BY <2>3, <2>4, <2>5, <2>6
<1>2. \A path \in Paths : path \in Path
  <2>1. \A kind \in BlockKinds : kind.section_path \in Path
    BY BlockKindsAssumption DEF Path
  <2>2. \A kind \in BlockKinds : \A path \in Prefixes(kind.section_path) :
          path = <<>> \/ path \in Path
    BY <2>1, OuterPaths
  <2>3. <<>> \in Path
    BY DEF Path
  <2> QED
    BY <2>2, <2>3 DEF Paths
<1>3. TocInv => SectionsFound
  BY <1>1, <1>2 DEF SectionsFound
<1> QED
  BY <1>3, TocInvariance, PTL
=============================================================================

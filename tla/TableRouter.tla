----------------------------- MODULE TableRouter -----------------------------
(***************************************************************************)
(* TableRouter.route: where the table of a rule is looked for, which of    *)
(* the section's logical tables is taken, and what the LLM is shown if     *)
(* none is.                                                                *)
(*                                                                         *)
(* A rule keeps what is read of it: path_fingerprints; of its anchor rule  *)
(* the headers that have every required cell, the required keywords and    *)
(* the words its title pattern matches; min_match_score; and in place of   *)
(* semantic_vector how similar the text of a table is to it, 0 without a   *)
(* vector.  Scores are thousandths.                                        *)
(***************************************************************************)
EXTENDS LogicalTableBuilder, DocumentToc

NoTable == 0

Texts == {i \in Blocks : blocks[i].type = "text"}

PagesOf(t) == {blocks[i].page_idx : i \in Range(logical_tables[t].segments)}

SectionTables(rule) ==
  {t \in Tables : logical_tables[t].section_path = rule.path_fingerprints}

WordsBefore(t) == UNION {blocks[i].words : i \in logical_tables[t].context_before}

(* The words of context_text. *)
ContextWords(t) == Range(logical_tables[t].section_path) \union WordsBefore(t)

(* _candidate_score; its cap is out of reach. *)
CandidateScore(rule, t) ==
  350 + (IF logical_tables[t].header \in rule.required_headers THEN 350 ELSE 0)
      + (IF rule.required_context_keywords \subseteq ContextWords(t) THEN 150 ELSE 0)
      + (IF rule.title_pattern \intersect ContextWords(t) # {} THEN 100 ELSE 0)

(* What of _candidate_text differs between the tables of a section. *)
CandidateText(t) == <<logical_tables[t].header, WordsBefore(t)>>

(* The combined score, in millionths: the vector counts 0.350. *)
TotalScore(rule, t) ==
  Min({1000 * CandidateScore(rule, t) + 350 * rule.similarity[CandidateText(t)], 1000000})

(* Mutant: a score of 0 is taken as it stands. *)
ThresholdAsGiven(rule) == 1000 * rule.min_match_score

(* A missing score and a score of 0 both mean the default. *)
Threshold(rule) ==
  1000 * (IF rule.min_match_score = 0 THEN 850 ELSE rule.min_match_score)

(* max: the first of those with the highest score. *)
BestTable(rule) ==
  CHOOSE t \in SectionTables(rule) :
    \A u \in SectionTables(rule) :
      \/ TotalScore(rule, t) > TotalScore(rule, u)
      \/ TotalScore(rule, t) = TotalScore(rule, u) /\ t <= u

(* _text_only_context: the texts that name the section. *)
TextOnlyContext(rule) == {i \in Texts : Last(rule.path_fingerprints) \in blocks[i].words}

(* _section_context: the texts on the pages of the section's tables.  Without any, the
   code takes the titles of the path, which FirstUnit reads as matched_path anyway.   *)
SectionContext(rule) ==
  {i \in Texts : \E t \in SectionTables(rule) : blocks[i].page_idx \in PagesOf(t)}

RouteDecision(decision, path, t, context) ==
  [decision |-> decision, matched_path |-> path, matched_table |-> t, context_blocks |-> context]

Route(rule) ==
  IF ~TocContainsPath(rule.path_fingerprints, ReplaceForTask)
    THEN RouteDecision("NOT_FIND", <<>>, NoTable, {})
  ELSE IF SectionTables(rule) = {}
    THEN RouteDecision("SLOW_TRACK", rule.path_fingerprints, NoTable, TextOnlyContext(rule))
  ELSE LET best == BestTable(rule)
           path == logical_tables[best].section_path IN
       IF TotalScore(rule, best) >= Threshold(rule)
         THEN RouteDecision("FAST_TRACK", path, best, logical_tables[best].context_before)
         ELSE RouteDecision("SLOW_TRACK", path, NoTable, SectionContext(rule))
=============================================================================

---------------------------- MODULE RuleExtraction ----------------------------
(***************************************************************************)
(* What becomes of one rule: the route, the fast track or the LLM, the     *)
(* unit the normaliser finds.  ExtractorWorker's loop over the rules does  *)
(* this for each before it writes the row.                                 *)
(*                                                                         *)
(* Cells are left out (LogicalTableBuilder names rows by their place), and *)
(* so is the currency, which is CNY wherever there is a unit.              *)
(***************************************************************************)
EXTENDS TableRouter, ConfidenceScorer

CONSTANTS TenThousandWords, YuanWords   \* words, titles among them, that name a unit

FastTrackExtract == [extraction_route |-> "FAST_TRACK", data_status |-> "SUCCESS"]

(* What the LLM may say.  A disabled LLM says NOT_DISCLOSED, whatever the context;
   a failing one ends the whole extraction (ExtractorWorker.LLMFallbackFails).    *)
LlmAnswers == {"SUCCESS", "NOT_DISCLOSED"}

LlmExtract(answer) == [extraction_route |-> "SLOW_TRACK", data_status |-> answer]

(* _build_outcome *)
BuildOutcome(decision, answer) ==
  CASE decision.decision = "FAST_TRACK" -> FastTrackExtract
    [] decision.decision = "SLOW_TRACK" -> LlmExtract(answer)
    [] OTHER -> [extraction_route |-> "NONE", data_status |-> "NOT_FIND"]

----------------------------------------------------------------------------
(* _match_unit_currency: in one text the larger unit is looked for first. *)
UnitOf(words) ==
  IF words \intersect TenThousandWords # {} THEN "CNY_TEN_THOUSAND"
  ELSE IF words \intersect YuanWords # {} THEN "CNY_YUAN"
  ELSE "NONE"

UnitNamed(i) == UnitOf(blocks[i].words)

MatchedPages(decision) ==
  IF decision.matched_table = NoTable THEN {} ELSE PagesOf(decision.matched_table)

(* Mutant: only the pages of the table are looked at. *)
TextsOnPages(decision) ==
  Ascending({i \in Texts : blocks[i].page_idx \in MatchedPages(decision)})

(* _candidate_texts: the texts on the table's pages, then the context; the titles of
   matched_path, which are no blocks, come last (FirstUnit).                        *)
CandidateTexts(decision) ==
  Ascending({i \in Texts : blocks[i].page_idx \in MatchedPages(decision)})
    \o Ascending(decision.context_blocks)

TextUnit(decision) ==
  LET texts == CandidateTexts(decision)
      naming == {n \in DOMAIN texts : UnitNamed(texts[n]) # "NONE"}
  IN  IF naming = {} THEN "NONE" ELSE UnitNamed(texts[Min(naming)])

TitleUnit(path) ==
  LET naming == {n \in DOMAIN path : UnitOf({path[n]}) # "NONE"}
  IN  IF naming = {} THEN "NONE" ELSE UnitOf({path[Min(naming)]})

FirstUnit(decision) ==
  LET unit == TextUnit(decision)
  IN  IF unit # "NONE" THEN unit ELSE TitleUnit(decision.matched_path)

(* Mutant: what was not extracted gets a unit too. *)
NormalizeAnyway(outcome, decision) ==
  [extraction_route |-> outcome.extraction_route, data_status |-> outcome.data_status,
   unit |-> FirstUnit(decision)]

Normalize(outcome, decision) ==
  [extraction_route |-> outcome.extraction_route, data_status |-> outcome.data_status,
   unit |-> IF outcome.data_status = "SUCCESS" THEN FirstUnit(decision) ELSE "NONE"]

(* The outcome of a rule by its route and what the LLM says if it is asked. *)
Outcome(decision, answer) == Normalize(BuildOutcome(decision, answer), decision)
=============================================================================

--------------------------- MODULE ConfidenceScorer ---------------------------
(***************************************************************************)
(* What the extraction of one rule yields (ExtractionOutcome) and how      *)
(* ConfidenceScorer.apply scores it.  The pipeline lets an extraction      *)
(* yield any of Outcomes; Preparation checks that RuleExtraction yields    *)
(* nothing else.                                                           *)
(***************************************************************************)
EXTENDS Integers

Units == {"CNY_YUAN", "CNY_TEN_THOUSAND"}

(* "NONE" is Python's None.  Only what was extracted has a unit. *)
Outcomes ==
  {o \in [extraction_route : {"FAST_TRACK", "SLOW_TRACK", "NONE"},
          data_status : {"SUCCESS", "NOT_DISCLOSED", "NOT_FIND"},
          unit : Units \union {"NONE"}] :
     /\ o.extraction_route = "NONE" <=> o.data_status = "NOT_FIND"
     /\ o.extraction_route = "FAST_TRACK" => o.data_status = "SUCCESS"
     /\ o.unit # "NONE" => o.data_status = "SUCCESS"}

ReviewThreshold == 85

Score(o) ==
  100 - (IF o.extraction_route = "SLOW_TRACK" THEN 15 ELSE 0)
      - (IF o.data_status = "SUCCESS" /\ o.unit = "NONE" THEN 10 ELSE 0)

NeedsReview(o) == Score(o) < ReviewThreshold
=============================================================================

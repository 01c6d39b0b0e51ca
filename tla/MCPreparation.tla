---------------------------- MODULE MCPreparation ----------------------------
(* Documents for TLC: blocks of a report with sections A, A/X, B and B/X, of which
   two have the same title, and the rules that look for their tables.              *)
EXTENDS Preparation

Text(words, path, step) ==
  [type |-> "text", words |-> words, table_body |-> <<>>,
   section_path |-> path, step |-> step]
Table(body, path, step) ==
  [type |-> "table", words |-> {}, table_body |-> body,
   section_path |-> path, step |-> step]

ReportBlocks ==
  {Text({"continued", "yuan"}, <<>>, 1), Text({"continued", "ten_thousand"}, <<>>, 0),
   Text({"A", "ten_thousand"}, <<"A">>, 0), Text({"X", "yuan"}, <<"B">>, 1),
   Table(<<>>, <<"A">>, 1),
   Table(<<"h1", "row">>, <<>>, 1),
   Table(<<"h1", "row", "blank", "row">>, <<"A", "X">>, 0),
   Table(<<"h1", "blank", "row">>, <<"A", "X">>, 1),
   Table(<<"h2", "row">>, <<"A", "X">>, 1),
   Table(<<"h1">>, <<"B", "X">>, 1)}

TableTexts == {"h1", "h2"} \X SUBSET {"continued", "yuan", "ten_thousand", "A", "X"}

Rule(path, headers, keywords, titles, score) ==
  [path_fingerprints |-> path, required_headers |-> headers,
   required_context_keywords |-> keywords, title_pattern |-> titles,
   min_match_score |-> score, similarity |-> [text \in TableTexts |-> 0]]

(* Two rules of one section by their headers, one of them with a threshold; one whose
   vector finds h1 without its headers; one that needs its title; one without tables. *)
ReportRules ==
  {Rule(<<"A", "X">>, {"h1"}, {}, {}, 0),
   Rule(<<"A", "X">>, {"h2"}, {}, {"X"}, 610),
   [Rule(<<"A", "X">>, {}, {"X"}, {"A"}, 850) EXCEPT
      !.similarity = [text \in TableTexts |->
                        IF text[1] = "h1" /\ "ten_thousand" \notin text[2] THEN 715 ELSE 0]],
   Rule(<<"B", "X">>, {"h1"}, {"yuan"}, {"X"}, 950),
   Rule(<<"A">>, {"h1"}, {}, {}, 0)}
=============================================================================

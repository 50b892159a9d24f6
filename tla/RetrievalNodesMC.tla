--------------------------- MODULE RetrievalNodesMC ---------------------------
\* A batch of a call of two queries and one of one; a batch of two of one. One query has no
\* dense hit at all, the sparse scores have ties and zeros, and an expansion answers
\* with a repeated line, a blank one and a line of another query.
EXTENDS RetrievalNodes

Hit(i, s) == [id |-> i, score |-> s]
MCQueries == {"qa", "qb", "qc", "qa1", "qb1"}
MCArrivals == {<<<<"qa", "qb">>, <<"qc">>>>, <<<<"qb">>, <<"qa">>>>}
MCLlmLines == [q \in MCQueries |->
  CASE q = "qa" -> <<"qa1", Blank, "qa1">> [] q = "qb" -> <<"qb1", "qa1">> [] OTHER -> <<Blank>>]
MCDense == [q \in MCQueries |->
  CASE q = "qa" -> <<Hit("d", 5), Hit("a", 4), Hit("b", 2)>>
    [] q = "qb" -> <<Hit("b", 3), Hit("a", 3)>>
    [] q = "qc" -> <<>> [] q = "qa1" -> <<Hit("c", 4)>>
    [] OTHER -> <<Hit("a", 2), Hit("d", 1)>>]
MCSparse == [q \in MCQueries |->
  CASE q = "qa" -> <<Hit("a", 3), Hit("c", 2), Hit("d", 0)>>
    [] q = "qb" -> <<Hit("c", 1), Hit("b", 1), Hit("a", 1)>>
    [] OTHER -> <<Hit("d", 2), Hit("b", 0), Hit("a", 0)>>]
MCIds == {"a", "b", "c", "d"}
MCIdText == [a |-> "id a", b |-> "id b", c |-> "id c", d |-> "id d"]
MCTexts == MCIds \cup {MCIdText[id] : id \in MCIds}
MCRelevance == [q \in {"qa", "qb", "qc"} |->
  [t \in MCTexts |->
     CASE t = "a" -> IF q = "qa" THEN 3 ELSE 1 [] t = "b" -> IF q = "qb" THEN 4 ELSE 1
       [] t = "c" -> 2 [] t = "d" -> IF q = "qa" THEN 1 ELSE 2 [] t = "id b" -> 5 [] OTHER -> 1]]
\* Two queries of one length and a shorter one, a passage longer than the others, ids as
\* long as each other. Padding moves the passages' scores; monot5's model answers most
\* pairs in two tokens, and its first one ranks them the other way round.
MCTokens == [t \in {"qa", "qb", "qc"} \cup MCTexts |-> IF t \in {"qa", "qb", "c"} THEN 2 ELSE 1]
MCLateScore == [q \in {"qa", "qb", "qc"} |-> [t \in MCTexts |-> [m \in {1, 2} |-> [n \in {1, 2} |->
  IF t \in {"b", "id b"} THEN n * MCRelevance[q][t] ELSE MCRelevance[q][t] + m]]]]
MCAnswerSteps == [q \in {"qa", "qb", "qc"} |-> [t \in MCTexts |-> IF t = "d" \/ q = "qc" THEN 1 ELSE 2]]
MCStepScore == [n \in {1, 2} |-> [q \in {"qa", "qb", "qc"} |-> [t \in MCTexts |->
  IF n = 1 THEN 9 - MCRelevance[q][t] ELSE MCRelevance[q][t]]]]
MCDocOrder == <<"a", "b", "c", "d">>
MCModified == [id \in {"a", "b", "c", "d"} |->
  CASE id = "a" -> 1 [] id = "b" -> 4 [] id = "c" -> 3 [] OTHER -> 2]
===============================================================================

---------------------------- MODULE QualityReuseMC -----------------------------
\* Evaluations ask for one metric or for both.
EXTENDS QualityReuse

MCMetrics == {{"token"}, {"token", "judge"}}
=============================================================================

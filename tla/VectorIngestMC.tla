---------------------------- MODULE VectorIngestMC -----------------------------
\* A corpus of three documents and one of one. An index with one list trains on any
\* batch; one with three lists trains on no batch of two.
EXTENDS VectorIngest

MCDocIds == [A |-> <<"a", "b", "c">>, B |-> <<"d">>]

Job(corpus, chunked, api, kind, lists) ==
  [corpus |-> corpus, chunked |-> chunked, api |-> api, kind |-> kind, lists |-> lists]

MCJobs == {Job("A", TRUE, TRUE, "ivf", 1), Job("A", TRUE, TRUE, "ivf", 3),
           Job("B", TRUE, FALSE, "hnsw", 4)}

\* Two projects whose corpora are not chunked by the evaluator.
MCShared == {Job("A", FALSE, FALSE, "ivf", 1), Job("B", FALSE, FALSE, "ivf", 1)}
=============================================================================

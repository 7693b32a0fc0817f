----------------------------- MODULE MCGrpcRetry -----------------------------
EXTENDS GrpcRetryRefinement

CONSTANT c1

MCOneCall == {c1}
=============================================================================

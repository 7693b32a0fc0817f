----------------------------- MODULE MCQueueOps -----------------------------
EXTENDS QueueRefinement

CONSTANTS p1, g1, g2, i1

OneProducer == {p1}
OneGetter == {g1}
TwoGetters == {g1, g2}
OneIterator == {i1}
=============================================================================

---------------------------- MODULE MCInvocation ----------------------------
EXTENDS Invocation

CONSTANTS o, g1

OneGetter == {g1}
=============================================================================

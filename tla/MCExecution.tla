----------------------------- MODULE MCExecution -----------------------------
EXTENDS ExecutionInvariant
=============================================================================

--------------------------- MODULE MCWorkflowLock ---------------------------
\* Three executions, a lease of two ticks, and a token more than executions:
\* one of them can claim again after its lease ran out.
EXTENDS WorkflowLock

=============================================================================

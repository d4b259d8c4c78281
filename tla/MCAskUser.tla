----------------------------- MODULE MCAskUser -----------------------------
\* AskUser for TLC.  The run checks liveness, so it uses no symmetry.
EXTENDS AskUser
=============================================================================

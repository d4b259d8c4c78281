-------------------------- MODULE MCConsolidation --------------------------
\* Consolidation for TLC.  The run checks liveness, so it uses no symmetry.
EXTENDS Consolidation
=============================================================================

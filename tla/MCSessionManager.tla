-------------------------- MODULE MCSessionManager --------------------------
\* SessionManager for TLC.  Callers are interchangeable, and so are unreserved
\* sessions: the safety runs use that symmetry.
EXTENDS SessionManager, TLC

CallerSymmetry == Permutations(Threads)
SessionSymmetry == Permutations(Sessions \ Reserved)
Symmetry == CallerSymmetry \cup SessionSymmetry
=============================================================================

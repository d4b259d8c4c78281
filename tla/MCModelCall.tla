---- MODULE MCModelCall ----
EXTENDS ModelCall
====

-------------------------------- MODULE MCCron --------------------------------
EXTENDS Cron

MCKind == [once |-> "one-time", often |-> "recurring", daily |-> "cron"]
MCAt == [once |-> 2, often |-> 1, daily |-> 1]

=============================================================================

-------------------------- MODULE MCCronScheduler ---------------------------
(* Instances of CronScheduler for TLC.                                     *)
EXTENDS CronScheduler

\* Five-field schedules that name every other minute, which
\* getExecutionWindow does not know: their windows are a minute wide.
FiveFields       == [j \in Job |-> 5]
EveryOtherMinute == [j \in Job |-> 2]
OneMinute        == [j \in Job |-> 1]
=============================================================================

---------------------------- MODULE MCCronService ---------------------------
(* CronService with one recurring job and one one-shot, or two recurring    *)
(* jobs.                                                                    *)
EXTENDS CronService, TLC

CONSTANTS daily, hourly, once

MCAt == [j \in OneShots |-> 2]
=============================================================================

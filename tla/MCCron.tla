-------------------------------- MODULE MCCron --------------------------------
(* Cron with two registrations, of one name or of two: enough for each to   *)
(* replace, overtake or overlap the other while the scheduler starts and    *)
(* the jobs are cancelled.                                                  *)
EXTENDS Cron
===============================================================================

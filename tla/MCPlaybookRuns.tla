---------------------------- MODULE MCPlaybookRuns ----------------------------
(***************************************************************************)
(* PlaybookRuns for runs with more than one job: job ids are random        *)
(* (uuid4), so that which job is which does not matter.                    *)
(***************************************************************************)
EXTENDS PlaybookRuns, TLC

SameJobs == Permutations(Jobs)
===============================================================================

------------------------------- MODULE MCJobs -------------------------------
(***************************************************************************)
(* Small job systems for TLC: what the caller dispatches.                  *)
(***************************************************************************)
EXTENDS Jobs

\* Three groups, of two jobs and, cut short, of one.
UnevenGroups == {<<5, 2>>}

\* Three groups of one job each: more than a queue of one slot takes at once.
ThreeGroups == {<<3, 1>>}

=============================================================================

------------------------------ MODULE MCCampaign ------------------------------
(* Instances of Campaign small enough for TLC. *)
EXTENDS Campaign, TLC

CONSTANTS c1, c2, t1, t2, t3, k1, k2, k3, k4, k5, k6, k7, kid1, kid2

\* Every command with every choice; of the three keys of prepare one cites any
\* version, one an early or a late one and one, without hardware, a late one.
MCRequests ==
  [cmd : {"prepare"}, key : {k1}, use : {"hardware"}, asof : {1, MaxEvents - 2}]
  \cup [cmd : {"prepare"}, key : {k2}, use : HardwareUse, asof : 1..MaxEvents]
  \cup [cmd : {"prepare"}, key : {k7}, use : {"none"}, asof : {MaxEvents - 1}]
  \cup [cmd : {"submit"}, key : {k3}, task : Tasks, status : SubmissionStatus]
  \cup [cmd : {"pause"}, key : {k4}, mode : PauseModes]
  \cup [cmd : {"resume"}, key : {k4, k5}]
  \cup [cmd : {"cancel"}, key : {k6}, task : Tasks]
  \cup [cmd : {"progress"}, key : {k5, k6}, task : Tasks, child : Children, state : ChildStates]
  \cup [cmd : {"finalize"}, key : {k4}]

\* A smaller set for liveness and refinement: an after-task pause, its end by
\* a submission or a cancellation, and whatever may follow it.
MCPauseRequests ==
  [cmd : {"prepare"}, key : {k1}, use : {"hardware"}, asof : {1}]
  \cup [cmd : {"submit"}, key : {k3}, task : Tasks, status : {"succeeded"}]
  \cup [cmd : {"pause"}, key : {k2, k4}, mode : {"after-task"}]
  \cup [cmd : {"resume"}, key : {k5}]
  \cup [cmd : {"cancel"}, key : {k6}, task : Tasks]
  \cup [cmd : {"progress"}, key : {k1, k4}, task : Tasks, child : Children, state : ChildStates]
  \cup [cmd : {"finalize"}, key : {k6}]

Symmetry == Permutations(Clients) \cup Permutations(Tasks) \cup Permutations(Children)
=============================================================================

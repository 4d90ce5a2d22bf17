------------------------ MODULE MCAutomationRuntime ------------------------
(* Model values and symmetry for checking AutomationRuntime with TLC.       *)
EXTENDS AutomationRuntime, TLC

CONSTANTS j1, j2, r1, r2, r3

\* The workflow of a job has the job's id, the wait of a run the run's.
OneJob == {j1}
TwoJobs == {j1, j2}
TwoRuns == {r1, r2}
ThreeRuns == {r1, r2, r3}

Symmetry == Permutations(Job) \cup Permutations(Run) \cup Permutations(Task)
=============================================================================

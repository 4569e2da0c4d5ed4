--------------------------- MODULE MCWorkflowEngine ---------------------------
(* Model-checking constants for WorkflowEngine. *)
EXTENDS WorkflowEngine, TLC

\* API operations that may take effect, and how often.
OpsOnce(ops) == [op \in Ops |-> IF op \in ops THEN 1 ELSE 0]
StartOnly == OpsOnce({"start"})
StartCancel == OpsOnce({"start", "cancel"})
StartPauseCancel == OpsOnce({"start", "pause", "cancel"})
StartPauseResume == OpsOnce({"start", "pause", "resume"})
AllOps == OpsOnce(Ops)

\* Worker processes are interchangeable (used by the safety runs only).
WorkerSymmetry == Permutations(Workers) \cup Permutations(ApiProcs)
===============================================================================

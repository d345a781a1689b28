-------------------------- MODULE MCWorkflowDaemon --------------------------
(* Instances of WorkflowDaemon small enough for TLC. *)
EXTENDS WorkflowDaemon, TLC

Symmetry == Permutations(Threads) \cup Permutations(Nodes) \cup Permutations(Workflows)

(* Bound: once two updates of the list have overlapped, a behaviour is      *)
(* followed while threads only start workflows and one process was forked.  *)
RacedBound ==
  raced => /\ up /\ Cardinality({p \in Pids : status[p] # "none"}) <= 1
           /\ \A t \in Threads : tpc[t] \in {"idle", "start_link", "start_unlink",
                "start_fork", "start_running", "start_pid", "start_pipe"}
=============================================================================

---------------------------- MODULE MCTaskQueue ----------------------------
(***************************************************************************)
(* TaskQueue with exactly the pids of the modelled processes.              *)
(***************************************************************************)
EXTENDS TaskQueue

MCPid == Heartbeat \cup Cli \cup Dispatcher \cup Operator
=============================================================================

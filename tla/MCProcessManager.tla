-------------------------- MODULE MCProcessManager --------------------------
(***************************************************************************)
(* Values for TLC: what may go wrong in the run, any number of times; with *)
(* all kinds of faults the manager is not right any more.                  *)
(***************************************************************************)
EXTENDS ProcessManager

MCFaults == {"survive", "stray", "service", "spawn", "hang"}
AllFaults == MCFaults \cup {"scan", "mkdir"}
=============================================================================

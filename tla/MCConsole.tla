------------------------------ MODULE MCConsole ------------------------------
(***************************************************************************)
(* Runs of the agent and catalog syncs over one call log.  A tick stands   *)
(* for two minutes, so that Gap and Window are one tick.                   *)
(***************************************************************************)
EXTENDS Console, TLC

AgentSymmetry == Permutations(Agents)
=============================================================================

-------------------------- MODULE MCProvisionerJobs --------------------------
(***************************************************************************)
(* Instances of ProvisionerJobs for TLC: builds of one workspace, and      *)
(* a build beside a template import.                                       *)
(***************************************************************************)
EXTENDS ProvisionerJobs, TLC

CONSTANT ws

AllBuilds == [j \in Jobs |-> "start"]
DeleteLast == [j \in Jobs |-> IF \A i \in Jobs : i <= j THEN "delete" ELSE "start"]
BuildAndImport == [j \in Jobs |-> IF j = 1 THEN "start" ELSE "import"]
OneWorkspace == [j \in Jobs |-> ws]
Symmetry == Permutations(Daemons) \cup Permutations(Rpcs)
=============================================================================

-------------------------- MODULE MCDeployPipeline --------------------------
(* Small instances of DeployPipeline. *)
EXTENDS DeployPipeline, TLC

Symmetry == Permutations(Jobs) \cup Permutations(Configs)

(* Three kinds add nothing to the others: deploy_canary is the beginning   *)
(* of promote, and health_check and with_load do to the tree what          *)
(* deploy_dev does up to where they end, since looking for the artifacts   *)
(* changes nothing.                                                        *)
CoveringKinds == DOMAIN Script \ {"deploy_canary", "health_check", "with_load"}
=============================================================================

---------------------------- MODULE MCDeployment ----------------------------
(***************************************************************************)
(* Deployment for TLC: the constants are given in deployment.cfg.          *)
(***************************************************************************)
EXTENDS Deployment, TLC

\* Deployments, and releases, are interchangeable.
DeploymentSymmetry == Permutations(Deploy) \cup Permutations(Release)
=============================================================================

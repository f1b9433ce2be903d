-------------------------- MODULE MCMaterialization --------------------------
(***************************************************************************)
(* Materialization on two runs of one project.                             *)
(***************************************************************************)
EXTENDS Materialization
=============================================================================

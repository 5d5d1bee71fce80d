------------------------------ MODULE MCStartup ------------------------------
(* Instances that migrate or do not, with and without required storage. *)
EXTENDS Startup

MCConfigs == [required : BOOLEAN, migrate : BOOLEAN]
=============================================================================

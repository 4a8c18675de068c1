------------------------------- MODULE MCReset -------------------------------
(***************************************************************************)
(* The smallest instance in which a reset of all data can be asked for.    *)
(***************************************************************************)
EXTENDS BackupRestore
=============================================================================

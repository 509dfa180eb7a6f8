--------------------------- MODULE MCRuntimeStore ---------------------------
(***************************************************************************)
(* RuntimeStore with two processes, any mix of operations, and any two of  *)
(* a signal, a death and a refused deletion.                               *)
(***************************************************************************)
EXTENDS RuntimeStore

AllOperations == {"install", "repair", "remove"}
InstallOnly   == {"install"}
RepairOnly    == {"repair"}
=============================================================================

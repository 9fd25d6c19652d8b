------------------------------ MODULE DataDirs ------------------------------
(***************************************************************************)
(* The data directories the database is loaded from, in the order           *)
(* libwacom_database_new and libwacom_database_new_for_path list them, and  *)
(* what opendir finds for each while the database is loaded.                *)
(***************************************************************************)
EXTENDS Integers

CONSTANT NDirs  \* number of directories, 1 the first in the list
ASSUME NDirsAssumption == NDirs \in Nat

Dir == 1..NDirs

VARIABLE dirStatus  \* "ok", "missing" (ENOENT) or "unreadable" (another error)

DirStatus == {"ok", "missing", "unreadable"}
DirsInit  == dirStatus \in [Dir -> DirStatus]
=============================================================================

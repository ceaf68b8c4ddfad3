------------------------------ MODULE MCBackups ------------------------------
(* An instance of Backups for TLC: three revisions, of which the second's  *)
(* configuration is rejected by now.                                       *)
EXTENDS Backups, TLC

CONSTANTS old, rejected, new

MCConfigs == {old, rejected, new}
MCConfigOf == <<old, rejected, new>>
===============================================================================

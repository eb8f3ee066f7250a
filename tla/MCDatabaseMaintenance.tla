----------------------- MODULE MCDatabaseMaintenance -----------------------
(* TLC instances of DatabaseMaintenance: an old backup and one of the      *)
(* newest version, of equal length.                                        *)
EXTENDS DatabaseMaintenance, TLC

CONSTANTS old, current

Backups == {old, current}
BackupVersion == (old :> 1 @@ current :> 3)
BackupChunks == (old :> 2 @@ current :> 2)
=============================================================================

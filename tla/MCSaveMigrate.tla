--------------------------- MODULE MCSaveMigrate ---------------------------
(* The real address map with all of its fifteen blocks.                    *)
EXTENDS SaveMigrate
=============================================================================

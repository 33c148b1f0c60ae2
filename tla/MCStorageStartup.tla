-------------------------- MODULE MCStorageStartup --------------------------
(* A missing table, a missing column that static index SQL names, an index of *)
(* agent_memory, a mistyped column, a missing column that neither a migration *)
(* nor the repair can add, and a trigger only the finalizer looks for.        *)
EXTENDS StorageStartup

CONSTANTS table, column, mistyped, lostColumn, trigger, index

MCRepairable == {table, column, index}
MCManual == {mistyped, lostColumn}
MCUnseen == {trigger}
MCStatic == {table}
MCAdded == {column, trigger}
MCBlocking == {column, lostColumn}
MCMaintained == {index}
=============================================================================

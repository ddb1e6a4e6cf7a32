---------------------------- MODULE MCPosixUpdate ----------------------------
(* Four paths in begin()'s order: a directory (lib, web, i18n...), the     *)
(* core, the manager, and a plugin file that the package may add.          *)
EXTENDS PosixUpdate
MCDirs == {1}
MCRequired == {2, 3}
=============================================================================

---------------------------- MODULE MCFolderTree ----------------------------
(***************************************************************************)
(* FolderTree for TLC: documents share one file name, so that moves to the *)
(* root can be refused.                                                    *)
(***************************************************************************)
EXTENDS FolderTree

OneFileName == [d \in Documents |-> "file"]
=============================================================================

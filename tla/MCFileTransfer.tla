--------------------------- MODULE MCFileTransfer ---------------------------
(* Instances of FileTransfer for TLC: the streams. *)
EXTENDS FileTransfer, TLC

Folder6 == <<"folder", "content", "folder", "content", "content", "content">>
EmptyFiles == <<"folder", "folder", "folder", "folder", "folder", "folder">>

=============================================================================

--------------------------- MODULE MCFileChannel ---------------------------
(* The instances of FileChannel for TLC take all values from the .cfg.     *)
EXTENDS FileChannel
=============================================================================

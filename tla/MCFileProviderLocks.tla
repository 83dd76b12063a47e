------------------------ MODULE MCFileProviderLocks ------------------------
(* Small instances of FileProviderLocks for TLC.                           *)
EXTENDS FileProviderLocks
===========================================================================

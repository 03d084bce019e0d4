----------------------------- MODULE MCWatcher -----------------------------
(* A small hub cache for TLC.                                              *)
EXTENDS Watcher

OneRepo == {"r"}
OneFile == {"f"}

=============================================================================

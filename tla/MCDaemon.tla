------------------------------ MODULE MCDaemon ------------------------------
(***************************************************************************)
(* Two daemons, and the commands named in the cfg.                         *)
(***************************************************************************)
EXTENDS Daemon, TLC

(* Daemons are alike, and so are shutdown requests.                        *)
Symmetry == Permutations(Daemons) \cup Permutations(Stoppers)

=============================================================================

-------------------------- MODULE MCDownloadQueue --------------------------
(* TLC instances of DownloadQueue. *)
EXTENDS DownloadQueue, TLC

Symmetry == Permutations(Clients)
=============================================================================

-------------------------- MODULE MCDownloadTrack --------------------------
(* TLC instances of DownloadTrack. *)
EXTENDS DownloadTrack, TLC

Symmetry == Permutations(Webs) \cup Permutations(WebItems) \cup Permutations(WorkerItems)
=============================================================================

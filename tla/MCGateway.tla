----------------------------- MODULE MCGateway -----------------------------
(* TLC instances of Gateway.  The letters are those of whole words.        *)
EXTENDS Gateway, TLC

Symmetry == Permutations(Jobs) \cup Permutations(Clients) \cup Permutations(Parts)
              \cup Permutations(Senders)

(* A song with a qualifier, and a longer title that its short one is part  *)
(* of: a file of the second may pass for the first, and not the reverse.   *)
TitleMC == [t \in Tracks |->
  IF t = "vaathi" THEN <<"vaathi", "remix">> ELSE <<"vaa", "vaathi">>]
CoreMC == [TitleMC EXCEPT !["vaathi"] = <<"vaathi">>]
SaysMC == [t \in Tracks |->
  IF t = "vaathi" THEN {<<"vaathi", "anirudh">>} ELSE {<<"vaa", "vaathi", "gv">>}]
(* Files that may say nothing, too.                                        *)
SaysLessMC == [t \in Tracks |-> SaysMC[t] \cup {<<>>}]
=============================================================================

------------------------------- MODULE Matching -------------------------------
(***************************************************************************)
(* Are these the same recording?  The comparisons of backend/match.go, the *)
(* library's MatchLibrary and the facade's own tests, on credits that are  *)
(* split into names already: a credit is the set of its names.             *)
(*                                                                         *)
(* Fuller relates a name to one it is a long prefix of, as in              *)
(* "G. V. Prakash" and "G. V. Prakash Kumar"; Within relates credits that, *)
(* written down as letters alone, are one inside the other.                *)
(***************************************************************************)
EXTENDS Naturals, Sequences, FiniteSets

CONSTANTS
    Fuller,     \* pairs of names of five letters or more, one a prefix of the other
    Within,     \* pairs of credits, the first somewhere in the second
    NoKey       \* no title, no ISRC: the empty string

(* ArtistsOverlap: an unknown credit on one side leaves it to the title. *)
Akin(x, y) == x = y \/ <<x, y>> \in Fuller \/ <<y, x>> \in Fuller

ArtistsOverlap(a, b) ==
    \/ a = {} \/ b = {}
    \/ \E x \in a, y \in b : Akin(x, y)
    \/ <<a, b>> \in Within \/ <<b, a>> \in Within

(* CreditsMatch: but an untagged file is not everybody's. *)
CreditsMatch(have, want) == ~(have = {} /\ want # {}) /\ ArtistsOverlap(have, want)

\* mutant: one artist has to be the very same
SongMatchesExactly(nav, title, credit) ==
    nav.title # NoKey /\ nav.title = title /\ nav.credit \cap credit # {}

(* songMatches: what reconcile takes for the track in Navidrome's answer.  *)
SongMatches(nav, title, credit) ==
    nav.title # NoKey /\ nav.title = title /\ ArtistsOverlap(nav.credit, credit)

(* MatchLibrary for one item: by its ISRC, else the cached one, else by name. *)
KnownISRC(cached, item) ==
    IF item.isrc # NoKey THEN item.isrc
    ELSE IF item.id \in DOMAIN cached THEN cached[item.id] ELSE NoKey

MatchType(library, cached, item) ==
    LET isrc == KnownISRC(cached, item)
    IN  IF isrc # NoKey /\ \E e \in library : e.isrc = isrc THEN "isrc"
        ELSE IF item.title # NoKey
                /\ \E e \in library : e.title = item.title /\ CreditsMatch(e.credit, item.credit)
             THEN "name"
        ELSE "none"

(* ownedSet.has: the same test against the rows Navidrome has just returned. *)
OwnedHas(rows, title, credit) ==
    title # NoKey /\ \E s \in rows : s.title = title /\ CreditsMatch(s.credit, credit)
==============================================================================

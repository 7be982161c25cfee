------------------------------ MODULE MCImages ------------------------------
(***************************************************************************)
(* Small instances of Images for TLC.                                       *)
(***************************************************************************)
EXTENDS Images, SequencesExt

CONSTANTS i1, i2

N(repo, tag) == [repo |-> repo, tag |-> tag]

TwoImages == <<i1, i2>>
\* One repository with and without a tag, and another: "a" < "a:1" < "b:1".
ThreeNames == <<N("a", RepoOnly), N("a", "1"), N("b", "1")>>

\* An app that follows a tag whose content changes, or was built here.
Follows == {<<N("a", "1"), i1>>, <<None, i2>>}
SecondInFirst == [i \in Images |-> IF i = i1 THEN {i2} ELSE {}]

\* For MovedNameIsUnique.
FourNames == ThreeNames \o <<N("c", "1")>>
NoNested == [i \in Images |-> {}]

\* The loop of tag.go as it is written: k ranges over the copy, acc is what is left.
DeleteInLoop(tags, S) ==
    LET step(acc, k) ==
            IF tags[k] \notin S \/ acc.panic THEN acc
            ELSE [tags |-> IF k <= Len(acc.tags) THEN RemoveAt(acc.tags, k) ELSE acc.tags,
                  panic |-> k > Len(acc.tags)]
    IN  FoldLeft(step, [tags |-> tags, panic |-> FALSE], [k \in 1..Len(tags) |-> k])

\* Names are numbers here; up to four of them, and all sets to be taken away.
ASSUME DeleteHitsIsTheLoop ==
    \A tags \in BoundedSeq(1..4, 4), S \in SUBSET (1..4) :
        /\ DeleteHits(tags, S).panic = DeleteInLoop(tags, S).panic
        /\ ~DeleteHits(tags, S).panic => DeleteHits(tags, S).tags = DeleteInLoop(tags, S).tags
        /\ Without(tags, S) = SelectSeq(tags, LAMBDA n : n \notin S)
=============================================================================

------------------------------ MODULE Catalog ------------------------------
(***************************************************************************)
(* What the images of a project promise, whoever writes them: a catalogue   *)
(* in which one entry changes at a time and nothing is undone by accident.  *)
(* A name that was removed does not come back with a write of something     *)
(* else, and an image that is in the cluster's registry does not become     *)
(* remote again while it is recorded.                                       *)
(***************************************************************************)
CONSTANTS Images, Names, RepoOnly, None

VARIABLE entry

Of(remote, names) == [remote |-> remote, names |-> names]
OnRepo(n) == [repo |-> n.repo, tag |-> RepoOnly]

\* Recorded without a name, or under the one the app was given.
Record(i) ==
    /\ entry[i] = None
    /\ \E remote \in BOOLEAN, names \in {{}} \cup {{n} : n \in Names} :
        entry' = [entry EXCEPT ![i] = Of(remote, names)]

\* A tag of a repository takes the place of the repository's own name.
AddName(i, n) ==
    /\ entry[i] # None
    /\ n.tag = RepoOnly => \A m \in entry[i].names : m.repo # n.repo
    /\ entry' = [entry EXCEPT ![i] = Of(@.remote, (@.names \ {OnRepo(n)}) \cup {n})]

DropNames(i) ==
    /\ entry[i] # None
    /\ \E S \in SUBSET entry[i].names : entry' = [entry EXCEPT ![i] = Of(@.remote, S)]

Fetch(i) ==
    /\ entry[i] # None
    /\ entry' = [entry EXCEPT ![i] = Of(FALSE, @.names)]

Forget(i) == entry' = [entry EXCEPT ![i] = None]

Init == entry = [i \in Images |-> None]
Next == \E i \in Images :
    \/ Record(i) \/ DropNames(i) \/ Fetch(i) \/ Forget(i)
    \/ \E n \in Names : AddName(i, n)
Spec == Init /\ [][Next]_entry
=============================================================================

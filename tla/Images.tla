------------------------------- MODULE Images -------------------------------
(***************************************************************************)
(* The ImageInstances of a project and the names (tags) they carry, which   *)
(* are written by app passes (pkg/controller/images), by the tag and pull   *)
(* requests of the API server and by clients that remove names and images. *)
(*                                                                          *)
(* A name is a record [repo, tag]; the tag RepoOnly stands for a name       *)
(* without one, as recorded for an image that was fetched by its digest.    *)
(* Every writer reads the images once and then sends its writes one by one, *)
(* each refused if the image has changed since it was read.  A request is   *)
(* therefore a list of writes, todo, and the set of the images that changed *)
(* since they were read, stale.                                             *)
(***************************************************************************)
EXTENDS Naturals, Sequences, FiniteSets, Functions

CONSTANTS
    ImageList,   \* the images, in the order in which the API server lists them
    SortedNames, \* the names, in the order of sort.Strings
    RepoOnly,    \* the tag of a name that has none
    Clients,     \* the users' requests
    Apps,        \* the apps
    AppImages,   \* the <<name, image>> pairs that apps can be given
    Nested,      \* the images that are part of another image
    Retries,     \* bound: attempts of RetryOnConflict (5 in client-go)
    MayPull,     \* whether users pull images
    None         \* no image, no name

Images == Range(ImageList)
Names == Range(SortedNames)
Writers == Clients \cup Apps

ASSUME ImagesAssumption ==
    /\ ImageList \in Seq(Images) /\ SortedNames \in Seq(Names) /\ IsInjective(SortedNames)
    /\ \A n \in Names : n = [repo |-> n.repo, tag |-> n.tag]
    /\ None \notin Images \cup Names \cup [remote : BOOLEAN, names : SUBSET Names]
    /\ Clients \cap Apps = {}
    /\ \A n \in Names : n.repo # RepoOnly
    /\ AppImages \subseteq (Names \cup {None}) \X Images
    /\ Nested \in [Images -> SUBSET Images]
    /\ Retries \in Nat \ {0}

VARIABLES
    image,   \* the ImageInstances: live, remote, tags
    status,  \* of an app: AppImage.Digest (digest) and ObservedImageDigest (observed)
    pc,      \* where a writer is
    arg,     \* what it was asked to do: op, the image, the name
    todo,    \* the writes it has still to send
    stale,   \* the images that changed since it read them
    tries    \* how often its tag request was tried

requestVars == <<pc, arg, todo, stale, tries>>
vars == <<image, status, requestVars>>

-----------------------------------------------------------------------------
(* Names *)

Repo(n) == [repo |-> n.repo, tag |-> RepoOnly]
IsTagged(n) == n.tag # RepoOnly

\* The elements of a sequence at the positions I, in their order.
Rank(I, i) == Cardinality({j \in I : j <= i})
Select(seq, I) == [k \in 1..Cardinality(I) |-> seq[CHOOSE i \in I : Rank(I, i) = k]]
Positions(seq, S) == {k \in 1..Len(seq) : seq[k] \in S}

\* sets.String.List
List(S) == Select(SortedNames, Positions(SortedNames, S))
Without(tags, S) == Select(tags, 1..Len(tags) \ Positions(tags, S))
InOrder(S) == Select(ImageList, Positions(ImageList, S))
NamesOf(i) == Range(image[i].tags)

Absent == [live |-> FALSE, remote |-> FALSE, tags |-> <<>>]
Present(remote, tags) == [live |-> TRUE, remote |-> remote, tags |-> tags]

-----------------------------------------------------------------------------
(* Writes *)

NoArg == [op |-> "none", img |-> None, name |-> None, remote |-> FALSE]
Arg(op, i, n) == [op |-> op, img |-> i, name |-> n, remote |-> FALSE]

Put(i, new) == [kind |-> "update", img |-> i, new |-> new]
Make(i, new) == [kind |-> "create", img |-> i, new |-> new]
Panic(i) == [kind |-> "panic", img |-> i, new |-> Absent]

\* Mutant: Update sends no resourceVersion.
AcceptedForced(p, w) ==
    CASE w.kind = "update" -> image[w.img].live
      [] w.kind = "create" -> ~image[w.img].live
      [] OTHER -> FALSE

\* The API server: an update needs the current version, a create no object.
Accepted(p, w) ==
    CASE w.kind = "update" -> image[w.img].live /\ w.img \notin stale[p]
      [] w.kind = "create" -> ~image[w.img].live
      [] OTHER -> FALSE

\* A change of image i: whoever is about to write it holds an old version.
Change(i, new) ==
    /\ image' = [image EXCEPT ![i] = new]
    /\ stale' = [q \in Writers |->
                   stale[q] \cup ({todo[q][k].img : k \in 1..Len(todo[q])} \cap {i})]

Goto(p, l) == pc' = [pc EXCEPT ![p] = l]
GoOn(p, l) == Goto(p, l) /\ UNCHANGED <<image, status, arg, todo, stale, tries>>

\* Back to the beginning, with nothing left behind.
End(p) ==
    /\ Goto(p, "idle")
    /\ arg' = [arg EXCEPT ![p] = NoArg]
    /\ todo' = [todo EXCEPT ![p] = <<>>]
    /\ tries' = [tries EXCEPT ![p] = 0]

EndRequest(p) ==
    /\ End(p)
    /\ stale' = [stale EXCEPT ![p] = {}]
    /\ UNCHANGED <<image, status>>

-----------------------------------------------------------------------------
(* TagStrategy.ImageTag *)

\* Mutant: a tagged name is added and the repository's own name is kept.
NamesWithKept(i, name) == NamesOf(i) \cup {name}

\* The names the image is to have.
NamesWith(i, name) ==
    (NamesOf(i) \ (IF IsTagged(name) THEN {Repo(name)} ELSE {})) \cup {name}

\* The loop over another image's tags: it ranges over a copy and deletes by the
\* index in the copy.  After n hits everything has moved up by n, so what goes at
\* the next one is n further than it should be; beyond the end that is a panic.
DeleteHits(tags, S) ==
    LET hits == Positions(tags, S)
        deleted(k) == k + Cardinality({h \in hits : h < k})
    IN  [tags |-> Select(tags, 1..Len(tags) \ {deleted(k) : k \in hits}),
         panic |-> \E k \in hits : deleted(k) > Len(tags)]

\* The writes to the others, up to the panic if there is one.
TakeAway(i, S) ==
    LET others == InOrder({j \in Images \ {i} : image[j].live /\ NamesOf(j) \cap S # {}})
        rest(j) == DeleteHits(image[j].tags, S)
        write(j) == IF rest(j).panic THEN Panic(j)
                    ELSE Put(j, [image[j] EXCEPT !.tags = rest(j).tags])
        reached == {k \in 1..Len(others) : \A l \in 1..(k - 1) : ~rest(others[l]).panic}
    IN  [k \in 1..Cardinality(reached) |-> write(others[k])]

\* A name without a tag is only recorded if the repository is not named yet.
ImageTag(i, name) ==
    IF ~IsTagged(name)
    THEN IF \E n \in NamesOf(i) : n.repo = name.repo THEN <<>>
         ELSE <<Put(i, [image[i] EXCEPT !.tags = List(NamesWith(i, name))])>>
    ELSE Append(TakeAway(i, NamesWith(i, name)),
                Put(i, [image[i] EXCEPT !.tags = List(NamesWith(i, name))]))

\* Get and List of one attempt.
ReadForTag(c) ==
    /\ pc[c] = "tag"
    /\ IF image[arg[c].img].live
       THEN /\ Goto(c, "write")
            /\ todo' = [todo EXCEPT ![c] = ImageTag(arg[c].img, arg[c].name)]
            /\ stale' = [stale EXCEPT ![c] = {}]
            /\ tries' = [tries EXCEPT ![c] = @ + 1]
            /\ UNCHANGED <<image, status, arg>>
       ELSE EndRequest(c)

\* Mutant: there is no limit on the attempts.
WriteFailsForClientAlways(c) ==
    IF arg[c].op = "tag" /\ Head(todo[c]).kind = "update" /\ image[Head(todo[c]).img].live
    THEN GoOn(c, "tag")
    ELSE EndRequest(c)

\* RetryOnConflict: only an outdated version is tried again, Retries times.
WriteFailsForClient(c) ==
    IF /\ arg[c].op = "tag"
       /\ Head(todo[c]).kind = "update"
       /\ image[Head(todo[c]).img].live
       /\ tries[c] < Retries
    THEN GoOn(c, "tag")
    ELSE EndRequest(c)

\* createImageForSelf returns the error and CreateImages drops it: the nested
\* images are skipped, the pass goes on.
WriteFailsForApp(a) ==
    IF arg[a].op = "self"
    THEN GoOn(a, "save")
    ELSE EndRequest(a)

-----------------------------------------------------------------------------
(* Requests of clients *)

\* client.ImageTag, which looks the image up first.
StartTag(c, i, name) ==
    /\ pc[c] = "idle"
    /\ image[i].live
    /\ Goto(c, "tag")
    /\ arg' = [arg EXCEPT ![c] = Arg("tag", i, name)]
    /\ UNCHANGED <<image, status, todo, stale, tries>>

\* ImagePull: the index is copied, then recordImage records its digest.
StartPull(c, i, name) ==
    /\ MayPull
    /\ pc[c] = "idle"
    /\ Goto(c, "record")
    /\ arg' = [arg EXCEPT ![c] = Arg("pull", i, name)]
    /\ UNCHANGED <<image, status, todo, stale, tries>>

\* recordImage: Create, or Get and an Update to come.
RecordImage(c) ==
    LET i == arg[c].img
    IN  /\ pc[c] = "record"
        /\ IF image[i].live
           THEN /\ Goto(c, "write")
                /\ todo' = [todo EXCEPT ![c] = <<Put(i, [image[i] EXCEPT !.remote = FALSE])>>]
                /\ stale' = [stale EXCEPT ![c] = {}]
                /\ UNCHANGED <<image, arg>>
           ELSE /\ Change(i, Present(FALSE, <<>>))
                /\ Goto(c, "tag")
                /\ arg' = [arg EXCEPT ![c].op = "tag"]
                /\ UNCHANGED todo
        /\ UNCHANGED <<status, tries>>

\* client.ImageDelete: the only name goes with the image; one name of several is
\* removed by an update; an image with several names is deleted only by force.
StartDelete(c, i, name, force) ==
    LET remaining == Without(image[i].tags, {name})
    IN  /\ pc[c] = "idle"
        /\ image[i].live
        /\ name = None \/ name \in NamesOf(i)
        /\ IF Len(image[i].tags) = 1 \/ (name = None /\ (force \/ image[i].tags = <<>>))
           THEN /\ Goto(c, "delete")
                /\ arg' = [arg EXCEPT ![c] = Arg("delete", i, name)]
                /\ UNCHANGED todo
           ELSE /\ name # None
                /\ Goto(c, "write")
                /\ arg' = [arg EXCEPT ![c] = Arg("untag", i, name)]
                /\ todo' = [todo EXCEPT ![c] = <<Put(i, [image[i] EXCEPT !.tags = remaining])>>]
        /\ UNCHANGED <<image, status, stale, tries>>

InUse(i) == \E a \in Apps : status[a].digest = i

\* validateDelete: an image that an app uses loses its names, and if it has none
\* the request is refused.
ValidateDelete(c) ==
    LET i == arg[c].img
    IN  /\ pc[c] = "delete"
        /\ IF image[i].live /\ ~InUse(i)
           THEN GoOn(c, "remove")
           ELSE IF image[i].live /\ image[i].tags # <<>>
           THEN /\ Goto(c, "write")
                /\ todo' = [todo EXCEPT ![c] = <<Put(i, [image[i] EXCEPT !.tags = <<>>])>>]
                /\ stale' = [stale EXCEPT ![c] = {}]
                /\ UNCHANGED <<image, status, arg, tries>>
           ELSE EndRequest(c)

\* The Get and the Delete that follow it.
RemoveImage(c) ==
    /\ pc[c] = "remove"
    /\ Change(arg[c].img, Absent)
    /\ Goto(c, "done")
    /\ UNCHANGED <<status, arg, todo, tries>>

\* Strategy.ValidateUpdate: a name it keeps, with the default tag if it has none,
\* is on no other image.
Latest(n) == IF IsTagged(n) THEN n ELSE [n EXCEPT !.tag = "latest"]
ValidUpdate(w) ==
    \A j \in Images \ {w.img} : image[j].live =>
        {Latest(n) : n \in Range(w.new.tags)} \cap NamesOf(j) = {}

-----------------------------------------------------------------------------
(* Passes over apps *)

\* removeTag: the name is taken from every image that has it.
RemoveTag(name) ==
    LET others == InOrder({j \in Images : image[j].live /\ name \in NamesOf(j)})
    IN  [k \in 1..Len(others) |->
           Put(others[k], [image[others[k]] EXCEPT !.tags = Without(@, {name})])]

\* createImageForSelf: nothing to do if the image has the name, or another of
\* the repository when the name has no tag.
CreateImageForSelf(i, name) ==
    IF /\ image[i].live
       /\ \/ name \in NamesOf(i)
          \/ ~IsTagged(name) /\ \E n \in NamesOf(i) : n.repo = name.repo
    THEN <<>>
    ELSE Append(RemoveTag(name),
                IF image[i].live
                THEN Put(i, [image[i] EXCEPT !.tags = <<name>> \o Without(@, {Repo(name)})])
                ELSE Make(i, Present(TRUE, <<name>>)))

\* PullAppImage may have given the app another image in this pass; CreateImages
\* leaves an observed digest alone.  A local image (name None) is only looked up.
StartPass(a, name, i) ==
    /\ pc[a] = "idle"
    /\ \/ <<name, i>> \in AppImages
       \/ i = status[a].digest /\ name = status[a].name
    /\ <<name, i>> # <<status[a].name, status[a].digest>> \/ status[a].observed # i
    /\ i # None
    /\ IF i = status[a].observed \/ (name = None /\ ~image[i].live)
       THEN Goto(a, "save") /\ UNCHANGED todo
       ELSE /\ Goto(a, "write")
            /\ todo' = [todo EXCEPT ![a] = IF name = None THEN <<>> ELSE CreateImageForSelf(i, name)]
    /\ arg' = [arg EXCEPT ![a] = [op |-> "self", img |-> i, name |-> name,
                                  remote |-> IF image[i].live THEN image[i].remote ELSE TRUE]]
    /\ UNCHANGED <<image, status, stale, tries>>

\* createNestedReferences
NestedReferences(a) ==
    LET absent == InOrder({j \in Nested[arg[a].img] : ~image[j].live})
    IN  /\ pc[a] = "write" /\ todo[a] = <<>> /\ arg[a].op = "self"
        /\ todo' = [todo EXCEPT ![a] = [k \in 1..Len(absent) |->
                                          Make(absent[k], Present(arg[a].remote, <<>>))]]
        /\ arg' = [arg EXCEPT ![a].op = "nested"]
        /\ UNCHANGED <<image, status, pc, stale, tries>>

NestedDone(a) ==
    /\ pc[a] = "write" /\ todo[a] = <<>> /\ arg[a].op = "nested"
    /\ Goto(a, "save")
    /\ UNCHANGED <<image, status, arg, todo, stale, tries>>

\* The status is saved.  UpdateObservedFields is reached only if CheckStatus let
\* the pass through.
SavePass(a, met) ==
    /\ pc[a] = "save"
    /\ status' = [status EXCEPT ![a] = [digest |-> arg[a].img, name |-> arg[a].name,
                                        observed |-> IF met THEN arg[a].img ELSE @.observed]]
    /\ End(a)
    /\ stale' = [stale EXCEPT ![a] = {}]
    /\ UNCHANGED image

-----------------------------------------------------------------------------
(* Steps of every writer *)

WriteAccepted(p) ==
    /\ pc[p] = "write" /\ todo[p] # <<>>
    /\ Accepted(p, Head(todo[p]))
    /\ arg[p].op = "untag" => ValidUpdate(Head(todo[p]))
    /\ Change(Head(todo[p]).img, Head(todo[p]).new)
    /\ todo' = [todo EXCEPT ![p] = Tail(@)]
    /\ UNCHANGED <<status, pc, arg, tries>>

WriteRefused(p) ==
    /\ pc[p] = "write" /\ todo[p] # <<>>
    /\ ~(Accepted(p, Head(todo[p])) /\ (arg[p].op = "untag" => ValidUpdate(Head(todo[p]))))
    /\ IF p \in Apps THEN WriteFailsForApp(p) ELSE WriteFailsForClient(p)

\* A client's last write: recordImage goes on to tag the image, the others end.
Finish(c) ==
    /\ c \in Clients
    /\ pc[c] = "done" \/ (pc[c] = "write" /\ todo[c] = <<>>)
    /\ IF arg[c].op = "pull"
       THEN /\ Goto(c, "tag")
            /\ arg' = [arg EXCEPT ![c].op = "tag"]
            /\ UNCHANGED <<image, status, todo, stale, tries>>
       ELSE EndRequest(c)

\* The process that handles it stops, or a later handler of the pass fails.
Interrupt(p) ==
    /\ pc[p] # "idle"
    /\ EndRequest(p)

-----------------------------------------------------------------------------
Init ==
    /\ image = [i \in Images |-> Absent]
    /\ status = [a \in Apps |-> [digest |-> None, name |-> None, observed |-> None]]
    /\ pc = [p \in Writers |-> "idle"]
    /\ arg = [p \in Writers |-> NoArg]
    /\ todo = [p \in Writers |-> <<>>]
    /\ stale = [p \in Writers |-> {}]
    /\ tries = [p \in Writers |-> 0]

StepOf(p) ==
    \/ WriteAccepted(p) \/ WriteRefused(p) \/ Finish(p)
    \/ p \in Clients /\ (ReadForTag(p) \/ RecordImage(p) \/ ValidateDelete(p) \/ RemoveImage(p))
    \/ p \in Apps /\ (NestedReferences(p) \/ NestedDone(p) \/ \E met \in BOOLEAN : SavePass(p, met))

Next ==
    \/ \E c \in Clients, i \in Images, n \in Names : StartTag(c, i, n) \/ StartPull(c, i, n)
    \/ \E c \in Clients, i \in Images, n \in Names \cup {None}, f \in BOOLEAN : StartDelete(c, i, n, f)
    \/ \E a \in Apps, i \in Images, n \in Names \cup {None} : StartPass(a, n, i)
    \/ \E p \in Writers : StepOf(p) \/ Interrupt(p)

Spec == Init /\ [][Next]_vars

-----------------------------------------------------------------------------
(* Properties *)

\* Every image lists a name once, and every writer is at a step of its request.
TypeOK ==
    /\ \A i \in Images :
        /\ image[i] \in [live : BOOLEAN, remote : BOOLEAN, tags : Seq(Names)]
        /\ Len(image[i].tags) = Cardinality(NamesOf(i))
        /\ image[i].live \/ image[i] = Absent
    /\ status \in [Apps -> [digest : Images \cup {None}, name : Names \cup {None},
                            observed : Images \cup {None}]]
    /\ pc \in [Writers -> {"idle", "tag", "record", "write", "delete", "remove", "done", "save"}]
    /\ \A p \in Writers : arg[p].op = "none" <=> pc[p] = "idle"
    /\ stale \in [Writers -> SUBSET Images]
    /\ tries \in [Writers -> 0..Retries]

\* "repo-only" names (tag.go, images.go): an image is listed under a repository
\* alone only while it has no tag of that repository, whoever names it.
RepoOnlyIsAlone ==
    \A i \in Images : \A n, m \in NamesOf(i) :
        ~IsTagged(n) /\ m.repo = n.repo => m = n

\* What the images promise is the module Catalog: one image changes at a time, by
\* one name added, by names removed, or by being fetched into the cluster.
Entry == [i \in Images |->
            IF image[i].live THEN [remote |-> image[i].remote, names |-> NamesOf(i)] ELSE None]
Book == INSTANCE Catalog WITH entry <- Entry

\* The writers, each working from what it read some time ago, implement it.
ImplementsCatalog == Book!Spec

\* "remove the tag from any other image" (tag.go:108): once a tag request of a
\* client has given its name to the image, no other image has it.
MovedNameIsUnique ==
    [][\A c \in Clients :
        LET i == arg[c].img
            n == arg[c].name
        IN  pc[c] = "write" /\ arg[c].op = "tag" /\ IsTagged(n)
                /\ n \notin Range(image[i].tags) /\ n \in Range(image'[i].tags)
            => \A j \in Images \ {i} : n \notin Range(image'[j].tags)]_vars

\* "It would have been created the first time" (images.go:19), and "image is in
\* use" (strategy.go:66): the image of an app that is settled is recorded.
SettledImageIsRecorded ==
    \A a \in Apps :
        pc[a] = "idle" /\ status[a].digest # None /\ status[a].observed = status[a].digest
        => image[status[a].digest].live
=============================================================================

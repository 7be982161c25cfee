---------------------------- MODULE ImagesProofs ----------------------------
(***************************************************************************)
(* Proofs about Images, for any images, names, apps, clients and retries:   *)
(* the writers implement Catalog, and a repository's own name is alone.     *)
(***************************************************************************)
EXTENDS Images, FiniteSetTheorems, SequenceTheorems, TLAPS

-----------------------------------------------------------------------------
(* Selections of a sequence.                                                *)

\* The rank numbers the positions from 1 on.
LEMMA RankIsABijection ==
    ASSUME NEW n \in Nat, NEW I \in SUBSET (1..n)
    PROVE  /\ IsFiniteSet(I) /\ Cardinality(I) \in Nat /\ Cardinality(I) <= n
           /\ \A i \in I : Rank(I, i) \in 1..Cardinality(I)
           /\ \A i, j \in I : Rank(I, i) = Rank(I, j) => i = j
           /\ \A k \in 1..Cardinality(I) : \E i \in I : Rank(I, i) = k
<1>1. IsFiniteSet(1..n) /\ Cardinality(1..n) = n
  BY FS_Interval
<1>2. IsFiniteSet(I) /\ Cardinality(I) <= n
  BY <1>1, FS_Subset
<1>3. Cardinality(I) \in Nat
  BY <1>2, FS_CardinalityType
<1>4. ASSUME NEW i \in I PROVE Rank(I, i) \in 1..Cardinality(I)
  <2> DEFINE A == {j \in I : j <= i}
  <2>1. A \in SUBSET I /\ i \in A
    OBVIOUS
  <2>2. IsFiniteSet(A) /\ Cardinality(A) <= Cardinality(I)
    BY <1>2, <2>1, FS_Subset
  <2>3. Cardinality(A) \in Nat /\ Cardinality(A) # 0
    BY <2>1, <2>2, FS_CardinalityType, FS_EmptySet
  <2> QED BY <1>3, <2>2, <2>3 DEF Rank
<1>5. ASSUME NEW i \in I, NEW j \in I, i < j PROVE Rank(I, i) # Rank(I, j)
  <2> DEFINE A == {h \in I : h <= i}
             B == {h \in I : h <= j}
  <2>0. \A h \in I : h \in Nat
    OBVIOUS
  <2>1. A \in SUBSET B /\ j \in B /\ j \notin A
    <3>1. \A h \in I : h <= i => h <= j BY <1>5, <2>0
    <3>2. j <= j /\ ~(j <= i) BY <1>5, <2>0
    <3> QED BY <3>1, <3>2
  <2>2. IsFiniteSet(B)
    BY <1>2, FS_Subset
  <2>3. Cardinality(B) = Cardinality(A) => B = A
    BY <2>1, <2>2, FS_Subset
  <2>4. Cardinality(A) # Cardinality(B)
    BY <2>1, <2>3
  <2> QED BY <2>4 DEF Rank
<1>6. ASSUME NEW i \in I, NEW j \in I, Rank(I, i) = Rank(I, j) PROVE i = j
  <2>1. i < j \/ j < i \/ i = j
    OBVIOUS
  <2> QED BY <1>5, <1>6, <2>1
<1>7. ASSUME NEW k \in 1..Cardinality(I) PROVE \E i \in I : Rank(I, i) = k
  <2> DEFINE T == 1..Cardinality(I)
             f == [i \in I |-> Rank(I, i)]
  <2>1. f \in Injection(I, T)
    <3>1. f \in [I -> T] BY <1>4
    <3>2. IsInjective(f) BY <1>6 DEF IsInjective
    <3> QED BY <3>1, <3>2 DEF Injection
  <2>2. IsFiniteSet(T) /\ Cardinality(T) = Cardinality(I)
    BY <1>3, FS_Interval
  <2>3. f \in Surjection(I, T)
    <3> HIDE DEF f, T
    <3> QED BY <2>1, <2>2, FS_Injection
  <2> QED BY <2>3 DEF Surjection
<1> QED BY <1>2, <1>3, <1>4, <1>6, <1>7

\* A selection has the elements at the chosen positions, in as many places.
LEMMA SelectFacts ==
    ASSUME NEW S, NEW seq \in Seq(S), NEW I \in SUBSET (1..Len(seq))
    PROVE  /\ Select(seq, I) \in Seq(S)
           /\ Len(Select(seq, I)) = Cardinality(I) /\ Cardinality(I) \in Nat
           /\ Range(Select(seq, I)) = {seq[i] : i \in I}
           /\ IsInjective(seq) => IsInjective(Select(seq, I))
<1> DEFINE n == Cardinality(I)
           at(k) == CHOOSE i \in I : Rank(I, i) = k
           sel == [k \in 1..n |-> seq[at(k)]]
<1>1. Len(seq) \in Nat /\ DOMAIN seq = 1..Len(seq) /\ \A i \in 1..Len(seq) : seq[i] \in S
  OBVIOUS
<1>2. n \in Nat BY <1>1, RankIsABijection
<1>3. \A k \in 1..n : at(k) \in I /\ Rank(I, at(k)) = k
  BY <1>1, RankIsABijection
<1>4. \A i \in I : Rank(I, i) \in 1..n /\ at(Rank(I, i)) = i
  <2>1. \A i \in I : Rank(I, i) \in 1..n BY <1>1, RankIsABijection
  <2>2. \A i, j \in I : Rank(I, i) = Rank(I, j) => i = j BY <1>1, RankIsABijection
  <2> QED BY <1>3, <2>1, <2>2
<1>5. Select(seq, I) = sel BY DEF Select
<1> HIDE DEF at, n
<1>6. sel \in Seq(S) /\ Len(sel) = n /\ DOMAIN sel = 1..n
  <2>1. sel \in [1..n -> S]
    <3>1. \A k \in 1..n : seq[at(k)] \in S BY <1>1, <1>3
    <3> QED BY <3>1
  <2> HIDE DEF sel
  <2>2. sel \in Seq(S) BY <1>2, <2>1, SeqDef
  <2> QED BY <1>2, <2>1, <2>2
<1>7. Range(sel) = {seq[i] : i \in I}
  <2>1. ASSUME NEW x \in Range(sel) PROVE x \in {seq[i] : i \in I}
    BY <1>3, <1>6, <2>1 DEF Range
  <2>2. ASSUME NEW i \in I PROVE seq[i] \in Range(sel)
    <3>1. sel[Rank(I, i)] = seq[i] BY <1>4
    <3> QED BY <1>4, <1>6, <3>1 DEF Range
  <2> QED BY <2>1, <2>2
<1>8. ASSUME IsInjective(seq) PROVE IsInjective(sel)
  <2>1. ASSUME NEW k \in 1..n, NEW l \in 1..n, sel[k] = sel[l] PROVE k = l
    <3>1. at(k) = at(l)
      <4>1. at(k) \in DOMAIN seq /\ at(l) \in DOMAIN seq BY <1>1, <1>3
      <4> QED BY <1>8, <2>1, <4>1 DEF IsInjective
    <3> QED BY <1>3, <3>1
  <2> QED BY <1>6, <2>1 DEF IsInjective
<1> HIDE DEF sel
<1>9. n = Cardinality(I) BY DEF n
<1> QED BY <1>2, <1>5, <1>6, <1>7, <1>8, <1>9

\* A list without repetitions is as long as its set is large.
LEMMA ListedOnce ==
    ASSUME NEW S, NEW seq \in Seq(S), IsInjective(seq) PROVE Len(seq) = Cardinality(Range(seq))
<1> DEFINE D == 1..Len(seq)
<1>1. Len(seq) \in Nat /\ seq \in [D -> Range(seq)] /\ DOMAIN seq = D
  BY DEF Range
<1>2. IsFiniteSet(D) /\ Cardinality(D) = Len(seq) BY <1>1, FS_Interval
<1>3. seq \in Surjection(D, Range(seq)) BY <1>1 DEF Surjection, Range
<1>4. seq \in Injection(D, Range(seq)) BY <1>1 DEF Injection
<1> HIDE DEF D
<1> QED BY <1>2, <1>3, <1>4, FS_Surjection

-----------------------------------------------------------------------------
(* The invariant.  What a writer has still to send was computed from what it *)
(* read, and fits the image as long as that has not changed since: then the  *)
(* write removes names, marks the image as fetched, or adds one name.        *)

ImageRecords == [live : BOOLEAN, remote : BOOLEAN, tags : Seq(Names)]
Statuses == [digest : Images \cup {None}, name : Names \cup {None}, observed : Images \cup {None}]
Labels == {"idle", "tag", "record", "write", "delete", "remove", "done", "save"}
ArgRecords == [op : {"none", "tag", "pull", "delete", "untag", "self", "nested"},
               img : Images \cup {None}, name : Names \cup {None}, remote : BOOLEAN]
Writes == [kind : {"update", "create", "panic"}, img : Images, new : ImageRecords]

AloneIn(N) == \A n, m \in N : ~IsTagged(n) /\ m.repo = n.repo => m = n

ImageOK(r) ==
    /\ r \in ImageRecords /\ IsInjective(r.tags)
    /\ r.live \/ r = Absent
    /\ AloneIn(Range(r.tags))

Drops(old, new) == new.remote = old.remote /\ Range(new.tags) \subseteq Range(old.tags)
Fetches(old, new) == ~new.remote /\ new.tags = old.tags
Adds(old, new, n) ==
    /\ new.remote = old.remote
    /\ Range(new.tags) = (Range(old.tags) \ {Repo(n)}) \cup {n}
    /\ ~IsTagged(n) => \A m \in Range(old.tags) : m.repo # n.repo

Updates(old, new) ==
    /\ new.live /\ IsInjective(new.tags)
    /\ Drops(old, new) \/ Fetches(old, new) \/ \E n \in Names : Adds(old, new, n)
Creates(new) == new.live /\ (new.tags = <<>> \/ \E n \in Names : new.tags = <<n>>)

Sound(w, im, old) ==
    /\ w.kind = "create" => Creates(w.new)
    /\ w.kind = "update" /\ w.img \notin old /\ im[w.img].live => Updates(im[w.img], w.new)
ListOK(list, im, old) ==
    /\ list \in Seq(Writes)
    /\ \A k \in 1..Len(list) : Sound(list[k], im, old)

\* What writers read and remember.
ControlOK ==
    /\ status \in [Apps -> Statuses]
    /\ pc \in [Writers -> Labels]
    /\ arg \in [Writers -> ArgRecords]
    /\ stale \in [Writers -> SUBSET Images]
    /\ tries \in [Writers -> 0..Retries]
    /\ todo \in [Writers -> Seq(Writes)]

\* How far a request is, and the attempts it has left.
At(p, l, a, t) ==
    /\ a.op = "none" <=> l = "idle"
    /\ l # "idle" => a.img \in Images
    /\ l = "tag" => p \in Clients /\ a.op = "tag" /\ t < Retries
    /\ l = "record" => p \in Clients /\ a.op = "pull"
    /\ a.op \in {"tag", "pull"} => p \in Clients /\ a.name \in Names
    /\ l = "idle" \/ a.op = "pull" => t = 0
RequestOK(p) == At(p, pc[p], arg[p], tries[p])

ImagesOK == DOMAIN image = Images /\ \A i \in Images : ImageOK(image[i])
TodoOK == \A p \in Writers : ListOK(todo[p], image, stale[p])

ImagesInv == ImagesOK /\ ControlOK /\ (\A p \in Writers : RequestOK(p)) /\ TodoOK

-----------------------------------------------------------------------------
(* Lists of writes.                                                          *)

\* Nothing to send is always sound.
LEMMA EmptyListOK == \A im, old : ListOK(<<>>, im, old)
  BY DEF ListOK

\* A single write to send.
LEMMA OneWriteOK ==
    ASSUME NEW w \in Writes, NEW im, NEW old, Sound(w, im, old) PROVE ListOK(<<w>>, im, old)
<1>1. <<w>> \in Seq(Writes) /\ Len(<<w>>) = 1 /\ <<w>>[1] = w
  OBVIOUS
<1>2. ASSUME NEW k \in 1..Len(<<w>>) PROVE Sound(<<w>>[k], im, old)
  <2>1. k = 1 BY <1>1
  <2> QED BY <1>1, <2>1
<1> QED BY <1>1, <1>2 DEF ListOK

\* One more write to send.
LEMMA AppendOK ==
    ASSUME NEW list, NEW w \in Writes, NEW im, NEW old, ListOK(list, im, old), Sound(w, im, old)
    PROVE  ListOK(Append(list, w), im, old)
<1> DEFINE app == Append(list, w)
<1>1. /\ app \in Seq(Writes) /\ Len(app) = Len(list) + 1 /\ Len(list) \in Nat
      /\ \A k \in 1..Len(list) : app[k] = list[k]
      /\ app[Len(list) + 1] = w
  BY AppendProperties DEF ListOK
<1> HIDE DEF app
<1>2. ASSUME NEW k \in 1..Len(app) PROVE Sound(app[k], im, old)
  <2>1. k \in 1..Len(list) \/ k = Len(list) + 1 BY <1>1
  <2> QED BY <1>1, <2>1 DEF ListOK
<1> QED BY <1>1, <1>2 DEF ListOK, app

\* The next write, and what remains after it.
LEMMA HeadTailOK ==
    ASSUME NEW list, NEW im, NEW old, ListOK(list, im, old), list # <<>>
    PROVE  /\ Head(list) \in Writes /\ Sound(Head(list), im, old)
           /\ ListOK(Tail(list), im, old)
           /\ Head(list).img \in {list[k].img : k \in 1..Len(list)}
<1>1. list \in Seq(Writes) BY DEF ListOK
<1>2. /\ Len(list) \in Nat /\ 1 \in 1..Len(list) /\ Head(list) = list[1] /\ list[1] \in Writes
      /\ Tail(list) \in Seq(Writes) /\ Len(Tail(list)) = Len(list) - 1
      /\ \A k \in 1..Len(Tail(list)) : Tail(list)[k] = list[k + 1]
  BY <1>1, HeadTailProperties
<1>3. \A k \in 1..Len(Tail(list)) : k + 1 \in 1..Len(list) BY <1>2
<1> QED BY <1>2, <1>3 DEF ListOK

\* After a change of image i every write to it is outdated.
LEMMA ChangeOK ==
    ASSUME NEW im, NEW i, NEW new, NEW list, NEW old, NEW old2,
           ListOK(list, im, old), old \subseteq old2,
           i \in {list[k].img : k \in 1..Len(list)} => i \in old2
    PROVE  ListOK(list, [im EXCEPT ![i] = new], old2)
<1>1. ASSUME NEW k \in 1..Len(list) PROVE Sound(list[k], [im EXCEPT ![i] = new], old2)
  <2>1. CASE list[k].img = i BY <2>1 DEF ListOK, Sound
  <2>2. CASE list[k].img # i
    <3>1. [im EXCEPT ![i] = new][list[k].img] = im[list[k].img] BY <2>2
    <3> QED BY <3>1 DEF ListOK, Sound
  <2> QED BY <2>1, <2>2
<1> QED BY <1>1 DEF ListOK

-----------------------------------------------------------------------------
(* What the operators of the model return.                                   *)

\* sets.String.List gives the names of the set, each once.
LEMMA ListFacts ==
    ASSUME NEW S PROVE List(S) \in Seq(Names) /\ IsInjective(List(S)) /\ Range(List(S)) = S \cap Names
<1>1. SortedNames \in Seq(Names) /\ IsInjective(SortedNames) BY ImagesAssumption
<1>2. Positions(SortedNames, S) \in SUBSET (1..Len(SortedNames)) BY DEF Positions
<1>3. {SortedNames[i] : i \in Positions(SortedNames, S)} = S \cap Names
  BY <1>1 DEF Positions, Names, Range
<1> QED BY <1>1, <1>2, <1>3, SelectFacts DEF List

\* The API server lists the images of the set.
LEMMA InOrderFacts ==
    ASSUME NEW S \in SUBSET Images PROVE InOrder(S) \in Seq(Images) /\ Range(InOrder(S)) = S
<1>1. ImageList \in Seq(Images) BY ImagesAssumption
<1>2. Positions(ImageList, S) \in SUBSET (1..Len(ImageList)) BY DEF Positions
<1>3. {ImageList[i] : i \in Positions(ImageList, S)} = S
  BY <1>1 DEF Positions, Images, Range
<1> QED BY <1>1, <1>2, <1>3, SelectFacts DEF InOrder

\* Taking names away leaves the others.
LEMMA WithoutFacts ==
    ASSUME NEW tags \in Seq(Names), IsInjective(tags), NEW S
    PROVE  /\ Without(tags, S) \in Seq(Names) /\ IsInjective(Without(tags, S))
           /\ Range(Without(tags, S)) = Range(tags) \ S
<1> DEFINE I == 1..Len(tags) \ Positions(tags, S)
<1>1. I \in SUBSET (1..Len(tags)) OBVIOUS
<1>2. {tags[i] : i \in I} = Range(tags) \ S
  BY DEF Positions, Range
<1> QED BY <1>1, <1>2, SelectFacts DEF Without

\* The loop of ImageTag may remove the wrong names, but it only removes.
LEMMA DeleteHitsFacts ==
    ASSUME NEW tags \in Seq(Names), IsInjective(tags), NEW S
    PROVE  /\ DeleteHits(tags, S).tags \in Seq(Names) /\ IsInjective(DeleteHits(tags, S).tags)
           /\ Range(DeleteHits(tags, S).tags) \subseteq Range(tags)
<1> DEFINE hits == Positions(tags, S)
           deleted(k) == k + Cardinality({h \in hits : h < k})
           I == 1..Len(tags) \ {deleted(k) : k \in hits}
<1>1. DeleteHits(tags, S).tags = Select(tags, I) BY DEF DeleteHits
<1>2. I \in SUBSET (1..Len(tags)) OBVIOUS
<1> HIDE DEF I
<1>3. {tags[i] : i \in I} \subseteq Range(tags) BY <1>2 DEF Range
<1> QED BY <1>1, <1>2, <1>3, SelectFacts

\* An update of the tags leaves the rest of the image.
LEMMA WithTags ==
    ASSUME NEW r \in ImageRecords, NEW t \in Seq(Names)
    PROVE  LET new == [r EXCEPT !.tags = t]
           IN  new \in ImageRecords /\ new.live = r.live /\ new.remote = r.remote /\ new.tags = t
  BY DEF ImageRecords

\* A shorter list of names is a removal.
LEMMA DropUpdates ==
    ASSUME NEW r, ImageOK(r), r.live, NEW t \in Seq(Names), IsInjective(t), Range(t) \subseteq Range(r.tags)
    PROVE  [r EXCEPT !.tags = t] \in ImageRecords /\ Updates(r, [r EXCEPT !.tags = t])
<1> DEFINE new == [r EXCEPT !.tags = t]
<1>1. new \in ImageRecords /\ new.live = r.live /\ new.remote = r.remote /\ new.tags = t
  BY WithTags DEF ImageOK
<1> HIDE DEF new
<1>2. new \in ImageRecords /\ Updates(r, new) BY <1>1 DEF Updates, Drops
<1> QED BY <1>2 DEF new

\* A list with one more name, in place of the repository's own, is an addition.
LEMMA AddUpdates ==
    ASSUME NEW r, ImageOK(r), r.live, NEW t \in Seq(Names), IsInjective(t), NEW n \in Names,
           Range(t) = (Range(r.tags) \ {Repo(n)}) \cup {n},
           ~IsTagged(n) => \A m \in Range(r.tags) : m.repo # n.repo
    PROVE  [r EXCEPT !.tags = t] \in ImageRecords /\ Updates(r, [r EXCEPT !.tags = t])
<1> DEFINE new == [r EXCEPT !.tags = t]
<1>1. new \in ImageRecords /\ new.live = r.live /\ new.remote = r.remote /\ new.tags = t
  BY WithTags DEF ImageOK
<1> HIDE DEF new
<1>2. Adds(r, new, n) BY <1>1 DEF Adds
<1>3. new \in ImageRecords /\ Updates(r, new) BY <1>1, <1>2 DEF Updates
<1> QED BY <1>3 DEF new

\* An update that fits the image it was computed from.
LEMMA PutOK ==
    ASSUME NEW i \in Images, NEW new \in ImageRecords, NEW im, NEW old, Updates(im[i], new)
    PROVE  Put(i, new) \in Writes /\ Sound(Put(i, new), im, old)
  BY DEF Put, Writes, Sound

\* A create with at most one name.
LEMMA MakeOK ==
    ASSUME NEW i \in Images, NEW new \in ImageRecords, NEW im, NEW old, Creates(new)
    PROVE  Make(i, new) \in Writes /\ Sound(Make(i, new), im, old)
  BY DEF Make, Writes, Sound

\* The panic of the loop stands for no write.
LEMMA PanicOK ==
    ASSUME NEW i \in Images, NEW im, NEW old
    PROVE  Panic(i) \in Writes /\ Sound(Panic(i), im, old)
<1>1. Absent \in ImageRecords BY DEF Absent, ImageRecords
<1> QED BY <1>1 DEF Panic, Writes, Sound

\* A name without a tag is the repository's own name.
LEMMA OwnName ==
    /\ \A n \in Names : ~IsTagged(n) => n = Repo(n)
    /\ \A n, m \in Names : ~IsTagged(m) /\ m.repo = n.repo => m = Repo(n)
  BY ImagesAssumption DEF IsTagged, Repo

\* What is written keeps a repository's own name alone.
LEMMA UpdatesKeep ==
    ASSUME NEW r, NEW new \in ImageRecords, ImageOK(r), Updates(r, new) PROVE ImageOK(new)
<1>1. Range(r.tags) \subseteq Names
  BY DEF ImageOK, ImageRecords, Range
<1>2. CASE Drops(r, new) BY <1>2 DEF Drops, Updates, ImageOK, AloneIn
<1>3. CASE Fetches(r, new) BY <1>3 DEF Fetches, Updates, ImageOK
<1>4. ASSUME NEW a \in Names, Adds(r, new, a) PROVE AloneIn(Range(new.tags))
  <2> SUFFICES ASSUME NEW n \in Range(new.tags), NEW m \in Range(new.tags), ~IsTagged(n), m.repo = n.repo
               PROVE  m = n
    BY DEF AloneIn
  <2>1. n \in (Range(r.tags) \ {Repo(a)}) \cup {a} /\ m \in (Range(r.tags) \ {Repo(a)}) \cup {a}
    BY <1>4 DEF Adds
  <2>2. CASE n \in Range(r.tags) /\ m \in Range(r.tags) BY <2>2 DEF ImageOK, AloneIn
  <2>3. CASE n = a /\ m # a BY <1>4, <2>1, <2>3 DEF Adds
  <2>4. CASE m = a /\ n # a BY <1>1, <2>1, <2>4, OwnName
  <2> QED BY <2>1, <2>2, <2>3, <2>4
<1> QED BY <1>2, <1>3, <1>4 DEF Updates, ImageOK

\* A new image with at most one name is sound.
LEMMA CreatesKeep ==
    ASSUME NEW new \in ImageRecords, Creates(new) PROVE ImageOK(new)
<1>1. CASE new.tags = <<>>
  <2>1. IsInjective(<<>>) /\ Range(<<>>) = {} BY DEF IsInjective, Range
  <2> QED BY <1>1, <2>1 DEF ImageOK, Creates, AloneIn
<1>2. ASSUME NEW n \in Names, new.tags = <<n>> PROVE ImageOK(new)
  <2>1. IsInjective(<<n>>) /\ Range(<<n>>) = {n} BY DEF IsInjective, Range
  <2> QED BY <1>2, <2>1 DEF ImageOK, Creates, AloneIn
<1> QED BY <1>1, <1>2 DEF Creates

\* So is an image that is not recorded.
LEMMA AbsentOK == ImageOK(Absent)
<1>1. IsInjective(<<>>) /\ Range(<<>>) = {} BY DEF IsInjective, Range
<1>2. Absent \in ImageRecords /\ Absent.tags = <<>> BY DEF Absent, ImageRecords
<1> QED BY <1>1, <1>2 DEF ImageOK, AloneIn

-----------------------------------------------------------------------------
(* The lists of writes that the requests and passes compute.                 *)

\* A list that is given by its elements.
LEMMA TupleOK ==
    ASSUME NEW n \in Nat, NEW list, DOMAIN list = 1..n, list = [k \in 1..n |-> list[k]], NEW im, NEW old,
           \A k \in 1..n : list[k] \in Writes /\ Sound(list[k], im, old)
    PROVE  ListOK(list, im, old)
<1>1. list \in [1..n -> Writes] OBVIOUS
<1>2. list \in Seq(Writes) BY <1>1, SeqDef
<1>3. Len(list) = n BY <1>2
<1> QED BY <1>2, <1>3 DEF ListOK

\* What ImageTag takes from the other images.
LEMMA TakeAwayOK ==
    ASSUME ImagesOK, NEW i, NEW S, NEW old PROVE ListOK(TakeAway(i, S), image, old)
<1> DEFINE J == {j \in Images \ {i} : image[j].live /\ NamesOf(j) \cap S # {}}
           others == InOrder(J)
           rest(j) == DeleteHits(image[j].tags, S)
           write(j) == IF rest(j).panic THEN Panic(j) ELSE Put(j, [image[j] EXCEPT !.tags = rest(j).tags])
           reached == {k \in 1..Len(others) : \A l \in 1..(k - 1) : ~rest(others[l]).panic}
           n == Cardinality(reached)
           list == [k \in 1..n |-> write(others[k])]
<1>1. TakeAway(i, S) = list BY DEF TakeAway
<1>2. others \in Seq(Images) /\ Range(others) = J
  <2>1. J \in SUBSET Images OBVIOUS
  <2> QED BY <2>1, InOrderFacts
<1>3. ASSUME NEW j \in J PROVE write(j) \in Writes /\ Sound(write(j), image, old)
  <2>1. j \in Images /\ ImageOK(image[j]) /\ image[j].live BY <1>3 DEF ImagesOK
  <2>2. CASE rest(j).panic BY <2>1, <2>2, PanicOK
  <2>3. CASE ~rest(j).panic
    <3> DEFINE t == rest(j).tags
               new == [image[j] EXCEPT !.tags = t]
    <3>1. t \in Seq(Names) /\ IsInjective(t) /\ Range(t) \subseteq Range(image[j].tags)
      <4>1. image[j].tags \in Seq(Names) /\ IsInjective(image[j].tags) BY <2>1 DEF ImageOK, ImageRecords
      <4> QED BY <4>1, DeleteHitsFacts
    <3> HIDE DEF t
    <3>2. new \in ImageRecords /\ Updates(image[j], new) BY <2>1, <3>1, DropUpdates
    <3> HIDE DEF new
    <3>3. Put(j, new) \in Writes /\ Sound(Put(j, new), image, old) BY <2>1, <3>2, PutOK
    <3> QED BY <2>3, <3>3 DEF new, t
  <2> QED BY <2>2, <2>3
<1> HIDE DEF J, rest
<1>4. n \in Nat /\ n <= Len(others)
  <2>1. Len(others) \in Nat /\ reached \in SUBSET (1..Len(others)) BY <1>2
  <2> HIDE DEF reached, others
  <2> QED BY <2>1, RankIsABijection
<1>5. \A k \in 1..n : others[k] \in J
  BY <1>2, <1>4 DEF Range
<1> HIDE DEF n, others, write
<1>6. \A k \in 1..n : list[k] \in Writes /\ Sound(list[k], image, old) BY <1>3, <1>5
<1>7. DOMAIN list = 1..n /\ list = [k \in 1..n |-> list[k]] OBVIOUS
<1> HIDE DEF list
<1>8. ListOK(list, image, old) BY <1>4, <1>6, <1>7, TupleOK
<1> QED BY <1>1, <1>8

\* What removeTag takes from the images.
LEMMA RemoveTagOK ==
    ASSUME ImagesOK, NEW name, NEW old PROVE ListOK(RemoveTag(name), image, old)
<1> DEFINE J == {j \in Images : image[j].live /\ name \in NamesOf(j)}
           others == InOrder(J)
           new(j) == [image[j] EXCEPT !.tags = Without(@, {name})]
           list == [k \in 1..Len(others) |-> Put(others[k], new(others[k]))]
<1>1. RemoveTag(name) = list BY DEF RemoveTag
<1>2. others \in Seq(Images) /\ Range(others) = J
  <2>1. J \in SUBSET Images OBVIOUS
  <2> QED BY <2>1, InOrderFacts
<1>3. ASSUME NEW j \in J PROVE Put(j, new(j)) \in Writes /\ Sound(Put(j, new(j)), image, old)
  <2>1. j \in Images /\ ImageOK(image[j]) /\ image[j].live BY <1>3 DEF ImagesOK
  <2> DEFINE t == Without(image[j].tags, {name})
  <2>2. t \in Seq(Names) /\ IsInjective(t) /\ Range(t) \subseteq Range(image[j].tags)
    <3>1. image[j].tags \in Seq(Names) /\ IsInjective(image[j].tags) BY <2>1 DEF ImageOK, ImageRecords
    <3> QED BY <3>1, WithoutFacts
  <2>3. new(j) = [image[j] EXCEPT !.tags = t] OBVIOUS
  <2> HIDE DEF t, new
  <2>4. new(j) \in ImageRecords /\ Updates(image[j], new(j)) BY <2>1, <2>2, <2>3, DropUpdates
  <2> QED BY <2>1, <2>4, PutOK
<1> HIDE DEF J, new
<1>4. Len(others) \in Nat /\ \A k \in 1..Len(others) : others[k] \in J
  BY <1>2 DEF Range
<1> HIDE DEF others
<1>5. \A k \in 1..Len(others) : list[k] \in Writes /\ Sound(list[k], image, old) BY <1>3, <1>4
<1>6. DOMAIN list = 1..Len(others) /\ list = [k \in 1..Len(others) |-> list[k]] OBVIOUS
<1> HIDE DEF list
<1>7. ListOK(list, image, old) BY <1>4, <1>5, <1>6, TupleOK
<1> QED BY <1>1, <1>7

\* The update with which ImageTag names the image.
LEMMA NamingOK ==
    ASSUME ImagesOK, NEW i \in Images, image[i].live, NEW name \in Names, NEW old,
           ~IsTagged(name) => \A m \in NamesOf(i) : m.repo # name.repo
    PROVE  LET w == Put(i, [image[i] EXCEPT !.tags = List(NamesWith(i, name))])
           IN  w \in Writes /\ Sound(w, image, old)
<1> DEFINE t == List(NamesWith(i, name))
           new == [image[i] EXCEPT !.tags = t]
<1>1. ImageOK(image[i]) /\ NamesOf(i) \subseteq Names
  <2>1. ImageOK(image[i]) BY DEF ImagesOK
  <2> QED BY <2>1 DEF ImageOK, ImageRecords, NamesOf, Range
<1>2. NamesWith(i, name) = (NamesOf(i) \ {Repo(name)}) \cup {name}
  BY OwnName DEF NamesWith
<1>3. t \in Seq(Names) /\ IsInjective(t) /\ Range(t) = (Range(image[i].tags) \ {Repo(name)}) \cup {name}
  <2>1. NamesWith(i, name) \cap Names = NamesWith(i, name) BY <1>1, <1>2
  <2> QED BY <1>2, <2>1, ListFacts DEF NamesOf
<1> HIDE DEF t
<1>4. new \in ImageRecords /\ Updates(image[i], new) BY <1>1, <1>3, AddUpdates DEF NamesOf
<1> HIDE DEF new
<1>5. Put(i, new) \in Writes /\ Sound(Put(i, new), image, old) BY <1>4, PutOK
<1> QED BY <1>5 DEF new, t

\* The writes of a tag request.
LEMMA ImageTagOK ==
    ASSUME ImagesOK, NEW i \in Images, image[i].live, NEW name \in Names, NEW old
    PROVE  ListOK(ImageTag(i, name), image, old)
<1> DEFINE w == Put(i, [image[i] EXCEPT !.tags = List(NamesWith(i, name))])
<1>1. CASE IsTagged(name)
  <2>1. w \in Writes /\ Sound(w, image, old) BY <1>1, NamingOK
  <2>2. ListOK(TakeAway(i, NamesWith(i, name)), image, old) BY TakeAwayOK
  <2>3. ImageTag(i, name) = Append(TakeAway(i, NamesWith(i, name)), w) BY <1>1 DEF ImageTag
  <2> HIDE DEF w
  <2> QED BY <2>1, <2>2, <2>3, AppendOK
<1>2. CASE ~IsTagged(name) /\ \E n \in NamesOf(i) : n.repo = name.repo
  BY <1>2, EmptyListOK DEF ImageTag
<1>3. CASE ~IsTagged(name) /\ \A n \in NamesOf(i) : n.repo # name.repo
  <2>1. w \in Writes /\ Sound(w, image, old) BY <1>3, NamingOK
  <2>2. ImageTag(i, name) = <<w>> BY <1>3 DEF ImageTag
  <2> HIDE DEF w
  <2> QED BY <2>1, <2>2, OneWriteOK
<1> QED BY <1>1, <1>2, <1>3

\* The writes of createImageForSelf.
LEMMA CreateImageForSelfOK ==
    ASSUME ImagesOK, NEW i \in Images, NEW name \in Names, NEW old
    PROVE  ListOK(CreateImageForSelf(i, name), image, old)
<1>0. ImageOK(image[i]) BY DEF ImagesOK
<1>1. CASE /\ image[i].live
           /\ name \in NamesOf(i) \/ (~IsTagged(name) /\ \E n \in NamesOf(i) : n.repo = name.repo)
  BY <1>1, EmptyListOK DEF CreateImageForSelf
<1>2. CASE /\ image[i].live
           /\ name \notin NamesOf(i)
           /\ ~IsTagged(name) => \A n \in NamesOf(i) : n.repo # name.repo
  <2> DEFINE rest == Without(image[i].tags, {Repo(name)})
             t == <<name>> \o rest
             new == [image[i] EXCEPT !.tags = t]
  <2>1. rest \in Seq(Names) /\ IsInjective(rest) /\ Range(rest) = Range(image[i].tags) \ {Repo(name)}
    <3>1. image[i].tags \in Seq(Names) /\ IsInjective(image[i].tags) BY <1>0 DEF ImageOK, ImageRecords
    <3> QED BY <3>1, WithoutFacts
  <2> HIDE DEF rest
  <2>2. name \notin Range(rest) BY <1>2, <2>1 DEF NamesOf
  <2>3. t \in Seq(Names) /\ Range(t) = {name} \cup Range(rest)
    <3>1. <<name>> \in Seq(Names) OBVIOUS
    <3>2. Range(<<name>>) = {name} BY DEF Range
    <3>3. t \in Seq(Names) BY <2>1, <3>1, ConcatProperties
    <3>4. Range(t) = Range(<<name>>) \cup Range(rest) BY <2>1, <3>1, RangeConcatenation
    <3> QED BY <3>2, <3>3, <3>4
  <2>4. IsInjective(t)
    <3>1. Len(rest) \in Nat /\ Len(t) = Len(rest) + 1 /\ t[1] = name
      BY <2>1
    <3>2. \A k \in 2..Len(t) : t[k] = rest[k - 1] /\ k - 1 \in 1..Len(rest)
      <4>1. \A k \in 2..Len(t) : k - 1 \in 1..Len(rest) /\ k \in 1..(1 + Len(rest)) /\ k > 1 BY <3>1
      <4>2. <<name>> \in Seq(Names) /\ Len(<<name>>) = 1 OBVIOUS
      <4>3. \A k \in 1..(1 + Len(rest)) : t[k] = IF k <= 1 THEN <<name>>[k] ELSE rest[k - 1]
        BY <2>1, <4>2, ConcatProperties
      <4> HIDE DEF t
      <4>4. ASSUME NEW k \in 2..Len(t) PROVE t[k] = rest[k - 1]
        <5>1. k \in 1..(1 + Len(rest)) /\ ~(k <= 1) BY <3>1, <4>1
        <5> QED BY <4>3, <5>1
      <4> QED BY <4>1, <4>4
    <3>3. DOMAIN t = 1..Len(t) BY <2>3
    <3>4. \A k, l \in 1..Len(rest) : rest[k] = rest[l] => k = l BY <2>1 DEF IsInjective
    <3>5. \A k \in 1..Len(rest) : rest[k] # name BY <2>1, <2>2 DEF Range
    <3> HIDE DEF t
    <3>6. ASSUME NEW k \in 1..Len(t), NEW l \in 1..Len(t), t[k] = t[l] PROVE k = l
      <4>1. k = 1 \/ k \in 2..Len(t) BY <3>1
      <4>2. l = 1 \/ l \in 2..Len(t) BY <3>1
      <4> QED BY <3>1, <3>2, <3>4, <3>5, <3>6, <4>1, <4>2
    <3> QED BY <3>3, <3>6 DEF IsInjective
  <2> HIDE DEF t
  <2>5. new \in ImageRecords /\ Updates(image[i], new)
    BY <1>0, <1>2, <2>1, <2>3, <2>4, AddUpdates DEF NamesOf
  <2>6. CreateImageForSelf(i, name) = Append(RemoveTag(name), Put(i, new))
    BY <1>2 DEF CreateImageForSelf, t, rest
  <2> HIDE DEF new
  <2>7. Put(i, new) \in Writes /\ Sound(Put(i, new), image, old) BY <2>5, PutOK
  <2> QED BY <2>6, <2>7, RemoveTagOK, AppendOK
<1>3. CASE ~image[i].live
  <2> DEFINE new == Present(TRUE, <<name>>)
  <2>1. new \in ImageRecords /\ Creates(new) BY DEF Present, ImageRecords, Creates
  <2>2. CreateImageForSelf(i, name) = Append(RemoveTag(name), Make(i, new))
    BY <1>3 DEF CreateImageForSelf
  <2> HIDE DEF new
  <2>3. Make(i, new) \in Writes /\ Sound(Make(i, new), image, old) BY <2>1, MakeOK
  <2> QED BY <2>2, <2>3, RemoveTagOK, AppendOK
<1> QED BY <1>1, <1>2, <1>3

-----------------------------------------------------------------------------
(* Steps that leave the images alone.                                        *)

\* A function is what it is with one of its values.
LEMMA Same ==
    ASSUME NEW S, NEW T, NEW f \in [S -> T], NEW p \in S PROVE f = [f EXCEPT ![p] = f[p]]
  OBVIOUS

\* One request goes to l with the argument a, after t attempts and with list to send.
LEMMA RequestStep ==
    ASSUME ImagesInv, NEW p \in Writers, NEW l \in Labels, NEW a \in ArgRecords,
           NEW t \in 0..Retries, NEW list, NEW old \in SUBSET Images,
           At(p, l, a, t), ListOK(list, image, old),
           image' = image, status' \in [Apps -> Statuses],
           pc' = [pc EXCEPT ![p] = l], arg' = [arg EXCEPT ![p] = a],
           todo' = [todo EXCEPT ![p] = list], stale' = [stale EXCEPT ![p] = old],
           tries' = [tries EXCEPT ![p] = t]
    PROVE  ImagesInv'
<1>1. ImagesOK' BY DEF ImagesInv, ImagesOK
<1>2. ControlOK' BY DEF ImagesInv, ControlOK, ListOK
<1>3. ASSUME NEW q \in Writers PROVE RequestOK(q)'
  <2>1. CASE q = p
    <3>1. pc'[q] = l /\ arg'[q] = a /\ tries'[q] = t BY <2>1 DEF ImagesInv, ControlOK
    <3> QED BY <2>1, <3>1 DEF RequestOK
  <2>2. CASE q # p
    <3>1. pc'[q] = pc[q] /\ arg'[q] = arg[q] /\ tries'[q] = tries[q] BY <2>2 DEF ImagesInv, ControlOK
    <3> QED BY <3>1 DEF ImagesInv, RequestOK
  <2> QED BY <2>1, <2>2
<1>4. ASSUME NEW q \in Writers PROVE ListOK(todo'[q], image', stale'[q])
  <2>1. CASE q = p
    <3>1. todo'[q] = list /\ stale'[q] = old BY <2>1 DEF ImagesInv, ControlOK
    <3> QED BY <3>1
  <2>2. CASE q # p
    <3>1. todo'[q] = todo[q] /\ stale'[q] = stale[q] BY <2>2 DEF ImagesInv, ControlOK
    <3> QED BY <3>1 DEF ImagesInv, TodoOK
  <2> QED BY <2>1, <2>2
<1> QED BY <1>1, <1>2, <1>3, <1>4 DEF ImagesInv, TodoOK

\* What the invariant says of one writer.
LEMMA OneWriter ==
    ASSUME ImagesInv, NEW p \in Writers
    PROVE  /\ pc[p] \in Labels /\ arg[p] \in ArgRecords /\ stale[p] \in SUBSET Images
           /\ tries[p] \in 0..Retries /\ At(p, pc[p], arg[p], tries[p])
           /\ ListOK(todo[p], image, stale[p]) /\ ListOK(<<>>, image, stale[p])
           /\ pc = [pc EXCEPT ![p] = pc[p]] /\ arg = [arg EXCEPT ![p] = arg[p]]
           /\ todo = [todo EXCEPT ![p] = todo[p]] /\ stale = [stale EXCEPT ![p] = stale[p]]
           /\ tries = [tries EXCEPT ![p] = tries[p]] /\ status \in [Apps -> Statuses]
<1>1. /\ pc \in [Writers -> Labels] /\ arg \in [Writers -> ArgRecords] /\ todo \in [Writers -> Seq(Writes)]
      /\ stale \in [Writers -> SUBSET Images] /\ tries \in [Writers -> 0..Retries]
      /\ status \in [Apps -> Statuses]
  BY DEF ImagesInv, ControlOK
<1>2. At(p, pc[p], arg[p], tries[p]) /\ ListOK(todo[p], image, stale[p])
  BY DEF ImagesInv, RequestOK, TodoOK
<1> QED BY <1>1, <1>2, EmptyListOK, Same

\* A request that only goes to another place.
LEMMA GoOnKeeps ==
    ASSUME ImagesInv, NEW p \in Writers, NEW l \in Labels, At(p, l, arg[p], tries[p]), GoOn(p, l)
    PROVE  ImagesInv'
<1>1. /\ image' = image /\ status' \in [Apps -> Statuses] /\ pc' = [pc EXCEPT ![p] = l]
      /\ arg' = [arg EXCEPT ![p] = arg[p]] /\ todo' = [todo EXCEPT ![p] = todo[p]]
      /\ stale' = [stale EXCEPT ![p] = stale[p]] /\ tries' = [tries EXCEPT ![p] = tries[p]]
  BY OneWriter DEF GoOn, Goto
<1> QED BY <1>1, OneWriter, RequestStep

\* The end of a request or pass leaves nothing behind.
LEMMA EndKeeps ==
    ASSUME ImagesInv, NEW p \in Writers, End(p), stale' = [stale EXCEPT ![p] = {}],
           image' = image, status' \in [Apps -> Statuses]
    PROVE  ImagesInv'
<1>1. "idle" \in Labels /\ NoArg \in ArgRecords /\ {} \in SUBSET Images /\ 0 \in 0..Retries
  BY ImagesAssumption DEF Labels, NoArg, ArgRecords
<1>2. At(p, "idle", NoArg, 0) BY DEF At, NoArg
<1> QED BY <1>1, <1>2, EmptyListOK, RequestStep DEF End, Goto

\* So does the end of a request that fails.
LEMMA EndRequestKeeps ==
    ASSUME ImagesInv, NEW p \in Writers, EndRequest(p) PROVE ImagesInv'
<1>1. status' \in [Apps -> Statuses] BY OneWriter DEF EndRequest
<1> QED BY <1>1, EndKeeps DEF EndRequest

\* An attempt of a tag request counts and recomputes the writes.
LEMMA ReadForTagKeeps ==
    ASSUME ImagesInv, NEW c \in Clients, ReadForTag(c) PROVE ImagesInv'
<1>0. c \in Writers BY DEF Writers
<1>1. CASE ~image[arg[c].img].live BY <1>0, <1>1, EndRequestKeeps DEF ReadForTag
<1>2. CASE image[arg[c].img].live
  <2> DEFINE list == ImageTag(arg[c].img, arg[c].name)
  <2>1. /\ pc[c] = "tag" /\ image' = image /\ status' = status /\ pc' = [pc EXCEPT ![c] = "write"]
        /\ arg' = arg /\ todo' = [todo EXCEPT ![c] = list]
        /\ stale' = [stale EXCEPT ![c] = {}] /\ tries' = [tries EXCEPT ![c] = tries[c] + 1]
    BY <1>2 DEF ReadForTag, Goto
  <2>2. arg[c].img \in Images /\ arg[c].name \in Names /\ arg[c].op = "tag" /\ tries[c] < Retries
    BY <1>0, <2>1, OneWriter DEF At
  <2>3. ListOK(list, image, {}) BY <1>2, <2>2, ImageTagOK DEF ImagesInv
  <2> HIDE DEF list
  <2>4. tries[c] + 1 \in 0..Retries BY <1>0, <2>2, OneWriter, ImagesAssumption
  <2>5. At(c, "write", arg[c], tries[c] + 1) BY <2>2 DEF At
  <2>6. "write" \in Labels /\ {} \in SUBSET Images BY DEF Labels
  <2> QED BY <1>0, <2>1, <2>3, <2>4, <2>5, <2>6, OneWriter, RequestStep
<1> QED BY <1>1, <1>2

\* client.ImageTag.
LEMMA StartTagKeeps ==
    ASSUME ImagesInv, NEW c \in Clients, NEW i \in Images, NEW n \in Names, StartTag(c, i, n)
    PROVE  ImagesInv'
<1>0. c \in Writers BY DEF Writers
<1> DEFINE a == Arg("tag", i, n)
<1>1. /\ pc[c] = "idle" /\ image' = image /\ status' = status /\ pc' = [pc EXCEPT ![c] = "tag"]
      /\ arg' = [arg EXCEPT ![c] = a] /\ todo' = todo /\ stale' = stale /\ tries' = tries
  BY DEF StartTag, Goto
<1>2. a \in ArgRecords /\ "tag" \in Labels BY DEF Arg, ArgRecords, Labels
<1>3. tries[c] = 0 BY <1>0, <1>1, OneWriter DEF At
<1>4. At(c, "tag", a, tries[c]) BY <1>3, ImagesAssumption DEF At, Arg
<1> HIDE DEF a
<1>5. /\ image' = image /\ pc' = [pc EXCEPT ![c] = "tag"] /\ arg' = [arg EXCEPT ![c] = a]
      /\ status' \in [Apps -> Statuses] /\ todo' = [todo EXCEPT ![c] = todo[c]]
      /\ stale' = [stale EXCEPT ![c] = stale[c]] /\ tries' = [tries EXCEPT ![c] = tries[c]]
  BY <1>0, <1>1, OneWriter
<1> QED BY <1>0, <1>2, <1>4, <1>5, OneWriter, RequestStep

\* ImagePull.
LEMMA StartPullKeeps ==
    ASSUME ImagesInv, NEW c \in Clients, NEW i \in Images, NEW n \in Names, StartPull(c, i, n)
    PROVE  ImagesInv'
<1>0. c \in Writers BY DEF Writers
<1> DEFINE a == Arg("pull", i, n)
<1>1. /\ pc[c] = "idle" /\ image' = image /\ status' = status /\ pc' = [pc EXCEPT ![c] = "record"]
      /\ arg' = [arg EXCEPT ![c] = a] /\ todo' = todo /\ stale' = stale /\ tries' = tries
  BY DEF StartPull, Goto
<1>2. a \in ArgRecords /\ "record" \in Labels BY DEF Arg, ArgRecords, Labels
<1>3. tries[c] = 0 BY <1>0, <1>1, OneWriter DEF At
<1>4. At(c, "record", a, tries[c]) BY <1>3 DEF At, Arg
<1> HIDE DEF a
<1>5. /\ image' = image /\ pc' = [pc EXCEPT ![c] = "record"] /\ arg' = [arg EXCEPT ![c] = a]
      /\ status' \in [Apps -> Statuses] /\ todo' = [todo EXCEPT ![c] = todo[c]]
      /\ stale' = [stale EXCEPT ![c] = stale[c]] /\ tries' = [tries EXCEPT ![c] = tries[c]]
  BY <1>0, <1>1, OneWriter
<1> QED BY <1>0, <1>2, <1>4, <1>5, OneWriter, RequestStep

\* An update of one image, to be sent alone.
LEMMA RemovalOK ==
    ASSUME ImagesOK, NEW i \in Images, image[i].live, NEW t \in Seq(Names), IsInjective(t),
           Range(t) \subseteq Range(image[i].tags), NEW old
    PROVE  ListOK(<<Put(i, [image[i] EXCEPT !.tags = t])>>, image, old)
<1> DEFINE new == [image[i] EXCEPT !.tags = t]
<1>1. new \in ImageRecords /\ Updates(image[i], new) BY DropUpdates DEF ImagesOK
<1> HIDE DEF new
<1>2. Put(i, new) \in Writes /\ Sound(Put(i, new), image, old) BY <1>1, PutOK
<1>3. ListOK(<<Put(i, new)>>, image, old) BY <1>2, OneWriteOK
<1> QED BY <1>3 DEF new

\* client.ImageDelete.
LEMMA StartDeleteKeeps ==
    ASSUME ImagesInv, NEW c \in Clients, NEW i \in Images, NEW n \in Names \cup {None}, NEW f,
           StartDelete(c, i, n, f)
    PROVE  ImagesInv'
<1>0. c \in Writers BY DEF Writers
<1>1. /\ pc[c] = "idle" /\ image[i].live /\ image' = image /\ status' = status
      /\ stale' = stale /\ tries' = tries
  BY DEF StartDelete
<1>2. tries[c] = 0 BY <1>0, <1>1, OneWriter DEF At
<1>3. CASE Len(image[i].tags) = 1 \/ (n = None /\ (f \/ image[i].tags = <<>>))
  <2> DEFINE a == Arg("delete", i, n)
  <2>1. pc' = [pc EXCEPT ![c] = "delete"] /\ arg' = [arg EXCEPT ![c] = a] /\ todo' = todo
    BY <1>3 DEF StartDelete, Goto
  <2>2. a \in ArgRecords /\ "delete" \in Labels BY DEF Arg, ArgRecords, Labels
  <2>3. At(c, "delete", a, tries[c]) BY DEF At, Arg
  <2> HIDE DEF a
  <2>4. /\ image' = image /\ pc' = [pc EXCEPT ![c] = "delete"] /\ arg' = [arg EXCEPT ![c] = a]
        /\ status' \in [Apps -> Statuses] /\ todo' = [todo EXCEPT ![c] = todo[c]]
        /\ stale' = [stale EXCEPT ![c] = stale[c]] /\ tries' = [tries EXCEPT ![c] = tries[c]]
    BY <1>0, <1>1, <2>1, OneWriter
  <2> QED BY <1>0, <2>2, <2>3, <2>4, OneWriter, RequestStep
<1>4. CASE ~(Len(image[i].tags) = 1 \/ (n = None /\ (f \/ image[i].tags = <<>>)))
  <2> DEFINE a == Arg("untag", i, n)
             t == Without(image[i].tags, {n})
             list == <<Put(i, [image[i] EXCEPT !.tags = t])>>
  <2>1. pc' = [pc EXCEPT ![c] = "write"] /\ arg' = [arg EXCEPT ![c] = a] /\ todo' = [todo EXCEPT ![c] = list]
    BY <1>4 DEF StartDelete, Goto
  <2>2. a \in ArgRecords /\ "write" \in Labels BY DEF Arg, ArgRecords, Labels
  <2>3. At(c, "write", a, tries[c]) BY DEF At, Arg
  <2>4. t \in Seq(Names) /\ IsInjective(t) /\ Range(t) \subseteq Range(image[i].tags)
    <3>1. image[i].tags \in Seq(Names) /\ IsInjective(image[i].tags)
      BY DEF ImagesInv, ImagesOK, ImageOK, ImageRecords
    <3> QED BY <3>1, WithoutFacts
  <2> HIDE DEF t, a
  <2>5. ListOK(list, image, stale[c]) BY <1>1, <2>4, RemovalOK DEF ImagesInv
  <2> HIDE DEF list
  <2> QED BY <1>0, <1>1, <2>1, <2>2, <2>3, <2>5, OneWriter, RequestStep
<1> QED BY <1>3, <1>4

\* validateDelete.
LEMMA ValidateDeleteKeeps ==
    ASSUME ImagesInv, NEW c \in Clients, ValidateDelete(c) PROVE ImagesInv'
<1> DEFINE i == arg[c].img
<1>0. c \in Writers BY DEF Writers
<1>1. pc[c] = "delete" BY DEF ValidateDelete
<1>2. /\ i \in Images /\ arg[c].op # "none"
      /\ arg[c].op \in {"tag", "pull"} => arg[c].name \in Names
      /\ arg[c].op = "pull" => tries[c] = 0
  BY <1>0, <1>1, OneWriter DEF At
<1>3. At(c, "remove", arg[c], tries[c]) /\ At(c, "write", arg[c], tries[c]) BY <1>2 DEF At
<1>4. "remove" \in Labels /\ "write" \in Labels /\ {} \in SUBSET Images BY DEF Labels
<1>5. CASE image[i].live /\ ~InUse(i)
  BY <1>0, <1>3, <1>4, <1>5, GoOnKeeps DEF ValidateDelete
<1>6. CASE image[i].live /\ InUse(i) /\ image[i].tags # <<>>
  <2> DEFINE list == <<Put(i, [image[i] EXCEPT !.tags = <<>>])>>
  <2>1. /\ image' = image /\ status' = status /\ pc' = [pc EXCEPT ![c] = "write"]
        /\ arg' = arg /\ todo' = [todo EXCEPT ![c] = list]
        /\ stale' = [stale EXCEPT ![c] = {}] /\ tries' = tries
    BY <1>6 DEF ValidateDelete, Goto
  <2>2. <<>> \in Seq(Names) /\ IsInjective(<<>>) /\ Range(<<>>) \subseteq Range(image[i].tags)
    BY DEF IsInjective, Range
  <2>3. ListOK(list, image, {}) BY <1>2, <1>6, <2>2, RemovalOK DEF ImagesInv
  <2> HIDE DEF list, i
  <2>4. /\ image' = image /\ status' \in [Apps -> Statuses] /\ pc' = [pc EXCEPT ![c] = "write"]
        /\ arg' = [arg EXCEPT ![c] = arg[c]] /\ todo' = [todo EXCEPT ![c] = list]
        /\ stale' = [stale EXCEPT ![c] = {}] /\ tries' = [tries EXCEPT ![c] = tries[c]]
    BY <1>0, <2>1, OneWriter
  <2> QED BY <1>0, <1>3, <1>4, <2>3, <2>4, OneWriter, RequestStep
<1>7. CASE ~image[i].live \/ (InUse(i) /\ image[i].tags = <<>>)
  BY <1>0, <1>7, EndRequestKeeps DEF ValidateDelete
<1> QED BY <1>5, <1>6, <1>7

\* CreateImages in a pass over an app.
LEMMA StartPassKeeps ==
    ASSUME ImagesInv, NEW x \in Apps, NEW i \in Images, NEW n \in Names \cup {None}, StartPass(x, n, i)
    PROVE  ImagesInv'
<1> DEFINE a == [op |-> "self", img |-> i, name |-> n,
                 remote |-> IF image[i].live THEN image[i].remote ELSE TRUE]
           list == IF n = None THEN <<>> ELSE CreateImageForSelf(i, n)
<1>0. x \in Writers BY DEF Writers
<1>1. /\ image' = image /\ status' = status /\ stale' = stale /\ tries' = tries
      /\ arg' = [arg EXCEPT ![x] = a]
  BY DEF StartPass
<1>2. \/ pc' = [pc EXCEPT ![x] = "save"] /\ todo' = todo
      \/ pc' = [pc EXCEPT ![x] = "write"] /\ todo' = [todo EXCEPT ![x] = list]
  BY DEF StartPass, Goto
<1>3. a \in ArgRecords /\ "save" \in Labels /\ "write" \in Labels
  <2>1. image[i].remote \in BOOLEAN BY DEF ImagesInv, ImagesOK, ImageOK, ImageRecords
  <2>2. (IF image[i].live THEN image[i].remote ELSE TRUE) \in BOOLEAN BY <2>1, Zenon
  <2> QED BY <2>2 DEF ArgRecords, Labels
<1>4. At(x, "save", a, tries[x]) /\ At(x, "write", a, tries[x]) BY DEF At
<1>5. ListOK(list, image, stale[x]) BY EmptyListOK, CreateImageForSelfOK DEF ImagesInv
<1> HIDE DEF a, list
<1>6. /\ image' = image /\ status' \in [Apps -> Statuses] /\ arg' = [arg EXCEPT ![x] = a]
      /\ stale' = [stale EXCEPT ![x] = stale[x]] /\ tries' = [tries EXCEPT ![x] = tries[x]]
  BY <1>0, <1>1, OneWriter
<1>7. CASE pc' = [pc EXCEPT ![x] = "save"] /\ todo' = todo
  <2>1. pc' = [pc EXCEPT ![x] = "save"] /\ todo' = [todo EXCEPT ![x] = todo[x]]
    BY <1>0, <1>7, OneWriter
  <2> QED BY <1>0, <1>3, <1>4, <1>6, <2>1, OneWriter, RequestStep
<1>8. CASE pc' = [pc EXCEPT ![x] = "write"] /\ todo' = [todo EXCEPT ![x] = list]
  BY <1>0, <1>3, <1>4, <1>5, <1>6, <1>8, OneWriter, RequestStep
<1> QED BY <1>2, <1>7, <1>8

\* createNestedReferences.
LEMMA NestedReferencesKeeps ==
    ASSUME ImagesInv, NEW x \in Apps, NestedReferences(x) PROVE ImagesInv'
<1> DEFINE J == {j \in Nested[arg[x].img] : ~image[j].live}
           absent == InOrder(J)
           new == Present(arg[x].remote, <<>>)
           list == [k \in 1..Len(absent) |-> Make(absent[k], new)]
           a == [arg[x] EXCEPT !.op = "nested"]
<1>0. x \in Writers BY DEF Writers
<1>1. /\ pc[x] = "write" /\ image' = image /\ status' = status /\ stale' = stale /\ tries' = tries
      /\ pc' = pc /\ arg' = [arg EXCEPT ![x] = a] /\ todo' = [todo EXCEPT ![x] = list]
  BY DEF NestedReferences
<1>2. arg[x] \in ArgRecords /\ arg[x].img \in Images /\ "write" \in Labels
  BY <1>0, <1>1, OneWriter DEF At, Labels
<1>3. a \in ArgRecords /\ a.op = "nested" /\ a.img = arg[x].img BY <1>2 DEF ArgRecords
<1>4. absent \in Seq(Images)
  <2>1. J \in SUBSET Images BY <1>2, ImagesAssumption
  <2> QED BY <2>1, InOrderFacts
<1>5. new \in ImageRecords /\ Creates(new) BY <1>2 DEF Present, ImageRecords, Creates, ArgRecords
<1> HIDE DEF absent, new, a
<1>6. ListOK(list, image, stale[x])
  <2>1. Len(absent) \in Nat /\ \A k \in 1..Len(absent) : absent[k] \in Images BY <1>4
  <2>2. \A k \in 1..Len(absent) : list[k] \in Writes /\ Sound(list[k], image, stale[x])
    BY <1>5, <2>1, MakeOK
  <2>3. DOMAIN list = 1..Len(absent) /\ list = [k \in 1..Len(absent) |-> list[k]] OBVIOUS
  <2> HIDE DEF list
  <2> QED BY <2>1, <2>2, <2>3, TupleOK
<1> HIDE DEF list
<1>7. At(x, "write", a, tries[x]) BY <1>2, <1>3 DEF At
<1>8. /\ image' = image /\ status' \in [Apps -> Statuses] /\ pc' = [pc EXCEPT ![x] = "write"]
      /\ arg' = [arg EXCEPT ![x] = a] /\ todo' = [todo EXCEPT ![x] = list]
      /\ stale' = [stale EXCEPT ![x] = stale[x]] /\ tries' = [tries EXCEPT ![x] = tries[x]]
  BY <1>0, <1>1, OneWriter
<1> QED BY <1>0, <1>2, <1>3, <1>6, <1>7, <1>8, OneWriter, RequestStep

\* Nothing but the place changes, and the request stays the same.
LEMMA ToKeeps ==
    ASSUME ImagesInv, NEW p \in Writers, pc[p] # "idle", NEW l \in {"write", "save", "done"}, GoOn(p, l)
    PROVE  ImagesInv'
<1>1. At(p, l, arg[p], tries[p]) BY OneWriter DEF At
<1>2. l \in Labels BY DEF Labels
<1> QED BY <1>1, <1>2, GoOnKeeps

\* A refused write: RetryOnConflict keeps its limit, a pass goes on to save.
LEMMA WriteRefusedKeeps ==
    ASSUME ImagesInv, NEW p \in Writers, WriteRefused(p) PROVE ImagesInv'
<1>1. pc[p] = "write" BY DEF WriteRefused
<1>2. EndRequest(p) => ImagesInv' BY EndRequestKeeps
<1>3. ASSUME GoOn(p, "save") PROVE ImagesInv' BY <1>1, <1>3, ToKeeps
<1>4. ASSUME GoOn(p, "tag"), p \in Clients, arg[p].op = "tag", tries[p] < Retries PROVE ImagesInv'
  <2>1. At(p, "tag", arg[p], tries[p]) BY <1>1, <1>4, OneWriter DEF At
  <2>2. "tag" \in Labels BY DEF Labels
  <2> QED BY <1>4, <2>1, <2>2, GoOnKeeps
<1> QED BY <1>2, <1>3, <1>4 DEF WriteRefused, WriteFailsForApp, WriteFailsForClient, Writers

\* The last write of a client.
LEMMA FinishKeeps ==
    ASSUME ImagesInv, NEW p \in Writers, Finish(p) PROVE ImagesInv'
<1>1. CASE arg[p].op # "pull" BY <1>1, EndRequestKeeps DEF Finish
<1>2. CASE arg[p].op = "pull"
  <2> DEFINE a == [arg[p] EXCEPT !.op = "tag"]
  <2>1. /\ image' = image /\ status' = status /\ pc' = [pc EXCEPT ![p] = "tag"]
        /\ arg' = [arg EXCEPT ![p] = a] /\ todo' = todo /\ stale' = stale /\ tries' = tries
        /\ pc[p] # "idle"
    BY <1>2 DEF Finish, Goto
  <2>2. /\ arg[p] \in ArgRecords /\ arg[p].img \in Images /\ arg[p].name \in Names
        /\ tries[p] = 0 /\ p \in Clients
    BY <1>2, <2>1, OneWriter DEF At
  <2>3. a \in ArgRecords /\ a.op = "tag" /\ a.img = arg[p].img /\ a.name = arg[p].name
    BY <2>2 DEF ArgRecords
  <2> HIDE DEF a
  <2>4. At(p, "tag", a, tries[p]) BY <2>2, <2>3, ImagesAssumption DEF At
  <2>5. "tag" \in Labels BY DEF Labels
  <2>6. /\ image' = image /\ status' \in [Apps -> Statuses] /\ pc' = [pc EXCEPT ![p] = "tag"]
        /\ arg' = [arg EXCEPT ![p] = a] /\ todo' = [todo EXCEPT ![p] = todo[p]]
        /\ stale' = [stale EXCEPT ![p] = stale[p]] /\ tries' = [tries EXCEPT ![p] = tries[p]]
    BY <2>1, OneWriter
  <2> QED BY <2>3, <2>4, <2>5, <2>6, OneWriter, RequestStep
<1> QED BY <1>1, <1>2

\* The status of the app is saved.
LEMMA SavePassKeeps ==
    ASSUME ImagesInv, NEW x \in Apps, NEW met, SavePass(x, met) PROVE ImagesInv'
<1>0. x \in Writers BY DEF Writers
<1>1. pc[x] = "save" BY DEF SavePass
<1>2. arg[x].img \in Images /\ arg[x].name \in Names \cup {None}
  BY <1>0, <1>1, OneWriter DEF At, ArgRecords
<1>3. status' \in [Apps -> Statuses]
  <2> DEFINE s == [digest |-> arg[x].img, name |-> arg[x].name,
                   observed |-> IF met THEN arg[x].img ELSE status[x].observed]
  <2>1. status' = [status EXCEPT ![x] = s] BY DEF SavePass
  <2>2. status \in [Apps -> Statuses] BY DEF ImagesInv, ControlOK
  <2>3. status[x].observed \in Images \cup {None} BY <2>2 DEF Statuses
  <2>4. s \in Statuses BY <1>2, <2>3 DEF Statuses
  <2> HIDE DEF s
  <2> QED BY <2>1, <2>2, <2>4
<1> QED BY <1>0, <1>3, EndKeeps DEF SavePass

-----------------------------------------------------------------------------
(* Steps that change an image.                                               *)

ImagesIn(list) == {list[k].img : k \in 1..Len(list)}

\* One image changes, and everyone who is about to write it holds an old version.
LEMMA ChangeStep ==
    ASSUME ImagesInv, NEW p \in Writers, NEW i \in Images, NEW new, ImageOK(new), Change(i, new),
           NEW l \in Labels, NEW a \in ArgRecords, NEW list, At(p, l, a, tries[p]),
           ListOK(list, image, stale[p]), ImagesIn(list) \subseteq ImagesIn(todo[p]),
           pc' = [pc EXCEPT ![p] = l], arg' = [arg EXCEPT ![p] = a],
           todo' = [todo EXCEPT ![p] = list], tries' = tries, status' = status
    PROVE  ImagesInv'
<1>1. ImagesOK'
  <2>1. image' = [image EXCEPT ![i] = new] BY DEF Change
  <2> QED BY <2>1 DEF ImagesInv, ImagesOK
<1>2. \A q \in Writers : stale'[q] = stale[q] \cup (ImagesIn(todo[q]) \cap {i})
  BY DEF Change, ImagesIn
<1>3. ControlOK'
  <2>1. stale' \in [Writers -> SUBSET Images]
    <3>1. \A q \in Writers : stale'[q] \in SUBSET Images BY <1>2 DEF ImagesInv, ControlOK
    <3> QED BY <3>1 DEF Change
  <2> QED BY <2>1 DEF ImagesInv, ControlOK, ListOK
<1>4. ASSUME NEW q \in Writers PROVE RequestOK(q)'
  <2>1. CASE q = p
    <3>1. pc'[q] = l /\ arg'[q] = a /\ tries'[q] = tries[p] BY <2>1 DEF ImagesInv, ControlOK
    <3> QED BY <2>1, <3>1 DEF RequestOK
  <2>2. CASE q # p
    <3>1. pc'[q] = pc[q] /\ arg'[q] = arg[q] /\ tries'[q] = tries[q] BY <2>2 DEF ImagesInv, ControlOK
    <3> QED BY <3>1 DEF ImagesInv, RequestOK
  <2> QED BY <2>1, <2>2
<1>5. ASSUME NEW q \in Writers PROVE ListOK(todo'[q], image', stale'[q])
  <2>1. ListOK(todo'[q], image, stale[q]) /\ ImagesIn(todo'[q]) \subseteq ImagesIn(todo[q])
    <3>1. CASE q = p
      <4>1. todo'[q] = list BY <3>1 DEF ImagesInv, ControlOK
      <4> QED BY <3>1, <4>1
    <3>2. CASE q # p
      <4>1. todo'[q] = todo[q] BY <3>2 DEF ImagesInv, ControlOK
      <4> QED BY <4>1 DEF ImagesInv, TodoOK
    <3> QED BY <3>1, <3>2
  <2>2. stale[q] \subseteq stale'[q] BY <1>2
  <2>3. i \in {todo'[q][k].img : k \in 1..Len(todo'[q])} => i \in stale'[q]
    BY <1>2, <2>1 DEF ImagesIn
  <2>4. image' = [image EXCEPT ![i] = new] BY DEF Change
  <2>5. ListOK(todo'[q], [image EXCEPT ![i] = new], stale'[q]) BY <2>1, <2>2, <2>3, ChangeOK, Zenon
  <2> QED BY <2>4, <2>5
<1> QED BY <1>1, <1>3, <1>4, <1>5 DEF ImagesInv, TodoOK

\* What is accepted was computed from the image as it is.
LEMMA AcceptedFits ==
    ASSUME ImagesInv, NEW p \in Writers, todo[p] # <<>>, Accepted(p, Head(todo[p]))
    PROVE  LET w == Head(todo[p])
           IN  /\ w.img \in Images /\ w.new \in ImageRecords /\ ImageOK(w.new)
               /\ \/ image[w.img].live /\ Updates(image[w.img], w.new)
                  \/ ~image[w.img].live /\ Creates(w.new)
<1> DEFINE w == Head(todo[p])
<1>1. ListOK(todo[p], image, stale[p]) BY DEF ImagesInv, TodoOK
<1>2. w \in Writes /\ Sound(w, image, stale[p]) BY <1>1, HeadTailOK
<1>3. Accepted(p, w) OBVIOUS
<1> HIDE DEF w
<1>4. w.img \in Images /\ w.new \in ImageRecords /\ w.kind \in {"update", "create", "panic"}
  BY <1>2 DEF Writes
<1>5. ImageOK(image[w.img]) BY <1>4 DEF ImagesInv, ImagesOK
<1>6. CASE w.kind = "update"
  <2>1. image[w.img].live /\ w.img \notin stale[p] BY <1>3, <1>6 DEF Accepted
  <2>2. Updates(image[w.img], w.new) BY <1>2, <1>6, <2>1 DEF Sound
  <2>3. ImageOK(w.new) BY <1>4, <1>5, <2>2, UpdatesKeep
  <2> QED BY <1>4, <2>1, <2>2, <2>3 DEF w
<1>7. CASE w.kind = "create"
  <2>1. ~image[w.img].live BY <1>3, <1>7 DEF Accepted
  <2>2. Creates(w.new) BY <1>2, <1>7 DEF Sound
  <2>3. ImageOK(w.new) BY <1>4, <2>2, CreatesKeep
  <2> QED BY <1>4, <2>1, <2>2, <2>3 DEF w
<1>8. CASE w.kind = "panic" BY <1>3, <1>8 DEF Accepted
<1> QED BY <1>4, <1>6, <1>7, <1>8

\* An accepted write keeps every other list of writes sound.
LEMMA WriteAcceptedKeeps ==
    ASSUME ImagesInv, NEW p \in Writers, WriteAccepted(p) PROVE ImagesInv'
<1> DEFINE i == Head(todo[p]).img
           new == Head(todo[p]).new
           list == Tail(todo[p])
<1>1. /\ todo[p] # <<>> /\ Accepted(p, Head(todo[p])) /\ Change(i, new)
      /\ todo' = [todo EXCEPT ![p] = list] /\ status' = status /\ pc' = pc /\ arg' = arg /\ tries' = tries
  BY DEF WriteAccepted
<1>2. i \in Images /\ ImageOK(new) BY <1>1, AcceptedFits
<1>3. ListOK(todo[p], image, stale[p]) BY OneWriter
<1>4. ListOK(list, image, stale[p]) BY <1>1, <1>3, HeadTailOK
<1>5. ImagesIn(list) \subseteq ImagesIn(todo[p])
  <2>1. todo[p] \in Seq(Writes) BY <1>3 DEF ListOK
  <2>2. /\ Len(todo[p]) \in Nat /\ Len(list) = Len(todo[p]) - 1
        /\ \A k \in 1..Len(list) : list[k] = todo[p][k + 1]
    BY <1>1, <2>1, HeadTailProperties
  <2> HIDE DEF list
  <2>3. \A k \in 1..Len(list) : k + 1 \in 1..Len(todo[p]) BY <2>2
  <2> QED BY <2>2, <2>3 DEF ImagesIn
<1> HIDE DEF i, new, list
<1>6. pc' = [pc EXCEPT ![p] = pc[p]] /\ arg' = [arg EXCEPT ![p] = arg[p]] BY <1>1, OneWriter
<1>7. Change(i, new) /\ todo' = [todo EXCEPT ![p] = list] /\ tries' = tries /\ status' = status
  BY <1>1
<1>8. pc[p] \in Labels /\ arg[p] \in ArgRecords /\ At(p, pc[p], arg[p], tries[p]) BY OneWriter
<1> QED BY <1>2, <1>4, <1>5, <1>6, <1>7, <1>8, ChangeStep

\* The deletion of an image.
LEMMA RemoveImageKeeps ==
    ASSUME ImagesInv, NEW c \in Clients, RemoveImage(c) PROVE ImagesInv'
<1>0. c \in Writers BY DEF Writers
<1>1. /\ pc[c] = "remove" /\ Change(arg[c].img, Absent) /\ pc' = [pc EXCEPT ![c] = "done"]
      /\ status' = status /\ arg' = arg /\ todo' = todo /\ tries' = tries
  BY DEF RemoveImage, Goto
<1>2. arg[c].img \in Images /\ At(c, "done", arg[c], tries[c]) BY <1>0, <1>1, OneWriter DEF At
<1>3. "done" \in Labels BY DEF Labels
<1>4. arg' = [arg EXCEPT ![c] = arg[c]] /\ todo' = [todo EXCEPT ![c] = todo[c]] BY <1>0, <1>1, OneWriter
<1>5. arg[c] \in ArgRecords /\ ListOK(todo[c], image, stale[c]) BY <1>0, OneWriter
<1>6. Change(arg[c].img, Absent) /\ pc' = [pc EXCEPT ![c] = "done"] /\ status' = status /\ tries' = tries
  BY <1>1
<1> QED BY <1>0, <1>2, <1>3, <1>4, <1>5, <1>6, AbsentOK, ChangeStep

\* recordImage.
LEMMA RecordImageKeeps ==
    ASSUME ImagesInv, NEW c \in Clients, RecordImage(c) PROVE ImagesInv'
<1> DEFINE i == arg[c].img
<1>0. c \in Writers BY DEF Writers
<1>1. pc[c] = "record" /\ status' = status /\ tries' = tries BY DEF RecordImage
<1>2. /\ i \in Images /\ arg[c] \in ArgRecords /\ arg[c].name \in Names /\ arg[c].op = "pull"
      /\ tries[c] = 0
  BY <1>0, <1>1, OneWriter DEF At
<1>3. ImageOK(image[i]) BY <1>2 DEF ImagesInv, ImagesOK
<1>4. "write" \in Labels /\ "tag" \in Labels /\ {} \in SUBSET Images BY DEF Labels
<1>5. CASE image[i].live
  <2> DEFINE new == [image[i] EXCEPT !.remote = FALSE]
             list == <<Put(i, new)>>
  <2>1. /\ image' = image /\ pc' = [pc EXCEPT ![c] = "write"] /\ todo' = [todo EXCEPT ![c] = list]
        /\ stale' = [stale EXCEPT ![c] = {}] /\ arg' = arg
    BY <1>5 DEF RecordImage, Goto
  <2>2. /\ new \in ImageRecords /\ new.live = image[i].live /\ new.tags = image[i].tags
        /\ new.remote = FALSE
    BY <1>3 DEF ImageOK, ImageRecords
  <2> HIDE DEF new
  <2>3. Updates(image[i], new) BY <1>3, <1>5, <2>2 DEF Updates, Fetches, ImageOK
  <2>4. Put(i, new) \in Writes /\ Sound(Put(i, new), image, {}) BY <1>2, <2>2, <2>3, PutOK
  <2>5. ListOK(list, image, {}) BY <2>4, OneWriteOK
  <2> HIDE DEF list
  <2>6. At(c, "write", arg[c], tries[c]) BY <1>2 DEF At
  <2>7. /\ image' = image /\ status' \in [Apps -> Statuses] /\ pc' = [pc EXCEPT ![c] = "write"]
        /\ arg' = [arg EXCEPT ![c] = arg[c]] /\ todo' = [todo EXCEPT ![c] = list]
        /\ stale' = [stale EXCEPT ![c] = {}] /\ tries' = [tries EXCEPT ![c] = tries[c]]
    BY <1>0, <1>1, <2>1, OneWriter
  <2> QED BY <1>0, <1>4, <2>5, <2>6, <2>7, OneWriter, RequestStep
<1>6. CASE ~image[i].live
  <2> DEFINE new == Present(FALSE, <<>>)
             a == [arg[c] EXCEPT !.op = "tag"]
  <2>1. /\ Change(i, new) /\ pc' = [pc EXCEPT ![c] = "tag"] /\ arg' = [arg EXCEPT ![c] = a]
        /\ todo' = todo
    BY <1>6 DEF RecordImage, Goto
  <2>2. new \in ImageRecords /\ Creates(new) BY DEF Present, ImageRecords, Creates
  <2> HIDE DEF new
  <2>3. ImageOK(new) BY <2>2, CreatesKeep
  <2>4. a \in ArgRecords /\ a.op = "tag" /\ a.img = i /\ a.name = arg[c].name BY <1>2 DEF ArgRecords
  <2> HIDE DEF a, i
  <2>5. At(c, "tag", a, tries[c]) BY <1>2, <2>4, ImagesAssumption DEF At
  <2>6. todo' = [todo EXCEPT ![c] = todo[c]] /\ ListOK(todo[c], image, stale[c]) BY <1>0, <2>1, OneWriter
  <2>7. /\ Change(i, new) /\ pc' = [pc EXCEPT ![c] = "tag"] /\ arg' = [arg EXCEPT ![c] = a]
        /\ status' = status /\ tries' = tries /\ i \in Images
    BY <1>1, <1>2, <2>1
  <2> QED BY <1>0, <1>4, <2>3, <2>4, <2>5, <2>6, <2>7, ChangeStep
<1> QED BY <1>5, <1>6

-----------------------------------------------------------------------------
(* The theorems.                                                             *)

\* Every step keeps the invariant.
LEMMA StepKeeps == ImagesInv /\ [Next]_vars => ImagesInv'
<1> SUFFICES ASSUME ImagesInv, [Next]_vars PROVE ImagesInv'
  OBVIOUS
<1>0. \A p \in Clients \cup Apps : p \in Writers BY DEF Writers
<1>1. ASSUME NEW c \in Clients, NEW i \in Images, NEW n \in Names, StartTag(c, i, n) \/ StartPull(c, i, n)
      PROVE  ImagesInv'
  BY <1>1, StartTagKeeps, StartPullKeeps
<1>2. ASSUME NEW c \in Clients, NEW i \in Images, NEW n \in Names \cup {None}, NEW f \in BOOLEAN,
             StartDelete(c, i, n, f)
      PROVE  ImagesInv'
  BY <1>2, StartDeleteKeeps
<1>3. ASSUME NEW a \in Apps, NEW i \in Images, NEW n \in Names \cup {None}, StartPass(a, n, i)
      PROVE  ImagesInv'
  BY <1>3, StartPassKeeps
<1>4. ASSUME NEW p \in Writers, StepOf(p) PROVE ImagesInv'
  <2>1. ASSUME WriteAccepted(p) PROVE ImagesInv' BY <2>1, WriteAcceptedKeeps
  <2>2. ASSUME WriteRefused(p) PROVE ImagesInv' BY <2>2, WriteRefusedKeeps
  <2>3. ASSUME Finish(p) PROVE ImagesInv' BY <2>3, FinishKeeps
  <2>4. ASSUME p \in Clients, ReadForTag(p) PROVE ImagesInv' BY <2>4, ReadForTagKeeps
  <2>5. ASSUME p \in Clients, RecordImage(p) PROVE ImagesInv' BY <2>5, RecordImageKeeps
  <2>6. ASSUME p \in Clients, ValidateDelete(p) PROVE ImagesInv' BY <2>6, ValidateDeleteKeeps
  <2>7. ASSUME p \in Clients, RemoveImage(p) PROVE ImagesInv' BY <2>7, RemoveImageKeeps
  <2>8. ASSUME p \in Apps, NestedReferences(p) PROVE ImagesInv' BY <2>8, NestedReferencesKeeps
  <2>9. ASSUME p \in Apps, NestedDone(p) PROVE ImagesInv'
    <3>1. pc[p] # "idle" /\ GoOn(p, "save") BY <2>9 DEF NestedDone, GoOn
    <3> QED BY <3>1, ToKeeps
  <2>10. ASSUME p \in Apps, NEW met \in BOOLEAN, SavePass(p, met) PROVE ImagesInv'
    BY <2>10, SavePassKeeps
  <2> QED BY <1>4, <2>1, <2>2, <2>3, <2>4, <2>5, <2>6, <2>7, <2>8, <2>9, <2>10 DEF StepOf
<1>5. ASSUME NEW p \in Writers, Interrupt(p) PROVE ImagesInv'
  BY <1>5, EndRequestKeeps DEF Interrupt
<1>6. CASE UNCHANGED vars
  BY <1>6 DEF vars, requestVars, ImagesInv, ImagesOK, ControlOK, RequestOK, TodoOK
<1> QED BY <1>1, <1>2, <1>3, <1>4, <1>5, <1>6 DEF Next

\* It holds at the beginning.
LEMMA InitKeeps == Init => ImagesInv
<1> SUFFICES ASSUME Init PROVE ImagesInv OBVIOUS
<1>1. ImagesOK BY AbsentOK DEF Init, ImagesOK
<1>2. ControlOK
  <2>1. NoArg \in ArgRecords /\ "idle" \in Labels /\ 0 \in 0..Retries /\ <<>> \in Seq(Writes)
    BY ImagesAssumption DEF NoArg, ArgRecords, Labels
  <2> QED BY <2>1 DEF Init, ControlOK, Statuses
<1>3. ASSUME NEW p \in Writers PROVE RequestOK(p)
  <2>1. At(p, "idle", NoArg, 0) BY DEF At, NoArg
  <2> QED BY <2>1 DEF Init, RequestOK
<1>4. TodoOK BY EmptyListOK DEF Init, TodoOK
<1> QED BY <1>1, <1>2, <1>3, <1>4 DEF ImagesInv

\* So it holds always.
LEMMA Always == Spec => []ImagesInv
  BY InitKeeps, StepKeeps, PTL DEF Spec

\* Every image lists a name once, whoever wrote its list, an image that is not
\* recorded has no names, and no request is tried more often than RetryOnConflict allows.
THEOREM TypeCorrect == Spec => []TypeOK
<1>1. ImagesInv => TypeOK
  <2> SUFFICES ASSUME ImagesInv PROVE TypeOK OBVIOUS
  <2>1. ASSUME NEW i \in Images
        PROVE  /\ image[i] \in [live : BOOLEAN, remote : BOOLEAN, tags : Seq(Names)]
               /\ Len(image[i].tags) = Cardinality(NamesOf(i))
               /\ image[i].live \/ image[i] = Absent
    <3>1. ImageOK(image[i]) BY DEF ImagesInv, ImagesOK
    <3>2. image[i].tags \in Seq(Names) /\ IsInjective(image[i].tags) BY <3>1 DEF ImageOK, ImageRecords
    <3>3. Len(image[i].tags) = Cardinality(NamesOf(i)) BY <3>2, ListedOnce DEF NamesOf
    <3> QED BY <3>1, <3>3 DEF ImageOK, ImageRecords
  <2>2. \A p \in Writers : arg[p].op = "none" <=> pc[p] = "idle" BY DEF ImagesInv, RequestOK, At
  <2> QED BY <2>1, <2>2 DEF TypeOK, ImagesInv, ControlOK, Statuses, Labels
<1> QED BY <1>1, Always, PTL

\* "repo-only" names: an image is listed under a repository alone only while it has
\* no tag of it, although every writer computes the list from an image it read before.
THEOREM OwnNameIsAlone == Spec => []RepoOnlyIsAlone
<1>1. ImagesInv => RepoOnlyIsAlone
  BY DEF ImagesInv, ImagesOK, ImageOK, AloneIn, RepoOnlyIsAlone, NamesOf
<1> QED BY <1>1, Always, PTL

-----------------------------------------------------------------------------
(* The refinement.                                                           *)

EntryOf(r) == IF r.live THEN [remote |-> r.remote, names |-> Range(r.tags)] ELSE None

\* The entry of a recorded image.
LEMMA EntryOfRecorded ==
    ASSUME NEW r \in ImageRecords, r.live
    PROVE  EntryOf(r) # None /\ EntryOf(r).remote = r.remote /\ EntryOf(r).names = Range(r.tags)
<1>1. r.remote \in BOOLEAN BY DEF ImageRecords
<1>2. Range(r.tags) \in SUBSET Names BY DEF ImageRecords, Range
<1>3. [remote |-> r.remote, names |-> Range(r.tags)] \in [remote : BOOLEAN, names : SUBSET Names]
  BY <1>1, <1>2
<1>4. None \notin [remote : BOOLEAN, names : SUBSET Names] BY ImagesAssumption
<1> QED BY <1>3, <1>4 DEF EntryOf

\* A change of one image is a change of one entry.
LEMMA EntryChange ==
    ASSUME ImagesOK, NEW i \in Images, NEW new, image' = [image EXCEPT ![i] = new]
    PROVE  /\ Entry[i] = EntryOf(image[i]) /\ DOMAIN Entry = Images
           /\ Entry' = [Entry EXCEPT ![i] = EntryOf(new)]
<1>1. Entry = [j \in Images |-> EntryOf(image[j])] BY DEF Entry, EntryOf, NamesOf
<1>2. Entry' = [j \in Images |-> EntryOf(image'[j])] BY DEF Entry, EntryOf, NamesOf
<1>3. \A j \in Images : image'[j] = IF j = i THEN new ELSE image[j] BY DEF ImagesOK
<1> HIDE DEF Entry
<1> QED BY <1>1, <1>2, <1>3

\* A sound update is DropNames, Fetch or AddName.
LEMMA UpdateRefines ==
    ASSUME ImagesOK, NEW i \in Images, NEW new \in ImageRecords, image' = [image EXCEPT ![i] = new],
           image[i].live, Updates(image[i], new)
    PROVE  Book!Next
<1> DEFINE r == image[i]
<1>1. r \in ImageRecords /\ r.live /\ new.live BY DEF ImagesOK, ImageOK, Updates
<1>2. Entry[i] = EntryOf(r) /\ Entry' = [Entry EXCEPT ![i] = EntryOf(new)] BY EntryChange
<1>3. Entry[i] # None /\ Entry[i].remote = r.remote /\ Entry[i].names = Range(r.tags)
  BY <1>1, <1>2, EntryOfRecorded
<1>4. EntryOf(new) = Book!Of(new.remote, Range(new.tags)) BY <1>1 DEF EntryOf, Book!Of
<1>5. CASE Drops(r, new)
  <2>1. Range(new.tags) \in SUBSET Entry[i].names /\ new.remote = Entry[i].remote
    BY <1>3, <1>5 DEF Drops
  <2>2. Book!DropNames(i) BY <1>2, <1>3, <1>4, <2>1 DEF Book!DropNames
  <2> QED BY <2>2 DEF Book!Next
<1>6. CASE Fetches(r, new)
  <2>1. new.remote = FALSE /\ Range(new.tags) = Entry[i].names
    BY <1>3, <1>6 DEF Fetches, ImageRecords
  <2>2. Book!Fetch(i) BY <1>2, <1>3, <1>4, <2>1 DEF Book!Fetch
  <2> QED BY <2>2 DEF Book!Next
<1>7. ASSUME NEW n \in Names, Adds(r, new, n) PROVE Book!Next
  <2>1. /\ new.remote = Entry[i].remote
        /\ Range(new.tags) = (Entry[i].names \ {Book!OnRepo(n)}) \cup {n}
    BY <1>3, <1>7 DEF Adds, Book!OnRepo, Repo
  <2>2. n.tag = RepoOnly => \A m \in Entry[i].names : m.repo # n.repo
    BY <1>3, <1>7 DEF Adds, IsTagged
  <2>3. Book!AddName(i, n) BY <1>2, <1>3, <1>4, <2>1, <2>2 DEF Book!AddName
  <2> QED BY <2>3 DEF Book!Next
<1> QED BY <1>5, <1>6, <1>7 DEF Updates

\* A sound create is Record.
LEMMA CreateRefines ==
    ASSUME ImagesOK, NEW i \in Images, NEW new \in ImageRecords, image' = [image EXCEPT ![i] = new],
           ~image[i].live, Creates(new)
    PROVE  Book!Next
<1>1. Entry[i] = None /\ Entry' = [Entry EXCEPT ![i] = EntryOf(new)] BY EntryChange DEF EntryOf
<1>2. EntryOf(new) = Book!Of(new.remote, Range(new.tags)) BY DEF EntryOf, Book!Of, Creates
<1>3. new.remote \in BOOLEAN BY DEF ImageRecords
<1>4. Range(new.tags) \in {{}} \cup {{n} : n \in Names}
  <2>1. Range(<<>>) = {} /\ \A n \in Names : Range(<<n>>) = {n} BY DEF Range
  <2> QED BY <2>1 DEF Creates
<1>5. Book!Record(i) BY <1>1, <1>2, <1>3, <1>4 DEF Book!Record
<1> QED BY <1>5 DEF Book!Next

\* Every step of a writer is a step of the catalogue, or none.
LEMMA StepRefines == ImagesInv /\ [Next]_vars => [Book!Next]_Entry
<1> SUFFICES ASSUME ImagesInv, [Next]_vars PROVE Book!Next \/ Entry' = Entry
  OBVIOUS
<1>1. ASSUME image' = image PROVE Entry' = Entry BY <1>1 DEF Entry, NamesOf
<1>2. ASSUME NEW p \in Writers, WriteAccepted(p) PROVE Book!Next
  <2> DEFINE i == Head(todo[p]).img
             new == Head(todo[p]).new
  <2>1. todo[p] # <<>> /\ Accepted(p, Head(todo[p])) /\ image' = [image EXCEPT ![i] = new]
    BY <1>2 DEF WriteAccepted, Change
  <2>2. /\ i \in Images /\ new \in ImageRecords
        /\ \/ image[i].live /\ Updates(image[i], new)
           \/ ~image[i].live /\ Creates(new)
    BY <2>1, AcceptedFits
  <2> HIDE DEF i, new
  <2> QED BY <2>1, <2>2, UpdateRefines, CreateRefines DEF ImagesInv
<1>3. ASSUME NEW c \in Clients, RemoveImage(c) PROVE Book!Next
  <2>1. image' = [image EXCEPT ![arg[c].img] = Absent] /\ pc[c] = "remove"
    BY <1>3 DEF RemoveImage, Change
  <2>2. arg[c].img \in Images BY <2>1, OneWriter DEF At, Writers
  <2>3. Entry' = [Entry EXCEPT ![arg[c].img] = EntryOf(Absent)] BY <2>1, <2>2, EntryChange DEF ImagesInv
  <2>4. Book!Forget(arg[c].img) BY <2>3 DEF Book!Forget, EntryOf, Absent
  <2> QED BY <2>2, <2>4 DEF Book!Next
<1>4. ASSUME NEW c \in Clients, RecordImage(c) PROVE Book!Next \/ Entry' = Entry
  <2> DEFINE i == arg[c].img
             new == Present(FALSE, <<>>)
  <2>1. CASE image[i].live BY <1>1, <1>4, <2>1 DEF RecordImage
  <2>2. CASE ~image[i].live
    <3>1. image' = [image EXCEPT ![i] = new] /\ pc[c] = "record"
      BY <1>4, <2>2 DEF RecordImage, Change
    <3>2. i \in Images BY <3>1, OneWriter DEF At, Writers
    <3>3. new \in ImageRecords /\ Creates(new) BY DEF Present, ImageRecords, Creates
    <3> HIDE DEF i, new
    <3> QED BY <2>2, <3>1, <3>2, <3>3, CreateRefines DEF ImagesInv
  <2> QED BY <2>1, <2>2
<1>5. ASSUME NEW p \in Writers, StepOf(p), image' # image
      PROVE  WriteAccepted(p) \/ (p \in Clients /\ (RemoveImage(p) \/ RecordImage(p)))
  <2>1. ~WriteRefused(p)
    BY <1>5 DEF WriteRefused, WriteFailsForApp, WriteFailsForClient, GoOn, EndRequest
  <2>2. ~Finish(p) BY <1>5 DEF Finish, EndRequest
  <2>3. ~ReadForTag(p) /\ ~ValidateDelete(p) BY <1>5 DEF ReadForTag, ValidateDelete, GoOn, EndRequest
  <2>4. ~NestedReferences(p) /\ ~NestedDone(p) /\ \A met \in BOOLEAN : ~SavePass(p, met)
    BY <1>5 DEF NestedReferences, NestedDone, SavePass
  <2> QED BY <1>5, <2>1, <2>2, <2>3, <2>4 DEF StepOf
<1>6. CASE image' # image
  <2>1. \A c, i, n : ~StartTag(c, i, n) /\ ~StartPull(c, i, n) BY <1>6 DEF StartTag, StartPull
  <2>2. \A c, i, n, f : ~StartDelete(c, i, n, f) BY <1>6 DEF StartDelete
  <2>3. \A a, i, n : ~StartPass(a, n, i) BY <1>6 DEF StartPass
  <2>4. \A p : ~Interrupt(p) BY <1>6 DEF Interrupt, EndRequest
  <2>5. ~UNCHANGED vars BY <1>6 DEF vars
  <2>6. \E p \in Writers : StepOf(p) BY <2>1, <2>2, <2>3, <2>4, <2>5 DEF Next
  <2> QED BY <1>2, <1>3, <1>4, <1>5, <1>6, <2>6
<1> QED BY <1>1, <1>6

\* The catalogue is empty at the beginning.
LEMMA InitRefines == Init => Book!Init
  BY DEF Init, Book!Init, Entry, Absent

\* The catalogue: one entry changes at a time, by one name added, by names removed
\* or by being fetched, and no write of a list that was computed from an older
\* version brings a removed name back or makes a fetched image remote again.
THEOREM WritersImplementCatalog == Spec => ImplementsCatalog
<1>1. Init => Book!Init BY InitRefines
<1>2. ImagesInv /\ [Next]_vars => [Book!Next]_Entry BY StepRefines
<1> QED BY <1>1, <1>2, Always, PTL DEF Spec, ImplementsCatalog, Book!Spec
=============================================================================

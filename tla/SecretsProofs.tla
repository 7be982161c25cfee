--------------------------- MODULE SecretsProofs ---------------------------
(***************************************************************************)
(* Proofs about Secrets, for any secrets, templates and bounds: the random  *)
(* value of a source is kept, and what is stored, cached, remembered by the *)
(* pass and handed to the app is of the secret's kind and never empty.      *)
(***************************************************************************)
EXTENDS Secrets, TLAPS, WellFoundedInduction

\* The sources of a secret that are there before and after a step: a random value
\* stays.
ValuesKept(s) ==
    Kind[s] = "token" => \A c \in src[s], d \in src'[s] : c.uid = d.uid => c.val = d.val

LEMMA UnchangedKeeps ==
    ASSUME SourcesOK, UNCHANGED src PROVE SourcesOK' /\ \A s \in Made : ValuesKept(s)
  BY DEF SourcesOK, ValuesKept

\* The source that was read is updated, or one with a uid of its own is made.
LEMMA GenerateKeeps ==
    ASSUME SourcesOK, NEW uid \in 1..MaxUid, Generate(uid)
    PROVE  SourcesOK' /\ \A s \in Made : ValuesKept(s)
<1> DEFINE s == Current
           old == GetSecret(s)
           new == [uid |-> IF old = None THEN uid ELSE old.uid, val |-> Data(s, uid)]
<1>1. CASE UNCHANGED src BY <1>1, UnchangedKeeps
<1>2. CASE src' = [src EXCEPT ![s] = (@ \ {old}) \cup {new}] /\ old \in src[s] \cup {None} /\ s \in Made
  <2>1. old = None => uid \notin {c.uid : c \in src[s]}
    BY DEF Generate, FreshUids
  <2>2. Kind[s] = "token" => Data(s, uid) = IF old # None THEN old.val ELSE uid
    BY Zenon DEF Data
  <2>3. new.uid = (IF old = None THEN uid ELSE old.uid) /\ new.val = Data(s, uid)
        /\ new \in [uid : {new.uid}, val : {new.val}]
    OBVIOUS
  <2> HIDE DEF new, old
  <2>4. src'[s] = (src[s] \ {old}) \cup {new} /\ \A t \in Made \ {s} : src'[t] = src[t]
    BY <1>2 DEF SourcesOK
  <2>5. \A c \in src[s] : c.uid = new.uid => c = old /\ old # None
    BY <1>2, <2>1, <2>3 DEF SourcesOK
  <2>6. new.uid \in 1..MaxUid BY <1>2, <2>3 DEF SourcesOK
  <2>7. \A c \in src[s] \ {old} : c.uid # new.uid BY <2>5
  <2>8. SourcesOK'
    <3>1. src' = [t \in Made |-> src'[t]] BY <1>2 DEF SourcesOK
    <3>2. ASSUME NEW t \in Made, NEW c \in src'[t] PROVE c.uid \in 1..MaxUid
      BY <2>4, <2>6, <3>2 DEF SourcesOK
    <3>3. ASSUME NEW t \in Made, NEW c \in src'[t], NEW d \in src'[t], c.uid = d.uid PROVE c = d
      BY <2>4, <2>7, <3>3 DEF SourcesOK
    <3> QED BY <3>1, <3>2, <3>3 DEF SourcesOK
  <2>9. ASSUME NEW t \in Made PROVE ValuesKept(t)
    <3>1. CASE t # s BY <2>4, <3>1 DEF ValuesKept, SourcesOK
    <3>2. CASE t = s
      <4>1. Kind[s] = "token" => \A c \in src[s] : c.uid = new.uid => c.val = new.val
        BY <2>2, <2>3, <2>5
      <4> QED BY <2>4, <3>2, <4>1 DEF ValuesKept, SourcesOK
    <3> QED BY <3>1, <3>2
  <2> QED BY <2>8, <2>9
<1> QED
  <2>1. \/ UNCHANGED src
        \/ src' = [src EXCEPT ![s] = (@ \ {old}) \cup {new}] /\ old \in src[s] \cup {None}
    BY DEF Generate
  <2>2. s \notin Made /\ src' = [src EXCEPT ![s] = (@ \ {old}) \cup {new}] => UNCHANGED src
    BY DEF SourcesOK
  <2> QED BY <1>1, <1>2, <2>1, <2>2

LEMMA DeleteKeeps ==
    ASSUME SourcesOK, NEW s \in Made, DeleteSecret(s)
    PROVE  SourcesOK' /\ \A t \in Made : ValuesKept(t)
<1>1. \A t \in Made : src'[t] \subseteq src[t] BY DEF DeleteSecret, SourcesOK
<1>2. src' = [t \in Made |-> src'[t]] BY DEF DeleteSecret, SourcesOK
<1> QED BY <1>1, <1>2 DEF SourcesOK, ValuesKept

LEMMA NextKeeps ==
    ASSUME SourcesOK, [Next]_vars PROVE SourcesOK' /\ \A s \in Made : ValuesKept(s)
<1>1. CASE UNCHANGED vars BY <1>1, UnchangedKeeps DEF vars, clusterVars
<1>2. CASE Pass
  <2>1. CASE StartPass \/ Remembered \/ LookupBound \/ OutputMissing \/ NeedPart
    BY <2>1, UnchangedKeeps DEF StartPass, Remembered, LookupBound, OutputMissing, NeedPart, clusterVars
  <2>2. ASSUME NEW uid \in 1..MaxUid, Generate(uid) PROVE SourcesOK' /\ \A s \in Made : ValuesKept(s)
    BY <2>2, GenerateKeeps
  <2>3. CASE ApplyCopies \/ ApplyJob BY <2>3, UnchangedKeeps DEF ApplyCopies, ApplyJob, clusterVars
  <2> QED BY <1>2, <2>1, <2>2, <2>3 DEF Pass
<1>3. CASE CutShort \/ Sync \/ UpdateApp \/ ChangeSecret
  BY <1>3, UnchangedKeeps DEF CutShort, Sync, UpdateApp, ChangeSecret, clusterVars
<1>4. ASSUME NEW g \in Gens, PodStep(g) \/ SaveFails(g) PROVE UNCHANGED src
  BY <1>4 DEF PodStep, PodEnds, JobPodOrphanCleanup, PodGone, GetOutput, EnsureSecret, SaveFails, PodFrame
<1>5. ASSUME NEW s \in Made, DeleteSecret(s) PROVE SourcesOK' /\ \A t \in Made : ValuesKept(t)
  BY <1>5, DeleteKeeps
<1> QED BY <1>1, <1>2, <1>3, <1>4, <1>5, UnchangedKeeps DEF Next

\* The sources of a secret are told apart by their uids, however many a lagging
\* cache makes.
THEOREM SourcesCorrect == Spec => []SourcesOK
<1>1. Init => SourcesOK BY DEF Init, SourcesOK
<1>2. SourcesOK /\ [Next]_vars => SourcesOK' BY NextKeeps
<1> QED BY <1>1, <1>2, PTL DEF Spec

\* The random value of a source stays what it was as long as the source is there:
\* seedData takes it from the version that was read, and an update is accepted from
\* that version only.
THEOREM RandomValuesKept == Spec => RandomValueKept
<1>1. SourcesOK /\ [Next]_vars
        => [\A s \in Made : Kind[s] = "token" =>
              \A c \in src[s], d \in src'[s] : c.uid = d.uid => c.val = d.val]_vars
  BY NextKeeps DEF ValuesKept
<1> QED BY <1>1, SourcesCorrect, PTL DEF Spec, RandomValueKept

-----------------------------------------------------------------------------
(* What is in a secret.  The pass remembers the values it has been given and  *)
(* reads the sources through the cache, so both are part of the invariant.    *)

SourceValues(from) == \A s \in Made : \A c \in from[s] : c.uid \in 1..MaxUid /\ ValueOK(s, c.val)

WorldOK ==
    /\ gen \in Gens /\ job \in 0..MaxGen /\ user \in Nat
    /\ out \in {None, Empty} \cup Gens
    /\ pod \in [Gens -> {"none", "run", "ended", "stopped", "ending", "gone"}]
    /\ save \in [Gens -> {None, Empty} \cup Gens]

CopiesOK == \A s \in Secrets : copy[s] = None \/ ValueOK(s, copy[s])

CacheOK ==
    /\ SourceValues(cache.src)
    /\ cache.user \in Nat
    /\ cache.out \in {None, Empty} \cup Gens

PassOK ==
    /\ DOMAIN pass = {"at", "todo", "nested", "got", "emit", "gen"}
    /\ pass.at \in {"idle", "create", "apply"}
    /\ pass.todo \in Seq(Secrets)
    /\ pass.nested \in Secrets \cup {None}
    /\ pass.at # "idle" => pass.gen \in Gens
    /\ \A s \in DOMAIN pass.got : s \in Secrets /\ ValueOK(s, pass.got[s])
    /\ pass.emit \subseteq DOMAIN pass.got

SecretsInv ==
    /\ WorldOK /\ SourceValues(src) /\ SourcesOK
    /\ CopiesOK /\ CacheOK /\ PassOK

\* A uid that is the least exists, so getSecret finds a source where there is one.
LEMMA LeastExists ==
    ASSUME NEW U \in SUBSET Nat, U # {} PROVE \E u \in U : \A v \in U : u <= v
<1>1. PICK u \in U : \A v \in U : <<v, u>> \notin OpToRel(<, Nat)
  BY NatLessThanWellFounded, WFMin
<1>2. \A v \in U : ~(v < u) BY <1>1 DEF OpToRel
<1> QED BY <1>2

LEMMA GetSecretFinds ==
    ASSUME CacheOK, NEW s \in Made, cache.src[s] # {} PROVE GetSecret(s) \in cache.src[s]
<1> DEFINE uids == {c.uid : c \in cache.src[s]}
<1>1. uids \in SUBSET Nat BY SecretsAssumption DEF CacheOK, SourceValues
<1>2. uids # {} OBVIOUS
<1>3. PICK u \in uids : \A v \in uids : u <= v BY <1>1, <1>2, LeastExists
<1>4. \E c \in cache.src[s] : \A d \in cache.src[s] : c.uid <= d.uid BY <1>3
<1> QED BY <1>4 DEF GetSecret

LEMMA CurrentIsASecret ==
    ASSUME PassOK, Creating PROVE Current \in Secrets
<1>1. Head(pass.todo) \in Secrets BY DEF PassOK, Creating
<1> QED BY <1>1 DEF PassOK, Current

LEMMA SucceedKeepsPass ==
    ASSUME PassOK, Creating, NEW val, ValueOK(Current, val), Succeed(val) PROVE PassOK'
<1>1. Current \in Secrets BY CurrentIsASecret
<1>2. Tail(pass.todo) \in Seq(Secrets) BY DEF PassOK, Creating
<1> DEFINE got == [p \in DOMAIN pass.got \cup {Current} |-> IF p = Current THEN val ELSE pass.got[p]]
<1>3. /\ DOMAIN pass' = DOMAIN pass /\ pass'.at = pass.at /\ pass'.gen = pass.gen
      /\ pass'.todo \in {pass.todo, Tail(pass.todo)} /\ pass'.nested = None
      /\ pass'.got = got /\ pass'.emit \subseteq pass.emit \cup {Current}
  BY DEF Succeed, PassOK
<1>4. \A s \in DOMAIN got : s \in Secrets /\ ValueOK(s, got[s]) BY <1>1 DEF PassOK
<1>5. DOMAIN got = DOMAIN pass.got \cup {Current} OBVIOUS
<1> HIDE DEF got
<1>6. pass'.todo \in Seq(Secrets) BY <1>2, <1>3 DEF PassOK
<1>7. pass'.emit \subseteq DOMAIN pass'.got BY <1>3, <1>5 DEF PassOK
<1> QED BY <1>3, <1>4, <1>6, <1>7 DEF PassOK

LEMMA LeaveOutKeepsPass ==
    ASSUME PassOK, Creating, Skip \/ Abandon PROVE PassOK'
<1>1. Tail(pass.todo) \in Seq(Secrets) BY DEF PassOK, Creating
<1>2. <<>> \in Seq(Secrets) OBVIOUS
<1>3. /\ DOMAIN pass' = DOMAIN pass /\ pass'.at = pass.at /\ pass'.gen = pass.gen
      /\ pass'.todo \in {<<>>, Tail(pass.todo)} /\ pass'.nested = None
      /\ pass'.got = pass.got /\ pass'.emit = pass.emit
  BY DEF Skip, Abandon, PassOK
<1> QED BY <1>1, <1>2, <1>3 DEF PassOK

LEMMA EmptyPass == ASSUME pass' = NoPass PROVE PassOK'
<1>1. <<>> \in Seq(Secrets) OBVIOUS
<1> QED BY <1>1 DEF NoPass, PassOK

\* What is put into a secret is what its kind asks for.
LEMMA DataIsOK ==
    ASSUME CacheOK, PassOK, NEW s \in Made, NEW uid \in 1..MaxUid,
           Kind[s] = "generated" => ~NoOutput,
           Kind[s] = "template" => Parts[s] \subseteq DOMAIN pass.got
    PROVE  ValueOK(s, Data(s, uid))
<1>1. CASE Kind[s] = "token"
  <2>1. Data(s, uid) = IF GetSecret(s) # None THEN GetSecret(s).val ELSE uid
    BY <1>1, Zenon DEF Data
  <2>2. GetSecret(s) # None => GetSecret(s).val \in 1..MaxUid
    <3> SUFFICES ASSUME GetSecret(s) # None PROVE GetSecret(s).val \in 1..MaxUid
      OBVIOUS
    <3>1. cache.src[s] # {} BY DEF GetSecret
    <3>2. ValueOK(s, GetSecret(s).val) BY <3>1, GetSecretFinds DEF CacheOK, SourceValues
    <3> QED BY <1>1, <3>2 DEF ValueOK, PlainOK
  <2>3. Data(s, uid) \in 1..MaxUid BY <2>1, <2>2
  <2> QED BY <1>1, <2>3 DEF ValueOK, PlainOK
<1>2. CASE Kind[s] = "generated"
  <2>1. Data(s, uid) = cache.out BY <1>2 DEF Data
  <2>2. cache.out \in Gens BY <1>2 DEF CacheOK, NoOutput
  <2> QED BY <1>2, <2>1, <2>2 DEF ValueOK, PlainOK
<1>3. CASE Kind[s] = "template"
  <2>1. Data(s, uid) = [p \in Parts[s] |-> pass.got[p]] BY <1>3 DEF Data
  <2>2. \A p \in Parts[s] : p \in Secrets /\ Kind[p] # "template"
    BY SecretsAssumption DEF Made
  <2>3. \A p \in Parts[s] : PlainOK(p, pass.got[p])
    BY <1>3, <2>2 DEF PassOK, ValueOK
  <2>4. /\ DOMAIN Data(s, uid) = Parts[s]
        /\ \A p \in Parts[s] : Data(s, uid)[p] = pass.got[p]
    BY <2>1
  <2> QED BY <1>3, <2>3, <2>4 DEF ValueOK
<1> QED BY <1>1, <1>2, <1>3, SecretsAssumption DEF Made

LEMMA GenerateIsOK ==
    ASSUME SecretsInv, NEW uid \in 1..MaxUid, Generate(uid) PROVE SourceValues(src)' /\ PassOK'
<1> DEFINE s == Current
           old == GetSecret(s)
           new == [uid |-> IF old = None THEN uid ELSE old.uid, val |-> Data(s, uid)]
<1>1. s \in Made
  BY CurrentIsASecret DEF Generate, Fresh, Made, SecretsInv
<1>2. ValueOK(s, Data(s, uid))
  BY <1>1, DataIsOK DEF Generate, SecretsInv
<1>3. new.val = Data(s, uid) /\ new.uid = IF old = None THEN uid ELSE old.uid
  OBVIOUS
<1>4. Creating BY DEF Generate, Fresh
<1>5. PassOK'
  <2>1. Succeed(new.val) \/ Abandon BY DEF Generate
  <2>2. CASE Succeed(new.val)
    <3>1. Succeed(Data(s, uid)) BY <1>3, <2>2
    <3> QED BY <1>2, <1>4, <3>1, SucceedKeepsPass DEF SecretsInv
  <2>3. CASE Abandon BY <1>4, <2>3, LeaveOutKeepsPass DEF SecretsInv
  <2> QED BY <2>1, <2>2, <2>3
<1>6. SourceValues(src)'
  <2>1. \/ UNCHANGED src
        \/ src' = [src EXCEPT ![s] = (@ \ {old}) \cup {new}]
    BY DEF Generate
  <2>2. SourcesOK' BY GenerateKeeps DEF SecretsInv
  <2>3. ASSUME NEW t \in Made, NEW c \in src'[t] PROVE ValueOK(t, c.val)
    <3>1. CASE UNCHANGED src BY <2>3, <3>1 DEF SecretsInv, SourceValues
    <3>2. CASE src' = [src EXCEPT ![s] = (@ \ {old}) \cup {new}]
      <4> HIDE DEF new, old
      <4>1. c \in src[t] \/ (t = s /\ c = new)
        BY <2>3, <3>2 DEF SecretsInv, SourcesOK
      <4> QED BY <1>2, <1>3, <4>1 DEF SecretsInv, SourceValues
    <3> QED BY <2>1, <3>1, <3>2
  <2> QED BY <2>2, <2>3 DEF SourcesOK, SourceValues
<1> QED BY <1>5, <1>6

\* The steps of the pass that only change the pass.
LEMMA PassStepKeepsPass ==
    ASSUME SecretsInv, StartPass \/ Remembered \/ LookupBound \/ OutputMissing \/ NeedPart
    PROVE  PassOK'
<1>1. CASE StartPass
  <2>1. Ordered \in Seq(Secrets) /\ gen \in Gens
    BY SecretsAssumption DEF SecretsInv, WorldOK
  <2>2. /\ DOMAIN pass' = DOMAIN NoPass /\ pass'.at = "create" /\ pass'.todo = Ordered
        /\ pass'.nested = None /\ pass'.got = <<>> /\ pass'.emit = {} /\ pass'.gen = gen
    BY <1>1 DEF StartPass, NoPass
  <2> QED BY <2>1, <2>2 DEF PassOK, NoPass
<1>2. CASE Remembered
  BY <1>2, SucceedKeepsPass DEF Remembered, SecretsInv, PassOK
<1>3. CASE LookupBound
  <2>1. Creating BY <1>3 DEF LookupBound, Fresh
  <2>2. cache.user # Empty => ValueOK(Current, cache.user)
    BY <1>3 DEF LookupBound, SecretsInv, CacheOK, ValueOK, PlainOK
  <2> QED BY <1>3, <2>1, <2>2, SucceedKeepsPass, LeaveOutKeepsPass DEF LookupBound, SecretsInv
<1>4. CASE OutputMissing
  BY <1>4, LeaveOutKeepsPass DEF OutputMissing, Fresh, SecretsInv
<1>5. CASE NeedPart
  <2>1. PICK p \in Parts[Current] : pass' = [pass EXCEPT !.nested = p]
    BY <1>5 DEF NeedPart
  <2>2. p \in Secrets
    BY <1>5, CurrentIsASecret, SecretsAssumption DEF NeedPart, Fresh, SecretsInv
  <2> QED BY <2>1, <2>2 DEF SecretsInv, PassOK
<1> QED BY <1>1, <1>2, <1>3, <1>4, <1>5

\* A copy is handed out with the value that the pass has of the secret.
LEMMA HandedOutIsOK ==
    ASSUME PassOK, NEW s \in Secrets PROVE HandedOut(s) = None \/ ValueOK(s, HandedOut(s))
  BY DEF PassOK, HandedOut

LEMMA ApplyIsOK ==
    ASSUME SecretsInv, ApplyCopies \/ ApplyJob \/ CutShort \/ Sync PROVE SecretsInv'
<1>1. CASE ApplyCopies
  <2>1. CopiesOK'
    BY <1>1, HandedOutIsOK DEF ApplyCopies, SecretsInv, CopiesOK
  <2>2. PassOK'
    <3>1. /\ DOMAIN pass' = DOMAIN pass /\ pass'.at = "apply" /\ pass'.gen = pass.gen
          /\ pass'.todo = pass.todo /\ pass'.nested = pass.nested
          /\ pass'.got = pass.got /\ pass'.emit = pass.emit /\ pass.at = "create"
      BY <1>1 DEF ApplyCopies, SecretsInv, PassOK
    <3> QED BY <3>1 DEF SecretsInv, PassOK
  <2> QED
    BY <1>1, <2>1, <2>2
    DEF ApplyCopies, podVars, SecretsInv, WorldOK, SourceValues, SourcesOK, CacheOK
<1>2. CASE ApplyJob
  <2>1. pass.gen \in Gens BY <1>2 DEF ApplyJob, SecretsInv, PassOK
  <2>2. job' \in 0..MaxGen BY <1>2, <2>1, SecretsAssumption DEF ApplyJob, Gens
  <2>3. pod' \in [Gens -> {"none", "run", "ended", "stopped", "ending", "gone"}]
    BY <1>2, <2>1 DEF ApplyJob, SecretsInv, WorldOK
  <2>4. PassOK' BY <1>2, EmptyPass DEF ApplyJob
  <2> QED
    BY <1>2, <2>2, <2>3, <2>4
    DEF ApplyJob, clusterVars, SecretsInv, WorldOK, SourceValues, SourcesOK, CopiesOK, CacheOK
<1>3. CASE CutShort
  <2>1. PassOK' BY <1>3, EmptyPass DEF CutShort
  <2>2. CopiesOK'
    <3>1. CASE UNCHANGED copy BY <3>1 DEF SecretsInv, CopiesOK
    <3>2. ASSUME NEW S \in SUBSET Secrets,
                 copy' = [s \in Secrets |-> IF s \in S THEN HandedOut(s) ELSE copy[s]]
          PROVE  CopiesOK'
      BY <3>2, HandedOutIsOK DEF SecretsInv, CopiesOK
    <3> QED BY <1>3, <3>1, <3>2 DEF CutShort
  <2> QED
    BY <1>3, <2>1, <2>2 DEF CutShort, podVars, SecretsInv, WorldOK, SourceValues, SourcesOK, CacheOK
<1>4. CASE Sync
  <2>1. CacheOK' BY <1>4 DEF Sync, SecretsInv, WorldOK, SourceValues, CacheOK
  <2> QED
    BY <1>4, <2>1
    DEF Sync, clusterVars, podVars, SecretsInv, WorldOK, SourceValues, SourcesOK, CopiesOK, PassOK
<1> QED BY <1>1, <1>2, <1>3, <1>4

\* Of the pods only the stored output, the Job, the pods and what was read change.
LEMMA PodsAreOK ==
    ASSUME SecretsInv, NEW g \in Gens, PodStep(g) \/ SaveFails(g) PROVE SecretsInv'
<1>1. UNCHANGED <<gen, src, user, copy, cache, pass, job>>
  BY DEF PodStep, PodEnds, JobPodOrphanCleanup, PodGone, GetOutput, EnsureSecret, SaveFails, PodFrame
<1>2. out' \in {None, Empty} \cup Gens
  BY DEF PodStep, PodEnds, JobPodOrphanCleanup, PodGone, GetOutput, EnsureSecret, SaveFails,
         SecretsInv, WorldOK
<1>3. pod' \in [Gens -> {"none", "run", "ended", "stopped", "ending", "gone"}]
  BY DEF PodStep, PodEnds, JobPodOrphanCleanup, PodGone, GetOutput, EnsureSecret, SaveFails,
         SecretsInv, WorldOK
<1>4. save' \in [Gens -> {None, Empty} \cup Gens]
  BY DEF PodStep, PodEnds, JobPodOrphanCleanup, PodGone, GetOutput, EnsureSecret, SaveFails,
         SecretsInv, WorldOK
<1> QED
  BY <1>1, <1>2, <1>3, <1>4
  DEF SecretsInv, WorldOK, SourceValues, SourcesOK, CopiesOK, CacheOK, PassOK

LEMMA UserIsOK ==
    ASSUME SecretsInv,
           UpdateApp \/ ChangeSecret \/ \E s \in Made : DeleteSecret(s)
    PROVE  SecretsInv'
<1>1. CASE UpdateApp
  <2>1. gen' \in Gens BY <1>1, SecretsAssumption DEF UpdateApp, SecretsInv, WorldOK, Gens
  <2> QED
    BY <1>1, <2>1
    DEF UpdateApp, clusterVars, podVars, SecretsInv, WorldOK, SourceValues, SourcesOK,
        CopiesOK, CacheOK, PassOK
<1>2. CASE ChangeSecret
  <2>1. user' \in Nat BY <1>2 DEF ChangeSecret, SecretsInv, WorldOK, Empty
  <2> QED
    BY <1>2, <2>1
    DEF ChangeSecret, podVars, SecretsInv, WorldOK, SourceValues, SourcesOK, CopiesOK,
        CacheOK, PassOK
<1>3. ASSUME NEW s \in Made, DeleteSecret(s) PROVE SecretsInv'
  <2>1. SourcesOK' BY <1>3, DeleteKeeps DEF SecretsInv
  <2>2. \A t \in Made : src'[t] \subseteq src[t]
    BY <1>3 DEF DeleteSecret, SecretsInv, SourcesOK
  <2>3. SourceValues(src)' BY <2>2 DEF SecretsInv, SourceValues
  <2> QED
    BY <1>3, <2>1, <2>3
    DEF DeleteSecret, podVars, SecretsInv, WorldOK, SourceValues, CopiesOK, CacheOK, PassOK
<1> QED BY <1>1, <1>2, <1>3

LEMMA InvInit == Init => SecretsInv
<1> SUFFICES ASSUME Init PROVE SecretsInv
  OBVIOUS
<1>1. 1 \in Gens /\ 0 \in 0..MaxGen BY SecretsAssumption DEF Gens
<1>2. WorldOK BY <1>1 DEF Init, WorldOK
<1>3. SourceValues(src) /\ SourcesOK BY DEF Init, SourceValues, SourcesOK
<1>4. CopiesOK BY DEF Init, CopiesOK
<1>5. CacheOK BY DEF Init, CacheOK, SourceValues
<1>6. PassOK
  <2>1. <<>> \in Seq(Secrets) OBVIOUS
  <2> QED BY <2>1 DEF Init, NoPass, PassOK
<1> QED BY <1>2, <1>3, <1>4, <1>5, <1>6 DEF SecretsInv

LEMMA InvNext == SecretsInv /\ [Next]_vars => SecretsInv'
<1> SUFFICES ASSUME SecretsInv, [Next]_vars PROVE SecretsInv'
  OBVIOUS
<1>1. CASE UNCHANGED vars
  BY <1>1
  DEF vars, clusterVars, podVars, SecretsInv, WorldOK, SourceValues, SourcesOK, CopiesOK,
      CacheOK, PassOK
<1>2. CASE Pass
  <2>1. CASE StartPass \/ Remembered \/ LookupBound \/ OutputMissing \/ NeedPart
    <3>1. PassOK' BY <2>1, PassStepKeepsPass
    <3>2. UNCHANGED <<gen, clusterVars, cache, podVars, edited, trouble>>
      BY <2>1 DEF StartPass, Remembered, LookupBound, OutputMissing, NeedPart
    <3> QED
      BY <3>1, <3>2
      DEF clusterVars, podVars, SecretsInv, WorldOK, SourceValues, SourcesOK, CopiesOK, CacheOK
  <2>2. ASSUME NEW uid \in 1..MaxUid, Generate(uid) PROVE SecretsInv'
    <3>1. SourceValues(src)' /\ PassOK' BY <2>2, GenerateIsOK
    <3>2. SourcesOK' BY <2>2, GenerateKeeps DEF SecretsInv
    <3>3. UNCHANGED <<gen, user, copy, out, cache, podVars, edited, trouble>>
      BY <2>2 DEF Generate
    <3> QED
      BY <3>1, <3>2, <3>3 DEF podVars, SecretsInv, WorldOK, SourceValues, CopiesOK, CacheOK
  <2> QED BY <1>2, <2>1, <2>2, ApplyIsOK DEF Pass
<1> QED BY <1>1, <1>2, ApplyIsOK, PodsAreOK, UserIsOK DEF Next

LEMMA InvTypes == SecretsInv => TypeOK
  BY DEF SecretsInv, WorldOK, SourceValues, CopiesOK, PassOK, TypeOK

\* What is stored in a source or handed to the app is of the secret's kind: a uid
\* that was made, a generation that has run, a value for each part of the template,
\* and never an output that was stored empty.
THEOREM NothingEmptyIsHandedOut == Spec => []TypeOK
  BY InvInit, InvNext, InvTypes, PTL DEF Spec
=============================================================================

------------------------------ MODULE Secrets ------------------------------
(***************************************************************************)
(* The secrets of one app: CreateSecrets makes or updates their sources in  *)
(* the project (pkg/secrets) and hands copies of them to the app; a secret  *)
(* may be random, bound to one of the user's, generated from the output of  *)
(* a job, or a template over others.  SaveJobOutput stores what the pod of  *)
(* a job has written.                                                       *)
(*                                                                          *)
(* A random value is the uid of the secret it was made for, the output of a *)
(* job the generation its pod ran for, and the content of a template the    *)
(* values it was filled in with.                                            *)
(***************************************************************************)
EXTENDS Naturals, Sequences, FiniteSets

CONSTANTS
    Ordered,    \* the secrets in the order of secretsOrdered
    Kind,       \* of a secret: "token", "bound", "generated" or "template"
    Parts,      \* the secrets a template refers to, none of them a template
    None,       \* no object
    MaxUid,     \* bound: sources made for one secret
    MaxGen,     \* bound: generations of the app
    MaxTrouble  \* bound: secrets changed or removed by hand, and requests that fail

Secrets == {Ordered[k] : k \in 1..Len(Ordered)}
Made == {s \in Secrets : Kind[s] # "bound"}
Gens == 1..MaxGen
Empty == 0

ASSUME SecretsAssumption ==
    /\ Ordered \in Seq(Secrets)
    /\ Kind \in [Secrets -> {"token", "bound", "generated", "template"}]
    /\ \A s \in Secrets : Parts[s] \subseteq {p \in Secrets : Kind[p] # "template"}
    /\ None \notin Secrets
    /\ {MaxUid, MaxTrouble} \subseteq Nat /\ MaxGen \in Nat \ {0}

VARIABLES
    gen,     \* generation of the app
    src,     \* the sources in the project, [uid, val]; more than one per secret if it went wrong
    user,    \* value of the user's secret, Empty if there is none
    copy,    \* what the app has of each secret
    out,     \* the output secret of the job
    cache,   \* the controller's cache of all of these secrets
    pass,    \* the pass over the app
    job,     \* generation the Job was made for
    pod,     \* the pods of the job, by generation
    save,    \* the handler of each pod: what it has read and not yet stored
    edited,  \* a secret was changed or removed by hand
    trouble

clusterVars == <<src, user, copy, out>>
podVars == <<job, pod, save>>
vars == <<gen, clusterVars, cache, pass, podVars, edited, trouble>>

-----------------------------------------------------------------------------
(* The pass *)

NoPass == [at |-> "idle", todo |-> <<>>, nested |-> None, got |-> <<>>, emit |-> {}, gen |-> 0]

StartPass ==
    /\ pass.at = "idle"
    /\ pass' = [NoPass EXCEPT !.at = "create", !.todo = Ordered, !.gen = gen]
    /\ UNCHANGED <<gen, clusterVars, cache, podVars, edited, trouble>>

\* What GetOrCreateSecret is asked for: the next secret, or a part of it.
Current == IF pass.nested # None THEN pass.nested ELSE Head(pass.todo)
Creating == pass.at = "create" /\ pass.todo # <<>>

\* The value is remembered in allSecrets; only the secret itself, not the part
\* of a template, is handed to the app.
Succeed(val) ==
    pass' = [pass EXCEPT
        !.got = [p \in DOMAIN @ \cup {Current} |-> IF p = Current THEN val ELSE @[p]],
        !.emit = IF pass.nested = None THEN @ \cup {Current} ELSE @,
        !.todo = IF pass.nested = None THEN Tail(@) ELSE @,
        !.nested = None]

\* Not found, or the job is not done: this secret, or the template that needs it,
\* is left out and the next one follows.
Skip == pass' = [pass EXCEPT !.todo = Tail(@), !.nested = None]

\* Any other error of the API server ends the loop.
Abandon == pass' = [pass EXCEPT !.todo = <<>>, !.nested = None]

\* A secret that was already made for a template.
Remembered ==
    /\ Creating
    /\ Current \in DOMAIN pass.got
    /\ Succeed(pass.got[Current])
    /\ UNCHANGED <<gen, clusterVars, cache, podVars, edited, trouble>>

Fresh == Creating /\ Current \notin DOMAIN pass.got

LookupBound ==
    /\ Fresh /\ Kind[Current] = "bound"
    /\ IF cache.user = Empty THEN Skip ELSE Succeed(cache.user)
    /\ UNCHANGED <<gen, clusterVars, cache, podVars, edited, trouble>>

\* Mutant: an output that is stored empty counts.
NoSecret == cache.out = None

\* No output secret, or one without content: errJobNoOutput.
NoOutput == cache.out \in {None, Empty}

OutputMissing ==
    /\ Fresh /\ Kind[Current] = "generated"
    /\ NoOutput
    /\ Skip
    /\ UNCHANGED <<gen, clusterVars, cache, podVars, edited, trouble>>

\* generateTemplate asks for its parts first.
NeedPart ==
    /\ Fresh /\ Kind[Current] = "template"
    /\ \E p \in Parts[Current] \ DOMAIN pass.got : pass' = [pass EXCEPT !.nested = p]
    /\ UNCHANGED <<gen, clusterVars, cache, podVars, edited, trouble>>

\* getSecret: of several sources the one with the least uid.
GetSecret(s) ==
    IF cache.src[s] = {} THEN None
    ELSE CHOOSE c \in cache.src[s] : \A d \in cache.src[s] : c.uid <= d.uid

\* Mutant: the value that exists is not looked at.
DataRegenerated(s, uid) ==
    CASE Kind[s] = "token" -> uid
      [] Kind[s] = "generated" -> cache.out
      [] OTHER -> [p \in Parts[s] |-> pass.got[p]]

\* seedData keeps the random value a source already has; the rest is made anew.
Data(s, uid) ==
    CASE Kind[s] = "token" -> IF GetSecret(s) # None THEN GetSecret(s).val ELSE uid
      [] Kind[s] = "generated" -> cache.out
      [] OTHER -> [p \in Parts[s] |-> pass.got[p]]

\* A uid is random; that of a secret whose value is not random makes no difference.
FreshUids(s) ==
    LET free == 1..MaxUid \ {c.uid : c \in src[s]}
    IN  IF Kind[s] = "token" THEN free ELSE {u \in free : \A v \in free : u <= v}

\* generateSecret and updateOrCreate: create, leave alone, or update the version
\* that was read.
Generate(uid) ==
    LET s == Current
        old == GetSecret(s)
        new == [uid |-> IF old = None THEN uid ELSE old.uid, val |-> Data(s, uid)]
    IN  /\ Fresh /\ Kind[s] # "bound"
        /\ Kind[s] = "generated" => ~NoOutput
        /\ Kind[s] = "template" => Parts[s] \subseteq DOMAIN pass.got
        /\ old = None => uid \in FreshUids(s)
        /\ IF old \in src[s] \cup {None}
           THEN src' = [src EXCEPT ![s] = (@ \ {old}) \cup {new}] /\ Succeed(new.val)
           ELSE IF new = old THEN UNCHANGED src /\ Succeed(new.val)
           ELSE UNCHANGED src /\ Abandon
        /\ UNCHANGED <<gen, user, copy, out, cache, podVars, edited, trouble>>

\* What the app is to have of a secret: a copy that the pass did not hand out is
\* pruned.
HandedOut(s) == IF s \in pass.emit THEN pass.got[s] ELSE None

\* Mutant: a copy that is there is not replaced.
ApplyCopiesOnce ==
    /\ pass.at = "create" /\ pass.todo = <<>>
    /\ copy' = [s \in Secrets |-> IF s \in pass.emit /\ copy[s] # None THEN copy[s] ELSE HandedOut(s)]
    /\ pass' = [pass EXCEPT !.at = "apply"]
    /\ UNCHANGED <<gen, src, user, out, cache, podVars, edited, trouble>>

\* The objects of the pass are applied: the copies, then the Job.
ApplyCopies ==
    /\ pass.at = "create" /\ pass.todo = <<>>
    /\ copy' = [s \in Secrets |-> HandedOut(s)]
    /\ pass' = [pass EXCEPT !.at = "apply"]
    /\ UNCHANGED <<gen, src, user, out, cache, podVars, edited, trouble>>

\* The Job of another generation is replaced; its pods are left without an owner.
ApplyJob ==
    /\ pass.at = "apply"
    /\ job' = pass.gen
    /\ pod' = IF job = pass.gen THEN pod ELSE [pod EXCEPT ![pass.gen] = "run"]
    /\ pass' = NoPass
    /\ UNCHANGED <<gen, clusterVars, cache, save, edited, trouble>>

\* A request of the pass fails; of the copies some may have been applied.
CutShort ==
    /\ pass.at # "idle"
    /\ trouble < MaxTrouble /\ trouble' = trouble + 1
    /\ pass' = NoPass
    /\ \/ UNCHANGED copy
       \/ /\ pass.at = "create" /\ pass.todo = <<>>
          /\ \E S \in SUBSET Secrets : copy' = [s \in Secrets |-> IF s \in S THEN HandedOut(s) ELSE copy[s]]
    /\ UNCHANGED <<gen, src, user, out, cache, podVars, edited>>

\* The informer of secrets catches up.
Sync ==
    /\ cache' = [src |-> src, user |-> user, out |-> out]
    /\ cache' # cache
    /\ UNCHANGED <<gen, clusterVars, pass, podVars, edited, trouble>>

-----------------------------------------------------------------------------
(* Pods of the job and SaveJobOutput *)

PodFrame == UNCHANGED <<gen, src, user, copy, cache, pass, edited, trouble>>

\* All of its containers have ended, and the helper waits.
PodEnds(g) ==
    /\ pod[g] = "run"
    /\ pod' = [pod EXCEPT ![g] = "ended"]
    /\ PodFrame /\ UNCHANGED <<out, job, save>>

\* JobPodOrphanCleanup deletes a pod without an owner; its containers are stopped
\* where they are, the helper last.
JobPodOrphanCleanup(g) ==
    /\ g # job /\ pod[g] \in {"run", "ended"}
    /\ pod' = [pod EXCEPT ![g] = IF @ = "run" THEN "stopped" ELSE "ending"]
    /\ PodFrame /\ UNCHANGED <<out, job, save>>

PodGone(g) ==
    /\ pod[g] \in {"stopped", "ending"}
    /\ pod' = [pod EXCEPT ![g] = "gone"]
    /\ PodFrame /\ UNCHANGED <<out, job, save>>

\* acorn-job-get-output, in the helper of a pod whose containers have ended.
GetOutput(g) ==
    /\ save[g] = None
    /\ pod[g] \in {"ended", "stopped", "ending"}
    /\ save' = [save EXCEPT ![g] = IF pod[g] = "stopped" THEN Empty ELSE g]
    /\ PodFrame /\ UNCHANGED <<out, job, pod>>

\* Ensure creates the output secret, or overwrites it; acorn-job-helper-shutdown
\* then lets the pod end.
EnsureSecret(g) ==
    /\ save[g] # None
    /\ out' = save[g]
    /\ save' = [save EXCEPT ![g] = None]
    /\ pod' = [pod EXCEPT ![g] = "gone"]
    /\ PodFrame /\ UNCHANGED job

\* An error before or after the output is stored: the handler starts again.
SaveFails(g) ==
    /\ save[g] # None
    /\ trouble < MaxTrouble /\ trouble' = trouble + 1
    /\ save' = [save EXCEPT ![g] = None]
    /\ out' \in {out, save[g]}
    /\ UNCHANGED <<gen, src, user, copy, cache, pass, job, pod, edited>>

-----------------------------------------------------------------------------
(* The user *)

UpdateApp ==
    /\ gen < MaxGen
    /\ gen' = gen + 1
    /\ UNCHANGED <<clusterVars, cache, pass, podVars, edited, trouble>>

\* A new value, or none.
ChangeSecret ==
    /\ trouble < MaxTrouble /\ trouble' = trouble + 1 /\ edited' = TRUE
    /\ user' \in {Empty, user + 1}
    /\ UNCHANGED <<gen, src, copy, out, cache, pass, podVars>>

DeleteSecret(s) ==
    /\ trouble < MaxTrouble /\ trouble' = trouble + 1 /\ edited' = TRUE
    /\ \E c \in src[s] : src' = [src EXCEPT ![s] = @ \ {c}]
    /\ UNCHANGED <<gen, user, copy, out, cache, pass, podVars>>

-----------------------------------------------------------------------------
Init ==
    /\ gen = 1
    /\ src = [s \in Made |-> {}]
    /\ user = 1
    /\ copy = [s \in Secrets |-> None]
    /\ out = None
    /\ cache = [src |-> src, user |-> user, out |-> out]
    /\ pass = NoPass
    /\ job = 0
    /\ pod = [g \in Gens |-> "none"]
    /\ save = [g \in Gens |-> None]
    /\ edited = FALSE /\ trouble = 0

Pass ==
    \/ StartPass \/ Remembered \/ LookupBound \/ OutputMissing \/ NeedPart
    \/ (\E uid \in 1..MaxUid : Generate(uid))
    \/ ApplyCopies \/ ApplyJob

PodStep(g) ==
    PodEnds(g) \/ JobPodOrphanCleanup(g) \/ PodGone(g) \/ GetOutput(g)
    \/ EnsureSecret(g)

Next ==
    \/ Pass \/ CutShort \/ Sync
    \/ \E g \in Gens : PodStep(g) \/ SaveFails(g)
    \/ UpdateApp \/ ChangeSecret
    \/ \E s \in Made : DeleteSecret(s)

Spec == Init /\ [][Next]_vars
\* The queue comes back to the app, the cache catches up, pods go on.
FairSpec == Spec /\ WF_vars(Pass) /\ WF_vars(Sync) /\ \A g \in Gens : WF_vars(PodStep(g))

-----------------------------------------------------------------------------
(* Properties *)

Least(S) == CHOOSE c \in S : \A d \in S : c.uid <= d.uid

\* What there is to be in a secret: a template has a value of each of its parts.
PlainOK(s, val) ==
    CASE Kind[s] = "token" -> val \in 1..MaxUid
      [] Kind[s] = "generated" -> val \in Gens
      [] OTHER -> val \in Nat \ {Empty}
ValueOK(s, val) ==
    IF Kind[s] = "template"
    THEN DOMAIN val = Parts[s] /\ \A p \in Parts[s] : PlainOK(p, val[p])
    ELSE PlainOK(s, val)

\* A source is not made for a secret before there is something in it, and what
\* the app has of a generated secret or of a part of a template is never empty.
TypeOK ==
    /\ gen \in Gens /\ job \in 0..MaxGen /\ user \in Nat
    /\ \A s \in Made : \A c \in src[s] : c.uid \in 1..MaxUid /\ ValueOK(s, c.val)
    /\ \A s \in Secrets : copy[s] = None \/ ValueOK(s, copy[s])
    /\ out \in {None, Empty} \cup Gens
    /\ pod \in [Gens -> {"none", "run", "ended", "stopped", "ending", "gone"}]
    /\ save \in [Gens -> {None, Empty} \cup Gens]
    /\ pass.at \in {"idle", "create", "apply"}
    /\ pass.emit \subseteq DOMAIN pass.got

\* The sources of a secret have different uids.
SourcesOK ==
    /\ src = [s \in Made |-> src[s]]
    /\ \A s \in Made : \A c \in src[s] : c.uid \in 1..MaxUid
    /\ \A s \in Made : \A c, d \in src[s] : c.uid = d.uid => c = d

\* The random value of a source stays what it was as long as the source is there
\* (seedData).
RandomValueKept ==
    [][\A s \in Made : Kind[s] = "token" =>
        \A c \in src[s], d \in src'[s] : c.uid = d.uid => c.val = d.val]_vars

\* The app has of each secret what its source, or the user, or the stored output
\* says, and of a template what its parts have.
Agreed ==
    \A s \in Secrets :
        CASE Kind[s] = "bound" -> copy[s] = IF user = Empty THEN None ELSE user
          [] Kind[s] = "token" -> src[s] # {} /\ copy[s] = Least(src[s]).val
          [] Kind[s] = "generated" -> copy[s] = IF out = Empty THEN None ELSE out
          [] OTHER -> copy[s] = IF \E p \in Parts[s] : copy[p] = None THEN None
                                ELSE [p \in Parts[s] |-> copy[p]]

\* However passes, pods, the cache and the user come in each other's way, in the
\* end the app has the secrets it should have, and the template agrees with them.
SecretsSettle == <>[]Agreed

\* A random value that was handed to the app is not replaced by another one while
\* nobody removes its source.
DeliveredValueKept ==
    [][\A s \in Made : Kind[s] = "token" /\ ~edited /\ copy[s] # None => copy'[s] = copy[s]]_vars

\* In the end the output is that of the job's last generation.
OutputIsNewest == <>[](out = gen)
=============================================================================

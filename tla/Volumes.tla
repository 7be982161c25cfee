------------------------------ MODULE Volumes ------------------------------
(***************************************************************************)
(* The volume of each app in a project: the claim that toPVCs renders       *)
(* (controller/appdefinition/volume.go), the persistent volume Kubernetes   *)
(* provisions or binds for it, MarkAndSave (controller/pvc), which puts the *)
(* volume under the public name of the claim and lets it outlive the claim, *)
(* and ReleaseVolume (volume_bind.go), which frees it for the next one.     *)
(*                                                                          *)
(* An app has one volume, whose public name is that of the app, or is bound *)
(* to the volume with the public name of another app.  Each incarnation of  *)
(* an app has a namespace of its own, so a claim is known by app and        *)
(* incarnation.                                                             *)
(***************************************************************************)
EXTENDS Naturals, FiniteSets

CONSTANTS
    Apps,
    None,       \* nothing
    BoundTo,    \* of each app: the app whose volume it asks for, or None
    MaxLives,   \* bound: incarnations of each app
    MaxVolumes, \* bound: volumes at a time
    MaxRemovals \* bound: volumes the user removes

ASSUME VolumesAssumption ==
    /\ BoundTo \in [Apps -> Apps \cup {None}]
    /\ None \notin Apps
    /\ MaxLives \in [Apps -> Nat]
    /\ {MaxVolumes, MaxRemovals} \subseteq Nat

Lives(a) == 1..MaxLives[a]
Claims == UNION {{a} \X Lives(a) : a \in Apps}
Vols == 1..MaxVolumes

ClaimNames == {"volume", "bind"}
ClaimRecords == [vol : Vols \cup {None}, pub : Apps, del : BOOLEAN]
VolumeRecords == [phase : {"bound", "released", "available"}, ref : Claims \cup {None},
                  owner : Apps \cup {None}, name : ClaimNames \cup {None},
                  pub : Apps \cup {None}, retain : BOOLEAN, del : BOOLEAN]

ASSUME NoneAssumption == None \notin Claims \cup ClaimRecords \cup VolumeRecords

VARIABLES
    app,     \* of each app: its incarnation, None if it is not there
    claim,   \* the claims, [vol, pub, del]: the volume they name, public name, being deleted
    pv,      \* the volumes, [phase, ref, owner, name, pub, retain, del]
    plan,    \* of each app: the claim a pass has rendered and not applied
    mark,    \* what MarkAndSave has read, and not written
    lives,   \* of each app: incarnations so far
    removals

vars == <<app, claim, pv, plan, mark, lives, removals>>
bounds == <<lives, removals>>

Existing == {p \in Vols : pv[p] # None}
Named(pub) == {p \in Existing : pv[p].pub = pub}

\* Volumes that somebody knows by name, there or not.
Mentioned ==
    {claim[c].vol : c \in {d \in Claims : claim[d] # None}}
    \cup {plan[a].vol : a \in {b \in Apps : plan[b] # None}}
    \cup (IF mark = None THEN {} ELSE {mark.vol})

Unused == Vols \ (Existing \cup Mentioned)

\* The claim of an app that is bound to another volume has another name.
ClaimName(a) == IF BoundTo[a] = None THEN "volume" ELSE "bind"
\* The claim is in the namespace of the app that is there.
Current(c) == app[c[1]] = c[2]

ClaimOf(a) == claim[<<a, app[a]>>]

-----------------------------------------------------------------------------
(* Kubernetes *)

\* A claim that names no volume is given a new one, which is deleted with it.
Provision(c, p) ==
    /\ claim[c] # None /\ claim[c].vol = None /\ ~claim[c].del
    /\ p \in Unused /\ \A q \in Unused : p <= q
    /\ pv' = [pv EXCEPT ![p] = [phase |-> "bound", ref |-> c, owner |-> None, name |-> None,
                                pub |-> None, retain |-> FALSE, del |-> FALSE]]
    /\ claim' = [claim EXCEPT ![c].vol = p]
    /\ UNCHANGED <<app, plan, mark, bounds>>

Bind(c) ==
    /\ claim[c] # None /\ ~claim[c].del
    /\ claim[c].vol \in Existing
    /\ pv[claim[c].vol].phase = "available" /\ ~pv[claim[c].vol].del
    /\ pv' = [pv EXCEPT ![claim[c].vol].phase = "bound", ![claim[c].vol].ref = c]
    /\ UNCHANGED <<app, claim, plan, mark, bounds>>

\* The pods are gone, the claim goes; its volume is released or deleted.
ClaimGoes(c) ==
    /\ claim[c] # None /\ claim[c].del
    /\ claim' = [claim EXCEPT ![c] = None]
    /\ pv' = [p \in Vols |->
                IF pv[p] = None \/ pv[p].phase # "bound" THEN pv[p]
                ELSE IF pv[p].ref # c THEN pv[p]
                ELSE IF pv[p].retain THEN [pv[p] EXCEPT !.phase = "released", !.ref = None]
                ELSE None]
    /\ UNCHANGED <<app, plan, mark, bounds>>

VolumeGoes(p) ==
    /\ p \in Existing /\ pv[p].del /\ pv[p].phase # "bound"
    /\ pv' = [pv EXCEPT ![p] = None]
    /\ UNCHANGED <<app, claim, plan, mark, bounds>>

\* The namespace of an app that is gone is deleted (DeleteOrphaned).
NamespaceGoes(c) ==
    /\ claim[c] # None /\ ~claim[c].del
    /\ ~Current(c)
    /\ claim' = [claim EXCEPT ![c].del = TRUE]
    /\ UNCHANGED <<app, pv, plan, mark, bounds>>

-----------------------------------------------------------------------------
(* The pass over an app *)

\* isPVAvailable.
Available(p, a) == pv[p].phase \in {"available", "released"} \/ pv[p].owner = a

\* Mutant: that the volume is gone is not noticed.
UsableByName(c) == c # None

\* The volume the claim names, as long as it is there and stays.
Usable(c) == c # None /\ (c.vol = None \/ (c.vol \in Existing /\ ~pv[c.vol].del))

\* lookupExistingPV: the volume the claim of app a has, or the one with its public
\* name.  No value stands for an error.
LookupExistingPV(a) ==
    IF Usable(ClaimOf(a)) THEN {ClaimOf(a).vol}
    ELSE IF Named(a) = {} THEN {None}
    ELSE {p \in Named(a) : Named(a) = {p} /\ Available(p, a)}

GetPVForVolumeBinding(a) ==
    LET found == Named(BoundTo[a]) IN {p \in found : found = {p} /\ Available(p, a)}

PublicName(a) == IF BoundTo[a] = None THEN a ELSE BoundTo[a]

\* No other volume has the public name.
NameIsFree(pub, vol) == Named(pub) \subseteq {vol}

\* toPVCs.  A claim whose volume is gone is deleted on the way; a pass that finds
\* its claim in order changes nothing.
RenderPVC(a) ==
    LET vols == IF BoundTo[a] = None THEN LookupExistingPV(a) ELSE GetPVForVolumeBinding(a)
    IN  /\ app[a] # None /\ plan[a] = None
        /\ ~(Usable(ClaimOf(a)) /\ ~ClaimOf(a).del)
        /\ plan' = [plan EXCEPT ![a] =
             IF \E v \in vols : NameIsFree(PublicName(a), v)
             THEN [life |-> app[a], vol |-> CHOOSE v \in vols : TRUE, pub |-> PublicName(a)]
             ELSE None]
        /\ claim' = IF BoundTo[a] = None /\ ClaimOf(a) # None /\ ~Usable(ClaimOf(a))
                    THEN [claim EXCEPT ![<<a, app[a]>>].del = TRUE] ELSE claim
        /\ <<plan', claim'>> # <<plan, claim>>
        /\ UNCHANGED <<app, pv, mark, bounds>>

\* A claim that is there keeps the volume it names; in the namespace of an earlier
\* incarnation nothing is created.
ApplyPVC(a) ==
    LET c == <<a, plan[a].life>>
    IN  /\ plan[a] # None
        /\ claim' = IF claim[c] = None /\ Current(c)
                    THEN [claim EXCEPT ![c] = [vol |-> plan[a].vol, pub |-> plan[a].pub, del |-> FALSE]]
                    ELSE claim
        /\ plan' = [plan EXCEPT ![a] = None]
        /\ UNCHANGED <<app, pv, mark, bounds>>

-----------------------------------------------------------------------------
(* MarkAndSave *)

\* Mutant: the volume is labelled, and goes with its claim.
MarkedUnsaved(v, c) == [v EXCEPT !.owner = c[1], !.pub = mark.pub, !.name = mark.name]

\* Labels of the claim, and the policy to retain the volume.
Marked(v, c) == [v EXCEPT !.owner = c[1], !.pub = mark.pub, !.name = mark.name, !.retain = TRUE]

\* It is not called for a claim that is being deleted.
StartMark(c) ==
    LET name == IF claim[c].pub = c[1] THEN "volume" ELSE "bind"
    IN  /\ mark = None
        /\ claim[c] # None /\ ~claim[c].del
        /\ claim[c].vol \in Existing
        /\ LET v == pv[claim[c].vol]
           IN  /\ <<v.owner, v.pub, v.name, v.retain>> # <<c[1], claim[c].pub, name, TRUE>>
               /\ mark' = [claim |-> c, vol |-> claim[c].vol, read |-> v,
                           pub |-> claim[c].pub, name |-> name]
        /\ UNCHANGED <<app, claim, pv, plan, bounds>>

\* The update is refused if the volume is not the one that was read.
SaveMark ==
    /\ mark # None
    /\ pv' = IF pv[mark.vol] = mark.read
             THEN [pv EXCEPT ![mark.vol] = Marked(@, mark.claim)] ELSE pv
    /\ mark' = None
    /\ UNCHANGED <<app, claim, plan, bounds>>

-----------------------------------------------------------------------------
(* ReleaseVolume *)

\* Mutant: that the volume is still in use is not looked at.
FreedAny(p) == TRUE

Freed(p) == pv[p].phase = "released"

\* The claim the volume is labelled with waits for it.
Awaited(p) ==
    /\ pv[p].owner \in Apps
    /\ app[pv[p].owner] # None
    /\ ClaimName(pv[p].owner) = pv[p].name
    /\ ClaimOf(pv[p].owner) # None
    /\ ~ClaimOf(pv[p].owner).del
    /\ ClaimOf(pv[p].owner).vol = p

ReleaseVolume(p) ==
    /\ p \in Existing /\ Freed(p) /\ Awaited(p)
    /\ pv' = [pv EXCEPT ![p].phase = "available", ![p].ref = None]
    /\ UNCHANGED <<app, claim, plan, mark, bounds>>

-----------------------------------------------------------------------------
(* The user *)

CreateApp(a) ==
    /\ app[a] = None
    /\ lives[a] < MaxLives[a]
    /\ lives' = [lives EXCEPT ![a] = @ + 1]
    /\ app' = [app EXCEPT ![a] = lives'[a]]
    /\ UNCHANGED <<claim, pv, plan, mark, removals>>

DeleteApp(a) ==
    /\ app[a] # None
    /\ app' = [app EXCEPT ![a] = None]
    /\ UNCHANGED <<claim, pv, plan, mark, bounds>>

DeleteVolume(p) ==
    /\ p \in Existing /\ pv[p].pub # None /\ ~pv[p].del
    /\ removals < MaxRemovals /\ removals' = removals + 1
    /\ pv' = [pv EXCEPT ![p].del = TRUE]
    /\ UNCHANGED <<app, claim, plan, mark, lives>>

-----------------------------------------------------------------------------
Init ==
    /\ app = [a \in Apps |-> None]
    /\ claim = [c \in Claims |-> None]
    /\ pv = [p \in Vols |-> None]
    /\ plan = [a \in Apps |-> None]
    /\ mark = None
    /\ lives = [a \in Apps |-> 0]
    /\ removals = 0

ClaimStep(c) ==
    \/ \E p \in Vols : Provision(c, p)
    \/ Bind(c) \/ ClaimGoes(c) \/ NamespaceGoes(c)

MarkSome(a) == \E l \in Lives(a) : StartMark(<<a, l>>)

Next ==
    \/ \E c \in Claims : ClaimStep(c)
    \/ SaveMark
    \/ \E p \in Vols : VolumeGoes(p) \/ ReleaseVolume(p) \/ DeleteVolume(p)
    \/ \E a \in Apps : RenderPVC(a) \/ ApplyPVC(a) \/ MarkSome(a)
    \/ \E a \in Apps : CreateApp(a) \/ DeleteApp(a)

Spec == Init /\ [][Next]_vars

\* Kubernetes goes on, and the handlers come back to what changed; the queue of
\* claims serves each of them, though two of them may mark one volume in turn.
FairSpec ==
    /\ Spec
    /\ \A c \in Claims : WF_vars(ClaimStep(c))
    /\ \A p \in Vols : WF_vars(VolumeGoes(p) \/ ReleaseVolume(p))
    /\ \A a \in Apps : WF_vars(RenderPVC(a) \/ ApplyPVC(a)) /\ SF_vars(MarkSome(a))
    /\ WF_vars(SaveMark)

-----------------------------------------------------------------------------
(* Properties *)

PlanRecords == [life : Nat, vol : Vols \cup {None}, pub : Apps]
MarkRecords == [claim : Claims, vol : Vols, read : VolumeRecords, pub : Apps,
                name : ClaimNames]

\* Types; a volume with a public name outlives its claim, and only a bound one has
\* a claim.
TypeOK ==
    /\ app \in [Apps -> Nat \cup {None}]
    /\ \A a \in Apps : app[a] \in Lives(a) \cup {None}
    /\ claim \in [Claims -> ClaimRecords \cup {None}]
    /\ pv \in [Vols -> VolumeRecords \cup {None}]
    /\ \A p \in Existing : /\ (pv[p].phase = "bound") = (pv[p].ref # None)
                           /\ pv[p].pub # None => pv[p].retain
    /\ plan \in [Apps -> PlanRecords \cup {None}]
    /\ \A a \in Apps : plan[a] # None => plan[a].life \in Lives(a)
    /\ mark \in MarkRecords \cup {None}
    /\ lives \in [Apps -> Nat] /\ \A a \in Apps : lives[a] <= MaxLives[a]
    /\ removals \in 0..MaxRemovals

\* A volume that has got its public name is deleted by the user only: it outlives
\* the app, whoever is bound to it.
NamedVolumesStay ==
    [][\A p \in Existing : pv[p].pub # None /\ ~pv[p].del => pv'[p] # None]_vars

\* ReleaseVolume and the others take no volume away from a claim that is bound to it and not deleted.
NotTakenAway ==
    [][\A p \in Existing : pv[p].phase = "bound" /\ ~claim[pv[p].ref].del
          => pv'[p] # None /\ pv'[p].ref = pv[p].ref]_vars

\* One volume per public name.
NamesAreUnique == \A a \in Apps : Cardinality(Named(a)) <= 1

Has(a, p) == pv[p].ref = <<a, app[a]>> /\ ~pv[p].del /\ pv[p].pub = a
HeldByOther(a, p) == pv[p].ref # None /\ pv[p].ref[1] # a /\ Current(pv[p].ref)

\* An app that asks for no other volume ends up with the one of its name, old or
\* new, unless another app holds that one: deleted and created again, with the
\* volume removed under it or with a claim left over, it is never stuck.
VolumesSettle ==
    <>[](\A a \in Apps : app[a] # None /\ BoundTo[a] = None
            => \/ \E p \in Existing : Has(a, p)
               \/ \E p \in Named(a) : HeldByOther(a, p))
=============================================================================

--------------------------- MODULE VolumesProofs ---------------------------
(***************************************************************************)
(* Proofs about Volumes, for any apps, bindings and bounds: the volumes are *)
(* typed and marked in one write, named volumes are not lost, and no volume *)
(* is taken from a claim that has it.                                       *)
(***************************************************************************)
EXTENDS Volumes, TLAPS

\* A claim is an app and one of its incarnations.
LEMMA ClaimParts ==
    ASSUME NEW c \in Claims
    PROVE  c[1] \in Apps /\ c[2] \in Lives(c[1]) /\ c = <<c[1], c[2]>>
  BY DEF Claims

LEMMA ClaimOfLife ==
    ASSUME NEW a \in Apps, NEW l \in Lives(a)
    PROVE  <<a, l>> \in Claims
  BY DEF Claims

\* A single volume is as TypeOK wants it.
Sound(v) ==
    v # None => /\ v \in VolumeRecords
                /\ (v.phase = "bound") = (v.ref # None)
                /\ v.pub # None => v.retain

LEMMA AllSound ==
    TypeOK => \A p \in Vols : Sound(pv[p])
  BY DEF TypeOK, Sound, Existing

\* An action that leaves every volume sound keeps the volumes' part of TypeOK.
LEMMA SoundIsTyped ==
    ASSUME DOMAIN pv' = Vols, pv' = [p \in Vols |-> pv'[p]], \A p \in Vols : Sound(pv'[p])
    PROVE  /\ pv' \in [Vols -> VolumeRecords \cup {None}]
           /\ \A p \in Existing' : /\ (pv'[p].phase = "bound") = (pv'[p].ref # None)
                                   /\ pv'[p].pub # None => pv'[p].retain
  BY DEF Sound, Existing

-----------------------------------------------------------------------------
(* Kubernetes *)

LEMMA ProvisionTyped ==
    ASSUME TypeOK, NEW c \in Claims, NEW p \in Vols, Provision(c, p) PROVE TypeOK'
<1> DEFINE v == [phase |-> "bound", ref |-> c, owner |-> None, name |-> None,
                 pub |-> None, retain |-> FALSE, del |-> FALSE]
<1>1. v \in VolumeRecords /\ Sound(v)
  BY NoneAssumption DEF VolumeRecords, Sound
<1>2. claim' \in [Claims -> ClaimRecords \cup {None}]
  <2>1. [claim[c] EXCEPT !.vol = p] \in ClaimRecords
    BY DEF TypeOK, Provision, ClaimRecords
  <2> QED BY <2>1 DEF TypeOK, Provision
<1>3. pv' = [pv EXCEPT ![p] = v]
  BY DEF Provision
<1> HIDE DEF v
<1>4. DOMAIN pv' = Vols /\ pv' = [q \in Vols |-> pv'[q]] /\ \A q \in Vols : Sound(pv'[q])
  BY <1>1, <1>3, AllSound DEF TypeOK
<1> QED BY <1>2, <1>4, SoundIsTyped DEF TypeOK, Provision, bounds

LEMMA BindTyped ==
    ASSUME TypeOK, NEW c \in Claims, Bind(c) PROVE TypeOK'
<1> DEFINE q == claim[c].vol
           v == [pv[q] EXCEPT !.phase = "bound", !.ref = c]
<1>1. q \in Vols /\ pv[q] # None /\ pv[q] \in VolumeRecords
  BY DEF Bind, Existing, TypeOK
<1>2. v \in VolumeRecords /\ v.phase = "bound" /\ v.ref = c /\ v.pub = pv[q].pub
      /\ v.retain = pv[q].retain
  BY <1>1 DEF VolumeRecords
<1>3. Sound(v)
  BY <1>1, <1>2, AllSound, NoneAssumption DEF Sound
<1>4. pv' = [pv EXCEPT ![q] = v]
  BY <1>1 DEF Bind, TypeOK
<1> HIDE DEF v
<1>5. DOMAIN pv' = Vols /\ pv' = [p \in Vols |-> pv'[p]] /\ \A p \in Vols : Sound(pv'[p])
  BY <1>3, <1>4, AllSound DEF TypeOK
<1> QED BY <1>5, SoundIsTyped DEF TypeOK, Bind, bounds

LEMMA ClaimGoesTyped ==
    ASSUME TypeOK, NEW c \in Claims, ClaimGoes(c) PROVE TypeOK'
<1>1. ASSUME NEW p \in Vols PROVE Sound(pv'[p])
  <2>1. CASE pv'[p] = pv[p] BY <2>1, AllSound
  <2>2. CASE pv'[p] = None BY <2>2 DEF Sound
  <2>3. CASE /\ pv'[p] = [pv[p] EXCEPT !.phase = "released", !.ref = None]
             /\ pv[p] # None
    <3>1. pv[p] \in VolumeRecords /\ Sound(pv[p]) BY <2>3, AllSound DEF Sound
    <3>2. /\ pv'[p] \in VolumeRecords /\ pv'[p].phase = "released" /\ pv'[p].ref = None
          /\ pv'[p].pub = pv[p].pub /\ pv'[p].retain = pv[p].retain
      BY <2>3, <3>1 DEF VolumeRecords
    <3> QED BY <2>3, <3>1, <3>2 DEF Sound
  <2> QED BY <2>1, <2>2, <2>3 DEF ClaimGoes
<1>2. DOMAIN pv' = Vols /\ pv' = [p \in Vols |-> pv'[p]]
  BY DEF ClaimGoes
<1>3. claim' \in [Claims -> ClaimRecords \cup {None}]
  BY DEF TypeOK, ClaimGoes
<1> QED BY <1>1, <1>2, <1>3, SoundIsTyped DEF TypeOK, ClaimGoes, bounds

LEMMA VolumeGoesTyped ==
    ASSUME TypeOK, NEW p \in Vols, VolumeGoes(p) PROVE TypeOK'
<1>1. DOMAIN pv' = Vols /\ pv' = [q \in Vols |-> pv'[q]] /\ \A q \in Vols : Sound(pv'[q])
  BY AllSound DEF TypeOK, VolumeGoes, Sound
<1> QED BY <1>1, SoundIsTyped DEF TypeOK, VolumeGoes, bounds

LEMMA NamespaceGoesTyped ==
    ASSUME TypeOK, NEW c \in Claims, NamespaceGoes(c) PROVE TypeOK'
<1>1. [claim[c] EXCEPT !.del = TRUE] \in ClaimRecords
  BY DEF TypeOK, NamespaceGoes, ClaimRecords
<1> QED BY <1>1 DEF TypeOK, NamespaceGoes, bounds, Existing

-----------------------------------------------------------------------------
(* The pass over an app, MarkAndSave and ReleaseVolume *)

LEMMA RenderTyped ==
    ASSUME TypeOK, NEW a \in Apps, RenderPVC(a) PROVE TypeOK'
<1> DEFINE vols == IF BoundTo[a] = None THEN LookupExistingPV(a) ELSE GetPVForVolumeBinding(a)
<1>1. app[a] \in Lives(a) /\ app[a] \in Nat /\ <<a, app[a]>> \in Claims
  BY ClaimOfLife DEF TypeOK, RenderPVC
<1>2. PublicName(a) \in Apps
  BY VolumesAssumption DEF PublicName
<1>3. vols \subseteq Vols \cup {None}
  <2>1. ClaimOf(a) # None => ClaimOf(a).vol \in Vols \cup {None}
    BY <1>1 DEF TypeOK, ClaimOf, ClaimRecords
  <2>2. LookupExistingPV(a) \subseteq Vols \cup {None}
    BY <2>1 DEF LookupExistingPV, Usable, Named, Existing
  <2>3. GetPVForVolumeBinding(a) \subseteq Vols
    BY DEF GetPVForVolumeBinding, Named, Existing
  <2> QED BY <2>2, <2>3
<1>4. plan' \in [Apps -> PlanRecords \cup {None}]
      /\ \A b \in Apps : plan'[b] # None => plan'[b].life \in Lives(b)
  <2>1. CASE \E v \in vols : NameIsFree(PublicName(a), v)
    <3> DEFINE w == CHOOSE v \in vols : TRUE
               r == [life |-> app[a], vol |-> w, pub |-> PublicName(a)]
    <3>1. w \in vols BY <2>1
    <3> HIDE DEF w
    <3>2. r \in PlanRecords /\ r.life \in Lives(a)
      BY <1>1, <1>2, <1>3, <3>1 DEF PlanRecords
    <3>3. plan' = [plan EXCEPT ![a] = r]
      BY <2>1 DEF RenderPVC, w
    <3> HIDE DEF r
    <3> QED BY <3>2, <3>3 DEF TypeOK
  <2>2. CASE ~\E v \in vols : NameIsFree(PublicName(a), v)
    <3>1. plan' = [plan EXCEPT ![a] = None]
      BY <2>2 DEF RenderPVC
    <3> QED BY <3>1 DEF TypeOK
  <2> QED BY <2>1, <2>2
<1>5. claim' \in [Claims -> ClaimRecords \cup {None}]
  <2>1. claim[<<a, app[a]>>] # None => [claim[<<a, app[a]>>] EXCEPT !.del = TRUE] \in ClaimRecords
    BY <1>1 DEF TypeOK, ClaimRecords
  <2>2. claim' = claim \/ (ClaimOf(a) # None /\ claim' = [claim EXCEPT ![<<a, app[a]>>].del = TRUE])
    BY DEF RenderPVC
  <2> QED BY <1>1, <2>1, <2>2 DEF TypeOK, ClaimOf
<1> QED BY <1>4, <1>5 DEF TypeOK, RenderPVC, bounds, Existing

LEMMA ApplyTyped ==
    ASSUME TypeOK, NEW a \in Apps, ApplyPVC(a) PROVE TypeOK'
<1>1. plan[a] \in PlanRecords /\ plan[a].life \in Lives(a)
  BY DEF TypeOK, ApplyPVC
<1>2. [vol |-> plan[a].vol, pub |-> plan[a].pub, del |-> FALSE] \in ClaimRecords
  BY <1>1 DEF PlanRecords, ClaimRecords
<1>3. claim' \in [Claims -> ClaimRecords \cup {None}]
  BY <1>2 DEF TypeOK, ApplyPVC
<1> QED BY <1>3 DEF TypeOK, ApplyPVC, bounds, Existing

LEMMA StartMarkTyped ==
    ASSUME TypeOK, NEW c \in Claims, StartMark(c) PROVE TypeOK'
<1> DEFINE name == IF claim[c].pub = c[1] THEN "volume" ELSE "bind"
<1>1. /\ claim[c] \in ClaimRecords
      /\ claim[c].vol \in Vols /\ pv[claim[c].vol] \in VolumeRecords
  BY DEF TypeOK, StartMark, Existing
<1>2. name \in ClaimNames BY DEF ClaimNames
<1>3. mark' = [claim |-> c, vol |-> claim[c].vol, read |-> pv[claim[c].vol],
               pub |-> claim[c].pub, name |-> name]
  BY DEF StartMark
<1> HIDE DEF name
<1>4. mark' \in MarkRecords
  BY <1>1, <1>2, <1>3 DEF MarkRecords, ClaimRecords
<1> QED BY <1>4 DEF TypeOK, StartMark, bounds, Existing

\* The label and the policy to retain the volume are one write.
LEMMA MarkedSound ==
    ASSUME TypeOK, mark # None, NEW v \in VolumeRecords, Sound(v), v # None
    PROVE  /\ Marked(v, mark.claim) \in VolumeRecords
           /\ Sound(Marked(v, mark.claim))
           /\ Marked(v, mark.claim).phase = v.phase
           /\ Marked(v, mark.claim).ref = v.ref
<1>1. mark.claim[1] \in Apps /\ mark.pub \in Apps /\ mark.name \in ClaimNames
  BY ClaimParts DEF TypeOK, MarkRecords
<1>2. /\ Marked(v, mark.claim) \in VolumeRecords
      /\ Marked(v, mark.claim).phase = v.phase /\ Marked(v, mark.claim).ref = v.ref
      /\ Marked(v, mark.claim).retain = TRUE
  BY <1>1 DEF Marked, VolumeRecords
<1> QED BY <1>2 DEF Sound

LEMMA SaveMarkTyped ==
    ASSUME TypeOK, SaveMark PROVE TypeOK'
<1>1. mark # None /\ mark.vol \in Vols /\ mark.read \in VolumeRecords
  BY DEF TypeOK, SaveMark, MarkRecords
<1>2. \A p \in Vols : Sound(pv[p])
  BY AllSound
<1>3. CASE pv[mark.vol] = mark.read
  <2> DEFINE v == Marked(mark.read, mark.claim)
  <2>1. Sound(v)
    BY <1>1, <1>2, <1>3, MarkedSound, NoneAssumption
  <2>2. pv' = [pv EXCEPT ![mark.vol] = v]
    BY <1>1, <1>3 DEF SaveMark, TypeOK
  <2> HIDE DEF v
  <2>3. DOMAIN pv' = Vols /\ pv' = [p \in Vols |-> pv'[p]] /\ \A p \in Vols : Sound(pv'[p])
    BY <1>2, <2>1, <2>2 DEF TypeOK
  <2> QED BY <2>3, SoundIsTyped DEF TypeOK, SaveMark, bounds
<1>4. CASE pv[mark.vol] # mark.read
  BY <1>4 DEF TypeOK, SaveMark, bounds, Existing
<1> QED BY <1>3, <1>4

LEMMA ReleaseTyped ==
    ASSUME TypeOK, NEW p \in Vols, ReleaseVolume(p) PROVE TypeOK'
<1> DEFINE v == [pv[p] EXCEPT !.phase = "available", !.ref = None]
<1>1. pv[p] # None /\ pv[p] \in VolumeRecords /\ Sound(pv[p])
  BY AllSound DEF ReleaseVolume, Existing, TypeOK
<1>2. v \in VolumeRecords /\ v.phase = "available" /\ v.ref = None /\ v.pub = pv[p].pub
      /\ v.retain = pv[p].retain
  BY <1>1 DEF VolumeRecords
<1>3. Sound(v)
  BY <1>1, <1>2 DEF Sound
<1>4. pv' = [pv EXCEPT ![p] = v]
  BY DEF ReleaseVolume, TypeOK
<1> HIDE DEF v
<1>5. DOMAIN pv' = Vols /\ pv' = [q \in Vols |-> pv'[q]] /\ \A q \in Vols : Sound(pv'[q])
  BY <1>3, <1>4, AllSound DEF TypeOK
<1> QED BY <1>5, SoundIsTyped DEF TypeOK, ReleaseVolume, bounds

-----------------------------------------------------------------------------
(* The user *)

LEMMA CreateAppTyped ==
    ASSUME TypeOK, NEW a \in Apps, CreateApp(a) PROVE TypeOK'
<1>1. MaxLives[a] \in Nat BY VolumesAssumption
<1>2. lives[a] \in Nat /\ lives[a] < MaxLives[a] /\ lives'[a] = lives[a] + 1
  BY DEF TypeOK, CreateApp
<1>3. lives'[a] \in Lives(a) /\ lives'[a] \in Nat /\ lives'[a] <= MaxLives[a]
  BY <1>1, <1>2 DEF Lives
<1>4. lives' \in [Apps -> Nat] /\ \A b \in Apps : lives'[b] <= MaxLives[b]
  BY <1>2, <1>3 DEF TypeOK, CreateApp
<1>5. app' \in [Apps -> Nat \cup {None}] /\ \A b \in Apps : app'[b] \in Lives(b) \cup {None}
  BY <1>3 DEF TypeOK, CreateApp
<1> QED BY <1>4, <1>5 DEF TypeOK, CreateApp, Existing

LEMMA DeleteAppTyped ==
    ASSUME TypeOK, NEW a \in Apps, DeleteApp(a) PROVE TypeOK'
  BY DEF TypeOK, DeleteApp, bounds, Existing

LEMMA DeleteVolumeTyped ==
    ASSUME TypeOK, NEW p \in Vols, DeleteVolume(p) PROVE TypeOK'
<1> DEFINE v == [pv[p] EXCEPT !.del = TRUE]
<1>1. pv[p] # None /\ pv[p] \in VolumeRecords /\ Sound(pv[p])
  BY AllSound DEF DeleteVolume, Existing, TypeOK
<1>2. v \in VolumeRecords /\ v.phase = pv[p].phase /\ v.ref = pv[p].ref /\ v.pub = pv[p].pub
      /\ v.retain = pv[p].retain
  BY <1>1 DEF VolumeRecords
<1>3. Sound(v)
  BY <1>1, <1>2 DEF Sound
<1>4. pv' = [pv EXCEPT ![p] = v]
  BY DEF DeleteVolume, TypeOK
<1> HIDE DEF v
<1>5. DOMAIN pv' = Vols /\ pv' = [q \in Vols |-> pv'[q]] /\ \A q \in Vols : Sound(pv'[q])
  BY <1>3, <1>4, AllSound DEF TypeOK
<1>6. removals' \in 0..MaxRemovals
  BY VolumesAssumption DEF TypeOK, DeleteVolume
<1> QED BY <1>5, <1>6, SoundIsTyped DEF TypeOK, DeleteVolume

-----------------------------------------------------------------------------
LEMMA InitTyped == ASSUME Init PROVE TypeOK
<1>1. /\ app \in [Apps -> Nat \cup {None}] /\ claim \in [Claims -> ClaimRecords \cup {None}]
      /\ pv \in [Vols -> VolumeRecords \cup {None}]
      /\ plan \in [Apps -> PlanRecords \cup {None}] /\ lives \in [Apps -> Nat]
  BY DEF Init
<1>2. \A a \in Apps : app[a] = None /\ plan[a] = None /\ lives[a] <= MaxLives[a]
  BY VolumesAssumption DEF Init
<1>3. Existing = {} BY DEF Init, Existing
<1>4. removals \in 0..MaxRemovals BY VolumesAssumption DEF Init
<1> QED BY <1>1, <1>2, <1>3, <1>4 DEF TypeOK, Init

LEMMA NextTyped == ASSUME TypeOK, [Next]_vars PROVE TypeOK'
<1>1. CASE UNCHANGED vars
  BY <1>1 DEF TypeOK, vars, Existing
<1>2. ASSUME NEW c \in Claims, ClaimStep(c) PROVE TypeOK'
  BY <1>2, ProvisionTyped, BindTyped, ClaimGoesTyped, NamespaceGoesTyped DEF ClaimStep
<1>3. CASE SaveMark BY <1>3, SaveMarkTyped
<1>4. ASSUME NEW p \in Vols, VolumeGoes(p) \/ ReleaseVolume(p) \/ DeleteVolume(p) PROVE TypeOK'
  BY <1>4, VolumeGoesTyped, ReleaseTyped, DeleteVolumeTyped
<1>5. ASSUME NEW a \in Apps, RenderPVC(a) \/ ApplyPVC(a) \/ MarkSome(a) PROVE TypeOK'
  BY <1>5, RenderTyped, ApplyTyped, StartMarkTyped, ClaimOfLife DEF MarkSome
<1>6. ASSUME NEW a \in Apps, CreateApp(a) \/ DeleteApp(a) PROVE TypeOK'
  BY <1>6, CreateAppTyped, DeleteAppTyped
<1> QED BY <1>1, <1>2, <1>3, <1>4, <1>5, <1>6 DEF Next

\* Every variable keeps its type, only a bound volume has a claim, and a volume
\* with a public name is one that outlives its claim (MarkAndSave).
THEOREM TypeCorrect == Spec => []TypeOK
<1>1. Init => TypeOK BY InitTyped
<1>2. TypeOK /\ [Next]_vars => TypeOK' BY NextTyped
<1> QED BY <1>1, <1>2, PTL DEF Spec

-----------------------------------------------------------------------------
(* What no step does to a volume *)

\* The volumes a step neither creates nor changes the claim of.
Kept(p) ==
    pv'[p] # None /\ pv'[p].phase = pv[p].phase /\ pv'[p].ref = pv[p].ref

LEMMA SaveMarkKeeps ==
    ASSUME TypeOK, SaveMark, NEW p \in Existing PROVE Kept(p)
<1>1. p \in Vols /\ pv[p] # None /\ pv[p] \in VolumeRecords /\ Sound(pv[p])
  BY AllSound DEF Existing, TypeOK
<1>2. mark # None /\ mark.vol \in Vols BY DEF TypeOK, SaveMark, MarkRecords
<1>3. pv'[p] = pv[p] \/ pv'[p] = Marked(pv[p], mark.claim)
  BY <1>1, <1>2 DEF SaveMark, TypeOK
<1>4. CASE pv'[p] = pv[p] BY <1>1, <1>4 DEF Kept
<1>5. CASE pv'[p] = Marked(pv[p], mark.claim)
  BY <1>1, <1>2, <1>5, MarkedSound, NoneAssumption DEF Kept
<1> QED BY <1>3, <1>4, <1>5

LEMMA DeleteVolumeKeeps ==
    ASSUME TypeOK, NEW q \in Vols, DeleteVolume(q), NEW p \in Existing PROVE Kept(p)
<1>1. p \in Vols /\ pv[p] # None /\ pv[p] \in VolumeRecords
  BY DEF Existing, TypeOK
<1>2. pv'[p] = pv[p] \/ pv'[p] = [pv[p] EXCEPT !.del = TRUE]
  BY <1>1 DEF DeleteVolume, TypeOK
<1>3. [pv[p] EXCEPT !.del = TRUE] \in VolumeRecords
  BY <1>1 DEF VolumeRecords
<1>4. [pv[p] EXCEPT !.del = TRUE].phase = pv[p].phase /\ [pv[p] EXCEPT !.del = TRUE].ref = pv[p].ref
  BY <1>1 DEF VolumeRecords
<1> QED BY <1>1, <1>2, <1>3, <1>4, NoneAssumption DEF Kept

LEMMA ProvisionKeeps ==
    ASSUME TypeOK, NEW c \in Claims, NEW q \in Vols, Provision(c, q), NEW p \in Existing
    PROVE  Kept(p)
<1>1. p \in Vols /\ p # q /\ pv[p] # None BY DEF Existing, Provision, Unused
<1> QED BY <1>1 DEF Kept, Provision, TypeOK

\* A volume is bound to a claim only when it is available, and freed only when it is
\* released.
LEMMA BindSteps ==
    ASSUME TypeOK, NEW c \in Claims, Bind(c), NEW p \in Existing
    PROVE  pv'[p] # None /\ (pv[p].phase = "bound" => Kept(p))
<1>1. p \in Vols /\ pv[p] # None /\ pv[p] \in VolumeRecords /\ claim[c].vol \in Vols
  BY DEF Existing, TypeOK, Bind
<1>2. CASE p # claim[c].vol
  BY <1>1, <1>2 DEF Bind, Kept, TypeOK
<1>3. CASE p = claim[c].vol
  <2>1. pv[p].phase # "bound" BY <1>3 DEF Bind
  <2>2. pv'[p] = [pv[p] EXCEPT !.phase = "bound", !.ref = c]
    BY <1>1, <1>3 DEF Bind, TypeOK
  <2>3. pv'[p] \in VolumeRecords BY <1>1, <2>2 DEF VolumeRecords
  <2> QED BY <2>1, <2>3, NoneAssumption
<1> QED BY <1>2, <1>3

LEMMA ReleaseSteps ==
    ASSUME TypeOK, NEW q \in Vols, ReleaseVolume(q), NEW p \in Existing
    PROVE  pv'[p] # None /\ (pv[p].phase = "bound" => Kept(p))
<1>1. p \in Vols /\ pv[p] # None /\ pv[p] \in VolumeRecords
  BY DEF Existing, TypeOK
<1>2. CASE p # q
  BY <1>1, <1>2 DEF ReleaseVolume, Kept, TypeOK
<1>3. CASE p = q
  <2>1. pv[p].phase # "bound" BY <1>3 DEF ReleaseVolume, Freed
  <2>2. pv'[p] = [pv[p] EXCEPT !.phase = "available", !.ref = None]
    BY <1>1, <1>3 DEF ReleaseVolume, TypeOK
  <2>3. pv'[p] \in VolumeRecords BY <1>1, <2>2 DEF VolumeRecords
  <2> QED BY <2>1, <2>3, NoneAssumption
<1> QED BY <1>2, <1>3

\* A claim that goes releases the volume it is bound to, or takes it along if nobody
\* asked to retain it.
LEMMA ClaimGoesSteps ==
    ASSUME TypeOK, NEW c \in Claims, ClaimGoes(c), NEW p \in Existing
    PROVE  /\ claim[c].del
           /\ pv[p].retain => pv'[p] # None
           /\ pv[p].ref # c => Kept(p)
<1>1. p \in Vols /\ pv[p] # None /\ pv[p] \in VolumeRecords
  BY DEF Existing, TypeOK
<1>2. [pv[p] EXCEPT !.phase = "released", !.ref = None] \in VolumeRecords
  BY <1>1 DEF VolumeRecords
<1>3. pv[p].retain => pv'[p] # None
  BY <1>1, <1>2, NoneAssumption DEF ClaimGoes
<1>4. pv[p].ref # c => pv'[p] = pv[p]
  BY <1>1 DEF ClaimGoes
<1> QED BY <1>1, <1>3, <1>4 DEF ClaimGoes, Kept

\* What the property below says of one step and one volume.
Stays(p) == pv[p].pub # None /\ ~pv[p].del => pv'[p] # None
StaysWithClaim(p) ==
    pv[p].phase = "bound" /\ ~claim[pv[p].ref].del => pv'[p] # None /\ pv'[p].ref = pv[p].ref

LEMMA StepsKeep ==
    ASSUME TypeOK, [Next]_vars, NEW p \in Existing PROVE Stays(p) /\ StaysWithClaim(p)
<1>0. p \in Vols /\ pv[p] # None /\ Sound(pv[p])
  BY AllSound DEF Existing
<1>1. ASSUME Kept(p) PROVE Stays(p) /\ StaysWithClaim(p)
  BY <1>1 DEF Kept, Stays, StaysWithClaim
<1>2. ASSUME pv' = pv PROVE Stays(p) /\ StaysWithClaim(p)
  BY <1>0, <1>2 DEF Stays, StaysWithClaim
<1>3. ASSUME NEW c \in Claims, ClaimStep(c) PROVE Stays(p) /\ StaysWithClaim(p)
  <2>1. CASE \E q \in Vols : Provision(c, q) BY <1>1, <2>1, ProvisionKeeps
  <2>2. CASE Bind(c) BY <2>2, BindSteps DEF Kept, Stays, StaysWithClaim
  <2>3. CASE ClaimGoes(c)
    BY <1>0, <2>3, ClaimGoesSteps DEF Sound, Kept, Stays, StaysWithClaim
  <2>4. CASE NamespaceGoes(c) BY <1>2, <2>4 DEF NamespaceGoes
  <2> QED BY <1>3, <2>1, <2>2, <2>3, <2>4 DEF ClaimStep
<1>4. CASE SaveMark BY <1>1, <1>4, SaveMarkKeeps
<1>5. ASSUME NEW q \in Vols, VolumeGoes(q) \/ ReleaseVolume(q) \/ DeleteVolume(q)
      PROVE  Stays(p) /\ StaysWithClaim(p)
  <2>1. CASE VolumeGoes(q)
    BY <1>0, <2>1 DEF VolumeGoes, TypeOK, Stays, StaysWithClaim
  <2>2. CASE ReleaseVolume(q) BY <2>2, ReleaseSteps DEF Kept, Stays, StaysWithClaim
  <2>3. CASE DeleteVolume(q) BY <1>1, <2>3, DeleteVolumeKeeps
  <2> QED BY <1>5, <2>1, <2>2, <2>3
<1>6. ASSUME NEW a \in Apps, RenderPVC(a) \/ ApplyPVC(a) \/ MarkSome(a) PROVE pv' = pv
  BY <1>6 DEF RenderPVC, ApplyPVC, MarkSome, StartMark
<1>7. ASSUME NEW a \in Apps, CreateApp(a) \/ DeleteApp(a) PROVE pv' = pv
  BY <1>7 DEF CreateApp, DeleteApp
<1>8. CASE UNCHANGED vars BY <1>2, <1>8 DEF vars
<1> QED BY <1>2, <1>3, <1>4, <1>5, <1>6, <1>7, <1>8 DEF Next

\* A volume that has got its public name goes only when the user has deleted it: the
\* write of MarkAndSave that names it also retains it.
THEOREM NamedStay == Spec => NamedVolumesStay
<1>1. TypeOK /\ [Next]_vars
        => [\A p \in Existing : pv[p].pub # None /\ ~pv[p].del => pv'[p] # None]_vars
  BY StepsKeep DEF Stays
<1> QED BY <1>1, TypeCorrect, PTL DEF Spec, NamedVolumesStay

\* No step, of ReleaseVolume, of MarkAndSave from an old copy or of Kubernetes, takes
\* a volume from a claim that is bound to it and not being deleted.
THEOREM NoneTakenAway == Spec => NotTakenAway
<1>1. TypeOK /\ [Next]_vars
        => [\A p \in Existing : pv[p].phase = "bound" /\ ~claim[pv[p].ref].del
              => pv'[p] # None /\ pv'[p].ref = pv[p].ref]_vars
  BY StepsKeep DEF StaysWithClaim
<1> QED BY <1>1, TypeCorrect, PTL DEF Spec, NotTakenAway

=============================================================================

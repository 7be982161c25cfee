-------------------------------- MODULE Quota --------------------------------
(***************************************************************************)
(* The quota of one app.  In a project that enforces quota the controller   *)
(* keeps a QuotaRequest with what the app needs, and deploys the app only    *)
(* while the app's quota-allocated condition is a success.  The allocator    *)
(* that answers the QuotaRequest is not part of this program.               *)
(*                                                                          *)
(* A pass reads the app and the QuotaRequest from the controller's caches,   *)
(* runs the handlers, applies the QuotaRequest and the workloads in some     *)
(* order, and writes the condition.  The defaults and scheduling conditions  *)
(* that CheckStatus also asks for are taken to hold.                         *)
(***************************************************************************)
EXTENDS Naturals

CONSTANTS
    Demands,     \* what the app's spec can ask for
    Unparsable,  \* demands with a volume size that is not a quantity
    None,        \* nothing is deployed, no QuotaRequest, no pass
    MaxEdits,    \* bound: edits of the app
    MaxFaults    \* bound: refusals, allocator errors, lost passes, lifted quota

ASSUME QuotaAssumption ==
    /\ Demands \subseteq Nat /\ Unparsable \subseteq Demands
    /\ None \notin Nat
    /\ MaxEdits \in Nat /\ MaxFaults \in Nat

VARIABLES
    app,       \* the AppInstance: what it demands, its quota condition
    appSeen,   \* the controller's copy of it
    current,   \* whether that copy is the latest version
    request,   \* the QuotaRequest in the API server, or None
    reqSeen,   \* the controller's copy of it
    enforced,  \* the project's enforced-quota annotation
    view,      \* the app as the running pass has changed it, or None
    fresh,     \* whether the view has the latest resourceVersion
    todo,      \* what the running pass still has to apply
    deployed,  \* the demand of the workloads that are deployed, or None
    edits,     \* edits so far
    faults,    \* faults so far
    grants,    \* history: the demands that were ever granted
    lifted     \* history: whether the project ever did not enforce quota

stored == <<app, request>>
copies == <<appSeen, current, reqSeen>>
pass == <<view, todo>>
history == <<grants, lifted>>
vars == <<app, appSeen, current, request, reqSeen, enforced, view, fresh, todo,
          deployed, edits, faults, grants, lifted>>

AppRecords == [demand : Demands, cond : {"none", "waiting", "error", "success"}]
RequestRecords == [spec : Demands, allocated : Demands \cup {0},
                   failed : BOOLEAN, cond : {"none", "error", "success"}]

ASSUME NoneAssumption == None \notin AppRecords \cup RequestRecords

Init ==
    /\ app \in [demand : Demands \ Unparsable, cond : {"none"}]
    /\ appSeen = app /\ current = TRUE
    /\ request = None /\ reqSeen = None
    /\ enforced \in BOOLEAN
    /\ view = None /\ fresh = FALSE /\ todo = {}
    /\ deployed = None /\ edits = 0 /\ faults = 0
    /\ grants = {} /\ lifted = ~enforced

-----------------------------------------------------------------------------
(* The handlers, for an app a and the QuotaRequest r the cache shows.       *)

\* Mutant: FailedResources is not looked at.
WaitForAllocationIgnoresFailed(a, r) ==
    CASE ~enforced -> "success"
      [] enforced /\ r # None /\ r.cond = "error" -> "error"
      [] enforced /\ (r = None \/ (r.cond # "error" /\ r.spec # r.allocated))
         -> "waiting"
      [] enforced /\ r # None /\ r.cond = "success" /\ r.spec = r.allocated
         -> "success"
      [] OTHER -> a.cond

\* Mutant: resources that are equal count as allocated, also with no request.
WaitForAllocationEqualIsEnough(a, r) ==
    CASE ~enforced -> "success"
      [] enforced /\ r # None /\ (r.failed \/ r.cond = "error") -> "error"
      [] /\ enforced
         /\ r # None /\ ~r.failed /\ r.cond # "error" /\ r.spec # r.allocated
         -> "waiting"
      [] OTHER -> "success"

WaitForAllocation(a, r) ==
    CASE ~enforced -> "success"
      [] enforced /\ r # None /\ (r.failed \/ r.cond = "error") -> "error"
      [] /\ enforced
         /\ r = None \/ (~r.failed /\ r.cond # "error" /\ r.spec # r.allocated)
         -> "waiting"
      [] /\ enforced /\ r # None /\ r.spec = r.allocated
         /\ ~r.failed /\ r.cond = "success"
         -> "success"
      [] OTHER -> a.cond

\* Mutant: a QuotaRequest that exists is left as it is.
EnsureQuotaRequestOnce(d) ==
    IF request = None
    THEN [spec |-> d, allocated |-> 0, failed |-> FALSE, cond |-> "none"]
    ELSE request

\* The QuotaRequest the pass applies; what the allocator wrote is its status,
\* which an apply leaves alone.
EnsureQuotaRequest(d) ==
    IF request = None
    THEN [spec |-> d, allocated |-> 0, failed |-> FALSE, cond |-> "none"]
    ELSE [request EXCEPT !.spec = d]

-----------------------------------------------------------------------------
(* One pass of the controller.                                              *)

EndPass == view' = None /\ fresh' = FALSE /\ todo' = {}

\* CheckStatus lets the workloads through when the condition is a success, and
\* otherwise keeps everything that is already there.
HandleApp ==
    /\ view = None
    /\ ~(enforced /\ appSeen.demand \in Unparsable)
    /\ LET cond == WaitForAllocation(appSeen, reqSeen) IN
         /\ view' = [appSeen EXCEPT !.cond = cond]
         /\ todo' = (IF enforced THEN {"request"} ELSE {"prune"})
                    \cup (IF cond = "success" THEN {"workloads"} ELSE {})
    /\ fresh' = current
    /\ UNCHANGED <<stored, copies, enforced, deployed, edits, faults, history>>

\* addStorage fails: the condition says so, and nothing else comes of the pass.
HandleUnparsable ==
    /\ view = None /\ enforced /\ appSeen.demand \in Unparsable
    /\ view' = [appSeen EXCEPT !.cond = "error"]
    /\ fresh' = current
    /\ UNCHANGED <<stored, copies, enforced, todo, deployed, edits, faults,
                   history>>

ApplyRequest ==
    /\ "request" \in todo
    /\ todo' = todo \ {"request"}
    /\ request' = EnsureQuotaRequest(view.demand)
    /\ UNCHANGED <<app, copies, enforced, view, fresh, deployed, edits, faults,
                   history>>

PruneRequest ==
    /\ "prune" \in todo
    /\ todo' = todo \ {"prune"}
    /\ request' = None
    /\ UNCHANGED <<app, copies, enforced, view, fresh, deployed, edits, faults,
                   history>>

DeploySpec ==
    /\ "workloads" \in todo
    /\ todo' = todo \ {"workloads"}
    /\ deployed' = view.demand
    /\ UNCHANGED <<stored, copies, enforced, view, fresh, edits, faults, history>>

SaveStatus ==
    /\ view # None /\ todo = {} /\ fresh
    /\ app' = view /\ current' = (current /\ app = view)
    /\ EndPass
    /\ UNCHANGED <<appSeen, request, reqSeen, enforced, deployed, edits, faults,
                   history>>

\* The app changed since the cache was read.
Conflict ==
    /\ view # None /\ todo = {} /\ ~fresh
    /\ EndPass
    /\ UNCHANGED <<stored, copies, enforced, deployed, edits, faults, history>>

\* An apply fails, or the controller restarts.
LosePass ==
    /\ view # None /\ faults < MaxFaults
    /\ faults' = faults + 1
    /\ EndPass
    /\ UNCHANGED <<stored, copies, enforced, deployed, edits, history>>

SyncApp ==
    /\ ~current
    /\ appSeen' = app /\ current' = TRUE
    /\ UNCHANGED <<stored, reqSeen, enforced, pass, fresh, deployed, edits,
                   faults, history>>

SyncRequest ==
    /\ reqSeen # request
    /\ reqSeen' = request
    /\ UNCHANGED <<stored, appSeen, current, enforced, pass, fresh, deployed,
                   edits, faults, history>>

-----------------------------------------------------------------------------
(* The user, the administrator and the allocator.                           *)

EditApp ==
    /\ edits < MaxEdits /\ edits' = edits + 1
    /\ \E d \in Demands \ {app.demand} : app' = [app EXCEPT !.demand = d]
    /\ current' = FALSE /\ fresh' = FALSE
    /\ UNCHANGED <<appSeen, request, reqSeen, enforced, pass, deployed, faults,
                   history>>

SetEnforced ==
    /\ faults < MaxFaults /\ faults' = faults + 1
    /\ enforced' = ~enforced /\ lifted' = TRUE
    /\ UNCHANGED <<stored, copies, pass, fresh, deployed, edits, grants>>

Grant ==
    /\ request # None
    /\ request.allocated # request.spec \/ request.cond # "success"
    /\ request' = [request EXCEPT !.allocated = request.spec,
                                  !.failed = FALSE, !.cond = "success"]
    /\ grants' = grants \cup {request.spec}
    /\ UNCHANGED <<app, copies, enforced, pass, fresh, deployed, edits, faults,
                   lifted>>

\* FailedResources is set, or only the condition tells of an error.
RefuseRequest ==
    /\ request # None /\ request.allocated # request.spec
    /\ faults < MaxFaults /\ faults' = faults + 1
    /\ \E failed \in BOOLEAN, cond \in {"error", "none"} :
         /\ failed \/ cond = "error"
         /\ request' = [request EXCEPT !.failed = failed, !.cond = cond]
    /\ UNCHANGED <<app, copies, enforced, pass, fresh, deployed, edits, history>>

-----------------------------------------------------------------------------
Controller == HandleApp \/ HandleUnparsable \/ ApplyRequest \/ PruneRequest
              \/ DeploySpec \/ SaveStatus \/ Conflict

World == LosePass \/ SyncApp \/ SyncRequest \/ EditApp \/ SetEnforced
         \/ Grant \/ RefuseRequest

Next == Controller \/ World

Spec == Init /\ [][Next]_vars

Scheduling == WF_vars(Controller) /\ WF_vars(SyncApp) /\ WF_vars(SyncRequest)

\* Nothing is assumed of the allocator, which may refuse for good.
FairSpec == Spec /\ Scheduling

-----------------------------------------------------------------------------
(* Properties.                                                              *)

\* Every variable holds a value of its type, and between two passes nothing is
\* left to apply.
TypeOK ==
    /\ app \in AppRecords /\ appSeen \in AppRecords /\ current \in BOOLEAN
    /\ request \in RequestRecords \cup {None}
    /\ reqSeen \in RequestRecords \cup {None}
    /\ enforced \in BOOLEAN
    /\ view \in AppRecords \cup {None} /\ fresh \in BOOLEAN
    /\ todo \subseteq {"request", "prune", "workloads"}
    /\ (view = None) => (todo = {})
    /\ deployed \in Demands \cup {None}
    /\ edits \in 0..MaxEdits /\ faults \in 0..MaxFaults
    /\ grants \subseteq Demands /\ lifted \in BOOLEAN

\* In a project that always enforced quota no app has a workload before some
\* request of it was granted: neither a missing QuotaRequest nor one nobody has
\* answered lets DeploySpec run (WaitForAllocation, CheckStatus).
NothingBeforeGrant == (deployed # None /\ ~lifted) => grants # {}

\* What is deployed was granted ("WaitForAllocation blocks the appInstance from
\* being deployed until quota has been allocated").
DeployedIsGranted == (deployed # None /\ ~lifted) => deployed \in grants

\* An allocator that grants in the end, and users who stop editing: the app runs
\* what it demands, and that is what is allocated; without quota no QuotaRequest
\* is left.
SettlesGranted ==
    WF_vars(Grant) =>
      <>[](app.demand \notin Unparsable =>
             /\ deployed = app.demand
             /\ IF enforced THEN request # None /\ request.allocated = app.demand
                            ELSE request = None)

\* A refusal for good is told in the app's condition, as is a volume size that
\* cannot be parsed.
Refused == \/ app.demand \in Unparsable
           \/ request # None /\ (request.failed \/ request.cond = "error")

RefusalIsShown == <>[](enforced /\ Refused) => <>[](app.cond = "error")
=============================================================================

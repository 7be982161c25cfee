--------------------------- MODULE MCAutoUpgrade ---------------------------
(***************************************************************************)
(* Small instances of AutoUpgrade for TLC: one repository on a registry     *)
(* (hub), one without a registry host (lcl), two tags.                      *)
(***************************************************************************)
EXTENDS AutoUpgrade

CONSTANTS hub, lcl

Of(image, upgrade) == [image |-> image, upgrade |-> upgrade]
Tagged(repo) == Ref(repo, Pattern)

HubRefs == {Ref(hub, t) : t \in Tags}
LclRefs == {Ref(lcl, t) : t \in Tags}
LclSecond == {Ref(lcl, 2)}

\* Every mode, and a repository that is only built in the cluster.
EveryMode == {Of(Tagged(hub), "auto"), Of(Tagged(hub), "notify"),
              Of(Ref(hub, 1), "off"), Of(Tagged(lcl), "auto")}

AutoOrNotify == {Of(Tagged(hub), "auto"), Of(Tagged(hub), "notify")}

\* For AnnouncesOnlyUpgrades and ImageUpdateReplaces.
StaticNotify == {Of(Ref(hub, 1), "notify")}
TwoPatterns == {Of(Tagged(hub), "auto"), Of(Tagged(lcl), "auto")}

\* The references in S are there, with digest 1.  Digests are only compared with
\* those of the same reference, so no start needs another.
Holding(S) == [r \in Refs |-> IF r \in S THEN 1 ELSE 0]

Empty == {Holding({})}
NoneOrFirst == {Holding({}), Holding({Ref(hub, 1)})}
FirstOrBoth == {Holding({Ref(hub, 1)}), Holding(HubRefs)}
LclFirst == {Holding({Ref(lcl, 1)})}
=============================================================================

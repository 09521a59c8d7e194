---------------------------- MODULE MCStrategies ----------------------------
(***************************************************************************)
(* An unlabelled node from the start, two nodes of a tainted pool to be    *)
(* launched, and pods that keep apart, spread or just fit.                 *)
(***************************************************************************)
EXTENDS Strategies, TLC

CONSTANTS n1, n2, n3, p1, p2, p3, p4, none, h2, h3, z2, z3, app, web, job

Table(f, default) == [p \in Pod |-> IF p \in DOMAIN f THEN f[p] ELSE default]

\* n1 is there from the start, without labels; n2 and n3 are launched.
NodeLabels == n1 :> [host |-> none, zone |-> none]
              @@ n2 :> [host |-> h2, zone |-> z2] @@ n3 :> [host |-> h3, zone |-> z3]

Dedicated == [key |-> "dedicated", value |-> "batch", effect |-> "NoSchedule"]
NodeTaints == [n \in Node |-> IF n = n1 THEN {} ELSE {Dedicated}]
NoTaints == [n \in Node |-> {}]

Tolerate == {[key |-> "dedicated", operator |-> "Exists", value |-> "", effect |-> {}]}
TolerateAll == Table(<<>>, Tolerate)
TolerateSome == Table(p4 :> {}, Tolerate)

NoTerms == Table(<<>>, <<>>)
ThirdZone == Table(p3 :> {[required |-> TRUE, weight |-> 0, match |-> {<<"zone", z2>>}]}, {})
AnyNode == Table(<<>>, {})
LastZone == Table(p3 :> {[required |-> FALSE, weight |-> 3, match |-> {<<"zone", z3>>}]}, {})

KeepApart == <<[key |-> "host", selector |-> app, anti |-> TRUE, required |-> TRUE,
                weight |-> 0]>>
\* Rather in a zone with a web pod.
NearWeb == <<[key |-> "zone", selector |-> web, anti |-> FALSE, required |-> FALSE, weight |-> 2]>>
SpreadOver(key) == <<[key |-> key, selector |-> web, max_skew |-> 1, hard |-> TRUE]>>

ApartNearWeb == Table(p1 :> KeepApart \o NearWeb @@ p2 :> KeepApart \o NearWeb, <<>>)
ApartTerms == Table(p1 :> KeepApart @@ p2 :> KeepApart, <<>>)
AllApart == Table(p1 :> KeepApart @@ p2 :> KeepApart @@ p3 :> KeepApart, <<>>)
EvenHosts == <<[key |-> "host", selector |-> app, max_skew |-> 1, hard |-> FALSE]>>
ZoneAndHosts == Table(p3 :> SpreadOver("zone") \o EvenHosts, <<>>)
ZoneSpread == Table(p3 :> SpreadOver("zone"), <<>>)
HostSpread == Table(p1 :> SpreadOver("host") @@ p2 :> SpreadOver("host"), <<>>)

Selected == Table(p1 :> {app} @@ p2 :> {app} @@ p3 :> {web}, {})
AllApp == Table(<<>>, {app})
AllWeb == Table(<<>>, {web})
GuestAndApp == Table(p1 :> {}, {app})
Owners == Table(p1 :> app @@ p2 :> app @@ p3 :> web, job)
OneOwner == Table(<<>>, app)

Alike == Permutations({p1, p2})

Sizes == Table(p4 :> 2, 1)
Ones == Table(<<>>, 1)
SmallThird == Table(p3 :> 1, 2)
Ranks == Table(p4 :> 1, 0)
SameRank == Table(<<>>, 0)
Launched == <<n2, n3>>
LaunchedOne == <<n2>>
Uneven == [n \in Node |-> IF n = n1 THEN 5 ELSE 2]
Wide == [n \in Node |-> 3]
Roomy == [n \in Node |-> 2]
=============================================================================

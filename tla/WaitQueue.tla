-------------------------------- MODULE WaitQueue --------------------------------
(***************************************************************************)
(* What the ReverseSchedule strategy keeps beside the pending queue        *)
(* (CapacityWaitQueue and DomainBudget of kubesim-py/src/lib.rs), and how  *)
(* a node that becomes ready is filled from it.  Removal is lazy: a pod    *)
(* leaves in_queue at once and its entry stays until it is at the front.   *)
(***************************************************************************)
EXTENDS Constraints

CONSTANTS Owner,        \* Pod.owner
          UnnamedHost   \* the hostname of a node without that label

NoWait == [constrained |-> [o \in {Owner[p] : p \in Pod} |-> <<>>],
           unconstrained |-> <<>>, in_queue |-> {}]

HostTerms(p) ==
    {i \in DOMAIN PodAffinity[p] : /\ PodAffinity[p][i].anti /\ PodAffinity[p][i].required
                                   /\ PodAffinity[p][i].key = "host"}

Constrained(p) == Spread[p] # <<>> \/ HostTerms(p) # {}

\* add_constrained, add_unconstrained
AddWaiting(w, p) ==
    IF p \in w.in_queue THEN w
    ELSE IF Constrained(p)
    THEN [w EXCEPT !.in_queue = @ \cup {p}, !.constrained[Owner[p]] = Append(@, p)]
    ELSE [w EXCEPT !.in_queue = @ \cup {p}, !.unconstrained = Append(@, p)]

RemoveWaiting(w, p) == [w EXCEPT !.in_queue = @ \ {p}]

-----------------------------------------------------------------------------
(***************************************************************************)
(* DomainBudget: <<owner, key>> -> [max_skew, counts].  A count of a       *)
(* domain that is not registered is zero.                                  *)
(***************************************************************************)
HardSpread(p) == {i \in DOMAIN Spread[p] : Spread[p][i].hard}
OwnTerms(p) == {i \in HostTerms(p) : PodAffinity[p][i].selector \in Matching[p]}

Registered(budgets, p) ==
    WithNew(WithNew(budgets,
        [k \in {<<Owner[p], Spread[p][i].key>> : i \in HardSpread(p)} |->
            [max_skew |-> Spread[p][Min({i \in HardSpread(p) : Spread[p][i].key = k[2]})].max_skew,
             counts |-> <<>>]]),
        [k \in {<<Owner[p], "host">> : i \in OwnTerms(p)} |-> [max_skew |-> 1, counts |-> <<>>]])

CountOf(counts, d) == IF d \in DOMAIN counts THEN counts[d] ELSE 0

HasRoomFor(budgets, o, key, d) ==
    <<o, key>> \in DOMAIN budgets =>
        CountOf(budgets[<<o, key>>].counts, d) < budgets[<<o, key>>].max_skew

BudgetAllows(budgets, p, host) ==
    /\ \A i \in HardSpread(p) : HasRoomFor(budgets, Owner[p], Spread[p][i].key, host)
    /\ OwnTerms(p) # {} => HasRoomFor(budgets, Owner[p], "host", host)

\* record_placement, once for every constraint under the key.
Placements(p, key) ==
    Cardinality({i \in HardSpread(p) : Spread[p][i].key = key})
    + IF key = "host" THEN Cardinality(HostTerms(p)) ELSE 0

Recorded(budgets, p, host) ==
    [k \in DOMAIN budgets |->
        IF k[1] # Owner[p] \/ Placements(p, k[2]) = 0 THEN budgets[k]
        ELSE [budgets[k] EXCEPT !.counts =
                WithNew([d \in {host} |-> CountOf(@, d) + Placements(p, k[2])], @)]]

\* register_domain for the hostname of a node that is ready.
DomainRegistered(budgets, host) ==
    [k \in DOMAIN budgets |->
        IF k[2] # "host" \/ host = UnnamedHost THEN budgets[k]
        ELSE [budgets[k] EXCEPT !.counts = WithNew(@, [d \in {host} |-> 0])]]

-----------------------------------------------------------------------------
(***************************************************************************)
(* NodeReady: [w, budgets, remaining, bind, over].  First at most one pod  *)
(* of every owner, then pods without constraints until one does not fit.   *)
(***************************************************************************)
Fresh(c, w, p) == p \in w.in_queue /\ Is(c, p, "Pending")

\* The entries before the first fresh one are popped, and what is not pending any more
\* stops waiting.
WithoutStale(c, w, o) ==
    LET q == w.constrained[o]
        first == Min({i \in DOMAIN q : Fresh(c, w, q[i])} \cup {Len(q) + 1})
    IN  [w EXCEPT !.constrained[o] = SubSeq(q, first, Len(q)),
                  !.in_queue = @ \ {q[i] : i \in 1..first - 1}]

\* VecDeque::pop_front
Popped(q) == SubSeq(q, 2, Len(q))

\* Mutant of Hands: what is left is not reduced.
HandsUncounted(f, c, p, host) ==
    [f EXCEPT !.w.constrained[Owner[p]] = Popped(@), !.w.in_queue = @ \ {p},
              !.budgets = Recorded(@, p, host), !.bind = Append(@, p)]

Hands(f, c, p, host) ==
    [f EXCEPT !.w.constrained[Owner[p]] = Popped(@), !.w.in_queue = @ \ {p},
              !.budgets = Recorded(@, p, host),
              !.remaining = SatSub(@, c.requests[p]), !.bind = Append(@, p)]

FillFromOwner(c, host, f, o) ==
    LET w == WithoutStale(c, f.w, o)
        g == [f EXCEPT !.w = w]
        p == Head(w.constrained[o])
    IN  IF f.remaining = 0 THEN f
        ELSE IF w.constrained[o] = <<>> THEN g
        ELSE IF c.requests[p] <= f.remaining /\ BudgetAllows(f.budgets, p, host) THEN Hands(g, c, p, host)
        ELSE g

FillFreely(c, f, p) ==
    IF f.over \/ f.remaining = 0 THEN [f EXCEPT !.over = TRUE]
    ELSE IF ~ Fresh(c, f.w, p)
    THEN [f EXCEPT !.w.unconstrained = Popped(@), !.w.in_queue = @ \ {p}]
    ELSE IF c.requests[p] <= f.remaining
    THEN [f EXCEPT !.w.unconstrained = Popped(@), !.w.in_queue = @ \ {p}, !.bind = Append(@, p),
                   !.remaining = SatSub(@, c.requests[p])]
    ELSE [f EXCEPT !.over = TRUE]

Host(n) == IF Labels[n]["host"] = NoLabel THEN UnnamedHost ELSE Labels[n]["host"]

FillNode(c, w, budgets, n) ==
    LET start == [w |-> w, budgets |-> DomainRegistered(budgets, Host(n)),
                  remaining |-> Available(c, n), bind |-> <<>>, over |-> FALSE]
        Owners(f, order) == FoldLeft(LAMBDA g, o : FillFromOwner(c, Host(n), g, o), f, order)
        Free(f) == FoldLeft(LAMBDA g, p : FillFreely(c, g, p), f, f.w.unconstrained)
    IN  IF ~ LiveNode(c, n) THEN {start}
        ELSE {Free(Owners(start, order)) : order \in SetToSeqs(DOMAIN w.constrained)}
=============================================================================

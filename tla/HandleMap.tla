------------------------------ MODULE HandleMap ------------------------------
(***************************************************************************)
(* What the arena promises its callers: a partial map from handles to      *)
(* values in which a handle, once given out, names one inserted value and  *)
(* is never given out again.  A call with a handle whose value is gone     *)
(* answers NoValue and changes nothing.                                    *)
(***************************************************************************)
CONSTANTS Value,    \* what is stored
          NoValue,  \* the answer None
          Handle    \* the handles that can ever be given out

VARIABLES live,     \* the map: its domain is the set of valid handles
          issued,   \* every handle ever given out
          ret       \* the last call: operation, handle and answer

hvars == <<live, issued, ret>>

Answer(h) == IF h \in DOMAIN live THEN live[h] ELSE NoValue

HInit == /\ live = [h \in {} |-> NoValue]
         /\ issued = {}
         /\ ret = [op |-> "new"]

HInsert(v) ==
    \E h \in Handle \ issued :
        /\ live' = [g \in DOMAIN live \cup {h} |-> IF g = h THEN v ELSE live[g]]
        /\ issued' = issued \cup {h}
        /\ ret' = [op |-> "insert", handle |-> h, result |-> v]

HRemove(h) ==
    /\ live' = [g \in DOMAIN live \ {h} |-> live[g]]
    /\ ret' = [op |-> "remove", handle |-> h, result |-> Answer(h)]
    /\ UNCHANGED issued

HGet(h) ==
    /\ ret' = [op |-> "get", handle |-> h, result |-> Answer(h)]
    /\ UNCHANGED <<live, issued>>

HUpdate(h, v) ==
    /\ live' = [g \in DOMAIN live |-> IF g = h THEN v ELSE live[g]]
    /\ ret' = [op |-> "get_mut", handle |-> h, result |-> Answer(h)]
    /\ UNCHANGED issued

HNext == \/ \E v \in Value : HInsert(v)
         \/ \E h \in issued : \/ HRemove(h)
                              \/ HGet(h)
                              \/ \E v \in Value : HUpdate(h, v)

HSpec == HInit /\ [][HNext]_hvars
=============================================================================

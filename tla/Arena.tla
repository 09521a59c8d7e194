-------------------------------- MODULE Arena --------------------------------
(***************************************************************************)
(* The generational arena that stores nodes, pods and replica sets         *)
(* (kubesim-core/src/arena.rs).  Every id kept in an event, in a node's    *)
(* pod list or in the pending queue is a handle of this arena and may be   *)
(* used long after its value was removed and its slot given to another.    *)
(* Slots are numbered from 1 here and from 0 in the code.                  *)
(***************************************************************************)
EXTENDS Integers, Sequences, FiniteSets

CONSTANTS Value,     \* what is stored
          NoValue,   \* Option::None
          MaxSlots,  \* bound: slots the arena may grow to (u32 in the code)
          MaxGen     \* bound: the last generation of a slot (u32::MAX)

ASSUME NoValueAssumption == NoValue \notin Value
ASSUME BoundAssumption == MaxSlots \in Nat /\ MaxGen \in Nat

VARIABLES entries,   \* Vec<Entry>: [value, generation] for every slot
          free,      \* Vec<u32>: the stack of vacated slots
          len,       \* the number of live values
          ret        \* the last call, with its handle and its answer

vars == <<entries, free, len, ret>>

Handle == [index : 1..MaxSlots, generation : 0..MaxGen]

Slots == 1..Len(entries)

Occupied == {i \in Slots : entries[i].value # NoValue}

\* Every handle some insert has returned: a slot starts at generation 0 and
\* each reuse gives out the next one.  Callers hold no other handle, because
\* Handle::new is private.
Issued == {h \in Handle : /\ h.index \in Slots
                          /\ h.generation <= entries[h.index].generation}

Valid(h) == /\ h.index \in Slots
            /\ entries[h.index].generation = h.generation

Lookup(h) == IF Valid(h) THEN entries[h.index].value ELSE NoValue

Live == {h \in Handle : Valid(h) /\ entries[h.index].value # NoValue}

\* What iter() yields: every live handle with its value.
MapOf == [h \in Live |-> entries[h.index].value]

-----------------------------------------------------------------------------
Init == /\ entries = <<>>
        /\ free = <<>>
        /\ len = 0
        /\ ret = [op |-> "new"]

Give(i, g, v) == ret' = [op |-> "insert", result |-> v,
                         handle |-> [index |-> i, generation |-> g]]

\* Mutant of InsertReuse: a reused slot keeps its generation.
InsertReuseSameGeneration(v) ==
    /\ free # <<>>
    /\ LET i == free[Len(free)]
       IN  /\ entries' = [entries EXCEPT ![i].value = v]
           /\ Give(i, entries[i].generation, v)
    /\ free' = SubSeq(free, 1, Len(free) - 1)
    /\ len' = len + 1

\* insert when a vacated slot exists: the top of the free stack, next generation
InsertReuse(v) ==
    /\ free # <<>>
    /\ LET i == free[Len(free)]
           g == entries[i].generation + 1
       IN  /\ g <= MaxGen
           /\ entries' = [entries EXCEPT ![i] = [value |-> v, generation |-> g]]
           /\ Give(i, g, v)
    /\ free' = SubSeq(free, 1, Len(free) - 1)
    /\ len' = len + 1

\* insert when every slot is occupied: a new slot at generation 0
InsertPush(v) ==
    /\ free = <<>>
    /\ Len(entries) < MaxSlots
    /\ entries' = Append(entries, [value |-> v, generation |-> 0])
    /\ Give(Len(entries) + 1, 0, v)
    /\ len' = len + 1
    /\ UNCHANGED free

\* Mutant of RemoveValue: the slot freed is the one below.
RemoveSlotBelow(h) ==
    /\ ret' = [op |-> "remove", handle |-> h, result |-> Lookup(h)]
    /\ IF Lookup(h) = NoValue
       THEN UNCHANGED <<entries, free, len>>
       ELSE /\ entries' = [entries EXCEPT ![h.index].value = NoValue]
            /\ free' = Append(free, h.index - 1)
            /\ len' = len - 1

\* Mutant of RemoveValue: a slot whose generation matches is freed even if vacant.
RemoveVacant(h) ==
    /\ ret' = [op |-> "remove", handle |-> h, result |-> Lookup(h)]
    /\ IF ~ Valid(h)
       THEN UNCHANGED <<entries, free, len>>
       ELSE /\ entries' = [entries EXCEPT ![h.index].value = NoValue]
            /\ free' = Append(free, h.index)
            /\ len' = len - 1

\* remove
RemoveValue(h) ==
    /\ ret' = [op |-> "remove", handle |-> h, result |-> Lookup(h)]
    /\ IF Lookup(h) = NoValue
       THEN UNCHANGED <<entries, free, len>>
       ELSE /\ entries' = [entries EXCEPT ![h.index].value = NoValue]
            /\ free' = Append(free, h.index)
            /\ len' = len - 1

Get(h) ==
    /\ ret' = [op |-> "get", handle |-> h, result |-> Lookup(h)]
    /\ UNCHANGED <<entries, free, len>>

\* get_mut, and the caller's write through the reference it returns
Update(h, v) ==
    /\ ret' = [op |-> "get_mut", handle |-> h, result |-> Lookup(h)]
    /\ IF Lookup(h) = NoValue
       THEN UNCHANGED entries
       ELSE entries' = [entries EXCEPT ![h.index].value = v]
    /\ UNCHANGED <<free, len>>

Next == \/ \E v \in Value : InsertReuse(v) \/ InsertPush(v)
        \/ \E h \in Issued : \/ RemoveValue(h)
                             \/ Get(h)
                             \/ \E v \in Value : Update(h, v)

Spec == Init /\ [][Next]_vars

-----------------------------------------------------------------------------
\* The shape of the arena's state.
TypeOK ==
    /\ entries \in Seq([value : Value \cup {NoValue}, generation : 0..MaxGen])
    /\ Len(entries) <= MaxSlots
    /\ free \in Seq(1..MaxSlots)
    /\ len \in Int

\* The free stack holds every vacant slot exactly once: a slot pushed twice by
\* a repeated remove would be given to two inserts, one overwriting the other.
FreeListExact ==
    /\ {free[i] : i \in 1..Len(free)} = Slots \ Occupied
    /\ \A i, j \in 1..Len(free) : free[i] = free[j] => i = j

\* len() is the number of values iter() yields, whatever stale removes happened.
LenCountsLive == len = Cardinality(Occupied)

\* The arena implements the handle map: a stale handle never reads, writes or
\* removes the value that now occupies its slot, and no handle is given twice.
Contract == INSTANCE HandleMap WITH
                live <- MapOf,
                issued <- Issued
ImplementsHandleMap == Contract!HSpec
=============================================================================

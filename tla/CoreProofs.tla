------------------------------ MODULE CoreProofs ------------------------------
(***************************************************************************)
(* Proofs about kubesim-core: the arena, for every set of values and every *)
(* bound, and the cluster's state, for every set of nodes, pods, request   *)
(* sizes and capacities.                                                   *)
(***************************************************************************)
EXTENDS Arena, ClusterState, ClusterProofs

-----------------------------------------------------------------------------
(***************************************************************************)
(* The arena.                                                              *)
(***************************************************************************)
Entry == [value : Value \cup {NoValue}, generation : 0..MaxGen]

ArenaInv == TypeOK /\ FreeListExact /\ LenCountsLive

\* Slot i holds value v at generation g after the step, the others are kept.
Writes(i, v, g) ==
    /\ entries' \in Seq(Entry)
    /\ Len(entries') = Len(entries)
    /\ entries'[i] = [value |-> v, generation |-> g]
    /\ \A j \in Slots \ {i} : entries'[j] = entries[j]

-----------------------------------------------------------------------------
\* Popping a non-empty stack keeps what lies under the top.
LEMMA PopSeq ==
    ASSUME NEW S, NEW s \in Seq(S), Len(s) \in 1..Len(s)
    PROVE  /\ SubSeq(s, 1, Len(s) - 1) \in Seq(S)
           /\ Len(SubSeq(s, 1, Len(s) - 1)) = Len(s) - 1
           /\ \A k \in 1..Len(s) - 1 : SubSeq(s, 1, Len(s) - 1)[k] = s[k]
<1> DEFINE n == Len(s)
<1>1. n \in Nat /\ n - 1 \in Nat
    BY LenProperties
<1>2. \A k \in 1..n - 1 : s[k] \in S
    <2> TAKE k \in 1..n - 1
    <2>1. k \in 1..Len(s)
        BY <1>1
    <2> QED BY <2>1, ElementOfSeq
<1>3. /\ SubSeq(s, 1, n - 1) \in Seq(S)
      /\ Len(SubSeq(s, 1, n - 1)) = IF 1 <= n - 1 THEN (n - 1) - 1 + 1 ELSE 0
      /\ \A k \in 1..(n - 1) - 1 + 1 : SubSeq(s, 1, n - 1)[k] = s[1 + k - 1]
    <2> HIDE DEF n
    <2> QED BY <1>1, <1>2, SubSeqProperties
<1>4. (IF 1 <= n - 1 THEN (n - 1) - 1 + 1 ELSE 0) = n - 1
    <2> HIDE DEF n
    <2>1. CASE 1 <= n - 1
        BY <1>1, <2>1
    <2>2. CASE ~ (1 <= n - 1)
        BY <1>1, <2>2
    <2> QED BY <2>1, <2>2
<1>5. \A k \in 1..n - 1 : SubSeq(s, 1, n - 1)[k] = s[k]
    <2> TAKE k \in 1..n - 1
    <2>1. k \in 1..(n - 1) - 1 + 1 /\ 1 + k - 1 = k
        BY <1>1
    <2> QED BY <1>3, <2>1
<1> QED BY <1>3, <1>4, <1>5

\* How a step that assigns one slot changes the entries.
LEMMA WriteSlot ==
    ASSUME TypeOK, NEW i \in Slots,
           NEW v \in Value \cup {NoValue}, NEW g \in 0..MaxGen,
           entries' = [entries EXCEPT ![i] = [value |-> v, generation |-> g]]
    PROVE  Writes(i, v, g)
<1>1. entries \in Seq(Entry) /\ i \in 1..Len(entries)
    BY DEF TypeOK, Entry, Slots
<1>2. [value |-> v, generation |-> g] \in Entry
    BY DEF Entry
<1> QED BY <1>1, <1>2, ExceptSeq DEF Writes, Slots

\* Assigning the value field alone keeps the slot's generation.
LEMMA WriteValue ==
    ASSUME TypeOK, NEW i \in Slots, NEW v \in Value \cup {NoValue},
           entries' = [entries EXCEPT ![i].value = v]
    PROVE  Writes(i, v, entries[i].generation)
<1>1. entries \in Seq(Entry) /\ i \in 1..Len(entries)
    BY DEF TypeOK, Entry, Slots
<1>2. entries[i] \in Entry
    BY <1>1, ElementOfSeq
<1>3. [entries[i] EXCEPT !.value = v] = [value |-> v, generation |-> entries[i].generation]
    BY <1>2 DEF Entry
<1>4. entries[i].generation \in 0..MaxGen
    BY <1>2 DEF Entry
<1> QED BY <1>3, <1>4, WriteSlot

\* What a successful lookup says about the handle's slot.
LEMMA LookupFound ==
    ASSUME TypeOK, NEW h \in Handle, Lookup(h) # NoValue
    PROVE  /\ h.index \in Slots
           /\ entries[h.index].generation = h.generation
           /\ entries[h.index].value = Lookup(h)
    BY DEF Lookup, Valid

\* The slot on top of the free stack.
LEMMA TopIsVacant ==
    ASSUME TypeOK, FreeListExact, free # <<>>
    PROVE  /\ Len(free) \in 1..Len(free)
           /\ free[Len(free)] \in Slots
           /\ entries[free[Len(free)]].value = NoValue
<1>1. Len(free) \in 1..Len(free)
    BY EmptySeq, LenProperties DEF TypeOK
<1> QED BY <1>1 DEF TypeOK, FreeListExact, Slots, Occupied

-----------------------------------------------------------------------------
\* Each operation changes at most one slot; these lemmas say which and how.
LEMMA InsertReuseEffect ==
    ASSUME TypeOK, FreeListExact, NEW v \in Value, InsertReuse(v)
    PROVE  LET i == free[Len(free)]
               g == entries[i].generation + 1
           IN  /\ i \in Slots /\ entries[i].value = NoValue
               /\ g \in 0..MaxGen
               /\ Writes(i, v, g)
<1> DEFINE i == free[Len(free)]
           g == entries[i].generation + 1
<1>1. i \in Slots /\ entries[i].value = NoValue
    BY TopIsVacant DEF InsertReuse
<1>2. entries \in Seq(Entry) /\ i \in 1..Len(entries)
    BY <1>1 DEF TypeOK, Entry, Slots
<1>3. entries[i] \in Entry
    BY <1>2, ElementOfSeq
<1>4. g \in 0..MaxGen
    BY <1>3, BoundAssumption DEF InsertReuse, Entry
<1>5. entries' = [entries EXCEPT ![i] = [value |-> v, generation |-> g]]
    BY DEF InsertReuse
<1>6. Writes(i, v, g)
    BY <1>1, <1>4, <1>5, WriteSlot
<1> QED BY <1>1, <1>4, <1>6

LEMMA InsertPushEffect ==
    ASSUME TypeOK, NEW v \in Value, InsertPush(v)
    PROVE  /\ entries' \in Seq(Entry)
           /\ Len(entries') = Len(entries) + 1
           /\ entries'[Len(entries) + 1] = [value |-> v, generation |-> 0]
           /\ \A j \in Slots : entries'[j] = entries[j]
<1>1. entries \in Seq(Entry)
    BY DEF TypeOK, Entry
<1>2. [value |-> v, generation |-> 0] \in Entry
    BY BoundAssumption DEF Entry
<1> QED BY <1>1, <1>2, AppendProperties DEF InsertPush, Slots

LEMMA RemoveEffect ==
    ASSUME TypeOK, NEW h \in Handle, RemoveValue(h), Lookup(h) # NoValue
    PROVE  /\ h.index \in Slots
           /\ entries[h.index].value # NoValue
           /\ Writes(h.index, NoValue, h.generation)
    BY LookupFound, WriteValue DEF RemoveValue

LEMMA UpdateEffect ==
    ASSUME TypeOK, NEW h \in Handle, NEW v \in Value, Update(h, v), Lookup(h) # NoValue
    PROVE  /\ h.index \in Slots
           /\ entries[h.index].value # NoValue
           /\ Writes(h.index, v, h.generation)
    BY LookupFound, WriteValue DEF Update

-----------------------------------------------------------------------------
\* The type invariant is kept by every step of an arena with an exact free stack.
LEMMA TypeStep == ArenaInv /\ [Next]_vars => TypeOK'
<1> SUFFICES ASSUME ArenaInv, [Next]_vars PROVE TypeOK'
    OBVIOUS
<1> USE BoundAssumption DEF ArenaInv
<1>1. ASSUME NEW v \in Value, InsertReuse(v)
      PROVE  TypeOK'
    <2>1. free' \in Seq(1..MaxSlots)
        <3>1. Len(free) \in 1..Len(free) /\ free \in Seq(1..MaxSlots)
            BY <1>1, TopIsVacant DEF InsertReuse, TypeOK
        <3> QED BY <1>1, <3>1, PopSeq DEF InsertReuse
    <2>2. entries' \in Seq(Entry) /\ Len(entries') = Len(entries)
        BY <1>1, InsertReuseEffect DEF Writes
    <2> QED BY <1>1, <2>1, <2>2 DEF InsertReuse, TypeOK, Entry
<1>2. ASSUME NEW v \in Value, InsertPush(v)
      PROVE  TypeOK'
    <2>1. entries' \in Seq(Entry) /\ Len(entries') = Len(entries) + 1
        BY <1>2, InsertPushEffect
    <2> QED BY <1>2, <2>1 DEF InsertPush, TypeOK, Entry
<1>3. ASSUME NEW h \in Issued, RemoveValue(h)
      PROVE  TypeOK'
    <2>1. CASE Lookup(h) = NoValue
        BY <1>3, <2>1 DEF RemoveValue, TypeOK
    <2>2. CASE Lookup(h) # NoValue
        <3>1. entries' \in Seq(Entry) /\ Len(entries') = Len(entries)
            BY <1>3, <2>2, RemoveEffect DEF Writes, Issued
        <3>2. h.index \in 1..MaxSlots
            BY DEF Issued, Handle
        <3>3. free' \in Seq(1..MaxSlots) /\ len' \in Int
            <4>1. free' = Append(free, h.index) /\ len' = len - 1
                BY <1>3, <2>2 DEF RemoveValue
            <4>2. free \in Seq(1..MaxSlots) /\ len \in Int
                BY DEF TypeOK
            <4> QED BY <3>2, <4>1, <4>2, AppendProperties
        <3> QED BY <3>1, <3>3 DEF TypeOK, Entry
    <2> QED BY <2>1, <2>2
<1>4. ASSUME NEW h \in Issued, Get(h)
      PROVE  TypeOK'
    BY <1>4 DEF Get, TypeOK
<1>5. ASSUME NEW h \in Issued, NEW v \in Value, Update(h, v)
      PROVE  TypeOK'
    <2>1. CASE Lookup(h) = NoValue
        BY <1>5, <2>1 DEF Update, TypeOK
    <2>2. CASE Lookup(h) # NoValue
        <3>1. entries' \in Seq(Entry) /\ Len(entries') = Len(entries)
            BY <1>5, <2>2, UpdateEffect DEF Writes, Issued
        <3> QED BY <1>5, <3>1 DEF Update, TypeOK, Entry
    <2> QED BY <2>1, <2>2
<1>6. CASE UNCHANGED vars
    BY <1>6 DEF vars, TypeOK
<1> QED BY <1>1, <1>2, <1>3, <1>4, <1>5, <1>6 DEF Next

-----------------------------------------------------------------------------
\* Which slots are occupied after a write, and after each operation.
LEMMA WritesOccupied ==
    ASSUME NEW i \in Slots, NEW v, NEW g, Writes(i, v, g)
    PROVE  /\ Slots' = Slots
           /\ v = NoValue => Occupied' = Occupied \ {i}
           /\ v # NoValue => Occupied' = Occupied \cup {i}
<1>1. Slots' = Slots
    BY DEF Writes, Slots
<1>2. \A j \in Slots : entries'[j].value = IF j = i THEN v ELSE entries[j].value
    BY DEF Writes
<1>3. Occupied' = {j \in Slots : entries'[j].value # NoValue}
    BY <1>1 DEF Occupied
<1> QED BY <1>1, <1>2, <1>3 DEF Occupied

LEMMA OccupiedByReuse ==
    ASSUME TypeOK, FreeListExact, NEW v \in Value, InsertReuse(v)
    PROVE  /\ free[Len(free)] \in Slots \ Occupied
           /\ Slots' = Slots
           /\ Occupied' = Occupied \cup {free[Len(free)]}
<1>1. free[Len(free)] \in Slots \ Occupied
    BY InsertReuseEffect DEF Occupied
<1> QED BY <1>1, InsertReuseEffect, WritesOccupied, NoValueAssumption

LEMMA OccupiedByPush ==
    ASSUME TypeOK, NEW v \in Value, InsertPush(v)
    PROVE  /\ Len(entries) + 1 \notin Slots
           /\ Slots' = Slots \cup {Len(entries) + 1}
           /\ Occupied' = Occupied \cup {Len(entries) + 1}
<1> DEFINE n == Len(entries)
<1>1. n \in Nat
    BY LenProperties DEF TypeOK
<1>2. Len(entries') = n + 1
    BY InsertPushEffect
<1>3. n + 1 \notin 1..n /\ 1..n + 1 = (1..n) \cup {n + 1}
    BY <1>1
<1>4. n + 1 \notin Slots /\ Slots' = Slots \cup {n + 1}
    BY <1>2, <1>3 DEF Slots
<1>5. \A j \in Slots' : entries'[j].value = IF j = n + 1 THEN v ELSE entries[j].value
    <2>1. entries'[n + 1] = [value |-> v, generation |-> 0]
        BY InsertPushEffect
    <2>2. \A j \in Slots : entries'[j] = entries[j]
        BY InsertPushEffect
    <2> QED BY <1>4, <2>1, <2>2
<1>6. Occupied' = {j \in Slots' : entries'[j].value # NoValue}
    BY DEF Occupied
<1> QED BY <1>4, <1>5, <1>6, NoValueAssumption DEF Occupied

LEMMA OccupiedByRemove ==
    ASSUME TypeOK, NEW h \in Handle, RemoveValue(h), Lookup(h) # NoValue
    PROVE  /\ h.index \in Occupied
           /\ Slots' = Slots
           /\ Occupied' = Occupied \ {h.index}
<1>1. h.index \in Occupied
    BY RemoveEffect DEF Occupied
<1> QED BY <1>1, RemoveEffect, WritesOccupied

LEMMA OccupiedByUpdate ==
    ASSUME TypeOK, NEW h \in Handle, NEW v \in Value, Update(h, v)
    PROVE  Slots' = Slots /\ Occupied' = Occupied
<1>1. CASE Lookup(h) = NoValue
    BY <1>1 DEF Update, Slots, Occupied
<1>2. CASE Lookup(h) # NoValue
    <2>1. h.index \in Occupied
        BY <1>2, UpdateEffect DEF Occupied
    <2>2. Slots' = Slots /\ Occupied' = Occupied \cup {h.index}
        BY <1>2, UpdateEffect, WritesOccupied, NoValueAssumption
    <2> QED BY <2>1, <2>2
<1> QED BY <1>1, <1>2

\* No step loses or duplicates a vacant slot, and len follows the occupied ones.
LEMMA FreeListStep == ArenaInv /\ [Next]_vars => FreeListExact' /\ LenCountsLive'
<1> SUFFICES ASSUME ArenaInv, [Next]_vars PROVE FreeListExact' /\ LenCountsLive'
    OBVIOUS
<1> USE DEF ArenaInv
<1>0. IsFiniteSet(Occupied)
    <2>1. IsFiniteSet(Slots)
        BY LenProperties, FS_Interval DEF Slots, TypeOK
    <2> QED BY <2>1, FS_Subset DEF Occupied
<1>1. ASSUME NEW v \in Value, InsertReuse(v)
      PROVE  FreeListExact' /\ LenCountsLive'
    <2> DEFINE top == Len(free)
    <2>1. top \in 1..top /\ free \in Seq(1..MaxSlots)
        BY <1>1, TopIsVacant DEF InsertReuse, TypeOK
    <2>2. Len(free') = top - 1 /\ \A k \in 1..top - 1 : free'[k] = free[k]
        BY <1>1, <2>1, PopSeq DEF InsertReuse
    <2>3. {free'[k] : k \in 1..top - 1} = {free[k] : k \in 1..top} \ {free[top]}
        BY <2>1, <2>2 DEF FreeListExact
    <2>4. FreeListExact'
        BY <1>1, <2>1, <2>2, <2>3, OccupiedByReuse DEF FreeListExact
    <2>5. LenCountsLive'
        BY <1>0, <1>1, OccupiedByReuse, FS_AddElement DEF LenCountsLive, InsertReuse
    <2> QED BY <2>4, <2>5
<1>2. ASSUME NEW v \in Value, InsertPush(v)
      PROVE  FreeListExact' /\ LenCountsLive'
    <2>1. Len(entries) + 1 \notin Occupied
        BY <1>2, OccupiedByPush DEF Occupied
    <2>2. FreeListExact'
        BY <1>2, <2>1, OccupiedByPush DEF FreeListExact, InsertPush
    <2>3. LenCountsLive'
        BY <1>0, <1>2, <2>1, OccupiedByPush, FS_AddElement DEF LenCountsLive, InsertPush
    <2> QED BY <2>2, <2>3
<1>3. ASSUME NEW h \in Issued, RemoveValue(h)
      PROVE  FreeListExact' /\ LenCountsLive'
    <2>1. CASE Lookup(h) = NoValue
        BY <1>3, <2>1 DEF RemoveValue, FreeListExact, LenCountsLive, Slots, Occupied
    <2>2. CASE Lookup(h) # NoValue
        <3> DEFINE n == Len(free)
        <3>1. free \in Seq(1..MaxSlots) /\ h.index \in 1..MaxSlots /\ h \in Handle
            BY DEF TypeOK, Issued, Handle
        <3>2. /\ Len(free') = n + 1 /\ n \in Nat
              /\ free'[n + 1] = h.index
              /\ \A k \in 1..n : free'[k] = free[k]
            BY <1>3, <2>2, <3>1, AppendProperties, LenProperties DEF RemoveValue
        <3>3. h.index \notin {free[k] : k \in 1..n}
            BY <1>3, <2>2, <3>1, OccupiedByRemove DEF FreeListExact
        <3>4. {free'[k] : k \in 1..n + 1} = {free[k] : k \in 1..n} \cup {h.index}
            BY <3>2
        <3>5. h.index \in Slots
            BY <1>3, <2>2, <3>1, RemoveEffect
        <3>6. FreeListExact'
            BY <1>3, <2>2, <3>1, <3>2, <3>3, <3>4, <3>5, OccupiedByRemove DEF FreeListExact
        <3>7. LenCountsLive'
            BY <1>0, <1>3, <2>2, <3>1, OccupiedByRemove, FS_RemoveElement
            DEF LenCountsLive, RemoveValue
        <3> QED BY <3>6, <3>7
    <2> QED BY <2>1, <2>2
<1>4. ASSUME NEW h \in Issued, Get(h)
      PROVE  FreeListExact' /\ LenCountsLive'
    BY <1>4 DEF Get, FreeListExact, LenCountsLive, Slots, Occupied
<1>5. ASSUME NEW h \in Issued, NEW v \in Value, Update(h, v)
      PROVE  FreeListExact' /\ LenCountsLive'
    BY <1>5, OccupiedByUpdate DEF Update, FreeListExact, LenCountsLive, Issued
<1>6. CASE UNCHANGED vars
    BY <1>6 DEF vars, FreeListExact, LenCountsLive, Slots, Occupied
<1> QED BY <1>1, <1>2, <1>3, <1>4, <1>5, <1>6 DEF Next

LEMMA InitIInv == Init => ArenaInv
    BY FS_EmptySet, EmptySeq, BoundAssumption
    DEF Init, ArenaInv, TypeOK, FreeListExact, LenCountsLive, Slots, Occupied

\* The inductive invariant of the arena.
THEOREM ArenaInvariant == Spec => []ArenaInv
<1>1. ArenaInv /\ [Next]_vars => ArenaInv'
    BY TypeStep, FreeListStep DEF ArenaInv
<1> QED BY InitIInv, <1>1, PTL DEF Spec

\* The arena's state keeps its shape.
THEOREM TypeCorrect == Spec => []TypeOK
<1>1. ArenaInv => TypeOK
    BY DEF ArenaInv
<1> QED BY ArenaInvariant, <1>1, PTL

\* The free stack always holds every vacant slot exactly once (insert, remove).
THEOREM FreeListCorrect == Spec => []FreeListExact
<1>1. ArenaInv => FreeListExact
    BY DEF ArenaInv
<1> QED BY ArenaInvariant, <1>1, PTL

\* len() always equals the number of live values.
THEOREM LenCorrect == Spec => []LenCountsLive
<1>1. ArenaInv => LenCountsLive
    BY DEF ArenaInv
<1> QED BY ArenaInvariant, <1>1, PTL

-----------------------------------------------------------------------------
(***************************************************************************)
(* Refinement: the arena implements the handle map.                        *)
(***************************************************************************)
\* A live handle is the one issued handle of its slot with the slot's generation.
LEMMA LiveLookup ==
    ASSUME NEW h \in Handle
    PROVE  Lookup(h) = IF h \in DOMAIN MapOf THEN MapOf[h] ELSE NoValue
    BY DEF MapOf, Live, Lookup

\* Writing a slot at its current generation touches that slot's handle only.
LEMMA MapAfterWrite ==
    ASSUME TypeOK, NEW h \in Handle, NEW v, h.index \in Slots,
           entries[h.index].generation = h.generation,
           Writes(h.index, v, h.generation)
    PROVE  /\ Issued' = Issued
           /\ v = NoValue => MapOf' = [g \in DOMAIN MapOf \ {h} |-> MapOf[g]]
           /\ v # NoValue => MapOf' = [g \in DOMAIN MapOf \cup {h} |-> IF g = h THEN v ELSE MapOf[g]]
<1>1. Slots' = Slots
    BY DEF Writes, Slots
<1>2. \A j \in Slots : /\ entries'[j].generation = entries[j].generation
                       /\ entries'[j].value = IF j = h.index THEN v ELSE entries[j].value
    BY DEF Writes
<1>3. Issued' = Issued
    BY <1>1, <1>2 DEF Issued
<1>4. \A g \in Handle : Valid(g) /\ g.index = h.index => g = h
    BY DEF Valid, Handle
<1>5. \A g \in Handle : Valid(g)' = Valid(g)
    BY <1>1, <1>2 DEF Valid
<1>6. Valid(h)
    BY DEF Valid
<1>7. \A g \in Handle \ {h} : (g \in Live') = (g \in Live)
    BY <1>2, <1>4, <1>5 DEF Live, Valid
<1>8. (h \in Live') = (v # NoValue)
    BY <1>2, <1>5, <1>6 DEF Live
<1>9. \A g \in Live \ {h} : entries'[g.index].value = entries[g.index].value
    BY <1>2, <1>4 DEF Live, Valid
<1>10. entries'[h.index].value = v
    BY <1>2
<1>11. Live' \subseteq Handle /\ Live \subseteq Handle
    BY DEF Live
<1>12. CASE v = NoValue
    <2>1. Live' = Live \ {h}
        BY <1>7, <1>8, <1>11, <1>12
    <2> QED BY <1>3, <1>9, <1>12, <2>1 DEF MapOf
<1>13. CASE v # NoValue
    <2>1. Live' = Live \cup {h}
        BY <1>7, <1>8, <1>11, <1>13
    <2> QED BY <1>3, <1>9, <1>10, <1>13, <2>1 DEF MapOf
<1> QED BY <1>12, <1>13

\* Either insert gives out a handle that was never issued before.
LEMMA MapAfterReuse ==
    ASSUME TypeOK, FreeListExact, NEW v \in Value, InsertReuse(v)
    PROVE  LET h == [index |-> free[Len(free)],
                     generation |-> entries[free[Len(free)]].generation + 1]
           IN  /\ h \in Handle \ Issued
               /\ Issued' = Issued \cup {h}
               /\ MapOf' = [g \in DOMAIN MapOf \cup {h} |-> IF g = h THEN v ELSE MapOf[g]]
<1> DEFINE i == free[Len(free)]
           n == entries[i].generation + 1
           h == [index |-> i, generation |-> n]
<1>1. /\ i \in Slots /\ entries[i].value = NoValue
      /\ n \in 0..MaxGen
      /\ Writes(i, v, n)
    BY InsertReuseEffect
<1>2. Slots \subseteq 1..MaxSlots /\ \A j \in Slots : entries[j].generation \in Nat
    <2>1. entries \in Seq(Entry) /\ Len(entries) \in Nat /\ Len(entries) <= MaxSlots
        BY LenProperties DEF TypeOK, Entry
    <2>2. \A j \in Slots : entries[j] \in Entry
        BY <2>1, ElementOfSeq DEF Slots
    <2> QED BY <2>1, <2>2, BoundAssumption DEF Slots, Entry
<1> HIDE DEF i
<1>3. h \in Handle /\ h.index = i /\ h.generation = n
    BY <1>1, <1>2 DEF Handle
<1>4. Slots' = Slots
    BY <1>1 DEF Writes, Slots
<1>5. \A j \in Slots : /\ entries'[j].generation = IF j = i THEN n ELSE entries[j].generation
                       /\ entries'[j].value = IF j = i THEN v ELSE entries[j].value
    BY <1>1 DEF Writes
<1>6. h \notin Issued
    BY <1>1, <1>2, <1>3 DEF Issued
<1>7. \A g \in Handle : g.index = i /\ g.generation = n => g = h
    BY <1>3 DEF Handle
<1>8. \A g \in Handle : g.index = i =>
          (g.generation <= n) = (g.generation <= entries[i].generation \/ g.generation = n)
    BY <1>1, <1>2 DEF Handle
<1>9. Issued' = Issued \cup {h}
    BY <1>1, <1>3, <1>4, <1>5, <1>7, <1>8 DEF Issued
<1>10. Live' = Live \cup {h}
    <2>1. v # NoValue
        BY NoValueAssumption
    <2>2. \A g \in Handle : g \in Live' <=> g \in Live \cup {h}
        BY <1>1, <1>3, <1>4, <1>5, <1>7, <2>1 DEF Live, Valid
    <2> QED BY <1>3, <2>2 DEF Live
<1>11. \A g \in Live : g.index # i /\ entries'[g.index].value = entries[g.index].value
    BY <1>1, <1>5 DEF Live, Valid
<1>12. entries'[h.index].value = v /\ h \notin Live
    BY <1>1, <1>3, <1>5, <1>11
<1>13. MapOf' = [g \in DOMAIN MapOf \cup {h} |-> IF g = h THEN v ELSE MapOf[g]]
    BY <1>10, <1>11, <1>12 DEF MapOf
<1> QED BY <1>3, <1>6, <1>9, <1>13 DEF i

LEMMA MapAfterPush ==
    ASSUME TypeOK, NEW v \in Value, InsertPush(v)
    PROVE  LET h == [index |-> Len(entries) + 1, generation |-> 0]
           IN  /\ h \in Handle \ Issued
               /\ Issued' = Issued \cup {h}
               /\ MapOf' = [g \in DOMAIN MapOf \cup {h} |-> IF g = h THEN v ELSE MapOf[g]]
<1> DEFINE i == Len(entries) + 1
           h == [index |-> i, generation |-> 0]
<1>1. i \notin Slots /\ Slots' = Slots \cup {i}
    BY OccupiedByPush
<1>2. Len(entries) \in Nat /\ i \in 1..MaxSlots
    BY LenProperties, BoundAssumption DEF TypeOK, InsertPush
<1>3. entries'[i] = [value |-> v, generation |-> 0]
    BY InsertPushEffect
<1>4. \A j \in Slots : entries'[j] = entries[j]
    BY InsertPushEffect
<1> HIDE DEF i
<1>5. h \in Handle /\ h.index = i /\ h.generation = 0
    BY <1>2, BoundAssumption DEF Handle
<1>6. entries'[i].generation = 0 /\ entries'[i].value = v
    BY <1>3
<1>7. \A g \in Handle : g.index = i /\ g.generation <= 0 => g = h
    BY <1>5, BoundAssumption DEF Handle
<1>8. h \notin Issued /\ h \notin Live
    BY <1>1, <1>5 DEF Issued, Live, Valid
<1>9. Issued' = Issued \cup {h}
    <2>1. \A g \in Handle : g \in Issued' <=> g \in Issued \cup {h}
        BY <1>1, <1>4, <1>5, <1>6, <1>7 DEF Issued
    <2> QED BY <1>5, <2>1 DEF Issued
<1>10. Live' = Live \cup {h}
    <2>1. v # NoValue
        BY NoValueAssumption
    <2>2. \A g \in Handle : g.index = i /\ g.generation = 0 => g = h
        BY <1>5 DEF Handle
    <2>3. \A g \in Handle : g \in Live' <=> g \in Live \cup {h}
        BY <1>1, <1>4, <1>5, <1>6, <2>1, <2>2 DEF Live, Valid
    <2> QED BY <1>5, <2>3 DEF Live
<1>11. \A g \in Live : entries'[g.index].value = entries[g.index].value
    BY <1>4 DEF Live, Valid
<1>12. MapOf' = [g \in DOMAIN MapOf \cup {h} |-> IF g = h THEN v ELSE MapOf[g]]
    BY <1>5, <1>6, <1>8, <1>10, <1>11 DEF MapOf
<1> QED BY <1>5, <1>8, <1>9, <1>12 DEF i

\* Every step of the arena is a step of the handle map.
LEMMA StepRefines == ArenaInv /\ [Next]_vars => [Contract!HNext]_(Contract!hvars)
<1> SUFFICES ASSUME ArenaInv, [Next]_vars PROVE [Contract!HNext]_(Contract!hvars)
    OBVIOUS
<1> USE DEF ArenaInv
<1>1. ASSUME NEW v \in Value, InsertReuse(v)
      PROVE  Contract!HInsert(v)
    BY <1>1, MapAfterReuse DEF InsertReuse, Give, Contract!HInsert
<1>2. ASSUME NEW v \in Value, InsertPush(v)
      PROVE  Contract!HInsert(v)
    BY <1>2, MapAfterPush DEF InsertPush, Give, Contract!HInsert
<1>3. ASSUME NEW h \in Issued, RemoveValue(h)
      PROVE  Contract!HRemove(h)
    <2>1. h \in Handle
        BY DEF Issued
    <2>2. ret' = [op |-> "remove", handle |-> h, result |-> Contract!Answer(h)]
        BY <1>3, <2>1, LiveLookup DEF RemoveValue, Contract!Answer
    <2>3. CASE Lookup(h) = NoValue
        <3>1. UNCHANGED <<MapOf, Issued>>
            BY <1>3, <2>3 DEF RemoveValue, MapOf, Live, Valid, Issued, Slots
        <3>2. h \notin DOMAIN MapOf
            BY <2>1, <2>3 DEF MapOf, Live, Lookup
        <3>3. MapOf = [g \in DOMAIN MapOf \ {h} |-> MapOf[g]]
            BY <3>2 DEF MapOf
        <3> QED BY <2>2, <3>1, <3>3 DEF Contract!HRemove
    <2>4. CASE Lookup(h) # NoValue
        BY <1>3, <2>1, <2>2, <2>4, LookupFound, RemoveEffect, MapAfterWrite
        DEF Contract!HRemove
    <2> QED BY <2>3, <2>4
<1>4. ASSUME NEW h \in Issued, Get(h)
      PROVE  Contract!HGet(h)
    <2>1. h \in Handle
        BY DEF Issued
    <2>2. UNCHANGED <<MapOf, Issued>>
        BY <1>4 DEF Get, MapOf, Live, Valid, Issued, Slots
    <2> QED BY <1>4, <2>1, <2>2, LiveLookup DEF Get, Contract!HGet, Contract!Answer
<1>5. ASSUME NEW h \in Issued, NEW v \in Value, Update(h, v)
      PROVE  Contract!HUpdate(h, v)
    <2>1. h \in Handle
        BY DEF Issued
    <2>2. ret' = [op |-> "get_mut", handle |-> h, result |-> Contract!Answer(h)]
        BY <1>5, <2>1, LiveLookup DEF Update, Contract!Answer
    <2>3. CASE Lookup(h) = NoValue
        <3>1. UNCHANGED <<MapOf, Issued>>
            BY <1>5, <2>3 DEF Update, MapOf, Live, Valid, Issued, Slots
        <3>2. h \notin DOMAIN MapOf
            BY <2>1, <2>3 DEF MapOf, Live, Lookup
        <3>3. MapOf = [g \in DOMAIN MapOf |-> IF g = h THEN v ELSE MapOf[g]]
            BY <3>2 DEF MapOf
        <3> QED BY <2>2, <3>1, <3>3 DEF Contract!HUpdate
    <2>4. CASE Lookup(h) # NoValue
        <3>1. h \in DOMAIN MapOf /\ v # NoValue
            BY <2>1, <2>4, NoValueAssumption DEF MapOf, Live, Lookup
        <3>2. DOMAIN MapOf \cup {h} = DOMAIN MapOf
            BY <3>1
        <3>3. /\ Issued' = Issued
              /\ MapOf' = [g \in DOMAIN MapOf \cup {h} |-> IF g = h THEN v ELSE MapOf[g]]
            BY <1>5, <2>1, <2>4, <3>1, LookupFound, UpdateEffect, MapAfterWrite
        <3> QED BY <2>2, <3>2, <3>3 DEF Contract!HUpdate
    <2> QED BY <2>3, <2>4
<1>6. CASE UNCHANGED vars
    BY <1>6 DEF vars, Contract!hvars, MapOf, Live, Valid, Issued, Slots
<1> QED BY <1>1, <1>2, <1>3, <1>4, <1>5, <1>6 DEF Next, Contract!HNext

\* The arena implements the handle map: a handle, once given out, names one value
\* for ever, and every operation with a stale handle answers None and changes nothing.
THEOREM ArenaImplementsHandleMap == Spec => ImplementsHandleMap
<1>1. Init => Contract!HInit
    BY DEF Init, Contract!HInit, MapOf, Live, Issued, Valid, Slots
<1> QED BY <1>1, StepRefines, ArenaInvariant, PTL
    DEF Spec, ImplementsHandleMap, Contract!HSpec

-----------------------------------------------------------------------------
(***************************************************************************)
(* The cluster: every operation keeps it sound and its queue exact         *)
(* (ClusterProofs), and the theorems about the state machine follow.       *)
(***************************************************************************)
ClusterInv == Sound(state) /\ QueueExact(state)

\* Every operation keeps the cluster sound and its queue exact.
LEMMA CallSound == ClusterInv /\ [ClusterNext]_state => ClusterInv'
<1> SUFFICES ASSUME ClusterInv, [ClusterNext]_state PROVE ClusterInv'
    OBVIOUS
<1> USE SizesAssumption DEF ClusterInv, Kept
<1>1. ASSUME NEW n \in Node, NEW capacity \in Capacities, AddNodeStep(n, capacity)
      PROVE  ClusterInv'
    BY <1>1, AddNodeKept DEF AddNodeStep
<1>2. ASSUME NEW n \in Node, RemoveNodeStep(n)
      PROVE  ClusterInv'
    BY <1>2, RemoveNodeKept DEF RemoveNodeStep
<1>3. ASSUME NEW p \in Pod, NEW size \in Sizes, SubmitPodStep(p, size)
      PROVE  ClusterInv'
    BY <1>3, SubmitPodKept DEF SubmitPodStep
<1>4. ASSUME NEW p \in Pod, NEW n \in Node, BindPodStep(p, n)
      PROVE  ClusterInv'
    BY <1>4, BindPodKept DEF BindPodStep
<1>5. ASSUME NEW p \in Pod, RemovePodStep(p)
      PROVE  ClusterInv'
    BY <1>5, RemovePodKept DEF RemovePodStep
<1>6. ASSUME NEW p \in Pod, EvictPodStep(p)
      PROVE  ClusterInv'
    BY <1>6, EvictPodKept DEF EvictPodStep
<1>7. ASSUME NEW p \in Pod, NEW size \in Sizes, ResizePodStep(p, size)
      PROVE  ClusterInv'
    BY <1>7, ResizePodKept DEF ResizePodStep
<1>8. CASE UNCHANGED state
    BY <1>8
<1> QED BY <1>1, <1>2, <1>3, <1>4, <1>5, <1>6, <1>7, <1>8 DEF ClusterNext

\* Every reachable cluster is sound: its fields are typed, the bindings agree, the books
\* balance, and a running pod was placed on a node that once existed; and its queue is exact.
THEOREM ClusterInvariant == ClusterSpec => []ClusterInv
<1>1. ClusterInit => ClusterInv
    BY EmptySound DEF ClusterInit, ClusterInv
<1> QED BY <1>1, CallSound, PTL DEF ClusterSpec

\* The cluster keeps its shape.
THEOREM ClusterTypeCorrect == ClusterSpec => []ClusterTypeOK
<1>1. ClusterInv => ClusterTypeOK
    BY DEF ClusterInv, Sound, ClusterTypeOK
<1> QED BY ClusterInvariant, <1>1, PTL

\* The pending queue is always the set of pending pods, each once.
THEOREM PendingCorrect == ClusterSpec => []PendingExact
<1>1. ClusterInv => PendingExact
    BY DEF ClusterInv, PendingExact
<1> QED BY ClusterInvariant, <1>1, PTL

\* A live node and the pods bound to it always name each other.
THEOREM LinkCorrect == ClusterSpec => []LinkExact
<1>1. ClusterInv => LinkExact
    BY DEF ClusterInv, Sound, LinkExact
<1> QED BY ClusterInvariant, <1>1, PTL

\* The allocation of a live node is always the sum of what its pods request now.
THEOREM AllocationCorrect == ClusterSpec => []AllocatedExact
<1>1. ClusterInv => AllocatedExact
    BY DEF ClusterInv, Sound, AllocatedExact
<1> QED BY ClusterInvariant, <1>1, PTL
=============================================================================

------------------------------ MODULE AddrMan ------------------------------
(***************************************************************************)
(* The address manager, CAddrMan: known addresses in the slots of the new  *)
(* table, an address in several of them, or in its one slot of the tried   *)
(* table, with tried collisions that are tested before one is evicted, and *)
(* the reconstruction of the tables from peers.dat.  Hashing is a constant *)
(* function; what depends on the clock and on statistics (IsTerrible, the  *)
(* age of the last success) is a free choice.  Every operation holds cs.   *)
(***************************************************************************)
EXTENDS Integers, Sequences, FiniteSets, SequencesExt, FiniteSetsExt

CONSTANTS
    Addrs, Sources,
    NewBuckets,             \* bucket numbers of the new table
    GetNewBucket,           \* [Addrs -> [Sources -> NewBuckets]]
    GetNewPosition,         \* [Addrs -> [NewBuckets -> position]]
    GetTriedSlot,           \* [Addrs -> slot]
    MaxRefs,                \* ADDRMAN_NEW_BUCKETS_PER_ADDRESS
    MaxCollisions,          \* ADDRMAN_SET_TRIED_COLLISION_SIZE
    MaxIds                  \* bound: ids given out between restarts

None == -1

NewSlots == {<<b, GetNewPosition[a][b]>> : a \in Addrs, b \in NewBuckets}
TriedSlots == {GetTriedSlot[a] : a \in Addrs}
NewSlot(a, b) == <<b, GetNewPosition[a][b]>>

VARIABLES
    am,                     \* the tables
    m_tried_collisions,     \* set of ids
    nIdCount

vars == <<am, m_tried_collisions, nIdCount>>

Empty ==
    [mapInfo |-> << >>,     \* id -> [addr, source, nRefCount, fInTried, nRandomPos, success]
     mapAddr |-> [a \in Addrs |-> None],
     vRandom |-> << >>,
     vvNew   |-> [s \in NewSlots |-> None],
     vvTried |-> [s \in TriedSlots |-> None],
     nNew |-> 0, nTried |-> 0,
     asserts |-> TRUE]      \* every assert so far held

Init == am = Empty /\ m_tried_collisions = {} /\ nIdCount = 0

Ids(m) == DOMAIN m.mapInfo

-----------------------------------------------------------------------------
(* The private operations, on a value m of the tables. *)

Create(m, a, src, id) ==
    [m EXCEPT !.mapInfo = [i \in Ids(m) \cup {id} |->
                              IF i # id THEN @[i]
                              ELSE [addr |-> a, source |-> src, nRefCount |-> 0, fInTried |-> FALSE,
                                    nRandomPos |-> Len(m.vRandom) + 1, success |-> FALSE]],
              !.mapAddr[a] = id,
              !.vRandom = Append(@, id),
              !.nNew = @ + 1]

SwapRandom(m, i, j) ==
    [m EXCEPT !.vRandom = [@ EXCEPT ![i] = m.vRandom[j], ![j] = m.vRandom[i]],
              !.mapInfo[m.vRandom[i]].nRandomPos = j,
              !.mapInfo[m.vRandom[j]].nRandomPos = i]

Delete(m, id) ==
    LET info == m.mapInfo[id]
        last == SwapRandom(m, info.nRandomPos, Len(m.vRandom))
    IN  [last EXCEPT !.vRandom = Front(@),
                     !.mapAddr[info.addr] = None,
                     !.mapInfo = [i \in Ids(m) \ {id} |-> @[i]],
                     !.nNew = @ - 1,
                     !.asserts = @ /\ ~info.fInTried /\ info.nRefCount = 0]

ClearNew(m, slot) ==
    LET id == m.vvNew[slot]
        unlinked == [m EXCEPT !.vvNew[slot] = None,
                              !.mapInfo[id].nRefCount = @ - 1,
                              !.asserts = @ /\ m.mapInfo[id].nRefCount > 0]
    IN  IF id = None THEN m
        ELSE IF m.mapInfo[id].nRefCount = 1 THEN Delete(unlinked, id)
        ELSE unlinked

\* The new slots an address leaves when it becomes tried.
HeldIn(m, id) ==
    {s \in NewSlots : /\ m.vvNew[s] = id
                      /\ s = NewSlot(m.mapInfo[id].addr, s[1])}

\* The tried address in the slot goes back to the new bucket of its source,
\* "deleting whatever is there".
Evict(m, slot) ==
    LET id   == m.vvTried[slot]
        info == m.mapInfo[id]
        to   == NewSlot(info.addr, GetNewBucket[info.addr][info.source])
        out  == ClearNew([m EXCEPT !.mapInfo[id].fInTried = FALSE, !.vvTried[slot] = None,
                                   !.nTried = @ - 1], to)
    IN  IF id = None THEN m
        ELSE [out EXCEPT !.mapInfo[id].nRefCount = 1, !.vvNew[to] = id, !.nNew = @ + 1]

MakeTried(m, id) ==
    LET held == HeldIn(m, id)
        left == [m EXCEPT !.vvNew = [s \in NewSlots |-> IF s \in held THEN None ELSE @[s]],
                          !.mapInfo[id].nRefCount = @ - Cardinality(held),
                          !.nNew = @ - 1,
                          !.asserts = @ /\ m.mapInfo[id].nRefCount = Cardinality(held)]
        slot == GetTriedSlot[m.mapInfo[id].addr]
    IN  [Evict(left, slot) EXCEPT !.vvTried[slot] = id, !.nTried = @ + 1,
                                  !.mapInfo[id].fInTried = TRUE]

\* Good_ without the test before an eviction.
GoodNow(m, id) ==
    LET noted == [m EXCEPT !.mapInfo[id].success = TRUE]
    IN  IF m.mapInfo[id].fInTried \/ HeldIn(m, id) = {} THEN noted ELSE MakeTried(noted, id)

-----------------------------------------------------------------------------
(* The operations. *)

\* mutant: the entry that is in the way loses its slot, not its reference
InsertOver(m, slot, id) ==
    [m EXCEPT !.vvNew[slot] = id, !.mapInfo[id].nRefCount = @ + 1]

\* The slot is cleared and given to id.
Insert(m, slot, id) ==
    [ClearNew(m, slot) EXCEPT !.vvNew[slot] = id, !.mapInfo[id].nRefCount = @ + 1]

\* The second half of Add_: an entry gets the slot its source assigns, unless
\* another one has it that is neither terrible nor can be spared.
Place(m, id, src, terrible) ==
    LET a    == m.mapInfo[id].addr
        slot == NewSlot(a, GetNewBucket[a][src])
        old  == m.vvNew[slot]
        unreferenced == m.mapInfo[id].nRefCount = 0
    IN  IF old = id THEN m
        ELSE IF old = None \/ terrible \/ (m.mapInfo[old].nRefCount > 1 /\ unreferenced)
             THEN Insert(m, slot, id)
        ELSE IF unreferenced THEN Delete(m, id)
        ELSE m

\* Add_ for an unknown address.
AddNew(a, src) ==
    /\ am.mapAddr[a] = None
    /\ nIdCount < MaxIds
    /\ \E terrible \in BOOLEAN :
           am' = Place(Create(am, a, src, nIdCount), nIdCount, src, terrible)
    /\ nIdCount' = nIdCount + 1
    /\ UNCHANGED m_tried_collisions

\* Add_ for a known one that brings news and passes the stochastic test.
AddAgain(a, src) ==
    LET id == am.mapAddr[a]
    IN  /\ id # None
        /\ ~am.mapInfo[id].fInTried
        /\ am.mapInfo[id].nRefCount # MaxRefs
        /\ \E terrible \in BOOLEAN : am' = Place(am, id, src, terrible)
        /\ UNCHANGED <<m_tried_collisions, nIdCount>>

\* Good_, with test_before_evict: a taken tried slot is left for the test.
Good(a) ==
    LET id == am.mapAddr[a]
        collides == /\ ~am.mapInfo[id].fInTried
                    /\ HeldIn(am, id) # {}
                    /\ am.vvTried[GetTriedSlot[a]] # None
    IN  /\ id # None
        /\ am' = IF collides THEN [am EXCEPT !.mapInfo[id].success = TRUE] ELSE GoodNow(am, id)
        /\ m_tried_collisions' =
               IF collides /\ Cardinality(m_tried_collisions) < MaxCollisions
               THEN m_tried_collisions \cup {id} ELSE m_tried_collisions
        /\ UNCHANGED nIdCount

\* mutant: the collision stays although the address has become tried
ResolveOneStays(w, id, verdict) ==
    IF id \notin Ids(w.m) THEN w
    ELSE IF verdict = "failed" THEN [w EXCEPT !.m = GoodNow(@, id), !.keep = @ \cup {id}]
    ELSE w

\* One collision.  The verdict on the tried address is "fresh" (a recent
\* success), "failed" (tested without success) or "untested".
ResolveOne(w, id, verdict) ==
    IF id \notin Ids(w.m) THEN w
    ELSE IF w.m.vvTried[GetTriedSlot[w.m.mapInfo[id].addr]] = None
         THEN [w EXCEPT !.m = GoodNow(@, id)]
    ELSE CASE verdict = "fresh"    -> w
           [] verdict = "failed"   -> [w EXCEPT !.m = GoodNow(@, id)]
           [] verdict = "untested" -> [w EXCEPT !.keep = @ \cup {id}]

ResolveCollisions ==
    /\ m_tried_collisions # {}
    /\ \E verdicts \in [m_tried_collisions -> {"fresh", "failed", "untested"}] :
           LET w == FoldLeft(LAMBDA acc, id : ResolveOne(acc, id, verdicts[id]),
                             [m |-> am, keep |-> {}],
                             SetToSortSeq(m_tried_collisions, <))
           IN  am' = w.m /\ m_tried_collisions' = w.keep
    /\ UNCHANGED nIdCount

\* SelectTriedCollision_ drops an id it does not find; otherwise it returns
\* the entry in the tried slot of the address.
SelectTriedCollision(id) ==
    /\ id \in m_tried_collisions \ Ids(am)
    /\ m_tried_collisions' = m_tried_collisions \ {id}
    /\ UNCHANGED <<am, nIdCount>>

\* GetAddr_ shuffles the front of vRandom until it has enough.
GetAddr ==
    /\ \E n \in 1..Len(am.vRandom) :
           \E pick \in [1..n -> 1..Len(am.vRandom)] :
               /\ \A i \in 1..n : pick[i] >= i
               /\ am' = FoldLeft(LAMBDA m, i : SwapRandom(m, i, pick[i]), am,
                                 [i \in 1..n |-> i])
    /\ UNCHANGED <<m_tried_collisions, nIdCount>>

\* The references Unserialize finds for an entry of the new table.
Refs(id) ==
    LET n == Cardinality({s \in NewSlots : am.vvNew[s] = id})
    IN  IF n > MaxRefs THEN MaxRefs ELSE n

\* Shutdown and start: Serialize writes the new entries, the tried ones and the
\* buckets; Unserialize numbers them anew, derives the tried slots, and drops
\* new entries left without a reference.  The collisions are not written.
Restart ==
    LET Where(tried) == {i \in Ids(am) : IF tried THEN am.mapInfo[i].fInTried
                                         ELSE am.mapInfo[i].nRefCount > 0 /\ Refs(i) > 0}
        order == SetToSortSeq(Where(FALSE), <) \o SetToSortSeq(Where(TRUE), <)
        Number(id) == IF \E i \in DOMAIN order : order[i] = id
                      THEN (CHOOSE i \in DOMAIN order : order[i] = id) - 1 ELSE None
    IN  /\ am' = [mapInfo |-> [n \in 0..(Len(order) - 1) |->
                                  LET info == am.mapInfo[order[n + 1]]
                                  IN  [info EXCEPT !.nRandomPos = n + 1,
                                                   !.nRefCount = IF info.fInTried THEN 0
                                                                 ELSE Refs(order[n + 1])]],
                  mapAddr |-> [a \in Addrs |-> Number(am.mapAddr[a])],
                  vRandom |-> [n \in 1..Len(order) |-> n - 1],
                  vvNew   |-> [s \in NewSlots |-> Number(am.vvNew[s])],
                  vvTried |-> [s \in TriedSlots |->
                                  LET here == {i \in Where(TRUE) : GetTriedSlot[am.mapInfo[i].addr] = s}
                                  IN  IF here = {} THEN None ELSE Number(Min(here))],
                  nNew |-> Len(order) - am.nTried, nTried |-> am.nTried,
                  asserts |-> am.asserts]
        /\ m_tried_collisions' = {}
        /\ nIdCount' = Len(order)

Next ==
    \/ \E a \in Addrs : (\E src \in Sources : AddNew(a, src) \/ AddAgain(a, src)) \/ Good(a)
    \/ ResolveCollisions
    \/ \E id \in m_tried_collisions : SelectTriedCollision(id)
    \/ GetAddr
    \/ Restart

Spec == Init /\ [][Next]_vars

-----------------------------------------------------------------------------
(* Properties *)

\* The variables have their types, ids are below nIdCount, and no assert of
\* Delete, ClearNew and MakeTried has failed.
TypeOK ==
    /\ Ids(am) \cup m_tried_collisions \subseteq 0..(nIdCount - 1)
    /\ Cardinality(m_tried_collisions) <= MaxCollisions
    /\ \A i \in Ids(am) : /\ am.mapInfo[i].addr \in Addrs /\ am.mapInfo[i].source \in Sources
                          /\ am.mapInfo[i].nRefCount \in 0..MaxRefs
    /\ am.asserts

\* Check_, the consistency check of a debug build, finds nothing: counters,
\* reference counts, vRandom, mapAddr and both tables agree, and every entry
\* is tried or referenced (addrman.cpp:400-474).
Check ==
    LET tried == {i \in Ids(am) : am.mapInfo[i].fInTried}
        new   == Ids(am) \ tried
    IN  /\ am.nTried = Cardinality(tried) /\ am.nNew = Cardinality(new)
        /\ Len(am.vRandom) = am.nTried + am.nNew
        /\ \A i \in Ids(am) :
               LET info == am.mapInfo[i]
               IN  /\ am.mapAddr[info.addr] = i
                   /\ info.nRandomPos \in DOMAIN am.vRandom /\ am.vRandom[info.nRandomPos] = i
        /\ \A i \in tried : /\ am.mapInfo[i].success /\ am.mapInfo[i].nRefCount = 0
                            /\ am.vvTried[GetTriedSlot[am.mapInfo[i].addr]] = i
        /\ \A i \in new : /\ am.mapInfo[i].nRefCount > 0
                          /\ am.mapInfo[i].nRefCount = Cardinality({s \in NewSlots : am.vvNew[s] = i})
        /\ \A s \in TriedSlots : am.vvTried[s] # None => am.vvTried[s] \in tried
        /\ \A s \in NewSlots : am.vvNew[s] # None =>
               /\ am.vvNew[s] \in new
               /\ s = NewSlot(am.mapInfo[am.vvNew[s]].addr, s[1])

\* An address waiting to evict another is not tried itself and its tried slot
\* is taken: SelectTriedCollision_ reads mapInfo[vvTried[..]] without looking
\* whether the slot is empty (addrman.cpp:614), which would make an entry -1.
CollisionSlotTaken ==
    \A id \in m_tried_collisions \cap Ids(am) :
        am.vvTried[GetTriedSlot[am.mapInfo[id].addr]] \notin {None, id}

=============================================================================

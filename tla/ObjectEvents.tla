----------------------------- MODULE ObjectEvents -----------------------------
(***************************************************************************)
(* Object events (persist/postgres/objects.go, blocked.go, sectors.go).    *)
(* Every change of an object, and a migration of one of its slabs, stamps  *)
(* its event with the second in which the transaction began; the event is  *)
(* seen once the transaction commits.  A client pages through the events   *)
(* with a cursor and keeps a copy of the objects.                          *)
(* Seconds are counted by a clock; transactions run at READ COMMITTED, so  *)
(* the statements of ListObjects see different states.                     *)
(***************************************************************************)
EXTENDS Integers, FiniteSets

CONSTANTS
    ObjKeys,      \* object keys, ordered
    Writers,      \* concurrent transactions
    PageLimit,    \* events of a page
    MaxDelay,     \* seconds a transaction may take
    MaxClock, MaxTx   \* bounds: seconds, transactions

ASSUME EventsAssumption ==
    /\ ObjKeys \subseteq Nat /\ IsFiniteSet(ObjKeys)
    /\ PageLimit \in Nat \ {0} /\ {MaxDelay, MaxClock, MaxTx} \subseteq Nat

NoObject == 0
NoTx     == [op |-> "none"]
NoEvent  == [at |-> -1, deleted |-> TRUE]
NoPage   == [step |-> "none"]
NoSlabs  == 0
NoCopy   == [meta |-> NoObject, slabs |-> NoSlabs]

VARIABLES
    clock,
    object,       \* objects: the version last pinned, or NoObject
    begun,        \* transactions begun so far; a pinned version is named by its transaction
    placed,       \* where the sectors of the object's slabs are: moves so far
    event,        \* object_events
    blockedKeys,  \* blocked_objects
    tx,           \* transactions in progress, with the second each began in
    cursor,       \* the client's cursor
    copy,         \* the client's objects: version of the metadata, and where the slabs are
    listing,      \* ListObjects in progress
    moved,        \* history: objects with a move of sectors that no event tells of yet
    late          \* history: objects whose event was overtaken before it was committed

history   == <<moved, late>>
eventVars == <<clock, object, begun, placed, event, blockedKeys, tx, cursor, copy, listing, history>>

EventsInit ==
    /\ clock = 0 /\ begun = 0
    /\ object = [k \in ObjKeys |-> NoObject] /\ event = [k \in ObjKeys |-> NoEvent]
    /\ blockedKeys = {} /\ tx = [w \in Writers |-> NoTx]
    /\ cursor = [at |-> -1, key |-> 0]
    /\ copy = [k \in ObjKeys |-> NoCopy]
    /\ placed = [k \in ObjKeys |-> 1]
    /\ listing = NoPage /\ moved = {} /\ late = {}

-----------------------------------------------------------------------------
(***************************************************************************)
(* Changes                                                                 *)
(***************************************************************************)

Before(a, k, b, l) == a < b \/ (a = b /\ k < l)

(* Where the client finds the slabs of an object.                           *)
Slabs(k) == IF object[k] = NoObject THEN NoSlabs ELSE placed[k]

(* A transaction begins; PinObject refuses a key that is blocked.  That of  *)
(* RecordSlabMigrated begins when MigrateSector has moved the sectors, in   *)
(* transactions of its own.                                                 *)
Begin(w, op, k) ==
    /\ tx[w] = NoTx /\ clock < MaxClock /\ begun < MaxTx
    /\ op = "pin" => k \notin blockedKeys
    /\ op = "unblock" => k \in blockedKeys
    /\ begun' = begun + 1
    /\ tx' = [tx EXCEPT ![w] = [op |-> op, key |-> k, now |-> clock, version |-> begun + 1]]
    /\ IF op = "migrate"
       THEN /\ placed' = [placed EXCEPT ![k] = @ + 1]
            /\ moved' = IF object[k] = NoObject THEN moved ELSE moved \cup {k}
       ELSE UNCHANGED <<placed, moved>>
    /\ UNCHANGED <<clock, object, event, blockedKeys, cursor, copy, listing, late>>

Stamp(w) == tx[w].now

End(w) == tx' = [tx EXCEPT ![w] = NoTx]

(* A page that reaches beyond the event was read already.                   *)
Overtaken(at, k) ==
    \/ ~Before(cursor.at, cursor.key, at, k)
    \/ listing # NoPage /\ ~Before(listing.events[listing.last].at, listing.last, at, k)

(* An event of k is committed: it tells of all that happened to k, unless   *)
(* the second it is stamped with is over and a page beyond it was read.     *)
Told(w, k) ==
    /\ moved' = moved \ {k}
    /\ late' = IF Stamp(w) < clock /\ Overtaken(Stamp(w), k) THEN late \cup {k} ELSE late \ {k}

(* The second pinning of a key replaces its row.                            *)
PinObject(w) ==
    /\ tx[w].op = "pin"
    /\ object' = [object EXCEPT ![tx[w].key] = tx[w].version]
    /\ event' = [event EXCEPT ![tx[w].key] = [at |-> Stamp(w), deleted |-> FALSE]]
    /\ Told(w, tx[w].key)
    /\ End(w) /\ UNCHANGED <<clock, begun, placed, blockedKeys, cursor, copy, listing>>

(* The account does not have the slabs, or the transaction fails.  A        *)
(* failure of RecordSlabMigrated is logged and nothing else.                *)
AbortTx(w) ==
    /\ tx[w] # NoTx
    /\ End(w) /\ UNCHANGED <<clock, object, begun, placed, event, blockedKeys, cursor, copy, listing,
                             history>>

DeleteObject(w) ==
    /\ tx[w].op = "delete" /\ object[tx[w].key] # NoObject
    /\ object' = [object EXCEPT ![tx[w].key] = NoObject]
    /\ event' = [event EXCEPT ![tx[w].key] = [at |-> Stamp(w), deleted |-> TRUE]]
    /\ Told(w, tx[w].key)
    /\ End(w) /\ UNCHANGED <<clock, begun, placed, blockedKeys, cursor, copy, listing>>

BlockObject(k) ==
    /\ k \notin blockedKeys /\ clock < MaxClock
    /\ blockedKeys' = blockedKeys \cup {k}
    /\ UNCHANGED <<clock, object, begun, placed, event, tx, cursor, copy, listing, history>>

(* The event of k is stamped again.  (Mutant: it is not.)                   *)
KeptEvent(w, k)   == event
BumpedEvent(w, k) == [event EXCEPT ![k].at = Stamp(w)]

(* Only a row that is there is changed.                                     *)
Bump(w, k) ==
    IF event[k] = NoEvent THEN UNCHANGED <<event, history>>
    ELSE event' = BumpedEvent(w, k) /\ Told(w, k)

(* Clients learn where the sectors of a migrated slab are now.              *)
RecordSlabMigrated(w) ==
    /\ tx[w].op = "migrate"
    /\ IF object[tx[w].key] = NoObject THEN UNCHANGED <<event, history>> ELSE Bump(w, tx[w].key)
    /\ End(w) /\ UNCHANGED <<clock, object, begun, placed, blockedKeys, cursor, copy, listing>>

(* Clients that have paged past a blocked object are to see it again.       *)
UnblockObject(w) ==
    /\ tx[w].op = "unblock"
    /\ blockedKeys' = blockedKeys \ {tx[w].key}
    /\ IF tx[w].key \in blockedKeys THEN Bump(w, tx[w].key) ELSE UNCHANGED <<event, history>>
    /\ End(w) /\ UNCHANGED <<clock, object, begun, placed, cursor, copy, listing>>

-----------------------------------------------------------------------------
(***************************************************************************)
(* Listing                                                                 *)
(***************************************************************************)

AfterCursor(k) == Before(cursor.at, cursor.key, event[k].at, k)

(* The second in progress can still receive events and is withheld.         *)
SecondOver(at) == at < clock

(* The events the query selects.                                            *)
Unseen == {k \in ObjKeys : /\ event[k] # NoEvent /\ AfterCursor(k)
                           /\ SecondOver(event[k].at) /\ k \notin blockedKeys}

Precedes(k, l) == Before(event[k].at, k, event[l].at, l)

(* The first PageLimit events in order, or all of them; last ends the page. *)
IsPage(page, last) ==
    /\ Cardinality(page) = PageLimit \/ (page = Unseen /\ Cardinality(page) < PageLimit)
    /\ \A k \in page, l \in Unseen \ page : Precedes(k, l)
    /\ last \in page /\ \A k \in page \ {last} : Precedes(k, last)

ListObjects ==
    /\ listing = NoPage
    /\ \E page \in SUBSET Unseen : \E last \in page :
          /\ IsPage(page, last)
          /\ listing' = [step |-> "objects", events |-> [k \in page |-> event[k]], last |-> last]
    /\ UNCHANGED <<clock, object, begun, placed, event, blockedKeys, tx, cursor, copy, history>>

Live == {k \in DOMAIN listing.events : ~listing.events[k].deleted}

(* sqlObjectsByKey: an object that has gone since the page was read fails   *)
(* the call, and the client asks again.                                     *)
LoadObjects ==
    /\ listing.step = "objects"
    /\ listing' = IF \E k \in Live : object[k] = NoObject THEN NoPage
                  ELSE [step |-> "slabs", events |-> listing.events, last |-> listing.last,
                        meta |-> [k \in Live |-> object[k]]]
    /\ UNCHANGED <<clock, object, begun, placed, event, blockedKeys, tx, cursor, copy, history>>

(* loadObjectSlabs reads the slabs, which are part of what the object's key *)
(* is made from, and the hosts of their sectors; an object deleted          *)
(* meanwhile has none.  The page goes to the client, whose cursor moves to  *)
(* its last event.                                                          *)
LoadObjectSlabs ==
    /\ listing.step = "slabs"
    /\ copy' = [k \in ObjKeys |->
          IF k \in Live THEN [meta |-> listing.meta[k], slabs |-> Slabs(k)]
          ELSE IF k \in DOMAIN listing.events THEN NoCopy
          ELSE copy[k]]
    /\ cursor' = [at |-> listing.events[listing.last].at, key |-> listing.last]
    /\ listing' = NoPage
    /\ UNCHANGED <<clock, object, begun, placed, event, blockedKeys, tx, history>>

(* A second passes.  No transaction takes more than MaxDelay seconds.       *)
Second ==
    /\ clock < MaxClock
    /\ \A w \in Writers : tx[w] # NoTx => clock - tx[w].now < MaxDelay
    /\ clock' = clock + 1
    /\ UNCHANGED <<object, begun, placed, event, blockedKeys, tx, cursor, copy, listing, history>>

Writes(w) == PinObject(w) \/ DeleteObject(w) \/ UnblockObject(w) \/ RecordSlabMigrated(w)

EventsNext ==
    \/ \E w \in Writers :
          \/ \E op \in {"pin", "delete", "unblock", "migrate"}, k \in ObjKeys : Begin(w, op, k)
          \/ Writes(w) \/ AbortTx(w)
    \/ \E k \in ObjKeys : BlockObject(k)
    \/ ListObjects \/ LoadObjects \/ LoadObjectSlabs \/ Second

EventsSpec == EventsInit /\ [][EventsNext]_eventVars

-----------------------------------------------------------------------------
(***************************************************************************)
(* Properties                                                              *)
(***************************************************************************)

InSync(k) == copy[k] = [meta |-> object[k], slabs |-> Slabs(k)]

(* The cursor never passes an event the client has not seen: an object the  *)
(* client's copy differs from still has an event after the cursor, or in    *)
(* the page being read, unless it is blocked, or its slabs were moved and   *)
(* RecordSlabMigrated has not told so.                                      *)
NothingPassed ==
    \A k \in ObjKeys \ (blockedKeys \cup moved) : ~InSync(k) => AfterCursor(k)

(* However long transactions take, an event is passed only if it was        *)
(* committed after its second, with a page beyond it read already.  No      *)
(* other change is lost to a client: not one torn between two statements of *)
(* a listing, not one of the second in progress, which ListObjects          *)
(* withholds, not one hidden by a block, as UnblockObject stamps the event  *)
(* again, and not a move of sectors that was recorded.                      *)
OnlyLatePassed ==
    \A k \in ObjKeys \ (blockedKeys \cup moved \cup late) : ~InSync(k) => AfterCursor(k)
=============================================================================

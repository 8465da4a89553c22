------------------------------- MODULE Session -------------------------------
(***************************************************************************)
(* session() and rotateSession() of src/session.ts: requests that share a  *)
(* session through its cookie load it, change, destroy or regenerate it in *)
(* their handlers, and write it back from onSend.  The app runs in several *)
(* instances over one store; every call of the store is a step of its own, *)
(* as it is for a store behind a network.                                  *)
(*                                                                         *)
(* The data of a session is the value that rotateSession watches.          *)
(***************************************************************************)
EXTENDS InsertionOrder

CONSTANTS
    Requests, Instances,
    InstanceOf,         \* request -> the instance that serves it
    Does,               \* request -> what its handler may do with the session
    Levels,             \* the watched values; data that was cleared has Cleared
    Cleared,
    StoreKinds,         \* "update": with update() and touch(); "legacy": with neither
    MaxEntries, MaxTombstones, Ttl,
    Rolling, SaveUninitialized,
    MaxSid, MaxNow,     \* bounds on the identifiers and on the clock
    MaxFaults           \* bound on the store calls that fail

ASSUME SessionConstants ==
    /\ InstanceOf \in [Requests -> Instances]
    /\ Does \in [Requests -> SUBSET {"change", "destroy", "regenerate", "throw"}]
    /\ Cleared \in Levels /\ StoreKinds \subseteq {"update", "legacy"}
    /\ MaxEntries \in Nat \ {0} /\ MaxTombstones \in Nat \ {0} /\ Ttl \in Nat \ {0}
    /\ Rolling \in BOOLEAN /\ SaveUninitialized \in BOOLEAN
    /\ MaxSid \in Nat \ {0} /\ MaxNow \in Nat /\ MaxFaults \in Nat

Sids  == 1..MaxSid
NoSid == 0

VARIABLES
    now,
    kind,       \* what the store can do
    store,      \* its map, in insertion order
    tombs,      \* instance -> its tombstones, in insertion order
    reqs,       \* request -> SessionInternal, and where it is
    issued,     \* the ids that were sent in a cookie
    next,       \* the next id that the generator returns
    dead,       \* history: the ids that were destroyed in the store
    faults      \* the store calls that have failed

vars == <<now, kind, store, tombs, reqs, issued, next, dead, faults>>

StoreRecord == [sid : Sids, level : Levels, expiresAt : Nat]
Tombstone   == [sid : Sids, expiresAt : Nat]

RequestRecord ==
    [pc : {"start", "handler", "regenerate", "rotate", "send", "destroy", "write", "set",
           "touch", "done"},
     id : Sids \cup {NoSid},        \* activeId
     orig : Sids \cup {NoSid},      \* originalId
     created : BOOLEAN, dirty : BOOLEAN, destroyed : BOOLEAN, regenerated : BOOLEAN,
     level : Levels, snapshot : Levels,
     failed : BOOLEAN,              \* on the error path
     expiresAt : Nat]               \* of what onSend writes

\* A session that an earlier request has created.
Init ==
    /\ now = 0 /\ kind \in StoreKinds
    /\ \E v \in Levels : store = <<[sid |-> 1, level |-> v, expiresAt |-> Ttl]>>
    /\ tombs = [i \in Instances |-> <<>>]
    /\ reqs = [r \in Requests |->
                  [pc |-> "start", id |-> NoSid, orig |-> NoSid, created |-> FALSE,
                   dirty |-> FALSE, destroyed |-> FALSE, regenerated |-> FALSE,
                   level |-> Cleared, snapshot |-> Cleared, failed |-> FALSE, expiresAt |-> 0]]
    /\ issued = {1} /\ next = 2 /\ dead = {} /\ faults = 0

Live(e) == e.expiresAt > now

-----------------------------------------------------------------------------
(***************************************************************************)
(* MemorySessionStore, and stores with its contract, as functions of the   *)
(* map st.                                                                 *)
(***************************************************************************)
Without(st, sid) == Kept(st, {i \in DOMAIN st : st[i].sid # sid})

Has(st, sid) == \E e \in Elements(st) : e.sid = sid

\* get: an expired record is deleted.
Get(st, sid) == Kept(st, {i \in DOMAIN st : st[i].sid # sid \/ Live(st[i])})

Replaced(st, rec) == [i \in DOMAIN st |-> IF st[i].sid = rec.sid THEN rec ELSE st[i]]

Prune(st) == Kept(st, {i \in DOMAIN st : Live(st[i])})

\* Mutant: the expired records are taken for enough.
MakeRoomBySweep(st) == IF Len(st) < MaxEntries THEN st ELSE Prune(st)

\* prune, then the oldest go
MakeRoom(st) ==
    IF Len(st) < MaxEntries THEN st ELSE Newest(Prune(st), MaxEntries - 1)

Set(st, rec) == IF Has(st, rec.sid) THEN Replaced(st, rec) ELSE Append(MakeRoom(st), rec)

\* Mutant: the record is written whether it is there or not.
UpdateAnyway(st, rec) == Set(st, rec)

\* update, only if the record is still there; touch is the same with the level kept
Update(st, rec) == IF Has(Get(st, rec.sid), rec.sid) THEN Replaced(st, rec) ELSE Get(st, rec.sid)

Touch(st, sid, expiresAt) ==
    [i \in DOMAIN Get(st, sid) |->
        IF Get(st, sid)[i].sid = sid THEN [Get(st, sid)[i] EXCEPT !.expiresAt = expiresAt]
        ELSE Get(st, sid)[i]]

-----------------------------------------------------------------------------
(***************************************************************************)
(* Tombstones.                                                             *)
(***************************************************************************)
\* addTombstone: to the end, the oldest goes if there are too many, and the
\* ones in front that have expired go.
Buried(ts, sid) ==
    LET all == Append(Newest(Without(ts, sid), MaxTombstones - 1),
                      [sid |-> sid, expiresAt |-> now + Ttl])
        n   == CHOOSE i \in 0..Len(all) - 1 :
                  (\A j \in 1..i : ~Live(all[j])) /\ Live(all[i + 1])
    IN  SubSeq(all, n + 1, Len(all))

AddTombstone(r, sid) ==
    tombs' = [tombs EXCEPT ![InstanceOf[r]] = Buried(@, sid)]

IsTombstoned(r, sid) == Has(Get(tombs[InstanceOf[r]], sid), sid)

-----------------------------------------------------------------------------
Becomes(r, rec) == reqs' = [reqs EXCEPT ![r] = rec] /\ UNCHANGED <<now, kind, faults>>

\* beforeHandle of session(), then of rotateSession().  The cookie's signature
\* is valid: its id was issued.
Load(r) ==
    /\ reqs[r].pc = "start"
    /\ \E sid \in issued \cup {NoSid} :
          LET st    == Get(store, sid)
              found == {e \in Elements(st) : e.sid = sid}
          IN  /\ store' = st
              /\ \/ \E e \in found :
                       /\ Becomes(r, [reqs[r] EXCEPT !.pc = "handler", !.id = sid, !.orig = sid,
                                                     !.level = e.level, !.snapshot = e.level])
                       /\ UNCHANGED next
                 \/ /\ found = {} /\ next \in Sids
                    /\ Becomes(r, [reqs[r] EXCEPT !.pc = "handler", !.id = next,
                                                  !.created = TRUE])
                    /\ next' = next + 1
    /\ UNCHANGED <<tombs, issued, dead>>

\* set, delete, or a change through the data proxy
Change(r) ==
    /\ reqs[r].pc = "handler" /\ "change" \in Does[r]
    /\ \E v \in Levels : Becomes(r, [reqs[r] EXCEPT !.level = v, !.dirty = TRUE])
    /\ UNCHANGED <<store, tombs, issued, next, dead>>

Destroy(r) ==
    /\ reqs[r].pc = "handler" /\ "destroy" \in Does[r]
    /\ Becomes(r, [reqs[r] EXCEPT !.level = Cleared, !.destroyed = TRUE, !.dirty = TRUE])
    /\ UNCHANGED <<store, tombs, issued, next, dead>>

\* The rest of regenerate, once the old record is destroyed.
Renamed(rec, keepData, pc) ==
    [rec EXCEPT !.pc = pc, !.id = next, !.orig = NoSid, !.regenerated = TRUE, !.dirty = TRUE,
                !.destroyed = FALSE, !.created = FALSE,
                !.level = IF keepData THEN @ ELSE Cleared]

\* regenerate: a session that was loaded is buried and awaits its destruction.
Regenerate(r, rec, await, pc) ==
    /\ next \in Sids
    /\ IF rec.orig = rec.id
       THEN /\ AddTombstone(r, rec.id)
            /\ Becomes(r, [rec EXCEPT !.pc = await])
            /\ UNCHANGED next
       ELSE /\ \E keepData \in BOOLEAN : Becomes(r, Renamed(rec, keepData, pc))
            /\ next' = next + 1
            /\ UNCHANGED tombs
    /\ UNCHANGED <<store, issued, dead>>

HandlerRegenerates(r) ==
    /\ reqs[r].pc = "handler" /\ "regenerate" \in Does[r]
    /\ Regenerate(r, reqs[r], "regenerate", "handler")

\* store.destroy of regenerate, called by the handler or by rotateSession
Regenerated(r) ==
    /\ reqs[r].pc \in {"regenerate", "rotate"} /\ next \in Sids
    /\ store' = Without(store, reqs[r].id)
    /\ dead' = dead \cup {reqs[r].id}
    /\ next' = next + 1
    /\ \E keepData \in BOOLEAN :
          Becomes(r, Renamed(reqs[r], keepData,
                             IF reqs[r].pc = "rotate" THEN "send" ELSE "handler"))
    /\ UNCHANGED <<tombs, issued>>

\* Mutant: only a gain of privileges counts.
ShouldRotateOnGain(rec) == ~rec.regenerated /\ rec.level # rec.snapshot /\ rec.level # Cleared

\* afterHandle of rotateSession: the id is still the one of the snapshot, and
\* the watched value is not.
ShouldRotate(rec) == ~rec.regenerated /\ rec.level # rec.snapshot

\* The handler returns, and afterHandle runs.
Return(r) ==
    /\ reqs[r].pc = "handler"
    /\ \/ ShouldRotate(reqs[r]) /\ Regenerate(r, reqs[r], "rotate", "send")
       \/ /\ ~ShouldRotate(reqs[r])
          /\ Becomes(r, [reqs[r] EXCEPT !.pc = "send"])
          /\ UNCHANGED <<store, tombs, issued, next, dead>>

\* The handler throws or runs into its deadline: afterHandle is skipped.
Throw(r) ==
    /\ reqs[r].pc = "handler" /\ "throw" \in Does[r]
    /\ Becomes(r, [reqs[r] EXCEPT !.pc = "send", !.failed = TRUE])
    /\ UNCHANGED <<store, tombs, issued, next, dead>>

-----------------------------------------------------------------------------
(***************************************************************************)
(* onSend.                                                                 *)
(***************************************************************************)
Loaded(rec) == rec.orig # NoSid /\ rec.orig = rec.id

MustPersist(rec) == rec.dirty \/ rec.created \/ rec.regenerated

Initialized(rec) == rec.dirty \/ rec.regenerated \/ rec.orig # NoSid

\* The call of the store that the end of the request waits for, or "done".
Plan(r, rec) ==
    CASE rec.destroyed -> IF rec.orig = NoSid THEN "done" ELSE "destroy"
      [] ~rec.destroyed /\ ~Initialized(rec) /\ ~SaveUninitialized -> "done"
      [] ~rec.destroyed /\ Loaded(rec) /\ IsTombstoned(r, rec.id) -> "done"
      [] OTHER -> CASE MustPersist(rec) -> IF Loaded(rec) THEN "write" ELSE "set"
                    [] ~MustPersist(rec) /\ Rolling ->
                          IF kind = "update" THEN "touch" ELSE "write"
                    [] OTHER -> "done"

\* isTombstoned deletes a tombstone that it finds expired.
OnSend(r) ==
    /\ reqs[r].pc = "send"
    /\ Becomes(r, [reqs[r] EXCEPT !.pc = Plan(r, reqs[r]), !.expiresAt = now + Ttl])
    /\ \/ Plan(r, reqs[r]) = "destroy" /\ AddTombstone(r, reqs[r].orig)
       \/ /\ ~reqs[r].destroyed /\ Loaded(reqs[r])
          /\ tombs' = [tombs EXCEPT ![InstanceOf[r]] = Get(@, reqs[r].id)]
       \/ /\ Plan(r, reqs[r]) # "destroy" /\ (reqs[r].destroyed \/ ~Loaded(reqs[r]))
          /\ UNCHANGED tombs
    /\ UNCHANGED <<store, issued, next, dead>>

RecordOf(rec) == [sid |-> rec.id, level |-> rec.level, expiresAt |-> rec.expiresAt]

\* mustWriteCookie
SendsCookie(rec) == rec.created \/ rec.regenerated \/ Rolling

\* The store call is over, with st as the result; the cookie is sent.
Done(r, st, cookie) ==
    /\ store' = st
    /\ Becomes(r, [reqs[r] EXCEPT !.pc = "done"])
    /\ issued' = IF cookie /\ SendsCookie(reqs[r]) THEN issued \cup {reqs[r].id} ELSE issued
    /\ UNCHANGED <<tombs, next>>

DestroyStored(r) ==
    /\ reqs[r].pc = "destroy"
    /\ Done(r, Without(store, reqs[r].orig), FALSE)
    /\ dead' = dead \cup {reqs[r].orig}

\* writeExisting: update(), or get() and then set()
WriteExisting(r) ==
    /\ reqs[r].pc = "write"
    /\ LET there == Has(Get(store, reqs[r].id), reqs[r].id)
       IN  \/ kind = "update" /\ Done(r, Update(store, RecordOf(reqs[r])), there)
           \/ kind = "legacy" /\ ~there /\ Done(r, Get(store, reqs[r].id), FALSE)
           \/ /\ kind = "legacy" /\ there
              /\ Becomes(r, [reqs[r] EXCEPT !.pc = "set"])
              /\ UNCHANGED <<store, tombs, issued, next>>
    /\ UNCHANGED dead

SetStored(r) ==
    /\ reqs[r].pc = "set"
    /\ Done(r, Set(store, RecordOf(reqs[r])), TRUE)
    /\ UNCHANGED dead

TouchStored(r) ==
    /\ reqs[r].pc = "touch"
    /\ Done(r, Touch(store, reqs[r].id, reqs[r].expiresAt), TRUE)
    /\ UNCHANGED dead

-----------------------------------------------------------------------------
\* A store call of r rejects, whether the store performed it or not; or a hook
\* throws behind it.  The request goes on with the error response, for which
\* onSend runs again; what fails there ends it.
Fail(r) ==
    /\ reqs[r].pc \in {"regenerate", "rotate", "destroy", "write", "set", "touch"}
    /\ faults < MaxFaults /\ faults' = faults + 1
    /\ LET sid  == IF reqs[r].pc = "destroy" THEN reqs[r].orig ELSE reqs[r].id
           rec  == RecordOf(reqs[r])
           ends == reqs[r].failed /\ reqs[r].pc \notin {"regenerate", "rotate"}
       IN  /\ \/ UNCHANGED <<store, dead>>
              \/ /\ reqs[r].pc \in {"regenerate", "rotate", "destroy"}
                 /\ store' = Without(store, sid) /\ dead' = dead \cup {sid}
              \/ /\ reqs[r].pc = "write" /\ kind = "update"
                 /\ store' = Update(store, rec) /\ UNCHANGED dead
              \/ reqs[r].pc = "set" /\ store' = Set(store, rec) /\ UNCHANGED dead
              \/ /\ reqs[r].pc = "touch" /\ store' = Touch(store, sid, rec.expiresAt)
                 /\ UNCHANGED dead
           /\ reqs' = [reqs EXCEPT ![r].pc = IF ends THEN "done" ELSE "send",
                                   ![r].failed = TRUE]
    /\ UNCHANGED <<now, kind, tombs, issued, next>>

Tick ==
    /\ now < MaxNow /\ now' = now + 1
    /\ UNCHANGED <<kind, store, tombs, reqs, issued, next, dead, faults>>

Next ==
    \/ Tick
    \/ \E r \in Requests :
          \/ Load(r) \/ Change(r) \/ Destroy(r) \/ HandlerRegenerates(r) \/ Regenerated(r)
          \/ Return(r) \/ Throw(r) \/ Fail(r)
          \/ OnSend(r) \/ DestroyStored(r) \/ WriteExisting(r) \/ SetStored(r) \/ TouchStored(r)

Spec == Init /\ [][Next]_vars

-----------------------------------------------------------------------------
(* The shape of the state; the store holds one record to an id and no more than
   its capacity, and no instance has more tombstones than it may. *)
SessionTypeOK ==
    /\ now \in 0..MaxNow /\ kind \in StoreKinds /\ next \in 1..MaxSid + 1
    /\ store \in Seq(StoreRecord) /\ Len(store) <= MaxEntries
    /\ \A i, j \in DOMAIN store : store[i].sid = store[j].sid => i = j
    /\ \A i \in Instances : tombs[i] \in Seq(Tombstone) /\ Len(tombs[i]) <= MaxTombstones
    /\ reqs \in [Requests -> RequestRecord]
    /\ issued \subseteq Sids /\ dead \subseteq Sids /\ faults \in 0..MaxFaults

(* "A destroyed session cannot be resurrected by a request that was already in
   flight when logout ran", on any instance, and whether the id went by a
   logout or by a rotation: with a store that has update(). *)
NoResurrection == kind = "update" => \A sid \in dead : ~Has(store, sid)

(* The same for a store without update(): "Logout revocation is complete within
   this process". *)
RevocationComplete ==
    Cardinality(Instances) = 1 => \A sid \in dead : ~Has(store, sid)

\* The handler changed the watched value and threw, or the rotation failed.
Bypassed(rec) == rec.failed /\ ~rec.regenerated /\ rec.level # rec.snapshot

(* "Rotate the signed session id when privilege-bearing session data changes
   during a handler": the watched value of an id in the store is never changed
   in place, although several requests load, change, rotate and write back one
   session at once, and their store calls fail; unless the handler of a
   request of that id changed it and threw, or could not rotate. *)
PrivilegesRotate ==
    [][\A e \in Elements(store), f \in Elements(store') :
          e.sid = f.sid /\ e.level # f.level =>
              \E r \in Requests : Bypassed(reqs[r]) /\ reqs[r].orig = e.sid]_vars
=============================================================================

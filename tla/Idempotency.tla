----------------------------- MODULE Idempotency -----------------------------
(***************************************************************************)
(* idempotency() of src/idempotency.ts with its MemoryIdempotencyStore, in *)
(* the life of the requests that carry an Idempotency-Key: the hooks, the  *)
(* deadline, the finalizers, and the error path of App.dispatch.           *)
(*                                                                         *)
(* Requests interleave at awaits.  The steps that are raced against the    *)
(* deadline are "print" (the beforeHandle hooks up to the awaits of the    *)
(* fingerprint and the scope), "rest" (the hooks behind idempotency()) and *)
(* "handler" (the handler and afterHandle).  Then come "send" (the onSend  *)
(* hooks in front of idempotency's), "capture" (its read of the response)  *)
(* and "flush" (the later onSend hooks, onResponse); "catch", "errorSend"  *)
(* and "errorCapture" are the same on the error path; "over" is the end,   *)
(* with or without a response.                                             *)
(*                                                                         *)
(* A response is reduced to what the hook makes of it: "cacheable", or     *)
(* "refused" (cacheableStatus says no, or the client disconnected).        *)
(***************************************************************************)
EXTENDS InsertionOrder

CONSTANTS
    Requests,
    Keys, Prints,   \* store keys (caller and tenant included), fingerprints
    InputsOf,       \* request -> the pairs of a key and a fingerprint it may carry
    MaxEntries, Ttl,
    MaxNow,         \* bound on the clock
    Timed,          \* the requests with a deadline
    OutlivesGrace,  \* the steps that may go on beyond the grace window
    Ahead,          \* the requests with another onSend hook in front of idempotency's
    Torn            \* the requests whose response body may fail while it is read

Raced    == {"print", "rest", "handler"}
InTry    == Raced \cup {"send", "capture", "flush"}

ASSUME IdempotencyConstants ==
    /\ InputsOf \in [Requests -> SUBSET (Keys \X Prints)]
    /\ MaxEntries \in Nat \ {0} /\ Ttl \in Nat \ {0} /\ MaxNow \in Nat
    /\ Timed \subseteq Requests /\ Ahead \subseteq Requests /\ Torn \subseteq Requests
    /\ OutlivesGrace \subseteq Raced

VARIABLES
    now,
    store,  \* the map, in insertion order
    reqs,   \* request -> its dispatch
    lost    \* history: the requests whose record expired or was evicted

vars == <<now, store, reqs, lost>>

\* The reservation token is the request itself.
StoreRecord ==
    [key : Keys, owner : Requests, print : Prints,
     status : {"in-flight", "completed"}, expiresAt : Nat]

RequestRecord ==
    [pc        : {"catch", "errorSend", "errorCapture", "over"} \cup InTry,
     input     : Keys \X Prints,
     pending   : BOOLEAN,                   \* PENDING_STATE_KEY
     fin       : BOOLEAN,                   \* in REQUEST_FINALIZERS
     step      : {"none"} \cup Raced,       \* the abandoned step, while it runs
     abandoned : BOOLEAN,
     deferred  : {"no", "waiting", "done"}] \* afterAbandonedStep

Init ==
    /\ now = 0 /\ store = <<>> /\ lost = {}
    /\ \E input \in {f \in [Requests -> Keys \X Prints] : \A r \in Requests : f[r] \in InputsOf[r]} :
          reqs = [r \in Requests |->
                     [pc |-> "print", input |-> input[r], pending |-> FALSE, fin |-> FALSE,
                      step |-> "none", abandoned |-> FALSE, deferred |-> "no"]]

KeyOf(r) == reqs[r].input[1]

-----------------------------------------------------------------------------
(***************************************************************************)
(* MemoryIdempotencyStore, as functions of the map st.                     *)
(***************************************************************************)
Expired(e) == e.expiresAt <= now

At(st, k) == {e \in Elements(st) : e.key = k}

Owners(st) == {e.owner : e \in Elements(st)}

\* read: an expired record of k is dropped.
Read(st, k) == Kept(st, {i \in DOMAIN st : st[i].key # k \/ ~Expired(st[i])})

Prune(st) == Kept(st, {i \in DOMAIN st : ~Expired(st[i])})

\* Mutant: the sweep of expired records is taken for a bound.
MakeRoomBySweep(st) == IF Len(st) < MaxEntries THEN st ELSE Prune(st)

MakeRoom(st) == IF Len(st) < MaxEntries THEN st ELSE Newest(Prune(st), MaxEntries - 1)

\* reserve: the map afterwards; the caller sees At(Read(st, e.key), e.key).
Reserve(st, e) ==
    LET live == Read(st, e.key)
    IN  IF At(live, e.key) # {} THEN live ELSE Append(MakeRoom(live), e)

\* Mutant: the token of the current record is not looked at.
CompleteUnfenced(st, e) ==
    IF At(st, e.key) = {} THEN Reserve(st, e)
    ELSE [i \in DOMAIN st |-> IF st[i].key = e.key THEN e ELSE st[i]]

\* complete: in place, and never over the record of another request.
Complete(st, e) ==
    IF At(st, e.key) = {} THEN Reserve(st, e)
    ELSE [i \in DOMAIN st |-> IF st[i].key = e.key /\ st[i].owner = e.owner THEN e ELSE st[i]]

\* releaseIfToken
ReleaseIfToken(st, k, r) == Kept(st, {i \in DOMAIN st : st[i].key # k \/ st[i].owner # r})

RecordOf(r, status) ==
    [key |-> KeyOf(r), owner |-> r, print |-> reqs[r].input[2], status |-> status,
     expiresAt |-> now + Ttl]

-----------------------------------------------------------------------------
(***************************************************************************)
(* Steps on the store and the request together.                            *)
(***************************************************************************)
Becomes(r, rec) == reqs' = [reqs EXCEPT ![r] = rec] /\ UNCHANGED now

Only(r, rec) == Becomes(r, rec) /\ UNCHANGED <<store, lost>>

\* r writes st, which may cost others their records.
Puts(r, rec, st) ==
    /\ Becomes(r, rec)
    /\ store' = st
    /\ lost' = lost \cup (Owners(store) \ Owners(st))

Releases(r, rec) ==
    /\ Becomes(r, rec)
    /\ store' = ReleaseIfToken(store, KeyOf(r), r)
    /\ UNCHANGED lost

Goes(r, pc) == Only(r, [reqs[r] EXCEPT !.pc = pc])

\* Mutant: every response is stored or released by onSend, so nothing is left to do.
OrphanedNever(rec) == FALSE

\* The finalizer finds a reservation that onSend has not consumed.
Orphaned(rec) == rec.fin /\ rec.pending

\* runRequestFinalizers, as part of r becoming rec
Finalized(rec) ==
    [rec EXCEPT !.fin = FALSE, !.pending = @ /\ ~rec.fin,
                !.deferred = IF rec.abandoned THEN "done" ELSE @]

Finalize(r, rec) == IF Orphaned(rec) THEN Releases(r, Finalized(rec)) ELSE Only(r, Finalized(rec))

\* The finally block, with r on its way to rec, waits for an abandoned step.
Finally(r, rec) ==
    IF rec.step # "none" THEN Only(r, [rec EXCEPT !.deferred = "waiting"]) ELSE Finalize(r, rec)

\* The abandoned step of r settles: what was deferred to this point runs.
StepOver(r) ==
    LET rec == [reqs[r] EXCEPT !.step = "none"]
    IN  IF rec.deferred = "waiting" THEN Finalize(r, rec) ELSE Only(r, rec)

\* The raced step of r goes on at loc.
Continues(rec, loc) ==
    IF rec.abandoned THEN [rec EXCEPT !.step = loc] ELSE [rec EXCEPT !.pc = loc]

\* The raced step of r has the outcome that leads dispatch to pc.
Settles(r, pc) == IF reqs[r].abandoned THEN StepOver(r) ELSE Goes(r, pc)

Doing(rec, loc) == rec.pc = loc \/ rec.step = loc

-----------------------------------------------------------------------------
(***************************************************************************)
(* The raced steps.                                                        *)
(***************************************************************************)
\* A key that is refused, a scope that cannot be resolved, an earlier hook
\* that throws.
Refuse(r) == Doing(reqs[r], "print") /\ Settles(r, "catch")

\* The rest of beforeHandle, in one step: 422 and 409 are thrown, a completed
\* record is replayed, and otherwise the reservation is the request's.
BeforeHandle(r) ==
    /\ Doing(reqs[r], "print")
    /\ LET mine  == RecordOf(r, "in-flight")
           found == At(Read(store, mine.key), mine.key)
           taken == [reqs[r] EXCEPT !.pending = TRUE, !.fin = TRUE]
       IN  \/ /\ found = {}
              /\ Puts(r, Continues(taken, "rest"), Reserve(store, mine))
           \/ /\ \E e \in found : e.print # mine.print \/ e.status = "in-flight"
              /\ Settles(r, "catch")
           \/ /\ \E e \in found : e.print = mine.print /\ e.status = "completed"
              /\ Settles(r, "send")

\* The hooks behind idempotency() go on to the handler, answer, or throw.  A
\* chain that was abandoned does not reach the handler.
Rest(r) ==
    /\ Doing(reqs[r], "rest")
    /\ \/ \E pc \in {"handler", "send", "catch"} : ~reqs[r].abandoned /\ Goes(r, pc)
       \/ reqs[r].abandoned /\ StepOver(r)

Handler(r) ==
    /\ Doing(reqs[r], "handler")
    /\ \/ \E pc \in {"send", "catch"} : ~reqs[r].abandoned /\ Goes(r, pc)
       \/ reqs[r].abandoned /\ StepOver(r)

Deadline(r) ==
    /\ r \in Timed /\ reqs[r].pc \in Raced
    /\ Only(r, [reqs[r] EXCEPT !.abandoned = TRUE, !.step = reqs[r].pc, !.pc = "catch"])

\* Mutant: an abandoned step is waited for without a limit.
GraceArmedNever(rec) == FALSE

GraceArmed(rec) == rec.deferred = "waiting"

GraceOver(r) ==
    /\ GraceArmed(reqs[r]) /\ reqs[r].step \in OutlivesGrace
    /\ Finalize(r, reqs[r])

-----------------------------------------------------------------------------
(***************************************************************************)
(* onSend of idempotency().                                                *)
(***************************************************************************)
Responses == {"cacheable", "refused"}

\* Mutant: the deadline's response releases the key at once.
MustReleaseAlways(rec, res) == rec.pending /\ res = "refused"

\* A response that is not stored, unless the abandoned handler still runs:
\* then the finalizer has to see to it.
MustRelease(rec, res) == rec.pending /\ res = "refused" /\ ~rec.abandoned

Captures(rec, res) == rec.pending /\ res = "cacheable"

\* The request once the hook has consumed its reservation or left it alone.
Sent(rec, res, capture, next) ==
    [rec EXCEPT !.pending = @ /\ ~MustRelease(rec, res) /\ ~Captures(rec, res),
                !.pc = IF Captures(rec, res) THEN capture ELSE next]

Send(r, capture, next) ==
    \E res \in Responses :
        LET rec == Sent(reqs[r], res, capture, next)
        IN  IF MustRelease(reqs[r], res) THEN Releases(r, rec) ELSE Only(r, rec)

\* A throw before the hook's turn skips it.
OnSend(r) ==
    /\ reqs[r].pc = "send"
    /\ Send(r, "capture", "flush") \/ Goes(r, "catch")

\* The response has been read and is stored, was too large, or failed.
Capture(r) ==
    /\ reqs[r].pc = "capture"
    /\ LET rec == [reqs[r] EXCEPT !.pc = "flush"]
       IN  \/ Puts(r, rec, Complete(store, RecordOf(r, "completed")))
           \/ Releases(r, rec)
           \/ r \in Torn /\ Goes(r, "catch")

OnResponse(r) ==
    /\ reqs[r].pc = "flush"
    /\ Finally(r, [reqs[r] EXCEPT !.pc = "over"]) \/ Goes(r, "catch")

-----------------------------------------------------------------------------
(***************************************************************************)
(* The catch block.  Its response is returned without await: the first     *)
(* onSend hook starts before finally, the ones behind it run after.  Its   *)
(* body fits and can be read.                                              *)
(***************************************************************************)
\* idempotency's hook is the first.
ErrorSendFirst(r) ==
    \E res \in Responses :
        LET rec == Sent(reqs[r], res, "errorCapture", "over")
        IN  IF MustRelease(reqs[r], res)
            THEN Releases(r, IF rec.step # "none" THEN [rec EXCEPT !.deferred = "waiting"]
                             ELSE Finalized(rec))
            ELSE Finally(r, rec)

OnError(r) ==
    /\ reqs[r].pc = "catch"
    /\ \/ Finally(r, [reqs[r] EXCEPT !.pc = "over"])
       \/ r \in Ahead /\ Finally(r, [reqs[r] EXCEPT !.pc = "errorSend"])
       \/ r \notin Ahead /\ ErrorSendFirst(r)

ErrorSend(r) ==
    /\ reqs[r].pc = "errorSend"
    /\ Send(r, "errorCapture", "over") \/ Goes(r, "over")

ErrorCapture(r) ==
    /\ reqs[r].pc = "errorCapture"
    /\ Puts(r, [reqs[r] EXCEPT !.pc = "over"], Complete(store, RecordOf(r, "completed")))

-----------------------------------------------------------------------------
Tick == now < MaxNow /\ now' = now + 1 /\ UNCHANGED <<store, reqs, lost>>

RacedStep(r) == Refuse(r) \/ BeforeHandle(r) \/ Rest(r) \/ Handler(r)

SendStep(r) ==
    \/ OnSend(r) \/ Capture(r) \/ OnResponse(r)
    \/ OnError(r) \/ ErrorSend(r) \/ ErrorCapture(r)

Next ==
    \/ Tick
    \/ \E r \in Requests :
          RacedStep(r) \/ SendStep(r) \/ Deadline(r) \/ GraceOver(r)

Spec == Init /\ [][Next]_vars

\* Timers fire and hooks settle, and none of a request keeps another of its own
\* from its turn for ever.  A raced step of a request with a deadline may hang,
\* until the deadline, and beyond the grace window if it is one of those.
\* The clock need not go on: nothing waits for a record to expire.
Fairness ==
    /\ \A r \in Requests : WF_vars(SendStep(r) \/ Deadline(r) \/ GraceOver(r))
    /\ \A r \in Requests \ Timed : WF_vars(RacedStep(r))
    /\ \A r \in Timed : WF_vars(reqs[r].step \in Raced \ OutlivesGrace /\ RacedStep(r))

FairSpec == Spec /\ Fairness

-----------------------------------------------------------------------------
(* The shape of the state; the map has one record to a key, and the capacity of
   the store bounds it although records are put by reserve and by the late
   completion of a request whose own record was evicted. *)
IdempotencyTypeOK ==
    /\ now \in 0..MaxNow /\ lost \subseteq Requests
    /\ store \in Seq(StoreRecord) /\ Len(store) <= MaxEntries
    /\ \A i, j \in DOMAIN store : store[i].key = store[j].key => i = j
    /\ reqs \in [Requests -> RequestRecord]

\* The handler of rec runs; it does not count once its grace window is over.
Executes(rec) == Doing(rec, "handler") /\ rec.deferred # "done"

(* "Run handler once": two requests with one key do not run their handlers at
   the same time, although the first one may have been answered by the deadline
   already, and a retry may come at any await; eviction or expiry of a record
   is the only thing that can cost it. *)
OneExecution ==
    \A r, s \in Requests :
        r # s /\ KeyOf(r) = KeyOf(s) /\ Executes(reqs[r]) /\ Executes(reqs[s])
            => {r, s} \cap lost # {}

Blocks(r) == \E e \in Elements(store) : e.owner = r /\ e.status = "in-flight"

\* Code of the request is still going to complete or release its reservation:
\* the capture, or a finalizer that has not run yet.
Attended(rec) ==
    \/ rec.pc \in {"capture", "errorCapture"}
    \/ rec.pending /\ rec.fin /\ rec.deferred # "done"

\* The response body fails under the capture.
BodyFails(r) == reqs[r].pc = "capture" /\ reqs'[r].pc = "catch"

\* The reservation is made when the finalizers have run already.
TooLate(rec) == rec.step = "print" /\ rec.deferred = "done"

(* A reservation is completed or released by the request that made it, whichever
   of onSend, finally, the abandoned step and the grace timer comes first: none
   of them gives up a reservation that stands.  Two are left behind all the same,
   and block the key until they expire: one whose response body fails while it
   is captured (docs: a response pipeline that fails releases the key), and one
   made by a step that outlived the grace window. *)
ReservationAttended ==
    [][\A r \in Requests :
          Blocks(r)' /\ ~Attended(reqs'[r]) =>
              BodyFails(r) \/ TooLate(reqs[r]) \/ (Blocks(r) /\ ~Attended(reqs[r]))]_vars

\* A record is put under a key that had none.
Admitted == \E e \in Elements(store') : At(store, e.key) = {}

(* "A request whose reservation was evicted while its handler ran never
   overwrites or deletes a newer request's reservation for the same key", and
   a response that is stored stands: unless it expired, or is the oldest of a
   full store and makes room for another key, a record goes only by a step of
   its own request, and only while it is in flight. *)
RecordStands ==
    [][\A e \in Elements(store) :
          \/ e \in Elements(store')
          \/ Expired(e)
          \/ e = store[1] /\ Len(store) = MaxEntries /\ Admitted
          \/ e.status = "in-flight" /\ reqs'[e.owner] # reqs[e.owner]]_vars

(* A key does not stay blocked by a request that attends to it, not even by one
   whose handler never returns.  (The reservations that nobody attends to are
   the two exceptions of ReservationAttended.) *)
KeyUnblocked ==
    \A r \in Requests : Blocks(r) ~> ~(Blocks(r) /\ Attended(reqs[r]))
=============================================================================

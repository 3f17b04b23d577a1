--------------------------- MODULE OutboxPublisher ----------------------------
(***************************************************************************)
(* The outbox publisher: workers that claim rows of outbox_events under a   *)
(* lease, post them to MH-Core and record the outcome, each database step a *)
(* transaction of its own.                                                  *)
(*                                                                          *)
(* Clocks are not counted.  leaseExpired[e] says locked_at < cutoff and     *)
(* due[e] says available_at <= now; either becomes true at any moment after *)
(* it was reset.  This admits every relation between lease, backoff, HTTP   *)
(* timeout and scheduling, a worker that sleeps through its lease included. *)
(***************************************************************************)
EXTENDS Integers, FiniteSets

CONSTANTS
    Events,        \* rows the business transactions may record
    Workers,       \* publishers running at the same time
    NoOne,         \* locked_by IS NULL, and the holder of a free row lock
    Dead,          \* locked_by of a process that no longer exists
    NoEvent,       \* a worker with no event in hand
    BatchSize,     \* OUTBOX_BATCH_SIZE
    MaxAttempts,   \* OUTBOX_MAX_ATTEMPTS
    MaxCuts        \* bound on claim transactions cut before their commit

ASSUME PublisherConstants ==
    /\ {NoOne, Dead} \cap Workers = {} /\ NoOne # Dead
    /\ NoEvent \notin Events
    /\ IsFiniteSet(Events)
    /\ BatchSize \in Nat \ {0}
    /\ MaxAttempts \in Nat \ {0}
    /\ MaxCuts \in Nat

VARIABLES
    status,        \* status of each row, "absent" before it is recorded
    attempts,      \* attempts of each row
    lockedBy,      \* locked_by of each row
    leaseExpired,  \* locked_at is older than the lease
    due,           \* available_at has passed
    rowLock,       \* holder of the PostgreSQL row lock between two statements
    worker,        \* what each worker is doing
    posts,         \* POST requests made for each event
    late,          \* events with a request still on its way to MH-Core
    accepted,      \* events MH-Core has stored
    cuts           \* claim transactions cut so far

table == <<status, attempts, lockedBy, leaseExpired, due>>
network == <<posts, late, accepted>>
vars == <<table, rowLock, worker, network, cuts>>

-------------------------------------------------------------------------------
Terminal == {"published", "dead_letter"}
Waiting  == {"pending", "failed"}
Statuses == {"absent", "processing"} \cup Waiting \cup Terminal

WorkerState == [pc : {"ready", "claim", "posted", "mark"}, batch : SUBSET Events,
                event : Events \cup {NoEvent},
                result : {"none", "accepted", "retry", "permanent"}]

Idle == [pc |-> "ready", batch |-> {}, event |-> NoEvent, result |-> "none"]

\* The filter every step after the claim applies to its row.
Owns(w, e) == status[e] = "processing" /\ lockedBy[e] = w

\* LIMIT: as many rows of S as fit in a batch.
Limited(S) == {C \in SUBSET S : Cardinality(C) <= BatchSize
                                /\ (C = S \/ Cardinality(C) = BatchSize)}

Init ==
    /\ status = [e \in Events |-> "absent"]
    /\ attempts = [e \in Events |-> 0]
    /\ lockedBy = [e \in Events |-> NoOne]
    /\ leaseExpired = [e \in Events |-> FALSE]
    /\ due = [e \in Events |-> FALSE]
    /\ rowLock = [e \in Events |-> NoOne]
    /\ worker = [w \in Workers |-> Idle]
    /\ posts = [e \in Events |-> 0]
    /\ late = {}
    /\ accepted = {}
    /\ cuts = 0

\* OutboxService.record, committed with the business change.
Record(e) ==
    /\ status[e] = "absent"
    /\ status' = [status EXCEPT ![e] = "pending"]
    /\ UNCHANGED <<attempts, lockedBy, leaseExpired, due, rowLock, worker, network, cuts>>

-------------------------------------------------------------------------------
\* claim_batch, first statement: lock the rows with an expired lease, skipping
\* those another transaction has locked.
ClaimStale(w) ==
    /\ worker[w] = Idle
    /\ \E S \in Limited({e \in Events : /\ status[e] = "processing"
                                        /\ leaseExpired[e] /\ rowLock[e] = NoOne}) :
          rowLock' = [e \in Events |-> IF e \in S THEN w ELSE rowLock[e]]
    /\ worker' = [worker EXCEPT ![w].pc = "claim"]
    /\ UNCHANGED <<table, network, cuts>>

Held(w) == {e \in Events : rowLock[e] = w}

\* The attempt about to be counted is the last one.  The variant compares
\* before counting.
ExhaustedLate(e) == attempts[e] >= MaxAttempts

Exhausted(e) == attempts[e] + 1 >= MaxAttempts

\* Second SELECT of claim_batch: rows due, the ones just recovered included.
Candidates(w) ==
    {e \in Held(w) : ~Exhausted(e)}
    \cup {e \in Events : /\ status[e] \in Waiting /\ due[e]
                         /\ attempts[e] < MaxAttempts /\ rowLock[e] = NoOne}

\* claim_batch, the rest of the transaction: return the recovered rows to the
\* queue or to dead_letter, take a batch under a new lease, commit.
ClaimBatch(w) ==
    /\ worker[w].pc = "claim"
    /\ \E C \in Limited(Candidates(w)) :
        /\ status' = [e \in Events |->
               IF e \in C THEN "processing"
               ELSE IF e \notin Held(w) THEN status[e]
               ELSE IF Exhausted(e) THEN "dead_letter" ELSE "failed"]
        /\ lockedBy' = [e \in Events |->
               IF e \in C THEN w ELSE IF e \in Held(w) THEN NoOne ELSE lockedBy[e]]
        /\ leaseExpired' = [e \in Events |->
               leaseExpired[e] /\ e \notin C \cup Held(w)]
        /\ worker' = [worker EXCEPT ![w] = [Idle EXCEPT !.batch = C]]
    /\ attempts' = [e \in Events |-> IF e \in Held(w) THEN attempts[e] + 1 ELSE attempts[e]]
    /\ due' = [e \in Events |-> due[e] \/ (e \in Held(w) /\ ~Exhausted(e))]
    /\ rowLock' = [e \in Events |-> IF rowLock[e] = w THEN NoOne ELSE rowLock[e]]
    /\ UNCHANGED <<network, cuts>>

\* publish_event up to the POST: _load_owned_snapshot renews the lease, or the
\* event is skipped because the worker has lost it.
LoadOwned(w, e) ==
    /\ worker[w].pc = "ready" /\ e \in worker[w].batch
    /\ rowLock[e] = NoOne
    /\ IF Owns(w, e)
       THEN /\ leaseExpired' = [leaseExpired EXCEPT ![e] = FALSE]
            /\ posts' = [posts EXCEPT ![e] = posts[e] + 1]
            /\ worker' = [worker EXCEPT ![w].pc = "posted", ![w].event = e,
                                        ![w].batch = worker[w].batch \ {e}]
       ELSE /\ worker' = [worker EXCEPT ![w].batch = worker[w].batch \ {e}]
            /\ UNCHANGED <<leaseExpired, posts>>
    /\ UNCHANGED <<status, attempts, lockedBy, due, rowLock, late, accepted, cuts>>

\* The worker has its answer and will write it down.
Answered(w, result) ==
    /\ worker[w].pc = "posted"
    /\ worker' = [worker EXCEPT ![w].pc = "mark", ![w].result = result]
    /\ UNCHANGED <<table, rowLock, posts, cuts>>

\* A 2xx answer whose receipt is valid.
Accepts(w) ==
    /\ Answered(w, "accepted")
    /\ accepted' = accepted \cup {worker[w].event}
    /\ UNCHANGED late

\* A status that is neither 2xx nor retryable.
Refuses(w) == Answered(w, "permanent") /\ UNCHANGED <<late, accepted>>

\* A network error, a retryable status or a 2xx answer without a valid receipt.
\* MH-Core may have stored the event, may store it later, or may never see it.
Fails(w) ==
    /\ Answered(w, "retry")
    /\ \/ UNCHANGED <<late, accepted>>
       \/ accepted' = accepted \cup {worker[w].event} /\ UNCHANGED late
       \/ late' = late \cup {worker[w].event} /\ UNCHANGED accepted

\* A request whose sender stopped waiting arrives, or is lost.
LateArrival(e) ==
    /\ e \in late
    /\ late' = late \ {e}
    /\ accepted' \in {accepted, accepted \cup {e}}
    /\ UNCHANGED <<table, rowLock, worker, posts, cuts>>

-------------------------------------------------------------------------------
\* What _mark_success and _mark_failure write when the row is still owned; the
\* variant forgets the filter on locked_by and status.
MarkAnyway(w, e) == TRUE

MayMark(w, e) == Owns(w, e)

Mark(w, e, outcome) ==
    /\ worker[w].pc = "mark" /\ worker[w].event = e
    /\ rowLock[e] = NoOne
    /\ IF MayMark(w, e)
       THEN /\ status' = [status EXCEPT ![e] = outcome]
            /\ attempts' = [attempts EXCEPT ![e] = attempts[e] + 1]
            /\ lockedBy' = [lockedBy EXCEPT ![e] = NoOne]
            /\ leaseExpired' = [leaseExpired EXCEPT ![e] = FALSE]
            /\ due' = [due EXCEPT ![e] = due[e] /\ outcome # "failed"]
       ELSE UNCHANGED table
    /\ worker' = [worker EXCEPT ![w] = [Idle EXCEPT !.batch = worker[w].batch]]
    /\ UNCHANGED <<rowLock, network, cuts>>

MarkSuccess(w, e) == worker[w].result = "accepted" /\ Mark(w, e, "published")

MarkFailure(w, e) ==
    /\ worker[w].result \in {"retry", "permanent"}
    /\ Mark(w, e, IF worker[w].result = "permanent" \/ Exhausted(e)
                  THEN "dead_letter" ELSE "failed")

\* The transaction in hand is rolled back and the rest of the batch forgotten.
\* A request already sent goes on without its sender.
Abandon(w) ==
    /\ worker[w] # Idle
    /\ IF worker[w].pc = "claim" THEN cuts < MaxCuts /\ cuts' = cuts + 1
                                 ELSE UNCHANGED cuts
    /\ rowLock' = [e \in Events |-> IF rowLock[e] = w THEN NoOne ELSE rowLock[e]]
    /\ late' = late \cup (IF worker[w].pc = "posted" THEN {worker[w].event} ELSE {})
    /\ worker' = [worker EXCEPT ![w] = Idle]
    /\ UNCHANGED <<status, attempts, leaseExpired, due, posts, accepted>>

\* An exception reaches run_forever, which goes on with the same worker_id.
Exception(w) == Abandon(w) /\ UNCHANGED lockedBy

\* The process dies.  Its successor has another worker_id.
Crash(w) ==
    /\ Abandon(w)
    /\ lockedBy' = [e \in Events |-> IF lockedBy[e] = w THEN Dead ELSE lockedBy[e]]

LeaseExpires(e) ==
    /\ status[e] = "processing" /\ ~leaseExpired[e]
    /\ leaseExpired' = [leaseExpired EXCEPT ![e] = TRUE]
    /\ UNCHANGED <<status, attempts, lockedBy, due, rowLock, worker, network, cuts>>

BecomesDue(e) ==
    /\ status[e] \in Waiting /\ ~due[e]
    /\ due' = [due EXCEPT ![e] = TRUE]
    /\ UNCHANGED <<status, attempts, lockedBy, leaseExpired, rowLock, worker, network, cuts>>

Respond(w) == Accepts(w) \/ Refuses(w) \/ Fails(w)

Next ==
    \/ \E e \in Events : Record(e) \/ LateArrival(e) \/ LeaseExpires(e) \/ BecomesDue(e)
    \/ \E w \in Workers :
          \/ ClaimStale(w) \/ ClaimBatch(w) \/ Respond(w) \/ Exception(w) \/ Crash(w)
          \/ \E e \in Events : LoadOwned(w, e) \/ MarkSuccess(w, e) \/ MarkFailure(w, e)

\* run_forever never stops; a POST ends by its timeout; time passes.  Nothing
\* forces a business event, an answer of a given kind, a late arrival, an
\* exception or a crash, and nothing forbids them, any number of times, except
\* for MaxCuts.
Fairness ==
    /\ \A w \in Workers :
          /\ WF_vars(ClaimStale(w)) /\ WF_vars(ClaimBatch(w)) /\ WF_vars(Respond(w))
          /\ WF_vars(\E e \in Events : LoadOwned(w, e))
          /\ WF_vars(\E e \in Events : MarkSuccess(w, e) \/ MarkFailure(w, e))
    /\ \A e \in Events : WF_vars(LeaseExpires(e)) /\ WF_vars(BecomesDue(e))

Spec == Init /\ [][Next]_vars

FairSpec == Spec /\ Fairness

-------------------------------------------------------------------------------
\* The rows, locks, workers and requests have their types.
TypeOK ==
    /\ status \in [Events -> Statuses]
    /\ attempts \in [Events -> Nat]
    /\ lockedBy \in [Events -> Workers \cup {NoOne, Dead}]
    /\ leaseExpired \in [Events -> BOOLEAN]
    /\ due \in [Events -> BOOLEAN]
    /\ rowLock \in [Events -> Workers \cup {NoOne}]
    /\ worker \in [Workers -> WorkerState]
    /\ posts \in [Events -> Nat]
    /\ late \subseteq Events
    /\ accepted \subseteq Events
    /\ cuts \in 0..MaxCuts

\* MH-Core is asked at most OUTBOX_MAX_ATTEMPTS times to take an event, however
\* often workers die, lose their lease in the middle of a request or find the
\* event taken over by another.
PostsBounded == \A e \in Events : posts[e] <= MaxAttempts

\* An event that may still be sent has attempts left: none can stay behind,
\* filtered out of every claim, without being in dead_letter.
NeverStranded ==
    \A e \in Events :
        /\ attempts[e] <= MaxAttempts
        /\ status[e] \notin Terminal => attempts[e] < MaxAttempts

\* The invariant of leases: a row has an owner exactly while it is processing,
\* and a row locked by a claim is one whose lease had expired.
LeaseInv ==
    \A e \in Events :
        /\ status[e] = "processing" <=> lockedBy[e] # NoOne
        /\ rowLock[e] # NoOne
              => status[e] = "processing" /\ worker[rowLock[e]].pc = "claim"

\* The owner of e has not sent the request of this attempt yet.
StillToPost(e) == \E w \in Workers : lockedBy[e] = w /\ e \in worker[w].batch

\* Every request made is paid by an attempt, counted already or about to be.
PostsPaid ==
    \A e \in Events :
        posts[e] <= attempts[e] + (IF status[e] = "processing" /\ ~StillToPost(e)
                                   THEN 1 ELSE 0)

\* Workers record a success only for what MH-Core has stored.
ReceiptsTrue ==
    /\ \A w \in Workers :
          /\ worker[w].pc \in {"posted", "mark"} =>
                /\ worker[w].event \in Events
                /\ status[worker[w].event] # "absent"
          /\ worker[w].pc = "mark" /\ worker[w].result = "accepted"
                => worker[w].event \in accepted
    /\ \A e \in Events : status[e] = "published" => e \in accepted
    /\ \A e \in late : status[e] # "absent"

\* The inductive invariant behind the theorems of OutboxPublisherProofs.
PublisherInv == TypeOK /\ NeverStranded /\ LeaseInv /\ PostsPaid /\ ReceiptsTrue

\* The row as EventDelivery sees it.
Outcome(e) ==
    IF status[e] \in Waiting \cup {"processing"} THEN "pending" ELSE status[e]

Delivery == INSTANCE EventDelivery
    WITH outcome <- [e \in Events |-> Outcome(e)], received <- accepted

\* An event is published only if MH-Core stored it, and published and
\* dead_letter are final.
DeliversSafely == Delivery!DeliverySafety

\* Besides, every recorded event ends published or in dead_letter, although
\* workers may die or raise forever.
Delivers == Delivery!DeliverySpec
===============================================================================

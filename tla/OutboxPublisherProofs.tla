------------------------ MODULE OutboxPublisherProofs -------------------------
(***************************************************************************)
(* Proofs about OutboxPublisher: the lease invariant is inductive, requests *)
(* to MH-Core are bounded by the attempts, and the publisher implements the *)
(* safety part of EventDelivery, for any number of events and workers and   *)
(* any batch size and number of attempts.                                   *)
(***************************************************************************)
EXTENDS OutboxPublisher, TLAPS

\* The records a worker goes through.
LEMMA WorkerRecords ==
    /\ Idle \in WorkerState /\ Idle.pc = "ready" /\ Idle.batch = {}
    /\ \A C \in SUBSET Events :
          /\ [Idle EXCEPT !.batch = C] \in WorkerState
          /\ [Idle EXCEPT !.batch = C].pc = "ready"
          /\ [Idle EXCEPT !.batch = C].batch = C
  BY PublisherConstants DEF Idle, WorkerState

LEMMA LimitedSubset ==
    ASSUME NEW S, NEW C \in Limited(S)
    PROVE  C \subseteq S
  BY DEF Limited

LEMMA InitInv == Init => PublisherInv
  <1> SUFFICES ASSUME Init PROVE PublisherInv
    OBVIOUS
  <1>1. TypeOK
    BY WorkerRecords, PublisherConstants DEF Init, TypeOK, Statuses
  <1>2. NeverStranded
    BY PublisherConstants DEF Init, NeverStranded
  <1>3. LeaseInv
    BY DEF Init, LeaseInv
  <1>4. PostsPaid
    BY DEF Init, PostsPaid
  <1>5. ReceiptsTrue
    BY WorkerRecords DEF Init, ReceiptsTrue
  <1>6. QED
    BY <1>1, <1>2, <1>3, <1>4, <1>5 DEF PublisherInv

\* A step that only moves clocks, or takes locks on rows whose lease expired,
\* or lets a request arrive, keeps the promises about attempts and requests.
LEMMA RecordInv ==
    ASSUME PublisherInv, NEW e \in Events, Record(e)
    PROVE  PublisherInv'
  <1>1. TypeOK'
    BY DEF PublisherInv, TypeOK, Record, table, network, Statuses, Waiting
  <1>2. /\ \A f \in Events : status'[f] = IF f = e THEN "pending" ELSE status[f]
        /\ UNCHANGED <<attempts, lockedBy, rowLock, worker, posts, late, accepted>>
    BY DEF PublisherInv, TypeOK, Record, table, network
  <1>3. status[e] = "absent"
    BY DEF Record
  <1>4. NeverStranded'
    BY <1>2, <1>3 DEF PublisherInv, NeverStranded, Terminal
  <1>5. LeaseInv'
    BY <1>2, <1>3 DEF PublisherInv, LeaseInv
  <1>6. PostsPaid'
    BY <1>2, <1>3 DEF PublisherInv, PostsPaid, StillToPost
  <1>7. ReceiptsTrue'
    BY <1>2, <1>3 DEF PublisherInv, TypeOK, ReceiptsTrue
  <1>8. QED
    BY <1>1, <1>4, <1>5, <1>6, <1>7 DEF PublisherInv

\* Clocks and late requests.
LEMMA ClockInv ==
    ASSUME PublisherInv, NEW e \in Events, LateArrival(e) \/ LeaseExpires(e) \/ BecomesDue(e)
    PROVE  PublisherInv'
  <1>1. TypeOK'
    BY DEF PublisherInv, TypeOK, LateArrival, LeaseExpires, BecomesDue, table, network
  <1>2. /\ UNCHANGED <<status, attempts, lockedBy, rowLock, worker, posts>>
        /\ accepted \subseteq accepted' /\ late' \subseteq late
    BY DEF LateArrival, LeaseExpires, BecomesDue, table, network
  <1>3. NeverStranded' /\ LeaseInv' /\ PostsPaid'
    BY <1>2 DEF PublisherInv, NeverStranded, LeaseInv, PostsPaid, StillToPost
  <1>4. ReceiptsTrue'
    BY <1>2 DEF PublisherInv, ReceiptsTrue
  <1>5. QED
    BY <1>1, <1>3, <1>4 DEF PublisherInv

\* The first statement of a claim locks rows whose lease expired.
LEMMA ClaimStaleInv ==
    ASSUME PublisherInv, NEW w \in Workers, ClaimStale(w)
    PROVE  PublisherInv'
  <1>1. PICK S : /\ S \subseteq {e \in Events : status[e] = "processing" /\ rowLock[e] = NoOne}
                 /\ rowLock' = [e \in Events |-> IF e \in S THEN w ELSE rowLock[e]]
    BY LimitedSubset DEF ClaimStale
  <1>2. /\ UNCHANGED <<status, attempts, lockedBy, leaseExpired, due, posts, late, accepted, cuts>>
        /\ worker' = [worker EXCEPT ![w].pc = "claim"]
    BY DEF ClaimStale, table, network
  <1>3. worker' \in [Workers -> WorkerState]
    BY <1>2 DEF PublisherInv, TypeOK, WorkerState
  <1>4. TypeOK'
    BY <1>1, <1>2, <1>3 DEF PublisherInv, TypeOK
  <1>5. /\ \A v \in Workers : worker'[v].batch = worker[v].batch
        /\ worker'[w].pc = "claim"
        /\ \A v \in Workers \ {w} : worker'[v] = worker[v]
    BY <1>2 DEF PublisherInv, TypeOK, WorkerState
  <1>6. NeverStranded'
    BY <1>2 DEF PublisherInv, NeverStranded
  <1>7. LeaseInv'
    <2>1. ASSUME NEW e \in Events, rowLock'[e] # NoOne
          PROVE  status'[e] = "processing" /\ worker'[rowLock'[e]].pc = "claim"
      <3>1. CASE e \in S
        BY <1>1, <1>2, <1>5, <3>1
      <3>2. CASE e \notin S
        <4>1. rowLock'[e] = rowLock[e] /\ rowLock[e] \in Workers
          BY <1>1, <2>1, <3>2 DEF PublisherInv, TypeOK
        <4>2. status[e] = "processing" /\ worker[rowLock[e]].pc = "claim"
          BY <2>1, <4>1 DEF PublisherInv, LeaseInv
        <4>3. QED
          BY <1>2, <1>5, <4>1, <4>2
      <3>3. QED
        BY <3>1, <3>2
    <2>2. QED
      BY <1>2, <2>1 DEF PublisherInv, LeaseInv
  <1>8. PostsPaid'
    BY <1>2, <1>5 DEF PublisherInv, PostsPaid, StillToPost
  <1>9. ReceiptsTrue'
    BY <1>2, <1>5 DEF PublisherInv, ReceiptsTrue
  <1>10. QED
    BY <1>4, <1>6, <1>7, <1>8, <1>9 DEF PublisherInv

\* What a claim does to each row.
LEMMA ClaimRows ==
    ASSUME PublisherInv, NEW w \in Workers, ClaimBatch(w)
    PROVE  \E C \in SUBSET Events :
        /\ \A e \in C : status[e] \in Waiting \cup {"processing"}
                        /\ (rowLock[e] = w \/ status[e] \in Waiting)
                        /\ attempts'[e] < MaxAttempts
        /\ \A e \in Events :
              /\ status'[e] = IF e \in C THEN "processing"
                              ELSE IF rowLock[e] # w THEN status[e]
                              ELSE IF Exhausted(e) THEN "dead_letter" ELSE "failed"
              /\ lockedBy'[e] = IF e \in C THEN w
                                ELSE IF rowLock[e] = w THEN NoOne ELSE lockedBy[e]
              /\ attempts'[e] = IF rowLock[e] = w THEN attempts[e] + 1 ELSE attempts[e]
              /\ rowLock'[e] = IF rowLock[e] = w THEN NoOne ELSE rowLock[e]
              /\ rowLock[e] = w => status[e] = "processing"
              /\ leaseExpired'[e] \in BOOLEAN /\ due'[e] \in BOOLEAN
        /\ worker' = [worker EXCEPT ![w] = [Idle EXCEPT !.batch = C]]
        /\ worker'[w].batch = C /\ worker'[w].pc = "ready" /\ worker'[w] \in WorkerState
        /\ \A v \in Workers \ {w} : worker'[v] = worker[v]
  <1>1. PICK C \in Limited(Candidates(w)) :
        /\ status' = [e \in Events |->
               IF e \in C THEN "processing"
               ELSE IF e \notin Held(w) THEN status[e]
               ELSE IF Exhausted(e) THEN "dead_letter" ELSE "failed"]
        /\ lockedBy' = [e \in Events |->
               IF e \in C THEN w ELSE IF e \in Held(w) THEN NoOne ELSE lockedBy[e]]
        /\ leaseExpired' = [e \in Events |->
               leaseExpired[e] /\ e \notin C \cup Held(w)]
        /\ worker' = [worker EXCEPT ![w] = [Idle EXCEPT !.batch = C]]
    BY DEF ClaimBatch
  <1>2. /\ attempts' = [e \in Events |-> IF e \in Held(w) THEN attempts[e] + 1 ELSE attempts[e]]
        /\ due' = [e \in Events |-> due[e] \/ (e \in Held(w) /\ ~Exhausted(e))]
        /\ rowLock' = [e \in Events |-> IF rowLock[e] = w THEN NoOne ELSE rowLock[e]]
    BY DEF ClaimBatch
  <1>3. C \subseteq Candidates(w) /\ C \subseteq Events
    BY LimitedSubset DEF Candidates, Held
  <1>4. \A e \in Events : e \in Held(w) <=> rowLock[e] = w
    BY DEF Held
  <1>5. \A e \in Events : rowLock[e] = w => status[e] = "processing"
    BY PublisherConstants DEF PublisherInv, LeaseInv
  <1>6. ASSUME NEW e \in C
        PROVE  status[e] \in Waiting \cup {"processing"}
               /\ (rowLock[e] = w \/ status[e] \in Waiting)
               /\ attempts'[e] < MaxAttempts
    <2>1. CASE e \in Held(w) /\ ~Exhausted(e)
      BY <1>2, <1>3, <1>4, <1>5, <2>1, PublisherConstants
         DEF Exhausted, PublisherInv, TypeOK
    <2>2. CASE status[e] \in Waiting /\ attempts[e] < MaxAttempts /\ rowLock[e] = NoOne
      BY <1>2, <1>3, <1>4, <2>2, PublisherConstants
    <2>3. QED
      BY <1>3, <1>6, <2>1, <2>2 DEF Candidates
  <1>7. /\ worker'[w].batch = C /\ worker'[w].pc = "ready" /\ worker'[w] \in WorkerState
        /\ \A v \in Workers \ {w} : worker'[v] = worker[v]
    <2>1. worker'[w] = [Idle EXCEPT !.batch = C]
      BY <1>1 DEF PublisherInv, TypeOK
    <2>2. QED
      BY <1>1, <1>3, <2>1, WorkerRecords DEF PublisherInv, TypeOK
  <1>8. ASSUME NEW e \in Events
        PROVE  /\ status'[e] = IF e \in C THEN "processing"
                               ELSE IF rowLock[e] # w THEN status[e]
                               ELSE IF Exhausted(e) THEN "dead_letter" ELSE "failed"
               /\ lockedBy'[e] = IF e \in C THEN w
                                 ELSE IF rowLock[e] = w THEN NoOne ELSE lockedBy[e]
               /\ attempts'[e] = IF rowLock[e] = w THEN attempts[e] + 1 ELSE attempts[e]
               /\ rowLock'[e] = IF rowLock[e] = w THEN NoOne ELSE rowLock[e]
    BY <1>1, <1>2, <1>4
  <1>9. \A e \in Events : leaseExpired'[e] \in BOOLEAN /\ due'[e] \in BOOLEAN
    BY <1>1, <1>2 DEF PublisherInv, TypeOK
  <1>10. QED
    BY <1>1, <1>3, <1>5, <1>6, <1>7, <1>8, <1>9

LEMMA ClaimBatchInv ==
    ASSUME PublisherInv, NEW w \in Workers, ClaimBatch(w)
    PROVE  PublisherInv'
  <1>1. PICK C \in SUBSET Events :
        /\ \A e \in C : status[e] \in Waiting \cup {"processing"}
                        /\ (rowLock[e] = w \/ status[e] \in Waiting)
                        /\ attempts'[e] < MaxAttempts
        /\ \A e \in Events :
              /\ status'[e] = IF e \in C THEN "processing"
                              ELSE IF rowLock[e] # w THEN status[e]
                              ELSE IF Exhausted(e) THEN "dead_letter" ELSE "failed"
              /\ lockedBy'[e] = IF e \in C THEN w
                                ELSE IF rowLock[e] = w THEN NoOne ELSE lockedBy[e]
              /\ attempts'[e] = IF rowLock[e] = w THEN attempts[e] + 1 ELSE attempts[e]
              /\ rowLock'[e] = IF rowLock[e] = w THEN NoOne ELSE rowLock[e]
              /\ rowLock[e] = w => status[e] = "processing"
              /\ leaseExpired'[e] \in BOOLEAN /\ due'[e] \in BOOLEAN
        /\ worker' = [worker EXCEPT ![w] = [Idle EXCEPT !.batch = C]]
        /\ worker'[w].batch = C /\ worker'[w].pc = "ready" /\ worker'[w] \in WorkerState
        /\ \A v \in Workers \ {w} : worker'[v] = worker[v]
    BY ClaimRows
  <1>2. UNCHANGED <<posts, late, accepted, cuts>>
    BY DEF ClaimBatch, network
  <1>3. /\ \A e \in Events : attempts[e] \in Nat /\ posts[e] \in Nat
        /\ \A e \in Events : status[e] \in Statuses /\ rowLock[e] \in Workers \cup {NoOne}
        /\ \A e \in Events : lockedBy[e] \in Workers \cup {NoOne, Dead}
        /\ MaxAttempts \in Nat \ {0} /\ NoOne \notin Workers
    BY PublisherConstants DEF PublisherInv, TypeOK
  <1>4. TypeOK'
    <2>1. /\ status' = [e \in Events |-> status'[e]]
          /\ lockedBy' = [e \in Events |-> lockedBy'[e]]
          /\ attempts' = [e \in Events |-> attempts'[e]]
          /\ rowLock' = [e \in Events |-> rowLock'[e]]
          /\ leaseExpired' = [e \in Events |-> leaseExpired'[e]]
          /\ due' = [e \in Events |-> due'[e]]
      BY DEF ClaimBatch
    <2>2. \A e \in Events : status'[e] \in Statuses /\ attempts'[e] \in Nat
      BY <1>1, <1>3 DEF Statuses, Waiting, Terminal
    <2>3. \A e \in Events : /\ lockedBy'[e] \in Workers \cup {NoOne, Dead}
                            /\ rowLock'[e] \in Workers \cup {NoOne}
      BY <1>1, <1>3
    <2>4. worker' \in [Workers -> WorkerState]
      BY <1>1 DEF PublisherInv, TypeOK
    <2>5. status' \in [Events -> Statuses] /\ attempts' \in [Events -> Nat]
      BY <2>1, <2>2
    <2>6. /\ lockedBy' \in [Events -> Workers \cup {NoOne, Dead}]
          /\ rowLock' \in [Events -> Workers \cup {NoOne}]
      BY <2>1, <2>3
    <2>7. leaseExpired' \in [Events -> BOOLEAN] /\ due' \in [Events -> BOOLEAN]
      BY <1>1, <2>1
    <2>8. QED
      BY <1>2, <2>4, <2>5, <2>6, <2>7 DEF PublisherInv, TypeOK
  <1>5. NeverStranded'
    <2> SUFFICES ASSUME NEW e \in Events
                 PROVE  /\ attempts'[e] <= MaxAttempts
                        /\ status'[e] \notin Terminal => attempts'[e] < MaxAttempts
      BY DEF NeverStranded
    <2>1. /\ attempts[e] <= MaxAttempts
          /\ status[e] \notin Terminal => attempts[e] < MaxAttempts
      BY DEF PublisherInv, NeverStranded
    <2>2. CASE e \in C
      BY <1>1, <1>3, <2>2
    <2>3. CASE e \notin C /\ rowLock[e] # w
      BY <1>1, <2>1, <2>3
    <2>4. CASE e \notin C /\ rowLock[e] = w
      BY <1>1, <1>3, <2>1, <2>4 DEF Exhausted, Terminal
    <2>5. QED
      BY <2>2, <2>3, <2>4
  <1>6. LeaseInv'
    <2> SUFFICES ASSUME NEW e \in Events
                 PROVE  /\ status'[e] = "processing" <=> lockedBy'[e] # NoOne
                        /\ rowLock'[e] # NoOne
                           => status'[e] = "processing" /\ worker'[rowLock'[e]].pc = "claim"
      BY DEF LeaseInv
    <2>1. /\ status[e] = "processing" <=> lockedBy[e] # NoOne
          /\ rowLock[e] # NoOne => status[e] = "processing" /\ worker[rowLock[e]].pc = "claim"
      BY DEF PublisherInv, LeaseInv
    <2>2. status'[e] = "processing" <=> lockedBy'[e] # NoOne
      BY <1>1, <1>3, <2>1
    <2>3. ASSUME rowLock'[e] # NoOne
          PROVE  status'[e] = "processing" /\ worker'[rowLock'[e]].pc = "claim"
      <3>1. rowLock[e] \in Workers \ {w} /\ rowLock'[e] = rowLock[e]
        BY <1>1, <1>3, <2>3
      <3>2. QED
        BY <1>1, <2>1, <3>1, <1>3
    <2>4. QED
      BY <2>2, <2>3
  <1>7. PostsPaid'
    <2> SUFFICES ASSUME NEW e \in Events
                 PROVE  posts'[e] <= attempts'[e] +
                           (IF status'[e] = "processing" /\ ~StillToPost(e)' THEN 1 ELSE 0)
      BY DEF PostsPaid
    <2>1. posts[e] <= attempts[e] + (IF status[e] = "processing" /\ ~StillToPost(e)
                                     THEN 1 ELSE 0)
      BY DEF PublisherInv, PostsPaid
    <2>2. CASE rowLock[e] = w
      BY <1>1, <1>2, <1>3, <2>1, <2>2
    <2>3. CASE rowLock[e] # w /\ e \in C
      BY <1>1, <1>2, <1>3, <2>1, <2>3 DEF Waiting
    <2>4. CASE rowLock[e] # w /\ e \notin C
      <3>1. attempts'[e] = attempts[e] /\ status'[e] = status[e] /\ lockedBy'[e] = lockedBy[e]
        BY <1>1, <2>4
      <3>2. StillToPost(e)' => StillToPost(e)
        <4>1. ASSUME NEW v \in Workers, lockedBy'[e] = v, e \in worker'[v].batch
              PROVE  v # w /\ e \in worker[v].batch
          BY <1>1, <2>4, <4>1
        <4>2. QED
          BY <3>1, <4>1 DEF StillToPost
      <3>3. QED
        BY <1>2, <1>3, <2>1, <3>1, <3>2
    <2>5. QED
      BY <2>2, <2>3, <2>4
  <1>8. ReceiptsTrue'
    <2>1. ReceiptsTrue /\ TypeOK
      BY DEF PublisherInv
    <2>2. \A e \in Events : status[e] # "absent" => status'[e] # "absent"
      BY <1>1, <1>3
    <2>3. \A e \in Events : status'[e] = "published" => status[e] = "published"
      BY <1>1
    <2>4. QED
      BY <1>1, <1>2, <2>1, <2>2, <2>3 DEF ReceiptsTrue, TypeOK
  <1>9. QED
    BY <1>4, <1>5, <1>6, <1>7, <1>8 DEF PublisherInv

LEMMA LoadOwnedInv ==
    ASSUME PublisherInv, NEW w \in Workers, NEW e \in Events, LoadOwned(w, e)
    PROVE  PublisherInv'
  <1>1. /\ UNCHANGED <<status, attempts, lockedBy, due, rowLock, late, accepted, cuts>>
        /\ worker[w].pc = "ready" /\ e \in worker[w].batch
    BY DEF LoadOwned
  <1>2. TypeOK /\ NeverStranded /\ LeaseInv /\ PostsPaid /\ ReceiptsTrue
    BY DEF PublisherInv
  <1>3. NeverStranded'
    BY <1>1, <1>2 DEF NeverStranded
  <1>4. \A v \in Workers \ {w} : worker'[v] = worker[v]
    BY <1>2 DEF LoadOwned, TypeOK
  <1>5. \A f \in Events : rowLock[f] # w
    BY <1>1, <1>2, PublisherConstants DEF LeaseInv
  <1>6. LeaseInv'
    <2>1. ASSUME NEW f \in Events, rowLock[f] # NoOne
          PROVE  worker'[rowLock[f]] = worker[rowLock[f]]
      BY <1>2, <1>4, <1>5, <2>1 DEF TypeOK
    <2>2. QED
      BY <1>1, <1>2, <2>1 DEF LeaseInv
  <1>7. CASE Owns(w, e)
    <2>1. /\ leaseExpired' = [leaseExpired EXCEPT ![e] = FALSE]
          /\ posts' = [posts EXCEPT ![e] = posts[e] + 1]
          /\ worker' = [worker EXCEPT ![w].pc = "posted", ![w].event = e,
                                      ![w].batch = worker[w].batch \ {e}]
      BY <1>7 DEF LoadOwned
    <2>2. /\ worker'[w].pc = "posted" /\ worker'[w].event = e
          /\ worker'[w].batch = worker[w].batch \ {e}
          /\ worker' \in [Workers -> WorkerState]
      <3>1. worker[w] \in WorkerState /\ worker \in [Workers -> WorkerState]
        BY <1>2 DEF TypeOK
      <3> DEFINE r == [worker[w] EXCEPT !.pc = "posted", !.event = e,
                                        !.batch = worker[w].batch \ {e}]
      <3>2. worker' = [worker EXCEPT ![w] = r]
        BY <2>1, <3>1
      <3>3. /\ r.pc = "posted" /\ r.event = e /\ r.batch = worker[w].batch \ {e}
            /\ r.result = worker[w].result
        BY <3>1 DEF WorkerState
      <3>4. r \in WorkerState
        BY <3>1 DEF WorkerState
      <3> HIDE DEF r
      <3>5. QED
        BY <3>1, <3>2, <3>3, <3>4
    <2>3. TypeOK'
      BY <1>1, <1>2, <2>1, <2>2 DEF TypeOK
    <2>4. PostsPaid'
      <3> SUFFICES ASSUME NEW f \in Events
                   PROVE  posts'[f] <= attempts'[f] +
                           (IF status'[f] = "processing" /\ ~StillToPost(f)' THEN 1 ELSE 0)
        BY DEF PostsPaid
      <3>1. posts[f] <= attempts[f] + (IF status[f] = "processing" /\ ~StillToPost(f)
                                       THEN 1 ELSE 0)
            /\ posts[f] \in Nat /\ attempts[f] \in Nat
        BY <1>2 DEF PostsPaid, TypeOK
      <3>2. CASE f = e
        <4>1. StillToPost(e)
          BY <1>1, <1>7 DEF StillToPost, Owns
        <4>2. ~StillToPost(e)'
          BY <1>1, <1>7, <2>2 DEF StillToPost, Owns
        <4>3. posts'[f] = posts[f] + 1 /\ status'[f] = "processing" /\ attempts'[f] = attempts[f]
          BY <1>1, <1>2, <1>7, <2>1, <3>2 DEF TypeOK, Owns
        <4>4. QED
          BY <3>1, <3>2, <4>1, <4>2, <4>3
      <3>3. CASE f # e
        <4>1. StillToPost(f)' => StillToPost(f)
          BY <1>1, <1>4, <2>2 DEF StillToPost
        <4>2. posts'[f] = posts[f]
          BY <1>2, <2>1, <3>3 DEF TypeOK
        <4>3. QED
          BY <1>1, <3>1, <4>1, <4>2
      <3>4. QED
        BY <3>2, <3>3
    <2>5. ReceiptsTrue'
      BY <1>1, <1>2, <1>4, <1>7, <2>2 DEF ReceiptsTrue, Owns
    <2>6. QED
      BY <1>3, <1>6, <2>3, <2>4, <2>5 DEF PublisherInv
  <1>8. CASE ~Owns(w, e)
    <2>1. /\ worker' = [worker EXCEPT ![w].batch = worker[w].batch \ {e}]
          /\ UNCHANGED <<leaseExpired, posts>>
      BY <1>8 DEF LoadOwned
    <2>2. /\ worker'[w].pc = "ready" /\ worker'[w].batch = worker[w].batch \ {e}
          /\ worker' \in [Workers -> WorkerState]
      BY <1>1, <1>2, <2>1 DEF TypeOK, WorkerState
    <2>3. TypeOK'
      BY <1>1, <1>2, <2>1, <2>2 DEF TypeOK
    <2>4. PostsPaid'
      <3> SUFFICES ASSUME NEW f \in Events
                   PROVE  posts'[f] <= attempts'[f] +
                           (IF status'[f] = "processing" /\ ~StillToPost(f)' THEN 1 ELSE 0)
        BY DEF PostsPaid
      <3>1. posts[f] <= attempts[f] + (IF status[f] = "processing" /\ ~StillToPost(f)
                                       THEN 1 ELSE 0)
            /\ posts[f] \in Nat /\ attempts[f] \in Nat
        BY <1>2 DEF PostsPaid, TypeOK
      <3>2. StillToPost(f)' => StillToPost(f)
        BY <1>1, <1>4, <2>2 DEF StillToPost
      <3>3. QED
        BY <1>1, <2>1, <3>1, <3>2
    <2>5. ReceiptsTrue'
      BY <1>1, <1>2, <1>4, <2>2 DEF ReceiptsTrue
    <2>6. QED
      BY <1>3, <1>6, <2>3, <2>4, <2>5 DEF PublisherInv
  <1>9. QED
    BY <1>7, <1>8

LEMMA RespondInv ==
    ASSUME PublisherInv, NEW w \in Workers, Respond(w)
    PROVE  PublisherInv'
  <1>1. PICK result \in {"accepted", "retry", "permanent"} :
          /\ Answered(w, result)
          /\ result = "accepted" => accepted' = accepted \cup {worker[w].event}
          /\ accepted' \in {accepted, accepted \cup {worker[w].event}}
          /\ late' \in {late, late \cup {worker[w].event}}
    BY DEF Respond, Accepts, Refuses, Fails
  <1>2. /\ UNCHANGED <<table, rowLock, posts, cuts>>
        /\ worker[w].pc = "posted"
        /\ worker' = [worker EXCEPT ![w].pc = "mark", ![w].result = result]
    BY <1>1 DEF Answered
  <1>3. TypeOK /\ NeverStranded /\ LeaseInv /\ PostsPaid /\ ReceiptsTrue
    BY DEF PublisherInv
  <1>4. worker[w].event \in Events /\ status[worker[w].event] # "absent"
    BY <1>2, <1>3 DEF ReceiptsTrue
  <1>5. /\ worker'[w].pc = "mark" /\ worker'[w].result = result
        /\ worker'[w].event = worker[w].event /\ worker'[w].batch = worker[w].batch
        /\ worker' \in [Workers -> WorkerState]
        /\ \A v \in Workers \ {w} : worker'[v] = worker[v]
    BY <1>2, <1>3 DEF TypeOK, WorkerState
  <1>6. TypeOK'
    BY <1>1, <1>2, <1>3, <1>4, <1>5 DEF TypeOK, table
  <1>7. NeverStranded'
    BY <1>2, <1>3 DEF NeverStranded, table
  <1>8. LeaseInv'
    <2>1. ASSUME NEW f \in Events, rowLock[f] # NoOne
          PROVE  worker'[rowLock[f]] = worker[rowLock[f]]
      BY <1>2, <1>3, <1>5, <2>1 DEF TypeOK, LeaseInv
    <2>2. QED
      BY <1>2, <1>3, <2>1 DEF LeaseInv, table
  <1>9. PostsPaid'
    BY <1>2, <1>3, <1>5 DEF PostsPaid, StillToPost, table
  <1>10. ReceiptsTrue'
    BY <1>1, <1>2, <1>3, <1>4, <1>5 DEF ReceiptsTrue, table
  <1>11. QED
    BY <1>6, <1>7, <1>8, <1>9, <1>10 DEF PublisherInv

LEMMA MarkInv ==
    ASSUME PublisherInv, NEW w \in Workers, NEW e \in Events,
           MarkSuccess(w, e) \/ MarkFailure(w, e)
    PROVE  PublisherInv'
  <1>1. TypeOK /\ NeverStranded /\ LeaseInv /\ PostsPaid /\ ReceiptsTrue
    BY DEF PublisherInv
  <1>2. PICK outcome \in {"published", "failed", "dead_letter"} :
          /\ Mark(w, e, outcome)
          /\ outcome = "published" => e \in accepted
          /\ outcome = "failed" => ~Exhausted(e)
    <2>1. CASE MarkSuccess(w, e)
      <3>1. e \in accepted
        BY <1>1, <2>1 DEF MarkSuccess, Mark, ReceiptsTrue
      <3>2. QED
        BY <2>1, <3>1 DEF MarkSuccess
    <2>2. CASE MarkFailure(w, e)
      BY <2>2 DEF MarkFailure
    <2>3. QED
      BY <2>1, <2>2
  <1>3. /\ worker[w].pc = "mark" /\ worker[w].event = e /\ rowLock[e] = NoOne
        /\ worker' = [worker EXCEPT ![w] = [Idle EXCEPT !.batch = worker[w].batch]]
        /\ UNCHANGED <<rowLock, posts, late, accepted, cuts>>
    BY <1>2 DEF Mark, network
  <1>4. /\ worker'[w].pc = "ready" /\ worker'[w].batch = worker[w].batch
        /\ worker' \in [Workers -> WorkerState]
        /\ \A v \in Workers \ {w} : worker'[v] = worker[v]
    <2>1. worker[w].batch \in SUBSET Events /\ worker \in [Workers -> WorkerState]
      BY <1>1 DEF TypeOK, WorkerState
    <2>2. worker'[w] = [Idle EXCEPT !.batch = worker[w].batch]
      BY <1>3, <2>1
    <2>3. QED
      BY <1>3, <2>1, <2>2, WorkerRecords
  <1>5. \A f \in Events : rowLock[f] # NoOne => worker'[rowLock[f]] = worker[rowLock[f]]
    BY <1>1, <1>3, <1>4 DEF TypeOK, LeaseInv
  <1>6. \A f \in Events : (\E v \in Workers : lockedBy[f] = v /\ f \in worker'[v].batch)
                          <=> StillToPost(f)
    BY <1>4 DEF StillToPost
  <1>7. CASE Owns(w, e)
    <2>1. /\ status' = [status EXCEPT ![e] = outcome]
          /\ attempts' = [attempts EXCEPT ![e] = attempts[e] + 1]
          /\ lockedBy' = [lockedBy EXCEPT ![e] = NoOne]
          /\ leaseExpired' = [leaseExpired EXCEPT ![e] = FALSE]
          /\ due' = [due EXCEPT ![e] = due[e] /\ outcome # "failed"]
      BY <1>2, <1>7 DEF Mark, MayMark
    <2>2. TypeOK'
      <3>1. outcome \in Statuses
        BY DEF Statuses, Waiting, Terminal
      <3>2. due' \in [Events -> BOOLEAN]
        BY <1>1, <2>1 DEF TypeOK
      <3>3. QED
        BY <1>1, <1>3, <1>4, <2>1, <3>1, <3>2 DEF TypeOK
    <2>3. \A f \in Events :
             /\ status'[f] = IF f = e THEN outcome ELSE status[f]
             /\ attempts'[f] = IF f = e THEN attempts[e] + 1 ELSE attempts[f]
             /\ lockedBy'[f] = IF f = e THEN NoOne ELSE lockedBy[f]
      BY <1>1, <2>1 DEF TypeOK
    <2>4. status[e] = "processing" /\ attempts[e] < MaxAttempts /\ attempts[e] \in Nat
          /\ MaxAttempts \in Nat
      BY <1>1, <1>7, PublisherConstants DEF Owns, NeverStranded, Terminal, TypeOK
    <2>5. NeverStranded'
      BY <1>1, <1>2, <2>3, <2>4 DEF NeverStranded, Exhausted, Terminal
    <2>6. LeaseInv'
      BY <1>1, <1>3, <1>5, <2>3 DEF LeaseInv
    <2>7. PostsPaid'
      <3> SUFFICES ASSUME NEW f \in Events
                   PROVE  posts'[f] <= attempts'[f] +
                           (IF status'[f] = "processing" /\ ~StillToPost(f)' THEN 1 ELSE 0)
        BY DEF PostsPaid
      <3>1. posts[f] <= attempts[f] + (IF status[f] = "processing" /\ ~StillToPost(f)
                                       THEN 1 ELSE 0)
            /\ posts[f] \in Nat /\ attempts[f] \in Nat
        BY <1>1 DEF PostsPaid, TypeOK
      <3>2. CASE f = e
        BY <1>3, <2>3, <3>1, <3>2
      <3>3. CASE f # e
        <4>1. StillToPost(f)' <=> StillToPost(f)
          BY <1>6, <2>3, <3>3 DEF StillToPost
        <4>2. QED
          BY <1>3, <2>3, <3>1, <3>3, <4>1
      <3>4. QED
        BY <3>2, <3>3
    <2>8. ReceiptsTrue'
      BY <1>1, <1>2, <1>3, <1>4, <2>3 DEF ReceiptsTrue, TypeOK
    <2>9. QED
      BY <2>2, <2>5, <2>6, <2>7, <2>8 DEF PublisherInv
  <1>8. CASE ~Owns(w, e)
    <2>1. UNCHANGED <<status, attempts, lockedBy, leaseExpired, due>>
      BY <1>2, <1>8 DEF Mark, MayMark, table
    <2>2. TypeOK'
      BY <1>1, <1>3, <1>4, <2>1 DEF TypeOK
    <2>3. NeverStranded'
      BY <1>1, <2>1 DEF NeverStranded
    <2>4. LeaseInv'
      BY <1>1, <1>3, <1>5, <2>1 DEF LeaseInv
    <2>5. PostsPaid'
      <3>1. \A f \in Events : StillToPost(f)' <=> StillToPost(f)
        BY <1>6, <2>1 DEF StillToPost
      <3>2. QED
        BY <1>1, <1>3, <2>1, <3>1 DEF PostsPaid
    <2>6. ReceiptsTrue'
      BY <1>1, <1>3, <1>4, <2>1 DEF ReceiptsTrue
    <2>7. QED
      BY <2>2, <2>3, <2>4, <2>5, <2>6 DEF PublisherInv
  <1>9. QED
    BY <1>7, <1>8

LEMMA AbandonInv ==
    ASSUME PublisherInv, NEW w \in Workers, Exception(w) \/ Crash(w)
    PROVE  PublisherInv'
  <1>1. TypeOK /\ NeverStranded /\ LeaseInv /\ PostsPaid /\ ReceiptsTrue
    BY DEF PublisherInv
  <1>2. /\ rowLock' = [f \in Events |-> IF rowLock[f] = w THEN NoOne ELSE rowLock[f]]
        /\ late' = late \cup (IF worker[w].pc = "posted" THEN {worker[w].event} ELSE {})
        /\ worker' = [worker EXCEPT ![w] = Idle]
        /\ UNCHANGED <<status, attempts, leaseExpired, due, posts, accepted>>
        /\ \/ worker[w].pc = "claim" /\ cuts < MaxCuts /\ cuts' = cuts + 1
           \/ cuts' = cuts
    BY DEF Exception, Crash, Abandon
  <1>3. /\ lockedBy' \in [Events -> Workers \cup {NoOne, Dead}]
        /\ \A f \in Events :
              /\ lockedBy'[f] = NoOne <=> lockedBy[f] = NoOne
              /\ lockedBy'[f] \in {lockedBy[f], Dead}
    BY <1>1, PublisherConstants DEF Exception, Crash, TypeOK
  <1>4. /\ worker'[w] = Idle /\ worker' \in [Workers -> WorkerState]
        /\ \A v \in Workers \ {w} : worker'[v] = worker[v]
    BY <1>1, <1>2, WorkerRecords DEF TypeOK
  <1>5. TypeOK'
    <2>1. late' \subseteq Events
      BY <1>1, <1>2 DEF TypeOK, ReceiptsTrue
    <2>2. cuts' \in 0..MaxCuts
      BY <1>1, <1>2, PublisherConstants DEF TypeOK
    <2>3. rowLock' \in [Events -> Workers \cup {NoOne}]
      BY <1>1, <1>2 DEF TypeOK
    <2>4. QED
      BY <1>1, <1>2, <1>3, <1>4, <2>1, <2>2, <2>3 DEF TypeOK
  <1>6. NeverStranded'
    BY <1>1, <1>2 DEF NeverStranded
  <1>7. LeaseInv'
    <2>1. ASSUME NEW f \in Events, rowLock'[f] # NoOne
          PROVE  status[f] = "processing" /\ worker'[rowLock'[f]].pc = "claim"
      <3>1. rowLock'[f] = rowLock[f] /\ rowLock[f] \in Workers \ {w}
        BY <1>1, <1>2, <2>1 DEF TypeOK
      <3>2. QED
        BY <1>1, <1>4, <2>1, <3>1 DEF LeaseInv
    <2>2. QED
      BY <1>1, <1>2, <1>3, <2>1 DEF LeaseInv
  <1>8. PostsPaid'
    <2> SUFFICES ASSUME NEW f \in Events
                 PROVE  posts'[f] <= attempts'[f] +
                         (IF status'[f] = "processing" /\ ~StillToPost(f)' THEN 1 ELSE 0)
      BY DEF PostsPaid
    <2>1. posts[f] <= attempts[f] + (IF status[f] = "processing" /\ ~StillToPost(f)
                                     THEN 1 ELSE 0)
          /\ posts[f] \in Nat /\ attempts[f] \in Nat
      BY <1>1 DEF PostsPaid, TypeOK
    <2>2. StillToPost(f)' => StillToPost(f)
      <3>1. ASSUME NEW v \in Workers, lockedBy'[f] = v, f \in worker'[v].batch
            PROVE  lockedBy[f] = v /\ f \in worker[v].batch
        BY <1>3, <1>4, <3>1, WorkerRecords, PublisherConstants
      <3>2. QED
        BY <3>1 DEF StillToPost
    <2>3. QED
      BY <1>2, <2>1, <2>2
  <1>9. ReceiptsTrue'
    BY <1>1, <1>2, <1>4, WorkerRecords DEF ReceiptsTrue, TypeOK
  <1>10. QED
    BY <1>5, <1>6, <1>7, <1>8, <1>9 DEF PublisherInv

LEMMA StepInv == PublisherInv /\ [Next]_vars => PublisherInv'
  <1> SUFFICES ASSUME PublisherInv, [Next]_vars
               PROVE  PublisherInv'
    OBVIOUS
  <1>1. CASE UNCHANGED vars
    <2>1. TypeOK' /\ NeverStranded' /\ LeaseInv'
      BY <1>1 DEF vars, table, network, PublisherInv, TypeOK, NeverStranded, LeaseInv
    <2>2. PostsPaid' /\ ReceiptsTrue'
      BY <1>1 DEF vars, table, network, PublisherInv, PostsPaid, StillToPost, ReceiptsTrue
    <2>3. QED
      BY <2>1, <2>2 DEF PublisherInv
  <1>2. ASSUME NEW e \in Events, Record(e) \/ LateArrival(e) \/ LeaseExpires(e) \/ BecomesDue(e)
        PROVE  PublisherInv'
    BY <1>2, RecordInv, ClockInv
  <1>3. ASSUME NEW w \in Workers, ClaimStale(w) \/ ClaimBatch(w) \/ Respond(w)
                                  \/ Exception(w) \/ Crash(w)
        PROVE  PublisherInv'
    BY <1>3, ClaimStaleInv, ClaimBatchInv, RespondInv, AbandonInv
  <1>4. ASSUME NEW w \in Workers, NEW e \in Events,
               LoadOwned(w, e) \/ MarkSuccess(w, e) \/ MarkFailure(w, e)
        PROVE  PublisherInv'
    BY <1>4, LoadOwnedInv, MarkInv
  <1>5. QED
    BY <1>1, <1>2, <1>3, <1>4 DEF Next

-------------------------------------------------------------------------------
\* Leases, attempts, requests and receipts agree in every reachable state.
THEOREM PublisherInvariant == Spec => []PublisherInv
  BY InitInv, StepInv, PTL DEF Spec

\* No interleaving of claims, takeovers, crashes and late marks makes the
\* publisher post an event more than OUTBOX_MAX_ATTEMPTS times.
THEOREM PostsNeverExceed == Spec => []PostsBounded
  <1>1. PublisherInv => PostsBounded
    <2> SUFFICES ASSUME PublisherInv, NEW e \in Events
                 PROVE  posts[e] <= MaxAttempts
      BY DEF PostsBounded
    <2>1. /\ attempts[e] <= MaxAttempts
          /\ status[e] \notin Terminal => attempts[e] < MaxAttempts
          /\ posts[e] <= attempts[e] + (IF status[e] = "processing" /\ ~StillToPost(e)
                                        THEN 1 ELSE 0)
          /\ posts[e] \in Nat /\ attempts[e] \in Nat /\ MaxAttempts \in Nat
      BY PublisherConstants DEF PublisherInv, NeverStranded, PostsPaid, TypeOK
    <2>2. QED
      BY <2>1 DEF Terminal
  <1>2. QED
    BY <1>1, PublisherInvariant, PTL

\* The publisher implements the safety part of EventDelivery: what it calls
\* published MH-Core has stored, and an event that was settled stays settled.
THEOREM DeliveryIsSafe == Spec => DeliversSafely
  <1> DEFINE out == [e \in Events |-> Outcome(e)]
  <1>1. Init => Delivery!DeliveryInit
    BY DEF Init, Delivery!DeliveryInit, Outcome, Waiting
  <1>2. ASSUME PublisherInv, [Next]_vars
        PROVE  [Delivery!DeliveryNext]_(Delivery!deliveryVars)
    <2>1. CASE UNCHANGED <<status, accepted>>
      BY <2>1 DEF Delivery!deliveryVars, Outcome
    <2>2. ASSUME NEW e \in Events, UNCHANGED status,
                 accepted' \in {accepted, accepted \cup {e}}, status[e] # "absent"
          PROVE  [Delivery!DeliveryNext]_(Delivery!deliveryVars)
      <3>1. out' = out
        BY <2>2 DEF Outcome
      <3>2. out[e] # "absent"
        BY <2>2 DEF Outcome
      <3> HIDE DEF out
      <3>3. QED
        BY <2>2, <3>1, <3>2 DEF Delivery!deliveryVars, Delivery!DeliveryNext, Delivery!Receive, out
    <2>3. ASSUME NEW e \in Events, NEW to, UNCHANGED accepted,
                 out' = [out EXCEPT ![e] = to],
                 \/ out[e] = "absent" /\ to = "pending"
                 \/ out[e] = "pending" /\ to = "published" /\ e \in accepted
          PROVE  Delivery!DeliveryNext
      BY <2>3 DEF Delivery!DeliveryNext, Delivery!Settle
    <2>4. ASSUME NEW S \in SUBSET Events, UNCHANGED accepted,
                 \A e \in S : out[e] = "pending",
                 out' = [e \in Events |-> IF e \in S THEN "dead_letter" ELSE out[e]]
          PROVE  Delivery!DeliveryNext
      BY <2>4 DEF Delivery!DeliveryNext, Delivery!GiveUp
    <2>5. TypeOK /\ ReceiptsTrue
      BY <1>2 DEF PublisherInv
    <2>6. ASSUME NEW e \in Events, Record(e)
          PROVE  Delivery!DeliveryNext
      <3>1. status[e] = "absent" /\ status' = [status EXCEPT ![e] = "pending"]
            /\ UNCHANGED accepted
        BY <2>6 DEF Record, network
      <3>2. out' = [out EXCEPT ![e] = "pending"]
        BY <2>5, <3>1 DEF Outcome, Waiting, TypeOK
      <3>3. out[e] = "absent"
        BY <3>1 DEF Outcome, Waiting
      <3> HIDE DEF out
      <3>4. QED
        BY <2>3, <3>1, <3>2, <3>3
    <2>7. ASSUME NEW e \in Events, LateArrival(e)
          PROVE  [Delivery!DeliveryNext]_(Delivery!deliveryVars)
      BY <2>2, <2>5, <2>7 DEF LateArrival, ReceiptsTrue, table
    <2>8. ASSUME NEW w \in Workers, Respond(w)
          PROVE  [Delivery!DeliveryNext]_(Delivery!deliveryVars)
      <3>1. /\ UNCHANGED status /\ worker[w].pc = "posted"
            /\ accepted' \in {accepted, accepted \cup {worker[w].event}}
        BY <2>8 DEF Respond, Accepts, Refuses, Fails, Answered, table
      <3>2. worker[w].event \in Events /\ status[worker[w].event] # "absent"
        BY <2>5, <3>1 DEF ReceiptsTrue
      <3>3. QED
        BY <2>2, <3>1, <3>2
    <2>9. ASSUME NEW w \in Workers, ClaimBatch(w)
          PROVE  Delivery!DeliveryNext
      <3>1. PICK C \in SUBSET Events :
              /\ \A e \in C : status[e] \in Waiting \cup {"processing"}
              /\ \A e \in Events :
                    /\ status'[e] = IF e \in C THEN "processing"
                                    ELSE IF rowLock[e] # w THEN status[e]
                                    ELSE IF Exhausted(e) THEN "dead_letter" ELSE "failed"
                    /\ rowLock[e] = w => status[e] = "processing"
        BY <1>2, <2>9, ClaimRows
      <3> DEFINE S == {e \in Events : e \notin C /\ rowLock[e] = w /\ Exhausted(e)}
      <3>2. \A e \in S : out[e] = "pending"
        BY <3>1 DEF Outcome
      <3>3. ASSUME NEW e \in Events
            PROVE  Outcome(e)' = IF e \in S THEN "dead_letter" ELSE Outcome(e)
        BY <3>1, <3>3 DEF Outcome, Waiting
      <3>4. out' = [e \in Events |-> IF e \in S THEN "dead_letter" ELSE out[e]]
        BY <3>3
      <3>5. UNCHANGED accepted /\ S \in SUBSET Events
        BY <2>9 DEF ClaimBatch, network
      <3> HIDE DEF S, out
      <3>6. QED
        BY <2>4, <3>2, <3>4, <3>5
    <2>10. ASSUME NEW w \in Workers, NEW e \in Events, NEW to \in {"published", "failed", "dead_letter"},
                  Mark(w, e, to), to = "published" => e \in accepted
           PROVE  [Delivery!DeliveryNext]_(Delivery!deliveryVars)
      <3>1. UNCHANGED accepted
        BY <2>10 DEF Mark, network
      <3>2. CASE Owns(w, e)
        <4>1. status[e] = "processing" /\ status' = [status EXCEPT ![e] = to]
          BY <2>10, <3>2 DEF Mark, MayMark, Owns
        <4>2. out[e] = "pending"
          BY <4>1 DEF Outcome
        <4>3. CASE to = "failed"
          <5>1. out' = out
            BY <2>5, <4>1, <4>3 DEF Outcome, Waiting, TypeOK
          <5>2. QED
            BY <3>1, <5>1 DEF Delivery!deliveryVars
        <4>4. CASE to = "published"
          <5>1. out' = [out EXCEPT ![e] = "published"]
            BY <2>5, <4>1, <4>4 DEF Outcome, Waiting, TypeOK
          <5>2. e \in accepted
            BY <2>10, <4>4
          <5> HIDE DEF out
          <5>3. Delivery!DeliveryNext
            BY <2>3, <3>1, <4>2, <5>1, <5>2
          <5>4. QED
            BY <5>3
        <4>5. CASE to = "dead_letter"
          <5>1. out' = [f \in Events |-> IF f \in {e} THEN "dead_letter" ELSE out[f]]
            BY <2>5, <4>1, <4>5 DEF Outcome, Waiting, TypeOK
          <5> HIDE DEF out
          <5>2. Delivery!DeliveryNext
            <6>1. {e} \in SUBSET Events /\ \A f \in {e} : out[f] = "pending"
              BY <4>2
            <6>2. QED
              BY <2>4, <3>1, <5>1, <6>1
          <5>3. QED
            BY <5>2
        <4>6. QED
          BY <4>3, <4>4, <4>5
      <3>3. CASE ~Owns(w, e)
        BY <2>1, <2>10, <3>1, <3>3 DEF Mark, MayMark, table
      <3>4. QED
        BY <3>2, <3>3
    <2>11. ASSUME NEW w \in Workers, NEW e \in Events, MarkSuccess(w, e) \/ MarkFailure(w, e)
           PROVE  [Delivery!DeliveryNext]_(Delivery!deliveryVars)
      <3>1. CASE MarkSuccess(w, e)
        <4>1. Mark(w, e, "published") /\ e \in accepted
          BY <2>5, <3>1 DEF MarkSuccess, Mark, ReceiptsTrue
        <4>2. QED
          BY <2>10, <4>1
      <3>2. CASE MarkFailure(w, e)
        BY <2>10, <3>2 DEF MarkFailure
      <3>3. QED
        BY <2>11, <3>1, <3>2
    <2>12. ASSUME NEW w \in Workers, ClaimStale(w) \/ Exception(w) \/ Crash(w)
                                     \/ \E e \in Events : LoadOwned(w, e)
           PROVE  UNCHANGED <<status, accepted>>
      BY <2>12 DEF ClaimStale, Exception, Crash, Abandon, LoadOwned, table, network
    <2>13. ASSUME NEW e \in Events, LeaseExpires(e) \/ BecomesDue(e)
           PROVE  UNCHANGED <<status, accepted>>
      BY <2>13 DEF LeaseExpires, BecomesDue, network
    <2>14. QED
      BY <1>2, <2>1, <2>6, <2>7, <2>8, <2>9, <2>11, <2>12, <2>13 DEF Next, vars, table, network
  <1>3. PublisherInv /\ [Next]_vars => [Delivery!DeliveryNext]_(Delivery!deliveryVars)
    BY <1>2
  <1>4. QED
    BY <1>1, <1>3, PublisherInvariant, PTL
       DEF Spec, DeliversSafely, Delivery!DeliverySafety

===============================================================================

--------------------------- MODULE JobQueueProofs ---------------------------
(***************************************************************************)
(* Proofs about JobQueue, for any number of jobs, workers, keys, attempts  *)
(* and faults.                                                             *)
(***************************************************************************)
EXTENDS JobQueue, TLAPS

USE JobQueueAssumption

\* Every action keeps every variable in its type.
LEMMA TypeStep == TypeOK /\ [Next]_vars => TypeOK'
<1> SUFFICES ASSUME TypeOK, [Next]_vars PROVE TypeOK'
  OBVIOUS
<1> USE DEF TypeOK, States, Stages, Waiting, Executing
<1>1. ASSUME NEW j \in Jobs, enqueue(j) PROVE TypeOK'
  BY <1>1 DEF enqueue, worker, hist
<1>2. ASSUME NEW j \in Jobs, BecomeDue(j) PROVE TypeOK'
  BY <1>2 DEF BecomeDue, worker, hist
<1>3. ASSUME NEW j \in Jobs, ExpireLease(j) PROVE TypeOK'
  BY <1>3 DEF ExpireLease, Fault, worker
<1>4. ASSUME NEW j \in Jobs, prune(j) PROVE TypeOK'
  BY <1>4 DEF prune, worker, hist
<1>5. ASSUME NEW w \in Workers, NEW j \in Jobs, claim(w, j) PROVE TypeOK'
  BY <1>5 DEF claim, ClaimedAttempts
<1>6. ASSUME NEW w \in Workers, try_lock(w) PROVE TypeOK'
  BY <1>6 DEF try_lock, row, hist
<1>7. ASSUME NEW w \in Workers, defer(w) PROVE TypeOK'
  BY <1>7 DEF defer, SetState, Forget, hist
<1>8. ASSUME NEW w \in Workers, _run_one(w) PROVE TypeOK'
  BY <1>8 DEF _run_one, row, Fault
<1>9. ASSUME NEW w \in Workers, CommitWork(w) PROVE TypeOK'
  BY <1>9 DEF CommitWork, mark_work_committed
<1>10. ASSUME NEW w \in Workers, NEW kind \in {"raised", "doomed"}, Raise(w, kind)
       PROVE TypeOK'
  BY <1>10 DEF Raise, row, hist
<1>11. ASSUME NEW w \in Workers, complete(w) PROVE TypeOK'
  BY <1>11 DEF complete, SetState, Settle, hist
<1>12. ASSUME NEW w \in Workers, fail(w) PROVE TypeOK'
  BY <1>12 DEF fail, SetState, Settle, _record_failure, hist
<1>13. ASSUME NEW w \in Workers, unlock(w) PROVE TypeOK'
  BY <1>13 DEF unlock, Forget, row, hist
<1>14. ASSUME NEW w \in Workers, touch(w) PROVE TypeOK'
  BY <1>14 DEF touch, hist
<1>15. ASSUME NEW w \in Workers, KeeperCap(w) PROVE TypeOK'
  BY <1>15 DEF KeeperCap, Fault, row
<1>16. ASSUME NEW w \in Workers, Crash(w) PROVE TypeOK'
  BY <1>16 DEF Crash, Fault, ReleaseLocks, Forget, row
<1>17. ASSUME NEW w \in Workers, LoseConnection(w) PROVE TypeOK'
  BY <1>17 DEF LoseConnection, Fault, ReleaseLocks, row
<1>18. ASSUME NEW w \in Workers, AbandonPass(w) PROVE TypeOK'
  BY <1>18 DEF AbandonPass, Forget, row, hist
<1>19. CASE UNCHANGED vars
  BY <1>19 DEF vars, row, worker, hist
<1> QED
  BY <1>1, <1>2, <1>3, <1>4, <1>5, <1>6, <1>7, <1>8, <1>9, <1>10, <1>11, <1>12,
     <1>13, <1>14, <1>15, <1>16, <1>17, <1>18, <1>19 DEF Next, Execute

\* TypeOK is an invariant of the queue.
THEOREM TypeCorrect == Spec => []TypeOK
<1>1. Init => TypeOK
  BY DEF Init, TypeOK, States, Stages, Waiting, Executing
<1> QED
  BY <1>1, TypeStep, PTL DEF Spec

-----------------------------------------------------------------------------
(***************************************************************************)
(* Mutual exclusion per serialization key.  The advisory lock is the only  *)
(* thing that decides it: a worker that can still write holds its key's    *)
(* lock from try_lock to unlock, and nobody else's.                        *)
(***************************************************************************)
LockHeld ==
    \A w \in conn :
        Locking(w) /\ KeyOf[job[w]] # NoKey => holder[KeyOf[job[w]]] = w

LockInv == TypeOK /\ LockHeld /\ LockNotLeaked

\* Every action keeps the lock table and the workers' stages in step.
LEMMA LockStep == LockInv /\ [Next]_vars => LockInv'
<1> SUFFICES ASSUME LockInv, [Next]_vars PROVE (LockHeld /\ LockNotLeaked)'
  BY TypeStep DEF LockInv
<1> USE DEF LockInv, LockHeld, LockNotLeaked, Locking, TypeOK, Stages, Waiting, Executing
<1>1. ASSUME NEW j \in Jobs, enqueue(j) PROVE (LockHeld /\ LockNotLeaked)'
  BY <1>1 DEF enqueue, worker, hist
<1>2. ASSUME NEW j \in Jobs, BecomeDue(j) PROVE (LockHeld /\ LockNotLeaked)'
  BY <1>2 DEF BecomeDue, worker, hist
<1>3. ASSUME NEW j \in Jobs, ExpireLease(j) PROVE (LockHeld /\ LockNotLeaked)'
  BY <1>3 DEF ExpireLease, Fault, worker
<1>4. ASSUME NEW j \in Jobs, prune(j) PROVE (LockHeld /\ LockNotLeaked)'
  BY <1>4 DEF prune, worker, hist
<1>5. ASSUME NEW w \in Workers, NEW j \in Jobs, claim(w, j)
     PROVE (LockHeld /\ LockNotLeaked)'
  BY <1>5 DEF claim, ClaimedAttempts
<1>6. ASSUME NEW w \in Workers, try_lock(w) PROVE (LockHeld /\ LockNotLeaked)'
  BY <1>6 DEF try_lock, LockBusy, row, hist
<1>7. ASSUME NEW w \in Workers, defer(w) PROVE (LockHeld /\ LockNotLeaked)'
  BY <1>7 DEF defer, SetState, Forget, hist
<1>8. ASSUME NEW w \in Workers, _run_one(w) PROVE (LockHeld /\ LockNotLeaked)'
  BY <1>8 DEF _run_one, AlreadyApplied, row, Fault
<1>9. ASSUME NEW w \in Workers, CommitWork(w) PROVE (LockHeld /\ LockNotLeaked)'
  BY <1>9 DEF CommitWork, mark_work_committed
<1>10. ASSUME NEW w \in Workers, NEW kind \in {"raised", "doomed"}, Raise(w, kind)
     PROVE (LockHeld /\ LockNotLeaked)'
  BY <1>10 DEF Raise, row, hist
<1>11. ASSUME NEW w \in Workers, complete(w) PROVE (LockHeld /\ LockNotLeaked)'
  BY <1>11 DEF complete, SetState, Settle, hist
<1>12. ASSUME NEW w \in Workers, fail(w) PROVE (LockHeld /\ LockNotLeaked)'
  BY <1>12 DEF fail, SetState, Settle, will_retry, _record_failure, hist
<1>13. ASSUME NEW w \in Workers, unlock(w) PROVE (LockHeld /\ LockNotLeaked)'
  BY <1>13 DEF unlock, Forget, row, hist
<1>14. ASSUME NEW w \in Workers, touch(w) PROVE (LockHeld /\ LockNotLeaked)'
  BY <1>14 DEF touch, hist
<1>15. ASSUME NEW w \in Workers, KeeperCap(w) PROVE (LockHeld /\ LockNotLeaked)'
  BY <1>15 DEF KeeperCap, Fault, row
<1>16. ASSUME NEW w \in Workers, Crash(w) PROVE (LockHeld /\ LockNotLeaked)'
  BY <1>16 DEF Crash, Fault, ReleaseLocks, Forget, row
<1>17. ASSUME NEW w \in Workers, LoseConnection(w) PROVE (LockHeld /\ LockNotLeaked)'
  BY <1>17 DEF LoseConnection, Fault, ReleaseLocks, row
<1>18. ASSUME NEW w \in Workers, AbandonPass(w) PROVE (LockHeld /\ LockNotLeaked)'
  BY <1>18 DEF AbandonPass, Forget, row, hist
<1>19. CASE UNCHANGED vars
  BY <1>19 DEF vars, row, worker, hist
<1> QED
  BY <1>1, <1>2, <1>3, <1>4, <1>5, <1>6, <1>7, <1>8, <1>9,
     <1>10, <1>11, <1>12, <1>13, <1>14, <1>15, <1>16, <1>17, <1>18, <1>19
     DEF Next, Execute

\* The lock invariant holds in every reachable state.
THEOREM LockCorrect == Spec => []LockInv
<1>1. Init => LockInv
  BY DEF Init, LockInv, LockHeld, LockNotLeaked, Locking, TypeOK, States, Stages,
         Waiting, Executing
<1> QED
  BY <1>1, LockStep, PTL DEF Spec

\* Two workers that can still write never run jobs of one key at once.
THEOREM KeyExclusionHolds == Spec => []KeyExclusion
<1>1. LockInv => KeyExclusion
  BY DEF LockInv, LockHeld, KeyExclusion, Locking, TypeOK, Stages, Waiting, Executing
<1> QED
  BY <1>1, LockCorrect, PTL

\* No advisory lock outlives the job it was taken for: whatever kills a worker
\* or its connection, the key is free or its holder is still at work on it.
THEOREM LockNotLeakedHolds == Spec => []LockNotLeaked
<1>1. LockInv => LockNotLeaked
  BY DEF LockInv
<1> QED
  BY <1>1, LockCorrect, PTL

-----------------------------------------------------------------------------
(***************************************************************************)
(* The work fence.  The column is set exactly when the work is committed,  *)
(* and a claim carries away what it said at that moment.                   *)
(***************************************************************************)
FenceExact ==
    \A j \in Jobs :
        /\ fence[j] # None <=> applied[j] > 0
        /\ state[j] = "new" => applied[j] = 0

ClaimRemembers ==
    \A w \in Workers : pc[w] # "idle" =>
        /\ state[job[w]] # "new"
        /\ fen[w] # None <=> seen[w] > 0
        /\ seen[w] <= applied[job[w]]
        /\ pc[w] \in {"running", "raised", "doomed"} => fen[w] = None
        /\ pc[w] = "replay" => fen[w] # None
        /\ pc[w] = "landed" => applied[job[w]] > 0

FenceInv == TypeOK /\ FenceExact /\ ClaimRemembers /\ DoneMeansLanded

\* Every action keeps the fence exact.
LEMMA FenceStep == FenceInv /\ [Next]_vars => FenceInv'
<1> SUFFICES ASSUME FenceInv, [Next]_vars
             PROVE (FenceExact /\ ClaimRemembers /\ DoneMeansLanded)'
  BY TypeStep DEF FenceInv
<1> USE DEF FenceInv, FenceExact, ClaimRemembers, DoneMeansLanded, TypeOK, States, Stages,
            Waiting, Executing
<1>1. ASSUME NEW j \in Jobs, enqueue(j)
     PROVE (FenceExact /\ ClaimRemembers /\ DoneMeansLanded)'
  BY <1>1 DEF enqueue, worker, hist
<1>2. ASSUME NEW j \in Jobs, BecomeDue(j)
     PROVE (FenceExact /\ ClaimRemembers /\ DoneMeansLanded)'
  BY <1>2 DEF BecomeDue, worker, hist
<1>3. ASSUME NEW j \in Jobs, ExpireLease(j)
     PROVE (FenceExact /\ ClaimRemembers /\ DoneMeansLanded)'
  BY <1>3 DEF ExpireLease, Fault, worker
<1>4. ASSUME NEW j \in Jobs, prune(j)
     PROVE (FenceExact /\ ClaimRemembers /\ DoneMeansLanded)'
  BY <1>4 DEF prune, worker, hist
<1>5. ASSUME NEW w \in Workers, NEW j \in Jobs, claim(w, j)
     PROVE (FenceExact /\ ClaimRemembers /\ DoneMeansLanded)'
  BY <1>5 DEF claim, ClaimedAttempts, Offered
<1>6. ASSUME NEW w \in Workers, try_lock(w)
     PROVE (FenceExact /\ ClaimRemembers /\ DoneMeansLanded)'
  BY <1>6 DEF try_lock, LockBusy, row, hist
<1>7. ASSUME NEW w \in Workers, defer(w)
     PROVE (FenceExact /\ ClaimRemembers /\ DoneMeansLanded)'
  BY <1>7 DEF defer, SetState, Forget, hist
<1>8. ASSUME NEW w \in Workers, _run_one(w)
     PROVE (FenceExact /\ ClaimRemembers /\ DoneMeansLanded)'
  BY <1>8 DEF _run_one, AlreadyApplied, row, Fault
<1>9. ASSUME NEW w \in Workers, CommitWork(w)
     PROVE (FenceExact /\ ClaimRemembers /\ DoneMeansLanded)'
  BY <1>9 DEF CommitWork, mark_work_committed
<1>10. ASSUME NEW w \in Workers, NEW kind \in {"raised", "doomed"}, Raise(w, kind)
     PROVE (FenceExact /\ ClaimRemembers /\ DoneMeansLanded)'
  BY <1>10 DEF Raise, row, hist
<1>11. ASSUME NEW w \in Workers, complete(w)
     PROVE (FenceExact /\ ClaimRemembers /\ DoneMeansLanded)'
  BY <1>11 DEF complete, SetState, Settle, hist
<1>12. ASSUME NEW w \in Workers, fail(w)
     PROVE (FenceExact /\ ClaimRemembers /\ DoneMeansLanded)'
  BY <1>12 DEF fail, SetState, Settle, will_retry, _record_failure, hist
<1>13. ASSUME NEW w \in Workers, unlock(w)
     PROVE (FenceExact /\ ClaimRemembers /\ DoneMeansLanded)'
  BY <1>13 DEF unlock, Forget, row, hist
<1>14. ASSUME NEW w \in Workers, touch(w)
     PROVE (FenceExact /\ ClaimRemembers /\ DoneMeansLanded)'
  BY <1>14 DEF touch, hist
<1>15. ASSUME NEW w \in Workers, KeeperCap(w)
     PROVE (FenceExact /\ ClaimRemembers /\ DoneMeansLanded)'
  BY <1>15 DEF KeeperCap, Fault, row
<1>16. ASSUME NEW w \in Workers, Crash(w)
     PROVE (FenceExact /\ ClaimRemembers /\ DoneMeansLanded)'
  BY <1>16 DEF Crash, Fault, ReleaseLocks, Forget, row
<1>17. ASSUME NEW w \in Workers, LoseConnection(w)
     PROVE (FenceExact /\ ClaimRemembers /\ DoneMeansLanded)'
  BY <1>17 DEF LoseConnection, Fault, ReleaseLocks, row
<1>18. ASSUME NEW w \in Workers, AbandonPass(w)
     PROVE (FenceExact /\ ClaimRemembers /\ DoneMeansLanded)'
  BY <1>18 DEF AbandonPass, Forget, row, hist
<1>19. CASE UNCHANGED vars
  BY <1>19 DEF vars, row, worker, hist
<1> QED
  BY <1>1, <1>2, <1>3, <1>4, <1>5, <1>6, <1>7, <1>8, <1>9,
     <1>10, <1>11, <1>12, <1>13, <1>14, <1>15, <1>16, <1>17, <1>18, <1>19
     DEF Next, Execute

\* The fence invariant holds in every reachable state.
THEOREM FenceCorrect == Spec => []FenceInv
<1>1. Init => FenceInv
  BY DEF Init, FenceInv, FenceExact, ClaimRemembers, DoneMeansLanded, TypeOK, States,
         Stages, Waiting, Executing
<1> QED
  BY <1>1, FenceStep, PTL DEF Spec

\* A claim made after the work was committed never runs the handler again.
THEOREM NoReplayHolds == Spec => []NoReplay
<1>1. FenceInv => NoReplay
  BY DEF FenceInv, ClaimRemembers, NoReplay, TypeOK
<1> QED
  BY <1>1, FenceCorrect, PTL

\* A job called done has had its work committed, under every fault.
THEOREM DoneMeansLandedHolds == Spec => []DoneMeansLanded
<1>1. FenceInv => DoneMeansLanded
  BY DEF FenceInv
<1> QED
  BY <1>1, FenceCorrect, PTL

-----------------------------------------------------------------------------
(***************************************************************************)
(* Exactly-once.  As long as no lease of a job has run out under a worker  *)
(* that could still write, that worker is the only one on the job, its     *)
(* claim is the current one, and what it saw when it claimed is still so.  *)
(***************************************************************************)
On(w, j) == job[w] = j /\ Acting(w)

SoleOwner ==
    \A j \in Jobs : j \notin lapsed => \A w \in conn : On(w, j) =>
        /\ state[j] = "running"
        /\ lease[j] = "fresh"
        /\ att[w] = attempts[j]
        /\ \A v \in conn : On(v, j) => v = w
        /\ pc[w] # "landed" => seen[w] = applied[j]

DomainAgrees ==
    \A j \in Jobs : j \notin lapsed =>
        /\ applied[j] <= 1
        /\ domain[j] = "applied" <=> applied[j] > 0
        /\ domain[j] = "failed" => state[j] \in {"failed", "gone"}
        /\ state[j] = "failed" => domain[j] = "failed"

OwnerInv == FenceInv /\ SoleOwner /\ DomainAgrees

\* Every action keeps the owner of an unlapsed job alone on it.
LEMMA OwnerStep == OwnerInv /\ [Next]_vars => OwnerInv'
<1> SUFFICES ASSUME OwnerInv, [Next]_vars PROVE (SoleOwner /\ DomainAgrees)'
  BY FenceStep DEF OwnerInv
<1> USE DEF OwnerInv, FenceInv, FenceExact, ClaimRemembers, DoneMeansLanded, SoleOwner,
            DomainAgrees, On, Acting, TypeOK, States, Stages, Waiting, Executing
<1>1. ASSUME NEW j \in Jobs, enqueue(j) PROVE (SoleOwner /\ DomainAgrees)'
  BY <1>1 DEF enqueue, worker, hist
<1>2. ASSUME NEW j \in Jobs, BecomeDue(j) PROVE (SoleOwner /\ DomainAgrees)'
  BY <1>2 DEF BecomeDue, worker, hist
<1>3. ASSUME NEW j \in Jobs, ExpireLease(j) PROVE (SoleOwner /\ DomainAgrees)'
  BY <1>3 DEF ExpireLease, Fault, worker
<1>4. ASSUME NEW j \in Jobs, prune(j) PROVE (SoleOwner /\ DomainAgrees)'
  BY <1>4 DEF prune, worker, hist
<1>5. ASSUME NEW w \in Workers, NEW j \in Jobs, claim(w, j)
     PROVE (SoleOwner /\ DomainAgrees)'
  BY <1>5 DEF claim, ClaimedAttempts, Offered
<1>6. ASSUME NEW w \in Workers, try_lock(w) PROVE (SoleOwner /\ DomainAgrees)'
  BY <1>6 DEF try_lock, LockBusy, row, hist
<1>7. ASSUME NEW w \in Workers, defer(w) PROVE (SoleOwner /\ DomainAgrees)'
  BY <1>7 DEF defer, SetState, Forget, hist
<1>8. ASSUME NEW w \in Workers, _run_one(w) PROVE (SoleOwner /\ DomainAgrees)'
  BY <1>8 DEF _run_one, AlreadyApplied, row, Fault
<1>9. ASSUME NEW w \in Workers, CommitWork(w) PROVE (SoleOwner /\ DomainAgrees)'
  BY <1>9 DEF CommitWork, mark_work_committed
<1>10. ASSUME NEW w \in Workers, NEW kind \in {"raised", "doomed"}, Raise(w, kind)
     PROVE (SoleOwner /\ DomainAgrees)'
  BY <1>10 DEF Raise, row, hist
<1>11. ASSUME NEW w \in Workers, complete(w) PROVE (SoleOwner /\ DomainAgrees)'
  BY <1>11 DEF complete, SetState, Settle, hist
<1>12. ASSUME NEW w \in Workers, fail(w) PROVE (SoleOwner /\ DomainAgrees)'
  BY <1>12 DEF fail, SetState, Settle, will_retry, _record_failure, hist
<1>13. ASSUME NEW w \in Workers, unlock(w) PROVE (SoleOwner /\ DomainAgrees)'
  BY <1>13 DEF unlock, Forget, row, hist
<1>14. ASSUME NEW w \in Workers, touch(w) PROVE (SoleOwner /\ DomainAgrees)'
  BY <1>14 DEF touch, hist
<1>15. ASSUME NEW w \in Workers, KeeperCap(w) PROVE (SoleOwner /\ DomainAgrees)'
  BY <1>15 DEF KeeperCap, Fault, row
<1>16. ASSUME NEW w \in Workers, Crash(w) PROVE (SoleOwner /\ DomainAgrees)'
  BY <1>16 DEF Crash, Fault, ReleaseLocks, Forget, row
<1>17. ASSUME NEW w \in Workers, LoseConnection(w) PROVE (SoleOwner /\ DomainAgrees)'
  BY <1>17 DEF LoseConnection, Fault, ReleaseLocks, row
<1>18. ASSUME NEW w \in Workers, AbandonPass(w) PROVE (SoleOwner /\ DomainAgrees)'
  BY <1>18 DEF AbandonPass, Forget, row, hist
<1>19. CASE UNCHANGED vars
  BY <1>19 DEF vars, row, worker, hist
<1> QED
  BY <1>1, <1>2, <1>3, <1>4, <1>5, <1>6, <1>7, <1>8, <1>9,
     <1>10, <1>11, <1>12, <1>13, <1>14, <1>15, <1>16, <1>17, <1>18, <1>19
     DEF Next, Execute

\* The owner invariant holds in every reachable state.
THEOREM OwnerCorrect == Spec => []OwnerInv
<1>1. Init => OwnerInv
  BY DEF Init, OwnerInv, FenceInv, FenceExact, ClaimRemembers, DoneMeansLanded, SoleOwner,
         DomainAgrees, On, Acting, TypeOK, States, Stages, Waiting, Executing
<1> QED
  BY <1>1, OwnerStep, PTL DEF Spec

\* Work lands twice only if a lease once ran out under a live worker.
THEOREM ExactlyOnceHolds == Spec => []DuplicateNeedsLapse
<1>1. OwnerInv => DuplicateNeedsLapse
  BY DEF OwnerInv, FenceInv, DomainAgrees, DuplicateNeedsLapse, TypeOK
<1> QED
  BY <1>1, OwnerCorrect, PTL

\* A job row and its domain object disagree about the outcome only if a lease
\* of that job once ran out under a live worker.
THEOREM OutcomeMatchesDomainHolds == Spec => []OutcomeMatchesDomain
<1>1. OwnerInv => OutcomeMatchesDomain
  BY DEF OwnerInv, FenceInv, DoneMeansLanded, DomainAgrees, OutcomeMatchesDomain, TypeOK
<1> QED
  BY <1>1, OwnerCorrect, PTL

-----------------------------------------------------------------------------
(***************************************************************************)
(* Refinement.  With no keeper lost and no covered lease stalled, a worker *)
(* that runs a job has a keeper on it, so a lease never lapses and every   *)
(* step of the queue is a step of WorkLedger or a stutter.                 *)
(***************************************************************************)
LeasesHold == Faults \subseteq {"crash", "conn"}

KeptInv ==
    /\ OwnerInv
    /\ lapsed = {}
    /\ \A w \in conn : pc[w] \in Executing \ {"locked"} => w \in keeper

\* Without keeper faults and stalls, no lease runs out under a live worker.
LEMMA KeptStep ==
  ASSUME LeasesHold
  PROVE  KeptInv /\ [Next]_vars => KeptInv'
<1> SUFFICES ASSUME KeptInv, [Next]_vars
             PROVE /\ lapsed' = {}
                   /\ (\A w \in conn : pc[w] \in Executing \ {"locked"} => w \in keeper)'
  BY OwnerStep DEF KeptInv
<1> DEFINE Kept == \A w \in conn : pc[w] \in Executing \ {"locked"} => w \in keeper
<1> SUFFICES lapsed' = {} /\ Kept'
  OBVIOUS
<1> USE DEF KeptInv, OwnerInv, FenceInv, SoleOwner, On, Acting, TypeOK, States, Stages, Waiting,
            Executing
<1>1. ASSUME NEW j \in Jobs, enqueue(j) PROVE lapsed' = {} /\ Kept'
  BY <1>1 DEF enqueue, worker, hist
<1>2. ASSUME NEW j \in Jobs, BecomeDue(j) PROVE lapsed' = {} /\ Kept'
  BY <1>2 DEF BecomeDue, worker, hist
<1>3. ASSUME NEW j \in Jobs, ExpireLease(j) PROVE lapsed' = {} /\ Kept'
  BY <1>3 DEF ExpireLease, Fault, worker, Covered, LeasesHold
<1>4. ASSUME NEW j \in Jobs, prune(j) PROVE lapsed' = {} /\ Kept'
  BY <1>4 DEF prune, worker, hist
<1>5. ASSUME NEW w \in Workers, NEW j \in Jobs, claim(w, j) PROVE lapsed' = {} /\ Kept'
  BY <1>5 DEF claim, ClaimedAttempts
<1>6. ASSUME NEW w \in Workers, try_lock(w) PROVE lapsed' = {} /\ Kept'
  BY <1>6 DEF try_lock, LockBusy, row, hist
<1>7. ASSUME NEW w \in Workers, defer(w) PROVE lapsed' = {} /\ Kept'
  BY <1>7 DEF defer, SetState, Forget, hist
<1>8. ASSUME NEW w \in Workers, _run_one(w) PROVE lapsed' = {} /\ Kept'
  BY <1>8 DEF _run_one, AlreadyApplied, row, Fault, LeasesHold
<1>9. ASSUME NEW w \in Workers, CommitWork(w) PROVE lapsed' = {} /\ Kept'
  BY <1>9 DEF CommitWork, mark_work_committed
<1>10. ASSUME NEW w \in Workers, NEW kind \in {"raised", "doomed"}, Raise(w, kind)
     PROVE lapsed' = {} /\ Kept'
  BY <1>10 DEF Raise, row, hist
<1>11. ASSUME NEW w \in Workers, complete(w) PROVE lapsed' = {} /\ Kept'
  BY <1>11 DEF complete, SetState, Settle, hist
<1>12. ASSUME NEW w \in Workers, fail(w) PROVE lapsed' = {} /\ Kept'
  BY <1>12 DEF fail, SetState, Settle, will_retry, _record_failure, hist
<1>13. ASSUME NEW w \in Workers, unlock(w) PROVE lapsed' = {} /\ Kept'
  BY <1>13 DEF unlock, Forget, row, hist
<1>14. ASSUME NEW w \in Workers, touch(w) PROVE lapsed' = {} /\ Kept'
  BY <1>14 DEF touch, hist
<1>15. ASSUME NEW w \in Workers, KeeperCap(w) PROVE lapsed' = {} /\ Kept'
  BY <1>15 DEF KeeperCap, Fault, row, LeasesHold
<1>16. ASSUME NEW w \in Workers, Crash(w) PROVE lapsed' = {} /\ Kept'
  BY <1>16 DEF Crash, Fault, ReleaseLocks, Forget, row
<1>17. ASSUME NEW w \in Workers, LoseConnection(w) PROVE lapsed' = {} /\ Kept'
  BY <1>17 DEF LoseConnection, Fault, ReleaseLocks, row
<1>18. ASSUME NEW w \in Workers, AbandonPass(w) PROVE lapsed' = {} /\ Kept'
  BY <1>18 DEF AbandonPass, Forget, row, hist
<1>19. CASE UNCHANGED vars
  BY <1>19 DEF vars, row, worker, hist
<1> QED
  BY <1>1, <1>2, <1>3, <1>4, <1>5, <1>6, <1>7, <1>8, <1>9,
     <1>10, <1>11, <1>12, <1>13, <1>14, <1>15, <1>16, <1>17, <1>18, <1>19
     DEF Next, Execute

\* Changing one job's status, and no other, is a move of the ledger.
LEMMA MoveIsStep ==
  ASSUME NEW j \in Jobs, NEW from, NEW to,
         LedgerStatus[j] = from, LedgerStatus'[j] = to,
         \A i \in Jobs : i # j => LedgerStatus'[i] = LedgerStatus[i]
  PROVE  Ledger!Move(j, from, to)
  BY DEF Ledger!Move, LedgerStatus

\* Every step of the queue is a step of the ledger or leaves it unchanged.
LEMMA LedgerStep ==
  ASSUME LeasesHold
  PROVE  KeptInv /\ [Next]_vars => [Ledger!Next]_LedgerStatus
<1> SUFFICES ASSUME KeptInv, [Next]_vars PROVE [Ledger!Next]_LedgerStatus
  OBVIOUS
<1> USE DEF KeptInv, OwnerInv, FenceInv, FenceExact, ClaimRemembers, DoneMeansLanded, SoleOwner,
            DomainAgrees, On, Acting, TypeOK, States, Stages, Waiting, Executing, LedgerStatus
<1>1. ASSUME NEW j \in Jobs, enqueue(j) PROVE [Ledger!Next]_LedgerStatus
  <2>1. LedgerStatus[j] = "absent" /\ LedgerStatus'[j] = "owed"
    BY <1>1 DEF enqueue, worker, hist
  <2>2. \A i \in Jobs : i # j => LedgerStatus'[i] = LedgerStatus[i]
    BY <1>1 DEF enqueue, worker, hist
  <2> QED
    BY <2>1, <2>2, MoveIsStep DEF Ledger!Next, Ledger!Owe
<1>2. ASSUME NEW j \in Jobs, BecomeDue(j) PROVE [Ledger!Next]_LedgerStatus
  BY <1>2 DEF BecomeDue, worker, hist
<1>3. ASSUME NEW j \in Jobs, ExpireLease(j) PROVE [Ledger!Next]_LedgerStatus
  BY <1>3 DEF ExpireLease, Fault, worker
<1>4. ASSUME NEW j \in Jobs, prune(j) PROVE [Ledger!Next]_LedgerStatus
  <2>1. LedgerStatus[j] \in {"done", "failed"} /\ LedgerStatus'[j] = "forgotten"
    BY <1>4 DEF prune, worker, hist
  <2>2. \A i \in Jobs : i # j => LedgerStatus'[i] = LedgerStatus[i]
    BY <1>4 DEF prune, worker, hist
  <2> QED
    BY <2>1, <2>2, MoveIsStep DEF Ledger!Next, Ledger!Drop
<1>5. ASSUME NEW w \in Workers, NEW j \in Jobs, claim(w, j) PROVE [Ledger!Next]_LedgerStatus
  BY <1>5 DEF claim, ClaimedAttempts, Offered
<1>6. ASSUME NEW w \in Workers, try_lock(w) PROVE [Ledger!Next]_LedgerStatus
  BY <1>6 DEF try_lock, LockBusy, row, hist
<1>7. ASSUME NEW w \in Workers, defer(w) PROVE [Ledger!Next]_LedgerStatus
  BY <1>7 DEF defer, SetState, Forget, hist
<1>8. ASSUME NEW w \in Workers, _run_one(w) PROVE [Ledger!Next]_LedgerStatus
  BY <1>8 DEF _run_one, AlreadyApplied, row, Fault
<1>9. ASSUME NEW w \in Workers, CommitWork(w) PROVE [Ledger!Next]_LedgerStatus
  <2>0. job[w] \in Jobs
    BY <1>9 DEF CommitWork
  <2>1. LedgerStatus[job[w]] = "owed" /\ LedgerStatus'[job[w]] = "landed"
    BY <1>9, <2>0 DEF CommitWork, mark_work_committed
  <2>2. \A i \in Jobs : i # job[w] => LedgerStatus'[i] = LedgerStatus[i]
    BY <1>9, <2>0 DEF CommitWork, mark_work_committed
  <2> QED
    BY <2>0, <2>1, <2>2, MoveIsStep DEF Ledger!Next, Ledger!Land
<1>10. ASSUME NEW w \in Workers, NEW kind \in {"raised", "doomed"}, Raise(w, kind)
     PROVE [Ledger!Next]_LedgerStatus
  BY <1>10 DEF Raise, row, hist
<1>11. ASSUME NEW w \in Workers, complete(w) PROVE [Ledger!Next]_LedgerStatus
  <2>0. job[w] \in Jobs
    BY <1>11 DEF complete
  <2>1. LedgerStatus[job[w]] = "landed" /\ LedgerStatus'[job[w]] = "done"
    BY <1>11, <2>0 DEF complete, SetState, Settle, hist
  <2>2. \A i \in Jobs : i # job[w] => LedgerStatus'[i] = LedgerStatus[i]
    BY <1>11, <2>0 DEF complete, SetState, Settle, hist
  <2> QED
    BY <2>0, <2>1, <2>2, MoveIsStep DEF Ledger!Next, Ledger!Finish
<1>12. ASSUME NEW w \in Workers, fail(w) PROVE [Ledger!Next]_LedgerStatus
  <2>0. job[w] \in Jobs /\ LedgerStatus[job[w]] = "owed"
    BY <1>12 DEF fail
  <2>1. CASE will_retry(w)
    BY <1>12, <2>0, <2>1 DEF fail, SetState, Settle, hist
  <2>2. CASE ~will_retry(w)
    <3>1. LedgerStatus'[job[w]] = "failed"
      BY <1>12, <2>0, <2>2 DEF fail, SetState, Settle, _record_failure, hist
    <3>2. \A i \in Jobs : i # job[w] => LedgerStatus'[i] = LedgerStatus[i]
      BY <1>12, <2>0, <2>2 DEF fail, SetState, Settle, _record_failure, hist
    <3> QED
      BY <2>0, <3>1, <3>2, MoveIsStep DEF Ledger!Next, Ledger!GiveUp
  <2> QED
    BY <2>1, <2>2
<1>13. ASSUME NEW w \in Workers, unlock(w) PROVE [Ledger!Next]_LedgerStatus
  BY <1>13 DEF unlock, Forget, row, hist
<1>14. ASSUME NEW w \in Workers, touch(w) PROVE [Ledger!Next]_LedgerStatus
  BY <1>14 DEF touch, hist
<1>15. ASSUME NEW w \in Workers, KeeperCap(w) PROVE [Ledger!Next]_LedgerStatus
  BY <1>15 DEF KeeperCap, Fault, row
<1>16. ASSUME NEW w \in Workers, Crash(w) PROVE [Ledger!Next]_LedgerStatus
  BY <1>16 DEF Crash, Fault, ReleaseLocks, Forget, row
<1>17. ASSUME NEW w \in Workers, LoseConnection(w) PROVE [Ledger!Next]_LedgerStatus
  BY <1>17 DEF LoseConnection, Fault, ReleaseLocks, row
<1>18. ASSUME NEW w \in Workers, AbandonPass(w) PROVE [Ledger!Next]_LedgerStatus
  BY <1>18 DEF AbandonPass, Forget, row, hist
<1>19. CASE UNCHANGED vars
  BY <1>19 DEF vars, row, worker, hist
<1> QED
  BY <1>1, <1>2, <1>3, <1>4, <1>5, <1>6, <1>7, <1>8, <1>9,
     <1>10, <1>11, <1>12, <1>13, <1>14, <1>15, <1>16, <1>17, <1>18, <1>19
     DEF Next, Execute

\* Crashes, lost connections, retries and busy keys are invisible to whoever
\* enqueued the work: the queue implements the at-most-once ledger.
THEOREM QueueImplementsLedger == LeasesHold /\ Spec => ImplementsLedger
<1> SUFFICES ASSUME LeasesHold PROVE Spec => ImplementsLedger
  OBVIOUS
<1>1. Init => KeptInv /\ Ledger!Init
  BY DEF Init, KeptInv, OwnerInv, FenceInv, FenceExact, ClaimRemembers, DoneMeansLanded,
         SoleOwner, DomainAgrees, On, Acting, TypeOK, States, Stages, Waiting, Executing,
         LedgerStatus, Ledger!Init
<1>2. KeptInv /\ [Next]_vars => KeptInv'
  BY KeptStep
<1>3. KeptInv /\ [Next]_vars => [Ledger!Next]_LedgerStatus
  BY LedgerStep
<1> QED
  BY <1>1, <1>2, <1>3, PTL DEF Spec, ImplementsLedger, Ledger!Spec
=============================================================================

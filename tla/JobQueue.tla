------------------------------ MODULE JobQueue ------------------------------
(***************************************************************************)
(* The Postgres job queue (workers/src/motet_workers/jobs.py) and the      *)
(* drain loop that works it (loop.py).                                     *)
(*                                                                         *)
(* A job is one row of `jobs'.  A worker is one drain pass: a process with *)
(* a database connection (which owns the session advisory lock it takes)   *)
(* and, while a job runs, a lease-keeper thread with connections of its    *)
(* own.  One job passes through three transactions - claim, work, outcome  *)
(* - and every action below is one of them, or one autocommit statement    *)
(* between them, so a crash, a lost connection or an expired lease can     *)
(* fall between any two.                                                   *)
(*                                                                         *)
(* Time is abstracted to the two comparisons CLAIM_SQL makes: `due' says   *)
(* whether run_at has passed and `lease' whether locked_at is older than   *)
(* STALE_LEASE_SECONDS.  Payloads, error texts and metrics are left out.   *)
(***************************************************************************)
EXTENDS Integers, FiniteSets

CONSTANTS
    Jobs,         \* the rows that may ever be enqueued (ids are never reused)
    Workers,      \* concurrent drain passes
    Keys,         \* serialization keys (user ids)
    KeyOf,        \* the serialize_key of each job, or NoKey
    NoKey, None,
    MaxAttempts,  \* DEFAULT_MAX_ATTEMPTS
    Faults,       \* which faults the environment may inject
    MaxFaults     \* how many of them, in all (a bound of the model)

FaultKinds ==
    { "crash",    \* the process is killed: OOM, task timeout, SIGKILL
      "conn",     \* Postgres drops the worker's connection, the process lives
      "keeper",   \* the lease keeper stops early or never starts
      "stall" }   \* a live, covered lease is still allowed to run out

ASSUME JobQueueAssumption ==
    /\ KeyOf \in [Jobs -> Keys \cup {NoKey}]
    /\ NoKey \notin Keys
    /\ None \notin Workers
    /\ None \notin Jobs
    /\ None \notin Int
    /\ MaxAttempts \in Nat \ {0}
    /\ MaxFaults \in Nat
    /\ Faults \subseteq FaultKinds

VARIABLES
    \* one row of `jobs'
    state,     \* "new" (not inserted) / the column's four values / "gone" (pruned)
    due,       \* the rows whose run_at has passed
    lease,     \* locked_at: "none" (NULL), "fresh", "stale"
    attempts,
    fence,     \* work_committed_attempt, None for NULL
    \* pg_locks
    holder,    \* which worker's session holds a key's advisory lock
    \* one worker
    pc, job, att, fen,   \* where it is, and the Job record it claimed
    conn,      \* the workers whose connection is alive
    keeper,    \* the workers whose lease keeper is running
    \* what the handlers wrote on the domain object a job is about
    domain,
    \* history, read by properties only
    applied,   \* how many times the job's work has been committed
    seen,      \* `applied' of its job at the moment this worker claimed it
    lapsed,    \* the jobs whose lease once ran out under a live worker
    faults     \* faults injected so far

row    == <<state, due, lease, attempts, fence>>
worker == <<pc, job, att, fen, conn, keeper, seen>>
hist   == <<applied, lapsed, faults>>
vars   == <<row, holder, worker, domain, hist>>

States == {"new", "ready", "running", "done", "failed", "gone"}

\* Before the lock / between the lock and the recorded outcome / after it.
Waiting   == {"claimed", "deferring"}
Executing == {"locked", "replay", "running", "landed", "raised", "doomed"}
Stages    == {"idle", "settled"} \cup Waiting \cup Executing

\* The stages in which a worker may still write the row it claimed.
Acting(w) == pc[w] \in Waiting \cup Executing
\* The stages in which drain holds the key's advisory lock.
Locking(w) == pc[w] \in Executing \cup {"settled"}

TypeOK ==
    /\ state \in [Jobs -> States]
    /\ due \subseteq Jobs
    /\ lease \in [Jobs -> {"none", "fresh", "stale"}]
    /\ attempts \in [Jobs -> Int]
    /\ fence \in [Jobs -> Int \cup {None}]
    /\ holder \in [Keys -> Workers \cup {None}]
    /\ pc \in [Workers -> Stages]
    /\ job \in [Workers -> Jobs \cup {None}]
    /\ \A w \in Workers : job[w] = None <=> pc[w] = "idle"
    /\ att \in [Workers -> Int]
    /\ fen \in [Workers -> Int \cup {None}]
    /\ conn \subseteq Workers
    /\ keeper \subseteq Workers
    /\ domain \in [Jobs -> {"open", "applied", "failed"}]
    /\ applied \in [Jobs -> Nat]
    /\ seen \in [Workers -> Nat]
    /\ lapsed \subseteq Jobs
    /\ faults \in 0..MaxFaults

Init ==
    /\ state = [j \in Jobs |-> "new"]
    /\ due = {}
    /\ lease = [j \in Jobs |-> "none"]
    /\ attempts = [j \in Jobs |-> 0]
    /\ fence = [j \in Jobs |-> None]
    /\ holder = [k \in Keys |-> None]
    /\ pc = [w \in Workers |-> "idle"]
    /\ job = [w \in Workers |-> None]
    /\ att = [w \in Workers |-> 0]
    /\ fen = [w \in Workers |-> None]
    /\ conn = Workers
    /\ keeper = {}
    /\ domain = [j \in Jobs |-> "open"]
    /\ applied = [j \in Jobs |-> 0]
    /\ seen = [w \in Workers |-> 0]
    /\ lapsed = {}
    /\ faults = 0

(***************************************************************************)
(* Helpers                                                                 *)
(***************************************************************************)

Offered_ignoring_lease(j) ==
    \/ state[j] = "ready" /\ j \in due
    \/ state[j] = "running"
Offered_without_reclaim(j) == state[j] = "ready" /\ j \in due

\* CLAIM_SQL's two arms: a due ready row, or a running row left untouched.
Offered(j) ==
    \/ state[j] = "ready" /\ j \in due
    \/ state[j] = "running" /\ lease[j] = "stale"

\* CLAIM_SQL's busy-key filter, a read of pg_locks.
KeyFree(j) == KeyOf[j] # NoKey => holder[KeyOf[j]] = None

\* CLAIM_SQL's SET: every claim is charged, a reclaim included.
ClaimedAttempts(j) == attempts[j] + 1

LockBusy_trusting_the_claim(k) == FALSE

\* pg_try_advisory_lock returns false: another session holds the key.
LockBusy(k) == holder[k] # None

mark_work_committed_dropped(j, a) == UNCHANGED fence

\* The work fence, written inside the handler's transaction.
mark_work_committed(j, a) == fence' = [fence EXCEPT ![j] = a]

AlreadyApplied_if_retried(w) == att[w] > 1

\* _execute's test of the claimed row's work_committed_attempt.
AlreadyApplied(w) == fen[w] # None

_record_failure_dropped(j) == UNCHANGED domain

\* The recorder of the job's queue marks the domain object, unconditionally.
_record_failure(j) == domain' = [domain EXCEPT ![j] = "failed"]

\* An UPDATE ... WHERE id = j sets the state only of a row that still exists.
SetState(j, s) ==
    state' = [state EXCEPT ![j] = IF @ = "gone" THEN "gone" ELSE s]

ReleaseLocks_never(w) == UNCHANGED holder

\* Postgres frees a session's advisory locks when the session ends.
ReleaseLocks(w) ==
    holder' = [k \in Keys |-> IF holder[k] = w THEN None ELSE holder[k]]

Forget_keeping_the_job(w) ==
    /\ pc' = [pc EXCEPT ![w] = "idle"]
    /\ conn' = conn \cup {w}
    /\ keeper' = keeper \ {w}
    /\ UNCHANGED <<job, att, fen, seen>>

\* The worker process starts its loop again with nothing in hand.
Forget(w) ==
    /\ pc' = [pc EXCEPT ![w] = "idle"]
    /\ job' = [job EXCEPT ![w] = None]
    /\ conn' = conn \cup {w}
    /\ keeper' = keeper \ {w}
    /\ att' = [att EXCEPT ![w] = 0]
    /\ fen' = [fen EXCEPT ![w] = None]
    /\ seen' = [seen EXCEPT ![w] = 0]

Fault(kind) ==
    /\ kind \in Faults
    /\ faults < MaxFaults
    /\ faults' = faults + 1

(***************************************************************************)
(* Producers, the clock and the retention sweep                            *)
(***************************************************************************)

\* jobs.enqueue, in the transaction of whoever creates the work.
enqueue(j) ==
    /\ state[j] = "new"
    /\ state' = [state EXCEPT ![j] = "ready"]
    /\ due' = due \cup {j}
    /\ UNCHANGED <<lease, attempts, fence, holder, worker, domain, hist>>

\* A backoff or a busy-key delay passes.
BecomeDue(j) ==
    /\ state[j] = "ready" /\ j \notin due
    /\ due' = due \cup {j}
    /\ UNCHANGED <<state, lease, attempts, fence, holder, worker, domain, hist>>

\* Somebody is saying they are still on the row's current claim: a keeper, or
\* a worker that has not yet reached the handful of statements before it.
Covered(j) ==
    \E w \in Workers :
        /\ job[w] = j
        /\ att[w] = attempts[j]
        /\ w \in keeper \/ pc[w] \in Waiting \cup {"locked"}

\* STALE_LEASE_SECONDS pass without a touch.  With a live keeper that takes a
\* stall: thirty touches in a row that fail, or a frozen process.
ExpireLease(j) ==
    /\ state[j] = "running" /\ lease[j] = "fresh"
    /\ lease' = [lease EXCEPT ![j] = "stale"]
    /\ lapsed' = IF \E w \in conn : job[w] = j /\ Acting(w)
                 THEN lapsed \cup {j} ELSE lapsed
    /\ IF Covered(j) THEN Fault("stall") ELSE UNCHANGED faults
    /\ UNCHANGED <<state, due, attempts, fence, holder, worker, domain, applied>>

\* jobs.prune deletes a terminal row once its retention window has passed.
prune(j) ==
    /\ state[j] \in {"done", "failed"}
    /\ state' = [state EXCEPT ![j] = "gone"]
    /\ UNCHANGED <<due, lease, attempts, fence, holder, worker, domain, hist>>

(***************************************************************************)
(* One job, from claim to outcome                                          *)
(***************************************************************************)

\* jobs.claim: one statement, committed before the job runs.
claim(w, j) ==
    /\ pc[w] = "idle"
    /\ Offered(j) /\ KeyFree(j)
    /\ state' = [state EXCEPT ![j] = "running"]
    /\ lease' = [lease EXCEPT ![j] = "fresh"]
    /\ attempts' = [attempts EXCEPT ![j] = ClaimedAttempts(j)]
    /\ pc' = [pc EXCEPT ![w] = "claimed"]
    /\ job' = [job EXCEPT ![w] = j]
    /\ att' = [att EXCEPT ![w] = ClaimedAttempts(j)]
    /\ fen' = [fen EXCEPT ![w] = fence[j]]
    /\ seen' = [seen EXCEPT ![w] = applied[j]]
    /\ UNCHANGED <<due, fence, holder, conn, keeper, domain, applied, lapsed, faults>>

\* jobs.try_lock after the claim: the correctness fence of a busy key.
try_lock(w) ==
    /\ pc[w] = "claimed" /\ w \in conn
    /\ LET k == KeyOf[job[w]] IN
       \/ /\ k = NoKey
          /\ pc' = [pc EXCEPT ![w] = "locked"]
          /\ UNCHANGED holder
       \/ /\ k # NoKey /\ ~LockBusy(k)
          /\ holder' = [holder EXCEPT ![k] = w]
          /\ pc' = [pc EXCEPT ![w] = "locked"]
       \/ /\ k # NoKey /\ LockBusy(k)
          /\ pc' = [pc EXCEPT ![w] = "deferring"]
          /\ UNCHANGED holder
    /\ UNCHANGED <<row, job, att, fen, conn, keeper, seen, domain, hist>>

\* jobs.defer: hand the row back without charging the attempt.
defer(w) ==
    /\ pc[w] = "deferring" /\ w \in conn
    /\ LET j == job[w] IN
       /\ SetState(j, "ready")
       /\ lease' = [lease EXCEPT ![j] = "none"]
       /\ due' = due \ {j}
       /\ attempts' = [attempts EXCEPT ![j] = @ - 1]
    /\ Forget(w)
    /\ UNCHANGED <<fence, holder, domain, hist>>

\* _run_one: the keeper's thread starts (or cannot), and _execute looks at
\* work_committed_attempt as the claim returned it.
_run_one(w) ==
    /\ pc[w] = "locked" /\ w \in conn
    /\ pc' = [pc EXCEPT ![w] = IF AlreadyApplied(w) THEN "replay" ELSE "running"]
    /\ \/ keeper' = keeper \cup {w} /\ UNCHANGED faults
       \/ Fault("keeper") /\ UNCHANGED keeper
    /\ UNCHANGED <<row, holder, job, att, fen, conn, seen, domain, applied, lapsed>>

\* The handler's transaction commits, with mark_work_committed as its last
\* statement.
CommitWork(w) ==
    /\ pc[w] = "running" /\ w \in conn
    /\ LET j == job[w] IN
       /\ domain' = [domain EXCEPT ![j] = "applied"]
       /\ applied' = [applied EXCEPT ![j] = @ + 1]
       /\ mark_work_committed(j, att[w])
    /\ pc' = [pc EXCEPT ![w] = "landed"]
    /\ UNCHANGED <<state, due, lease, attempts, holder, job, att, fen, conn, keeper,
                   seen, lapsed, faults>>

\* The handler raises and its transaction rolls back: an ordinary exception,
\* or one no retry can help (PermanentFailure, LlmBudgetExhaustedError).
Raise(w, kind) ==
    /\ pc[w] = "running" /\ w \in conn
    /\ pc' = [pc EXCEPT ![w] = kind]
    /\ UNCHANGED <<row, holder, job, att, fen, conn, keeper, seen, domain, hist>>

\* _hold_lease exits with the outcome recorded, whichever it is.
Settle(w) ==
    /\ pc' = [pc EXCEPT ![w] = "settled"]
    /\ keeper' = keeper \ {w}
    /\ UNCHANGED <<job, att, fen, conn, seen>>

\* jobs.complete, in a transaction of its own.
complete(w) ==
    /\ pc[w] \in {"landed", "replay"} /\ w \in conn
    /\ SetState(job[w], "done")
    /\ Settle(w)
    /\ UNCHANGED <<due, lease, attempts, fence, holder, domain, hist>>

\* jobs.will_retry
will_retry(w) == pc[w] = "raised" /\ att[w] < MaxAttempts

\* The failure arms of _execute: the domain object first, if the ceiling is
\* reached, and then jobs.fail, in one transaction.
fail(w) ==
    /\ pc[w] \in {"raised", "doomed"} /\ w \in conn
    /\ LET j == job[w] IN
       IF will_retry(w)
       THEN /\ SetState(j, "ready")
            /\ lease' = [lease EXCEPT ![j] = "none"]
            /\ due' = due \ {j}
            /\ UNCHANGED domain
       ELSE /\ SetState(j, "failed")
            /\ _record_failure(j)
            /\ UNCHANGED <<lease, due>>
    /\ Settle(w)
    /\ UNCHANGED <<attempts, fence, holder, hist>>

\* drain's finally: unlock, run the after-commit steps, look for more work.
unlock(w) ==
    /\ pc[w] = "settled" /\ w \in conn
    /\ LET k == KeyOf[job[w]] IN
       holder' = IF k = NoKey THEN holder ELSE [holder EXCEPT ![k] = None]
    /\ Forget(w)
    /\ UNCHANGED <<row, domain, hist>>

(***************************************************************************)
(* The lease keeper, on connections of its own                             *)
(***************************************************************************)

\* jobs.touch: HELD renews the lease; LOST and SETTLED end the keeper.
touch(w) ==
    /\ w \in keeper
    /\ LET j == job[w] IN
       IF state[j] = "running" /\ attempts[j] = att[w]
       THEN lease' = [lease EXCEPT ![j] = "fresh"] /\ UNCHANGED keeper
       ELSE keeper' = keeper \ {w} /\ UNCHANGED lease
    /\ UNCHANGED <<state, due, attempts, fence, holder, pc, job, att, fen, conn, seen,
                   domain, hist>>

\* MAX_LEASE_EXTENSION_SECONDS pass with the handler still running.
KeeperCap(w) ==
    /\ w \in keeper
    /\ Fault("keeper")
    /\ keeper' = keeper \ {w}
    /\ UNCHANGED <<row, holder, pc, job, att, fen, conn, seen, domain, applied, lapsed>>

(***************************************************************************)
(* Failures of the worker                                                  *)
(***************************************************************************)

\* The process dies: its session, its locks and its keeper go with it.
Crash(w) ==
    /\ pc[w] # "idle"
    /\ Fault("crash")
    /\ ReleaseLocks(w)
    /\ Forget(w)
    /\ UNCHANGED <<row, domain, applied, lapsed>>

\* The session dies under a live process, which finds out at its next
\* statement; the keeper, on other connections, goes on.
LoseConnection(w) ==
    /\ pc[w] # "idle" /\ w \in conn
    /\ Fault("conn")
    /\ ReleaseLocks(w)
    /\ conn' = conn \ {w}
    /\ UNCHANGED <<row, pc, job, att, fen, keeper, seen, domain, applied, lapsed>>

\* The next statement on the dead session raises out of _execute and drain.
AbandonPass(w) ==
    /\ w \notin conn
    /\ Forget(w)
    /\ UNCHANGED <<row, holder, domain, hist>>

-----------------------------------------------------------------------------

Execute(w) ==
    \/ try_lock(w) \/ defer(w) \/ _run_one(w)
    \/ CommitWork(w) \/ Raise(w, "raised") \/ Raise(w, "doomed")
    \/ complete(w) \/ fail(w) \/ unlock(w)
    \/ AbandonPass(w)

Next ==
    \/ \E j \in Jobs : enqueue(j) \/ BecomeDue(j) \/ ExpireLease(j) \/ prune(j)
    \/ \E w \in Workers, j \in Jobs : claim(w, j)
    \/ \E w \in Workers :
        \/ Execute(w)
        \/ touch(w) \/ KeeperCap(w)
        \/ Crash(w) \/ LoseConnection(w)

Spec == Init /\ [][Next]_vars

(***************************************************************************)
(* Fairness: a live worker takes its next step (a handler returns or       *)
(* raises), clocks advance, a lease nobody renews runs out, and - because  *)
(* CLAIM_SQL orders by run_at, so no later row can overtake a due one for  *)
(* ever - every row that keeps being offered is eventually claimed.        *)
(***************************************************************************)
Fairness ==
    /\ \A w \in Workers : WF_vars(Execute(w))
    /\ \A j \in Jobs :
        /\ WF_vars(BecomeDue(j))
        /\ WF_vars(~Covered(j) /\ ExpireLease(j))
        /\ SF_vars(\E w \in Workers : claim(w, j))

FairSpec == Spec /\ Fairness

-----------------------------------------------------------------------------
(***************************************************************************)
(* Safety                                                                  *)
(***************************************************************************)

\* Invariant 6 of the system: two workers that can still write never run jobs
\* of one serialization key at once - whatever crashes, stalls or lost
\* connections happen, and although the claim's own filter is only a hint.
KeyExclusion ==
    \A v, w \in conn :
        /\ v # w
        /\ Locking(v) /\ Locking(w)
        /\ KeyOf[job[v]] # NoKey
        => KeyOf[job[v]] # KeyOf[job[w]]

\* An advisory lock is never left behind: whoever holds a key is at that
\* moment between drain's try_lock and its unlock for a job of that key.  (A
\* leaked lock would hide the user's jobs from every claim for ever.)
LockNotLeaked ==
    \A k \in Keys : holder[k] # None =>
        LET w == holder[k] IN w \in conn /\ Locking(w) /\ KeyOf[job[w]] = k

\* A claim made after the job's work was committed never runs the handler
\* again: mark_work_committed's fence against replay, under every fault.
NoReplay ==
    \A w \in Workers : pc[w] \in {"running", "raised", "doomed"} => seen[w] = 0

\* Work is committed twice only if a lease once ran out under a worker that
\* was still able to write: crashes and lost connections alone never do it.
DuplicateNeedsLapse ==
    \A j \in Jobs : applied[j] > 1 => j \in lapsed

\* A job called done has had its work committed, under every fault.
DoneMeansLanded ==
    \A j \in Jobs : state[j] = "done" => applied[j] > 0

\* Unless its lease lapsed under a live worker, the job row and the domain
\* object tell the same story, and a success is never overwritten by failure.
OutcomeMatchesDomain ==
    \A j \in Jobs : j \notin lapsed =>
        /\ state[j] = "done" => domain[j] = "applied"
        /\ state[j] = "failed" => domain[j] = "failed"
        /\ domain[j] = "failed" => applied[j] = 0

(***************************************************************************)
(* The abstract queue                                                      *)
(***************************************************************************)

LedgerStatus ==
    [j \in Jobs |->
        CASE state[j] = "new"  -> "absent"
          [] state[j] = "gone" -> "forgotten"
          [] state[j] \in {"done", "failed"} -> state[j]
          [] OTHER -> IF applied[j] > 0 THEN "landed" ELSE "owed"]

Ledger == INSTANCE WorkLedger WITH status <- LedgerStatus

\* Where leases do not lapse under live workers, the queue implements the
\* ledger: crashes, lost connections, retries and busy keys are invisible.
ImplementsLedger == Ledger!Spec

(***************************************************************************)
(* Liveness                                                                *)
(***************************************************************************)

\* Every job that is ever runnable is eventually done or visibly failed: no
\* crash, lost connection or busy key strands it.
EventuallySettled ==
    \A j \in Jobs :
        state[j] \in {"ready", "running"} ~> state[j] \in {"done", "failed", "gone"}

(***************************************************************************)
(* What comments in the code say, and the code does not do                 *)
(***************************************************************************)

\* jobs.py on CLAIM_SQL: "the retry ceiling still bounds a job that kills
\* every worker that touches it".
CeilingBoundsEveryRun ==
    \A w \in Workers : pc[w] = "running" => att[w] <= MaxAttempts

\* jobs.touch: "no worker is ever alive holding a value a later claim can
\* reproduce" - so a keeper can tell its own claim from another worker's.
KeeperKnowsItsClaim ==
    \A v, w \in keeper : (v # w /\ job[v] = job[w]) => att[v] # att[w]

=============================================================================

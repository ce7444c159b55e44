------------------------------ MODULE Requests ------------------------------
(***************************************************************************)
(* One request to the API, from its transaction to the worker execution it *)
(* asks for, and the worker process that drains the queues.                *)
(* api/src/motet_api/deps.py, drain.py, slack.py, waitlist.py, throttle.py *)
(* and the routes of main.py; db/src/motet_db/waitlist.py;                 *)
(* workers/src/motet_workers/runner.py and loop.py.                        *)
(*                                                                         *)
(* The transaction is the request.  A route writes its job row and arms a  *)
(* nudge (or a Slack alert); connection commits and only then fires what   *)
(* was armed.  A worker execution drains each queue of PIPELINE once, in   *)
(* order.  A request enqueues at most one job, and the jobs its handlers   *)
(* enqueue in turn are its chain, so a job is named by its request.  What  *)
(* happens inside one job is the subject of JobQueue.                      *)
(***************************************************************************)
EXTENDS Base, Integers, Sequences

CONSTANTS
    Reqs,          \* requests, numbered as they arrive
    Execs,         \* worker processes
    MaxJobs,       \* jobs one drain of one queue takes
    Addresses,     \* addresses typed into the landing page
    MaxSubmissions, \* where the submissions column saturates
    MaxStarts,     \* workers started without a nudge (bound)
    Switch,        \* MOTET_DRAIN_TRIGGER and what it needs: off, unusable or on
    Webhook        \* the Slack webhook: unset, unusable or usable

ASSUME RequestAssumption == Reqs \subseteq Nat /\ MaxJobs \in Nat \ {0} /\ MaxSubmissions \in Nat \ {0}
                            /\ MaxStarts \in Nat /\ None \notin Addresses \cup Nat

VARIABLES
    req,       \* each request: where it is, whether a nudge is armed, the address armed
    job,       \* each request's job row; and as history, whether Cloud Run accepted its
               \* nudge, and whether a worker that stopped short left it
    exec,      \* each worker process
    listed,    \* the waitlist: submissions per address, and who holds the row
    told,      \* alerts Slack accepted, per address
    starts     \* workers started without a nudge

requestVars == <<req, job, exec, listed, told, starts>>

NothingQueued == [q |-> "none", st |-> "none", nudged |-> FALSE, left |-> FALSE]

\* The queues in the order one pass drains them.
PIPELINE_integrate_first ==
    <<"poll", "extract", "integrate", "enrich", "assemble", "script", "tts">>
PIPELINE == <<"poll", "extract", "enrich", "integrate", "assemble", "script", "tts">>

QueueNames == {PIPELINE[i] : i \in 1..Len(PIPELINE)}
Place(q) == CHOOSE i \in 1..Len(PIPELINE) : PIPELINE[i] = q

\* Which queue a handler hands its job on to, "none" where it ends: a poll that found
\* nothing new and an extraction, which leaves the item held, end the chain.
HandsOn(q) ==
    CASE q = "poll" -> {"extract", "none"}
      [] q = "enrich" -> {"integrate"}
      [] q = "assemble" -> {"script"}
      [] q = "script" -> {"tts"}
      [] OTHER -> {"none"}

\* resolve_job and build_trigger: a switch that is off, a value that cannot go
\* into the URL and a missing library all leave the inert trigger.
build_trigger(switch) == IF switch = "on" THEN "cloudrun" ELSE "null"
\* build_alerter: an unset webhook and an unusable one both leave the inert one.
build_alerter(webhook) == IF webhook = "usable" THEN "webhook" ELSE "null"

IdleExec == [at |-> 0, kind |-> "once", job |-> None, n |-> 0, stop |-> FALSE]

RequestInit ==
    /\ req = [r \in Reqs |-> [at |-> "idle", armed |-> FALSE, alert |-> None]]
    /\ job = [r \in Reqs |-> NothingQueued]
    /\ exec = [x \in Execs |-> IdleExec]
    /\ listed = [a \in Addresses |-> [n |-> 0, by |-> None, was |-> 0]]
    /\ told = [a \in Addresses |-> 0]
    /\ starts = 0

\* The types of the rows and of what the processes hold.
RequestTypeOK ==
    /\ \A r \in Reqs :
           /\ req[r].at \in {"idle", "wrote", "committed", "over"}
           /\ req[r].alert \in Addresses \cup {None}
           /\ job[r].q \in QueueNames \cup {"none"}
           /\ job[r].st \in {"none", "pending", "ready", "running", "over"}
           /\ {job[r].nudged, job[r].left} \subseteq BOOLEAN
    /\ \A x \in Execs :
           /\ exec[x].at \in 0..(Len(PIPELINE) + 1)
           /\ exec[x].job \in Reqs \cup {None} /\ exec[x].n \in 0..MaxJobs
    /\ \A a \in Addresses : listed[a].n \in 0..MaxSubmissions
    /\ starts \in 0..MaxStarts

(***************************************************************************)
(* The request                                                             *)
(***************************************************************************)

Arrives(r) == req[r].at = "idle" /\ \A s \in Reqs : s < r => req[s].at # "idle"

\* A route's enqueue, in the request's transaction, and the nudge armed beside it.
arm(r, q) ==
    /\ Arrives(r)
    /\ job' = [job EXCEPT ![r] = [NothingQueued EXCEPT !.q = q, !.st = "pending"]]
    /\ req' = [req EXCEPT ![r].at = "wrote", ![r].armed = TRUE]
    /\ UNCHANGED <<exec, listed, told, starts>>

\* A paste and an ingest-now are planned for the agent first when they link to a site.
paste_source(r) == \E q \in {"enrich", "integrate"} : arm(r, q)
integrate_source_items(r) == \E q \in {"enrich", "integrate"} : arm(r, q)
create_episode(r) == arm(r, "assemble")
create_smart_episode(r) == arm(r, "assemble")
ask_for_poll(r) == arm(r, "poll")

\* ingest-now when nothing was left to queue: no job, no nudge
NothingToQueue(r) ==
    /\ Arrives(r)
    /\ req' = [req EXCEPT ![r].at = "wrote"]
    /\ UNCHANGED <<job, exec, listed, told, starts>>

\* read_submission: what the form said, read before the database is touched.
\* Only an address that parsed reaches the write.
read_submission == {"unsupported", "too_large", "invalid", "honeypot", "address"}

\* waitlist.join: one INSERT ON CONFLICT; it waits for another request's
\* uncommitted row.  The count saturates.
join(r, a) ==
    /\ listed[a].by = None
    /\ listed' = [listed EXCEPT ![a] =
                     [n |-> IF @.n < MaxSubmissions THEN @.n + 1 ELSE @.n,
                      by |-> r, was |-> @.n]]

\* join_waitlist: a refusal and a bot write nothing and arm nothing.  The write
\* may fail, which is answered too; the count for the message never undoes the row.
join_waitlist(r) ==
    /\ Arrives(r)
    /\ \E form \in read_submission, fails \in BOOLEAN :
           IF form # "address" \/ fails
           THEN /\ req' = [req EXCEPT ![r].at = "wrote"]
                /\ listed' = listed
           ELSE \E a \in Addresses :
                    /\ join(r, a)
                    /\ req' = [req EXCEPT ![r].at = "wrote", ![r].alert = a]
    /\ UNCHANGED <<job, exec, told, starts>>

Settle_row(r, kept) ==
    listed' = [a \in Addresses |->
                  IF listed[a].by # r THEN listed[a]
                  ELSE [listed[a] EXCEPT !.by = None, !.was = 0,
                                         !.n = IF kept THEN @ ELSE listed[a].was]]

\* connection after its yield: the commit that makes the rows visible.  The
\* response is sent once what was armed, if anything, has fired.
commit(r) ==
    /\ req[r].at = "wrote"
    /\ req' = [req EXCEPT ![r].at = IF req[r].armed \/ req[r].alert # None
                                   THEN "committed" ELSE "over"]
    /\ job' = [job EXCEPT ![r].st = IF @ = "pending" THEN "ready" ELSE @]
    /\ Settle_row(r, TRUE)
    /\ UNCHANGED <<exec, told, starts>>

\* The route or the commit raised: everything is rolled back and nothing fires.
rollback(r) ==
    /\ req[r].at = "wrote"
    /\ req' = [req EXCEPT ![r] = [at |-> "over", armed |-> FALSE, alert |-> None]]
    /\ job' = [job EXCEPT ![r] = NothingQueued]
    /\ Settle_row(r, FALSE)
    /\ UNCHANGED <<exec, told, starts>>

\* When connection fires what the request armed
MayFire_before_commit(r) == req[r].at \in {"wrote", "committed"}
MayFire(r) == req[r].at = "committed"

Started(x, kind) == [exec EXCEPT ![x] = [IdleExec EXCEPT !.at = 1, !.kind = kind]]

\* DrainNudge.fire with CloudRunJobTrigger.fire: an execution is started, or the
\* call was denied, refused or lost.  The nudge is disarmed first, so once only.
fire_nudge(r) ==
    /\ MayFire(r) /\ req[r].armed
    /\ req' = [req EXCEPT ![r].armed = FALSE, ![r].at = "over"]
    /\ \/ /\ build_trigger(Switch) = "cloudrun"
          /\ \E x \in Execs : exec[x].at = 0 /\ exec' = Started(x, "once")
          /\ job' = [job EXCEPT ![r].nudged = job[r].st # "over"]
       \/ UNCHANGED <<exec, job>>
    /\ UNCHANGED <<listed, told, starts>>

\* WaitlistAlert.fire with WebhookSlackAlerter.signup: sent, refused or lost.
fire_alert(r) ==
    /\ MayFire(r) /\ ~ req[r].armed /\ req[r].alert # None
    /\ req' = [req EXCEPT ![r].alert = None, ![r].at = "over"]
    /\ \/ /\ build_alerter(Webhook) = "webhook"
          /\ told' = [told EXCEPT ![req[r].alert] = @ + 1]
       \/ told' = told
    /\ UNCHANGED <<job, exec, listed, starts>>

(***************************************************************************)
(* The worker process                                                      *)
(***************************************************************************)

\* The scheduler's backstop starts a one-shot execution; a laptop runs the loop.
start_worker(x, kind) ==
    /\ exec[x].at = 0 /\ starts < MaxStarts
    /\ exec' = Started(x, kind)
    /\ starts' = starts + 1
    /\ UNCHANGED <<req, job, listed, told>>

ReadyAt(q) == {r \in Reqs : job[r].st = "ready" /\ job[r].q = q}
\* Invariant 6: one integrate job of the user at a time
Busy(q) == q = "integrate" /\ \E y \in Execs : exec[y].job # None /\ job[exec[y].job].q = q

\* A job put back for later, or given up, is followed no further here.
PutBack(r) == [job EXCEPT ![r] = [NothingQueued EXCEPT !.st = "over"]]

\* What a worker leaves behind ready
Left(jobs_left) == [r \in Reqs |-> IF r \in jobs_left THEN [job[r] EXCEPT !.left = TRUE] ELSE job[r]]
Ready == {r \in Reqs : job[r].st = "ready"}

\* drain, while processed < max_jobs: the next ready job of the queue at hand
drain_claim(x) ==
    /\ exec[x].at \in 1..Len(PIPELINE) /\ exec[x].job = None /\ exec[x].n < MaxJobs
    /\ \E r \in ReadyAt(PIPELINE[exec[x].at]) :
           IF Busy(job[r].q)
           THEN job' = PutBack(r) /\ exec' = exec
           ELSE /\ job' = [job EXCEPT ![r].st = "running"]
                /\ exec' = [exec EXCEPT ![x].job = r]
    /\ UNCHANGED <<req, listed, told, starts>>

\* The handler committed: what it enqueued is ready at once.
run_lands(x) ==
    /\ exec[x].job # None
    /\ \E q \in HandsOn(job[exec[x].job].q) :
           job' = IF q = "none" THEN PutBack(exec[x].job)
                  ELSE [job EXCEPT ![exec[x].job].q = q, ![exec[x].job].st = "ready"]
    /\ exec' = [exec EXCEPT ![x].job = None, ![x].n = @ + 1]
    /\ UNCHANGED <<req, listed, told, starts>>

\* It failed, and is put back for later or given up.
run_fails(x) ==
    /\ exec[x].job # None
    /\ job' = PutBack(exec[x].job)
    /\ exec' = [exec EXCEPT ![x].job = None, ![x].n = @ + 1]
    /\ UNCHANGED <<req, listed, told, starts>>

\* drain returns: the queue is empty, or the pass has run its max_jobs, and
\* then what is left waits for the next run.  The stop flag is read here.
LastQueue(x) == exec[x].at = Len(PIPELINE)
drain_returns(x) ==
    /\ exec[x].at \in 1..Len(PIPELINE) /\ exec[x].job = None
    /\ LET left == ReadyAt(PIPELINE[exec[x].at]) IN
       /\ left = {} \/ exec[x].n = MaxJobs
       /\ job' = Left(IF exec[x].stop THEN Ready ELSE left)
       /\ exec' = [exec EXCEPT ![x] =
                      IF (LastQueue(x) /\ exec[x].kind = "once") \/ exec[x].stop
                      THEN IdleExec
                      ELSE [exec[x] EXCEPT !.at = exec[x].at + 1, !.n = 0]]
    /\ UNCHANGED <<req, listed, told, starts>>

\* The loop begins its next pass, after a sleep when this one found nothing.
next_pass(x) ==
    /\ exec[x].at = Len(PIPELINE) + 1
    /\ exec' = [exec EXCEPT ![x].at = 1]
    /\ UNCHANGED <<req, job, listed, told, starts>>

\* _install_sigterm: only the loop has the handler.
sigterm(x) ==
    /\ exec[x].at # 0 /\ exec[x].kind = "poll" /\ ~ exec[x].stop
    /\ exec' = [exec EXCEPT ![x].stop = TRUE]
    /\ UNCHANGED <<req, job, listed, told, starts>>

\* A stop that arrives while the loop sleeps ends it there.
stop_asleep(x) ==
    /\ exec[x].at = Len(PIPELINE) + 1 /\ exec[x].stop
    /\ exec' = [exec EXCEPT ![x] = IdleExec]
    /\ UNCHANGED <<req, job, listed, told, starts>>

\* external: a task timeout or a lost container; the lease of its job runs out later.
Killed(x) ==
    /\ exec[x].at # 0
    /\ exec' = [exec EXCEPT ![x] = IdleExec]
    /\ job' = [r \in Reqs |-> IF r = exec[x].job THEN PutBack(r)[r] ELSE Left(Ready)[r]]
    /\ UNCHANGED <<req, listed, told, starts>>

RequestNext ==
    \/ \E r \in Reqs :
           \/ paste_source(r) \/ integrate_source_items(r)
           \/ create_episode(r) \/ create_smart_episode(r) \/ ask_for_poll(r)
           \/ NothingToQueue(r) \/ join_waitlist(r) \/ commit(r) \/ rollback(r)
           \/ fire_nudge(r) \/ fire_alert(r)
    \/ \E x \in Execs :
           \/ \E kind \in {"once", "poll"} : start_worker(x, kind)
           \/ drain_claim(x) \/ run_lands(x) \/ run_fails(x) \/ drain_returns(x)
           \/ next_pass(x) \/ sigterm(x) \/ stop_asleep(x) \/ Killed(x)

RequestSpec == RequestInit /\ [][RequestNext]_requestVars

(***************************************************************************)
(* The properties                                                          *)
(***************************************************************************)

StillAhead(x, r) == exec[x].at \in 1..Place(job[r].q)

\* Work whose nudge was accepted is never stranded until the next sweep: while
\* a job of its chain is ready, some worker has that queue still ahead of it.
\* Only a drain that ran its full count and a worker that was stopped or killed
\* leave one behind.  It rests on the commit coming before
\* the nudge and on the queues being drained in the order the work travels.
NudgedWorkIsDrained ==
    \A r \in Ready :
        job[r].nudged /\ ~ job[r].left => \E x \in Execs : StillAhead(x, r)

\* Slack is never told of an address that is not on the list, nor more often
\* than it was stored.
AnnouncedIsStored ==
    \A a \in Addresses :
        LET stored == IF listed[a].by = None THEN listed[a].n ELSE listed[a].was
        IN told[a] > 0 => stored > 0 /\ (stored < MaxSubmissions => told[a] <= stored)

\* Nothing is said of a request that has not committed: what deps.connection
\* fires finds the row it speaks of, the job and the address alike.
ToldAfterCommit == NudgedWorkIsDrained /\ AnnouncedIsStored

=============================================================================

---------------------------- MODULE SourceItems ----------------------------
(***************************************************************************)
(* The source items of one user, from the moment a message is held to the  *)
(* moment dedup has folded it into a story: hold, "ingest now", dismiss,   *)
(* paste, enrich (a billed browser agent), integrate, and the Gmail label  *)
(* write-back.  workers/src/motet_workers/handlers.py, enrich.py,          *)
(* labels.py; db/src/motet_db/repo.py, enrichment.py, phase2.py.           *)
(*                                                                         *)
(* Both queues carry the user's serialization key, so JobQueue's           *)
(* KeyExclusion holds between the workers: one connected execution at a    *)
(* time.  What escapes it is modelled: a worker stalls between its claim   *)
(* and the lock and comes back with a claim that is out of date; a worker  *)
(* loses its database session, and with it the lock, and still reaches the *)
(* side connection and the agent; a worker dies.  Requests of the API take *)
(* a lock of their own, on another lock space.                             *)
(*                                                                         *)
(* Texts are abstracted to where they come from: the newsletter that       *)
(* arrived or the article the agent fetched.                               *)
(***************************************************************************)
EXTENDS Integers, FiniteSets

CONSTANTS
    Items,        \* messages and pastes of one user
    Labelled,     \* the ones whose source, if it is Gmail, has label sync set
    Runs,         \* drain passes
    Requests,     \* "ingest now" and "dismiss" requests
    None,
    MaxRows,      \* job rows of one queue an item may use (bound)
    MaxAttempts,  \* DEFAULT_MAX_ATTEMPTS
    MaxLapses,    \* leases that run out under a live worker (bound)
    MaxLosses,    \* database sessions that drop (bound)
    MaxCrashes    \* workers that die (bound)

ASSUME ItemsAssumption ==
    /\ Labelled \subseteq Items
    /\ None \notin {"letter", "article", "applied", "error"}
    /\ MaxRows \in Nat \ {0} /\ MaxAttempts \in Nat \ {0}
    /\ MaxLapses \in Nat /\ MaxLosses \in Nat /\ MaxCrashes \in Nat

VARIABLES
    state,     \* source_items.state, "absent" before the row exists
    origin,    \* the kind of its source: "mail" or "paste"
    enrich,    \* source_items.enrich_status
    text,      \* source_items.text
    original,  \* source_items.original_text
    links,     \* rows of news_item_sources
    label,     \* label_synced_at / label_error: the write-back's outcome
    rows,      \* the enrich and integrate rows of jobs
    run,       \* the drain passes
    req,       \* the API transactions in progress
    calls,     \* history: agent runs started for the item
    asked,     \* history: the items their owner asked for
    lapses, losses, crashes

item   == <<state, origin, enrich, text, original, links, label>>
hist   == <<calls, asked>>
faults == <<lapses, losses, crashes>>
vars   == <<item, rows, run, req, hist, faults>>

Queues == {"enrich", "integrate"}
JobIds == Items \X Queues \X (1..MaxRows)
NoRow  == [st |-> "absent", tries |-> 0, fenced |-> FALSE, deliberate |-> FALSE]
RowStates == {"absent", "ready", "running", "done", "failed", "pruned"}
Rows   == [st : RowStates, tries : Int, fenced : BOOLEAN, deliberate : BOOLEAN]

\* Between "claimed" and "landed" a connected execution holds the user's
\* key; in "after" it has released it and owes the label write-back.
Locked == {"noop", "integrating", "requeue", "interrupted", "planning",
           "announced", "calling", "landed"}
Phases == {"idle", "claimed", "after"} \cup Locked
Idle   == [phase |-> "idle", job |-> None, att |-> 0, fen |-> FALSE,
           conn |-> TRUE, steps |-> FALSE]
Executions == [phase : Phases, job : JobIds \cup {None}, att : Int, fen : BOOLEAN,
               conn : BOOLEAN, steps : BOOLEAN]
NoRequest == [op |-> "none", got |-> {}]

TypeOK ==
    /\ state \in [Items -> {"absent", "pending", "integrated", "failed", "dismissed"}]
    /\ origin \in [Items -> {"mail", "paste", None}]
    /\ enrich \in [Items -> {"queued", "running", "done", "failed", "skipped", None}]
    /\ text \in [Items -> {"letter", "article"}]
    /\ original \in [Items -> {"letter", "article", None}]
    /\ links \in [Items -> Nat] /\ calls \in [Items -> Nat]
    /\ label \in [Items -> {"applied", "error", None}]
    /\ rows \in [JobIds -> Rows]
    /\ run \in [Runs -> Executions]
    /\ \A r \in Runs : run[r].phase # "idle" => run[r].job \in JobIds
    /\ req \in [Requests -> [op : {"none", "ingest", "dismiss"}, got : SUBSET Items]]
    /\ asked \in SUBSET Items
    /\ lapses \in 0..MaxLapses /\ losses \in 0..MaxLosses /\ crashes \in 0..MaxCrashes

Init ==
    /\ state = [i \in Items |-> "absent"]
    /\ origin = [i \in Items |-> None]
    /\ enrich = [i \in Items |-> None]
    /\ text = [i \in Items |-> "letter"]
    /\ original = [i \in Items |-> None]
    /\ links = [i \in Items |-> 0] /\ calls = [i \in Items |-> 0]
    /\ label = [i \in Items |-> None]
    /\ rows = [j \in JobIds |-> NoRow]
    /\ run = [r \in Runs |-> Idle]
    /\ req = [q \in Requests |-> NoRequest]
    /\ asked = {}
    /\ lapses = 0 /\ losses = 0 /\ crashes = 0

(***************************************************************************)
(* Helpers                                                                 *)
(***************************************************************************)

Exists(j) == rows[j].st \notin {"absent", "pruned"}
Owed(j)   == rows[j].st \in {"ready", "running"}
RowsOf(i) == {j \in JobIds : j[1] = i}
ItemOf(r) == run[r].job[1]
QueueOf(r) == run[r].job[2]

\* The row the next enqueue of this item on this queue inserts.
IsNext(j) == /\ rows[j].st = "absent"
             /\ \A n \in 1..MaxRows :
                    rows[<<j[1], j[2], n>>].st = "absent" => j[3] <= n

Held_asking_integrate_only(i) ==
    state[i] = "pending" /\ ~ \E j \in RowsOf(i) : j[2] = "integrate" /\ Exists(j)

\* _HELD_WHERE
Held(i) == state[i] = "pending" /\ ~ \E j \in RowsOf(i) : Exists(j)

\* enqueue with a set of rows; landing says which row the same transaction
\* fences (mark_work_committed).
Insert(new, deliberate, landing) ==
    rows' = [j \in JobIds |->
                CASE j \in new -> [NoRow EXCEPT !.st = "ready", !.deliberate = deliberate]
                  [] j \notin new /\ j \in landing -> [rows[j] EXCEPT !.fenced = TRUE]
                  [] OTHER -> rows[j]]

Fence(j) == rows' = [rows EXCEPT ![j] = [rows[j] EXCEPT !.fenced = TRUE]]

\* An UPDATE of a row that a sweep has deleted changes nothing.
SetRow(j, st) ==
    rows' = [rows EXCEPT ![j] = IF Exists(j) THEN [rows[j] EXCEPT !.st = st] ELSE rows[j]]

\* The user's session-level advisory lock, taken by try_lock.
KeyBusy_never == FALSE
KeyBusy == \E r \in Runs : run[r].phase \in Locked /\ run[r].conn

\* The transaction-level lock of _lock_held.
_lock_held_dropped == TRUE
_lock_held == \A q \in Requests : req[q].op = "none"

Move(r, phase) == run' = [run EXCEPT ![r] = [run[r] EXCEPT !.phase = phase]]
Return(r) == run' = [run EXCEPT ![r] = Idle]
At(r, phase) == run[r].phase = phase /\ run[r].conn

(***************************************************************************)
(* Arrivals and the API's requests                                         *)
(***************************************************************************)

\* handle_extract stops at a pending row without a job; a second fetch of
\* the message meets the UNIQUE index and inserts nothing.
handle_extract(i) ==
    /\ state[i] = "absent"
    /\ state' = [state EXCEPT ![i] = "pending"]
    /\ origin' = [origin EXCEPT ![i] = "mail"]
    /\ UNCHANGED <<enrich, text, original, links, label, rows, run, req, hist, faults>>

\* enqueue_paste: the row and its integrate job, without the deliberate flag.
enqueue_paste(i) ==
    /\ state[i] = "absent"
    /\ state' = [state EXCEPT ![i] = "pending"]
    /\ origin' = [origin EXCEPT ![i] = "paste"]
    /\ Insert({j \in RowsOf(i) : j[2] = "integrate" /\ IsNext(j)}, FALSE, {})
    /\ asked' = asked \cup {i}
    /\ UNCHANGED <<enrich, text, original, links, label, run, req, calls, faults>>

\* claim_held_source_items and dismiss_held_source_items: the lock, then the
\* ids that are held.
SelectHeld(q, op, ids) ==
    /\ req[q] = NoRequest /\ _lock_held
    /\ req' = [req EXCEPT ![q] = [op |-> op, got |-> {i \in ids : Held(i)}]]
    /\ UNCHANGED <<item, rows, run, hist, faults>>

\* plan_enrichment: which of the items link to a site of the owner's.
plan_enrichment(claimed) == SUBSET claimed

mark_enrichment_queued(sited) ==
    enrich' = [i \in Items |-> IF i \in sited THEN "queued" ELSE enrich[i]]

\* enqueue_integration commits: each claimed item gets an integrate job, or
\* an enrich job if it is to be fetched in full first.
enqueue_integration(q) ==
    /\ req[q].op = "ingest"
    /\ \E sited \in plan_enrichment(req[q].got) :
        LET target == [i \in req[q].got |-> IF i \in sited THEN "enrich" ELSE "integrate"]
            new == {j \in JobIds : j[1] \in req[q].got /\ j[2] = target[j[1]] /\ IsNext(j)}
        IN /\ \A i \in req[q].got : \E j \in new : j[1] = i
           /\ Insert(new, TRUE, {})
           /\ mark_enrichment_queued(sited)
    /\ asked' = asked \cup req[q].got
    /\ req' = [req EXCEPT ![q] = NoRequest]
    /\ UNCHANGED <<state, origin, text, original, links, label, run, calls, faults>>

dismiss_held_source_items(q) ==
    /\ req[q].op = "dismiss"
    /\ state' = [i \in Items |-> IF i \in req[q].got THEN "dismissed" ELSE state[i]]
    /\ req' = [req EXCEPT ![q] = NoRequest]
    /\ UNCHANGED <<origin, enrich, text, original, links, label, rows, run, hist, faults>>

\* The request's transaction rolls back.
Rollback(q) ==
    /\ req[q].op # "none"
    /\ req' = [req EXCEPT ![q] = NoRequest]
    /\ UNCHANGED <<item, rows, run, hist, faults>>

(***************************************************************************)
(* The queue                                                               *)
(***************************************************************************)

\* Some live worker holds the row's latest claim.
Covered(j) == \E r \in Runs : /\ run[r].phase \notin {"idle", "after"}
                              /\ run[r].job = j /\ run[r].att = rows[j].tries

claim_without_reclaim(r, j) ==
    /\ run[r] = Idle /\ rows[j].st = "ready" /\ ~KeyBusy
    /\ rows' = [rows EXCEPT ![j] = [rows[j] EXCEPT !.st = "running",
                                                   !.tries = rows[j].tries + 1]]
    /\ run' = [run EXCEPT ![r] = [phase |-> "claimed", job |-> j, att |-> rows[j].tries + 1,
                                  fen |-> rows[j].fenced, conn |-> TRUE, steps |-> FALSE]]
    /\ UNCHANGED <<item, req, hist, faults>>

\* jobs.claim: a ready row or one whose lease is stale, and a key that is not
\* busy.  A covered lease goes stale only by a lapse.
claim(r, j) ==
    /\ run[r] = Idle /\ Owed(j) /\ ~KeyBusy
    /\ IF rows[j].st = "running" /\ Covered(j)
       THEN lapses < MaxLapses /\ lapses' = lapses + 1
       ELSE UNCHANGED lapses
    /\ rows' = [rows EXCEPT ![j] = [rows[j] EXCEPT !.st = "running",
                                                   !.tries = rows[j].tries + 1]]
    /\ run' = [run EXCEPT ![r] = [phase |-> "claimed", job |-> j, att |-> rows[j].tries + 1,
                                  fen |-> rows[j].fenced, conn |-> TRUE, steps |-> FALSE]]
    /\ UNCHANGED <<item, req, hist, losses, crashes>>

\* try_lock lost: jobs.defer hands the row back, whoever has it by now.
defer(r) ==
    /\ At(r, "claimed") /\ KeyBusy
    /\ LET j == run[r].job IN
       rows' = [rows EXCEPT ![j] =
                    IF Exists(j) THEN [rows[j] EXCEPT !.st = "ready", !.tries = rows[j].tries - 1]
                    ELSE rows[j]]
    /\ Return(r)
    /\ UNCHANGED <<item, req, hist, faults>>

\* What the handlers decide from the row they read first.
integrate_reads(i) ==
    IF state[i] \in {"integrated", "dismissed"} THEN "noop" ELSE "integrating"

enrich_reads_trusting_the_fence(i) ==
    IF state[i] # "pending" THEN "noop"
    ELSE IF enrich[i] \in {"done", "failed", "skipped"} THEN "requeue" ELSE "planning"
enrich_reads(i) ==
    CASE state[i] # "pending" -> "noop"
      [] state[i] = "pending" /\ enrich[i] \in {"done", "failed", "skipped"} -> "requeue"
      [] state[i] = "pending" /\ enrich[i] = "running" -> "interrupted"
      [] OTHER -> "planning"

\* try_lock won: the handler reads, unless the claim carried the work fence.
start(r) ==
    /\ At(r, "claimed") /\ ~KeyBusy
    /\ Move(r, CASE run[r].fen -> "landed"
                 [] ~run[r].fen /\ QueueOf(r) = "integrate" -> integrate_reads(ItemOf(r))
                 [] OTHER -> enrich_reads(ItemOf(r)))
    /\ UNCHANGED <<item, rows, req, hist, faults>>

\* The handler returned without writing; the fence is written all the same.
NoOp(r) ==
    /\ At(r, "noop")
    /\ Fence(run[r].job)
    /\ Move(r, "landed")
    /\ UNCHANGED <<item, req, hist, faults>>

\* The outcome's own transaction, on the replay path too; then the unlock.
complete(r) ==
    /\ At(r, "landed")
    /\ SetRow(run[r].job, "done")
    /\ IF run[r].steps THEN Move(r, "after") ELSE Return(r)
    /\ UNCHANGED <<item, req, hist, faults>>

\* The retention sweep deletes settled rows.
prune(j) ==
    /\ rows[j].st \in {"done", "failed"}
    /\ rows' = [rows EXCEPT ![j] = [rows[j] EXCEPT !.st = "pruned"]]
    /\ UNCHANGED <<item, run, req, hist, faults>>

Crash(r) ==
    /\ run[r].phase # "idle" /\ crashes < MaxCrashes
    /\ crashes' = crashes + 1
    /\ Return(r)
    /\ UNCHANGED <<item, rows, req, hist, lapses, losses>>

\* The session drops, and Postgres releases its locks and rolls back; the
\* process notices at its next statement on that connection.
LoseConnection(r) ==
    /\ run[r].phase # "idle" /\ run[r].conn /\ losses < MaxLosses
    /\ losses' = losses + 1
    /\ run' = [run EXCEPT ![r] = [run[r] EXCEPT !.conn = FALSE]]
    /\ UNCHANGED <<item, rows, req, hist, lapses, crashes>>

AbandonPass(r) ==
    /\ run[r].phase # "idle" /\ ~run[r].conn
    /\ Return(r)
    /\ UNCHANGED <<item, rows, req, hist, faults>>

(***************************************************************************)
(* Integrate and the label write-back                                      *)
(***************************************************************************)

\* labels.schedule: only for the owner's own ingest of a labelled message.
schedule(r) == /\ rows[run[r].job].deliberate
               /\ origin[ItemOf(r)] = "mail" /\ ItemOf(r) \in Labelled

\* insert_news_item or merge_source_into_news_item: one row that links the
\* item to a story.  A second one violates the UNIQUE constraint and raises.
LinkToStory(i) == links[i] = 0 /\ links' = [links EXCEPT ![i] = links[i] + 1]

\* handle_integrate commits.
handle_integrate(r) ==
    /\ At(r, "integrating")
    /\ LinkToStory(ItemOf(r))
    /\ state' = [state EXCEPT ![ItemOf(r)] = "integrated"]
    /\ Fence(run[r].job)
    /\ run' = [run EXCEPT ![r] = [run[r] EXCEPT !.phase = "landed", !.steps = schedule(r)]]
    /\ UNCHANGED <<origin, enrich, text, original, label, req, hist, faults>>

\* labels.write_back, after the unlock.  It never raises.
write_back(r) ==
    /\ At(r, "after")
    /\ \E outcome \in {"applied", "error"} : label' = [label EXCEPT ![ItemOf(r)] = outcome]
    /\ Return(r)
    /\ UNCHANGED <<state, origin, enrich, text, original, links, rows, req, hist, faults>>

(***************************************************************************)
(* Enrich                                                                  *)
(***************************************************************************)

_queue_integration_without_flag(i, deliberate, landing) ==
    /\ \E j \in RowsOf(i) : j[2] = "integrate" /\ IsNext(j)
    /\ Insert({j \in RowsOf(i) : j[2] = "integrate" /\ IsNext(j)}, FALSE, landing)

\* _queue_integration: the flag rides through.
_queue_integration(i, deliberate, landing) ==
    /\ \E j \in RowsOf(i) : j[2] = "integrate" /\ IsNext(j)
    /\ Insert({j \in RowsOf(i) : j[2] = "integrate" /\ IsNext(j)}, deliberate, landing)

\* The handler's commit: an outcome on the item, an integrate job, the fence.
CommitEnrich(r, status) ==
    /\ enrich' = [enrich EXCEPT ![ItemOf(r)] = status]
    /\ _queue_integration(ItemOf(r), rows[run[r].job].deliberate, {run[r].job})
    /\ Move(r, "landed")
    /\ UNCHANGED <<state, origin, links, label, req, hist, faults>>

\* An earlier run finished, or was interrupted: never a second agent run.
Requeue(r) ==
    /\ At(r, "requeue")
    /\ CommitEnrich(r, enrich[ItemOf(r)])
    /\ UNCHANGED <<text, original>>
Interrupted(r) ==
    /\ At(r, "interrupted")
    /\ CommitEnrich(r, "failed")
    /\ UNCHANGED <<text, original>>

\* Not configured, the site removed since, or the day's budget spent.
_record_skip(r) ==
    /\ At(r, "planning")
    /\ CommitEnrich(r, "skipped")
    /\ UNCHANGED <<text, original>>

mark_enrichment_running_unknown(i) == enrich' = [enrich EXCEPT ![i] = "started"]
\* mark_enrichment_running, autocommitted on the side connection.
mark_enrichment_running(i) ==
    enrich' = [enrich EXCEPT ![i] = IF enrich[i] = "done" THEN "done" ELSE "running"]

\* _announce_running succeeds; it does not need the handler's session.
_announce_running(r) ==
    /\ run[r].phase = "planning"
    /\ mark_enrichment_running(ItemOf(r))
    /\ Move(r, "announced")
    /\ UNCHANGED <<state, origin, text, original, links, label, rows, req, hist, faults>>

\* It fails, so no agent is started.
AnnounceFails(r) ==
    /\ At(r, "planning")
    /\ CommitEnrich(r, "failed")
    /\ UNCHANGED <<text, original>>

\* client.enrich: the agent is running, and billed.
call(r) ==
    /\ run[r].phase = "announced"
    /\ calls' = [calls EXCEPT ![ItemOf(r)] = calls[ItemOf(r)] + 1]
    /\ Move(r, "calling")
    /\ UNCHANGED <<item, rows, req, asked, faults>>

\* _apply with an article: it replaces the text, and the letter is kept.
apply_enriched_article(r) ==
    /\ At(r, "calling")
    /\ CommitEnrich(r, "done")
    /\ LET i == ItemOf(r) IN
       /\ original' = [original EXCEPT ![i] = IF original[i] = None THEN text[i] ELSE original[i]]
       /\ text' = [text EXCEPT ![i] = "article"]

\* No usable article, or no answer at all: the letter stands.
NoArticle(r) ==
    /\ At(r, "calling")
    /\ CommitEnrich(r, "failed")
    /\ UNCHANGED <<text, original>>

(***************************************************************************)
(* Failures                                                                *)
(***************************************************************************)

CanRaise == {"integrating", "planning", "calling"}

\* A handler raised below the ceiling: jobs.fail puts the row back.
Retry(r) ==
    /\ run[r].phase \in CanRaise /\ run[r].conn /\ run[r].att < MaxAttempts
    /\ SetRow(run[r].job, "ready")
    /\ Return(r)
    /\ UNCHANGED <<item, req, hist, faults>>

\* source_item_failed, for integrate.
source_item_failed(r) ==
    /\ state' = [state EXCEPT ![ItemOf(r)] = "failed"]
    /\ SetRow(run[r].job, "failed")
    /\ UNCHANGED enrich

record_enrich_failure_only(r) ==
    /\ enrich' = [enrich EXCEPT ![ItemOf(r)] = "failed"]
    /\ SetRow(run[r].job, "failed")
    /\ UNCHANGED state

\* record_enrich_failure: the item still integrates.
record_enrich_failure(r) ==
    LET i == ItemOf(r)  j == run[r].job IN
    /\ IF state[i] = "pending"
       THEN /\ enrich' = [enrich EXCEPT ![i] = "failed"]
            /\ \E k \in RowsOf(i) :
                /\ k[2] = "integrate" /\ IsNext(k)
                /\ rows' = [rows EXCEPT
                     ![j] = IF Exists(j) THEN [rows[j] EXCEPT !.st = "failed"] ELSE rows[j],
                     ![k] = [NoRow EXCEPT !.st = "ready", !.deliberate = rows[j].deliberate]]
       ELSE SetRow(j, "failed") /\ UNCHANGED enrich
    /\ UNCHANGED state

\* It gives up: the ceiling, or a token budget no retry would change.  The
\* domain row and the job row settle in one transaction.
GiveUp(r) ==
    /\ run[r].phase \in CanRaise /\ run[r].conn
    /\ \/ QueueOf(r) = "integrate" /\ source_item_failed(r)
       \/ QueueOf(r) = "enrich" /\ run[r].att >= MaxAttempts /\ record_enrich_failure(r)
    /\ Return(r)
    /\ UNCHANGED <<origin, text, original, links, label, req, hist, faults>>

-----------------------------------------------------------------------------

Proceed(r) ==
    \/ start(r) \/ defer(r) \/ NoOp(r) \/ complete(r) \/ AbandonPass(r)
    \/ handle_integrate(r) \/ write_back(r)
    \/ Requeue(r) \/ Interrupted(r) \/ _record_skip(r)
    \/ _announce_running(r) \/ AnnounceFails(r) \/ call(r)
    \/ apply_enriched_article(r) \/ NoArticle(r)
    \/ Retry(r) \/ GiveUp(r)

Commit(q) == enqueue_integration(q) \/ dismiss_held_source_items(q)

Next ==
    \/ \E i \in Items : handle_extract(i) \/ enqueue_paste(i)
    \/ \E q \in Requests, ids \in SUBSET Items, op \in {"ingest", "dismiss"} :
            SelectHeld(q, op, ids)
    \/ \E q \in Requests : Commit(q) \/ Rollback(q)
    \/ \E r \in Runs, j \in JobIds : claim(r, j)
    \/ \E j \in JobIds : prune(j)
    \/ \E r \in Runs : Proceed(r) \/ Crash(r) \/ LoseConnection(r)

Spec == Init /\ [][Next]_vars

(***************************************************************************)
(* Fairness: a live worker takes its next step, and a row that keeps being *)
(* offered is claimed.  A row comes and goes with its user's key, so the   *)
(* second is strong.  Requests, faults and the sweep are not fair.         *)
(***************************************************************************)
Fairness ==
    /\ \A r \in Runs : WF_vars(Proceed(r))
    /\ \A j \in JobIds : SF_vars(~Covered(j) /\ \E r \in Runs : claim(r, j))

FairSpec == Spec /\ Fairness

(***************************************************************************)
(* Properties                                                              *)
(***************************************************************************)

(* An item is part of a story exactly when its row says so: no replay, no   *)
(* stale claim and no failure recorder - which marks the item failed        *)
(* without looking - makes handle_integrate's two writes disagree.          *)
LinkedIffIntegrated == \A i \in Items : links[i] > 0 <=> state[i] = "integrated"

(* "Not this one" is final and free: a dismissed item has no job, was never *)
(* shown to the agent and is in no story, however the dismissal raced with  *)
(* an "ingest now" from another tab.                                        *)
DismissedCostsNothing ==
    \A i \in Items : state[i] = "dismissed" =>
        /\ i \notin asked /\ calls[i] = 0 /\ links[i] = 0
        /\ \A j \in RowsOf(i) : ~Exists(j)

(* What the owner asked for is never forgotten: while such an item waits,   *)
(* some job will take it further, and it does not reappear on the held list *)
(* when the sweep deletes the rows of its earlier stages.                   *)
AskedIsOnItsWay ==
    \A i \in asked : state[i] = "pending" => \E j \in RowsOf(i) : Owed(j)

(* The agent is started at most once for an item.                           *)
AgentAtMostOnce == \A i \in Items : calls[i] <= 1

(* ... across crashes, retries, lost sessions and double clicks, as long as *)
(* no lease runs out under a live worker.                                   *)
AgentOnceUnlessLapsed == lapses = 0 => AgentAtMostOnce

(* The item's record never denies an agent run that was billed: a run that  *)
(* was started shows as running, done or failed, not as queued or skipped.  *)
StartedIsOnRecord ==
    \A i \in Items : lapses = 0 /\ calls[i] > 0 => enrich[i] \in {"running", "done", "failed"}

(* A story's text does not change under it: once an item is integrated the  *)
(* spans of its claims point into a text no late enrichment rewrites, with  *)
(* the newsletter as it arrived beside it if the article replaced it.       *)
TextIsSettled ==
    [][\A i \in Items : state'[i] = "integrated" =>
            /\ state[i] = "integrated" => text'[i] = text[i] /\ original'[i] = original[i]
            /\ text'[i] = "article" => original'[i] = "letter"]_vars

(* The mailbox follows the owner: a message's label is only written for an  *)
(* ingest its owner asked for that has landed, and, if no worker or session *)
(* was lost, it is written for each of those - the detour through the agent *)
(* included - by the time no worker is left with the item.                  *)
MailboxFollows ==
    \A i \in Labelled :
        /\ label[i] # None => i \in asked /\ origin[i] = "mail" /\ state[i] = "integrated"
        /\ crashes = 0 /\ losses = 0 /\ origin[i] = "mail" /\ state[i] = "integrated"
           /\ (\A r \in Runs : run[r].phase # "idle" => ItemOf(r) # i)
              => label[i] # None

(* Everything the owner asks for ends up in a story or visibly failed.      *)
EventuallyIngested ==
    \A i \in Items : i \in asked ~> state[i] \in {"integrated", "failed"}

=============================================================================

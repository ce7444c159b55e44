------------------------------- MODULE Panels -------------------------------
(***************************************************************************)
(* What the owner and the operator are shown of the pipeline: the          *)
(* ingestion list, the held list, the page of one source item, and the     *)
(* operator's counts and job pages.  db/src/motet_db/repo.py (the reading  *)
(* statements) and api/src/motet_api/main.py (the routes), over the rows   *)
(* that polls, workers and requests write.                                 *)
(*                                                                         *)
(* Each reading is one SQL statement, so it is an operator on the state,   *)
(* except the operator's job pages: a walk of several requests between     *)
(* which rows are inserted and swept.  Two polls of one source may overlap *)
(* when the first has lost its lock, which is how one message comes to     *)
(* have two extract jobs.  Ingestion's and the held list's row limits are  *)
(* above the bounds here.                                                  *)
(***************************************************************************)
EXTENDS Base, Integers, FiniteSets, FiniteSetsExt, Sequences

CONSTANTS
    PolledMessages,     \* mailbox messages of one owner; a paste is one more
    Polls,        \* polls that may be open at once
    MaxJobRows,   \* rows of jobs (bound)
    PageLimit     \* the operator's page size

Open     == {"ready", "running"}
Terminal == {"done", "failed"}
JobRow   == [queue : {"extract", "enrich", "integrate"}, about : PolledMessages,
             st : Open \cup Terminal \cup {"pruned"}]

ASSUME PanelsAssumption ==
    /\ IsFiniteSet(PolledMessages) /\ PageLimit \in Nat \ {0} /\ None \notin Nat
    /\ None \notin {"queued", "running", "new", "merged"} /\ None \notin JobRow

VARIABLES
    jobrows,   \* the jobs table: id -> [queue, about, st]; id is the sequence's
    items,     \* source_items
    polling,   \* open polls: the messages they found unqueued
    skipped,   \* history: messages extraction decided against
    gone,      \* history: messages whose last job row a sweep deleted
    walk       \* the operator's walk over the job pages; at its end, the rows
               \* it owed and missed, and any row it showed a second time

panelsVars == <<jobrows, items, polling, skipped, gone, walk>>

Absent  == [state |-> "absent", enrich |-> None, fresh |-> FALSE, position |-> None]
WaitingItem == [Absent EXCEPT !.state = "pending"]
Ids     == DOMAIN jobrows
JobsOn(queues, m) == {j \in Ids : jobrows[j].queue \in queues /\ jobrows[j].about = m
                                  /\ jobrows[j].st # "pruned"}
Later   == {"integrate", "enrich"}
RoomForJobs(n) == Len(jobrows) + n <= MaxJobRows
New(queue, m) == [queue |-> queue, about |-> m, st |-> "ready"]

PanelsTypeOK ==
    /\ jobrows \in Seq(JobRow)
    /\ items \in [PolledMessages -> [state : {"absent", "pending", "integrated", "failed",
                                        "dismissed"},
                               enrich : {"queued", "running", "done", "failed", None},
                               fresh : BOOLEAN, position : {0, 1, None}]]
    /\ polling \in [Polls -> (SUBSET PolledMessages) \cup {None}]
    /\ skipped \in SUBSET PolledMessages /\ gone \in SUBSET PolledMessages
    /\ walk.at \in {"idle", "walking"} /\ walk.before \in Nat \cup {None}

PanelsInit ==
    /\ jobrows = <<>>
    /\ items = [m \in PolledMessages |-> Absent]
    /\ polling = [p \in Polls |-> None]
    /\ skipped = {} /\ gone = {}
    /\ walk = [at |-> "idle", before |-> None, owed |-> {}, shown |-> {},
               missed |-> {}, twice |-> {}]

(***************************************************************************)
(* The readings                                                            *)
(***************************************************************************)

\* INGESTION_SQL, first arm: the newest integrate or enrich job is joined, and
\* a pending item without one is held, not on its way.
NewestJob(m) == IF JobsOn(Later, m) = {} THEN None
                ELSE jobrows[Max(JobsOn(Later, m))]
ItemLines(m) ==
    IF /\ items[m].state \notin {"absent", "dismissed"}
       /\ items[m].state = "pending" => NewestJob(m) # None
       /\ items[m].state = "integrated" => items[m].fresh
    THEN {m} ELSE {}

\* INGESTION_SQL, second arm: the newest extract job that is not done, of a
\* message that has no item.
MessageLines_every_job(m) ==
    {j \in JobsOn({"extract"}, m) : jobrows[j].st # "done" /\ items[m].state = "absent"}
MessageLines_beside_item(m) ==
    LET open == {j \in JobsOn({"extract"}, m) : jobrows[j].st # "done"}
    IN  {j \in open : \A k \in open : k <= j}
MessageLines(m) ==
    LET open == {j \in JobsOn({"extract"}, m) : jobrows[j].st # "done"}
    IN  {j \in open : items[m].state = "absent" /\ \A k \in open : k <= j}

list_ingestion == [m \in PolledMessages |-> Cardinality(ItemLines(m)) + Cardinality(MessageLines(m))]

\* _HELD_WHERE: pending and on neither queue.
HeldWhere_integrate(m) == items[m].state = "pending" /\ JobsOn({"integrate"}, m) = {}
HeldWhere(m) == items[m].state = "pending" /\ JobsOn(Later, m) = {}
list_held_source_items == {m \in PolledMessages : HeldWhere(m)}

\* admin_overview_users: its held is pending without an integrate job only.
CountedHeld == {m \in PolledMessages : items[m].state = "pending"
                                 /\ JobsOn({"integrate"}, m) = {}}
admin_overview_users ==
    [s \in {"held", "pending", "integrated", "failed", "dismissed"} |->
        IF s = "held" THEN Cardinality(CountedHeld)
        ELSE Cardinality({m \in PolledMessages : items[m].state = s /\ m \notin CountedHeld})]

\* admin_overview_queues: the rows of each queue by state.
admin_overview_queues ==
    [q \in {"extract", "enrich", "integrate"} |-> [s \in Open \cup Terminal |->
        Cardinality({j \in Ids : jobrows[j].queue = q /\ jobrows[j].st = s})]]

\* source_item_lifecycle: the item, its newest job, its link.  An agent on its
\* way has a word of its own, before the job is looked at.
source_item_lifecycle(m) ==
    [state |-> items[m].state, enrich |-> items[m].enrich, job |-> NewestJob(m),
     link |-> items[m].position]
_source_item_detail(m) ==
    LET life == source_item_lifecycle(m) IN
    IF life.state \in {"dismissed", "failed"} THEN life.state
    ELSE IF life.state = "integrated" THEN "done"
    ELSE IF life.enrich \in {"queued", "running"} THEN "enriching"
    ELSE IF life.job = None THEN "held"
    ELSE IF life.job.st \in {"running", "failed"} THEN life.job.st
    ELSE "queued"

\* The dedup step's outcome, and the enrich step before it.
Outcome(m) == IF items[m].position = None THEN None
              ELSE IF items[m].position = 0 THEN "new" ELSE "merged"
_enrich_step(m) == IF items[m].enrich = None THEN <<>> ELSE <<"enrich">>
Steps(m) == _enrich_step(m) \o
            IF _source_item_detail(m) \in {"dismissed", "enriching", "held"}
            THEN <<>> ELSE <<"dedup">>

(***************************************************************************)
(* The writers                                                             *)
(***************************************************************************)

\* A poll finds the messages with no item and no extract row, and queues them
\* when it commits.
Unqueued == {m \in PolledMessages : items[m].state = "absent" /\ JobsOn({"extract"}, m) = {}
                              /\ m \notin gone}
poll_reads(p) ==
    /\ polling[p] = None
    /\ polling' = [polling EXCEPT ![p] = Unqueued]
    /\ UNCHANGED <<jobrows, items, skipped, gone, walk>>

poll_queues(p) ==
    /\ polling[p] # None /\ RoomForJobs(Cardinality(polling[p]))
    /\ \E order \in [1..Cardinality(polling[p]) -> polling[p]] :
           /\ \A i, k \in DOMAIN order : order[i] = order[k] => i = k
           /\ jobrows' = jobrows \o [i \in DOMAIN order |-> New("extract", order[i])]
    /\ polling' = [polling EXCEPT ![p] = None]
    /\ UNCHANGED <<items, skipped, gone, walk>>

SetJob(j, st) == jobrows' = [jobrows EXCEPT ![j].st = st]

claim_job(j) ==
    /\ jobrows[j].st = "ready"
    /\ SetJob(j, "running")
    /\ items' = IF jobrows[j].queue = "enrich" /\ items[jobrows[j].about].state = "pending"
                THEN [items EXCEPT ![jobrows[j].about].enrich = "running"] ELSE items
    /\ UNCHANGED <<polling, skipped, gone, walk>>

\* handle_extract's work commits before its job completes: inserting is
\* idempotent, and the row waits to be held or asked for.
extract_lands(j) ==
    /\ jobrows[j].queue = "extract" /\ jobrows[j].st = "running"
    /\ items[jobrows[j].about].state = "absent"
    /\ items' = [items EXCEPT ![jobrows[j].about] = WaitingItem]
    /\ UNCHANGED <<jobrows, polling, skipped, gone, walk>>
extract_completes(j) ==
    /\ jobrows[j].queue = "extract" /\ jobrows[j].st = "running"
    /\ items[jobrows[j].about].state # "absent"
    /\ SetJob(j, "done")
    /\ UNCHANGED <<items, polling, skipped, gone, walk>>
extract_skips(j) ==
    /\ jobrows[j].queue = "extract" /\ jobrows[j].st = "running"
    /\ items[jobrows[j].about].state = "absent"
    /\ SetJob(j, "done")
    /\ skipped' = skipped \cup {jobrows[j].about}
    /\ UNCHANGED <<items, polling, gone, walk>>

\* A lease that lapses, a failure with attempts left, or the last failure,
\* which also marks the item of an integrate job.
job_returns(j) ==
    /\ jobrows[j].st = "running"
    /\ SetJob(j, "ready")
    /\ UNCHANGED <<items, polling, skipped, gone, walk>>
job_gives_up(j) ==
    /\ jobrows[j].st = "running" /\ jobrows[j].queue # "enrich"
    /\ SetJob(j, "failed")
    /\ items' = IF jobrows[j].queue = "integrate" /\ items[jobrows[j].about].state = "pending"
                THEN [items EXCEPT ![jobrows[j].about].state = "failed"] ELSE items
    /\ UNCHANGED <<polling, skipped, gone, walk>>

\* "Ingest now": each held item gets an enrich or an integrate job.
enqueue_integration(m) ==
    /\ HeldWhere(m) /\ RoomForJobs(1)
    /\ \E q \in Later :
           /\ jobrows' = Append(jobrows, New(q, m))
           /\ items' = [items EXCEPT ![m].enrich = IF q = "enrich" THEN "queued" ELSE @]
    /\ UNCHANGED <<polling, skipped, gone, walk>>
dismiss_held_source_items(m) ==
    /\ HeldWhere(m)
    /\ items' = [items EXCEPT ![m].state = "dismissed"]
    /\ UNCHANGED <<jobrows, polling, skipped, gone, walk>>

\* However the agent's run ends, one transaction records it and writes the
\* integrate job; the enrich job settles with it or after it.
enrich_hands_on(j) ==
    /\ jobrows[j].queue = "enrich" /\ jobrows[j].st = "running" /\ RoomForJobs(1)
    /\ \E end \in {<<"done", "done">>, <<"failed", "done">>, <<"failed", "failed">>} :
           /\ jobrows' = Append([jobrows EXCEPT ![j].st = end[2]],
                                New("integrate", jobrows[j].about))
           /\ items' = [items EXCEPT ![jobrows[j].about].enrich = end[1]]
    /\ UNCHANGED <<polling, skipped, gone, walk>>

\* integrate: the item is linked first (position 0) or merged; its job
\* completes in a second transaction.
integrate_lands(j) ==
    /\ jobrows[j].queue = "integrate" /\ jobrows[j].st = "running"
    /\ items[jobrows[j].about].state = "pending"
    /\ \E at \in {0, 1} :
           items' = [items EXCEPT ![jobrows[j].about].state = "integrated",
                                  ![jobrows[j].about].fresh = TRUE,
                                  ![jobrows[j].about].position = at]
    /\ UNCHANGED <<jobrows, polling, skipped, gone, walk>>
integrate_completes(j) ==
    /\ jobrows[j].queue = "integrate" /\ jobrows[j].st = "running"
    /\ items[jobrows[j].about].state \in {"integrated", "failed"}
    /\ SetJob(j, "done")
    /\ UNCHANGED <<items, polling, skipped, gone, walk>>
grace_ends(m) ==
    /\ items[m].fresh
    /\ items' = [items EXCEPT ![m].fresh = FALSE]
    /\ UNCHANGED <<jobrows, polling, skipped, gone, walk>>

\* prune deletes terminal rows; for a lost message its failed extract row was
\* the only record.
prune(j) ==
    /\ jobrows[j].st \in Terminal
    /\ SetJob(j, "pruned")
    /\ gone' = IF jobrows[j].queue = "extract" /\ JobsOn({"extract"}, jobrows[j].about) = {j}
               THEN gone \cup {jobrows[j].about} ELSE gone
    /\ UNCHANGED <<items, polling, skipped, walk>>

(***************************************************************************)
(* The operator's walk: admin_overview, page by page                       *)
(***************************************************************************)

Newest(S, n) == {j \in S : Cardinality({k \in S : k > j}) < n}
Listed == {j \in Ids : jobrows[j].st # "pruned"}

admin_overview_jobs_at_or_below(before, n) ==
    Newest({j \in Listed : before = None \/ j <= before}, n)
admin_overview_jobs(before, n) ==
    Newest({j \in Listed : before = None \/ j < before}, n)

\* One request: a page and one more row, to know whether another page follows.
admin_overview ==
    /\ LET first == walk.at = "idle"
           found == admin_overview_jobs(walk.before, PageLimit + 1)
           page  == Newest(found, PageLimit)
           more  == Cardinality(found) > PageLimit
           owed  == IF first THEN Listed ELSE walk.owed
       IN  walk' = [at     |-> IF more THEN "walking" ELSE "idle",
                    before |-> IF more THEN Min(page) ELSE None,
                    owed   |-> IF more THEN owed ELSE {},
                    shown  |-> IF more THEN walk.shown \cup page ELSE {},
                    missed |-> IF more THEN {} ELSE (owed \cap Listed) \ (walk.shown \cup page),
                    twice  |-> walk.shown \cap page]
    /\ UNCHANGED <<jobrows, items, polling, skipped, gone>>

PanelsNext ==
    \/ \E p \in Polls : poll_reads(p) \/ poll_queues(p)
    \/ \E j \in Ids :
           \/ claim_job(j) \/ job_returns(j) \/ job_gives_up(j) \/ prune(j)
           \/ extract_lands(j) \/ extract_completes(j) \/ extract_skips(j)
           \/ enrich_hands_on(j) \/ integrate_lands(j) \/ integrate_completes(j)
    \/ \E m \in PolledMessages :
           enqueue_integration(m) \/ dismiss_held_source_items(m) \/ grace_ends(m)
    \/ admin_overview

PanelsSpec == PanelsInit /\ [][PanelsNext]_panelsVars

(***************************************************************************)
(* Properties                                                              *)
(***************************************************************************)

\* Every message that was queued is on exactly one surface: one line of the
\* ingestion list or one of the held list, until it is settled (in the
\* backlog past its grace, or dismissed), decided against, or its last record
\* has been swept.
Settled(m) == \/ items[m].state = "dismissed"
              \/ items[m].state = "integrated" /\ ~ items[m].fresh
OneSurface ==
    \A m \in PolledMessages :
        LET lines == list_ingestion[m] + Cardinality({m} \cap list_held_source_items)
        IN  IF Settled(m) THEN lines = 0
            ELSE IF items[m].state # "absent" THEN lines = 1
            ELSE IF JobsOn({"extract"}, m) = {} \/ m \in skipped \cup gone THEN lines <= 1
            ELSE lines = 1

\* The page of an item agrees with the lists: held there exactly when it is on
\* the held list, with an outcome exactly when it is done; and the operator's
\* count of held items is the held list plus the items an agent is fetching.
PagesAgree ==
    /\ \A m \in PolledMessages : items[m].state # "absent" =>
           /\ _source_item_detail(m) = "held" <=> m \in list_held_source_items
           /\ _source_item_detail(m) = "done" <=> Outcome(m) # None
           /\ Outcome(m) # None => Steps(m) \in {<<"dedup">>, <<"enrich", "dedup">>}
    /\ \A q \in {"extract", "enrich", "integrate"} :
           admin_overview_queues[q]["ready"] + admin_overview_queues[q]["running"]
               + admin_overview_queues[q]["done"] + admin_overview_queues[q]["failed"]
               = Cardinality({j \in Listed : jobrows[j].queue = q})
    /\ admin_overview_users["held"]
           = Cardinality(list_held_source_items)
             + Cardinality({m \in PolledMessages : _source_item_detail(m) = "enriching"})

\* A finished walk has listed every job that was there when it began and was
\* not swept meanwhile, and none twice.
WalkIsComplete == walk.missed = {} /\ walk.twice = {}

PanelsAreHonest == OneSurface /\ PagesAgree /\ WalkIsComplete

=============================================================================

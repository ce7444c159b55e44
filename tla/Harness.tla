------------------------------- MODULE Harness ------------------------------
(***************************************************************************)
(* The staging test harness: the startup refusal, the seed of a mailbox,   *)
(* the trigger of a job, and the reset, statement by statement under READ  *)
(* COMMITTED beside a worker whose handler is inside its own transaction.  *)
(* api/src/motet_api/fixtures.py, main.py (/v1/testing), db/fixtures.py.   *)
(*                                                                         *)
(* A row has a number, its table, and the row it is about: by a foreign    *)
(* key that cascades, or for a job by a name in its payload, which is      *)
(* none.  Row locks are modelled where the reset and a handler meet.       *)
(***************************************************************************)
EXTENDS Base, Integers, FiniteSets, Sequences

CONSTANTS
    Seeds,         \* requests to seed the mailbox
    Deployments,   \* what the process may be started with
    MaxRows        \* rows ever inserted (bound)

Tables == {"sources", "credentials", "items", "stories", "episodes", "jobs"}

ASSUME HarnessAssumption ==
    /\ MaxRows \in Nat
    /\ Deployments \subseteq [flag : BOOLEAN, name : {"unset", "staging", "production", "prod-eu"}]
    /\ None \notin Nat /\ \A kept \in SUBSET Tables : kept # None

VARIABLES
    deployed,   \* the deployment, and whether the process serves
    tables,     \* the committed rows, by number
    numbered,   \* row numbers handed out
    seeding,    \* each seed's transaction
    reset,      \* the reset's transaction
    handler     \* the worker's: the job, the rows it wrote, the rows it holds

harnessVars == <<deployed, tables, numbered, seeding, reset, handler>>

PasteSource == 0
Rows == DOMAIN tables
In(table) == {n \in Rows : tables[n].table = table}
Row(table, of) == [table |-> table, of |-> of, queue |-> None, state |-> None]
Job(queue, of) == [table |-> "jobs", of |-> of, queue |-> queue, state |-> "ready"]

NoReset == [at |-> 0, snapshot |-> None, doomed |-> {}, overlapped |-> FALSE,
            left |-> None]
NoHandler == [at |-> "idle", job |-> None, writes |-> <<>>, holds |-> {}]

HarnessInit ==
    /\ deployed \in [env : Deployments, serving : {FALSE}]
    /\ tables = [n \in {PasteSource} |-> Row("sources", None)] /\ numbered = 0
    /\ seeding = [s \in Seeds |-> [at |-> "idle", found |-> None]]
    /\ reset = NoReset /\ handler = NoHandler

HarnessTypeOK ==
    /\ Rows \subseteq 0..numbered /\ numbered \in 0..MaxRows
    /\ \A n \in Rows : tables[n].table \in Tables
    /\ \A s \in Seeds : seeding[s].at \in {"idle", "locked", "found", "done", "failed"}
    /\ handler.at \in {"idle", "read", "wrote", "marked"}
    /\ reset.doomed \subseteq 0..MaxRows

(* ------------------------------- startup ------------------------------- *)

\* fixtures_enabled and check_startup: with the flag on, a production name never boots
fixtures_enabled == deployed.env.flag
Production == deployed.env.name \in {"production", "prod-eu"}
check_startup_exact_names == ~(fixtures_enabled /\ deployed.env.name = "production")
check_startup == ~(fixtures_enabled /\ Production)
boot ==
    /\ ~deployed.serving /\ check_startup
    /\ deployed' = [deployed EXCEPT !.serving = TRUE]
    /\ UNCHANGED <<tables, numbered, seeding, reset, handler>>

\* require_fixtures: every route of the harness is a 503 without the flag
require_fixtures == deployed.serving /\ fixtures_enabled

(* ------------------------- writing rows together ----------------------- *)

\* New rows are numbered in order; a transaction's rows appear at its commit.
Insert(rows, new) ==
    [n \in DOMAIN rows \cup (numbered + 1)..(numbered + Len(new)) |->
        IF n \in DOMAIN rows THEN rows[n] ELSE new[n - numbered]]
Room(new) == numbered + Len(new) <= MaxRows

\* A commit of anything but the reset, while a reset is open
Meanwhile(r) == [r EXCEPT !.overlapped = @ \/ r.at > 0]

Commit(new) ==
    /\ Room(new)
    /\ tables' = Insert(tables, new) /\ numbered' = numbered + Len(new)
    /\ reset' = Meanwhile(reset)

(* -------------------------------- seed --------------------------------- *)

\* lock_seed: one seed of this user at a time, for its transaction
lock_seed_none(s) == TRUE
lock_seed(s) == \A q \in Seeds \ {s} : seeding[q].at \notin {"locked", "found"}
seed_begins(s) ==
    /\ require_fixtures /\ seeding[s].at = "idle" /\ lock_seed(s)
    /\ seeding' = [seeding EXCEPT ![s].at = "locked"]
    /\ UNCHANGED <<deployed, tables, numbered, reset, handler>>

\* find_gmail_source: the mailbox an earlier seed made, if there is one
find_gmail_source(s) ==
    /\ seeding[s].at = "locked"
    /\ LET mailboxes == In("sources") \ {PasteSource}
       IN seeding' = [seeding EXCEPT ![s] = [at |-> "found",
              found |-> IF mailboxes = {} THEN None
                        ELSE CHOOSE n \in mailboxes : \A m \in mailboxes : n <= m]]
    /\ UNCHANGED <<deployed, tables, numbered, reset, handler>>

\* seed_gmail_source, the rest: a source if none was found, the credential (over
\* the old one), and a poll.  Sealing may fail; a source deleted meanwhile fails the
\* credential's foreign key.  Either way nothing is written.
seed_gmail_source(s) ==
    /\ seeding[s].at = "found"
    /\ LET f == seeding[s].found
           held == \E c \in In("credentials") : tables[c].of = f
       IN /\ f \notin reset.doomed
          /\ \/ /\ f = None
                /\ Commit(<<Row("sources", None), Row("credentials", numbered + 1),
                            Job("poll", numbered + 1)>>)
                /\ seeding' = [seeding EXCEPT ![s].at = "done"]
             \/ /\ f \in Rows
                /\ Commit(IF held THEN <<Job("poll", f)>>
                          ELSE <<Row("credentials", f), Job("poll", f)>>)
                /\ seeding' = [seeding EXCEPT ![s].at = "done"]
             \/ /\ seeding' = [seeding EXCEPT ![s].at = "failed"]
                /\ UNCHANGED <<tables, numbered, reset>>
    /\ UNCHANGED <<deployed, handler>>

(* ------------------------------- trigger ------------------------------- *)

\* trigger_testing_job: a poll of the one mailbox that would poll, or an episode;
\* and the owner asking for a held item to be ingested.  One waiting poll and one
\* episode at a time (bounds).
pollable_gmail_sources == {n \in In("sources") :
    \E c \in In("credentials") : tables[c].of = n}
trigger_poll ==
    /\ require_fixtures /\ Cardinality(pollable_gmail_sources) = 1
    /\ \A j \in In("jobs") : tables[j].queue = "poll" => tables[j].state # "ready"
    /\ \E n \in pollable_gmail_sources : Commit(<<Job("poll", n)>>)
    /\ UNCHANGED <<deployed, seeding, handler>>
trigger_episode ==
    /\ require_fixtures /\ In("episodes") = {}
    /\ Commit(<<Row("episodes", None), Job("assemble", numbered + 1)>>)
    /\ UNCHANGED <<deployed, seeding, handler>>
ask_integrate ==
    /\ deployed.serving
    /\ \E i \in In("items") :
         /\ \A j \in In("jobs") : tables[j].queue = "integrate" => tables[j].of # i
         /\ Commit(<<Job("integrate", i)>>)
    /\ UNCHANGED <<deployed, seeding, handler>>

(* -------------------------------- worker ------------------------------- *)

Settle(rows, j, state) ==
    IF j \in DOMAIN rows THEN [rows EXCEPT ![j].state = state] ELSE rows

\* A claim skips locked rows.  The handler reads the row its job is about, and gives
\* up for good when there is none.
handler_begins ==
    /\ handler.at = "idle"
    /\ \E j \in In("jobs") \ reset.doomed :
         /\ tables[j].state = "ready"
         /\ IF tables[j].of \in Rows
            THEN /\ handler' = [NoHandler EXCEPT !.at = "read",
                                                 !.job = [n |-> j, queue |-> tables[j].queue, of |-> tables[j].of]]
                 /\ tables' = Settle(tables, j, "running")
            ELSE /\ tables' = Settle(tables, j, "failed") /\ handler' = handler
    /\ reset' = Meanwhile(reset)
    /\ UNCHANGED <<deployed, numbered, seeding>>

\* What a handler inserts.  An item or a story refers to its parent by a foreign key;
\* a job names its subject in its payload and refers to nothing.
Writes(job) ==
    CASE job.queue = "poll" -> <<Job("extract", job.of)>>
      [] job.queue = "extract" -> <<Row("items", job.of)>>
      [] job.queue = "integrate" -> <<Row("stories", job.of)>>
      [] job.queue = "assemble" -> <<Job("script", job.of)>>
      [] OTHER -> <<>>
Refers(job) == job.queue \in {"extract", "integrate"}

\* The writes: they wait for a row the reset has deleted and not committed, then fail
\* a foreign key whose row is gone; an UPDATE of a row that is gone changes nothing.
handler_writes ==
    /\ handler.at = "read"
    /\ handler.job.of \notin reset.doomed
    /\ IF Refers(handler.job) /\ handler.job.of \notin Rows
       THEN /\ tables' = Settle(tables, handler.job.n, "ready")
            /\ handler' = NoHandler
       ELSE /\ handler' = [handler EXCEPT !.at = "wrote", !.writes = Writes(handler.job),
                             !.holds = {handler.job.of} \cap Rows]
            /\ tables' = tables
    /\ UNCHANGED <<deployed, numbered, seeding, reset>>

\* mark_work_committed, the transaction's last statement, waits for its own job's row
handler_marks ==
    /\ handler.at = "wrote" /\ handler.job.n \notin reset.doomed
    /\ handler' = [handler EXCEPT !.at = "marked",
                                  !.holds = @ \cup ({handler.job.n} \cap Rows)]
    /\ UNCHANGED <<deployed, tables, numbered, seeding, reset>>
handler_commits_h ==
    /\ handler.at = "marked" /\ Room(handler.writes)
    /\ tables' = Insert(Settle(tables, handler.job.n, "done"), handler.writes)
    /\ numbered' = numbered + Len(handler.writes)
    /\ reset' = Meanwhile(reset)
    /\ handler' = NoHandler
    /\ UNCHANGED <<deployed, seeding>>

(* -------------------------------- reset -------------------------------- *)

\* The order of _RESET_STEPS, over the tables kept here
RESET_STEPS_jobs_last ==
    <<"episodes", "stories", "items", "credentials", "sources", "jobs">>
RESET_STEPS == <<"jobs", "episodes", "stories", "items", "credentials", "sources">>

reset_begins ==
    /\ require_fixtures /\ reset.at = 0 /\ reset.left = None
    /\ reset' = [reset EXCEPT !.at = 1, !.overlapped = handler.at # "idle"
                     \/ \E s \in Seeds : seeding[s].at \in {"locked", "found"}]
    /\ UNCHANGED <<deployed, tables, numbered, seeding, handler>>

\* What a statement sees when it begins: committed rows, less what its own
\* transaction deleted.  A job belongs to the user through the row it is about; an
\* integrate job also through its serialize_key.
Visible == Rows \ reset.doomed
Victims(table) ==
    {n \in Visible :
        /\ tables[n].table = table
        /\ table = "sources" => n # PasteSource
        /\ table = "jobs" => tables[n].of \in Visible \/ tables[n].queue = "integrate"}
statement_begins ==
    /\ reset.at \in 1..Len(RESET_STEPS) /\ reset.snapshot = None
    /\ reset' = [reset EXCEPT !.snapshot = Victims(RESET_STEPS[reset.at])]
    /\ UNCHANGED <<deployed, tables, numbered, seeding, handler>>

\* It deletes them once no open handler holds one, with what a foreign key cascades to
Cascade(dead) ==
    {n \in Rows : tables[n].table \in {"items", "credentials"} /\ tables[n].of \in dead}
statement_ends ==
    /\ reset.snapshot # None
    /\ handler.holds \cap reset.snapshot = {}
    /\ reset' = [reset EXCEPT !.at = @ + 1, !.snapshot = None,
                   !.doomed = @ \cup (reset.snapshot \cap Rows) \cup Cascade(reset.snapshot)]
    /\ UNCHANGED <<deployed, tables, numbered, seeding, handler>>

\* The commit, noting which tables still hold a row of this user's
reset_commits ==
    /\ reset.at > Len(RESET_STEPS)
    /\ LET rest == Rows \ reset.doomed
       IN /\ tables' = [n \in rest |-> tables[n]]
          /\ reset' = [NoReset EXCEPT !.overlapped = reset.overlapped,
                         !.left = {tables[n].table : n \in rest \ {PasteSource}}]
    /\ UNCHANGED <<deployed, numbered, seeding, handler>>

\* Each waits for a row the other holds: PostgreSQL ends one of the two
deadlock_broken ==
    /\ reset.snapshot # None /\ handler.holds \cap reset.snapshot # {}
    /\ handler.at = "wrote" /\ handler.job.n \in reset.doomed
    /\ \/ reset' = NoReset /\ UNCHANGED handler
       \/ handler' = NoHandler /\ UNCHANGED reset
    /\ UNCHANGED <<deployed, tables, numbered, seeding>>

HarnessNext ==
    \/ boot \/ trigger_poll \/ trigger_episode \/ ask_integrate
    \/ handler_begins \/ handler_writes \/ handler_marks \/ handler_commits_h
    \/ reset_begins \/ statement_begins \/ statement_ends \/ reset_commits
    \/ deadlock_broken
    \/ \E s \in Seeds : seed_begins(s) \/ find_gmail_source(s) \/ seed_gmail_source(s)

HarnessSpec == HarnessInit /\ [][HarnessNext]_harnessVars

(* ----------------------------- properties ------------------------------ *)

\* A reset that nothing overlaps leaves none of the user's rows: no job outlives
\* what it is about, because jobs go while the rows that say whose they are still
\* stand.  One that a worker or a request overlaps may leave the jobs that commit
\* behind it and a story whose item it deletes, since neither refers to anything
\* the reset deletes later (db/fixtures.py _RESET_STEPS, reset_user).
ResetIsClean ==
    /\ reset.left # None /\ ~reset.overlapped => reset.left = {}
    /\ \A n \in Rows : tables[n].table \in {"items", "credentials"} => tables[n].of \in Rows
    /\ PasteSource \in Rows
    /\ (\E j \in In("jobs") : tables[j].of \notin Rows)
         => reset.left # None /\ reset.overlapped

\* However seeds are retried, the account has at most one mailbox of the seed's name
\* (lock_seed), and a process that calls itself production has none of this surface.
HarnessIsContained ==
    /\ Cardinality(In("sources") \ {PasteSource}) <= 1
    /\ Production => numbered = 0

HarnessHolds == ResetIsClean /\ HarnessIsContained

=============================================================================

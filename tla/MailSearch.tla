----------------------------- MODULE MailSearch -----------------------------
(***************************************************************************)
(* What a poll of one mailbox lists and hands on: the watermarked search   *)
(* of sources/gmail.py, handle_poll's page loop, its cursor, its chain of  *)
(* jobs, "sync further back" (resync), the running totals of a sync and    *)
(* the progress the API reports from them, and handle_extract.             *)
(* workers/src/motet_workers/ingest.py, db/src/motet_db/phase2.py,         *)
(* api/src/motet_api/main.py and sync_progress.py.                         *)
(*                                                                         *)
(* Messages are numbered in their order of arrival; a moment is a tick of  *)
(* the clock.  Gmail answers a search newest first and may take up to the  *)
(* overlap to index a message.  Polls of a source hold its serialization   *)
(* key (JobQueue's KeyExclusion), so one runs at a time; extractions take  *)
(* no key.  Which token they read with is the subject of MailGrant.        *)
(***************************************************************************)
EXTENDS Base, Integers, FiniteSets, FiniteSetsExt

CONSTANTS
    MaxMessages,  \* messages that arrive (bound)
    MaxTime,      \* ticks (bound)
    Overlap,      \* WATERMARK_OVERLAP_SECONDS
    PageSize,     \* messages of one page
    QueueCap,     \* POLL_PAGE_SIZE: a poll stops once it has queued this many
    MaxPages,     \* MAX_PAGES_PER_POLL
    Windows,      \* first_sync_days the owner can choose
    MaxReady,     \* poll jobs waiting at once (bound)
    MaxResyncs    \* "sync further back" requests (bound)

ASSUME SearchAssumption ==
    /\ MaxMessages \in Nat /\ MaxTime \in Nat /\ Overlap \in Nat
    /\ PageSize \in Nat \ {0} /\ QueueCap \in Nat \ {0} /\ MaxPages \in Nat \ {0}
    /\ Windows \subseteq Nat /\ Windows # {}
    /\ MaxReady \in Nat /\ MaxResyncs \in Nat
    /\ None \notin Nat \cup {"listing", "listed", "failed"}
    /\ None \notin [after : Nat, started : Nat \cup {None}, token : Nat \cup {None}]

Messages == 1..MaxMessages

VARIABLES
    clock,    \* Gmail's and the worker's
    inbox,    \* external: when a message arrived, and whether a search finds it
    conf,     \* sources: active, config.first_sync_days, resync_requested_at
    sync,     \* sources.sync_state
    jobs,     \* the source's ready polls, and its extract jobs
    poll,     \* the poll in progress
    sought    \* history: the floor of the last first sync

searchVars == <<clock, inbox, conf, sync, jobs, poll, sought>>

\* A cursor (_SearchCursor): the bound of the pass, when the pass began and
\* the page to continue it from.
Cursor(after, started, token) == [after |-> after, started |-> started, token |-> token]
\* A poll: the search position, the resync it honours, the window, what it
\* has queued (in its own transaction, so nobody sees it yet), and the pages.
NoPoll == [at |-> "idle", cur |-> None, redo |-> 0, win |-> 0,
           fresh |-> {}, pages |-> 0, more |-> TRUE, floor |-> None]
\* An extract job; now: created since the current sync run began.
NoJob  == [st |-> "none", now |-> FALSE]
Times == 0..MaxTime

SearchTypeOK ==
    /\ clock \in Times
    /\ \A m \in Messages : inbox[m].at \in Times \cup {None} /\ inbox[m].found \in BOOLEAN
    /\ conf \in [active : BOOLEAN, window : Windows, asked : 0..MaxResyncs]
    /\ sync.done \in 0..MaxResyncs /\ sync.queued \in Nat
    /\ sync.status \in {None, "listing", "listed", "failed"}
    /\ sync.cursor = None \/ sync.cursor.after \in Times
    /\ jobs.ready \in 0..MaxReady + 1
    /\ \A m \in Messages : jobs.extract[m].st \in {"none", "ready", "done", "failed"}
    /\ poll.at \in {"idle", "paging"} /\ poll.fresh \subseteq Messages
    /\ sought \in Times \cup {None}

SearchInit ==
    /\ clock = 0
    /\ inbox = [m \in Messages |-> [at |-> None, found |-> FALSE]]
    /\ \E w \in Windows : conf = [active |-> TRUE, window |-> w, asked |-> 0]
    /\ sync = [cursor |-> None, done |-> 0, status |-> None, queued |-> 0]
    \* oauth_callback has queued the first poll
    /\ jobs = [ready |-> 1, extract |-> [m \in Messages |-> NoJob]]
    /\ poll = NoPoll
    /\ sought = None

(***************************************************************************)
(* The mailbox (external) and the adapter                                  *)
(***************************************************************************)

\* The next message arrives; it may be searchable at once or later.
Arrive ==
    /\ \E m \in Messages, found \in BOOLEAN :
           /\ inbox[m].at = None /\ \A n \in 1..(m - 1) : inbox[n].at # None
           /\ inbox' = [inbox EXCEPT ![m] = [at |-> clock, found |-> found]]
    /\ UNCHANGED <<clock, conf, sync, jobs, poll, sought>>

IndexCatchesUp ==
    /\ \E m \in Messages :
           /\ inbox[m].at # None /\ ~ inbox[m].found
           /\ inbox' = [inbox EXCEPT ![m].found = TRUE]
    /\ UNCHANGED <<clock, conf, sync, jobs, poll, sought>>

\* "can lag a message's arrival by seconds to minutes": within the overlap.
TimePasses ==
    /\ clock < MaxTime
    /\ \A m \in Messages :
           inbox[m].at # None /\ ~ inbox[m].found => clock - inbox[m].at < Overlap
    /\ clock' = clock + 1
    /\ UNCHANGED <<inbox, conf, sync, jobs, poll, sought>>

\* What messages.list answers for "after:" and a page token, newest first.
_search(after, token) ==
    {m \in Messages : /\ inbox[m].found /\ inbox[m].at >= after
                      /\ token # None => m < token}

\* The first sync of a window; clamped at the epoch.
first_sync(win) == Cursor(Max({0, clock - win}), None, None)

\* A search with no page token begins a pass now.
Begun(cur) == IF cur.token = None THEN Cursor(cur.after, clock, None) ELSE cur

\* The cursor after a page: the next page of the pass or, once the pass is
\* exhausted, a watermark that overlaps the pass's start.
NextCursor_now(cur, page, more) ==
    IF more THEN Cursor(cur.after, cur.started, Min(page))
            ELSE Cursor(Max({cur.after, clock}), None, None)
NextCursor(cur, page, more) ==
    IF more THEN Cursor(cur.after, cur.started, Min(page))
            ELSE Cursor(Max({cur.after, cur.started - Overlap}), None, None)

\* list_messages: a page is the newest of what is left, and may be short.  A
\* refused page token restarts the pass from its first page.
NewestOf(left, k) == {m \in left : Cardinality({n \in left : n > m}) < k}
PageOf(st, k) ==
    LET left == _search(st.after, st.token)
        page == NewestOf(left, k)
    IN  [page |-> page, more |-> page # left, next |-> NextCursor(st, page, page # left)]
list_messages(cur, win) ==
    LET base == Begun(IF cur = None THEN first_sync(win) ELSE cur)
    IN  {PageOf(st, k) : st \in {base, Cursor(base.after, base.started, None)},
                         k \in 1..PageSize}

(***************************************************************************)
(* The poll                                                                *)
(***************************************************************************)

\* unqueued_message_ids: no extract job in any state (a source item has one).
unqueued_message_ids(page) ==
    {m \in page : jobs.extract[m].st = "none"}

\* pending_resync: asked for after the last one honoured; 0 for none.
pending_resync(c, s) == IF c.asked > s.done THEN c.asked ELSE 0

\* continuing_sync_run: a run goes on while it lists; a restart begins anew.
continuing_sync_run(redo) == redo = 0 /\ sync.status = "listing"

\* advance_sync_run: its totals add up over the polls of its chain.
advance_sync_run_forgets(redo, n) == n
advance_sync_run(redo, n) == IF continuing_sync_run(redo) THEN sync.queued + n ELSE n

\* The jobs that belong to the run once a poll has queued these.
RunJobs(new, goesOn) ==
    [m \in Messages |->
        IF m \in new THEN [st |-> "ready", now |-> TRUE]
        ELSE [jobs.extract[m] EXCEPT !.now = @ /\ goesOn]]

\* A poll job is claimed; it reads the source, and the search restarts if a
\* resync is pending.
handle_poll_starts ==
    /\ poll.at = "idle" /\ jobs.ready > 0 /\ conf.active
    /\ LET redo == pending_resync(conf, sync)
       IN  poll' = [NoPoll EXCEPT !.at = "paging", !.redo = redo, !.win = conf.window,
                        !.cur = IF redo # 0 THEN None ELSE sync.cursor]
    /\ jobs' = [jobs EXCEPT !.ready = @ - 1]
    /\ UNCHANGED <<clock, inbox, conf, sync, sought>>

\* _end_sync_run: a paused source closes a run still listing.
_end_sync_run ==
    /\ poll.at = "idle" /\ jobs.ready > 0 /\ ~ conf.active
    /\ jobs' = [jobs EXCEPT !.ready = @ - 1]
    /\ sync' = IF continuing_sync_run(0) THEN [sync EXCEPT !.status = "failed"] ELSE sync
    /\ UNCHANGED <<clock, inbox, conf, poll, sought>>

PageWanted(p) == p.more /\ Cardinality(p.fresh) < QueueCap /\ p.pages < MaxPages

\* One page of the loop: listed, and its new messages queued.
read_page ==
    /\ poll.at = "paging" /\ PageWanted(poll)
    /\ \E p \in list_messages(poll.cur, poll.win) :
           poll' = [poll EXCEPT !.cur = p.next, !.more = p.more, !.pages = @ + 1,
                       !.fresh = @ \cup unqueued_message_ids(p.page),
                       !.floor = IF poll.cur = None THEN first_sync(poll.win).after ELSE @]
    /\ UNCHANGED <<clock, inbox, conf, sync, jobs, sought>>

\* poll_waiting: a queued poll is the next link already.
poll_waiting == jobs.ready > 0

\* set_source_sync_state writes the whole document from the poll's snapshot.
\* Only a poll changes the keys modelled here, so the snapshot is current; a
\* resync request is in config for exactly that reason.
set_source_sync_state ==
    sync' = [cursor |-> poll.cur,
             queued |-> advance_sync_run(poll.redo, Cardinality(poll.fresh)),
             status |-> IF poll.more THEN "listing" ELSE "listed",
             done   |-> IF poll.redo # 0 THEN poll.redo ELSE sync.done]

\* The cursor, the extract jobs and the next link commit together.
handle_poll_commits ==
    /\ poll.at = "paging" /\ ~ PageWanted(poll)
    /\ set_source_sync_state
    /\ jobs' = [ready   |-> jobs.ready + (IF poll.more /\ ~ poll_waiting THEN 1 ELSE 0),
                extract |-> RunJobs(poll.fresh, continuing_sync_run(poll.redo))]
    /\ sought' = IF poll.floor # None THEN poll.floor ELSE sought
    /\ poll' = NoPoll
    /\ UNCHANGED <<clock, inbox, conf>>

\* The handler raises or its worker dies: nothing it did is kept.  The job is
\* offered again, or gives up.
poll_retries ==
    /\ poll.at = "paging"
    /\ poll' = NoPoll
    /\ jobs' = [jobs EXCEPT !.ready = @ + 1]
    /\ UNCHANGED <<clock, inbox, conf, sync, sought>>

\* record_poll_failure: the run ends, what it found and the cursor stay.  A
\* run that never began is a failed one with nothing found.
record_sync_failure_drops_cursor ==
    /\ sync' = [sync EXCEPT !.status = "failed", !.cursor = first_sync(0)]
    /\ jobs' = jobs
record_sync_failure ==
    /\ sync' = [sync EXCEPT !.status = "failed",
                            !.queued = IF continuing_sync_run(0) THEN @ ELSE 0]
    /\ jobs' = [jobs EXCEPT !.extract = RunJobs({}, continuing_sync_run(0))]

poll_gives_up ==
    /\ poll.at = "paging"
    /\ poll' = NoPoll
    /\ record_sync_failure
    /\ UNCHANGED <<clock, inbox, conf, sought>>

(***************************************************************************)
(* Extraction                                                              *)
(***************************************************************************)

Extracted(m, st) ==
    /\ jobs.extract[m].st = "ready"
    /\ jobs' = [jobs EXCEPT !.extract[m].st = st]
    /\ UNCHANGED <<clock, inbox, conf, sync, poll, sought>>

\* handle_extract: a newsletter becomes one source item; anything else is
\* skipped, and _record_skip merges one key of sync_state, last_skipped, that
\* a poll's write may put back and that nothing else reads.  Either way the
\* job stands as the record that the message was handed on.
handle_extract_done(m) == Extracted(m, "done")

\* It raised until its attempts were spent.
extract_gives_up(m) == Extracted(m, "failed")

(***************************************************************************)
(* The owner                                                               *)
(***************************************************************************)

\* POST /v1/sources/{id}/poll
sync_now ==
    /\ conf.active /\ jobs.ready < MaxReady
    /\ jobs' = [jobs EXCEPT !.ready = @ + 1]
    /\ UNCHANGED <<clock, inbox, conf, sync, poll, sought>>

\* POST /v1/sources/{id}/resync: the window and the request go to config,
\* which no poll rewrites.
resync_source_without_poll(w) ==
    /\ conf.active /\ jobs.ready < MaxReady /\ conf.asked < MaxResyncs
    /\ conf' = [conf EXCEPT !.window = w, !.asked = @ + 1]
    /\ UNCHANGED <<clock, inbox, sync, jobs, poll, sought>>
resync_source(w) ==
    /\ conf.active /\ jobs.ready < MaxReady /\ conf.asked < MaxResyncs
    /\ conf' = [conf EXCEPT !.window = w, !.asked = @ + 1]
    /\ jobs' = [jobs EXCEPT !.ready = @ + 1]
    /\ UNCHANGED <<clock, inbox, sync, poll, sought>>

\* A disconnect, and the consent that connects the source again.
pause_source ==
    /\ conf.active
    /\ conf' = [conf EXCEPT !.active = FALSE]
    /\ UNCHANGED <<clock, inbox, sync, jobs, poll, sought>>

reconnect ==
    /\ ~ conf.active /\ jobs.ready < MaxReady
    /\ conf' = [conf EXCEPT !.active = TRUE]
    /\ jobs' = [jobs EXCEPT !.ready = @ + 1]
    /\ UNCHANGED <<clock, inbox, sync, poll, sought>>

SearchNext ==
    \/ Arrive \/ IndexCatchesUp \/ TimePasses
    \/ handle_poll_starts \/ _end_sync_run \/ read_page \/ handle_poll_commits
    \/ poll_retries \/ poll_gives_up
    \/ \E m \in Messages :
           handle_extract_done(m) \/ extract_gives_up(m)
    \/ sync_now \/ (\E w \in Windows : resync_source(w)) \/ pause_source \/ reconnect

SearchSpec == SearchInit /\ [][SearchNext]_searchVars

(***************************************************************************)
(* What the Sources screen is told                                         *)
(***************************************************************************)

\* source_sync_jobs: the extract jobs created since the run began.
source_sync_jobs(st) == {m \in Messages : /\ jobs.extract[m].st = st
                                          /\ jobs.extract[m].now}

PollOpen == jobs.ready > 0 \/ poll.at # "idle"

\* sync_progress, after its graces have passed.
sync_progress ==
    [stage |-> CASE PollOpen /\ ~ continuing_sync_run(0) ->
                        IF poll.at # "idle" THEN "connecting" ELSE "queued"
                 [] ~ PollOpen /\ sync.status = None -> None
                 [] sync.status = "failed" -> "failed"
                 [] continuing_sync_run(0) -> IF PollOpen THEN "listing" ELSE "failed"
                 [] OTHER -> IF source_sync_jobs("ready") # {} THEN "fetching" ELSE "done",
     pulled_in |-> Max({0, sync.queued - Cardinality(source_sync_jobs("ready"))
                                       - Cardinality(source_sync_jobs("failed"))})]

(***************************************************************************)
(* Properties                                                              *)
(***************************************************************************)

\* The cursor never steps over a message: one that arrived inside the window
\* of the last first sync has been handed on, or lies ahead of the cursor, in
\* the pages left of the pass or in the next pass (gmail.py: "Nothing can be
\* stepped over now: a page not yet read is a page the cursor still points
\* at").
NothingSteppedOver ==
    sought # None =>
    \A m \in Messages : inbox[m].at # None /\ inbox[m].at >= sought =>
        \/ jobs.extract[m].st # "none"
        \/ sync.cursor # None /\ sync.cursor.token # None
              /\ m < sync.cursor.token /\ inbox[m].at >= sync.cursor.after
        \/ sync.cursor # None /\ inbox[m].at >=
              (IF sync.cursor.started = None THEN sync.cursor.after
               ELSE Max({sync.cursor.after, sync.cursor.started - Overlap}))

\* A "sync further back" is not lost, whenever it is asked for: while one is
\* pending, or a search has pages left, a poll is queued or running unless the
\* last one gave up or the source is paused (ingest.pending_resync,
\* phase2.poll_waiting).
ResyncNotLost ==
    conf.active /\ sync.status # "failed"
        /\ (conf.asked > sync.done \/ sync.status = "listing") => PollOpen

\* The counts on the screen add up over a chain of polls, whatever an
\* extraction writes in between: what a sync found, less what is open or
\* failed, is what has been pulled in, and "done" means nothing is open
\* (advance_sync_run, sync_progress).
ProgressAddsUp ==
    sync.status # None =>
        /\ sync_progress.pulled_in = Cardinality(source_sync_jobs("done"))
        /\ sync_progress.stage = "done" => source_sync_jobs("ready") = {}

=============================================================================

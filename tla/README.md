# Verification of motet

motet turns a reading backlog into an interactive podcast: newsletters and
articles are polled or pasted, integrated into news items, selected into
episodes, scripted by a model, spoken by a TTS vendor and published to a feed
and to the clients.  This directory holds TLA+ models of the parts where that
can go wrong in ways a test hardly reaches, the TLC runs that check them on
small instances, and TLAPS proofs that settle the most important properties
for every value of the constants.

## 1. Inventory

| Part | State it keeps | Operations | How it interacts |
|---|---|---|---|
| Job queue (`workers/.../jobs.py`, `loop.py`) | one row of `jobs` per unit of work: `state`, `run_at`, `locked_at`, `attempts`, `work_committed_attempt`, `serialize_key`; session advisory locks | enqueue, claim, try_lock, defer, work transaction, complete, fail, touch, prune | every producer enqueues in the transaction that creates the work; N drain processes claim with `SKIP LOCKED`; a lease-keeper thread per running job |
| Episode pipeline (`handlers.py`, `repo.py`) | `episodes`, `episode_segments`, `segment_claims`, one object in the store | assemble → script → tts, each a job that queues the next in its own transaction; `episode_failed` | reads at start, writes at commit minutes later; upload and progress count escape the transaction |
| Source items (`handlers.handle_integrate`, `enrich.py`, `labels.py`, `repo.py`) | `source_items.state`, `held`, enrichment status, `news_items` and their membership | paste, poll insert, hold, claim, dismiss, enrich, integrate, label write-back | integrate is serialized per user by the queue's advisory lock |
| Source polling (`ingest.py`, `phase2.py`) | `sources.sync_state` (cursor, pending resync, last result), `active`, credentials | poll page, chain next page, resync, extract, mint token, disconnect | the poll rewrites a document other requests merge into |
| Listening (`phase2.record_listen_progress`) | `listened_through_ms`, read state of news items | progress, mark read/unread, highlight | several devices, out of order |
| Sign-in and tokens (`api/auth`, `api/mcp/oauth.py`, `db/auth.py`, `db/mcp_oauth.py`, `db/api_tokens.py`) | consents, hand-offs, codes, sessions, refresh tokens, personal tokens, the allowlist, a failure window | sign in, exchange, refresh, mint, log out, delist, throttle | every request presents one of them |
| Connectors (`api/connectors.py`, `db/connectors.py`, `sources/mcp_oauth.py`) | one row per MCP server or site, sealed token sets, registered clients | add, authorize, refuse, offer to a run, remove | two requests around a server's consent page |
| Requests and drain (`api/deps.py`, `drain.py`, `slack.py`, `waitlist.py`, `runner.py`) | what a request armed; the workers started | commit, fire, drain the queues in order | a nudge starts a worker |
| Feed, audio, notes (`api/feed.py`, `shownotes.py`, `main.py`) | the feed token, highlights | mint, rotate, fetch, range, save | podcast clients hold a URL |
| Panels (`repo.py`, `episode_progress.py`, `sync_progress.py`) | none: they read | lists, item page, job pages, build bar | the rows the workers write |
| MCP tools (`api/mcp/`) | a scope per request, a transport per lifespan | call, select groups, start, stop | the routes' own handlers |
| Voice (`voice/`) | a live session: playback clock, floor, detector, vendor socket | audio in, audio out, interrupt, ask, resume, reopen | three coroutines and a billed speech model |
| Model gateway (`inference/`, `admin_llm.py`, `llm_context.py`) | saved settings per stage, the usage ledger | save, resolve, complete, book | every stage that calls a model |
| Agent runs (`enrich/`, `workers/enrich.py`, `db/enrichment.py`) | a run, its cost, its transcript, the cookie jar | admit, stream, cap, answer, book | one HTTP call from the enrich handler |
| Vault (`vault/`) | sealed rows, a key manager per process | seal, open, report health | API seals, workers open |
| Staging harness (`api/fixtures.py`, `db/fixtures.py`) | the tables of one test user | seed, trigger, reset | beside running workers |
| Clients (`web/`, `ios/`) | local playback and offline library | play, seek, sync | HTTP only |

What is hard here is concurrency at the row level (READ COMMITTED, no row is
locked while a model is called), processes that die between two transactions,
leases that run out under a process that is merely slow, and effects that are
not in the database transaction.  `PROJECT.json` lists each such hazard at the
line where it bites, with the properties that cover it.

What makes each part correct:

* *queue*: per-user exclusion; work lands at most once unless a lease lapsed
  under a live worker, and in any case is never replayed by a later claim; done
  means landed; the job row and the domain object agree; no lock is leaked;
  every job settles;
* *episode pipeline*: what is spoken is what is shown and what is served; no
  episode is stranded; one script and one render per episode; settled is final;
* *source items*: one integration per item, a dismissed item costs nothing, an
  enrichment failure never loses an item its owner asked for, the billed agent
  is started once, the mailbox follows the ingest;
* *polling*: no message is stepped over by a cursor, a resync asked for happens,
  the counts shown add up, a source reads the mailbox its owner consented to, a
  revoked grant stops the source;
* *backlog and listening*: a fresh story is never buried in a read one; read
  state follows what was really heard, whatever order the reports come in;
* *access*: one consent yields one grant, delegation stays narrower than its
  owner, what is revoked stays revoked (sessions, tokens, feed URLs);
* *credentials*: a secret opens for its own row only; a connector in force stays
  usable with the client it was granted to;
* *requests*: nothing is said of what did not commit, nudged work is drained;
* *voice*: listener audio reaches the billed vendor only while the listener has
  the floor, a silent floor is closed, the detector cannot latch;
* *spend*: what a model or an agent cost is booked however the job ended, within
  the caps; settings that were saved resolve;
* *what is shown*: ranges, times and cues are exact, panels agree with the rows.

## 2. Plan

1. `JobQueue` with its abstract specification `WorkLedger`, proofs in
   `JobQueueProofs`.  **Done.**
2. `EpisodePipeline`, on top of the queue's guarantees, proofs in
   `EpisodePipelineProofs`.  **Done.**
3. `SourceItems`: hold / claim / dismiss / enrich / integrate / label, proofs in
   `SourceItemsProofs`.  **Done.**
4. `MailGrant` and `MailSearch`: a source's grant, and the cursor protocol,
   proofs in `MailProofs`.  **Done.**
5. `Backlog`, `Listening`, `Serving`: dedup, read state, episode selection, and
   the pure algorithms of time and bytes against reference definitions.  **Done.**
6. `Access`, `Throttle`, `Connectors`, `Vault`, `Feed`, `McpTools`: authority and
   credentials, proofs in `AccessProofs`.  **Done.**
7. `Voice`, `Hearing`, `ModelGateway`, `EnrichRun`, `Requests`, `Panels`,
   `BuildPanel`, `Extract`, `Harness`.  **Done.**
8. `Requests`, `Harness`, `EnrichRun` and `ModelGateway`, proofs in
   `OperationsProofs`; `Panels`, `BuildPanel`, `Hearing`, `Voice`, `Backlog`,
   `Listening`, `Serving` and `Extract`, in `ClientProofs`; and `ServiceProofs`, which
   carries each service module's invariant over to the sum that `services_all`
   explores.  **Done.**
9. The types of all twenty components (`TypesHoldAlways`), and what the rule of an
   episode chooses, against its reference definition (`ChoicesAreBest`).  **Done.**

## 3. Modules

### `JobQueue`

One row of `jobs` is five functions of the job (`state`, `due`, `lease`,
`attempts`, `fence`); one drain pass is a worker with a program counter, the
`Job` record it claimed (`job`, `att`, `fen`), a connection and a keeper.  Time
is reduced to the two comparisons `CLAIM_SQL` makes: `due` (has `run_at`
passed) and `lease` (is `locked_at` older than `STALE_LEASE_SECONDS`).

| Action | Code |
|---|---|
| `enqueue`, `claim`, `defer`, `touch`, `prune` | the functions of those names in `jobs.py` |
| `try_lock`, `unlock` | `drain` in `loop.py`: after the claim, and in its `finally` |
| `_run_one` | the keeper starts (or cannot), `_execute` looks at the fence |
| `CommitWork` | the handler's transaction with `mark_work_committed` last |
| `Raise`, `fail` | the three `except` arms: the exception, and the second transaction |
| `complete` | the outcome transaction, also on the replay path |
| `BecomeDue`, `ExpireLease` | the clock |
| `KeeperCap`, `Crash`, `LoseConnection`, `AbandonPass` | faults |

The fault kinds are a constant: `crash`, `conn` (Postgres drops the session but
the process and its keeper live), `keeper` (no thread, or the two-hour cap) and
`stall` (a covered lease runs out all the same).  A lease nobody covers runs
out without a fault being charged.  `domain` stands for whatever object the
job is about.  `applied`, `seen`, `lapsed` and `faults` are history, read by
properties (and, for `faults`, the bound) only.

Abstracted: payloads, error texts, metrics, heartbeats, the LLM usage ledger,
the batching of the retention sweep, the queue column (a worker drains one
queue; jobs here are of one).

### `WorkLedger`

What a producer may rely on: owed work lands once, is done only after it
landed, failed only if it never did, and is then forgotten.  `JobQueue` is
shown to implement it (`ImplementsLedger`) under the mapping `LedgerStatus`.

### `EpisodePipeline`

One episode, its segments, its audio columns, the object under its key, and
the job rows that carry it.  The queue appears at the level of `JobQueue`'s
theorems: a fenced row (`landed`) is never handed to a handler again, a row is
taken from a live worker only by spending a lapse, and a retry hands the row
back below the ceiling.  An execution (`run[r]`) reads when it `begin`s, and
its writes appear together when it commits.

| Action | Code |
|---|---|
| `enqueue_episode` | `enqueue_episode`, `enqueue_smart_episode` |
| `begin` | a claim past the replay test, and `get_episode`; `Reads` holds the three handlers' guards |
| `NoOp`, `Doomed`, `Raise`, `DurationsMismatch` | early returns and failures; `GiveUp` is `_execute`'s failure arms with `episode_failed` |
| `handle_assemble`, `handle_script` | their single commit: segments, state, next job, fence |
| `report_open`, `synthesize` | `_render_reporter` on its side connection |
| `put`, `publish_episode` | the upload, and the commit that publishes |

Text and audio are abstracted to their origin: a draft is the claim
`<<job, attempt>>` that wrote it, a take the claim that synthesized it with the
draft it speaks.  A commit is one step; statement-level interleavings inside
two overlapping commits either end in a UNIQUE violation (covered by `Raise`)
or in one of the two orders.

### `SourceItems`

The items of one user with their enrich and integrate rows.  Both queues carry
the user's serialization key, so at most one *connected* execution is between
`start` and `complete` (`KeyBusy`).  The module models what that does not
cover: a worker that stalls between `claim` and `start` and goes on with an
out-of-date claim; one that loses its session, and the lock with it, but still
reaches the side connection (`_announce_running`) and the agent (`call`); and
the API's requests, which take a transaction lock of their own (`_lock_held`).

| Action | Code |
|---|---|
| `handle_extract`, `enqueue_paste` | the two ways an item arrives |
| `SelectHeld`, `enqueue_integration`, `dismiss_held_source_items`, `Rollback` | the two requests, as lock-and-read and commit |
| `claim`, `defer`, `start`, `complete`, `prune` | the queue; `integrate_reads` and `enrich_reads` are the handlers' guards |
| `Requeue`, `Interrupted`, `_record_skip`, `AnnounceFails`, `NoArticle`, `apply_enriched_article` | the exits of `handle_enrich`; `CommitEnrich` is what they share |
| `handle_integrate`, `write_back` | the dedup commit, and the label step after the unlock |
| `Retry`, `GiveUp` | `_execute`'s failure arms with the two recorders |
| `Crash`, `LoseConnection`, `AbandonPass` | faults |

Abstracted: which story an item joins (one link, new or merged), titles and
the title backstop, the agent's request, cost and cookies (its budget is one
more reason for a skip), the eight outcomes of a label write (written or
error).  Label settings do not change during a behaviour.  Items are never
deleted: the code refuses to delete a source that has any.  `calls` and `asked`
are history.

### The service modules

Each names its source files and its abstractions in its head comment; actions
carry the names of the functions they model.  `Base` declares the absent value
they share.

| Module | State | Actions | Left to another module, or abstracted |
|---|---|---|---|
| `MailGrant` | the source's row, its recorded mailbox, refresh and access tokens, consents, poll jobs, three workers' transactions | connect, label sync, re-consent, callback in three steps, mint with its lock, mailbox check, poll, extract, write-back, disconnect, remove; Google revokes, a worker dies | what a poll lists |
| `MailSearch` | inbox and index, cursor, sync run, jobs, resync request | page, commit, chain, retry, give up, extract, sync now, resync, pause | whose token it reads with |
| `Access` | consents, sessions, refresh tokens, personal tokens, clients, allowlist, a revocation between its statements | the three sign-ins, exchange, refresh, log out, revoke, delist, expire, redeploy | hashing of secrets: any holder may present any secret |
| `Throttle` | one failure window | a refused bearer, the clock | |
| `Connectors` | one MCP connector, one site, flows, registrations | create, authorize, discovery, register, callback, exchange, refusals, seal, delete | discovery documents are the issuer they name |
| `Vault` | environments of two processes, sealed rows | store, load, a row moved, redeploy | encryption is symbolic |
| `Feed` | tokens by age, overlapping transactions, clients' URLs | ensure, rotate, commit, subscribe, fetch, render | the document |
| `McpTools` | transports, calls, context variables per task | lifespans start and end, authenticate, select, call, commit, count | tool results |
| `Requests` | requests, job rows, worker processes, the waitlist | every route that enqueues, commit, rollback, fire, drain queue by queue, stop, kill | what happens inside one job (`JobQueue`) |
| `Backlog` | stories, one integrate with the window it read | begin, answer, second look, title backstop, mark read | serialization per user (`JobQueue`) |
| `Listening` | stories, episodes with state, segments and positions | make, assemble, script, render, fail, report, mark, by hand | the stages' retries (`EpisodePipeline`); a rule's window is the set `Fresh` |
| `Serving` | the last answer, highlights | audio range, claim times, cues, save and delete a highlight | text is its length |
| `Extract` | parser state beside the elements really open | start tag, end tag, data, assemble the message | a line is its kind |
| `Voice` | clock, detector, bridge, vendor, wire, pump | client frames, engage, forward, cancel, guard, vendor events, drop and reopen, close | audio is frames; positions count claims |
| `Hearing` | noise floor, run of frames, last turn | frame, turn, reset | levels are whole steps |
| `ModelGateway` | settings rows, saves, a job's calls, ledger | save, commit, deploy, begin, call, second look, flush, die | prompts; a model is what the catalogue says of it |
| `EnrichRun` | items, the handler, the run's stream, ledger, cookie jar | skip, admit, event, timer, raise, answer, apply, lose the caller | the agent is a stream of events with a cost; a string is the set of kinds of things it may hold, and who wrote it |
| `Panels` | jobs, items, polls, an operator's walk | the workers' writes, requests, one page of the walk | row limits above the bounds |
| `BuildPanel` | episode, stage rows, heartbeats, the list's copy | stages, sweep, heartbeat, the two readings | wording |
| `Harness` | tables by row, seeds, reset and handler by statement | boot, seed, trigger, reset, a worker beside it, deadlock broken | columns |

They rest on the queue's theorems where they say so: one integrate, one poll
of a source and one enrichment of an owner at a time is `KeyExclusionHolds`.

### MC modules

`MCJobQueue`, `MCEpisodePipeline`, `MCSourceItems` and `MCServices` give TLC its
instances; `MCServices` also defines the sum of the services and its invariants.

## 4. Runs

| Run | Instance | Result |
|---|---|---|
| `jq_all` | 3 workers, 2 jobs of one user, 2 attempts, any 2 faults of all kinds | all seven invariants hold (about 0.8 M states, workers symmetric) |
| `jq_live` | 2 workers, 2 jobs, 2 crashes or lost connections, fair | implements `WorkLedger`; every job settles |
| `jq_ceiling` | 1 worker, 1 job, ceiling 5, 5 crashes | **violation**: a sixth execution |
| `jq_keeper` | 3 workers, 1 job, a stall and a lost connection | **violation**: two keepers with one attempt number |
| `ep_all` | 2 executions, 2 segments, 2 attempts, 1 lapse, 1 crash | six invariants and `SettledIsFinal` hold (about 2.5 M states) |
| `ep_live` | 2 executions, 1 segment, 2 attempts, 1 lapse, fair | every episode ends published or failed, for good |
| `ep_spoken` | as `ep_live` without fairness | **violation**: published audio of a draft that is not shown |
| `si_all` | 1 item, 2 workers, 2 requests, 2 attempts, 1 lapse, 1 lost session, 1 crash | seven invariants and `TextIsSettled` hold (about 2 M states) |
| `si_live` | 1 item, 2 workers, 1 request, 1 lost session, 1 crash, fair | everything asked for is integrated or failed |
| `si_agent` | 1 item, 2 workers, 1 lapse, 1 lost session | **violation**: the agent is started twice for one item |
| `services_all` | the twenty service modules, one scene each (below) | fourteen invariants hold (about 3.6 M states) |
| `mail_revoked` | 1 account, 2 consents, 2 polls, 1 revocation | **violation**: a source Google refuses stays active |

`services_all` explores a *sum*: the initial state picks a scene, only that
component moves, and every other component's variables hold one fixed value.
The components share no variable, and each models what the others do to its
rows as actions of its own, so the reachable states are those of twenty separate
runs side by side, and an invariant of the sum is the conjunction of what each
scene promises.  `ServicesTypeOK` is the conjunction of the type invariants.
The other thirteen:

| Invariant | Made of |
|---|---|
| `GrantIsTheOwners` | `OneMailbox`, `ConsentLands` (MailGrant) |
| `MailArrivesWhole` | `NothingSteppedOver` (MailSearch), `KeepsTheVisible`, `TrimsOnlyTheEnds` (Extract) |
| `ResyncIsHonest` | `ResyncNotLost`, `ProgressAddsUp` (MailSearch) |
| `AuthorityStaysNarrow` | `OneGrantPerConsent`, `DelegationStaysNarrow` (Access), `CallsAreConfined`, `CallsAreAccounted`, `TransportInForce` (McpTools) |
| `RevocationHolds` | `RevokedStaysRevoked` (Access), `RotationUnsubscribes` (Feed), `RefusalsAreBounded` (Throttle) |
| `CredentialsHold` | `GrantStaysInForce` (Connectors), `OpensItsOwn`, `ReadyMeansSealed` (Vault) |
| `ToldOnlyAfterCommit` | `NudgedWorkIsDrained`, `AnnouncedIsStored` (Requests) |
| `BacklogIsKept` | `LandsUnread`, `TwinsAreExplained` (Backlog), `ReadStateIsEarned` (Listening) |
| `AnsweredAsAsked` | `RangeIsExact`, `TimesTile`, `CuesKeepTheWords` (Serving) |
| `ListenerIsHeard` | `SpendGate`, `SilentFloorIsGuarded`, `VendorIsPlaced` (Voice), `CannotLatch`, `TurnsAreSpaced`, `PositionIsWhatPlayed` (Hearing) |
| `SpendIsAccounted` | `SavedRowsResolve`, `JobsCanRun`, `BilledIsBooked` (ModelGateway), `SpendIsSeen`, `DayIsCapped`, `TranscriptIsSifted`, `LoginIsKept` (EnrichRun) |
| `ShownIsTrue` | `OneSurface`, `PagesAgree`, `WalkIsComplete` (Panels), `PanelIsTrue`, `BarNeverGoesBack` (BuildPanel) |
| `HarnessIsSafe` | `ResetIsClean`, `HarnessIsContained` (Harness) |

`PROJECT.json` lists, for each of these invariants, variants of the code's
definitions that break one part or another of it; the last one listed for an
invariant is the quickest to be refuted.

*Bounds.*  Two jobs of one key are what exclusion is about; three workers are
one that lost its row, one that took it and one more that contends for the
key.  Two attempts give a retry and a give-up.  Two faults give the
combinations the code's comments discuss (a stall followed by a death).  For an
episode, two executions are what a lapse makes possible, two segments let a
rewrite keep or change the count, and five job ids are as many as one lapse can
use (a duplicated assemble adds one script and one tts), so the bound never
blocks a commit.  For source items, one item is enough because two items share
nothing but the key, which a lapsed claim of the same row contends for just as
well; two requests are two tabs; two rows per queue are as many as one lapse
can use (a third is never inserted), so that bound blocks nothing either.

For the services, each constant is the smallest at which the case in question happens:
two accounts or consents (a re-consent as somebody else), two messages with one per page
and an overlap of one tick (a pass over several jobs with mail arriving and being
indexed between them), two consents and two sessions (a rotation and a revocation at
once), two authorization flows over two issuers, two requests and two workers with one
unforced start, a budget of two failures in a window of three ticks over seven (two
boundaries), three stories in a window of two (one falls out), two episodes over two
stories, one of them inside the window of a rule, with segments of no and of one unit
(an estimate and its measure can differ either way, and a report can come before,
between and after them), bodies and segments of a few bytes and milliseconds (every
boundary of the rounding), cues of two characters for words of up to three (one fits no
cue), two owner requests and two podcast clients over four transactions, two turns with
one reopen, two savers over three images, two articles with a day of three and a run of
one unit of cost, runs of four events with two of them still read after a stop
(`MaxLate`: what was in the pipe and what the group emits in its grace period), three
job rows in pages of one, a clock of two ticks around the two thresholds of the build
panel, identifiers that join ambiguously (`a`, `b`, `a:a`), four markup events, two tool
calls over two lifespans, two seeds beside a handler and a reset, and ten levels of
loudness. `x` and `y` stand for whatever a component has two interchangeable ones of
(accounts, flows, workers, owners, savers, articles, calls, seeds); nothing orders them
and no property or CHOOSE depends on which is which, so permuting them is sound.
Consents, requests, stories and sign-ins are numbered in the order they begin, which is
a symmetry reduction too: the number is never compared otherwise.

*Deadlock* is not checked: when every job is settled or pruned, and when the
episode is settled, the system rests; so do the services when their bounds are
used up.

*Fairness.*  A worker that is alive takes its next step: handlers return or
raise because every vendor client has a timeout.  Clocks advance.  A lease
that nobody renews runs out.  A row that keeps being offered is claimed,
because `CLAIM_SQL` orders by `run_at` and no later row overtakes it for ever
(strong fairness, as the key's lock makes a row come and go).  Crashes, lost
connections, stalls, `touch` and `prune` have no fairness.

## 5. What the comments say and the code does not do

* **The retry ceiling and a job that kills its worker** (`jq_ceiling`).  The
  ceiling is read by `will_retry` only, after a handler raised.  The reclaim arm
  of `CLAIM_SQL` has no condition on `attempts`, so a job that kills its worker
  is run for ever, once per stale window; the comment beside that arm says the
  ceiling bounds it.
* **The keeper's fence** (`jq_keeper`).  `touch` explains why no later claim can
  repeat the `attempts` a live keeper holds.  `defer` subtracts one from
  whatever the row holds, also when the row has been reclaimed from the
  deferring worker in the meantime, and then a later claim does repeat it.
* **A second attempt and the agent** (`si_agent`).  `handle_enrich` says that a
  second attempt never runs the agent.  The guard is a status read in the
  handler's transaction and written later on a side connection, without
  checking it again: a worker that lost its session after the read and its
  lease before the announce, and the worker that took its row, both read
  `queued`, both announce, and both start the agent.
* **A second run of a stage is harmless** (`ep_spoken`).  It is not when it
  falls between the read and the publication of the render: the segments on the
  episode's screen are replaced, the render publishes what it read, and the
  second tts job finds the episode `ready` and returns.

* **A revoked mailbox** (`mail_revoked`).  `mint_token` deactivates the source
  when Google refuses its refresh token, and then raises; `_execute` rolls the
  handler's transaction back, the flag with it, and the failure recorder does not
  write it again.  The source stays active and every later poll asks Google
  again.  The test that says otherwise looks inside the uncommitted transaction.

The first four need a fault the code itself allows for (a worker death, a lost
session, a lease that runs out under a live worker); none occurs in fault-free
operation, which `DuplicateNeedsLapse`, `SpokenIsShownUnlessLapsed` and
`AgentOnceUnlessLapsed` make precise.  The fifth needs none.

Smaller disagreements and races have no run of their own.  The models contain
them, and where a property of `services_all` has an exception, this is it:

* *Extraction*: a hidden void element other than `<br>` never closes, so the rest
  of the message is dropped; the end tag of an element inside a hidden one of the
  same name reveals the rest of the hidden one; a hidden link's address is kept
  (`confused` in `Extract`).
* *Connectors*: `_connector_refused` decides from the row it read before talking
  to the server; an authorization that succeeded meanwhile is demoted (`late`).
* *Access*: a refresh token exchanged while a logout-everywhere is between its
  two DELETEs leaves a session behind (`history.rotated`).
* *Feed*: two rotations, or a rotation and a first mint, that overlap leave two
  live tokens (`alone`); a client answered in between is handed the new one
  (`overlapped`).
* *MailGrant*: the label write-back's mailbox check may delete a grant that a
  re-consent has just corrected; a disconnect that waited for a row lock does not
  see an access token inserted meanwhile.
* *Backlog*: an item may land in a story marked read while the model was
  thinking (`last.stale`).
* *Listening*: a later report re-marks a story its owner marked unread, because
  it is still behind the furthest position (`heard.undone` is about the time
  before such a report).  `record_listen_progress` says that a story counts as read once
  its segment was passed; but neither a report nor a mark asks for the episode's state.
  While an episode is being made its segments carry estimates, and the script may leave a
  story out, so a report or a mark of that moment reads stories whose segment was never
  played, or is not in the episode at all (`heard.early`); and a longer position
  reported then reads what it passes of the final segments only with the next report
  (`heard.final`).  After a failure the segments stay as they are, and reading goes on.
* *Serving*: `apportion_claim_timings` says that the claims of a segment "always sum to
  exactly the segment's duration" (`handlers.py:782`).  Where the last claim's share is
  less than the rounding of those before it (claims of under half a millisecond each)
  they come to more (`Roomy`).  `_split_cue` promises cues "no longer than
  `MAX_CUE_CHARS`" (`shownotes.py:132`); a single word that is longer is a cue of
  its own.
* *Voice*: a reply owed to a typed question may talk over resumed narration
  (`asked`).  `add_context` sends nothing where the episode has no transcript
  (`openai_realtime.py:643`); the models' episodes have one.
* *ModelGateway*: a billed answer that carries no usage, or is refused before it
  is read, is not booked; the admin's process drops its cache of overrides before
  the save commits, so it may cache the old rows again.
* *EnrichRun*: the cost of a run whose caller is gone is not booked; such a run is
  followed no further (`owed` is what the agents charged to callers still there). What a
  transcript may hold is what `redact.py` says of itself, and `TranscriptIsSifted`
  claims no more: no result of a mailbox tool, no article block, no secret the run was
  handed, no string of a known shape. The agent's own words and the arguments of its
  calls may restate mail it has read, and more of its words are kept than `redact.py:24`
  counts on ("the *only* assistant text stored is the final answer"): `absorb`
  (`pi.py:545`) makes an entry of every message that has text; a page may show what was
  typed into it; a browser result keeps the page it read, cut to a length; a token of a
  shape no pattern knows stays. Known secrets are found where they stand whole (four
  characters or more); one that JSON escapes inside an argument is not, which the model
  does not tell apart.
* *Panels*: the operator's held count includes items an agent is fetching, which
  the held list leaves out.
* *McpTools*: `get_feed` belongs to a read-only group and mints a token the first
  time; a call refused before its handler is not counted.
* *Harness*: a reset that overlaps a worker can leave a job or a story behind,
  although `reset_user` says that nothing is stranded either way.
* *Hearing*: a claim of no length is both heard and being said.

## 6. Proofs

Every theorem is about any sets of jobs, workers, items, accounts, clients,
messages and so on, any ceiling, budget and bound, and any number and mix of
faults.  Assumed of the constants is only what the module that declares them
states: numbers are numbers and what is divided by, retried or paged is not
zero; and the absent value `None` is none of the things a field could hold
instead (no worker, claim, client, cursor, address or status).  Where the code
has a record with a nullable column, that is what `NULL` means.  One property has
a condition of its own: that a steady level stops counting as speech (`CannotLatch`)
holds where the floor's steps are small (`StepsAreSmall`), that is where speech stands
out by more than the largest step down in a frame.  By default that is 12 dB against
1.8 dB at warm-up; a caller may ask for 0 dB (`min_snr_db`, `contract.py`), and then a
floor that steps below a steady hum hears speech in it.

Each proof has the same outline.  The properties are not inductive as they
stand, so each module names the strengthening that is, as a conjunction of
parts that each say one thing; one lemma per action, or per shape that several
actions share, shows that it is kept; a last lemma draws the properties from it.
TLC checked each strengthening on the instance of the corresponding run first.

`JobQueueProofs`
* `KeyExclusionHolds`, `LockNotLeakedHolds`: from `LockInv` - a connected worker
  between `try_lock` and `unlock` is the recorded holder of its key, and nobody
  else is recorded.  Exclusion alone does not say why a second `try_lock` fails.
* `NoReplayHolds`, `DoneMeansLandedHolds`: from `FenceInv`, which ties the fence
  to `applied`: work is committed exactly when the fence is set, a claim copies
  both together, and a row is closed as done only behind its fence.
* `ExactlyOnceHolds`, `OutcomeMatchesDomainHolds`: from `OwnerInv` - a job whose
  lease never lapsed has at most one connected worker that can still write it,
  namely one holding the current attempt; so nobody fails a job another landed.
* `QueueImplementsLedger`: `LeasesHold /\ Spec` implements `WorkLedger`; each
  action is a ledger step or a stutter.

`EpisodePipelineProofs`
* `NeverStrandedHolds`: the job that will move an unsettled episode is the one
  its last transition queued; the strengthening `WillMove` says that no
  execution of that row has decided to return quietly, because every execution
  that could have seen the stage as done belongs to an older row.
* `FeedHasAudioHolds`: a render never starts without segments and an uploaded
  object is only ever replaced.
* `SpokenIsShownHolds`, `OneJobPerStageHolds`, `ProgressIsThisRenderHolds`: from
  `SoleInv` - while no lease has lapsed there is one row still owed, of the stage
  the state names, and one live execution, of that row's current claim, which
  read the segments that are still there.
* `SettledIsFinalHolds`: an action property; with it, a ready episode stays so,
  lapses included.

`SourceItemsProofs`
* `LinkedHolds`, `DismissedHolds`, `AskedHolds` and `TextHolds` follow from one
  invariant, `ItemInv`.  Its centre is `HandedOn`: a row closes, is fenced or is
  skipped only once its item has left `pending` or, for an enrich row, once an
  integrate row was inserted.  Both stay true, also when the sweep deletes rows,
  so the rows of a pending item cannot all be closed (`AskedHolds`), and an item
  on the held list has never had a row (`HeldIsRowless`), hence was neither
  asked nor paid for (`DismissedHolds`).  None of the four is inductive alone:
  that a late failure or article cannot touch an integrated item needs
  `Working` (while an execution holds the key, its item is as it was read),
  which needs `KeyExclusive`.
* `MailboxHolds`: from `MailInv`.  Every row of a mail item carries the owner's
  flag, the first because the owner's request inserted it and each later one
  because it inherits it; so an integration that lands owes its label, and while
  no worker and no session is lost that debt has a worker.
* `AgentOnceHolds`, `StartedHolds`: from `AgentInv`.  An item has one enrich row,
  which without a lapse one worker has claimed, whatever becomes of its
  database session; the agent is called only behind the announcement, and who
  finds the announcement made does not call.
* Every step of a worker is first shown to have one shape (`WorkerShape`), which
  is then shown once to keep the invariant (`WorkerStep`); the requests and the
  sweep touch no execution and no item that has a row (`OutsideStep`).

`AccessProofs`
* `AccessHolds`: from `AccessInv` - a consent has at most one session and one
  refresh token, which belong together; and while a revocation is between its
  two statements, whatever it did not see came of a rotation (`Sweeping`).
* `RotationUnsubscribesHolds`: from `FeedInv` - two open transactions never mint
  the same token, a rotation that ran alone saw every live one, and a URL that
  still works was had after the last rotation or answered across one.
* `RefusalsAreBoundedHolds`: from `ThrottleInv`, which places the answers of the
  window in force at the end of the sequence and those before the previous
  window a whole window back.  The property is stated over the times of the
  answers: of any `2 * MaxFailures` answers with a 401 in a row, the last comes a
  window or more after the one before the first.
* `ToolCallsHoldAlways`: from `McpInv` - a handler's scope is that of its own
  request, nothing is counted or fired before it ran, and the transports are the
  running lifespans in the order they began.  `WritersAreNamed` goes through the
  table of tools: what changes a row is registered as a write, but for
  `get_feed`.
* `GrantStaysInForceHolds`: from `ConnectorInv`, which says of the row every flow
  has *read* what the property says of the row that is there, so that a refusal
  written from it spoils nothing a late one had not.
* `VaultHoldsAlways`: from `VaultInv` - each row holds what one `store` sealed.
  That no other row's secret opens is `AadInjective`: the associated data joins
  table, column and key with a separator that the first two do not contain, so
  no two places share it even when a key does.

`MailProofs`
* `GrantHolds`: from `GrantInv` - a stamp stands for one account, in the row, in
  the cached token and in whatever a transaction has minted or checked and not
  yet committed; and the recorded address is the one every reader and writer
  under way works on.
* `SearchHolds`: from `SearchInv` - a message that arrived is found unless it is
  of the last `Overlap` ticks, and what a poll has neither queued nor holds lies
  ahead of its cursor (`NothingBehind`), for the stored cursor and the one of the
  poll in progress; a run's total is the number of its jobs.

`OperationsProofs`
* `RequestHolds`: from `RequestInv` - who runs a job is at that job's queue and
  alone, so what its handler hands on lies ahead of it (`PipelineShape`); an alert
  armed, like one sent, stands for a submission stored.
* `HarnessAlwaysHolds`: from `HarnessInv` - row numbers are never used again, so
  what a row is about is there or gone for good; a reset that nothing overlaps
  has, after each statement, doomed every row of the tables it has been through
  (`SweptSoFar`), and jobs are swept while the rows that say whose they are still
  stand.
* `RunsHold`: from `EnrichInv` - only the run whose answer the handler waits for
  still costs anything (`OnlyHeldRuns`), so the sum over the runs is one term; and
  a run is past its cap by one event and by what is read of it after its stop
  (`WithinReach`), each of which costs at most a step; and nothing of the mailbox is in a
  run's entries before the run has read some (`MailInHand`), while what a mailbox tool
  answered, handed secrets and the article never get there (`KeptPieces`).
* `GatewayHolds`: from `GatewayInv` - what a stage was billed is booked, let go of,
  or in the buffer of the job in hand (`EveryBillIsSomewhere`); and a save under way
  is the only one, with a candidate that resolves as a whole (`OneSaver`,
  `CandidateResolves`), which is why two admins cannot save halves that do not fit.

`ClientProofs`
* `PanelsHold`: from `PanelsInv`.  That a message is on one surface rests on who
  still owes it something: a pending item that was ever asked for has an open
  integrate row or an agent's run (`PendingIsCarried`), an agent's run has an open
  enrich row (`FetchIsOpen`), and that is the only later row its message ever had
  (`EnrichIsAlone`), so "the newest later job" and "any later job" are the same
  question.  For a walk, `WalkIsOnCourse` says that what it owes from its place on
  up it has shown, and nothing below; `PageAndOne` is the lemma about asking for
  one row more than the page holds.
* `BuildPanelAlwaysHolds`: from `BuildInv`.  While an episode builds, its own
  stage's row is open (`BuildIsOwed`), hence is the row the order of
  `_EPISODE_BUILD_SQL` picks (`ChosenIsOwn`), also beside the running row of a
  stage that is over; and no bar was drawn beyond it.  That a median lies between
  two samples is `EstimateIsBetween`, over the k-th sample in order (`NthIsThere`).

* `HearingAlwaysHolds`: from `HearInv`.  The detector cannot latch because the
  noise floor follows: while the level stays as it is, the floor is either within
  reach of it or has risen one step with each frame since (`FloorFollows`), and
  while it is quiet the floor has come down as many steps from as high as it can
  be (`FloorComesDown`), so `SettleTime` and `QuietTime` bound both.  That the
  position told is what played is `LocateIsTrue`, over a transcript of any length:
  starts and ends are sums of its lengths, and segments and claims follow each
  other (`LaidOut`, `InOrder`).
* `FloorIsKeptAlways`: from `VoiceInv`, which says of the bridge that without a
  channel it does nothing and has no socket (`ChannelOrNothing`), that the gate is
  open only behind a position told and never over narration (`GateIsPlaced`), that
  a reply is owed to someone (`OwedToSomeone`) and that an open floor has its
  guard or a reason for none (`FloorGuarded`).  All four are about the bridge's
  fields alone, so what several coroutines share is shown once
  (`CancelKeeps`, `ForwardKeeps`, `BargeKeeps`) and carried to records that agree on
  those fields (`AlikeIsSound`).
* `DedupKeepsItsWordAlways`: from `BacklogInv`, which says what of an integrate's
  reading still holds when its answer lands: titles only change by that answer, so
  they are as they were read (`TitlesStand`); a story its window left out has a
  windowful of newer ones (`WindowIsWide`); and one brought back meanwhile has had
  its headline excused (`ReturnsExcused`).  So two open stories under one headline
  are explained by one of the three.
* `ReadStateHolds`: from `ListeningInv`.  A report moves the position to the
  furthest told, and marks what ends by then; that this is all the listener ever passed
  is because positions only grow and final segments never change.  `FinalCounts` says
  that a report or a mark counts only for an episode whose segments are final and whose
  stories are not to stay: what came before is in `heard.early`, so that the steps by
  which an episode is still made owe nothing to anyone (`EpisodeMoves`), and a later
  report or mark is a reason of its own (`EarnedIn`).
* `ServedAsAskedAlways`: the property is its own invariant, for each request is
  answered from its own inputs.  The work is in the operators: `RangeIs` (a range
  against the set of bytes it names), `SpreadIs` (a rounded share is above its
  quotient by a half at most, `RoundIs`, so all but the last come to no more than
  their weight and a half each, `SharesAre`), and `ChunksAre` (after each word, what
  is packed has all characters of the words so far and the spaces between,
  `PackKeeps`).
* `ExtractionHolds`: from `ExtractInv`.  The parser remembers the tags of the hidden
  elements only; unless it was confused, that memory is what one pass over the
  elements really open would give (`IsMemory`, `Follows`), so an end tag takes away
  from it exactly what its start tag put there, and it is empty just when a reader
  sees what comes next (`SeenIs`).  That a message is refused only for want of
  content, and never for the footer cut, is `CutFooterIs`; that prose is kept from
  its beginning is `CleanIs`, over filters of filters (`OnlyOfOnly`) and what is kept
  of a beginning (`OnlyOfBeginning`); and `DistinctIs` and `MergeIs` say what becomes
  of the links.

Sums of a sequence, cues of a text, the lines of some kinds and the links each once
are defined by recursion on the length.  Facts about them for every length
(`SumsAre`, `SumsGrow`, `PackedAre`, `KeptReach`, `MetReach`) are proved
without an induction theorem: of the numbers for which a fact fails there would be
a least (`LowestExists`, from the library's `WFMin`), and the number before it is a
witness against that (`NoFirst`).

*Types.*  An invariant that is to say why a property holds says of its component's
typing only what it needs; that every counter stays within its bound often takes more.
`ServicesTypeOK` is therefore proved in sections of their own (`Types`, at the ends of
the modules).  For ten components the invariant gives the type as it is; for the
others a second invariant stands beside it, about the numbers: a poll waits or runs
only if it was made (`GrantBounds`), a pass takes a job only below its bound
(`RequestBounds`), a stage runs only with an attempt left (`BuildBounds`), the detector
counts no further than what it compares with (`HearBounds`), what is noted down was the
time once (`SearchBounds`), a segment of an episode is a story with a length
(`ListeningBounds`), the clock of the narration never claims to have spoken more than
was delivered (`VoiceBounds`), saved rows are of the catalogue's kind
(`GatewayBounds`).

*What a rule chooses.*  `select_for_rule` is modelled by how many stories precede each
in the rule's order.  `ChoicesAreBest` says what that is for: at any time, whatever
was read, merged or reported, each rule would be given as many stories as there are
and as it may take, only such as it is about, in its order, and none passed over comes
before one taken.  It follows from `PlacesAreFilled` - in a strict order of a finite set
the places are all different and none is left empty - and from `RanksOrder`: each of
the three rankings is a strict order, because ties are broken by the story's number.

`ServiceProofs` states the fourteen invariants of `services_all` that these make up,
of the sum: a step of the sum is a step of the component its scene names, or none
(`SceneStep`).

*What the attempts showed.*  Two properties had to change because they were
wrong, not because they were hard.  `OpensItsOwn` claimed that a row opens to the
secret last stored there; with two moves and a store between them it may open to
one stored for the same place under another key, and now says so (`moved`).
In `Hearing` the types did not hold for every value of the settings: where no level can
stand out from the floor (a threshold above the loudest frame) `SettleTime` came out
negative; and with `refractory_ms` = 0, which the contract allows, the frames since a
turn were counted to one although the window is none long.  No instance that TLC had
run has such settings; both are corrected.  That the floor's steps are small was
assumed of the constants of the whole module, which is more than the contract gives;
it is now a condition of the one property that needs it.
`RefusalsAreBounded` counted the answers of "any window" with an observer that was
reset with the code's own window, which made it nearly a restatement; it is now
about the times themselves.  Elsewhere only the form of a definition changed where
the provers could not read it: an `@` inside a nested `EXCEPT`, an idle job that is
a record rather than `None`, a sum over four stages written out,
the order in which job rows are preferred as one number, a median taken at its rank
instead of from a sorted copy, stories chosen for an episode by how many precede
them instead of from a sorted copy, folds over segments and words as functions on
their numbers, lines selected by their kinds instead of by a test passed as an
operator.  Links are made distinct as the code's `dict.fromkeys` does it, by going
through them once.  The claims `locate` calls heard had been looked for among the first few only, which
no instance could tell apart; they now range over the transcript.  The word for an
item's page was a `CASE` whose
guards overlapped, which says nothing of which is taken; it is now a chain in the
order of the code.

*Only model-checked:*
* liveness (`EventuallySettled`, `EventuallyBuilt`, `EventuallyIngested`) and the
  refinement's liveness: fairness is out of the prover's reach;
* the five runs that expect a violation.

## 7. Not modelled

* The web and iOS clients: programs of their own in TypeScript and Swift.  To the
  models they are any client, whose requests come in any order, are lost or
  repeated.
* Schemas, error texts, plain getters and column mapping: they keep no state and
  decide nothing.  `schemas.py` is field declarations.
* Parsing of MIME, audio codecs, prompts, the TTS vendor's protocol, rendering of
  the RSS document: conversions whose correctness is about content.  The
  composed voice loop is a sequence of three calls behind the same session.
* Observability, developer tools, goldens, brand and the marketing site.
* Deletion of episodes, which does not exist outside the test fixtures.
* Real time: clocks are ticks, and a timeout is an event that may happen when the
  code lets it.  Postgres is READ COMMITTED with the row and advisory locks the
  code takes; statement-level interleavings are modelled where two statements of
  one transaction can see different states (revocation, reset, feed rotation,
  minting) and a transaction is one step elsewhere.

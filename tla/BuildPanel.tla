----------------------------- MODULE BuildPanel -----------------------------
(***************************************************************************)
(* The progress of one episode's build, as both clients draw it:           *)
(* api/src/motet_api/episode_progress.py over two readings of the database *)
(* (the list of episodes, then state and job in one statement,             *)
(* motet_db.repo.episode_builds) while the workers move the episode on.    *)
(*                                                                         *)
(* The two readings are two snapshots.  A worker commits a stage's work    *)
(* and completes its job in two transactions; a worker that dies between   *)
(* them leaves a running row on a stage that is over.                      *)
(***************************************************************************)
EXTENDS Base, Integers, Sequences, FiniteSets, FiniteSetsExt

CONSTANTS
    MaxClock,          \* ticks of the clock (bound)
    SettledVisible,    \* SETTLED_VISIBLE
    WorkerFresh,       \* WORKER_FRESH
    WorkerStarting,    \* WORKER_STARTING
    BuildAttempts,     \* DEFAULT_MAX_ATTEMPTS
    Samples,           \* recent build times the estimate may be made from
    TriggerEnabled     \* MOTET_DRAIN_TRIGGER: an enqueue starts a worker

ASSUME BuildPanelAssumption ==
    /\ MaxClock \in Nat /\ SettledVisible \in Nat /\ BuildAttempts \in Nat \ {0}
    /\ WorkerStarting \in Nat /\ WorkerFresh \in Nat /\ WorkerStarting < WorkerFresh
    /\ None \notin {"assemble", "script", "tts"} /\ \A s \in Samples : s \in Seq(Nat)

VARIABLES
    clock_b,   \* the database's clock
    episode,   \* the episode's row
    stages,    \* the job row of each stage
    beats,     \* worker_heartbeats, per queue
    listed_copy,    \* the list route's copy of the episode, None before it is read
    panel,     \* the progress a poll was just answered with, None between polls
    bar        \* history: steps done on the last panel shown

buildVars == <<clock_b, episode, stages, beats, listed_copy, panel, bar>>

STEP_ORDER == <<"assemble", "script", "tts">>
StepNames  == {"assemble", "script", "tts"}
STEP_FOR_STATE == [s \in {"pending", "scripting", "rendering"} |->
    CASE s = "pending" -> "assemble" [] s = "scripting" -> "script" [] OTHER -> "tts"]
Building == DOMAIN STEP_FOR_STATE
NextState == [s \in Building |->
    CASE s = "pending" -> "scripting" [] s = "scripting" -> "rendering" [] OTHER -> "ready"]
StepIndex(step) == CHOOSE i \in 1..3 : STEP_ORDER[i] = step
NoStageJob == [st |-> "none", attempts |-> 0, error |-> FALSE]

BuildTypeOK ==
    /\ clock_b \in 0..MaxClock
    /\ episode.state \in Building \cup {"ready", "failed"} /\ episode.changed \in 0..MaxClock
    /\ stages \in [StepNames -> [st : {"none", "ready", "running", "failed", "done"},
                                 attempts : 0..BuildAttempts, error : BOOLEAN]]
    /\ beats \in [StepNames -> (0..MaxClock) \cup {None}]
    /\ bar \in 0..3

BuildInit ==
    /\ clock_b = 0
    /\ episode = [state |-> "pending", changed |-> 0]
    /\ stages = [q \in StepNames |-> IF q = "assemble" THEN [NoStageJob EXCEPT !.st = "ready"]
                                     ELSE NoStageJob]
    /\ beats = [q \in StepNames |-> None]
    /\ listed_copy = None /\ panel = None /\ bar = 0

(***************************************************************************)
(* episode_builds: which job row stands for the episode                    *)
(***************************************************************************)

OpenRows == {q \in StepNames : stages[q].st \notin {"none", "done"}}
Own(q) == episode.state \in Building /\ STEP_FOR_STATE[episode.state] = q

\* _EPISODE_BUILD_SQL's order: the row on the state's own queue, then a
\* running one, then one that has not failed, then the newest.
Ahead(q) == (IF Own(q) THEN 16 ELSE 0) + (IF stages[q].st = "running" THEN 8 ELSE 0)
                + (IF stages[q].st # "failed" THEN 4 ELSE 0) + StepIndex(q)
Chosen_running_first ==
    LET running == {q \in OpenRows : stages[q].st = "running"}
        rows == IF running = {} THEN OpenRows ELSE running
    IN  IF rows = {} THEN None ELSE CHOOSE q \in rows : \A p \in rows : StepIndex(q) <= StepIndex(p)
Chosen == IF OpenRows = {} THEN None
          ELSE CHOOSE q \in OpenRows : \A p \in OpenRows : Ahead(p) <= Ahead(q)
episode_builds == [state |-> episode.state, changed |-> episode.changed, queue |-> Chosen]

(***************************************************************************)
(* episode_progress                                                        *)
(***************************************************************************)

settled_at(e) == IF e.state \in {"ready", "failed"} THEN e.changed ELSE None
Recent(t) == t = None \/ clock_b - t <= SettledVisible
reports_progress(e) == Recent(settled_at(e))

\* The k-th of the samples in order: the least that k of them do not exceed
Nth(s, k) == Min({v \in {s[i] : i \in 1..Len(s)} :
                      Cardinality({i \in 1..Len(s) : s[i] <= v}) >= k})

\* int(statistics.median(samples)), with ESTIMATE_MIN_SAMPLES of them.
estimate_ms(s) ==
    LET n == Len(s)
    IN  IF n < 3 THEN None
        ELSE IF n % 2 = 1 THEN Nth(s, (n + 1) \div 2)
        ELSE (Nth(s, n \div 2) + Nth(s, n \div 2 + 1)) \div 2

_worker_alive(step) == step # None /\ beats[step] # None /\ clock_b - beats[step] <= WorkerFresh
_worker_starting(step, queue) ==
    /\ TriggerEnabled /\ step = "assemble" /\ queue = "assemble"
    /\ clock_b <= WorkerStarting   \* the assemble row is as old as the episode

StageOf(state, queue) ==
    CASE state \in {"ready", "failed"} -> state
      [] state \in Building /\ queue = None -> "failed"
      [] state \in Building /\ queue # None /\ stages[queue].st = "running" -> "running"
      [] OTHER -> IF stages[queue].attempts > 0 /\ stages[queue].error
                  THEN "retrying" ELSE "queued"

\* The verdict follows the state read beside the job, never the listed one.
Verdict_listed(copy, build) == copy.state
Verdict(copy, build) == build.state

build_progress(copy, build, samples) ==
    LET state == Verdict(copy, build)
        stage == StageOf(state, build.queue)
        step  == IF stage = "ready" THEN None
                 ELSE IF state \in Building THEN STEP_FOR_STATE[state] ELSE build.queue
        flying == stage \in {"queued", "running", "retrying"}
        idle  == stage \in {"queued", "retrying"} /\ ~ _worker_alive(step)
        starting == idle /\ _worker_starting(step, build.queue)
    IN  IF ~ Recent(settled_at([build EXCEPT !.state = state])) THEN None
        ELSE [stage |-> stage, step |-> step,
              done |-> IF stage = "ready" THEN 3 ELSE IF step = None THEN 0 ELSE StepIndex(step) - 1,
              estimate |-> IF flying THEN estimate_ms(samples) ELSE None,
              of |-> samples, was |-> bar,
              waiting |-> idle /\ ~ starting, starting |-> starting,
              truth |-> [state |-> episode.state,
                         held |-> {q \in StepNames : stages[q].st = "running"},
                         seen |-> {q \in StepNames : _worker_alive(q)}]]

\* recent_build_times_ms is asked only while something is building.
_build_progress ==
    /\ listed_copy # None
    /\ LET build == episode_builds IN
       \E s \in IF build.state \in Building THEN Samples ELSE {<<>>} :
           panel' = IF reports_progress(listed_copy) THEN build_progress(listed_copy, build, s) ELSE None
    /\ bar' = IF panel' = None THEN bar ELSE panel'.done
    /\ listed_copy' = None
    /\ UNCHANGED <<clock_b, episode, stages, beats>>

list_episodes ==
    /\ listed_copy' = episode
    /\ panel' = None /\ UNCHANGED <<clock_b, episode, stages, beats, bar>>

(***************************************************************************)
(* The workers                                                             *)
(***************************************************************************)

Set(q, job) == stages' = [stages EXCEPT ![q] = job]
Unwatched == panel' = None /\ UNCHANGED <<listed_copy, bar>>

record_worker_heartbeat(q) ==
    /\ beats' = [beats EXCEPT ![q] = clock_b]
    /\ UNCHANGED <<clock_b, episode, stages>>
    /\ Unwatched

claim_stage(q) ==
    /\ stages[q].st = "ready" /\ stages[q].attempts < BuildAttempts
    /\ Set(q, [stages[q] EXCEPT !.st = "running", !.attempts = @ + 1])
    /\ beats' = [beats EXCEPT ![q] = clock_b]
    /\ UNCHANGED <<clock_b, episode>>
    /\ Unwatched

\* The state and the next stage's row in one transaction; the job's own row is
\* completed after it.  Of the changes of state only the last is dated: nothing
\* reads updated_at before the episode settles.
stage_lands(q) ==
    /\ stages[q].st = "running" /\ Own(q)
    /\ episode' = [state |-> NextState[episode.state],
                   changed |-> IF q = "tts" THEN clock_b ELSE 0]
    /\ stages' = IF q = "tts" THEN stages
                 ELSE [stages EXCEPT ![STEP_ORDER[StepIndex(q) + 1]] =
                          [NoStageJob EXCEPT !.st = "ready"]]
    /\ UNCHANGED <<clock_b, beats>>
    /\ Unwatched
stage_completes(q) ==
    /\ stages[q].st = "running" /\ ~ Own(q)
    /\ Set(q, [stages[q] EXCEPT !.st = "done"])
    /\ UNCHANGED <<clock_b, episode, beats>>
    /\ Unwatched

\* Retried with its error, or the last attempt: the recorder fails the episode.
stage_fails(q) ==
    /\ stages[q].st = "running" /\ Own(q)
    /\ IF stages[q].attempts < BuildAttempts
       THEN Set(q, [stages[q] EXCEPT !.st = "ready", !.error = TRUE]) /\ UNCHANGED episode
       ELSE /\ Set(q, [stages[q] EXCEPT !.st = "failed", !.error = TRUE])
            /\ episode' = [state |-> "failed", changed |-> clock_b]
    /\ UNCHANGED <<clock_b, beats>>
    /\ Unwatched

sweep_stage(q) ==
    /\ stages[q].st \in {"done", "failed"}
    /\ Set(q, NoStageJob)
    /\ UNCHANGED <<clock_b, episode, beats>>
    /\ Unwatched

\* A heartbeat past WORKER_FRESH is as good as none.
build_tick ==
    /\ clock_b < MaxClock
    /\ clock_b' = clock_b + 1
    /\ beats' = [q \in StepNames |-> IF beats[q] # None /\ clock_b' - beats[q] > WorkerFresh
                                     THEN None ELSE beats[q]]
    /\ UNCHANGED <<episode, stages>>
    /\ Unwatched

BuildNext ==
    \/ list_episodes \/ _build_progress \/ build_tick
    \/ \E q \in StepNames :
           \/ record_worker_heartbeat(q) \/ claim_stage(q) \/ stage_lands(q)
           \/ stage_completes(q) \/ stage_fails(q) \/ sweep_stage(q)

BuildSpec == BuildInit /\ [][BuildNext]_buildVars

(***************************************************************************)
(* Properties                                                              *)
(***************************************************************************)

\* What the panel says was so at the second reading: it calls the build
\* failed or ready exactly when it was, names a step as running exactly when a
\* worker held that step's row, and says it waits for a worker only when none
\* was seen at the step lately and none held its row.
PanelIsTrue ==
    panel # None =>
        /\ panel.stage \in {"failed", "ready"} \/ panel.truth.state \in {"failed", "ready"}
               => panel.stage = panel.truth.state
        /\ panel.stage = "running" <=>
               panel.truth.state \in Building /\ panel.step \in panel.truth.held
        /\ panel.waiting => panel.step \notin panel.truth.seen \cup panel.truth.held
        /\ panel.estimate # None =>
               \E i, k \in 1..Len(panel.of) :
                   panel.of[i] <= panel.estimate /\ panel.estimate <= panel.of[k]

\* The bar never goes back while the build goes on or once it is ready; a
\* failed build draws less than a full bar.
BarNeverGoesBack ==
    panel # None =>
        /\ panel.stage # "failed" => panel.done >= panel.was
        /\ panel.stage = "failed" => panel.done < 3

BuildPanelHolds == PanelIsTrue /\ BarNeverGoesBack

=============================================================================

-------------------------- MODULE EpisodePipeline --------------------------
(***************************************************************************)
(* One episode on its way through the assemble, script and tts stages      *)
(* (workers/src/motet_workers/handlers.py) and the rows those handlers     *)
(* write (db/src/motet_db/repo.py).                                        *)
(*                                                                         *)
(* The queue underneath is JobQueue, taken at the level its theorems give: *)
(* a row whose work has landed is never handed to a handler again, and a   *)
(* row is run by two workers at once only if a live worker's lease lapsed. *)
(* A run is one execution of a handler.  It reads the episode when it      *)
(* starts and its writes appear together when its transaction commits -    *)
(* minutes later, which is where the interesting interleavings are.  Two   *)
(* effects are outside that transaction and are steps of their own: the    *)
(* upload to the object store, and the render-progress count written on a  *)
(* side connection.                                                        *)
(*                                                                         *)
(* Text and audio are abstracted to their origin: a draft is named by the  *)
(* claim <<job, attempt>> that wrote it and a take by the claim that       *)
(* synthesized it, together with the draft it speaks.                      *)
(***************************************************************************)
EXTENDS Integers, FiniteSets

CONSTANTS
    MaxJobs,      \* job rows this episode may use (a bound of the model)
    Runs,         \* concurrent handler executions
    None,
    MaxSegments,  \* stories that fit under the episode's duration cap
    MaxAttempts,  \* DEFAULT_MAX_ATTEMPTS
    MaxLapses,    \* leases that run out under a live worker (bound)
    MaxCrashes    \* workers that die (bound)

ASSUME PipelineAssumption ==
    /\ MaxJobs \in Nat
    /\ None \notin Nat /\ None \notin Nat \X Nat
    /\ None \notin {"assemble", "script", "tts"}
    /\ MaxSegments \in Nat \ {0}
    /\ MaxAttempts \in Nat \ {0}
    /\ MaxLapses \in Nat /\ MaxCrashes \in Nat

VARIABLES
    state,      \* episodes.state, "absent" before the row exists
    segments,   \* episode_segments: which draft, how many, timed to which take
    audio,      \* episodes.audio_key, _bytes, duration_ms: the published take
    rendered,   \* episodes.rendered_segments
    store,      \* the object under episode_audio_key
    queue,      \* jobs.queue of each row, None before it is inserted
    jstate,     \* jobs.state, with "landed" for a row whose work is fenced
    tries,      \* jobs.attempts
    run,        \* the executions in progress
    lapses, crashes

episode == <<state, segments, audio, rendered>>
jobs    == <<queue, jstate, tries>>
faults  == <<lapses, crashes>>
vars    == <<episode, store, jobs, run, faults>>

Stages  == {"assemble", "script", "tts"}
Settled == {"ready", "failed"}
JobIds  == 1..MaxJobs   \* jobs.id is a bigserial
Claims  == JobIds \X Nat
NoSegments == [draft |-> None, len |-> 0, timing |-> None]
NoTake     == [claim |-> None, draft |-> None]
Segments == [draft : Claims \cup {None}, len : 0..MaxSegments,
             timing : Claims \cup {None}]
Takes    == [claim : Claims \cup {None}, draft : Claims \cup {None}]

\* Where an execution is: it will return at once, raise at once, or it holds
\* what it read and is working, rendering, or past the upload.
Phases == {"idle", "noop", "doomed", "working", "opening", "rendering", "uploaded"}
Idle   == [phase |-> "idle", job |-> None, att |-> 0, saw |-> NoSegments,
           done |-> 0, reports |-> FALSE]
Executions == [phase : Phases, job : JobIds \cup {None}, att : Nat,
               saw : Segments, done : 0..MaxSegments, reports : BOOLEAN]

TypeOK ==
    /\ state \in {"absent", "pending", "scripting", "rendering"} \cup Settled
    /\ segments \in Segments
    /\ audio \in Takes /\ store \in Takes
    /\ rendered \in 0..MaxSegments
    /\ queue \in [JobIds -> Stages \cup {None}]
    /\ jstate \in [JobIds -> {"absent", "ready", "running", "landed", "failed"}]
    /\ tries \in [JobIds -> Nat]
    /\ run \in [Runs -> Executions]
    /\ \A r \in Runs : run[r].phase # "idle" => run[r].job \in JobIds
    /\ lapses \in 0..MaxLapses /\ crashes \in 0..MaxCrashes

Init ==
    /\ state = "absent"
    /\ segments = NoSegments
    /\ audio = NoTake /\ store = NoTake
    /\ rendered = 0
    /\ queue = [j \in JobIds |-> None]
    /\ jstate = [j \in JobIds |-> "absent"]
    /\ tries = [j \in JobIds |-> 0]
    /\ run = [r \in Runs |-> Idle]
    /\ lapses = 0 /\ crashes = 0

(***************************************************************************)
(* Helpers                                                                 *)
(***************************************************************************)

Owed(j) == jstate[j] \in {"ready", "running"}
Live(r) == run[r].phase # "idle"
ClaimOf(r) == <<run[r].job, run[r].att>>

\* A draft has spoken text once the script stage wrote it; assemble writes
\* its segments with the empty string.
HasText(s) == s.draft # None /\ queue[s.draft[1]] = "script"

\* The states that mean the script stage has already run to completion.
SCRIPTED_STATES == {"rendering", "ready"}

\* What each handler decides from the episode it reads first.
assemble_reads == IF state # "pending" THEN "noop" ELSE "working"
script_reads ==
    CASE state \in SCRIPTED_STATES -> "noop"
      [] state \notin SCRIPTED_STATES /\ segments.len = 0 -> "doomed"
      [] OTHER -> "working"
tts_reads ==
    CASE state = "ready" -> "noop"
      [] state # "ready" /\ segments.len = 0 -> "doomed"
      [] OTHER -> "opening"

Reads(j) == CASE queue[j] = "assemble" -> assemble_reads
              [] queue[j] = "script"   -> script_reads
              [] OTHER                 -> tts_reads

EnqueueAnd_unfenced(q, landing) ==
    \E j \in JobIds :
        /\ jstate[j] = "absent" /\ \A i \in JobIds : jstate[i] = "absent" => j <= i
        /\ queue' = [queue EXCEPT ![j] = q]
        /\ jstate' = [jstate EXCEPT ![j] = "ready"]
        /\ UNCHANGED tries

\* The row transitions of jobs.enqueue and of a landed handler, in the same
\* transaction as the handler's own writes.
EnqueueAnd(q, landing) ==
    \E j \in JobIds :
        /\ jstate[j] = "absent" /\ \A i \in JobIds : jstate[i] = "absent" => j <= i
        /\ queue' = [queue EXCEPT ![j] = q]
        /\ jstate' = [i \in JobIds |->
                        CASE i = j -> "ready"
                          [] i \in landing /\ i # j -> "landed"
                          [] OTHER -> jstate[i]]
        /\ UNCHANGED tries
Land(j) == jstate' = [jstate EXCEPT ![j] = "landed"] /\ UNCHANGED <<queue, tries>>
Return(r) == run' = [run EXCEPT ![r] = Idle]

\* repo.replace_segments: whatever was there is deleted; the new rows carry
\* estimated offsets.
replace_segments(r, n) ==
    segments' = [draft |-> ClaimOf(r), len |-> n, timing |-> None]

episode_failed_dropped == UNCHANGED state

\* handlers.episode_failed: unconditional, whatever the row says by now.
episode_failed == state' = "failed"

\* repo.record_rendered_segments, autocommitted on the side connection.
record_rendered_segments(count) == rendered' = count

\* repo.set_segment_durations measures against the rows there now.
DurationsFit(r) == segments.len = run[r].saw.len

(***************************************************************************)
(* The API and the queue                                                   *)
(***************************************************************************)

\* enqueue_episode and enqueue_smart_episode: the row and its first job.
enqueue_episode ==
    /\ state = "absent"
    /\ state' = "pending"
    /\ EnqueueAnd("assemble", {})
    /\ UNCHANGED <<segments, audio, rendered, store, run, faults>>

\* A worker that was given the row's latest claim is still alive.
Held(j) == \E r \in Runs : Live(r) /\ ClaimOf(r) = <<j, tries[j]>>

\* A claim that passes the replay test starts the handler, which reads the
\* episode.  Taking a row from a live worker needs its lease to have lapsed.
begin(r, j) ==
    /\ run[r] = Idle
    /\ Owed(j)
    /\ IF jstate[j] = "running" /\ Held(j)
       THEN lapses < MaxLapses /\ lapses' = lapses + 1
       ELSE UNCHANGED lapses
    /\ jstate' = [jstate EXCEPT ![j] = "running"]
    /\ tries' = [tries EXCEPT ![j] = @ + 1]
    /\ run' = [run EXCEPT ![r] =
                [phase |-> Reads(j), job |-> j, att |-> tries[j] + 1,
                 saw |-> segments, done |-> 0, reports |-> FALSE]]
    /\ UNCHANGED <<episode, store, queue, crashes>>

\* The worker dies: its transaction is rolled back, its uploads are not.
Crash(r) ==
    /\ Live(r) /\ crashes < MaxCrashes
    /\ crashes' = crashes + 1
    /\ Return(r)
    /\ UNCHANGED <<episode, store, jobs, lapses>>

\* _execute's failure arms: a retry hands the row back; giving up marks the
\* episode.  A row another execution has fenced is never run again.
GiveUp(r, permanent) ==
    LET j == run[r].job IN
    /\ IF ~permanent /\ run[r].att < MaxAttempts
       THEN /\ jstate' = [jstate EXCEPT ![j] = IF @ = "landed" THEN @ ELSE "ready"]
            /\ UNCHANGED state
       ELSE /\ jstate' = [jstate EXCEPT ![j] = IF @ = "landed" THEN @ ELSE "failed"]
            /\ episode_failed
    /\ Return(r)
    /\ UNCHANGED <<segments, audio, rendered, store, queue, tries, faults>>

\* A handler that raises: a vendor error, a lost race on a UNIQUE index, or a
\* condition no retry will change.
Raise(r, permanent) ==
    /\ run[r].phase \in {"working", "opening", "rendering", "uploaded"}
    /\ GiveUp(r, permanent)

\* "episode has no segments", "segment has no text to speak".
Doomed(r) ==
    /\ \/ run[r].phase = "doomed"
       \/ run[r].phase = "rendering" /\ ~HasText(run[r].saw)
    /\ GiveUp(r, TRUE)

\* The handler found its stage already done and returned; the work fence is
\* written all the same.
NoOp(r) ==
    /\ run[r].phase = "noop"
    /\ Land(run[r].job)
    /\ Return(r)
    /\ UNCHANGED <<episode, store, faults>>

(***************************************************************************)
(* The stages                                                              *)
(***************************************************************************)

\* handle_assemble: some stories are chosen, and the script job is queued in
\* the same transaction.
handle_assemble(r) ==
    /\ run[r].phase = "working" /\ queue[run[r].job] = "assemble"
    /\ \E n \in 1..MaxSegments : replace_segments(r, n)
    /\ state' = "scripting"
    /\ EnqueueAnd("script", {run[r].job})
    /\ Return(r)
    /\ UNCHANGED <<audio, rendered, store, faults>>

handle_script_without_enqueue(r) ==
    /\ run[r].phase = "working" /\ queue[run[r].job] = "script"
    /\ \E n \in 1..run[r].saw.len : replace_segments(r, n)
    /\ state' = "rendering"
    /\ Land(run[r].job)
    /\ Return(r)
    /\ UNCHANGED <<audio, rendered, store, faults>>

\* handle_script: the segments assemble chose are rewritten as copy - fewer of
\* them if stories have gone or _within_cap trims the tail.
handle_script(r) ==
    /\ run[r].phase = "working" /\ queue[run[r].job] = "script"
    /\ \E n \in 1..run[r].saw.len : replace_segments(r, n)
    /\ state' = "rendering"
    /\ EnqueueAnd("tts", {run[r].job})
    /\ Return(r)
    /\ UNCHANGED <<audio, rendered, store, faults>>

report_open_where_it_was(r) ==
    /\ run[r].phase = "opening"
    /\ run' = [run EXCEPT ![r] = [@ EXCEPT !.phase = "rendering", !.reports = TRUE]]
    /\ UNCHANGED <<episode, store, jobs, faults>>

\* handle_tts opens the reporter with report(0); a first failure silences it
\* for the rest of the render.
report_open(r) ==
    /\ run[r].phase = "opening"
    /\ \E heard \in BOOLEAN :
        /\ IF heard THEN record_rendered_segments(0) ELSE UNCHANGED rendered
        /\ run' = [run EXCEPT ![r] =
                    [run[r] EXCEPT !.phase = "rendering", !.reports = heard]]
    /\ UNCHANGED <<state, segments, audio, store, jobs, faults>>

synthesize_one_too_many(r) ==
    /\ run[r].phase = "rendering" /\ run[r].done <= run[r].saw.len
    /\ HasText(run[r].saw)
    /\ record_rendered_segments(run[r].done + 1)
    /\ run' = [run EXCEPT ![r].done = @ + 1]
    /\ UNCHANGED <<state, segments, audio, store, jobs, faults>>

\* One segment synthesized, and reported.
synthesize(r) ==
    /\ run[r].phase = "rendering" /\ run[r].done < run[r].saw.len
    /\ HasText(run[r].saw)
    /\ \E heard \in IF run[r].reports THEN BOOLEAN ELSE {FALSE} :
        /\ IF heard THEN record_rendered_segments(run[r].done + 1)
           ELSE UNCHANGED rendered
        /\ run' = [run EXCEPT ![r] =
                    [run[r] EXCEPT !.done = run[r].done + 1, !.reports = heard]]
    /\ UNCHANGED <<state, segments, audio, store, jobs, faults>>

\* context.store.put, at a key that depends on the episode alone.
put(r) ==
    /\ run[r].phase = "rendering" /\ run[r].done = run[r].saw.len
    /\ store' = [claim |-> ClaimOf(r), draft |-> run[r].saw.draft]
    /\ run' = [run EXCEPT ![r].phase = "uploaded"]
    /\ UNCHANGED <<episode, jobs, faults>>

publish_episode_untimed(r) ==
    /\ run[r].phase = "uploaded" /\ DurationsFit(r)
    /\ audio' = [claim |-> ClaimOf(r), draft |-> run[r].saw.draft]
    /\ state' = "ready"
    /\ Land(run[r].job)
    /\ Return(r)
    /\ UNCHANGED <<segments, rendered, store, faults>>
publish_episode_before_put(r) ==
    /\ run[r].phase = "rendering" /\ DurationsFit(r)
    /\ segments' = [segments EXCEPT !.timing = ClaimOf(r)]
    /\ audio' = [claim |-> ClaimOf(r), draft |-> run[r].saw.draft]
    /\ state' = "ready"
    /\ Land(run[r].job)
    /\ Return(r)
    /\ UNCHANGED <<rendered, store, faults>>

\* set_segment_durations, set_claim_timings and publish_episode commit.
publish_episode(r) ==
    /\ run[r].phase = "uploaded" /\ DurationsFit(r)
    /\ segments' = [segments EXCEPT !.timing = ClaimOf(r)]
    /\ audio' = [claim |-> ClaimOf(r), draft |-> run[r].saw.draft]
    /\ state' = "ready"
    /\ Land(run[r].job)
    /\ Return(r)
    /\ UNCHANGED <<rendered, store, faults>>

\* set_segment_durations raises ValueError: another execution has rewritten
\* the segments to a different number.
DurationsMismatch(r) ==
    /\ run[r].phase = "uploaded" /\ ~DurationsFit(r)
    /\ GiveUp(r, FALSE)

-----------------------------------------------------------------------------

Proceed(r) ==
    \/ NoOp(r) \/ Doomed(r)
    \/ Raise(r, TRUE) \/ Raise(r, FALSE)
    \/ handle_assemble(r) \/ handle_script(r)
    \/ report_open(r) \/ synthesize(r) \/ put(r)
    \/ publish_episode(r) \/ DurationsMismatch(r)

Next ==
    \/ enqueue_episode
    \/ \E r \in Runs, j \in JobIds : begin(r, j)
    \/ \E r \in Runs : Proceed(r) \/ Crash(r)

Spec == Init /\ [][Next]_vars

(***************************************************************************)
(* Fairness: a handler that is running returns or raises, and a row that   *)
(* is due keeps being claimed (JobQueue!EventuallySettled's assumptions).  *)
(***************************************************************************)
Fairness ==
    /\ \A r \in Runs : WF_vars(Proceed(r))
    /\ \A j \in JobIds : WF_vars(~Held(j) /\ \E r \in Runs : begin(r, j))

FairSpec == Spec /\ Fairness

(***************************************************************************)
(* Properties                                                              *)
(***************************************************************************)

(* What the episode screen shows of a published episode is the draft that   *)
(* is spoken, timed to the take that speaks it - as long as no lease        *)
(* lapsed.  handle_tts reads its copy minutes before it publishes, so this  *)
(* is about everything that can write segments in between.                  *)
SpokenIsShown ==
    state = "ready" => /\ segments.draft = audio.draft
                       /\ segments.timing = audio.claim
SpokenIsShownUnlessLapsed == lapses = 0 => SpokenIsShown

(* Whatever lapses, crashes and retries did, an episode in the feed has an  *)
(* audio object, and segments to show for it.                               *)
FeedHasAudio ==
    state = "ready" => /\ audio # NoTake /\ store # NoTake
                       /\ segments.len > 0

(* An episode that is not settled has a job on its way that will move it:   *)
(* no interleaving of guards that return quietly strands it in a building   *)
(* state with nothing queued.                                               *)
NeverStranded ==
    /\ state = "pending"   => \E j \in JobIds : queue[j] = "assemble" /\ Owed(j)
    /\ state = "scripting" => \E j \in JobIds : queue[j] = "script" /\ Owed(j)
    /\ state = "rendering" => \E j \in JobIds : queue[j] = "tts" /\ Owed(j)

(* One job per stage: without a lapse the pipeline never pays for a second  *)
(* script or a second render of the same episode.                           *)
OneJobPerStage ==
    lapses = 0 => \A q \in Stages : Cardinality({j \in JobIds : queue[j] = q}) <= 1

(* The count the progress screen shows is the count of the render that is   *)
(* running, never a predecessor's, while its reporter works.                *)
ProgressIsThisRender ==
    \A r \in Runs :
        lapses = 0 /\ run[r].phase = "rendering" /\ run[r].reports
            => rendered = run[r].done

(* A settled episode stays settled: nothing a crashed or retried stage left *)
(* behind takes it out of the feed, or un-fails it.                         *)
SettledIsFinal ==
    [][lapses' = 0 /\ state \in Settled => state' = state]_vars

(* Every episode that is asked for ends up published or failed, for good.   *)
EventuallyBuilt == state # "absent" ~> [](state \in Settled)

=============================================================================

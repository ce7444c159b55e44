----------------------- MODULE EpisodePipelineProofs -----------------------
(***************************************************************************)
(* Proofs about EpisodePipeline, for any number of executions, segments,   *)
(* attempts, lapses and crashes.                                           *)
(***************************************************************************)
EXTENDS EpisodePipeline, FiniteSetTheorems, TLAPS

USE PipelineAssumption DEF JobIds

\* What a handler decides when it starts is one of the phases.
LEMMA ReadsPhase == ASSUME NEW j \in JobIds PROVE Reads(j) \in Phases \ {"idle"}
BY DEF Reads, assemble_reads, script_reads, tts_reads, Phases

\* The constant records have their types.
LEMMA RecordsTyped ==
    /\ NoSegments \in Segments /\ NoTake \in Takes
    /\ Idle \in Executions /\ Idle.phase = "idle" /\ Idle.job = None
BY DEF NoSegments, Segments, NoTake, Takes, Idle, Executions, Phases, Claims

\* What the type invariant says of one execution.
LEMMA ExecutionTyped ==
    ASSUME TypeOK, NEW r \in Runs
    PROVE  /\ run[r].saw \in Segments /\ run[r].saw.len \in 0..MaxSegments
           /\ run[r].saw.draft \in Claims \cup {None}
           /\ run[r].done \in 0..MaxSegments /\ run[r].att \in Nat
           /\ run[r].phase \in Phases
           /\ run[r].phase # "idle" => ClaimOf(r) \in Claims
BY DEF TypeOK, Executions, Segments, ClaimOf, Claims

\* Every action keeps every variable in its type.
LEMMA TypeStep == TypeOK /\ [Next]_vars => TypeOK'
<1> SUFFICES ASSUME TypeOK, [Next]_vars PROVE TypeOK'
  OBVIOUS
<1> USE RecordsTyped DEF TypeOK, Stages, Settled
<1>1. ASSUME enqueue_episode PROVE TypeOK'
  BY <1>1 DEF enqueue_episode, EnqueueAnd, episode, jobs, faults
<1>2. ASSUME NEW r \in Runs, NEW j \in JobIds, begin(r, j) PROVE TypeOK'
  <2>1. Reads(j) \in Phases
    BY ReadsPhase
  <2>2. [phase |-> Reads(j), job |-> j, att |-> tries[j] + 1, saw |-> segments,
         done |-> 0, reports |-> FALSE] \in Executions
    BY <2>1 DEF Executions
  <2> QED
    BY <1>2, <2>1, <2>2, ReadsPhase DEF begin, episode
<1>3. ASSUME NEW r \in Runs, Crash(r) PROVE TypeOK'
  BY <1>3 DEF Crash, Return, Live, episode, jobs, faults
<1>4. ASSUME NEW r \in Runs, NoOp(r) PROVE TypeOK'
  BY <1>4 DEF NoOp, Land, Return, episode, jobs, faults
<1>5. ASSUME NEW r \in Runs, Doomed(r) PROVE TypeOK'
  BY <1>5 DEF Doomed, GiveUp, episode_failed, Return, episode, jobs, faults
<1>6. ASSUME NEW r \in Runs, NEW p \in BOOLEAN, Raise(r, p) PROVE TypeOK'
  BY <1>6 DEF Raise, GiveUp, episode_failed, Return, episode, jobs, faults
<1>7. ASSUME NEW r \in Runs, handle_assemble(r) PROVE TypeOK'
  <2>1. ClaimOf(r) \in Claims /\ run[r].saw.len \in 0..MaxSegments
    BY <1>7, ExecutionTyped DEF handle_assemble
  <2>2. segments' \in Segments
    BY <1>7, <2>1 DEF handle_assemble, replace_segments, Segments
  <2> QED
    BY <1>7, <2>2, SMTT(20) DEF handle_assemble, EnqueueAnd, Return, faults
<1>8. ASSUME NEW r \in Runs, handle_script(r) PROVE TypeOK'
  <2>1. ClaimOf(r) \in Claims /\ run[r].saw.len \in 0..MaxSegments
    BY <1>8, ExecutionTyped DEF handle_script
  <2>2. segments' \in Segments
    BY <1>8, <2>1 DEF handle_script, replace_segments, Segments
  <2> QED
    BY <1>8, <2>2, SMTT(20) DEF handle_script, EnqueueAnd, Return, faults
<1>9. ASSUME NEW r \in Runs, report_open(r) PROVE TypeOK'
  <2>1. run[r] \in Executions /\ run[r].phase = "opening"
    BY <1>9 DEF report_open
  <2>2. PICK heard \in BOOLEAN : run' = [run EXCEPT ![r] =
                   [run[r] EXCEPT !.phase = "rendering", !.reports = heard]]
    BY <1>9 DEF report_open
  <2> DEFINE now == [run[r] EXCEPT !.phase = "rendering", !.reports = heard]
  <2>3. now \in Executions /\ now.job = run[r].job
    BY <2>1 DEF Executions, Phases
  <2> HIDE DEF now
  <2>4. run' \in [Runs -> Executions] /\ \A s \in Runs : run'[s].job = run[s].job
    BY <2>2, <2>3 DEF now
  <2>5. \A s \in Runs : run'[s].phase # "idle" => run[s].phase # "idle"
    BY <2>1, <2>2
  <2>6. /\ rendered' \in 0..MaxSegments
        /\ UNCHANGED <<state, segments, audio, store, jobs, faults>>
    BY <1>9 DEF report_open, record_rendered_segments
  <2> QED
    BY <2>4, <2>5, <2>6 DEF jobs, faults
<1>10. ASSUME NEW r \in Runs, synthesize(r) PROVE TypeOK'
  <2>1. run[r].done + 1 \in 0..MaxSegments
    BY <1>10, ExecutionTyped DEF synthesize
  <2>2. run[r] \in Executions /\ run[r].phase = "rendering"
    BY <1>10 DEF synthesize
  <2>3. PICK heard \in BOOLEAN : run' = [run EXCEPT ![r] =
                   [run[r] EXCEPT !.done = run[r].done + 1, !.reports = heard]]
    BY <1>10 DEF synthesize
  <2> DEFINE now == [run[r] EXCEPT !.done = run[r].done + 1, !.reports = heard]
  <2>4. now \in Executions /\ now.job = run[r].job
    BY <2>1, <2>2 DEF Executions, Phases
  <2> HIDE DEF now
  <2>5. run' \in [Runs -> Executions] /\ \A s \in Runs : run'[s].job = run[s].job
    BY <2>3, <2>4 DEF now
  <2>6. \A s \in Runs : run'[s].phase # "idle" => run[s].phase # "idle"
    BY <2>2, <2>3
  <2>7. /\ rendered' \in 0..MaxSegments
        /\ UNCHANGED <<state, segments, audio, store, jobs, faults>>
    BY <1>10, <2>1 DEF synthesize, record_rendered_segments
  <2> QED
    BY <2>5, <2>6, <2>7 DEF jobs, faults
<1>11. ASSUME NEW r \in Runs, put(r) PROVE TypeOK'
  <2> DEFINE now == [run[r] EXCEPT !.phase = "uploaded"]
  <2>1. run[r] \in Executions /\ run[r].phase = "rendering" /\ run' = [run EXCEPT ![r] = now]
    BY <1>11 DEF put
  <2>2. now \in Executions /\ now.job = run[r].job
    BY <2>1 DEF Executions, Phases
  <2> HIDE DEF now
  <2>3. /\ run' \in [Runs -> Executions]
        /\ \A s \in Runs : run'[s].phase # "idle" => run[s].phase # "idle"
        /\ \A s \in Runs : run'[s].job = run[s].job
    BY <2>1, <2>2
  <2>4. store' \in Takes
    BY <1>11, ExecutionTyped DEF put, Takes
  <2>5. UNCHANGED <<state, segments, rendered, audio, jobs, faults>>
    BY <1>11 DEF put, episode
  <2> QED
    BY <2>3, <2>4, <2>5 DEF jobs, faults
<1>12. ASSUME NEW r \in Runs, publish_episode(r) PROVE TypeOK'
  <2>1. ClaimOf(r) \in Claims /\ run[r].saw.draft \in Claims \cup {None}
    BY <1>12, ExecutionTyped DEF publish_episode
  <2>2. segments' \in Segments
    BY <1>12, <2>1 DEF publish_episode, Segments
  <2>3. audio' \in Takes
    BY <1>12, <2>1 DEF publish_episode, Takes
  <2> QED
    BY <1>12, <2>2, <2>3 DEF publish_episode, Land, Return, faults
<1>13. ASSUME NEW r \in Runs, DurationsMismatch(r) PROVE TypeOK'
  BY <1>13 DEF DurationsMismatch, GiveUp, episode_failed, Return, episode, jobs, faults
<1>14. CASE UNCHANGED vars
  BY <1>14 DEF vars, episode, jobs, faults
<1> QED
  BY <1>1, <1>2, <1>3, <1>4, <1>5, <1>6, <1>7, <1>8,
     <1>9, <1>10, <1>11, <1>12, <1>13, <1>14
     DEF Next, Proceed

\* TypeOK is an invariant of the pipeline.
THEOREM TypeCorrect == Spec => []TypeOK
<1>1. Init => TypeOK
  BY RecordsTyped DEF Init, TypeOK, Stages, Settled
<1> QED
  BY <1>1, TypeStep, PTL DEF Spec

-----------------------------------------------------------------------------
(***************************************************************************)
(* No episode is stranded.  The job that will move an episode on is the    *)
(* one its last transition queued, and the strengthening is that no        *)
(* execution of it can have decided to return quietly: every execution     *)
(* that could have seen the stage as done belongs to an older row.         *)
(***************************************************************************)
WillMove(q) ==
    \E j \in JobIds :
        /\ queue[j] = q /\ jstate[j] \in {"ready", "running"}
        /\ \A r \in Runs : run[r].job = j => run[r].phase # "noop"

RowsExist ==
    /\ \A j \in JobIds : jstate[j] = "absent" => queue[j] = None
    /\ \A r \in Runs : run[r].phase # "idle" => jstate[run[r].job] # "absent"
    /\ \A r \in Runs : run[r].phase = "idle" => run[r].job = None

Moving ==
    /\ state = "pending"   => WillMove("assemble")
    /\ state = "scripting" => WillMove("script")
    /\ state = "rendering" => WillMove("tts")

MoveInv == TypeOK /\ RowsExist /\ Moving

\* What an execution's record may do while it renders.
LEMMA RenderStep ==
    ASSUME TypeOK, NEW r \in Runs, report_open(r) \/ synthesize(r) \/ put(r)
    PROVE  /\ UNCHANGED <<state, segments, audio, queue, jstate>>
           /\ run[r].phase \in {"opening", "rendering"}
           /\ \A s \in Runs \ {r} : run'[s] = run[s]
           /\ run'[r].job = run[r].job /\ run'[r].saw = run[r].saw
           /\ run'[r].phase = IF put(r) THEN "uploaded" ELSE "rendering"
<1> run \in [Runs -> Executions]
  BY DEF TypeOK
<1>1. CASE report_open(r) /\ ~put(r)
  <2>1. PICK heard \in BOOLEAN : run' = [run EXCEPT ![r] =
                   [run[r] EXCEPT !.phase = "rendering", !.reports = heard]]
    BY <1>1 DEF report_open
  <2>2. run[r].phase = "opening" /\ UNCHANGED <<state, segments, audio, queue, jstate>>
    BY <1>1 DEF report_open, jobs
  <2> QED
    BY <1>1, <2>1, <2>2 DEF Executions
<1>2. CASE synthesize(r) /\ ~put(r)
  <2>1. PICK heard : run' = [run EXCEPT ![r] =
                   [run[r] EXCEPT !.done = run[r].done + 1, !.reports = heard]]
    BY <1>2 DEF synthesize
  <2>2. run[r].phase = "rendering" /\ UNCHANGED <<state, segments, audio, queue, jstate>>
    BY <1>2 DEF synthesize, jobs
  <2> QED
    BY <1>2, <2>1, <2>2 DEF Executions
<1>3. CASE put(r)
  BY <1>3 DEF put, Executions, episode, jobs
<1> QED
  BY <1>1, <1>2, <1>3

\* A row that is queued now was not there before, so no execution is of it.
LEMMA EnqueueStep ==
    ASSUME TypeOK, RowsExist, NEW q \in Stages, NEW landing \in SUBSET JobIds,
           EnqueueAnd(q, landing), \A i \in landing : jstate[i] # "absent",
           \A r \in Runs : run'[r] = run[r] \/ run'[r] = Idle
    PROVE  RowsExist' /\ WillMove(q)'
<1> USE RecordsTyped
<1>1. PICK j \in JobIds :
        /\ jstate[j] = "absent"
        /\ queue' = [queue EXCEPT ![j] = q]
        /\ jstate' = [i \in JobIds |->
                        CASE i = j -> "ready"
                          [] i \in landing /\ i # j -> "landed"
                          [] OTHER -> jstate[i]]
  BY DEF EnqueueAnd
<1>2. queue'[j] = q /\ jstate'[j] = "ready"
  BY <1>1 DEF TypeOK
<1>3. \A i \in JobIds : jstate'[i] = "absent" => jstate[i] = "absent" /\ i # j
  BY <1>1
<1>4. \A r \in Runs : run'[r].job # j
  <2> SUFFICES ASSUME NEW r \in Runs, run'[r] = run[r] PROVE run[r].job # j
    BY <1>1, PipelineAssumption
  <2>1. CASE run[r].phase = "idle"
    BY <2>1, PipelineAssumption DEF RowsExist
  <2>2. CASE run[r].phase # "idle"
    BY <1>1, <2>2 DEF RowsExist
  <2> QED
    BY <2>1, <2>2
<1>5. WillMove(q)'
  BY <1>2, <1>4 DEF WillMove
<1>6. RowsExist'
  BY <1>1, <1>3 DEF RowsExist, TypeOK
<1> QED
  BY <1>5, <1>6

\* An execution that ends without settling its episode leaves alone every row
\* that was going to move the episode, if it was not about to return quietly.
LEMMA RowStep ==
    ASSUME TypeOK, RowsExist, NEW r \in Runs, run[r].phase # "idle",
           UNCHANGED queue, run' = [run EXCEPT ![r] = Idle],
           NEW s \in {"ready", "landed", "failed"},
           jstate' = [jstate EXCEPT ![run[r].job] = s] \/ UNCHANGED jstate
    PROVE  /\ RowsExist'
           /\ s = "ready" \/ run[r].phase = "noop" \/ UNCHANGED jstate =>
                \A q \in Stages : WillMove(q) => WillMove(q)'
<1> USE RecordsTyped DEF TypeOK
<1>1. RowsExist'
  BY DEF RowsExist
<1>2. ASSUME NEW q \in Stages, WillMove(q),
             s = "ready" \/ run[r].phase = "noop" \/ UNCHANGED jstate
      PROVE  WillMove(q)'
  <2>1. PICK j \in JobIds : /\ queue[j] = q /\ jstate[j] \in {"ready", "running"}
                            /\ \A t \in Runs : run[t].job = j => run[t].phase # "noop"
    BY <1>2 DEF WillMove
  <2>2. jstate'[j] \in {"ready", "running"}
    BY <1>2, <2>1
  <2>3. \A t \in Runs : run'[t].job = j => run'[t].phase # "noop"
    BY <2>1
  <2> QED
    BY <2>1, <2>2, <2>3 DEF WillMove
<1> QED
  BY <1>1, <1>2

\* A failed execution settles its episode or hands its row back.
LEMMA GiveUpStep ==
    ASSUME MoveInv, NEW r \in Runs, NEW p \in BOOLEAN, run[r].phase # "idle",
           run[r].phase # "noop", GiveUp(r, p)
    PROVE  RowsExist' /\ Moving'
<1> DEFINE j == run[r].job
<1>1. j \in JobIds /\ jstate[j] # "absent" /\ TypeOK /\ RowsExist /\ Moving
  BY DEF MoveInv, TypeOK, RowsExist
<1>2. run' = [run EXCEPT ![r] = Idle] /\ UNCHANGED queue
  BY DEF GiveUp, Return
<1>3. CASE ~p /\ run[r].att < MaxAttempts
  <2>1. jstate' = [jstate EXCEPT ![j] = "ready"] \/ UNCHANGED jstate
    BY <1>1, <1>3 DEF GiveUp, TypeOK
  <2>2. UNCHANGED state
    BY <1>3 DEF GiveUp
  <2>3. RowsExist' /\ \A q \in Stages : WillMove(q) => WillMove(q)'
    BY <1>1, <1>2, <2>1, RowStep
  <2> QED
    BY <1>1, <2>2, <2>3 DEF Moving, Stages
<1>4. CASE ~(~p /\ run[r].att < MaxAttempts)
  <2>1. jstate' = [jstate EXCEPT ![j] = "failed"] \/ UNCHANGED jstate
    BY <1>1, <1>4 DEF GiveUp, TypeOK
  <2>2. state' = "failed"
    BY <1>4 DEF GiveUp, episode_failed
  <2>3. RowsExist'
    BY <1>1, <1>2, <2>1, RowStep
  <2> QED
    BY <2>2, <2>3 DEF Moving
<1> QED
  BY <1>3, <1>4

\* Every action keeps a job on its way for an episode that is not settled.
LEMMA MoveStep == MoveInv /\ [Next]_vars => MoveInv'
<1> SUFFICES ASSUME MoveInv, [Next]_vars PROVE (RowsExist /\ Moving)'
  BY TypeStep DEF MoveInv
<1>a. TypeOK /\ RowsExist /\ Moving
  BY DEF MoveInv
<1>b. ASSUME NEW r \in Runs, run[r].phase # "idle"
      PROVE  run[r].job \in JobIds /\ jstate[run[r].job] # "absent"
  BY <1>a, <1>b DEF TypeOK, RowsExist
<1>1. ASSUME enqueue_episode PROVE (RowsExist /\ Moving)'
  <2>1. RowsExist' /\ WillMove("assemble")'
    BY <1>1, <1>a, EnqueueStep DEF enqueue_episode, Stages
  <2> QED
    BY <1>1, <2>1 DEF enqueue_episode, Moving
<1>2. ASSUME NEW r \in Runs, NEW j \in JobIds, begin(r, j) PROVE (RowsExist /\ Moving)'
  <2>1. /\ UNCHANGED <<state, queue>> /\ jstate[j] \in {"ready", "running"}
        /\ jstate' = [jstate EXCEPT ![j] = "running"]
        /\ \A s \in Runs \ {r} : run'[s] = run[s]
        /\ run'[r].job = j /\ run'[r].phase = Reads(j)
    BY <1>2, <1>a DEF begin, Owed, episode, TypeOK
  <2>2. RowsExist'
    <3>1. run'[r].phase # "idle" /\ jstate'[j] = "running"
      BY <2>1, <1>a, ReadsPhase DEF TypeOK
    <3>2. \A i \in JobIds : jstate'[i] = "absent" <=> jstate[i] = "absent"
      BY <2>1, <1>a DEF TypeOK
    <3> QED
      BY <2>1, <3>1, <3>2, <1>a, SMTT(20) DEF RowsExist, TypeOK
  <2>3. ASSUME NEW q \in Stages, WillMove(q), queue[j] = q => Reads(j) # "noop"
        PROVE  WillMove(q)'
    <3>1. PICK i \in JobIds : /\ queue[i] = q /\ jstate[i] \in {"ready", "running"}
                              /\ \A t \in Runs : run[t].job = i => run[t].phase # "noop"
      BY <2>3 DEF WillMove
    <3>2. jstate'[i] \in {"ready", "running"}
      BY <2>1, <3>1, <1>a DEF TypeOK
    <3>3. \A t \in Runs : run'[t].job = i => run'[t].phase # "noop"
      BY <2>1, <2>3, <3>1
    <3> QED
      BY <2>1, <3>1, <3>2, <3>3 DEF WillMove
  <2>4. /\ state = "pending"   /\ queue[j] = "assemble" => Reads(j) # "noop"
        /\ state = "scripting" /\ queue[j] = "script"   => Reads(j) # "noop"
        /\ state = "rendering" /\ queue[j] = "tts"      => Reads(j) # "noop"
    BY DEF Reads, assemble_reads, script_reads, tts_reads, SCRIPTED_STATES
  <2> QED
    BY <2>1, <2>2, <2>3, <2>4, <1>a DEF Moving, Stages
<1>3. ASSUME NEW r \in Runs, Crash(r) PROVE (RowsExist /\ Moving)'
  <2>1. RowsExist' /\ \A q \in Stages : WillMove(q) => WillMove(q)'
    BY <1>3, <1>a, RowStep DEF Crash, Return, Live, jobs
  <2> QED
    BY <1>3, <2>1, <1>a DEF Crash, episode, Moving, Stages
<1>4. ASSUME NEW r \in Runs, NoOp(r) PROVE (RowsExist /\ Moving)'
  <2>1. RowsExist' /\ \A q \in Stages : WillMove(q) => WillMove(q)'
    BY <1>4, <1>a, RowStep DEF NoOp, Land, Return
  <2> QED
    BY <1>4, <2>1, <1>a DEF NoOp, episode, Moving, Stages
<1>5. ASSUME NEW r \in Runs, Doomed(r) PROVE (RowsExist /\ Moving)'
  BY <1>5, GiveUpStep DEF Doomed
<1>6. ASSUME NEW r \in Runs, NEW p \in BOOLEAN, Raise(r, p) PROVE (RowsExist /\ Moving)'
  BY <1>6, GiveUpStep DEF Raise
<1>7. ASSUME NEW r \in Runs, handle_assemble(r) PROVE (RowsExist /\ Moving)'
  <2>1. /\ EnqueueAnd("script", {run[r].job}) /\ run[r].phase # "idle"
        /\ \A s \in Runs : run'[s] = run[s] \/ run'[s] = Idle
    BY <1>7, <1>a DEF handle_assemble, Return, TypeOK
  <2>2. RowsExist' /\ WillMove("script")'
    BY <2>1, <1>a, <1>b, EnqueueStep DEF Stages
  <2> QED
    BY <1>7, <2>2 DEF handle_assemble, Moving
<1>8. ASSUME NEW r \in Runs, handle_script(r) PROVE (RowsExist /\ Moving)'
  <2>1. /\ EnqueueAnd("tts", {run[r].job}) /\ run[r].phase # "idle"
        /\ \A s \in Runs : run'[s] = run[s] \/ run'[s] = Idle
    BY <1>8, <1>a DEF handle_script, Return, TypeOK
  <2>2. RowsExist' /\ WillMove("tts")'
    BY <2>1, <1>a, <1>b, EnqueueStep DEF Stages
  <2> QED
    BY <1>8, <2>2 DEF handle_script, Moving
<1>9. ASSUME NEW r \in Runs, report_open(r) \/ synthesize(r) \/ put(r)
      PROVE (RowsExist /\ Moving)'
  BY <1>9, <1>a, RenderStep DEF RowsExist, Moving, WillMove
<1>10. ASSUME NEW r \in Runs, publish_episode(r) PROVE (RowsExist /\ Moving)'
  <2>1. RowsExist'
    BY <1>10, <1>a, RowStep DEF publish_episode, Land, Return
  <2> QED
    BY <1>10, <2>1 DEF publish_episode, Moving
<1>11. ASSUME NEW r \in Runs, DurationsMismatch(r) PROVE (RowsExist /\ Moving)'
  BY <1>11, GiveUpStep DEF DurationsMismatch
<1>12. CASE UNCHANGED vars
  BY <1>12, <1>a DEF vars, episode, jobs, RowsExist, Moving, WillMove
<1> QED
  BY <1>1, <1>2, <1>3, <1>4, <1>5, <1>6, <1>7, <1>8, <1>9, <1>10, <1>11, <1>12
     DEF Next, Proceed

\* However stages are retried, reclaimed or run twice, an episode that is not
\* settled always has a job queued or running that will move it.
THEOREM NeverStrandedHolds == Spec => []NeverStranded
<1>1. Init => MoveInv
  <2> SUFFICES ASSUME Init PROVE RowsExist /\ Moving
    BY RecordsTyped DEF MoveInv, Init, TypeOK, Stages, Settled
  <2> QED
    BY RecordsTyped DEF Init, RowsExist, Moving
<1>2. MoveInv => NeverStranded
  BY DEF MoveInv, Moving, WillMove, NeverStranded, Owed
<1> QED
  BY <1>1, <1>2, MoveStep, PTL DEF Spec

-----------------------------------------------------------------------------
(***************************************************************************)
(* What is in the feed can be played.  A render never starts on an episode *)
(* without segments, and an object once uploaded is only ever replaced.    *)
(***************************************************************************)
RendersSomething ==
    \A r \in Runs :
        /\ run[r].phase \in {"opening", "rendering", "uploaded"} => run[r].saw.len > 0
        /\ run[r].phase = "uploaded" => store # NoTake

FeedInv == TypeOK /\ FeedHasAudio /\ RendersSomething

\* Every action keeps the feed playable.
LEMMA FeedStep == FeedInv /\ [Next]_vars => FeedInv'
<1> SUFFICES ASSUME FeedInv, [Next]_vars PROVE (FeedHasAudio /\ RendersSomething)'
  BY TypeStep DEF FeedInv
<1>a. TypeOK /\ FeedHasAudio /\ RendersSomething
  BY DEF FeedInv
<1>b. ASSUME NEW r \in Runs, run' = [run EXCEPT ![r] = Idle], UNCHANGED store
      PROVE  RendersSomething'
  BY <1>a, <1>b, RecordsTyped DEF RendersSomething, TypeOK
<1>c. ASSUME NEW r \in Runs, NEW p \in BOOLEAN, GiveUp(r, p)
      PROVE  (FeedHasAudio /\ RendersSomething)'
  <2>1. RendersSomething'
    BY <1>b, <1>c DEF GiveUp, Return
  <2> QED
    BY <1>a, <1>c, <2>1 DEF GiveUp, episode_failed, FeedHasAudio
<1>1. ASSUME enqueue_episode PROVE (FeedHasAudio /\ RendersSomething)'
  BY <1>1, <1>a DEF enqueue_episode, FeedHasAudio, RendersSomething
<1>2. ASSUME NEW r \in Runs, NEW j \in JobIds, begin(r, j)
      PROVE (FeedHasAudio /\ RendersSomething)'
  <2>1. /\ UNCHANGED <<state, segments, audio, store>>
        /\ \A s \in Runs \ {r} : run'[s] = run[s]
        /\ run'[r].phase = Reads(j) /\ run'[r].saw = segments
    BY <1>2, <1>a DEF begin, episode, TypeOK
  <2>2. Reads(j) # "uploaded" /\ Reads(j) # "rendering"
    BY DEF Reads, assemble_reads, script_reads, tts_reads
  <2>3. segments.len \in Nat
    BY <1>a DEF TypeOK, Segments
  <2>4. Reads(j) = "opening" => segments.len # 0
    BY DEF Reads, assemble_reads, script_reads, tts_reads
  <2> QED
    BY <2>1, <2>2, <2>3, <2>4, <1>a DEF FeedHasAudio, RendersSomething
<1>3. ASSUME NEW r \in Runs, Crash(r) PROVE (FeedHasAudio /\ RendersSomething)'
  BY <1>3, <1>a, <1>b DEF Crash, Return, episode, FeedHasAudio
<1>4. ASSUME NEW r \in Runs, NoOp(r) PROVE (FeedHasAudio /\ RendersSomething)'
  BY <1>4, <1>a, <1>b DEF NoOp, Return, episode, FeedHasAudio
<1>5. ASSUME NEW r \in Runs, Doomed(r) PROVE (FeedHasAudio /\ RendersSomething)'
  BY <1>5, <1>c DEF Doomed
<1>6. ASSUME NEW r \in Runs, NEW p \in BOOLEAN, Raise(r, p)
      PROVE (FeedHasAudio /\ RendersSomething)'
  BY <1>6, <1>c DEF Raise
<1>7. ASSUME NEW r \in Runs, handle_assemble(r) \/ handle_script(r)
      PROVE (FeedHasAudio /\ RendersSomething)'
  BY <1>7, <1>b DEF handle_assemble, handle_script, Return, FeedHasAudio
<1>8. ASSUME NEW r \in Runs, report_open(r) \/ synthesize(r)
      PROVE (FeedHasAudio /\ RendersSomething)'
  <2>1. UNCHANGED store
    BY <1>8 DEF report_open, synthesize
  <2>2. run[r].done \in Nat /\ run[r].saw.len \in Nat
    BY <1>a, ExecutionTyped
  <2>3. run[r].phase = "opening" \/ run[r].done < run[r].saw.len
    BY <1>8 DEF report_open, synthesize
  <2>4. put(r) => run[r].phase = "rendering" /\ run[r].done = run[r].saw.len
    BY DEF put
  <2>5. ~put(r)
    BY <2>2, <2>3, <2>4
  <2> QED
    BY <1>8, <1>a, <2>1, <2>5, RenderStep DEF FeedHasAudio, RendersSomething
<1>9. ASSUME NEW r \in Runs, put(r) PROVE (FeedHasAudio /\ RendersSomething)'
  <2>1. ClaimOf(r) \in Claims
    BY <1>9, <1>a, ExecutionTyped DEF put
  <2>2. store' # NoTake
    BY <1>9, <2>1 DEF put, NoTake, Claims
  <2>3. /\ UNCHANGED <<state, segments, audio>> /\ run[r].phase \in {"opening", "rendering"}
        /\ \A s \in Runs \ {r} : run'[s] = run[s]
        /\ run'[r].saw = run[r].saw
    BY <1>9, <1>a, RenderStep
  <2> QED
    BY <1>a, <2>2, <2>3 DEF FeedHasAudio, RendersSomething
<1>10. ASSUME NEW r \in Runs, publish_episode(r) PROVE (FeedHasAudio /\ RendersSomething)'
  <2>1. ClaimOf(r) \in Claims /\ store # NoTake /\ run[r].saw.len > 0
    BY <1>10, <1>a, ExecutionTyped DEF publish_episode, RendersSomething
  <2>2. audio' # NoTake
    BY <1>10, <2>1 DEF publish_episode, NoTake, Claims
  <2>3. segments'.len > 0
    BY <1>10, <1>a, <2>1 DEF publish_episode, DurationsFit, TypeOK, Segments
  <2> QED
    BY <1>10, <1>b, <2>1, <2>2, <2>3 DEF publish_episode, Return, FeedHasAudio
<1>11. ASSUME NEW r \in Runs, DurationsMismatch(r)
      PROVE (FeedHasAudio /\ RendersSomething)'
  BY <1>11, <1>c DEF DurationsMismatch
<1>12. CASE UNCHANGED vars
  BY <1>12, <1>a DEF vars, episode, FeedHasAudio, RendersSomething
<1> QED
  BY <1>1, <1>2, <1>3, <1>4, <1>5, <1>6, <1>7, <1>8, <1>9, <1>10, <1>11, <1>12
     DEF Next, Proceed

\* Under any lapses, crashes and retries, an episode in the feed has audio in
\* the store and segments on its screen.
THEOREM FeedHasAudioHolds == Spec => []FeedHasAudio
<1>1. Init => FeedInv
  <2> SUFFICES ASSUME Init PROVE FeedHasAudio /\ RendersSomething
    BY RecordsTyped DEF FeedInv, Init, TypeOK, Stages, Settled
  <2> QED
    BY RecordsTyped DEF Init, FeedHasAudio, RendersSomething
<1>2. FeedInv => FeedHasAudio
  BY DEF FeedInv
<1> QED
  BY <1>1, <1>2, FeedStep, PTL DEF Spec

-----------------------------------------------------------------------------
(***************************************************************************)
(* One execution at a time.  As long as no lease has lapsed the episode    *)
(* has at most one row that is still to be worked, of the stage the        *)
(* episode's state names, and at most one live execution: it holds that    *)
(* row's current claim, and the segments it read are still the segments    *)
(* that are there.  Everything the pipeline promises "unless lapsed" is a  *)
(* consequence; none of the parts is inductive without the others.         *)
(***************************************************************************)
StageOf(j) ==
    \/ state = "pending"   /\ queue[j] = "assemble"
    \/ state = "scripting" /\ queue[j] = "script"
    \/ state = "rendering" /\ queue[j] = "tts"

OneRowOwed ==
    /\ \A j \in JobIds : Owed(j) => StageOf(j)
    /\ \A i, j \in JobIds : Owed(i) /\ Owed(j) => i = j

\* The stages are reached in order, so the row a stage queues is its first.
RowsInOrder ==
    /\ \A i, j \in JobIds : queue[i] = queue[j] /\ queue[i] # None => i = j
    /\ state = "absent"    => \A j \in JobIds : queue[j] = None
    /\ state = "pending"   => \A j \in JobIds : queue[j] \in {None, "assemble"}
    /\ state = "scripting" => \A j \in JobIds : queue[j] # "tts"

\* A live execution is the only one, of the claim the row now carries, and
\* nobody has rewritten the segments since it read them.
OneExecution ==
    /\ \A r, s \in Runs : Live(r) /\ Live(s) => r = s
    /\ \A r \in Runs : Live(r) =>
        /\ jstate[run[r].job] = "running"
        /\ run[r].att = tries[run[r].job]
        /\ run[r].saw = segments

Reported ==
    \A r \in Runs :
        /\ run[r].phase = "opening" => run[r].done = 0
        /\ run[r].phase = "rendering" /\ run[r].reports => rendered = run[r].done

Sole == OneRowOwed /\ RowsInOrder /\ OneExecution /\ Reported /\ SpokenIsShown

SoleInv == MoveInv /\ (lapses = 0 => Sole)

\* A count of lapses never goes down.
LEMMA LapsesGrow == TypeOK /\ [Next]_vars => lapses' = lapses \/ lapses' # 0
<1> SUFFICES ASSUME TypeOK, [Next]_vars PROVE lapses' = lapses \/ lapses' # 0
  OBVIOUS
<1>1. ASSUME NEW r \in Runs, NEW j \in JobIds, begin(r, j)
      PROVE  lapses' = lapses \/ lapses' # 0
  BY <1>1 DEF begin, TypeOK
<1>2. ASSUME NEW r \in Runs, Proceed(r) PROVE UNCHANGED lapses
  BY <1>2 DEF Proceed, NoOp, Doomed, Raise, GiveUp, handle_assemble, handle_script,
              report_open, synthesize, put, publish_episode, DurationsMismatch, faults
<1>3. ASSUME NEW r \in Runs, Crash(r) PROVE UNCHANGED lapses
  BY <1>3 DEF Crash
<1>4. ASSUME enqueue_episode PROVE UNCHANGED lapses
  BY <1>4 DEF enqueue_episode, faults
<1> QED
  BY <1>1, <1>2, <1>3, <1>4 DEF Next, vars, faults

\* Where nothing is owed nothing runs.
LEMMA NothingRuns ==
    ASSUME TypeOK, OneExecution, OneRowOwed, state \in Settled
    PROVE  \A r \in Runs : ~Live(r)
BY DEF OneExecution, OneRowOwed, StageOf, Settled, Owed, Live, TypeOK

\* The one live execution ends: its row is handed back, landed or failed, and
\* no other row is owed.
LEMMA EndStep ==
    ASSUME TypeOK, RowsExist, Sole, NEW r \in Runs, Live(r),
           run' = [run EXCEPT ![r] = Idle],
           NEW s \in {"ready", "running", "landed", "failed"},
           jstate' = [jstate EXCEPT ![run[r].job] = s], UNCHANGED <<queue, tries>>
    PROVE  /\ OneExecution' /\ Reported'
           /\ \A t \in Runs : ~Live(t)'
           /\ \A j \in JobIds : Owed(j)' => Owed(j) /\ j = run[r].job
           /\ s \in {"landed", "failed"} => \A j \in JobIds : ~Owed(j)'
<1>a. OneExecution /\ OneRowOwed /\ run[r].job \in JobIds
  BY DEF Sole, TypeOK, Live
<1>1. \A t \in Runs : run'[t].phase = "idle"
  <2> SUFFICES ASSUME NEW t \in Runs, t # r PROVE run[t].phase = "idle"
    BY RecordsTyped DEF TypeOK
  <2> QED
    BY <1>a DEF OneExecution, Live
<1>2. OneExecution' /\ Reported' /\ \A t \in Runs : ~Live(t)'
  BY <1>1 DEF OneExecution, Reported, Live
<1>3. Owed(run[r].job)
  BY <1>a DEF OneExecution, Owed
<1>4. \A j \in JobIds : j # run[r].job => ~Owed(j) /\ jstate'[j] = jstate[j]
  BY <1>a, <1>3 DEF OneRowOwed, TypeOK
<1>5. jstate'[run[r].job] = s
  BY <1>a DEF TypeOK
<1> QED
  BY <1>2, <1>3, <1>4, <1>5 DEF Owed

\* A stage queues its successor's first row, which is the only one owed.
LEMMA HandOver ==
    ASSUME TypeOK, RowsExist, Sole, NEW q \in Stages, NEW landing \in SUBSET JobIds,
           EnqueueAnd(q, landing),
           \A i \in JobIds : Owed(i) => i \in landing,
           \A i \in JobIds : queue[i] # q
    PROVE  /\ \E j \in JobIds : /\ queue' = [queue EXCEPT ![j] = q]
                                /\ \A i \in JobIds : Owed(i)' => i = j
           /\ \A i, j \in JobIds : queue'[i] = queue'[j] /\ queue'[i] # None => i = j
<1>1. PICK j \in JobIds :
        /\ jstate[j] = "absent"
        /\ queue' = [queue EXCEPT ![j] = q]
        /\ jstate' = [i \in JobIds |->
                        CASE i = j -> "ready"
                          [] i \in landing /\ i # j -> "landed"
                          [] OTHER -> jstate[i]]
  BY DEF EnqueueAnd
<1>2. \A i \in JobIds : Owed(i)' => i = j
  <2> SUFFICES ASSUME NEW i \in JobIds, i # j PROVE ~Owed(i)'
    OBVIOUS
  <2>1. CASE i \in landing
    <3>1. jstate'[i] = "landed"
      BY <1>1, <2>1
    <3> QED
      BY <3>1 DEF Owed
  <2>2. CASE i \notin landing
    <3>1. jstate'[i] = jstate[i]
      BY <1>1, <2>2
    <3> QED
      BY <2>2, <3>1 DEF Owed
  <2> QED
    BY <2>1, <2>2
<1>3. \A i, k \in JobIds : queue'[i] = queue'[k] /\ queue'[i] # None => i = k
  BY <1>1 DEF TypeOK, Sole, RowsInOrder
<1> QED
  BY <1>1, <1>2, <1>3

\* Giving up ends the one execution, and the episode with it if it is final.
LEMMA GiveUpSole ==
    ASSUME MoveInv, Sole, NEW r \in Runs, NEW p \in BOOLEAN, Live(r), GiveUp(r, p)
    PROVE  Sole'
<1>a. /\ TypeOK /\ RowsExist /\ OneExecution /\ OneRowOwed /\ RowsInOrder
      /\ run[r].job \in JobIds /\ jstate[run[r].job] = "running"
  BY DEF MoveInv, Sole, TypeOK, Live, OneExecution
<1>b. /\ run' = [run EXCEPT ![r] = Idle]
      /\ UNCHANGED <<segments, audio, rendered, queue, tries>>
  BY DEF GiveUp, Return
<1>1. CASE ~p /\ run[r].att < MaxAttempts
  <2>1. jstate' = [jstate EXCEPT ![run[r].job] = "ready"] /\ UNCHANGED state
    BY <1>1, <1>a DEF GiveUp, TypeOK
  <2>2. /\ OneExecution' /\ Reported'
        /\ \A j \in JobIds : Owed(j)' => Owed(j) /\ j = run[r].job
    BY <1>a, <1>b, <2>1, EndStep
  <2>3. OneRowOwed'
    BY <1>a, <1>b, <2>1, <2>2 DEF OneRowOwed, StageOf
  <2> QED
    BY <1>a, <1>b, <2>1, <2>2, <2>3 DEF Sole, RowsInOrder, SpokenIsShown
<1>2. CASE ~(~p /\ run[r].att < MaxAttempts)
  <2>1. jstate' = [jstate EXCEPT ![run[r].job] = "failed"] /\ state' = "failed"
    BY <1>2, <1>a DEF GiveUp, TypeOK, episode_failed
  <2>2. OneExecution' /\ Reported' /\ \A j \in JobIds : ~Owed(j)'
    BY <1>a, <1>b, <2>1, EndStep
  <2> QED
    BY <1>a, <1>b, <2>1, <2>2 DEF Sole, OneRowOwed, RowsInOrder, SpokenIsShown
<1> QED
  BY <1>1, <1>2

\* Every action without a lapse keeps the one execution the only one.
LEMMA SoleStep == MoveInv /\ Sole /\ [Next]_vars /\ UNCHANGED lapses => Sole'
<1> SUFFICES ASSUME MoveInv, Sole, [Next]_vars, UNCHANGED lapses PROVE Sole'
  OBVIOUS
<1>a. /\ TypeOK /\ RowsExist
      /\ OneRowOwed /\ RowsInOrder /\ OneExecution /\ Reported /\ SpokenIsShown
  BY DEF MoveInv, Sole
<1>b. ASSUME NEW r \in Runs, Live(r)
      PROVE  /\ run[r].job \in JobIds /\ jstate[run[r].job] = "running"
             /\ Owed(run[r].job) /\ StageOf(run[r].job)
             /\ run[r].saw = segments /\ state \notin Settled /\ state # "absent"
             /\ jstate = [jstate EXCEPT ![run[r].job] = "running"]
  BY <1>a, <1>b DEF TypeOK, Live, OneExecution, OneRowOwed, Owed, StageOf, Settled
<1>1. ASSUME enqueue_episode PROVE Sole'
  <2>1. /\ \A r \in Runs : ~Live(r)
        /\ \A j \in JobIds : ~Owed(j) /\ queue[j] = None
    BY <1>1, <1>a, <1>b DEF enqueue_episode, RowsInOrder, OneRowOwed, StageOf
  <2>2. /\ EnqueueAnd("assemble", {}) /\ state' = "pending"
        /\ UNCHANGED <<segments, audio, rendered, run>>
    BY <1>1 DEF enqueue_episode
  <2>3. \A j \in JobIds : queue[j] # "assemble"
    BY <2>1, PipelineAssumption
  <2>4. /\ \E j \in JobIds : /\ queue' = [queue EXCEPT ![j] = "assemble"]
                             /\ \A i \in JobIds : Owed(i)' => i = j
        /\ \A i, j \in JobIds : queue'[i] = queue'[j] /\ queue'[i] # None => i = j
    BY <1>a, <2>1, <2>2, <2>3, HandOver DEF Stages
  <2>5. OneRowOwed' /\ RowsInOrder'
    BY <1>a, <2>1, <2>2, <2>4 DEF OneRowOwed, StageOf, RowsInOrder, TypeOK
  <2>6. OneExecution' /\ Reported'
    BY <1>a, <2>1, <2>2 DEF OneExecution, Reported, Live
  <2> QED
    BY <2>2, <2>5, <2>6 DEF Sole, SpokenIsShown
<1>2. ASSUME NEW r \in Runs, NEW j \in JobIds, begin(r, j) PROVE Sole'
  <2>1. /\ Owed(j) /\ ~(jstate[j] = "running" /\ Held(j)) /\ run[r] = Idle
        /\ UNCHANGED <<state, segments, audio, rendered, queue>>
        /\ jstate' = [jstate EXCEPT ![j] = "running"]
        /\ tries' = [tries EXCEPT ![j] = @ + 1]
        /\ run' = [run EXCEPT ![r] =
                    [phase |-> Reads(j), job |-> j, att |-> tries[j] + 1,
                     saw |-> segments, done |-> 0, reports |-> FALSE]]
    BY <1>2, <1>a DEF begin, episode, TypeOK
  <2>2. \A s \in Runs : ~Live(s)
    <3> SUFFICES ASSUME NEW s \in Runs, Live(s) PROVE FALSE
      OBVIOUS
    <3>1. run[s].job = j
      BY <1>a, <1>b, <2>1 DEF OneRowOwed
    <3>2. ClaimOf(s) = <<j, tries[j]>>
      BY <1>a, <3>1 DEF OneExecution, ClaimOf
    <3> QED
      BY <1>b, <2>1, <3>1, <3>2 DEF Held
  <2>3. /\ \A s \in Runs \ {r} : run'[s] = run[s]
        /\ run'[r].job = j /\ run'[r].att = tries'[j] /\ run'[r].saw = segments
        /\ run'[r].phase # "rendering" /\ run'[r].done = 0
        /\ jstate'[j] = "running"
    <3>1. Reads(j) # "rendering"
      BY DEF Reads, assemble_reads, script_reads, tts_reads
    <3> QED
      BY <2>1, <3>1, <1>a DEF TypeOK
  <2>4. OneExecution' /\ Reported'
    BY <2>1, <2>2, <2>3 DEF OneExecution, Reported, Live
  <2>5. \A i \in JobIds : Owed(i)' => Owed(i)
    BY <2>1, <1>a DEF Owed, TypeOK
  <2>6. OneRowOwed' /\ RowsInOrder' /\ SpokenIsShown'
    BY <2>1, <2>5, <1>a DEF OneRowOwed, StageOf, RowsInOrder, SpokenIsShown
  <2> QED
    BY <2>4, <2>6 DEF Sole
<1>3. ASSUME NEW r \in Runs, Crash(r) PROVE Sole'
  <2>1. /\ Live(r) /\ run' = [run EXCEPT ![r] = Idle]
        /\ UNCHANGED <<state, segments, audio, rendered, queue, jstate, tries>>
    BY <1>3 DEF Crash, Return, episode, jobs
  <2>2. jstate' = [jstate EXCEPT ![run[r].job] = "running"]
    BY <2>1, <1>b
  <2>3. OneExecution' /\ Reported'
    BY <2>1, <2>2, <1>a, EndStep
  <2>4. OneRowOwed' /\ RowsInOrder' /\ SpokenIsShown'
    BY <2>1, <1>a DEF OneRowOwed, StageOf, Owed, RowsInOrder, SpokenIsShown
  <2> QED
    BY <2>3, <2>4 DEF Sole
<1>4. ASSUME NEW r \in Runs, NoOp(r) PROVE Sole'
  <2>1. /\ Live(r) /\ run' = [run EXCEPT ![r] = Idle]
        /\ jstate' = [jstate EXCEPT ![run[r].job] = "landed"]
        /\ UNCHANGED <<state, segments, audio, rendered, queue, tries>>
    BY <1>4 DEF NoOp, Live, Land, Return, episode
  <2>2. OneExecution' /\ Reported' /\ \A j \in JobIds : ~Owed(j)'
    BY <2>1, <1>a, EndStep
  <2> QED
    BY <2>1, <2>2, <1>a DEF Sole, OneRowOwed, RowsInOrder, SpokenIsShown
<1>5. ASSUME NEW r \in Runs, Doomed(r) PROVE Sole'
  BY <1>5, GiveUpSole DEF Doomed, Live
<1>6. ASSUME NEW r \in Runs, NEW p \in BOOLEAN, Raise(r, p) PROVE Sole'
  BY <1>6, GiveUpSole DEF Raise, Live
<1>7. ASSUME NEW r \in Runs, NEW q \in Stages, NEW next \in {"scripting", "rendering"},
             run[r].phase = "working", EnqueueAnd(q, {run[r].job}),
             run' = [run EXCEPT ![r] = Idle], state' = next,
             \/ queue[run[r].job] = "assemble" /\ q = "script" /\ next = "scripting"
             \/ queue[run[r].job] = "script" /\ q = "tts" /\ next = "rendering"
      PROVE  Sole'
  <2>1. /\ Live(r) /\ StageOf(run[r].job) /\ run[r].job \in JobIds
        /\ \A i \in JobIds : Owed(i) => i \in {run[r].job}
    BY <1>7, <1>a, <1>b DEF Live, OneRowOwed
  <2>2. \A i \in JobIds : queue[i] # q
    BY <1>7, <1>a, <2>1, PipelineAssumption DEF StageOf, RowsInOrder
  <2>3. PICK j \in JobIds : /\ queue' = [queue EXCEPT ![j] = q]
                            /\ \A i \in JobIds : Owed(i)' => i = j
    BY <1>7, <1>a, <2>1, <2>2, HandOver
  <2>4. \A i, k \in JobIds : queue'[i] = queue'[k] /\ queue'[i] # None => i = k
    BY <1>7, <1>a, <2>1, <2>2, HandOver
  <2>5. OneRowOwed'
    BY <1>7, <1>a, <2>3 DEF OneRowOwed, StageOf, TypeOK
  <2>6. RowsInOrder'
    BY <1>7, <1>a, <2>1, <2>3, <2>4 DEF RowsInOrder, StageOf, TypeOK
  <2>7. \A t \in Runs : run'[t].phase = "idle"
    BY <1>7, <1>a, <2>1, RecordsTyped DEF OneExecution, Live, TypeOK
  <2> QED
    BY <1>7, <2>5, <2>6, <2>7 DEF Sole, OneExecution, Reported, Live, SpokenIsShown
<1>8. ASSUME NEW r \in Runs, handle_assemble(r) PROVE Sole'
  BY <1>7, <1>8 DEF handle_assemble, Return, Stages
<1>9. ASSUME NEW r \in Runs, handle_script(r) PROVE Sole'
  BY <1>7, <1>9 DEF handle_script, Return, Stages
<1>10. ASSUME NEW r \in Runs, report_open(r) \/ synthesize(r) \/ put(r) PROVE Sole'
  <2>1. /\ UNCHANGED <<state, segments, audio, queue, jstate, tries>>
        /\ Live(r) /\ \A s \in Runs \ {r} : run'[s] = run[s]
        /\ run'[r].job = run[r].job /\ run'[r].saw = run[r].saw
        /\ run'[r].phase = IF put(r) THEN "uploaded" ELSE "rendering"
    BY <1>10, <1>a, RenderStep DEF Live, report_open, synthesize, put, jobs
  <2>2. run'[r].att = run[r].att
    <3>1. CASE report_open(r)
      BY <3>1, <1>a DEF report_open, TypeOK, Executions
    <3>2. CASE synthesize(r)
      BY <3>2, <1>a DEF synthesize, TypeOK, Executions
    <3>3. CASE put(r)
      BY <3>3, <1>a DEF put, TypeOK, Executions
    <3> QED
      BY <1>10, <3>1, <3>2, <3>3
  <2>3. OneExecution'
    BY <1>a, <2>1, <2>2 DEF OneExecution, Live
  <2>4. Reported'
    <3>1. \A s \in Runs \ {r} : run'[s].phase = "idle"
      BY <1>a, <2>1 DEF OneExecution, Live
    <3>2. run'[r].phase = "rendering" /\ run'[r].reports => rendered' = run'[r].done
      <4>1. CASE report_open(r)
        <5>1. PICK heard \in BOOLEAN :
                /\ IF heard THEN record_rendered_segments(0) ELSE UNCHANGED rendered
                /\ run' = [run EXCEPT ![r] =
                            [run[r] EXCEPT !.phase = "rendering", !.reports = heard]]
          BY <4>1 DEF report_open
        <5>2. run[r].done = 0
          BY <4>1, <1>a DEF report_open, Reported
        <5> QED
          BY <5>1, <5>2, <1>a DEF record_rendered_segments, TypeOK, Executions
      <4>2. CASE synthesize(r)
        BY <4>2, <1>a DEF synthesize, record_rendered_segments, TypeOK, Executions
      <4>3. CASE put(r)
        BY <4>3, <2>1
      <4> QED
        BY <1>10, <4>1, <4>2, <4>3
    <3>3. run'[r].phase # "opening"
      BY <2>1
    <3> QED
      BY <3>1, <3>2, <3>3 DEF Reported
  <2>5. OneRowOwed' /\ RowsInOrder' /\ SpokenIsShown'
    BY <2>1, <1>a DEF OneRowOwed, StageOf, Owed, RowsInOrder, SpokenIsShown
  <2> QED
    BY <2>3, <2>4, <2>5 DEF Sole
<1>11. ASSUME NEW r \in Runs, publish_episode(r) PROVE Sole'
  <2>1. /\ Live(r) /\ run' = [run EXCEPT ![r] = Idle] /\ state' = "ready"
        /\ jstate' = [jstate EXCEPT ![run[r].job] = "landed"]
        /\ segments' = [segments EXCEPT !.timing = ClaimOf(r)]
        /\ audio' = [claim |-> ClaimOf(r), draft |-> run[r].saw.draft]
        /\ UNCHANGED <<rendered, queue, tries>>
    BY <1>11 DEF publish_episode, Live, Land, Return
  <2>2. OneExecution' /\ Reported' /\ \A j \in JobIds : ~Owed(j)'
    BY <2>1, <1>a, EndStep
  <2>3. SpokenIsShown'
    BY <2>1, <1>a, <1>b DEF SpokenIsShown, TypeOK, Segments
  <2> QED
    BY <2>1, <2>2, <2>3, <1>a DEF Sole, OneRowOwed, RowsInOrder
<1>12. ASSUME NEW r \in Runs, DurationsMismatch(r) PROVE Sole'
  BY <1>12, GiveUpSole DEF DurationsMismatch, Live
<1>13. CASE UNCHANGED vars
  BY <1>13, <1>a DEF vars, episode, jobs, Sole, OneRowOwed, StageOf, Owed, RowsInOrder,
                     OneExecution, Live, Reported, SpokenIsShown
<1> QED
  BY <1>1, <1>2, <1>3, <1>4, <1>5, <1>6, <1>8, <1>9, <1>10, <1>11, <1>12, <1>13
     DEF Next, Proceed

\* The invariant holds in every reachable state, with the one of NeverStranded.
THEOREM SoleCorrect == Spec => []SoleInv
<1>1. Init => SoleInv
  <2> SUFFICES ASSUME Init PROVE RowsExist /\ Moving /\ Sole
    BY RecordsTyped DEF SoleInv, MoveInv, Init, TypeOK, Stages, Settled
  <2>1. RowsExist /\ Moving
    BY RecordsTyped DEF Init, RowsExist, Moving
  <2>2. Sole
    BY RecordsTyped DEF Init, Sole, OneRowOwed, Owed, StageOf, RowsInOrder, OneExecution,
                        Live, Reported, SpokenIsShown
  <2> QED
    BY <2>1, <2>2
<1>2. SoleInv /\ [Next]_vars => SoleInv'
  <2> SUFFICES ASSUME SoleInv, [Next]_vars, lapses' = 0 PROVE Sole'
    BY MoveStep DEF SoleInv
  <2>1. UNCHANGED lapses
    BY LapsesGrow DEF SoleInv, MoveInv
  <2> QED
    BY <2>1, SoleStep DEF SoleInv
<1> QED
  BY <1>1, <1>2, PTL DEF Spec

\* Unless a lease lapsed, what a published episode's screen shows is the draft
\* its audio speaks, timed to that audio.
THEOREM SpokenIsShownHolds == Spec => []SpokenIsShownUnlessLapsed
<1>1. SoleInv => SpokenIsShownUnlessLapsed
  BY DEF SoleInv, Sole, SpokenIsShownUnlessLapsed
<1> QED
  BY <1>1, SoleCorrect, PTL

\* Unless a lease lapsed, no stage of an episode is ever queued twice.
THEOREM OneJobPerStageHolds == Spec => []OneJobPerStage
<1>1. SoleInv => OneJobPerStage
  <2> SUFFICES ASSUME SoleInv, lapses = 0, NEW q \in Stages
               PROVE Cardinality({j \in JobIds : queue[j] = q}) <= 1
    BY DEF OneJobPerStage
  <2> DEFINE rows == {j \in JobIds : queue[j] = q}
  <2>1. \A i, j \in rows : i = j
    BY PipelineAssumption DEF SoleInv, Sole, RowsInOrder, Stages
  <2>2. CASE rows = {}
    BY <2>2, FS_EmptySet
  <2>3. CASE rows # {}
    <3>1. PICK j \in rows : rows = {j}
      BY <2>1, <2>3
    <3>2. Cardinality({j}) = 1
      BY FS_Singleton
    <3> HIDE DEF rows
    <3>3. Cardinality(rows) <= 1
      BY <3>1, <3>2
    <3> QED
      BY <3>3 DEF rows
  <2> QED
    BY <2>2, <2>3
<1> QED
  BY <1>1, SoleCorrect, PTL

\* Unless a lease lapsed, the progress shown is that of the render that runs.
THEOREM ProgressIsThisRenderHolds == Spec => []ProgressIsThisRender
<1>1. SoleInv => ProgressIsThisRender
  BY DEF SoleInv, Sole, Reported, ProgressIsThisRender
<1> QED
  BY <1>1, SoleCorrect, PTL

\* Unless a lease lapsed, a published or failed episode stays as it is: there
\* is no row owed and no execution left that could write it.
THEOREM SettledIsFinalHolds == Spec => SettledIsFinal
<1>1. SoleInv /\ [Next]_vars => [lapses' = 0 /\ state \in Settled => state' = state]_vars
  <2> SUFFICES ASSUME SoleInv, [Next]_vars, lapses' = 0, state \in Settled
               PROVE state' = state
    OBVIOUS
  <2>1. TypeOK /\ Sole
    BY LapsesGrow DEF SoleInv, MoveInv
  <2>2. \A r \in Runs : ~Live(r)
    BY <2>1, NothingRuns DEF Sole
  <2>3. \A r \in Runs : ~Proceed(r)
    BY <2>2 DEF Live, Proceed, NoOp, Doomed, Raise, handle_assemble, handle_script,
                report_open, synthesize, put, publish_episode, DurationsMismatch
  <2> QED
    BY <2>3 DEF Next, vars, episode, enqueue_episode, begin, Crash, Settled
<1> QED
  BY <1>1, SoleCorrect, PTL DEF Spec, SettledIsFinal

=============================================================================

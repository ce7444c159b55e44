------------------------- MODULE SourceItemsProofs -------------------------
(***************************************************************************)
(* Proofs about SourceItems, for any sets of items, workers and requests   *)
(* and any number of attempts, lapses, lost sessions and crashes.          *)
(***************************************************************************)
EXTENDS SourceItems, TLAPS

USE ItemsAssumption

(***************************************************************************)
(* What the helpers do, one lemma each.                                    *)
(***************************************************************************)

\* A job id is an item, a queue and a number.
LEMMA JobTyped ==
    /\ \A j \in JobIds : j[1] \in Items /\ j[2] \in Queues /\ j[3] \in 1..MaxRows
    /\ \A i \in Items, q \in Queues, n \in 1..MaxRows :
            /\ <<i, q, n>> \in JobIds
            /\ <<i, q, n>>[1] = i /\ <<i, q, n>>[2] = q /\ <<i, q, n>>[3] = n
BY DEF JobIds

\* The constant records have their types.
LEMMA RecordsTyped ==
    /\ NoRow \in Rows /\ NoRow.st = "absent" /\ NoRow.fenced = FALSE
    /\ Idle \in Executions /\ Idle.phase = "idle"
    /\ \A d \in BOOLEAN : LET w == [NoRow EXCEPT !.st = "ready", !.deliberate = d] IN
            w \in Rows /\ w.st = "ready" /\ w.fenced = FALSE
<1>1. NoRow \in Rows /\ NoRow.st = "absent" /\ NoRow.fenced = FALSE
  BY DEF NoRow, Rows, RowStates
<1>2. Idle \in Executions /\ Idle.phase = "idle"
  BY DEF Idle, Executions, Phases
<1>3. ASSUME NEW w \in Rows, NEW d \in BOOLEAN
      PROVE  LET v == [w EXCEPT !.st = "ready", !.deliberate = d] IN
             v \in Rows /\ v.st = "ready" /\ v.fenced = w.fenced
  BY DEF Rows, RowStates
<1> QED
  BY <1>1, <1>2, <1>3

\* Updates of the fields of a row.
LEMMA RowUpdate ==
    ASSUME NEW w \in Rows
    PROVE  /\ w.st \in RowStates /\ w.tries \in Int /\ w.fenced \in BOOLEAN
           /\ w.deliberate \in BOOLEAN
           /\ \A s \in RowStates :
                 /\ [w EXCEPT !.st = s] \in Rows
                 /\ [w EXCEPT !.st = s].st = s /\ [w EXCEPT !.st = s].fenced = w.fenced
           /\ \A s \in RowStates, n \in Int :
                 /\ [w EXCEPT !.st = s, !.tries = n] \in Rows
                 /\ [w EXCEPT !.st = s, !.tries = n].st = s
                 /\ [w EXCEPT !.st = s, !.tries = n].fenced = w.fenced
           /\ [w EXCEPT !.fenced = TRUE] \in Rows
           /\ [w EXCEPT !.fenced = TRUE].st = w.st
           /\ [w EXCEPT !.fenced = TRUE].fenced = TRUE
BY DEF Rows

\* The same for an execution.
LEMMA ExecutionUpdate ==
    ASSUME NEW e \in Executions
    PROVE  /\ e.phase \in Phases /\ e.job \in JobIds \cup {None} /\ e.att \in Int
           /\ e.fen \in BOOLEAN /\ e.conn \in BOOLEAN /\ e.steps \in BOOLEAN
           /\ \A p \in Phases : LET f == [e EXCEPT !.phase = p] IN
                 /\ f \in Executions /\ f.phase = p
                 /\ f.job = e.job /\ f.fen = e.fen /\ f.conn = e.conn
           /\ \A p \in Phases, b \in BOOLEAN : LET f == [e EXCEPT !.phase = p, !.steps = b] IN
                 /\ f \in Executions /\ f.phase = p
                 /\ f.job = e.job /\ f.fen = e.fen /\ f.conn = e.conn
           /\ LET f == [e EXCEPT !.conn = FALSE] IN
                 /\ f \in Executions /\ f.phase = e.phase
                 /\ f.job = e.job /\ f.fen = e.fen /\ f.conn = FALSE
BY DEF Executions

\* enqueue: new rows are ready and without a fence; the others keep their
\* state.
LEMMA InsertEffect ==
    ASSUME TypeOK, NEW new, NEW landing, NEW d \in BOOLEAN, Insert(new, d, landing)
    PROVE  /\ rows' \in [JobIds -> Rows]
           /\ \A j \in JobIds :
                /\ j \in new => rows'[j].st = "ready" /\ rows'[j].fenced = FALSE
                /\ j \notin new => rows'[j].st = rows[j].st
<1>1. \A j \in JobIds : rows[j] \in Rows
  BY DEF TypeOK
<1>2. ASSUME NEW j \in JobIds, j \in new
      PROVE  rows'[j] \in Rows /\ rows'[j].st = "ready" /\ rows'[j].fenced = FALSE
  BY <1>2, RecordsTyped DEF Insert
<1>3. ASSUME NEW j \in JobIds, j \notin new, j \in landing
      PROVE  rows'[j] \in Rows /\ rows'[j].st = rows[j].st
  BY <1>1, <1>3, RowUpdate DEF Insert
<1>4. ASSUME NEW j \in JobIds, j \notin new, j \notin landing
      PROVE  rows'[j] = rows[j]
  BY <1>4 DEF Insert
<1>5. rows' \in [JobIds -> Rows]
  <2>1. rows' = [j \in JobIds |-> rows'[j]]
    BY DEF Insert
  <2> QED
    BY <2>1, <1>1, <1>2, <1>3, <1>4
<1> QED
  BY <1>2, <1>3, <1>4, <1>5

\* An update of the state of one row.
LEMMA SetRowEffect ==
    ASSUME TypeOK, NEW k \in JobIds, NEW s \in RowStates \ {"absent"}, SetRow(k, s)
    PROVE  /\ rows' \in [JobIds -> Rows]
           /\ \A j \in JobIds :
                /\ rows'[j].fenced = rows[j].fenced
                /\ rows'[j].st = rows[j].st \/ (j = k /\ Exists(k) /\ rows'[j].st = s)
<1>1. rows \in [JobIds -> Rows]
  BY DEF TypeOK
<1>2. rows[k] \in Rows
  BY <1>1
<1>3. [rows[k] EXCEPT !.st = s] \in Rows /\ [rows[k] EXCEPT !.st = s].st = s
      /\ [rows[k] EXCEPT !.st = s].fenced = rows[k].fenced
  BY <1>2 DEF Rows
<1> DEFINE now == [rows[k] EXCEPT !.st = s]
<1> HIDE DEF now
<1>4. rows' = [rows EXCEPT ![k] = IF Exists(k) THEN now ELSE rows[k]]
  BY DEF SetRow, now
<1>5. now \in Rows /\ now.st = s /\ now.fenced = rows[k].fenced
  BY <1>3 DEF now
<1> QED
  BY <1>1, <1>2, <1>4, <1>5

\* The work fence of one row.
LEMMA FenceEffect ==
    ASSUME TypeOK, NEW k \in JobIds, Fence(k)
    PROVE  /\ rows' \in [JobIds -> Rows]
           /\ \A j \in JobIds : /\ rows'[j].st = rows[j].st
                                /\ j # k => rows'[j].fenced = rows[j].fenced
<1>1. rows \in [JobIds -> Rows] /\ rows[k] \in Rows
  BY DEF TypeOK
<1> DEFINE now == [rows[k] EXCEPT !.fenced = TRUE]
<1>2. now \in Rows /\ now.st = rows[k].st
  BY <1>1, RowUpdate
<1>3. rows' = [rows EXCEPT ![k] = now]
  BY DEF Fence
<1> HIDE DEF now
<1> QED
  BY <1>1, <1>2, <1>3

\* A worker moves on to another phase.
LEMMA MoveEffect ==
    ASSUME TypeOK, NEW r \in Runs, NEW p \in Phases, Move(r, p), run[r].phase # "idle"
    PROVE  /\ run' \in [Runs -> Executions]
           /\ \A s \in Runs : /\ run'[s].job = run[s].job /\ run'[s].fen = run[s].fen
                              /\ run'[s].conn = run[s].conn
                              /\ run'[s].phase = IF s = r THEN p ELSE run[s].phase
           /\ \A s \in Runs : s # r => run'[s] = run[s]
           /\ \A s \in Runs : run'[s].phase # "idle" => run'[s].job \in JobIds
<1>1. run \in [Runs -> Executions] /\ run[r] \in Executions
  BY DEF TypeOK
<1> DEFINE now == [run[r] EXCEPT !.phase = p]
<1>2. now \in Executions /\ now.phase = p /\ now.job = run[r].job
      /\ now.fen = run[r].fen /\ now.conn = run[r].conn
  BY <1>1 DEF Executions
<1>3. run' = [run EXCEPT ![r] = now]
  BY DEF Move
<1> HIDE DEF now
<1>4. \A s \in Runs : run[s].phase # "idle" => run[s].job \in JobIds
  BY DEF TypeOK
<1> QED
  BY <1>1, <1>2, <1>3, <1>4

\* A worker forgets its job.
LEMMA ReturnEffect ==
    ASSUME TypeOK, NEW r \in Runs, Return(r)
    PROVE  /\ run' \in [Runs -> Executions]
           /\ run'[r].phase = "idle"
           /\ \A s \in Runs : s # r => run'[s] = run[s]
           /\ \A s \in Runs : run'[s].phase # "idle" => run'[s].job \in JobIds
BY RecordsTyped DEF TypeOK, Return

\* An execution that is under way has a job with an item.
LEMMA RunTyped ==
    ASSUME TypeOK, NEW r \in Runs, run[r].phase # "idle"
    PROVE  /\ run[r].job \in JobIds /\ ItemOf(r) \in Items /\ QueueOf(r) \in Queues
           /\ rows[run[r].job].deliberate \in BOOLEAN /\ rows[run[r].job] \in Rows
           /\ run[r].conn \in BOOLEAN
<1>1. run[r].job \in JobIds /\ rows[run[r].job] \in Rows /\ run[r] \in Executions
  BY DEF TypeOK
<1> QED
  BY <1>1, JobTyped, RowUpdate, ExecutionUpdate DEF ItemOf, QueueOf

\* Every action keeps every variable in its type.
LEMMA TypeStep == TypeOK /\ [Next]_vars => TypeOK'
<1> SUFFICES ASSUME TypeOK, [Next]_vars PROVE TypeOK'
  OBVIOUS
<1> DEFINE ItemsOK == /\ state \in [Items -> {"absent", "pending", "integrated", "failed", "dismissed"}]
                      /\ origin \in [Items -> {"mail", "paste", None}]
                      /\ enrich \in [Items -> {"queued", "running", "done", "failed", "skipped", None}]
                      /\ text \in [Items -> {"letter", "article"}]
                      /\ original \in [Items -> {"letter", "article", None}]
                      /\ links \in [Items -> Nat] /\ calls \in [Items -> Nat]
                      /\ label \in [Items -> {"applied", "error", None}]
                      /\ asked \in SUBSET Items
           RowsOK == rows \in [JobIds -> Rows]
           RunsOK == /\ run \in [Runs -> Executions]
                     /\ \A r \in Runs : run[r].phase # "idle" => run[r].job \in JobIds
           RequestsOK == req \in [Requests -> [op : {"none", "ingest", "dismiss"}, got : SUBSET Items]]
           FaultsOK == lapses \in 0..MaxLapses /\ losses \in 0..MaxLosses /\ crashes \in 0..MaxCrashes
<1>0. /\ ItemsOK /\ RowsOK /\ RunsOK /\ RequestsOK /\ FaultsOK
      /\ ItemsOK' /\ RowsOK' /\ RunsOK' /\ RequestsOK' /\ FaultsOK' => TypeOK'
  BY DEF TypeOK
<1>a. NoRequest \in [op : {"none", "ingest", "dismiss"}, got : SUBSET Items]
  BY DEF NoRequest
<1> USE DEF item, hist, faults
<1>1. ASSUME NEW i \in Items, handle_extract(i) PROVE TypeOK'
  BY <1>0, <1>1 DEF handle_extract
<1>2. ASSUME NEW i \in Items, enqueue_paste(i) PROVE TypeOK'
  <2>1. RowsOK'
    BY <1>2, InsertEffect DEF enqueue_paste
  <2> QED
    BY <1>0, <1>2, <2>1 DEF enqueue_paste
<1>3. ASSUME NEW q \in Requests, NEW ids \in SUBSET Items, NEW op \in {"ingest", "dismiss"},
             SelectHeld(q, op, ids)
      PROVE  TypeOK'
  <2>1. [op |-> op, got |-> {i \in ids : Held(i)}]
            \in [op : {"none", "ingest", "dismiss"}, got : SUBSET Items]
    OBVIOUS
  <2> QED
    BY <1>0, <1>3, <2>1 DEF SelectHeld
<1>4. ASSUME NEW q \in Requests, enqueue_integration(q) PROVE TypeOK'
  <2>1. RowsOK'
    BY <1>4, InsertEffect DEF enqueue_integration
  <2>2. req[q].got \in SUBSET Items
    BY <1>0
  <2>3. enrich' \in [Items -> {"queued", "running", "done", "failed", "skipped", None}]
    BY <1>0, <1>4 DEF enqueue_integration, mark_enrichment_queued
  <2> QED
    BY <1>0, <1>a, <1>4, <2>1, <2>2, <2>3 DEF enqueue_integration
<1>5. ASSUME NEW q \in Requests, dismiss_held_source_items(q) PROVE TypeOK'
  BY <1>0, <1>a, <1>5 DEF dismiss_held_source_items
<1>6. ASSUME NEW q \in Requests, Rollback(q) PROVE TypeOK'
  BY <1>0, <1>a, <1>6 DEF Rollback
<1>7. ASSUME NEW r \in Runs, NEW j \in JobIds, claim(r, j) PROVE TypeOK'
  <2>1. rows[j] \in Rows
    BY <1>0
  <2> DEFINE n == rows[j].tries + 1
  <2>0a. rows[j].tries \in Int /\ rows[j].fenced \in BOOLEAN
    BY <2>1 DEF Rows
  <2>0. n \in Int /\ rows[j].fenced \in BOOLEAN
    BY <2>0a
  <2> HIDE DEF n
  <2>2. [rows[j] EXCEPT !.st = "running", !.tries = n] \in Rows
    BY <2>0, <2>1, RowUpdate DEF RowStates
  <2>3. [phase |-> "claimed", job |-> j, att |-> n, fen |-> rows[j].fenced,
         conn |-> TRUE, steps |-> FALSE] \in Executions
    BY <2>0 DEF Executions, Phases
  <2>4. RowsOK'
    BY <1>0, <1>7, <2>2 DEF claim, n
  <2>5. RunsOK'
    BY <1>0, <1>7, <2>3 DEF claim, n
  <2>6. FaultsOK'
    BY <1>0, <1>7 DEF claim
  <2> QED
    BY <1>0, <1>7, <2>4, <2>5, <2>6 DEF claim
<1>8. ASSUME NEW r \in Runs, defer(r) PROVE TypeOK'
  <2>1. run[r].job \in JobIds /\ rows[run[r].job] \in Rows
    BY <1>8, RunTyped DEF defer, At
  <2> DEFINE n == rows[run[r].job].tries - 1
  <2>0a. rows[run[r].job].tries \in Int
    BY <2>1 DEF Rows
  <2>0. n \in Int
    BY <2>0a
  <2> HIDE DEF n
  <2>2. [rows[run[r].job] EXCEPT !.st = "ready", !.tries = n] \in Rows
    BY <2>0, <2>1, RowUpdate DEF RowStates
  <2>3. RowsOK'
    BY <1>0, <1>8, <2>1, <2>2 DEF defer, n
  <2>4. RunsOK'
    BY <1>8, ReturnEffect DEF defer
  <2> QED
    BY <1>0, <1>8, <2>3, <2>4 DEF defer
<1>9. ASSUME NEW r \in Runs, start(r) PROVE TypeOK'
  <2>1. \A i : integrate_reads(i) \in Phases /\ enrich_reads(i) \in Phases
    BY DEF integrate_reads, enrich_reads, Phases, Locked
  <2>2. PICK p \in Phases : Move(r, p)
    BY <1>9, <2>1 DEF start, Phases, Locked
  <2>3. RunsOK'
    BY <1>9, <2>2, MoveEffect DEF start, At
  <2> QED
    BY <1>0, <1>9, <2>3 DEF start
<1>10. ASSUME NEW r \in Runs, NoOp(r) PROVE TypeOK'
  <2>1. RowsOK'
    BY <1>10, RunTyped, FenceEffect DEF NoOp, At
  <2>2. RunsOK'
    BY <1>10, MoveEffect DEF NoOp, At, Phases, Locked
  <2> QED
    BY <1>0, <1>10, <2>1, <2>2 DEF NoOp
<1>11. ASSUME NEW r \in Runs, complete(r) PROVE TypeOK'
  <2>1. RowsOK'
    BY <1>11, RunTyped, SetRowEffect DEF complete, At, RowStates
  <2>2. RunsOK'
    BY <1>11, MoveEffect, ReturnEffect DEF complete, At, Phases
  <2> QED
    BY <1>0, <1>11, <2>1, <2>2 DEF complete
<1>12. ASSUME NEW j \in JobIds, prune(j) PROVE TypeOK'
  <2>1. [rows[j] EXCEPT !.st = "pruned"] \in Rows
    BY <1>0 DEF Rows, RowStates
  <2> QED
    BY <1>0, <1>12, <2>1 DEF prune
<1>13. ASSUME NEW r \in Runs, Crash(r) PROVE TypeOK'
  <2>1. RunsOK'
    BY <1>13, ReturnEffect DEF Crash
  <2> QED
    BY <1>0, <1>13, <2>1 DEF Crash
<1>14. ASSUME NEW r \in Runs, LoseConnection(r) PROVE TypeOK'
  <2> DEFINE now == [run[r] EXCEPT !.conn = FALSE]
  <2>1. now \in Executions /\ now.job = run[r].job /\ now.phase = run[r].phase
    BY <1>0, ExecutionUpdate
  <2>2. run' = [run EXCEPT ![r] = now]
    BY <1>14 DEF LoseConnection
  <2> HIDE DEF now
  <2>3. RunsOK'
    BY <1>0, <2>1, <2>2
  <2> QED
    BY <1>0, <1>14, <2>3 DEF LoseConnection
<1>15. ASSUME NEW r \in Runs, AbandonPass(r) PROVE TypeOK'
  <2>1. RunsOK'
    BY <1>15, ReturnEffect DEF AbandonPass
  <2> QED
    BY <1>0, <1>15, <2>1 DEF AbandonPass
<1>16. ASSUME NEW r \in Runs, handle_integrate(r) PROVE TypeOK'
  <2>1. ItemOf(r) \in Items /\ run[r] \in Executions /\ run[r].job \in JobIds
        /\ rows[run[r].job].deliberate \in BOOLEAN /\ run[r].phase # "idle"
    BY <1>0, <1>16, RunTyped DEF handle_integrate, At
  <2> DEFINE now == [run[r] EXCEPT !.phase = "landed", !.steps = schedule(r)]
  <2>2. schedule(r) \in BOOLEAN
    BY <2>1 DEF schedule
  <2>3. now \in Executions /\ now.job = run[r].job
    BY <2>1, <2>2 DEF Executions, Phases, Locked
  <2>4. run' = [run EXCEPT ![r] = now]
    BY <1>16 DEF handle_integrate
  <2> HIDE DEF now
  <2>5. RunsOK'
    BY <1>0, <2>1, <2>3, <2>4
  <2>6. RowsOK'
    BY <1>16, <2>1, FenceEffect DEF handle_integrate
  <2>7. links' \in [Items -> Nat]
    BY <1>0, <1>16, <2>1 DEF handle_integrate, LinkToStory
  <2> QED
    BY <1>0, <1>16, <2>1, <2>5, <2>6, <2>7 DEF handle_integrate
<1>17. ASSUME NEW r \in Runs, write_back(r) PROVE TypeOK'
  <2>1. RunsOK' /\ ItemOf(r) \in Items
    BY <1>17, ReturnEffect, RunTyped DEF write_back, At
  <2> QED
    BY <1>0, <1>17, <2>1 DEF write_back
<1>18. ASSUME NEW r \in Runs, NEW status \in {"queued", "running", "done", "failed", "skipped", None},
              CommitEnrich(r, status), run[r].phase # "idle", text' \in [Items -> {"letter", "article"}],
              original' \in [Items -> {"letter", "article", None}]
       PROVE  TypeOK'
  <2>1. ItemOf(r) \in Items /\ rows[run[r].job].deliberate \in BOOLEAN
    BY <1>18, RunTyped
  <2>2. RowsOK'
    <3> DEFINE new == {j \in RowsOf(ItemOf(r)) : j[2] = "integrate" /\ IsNext(j)}
    <3>1. Insert(new, rows[run[r].job].deliberate, {run[r].job})
      BY <1>18 DEF CommitEnrich, _queue_integration
    <3> HIDE DEF new
    <3> QED
      BY <2>1, <3>1, InsertEffect
  <2>3. RunsOK'
    BY <1>18, MoveEffect DEF CommitEnrich, Phases, Locked
  <2> QED
    BY <1>0, <1>18, <2>1, <2>2, <2>3 DEF CommitEnrich
<1>19. ASSUME NEW r \in Runs, Requeue(r) \/ Interrupted(r) \/ _record_skip(r) \/ AnnounceFails(r) \/ NoArticle(r)
       PROVE  TypeOK'
  <2>1. run[r].phase # "idle" /\ UNCHANGED <<text, original>>
    BY <1>19 DEF Requeue, Interrupted, _record_skip, AnnounceFails, NoArticle, At
  <2>2. enrich[ItemOf(r)] \in {"queued", "running", "done", "failed", "skipped", None}
    BY <1>0, <2>1, RunTyped
  <2> QED
    BY <1>0, <1>18, <1>19, <2>1, <2>2 DEF Requeue, Interrupted, _record_skip, AnnounceFails, NoArticle
<1>20. ASSUME NEW r \in Runs, apply_enriched_article(r) PROVE TypeOK'
  <2>1. run[r].phase # "idle" /\ ItemOf(r) \in Items
    BY <1>20, RunTyped DEF apply_enriched_article, At
  <2>2. text' \in [Items -> {"letter", "article"}] /\ original' \in [Items -> {"letter", "article", None}]
    BY <1>0, <1>20, <2>1 DEF apply_enriched_article
  <2> QED
    BY <1>18, <1>20, <2>1, <2>2 DEF apply_enriched_article
<1>21. ASSUME NEW r \in Runs, _announce_running(r) PROVE TypeOK'
  <2>1. RunsOK' /\ ItemOf(r) \in Items
    BY <1>21, MoveEffect, RunTyped DEF _announce_running, Phases, Locked
  <2>2. enrich' \in [Items -> {"queued", "running", "done", "failed", "skipped", None}]
    BY <1>0, <1>21, <2>1 DEF _announce_running, mark_enrichment_running
  <2> QED
    BY <1>0, <1>21, <2>1, <2>2 DEF _announce_running
<1>22. ASSUME NEW r \in Runs, call(r) PROVE TypeOK'
  <2>1. RunsOK' /\ ItemOf(r) \in Items
    BY <1>22, MoveEffect, RunTyped DEF call, Phases, Locked
  <2>2. calls' \in [Items -> Nat]
    BY <1>0, <1>22, <2>1 DEF call
  <2> QED
    BY <1>0, <1>22, <2>1, <2>2 DEF call
<1>23. ASSUME NEW r \in Runs, Retry(r) PROVE TypeOK'
  <2>1. run[r].job \in JobIds
    BY <1>23, RunTyped DEF Retry, CanRaise
  <2>2. RowsOK' /\ RunsOK'
    BY <1>23, <2>1, SetRowEffect, ReturnEffect DEF Retry, RowStates
  <2> QED
    BY <1>0, <1>23, <2>2 DEF Retry
<1>24. ASSUME NEW r \in Runs, GiveUp(r) PROVE TypeOK'
  <2>1. run[r].job \in JobIds /\ ItemOf(r) \in Items /\ rows[run[r].job] \in Rows
        /\ rows[run[r].job].deliberate \in BOOLEAN
    BY <1>24, RunTyped DEF GiveUp, CanRaise
  <2>2. RunsOK'
    BY <1>24, ReturnEffect DEF GiveUp
  <2>3. CASE source_item_failed(r)
    <3>1. RowsOK'
      BY <2>1, <2>3, SetRowEffect DEF source_item_failed, RowStates
    <3> QED
      BY <1>0, <1>24, <2>1, <2>2, <2>3, <3>1 DEF source_item_failed, GiveUp
  <2>4. CASE record_enrich_failure(r)
    <3>1. RowsOK'
      <4>1. CASE state[ItemOf(r)] = "pending"
        <5> DEFINE j == run[r].job
                   now == IF Exists(j) THEN [rows[j] EXCEPT !.st = "failed"] ELSE rows[j]
                   new == [NoRow EXCEPT !.st = "ready", !.deliberate = rows[j].deliberate]
        <5>1. now \in Rows
          BY <2>1 DEF Rows, RowStates
        <5>2. new \in Rows
          BY <2>1, RecordsTyped
        <5>3. PICK k \in RowsOf(ItemOf(r)) : rows' = [rows EXCEPT ![j] = now, ![k] = new]
          BY <2>4, <4>1 DEF record_enrich_failure
        <5> HIDE DEF now, new
        <5> QED
          BY <1>0, <2>1, <5>1, <5>2, <5>3
      <4>2. CASE state[ItemOf(r)] # "pending"
        BY <2>1, <2>4, <4>2, SetRowEffect DEF record_enrich_failure, RowStates
      <4> QED
        BY <4>1, <4>2
    <3>2. enrich' \in [Items -> {"queued", "running", "done", "failed", "skipped", None}]
      BY <1>0, <2>1, <2>4 DEF record_enrich_failure
    <3> QED
      BY <1>0, <1>24, <2>2, <2>4, <3>1, <3>2 DEF record_enrich_failure, GiveUp
  <2> QED
    BY <1>24, <2>3, <2>4 DEF GiveUp
<1>25. CASE UNCHANGED vars
  BY <1>0, <1>25 DEF vars
<1> QED
  BY <1>1, <1>2, <1>3, <1>4, <1>5, <1>6, <1>7, <1>8, <1>9, <1>10, <1>11, <1>12, <1>13,
     <1>14, <1>15, <1>16, <1>17, <1>19, <1>20, <1>21, <1>22, <1>23, <1>24, <1>25
     DEF Next, Proceed, Commit

\* TypeOK is an invariant of the item specification.
THEOREM TypeCorrect == Spec => []TypeOK
<1>1. Init => TypeOK
  <2> SUFFICES ASSUME Init PROVE TypeOK
    OBVIOUS
  <2>1. NoRequest \in [op : {"none", "ingest", "dismiss"}, got : SUBSET Items]
    BY DEF NoRequest
  <2>2. rows \in [JobIds -> Rows]
    BY RecordsTyped DEF Init
  <2>3. run \in [Runs -> Executions] /\ \A r \in Runs : run[r].phase = "idle"
    BY RecordsTyped DEF Init
  <2>4. req \in [Requests -> [op : {"none", "ingest", "dismiss"}, got : SUBSET Items]]
    BY <2>1 DEF Init
  <2> QED
    BY <2>2, <2>3, <2>4 DEF Init, TypeOK
<1> QED
  BY <1>1, TypeStep, PTL DEF Spec


(***************************************************************************)
(* Why the checked invariants hold: the inductive invariant.  Its centre   *)
(* is HandedOn.  A row only closes, and is only fenced, after its item has *)
(* left "pending", or, for an enrich row, after an integrate row was       *)
(* inserted; neither is ever undone, not by the sweep either.  So the last *)
(* row of a pending item is always owed to a worker, and an item without   *)
(* rows has never been asked for.                                          *)
(***************************************************************************)

Present(j) == rows[j].st # "absent"
Moved(i)   == state[i] \in {"integrated", "failed", "dismissed"}
Integrates(i) == \E k \in JobIds : k[1] = i /\ k[2] = "integrate" /\ Present(k)
HandedOn(j) == Moved(j[1]) \/ (j[2] = "enrich" /\ Integrates(j[1]))
Closed(j)  == rows[j].st \in {"done", "failed", "pruned"} \/ rows[j].fenced
HoldsKey(r) == run[r].phase \in Locked /\ run[r].conn
Fetching   == {"requeue", "interrupted", "planning", "announced", "calling"}

\* One connected execution holds the user's key, one request the held list.
KeyExclusive ==
    /\ \A r, s \in Runs : HoldsKey(r) /\ HoldsKey(s) => r = s
    /\ \A p, q \in Requests : req[p].op # "none" /\ req[q].op # "none" => p = q

\* What a request selected is still held, and nothing is queued for it; nor
\* is anything for an item that is not there or was dismissed.
HeldIsIdle ==
    /\ \A q \in Requests, i \in Items :
            req[q].op # "none" /\ i \in req[q].got => state[i] = "pending"
    /\ \A q \in Requests, j \in JobIds :
            req[q].op # "none" /\ j[1] \in req[q].got => ~Present(j)
    /\ \A j \in JobIds : state[j[1]] \in {"absent", "dismissed"} => ~Present(j)

\* Rows close, and executions skip or repeat their outcome, only once the
\* item has been handed on.
HandedOnRun(r) ==
    run[r].phase # "idle" =>
        /\ Present(run[r].job)
        /\ run[r].phase \in {"noop", "landed"} \/ run[r].fen => HandedOn(run[r].job)
ClosedIsHandedOn ==
    /\ \A j \in JobIds : Closed(j) => HandedOn(j)
    /\ \A r \in Runs : HandedOnRun(r)

\* An execution works on what its queue is for, and while it holds the key
\* the item stays as it was read.
WorkingRun(r) ==
    /\ run[r].phase = "integrating" =>
         QueueOf(r) = "integrate" /\ (run[r].conn => state[ItemOf(r)] \in {"pending", "failed"})
    /\ run[r].phase \in Fetching =>
         QueueOf(r) = "enrich" /\ (run[r].conn => state[ItemOf(r)] = "pending")
Working == \A r \in Runs : WorkingRun(r)

\* Nobody asks, and nobody pays, for an item without a row.
Paid == \A i \in Items : i \in asked \/ calls[i] > 0 => \E j \in JobIds : j[1] = i /\ Present(j)

\* The letter is kept when the article replaces it.
LetterKept == \A i \in Items : /\ original[i] \in {None, "letter"}
                               /\ text[i] = "article" => original[i] = "letter"

ItemInv == /\ KeyExclusive /\ HeldIsIdle /\ ClosedIsHandedOn /\ Working
           /\ Paid /\ LinkedIffIntegrated /\ LetterKept

(***************************************************************************)
(* The shape of every step of a worker r, in these terms.                  *)
(***************************************************************************)
Mine(r, i) == run[r].phase # "idle" /\ i = ItemOf(r)
WorkerShape(r) ==
    /\ UNCHANGED <<req, asked>>
    /\ \A s \in Runs : s # r => run'[s] = run[s]
    /\ \A i \in Items : calls'[i] > 0 => calls[i] > 0 \/ Mine(r, i)
    /\ \A i \in Items : \/ state'[i] = state[i]
                       \/ /\ Mine(r, i) /\ HoldsKey(r)
                          /\ state[i] \in {"pending", "failed"}
                          /\ state'[i] \in {"integrated", "failed"}
    /\ \A j \in JobIds : /\ Present(j) => Present(j)'
                         /\ Present(j)' => Present(j) \/ Mine(r, j[1])
                         /\ Closed(j)' => Closed(j) \/ HandedOn(j)'
    /\ HoldsKey(r)' => HoldsKey(r) \/ ~KeyBusy
    /\ HandedOnRun(r)' /\ WorkingRun(r)'

\* Rows stay, and no item becomes pending again: what was handed on stays so.
LEMMA HandedOnStays ==
    ASSUME TypeOK, NEW j \in JobIds, HandedOn(j),
           \A k \in JobIds : Present(k) => Present(k)',
           \A i \in Items : Moved(i) => Moved(i)'
    PROVE  HandedOn(j)'
BY JobTyped DEF HandedOn, Integrates

\* A worker's step that has that shape keeps the invariant.
LEMMA WorkerStep ==
    ASSUME TypeOK, TypeOK', ItemInv, NEW r \in Runs, WorkerShape(r)
    PROVE  KeyExclusive' /\ HeldIsIdle' /\ ClosedIsHandedOn' /\ Working' /\ Paid'
<1>1. \A s \in Runs : run[s].phase # "idle" => run[s].job \in JobIds /\ ItemOf(s) \in Items
  BY RunTyped
<1>2. \A s \in Runs : run[s].phase # "idle" => Present(run[s].job) /\ run[s].job[1] = ItemOf(s)
  BY <1>1 DEF ItemInv, ClosedIsHandedOn, HandedOnRun, ItemOf
<1>3. \A i \in Items : Moved(i) => Moved(i)'
  BY DEF WorkerShape, Moved
<1>4. \A j \in JobIds : HandedOn(j) => HandedOn(j)'
  BY <1>3, HandedOnStays DEF WorkerShape
<1>5. KeyExclusive'
  <2>1. \A s \in Runs : HoldsKey(s)' => HoldsKey(s) \/ (s = r /\ ~KeyBusy)
    BY DEF WorkerShape, HoldsKey
  <2>2. \A s, t \in Runs : HoldsKey(s)' /\ HoldsKey(t)' => s = t
    BY <2>1 DEF ItemInv, KeyExclusive, KeyBusy, HoldsKey
  <2> QED
    BY <2>2 DEF ItemInv, KeyExclusive, WorkerShape
<1>6. \A i \in Items : Mine(r, i) => /\ state[i] \notin {"absent", "dismissed"}
                                    /\ \A q \in Requests : req[q].op # "none" => i \notin req[q].got
  BY <1>1, <1>2 DEF Mine, ItemInv, HeldIsIdle
<1>7. HeldIsIdle'
  <2>1. \A q \in Requests, i \in Items :
            req'[q].op # "none" /\ i \in req'[q].got => state'[i] = "pending"
    BY <1>6 DEF WorkerShape, ItemInv, HeldIsIdle
  <2>2. \A q \in Requests, j \in JobIds :
            req'[q].op # "none" /\ j[1] \in req'[q].got => ~Present(j)'
    BY <1>6, JobTyped DEF WorkerShape, ItemInv, HeldIsIdle
  <2>3. \A j \in JobIds : state'[j[1]] \in {"absent", "dismissed"} => ~Present(j)'
    BY <1>6, JobTyped DEF WorkerShape, ItemInv, HeldIsIdle
  <2> QED
    BY <2>1, <2>2, <2>3 DEF HeldIsIdle
<1>8. ClosedIsHandedOn'
  <2>1. \A j \in JobIds : Closed(j)' => HandedOn(j)'
    BY <1>4 DEF WorkerShape, ItemInv, ClosedIsHandedOn
  <2>2. ASSUME NEW s \in Runs, s # r PROVE HandedOnRun(s)'
    <3>1. run'[s] = run[s] /\ HandedOnRun(s)
      BY <2>2 DEF WorkerShape, ItemInv, ClosedIsHandedOn
    <3> QED
      BY <1>1, <1>4, <3>1 DEF HandedOnRun, WorkerShape
  <2> QED
    BY <2>1, <2>2 DEF ClosedIsHandedOn, WorkerShape
<1>9. Working'
  <2>1. ASSUME NEW s \in Runs, s # r PROVE WorkingRun(s)'
    <3>1. run'[s] = run[s] /\ WorkingRun(s)
      BY <2>1 DEF WorkerShape, ItemInv, Working
    <3>2. HoldsKey(r) => ~HoldsKey(s)
      BY <2>1 DEF ItemInv, KeyExclusive
    <3>3. run[s].phase \in Fetching \cup {"integrating"} =>
             ItemOf(s) \in Items /\ (run[s].conn => HoldsKey(s))
      BY <1>1 DEF HoldsKey, Fetching, Locked
    <3>4. run[s].phase \in Fetching \cup {"integrating"} /\ run[s].conn =>
             state'[ItemOf(s)] = state[ItemOf(s)]
      BY <3>2, <3>3 DEF WorkerShape
    <3> QED
      BY <3>1, <3>4 DEF WorkingRun, QueueOf, ItemOf
  <2> QED
    BY <2>1 DEF Working, WorkerShape
<1>10. Paid'
  BY <1>1, <1>2 DEF Paid, ItemInv, WorkerShape, Mine
<1> QED
  BY <1>5, <1>7, <1>8, <1>9, <1>10

(***************************************************************************)
(* The steps of a worker have the shape.                                   *)
(***************************************************************************)

\* What the invariant says of an execution that is under way.
LEMMA Underway ==
    ASSUME TypeOK, ItemInv, NEW r \in Runs, run[r].phase # "idle"
    PROVE  /\ run[r].job \in JobIds /\ ItemOf(r) \in Items
           /\ run[r].job[1] = ItemOf(r) /\ run[r].job[2] = QueueOf(r)
           /\ Present(run[r].job) /\ HandedOnRun(r) /\ WorkingRun(r)
           /\ state[ItemOf(r)] \in {"pending", "integrated", "failed"}
<1>1. /\ run[r].job \in JobIds /\ ItemOf(r) \in Items
      /\ run[r].job[1] = ItemOf(r) /\ run[r].job[2] = QueueOf(r)
  BY RunTyped DEF ItemOf, QueueOf
<1>2. HandedOnRun(r) /\ WorkingRun(r) /\ Present(run[r].job)
  BY DEF ItemInv, ClosedIsHandedOn, Working, HandedOnRun
<1>3. state[ItemOf(r)] \notin {"absent", "dismissed"}
  BY <1>1, <1>2 DEF ItemInv, HeldIsIdle
<1> QED
  BY <1>1, <1>2, <1>3 DEF TypeOK

\* A step that leaves the items alone keeps what was handed on.
LEMMA HandedOnKept ==
    ASSUME TypeOK, UNCHANGED state, \A k \in JobIds : Present(k) => Present(k)'
    PROVE  \A j \in JobIds : HandedOn(j) => HandedOn(j)'
BY HandedOnStays DEF Moved

\* jobs.claim.
LEMMA ClaimShape ==
    ASSUME TypeOK, TypeOK', ItemInv, NEW r \in Runs, NEW j \in JobIds, claim(r, j)
    PROVE  WorkerShape(r)
<1> USE DEF item, hist
<1>1. rows[j] \in Rows /\ rows \in [JobIds -> Rows] /\ run \in [Runs -> Executions]
  BY DEF TypeOK
<1>2. \A k \in JobIds : /\ rows'[k].fenced = rows[k].fenced
                        /\ rows'[k].st = IF k = j THEN "running" ELSE rows[k].st
  <2> DEFINE now == [rows[j] EXCEPT !.st = "running", !.tries = rows[j].tries + 1]
  <2>1. now.fenced = rows[j].fenced /\ now.st = "running"
    BY <1>1 DEF Rows
  <2>2. rows' = [rows EXCEPT ![j] = now]
    BY DEF claim
  <2> HIDE DEF now
  <2> QED
    BY <1>1, <2>1, <2>2
<1>3. /\ \A s \in Runs : s # r => run'[s] = run[s]
      /\ run'[r].phase = "claimed" /\ run'[r].job = j /\ run'[r].fen = rows[j].fenced
  BY <1>1 DEF claim
<1>4. /\ rows[j].st \in {"ready", "running"}
      /\ UNCHANGED <<state, calls, req, asked>>
  BY DEF claim, Owed
<1>5. \A k \in JobIds : /\ Present(k)' <=> Present(k)
                        /\ Closed(k)' => Closed(k)
  BY <1>2, <1>4 DEF Present, Closed
<1>6. HandedOnRun(r)'
  <2>1. rows[j].fenced => HandedOn(j)'
    BY <1>4, <1>5, HandedOnKept DEF ItemInv, ClosedIsHandedOn, Closed
  <2>2. Present(j)'
    BY <1>2 DEF Present
  <2> QED
    BY <1>3, <2>1, <2>2 DEF HandedOnRun
<1>7. WorkingRun(r)' /\ ~HoldsKey(r)'
  BY <1>3 DEF WorkingRun, Fetching, HoldsKey, Locked
<1> QED
  BY <1>3, <1>4, <1>5, <1>6, <1>7 DEF WorkerShape

\* A worker that goes idle owes nothing further.
LEMMA ReturnShape ==
    ASSUME TypeOK, ItemInv, NEW r \in Runs, Return(r),
           UNCHANGED <<state, calls, req, asked>>,
           \A j \in JobIds : /\ Present(j) => Present(j)'
                             /\ Present(j)' => Present(j) \/ Mine(r, j[1])
                             /\ Closed(j)' => Closed(j) \/ HandedOn(j)'
    PROVE  WorkerShape(r)
<1>1. /\ \A s \in Runs : s # r => run'[s] = run[s]
      /\ run'[r].phase = "idle"
  BY ReturnEffect
<1>2. HandedOnRun(r)' /\ WorkingRun(r)' /\ ~HoldsKey(r)'
  BY <1>1 DEF HandedOnRun, WorkingRun, Fetching, HoldsKey, Locked
<1> QED
  BY <1>1, <1>2 DEF WorkerShape

\* A worker that moves to phase p under the key it has or may take.
LEMMA MoveShape ==
    ASSUME TypeOK, ItemInv, NEW r \in Runs, NEW p \in Phases, Move(r, p), run[r].phase # "idle",
           UNCHANGED <<state, req, asked>>,
           \A i \in Items : calls'[i] > 0 => calls[i] > 0 \/ Mine(r, i),
           \A j \in JobIds : /\ Present(j) => Present(j)'
                             /\ Present(j)' => Present(j) \/ Mine(r, j[1])
                             /\ Closed(j)' => Closed(j) \/ HandedOn(j)',
           p \in Locked => run[r].phase \in Locked \/ ~KeyBusy,
           p \in {"noop", "landed"} =>
                \A j \in JobIds : j = run[r].job => HandedOn(j) \/ HandedOn(j)',
           p = "integrating" => /\ QueueOf(r) = "integrate"
                                /\ run[r].conn => state[ItemOf(r)] \in {"pending", "failed"},
           p \in Fetching => /\ QueueOf(r) = "enrich"
                             /\ run[r].conn => state[ItemOf(r)] = "pending"
    PROVE  WorkerShape(r)
<1>1. /\ \A s \in Runs : s # r => run'[s] = run[s]
      /\ run'[r].phase = p /\ run'[r].job = run[r].job /\ run'[r].fen = run[r].fen
      /\ run'[r].conn = run[r].conn
  BY MoveEffect
<1>2. run[r].job \in JobIds /\ HandedOnRun(r) /\ Present(run[r].job)
  BY Underway
<1>3. \A j \in JobIds : HandedOn(j) => HandedOn(j)'
  BY HandedOnKept
<1>4. HandedOnRun(r)'
  BY <1>1, <1>2, <1>3 DEF HandedOnRun
<1>5. WorkingRun(r)'
  BY <1>1 DEF WorkingRun, QueueOf, ItemOf
<1>6. HoldsKey(r)' => HoldsKey(r) \/ ~KeyBusy
  BY <1>1 DEF HoldsKey
<1> QED
  BY <1>1, <1>4, <1>5, <1>6 DEF WorkerShape

\* Executions that start, stop, lose their session or settle.
LEMMA QueueShape ==
    ASSUME TypeOK, TypeOK', ItemInv, NEW r \in Runs,
           defer(r) \/ start(r) \/ NoOp(r) \/ complete(r) \/ Crash(r) \/ LoseConnection(r)
             \/ AbandonPass(r) \/ write_back(r) \/ Retry(r)
    PROVE  WorkerShape(r)
<1> USE DEF item, hist
<1> DEFINE SameRows == \A j \in JobIds : (Present(j)' <=> Present(j)) /\ (Closed(j)' => Closed(j))
<1>0. UNCHANGED rows => SameRows
  BY DEF Present, Closed
<1>1. CASE defer(r)
  <2>1. run[r].phase # "idle" /\ Return(r) /\ UNCHANGED <<state, calls, req, asked>>
    BY <1>1 DEF defer, At
  <2>2. run[r].job \in JobIds /\ rows[run[r].job] \in Rows /\ rows \in [JobIds -> Rows]
    BY <2>1, RunTyped DEF TypeOK
  <2> DEFINE j == run[r].job
             now == [rows[j] EXCEPT !.st = "ready", !.tries = rows[j].tries - 1]
  <2>3. now.fenced = rows[j].fenced /\ now.st = "ready"
    BY <2>2 DEF Rows
  <2>4. rows' = [rows EXCEPT ![j] = IF Exists(j) THEN now ELSE rows[j]]
    BY <1>1 DEF defer
  <2> HIDE DEF now
  <2>5. SameRows
    BY <2>2, <2>3, <2>4 DEF Present, Closed, Exists
  <2> QED
    BY <2>1, <2>5, ReturnShape
<1>2. CASE start(r)
  <2>1. run[r].phase = "claimed" /\ run[r].conn /\ ~KeyBusy /\ UNCHANGED <<state, calls, req, asked, rows>>
    BY <1>2 DEF start, At
  <2>2. /\ HandedOnRun(r) /\ run[r].job[1] = ItemOf(r) /\ run[r].job[2] = QueueOf(r)
        /\ state[ItemOf(r)] \in {"pending", "integrated", "failed"} /\ QueueOf(r) \in Queues
        /\ run[r].fen \in BOOLEAN
    <3>1. run[r].phase # "idle"
      BY <2>1
    <3>2. run[r] \in Executions
      BY DEF TypeOK
    <3>3. run[r].fen \in BOOLEAN
      BY <3>2, ExecutionUpdate
    <3> QED
      BY <3>1, <3>3, Underway, RunTyped
  <2>3. CASE run[r].fen
    <3>1. Move(r, "landed") /\ HandedOn(run[r].job)
      BY <1>2, <2>1, <2>2, <2>3 DEF start, HandedOnRun
    <3> QED
      BY <1>0, <2>1, <3>1, MoveShape DEF Phases, Locked, Fetching
  <2>4. CASE ~run[r].fen /\ QueueOf(r) = "integrate"
    <3>1. Move(r, integrate_reads(ItemOf(r)))
      BY <1>2, <2>4 DEF start
    <3>2. CASE state[ItemOf(r)] = "integrated"
      <4>1. Move(r, "noop") /\ HandedOn(run[r].job)
        BY <2>2, <3>1, <3>2 DEF integrate_reads, HandedOn, Moved
      <4> QED
        BY <1>0, <2>1, <4>1, MoveShape DEF Phases, Locked, Fetching
    <3>3. CASE state[ItemOf(r)] \in {"pending", "failed"}
      <4>1. Move(r, "integrating")
        BY <3>1, <3>3 DEF integrate_reads
      <4> QED
        BY <1>0, <2>1, <2>4, <3>3, <4>1, MoveShape DEF Phases, Locked, Fetching
    <3> QED
      BY <2>2, <3>2, <3>3
  <2>5. CASE ~run[r].fen /\ QueueOf(r) = "enrich"
    <3>1. Move(r, enrich_reads(ItemOf(r)))
      BY <1>2, <2>5 DEF start
    <3>2. CASE state[ItemOf(r)] # "pending"
      <4>1. Move(r, "noop") /\ HandedOn(run[r].job)
        BY <2>2, <3>1, <3>2 DEF enrich_reads, HandedOn, Moved
      <4> QED
        BY <1>0, <2>1, <4>1, MoveShape DEF Phases, Locked, Fetching
    <3>3. CASE state[ItemOf(r)] = "pending"
      <4>1. PICK p \in {"requeue", "interrupted", "planning"} : Move(r, p)
        BY <3>1, <3>3 DEF enrich_reads
      <4> QED
        BY <1>0, <2>1, <2>5, <3>3, <4>1, MoveShape DEF Phases, Locked, Fetching
    <3> QED
      BY <3>2, <3>3
  <2> QED
    BY <2>2, <2>3, <2>4, <2>5 DEF Queues
<1>3. CASE NoOp(r)
  <2>1. /\ run[r].phase = "noop" /\ Move(r, "landed") /\ Fence(run[r].job)
        /\ UNCHANGED <<state, calls, req, asked>>
    BY <1>3 DEF NoOp, At
  <2>2. run[r].job \in JobIds /\ HandedOn(run[r].job)
    BY <2>1, Underway DEF HandedOnRun
  <2>3. \A j \in JobIds : /\ rows'[j].st = rows[j].st
                          /\ j # run[r].job => rows'[j].fenced = rows[j].fenced
    BY <2>1, <2>2, FenceEffect
  <2>4. \A j \in JobIds : Present(j)' <=> Present(j)
    BY <2>3 DEF Present
  <2>5. \A j \in JobIds : Closed(j)' => Closed(j) \/ HandedOn(j)'
    BY <2>1, <2>2, <2>3, <2>4, HandedOnKept DEF Closed
  <2> QED
    BY <2>1, <2>2, <2>4, <2>5, MoveShape DEF Phases, Locked, Fetching
<1>4. CASE complete(r)
  <2>1. /\ run[r].phase = "landed" /\ SetRow(run[r].job, "done")
        /\ Move(r, "after") \/ Return(r)
        /\ UNCHANGED <<state, calls, req, asked>>
    BY <1>4 DEF complete, At
  <2>2. run[r].job \in JobIds /\ HandedOn(run[r].job)
    BY <2>1, Underway DEF HandedOnRun
  <2>3. \A j \in JobIds :
            /\ rows'[j].fenced = rows[j].fenced
            /\ rows'[j].st = rows[j].st \/ (j = run[r].job /\ Exists(run[r].job) /\ rows'[j].st = "done")
    BY <2>1, <2>2, SetRowEffect DEF RowStates
  <2>4. \A j \in JobIds : Present(j)' <=> Present(j)
    BY <2>3 DEF Present, Exists
  <2>5. \A j \in JobIds : Closed(j)' => Closed(j) \/ HandedOn(j)'
    BY <2>1, <2>2, <2>3, <2>4, HandedOnKept DEF Closed
  <2>6. CASE Move(r, "after")
    BY <2>1, <2>4, <2>5, <2>6, MoveShape DEF Phases, Locked, Fetching
  <2>7. CASE Return(r)
    BY <2>1, <2>4, <2>5, <2>7, ReturnShape
  <2> QED
    BY <2>1, <2>6, <2>7
<1>5. CASE LoseConnection(r)
  <2>1. UNCHANGED <<state, calls, req, asked, rows>> /\ run[r].phase # "idle"
    BY <1>5 DEF LoseConnection
  <2>2. run[r] \in Executions /\ run \in [Runs -> Executions] /\ run[r].job \in JobIds
    BY <2>1 DEF TypeOK
  <2> DEFINE now == [run[r] EXCEPT !.conn = FALSE]
  <2>3. now.phase = run[r].phase /\ now.job = run[r].job /\ now.fen = run[r].fen /\ ~now.conn
    BY <2>2, ExecutionUpdate
  <2>4. run' = [run EXCEPT ![r] = now]
    BY <1>5 DEF LoseConnection
  <2> HIDE DEF now
  <2>5. /\ \A s \in Runs : s # r => run'[s] = run[s]
        /\ run'[r].phase = run[r].phase /\ run'[r].job = run[r].job
        /\ run'[r].fen = run[r].fen /\ ~run'[r].conn
    BY <2>2, <2>3, <2>4
  <2>6. HandedOnRun(r) /\ WorkingRun(r)
    BY <2>1, Underway
  <2>7. HandedOnRun(r)'
    BY <2>1, <2>5, <2>6 DEF HandedOnRun, HandedOn, Moved, Integrates, Present
  <2>8. WorkingRun(r)' /\ ~HoldsKey(r)'
    BY <2>1, <2>5, <2>6 DEF WorkingRun, QueueOf, ItemOf, HoldsKey
  <2> QED
    BY <1>0, <2>1, <2>5, <2>7, <2>8 DEF WorkerShape
<1>6. CASE Crash(r) \/ AbandonPass(r) \/ write_back(r)
  <2>1. Return(r) /\ UNCHANGED <<state, calls, req, asked, rows>>
    BY <1>6 DEF Crash, AbandonPass, write_back
  <2> QED
    BY <1>0, <2>1, ReturnShape
<1>7. CASE Retry(r)
  <2>1. /\ run[r].phase # "idle" /\ SetRow(run[r].job, "ready") /\ Return(r)
        /\ UNCHANGED <<state, calls, req, asked>>
    BY <1>7 DEF Retry, CanRaise
  <2>2. run[r].job \in JobIds
    BY <2>1, Underway
  <2>3. \A j \in JobIds :
            /\ rows'[j].fenced = rows[j].fenced
            /\ rows'[j].st = rows[j].st \/ (j = run[r].job /\ Exists(run[r].job) /\ rows'[j].st = "ready")
    BY <2>1, <2>2, SetRowEffect DEF RowStates
  <2>4. SameRows
    BY <2>3 DEF Present, Exists, Closed
  <2> QED
    BY <2>1, <2>4, ReturnShape
<1> QED
  BY <1>1, <1>2, <1>3, <1>4, <1>5, <1>6, <1>7

\* The commit of handle_enrich closes its row and inserts the integrate row.
LEMMA CommitShape ==
    ASSUME TypeOK, TypeOK', ItemInv, NEW r \in Runs, NEW status,
           run[r].phase \in Fetching, CommitEnrich(r, status)
    PROVE  WorkerShape(r)
<1> USE DEF item, hist
<1>1. run[r].phase # "idle" /\ run[r].phase \in Locked
  BY DEF Fetching, Locked
<1>2. /\ run[r].job \in JobIds /\ ItemOf(r) \in Items /\ QueueOf(r) = "enrich"
      /\ run[r].job[1] = ItemOf(r) /\ run[r].job[2] = "enrich" /\ WorkingRun(r)
      /\ rows[run[r].job].deliberate \in BOOLEAN
  BY <1>1, Underway, RunTyped DEF WorkingRun
<1>3. Move(r, "landed") /\ UNCHANGED <<state, calls, req, asked>>
  BY DEF CommitEnrich
<1> DEFINE new == {j \in RowsOf(ItemOf(r)) : j[2] = "integrate" /\ IsNext(j)}
<1>4. /\ \A j \in new : j \in JobIds /\ j[1] = ItemOf(r) /\ j[2] = "integrate" /\ ~Present(j)
      /\ \E k \in JobIds : k \in new
  BY DEF CommitEnrich, _queue_integration, RowsOf, IsNext, Present
<1> DEFINE landing == {run[r].job}
           d == rows[run[r].job].deliberate
<1>5. d \in BOOLEAN /\ Insert(new, d, landing)
  BY <1>2 DEF CommitEnrich, _queue_integration
<1>5a. \A j : j \in landing => j = run[r].job
  OBVIOUS
<1> HIDE DEF new, landing, d
<1>6. \A j \in JobIds :
         /\ j \in new => rows'[j].st = "ready" /\ rows'[j].fenced = FALSE
         /\ j \notin new => rows'[j].st = rows[j].st
  BY <1>5, InsertEffect
<1>6a. \A j \in JobIds : j \notin new /\ j # run[r].job => rows'[j] = rows[j]
  BY <1>5, <1>5a DEF Insert
<1>7. \A j \in JobIds : /\ Present(j) => Present(j)'
                        /\ Present(j)' => Present(j) \/ Mine(r, j[1])
  BY <1>1, <1>4, <1>6 DEF Present, Mine
<1>8. \A j \in JobIds : j = run[r].job => HandedOn(j)'
  <2>1. PICK k \in JobIds : k \in new
    BY <1>4
  <2>2. k[1] = ItemOf(r) /\ k[2] = "integrate" /\ Present(k)'
    BY <1>4, <1>6, <2>1 DEF Present
  <2> QED
    BY <1>2, <2>2 DEF HandedOn, Integrates
<1>9. \A j \in JobIds : Closed(j)' => Closed(j) \/ HandedOn(j)'
  BY <1>6, <1>6a, <1>8 DEF Closed
<1> QED
  BY <1>1, <1>3, <1>7, <1>8, <1>9, MoveShape DEF Phases, Locked, Fetching

\* The side connection and the agent, with or without the session.
LEMMA AgentShape ==
    ASSUME TypeOK, TypeOK', ItemInv, NEW r \in Runs, _announce_running(r) \/ call(r)
    PROVE  WorkerShape(r)
<1> USE DEF item, hist
<1>1. PICK p \in {"announced", "calling"} :
         /\ run[r].phase \in {"planning", "announced"} /\ Move(r, p)
         /\ UNCHANGED <<state, req, asked, rows>>
  BY DEF _announce_running, call
<1>2. /\ ItemOf(r) \in Items /\ run[r].phase \in Fetching /\ WorkingRun(r)
      /\ run[r].phase # "idle"
  BY <1>1, Underway DEF Fetching
<1>3. \A i \in Items : calls'[i] > 0 => calls[i] > 0 \/ Mine(r, i)
  BY <1>2 DEF _announce_running, call, Mine, TypeOK
<1>4. \A j \in JobIds : (Present(j)' <=> Present(j)) /\ (Closed(j)' => Closed(j))
  BY <1>1 DEF Present, Closed
<1> QED
  BY <1>1, <1>2, <1>3, <1>4, MoveShape DEF Phases, Locked, Fetching, WorkingRun

\* handle_integrate's commit.
LEMMA IntegrateShape ==
    ASSUME TypeOK, TypeOK', ItemInv, NEW r \in Runs, handle_integrate(r)
    PROVE  WorkerShape(r) /\ LinkedIffIntegrated'
<1> USE DEF item, hist
<1>1. run[r].phase = "integrating" /\ run[r].conn /\ UNCHANGED <<calls, req, asked>>
  BY DEF handle_integrate, At
<1>2. /\ run[r].job \in JobIds /\ ItemOf(r) \in Items /\ run[r].job[1] = ItemOf(r)
      /\ Present(run[r].job) /\ state[ItemOf(r)] \in {"pending", "failed"}
  BY <1>1, Underway DEF WorkingRun
<1>3. HoldsKey(r) /\ \A i \in Items : Mine(r, i) <=> i = ItemOf(r)
  BY <1>1 DEF HoldsKey, Locked, Mine
<1>4. \A i \in Items : state'[i] = IF i = ItemOf(r) THEN "integrated" ELSE state[i]
  BY <1>2 DEF handle_integrate, TypeOK
<1>5. \A j \in JobIds : /\ rows'[j].st = rows[j].st
                        /\ j # run[r].job => rows'[j].fenced = rows[j].fenced
  BY <1>2, FenceEffect DEF handle_integrate
<1>6. \A j \in JobIds : j[1] = ItemOf(r) => HandedOn(j)'
  BY <1>2, <1>4 DEF HandedOn, Moved
<1>7. \A j \in JobIds : (Present(j)' <=> Present(j)) /\ (Closed(j)' => Closed(j) \/ HandedOn(j)')
  BY <1>2, <1>5, <1>6 DEF Present, Closed
<1>8. /\ \A s \in Runs : s # r => run'[s] = run[s]
      /\ run'[r].phase = "landed" /\ run'[r].job = run[r].job
  <2>1. run[r] \in Executions /\ run \in [Runs -> Executions]
    BY DEF TypeOK
  <2> DEFINE now == [run[r] EXCEPT !.phase = "landed", !.steps = schedule(r)]
  <2>2. now.phase = "landed" /\ now.job = run[r].job
    BY <2>1 DEF Executions
  <2>3. run' = [run EXCEPT ![r] = now]
    BY DEF handle_integrate
  <2> HIDE DEF now
  <2> QED
    BY <2>1, <2>2, <2>3
<1>9. HandedOnRun(r)'
  BY <1>2, <1>6, <1>7, <1>8 DEF HandedOnRun
<1>10. WorkingRun(r)'
  BY <1>8 DEF WorkingRun, Fetching
<1>11. WorkerShape(r)
  BY <1>1, <1>2, <1>3, <1>4, <1>7, <1>8, <1>9, <1>10 DEF WorkerShape
<1>12. LinkedIffIntegrated'
  <2>1. \A i \in Items : links'[i] = IF i = ItemOf(r) THEN links[i] + 1 ELSE links[i]
    BY <1>2 DEF handle_integrate, LinkToStory, TypeOK
  <2> QED
    BY <1>4, <2>1 DEF LinkedIffIntegrated, ItemInv, TypeOK
<1> QED
  BY <1>11, <1>12

\* The failure recorders.
LEMMA GiveUpShape ==
    ASSUME TypeOK, TypeOK', ItemInv, NEW r \in Runs, GiveUp(r)
    PROVE  WorkerShape(r) /\ LinkedIffIntegrated'
<1> USE DEF item, hist
<1>1. /\ run[r].phase \in {"integrating", "planning", "calling"} /\ run[r].conn /\ Return(r)
      /\ run[r].phase # "idle" /\ UNCHANGED <<links, calls, req, asked>>
  BY DEF GiveUp, CanRaise
<1>2. /\ run[r].job \in JobIds /\ ItemOf(r) \in Items /\ run[r].job[1] = ItemOf(r)
      /\ run[r].job[2] = QueueOf(r) /\ Present(run[r].job) /\ WorkingRun(r)
  BY <1>1, Underway
<1>3. CASE QueueOf(r) = "integrate" /\ source_item_failed(r)
  <2>1. state[ItemOf(r)] \in {"pending", "failed"} /\ HoldsKey(r)
    BY <1>1, <1>2, <1>3 DEF WorkingRun, Fetching, HoldsKey, Locked
  <2>2. \A i \in Items : state'[i] = IF i = ItemOf(r) THEN "failed" ELSE state[i]
    BY <1>2, <1>3 DEF source_item_failed, TypeOK
  <2>3. \A j \in JobIds :
            /\ rows'[j].fenced = rows[j].fenced
            /\ rows'[j].st = rows[j].st \/ (j = run[r].job /\ Exists(run[r].job) /\ rows'[j].st = "failed")
    BY <1>2, <1>3, SetRowEffect DEF source_item_failed, RowStates
  <2>4. \A j \in JobIds : j[1] = ItemOf(r) => HandedOn(j)'
    BY <1>2, <2>2 DEF HandedOn, Moved
  <2>5. \A j \in JobIds : (Present(j)' <=> Present(j)) /\ (Closed(j)' => Closed(j) \/ HandedOn(j)')
    BY <1>2, <2>3, <2>4 DEF Present, Closed, Exists
  <2>6. /\ \A s \in Runs : s # r => run'[s] = run[s]
        /\ run'[r].phase = "idle"
    BY <1>1, ReturnEffect
  <2>7. HandedOnRun(r)' /\ WorkingRun(r)' /\ ~HoldsKey(r)'
    BY <2>6 DEF HandedOnRun, WorkingRun, Fetching, HoldsKey, Locked
  <2>8. \A i \in Items : Mine(r, i) <=> i = ItemOf(r)
    BY <1>1 DEF Mine
  <2>9. WorkerShape(r)
    BY <1>1, <2>1, <2>2, <2>5, <2>6, <2>7, <2>8 DEF WorkerShape
  <2>10. LinkedIffIntegrated'
    BY <1>1, <2>1, <2>2 DEF LinkedIffIntegrated, ItemInv
  <2> QED
    BY <2>9, <2>10
<1>4. CASE QueueOf(r) = "enrich" /\ record_enrich_failure(r)
  <2>1. state[ItemOf(r)] = "pending" /\ UNCHANGED state
    BY <1>1, <1>2, <1>4 DEF WorkingRun, Fetching, record_enrich_failure
  <2> DEFINE j == run[r].job
             now == IF Exists(j) THEN [rows[j] EXCEPT !.st = "failed"] ELSE rows[j]
             new == [NoRow EXCEPT !.st = "ready", !.deliberate = rows[j].deliberate]
  <2>2. PICK k \in RowsOf(ItemOf(r)) : /\ k[2] = "integrate" /\ IsNext(k)
                                       /\ rows' = [rows EXCEPT ![j] = now, ![k] = new]
    BY <1>4, <2>1 DEF record_enrich_failure
  <2>3. k \in JobIds /\ k[1] = ItemOf(r) /\ ~Present(k) /\ k # j
    BY <1>2, <1>4, <2>2 DEF RowsOf, IsNext, Present
  <2>4. rows \in [JobIds -> Rows] /\ rows[j] \in Rows /\ j \in JobIds
    BY <1>2 DEF TypeOK
  <2>5. now.fenced = rows[j].fenced /\ (now.st = "absent" <=> rows[j].st = "absent")
    BY <2>4 DEF Rows, Exists
  <2>6. new.st = "ready" /\ new.fenced = FALSE
    <3>1. PICK d \in BOOLEAN : d = rows[j].deliberate
      BY <2>4 DEF Rows
    <3>2. new = [NoRow EXCEPT !.st = "ready", !.deliberate = d]
      BY <3>1
    <3> HIDE DEF new
    <3> QED
      BY <3>2, RecordsTyped
  <2> HIDE DEF now, new
  <2>7. /\ rows'[k].st = "ready" /\ rows'[k].fenced = FALSE
        /\ rows'[j].fenced = rows[j].fenced /\ (rows'[j].st = "absent" <=> rows[j].st = "absent")
        /\ \A m \in JobIds : m # k /\ m # j => rows'[m] = rows[m]
    BY <2>2, <2>3, <2>4, <2>5, <2>6
  <2>8. Present(k)' /\ ~Closed(k)'
    BY <2>7 DEF Present, Closed
  <2>9. \A m \in JobIds : m[1] = ItemOf(r) /\ m[2] = "enrich" => HandedOn(m)'
    BY <2>2, <2>3, <2>8 DEF HandedOn, Integrates
  <2>10. \A m \in JobIds : /\ Present(m) => Present(m)'
                           /\ Present(m)' => Present(m) \/ Mine(r, m[1])
    BY <1>1, <2>3, <2>7 DEF Present, Mine
  <2>11. \A m \in JobIds : Closed(m)' => Closed(m) \/ HandedOn(m)'
    BY <1>2, <1>4, <2>7, <2>8, <2>9 DEF Closed
  <2>12. WorkerShape(r)
    BY <1>1, <2>1, <2>10, <2>11, ReturnShape
  <2> QED
    BY <1>1, <2>1, <2>12 DEF LinkedIffIntegrated, ItemInv
<1> QED
  BY <1>3, <1>4 DEF GiveUp

(***************************************************************************)
(* The steps of everyone else: they touch no execution, and no item that   *)
(* has a row.                                                              *)
(***************************************************************************)
Rowless(i) == \A j \in JobIds : j[1] = i => ~Present(j)

\* Such a step keeps what the invariant says of rows and executions.
LEMMA OutsideStep ==
    ASSUME TypeOK, TypeOK', ItemInv, UNCHANGED run,
           \A j \in JobIds : /\ Present(j) => Present(j)'
                             /\ Closed(j)' => Closed(j) \/ HandedOn(j)',
           \A i \in Items : state'[i] = state[i] \/ (Rowless(i) /\ ~Moved(i))
    PROVE  ClosedIsHandedOn' /\ Working'
<1>1. \A i \in Items : Moved(i) => Moved(i)'
  BY DEF Moved
<1>2. \A j \in JobIds : HandedOn(j) => HandedOn(j)'
  BY <1>1, HandedOnStays
<1>3. ClosedIsHandedOn'
  <2>1. \A j \in JobIds : Closed(j)' => HandedOn(j)'
    BY <1>2 DEF ItemInv, ClosedIsHandedOn
  <2>2. ASSUME NEW s \in Runs PROVE HandedOnRun(s)'
    <3>1. HandedOnRun(s) /\ (run[s].phase # "idle" => run[s].job \in JobIds)
      BY DEF ItemInv, ClosedIsHandedOn, TypeOK
    <3> QED
      BY <1>2, <3>1 DEF HandedOnRun
  <2> QED
    BY <2>1, <2>2 DEF ClosedIsHandedOn
<1>4. ASSUME NEW s \in Runs PROVE WorkingRun(s)'
  <2>1. run[s].phase # "idle" => /\ ItemOf(s) \in Items /\ ~Rowless(ItemOf(s))
    BY Underway DEF Rowless
  <2>2. WorkingRun(s)
    BY DEF ItemInv, Working
  <2> QED
    BY <2>1, <2>2 DEF WorkingRun, QueueOf, ItemOf, Fetching
<1> QED
  BY <1>3, <1>4 DEF Working

\* A held item, as _HELD_WHERE has it, has no row: had one been deleted, it
\* would have been handed on.
LEMMA HeldIsRowless ==
    ASSUME TypeOK, ItemInv, NEW i \in Items, Held(i)
    PROVE  state[i] = "pending" /\ Rowless(i)
<1>1. /\ state[i] = "pending" /\ ~Moved(i)
      /\ \A j \in JobIds : j[1] = i => rows[j].st \in {"absent", "pruned"}
  BY DEF Held, Exists, RowsOf, Moved
<1>2. \A j \in JobIds : j[1] = i /\ Present(j) => j[2] = "enrich" /\ Integrates(i)
  BY <1>1 DEF ItemInv, ClosedIsHandedOn, Closed, HandedOn, Present
<1>3. ~Integrates(i)
  BY <1>2 DEF Integrates
<1> QED
  BY <1>1, <1>2, <1>3 DEF Rowless

\* An item without a row has a first one to insert, on either queue.
LEMMA FirstRow ==
    ASSUME TypeOK, NEW i \in Items, NEW q \in Queues, Rowless(i)
    PROVE  \E j \in JobIds : j[1] = i /\ j[2] = q /\ IsNext(j)
<1>1. 1 \in 1..MaxRows
  OBVIOUS
<1> DEFINE j == <<i, q, 1>>
<1>2. j \in JobIds /\ j[1] = i /\ j[2] = q /\ j[3] = 1
  BY <1>1 DEF JobIds
<1>3. rows[j].st = "absent"
  BY <1>2 DEF Rowless, Present
<1> HIDE DEF j
<1>4. IsNext(j)
  BY <1>2, <1>3 DEF IsNext
<1> QED
  BY <1>2, <1>4

\* Arrivals, requests and the sweep keep the invariant.
LEMMA RequestStep ==
    ASSUME TypeOK, TypeOK', ItemInv, NEW i, NEW q, NEW k, NEW ids \in SUBSET Items, NEW op,
           \/ i \in Items /\ (handle_extract(i) \/ enqueue_paste(i))
           \/ q \in Requests /\ (Commit(q) \/ Rollback(q) \/ SelectHeld(q, op, ids))
           \/ k \in JobIds /\ prune(k)
    PROVE  /\ KeyExclusive' /\ HeldIsIdle' /\ ClosedIsHandedOn' /\ Working'
           /\ Paid' /\ LinkedIffIntegrated'
<1> USE DEF item, hist
<1> DEFINE SameRows == \A j \in JobIds : (Present(j)' <=> Present(j)) /\ (Closed(j)' => Closed(j))
<1>0. UNCHANGED rows => SameRows
  BY DEF Present, Closed
<1>1. UNCHANGED run /\ UNCHANGED req => KeyExclusive'
  BY DEF KeyExclusive, HoldsKey, ItemInv
<1>2. \A a \in Items : state[a] \in {"absent", "dismissed"} => Rowless(a)
  BY DEF ItemInv, HeldIsIdle, Rowless
<1>3. NoRequest.op = "none"
  BY DEF NoRequest
<1>4. CASE i \in Items /\ handle_extract(i)
  <2>1. /\ state[i] = "absent" /\ state' = [state EXCEPT ![i] = "pending"]
        /\ UNCHANGED <<links, rows, run, req, calls, asked>>
    BY <1>4 DEF handle_extract
  <2>2. \A a \in Items : state'[a] = IF a = i THEN "pending" ELSE state[a]
    BY <2>1 DEF TypeOK
  <2>3. ClosedIsHandedOn' /\ Working'
    BY <1>0, <1>2, <2>1, <2>2, OutsideStep DEF Moved
  <2>4. HeldIsIdle'
    BY <1>0, <2>1, <2>2, JobTyped DEF HeldIsIdle, ItemInv
  <2>5. Paid' /\ LinkedIffIntegrated'
    BY <1>0, <2>1, <2>2 DEF Paid, LinkedIffIntegrated, ItemInv
  <2> QED
    BY <1>1, <2>1, <2>3, <2>4, <2>5
<1>5. CASE i \in Items /\ enqueue_paste(i)
  <2> DEFINE new == {j \in RowsOf(i) : j[2] = "integrate" /\ IsNext(j)}
  <2>1. /\ state[i] = "absent" /\ state' = [state EXCEPT ![i] = "pending"]
        /\ Insert(new, FALSE, {}) /\ asked' = asked \cup {i}
        /\ UNCHANGED <<links, run, req, calls>>
    BY <1>5 DEF enqueue_paste
  <2>2. \A a \in Items : state'[a] = IF a = i THEN "pending" ELSE state[a]
    BY <2>1 DEF TypeOK
  <2>3. /\ Rowless(i) /\ \E j \in JobIds : j \in new
        /\ \A j \in new : j \in JobIds /\ j[1] = i
    BY <1>2, <1>5, <2>1, FirstRow DEF Queues, RowsOf
  <2>4. \A j \in JobIds : j \notin new => rows'[j] = rows[j]
    BY <2>1 DEF Insert
  <2> HIDE DEF new
  <2>5. \A j \in JobIds : j \in new => rows'[j].st = "ready" /\ rows'[j].fenced = FALSE
    BY <2>1, InsertEffect
  <2>6. \A j \in JobIds : /\ Present(j) => Present(j)'
                          /\ Closed(j)' => Closed(j)
                          /\ Present(j)' => Present(j) \/ j[1] = i
                          /\ j \in new => Present(j)'
    BY <2>3, <2>4, <2>5 DEF Present, Closed
  <2>7. ClosedIsHandedOn' /\ Working'
    BY <2>1, <2>2, <2>3, <2>6, OutsideStep DEF Moved
  <2>8. HeldIsIdle'
    BY <2>1, <2>2, <2>6, JobTyped DEF HeldIsIdle, ItemInv
  <2>9. Paid'
    BY <2>1, <2>3, <2>6 DEF Paid, ItemInv
  <2>10. LinkedIffIntegrated'
    BY <2>1, <2>2 DEF LinkedIffIntegrated, ItemInv
  <2> QED
    BY <1>1, <2>1, <2>7, <2>8, <2>9, <2>10
<1>6. CASE q \in Requests /\ SelectHeld(q, op, ids)
  <2> DEFINE got == {a \in ids : Held(a)}
  <2>1. /\ UNCHANGED <<state, links, rows, run, calls, asked>>
        /\ \A p \in Requests : req[p].op = "none"
        /\ req' = [req EXCEPT ![q] = [op |-> op, got |-> got]]
    BY <1>6 DEF SelectHeld, _lock_held
  <2>2. \A a \in got : a \in Items /\ state[a] = "pending" /\ Rowless(a)
    BY HeldIsRowless
  <2> HIDE DEF got
  <2>3. /\ req'[q].got = got
        /\ \A p \in Requests : p # q => req'[p].op = "none"
    BY <2>1 DEF TypeOK
  <2>4. KeyExclusive'
    BY <2>1, <2>3 DEF KeyExclusive, HoldsKey, ItemInv
  <2>5. HeldIsIdle'
    BY <1>0, <2>1, <2>2, <2>3, JobTyped DEF HeldIsIdle, ItemInv, Rowless
  <2>6. ClosedIsHandedOn' /\ Working'
    BY <1>0, <2>1, OutsideStep
  <2>7. Paid' /\ LinkedIffIntegrated'
    BY <1>0, <2>1 DEF Paid, LinkedIffIntegrated, ItemInv
  <2> QED
    BY <2>4, <2>5, <2>6, <2>7
<1>7. CASE q \in Requests /\ enqueue_integration(q)
  <2>1. /\ req[q].op # "none" /\ req' = [req EXCEPT ![q] = NoRequest]
        /\ asked' = asked \cup req[q].got
        /\ UNCHANGED <<state, links, run, calls>>
    BY <1>7 DEF enqueue_integration
  <2>2. PICK new \in SUBSET JobIds :
           /\ \A j \in new : j[1] \in req[q].got
           /\ \A a \in req[q].got : \E j \in new : j[1] = a
           /\ Insert(new, TRUE, {})
    BY <1>7 DEF enqueue_integration
  <2>3. \A p \in Requests : req'[p].op = "none" \/ (p # q /\ req'[p] = req[p])
    BY <1>3, <2>1 DEF TypeOK
  <2>4. \A p \in Requests : req'[p].op = "none"
    BY <1>7, <2>1, <2>3 DEF ItemInv, KeyExclusive
  <2>5. \A j \in new : state[j[1]] = "pending"
    BY <1>7, <2>1, <2>2, JobTyped DEF ItemInv, HeldIsIdle
  <2>6. \A j \in JobIds : j \notin new => rows'[j] = rows[j]
    BY <2>2 DEF Insert
  <2>7. \A j \in JobIds : j \in new => rows'[j].st = "ready" /\ rows'[j].fenced = FALSE
    BY <2>2, InsertEffect
  <2>8. \A j \in JobIds : /\ Present(j) => Present(j)'
                          /\ Closed(j)' => Closed(j)
                          /\ Present(j)' => Present(j) \/ j \in new
                          /\ j \in new => Present(j)'
    BY <2>6, <2>7 DEF Present, Closed
  <2>9. KeyExclusive'
    BY <2>1, <2>4 DEF KeyExclusive, HoldsKey, ItemInv
  <2>10. HeldIsIdle'
    BY <2>1, <2>4, <2>5, <2>8 DEF HeldIsIdle, ItemInv
  <2>11. ClosedIsHandedOn' /\ Working'
    BY <2>1, <2>8, OutsideStep
  <2>12. Paid'
    BY <2>1, <2>2, <2>8 DEF Paid, ItemInv
  <2>13. LinkedIffIntegrated'
    BY <2>1 DEF LinkedIffIntegrated, ItemInv
  <2> QED
    BY <2>9, <2>10, <2>11, <2>12, <2>13
<1>8. CASE q \in Requests /\ dismiss_held_source_items(q)
  <2>1. /\ req[q].op # "none" /\ req' = [req EXCEPT ![q] = NoRequest]
        /\ \A a \in Items : state'[a] = IF a \in req[q].got THEN "dismissed" ELSE state[a]
        /\ UNCHANGED <<links, rows, run, calls, asked>>
    BY <1>8 DEF dismiss_held_source_items
  <2>2. \A p \in Requests : req'[p].op = "none" \/ (p # q /\ req'[p] = req[p])
    BY <1>3, <2>1 DEF TypeOK
  <2>3. \A p \in Requests : req'[p].op = "none"
    BY <1>8, <2>1, <2>2 DEF ItemInv, KeyExclusive
  <2>4. \A a \in Items : a \in req[q].got => state[a] = "pending" /\ Rowless(a)
    BY <1>8, <2>1 DEF ItemInv, HeldIsIdle, Rowless
  <2>5. KeyExclusive'
    BY <2>1, <2>3 DEF KeyExclusive, HoldsKey, ItemInv
  <2>6. HeldIsIdle'
    BY <1>0, <2>1, <2>3, <2>4, JobTyped DEF HeldIsIdle, ItemInv, Rowless
  <2>7. ClosedIsHandedOn' /\ Working'
    BY <1>0, <2>1, <2>4, OutsideStep DEF Moved
  <2>8. Paid' /\ LinkedIffIntegrated'
    BY <1>0, <2>1, <2>4 DEF Paid, LinkedIffIntegrated, ItemInv
  <2> QED
    BY <2>5, <2>6, <2>7, <2>8
<1>9. CASE q \in Requests /\ Rollback(q)
  <2>1. req' = [req EXCEPT ![q] = NoRequest] /\ UNCHANGED <<state, links, rows, run, calls, asked>>
    BY <1>9 DEF Rollback
  <2>2. \A p \in Requests : req'[p].op = "none" \/ req'[p] = req[p]
    BY <1>3, <2>1 DEF TypeOK
  <2>3. KeyExclusive'
    BY <2>1, <2>2 DEF KeyExclusive, HoldsKey, ItemInv
  <2>4. HeldIsIdle'
    BY <1>0, <2>1, <2>2 DEF HeldIsIdle, ItemInv
  <2>5. ClosedIsHandedOn' /\ Working'
    BY <1>0, <2>1, OutsideStep
  <2>6. Paid' /\ LinkedIffIntegrated'
    BY <1>0, <2>1 DEF Paid, LinkedIffIntegrated, ItemInv
  <2> QED
    BY <2>3, <2>4, <2>5, <2>6
<1>10. CASE k \in JobIds /\ prune(k)
  <2>1. rows[k].st \in {"done", "failed"} /\ UNCHANGED <<state, links, run, req, calls, asked>>
    BY <1>10 DEF prune
  <2>2. rows \in [JobIds -> Rows] /\ rows[k] \in Rows
    BY <1>10 DEF TypeOK
  <2> DEFINE now == [rows[k] EXCEPT !.st = "pruned"]
  <2>3. now.st = "pruned" /\ now.fenced = rows[k].fenced
    BY <2>2 DEF Rows
  <2>4. rows' = [rows EXCEPT ![k] = now]
    BY <1>10 DEF prune
  <2> HIDE DEF now
  <2>5. SameRows
    BY <2>1, <2>2, <2>3, <2>4 DEF Present, Closed
  <2>6. HeldIsIdle'
    BY <2>1, <2>5 DEF HeldIsIdle, ItemInv
  <2>7. ClosedIsHandedOn' /\ Working'
    BY <2>1, <2>5, OutsideStep
  <2>8. Paid' /\ LinkedIffIntegrated'
    BY <2>1, <2>5 DEF Paid, LinkedIffIntegrated, ItemInv
  <2> QED
    BY <1>1, <2>1, <2>6, <2>7, <2>8
<1> QED
  BY <1>4, <1>5, <1>6, <1>7, <1>8, <1>9, <1>10 DEF Commit

(***************************************************************************)
(* The invariant, and what follows from it.                                *)
(***************************************************************************)

\* Only apply_enriched_article rewrites a text, of an item that is pending.
LEMMA TextStep ==
    ASSUME TypeOK, ItemInv, [Next]_vars
    PROVE  /\ LetterKept'
           /\ \A i \in Items : state[i] = "integrated" => text'[i] = text[i] /\ original'[i] = original[i]
<1> USE DEF item, hist
<1>1. CASE UNCHANGED <<text, original>>
  BY <1>1 DEF LetterKept, ItemInv
<1>2. ASSUME NEW r \in Runs, apply_enriched_article(r)
      PROVE  /\ LetterKept'
             /\ \A i \in Items : state[i] = "integrated" =>
                    text'[i] = text[i] /\ original'[i] = original[i]
  <2>1. run[r].phase = "calling" /\ run[r].conn
    BY <1>2 DEF apply_enriched_article, At
  <2>2. ItemOf(r) \in Items /\ state[ItemOf(r)] = "pending"
    BY <2>1, Underway DEF WorkingRun, Fetching
  <2>3. \A i \in Items :
          /\ i # ItemOf(r) => text'[i] = text[i] /\ original'[i] = original[i]
          /\ i = ItemOf(r) =>
               /\ text'[i] = "article"
               /\ original'[i] = IF original[i] = None THEN text[i] ELSE original[i]
    BY <1>2, <2>2 DEF apply_enriched_article, TypeOK
  <2>4. \A i \in Items : /\ original[i] \in {None, "letter"} /\ text[i] \in {"letter", "article"}
                         /\ text[i] = "article" => original[i] = "letter"
    BY DEF ItemInv, LetterKept, TypeOK
  <2>5. LetterKept'
    BY <2>3, <2>4 DEF LetterKept
  <2> QED
    BY <2>2, <2>3, <2>5
<1>3. [Next]_vars => UNCHANGED <<text, original>> \/ \E r \in Runs : apply_enriched_article(r)
  BY DEF Next, Proceed, Commit, vars, handle_extract, enqueue_paste, SelectHeld,
     enqueue_integration, dismiss_held_source_items, Rollback, claim, prune, Crash,
     LoseConnection, start, defer, NoOp, complete, AbandonPass, handle_integrate, write_back,
     Requeue, Interrupted, _record_skip, _announce_running, AnnounceFails, call, NoArticle,
     Retry, GiveUp
<1> QED
  BY <1>1, <1>2, <1>3

\* Every step keeps the invariant.
LEMMA ItemStep == TypeOK /\ ItemInv /\ [Next]_vars => ItemInv'
<1> SUFFICES ASSUME TypeOK, ItemInv, [Next]_vars PROVE ItemInv'
  OBVIOUS
<1>0. TypeOK' /\ LetterKept'
  BY TypeStep, TextStep
<1> DEFINE Rest == KeyExclusive /\ HeldIsIdle /\ ClosedIsHandedOn /\ Working /\ Paid /\ LinkedIffIntegrated
<1> SUFFICES Rest'
  BY <1>0 DEF ItemInv
<1> USE DEF item, hist, faults
<1>a. ASSUME UNCHANGED <<state, links>> PROVE LinkedIffIntegrated'
  BY <1>a DEF LinkedIffIntegrated, ItemInv
<1>1. ASSUME NEW i \in Items, handle_extract(i) \/ enqueue_paste(i) PROVE Rest'
  BY <1>0, <1>1, RequestStep
<1>2. ASSUME NEW q \in Requests, Commit(q) \/ Rollback(q) PROVE Rest'
  BY <1>0, <1>2, RequestStep
<1>3. ASSUME NEW q \in Requests, NEW ids \in SUBSET Items, NEW op \in {"ingest", "dismiss"},
             SelectHeld(q, op, ids)
      PROVE  Rest'
  BY <1>0, <1>3, RequestStep
<1>4. ASSUME NEW j \in JobIds, prune(j) PROVE Rest'
  BY <1>0, <1>4, RequestStep
<1>5. ASSUME NEW r \in Runs, NEW j \in JobIds, claim(r, j) PROVE Rest'
  <2>1. UNCHANGED <<state, links>>
    BY <1>5 DEF claim
  <2> QED
    BY <1>0, <1>5, <1>a, <2>1, ClaimShape, WorkerStep
<1>6. ASSUME NEW r \in Runs,
             defer(r) \/ start(r) \/ NoOp(r) \/ complete(r) \/ Crash(r) \/ LoseConnection(r)
               \/ AbandonPass(r) \/ write_back(r) \/ Retry(r)
      PROVE  Rest'
  <2>1. UNCHANGED <<state, links>>
    BY <1>6 DEF defer, start, NoOp, complete, Crash, LoseConnection, AbandonPass, write_back, Retry
  <2>2. WorkerShape(r)
    BY <1>0, <1>6, QueueShape
  <2> QED
    BY <1>0, <1>a, <2>1, <2>2, WorkerStep
<1>7. ASSUME NEW r \in Runs, handle_integrate(r) \/ GiveUp(r) PROVE Rest'
  BY <1>0, <1>7, IntegrateShape, GiveUpShape, WorkerStep
<1>8. ASSUME NEW r \in Runs,
             \/ Requeue(r) \/ Interrupted(r) \/ _record_skip(r) \/ AnnounceFails(r)
             \/ NoArticle(r) \/ apply_enriched_article(r)
      PROVE  Rest'
  <2>1. run[r].phase \in Fetching /\ \E status : CommitEnrich(r, status)
    BY <1>8 DEF Requeue, Interrupted, _record_skip, AnnounceFails, NoArticle,
                apply_enriched_article, At, Fetching
  <2>2. UNCHANGED <<state, links>>
    BY <2>1 DEF CommitEnrich
  <2>3. WorkerShape(r)
    BY <1>0, <2>1, CommitShape
  <2> QED
    BY <1>0, <1>a, <2>2, <2>3, WorkerStep
<1>9. ASSUME NEW r \in Runs, _announce_running(r) \/ call(r) PROVE Rest'
  <2>1. UNCHANGED <<state, links>>
    BY <1>9 DEF _announce_running, call
  <2> QED
    BY <1>0, <1>9, <1>a, <2>1, AgentShape, WorkerStep
<1>10. CASE UNCHANGED vars
  BY <1>10 DEF vars, ItemInv, KeyExclusive, HoldsKey, HeldIsIdle, ClosedIsHandedOn, HandedOnRun,
       Closed, HandedOn, Integrates, Moved, Present, Working, WorkingRun, QueueOf, ItemOf, Paid,
       LinkedIffIntegrated
<1> QED
  BY <1>1, <1>2, <1>3, <1>4, <1>5, <1>6, <1>7, <1>8, <1>9, <1>10 DEF Next, Proceed

\* ItemInv is an invariant of the item specification.
THEOREM ItemInvariant == Spec => []ItemInv
<1>1. Init => ItemInv
  <2> SUFFICES ASSUME Init PROVE ItemInv
    OBVIOUS
  <2>1. /\ \A j \in JobIds : rows[j].st = "absent" /\ rows[j].fenced = FALSE
        /\ \A r \in Runs : run[r].phase = "idle"
        /\ \A q \in Requests : req[q].op = "none"
        /\ \A i \in Items : /\ state[i] = "absent" /\ links[i] = 0 /\ calls[i] = 0
                            /\ text[i] = "letter" /\ original[i] = None
        /\ asked = {}
    BY RecordsTyped DEF Init, NoRequest
  <2>2. KeyExclusive /\ HeldIsIdle
    BY <2>1 DEF KeyExclusive, HoldsKey, Locked, HeldIsIdle, Present
  <2>3. ClosedIsHandedOn /\ Working
    BY <2>1 DEF ClosedIsHandedOn, Closed, HandedOnRun, Working, WorkingRun, Fetching
  <2>4. Paid /\ LinkedIffIntegrated /\ LetterKept
    BY <2>1 DEF Paid, LinkedIffIntegrated, LetterKept
  <2> QED
    BY <2>2, <2>3, <2>4 DEF ItemInv
<1> QED
  BY <1>1, ItemStep, TypeCorrect, PTL DEF Spec

\* An item is in a story exactly when its row says so, for every number of
\* lapsed leases, lost sessions and crashes.
THEOREM LinkedHolds == Spec => []LinkedIffIntegrated
<1>1. ItemInv => LinkedIffIntegrated
  BY DEF ItemInv
<1> QED
  BY <1>1, ItemInvariant, PTL

\* A dismissal is final and free: its item has no row, so nobody asked or
\* paid for it.
THEOREM DismissedHolds == Spec => []DismissedCostsNothing
<1>1. TypeOK /\ ItemInv => DismissedCostsNothing
  <2> SUFFICES ASSUME TypeOK, ItemInv, NEW i \in Items, state[i] = "dismissed"
               PROVE  /\ i \notin asked /\ calls[i] = 0 /\ links[i] = 0
                      /\ \A j \in RowsOf(i) : ~Exists(j)
    BY DEF DismissedCostsNothing
  <2>1. \A j \in JobIds : j[1] = i => ~Present(j)
    BY DEF ItemInv, HeldIsIdle
  <2>2. i \notin asked /\ ~(calls[i] > 0)
    BY <2>1 DEF ItemInv, Paid
  <2>3. calls[i] = 0 /\ links[i] = 0
    BY <2>2 DEF ItemInv, LinkedIffIntegrated, TypeOK
  <2>4. \A j \in RowsOf(i) : ~Exists(j)
    BY <2>1 DEF RowsOf, Exists, Present
  <2> QED
    BY <2>2, <2>3, <2>4
<1> QED
  BY <1>1, ItemInvariant, TypeCorrect, PTL

\* What was asked for is on its way: of its rows, the last one to be handed
\* on is still owed to a worker.
THEOREM AskedHolds == Spec => []AskedIsOnItsWay
<1>1. TypeOK /\ ItemInv => AskedIsOnItsWay
  <2> SUFFICES ASSUME TypeOK, ItemInv, NEW i \in asked, state[i] = "pending",
                      \A j \in RowsOf(i) : ~Owed(j)
               PROVE  FALSE
    BY DEF AskedIsOnItsWay
  <2>1. i \in Items /\ ~Moved(i)
    BY DEF TypeOK, Moved
  <2>2. \A j \in JobIds : j[1] = i /\ Present(j) => Closed(j)
    <3>1. \A j \in JobIds : rows[j].st \in RowStates
      BY DEF TypeOK, Rows
    <3> QED
      BY <3>1 DEF Present, Closed, Owed, RowsOf, RowStates
  <2>3. \A j \in JobIds : j[1] = i /\ Present(j) => j[2] = "enrich" /\ Integrates(i)
    BY <2>1, <2>2 DEF ItemInv, ClosedIsHandedOn, HandedOn
  <2>4. Integrates(i)
    BY <2>1, <2>3 DEF ItemInv, Paid
  <2> QED
    BY <2>3, <2>4 DEF Integrates
<1> QED
  BY <1>1, ItemInvariant, TypeCorrect, PTL

\* No late enrichment rewrites the text of an integrated item, and the
\* letter is kept beside an article.
THEOREM TextHolds == Spec => TextIsSettled
<1>1. TypeOK /\ ItemInv /\ [Next]_vars =>
        [\A i \in Items : state'[i] = "integrated" =>
            /\ state[i] = "integrated" => text'[i] = text[i] /\ original'[i] = original[i]
            /\ text'[i] = "article" => original'[i] = "letter"]_vars
  BY TextStep DEF LetterKept
<1> QED
  BY <1>1, ItemInvariant, TypeCorrect, PTL DEF Spec, TextIsSettled


(***************************************************************************)
(* The mailbox.  A row of a mail item always carries the owner's flag: the *)
(* first row is the one the owner's request inserted, and every later one  *)
(* inherits the flag of the row before it.  So an integration that lands   *)
(* leaves its worker with the write-back to do, and as long as no worker   *)
(* or session is lost that worker keeps it until the label is written.     *)
(***************************************************************************)
FlagRides ==
    \A j \in JobIds : Present(j) =>
        j[1] \in asked /\ (origin[j[1]] = "mail" => rows[j].deliberate)

Follows(i) == i \in Labelled /\ origin[i] = "mail" /\ state[i] = "integrated"
Owes(r, i) == run[r].phase # "idle" /\ run[r].steps /\ ItemOf(r) = i

WriteBackRun(r) ==
    run[r].phase # "idle" =>
        /\ run[r].steps => run[r].phase \in {"landed", "after"} /\ Follows(ItemOf(r))
        /\ run[r].phase = "after" => run[r].steps

LabelIsEarned ==
    \A i \in Labelled : label[i] # None =>
        i \in asked /\ origin[i] = "mail" /\ state[i] = "integrated"

LabelIsOwed ==
    crashes = 0 /\ losses = 0 =>
        /\ \A r \in Runs : run[r].conn
        /\ \A i \in Items : Follows(i) => label[i] # None \/ \E r \in Runs : Owes(r, i)

MailInv == FlagRides /\ (\A r \in Runs : WriteBackRun(r)) /\ LabelIsEarned /\ LabelIsOwed

\* The shape of a worker's step, as far as the mailbox goes.
MailShape(r) ==
    /\ UNCHANGED <<asked, origin>>
    /\ \A s \in Runs : s # r => run'[s] = run[s]
    /\ \A j \in JobIds : Present(j)' =>
          \/ Present(j) /\ rows'[j].deliberate = rows[j].deliberate
          \/ Mine(r, j[1]) /\ rows'[j].deliberate = rows[run[r].job].deliberate
    /\ \A i \in Items : \/ label'[i] = label[i]
                        \/ label'[i] # None /\ Mine(r, i) /\ run[r].phase = "after"
    /\ \A i \in Items : Follows(i) => Follows(i)'
    /\ \A i \in Items : state[i] = "integrated" => state'[i] = "integrated"
    /\ \A i \in Items : Follows(i)' => Follows(i) \/ Owes(r, i)'
    /\ WriteBackRun(r)'
    /\ crashes' = 0 => crashes = 0
    /\ losses' = 0 => losses = 0
    /\ crashes' = 0 /\ losses' = 0 /\ run[r].conn =>
          /\ run'[r].conn
          /\ \A i \in Items : Owes(r, i) => Owes(r, i)' \/ label'[i] # None

\* A step of that shape keeps the mailbox and the items in step.
LEMMA MailStepOfWorker ==
    ASSUME TypeOK, TypeOK', ItemInv, MailInv, NEW r \in Runs, MailShape(r)
    PROVE  MailInv'
<1>1. FlagRides'
  <2> SUFFICES ASSUME NEW j \in JobIds, Present(j)'
               PROVE  j[1] \in asked' /\ (origin'[j[1]] = "mail" => rows'[j].deliberate)
    BY DEF FlagRides
  <2>1. UNCHANGED <<asked, origin>>
    BY DEF MailShape
  <2>2. CASE Present(j) /\ rows'[j].deliberate = rows[j].deliberate
    BY <2>1, <2>2 DEF MailInv, FlagRides
  <2>3. CASE Mine(r, j[1]) /\ rows'[j].deliberate = rows[run[r].job].deliberate
    <3>1. run[r].job \in JobIds /\ Present(run[r].job) /\ run[r].job[1] = j[1]
      BY <2>3, Underway DEF Mine
    <3> QED
      BY <2>1, <2>3, <3>1 DEF MailInv, FlagRides
  <2> QED
    BY <2>2, <2>3 DEF MailShape
<1>2. ASSUME NEW s \in Runs PROVE WriteBackRun(s)'
  <2>1. CASE s = r
    BY <2>1 DEF MailShape
  <2>2. CASE s # r
    <3>1. WriteBackRun(s) /\ run'[s] = run[s]
      BY <2>2 DEF MailInv, MailShape
    <3>2. run[s].phase # "idle" => ItemOf(s) \in Items
      BY RunTyped
    <3>3. run[s].phase # "idle" /\ Follows(ItemOf(s)) => Follows(ItemOf(s))'
      BY <3>1, <3>2 DEF MailShape, ItemOf, Follows
    <3> QED
      BY <3>1, <3>3 DEF WriteBackRun
  <2> QED
    BY <2>1, <2>2
<1>3. LabelIsEarned'
  <2> SUFFICES ASSUME NEW i \in Labelled, label'[i] # None
               PROVE  i \in asked' /\ origin'[i] = "mail" /\ state'[i] = "integrated"
    BY DEF LabelIsEarned
  <2>0. i \in Items /\ UNCHANGED <<asked, origin>>
    BY DEF MailShape
  <2>1. CASE label'[i] = label[i]
    BY <2>0, <2>1 DEF MailInv, LabelIsEarned, MailShape
  <2>2. CASE Mine(r, i) /\ run[r].phase = "after"
    <3>1. /\ ItemOf(r) = i /\ run[r].job[1] = i /\ run[r].job \in JobIds
          /\ Present(run[r].job)
      BY <2>2, Underway DEF Mine
    <3>2. origin[i] = "mail" /\ state[i] = "integrated"
      BY <2>2, <3>1 DEF MailInv, WriteBackRun, Follows
    <3>3. i \in asked
      BY <3>1 DEF MailInv, FlagRides
    <3> QED
      BY <2>0, <3>2, <3>3 DEF MailShape
  <2> QED
    BY <2>0, <2>1, <2>2 DEF MailShape
<1>4. LabelIsOwed'
  <2> SUFFICES ASSUME crashes' = 0, losses' = 0
               PROVE  /\ \A s \in Runs : run'[s].conn
                      /\ \A i \in Items : Follows(i)' =>
                            label'[i] # None \/ \E s \in Runs : Owes(s, i)'
    BY DEF LabelIsOwed
  <2>1. /\ \A s \in Runs : run[s].conn
        /\ \A i \in Items : Follows(i) => label[i] # None \/ \E s \in Runs : Owes(s, i)
    BY DEF MailInv, LabelIsOwed, MailShape
  <2>2. \A s \in Runs : run'[s].conn
    BY <2>1 DEF MailShape
  <2>3. ASSUME NEW i \in Items, Follows(i)'
        PROVE  label'[i] # None \/ \E s \in Runs : Owes(s, i)'
    <3>1. CASE Owes(r, i)'
      BY <3>1
    <3>2. CASE Follows(i) /\ label[i] # None
      BY <3>2 DEF MailShape
    <3>3. CASE \E s \in Runs : Owes(s, i)
      <4>1. PICK s \in Runs : Owes(s, i)
        BY <3>3
      <4>2. CASE s = r
        BY <2>1, <4>1, <4>2 DEF MailShape
      <4>3. CASE s # r
        BY <4>1, <4>3 DEF MailShape, Owes, ItemOf
      <4> QED
        BY <4>2, <4>3
    <3> QED
      BY <2>1, <2>3, <3>1, <3>2, <3>3 DEF MailShape
  <2> QED
    BY <2>2, <2>3
<1> QED
  BY <1>1, <1>2, <1>3, <1>4 DEF MailInv


(***************************************************************************)
(* What the helpers do to the fields the mailbox and the agent depend on.  *)
(***************************************************************************)

\* Updates of a row keep the owner's flag, and the claim count unless set.
LEMMA RowFields ==
    ASSUME NEW w \in Rows
    PROVE  /\ \A s \in RowStates : /\ [w EXCEPT !.st = s].deliberate = w.deliberate
                                   /\ [w EXCEPT !.st = s].tries = w.tries
           /\ \A s \in RowStates, n \in Int :
                 /\ [w EXCEPT !.st = s, !.tries = n].deliberate = w.deliberate
                 /\ [w EXCEPT !.st = s, !.tries = n].tries = n
           /\ [w EXCEPT !.fenced = TRUE].deliberate = w.deliberate
           /\ [w EXCEPT !.fenced = TRUE].tries = w.tries
           /\ [w EXCEPT !.fenced = TRUE].st = w.st
BY DEF Rows

\* A row that is inserted carries the flag it is given.
LEMMA NewRowFlag ==
    ASSUME NEW d \in BOOLEAN
    PROVE  [NoRow EXCEPT !.st = "ready", !.deliberate = d].deliberate = d
<1>1. ASSUME NEW w \in Rows
      PROVE  [w EXCEPT !.st = "ready", !.deliberate = d].deliberate = d
  BY DEF Rows
<1> QED
  BY <1>1, RecordsTyped

\* A move keeps everything of the execution but its phase.
LEMMA MoveFields ==
    ASSUME TypeOK, NEW r \in Runs, NEW p, Move(r, p)
    PROVE  /\ \A s \in Runs : s # r => run'[s] = run[s]
           /\ run'[r].phase = p /\ run'[r].job = run[r].job /\ run'[r].att = run[r].att
           /\ run'[r].conn = run[r].conn /\ run'[r].steps = run[r].steps
<1>1. run \in [Runs -> Executions] /\ run[r] \in Executions
  BY DEF TypeOK
<1> DEFINE now == [run[r] EXCEPT !.phase = p]
<1>2. /\ now.phase = p /\ now.job = run[r].job /\ now.att = run[r].att
      /\ now.conn = run[r].conn /\ now.steps = run[r].steps
  BY <1>1 DEF Executions
<1>3. run' = [run EXCEPT ![r] = now]
  BY DEF Move
<1> HIDE DEF now
<1> QED
  BY <1>1, <1>2, <1>3

\* An idle worker is connected and owes no write-back.
LEMMA ReturnFields ==
    ASSUME TypeOK, NEW r \in Runs, Return(r)
    PROVE  /\ \A s \in Runs : s # r => run'[s] = run[s]
           /\ run'[r].phase = "idle" /\ run'[r].conn /\ ~run'[r].steps
<1>1. run'[r] = Idle /\ \A s \in Runs : s # r => run'[s] = run[s]
  BY DEF Return, TypeOK
<1>2. Idle.phase = "idle" /\ Idle.conn /\ ~Idle.steps
  BY DEF Idle
<1> QED
  BY <1>1, <1>2

\* What each kind of row update leaves alone.
LEMMA RowsKept ==
    ASSUME TypeOK, NEW k \in JobIds,
           \/ Fence(k)
           \/ \E st \in RowStates \ {"absent"} : SetRow(k, st)
           \/ rows' = [rows EXCEPT ![k] = [rows[k] EXCEPT !.st = "pruned"]]
    PROVE  /\ \A j \in JobIds : j # k => rows'[j] = rows[j]
           /\ rows'[k].deliberate = rows[k].deliberate /\ rows'[k].tries = rows[k].tries
           /\ Fence(k) => rows'[k].st = rows[k].st
<1>1. rows \in [JobIds -> Rows] /\ rows[k] \in Rows
  BY DEF TypeOK
<1>2. CASE Fence(k)
  <2> DEFINE now == [rows[k] EXCEPT !.fenced = TRUE]
  <2>1. now.deliberate = rows[k].deliberate /\ now.tries = rows[k].tries /\ now.st = rows[k].st
    BY <1>1, RowFields
  <2>2. rows' = [rows EXCEPT ![k] = now]
    BY <1>2 DEF Fence
  <2> HIDE DEF now
  <2> QED
    BY <1>1, <2>1, <2>2
<1>3. ASSUME NEW st \in RowStates, ~Fence(k),
             \/ rows' = [rows EXCEPT ![k] = [rows[k] EXCEPT !.st = st]]
             \/ UNCHANGED rows
      PROVE  /\ \A j \in JobIds : j # k => rows'[j] = rows[j]
             /\ rows'[k].deliberate = rows[k].deliberate /\ rows'[k].tries = rows[k].tries
  <2> DEFINE now == [rows[k] EXCEPT !.st = st]
  <2>1. now.deliberate = rows[k].deliberate /\ now.tries = rows[k].tries
    BY <1>1, RowFields
  <2>2. rows' = [rows EXCEPT ![k] = now] \/ UNCHANGED rows
    BY <1>3
  <2> HIDE DEF now
  <2> QED
    BY <1>1, <2>1, <2>2
<1>4. ASSUME NEW st \in RowStates, SetRow(k, st), ~Fence(k)
      PROVE  /\ \A j \in JobIds : j # k => rows'[j] = rows[j]
             /\ rows'[k].deliberate = rows[k].deliberate /\ rows'[k].tries = rows[k].tries
  <2>1. CASE Exists(k)
    BY <1>3, <1>4, <2>1 DEF SetRow
  <2>2. CASE ~Exists(k)
    <3>1. rows' = [rows EXCEPT ![k] = rows[k]]
      BY <1>4, <2>2 DEF SetRow
    <3>2. UNCHANGED rows
      BY <1>1, <3>1
    <3> QED
      BY <1>3, <1>4, <3>2
  <2> QED
    BY <2>1, <2>2
<1> QED
  BY <1>2, <1>3, <1>4 DEF RowStates

\* Insert leaves the other rows alone, but for the one that lands.
LEMMA InsertFields ==
    ASSUME TypeOK, NEW new, NEW d \in BOOLEAN, NEW landing, Insert(new, d, landing)
    PROVE  \A j \in JobIds :
             /\ j \in new => rows'[j].deliberate = d /\ rows'[j].st = "ready"
             /\ j \notin new /\ j \notin landing => rows'[j] = rows[j]
             /\ j \notin new => /\ rows'[j].deliberate = rows[j].deliberate
                                /\ rows'[j].st = rows[j].st /\ rows'[j].tries = rows[j].tries
<1> SUFFICES ASSUME NEW j \in JobIds
             PROVE  /\ j \in new => rows'[j].deliberate = d /\ rows'[j].st = "ready"
                    /\ j \notin new /\ j \notin landing => rows'[j] = rows[j]
                    /\ j \notin new => /\ rows'[j].deliberate = rows[j].deliberate
                                       /\ rows'[j].st = rows[j].st
                                       /\ rows'[j].tries = rows[j].tries
  OBVIOUS
<1>1. rows[j] \in Rows
  BY DEF TypeOK
<1>2. CASE j \in new
  BY <1>2, NewRowFlag, RecordsTyped DEF Insert
<1>3. CASE j \notin new /\ j \in landing
  <2>1. rows'[j] = [rows[j] EXCEPT !.fenced = TRUE]
    BY <1>3 DEF Insert
  <2> QED
    BY <1>1, <1>3, <2>1, RowFields
<1>4. CASE j \notin new /\ j \notin landing
  BY <1>4 DEF Insert
<1> QED
  BY <1>2, <1>3, <1>4


(***************************************************************************)
(* The mailbox: every step of a worker has the shape.                      *)
(***************************************************************************)

\* What the invariant says of one execution's write-back.
LEMMA WriteBackUnderway ==
    ASSUME MailInv, NEW r \in Runs
    PROVE  /\ WriteBackRun(r)
           /\ run[r].phase \notin {"idle", "landed", "after"} => ~run[r].steps
BY DEF MailInv, WriteBackRun

\* A worker ends with its write-back done, lost with it, or not owed.
LEMMA MailReturn ==
    ASSUME TypeOK, ItemInv, MailInv, NEW r \in Runs, run[r].phase # "idle", Return(r),
           UNCHANGED <<asked, origin>>,
           \A j \in JobIds : Present(j)' =>
              \/ Present(j) /\ rows'[j].deliberate = rows[j].deliberate
              \/ Mine(r, j[1]) /\ rows'[j].deliberate = rows[run[r].job].deliberate,
           \A i \in Items : \/ label'[i] = label[i]
                            \/ label'[i] # None /\ Mine(r, i) /\ run[r].phase = "after",
           \A i \in Items : state'[i] = state[i]
                              \/ (state[i] # "integrated" /\ state'[i] # "integrated"),
           crashes' = 0 => crashes = 0, losses' = 0 => losses = 0,
           \/ ~run[r].steps \/ crashes' # 0 \/ ~run[r].conn
           \/ label'[ItemOf(r)] # None
    PROVE  MailShape(r)
<1>1. /\ \A s \in Runs : s # r => run'[s] = run[s]
      /\ run'[r].phase = "idle" /\ run'[r].conn /\ ~run'[r].steps
  BY ReturnFields
<1>2. WriteBackRun(r)' /\ \A i \in Items : Follows(i)' <=> Follows(i)
  BY <1>1 DEF WriteBackRun, Follows
<1>3. crashes' = 0 /\ run[r].conn => \A i \in Items : Owes(r, i) => label'[i] # None
  BY DEF Owes
<1> QED
  BY <1>1, <1>2, <1>3 DEF MailShape, Follows

\* A worker moves on and keeps what it owes.
LEMMA MailMove ==
    ASSUME TypeOK, ItemInv, MailInv, NEW r \in Runs, NEW p, run[r].phase # "idle", Move(r, p),
           UNCHANGED <<asked, origin, state, label, crashes, losses>>,
           \A j \in JobIds : Present(j)' =>
              \/ Present(j) /\ rows'[j].deliberate = rows[j].deliberate
              \/ Mine(r, j[1]) /\ rows'[j].deliberate = rows[run[r].job].deliberate,
           p # "idle", run[r].steps => p \in {"landed", "after"}, p = "after" => run[r].steps
    PROVE  MailShape(r)
<1>1. /\ \A s \in Runs : s # r => run'[s] = run[s]
      /\ run'[r].phase = p /\ run'[r].job = run[r].job
      /\ run'[r].conn = run[r].conn /\ run'[r].steps = run[r].steps
  BY MoveFields
<1>2. \A i \in Items : (Follows(i)' <=> Follows(i)) /\ (Owes(r, i)' <=> Owes(r, i))
  BY <1>1 DEF Follows, Owes, ItemOf
<1>3. WriteBackRun(r)'
  BY <1>1, WriteBackUnderway DEF WriteBackRun, Follows, ItemOf
<1> QED
  BY <1>1, <1>2, <1>3 DEF MailShape

\* The commit of handle_enrich hands the flag on.
LEMMA CommitKeepsFlag ==
    ASSUME TypeOK, ItemInv, NEW r \in Runs, run[r].phase # "idle", NEW status,
           CommitEnrich(r, status)
    PROVE  /\ \A j \in JobIds : Present(j)' =>
                \/ Present(j) /\ rows'[j].deliberate = rows[j].deliberate
                \/ Mine(r, j[1]) /\ rows'[j].deliberate = rows[run[r].job].deliberate
           /\ \A j \in JobIds : Present(j) =>
                \/ rows'[j] = rows[j]
                \/ j = run[r].job /\ rows'[j].st = rows[j].st /\ rows'[j].tries = rows[j].tries
           /\ \A j \in JobIds : ~Present(j) /\ Present(j)' => j[2] = "integrate"
<1> DEFINE new == {j \in RowsOf(ItemOf(r)) : j[2] = "integrate" /\ IsNext(j)}
           landing == {run[r].job}
           d == rows[run[r].job].deliberate
<1>1. d \in BOOLEAN
  BY RunTyped
<1>2. Insert(new, d, landing)
  BY DEF CommitEnrich, _queue_integration
<1>3. \A j \in new : j[1] = ItemOf(r) /\ j[2] = "integrate" /\ ~Present(j)
  BY DEF RowsOf, IsNext, Present
<1>4. \A j : j \in landing => j = run[r].job
  OBVIOUS
<1> HIDE DEF new, landing
<1>5. \A j \in JobIds :
         /\ j \in new => rows'[j].deliberate = d /\ rows'[j].st = "ready"
         /\ j \notin new /\ j \notin landing => rows'[j] = rows[j]
         /\ j \notin new => /\ rows'[j].deliberate = rows[j].deliberate
                            /\ rows'[j].st = rows[j].st /\ rows'[j].tries = rows[j].tries
  BY <1>1, <1>2, InsertFields
<1> QED
  BY <1>3, <1>4, <1>5 DEF Present, Mine

\* So does the failure recorder of the enrich queue.
LEMMA FailureKeepsFlag ==
    ASSUME TypeOK, ItemInv, NEW r \in Runs, run[r].phase # "idle", record_enrich_failure(r)
    PROVE  /\ \A j \in JobIds : Present(j)' =>
                \/ Present(j) /\ rows'[j].deliberate = rows[j].deliberate
                \/ Mine(r, j[1]) /\ rows'[j].deliberate = rows[run[r].job].deliberate
           /\ \A j \in JobIds : Present(j) => rows'[j] = rows[j] \/ j = run[r].job
           /\ \A j \in JobIds : ~Present(j) /\ Present(j)' => j[2] = "integrate"
<1> DEFINE j == run[r].job
           now == IF Exists(j) THEN [rows[j] EXCEPT !.st = "failed"] ELSE rows[j]
           new == [NoRow EXCEPT !.st = "ready", !.deliberate = rows[j].deliberate]
<1>1. /\ rows \in [JobIds -> Rows] /\ rows[j] \in Rows /\ j \in JobIds /\ Present(j)
      /\ ItemOf(r) = j[1]
  BY Underway DEF TypeOK
<1>a. "failed" \in RowStates /\ rows[j].deliberate \in BOOLEAN
  BY <1>1, RowUpdate DEF RowStates
<1>b. [rows[j] EXCEPT !.st = "failed"].deliberate = rows[j].deliberate
  BY <1>1, <1>a, RowFields
<1>c. now.deliberate = rows[j].deliberate
  BY <1>b
<1>d. new.deliberate = rows[j].deliberate
  BY <1>a, NewRowFlag
<1>2. now.deliberate = rows[j].deliberate /\ new.deliberate = rows[j].deliberate
  BY <1>c, <1>d
<1>3. CASE state[ItemOf(r)] = "pending"
  <2>1. PICK k \in RowsOf(ItemOf(r)) : /\ k[2] = "integrate" /\ IsNext(k)
                                       /\ rows' = [rows EXCEPT ![j] = now, ![k] = new]
    BY <1>3 DEF record_enrich_failure
  <2>2. k \in JobIds /\ k[1] = ItemOf(r) /\ ~Present(k) /\ k # j
    BY <1>1, <2>1 DEF RowsOf, IsNext, Present
  <2> HIDE DEF now, new
  <2>3. /\ rows'[k].deliberate = rows[j].deliberate
        /\ rows'[j].deliberate = rows[j].deliberate
        /\ \A m \in JobIds : m # k /\ m # j => rows'[m] = rows[m]
    BY <1>1, <1>2, <2>1, <2>2
  <2> QED
    BY <1>1, <2>1, <2>2, <2>3 DEF Present, Mine
<1>4. CASE state[ItemOf(r)] # "pending"
  <2>1. SetRow(j, "failed") /\ "failed" \in RowStates \ {"absent"}
    BY <1>4 DEF record_enrich_failure, RowStates
  <2> HIDE DEF j
  <2>2. /\ \A m \in JobIds : m # j => rows'[m] = rows[m]
        /\ rows'[j].deliberate = rows[j].deliberate
    BY <1>1, <2>1, RowsKept
  <2> QED
    BY <1>1, <2>2 DEF Present, j
<1> QED
  BY <1>3, <1>4


\* Every step of a worker has the shape.
LEMMA MailWorker ==
    ASSUME TypeOK, TypeOK', ItemInv, MailInv, NEW r \in Runs,
           \/ \E j \in JobIds : claim(r, j)
           \/ Proceed(r) \/ Crash(r) \/ LoseConnection(r)
    PROVE  MailShape(r)
<1> USE DEF item, hist, faults
<1> DEFINE SameFlags == \A j \in JobIds : Present(j)' =>
                            Present(j) /\ rows'[j].deliberate = rows[j].deliberate
<1>0. UNCHANGED rows => SameFlags
  BY DEF Present
<1>a. ASSUME run[r].phase # "idle",
             Fence(run[r].job) \/ \E st \in RowStates \ {"absent"} : SetRow(run[r].job, st)
      PROVE  SameFlags
  <2>1. run[r].job \in JobIds /\ Present(run[r].job)
    BY <1>a, Underway
  <2>2. /\ \A j \in JobIds : j # run[r].job => rows'[j] = rows[j]
        /\ rows'[run[r].job].deliberate = rows[run[r].job].deliberate
    BY <1>a, <2>1, RowsKept
  <2> QED
    BY <2>1, <2>2 DEF Present
<1>b. /\ WriteBackRun(r)
      /\ run[r].phase \notin {"idle", "landed", "after"} => ~run[r].steps
  BY WriteBackUnderway
<1>1. ASSUME NEW j \in JobIds, claim(r, j) PROVE MailShape(r)
  <2>1. /\ run[r] = Idle /\ Owed(j)
        /\ UNCHANGED <<asked, origin, state, label, crashes, losses>>
    BY <1>1 DEF claim
  <2>2. rows \in [JobIds -> Rows] /\ rows[j] \in Rows /\ run \in [Runs -> Executions]
    BY DEF TypeOK
  <2> DEFINE now == [rows[j] EXCEPT !.st = "running", !.tries = rows[j].tries + 1]
             got == [phase |-> "claimed", job |-> j, att |-> rows[j].tries + 1,
                     fen |-> rows[j].fenced, conn |-> TRUE, steps |-> FALSE]
  <2>3. now.deliberate = rows[j].deliberate
    BY <2>2 DEF Rows
  <2>4. got.phase = "claimed" /\ got.conn /\ ~got.steps
    OBVIOUS
  <2>5. rows' = [rows EXCEPT ![j] = now] /\ run' = [run EXCEPT ![r] = got]
    BY <1>1 DEF claim
  <2> HIDE DEF now, got
  <2>6. SameFlags
    BY <2>1, <2>2, <2>3, <2>5 DEF Present, Owed
  <2>7. /\ \A s \in Runs : s # r => run'[s] = run[s]
        /\ run'[r].phase = "claimed" /\ run'[r].conn /\ ~run'[r].steps
    BY <2>2, <2>4, <2>5
  <2>8. \A i \in Items : (Follows(i)' <=> Follows(i)) /\ ~Owes(r, i)
    BY <2>1, RecordsTyped DEF Follows, Owes
  <2>9. WriteBackRun(r)'
    BY <2>7 DEF WriteBackRun
  <2> QED
    BY <2>1, <2>6, <2>7, <2>8, <2>9 DEF MailShape
<1>2. CASE start(r)
  <2>1. /\ run[r].phase = "claimed"
        /\ UNCHANGED <<asked, origin, state, label, crashes, losses, rows>>
    BY <1>2 DEF start, At
  <2>2. \A i : /\ integrate_reads(i) \in {"noop", "integrating"}
               /\ enrich_reads(i) \in {"noop", "requeue", "interrupted", "planning"}
    BY DEF integrate_reads, enrich_reads
  <2>3. PICK p \in Locked : Move(r, p)
    BY <1>2, <2>2 DEF start, Locked
  <2> QED
    BY <1>0, <1>b, <2>1, <2>3, MailMove DEF Locked
<1>3. CASE NoOp(r)
  <2>1. /\ run[r].phase = "noop" /\ Move(r, "landed") /\ Fence(run[r].job)
        /\ UNCHANGED <<asked, origin, state, label, crashes, losses>>
    BY <1>3 DEF NoOp, At
  <2> QED
    BY <1>a, <1>b, <2>1, MailMove
<1>4. CASE complete(r)
  <2>1. /\ run[r].phase = "landed" /\ SetRow(run[r].job, "done")
        /\ IF run[r].steps THEN Move(r, "after") ELSE Return(r)
        /\ UNCHANGED <<asked, origin, state, label, crashes, losses>>
    BY <1>4 DEF complete, At
  <2>2. SameFlags
    BY <1>a, <2>1 DEF RowStates
  <2>3. CASE run[r].steps
    BY <2>1, <2>2, <2>3, MailMove
  <2>4. CASE ~run[r].steps
    BY <2>1, <2>2, <2>4, MailReturn
  <2> QED
    BY <2>3, <2>4
<1>5. CASE defer(r)
  <2>1. /\ run[r].phase = "claimed" /\ Return(r)
        /\ UNCHANGED <<asked, origin, state, label, crashes, losses>>
    BY <1>5 DEF defer, At
  <2>2. /\ run[r].job \in JobIds /\ rows[run[r].job] \in Rows /\ rows \in [JobIds -> Rows]
        /\ Present(run[r].job)
    BY <2>1, Underway DEF TypeOK
  <2> DEFINE j == run[r].job
             now == [rows[j] EXCEPT !.st = "ready", !.tries = rows[j].tries - 1]
  <2>3. now.deliberate = rows[j].deliberate
    BY <2>2 DEF Rows
  <2>4. rows' = [rows EXCEPT ![j] = IF Exists(j) THEN now ELSE rows[j]]
    BY <1>5 DEF defer
  <2> HIDE DEF now
  <2>5. SameFlags
    BY <2>2, <2>3, <2>4 DEF Present
  <2> QED
    BY <1>b, <2>1, <2>5, MailReturn
<1>6. CASE Crash(r)
  <2>1. /\ run[r].phase # "idle" /\ Return(r) /\ crashes' = crashes + 1
        /\ UNCHANGED <<asked, origin, state, label, losses, rows>>
    BY <1>6 DEF Crash
  <2>2. crashes' # 0
    BY <2>1 DEF TypeOK
  <2> QED
    BY <1>0, <2>1, <2>2, MailReturn
<1>7. CASE AbandonPass(r)
  <2>1. /\ run[r].phase # "idle" /\ ~run[r].conn /\ Return(r)
        /\ UNCHANGED <<asked, origin, state, label, crashes, losses, rows>>
    BY <1>7 DEF AbandonPass
  <2> QED
    BY <1>0, <2>1, MailReturn
<1>8. CASE write_back(r)
  <2>1. /\ run[r].phase = "after" /\ Return(r)
        /\ UNCHANGED <<asked, origin, state, crashes, losses, rows>>
    BY <1>8 DEF write_back, At
  <2>2. ItemOf(r) \in Items
    BY <2>1, Underway
  <2>3. PICK outcome \in {"applied", "error"} :
            label' = [label EXCEPT ![ItemOf(r)] = outcome]
    BY <1>8 DEF write_back
  <2>4. outcome # None
    BY ItemsAssumption
  <2>5. /\ label'[ItemOf(r)] # None
        /\ \A i \in Items : label'[i] = label[i] \/ (label'[i] # None /\ i = ItemOf(r))
    BY <2>2, <2>3, <2>4 DEF TypeOK
  <2> QED
    BY <1>0, <2>1, <2>2, <2>5, MailReturn DEF Mine
<1>9. CASE Retry(r)
  <2>1. /\ run[r].phase \in {"integrating", "planning", "calling"} /\ Return(r)
        /\ SetRow(run[r].job, "ready")
        /\ UNCHANGED <<asked, origin, state, label, crashes, losses>>
    BY <1>9 DEF Retry, CanRaise
  <2>2. SameFlags
    BY <1>a, <2>1 DEF RowStates
  <2> QED
    BY <1>b, <2>1, <2>2, MailReturn
<1>10. CASE GiveUp(r)
  <2>1. /\ run[r].phase \in {"integrating", "planning", "calling"} /\ run[r].conn /\ Return(r)
        /\ UNCHANGED <<asked, origin, label, crashes, losses>>
    BY <1>10 DEF GiveUp, CanRaise
  <2>2. CASE QueueOf(r) = "integrate" /\ source_item_failed(r)
    <3>1. SameFlags
      BY <1>a, <2>1, <2>2 DEF source_item_failed, RowStates
    <3>2. ItemOf(r) \in Items /\ state[ItemOf(r)] \in {"pending", "failed"}
      BY <2>1, <2>2, Underway DEF WorkingRun, Fetching
    <3>3. \A i \in Items : state'[i] = state[i]
                              \/ (state[i] # "integrated" /\ state'[i] # "integrated")
      BY <2>2, <3>2 DEF source_item_failed, TypeOK
    <3> QED
      BY <1>b, <2>1, <3>1, <3>3, MailReturn
  <2>3. CASE record_enrich_failure(r)
    <3>1. UNCHANGED state
      BY <2>3 DEF record_enrich_failure
    <3>2. \A j \in JobIds : Present(j)' =>
                \/ Present(j) /\ rows'[j].deliberate = rows[j].deliberate
                \/ Mine(r, j[1]) /\ rows'[j].deliberate = rows[run[r].job].deliberate
      BY <2>1, <2>3, FailureKeepsFlag
    <3> QED
      BY <1>b, <2>1, <3>1, <3>2, MailReturn
  <2> QED
    BY <1>10, <2>2, <2>3 DEF GiveUp
<1>11. CASE \/ Requeue(r) \/ Interrupted(r) \/ _record_skip(r) \/ AnnounceFails(r)
            \/ NoArticle(r) \/ apply_enriched_article(r)
  <2>1. run[r].phase \in Fetching
    BY <1>11 DEF Requeue, Interrupted, _record_skip, AnnounceFails, NoArticle,
                apply_enriched_article, At, Fetching
  <2>2. PICK status : CommitEnrich(r, status)
    BY <1>11 DEF Requeue, Interrupted, _record_skip, AnnounceFails, NoArticle,
                apply_enriched_article
  <2>3. /\ Move(r, "landed") /\ run[r].phase # "idle"
        /\ UNCHANGED <<asked, origin, state, label, crashes, losses>>
    BY <2>1, <2>2 DEF CommitEnrich, Fetching
  <2>4. \A j \in JobIds : Present(j)' =>
                \/ Present(j) /\ rows'[j].deliberate = rows[j].deliberate
                \/ Mine(r, j[1]) /\ rows'[j].deliberate = rows[run[r].job].deliberate
    BY <2>2, <2>3, CommitKeepsFlag
  <2> QED
    BY <2>3, <2>4, MailMove
<1>12. CASE _announce_running(r) \/ call(r)
  <2>1. PICK p \in {"announced", "calling"} :
         /\ run[r].phase \in {"planning", "announced"} /\ Move(r, p)
         /\ UNCHANGED <<asked, origin, state, label, crashes, losses, rows>>
    BY <1>12 DEF _announce_running, call
  <2> QED
    BY <1>0, <1>b, <2>1, MailMove
<1>13. CASE LoseConnection(r)
  <2>1. /\ run[r].phase # "idle" /\ losses' = losses + 1
        /\ UNCHANGED <<asked, origin, state, label, crashes, rows>>
    BY <1>13 DEF LoseConnection
  <2>2. run[r] \in Executions /\ run \in [Runs -> Executions] /\ losses' # 0
    BY <2>1 DEF TypeOK
  <2> DEFINE now == [run[r] EXCEPT !.conn = FALSE]
  <2>3. now.phase = run[r].phase /\ now.job = run[r].job /\ now.steps = run[r].steps
    BY <2>2 DEF Executions
  <2>4. run' = [run EXCEPT ![r] = now]
    BY <1>13 DEF LoseConnection
  <2> HIDE DEF now
  <2>5. /\ \A s \in Runs : s # r => run'[s] = run[s]
        /\ run'[r].phase = run[r].phase /\ run'[r].job = run[r].job
        /\ run'[r].steps = run[r].steps
    BY <2>2, <2>3, <2>4
  <2>6. WriteBackRun(r)' /\ \A i \in Items : Follows(i)' <=> Follows(i)
    BY <1>b, <2>1, <2>5 DEF WriteBackRun, Follows, ItemOf
  <2> QED
    BY <1>0, <2>1, <2>2, <2>5, <2>6 DEF MailShape
<1>14. CASE handle_integrate(r)
  <2>1. /\ run[r].phase = "integrating" /\ run[r].conn /\ Fence(run[r].job)
        /\ UNCHANGED <<asked, origin, label, crashes, losses>>
    BY <1>14 DEF handle_integrate, At
  <2>2. SameFlags
    BY <1>a, <2>1
  <2>3. /\ run[r].job \in JobIds /\ ItemOf(r) \in Items /\ run[r].job[1] = ItemOf(r)
        /\ Present(run[r].job) /\ state[ItemOf(r)] \in {"pending", "failed"}
    BY <2>1, Underway DEF WorkingRun
  <2>4. \A i \in Items : state'[i] = IF i = ItemOf(r) THEN "integrated" ELSE state[i]
    BY <1>14, <2>3 DEF handle_integrate, TypeOK
  <2>5. run[r] \in Executions /\ run \in [Runs -> Executions]
    BY DEF TypeOK
  <2> DEFINE now == [run[r] EXCEPT !.phase = "landed", !.steps = schedule(r)]
  <2>6. /\ now.phase = "landed" /\ now.job = run[r].job /\ now.conn = run[r].conn
        /\ now.steps = schedule(r)
    BY <2>5 DEF Executions
  <2>7. run' = [run EXCEPT ![r] = now]
    BY <1>14 DEF handle_integrate
  <2> HIDE DEF now
  <2>8. /\ \A s \in Runs : s # r => run'[s] = run[s]
        /\ run'[r].phase = "landed" /\ run'[r].job = run[r].job
        /\ run'[r].conn = run[r].conn /\ run'[r].steps = schedule(r)
    BY <2>5, <2>6, <2>7
  <2>9. schedule(r) <=> origin[ItemOf(r)] = "mail" /\ ItemOf(r) \in Labelled
    BY <2>3 DEF schedule, MailInv, FlagRides
  <2>10. \A i \in Items : Follows(i)' <=> Follows(i) \/ (i = ItemOf(r) /\ schedule(r))
    BY <2>1, <2>3, <2>4, <2>9 DEF Follows
  <2>11. WriteBackRun(r)'
    BY <2>3, <2>8, <2>10 DEF WriteBackRun, ItemOf
  <2>12. \A i \in Items : /\ i = ItemOf(r) /\ schedule(r) => Owes(r, i)'
                         /\ ~Owes(r, i)
    BY <1>b, <2>1, <2>8 DEF Owes, ItemOf
  <2> QED
    BY <2>1, <2>2, <2>4, <2>8, <2>10, <2>11, <2>12 DEF MailShape
<1> QED
  BY <1>1, <1>2, <1>3, <1>4, <1>5, <1>6, <1>7, <1>8, <1>9, <1>10, <1>11, <1>12, <1>13, <1>14
     DEF Proceed


\* Arrivals, requests and the sweep write no label and finish no item.
LEMMA MailRequest ==
    ASSUME TypeOK, TypeOK', ItemInv, MailInv, NEW i, NEW q, NEW k, NEW ids, NEW op,
           \/ i \in Items /\ (handle_extract(i) \/ enqueue_paste(i))
           \/ q \in Requests /\ (Commit(q) \/ Rollback(q) \/ SelectHeld(q, op, ids))
           \/ k \in JobIds /\ prune(k)
    PROVE  MailInv'
<1> USE DEF item, hist, faults
<1>1. UNCHANGED <<run, label, crashes, losses>>
  BY DEF handle_extract, enqueue_paste, Commit, enqueue_integration,
         dismiss_held_source_items, Rollback, SelectHeld, prune
<1>2. \A a \in Items : (state[a] = "integrated") <=> (state'[a] = "integrated")
  <2>1. CASE i \in Items /\ (handle_extract(i) \/ enqueue_paste(i))
    BY <2>1, ZenonT(40) DEF handle_extract, enqueue_paste, TypeOK
  <2>2. CASE q \in Requests /\ dismiss_held_source_items(q)
    BY <2>2 DEF dismiss_held_source_items, ItemInv, HeldIsIdle
  <2>3. CASE UNCHANGED state
    BY <2>3
  <2> QED
    BY <2>1, <2>2, <2>3
       DEF Commit, enqueue_integration, Rollback, SelectHeld, prune
<1>3. /\ asked \subseteq asked'
      /\ \A a \in Items : origin'[a] = origin[a] \/ (state[a] = "absent" /\ Rowless(a))
  <2>1. CASE i \in Items /\ (handle_extract(i) \/ enqueue_paste(i))
    <3>1. state[i] = "absent" /\ Rowless(i)
      BY <2>1 DEF handle_extract, enqueue_paste, ItemInv, HeldIsIdle, Rowless
    <3>2. asked \subseteq asked' /\ \A a \in Items : a # i => origin'[a] = origin[a]
      <4>1. PICK w : origin' = [origin EXCEPT ![i] = w]
        BY <2>1 DEF handle_extract, enqueue_paste
      <4>2. origin \in [Items -> {"mail", "paste", None}]
        BY DEF TypeOK
      <4>3. asked' = asked \/ asked' = asked \cup {i}
        BY <2>1 DEF handle_extract, enqueue_paste, hist
      <4> QED
        BY <4>1, <4>2, <4>3
    <3> QED
      BY <3>1, <3>2
  <2>2. CASE asked \subseteq asked' /\ UNCHANGED origin
    BY <2>2
  <2> QED
    BY <2>1, <2>2 DEF Commit, enqueue_integration, dismiss_held_source_items, Rollback,
                      SelectHeld, prune
<1>4. \A a \in Items : Follows(a)' <=> Follows(a)
  BY <1>2, <1>3 DEF Follows
<1>5. \A r \in Runs : WriteBackRun(r)'
  <2> SUFFICES ASSUME NEW r \in Runs, run[r].phase # "idle" PROVE WriteBackRun(r)'
    BY <1>1 DEF WriteBackRun
  <2>1. ItemOf(r) \in Items /\ WriteBackRun(r)
    BY Underway DEF MailInv
  <2> QED
    BY <1>1, <1>4, <2>1 DEF WriteBackRun, ItemOf, Follows
<1>6. LabelIsEarned'
  BY <1>1, <1>2, <1>3 DEF MailInv, LabelIsEarned
<1>7. LabelIsOwed'
  BY <1>1, <1>4 DEF MailInv, LabelIsOwed, Owes, ItemOf
<1>8. FlagRides'
  <2>0. ASSUME NEW j \in JobIds, Present(j), rows'[j].deliberate = rows[j].deliberate
        PROVE  j[1] \in asked' /\ (origin'[j[1]] = "mail" => rows'[j].deliberate)
    <3>1. j[1] \in Items /\ ~Rowless(j[1])
      BY <2>0, JobTyped DEF Rowless
    <3> QED
      BY <1>3, <2>0, <3>1 DEF MailInv, FlagRides
  <2>1. CASE UNCHANGED rows
    BY <2>0, <2>1 DEF FlagRides, Present
  <2>2. CASE i \in Items /\ enqueue_paste(i)
    <3> DEFINE new == {j \in RowsOf(i) : j[2] = "integrate" /\ IsNext(j)}
    <3>1. /\ Insert(new, FALSE, {}) /\ asked' = asked \cup {i}
          /\ origin' = [origin EXCEPT ![i] = "paste"]
      BY <2>2 DEF enqueue_paste
    <3>2. \A j \in new : j[1] = i
      BY DEF RowsOf
    <3>3. \A j \in JobIds : j \notin new => rows'[j] = rows[j]
      BY <3>1 DEF Insert
    <3> HIDE DEF new
    <3>4. origin'[i] = "paste"
      BY <2>2, <3>1 DEF TypeOK
    <3>5. ASSUME NEW j \in JobIds, Present(j)'
          PROVE  j[1] \in asked' /\ (origin'[j[1]] = "mail" => rows'[j].deliberate)
      <4>1. CASE j \in new
        BY <3>1, <3>2, <3>4, <4>1
      <4>2. CASE j \notin new
        BY <2>0, <3>3, <3>5, <4>2 DEF Present
      <4> QED
        BY <4>1, <4>2
    <3> QED
      BY <3>5 DEF FlagRides
  <2>3. CASE q \in Requests /\ enqueue_integration(q)
    <3>1. asked' = asked \cup req[q].got
      BY <2>3 DEF enqueue_integration
    <3>2. PICK new \in SUBSET JobIds :
           /\ \A j \in new : j[1] \in req[q].got
           /\ Insert(new, TRUE, {})
      BY <2>3 DEF enqueue_integration
    <3>a. \A j \in JobIds : j \notin new => rows'[j] = rows[j]
      BY <3>2 DEF Insert
    <3>b. \A j \in JobIds : j \in new => rows'[j].deliberate = TRUE
      BY <3>2, InsertFields
    <3>3. \A j \in JobIds : /\ j \notin new => rows'[j] = rows[j]
                            /\ j \in new => rows'[j].deliberate
      BY <3>a, <3>b
    <3>4. ASSUME NEW j \in JobIds, Present(j)'
          PROVE  j[1] \in asked' /\ (origin'[j[1]] = "mail" => rows'[j].deliberate)
      <4>1. CASE j \in new
        BY <3>1, <3>2, <3>3, <4>1
      <4>2. CASE j \notin new
        BY <2>0, <3>3, <3>4, <4>2 DEF Present
      <4> QED
        BY <4>1, <4>2
    <3> QED
      BY <3>4 DEF FlagRides
  <2>4. CASE k \in JobIds /\ prune(k)
    <3>1. /\ \A j \in JobIds : j # k => rows'[j] = rows[j]
          /\ rows'[k].deliberate = rows[k].deliberate /\ Present(k)
      BY <2>4, RowsKept DEF prune, Present
    <3> QED
      BY <2>0, <2>4, <3>1 DEF FlagRides, Present
  <2> QED
    BY <2>1, <2>2, <2>3, <2>4 DEF handle_extract, Commit, dismiss_held_source_items, Rollback,
                                  SelectHeld
<1> QED
  BY <1>5, <1>6, <1>7, <1>8 DEF MailInv

\* Every step keeps the mailbox in step with the items.
LEMMA MailStep == TypeOK /\ ItemInv /\ MailInv /\ [Next]_vars => MailInv'
<1> SUFFICES ASSUME TypeOK, ItemInv, MailInv, [Next]_vars PROVE MailInv'
  OBVIOUS
<1>0. TypeOK'
  BY TypeStep
<1>1. ASSUME NEW i \in Items, handle_extract(i) \/ enqueue_paste(i) PROVE MailInv'
  BY <1>0, <1>1, MailRequest
<1>2. ASSUME NEW q \in Requests, Commit(q) \/ Rollback(q) PROVE MailInv'
  BY <1>0, <1>2, MailRequest
<1>3. ASSUME NEW q \in Requests, NEW ids \in SUBSET Items, NEW op \in {"ingest", "dismiss"},
             SelectHeld(q, op, ids)
      PROVE  MailInv'
  BY <1>0, <1>3, MailRequest
<1>4. ASSUME NEW j \in JobIds, prune(j) PROVE MailInv'
  BY <1>0, <1>4, MailRequest
<1>5. ASSUME NEW r \in Runs, \/ \E j \in JobIds : claim(r, j)
                             \/ Proceed(r) \/ Crash(r) \/ LoseConnection(r)
      PROVE  MailInv'
  BY <1>0, <1>5, MailWorker, MailStepOfWorker
<1>6. CASE UNCHANGED vars
  BY <1>6 DEF vars, item, hist, faults, MailInv, FlagRides, Present, WriteBackRun, Follows,
              ItemOf, LabelIsEarned, LabelIsOwed, Owes
<1> QED
  BY <1>1, <1>2, <1>3, <1>4, <1>5, <1>6 DEF Next

\* The mailbox follows the owner: a label is only ever written for an ingest
\* its owner asked for that has landed, and without a lost worker or session
\* it is written for each of them by the time no worker is left with the item.
THEOREM MailboxHolds == Spec => []MailboxFollows
<1>1. Init => MailInv
  <2> SUFFICES ASSUME Init PROVE MailInv
    OBVIOUS
  <2>1. /\ \A j \in JobIds : rows[j].st = "absent"
        /\ \A r \in Runs : run[r].phase = "idle" /\ run[r].conn
        /\ \A i \in Items : state[i] = "absent" /\ label[i] = None
    BY RecordsTyped DEF Init, Idle
  <2> QED
    BY <2>1, ItemsAssumption DEF MailInv, FlagRides, Present, WriteBackRun, LabelIsEarned,
                                 LabelIsOwed, Follows
<1>2. TypeOK /\ MailInv => MailboxFollows
  <2> SUFFICES ASSUME TypeOK, MailInv, NEW i \in Labelled
               PROVE  /\ label[i] # None =>
                           i \in asked /\ origin[i] = "mail" /\ state[i] = "integrated"
                      /\ crashes = 0 /\ losses = 0 /\ origin[i] = "mail"
                         /\ state[i] = "integrated"
                         /\ (\A r \in Runs : run[r].phase # "idle" => ItemOf(r) # i)
                            => label[i] # None
    BY DEF MailboxFollows
  <2>1. i \in Items
    BY ItemsAssumption
  <2> QED
    BY <2>1 DEF MailInv, LabelIsEarned, LabelIsOwed, Follows, Owes
<1> QED
  BY <1>1, <1>2, MailStep, ItemInvariant, TypeCorrect, PTL DEF Spec


(***************************************************************************)
(* The agent.  An item has one enrich row, and without a lapse one worker  *)
(* at a time has claimed it; so nobody else touches the item's enrichment  *)
(* between the worker's reading of it and the end of its run, whatever     *)
(* that worker's database session does.  A run starts only after the item  *)
(* says so, and no later reader that finds it said starts another.         *)
(***************************************************************************)
Covering(r) == run[r].phase \notin {"idle", "after"}
OnRecord == {"running", "done", "failed"}

\* A second enrich row is never inserted.
OneFetch ==
    \A j, k \in JobIds :
        Present(j) /\ Present(k) /\ j[1] = k[1] /\ j[2] = "enrich" /\ k[2] = "enrich" => j = k

\* A worker under way holds the latest claim of its row, and alone.
ClaimHeld(r) ==
    Covering(r) => rows[run[r].job].st = "running" /\ run[r].att = rows[run[r].job].tries
ClaimAlone == \A r, s \in Runs : Covering(r) /\ Covering(s) /\ run[r].job = run[s].job => r = s

\* Up to its call a worker's item has not been billed; from its announcement
\* on the record says that it may be.
Announced(r) ==
    /\ run[r].phase \in {"planning", "announced"} => calls[ItemOf(r)] = 0
    /\ run[r].phase \in {"announced", "calling"} => enrich[ItemOf(r)] \in OnRecord
Billed(i) == calls[i] <= 1 /\ (calls[i] > 0 => enrich[i] \in OnRecord)

AgentInv ==
    /\ OneFetch
    /\ lapses = 0 => /\ ClaimAlone
                     /\ \A r \in Runs : ClaimHeld(r) /\ Announced(r)
                     /\ \A i \in Items : Billed(i)

\* The shape of a step of a worker that has a claim, in these terms.
FetchShape(r) ==
    /\ UNCHANGED lapses
    /\ \A s \in Runs : s # r => run'[s] = run[s]
    /\ \A j \in JobIds : Present(j) =>
         \/ Present(j)' /\ rows'[j].st = rows[j].st /\ rows'[j].tries = rows[j].tries
         \/ Present(j)' /\ Covering(r) /\ j = run[r].job /\ ~Covering(r)'
    /\ \A j \in JobIds : ~Present(j) /\ Present(j)' => j[2] = "integrate"
    /\ Covering(r)' => Covering(r) /\ run'[r].job = run[r].job /\ run'[r].att = run[r].att
    /\ \A i \in Items : \/ enrich'[i] = enrich[i] /\ calls'[i] = calls[i]
                        \/ run[r].phase \in Fetching /\ i = ItemOf(r)

\* A step of that shape keeps the invariant, if it keeps what it says about
\* the worker and its item.
LEMMA AgentStepOfWorker ==
    ASSUME TypeOK, TypeOK', ItemInv, AgentInv, NEW r \in Runs, FetchShape(r),
           lapses = 0 => /\ Announced(r)'
                         /\ \A i \in Items : run[r].phase \in Fetching /\ i = ItemOf(r) => Billed(i)'
    PROVE  AgentInv'
<1>1. OneFetch'
  BY DEF AgentInv, OneFetch, FetchShape
<1>2. SUFFICES ASSUME lapses = 0
               PROVE  /\ ClaimAlone' /\ \A s \in Runs : ClaimHeld(s)' /\ Announced(s)'
                      /\ \A i \in Items : Billed(i)'
  BY <1>1 DEF AgentInv, FetchShape
<1>3. /\ ClaimAlone /\ \A s \in Runs : ClaimHeld(s) /\ Announced(s)
      /\ \A i \in Items : Billed(i)
  BY <1>2 DEF AgentInv
<1>4. \A s \in Runs : Covering(s)' => Covering(s) /\ run'[s].job = run[s].job /\ run'[s].att = run[s].att
  BY DEF FetchShape, Covering
<1>5. ClaimAlone'
  BY <1>3, <1>4 DEF ClaimAlone
<1>6. ASSUME NEW s \in Runs, Covering(s)' PROVE ClaimHeld(s)'
  <2>1. Covering(s) /\ run'[s].job = run[s].job /\ run'[s].att = run[s].att
    BY <1>4, <1>6
  <2>2. run[s].job \in JobIds /\ Present(run[s].job)
    BY <2>1, Underway DEF Covering
  <2>3. \/ /\ rows'[run[s].job].st = rows[run[s].job].st
           /\ rows'[run[s].job].tries = rows[run[s].job].tries
        \/ Covering(r) /\ run[s].job = run[r].job /\ ~Covering(r)'
    BY <2>2 DEF FetchShape
  <2>4. s # r => run[s].job # run[r].job \/ ~Covering(r)
    BY <1>3, <2>1 DEF ClaimAlone
  <2> QED
    BY <1>3, <1>6, <2>1, <2>3, <2>4 DEF ClaimHeld
<1>7. ASSUME NEW s \in Runs, s # r, run[s].phase \in Fetching, run[r].phase \in Fetching
      PROVE  ItemOf(s) # ItemOf(r)
  <2>1. /\ run[s].job \in JobIds /\ run[r].job \in JobIds
        /\ Present(run[s].job) /\ Present(run[r].job)
        /\ run[s].job[1] = ItemOf(s) /\ run[r].job[1] = ItemOf(r)
        /\ run[s].job[2] = "enrich" /\ run[r].job[2] = "enrich"
    BY <1>7, Underway DEF WorkingRun, Fetching
  <2>2. ItemOf(s) = ItemOf(r) => run[s].job = run[r].job
    BY <2>1 DEF AgentInv, OneFetch
  <2> QED
    BY <1>3, <1>7, <2>2 DEF ClaimAlone, Covering, Fetching
<1>8. ASSUME NEW s \in Runs PROVE Announced(s)'
  <2>1. CASE s = r
    BY <1>2, <2>1
  <2>2. CASE s # r /\ run[s].phase \in {"planning", "announced", "calling"}
    <3>1. run'[s] = run[s] /\ ItemOf(s) \in Items
      BY <2>2, Underway DEF FetchShape
    <3>2. enrich'[ItemOf(s)] = enrich[ItemOf(s)] /\ calls'[ItemOf(s)] = calls[ItemOf(s)]
      BY <1>7, <2>2, <3>1 DEF FetchShape, Fetching
    <3> QED
      BY <1>3, <3>1, <3>2 DEF Announced, ItemOf
  <2>3. CASE s # r /\ run[s].phase \notin {"planning", "announced", "calling"}
    BY <2>3 DEF Announced, FetchShape
  <2> QED
    BY <2>1, <2>2, <2>3
<1>9. ASSUME NEW i \in Items PROVE Billed(i)'
  <2>1. CASE run[r].phase \in Fetching /\ i = ItemOf(r)
    BY <1>2, <2>1
  <2>2. CASE enrich'[i] = enrich[i] /\ calls'[i] = calls[i]
    BY <1>3, <2>2 DEF Billed
  <2> QED
    BY <2>1, <2>2 DEF FetchShape
<1>10. \A s \in Runs : ClaimHeld(s)'
  BY <1>6 DEF ClaimHeld
<1> QED
  BY <1>5, <1>8, <1>9, <1>10

\* What the helpers do to a worker's claim.
LEMMA ClaimFields ==
    ASSUME TypeOK, ItemInv, NEW r \in Runs, run[r].phase # "idle"
    PROVE  /\ UNCHANGED rows =>
                \A j \in JobIds : /\ Present(j) => /\ Present(j)' /\ rows'[j].st = rows[j].st
                                                   /\ rows'[j].tries = rows[j].tries
                                  /\ Present(j)' => Present(j)
           /\ Fence(run[r].job) =>
                \A j \in JobIds : /\ Present(j) => /\ Present(j)' /\ rows'[j].st = rows[j].st
                                                   /\ rows'[j].tries = rows[j].tries
                                  /\ Present(j)' => Present(j)
           /\ \A st \in RowStates \ {"absent"} : SetRow(run[r].job, st) =>
                \A j \in JobIds : /\ Present(j) => Present(j)'
                                  /\ Present(j)' => Present(j)
                                  /\ j # run[r].job => rows'[j] = rows[j]
<1>1. run[r].job \in JobIds /\ Present(run[r].job)
  BY Underway
<1>2. ASSUME Fence(run[r].job), NEW j \in JobIds
      PROVE  /\ Present(j) => Present(j)' /\ rows'[j].st = rows[j].st /\ rows'[j].tries = rows[j].tries
             /\ Present(j)' => Present(j)
  BY <1>1, <1>2, RowsKept DEF Present
<1>3. ASSUME NEW st \in RowStates \ {"absent"}, SetRow(run[r].job, st), NEW j \in JobIds
      PROVE  /\ Present(j) => Present(j)'
             /\ Present(j)' => Present(j)
             /\ j # run[r].job => rows'[j] = rows[j]
  <2>1. j # run[r].job => rows'[j] = rows[j]
    BY <1>1, <1>3, RowsKept
  <2>2. rows'[j].st = rows[j].st \/ (j = run[r].job /\ rows'[j].st = st)
    BY <1>1, <1>3, SetRowEffect
  <2> QED
    BY <1>1, <2>1, <2>2 DEF Present
<1> QED
  BY <1>2, <1>3 DEF Present

\* A worker that leaves its claim, with whatever it makes of its own row.
LEMMA ClaimReturned ==
    ASSUME TypeOK, ItemInv, NEW r \in Runs, run[r].phase # "idle", Return(r),
           UNCHANGED <<lapses, calls>>,
           \A i \in Items : \/ enrich'[i] = enrich[i]
                            \/ run[r].phase \in Fetching /\ i = ItemOf(r),
           \A j \in JobIds : Present(j) => \/ rows'[j] = rows[j]
                                           \/ Present(j)' /\ Covering(r) /\ j = run[r].job,
           \A j \in JobIds : ~Present(j) /\ Present(j)' => j[2] = "integrate"
    PROVE  FetchShape(r) /\ Announced(r)'
<1>1. run'[r].phase = "idle" /\ \A s \in Runs : s # r => run'[s] = run[s]
  BY ReturnFields
<1> QED
  BY <1>1 DEF FetchShape, Announced, Covering, Present

\* A worker that moves on with its claim.
LEMMA ClaimKept ==
    ASSUME TypeOK, ItemInv, NEW r \in Runs, NEW p, run[r].phase \notin {"idle", "after"}, Move(r, p),
           UNCHANGED lapses,
           \A i \in Items : \/ enrich'[i] = enrich[i] /\ calls'[i] = calls[i]
                            \/ run[r].phase \in Fetching /\ i = ItemOf(r),
           \A j \in JobIds : Present(j) =>
               Present(j)' /\ rows'[j].st = rows[j].st /\ rows'[j].tries = rows[j].tries,
           \A j \in JobIds : ~Present(j) /\ Present(j)' => j[2] = "integrate"
    PROVE  /\ FetchShape(r) /\ run'[r].phase = p /\ ItemOf(r)' = ItemOf(r)
           /\ p \notin {"planning", "announced", "calling"} => Announced(r)'
<1>1. /\ \A s \in Runs : s # r => run'[s] = run[s]
      /\ run'[r].phase = p /\ run'[r].job = run[r].job /\ run'[r].att = run[r].att
  BY MoveFields
<1> QED
  BY <1>1 DEF FetchShape, Announced, Covering, ItemOf

\* Every step of a worker after its claim keeps the invariant.
LEMMA AgentWorker ==
    ASSUME TypeOK, TypeOK', ItemInv, AgentInv, NEW r \in Runs,
           Proceed(r) \/ Crash(r) \/ LoseConnection(r)
    PROVE  AgentInv'
<1> USE DEF item, hist, faults
<1> DEFINE MineBilled == \A i \in Items : run[r].phase \in Fetching /\ i = ItemOf(r) => Billed(i)'
<1> SUFFICES FetchShape(r) /\ (lapses = 0 => Announced(r)' /\ MineBilled)
  BY AgentStepOfWorker
<1>0. ASSUME UNCHANGED <<enrich, calls>> PROVE lapses = 0 => MineBilled
  BY <1>0 DEF AgentInv, Billed
<1>a. lapses = 0 => Announced(r) /\ \A i \in Items : Billed(i)
  BY DEF AgentInv
<1>b. run[r].phase # "idle" => run[r].job \in JobIds /\ ItemOf(r) \in Items
  BY Underway
<1>1. CASE start(r)
  <2>1. run[r].phase = "claimed" /\ UNCHANGED <<lapses, enrich, calls, rows>>
    BY <1>1 DEF start, At
  <2>2. PICK p : /\ Move(r, p)
                 /\ p = CASE run[r].fen -> "landed"
                          [] ~run[r].fen /\ QueueOf(r) = "integrate" -> integrate_reads(ItemOf(r))
                          [] OTHER -> enrich_reads(ItemOf(r))
    BY <1>1 DEF start
  <2>3. p \notin {"announced", "calling"} /\ (p = "planning" => enrich[ItemOf(r)] \notin OnRecord)
    BY <2>2 DEF integrate_reads, enrich_reads, OnRecord
  <2>4. FetchShape(r) /\ run'[r].phase = p /\ ItemOf(r)' = ItemOf(r)
        /\ (p \notin {"planning", "announced", "calling"} => Announced(r)')
    BY <2>1, <2>2, ClaimFields, ClaimKept
  <2>5. p = "planning" /\ lapses = 0 => calls[ItemOf(r)] = 0
    BY <1>a, <1>b, <2>1, <2>3 DEF Billed, TypeOK
  <2>6. lapses = 0 => Announced(r)'
    BY <2>1, <2>3, <2>4, <2>5 DEF Announced
  <2> QED
    BY <1>0, <2>1, <2>4, <2>6
<1>2. CASE NoOp(r)
  <2>1. /\ run[r].phase = "noop" /\ Move(r, "landed") /\ Fence(run[r].job)
        /\ UNCHANGED <<lapses, enrich, calls>>
    BY <1>2 DEF NoOp, At
  <2> QED
    BY <1>0, <2>1, ClaimFields, ClaimKept
<1>3. CASE complete(r)
  <2>1. /\ run[r].phase = "landed" /\ SetRow(run[r].job, "done")
        /\ IF run[r].steps THEN Move(r, "after") ELSE Return(r)
        /\ UNCHANGED <<lapses, enrich, calls>>
    BY <1>3 DEF complete, At
  <2>2. \A j \in JobIds : /\ Present(j) => Present(j)'
                          /\ Present(j)' => Present(j)
                          /\ j # run[r].job => rows'[j] = rows[j]
    BY <2>1, ClaimFields DEF RowStates
  <2>3. Covering(r)
    BY <2>1 DEF Covering
  <2>4. CASE ~run[r].steps
    BY <1>0, <2>1, <2>2, <2>3, <2>4, ClaimReturned
  <2>5. CASE run[r].steps
    <3>1. run'[r].phase = "after" /\ \A s \in Runs : s # r => run'[s] = run[s]
      BY <2>1, <2>5, MoveFields
    <3> QED
      BY <1>0, <2>1, <2>2, <2>3, <3>1 DEF FetchShape, Announced, Covering
  <2> QED
    BY <2>4, <2>5
<1>4. CASE defer(r)
  <2>1. run[r].phase = "claimed" /\ Return(r) /\ UNCHANGED <<lapses, enrich, calls>>
    BY <1>4 DEF defer, At
  <2>2. /\ run[r].job \in JobIds /\ rows[run[r].job] \in Rows /\ rows \in [JobIds -> Rows]
        /\ Present(run[r].job)
    BY <2>1, Underway DEF TypeOK
  <2> DEFINE j == run[r].job
             now == [rows[j] EXCEPT !.st = "ready", !.tries = rows[j].tries - 1]
  <2>3. now.st = "ready"
    BY <2>2 DEF Rows
  <2>4. rows' = [rows EXCEPT ![j] = IF Exists(j) THEN now ELSE rows[j]]
    BY <1>4 DEF defer
  <2> HIDE DEF now
  <2>5. \A k \in JobIds : /\ k # j => rows'[k] = rows[k]
                          /\ Present(k) <=> Present(k)'
    BY <2>2, <2>3, <2>4 DEF Present
  <2> QED
    BY <1>0, <2>1, <2>5, ClaimReturned DEF Covering
<1>5. CASE Crash(r) \/ AbandonPass(r)
  <2>1. run[r].phase # "idle" /\ Return(r) /\ UNCHANGED <<lapses, enrich, calls, rows>>
    BY <1>5 DEF Crash, AbandonPass
  <2> QED
    BY <1>0, <2>1, ClaimFields, ClaimReturned
<1>6. CASE write_back(r)
  <2>1. run[r].phase = "after" /\ Return(r) /\ UNCHANGED <<lapses, enrich, calls, rows>>
    BY <1>6 DEF write_back, At
  <2> QED
    BY <1>0, <2>1, ClaimFields, ClaimReturned
<1>7. CASE Retry(r)
  <2>1. /\ run[r].phase \in {"integrating", "planning", "calling"} /\ Return(r)
        /\ SetRow(run[r].job, "ready") /\ UNCHANGED <<lapses, enrich, calls>>
    BY <1>7 DEF Retry, CanRaise
  <2>2. \A j \in JobIds : /\ Present(j) => Present(j)'
                          /\ Present(j)' => Present(j)
                          /\ j # run[r].job => rows'[j] = rows[j]
    BY <2>1, ClaimFields DEF RowStates
  <2> QED
    BY <1>0, <2>1, <2>2, ClaimReturned DEF Covering
<1>8. CASE GiveUp(r)
  <2>1. /\ run[r].phase \in {"integrating", "planning", "calling"} /\ Return(r)
        /\ UNCHANGED <<lapses, calls>>
    BY <1>8 DEF GiveUp, CanRaise
  <2>2. CASE source_item_failed(r)
    <3>1. SetRow(run[r].job, "failed") /\ UNCHANGED enrich
      BY <2>2 DEF source_item_failed
    <3>2. \A j \in JobIds : /\ Present(j) => Present(j)'
                            /\ Present(j)' => Present(j)
                            /\ j # run[r].job => rows'[j] = rows[j]
      BY <2>1, <3>1, ClaimFields DEF RowStates
    <3> QED
      BY <1>0, <2>1, <3>1, <3>2, ClaimReturned DEF Covering
  <2>3. CASE QueueOf(r) = "enrich" /\ record_enrich_failure(r)
    <3>1. run[r].phase \in Fetching
      BY <2>1, <2>3, Underway DEF WorkingRun, Fetching
    <3>2. \A i \in Items : enrich'[i] = enrich[i] \/ (i = ItemOf(r) /\ enrich'[i] = "failed")
      BY <1>b, <2>1, <2>3 DEF record_enrich_failure, TypeOK
    <3>3. /\ \A j \in JobIds : Present(j) => rows'[j] = rows[j] \/ j = run[r].job
          /\ \A j \in JobIds : ~Present(j) /\ Present(j)' => j[2] = "integrate"
      BY <2>1, <2>3, FailureKeepsFlag
    <3>4. \A j \in JobIds : j = run[r].job => Present(j)'
      <4>1. CASE state[ItemOf(r)] # "pending"
        <5>1. SetRow(run[r].job, "failed") /\ Present(run[r].job)
          BY <2>1, <2>3, <4>1, Underway DEF record_enrich_failure
        <5> QED
          BY <2>1, <5>1, ClaimFields DEF RowStates
      <4>2. CASE state[ItemOf(r)] = "pending"
        <5> DEFINE j == run[r].job
                   now == IF Exists(j) THEN [rows[j] EXCEPT !.st = "failed"] ELSE rows[j]
                   new == [NoRow EXCEPT !.st = "ready", !.deliberate = rows[j].deliberate]
        <5>1. j \in JobIds /\ rows[j] \in Rows /\ Present(j) /\ rows \in [JobIds -> Rows]
          BY <2>1, Underway DEF TypeOK
        <5>2. now.st # "absent"
          BY <5>1 DEF Rows, Present
        <5>3. new.st = "ready"
          BY RecordsTyped DEF NoRow
        <5>4. PICK k \in RowsOf(ItemOf(r)) : rows' = [rows EXCEPT ![j] = now, ![k] = new]
          BY <2>3, <4>2 DEF record_enrich_failure
        <5> HIDE DEF now, new
        <5>5. rows'[j].st # "absent"
          BY <5>1, <5>2, <5>3, <5>4
        <5> QED
          BY <5>5 DEF Present
      <4> QED
        BY <4>1, <4>2
    <3>5. FetchShape(r) /\ Announced(r)'
      BY <2>1, <3>1, <3>2, <3>3, <3>4, ClaimReturned DEF Covering, Fetching
    <3>6. lapses = 0 => MineBilled
      BY <1>a, <2>1, <3>2 DEF Billed, OnRecord
    <3> QED
      BY <3>5, <3>6
  <2> QED
    BY <1>8, <2>2, <2>3 DEF GiveUp
<1>9. ASSUME NEW status, CommitEnrich(r, status), run[r].phase \in Fetching,
             lapses = 0 => (status \in OnRecord \/ calls[ItemOf(r)] = 0 \/ status = enrich[ItemOf(r)])
      PROVE  FetchShape(r) /\ (lapses = 0 => Announced(r)' /\ MineBilled)
  <2>1. /\ Move(r, "landed") /\ run[r].phase \notin {"idle", "after"} /\ UNCHANGED <<lapses, calls>>
        /\ enrich' = [enrich EXCEPT ![ItemOf(r)] = status]
    BY <1>9 DEF CommitEnrich, Fetching
  <2>2. \A i \in Items : enrich'[i] = IF i = ItemOf(r) THEN status ELSE enrich[i]
    BY <1>b, <2>1 DEF TypeOK
  <2>3. /\ \A j \in JobIds : Present(j) =>
                \/ rows'[j] = rows[j]
                \/ j = run[r].job /\ rows'[j].st = rows[j].st /\ rows'[j].tries = rows[j].tries
        /\ \A j \in JobIds : ~Present(j) /\ Present(j)' => j[2] = "integrate"
    BY <1>9, <2>1, CommitKeepsFlag
  <2>4. \A j \in JobIds : Present(j) =>
               Present(j)' /\ rows'[j].st = rows[j].st /\ rows'[j].tries = rows[j].tries
    BY <2>3 DEF Present
  <2>5. FetchShape(r) /\ Announced(r)'
    BY <1>9, <2>1, <2>2, <2>3, <2>4, ClaimKept
  <2>6. lapses = 0 => MineBilled
    BY <1>a, <1>9, <2>1, <2>2 DEF Billed
  <2> QED
    BY <2>5, <2>6
<1>10. CASE \/ Requeue(r) \/ Interrupted(r) \/ _record_skip(r) \/ AnnounceFails(r)
            \/ NoArticle(r) \/ apply_enriched_article(r)
  <2>1. CASE Requeue(r)
    BY <1>9, <2>1 DEF Requeue, At, Fetching
  <2>2. CASE _record_skip(r)
    BY <1>a, <1>9, <2>2 DEF _record_skip, At, Fetching, Announced
  <2>3. CASE Interrupted(r) \/ AnnounceFails(r) \/ NoArticle(r)
    BY <1>9, <2>3 DEF Interrupted, AnnounceFails, NoArticle, At, Fetching, OnRecord
  <2>4. CASE apply_enriched_article(r)
    BY <1>9, <2>4 DEF apply_enriched_article, At, Fetching, OnRecord
  <2> QED
    BY <1>10, <2>1, <2>2, <2>3, <2>4
<1>11. CASE _announce_running(r)
  <2>1. /\ run[r].phase = "planning" /\ Move(r, "announced") /\ UNCHANGED <<lapses, calls, rows>>
        /\ mark_enrichment_running(ItemOf(r))
    BY <1>11 DEF _announce_running
  <2>2. \A i \in Items : IF i = ItemOf(r) THEN enrich'[i] \in OnRecord ELSE enrich'[i] = enrich[i]
    BY <1>b, <2>1 DEF mark_enrichment_running, TypeOK, OnRecord
  <2>3. FetchShape(r) /\ run'[r].phase = "announced" /\ ItemOf(r)' = ItemOf(r)
    BY <2>1, <2>2, ClaimFields, ClaimKept DEF Fetching
  <2>4. lapses = 0 => Announced(r)'
    BY <1>a, <1>b, <2>1, <2>2, <2>3 DEF Announced
  <2>5. lapses = 0 => MineBilled
    BY <1>a, <2>1, <2>2 DEF Billed
  <2> QED
    BY <2>3, <2>4, <2>5
<1>12. CASE call(r)
  <2>1. /\ run[r].phase = "announced" /\ Move(r, "calling") /\ UNCHANGED <<lapses, enrich, rows>>
        /\ calls' = [calls EXCEPT ![ItemOf(r)] = calls[ItemOf(r)] + 1]
    BY <1>12 DEF call
  <2>2. \A i \in Items : calls'[i] = IF i = ItemOf(r) THEN calls[i] + 1 ELSE calls[i]
    BY <1>b, <2>1 DEF TypeOK
  <2>3. FetchShape(r) /\ run'[r].phase = "calling" /\ ItemOf(r)' = ItemOf(r)
    BY <2>1, <2>2, ClaimFields, ClaimKept DEF Fetching
  <2>4. lapses = 0 => Announced(r)'
    BY <1>a, <2>1, <2>3 DEF Announced
  <2>5. lapses = 0 => MineBilled
    BY <1>a, <2>1, <2>2 DEF Billed, Announced
  <2> QED
    BY <2>3, <2>4, <2>5
<1>13. CASE handle_integrate(r)
  <2>1. /\ run[r].phase = "integrating" /\ Fence(run[r].job) /\ UNCHANGED <<lapses, enrich, calls>>
        /\ run' = [run EXCEPT ![r] = [run[r] EXCEPT !.phase = "landed", !.steps = schedule(r)]]
    BY <1>13 DEF handle_integrate, At
  <2>2. run[r] \in Executions /\ run \in [Runs -> Executions]
    BY DEF TypeOK
  <2> DEFINE now == [run[r] EXCEPT !.phase = "landed", !.steps = schedule(r)]
  <2>3. now.phase = "landed" /\ now.job = run[r].job /\ now.att = run[r].att
    BY <2>2 DEF Executions
  <2>4. run' = [run EXCEPT ![r] = now]
    BY <2>1
  <2> HIDE DEF now
  <2>5. /\ \A s \in Runs : s # r => run'[s] = run[s]
        /\ run'[r].phase = "landed" /\ run'[r].job = run[r].job /\ run'[r].att = run[r].att
    BY <2>2, <2>3, <2>4
  <2>6. \A j \in JobIds : /\ Present(j) => /\ Present(j)' /\ rows'[j].st = rows[j].st
                                           /\ rows'[j].tries = rows[j].tries
                          /\ Present(j)' => Present(j)
    BY <2>1, ClaimFields
  <2>7. FetchShape(r) /\ Announced(r)'
    BY <2>1, <2>5, <2>6 DEF FetchShape, Announced, Covering
  <2> QED
    BY <1>0, <2>1, <2>7
<1>14. CASE LoseConnection(r)
  <2>1. run[r].phase # "idle" /\ UNCHANGED <<lapses, enrich, calls, rows>>
    BY <1>14 DEF LoseConnection
  <2>2. run[r] \in Executions /\ run \in [Runs -> Executions]
    BY DEF TypeOK
  <2> DEFINE now == [run[r] EXCEPT !.conn = FALSE]
  <2>3. now.phase = run[r].phase /\ now.job = run[r].job /\ now.att = run[r].att
    BY <2>2 DEF Executions
  <2>4. run' = [run EXCEPT ![r] = now]
    BY <1>14 DEF LoseConnection
  <2> HIDE DEF now
  <2>5. /\ \A s \in Runs : s # r => run'[s] = run[s]
        /\ run'[r].phase = run[r].phase /\ run'[r].job = run[r].job /\ run'[r].att = run[r].att
    BY <2>2, <2>3, <2>4
  <2>6. FetchShape(r)
    BY <2>1, <2>5 DEF FetchShape, Covering, Present
  <2>7. lapses = 0 => Announced(r)'
    BY <1>a, <2>1, <2>5 DEF Announced, ItemOf
  <2> QED
    BY <1>0, <2>1, <2>6, <2>7
<1> QED
  BY <1>1, <1>2, <1>3, <1>4, <1>5, <1>6, <1>7, <1>8, <1>10, <1>11, <1>12, <1>13, <1>14
     DEF Proceed

\* A claim without a lapse is of a row no worker is under way with.
LEMMA AgentClaim ==
    ASSUME TypeOK, TypeOK', ItemInv, AgentInv, NEW r \in Runs, NEW j \in JobIds, claim(r, j)
    PROVE  AgentInv'
<1> USE DEF item, hist, faults
<1>1. run[r] = Idle /\ Owed(j) /\ UNCHANGED <<enrich, calls>>
  BY DEF claim
<1>2. rows \in [JobIds -> Rows] /\ rows[j] \in Rows /\ run \in [Runs -> Executions]
  BY DEF TypeOK
<1> DEFINE n == rows[j].tries + 1
           now == [rows[j] EXCEPT !.st = "running", !.tries = n]
           got == [phase |-> "claimed", job |-> j, att |-> n, fen |-> rows[j].fenced,
                   conn |-> TRUE, steps |-> FALSE]
<1>3a. rows[j].tries \in Int
  BY <1>2 DEF Rows
<1>3. now.st = "running" /\ now.tries = n
  BY <1>2 DEF Rows
<1>4. got.phase = "claimed" /\ got.job = j /\ got.att = n
  OBVIOUS
<1>5. rows' = [rows EXCEPT ![j] = now] /\ run' = [run EXCEPT ![r] = got]
  BY DEF claim
<1> HIDE DEF now, got, n
<1>6. /\ \A k \in JobIds : k # j => rows'[k] = rows[k]
      /\ rows'[j].st = "running" /\ rows'[j].tries = n
      /\ \A s \in Runs : s # r => run'[s] = run[s]
      /\ run'[r].phase = "claimed" /\ run'[r].job = j /\ run'[r].att = n
  BY <1>2, <1>3, <1>4, <1>5
<1>7. \A k \in JobIds : Present(k)' <=> Present(k)
  BY <1>1, <1>6 DEF Present, Owed
<1>8. OneFetch'
  BY <1>7 DEF AgentInv, OneFetch
<1>9. SUFFICES ASSUME lapses' = 0
               PROVE  /\ ClaimAlone' /\ \A s \in Runs : ClaimHeld(s)' /\ Announced(s)'
                      /\ \A i \in Items : Billed(i)'
  BY <1>8 DEF AgentInv
<1>10. lapses = 0 /\ ~(rows[j].st = "running" /\ Covered(j))
  BY <1>9 DEF claim, TypeOK
<1>11. /\ ClaimAlone /\ \A s \in Runs : ClaimHeld(s) /\ Announced(s)
       /\ \A i \in Items : Billed(i)
  BY <1>10 DEF AgentInv
<1>12. \A s \in Runs : Covering(s) => run[s].job # j
  BY <1>10, <1>11 DEF Covered, Covering, ClaimHeld
<1>13. ASSUME NEW s \in Runs, s # r PROVE Announced(s)' /\ ClaimHeld(s)' /\ (Covering(s)' => run'[s].job # j)
  <2>1. run'[s] = run[s]
    BY <1>6, <1>13
  <2>2. Covering(s) => run[s].job \in JobIds
    BY Underway DEF Covering
  <2> QED
    BY <1>1, <1>6, <1>11, <1>12, <2>1, <2>2 DEF Announced, ClaimHeld, Covering, ItemOf
<1>14. Announced(r)' /\ ClaimHeld(r)'
  BY <1>6 DEF Announced, ClaimHeld
<1>15. ClaimAlone'
  BY <1>6, <1>11, <1>13 DEF ClaimAlone, Covering
<1>16. \A i \in Items : Billed(i)'
  BY <1>1, <1>11 DEF Billed
<1> QED
  BY <1>13, <1>14, <1>15, <1>16

\* Of the rows of an item without one, only the first is the next.
LEMMA OneNext ==
    ASSUME NEW i \in Items, Rowless(i), NEW j \in JobIds, NEW k \in JobIds,
           j[1] = i, k[1] = i, j[2] = k[2], IsNext(j), IsNext(k)
    PROVE  j = k
<1>1. PICK q \in Queues, m \in 1..MaxRows : j = <<i, q, m>>
  BY JobTyped DEF JobIds
<1>2. PICK n \in 1..MaxRows : k = <<i, q, n>>
  BY <1>1 DEF JobIds
<1>3. <<i, q, m>> \in JobIds /\ <<i, q, n>> \in JobIds
  BY JobTyped
<1>4. rows[<<i, q, m>>].st = "absent" /\ rows[<<i, q, n>>].st = "absent"
  BY <1>1, <1>2 DEF IsNext
<1>5. m <= n /\ n <= m
  BY <1>1, <1>2, <1>4 DEF IsNext
<1>6. m = n
  BY <1>5
<1> QED
  BY <1>1, <1>2, <1>6

\* Arrivals, requests and the sweep leave items that workers have alone.
LEMMA AgentRequest ==
    ASSUME TypeOK, TypeOK', ItemInv, AgentInv, NEW i, NEW q, NEW k, NEW ids, NEW op,
           \/ i \in Items /\ (handle_extract(i) \/ enqueue_paste(i))
           \/ q \in Requests /\ (Commit(q) \/ Rollback(q) \/ SelectHeld(q, op, ids))
           \/ k \in JobIds /\ prune(k)
    PROVE  AgentInv'
<1> USE DEF item, hist, faults
<1>1. UNCHANGED <<run, calls, lapses>>
  BY DEF handle_extract, enqueue_paste, Commit, enqueue_integration,
         dismiss_held_source_items, Rollback, SelectHeld, prune
\* It is enough that the rows workers have, and their items, stay as they are.
<1>2. SUFFICES /\ OneFetch'
               /\ \A a \in Items : enrich'[a] = enrich[a] \/ Rowless(a)
               /\ \A j \in JobIds : rows[j].st = "running" =>
                      rows'[j].st = "running" /\ rows'[j].tries = rows[j].tries
  <2> SUFFICES ASSUME OneFetch', lapses = 0,
                      \A a \in Items : enrich'[a] = enrich[a] \/ Rowless(a),
                      \A j \in JobIds : rows[j].st = "running" =>
                          rows'[j].st = "running" /\ rows'[j].tries = rows[j].tries
               PROVE  /\ ClaimAlone' /\ \A s \in Runs : ClaimHeld(s)' /\ Announced(s)'
                      /\ \A a \in Items : Billed(a)'
    BY <1>1 DEF AgentInv
  <2>1. /\ ClaimAlone /\ \A s \in Runs : ClaimHeld(s) /\ Announced(s)
        /\ \A a \in Items : Billed(a)
    BY DEF AgentInv
  <2>2. ASSUME NEW s \in Runs PROVE ClaimHeld(s)' /\ Announced(s)'
    <3>1. CASE run[s].phase = "idle"
      BY <1>1, <3>1 DEF ClaimHeld, Announced, Covering
    <3>2. CASE run[s].phase # "idle"
      <4>1. run[s].job \in JobIds /\ ItemOf(s) \in Items /\ ~Rowless(ItemOf(s))
        BY <3>2, Underway DEF Rowless
      <4> QED
        BY <1>1, <2>1, <4>1 DEF ClaimHeld, Announced, Covering, ItemOf
    <3> QED
      BY <3>1, <3>2
  <2>3. ASSUME NEW a \in Items PROVE Billed(a)'
    <3>1. Rowless(a) => calls[a] = 0
      BY DEF ItemInv, Paid, Rowless, TypeOK
    <3> QED
      BY <1>1, <2>1, <3>1 DEF Billed
  <2>4. ClaimAlone'
    BY <1>1, <2>1 DEF ClaimAlone, Covering
  <2> QED
    BY <2>2, <2>3, <2>4
<1>3. CASE UNCHANGED <<rows, enrich>>
  BY <1>3 DEF AgentInv, OneFetch, Present
<1>4. CASE i \in Items /\ enqueue_paste(i)
  <2> DEFINE new == {j \in RowsOf(i) : j[2] = "integrate" /\ IsNext(j)}
  <2>1. Insert(new, FALSE, {}) /\ UNCHANGED enrich
    BY <1>4 DEF enqueue_paste
  <2>2. \A j \in new : j[2] = "integrate" /\ rows[j].st = "absent"
    BY DEF IsNext
  <2>3. \A j \in JobIds : j \notin new => rows'[j] = rows[j]
    BY <2>1 DEF Insert
  <2> HIDE DEF new
  <2> QED
    BY <2>1, <2>2, <2>3 DEF AgentInv, OneFetch, Present
<1>5. CASE q \in Requests /\ enqueue_integration(q)
  <2>1. PICK sited \in SUBSET req[q].got, new \in SUBSET JobIds :
           /\ \A j \in new : j[1] \in req[q].got /\ IsNext(j)
           /\ \A j \in new : j[2] = IF j[1] \in sited THEN "enrich" ELSE "integrate"
           /\ Insert(new, TRUE, {})
           /\ mark_enrichment_queued(sited)
    <3>1. PICK sited \in SUBSET req[q].got :
            LET target == [a \in req[q].got |-> IF a \in sited THEN "enrich" ELSE "integrate"]
                new == {j \in JobIds : j[1] \in req[q].got /\ j[2] = target[j[1]] /\ IsNext(j)}
            IN Insert(new, TRUE, {}) /\ mark_enrichment_queued(sited)
      BY <1>5 DEF enqueue_integration, plan_enrichment
    <3> DEFINE target == [a \in req[q].got |-> IF a \in sited THEN "enrich" ELSE "integrate"]
               new == {j \in JobIds : j[1] \in req[q].got /\ j[2] = target[j[1]] /\ IsNext(j)}
    <3>2. /\ new \in SUBSET JobIds /\ \A j \in new : j[1] \in req[q].got /\ IsNext(j)
          /\ \A j \in new : j[2] = IF j[1] \in sited THEN "enrich" ELSE "integrate"
      OBVIOUS
    <3> QED
      BY <3>1, <3>2
  <2>2. \A a \in Items : a \in req[q].got => Rowless(a)
    BY <1>5 DEF enqueue_integration, ItemInv, HeldIsIdle, Rowless
  <2>3. req[q].got \in SUBSET Items
    BY <1>5 DEF TypeOK
  <2>4. \A j \in JobIds : j \notin new => rows'[j] = rows[j]
    BY <2>1 DEF Insert
  <2>5. \A a \in Items : enrich'[a] = enrich[a] \/ Rowless(a)
    BY <2>1, <2>2 DEF mark_enrichment_queued
  <2>6. \A j \in new : rows[j].st = "absent" /\ Rowless(j[1])
    BY <2>1, <2>2, <2>3 DEF IsNext
  <2>7. ASSUME NEW j \in JobIds, NEW l \in JobIds, Present(j)', Present(l)', j[1] = l[1],
               j[2] = "enrich", l[2] = "enrich"
        PROVE  j = l
    <3>1. \A m \in JobIds : m \notin new /\ Present(m)' => Present(m) /\ ~Rowless(m[1])
      BY <2>4 DEF Present, Rowless
    <3>2. CASE j \in new /\ l \in new
      BY <2>1, <2>6, <2>7, <3>2, OneNext, JobTyped
    <3>3. CASE j \notin new /\ l \notin new
      BY <2>7, <3>1, <3>3 DEF AgentInv, OneFetch
    <3> QED
      BY <2>6, <2>7, <3>1, <3>2, <3>3
  <2>8. OneFetch'
    BY <2>7 DEF OneFetch
  <2> QED
    BY <2>4, <2>5, <2>6, <2>8
<1>6. CASE k \in JobIds /\ prune(k)
  <2>1. /\ \A j \in JobIds : j # k => rows'[j] = rows[j]
        /\ rows[k].st \in {"done", "failed"} /\ UNCHANGED enrich
    BY <1>6, RowsKept DEF prune
  <2> QED
    BY <1>6, <2>1 DEF AgentInv, OneFetch, Present
<1> QED
  BY <1>3, <1>4, <1>5, <1>6 DEF handle_extract, Commit, dismiss_held_source_items, Rollback,
                                SelectHeld

\* Every step keeps the agent's invariant.
LEMMA AgentStep == TypeOK /\ ItemInv /\ AgentInv /\ [Next]_vars => AgentInv'
<1> SUFFICES ASSUME TypeOK, ItemInv, AgentInv, [Next]_vars PROVE AgentInv'
  OBVIOUS
<1>0. TypeOK'
  BY TypeStep
<1>1. ASSUME NEW i \in Items, handle_extract(i) \/ enqueue_paste(i) PROVE AgentInv'
  BY <1>0, <1>1, AgentRequest
<1>2. ASSUME NEW q \in Requests, Commit(q) \/ Rollback(q) PROVE AgentInv'
  BY <1>0, <1>2, AgentRequest
<1>3. ASSUME NEW q \in Requests, NEW ids \in SUBSET Items, NEW op \in {"ingest", "dismiss"},
             SelectHeld(q, op, ids)
      PROVE  AgentInv'
  BY <1>0, <1>3, AgentRequest
<1>4. ASSUME NEW j \in JobIds, prune(j) PROVE AgentInv'
  BY <1>0, <1>4, AgentRequest
<1>5. ASSUME NEW r \in Runs, NEW j \in JobIds, claim(r, j) PROVE AgentInv'
  BY <1>0, <1>5, AgentClaim
<1>6. ASSUME NEW r \in Runs, Proceed(r) \/ Crash(r) \/ LoseConnection(r) PROVE AgentInv'
  BY <1>0, <1>6, AgentWorker
<1>7. CASE UNCHANGED vars
  BY <1>7 DEF vars, item, hist, faults, AgentInv, OneFetch, Present, ClaimAlone, ClaimHeld,
              Covering, Announced, ItemOf, Billed
<1> QED
  BY <1>1, <1>2, <1>3, <1>4, <1>5, <1>6, <1>7 DEF Next

\* AgentInv is an invariant of the item specification.
THEOREM AgentCorrect == Spec => []AgentInv
<1>1. Init => AgentInv
  <2> SUFFICES ASSUME Init PROVE AgentInv
    OBVIOUS
  <2>1. /\ \A j \in JobIds : rows[j].st = "absent"
        /\ \A r \in Runs : run[r].phase = "idle"
        /\ \A i \in Items : calls[i] = 0
    BY RecordsTyped DEF Init
  <2> QED
    BY <2>1 DEF AgentInv, OneFetch, Present, ClaimAlone, ClaimHeld, Covering, Announced, Billed
<1> QED
  BY <1>1, AgentStep, ItemInvariant, TypeCorrect, PTL DEF Spec

\* Until a lease runs out under a live worker, crashes, retries, lost
\* sessions and double clicks never start the agent twice for an item.
THEOREM AgentOnceHolds == Spec => []AgentOnceUnlessLapsed
<1>1. AgentInv => AgentOnceUnlessLapsed
  BY DEF AgentInv, AgentOnceUnlessLapsed, AgentAtMostOnce, Billed
<1> QED
  BY <1>1, AgentCorrect, PTL

\* ... and its record never denies a run that was started.
THEOREM StartedHolds == Spec => []StartedIsOnRecord
<1>1. AgentInv => StartedIsOnRecord
  BY DEF AgentInv, StartedIsOnRecord, Billed, OnRecord
<1> QED
  BY <1>1, AgentCorrect, PTL
=============================================================================

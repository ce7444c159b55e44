-------------------------- MODULE OperationsProofs --------------------------
(***************************************************************************)
(* Proofs about Requests, Harness, EnrichRun and ModelGateway.  A running  *)
(* job is held by one worker, which is at that job's queue, so what its    *)
(* handler hands on lies ahead of it; an alert armed, like one sent,       *)
(* stands for a submission stored.  Row numbers are never used again, so   *)
(* what a row is about is there or gone for good; a reset nothing overlaps *)
(* has, after each statement, doomed every row of the tables it has been   *)
(* through.  Only the run a handler waits for still costs, and a run is    *)
(* never further past its cap than what was in the pipe.  What a stage was *)
(* billed is booked, let go of, or in the buffer of the job in hand.       *)
(***************************************************************************)
EXTENDS Requests, Harness, EnrichRun, ModelGateway, FiniteSetTheorems, TLAPS

JobRows == [q : QueueNames \cup {"none"}, st : {"none", "pending", "ready", "running", "over"},
            nudged : BOOLEAN, left : BOOLEAN]
RequestRows == [at : {"idle", "wrote", "committed", "over"}, armed : BOOLEAN,
                alert : Addresses \cup {None}]
WorkerRows == [at : 0..(Len(PIPELINE) + 1), kind : {"once", "poll"},
               job : Reqs \cup {None}, n : Nat, stop : BOOLEAN]

RequestTypes ==
    /\ req \in [Reqs -> RequestRows] /\ job \in [Reqs -> JobRows]
    /\ exec \in [Execs -> WorkerRows]
    /\ listed \in [Addresses -> [n : Nat, by : Reqs \cup {None}, was : Nat]]
    /\ told \in [Addresses -> Nat]

\* A job's row and its request go together.
JobsFollow ==
    \A r \in Reqs :
        /\ req[r].at = "idle" => job[r] = NothingQueued
        /\ req[r].at \in {"idle", "over"} => ~ req[r].armed /\ req[r].alert = None
        /\ req[r].at = "wrote" => job[r].st \in {"none", "pending"} /\ ~ job[r].nudged
        /\ job[r].st = "pending" => req[r].at = "wrote"
        /\ req[r].armed => req[r].alert = None
        /\ job[r].st \in {"pending", "ready", "running"} => job[r].q \in QueueNames

\* Who runs a job is at its queue, and is the only one.
HeldOnce ==
    /\ \A x \in Execs : exec[x].job # None =>
           /\ job[exec[x].job].st = "running"
           /\ exec[x].at \in 1..Len(PIPELINE) /\ job[exec[x].job].q = PIPELINE[exec[x].at]
    /\ \A x, y \in Execs : exec[x].job # None /\ exec[x].job = exec[y].job => x = y

\* The alerts still owed for an address
Owed(a) == {r \in Reqs : req[r].at = "committed" /\ req[r].alert = a}
Stored(row) == IF row.by = None THEN row.n ELSE row.was
AlertsBacked ==
    \A a \in Addresses :
        /\ IsFiniteSet(Owed(a))
        /\ told[a] + Cardinality(Owed(a)) > 0 => Stored(listed[a]) > 0
        /\ Stored(listed[a]) < MaxSubmissions =>
               told[a] + Cardinality(Owed(a)) <= Stored(listed[a])
        /\ listed[a].by # None =>
               /\ req[listed[a].by].at = "wrote" /\ req[listed[a].by].alert = a
               /\ listed[a].n >= listed[a].was /\ listed[a].n > 0
               /\ listed[a].n < MaxSubmissions => listed[a].n = listed[a].was + 1
RowsHeld ==
    \A r \in Reqs : req[r].at = "wrote" /\ req[r].alert # None => listed[req[r].alert].by = r

RequestInv ==
    /\ RequestTypes /\ JobsFollow /\ HeldOnce /\ NudgedWorkIsDrained
    /\ AlertsBacked /\ RowsHeld

\* The queues have one place each, and a handler hands its job on to a later one.
LEMMA PipelineShape ==
    /\ Len(PIPELINE) = 7 /\ "none" \notin QueueNames
    /\ \A i \in 1..7 : PIPELINE[i] \in QueueNames /\ Place(PIPELINE[i]) = i
    /\ \A q \in QueueNames : Place(q) \in 1..7 /\ PIPELINE[Place(q)] = q
    /\ \A i \in 1..7 : \A q \in HandsOn(PIPELINE[i]) : q = "none" \/ (q \in QueueNames /\ Place(q) > i)
    /\ \A q \in {"poll", "enrich", "integrate", "assemble"} : q \in QueueNames
<1>1. /\ Len(PIPELINE) = 7
      /\ PIPELINE[1] = "poll" /\ PIPELINE[2] = "extract" /\ PIPELINE[3] = "enrich"
      /\ PIPELINE[4] = "integrate" /\ PIPELINE[5] = "assemble" /\ PIPELINE[6] = "script"
      /\ PIPELINE[7] = "tts"
  BY DEF PIPELINE
<1> HIDE DEF PIPELINE
<1>2. \A i \in 1..7 : i = 1 \/ i = 2 \/ i = 3 \/ i = 4 \/ i = 5 \/ i = 6 \/ i = 7
  OBVIOUS
<1>3. QueueNames = {"poll", "extract", "enrich", "integrate", "assemble", "script", "tts"}
  <2>1. \A i \in 1..7 :
            PIPELINE[i] \in {"poll", "extract", "enrich", "integrate", "assemble", "script", "tts"}
    BY <1>1, <1>2
  <2>2. /\ PIPELINE[1] \in QueueNames /\ PIPELINE[2] \in QueueNames
        /\ PIPELINE[3] \in QueueNames /\ PIPELINE[4] \in QueueNames
        /\ PIPELINE[5] \in QueueNames /\ PIPELINE[6] \in QueueNames /\ PIPELINE[7] \in QueueNames
    BY <1>1 DEF QueueNames
  <2> QED
    BY <1>1, <2>1, <2>2 DEF QueueNames
<1>4. \A i, j \in 1..7 : PIPELINE[i] = PIPELINE[j] => i = j
  BY <1>1, <1>2
<1>5. \A q \in QueueNames : Place(q) \in 1..7 /\ PIPELINE[Place(q)] = q
  <2> TAKE q \in QueueNames
  <2>1. \E i \in 1..Len(PIPELINE) : PIPELINE[i] = q
    BY DEF QueueNames
  <2> QED
    BY <1>1, <2>1 DEF Place
<1>6. \A i \in 1..7 : PIPELINE[i] \in QueueNames
  BY <1>1 DEF QueueNames
<1>7. \A i \in 1..7 : Place(PIPELINE[i]) = i
  BY <1>4, <1>5, <1>6
<1>8. \A i \in 1..7 : \A q \in HandsOn(PIPELINE[i]) : q = "none" \/ (q \in QueueNames /\ Place(q) > i)
  <2>1. Place("extract") = 2 /\ Place("integrate") = 4 /\ Place("script") = 6 /\ Place("tts") = 7
    BY <1>1, <1>7
  <2>2. ASSUME NEW i \in 1..7, NEW q \in HandsOn(PIPELINE[i])
        PROVE  \/ q = "none"
               \/ i = 1 /\ q = "extract"
               \/ i = 3 /\ q = "integrate"
               \/ i = 5 /\ q = "script"
               \/ i = 6 /\ q = "tts"
    BY <1>1, <1>2, <2>2 DEF HandsOn
  <2> QED
    BY <1>3, <2>1, <2>2
<1> QED
  BY <1>1, <1>3, <1>5, <1>6, <1>7, <1>8

\* A step that says nothing new to Slack or of the waitlist
LEMMA AlertsStill ==
    ASSUME RequestInv, listed' = listed, told' = told,
           \A r \in Reqs : /\ req'[r].alert = req[r].alert
                           /\ req[r].alert # None => req'[r].at = req[r].at
    PROVE  AlertsBacked' /\ RowsHeld'
<1>0. None \notin Addresses
  BY RequestAssumption
<1>1. \A a \in Addresses : Owed(a)' = Owed(a)
  BY <1>0 DEF Owed
<1>2. \A a \in Addresses : listed[a].by # None => listed[a].by \in Reqs
  BY DEF RequestInv, RequestTypes
<1>3. AlertsBacked'
  BY <1>0, <1>1, <1>2 DEF RequestInv, AlertsBacked, Stored
<1>4. RowsHeld'
  BY DEF RequestInv, RowsHeld
<1> QED
  BY <1>3, <1>4

\* The first states satisfy the invariant.
LEMMA RequestStart == RequestInit => RequestInv
<1> SUFFICES ASSUME RequestInit PROVE RequestInv
  OBVIOUS
<1>1. RequestTypes
  BY PipelineShape, RequestAssumption
     DEF RequestInit, RequestTypes, JobRows, RequestRows, WorkerRows, NothingQueued, IdleExec
<1>2. JobsFollow
  BY DEF RequestInit, JobsFollow, NothingQueued
<1>3. HeldOnce
  BY DEF RequestInit, HeldOnce, IdleExec
<1>4. NudgedWorkIsDrained
  BY DEF RequestInit, NudgedWorkIsDrained, Ready, NothingQueued
<1>5. AlertsBacked /\ RowsHeld
  <2>1. \A a : Owed(a) = {}
    BY DEF RequestInit, Owed
  <2>2. IsFiniteSet({}) /\ Cardinality({}) = 0
    BY FS_EmptySet
  <2>3. \A a \in Addresses :
            told[a] = 0 /\ listed[a].n = 0 /\ listed[a].by = None /\ Stored(listed[a]) = 0
    BY DEF RequestInit, Stored
  <2>4. \A a \in Addresses : IsFiniteSet(Owed(a)) /\ Cardinality(Owed(a)) = 0
    BY <2>1, <2>2
  <2>5. AlertsBacked
    BY <2>3, <2>4 DEF AlertsBacked
  <2>6. RowsHeld
    BY DEF RequestInit, RowsHeld
  <2> QED
    BY <2>5, <2>6
<1> QED
  BY <1>1, <1>2, <1>3, <1>4, <1>5 DEF RequestInv

\* What a route leaves behind: its request's new row, a job or none, a submission or none
Written(r, new) ==
    /\ new.at = "wrote" /\ (new.armed => new.alert = None)
    /\ req' = [req EXCEPT ![r] = new]
    /\ \/ job' = job
       \/ \E q \in QueueNames :
              job' = [job EXCEPT ![r] = [NothingQueued EXCEPT !.q = q, !.st = "pending"]]
    /\ \/ listed' = listed /\ new.alert = None
       \/ new.alert # None /\ join(r, new.alert)

\* A route writes: its job or its address, and what it armed beside them.
LEMMA RouteWrites ==
    ASSUME RequestInv, NEW r \in Reqs, Arrives(r), exec' = exec, told' = told,
           NEW new \in RequestRows, Written(r, new)
    PROVE  RequestInv'
<1> USE DEF RequestInv
<1>0. /\ req[r].at = "idle" /\ job[r] = NothingQueued /\ None \notin Addresses /\ None \notin Reqs
      /\ req \in [Reqs -> RequestRows] /\ job \in [Reqs -> JobRows]
  BY RequestAssumption DEF Arrives, JobsFollow, RequestTypes
<1>10. /\ new.at = "wrote" /\ (new.armed => new.alert = None)
      /\ req' = [req EXCEPT ![r] = new]
      /\ \/ listed' = listed /\ new.alert = None
         \/ new.alert # None /\ join(r, new.alert)
  BY DEF Written
<1>1. /\ req'[r] = new /\ \A p \in Reqs : p # r => req'[p] = req[p]
      /\ \A p \in Reqs : p # r => job'[p] = job[p]
      /\ job' \in [Reqs -> JobRows] /\ req' \in [Reqs -> RequestRows]
      /\ job'[r].st \in {"none", "pending"} /\ ~ job'[r].nudged
      /\ job'[r].st = "pending" => job'[r].q \in QueueNames
  <2>1. NothingQueued \in JobRows /\ NothingQueued.st = "none" /\ ~ NothingQueued.nudged
    BY DEF JobRows, NothingQueued
  <2>2. CASE job' = job
    BY <1>0, <1>10, <2>1, <2>2
  <2>3. ASSUME NEW q \in QueueNames,
               job' = [job EXCEPT ![r] = [NothingQueued EXCEPT !.q = q, !.st = "pending"]]
        PROVE  /\ job' \in [Reqs -> JobRows] /\ job'[r].st = "pending" /\ ~ job'[r].nudged
               /\ job'[r].q \in QueueNames
               /\ \A p \in Reqs : p # r => job'[p] = job[p]
    BY <1>0, <2>3 DEF JobRows, NothingQueued
  <2>4. req'[r] = new /\ req' \in [Reqs -> RequestRows] /\ \A p \in Reqs : p # r => req'[p] = req[p]
    BY <1>0, <1>10
  <2>5. CASE \E q \in QueueNames :
               job' = [job EXCEPT ![r] = [NothingQueued EXCEPT !.q = q, !.st = "pending"]]
    BY <2>3, <2>4, <2>5
  <2> QED
    BY <2>2, <2>4, <2>5 DEF Written
<1>2. JobsFollow'
  BY <1>0, <1>1, <1>10 DEF JobsFollow
<1>3. HeldOnce'
  <2>1. \A x \in Execs : exec[x].job # None => exec[x].job \in Reqs /\ exec[x].job # r
    <3>1. \A x \in Execs : exec[x].job \in Reqs \cup {None}
      BY DEF RequestTypes, WorkerRows
    <3>2. job[r].st = "none"
      BY <1>0 DEF NothingQueued
    <3>3. \A x \in Execs : exec[x].job # None => job[exec[x].job].st = "running"
      BY DEF HeldOnce
    <3> QED
      BY <3>1, <3>2, <3>3
  <2> QED
    BY <1>1, <2>1 DEF HeldOnce
<1>4. NudgedWorkIsDrained'
  BY <1>1 DEF NudgedWorkIsDrained, Ready, StillAhead
<1>5. CASE listed' = listed /\ new.alert = None
  <2>1. \A p \in Reqs : /\ req'[p].alert = req[p].alert
                        /\ req[p].alert # None => req'[p].at = req[p].at
    BY <1>0, <1>1, <1>5 DEF JobsFollow
  <2>2. AlertsBacked' /\ RowsHeld'
    BY <1>5, <2>1, AlertsStill
  <2>3. RequestTypes'
    BY <1>1, <1>5 DEF RequestTypes
  <2> QED
    BY <1>2, <1>3, <1>4, <2>2, <2>3
<1>6. CASE new.alert # None /\ join(r, new.alert)
  <2> DEFINE b == new.alert
             row == [n |-> IF listed[b].n < MaxSubmissions THEN listed[b].n + 1 ELSE listed[b].n,
                     by |-> r, was |-> listed[b].n]
  <2>1. b \in Addresses /\ listed[b].by = None /\ listed[b].n \in Nat
    BY <1>6 DEF RequestRows, join, RequestTypes
  <2>2. listed' = [listed EXCEPT ![b] = row]
    BY <1>6 DEF join
  <2>3. /\ listed'[b] = row /\ \A a \in Addresses : a # b => listed'[a] = listed[a]
        /\ listed' \in [Addresses -> [n : Nat, by : Reqs \cup {None}, was : Nat]]
    <3>1. (IF listed[b].n < MaxSubmissions THEN listed[b].n + 1 ELSE listed[b].n) \in Nat
      BY <2>1
    <3>2. row \in [n : Nat, by : Reqs \cup {None}, was : Nat]
      BY <2>1, <3>1
    <3> HIDE DEF row, b
    <3> QED
      BY <2>1, <2>2, <3>2 DEF RequestTypes
  <2>4. RequestTypes'
    BY <1>1, <2>3 DEF RequestTypes
  <2>5. \A a \in Addresses : Owed(a)' = Owed(a) /\ Stored(listed'[a]) = Stored(listed[a])
    <3>1. \A a \in Addresses : Owed(a)' = Owed(a)
      BY <1>0, <1>1, <1>10 DEF Owed
    <3>2. Stored(row) = listed[b].n
      BY <1>0 DEF Stored
    <3> QED
      BY <2>1, <2>3, <3>1, <3>2 DEF Stored
  <2>6. \A a \in Addresses : a # b => (listed[a].by # None => listed[a].by \in Reqs /\ listed[a].by # r)
    BY <1>0 DEF AlertsBacked, RequestTypes
  <2>7. AlertsBacked'
    <3>1. row.n >= row.was /\ row.n > 0 /\ (row.n < MaxSubmissions => row.n = row.was + 1)
      <4>1. row.was = listed[b].n
            /\ row.n = (IF listed[b].n < MaxSubmissions THEN listed[b].n + 1 ELSE listed[b].n)
        OBVIOUS
      <4>2. listed[b].n \in Nat /\ MaxSubmissions \in Nat \ {0}
        BY <2>1, RequestAssumption
      <4> HIDE DEF row, b
      <4> QED
        BY <4>1, <4>2
    <3>2. row.by = r
      OBVIOUS
    <3> HIDE DEF row
    <3>3. ASSUME NEW a \in Addresses
          PROVE  listed'[a].by # None =>
                   /\ req'[listed'[a].by].at = "wrote" /\ req'[listed'[a].by].alert = a
                   /\ listed'[a].n >= listed'[a].was /\ listed'[a].n > 0
                   /\ listed'[a].n < MaxSubmissions => listed'[a].n = listed'[a].was + 1
      <4>1. CASE a = b
        BY <1>1, <1>10, <2>3, <3>1, <3>2, <4>1
      <4>2. CASE a # b
        BY <1>1, <2>3, <2>6, <4>2 DEF AlertsBacked
      <4> QED
        BY <4>1, <4>2
    <3>4. \A a \in Addresses : told'[a] = told[a]
      OBVIOUS
    <3> QED
      BY <2>5, <3>3, <3>4 DEF AlertsBacked
  <2>8. RowsHeld'
    <3>1. \A p \in Reqs : p # r /\ req[p].at = "wrote" /\ req[p].alert # None
                => req[p].alert # b /\ req[p].alert \in Addresses
      BY <1>0, <2>1 DEF RowsHeld, RequestRows
    <3>2. row.by = r
      OBVIOUS
    <3> HIDE DEF row
    <3> QED
      BY <1>1, <2>3, <3>1, <3>2 DEF RowsHeld
  <2> QED
    BY <1>2, <1>3, <1>4, <2>4, <2>7, <2>8
<1> QED
  BY <1>10, <1>5, <1>6

\* What a request wrote is settled: its job and its address, kept or taken back.
LEMMA SettleKeeps ==
    ASSUME RequestInv, NEW r \in Reqs, commit(r) \/ rollback(r) PROVE RequestInv'
<1> USE DEF RequestInv
<1>0. /\ req[r].at = "wrote" /\ UNCHANGED <<exec, told>>
      /\ None \notin Addresses /\ None \notin Reqs
      /\ req \in [Reqs -> RequestRows] /\ job \in [Reqs -> JobRows]
      /\ listed \in [Addresses -> [n : Nat, by : Reqs \cup {None}, was : Nat]]
      /\ told \in [Addresses -> Nat] /\ MaxSubmissions \in Nat \ {0}
  BY RequestAssumption DEF commit, rollback, RequestTypes
<1> DEFINE kept == commit(r)
<1>1. PICK k \in BOOLEAN :
        /\ Settle_row(r, k)
        /\ k => /\ req' = [req EXCEPT ![r].at = IF req[r].armed \/ req[r].alert # None
                                                THEN "committed" ELSE "over"]
                /\ job' = [job EXCEPT ![r].st = IF job[r].st = "pending" THEN "ready" ELSE job[r].st]
        /\ ~ k => /\ req' = [req EXCEPT ![r] = [at |-> "over", armed |-> FALSE, alert |-> None]]
                  /\ job' = [job EXCEPT ![r] = NothingQueued]
  BY DEF commit, rollback
<1>2. /\ req' \in [Reqs -> RequestRows] /\ job' \in [Reqs -> JobRows]
      /\ \A p \in Reqs : p # r => req'[p] = req[p] /\ job'[p] = job[p]
      /\ req'[r].at \in {"committed", "over"}
      /\ k => /\ req'[r].alert = req[r].alert /\ req'[r].armed = req[r].armed
              /\ req'[r].at = "over" <=> ~ req[r].armed /\ req[r].alert = None
              /\ job'[r].q = job[r].q /\ job'[r].nudged = job[r].nudged
              /\ job'[r].st = IF job[r].st = "pending" THEN "ready" ELSE job[r].st
      /\ ~ k => req'[r].at = "over" /\ ~ req'[r].armed /\ req'[r].alert = None
                /\ job'[r] = NothingQueued
  <2>1. CASE k
    <3>1. /\ req' = [req EXCEPT ![r].at = IF req[r].armed \/ req[r].alert # None
                                           THEN "committed" ELSE "over"]
          /\ job' = [job EXCEPT ![r].st = IF job[r].st = "pending" THEN "ready" ELSE job[r].st]
      BY <1>1, <2>1
    <3>2. req' \in [Reqs -> RequestRows] /\ req'[r].at \in {"committed", "over"}
          /\ req'[r].alert = req[r].alert /\ req'[r].armed = req[r].armed
          /\ (req'[r].at = "over" <=> ~ req[r].armed /\ req[r].alert = None)
          /\ \A p \in Reqs : p # r => req'[p] = req[p]
      BY <1>0, <3>1 DEF RequestRows
    <3>3. job' \in [Reqs -> JobRows] /\ job'[r].q = job[r].q /\ job'[r].nudged = job[r].nudged
          /\ job'[r].st = (IF job[r].st = "pending" THEN "ready" ELSE job[r].st)
          /\ \A p \in Reqs : p # r => job'[p] = job[p]
      BY <1>0, <3>1 DEF JobRows
    <3> QED
      BY <2>1, <3>2, <3>3
  <2>2. CASE ~ k
    <3>1. NothingQueued \in JobRows /\ [at |-> "over", armed |-> FALSE, alert |-> None] \in RequestRows
      BY DEF JobRows, NothingQueued, RequestRows
    <3> DEFINE gone == [at |-> "over", armed |-> FALSE, alert |-> None]
    <3>2. gone.at = "over" /\ gone.armed = FALSE /\ gone.alert = None /\ gone \in RequestRows
      BY <3>1
    <3>3. req' = [req EXCEPT ![r] = gone] /\ job' = [job EXCEPT ![r] = NothingQueued]
      BY <1>1, <2>2
    <3> HIDE DEF gone
    <3> QED
      BY <1>0, <2>2, <3>1, <3>2, <3>3
  <2> QED
    BY <2>1, <2>2
<1>3. \A a \in Addresses :
        /\ listed[a].by # r => listed'[a] = listed[a]
        /\ listed[a].by = r => listed'[a] = [listed[a] EXCEPT !.by = None, !.was = 0,
                                  !.n = IF k THEN listed[a].n ELSE listed[a].was]
  BY <1>1 DEF Settle_row
<1>4. listed' \in [Addresses -> [n : Nat, by : Reqs \cup {None}, was : Nat]]
  <2>1. \A a \in Addresses : listed[a] \in [n : Nat, by : Reqs \cup {None}, was : Nat]
    BY <1>0
  <2>2. ASSUME NEW a \in Addresses
        PROVE  listed'[a] \in [n : Nat, by : Reqs \cup {None}, was : Nat]
    <3>1. CASE listed[a].by # r
      BY <1>3, <2>1, <3>1
    <3>2. CASE listed[a].by = r
      <4>1. (IF k THEN listed[a].n ELSE listed[a].was) \in Nat
        BY <2>1
      <4>2. listed'[a] = [listed[a] EXCEPT !.by = None, !.was = 0,
                                  !.n = IF k THEN listed[a].n ELSE listed[a].was]
        BY <1>3, <3>2
      <4>3. \A v \in Nat : [listed[a] EXCEPT !.by = None, !.was = 0, !.n = v]
                               \in [n : Nat, by : Reqs \cup {None}, was : Nat]
        BY <2>1
      <4> QED
        BY <4>1, <4>2, <4>3
    <3> QED
      BY <3>1, <3>2
  <2> QED
    BY <1>1, <2>2 DEF Settle_row
<1>5. RequestTypes'
  BY <1>0, <1>2, <1>4 DEF RequestTypes
<1>6. JobsFollow'
  <2>1. /\ job[r].st \in {"none", "pending"} /\ (job[r].st = "pending" => job[r].q \in QueueNames)
        /\ req[r].armed => req[r].alert = None
    BY <1>0 DEF JobsFollow
  <2> QED
    BY <1>0, <1>2, <2>1 DEF JobsFollow, NothingQueued
<1>7. HeldOnce'
  <2>1. \A x \in Execs : exec[x].job # None => exec[x].job \in Reqs /\ exec[x].job # r
    BY <1>0 DEF HeldOnce, JobsFollow, RequestTypes, WorkerRows
  <2> QED
    BY <1>0, <1>2, <2>1 DEF HeldOnce
<1>8. NudgedWorkIsDrained'
  <2>1. ~ job'[r].nudged
    BY <1>0, <1>2 DEF JobsFollow, NothingQueued
  <2> QED
    BY <1>0, <1>2, <2>1 DEF NudgedWorkIsDrained, Ready, StillAhead
<1>9. ASSUME NEW a \in Addresses, listed[a].by # r
      PROVE  Owed(a)' = Owed(a) /\ listed'[a] = listed[a]
             /\ (listed[a].by # None => listed[a].by \in Reqs)
  <2>1. req[r].alert # a
    BY <1>0, <1>9 DEF RowsHeld
  <2>2. Owed(a)' = Owed(a)
    BY <1>0, <1>2, <2>1 DEF Owed
  <2> QED
    BY <1>0, <1>3, <1>9, <2>2
<1>10. ASSUME NEW a \in Addresses, listed[a].by = r
       PROVE  /\ listed'[a].by = None
              /\ IsFiniteSet(Owed(a)')
              /\ told[a] + Cardinality(Owed(a)') > 0 => Stored(listed'[a]) > 0
              /\ Stored(listed'[a]) < MaxSubmissions =>
                     told[a] + Cardinality(Owed(a)') <= Stored(listed'[a])
  <2>0. /\ listed[a].by # None /\ req[r].alert = a /\ listed[a] \in [n : Nat, by : Reqs \cup {None}, was : Nat]
        /\ listed[a].n >= listed[a].was /\ listed[a].n > 0
        /\ listed[a].n < MaxSubmissions => listed[a].n = listed[a].was + 1
        /\ IsFiniteSet(Owed(a)) /\ Cardinality(Owed(a)) \in Nat
        /\ told[a] + Cardinality(Owed(a)) > 0 => listed[a].was > 0
        /\ listed[a].was < MaxSubmissions => told[a] + Cardinality(Owed(a)) <= listed[a].was
    <3>1. listed[a].by # None
      BY <1>0, <1>10
    <3>2. IsFiniteSet(Owed(a))
      BY DEF AlertsBacked
    <3> QED
      BY <1>0, <1>10, <3>1, <3>2, FS_CardinalityType DEF AlertsBacked, Stored
  <2>1. listed'[a].by = None /\ listed'[a].n = IF k THEN listed[a].n ELSE listed[a].was
    BY <1>3, <1>10, <2>0
  <2>2. Stored(listed'[a]) = IF k THEN listed[a].n ELSE listed[a].was
    BY <2>1 DEF Stored
  <2>3. CASE k
    <3>1. req'[r].at = "committed" /\ req'[r].alert = a
      BY <1>0, <1>2, <2>0, <2>3
    <3>2. Owed(a)' = Owed(a) \cup {r} /\ r \notin Owed(a)
      BY <1>0, <1>2, <3>1 DEF Owed
    <3>3. IsFiniteSet(Owed(a)') /\ Cardinality(Owed(a)') = Cardinality(Owed(a)) + 1
      BY <2>0, <3>2, FS_AddElement
    <3>4. told[a] \in Nat
      BY <1>0
    <3> QED
      BY <1>0, <2>0, <2>1, <2>2, <2>3, <3>3, <3>4
  <2>4. CASE ~ k
    <3>1. Owed(a)' = Owed(a)
      BY <1>0, <1>2, <2>4 DEF Owed
    <3> QED
      BY <2>0, <2>1, <2>2, <2>4, <3>1
  <2> QED
    BY <2>3, <2>4
<1>11. AlertsBacked'
  <2>1. ASSUME NEW a \in Addresses, listed[a].by # r
        PROVE  /\ IsFiniteSet(Owed(a)')
               /\ told[a] + Cardinality(Owed(a)') > 0 => Stored(listed'[a]) > 0
               /\ Stored(listed'[a]) < MaxSubmissions =>
                      told[a] + Cardinality(Owed(a)') <= Stored(listed'[a])
               /\ listed'[a].by # None =>
                      /\ req'[listed'[a].by].at = "wrote" /\ req'[listed'[a].by].alert = a
                      /\ listed'[a].n >= listed'[a].was /\ listed'[a].n > 0
                      /\ listed'[a].n < MaxSubmissions => listed'[a].n = listed'[a].was + 1
    BY <1>2, <1>9, <2>1 DEF AlertsBacked
  <2> QED
    BY <1>0, <1>10, <2>1 DEF AlertsBacked
<1>12. RowsHeld'
  <2>1. ASSUME NEW p \in Reqs, req'[p].at = "wrote", req'[p].alert # None
        PROVE  listed'[req'[p].alert].by = p
    <3>1. p # r /\ req'[p] = req[p] /\ req[p].alert \in Addresses
      BY <1>2, <2>1 DEF RequestTypes, RequestRows
    <3>2. listed[req[p].alert].by = p
      BY <2>1, <3>1 DEF RowsHeld
    <3> QED
      BY <1>9, <3>1, <3>2
  <2> QED
    BY <2>1 DEF RowsHeld
<1> QED
  BY <1>5, <1>6, <1>7, <1>8, <1>11, <1>12

\* The nudge of a committed request: the worker it starts has every queue ahead.
LEMMA NudgeKeeps == ASSUME RequestInv, NEW r \in Reqs, fire_nudge(r) PROVE RequestInv'
<1> USE DEF RequestInv
<1>0. /\ req[r].at = "committed" /\ req[r].armed /\ req[r].alert = None
      /\ req' = [req EXCEPT ![r].armed = FALSE, ![r].at = "over"]
      /\ UNCHANGED <<listed, told>>
      /\ req \in [Reqs -> RequestRows] /\ job \in [Reqs -> JobRows] /\ exec \in [Execs -> WorkerRows]
  BY DEF fire_nudge, MayFire, JobsFollow, RequestTypes
<1>1. /\ req' \in [Reqs -> RequestRows] /\ req'[r].at = "over" /\ ~ req'[r].armed
      /\ req'[r].alert = None /\ \A p \in Reqs : p # r => req'[p] = req[p]
  BY <1>0 DEF RequestRows
<1>2. AlertsBacked' /\ RowsHeld'
  BY <1>0, <1>1, AlertsStill
<1>3. CASE UNCHANGED <<exec, job>>
  BY <1>0, <1>1, <1>2, <1>3 DEF RequestTypes, JobsFollow, HeldOnce, NudgedWorkIsDrained,
                                Ready, StillAhead
<1>4. CASE \E x \in Execs : /\ exec[x].at = 0 /\ exec' = Started(x, "once")
                            /\ job' = [job EXCEPT ![r].nudged = job[r].st # "over"]
  <2>1. PICK x \in Execs : /\ exec[x].at = 0 /\ exec' = Started(x, "once")
                           /\ job' = [job EXCEPT ![r].nudged = job[r].st # "over"]
    BY <1>4
  <2>2. /\ job' \in [Reqs -> JobRows]
        /\ \A p \in Reqs : job'[p].q = job[p].q /\ job'[p].st = job[p].st
        /\ \A p \in Reqs : p # r => job'[p] = job[p]
    BY <1>0, <2>1, ZenonT(40) DEF JobRows
  <2>3. /\ exec' \in [Execs -> WorkerRows] /\ exec'[x].at = 1 /\ exec'[x].job = None
        /\ \A y \in Execs : y # x => exec'[y] = exec[y]
    <3> DEFINE begun == [IdleExec EXCEPT !.at = 1, !.kind = "once"]
    <3>1. begun \in WorkerRows /\ begun.at = 1 /\ begun.job = None
      <4>1. 1 \in 0..(Len(PIPELINE) + 1) /\ 0 \in 0..(Len(PIPELINE) + 1)
        BY PipelineShape
      <4> QED
        BY <4>1 DEF IdleExec, WorkerRows
    <3>2. exec' = [exec EXCEPT ![x] = begun]
      BY <2>1 DEF Started
    <3> HIDE DEF begun
    <3> QED
      BY <1>0, <3>1, <3>2
  <2>4. HeldOnce'
    <3>1. \A y \in Execs : exec'[y].job # None => y # x /\ exec'[y] = exec[y] /\ exec[y].job \in Reqs
      BY <1>0, <2>3 DEF WorkerRows
    <3> QED
      BY <2>2, <3>1 DEF HeldOnce
  <2>5. NudgedWorkIsDrained'
    <3>1. \A p \in Reqs : job'[p].st = "ready" => 1 \in 1..Place(job'[p].q)
      BY <2>2, PipelineShape DEF JobsFollow
    <3> QED
      BY <2>3, <3>1 DEF NudgedWorkIsDrained, Ready, StillAhead
  <2>6. JobsFollow'
    BY <1>0, <1>1, <2>2 DEF JobsFollow
  <2>7. RequestTypes'
    BY <1>0, <1>1, <2>2, <2>3 DEF RequestTypes
  <2> QED
    BY <1>2, <2>4, <2>5, <2>6, <2>7
<1> QED
  BY <1>3, <1>4 DEF fire_nudge

\* An alert is sent, refused or lost: it is owed no longer.
LEMMA AlertKeeps == ASSUME RequestInv, NEW r \in Reqs, fire_alert(r) PROVE RequestInv'
<1> USE DEF RequestInv
<1> PICK b \in Addresses : req[r].alert = b
  BY DEF fire_alert, RequestTypes, RequestRows
<1>0. /\ req[r].at = "committed" /\ ~ req[r].armed /\ req[r].alert = b
      /\ req' = [req EXCEPT ![r].alert = None, ![r].at = "over"]
      /\ UNCHANGED <<listed, job, exec>>
      /\ told' = [told EXCEPT ![b] = told[b] + 1] \/ told' = told
      /\ req \in [Reqs -> RequestRows] /\ told \in [Addresses -> Nat]
      /\ None \notin Addresses
  BY RequestAssumption DEF fire_alert, MayFire, RequestTypes, RequestRows
<1>1. /\ req' \in [Reqs -> RequestRows] /\ req'[r].at = "over" /\ ~ req'[r].armed
      /\ req'[r].alert = None /\ \A p \in Reqs : p # r => req'[p] = req[p]
  BY <1>0 DEF RequestRows
<1>2. /\ told' \in [Addresses -> Nat] /\ told'[b] \in {told[b], told[b] + 1}
      /\ \A a \in Addresses : a # b => told'[a] = told[a]
  BY <1>0
<1>3. \A a \in Addresses : a # b => Owed(a)' = Owed(a)
  BY <1>0, <1>1 DEF Owed
<1>4. /\ IsFiniteSet(Owed(b)') /\ Cardinality(Owed(b)') \in Nat /\ Cardinality(Owed(b)) \in Nat
      /\ Cardinality(Owed(b)) = Cardinality(Owed(b)') + 1
  <2>1. Owed(b)' = Owed(b) \ {r} /\ r \in Owed(b)
    <3>1. \A p \in Reqs : req'[p].at = "committed" /\ req'[p].alert = b <=>
                          p # r /\ (req[p].at = "committed" /\ req[p].alert = b)
      BY <1>0, <1>1
    <3>2. r \in Owed(b)
      BY <1>0 DEF Owed
    <3>3. Owed(b)' = {p \in Reqs : p # r /\ (req[p].at = "committed" /\ req[p].alert = b)}
      BY <3>1 DEF Owed
    <3> QED
      BY <3>2, <3>3 DEF Owed
  <2>2. IsFiniteSet(Owed(b))
    BY <1>0 DEF AlertsBacked
  <2>3. IsFiniteSet(Owed(b)') /\ Cardinality(Owed(b)') = Cardinality(Owed(b)) - 1
    BY <2>1, <2>2, FS_RemoveElement
  <2> QED
    BY <2>2, <2>3, FS_CardinalityType
<1>5. \A a \in Addresses : listed[a].by # None => listed[a].by \in Reqs /\ listed[a].by # r
  BY <1>0 DEF AlertsBacked, RequestTypes
<1>6. AlertsBacked'
  <2>1. ASSUME NEW a \in Addresses
        PROVE  /\ IsFiniteSet(Owed(a)')
               /\ told'[a] + Cardinality(Owed(a)') > 0 => Stored(listed[a]) > 0
               /\ Stored(listed[a]) < MaxSubmissions =>
                      told'[a] + Cardinality(Owed(a)') <= Stored(listed[a])
    <3>1. CASE a # b
      BY <1>2, <1>3, <3>1 DEF AlertsBacked
    <3>2. CASE a = b
      <4>1. /\ told[b] + Cardinality(Owed(b)) > 0 => Stored(listed[b]) > 0
            /\ Stored(listed[b]) < MaxSubmissions =>
                   told[b] + Cardinality(Owed(b)) <= Stored(listed[b])
        BY <1>0 DEF AlertsBacked
      <4>2. told[b] \in Nat /\ Stored(listed[b]) \in Nat /\ MaxSubmissions \in Nat
        BY <1>0, RequestAssumption DEF Stored, RequestTypes
      <4>3. told'[b] + Cardinality(Owed(b)') <= told[b] + Cardinality(Owed(b))
        BY <1>2, <1>4, <4>2
      <4>4. told[b] + Cardinality(Owed(b)) > 0
        BY <1>4, <4>2
      <4>5. told'[b] \in Nat
        BY <1>0, <1>2
      <4>6. /\ Stored(listed[b]) > 0
            /\ Stored(listed[b]) < MaxSubmissions =>
                   told'[b] + Cardinality(Owed(b)') <= Stored(listed[b])
        BY <1>4, <4>1, <4>2, <4>3, <4>4, <4>5
      <4> QED
        BY <1>4, <3>2, <4>6
    <3> QED
      BY <3>1, <3>2
  <2>2. \A a \in Addresses : listed[a].by # None =>
               /\ req'[listed[a].by].at = "wrote" /\ req'[listed[a].by].alert = a
               /\ listed[a].n >= listed[a].was /\ listed[a].n > 0
               /\ listed[a].n < MaxSubmissions => listed[a].n = listed[a].was + 1
    BY <1>1, <1>5 DEF AlertsBacked
  <2>3. \A a \in Addresses : listed'[a] = listed[a] /\ Stored(listed'[a]) = Stored(listed[a])
    BY <1>0
  <2>4. \A a \in Addresses : Stored(listed[a])' = Stored(listed'[a])
    BY DEF Stored
  <2> QED
    BY <2>1, <2>2, <2>3, <2>4 DEF AlertsBacked
<1>7. RowsHeld'
  BY <1>0, <1>1 DEF RowsHeld
<1>8. RequestTypes' /\ JobsFollow'
  BY <1>0, <1>1, <1>2 DEF RequestTypes, JobsFollow
<1>9. HeldOnce' /\ NudgedWorkIsDrained'
  BY <1>0 DEF HeldOnce, NudgedWorkIsDrained, Ready, StillAhead
<1> QED
  BY <1>6, <1>7, <1>8, <1>9

\* A worker's step leaves the requests and the waitlist alone.
LEMMA WorkerStep ==
    ASSUME RequestInv, UNCHANGED <<req, listed, told>>,
           job' \in [Reqs -> JobRows], exec' \in [Execs -> WorkerRows],
           \A r \in Reqs : job'[r] = job[r] \/ job[r].st \in {"ready", "running"},
           \A r \in Reqs : job[r].st \in {"ready", "running"} =>
               \/ job'[r].st = "over"
               \/ job'[r].st \in {"ready", "running"} /\ job'[r].q \in QueueNames,
           HeldOnce', NudgedWorkIsDrained'
    PROVE  RequestInv'
<1> USE DEF RequestInv
<1>1. AlertsBacked' /\ RowsHeld'
  BY AlertsStill
<1>2. RequestTypes'
  BY DEF RequestTypes
<1>3. JobsFollow'
  BY DEF JobsFollow, NothingQueued
<1> QED
  BY <1>1, <1>2, <1>3

\* What a worker that stops leaves ready is left for the next.
LEMMA LeftShape ==
    ASSUME job \in [Reqs -> JobRows], NEW S
    PROVE  /\ Left(S) \in [Reqs -> JobRows]
           /\ \A r \in Reqs : /\ r \in S => Left(S)[r].left
                              /\ r \notin S => Left(S)[r] = job[r]
                              /\ Left(S)[r].st = job[r].st /\ Left(S)[r].q = job[r].q
                              /\ Left(S)[r].nudged = job[r].nudged
                              /\ job[r].left => Left(S)[r].left
BY DEF Left, JobRows

\* A job put back is over, and the others keep their rows.
LEMMA PutBackShape ==
    ASSUME job \in [Reqs -> JobRows], NEW r \in Reqs
    PROVE  /\ PutBack(r) \in [Reqs -> JobRows] /\ PutBack(r)[r].st = "over"
           /\ \A p \in Reqs : p # r => PutBack(r)[p] = job[p]
<1> DEFINE gone == [NothingQueued EXCEPT !.st = "over"]
<1>1. gone \in JobRows /\ gone.st = "over"
  BY DEF NothingQueued, JobRows
<1>2. PutBack(r) = [job EXCEPT ![r] = gone]
  BY DEF PutBack
<1> HIDE DEF gone
<1> QED
  BY <1>1, <1>2

\* What the worker's steps make of its row
LEMMA WorkerShape ==
    ASSUME NEW e \in WorkerRows, Len(PIPELINE) = 7
    PROVE  /\ IdleExec \in WorkerRows /\ IdleExec.at = 0 /\ IdleExec.job = None
           /\ \A kind \in {"once", "poll"} :
                  LET w == [IdleExec EXCEPT !.at = 1, !.kind = kind]
                  IN w \in WorkerRows /\ w.at = 1 /\ w.job = None
           /\ LET w == [e EXCEPT !.at = 1] IN w \in WorkerRows /\ w.at = 1 /\ w.job = e.job
           /\ LET w == [e EXCEPT !.stop = TRUE]
              IN w \in WorkerRows /\ w.at = e.at /\ w.job = e.job
           /\ e.at \in 1..7 =>
                  LET w == [e EXCEPT !.at = e.at + 1, !.n = 0]
                  IN w \in WorkerRows /\ w.at = e.at + 1 /\ w.job = e.job
<1> HIDE DEF PIPELINE
<1>1. WorkerRows = [at : 0..8, kind : {"once", "poll"}, job : Reqs \cup {None}, n : Nat, stop : BOOLEAN]
  BY DEF WorkerRows
<1> HIDE DEF WorkerRows
<1>2. 0 \in 0..8 /\ 1 \in 0..8 /\ 0 \in Nat
  OBVIOUS
<1>3. IdleExec \in WorkerRows /\ IdleExec.at = 0 /\ IdleExec.job = None
  BY <1>1, <1>2 DEF IdleExec
<1>4. ASSUME NEW kind \in {"once", "poll"}
      PROVE  LET w == [IdleExec EXCEPT !.at = 1, !.kind = kind]
             IN w \in WorkerRows /\ w.at = 1 /\ w.job = None
  BY <1>1, <1>2 DEF IdleExec
<1>8. LET w == [e EXCEPT !.at = 1] IN w \in WorkerRows /\ w.at = 1 /\ w.job = e.job
  BY <1>1, <1>2
<1>9. LET w == [e EXCEPT !.stop = TRUE] IN w \in WorkerRows /\ w.at = e.at /\ w.job = e.job
  BY <1>1, <1>2
<1>10. ASSUME e.at \in 1..7
       PROVE  LET w == [e EXCEPT !.at = e.at + 1, !.n = 0]
              IN w \in WorkerRows /\ w.at = e.at + 1 /\ w.job = e.job
  <2>1. e.at + 1 \in 0..8 /\ 0 \in Nat
    BY <1>10
  <2> HIDE <1>10
  <2> QED
    BY <1>1, <2>1
<1> QED
  BY <1>3, <1>4, <1>8, <1>9, <1>10

\* A worker that begins, goes round again or is told to stop
LEMMA LoopKeeps ==
    ASSUME RequestInv, NEW x \in Execs,
           \/ \E kind \in {"once", "poll"} : start_worker(x, kind)
           \/ next_pass(x) \/ sigterm(x) \/ stop_asleep(x)
    PROVE  RequestInv'
<1> USE DEF RequestInv
<1>0. /\ req \in [Reqs -> RequestRows] /\ job \in [Reqs -> JobRows] /\ exec \in [Execs -> WorkerRows]
      /\ Len(PIPELINE) = 7 /\ UNCHANGED <<req, job, listed, told>>
  BY PipelineShape DEF RequestTypes, start_worker, next_pass, sigterm, stop_asleep
<1>1. exec[x] \in WorkerRows
  BY <1>0
<1>2. PICK w \in WorkerRows :
        /\ exec' = [exec EXCEPT ![x] = w]
        /\ \/ w.job = None /\ exec[x].job = None /\ exec[x].at \notin 1..7 /\ w.at \in {0, 1}
           \/ w.job = exec[x].job /\ w.at = exec[x].at
  <2>0. exec[x].at \notin 1..7 => exec[x].job = None
    BY <1>0 DEF HeldOnce
  <2>1. ASSUME NEW kind \in {"once", "poll"}, start_worker(x, kind)
        PROVE  \E w \in WorkerRows : /\ exec' = [exec EXCEPT ![x] = w] /\ w.job = None
                                     /\ exec[x].at = 0 /\ w.at = 1
    <3> DEFINE w == [IdleExec EXCEPT !.at = 1, !.kind = kind]
    <3>1. w \in WorkerRows /\ w.at = 1 /\ w.job = None
      BY <1>0, <1>1, WorkerShape
    <3>2. exec' = [exec EXCEPT ![x] = w] /\ exec[x].at = 0
      BY <2>1 DEF start_worker, Started
    <3> HIDE DEF w
    <3> QED
      BY <3>1, <3>2
  <2>2. ASSUME next_pass(x)
        PROVE  \E w \in WorkerRows : /\ exec' = [exec EXCEPT ![x] = w] /\ w.job = exec[x].job
                                     /\ exec[x].at = 8 /\ w.at = 1
    <3> DEFINE w == [exec[x] EXCEPT !.at = 1]
    <3>1. w \in WorkerRows /\ w.at = 1 /\ w.job = exec[x].job
      BY <1>0, <1>1, WorkerShape
    <3>2. exec' = [exec EXCEPT ![x] = w] /\ exec[x].at = 8
      BY <1>0, <2>2 DEF next_pass
    <3> HIDE DEF w
    <3> QED
      BY <3>1, <3>2
  <2>3. ASSUME sigterm(x)
        PROVE  \E w \in WorkerRows : /\ exec' = [exec EXCEPT ![x] = w] /\ w.job = exec[x].job
                                     /\ w.at = exec[x].at
    <3> DEFINE w == [exec[x] EXCEPT !.stop = TRUE]
    <3>1. w \in WorkerRows /\ w.at = exec[x].at /\ w.job = exec[x].job
      BY <1>0, <1>1, WorkerShape
    <3>2. exec' = [exec EXCEPT ![x] = w]
      BY <1>0, <2>3 DEF sigterm
    <3> HIDE DEF w
    <3> QED
      BY <3>1, <3>2
  <2>4. ASSUME stop_asleep(x)
        PROVE  \E w \in WorkerRows : /\ exec' = [exec EXCEPT ![x] = w] /\ w.job = None
                                     /\ exec[x].at = 8 /\ w.at = 0
    <3>1. IdleExec \in WorkerRows /\ IdleExec.at = 0 /\ IdleExec.job = None
      BY <1>0, <1>1, WorkerShape
    <3>2. exec' = [exec EXCEPT ![x] = IdleExec] /\ exec[x].at = 8
      BY <1>0, <2>4 DEF stop_asleep
    <3> QED
      BY <3>1, <3>2
  <2>5. 0 \notin 1..7 /\ 8 \notin 1..7
    OBVIOUS
  <2>6. CASE \E kind \in {"once", "poll"} : start_worker(x, kind)
    BY <2>0, <2>1, <2>5, <2>6
  <2>7. CASE next_pass(x) \/ stop_asleep(x)
    BY <2>0, <2>2, <2>4, <2>5, <2>7
  <2>8. CASE sigterm(x)
    BY <2>3, <2>8
  <2> QED
    BY <2>6, <2>7, <2>8
<1>3. /\ exec' \in [Execs -> WorkerRows] /\ exec'[x] = w
      /\ \A z \in Execs : z # x => exec'[z] = exec[z]
  BY <1>0, <1>2
<1>4. HeldOnce'
  <2>1. \A z \in Execs : /\ exec'[z].job = exec[z].job
                         /\ exec'[z].job # None => exec'[z].at = exec[z].at
    <3>1. exec[x].job # None => exec[x].at \in 1..7
      BY <1>0 DEF HeldOnce
    <3> QED
      BY <1>2, <1>3, <3>1
  <2> QED
    BY <1>0, <2>1 DEF HeldOnce
<1>5. NudgedWorkIsDrained'
  <2>1. \A q \in QueueNames : Place(q) \in 1..7
    BY PipelineShape
  <2>2. \A r \in Reqs : job[r].st = "ready" => Place(job[r].q) \in 1..7
    BY <2>1 DEF JobsFollow
  <2>3. ASSUME NEW r \in Reqs, job[r].st = "ready", NEW z \in Execs, StillAhead(z, r)
        PROVE  StillAhead(z, r)'
    BY <1>0, <1>2, <1>3, <2>2, <2>3 DEF StillAhead
  <2> QED
    BY <1>0, <2>3 DEF NudgedWorkIsDrained, Ready
<1>6. /\ job' \in [Reqs -> JobRows] /\ \A r \in Reqs : job'[r] = job[r]
      /\ \A r \in Reqs : job[r].st \in {"ready", "running"} =>
             job'[r].st \in {"ready", "running"} /\ job'[r].q \in QueueNames
  BY <1>0 DEF JobsFollow
<1> QED
  BY <1>0, <1>3, <1>4, <1>5, <1>6, WorkerStep

\* A ready job is taken, or put back where another of its user runs.
LEMMA ClaimKeeps == ASSUME RequestInv, NEW x \in Execs, drain_claim(x) PROVE RequestInv'
<1> USE DEF RequestInv
<1>0. /\ req \in [Reqs -> RequestRows] /\ job \in [Reqs -> JobRows] /\ exec \in [Execs -> WorkerRows]
      /\ exec[x].at \in 1..Len(PIPELINE) /\ exec[x].job = None /\ None \notin Reqs
      /\ UNCHANGED <<req, listed, told>>
  BY RequestAssumption DEF RequestTypes, drain_claim
<1>1. PICK r \in Reqs :
        /\ job[r].st = "ready" /\ job[r].q = PIPELINE[exec[x].at]
        /\ \/ job' = PutBack(r) /\ exec' = exec
           \/ /\ job' = [job EXCEPT ![r].st = "running"]
              /\ exec' = [exec EXCEPT ![x].job = r]
  BY DEF drain_claim, ReadyAt
<1>2. \A z \in Execs : exec[z].job # None => exec[z].job \in Reqs /\ exec[z].job # r
  <2>1. \A z \in Execs : exec[z].job \in Reqs \cup {None}
    BY <1>0 DEF WorkerRows
  <2> QED
    BY <1>1, <2>1 DEF HeldOnce
<1>3. job[r].q \in QueueNames
  BY <1>1 DEF JobsFollow
<1>4. CASE job' = PutBack(r) /\ exec' = exec
  <2>1. /\ job' \in [Reqs -> JobRows] /\ job'[r].st = "over"
        /\ \A p \in Reqs : p # r => job'[p] = job[p]
    BY <1>0, <1>4, PutBackShape
  <2>2. HeldOnce'
    BY <1>2, <1>4, <2>1 DEF HeldOnce
  <2>3. NudgedWorkIsDrained'
    BY <1>4, <2>1 DEF NudgedWorkIsDrained, Ready, StillAhead
  <2>4. \A p \in Reqs : job[p].st \in {"ready", "running"} =>
            job'[p].st = "over" \/ (job'[p].st \in {"ready", "running"} /\ job'[p].q \in QueueNames)
    BY <2>1 DEF JobsFollow
  <2> QED
    BY <1>0, <1>1, <1>4, <2>1, <2>2, <2>3, <2>4, WorkerStep
<1>5. CASE job' = [job EXCEPT ![r].st = "running"] /\ exec' = [exec EXCEPT ![x].job = r]
  <2>1. /\ job' \in [Reqs -> JobRows] /\ job'[r].st = "running" /\ job'[r].q = job[r].q
        /\ \A p \in Reqs : p # r => job'[p] = job[p]
    BY <1>0, <1>5 DEF JobRows
  <2>2. /\ exec' \in [Execs -> WorkerRows] /\ exec'[x].job = r /\ exec'[x].at = exec[x].at
        /\ \A z \in Execs : z # x => exec'[z] = exec[z]
    BY <1>0, <1>5, ZenonT(40) DEF WorkerRows
  <2>3. HeldOnce'
    BY <1>0, <1>1, <1>2, <2>1, <2>2 DEF HeldOnce
  <2>4. NudgedWorkIsDrained'
    <3>1. \A z \in Execs : exec'[z].at = exec[z].at
      BY <2>2
    <3> QED
      BY <2>1, <3>1 DEF NudgedWorkIsDrained, Ready, StillAhead
  <2>5. \A p \in Reqs : job[p].st \in {"ready", "running"} =>
            job'[p].st = "over" \/ (job'[p].st \in {"ready", "running"} /\ job'[p].q \in QueueNames)
    BY <1>3, <2>1 DEF JobsFollow
  <2> QED
    BY <1>0, <1>1, <2>1, <2>2, <2>3, <2>4, <2>5, WorkerStep
<1> QED
  BY <1>1, <1>4, <1>5

\* The job at hand lands or fails: what its handler hands on lies further along.
LEMMA RunKeeps ==
    ASSUME RequestInv, NEW x \in Execs, run_lands(x) \/ run_fails(x) PROVE RequestInv'
<1> USE DEF RequestInv
<1>0. /\ req \in [Reqs -> RequestRows] /\ job \in [Reqs -> JobRows] /\ exec \in [Execs -> WorkerRows]
      /\ None \notin Reqs /\ UNCHANGED <<req, listed, told>>
      /\ exec' = [exec EXCEPT ![x].job = None, ![x].n = exec[x].n + 1]
  BY RequestAssumption DEF RequestTypes, run_lands, run_fails
<1>1. PICK r \in Reqs : /\ exec[x].job = r /\ job[r].st = "running"
                        /\ exec[x].at \in 1..7 /\ job[r].q = PIPELINE[exec[x].at]
  BY <1>0, PipelineShape DEF run_lands, run_fails, HeldOnce, RequestTypes, WorkerRows
<1>2. /\ exec' \in [Execs -> WorkerRows] /\ exec'[x].job = None /\ exec'[x].at = exec[x].at
      /\ \A z \in Execs : z # x => exec'[z] = exec[z]
  BY <1>0 DEF WorkerRows
<1>3. \A z \in Execs : exec'[z].job # None => exec[z].job = exec'[z].job /\ exec[z].job \in Reqs
                                              /\ exec[z].job # r
  BY <1>0, <1>1, <1>2 DEF HeldOnce, WorkerRows
<1>4. /\ job' \in [Reqs -> JobRows]
      /\ \A p \in Reqs : p # r => job'[p] = job[p]
      /\ \/ job'[r].st = "over"
         \/ job'[r].st = "ready" /\ job'[r].q \in QueueNames /\ Place(job'[r].q) > exec[x].at
  <2>1. CASE job' = PutBack(r)
    BY <1>0, <2>1, PutBackShape
  <2>2. CASE \E q \in HandsOn(job[r].q) : q # "none" /\ job' = [job EXCEPT ![r].q = q, ![r].st = "ready"]
    <3>1. PICK q \in HandsOn(job[r].q) :
                 q # "none" /\ job' = [job EXCEPT ![r].q = q, ![r].st = "ready"]
      BY <2>2
    <3>2. q \in QueueNames /\ Place(q) > exec[x].at
      BY <1>1, <3>1, PipelineShape
    <3>3. /\ job' \in [Reqs -> JobRows] /\ job'[r].st = "ready" /\ job'[r].q = q
          /\ \A p \in Reqs : p # r => job'[p] = job[p]
      BY <1>0, <3>1, <3>2 DEF JobRows
    <3> QED
      BY <3>2, <3>3
  <2> QED
    BY <1>1, <2>1, <2>2 DEF run_lands, run_fails
<1>5. HeldOnce'
  BY <1>2, <1>3, <1>4 DEF HeldOnce
<1>6. NudgedWorkIsDrained'
  <2>1. \A z \in Execs : exec'[z].at = exec[z].at
    BY <1>2
  <2>2. job'[r].st = "ready" => StillAhead(x, r)'
    <3>1. \A q \in QueueNames : Place(q) \in 1..7
      BY PipelineShape
    <3> QED
      BY <1>1, <1>2, <1>4, <3>1 DEF StillAhead
  <2> QED
    BY <1>4, <2>1, <2>2 DEF NudgedWorkIsDrained, Ready, StillAhead
<1>7. \A p \in Reqs : job[p].st \in {"ready", "running"} =>
          job'[p].st = "over" \/ (job'[p].st \in {"ready", "running"} /\ job'[p].q \in QueueNames)
  BY <1>4 DEF JobsFollow
<1> QED
  BY <1>0, <1>1, <1>2, <1>4, <1>5, <1>6, <1>7, WorkerStep

\* A drain that returns leaves what it did not take, and goes to the next queue.
LEMMA DrainKeeps == ASSUME RequestInv, NEW x \in Execs, drain_returns(x) PROVE RequestInv'
<1> USE DEF RequestInv
<1>0. /\ req \in [Reqs -> RequestRows] /\ job \in [Reqs -> JobRows] /\ exec \in [Execs -> WorkerRows]
      /\ exec[x].at \in 1..7 /\ exec[x].job = None /\ UNCHANGED <<req, listed, told>>
      /\ Len(PIPELINE) = 7
  BY PipelineShape DEF RequestTypes, drain_returns
<1>1. PICK S : /\ job' = Left(S)
               /\ ReadyAt(PIPELINE[exec[x].at]) \subseteq S /\ S \subseteq Ready
               /\ exec[x].stop => S = Ready
  BY DEF drain_returns, ReadyAt, Ready
<1>2. /\ job' \in [Reqs -> JobRows]
      /\ \A r \in Reqs : /\ r \in S => job'[r].left
                         /\ r \notin S => job'[r] = job[r]
                         /\ job'[r].st = job[r].st /\ job'[r].q = job[r].q
                         /\ job'[r].nudged = job[r].nudged /\ (job[r].left => job'[r].left)
  BY <1>0, <1>1, LeftShape
<1>3. PICK w \in WorkerRows :
        /\ exec' = [exec EXCEPT ![x] = w] /\ w.job = None
        /\ \/ w.at = exec[x].at + 1
           \/ w.at = 0 /\ (exec[x].at = 7 \/ exec[x].stop)
  <2>1. CASE (LastQueue(x) /\ exec[x].kind = "once") \/ exec[x].stop
    <3>1. exec' = [exec EXCEPT ![x] = IdleExec]
      BY <2>1 DEF drain_returns
    <3>2. IdleExec \in WorkerRows /\ IdleExec.at = 0 /\ IdleExec.job = None
      BY <1>0, WorkerShape
    <3> QED
      BY <1>0, <2>1, <3>1, <3>2 DEF LastQueue
  <2>2. CASE ~ ((LastQueue(x) /\ exec[x].kind = "once") \/ exec[x].stop)
    <3> DEFINE w == [exec[x] EXCEPT !.at = exec[x].at + 1, !.n = 0]
    <3>1. exec' = [exec EXCEPT ![x] = w]
      BY <2>2 DEF drain_returns
    <3>2. w \in WorkerRows /\ w.at = exec[x].at + 1 /\ w.job = exec[x].job
      <4>1. exec[x] \in WorkerRows
        BY <1>0
      <4> QED
        BY <1>0, <4>1, WorkerShape
    <3> HIDE DEF w
    <3> QED
      BY <1>0, <3>1, <3>2
  <2> QED
    BY <2>1, <2>2
<1>4. /\ exec' \in [Execs -> WorkerRows] /\ exec'[x] = w
      /\ \A z \in Execs : z # x => exec'[z] = exec[z]
  BY <1>0, <1>3
<1>5. HeldOnce'
  <2>1. \A z \in Execs : exec'[z].job # None => exec'[z] = exec[z] /\ exec[z].job \in Reqs
    BY <1>0, <1>3, <1>4 DEF WorkerRows
  <2> QED
    BY <1>2, <2>1 DEF HeldOnce
<1>6. NudgedWorkIsDrained'
  <2> SUFFICES ASSUME NEW r \in Reqs, job'[r].st = "ready", job'[r].nudged, ~ job'[r].left
               PROVE  \E z \in Execs : StillAhead(z, r)'
    BY DEF NudgedWorkIsDrained, Ready
  <2>1. /\ r \notin S /\ job'[r] = job[r] /\ job[r].st = "ready" /\ job[r].q # PIPELINE[exec[x].at]
    BY <1>1, <1>2 DEF ReadyAt
  <2>2. job[r].q \in QueueNames /\ Place(job[r].q) \in 1..7 /\ Place(job[r].q) # exec[x].at
    BY <2>1, PipelineShape DEF JobsFollow
  <2>3. ~ exec[x].stop
    BY <1>1, <2>1 DEF Ready
  <2>4. PICK z \in Execs : exec[z].at \in 1..Place(job[r].q)
    BY <2>1 DEF NudgedWorkIsDrained, Ready, StillAhead
  <2>5. CASE z # x
    BY <1>4, <2>1, <2>4, <2>5 DEF StillAhead
  <2>6. CASE z = x
    <3>1. exec[x].at < Place(job[r].q)
      BY <2>2, <2>4, <2>6
    <3>2. w.at = exec[x].at + 1
      BY <1>0, <1>3, <2>2, <2>3, <3>1
    <3> QED
      BY <1>0, <1>4, <2>1, <2>2, <3>1, <3>2 DEF StillAhead
  <2> QED
    BY <2>5, <2>6
<1>7. \A p \in Reqs : job[p].st \in {"ready", "running"} =>
          job'[p].st = "over" \/ (job'[p].st \in {"ready", "running"} /\ job'[p].q \in QueueNames)
  BY <1>2 DEF JobsFollow
<1>8. \A p \in Reqs : job'[p] = job[p] \/ job[p].st \in {"ready", "running"}
  <2>1. S \subseteq Ready
    BY <1>1
  <2> QED
    BY <1>2, <2>1 DEF Ready
<1> QED
  BY <1>0, <1>2, <1>4, <1>5, <1>6, <1>7, <1>8, WorkerStep

\* A worker killed where it stands: its job's lease runs out later, the rest waits.
LEMMA KilledKeeps == ASSUME RequestInv, NEW x \in Execs, Killed(x) PROVE RequestInv'
<1> USE DEF RequestInv
<1>0. /\ req \in [Reqs -> RequestRows] /\ job \in [Reqs -> JobRows] /\ exec \in [Execs -> WorkerRows]
      /\ Len(PIPELINE) = 7 /\ UNCHANGED <<req, listed, told>>
      /\ exec' = [exec EXCEPT ![x] = IdleExec]
      /\ job' = [r \in Reqs |-> IF r = exec[x].job THEN PutBack(r)[r] ELSE Left(Ready)[r]]
  BY PipelineShape DEF RequestTypes, Killed
<1>1. \A r \in Reqs : /\ r = exec[x].job => job'[r] = PutBack(r)[r]
                      /\ r # exec[x].job => job'[r] = Left(Ready)[r]
  BY <1>0
<1>2. /\ job' \in [Reqs -> JobRows]
      /\ \A r \in Reqs : r = exec[x].job => job'[r].st = "over" /\ job[r].st = "running"
      /\ \A r \in Reqs : r # exec[x].job =>
             /\ r \notin Ready => job'[r] = job[r]
             /\ r \in Ready => job'[r].left
             /\ job'[r].st = job[r].st /\ job'[r].q = job[r].q
  <2>1. \A r \in Reqs : PutBack(r)[r] \in JobRows /\ PutBack(r)[r].st = "over"
    BY <1>0, PutBackShape
  <2>2. /\ Left(Ready) \in [Reqs -> JobRows]
        /\ \A r \in Reqs : /\ r \in Ready => Left(Ready)[r].left
                           /\ r \notin Ready => Left(Ready)[r] = job[r]
                           /\ Left(Ready)[r].st = job[r].st /\ Left(Ready)[r].q = job[r].q
    BY <1>0, LeftShape
  <2>3. job' \in [Reqs -> JobRows]
    BY <1>0, <2>1, <2>2
  <2>4. \A r \in Reqs : r = exec[x].job => job[r].st = "running"
    BY RequestAssumption DEF HeldOnce
  <2> QED
    BY <1>1, <2>1, <2>2, <2>3, <2>4
<1>3. IdleExec \in WorkerRows /\ IdleExec.job = None /\ exec[x] \in WorkerRows
  BY <1>0, WorkerShape
<1>4. /\ exec' \in [Execs -> WorkerRows] /\ exec'[x].job = None
      /\ \A z \in Execs : z # x => exec'[z] = exec[z]
  BY <1>0, <1>3
<1>5. HeldOnce'
  <2>1. \A z \in Execs : exec'[z].job # None =>
            z # x /\ exec'[z] = exec[z] /\ exec[z].job \in Reqs /\ exec[z].job # exec[x].job
    BY <1>0, <1>4 DEF HeldOnce, WorkerRows
  <2> QED
    BY <1>2, <2>1 DEF HeldOnce
<1>6. NudgedWorkIsDrained'
  BY <1>2 DEF NudgedWorkIsDrained, Ready
<1>7. /\ \A p \in Reqs : job[p].st \in {"ready", "running"} =>
             job'[p].st = "over" \/ (job'[p].st \in {"ready", "running"} /\ job'[p].q \in QueueNames)
      /\ \A p \in Reqs : job'[p] = job[p] \/ job[p].st \in {"ready", "running"}
  BY <1>2 DEF JobsFollow, Ready
<1> QED
  BY <1>0, <1>2, <1>4, <1>5, <1>6, <1>7, WorkerStep

\* Every route writes one row of each kind at most.
LEMMA RouteKeeps ==
    ASSUME RequestInv, NEW r \in Reqs,
           \/ paste_source(r) \/ integrate_source_items(r) \/ create_episode(r)
           \/ create_smart_episode(r) \/ ask_for_poll(r)
           \/ NothingToQueue(r) \/ join_waitlist(r)
    PROVE  RequestInv'
<1>0. /\ Arrives(r) /\ exec' = exec /\ told' = told
      /\ req[r].at = "idle" /\ ~ req[r].armed /\ req[r].alert = None
      /\ req[r] \in RequestRows
  BY DEF paste_source, integrate_source_items, create_episode, create_smart_episode, ask_for_poll,
         arm, NothingToQueue, join_waitlist, Arrives, RequestInv, RequestTypes, JobsFollow
<1>1. \A w : /\ [req EXCEPT ![r].at = "wrote"] = [req EXCEPT ![r] = [req[r] EXCEPT !.at = "wrote"]]
             /\ [req EXCEPT ![r].at = "wrote", ![r].armed = TRUE]
                    = [req EXCEPT ![r] = [req[r] EXCEPT !.at = "wrote", !.armed = TRUE]]
             /\ [req EXCEPT ![r].at = "wrote", ![r].alert = w]
                    = [req EXCEPT ![r] = [req[r] EXCEPT !.at = "wrote", !.alert = w]]
  BY DEF RequestInv, RequestTypes
<1>2. ASSUME NEW q \in QueueNames, arm(r, q) PROVE RequestInv'
  <2> DEFINE new == [req[r] EXCEPT !.at = "wrote", !.armed = TRUE]
  <2>1. new \in RequestRows /\ new.at = "wrote" /\ new.alert = None
    BY <1>0 DEF RequestRows
  <2>2. req' = [req EXCEPT ![r] = new]
    BY <1>1, <1>2 DEF arm
  <2>3. /\ listed' = listed
        /\ \E p \in QueueNames :
               job' = [job EXCEPT ![r] = [NothingQueued EXCEPT !.q = p, !.st = "pending"]]
    BY <1>2 DEF arm
  <2> HIDE DEF new
  <2>4. Written(r, new)
    BY <2>1, <2>2, <2>3 DEF Written
  <2> QED
    BY <1>0, <2>1, <2>4, RouteWrites
<1>3. ASSUME job' = job, listed' = listed, req' = [req EXCEPT ![r].at = "wrote"] PROVE RequestInv'
  <2> DEFINE new == [req[r] EXCEPT !.at = "wrote"]
  <2>1. new \in RequestRows /\ new.at = "wrote" /\ new.alert = None
    BY <1>0 DEF RequestRows
  <2>2. req' = [req EXCEPT ![r] = new]
    BY <1>1, <1>3
  <2> HIDE DEF new
  <2>3. Written(r, new)
    BY <1>3, <2>1, <2>2 DEF Written
  <2> QED
    BY <1>0, <2>1, <2>3, RouteWrites
<1>4. ASSUME NEW a \in Addresses, join(r, a), job' = job,
             req' = [req EXCEPT ![r].at = "wrote", ![r].alert = a]
      PROVE  RequestInv'
  <2> DEFINE new == [req[r] EXCEPT !.at = "wrote", !.alert = a]
  <2>1. new \in RequestRows /\ new.at = "wrote" /\ new.alert = a /\ ~ new.armed /\ a # None
    BY <1>0, RequestAssumption DEF RequestRows
  <2>2. req' = [req EXCEPT ![r] = new]
    BY <1>1, <1>4
  <2> HIDE DEF new
  <2>3. Written(r, new)
    BY <1>4, <2>1, <2>2 DEF Written
  <2> QED
    BY <1>0, <2>1, <2>3, RouteWrites
<1>5. CASE paste_source(r) \/ integrate_source_items(r) \/ create_episode(r)
           \/ create_smart_episode(r) \/ ask_for_poll(r)
  <2>1. \E q \in {"poll", "enrich", "integrate", "assemble"} : arm(r, q)
    BY <1>5 DEF paste_source, integrate_source_items, create_episode, create_smart_episode,
                ask_for_poll
  <2> QED
    BY <1>2, <2>1, PipelineShape
<1>6. CASE NothingToQueue(r)
  BY <1>3, <1>6 DEF NothingToQueue
<1>7. CASE join_waitlist(r)
  BY <1>3, <1>4, <1>7 DEF join_waitlist
<1> QED
  BY <1>5, <1>6, <1>7

\* Every step of the request and of the worker keeps the invariant.
LEMMA RequestStep == RequestInv /\ [RequestNext]_requestVars => RequestInv'
<1> SUFFICES ASSUME RequestInv, [RequestNext]_requestVars PROVE RequestInv'
  OBVIOUS
<1>1. ASSUME NEW r \in Reqs,
             \/ paste_source(r) \/ integrate_source_items(r)
             \/ create_episode(r) \/ create_smart_episode(r) \/ ask_for_poll(r)
             \/ NothingToQueue(r) \/ join_waitlist(r)
      PROVE  RequestInv'
  BY <1>1, RouteKeeps
<1>2. ASSUME NEW r \in Reqs, commit(r) \/ rollback(r) PROVE RequestInv'
  BY <1>2, SettleKeeps
<1>3. ASSUME NEW r \in Reqs, fire_nudge(r) PROVE RequestInv'
  BY <1>3, NudgeKeeps
<1>4. ASSUME NEW r \in Reqs, fire_alert(r) PROVE RequestInv'
  BY <1>4, AlertKeeps
<1>5. ASSUME NEW x \in Execs,
             \/ \E kind \in {"once", "poll"} : start_worker(x, kind)
             \/ next_pass(x) \/ sigterm(x) \/ stop_asleep(x)
      PROVE  RequestInv'
  BY <1>5, LoopKeeps
<1>6. ASSUME NEW x \in Execs, drain_claim(x) PROVE RequestInv'
  BY <1>6, ClaimKeeps
<1>7. ASSUME NEW x \in Execs, run_lands(x) \/ run_fails(x) PROVE RequestInv'
  BY <1>7, RunKeeps
<1>8. ASSUME NEW x \in Execs, drain_returns(x) PROVE RequestInv'
  BY <1>8, DrainKeeps
<1>9. ASSUME NEW x \in Execs, Killed(x) PROVE RequestInv'
  BY <1>9, KilledKeeps
<1>10. CASE UNCHANGED requestVars
  <2>1. UNCHANGED <<req, job, exec, listed, told>>
    BY <1>10 DEF requestVars
  <2>2. AlertsBacked' /\ RowsHeld'
    BY <2>1, AlertsStill
  <2>3. RequestTypes' /\ JobsFollow' /\ HeldOnce' /\ NudgedWorkIsDrained'
    BY <2>1 DEF RequestInv, RequestTypes, JobsFollow, HeldOnce, NudgedWorkIsDrained, Ready, StillAhead
  <2> QED
    BY <2>2, <2>3 DEF RequestInv
<1> QED
  BY <1>1, <1>2, <1>3, <1>4, <1>5, <1>6, <1>7, <1>8, <1>9, <1>10 DEF RequestNext

\* What Slack was told stands for what is stored.
LEMMA RequestUse == RequestInv => ToldAfterCommit
<1> SUFFICES ASSUME RequestInv PROVE ToldAfterCommit
  OBVIOUS
<1>1. ASSUME NEW a \in Addresses
      PROVE  told[a] > 0 => Stored(listed[a]) > 0 /\
                 (Stored(listed[a]) < MaxSubmissions => told[a] <= Stored(listed[a]))
  <2>1. told[a] \in Nat /\ Stored(listed[a]) \in Nat
    BY DEF RequestInv, RequestTypes, Stored
  <2>2. IsFiniteSet(Owed(a)) /\ Cardinality(Owed(a)) \in Nat
    BY FS_CardinalityType DEF RequestInv, AlertsBacked
  <2>3. /\ told[a] + Cardinality(Owed(a)) > 0 => Stored(listed[a]) > 0
        /\ Stored(listed[a]) < MaxSubmissions =>
               told[a] + Cardinality(Owed(a)) <= Stored(listed[a])
    BY DEF RequestInv, AlertsBacked
  <2> QED
    BY <2>1, <2>2, <2>3
<1>2. AnnouncedIsStored
  BY <1>1 DEF AnnouncedIsStored, Stored
<1> QED
  BY <1>2 DEF RequestInv, ToldAfterCommit

\* Nothing fires before the commit: nudged work is drained unless a worker left it
\* behind, and Slack is told of an address no more often than it was stored
\* (deps.connection, drain.py, runner.py and loop.py).
THEOREM RequestHolds == RequestSpec => []ToldAfterCommit
<1>1. RequestSpec => []RequestInv
  BY RequestStart, RequestStep, PTL DEF RequestSpec
<1> QED
  BY <1>1, RequestUse, PTL

(* ------------------------------ the harness ----------------------------- *)

Queues == {"poll", "extract", "integrate", "assemble", "script"}
RowSet == [table : Tables, of : Nat \cup {None}, queue : Queues \cup {None},
           state : {"ready", "running", "failed", "done", None}]

\* A row, and what it is about.
Placed(n) ==
    /\ tables[n] \in RowSet
    /\ tables[n].table \in {"items", "credentials"} =>
           tables[n].of \in Rows /\ tables[tables[n].of].table = "sources"
    /\ tables[n].table = "jobs" => tables[n].queue \in Queues /\ tables[n].of \in 0..numbered
    /\ tables[n].table = "jobs" /\ tables[n].queue \in {"poll", "extract"} /\ tables[n].of \in Rows
           => tables[tables[n].of].table = "sources"
RowsSound ==
    /\ numbered \in Nat /\ Rows \subseteq 0..numbered
    /\ 0 \in Rows /\ tables[0].table = "sources"
    /\ \A n \in Rows : Placed(n)

\* What a job that outlived its subject is owed to
Overtaken == reset.left # None /\ reset.overlapped
OrphansExplained == \A j \in Rows : tables[j].table = "jobs" /\ tables[j].of \notin Rows => Overtaken

HandlerSound ==
    /\ handler.at \in {"idle", "read", "wrote", "marked"}
    /\ handler = [at |-> handler.at, job |-> handler.job,
                   writes |-> handler.writes, holds |-> handler.holds]
    /\ handler.at # "idle" =>
           /\ handler.job.queue \in Queues /\ handler.job.of \in 0..numbered
           /\ handler.job.queue \in {"poll", "extract"} /\ handler.job.of \in Rows
                  => tables[handler.job.of].table = "sources"
           /\ handler.job.of \notin Rows => Overtaken
           /\ reset.at > 0 => reset.overlapped
    /\ handler.at \in {"wrote", "marked"} =>
           /\ handler.writes = Writes(handler.job)
           /\ handler.job.queue = "extract" =>
                  /\ handler.job.of \in Rows /\ handler.job.of \in handler.holds
                  /\ handler.job.of \notin reset.doomed

ResetRows == [at : 0..7, snapshot : (SUBSET Nat) \cup {None}, doomed : SUBSET Nat,
              overlapped : BOOLEAN, left : (SUBSET Tables) \cup {None}]
ResetSound ==
    /\ reset \in ResetRows
    /\ reset.doomed \subseteq Rows /\ 0 \notin reset.doomed
    /\ reset.snapshot # None =>
           reset.snapshot \subseteq Rows /\ 0 \notin reset.snapshot /\ reset.at \in 1..6
    /\ reset.at <= 1 => reset.doomed = {}
    /\ reset.at > 0 => reset.left = None
    /\ reset.left # None /\ ~ reset.overlapped => reset.left = {}
    /\ \A n \in Rows : tables[n].table \in {"items", "credentials"} /\ tables[n].of \in reset.doomed
           => n \in reset.doomed

\* How far a reset that nothing overlapped has come
SweptSoFar ==
    reset.at > 0 /\ ~ reset.overlapped =>
        /\ \A n \in Rows \ {0} : \A i \in 1..6 :
               tables[n].table = RESET_STEPS[i] /\ i < reset.at => n \in reset.doomed
        /\ reset.snapshot # None =>
               \A n \in Rows \ {0} : tables[n].table = RESET_STEPS[reset.at]
                   => n \in reset.snapshot \cup reset.doomed

Mailboxes == In("sources") \ {0}
SeedSound ==
    /\ seeding \in [Seeds -> [at : {"idle", "locked", "found", "done", "failed"},
                              found : Nat \cup {None}]]
    /\ \A s, q \in Seeds : s # q =>
           ~ (seeding[s].at \in {"locked", "found"} /\ seeding[q].at \in {"locked", "found"})
    /\ \A s \in Seeds : seeding[s].at = "found" =>
           \/ seeding[s].found = None /\ Mailboxes = {}
           \/ /\ seeding[s].found \in 0..numbered
              /\ seeding[s].found \in Rows => tables[seeding[s].found].table = "sources"
    /\ \A m, n \in Mailboxes : m = n

DeploySound ==
    /\ deployed \in [env : Deployments, serving : BOOLEAN]
    /\ deployed.serving => check_startup
    /\ Production => /\ numbered = 0 /\ handler.at = "idle" /\ reset.at = 0
                     /\ \A s \in Seeds : seeding[s].at = "idle"

HarnessInv ==
    /\ RowsSound /\ OrphansExplained /\ HandlerSound /\ ResetSound /\ SweptSoFar
    /\ SeedSound /\ DeploySound

\* A row as it was, but for its state
RowKept(n) ==
    /\ tables'[n] \in RowSet /\ tables'[n].table = tables[n].table
    /\ tables'[n].of = tables[n].of /\ tables'[n].queue = tables[n].queue
\* The rows there were, and k new ones behind them that are in their place
Grown(k) ==
    /\ numbered' = numbered + k
    /\ DOMAIN tables' = Rows \cup (numbered + 1)..(numbered + k)
    /\ \A n \in Rows : RowKept(n)
    /\ \A n \in (numbered + 1)..(numbered + k) :
           /\ Placed(n)'
           /\ tables'[n].table \in {"items", "credentials"} => tables'[n].of \notin reset.doomed
           /\ tables'[n].table = "jobs" /\ tables'[n].of \notin DOMAIN tables' => Overtaken

\* Rows added behind the others, while nothing is reset or a handler is at work, leave
\* the invariant as it was.
LEMMA GrowKeeps ==
    ASSUME HarnessInv, NEW k \in Nat, Grown(k),
           \/ reset' = Meanwhile(reset)
           \/ reset' = reset /\ handler.at # "idle"
    PROVE  /\ RowsSound' /\ OrphansExplained' /\ ResetSound' /\ SweptSoFar'
           /\ reset'.left = reset.left /\ reset'.doomed = reset.doomed /\ reset'.at = reset.at
           /\ Overtaken => Overtaken'
           /\ handler.at # "idle" \/ reset' = Meanwhile(reset) => (reset'.at > 0 => reset'.overlapped)
           /\ \A n \in 0..numbered : n \in Rows' <=> n \in Rows
<1> USE DEF HarnessInv
<1>0. /\ numbered \in Nat /\ Rows \subseteq 0..numbered /\ numbered' = numbered + k
      /\ Rows' = Rows \cup (numbered + 1)..(numbered + k)
      /\ \A n \in Rows : RowKept(n) /\ Placed(n)
  BY DEF RowsSound, Grown, Rows
<1>1. \A n \in 0..numbered : n \in Rows' <=> n \in Rows
  BY <1>0
<1>2. \A n \in (numbered + 1)..(numbered + k) :
          /\ Placed(n)'
          /\ tables'[n].table \in {"items", "credentials"} => tables'[n].of \notin reset.doomed
          /\ tables'[n].table = "jobs" /\ tables'[n].of \notin Rows' => Overtaken
  BY DEF Grown, Rows
<1>3. /\ reset' \in ResetRows /\ reset'.at = reset.at /\ reset'.snapshot = reset.snapshot
      /\ reset'.doomed = reset.doomed /\ reset'.left = reset.left
      /\ reset.overlapped => reset'.overlapped
      /\ reset'.at > 0 => reset'.overlapped
  <2>1. reset \in ResetRows
    BY DEF ResetSound
  <2>2. CASE reset' = Meanwhile(reset)
    BY <2>1, <2>2 DEF Meanwhile, ResetRows
  <2>3. CASE reset' = reset /\ handler.at # "idle"
    BY <2>1, <2>3 DEF HandlerSound
  <2> QED
    BY <2>2, <2>3
<1>4. RowsSound'
  <2>1. ASSUME NEW n \in Rows PROVE Placed(n)'
    <3>1. /\ tables'[n] \in RowSet /\ tables'[n].table = tables[n].table
          /\ tables'[n].of = tables[n].of /\ tables'[n].queue = tables[n].queue
      BY <1>0 DEF RowKept
    <3>2. tables[n].of \in Rows => tables[n].of \in Rows' /\ tables'[tables[n].of].table = tables[tables[n].of].table
      BY <1>0 DEF RowKept
    <3>3. tables[n].of \in 0..numbered => tables[n].of \in 0..numbered' /\ (tables[n].of \in Rows' => tables[n].of \in Rows)
      BY <1>0, <1>1
    <3>4. /\ tables[n].table \in {"items", "credentials"} =>
                 tables[n].of \in Rows /\ tables[tables[n].of].table = "sources"
          /\ tables[n].table = "jobs" => tables[n].queue \in Queues /\ tables[n].of \in 0..numbered
          /\ tables[n].table = "jobs" /\ tables[n].queue \in {"poll", "extract"} /\ tables[n].of \in Rows
                 => tables[tables[n].of].table = "sources"
      BY <1>0 DEF Placed
    <3> QED
      BY <3>1, <3>2, <3>3, <3>4 DEF Placed
  <2>2. \A n \in Rows' : Placed(n)'
    BY <1>0, <1>2, <2>1
  <2>3. numbered' \in Nat /\ Rows' \subseteq 0..numbered' /\ 0 \in Rows' /\ tables'[0].table = "sources"
    <3>1. numbered' \in Nat /\ \A n \in (numbered + 1)..(numbered + k) : n \in 0..numbered'
      BY <1>0
    <3>2. \A n \in 0..numbered : n \in 0..numbered'
      BY <1>0
    <3>3. 0 \in Rows /\ tables[0].table = "sources" /\ RowKept(0)
      BY <1>0 DEF RowsSound
    <3> QED
      BY <1>0, <3>1, <3>2, <3>3 DEF RowKept
  <2> QED
    BY <2>2, <2>3 DEF RowsSound
<1>5. OrphansExplained'
  <2>1. Overtaken => Overtaken'
    BY <1>3 DEF Overtaken
  <2>2. ASSUME NEW j \in Rows, tables'[j].table = "jobs", tables'[j].of \notin Rows' PROVE Overtaken
    BY <1>0, <2>2 DEF RowKept, OrphansExplained
  <2>3. ASSUME NEW j \in Rows', tables'[j].table = "jobs", tables'[j].of \notin Rows' PROVE Overtaken
    BY <1>0, <1>2, <2>2, <2>3
  <2> QED
    BY <2>1, <2>3 DEF OrphansExplained
<1>6. ResetSound'
  <2>1. \A n \in Rows' : tables'[n].table \in {"items", "credentials"} /\ tables'[n].of \in reset'.doomed
           => n \in reset'.doomed
    BY <1>0, <1>2, <1>3 DEF RowKept, ResetSound
  <2>2. /\ reset'.doomed \subseteq Rows' /\ 0 \notin reset'.doomed
        /\ reset'.snapshot # None =>
               reset'.snapshot \subseteq Rows' /\ 0 \notin reset'.snapshot /\ reset'.at \in 1..6
    BY <1>0, <1>3 DEF ResetSound
  <2>3. /\ reset'.at <= 1 => reset'.doomed = {}
        /\ reset'.at > 0 => reset'.left = None
        /\ reset'.left # None /\ ~ reset'.overlapped => reset'.left = {}
    BY <1>3 DEF ResetSound
  <2> QED
    BY <1>3, <2>1, <2>2, <2>3 DEF ResetSound
<1>7. SweptSoFar'
  BY <1>3 DEF SweptSoFar
<1> QED
  BY <1>1, <1>3, <1>4, <1>5, <1>6, <1>7 DEF Overtaken

\* A handler at work, or none, beside rows that grow
LEMMA HandlerBeside ==
    ASSUME HarnessInv, NEW k \in Nat, Grown(k),
           \/ reset' = Meanwhile(reset)
           \/ reset' = reset /\ handler.at # "idle",
           handler' = handler \/ handler' = NoHandler
    PROVE  HandlerSound'
<1> USE DEF HarnessInv
<1>0. /\ reset'.left = reset.left /\ reset'.doomed = reset.doomed /\ (Overtaken => Overtaken')
      /\ handler.at # "idle" => (reset'.at > 0 => reset'.overlapped)
      /\ numbered \in Nat /\ numbered' = numbered + k
      /\ \A n \in 0..numbered : n \in Rows' <=> n \in Rows
      /\ \A n \in Rows : tables'[n].table = tables[n].table
  BY GrowKeeps DEF RowsSound, Grown, RowKept
<1>1. CASE handler' = NoHandler
  BY <1>1 DEF HandlerSound, NoHandler
<1>2. CASE handler' = handler
  <2>1. Writes(handler.job)' = Writes(handler.job)
    BY <1>2 DEF Writes, Job, Row
  <2> QED
    BY <1>0, <1>2, <2>1 DEF HandlerSound
<1> QED
  BY <1>1, <1>2

\* The seeds beside rows that grow by anything but a mailbox
LEMMA SeedsBeside ==
    ASSUME HarnessInv, NEW k \in Nat, Grown(k), seeding' = seeding,
           \A n \in (numbered + 1)..(numbered + k) : tables'[n].table # "sources"
    PROVE  SeedSound'
<1> USE DEF HarnessInv
<1>0. /\ numbered \in Nat /\ numbered' = numbered + k /\ Rows \subseteq 0..numbered
      /\ DOMAIN tables' = Rows \cup (numbered + 1)..(numbered + k)
      /\ \A n \in Rows : tables'[n].table = tables[n].table
  BY DEF RowsSound, Grown, RowKept
<1>1. Mailboxes' = Mailboxes
  BY <1>0 DEF Mailboxes, In, Rows
<1>2. \A n \in 0..numbered : n \in Rows' => n \in Rows
  BY <1>0 DEF Rows
<1> QED
  BY <1>0, <1>1, <1>2 DEF SeedSound

\* Only starting the process is possible in production.
LEMMA NotInProduction ==
    ASSUME HarnessInv,
           \/ require_fixtures \/ handler.at # "idle" \/ reset.at > 0
           \/ \E s \in Seeds : seeding[s].at # "idle"
           \/ \E n \in Rows : tables[n].table # "sources",
           deployed' = deployed
    PROVE  ~ Production /\ DeploySound'
<1> USE DEF HarnessInv
<1>1. ASSUME Production PROVE FALSE
  <2>1. ~ require_fixtures
    BY <1>1 DEF DeploySound, check_startup, require_fixtures
  <2>2. Rows \subseteq 0..0
    BY <1>1 DEF DeploySound, RowsSound
  <2>3. \A n \in Rows : n = 0
    BY <2>2
  <2> QED
    BY <1>1, <2>1, <2>3 DEF DeploySound, RowsSound
<1>2. ~ Production'
  BY <1>1 DEF Production
<1>3. deployed' \in [env : Deployments, serving : BOOLEAN] /\ (deployed'.serving => check_startup')
  BY DEF DeploySound, check_startup, fixtures_enabled, Production
<1> QED
  BY <1>1, <1>2, <1>3 DEF DeploySound

\* What stays as it is beside tables that do
LEMMA RowsStill ==
    ASSUME HarnessInv, UNCHANGED <<tables, numbered>>
    PROVE  /\ RowsSound' /\ Rows' = Rows /\ Mailboxes' = Mailboxes
           /\ (Overtaken => Overtaken') => OrphansExplained'
           /\ seeding' = seeding => SeedSound'
<1> USE DEF HarnessInv
<1>1. Rows' = Rows /\ Mailboxes' = Mailboxes
  BY DEF Rows, Mailboxes, In
<1>2. \A n : Placed(n)' <=> Placed(n)
  BY <1>1 DEF Placed
<1>3. RowsSound'
  BY <1>1, <1>2 DEF RowsSound
<1>4. (Overtaken => Overtaken') => OrphansExplained'
  BY <1>1 DEF OrphansExplained
<1>5. seeding' = seeding => SeedSound'
  BY <1>1 DEF SeedSound
<1> QED
  BY <1>1, <1>3, <1>4, <1>5

\* A row's state is written, and nothing else of it.
LEMMA SettleShape ==
    ASSUME RowsSound, NEW j, NEW st \in {"ready", "running", "failed", "done"}
    PROVE  /\ DOMAIN Settle(tables, j, st) = Rows
           /\ \A n \in Rows : /\ Settle(tables, j, st)[n] \in RowSet
                              /\ Settle(tables, j, st)[n].table = tables[n].table
                              /\ Settle(tables, j, st)[n].of = tables[n].of
                              /\ Settle(tables, j, st)[n].queue = tables[n].queue
<1>1. \A n \in Rows : tables[n] \in RowSet
  BY DEF RowsSound, Placed
<1>2. ASSUME NEW r \in RowSet
      PROVE  /\ [r EXCEPT !.state = st] \in RowSet /\ [r EXCEPT !.state = st].table = r.table
             /\ [r EXCEPT !.state = st].of = r.of /\ [r EXCEPT !.state = st].queue = r.queue
  BY DEF RowSet
<1>3. CASE j \in Rows
  <2>1. Settle(tables, j, st) = [tables EXCEPT ![j].state = st]
    BY <1>3 DEF Settle, Rows
  <2>2. DOMAIN Settle(tables, j, st) = Rows
    BY <2>1 DEF Rows
  <2>3. ASSUME NEW n \in Rows
        PROVE  Settle(tables, j, st)[n] = IF n = j THEN [tables[n] EXCEPT !.state = st] ELSE tables[n]
    BY <2>1 DEF Rows
  <2>4. ASSUME NEW n \in Rows
        PROVE  /\ Settle(tables, j, st)[n] \in RowSet
               /\ Settle(tables, j, st)[n].table = tables[n].table
               /\ Settle(tables, j, st)[n].of = tables[n].of
               /\ Settle(tables, j, st)[n].queue = tables[n].queue
    <3>1. tables[n] \in RowSet
      BY <1>1
    <3>2. CASE n = j
      BY <1>2, <2>3, <3>1, <3>2
    <3>3. CASE n # j
      BY <2>3, <3>1, <3>3
    <3> QED
      BY <3>2, <3>3
  <2> QED
    BY <2>2, <2>4
<1>4. CASE j \notin Rows
  BY <1>1, <1>4 DEF Settle, Rows
<1> QED
  BY <1>3, <1>4

\* New rows are laid behind the old ones.
Laid(after, old, new) ==
    /\ DOMAIN after = DOMAIN old \cup (numbered + 1)..(numbered + Len(new))
    /\ \A n \in DOMAIN old : after[n] = old[n]
    /\ \A i \in 1..Len(new) : after[numbered + i] = new[i]
LEMMA InsertShape ==
    ASSUME NEW old, NEW new,
           numbered \in Nat, DOMAIN old \subseteq 0..numbered, Len(new) \in Nat
    PROVE  Laid(Insert(old, new), old, new)
<1>1. \A i \in 1..Len(new) : /\ numbered + i \in (numbered + 1)..(numbered + Len(new))
                             /\ numbered + i \notin DOMAIN old /\ (numbered + i) - numbered = i
  OBVIOUS
<1> QED
  BY <1>1 DEF Insert, Laid

\* A row that may be inserted
Fits(r) ==
    /\ r \in RowSet
    /\ r.table \in {"items", "credentials"} =>
           /\ r.of \in DOMAIN tables' /\ tables'[r.of].table = "sources"
           /\ r.of \notin reset.doomed
    /\ r.table = "jobs" =>
           /\ r.queue \in Queues /\ r.of \in 0..numbered'
           /\ r.of \notin DOMAIN tables' => Overtaken
           /\ r.queue \in {"poll", "extract"} /\ r.of \in DOMAIN tables'
                  => tables'[r.of].table = "sources"

\* Rows that fit go in behind rows kept but for their state.
LEMMA InsertGrows ==
    ASSUME RowsSound, NEW old, DOMAIN old = Rows,
           \A n \in Rows : /\ old[n] \in RowSet /\ old[n].table = tables[n].table
                           /\ old[n].of = tables[n].of /\ old[n].queue = tables[n].queue,
           NEW new, Len(new) \in Nat,
           tables' = Insert(old, new), numbered' = numbered + Len(new),
           \A i \in 1..Len(new) : Fits(new[i])
    PROVE  Grown(Len(new))
<1>1. numbered \in Nat /\ DOMAIN old \subseteq 0..numbered
  BY DEF RowsSound
<1>2. /\ DOMAIN tables' = Rows \cup (numbered + 1)..(numbered + Len(new))
      /\ \A n \in Rows : tables'[n] = old[n]
      /\ \A i \in 1..Len(new) : tables'[numbered + i] = new[i]
  <2>1. Laid(Insert(old, new), old, new)
    BY <1>1, InsertShape
  <2> QED
    BY <2>1 DEF Laid
<1>3. \A n \in Rows : RowKept(n)
  BY <1>2 DEF RowKept
<1>4. ASSUME NEW n \in (numbered + 1)..(numbered + Len(new))
      PROVE  Fits(tables'[n])
  <2>1. n - numbered \in 1..Len(new) /\ numbered + (n - numbered) = n
    BY <1>1
  <2> QED
    BY <1>2, <2>1
<1>5. ASSUME NEW n \in (numbered + 1)..(numbered + Len(new))
      PROVE  /\ Placed(n)'
             /\ tables'[n].table \in {"items", "credentials"} => tables'[n].of \notin reset.doomed
             /\ tables'[n].table = "jobs" /\ tables'[n].of \notin DOMAIN tables' => Overtaken
  BY <1>4 DEF Fits, Placed, Rows
<1> QED
  BY <1>2, <1>3, <1>5 DEF Grown

\* A commit of new rows beside the worker
LEMMA CommitGrows ==
    ASSUME HarnessInv, NEW new, Len(new) \in Nat, Commit(new),
           \A i \in 1..Len(new) : Fits(new[i])
    PROVE  Grown(Len(new)) /\ reset' = Meanwhile(reset)
<1>1. RowsSound /\ \A n \in Rows : tables[n] \in RowSet
  BY DEF HarnessInv, RowsSound, Placed
<1>2. /\ tables' = Insert(tables, new) /\ numbered' = numbered + Len(new)
      /\ reset' = Meanwhile(reset) /\ DOMAIN tables = Rows
  BY DEF Commit, Rows
<1> QED
  BY <1>1, <1>2, InsertGrows

\* One new row
LEMMA CommitOne ==
    ASSUME HarnessInv, NEW r, Commit(<<r>>), r.table # "sources",
           (/\ DOMAIN tables' = Rows \cup {numbered + 1}
            /\ \A n \in Rows : tables'[n] = tables[n]) => Fits(r),
           handler' = handler, seeding' = seeding, deployed' = deployed, ~ Production, DeploySound'
    PROVE  HarnessInv'
<1> DEFINE new == <<r>>
<1>1. Len(new) = 1 /\ new[1] = r /\ \A i \in 1..1 : i = 1
  OBVIOUS
<1> HIDE DEF new
<1>2. numbered \in Nat /\ DOMAIN tables = Rows /\ Rows \subseteq 0..numbered
  BY DEF HarnessInv, RowsSound, Rows
<1>3. tables' = Insert(tables, new) /\ Commit(new)
  BY DEF Commit, new
<1>4. /\ DOMAIN tables' = Rows \cup {numbered + 1}
      /\ \A n \in Rows : tables'[n] = tables[n]
      /\ tables'[numbered + 1] = r
  <2>1. \A n : n \in (numbered + 1)..(numbered + 1) <=> n = numbered + 1
    BY <1>2
  <2>2. Len(new) \in Nat /\ 1 \in 1..1
    BY <1>1
  <2>3. Laid(Insert(tables, new), tables, new)
    BY <1>2, <2>2, InsertShape
  <2> QED
    BY <1>1, <1>2, <1>3, <2>1, <2>2, <2>3 DEF Laid
<1>5. Grown(1) /\ reset' = Meanwhile(reset)
  <2>1. Len(new) \in Nat /\ \A i \in 1..Len(new) : Fits(new[i])
    BY <1>1, <1>4
  <2>2. Grown(Len(new)) /\ reset' = Meanwhile(reset)
    BY <1>3, <2>1, CommitGrows
  <2> QED
    BY <1>1, <2>2
<1>6. \A n \in (numbered + 1)..(numbered + 1) : tables'[n].table # "sources"
  BY <1>2, <1>4
<1>7. RowsSound' /\ OrphansExplained' /\ ResetSound' /\ SweptSoFar'
  BY <1>5, GrowKeeps
<1>8. HandlerSound'
  BY <1>5, HandlerBeside
<1>9. SeedSound'
  BY <1>5, <1>6, SeedsBeside
<1> QED
  BY <1>7, <1>8, <1>9 DEF HarnessInv

\* The trigger and the owner's request
LEMMA TriggerKeeps ==
    ASSUME HarnessInv, trigger_poll \/ trigger_episode \/ ask_integrate
    PROVE  HarnessInv'
<1> USE DEF HarnessInv
<1>0. numbered \in Nat /\ Rows \subseteq 0..numbered /\ \A n \in Rows : tables[n] \in RowSet
  BY DEF RowsSound, Placed
<1>1. ASSUME trigger_poll PROVE HarnessInv'
  <2>1. /\ require_fixtures /\ handler' = handler /\ seeding' = seeding /\ deployed' = deployed
    BY <1>1 DEF trigger_poll
  <2>2. PICK n \in In("sources") : Commit(<<Job("poll", n)>>)
    BY <1>1 DEF trigger_poll, pollable_gmail_sources
  <2>3. n \in Rows /\ tables[n].table = "sources" /\ n \in Nat /\ n \in 0..numbered
    BY <1>0 DEF In
  <2>4. Job("poll", n) \in RowSet
    BY <2>3 DEF Job, RowSet, Queues, Tables
  <2>5. ASSUME DOMAIN tables' = Rows \cup {numbered + 1}, \A m \in Rows : tables'[m] = tables[m]
        PROVE  Fits(Job("poll", n))
    <3>1. n \in 0..numbered'
      BY <1>0, <2>2, <2>3 DEF Commit
    <3> QED
      BY <2>3, <2>4, <2>5, <3>1 DEF Fits, Job, Queues
  <2>6. ~ Production /\ DeploySound'
    BY <2>1, NotInProduction
  <2>7. Job("poll", n).table # "sources"
    BY DEF Job
  <2> HIDE DEF HarnessInv
  <2> QED
    BY <2>1, <2>2, <2>5, <2>6, <2>7, CommitOne
<1>3. ASSUME ask_integrate PROVE HarnessInv'
  <2>1. /\ handler' = handler /\ seeding' = seeding /\ deployed' = deployed
    BY <1>3 DEF ask_integrate
  <2>2. PICK i \in In("items") : Commit(<<Job("integrate", i)>>)
    BY <1>3 DEF ask_integrate
  <2>3. i \in Rows /\ tables[i].table = "items" /\ i \in Nat /\ i \in 0..numbered
    <3>1. i \in Rows /\ tables[i].table = "items"
      BY <2>2 DEF In
    <3> HIDE DEF HarnessInv
    <3>2. i \in 0..numbered
      BY <1>0, <3>1
    <3>3. i \in Nat
      BY <3>2
    <3> QED
      BY <3>1, <3>2, <3>3
  <2>4. Job("integrate", i) \in RowSet
    BY <2>3 DEF Job, RowSet, Queues, Tables
  <2>5. ASSUME DOMAIN tables' = Rows \cup {numbered + 1}, \A m \in Rows : tables'[m] = tables[m]
        PROVE  Fits(Job("integrate", i))
    <3>1. i \in 0..numbered'
      BY <1>0, <2>2, <2>3 DEF Commit
    <3> QED
      BY <2>3, <2>4, <2>5, <3>1 DEF Fits, Job, Queues
  <2>6. ~ Production /\ DeploySound'
    BY <2>1, <2>3, NotInProduction
  <2>7. Job("integrate", i).table # "sources"
    BY DEF Job
  <2> HIDE DEF HarnessInv
  <2> QED
    BY <2>1, <2>2, <2>5, <2>6, <2>7, CommitOne
<1>2. ASSUME trigger_episode PROVE HarnessInv'
  <2> DEFINE r1 == Row("episodes", None)
             r2 == Job("assemble", numbered + 1)
             new == <<r1, r2>>
  <2>1. /\ require_fixtures /\ handler' = handler /\ seeding' = seeding /\ deployed' = deployed
        /\ Commit(new)
    BY <1>2 DEF trigger_episode
  <2>2. Len(new) = 2 /\ new[1] = r1 /\ new[2] = r2 /\ \A i \in 1..2 : i = 1 \/ i = 2
    OBVIOUS
  <2>3. /\ r1 \in RowSet /\ r1.table = "episodes"
        /\ r2 \in RowSet /\ r2.table = "jobs" /\ r2.queue = "assemble" /\ r2.of = numbered + 1
    BY <1>0 DEF Row, Job, RowSet, Queues, Tables
  <2> HIDE DEF new, r1, r2
  <2>4. DOMAIN tables = Rows /\ tables' = Insert(tables, new) /\ numbered' = numbered + 2
    BY <2>1, <2>2 DEF Commit, Rows
  <2>5. /\ DOMAIN tables' = Rows \cup (numbered + 1)..(numbered + 2)
        /\ tables'[numbered + 1] = r1 /\ tables'[numbered + 2] = r2
    <3>1. Len(new) \in Nat /\ 1 \in 1..2 /\ 2 \in 1..2
      BY <2>2
    <3>2. Laid(Insert(tables, new), tables, new)
      BY <1>0, <2>4, <3>1, InsertShape
    <3> QED
      BY <1>0, <2>2, <2>4, <3>1, <3>2 DEF Laid, Rows
  <2>6. Fits(r1) /\ Fits(r2)
    <3>1. numbered + 1 \in DOMAIN tables' /\ numbered + 1 \in 0..numbered'
      BY <1>0, <2>4, <2>5
    <3> QED
      BY <2>3, <3>1 DEF Fits, Queues
  <2>7. Grown(2) /\ reset' = Meanwhile(reset)
    <3>1. \A i \in 1..Len(new) : Fits(new[i])
      BY <2>2, <2>6
    <3>2. Len(new) \in Nat
      BY <2>2
    <3>3. Grown(Len(new)) /\ reset' = Meanwhile(reset)
      <4> HIDE DEF HarnessInv
      <4> QED
        BY <2>1, <3>1, <3>2, CommitGrows
    <3> QED
      BY <2>2, <3>3
  <2>8. \A n \in (numbered + 1)..(numbered + 2) : tables'[n].table # "sources"
    <3>1. \A n \in (numbered + 1)..(numbered + 2) : n = numbered + 1 \/ n = numbered + 2
      BY <1>0
    <3> QED
      BY <2>3, <2>5, <3>1
  <2>9. ~ Production /\ DeploySound'
    BY <2>1, NotInProduction
  <2>10. RowsSound' /\ OrphansExplained' /\ ResetSound' /\ SweptSoFar'
    BY <2>7, GrowKeeps
  <2>11. HandlerSound' /\ SeedSound'
    BY <2>1, <2>7, <2>8, HandlerBeside, SeedsBeside
  <2> QED
    BY <2>9, <2>10, <2>11
<1> QED
  BY <1>1, <1>2, <1>3

\* Starting the process, and a seed that takes its lock or looks for the mailbox
LEMMA SeedBeginsKeeps ==
    ASSUME HarnessInv, boot \/ \E s \in Seeds : seed_begins(s) \/ find_gmail_source(s)
    PROVE  HarnessInv'
<1> USE DEF HarnessInv
<1>1. /\ UNCHANGED <<tables, numbered, reset, handler>>
  BY DEF boot, seed_begins, find_gmail_source
<1>2. /\ RowsSound' /\ OrphansExplained' /\ Rows' = Rows /\ Mailboxes' = Mailboxes
      /\ seeding' = seeding => SeedSound'
  BY <1>1, RowsStill DEF Overtaken
<1>3. HandlerSound' /\ ResetSound' /\ SweptSoFar'
  BY <1>1, <1>2 DEF HandlerSound, ResetSound, SweptSoFar, Overtaken
<1>4. CASE boot
  <2>1. /\ deployed' = [deployed EXCEPT !.serving = TRUE] /\ check_startup /\ seeding' = seeding
    BY <1>4 DEF boot
  <2>2. /\ deployed' \in [env : Deployments, serving : BOOLEAN] /\ deployed'.env = deployed.env
    BY <2>1 DEF DeploySound
  <2>3. check_startup' /\ (Production' <=> Production)
    BY <2>1, <2>2 DEF check_startup, fixtures_enabled, Production
  <2>4. DeploySound'
    BY <1>1, <2>1, <2>2, <2>3 DEF DeploySound
  <2> QED
    BY <1>2, <1>3, <2>1, <2>4
<1>5. ASSUME NEW s \in Seeds, seed_begins(s) PROVE HarnessInv'
  <2>1. /\ require_fixtures /\ deployed' = deployed
        /\ seeding' = [seeding EXCEPT ![s].at = "locked"]
        /\ \A q \in Seeds \ {s} : seeding[q].at \notin {"locked", "found"}
    BY <1>5 DEF seed_begins, lock_seed
  <2>2. /\ seeding' \in [Seeds -> [at : {"idle", "locked", "found", "done", "failed"},
                                   found : Nat \cup {None}]]
        /\ seeding'[s].at = "locked" /\ \A q \in Seeds : q # s => seeding'[q] = seeding[q]
    BY <2>1 DEF SeedSound
  <2>3. SeedSound'
    BY <1>1, <1>2, <2>1, <2>2 DEF SeedSound
  <2>4. DeploySound'
    BY <2>1, NotInProduction
  <2> QED
    BY <1>2, <1>3, <2>3, <2>4
<1>6. ASSUME NEW s \in Seeds, find_gmail_source(s) PROVE HarnessInv'
  <2>1. seeding[s].at = "locked" /\ deployed' = deployed
    BY <1>6 DEF find_gmail_source
  <2>2. PICK f : /\ seeding' = [seeding EXCEPT ![s] = [at |-> "found", found |-> f]]
                 /\ f = IF Mailboxes = {} THEN None
                        ELSE CHOOSE n \in Mailboxes : \A m \in Mailboxes : n <= m
    <3> DEFINE g == IF Mailboxes = {} THEN None
                    ELSE CHOOSE n \in Mailboxes : \A m \in Mailboxes : n <= m
    <3>1. seeding' = [seeding EXCEPT ![s] = [at |-> "found", found |-> g]]
      BY <1>6 DEF find_gmail_source, Mailboxes, PasteSource
    <3> HIDE DEF g
    <3>2. \E f : f = g
      OBVIOUS
    <3> QED
      BY <3>1, <3>2 DEF g
  <2>3. \/ f = None /\ Mailboxes = {}
        \/ f \in Mailboxes
    <3>1. ASSUME NEW a \in Mailboxes PROVE \E n \in Mailboxes : \A m \in Mailboxes : n <= m
      <4>1. a \in Nat /\ \A m \in Mailboxes : m = a
        BY DEF SeedSound, RowsSound, Mailboxes, In
      <4> QED
        BY <4>1
    <3> QED
      BY <2>2, <3>1
  <2>4. \A n \in Mailboxes : n \in 0..numbered /\ n \in Nat /\ tables[n].table = "sources"
    <3>1. numbered \in Nat /\ Rows \subseteq 0..numbered
      BY DEF RowsSound
    <3>2. \A n \in Mailboxes : n \in Rows /\ tables[n].table = "sources"
      BY Zenon DEF Mailboxes, In
    <3>3. \A n \in 0..numbered : n \in Nat
      BY <3>1
    <3> QED
      BY <3>1, <3>2, <3>3
  <2>5. f \in Nat \cup {None}
    BY <2>3, <2>4
  <2>6. /\ seeding' \in [Seeds -> [at : {"idle", "locked", "found", "done", "failed"},
                                   found : Nat \cup {None}]]
        /\ seeding'[s].at = "found" /\ seeding'[s].found = f
        /\ \A q \in Seeds : q # s => seeding'[q] = seeding[q]
    BY <2>2, <2>5 DEF SeedSound
  <2>7. SeedSound'
    BY <1>1, <1>2, <2>1, <2>3, <2>4, <2>6 DEF SeedSound
  <2>8. DeploySound'
    BY <2>1, NotInProduction
  <2> QED
    BY <1>2, <1>3, <2>7, <2>8
<1> QED
  BY <1>4, <1>5, <1>6

\* A seed writes the mailbox, its credential and a poll, or fails.
LEMMA SeedKeeps ==
    ASSUME HarnessInv, NEW s \in Seeds, seed_gmail_source(s) PROVE HarnessInv'
<1> USE DEF HarnessInv
<1> DEFINE f == seeding[s].found
<1>0. /\ numbered \in Nat /\ Rows \subseteq 0..numbered /\ DOMAIN tables = Rows
      /\ reset.doomed \subseteq Rows /\ None \notin Nat
      /\ seeding[s].at = "found" /\ f \notin reset.doomed
      /\ deployed' = deployed /\ handler' = handler
      /\ seeding \in [Seeds -> [at : {"idle", "locked", "found", "done", "failed"},
                                found : Nat \cup {None}]]
  BY HarnessAssumption DEF RowsSound, ResetSound, SeedSound, seed_gmail_source, Rows
<1>1. DeploySound'
  BY <1>0, NotInProduction
<1>2. \A q \in Seeds : q # s => seeding[q].at \notin {"locked", "found"}
  BY <1>0 DEF SeedSound
<1>3. ASSUME NEW at \in {"done", "failed"}, seeding' = [seeding EXCEPT ![s].at = at]
      PROVE  /\ seeding' \in [Seeds -> [at : {"idle", "locked", "found", "done", "failed"},
                                        found : Nat \cup {None}]]
             /\ \A q \in Seeds : seeding'[q].at \notin {"locked", "found"}
  BY <1>0, <1>2, <1>3
<1>4. CASE seeding' = [seeding EXCEPT ![s].at = "failed"] /\ UNCHANGED <<tables, numbered, reset>>
  <2>1. RowsSound' /\ OrphansExplained' /\ Rows' = Rows /\ Mailboxes' = Mailboxes
    BY <1>4, RowsStill DEF Overtaken
  <2>2. HandlerSound' /\ ResetSound' /\ SweptSoFar'
    BY <1>0, <1>4, <2>1 DEF HandlerSound, ResetSound, SweptSoFar, Overtaken
  <2>3. SeedSound'
    BY <1>3, <1>4, <2>1 DEF SeedSound
  <2> QED
    BY <1>1, <2>1, <2>2, <2>3
<1>5. ASSUME f = None, seeding' = [seeding EXCEPT ![s].at = "done"],
             Commit(<<Row("sources", None), Row("credentials", numbered + 1),
                      Job("poll", numbered + 1)>>)
      PROVE  HarnessInv'
  <2> DEFINE r1 == Row("sources", None)
             r2 == Row("credentials", numbered + 1)
             r3 == Job("poll", numbered + 1)
             new == <<r1, r2, r3>>
  <2>1. Commit(new)
    BY <1>5
  <2>2. Len(new) = 3 /\ new[1] = r1 /\ new[2] = r2 /\ new[3] = r3
        /\ \A i \in 1..3 : i = 1 \/ i = 2 \/ i = 3
    OBVIOUS
  <2>3. /\ r1 \in RowSet /\ r1.table = "sources"
        /\ r2 \in RowSet /\ r2.table = "credentials" /\ r2.of = numbered + 1
        /\ r3 \in RowSet /\ r3.table = "jobs" /\ r3.queue = "poll" /\ r3.of = numbered + 1
    BY <1>0 DEF Row, Job, RowSet, Queues, Tables
  <2> HIDE DEF new, r1, r2, r3
  <2>4. tables' = Insert(tables, new) /\ numbered' = numbered + 3
    BY <2>1, <2>2 DEF Commit
  <2>5. /\ DOMAIN tables' = Rows \cup (numbered + 1)..(numbered + 3)
        /\ \A n \in Rows : tables'[n] = tables[n]
        /\ tables'[numbered + 1] = r1 /\ tables'[numbered + 2] = r2 /\ tables'[numbered + 3] = r3
    <3>1. Len(new) \in Nat /\ 1 \in 1..3 /\ 2 \in 1..3 /\ 3 \in 1..3
      BY <2>2
    <3>2. Laid(Insert(tables, new), tables, new)
      BY <1>0, <3>1, InsertShape
    <3> QED
      BY <1>0, <2>2, <2>4, <3>1, <3>2 DEF Laid, Rows
  <2>6. Fits(r1) /\ Fits(r2) /\ Fits(r3)
    <3>1. /\ numbered + 1 \in DOMAIN tables' /\ numbered + 1 \in 0..numbered'
          /\ numbered + 1 \notin reset.doomed
      BY <1>0, <2>4, <2>5
    <3> QED
      BY <2>3, <2>5, <3>1 DEF Fits, Queues
  <2>7. Grown(3) /\ reset' = Meanwhile(reset)
    <3>1. \A i \in 1..Len(new) : Fits(new[i])
      BY <2>2, <2>6
    <3>2. Len(new) \in Nat
      BY <2>2
    <3>3. Grown(Len(new)) /\ reset' = Meanwhile(reset)
      <4> HIDE DEF HarnessInv
      <4> QED
        BY <2>1, <3>1, <3>2, CommitGrows
    <3> QED
      BY <2>2, <3>3
  <2>8. Mailboxes = {}
    BY <1>0, <1>5 DEF SeedSound
  <2>9. \A n \in Mailboxes' : n = numbered + 1
    <3>1. \A n \in (numbered + 1)..(numbered + 3) :
              n = numbered + 1 \/ n = numbered + 2 \/ n = numbered + 3
      BY <1>0
    <3>2. \A n \in Mailboxes' : n \in DOMAIN tables' /\ n # 0 /\ tables'[n].table = "sources"
      BY DEF Mailboxes, In, Rows
    <3>3. \A n \in Rows : n # 0 => tables[n].table # "sources"
      BY <2>8 DEF Mailboxes, In
    <3> QED
      BY <2>3, <2>5, <3>1, <3>2, <3>3
  <2>10. SeedSound'
    BY <1>3, <1>5, <2>9 DEF SeedSound
  <2>11. RowsSound' /\ OrphansExplained' /\ ResetSound' /\ SweptSoFar'
    BY <2>7, GrowKeeps
  <2>12. HandlerSound'
    BY <1>0, <2>7, HandlerBeside
  <2> QED
    BY <1>1, <2>10, <2>11, <2>12
<1>6. ASSUME f \in Rows, seeding' = [seeding EXCEPT ![s].at = "done"],
             NEW k \in {1, 2}, NEW new, Len(new) = k, Commit(new),
             \A i \in 1..k : new[i] \in {Row("credentials", f), Job("poll", f)}
      PROVE  HarnessInv'
  <2>1. tables[f].table = "sources" /\ f \in 0..numbered /\ f \in Nat
    BY <1>0, <1>6 DEF SeedSound
  <2>2. \A r \in {Row("credentials", f), Job("poll", f)} :
            /\ r \in RowSet /\ r.of = f
            /\ r.table = "credentials" \/ (r.table = "jobs" /\ r.queue = "poll")
    BY <2>1 DEF Row, Job, RowSet, Queues, Tables
  <2> HIDE DEF f
  <2>3. tables' = Insert(tables, new) /\ numbered' = numbered + k
    BY <1>6 DEF Commit
  <2>4. /\ DOMAIN tables' = Rows \cup (numbered + 1)..(numbered + k)
        /\ \A n \in Rows : tables'[n] = tables[n]
        /\ \A i \in 1..k : tables'[numbered + i] = new[i]
    <3>1. Len(new) \in Nat
      BY <1>6
    <3>2. Laid(Insert(tables, new), tables, new)
      BY <1>0, <3>1, InsertShape
    <3> QED
      BY <1>0, <1>6, <2>3, <3>2 DEF Laid
  <2>5. \A i \in 1..k : Fits(new[i])
    <3>1. f \in DOMAIN tables' /\ tables'[f].table = "sources" /\ f \in 0..numbered'
      BY <1>0, <1>6, <2>1, <2>3, <2>4
    <3> QED
      BY <1>0, <1>6, <2>2, <3>1 DEF Fits, Queues, f
  <2>6. Grown(k) /\ reset' = Meanwhile(reset)
    BY <1>6, <2>5, CommitGrows
  <2>7. \A n \in (numbered + 1)..(numbered + k) : tables'[n].table # "sources"
    <3>1. ASSUME NEW n \in (numbered + 1)..(numbered + k) PROVE tables'[n].table # "sources"
      <4>1. n - numbered \in 1..k /\ numbered + (n - numbered) = n
        BY <1>0
      <4> QED
        BY <1>6, <2>2, <2>4, <4>1
    <3> QED
      BY <3>1
  <2>8. Mailboxes' = Mailboxes
    <3>1. DOMAIN tables' \ Rows \subseteq (numbered + 1)..(numbered + k)
      BY <2>4
    <3> QED
      BY <2>4, <2>7, <3>1 DEF Mailboxes, In, Rows
  <2>9. SeedSound'
    BY <1>3, <1>6, <2>8 DEF SeedSound
  <2>10. RowsSound' /\ OrphansExplained' /\ ResetSound' /\ SweptSoFar'
    BY <2>6, GrowKeeps
  <2>11. HandlerSound'
    BY <1>0, <2>6, HandlerBeside
  <2> QED
    BY <1>1, <2>9, <2>10, <2>11
<1>7. ASSUME f \in Rows, seeding' = [seeding EXCEPT ![s].at = "done"],
             Commit(<<Job("poll", f)>>)
      PROVE  HarnessInv'
  <2> DEFINE new == <<Job("poll", f)>>
  <2>1. Len(new) = 1 /\ \A i \in 1..1 : new[i] \in {Row("credentials", f), Job("poll", f)}
    OBVIOUS
  <2>2. Commit(new)
    BY <1>7
  <2> HIDE DEF new
  <2> QED
    BY <1>6, <1>7, <2>1, <2>2
<1>8. ASSUME f \in Rows, seeding' = [seeding EXCEPT ![s].at = "done"],
             Commit(<<Row("credentials", f), Job("poll", f)>>)
      PROVE  HarnessInv'
  <2> DEFINE new == <<Row("credentials", f), Job("poll", f)>>
  <2>1. Len(new) = 2 /\ \A i \in 1..2 : new[i] \in {Row("credentials", f), Job("poll", f)}
    <3>1. \A i \in 1..2 : i = 1 \/ i = 2
      OBVIOUS
    <3> QED
      BY <3>1
  <2>2. Commit(new)
    BY <1>8
  <2> HIDE DEF new
  <2> QED
    BY <1>6, <1>8, <2>1, <2>2
<1> QED
  BY <1>4, <1>5, <1>7, <1>8 DEF seed_gmail_source

\* The worker takes a job, and gives up one whose subject is gone.
LEMMA HandlerBeginsKeeps == ASSUME HarnessInv, handler_begins PROVE HarnessInv'
<1> USE DEF HarnessInv
<1>1. PICK j \in Rows : /\ tables[j].table = "jobs"
                        /\ IF tables[j].of \in Rows
                           THEN /\ handler' = [NoHandler EXCEPT !.at = "read",
                                    !.job = [n |-> j, queue |-> tables[j].queue, of |-> tables[j].of]]
                                /\ tables' = Settle(tables, j, "running")
                           ELSE /\ tables' = Settle(tables, j, "failed") /\ handler' = handler
  BY DEF handler_begins, In
<1>2. /\ handler.at = "idle" /\ reset' = Meanwhile(reset) /\ seeding' = seeding
      /\ deployed' = deployed /\ numbered' = numbered
  BY DEF handler_begins
<1>3. Placed(j) /\ numbered \in Nat /\ 0 \in Nat
  BY <1>1 DEF RowsSound
<1>4. Grown(0)
  <2>1. PICK st \in {"ready", "running", "failed", "done"} : tables' = Settle(tables, j, st)
    BY <1>1
  <2>2. DOMAIN tables' = Rows /\ \A n \in Rows : RowKept(n)
    BY <2>1, SettleShape DEF RowKept
  <2>3. (numbered + 1)..(numbered + 0) = {}
    BY <1>3
  <2> QED
    BY <1>2, <1>3, <2>2, <2>3 DEF Grown
<1>5. /\ RowsSound' /\ OrphansExplained' /\ ResetSound' /\ SweptSoFar'
      /\ \A n \in 0..numbered : n \in Rows' <=> n \in Rows
      /\ reset'.at > 0 => reset'.overlapped
  BY <1>2, <1>3, <1>4, GrowKeeps
<1>6. SeedSound'
  BY <1>2, <1>3, <1>4, SeedsBeside
<1>7. DeploySound'
  BY <1>1, <1>2, NotInProduction
<1>8. HandlerSound'
  <2>1. CASE handler' = handler
    BY <1>2, <1>3, <1>4, <2>1, HandlerBeside
  <2>2. CASE tables[j].of \in Rows
    <3>1. handler' = [at |-> "read", job |-> [n |-> j, queue |-> tables[j].queue, of |-> tables[j].of],
                      writes |-> <<>>, holds |-> {}]
      BY <1>1, <2>2 DEF NoHandler
    <3>2. /\ handler'.at = "read" /\ handler'.job.queue = tables[j].queue
          /\ handler'.job.of = tables[j].of
          /\ handler' = [at |-> handler'.at, job |-> handler'.job,
                         writes |-> handler'.writes, holds |-> handler'.holds]
      BY <3>1
    <3>3. /\ tables[j].queue \in Queues /\ tables[j].of \in 0..numbered' /\ tables[j].of \in Rows'
          /\ tables[j].queue \in {"poll", "extract"} => tables'[tables[j].of].table = "sources"
      BY <1>1, <1>2, <1>3, <1>4, <1>5, <2>2 DEF Placed, Grown, RowKept
    <3> QED
      BY <1>5, <3>2, <3>3 DEF HandlerSound
  <2> QED
    BY <1>1, <2>1, <2>2
<1> QED
  BY <1>5, <1>6, <1>7, <1>8

\* It writes, or fails the foreign key of a row that is gone; and it marks its job.
LEMMA HandlerWritesKeeps ==
    ASSUME HarnessInv, handler_writes \/ handler_marks PROVE HarnessInv'
<1> USE DEF HarnessInv
<1>0. /\ handler.at # "idle" /\ deployed' = deployed /\ UNCHANGED <<numbered, seeding, reset>>
      /\ numbered \in Nat /\ 0 \in Nat
  BY DEF handler_writes, handler_marks, RowsSound
<1>1. DeploySound'
  BY <1>0, NotInProduction
<1>2. CASE tables' = Settle(tables, handler.job.n, "ready") /\ handler' = NoHandler
  <2>1. Grown(0)
    <3>1. DOMAIN tables' = Rows /\ \A n \in Rows : RowKept(n)
      BY <1>2, SettleShape DEF RowKept
    <3>2. (numbered + 1)..(numbered + 0) = {}
      BY <1>0
    <3> QED
      BY <1>0, <3>1, <3>2 DEF Grown
  <2>2. RowsSound' /\ OrphansExplained' /\ ResetSound' /\ SweptSoFar'
    BY <1>0, <2>1, GrowKeeps
  <2>3. \A n \in (numbered + 1)..(numbered + 0) : tables'[n].table # "sources"
    BY <1>0
  <2>4. HandlerSound' /\ SeedSound'
    BY <1>0, <1>2, <2>1, <2>3, HandlerBeside, SeedsBeside
  <2> QED
    BY <1>1, <2>2, <2>4
<1>3. CASE /\ tables' = tables /\ handler.at = "read" /\ handler.job.of \notin reset.doomed
           /\ ~ (Refers(handler.job) /\ handler.job.of \notin Rows)
           /\ handler' = [handler EXCEPT !.at = "wrote", !.writes = Writes(handler.job),
                                         !.holds = {handler.job.of} \cap Rows]
  <2>1. RowsSound' /\ OrphansExplained' /\ Rows' = Rows /\ SeedSound'
    BY <1>0, <1>3, RowsStill DEF Overtaken
  <2>2. handler' = [at |-> "wrote", job |-> handler.job, writes |-> Writes(handler.job),
                    holds |-> {handler.job.of} \cap Rows]
    BY <1>3 DEF HandlerSound
  <2>3. /\ handler'.at = "wrote" /\ handler'.job = handler.job
        /\ handler'.writes = Writes(handler.job) /\ handler'.holds = {handler.job.of} \cap Rows
        /\ handler' = [at |-> handler'.at, job |-> handler'.job,
                       writes |-> handler'.writes, holds |-> handler'.holds]
    BY <2>2
  <2>4. Writes(handler.job)' = Writes(handler'.job)
    BY DEF Writes, Job, Row
  <2>5. handler.job.queue = "extract" => handler.job.of \in Rows
    BY <1>3 DEF Refers
  <2>6. HandlerSound'
    BY <1>0, <1>3, <2>1, <2>3, <2>4, <2>5 DEF HandlerSound, Overtaken
  <2>7. ResetSound' /\ SweptSoFar'
    BY <1>0, <1>3, <2>1 DEF ResetSound, SweptSoFar
  <2> QED
    BY <1>1, <2>1, <2>6, <2>7
<1>4. CASE handler_marks
  <2>1. /\ tables' = tables /\ handler.at = "wrote"
        /\ handler' = [handler EXCEPT !.at = "marked",
                         !.holds = handler.holds \cup ({handler.job.n} \cap Rows)]
    BY <1>4 DEF handler_marks
  <2>2. RowsSound' /\ OrphansExplained' /\ Rows' = Rows /\ SeedSound'
    BY <1>0, <2>1, RowsStill DEF Overtaken
  <2>3. handler' = [at |-> "marked", job |-> handler.job, writes |-> handler.writes,
                    holds |-> handler.holds \cup ({handler.job.n} \cap Rows)]
    BY <2>1 DEF HandlerSound
  <2>4. /\ handler'.at = "marked" /\ handler'.job = handler.job
        /\ handler'.writes = handler.writes /\ handler.holds \subseteq handler'.holds
        /\ handler' = [at |-> handler'.at, job |-> handler'.job,
                       writes |-> handler'.writes, holds |-> handler'.holds]
    BY <2>3
  <2>5. HandlerSound'
    BY <1>0, <2>1, <2>2, <2>4 DEF HandlerSound, Overtaken
  <2>6. ResetSound' /\ SweptSoFar'
    BY <1>0, <2>1, <2>2 DEF ResetSound, SweptSoFar
  <2> QED
    BY <1>1, <2>2, <2>5, <2>6
<1> QED
  BY <1>2, <1>3, <1>4 DEF handler_writes

\* It commits: what it inserts refers to a row it held, or by name only.
LEMMA HandlerCommitsKeeps == ASSUME HarnessInv, handler_commits_h PROVE HarnessInv'
<1> USE DEF HarnessInv
<1> DEFINE old == Settle(tables, handler.job.n, "done")
<1>0. /\ handler.at = "marked" /\ deployed' = deployed /\ seeding' = seeding
      /\ reset' = Meanwhile(reset) /\ handler' = NoHandler
      /\ numbered \in Nat /\ Rows \subseteq 0..numbered
      /\ tables' = Insert(old, handler.writes) /\ numbered' = numbered + Len(handler.writes)
      /\ handler.writes = Writes(handler.job) /\ handler.job.queue \in Queues
      /\ handler.job.of \in 0..numbered /\ handler.job.of \in Nat
  BY DEF handler_commits_h, RowsSound, HandlerSound
<1>1. DeploySound'
  BY <1>0, NotInProduction
<1>2. /\ DOMAIN old = Rows
      /\ \A n \in Rows : /\ old[n] \in RowSet /\ old[n].table = tables[n].table
                         /\ old[n].of = tables[n].of /\ old[n].queue = tables[n].queue
  BY SettleShape
<1>3. PICK new : new = handler.writes
  OBVIOUS
<1>4. PICK b : b = old
  OBVIOUS
<1> HIDE DEF old
<1>5. Len(new) \in Nat /\ \A i \in 1..Len(new) :
        \/ new[i] = Job("extract", handler.job.of) /\ handler.job.queue = "poll"
        \/ new[i] = Row("items", handler.job.of) /\ handler.job.queue = "extract"
        \/ new[i] = Row("stories", handler.job.of)
        \/ new[i] = Job("script", handler.job.of)
  <2>1. \/ new = <<Job("extract", handler.job.of)>> /\ handler.job.queue = "poll"
        \/ new = <<Row("items", handler.job.of)>> /\ handler.job.queue = "extract"
        \/ new = <<Row("stories", handler.job.of)>>
        \/ new = <<Job("script", handler.job.of)>>
        \/ new = <<>>
    BY <1>0, <1>3 DEF Writes, Queues
  <2>2. ASSUME NEW r PROVE Len(<<r>>) = 1 /\ \A i \in 1..Len(<<r>>) : <<r>>[i] = r
    OBVIOUS
  <2>3. Len(<<>>) = 0 /\ 1..0 = {} /\ 0 \in Nat /\ 1 \in Nat
    OBVIOUS
  <2>4. ASSUME NEW r, new = <<r>> PROVE Len(new) \in Nat /\ \A i \in 1..Len(new) : new[i] = r
    BY <2>2, <2>3, <2>4
  <2>5. CASE new = <<>>
    BY <2>3, <2>5
  <2> QED
    BY <2>1, <2>4, <2>5
<1>6. /\ DOMAIN tables' = Rows \cup (numbered + 1)..(numbered + Len(new))
      /\ \A n \in Rows : tables'[n] = b[n]
      /\ \A i \in 1..Len(new) : tables'[numbered + i] = new[i]
  <2>1. DOMAIN b \subseteq 0..numbered
    BY <1>0, <1>2, <1>4
  <2>2. Laid(Insert(b, new), b, new)
    BY <1>0, <1>5, <2>1, InsertShape
  <2>3. tables' = Insert(b, new) /\ DOMAIN b = Rows
    BY <1>0, <1>2, <1>3, <1>4
  <2> QED
    BY <2>2, <2>3 DEF Laid
<1>7. ASSUME NEW i \in 1..Len(new) PROVE Fits(new[i]) /\ new[i].table # "sources"
  <2>1. /\ handler.job.of \in 0..numbered'
        /\ handler.job.of \in DOMAIN tables' => handler.job.of \in Rows
    <3>1. handler.job.of \notin (numbered + 1)..(numbered + Len(new))
      BY <1>0, <1>5
    <3> QED
      BY <1>0, <1>3, <1>5, <1>6, <3>1
  <2>2. handler.job.of \notin DOMAIN tables' => Overtaken
    BY <1>0, <1>6 DEF HandlerSound
  <2>3. /\ handler.job.queue = "extract" =>
               handler.job.of \in Rows /\ handler.job.of \notin reset.doomed
        /\ handler.job.queue \in {"poll", "extract"} /\ handler.job.of \in Rows =>
               tables'[handler.job.of].table = "sources"
    BY <1>0, <1>2, <1>4, <1>6 DEF HandlerSound
  <2>4. CASE new[i] = Job("extract", handler.job.of) /\ handler.job.queue = "poll"
    BY <1>0, <2>1, <2>2, <2>3, <2>4 DEF Fits, Job, RowSet, Queues, Tables
  <2>5. CASE new[i] = Row("items", handler.job.of) /\ handler.job.queue = "extract"
    BY <1>0, <1>6, <2>1, <2>2, <2>3, <2>5 DEF Fits, Row, RowSet, Queues, Tables
  <2>6. CASE new[i] = Row("stories", handler.job.of)
    BY <1>0, <2>6 DEF Fits, Row, RowSet, Queues, Tables
  <2>7. CASE new[i] = Job("script", handler.job.of)
    BY <1>0, <2>1, <2>2, <2>7 DEF Fits, Job, RowSet, Queues, Tables
  <2> QED
    BY <1>5, <2>4, <2>5, <2>6, <2>7
<1>8. Grown(Len(new))
  BY <1>0, <1>2, <1>3, <1>4, <1>5, <1>7, InsertGrows
<1>9. \A n \in (numbered + 1)..(numbered + Len(new)) : tables'[n].table # "sources"
  <2>1. ASSUME NEW n \in (numbered + 1)..(numbered + Len(new)) PROVE tables'[n].table # "sources"
    <3>1. n - numbered \in 1..Len(new) /\ numbered + (n - numbered) = n
      BY <1>0, <1>5
    <3> QED
      BY <1>6, <1>7, <3>1
  <2> QED
    BY <2>1
<1>10. RowsSound' /\ OrphansExplained' /\ ResetSound' /\ SweptSoFar'
  BY <1>0, <1>5, <1>8, GrowKeeps
<1>11. HandlerSound' /\ SeedSound'
  BY <1>0, <1>5, <1>8, <1>9, HandlerBeside, SeedsBeside
<1> QED
  BY <1>1, <1>10, <1>11

\* The order of the reset's statements
LEMMA StepsShape ==
    /\ Len(RESET_STEPS) = 6 /\ RESET_STEPS[1] = "jobs"
    /\ \A i \in 2..6 : RESET_STEPS[i] # "jobs"
    /\ \A t \in Tables : \E i \in 1..6 : RESET_STEPS[i] = t
<1>1. /\ Len(RESET_STEPS) = 6 /\ RESET_STEPS[1] = "jobs" /\ RESET_STEPS[2] = "episodes"
      /\ RESET_STEPS[3] = "stories" /\ RESET_STEPS[4] = "items"
      /\ RESET_STEPS[5] = "credentials" /\ RESET_STEPS[6] = "sources"
  BY DEF RESET_STEPS
<1> HIDE DEF RESET_STEPS
<1>2. /\ \A i \in 2..6 : i = 2 \/ i = 3 \/ i = 4 \/ i = 5 \/ i = 6
      /\ 1 \in 1..6 /\ 2 \in 1..6 /\ 3 \in 1..6 /\ 4 \in 1..6 /\ 5 \in 1..6 /\ 6 \in 1..6
  OBVIOUS
<1>3. \A i \in 2..6 : RESET_STEPS[i] # "jobs"
  BY <1>1, <1>2
<1>4. \A t \in Tables : \E i \in 1..6 : RESET_STEPS[i] = t
  BY <1>1, <1>2 DEF Tables
<1> QED
  BY <1>1, <1>3, <1>4

\* No reset is open
LEMMA NoResetTyped ==
    /\ NoReset \in ResetRows /\ NoReset.at = 0 /\ NoReset.snapshot = None
    /\ NoReset.doomed = {} /\ NoReset.left = None
<1>1. 0 \in 0..7 /\ {} \in SUBSET Nat
  OBVIOUS
<1> QED
  BY <1>1 DEF NoReset, ResetRows

\* The reset begins: nothing is doomed yet.
LEMMA ResetBeginsKeeps == ASSUME HarnessInv, reset_begins PROVE HarnessInv'
<1> USE DEF HarnessInv
<1>0. /\ require_fixtures /\ reset.at = 0 /\ reset.left = None
      /\ UNCHANGED <<deployed, tables, numbered, seeding, handler>>
  BY DEF reset_begins
<1>1. PICK o \in BOOLEAN : /\ reset' = [reset EXCEPT !.at = 1, !.overlapped = o]
                           /\ handler.at # "idle" => o
  BY DEF reset_begins
<1>2. /\ reset \in ResetRows /\ reset.doomed = {} /\ reset.snapshot = None
      /\ ~ Overtaken
  BY <1>0 DEF ResetSound, Overtaken
<1>3. /\ reset' \in ResetRows /\ reset'.at = 1 /\ reset'.doomed = {} /\ reset'.snapshot = None
      /\ reset'.left = None /\ reset'.overlapped = o
  <2>1. 1 \in 0..7
    OBVIOUS
  <2> QED
    BY <1>0, <1>1, <1>2, <2>1 DEF ResetRows
<1>4. RowsSound' /\ OrphansExplained' /\ Rows' = Rows /\ SeedSound'
  BY <1>0, <1>2, RowsStill
<1>5. HandlerSound'
  BY <1>0, <1>1, <1>2, <1>3, <1>4 DEF HandlerSound, Writes, Job, Row
<1>6. ResetSound'
  BY <1>3, <1>4 DEF ResetSound
<1>7. SweptSoFar'
  BY <1>3 DEF SweptSoFar
<1>8. DeploySound'
  BY <1>0, NotInProduction
<1> QED
  BY <1>4, <1>5, <1>6, <1>7, <1>8

\* A statement sees every row of its table: a job by the row it is about, none of
\* which is deleted yet, because jobs go first.
LEMMA StatementBeginsKeeps == ASSUME HarnessInv, statement_begins PROVE HarnessInv'
<1> USE DEF HarnessInv
<1>0. /\ reset.at \in 1..6 /\ reset.snapshot = None
      /\ UNCHANGED <<deployed, tables, numbered, seeding, handler>>
      /\ reset \in ResetRows /\ Rows \subseteq Nat /\ reset.left = None
  BY StepsShape DEF statement_begins, ResetSound, RowsSound
<1>1. PICK v : v = Victims(RESET_STEPS[reset.at]) /\ reset' = [reset EXCEPT !.snapshot = v]
  BY DEF statement_begins
<1>2. v \subseteq Rows /\ 0 \notin v /\ v \in SUBSET Nat
  BY <1>0, <1>1 DEF Victims, Visible, RowsSound, PasteSource
<1>3. /\ reset' \in ResetRows /\ reset'.at = reset.at /\ reset'.doomed = reset.doomed
      /\ reset'.snapshot = v /\ reset'.left = None /\ reset'.overlapped = reset.overlapped
  BY <1>0, <1>1, <1>2 DEF ResetRows
<1>4. RowsSound' /\ OrphansExplained' /\ Rows' = Rows /\ SeedSound'
  BY <1>0, <1>3, RowsStill DEF Overtaken
<1>5. HandlerSound'
  BY <1>0, <1>3, <1>4 DEF HandlerSound, Overtaken, Writes, Job, Row
<1>6. ResetSound'
  BY <1>0, <1>2, <1>3, <1>4 DEF ResetSound
<1>7. SweptSoFar'
  <2>1. ASSUME NEW n \in Rows \ {0}, tables[n].table = RESET_STEPS[reset.at]
        PROVE  n \in v \cup reset.doomed
    <3>1. tables[n].table = "jobs" => reset.doomed = {} /\ tables[n].of \in Visible
      <4>1. tables[n].table = "jobs" => reset.at = 1
        <5>1. reset.at = 1 \/ reset.at \in 2..6
          BY <1>0
        <5>2. reset.at \in 2..6 => RESET_STEPS[reset.at] # "jobs"
          BY StepsShape
        <5> QED
          BY <2>1, <5>1, <5>2
      <4>2. tables[n].table = "jobs" => tables[n].of \in Rows
        BY <1>0, <2>1 DEF OrphansExplained, Overtaken
      <4> QED
        BY <4>1, <4>2 DEF ResetSound, Visible
    <3> QED
      BY <1>1, <2>1, <3>1 DEF Victims, Visible, PasteSource
  <2> QED
    BY <1>0, <1>3, <1>4, <2>1 DEF SweptSoFar
<1>8. DeploySound'
  BY <1>0, NotInProduction
<1> QED
  BY <1>4, <1>5, <1>6, <1>7, <1>8

\* It deletes what it saw and what that cascades to, none of it held by the handler.
LEMMA StatementEndsKeeps == ASSUME HarnessInv, statement_ends PROVE HarnessInv'
<1> USE DEF HarnessInv
<1>0. /\ reset.snapshot # None /\ handler.holds \cap reset.snapshot = {}
      /\ UNCHANGED <<deployed, tables, numbered, seeding, handler>>
      /\ reset \in ResetRows /\ Rows \subseteq Nat /\ reset.at \in 1..6 /\ reset.left = None
      /\ reset.snapshot \subseteq Rows /\ 0 \notin reset.snapshot
  BY DEF statement_ends, ResetSound, RowsSound
<1>1. PICK d : /\ d = reset.doomed \cup (reset.snapshot \cap Rows) \cup Cascade(reset.snapshot)
               /\ reset' = [reset EXCEPT !.at = reset.at + 1, !.snapshot = None, !.doomed = d]
  BY DEF statement_ends
<1>2. /\ \A n \in Cascade(reset.snapshot) : n \in Rows /\ tables[n].table \in {"items", "credentials"}
      /\ \A n \in Rows : tables[n].table \in {"items", "credentials"} /\ tables[n].of \in reset.snapshot
             => n \in d
  BY <1>1 DEF Cascade
<1>3. /\ d \subseteq Rows /\ 0 \notin d /\ reset.doomed \subseteq d /\ d \in SUBSET Nat
      /\ reset.snapshot \subseteq d
  BY <1>0, <1>1, <1>2 DEF ResetSound, RowsSound
<1>4. /\ reset' \in ResetRows /\ reset'.at = reset.at + 1 /\ reset'.doomed = d
      /\ reset'.snapshot = None /\ reset'.left = None /\ reset'.overlapped = reset.overlapped
  <2>1. reset.at + 1 \in 0..7
    BY <1>0
  <2>2. PICK a \in 0..7 : a = reset.at + 1
    BY <2>1
  <2>3. reset' = [reset EXCEPT !.at = a, !.snapshot = None, !.doomed = d]
    BY <1>1, <2>2
  <2> QED
    BY <1>0, <1>3, <2>2, <2>3 DEF ResetRows
<1>5. RowsSound' /\ OrphansExplained' /\ Rows' = Rows /\ SeedSound'
  BY <1>0, <1>4, RowsStill DEF Overtaken
<1>6. HandlerSound'
  <2>1. handler.at \in {"wrote", "marked"} /\ handler.job.queue = "extract" => handler.job.of \notin d
    BY <1>0, <1>1, <1>2 DEF HandlerSound
  <2> QED
    BY <1>0, <1>4, <1>5, <2>1 DEF HandlerSound, Overtaken, Writes, Job, Row
<1>7. ResetSound'
  <2>1. ASSUME NEW n \in Rows, tables[n].table \in {"items", "credentials"}, tables[n].of \in d
        PROVE  n \in d
    <3>1. tables[tables[n].of].table = "sources"
      BY <2>1 DEF RowsSound, Placed
    <3>2. tables[n].of \notin Cascade(reset.snapshot)
      BY <1>2, <3>1
    <3> QED
      BY <1>1, <1>2, <1>3, <2>1, <3>2 DEF ResetSound
  <2>2. ~ (reset'.at <= 1) /\ ~ (reset'.at = 0)
    BY <1>0, <1>4
  <2> QED
    BY <1>0, <1>3, <1>4, <1>5, <2>1, <2>2 DEF ResetSound
<1>8. SweptSoFar'
  <2>1. ASSUME ~ reset.overlapped, NEW n \in Rows \ {0}, NEW i \in 1..6,
               tables[n].table = RESET_STEPS[i], i < reset.at + 1
        PROVE  n \in d
    <3>1. i < reset.at \/ i = reset.at
      BY <1>0, <2>1
    <3>2. reset.at > 0
      BY <1>0
    <3> QED
      BY <1>0, <1>3, <2>1, <3>1, <3>2 DEF SweptSoFar
  <2> QED
    BY <1>0, <1>4, <1>5, <2>1 DEF SweptSoFar
<1>9. DeploySound'
  BY <1>0, NotInProduction
<1> QED
  BY <1>5, <1>6, <1>7, <1>8, <1>9

\* The commit: what was doomed is gone, and unless something overlapped, all else is.
LEMMA ResetCommitsKeeps == ASSUME HarnessInv, reset_commits PROVE HarnessInv'
<1> USE DEF HarnessInv
<1>0. /\ reset.at = 7 /\ UNCHANGED <<deployed, numbered, seeding, handler>>
      /\ reset \in ResetRows /\ reset.left = None
  BY StepsShape DEF reset_commits, ResetSound, ResetRows
<1>1. PICK rest : rest = Rows \ reset.doomed
  OBVIOUS
<1>2. PICK l : l = {tables[n].table : n \in rest \ {0}}
  OBVIOUS
<1>3. /\ tables' = [n \in rest |-> tables[n]]
      /\ reset' = [NoReset EXCEPT !.overlapped = reset.overlapped, !.left = l]
  BY <1>1, <1>2 DEF reset_commits, PasteSource
<1>4. l \in SUBSET Tables /\ l # None
  <2>1. \A n \in rest : tables[n].table \in Tables
    BY <1>1 DEF RowsSound, Placed, RowSet
  <2>2. l \in SUBSET Tables
    BY <1>2, <2>1
  <2> QED
    BY <2>2, HarnessAssumption
<1>5. /\ reset' = [at |-> 0, snapshot |-> None, doomed |-> {}, overlapped |-> reset.overlapped,
                   left |-> l]
      /\ reset.overlapped \in BOOLEAN
  BY <1>0, <1>3 DEF NoReset, ResetRows
<1>6. /\ reset'.at = 0 /\ reset'.snapshot = None /\ reset'.doomed = {}
      /\ (reset'.overlapped <=> reset.overlapped) /\ reset'.left = l
      /\ reset' \in ResetRows
  <2>1. 0 \in 0..7 /\ {} \in SUBSET Nat /\ l \in SUBSET Tables
    BY <1>4
  <2>2. reset' \in ResetRows
    BY <1>5, <2>1 DEF ResetRows
  <2> QED
    BY <1>5, <2>2
<1>7. Rows' = rest /\ rest \subseteq Rows /\ 0 \in rest /\ \A n \in rest : tables'[n] = tables[n]
  BY <1>1, <1>3 DEF Rows, RowsSound, ResetSound
<1>8. ~ reset.overlapped => rest = {0}
  <2>1. ASSUME ~ reset.overlapped, NEW n \in rest, n # 0 PROVE FALSE
    <3>1. tables[n].table \in Tables
      BY <1>7 DEF RowsSound, Placed, RowSet
    <3>2. PICK i \in 1..6 : RESET_STEPS[i] = tables[n].table
      BY <3>1, StepsShape
    <3>3. i < reset.at /\ reset.at > 0
      BY <1>0
    <3> QED
      BY <1>1, <2>1, <3>2, <3>3 DEF SweptSoFar
  <2> QED
    BY <1>7, <2>1
<1>9. reset.overlapped => Overtaken'
  BY <1>4, <1>6 DEF Overtaken
<1>10. RowsSound'
  <2>1. ASSUME NEW n \in rest PROVE Placed(n)'
    <3>1. Placed(n) /\ n \notin reset.doomed
      BY <1>1 DEF RowsSound
    <3>2. tables[n].table \in {"items", "credentials"} => tables[n].of \in rest
      BY <1>1, <3>1 DEF Placed, ResetSound
    <3> QED
      BY <1>0, <1>7, <3>1, <3>2 DEF Placed
  <2> QED
    BY <1>0, <1>7, <2>1 DEF RowsSound
<1>11. OrphansExplained'
  <2>1. ~ reset.overlapped => \A j \in rest : tables[j].table # "jobs"
    BY <1>8 DEF RowsSound
  <2> QED
    BY <1>7, <1>9, <2>1 DEF OrphansExplained
<1>12. HandlerSound'
  <2>1. handler.at # "idle" => Overtaken'
    BY <1>0, <1>9 DEF HandlerSound
  <2>2. handler.at \in {"wrote", "marked"} /\ handler.job.queue = "extract" => handler.job.of \in rest
    BY <1>1 DEF HandlerSound
  <2> QED
    BY <1>0, <1>6, <1>7, <2>1, <2>2 DEF HandlerSound, Writes, Job, Row
<1>13. ResetSound'
  <2>1. ~ reset.overlapped => l = {}
    BY <1>2, <1>8
  <2> QED
    BY <1>6, <2>1 DEF ResetSound
<1>14. SweptSoFar'
  BY <1>6 DEF SweptSoFar
<1>15. SeedSound'
  <2>1. Mailboxes' \subseteq Mailboxes
    BY <1>7 DEF Mailboxes, In
  <2> QED
    BY <1>0, <1>7, <2>1 DEF SeedSound
<1>16. DeploySound'
  BY <1>0, NotInProduction
<1> QED
  BY <1>10, <1>11, <1>12, <1>13, <1>14, <1>15, <1>16

\* One of two that wait for each other is ended: nothing of it was committed.
LEMMA DeadlockKeeps == ASSUME HarnessInv, deadlock_broken PROVE HarnessInv'
<1> USE DEF HarnessInv
<1>0. /\ UNCHANGED <<deployed, tables, numbered, seeding>>
      /\ reset.at > 0 /\ reset.left = None /\ ~ Overtaken
      /\ (reset' = NoReset /\ handler' = handler) \/ (handler' = NoHandler /\ reset' = reset)
  BY DEF deadlock_broken, ResetSound, Overtaken
<1>1. RowsSound' /\ OrphansExplained' /\ Rows' = Rows /\ SeedSound'
  BY <1>0, RowsStill
<1>2. DeploySound'
  BY <1>0, NotInProduction
<1>3. CASE reset' = NoReset /\ handler' = handler
  <2>1. /\ reset'.at = 0 /\ reset'.snapshot = None /\ reset'.doomed = {} /\ reset'.left = None
        /\ reset' \in ResetRows
    BY <1>3, NoResetTyped
  <2>2. HandlerSound'
    BY <1>0, <1>1, <1>3, <2>1 DEF HandlerSound, Writes, Job, Row
  <2>3. ResetSound' /\ SweptSoFar'
    BY <2>1 DEF ResetSound, SweptSoFar
  <2> QED
    BY <1>1, <1>2, <2>2, <2>3
<1>4. CASE handler' = NoHandler /\ reset' = reset
  <2>1. HandlerSound'
    BY <1>4 DEF HandlerSound, NoHandler
  <2>2. ResetSound' /\ SweptSoFar'
    BY <1>0, <1>1, <1>4 DEF ResetSound, SweptSoFar
  <2> QED
    BY <1>1, <1>2, <2>1, <2>2
<1> QED
  BY <1>0, <1>3, <1>4

\* The first states satisfy the invariant.
LEMMA HarnessStart == HarnessInit => HarnessInv
<1> SUFFICES ASSUME HarnessInit PROVE HarnessInv
  OBVIOUS
<1>1. /\ Rows = {0} /\ tables[0] = Row("sources", None) /\ numbered = 0
      /\ handler = NoHandler /\ reset = NoReset
      /\ deployed \in [env : Deployments, serving : {FALSE}]
      /\ seeding = [s \in Seeds |-> [at |-> "idle", found |-> None]]
  BY DEF HarnessInit, Rows, PasteSource
<1>2. tables[0] \in RowSet /\ tables[0].table = "sources"
  BY <1>1 DEF Row, RowSet, Tables
<1>3. RowsSound /\ OrphansExplained
  BY <1>1, <1>2 DEF RowsSound, Placed, OrphansExplained
<1>4. HandlerSound
  BY <1>1 DEF HandlerSound, NoHandler
<1>5. ResetSound /\ SweptSoFar
  BY <1>1, NoResetTyped DEF ResetSound, SweptSoFar
<1>6. Mailboxes = {}
  BY <1>1 DEF Mailboxes, In
<1>7. SeedSound
  BY <1>1, <1>6 DEF SeedSound
<1>8. DeploySound
  BY <1>1 DEF DeploySound, NoHandler, NoReset
<1> QED
  BY <1>3, <1>4, <1>5, <1>7, <1>8 DEF HarnessInv

\* Every step keeps it.
LEMMA HarnessStep == HarnessInv /\ [HarnessNext]_harnessVars => HarnessInv'
<1> SUFFICES ASSUME HarnessInv, [HarnessNext]_harnessVars PROVE HarnessInv'
  OBVIOUS
<1>1. CASE trigger_poll \/ trigger_episode \/ ask_integrate
  BY <1>1, TriggerKeeps
<1>2. CASE boot \/ \E s \in Seeds : seed_begins(s) \/ find_gmail_source(s)
  BY <1>2, SeedBeginsKeeps
<1>3. ASSUME NEW s \in Seeds, seed_gmail_source(s) PROVE HarnessInv'
  BY <1>3, SeedKeeps
<1>4. CASE handler_begins
  BY <1>4, HandlerBeginsKeeps
<1>5. CASE handler_writes \/ handler_marks
  BY <1>5, HandlerWritesKeeps
<1>6. CASE handler_commits_h
  BY <1>6, HandlerCommitsKeeps
<1>7. CASE reset_begins
  BY <1>7, ResetBeginsKeeps
<1>8. CASE statement_begins
  BY <1>8, StatementBeginsKeeps
<1>9. CASE statement_ends
  BY <1>9, StatementEndsKeeps
<1>10. CASE reset_commits
  BY <1>10, ResetCommitsKeeps
<1>11. CASE deadlock_broken
  BY <1>11, DeadlockKeeps
<1>12. CASE UNCHANGED harnessVars
  <2>1. UNCHANGED <<deployed, tables, numbered, seeding, reset, handler>>
    BY <1>12 DEF harnessVars
  <2>2. RowsSound' /\ OrphansExplained' /\ Rows' = Rows /\ SeedSound'
    BY <2>1, RowsStill DEF Overtaken
  <2>3. HandlerSound' /\ ResetSound' /\ SweptSoFar'
    BY <2>1, <2>2 DEF HarnessInv, HandlerSound, ResetSound, SweptSoFar, Overtaken, Writes, Job, Row
  <2>4. DeploySound'
    BY <2>1 DEF HarnessInv, DeploySound, check_startup, fixtures_enabled, Production
  <2> QED
    BY <2>2, <2>3, <2>4 DEF HarnessInv
<1> QED
  BY <1>1, <1>2, <1>3, <1>4, <1>5, <1>6, <1>7, <1>8, <1>9, <1>10, <1>11, <1>12 DEF HarnessNext

\* What the invariant says of a reset, of the mailboxes and of production
LEMMA HarnessUse == HarnessInv => HarnessHolds
<1> SUFFICES ASSUME HarnessInv PROVE HarnessHolds
  OBVIOUS
<1> USE DEF HarnessInv
<1>1. reset.left # None /\ ~ reset.overlapped => reset.left = {}
  BY DEF ResetSound
<1>2. \A n \in Rows : tables[n].table \in {"items", "credentials"} => tables[n].of \in Rows
  BY DEF RowsSound, Placed
<1>3. (\E j \in In("jobs") : tables[j].of \notin Rows) => reset.left # None /\ reset.overlapped
  BY DEF OrphansExplained, Overtaken, In
<1>4. Cardinality(Mailboxes) <= 1
  <2>1. CASE Mailboxes = {}
    BY <2>1, FS_EmptySet
  <2>2. ASSUME NEW m \in Mailboxes PROVE Cardinality(Mailboxes) <= 1
    <3>1. Mailboxes = {m}
      BY DEF SeedSound
    <3>2. Cardinality({m}) = 1
      BY FS_Singleton
    <3>3. 1 <= 1
      OBVIOUS
    <3> QED
      BY <3>1, <3>2, <3>3
  <2> QED
    BY <2>1, <2>2
<1>5. ResetIsClean
  BY <1>1, <1>2, <1>3 DEF ResetIsClean, RowsSound, PasteSource
<1>6. HarnessIsContained
  BY <1>4 DEF HarnessIsContained, Mailboxes, PasteSource, DeploySound
<1> QED
  BY <1>5, <1>6 DEF HarnessHolds

\* A reset nothing overlaps leaves nothing of the user's, every item and credential
\* has its source, the test user has one mailbox of the seed's name at most, and
\* production has none of this: for any number of seeds, rows and jobs beside it
\* (db/fixtures.py, api/fixtures.py).
THEOREM HarnessAlwaysHolds == HarnessSpec => []HarnessHolds
<1>1. HarnessSpec => []HarnessInv
  BY HarnessStart, HarnessStep, PTL DEF HarnessSpec
<1> QED
  BY <1>1, HarnessUse, PTL


(***************************************************************************)
(* EnrichRun                                                               *)
(***************************************************************************)

\* All a transcript may come to hold
KeptPieces == {"agent", "browser"} \X {"page", "token", "mail"}

RunRows == [at : {"none", "up", "stopping", "gone", "answered", "lost"}, cost : Nat,
            calls : Nat, events : Nat, stop : {None, "timeout", "capped", "raised"},
            final : {None, "article", "stub", "blocked"}, late : Nat, login : BOOLEAN,
            read : BOOLEAN, kept : SUBSET KeptPieces, cap : 0..MaxUsdItem]

\* Nothing of the mailbox is repeated before it was read.
MailInHand(r) == {<<"agent", "mail">>, <<"browser", "mail">>} \cap r.kept # {} => r.read

\* What a run may have cost by now: its cap while it is up, one event more when
\* it is stopped for it, and one for each line read after that.
WithinReach(r) ==
    /\ r.at = "up" => r.late = 0 /\ r.cost <= r.cap
    /\ r.at = "stopping" => r.late <= MaxLate /\ r.cost <= r.cap + (r.late + 1) * Step
    /\ r.cost <= r.cap + (1 + MaxLate) * Step

\* The run whose answer the handler waits for is the only one that still costs.
OnlyHeldRuns ==
    \A i \in Articles :
        IF i = held THEN run_[i].at \in {"up", "stopping", "gone"}
        ELSE run_[i].at \in {"none", "answered", "lost"} /\ run_[i].cost = 0

\* What every state of the runs satisfies.
EnrichInv ==
    /\ status \in [Articles -> {"queued", "running", "done", "failed", "skipped"}]
    /\ run_ \in [Articles -> RunRows]
    /\ held \in Articles \cup {None} /\ jar \in Articles \cup {None}
    /\ ledger \in [spent : Nat, holds : SUBSET KeptPieces] /\ owed \in Nat
    /\ OnlyHeldRuns
    /\ \A i \in Articles : WithinReach(run_[i]) /\ MailInHand(run_[i])
    /\ SpendIsSeen
    /\ held = None => DayIsCapped
    /\ held # None => ledger.spent < MaxUsdDay
    /\ LoginIsKept

\* The runs start so, keep so, and hence are accountable.
LEMMA EnrichStart == EnrichInit => EnrichInv
<1> SUFFICES ASSUME EnrichInit PROVE EnrichInv
  OBVIOUS
<1> USE EnrichAssumption DEF EnrichInit
<1>1. /\ NoRun \in RunRows /\ WithinReach(NoRun) /\ NoRun.at = "none" /\ NoRun.cost = 0
      /\ MailInHand(NoRun)
  BY DEF NoRun, RunRows, WithinReach, MailInHand, Step
<1>2. OnlyHeldRuns /\ LoginIsKept
  BY <1>1 DEF OnlyHeldRuns, LoginIsKept
<1>3. SpendIsSeen /\ DayIsCapped
  BY DEF SpendIsSeen, HeldCost, DayIsCapped, Step
<1> QED
  BY <1>1, <1>2, <1>3 DEF EnrichInv

\* A run that is over costs nothing more.
LEMMA OverIsOver ==
    ASSUME NEW r \in RunRows, NEW at \in {"answered", "lost"}
    PROVE  /\ Over(r, at) \in RunRows /\ WithinReach(Over(r, at)) /\ MailInHand(Over(r, at))
           /\ Over(r, at).at = at /\ Over(r, at).cost = 0
           /\ Over(r, at).login => at = "answered" /\ r.login
<1> USE EnrichAssumption
<1> DEFINE in == at = "answered" /\ r.login
<1>1. in \in BOOLEAN
  OBVIOUS
<1>2. Over(r, at) = [NoRun EXCEPT !.at = at, !.login = in]
  BY DEF Over
<1>3. NoRun \in RunRows /\ NoRun.cost = 0 /\ NoRun.late = 0 /\ NoRun.cap = 0 /\ NoRun.kept = {}
  BY DEF NoRun, RunRows
<1> HIDE DEF in
<1>4. /\ Over(r, at) \in RunRows /\ Over(r, at).login = in
      /\ Over(r, at).at = at /\ Over(r, at).cost = 0 /\ Over(r, at).late = 0
      /\ Over(r, at).cap = 0 /\ Over(r, at).kept = {}
  BY <1>1, <1>2, <1>3 DEF RunRows
<1>5. Over(r, at).login => at = "answered" /\ r.login
  BY <1>4 DEF in
<1> QED
  BY <1>4, <1>5 DEF WithinReach, MailInHand, Step

\* What one event leaves in the transcript: nothing the mailbox wrote and no secret of a
\* known kind, and of the mail only what was read before.
LEMMA EntriesAre ==
    ASSUME NEW r \in RunRows, NEW e \in Events
    PROVE  /\ Entries(r, e) \subseteq KeptPieces
           /\ {<<"agent", "mail">>, <<"browser", "mail">>} \cap Entries(r, e) # {} => r.read
<1>1. \A p \in Known(r) : /\ p \in {"page", "password", "link", "token", "mail"}
                          /\ p = "mail" => r.read
  BY DEF Known
<1>2. ASSUME NEW p, p \in Entries(r, e)
      PROVE  \E who \in {"agent", "browser"}, what \in {"page", "token", "mail"} :
                 p = <<who, what>> /\ (what = "mail" => r.read)
  <2>1. CASE p \in Redacted(Args(r))
    <3>1. PICK what \in Known(r) : p = <<"agent", what>>
      BY <2>1 DEF Redacted, Args
    <3>2. what \notin {"password", "link"}
      BY <2>1, <3>1 DEF Redacted
    <3> QED
      BY <1>1, <3>1, <3>2
  <2>2. CASE p \in Redacted(strip_article(Text(r)))
    <3>1. p \in Text(r) /\ p[2] \notin {"password", "link", "article"}
      BY <2>2 DEF Redacted, strip_article
    <3>2. PICK what \in Known(r) \cup {"article"} : p = <<"agent", what>>
      BY <3>1 DEF Text
    <3>3. what \notin {"password", "link", "article"}
      BY <3>1, <3>2
    <3> QED
      BY <1>1, <3>2, <3>3
  <2>3. CASE e.kind = "tool" /\ p \in _redacted(e.tool, Result(r, e.tool))
    <3>1. is_browser_tool(e.tool) /\ p \in Redacted(Result(r, e.tool))
      BY <2>3 DEF _redacted
    <3>2. p \in {"browser"} \X Known(r) /\ p[2] \notin {"password", "link"}
      BY <3>1 DEF is_browser_tool, Result, Redacted
    <3>3. PICK what \in Known(r) : p = <<"browser", what>>
      BY <3>2
    <3>4. what \notin {"password", "link"}
      BY <3>2, <3>3
    <3> QED
      BY <1>1, <3>3, <3>4
  <2> QED
    BY <1>2, <2>1, <2>2, <2>3 DEF Entries
<1>3. Entries(r, e) \subseteq KeptPieces
  BY <1>2 DEF KeptPieces
<1>4. \A p \in Entries(r, e) : p \in {<<"agent", "mail">>, <<"browser", "mail">>} => r.read
  BY <1>2
<1> QED
  BY <1>3, <1>4

\* One more event of a run: it costs what the event costs and keeps within reach.
LEMMA OneMoreEvent ==
    ASSUME NEW r \in RunRows, WithinReach(r), MailInHand(r), NEW e \in Events,
           r.at \in {"up", "stopping"}, r.at = "stopping" => r.late < MaxLate
    PROVE  LET c == _consume(r, e)
           IN  /\ c \in RunRows /\ WithinReach(c) /\ MailInHand(c)
               /\ c.at \in {"up", "stopping"} /\ c.cost = r.cost + e.cost
<1> USE EnrichAssumption
<1> DEFINE a == absorb(r, e)
<1>1. e.cost \in {0, Step} /\ e.kind \in {"tool", "message"}
      /\ (e.kind = "message" => e.final \in {"article", "stub", "blocked"})
      /\ (e.kind = "tool" => e.login \in BOOLEAN)
  BY DEF Events
<1> DEFINE kept == r.kept \cup Entries(r, e)
           read == r.read \/ (e.kind = "tool" /\ e.tool # "browser__execute")
           login == r.login \/ (e.kind = "tool" /\ e.login)
           calls == r.calls + (IF e.kind = "tool" THEN 1 ELSE 0)
           final == IF e.kind = "message" THEN e.final ELSE r.final
           late == r.late + (IF r.at = "stopping" THEN 1 ELSE 0)
<1>2. /\ kept \in SUBSET KeptPieces /\ read \in BOOLEAN /\ login \in BOOLEAN /\ calls \in Nat /\ late \in Nat
      /\ final \in {None, "article", "stub", "blocked"} /\ r.cost + e.cost \in Nat
      /\ r.events + 1 \in Nat
  <2>1. r.kept \subseteq KeptPieces
    BY DEF RunRows
  <2>2. kept \in SUBSET KeptPieces
    BY <2>1, EntriesAre
  <2>5. calls \in Nat /\ late \in Nat /\ r.cost + e.cost \in Nat /\ r.events + 1 \in Nat
    BY <1>1 DEF RunRows, Step
  <2>6. final \in {None, "article", "stub", "blocked"}
    BY <1>1 DEF RunRows
  <2> QED
    BY <2>2, <2>5, <2>6
<1>3. /\ a.at = r.at /\ a.cap = r.cap /\ a.stop = r.stop
      /\ a.cost = r.cost + e.cost
      /\ a.late = r.late + (IF r.at = "stopping" THEN 1 ELSE 0)
      /\ a \in RunRows /\ MailInHand(a)
  <2>1. a = [r EXCEPT !.cost = r.cost + e.cost, !.events = r.events + 1, !.late = late,
                      !.calls = calls, !.final = final, !.login = login, !.read = read,
                      !.kept = kept]
    BY DEF absorb
  <2>2. late = r.late + (IF r.at = "stopping" THEN 1 ELSE 0)
    OBVIOUS
  <2>5. {<<"agent", "mail">>, <<"browser", "mail">>} \cap kept # {} => read
    BY EntriesAre DEF MailInHand
  <2> HIDE DEF kept, read, login, calls, final, late, a
  <2>3. /\ a.at = r.at /\ a.cap = r.cap /\ a.stop = r.stop /\ a.cost = r.cost + e.cost
        /\ a.late = late /\ a.kept = kept /\ a.read = read
    BY <2>1, <1>2 DEF RunRows
  <2>4. a \in RunRows
    BY <1>2, <2>1 DEF RunRows
  <2>6. MailInHand(a)
    BY <2>3, <2>5 DEF MailInHand
  <2> QED
    BY <2>2, <2>3, <2>4, <2>6
<1> HIDE DEF a
<1>4. ASSUME a.cost <= r.cap \/ r.at = "stopping" PROVE WithinReach(a)
  BY <1>1, <1>3, <1>4 DEF WithinReach, RunRows, Step
<1>5. CASE a.calls > MaxCallsRun \/ a.cost > r.cap
  <2> DEFINE s == _stop(a, "capped")
  <2>1. /\ s \in RunRows /\ s.at = "stopping" /\ s.cost = a.cost /\ s.late = a.late
        /\ s.cap = a.cap /\ s.kept = a.kept /\ s.read = a.read
    BY <1>3 DEF _stop, RunRows
  <2>3. MailInHand(s)
    BY <1>3, <2>1 DEF MailInHand
  <2>2. WithinReach(s)
    BY <1>1, <1>3, <2>1 DEF WithinReach, RunRows, Step
  <2> QED
    BY <1>3, <1>5, <2>1, <2>2, <2>3 DEF _consume, a
<1>6. CASE ~ (a.calls > MaxCallsRun \/ a.cost > r.cap)
  BY <1>3, <1>4, <1>6 DEF _consume, a, RunRows, Step
<1> QED
  BY <1>5, <1>6

\* What changes only the run that is waited for, and what it owes with it.
LEMMA RunMoves ==
    ASSUME EnrichInv, NEW i \in Articles, NEW c \in RunRows,
           run_[i].at \in {"up", "stopping"}, WithinReach(c), MailInHand(c),
           c.at \in {"up", "stopping", "gone"}, c.cost >= run_[i].cost,
           run_' = [run_ EXCEPT ![i] = c],
           owed' = owed + (c.cost - run_[i].cost),
           UNCHANGED <<added, status, held, ledger, jar>>
    PROVE  EnrichInv'
<1> USE DEF EnrichInv
<1>1. held = i /\ held # None
  BY EnrichAssumption DEF OnlyHeldRuns
<1>2. run_' \in [Articles -> RunRows] /\ run_'[i] = c
      /\ \A k \in Articles \ {i} : run_'[k] = run_[k]
  OBVIOUS
<1>3. OnlyHeldRuns' /\ (\A k \in Articles : WithinReach(run_[k]) /\ MailInHand(run_[k]))'
  BY <1>1, <1>2 DEF OnlyHeldRuns
<1>4. SpendIsSeen' /\ owed' \in Nat
  BY <1>1, <1>2 DEF SpendIsSeen, HeldCost, RunRows
<1>5. LoginIsKept'
  BY <1>2 DEF LoginIsKept
<1> QED
  BY <1>1, <1>2, <1>3, <1>4, <1>5

\* The run that was waited for is over, and the handler with it.
LEMMA RunEnds ==
    ASSUME EnrichInv, NEW i \in Articles, NEW at \in {"answered", "lost"}, held = i,
           run_' = [run_ EXCEPT ![i] = Over(run_[i], at)], held' = None,
           status' \in [Articles -> {"queued", "running", "done", "failed", "skipped"}],
           jar' \in Articles \cup {None}, jar # None => jar' # None,
           at = "answered" /\ run_[i].login => jar' # None,
           ledger' \in [spent : Nat, holds : SUBSET KeptPieces],
           ledger'.spent \in {ledger.spent, ledger.spent + run_[i].cost},
           owed' = owed - (run_[i].cost - (ledger'.spent - ledger.spent))
    PROVE  EnrichInv'
<1> USE DEF EnrichInv
<1>1. held # None
  BY EnrichAssumption
<1> DEFINE c == Over(run_[i], at)
<1>2. /\ c \in RunRows /\ WithinReach(c) /\ MailInHand(c) /\ c.at = at /\ c.cost = 0
      /\ c.login => at = "answered" /\ run_[i].login
  BY OverIsOver
<1>3. run_' \in [Articles -> RunRows] /\ run_'[i] = c
      /\ \A k \in Articles \ {i} : run_'[k] = run_[k]
  BY <1>2
<1>4. OnlyHeldRuns' /\ (\A k \in Articles : WithinReach(run_[k]) /\ MailInHand(run_[k]))'
  BY <1>1, <1>2, <1>3, EnrichAssumption DEF OnlyHeldRuns
<1>5. owed = ledger.spent + run_[i].cost /\ run_[i].cost \in Nat /\ ledger.spent \in Nat
  BY <1>1 DEF SpendIsSeen, HeldCost, RunRows
<1>6. SpendIsSeen' /\ owed' \in Nat
  BY <1>5 DEF SpendIsSeen, HeldCost
<1>7. DayIsCapped'
  BY <1>1, <1>5, EnrichAssumption DEF DayIsCapped, WithinReach, RunRows, Step
<1>8. LoginIsKept'
  BY <1>2, <1>3 DEF LoginIsKept
<1> QED
  BY <1>3, <1>4, <1>6, <1>7, <1>8

\* Every step of the handler, the service and the owner keeps it.
LEMMA EnrichStep == EnrichInv /\ [EnrichNext]_enrichVars => EnrichInv'
<1> SUFFICES ASSUME EnrichInv, [EnrichNext]_enrichVars PROVE EnrichInv'
  OBVIOUS
<1>1. CASE delete_site
  BY <1>1 DEF delete_site, EnrichInv, OnlyHeldRuns, SpendIsSeen, HeldCost, DayIsCapped,
              LoginIsKept
<1>2. ASSUME NEW i \in Articles, NEW client \in build_enrich_client, NEW announced \in BOOLEAN,
             enrich_skipped(i, client, announced) \/ record_enrich_failure(i)
      PROVE  EnrichInv'
  BY <1>2 DEF enrich_skipped, record_enrich_failure, _record_skip, _finish, EnrichInv,
              OnlyHeldRuns, SpendIsSeen, HeldCost, DayIsCapped, LoginIsKept
<1>3. ASSUME NEW i \in Articles, NEW asked \in {MaxUsdItem, MaxUsdItem + 4},
             NEW laid_out \in BOOLEAN, handle_enrich(i, asked, laid_out)
      PROVE  EnrichInv'
  <2> USE <1>3, EnrichAssumption DEF EnrichInv
  <2> DEFINE c == _write_layout(clamp(asked), laid_out)
  <2>1. clamp(asked) \in 0..MaxUsdItem
    BY DEF clamp
  <2>2. /\ c \in RunRows /\ WithinReach(c) /\ MailInHand(c)
        /\ c.at \in {"up", "gone"} /\ c.cost = 0
    <3>1. c \in RunRows /\ c.at \in {"up", "gone"} /\ c.cost = 0 /\ c.late = 0
          /\ c.cap \in 0..MaxUsdItem /\ c.kept = {}
      BY <2>1 DEF _write_layout, NoRun, RunRows
    <3> QED
      BY <3>1 DEF WithinReach, MailInHand, Step
  <2>3. /\ held = None /\ held' = i /\ run_' = [run_ EXCEPT ![i] = c]
        /\ UNCHANGED <<added, ledger, jar, owed>> /\ ledger.spent < MaxUsdDay
    BY DEF handle_enrich, spend_since
  <2>4. status' \in [Articles -> {"queued", "running", "done", "failed", "skipped"}]
    BY DEF handle_enrich, _announce_running
  <2>5. run_' \in [Articles -> RunRows] /\ run_'[i] = c
        /\ \A k \in Articles \ {i} : run_'[k] = run_[k]
    BY <2>2, <2>3
  <2>6. OnlyHeldRuns' /\ (\A k \in Articles : WithinReach(run_[k]) /\ MailInHand(run_[k]))'
    BY <2>2, <2>3, <2>5 DEF OnlyHeldRuns
  <2>7. SpendIsSeen'
    BY <2>2, <2>3, <2>5 DEF SpendIsSeen, HeldCost
  <2>8. LoginIsKept'
    BY <2>2, <2>3, <2>5 DEF LoginIsKept
  <2> QED
    BY <2>3, <2>4, <2>5, <2>6, <2>7, <2>8
<1>4. ASSUME NEW i \in Articles, NEW e \in Events, stream(i, e) PROVE EnrichInv'
  <2>1. run_[i] \in RunRows /\ WithinReach(run_[i]) /\ MailInHand(run_[i])
    BY DEF EnrichInv
  <2>2. LET c == _consume(run_[i], e)
        IN  /\ c \in RunRows /\ WithinReach(c) /\ MailInHand(c) /\ c.at \in {"up", "stopping"}
            /\ c.cost = run_[i].cost + e.cost
    BY <1>4, <2>1, OneMoreEvent DEF stream
  <2>3. e.cost \in Nat /\ run_[i].cost \in Nat
    BY <2>1 DEF Events, Step, RunRows
  <2>4. run_' = [run_ EXCEPT ![i] = _consume(run_[i], e)] /\ owed' = owed + e.cost
        /\ UNCHANGED <<added, status, held, ledger, jar>> /\ run_[i].at \in {"up", "stopping"}
    BY <1>4, <2>1 DEF stream
  <2>5. owed' = owed + (_consume(run_[i], e).cost - run_[i].cost)
        /\ _consume(run_[i], e).cost >= run_[i].cost
    BY <2>1, <2>2, <2>3, <2>4 DEF EnrichInv, RunRows
  <2> QED
    BY <2>2, <2>4, <2>5, RunMoves
<1>5. ASSUME NEW i \in Articles, timer(i) \/ run_raises(i) \/ _execute(i) PROVE EnrichInv'
  <2> DEFINE c == run_'[i]
  <2>1. /\ run_[i] \in RunRows /\ WithinReach(run_[i]) /\ MailInHand(run_[i])
        /\ owed \in Nat /\ run_ \in [Articles -> RunRows]
    BY DEF EnrichInv
  <2>2. c \in RunRows /\ c.cost = run_[i].cost /\ c.late = run_[i].late /\ c.cap = run_[i].cap
        /\ c.at \in {"stopping", "gone"} /\ (c.at = "stopping" => run_[i].at = "up")
        /\ c.kept = run_[i].kept /\ c.read = run_[i].read
    <3>1. CASE timer(i)
      <4>1. c = _stop(run_[i], "timeout") /\ run_[i].at = "up"
        BY <2>1, <3>1 DEF timer
      <4> HIDE DEF c
      <4> QED
        BY <2>1, <4>1 DEF _stop, RunRows
    <3>2. CASE run_raises(i)
      <4>1. c = [run_[i] EXCEPT !.at = "gone", !.stop = "raised"]
        BY <2>1, <3>2 DEF run_raises
      <4> HIDE DEF c
      <4> QED
        BY <2>1, <4>1 DEF RunRows
    <3>3. CASE _execute(i)
      <4>1. c = [run_[i] EXCEPT !.at = "gone"]
        BY <2>1, <3>3 DEF _execute
      <4> HIDE DEF c
      <4> QED
        BY <2>1, <4>1 DEF RunRows
    <3> QED
      BY <1>5, <3>1, <3>2, <3>3
  <2>4. run_' = [run_ EXCEPT ![i] = c] /\ UNCHANGED <<added, status, held, ledger, jar, owed>>
        /\ run_[i].at \in {"up", "stopping"}
    BY <1>5, <2>1 DEF timer, run_raises, _execute
  <2>3. WithinReach(c) /\ MailInHand(c)
    <3> HIDE DEF c
    <3>1. MailInHand(c)
      BY <2>1, <2>2 DEF MailInHand
    <3>2. run_[i].late \in Nat /\ run_[i].cost \in Nat /\ run_[i].cap \in Nat
      BY <2>1, EnrichAssumption DEF RunRows
    <3>3. WithinReach(c)
      BY <2>1, <2>2, <2>4, <3>2, EnrichAssumption DEF WithinReach, Step
    <3> QED
      BY <3>1, <3>3
  <2>5. owed' = owed + (c.cost - run_[i].cost) /\ c.cost >= run_[i].cost
    BY <2>1, <2>2, <2>4 DEF RunRows
  <2> HIDE DEF c
  <2> QED
    BY <2>2, <2>3, <2>4, <2>5, RunMoves
<1>6. ASSUME NEW i \in Articles, NEW sealed \in BOOLEAN, _apply(i, sealed) PROVE EnrichInv'
  <2> DEFINE at == IF sealed THEN "answered" ELSE "lost"
  <2>1. run_[i] \in RunRows /\ ledger \in [spent : Nat, holds : SUBSET KeptPieces] /\ owed \in Nat
    BY DEF EnrichInv
  <2>2. held = i /\ held' = None /\ owed' = owed /\ run_' = [run_ EXCEPT ![i] = Over(run_[i], at)]
    BY <1>6 DEF _apply
  <2>3. status' \in [Articles -> {"queued", "running", "done", "failed", "skipped"}]
    BY <1>6 DEF _apply, _finish, EnrichInv
  <2>4. jar' = IF run_[i].login /\ sealed THEN i ELSE jar
    BY <1>6 DEF _apply, _store_browser_state, Answer
  <2>5. jar' \in Articles \cup {None} /\ (jar # None => jar' # None)
        /\ (at = "answered" /\ run_[i].login => jar' # None)
    BY <2>4, EnrichAssumption DEF EnrichInv
  <2>6. ledger' = [spent |-> ledger.spent + run_[i].cost, holds |-> ledger.holds \cup run_[i].kept]
    BY <1>6 DEF _apply, _record_run, Answer
  <2>7. ledger' \in [spent : Nat, holds : SUBSET KeptPieces]
        /\ ledger'.spent = ledger.spent + run_[i].cost
        /\ owed' = owed - (run_[i].cost - (ledger'.spent - ledger.spent))
    BY <2>1, <2>2, <2>6 DEF RunRows
  <2>8. at \in {"answered", "lost"}
    OBVIOUS
  <2> HIDE DEF at
  <2> QED
    BY <2>2, <2>3, <2>5, <2>7, <2>8, RunEnds
<1>7. ASSUME NEW i \in Articles, call_failed(i) \/ enrich_worker_dies(i) PROVE EnrichInv'
  <2>1. run_[i] \in RunRows /\ ledger \in [spent : Nat, holds : SUBSET KeptPieces] /\ owed \in Nat
    BY DEF EnrichInv
  <2>2. /\ held = i /\ held' = None /\ owed' = owed - run_[i].cost
        /\ run_' = [run_ EXCEPT ![i] = Over(run_[i], "lost")] /\ UNCHANGED <<ledger, jar>>
    BY <1>7 DEF call_failed, enrich_worker_dies, _record_skip, Unheard
  <2>3. status' \in [Articles -> {"queued", "running", "done", "failed", "skipped"}]
        /\ jar \in Articles \cup {None}
    BY <1>7 DEF call_failed, enrich_worker_dies, _record_skip, _finish, EnrichInv
  <2>4. owed' = owed - (run_[i].cost - (ledger'.spent - ledger.spent))
    BY <2>1, <2>2 DEF RunRows
  <2> QED
    BY <2>1, <2>2, <2>3, <2>4, RunEnds
<1>8. CASE UNCHANGED enrichVars
  BY <1>8 DEF enrichVars, EnrichInv, OnlyHeldRuns, SpendIsSeen, HeldCost, DayIsCapped,
              LoginIsKept
<1> QED
  <2>1. "none" \in build_enrich_client /\ TRUE \in BOOLEAN
    BY DEF build_enrich_client
  <2> QED
    BY <2>1, <1>1, <1>2, <1>3, <1>4, <1>5, <1>6, <1>7, <1>8 DEF EnrichNext

\* And it gives the properties.
LEMMA EnrichUse == EnrichInv => RunsAreAccountable
<1> SUFFICES ASSUME EnrichInv PROVE RunsAreAccountable
  OBVIOUS
<1>1. DayIsCapped
  BY EnrichAssumption DEF EnrichInv, DayIsCapped, Step
<1>2. \A piece \in ledger.holds :
          piece[1] # "mailbox" /\ piece[2] \notin {"password", "link", "article"}
  BY DEF EnrichInv, KeptPieces
<1>3. TranscriptIsSifted
  BY <1>2 DEF EnrichInv, MailInHand, TranscriptIsSifted
<1> QED
  BY <1>1, <1>3 DEF EnrichInv, RunsAreAccountable

\* Every run is accountable: its cost is booked or nobody was left to hear of it; the day
\* ends within one run of its cap, however many events a stopped agent still emits; the
\* transcripts hold nothing that the mailbox itself answered, no secret the run was handed
\* and none of a known shape (a token of no known shape, and the agent's own account of a
\* mail it has read, they may hold); and no login is lost.
THEOREM RunsHold == EnrichSpec => []RunsAreAccountable
<1> QED
  BY EnrichStart, EnrichStep, EnrichUse, PTL DEF EnrichSpec

(***************************************************************************)
(* ModelGateway                                                            *)
(***************************************************************************)

Thoughts == [LlmStage \ {"voice"} -> {"none", "unknown", "adaptive", "budget"}] \cup {<<>>}
JobsInHand == [stage : {"dedup", "script", None}, buffer : Seq(LlmStage), thinking : Thoughts,
               at : {"idle", "first", "again", "answered", "raised"}]

GatewayTypes ==
    /\ deploy \in Images
    /\ saving \in [Savers -> {None} \cup [stage : Tunable, change : Changes]]
    /\ gate_job \in JobsInHand
    /\ gate_job.at # "idle" => gate_job.stage \in {"dedup", "script"}
    /\ bill \in [LlmStage -> Nat] /\ usage \in [LlmStage -> Nat] /\ lapse \in [LlmStage -> Nat]

\* Completions of a stage that a job has recorded and not yet flushed
InBuffer(buffer, s) == Cardinality({i \in DOMAIN buffer : buffer[i] = s})

\* What a stage was billed is booked, let go of, or in the buffer of the job in hand.
EveryBillIsSomewhere ==
    /\ gate_job.at = "idle" => gate_job.buffer = <<>>
    /\ \A s \in LlmStage : bill[s] = usage[s] + lapse[s] + InBuffer(gate_job.buffer, s)

\* One admin at a time holds the table, with a candidate that resolves as a whole.
OneSaver == \A a, b \in Savers : saving[a] # None /\ saving[b] # None => a = b
CandidateResolves ==
    count.sound => \A a \in Savers : saving[a] # None =>
        validate_overrides(deploy, put(rows, saving[a].stage, saving[a].change))

\* What every state of the gateway satisfies.
GatewayInv ==
    /\ GatewayTypes /\ EveryBillIsSomewhere /\ OneSaver /\ CandidateResolves
    /\ SavedRowsResolve

\* Recording a completion adds one to its stage in the buffer, and to no other.
LEMMA BufferGrows ==
    ASSUME NEW buffer \in Seq(LlmStage), NEW s \in LlmStage, NEW t \in LlmStage
    PROVE  /\ InBuffer(buffer, s) \in Nat
           /\ Append(buffer, t) \in Seq(LlmStage)
           /\ InBuffer(Append(buffer, t), s) = InBuffer(buffer, s) + (IF s = t THEN 1 ELSE 0)
<1> DEFINE S == {i \in DOMAIN buffer : buffer[i] = s}
           T == {i \in DOMAIN Append(buffer, t) : Append(buffer, t)[i] = s}
<1>1. IsFiniteSet(1..Len(buffer)) /\ S \subseteq 1..Len(buffer)
  BY FS_Interval
<1>2. IsFiniteSet(S)
  BY <1>1, FS_Subset
<1>3. Cardinality(S) \in Nat
  BY <1>2, FS_CardinalityType
<1>4. T = S \cup (IF s = t THEN {Len(buffer) + 1} ELSE {})
  OBVIOUS
<1>5. Len(buffer) + 1 \notin S
  OBVIOUS
<1>6. Cardinality(S \cup {Len(buffer) + 1}) = Cardinality(S) + 1
  BY <1>2, <1>5, FS_AddElement
<1>7. InBuffer(buffer, s) = Cardinality(S) /\ InBuffer(Append(buffer, t), s) = Cardinality(T)
  BY DEF InBuffer
<1>8. Append(buffer, t) \in Seq(LlmStage)
  OBVIOUS
<1> HIDE DEF S, T
<1>9. CASE s = t
  BY <1>3, <1>4, <1>6, <1>7, <1>8, <1>9
<1>10. CASE s # t
  <2>1. T = S
    BY <1>4, <1>10
  <2> QED
    BY <1>3, <1>7, <1>8, <1>10, <2>1
<1> QED
  BY <1>9, <1>10

\* An empty buffer holds none.
LEMMA NothingBuffered == \A s : InBuffer(<<>>, s) = 0
<1> SUFFICES ASSUME NEW s PROVE InBuffer(<<>>, s) = 0
  OBVIOUS
<1>1. {i \in DOMAIN <<>> : <<>>[i] = s} = {}
  OBVIOUS
<1> QED
  BY <1>1, FS_EmptySet DEF InBuffer

\* The count of a buffer is a number.
LEMMA BufferCounts ==
    ASSUME NEW buffer \in Seq(LlmStage), NEW s \in LlmStage
    PROVE  InBuffer(buffer, s) \in Nat
BY BufferGrows

\* An image's own environment resolves, so no settings at all do.
LEMMA NoRowsResolve == \A d \in Images : validate_overrides(d, NoRows)
BY ImagesBoot DEF validate_overrides, validate_startup, NoRows

\* The gateway starts so.
LEMMA GatewayStart == GatewayInit => GatewayInv
<1> SUFFICES ASSUME GatewayInit PROVE GatewayInv
  OBVIOUS
<1> USE DEF GatewayInit
<1>1. NoLlmJob \in JobsInHand /\ NoLlmJob.at = "idle" /\ NoLlmJob.buffer = <<>>
  BY DEF NoLlmJob, JobsInHand, Thoughts
<1>2. GatewayTypes
  BY <1>1 DEF GatewayTypes
<1>3. EveryBillIsSomewhere
  BY <1>1, NothingBuffered DEF EveryBillIsSomewhere
<1>4. OneSaver /\ CandidateResolves /\ SavedRowsResolve
  BY NoRowsResolve DEF OneSaver, CandidateResolves, SavedRowsResolve
<1> QED
  BY <1>2, <1>3, <1>4 DEF GatewayInv

\* Saving and deploying touch no job and no bill.
LEMMA SavesKeep ==
    ASSUME GatewayInv,
           \/ \E a \in Savers : put_llm_config(a) \/ commit_save(a)
           \/ \E d \in Images : new_deploy(d)
    PROVE  GatewayInv'
<1> USE DEF GatewayInv
<1>1. UNCHANGED <<gate_job, bill, usage, lapse>>
  BY DEF put_llm_config, apply_update, commit_save, new_deploy
<1>2. EveryBillIsSomewhere'
  BY <1>1 DEF EveryBillIsSomewhere
<1>3. ASSUME NEW a \in Savers, put_llm_config(a) PROVE GatewayInv'
  <2>1. PICK s \in Tunable, ch \in Changes : apply_update(a, s, ch)
    BY <1>3 DEF put_llm_config
  <2>2. /\ \A b \in Savers : saving[b] = None
        /\ validate_overrides(deploy, put(rows, s, ch))
        /\ saving' = [saving EXCEPT ![a] = [stage |-> s, change |-> ch]]
        /\ UNCHANGED <<deploy, rows, count>>
    BY <1>3, <2>1 DEF apply_update, Locked, put_llm_config
  <2>3. GatewayTypes'
    BY <1>1, <2>2 DEF GatewayTypes
  <2>4. saving'[a] = [stage |-> s, change |-> ch] /\ \A b \in Savers \ {a} : saving'[b] = None
    BY <2>2 DEF GatewayTypes
  <2>5. OneSaver'
    BY <2>4 DEF OneSaver
  <2>6. CandidateResolves' /\ SavedRowsResolve'
    <3>1. saving'[a].stage = s /\ saving'[a].change = ch
      BY <2>4
    <3>2. \A b \in Savers : saving'[b] # None => b = a
      BY <2>4
    <3>3. validate_overrides(deploy', put(rows', saving'[a].stage, saving'[a].change))
      BY <2>2, <3>1
    <3> QED
      BY <2>2, <3>2, <3>3 DEF CandidateResolves, SavedRowsResolve
  <2> QED
    BY <1>2, <2>3, <2>5, <2>6
<1>4. ASSUME NEW a \in Savers, commit_save(a) PROVE GatewayInv'
  <2>1. /\ saving[a] # None /\ rows' = put(rows, saving[a].stage, saving[a].change)
        /\ saving' = [saving EXCEPT ![a] = None] /\ deploy' = deploy
        /\ count' = [count EXCEPT !.saves = @ + 1]
    BY <1>4 DEF commit_save
  <2>2. \A b \in Savers : saving'[b] = None
    BY <2>1 DEF GatewayTypes, OneSaver
  <2>3. count'.sound => count.sound
    BY <2>1
  <2>4. GatewayTypes'
    BY <1>1, <2>1 DEF GatewayTypes
  <2>5. OneSaver' /\ CandidateResolves'
    BY <2>2 DEF OneSaver, CandidateResolves
  <2>6. SavedRowsResolve'
    BY <2>1, <2>3 DEF CandidateResolves, SavedRowsResolve
  <2> QED
    BY <1>2, <2>4, <2>5, <2>6
<1>5. ASSUME NEW d \in Images, new_deploy(d) PROVE GatewayInv'
  <2>1. deploy' = d /\ saving' = [a \in Savers |-> None] /\ ~ count'.sound
    BY <1>5 DEF new_deploy
  <2>2. GatewayTypes'
    BY <1>1, <2>1 DEF GatewayTypes
  <2> QED
    BY <1>2, <2>1, <2>2 DEF OneSaver, CandidateResolves, SavedRowsResolve
<1> QED
  BY <1>3, <1>4, <1>5

\* A job reads a configuration all of whose stages its image accepts.
LEMMA JobBegins ==
    ASSUME GatewayInv, NEW stage \in {"dedup", "script"}, NEW readable \in BOOLEAN,
           begin_llm_job(stage, readable)
    PROVE  GatewayInv'
<1> USE DEF GatewayInv
<1> DEFINE settings == job_overrides(readable)
           conf == load_config(deploy, settings)
           thinking == [s \in LlmStage \ {"voice"} |-> build_request(deploy, s, conf[s])]
<1>1. SettingsResolve(deploy, settings)
  BY NoRowsResolve DEF job_overrides, validate_overrides, GatewayTypes
<1>2. \A s \in LlmStage \ {"voice"} :
          build_request(deploy, s, conf[s]) \in {"none", "unknown", "adaptive", "budget"}
  BY <1>1 DEF build_request, SettingsResolve
<1>3. thinking \in Thoughts
  BY <1>2 DEF Thoughts
<1>4. /\ gate_job' = [stage |-> stage, at |-> "first", buffer |-> <<>>, thinking |-> thinking]
      /\ gate_job.at = "idle" /\ UNCHANGED <<deploy, rows, saving, bill, usage, lapse, count>>
  BY DEF begin_llm_job
<1> HIDE DEF thinking
<1>5. gate_job' \in JobsInHand /\ gate_job'.buffer = <<>> /\ gate_job'.at = "first"
      /\ gate_job'.stage \in {"dedup", "script"}
  BY <1>3, <1>4 DEF JobsInHand
<1>6. GatewayTypes' /\ EveryBillIsSomewhere'
  BY <1>4, <1>5 DEF GatewayTypes, EveryBillIsSomewhere
<1> QED
  BY <1>4, <1>6 DEF OneSaver, CandidateResolves, SavedRowsResolve

\* A completion that is billed is recorded or let go of.
LEMMA CompletionBooked ==
    ASSUME GatewayInv, gate_job.at # "idle", NEW s \in LlmStage, NEW delivery \in Deliveries,
           NEW next \in {"answered", "raised", "again"}, complete(s, delivery, next)
    PROVE  GatewayInv'
<1> USE DEF GatewayInv
<1> DEFINE parsed == _parse(gate_job.thinking[s], delivery)
           billed == delivery # "nothing"
           rec == Recorded(s, parsed)
<1>1. rec => billed
  BY DEF Recorded, _parse
<1>2. /\ bill' = Bump(bill, s, billed) /\ lapse' = Bump(lapse, s, billed /\ ~ rec)
      /\ UNCHANGED <<deploy, rows, saving, usage, count>>
  BY DEF complete
<1>3. PICK at \in {"answered", "raised", "again"} :
          gate_job' = [(IF rec THEN _record(gate_job, s) ELSE gate_job) EXCEPT !.at = at]
  BY DEF complete
<1>4. gate_job \in JobsInHand /\ gate_job.buffer \in Seq(LlmStage)
  BY DEF GatewayTypes, JobsInHand
<1>5. Append(gate_job.buffer, s) \in Seq(LlmStage)
  BY <1>4
<1>6. /\ gate_job' \in JobsInHand /\ gate_job'.at # "idle" /\ gate_job'.stage = gate_job.stage
      /\ gate_job'.buffer = IF rec THEN Append(gate_job.buffer, s) ELSE gate_job.buffer
  BY <1>3, <1>4, <1>5 DEF JobsInHand, _record
<1>7. GatewayTypes'
  BY <1>2, <1>6 DEF GatewayTypes, Bump
<1>8. ASSUME NEW t \in LlmStage
      PROVE  bill'[t] = usage'[t] + lapse'[t] + InBuffer(gate_job'.buffer, t)
  <2>1. bill[t] = usage[t] + lapse[t] + InBuffer(gate_job.buffer, t)
        /\ bill[t] \in Nat /\ usage[t] \in Nat /\ lapse[t] \in Nat
    BY DEF EveryBillIsSomewhere, GatewayTypes
  <2>2. bill'[t] = bill[t] + (IF t = s /\ billed THEN 1 ELSE 0)
    BY <1>2 DEF Bump, GatewayTypes
  <2>3. lapse'[t] = lapse[t] + (IF t = s /\ billed /\ ~ rec THEN 1 ELSE 0)
    BY <1>2 DEF Bump, GatewayTypes
  <2>4. InBuffer(gate_job'.buffer, t)
            = InBuffer(gate_job.buffer, t) + (IF t = s /\ rec THEN 1 ELSE 0)
        /\ InBuffer(gate_job.buffer, t) \in Nat
    BY <1>4, <1>6, BufferGrows
  <2> QED
    BY <1>1, <1>2, <2>1, <2>2, <2>3, <2>4
<1>9. EveryBillIsSomewhere'
  BY <1>6, <1>8 DEF EveryBillIsSomewhere
<1> QED
  BY <1>2, <1>7, <1>9 DEF OneSaver, CandidateResolves, SavedRowsResolve

\* A job that is over hands its whole buffer on, to the ledger or to nobody.
LEMMA JobEnds ==
    ASSUME GatewayInv, gate_job' = NoLlmJob, NEW written \in BOOLEAN,
           usage' = Flushed(gate_job, written),
           lapse' = IF written THEN lapse
                    ELSE [s \in LlmStage |-> lapse[s] + Flushed(gate_job, TRUE)[s] - usage[s]],
           UNCHANGED <<deploy, rows, saving, bill, count>>
    PROVE  GatewayInv'
<1> USE DEF GatewayInv
<1> DEFINE n(s) == InBuffer(gate_job.buffer, s)
<1>1. gate_job \in JobsInHand /\ gate_job.buffer \in Seq(LlmStage)
  BY DEF GatewayTypes, JobsInHand
<1>2. \A s \in LlmStage : n(s) \in Nat
  BY <1>1, BufferCounts
<1>3. Flushed(gate_job, TRUE) = [s \in LlmStage |-> usage[s] + n(s)]
  BY DEF Flushed, InBuffer
<1>4. NoLlmJob \in JobsInHand /\ NoLlmJob.at = "idle" /\ NoLlmJob.buffer = <<>>
  BY DEF NoLlmJob, JobsInHand, Thoughts
<1>5. /\ usage \in [LlmStage -> Nat] /\ lapse \in [LlmStage -> Nat] /\ bill \in [LlmStage -> Nat]
      /\ \A s \in LlmStage : bill[s] = usage[s] + lapse[s] + n(s)
  BY DEF GatewayTypes, EveryBillIsSomewhere
<1> HIDE DEF n
<1>6. /\ usage' \in [LlmStage -> Nat] /\ lapse' \in [LlmStage -> Nat]
      /\ \A s \in LlmStage : /\ usage'[s] \in Nat /\ lapse'[s] \in Nat
                             /\ bill[s] = usage'[s] + lapse'[s]
  <2>1. CASE written
    <3>1. usage' = [s \in LlmStage |-> usage[s] + n(s)] /\ lapse' = lapse
      BY <1>3, <2>1
    <3>2. \A s \in LlmStage : usage[s] + n(s) \in Nat /\ lapse[s] \in Nat
                              /\ bill[s] = (usage[s] + n(s)) + lapse[s]
      BY <1>2, <1>5
    <3> QED
      BY <1>5, <3>1, <3>2
  <2>2. CASE ~ written
    <3>1. usage' = usage /\ lapse' = [s \in LlmStage |-> lapse[s] + (usage[s] + n(s)) - usage[s]]
      BY <1>3, <2>2 DEF Flushed
    <3>2. \A s \in LlmStage : /\ lapse[s] + (usage[s] + n(s)) - usage[s] \in Nat
                              /\ usage[s] \in Nat
                              /\ bill[s] = usage[s] + (lapse[s] + (usage[s] + n(s)) - usage[s])
      BY <1>2, <1>5
    <3> QED
      BY <1>5, <3>1, <3>2
  <2> QED
    BY <2>1, <2>2
<1>7. GatewayTypes'
  BY <1>4, <1>6 DEF GatewayTypes
<1>8. EveryBillIsSomewhere'
  <2>1. \A s \in LlmStage : bill'[s] = usage'[s] + lapse'[s] + InBuffer(gate_job'.buffer, s)
    <3>1. \A s \in LlmStage : InBuffer(gate_job'.buffer, s) = 0
      BY <1>4, NothingBuffered
    <3> SUFFICES ASSUME NEW s \in LlmStage
                 PROVE  bill'[s] = usage'[s] + lapse'[s] + InBuffer(gate_job'.buffer, s)
      OBVIOUS
    <3>2. bill'[s] = bill[s]
      OBVIOUS
    <3>3. /\ usage'[s] \in Nat /\ lapse'[s] \in Nat /\ bill[s] = usage'[s] + lapse'[s]
      BY <1>6
    <3> DEFINE x == usage'[s]
               y == lapse'[s]
    <3>4. InBuffer(gate_job'.buffer, s) = 0 /\ bill'[s] = x + y
      BY <3>1, <3>2, <3>3, Zenon
    <3>5. x \in Nat /\ y \in Nat
      BY <3>3, Zenon
    <3> HIDE DEF x, y
    <3>6. x + y = x + y + 0
      BY <3>5
    <3> QED
      BY <3>4, <3>6, Zenon DEF x, y
  <2> QED
    BY <1>4, <2>1 DEF EveryBillIsSomewhere
<1> QED
  BY <1>7, <1>8 DEF OneSaver, CandidateResolves, SavedRowsResolve

\* Every step of admins, deploys and jobs keeps it.
LEMMA GatewayStep == GatewayInv /\ [GatewayNext]_gatewayVars => GatewayInv'
<1> SUFFICES ASSUME GatewayInv, [GatewayNext]_gatewayVars PROVE GatewayInv'
  OBVIOUS
<1>1. ASSUME NEW delivery \in Deliveries, first_call(delivery) \/ second_look(delivery)
      PROVE  GatewayInv'
  <2>1. gate_job.at # "idle" /\ gate_job \in JobsInHand
    BY <1>1 DEF first_call, second_look, GatewayInv, GatewayTypes
  <2>2. CASE first_call(delivery)
    <3>1. PICK next \in {"answered", "raised", "again"} : complete(gate_job.stage, delivery, next)
      BY <2>2 DEF first_call
    <3>2. gate_job.stage \in LlmStage
      BY <2>1 DEF GatewayInv, GatewayTypes, LlmStage
    <3> QED
      BY <2>1, <3>1, <3>2, CompletionBooked
  <2>3. CASE second_look(delivery)
    BY <2>1, <2>3, CompletionBooked DEF second_look, LlmStage
  <2> QED
    BY <1>1, <2>2, <2>3
<1>2. ASSUME NEW written \in BOOLEAN, _flush(written) PROVE GatewayInv'
  BY <1>2, JobEnds DEF _flush
<1>3. CASE llm_worker_dies
  <2>1. Flushed(gate_job, FALSE) = usage
    BY DEF Flushed
  <2> QED
    BY <1>3, <2>1, JobEnds DEF llm_worker_dies
<1>4. CASE UNCHANGED gatewayVars
  BY <1>4 DEF gatewayVars, GatewayInv, GatewayTypes, EveryBillIsSomewhere, OneSaver,
              CandidateResolves, SavedRowsResolve
<1> QED
  BY <1>1, <1>2, <1>3, <1>4, SavesKeep, JobBegins DEF GatewayNext

\* And it gives the three promises.
LEMMA GatewayUse == GatewayInv => GatewayIsSound
<1> SUFFICES ASSUME GatewayInv PROVE GatewayIsSound
  OBVIOUS
<1> USE DEF GatewayInv
<1>1. JobsCanRun
  <2>1. gate_job.thinking \in Thoughts
    BY DEF GatewayTypes, JobsInHand
  <2>2. CASE gate_job.thinking = <<>>
    BY <2>2 DEF JobsCanRun
  <2>3. CASE gate_job.thinking \in [LlmStage \ {"voice"} -> {"none", "unknown", "adaptive", "budget"}]
    BY <2>3 DEF JobsCanRun
  <2> QED
    BY <2>1, <2>2, <2>3 DEF Thoughts
<1>2. BilledIsBooked
  <2> SUFFICES ASSUME gate_job.at = "idle", NEW q \in DOMAIN QUEUE_STAGES
               PROVE  _fold(q) = SumOf(bill, q) - SumOf(lapse, q)
    BY DEF BilledIsBooked
  <2>1. \A s \in LlmStage : /\ bill[s] = usage[s] + lapse[s]
                            /\ bill[s] \in Nat /\ usage[s] \in Nat /\ lapse[s] \in Nat
    BY NothingBuffered DEF EveryBillIsSomewhere, GatewayTypes
  <2>2. {"dedup", "dedup_confirm", "script", "voice"} = LlmStage
    BY DEF LlmStage
  <2> QED
    BY <2>1, <2>2 DEF _fold, totals, SumOf
<1> QED
  BY <1>1, <1>2 DEF GatewayIsSound

\* The gateway keeps its promises: saved rows resolve, jobs can run, bills are booked.
THEOREM GatewayHolds == GatewaySpec => []GatewayIsSound
<1> QED
  BY GatewayStart, GatewayStep, GatewayUse, PTL DEF GatewaySpec

(***************************************************************************)
(* Types                                                                   *)
(***************************************************************************)

\* What bounds the counts of a request's scene: a pass takes a job only below its
\* bound, and the submissions of an address, and what a rollback puts back, saturate.
RequestBounds ==
    /\ \A x \in Execs : /\ exec[x].n <= MaxJobs
                        /\ exec[x].job # None => exec[x].n < MaxJobs
    /\ \A a \in Addresses : listed[a].n <= MaxSubmissions /\ listed[a].was <= MaxSubmissions
    /\ starts \in 0..MaxStarts

\* The counts are bounded at the start and stay so, and then everything has its type.
LEMMA RequestBounded ==
    /\ RequestInit => RequestBounds
    /\ RequestInv /\ RequestBounds /\ [RequestNext]_requestVars => RequestBounds'
    /\ RequestInv /\ RequestBounds => RequestTypeOK
<1> USE RequestAssumption
<1>1. RequestInit => RequestBounds
  BY DEF RequestInit, RequestBounds, IdleExec
<1>2. RequestInv /\ RequestBounds => RequestTypeOK
  BY DEF RequestInv, RequestTypes, RequestBounds, RequestTypeOK, RequestRows, JobRows, WorkerRows
<1>3. ASSUME RequestInv, RequestBounds, [RequestNext]_requestVars PROVE RequestBounds'
  <2>1. /\ exec \in [Execs -> WorkerRows]
        /\ listed \in [Addresses -> [n : Nat, by : Reqs \cup {None}, was : Nat]]
    BY <1>3 DEF RequestInv, RequestTypes
  <2>2. RequestBounds
    BY <1>3
  <2>3. IdleExec.n = 0 /\ IdleExec.job = None /\ 0 \in Nat /\ 0 < MaxJobs
    BY DEF IdleExec
  \* What a process became is bounded as it was: it is another one, or begins again
  <2> DEFINE Holds_few(x) == /\ exec'[x].n <= MaxJobs
                             /\ exec'[x].job # None => exec'[x].n < MaxJobs
  <2>4. ASSUME UNCHANGED <<exec, starts>>,
               \A a \in Addresses :
                   listed'[a].n <= MaxSubmissions /\ listed'[a].was <= MaxSubmissions
        PROVE  RequestBounds'
    BY <2>2, <2>4 DEF RequestBounds
  <2>5. ASSUME NEW x \in Execs, \A y \in Execs \ {x} : exec'[y] = exec[y], Holds_few(x),
               listed' = listed, starts' \in 0..MaxStarts
        PROVE  RequestBounds'
    BY <2>2, <2>5 DEF RequestBounds
  <2> HIDE DEF Holds_few
  <2>6. ASSUME NEW r \in Reqs, NEW q, arm(r, q) PROVE RequestBounds'
    BY <2>2, <2>4, <2>6 DEF arm, RequestBounds
  <2>7. ASSUME NEW r \in Reqs,
               \/ paste_source(r) \/ integrate_source_items(r)
               \/ create_episode(r) \/ create_smart_episode(r) \/ ask_for_poll(r)
        PROVE  RequestBounds'
    BY <2>6, <2>7 DEF paste_source, integrate_source_items, create_episode,
                      create_smart_episode, ask_for_poll
  <2>8. ASSUME NEW r \in Reqs, NothingToQueue(r) \/ fire_alert(r) PROVE RequestBounds'
    BY <2>2, <2>4, <2>8 DEF NothingToQueue, fire_alert, RequestBounds
  <2>9. ASSUME NEW r \in Reqs, join_waitlist(r) PROVE RequestBounds'
    <3>1. UNCHANGED <<exec, starts>>
      BY <2>9 DEF join_waitlist
    <3>2. CASE listed' = listed
      BY <2>2, <2>4, <3>1, <3>2 DEF RequestBounds
    <3>3. ASSUME NEW a \in Addresses, join(r, a) PROVE RequestBounds'
      <4>1. /\ \A b \in Addresses \ {a} : listed'[b] = listed[b]
            /\ listed'[a].was = listed[a].n
            /\ listed'[a].n = IF listed[a].n < MaxSubmissions THEN listed[a].n + 1 ELSE listed[a].n
        BY <2>1, <3>3 DEF join
      <4>2. listed[a].n \in Nat /\ listed[a].n <= MaxSubmissions
        BY <2>1, <2>2 DEF RequestBounds
      <4>3. \A b \in Addresses : listed'[b].n <= MaxSubmissions /\ listed'[b].was <= MaxSubmissions
        BY <2>2, <4>1, <4>2 DEF RequestBounds
      <4> QED
        BY <2>4, <3>1, <4>3
    <3> QED
      BY <2>9, <3>2, <3>3 DEF join_waitlist
  <2>10. ASSUME NEW r \in Reqs, commit(r) \/ rollback(r) PROVE RequestBounds'
    <3>1. UNCHANGED <<exec, starts>> /\ (Settle_row(r, TRUE) \/ Settle_row(r, FALSE))
      BY <2>10 DEF commit, rollback
    <3>2. ASSUME NEW a \in Addresses
          PROVE  listed'[a].n <= MaxSubmissions /\ listed'[a].was <= MaxSubmissions
      <4>1. /\ listed[a] \in [n : Nat, by : Reqs \cup {None}, was : Nat]
            /\ listed[a].n <= MaxSubmissions /\ listed[a].was <= MaxSubmissions
        BY <2>1, <2>2 DEF RequestBounds
      <4>2. \/ listed'[a] = listed[a]
            \/ listed'[a] = [listed[a] EXCEPT !.by = None, !.was = 0, !.n = @]
            \/ listed'[a] = [listed[a] EXCEPT !.by = None, !.was = 0, !.n = listed[a].was]
        BY <3>1 DEF Settle_row
      <4>3. listed'[a].n \in {listed[a].n, listed[a].was} /\ listed'[a].was \in {0, listed[a].was}
        BY <4>1, <4>2
      <4> QED
        BY <4>1, <4>3
    <3> QED
      BY <2>4, <3>1, <3>2
  <2>11. ASSUME NEW x \in Execs, NEW kind, exec' = Started(x, kind), listed' = listed,
                starts' \in 0..MaxStarts
         PROVE  RequestBounds'
    <3>1. exec'[x].n = 0 /\ exec'[x].job = None /\ \A y \in Execs \ {x} : exec'[y] = exec[y]
      BY <2>1, <2>11 DEF Started, IdleExec
    <3> QED
      BY <2>3, <2>5, <2>11, <3>1 DEF Holds_few
  <2>12. ASSUME NEW r \in Reqs, fire_nudge(r) PROVE RequestBounds'
    <3>1. listed' = listed /\ starts' = starts /\ starts \in 0..MaxStarts
      BY <2>2, <2>12 DEF fire_nudge, RequestBounds
    <3>2. exec' = exec \/ \E x \in Execs : exec' = Started(x, "once")
      BY <2>12 DEF fire_nudge
    <3> QED
      BY <2>2, <2>4, <2>11, <3>1, <3>2 DEF RequestBounds
  <2>13. ASSUME NEW x \in Execs, NEW kind, start_worker(x, kind) PROVE RequestBounds'
    <3>1. exec' = Started(x, kind) /\ listed' = listed /\ starts' = starts + 1 /\ starts < MaxStarts
      BY <2>13 DEF start_worker
    <3>2. starts' \in 0..MaxStarts
      BY <2>2, <3>1 DEF RequestBounds
    <3> QED
      BY <2>11, <3>1, <3>2
  <2>14. ASSUME NEW x \in Execs,
                \/ drain_claim(x) \/ run_lands(x) \/ run_fails(x) \/ drain_returns(x)
                \/ next_pass(x) \/ sigterm(x) \/ stop_asleep(x) \/ Killed(x)
         PROVE  RequestBounds'
    <3>1. listed' = listed /\ starts' \in 0..MaxStarts
      BY <2>2, <2>14 DEF drain_claim, run_lands, run_fails, drain_returns, next_pass,
                         sigterm, stop_asleep, Killed, RequestBounds
    <3>2. exec[x].n \in Nat /\ exec[x].n <= MaxJobs /\ (exec[x].job # None => exec[x].n < MaxJobs)
      BY <2>1, <2>2 DEF RequestBounds, WorkerRows
    <3>3. CASE drain_claim(x)
      <4>1. /\ \A y \in Execs \ {x} : exec'[y] = exec[y]
            /\ exec'[x].n = exec[x].n /\ exec[x].n < MaxJobs
        <5>1. exec' = exec \/ \E r \in Reqs : exec' = [exec EXCEPT ![x].job = r]
          BY <3>3 DEF drain_claim, ReadyAt
        <5>2. exec[x].n < MaxJobs
          BY <3>3 DEF drain_claim
        <5> QED
          BY <2>1, <5>1, <5>2 DEF WorkerRows
      <4> QED
        BY <2>5, <3>1, <3>2, <4>1 DEF Holds_few
    <3>4. CASE run_lands(x) \/ run_fails(x)
      <4>1. exec' = [exec EXCEPT ![x].job = None, ![x].n = @ + 1] /\ exec[x].n < MaxJobs
        BY <3>2, <3>4 DEF run_lands, run_fails
      <4>2. /\ \A y \in Execs \ {x} : exec'[y] = exec[y]
            /\ exec'[x].n = exec[x].n + 1 /\ exec'[x].job = None
        BY <2>1, <4>1 DEF WorkerRows
      <4>3. Holds_few(x)
        BY <3>2, <4>1, <4>2 DEF Holds_few
      <4> QED
        BY <2>5, <3>1, <4>2, <4>3
    <3>5. CASE drain_returns(x)
      <4>1. /\ \A y \in Execs \ {x} : exec'[y] = exec[y]
            /\ exec'[x].n = 0 /\ exec'[x].job = None
        BY <2>1, <2>3, <3>5 DEF drain_returns, WorkerRows
      <4> QED
        BY <2>3, <2>5, <3>1, <4>1 DEF Holds_few
    <3>6. CASE next_pass(x) \/ sigterm(x)
      <4>1. /\ \A y \in Execs \ {x} : exec'[y] = exec[y]
            /\ exec'[x].n = exec[x].n /\ exec'[x].job = exec[x].job
        BY <2>1, <3>6 DEF next_pass, sigterm, WorkerRows
      <4> QED
        BY <2>5, <3>1, <3>2, <4>1 DEF Holds_few
    <3>7. CASE stop_asleep(x) \/ Killed(x)
      <4>1. exec' = [exec EXCEPT ![x] = IdleExec]
        BY <3>7 DEF stop_asleep, Killed
      <4> QED
        BY <2>1, <2>3, <2>5, <3>1, <4>1 DEF Holds_few
    <3> QED
      BY <2>14, <3>3, <3>4, <3>5, <3>6, <3>7
  <2>15. CASE UNCHANGED requestVars
    BY <2>2, <2>15 DEF requestVars, RequestBounds
  <2> QED
    BY <1>3, <2>7, <2>8, <2>9, <2>10, <2>12, <2>13, <2>14, <2>15 DEF RequestNext
<1> QED
  BY <1>1, <1>2, <1>3

\* A row is numbered only where there is room for it.
LEMMA HarnessBounded ==
    /\ HarnessInit => numbered <= MaxRows
    /\ HarnessInv /\ numbered <= MaxRows /\ [HarnessNext]_harnessVars => numbered' <= MaxRows
    /\ HarnessInv /\ numbered <= MaxRows => HarnessTypeOK
<1> USE HarnessAssumption
<1>1. HarnessInit => numbered <= MaxRows
  BY DEF HarnessInit
<1>2. HarnessInv /\ numbered <= MaxRows => HarnessTypeOK
  <2> SUFFICES ASSUME HarnessInv, numbered <= MaxRows PROVE HarnessTypeOK
    OBVIOUS
  <2>1. numbered \in 0..MaxRows /\ Rows \subseteq 0..numbered
    BY DEF HarnessInv, RowsSound
  <2>2. \A n \in Rows : tables[n].table \in Tables
    BY DEF HarnessInv, RowsSound, Placed, RowSet
  <2>3. \A s \in Seeds : seeding[s].at \in {"idle", "locked", "found", "done", "failed"}
    BY DEF HarnessInv, SeedSound
  <2>4. handler.at \in {"idle", "read", "wrote", "marked"} /\ reset.doomed \subseteq Rows
    BY DEF HarnessInv, HandlerSound, ResetSound
  <2>5. Rows \subseteq 0..MaxRows
    BY <2>1
  <2> QED
    BY <2>1, <2>2, <2>3, <2>4, <2>5 DEF HarnessTypeOK
<1>3. ASSUME numbered <= MaxRows, [HarnessNext]_harnessVars PROVE numbered' <= MaxRows
  <2>1. ASSUME NEW new, Commit(new) PROVE numbered' <= MaxRows
    BY <2>1 DEF Commit, Room
  <2>2. CASE boot \/ handler_begins \/ handler_writes \/ handler_marks \/ reset_begins
             \/ statement_begins \/ statement_ends \/ reset_commits \/ deadlock_broken
    BY <1>3, <2>2 DEF boot, handler_begins, handler_writes, handler_marks, reset_begins,
                      statement_begins, statement_ends, reset_commits, deadlock_broken
  <2>3. CASE trigger_poll \/ trigger_episode \/ ask_integrate
    BY <2>1, <2>3, Zenon DEF trigger_poll, trigger_episode, ask_integrate
  <2>4. CASE handler_commits_h
    BY <2>4 DEF handler_commits_h, Room
  <2>5. ASSUME NEW s \in Seeds, seed_begins(s) \/ find_gmail_source(s) PROVE numbered' <= MaxRows
    BY <1>3, <2>5 DEF seed_begins, find_gmail_source
  <2>6. ASSUME NEW s \in Seeds, seed_gmail_source(s) PROVE numbered' <= MaxRows
    <3>1. numbered' = numbered \/ \E new : Commit(new)
      BY <2>6, Zenon DEF seed_gmail_source
    <3> QED
      BY <1>3, <2>1, <3>1
  <2>7. CASE UNCHANGED harnessVars
    BY <1>3, <2>7 DEF harnessVars
  <2> QED
    BY <1>3, <2>2, <2>3, <2>4, <2>5, <2>6, <2>7 DEF HarnessNext
<1> QED
  BY <1>1, <1>2, <1>3

\* What the runs' invariant says of their types
LEMMA EnrichTyped == EnrichInv => EnrichTypeOK
<1> SUFFICES ASSUME EnrichInv PROVE EnrichTypeOK
  OBVIOUS
<1>1. run_ \in [Articles -> RunRows]
  BY DEF EnrichInv
<1> QED
  BY <1>1 DEF EnrichInv, EnrichTypeOK, RunRows

\* The saved rows are of the catalogue's kind, and the vendor bills no more
\* completions than are made.
GatewayBounds ==
    /\ rows \in [LlmStage -> [model : Slugs \cup {None}, effort : Efforts \cup {None}]]
    /\ CallsMade(bill) <= MaxCalls

\* So it starts and stays, and then everything has its type.
LEMMA GatewayBounded ==
    /\ GatewayInit => GatewayBounds
    /\ GatewayInv /\ GatewayBounds /\ [GatewayNext]_gatewayVars => GatewayBounds'
    /\ GatewayInv /\ GatewayBounds => GatewayTypeOK
<1> USE GatewayAssumption
<1>1. ASSUME GatewayInit PROVE GatewayBounds
  <2>1. CallsMade(bill) = 0
    BY <1>1 DEF GatewayInit, CallsMade, LlmStage
  <2>2. rows \in [LlmStage -> [model : Slugs \cup {None}, effort : Efforts \cup {None}]]
    BY <1>1 DEF GatewayInit, NoRows
  <2> QED
    BY <2>1, <2>2 DEF GatewayBounds
<1>2. ASSUME GatewayInv, GatewayBounds PROVE GatewayTypeOK
  <2>1. /\ deploy \in Images /\ bill \in [LlmStage -> Nat] /\ usage \in [LlmStage -> Nat]
        /\ lapse \in [LlmStage -> Nat] /\ gate_job \in JobsInHand
    BY <1>2 DEF GatewayInv, GatewayTypes
  <2>2. validate_startup(deploy)
    BY <2>1, ImagesBoot
  <2>3. ASSUME NEW s \in LlmStage PROVE bill[s] \in 0..MaxCalls /\ usage[s] \in 0..MaxCalls
    <3>1. /\ bill["dedup"] \in Nat /\ bill["dedup_confirm"] \in Nat
          /\ bill["script"] \in Nat /\ bill["voice"] \in Nat
          /\ bill["dedup"] + bill["dedup_confirm"] + bill["script"] + bill["voice"] <= MaxCalls
      BY <1>2, <2>1 DEF GatewayBounds, CallsMade, LlmStage
    <3>2. s \in {"dedup", "dedup_confirm", "script", "voice"}
      BY DEF LlmStage
    <3>3. bill[s] <= MaxCalls /\ bill[s] \in Nat
      BY <3>1, <3>2
    <3>4. gate_job.buffer \in Seq(LlmStage)
      BY <2>1 DEF JobsInHand
    <3>5. InBuffer(gate_job.buffer, s) \in Nat
      BY <3>4, BufferCounts
    <3>6. bill[s] = usage[s] + lapse[s] + InBuffer(gate_job.buffer, s)
      BY <1>2 DEF GatewayInv, EveryBillIsSomewhere
    <3>7. usage[s] \in Nat /\ lapse[s] \in Nat
      BY <2>1
    <3> QED
      BY <3>3, <3>5, <3>6, <3>7
  <2>4. gate_job.at \in {"idle", "first", "again", "answered", "raised"}
    BY <2>1 DEF JobsInHand
  <2> QED
    BY <1>2, <2>2, <2>3, <2>4 DEF GatewayTypeOK, GatewayBounds
<1>3. ASSUME GatewayInv, GatewayBounds, [GatewayNext]_gatewayVars PROVE GatewayBounds'
  <2>1. /\ rows \in [LlmStage -> [model : Slugs \cup {None}, effort : Efforts \cup {None}]]
        /\ CallsMade(bill) <= MaxCalls
        /\ saving \in [Savers -> {None} \cup [stage : Tunable, change : Changes]]
        /\ bill \in [LlmStage -> Nat]
        /\ gate_job \in JobsInHand /\ (gate_job.at # "idle" => gate_job.stage \in {"dedup", "script"})
    BY <1>3 DEF GatewayInv, GatewayTypes, GatewayBounds
  <2>2. ASSUME rows' = rows, bill' = bill PROVE GatewayBounds'
    BY <2>1, <2>2 DEF GatewayBounds, CallsMade
  <2>3. ASSUME NEW a \in Savers, commit_save(a) PROVE GatewayBounds'
    <3>1. /\ saving[a] \in [stage : Tunable, change : Changes] /\ bill' = bill
          /\ rows' = put(rows, saving[a].stage, saving[a].change)
      BY <2>1, <2>3 DEF commit_save
    <3>2. PICK s \in LlmStage, ch \in Changes : rows' = put(rows, s, ch)
      BY <3>1 DEF LlmStage
    <3>3. ch.model \in Slugs \cup {"keep", "clear"} /\ ch.effort \in Efforts \cup {"keep", "clear"}
      BY DEF Changes
    <3>4. /\ Put(rows[s].model, ch.model) \in Slugs \cup {None}
          /\ Put(rows[s].effort, ch.effort) \in Efforts \cup {None}
      BY <2>1, <3>3 DEF Put
    <3>5. rows' = [rows EXCEPT ![s] = [model |-> Put(rows[s].model, ch.model),
                                       effort |-> Put(rows[s].effort, ch.effort)]]
      <4>1. rows[s] = [model |-> rows[s].model, effort |-> rows[s].effort]
        BY <2>1
      <4>2. put(rows, s, ch)[s] = [model |-> Put(rows[s].model, ch.model),
                                   effort |-> Put(rows[s].effort, ch.effort)]
        BY <2>1, <4>1 DEF put
      <4>3. /\ put(rows, s, ch) = [t \in LlmStage |-> put(rows, s, ch)[t]]
            /\ \A t \in LlmStage \ {s} : put(rows, s, ch)[t] = rows[t]
        BY <2>1 DEF put
      <4> HIDE DEF LlmStage
      <4> QED
        BY <2>1, <3>2, <4>2, <4>3
    <3>6. rows' \in [LlmStage -> [model : Slugs \cup {None}, effort : Efforts \cup {None}]]
      BY <2>1, <3>4, <3>5
    <3> QED
      BY <2>1, <3>1, <3>6 DEF GatewayBounds, CallsMade
  <2>4. ASSUME NEW s \in LlmStage, NEW delivery, NEW next, complete(s, delivery, next)
        PROVE  GatewayBounds'
    <3>1. CallsMade(bill) < MaxCalls /\ rows' = rows /\ bill' = Bump(bill, s, delivery # "nothing")
      BY <2>4 DEF complete
    <3>2. CallsMade(bill') <= CallsMade(bill) + 1 /\ CallsMade(bill) \in Nat
      <4>1. bill' = bill \/ bill' = [bill EXCEPT ![s] = @ + 1]
        BY <3>1 DEF Bump
      <4>2. /\ bill["dedup"] \in Nat /\ bill["dedup_confirm"] \in Nat
            /\ bill["script"] \in Nat /\ bill["voice"] \in Nat
            /\ s \in {"dedup", "dedup_confirm", "script", "voice"}
            /\ \A t \in LlmStage : bill'[t] = bill[t] \/ (t = s /\ bill'[t] = bill[t] + 1)
        BY <2>1, <4>1 DEF LlmStage
      <4> QED
        BY <4>2 DEF CallsMade, LlmStage
    <3>3. CallsMade(bill)' = CallsMade(bill')
      BY DEF CallsMade
    <3>4. CallsMade(bill)' <= MaxCalls
      <4>1. CallsMade(bill') \in Nat
        <5>1. bill' = bill \/ bill' = [bill EXCEPT ![s] = @ + 1]
          BY <3>1 DEF Bump
        <5>2. bill' \in [LlmStage -> Nat]
          BY <2>1, <5>1
        <5> QED
          BY <5>2 DEF CallsMade, LlmStage
      <4> QED
        BY <3>1, <3>2, <3>3, <4>1
    <3> QED
      BY <2>1, <3>1, <3>4 DEF GatewayBounds
  <2>5. ASSUME NEW delivery \in Deliveries, first_call(delivery) \/ second_look(delivery)
        PROVE  GatewayBounds'
    <3>1. gate_job.at = "first" => gate_job.stage \in LlmStage
      BY <2>1 DEF LlmStage
    <3>2. "dedup_confirm" \in LlmStage
      BY DEF LlmStage
    <3>3. \E s \in LlmStage : \E next : complete(s, delivery, next)
      BY <2>5, <3>1, <3>2, Zenon DEF first_call, second_look
    <3> QED
      BY <2>4, <3>3
  <2>6. ASSUME NEW a \in Savers, put_llm_config(a) PROVE GatewayBounds'
    BY <2>2, <2>6 DEF put_llm_config, apply_update
  <2>7. ASSUME NEW d \in Images, new_deploy(d) PROVE GatewayBounds'
    BY <2>2, <2>7 DEF new_deploy
  <2>8. ASSUME NEW stage, NEW readable, begin_llm_job(stage, readable) PROVE GatewayBounds'
    BY <2>2, <2>8 DEF begin_llm_job
  <2>9. ASSUME NEW written, _flush(written) PROVE GatewayBounds'
    BY <2>2, <2>9 DEF _flush
  <2>10. CASE llm_worker_dies \/ UNCHANGED gatewayVars
    BY <2>2, <2>10 DEF llm_worker_dies, gatewayVars
  <2> QED
    BY <1>3, <2>3, <2>5, <2>6, <2>7, <2>8, <2>9, <2>10 DEF GatewayNext
<1> QED
  BY <1>1, <1>2, <1>3

=============================================================================

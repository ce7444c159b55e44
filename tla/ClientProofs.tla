---------------------------- MODULE ClientProofs ----------------------------
(***************************************************************************)
(* Proofs about what a client is shown, served and read aloud, how a       *)
(* listener is heard and what a newsletter's reader is given: Panels,      *)
(* BuildPanel, Hearing, Voice, Backlog, Listening, Serving and Extract.    *)
(* For any number of messages, polls and job rows, pages of any length,    *)
(* any samples and any clock; any frames, thresholds and transcripts; any  *)
(* narration and any reconnects; any stories, episodes and reports; any    *)
(* body, segment and text; any markup.  A message that has a row is on the *)
(* surface its rows and its item say; a walk has shown what it owes down   *)
(* to where it is; while an episode builds, the row of its own stage is    *)
(* open, and that is the row a panel is drawn from.  A noise floor that is *)
(* followed for long enough is reached; the gate to the vendor opens only  *)
(* behind a position.  A story lands unread unless a twin explains it, and *)
(* is read for a reason its listener gave; what is served is what was      *)
(* asked for.  A rule chooses the best of the stories it is about; and     *)
(* everything keeps its type.                                              *)
(***************************************************************************)
EXTENDS Panels, BuildPanel, Hearing, Voice, Backlog, Listening, Serving, Extract,
        FiniteSetTheorems, SequenceTheorems, WellFoundedInduction, TLAPS

\* A set of numbers that has any has a lowest.
LEMMA LowestExists ==
    ASSUME NEW S, S \subseteq Nat, S # {}
    PROVE  \E m \in S : \A y \in S : m <= y
<1>1. PICK m \in S : \A y \in S : ~ (<<y, m>> \in OpToRel(<, Nat))
  BY WFMin, NatLessThanWellFounded
<1>2. \A y \in S : ~ (y < m)
  <2> TAKE y \in S
  <2>1. <<y, m>> \in Nat \X Nat
    OBVIOUS
  <2> QED
    BY <1>1, <2>1 DEF OpToRel
<1>3. \A y \in S : y \in Nat /\ m \in Nat
  OBVIOUS
<1> QED
  BY <1>2, <1>3

(***************************************************************************)
(* Panels                                                                  *)
(***************************************************************************)

\* A bounded set of numbers that has any has a highest.
LEMMA HighestExists ==
    ASSUME NEW b \in Nat, NEW S, S \subseteq 1..b, S # {}
    PROVE  \E m \in S : \A y \in S : y <= m
<1> DEFINE T == {b - y : y \in S}
<1>0. \A y \in S : b - y \in Nat
  OBVIOUS
<1>1. T \subseteq Nat /\ T # {}
  BY <1>0
<1> HIDE DEF T
<1>2. PICK t \in T : \A y \in T : t <= y
  BY <1>1, LowestExists
<1>3. PICK m \in S : t = b - m
  BY DEF T
<1>4. \A y \in S : b - m <= b - y
  BY <1>2, <1>3 DEF T
<1>5. \A y \in S : y \in Nat /\ m \in Nat
  OBVIOUS
<1> QED
  BY <1>4, <1>5

\* The lowest of a set is of it and none is lower.
LEMMA MinIsLowest ==
    ASSUME NEW S, S \subseteq Nat, S # {}
    PROVE  Min(S) \in S /\ \A y \in S : Min(S) <= y
  BY LowestExists DEF Min

\* The highest of a bounded set is of it and none is higher.
LEMMA MaxIsHighest ==
    ASSUME NEW b \in Nat, NEW S, S \subseteq 1..b, S # {}
    PROVE  Max(S) \in S /\ \A y \in S : Max(S) >= y
<1>1. PICK m \in S : \A y \in S : y <= m
  BY HighestExists
<1>2. \A y \in S : m >= y
  BY <1>1
<1> QED
  BY <1>2 DEF Max

\* The newest of a set are of it; if there are any, so is the newest; and what is left
\* out is older.
LEMMA NewestAreNewer ==
    ASSUME NEW b \in Nat, NEW S, S \subseteq 1..b, NEW n \in Nat \ {0}
    PROVE  /\ Newest(S, n) \subseteq S
           /\ S # {} => Newest(S, n) # {}
           /\ \A j \in S \ Newest(S, n) : \A p \in Newest(S, n) : j < p
<1> DEFINE over(j) == {k \in S : k > j}
<1>0. IsFiniteSet(1..b)
  BY FS_Interval
<1>1. IsFiniteSet(S)
  BY <1>0, FS_Subset
<1>2. \A j : IsFiniteSet(over(j)) /\ Cardinality(over(j)) \in Nat
  BY <1>1, FS_Subset, FS_CardinalityType
<1>3. Newest(S, n) = {j \in S : Cardinality(over(j)) < n}
  BY DEF Newest
<1>4. ASSUME S # {} PROVE Newest(S, n) # {}
  <2>1. PICK m \in S : \A y \in S : y <= m
    BY <1>4, HighestExists
  <2>2. \A y \in S : y \in Nat
    OBVIOUS
  <2>3. over(m) = {}
    <3> SUFFICES ASSUME NEW k \in S, k > m PROVE FALSE
      OBVIOUS
    <3>1. k <= m /\ k \in Nat /\ m \in Nat
      BY <2>1, <2>2
    <3> QED
      BY <3>1
  <2>4. Cardinality(over(m)) = 0
    BY <2>3, FS_EmptySet
  <2>5. Cardinality(over(m)) < n
    BY <2>4
  <2> QED
    BY <1>3, <2>5
<1>5. ASSUME NEW j \in S \ Newest(S, n), NEW p \in Newest(S, n) PROVE j < p
  <2>0. p \in S /\ \A k \in S : k \in Nat
    BY <1>3
  <2> SUFFICES ASSUME p <= j PROVE FALSE
    BY <2>0
  <2>1. over(j) \subseteq over(p)
    <3> SUFFICES ASSUME NEW k \in S, k > j PROVE k > p
      OBVIOUS
    <3>1. k \in Nat /\ j \in Nat /\ p \in Nat
      BY <2>0
    <3> QED
      BY <3>1
  <2>2. Cardinality(over(j)) <= Cardinality(over(p))
    BY <1>2, <2>1, FS_Subset
  <2>3. Cardinality(over(p)) < n /\ ~ (Cardinality(over(j)) < n)
    BY <1>3
  <2>4. Cardinality(over(j)) \in Nat /\ Cardinality(over(p)) \in Nat
    BY <1>2
  <2> HIDE DEF over
  <2> QED
    BY <2>2, <2>3, <2>4
<1> QED
  BY <1>3, <1>4, <1>5

\* A request asks for one row more than it shows: when it gets that row, the page ends
\* above what is left; when it does not, the page is all there is.
LEMMA PageAndOne ==
    ASSUME NEW b \in Nat, NEW S, S \subseteq 1..b, NEW n \in Nat \ {0}
    PROVE  LET found == Newest(S, n + 1)
               page  == Newest(found, n)
           IN  /\ page \subseteq S
               /\ Cardinality(found) > n =>
                      /\ Min(page) \in page /\ \A p \in page : Min(page) <= p
                      /\ \A j \in S : j >= Min(page) => j \in page
               /\ ~ (Cardinality(found) > n) => page = S
<1> DEFINE found == Newest(S, n + 1)
           page  == Newest(found, n)
<1> HIDE DEF found, page
<1>0. n + 1 \in Nat \ {0} /\ IsFiniteSet(1..b) /\ S \subseteq Nat
  <2>1. n + 1 \in Nat \ {0} /\ S \subseteq Nat
    OBVIOUS
  <2>2. IsFiniteSet(1..b)
    BY FS_Interval
  <2> QED
    BY <2>1, <2>2
<1>1. /\ found \subseteq S /\ (S # {} => found # {})
      /\ \A j \in S \ found : \A p \in found : j < p
  BY <1>0, NewestAreNewer DEF found
<1>2. found \subseteq 1..b
  BY <1>1
<1>3. /\ page \subseteq found /\ (found # {} => page # {})
      /\ \A j \in found \ page : \A p \in page : j < p
  BY <1>2, NewestAreNewer DEF page
<1>4. IsFiniteSet(S) /\ IsFiniteSet(found) /\ Cardinality(found) \in Nat
  BY <1>0, <1>2, FS_Subset, FS_CardinalityType
<1>5. ASSUME Cardinality(found) > n
      PROVE  /\ Min(page) \in page /\ \A p \in page : Min(page) <= p
             /\ \A j \in S : j >= Min(page) => j \in page
  <2>1. found # {}
    <3>1. found = {} => Cardinality(found) = 0
      BY FS_EmptySet
    <3> QED
      BY <1>5, <3>1
  <2>2. page # {} /\ page \subseteq Nat
    BY <1>0, <1>1, <1>3, <2>1
  <2>3. Min(page) \in page /\ \A p \in page : Min(page) <= p
    BY <2>2, MinIsLowest
  <2>4. ASSUME NEW j \in S, j >= Min(page), j \notin page PROVE FALSE
    <3>1. j \in Nat /\ Min(page) \in Nat /\ Min(page) \in found
      BY <1>0, <1>3, <2>2, <2>3
    <3>2. j < Min(page)
      BY <1>1, <1>3, <2>3, <2>4, <3>1
    <3> QED
      BY <2>4, <3>1, <3>2
  <2> QED
    BY <2>3, <2>4
<1>6. ASSUME ~ (Cardinality(found) > n) PROVE page = S
  <2>1. page = found
    <3> SUFFICES ASSUME NEW m \in found, m \notin page PROVE FALSE
      BY <1>3
    <3> DEFINE over == {k \in found : k > m}
    <3>1. over \subseteq found /\ m \in found /\ m \notin over
      BY <1>0, <1>1
    <3> HIDE DEF over
    <3>2. Cardinality(over) <= Cardinality(found) /\ Cardinality(over) # Cardinality(found)
          /\ Cardinality(over) \in Nat
      BY <1>4, <3>1, FS_Subset, FS_CardinalityType
    <3>3. Cardinality(over) < n
      BY <1>4, <1>6, <3>2
    <3> QED
      BY <3>3 DEF page, Newest, over
  <2>2. found = S
    <3> SUFFICES ASSUME S \ found # {} PROVE FALSE
      BY <1>1
    <3>1. S \ found \subseteq 1..b
      OBVIOUS
    <3>2. PICK j \in S \ found : \A y \in S \ found : y <= j
      BY <3>1, HighestExists
    <3> DEFINE over == {k \in S : k > j}
    <3>3. over \subseteq found
      <4> SUFFICES ASSUME NEW k \in S, k > j, k \notin found PROVE FALSE
        OBVIOUS
      <4>1. k <= j /\ k \in Nat /\ j \in Nat
        BY <1>0, <3>2
      <4> QED
        BY <4>1
    <3>4. ~ (Cardinality(over) < n + 1)
      BY <3>2 DEF found, Newest
    <3> HIDE DEF over
    <3>5. Cardinality(over) <= Cardinality(found) /\ Cardinality(over) \in Nat
      BY <1>4, <3>3, FS_Subset, FS_CardinalityType
    <3> QED
      BY <1>4, <1>6, <3>4, <3>5
  <2> QED
    BY <2>1, <2>2
<1> QED
  BY <1>1, <1>3, <1>5, <1>6 DEF found, page

PanelItems == [state : {"absent", "pending", "integrated", "failed", "dismissed"},
             enrich : {"queued", "running", "done", "failed", None},
             fresh : BOOLEAN, position : {0, 1, None}]
Fetched == {"queued", "running"}

\* Has the message an open row on the queue?
OpenOn(queue, m) ==
    \E j \in Ids : jobrows[j].queue = queue /\ jobrows[j].about = m /\ jobrows[j].st \in Open

PanelsTypes ==
    /\ jobrows \in Seq(JobRow) /\ items \in [PolledMessages -> PanelItems]
    /\ polling \in [Polls -> (SUBSET PolledMessages) \cup {None}]

\* An extract row that is done left an item, or a decision that there is none.
ExtractLeavesWord ==
    \A j \in Ids : jobrows[j].queue = "extract" /\ jobrows[j].st = "done" =>
        items[jobrows[j].about].state # "absent" \/ jobrows[j].about \in skipped

\* What has a later row has an item.
LaterHasItem ==
    \A j \in Ids : jobrows[j].queue \in Later => items[jobrows[j].about].state # "absent"

\* A pending item that was ever asked for has an open integrate row or an agent's run.
PendingIsCarried ==
    \A j \in Ids :
        jobrows[j].queue \in Later /\ items[jobrows[j].about].state = "pending" =>
            OpenOn("integrate", jobrows[j].about) \/ items[jobrows[j].about].enrich \in Fetched

\* An item an agent is to fetch is pending, behind an open enrich row.
FetchIsOpen ==
    \A m \in PolledMessages :
        items[m].enrich \in Fetched => items[m].state = "pending" /\ OpenOn("enrich", m)

\* An open enrich row is the only later row its message ever had.
EnrichIsAlone ==
    \A j \in Ids : jobrows[j].queue = "enrich" /\ jobrows[j].st \in Open =>
        /\ items[jobrows[j].about].enrich \in Fetched
        /\ \A k \in Ids : jobrows[k].queue \in Later /\ jobrows[k].about = jobrows[j].about
                              => k = j

\* An item has its place in a story exactly when it is integrated.
PlacedIffIntegrated ==
    \A m \in PolledMessages : items[m].position # None <=> items[m].state = "integrated"

\* A walk has shown what it owes down to where it is, and nothing below.
WalkIsOnCourse ==
    /\ walk.missed = {} /\ walk.twice = {}
    /\ \/ walk.at = "idle" /\ walk.before = None /\ walk.shown = {} /\ walk.owed = {}
       \/ /\ walk.at = "walking" /\ walk.before \in Nat
          /\ walk.owed \subseteq Ids /\ walk.shown \subseteq Ids
          /\ \A j \in walk.owed \cap Listed : j >= walk.before => j \in walk.shown
          /\ \A j \in walk.shown : j >= walk.before

PanelParts ==
    /\ ExtractLeavesWord /\ LaterHasItem /\ PendingIsCarried /\ FetchIsOpen /\ EnrichIsAlone
    /\ PlacedIffIntegrated
PanelsInv == PanelsTypes /\ PanelParts /\ WalkIsOnCourse

\* The rows are numbered from one on, and each is about a message.
LEMMA IdsAreNumbers ==
    ASSUME jobrows \in Seq(JobRow)
    PROVE  /\ Len(jobrows) \in Nat /\ Ids = 1..Len(jobrows)
           /\ \A j \in Ids : /\ j \in Nat
                             /\ jobrows[j] \in JobRow
                             /\ jobrows[j].queue \in {"extract", "enrich", "integrate"}
                             /\ jobrows[j].about \in PolledMessages
                             /\ jobrows[j].st \in Open \cup Terminal \cup {"pruned"}
<1>1. Len(jobrows) \in Nat /\ DOMAIN jobrows = 1..Len(jobrows)
      /\ \A j \in 1..Len(jobrows) : jobrows[j] \in JobRow
  BY LenProperties, ElementOfSeq
<1> QED
  BY <1>1 DEF Ids, JobRow

\* The rows there were are there still, about the same, and what was swept stays so.
JobsKept ==
    /\ Ids \subseteq Ids'
    /\ \A j \in Ids : jobrows[j].st = "pruned" => jobrows'[j].st = "pruned"

\* A walk is undisturbed by rows that are added or swept between its pages.
LEMMA WalkGoesOn ==
    ASSUME WalkIsOnCourse, JobsKept, walk' = walk
    PROVE  WalkIsOnCourse'
<1>1. \A j \in walk.owed : j \in Ids /\ j \in Listed' => j \in Listed
  BY DEF JobsKept, Listed
<1>2. CASE walk.at = "idle" /\ walk.before = None /\ walk.shown = {} /\ walk.owed = {}
  BY <1>2 DEF WalkIsOnCourse
<1>3. CASE walk.at = "walking" /\ walk.owed \subseteq Ids
  BY <1>1, <1>3 DEF WalkIsOnCourse, JobsKept
<1> QED
  BY <1>2, <1>3 DEF WalkIsOnCourse

\* One row changes its state.
LEMMA JobSet ==
    ASSUME jobrows \in Seq(JobRow), NEW j \in Ids, NEW s \in Open \cup Terminal \cup {"pruned"},
           jobrows[j].st # "pruned", SetJob(j, s)
    PROVE  /\ jobrows' \in Seq(JobRow) /\ Ids' = Ids /\ JobsKept
           /\ \A k \in Ids : /\ jobrows'[k].queue = jobrows[k].queue
                             /\ jobrows'[k].about = jobrows[k].about
                             /\ jobrows'[k].st = IF k = j THEN s ELSE jobrows[k].st
<1>1. jobrows' = [jobrows EXCEPT ![j] = [jobrows[j] EXCEPT !.st = s]]
  BY DEF SetJob
<1> DEFINE r == [jobrows[j] EXCEPT !.st = s]
<1>2. r \in JobRow /\ r.queue = jobrows[j].queue /\ r.about = jobrows[j].about /\ r.st = s
  BY IdsAreNumbers DEF JobRow
<1> HIDE DEF r
<1>3. jobrows' = [jobrows EXCEPT ![j] = r]
  BY <1>1 DEF r
<1>4. jobrows' \in Seq(JobRow) /\ Ids' = Ids
  BY <1>2, <1>3 DEF Ids
<1>5. \A k \in Ids : jobrows'[k] = IF k = j THEN r ELSE jobrows[k]
  BY <1>3 DEF Ids
<1> QED
  BY <1>2, <1>4, <1>5 DEF JobsKept

\* Rows are added behind the others.
LEMMA JobsAdded ==
    ASSUME NEW old \in Seq(JobRow), NEW more \in Seq(JobRow), jobrows' = old \o more,
           DOMAIN jobrows = DOMAIN old,
           \A k \in DOMAIN old : jobrows[k].st = "pruned" => old[k].st = "pruned"
    PROVE  /\ jobrows' \in Seq(JobRow) /\ JobsKept
           /\ Ids' = 1..(Len(old) + Len(more)) /\ Ids = 1..Len(old)
           /\ \A k \in Ids : jobrows'[k] = old[k]
           /\ \A k \in Ids' : k \notin Ids => \E i \in 1..Len(more) : jobrows'[k] = more[i]
           /\ \A i \in 1..Len(more) : Len(old) + i \in Ids' /\ jobrows'[Len(old) + i] = more[i]
<1>1. Len(old) \in Nat /\ Len(more) \in Nat /\ DOMAIN old = 1..Len(old)
  BY LenProperties
<1>2. /\ jobrows' \in Seq(JobRow) /\ Len(jobrows') = Len(old) + Len(more)
      /\ \A i \in 1..(Len(old) + Len(more)) :
             jobrows'[i] = IF i <= Len(old) THEN old[i] ELSE more[i - Len(old)]
  BY ConcatProperties
<1>3. Ids' = 1..(Len(old) + Len(more)) /\ Ids = 1..Len(old)
  BY <1>1, <1>2, LenProperties DEF Ids
<1>4. \A k \in Ids : jobrows'[k] = old[k]
  BY <1>1, <1>2, <1>3
<1>5. \A k \in Ids' : k \notin Ids => \E i \in 1..Len(more) : jobrows'[k] = more[i]
  <2> TAKE k \in Ids'
  <2> HAVE k \notin Ids
  <2>1. k \in Int /\ k > Len(old) /\ k <= Len(old) + Len(more)
    BY <1>1, <1>3
  <2>2. k - Len(old) \in 1..Len(more) /\ jobrows'[k] = more[k - Len(old)]
    BY <1>1, <1>2, <1>3, <2>1
  <2> QED
    BY <2>2
<1>6. \A i \in 1..Len(more) : Len(old) + i \in Ids' /\ jobrows'[Len(old) + i] = more[i]
  <2> TAKE i \in 1..Len(more)
  <2>1. Len(old) + i \in 1..(Len(old) + Len(more)) /\ ~ (Len(old) + i <= Len(old))
        /\ (Len(old) + i) - Len(old) = i
    BY <1>1
  <2> QED
    BY <1>2, <1>3, <2>1
<1>7. JobsKept
  BY <1>1, <1>3, <1>4 DEF JobsKept, Ids
<1> QED
  BY <1>2, <1>3, <1>4, <1>5, <1>6, <1>7

\* An item changes.
LEMMA ItemSet ==
    ASSUME items \in [PolledMessages -> PanelItems], NEW m \in PolledMessages,
           NEW r \in PanelItems, items' = [items EXCEPT ![m] = r]
    PROVE  /\ items' \in [PolledMessages -> PanelItems] /\ items'[m] = r
           /\ \A n \in PolledMessages : n # m => items'[n] = items[n]
  OBVIOUS

\* An open row stays one as long as it is not the one that changes.
LEMMA OpenStays ==
    ASSUME NEW queue, NEW m, OpenOn(queue, m), Ids \subseteq Ids',
           \A j \in Ids : /\ jobrows'[j].queue = jobrows[j].queue
                          /\ jobrows'[j].about = jobrows[j].about
                          /\ jobrows[j].st \in Open => jobrows'[j].st \in Open
    PROVE  OpenOn(queue, m)'
<1>1. PICK j \in Ids : jobrows[j].queue = queue /\ jobrows[j].about = m /\ jobrows[j].st \in Open
  BY DEF OpenOn
<1>2. j \in Ids' /\ jobrows'[j].queue = queue /\ jobrows'[j].about = m /\ jobrows'[j].st \in Open
  BY <1>1
<1> QED
  BY <1>2 DEF OpenOn

\* The invariant holds before anything is polled.
LEMMA PanelsStart == PanelsInit => PanelsInv
<1> SUFFICES ASSUME PanelsInit PROVE PanelsInv
  OBVIOUS
<1> USE DEF PanelsInit
<1>1. Ids = {}
  BY DEF Ids
<1>2. PanelsTypes
  <2>1. Absent \in PanelItems
    BY DEF Absent, PanelItems
  <2>2. <<>> \in Seq(JobRow)
    BY EmptySeq
  <2> QED
    BY <2>1, <2>2 DEF PanelsTypes
<1>3. PanelParts
  <2>1. \A m \in PolledMessages : items[m].enrich = None /\ items[m].position = None
                                  /\ items[m].state = "absent"
    BY DEF Absent
  <2> QED
    BY <1>1, <2>1, PanelsAssumption
       DEF PanelParts, ExtractLeavesWord, LaterHasItem, PendingIsCarried, FetchIsOpen,
           EnrichIsAlone, PlacedIffIntegrated, Fetched
<1>4. WalkIsOnCourse
  BY DEF WalkIsOnCourse
<1> QED
  BY <1>2, <1>3, <1>4 DEF PanelsInv

\* A row moves between open states, and at most its item hears of it.
LEMMA RowMoves ==
    ASSUME PanelsInv, NEW j \in Ids,
           claim_job(j) \/ job_returns(j)
    PROVE  PanelsInv'
<1> USE DEF PanelsInv, PanelsTypes
<1> DEFINE m == jobrows[j].about
<1>0. m \in PolledMessages /\ items[m] \in PanelItems
  BY IdsAreNumbers
<1>1. PICK s \in Open : SetJob(j, s) /\ jobrows[j].st \in Open
  BY DEF claim_job, job_returns, Open
<1>2. jobrows[j].st # "pruned" /\ s \in Open \cup Terminal \cup {"pruned"}
  BY <1>1 DEF Open
<1>3. /\ jobrows' \in Seq(JobRow) /\ Ids' = Ids /\ JobsKept
      /\ \A k \in Ids : /\ jobrows'[k].queue = jobrows[k].queue
                        /\ jobrows'[k].about = jobrows[k].about
                        /\ jobrows'[k].st = IF k = j THEN s ELSE jobrows[k].st
  BY <1>1, <1>2, JobSet
<1>4. UNCHANGED <<polling, skipped, walk>>
  BY DEF claim_job, job_returns
<1>5. \/ items' = items
      \/ /\ items' = [items EXCEPT ![m] = [items[m] EXCEPT !.enrich = "running"]]
         /\ jobrows[j].queue = "enrich" /\ items[m].state = "pending"
  BY DEF claim_job, job_returns
<1>6. /\ items' \in [PolledMessages -> PanelItems]
      /\ \A n \in PolledMessages :
             /\ items'[n].state = items[n].state /\ items'[n].position = items[n].position
             /\ items[n].enrich \in Fetched => items'[n].enrich \in Fetched
             /\ items'[n].enrich \in Fetched =>
                    items[n].enrich \in Fetched \/ (n = m /\ jobrows[j].queue = "enrich")
  <2>1. CASE items' = items
    BY <2>1
  <2>2. CASE /\ items' = [items EXCEPT ![m] = [items[m] EXCEPT !.enrich = "running"]]
             /\ jobrows[j].queue = "enrich"
    <3> DEFINE r == [items[m] EXCEPT !.enrich = "running"]
    <3>1. r \in PanelItems /\ r.enrich = "running" /\ r.state = items[m].state
          /\ r.position = items[m].position
      BY <1>0 DEF PanelItems
    <3> HIDE DEF r, m
    <3>2. items' = [items EXCEPT ![m] = r]
      BY <2>2 DEF r
    <3>3. /\ items' \in [PolledMessages -> PanelItems] /\ items'[m] = r
          /\ \A n \in PolledMessages : n # m => items'[n] = items[n]
      BY <1>0, <3>1, <3>2, ItemSet
    <3> QED
      BY <2>2, <3>1, <3>3 DEF Fetched
  <2> QED
    BY <1>5, <2>1, <2>2
<1>7. \A q, n : OpenOn(q, n) => OpenOn(q, n)'
  BY <1>1, <1>3, OpenStays
<1>8. PanelParts'
  <2> USE DEF PanelParts
  <2>0. \A k \in Ids : jobrows[k].about \in PolledMessages
    BY IdsAreNumbers
  <2>a. \A k \in Ids : jobrows'[k].st \in Open => jobrows[k].st \in Open
    BY <1>1, <1>3
  <2>1. ExtractLeavesWord'
    BY <1>1, <1>3, <1>4, <1>6, <2>0 DEF ExtractLeavesWord, Open
  <2>2. LaterHasItem'
    BY <1>3, <1>6, <2>0 DEF LaterHasItem, Later
  <2>3. PendingIsCarried'
    BY <1>3, <1>6, <1>7, <2>0 DEF PendingIsCarried
  <2>4. FetchIsOpen'
    <3>1. jobrows[j].queue = "enrich" => items[m].enrich \in Fetched
      BY <1>1 DEF EnrichIsAlone
    <3>2. \A n \in PolledMessages : items'[n].enrich \in Fetched => items[n].enrich \in Fetched
      BY <1>6, <3>1
    <3> QED
      BY <1>6, <1>7, <3>2 DEF FetchIsOpen
  <2>5. EnrichIsAlone'
    BY <1>3, <1>6, <2>0, <2>a DEF EnrichIsAlone
  <2>6. PlacedIffIntegrated'
    BY <1>6 DEF PlacedIffIntegrated
  <2> QED
    BY <2>1, <2>2, <2>3, <2>4, <2>5, <2>6
<1> QED
  BY <1>3, <1>4, <1>6, <1>8, WalkGoesOn

\* A row is closed or swept, with its item on record if it is an extract row, and settled
\* if it is an integrate row.
LEMMA RowCloses ==
    ASSUME PanelsInv, NEW j \in Ids, NEW s \in Terminal \cup {"pruned"},
           SetJob(j, s), jobrows[j].st # "pruned",
           NEW m, m = jobrows[j].about, UNCHANGED polling, UNCHANGED walk,
           skipped \subseteq skipped',
           \/ items' = items
           \/ /\ items' = [items EXCEPT ![m] = [items[m] EXCEPT !.state = "failed"]]
              /\ items[m].state = "pending" /\ jobrows[j].queue = "integrate"
              /\ jobrows[j].st \in Open,
           jobrows[j].queue = "extract" /\ s = "done" =>
               items[m].state # "absent" \/ m \in skipped',
           jobrows[j].st \in Open =>
               \/ jobrows[j].queue = "extract"
               \/ jobrows[j].queue = "integrate" /\ items'[m].state # "pending"
    PROVE  PanelsInv'
<1> USE DEF PanelsInv, PanelsTypes
<1>0. m \in PolledMessages /\ items[m] \in PanelItems
      /\ \A k \in Ids : jobrows[k].about \in PolledMessages
  BY IdsAreNumbers
<1>3. /\ jobrows' \in Seq(JobRow) /\ Ids' = Ids /\ JobsKept
      /\ \A k \in Ids : /\ jobrows'[k].queue = jobrows[k].queue
                        /\ jobrows'[k].about = jobrows[k].about
                        /\ jobrows'[k].st = IF k = j THEN s ELSE jobrows[k].st
  BY JobSet
<1>6. /\ items' \in [PolledMessages -> PanelItems]
      /\ \A n \in PolledMessages :
             /\ items'[n].enrich = items[n].enrich /\ items'[n].position = items[n].position
             /\ \/ items'[n].state = items[n].state
                \/ /\ n = m /\ items[n].state = "pending" /\ items'[n].state = "failed"
                   /\ jobrows[j].queue = "integrate"
  <2>1. CASE items' = items
    BY <2>1
  <2>2. CASE /\ items' = [items EXCEPT ![m] = [items[m] EXCEPT !.state = "failed"]]
             /\ items[m].state = "pending" /\ jobrows[j].queue = "integrate"
    <3> DEFINE r == [items[m] EXCEPT !.state = "failed"]
    <3>1. r \in PanelItems /\ r.state = "failed" /\ r.enrich = items[m].enrich
          /\ r.position = items[m].position
      BY <1>0 DEF PanelItems
    <3> HIDE DEF r
    <3>2. items' = [items EXCEPT ![m] = r]
      BY <2>2 DEF r
    <3>3. /\ items' \in [PolledMessages -> PanelItems] /\ items'[m] = r
          /\ \A n \in PolledMessages : n # m => items'[n] = items[n]
      BY <1>0, <3>1, <3>2, ItemSet
    <3> QED
      BY <2>2, <3>1, <3>3
  <2> QED
    BY <2>1, <2>2
<1>7. \A q, n : OpenOn(q, n) => \/ OpenOn(q, n)'
                                \/ q = jobrows[j].queue /\ n = m /\ jobrows[j].st \in Open
  <2> TAKE q, n
  <2> HAVE OpenOn(q, n)
  <2>1. PICK k \in Ids : jobrows[k].queue = q /\ jobrows[k].about = n /\ jobrows[k].st \in Open
    BY DEF OpenOn
  <2>2. CASE k = j
    BY <2>1, <2>2
  <2>3. CASE k # j
    <3>1. k \in Ids' /\ jobrows'[k].queue = q /\ jobrows'[k].about = n /\ jobrows'[k].st \in Open
      BY <1>3, <2>1, <2>3
    <3> QED
      BY <3>1 DEF OpenOn
  <2> QED
    BY <2>2, <2>3
<1>8. PanelParts'
  <2> USE DEF PanelParts
  <2>a. \A k \in Ids : jobrows'[k].st \in Open => jobrows[k].st \in Open /\ k # j
    BY <1>3 DEF Open, Terminal
  <2>1. ExtractLeavesWord'
    <3> SUFFICES ASSUME NEW k \in Ids, jobrows'[k].queue = "extract", jobrows'[k].st = "done"
                 PROVE  items'[jobrows'[k].about].state # "absent"
                        \/ jobrows'[k].about \in skipped'
      BY <1>3 DEF ExtractLeavesWord
    <3>1. items[jobrows[k].about].state # "absent" \/ jobrows[k].about \in skipped'
      BY <1>3 DEF ExtractLeavesWord
    <3> QED
      BY <1>0, <1>3, <1>6, <3>1
  <2>2. LaterHasItem'
    BY <1>0, <1>3, <1>6 DEF LaterHasItem, Later
  <2>3. PendingIsCarried'
    <3> SUFFICES ASSUME NEW k \in Ids, jobrows[k].queue \in Later,
                        NEW n, n = jobrows[k].about, items'[n].state = "pending"
                 PROVE  OpenOn("integrate", n)' \/ items'[n].enrich \in Fetched
      BY <1>3 DEF PendingIsCarried
    <3>1. items[n].state = "pending"
      BY <1>0, <1>6
    <3>2. OpenOn("integrate", n) \/ items[n].enrich \in Fetched
      BY <3>1 DEF PendingIsCarried
    <3>3. CASE OpenOn("integrate", n)
      <4>1. ~ ("integrate" = jobrows[j].queue /\ n = m /\ jobrows[j].st \in Open)
        OBVIOUS
      <4> QED
        BY <1>7, <3>3, <4>1
    <3>4. CASE items[n].enrich \in Fetched
      BY <1>0, <1>6, <3>4
    <3> QED
      BY <3>2, <3>3, <3>4
  <2>4. FetchIsOpen'
    <3> SUFFICES ASSUME NEW n \in PolledMessages, items'[n].enrich \in Fetched
                 PROVE  items'[n].state = "pending" /\ OpenOn("enrich", n)'
      BY DEF FetchIsOpen
    <3>1. items[n].state = "pending" /\ OpenOn("enrich", n)
      BY <1>6 DEF FetchIsOpen
    <3>2. ~ (n = m /\ jobrows[j].queue = "integrate")
      <4>1. PICK k \in Ids : jobrows[k].queue = "enrich" /\ jobrows[k].about = n
                             /\ jobrows[k].st \in Open
        BY <3>1 DEF OpenOn
      <4> QED
        BY <4>1 DEF EnrichIsAlone, Later
    <3>3. OpenOn("enrich", n)'
      BY <1>7, <3>1
    <3> QED
      BY <1>6, <3>1, <3>2, <3>3
  <2>5. EnrichIsAlone'
    <3> SUFFICES ASSUME NEW k \in Ids, jobrows[k].queue = "enrich", jobrows'[k].st \in Open
                 PROVE  /\ items'[jobrows[k].about].enrich \in Fetched
                        /\ \A l \in Ids : jobrows[l].queue \in Later
                                         /\ jobrows[l].about = jobrows[k].about => l = k
      <4>1. Ids' = Ids /\ \A l \in Ids : /\ jobrows'[l].queue = jobrows[l].queue
                                         /\ jobrows'[l].about = jobrows[l].about
        BY <1>3
      <4> QED
        BY <4>1 DEF EnrichIsAlone
    <3>1. jobrows[k].st \in Open
      BY <2>a
    <3> QED
      BY <1>0, <1>6, <3>1 DEF EnrichIsAlone
  <2>6. PlacedIffIntegrated'
    BY <1>6 DEF PlacedIffIntegrated
  <2> QED
    BY <2>1, <2>2, <2>3, <2>4, <2>5, <2>6
<1> QED
  BY <1>3, <1>6, <1>8, WalkGoesOn

\* An item changes and the rows do not.
LEMMA ItemMoves ==
    ASSUME PanelsInv, NEW m \in PolledMessages, NEW r \in PanelItems,
           items' = [items EXCEPT ![m] = r],
           UNCHANGED <<jobrows, polling, skipped, walk>>,
           r.state # "absent" \/ items[m].state = "absent",
           r.position # None <=> r.state = "integrated",
           r.enrich \in Fetched <=> items[m].enrich \in Fetched,
           r.enrich \in Fetched => r.state = "pending",
           r.state = "pending" /\ items[m].state # "pending" => items[m].state = "absent"
    PROVE  PanelsInv'
<1> USE DEF PanelsInv, PanelsTypes
<1>0. \A k \in Ids : jobrows[k].about \in PolledMessages
  BY IdsAreNumbers
<1>1. /\ items' \in [PolledMessages -> PanelItems] /\ items'[m] = r
      /\ \A n \in PolledMessages : n # m => items'[n] = items[n]
  BY ItemSet
<1>2. Ids' = Ids /\ \A q, n : OpenOn(q, n)' <=> OpenOn(q, n)
  BY DEF Ids, OpenOn
<1>3. PanelParts'
  <2> USE DEF PanelParts
  <2>1. ExtractLeavesWord'
    BY <1>0, <1>1, <1>2 DEF ExtractLeavesWord
  <2>2. LaterHasItem'
    BY <1>0, <1>1, <1>2 DEF LaterHasItem
  <2>3. PendingIsCarried'
    BY <1>0, <1>1, <1>2 DEF PendingIsCarried, LaterHasItem
  <2>4. FetchIsOpen'
    BY <1>1, <1>2 DEF FetchIsOpen
  <2>5. EnrichIsAlone'
    BY <1>0, <1>1, <1>2 DEF EnrichIsAlone
  <2>6. PlacedIffIntegrated'
    BY <1>1 DEF PlacedIffIntegrated
  <2> QED
    BY <2>1, <2>2, <2>3, <2>4, <2>5, <2>6
<1>4. JobsKept
  BY <1>2 DEF JobsKept
<1> QED
  BY <1>1, <1>3, <1>4, WalkGoesOn

\* A message that has never been asked for, although it is pending, has no later row.
LEMMA HeldIsUnasked ==
    ASSUME PanelsInv, NEW m \in PolledMessages, HeldWhere(m)
    PROVE  /\ items[m].state = "pending" /\ items[m].enrich \notin Fetched
           /\ \A k \in Ids : jobrows[k].queue \in Later => jobrows[k].about # m
<1> USE DEF PanelsInv, PanelParts
<1>1. items[m].state = "pending"
      /\ \A k \in Ids : jobrows[k].queue \in Later /\ jobrows[k].about = m
                         => jobrows[k].st = "pruned"
  BY DEF HeldWhere, JobsOn
<1>2. ~ OpenOn("enrich", m) /\ ~ OpenOn("integrate", m)
  BY <1>1 DEF OpenOn, Open, Later
<1> QED
  BY <1>1, <1>2 DEF FetchIsOpen, PendingIsCarried

\* What one new row at the end leaves of the others
LEMMA OneRowMore ==
    ASSUME NEW old \in Seq(JobRow), NEW r \in JobRow, jobrows' = Append(old, r),
           DOMAIN jobrows = DOMAIN old,
           \A k \in DOMAIN old : jobrows[k].st = "pruned" => old[k].st = "pruned"
    PROVE  /\ jobrows' \in Seq(JobRow) /\ JobsKept
           /\ \E e : /\ e \notin Ids /\ Ids' = Ids \cup {e} /\ jobrows'[e] = r
           /\ \A k \in Ids : jobrows'[k] = old[k]
<1>1. /\ Len(old) \in Nat /\ DOMAIN old = 1..Len(old)
      /\ jobrows' \in Seq(JobRow) /\ Len(jobrows') = Len(old) + 1
      /\ \A i \in 1..Len(old) : jobrows'[i] = old[i]
      /\ jobrows'[Len(old) + 1] = r
  BY LenProperties, AppendProperties
<1> DEFINE e == Len(old) + 1
<1>2. Ids = 1..Len(old) /\ Ids' = 1..e
  BY <1>1, LenProperties DEF Ids
<1>3. e \notin 1..Len(old) /\ 1..e = (1..Len(old)) \cup {e}
  BY <1>1
<1>4. e \notin Ids /\ Ids' = Ids \cup {e} /\ jobrows'[e] = r
  BY <1>1, <1>2, <1>3
<1>5. \A k \in Ids : jobrows'[k] = old[k]
  BY <1>1, <1>2
<1>6. JobsKept
  BY <1>1, <1>2, <1>4, <1>5 DEF JobsKept
<1> QED
  BY <1>1, <1>4, <1>5, <1>6

\* An item is asked for.
LEMMA AskKeeps ==
    ASSUME PanelsInv, NEW m \in PolledMessages, enqueue_integration(m)
    PROVE  PanelsInv'
<1> USE DEF PanelsInv, PanelsTypes
<1>1. PICK q \in Later :
          /\ jobrows' = Append(jobrows, New(q, m))
          /\ items' = [items EXCEPT ![m] = [items[m] EXCEPT
                           !.enrich = IF q = "enrich" THEN "queued" ELSE items[m].enrich]]
  BY DEF enqueue_integration
<1>2. HeldWhere(m) /\ UNCHANGED <<polling, skipped, walk>>
  BY DEF enqueue_integration
<1>3. /\ items[m].state = "pending" /\ items[m].enrich \notin Fetched
      /\ \A k \in Ids : jobrows[k].queue \in Later => jobrows[k].about # m
  BY <1>2, HeldIsUnasked
<1> DEFINE w == [items[m] EXCEPT !.enrich = IF q = "enrich" THEN "queued" ELSE items[m].enrich]
<1>4. /\ w \in PanelItems /\ w.state = items[m].state /\ w.position = items[m].position
      /\ w.enrich = IF q = "enrich" THEN "queued" ELSE items[m].enrich
  BY DEF PanelItems
<1> HIDE DEF w
<1>5. items' = [items EXCEPT ![m] = w]
  BY <1>1 DEF w
<1>6. /\ items' \in [PolledMessages -> PanelItems] /\ items'[m] = w
      /\ \A n \in PolledMessages : n # m => items'[n] = items[n]
  BY <1>4, <1>5, ItemSet
<1>7. New(q, m) \in JobRow /\ New(q, m).queue = q /\ New(q, m).about = m
      /\ New(q, m).st = "ready"
  BY DEF New, JobRow, Later, Open
<1>8. /\ jobrows' \in Seq(JobRow) /\ JobsKept
      /\ \E e : /\ e \notin Ids /\ Ids' = Ids \cup {e} /\ jobrows'[e] = New(q, m)
      /\ \A k \in Ids : jobrows'[k] = jobrows[k]
  BY <1>1, <1>7, OneRowMore
<1>9. PICK e : /\ e \notin Ids /\ Ids' = Ids \cup {e} /\ jobrows'[e] = New(q, m)
  BY <1>8
<1>10. \A k \in Ids : jobrows[k].about \in PolledMessages
  BY IdsAreNumbers
<1>11. \A u, n : OpenOn(u, n) => OpenOn(u, n)'
  BY <1>8, OpenStays DEF JobsKept
<1>12. OpenOn(q, m)'
  BY <1>7, <1>9 DEF OpenOn, Open
<1>13. PanelParts'
  <2> USE DEF PanelParts
  <2> HIDE DEF PanelsInv, PanelsTypes
  <2>0. PanelParts
    BY DEF PanelsInv
  <2>1. ExtractLeavesWord'
    <3>1. \A k \in Ids : items'[jobrows[k].about].state = items[jobrows[k].about].state
      BY <1>4, <1>6, <1>10
    <3> QED
      BY <1>2, <1>7, <1>8, <1>9, <2>0, <3>1 DEF ExtractLeavesWord, Later
  <2>2. LaterHasItem'
    <3>1. \A k \in Ids : items'[jobrows[k].about].state = items[jobrows[k].about].state
      BY <1>4, <1>6, <1>10
    <3>2. items'[m].state = "pending"
      BY <1>3, <1>4, <1>6
    <3> QED
      BY <1>7, <1>8, <1>9, <2>0, <3>1, <3>2 DEF LaterHasItem
  <2>3. PendingIsCarried'
    <3> SUFFICES ASSUME NEW k \in Ids', jobrows'[k].queue \in Later, NEW n, n = jobrows'[k].about,
                        items'[n].state = "pending"
                 PROVE  OpenOn("integrate", n)' \/ items'[n].enrich \in Fetched
      BY DEF PendingIsCarried
    <3>1. CASE n = m
      BY <1>4, <1>6, <1>12, <3>1 DEF Later, Fetched
    <3>2. CASE n # m
      <4>1. k \in Ids /\ jobrows'[k] = jobrows[k] /\ n \in PolledMessages
        BY <1>7, <1>8, <1>9, <1>10, <3>2
      <4>2. OpenOn("integrate", n) \/ items[n].enrich \in Fetched
        BY <1>6, <2>0, <3>2, <4>1 DEF PendingIsCarried
      <4> QED
        BY <1>6, <1>11, <3>2, <4>1, <4>2
    <3> QED
      BY <3>1, <3>2
  <2>4. FetchIsOpen'
    <3> SUFFICES ASSUME NEW n \in PolledMessages, items'[n].enrich \in Fetched
                 PROVE  items'[n].state = "pending" /\ OpenOn("enrich", n)'
      BY DEF FetchIsOpen
    <3>1. CASE n = m
      BY <1>3, <1>4, <1>6, <1>12, <3>1
    <3>2. CASE n # m
      BY <1>6, <1>11, <2>0, <3>2 DEF FetchIsOpen
    <3> QED
      BY <3>1, <3>2
  <2>5. EnrichIsAlone'
    <3> SUFFICES ASSUME NEW k \in Ids', jobrows'[k].queue = "enrich", jobrows'[k].st \in Open,
                        NEW n, n = jobrows'[k].about
                 PROVE  /\ items'[n].enrich \in Fetched
                        /\ \A l \in Ids' : jobrows'[l].queue \in Later /\ jobrows'[l].about = n
                                           => l = k
      BY DEF EnrichIsAlone
    <3>1. CASE k = e
      <4>1. n = m /\ q = "enrich"
        BY <1>7, <1>9, <3>1
      <4> QED
        BY <1>3, <1>4, <1>6, <1>8, <1>9, <3>1, <4>1 DEF Fetched
    <3>2. CASE k # e
      <4>1. k \in Ids /\ jobrows'[k] = jobrows[k] /\ jobrows[k].queue = "enrich"
            /\ jobrows[k].st \in Open /\ n = jobrows[k].about /\ n \in PolledMessages
        BY <1>8, <1>9, <1>10, <3>2
      <4>2. n # m
        BY <1>3, <4>1 DEF Later
      <4>3. /\ items[n].enrich \in Fetched
            /\ \A l \in Ids : jobrows[l].queue \in Later /\ jobrows[l].about = n => l = k
        BY <2>0, <4>1 DEF EnrichIsAlone
      <4> QED
        BY <1>6, <1>7, <1>8, <1>9, <4>1, <4>2, <4>3
    <3> QED
      BY <3>1, <3>2
  <2>6. PlacedIffIntegrated'
    BY <1>4, <1>6, <2>0 DEF PlacedIffIntegrated
  <2> QED
    BY <2>1, <2>2, <2>3, <2>4, <2>5, <2>6
<1> QED
  BY <1>2, <1>6, <1>8, <1>13, WalkGoesOn

\* The agent's run hands the item on.
LEMMA HandOnKeeps ==
    ASSUME PanelsInv, NEW j \in Ids, enrich_hands_on(j)
    PROVE  PanelsInv'
<1> USE DEF PanelsInv, PanelsTypes
<1>m. PICK m : m = jobrows[j].about
  OBVIOUS
<1>0. m \in PolledMessages /\ jobrows[j] \in JobRow
      /\ \A k \in Ids : jobrows[k].about \in PolledMessages
  BY <1>m, IdsAreNumbers
<1>1. PICK u \in {"done", "failed"}, v \in {"done", "failed"} :
          /\ jobrows' = Append([jobrows EXCEPT ![j] = [jobrows[j] EXCEPT !.st = v]],
                               New("integrate", m))
          /\ items' = [items EXCEPT ![m] = [items[m] EXCEPT !.enrich = u]]
  <2>1. PICK end \in {<<"done", "done">>, <<"failed", "done">>, <<"failed", "failed">>} :
            /\ jobrows' = Append([jobrows EXCEPT ![j].st = end[2]],
                                 New("integrate", jobrows[j].about))
            /\ items' = [items EXCEPT ![jobrows[j].about].enrich = end[1]]
    BY DEF enrich_hands_on
  <2>2. end[1] \in {"done", "failed"} /\ end[2] \in {"done", "failed"}
    OBVIOUS
  <2> QED
    BY <1>m, <2>1, <2>2
<1>2. /\ jobrows[j].queue = "enrich" /\ jobrows[j].st = "running"
      /\ UNCHANGED <<polling, skipped, walk>>
  BY DEF enrich_hands_on
<1>3. /\ items[m].state = "pending"
      /\ \A k \in Ids : jobrows[k].queue \in Later /\ jobrows[k].about = m => k = j
  BY <1>m, <1>0, <1>2 DEF PanelParts, EnrichIsAlone, FetchIsOpen, Open
<1> DEFINE w == [items[m] EXCEPT !.enrich = u]
           x == [jobrows[j] EXCEPT !.st = v]
           old == [jobrows EXCEPT ![j] = x]
           r == New("integrate", m)
<1>4. /\ w \in PanelItems /\ w.state = items[m].state /\ w.position = items[m].position
      /\ w.enrich = u
  BY <1>0 DEF PanelItems
<1>5. x \in JobRow /\ x.queue = "enrich" /\ x.about = m /\ x.st = v
  BY <1>m, <1>0, <1>2 DEF JobRow, Terminal
<1>6. r \in JobRow /\ r.queue = "integrate" /\ r.about = m /\ r.st = "ready"
  BY <1>0 DEF New, JobRow, Open
<1> HIDE DEF w, x, r
<1>7. old \in Seq(JobRow) /\ DOMAIN jobrows = DOMAIN old
      /\ \A k \in Ids : old[k] = IF k = j THEN x ELSE jobrows[k]
  BY <1>5 DEF Ids
<1> HIDE DEF old
<1>8. jobrows' = Append(old, r) /\ items' = [items EXCEPT ![m] = w]
  BY <1>1 DEF old, w, x, r
<1>9. /\ items' \in [PolledMessages -> PanelItems] /\ items'[m] = w
      /\ \A n \in PolledMessages : n # m => items'[n] = items[n]
  BY <1>0, <1>4, <1>8, ItemSet
<1>10. \A k \in DOMAIN old : jobrows[k].st = "pruned" => old[k].st = "pruned"
  BY <1>2, <1>7 DEF Ids
<1>11. /\ jobrows' \in Seq(JobRow) /\ JobsKept
       /\ \E e : /\ e \notin Ids /\ Ids' = Ids \cup {e} /\ jobrows'[e] = r
       /\ \A k \in Ids : jobrows'[k] = old[k]
  BY <1>6, <1>7, <1>8, <1>10, OneRowMore
<1>12. PICK e : e \notin Ids /\ Ids' = Ids \cup {e} /\ jobrows'[e] = r
  BY <1>11
<1>13. \A k \in Ids : /\ jobrows'[k].queue = jobrows[k].queue
                      /\ jobrows'[k].about = jobrows[k].about
                      /\ k # j => jobrows'[k].st = jobrows[k].st
                      /\ k = j => jobrows'[k].st = v
  BY <1>m, <1>2, <1>5, <1>7, <1>11
<1>14. \A q, n : OpenOn(q, n) /\ n # m => OpenOn(q, n)'
  <2> TAKE q, n
  <2> HAVE OpenOn(q, n) /\ n # m
  <2>1. PICK k \in Ids : jobrows[k].queue = q /\ jobrows[k].about = n /\ jobrows[k].st \in Open
    BY DEF OpenOn
  <2>2. k # j /\ k \in Ids'
    BY <1>m, <1>12, <2>1
  <2> QED
    BY <1>13, <2>1, <2>2 DEF OpenOn
<1>15. OpenOn("integrate", m)'
  BY <1>6, <1>12 DEF OpenOn, Open
<1>16. \A k \in Ids' : k = e \/ k \in Ids
  BY <1>12
<1>17. v \notin Open /\ u \notin Fetched
  BY DEF Open, Fetched
<1>18. PanelParts'
  <2> USE DEF PanelParts
  <2> HIDE DEF PanelsInv, PanelsTypes
  <2>0. PanelParts
    BY DEF PanelsInv
  <2>a. \A k \in Ids : items'[jobrows[k].about].state = items[jobrows[k].about].state
    BY <1>0, <1>4, <1>9
  <2>1. ExtractLeavesWord'
    BY <1>2, <1>6, <1>12, <1>13, <1>16, <2>0, <2>a DEF ExtractLeavesWord
  <2>2. LaterHasItem'
    <3>1. items'[m].state = "pending"
      BY <1>3, <1>4, <1>9
    <3> QED
      BY <1>6, <1>12, <1>13, <1>16, <2>0, <2>a, <3>1 DEF LaterHasItem
  <2>3. PendingIsCarried'
    <3> SUFFICES ASSUME NEW k \in Ids', jobrows'[k].queue \in Later, NEW n, n = jobrows'[k].about,
                        items'[n].state = "pending"
                 PROVE  OpenOn("integrate", n)' \/ items'[n].enrich \in Fetched
      BY DEF PendingIsCarried
    <3>1. CASE n = m
      BY <1>15, <3>1
    <3>2. CASE n # m
      <4>1. k \in Ids /\ n = jobrows[k].about /\ jobrows[k].queue \in Later
            /\ n \in PolledMessages
        BY <1>0, <1>6, <1>12, <1>13, <1>16, <3>2
      <4>2. OpenOn("integrate", n) \/ items[n].enrich \in Fetched
        BY <1>9, <2>0, <3>2, <4>1 DEF PendingIsCarried
      <4> QED
        BY <1>9, <1>14, <3>2, <4>1, <4>2
    <3> QED
      BY <3>1, <3>2
  <2>4. FetchIsOpen'
    <3> SUFFICES ASSUME NEW n \in PolledMessages, items'[n].enrich \in Fetched
                 PROVE  items'[n].state = "pending" /\ OpenOn("enrich", n)'
      BY DEF FetchIsOpen
    <3>1. n # m
      BY <1>4, <1>9, <1>17
    <3> QED
      BY <1>9, <1>14, <2>0, <3>1 DEF FetchIsOpen
  <2>5. EnrichIsAlone'
    <3> SUFFICES ASSUME NEW k \in Ids', jobrows'[k].queue = "enrich", jobrows'[k].st \in Open,
                        NEW n, n = jobrows'[k].about
                 PROVE  /\ items'[n].enrich \in Fetched
                        /\ \A l \in Ids' : jobrows'[l].queue \in Later /\ jobrows'[l].about = n
                                           => l = k
      BY DEF EnrichIsAlone
    <3>1. k # e
      BY <1>6, <1>12
    <3>2. k \in Ids /\ k # j /\ jobrows[k].queue = "enrich"
          /\ jobrows[k].st \in Open /\ n = jobrows[k].about /\ n \in PolledMessages
      BY <1>0, <1>13, <1>16, <1>17, <3>1
    <3>3. n # m
      BY <1>3, <3>2 DEF Later
    <3>4. /\ items[n].enrich \in Fetched
          /\ \A l \in Ids : jobrows[l].queue \in Later /\ jobrows[l].about = n => l = k
      BY <2>0, <3>2 DEF EnrichIsAlone
    <3> QED
      BY <1>6, <1>9, <1>12, <1>13, <1>16, <3>2, <3>3, <3>4
  <2>6. PlacedIffIntegrated'
    BY <1>4, <1>9, <2>0 DEF PlacedIffIntegrated
  <2> QED
    BY <2>1, <2>2, <2>3, <2>4, <2>5, <2>6
<1> QED
  BY <1>2, <1>9, <1>11, <1>18, WalkGoesOn

\* What was found unqueued is queued.
LEMMA QueuedKeeps ==
    ASSUME PanelsInv, NEW p \in Polls, poll_queues(p)
    PROVE  PanelsInv'
<1> USE DEF PanelsInv, PanelsTypes
<1> DEFINE c == Cardinality(polling[p])
<1>1. PICK order \in [1..c -> polling[p]] :
          jobrows' = jobrows \o [i \in DOMAIN order |-> New("extract", order[i])]
  BY DEF poll_queues
<1>2. /\ polling[p] \subseteq PolledMessages
      /\ polling' = [polling EXCEPT ![p] = None] /\ UNCHANGED <<items, skipped, walk>>
  BY DEF poll_queues
<1>3. c \in Nat
  BY <1>2, PanelsAssumption, FS_Subset, FS_CardinalityType
<1> HIDE DEF c
<1> DEFINE more == [i \in DOMAIN order |-> New("extract", order[i])]
<1>4. \A i \in 1..c : New("extract", order[i]) \in JobRow
  <2> TAKE i \in 1..c
  <2>1. order[i] \in PolledMessages
    BY <1>2
  <2> QED
    BY <2>1 DEF New, JobRow, Open
<1>5. more \in [1..c -> JobRow] /\ \A i \in 1..c : more[i] = New("extract", order[i])
  BY <1>4
<1>6. more \in Seq(JobRow) /\ Len(more) = c
  <2> HIDE DEF more
  <2> QED
    BY <1>3, <1>5
<1> HIDE DEF more
<1>7. /\ jobrows' \in Seq(JobRow) /\ JobsKept
      /\ \A k \in Ids : jobrows'[k] = jobrows[k]
      /\ \A k \in Ids' : k \notin Ids => \E i \in 1..c : jobrows'[k] = more[i]
  BY <1>1, <1>6, JobsAdded DEF more
<1>8. \A k \in Ids' : k \notin Ids => jobrows'[k].queue = "extract" /\ jobrows'[k].st = "ready"
  BY <1>5, <1>7 DEF New
<1>9. \A q, n : OpenOn(q, n) => OpenOn(q, n)'
  BY <1>7, OpenStays DEF JobsKept
<1>10. PanelParts'
  <2> USE DEF PanelParts
  <2>0. \A k \in Ids' : jobrows'[k].queue \in Later \/ jobrows'[k].st = "done"
                         => k \in Ids /\ jobrows'[k] = jobrows[k]
    BY <1>7, <1>8 DEF Later
  <2>1. ExtractLeavesWord'
    BY <1>2, <2>0 DEF ExtractLeavesWord
  <2>2. LaterHasItem'
    BY <1>2, <2>0 DEF LaterHasItem
  <2>3. PendingIsCarried'
    <3> SUFFICES ASSUME NEW k \in Ids', jobrows'[k].queue \in Later, NEW n, n = jobrows'[k].about,
                        items[n].state = "pending"
                 PROVE  OpenOn("integrate", n)' \/ items[n].enrich \in Fetched
      BY <1>2 DEF PendingIsCarried
    <3>1. OpenOn("integrate", n) \/ items[n].enrich \in Fetched
      BY <2>0 DEF PendingIsCarried
    <3> QED
      BY <1>9, <3>1
  <2>4. FetchIsOpen'
    <3> SUFFICES ASSUME NEW n \in PolledMessages, items[n].enrich \in Fetched
                 PROVE  items[n].state = "pending" /\ OpenOn("enrich", n)'
      BY <1>2 DEF FetchIsOpen
    <3> QED
      BY <1>9 DEF FetchIsOpen
  <2>5. EnrichIsAlone'
    BY <1>2, <2>0 DEF EnrichIsAlone, Later
  <2>6. PlacedIffIntegrated'
    BY <1>2 DEF PlacedIffIntegrated
  <2> QED
    BY <2>1, <2>2, <2>3, <2>4, <2>5, <2>6
<1> QED
  BY <1>2, <1>7, <1>10, WalkGoesOn

\* A page of the operator's walk
LEMMA WalkKeeps == PanelsInv /\ admin_overview => PanelsInv'
<1> SUFFICES ASSUME PanelsInv, admin_overview PROVE PanelsInv'
  OBVIOUS
<1> USE DEF PanelsInv, PanelsTypes
<1> DEFINE S == {j \in Listed : walk.before = None \/ j < walk.before}
           found == admin_overview_jobs(walk.before, PageLimit + 1)
           page  == Newest(found, PageLimit)
           more  == Cardinality(found) > PageLimit
           owed  == IF walk.at = "idle" THEN Listed ELSE walk.owed
<1>1. /\ walk' = [at     |-> IF more THEN "walking" ELSE "idle",
                  before |-> IF more THEN Min(page) ELSE None,
                  owed   |-> IF more THEN owed ELSE {},
                  shown  |-> IF more THEN walk.shown \cup page ELSE {},
                  missed |-> IF more THEN {} ELSE (owed \cap Listed) \ (walk.shown \cup page),
                  twice  |-> walk.shown \cap page]
      /\ UNCHANGED <<jobrows, items, polling, skipped>>
  BY DEF admin_overview
<1>2. /\ Ids' = Ids /\ Listed' = Listed /\ Listed \subseteq Ids
      /\ \A q, n : OpenOn(q, n)' <=> OpenOn(q, n)
  BY <1>1 DEF Ids, Listed, OpenOn
<1>3. PanelParts'
  BY <1>1, <1>2 DEF PanelParts, ExtractLeavesWord, LaterHasItem, PendingIsCarried, FetchIsOpen,
                    EnrichIsAlone, PlacedIffIntegrated
<1>4. Len(jobrows) \in Nat /\ Ids = 1..Len(jobrows) /\ PageLimit \in Nat \ {0} /\ None \notin Nat
  BY IdsAreNumbers, PanelsAssumption
<1>5. S \subseteq 1..Len(jobrows)
  BY <1>2, <1>4
<1>6. found = Newest(S, PageLimit + 1)
  BY DEF admin_overview_jobs
<1> HIDE DEF found
<1>7. /\ page \subseteq S
      /\ more => /\ Min(page) \in page /\ \A p \in page : Min(page) <= p
                 /\ \A j \in S : j >= Min(page) => j \in page
      /\ ~ more => page = S
  <2> HIDE DEF S
  <2>1. PageLimit \in Nat \ {0} /\ Len(jobrows) \in Nat
    BY <1>4
  <2> QED
    BY <1>5, <1>6, <2>1, PageAndOne
<1> HIDE DEF page, more
<1>8. \A j \in Ids : j \in Nat
  BY <1>4
<1>9. walk'.missed = {} /\ walk'.twice = {}
  <2>1. CASE walk.at = "idle"
    BY <1>1, <1>7, <2>1 DEF WalkIsOnCourse
  <2>2. CASE walk.at # "idle"
    <3>1. /\ walk.at = "walking" /\ walk.before \in Nat
          /\ walk.owed \subseteq Ids /\ walk.shown \subseteq Ids
          /\ \A j \in walk.owed \cap Listed : j >= walk.before => j \in walk.shown
          /\ \A j \in walk.shown : j >= walk.before
      BY <2>2 DEF WalkIsOnCourse
    <3>2. \A j \in S : j < walk.before
      BY <1>4, <3>1
    <3>3. walk.shown \cap page = {}
      <4> SUFFICES ASSUME NEW j \in walk.shown, j \in page PROVE FALSE
        OBVIOUS
      <4>1. j \in Nat /\ j >= walk.before /\ j < walk.before
        BY <1>7, <1>8, <3>1, <3>2
      <4> QED
        BY <3>1, <4>1
    <3>4. ~ more => \A j \in walk.owed \cap Listed : j \in walk.shown \cup page
      <4> SUFFICES ASSUME ~ more, NEW j \in walk.owed \cap Listed, j \notin walk.shown
                   PROVE  j \in page
        OBVIOUS
      <4>1. j \in Nat /\ ~ (j >= walk.before)
        BY <1>2, <1>8, <3>1
      <4>2. j < walk.before
        BY <3>1, <4>1
      <4> QED
        BY <1>7, <4>2
    <3> QED
      BY <1>1, <2>2, <3>3, <3>4
  <2> QED
    BY <2>1, <2>2
<1>10. WalkIsOnCourse'
  <2>1. CASE ~ more
    BY <1>1, <1>9, <2>1 DEF WalkIsOnCourse
  <2>2. CASE more
    <3>0. page \subseteq Ids /\ Min(page) \in page /\ Min(page) \in Nat
      BY <1>2, <1>7, <1>8, <2>2
    <3>1. /\ walk'.at = "walking" /\ walk'.before = Min(page) /\ walk'.owed = owed
          /\ walk'.shown = walk.shown \cup page
      BY <1>1, <2>2
    <3>2. walk.shown \subseteq Ids /\ owed \subseteq Ids
      BY <1>2 DEF WalkIsOnCourse
    <3>3. \A j \in walk.shown : walk.before \in Nat /\ j >= walk.before /\ Min(page) < walk.before
      BY <1>4, <1>7, <3>0 DEF WalkIsOnCourse
    <3>4. ASSUME NEW j \in walk.shown \cup page PROVE j >= Min(page)
      <4>1. CASE j \in page
        BY <1>7, <1>8, <2>2, <3>0, <4>1
      <4>2. CASE j \in walk.shown
        <5>1. j \in Nat /\ walk.before \in Nat /\ j >= walk.before /\ Min(page) < walk.before
          BY <1>8, <3>2, <3>3, <4>2
        <5> QED
          BY <3>0, <5>1
      <4> QED
        BY <4>1, <4>2
    <3>5. ASSUME NEW j \in owed \cap Listed, j >= Min(page), j \notin page PROVE j \in walk.shown
      <4>1. j \notin S
        BY <1>7, <2>2, <3>5
      <4>2. walk.before # None /\ ~ (j < walk.before)
        BY <3>5, <4>1
      <4>3. walk.at = "walking" /\ walk.before \in Nat
            /\ \A i \in walk.owed \cap Listed : i >= walk.before => i \in walk.shown
        BY <4>2 DEF WalkIsOnCourse
      <4>4. j \in Nat /\ j >= walk.before
        BY <1>2, <1>8, <4>2, <4>3
      <4> QED
        BY <4>3, <4>4
    <3> HIDE DEF owed
    <3> QED
      BY <1>2, <1>9, <3>0, <3>1, <3>2, <3>4, <3>5 DEF WalkIsOnCourse
  <2> QED
    BY <2>1, <2>2
<1> QED
  BY <1>1, <1>3, <1>10

\* Every step of the pipeline and of the operator's walk keeps the invariant.
LEMMA PanelsStep == PanelsInv /\ [PanelsNext]_panelsVars => PanelsInv'
<1> SUFFICES ASSUME PanelsInv, [PanelsNext]_panelsVars PROVE PanelsInv'
  OBVIOUS
<1> USE DEF PanelsInv, PanelsTypes
<1>0. \A j \in Ids : /\ jobrows[j].about \in PolledMessages
                     /\ items[jobrows[j].about] \in PanelItems
  BY IdsAreNumbers
<1>1. ASSUME UNCHANGED <<jobrows, items, skipped, walk>>,
             polling' \in [Polls -> (SUBSET PolledMessages) \cup {None}]
      PROVE  PanelsInv'
  <2>1. Ids' = Ids /\ Listed' = Listed /\ \A q, n : OpenOn(q, n)' <=> OpenOn(q, n)
    BY <1>1 DEF Ids, Listed, OpenOn
  <2> QED
    BY <1>1, <2>1 DEF PanelParts, ExtractLeavesWord, LaterHasItem, PendingIsCarried, FetchIsOpen,
                    EnrichIsAlone, PlacedIffIntegrated, WalkIsOnCourse
<1>2. ASSUME NEW p \in Polls, poll_reads(p) PROVE PanelsInv'
  <2>1. Unqueued \in SUBSET PolledMessages
    BY DEF Unqueued
  <2> QED
    BY <1>1, <1>2, <2>1 DEF poll_reads
<1>3. ASSUME NEW j \in Ids, extract_completes(j) \/ extract_skips(j) PROVE PanelsInv'
  <2>1. /\ jobrows[j].queue = "extract" /\ jobrows[j].st = "running" /\ SetJob(j, "done")
        /\ UNCHANGED <<items, polling, walk>> /\ skipped \subseteq skipped'
        /\ items[jobrows[j].about].state # "absent" \/ jobrows[j].about \in skipped'
    BY <1>3 DEF extract_completes, extract_skips
  <2> QED
    BY <2>1, RowCloses DEF Terminal
<1>4. ASSUME NEW j \in Ids, job_gives_up(j) PROVE PanelsInv'
  <2> DEFINE m == jobrows[j].about
  <2>1. /\ jobrows[j].queue # "enrich" /\ jobrows[j].st = "running" /\ SetJob(j, "failed")
        /\ UNCHANGED <<polling, walk, skipped>>
        /\ items' = IF jobrows[j].queue = "integrate" /\ items[m].state = "pending"
                    THEN [items EXCEPT ![m] = [items[m] EXCEPT !.state = "failed"]] ELSE items
    BY <1>4 DEF job_gives_up
  <2>2. jobrows[j].queue \in {"extract", "integrate"}
    BY <2>1, IdsAreNumbers
  <2>3. jobrows[j].queue = "integrate" => items'[m].state # "pending"
    <3>1. [items[m] EXCEPT !.state = "failed"].state = "failed"
      BY <1>0 DEF PanelItems
    <3> QED
      BY <1>0, <2>1, <3>1
  <2>4. \/ items' = items
        \/ /\ items' = [items EXCEPT ![m] = [items[m] EXCEPT !.state = "failed"]]
           /\ items[m].state = "pending" /\ jobrows[j].queue = "integrate"
    BY <2>1
  <2>5. jobrows[j].st \in Open /\ jobrows[j].st # "pruned" /\ "failed" \in Terminal \cup {"pruned"}
    BY <2>1 DEF Terminal, Open
  <2>6. /\ SetJob(j, "failed") /\ UNCHANGED polling /\ UNCHANGED walk /\ skipped \subseteq skipped'
    BY <2>1
  <2> HIDE DEF m
  <2>7. m = jobrows[j].about
    BY DEF m
  <2> QED
    BY <2>2, <2>3, <2>4, <2>5, <2>6, <2>7, RowCloses
<1>5. ASSUME NEW j \in Ids, prune(j) PROVE PanelsInv'
  <2>1. /\ jobrows[j].st \in {"done", "failed"} /\ SetJob(j, "pruned")
        /\ UNCHANGED <<items, polling, walk, skipped>>
    BY <1>5 DEF prune, Terminal
  <2> QED
    BY <2>1, RowCloses DEF Open
<1>6. ASSUME NEW j \in Ids, integrate_completes(j) PROVE PanelsInv'
  <2>1. /\ jobrows[j].queue = "integrate" /\ jobrows[j].st = "running" /\ SetJob(j, "done")
        /\ UNCHANGED <<items, polling, walk, skipped>>
        /\ items[jobrows[j].about].state # "pending"
    BY <1>6 DEF integrate_completes
  <2> QED
    BY <2>1, RowCloses DEF Terminal
<1>7. ASSUME NEW j \in Ids, extract_lands(j) PROVE PanelsInv'
  <2>1. WaitingItem \in PanelItems /\ WaitingItem.state = "pending" /\ WaitingItem.position = None
        /\ WaitingItem.enrich = None
    BY DEF WaitingItem, Absent, PanelItems
  <2>2. /\ items[jobrows[j].about].state = "absent"
        /\ items' = [items EXCEPT ![jobrows[j].about] = WaitingItem]
        /\ UNCHANGED <<jobrows, polling, skipped, walk>>
    BY <1>7 DEF extract_lands
  <2>3. None \notin Fetched /\ items[jobrows[j].about].enrich \notin Fetched
    BY <1>0, <2>2, PanelsAssumption DEF Fetched, PanelParts, FetchIsOpen
  <2> QED
    BY <1>0, <2>1, <2>2, <2>3, ItemMoves
<1>8. ASSUME NEW j \in Ids, integrate_lands(j) PROVE PanelsInv'
  <2> DEFINE m == jobrows[j].about
  <2>1. PICK at \in {0, 1} :
            items' = [items EXCEPT ![m] = [items[m] EXCEPT !.state = "integrated", !.fresh = TRUE,
                                                            !.position = at]]
    BY <1>8 DEF integrate_lands
  <2>2. /\ jobrows[j].queue = "integrate" /\ items[m].state = "pending"
        /\ UNCHANGED <<jobrows, polling, skipped, walk>>
    BY <1>8 DEF integrate_lands
  <2> DEFINE r == [items[m] EXCEPT !.state = "integrated", !.fresh = TRUE, !.position = at]
  <2>3. r \in PanelItems /\ r.state = "integrated" /\ r.position = at /\ r.enrich = items[m].enrich
    BY <1>0 DEF PanelItems
  <2>4. items[m].enrich \notin Fetched
    BY <1>0, <2>2 DEF PanelParts, FetchIsOpen, EnrichIsAlone, OpenOn, Later
  <2>5. at # None
    BY PanelsAssumption
  <2> QED
    BY <1>0, <2>1, <2>2, <2>3, <2>4, <2>5, ItemMoves
<1>9. ASSUME NEW m \in PolledMessages, dismiss_held_source_items(m) PROVE PanelsInv'
  <2> DEFINE r == [items[m] EXCEPT !.state = "dismissed"]
  <2>1. /\ HeldWhere(m) /\ items' = [items EXCEPT ![m] = r]
        /\ UNCHANGED <<jobrows, polling, skipped, walk>>
    BY <1>9 DEF dismiss_held_source_items
  <2>2. r \in PanelItems /\ r.state = "dismissed" /\ r.position = items[m].position
        /\ r.enrich = items[m].enrich
    BY DEF PanelItems
  <2>3. items[m].state = "pending" /\ items[m].enrich \notin Fetched
    BY <2>1, HeldIsUnasked
  <2>4. items[m].position = None
    BY <2>3 DEF PanelParts, PlacedIffIntegrated
  <2> QED
    BY <2>1, <2>2, <2>3, <2>4, ItemMoves
<1>10. ASSUME NEW m \in PolledMessages, grace_ends(m) PROVE PanelsInv'
  <2> DEFINE r == [items[m] EXCEPT !.fresh = FALSE]
  <2>1. /\ items' = [items EXCEPT ![m] = r] /\ UNCHANGED <<jobrows, polling, skipped, walk>>
    BY <1>10 DEF grace_ends
  <2>2. r \in PanelItems /\ r.state = items[m].state /\ r.position = items[m].position
        /\ r.enrich = items[m].enrich
    BY DEF PanelItems
  <2>3. /\ items[m].position # None <=> items[m].state = "integrated"
        /\ items[m].enrich \in Fetched => items[m].state = "pending"
    BY DEF PanelParts, PlacedIffIntegrated, FetchIsOpen
  <2> QED
    BY <2>1, <2>2, <2>3, ItemMoves
<1>11. CASE UNCHANGED panelsVars
  BY <1>1, <1>11 DEF panelsVars
<1> QED
  BY <1>2, <1>3, <1>4, <1>5, <1>6, <1>7, <1>8, <1>9, <1>10, <1>11, QueuedKeeps, WalkKeeps, AskKeeps,
     HandOnKeeps, RowMoves DEF PanelsNext

\* The newest later job of an item is shown exactly when there is one.
LEMMA NewestIsShown ==
    ASSUME PanelsTypes, NEW m \in PolledMessages
    PROVE  NewestJob(m) = None <=> JobsOn(Later, m) = {}
<1> USE DEF PanelsTypes
<1>1. CASE JobsOn(Later, m) = {}
  BY <1>1 DEF NewestJob
<1>2. CASE JobsOn(Later, m) # {}
  <2>1. JobsOn(Later, m) \subseteq 1..Len(jobrows) /\ Len(jobrows) \in Nat
    BY IdsAreNumbers DEF JobsOn
  <2>2. Max(JobsOn(Later, m)) \in JobsOn(Later, m)
    BY <1>2, <2>1, MaxIsHighest
  <2>3. jobrows[Max(JobsOn(Later, m))] \in JobRow
    BY <2>2, IdsAreNumbers DEF JobsOn
  <2> QED
    BY <1>2, <2>3, PanelsAssumption DEF NewestJob
<1> QED
  BY <1>1, <1>2

\* A set of one has one.
LEMMA OneElement == \A x : IsFiniteSet({x}) /\ Cardinality({x}) = 1
  BY FS_Singleton

\* Every message is on exactly one surface.
LEMMA OneSurfaceHolds == PanelsInv => OneSurface
<1> SUFFICES ASSUME PanelsInv, NEW m \in PolledMessages
             PROVE  LET lines == list_ingestion[m] + Cardinality({m} \cap list_held_source_items)
                    IN  IF Settled(m) THEN lines = 0
                        ELSE IF items[m].state # "absent" THEN lines = 1
                        ELSE IF JobsOn({"extract"}, m) = {} \/ m \in skipped \cup gone THEN lines <= 1
                        ELSE lines = 1
  BY DEF OneSurface
<1> USE DEF PanelsInv, PanelsTypes
<1> DEFINE a == Cardinality(ItemLines(m))
           b == Cardinality(MessageLines(m))
           c == Cardinality({m} \cap list_held_source_items)
           open == {j \in JobsOn({"extract"}, m) : jobrows[j].st # "done"}
<1>1. list_ingestion[m] = a + b
  BY DEF list_ingestion
<1>2. a = IF /\ items[m].state \notin {"absent", "dismissed"}
             /\ items[m].state = "pending" => JobsOn(Later, m) # {}
             /\ items[m].state = "integrated" => items[m].fresh
          THEN 1 ELSE 0
  BY NewestIsShown, OneElement, FS_EmptySet DEF ItemLines
<1>3. c = IF items[m].state = "pending" /\ JobsOn(Later, m) = {} THEN 1 ELSE 0
  <2>1. m \in list_held_source_items <=> HeldWhere(m)
    BY DEF list_held_source_items
  <2>2. CASE HeldWhere(m)
    <3>1. {m} \cap list_held_source_items = {m}
      BY <2>1, <2>2
    <3> QED
      BY <2>2, <3>1, OneElement DEF HeldWhere
  <2>3. CASE ~ HeldWhere(m)
    <3>1. {m} \cap list_held_source_items = {}
      BY <2>1, <2>3
    <3> QED
      BY <2>3, <3>1, FS_EmptySet DEF HeldWhere
  <2> QED
    BY <2>2, <2>3
<1>4. b = IF items[m].state = "absent" /\ open # {} THEN 1 ELSE 0
  <2>1. open \subseteq 1..Len(jobrows) /\ Len(jobrows) \in Nat
    BY IdsAreNumbers DEF JobsOn
  <2>2. MessageLines(m) = {j \in open : items[m].state = "absent" /\ \A k \in open : k <= j}
    BY DEF MessageLines
  <2> HIDE DEF open
  <2>3. CASE items[m].state = "absent" /\ open # {}
    <3>1. PICK x \in open : \A y \in open : y <= x
      BY <2>1, <2>3, HighestExists
    <3>2. \A y \in open : y \in Nat
      BY <2>1
    <3>3. MessageLines(m) = {x}
      <4>1. x \in MessageLines(m)
        BY <2>2, <2>3, <3>1
      <4>2. ASSUME NEW y \in MessageLines(m) PROVE y = x
        <5>1. y \in Nat /\ x \in Nat /\ y <= x /\ x <= y
          BY <2>2, <3>1, <3>2
        <5> QED
          BY <5>1
      <4> QED
        BY <4>1, <4>2
    <3> QED
      BY <2>3, <3>3, OneElement
  <2>4. CASE ~ (items[m].state = "absent" /\ open # {})
    <3>1. MessageLines(m) = {}
      BY <2>2, <2>4
    <3> QED
      BY <2>4, <3>1, FS_EmptySet
  <2> QED
    BY <2>3, <2>4
<1>5. JobsOn({"extract"}, m) # {} /\ m \notin skipped /\ items[m].state = "absent" => open # {}
  <2> SUFFICES ASSUME NEW j \in JobsOn({"extract"}, m), m \notin skipped,
                      items[m].state = "absent"
               PROVE  j \in open
    OBVIOUS
  <2>1. j \in Ids /\ jobrows[j].queue = "extract" /\ jobrows[j].about = m
    BY DEF JobsOn
  <2>2. jobrows[j].st # "done"
    BY <2>1 DEF PanelParts, ExtractLeavesWord
  <2> QED
    BY <2>2
<1>6. items[m].state \in {"absent", "pending", "integrated", "failed", "dismissed"}
      /\ items[m].fresh \in BOOLEAN
  BY DEF PanelItems
<1> DEFINE lines == a + b + c
<1> HIDE DEF a, b, c, open
<1>7. a + b + c \in 0..1
      /\ (Settled(m) => a + b + c = 0)
      /\ (items[m].state # "absent" /\ ~ Settled(m) => a + b + c = 1)
      /\ (items[m].state = "absent" /\ open # {} => a + b + c = 1)
  BY <1>2, <1>3, <1>4, <1>6 DEF Settled
<1>8. list_ingestion[m] + Cardinality({m} \cap list_held_source_items) = a + b + c
  BY <1>1 DEF c
<1> HIDE DEF Settled
<1> QED
  BY <1>5, <1>7, <1>8

\* Four kinds that share nothing are together as many as the kinds are.
LEMMA FourKinds ==
    ASSUME NEW S, IsFiniteSet(S), NEW A, NEW B, NEW C, NEW D, S = A \cup B \cup C \cup D,
           A \cap B = {}, A \cap C = {}, A \cap D = {}, B \cap C = {}, B \cap D = {},
           C \cap D = {}
    PROVE  Cardinality(A) + Cardinality(B) + Cardinality(C) + Cardinality(D) = Cardinality(S)
<1>1. IsFiniteSet(A) /\ IsFiniteSet(B) /\ IsFiniteSet(C) /\ IsFiniteSet(D)
  BY FS_Subset
<1>2. /\ Cardinality(A) \in Nat /\ Cardinality(B) \in Nat /\ Cardinality(C) \in Nat
      /\ Cardinality(D) \in Nat
  BY <1>1, FS_CardinalityType
<1>3. Cardinality({}) = 0
  BY FS_EmptySet
<1>4. IsFiniteSet(A \cup B)
      /\ Cardinality(A \cup B) = Cardinality(A) + Cardinality(B) - Cardinality(A \cap B)
  BY <1>1, FS_Union
<1>5. IsFiniteSet(C \cup D)
      /\ Cardinality(C \cup D) = Cardinality(C) + Cardinality(D) - Cardinality(C \cap D)
  BY <1>1, FS_Union
<1>6. Cardinality((A \cup B) \cup (C \cup D))
          = Cardinality(A \cup B) + Cardinality(C \cup D)
              - Cardinality((A \cup B) \cap (C \cup D))
  BY <1>4, <1>5, FS_Union
<1>7. /\ S = (A \cup B) \cup (C \cup D) /\ (A \cup B) \cap (C \cup D) = {}
      /\ A \cap B = {} /\ C \cap D = {}
  OBVIOUS
<1> DEFINE a == Cardinality(A)
           b == Cardinality(B)
           c == Cardinality(C)
           d == Cardinality(D)
<1>8. Cardinality(A \cup B) = a + b - 0 /\ Cardinality(C \cup D) = c + d - 0
  BY <1>3, <1>4, <1>5, <1>7
<1>9. Cardinality(S) = (a + b - 0) + (c + d - 0) - 0
  BY <1>3, <1>6, <1>7, <1>8
<1>10. a \in Nat /\ b \in Nat /\ c \in Nat /\ d \in Nat
  BY <1>2
<1> HIDE DEF a, b, c, d
<1>11. Cardinality(S) = a + b + c + d
  BY <1>9, <1>10
<1> QED
  BY <1>11 DEF a, b, c, d

\* What the page of an item says, by what is there of it
LEMMA DetailSays ==
    ASSUME PanelsInv, NEW m \in PolledMessages
    PROVE  /\ _source_item_detail(m) = "done" <=> items[m].state = "integrated"
           /\ _source_item_detail(m) = "enriching" <=> items[m].enrich \in Fetched
           /\ items[m].state # "absent" => (_source_item_detail(m) = "held" <=> HeldWhere(m))
           /\ items[m].enrich \in Fetched => items[m].state = "pending" /\ ~ HeldWhere(m)
<1> USE DEF PanelsInv, PanelsTypes
<1>1. items[m].state \in {"absent", "pending", "integrated", "failed", "dismissed"}
  BY DEF PanelItems
<1>2. NewestJob(m) = None <=> JobsOn(Later, m) = {}
  BY NewestIsShown
<1>3. items[m].enrich \in Fetched => items[m].state = "pending" /\ JobsOn(Later, m) # {}
  <2> SUFFICES ASSUME items[m].enrich \in Fetched
               PROVE  items[m].state = "pending" /\ JobsOn(Later, m) # {}
    OBVIOUS
  <2>1. items[m].state = "pending" /\ OpenOn("enrich", m)
    BY DEF PanelParts, FetchIsOpen
  <2>2. PICK j \in Ids : jobrows[j].queue = "enrich" /\ jobrows[j].about = m
                         /\ jobrows[j].st \in Open
    BY <2>1 DEF OpenOn
  <2>3. j \in JobsOn(Later, m)
    BY <2>2 DEF JobsOn, Later, Open
  <2> QED
    BY <2>1, <2>3
<1> QED
  BY <1>1, <1>2, <1>3 DEF _source_item_detail, source_item_lifecycle, HeldWhere, Fetched

\* The two outcomes of the page's list of steps
LEMMA TwoSteps ==
    /\ <<>> \o <<"dedup">> = <<"dedup">>
    /\ <<"enrich">> \o <<"dedup">> = <<"enrich", "dedup">>
<1> DEFINE s == Append(<<"enrich">>, "dedup")
           t == <<"enrich", "dedup">>
           S == {"enrich", "dedup"}
<1>1. /\ <<"enrich">> \in Seq(S) /\ "dedup" \in S /\ Len(<<"enrich">>) = 1
      /\ <<"dedup">> \in Seq(S)
  OBVIOUS
<1>2. s \in Seq(S) /\ Len(s) = 2 /\ s[1] = "enrich" /\ s[2] = "dedup"
  BY <1>1, AppendProperties
<1>3. t \in Seq(S) /\ Len(t) = 2 /\ t[1] = "enrich" /\ t[2] = "dedup"
  OBVIOUS
<1>4. s = <<"enrich">> \o <<"dedup">> /\ <<>> \o <<"dedup">> = <<"dedup">>
  BY <1>1, AppendIsConcat, ConcatEmptySeq
<1> HIDE DEF s, t, S
<1>5. \A i \in 1..Len(s) : s[i] = t[i]
  BY <1>2, <1>3
<1>6. s = t
  BY <1>2, <1>3, <1>5, SeqEqual
<1> QED
  BY <1>4, <1>6 DEF t

\* The page of an item, the lists and the operator's counts agree.
LEMMA PagesAgreeHolds == PanelsInv => PagesAgree
<1> SUFFICES ASSUME PanelsInv PROVE PagesAgree
  OBVIOUS
<1> USE DEF PanelsInv, PanelsTypes
<1>1. ASSUME NEW m \in PolledMessages, items[m].state # "absent"
      PROVE  /\ _source_item_detail(m) = "held" <=> m \in list_held_source_items
             /\ _source_item_detail(m) = "done" <=> Outcome(m) # None
             /\ Outcome(m) # None => Steps(m) \in {<<"dedup">>, <<"enrich", "dedup">>}
  <2>1. _source_item_detail(m) = "held" <=> m \in list_held_source_items
    BY <1>1, DetailSays DEF list_held_source_items
  <2>2. Outcome(m) # None <=> items[m].position # None
    BY PanelsAssumption DEF Outcome, PanelItems
  <2>3. _source_item_detail(m) = "done" <=> Outcome(m) # None
    BY <2>2, DetailSays DEF PanelParts, PlacedIffIntegrated
  <2>4. ASSUME Outcome(m) # None PROVE Steps(m) \in {<<"dedup">>, <<"enrich", "dedup">>}
    <3>1. Steps(m) = _enrich_step(m) \o <<"dedup">>
      BY <2>3, <2>4 DEF Steps
    <3> QED
      BY <3>1, TwoSteps DEF _enrich_step
  <2> QED
    BY <2>1, <2>3, <2>4
<1>2. ASSUME NEW q \in {"extract", "enrich", "integrate"}
      PROVE  admin_overview_queues[q]["ready"] + admin_overview_queues[q]["running"]
               + admin_overview_queues[q]["done"] + admin_overview_queues[q]["failed"]
               = Cardinality({j \in Listed : jobrows[j].queue = q})
  <2> DEFINE of(s) == {j \in Ids : jobrows[j].queue = q /\ jobrows[j].st = s}
             S == {j \in Listed : jobrows[j].queue = q}
  <2>1. \A s \in {"ready", "running", "done", "failed"} :
            admin_overview_queues[q][s] = Cardinality(of(s))
    BY DEF admin_overview_queues, Open, Terminal
  <2>2. S = of("ready") \cup of("running") \cup of("done") \cup of("failed")
    <3>1. \A j \in Ids : jobrows[j].st \in {"ready", "running", "done", "failed", "pruned"}
      BY IdsAreNumbers DEF Open, Terminal
    <3> QED
      BY <3>1 DEF Listed
  <2>3. IsFiniteSet(S)
    <3>1. S \subseteq 1..Len(jobrows) /\ Len(jobrows) \in Int /\ 1 \in Int
      BY IdsAreNumbers DEF Listed
    <3>2. IsFiniteSet(1..Len(jobrows))
      BY <3>1, FS_Interval
    <3> QED
      BY <3>1, <3>2, FS_Subset
  <2>4. /\ of("ready") \cap of("running") = {} /\ of("ready") \cap of("done") = {}
        /\ of("ready") \cap of("failed") = {} /\ of("running") \cap of("done") = {}
        /\ of("running") \cap of("failed") = {} /\ of("done") \cap of("failed") = {}
    OBVIOUS
  <2> HIDE DEF of, S
  <2>5. Cardinality(of("ready")) + Cardinality(of("running")) + Cardinality(of("done"))
            + Cardinality(of("failed")) = Cardinality(S)
    BY <2>2, <2>3, <2>4, FourKinds
  <2> QED
    BY <2>1, <2>5 DEF S
<1>3. admin_overview_users["held"]
          = Cardinality(list_held_source_items)
            + Cardinality({m \in PolledMessages : _source_item_detail(m) = "enriching"})
  <2> DEFINE H == list_held_source_items
             E == {m \in PolledMessages : _source_item_detail(m) = "enriching"}
  <2>1. admin_overview_users["held"] = Cardinality(CountedHeld)
    BY DEF admin_overview_users
  <2>2. ASSUME NEW m \in PolledMessages
        PROVE  m \in CountedHeld <=> m \in H \/ m \in E
    <3>1. ASSUME m \in H PROVE m \in CountedHeld
      BY <3>1 DEF list_held_source_items, HeldWhere, CountedHeld, JobsOn, Later
    <3>2. ASSUME m \in E PROVE m \in CountedHeld
      <4>1. items[m].enrich \in Fetched /\ items[m].state = "pending" /\ OpenOn("enrich", m)
        BY <3>2, DetailSays DEF PanelParts, FetchIsOpen
      <4>2. PICK j \in Ids : jobrows[j].queue = "enrich" /\ jobrows[j].about = m
                             /\ jobrows[j].st \in Open
        BY <4>1 DEF OpenOn
      <4>3. \A k \in Ids : jobrows[k].queue \in Later /\ jobrows[k].about = m => k = j
        BY <4>2 DEF PanelParts, EnrichIsAlone
      <4>4. JobsOn({"integrate"}, m) = {}
        BY <4>2, <4>3 DEF JobsOn, Later
      <4> QED
        BY <4>1, <4>4 DEF CountedHeld
    <3>3. ASSUME m \in CountedHeld, m \notin H PROVE m \in E
      <4>1. items[m].state = "pending" /\ JobsOn({"integrate"}, m) = {} /\ JobsOn(Later, m) # {}
        BY <3>3 DEF CountedHeld, list_held_source_items, HeldWhere
      <4>2. PICK j \in Ids : jobrows[j].queue \in Later /\ jobrows[j].about = m
        BY <4>1 DEF JobsOn
      <4>3. ~ OpenOn("integrate", m)
        BY <4>1 DEF OpenOn, JobsOn, Open
      <4>4. items[m].enrich \in Fetched
        BY <4>1, <4>2, <4>3 DEF PanelParts, PendingIsCarried
      <4> QED
        BY <4>4, DetailSays
    <3> QED
      BY <3>1, <3>2, <3>3
  <2>3. \A m \in PolledMessages : m \in E => m \notin H
    BY DetailSays DEF list_held_source_items
  <2>4. H \subseteq PolledMessages /\ E \subseteq PolledMessages /\ CountedHeld \subseteq PolledMessages
    BY DEF list_held_source_items, CountedHeld
  <2> HIDE DEF H, E
  <2>5. CountedHeld = H \cup E /\ H \cap E = {}
    BY <2>2, <2>3, <2>4
  <2>6. IsFiniteSet(H) /\ IsFiniteSet(E) /\ Cardinality(H) \in Nat /\ Cardinality(E) \in Nat
    BY <2>4, PanelsAssumption, FS_Subset, FS_CardinalityType
  <2>7. Cardinality(H \cup E) = Cardinality(H) + Cardinality(E) - Cardinality(H \cap E)
    BY <2>6, FS_Union
  <2>8. Cardinality({}) = 0
    BY FS_EmptySet
  <2>9. Cardinality(CountedHeld) = Cardinality(H) + Cardinality(E)
    <3> DEFINE h == Cardinality(H)
               e == Cardinality(E)
    <3>1. Cardinality(CountedHeld) = h + e - 0 /\ h \in Nat /\ e \in Nat
      BY <2>5, <2>6, <2>7, <2>8
    <3> HIDE DEF h, e
    <3>2. Cardinality(CountedHeld) = h + e
      BY <3>1
    <3> QED
      BY <3>2 DEF h, e
  <2> QED
    BY <2>1, <2>9 DEF H, E
<1> QED
  BY <1>1, <1>2, <1>3 DEF PagesAgree

\* The invariant gives what the lists, the pages and the walk promise.
LEMMA PanelsUse == PanelsInv => PanelsAreHonest
  BY OneSurfaceHolds, PagesAgreeHolds DEF PanelsAreHonest, PanelsInv, WalkIsOnCourse, WalkIsComplete

\* The lists, the pages and the counts agree, and a walk over the job pages misses nothing.
THEOREM PanelsHold == PanelsSpec => []PanelsAreHonest
  BY PanelsStart, PanelsStep, PanelsUse, PTL DEF PanelsSpec

(***************************************************************************)
(* BuildPanel                                                              *)
(***************************************************************************)

\* The samples that are no larger than one of them
AtMost(s, v) == Cardinality({i \in 1..Len(s) : s[i] <= v})
Reached(s, k) == {v \in {s[i] : i \in 1..Len(s)} : AtMost(s, v) >= k}

\* The k-th of the samples is one of them, k of them do not exceed it, and it is the
\* least such.
LEMMA NthIsThere ==
    ASSUME NEW s \in Seq(Nat), NEW k \in 1..Len(s)
    PROVE  Nth(s, k) \in Reached(s, k) /\ \A v \in Reached(s, k) : Nth(s, k) <= v
<1> DEFINE n == Len(s)
           Below(v) == {i \in 1..n : s[i] <= v}
<1>0. n \in Nat /\ k \in 1..n /\ \A i \in 1..n : s[i] \in Nat
  OBVIOUS
<1> HIDE DEF n
<1>1. IsFiniteSet(1..n) /\ Cardinality(1..n) = n
  <2>1. 1 \in Int /\ n \in Int /\ (IF 1 > n THEN 0 ELSE n - 1 + 1) = n
    BY <1>0
  <2> QED
    BY <2>1, FS_Interval
<1>2. ASSUME NEW v
      PROVE  /\ IsFiniteSet(Below(v)) /\ Cardinality(Below(v)) \in Nat
             /\ Cardinality(Below(v)) <= n /\ AtMost(s, v) = Cardinality(Below(v))
  <2>1. Below(v) \subseteq 1..n
    OBVIOUS
  <2>2. AtMost(s, v) = Cardinality(Below(v))
    BY DEF AtMost, n
  <2> HIDE DEF Below
  <2>3. IsFiniteSet(Below(v)) /\ Cardinality(Below(v)) <= n
    BY <1>1, <2>1, FS_Subset
  <2> QED
    BY <2>2, <2>3, FS_CardinalityType
<1>3. \E i \in 1..n : AtMost(s, s[i]) >= n
  <2> DEFINE am(v) == AtMost(s, v)
  <2>0. \A v : am(v) \in Nat /\ am(v) <= n
    BY <1>2
  <2> HIDE DEF am
  <2> SUFFICES ASSUME \A i \in 1..n : am(s[i]) < n PROVE FALSE
    BY <1>0, <2>0 DEF am
  <2> DEFINE T == {n - am(s[i]) : i \in 1..n}
  <2>1. T \subseteq Nat /\ T # {}
    BY <1>0, <2>0
  <2> HIDE DEF T
  <2>2. PICK t \in T : \A y \in T : t <= y
    BY <2>1, LowestExists
  <2>3. PICK i \in 1..n : t = n - am(s[i])
    BY DEF T
  <2>4. PICK j \in 1..n : ~ (s[j] <= s[i])
    <3> SUFFICES ASSUME \A j \in 1..n : s[j] <= s[i] PROVE FALSE
      OBVIOUS
    <3>1. Below(s[i]) = 1..n
      OBVIOUS
    <3>2. AtMost(s, s[i]) = Cardinality(Below(s[i]))
      BY <1>2
    <3> HIDE DEF Below
    <3>3. am(s[i]) = n
      BY <1>1, <3>1, <3>2 DEF am
    <3> QED
      BY <1>0, <3>3
  <2>5. Below(s[i]) \subseteq Below(s[j]) /\ j \in Below(s[j]) /\ j \notin Below(s[i])
    <3>1. s[i] \in Nat /\ s[j] \in Nat /\ s[i] <= s[j] /\ s[j] <= s[j]
      BY <1>0, <2>4
    <3>2. \A l \in 1..n : s[l] <= s[i] => s[l] <= s[j]
      BY <1>0, <3>1
    <3> QED
      BY <2>4, <3>1, <3>2
  <2>6. Cardinality(Below(s[i])) < Cardinality(Below(s[j]))
    <3> HIDE DEF Below
    <3>1. Cardinality(Below(s[i])) <= Cardinality(Below(s[j]))
          /\ Cardinality(Below(s[i])) # Cardinality(Below(s[j]))
      BY <1>2, <2>5, FS_Subset
    <3> QED
      BY <1>2, <3>1
  <2>7. n - am(s[j]) \in T
    BY DEF T
  <2>8. t <= n - am(s[j])
    BY <2>2, <2>7
  <2>9. am(s[i]) < am(s[j])
    <3>1. AtMost(s, s[i]) = Cardinality(Below(s[i])) /\ AtMost(s, s[j]) = Cardinality(Below(s[j]))
      BY <1>2
    <3> HIDE DEF Below
    <3> QED
      BY <2>6, <3>1 DEF am
  <2> QED
    BY <1>0, <2>0, <2>3, <2>8, <2>9
<1>4. Reached(s, k) # {} /\ Reached(s, k) \subseteq Nat
  <2>1. PICK i \in 1..n : AtMost(s, s[i]) >= n
    BY <1>3
  <2> DEFINE a == AtMost(s, s[i])
  <2>2. a \in Nat
    BY <1>2
  <2>3. a >= n
    BY <2>1
  <2>4. n >= k /\ k \in Nat
    BY <1>0 DEF n
  <2> HIDE DEF a
  <2>5. a >= k
    BY <1>0, <2>2, <2>3, <2>4
  <2> QED
    BY <1>0, <2>5 DEF Reached, a, n
<1>5. \E m \in Reached(s, k) : \A v \in Reached(s, k) : m <= v
  BY <1>4, LowestExists
<1>6. Nth(s, k) = Min(Reached(s, k))
  BY DEF Nth, Reached, AtMost
<1> QED
  BY <1>5, <1>6 DEF Min

\* A median lies between two of the samples.
LEMMA EstimateIsBetween ==
    ASSUME NEW s \in Seq(Nat), estimate_ms(s) # None
    PROVE  \E i, k \in 1..Len(s) : s[i] <= estimate_ms(s) /\ estimate_ms(s) <= s[k]
<1> DEFINE n == Len(s)
<1>1. n \in Nat /\ n >= 3 /\ \A i \in 1..n : s[i] \in Nat
  <2>1. n \in Nat /\ \A i \in 1..n : s[i] \in Nat
    OBVIOUS
  <2>2. ~ (n < 3)
    BY DEF estimate_ms
  <2> QED
    BY <2>1, <2>2
<1>2. ASSUME NEW k \in 1..n PROVE \E i \in 1..n : Nth(s, k) = s[i]
  BY NthIsThere DEF Reached
<1>3. CASE n % 2 = 1
  <2>1. estimate_ms(s) = Nth(s, (n + 1) \div 2) /\ (n + 1) \div 2 \in 1..n
    BY <1>1, <1>3 DEF estimate_ms
  <2>2. PICK i \in 1..n : Nth(s, (n + 1) \div 2) = s[i]
    BY <1>2, <2>1
  <2>3. s[i] <= estimate_ms(s) /\ estimate_ms(s) <= s[i]
    BY <1>1, <2>1, <2>2
  <2> QED
    BY <2>3
<1>4. CASE n % 2 # 1
  <2> DEFINE h == n \div 2
             a == Nth(s, h)
             b == Nth(s, h + 1)
  <2>1. estimate_ms(s) = (a + b) \div 2
    BY <1>1, <1>4 DEF estimate_ms
  <2>2. h \in 1..n /\ h + 1 \in 1..n
    BY <1>1
  <2> HIDE DEF h
  <2>3. PICK i \in 1..n : a = s[i]
    BY <1>2, <2>2
  <2>4. PICK k \in 1..n : b = s[k]
    BY <1>2, <2>2
  <2>5. a <= b
    <3>1. b \in Reached(s, h + 1) /\ \A v \in Reached(s, h) : a <= v
      BY <2>2, NthIsThere
    <3>2. b \in {s[l] : l \in 1..n} /\ AtMost(s, b) >= h + 1
      BY <3>1 DEF Reached
    <3>3. AtMost(s, b) \in Nat
      <4> DEFINE below == {l \in 1..Len(s) : s[l] <= b}
      <4>1. below \subseteq 1..Len(s) /\ 1 \in Int /\ Len(s) \in Int
        OBVIOUS
      <4> HIDE DEF below
      <4>2. IsFiniteSet(1..Len(s))
        BY <4>1, FS_Interval
      <4>3. Cardinality(below) \in Nat
        BY <4>1, <4>2, FS_Subset, FS_CardinalityType
      <4> QED
        BY <4>3 DEF AtMost, below
    <3>4. AtMost(s, b) >= h
      BY <2>2, <3>2, <3>3
    <3> QED
      BY <3>1, <3>2, <3>4 DEF Reached
  <2>6. a \in Nat /\ b \in Nat
    BY <1>1, <2>3, <2>4
  <2> HIDE DEF a, b
  <2>7. a <= (a + b) \div 2 /\ (a + b) \div 2 <= b
    BY <2>5, <2>6
  <2> QED
    BY <2>1, <2>3, <2>4, <2>7
<1> QED
  BY <1>3, <1>4

StageRows == [st : {"none", "ready", "running", "failed", "done"}, attempts : Nat, error : BOOLEAN]

\* While an episode builds, the row of its own stage is waiting or being run, and no
\* panel has drawn the bar past it.
BuildIsOwed ==
    episode.state \in Building =>
        /\ stages[STEP_FOR_STATE[episode.state]].st \in {"ready", "running"}
        /\ bar <= StepIndex(STEP_FOR_STATE[episode.state]) - 1

BuildInv ==
    /\ episode.state \in Building \cup {"ready", "failed"}
    /\ stages \in [StepNames -> StageRows] /\ bar \in 0..3
    /\ BuildIsOwed /\ BuildPanelHolds

\* The three steps and the states they are for
LEMMA StepTable ==
    /\ Building = {"pending", "scripting", "rendering"}
    /\ STEP_FOR_STATE["pending"] = "assemble" /\ STEP_FOR_STATE["scripting"] = "script"
    /\ STEP_FOR_STATE["rendering"] = "tts"
    /\ NextState["pending"] = "scripting" /\ NextState["scripting"] = "rendering"
    /\ NextState["rendering"] = "ready"
    /\ StepIndex("assemble") = 1 /\ StepIndex("script") = 2 /\ StepIndex("tts") = 3
    /\ STEP_ORDER[1] = "assemble" /\ STEP_ORDER[2] = "script" /\ STEP_ORDER[3] = "tts"
<1>1. Building = {"pending", "scripting", "rendering"}
  BY DEF Building, STEP_FOR_STATE
<1>2. /\ STEP_FOR_STATE["pending"] = "assemble" /\ STEP_FOR_STATE["scripting"] = "script"
      /\ STEP_FOR_STATE["rendering"] = "tts"
  BY DEF STEP_FOR_STATE
<1>3. /\ NextState["pending"] = "scripting" /\ NextState["scripting"] = "rendering"
      /\ NextState["rendering"] = "ready"
  BY <1>1 DEF NextState
<1>4. STEP_ORDER[1] = "assemble" /\ STEP_ORDER[2] = "script" /\ STEP_ORDER[3] = "tts"
  BY DEF STEP_ORDER
<1>5. 1..3 = {1, 2, 3}
  OBVIOUS
<1>6. StepIndex("assemble") = 1 /\ StepIndex("script") = 2 /\ StepIndex("tts") = 3
  BY <1>4, <1>5 DEF StepIndex
<1> QED
  BY <1>1, <1>2, <1>3, <1>4, <1>6

\* The row that stands for a building episode is its own stage's; for another it is one
\* of the open ones, if there is any.
LEMMA ChosenIsOwn ==
    ASSUME BuildInv
    PROVE  /\ Chosen \in StepNames \cup {None}
           /\ episode.state \in Building => Chosen = STEP_FOR_STATE[episode.state]
<1> USE DEF BuildInv, StepNames
<1> DEFINE extra(q) == (IF stages[q].st = "running" THEN 8 ELSE 0)
                         + (IF stages[q].st # "failed" THEN 4 ELSE 0) + StepIndex(q)
<1>1. \A q \in StepNames : extra(q) \in 1..15
  BY StepTable
<1>2. \A q \in StepNames : Ahead(q) = (IF Own(q) THEN 16 ELSE 0) + extra(q)
  BY <1>1, StepTable DEF Ahead
<1> HIDE DEF extra
<1>3. \A q \in StepNames : Ahead(q) \in Nat
  BY <1>1, <1>2
<1>4. OpenRows \subseteq {"assemble", "script", "tts"}
  BY DEF OpenRows
<1>5. OpenRows # {} => \E q \in OpenRows : \A p \in OpenRows : Ahead(p) <= Ahead(q)
  <2>1. Ahead("assemble") \in Nat /\ Ahead("script") \in Nat /\ Ahead("tts") \in Nat
    BY <1>3
  <2> DEFINE a == Ahead("assemble")
             b == Ahead("script")
             c == Ahead("tts")
             best == IF "assemble" \in OpenRows /\ ("script" \in OpenRows => b <= a)
                        /\ ("tts" \in OpenRows => c <= a) THEN "assemble"
                     ELSE IF "script" \in OpenRows /\ ("tts" \in OpenRows => c <= b) THEN "script"
                     ELSE IF "tts" \in OpenRows THEN "tts" ELSE "assemble"
  <2> HIDE DEF a, b, c
  <2>2. a \in Nat /\ b \in Nat /\ c \in Nat
    BY <2>1 DEF a, b, c
  <2>3. \A p \in OpenRows : \/ p = "assemble" /\ Ahead(p) = a
                            \/ p = "script" /\ Ahead(p) = b
                            \/ p = "tts" /\ Ahead(p) = c
    BY <1>4 DEF a, b, c
  <2>4. OpenRows # {} => best \in OpenRows /\ \A p \in OpenRows : Ahead(p) <= Ahead(best)
    BY <2>2, <2>3
  <2> QED
    BY <2>4
<1>6. OpenRows # {} => Chosen \in OpenRows /\ \A p \in OpenRows : Ahead(p) <= Ahead(Chosen)
  BY <1>5 DEF Chosen
<1>7. Chosen \in StepNames \cup {None}
  BY <1>4, <1>6 DEF Chosen
<1>8. ASSUME episode.state \in Building PROVE Chosen = STEP_FOR_STATE[episode.state]
  <2> DEFINE own == STEP_FOR_STATE[episode.state]
  <2>1. own \in StepNames
    BY <1>8, StepTable
  <2>2. own \in OpenRows
    BY <1>8, <2>1 DEF OpenRows, BuildIsOwed
  <2>3. Own(own) /\ \A q \in StepNames : Own(q) => q = own
    BY <1>8 DEF Own
  <2>4. Chosen \in OpenRows /\ Ahead(own) <= Ahead(Chosen)
    BY <1>6, <2>2
  <2> HIDE DEF own
  <2>5. Own(Chosen)
    BY <1>1, <1>2, <1>4, <2>1, <2>3, <2>4
  <2>6. Chosen = own
    BY <1>4, <2>3, <2>4, <2>5
  <2> QED
    BY <2>6 DEF own
<1> QED
  BY <1>7, <1>8

\* The invariant holds when the episode has just been asked for.
LEMMA BuildStart == BuildInit => BuildInv
<1> SUFFICES ASSUME BuildInit PROVE BuildInv
  OBVIOUS
<1> USE DEF BuildInit
<1>1. NoStageJob \in StageRows /\ [NoStageJob EXCEPT !.st = "ready"] \in StageRows
      /\ [NoStageJob EXCEPT !.st = "ready"].st = "ready"
  BY DEF NoStageJob, StageRows
<1>2. stages \in [StepNames -> StageRows]
  BY <1>1
<1>3. BuildIsOwed
  BY <1>1, StepTable DEF BuildIsOwed, StepNames
<1>4. BuildPanelHolds
  BY DEF BuildPanelHolds, PanelIsTrue, BarNeverGoesBack
<1> QED
  BY <1>2, <1>3, <1>4, StepTable DEF BuildInv

\* What a reading shows is so, and the bar it draws is the stage's own.
LEMMA PanelShows ==
    ASSUME BuildInv, _build_progress
    PROVE  BuildInv'
<1> USE DEF BuildInv
<1> DEFINE build == episode_builds
           own == STEP_FOR_STATE[episode.state]
<1>1. PICK s \in IF build.state \in Building THEN Samples ELSE {<<>>} :
          panel' = IF reports_progress(listed_copy) THEN build_progress(listed_copy, build, s)
                   ELSE None
  BY DEF _build_progress
<1>2. s \in Seq(Nat)
  <2>1. CASE build.state \in Building
    BY <2>1, BuildPanelAssumption
  <2>2. CASE build.state \notin Building
    <3>1. s = <<>>
      BY <2>2
    <3> QED
      BY <3>1
  <2> QED
    BY <2>1, <2>2
<1>3. /\ bar' = (IF panel' = None THEN bar ELSE panel'.done)
      /\ UNCHANGED <<clock_b, episode, stages, beats>>
  BY DEF _build_progress
<1>4. /\ build.state = episode.state /\ build.queue = Chosen
      /\ Chosen \in StepNames \cup {None} /\ None \notin StepNames
      /\ episode.state \in Building => Chosen = own /\ own \in StepNames
  BY ChosenIsOwn, StepTable, BuildPanelAssumption DEF episode_builds, StepNames
<1> DEFINE stage == StageOf(episode.state, Chosen)
           step == IF stage = "ready" THEN None
                   ELSE IF episode.state \in Building THEN own ELSE Chosen
           flying == stage \in {"queued", "running", "retrying"}
           idle == stage \in {"queued", "retrying"} /\ ~ _worker_alive(step)
           starting == idle /\ _worker_starting(step, Chosen)
           shown == [stage |-> stage, step |-> step,
                     done |-> IF stage = "ready" THEN 3
                              ELSE IF step = None THEN 0 ELSE StepIndex(step) - 1,
                     estimate |-> IF flying THEN estimate_ms(s) ELSE None,
                     of |-> s, was |-> bar, waiting |-> idle /\ ~ starting,
                     starting |-> starting,
                     truth |-> [state |-> episode.state,
                                held |-> {q \in StepNames : stages[q].st = "running"},
                                seen |-> {q \in StepNames : _worker_alive(q)}]]
<1>5. panel' = None \/ panel' = shown
  BY <1>1, <1>4 DEF build_progress, Verdict
<1>6. CASE panel' = None
  BY <1>3, <1>6 DEF BuildIsOwed, BuildPanelHolds, PanelIsTrue, BarNeverGoesBack
<1>7. CASE panel' = shown /\ panel' # None
  <2>1. /\ episode.state \in {"ready", "failed"} => stage = episode.state
        /\ episode.state \in Building =>
               IF stages[own].st = "running" THEN stage = "running"
               ELSE stage \in {"queued", "retrying"}
    BY <1>4, StepTable DEF StageOf
  <2>2. \/ episode.state \in Building /\ step = own
        \/ episode.state = "ready" /\ step = None
        \/ episode.state = "failed" /\ step = Chosen
    BY <2>1, StepTable
  <2>3. /\ panel'.stage = stage /\ panel'.step = step /\ panel'.was = bar /\ panel'.of = s
        /\ panel'.done = IF stage = "ready" THEN 3
                         ELSE IF step = None THEN 0 ELSE StepIndex(step) - 1
        /\ panel'.estimate = IF flying THEN estimate_ms(s) ELSE None
        /\ panel'.truth.state = episode.state
        /\ panel'.truth.held = {q \in StepNames : stages[q].st = "running"}
        /\ panel'.truth.seen = {q \in StepNames : _worker_alive(q)}
    BY <1>7
  <2>4. panel'.waiting => stage \in {"queued", "retrying"} /\ ~ _worker_alive(step)
    BY <1>7, Zenon
  <2> HIDE DEF stage, step
  <2>5. panel'.done \in 0..3 /\ (stage # "failed" => panel'.done >= bar)
        /\ (stage = "failed" => panel'.done < 3)
        /\ (episode.state \in Building => panel'.done = StepIndex(own) - 1)
    BY <1>4, <2>1, <2>2, <2>3, StepTable DEF StepNames, BuildIsOwed
  <2>6. BuildIsOwed'
    BY <1>3, <1>7, <2>5 DEF BuildIsOwed
  <2>7. BarNeverGoesBack'
    BY <2>3, <2>5 DEF BarNeverGoesBack
  <2>8. panel'.estimate # None =>
            \E i, k \in 1..Len(panel'.of) :
                panel'.of[i] <= panel'.estimate /\ panel'.estimate <= panel'.of[k]
    BY <1>2, <2>3, EstimateIsBetween
  <2>9. PanelIsTrue'
    <3>1. panel'.stage \in {"failed", "ready"} \/ panel'.truth.state \in {"failed", "ready"}
              => panel'.stage = panel'.truth.state
      BY <2>1, <2>3
    <3>2. panel'.stage = "running" <=>
              panel'.truth.state \in Building /\ panel'.step \in panel'.truth.held
      BY <1>4, <2>1, <2>2, <2>3, StepTable
    <3>3. panel'.waiting => panel'.step \notin panel'.truth.seen \cup panel'.truth.held
      BY <1>4, <2>1, <2>2, <2>3, <2>4, StepTable
    <3> QED
      BY <2>8, <3>1, <3>2, <3>3 DEF PanelIsTrue
  <2> QED
    BY <1>3, <1>7, <2>5, <2>6, <2>7, <2>9 DEF BuildPanelHolds
<1> QED
  BY <1>5, <1>6, <1>7

\* Every step of the workers and of a watching client keeps the invariant.
LEMMA BuildStep == BuildInv /\ [BuildNext]_buildVars => BuildInv'
<1> SUFFICES ASSUME BuildInv, [BuildNext]_buildVars PROVE BuildInv'
  OBVIOUS
<1> USE DEF BuildInv
<1>0. panel' = None => BuildPanelHolds'
  BY DEF BuildPanelHolds, PanelIsTrue, BarNeverGoesBack
<1>1. CASE list_episodes
  BY <1>0, <1>1 DEF list_episodes, BuildIsOwed
<1>2. CASE build_tick
  BY <1>0, <1>2 DEF build_tick, Unwatched, BuildIsOwed
<1>3. ASSUME NEW q \in StepNames, record_worker_heartbeat(q) PROVE BuildInv'
  BY <1>0, <1>3 DEF record_worker_heartbeat, Unwatched, BuildIsOwed
<1>4. ASSUME NEW q \in StepNames, claim_stage(q) PROVE BuildInv'
  <2>1. /\ stages' = [stages EXCEPT ![q] = [stages[q] EXCEPT !.st = "running",
                                                 !.attempts = stages[q].attempts + 1]]
        /\ panel' = None /\ UNCHANGED <<episode, bar>>
    BY <1>4 DEF claim_stage, Set, Unwatched
  <2>2. [stages[q] EXCEPT !.st = "running", !.attempts = stages[q].attempts + 1] \in StageRows
    <3>1. stages[q] \in StageRows
      OBVIOUS
    <3> DEFINE a == stages[q].attempts + 1
    <3>2. a \in Nat
      BY <3>1 DEF StageRows
    <3> HIDE DEF a
    <3>3. [stages[q] EXCEPT !.st = "running", !.attempts = a] \in StageRows
      BY <3>1, <3>2 DEF StageRows
    <3> QED
      BY <3>3 DEF a
  <2> QED
    BY <1>0, <2>1, <2>2, StepTable DEF BuildIsOwed, StepNames, StageRows
<1>5. ASSUME NEW q \in StepNames, stage_lands(q) PROVE BuildInv'
  <2>1. /\ episode.state \in Building /\ STEP_FOR_STATE[episode.state] = q
        /\ episode'.state = NextState[episode.state]
        /\ stages' = IF q = "tts" THEN stages
                     ELSE [stages EXCEPT ![STEP_ORDER[StepIndex(q) + 1]] =
                              [NoStageJob EXCEPT !.st = "ready"]]
        /\ panel' = None /\ bar' = bar
    BY <1>5 DEF stage_lands, Own, Unwatched
  <2>2. [NoStageJob EXCEPT !.st = "ready"] \in StageRows
        /\ [NoStageJob EXCEPT !.st = "ready"].st = "ready"
    BY DEF NoStageJob, StageRows
  <2>3. CASE q = "tts"
    BY <1>0, <2>1, <2>3, StepTable DEF BuildIsOwed
  <2>4. CASE q # "tts"
    <3> DEFINE nxt == STEP_ORDER[StepIndex(q) + 1]
    <3>1. nxt \in StepNames /\ episode'.state \in Building
          /\ STEP_FOR_STATE[episode'.state] = nxt /\ StepIndex(nxt) = StepIndex(q) + 1
          /\ StepIndex(q) \in 1..2
      BY <2>1, <2>4, StepTable DEF StepNames
    <3>2. stages' \in [StepNames -> StageRows] /\ stages'[nxt].st = "ready"
      BY <2>1, <2>2, <2>4, <3>1
    <3> HIDE DEF nxt
    <3>3. bar <= StepIndex(q) - 1
      BY <2>1 DEF BuildIsOwed
    <3> QED
      BY <1>0, <2>1, <3>1, <3>2, <3>3 DEF BuildIsOwed
  <2> QED
    BY <2>3, <2>4
<1>6. ASSUME NEW q \in StepNames, stage_completes(q) PROVE BuildInv'
  <2>1. /\ ~ Own(q) /\ stages' = [stages EXCEPT ![q] = [stages[q] EXCEPT !.st = "done"]]
        /\ panel' = None /\ UNCHANGED <<episode, bar>>
    BY <1>6 DEF stage_completes, Set, Unwatched
  <2>2. [stages[q] EXCEPT !.st = "done"] \in StageRows
    BY DEF StageRows
  <2> QED
    BY <1>0, <2>1, <2>2 DEF BuildIsOwed, Own
<1>7. ASSUME NEW q \in StepNames, stage_fails(q) PROVE BuildInv'
  <2>0. /\ [stages[q] EXCEPT !.st = "ready", !.error = TRUE] \in StageRows
        /\ [stages[q] EXCEPT !.st = "failed", !.error = TRUE] \in StageRows
        /\ [stages[q] EXCEPT !.st = "ready", !.error = TRUE].st = "ready"
    BY DEF StageRows
  <2>1. /\ panel' = None /\ bar' = bar
        /\ \/ /\ stages' = [stages EXCEPT ![q] = [stages[q] EXCEPT !.st = "ready", !.error = TRUE]]
              /\ episode' = episode
           \/ /\ stages' = [stages EXCEPT ![q] = [stages[q] EXCEPT !.st = "failed", !.error = TRUE]]
              /\ episode'.state = "failed"
    BY <1>7 DEF stage_fails, Set, Unwatched
  <2>2. stages' \in [StepNames -> StageRows] /\ \A p \in StepNames : p # q => stages'[p] = stages[p]
    BY <2>0, <2>1
  <2>3. CASE /\ stages' = [stages EXCEPT ![q] = [stages[q] EXCEPT !.st = "ready", !.error = TRUE]]
             /\ episode' = episode
    <3>1. stages'[q].st = "ready"
      BY <2>0, <2>3
    <3>2. BuildIsOwed'
      BY <2>1, <2>2, <2>3, <3>1, StepTable DEF BuildIsOwed, StepNames
    <3> QED
      BY <1>0, <2>1, <2>2, <2>3, <3>2
  <2>4. CASE episode'.state = "failed"
    <3>1. BuildIsOwed'
      BY <2>4, StepTable DEF BuildIsOwed
    <3> QED
      BY <1>0, <2>1, <2>2, <2>4, <3>1
  <2> QED
    BY <2>1, <2>3, <2>4
<1>8. ASSUME NEW q \in StepNames, sweep_stage(q) PROVE BuildInv'
  <2>1. /\ stages[q].st \in {"done", "failed"} /\ stages' = [stages EXCEPT ![q] = NoStageJob]
        /\ panel' = None /\ UNCHANGED <<episode, bar>>
    BY <1>8 DEF sweep_stage, Set, Unwatched
  <2>2. NoStageJob \in StageRows
    BY DEF NoStageJob, StageRows
  <2> QED
    BY <1>0, <2>1, <2>2 DEF BuildIsOwed
<1>9. CASE UNCHANGED buildVars
  BY <1>9 DEF buildVars, BuildIsOwed, BuildPanelHolds, PanelIsTrue, BarNeverGoesBack
<1> QED
  BY <1>1, <1>2, <1>3, <1>4, <1>5, <1>6, <1>7, <1>8, <1>9, PanelShows DEF BuildNext

\* The panel of a build says what was so when it was read, and its bar never goes back.
THEOREM BuildPanelAlwaysHolds == BuildSpec => []BuildPanelHolds
<1>1. BuildInv => BuildPanelHolds
  BY DEF BuildInv
<1> QED
  BY <1>1, BuildStart, BuildStep, PTL DEF BuildSpec

(***************************************************************************)
(* Hearing                                                                 *)
(***************************************************************************)

\* The sums of the first 0, 1, 2, ... of a sequence of lengths
IsSums(f, s) == f = [k \in 0..Len(s) |-> IF k = 0 THEN 0 ELSE f[k - 1] + s[k]]
Sums(s) == CHOOSE f : IsSums(f, s)

\* The sums of the first n, for an n up to the whole
IsSumsTo(f, s, n) == f = [k \in 0..n |-> IF k = 0 THEN 0 ELSE f[k - 1] + s[k]]

\* Sums exist, one after the other.
LEMMA SumsReach ==
    ASSUME NEW s \in Seq(Nat)
    PROVE  \A n \in 0..Len(s) : \E f : IsSumsTo(f, s, n)
<1> DEFINE Bad == {n \in 0..Len(s) : \A f : ~ IsSumsTo(f, s, n)}
<1>0. Len(s) \in Nat
  BY LenProperties
<1>1. SUFFICES ASSUME Bad # {} PROVE FALSE
  BY <1>1
<1>2. Bad \subseteq Nat
  BY <1>0
<1>3. PICK m \in Bad : \A y \in Bad : m <= y
  <2> HIDE DEF Bad
  <2> QED
    BY <1>1, <1>2, LowestExists
<1>4. m \in 0..Len(s) /\ \A f : ~ IsSumsTo(f, s, m)
  BY <1>3
<1>5. m # 0
  <2>1. SUFFICES ASSUME m = 0 PROVE FALSE
    BY <2>1
  <2> DEFINE h == [k \in 0..0 |-> 0]
  <2>2. h = [k \in 0..0 |-> IF k = 0 THEN 0 ELSE h[k - 1] + s[k]]
    OBVIOUS
  <2> QED
    BY <1>4, <2>1, <2>2 DEF IsSumsTo
<1>6. m - 1 \in 0..Len(s) /\ m - 1 \in Nat /\ m \in Nat /\ ~ (m <= m - 1)
  BY <1>0, <1>4, <1>5
<1>7. PICK g : IsSumsTo(g, s, m - 1)
  BY <1>3, <1>6
<1> DEFINE h == [k \in 0..m |-> IF k < m THEN g[k] ELSE g[m - 1] + s[m]]
<1>8. \A k \in 0..m : h[k] = IF k = 0 THEN 0 ELSE h[k - 1] + s[k]
  <2> TAKE k \in 0..m
  <2>1. g = [i \in 0..(m - 1) |-> IF i = 0 THEN 0 ELSE g[i - 1] + s[i]]
    BY <1>7 DEF IsSumsTo
  <2>2. CASE k = 0
    BY <1>5, <1>6, <2>1, <2>2
  <2>3. CASE k # 0 /\ k < m
    <3>1. k \in 0..(m - 1) /\ k - 1 \in 0..m /\ k - 1 < m
      BY <1>6, <2>3
    <3> QED
      BY <2>1, <2>3, <3>1
  <2>4. CASE k = m
    BY <1>5, <1>6, <2>4
  <2> QED
    BY <1>6, <2>2, <2>3, <2>4
<1>9. h = [k \in 0..m |-> IF k = 0 THEN 0 ELSE h[k - 1] + s[k]]
  BY <1>8
<1> QED
  BY <1>4, <1>9 DEF IsSumsTo

\* The sums of a sequence, as a function
LEMMA SumsAre ==
    ASSUME NEW s \in Seq(Nat)
    PROVE  /\ DOMAIN Sums(s) = 0..Len(s) /\ Sums(s)[0] = 0
           /\ \A k \in 1..Len(s) : Sums(s)[k] = Sums(s)[k - 1] + s[k]
           /\ Total(s) = Sums(s)[Len(s)]
<1>0. Len(s) \in Nat
  BY LenProperties
<1>1. \E f : IsSums(f, s)
  BY <1>0, SumsReach DEF IsSums, IsSumsTo
<1>2. IsSums(Sums(s), s)
  BY <1>1 DEF Sums
<1>3. Total(s) = Sums(s)[Len(s)]
  BY DEF Total, Sums, IsSums
<1> HIDE DEF Sums
<1>4. Sums(s) = [k \in 0..Len(s) |-> IF k = 0 THEN 0 ELSE Sums(s)[k - 1] + s[k]]
  BY <1>2 DEF IsSums
<1>5. DOMAIN Sums(s) = 0..Len(s)
  BY <1>4
<1>6. \A k \in 0..Len(s) : Sums(s)[k] = IF k = 0 THEN 0 ELSE Sums(s)[k - 1] + s[k]
  BY <1>4
<1> QED
  BY <1>0, <1>3, <1>5, <1>6

\* What can only fail at a first place, and does not, holds at every place.
LEMMA NoFirst ==
    ASSUME NEW n \in Nat, NEW Bad, Bad \subseteq 0..n, 0 \notin Bad,
           \A m \in Bad : m - 1 \in Bad
    PROVE  Bad = {}
<1>1. SUFFICES ASSUME Bad # {} PROVE FALSE
  BY <1>1
<1>2. Bad \subseteq Nat
  OBVIOUS
<1>3. PICK m \in Bad : \A y \in Bad : m <= y
  BY <1>1, <1>2, LowestExists
<1> QED
  BY <1>2, <1>3

\* Every sum is a number, and a later one is no less.
LEMMA SumsGrow ==
    ASSUME NEW s \in Seq(Nat)
    PROVE  /\ \A k \in 0..Len(s) : Sums(s)[k] \in Nat
           /\ \A i, k \in 0..Len(s) : i <= k => Sums(s)[i] <= Sums(s)[k]
<1>0. Len(s) \in Nat /\ \A i \in 1..Len(s) : s[i] \in Nat
  BY LenProperties, ElementOfSeq
<1>1. /\ Sums(s)[0] = 0
      /\ \A k \in 1..Len(s) : Sums(s)[k] = Sums(s)[k - 1] + s[k]
  BY SumsAre
<1>2. \A k \in 0..Len(s) : Sums(s)[k] \in Nat
  <2> DEFINE Bad == {k \in 0..Len(s) : Sums(s)[k] \notin Nat}
  <2>1. 0 \notin Bad
    BY <1>1
  <2>2. \A m \in Bad : m - 1 \in Bad
    <3> TAKE m \in Bad
    <3>1. m \in 1..Len(s) /\ m - 1 \in 0..Len(s)
      BY <1>0, <2>1
    <3>2. Sums(s)[m] = Sums(s)[m - 1] + s[m] /\ s[m] \in Nat
      BY <1>0, <1>1, <3>1
    <3>3. Sums(s)[m - 1] \in Nat => Sums(s)[m] \in Nat
      BY <3>2
    <3> QED
      BY <3>1, <3>3
  <2>3. Bad \subseteq 0..Len(s)
    OBVIOUS
  <2>4. Bad = {}
    <3> HIDE DEF Bad
    <3> QED
      BY <1>0, <2>1, <2>2, <2>3, NoFirst
  <2> QED
    BY <2>4
<1>3. ASSUME NEW i \in 0..Len(s)
      PROVE  \A k \in 0..Len(s) : i <= k => Sums(s)[i] <= Sums(s)[k]
  <2> DEFINE Bad == {k \in 0..Len(s) : i <= k /\ ~ (Sums(s)[i] <= Sums(s)[k])}
  <2>0. i \in Nat /\ Sums(s)[i] \in Nat
    BY <1>0, <1>2
  <2>1. i \notin Bad
    BY <2>0
  <2>2. \A m \in Bad : m - 1 \in Bad
    <3> TAKE m \in Bad
    <3>1. m \in 1..Len(s) /\ m - 1 \in 0..Len(s) /\ i <= m - 1
      BY <1>0, <2>0, <2>1
    <3>2. Sums(s)[m - 1] \in Nat /\ s[m] \in Nat /\ Sums(s)[m] = Sums(s)[m - 1] + s[m]
      BY <1>0, <1>1, <1>2, <3>1
    <3>3. ~ (Sums(s)[i] <= Sums(s)[m])
      OBVIOUS
    <3>4. ~ (Sums(s)[i] <= Sums(s)[m - 1])
      BY <2>0, <3>2, <3>3
    <3> QED
      BY <3>1, <3>4
  <2>3. Bad \subseteq 0..Len(s)
    OBVIOUS
  <2>4. 0 \notin Bad
    BY <2>0, <2>1
  <2>5. Bad = {}
    <3> HIDE DEF Bad
    <3> QED
      BY <1>0, <2>2, <2>3, <2>4, NoFirst
  <2> QED
    BY <2>5
<1> QED
  BY <1>2, <1>3

\* The total of a beginning is the sum up to there.
LEMMA TotalOfBeginning ==
    ASSUME NEW s \in Seq(Nat), NEW p \in Seq(Nat), Len(p) <= Len(s),
           \A i \in 1..Len(p) : p[i] = s[i]
    PROVE  Total(p) = Sums(s)[Len(p)]
<1>0. Len(s) \in Nat /\ Len(p) \in Nat
  BY LenProperties
<1>1. /\ Sums(s)[0] = 0
      /\ \A k \in 1..Len(s) : Sums(s)[k] = Sums(s)[k - 1] + s[k]
      /\ Sums(p)[0] = 0
      /\ \A k \in 1..Len(p) : Sums(p)[k] = Sums(p)[k - 1] + p[k]
      /\ Total(p) = Sums(p)[Len(p)]
  BY SumsAre
<1> DEFINE Bad == {k \in 0..Len(p) : Sums(p)[k] # Sums(s)[k]}
<1>2. 0 \notin Bad
  BY <1>1
<1>3. \A m \in Bad : m - 1 \in Bad
  <2> TAKE m \in Bad
  <2>1. m \in 1..Len(p) /\ m \in 1..Len(s) /\ m - 1 \in 0..Len(p)
    BY <1>0, <1>2
  <2> QED
    BY <1>1, <2>1
<1>4. Bad \subseteq 0..Len(p)
  OBVIOUS
<1>5. Bad = {}
  <2> HIDE DEF Bad
  <2> QED
    BY <1>0, <1>2, <1>3, <1>4, NoFirst
<1>6. Len(p) \in 0..Len(p)
  BY <1>0
<1> QED
  BY <1>1, <1>5, <1>6

\* The lengths of a transcript's segments
Lengths_of(t) == [i \in 1..Len(t) |-> Total(t[i])]

\* The beginning of a sequence of lengths: what its members are.
LEMMA BeginningIs ==
    ASSUME NEW s \in Seq(Nat), NEW n \in Nat, n <= Len(s)
    PROVE  /\ SubSeq(s, 1, n) \in Seq(Nat) /\ Len(SubSeq(s, 1, n)) = n
           /\ \A i \in 1..n : SubSeq(s, 1, n)[i] = s[i]
  BY LenProperties, SubSeqProperties

\* Where segments and claims begin and end, in sums
LEMMA LaidOut ==
    ASSUME NEW t \in Seq(Seq(Nat))
    PROVE  /\ Lengths_of(t) \in Seq(Nat) /\ Len(Lengths_of(t)) = Len(t)
           /\ \A k \in 1..Len(t) :
                 /\ t[k] \in Seq(Nat)
                 /\ Starts(t, k) = Sums(Lengths_of(t))[k - 1]
                 /\ Ends(t, k) = Sums(Lengths_of(t))[k]
                 /\ Ends(t, k) = Starts(t, k) + Sums(t[k])[Len(t[k])]
                 /\ \A c \in 1..Len(t[k]) :
                       /\ ClaimStarts(t, k, c) = Starts(t, k) + Sums(t[k])[c - 1]
                       /\ ClaimEnds(t, k, c) = Starts(t, k) + Sums(t[k])[c]
<1> DEFINE D == Lengths_of(t)
<1>0. Len(t) \in Nat /\ \A k \in 1..Len(t) : t[k] \in Seq(Nat)
  BY LenProperties, ElementOfSeq
<1>1. \A k \in 1..Len(t) : Total(t[k]) = Sums(t[k])[Len(t[k])] /\ Total(t[k]) \in Nat
  <2> TAKE k \in 1..Len(t)
  <2>1. t[k] \in Seq(Nat) /\ Len(t[k]) \in 0..Len(t[k])
    BY <1>0, LenProperties
  <2> QED
    BY <2>1, SumsAre, SumsGrow
<1>2. D \in Seq(Nat) /\ Len(D) = Len(t) /\ \A i \in 1..Len(t) : D[i] = Total(t[i])
  BY <1>0, <1>1 DEF Lengths_of
<1> HIDE DEF D
<1>3. ASSUME NEW k \in 1..Len(t)
      PROVE  /\ Starts(t, k) = Sums(D)[k - 1]
             /\ Ends(t, k) = Sums(D)[k]
             /\ Ends(t, k) = Starts(t, k) + Sums(t[k])[Len(t[k])]
  <2> DEFINE p == [i \in 1..(k - 1) |-> Total(t[i])]
  <2>1. k - 1 \in Nat /\ k - 1 <= Len(t)
    BY <1>0
  <2>2. p \in Seq(Nat) /\ Len(p) = k - 1 /\ \A i \in 1..(k - 1) : p[i] = D[i]
    BY <1>0, <1>1, <1>2, <2>1
  <2>3. Starts(t, k) = Total(p)
    BY DEF Starts
  <2> HIDE DEF p
  <2>4. Starts(t, k) = Sums(D)[k - 1]
    BY <1>2, <2>1, <2>2, <2>3, TotalOfBeginning
  <2>5. Sums(D)[k] = Sums(D)[k - 1] + D[k]
    BY <1>2, SumsAre
  <2> QED
    BY <1>1, <1>2, <2>4, <2>5 DEF Ends
<1>4. ASSUME NEW k \in 1..Len(t), NEW c \in 1..Len(t[k])
      PROVE  /\ ClaimStarts(t, k, c) = Starts(t, k) + Sums(t[k])[c - 1]
             /\ ClaimEnds(t, k, c) = Starts(t, k) + Sums(t[k])[c]
  <2>0. t[k] \in Seq(Nat) /\ Len(t[k]) \in Nat
    BY <1>0, LenProperties
  <2>1. c - 1 \in 0..Len(t[k]) /\ c \in 0..Len(t[k]) /\ c - 1 <= Len(t[k]) /\ c - 1 \in Nat
    BY <2>0
  <2> DEFINE p == SubSeq(t[k], 1, c - 1)
  <2>2. p \in Seq(Nat) /\ Len(p) = c - 1 /\ \A i \in 1..(c - 1) : p[i] = t[k][i]
    BY <2>0, <2>1, BeginningIs
  <2>3. ClaimStarts(t, k, c) = Starts(t, k) + Total(p)
    BY DEF ClaimStarts
  <2> HIDE DEF p
  <2>4. Total(p) = Sums(t[k])[c - 1]
    BY <2>0, <2>1, <2>2, TotalOfBeginning
  <2>5. Sums(t[k])[c] = Sums(t[k])[c - 1] + t[k][c]
    BY <2>0, SumsAre
  <2>6. Sums(t[k])[c - 1] \in Nat /\ t[k][c] \in Nat /\ Starts(t, k) \in Nat
    <3>1. k - 1 \in 0..Len(D)
      BY <1>0, <1>2
    <3> QED
      BY <1>2, <1>3, <2>0, <2>1, <3>1, SumsGrow, ElementOfSeq
  <2> QED
    BY <2>3, <2>4, <2>5, <2>6 DEF ClaimEnds
<1> QED
  BY <1>0, <1>2, <1>3, <1>4 DEF D

\* Inside a segment that begins at b, claims follow each other from b on.
LEMMA ClaimsFollow ==
    ASSUME NEW s \in Seq(Nat), NEW b \in Nat, NEW c \in 1..Len(s)
    PROVE  /\ b + Sums(s)[c - 1] \in Nat /\ b + Sums(s)[c] \in Nat
           /\ s[c] \in Nat
           /\ b + Sums(s)[c] = (b + Sums(s)[c - 1]) + s[c]
           /\ b + Sums(s)[c] <= b + Sums(s)[Len(s)]
           /\ b <= b + Sums(s)[c - 1]
           /\ \A d \in 1..Len(s) : d < c => b + Sums(s)[d] <= b + Sums(s)[c - 1]
<1>1. Len(s) \in Nat /\ s[c] \in Nat
  BY LenProperties, ElementOfSeq
<1>2. /\ Sums(s)[c] = Sums(s)[c - 1] + s[c]
      /\ \A d \in 0..Len(s) : Sums(s)[d] \in Nat
      /\ \A i, d \in 0..Len(s) : i <= d => Sums(s)[i] <= Sums(s)[d]
  BY SumsAre, SumsGrow
<1>3. /\ c - 1 \in 0..Len(s) /\ c \in 0..Len(s) /\ Len(s) \in 0..Len(s) /\ c <= Len(s)
  BY <1>1
<1>4. /\ Sums(s)[c - 1] \in Nat /\ Sums(s)[c] \in Nat /\ Sums(s)[Len(s)] \in Nat
      /\ Sums(s)[c] <= Sums(s)[Len(s)]
  BY <1>2, <1>3
<1>5. ASSUME NEW d \in 1..Len(s), d < c PROVE b + Sums(s)[d] <= b + Sums(s)[c - 1]
  <2>1. d \in 0..Len(s) /\ d <= c - 1
    BY <1>1, <1>5
  <2>2. Sums(s)[d] \in Nat /\ Sums(s)[d] <= Sums(s)[c - 1]
    BY <1>2, <1>3, <2>1
  <2> QED
    BY <1>4, <2>2
<1>6. PICK x \in Nat : x = Sums(s)[c - 1]
  BY <1>4
<1>7. PICK y \in Nat : y = Sums(s)[c]
  BY <1>4
<1>8. PICK z \in Nat : z = Sums(s)[Len(s)]
  BY <1>4
<1>9. PICK v \in Nat : v = s[c]
  BY <1>1
<1>10. y = x + v /\ y <= z
  BY <1>2, <1>4, <1>6, <1>7, <1>8, <1>9
<1>11. b + x \in Nat /\ b + y \in Nat /\ b + y = (b + x) + v /\ b + y <= b + z /\ b <= b + x
  BY <1>10
<1> QED
  BY <1>1, <1>5, <1>6, <1>7, <1>8, <1>9, <1>11

\* The order of a laid-out transcript: claims one after the other inside their segment,
\* segments one after the other, the first from zero.
LEMMA InOrder ==
    ASSUME NEW t \in Seq(Seq(Nat))
    PROVE  /\ Len(t) > 0 => Starts(t, 1) = 0
           /\ \A k \in 1..Len(t) :
                 /\ Starts(t, k) \in Nat /\ Ends(t, k) \in Nat /\ Starts(t, k) <= Ends(t, k)
                 /\ k - 1 \in 1..Len(t) => Starts(t, k) = Ends(t, k - 1)
                 /\ \A m \in 1..Len(t) : m < k => Ends(t, m) <= Starts(t, k)
                 /\ \A c \in 1..Len(t[k]) :
                       /\ ClaimStarts(t, k, c) \in Nat /\ ClaimEnds(t, k, c) \in Nat
                       /\ t[k][c] \in Nat
                       /\ ClaimEnds(t, k, c) = ClaimStarts(t, k, c) + t[k][c]
                       /\ ClaimEnds(t, k, c) <= Ends(t, k)
                       /\ c = Len(t[k]) => ClaimEnds(t, k, c) = Ends(t, k)
                       /\ Starts(t, k) <= ClaimStarts(t, k, c)
                       /\ \A d \in 1..Len(t[k]) : d < c => ClaimEnds(t, k, d) <= ClaimStarts(t, k, c)
<1> DEFINE D == Lengths_of(t)
<1>0. /\ Len(t) \in Nat /\ D \in Seq(Nat) /\ Len(D) = Len(t)
      /\ \A k \in 1..Len(t) : /\ Starts(t, k) = Sums(D)[k - 1]
                              /\ Ends(t, k) = Sums(D)[k]
  BY LaidOut, LenProperties
<1> HIDE DEF D
<1>1. /\ Sums(D)[0] = 0
      /\ \A k \in 0..Len(t) : Sums(D)[k] \in Nat
      /\ \A i, k \in 0..Len(t) : i <= k => Sums(D)[i] <= Sums(D)[k]
  BY <1>0, SumsAre, SumsGrow
<1>2. Len(t) > 0 => Starts(t, 1) = 0
  BY <1>0, <1>1
<1>3. ASSUME NEW k \in 1..Len(t)
      PROVE  /\ Starts(t, k) \in Nat /\ Ends(t, k) \in Nat /\ Starts(t, k) <= Ends(t, k)
             /\ k - 1 \in 1..Len(t) => Starts(t, k) = Ends(t, k - 1)
             /\ \A m \in 1..Len(t) : m < k => Ends(t, m) <= Starts(t, k)
  <2>1. k - 1 \in 0..Len(t) /\ k \in 0..Len(t) /\ k - 1 <= k
    BY <1>0
  <2>2. ASSUME NEW m \in 1..Len(t), m < k PROVE Ends(t, m) <= Starts(t, k)
    <3>1. m \in 0..Len(t) /\ m <= k - 1
      BY <1>0, <2>2
    <3> QED
      BY <1>0, <1>1, <2>1, <3>1
  <2> QED
    BY <1>0, <1>1, <2>1, <2>2
<1>4. ASSUME NEW k \in 1..Len(t), NEW c \in 1..Len(t[k])
      PROVE  /\ ClaimStarts(t, k, c) \in Nat /\ ClaimEnds(t, k, c) \in Nat
             /\ t[k][c] \in Nat
             /\ ClaimEnds(t, k, c) = ClaimStarts(t, k, c) + t[k][c]
             /\ ClaimEnds(t, k, c) <= Ends(t, k)
             /\ c = Len(t[k]) => ClaimEnds(t, k, c) = Ends(t, k)
             /\ Starts(t, k) <= ClaimStarts(t, k, c)
             /\ \A d \in 1..Len(t[k]) : d < c => ClaimEnds(t, k, d) <= ClaimStarts(t, k, c)
  <2>0. t[k] \in Seq(Nat) /\ Starts(t, k) \in Nat
    BY <1>3, LaidOut
  <2>1. /\ Ends(t, k) = Starts(t, k) + Sums(t[k])[Len(t[k])]
        /\ \A d \in 1..Len(t[k]) :
              /\ ClaimStarts(t, k, d) = Starts(t, k) + Sums(t[k])[d - 1]
              /\ ClaimEnds(t, k, d) = Starts(t, k) + Sums(t[k])[d]
    BY LaidOut
  <2>2. /\ ClaimStarts(t, k, c) = Starts(t, k) + Sums(t[k])[c - 1]
        /\ ClaimEnds(t, k, c) = Starts(t, k) + Sums(t[k])[c]
    BY <2>1
  <2>3. \A s \in Seq(Nat) : \A b \in Nat : \A e \in 1..Len(s) :
           /\ b + Sums(s)[e - 1] \in Nat /\ b + Sums(s)[e] \in Nat
           /\ s[e] \in Nat
           /\ b + Sums(s)[e] = (b + Sums(s)[e - 1]) + s[e]
           /\ b + Sums(s)[e] <= b + Sums(s)[Len(s)]
           /\ b <= b + Sums(s)[e - 1]
           /\ \A d \in 1..Len(s) : d < e => b + Sums(s)[d] <= b + Sums(s)[e - 1]
    BY ClaimsFollow
  <2>4. /\ Starts(t, k) + Sums(t[k])[c - 1] \in Nat /\ Starts(t, k) + Sums(t[k])[c] \in Nat
        /\ t[k][c] \in Nat
        /\ Starts(t, k) + Sums(t[k])[c] = (Starts(t, k) + Sums(t[k])[c - 1]) + t[k][c]
        /\ Starts(t, k) + Sums(t[k])[c] <= Starts(t, k) + Sums(t[k])[Len(t[k])]
        /\ Starts(t, k) <= Starts(t, k) + Sums(t[k])[c - 1]
        /\ \A d \in 1..Len(t[k]) :
              d < c => Starts(t, k) + Sums(t[k])[d] <= Starts(t, k) + Sums(t[k])[c - 1]
    BY <2>0, <2>3, Zenon
  <2> QED
    BY <2>1, <2>2, <2>4
<1> QED
  BY <1>2, <1>3, <1>4

\* The least of a set of numbers is of it, and none is lower.
LEMMA LeastIsLeast ==
    ASSUME NEW S, S \subseteq Nat, S # {}
    PROVE  Least(S) \in S /\ \A m \in S : Least(S) <= m
  BY LowestExists DEF Least

\* What plays at an instant that is not over: something does.
LEMMA SomethingPlays ==
    ASSUME NEW t \in Seq(Seq(Nat)), t # <<>>, NEW offset \in Nat,
           ~ (offset >= Ends(t, Len(t)))
    PROVE  \E k \in 1..Len(t) : During(Starts(t, k), Ends(t, k), offset)
<1> DEFINE Ahead_of == {k \in 1..Len(t) : Ends(t, k) > offset}
<1>1. Len(t) \in Nat /\ Len(t) > 0 /\ Len(t) \in 1..Len(t)
  BY EmptySeq, LenProperties
<1>2. /\ Starts(t, 1) = 0
      /\ \A k \in 1..Len(t) :
            /\ Starts(t, k) \in Nat /\ Ends(t, k) \in Nat
            /\ k - 1 \in 1..Len(t) => Starts(t, k) = Ends(t, k - 1)
  BY <1>1, InOrder
<1>3. Len(t) \in Ahead_of
  BY <1>1, <1>2
<1>4. PICK k \in Ahead_of : \A m \in Ahead_of : k <= m
  <2>1. Ahead_of \subseteq Nat
    BY <1>1
  <2> HIDE DEF Ahead_of
  <2> QED
    BY <1>3, <2>1, LowestExists
<1>5. Starts(t, k) <= offset
  <2>1. CASE k = 1
    BY <1>2, <2>1
  <2>2. CASE k # 1
    <3>1. k - 1 \in 1..Len(t) /\ ~ (k <= k - 1)
      BY <1>1, <2>2
    <3>2. k - 1 \notin Ahead_of
      BY <1>4, <3>1
    <3> QED
      BY <1>2, <3>1, <3>2
  <2> QED
    BY <2>1, <2>2
<1>6. Starts(t, k) \in Nat /\ Ends(t, k) \in Nat /\ Ends(t, k) > offset
  BY <1>2
<1> QED
  BY <1>5, <1>6 DEF During, Later_of

\* What locate answers is what played.
LEMMA LocateIsTrue ==
    ASSUME NEW t \in Seq(Seq(Nat)), t # <<>>, NEW offset \in Nat, None \notin Nat
    PROVE  LET p == locate(t, offset)
               over == offset >= Ends(t, Len(t))
           IN  /\ p.claim # None /\ ~over /\ t[p.segment][p.claim] > 0 =>
                      <<p.segment, p.claim>> \notin p.heard
               /\ ~over => Starts(t, p.segment) <= offset
               /\ p.claim # None =>
                      \A k \in 1..Len(t) : \A c \in 1..Len(t[k]) :
                          k < p.segment \/ (k = p.segment /\ c < p.claim) => <<k, c>> \in p.heard
<1> DEFINE n == Len(t)
           now == {k \in 1..n : During(Starts(t, k), Ends(t, k), offset)}
           seg == IF now # {} THEN Least(now) ELSE IF offset >= Ends(t, n) THEN n ELSE 1
           said == {c \in 1..Len(t[seg]) :
                       During(ClaimStarts(t, seg, c), ClaimEnds(t, seg, c), offset)}
           claim == IF said # {} THEN Least(said)
                    ELSE IF Len(t[seg]) > 0 /\ offset >= Ends(t, seg) THEN Len(t[seg])
                    ELSE None
           told == UNION {{<<k, c>> : c \in {c \in 1..Len(t[k]) : ClaimEnds(t, k, c) <= offset}}
                              : k \in 1..n}
<1>1. locate(t, offset) = [segment |-> seg, claim |-> claim, heard |-> told]
  BY DEF locate
<1>2. n \in Nat /\ n > 0 /\ n \in 1..n /\ \A k \in 1..n : t[k] \in Seq(Nat) /\ Len(t[k]) \in Nat
  BY EmptySeq, LenProperties, ElementOfSeq
<1>3. \A k \in 1..n :
         /\ Starts(t, k) \in Nat /\ Ends(t, k) \in Nat /\ Starts(t, k) <= Ends(t, k)
         /\ \A m \in 1..n : m < k => Ends(t, m) <= Starts(t, k)
         /\ \A c \in 1..Len(t[k]) :
               /\ ClaimStarts(t, k, c) \in Nat /\ ClaimEnds(t, k, c) \in Nat
               /\ t[k][c] \in Nat
               /\ ClaimEnds(t, k, c) = ClaimStarts(t, k, c) + t[k][c]
               /\ ClaimEnds(t, k, c) <= Ends(t, k)
               /\ c = Len(t[k]) => ClaimEnds(t, k, c) = Ends(t, k)
               /\ Starts(t, k) <= ClaimStarts(t, k, c)
               /\ \A d \in 1..Len(t[k]) : d < c => ClaimEnds(t, k, d) <= ClaimStarts(t, k, c)
  BY InOrder
<1>4. \A k \in 1..n : \A c \in 1..Len(t[k]) : <<k, c>> \in told <=> ClaimEnds(t, k, c) <= offset
  OBVIOUS
<1>5. now # {} => seg \in now
  <2>1. now \subseteq Nat
    BY <1>2
  <2> HIDE DEF now
  <2> QED
    BY <2>1, LeastIsLeast
<1>6. now = {} => offset >= Ends(t, n) /\ seg = n
  <2>1. ~ (offset >= Ends(t, n)) => now # {}
    BY SomethingPlays
  <2> HIDE DEF now
  <2> QED
    BY <2>1
<1>7. seg \in 1..n
  <2> HIDE DEF seg
  <2> QED
    BY <1>2, <1>5, <1>6
<1>8. Starts(t, seg) <= offset
  <2>1. CASE now # {}
    <3> HIDE DEF seg
    <3> QED
      BY <1>5, <2>1 DEF During
  <2>2. CASE now = {}
    <3> HIDE DEF seg, now
    <3> QED
      BY <1>2, <1>3, <1>6, <2>2
  <2> QED
    BY <2>1, <2>2

\* The end of the last claim found when none is being said
<1>9. said # {} => claim \in said
  <2>1. said \subseteq Nat
    BY <1>2, <1>7
  <2> HIDE DEF said
  <2> QED
    BY <2>1, LeastIsLeast
<1>10. said = {} /\ claim # None => claim = Len(t[seg]) /\ claim > 0 /\ offset >= Ends(t, seg)
  OBVIOUS
<1> HIDE DEF claim
<1>11. claim # None => claim \in 1..Len(t[seg])
  <2>1. said # {} => claim \in 1..Len(t[seg])
    BY <1>9
  <2>2. Len(t[seg]) \in Nat
    <3> HIDE DEF seg
    <3> QED
      BY <1>2, <1>7
  <2> HIDE DEF seg, said
  <2> QED
    BY <1>10, <2>1, <2>2
<1>12. ASSUME claim # None, ~ (offset >= Ends(t, n)), t[seg][claim] > 0
       PROVE  <<seg, claim>> \notin told
  <2>1. claim \in 1..Len(t[seg])
    BY <1>11, <1>12
  <2>2. /\ ClaimStarts(t, seg, claim) \in Nat /\ ClaimEnds(t, seg, claim) \in Nat
        /\ t[seg][claim] \in Nat
        /\ ClaimEnds(t, seg, claim) = ClaimStarts(t, seg, claim) + t[seg][claim]
        /\ Starts(t, seg) <= ClaimStarts(t, seg, claim)
        /\ ClaimEnds(t, seg, claim) <= Ends(t, seg)
        /\ Starts(t, seg) \in Nat /\ Ends(t, seg) \in Nat
    <3> HIDE DEF seg
    <3> QED
      BY <1>3, <1>7, <2>1
  <2>3. ClaimEnds(t, seg, claim) > offset
    <3>1. CASE said # {}
      <4>1. During(ClaimStarts(t, seg, claim), ClaimEnds(t, seg, claim), offset)
        BY <1>9, <3>1
      <4> HIDE DEF seg, said
      <4> QED
        BY <1>12, <2>2, <4>1 DEF During, Later_of
    <3>2. CASE said = {}
      <4>1. offset >= Ends(t, seg)
        BY <1>10, <1>12, <3>2
      <4>2. During(Starts(t, seg), Ends(t, seg), offset)
        <5>1. now # {}
          BY <1>6, <1>12
        <5> HIDE DEF seg
        <5> QED
          BY <1>5, <5>1
      <4> HIDE DEF seg, said
      <4>3. offset < Starts(t, seg) + 1 \/ offset < Ends(t, seg)
        BY <4>2 DEF During, Later_of
      <4>4. Starts(t, seg) < ClaimEnds(t, seg, claim)
        BY <1>12, <2>2
      <4>5. ASSUME NEW a \in Nat, NEW b \in Nat, NEW e \in Nat, NEW o \in Nat,
                   a < e, e <= b, o >= b, o < a + 1 \/ o < b
            PROVE  FALSE
        BY <4>5
      <4> QED
        BY <2>2, <4>1, <4>3, <4>4, <4>5
    <3> QED
      BY <3>1, <3>2
  <2>4. <<seg, claim>> \in told <=> ClaimEnds(t, seg, claim) <= offset
    <3> HIDE DEF seg, told
    <3> QED
      BY <1>4, <1>7, <2>1
  <2> HIDE DEF seg, told
  <2>5. ~ (ClaimEnds(t, seg, claim) <= offset)
    BY <2>2, <2>3
  <2> QED
    BY <2>4, <2>5, Zenon
<1>13. ASSUME claim # None, NEW k \in 1..n, NEW c \in 1..Len(t[k]),
              k < seg \/ (k = seg /\ c < claim)
       PROVE  <<k, c>> \in told
  <2>1. claim \in 1..Len(t[seg])
    BY <1>11, <1>13
  <2>2. ClaimEnds(t, k, c) <= offset
    <3>1. CASE k < seg
      <4> HIDE DEF seg
      <4>1. /\ ClaimEnds(t, k, c) <= Ends(t, k) /\ Ends(t, k) <= Starts(t, seg)
            /\ ClaimEnds(t, k, c) \in Nat /\ Ends(t, k) \in Nat /\ Starts(t, seg) \in Nat
        BY <1>3, <1>7, <3>1
      <4> QED
        BY <1>8, <4>1
    <3>2. CASE k = seg /\ c < claim /\ said # {}
      <4>1. During(ClaimStarts(t, seg, claim), ClaimEnds(t, seg, claim), offset)
        BY <1>9, <3>2
      <4> HIDE DEF seg, said
      <4>2. /\ ClaimEnds(t, k, c) <= ClaimStarts(t, seg, claim)
            /\ ClaimEnds(t, k, c) \in Nat /\ ClaimStarts(t, seg, claim) \in Nat
        BY <1>3, <1>7, <2>1, <3>2
      <4> QED
        BY <4>1, <4>2 DEF During
    <3>3. CASE k = seg /\ c < claim /\ said = {}
      <4>1. offset >= Ends(t, seg)
        BY <1>10, <1>13, <3>3
      <4> HIDE DEF seg, said
      <4>2. /\ ClaimEnds(t, k, c) <= Ends(t, seg)
            /\ ClaimEnds(t, k, c) \in Nat /\ Ends(t, seg) \in Nat
        BY <1>3, <1>7, <3>3
      <4> QED
        BY <4>1, <4>2
    <3> HIDE DEF seg, said
    <3> QED
      BY <1>13, <3>1, <3>2, <3>3
  <2> HIDE DEF told
  <2> QED
    BY <1>4, <2>2
<1> HIDE DEF seg, told
<1> QED
  BY <1>1, <1>8, <1>12, <1>13

\* The most one frame raises the floor
UpTop == UpStep * WarmupTimes

\* The steps of the floor, with their products.
LEMMA StepSizes ==
    /\ UpTop \in Nat /\ UpStep <= UpTop /\ UpStep >= 1
    /\ DownStep * WarmupTimes \in Nat /\ DownStep <= DownStep * WarmupTimes /\ DownStep >= 1
    /\ MaxLevel \in Nat /\ Threshold \in Nat
    /\ QuietTime \in Nat /\ QuietTime >= 1 /\ QuietTime * DownStep > MaxLevel + UpTop
    /\ SettleTime \in Nat /\ SettleTime >= MaxLevel - Threshold + 1
<1>1. ASSUME NEW u \in Nat \ {0}, NEW w \in Nat \ {0} PROVE u * w \in Nat /\ u <= u * w
  OBVIOUS
<1>2. ASSUME NEW a \in Nat, NEW d \in Nat \ {0}
      PROVE  a \div d \in Nat /\ (a \div d + 1) * d > a
  OBVIOUS
<1>3. UpTop \in Nat /\ UpStep <= UpTop
  BY <1>1, HearingAssumption DEF UpTop
<1>4. DownStep * WarmupTimes \in Nat /\ DownStep <= DownStep * WarmupTimes
  BY <1>1, HearingAssumption
<1>5. /\ (MaxLevel + UpTop) \div DownStep \in Nat
      /\ ((MaxLevel + UpTop) \div DownStep + 1) * DownStep > MaxLevel + UpTop
  BY <1>2, <1>3, HearingAssumption
<1>6. QuietTime = (MaxLevel + UpTop) \div DownStep + 1
  BY DEF QuietTime, UpTop
<1> HIDE DEF UpTop
<1>7. QuietTime \in Nat /\ QuietTime >= 1 /\ QuietTime * DownStep > MaxLevel + UpTop
  BY <1>5, <1>6
<1> QED
  BY <1>3, <1>4, <1>7, HearingAssumption DEF SettleTime

\* Where one frame moves the floor
LEMMA FloorMoves ==
    ASSUME NEW f \in Frames, NEW base \in Nat, base <= MaxLevel + UpTop
    PROVE  /\ Adapt(f, base) \in Nat /\ Adapt(f, base) <= MaxLevel + UpTop
           /\ f.kind = "heard" => f.level \in 0..MaxLevel
           /\ f.kind = "heard" /\ f.level > base => Adapt(f, base) >= base + 1
           /\ StepsAreSmall /\ f.kind = "heard" /\ ~ (f.level > base) =>
                  f.level - Adapt(f, base) < Threshold
           /\ f.kind = "quiet" =>
                  Adapt(f, base) = IF base > DownStep THEN base - DownStep ELSE 0
           /\ f.kind = "silent" => Adapt(f, base) = base
<1>1. PICK up \in Nat : up = UpTop
  BY StepSizes
<1>2. PICK down \in Nat : down = DownStep * WarmupTimes
  BY StepSizes
<1>3. /\ UpStep \in Nat /\ UpStep >= 1 /\ UpStep <= up
      /\ DownStep \in Nat /\ DownStep >= 1 /\ DownStep <= down
      /\ MaxLevel \in Nat /\ Threshold \in Nat /\ (StepsAreSmall => down < Threshold)
  BY <1>1, <1>2, StepSizes, HearingAssumption DEF StepsAreSmall
<1>4. UpStep * 1 = UpStep /\ DownStep * 1 = DownStep
  BY <1>3
<1>5. CASE f.kind = "heard"
  <2>1. f.level \in 0..MaxLevel
    BY <1>5 DEF Frames
  <2>2. CASE warm < Warmup
    <3>1. Adapt(f, base) = LET moved == IF f.level > base THEN base + up ELSE base - down
                           IN  IF moved < 0 THEN 0 ELSE moved
      BY <1>1, <1>2, <1>5, <2>2 DEF Adapt, UpTop
    <3> QED
      BY <1>1, <1>3, <1>5, <2>1, <3>1
  <2>3. CASE ~ (warm < Warmup)
    <3>1. Adapt(f, base) = LET moved == IF f.level > base THEN base + UpStep ELSE base - DownStep
                           IN  IF moved < 0 THEN 0 ELSE moved
      BY <1>4, <1>5, <2>3 DEF Adapt
    <3> QED
      BY <1>1, <1>3, <1>5, <2>1, <3>1
  <2> QED
    BY <2>2, <2>3
<1>6. CASE f.kind = "quiet"
  <2>1. Adapt(f, base) = IF base - DownStep < 0 THEN 0 ELSE base - DownStep
    BY <1>4, <1>6 DEF Adapt
  <2> QED
    BY <1>1, <1>3, <1>6, <2>1
<1>7. CASE f.kind = "silent"
  <2>1. Adapt(f, base) = base
    BY <1>7 DEF Adapt
  <2> QED
    BY <1>7, <2>1
<1> QED
  BY <1>5, <1>6, <1>7 DEF Frames

HearTypes ==
    /\ floor \in Nat \cup {None} /\ (floor # None => floor <= MaxLevel + UpTop)
    /\ turn \in [run : Nat, since : Nat \cup {None}]
    /\ steady \in [level : 0..MaxLevel, for : Int, quiet : 0..QuietTime]

\* While the level has not changed, the floor has come within reach of it, or has
\* risen by a step for every frame.
FloorFollows ==
    /\ steady.for # 0 => /\ floor # None
                         /\ StepsAreSmall =>
                              steady.level - floor < Threshold \/ floor >= steady.for
    /\ StepsAreSmall /\ steady.for > SettleTime => turn.run = 0

\* Every quiet frame has taken the floor down a step, or it is at the bottom.
FloorComesDown ==
    steady.quiet # 0 => /\ floor # None
                        /\ floor = 0 \/ floor + steady.quiet * DownStep <= MaxLevel + UpTop

HearInv ==
    /\ HearTypes /\ FloorFollows /\ FloorComesDown /\ TurnsAreSpaced /\ PositionIsWhatPlayed

\* A classifier that has heard nothing is sound.
LEMMA HearStart == HearInit => HearInv
<1> SUFFICES ASSUME HearInit PROVE HearInv
  OBVIOUS
<1>1. HearTypes
  BY StepSizes DEF HearInit, HearTypes
<1>2. FloorFollows /\ FloorComesDown
  BY DEF HearInit, FloorFollows, FloorComesDown
<1>3. TurnsAreSpaced /\ PositionIsWhatPlayed
  BY DEF HearInit, TurnsAreSpaced, PositionIsWhatPlayed
<1> QED
  BY <1>1, <1>2, <1>3 DEF HearInv

\* One frame
LEMMA FrameKeeps ==
    ASSUME HearInv, NEW f \in Frames, NEW in_band \in BOOLEAN, NEW playing \in BOOLEAN,
           hear(f, in_band, playing)
    PROVE  HearInv'
<1> DEFINE base == Seeded(f)
           run == IF Qualifies(f, in_band) THEN CapAt(turn.run + 1, Consecutive) ELSE 0
           fires == run > 0 /\ Decides(run, playing)
<1>1. HearTypes /\ FloorFollows /\ FloorComesDown
  BY DEF HearInv
<1>2. None \notin Nat /\ Consecutive \in Nat /\ Refractory \in Nat
  BY HearingAssumption
<1>3. /\ f.kind \in {"heard", "quiet", "silent"} /\ f.level \in 0..MaxLevel
      /\ f.kind # "heard" => f.level = 0
  BY StepSizes DEF Frames
<1>4. base \in Nat \cup {None} /\ (base # None => base <= MaxLevel + UpTop)
  BY <1>1, <1>3, StepSizes DEF HearTypes, Seeded
<1>5. floor' = IF base = None THEN None ELSE Adapt(f, base)
  BY DEF hear
<1>6. base = None => f.kind = "silent" /\ floor = None
  BY <1>2, <1>3, StepSizes DEF Seeded
<1>7. /\ turn' = [run |-> run, since |-> IF fires THEN CapAt(1, Refractory)
                                         ELSE IF turn.since = None THEN None
                                         ELSE CapAt(turn.since + 1, Refractory)]
      /\ decided' = IF fires THEN [after |-> turn.since, while |-> playing,
                                   snr |-> f.level - base] ELSE None
      /\ steady' = [level |-> f.level,
                    for |-> IF f.kind # "heard" THEN 0
                            ELSE IF f.level = steady.level
                            THEN CapAt(steady.for + 1, SettleTime + 1) ELSE 1,
                    quiet |-> CASE f.kind = "quiet" -> CapAt(steady.quiet + 1, QuietTime)
                                [] f.kind = "silent" -> steady.quiet
                                [] OTHER -> 0]
      /\ playing_at' = None
  BY DEF hear
<1>8. /\ turn.run \in Nat /\ turn.since \in Nat \cup {None}
      /\ steady.level \in 0..MaxLevel /\ steady.for \in Int /\ steady.quiet \in 0..QuietTime
      /\ floor \in Nat \cup {None}
  BY <1>1 DEF HearTypes
<1>9. run \in Nat /\ (Qualifies(f, in_band) \/ run = 0)
  BY <1>2, <1>8 DEF CapAt
<1>10. base # None => /\ base \in Nat /\ base <= MaxLevel + UpTop
                      /\ floor' \in Nat /\ floor' <= MaxLevel + UpTop
                      /\ floor' = Adapt(f, base)
  BY <1>4, <1>5, FloorMoves
<1>11. base = None => floor' = None
  BY <1>5
<1>12. steady'.for \in Int /\ steady'.quiet \in 0..QuietTime
  BY <1>3, <1>7, <1>8, StepSizes DEF CapAt
<1> HIDE DEF base
<1>13. HearTypes'
  <2>1. turn' \in [run : Nat, since : Nat \cup {None}]
    BY <1>2, <1>7, <1>8, <1>9 DEF CapAt
  <2>2. steady' \in [level : 0..MaxLevel, for : Int, quiet : 0..QuietTime]
    BY <1>3, <1>7, <1>12
  <2> QED
    BY <1>10, <1>11, <2>1, <2>2 DEF HearTypes
<1>14. FloorFollows'
  <2>1. CASE f.kind # "heard"
    <3>1. steady'.for = 0 /\ turn'.run = 0
      BY <1>7, <2>1 DEF Qualifies
    <3> QED
      BY <3>1 DEF FloorFollows
  <2>2. CASE f.kind = "heard"
    <3>0. base # None /\ base \in Nat
      BY <1>6, <1>10, <2>2
    <3>1. /\ floor' \in Nat
          /\ f.level > base => floor' >= base + 1
          /\ StepsAreSmall /\ ~ (f.level > base) => f.level - floor' < Threshold
      BY <1>10, <2>2, <3>0, FloorMoves
    <3>2. turn'.run # 0 => f.level - base >= Threshold
      BY <1>7 DEF Qualifies, base
    <3>3. steady'.level = f.level /\ turn'.run = run
      BY <1>7
    <3>4. CASE f.level = steady.level /\ steady.for # 0
      <4>1. /\ floor \in Nat /\ base = floor
            /\ StepsAreSmall => f.level - base < Threshold \/ base >= steady.for
        BY <1>1, <1>8, <3>4 DEF FloorFollows, Seeded, base
      <4>2. steady'.for = CapAt(steady.for + 1, SettleTime + 1)
        BY <1>7, <2>2, <3>4
      <4>3. StepsAreSmall => f.level - floor' < Threshold \/ floor' >= steady'.for
        BY <1>3, <1>8, <3>0, <3>1, <4>1, <4>2, StepSizes DEF CapAt
      <4>4. StepsAreSmall /\ steady'.for > SettleTime => ~ (f.level - base >= Threshold)
        BY <1>3, <1>8, <3>0, <4>1, <4>2, StepSizes DEF CapAt
      <4> QED
        BY <1>10, <3>0, <3>1, <3>2, <3>3, <4>3, <4>4, HearingAssumption DEF FloorFollows
    <3>5. CASE ~ (f.level = steady.level /\ steady.for # 0)
      <4>1. steady'.for = 1 \/ steady'.for = CapAt(1, SettleTime + 1)
        BY <1>7, <1>8, <2>2, <3>5
      <4>2. StepsAreSmall => f.level - floor' < Threshold \/ floor' >= steady'.for
        BY <1>3, <3>0, <3>1, <4>1, StepSizes DEF CapAt
      <4>3. StepsAreSmall /\ steady'.for > SettleTime => ~ (f.level - base >= Threshold)
        BY <1>3, <3>0, <4>1, StepSizes DEF CapAt
      <4> QED
        BY <1>10, <3>0, <3>1, <3>2, <3>3, <4>2, <4>3, HearingAssumption DEF FloorFollows
    <3> QED
      BY <3>4, <3>5
  <2> QED
    BY <2>1, <2>2
<1>15. FloorComesDown'
  <2>1. CASE f.kind = "heard"
    BY <1>7, <2>1 DEF FloorComesDown
  <2>2. CASE f.kind = "silent"
    <3>1. steady'.quiet = steady.quiet
      BY <1>7, <2>2
    <3>2. floor # None => floor' = floor
      BY <1>8, <1>10, <2>2, FloorMoves DEF Seeded, base
    <3> QED
      BY <1>1, <3>1, <3>2 DEF FloorComesDown
  <2>3. CASE f.kind = "quiet"
    <3>0. base # None /\ base \in Nat /\ base <= MaxLevel + UpTop /\ floor' \in Nat
      BY <1>6, <1>10, <2>3
    <3>1. floor' = IF base > DownStep THEN base - DownStep ELSE 0
      BY <1>10, <2>3, <3>0, FloorMoves
    <3>2. steady'.quiet = CapAt(steady.quiet + 1, QuietTime)
      BY <1>7, <2>3
    <3>3. PICK top \in Nat : top = MaxLevel + UpTop
      BY StepSizes
    <3>4. base = 0 \/ base + steady.quiet * DownStep <= top
      <4>1. CASE steady.quiet = 0
        <5>1. 0 * DownStep = 0
          BY HearingAssumption
        <5> QED
          BY <3>0, <3>3, <4>1, <5>1, StepSizes
      <4>2. CASE steady.quiet # 0
        BY <1>1, <3>3, <4>2 DEF FloorComesDown, Seeded, base
      <4> QED
        BY <4>1, <4>2
    <3>5. floor' = 0 \/ floor' + steady'.quiet * DownStep <= top
      <4>1. CASE steady.quiet = QuietTime
        <5>1. base = 0
          <6>1. QuietTime * DownStep > top /\ QuietTime * DownStep \in Nat
            BY <3>3, StepSizes, HearingAssumption
          <6> QED
            BY <3>0, <3>4, <4>1, <6>1
        <5> QED
          <6>1. DownStep \in Nat /\ ~ (0 > DownStep)
            BY HearingAssumption
          <6>2. floor' = 0
            BY <3>1, <5>1, <6>1
          <6> QED
            BY <6>2
      <4>2. CASE steady.quiet # QuietTime
        <5>1. steady'.quiet = steady.quiet + 1 /\ steady.quiet \in Nat
          BY <1>8, <3>2, <4>2, StepSizes DEF CapAt
        <5>2. (steady.quiet + 1) * DownStep = steady.quiet * DownStep + DownStep
              /\ steady.quiet * DownStep \in Nat /\ DownStep \in Nat
          <6>1. ASSUME NEW q \in Nat, NEW d \in Nat
                PROVE  (q + 1) * d = q * d + d /\ q * d \in Nat
            OBVIOUS
          <6>2. DownStep \in Nat
            BY HearingAssumption
          <6> QED
            BY <5>1, <6>1, <6>2
        <5> QED
          BY <3>0, <3>1, <3>4, <5>1, <5>2
      <4> QED
        BY <4>1, <4>2
    <3> QED
      BY <1>2, <3>0, <3>3, <3>5 DEF FloorComesDown
  <2> QED
    BY <1>3, <2>1, <2>2, <2>3
<1>16. TurnsAreSpaced'
  <2>1. CASE ~ fires
    BY <1>7, <2>1 DEF TurnsAreSpaced
  <2>2. CASE fires
    <3>1. decided' = [after |-> turn.since, while |-> playing, snr |-> f.level - base]
      BY <1>7, <2>2
    <3>2. f.level - base >= Threshold
      BY <2>2 DEF Qualifies, base
    <3>3. (turn.since = None \/ turn.since >= Refractory) /\ (NeedsNarration => playing)
      BY <1>2, <1>8, <2>2 DEF Decides, Suppressed
    <3> QED
      BY <3>1, <3>2, <3>3 DEF TurnsAreSpaced
  <2> QED
    BY <2>1, <2>2
<1>17. PositionIsWhatPlayed'
  BY <1>7 DEF PositionIsWhatPlayed
<1> QED
  BY <1>13, <1>14, <1>15, <1>16, <1>17 DEF HearInv

\* Every frame, every turn taken and every reset keeps the invariant.
LEMMA HearStep == HearInv /\ [HearNext]_hearVars => HearInv'
<1> SUFFICES ASSUME HearInv, [HearNext]_hearVars PROVE HearInv'
  OBVIOUS
<1>1. ASSUME NEW f \in Frames, NEW in_band \in BOOLEAN, NEW playing \in BOOLEAN,
             hear(f, in_band, playing)
      PROVE  HearInv'
  BY <1>1, FrameKeeps
<1>2. ASSUME NEW t \in Transcripts, NEW offset \in 0..(Ends(t, Len(t)) + 1), take_turn(t, offset)
      PROVE  HearInv'
  <2>1. HearTypes' /\ FloorFollows' /\ FloorComesDown' /\ TurnsAreSpaced'
    BY <1>2 DEF take_turn, HearInv, HearTypes, FloorFollows, FloorComesDown, TurnsAreSpaced
  <2>2. t \in Seq(Seq(Nat)) /\ t # <<>> /\ None \notin Nat
    BY HearingAssumption
  <2>3. offset \in Nat
    <3>1. Len(t) \in 1..Len(t)
      BY <2>2, EmptySeq, LenProperties
    <3>2. Ends(t, Len(t)) \in Nat
      BY <2>2, <3>1, InOrder
    <3> QED
      BY <3>2
  <2>4. playing_at' = [of |-> t, offset |-> offset, is |-> locate(t, offset)]
    BY <1>2 DEF take_turn
  <2>5. PositionIsWhatPlayed'
    BY <2>2, <2>3, <2>4, LocateIsTrue DEF PositionIsWhatPlayed
  <2> QED
    BY <2>1, <2>5 DEF HearInv
<1>3. CASE reset_detector
  <2>1. HearTypes'
    <3>1. steady \in [level : 0..MaxLevel, for : Int, quiet : 0..QuietTime]
      BY DEF HearInv, HearTypes
    <3>2. 0 \in 0..QuietTime /\ 0 \in Int
      BY StepSizes
    <3>3. steady' = [steady EXCEPT !.for = 0, !.quiet = 0]
      BY <1>3 DEF reset_detector
    <3>4. steady' \in [level : 0..MaxLevel, for : Int, quiet : 0..QuietTime]
      BY <3>1, <3>2, <3>3
    <3> QED
      BY <1>3, <3>4 DEF reset_detector, HearTypes
  <2>2. FloorFollows' /\ FloorComesDown'
    <3>1. steady'.for = 0 /\ steady'.quiet = 0 /\ turn'.run = 0
      BY <1>3 DEF reset_detector, HearInv, HearTypes
    <3> QED
      BY <3>1 DEF FloorFollows, FloorComesDown
  <2>3. TurnsAreSpaced' /\ PositionIsWhatPlayed'
    BY <1>3 DEF reset_detector, TurnsAreSpaced, PositionIsWhatPlayed
  <2> QED
    BY <2>1, <2>2, <2>3 DEF HearInv
<1>4. CASE UNCHANGED hearVars
  <2>1. HearTypes' /\ FloorFollows' /\ FloorComesDown' /\ TurnsAreSpaced'
    BY <1>4 DEF hearVars, HearInv, HearTypes, FloorFollows, FloorComesDown, TurnsAreSpaced
  <2>2. PositionIsWhatPlayed'
    BY <1>4 DEF hearVars, HearInv, PositionIsWhatPlayed
  <2> QED
    BY <2>1, <2>2 DEF HearInv
<1> QED
  BY <1>1, <1>2, <1>3, <1>4 DEF HearNext

\* The invariant gives what the detector and the position promise.
LEMMA HearUse == HearInv => HearingHolds
<1> SUFFICES ASSUME HearInv PROVE HearingHolds
  OBVIOUS
<1>1. steady.quiet >= QuietTime => floor = 0
  <2>1. SUFFICES ASSUME steady.quiet >= QuietTime PROVE floor = 0
    OBVIOUS
  <2>2. steady.quiet = QuietTime /\ steady.quiet # 0 /\ floor \in Nat \cup {None}
    BY <2>1, StepSizes DEF HearInv, HearTypes
  <2>3. PICK top \in Nat : top = MaxLevel + UpTop
    BY StepSizes
  <2>4. QuietTime * DownStep > top /\ QuietTime * DownStep \in Nat
    BY <2>3, StepSizes, HearingAssumption
  <2> QED
    BY <2>2, <2>3, <2>4 DEF HearInv, FloorComesDown
<1> QED
  BY <1>1 DEF HearInv, FloorFollows, HearingHolds, CannotLatch

\* The detector cannot latch, turns are spaced, and a turn is told what was playing.
THEOREM HearingAlwaysHolds == HearSpec => []HearingHolds
  BY HearStart, HearStep, HearUse, PTL DEF HearSpec

(***************************************************************************)
(* Voice                                                                   *)
(***************************************************************************)

Bridges == [there : {"none", "up", "failed"}, final : BOOLEAN, active : BOOLEAN, owed : BOOLEAN,
            started : BOOLEAN, talking : BOOLEAN, spoke : BOOLEAN, asked : BOOLEAN,
            guard : BOOLEAN, preroll : BOOLEAN, follow : BOOLEAN, tools : {0, 1},
            inflight : BOOLEAN, reopens : Nat]
Vendors == [up : {"up", "down", "refused"}, hears : BOOLEAN, speech : BOOLEAN, answering : BOOLEAN]
Traces == [placed : BOOLEAN, blind : BOOLEAN, narrating : BOOLEAN, over : BOOLEAN, turns : Nat]
Barging == {"engaging", "forwarding"}

\* A bridge whose channel is not up does nothing, and there is no socket behind it.
ChannelOrNothing(l, up) == l.there # "up" => ~ l.active /\ ~ l.owed /\ up # "up"
\* The gate opens only for a barge-in that stopped the narration and said where.
GateIsPlaced(l, t) == l.active => t.placed /\ ~ t.narrating
\* So it is for one about to open it.
BargeIsPlaced(t, p) == p \in Barging => t.placed /\ ~ t.narrating
\* A reply is owed to an open floor or to a typed question.
OwedToSomeone(l) == l.owed => l.active \/ l.asked
\* A floor nobody spoke into, typed over or was answered on
FloorGuarded(l) == l.active /\ ~ l.spoke /\ ~ l.started /\ ~ l.asked => l.guard
\* What a bridge is, given the socket behind it and what was said so far
BridgeIsSound(l, up, t) ==
    /\ l \in Bridges /\ ChannelOrNothing(l, up) /\ GateIsPlaced(l, t) /\ OwedToSomeone(l)
    /\ FloorGuarded(l)
TraceIsClean(t) == t \in Traces /\ ~ t.blind /\ ~ t.over

BridgeInv ==
    /\ vend \in Vendors /\ "playing" \in DOMAIN narr
    /\ BridgeIsSound(live, vend.up, trace) /\ TraceIsClean(trace) /\ BargeIsPlaced(trace, pump)

\* No socket is open before the session is.
SocketIsOpened == session_at \in {"none", "minted"} => vend.up # "up"
VoiceInv == BridgeInv /\ SocketIsOpened

\* A bridge with its gate closed and nothing owed
Idle_bridge(l) == l \in Bridges /\ ~ l.active /\ ~ l.owed

\* A bridge with nothing open is sound, whatever the trace holds.
LEMMA IdleIsSound ==
    ASSUME NEW l, Idle_bridge(l), NEW up, NEW t, l.there = "up" \/ up # "up"
    PROVE  BridgeIsSound(l, up, t)
  BY DEF Idle_bridge, BridgeIsSound, ChannelOrNothing, GateIsPlaced, OwedToSomeone, FloorGuarded

\* A bridge that failed is idle, and so is one whose session ended.
LEMMA FailedIsIdle ==
    ASSUME NEW l \in Bridges
    PROVE  /\ Idle_bridge(_on_live_failed(l)) /\ _on_live_failed(l).there = "failed"
           /\ _end(l) = _on_live_failed(l)
<1>1. l.preroll \in BOOLEAN /\ l.reopens \in Nat
  BY DEF Bridges
<1>2. Bridge \in Bridges /\ ~ Bridge.active /\ ~ Bridge.owed
  BY DEF Bridge, Bridges
<1>3. PICK why \in BOOLEAN : why = (vend.up = "refused")
  OBVIOUS
<1>4. _on_live_failed(l) = [Bridge EXCEPT !.there = "failed", !.final = why,
                                          !.preroll = l.preroll, !.reopens = l.reopens]
  BY <1>3 DEF _on_live_failed
<1>5. /\ _on_live_failed(l) \in Bridges /\ _on_live_failed(l).there = "failed"
      /\ _on_live_failed(l).active = Bridge.active /\ _on_live_failed(l).owed = Bridge.owed
  BY <1>1, <1>2, <1>4 DEF Bridges
<1> QED
  BY <1>2, <1>5 DEF _end, Idle_bridge

\* What a voice session starts from: a fresh bridge and a fresh vendor, and none of either.
LEMMA FreshIsIdle ==
    /\ Idle_bridge(Bridge) /\ Bridge.there = "up" /\ Idle_bridge(NoBridge) /\ NoBridge.there = "none"
    /\ Vendor \in Vendors /\ Vendor.up = "up" /\ NoVendor \in Vendors /\ NoVendor.up = "down"
    /\ "playing" \in DOMAIN Silent /\ TraceIsClean(NoTrace)
  BY DEF Bridge, NoBridge, Vendor, NoVendor, Vendors, Bridges, Idle_bridge, Silent, NoTrace,
         TraceIsClean, Traces

\* Nobody has asked for a session yet.
LEMMA VoiceStart == VoiceInit => VoiceInv
<1> SUFFICES ASSUME VoiceInit PROVE VoiceInv
  OBVIOUS
<1>1. /\ live = NoBridge /\ vend = NoVendor /\ narr = Silent /\ trace = NoTrace /\ pump = "idle"
  BY DEF VoiceInit
<1>2. BridgeIsSound(live, vend.up, trace)
  BY <1>1, FreshIsIdle, IdleIsSound
<1> QED
  BY <1>1, <1>2, FreshIsIdle DEF VoiceInv, SocketIsOpened, BridgeInv, BargeIsPlaced, Barging

\* Closing the floor leaves an idle bridge.
LEMMA DisengagedIsIdle ==
    ASSUME NEW l \in Bridges
    PROVE  Idle_bridge(Disengaged(l)) /\ Disengaged(l).there = l.there
  BY DEF Disengaged, Bridges, Idle_bridge

\* A cancel changes the bridge only in what it knows to be in flight.
LEMMA CancelKeeps ==
    ASSUME vend \in Vendors, NEW l, BridgeIsSound(l, vend.up, trace), cancel_response(l)
    PROVE  vend' \in Vendors /\ vend'.up = vend.up /\ BridgeIsSound(live', vend'.up, trace)
<1>1. vend' \in Vendors /\ vend'.up = vend.up
  BY DEF cancel_response, Vendors, BridgeIsSound, Bridges
<1>2. live' = [l EXCEPT !.inflight = FALSE] /\ l \in Bridges
  BY DEF cancel_response, BridgeIsSound
<1>3. live' \in Bridges
  BY <1>2 DEF Bridges
<1>4. /\ live'.there = l.there /\ live'.active = l.active /\ live'.owed = l.owed
      /\ live'.started = l.started /\ live'.spoke = l.spoke /\ live'.asked = l.asked
      /\ live'.guard = l.guard
  BY <1>2 DEF Bridges
<1> QED
  BY <1>1, <1>3, <1>4 DEF BridgeIsSound, ChannelOrNothing, GateIsPlaced, OwedToSomeone, FloorGuarded

\* A packet goes through an open gate, behind its position, or not at all.
LEMMA ForwardKeeps ==
    ASSUME vend \in Vendors, TraceIsClean(trace), NEW l,
           BridgeIsSound(l, vend.up, trace), forward(l, trace)
    PROVE  /\ vend' \in Vendors /\ BridgeIsSound(live', vend'.up, trace')
           /\ TraceIsClean(trace') /\ trace'.placed = trace.placed
           /\ trace'.narrating = trace.narrating
<1>1. CASE l.active /\ Sends
  <2>1. live' = l /\ vend' = [vend EXCEPT !.hears = TRUE] /\ trace' = append_audio(trace)
    BY <1>1 DEF forward
  <2>2. trace.placed /\ trace.placed \in BOOLEAN /\ trace.blind = FALSE
    BY <1>1 DEF BridgeIsSound, GateIsPlaced, TraceIsClean, Traces
  <2>3. trace' = trace
    BY <2>1, <2>2 DEF append_audio, TraceIsClean, Traces
  <2>4. vend' \in Vendors /\ vend'.up = vend.up
    BY <2>1 DEF Vendors
  <2> QED
    BY <2>1, <2>3, <2>4
<1>2. CASE l.active /\ ~ Sends
  <2>1. live' = _on_live_failed(l) /\ vend' = vend /\ trace' = trace
    BY <1>2 DEF forward
  <2>2. l \in Bridges /\ vend.up # "up"
    BY <1>2 DEF BridgeIsSound, Sends
  <2> QED
    BY <2>1, <2>2, FailedIsIdle, IdleIsSound
<1>3. CASE ~ l.active
  BY <1>3 DEF forward
<1> QED
  BY <1>1, <1>2, <1>3

\* Reopening puts a fresh bridge over a fresh socket, or no bridge over none.
LEMMA ReopenIsSound ==
    ASSUME BridgeInv, NEW opens \in BOOLEAN, NEW v,
           v = IF Reopens THEN IF opens THEN Vendor ELSE vend ELSE vend
    PROVE  LET l == _reopen_if_dropped(opens)
           IN  /\ v \in Vendors /\ BridgeIsSound(l, v.up, trace)
               /\ Reopens => Idle_bridge(l)
<1>1. CASE ~ Reopens
  BY <1>1 DEF _reopen_if_dropped, BridgeInv
<1>2. CASE Reopens
  <2>1. live.preroll \in BOOLEAN /\ live.reopens + 1 \in Nat /\ vend.up # "up" /\ vend \in Vendors
    BY <1>2 DEF BridgeInv, BridgeIsSound, Bridges, Reopens, ChannelOrNothing
  <2>2. PICK b : b = start_live(opens)
    OBVIOUS
  <2>3. Idle_bridge(b) /\ (b.there = "up" => opens)
    BY <2>2, FreshIsIdle DEF start_live
  <2>4. _reopen_if_dropped(opens) = [b EXCEPT !.preroll = live.preroll,
                                              !.reopens = live.reopens + 1]
    BY <1>2, <2>2 DEF _reopen_if_dropped
  <2>5. Idle_bridge(_reopen_if_dropped(opens)) /\ _reopen_if_dropped(opens).there = b.there
    <3>1. PICK p \in BOOLEAN, n \in Nat : p = live.preroll /\ n = live.reopens + 1
      BY <2>1
    <3>2. PICK l : l = [b EXCEPT !.preroll = p, !.reopens = n]
      OBVIOUS
    <3>3. b \in Bridges /\ ~ b.active /\ ~ b.owed
      BY <2>3 DEF Idle_bridge
    <3>4. l \in Bridges
      BY <3>2, <3>3 DEF Bridges
    <3>5. l.there = b.there /\ l.active = b.active /\ l.owed = b.owed
      BY <3>2, <3>3 DEF Bridges
    <3>6. _reopen_if_dropped(opens) = l
      BY <2>4, <3>1, <3>2
    <3> QED
      BY <3>3, <3>4, <3>5, <3>6 DEF Idle_bridge
  <2>6. v \in Vendors /\ (_reopen_if_dropped(opens).there = "up" \/ v.up # "up")
    <3>1. CASE opens
      BY <1>2, <2>2, <2>5, <3>1, FreshIsIdle DEF start_live
    <3>2. CASE ~ opens
      BY <1>2, <2>1, <3>2
    <3> QED
      BY <3>1, <3>2
  <2> QED
    BY <2>5, <2>6, IdleIsSound
<1> QED
  BY <1>1, <1>2

\* A barge-in stops the narration and says where it stopped, before anything is heard.
LEMMA BargeKeeps ==
    ASSUME BridgeInv, pump = "idle",
           NEW opens \in BOOLEAN, NEW packet \in BOOLEAN, Barge(opens, packet)
    PROVE  BridgeInv'
<1> DEFINE r == _reopen_if_dropped(opens)
           l == [r EXCEPT !.preroll = @ \/ (packet /\ _live_channel)]
           c == interrupt(narr)
           lost == [trace EXCEPT !.placed = FALSE, !.narrating = FALSE, !.turns = @ + 1]
<1>1. vend' = IF Reopens THEN IF opens THEN Vendor ELSE vend ELSE vend
  BY DEF Barge
<1>2. vend' \in Vendors /\ BridgeIsSound(r, vend'.up, trace)
  BY <1>1, ReopenIsSound
<1>3. narr' = c /\ "playing" \in DOMAIN c /\ c.playing = FALSE
  BY DEF Barge, interrupt, BridgeInv
<1>4. /\ trace \in Traces /\ lost \in Traces /\ ~ lost.blind /\ ~ lost.over /\ ~ lost.narrating
  <2>1. trace \in Traces /\ ~ trace.blind /\ ~ trace.over
    BY DEF BridgeInv, TraceIsClean
  <2>2. trace.turns + 1 \in Nat
    BY <2>1 DEF Traces
  <2>3. lost \in Traces
    BY <2>1, <2>2 DEF Traces
  <2>4. lost.blind = trace.blind /\ lost.over = trace.over /\ lost.narrating = FALSE
    BY <2>1 DEF Traces
  <2> QED
    BY <2>1, <2>3, <2>4
<1>5. PICK b \in BOOLEAN : b = (r.preroll \/ (packet /\ _live_channel))
  OBVIOUS
<1>6. /\ l \in Bridges /\ l.there = r.there /\ l.active = r.active /\ l.owed = r.owed
      /\ l.started = r.started /\ l.spoke = r.spoke /\ l.asked = r.asked /\ l.guard = r.guard
  <2>1. l = [r EXCEPT !.preroll = b]
    BY <1>5
  <2> HIDE DEF l, r
  <2> QED
    BY <1>2, <1>5, <2>1 DEF BridgeIsSound, Bridges
<1> HIDE DEF l
<1>7. ChannelOrNothing(l, vend'.up) /\ OwedToSomeone(l) /\ FloorGuarded(l)
  BY <1>2, <1>6 DEF BridgeIsSound, ChannelOrNothing, OwedToSomeone, FloorGuarded
<1>8. CASE l.there # "up" /\ live' = l /\ trace' = lost /\ pump' = pump
  <2>1. ~ l.active /\ ~ l.owed /\ vend'.up # "up"
    BY <1>7, <1>8 DEF ChannelOrNothing
  <2>2. BridgeIsSound(l, vend'.up, lost)
    BY <1>6, <2>1, IdleIsSound DEF Idle_bridge
  <2> HIDE DEF lost
  <2> QED
    BY <1>2, <1>3, <1>4, <1>8, <2>2 DEF BridgeInv, TraceIsClean, BargeIsPlaced, Barging
<1>9. CASE l.there = "up" /\ vend'.up # "up" /\ live' = _on_live_failed(l) /\ trace' = lost
           /\ pump' = pump
  <2>2. BridgeIsSound(live', vend'.up, lost)
    BY <1>6, <1>9, FailedIsIdle, IdleIsSound
  <2> QED
    BY <1>2, <1>3, <1>4, <1>9, <2>2 DEF BridgeInv, TraceIsClean, BargeIsPlaced, Barging
<1>10. CASE l.there = "up" /\ vend'.up = "up" /\ live' = l /\ trace' = add_context(lost, c)
  <2>1. /\ trace' \in Traces /\ ~ trace'.blind /\ ~ trace'.over /\ ~ trace'.narrating
        /\ trace'.placed
    <3>1. trace' = [lost EXCEPT !.placed = TRUE]
      BY <1>3, <1>10 DEF add_context
    <3> HIDE DEF lost
    <3> QED
      BY <1>4, <3>1 DEF Traces
  <2>2. BridgeIsSound(live', vend'.up, trace')
    BY <1>6, <1>7, <1>10, <2>1 DEF BridgeIsSound, GateIsPlaced
  <2> QED
    BY <1>2, <1>3, <2>1, <2>2 DEF BridgeInv, TraceIsClean, BargeIsPlaced
<1> QED
  BY <1>8, <1>9, <1>10 DEF Barge, l

\* A frame of audio: a barge-in, or a packet
LEMMA AudioKeeps ==
    ASSUME BridgeInv, NEW qualifies \in BOOLEAN, NEW opens \in BOOLEAN,
           receive_audio(qualifies, opens)
    PROVE  BridgeInv'
<1>1. pump = "idle"
  BY DEF receive_audio, Frame
<1>2. CASE Barge(opens, TRUE)
  BY <1>1, <1>2, BargeKeeps
<1>3. CASE ~ Barge(opens, TRUE)
  <2> DEFINE l == [live EXCEPT !.preroll = @ \/ _live_channel, !.active = @ /\ _live_channel]
  <2>1. forward(l, trace) /\ UNCHANGED <<narr, wire, pump, reader_at>>
    BY <1>3 DEF receive_audio
  <2>2. /\ live \in Bridges /\ BridgeIsSound(live, vend.up, trace) /\ vend \in Vendors
        /\ TraceIsClean(trace) /\ BargeIsPlaced(trace, pump) /\ "playing" \in DOMAIN narr
    BY DEF BridgeInv, BridgeIsSound
  <2>3. live.active /\ _live_channel <=> live.active
    BY <2>2 DEF BridgeIsSound, ChannelOrNothing, _live_channel
  <2>4. PICK b \in BOOLEAN : b = (live.preroll \/ _live_channel)
    OBVIOUS
  <2>5. PICK a \in BOOLEAN : a = (live.active /\ _live_channel)
    OBVIOUS
  <2>6. l = [live EXCEPT !.preroll = b, !.active = a]
    BY <2>4, <2>5
  <2> HIDE DEF l
  <2>7. /\ l \in Bridges /\ l.there = live.there /\ (l.active <=> live.active) /\ l.owed = live.owed
        /\ l.started = live.started /\ l.spoke = live.spoke /\ l.asked = live.asked
        /\ l.guard = live.guard
    <3>1. live \in Bridges
      BY <2>2
    <3>2. l \in Bridges
      BY <2>6, <3>1 DEF Bridges
    <3>3. /\ l.there = live.there /\ l.active = a /\ l.owed = live.owed
          /\ l.started = live.started /\ l.spoke = live.spoke /\ l.asked = live.asked
          /\ l.guard = live.guard
      BY <2>6, <3>1 DEF Bridges
    <3> QED
      BY <2>3, <2>5, <3>2, <3>3
  <2>8. BridgeIsSound(l, vend.up, trace)
    BY <2>2, <2>7 DEF BridgeIsSound, ChannelOrNothing, GateIsPlaced, OwedToSomeone, FloorGuarded
  <2>9. /\ vend' \in Vendors /\ BridgeIsSound(live', vend'.up, trace')
        /\ TraceIsClean(trace') /\ trace'.placed = trace.placed
        /\ trace'.narrating = trace.narrating
    BY <2>1, <2>2, <2>8, ForwardKeeps
  <2> QED
    BY <2>1, <2>2, <2>9 DEF BridgeInv, BargeIsPlaced
<1> QED
  BY <1>2, <1>3

\* Nothing the invariant speaks of changes.
LEMMA VoiceStill ==
    ASSUME BridgeInv, UNCHANGED <<vend, narr, live, trace, pump>>
    PROVE  BridgeInv'
  BY DEF BridgeInv

\* Only the clock changes, and it keeps its form.
LEMMA ClockMoves ==
    ASSUME BridgeInv, DOMAIN narr' = DOMAIN narr, UNCHANGED <<vend, live, trace, pump>>
    PROVE  BridgeInv'
  BY DEF BridgeInv

\* The bridge and the vendor change, and the pump at most to wait for a truncation.
LEMMA BridgeMoves ==
    ASSUME BridgeInv, vend' \in Vendors, BridgeIsSound(live', vend'.up, trace), narr' = narr,
           trace' = trace, pump' = pump \/ pump' \notin Barging
    PROVE  BridgeInv'
  BY DEF BridgeInv, BargeIsPlaced

\* The gate opens, behind the position.
LEMMA EngageKeeps == ASSUME BridgeInv, engage PROVE BridgeInv'
<1> DEFINE l == [live EXCEPT !.active = TRUE, !.owed = TRUE, !.started = FALSE,
                             !.spoke = FALSE, !.asked = FALSE, !.guard = TRUE,
                             !.preroll = FALSE]
<1>1. /\ vend \in Vendors /\ "playing" \in DOMAIN narr /\ BridgeIsSound(live, vend.up, trace)
      /\ TraceIsClean(trace) /\ trace.placed /\ ~ trace.narrating /\ live \in Bridges
  BY DEF BridgeInv, engage, BargeIsPlaced, Barging, BridgeIsSound
<1>2. pump' = "idle" /\ UNCHANGED <<narr, wire, reader_at>>
  BY DEF engage
<1>3. /\ l \in Bridges /\ l.there = live.there /\ l.active /\ l.guard
  BY <1>1 DEF Bridges
<1>4. IF live.preroll THEN forward(l, trace)
      ELSE live' = (IF _live_channel THEN l ELSE live) /\ UNCHANGED <<vend, trace>>
  BY DEF engage
<1> HIDE DEF l
<1>5. GateIsPlaced(l, trace) /\ OwedToSomeone(l) /\ FloorGuarded(l)
  BY <1>1, <1>3 DEF GateIsPlaced, OwedToSomeone, FloorGuarded
<1>6. _live_channel => BridgeIsSound(l, vend.up, trace)
  BY <1>3, <1>5 DEF BridgeIsSound, ChannelOrNothing, _live_channel
<1>7. CASE ~ live.preroll
  <2>1. BridgeIsSound(live', vend.up, trace) /\ vend' = vend /\ trace' = trace
    BY <1>1, <1>4, <1>6, <1>7
  <2> QED
    BY <1>1, <1>2, <2>1 DEF BridgeInv, BargeIsPlaced, Barging
<1>8. CASE live.preroll /\ _live_channel
  <2>1. /\ vend' \in Vendors /\ BridgeIsSound(live', vend'.up, trace')
        /\ TraceIsClean(trace')
    BY <1>1, <1>4, <1>6, <1>8, ForwardKeeps
  <2> QED
    BY <1>1, <1>2, <2>1 DEF BridgeInv, BargeIsPlaced, Barging
<1>9. CASE live.preroll /\ ~ _live_channel
  <2>1. ~ Sends
    BY <1>1, <1>9 DEF BridgeIsSound, ChannelOrNothing, _live_channel, Sends
  <2>2. live' = _on_live_failed(l) /\ vend' = vend /\ trace' = trace
    BY <1>3, <1>4, <1>9, <2>1 DEF forward
  <2>3. BridgeIsSound(live', vend.up, trace)
    BY <1>3, <2>1, <2>2, FailedIsIdle, IdleIsSound DEF Sends
  <2> QED
    BY <1>1, <1>2, <2>2, <2>3 DEF BridgeInv, BargeIsPlaced, Barging
<1> QED
  BY <1>7, <1>8, <1>9

\* The packet of a barge-in on an open floor
LEMMA PacketKeeps == ASSUME BridgeInv, forward_packet PROVE BridgeInv'
<1> DEFINE l == [live EXCEPT !.active = @ /\ _live_channel]
<1>1. /\ live \in Bridges /\ BridgeIsSound(live, vend.up, trace) /\ vend \in Vendors
      /\ TraceIsClean(trace) /\ "playing" \in DOMAIN narr
  BY DEF BridgeInv, BridgeIsSound
<1>2. live.active /\ _live_channel <=> live.active
  BY <1>1 DEF BridgeIsSound, ChannelOrNothing, _live_channel
<1>3. PICK a \in BOOLEAN : a = (live.active /\ _live_channel)
  OBVIOUS
<1>4. l = [live EXCEPT !.active = a]
  BY <1>3
<1>5. forward(l, trace) /\ pump' = "idle" /\ narr' = narr
  BY DEF forward_packet
<1> HIDE DEF l
<1>6. /\ l \in Bridges /\ l.there = live.there /\ (l.active <=> live.active) /\ l.owed = live.owed
      /\ l.started = live.started /\ l.spoke = live.spoke /\ l.asked = live.asked
      /\ l.guard = live.guard
  BY <1>1, <1>2, <1>3, <1>4 DEF Bridges
<1>7. BridgeIsSound(l, vend.up, trace)
  BY <1>1, <1>6 DEF BridgeIsSound, ChannelOrNothing, GateIsPlaced, OwedToSomeone, FloorGuarded
<1>8. /\ vend' \in Vendors /\ BridgeIsSound(live', vend'.up, trace') /\ TraceIsClean(trace')
  BY <1>1, <1>5, <1>7, ForwardKeeps
<1> QED
  BY <1>1, <1>5, <1>8 DEF BridgeInv, BargeIsPlaced, Barging

\* The narration goes on, and an open floor is closed first.
LEMMA ResumeKeeps ==
    ASSUME BridgeInv, NEW pos, narration_resumed(pos)
    PROVE  BridgeInv'
<1>1. /\ live \in Bridges /\ BridgeIsSound(live, vend.up, trace) /\ vend \in Vendors
      /\ TraceIsClean(trace) /\ "playing" \in DOMAIN narr /\ trace \in Traces
  BY DEF BridgeInv, BridgeIsSound, TraceIsClean
<1>2. pump = "idle" /\ trace' = [trace EXCEPT !.narrating = TRUE]
      /\ narr' = start(Positioned(narr, pos))
  BY DEF narration_resumed, Frame
<1>3. "playing" \in DOMAIN narr'
  BY <1>1, <1>2 DEF start, Positioned, seek
<1>4. TraceIsClean(trace')
  BY <1>1, <1>2 DEF TraceIsClean, Traces
<1>5. CASE _live_channel /\ live.active
  <2>1. disengage
    BY <1>5 DEF narration_resumed
  <2>2. Idle_bridge(Disengaged(live)) /\ Disengaged(live).there = live.there
        /\ Disengaged(live) \in Bridges
    BY <1>1, DisengagedIsIdle DEF Idle_bridge
  <2>3. BridgeIsSound(Disengaged(live), vend.up, trace) 
    BY <1>5, <2>2, IdleIsSound DEF _live_channel
  <2>4. CASE live' = _on_live_failed(Disengaged(live)) /\ ~ Sends /\ UNCHANGED <<vend, wire, pump>>
    <3>1. BridgeIsSound(live', vend'.up, trace')
      BY <2>2, <2>4, FailedIsIdle, IdleIsSound DEF Sends
    <3> QED
      BY <1>1, <1>2, <1>3, <1>4, <2>4, <3>1 DEF BridgeInv, BargeIsPlaced, Barging
  <2>5. CASE cancel_response(Disengaged(live)) /\ UNCHANGED pump
    <3>1. vend' \in Vendors /\ vend'.up = vend.up
      BY <1>1, <2>3, <2>5, CancelKeeps
    <3>2. live' = [Disengaged(live) EXCEPT !.inflight = FALSE]
      BY <2>5 DEF cancel_response
    <3>3. Idle_bridge(live') /\ live'.there = Disengaged(live).there
      BY <2>2, <3>2 DEF Idle_bridge, Bridges
    <3>4. BridgeIsSound(live', vend'.up, trace')
      BY <1>5, <2>2, <3>3, IdleIsSound DEF _live_channel
    <3> QED
      BY <1>1, <1>2, <1>3, <1>4, <2>5, <3>1, <3>4 DEF BridgeInv, BargeIsPlaced, Barging
  <2>6. CASE live' = Disengaged(live) /\ pump' = "cancelling" /\ UNCHANGED <<vend, wire>>
    <3>1. BridgeIsSound(live', vend'.up, trace')
      BY <1>5, <2>2, <2>6, IdleIsSound DEF _live_channel
    <3> QED
      BY <1>1, <1>2, <1>3, <1>4, <2>6, <3>1 DEF BridgeInv, BargeIsPlaced, Barging
  <2> QED
    BY <2>1, <2>4, <2>5, <2>6 DEF disengage
<1>6. CASE ~ (_live_channel /\ live.active)
  <2>1. UNCHANGED <<live, vend, wire, pump>>
    BY <1>6 DEF narration_resumed
  <2>2. ~ live.active
    BY <1>1, <1>6 DEF BridgeIsSound, ChannelOrNothing, _live_channel
  <2>3. BridgeIsSound(live, vend.up, trace')
    BY <1>1, <2>2 DEF BridgeIsSound, GateIsPlaced
  <2> QED
    BY <1>1, <1>2, <1>3, <1>4, <2>1, <2>3 DEF BridgeInv, BargeIsPlaced, Barging
<1> QED
  BY <1>5, <1>6

\* What a bridge's own fields say of it, carried to one that agrees with it there
Alike(l, m) ==
    /\ l.there = m.there /\ l.active = m.active /\ l.owed = m.owed /\ l.started = m.started
    /\ l.spoke = m.spoke /\ l.asked = m.asked /\ l.guard = m.guard

\* Soundness reads nothing of a bridge but those fields.
LEMMA AlikeIsSound ==
    ASSUME NEW l \in Bridges, NEW m, Alike(l, m), NEW up, NEW t, BridgeIsSound(m, up, t)
    PROVE  BridgeIsSound(l, up, t)
  BY DEF Alike, BridgeIsSound, ChannelOrNothing, GateIsPlaced, OwedToSomeone, FloorGuarded

\* A typed question is owed its reply and takes the guard's place.
LEMMA TextKeeps ==
    ASSUME BridgeInv, NEW opens \in BOOLEAN, respond_to_text(opens)
    PROVE  BridgeInv'
<1> DEFINE l == _reopen_if_dropped(opens)
           v == IF Reopens THEN IF opens THEN Vendor ELSE vend ELSE vend
           asked_of == [l EXCEPT !.owed = TRUE, !.asked = TRUE, !.started = FALSE,
                                 !.guard = FALSE, !.inflight = TRUE]
<1>1. v \in Vendors /\ BridgeIsSound(l, v.up, trace) /\ (Reopens => Idle_bridge(l))
  BY ReopenIsSound
<1>2. /\ live \in Bridges /\ BridgeIsSound(live, vend.up, trace) /\ vend \in Vendors
      /\ TraceIsClean(trace) /\ "playing" \in DOMAIN narr /\ trace \in Traces
  BY DEF BridgeInv, BridgeIsSound, TraceIsClean
<1>3. narr' = narr /\ pump' = pump /\ pump = "idle" /\ trace' = [trace EXCEPT !.turns = @ + 1]
  BY DEF respond_to_text, Frame
<1>4. /\ TraceIsClean(trace') /\ trace'.placed = trace.placed
      /\ trace'.narrating = trace.narrating
  <2>1. trace.turns + 1 \in Nat
    BY <1>2 DEF Traces
  <2> QED
    BY <1>2, <1>3, <2>1 DEF TraceIsClean, Traces
<1>5. Reopens => vend.up # "up"
  BY <1>2 DEF BridgeIsSound, ChannelOrNothing, Reopens
<1> HIDE DEF l
<1>6. l.there = "up" => (Reopens => opens)
  BY FreshIsIdle DEF l, _reopen_if_dropped, start_live, NoBridge, Bridge
<1>7. CASE /\ l.there = "up" /\ (Sends \/ Reopens) /\ live' = asked_of
           /\ vend' = [(IF Reopens THEN Vendor ELSE vend) EXCEPT !.answering = TRUE]
  <2>1. vend' \in Vendors /\ vend'.up = "up"
    BY <1>2, <1>7, FreshIsIdle DEF Vendors, Sends
  <2>2. /\ asked_of \in Bridges /\ asked_of.there = l.there /\ asked_of.active = l.active
        /\ asked_of.asked /\ l \in Bridges
    BY <1>1 DEF BridgeIsSound, Bridges
  <2> HIDE DEF asked_of
  <2>3. BridgeIsSound(live', vend'.up, trace')
    BY <1>1, <1>4, <1>7, <2>1, <2>2
       DEF BridgeIsSound, ChannelOrNothing, GateIsPlaced, OwedToSomeone, FloorGuarded
  <2> QED
    BY <1>2, <1>3, <1>4, <2>1, <2>3 DEF BridgeInv, BargeIsPlaced, Barging
<1>8. CASE l.there = "up" /\ ~ (Sends \/ Reopens) /\ live' = _on_live_failed(l) /\ vend' = vend
  <2>1. l \in Bridges
    BY <1>1 DEF BridgeIsSound
  <2>2. BridgeIsSound(live', vend'.up, trace')
    BY <1>8, <2>1, FailedIsIdle, IdleIsSound DEF Sends
  <2> QED
    BY <1>2, <1>3, <1>4, <1>8, <2>2 DEF BridgeInv, BargeIsPlaced, Barging
<1>9. CASE l.there # "up" /\ live' = l /\ vend' = vend
  <2>1. l \in Bridges /\ ~ l.active /\ ~ l.owed
    BY <1>1, <1>9 DEF BridgeIsSound, ChannelOrNothing
  <2>2. vend.up # "up"
    <3>1. CASE Reopens
      BY <1>5, <3>1
    <3>2. CASE ~ Reopens
      BY <1>1, <1>9, <3>2 DEF BridgeIsSound, ChannelOrNothing
    <3> QED
      BY <3>1, <3>2
  <2>3. BridgeIsSound(live', vend'.up, trace')
    BY <1>9, <2>1, <2>2, IdleIsSound DEF Idle_bridge
  <2> QED
    BY <1>2, <1>3, <1>4, <1>9, <2>3 DEF BridgeInv, BargeIsPlaced, Barging
<1> QED
  BY <1>7, <1>8, <1>9 DEF respond_to_text, l

\* The guard closes a floor nobody spoke into, or stands down.
LEMMA GuardKeeps == ASSUME BridgeInv, _close_floor_if_silent PROVE BridgeInv'
<1>1. /\ live \in Bridges /\ BridgeIsSound(live, vend.up, trace) /\ vend \in Vendors
  BY DEF BridgeInv, BridgeIsSound
<1>2. narr' = narr /\ trace' = trace /\ pump' = pump
  BY DEF _close_floor_if_silent
<1>3. CASE live.active /\ ~ live.spoke /\ ~ live.started
  <2>1. /\ Disengaged(live) \in Bridges /\ BridgeIsSound(Disengaged(live), vend.up, trace)
    BY <1>1, <1>3, DisengagedIsIdle, IdleIsSound DEF Idle_bridge, BridgeIsSound, ChannelOrNothing
  <2>2. CASE Sends
    <3>1. cancel_response(Disengaged(live))
      BY <1>3, <2>2 DEF _close_floor_if_silent
    <3>2. vend' \in Vendors /\ vend'.up = vend.up /\ BridgeIsSound(live', vend'.up, trace)
      BY <1>1, <2>1, <3>1, CancelKeeps
    <3> QED
      BY <1>2, <3>2, BridgeMoves
  <2>3. CASE ~ Sends
    <3>1. live' = Disengaged(live) /\ vend' = vend
      BY <1>3, <2>3 DEF _close_floor_if_silent
    <3> QED
      BY <1>1, <1>2, <2>1, <3>1, BridgeMoves
  <2> QED
    BY <2>2, <2>3
<1>4. CASE ~ (live.active /\ ~ live.spoke /\ ~ live.started)
  <2>1. live' = [live EXCEPT !.guard = FALSE] /\ vend' = vend
    BY <1>4 DEF _close_floor_if_silent
  <2>2. /\ live' \in Bridges /\ live'.there = live.there /\ live'.active = live.active
        /\ live'.owed = live.owed /\ live'.started = live.started /\ live'.spoke = live.spoke
        /\ live'.asked = live.asked
    BY <1>1, <2>1 DEF Bridges
  <2>3. BridgeIsSound(live', vend'.up, trace)
    BY <1>1, <1>4, <2>1, <2>2
       DEF BridgeIsSound, ChannelOrNothing, GateIsPlaced, OwedToSomeone, FloorGuarded
  <2> QED
    BY <1>1, <1>2, <2>1, <2>3, BridgeMoves
<1> QED
  BY <1>3, <1>4

\* The cut reply is cancelled after its truncation went out.
LEMMA CutKeeps == ASSUME BridgeInv, cancel_cut_reply PROVE BridgeInv'
<1>1. /\ live \in Bridges /\ BridgeIsSound(live, vend.up, trace) /\ vend \in Vendors
  BY DEF BridgeInv, BridgeIsSound
<1>2. narr' = narr /\ trace' = trace /\ pump' \notin Barging
  BY DEF cancel_cut_reply, Barging
<1>3. CASE Sends
  <2>1. cancel_response(live)
    BY <1>3 DEF cancel_cut_reply
  <2> QED
    BY <1>1, <1>2, <2>1, CancelKeeps, BridgeMoves
<1>4. CASE ~ Sends
  <2>1. live' = _on_live_failed(live) /\ vend' = vend
    BY <1>4 DEF cancel_cut_reply
  <2>2. BridgeIsSound(live', vend'.up, trace)
    BY <1>1, <1>4, <2>1, FailedIsIdle, IdleIsSound DEF Sends
  <2> QED
    BY <1>1, <1>2, <2>1, <2>2, BridgeMoves
<1> QED
  BY <1>3, <1>4

\* A reply that reaches the listener was owed: to an open floor, behind a narration that
\* has stopped, or to a typed question.
LEMMA ReplyKeeps == ASSUME BridgeInv, on_audio PROVE BridgeInv'
<1>1. /\ live \in Bridges /\ BridgeIsSound(live, vend.up, trace) /\ vend \in Vendors
      /\ TraceIsClean(trace) /\ trace \in Traces
  BY DEF BridgeInv, BridgeIsSound, TraceIsClean
<1>2. narr' = narr /\ pump' = pump /\ vend' = vend
  BY DEF on_audio, Reads
<1>3. CASE ~ live.owed /\ UNCHANGED <<live, trace>>
  BY <1>2, <1>3, VoiceStill
<1>4. CASE /\ live.owed /\ live' = [live EXCEPT !.started = TRUE]
           /\ trace' = [trace EXCEPT !.over = @ \/ (trace.narrating /\ ~ live.asked)]
  <2>1. ~ (trace.over \/ (trace.narrating /\ ~ live.asked))
    BY <1>1, <1>4 DEF BridgeIsSound, OwedToSomeone, GateIsPlaced, TraceIsClean
  <2>2. trace' = trace
    <3>1. trace.over = FALSE
      BY <1>1 DEF TraceIsClean, Traces
    <3>2. trace' = [trace EXCEPT !.over = FALSE]
      BY <1>4, <2>1
    <3> QED
      BY <1>1, <3>1, <3>2 DEF Traces
  <2>3. /\ live' \in Bridges /\ live'.there = live.there /\ live'.active = live.active
        /\ live'.owed = live.owed /\ live'.started
        /\ live'.asked = live.asked
    BY <1>1, <1>4 DEF Bridges
  <2>4. BridgeIsSound(live', vend'.up, trace)
    BY <1>1, <1>2, <2>3
       DEF BridgeIsSound, ChannelOrNothing, GateIsPlaced, OwedToSomeone, FloorGuarded
  <2> QED
    BY <1>1, <1>2, <2>2, <2>4, BridgeMoves
<1> QED
  BY <1>3, <1>4 DEF on_audio

\* The other events of the vendor
LEMMA ReaderKeeps ==
    ASSUME BridgeInv,
           \/ on_speech_started \/ on_speech_stopped \/ on_created \/ on_tool_call
           \/ tool_output \/ stream_ends \/ \E c \in BOOLEAN : on_turn_done(c)
    PROVE  BridgeInv'
<1>1. /\ live \in Bridges /\ BridgeIsSound(live, vend.up, trace) /\ vend \in Vendors
  BY DEF BridgeInv, BridgeIsSound
<1>2. narr' = narr /\ trace' = trace /\ pump' = pump
  BY DEF on_speech_started, on_speech_stopped, on_created, on_tool_call, tool_output, stream_ends,
         on_turn_done, Reads
<1>3. ASSUME live' = _end(live), ~ Sends, vend' \in Vendors, vend'.up = vend.up PROVE BridgeInv'
  <2>1. BridgeIsSound(live', vend'.up, trace)
    BY <1>1, <1>3, FailedIsIdle, IdleIsSound DEF Sends
  <2> QED
    BY <1>2, <1>3, <2>1, BridgeMoves
<1>4. CASE on_speech_started
  <2>1. CASE live.started /\ ~ Sends
    BY <1>1, <1>3, <1>4, <2>1 DEF on_speech_started
  <2>2. CASE ~ (live.started /\ ~ Sends)
    <3>1. /\ live' = [live EXCEPT !.spoke = TRUE, !.talking = TRUE, !.guard = FALSE,
                                  !.started = FALSE]
          /\ vend' = vend
      BY <1>4, <2>2 DEF on_speech_started
    <3>2. /\ live' \in Bridges /\ live'.there = live.there /\ live'.active = live.active
          /\ live'.owed = live.owed /\ live'.spoke /\ live'.asked = live.asked
      BY <1>1, <3>1 DEF Bridges
    <3>3. BridgeIsSound(live', vend'.up, trace)
      BY <1>1, <3>1, <3>2
         DEF BridgeIsSound, ChannelOrNothing, GateIsPlaced, OwedToSomeone, FloorGuarded
    <3> QED
      BY <1>1, <1>2, <3>1, <3>3, BridgeMoves
  <2> QED
    BY <2>1, <2>2
<1>5. CASE on_speech_stopped \/ on_created \/ on_tool_call
  <2>1. vend' = vend /\ live' \in Bridges /\ Alike(live', live)
    BY <1>1, <1>5 DEF on_speech_stopped, on_created, on_tool_call, Bridges, Alike
  <2> QED
    BY <1>1, <1>2, <2>1, AlikeIsSound, BridgeMoves
<1>6. CASE tool_output
  <2>1. vend' \in Vendors /\ vend'.up = vend.up
    <3>1. PICK b \in BOOLEAN : b = (vend.answering \/ Sends)
      OBVIOUS
    <3>2. vend' = [vend EXCEPT !.answering = b]
      BY <1>6, <3>1 DEF tool_output
    <3> QED
      BY <1>1, <3>2 DEF Vendors
  <2>2. CASE Sends
    <3>1. live' = [live EXCEPT !.tools = 0, !.inflight = TRUE]
      BY <1>6, <2>2 DEF tool_output
    <3>2. live' \in Bridges /\ Alike(live', live)
      BY <1>1, <3>1 DEF Bridges, Alike
    <3> QED
      BY <1>1, <1>2, <2>1, <3>2, AlikeIsSound, BridgeMoves
  <2>3. CASE ~ Sends
    BY <1>3, <1>6, <2>1, <2>3 DEF tool_output
  <2> QED
    BY <2>2, <2>3
<1>7. CASE stream_ends
  BY <1>1, <1>3, <1>7 DEF stream_ends
<1>8. ASSUME NEW c \in BOOLEAN, on_turn_done(c) PROVE BridgeInv'
  <2> DEFINE l == [live EXCEPT !.inflight = FALSE, !.follow = FALSE]
  <2>1. vend' = vend /\ l \in Bridges /\ Alike(l, live)
    BY <1>1, <1>8 DEF on_turn_done, Bridges, Alike
  <2>2. CASE live' = l
    BY <1>1, <1>2, <2>1, <2>2, AlikeIsSound, BridgeMoves
  <2>3. CASE live' = [l EXCEPT !.active = FALSE, !.owed = FALSE, !.guard = FALSE,
                               !.started = FALSE]
    <3>1. Idle_bridge(live') /\ live'.there = l.there
      <4> HIDE DEF l
      <4> QED
        BY <2>1, <2>3 DEF Bridges, Idle_bridge
    <3>2. l.there = "up" \/ vend.up # "up"
      BY <1>1, <2>1 DEF Alike, BridgeIsSound, ChannelOrNothing
    <3>3. BridgeIsSound(live', vend'.up, trace)
      <4> HIDE DEF l
      <4> QED
        BY <2>1, <3>1, <3>2, IdleIsSound
    <3> QED
      BY <1>1, <1>2, <2>1, <3>3, BridgeMoves
  <2> QED
    BY <1>8, <2>2, <2>3 DEF on_turn_done
<1> QED
  BY <1>4, <1>5, <1>6, <1>7, <1>8

\* The vendor's own steps: its socket may drop, but it does not come back by itself.
LEMMA VendorKeeps ==
    ASSUME BridgeInv,
           vendor_speech_starts \/ vendor_speech_ends \/ vendor_answers \/ vendor_drops
    PROVE  BridgeInv'
<1>1. /\ live \in Bridges /\ BridgeIsSound(live, vend.up, trace) /\ vend \in Vendors
  BY DEF BridgeInv, BridgeIsSound
<1>2. narr' = narr /\ trace' = trace /\ pump' = pump /\ live' = live
  BY DEF vendor_speech_starts, vendor_speech_ends, vendor_answers, vendor_drops, VendorSays
<1>3. vend' \in Vendors /\ (vend'.up = vend.up \/ vend'.up # "up")
  <2>1. CASE vendor_drops
    BY <2>1 DEF vendor_drops, Vendor, Vendors
  <2>2. CASE vendor_speech_starts \/ vendor_speech_ends \/ vendor_answers
    BY <1>1, <2>2 DEF vendor_speech_starts, vendor_speech_ends, vendor_answers, Vendors
  <2> QED
    BY <2>1, <2>2
<1>4. BridgeIsSound(live, vend'.up, trace)
  BY <1>1, <1>3 DEF BridgeIsSound, ChannelOrNothing
<1> QED
  BY <1>2, <1>3, <1>4, BridgeMoves

\* A session begins with an idle bridge, and ends with none.
LEMMA SessionKeeps ==
    ASSUME BridgeInv, SocketIsOpened,
           \/ close_session
           \/ \E claims, opens, pos : _authenticate(claims, opens, pos)
    PROVE  BridgeInv'
<1>1. CASE close_session
  <2>1. /\ live' = NoBridge /\ vend' = NoVendor /\ narr' = Silent /\ trace' = NoTrace
        /\ pump' = "idle"
    BY <1>1 DEF close_session, Frame
  <2>2. BridgeIsSound(live', vend'.up, trace')
    BY <2>1, FreshIsIdle, IdleIsSound
  <2> QED
    BY <2>1, <2>2, FreshIsIdle DEF BridgeInv, BargeIsPlaced, Barging
<1>2. ASSUME NEW claims, NEW opens, NEW pos, _authenticate(claims, opens, pos) PROVE BridgeInv'
  <2>1. /\ BridgeIsSound(live, vend.up, trace) /\ vend \in Vendors /\ "playing" \in DOMAIN narr
        /\ TraceIsClean(trace) /\ BargeIsPlaced(trace, pump)
    BY DEF BridgeInv
  <2>2. trace' = trace /\ pump' = pump
    BY <1>2 DEF _authenticate
  <2>3. "playing" \in DOMAIN narr'
    BY <1>2, <2>1 DEF _authenticate, Positioned, seek
  <2>4. vend' \in Vendors
    BY <1>2, <2>1, FreshIsIdle DEF _authenticate
  <2>5. BridgeIsSound(live', vend'.up, trace)
    <3>1. CASE session_at' = "open" /\ opens
      <4>1. live' = Bridge /\ vend' = Vendor
        BY <1>2, <3>1 DEF _authenticate, start_live
      <4> QED
        BY <4>1, FreshIsIdle, IdleIsSound
    <3>2. CASE session_at' = "open" /\ ~ opens
      <4>1. live' = NoBridge /\ vend' = vend
        BY <1>2, <3>2 DEF _authenticate, start_live
      <4>2. vend.up # "up"
        BY <1>2 DEF _authenticate, SocketIsOpened
      <4> QED
        BY <4>1, <4>2, FreshIsIdle, IdleIsSound
    <3>3. CASE session_at' # "open"
      BY <1>2, <2>1, <3>3 DEF _authenticate
    <3> QED
      BY <3>1, <3>2, <3>3
  <2> QED
    BY <2>1, <2>2, <2>3, <2>4, <2>5 DEF BridgeInv
<1> QED
  BY <1>1, <1>2

\* The clock's own steps
LEMMA ClockKeeps ==
    ASSUME BridgeInv,
           \/ _settle
           \/ \E n : narration_delivered(n)
           \/ \E pos : narration_paused(pos) \/ client_reported_position(pos)
    PROVE  BridgeInv'
<1>1. UNCHANGED <<vend, live, trace, pump>>
  BY DEF _settle, narration_delivered, narration_paused, client_reported_position
<1>2. DOMAIN narr' = DOMAIN narr
  BY DEF _settle, narration_delivered, narration_paused, client_reported_position, start, deliver,
         pause, Positioned, seek
<1> QED
  BY <1>1, <1>2, ClockMoves

\* Every step of the listener, the session, the guard and the vendor keeps the bridge sound.
LEMMA BridgeStep ==
    ASSUME BridgeInv, SocketIsOpened, [VoiceNext]_voiceVars PROVE BridgeInv'
<1>1. ASSUME NEW a, start_session(a) PROVE BridgeInv'
  BY <1>1, VoiceStill DEF start_session
<1>2. CASE \E claims, opens, pos : _authenticate(claims, opens, pos)
  BY <1>2, SessionKeeps
<1>3. ASSUME NEW q \in BOOLEAN, NEW o \in BOOLEAN, receive_audio(q, o) PROVE BridgeInv'
  BY <1>3, AudioKeeps
<1>4. ASSUME NEW o \in BOOLEAN, client_barge_in(o) PROVE BridgeInv'
  BY <1>4, BargeKeeps DEF client_barge_in, Frame
<1>5. ASSUME NEW o \in BOOLEAN, respond_to_text(o) PROVE BridgeInv'
  BY <1>5, TextKeeps
<1>6. ASSUME NEW pos, narration_resumed(pos) PROVE BridgeInv'
  BY <1>6, ResumeKeeps
<1>7. CASE \/ _settle
           \/ \E n : narration_delivered(n)
           \/ \E pos : narration_paused(pos) \/ client_reported_position(pos)
  BY <1>7, ClockKeeps
<1>8. CASE engage
  BY <1>8, EngageKeeps
<1>9. CASE forward_packet
  BY <1>9, PacketKeeps
<1>10. CASE cancel_cut_reply
  BY <1>10, CutKeeps
<1>11. CASE _close_floor_if_silent
  BY <1>11, GuardKeeps
<1>12. CASE Reader
  BY <1>12, ReplyKeeps, ReaderKeeps DEF Reader
<1>13. CASE vendor_speech_starts \/ vendor_speech_ends \/ vendor_answers \/ vendor_drops
  BY <1>13, VendorKeeps
<1>14. CASE refractory_over
  BY <1>14, VoiceStill DEF refractory_over
<1>15. CASE close_session
  BY <1>15, SessionKeeps
<1>16. CASE UNCHANGED voiceVars
  BY <1>16, VoiceStill DEF voiceVars
<1> QED
  BY <1>1, <1>2, <1>3, <1>4, <1>5, <1>6, <1>7, <1>8, <1>9, <1>10, <1>11, <1>12, <1>13, <1>14,
     <1>15, <1>16 DEF VoiceNext, ClientFrame

\* Only authenticating a session opens its first socket.
LEMMA SocketKeeps ==
    ASSUME BridgeInv, SocketIsOpened, [VoiceNext]_voiceVars PROVE SocketIsOpened'
<1>0. vend \in Vendors
  BY DEF BridgeInv
<1>1. ASSUME session_at' = session_at, vend'.up = vend.up PROVE SocketIsOpened'
  BY <1>1 DEF SocketIsOpened
<1>2. ASSUME session_at' = session_at, session_at = "open" PROVE SocketIsOpened'
  BY <1>2 DEF SocketIsOpened
<1>3. ASSUME NEW a, start_session(a) PROVE SocketIsOpened'
  BY <1>3 DEF start_session, SocketIsOpened
<1>4. ASSUME NEW c, NEW o, NEW pos, _authenticate(c, o, pos) PROVE SocketIsOpened'
  BY <1>4 DEF _authenticate, SocketIsOpened
<1>5. CASE close_session
  BY <1>5 DEF close_session, SocketIsOpened
<1>6. CASE ClientFrame
  BY <1>2, <1>6 DEF ClientFrame, receive_audio, client_barge_in, respond_to_text,
     narration_delivered, narration_paused, narration_resumed, client_reported_position, Frame
<1>7. CASE engage \/ forward_packet
  <2>1. session_at' = session_at
    BY <1>7 DEF engage, forward_packet
  <2>2. vend' = vend \/ vend' = [vend EXCEPT !.hears = TRUE]
    BY <1>7 DEF engage, forward_packet, forward
  <2> QED
    BY <1>0, <1>1, <2>1, <2>2 DEF Vendors
<1>8. CASE cancel_cut_reply
  <2>1. session_at' = session_at /\ (cancel_response(live) \/ vend' = vend)
    BY <1>8 DEF cancel_cut_reply
  <2>2. cancel_response(live) => vend'.up = vend.up
    BY <1>0 DEF cancel_response, Vendors
  <2> QED
    BY <1>1, <2>1, <2>2
<1>9. CASE Reader
  BY <1>2, <1>9 DEF Reader, on_speech_started, on_speech_stopped, on_created, on_audio,
     on_tool_call, tool_output, stream_ends, on_turn_done, Reads
<1>10. CASE \/ vendor_speech_starts \/ vendor_speech_ends \/ vendor_answers \/ vendor_drops
            \/ _close_floor_if_silent \/ _settle \/ refractory_over
  BY <1>2, <1>10 DEF vendor_speech_starts, vendor_speech_ends, vendor_answers, vendor_drops,
     VendorSays, _close_floor_if_silent, _settle, refractory_over
<1>11. CASE UNCHANGED voiceVars
  BY <1>1, <1>11 DEF voiceVars
<1> QED
  BY <1>3, <1>4, <1>5, <1>6, <1>7, <1>8, <1>9, <1>10, <1>11 DEF VoiceNext

\* Every step keeps the invariant.
LEMMA VoiceStep == VoiceInv /\ [VoiceNext]_voiceVars => VoiceInv'
  BY BridgeStep, SocketKeeps DEF VoiceInv

\* The invariant gives what the bridge promises.
LEMMA VoiceUse == VoiceInv => FloorIsKept
  BY DEF VoiceInv, BridgeInv, BridgeIsSound, GateIsPlaced, FloorGuarded, TraceIsClean,
     FloorIsKept, SpendGate, SilentFloorIsGuarded, VendorIsPlaced

\* Audio goes out only over a floor that was taken behind a told position, replies reach
\* the listener only when owed, and a floor left silent has its guard.
THEOREM FloorIsKeptAlways == VoiceSpec => []FloorIsKept
  BY VoiceStart, VoiceStep, VoiceUse, PTL DEF VoiceSpec

(***************************************************************************)
(* Backlog                                                                 *)
(***************************************************************************)

StoryRows == [read : BOOLEAN, recent : BOOLEAN, title : RawTitles]
Results == [merged : BOOLEAN, into : Nat, title : RawTitles]

\* The titles an integrate read are still those of the stories, which are no more.
TitlesStand(rows) ==
    /\ rows \in Seq(StoryRows) /\ Len(rows) = Len(story)
    /\ \A i \in 1..Len(story) : rows[i].title = story[i].title
\* A story its window left out is read, or has a windowful of newer ones.
WindowIsWide(t) ==
    /\ t.window \subseteq 1..Len(t.rows)
    /\ \A i \in 1..Len(t.rows) :
           ~ t.rows[i].read /\ i \notin t.window => Len(t.rows) - i >= WindowMax
\* A story brought back while the model thinks has had its headline excused.
ReturnsExcused(rows) ==
    \A i \in 1..Len(story) :
        ~ story[i].read /\ rows[i].read /\ story[i].title.word # None
            => story[i].title.word \in twins

BacklogInv ==
    /\ story \in Seq(StoryRows) /\ Len(story) <= MaxStories /\ twins \subseteq Words
    /\ think # None =>
           TitlesStand(think.rows) /\ WindowIsWide(think) /\ ReturnsExcused(think.rows)
    /\ LandsUnread
    /\ TwinsAreExplained

\* Nobody thinks and there are no stories.
LEMMA BacklogStart == BacklogInit => BacklogInv
  BY BacklogAssumption, EmptySeq
     DEF BacklogInit, BacklogInv, LandsUnread, TwinsAreExplained, TitlesStand, WindowIsWide,
         ReturnsExcused

\* The first of a set of numbers is of it.
LEMMA FirstIsOf ==
    ASSUME NEW S, S \subseteq Nat, S # {}
    PROVE  FirstOf(S) \in S
  BY LowestExists DEF FirstOf

\* Of the stories that come after one, no more are in the window than there are.
LEMMA FewAfter ==
    ASSUME NEW n \in Nat, NEW i \in 1..n, NEW S, S \subseteq (i + 1)..n
    PROVE  IsFiniteSet(S) /\ Cardinality(S) \in Nat /\ Cardinality(S) <= n - i
<1>1. i + 1 \in Int /\ n \in Int
  OBVIOUS
<1>2. /\ IsFiniteSet((i + 1)..n)
      /\ Cardinality((i + 1)..n) = IF i + 1 > n THEN 0 ELSE n - (i + 1) + 1
  BY <1>1, FS_Interval
<1>3. IsFiniteSet(S) /\ Cardinality(S) <= Cardinality((i + 1)..n)
  BY <1>2, FS_Subset
<1>4. Cardinality(S) \in Nat
  BY <1>3, FS_CardinalityType
<1>5. Cardinality((i + 1)..n) = n - i
  BY <1>2
<1> QED
  BY <1>3, <1>4, <1>5

\* The window as it is read: what it leaves out of the unread is far back.
LEMMA WindowReads ==
    ASSUME story \in Seq(StoryRows)
    PROVE  /\ news_item_window \subseteq 1..Len(story)
           /\ \A i \in 1..Len(story) :
                  ~ story[i].read /\ i \notin news_item_window => Len(story) - i >= WindowMax
<1>0. Len(story) \in Nat
  BY LenProperties
<1>1. news_item_window \subseteq 1..Len(story)
  BY DEF news_item_window
<1>2. ASSUME NEW i \in 1..Len(story), ~ story[i].read, i \notin news_item_window
      PROVE  Len(story) - i >= WindowMax
  <2> DEFINE S == {j \in (i + 1)..Len(story) : InWindow(j)}
  <2>1. ~ (Cardinality(S) < WindowMax)
    BY <1>2 DEF news_item_window, InWindow
  <2>2. S \subseteq (i + 1)..Len(story)
    OBVIOUS
  <2> HIDE DEF S
  <2>3. Cardinality(S) \in Nat /\ Cardinality(S) <= Len(story) - i
    BY <1>0, <2>2, FewAfter
  <2> QED
    BY <1>0, <2>1, <2>3, BacklogAssumption
<1> QED
  BY <1>1, <1>2

\* Beginning to think reads the rows and the window off the stories.
LEMMA BeginKeeps == ASSUME BacklogInv, begin_integrate PROVE BacklogInv'
<1>1. /\ think' = [window |-> news_item_window, rows |-> story] /\ last' = None
      /\ story' = story /\ twins' = twins
  BY DEF begin_integrate
<1>2. think'.window = news_item_window /\ think'.rows = story
  BY <1>1
<1>3. story \in Seq(StoryRows)
  BY DEF BacklogInv
<1>4. TitlesStand(think.rows)' /\ ReturnsExcused(think.rows)'
  BY <1>1, <1>2, <1>3 DEF TitlesStand, ReturnsExcused
<1>5. WindowIsWide(think)'
  BY <1>2, <1>3, WindowReads DEF WindowIsWide
<1> QED
  BY <1>1, <1>4, <1>5 DEF BacklogInv, LandsUnread, TwinsAreExplained

\* Every story of the window has a number and a title.
LEMMA WindowHasTitles ==
    ASSUME think # None, TitlesStand(think.rows), WindowIsWide(think)
    PROVE  \A i \in think.window : /\ think.rows[i].title \in RawTitles /\ i \in Nat /\ i # 0
                                   /\ i \in 1..Len(think.rows)
<1>1. think.rows \in Seq(StoryRows)
  BY DEF TitlesStand
<1>2. Len(think.rows) \in Nat /\ \A i \in 1..Len(think.rows) : think.rows[i] \in StoryRows
  BY <1>1, LenProperties, ElementOfSeq
<1>3. \A x \in StoryRows : x.title \in RawTitles
  BY DEF StoryRows
<1> QED
  BY <1>2, <1>3 DEF WindowIsWide

\* What the model's answer comes to names a story of the window, or none.
LEMMA AnswerIs ==
    ASSUME BacklogInv, think # None, NEW a \in Answers
    PROVE  /\ integrate(a) \in Results
           /\ IF integrate(a).merged THEN integrate(a).into \in think.window
              ELSE integrate(a).into = 0
<1>1. a.title \in RawTitles /\ a.own \in RawTitles /\ a.named \in Nat
  BY BacklogAssumption DEF Answers
<1>2. TitlesStand(think.rows) /\ WindowIsWide(think)
  BY DEF BacklogInv
<1>3. \A i \in think.window : think.rows[i].title \in RawTitles /\ i \in Nat
  BY <1>2, WindowHasTitles
<1>4. \A t, f \in RawTitles : Titled(t, f) \in RawTitles
  BY DEF Titled
<1>5. \A i \in think.window, t \in RawTitles :
         /\ _merged(i, t) \in Results /\ _merged(i, t).merged /\ _merged(i, t).into = i
  BY <1>3 DEF _merged, Results
<1>6. \A t \in RawTitles : [merged |-> FALSE, into |-> 0, title |-> t] \in Results
  BY DEF Results
<1>7. CASE a.relation = "same_event" /\ a.named \in think.window
  <2>1. integrate(a) = _merged(a.named, Titled(a.title, think.rows[a.named].title))
    BY <1>7 DEF integrate
  <2>2. Titled(a.title, think.rows[a.named].title) \in RawTitles
    BY <1>1, <1>3, <1>4, <1>7
  <2> QED
    BY <1>5, <1>7, <2>1, <2>2
<1>8. CASE /\ ~ (a.relation = "same_event" /\ a.named \in think.window)
           /\ a.relation \in {"related", "garbled"} /\ a.named \in think.window
           /\ _is_same_event(a)
  <2>1. integrate(a) = _merged(a.named, think.rows[a.named].title)
    BY <1>8 DEF integrate
  <2> QED
    BY <1>3, <1>5, <1>8, <2>1
<1>9. CASE /\ ~ (a.relation = "same_event" /\ a.named \in think.window)
           /\ ~ (/\ a.relation \in {"related", "garbled"} /\ a.named \in think.window
                 /\ _is_same_event(a))
  <2>1. integrate(a) = [merged |-> FALSE, into |-> 0, title |-> Titled(a.title, a.own)]
    BY <1>9 DEF integrate
  <2>2. Titled(a.title, a.own) \in RawTitles
    BY <1>1, <1>4
  <2> QED
    BY <1>6, <2>1, <2>2
<1> QED
  BY <1>7, <1>8, <1>9

\* Where the answer lands: in a story of the window, which was unread there and keeps
\* its headline unless the model chose it; or in a new one, whose headline no unread
\* story of the window carries.
LEMMA TargetIs ==
    ASSUME BacklogInv, think # None, NEW r \in Results,
           IF r.merged THEN r.into \in think.window ELSE r.into = 0
    PROVE  LET t == _merge_target(r) IN
           /\ t \in Results
           /\ t.into # 0 => t.into \in think.window
           /\ t.into # 0 /\ ~ t.merged => /\ ~ think.rows[t.into].read
                                          /\ t.title = think.rows[t.into].title
           /\ t.into = 0 => \A i \in think.window :
                  ~ think.rows[i].read /\ t.title.word # None
                      => think.rows[i].title.word # t.title.word
<1> DEFINE tw == Twin(r.title)
<1>0. WindowIsWide(think) /\ TitlesStand(think.rows)
  BY DEF BacklogInv
<1>1. \A i \in think.window : i \in Nat /\ i # 0 /\ think.rows[i].title \in RawTitles
  BY <1>0, WindowHasTitles
<1>2. tw \subseteq think.window /\ tw \subseteq Nat
  BY <1>1 DEF Twin
<1>3. CASE r.merged
  <2>1. _merge_target(r) = r
    BY <1>3 DEF _merge_target
  <2> QED
    BY <1>1, <1>3, <2>1
<1>4. CASE ~ r.merged /\ tw = {}
  <2>1. _merge_target(r) = r /\ r.into = 0
    BY <1>4 DEF _merge_target
  <2>2. \A i \in think.window : ~ think.rows[i].read /\ r.title.word # None
                                  => think.rows[i].title.word # r.title.word
    BY <1>4 DEF Twin, _normalize_title
  <2> QED
    BY <2>1, <2>2
<1>5. CASE ~ r.merged /\ tw # {}
  <2>1. PICK i \in tw : i = FirstOf(tw)
    <3> HIDE DEF tw
    <3> QED
      BY <1>2, <1>5, FirstIsOf
  <2>2. _merge_target(r) = [r EXCEPT !.into = i, !.title = think.rows[i].title]
    BY <1>5, <2>1 DEF _merge_target
  <2>3. i \in think.window /\ ~ think.rows[i].read
    BY DEF Twin
  <2>4. [r EXCEPT !.into = i, !.title = think.rows[i].title] \in Results
    BY <1>1, <2>3 DEF Results
  <2> HIDE DEF tw
  <2> QED
    BY <1>1, <1>5, <2>2, <2>3, <2>4 DEF Results
<1> QED
  BY <1>3, <1>4, <1>5

\* An answer lands.
LEMMA LandingKeeps ==
    ASSUME BacklogInv, think # None, NEW r \in Results,
           IF r.merged THEN r.into \in think.window ELSE r.into = 0,
           handle_integrate(r)
    PROVE  BacklogInv'
<1> DEFINE t == _merge_target(r)
<1>1. /\ t \in Results
      /\ t.into # 0 => t.into \in think.window
      /\ t.into # 0 /\ ~ t.merged => ~ think.rows[t.into].read
                                     /\ t.title = think.rows[t.into].title
      /\ t.into = 0 => \A i \in think.window :
             ~ think.rows[i].read /\ t.title.word # None
                 => think.rows[i].title.word # t.title.word
  BY TargetIs
<1>2. /\ \/ /\ t.into # 0
            /\ story' = [story EXCEPT ![t.into].title = t.title]
            /\ last' = [into |-> t.into, judged |-> t.merged,
                        stale |-> story[t.into].read # think.rows[t.into].read]
         \/ /\ t.into = 0 /\ Len(story) < MaxStories
            /\ story' = Append(story, [read |-> FALSE, recent |-> TRUE, title |-> t.title])
            /\ last' = [into |-> Len(story) + 1, judged |-> FALSE, stale |-> FALSE]
      /\ twins' = twins \cup Excused(t) /\ think' = None
  BY DEF handle_integrate, merge_source_into_news_item, insert_news_item
<1> HIDE DEF t
<1>3. story \in Seq(StoryRows) /\ Len(story) \in Nat /\ Len(story) <= MaxStories
      /\ twins \subseteq Words
      /\ \A i \in 1..Len(story) : story[i] \in StoryRows
  BY LenProperties, ElementOfSeq DEF BacklogInv
<1>4. TitlesStand(think.rows) /\ WindowIsWide(think) /\ ReturnsExcused(think.rows)
  BY DEF BacklogInv
<1>5. t.title \in RawTitles /\ t.title.word \in Words \cup {None}
  BY <1>1 DEF Results, RawTitles
<1>6. twins' \subseteq Words
  BY <1>2, <1>3, <1>5 DEF Excused
<1>7. CASE t.into # 0
  <2>1. t.into \in 1..Len(story)
    BY <1>1, <1>4, <1>7 DEF WindowIsWide, TitlesStand
  <2>2. story' = [story EXCEPT ![t.into].title = t.title] /\ last'.into = t.into
        /\ last'.judged = t.merged /\ last'.stale = (story[t.into].read # think.rows[t.into].read)
    BY <1>2, <1>7
  <2>3. [story[t.into] EXCEPT !.title = t.title] \in StoryRows
        /\ [story[t.into] EXCEPT !.title = t.title].read = story[t.into].read
        /\ [story[t.into] EXCEPT !.title = t.title].title = t.title
    BY <1>3, <1>5, <2>1 DEF StoryRows
  <2>4. story' \in Seq(StoryRows) /\ Len(story') = Len(story)
        /\ \A i \in 1..Len(story) :
              /\ story'[i].read = story[i].read
              /\ story'[i].title = IF i = t.into THEN t.title ELSE story[i].title
    BY <1>3, <2>1, <2>2, <2>3, ExceptSeq
  <2>5. LandsUnread'
    BY <1>1, <1>7, <2>1, <2>2, <2>4 DEF LandsUnread
  <2>6. TwinsAreExplained'
    <3> SUFFICES ASSUME NEW i \in 1..Len(story'), NEW j \in 1..Len(story'),
                        i # j, ~ story'[i].read, ~ story'[j].read,
                        story'[i].title.word = story'[j].title.word,
                        story'[i].title.word # None
                 PROVE  story'[i].title.word \in twins'
      BY DEF TwinsAreExplained
    <3>1. CASE t.merged
      <4>1. i = t.into \/ j = t.into => story'[i].title.word \in Excused(t)
        BY <1>7, <2>4, <3>1 DEF Excused
      <4>2. i # t.into /\ j # t.into => story'[i].title.word \in twins
        BY <2>4 DEF BacklogInv, TwinsAreExplained
      <4> QED
        BY <1>2, <4>1, <4>2
    <3>2. CASE ~ t.merged
      <4>1. t.title = story[t.into].title
        BY <1>1, <1>4, <1>7, <2>1, <3>2 DEF TitlesStand
      <4>2. story'[i].title = story[i].title /\ story'[j].title = story[j].title
        BY <2>4, <4>1
      <4>3. story'[i].title.word \in twins
        BY <2>4, <4>2 DEF BacklogInv, TwinsAreExplained
      <4> QED
        BY <1>2, <4>3
    <3> QED
      BY <3>1, <3>2
  <2> QED
    BY <1>2, <1>3, <1>6, <2>4, <2>5, <2>6 DEF BacklogInv
<1>8. CASE t.into = 0
  <2> DEFINE new == [read |-> FALSE, recent |-> TRUE, title |-> t.title]
             n == Len(story)
  <2>1. story' = Append(story, new) /\ last'.into = n + 1 /\ n < MaxStories
    BY <1>2, <1>8
  <2>2. new \in StoryRows /\ ~ new.read /\ new.title = t.title
    BY <1>5 DEF StoryRows
  <2> HIDE DEF new
  <2>3. story' \in Seq(StoryRows) /\ Len(story') = n + 1 /\ story'[n + 1] = new
        /\ \A i \in 1..n : story'[i] = story[i]
    BY <1>3, <2>1, <2>2, AppendProperties
  <2>4. LandsUnread'
    BY <2>1, <2>2, <2>3 DEF LandsUnread
  <2>5. ASSUME NEW i \in 1..n, ~ story[i].read, story[i].title.word = t.title.word,
               t.title.word # None
        PROVE  t.title.word \in twins'
    <3>1. think.rows[i].title = story[i].title /\ Len(think.rows) = n
      BY <1>4 DEF TitlesStand
    <3>2. CASE think.rows[i].read
      <4>1. story[i].title.word \in twins
        BY <1>4, <2>5, <3>2 DEF ReturnsExcused
      <4> QED
        BY <1>2, <2>5, <4>1
    <3>3. CASE ~ think.rows[i].read
      <4>1. i \notin think.window
        BY <1>1, <1>8, <2>5, <3>1, <3>3
      <4>2. Len(think.rows) - i >= WindowMax
        BY <1>4, <3>1, <3>3, <4>1 DEF WindowIsWide
      <4>3. t.title.word \in Excused(t)
        BY <1>5, <1>8, <2>5, <3>1, <3>3, <4>2 DEF Excused
      <4> QED
        BY <1>2, <4>3
    <3> QED
      BY <3>2, <3>3
  <2>6. TwinsAreExplained'
    <3> SUFFICES ASSUME NEW i \in 1..Len(story'), NEW j \in 1..Len(story'),
                        i # j, ~ story'[i].read, ~ story'[j].read,
                        story'[i].title.word = story'[j].title.word,
                        story'[i].title.word # None
                 PROVE  story'[i].title.word \in twins'
      BY DEF TwinsAreExplained
    <3>1. CASE i \in 1..n /\ j \in 1..n
      <4>1. story'[i].title.word \in twins
        BY <2>3, <3>1 DEF BacklogInv, TwinsAreExplained
      <4> QED
        BY <1>2, <4>1
    <3>2. CASE i = n + 1
      <4>1. j \in 1..n /\ story'[i].title = t.title
        BY <1>3, <2>2, <2>3, <3>2
      <4> QED
        BY <2>3, <2>5, <4>1
    <3>3. CASE j = n + 1
      <4>1. i \in 1..n /\ story'[j].title = t.title
        BY <1>3, <2>2, <2>3, <3>3
      <4> QED
        BY <2>3, <2>5, <4>1
    <3> QED
      BY <1>3, <2>3, <3>1, <3>2, <3>3
  <2> QED
    BY <1>2, <1>3, <1>6, <2>1, <2>3, <2>4, <2>6, BacklogAssumption DEF BacklogInv
<1> QED
  BY <1>7, <1>8

\* The owner marks a story, or time passes: titles stay and nothing lands.
LEMMA RowsMove ==
    ASSUME BacklogInv, NEW i \in 1..Len(story), NEW row \in StoryRows,
           row.title = story[i].title, story' = [story EXCEPT ![i] = row],
           twins' \subseteq Words, twins \subseteq twins',
           ~ row.read => ~ story[i].read \/ row.title.word = None \/ row.title.word \in twins',
           last' = None, think' = think
    PROVE  BacklogInv'
<1>1. story \in Seq(StoryRows) /\ Len(story) \in Nat /\ Len(story) <= MaxStories
  BY LenProperties DEF BacklogInv
<1>2. story' \in Seq(StoryRows) /\ Len(story') = Len(story)
      /\ \A k \in 1..Len(story) : story'[k] = IF k = i THEN row ELSE story[k]
  BY <1>1, ExceptSeq
<1>3. \A k \in 1..Len(story) : /\ story'[k].title = story[k].title
                               /\ ~ story'[k].read => ~ story[k].read
                                      \/ story'[k].title.word = None
                                      \/ story'[k].title.word \in twins'
  BY <1>2
<1>4. TwinsAreExplained'
  BY <1>2, <1>3 DEF BacklogInv, TwinsAreExplained
<1>5. think # None =>
          TitlesStand(think.rows)' /\ WindowIsWide(think)' /\ ReturnsExcused(think.rows)'
  BY <1>2, <1>3 DEF BacklogInv, TitlesStand, WindowIsWide, ReturnsExcused
<1>6. LandsUnread'
  BY DEF LandsUnread
<1> QED
  BY <1>1, <1>2, <1>4, <1>5, <1>6 DEF BacklogInv

\* Every step of the backlog
LEMMA BacklogStep == BacklogInv /\ [BacklogNext]_backlogVars => BacklogInv'
<1> SUFFICES ASSUME BacklogInv, [BacklogNext]_backlogVars PROVE BacklogInv'
  OBVIOUS
<1>0. story \in Seq(StoryRows) /\ twins \subseteq Words
      /\ \A i \in 1..Len(story) : story[i] \in StoryRows
  BY ElementOfSeq DEF BacklogInv
<1>1. CASE begin_integrate
  BY <1>1, BeginKeeps
<1>2. CASE integrate_fails
  BY <1>2 DEF integrate_fails, BacklogInv, LandsUnread, TwinsAreExplained
<1>3. ASSUME think # None, NEW a \in Answers, handle_integrate(integrate(a))
      PROVE  BacklogInv'
  BY <1>3, AnswerIs, LandingKeeps
<1>4. ASSUME NEW i \in 1..Len(story), story_ages(i) PROVE BacklogInv'
  <2>1. story' = [story EXCEPT ![i] = [story[i] EXCEPT !.recent = FALSE]]
        /\ last' = None /\ think' = think /\ twins' = twins
    BY <1>4 DEF story_ages
  <2>2. /\ [story[i] EXCEPT !.recent = FALSE] \in StoryRows
        /\ [story[i] EXCEPT !.recent = FALSE].title = story[i].title
        /\ [story[i] EXCEPT !.recent = FALSE].read = story[i].read
    BY <1>0 DEF StoryRows
  <2> QED
    BY <1>0, <2>1, <2>2, RowsMove
<1>5. ASSUME NEW i \in 1..Len(story), set_backlog_item_read(i, TRUE) PROVE BacklogInv'
  <2> DEFINE row == [story[i] EXCEPT !.read = TRUE]
  <2>1. story' = [story EXCEPT ![i] = row]
        /\ twins' = twins
        /\ last' = None /\ think' = think
    BY <1>5 DEF set_backlog_item_read
  <2>2. /\ row \in StoryRows /\ row.title = story[i].title /\ row.read = TRUE
        /\ story[i].title.word \in Words \cup {None}
    BY <1>0 DEF StoryRows, RawTitles
  <2>3. twins' \subseteq Words /\ twins \subseteq twins'
    BY <1>0, <2>1, <2>2
  <2> HIDE DEF row
  <2> QED
    BY <2>1, <2>2, <2>3, RowsMove
<1>6. ASSUME NEW i \in 1..Len(story), set_backlog_item_read(i, FALSE) PROVE BacklogInv'
  <2> DEFINE row == [story[i] EXCEPT !.read = FALSE]
  <2>1. story' = [story EXCEPT ![i] = row]
        /\ twins' = twins \cup ({story[i].title.word} \ {None})
        /\ last' = None /\ think' = think
    BY <1>6 DEF set_backlog_item_read
  <2>2. /\ row \in StoryRows /\ row.title = story[i].title /\ row.read = FALSE
        /\ story[i].title.word \in Words \cup {None}
    BY <1>0 DEF StoryRows, RawTitles
  <2>3. /\ twins' \subseteq Words /\ twins \subseteq twins'
        /\ story[i].title.word = None \/ story[i].title.word \in twins'
    BY <1>0, <2>1, <2>2
  <2> HIDE DEF row
  <2>4. row.title.word = None \/ row.title.word \in twins'
    BY <2>2, <2>3
  <2> QED
    BY <2>1, <2>2, <2>3, <2>4, RowsMove
<1>7. CASE UNCHANGED backlogVars
  BY <1>7 DEF backlogVars, BacklogInv, LandsUnread, TwinsAreExplained, TitlesStand, WindowIsWide,
              ReturnsExcused
<1> QED
  BY <1>1, <1>2, <1>3, <1>4, <1>5, <1>6, <1>7 DEF BacklogNext

\* Dedup neither buries a fresh story in a read one nor tells one story twice.
THEOREM DedupKeepsItsWordAlways == BacklogSpec => []DedupKeepsItsWord
<1>1. BacklogInv => DedupKeepsItsWord
  BY DEF BacklogInv, DedupKeepsItsWord
<1> QED
  BY <1>1, BacklogStart, BacklogStep, PTL DEF BacklogSpec

(***************************************************************************)
(* Listening                                                               *)
(***************************************************************************)

\* A row of an episode: what a record of one is, and what it holds by its state
IsEpisode(r) ==
    r \in [st : {r.st}, rule : {r.rule}, keep : BOOLEAN, segs : {r.segs}, pos : Nat]
IsTimed(g) == g \in [story : {g.story}, dur : Nat]
EpisodeOK(r) ==
    /\ IsEpisode(r) /\ Len(r.segs) \in Nat
    /\ r.st = "pending" => r.rule.max \in Nat
    /\ \A k \in 1..Len(r.segs) : IsTimed(r.segs[k])

StoryStates == [read : BOOLEAN, n : Nat]
Histories == [through : [Episodes -> Nat],
              final : [Episodes -> {"nothing", "report", "mark"}],
              early : SUBSET Stories, hand : SUBSET Stories, undone : SUBSET Stories]

ListeningTypes ==
    /\ item \in [Stories -> StoryStates]
    /\ ep = [e \in Episodes |-> ep[e]] /\ \A e \in Episodes : EpisodeOK(ep[e])
    /\ heard \in Histories

\* What came counts for an episode whose segments are final, and for no other.
FinalCounts == \A e \in Episodes : heard.final[e] # "nothing" => Counts(e)

ListeningInv == ListeningTypes /\ FinalCounts /\ ReadStateIsEarned

\* The parts of the property
Resumes == \A e \in Episodes : ep[e].pos = heard.through[e]
PassedIsRead ==
    \A e \in Episodes, s \in Stories :
        /\ Counts(e) /\ heard.final[e] # "nothing"
        /\ s \in Ended(ep[e].segs, heard.through[e])
        => item[s].read \/ s \in heard.undone
ReadHasReason ==
    \A s \in Stories : item[s].read =>
        s \in heard.hand \cup heard.early \/ \E e \in Episodes : EarnedIn(e, s)

\* The property, now and after a step, is its three parts.
LEMMA EarnedParts ==
    /\ ReadStateIsEarned <=> Resumes /\ PassedIsRead /\ ReadHasReason
    /\ (ReadStateIsEarned <=> Resumes /\ PassedIsRead /\ ReadHasReason)'
  BY DEF ReadStateIsEarned, Resumes, PassedIsRead, ReadHasReason

\* How far into an episode a segment ends: a number, and no less than the segment.
LEMMA EndsAfter ==
    ASSUME NEW segs, NEW k \in Nat, \A i \in 1..k : segs[i].dur \in Nat
    PROVE  TotalThrough(segs, k) \in Nat /\ (k # 0 => segs[k].dur <= TotalThrough(segs, k))
<1> DEFINE s == [i \in 1..k |-> segs[i].dur]
<1>1. s \in Seq(Nat) /\ Len(s) = k /\ \A i \in 1..k : s[i] = segs[i].dur
  <2>1. \A i \in 1..k : segs[i].dur \in Nat
    OBVIOUS
  <2> QED
    BY <2>1, IsASeq
<1>2. TotalThrough(segs, k) = Total(s)
  BY DEF TotalThrough
<1> HIDE DEF s
<1>3. Total(s) = Sums(s)[k]
  BY <1>1, SumsAre
<1>4. \A i \in 0..k : Sums(s)[i] \in Nat
  BY <1>1, SumsGrow
<1>5. k # 0 => Sums(s)[k] = Sums(s)[k - 1] + s[k]
  BY <1>1, SumsAre
<1>6. CASE k = 0
  BY <1>2, <1>3, <1>4, <1>6
<1>7. CASE k # 0
  <2>1. k - 1 \in 0..k /\ k \in 0..k /\ k \in 1..k
    BY <1>7
  <2>2. Sums(s)[k - 1] \in Nat /\ Sums(s)[k] \in Nat /\ s[k] = segs[k].dur /\ s[k] \in Nat
    BY <1>1, <1>4, <2>1
  <2>3. PICK x \in Nat : x = Sums(s)[k - 1]
    BY <2>2
  <2>4. PICK y \in Nat : y = s[k]
    BY <2>2
  <2>5. Sums(s)[k] = x + y /\ y <= x + y
    BY <1>5, <1>7, <2>3, <2>4
  <2> QED
    BY <1>2, <1>3, <2>2, <2>4, <2>5
<1> QED
  BY <1>6, <1>7

\* The stories a position has passed are those whose segment it has heard to the end,
\* and a later position has heard more.
LEMMA EndedIsPassed ==
    ASSUME NEW e \in Episodes, EpisodeOK(ep[e]), NEW ms \in Nat, NEW s \in Stories
    PROVE  /\ s \in Ended(ep[e].segs, ms) <=> s \in Passed(ep[e].segs, ms)
           /\ \A later \in Nat : later >= ms /\ s \in Ended(ep[e].segs, ms) => s \in Ended(ep[e].segs, later)
           /\ s \in Ended(ep[e].segs, ms) => s \in Holds(ep[e].segs)
<1>1. \A k \in 1..Len(ep[e].segs) : TotalThrough(ep[e].segs, k) \in Nat
  <2>1. ASSUME NEW k \in 1..Len(ep[e].segs) PROVE TotalThrough(ep[e].segs, k) \in Nat
    <3>1. k \in Nat /\ \A i \in 1..k : ep[e].segs[i].dur \in Nat
      BY DEF EpisodeOK, IsTimed
    <3> QED
      BY <3>1, EndsAfter
  <2> QED
    BY <2>1
<1>2. s \in Ended(ep[e].segs, ms) <=> s \in Passed(ep[e].segs, ms)
  BY <1>1 DEF Ended, Passed
<1>3. \A later \in Nat : later >= ms /\ s \in Ended(ep[e].segs, ms) => s \in Ended(ep[e].segs, later)
  BY <1>1 DEF Ended
<1>4. s \in Ended(ep[e].segs, ms) => s \in Holds(ep[e].segs)
  BY DEF Ended, Holds
<1> QED
  BY <1>2, <1>3, <1>4

\* Nothing is made, heard or read yet.
LEMMA ListeningStart == ListeningInit => ListeningInv
<1> SUFFICES ASSUME ListeningInit PROVE ListeningInv
  OBVIOUS
<1>1. item = [s \in Stories |-> [read |-> FALSE, n |-> s]]
  BY DEF ListeningInit
<1>2. item \in [Stories -> StoryStates]
  BY <1>1, ListeningAssumption DEF StoryStates
<1>3. ep = [e \in Episodes |-> NoEpisode] /\ EpisodeOK(NoEpisode)
  BY EmptySeq DEF ListeningInit, EpisodeOK, IsEpisode, NoEpisode
<1>4. heard = [through |-> [e \in Episodes |-> 0], final |-> [e \in Episodes |-> "nothing"],
               early |-> {}, hand |-> {}, undone |-> {}]
  BY DEF ListeningInit
<1>5. ListeningTypes
  BY <1>2, <1>3, <1>4 DEF ListeningTypes, Histories
<1>6. Resumes /\ FinalCounts /\ PassedIsRead /\ ReadHasReason
  BY <1>1, <1>3, <1>4 DEF Resumes, FinalCounts, PassedIsRead, ReadHasReason, NoEpisode
<1> QED
  BY <1>5, <1>6, EarnedParts DEF ListeningInv

\* An episode that is still being made moves on: nothing of it counts yet.
LEMMA EpisodeMoves ==
    ASSUME ListeningInv, NEW e \in Episodes, NEW r, EpisodeOK(r), r.pos = ep[e].pos,
           ~ SegmentsFinal(e), ep' = [ep EXCEPT ![e] = r], UNCHANGED <<item, heard>>
    PROVE  ListeningInv'
<1>1. ListeningTypes /\ FinalCounts /\ Resumes /\ PassedIsRead /\ ReadHasReason
  BY EarnedParts DEF ListeningInv
<1>2. \A d \in Episodes : ep'[d] = IF d = e THEN r ELSE ep[d]
  BY <1>1 DEF ListeningTypes
<1>3. heard.final[e] = "nothing" /\ heard' = heard /\ item' = item
  BY <1>1 DEF FinalCounts, Counts
<1>4. ListeningTypes'
  BY <1>1, <1>2, <1>3 DEF ListeningTypes
<1>5. Resumes'
  BY <1>1, <1>2, <1>3 DEF Resumes
<1>6. ASSUME NEW d \in Episodes, d # e
      PROVE  ep'[d] = ep[d]
  BY <1>2, <1>6
<1>7. FinalCounts' /\ PassedIsRead'
  BY <1>1, <1>3, <1>6 DEF FinalCounts, PassedIsRead, Counts, SegmentsFinal
<1>8. \A d \in Episodes, s \in Stories : EarnedIn(d, s) => EarnedIn(d, s)'
  BY <1>3, <1>6 DEF EarnedIn, Counts, SegmentsFinal
<1>9. ReadHasReason'
  BY <1>1, <1>3, <1>8 DEF ReadHasReason
<1> QED
  BY <1>4, <1>5, <1>7, <1>9, EarnedParts DEF ListeningInv

\* How many stories an episode's rule finds is a number.
LEMMA ChoosesSome ==
    ASSUME NEW rule, rule.max \in Nat
    PROVE  Len(select_for_rule(rule)) \in Nat
<1> DEFINE match == {s \in Stories : /\ rule.unread => ~ item[s].read
                                     /\ rule.windowed => s \in Fresh
                                     /\ rule.only # {} => s \in rule.only}
           found == Cardinality(match)
           n == IF found < rule.max THEN found ELSE rule.max
           place(s) == Cardinality({m \in match : Before(rule.rank, m, s)}) + 1
<1>1. IsFiniteSet(match)
  BY ListeningAssumption, FS_Subset
<1>2. found \in Nat
  <2> HIDE DEF match
  <2> QED
    BY <1>1, FS_CardinalityType
<1>3. n \in Nat
  <2> HIDE DEF found
  <2> QED
    BY <1>2
<1>4. select_for_rule(rule) = [k \in 1..n |-> CHOOSE s \in match : place(s) = k]
  BY DEF select_for_rule
<1> HIDE DEF n, match, place
<1>5. \A T, f : f = [k \in 1..n |-> CHOOSE s \in match : place(s) = k] => Len(f) = n
  BY <1>3
<1> QED
  BY <1>3, <1>4, <1>5

\* The segments made of some stories, and what the cap leaves of them: a beginning.
LEMMA SegmentsAre ==
    ASSUME NEW stories, Len(stories) \in Nat, NEW dur \in Measures(Len(stories))
    PROVE  LET made == Segments(stories, dur)
               left == _within_cap(made) IN
           /\ Len(left) \in Nat /\ Len(left) <= Len(stories)
           /\ left = [k \in 1..Len(left) |-> made[k]]
           /\ \A k \in 1..Len(left) : left[k] = [story |-> stories[k], dur |-> dur[k]]
<1> DEFINE n == Len(stories)
           made == Segments(stories, dur)
           fits == {k \in 1..Len(made) : \A j \in 2..k : TotalThrough(made, j) <= Cap}
           c == Cardinality(fits)
<1>1. made = [k \in 1..n |-> [story |-> stories[k], dur |-> dur[k]]] /\ Len(made) = n
  BY DEF Segments
<1>2. c \in Nat /\ c <= n
  <2>1. fits \subseteq 1..n
    BY <1>1
  <2> HIDE DEF fits
  <2>2. IsFiniteSet(1..n) /\ Cardinality(1..n) = n
    <3>1. ASSUME NEW b \in Nat PROVE IsFiniteSet(1..b) /\ Cardinality(1..b) = b
      <4>1. 1 \in Int /\ b \in Int /\ (1 > b => b = 0)
        OBVIOUS
      <4>2. /\ IsFiniteSet(1..b)
            /\ Cardinality(1..b) = IF 1 > b THEN 0 ELSE b - 1 + 1
        BY <4>1, FS_Interval
      <4> QED
        BY <4>1, <4>2
    <3>2. n \in Nat
      OBVIOUS
    <3> HIDE DEF n
    <3> QED
      BY <3>1, <3>2, Zenon
  <2>3. IsFiniteSet(fits) /\ c <= Cardinality(1..n)
    BY <2>1, <2>2, FS_Subset
  <2> QED
    BY <2>2, <2>3, FS_CardinalityType
<1>3. _within_cap(made) = SubSeq(made, 1, c)
  BY DEF _within_cap
<1> HIDE DEF made, c
<1>4. /\ Len(SubSeq(made, 1, c)) = c
      /\ SubSeq(made, 1, c) = [k \in 1..c |-> made[k]]
  <2>1. \A i \in 1..c : made[i] \in {made[k] : k \in 1..c}
    OBVIOUS
  <2>2. SubSeq(made, 1, c) \in Seq({made[k] : k \in 1..c}) /\ Len(SubSeq(made, 1, c)) = c
        /\ \A k \in 1..c : SubSeq(made, 1, c)[k] = made[k]
    BY <1>2, <2>1, SubSeqProperties
  <2> QED
    BY <2>2, LenProperties
<1>5. \A k \in 1..c : made[k] = [story |-> stories[k], dur |-> dur[k]]
  BY <1>1, <1>2
<1> QED
  BY <1>2, <1>3, <1>4, <1>5 DEF made

\* The rule an episode is asked for says how many stories at most.
LEMMA RulesHaveMax == \A rule \in ListeningRules : rule.max \in Nat
<1>1. \A ids \in SUBSET Stories : Cardinality(ids) \in Nat
  BY ListeningAssumption, FS_Subset, FS_CardinalityType
<1>2. manual.max \in Nat
  BY ListeningAssumption DEF manual
<1>3. \A ids \in SUBSET Stories : picked(ids).max \in Nat
  BY <1>1 DEF picked
<1>4. \A u, r : from_json(u, r, 1).max \in Nat /\ from_json(u, r, MaxItems).max \in Nat
  BY ListeningAssumption DEF from_json
<1> QED
  BY <1>2, <1>3, <1>4 DEF ListeningRules

\* What the cap leaves of timed segments is timed.
LEMMA TrimmedIsTimed ==
    ASSUME NEW stories, Len(stories) \in Nat, NEW dur \in Measures(Len(stories))
    PROVE  LET left == _within_cap(Segments(stories, dur)) IN
           /\ Len(left) \in Nat
           /\ \A k \in 1..Len(left) : /\ k \in 1..Len(stories) /\ dur[k] \in Lengths
                                      /\ left[k] = [story |-> stories[k], dur |-> dur[k]]
                                      /\ IsTimed(left[k])
<1> DEFINE left == _within_cap(Segments(stories, dur))
<1>1. /\ Len(left) \in Nat /\ Len(left) <= Len(stories)
      /\ \A k \in 1..Len(left) : left[k] = [story |-> stories[k], dur |-> dur[k]]
  BY SegmentsAre
<1>2. \A k \in 1..Len(stories) : dur[k] \in Lengths /\ dur[k] \in Nat
  BY ListeningAssumption DEF Measures
<1> HIDE DEF left
<1>3. \A k \in 1..Len(left) : k \in 1..Len(stories)
  BY <1>1
<1>4. ASSUME NEW k \in 1..Len(left) PROVE IsTimed(left[k])
  <2>1. left[k] = [story |-> stories[k], dur |-> dur[k]] /\ dur[k] \in Nat
    BY <1>1, <1>2, <1>3
  <2> QED
    BY <2>1 DEF IsTimed
<1> QED
  BY <1>1, <1>2, <1>3, <1>4 DEF left

\* What the script makes of an episode: what the cap leaves of timed segments for
\* stories of its own.
LEMMA ScriptsAre ==
    ASSUME NEW segs, Len(segs) \in Nat, NEW written \in Scripts(segs)
    PROVE  \E w, dur : /\ Len(w) \in Nat /\ dur \in Measures(Len(w))
                       /\ \A k \in 1..Len(w) : w[k] \in {segs[j].story : j \in 1..Len(segs)}
                       /\ written = _within_cap(Segments(w, dur))
<1> DEFINE own == {segs[k].story : k \in 1..Len(segs)}
<1>1. PICK w \in generate(segs) :
          \E dur \in Measures(Len(w)) : written = _within_cap(Segments(w, dur))
  BY DEF Scripts
<1>2. PICK dur \in Measures(Len(w)) : written = _within_cap(Segments(w, dur))
  BY <1>1
<1>3. IsFiniteSet(own)
  <2>1. ASSUME NEW n \in Nat PROVE IsFiniteSet(1..n)
    <3>1. 1 \in Int /\ n \in Int
      OBVIOUS
    <3> QED
      BY <3>1, FS_Interval
  <2>2. IsFiniteSet(1..Len(segs))
    BY <2>1, Zenon
  <2> DEFINE f == [k \in 1..Len(segs) |-> segs[k].story]
  <2>3. f \in Surjection(1..Len(segs), own)
    BY DEF Surjection
  <2> QED
    BY <2>2, <2>3, FS_Surjection
<1>4. PICK s \in SUBSET own : w \in [1..Cardinality(s) -> s]
  BY <1>1 DEF generate, SetToAllKPermutations, SetToSeqs
<1> HIDE DEF own
<1>5. Cardinality(s) \in Nat
  BY <1>3, FS_Subset, FS_CardinalityType
<1>6. Len(w) \in Nat /\ \A k \in 1..Len(w) : w[k] \in own
  BY <1>4, <1>5
<1> QED
  BY <1>2, <1>6 DEF own

\* The requests and stages that make an episode.
MakingStep(e) ==
    \/ \E rule \in ListeningRules, keep \in BOOLEAN : make_episode(e, rule, keep)
    \/ choose_stories(e)
    \/ ep[e].st = "scripting"
           /\ \E written \in Scripts(ep[e].segs) : handle_script(e, written)
    \/ \E audio \in Measures(Len(ep[e].segs)) : handle_tts(e, audio)
    \/ episode_failed(e)

\* The segments as the audio was measured
Measured(segs, audio) == [k \in 1..Len(segs) |-> [segs[k] EXCEPT !.dur = audio[k]]]

LEMMA MeasuredIsTimed ==
    ASSUME NEW segs, Len(segs) \in Nat, NEW audio \in Measures(Len(segs)),
           \A k \in 1..Len(segs) : IsTimed(segs[k])
    PROVE  LET out == Measured(segs, audio) IN
           /\ Len(out) = Len(segs)
           /\ \A k \in 1..Len(out) :
                  IsTimed(out[k]) /\ out[k] = [story |-> segs[k].story, dur |-> audio[k]]
<1> DEFINE out == Measured(segs, audio)
<1>1. Len(out) = Len(segs) /\ \A k \in 1..Len(segs) : out[k] = [segs[k] EXCEPT !.dur = audio[k]]
  BY DEF Measured
<1>2. \A k \in 1..Len(segs) : audio[k] \in Nat
  BY ListeningAssumption DEF Measures
<1> HIDE DEF out
<1>3. ASSUME NEW k \in 1..Len(segs)
      PROVE  IsTimed(out[k]) /\ out[k] = [story |-> segs[k].story, dur |-> audio[k]]
  <2>1. /\ out[k] = [segs[k] EXCEPT !.dur = audio[k]] /\ audio[k] \in Nat
        /\ segs[k] \in [story : {segs[k].story}, dur : Nat]
    BY <1>1, <1>2 DEF IsTimed
  <2>2. out[k] = [story |-> segs[k].story, dur |-> audio[k]]
    BY <2>1
  <2> QED
    BY <2>1, <2>2 DEF IsTimed
<1> QED
  BY <1>1, <1>3 DEF out

\* They keep what is known of the row and of the position.
LEMMA MakingKeeps ==
    ASSUME ListeningInv, NEW e \in Episodes, MakingStep(e)
    PROVE  ListeningInv'
<1>0. EpisodeOK(ep[e])
  BY DEF ListeningInv, ListeningTypes
<1>1. ASSUME NEW rule \in ListeningRules, NEW keep \in BOOLEAN, make_episode(e, rule, keep)
      PROVE  ListeningInv'
  <2> DEFINE r == [ep[e] EXCEPT !.st = "pending", !.rule = rule, !.keep = keep]
  <2>1. ep' = [ep EXCEPT ![e] = r] /\ UNCHANGED <<item, heard>> /\ ~ SegmentsFinal(e)
    BY <1>1 DEF make_episode, SegmentsFinal
  <2>2. /\ IsEpisode(r) /\ r.st = "pending" /\ r.rule = rule
        /\ r.segs = ep[e].segs /\ r.pos = ep[e].pos
    BY <1>0 DEF EpisodeOK, IsEpisode
  <2> HIDE DEF r
  <2>3. EpisodeOK(r)
    BY <1>0, <2>2, RulesHaveMax DEF EpisodeOK
  <2> QED
    BY <2>1, <2>2, <2>3, EpisodeMoves
<1>2. ASSUME NEW left, NEW st \in {"scripting", "rendering", "ready"}, NEW rule,
             Len(left) \in Nat, \A k \in 1..Len(left) : IsTimed(left[k]),
             ep' = [ep EXCEPT ![e] = [ep[e] EXCEPT !.st = st, !.rule = rule, !.segs = left]],
             UNCHANGED <<item, heard>>, ~ SegmentsFinal(e)
      PROVE  ListeningInv'
  <2> DEFINE r == [ep[e] EXCEPT !.st = st, !.rule = rule, !.segs = left]
  <2>1. IsEpisode(r) /\ r.st = st /\ r.segs = left /\ r.pos = ep[e].pos
    BY <1>0 DEF EpisodeOK, IsEpisode
  <2>2. ep' = [ep EXCEPT ![e] = r]
    BY <1>2
  <2> HIDE DEF r
  <2>3. EpisodeOK(r)
    BY <1>2, <2>1 DEF EpisodeOK
  <2> QED
    BY <1>2, <2>1, <2>2, <2>3, EpisodeMoves
<1>3. CASE choose_stories(e)
  <2> DEFINE stories == select_for_rule(ep[e].rule)
  <2>1. PICK dur \in Measures(Len(stories)) :
            ep' = [ep EXCEPT ![e].st = "scripting", ![e].rule = None,
                             ![e].segs = _within_cap(Segments(stories, dur))]
    BY <1>3 DEF choose_stories
  <2> DEFINE left == _within_cap(Segments(stories, dur))
  <2>2. /\ ep' = [ep EXCEPT ![e] = [ep[e] EXCEPT !.st = "scripting", !.rule = None, !.segs = left]]
        /\ UNCHANGED <<item, heard>> /\ ~ SegmentsFinal(e) /\ ep[e].st = "pending"
    BY <1>3, <2>1 DEF choose_stories, SegmentsFinal
  <2>3. Len(stories) \in Nat
    BY <1>0, <2>2, ChoosesSome DEF EpisodeOK
  <2> HIDE DEF stories
  <2>4. Len(left) \in Nat /\ \A k \in 1..Len(left) : IsTimed(left[k])
    BY <2>1, <2>3, TrimmedIsTimed
  <2> HIDE DEF left
  <2> QED
    BY <1>2, <2>2, <2>4
<1>4. ASSUME ep[e].st = "scripting", NEW written \in Scripts(ep[e].segs), handle_script(e, written)
      PROVE  ListeningInv'
  <2>1. PICK w, dur : /\ Len(w) \in Nat /\ dur \in Measures(Len(w))
                      /\ written = _within_cap(Segments(w, dur))
    <3>1. Len(ep[e].segs) \in Nat
      BY <1>0 DEF EpisodeOK
    <3> QED
      BY <1>4, <3>1, ScriptsAre
  <2>2. Len(written) \in Nat /\ \A k \in 1..Len(written) : IsTimed(written[k])
    BY <2>1, TrimmedIsTimed
  <2>3. [ep[e] EXCEPT !.st = "rendering", !.segs = written]
            = [ep[e] EXCEPT !.st = "rendering", !.rule = ep[e].rule, !.segs = written]
    BY <1>0 DEF EpisodeOK, IsEpisode
  <2>4. /\ ep' = [ep EXCEPT ![e] = [ep[e] EXCEPT !.st = "rendering", !.segs = written]]
        /\ UNCHANGED <<item, heard>> /\ ~ SegmentsFinal(e)
    BY <1>4 DEF handle_script, SegmentsFinal
  <2> QED
    BY <1>2, <2>2, <2>3, <2>4
<1>5. ASSUME NEW audio \in Measures(Len(ep[e].segs)), handle_tts(e, audio) PROVE ListeningInv'
  <2> DEFINE out == Measured(ep[e].segs, audio)
  <2>1. /\ ep' = [ep EXCEPT ![e] = [ep[e] EXCEPT !.st = "ready", !.segs = out]]
        /\ UNCHANGED <<item, heard>> /\ ~ SegmentsFinal(e)
    BY <1>5 DEF handle_tts, SegmentsFinal, Measured
  <2>2. Len(out) \in Nat /\ \A k \in 1..Len(out) : IsTimed(out[k])
    BY <1>0, <1>5, MeasuredIsTimed DEF EpisodeOK
  <2> HIDE DEF out
  <2>3. [ep[e] EXCEPT !.st = "ready", !.segs = out]
            = [ep[e] EXCEPT !.st = "ready", !.rule = ep[e].rule, !.segs = out]
    BY <1>0 DEF EpisodeOK, IsEpisode
  <2> QED
    BY <1>2, <2>1, <2>2, <2>3
<1>6. CASE episode_failed(e)
  <2> DEFINE r == [ep[e] EXCEPT !.st = "failed", !.rule = None]
  <2>1. ep' = [ep EXCEPT ![e] = r] /\ UNCHANGED <<item, heard>> /\ ~ SegmentsFinal(e)
    BY <1>6 DEF episode_failed, SegmentsFinal
  <2>2. /\ IsEpisode(r) /\ r.st = "failed" /\ r.segs = ep[e].segs /\ r.pos = ep[e].pos
    BY <1>0 DEF EpisodeOK, IsEpisode
  <2> HIDE DEF r
  <2>3. EpisodeOK(r)
    BY <1>0, <2>2 DEF EpisodeOK
  <2> QED
    BY <2>1, <2>2, <2>3, EpisodeMoves
<1> QED
  BY <1>1, <1>3, <1>4, <1>5, <1>6 DEF MakingStep

\* Marking stories read: those are, and the others are as they were.
LEMMA MarkedRead ==
    ASSUME ListeningTypes, NEW S, item' = mark_news_items_read(S)
    PROVE  /\ item' \in [Stories -> StoryStates]
           /\ \A s \in Stories : item'[s].read <=> item[s].read \/ s \in S
<1>1. \A s \in Stories : item[s] \in StoryStates
  BY DEF ListeningTypes
<1>2. \A s \in Stories : LET row == [item[s] EXCEPT !.read = item[s].read \/ s \in S] IN
          row \in StoryStates /\ (row.read <=> item[s].read \/ s \in S)
  BY <1>1 DEF StoryStates
<1>3. \A s \in Stories : item'[s] = [item[s] EXCEPT !.read = item[s].read \/ s \in S]
  BY DEF mark_news_items_read
<1>4. item' = [s \in Stories |-> item'[s]]
  BY DEF mark_news_items_read
<1>5. \A s \in Stories : item'[s] \in StoryStates /\ (item'[s].read <=> item[s].read \/ s \in S)
  BY <1>2, <1>3
<1> QED
  BY <1>4, <1>5

\* A report: the position moves on, and what it has passed is read.
LEMMA ReportKeeps ==
    ASSUME ListeningInv, NEW e \in Episodes, NEW ms \in 0..MaxListen,
           record_listen_progress(e, ms)
    PROVE  ListeningInv'
<1> DEFINE pos == Furthest(ep[e].pos, ms)
           passed == IF ep[e].keep THEN {} ELSE Passed(ep[e].segs, pos)
           furthest == IF ms > heard.through[e] THEN ms ELSE heard.through[e]
           final == [heard.final EXCEPT ![e] =
                        IF Counts(e) /\ heard.final[e] = "nothing" THEN "report" ELSE heard.final[e]]
           early == IF SegmentsFinal(e) \/ ep[e].keep THEN heard.early
                    ELSE heard.early \cup (Ended(ep[e].segs, furthest) \ heard.hand)
<1>1. ListeningTypes /\ FinalCounts /\ Resumes /\ PassedIsRead /\ ReadHasReason
  BY EarnedParts DEF ListeningInv
<1>2. /\ ep' = [ep EXCEPT ![e] = [ep[e] EXCEPT !.pos = pos]]
      /\ item' = mark_news_items_read(passed)
      /\ heard' = [heard EXCEPT !.through = [heard.through EXCEPT ![e] = furthest],
                                !.final = final, !.early = early,
                                !.undone = heard.undone \ passed]
  BY DEF record_listen_progress
<1>3. ms \in Nat /\ EpisodeOK(ep[e]) /\ ep[e].pos = heard.through[e]
  BY <1>1, ListeningAssumption DEF ListeningTypes, Resumes
<1>4. pos \in Nat /\ pos >= ep[e].pos /\ pos = furthest
  BY <1>3 DEF Furthest, EpisodeOK, IsEpisode
<1> DEFINE row == [ep[e] EXCEPT !.pos = pos]
<1> HIDE DEF pos
<1>5. /\ EpisodeOK(row) /\ row.st = ep[e].st /\ row.keep = ep[e].keep
      /\ row.segs = ep[e].segs /\ row.pos = pos
  BY <1>3, <1>4 DEF EpisodeOK, IsEpisode
<1> HIDE DEF row
<1>6. ep' = [ep EXCEPT ![e] = row]
  BY <1>2 DEF row
<1>7. \A d \in Episodes : ep'[d] = IF d = e THEN row ELSE ep[d]
  BY <1>1, <1>6 DEF ListeningTypes
<1>8. /\ final \in [Episodes -> {"nothing", "report", "mark"}]
      /\ \A d \in Episodes : d # e => final[d] = heard.final[d]
      /\ final[e] = IF Counts(e) /\ heard.final[e] = "nothing" THEN "report" ELSE heard.final[e]
      /\ early \subseteq Stories /\ heard.early \subseteq early
  BY <1>1 DEF ListeningTypes, Histories, Ended
<1>9. early = IF SegmentsFinal(e) \/ ep[e].keep THEN heard.early
              ELSE heard.early \cup (Ended(ep[e].segs, pos) \ heard.hand)
  BY <1>4
<1> HIDE DEF passed, furthest, final, early
<1>10. /\ heard'.through = [heard.through EXCEPT ![e] = pos]
       /\ heard'.final = final /\ heard'.early = early /\ heard'.hand = heard.hand
       /\ heard'.undone = heard.undone \ passed
       /\ heard' \in Histories
  BY <1>1, <1>2, <1>4, <1>8 DEF ListeningTypes, Histories
<1>11. \A d \in Episodes : heard'.through[d] = IF d = e THEN pos ELSE heard.through[d]
  BY <1>1, <1>10 DEF ListeningTypes, Histories
<1>12. /\ item' \in [Stories -> StoryStates]
       /\ \A s \in Stories : item'[s].read <=> item[s].read \/ s \in passed
  BY <1>1, <1>2, MarkedRead
<1>13. ListeningTypes' /\ Resumes'
  BY <1>1, <1>5, <1>6, <1>7, <1>10, <1>11, <1>12 DEF ListeningTypes, Resumes
<1>14. \A d \in Episodes : /\ ep'[d].st = ep[d].st /\ ep'[d].keep = ep[d].keep
                           /\ ep'[d].segs = ep[d].segs
  BY <1>5, <1>7
<1>15. FinalCounts'
  BY <1>1, <1>8, <1>10, <1>14 DEF FinalCounts, Counts, SegmentsFinal
<1>16. \A s \in Stories : s \in passed <=> ~ ep[e].keep /\ s \in Ended(ep[e].segs, pos)
  BY <1>3, <1>4, EndedIsPassed DEF passed
<1>17. PassedIsRead'
  <2> SUFFICES ASSUME NEW d \in Episodes, NEW s \in Stories, Counts(d)',
                      heard'.final[d] # "nothing", s \in Ended(ep'[d].segs, heard'.through[d])
               PROVE  item'[s].read \/ s \in heard'.undone
    BY DEF PassedIsRead, Counts, SegmentsFinal
  <2>1. CASE d = e
    BY <1>12, <1>11, <1>14, <1>16, <2>1 DEF Counts, SegmentsFinal
  <2>2. CASE d # e
    <3>1. item[s].read \/ s \in heard.undone
      BY <1>1, <1>8, <1>10, <1>11, <1>14, <2>2 DEF PassedIsRead, Counts, SegmentsFinal
    <3> QED
      BY <1>10, <1>12, <3>1
  <2> QED
    BY <2>1, <2>2
<1>18. ASSUME NEW d \in Episodes, NEW s \in Stories, EarnedIn(d, s) PROVE EarnedIn(d, s)'
  <2>1. CASE d # e
    BY <1>8, <1>10, <1>11, <1>14, <1>18, <2>1 DEF EarnedIn, Counts, SegmentsFinal
  <2>2. CASE d = e
    <3>1. final[e] = heard.final[e]
      BY <1>8, <1>18, <2>2 DEF EarnedIn, Counts, SegmentsFinal
    <3>2. s \in Ended(ep[e].segs, heard.through[e]) => s \in Ended(ep[e].segs, pos)
      BY <1>3, <1>4, EndedIsPassed DEF EpisodeOK, IsEpisode
    <3> QED
      BY <1>10, <1>11, <1>14, <1>18, <2>2, <3>1, <3>2 DEF EarnedIn, Counts, SegmentsFinal
  <2> QED
    BY <2>1, <2>2
<1>19. ASSUME NEW s \in Stories, s \in passed
       PROVE  s \in heard'.hand \cup heard'.early \/ EarnedIn(e, s)'
  <2>1. ~ ep[e].keep /\ s \in Ended(ep[e].segs, pos)
    BY <1>16, <1>19
  <2>2. CASE SegmentsFinal(e)
    <3>1. Counts(e) /\ final[e] \in {"report", "mark"}
      BY <1>8, <2>1, <2>2 DEF Counts, SegmentsFinal
    <3>2. s \in Holds(ep[e].segs)
      BY <1>3, <1>4, <2>1, EndedIsPassed
    <3> QED
      BY <1>10, <1>11, <1>14, <2>1, <3>1, <3>2 DEF EarnedIn, Counts, SegmentsFinal
  <2>3. CASE ~ SegmentsFinal(e)
    BY <1>9, <1>10, <2>1, <2>3
  <2> QED
    BY <2>2, <2>3
<1>20. ReadHasReason'
  <2> SUFFICES ASSUME NEW s \in Stories, item'[s].read
               PROVE  s \in heard'.hand \cup heard'.early \/ \E d \in Episodes : EarnedIn(d, s)'
    BY DEF ReadHasReason
  <2>1. CASE s \in passed
    BY <1>19, <2>1
  <2>2. CASE s \notin passed
    <3>1. s \in heard.hand \cup heard.early \/ \E d \in Episodes : EarnedIn(d, s)
      BY <1>1, <1>12, <2>2 DEF ReadHasReason
    <3> QED
      BY <1>8, <1>10, <1>18, <3>1
  <2> QED
    BY <2>1, <2>2
<1> QED
  BY <1>13, <1>15, <1>17, <1>20, EarnedParts DEF ListeningInv

\* A whole episode marked listened: its stories are read, when it counts for that, and
\* when it does not yet, for having come early.
LEMMA WholeKeeps ==
    ASSUME ListeningInv, NEW e \in Episodes, mark_episode_listened(e)
    PROVE  ListeningInv'
<1> DEFINE W == Whole(e)
           final == [heard.final EXCEPT ![e] = IF Counts(e) THEN "mark" ELSE heard.final[e]]
           early == IF SegmentsFinal(e) \/ ep[e].keep THEN heard.early
                    ELSE heard.early \cup (Holds(ep[e].segs) \ heard.hand)
<1>1. ListeningTypes /\ FinalCounts /\ Resumes /\ PassedIsRead /\ ReadHasReason
  BY EarnedParts DEF ListeningInv
<1>2. /\ ep' = ep /\ item' = mark_news_items_read(W)
      /\ heard' = [heard EXCEPT !.final = final, !.early = early, !.undone = heard.undone \ W]
  BY DEF mark_episode_listened
<1>3. \A s \in Stories : s \in W <=> ~ ep[e].keep /\ s \in Holds(ep[e].segs)
  BY DEF Whole, Holds
<1>4. /\ final \in [Episodes -> {"nothing", "report", "mark"}]
      /\ \A d \in Episodes : d # e => final[d] = heard.final[d]
      /\ final[e] = IF Counts(e) THEN "mark" ELSE heard.final[e]
      /\ early \subseteq Stories /\ heard.early \subseteq early
  BY <1>1 DEF ListeningTypes, Histories, Holds
<1>5. ~ SegmentsFinal(e) /\ ~ ep[e].keep => Holds(ep[e].segs) \subseteq heard.hand \cup early
  OBVIOUS
<1> HIDE DEF W, final, early
<1>6. /\ heard'.through = heard.through /\ heard'.final = final /\ heard'.early = early
      /\ heard'.hand = heard.hand /\ heard'.undone = heard.undone \ W
      /\ heard' \in Histories
  BY <1>1, <1>2, <1>4 DEF ListeningTypes, Histories
<1>7. /\ item' \in [Stories -> StoryStates]
      /\ \A s \in Stories : item'[s].read <=> item[s].read \/ s \in W
  BY <1>1, <1>2, MarkedRead
<1>8. ListeningTypes' /\ Resumes'
  BY <1>1, <1>2, <1>6, <1>7 DEF ListeningTypes, Resumes
<1>9. /\ ep' = ep /\ heard'.through = heard.through
      /\ \A d \in Episodes : Ended(ep[d].segs, heard.through[d]) \subseteq Holds(ep[d].segs)
  BY <1>2, <1>6 DEF Holds, Ended
<1>10. FinalCounts'
  BY <1>1, <1>4, <1>6, <1>9 DEF FinalCounts, Counts, SegmentsFinal
<1>11. PassedIsRead'
  <2> SUFFICES ASSUME NEW d \in Episodes, NEW s \in Stories, Counts(d)',
                      heard'.final[d] # "nothing", s \in Ended(ep'[d].segs, heard'.through[d])
               PROVE  item'[s].read \/ s \in heard'.undone
    BY DEF PassedIsRead, Counts, SegmentsFinal
  <2>1. CASE d = e
    BY <1>3, <1>7, <1>9, <2>1 DEF Counts, SegmentsFinal
  <2>2. CASE d # e
    <3>1. item[s].read \/ s \in heard.undone
      BY <1>1, <1>4, <1>6, <1>9, <2>2 DEF PassedIsRead, Counts, SegmentsFinal
    <3> QED
      BY <1>6, <1>7, <3>1
  <2> QED
    BY <2>1, <2>2
<1>12. ASSUME NEW d \in Episodes, NEW s \in Stories, EarnedIn(d, s) PROVE EarnedIn(d, s)'
  <2>1. CASE d # e
    BY <1>4, <1>6, <1>9, <1>12, <2>1 DEF EarnedIn, Counts, SegmentsFinal
  <2>2. CASE d = e
    BY <1>4, <1>6, <1>9, <1>12, <2>2 DEF EarnedIn, Counts, SegmentsFinal
  <2> QED
    BY <2>1, <2>2
<1>13. ASSUME NEW s \in Stories, s \in W
       PROVE  s \in heard'.hand \cup heard'.early \/ EarnedIn(e, s)'
  <2>1. ~ ep[e].keep /\ s \in Holds(ep[e].segs)
    BY <1>3, <1>13
  <2>2. CASE SegmentsFinal(e)
    <3>1. Counts(e) /\ final[e] = "mark"
      BY <1>4, <2>1, <2>2 DEF Counts, SegmentsFinal
    <3> QED
      BY <1>6, <1>9, <2>1, <3>1 DEF EarnedIn, Counts, SegmentsFinal
  <2>3. CASE ~ SegmentsFinal(e)
    BY <1>5, <1>6, <2>1, <2>3
  <2> QED
    BY <2>2, <2>3
<1>14. ReadHasReason'
  <2> SUFFICES ASSUME NEW s \in Stories, item'[s].read
               PROVE  s \in heard'.hand \cup heard'.early \/ \E d \in Episodes : EarnedIn(d, s)'
    BY DEF ReadHasReason
  <2>1. CASE s \in W
    BY <1>13, <2>1
  <2>2. CASE s \notin W
    <3>1. s \in heard.hand \cup heard.early \/ \E d \in Episodes : EarnedIn(d, s)
      BY <1>1, <1>7, <2>2 DEF ReadHasReason
    <3> QED
      BY <1>4, <1>6, <1>12, <3>1
  <2> QED
    BY <2>1, <2>2
<1> QED
  BY <1>8, <1>10, <1>11, <1>11, <1>14, EarnedParts DEF ListeningInv

\* A story marked by hand, read or unread
LEMMA HandKeeps ==
    ASSUME ListeningInv, NEW s \in Stories, NEW read \in BOOLEAN, set_news_item_read(s, read)
    PROVE  ListeningInv'
<1> DEFINE hand == IF read THEN heard.hand \cup {s} ELSE heard.hand \ {s}
           undone == IF read THEN heard.undone \ {s} ELSE heard.undone \cup {s}
<1>1. ListeningTypes /\ FinalCounts /\ Resumes /\ PassedIsRead /\ ReadHasReason
  BY EarnedParts DEF ListeningInv
<1>2. /\ item' = [item EXCEPT ![s] = [item[s] EXCEPT !.read = read]] /\ ep' = ep
      /\ heard' = [heard EXCEPT !.early = heard.early \ {s}, !.hand = hand, !.undone = undone]
  BY DEF set_news_item_read
<1>3. /\ hand \subseteq Stories /\ undone \subseteq Stories
      /\ \A q \in Stories : q # s => (q \in hand <=> q \in heard.hand)
                                     /\ (q \in undone <=> q \in heard.undone)
      /\ read => s \in hand
      /\ ~ read => s \in undone
  BY <1>1 DEF ListeningTypes, Histories
<1> HIDE DEF hand, undone
<1>4. /\ heard'.through = heard.through /\ heard'.final = heard.final
      /\ heard'.early = heard.early \ {s} /\ heard'.hand = hand /\ heard'.undone = undone
      /\ heard' \in Histories
  BY <1>1, <1>2, <1>3 DEF ListeningTypes, Histories
<1>5. [item[s] EXCEPT !.read = read] \in StoryStates /\ [item[s] EXCEPT !.read = read].read = read
  BY <1>1 DEF ListeningTypes, StoryStates
<1>6. /\ item' \in [Stories -> StoryStates]
      /\ item'[s].read = read /\ \A q \in Stories : q # s => item'[q] = item[q]
  BY <1>1, <1>2, <1>5 DEF ListeningTypes
<1>7. ListeningTypes' /\ Resumes'
  BY <1>1, <1>2, <1>4, <1>6 DEF ListeningTypes, Resumes
<1>8. ep' = ep /\ heard'.through = heard.through
  BY <1>2, <1>4
<1>9. FinalCounts'
  BY <1>1, <1>4, <1>8 DEF FinalCounts, Counts, SegmentsFinal
<1>10. PassedIsRead'
  BY <1>1, <1>3, <1>4, <1>6, <1>8 DEF PassedIsRead, Counts, SegmentsFinal
<1>11. \A d \in Episodes, q \in Stories : EarnedIn(d, q) => EarnedIn(d, q)'
  BY <1>4, <1>8 DEF EarnedIn, Counts, SegmentsFinal
<1>12. ReadHasReason'
  <2> SUFFICES ASSUME NEW q \in Stories, item'[q].read
               PROVE  q \in heard'.hand \cup heard'.early \/ \E d \in Episodes : EarnedIn(d, q)'
    BY DEF ReadHasReason
  <2>1. CASE q = s
    BY <1>3, <1>4, <1>6, <2>1
  <2>2. CASE q # s
    <3>1. q \in heard.hand \cup heard.early \/ \E d \in Episodes : EarnedIn(d, q)
      BY <1>1, <1>6, <2>2 DEF ReadHasReason
    <3> QED
      BY <1>3, <1>4, <1>11, <2>2, <3>1
  <2> QED
    BY <2>1, <2>2
<1> QED
  BY <1>7, <1>9, <1>10, <1>12, EarnedParts DEF ListeningInv

\* Every step of listening
LEMMA ListeningStep == ListeningInv /\ [ListeningNext]_listeningVars => ListeningInv'
<1> SUFFICES ASSUME ListeningInv, [ListeningNext]_listeningVars PROVE ListeningInv'
  OBVIOUS
<1>1. CASE ListeningNext
  <2>1. \/ \E e \in Episodes : MakingStep(e)
        \/ \E e \in Episodes, ms \in 0..MaxListen : record_listen_progress(e, ms)
        \/ \E e \in Episodes : mark_episode_listened(e)
        \/ \E s \in Stories, read \in BOOLEAN : set_news_item_read(s, read)
    BY <1>1 DEF ListeningNext, MakingStep
  <2> QED
    BY <2>1, MakingKeeps, ReportKeeps, WholeKeeps, HandKeeps
<1>2. CASE UNCHANGED listeningVars
  <2>1. item' = item /\ ep' = ep /\ heard' = heard
    BY <1>2 DEF listeningVars
  <2>2. ListeningTypes'
    BY <2>1 DEF ListeningInv, ListeningTypes
  <2>3. Resumes' /\ FinalCounts' /\ PassedIsRead' /\ ReadHasReason'
    BY <2>1, EarnedParts DEF ListeningInv, Resumes, FinalCounts, PassedIsRead, ReadHasReason,
                             EarnedIn, Counts, SegmentsFinal, Ended, Holds
  <2> QED
    BY <2>2, <2>3, EarnedParts DEF ListeningInv
<1> QED
  BY <1>1, <1>2

\* An episode resumes where the furthest report got, and a story is read only for a
\* reason, whatever order the players' reports arrive in.
THEOREM ReadStateHolds == ListeningSpec => []ReadStateIsEarned
<1>1. ListeningInv => ReadStateIsEarned
  BY DEF ListeningInv
<1> QED
  BY <1>1, ListeningStart, ListeningStep, PTL DEF ListeningSpec

(***************************************************************************)
(* Serving                                                                 *)
(***************************************************************************)

\* The bytes a range comes to are those asked for.
LEMMA RangeIs ==
    ASSUME NEW total \in Nat, NEW first \in Int, NEW final \in Int, first >= -1, final >= -1
    PROVE  LET got == _byte_range_response(total, first, final) IN
           /\ got.status = 206 => /\ got.start..got.end = Asked(total, first, final)
                                  /\ got.start <= got.end
           /\ got.status = 416 => Asked(total, first, final) = {}
<1> DEFINE got == _byte_range_response(total, first, final)
           from == IF first # -1 THEN first ELSE IF total > final THEN total - final ELSE 0
           upto == IF first # -1 /\ final # -1 /\ final < total - 1 THEN final ELSE total - 1
<1>1. CASE (first = -1 /\ final = -1) \/ (first # -1 /\ final # -1 /\ final < first)
  <2>1. got = [status |-> 200, start |-> 0, end |-> total - 1]
    BY <1>1 DEF _byte_range_response
  <2> QED
    BY <2>1
<1>2. CASE ~ ((first = -1 /\ final = -1) \/ (first # -1 /\ final # -1 /\ final < first))
  <2>1. got = IF from >= total \/ upto < from THEN [status |-> 416, start |-> 0, end |-> -1]
              ELSE [status |-> 206, start |-> from, end |-> upto]
    BY <1>2 DEF _byte_range_response
  <2>2. from \in Int /\ upto \in Int /\ from >= 0 /\ upto <= total - 1
    OBVIOUS
  <2>3. ASSUME NEW b \in 0..(total - 1)
        PROVE  b \in Asked(total, first, final) <=> from <= b /\ b <= upto
    <3>1. CASE first # -1 /\ final # -1
      <4>1. b \in Asked(total, first, final) <=> first <= b /\ b <= final
        BY <3>1 DEF Asked
      <4>2. from = first /\ upto = IF final < total - 1 THEN final ELSE total - 1
        BY <3>1
      <4> HIDE DEF from, upto, got
      <4> QED
        BY <4>1, <4>2
    <3>2. CASE first # -1 /\ final = -1
      BY <3>2 DEF Asked
    <3>3. CASE first = -1 /\ final # -1
      BY <3>3 DEF Asked
    <3> QED
      BY <1>2, <3>1, <3>2, <3>3
  <2>4. Asked(total, first, final) \subseteq 0..(total - 1)
    BY DEF Asked
  <2> HIDE DEF got, from, upto
  <2>5. Asked(total, first, final) = from..upto
    <3>1. ASSUME NEW b \in from..upto PROVE b \in 0..(total - 1) /\ from <= b /\ b <= upto
      BY <2>2
    <3>2. ASSUME NEW b \in 0..(total - 1), from <= b, b <= upto PROVE b \in from..upto
      BY <2>2, <3>2
    <3> QED
      BY <2>3, <2>4, <3>1, <3>2, Zenon
  <2>6. from >= total \/ upto < from => Asked(total, first, final) = {}
    BY <2>2, <2>5
  <2> QED
    BY <2>1, <2>2, <2>5, <2>6 DEF got
<1> QED
  BY <1>1, <1>2

\* A quotient rounded is above it by a half at most.
LEMMA RoundIs ==
    ASSUME NEW n \in Nat, NEW d \in Nat, d > 0
    PROVE  Round(n, d) \in Nat /\ 2 * (d * Round(n, d)) <= 2 * n + d
<1> DEFINE q == n \div d
           r == n % d
<1>1. q \in Nat /\ r \in Nat /\ n = d * q + r
  OBVIOUS
<1>2. Round(n, d) = IF 2 * r < d \/ (2 * r = d /\ q % 2 = 0) THEN q ELSE q + 1
  BY DEF Round
<1> HIDE DEF q, r
<1>3. d * (q + 1) = d * q + d /\ d * q \in Nat
  BY <1>1
<1>4. CASE Round(n, d) = q
  BY <1>1, <1>3, <1>4
<1>5. CASE Round(n, d) = q + 1 /\ 2 * r >= d
  BY <1>1, <1>3, <1>5
<1> QED
  BY <1>1, <1>2, <1>4, <1>5

\* The shares of all parts but the last come to no more than what those parts weigh
\* of the duration, and a half for each.
LEMMA SharesAre ==
    ASSUME NEW D \in Nat, NEW w \in Seq(Nat), NEW T \in Nat, T > 0, NEW s \in Seq(Nat),
           NEW n \in Nat, n <= Len(w), Len(s) = n, \A k \in 1..n : s[k] = Round(D * w[k], T)
    PROVE  2 * (T * Sums(s)[n]) <= 2 * (D * Sums(w)[n]) + n * T
<1> DEFINE Bad == {k \in 0..n : ~ (2 * (T * Sums(s)[k]) <= 2 * (D * Sums(w)[k]) + k * T)}
<1>0. /\ Len(w) \in Nat /\ \A k \in 1..n : w[k] \in Nat /\ s[k] \in Nat
      /\ \A k \in 0..n : Sums(s)[k] \in Nat /\ Sums(w)[k] \in Nat
      /\ Sums(s)[0] = 0 /\ Sums(w)[0] = 0
      /\ \A k \in 1..n : /\ Sums(s)[k] = Sums(s)[k - 1] + s[k]
                         /\ Sums(w)[k] = Sums(w)[k - 1] + w[k]
  <2>1. Len(w) \in Nat /\ \A k \in 1..n : k \in 1..Len(w)
    BY LenProperties
  <2>2. \A k \in 1..n : w[k] \in Nat /\ s[k] \in Nat
    BY <2>1, ElementOfSeq
  <2>3. \A k \in 0..n : k \in 0..Len(w)
    BY <2>1
  <2>4. \A k \in 0..n : Sums(s)[k] \in Nat /\ Sums(w)[k] \in Nat
    BY <2>3, SumsGrow
  <2>5. Sums(s)[0] = 0 /\ \A k \in 1..n : Sums(s)[k] = Sums(s)[k - 1] + s[k]
    BY SumsAre
  <2>6. Sums(w)[0] = 0 /\ \A k \in 1..n : Sums(w)[k] = Sums(w)[k - 1] + w[k]
    BY <2>1, SumsAre
  <2> QED
    BY <2>1, <2>2, <2>4, <2>5, <2>6
<1>1. 0 \notin Bad
  <2>1. T * 0 = 0 /\ D * 0 = 0 /\ 0 * T = 0
    OBVIOUS
  <2>2. T * Sums(s)[0] = 0 /\ D * Sums(w)[0] = 0
    BY <1>0, <2>1
  <2> QED
    BY <2>1, <2>2
<1>2. \A m \in Bad : m - 1 \in Bad
  <2> TAKE m \in Bad
  <2>1. m \in 1..n /\ m - 1 \in 0..n /\ m - 1 \in Nat
    BY <1>1
  <2>2. PICK a \in Nat : a = Sums(s)[m - 1]
    BY <1>0, <2>1
  <2>3. PICK b \in Nat : b = s[m]
    BY <1>0, <2>1
  <2>4. PICK c \in Nat : c = Sums(w)[m - 1]
    BY <1>0, <2>1
  <2>5. PICK v \in Nat : v = w[m]
    BY <1>0, <2>1
  <2>6. Sums(s)[m] = a + b /\ Sums(w)[m] = c + v /\ b = Round(D * v, T)
    BY <1>0, <2>1, <2>2, <2>3, <2>4, <2>5
  <2>7. D * v \in Nat
    OBVIOUS
  <2>8. 2 * (T * b) <= 2 * (D * v) + T
    BY <2>6, <2>7, RoundIs
  <2>9. T * (a + b) = T * a + T * b /\ D * (c + v) = D * c + D * v /\ m * T = (m - 1) * T + T
    BY <2>1
  <2>10. T * a \in Nat /\ T * b \in Nat /\ D * c \in Nat /\ (m - 1) * T \in Nat
    BY <2>1
  <2>11. ~ (2 * (T * (a + b)) <= 2 * (D * (c + v)) + m * T)
    BY <2>6
  <2>12. ~ (2 * (T * a) <= 2 * (D * c) + (m - 1) * T)
    BY <2>7, <2>8, <2>9, <2>10, <2>11
  <2> QED
    BY <2>1, <2>2, <2>4, <2>12
<1>3. Bad = {}
  <2> HIDE DEF Bad
  <2>1. Bad \subseteq 0..n
    BY DEF Bad
  <2> QED
    BY <1>1, <1>2, <2>1, NoFirst
<1>4. n \in 0..n /\ n \notin Bad
  <2> HIDE DEF Bad
  <2> QED
    BY <1>3
<1>5. n \notin Bad => 2 * (T * Sums(s)[n]) <= 2 * (D * Sums(w)[n]) + n * T
  BY <1>4
<1> QED
  BY <1>4, <1>5

\* What is spread over parts is dealt out whole, where the last one has room for what
\* the others' rounding took.
LEMMA SpreadIs ==
    ASSUME NEW D \in Nat, NEW w \in Seq(Nat), Len(w) > 0, \A k \in 1..Len(w) : w[k] > 0
    PROVE  LET out == Spread(D, w) IN
           /\ Len(out) = Len(w) /\ \A k \in 1..Len(out) : out[k] >= 0
           /\ 2 * D * w[Len(w)] >= (Len(w) - 1) * Total(w) => Total(out) = D
<1> DEFINE n == Len(w)
           T == Total(w)
           s == [k \in 1..(n - 1) |-> Round(D * w[k], T)]
           before == Total(s)
           rest == IF D > before THEN D - before ELSE 0
           out == Spread(D, w)
<1>1. n \in Nat /\ n - 1 \in Nat /\ n \in 1..n /\ \A k \in 1..n : w[k] \in Nat
  BY LenProperties, ElementOfSeq
<1>2. /\ T = Sums(w)[n - 1] + w[n] /\ T = Sums(w)[n]
      /\ Sums(w)[n - 1] \in Nat /\ T \in Nat /\ T > 0
  <2>1. n - 1 \in 0..n /\ n \in 0..n
    BY <1>1
  <2>2. T = Sums(w)[n] /\ Sums(w)[n] = Sums(w)[n - 1] + w[n]
    BY <1>1, SumsAre
  <2>3. Sums(w)[n - 1] \in Nat /\ Sums(w)[n] \in Nat
    BY <2>1, SumsGrow
  <2> HIDE DEF n, T
  <2>4. w[n] > 0 /\ w[n] \in Nat
    BY <1>1 DEF n
  <2>5. PICK x \in Nat : x = Sums(w)[n - 1]
    BY <2>3
  <2>6. PICK y \in Nat : y = w[n]
    BY <2>4
  <2> QED
    BY <2>2, <2>3, <2>4, <2>5, <2>6
<1> HIDE DEF T
<1>3. s \in Seq(Nat) /\ Len(s) = n - 1 /\ \A k \in 1..(n - 1) : s[k] = Round(D * w[k], T)
  <2>1. ASSUME NEW k \in 1..(n - 1) PROVE Round(D * w[k], T) \in Nat
    <3>1. w[k] \in Nat
      BY <1>1
    <3>2. D * w[k] \in Nat
      BY <3>1
    <3> QED
      BY <1>2, <3>2, RoundIs
  <2> QED
    BY <1>1, <2>1, IsASeq
<1>4. out = [k \in 1..n |-> IF k < n THEN s[k] ELSE rest]
  BY <1>1 DEF Spread, T
<1> HIDE DEF s, out
<1>5. before = Sums(s)[n - 1] /\ before \in Nat
  <2>1. n - 1 \in 0..(n - 1)
    BY <1>1
  <2> QED
    BY <1>3, <2>1, SumsAre, SumsGrow
<1> HIDE DEF before
<1>6. rest \in Nat
  BY <1>5
<1> HIDE DEF rest
<1>7. out \in Seq(Nat) /\ Len(out) = n /\ \A k \in 1..n : out[k] = IF k < n THEN s[k] ELSE rest
  <2>1. \A k \in 1..(n - 1) : s[k] \in Nat
    BY <1>1, <1>3, ElementOfSeq
  <2>2. \A k \in 1..n : (IF k < n THEN s[k] ELSE rest) \in Nat
    BY <1>1, <1>6, <2>1
  <2> HIDE DEF n
  <2> QED
    BY <1>1, <1>4, <2>2, IsASeq
<1>8. \A k \in 1..n : out[k] >= 0
  <2>1. \A k \in 1..n : out[k] \in Nat
    BY <1>7, ElementOfSeq
  <2> QED
    BY <2>1
<1>9. ASSUME 2 * D * w[n] >= (n - 1) * T PROVE Total(out) = D
  <2>1. Total(s) = Sums(out)[n - 1]
    <3>1. Len(s) <= Len(out) /\ \A k \in 1..Len(s) : s[k] = out[k]
      BY <1>1, <1>3, <1>7
    <3> QED
      BY <1>3, <1>7, <3>1, TotalOfBeginning
  <2>2. Total(out) = Sums(out)[n] /\ Sums(out)[n] = Sums(out)[n - 1] + rest
    <3>1. Total(out) = Sums(out)[n]
      BY <1>7, SumsAre
    <3>2. n \in 1..Len(out) /\ out[n] = rest
      BY <1>1, <1>7
    <3>3. Sums(out)[n] = Sums(out)[n - 1] + out[n]
      BY <1>7, <3>2, SumsAre
    <3> QED
      BY <3>1, <3>2, <3>3
  <2>3. 2 * (T * before) <= 2 * (D * Sums(w)[n - 1]) + (n - 1) * T
    <3>1. PICK m \in Nat : m = n - 1
      BY <1>1
    <3>2. m <= Len(w) /\ Len(s) = m /\ \A k \in 1..m : s[k] = Round(D * w[k], T)
      BY <1>1, <1>3, <3>1
    <3>3. 2 * (T * Sums(s)[m]) <= 2 * (D * Sums(w)[m]) + m * T
      BY <1>2, <1>3, <3>2, SharesAre
    <3> QED
      BY <1>5, <3>1, <3>3
  <2>4. PICK c \in Nat : c = Sums(w)[n - 1]
    BY <1>2
  <2>5. PICK v \in Nat : v = w[n]
    BY <1>1
  <2>6. T = c + v /\ 2 * D * v >= (n - 1) * T /\ 2 * (T * before) <= 2 * (D * c) + (n - 1) * T
    BY <1>2, <1>9, <2>3, <2>4, <2>5
  <2>7. 2 * D * v = 2 * (D * v) /\ D * T = D * c + D * v /\ D * c \in Nat /\ D * v \in Nat
        /\ (n - 1) * T \in Nat /\ T * before \in Nat /\ D * T \in Nat
    <3>1. \A a, b, d \in Nat : /\ d * (a + b) = d * a + d * b /\ 2 * d * b = 2 * (d * b)
                               /\ a * b \in Nat
      OBVIOUS
    <3>2. D * (c + v) = D * c + D * v /\ 2 * D * v = 2 * (D * v)
      BY <3>1
    <3>3. D * c \in Nat /\ D * v \in Nat /\ (n - 1) * T \in Nat /\ T * before \in Nat
          /\ D * T \in Nat
      BY <1>1, <1>2, <1>5, <3>1
    <3> QED
      BY <2>6, <3>2, <3>3
  <2>8. T * before <= D * T
    BY <2>6, <2>7
  <2>9. before <= D
    <3>1. ASSUME NEW a \in Nat, NEW b \in Nat, NEW t \in Nat, t > 0, t * a <= b * t PROVE a <= b
      BY <3>1
    <3> QED
      BY <1>2, <1>5, <2>8, <3>1
  <2>10. rest = D - before
    BY <1>5, <2>9 DEF rest
  <2> QED
    BY <1>5, <2>1, <2>2, <2>9, <2>10 DEF before
<1> QED
  BY <1>7, <1>8, <1>9 DEF out, T

\* The cues packed of the first words, one word after another
IsPackedTo(f, w, n) ==
    f = [k \in 0..n |-> IF k = 0 THEN [done |-> <<>>, current |-> 0] ELSE Pack(f[k - 1], w[k])]
Packed(w) == CHOOSE f : IsPackedTo(f, w, Len(w))

\* Packing ends, one word after the other.
LEMMA PackedReach ==
    ASSUME NEW w \in Seq(Nat)
    PROVE  \A n \in 0..Len(w) : \E f : IsPackedTo(f, w, n)
<1> DEFINE Bad == {n \in 0..Len(w) : \A f : ~ IsPackedTo(f, w, n)}
<1>0. Len(w) \in Nat
  BY LenProperties
<1>1. SUFFICES ASSUME Bad # {} PROVE FALSE
  BY <1>1
<1>2. Bad \subseteq Nat
  BY <1>0
<1>3. PICK m \in Bad : \A y \in Bad : m <= y
  <2> HIDE DEF Bad
  <2> QED
    BY <1>1, <1>2, LowestExists
<1>4. m \in 0..Len(w) /\ \A f : ~ IsPackedTo(f, w, m)
  BY <1>3
<1> DEFINE none == [done |-> <<>>, current |-> 0]
<1>5. m # 0
  <2>1. SUFFICES ASSUME m = 0 PROVE FALSE
    BY <2>1
  <2> DEFINE h == [k \in 0..0 |-> none]
  <2> HIDE DEF none
  <2>2. h = [k \in 0..0 |-> IF k = 0 THEN none ELSE Pack(h[k - 1], w[k])]
    OBVIOUS
  <2> QED
    BY <1>4, <2>1, <2>2 DEF IsPackedTo, none
<1>6. m - 1 \in 0..Len(w) /\ m - 1 \in Nat /\ m \in Nat /\ ~ (m <= m - 1)
  BY <1>0, <1>4, <1>5
<1>7. PICK g : IsPackedTo(g, w, m - 1)
  BY <1>3, <1>6
<1> DEFINE h == [k \in 0..m |-> IF k < m THEN g[k] ELSE Pack(g[m - 1], w[m])]
<1>9. g = [i \in 0..(m - 1) |-> IF i = 0 THEN none ELSE Pack(g[i - 1], w[i])]
  BY <1>7 DEF IsPackedTo
<1> HIDE DEF none
<1>8. \A k \in 0..m : h[k] = IF k = 0 THEN none ELSE Pack(h[k - 1], w[k])
  <2> TAKE k \in 0..m
  <2>2. CASE k = 0
    BY <1>5, <1>6, <1>9, <2>2
  <2>3. CASE k # 0 /\ k < m
    <3>1. k \in 0..(m - 1) /\ k - 1 \in 0..m /\ k - 1 < m
      BY <1>6, <2>3
    <3> QED
      BY <1>9, <2>3, <3>1
  <2>4. CASE k = m
    BY <1>5, <1>6, <2>4
  <2> QED
    BY <1>6, <2>2, <2>3, <2>4
<1>10. h = [k \in 0..m |-> IF k = 0 THEN none ELSE Pack(h[k - 1], w[k])]
  BY <1>8
<1> QED
  BY <1>4, <1>10 DEF IsPackedTo, none

\* The packing of a text's words, as a function
LEMMA PackedAre ==
    ASSUME NEW w \in Seq(Nat)
    PROVE  /\ Packed(w)[0] = [done |-> <<>>, current |-> 0]
           /\ \A k \in 1..Len(w) : Packed(w)[k] = Pack(Packed(w)[k - 1], w[k])
           /\ Chunks(w) = IF Packed(w)[Len(w)].current = 0 THEN Packed(w)[Len(w)].done
                          ELSE Append(Packed(w)[Len(w)].done, Packed(w)[Len(w)].current)
<1>0. Len(w) \in Nat /\ Len(w) \in 0..Len(w)
  BY LenProperties
<1>1. \E f : IsPackedTo(f, w, Len(w))
  BY <1>0, PackedReach
<1>2. IsPackedTo(Packed(w), w, Len(w))
  BY <1>1 DEF Packed
<1>3. Chunks(w) = IF Packed(w)[Len(w)].current = 0 THEN Packed(w)[Len(w)].done
                  ELSE Append(Packed(w)[Len(w)].done, Packed(w)[Len(w)].current)
  BY DEF Chunks, Packed, IsPackedTo
<1> HIDE DEF Packed
<1> DEFINE none == [done |-> <<>>, current |-> 0]
<1>4. Packed(w) = [k \in 0..Len(w) |-> IF k = 0 THEN none ELSE Pack(Packed(w)[k - 1], w[k])]
  BY <1>2 DEF IsPackedTo
<1> HIDE DEF none
<1>5. \A k \in 0..Len(w) : Packed(w)[k] = IF k = 0 THEN none ELSE Pack(Packed(w)[k - 1], w[k])
  BY <1>4
<1>6. Packed(w)[0] = none /\ \A k \in 1..Len(w) : Packed(w)[k] = Pack(Packed(w)[k - 1], w[k])
  BY <1>0, <1>5
<1> QED
  BY <1>3, <1>6 DEF none

\* One more number adds itself to the total.
LEMMA OneMoreAdds ==
    ASSUME NEW s \in Seq(Nat), NEW x \in Nat
    PROVE  /\ Append(s, x) \in Seq(Nat) /\ Len(Append(s, x)) = Len(s) + 1
           /\ Total(s) \in Nat /\ Total(Append(s, x)) = Total(s) + x
           /\ \A k \in 1..Len(s) : Append(s, x)[k] = s[k]
           /\ Append(s, x)[Len(s) + 1] = x
<1> DEFINE t == Append(s, x)
           n == Len(s)
<1>1. /\ t \in Seq(Nat) /\ Len(t) = n + 1 /\ t[n + 1] = x
      /\ \A k \in 1..n : t[k] = s[k]
      /\ n \in Nat
  BY AppendProperties, LenProperties
<1> HIDE DEF t
<1>2. Total(s) = Sums(t)[n]
  BY <1>1, TotalOfBeginning
<1>3. Total(t) = Sums(t)[n + 1] /\ Sums(t)[n + 1] = Sums(t)[(n + 1) - 1] + t[n + 1]
  <2>1. n + 1 \in 1..Len(t)
    BY <1>1
  <2> QED
    BY <1>1, <2>1, SumsAre
<1>4. Sums(t)[n] \in Nat
  <2>1. n \in 0..Len(t)
    BY <1>1
  <2> QED
    BY <1>1, <2>1, SumsGrow
<1> QED
  BY <1>1, <1>2, <1>3, <1>4 DEF t

\* A cue that is no longer than a line, or is a word by itself
CueOK(c, w) == c \in Nat /\ c > 0 /\ (c <= MaxCue \/ \E j \in 1..Len(w) : w[j] = c)

\* What is packed of the first k words: all their characters and the spaces between
CuesOK(p, w, k) ==
    /\ p.done \in Seq(Nat) /\ \A i \in 1..Len(p.done) : CueOK(p.done[i], w)
    /\ IF k = 0 THEN p.current = 0 ELSE CueOK(p.current, w)
    /\ Total(p.done) + Len(p.done) + (IF k = 0 THEN 0 ELSE p.current + 1) = Sums(w)[k] + k

\* A word more is packed with those before it.
LEMMA PackKeeps ==
    ASSUME NEW w \in Seq(Nat), NEW k \in 1..Len(w), w[k] > 0, NEW p, CuesOK(p, w, k - 1)
    PROVE  CuesOK(Pack(p, w[k]), w, k)
<1>0. k \in Nat /\ k - 1 \in Nat /\ k # 0 /\ w[k] \in Nat /\ Len(w) \in Nat /\ MaxCue \in Nat
  BY LenProperties, ElementOfSeq, ServingAssumption
<1>1. PICK x \in Nat : x = w[k]
  BY <1>0
<1>2. PICK s \in Nat : s = Sums(w)[k - 1]
  <2>1. k - 1 \in 0..Len(w)
    BY <1>0
  <2> QED
    BY <2>1, SumsGrow
<1>3. Sums(w)[k] = s + x
  BY <1>1, <1>2, SumsAre
<1>4. p.done \in Seq(Nat) /\ Total(p.done) \in Nat /\ Len(p.done) \in Nat
  <2>1. p.done \in Seq(Nat)
    BY DEF CuesOK
  <2> QED
    BY <1>0, <2>1, OneMoreAdds, LenProperties
<1>5. PICK t \in Nat : t = Total(p.done)
  BY <1>4
<1>6. PICK n \in Nat : n = Len(p.done)
  BY <1>4
<1>7. PICK c \in Nat : c = p.current
  BY DEF CuesOK, CueOK
<1>8. CASE k = 1
  <2>1. c = 0 /\ t + n = s
    BY <1>0, <1>2, <1>5, <1>6, <1>7, <1>8 DEF CuesOK
  <2>2. Pack(p, w[k]) = [done |-> p.done, current |-> x]
    BY <1>1, <1>7, <2>1 DEF Pack
  <2>3. CueOK(x, w)
    BY <1>0, <1>1 DEF CueOK
  <2>4. t + n + (x + 1) = (s + x) + k
    BY <1>8, <2>1
  <2> DEFINE q == [done |-> p.done, current |-> x]
  <2>5. q.done = p.done /\ q.current = x
    OBVIOUS
  <2> HIDE DEF q
  <2>6. \A i \in 1..Len(p.done) : CueOK(p.done[i], w)
    BY DEF CuesOK
  <2>7. CuesOK(q, w, k)
    BY <1>0, <1>3, <1>4, <1>5, <1>6, <2>3, <2>4, <2>5, <2>6 DEF CuesOK
  <2> QED
    BY <2>2, <2>7 DEF q
<1>9. CASE k # 1
  <2>1. CueOK(c, w) /\ t + n + (c + 1) = s + (k - 1)
    BY <1>0, <1>2, <1>5, <1>6, <1>7, <1>9 DEF CuesOK
  <2>0. c > 0
    BY <2>1 DEF CueOK
  <2>6. \A i \in 1..Len(p.done) : CueOK(p.done[i], w)
    BY DEF CuesOK
  <2>2. CASE c + 1 + x > MaxCue
    <3> DEFINE d == Append(p.done, c)
               q == [done |-> d, current |-> x]
    <3>1. Pack(p, w[k]) = q
      BY <1>1, <1>7, <2>0, <2>2 DEF Pack
    <3>2. /\ d \in Seq(Nat) /\ Len(d) = n + 1 /\ Total(d) = t + c
          /\ \A i \in 1..Len(p.done) : d[i] = p.done[i]
          /\ d[n + 1] = c
      BY <1>4, <1>5, <1>6, OneMoreAdds
    <3> HIDE DEF d
    <3>3. q.done = d /\ q.current = x
      OBVIOUS
    <3> HIDE DEF q
    <3>4. \A i \in 1..Len(d) : CueOK(d[i], w)
      <4> TAKE i \in 1..Len(d)
      <4>1. i \in 1..n \/ i = n + 1
        BY <3>2
      <4> QED
        BY <1>6, <2>1, <2>6, <3>2, <4>1
    <3>5. CueOK(x, w)
      BY <1>0, <1>1 DEF CueOK
    <3>6. (t + c) + (n + 1) + (x + 1) = (s + x) + k
      BY <1>0, <2>1
    <3>7. CuesOK(q, w, k)
      BY <1>0, <1>3, <3>2, <3>3, <3>4, <3>5, <3>6 DEF CuesOK
    <3> QED
      BY <3>1, <3>7
  <2>3. CASE ~ (c + 1 + x > MaxCue)
    <3> DEFINE q == [done |-> p.done, current |-> c + 1 + x]
    <3>1. Pack(p, w[k]) = q
      BY <1>1, <1>7, <2>0, <2>3 DEF Pack
    <3>3. q.done = p.done /\ q.current = c + 1 + x
      OBVIOUS
    <3> HIDE DEF q
    <3>5. CueOK(c + 1 + x, w)
      BY <1>0, <2>3 DEF CueOK
    <3>6. t + n + ((c + 1 + x) + 1) = (s + x) + k
      BY <1>0, <2>1
    <3>7. CuesOK(q, w, k)
      BY <1>0, <1>3, <1>4, <1>5, <1>6, <2>6, <3>3, <3>5, <3>6 DEF CuesOK
    <3> QED
      BY <3>1, <3>7
  <2> QED
    BY <1>0, <2>2, <2>3
<1> QED
  BY <1>8, <1>9

\* No word of a text is lost between its cues, and a cue too long for a line is one
\* word.
LEMMA ChunksAre ==
    ASSUME NEW w \in Seq(Nat), Len(w) > 0, \A k \in 1..Len(w) : w[k] > 0
    PROVE  /\ Chunks(w) \in Seq(Nat) /\ Len(Chunks(w)) > 0
           /\ \A k \in 1..Len(Chunks(w)) : CueOK(Chunks(w)[k], w)
           /\ Total(Chunks(w)) + Len(Chunks(w)) = Total(w) + Len(w)
<1> DEFINE n == Len(w)
           p == Packed(w)
           Bad == {k \in 0..n : ~ CuesOK(p[k], w, k)}
<1>0. n \in Nat /\ n # 0 /\ n \in 0..n /\ n \in 1..n
  BY LenProperties
<1>1. /\ p[0] = [done |-> <<>>, current |-> 0]
      /\ \A k \in 1..n : p[k] = Pack(p[k - 1], w[k])
      /\ Chunks(w) = IF p[n].current = 0 THEN p[n].done ELSE Append(p[n].done, p[n].current)
  BY PackedAre
<1> HIDE DEF p
<1>2. 0 \notin Bad
  <2>1. p[0].done = <<>> /\ p[0].current = 0
    BY <1>1
  <2>2. <<>> \in Seq(Nat) /\ Len(<<>>) = 0
    BY EmptySeq
  <2>3. Total(<<>>) = 0
    <3>1. Total(<<>>) = Sums(<<>>)[Len(<<>>)] /\ Sums(<<>>)[0] = 0
      BY <2>2, SumsAre
    <3> QED
      BY <2>2, <3>1
  <2>4. Sums(w)[0] = 0
    BY SumsAre
  <2>5. 1..Len(<<>>) = {}
    BY <2>2
  <2>6. \A i \in 1..Len(<<>>) : CueOK(p[0].done[i], w)
    BY <2>5
  <2>7. Total(<<>>) + Len(<<>>) + 0 = Sums(w)[0] + 0
    BY <2>2, <2>3, <2>4
  <2>8. CuesOK(p[0], w, 0)
    BY <2>1, <2>2, <2>6, <2>7 DEF CuesOK
  <2> QED
    BY <2>8
<1>3. \A m \in Bad : m - 1 \in Bad
  <2> TAKE m \in Bad
  <2>1. m \in 1..n /\ m - 1 \in 0..n
    BY <1>0, <1>2
  <2>2. CuesOK(p[m - 1], w, m - 1) => CuesOK(Pack(p[m - 1], w[m]), w, m)
    BY <2>1, PackKeeps
  <2>3. ~ CuesOK(p[m], w, m) /\ p[m] = Pack(p[m - 1], w[m])
    BY <1>1, <2>1
  <2> QED
    BY <2>1, <2>2, <2>3
<1>4. Bad = {}
  <2> HIDE DEF Bad
  <2>1. Bad \subseteq 0..n
    BY DEF Bad
  <2> QED
    BY <1>0, <1>2, <1>3, <2>1, NoFirst
<1>5. CuesOK(p[n], w, n)
  BY <1>0, <1>4
<1> DEFINE d == p[n].done
           c == p[n].current
           out == Append(d, c)
<1>6. /\ d \in Seq(Nat) /\ \A i \in 1..Len(d) : CueOK(d[i], w)
      /\ CueOK(c, w) /\ Total(d) + Len(d) + (c + 1) = Sums(w)[n] + n
  BY <1>0, <1>5 DEF CuesOK
<1> HIDE DEF d, c
<1>7. c \in Nat /\ c # 0
  BY <1>6 DEF CueOK
<1>8. Chunks(w) = out
  BY <1>1, <1>7 DEF d, c
<1>9. /\ out \in Seq(Nat) /\ Len(out) = Len(d) + 1 /\ Total(d) \in Nat /\ Total(out) = Total(d) + c
      /\ \A i \in 1..Len(d) : out[i] = d[i]
      /\ out[Len(d) + 1] = c
  BY <1>6, <1>7, OneMoreAdds
<1>10. Len(d) \in Nat
  BY <1>6, LenProperties
<1> HIDE DEF out
<1>11. \A k \in 1..Len(out) : CueOK(out[k], w)
  <2> TAKE k \in 1..Len(out)
  <2>1. k \in 1..Len(d) \/ k = Len(d) + 1
    BY <1>9, <1>10
  <2> QED
    BY <1>6, <1>9, <2>1
<1>12. Total(out) + Len(out) = Total(w) + n
  <2>1. Total(w) = Sums(w)[n] /\ Total(w) \in Nat
    BY <1>0, SumsAre, SumsGrow
  <2>2. PICK x \in Nat : x = Total(d)
    BY <1>9
  <2>3. PICK y \in Nat : y = Len(d)
    BY <1>10
  <2>4. PICK z \in Nat : z = Total(w)
    BY <2>1
  <2>5. x + y + (c + 1) = z + n
    BY <1>6, <2>1, <2>2, <2>3, <2>4
  <2>6. Total(out) = x + c /\ Len(out) = y + 1
    BY <1>9, <2>2, <2>3
  <2> QED
    BY <1>0, <1>7, <2>4, <2>5, <2>6
<1> QED
  BY <1>8, <1>9, <1>10, <1>11, <1>12

\* What one request was answered is right, whatever was asked.
ServingInv == ServedAsAsked

LEMMA ServingStart == ServingInit => ServingInv
BY DEF ServingInit, ServingInv, ServedAsAsked, RangeIsExact, TimesTile, CuesKeepTheWords

\* A range is answered with the bytes asked for.
LEMMA AudioServed ==
    ASSUME NEW store \in {"signs", "serves", "unanswerable"}, NEW total \in 0..MaxBytes,
           NEW first \in Offsets, NEW final \in Offsets, episode_audio(store, total, first, final)
    PROVE  ServingInv'
<1> DEFINE reply == _byte_range_response(total, first, final)
           got == IF store = "signs" THEN [status |-> 307, start |-> 0, end |-> -1] ELSE reply
<1>1. answered' = [of |-> "range", total |-> total, first |-> first, last |-> final, got |-> got]
  BY DEF episode_audio
<1>2. /\ answered'.of = "range" /\ answered'.got = got /\ answered'.total = total
      /\ answered'.first = first /\ answered'.last = final
  BY <1>1
<1>3. total \in Nat /\ first \in Int /\ final \in Int /\ first >= -1 /\ final >= -1
  BY ServingAssumption DEF Offsets
<1>4. /\ reply.status = 206 => /\ reply.start..reply.end = Asked(total, first, final)
                               /\ reply.start <= reply.end
      /\ reply.status = 416 => Asked(total, first, final) = {}
  BY <1>3, RangeIs
<1> HIDE DEF reply
<1>5. /\ got.status = 206 => /\ got.start..got.end = Asked(total, first, final)
                             /\ got.start <= got.end
      /\ got.status = 416 => Asked(total, first, final) = {}
  BY <1>4
<1> HIDE DEF got
<1>6. RangeIsExact'
  BY <1>2, <1>5 DEF RangeIsExact
<1>7. TimesTile' /\ CuesKeepTheWords'
  BY <1>2 DEF TimesTile, CuesKeepTheWords
<1> QED
  BY <1>6, <1>7 DEF ServingInv, ServedAsAsked

\* The claims of a segment tile it.
LEMMA ClaimsServed ==
    ASSUME NEW duration \in 0..MaxMs, NEW n \in 1..MaxParts, NEW texts \in [1..n -> 0..MaxChars],
           apportion_claim_timings(duration, texts)
    PROVE  ServingInv'
<1>0. n \in Nat /\ n > 0 /\ duration \in Nat /\ MaxChars \in Nat
  BY ServingAssumption
<1>1. Len(texts) = n /\ \A k \in 1..n : texts[k] \in Nat
  BY <1>0, IsASeq
<1> DEFINE w == [k \in 1..Len(texts) |-> IF texts[k] = 0 THEN 1 ELSE texts[k]]
<1>2. w \in Seq(Nat) /\ Len(w) = n /\ \A k \in 1..Len(w) : w[k] > 0
  <2>1. \A k \in 1..n : /\ (IF texts[k] = 0 THEN 1 ELSE texts[k]) \in Nat
                        /\ (IF texts[k] = 0 THEN 1 ELSE texts[k]) > 0
    BY <1>1
  <2>2. w \in Seq(Nat) /\ Len(w) = n /\ \A k \in 1..n : w[k] = IF texts[k] = 0 THEN 1 ELSE texts[k]
    BY <1>0, <1>1, <2>1, IsASeq
  <2> HIDE DEF w
  <2> QED
    BY <2>1, <2>2
<1>3. answered' = [of |-> "claims", duration |-> duration, weights |-> w,
                   spans |-> Spread(duration, w)]
  BY DEF apportion_claim_timings
<1> HIDE DEF w
<1>4. /\ answered'.of = "claims" /\ answered'.duration = duration /\ answered'.weights = w
      /\ answered'.spans = Spread(duration, w)
  BY <1>3
<1>5. /\ \A k \in 1..Len(Spread(duration, w)) : Spread(duration, w)[k] >= 0
      /\ 2 * duration * w[Len(w)] >= (Len(w) - 1) * Total(w) => Total(Spread(duration, w)) = duration
  BY <1>0, <1>2, SpreadIs
<1>6. TimesTile'
  BY <1>4, <1>5 DEF TimesTile, Roomy
<1>7. RangeIsExact' /\ CuesKeepTheWords'
  BY <1>4 DEF RangeIsExact, CuesKeepTheWords
<1> QED
  BY <1>6, <1>7 DEF ServingInv, ServedAsAsked

\* The cues of a claim tile it and keep its words.
LEMMA CuesServed ==
    ASSUME NEW duration \in 0..MaxMs, NEW n \in 1..MaxParts, NEW words \in [1..n -> 1..MaxChars],
           _split_cue(duration, words)
    PROVE  ServingInv'
<1>0. n \in Nat /\ n > 0 /\ duration \in Nat /\ MaxChars \in Nat
  BY ServingAssumption
<1>1. words \in Seq(Nat) /\ Len(words) = n /\ \A k \in 1..Len(words) : words[k] > 0
  <2>1. \A k \in 1..n : words[k] \in Nat /\ words[k] > 0
    BY <1>0
  <2>2. words = [k \in 1..n |-> words[k]]
    OBVIOUS
  <2> QED
    BY <1>0, <2>1, <2>2, IsASeq
<1> DEFINE w == Chunks(words)
<1>2. /\ w \in Seq(Nat) /\ Len(w) > 0 /\ \A k \in 1..Len(w) : CueOK(w[k], words)
      /\ Total(w) + Len(w) = Total(words) + Len(words)
  BY <1>0, <1>1, ChunksAre
<1>3. answered' = [of |-> "cues", duration |-> duration, weights |-> w,
                   words |-> words, spans |-> Spread(duration, w)]
  BY DEF _split_cue
<1> HIDE DEF w
<1>4. /\ answered'.of = "cues" /\ answered'.duration = duration /\ answered'.weights = w
      /\ answered'.words = words /\ answered'.spans = Spread(duration, w)
  BY <1>3
<1>5. \A k \in 1..Len(w) : w[k] > 0 /\ (w[k] <= MaxCue \/ \E j \in 1..Len(words) : words[j] = w[k])
  BY <1>2 DEF CueOK
<1>6. /\ \A k \in 1..Len(Spread(duration, w)) : Spread(duration, w)[k] >= 0
      /\ 2 * duration * w[Len(w)] >= (Len(w) - 1) * Total(w) => Total(Spread(duration, w)) = duration
  BY <1>0, <1>2, <1>5, SpreadIs
<1>7. TimesTile'
  BY <1>4, <1>6 DEF TimesTile, Roomy
<1>8. CuesKeepTheWords'
  BY <1>2, <1>4, <1>5 DEF CuesKeepTheWords
<1>9. RangeIsExact'
  BY <1>4 DEF RangeIsExact
<1> QED
  BY <1>7, <1>8, <1>9 DEF ServingInv, ServedAsAsked

\* What does not answer leaves what was answered.
LEMMA ServedStill ==
    ASSUME ServingInv, UNCHANGED answered
    PROVE  ServingInv'
BY DEF ServingInv, ServedAsAsked, RangeIsExact, TimesTile, Roomy, CuesKeepTheWords

LEMMA ServingStep == ServingInv /\ [ServingNext]_servingVars => ServingInv'
<1> SUFFICES ASSUME ServingInv, [ServingNext]_servingVars PROVE ServingInv'
  OBVIOUS
<1>1. ASSUME NEW store \in {"signs", "serves", "unanswerable"}, NEW total \in 0..MaxBytes,
             NEW first \in Offsets, NEW final \in Offsets, episode_audio(store, total, first, final)
      PROVE  ServingInv'
  BY <1>1, AudioServed
<1>2. ASSUME NEW duration \in 0..MaxMs, NEW n \in 1..MaxParts, NEW texts \in [1..n -> 0..MaxChars],
             apportion_claim_timings(duration, texts)
      PROVE  ServingInv'
  BY <1>2, ClaimsServed
<1>3. ASSUME NEW duration \in 0..MaxMs, NEW n \in 1..MaxParts, NEW words \in [1..n -> 1..MaxChars],
             _split_cue(duration, words)
      PROVE  ServingInv'
  BY <1>3, CuesServed
<1>4. ASSUME NEW p \in Passages, NEW of \in {q.story : q \in Passages}, NEW from \in 0..2,
             NEW upto \in 0..2, NEW note \in BOOLEAN, save_highlight(p, of, from, upto, note)
      PROVE  ServingInv'
  BY <1>4, ServedStill DEF save_highlight
<1>5. ASSUME NEW h \in saved, delete_highlight(h) PROVE ServingInv'
  BY <1>5, ServedStill DEF delete_highlight
<1>6. CASE UNCHANGED servingVars
  BY <1>6, ServedStill DEF servingVars
<1>7. CASE ServingNext
  BY <1>1, <1>2, <1>3, <1>4, <1>5, <1>7 DEF ServingNext
<1> QED
  BY <1>6, <1>7

\* A partial answer is the bytes asked for, the parts of what is read aloud follow one
\* another and add up wherever the last has room for the rounding, and no word is lost
\* between captions.
THEOREM ServedAsAskedAlways == ServingSpec => []ServedAsAsked
<1>1. ServingInv => ServedAsAsked
  BY DEF ServingInv
<1> QED
  BY <1>1, ServingStart, ServingStep, PTL DEF ServingSpec

(***************************************************************************)
(* Extract                                                                 *)
(***************************************************************************)

\* What is kept of the first lines, one line after another
IsKept(f, s, K, n) ==
    f = [k \in 0..n |-> IF k = 0 THEN <<>>
                        ELSE IF s[k] \in K THEN Append(f[k - 1], s[k]) ELSE f[k - 1]]
Kept(s, K) == CHOOSE f : IsKept(f, s, K, Len(s))

\* Filtering ends, one line after the other.
LEMMA KeptReach ==
    ASSUME NEW S, NEW s \in Seq(S), NEW K
    PROVE  \A n \in 0..Len(s) : \E f : IsKept(f, s, K, n)
<1> DEFINE Bad == {n \in 0..Len(s) : \A f : ~ IsKept(f, s, K, n)}
           next(before, k) == IF s[k] \in K THEN Append(before, s[k]) ELSE before
<1>0. Len(s) \in Nat
  BY LenProperties
<1>1. SUFFICES ASSUME Bad # {} PROVE FALSE
  BY <1>1
<1>2. Bad \subseteq Nat
  BY <1>0
<1>3. PICK m \in Bad : \A y \in Bad : m <= y
  <2> HIDE DEF Bad
  <2> QED
    BY <1>1, <1>2, LowestExists
<1>4. m \in 0..Len(s) /\ \A f : ~ IsKept(f, s, K, m)
  BY <1>3
<1>5. m # 0
  <2>1. SUFFICES ASSUME m = 0 PROVE FALSE
    BY <2>1
  <2> DEFINE h == [k \in 0..0 |-> <<>>]
  <2> HIDE DEF next
  <2>2. h = [k \in 0..0 |-> IF k = 0 THEN <<>> ELSE next(h[k - 1], k)]
    OBVIOUS
  <2> QED
    BY <1>4, <2>1, <2>2 DEF IsKept, next
<1>6. m - 1 \in 0..Len(s) /\ m - 1 \in Nat /\ m \in Nat /\ ~ (m <= m - 1)
  BY <1>0, <1>4, <1>5
<1>7. PICK g : IsKept(g, s, K, m - 1)
  BY <1>3, <1>6
<1> DEFINE h == [k \in 0..m |-> IF k < m THEN g[k] ELSE next(g[m - 1], m)]
<1>9. g = [k \in 0..(m - 1) |-> IF k = 0 THEN <<>> ELSE next(g[k - 1], k)]
  BY <1>7 DEF IsKept
<1> HIDE DEF next
<1>8. \A k \in 0..m : h[k] = IF k = 0 THEN <<>> ELSE next(h[k - 1], k)
  <2> TAKE k \in 0..m
  <2>2. CASE k = 0
    BY <1>5, <1>6, <1>9, <2>2
  <2>3. CASE k # 0 /\ k < m
    <3>1. k \in 0..(m - 1) /\ k - 1 \in 0..m /\ k - 1 < m
      BY <1>6, <2>3
    <3> QED
      BY <1>9, <2>3, <3>1
  <2>4. CASE k = m
    BY <1>5, <1>6, <2>4
  <2> QED
    BY <1>6, <2>2, <2>3, <2>4
<1>10. h = [k \in 0..m |-> IF k = 0 THEN <<>> ELSE next(h[k - 1], k)]
  BY <1>8
<1> QED
  BY <1>4, <1>10 DEF IsKept, next

\* Filtering, as a function
LEMMA KeptAre ==
    ASSUME NEW S, NEW s \in Seq(S), NEW K
    PROVE  /\ Kept(s, K)[0] = <<>>
           /\ \A k \in 1..Len(s) :
                  Kept(s, K)[k] = IF s[k] \in K THEN Append(Kept(s, K)[k - 1], s[k])
                                  ELSE Kept(s, K)[k - 1]
           /\ Only(s, K) = Kept(s, K)[Len(s)]
<1> DEFINE next(before, k) == IF s[k] \in K THEN Append(before, s[k]) ELSE before
<1>0. Len(s) \in Nat /\ Len(s) \in 0..Len(s)
  BY LenProperties
<1>1. \E f : IsKept(f, s, K, Len(s))
  BY <1>0, KeptReach
<1>2. IsKept(Kept(s, K), s, K, Len(s))
  BY <1>1 DEF Kept
<1>3. Only(s, K) = Kept(s, K)[Len(s)]
  BY DEF Only, Kept, IsKept
<1> HIDE DEF Kept
<1>4. Kept(s, K) = [k \in 0..Len(s) |-> IF k = 0 THEN <<>> ELSE next(Kept(s, K)[k - 1], k)]
  BY <1>2 DEF IsKept
<1> HIDE DEF next
<1>5. \A k \in 0..Len(s) : Kept(s, K)[k] = IF k = 0 THEN <<>> ELSE next(Kept(s, K)[k - 1], k)
  BY <1>4
<1>6. Kept(s, K)[0] = <<>> /\ \A k \in 1..Len(s) : Kept(s, K)[k] = next(Kept(s, K)[k - 1], k)
  BY <1>0, <1>5
<1> QED
  BY <1>3, <1>6 DEF next

\* A beginning of a sequence, element by element
Begins(p, t) == Len(p) <= Len(t) /\ \A i \in 1..Len(p) : p[i] = t[i]

LEMMA BeginsOnward ==
    ASSUME NEW S, NEW p \in Seq(S), NEW t \in Seq(S), NEW x \in S, Begins(p, t)
    PROVE  Begins(p, Append(t, x))
<1>1. Len(p) \in Nat /\ Len(t) \in Nat
  BY LenProperties
<1>2. Len(Append(t, x)) = Len(t) + 1 /\ \A i \in 1..Len(t) : Append(t, x)[i] = t[i]
  BY AppendProperties
<1> QED
  BY <1>1, <1>2 DEF Begins

\* Sequences of one length that agree everywhere are the same.
LEMMA BeginsIsPrefix ==
    ASSUME NEW S, NEW p \in Seq(S), NEW t \in Seq(S), Begins(p, t)
    PROVE  IsPrefix(p, t)
<1>1. Len(p) \in Nat /\ Len(t) \in Nat /\ Len(p) <= Len(t) /\ \A i \in 1..Len(p) : p[i] = t[i]
  BY LenProperties DEF Begins
<1>2. SubSeq(p, 1, Len(p)) = [i \in 1..Len(p) |-> p[i]]
  BY <1>1
<1>3. SubSeq(t, 1, Len(p)) = [i \in 1..Len(p) |-> t[i]]
  BY <1>1
<1> QED
  BY <1>1, <1>2, <1>3 DEF IsPrefix

\* What is kept of the first lines is lines, and begins what is kept of more.
LEMMA KeptGrows ==
    ASSUME NEW S, NEW s \in Seq(S), NEW K
    PROVE  /\ \A k \in 0..Len(s) : Kept(s, K)[k] \in Seq(S)
           /\ \A i, k \in 0..Len(s) : i <= k => Begins(Kept(s, K)[i], Kept(s, K)[k])
<1> DEFINE f == Kept(s, K)
           n == Len(s)
<1>0. n \in Nat /\ \A i \in 1..n : s[i] \in S
  BY LenProperties, ElementOfSeq
<1>1. /\ f[0] = <<>>
      /\ \A k \in 1..n : f[k] = IF s[k] \in K THEN Append(f[k - 1], s[k]) ELSE f[k - 1]
  BY KeptAre
<1> HIDE DEF f, n
<1>2. \A k \in 0..n : f[k] \in Seq(S)
  <2> DEFINE Bad == {k \in 0..n : f[k] \notin Seq(S)}
  <2>1. 0 \notin Bad
    BY <1>1, EmptySeq
  <2>2. \A m \in Bad : m - 1 \in Bad
    <3> TAKE m \in Bad
    <3>1. m \in 1..n /\ m - 1 \in 0..n
      BY <1>0, <2>1
    <3>2. f[m - 1] \in Seq(S) => f[m] \in Seq(S)
      <4>1. f[m - 1] \in Seq(S) => Append(f[m - 1], s[m]) \in Seq(S)
        BY <1>0, <3>1, AppendProperties
      <4> QED
        BY <1>1, <3>1, <4>1
    <3> QED
      BY <3>1, <3>2
  <2>3. Bad = {}
    <3>1. Bad \subseteq 0..n
      OBVIOUS
    <3> HIDE DEF Bad
    <3> QED
      BY <1>0, <2>1, <2>2, <3>1, NoFirst
  <2> QED
    BY <2>3
<1>3. ASSUME NEW i \in 0..n PROVE \A k \in 0..n : i <= k => Begins(f[i], f[k])
  <2> DEFINE Bad == {k \in 0..n : i <= k /\ ~ Begins(f[i], f[k])}
  <2>0. i \in Nat /\ Begins(f[i], f[i])
    <3>1. Len(f[i]) \in Nat
      BY <1>2, LenProperties
    <3> QED
      BY <1>0, <3>1 DEF Begins
  <2>1. i \notin Bad
    BY <2>0
  <2>2. \A m \in Bad : m - 1 \in Bad
    <3> TAKE m \in Bad
    <3>1. m \in 1..n /\ m - 1 \in 0..n /\ i <= m - 1
      BY <1>0, <2>0, <2>1
    <3>2. Begins(f[i], f[m - 1]) => Begins(f[i], f[m])
      <4>1. f[i] \in Seq(S) /\ f[m - 1] \in Seq(S) /\ s[m] \in S
        BY <1>0, <1>2, <3>1
      <4>2. Begins(f[i], f[m - 1]) => Begins(f[i], Append(f[m - 1], s[m]))
        BY <4>1, BeginsOnward
      <4> QED
        BY <1>1, <3>1, <4>2
    <3>3. ~ Begins(f[i], f[m])
      OBVIOUS
    <3> QED
      BY <3>1, <3>2, <3>3
  <2>4. 0 \notin Bad
    BY <2>0, <2>1
  <2>5. Bad = {}
    <3>1. Bad \subseteq 0..n
      OBVIOUS
    <3> HIDE DEF Bad
    <3> QED
      BY <1>0, <2>2, <2>4, <3>1, NoFirst
  <2> QED
    BY <2>5
<1> QED
  BY <1>2, <1>3 DEF f, n

\* What is kept of a beginning is what is kept up to there.
LEMMA OnlyOfBeginning ==
    ASSUME NEW S, NEW s \in Seq(S), NEW p \in Seq(S), NEW K, Begins(p, s)
    PROVE  /\ Only(p, K) = Kept(s, K)[Len(p)] /\ Only(p, K) \in Seq(S)
           /\ Begins(Only(p, K), Only(s, K))
<1> DEFINE f == Kept(s, K)
           g == Kept(p, K)
           n == Len(p)
           Bad == {k \in 0..n : g[k] # f[k]}
<1>0. n \in Nat /\ Len(s) \in Nat /\ n <= Len(s) /\ \A k \in 1..n : p[k] = s[k]
  BY LenProperties DEF Begins
<1>1. /\ f[0] = <<>>
      /\ \A k \in 1..Len(s) : f[k] = IF s[k] \in K THEN Append(f[k - 1], s[k]) ELSE f[k - 1]
      /\ Only(s, K) = f[Len(s)]
  BY KeptAre
<1>2. /\ g[0] = <<>>
      /\ \A k \in 1..n : g[k] = IF p[k] \in K THEN Append(g[k - 1], p[k]) ELSE g[k - 1]
      /\ Only(p, K) = g[n]
  BY KeptAre
<1>3. /\ \A k \in 0..Len(s) : f[k] \in Seq(S)
      /\ \A i, k \in 0..Len(s) : i <= k => Begins(f[i], f[k])
  BY KeptGrows
<1> HIDE DEF f, g, n
<1>4. 0 \notin Bad
  BY <1>1, <1>2
<1>5. \A m \in Bad : m - 1 \in Bad
  <2> TAKE m \in Bad
  <2>1. m \in 1..n /\ m \in 1..Len(s) /\ m - 1 \in 0..n
    BY <1>0, <1>4
  <2>2. g[m - 1] = f[m - 1] => g[m] = f[m]
    BY <1>0, <1>1, <1>2, <2>1
  <2> QED
    BY <2>1, <2>2
<1>6. Bad = {}
  <2>1. Bad \subseteq 0..n
    OBVIOUS
  <2> HIDE DEF Bad
  <2> QED
    BY <1>0, <1>4, <1>5, <2>1, NoFirst
<1>7. n \in 0..n /\ n \in 0..Len(s) /\ Len(s) \in 0..Len(s)
  BY <1>0
<1>8. g[n] = f[n]
  BY <1>6, <1>7
<1>9. f[n] \in Seq(S) /\ Begins(f[n], f[Len(s)])
  BY <1>0, <1>3, <1>7
<1> QED
  BY <1>1, <1>2, <1>8, <1>9 DEF f, n

\* One more line is kept where it is of the kinds.
LEMMA OneMoreKept ==
    ASSUME NEW S, NEW s \in Seq(S), NEW x \in S, NEW K
    PROVE  Only(Append(s, x), K) = IF x \in K THEN Append(Only(s, K), x) ELSE Only(s, K)
<1> DEFINE t == Append(s, x)
           n == Len(s)
<1>1. /\ t \in Seq(S) /\ Len(t) = n + 1 /\ t[n + 1] = x
      /\ \A k \in 1..n : t[k] = s[k]
      /\ n \in Nat
  BY AppendProperties, LenProperties
<1> HIDE DEF t
<1>2. Begins(s, t)
  BY <1>1 DEF Begins
<1>3. Only(s, K) = Kept(t, K)[n]
  BY <1>1, <1>2, OnlyOfBeginning
<1>4. n + 1 \in 1..Len(t) /\ (n + 1) - 1 = n
  BY <1>1
<1>5. /\ Only(t, K) = Kept(t, K)[n + 1]
      /\ Kept(t, K)[n + 1] = IF t[n + 1] \in K THEN Append(Kept(t, K)[(n + 1) - 1], t[n + 1])
                             ELSE Kept(t, K)[(n + 1) - 1]
  BY <1>1, <1>4, KeptAre
<1> QED
  BY <1>1, <1>3, <1>4, <1>5 DEF t

\* Filtering for fewer kinds what was filtered for more is filtering for the fewer.
LEMMA OnlyOfOnly ==
    ASSUME NEW S, NEW s \in Seq(S), NEW K, NEW L, L \subseteq K
    PROVE  Only(Only(s, K), L) = Only(s, L)
<1> DEFINE f == Kept(s, K)
           g == Kept(s, L)
           n == Len(s)
           Bad == {k \in 0..n : Only(f[k], L) # g[k]}
<1>0. n \in Nat /\ \A k \in 1..n : s[k] \in S
  BY LenProperties, ElementOfSeq
<1>1. /\ f[0] = <<>>
      /\ \A k \in 1..n : f[k] = IF s[k] \in K THEN Append(f[k - 1], s[k]) ELSE f[k - 1]
      /\ Only(s, K) = f[n]
  BY KeptAre
<1>2. /\ g[0] = <<>>
      /\ \A k \in 1..n : g[k] = IF s[k] \in L THEN Append(g[k - 1], s[k]) ELSE g[k - 1]
      /\ Only(s, L) = g[n]
  BY KeptAre
<1>3. \A k \in 0..n : f[k] \in Seq(S)
  BY KeptGrows
<1> HIDE DEF f, g, n
<1>4. 0 \notin Bad
  <2>1. <<>> \in Seq(S) /\ Len(<<>>) = 0
    BY EmptySeq
  <2>2. Only(<<>>, L) = Kept(<<>>, L)[Len(<<>>)] /\ Kept(<<>>, L)[0] = <<>>
    BY <2>1, KeptAre
  <2> QED
    BY <1>1, <1>2, <2>1, <2>2
<1>5. \A m \in Bad : m - 1 \in Bad
  <2> TAKE m \in Bad
  <2>1. m \in 1..n /\ m - 1 \in 0..n
    BY <1>0, <1>4
  <2>2. f[m - 1] \in Seq(S) /\ s[m] \in S
    BY <1>0, <1>3, <2>1
  <2>3. Only(Append(f[m - 1], s[m]), L) = IF s[m] \in L THEN Append(Only(f[m - 1], L), s[m])
                                          ELSE Only(f[m - 1], L)
    <3>1. PICK b \in Seq(S) : b = f[m - 1]
      BY <2>2
    <3>2. PICK x \in S : x = s[m]
      BY <2>2
    <3>3. Only(Append(b, x), L) = IF x \in L THEN Append(Only(b, L), x) ELSE Only(b, L)
      BY OneMoreKept
    <3> QED
      BY <3>1, <3>2, <3>3
  <2>4. Only(f[m - 1], L) = g[m - 1] => Only(f[m], L) = g[m]
    BY <1>1, <1>2, <2>1, <2>3
  <2>5. Only(f[m], L) # g[m]
    OBVIOUS
  <2> QED
    BY <2>1, <2>4, <2>5
<1>6. Bad = {}
  <2>1. Bad \subseteq 0..n
    OBVIOUS
  <2> HIDE DEF Bad
  <2> QED
    BY <1>0, <1>4, <1>5, <2>1, NoFirst
<1>7. n \in 0..n
  BY <1>0
<1> QED
  BY <1>1, <1>2, <1>6, <1>7

\* A beginning cut off a sequence
LEMMA CutIs ==
    ASSUME NEW S, NEW s \in Seq(S), NEW m \in Nat, m <= Len(s)
    PROVE  /\ SubSeq(s, 1, m) \in Seq(S) /\ Len(SubSeq(s, 1, m)) = m
           /\ Begins(SubSeq(s, 1, m), s)
<1>1. Len(s) \in Nat /\ \A i \in 1..m : s[i] \in S
  BY LenProperties, ElementOfSeq
<1>2. 1 \in Int /\ m \in Int
  OBVIOUS
<1>3. /\ SubSeq(s, 1, m) \in Seq(S)
      /\ Len(SubSeq(s, 1, m)) = IF 1 <= m THEN m - 1 + 1 ELSE 0
      /\ \A i \in 1..(m - 1 + 1) : SubSeq(s, 1, m)[i] = s[1 + i - 1]
  BY <1>1, <1>2, SubSeqProperties
<1>4. \A i \in 1..m : SubSeq(s, 1, m)[i] = s[i]
  BY <1>3
<1>5. Len(SubSeq(s, 1, m)) = m
  BY <1>3
<1> QED
  BY <1>1, <1>3, <1>4, <1>5 DEF Begins

\* What begins another has no more lines of a kind.
LEMMA ContentGrows ==
    ASSUME NEW p \in Seq(Lines), NEW s \in Seq(Lines), Begins(p, s)
    PROVE  ContentLines(p) \in Nat /\ ContentLines(p) <= ContentLines(s)
<1>1. /\ Only(p, ContentKinds) \in Seq(Lines)
      /\ Begins(Only(p, ContentKinds), Only(s, ContentKinds))
  BY OnlyOfBeginning
<1> QED
  BY <1>1, LenProperties DEF ContentLines, Begins

\* The footer is cut where enough is left before it, or not at all.
LEMMA CutFooterIs ==
    ASSUME NEW s \in Seq(Lines)
    PROVE  LET kept == _cut_footer(s) IN
           /\ kept \in Seq(Lines) /\ Begins(kept, s)
           /\ ContentLines(kept) < MinText <=> ContentLines(s) < MinText
<1> DEFINE from == _content_floor(s)
           marks == {i \in DOMAIN s : s[i] = "footer" /\ from # None /\ i - 1 >= from}
           mark == CHOOSE i \in marks : \A k \in marks : i <= k
           enough == {i \in DOMAIN s : ContentLines(SubSeq(s, 1, i)) >= MinText}
           first == CHOOSE i \in enough : \A k \in enough : i <= k
           tail == (Len(s) * 6) \div 10
           kept == _cut_footer(s)
<1>0. Len(s) \in Nat /\ DOMAIN s = 1..Len(s) /\ MinText \in Nat
  BY LenProperties, ExtractAssumption
<1>1. kept = IF marks = {} THEN s ELSE SubSeq(s, 1, mark - 1)
  BY DEF _cut_footer
<1>2. from = IF enough = {} THEN None ELSE IF first >= tail THEN first ELSE tail
  BY DEF _content_floor
<1> HIDE DEF kept, from
<1>3. CASE marks = {}
  <2>1. Begins(s, s)
    BY <1>0 DEF Begins
  <2> QED
    BY <1>1, <1>3, <2>1 DEF kept
<1>4. CASE marks # {}
  <2>1. marks \subseteq Nat
    BY <1>0
  <2>2. \E m \in marks : \A k \in marks : m <= k
    <3> HIDE DEF marks
    <3> QED
      BY <1>4, <2>1, LowestExists
  <2>3. mark \in marks
    <3> HIDE DEF marks
    <3> QED
      BY <2>2
  <2> HIDE DEF mark
  <2>4. mark \in 1..Len(s) /\ from # None /\ mark - 1 >= from
    BY <1>0, <2>3
  <2>5. enough # {}
    BY <1>2, <2>4
  <2>6. enough \subseteq Nat
    BY <1>0
  <2>7. \E m \in enough : \A k \in enough : m <= k
    <3> HIDE DEF enough
    <3> QED
      BY <2>5, <2>6, LowestExists
  <2>8. first \in enough
    <3> HIDE DEF enough
    <3> QED
      BY <2>7
  <2> HIDE DEF first
  <2>9. first \in 1..Len(s) /\ ContentLines(SubSeq(s, 1, first)) >= MinText
    BY <1>0, <2>8
  <2> HIDE DEF marks, enough
  <2>10. tail \in Int
    BY <1>0
  <2> HIDE DEF tail
  <2>11. first <= mark - 1 /\ first \in Nat /\ mark - 1 \in Nat /\ mark - 1 <= Len(s)
         /\ first <= Len(s)
    BY <1>0, <1>2, <2>4, <2>5, <2>9, <2>10
  <2> DEFINE p == SubSeq(s, 1, first)
             q == SubSeq(s, 1, mark - 1)
  <2>12. p \in Seq(Lines) /\ Len(p) = first /\ Begins(p, s)
    BY <2>11, CutIs
  <2>13. q \in Seq(Lines) /\ Len(q) = mark - 1 /\ Begins(q, s)
    BY <2>11, CutIs
  <2> HIDE DEF p, q
  <2>14. Begins(p, q)
    <3>1. \A i \in 1..first : p[i] = s[i] /\ i \in 1..(mark - 1)
      BY <2>11, <2>12 DEF Begins
    <3>2. \A i \in 1..(mark - 1) : q[i] = s[i]
      BY <2>13 DEF Begins
    <3> QED
      BY <2>11, <2>12, <2>13, <3>1, <3>2 DEF Begins
  <2>15. /\ ContentLines(p) \in Nat /\ ContentLines(q) \in Nat
         /\ ContentLines(p) <= ContentLines(q) /\ ContentLines(q) <= ContentLines(s)
    BY <2>12, <2>13, <2>14, ContentGrows
  <2>16. ContentLines(s) \in Nat
    <3>1. Begins(s, s)
      BY <1>0 DEF Begins
    <3> QED
      BY <3>1, ContentGrows
  <2>17. ContentLines(p) >= MinText
    BY <2>9 DEF p
  <2>18. ~ (ContentLines(q) < MinText) /\ ~ (ContentLines(s) < MinText)
    BY <1>0, <2>15, <2>16, <2>17
  <2>19. kept = q
    BY <1>1, <1>4 DEF q
  <2> QED
    BY <2>13, <2>18, <2>19 DEF kept
<1> QED
  BY <1>3, <1>4

\* A cleaned text has as many lines as were left of the content, and its prose begins
\* that of what was cleaned.
LEMMA CleanIs ==
    ASSUME NEW s \in Seq(Lines)
    PROVE  /\ _clean(s) \in Seq(Lines)
           /\ Len(_clean(s)) < MinText <=> ContentLines(Filtered(s)) < MinText
           /\ IsPrefix(Prose(_clean(s)), Prose(s))
<1> DEFINE f == Filtered(s)
           kept == _cut_footer(f)
           prose == {"prose"}
<1>1. f \in Seq(Lines)
  <2>1. Begins(s, s)
    BY LenProperties DEF Begins
  <2> QED
    BY <2>1, OnlyOfBeginning DEF Filtered
<1>2. /\ kept \in Seq(Lines) /\ Begins(kept, f)
      /\ ContentLines(kept) < MinText <=> ContentLines(f) < MinText
  <2> HIDE DEF f
  <2> QED
    BY <1>1, CutFooterIs
<1>3. _clean(s) = Only(kept, ContentKinds)
  BY DEF _clean
<1>4. Only(kept, ContentKinds) \in Seq(Lines) /\ Only(f, prose) \in Seq(Lines)
      /\ Only(kept, prose) \in Seq(Lines)
  <2> HIDE DEF f, kept, prose
  <2>1. Begins(kept, kept) /\ Begins(f, f)
    BY <1>1, <1>2, LenProperties DEF Begins
  <2> QED
    BY <1>1, <1>2, <2>1, OnlyOfBeginning
<1>5. prose \subseteq ContentKinds /\ prose \subseteq Lines \ {"preamble", "url"}
  BY DEF ContentKinds, Lines
<1> HIDE DEF prose
<1>6. Only(f, prose) = Only(s, prose)
  BY <1>5, OnlyOfOnly DEF Filtered
<1> HIDE DEF f, kept
<1>7. Only(Only(kept, ContentKinds), prose) = Only(kept, prose)
  BY <1>2, <1>5, OnlyOfOnly
<1>8. Begins(Only(kept, prose), Only(f, prose))
  BY <1>1, <1>2, OnlyOfBeginning
<1>9. IsPrefix(Only(kept, prose), Only(f, prose))
  BY <1>4, <1>8, BeginsIsPrefix
<1>10. IsPrefix(Prose(_clean(s)), Prose(s))
  BY <1>3, <1>6, <1>7, <1>9 DEF Prose, prose
<1>11. Len(_clean(s)) = ContentLines(kept)
  BY <1>3 DEF ContentLines
<1> QED
  BY <1>2, <1>3, <1>4, <1>10, <1>11 DEF f

\* The links met among the first, one after another
IsMet(f, s, n) ==
    f = [k \in 0..n |->
            IF k = 0 THEN <<>>
            ELSE IF \E i \in 1..Len(f[k - 1]) : f[k - 1][i] = s[k] THEN f[k - 1]
            ELSE Append(f[k - 1], s[k])]
Met(s) == CHOOSE f : IsMet(f, s, Len(s))

LEMMA MetReach ==
    ASSUME NEW S, NEW s \in Seq(S)
    PROVE  \A n \in 0..Len(s) : \E f : IsMet(f, s, n)
<1> DEFINE Bad == {n \in 0..Len(s) : \A f : ~ IsMet(f, s, n)}
           next(before, k) == IF \E i \in 1..Len(before) : before[i] = s[k] THEN before
                              ELSE Append(before, s[k])
<1>0. Len(s) \in Nat
  BY LenProperties
<1>1. SUFFICES ASSUME Bad # {} PROVE FALSE
  BY <1>1
<1>2. Bad \subseteq Nat
  BY <1>0
<1>3. PICK m \in Bad : \A y \in Bad : m <= y
  <2> HIDE DEF Bad
  <2> QED
    BY <1>1, <1>2, LowestExists
<1>4. m \in 0..Len(s) /\ \A f : ~ IsMet(f, s, m)
  BY <1>3
<1>5. m # 0
  <2>1. SUFFICES ASSUME m = 0 PROVE FALSE
    BY <2>1
  <2> DEFINE h == [k \in 0..0 |-> <<>>]
  <2> HIDE DEF next
  <2>2. h = [k \in 0..0 |-> IF k = 0 THEN <<>> ELSE next(h[k - 1], k)]
    OBVIOUS
  <2> QED
    BY <1>4, <2>1, <2>2 DEF IsMet, next
<1>6. m - 1 \in 0..Len(s) /\ m - 1 \in Nat /\ m \in Nat /\ ~ (m <= m - 1)
  BY <1>0, <1>4, <1>5
<1>7. PICK g : IsMet(g, s, m - 1)
  BY <1>3, <1>6
<1> DEFINE h == [k \in 0..m |-> IF k < m THEN g[k] ELSE next(g[m - 1], m)]
<1>9. g = [k \in 0..(m - 1) |-> IF k = 0 THEN <<>> ELSE next(g[k - 1], k)]
  BY <1>7 DEF IsMet
<1> HIDE DEF next
<1>8. \A k \in 0..m : h[k] = IF k = 0 THEN <<>> ELSE next(h[k - 1], k)
  <2> TAKE k \in 0..m
  <2>2. CASE k = 0
    BY <1>5, <1>6, <1>9, <2>2
  <2>3. CASE k # 0 /\ k < m
    <3>1. k \in 0..(m - 1) /\ k - 1 \in 0..m /\ k - 1 < m
      BY <1>6, <2>3
    <3> QED
      BY <1>9, <2>3, <3>1
  <2>4. CASE k = m
    BY <1>5, <1>6, <2>4
  <2> QED
    BY <1>6, <2>2, <2>3, <2>4
<1>10. h = [k \in 0..m |-> IF k = 0 THEN <<>> ELSE next(h[k - 1], k)]
  BY <1>8
<1> QED
  BY <1>4, <1>10 DEF IsMet, next

\* Links are met once each, the first one first.
LEMMA DistinctIs ==
    ASSUME NEW S, NEW s \in Seq(S)
    PROVE  /\ Distinct(s) \in Seq(S)
           /\ \A i, j \in 1..Len(Distinct(s)) : Distinct(s)[i] = Distinct(s)[j] => i = j
           /\ Len(s) > 0 => Len(Distinct(s)) > 0 /\ Distinct(s)[1] = s[1]
<1> DEFINE next(before, k) == IF \E i \in 1..Len(before) : before[i] = s[k] THEN before
                              ELSE Append(before, s[k])
           n == Len(s)
           f == Met(s)
           Once(t) == \A i, j \in 1..Len(t) : t[i] = t[j] => i = j
           Good(k) == /\ f[k] \in Seq(S) /\ Once(f[k])
                      /\ k > 0 => Len(f[k]) > 0 /\ f[k][1] = s[1]
<1>0. n \in Nat /\ n \in 0..n /\ \A i \in 1..n : s[i] \in S
  BY LenProperties, ElementOfSeq
<1>1. \E g : IsMet(g, s, n)
  BY <1>0, MetReach
<1>2. IsMet(Met(s), s, n)
  BY <1>1 DEF Met
<1>3. Distinct(s) = Met(s)[n]
  BY DEF Distinct, Met, IsMet
<1> HIDE DEF f, n
<1>4. f = [k \in 0..n |-> IF k = 0 THEN <<>> ELSE next(f[k - 1], k)]
  BY <1>2 DEF IsMet, f
<1> HIDE DEF next
<1>5. \A k \in 0..n : f[k] = IF k = 0 THEN <<>> ELSE next(f[k - 1], k)
  BY <1>4
<1>6. f[0] = <<>> /\ \A k \in 1..n : f[k] = next(f[k - 1], k)
  BY <1>0, <1>5
<1> DEFINE Bad == {k \in 0..n : ~ Good(k)}
<1>7. 0 \notin Bad
  <2>1. <<>> \in Seq(S) /\ Len(<<>>) = 0
    BY EmptySeq
  <2>2. f[0] \in Seq(S) /\ Len(f[0]) = 0
    BY <1>6, <2>1
  <2>3. 1..Len(f[0]) = {}
    BY <2>2
  <2>4. Once(f[0])
    BY <2>3
  <2>5. Good(0)
    BY <2>2, <2>4
  <2> QED
    BY <2>5
<1>8. \A m \in Bad : m - 1 \in Bad
  <2> TAKE m \in Bad
  <2>1. m \in 1..n /\ m - 1 \in 0..n /\ m \in Nat
    BY <1>0, <1>7
  <2>2. SUFFICES ASSUME Good(m - 1) PROVE Good(m)
    BY <2>1
  <2> DEFINE b == f[m - 1]
             x == s[m]
  <2>3. b \in Seq(S) /\ Once(b) /\ x \in S /\ Len(b) \in Nat
    BY <1>0, <2>1, <2>2, LenProperties
  <2>4. m - 1 > 0 => Len(b) > 0 /\ b[1] = s[1]
    BY <2>2
  <2>5. f[m] = IF \E i \in 1..Len(b) : b[i] = x THEN b ELSE Append(b, x)
    BY <1>6, <2>1 DEF next
  <2>6. m = 1 => b = <<>> /\ x = s[1]
    BY <1>6
  <2> HIDE DEF b, x
  <2>7. CASE \E i \in 1..Len(b) : b[i] = x
    <3>1. f[m] = b
      BY <2>5, <2>7
    <3>2. m # 1
      <4>1. Len(<<>>) = 0
        OBVIOUS
      <4> QED
        BY <2>6, <2>7, <4>1
    <3>3. m - 1 > 0
      BY <2>1, <3>2
    <3> QED
      BY <2>3, <2>4, <3>1, <3>3
  <2>8. CASE ~ \E i \in 1..Len(b) : b[i] = x
    <3> DEFINE t == Append(b, x)
    <3>1. /\ t \in Seq(S) /\ Len(t) = Len(b) + 1 /\ t[Len(b) + 1] = x
          /\ \A i \in 1..Len(b) : t[i] = b[i]
      BY <2>3, AppendProperties
    <3>2. f[m] = t
      BY <2>5, <2>8
    <3> HIDE DEF t
    <3>3. Once(t)
      <4> TAKE i, j \in 1..Len(t)
      <4>1. i \in 1..Len(b) \/ i = Len(b) + 1
        BY <2>3, <3>1
      <4>2. j \in 1..Len(b) \/ j = Len(b) + 1
        BY <2>3, <3>1
      <4> QED
        BY <2>3, <2>8, <3>1, <4>1, <4>2
    <3>4. Len(t) > 0 /\ t[1] = s[1]
      <4>1. CASE m = 1
        <5>1. Len(b) = 0
          BY <2>6, <4>1
        <5> QED
          BY <2>6, <3>1, <4>1, <5>1
      <4>2. CASE m # 1
        <5>1. m - 1 > 0
          BY <2>1, <4>2
        <5> QED
          BY <2>3, <2>4, <3>1, <5>1
      <4> QED
        BY <4>1, <4>2
    <3> QED
      BY <3>1, <3>2, <3>3, <3>4
  <2> QED
    BY <2>7, <2>8
<1>9. Bad = {}
  <2>1. Bad \subseteq 0..n
    OBVIOUS
  <2> HIDE DEF Bad
  <2> QED
    BY <1>0, <1>7, <1>8, <2>1, NoFirst
<1>10. Good(n)
  <2>1. n \notin Bad
    BY <1>9
  <2> QED
    BY <1>0, <2>1
<1> QED
  BY <1>3, <1>10 DEF f, n

\* Merged links are each there once, within the bound, the first of the first part first.
LEMMA MergeIs ==
    ASSUME NEW S, NEW html \in Seq(S), NEW text \in Seq(S)
    PROVE  LET links == merge_links(html, text) IN
           /\ IsInjective(links) /\ Len(links) <= MaxLinks
           /\ html # <<>> => links[1] = html[1]
<1> DEFINE all == html \o text
           d == Distinct(all)
           m == IF Len(d) < MaxLinks THEN Len(d) ELSE MaxLinks
           links == merge_links(html, text)
<1>1. /\ all \in Seq(S) /\ Len(all) = Len(html) + Len(text)
      /\ \A i \in 1..(Len(html) + Len(text)) : all[i] = IF i <= Len(html) THEN html[i]
                                                        ELSE text[i - Len(html)]
  BY ConcatProperties
<1>2. links = SubSeq(d, 1, m)
  BY DEF merge_links
<1> HIDE DEF all
<1>3. /\ d \in Seq(S) /\ \A i, j \in 1..Len(d) : d[i] = d[j] => i = j
      /\ Len(all) > 0 => Len(d) > 0 /\ d[1] = all[1]
  BY <1>1, DistinctIs
<1> HIDE DEF d, links
<1>4. Len(d) \in Nat /\ MaxLinks \in Nat /\ MaxLinks > 0
  BY <1>3, LenProperties, ExtractAssumption
<1>5. m \in Nat /\ m <= Len(d) /\ m <= MaxLinks /\ (Len(d) > 0 => m > 0)
  BY <1>4
<1> HIDE DEF m
<1>6. links \in Seq(S) /\ Len(links) = m /\ \A i \in 1..m : links[i] = d[i]
  BY <1>2, <1>3, <1>5, CutIs DEF Begins
<1>7. DOMAIN links = 1..m
  BY <1>6, LenProperties
<1>8. IsInjective(links)
  <2>1. \A i \in 1..m : i \in 1..Len(d)
    BY <1>4, <1>5
  <2> QED
    BY <1>3, <1>6, <1>7, <2>1 DEF IsInjective
<1>9. ASSUME html # <<>> PROVE links[1] = html[1]
  <2>1. Len(html) \in Nat /\ Len(text) \in Nat
    BY LenProperties
  <2>2. Len(html) > 0
    BY <1>9, <2>1, EmptySeq
  <2>3. all[1] = html[1] /\ Len(all) > 0
    BY <1>1, <2>1, <2>2
  <2> QED
    BY <1>3, <1>5, <1>6, <2>3
<1> QED
  BY <1>5, <1>6, <1>8, <1>9 DEF links

Elements == [tag : Tags \ Void, hidden : BOOLEAN]
LinkAddresses == {"x", "y"}
Parsers == [suppress : Nat, hidden : Seq(Tags), text : Seq(Lines), links : Seq(LinkAddresses),
            fed : Nat]

ExtractTypes ==
    /\ open_ \in Seq(Elements)
    /\ parser \in Parsers
    /\ visible \in [text : Seq(Lines), links : Seq(LinkAddresses)]
    /\ confused \in BOOLEAN
    /\ plain \in PlainParts

\* An element the parser remembers as hidden
Hides(e) == e.hidden /\ e.tag \notin Dropped

\* What the parser remembered as hidden when the first k of the open elements were:
\* each element that hides adds its tag, no other is inside one of its own name, and
\* nothing is remembered exactly where nothing hides.
IsMemory(H, elements) ==
    /\ H[0] = <<>>
    /\ \A k \in 0..Len(elements) :
           /\ H[k] \in Seq(Tags)
           /\ H[k] = <<>> <=> \A i \in 1..k : ~ Hides(elements[i])
    /\ \A k \in 1..Len(elements) :
           /\ H[k] = IF Hides(elements[k]) THEN Append(H[k - 1], elements[k].tag) ELSE H[k - 1]
           /\ ~ elements[k].hidden /\ H[k - 1] # <<>> => Last(H[k - 1]) # elements[k].tag

\* The innermost open element is a dropped one.
InDropped(elements) == Len(elements) > 0 /\ elements[Len(elements)].tag \in Dropped

\* The parser's state follows the elements really open, a dropped one innermost.
Follows(p, elements) ==
    /\ \E H : IsMemory(H, elements) /\ p.hidden = H[Len(elements)]
    /\ p.suppress = IF InDropped(elements) THEN 1 ELSE 0
    /\ \A i \in 1..(Len(elements) - 1) : elements[i].tag \notin Dropped

\* What the parser keeps is what is visible.
ParserSees ==
    Follows(parser, open_) /\ parser.text = visible.text /\ parser.links = visible.links

ExtractInv == ExtractTypes /\ (~ confused => ParserSees) /\ TrimsOnlyTheEnds

LEMMA ExtractStart == ExtractInit => ExtractInv
<1> SUFFICES ASSUME ExtractInit PROVE ExtractInv
  OBVIOUS
<1>1. /\ <<>> \in Seq(Elements) /\ <<>> \in Seq(Tags) /\ <<>> \in Seq(Lines)
      /\ <<>> \in Seq(LinkAddresses) /\ Len(<<>>) = 0
  BY EmptySeq
<1>2. ExtractTypes
  BY <1>1 DEF ExtractInit, ExtractTypes, Parsers
<1>3. Follows(parser, open_)
  <2> DEFINE H == [k \in 0..0 |-> <<>>]
  <2>1. IsMemory(H, <<>>)
    BY <1>1 DEF IsMemory
  <2>2. parser.hidden = H[Len(open_)] /\ open_ = <<>> /\ parser.suppress = 0
    BY <1>1 DEF ExtractInit
  <2> HIDE DEF H
  <2>3. ~ InDropped(<<>>) /\ \A i \in 1..(Len(<<>>) - 1) : FALSE
    BY <1>1 DEF InDropped
  <2> QED
    BY <2>1, <2>2, <2>3 DEF Follows
<1>4. ParserSees
  BY <1>3 DEF ParserSees, ExtractInit
<1>5. TrimsOnlyTheEnds
  BY DEF TrimsOnlyTheEnds, ExtractInit
<1> QED
  BY <1>2, <1>4, <1>5 DEF ExtractInv

\* The parser keeps a line or link where a reader sees one.
LEMMA SeenIs ==
    ASSUME ExtractTypes, Follows(parser, open_)
    PROVE  Seen <=> parser.suppress = 0 /\ parser.hidden = <<>>
<1> DEFINE n == Len(open_)
<1>0. n \in Nat /\ DOMAIN open_ = 1..n /\ n \in 0..n
  BY LenProperties DEF ExtractTypes
<1>1. PICK H : IsMemory(H, open_) /\ parser.hidden = H[n]
  BY DEF Follows
<1>2. parser.hidden = <<>> <=> \A i \in 1..n : ~ Hides(open_[i])
  BY <1>0, <1>1 DEF IsMemory
<1>3. parser.suppress = 0 <=> ~ InDropped(open_)
  BY DEF Follows
<1>4. ~ InDropped(open_) <=> \A i \in 1..n : open_[i].tag \notin Dropped
  <2>1. n > 0 => n \in 1..n
    BY <1>0
  <2>2. \A i \in 1..n : i = n \/ i \in 1..(n - 1)
    <3> HIDE DEF n
    <3> QED
      BY <1>0
  <2>3. \A i \in 1..(n - 1) : open_[i].tag \notin Dropped
    BY DEF Follows
  <2>4. \A i \in 1..n : n > 0
    <3> HIDE DEF n
    <3> QED
      BY <1>0
  <2> QED
    BY <2>1, <2>2, <2>3, <2>4 DEF InDropped
<1> QED
  BY <1>0, <1>2, <1>3, <1>4 DEF Seen, Hides

\* What the three callbacks do to the parser
LEMMA FedIs ==
    ASSUME NEW p \in Parsers
    PROVE  LET q == Fed(p) IN
           /\ q \in Parsers
           /\ q.suppress = p.suppress /\ q.hidden = p.hidden
           /\ q.text = p.text /\ q.links = p.links
BY DEF Fed, Parsers

LEMMA StartTagIs ==
    ASSUME NEW p \in Parsers, NEW tag \in Tags, NEW hidden \in BOOLEAN,
           NEW href \in LinkAddresses
    PROVE  LET q == StartTag(p, tag, hidden, href) IN
           /\ q \in Parsers /\ q.text = p.text
           /\ q.suppress = IF tag \in Dropped THEN p.suppress + 1 ELSE p.suppress
           /\ p.suppress = 0 =>
                  /\ q.links = IF tag = "a" /\ p.hidden = <<>> THEN Append(p.links, href)
                               ELSE p.links
                  /\ q.hidden = IF hidden /\ tag \notin Dropped \cup {"br"}
                                THEN Append(p.hidden, tag) ELSE p.hidden
<1>1. /\ p.links \in Seq(LinkAddresses) /\ p.hidden \in Seq(Tags) /\ p.suppress \in Nat
      /\ p.text \in Seq(Lines) /\ p.fed \in Nat
  BY DEF Parsers
<1>2. Append(p.links, href) \in Seq(LinkAddresses) /\ Append(p.hidden, tag) \in Seq(Tags)
  BY <1>1, AppendProperties
<1>3. "a" \notin Dropped
  BY DEF Dropped
<1> DEFINE q == StartTag(p, tag, hidden, href)
<1>4. CASE tag \in Dropped
  <2>1. q = [p EXCEPT !.suppress = @ + 1]
    BY <1>4 DEF StartTag
  <2>2. p.suppress + 1 \in Nat
    BY <1>1
  <2> HIDE DEF q
  <2>3. q \in Parsers /\ q.links = p.links /\ q.hidden = p.hidden /\ q.text = p.text
        /\ q.suppress = p.suppress + 1
    BY <2>1, <2>2 DEF Parsers
  <2>4. tag # "a" /\ tag \in Dropped \cup {"br"}
    BY <1>3, <1>4
  <2> QED
    BY <1>4, <2>3, <2>4 DEF q
<1>5. CASE tag \notin Dropped /\ p.suppress > 0
  <2>1. q = p
    BY <1>5 DEF StartTag
  <2> QED
    BY <1>1, <1>5, <2>1
<1>6. CASE tag \notin Dropped /\ ~ (p.suppress > 0)
  <2> DEFINE links == IF tag = "a" /\ p.hidden = <<>> THEN Append(p.links, href) ELSE p.links
             behind == IF hidden /\ tag # "br" THEN Append(p.hidden, tag) ELSE p.hidden
  <2>1. q = [p EXCEPT !.links = links, !.hidden = behind]
    BY <1>6 DEF StartTag
  <2>2. links \in Seq(LinkAddresses) /\ behind \in Seq(Tags)
    BY <1>1, <1>2
  <2> HIDE DEF links, behind
  <2>3. q \in Parsers /\ q.links = links /\ q.hidden = behind /\ q.text = p.text
        /\ q.suppress = p.suppress
    BY <2>1, <2>2 DEF Parsers
  <2>4. behind = IF hidden /\ tag \notin Dropped \cup {"br"} THEN Append(p.hidden, tag)
                 ELSE p.hidden
    BY <1>6 DEF behind
  <2> HIDE DEF q
  <2> QED
    BY <1>6, <2>3, <2>4 DEF links, q
<1> QED
  BY <1>1, <1>4, <1>5, <1>6

LEMMA FrontIs ==
    ASSUME NEW S, NEW s \in Seq(S), s # <<>>
    PROVE  /\ Front(s) \in Seq(S) /\ Len(Front(s)) = Len(s) - 1
           /\ \A i \in 1..(Len(s) - 1) : Front(s)[i] = s[i]
           /\ Last(s) = s[Len(s)] /\ Len(s) \in Nat /\ Len(s) > 0
<1>1. Len(s) \in Nat /\ Len(s) > 0
  BY EmptySeq
<1>2. Front(s) = SubSeq(s, 1, Len(s) - 1)
  BY DEF Front
<1>5. PICK n \in Nat : n = Len(s) /\ n > 0
  BY <1>1
<1>6. n - 1 \in Nat /\ n - 1 <= n
  BY <1>5
<1>3. PICK m \in Nat : m = Len(s) - 1 /\ m <= Len(s)
  BY <1>5, <1>6
<1>4. /\ SubSeq(s, 1, m) \in Seq(S) /\ Len(SubSeq(s, 1, m)) = m
      /\ Begins(SubSeq(s, 1, m), s)
  BY <1>3, CutIs
<1>7. \A i \in 1..m : SubSeq(s, 1, m)[i] = s[i]
  BY <1>4 DEF Begins
<1> QED
  BY <1>1, <1>2, <1>3, <1>4, <1>7 DEF Last

LEMMA EndTagIs ==
    ASSUME NEW p \in Parsers, NEW tag \in Tags
    PROVE  LET q == EndTag(p, tag) IN
           /\ q \in Parsers /\ q.text = p.text /\ q.links = p.links
           /\ tag \in Dropped => /\ q.hidden = p.hidden
                                 /\ q.suppress = IF p.suppress > 0 THEN p.suppress - 1 ELSE 0
           /\ tag \notin Dropped =>
                  /\ q.suppress = p.suppress
                  /\ q.hidden = IF p.hidden # <<>> /\ Last(p.hidden) = tag THEN Front(p.hidden)
                                ELSE p.hidden
<1>1. /\ p.links \in Seq(LinkAddresses) /\ p.hidden \in Seq(Tags) /\ p.suppress \in Nat
      /\ p.text \in Seq(Lines) /\ p.fed \in Nat
  BY DEF Parsers
<1>2. p.hidden # <<>> => Front(p.hidden) \in Seq(Tags)
  BY <1>1, FrontIs
<1>3. (IF p.suppress > 0 THEN p.suppress - 1 ELSE 0) \in Nat
  BY <1>1
<1> QED
  BY <1>1, <1>2, <1>3 DEF EndTag, Parsers

LEMMA DataIs ==
    ASSUME NEW p \in Parsers, NEW line \in Lines
    PROVE  LET q == Data(p, line) IN
           /\ q \in Parsers /\ q.links = p.links
           /\ q.suppress = p.suppress /\ q.hidden = p.hidden
           /\ q.text = IF p.suppress > 0 \/ p.hidden # <<>> THEN p.text
                       ELSE Append(p.text, line)
<1>1. p.text \in Seq(Lines) /\ Append(p.text, line) \in Seq(Lines)
  <2>1. p.text \in Seq(Lines)
    BY DEF Parsers
  <2> QED
    BY <2>1, AppendProperties
<1> QED
  BY <1>1 DEF Data, Parsers

\* What is not a message yet has nothing to say of one.
LEMMA Unsent == message' = None => TrimsOnlyTheEnds'
BY DEF TrimsOnlyTheEnds

\* An element that opens is remembered as it hides.
LEMMA OpeningFollows ==
    ASSUME NEW elements \in Seq(Elements), NEW p \in Parsers, Follows(p, elements),
           ~ InDropped(elements), NEW e \in Elements, NEW q \in Parsers,
           ~ e.hidden /\ p.hidden # <<>> => Last(p.hidden) # e.tag,
           q.hidden = IF Hides(e) THEN Append(p.hidden, e.tag) ELSE p.hidden,
           q.suppress = IF e.tag \in Dropped THEN 1 ELSE 0
    PROVE  Follows(q, Append(elements, e))
<1> DEFINE n == Len(elements)
           t == Append(elements, e)
<1>0. /\ t \in Seq(Elements) /\ Len(t) = n + 1 /\ t[n + 1] = e
      /\ \A i \in 1..n : t[i] = elements[i]
      /\ n \in Nat
  BY AppendProperties, LenProperties
<1>1. PICK H : IsMemory(H, elements) /\ p.hidden = H[n]
  BY DEF Follows
<1> DEFINE G == [k \in 0..(n + 1) |-> IF k <= n THEN H[k] ELSE q.hidden]
<1> HIDE DEF t
<1>2. /\ H[0] = <<>>
      /\ \A k \in 0..n :
             H[k] \in Seq(Tags) /\ (H[k] = <<>> <=> \A i \in 1..k : ~ Hides(elements[i]))
      /\ \A k \in 1..n :
             /\ H[k] = IF Hides(elements[k]) THEN Append(H[k - 1], elements[k].tag)
                       ELSE H[k - 1]
             /\ ~ elements[k].hidden /\ H[k - 1] # <<>> => Last(H[k - 1]) # elements[k].tag
  BY <1>1 DEF IsMemory
<1>3. (\A k \in 0..n : G[k] = H[k]) /\ G[n + 1] = q.hidden
  BY <1>0
<1> HIDE DEF G
<1>4. q.hidden \in Seq(Tags)
  BY DEF Parsers
<1>5. q.hidden = <<>> <=> \A i \in 1..(n + 1) : ~ Hides(t[i])
  <2>1. n \in 0..n /\ n + 1 \in 1..(n + 1) /\ \A i \in 1..(n + 1) : i \in 1..n \/ i = n + 1
    BY <1>0
  <2>2. p.hidden = <<>> <=> \A i \in 1..n : ~ Hides(t[i])
    BY <1>0, <1>1, <1>2, <2>1
  <2>3. \A i \in 1..n : i \in 1..(n + 1)
    BY <1>0
  <2>4. Hides(e) => q.hidden # <<>>
    <3>1. p.hidden \in Seq(Tags) /\ e.tag \in Tags
      BY DEF Parsers, Elements
    <3> QED
      BY <3>1, AppendProperties
  <2> QED
    BY <1>0, <2>1, <2>2, <2>3, <2>4
<1>6. \A k \in 0..(n + 1) :
          G[k] \in Seq(Tags) /\ (G[k] = <<>> <=> \A i \in 1..k : ~ Hides(t[i]))
  <2> TAKE k \in 0..(n + 1)
  <2>1. k \in 0..n \/ k = n + 1
    BY <1>0
  <2>2. CASE k \in 0..n
    <3>1. \A i \in 1..k : t[i] = elements[i]
      BY <1>0, <2>2
    <3> QED
      BY <1>2, <1>3, <2>2, <3>1
  <2> QED
    BY <1>3, <1>4, <1>5, <2>1, <2>2
<1>7. \A k \in 1..(n + 1) :
          /\ G[k] = IF Hides(t[k]) THEN Append(G[k - 1], t[k].tag) ELSE G[k - 1]
          /\ ~ t[k].hidden /\ G[k - 1] # <<>> => Last(G[k - 1]) # t[k].tag
  <2> TAKE k \in 1..(n + 1)
  <2>1. k \in 1..n \/ k = n + 1
    BY <1>0
  <2>2. CASE k \in 1..n
    <3>1. k \in 0..n /\ k - 1 \in 0..n
      BY <1>0, <2>2
    <3>2. G[k] = H[k] /\ G[k - 1] = H[k - 1] /\ t[k] = elements[k]
      BY <1>0, <1>3, <2>2, <3>1
    <3> QED
      BY <1>2, <2>2, <3>2
  <2>3. CASE k = n + 1
    <3>1. G[k - 1] = p.hidden
      <4>1. k - 1 = n /\ n \in 0..n
        BY <1>0, <2>3
      <4> QED
        BY <1>1, <1>3, <4>1
    <3>2. G[k] = q.hidden /\ t[k] = e
      BY <1>0, <1>3, <2>3
    <3> QED
      BY <3>1, <3>2
  <2> QED
    BY <2>1, <2>2, <2>3
<1>8. IsMemory(G, t) /\ q.hidden = G[Len(t)]
  <2>1. G[0] = <<>>
    BY <1>0, <1>2, <1>3
  <2> QED
    BY <1>0, <1>3, <1>6, <1>7, <2>1 DEF IsMemory
<1>9. InDropped(t) <=> e.tag \in Dropped
  BY <1>0 DEF InDropped
<1>10. \A i \in 1..(Len(t) - 1) : t[i].tag \notin Dropped
  <2> TAKE i \in 1..(Len(t) - 1)
  <2>1. i \in 1..n /\ t[i] = elements[i]
    BY <1>0
  <2>2. i \in 1..(n - 1) \/ i = n
    BY <1>0, <2>1
  <2>3. n > 0
    BY <1>0, <2>1
  <2> QED
    BY <2>1, <2>2, <2>3 DEF Follows, InDropped
<1> QED
  BY <1>8, <1>9, <1>10 DEF Follows, t

\* An element that closes is forgotten as it was remembered.
LEMMA ClosingFollows ==
    ASSUME NEW elements \in Seq(Elements), elements # <<>>,
           NEW p \in Parsers, Follows(p, elements),
           NEW q \in Parsers, q = Fed(EndTag(p, Last(elements).tag))
    PROVE  Follows(q, Front(elements))
<1> DEFINE n == Len(elements)
           t == Front(elements)
           e == elements[n]
<1>0. /\ t \in Seq(Elements) /\ Len(t) = n - 1 /\ \A i \in 1..(n - 1) : t[i] = elements[i]
      /\ n \in Nat /\ n > 0 /\ Last(elements) = e /\ n \in 1..n
  BY FrontIs
<1> HIDE DEF t
<1>1. e \in Elements /\ e.tag \in Tags
  <2>1. e \in Elements
    BY <1>0, ElementOfSeq
  <2> HIDE DEF e
  <2> QED
    BY <2>1 DEF Elements
<1>2. PICK H : IsMemory(H, elements) /\ p.hidden = H[n]
  BY DEF Follows
<1>3. /\ H[0] = <<>>
      /\ \A k \in 0..n :
             H[k] \in Seq(Tags) /\ (H[k] = <<>> <=> \A i \in 1..k : ~ Hides(elements[i]))
      /\ \A k \in 1..n :
             /\ H[k] = IF Hides(elements[k]) THEN Append(H[k - 1], elements[k].tag)
                       ELSE H[k - 1]
             /\ ~ elements[k].hidden /\ H[k - 1] # <<>> => Last(H[k - 1]) # elements[k].tag
  BY <1>2 DEF IsMemory
<1>4. IsMemory(H, t)
  <2>1. \A k \in 0..(n - 1) : k \in 0..n
    BY <1>0
  <2>2. \A k \in 0..(n - 1) : \A i \in 1..k : t[i] = elements[i]
    BY <1>0
  <2>3. \A k \in 1..(n - 1) : k \in 1..n
    BY <1>0
  <2> QED
    BY <1>0, <1>3, <2>1, <2>2, <2>3 DEF IsMemory
<1>5. /\ q.hidden = EndTag(p, e.tag).hidden
      /\ q.suppress = EndTag(p, e.tag).suppress
  BY <1>0, <1>1, EndTagIs, FedIs
<1>6. q.hidden = H[n - 1]
  <2>1. /\ H[n] = IF Hides(e) THEN Append(H[n - 1], e.tag) ELSE H[n - 1]
        /\ ~ e.hidden /\ H[n - 1] # <<>> => Last(H[n - 1]) # e.tag
    BY <1>0, <1>3
  <2>2. H[n - 1] \in Seq(Tags) /\ H[n] \in Seq(Tags)
    <3>1. n - 1 \in 0..n /\ n \in 0..n
      BY <1>0
    <3> QED
      BY <1>3, <3>1
  <2>3. CASE e.tag \in Dropped
    BY <1>1, <1>2, <1>5, <2>1, <2>3, EndTagIs DEF Hides
  <2>4. CASE e.tag \notin Dropped /\ ~ e.hidden
    BY <1>1, <1>2, <1>5, <2>1, <2>4, EndTagIs DEF Hides
  <2>5. CASE e.tag \notin Dropped /\ e.hidden
    <3> DEFINE h == H[n - 1]
               g == Append(h, e.tag)
    <3>1. H[n] = g
      BY <2>1, <2>5 DEF Hides
    <3> HIDE DEF h
    <3>0. h \in Seq(Tags)
      BY <2>2 DEF h
    <3>2. /\ g \in Seq(Tags) /\ g # <<>> /\ Len(g) = Len(h) + 1 /\ g[Len(h) + 1] = e.tag
          /\ \A i \in 1..Len(h) : g[i] = h[i]
          /\ Len(h) \in Nat
      BY <1>1, <3>0, AppendProperties, LenProperties
    <3> HIDE DEF g
    <3>3. /\ Last(g) = g[Len(g)] /\ Front(g) \in Seq(Tags) /\ Len(Front(g)) = Len(g) - 1
          /\ \A i \in 1..(Len(g) - 1) : Front(g)[i] = g[i]
      BY <3>2, FrontIs
    <3>4. Last(g) = e.tag
      BY <3>2, <3>3
    <3>5. Front(g) = h
      <4>1. Len(Front(g)) = Len(h) /\ \A i \in 1..Len(Front(g)) : Front(g)[i] = h[i]
        BY <3>2, <3>3
      <4> QED
        BY <3>0, <3>3, <4>1, SeqEqual
    <3>6. q.hidden = Front(p.hidden)
      <4>1. EndTag(p, e.tag).hidden = IF p.hidden # <<>> /\ Last(p.hidden) = e.tag
                                      THEN Front(p.hidden) ELSE p.hidden
        BY <1>1, <2>5, EndTagIs
      <4>2. p.hidden = g
        BY <1>2, <3>1
      <4> QED
        BY <1>5, <3>2, <3>4, <4>1, <4>2
    <3> QED
      BY <1>2, <3>1, <3>5, <3>6 DEF h
  <2> QED
    BY <2>3, <2>4, <2>5
<1>7. \A i \in 1..(n - 1) : t[i].tag \notin Dropped
  BY <1>0 DEF Follows
<1>8. ~ InDropped(t) /\ \A i \in 1..(Len(t) - 1) : t[i].tag \notin Dropped
  <2>1. \A i \in 1..(Len(t) - 1) : i \in 1..(n - 1)
    BY <1>0
  <2>2. Len(t) > 0 => Len(t) \in 1..(n - 1)
    BY <1>0
  <2> QED
    BY <1>7, <2>1, <2>2 DEF InDropped
<1>9. q.suppress = 0
  <2>1. p.suppress = IF e.tag \in Dropped THEN 1 ELSE 0
    BY <1>0 DEF Follows, InDropped
  <2>2. CASE e.tag \in Dropped
    BY <1>1, <1>5, <2>1, <2>2, EndTagIs
  <2>3. CASE e.tag \notin Dropped
    BY <1>1, <1>5, <2>1, <2>3, EndTagIs
  <2> QED
    BY <2>2, <2>3
<1> QED
  BY <1>0, <1>4, <1>6, <1>8, <1>9 DEF Follows, t

\* A start tag is seen as a reader sees it, or is one of the three confusions.
LEMMA StartKeeps ==
    ASSUME ExtractInv, NEW tag \in Tags, NEW hidden \in BOOLEAN, NEW href \in LinkAddresses,
           handle_starttag(tag, hidden, href)
    PROVE  ExtractInv'
<1> DEFINE p == StartTag(parser, tag, hidden, href)
           e == [tag |-> tag, hidden |-> hidden]
<1>0. /\ open_ \in Seq(Elements) /\ parser \in Parsers /\ visible.text \in Seq(Lines)
      /\ visible.links \in Seq(LinkAddresses) /\ confused \in BOOLEAN
      /\ visible \in [text : Seq(Lines), links : Seq(LinkAddresses)]
  BY DEF ExtractInv, ExtractTypes
<1>1. /\ parser' = Fed(p)
      /\ visible' = [visible EXCEPT !.links = IF tag = "a" /\ Seen /\ ~ hidden
                                              THEN Append(@, href) ELSE @]
      /\ confused' = (confused \/ Confuses(tag, hidden))
      /\ open_' = IF tag \in Void THEN open_ ELSE Append(open_, e)
      /\ plain' = plain /\ message' = message /\ message = None
      /\ open_ # <<>> => Last(open_).tag \notin Dropped
  BY DEF handle_starttag
<1>2. /\ p \in Parsers /\ p.text = parser.text
      /\ p.suppress = IF tag \in Dropped THEN parser.suppress + 1 ELSE parser.suppress
      /\ parser.suppress = 0 =>
             /\ p.links = IF tag = "a" /\ parser.hidden = <<>> THEN Append(parser.links, href)
                          ELSE parser.links
             /\ p.hidden = IF hidden /\ tag \notin Dropped \cup {"br"}
                           THEN Append(parser.hidden, tag) ELSE parser.hidden
  BY <1>0, StartTagIs
<1> HIDE DEF p
<1>3. /\ parser' \in Parsers
      /\ parser'.suppress = p.suppress /\ parser'.hidden = p.hidden
      /\ parser'.text = p.text /\ parser'.links = p.links
  BY <1>1, <1>2, FedIs
<1>4. tag \notin Void => e \in Elements /\ e.tag = tag /\ e.hidden = hidden
  BY DEF Elements
<1> HIDE DEF e
<1>5. ExtractTypes'
  <2>1. open_' \in Seq(Elements)
    BY <1>0, <1>1, <1>4, AppendProperties
  <2>2. Append(visible.links, href) \in Seq(LinkAddresses)
    BY <1>0, AppendProperties
  <2>3. visible' \in [text : Seq(Lines), links : Seq(LinkAddresses)]
    BY <1>0, <1>1, <2>2
  <2>4. confused' \in BOOLEAN
    BY <1>0, <1>1 DEF Confuses
  <2>5. plain' \in PlainParts
    BY <1>1 DEF ExtractInv, ExtractTypes
  <2> QED
    BY <1>3, <2>1, <2>3, <2>4, <2>5 DEF ExtractTypes
<1>6. ASSUME ~ confused' PROVE ParserSees'
  <2>1. ~ confused /\ ~ Confuses(tag, hidden)
    BY <1>0, <1>1, <1>6
  <2>2. Follows(parser, open_) /\ parser.text = visible.text /\ parser.links = visible.links
    BY <2>1 DEF ExtractInv, ParserSees
  <2>3. ~ InDropped(open_) /\ parser.suppress = 0
    <3>1. ~ InDropped(open_)
      <4>1. Len(<<>>) = 0
        OBVIOUS
      <4> QED
        BY <1>1, <4>1 DEF InDropped, Last
    <3> QED
      BY <2>2, <3>1 DEF Follows
  <2>4. Seen <=> parser.hidden = <<>>
    BY <2>2, <2>3, SeenIs DEF ExtractInv
  <2>5. tag = "a" => ~ hidden
    BY <2>1, <2>3 DEF Confuses
  <2>6. parser'.links = visible'.links
    BY <1>0, <1>1, <1>2, <1>3, <2>2, <2>3, <2>4, <2>5
  <2>7. parser'.text = visible'.text
    BY <1>0, <1>1, <1>2, <1>3, <2>2
  <2>8. Follows(parser', open_')
    <3>1. CASE tag \in Void
      <4>1. parser'.hidden = parser.hidden
        <5>1. hidden => tag = "br"
          BY <2>1, <2>3, <3>1 DEF Confuses
        <5> QED
          BY <1>2, <1>3, <2>3, <5>1
      <4>2. parser'.suppress = parser.suppress
        BY <1>2, <1>3, <3>1 DEF Void, Dropped
      <4> QED
        BY <1>1, <2>2, <3>1, <4>1, <4>2 DEF Follows
    <3>2. CASE tag \notin Void
      <4>1. ~ e.hidden /\ parser.hidden # <<>> => Last(parser.hidden) # e.tag
        BY <1>4, <2>1, <3>2 DEF Confuses
      <4>2. parser'.hidden = IF Hides(e) THEN Append(parser.hidden, e.tag) ELSE parser.hidden
        <5>1. tag # "br"
          BY <3>2 DEF Void
        <5> QED
          BY <1>2, <1>3, <1>4, <2>3, <3>2, <5>1 DEF Hides
      <4>3. parser'.suppress = IF e.tag \in Dropped THEN 1 ELSE 0
        BY <1>2, <1>3, <1>4, <2>3, <3>2
      <4>4. open_' = Append(open_, e)
        BY <1>1, <3>2
      <4> QED
        BY <1>0, <1>3, <1>4, <2>2, <2>3, <3>2, <4>1, <4>2, <4>3, <4>4, OpeningFollows
    <3> QED
      BY <3>1, <3>2
  <2> QED
    BY <2>6, <2>7, <2>8 DEF ParserSees
<1>7. TrimsOnlyTheEnds'
  BY <1>1, Unsent
<1> QED
  BY <1>5, <1>6, <1>7 DEF ExtractInv

\* An end tag closes for the parser what it closes.
LEMMA EndKeeps ==
    ASSUME ExtractInv, handle_endtag
    PROVE  ExtractInv'
<1> DEFINE tag == Last(open_).tag
<1>0. /\ open_ \in Seq(Elements) /\ parser \in Parsers /\ open_ # <<>>
      /\ parser' = Fed(EndTag(parser, tag)) /\ open_' = Front(open_)
      /\ visible' = visible /\ confused' = confused /\ plain' = plain
      /\ message' = message /\ message = None
  BY DEF ExtractInv, ExtractTypes, handle_endtag
<1>1. /\ open_' \in Seq(Elements) /\ Last(open_) = open_[Len(open_)] /\ Len(open_) \in 1..Len(open_)
  BY <1>0, FrontIs
<1>2. tag \in Tags
  <2>1. Last(open_) \in Elements
    BY <1>0, <1>1, ElementOfSeq
  <2> QED
    BY <2>1 DEF Elements
<1> HIDE DEF tag
<1>3. /\ parser' \in Parsers /\ parser'.text = parser.text /\ parser'.links = parser.links
  BY <1>0, <1>2, EndTagIs, FedIs
<1>4. ExtractTypes'
  BY <1>0, <1>1, <1>3 DEF ExtractInv, ExtractTypes
<1>5. ASSUME ~ confused' PROVE ParserSees'
  <2>1. ParserSees
    BY <1>0, <1>5 DEF ExtractInv
  <2>2. Follows(parser', open_')
    BY <1>0, <1>3, <2>1, ClosingFollows DEF ParserSees, tag
  <2> QED
    BY <1>0, <1>3, <2>1, <2>2 DEF ParserSees
<1>6. TrimsOnlyTheEnds'
  BY <1>0, Unsent
<1> QED
  BY <1>4, <1>5, <1>6 DEF ExtractInv

\* A line is kept where a reader sees it.
LEMMA DataKeeps ==
    ASSUME ExtractInv, NEW line \in Lines, handle_data(line)
    PROVE  ExtractInv'
<1>0. /\ open_ \in Seq(Elements) /\ parser \in Parsers
      /\ visible \in [text : Seq(Lines), links : Seq(LinkAddresses)]
      /\ parser' = Fed(Data(parser, line))
      /\ visible' = [visible EXCEPT !.text = IF Seen THEN Append(@, line) ELSE @]
      /\ open_' = open_ /\ confused' = confused /\ plain' = plain
      /\ message' = message /\ message = None
  BY DEF ExtractInv, ExtractTypes, handle_data
<1>1. /\ parser' \in Parsers /\ parser'.links = parser.links
      /\ parser'.suppress = parser.suppress /\ parser'.hidden = parser.hidden
      /\ parser'.text = IF parser.suppress > 0 \/ parser.hidden # <<>> THEN parser.text
                        ELSE Append(parser.text, line)
  BY <1>0, DataIs, FedIs
<1>2. ExtractTypes'
  <2>1. Append(visible.text, line) \in Seq(Lines)
    <3>1. visible.text \in Seq(Lines)
      BY <1>0
    <3> QED
      BY <3>1, AppendProperties
  <2>2. visible' \in [text : Seq(Lines), links : Seq(LinkAddresses)]
    BY <1>0, <2>1
  <2> QED
    BY <1>0, <1>1, <2>2 DEF ExtractInv, ExtractTypes
<1>3. ASSUME ~ confused' PROVE ParserSees'
  <2>1. ParserSees
    BY <1>0, <1>3 DEF ExtractInv
  <2>2. Seen <=> parser.suppress = 0 /\ parser.hidden = <<>>
    BY <2>1, SeenIs DEF ExtractInv, ParserSees
  <2>3. Follows(parser', open_')
    BY <1>0, <1>1, <2>1 DEF ParserSees, Follows
  <2>4. parser.suppress \in Nat
    BY <1>0 DEF Parsers
  <2>5. parser'.text = visible'.text /\ parser'.links = visible'.links
    BY <1>0, <1>1, <2>1, <2>2, <2>4 DEF ParserSees
  <2> QED
    BY <2>3, <2>5 DEF ParserSees
<1>4. TrimsOnlyTheEnds'
  BY <1>0, Unsent
<1> QED
  BY <1>2, <1>3, <1>4 DEF ExtractInv

\* A message keeps its middle and its links.
LEMMA MessageKeeps ==
    ASSUME ExtractInv, extract_newsletter
    PROVE  ExtractInv'
<1> DEFINE body == IF plain # None THEN plain ELSE parser.text
           found == IF plain = None THEN <<>> ELSE find_links(plain)
           links == merge_links(parser.links, found)
           text == _clean(body)
           bad == body = <<>> \/ Len(text) < MinText
<1>0. /\ message' = IF bad THEN [raised |-> TRUE]
                    ELSE [raised |-> FALSE, text |-> text, links |-> links]
      /\ UNCHANGED <<open_, parser, visible, confused, plain>>
  BY DEF extract_newsletter, _body_and_links
<1>1. /\ parser \in Parsers /\ plain \in PlainParts /\ confused \in BOOLEAN
      /\ visible.links \in Seq(LinkAddresses)
  BY DEF ExtractInv, ExtractTypes
<1>2. body \in Seq(Lines)
  BY <1>1, ExtractAssumption DEF Parsers
<1>3. /\ parser.links \in Seq(LinkAddresses \cup {"plain"})
      /\ found \in Seq(LinkAddresses \cup {"plain"})
  <2>1. parser.links \in Seq(LinkAddresses)
    BY <1>1 DEF Parsers
  <2>2. Seq(LinkAddresses) \subseteq Seq(LinkAddresses \cup {"plain"})
    OBVIOUS
  <2>3. CASE plain = None
    BY <2>1, <2>2, <2>3, EmptySeq
  <2>4. CASE plain # None
    <3>1. plain \in Seq(Lines)
      BY <1>2, <2>4
    <3>2. Begins(plain, plain)
      BY <3>1, LenProperties DEF Begins
    <3>3. Len(Only(plain, {"url"})) \in Nat
      BY <3>1, <3>2, OnlyOfBeginning, LenProperties
    <3>4. find_links(plain) \in Seq(LinkAddresses \cup {"plain"})
      <4>1. PICK n \in Nat : n = Len(Only(plain, {"url"}))
        BY <3>3
      <4>2. find_links(plain) = [i \in 1..n |-> "plain"]
        BY <4>1 DEF find_links
      <4> QED
        BY <4>2, IsASeq
    <3> QED
      BY <2>1, <2>2, <2>4, <3>4
  <2> QED
    BY <2>3, <2>4
<1>4. /\ Len(text) < MinText <=> ContentLines(Filtered(body)) < MinText
      /\ IsPrefix(Prose(text), Prose(body))
  <2> HIDE DEF body
  <2> QED
    BY <1>2, CleanIs
<1>5. /\ IsInjective(links) /\ Len(links) <= MaxLinks
      /\ parser.links # <<>> => links[1] = parser.links[1]
  <2> HIDE DEF found
  <2> QED
    BY <1>3, MergeIs
<1>6. ExtractTypes' /\ (~ confused' => ParserSees')
  BY <1>0 DEF ExtractInv, ExtractTypes, ParserSees
<1>7. ~ confused => parser.text = visible.text /\ parser.links = visible.links
  BY DEF ExtractInv, ParserSees
<1>8. ~ confused \/ plain # None => ReaderSees' = body
  BY <1>0, <1>7 DEF ReaderSees
<1> HIDE DEF body, links, text
<1>9. /\ message'.raised <=> bad
      /\ ~ message'.raised => message'.text = text /\ message'.links = links
  BY <1>0
<1>10. TrimsOnlyTheEnds'
  BY <1>0, <1>4, <1>5, <1>7, <1>8, <1>9 DEF TrimsOnlyTheEnds
<1> QED
  BY <1>6, <1>10 DEF ExtractInv

LEMMA ExtractStep == ExtractInv /\ [ExtractNext]_extractVars => ExtractInv'
<1> SUFFICES ASSUME ExtractInv, [ExtractNext]_extractVars PROVE ExtractInv'
  OBVIOUS
<1>1. ASSUME NEW tag \in Tags, NEW hidden \in BOOLEAN, NEW href \in {"x", "y"},
             handle_starttag(tag, hidden, href)
      PROVE  ExtractInv'
  BY <1>1, StartKeeps DEF LinkAddresses
<1>2. CASE handle_endtag
  BY <1>2, EndKeeps
<1>3. ASSUME NEW line \in Lines, handle_data(line) PROVE ExtractInv'
  BY <1>3, DataKeeps
<1>4. CASE extract_newsletter
  BY <1>4, MessageKeeps
<1>5. CASE UNCHANGED extractVars
  BY <1>5 DEF extractVars, ExtractInv, ExtractTypes, ParserSees, TrimsOnlyTheEnds, ReaderSees
<1>6. CASE ExtractNext
  BY <1>1, <1>2, <1>3, <1>4, <1>6 DEF ExtractNext
<1> QED
  BY <1>5, <1>6

LEMMA ExtractUse == ExtractInv => ExtractionIsSound
  BY DEF ExtractInv, ParserSees, ExtractionIsSound, KeepsTheVisible

\* The parser keeps what a reader sees, and of that only the ends are trimmed.
THEOREM ExtractionHolds == ExtractSpec => []ExtractionIsSound
  BY ExtractStart, ExtractStep, ExtractUse, PTL DEF ExtractSpec

(***************************************************************************)
(* Types                                                                   *)
(***************************************************************************)

\* The two histories of the panels are of messages.
HistoriesTyped == skipped \in SUBSET PolledMessages /\ gone \in SUBSET PolledMessages

\* They start so and stay so, and then everything the panels read has its type.
LEMMA PanelsTyped ==
    /\ PanelsInit => HistoriesTyped
    /\ PanelsInv /\ HistoriesTyped /\ [PanelsNext]_panelsVars => HistoriesTyped'
    /\ PanelsInv /\ HistoriesTyped => PanelsTypeOK
<1>1. PanelsInit => HistoriesTyped
  BY DEF PanelsInit, HistoriesTyped
<1>2. PanelsInv /\ HistoriesTyped => PanelsTypeOK
  BY DEF PanelsInv, PanelsTypes, WalkIsOnCourse, HistoriesTyped, PanelsTypeOK, PanelItems
<1>3. ASSUME PanelsInv, HistoriesTyped, [PanelsNext]_panelsVars PROVE HistoriesTyped'
  <2>1. ASSUME NEW j \in Ids PROVE jobrows[j].about \in PolledMessages
    BY <1>3, <2>1, IdsAreNumbers DEF PanelsInv, PanelsTypes
  <2>2. ASSUME UNCHANGED <<skipped, gone>> PROVE HistoriesTyped'
    BY <1>3, <2>2 DEF HistoriesTyped
  <2>3. ASSUME NEW p \in Polls, poll_reads(p) \/ poll_queues(p) PROVE HistoriesTyped'
    BY <2>2, <2>3 DEF poll_reads, poll_queues
  <2>4. ASSUME NEW j \in Ids,
               \/ claim_job(j) \/ job_returns(j) \/ job_gives_up(j)
               \/ extract_lands(j) \/ extract_completes(j)
               \/ enrich_hands_on(j) \/ integrate_lands(j) \/ integrate_completes(j)
        PROVE  HistoriesTyped'
    BY <2>2, <2>4 DEF claim_job, job_returns, job_gives_up, extract_lands, extract_completes,
                      enrich_hands_on, integrate_lands, integrate_completes
  <2>5. ASSUME NEW j \in Ids, extract_skips(j) PROVE HistoriesTyped'
    BY <1>3, <2>1, <2>5 DEF extract_skips, HistoriesTyped
  <2>6. ASSUME NEW j \in Ids, prune(j) PROVE HistoriesTyped'
    BY <1>3, <2>1, <2>6 DEF prune, HistoriesTyped
  <2>7. ASSUME NEW m \in PolledMessages,
               enqueue_integration(m) \/ dismiss_held_source_items(m) \/ grace_ends(m)
        PROVE  HistoriesTyped'
    BY <2>2, <2>7 DEF enqueue_integration, dismiss_held_source_items, grace_ends
  <2>8. CASE admin_overview \/ UNCHANGED panelsVars
    BY <2>2, <2>8 DEF admin_overview, panelsVars
  <2> QED
    BY <1>3, <2>3, <2>4, <2>5, <2>6, <2>7, <2>8 DEF PanelsNext
<1> QED
  BY <1>1, <1>2, <1>3

\* What bounds the numbers of a build: a stage is run only with an attempt left, and
\* what was noted down was the time once.
BuildBounds ==
    /\ clock_b \in 0..MaxClock /\ episode.changed \in 0..clock_b
    /\ \A q \in StepNames : stages[q].attempts <= BuildAttempts
    /\ beats \in [StepNames -> (0..clock_b) \cup {None}]

\* So it starts and stays, and then everything has its type.
LEMMA BuildBounded ==
    /\ BuildInit => BuildBounds
    /\ BuildInv /\ BuildBounds /\ [BuildNext]_buildVars => BuildBounds'
    /\ BuildInv /\ BuildBounds => BuildTypeOK
<1> USE BuildPanelAssumption
<1>0. NoStageJob = [st |-> "none", attempts |-> 0, error |-> FALSE]
  BY DEF NoStageJob
<1>1. ASSUME BuildInit PROVE BuildBounds
  <2>1. \A q \in StepNames : stages[q].attempts = 0
    BY <1>0, <1>1 DEF BuildInit
  <2> QED
    BY <1>1, <2>1 DEF BuildInit, BuildBounds
<1>2. ASSUME BuildInv, BuildBounds PROVE BuildTypeOK
  <2>1. clock_b \in Nat /\ clock_b <= MaxClock
    BY <1>2 DEF BuildBounds
  <2>2. ASSUME NEW q \in StepNames
        PROVE  stages[q] \in [st : {"none", "ready", "running", "failed", "done"},
                              attempts : 0..BuildAttempts, error : BOOLEAN]
    BY <1>2 DEF BuildInv, BuildBounds, StageRows
  <2>3. stages \in [StepNames -> [st : {"none", "ready", "running", "failed", "done"},
                                  attempts : 0..BuildAttempts, error : BOOLEAN]]
    BY <1>2, <2>2 DEF BuildInv
  <2>4. \A n \in 0..clock_b : n \in 0..MaxClock
    BY <2>1
  <2>5. beats \in [StepNames -> (0..MaxClock) \cup {None}] /\ episode.changed \in 0..MaxClock
    BY <1>2, <2>4 DEF BuildBounds
  <2> QED
    BY <1>2, <2>3, <2>5 DEF BuildInv, BuildBounds, BuildTypeOK
<1>3. ASSUME BuildInv, BuildBounds, [BuildNext]_buildVars PROVE BuildBounds'
  <2>1. /\ clock_b \in Nat /\ clock_b <= MaxClock /\ clock_b \in 0..clock_b /\ 0 \in 0..clock_b
        /\ episode.changed \in 0..clock_b
        /\ stages \in [StepNames -> StageRows] /\ beats \in [StepNames -> (0..clock_b) \cup {None}]
        /\ \A q \in StepNames : stages[q].attempts \in Nat /\ stages[q].attempts <= BuildAttempts
    BY <1>3 DEF BuildInv, BuildBounds, StageRows
  \* A step that leaves the clock alone and notes down only the time
  <2>2. ASSUME clock_b' = clock_b, episode'.changed \in {episode.changed, clock_b, 0},
               beats' = beats \/ \E q \in StepNames : beats' = [beats EXCEPT ![q] = clock_b],
               \A q \in StepNames : stages'[q].attempts <= BuildAttempts
        PROVE  BuildBounds'
    BY <2>1, <2>2 DEF BuildBounds
  <2>3. CASE list_episodes \/ _build_progress
    BY <2>1, <2>2, <2>3 DEF list_episodes, _build_progress
  <2>4. CASE build_tick
    <3>1. /\ clock_b' = clock_b + 1 /\ clock_b < MaxClock /\ UNCHANGED <<episode, stages>>
          /\ \E sweep : /\ beats' = [q \in StepNames |-> IF q \in sweep THEN None ELSE beats[q]]
      <4>1. clock_b' = clock_b + 1 /\ clock_b < MaxClock /\ UNCHANGED <<episode, stages>>
        BY <2>4 DEF build_tick
      <4> DEFINE old == {q \in StepNames : beats[q] # None /\ clock_b' - beats[q] > WorkerFresh}
      <4>2. beats' = [q \in StepNames |-> IF q \in old THEN None ELSE beats[q]]
        BY <2>4 DEF build_tick
      <4> HIDE DEF old
      <4> QED
        BY <4>1, <4>2
    <3>2. \A n \in 0..clock_b : n \in 0..clock_b'
      BY <2>1, <3>1
    <3>3. beats' \in [StepNames -> (0..clock_b') \cup {None}]
      BY <2>1, <3>1, <3>2
    <3>4. clock_b' \in 0..MaxClock /\ episode'.changed \in 0..clock_b'
      BY <2>1, <3>1, <3>2
    <3> QED
      BY <2>1, <3>1, <3>3, <3>4 DEF BuildBounds
  <2>5. ASSUME NEW q \in StepNames, record_worker_heartbeat(q) PROVE BuildBounds'
    BY <2>1, <2>2, <2>5 DEF record_worker_heartbeat
  <2>6. ASSUME NEW q \in StepNames, claim_stage(q) PROVE BuildBounds'
    <3>1. stages[q].attempts < BuildAttempts /\ UNCHANGED <<clock_b, episode>>
          /\ beats' = [beats EXCEPT ![q] = clock_b]
          /\ stages' = [stages EXCEPT ![q] = [stages[q] EXCEPT !.st = "running",
                                                     !.attempts = stages[q].attempts + 1]]
      BY <2>6 DEF claim_stage, Set
    <3>2. /\ \A p \in StepNames \ {q} : stages'[p] = stages[p]
          /\ stages'[q].attempts = stages[q].attempts + 1
      BY <2>1, <3>1 DEF StageRows
    <3>3. \A p \in StepNames : stages'[p].attempts <= BuildAttempts
      <4>1. ASSUME NEW p \in StepNames PROVE stages'[p].attempts <= BuildAttempts
        BY <2>1, <3>1, <3>2
      <4> QED
        BY <4>1
    <3>4. episode'.changed = episode.changed
      BY <3>1
    <3> QED
      BY <2>2, <3>1, <3>3, <3>4
  <2>7. ASSUME NEW q \in StepNames,
               stage_lands(q) \/ stage_completes(q) \/ stage_fails(q) \/ sweep_stage(q)
        PROVE  BuildBounds'
    <3>1. UNCHANGED <<clock_b, beats>>
      BY <2>7 DEF stage_lands, stage_completes, stage_fails, sweep_stage
    <3>2. episode'.changed \in {episode.changed, clock_b, 0}
      <4>1. CASE stage_lands(q)
        BY <4>1 DEF stage_lands
      <4>2. CASE stage_completes(q) \/ sweep_stage(q)
        BY <4>2 DEF stage_completes, sweep_stage
      <4>3. CASE stage_fails(q)
        <5>1. episode' = episode \/ episode' = [state |-> "failed", changed |-> clock_b]
          BY <4>3, Zenon DEF stage_fails
        <5> QED
          BY <5>1
      <4> QED
        BY <2>7, <4>1, <4>2, <4>3
    <3>3. \A r \in StageRows : /\ [r EXCEPT !.st = "done"].attempts = r.attempts
                               /\ [r EXCEPT !.st = "ready", !.error = TRUE].attempts = r.attempts
                               /\ [r EXCEPT !.st = "failed", !.error = TRUE].attempts = r.attempts
      BY DEF StageRows
    <3>4. NoStageJob.attempts = 0 /\ [NoStageJob EXCEPT !.st = "ready"].attempts = 0
      BY <1>0
    <3>5. CASE stage_lands(q)
      <4>1. \/ stages' = stages
            \/ \E p : stages' = [stages EXCEPT ![p] = [NoStageJob EXCEPT !.st = "ready"]]
        BY <3>5 DEF stage_lands
      <4>2. \A p \in StepNames : stages'[p].attempts \in {0, stages[p].attempts}
        BY <2>1, <3>4, <4>1
      <4> QED
        BY <2>1, <2>2, <3>1, <3>2, <4>2
    <3>6. CASE stage_completes(q) \/ stage_fails(q) \/ sweep_stage(q)
      <4>1. PICK r : /\ stages' = [stages EXCEPT ![q] = r]
                     /\ r \in {[stages[q] EXCEPT !.st = "done"],
                               [stages[q] EXCEPT !.st = "ready", !.error = TRUE],
                               [stages[q] EXCEPT !.st = "failed", !.error = TRUE], NoStageJob}
        BY <3>6 DEF stage_completes, stage_fails, sweep_stage, Set
      <4>2. r.attempts \in {0, stages[q].attempts}
        <5>1. stages[q] \in StageRows
          BY <2>1
        <5> QED
          BY <3>3, <3>4, <4>1, <5>1
      <4>3. stages'[q] = r /\ \A p \in StepNames \ {q} : stages'[p] = stages[p]
        BY <2>1, <4>1
      <4>4. ASSUME NEW p \in StepNames PROVE stages'[p].attempts \in {0, stages[p].attempts}
        <5>1. CASE p = q
          BY <4>2, <4>3, <5>1
        <5>2. CASE p # q
          BY <4>3, <5>2
        <5> QED
          BY <5>1, <5>2
      <4> QED
        BY <2>1, <2>2, <3>1, <3>2, <4>4
    <3> QED
      BY <2>7, <3>5, <3>6
  <2>8. CASE UNCHANGED buildVars
    BY <2>1, <2>2, <2>8 DEF buildVars
  <2> QED
    BY <1>3, <2>3, <2>4, <2>5, <2>6, <2>7, <2>8 DEF BuildNext
<1> QED
  BY <1>1, <1>2, <1>3

\* The counts of the detector go no further than what they are compared with.
HearBounds ==
    /\ warm \in 0..Warmup /\ turn.run <= Consecutive
    /\ turn.since # None => turn.since <= Refractory
    /\ steady.for \in 0..(SettleTime + 1)

\* So it starts and stays, and then everything has its type.
LEMMA HearBounded ==
    /\ HearInit => HearBounds
    /\ HearInv /\ HearBounds /\ [HearNext]_hearVars => HearBounds'
    /\ HearInv /\ HearBounds => HearTypeOK
<1>0. /\ Warmup \in Nat /\ Consecutive \in Nat \ {0} /\ Refractory \in Nat /\ None \notin Nat
      /\ SettleTime \in Nat
  BY HearingAssumption, StepSizes
<1>1. HearInit => HearBounds
  BY <1>0 DEF HearInit, HearBounds
<1>2. ASSUME HearInv, HearBounds PROVE HearTypeOK
  <2>1. /\ floor \in Nat \cup {None} /\ (floor # None => floor <= MaxLevel + UpTop)
        /\ turn.run \in Nat /\ turn.since \in Nat \cup {None} /\ steady.quiet \in 0..QuietTime
    BY <1>2 DEF HearInv, HearTypes
  <2>2. floor \in {None} \cup 0..(MaxLevel + UpTop)
    BY <2>1, StepSizes
  <2>3. turn.run \in 0..Consecutive /\ turn.since \in {None} \cup 0..Refractory
    BY <1>0, <1>2, <2>1 DEF HearBounds
  <2> QED
    BY <1>2, <2>1, <2>2, <2>3 DEF HearBounds, HearTypeOK, UpTop
<1>3. ASSUME HearInv, HearBounds, [HearNext]_hearVars PROVE HearBounds'
  <2>1. /\ warm \in 0..Warmup /\ turn.run \in Nat /\ turn.run <= Consecutive
        /\ turn.since \in Nat \cup {None} /\ (turn.since # None => turn.since <= Refractory)
        /\ steady.for \in 0..(SettleTime + 1)
        /\ steady = [level |-> steady.level, for |-> steady.for, quiet |-> steady.quiet]
    BY <1>3 DEF HearInv, HearTypes, HearBounds
  <2>2. ASSUME NEW n \in Nat, NEW top \in Nat, n <= top + 1
        PROVE  CapAt(n, top) \in Nat /\ CapAt(n, top) <= top
    BY <2>2 DEF CapAt
  <2>3. ASSUME NEW f \in Frames, NEW in_band \in BOOLEAN, NEW playing \in BOOLEAN,
               hear(f, in_band, playing)
        PROVE  HearBounds'
    <3>1. warm' \in {warm, CapAt(warm + 1, Warmup)}
      BY <2>3 DEF hear
    <3>2. turn'.run \in {0, CapAt(turn.run + 1, Consecutive)}
      BY <2>3 DEF hear
    <3>3. turn'.since \in {None, CapAt(1, Refractory), CapAt(turn.since + 1, Refractory)}
          /\ (turn.since = None => turn'.since \in {None, CapAt(1, Refractory)})
      BY <2>3, Zenon DEF hear
    <3>4. steady'.for \in {0, 1, CapAt(steady.for + 1, SettleTime + 1)}
      BY <2>3 DEF hear
    <3>5. warm' \in 0..Warmup
      BY <1>0, <2>1, <3>1 DEF CapAt
    <3>6. turn'.run <= Consecutive
      BY <1>0, <2>1, <3>2 DEF CapAt
    <3>7. turn'.since # None => turn'.since <= Refractory
      BY <1>0, <2>1, <3>3 DEF CapAt
    <3>8. steady'.for \in 0..(SettleTime + 1)
      BY <1>0, <2>1, <3>4 DEF CapAt
    <3> QED
      BY <3>5, <3>6, <3>7, <3>8 DEF HearBounds
  <2>4. ASSUME NEW t, NEW offset, take_turn(t, offset) PROVE HearBounds'
    BY <1>3, <2>4 DEF take_turn, HearBounds
  <2>5. CASE reset_detector
    <3>1. warm' = 0 /\ turn' = [run |-> 0, since |-> None] /\ steady'.for = 0
      BY <2>1, <2>5 DEF reset_detector
    <3> QED
      BY <1>0, <3>1 DEF HearBounds
  <2>6. CASE UNCHANGED hearVars
    BY <1>3, <2>6 DEF hearVars, HearBounds
  <2> QED
    BY <1>3, <2>3, <2>4, <2>5, <2>6 DEF HearNext
<1> QED
  BY <1>1, <1>2, <1>3

\* What the backlog's invariant says of its types
LEMMA BacklogTyped == BacklogInv => BacklogTypeOK
<1> SUFFICES ASSUME BacklogInv PROVE BacklogTypeOK
  OBVIOUS
<1>1. \A i \in 1..Len(story) : story[i] \in StoryRows
  BY ElementOfSeq DEF BacklogInv
<1>2. think # None => think.window \subseteq 1..Len(story)
  BY DEF BacklogInv, TitlesStand, WindowIsWide
<1> QED
  BY <1>1, <1>2 DEF BacklogInv, BacklogTypeOK, StoryRows

\* What is served keeps its type, whatever is asked and saved.
LEMMA ServingTyped ==
    /\ ServingInit => ServingTypeOK
    /\ ServingTypeOK /\ [ServingNext]_servingVars => ServingTypeOK'
<1> USE DEF ServingTypeOK
<1>1. ServingInit => ServingTypeOK
  BY DEF ServingInit
<1>2. ASSUME ServingTypeOK, [ServingNext]_servingVars PROVE ServingTypeOK'
  <2>1. ASSUME saved' = saved, answered'.of \in {"range", "claims", "cues"} PROVE ServingTypeOK'
    BY <1>2, <2>1
  <2>2. ASSUME NEW store, NEW total, NEW first, NEW final, episode_audio(store, total, first, final)
        PROVE  ServingTypeOK'
    <3>1. saved' = saved /\ \E got : answered' = [of |-> "range", total |-> total, first |-> first,
                                                  last |-> final, got |-> got]
      BY <2>2 DEF episode_audio
    <3> QED
      BY <2>1, <3>1
  <2>3. ASSUME NEW duration, NEW texts, apportion_claim_timings(duration, texts)
        PROVE  ServingTypeOK'
    <3>1. saved' = saved /\ \E weights, spans :
              answered' = [of |-> "claims", duration |-> duration, weights |-> weights, spans |-> spans]
      BY <2>3, Zenon DEF apportion_claim_timings
    <3> QED
      BY <2>1, <3>1
  <2>4. ASSUME NEW duration, NEW words, _split_cue(duration, words) PROVE ServingTypeOK'
    <3>1. saved' = saved /\ \E weights, spans :
              answered' = [of |-> "cues", duration |-> duration, weights |-> weights,
                           words |-> words, spans |-> spans]
      BY <2>4, Zenon DEF _split_cue
    <3> QED
      BY <2>1, <3>1
  <2>5. ASSUME NEW p, NEW of_story, NEW left_at \in 0..2, NEW right_at \in 0..2, NEW note \in BOOLEAN,
               save_highlight(p, of_story, left_at, right_at, note)
        PROVE  ServingTypeOK'
    <3> DEFINE held == {h \in saved : h.passage = p /\ h.start = left_at /\ h.end = right_at}
               noted == note \/ \E h \in held : h.note
               row == [passage |-> p, start |-> left_at, end |-> right_at, story |-> p.story,
                       note |-> noted]
    <3>1. saved' = (saved \ held) \cup {row} /\ answered' = answered
      BY <2>5 DEF save_highlight
    <3>2. noted \in BOOLEAN
      OBVIOUS
    <3> HIDE DEF noted, held
    <3>3. row.start \in Nat /\ row.end \in Nat /\ row.note \in BOOLEAN
      BY <3>2
    <3> QED
      BY <1>2, <3>1, <3>3
  <2>6. ASSUME NEW h, delete_highlight(h) PROVE ServingTypeOK'
    BY <1>2, <2>6 DEF delete_highlight
  <2>7. CASE UNCHANGED servingVars
    BY <1>2, <2>7 DEF servingVars
  <2>8. CASE ServingNext
    <3>1. \/ \E store \in {"signs", "serves", "unanswerable"}, total \in 0..MaxBytes,
                first, final \in Offsets : episode_audio(store, total, first, final)
          \/ \E duration \in 0..MaxMs, n \in 1..MaxParts :
                \E texts \in [1..n -> 0..MaxChars] : apportion_claim_timings(duration, texts)
          \/ \E duration \in 0..MaxMs, n \in 1..MaxParts :
                \E words \in [1..n -> 1..MaxChars] : _split_cue(duration, words)
          \/ \E p \in Passages, of_story \in {q.story : q \in Passages}, left_at, right_at \in 0..2,
                note \in BOOLEAN : save_highlight(p, of_story, left_at, right_at, note)
          \/ \E h \in saved : delete_highlight(h)
      BY <2>8 DEF ServingNext
    <3> QED
      BY <2>2, <2>3, <2>4, <2>5, <2>6, <3>1
  <2> QED
    BY <1>2, <2>7, <2>8
<1> QED
  BY <1>1, <1>2

\* A parser is fed no more callbacks than there may be.
LEMMA ExtractBounded ==
    /\ ExtractInit => parser.fed <= MaxTags
    /\ ExtractInv /\ parser.fed <= MaxTags /\ [ExtractNext]_extractVars => parser'.fed <= MaxTags
    /\ ExtractInv /\ parser.fed <= MaxTags => ExtractTypeOK
<1>1. ExtractInit => parser.fed <= MaxTags
  BY ExtractAssumption DEF ExtractInit
<1>2. ExtractInv /\ parser.fed <= MaxTags => ExtractTypeOK
  BY ExtractAssumption DEF ExtractInv, ExtractTypes, Parsers, Elements, ExtractTypeOK
<1>3. ASSUME ExtractInv, parser.fed <= MaxTags, [ExtractNext]_extractVars
      PROVE  parser'.fed <= MaxTags
  <2>1. MaxTags \in Nat /\ parser \in Parsers /\ parser.fed \in Nat /\ open_ \in Seq(Elements)
    BY <1>3, ExtractAssumption DEF ExtractInv, ExtractTypes, Parsers
  <2>2. ASSUME NEW p \in Parsers, p.fed = parser.fed, parser.fed < MaxTags, parser' = Fed(p)
        PROVE  parser'.fed <= MaxTags
    BY <2>1, <2>2 DEF Fed, Parsers
  <2>3. ASSUME NEW tag \in Tags, NEW hidden \in BOOLEAN, NEW href \in {"x", "y"},
               handle_starttag(tag, hidden, href)
        PROVE  parser'.fed <= MaxTags
    <3>1. StartTag(parser, tag, hidden, href).fed = parser.fed
      BY <2>1 DEF StartTag, Parsers
    <3>2. StartTag(parser, tag, hidden, href) \in Parsers
      BY <2>1, StartTagIs DEF LinkAddresses
    <3>3. parser' = Fed(StartTag(parser, tag, hidden, href)) /\ parser.fed < MaxTags
      BY <2>3 DEF handle_starttag
    <3> QED
      BY <2>2, <3>1, <3>2, <3>3
  <2>4. CASE handle_endtag
    <3>1. open_ # <<>> /\ parser' = Fed(EndTag(parser, Last(open_).tag)) /\ parser.fed < MaxTags
      BY <2>4 DEF handle_endtag
    <3>2. Last(open_).tag \in Tags
      <4>1. Last(open_) = open_[Len(open_)] /\ Len(open_) \in Nat /\ Len(open_) > 0
        BY <2>1, <3>1, FrontIs, Zenon
      <4>2. Len(open_) \in 1..Len(open_)
        BY <4>1
      <4>3. Last(open_) \in Elements
        BY <2>1, <4>1, <4>2, ElementOfSeq
      <4> QED
        BY <4>3 DEF Elements
    <3>3. EndTag(parser, Last(open_).tag).fed = parser.fed
      BY <2>1 DEF EndTag, Parsers
    <3>4. EndTag(parser, Last(open_).tag) \in Parsers
      BY <2>1, <3>2, EndTagIs
    <3> QED
      BY <2>2, <3>1, <3>3, <3>4
  <2>5. ASSUME NEW line \in Lines, handle_data(line) PROVE parser'.fed <= MaxTags
    <3>1. Data(parser, line).fed = parser.fed /\ Data(parser, line) \in Parsers
      BY <2>1, DataIs DEF Data, Parsers
    <3>2. parser' = Fed(Data(parser, line)) /\ parser.fed < MaxTags
      BY <2>5 DEF handle_data
    <3> QED
      BY <2>2, <3>1, <3>2
  <2>6. CASE extract_newsletter \/ UNCHANGED extractVars
    BY <1>3, <2>6 DEF extract_newsletter, extractVars
  <2> QED
    BY <1>3, <2>3, <2>4, <2>5, <2>6 DEF ExtractNext
<1> QED
  BY <1>1, <1>2, <1>3

(***************************************************************************)
(* What a rule chooses                                                     *)
(***************************************************************************)

\* The place of an element of a finite set in an order of it
PlaceIn(S, R, s) == Cardinality({m \in S : <<m, s>> \in R}) + 1
\* In a strict order of all of them no two have the same place, the order of the places
\* is the order, and no place is left empty.
LEMMA PlacesAreFilled ==
    ASSUME NEW S, IsFiniteSet(S), NEW R,
           \A a \in S : <<a, a>> \notin R,
           \A a, b, c \in S : <<a, b>> \in R /\ <<b, c>> \in R => <<a, c>> \in R,
           \A a, b \in S : a # b => <<a, b>> \in R \/ <<b, a>> \in R
    PROVE  /\ \A a \in S : PlaceIn(S, R, a) \in 1..Cardinality(S)
           /\ \A a, b \in S : <<a, b>> \in R <=> PlaceIn(S, R, a) < PlaceIn(S, R, b)
           /\ \A k \in 1..Cardinality(S) : \E s \in S : PlaceIn(S, R, s) = k
<1> DEFINE before(s) == {m \in S : <<m, s>> \in R}
<1>1. Cardinality(S) \in Nat
  BY FS_CardinalityType
<1>2. ASSUME NEW a \in S
      PROVE  /\ IsFiniteSet(before(a)) /\ Cardinality(before(a)) \in Nat
             /\ Cardinality(before(a)) < Cardinality(S)
  <2>1. before(a) \subseteq S /\ a \in S \ before(a)
    OBVIOUS
  <2> HIDE DEF before
  <2>2. IsFiniteSet(before(a)) /\ Cardinality(before(a)) <= Cardinality(S)
        /\ (Cardinality(S) = Cardinality(before(a)) => S = before(a))
    BY <2>1, FS_Subset
  <2>3. Cardinality(before(a)) \in Nat
    BY <2>2, FS_CardinalityType
  <2> QED
    BY <1>1, <2>1, <2>2, <2>3
<1>3. ASSUME NEW a \in S, NEW b \in S, <<a, b>> \in R
      PROVE  Cardinality(before(a)) < Cardinality(before(b))
  <2>1. before(a) \subseteq before(b) /\ a \in before(b) \ before(a)
    BY <1>3
  <2>2. IsFiniteSet(before(b)) /\ Cardinality(before(a)) \in Nat /\ Cardinality(before(b)) \in Nat
    BY <1>2
  <2> HIDE DEF before
  <2>3. Cardinality(before(a)) <= Cardinality(before(b))
        /\ (Cardinality(before(b)) = Cardinality(before(a)) => before(b) = before(a))
    BY <2>1, <2>2, FS_Subset
  <2> QED
    BY <2>1, <2>2, <2>3
<1>4. \A a \in S : PlaceIn(S, R, a) = Cardinality(before(a)) + 1
  BY DEF PlaceIn
<1>5. ASSUME NEW a \in S PROVE PlaceIn(S, R, a) \in 1..Cardinality(S)
  <2>1. Cardinality(before(a)) \in Nat /\ Cardinality(before(a)) < Cardinality(S)
    BY <1>2
  <2> HIDE DEF before
  <2> QED
    BY <1>1, <1>4, <2>1
<1>6. ASSUME NEW a \in S, NEW b \in S PROVE <<a, b>> \in R <=> PlaceIn(S, R, a) < PlaceIn(S, R, b)
  <2> HIDE DEF before
  <2>1. /\ <<a, b>> \in R => Cardinality(before(a)) < Cardinality(before(b))
        /\ <<b, a>> \in R => Cardinality(before(b)) < Cardinality(before(a))
        /\ Cardinality(before(a)) \in Nat /\ Cardinality(before(b)) \in Nat
    BY <1>2, <1>3
  <2>2. /\ PlaceIn(S, R, a) = Cardinality(before(a)) + 1
        /\ PlaceIn(S, R, b) = Cardinality(before(b)) + 1
    BY <1>4
  <2>3. <<a, b>> \in R \/ <<b, a>> \in R \/ a = b
    OBVIOUS
  <2> QED
    BY <2>1, <2>2, <2>3
<1>7. \A k \in 1..Cardinality(S) : \E s \in S : PlaceIn(S, R, s) = k
  <2> DEFINE f == [s \in S |-> PlaceIn(S, R, s)]
             T == 1..Cardinality(S)
  <2>1. \A a, b \in S : f[a] = f[b] => a = b
    <3>1. ASSUME NEW a \in S, NEW b \in S, a # b PROVE PlaceIn(S, R, a) # PlaceIn(S, R, b)
      <4>1. PlaceIn(S, R, a) < PlaceIn(S, R, b) \/ PlaceIn(S, R, b) < PlaceIn(S, R, a)
        BY <1>6, <3>1
      <4>2. PlaceIn(S, R, a) \in Nat /\ PlaceIn(S, R, b) \in Nat
        BY <1>1, <1>5
      <4> QED
        BY <4>1, <4>2
    <3> QED
      BY <3>1
  <2>2. f \in [S -> T]
    BY <1>5
  <2>3. f \in Injection(S, T)
    BY <2>1, <2>2 DEF Injection, IsInjective
  <2>4. IsFiniteSet(T) /\ Cardinality(T) = Cardinality(S)
    <3>1. ASSUME NEW n \in Nat PROVE IsFiniteSet(1..n) /\ Cardinality(1..n) = n
      <4>1. 1 \in Int /\ n \in Int /\ (1 > n => n = 0)
        OBVIOUS
      <4>2. IsFiniteSet(1..n) /\ Cardinality(1..n) = IF 1 > n THEN 0 ELSE n - 1 + 1
        BY <4>1, FS_Interval
      <4> QED
        BY <4>1, <4>2
    <3> QED
      BY <1>1, <3>1, Zenon
  <2> HIDE DEF f, T
  <2>5. f \in Surjection(S, T)
    BY <2>3, <2>4, FS_Injection
  <2>6. \A k \in T : \E s \in S : f[s] = k
    BY <2>5 DEF Surjection
  <2> QED
    BY <2>6 DEF f, T
<1> QED
  BY <1>5, <1>6, <1>7

\* The stories a rule is about
Matching(rule) ==
    {s \in Stories : /\ rule.unread => ~ item[s].read
                     /\ rule.windowed => s \in Fresh
                     /\ rule.only # {} => s \in rule.only}

\* Each ranking is a strict order of the stories.
LEMMA RanksOrder ==
    ASSUME ListeningTypes, NEW rank \in {"oldest", "newest", "coverage"}
    PROVE  /\ \A a \in Stories : ~ Before(rank, a, a)
           /\ \A a, b, c \in Stories : Before(rank, a, b) /\ Before(rank, b, c) => Before(rank, a, c)
           /\ \A a, b \in Stories : a # b => Before(rank, a, b) \/ Before(rank, b, a)
<1>1. \A a \in Stories : a \in Nat /\ item[a].n \in Nat
  BY ListeningAssumption DEF ListeningTypes, StoryStates
<1>2. CASE rank = "oldest"
  BY <1>1, <1>2 DEF Before
<1>3. CASE rank = "newest"
  BY <1>1, <1>3 DEF Before
<1>4. CASE rank = "coverage"
  BY <1>1, <1>4 DEF Before
<1> QED
  BY <1>2, <1>3, <1>4

\* A rule's choice: as many of the stories it is about as it may take, in its order,
\* and none that it passed over comes before one it took.
ChoiceIsBest(rule) ==
    LET chosen == select_for_rule(rule) IN
    /\ Len(chosen) = IF Cardinality(Matching(rule)) < rule.max
                     THEN Cardinality(Matching(rule)) ELSE rule.max
    /\ \A k \in 1..Len(chosen) : chosen[k] \in Matching(rule)
    /\ \A i, j \in 1..Len(chosen) : i < j => Before(rule.rank, chosen[i], chosen[j])
    /\ \A s \in Matching(rule) :
           \/ \E k \in 1..Len(chosen) : chosen[k] = s
           \/ \A k \in 1..Len(chosen) : Before(rule.rank, chosen[k], s)

\* select_for_rule returns the best of the stories its rule is about, in its order.
LEMMA RuleChoosesBest ==
    ASSUME ListeningTypes, NEW rule, rule.max \in Nat,
           rule.rank \in {"oldest", "newest", "coverage"}
    PROVE  ChoiceIsBest(rule)
<1> DEFINE match == Matching(rule)
           R == {p \in Stories \X Stories : Before(rule.rank, p[1], p[2])}
           found == Cardinality(match)
           n == IF found < rule.max THEN found ELSE rule.max
<1>1. match \subseteq Stories /\ IsFiniteSet(match) /\ found \in Nat
  <2>1. match \subseteq Stories
    BY DEF Matching
  <2> HIDE DEF match
  <2> QED
    BY <2>1, ListeningAssumption, FS_Subset, FS_CardinalityType
<1>2. \A a, b \in Stories : <<a, b>> \in R <=> Before(rule.rank, a, b)
  OBVIOUS
<1>3. \A s \in match : {m \in match : Before(rule.rank, m, s)} = {m \in match : <<m, s>> \in R}
  BY <1>1, <1>2
<1>4. select_for_rule(rule) = [k \in 1..n |->
          CHOOSE s \in match : Cardinality({m \in match : Before(rule.rank, m, s)}) + 1 = k]
  BY DEF select_for_rule, Matching
<1> HIDE DEF match, R
<1>5. /\ \A a \in match : <<a, a>> \notin R
      /\ \A a, b, c \in match : <<a, b>> \in R /\ <<b, c>> \in R => <<a, c>> \in R
      /\ \A a, b \in match : a # b => <<a, b>> \in R \/ <<b, a>> \in R
  BY <1>1, <1>2, RanksOrder
<1>6. /\ \A a \in match : PlaceIn(match, R, a) \in 1..found
      /\ \A a, b \in match : <<a, b>> \in R <=> PlaceIn(match, R, a) < PlaceIn(match, R, b)
      /\ \A k \in 1..found : \E s \in match : PlaceIn(match, R, s) = k
  BY <1>1, <1>5, PlacesAreFilled
<1>7. \A s \in match : Cardinality({m \in match : Before(rule.rank, m, s)}) + 1 = PlaceIn(match, R, s)
  BY <1>3 DEF PlaceIn
<1>8. n \in Nat /\ n <= found /\ 1..n \subseteq 1..found
  BY <1>1
<1> DEFINE chosen == [k \in 1..n |->
          CHOOSE s \in match : Cardinality({m \in match : Before(rule.rank, m, s)}) + 1 = k]
<1>9. ASSUME NEW k \in 1..n PROVE chosen[k] \in match /\ PlaceIn(match, R, chosen[k]) = k
  <2>1. \E s \in match : Cardinality({m \in match : Before(rule.rank, m, s)}) + 1 = k
    BY <1>6, <1>7, <1>8
  <2>2. chosen[k] = CHOOSE s \in match : Cardinality({m \in match : Before(rule.rank, m, s)}) + 1 = k
    OBVIOUS
  <2>3. chosen[k] \in match /\ Cardinality({m \in match : Before(rule.rank, m, chosen[k])}) + 1 = k
    BY <2>1, <2>2, Zenon
  <2> QED
    BY <1>7, <2>3
<1>10. Len(chosen) = n
  BY <1>8
<1> HIDE DEF chosen
<1>11. ASSUME NEW i \in 1..n, NEW j \in 1..n, i < j PROVE Before(rule.rank, chosen[i], chosen[j])
  <2>1. chosen[i] \in match /\ chosen[j] \in match
        /\ PlaceIn(match, R, chosen[i]) < PlaceIn(match, R, chosen[j])
    BY <1>9, <1>11
  <2> QED
    BY <1>1, <1>2, <1>6, <2>1
<1>12. ASSUME NEW s \in match
       PROVE  \/ \E k \in 1..n : chosen[k] = s
              \/ \A k \in 1..n : Before(rule.rank, chosen[k], s)
  <2>1. PlaceIn(match, R, s) \in 1..found
    BY <1>6
  <2>2. CASE PlaceIn(match, R, s) \in 1..n
    <3>1. PICK k \in 1..n : k = PlaceIn(match, R, s)
      BY <2>2
    <3>2. chosen[k] \in match /\ PlaceIn(match, R, chosen[k]) = PlaceIn(match, R, s)
      BY <1>9, <3>1
    <3>3. /\ ~ (PlaceIn(match, R, chosen[k]) < PlaceIn(match, R, s))
          /\ ~ (PlaceIn(match, R, s) < PlaceIn(match, R, chosen[k]))
      BY <2>1, <3>2
    <3>4. chosen[k] = s
      BY <1>5, <1>6, <3>2, <3>3
    <3> QED
      BY <3>4
  <2>3. CASE PlaceIn(match, R, s) \notin 1..n
    <3>1. \A k \in 1..n : chosen[k] \in match /\ PlaceIn(match, R, chosen[k]) < PlaceIn(match, R, s)
      BY <1>8, <1>9, <2>1, <2>3
    <3> QED
      BY <1>1, <1>2, <1>6, <3>1
  <2> QED
    BY <2>2, <2>3
<1>13. select_for_rule(rule) = chosen
  BY <1>4 DEF chosen
<1> HIDE DEF n
<1> QED
  BY <1>9, <1>10, <1>11, <1>12, <1>13 DEF ChoiceIsBest, match, found, n

\* Whichever rule an episode is asked for by, and whatever was read, merged or reported
\* meanwhile, select_for_rule would give it the best stories of those it is about.
THEOREM ChoicesAreBest ==
    ListeningSpec => [](\A rule \in ListeningRules : ChoiceIsBest(rule))
<1>1. \A rule \in ListeningRules : rule.rank \in {"oldest", "newest", "coverage"}
  BY DEF ListeningRules, manual, picked, from_json
<1>2. ListeningInv => \A rule \in ListeningRules : ChoiceIsBest(rule)
  BY <1>1, RulesHaveMax, RuleChoosesBest DEF ListeningInv
<1> QED
  BY <1>2, ListeningStart, ListeningStep, PTL DEF ListeningSpec

\* What an episode's row holds: a state, a rule it can be made by while it waits, and
\* segments of stories with a length each.
EpisodeTyped(r) ==
    /\ r.st \in EpisodeStates
    /\ r.st = "pending" => r.rule.rank \in {"oldest", "newest", "coverage"}
    /\ \A k \in 1..Len(r.segs) : r.segs[k] \in [story : Stories, dur : Lengths]
ListeningBounds == \A e \in Episodes : EpisodeTyped(ep[e])

\* A rule orders by one of the three rankings.
LEMMA RulesHaveRank ==
    \A rule \in ListeningRules : rule.rank \in {"oldest", "newest", "coverage"}
  BY DEF ListeningRules, manual, picked, from_json

\* One row changes, and the others are as they were.
LEMMA EpisodesStay ==
    ASSUME ListeningTypes, ListeningBounds, NEW e \in Episodes, NEW r, EpisodeTyped(r),
           ep' = [ep EXCEPT ![e] = r]
    PROVE  ListeningBounds'
<1>1. \A d \in Episodes : ep'[d] = IF d = e THEN r ELSE ep[d]
  BY DEF ListeningTypes
<1> QED
  BY <1>1 DEF ListeningBounds, EpisodeTyped

\* An episode is made of stories its rule chose, and of some of those it was made of.
LEMMA MadeOfStories ==
    ASSUME ListeningInv, ListeningBounds, NEW e \in Episodes, MakingStep(e)
    PROVE  ListeningBounds'
<1>1. ListeningTypes /\ EpisodeOK(ep[e]) /\ EpisodeTyped(ep[e]) /\ IsEpisode(ep[e])
  BY DEF ListeningInv, ListeningTypes, ListeningBounds, EpisodeOK
<1>2. ASSUME NEW rule \in ListeningRules, NEW keep \in BOOLEAN, make_episode(e, rule, keep)
      PROVE  ListeningBounds'
  <2> DEFINE r == [ep[e] EXCEPT !.st = "pending", !.rule = rule, !.keep = keep]
  <2>1. ep' = [ep EXCEPT ![e] = r]
    BY <1>2 DEF make_episode
  <2>2. r.st = "pending" /\ r.rule = rule /\ r.segs = ep[e].segs
    BY <1>1 DEF IsEpisode
  <2> HIDE DEF r
  <2>3. EpisodeTyped(r)
    BY <1>1, <2>2, RulesHaveRank DEF EpisodeTyped, EpisodeStates
  <2> QED
    BY <1>1, <2>1, <2>3, EpisodesStay
<1>3. ASSUME NEW left, NEW st \in {"scripting", "rendering", "ready"}, NEW rule,
             \A k \in 1..Len(left) : left[k] \in [story : Stories, dur : Lengths],
             ep' = [ep EXCEPT ![e] = [ep[e] EXCEPT !.st = st, !.rule = rule, !.segs = left]]
      PROVE  ListeningBounds'
  <2> DEFINE r == [ep[e] EXCEPT !.st = st, !.rule = rule, !.segs = left]
  <2>1. r.st = st /\ r.segs = left
    BY <1>1 DEF IsEpisode
  <2>2. ep' = [ep EXCEPT ![e] = r]
    BY <1>3
  <2> HIDE DEF r
  <2>3. EpisodeTyped(r)
    BY <1>3, <2>1 DEF EpisodeTyped, EpisodeStates
  <2> QED
    BY <1>1, <2>2, <2>3, EpisodesStay
<1>4. CASE choose_stories(e)
  <2> DEFINE rule == ep[e].rule
             stories == select_for_rule(rule)
  <2>1. PICK dur \in Measures(Len(stories)) :
            ep' = [ep EXCEPT ![e].st = "scripting", ![e].rule = None,
                             ![e].segs = _within_cap(Segments(stories, dur))]
    BY <1>4 DEF choose_stories
  <2> DEFINE left == _within_cap(Segments(stories, dur))
  <2>2. ep' = [ep EXCEPT ![e] = [ep[e] EXCEPT !.st = "scripting", !.rule = None, !.segs = left]]
    BY <2>1
  <2>3. rule.max \in Nat /\ rule.rank \in {"oldest", "newest", "coverage"}
    BY <1>1, <1>4 DEF choose_stories, EpisodeOK, EpisodeTyped
  <2>4. ChoiceIsBest(rule)
    BY <1>1, <2>3, RuleChoosesBest
  <2>5. \A k \in 1..Len(stories) : stories[k] \in Stories
    BY <2>4 DEF ChoiceIsBest, Matching
  <2>6. Len(stories) \in Nat
    BY <2>3, ChoosesSome
  <2> HIDE DEF stories
  <2>7. \A k \in 1..Len(left) : /\ k \in 1..Len(stories) /\ dur[k] \in Lengths
                                /\ left[k] = [story |-> stories[k], dur |-> dur[k]]
    BY <2>1, <2>6, TrimmedIsTimed
  <2> HIDE DEF left
  <2>8. ASSUME NEW k \in 1..Len(left) PROVE left[k] \in [story : Stories, dur : Lengths]
    <3>1. /\ stories[k] \in Stories /\ dur[k] \in Lengths
          /\ left[k] = [story |-> stories[k], dur |-> dur[k]]
      BY <2>5, <2>7
    <3> QED
      BY <3>1
  <2> QED
    BY <1>3, <2>2, <2>8
<1>5. ASSUME NEW written \in Scripts(ep[e].segs), handle_script(e, written)
      PROVE  ListeningBounds'
  <2>1. \A k \in 1..Len(ep[e].segs) : ep[e].segs[k].story \in Stories
    BY <1>1 DEF EpisodeTyped
  <2>2. PICK w, dur : /\ Len(w) \in Nat /\ dur \in Measures(Len(w))
                      /\ \A k \in 1..Len(w) : w[k] \in {ep[e].segs[j].story : j \in 1..Len(ep[e].segs)}
                      /\ written = _within_cap(Segments(w, dur))
    <3> DEFINE was == ep[e].segs
    <3>1. Len(was) \in Nat
      BY <1>1 DEF EpisodeOK
    <3>2. written \in Scripts(was)
      BY <1>5
    <3> HIDE DEF was
    <3>3. \E w, dur : /\ Len(w) \in Nat /\ dur \in Measures(Len(w))
                      /\ \A k \in 1..Len(w) : w[k] \in {was[j].story : j \in 1..Len(was)}
                      /\ written = _within_cap(Segments(w, dur))
      BY <3>1, <3>2, ScriptsAre
    <3> QED
      BY <3>3 DEF was
  <2>3. \A k \in 1..Len(w) : w[k] \in Stories
    BY <2>1, <2>2
  <2>4. \A k \in 1..Len(written) : /\ k \in 1..Len(w) /\ dur[k] \in Lengths
                                   /\ written[k] = [story |-> w[k], dur |-> dur[k]]
    BY <2>2, TrimmedIsTimed
  <2>5. ASSUME NEW k \in 1..Len(written) PROVE written[k] \in [story : Stories, dur : Lengths]
    <3>1. /\ w[k] \in Stories /\ dur[k] \in Lengths
          /\ written[k] = [story |-> w[k], dur |-> dur[k]]
      BY <2>3, <2>4
    <3> QED
      BY <3>1
  <2>6. [ep[e] EXCEPT !.st = "rendering", !.segs = written]
            = [ep[e] EXCEPT !.st = "rendering", !.rule = ep[e].rule, !.segs = written]
    BY <1>1 DEF IsEpisode
  <2>7. ep' = [ep EXCEPT ![e] = [ep[e] EXCEPT !.st = "rendering", !.segs = written]]
    BY <1>5 DEF handle_script
  <2> QED
    BY <1>3, <2>5, <2>6, <2>7
<1>6. ASSUME NEW audio \in Measures(Len(ep[e].segs)), handle_tts(e, audio) PROVE ListeningBounds'
  <2> DEFINE out == Measured(ep[e].segs, audio)
  <2>1. ep' = [ep EXCEPT ![e] = [ep[e] EXCEPT !.st = "ready", !.segs = out]]
    BY <1>6 DEF handle_tts, Measured
  <2>2. Len(out) = Len(ep[e].segs)
        /\ \A k \in 1..Len(out) : out[k] = [story |-> ep[e].segs[k].story, dur |-> audio[k]]
    BY <1>1, <1>6, MeasuredIsTimed DEF EpisodeOK
  <2>3. \A k \in 1..Len(ep[e].segs) : ep[e].segs[k].story \in Stories /\ audio[k] \in Lengths
    BY <1>1, <1>6 DEF EpisodeTyped, Measures
  <2> HIDE DEF out
  <2>4. ASSUME NEW k \in 1..Len(out) PROVE out[k] \in [story : Stories, dur : Lengths]
    <3>1. /\ ep[e].segs[k].story \in Stories /\ audio[k] \in Lengths
          /\ out[k] = [story |-> ep[e].segs[k].story, dur |-> audio[k]]
      BY <2>2, <2>3
    <3> QED
      BY <3>1
  <2>5. [ep[e] EXCEPT !.st = "ready", !.segs = out]
            = [ep[e] EXCEPT !.st = "ready", !.rule = ep[e].rule, !.segs = out]
    BY <1>1 DEF IsEpisode
  <2> QED
    BY <1>3, <2>1, <2>4, <2>5
<1>7. CASE episode_failed(e)
  <2> DEFINE r == [ep[e] EXCEPT !.st = "failed", !.rule = None]
  <2>1. ep' = [ep EXCEPT ![e] = r]
    BY <1>7 DEF episode_failed
  <2>2. r.st = "failed" /\ r.segs = ep[e].segs
    BY <1>1 DEF IsEpisode
  <2> HIDE DEF r
  <2>3. EpisodeTyped(r)
    BY <1>1, <2>2 DEF EpisodeTyped, EpisodeStates
  <2> QED
    BY <1>1, <2>1, <2>3, EpisodesStay
<1> QED
  BY <1>2, <1>4, <1>5, <1>6, <1>7 DEF MakingStep

\* Rows are typed from the start, each step keeps them so, and that is their type.
LEMMA ListeningBounded ==
    /\ ListeningInit => ListeningBounds
    /\ ListeningInv /\ ListeningBounds /\ [ListeningNext]_listeningVars => ListeningBounds'
    /\ ListeningInv /\ ListeningBounds => ListeningTypeOK
<1>1. ListeningInit => ListeningBounds
  <2>1. NoEpisode.st = "none" /\ NoEpisode.segs = <<>>
    BY DEF NoEpisode
  <2>2. EpisodeTyped(NoEpisode)
    BY <2>1, EmptySeq DEF EpisodeTyped, EpisodeStates
  <2> QED
    BY <2>2 DEF ListeningInit, ListeningBounds
<1>2. ASSUME ListeningInv, ListeningBounds, [ListeningNext]_listeningVars
      PROVE  ListeningBounds'
  <2>1. ListeningTypes /\ \A e \in Episodes : IsEpisode(ep[e]) /\ EpisodeTyped(ep[e])
    BY <1>2 DEF ListeningInv, ListeningTypes, EpisodeOK, ListeningBounds
  <2>2. ASSUME ep' = ep PROVE ListeningBounds'
    BY <1>2, <2>2 DEF ListeningBounds, EpisodeTyped
  <2>3. ASSUME NEW e \in Episodes, MakingStep(e) PROVE ListeningBounds'
    BY <1>2, <2>3, MadeOfStories
  <2>4. ASSUME NEW e \in Episodes, NEW ms, record_listen_progress(e, ms) PROVE ListeningBounds'
    <3> DEFINE pos == Furthest(ep[e].pos, ms)
               r == [ep[e] EXCEPT !.pos = pos]
    <3>1. ep' = [ep EXCEPT ![e] = r]
      BY <2>4 DEF record_listen_progress
    <3> HIDE DEF pos
    <3>2. r.st = ep[e].st /\ r.rule = ep[e].rule /\ r.segs = ep[e].segs
      BY <2>1 DEF IsEpisode
    <3> HIDE DEF r
    <3>3. EpisodeTyped(r)
      BY <2>1, <3>2 DEF EpisodeTyped
    <3> QED
      BY <1>2, <2>1, <3>1, <3>3, EpisodesStay
  <2>5. ASSUME NEW e \in Episodes, mark_episode_listened(e) PROVE ListeningBounds'
    BY <2>2, <2>5 DEF mark_episode_listened
  <2>6. ASSUME NEW s \in Stories, NEW read \in BOOLEAN, set_news_item_read(s, read)
        PROVE  ListeningBounds'
    BY <2>2, <2>6 DEF set_news_item_read
  <2>7. CASE UNCHANGED listeningVars
    BY <2>2, <2>7 DEF listeningVars
  <2> QED
    BY <1>2, <2>3, <2>4, <2>5, <2>6, <2>7 DEF ListeningNext, MakingStep
<1>3. ListeningInv /\ ListeningBounds => ListeningTypeOK
  BY DEF ListeningInv, ListeningTypes, Histories, ListeningBounds, ListeningTypeOK, EpisodeOK,
         IsEpisode, EpisodeTyped
<1> QED
  BY <1>1, <1>2, <1>3

\* Where the session, its pump and its reader can be; the clock behind its ceiling; the
\* detector's run; how often the channel was reopened; and what the vendor can say.
PlacesTyped ==
    /\ session_at \in {"none", "minted", "open", "over"}
    /\ pump \in {"idle", "engaging", "forwarding", "cancelling"}
    /\ reader_at \in {"idle", "tool"}
Clocks == {c \in [spoken : 0..MaxPos, delivered : 0..MaxPos, playing : BOOLEAN] :
               c.spoken <= c.delivered}
Detectors == [run : 0..SpeechFrames, cooling : BOOLEAN]
VendorEvents == {"started", "stopped", "created", "audio", "tool", "done", "cancelled"}
VoiceBounds ==
    /\ PlacesTyped /\ narr \in Clocks /\ vad \in Detectors
    /\ live.reopens <= MAX_LIVE_REOPENS /\ wire \in Seq(VendorEvents)

\* The clock's operations leave it a clock.
LEMMA ClockOperations ==
    ASSUME NEW c \in Clocks
    PROVE  /\ start(c) \in Clocks /\ pause(c) \in Clocks /\ interrupt(c) \in Clocks
           /\ \A n \in 1..MaxPos : deliver(c, n) \in Clocks
           /\ \A pos \in 0..MaxPos : seek(c, pos) \in Clocks
           /\ \A pos \in (0..MaxPos) \cup {None} : Positioned(c, pos) \in Clocks
<1>0. MaxPos \in Nat /\ c.spoken \in 0..MaxPos /\ c.delivered \in 0..MaxPos
      /\ c.spoken <= c.delivered /\ c.playing \in BOOLEAN
  BY VoiceAssumption DEF Clocks
<1>1. start(c) \in Clocks /\ pause(c) \in Clocks /\ interrupt(c) \in Clocks
  BY DEF Clocks, start, pause, interrupt
<1>2. ASSUME NEW n \in 1..MaxPos PROVE deliver(c, n) \in Clocks
  <2> DEFINE m == Min({MaxPos, c.delivered + n})
  <2>1. m \in {MaxPos, c.delivered + n} /\ m <= MaxPos /\ m <= c.delivered + n
    <3>1. {MaxPos, c.delivered + n} \subseteq Int
      BY <1>0
    <3>2. \E x \in {MaxPos, c.delivered + n} : \A y \in {MaxPos, c.delivered + n} : x <= y
      BY <1>0
    <3> QED
      BY <3>2 DEF Min
  <2>2. m \in 0..MaxPos /\ c.delivered <= m
    BY <1>0, <2>1
  <2>3. deliver(c, n) = [c EXCEPT !.delivered = m]
    BY DEF deliver
  <2> HIDE DEF m
  <2> QED
    BY <1>0, <2>2, <2>3 DEF Clocks
<1>3. ASSUME NEW pos \in 0..MaxPos PROVE seek(c, pos) \in Clocks
  <2> DEFINE m == Max({c.delivered, pos})
  <2>1. m \in {c.delivered, pos} /\ m >= pos
    <3>1. \E x \in {c.delivered, pos} : \A y \in {c.delivered, pos} : x >= y
      BY <1>0
    <3> QED
      BY <3>1 DEF Max
  <2>2. seek(c, pos) = [c EXCEPT !.spoken = pos, !.delivered = m]
    BY DEF seek
  <2>3. m \in 0..MaxPos /\ pos <= m
    BY <1>0, <2>1
  <2> HIDE DEF m
  <2> QED
    BY <1>0, <2>2, <2>3 DEF Clocks
<1>4. \A pos \in (0..MaxPos) \cup {None} : Positioned(c, pos) \in Clocks
  BY <1>3 DEF Positioned
<1> QED
  BY <1>1, <1>2, <1>3, <1>4

\* Every step leaves the clock a clock.
LEMMA ClockStep ==
    ASSUME narr \in Clocks, [VoiceNext]_voiceVars
    PROVE  narr' \in Clocks
<1>1. Silent \in Clocks
  BY VoiceAssumption DEF Silent, Clocks
<1>2. ASSUME NEW c, NEW o, NEW pos \in {0, MaxPos}, _authenticate(c, o, pos)
      PROVE  narr' \in Clocks
  <2>1. pos \in 0..MaxPos
    BY VoiceAssumption
  <2> QED
    BY <1>2, <2>1, ClockOperations DEF _authenticate
<1>3. ASSUME NEW q, NEW o, receive_audio(q, o) PROVE narr' \in Clocks
  BY <1>3, ClockOperations DEF receive_audio, Barge
<1>4. ASSUME NEW o, client_barge_in(o) PROVE narr' \in Clocks
  BY <1>4, ClockOperations DEF client_barge_in, Barge
<1>5. ASSUME NEW o, respond_to_text(o) PROVE narr' \in Clocks
  BY <1>5 DEF respond_to_text
<1>6. ASSUME NEW n \in 1..MaxPos, narration_delivered(n) PROVE narr' \in Clocks
  BY <1>6, ClockOperations DEF narration_delivered
<1>7. ASSUME NEW p \in (0..MaxPos) \cup {None}, narration_paused(p) \/ narration_resumed(p)
      PROVE  narr' \in Clocks
  <2>1. Positioned(narr, p) \in Clocks
    BY <1>7, ClockOperations
  <2> QED
    BY <1>7, <2>1, ClockOperations DEF narration_paused, narration_resumed
<1>8. ASSUME NEW p \in 0..MaxPos, client_reported_position(p) PROVE narr' \in Clocks
  BY <1>8, ClockOperations DEF client_reported_position
<1>9. CASE _settle
  <2>1. narr.spoken < narr.delivered /\ narr' = [narr EXCEPT !.spoken = narr.spoken + 1]
    BY <1>9 DEF _settle
  <2>2. MaxPos \in Nat /\ narr.spoken + 1 \in 0..MaxPos /\ narr.spoken + 1 <= narr.delivered
    BY <2>1, VoiceAssumption DEF Clocks
  <2> QED
    BY <2>1, <2>2 DEF Clocks
<1>10. CASE close_session
  BY <1>1, <1>10 DEF close_session
<1>11. ASSUME NEW a, start_session(a) PROVE narr' \in Clocks
  BY <1>11 DEF start_session
<1>12. CASE engage \/ forward_packet \/ cancel_cut_reply \/ _close_floor_if_silent
  BY <1>12 DEF engage, forward_packet, cancel_cut_reply, _close_floor_if_silent
<1>13. CASE Reader
  BY <1>13 DEF Reader, on_speech_started, on_speech_stopped, on_created, on_audio,
     on_tool_call, tool_output, stream_ends, on_turn_done, Reads
<1>14. CASE vendor_speech_starts \/ vendor_speech_ends \/ vendor_answers \/ vendor_drops
            \/ refractory_over
  BY <1>14 DEF vendor_speech_starts, vendor_speech_ends, vendor_answers, vendor_drops,
     VendorSays, refractory_over
<1>15. CASE UNCHANGED voiceVars
  BY <1>15 DEF voiceVars
<1> QED
  BY <1>2, <1>3, <1>4, <1>5, <1>6, <1>7, <1>8, <1>9, <1>10, <1>11, <1>12, <1>13, <1>14, <1>15
     DEF VoiceNext, ClientFrame

\* Every step leaves the detector's run within what it counts to.
LEMMA DetectorStep ==
    ASSUME vad \in Detectors, [VoiceNext]_voiceVars
    PROVE  vad' \in Detectors
<1>1. Quiet \in Detectors
  BY VoiceAssumption DEF Quiet, Detectors
<1>2. ASSUME NEW q \in BOOLEAN
      PROVE  observe(q) \in Detectors /\ [observe(q) EXCEPT !.cooling = TRUE] \in Detectors
  <2> DEFINE m == Min({SpeechFrames, vad.run + 1})
             r == IF q THEN m ELSE 0
  <2>0. SpeechFrames \in Nat /\ vad.run \in 0..SpeechFrames /\ vad.cooling \in BOOLEAN
    BY VoiceAssumption DEF Detectors
  <2>1. m \in {SpeechFrames, vad.run + 1} /\ m <= SpeechFrames
    <3>1. \E x \in {SpeechFrames, vad.run + 1} : \A y \in {SpeechFrames, vad.run + 1} : x <= y
      BY <2>0
    <3> QED
      BY <3>1 DEF Min
  <2>2. r \in 0..SpeechFrames
    BY <2>0, <2>1
  <2>3. observe(q) = [vad EXCEPT !.run = r]
    BY DEF observe
  <2> HIDE DEF r
  <2> QED
    BY <2>0, <2>2, <2>3 DEF Detectors
<1>3. ASSUME NEW q \in BOOLEAN, NEW o, receive_audio(q, o) PROVE vad' \in Detectors
  BY <1>2, <1>3 DEF receive_audio
<1>4. CASE refractory_over
  BY <1>4 DEF refractory_over, Detectors
<1>5. CASE close_session
  BY <1>1, <1>5 DEF close_session
<1>6. ASSUME NEW o, client_barge_in(o) \/ respond_to_text(o) PROVE vad' \in Detectors
  BY <1>6 DEF client_barge_in, respond_to_text
<1>7. ASSUME NEW n, narration_delivered(n) \/ narration_paused(n) \/ narration_resumed(n)
             \/ client_reported_position(n)
      PROVE  vad' \in Detectors
  BY <1>7 DEF narration_delivered, narration_paused, narration_resumed, client_reported_position
<1>8. ASSUME NEW a, start_session(a) PROVE vad' \in Detectors
  BY <1>8 DEF start_session
<1>9. ASSUME NEW c, NEW o, NEW pos, _authenticate(c, o, pos) PROVE vad' \in Detectors
  BY <1>9 DEF _authenticate
<1>10. CASE engage \/ forward_packet \/ cancel_cut_reply \/ _close_floor_if_silent
  BY <1>10 DEF engage, forward_packet, cancel_cut_reply, _close_floor_if_silent
<1>11. CASE Reader
  BY <1>11 DEF Reader, on_speech_started, on_speech_stopped, on_created, on_audio,
     on_tool_call, tool_output, stream_ends, on_turn_done, Reads
<1>12. CASE vendor_speech_starts \/ vendor_speech_ends \/ vendor_answers \/ vendor_drops
            \/ _settle
  BY <1>12 DEF vendor_speech_starts, vendor_speech_ends, vendor_answers, vendor_drops,
     VendorSays, _settle
<1>13. CASE UNCHANGED voiceVars
  BY <1>13 DEF voiceVars
<1> QED
  BY <1>3, <1>4, <1>5, <1>6, <1>7, <1>8, <1>9, <1>10, <1>11, <1>12, <1>13
     DEF VoiceNext, ClientFrame

\* Every step leaves the session, the pump and the reader where one of them can be.
LEMMA PlacesStep ==
    ASSUME PlacesTyped, [VoiceNext]_voiceVars
    PROVE  PlacesTyped'
<1>1. ASSUME NEW a, start_session(a) PROVE PlacesTyped'
  BY <1>1 DEF start_session, PlacesTyped
<1>2. ASSUME NEW c, NEW o, NEW pos, _authenticate(c, o, pos) PROVE PlacesTyped'
  BY <1>2 DEF _authenticate, PlacesTyped
<1>3. ASSUME NEW o, NEW packet, Barge(o, packet), session_at' = session_at
      PROVE  PlacesTyped'
  <2>1. reader_at' = reader_at \/ reader_at' = "idle"
    BY <1>3 DEF Barge
  <2>2. pump' \in {pump, "engaging", "forwarding", "idle"}
    <3> DEFINE l == [_reopen_if_dropped(o) EXCEPT !.preroll = @ \/ (packet /\ _live_channel)]
    <3>1. \/ pump' = pump
          \/ pump' = CASE ~ l.active -> "engaging"
                       [] l.active /\ packet -> "forwarding"
                       [] OTHER -> "idle"
      BY <1>3, Zenon DEF Barge
    <3> HIDE DEF l
    <3> QED
      BY <3>1
  <2> QED
    BY <1>3, <2>1, <2>2 DEF PlacesTyped
<1>4. ASSUME NEW q, NEW o, receive_audio(q, o) PROVE PlacesTyped'
  <2>1. session_at' = session_at
    BY <1>4 DEF receive_audio
  <2>2. CASE Barge(o, TRUE)
    BY <1>3, <2>1, <2>2
  <2>3. CASE ~ Barge(o, TRUE)
    <3>1. pump' = pump /\ reader_at' = reader_at
      BY <1>4, <2>3 DEF receive_audio
    <3> QED
      BY <2>1, <3>1 DEF PlacesTyped
  <2> QED
    BY <2>2, <2>3
<1>5. ASSUME NEW o, client_barge_in(o) PROVE PlacesTyped'
  BY <1>3, <1>5 DEF client_barge_in
<1>6. ASSUME NEW o, respond_to_text(o) PROVE PlacesTyped'
  <2>1. session_at' = session_at /\ pump' = pump
        /\ (reader_at' = reader_at \/ reader_at' = "idle")
    BY <1>6 DEF respond_to_text
  <2> QED
    BY <2>1 DEF PlacesTyped
<1>7. ASSUME NEW n, narration_delivered(n) \/ narration_paused(n) \/ client_reported_position(n)
      PROVE  PlacesTyped'
  BY <1>7 DEF narration_delivered, narration_paused, client_reported_position, PlacesTyped
<1>8. ASSUME NEW n, narration_resumed(n) PROVE PlacesTyped'
  <2>1. session_at' = session_at /\ reader_at' = reader_at
        /\ (pump' = pump \/ pump' = "cancelling")
    BY <1>8 DEF narration_resumed, disengage
  <2> QED
    BY <2>1 DEF PlacesTyped
<1>9. CASE engage \/ forward_packet \/ cancel_cut_reply \/ _close_floor_if_silent
  BY <1>9 DEF engage, forward_packet, cancel_cut_reply, _close_floor_if_silent, PlacesTyped
<1>10. CASE Reader
  <2>1. session_at' = session_at /\ pump' = pump
        /\ (reader_at' = reader_at \/ reader_at' \in {"idle", "tool"})
    BY <1>10 DEF Reader, on_speech_started, on_speech_stopped, on_created, on_audio,
       on_tool_call, tool_output, stream_ends, on_turn_done, Reads
  <2> QED
    BY <2>1 DEF PlacesTyped
<1>11. CASE vendor_speech_starts \/ vendor_speech_ends \/ vendor_answers \/ vendor_drops
            \/ _settle \/ refractory_over
  BY <1>11 DEF vendor_speech_starts, vendor_speech_ends, vendor_answers, vendor_drops,
     VendorSays, _settle, refractory_over, PlacesTyped
<1>12. CASE close_session
  BY <1>12 DEF close_session, PlacesTyped
<1>13. CASE UNCHANGED voiceVars
  BY <1>13 DEF voiceVars, PlacesTyped
<1> QED
  BY <1>1, <1>2, <1>4, <1>5, <1>6, <1>7, <1>8, <1>9, <1>10, <1>11, <1>12, <1>13
     DEF VoiceNext, ClientFrame

\* A bridge that was not reopened more often than it may be
Few(l) == l \in Bridges /\ l.reopens <= MAX_LIVE_REOPENS

\* What is done to a bridge in place does not reopen it, and a reopening is counted.
LEMMA FewOperations ==
    /\ Few(Bridge) /\ Few(NoBridge)
    /\ \A l : Few(l) => Few(_on_live_failed(l)) /\ Few(_end(l)) /\ Few(Disengaged(l))
    /\ \A l : Few(l) /\ cancel_response(l) => live'.reopens <= MAX_LIVE_REOPENS
    /\ \A l, t : Few(l) /\ forward(l, t) => live'.reopens <= MAX_LIVE_REOPENS
    /\ \A o \in BOOLEAN : Few(live) => Few(_reopen_if_dropped(o))
<1>0. MAX_LIVE_REOPENS \in Nat
  BY VoiceAssumption
<1>1. Few(Bridge) /\ Few(NoBridge)
  <2>1. Bridge \in Bridges /\ NoBridge \in Bridges
    BY FreshIsIdle DEF Idle_bridge
  <2>2. Bridge.reopens = 0 /\ NoBridge.reopens = 0
    BY DEF Bridge, NoBridge
  <2> QED
    BY <1>0, <2>1, <2>2 DEF Few
<1>2. ASSUME NEW l, Few(l) PROVE Few(_on_live_failed(l)) /\ Few(_end(l)) /\ Few(Disengaged(l))
  <2>1. PICK why \in BOOLEAN : why = (vend.up = "refused")
    OBVIOUS
  <2>2. _on_live_failed(l) = [Bridge EXCEPT !.there = "failed", !.final = why,
                                            !.preroll = l.preroll, !.reopens = l.reopens]
    BY <2>1 DEF _on_live_failed
  <2>3. /\ _on_live_failed(l) \in Bridges /\ _on_live_failed(l).reopens = l.reopens
    <3>1. Bridge \in Bridges /\ l.preroll \in BOOLEAN /\ l.reopens \in Nat
      BY <1>1, <1>2 DEF Few, Bridges
    <3> QED
      BY <2>2, <3>1 DEF Bridges
  <2>4. Disengaged(l) \in Bridges /\ Disengaged(l).reopens = l.reopens
    BY <1>2 DEF Few, Disengaged, Bridges
  <2> QED
    BY <1>2, <2>3, <2>4 DEF Few, _end
<1>3. ASSUME NEW l, Few(l), cancel_response(l) PROVE live'.reopens <= MAX_LIVE_REOPENS
  <2>1. live' = [l EXCEPT !.inflight = FALSE]
    BY <1>3 DEF cancel_response
  <2> QED
    BY <1>3, <2>1 DEF Few, Bridges
<1>4. ASSUME NEW l, NEW t, Few(l), forward(l, t) PROVE live'.reopens <= MAX_LIVE_REOPENS
  <2>1. live' = l \/ live' = _on_live_failed(l)
    BY <1>4 DEF forward
  <2> QED
    BY <1>2, <1>4, <2>1 DEF Few
<1>5. ASSUME NEW o \in BOOLEAN, Few(live) PROVE Few(_reopen_if_dropped(o))
  <2>1. CASE ~ Reopens
    BY <1>5, <2>1 DEF _reopen_if_dropped
  <2>2. CASE Reopens
    <3>1. live.preroll \in BOOLEAN /\ live.reopens + 1 \in Nat
          /\ live.reopens + 1 <= MAX_LIVE_REOPENS
      BY <1>0, <1>5, <2>2 DEF Few, Bridges, Reopens
    <3>2. PICK b \in Bridges : b = start_live(o)
      BY <1>1 DEF start_live, Few
    <3>3. _reopen_if_dropped(o) = [b EXCEPT !.preroll = live.preroll,
                                            !.reopens = live.reopens + 1]
      BY <2>2, <3>2 DEF _reopen_if_dropped
    <3> QED
      BY <3>1, <3>2, <3>3 DEF Few, Bridges
  <2> QED
    BY <2>1, <2>2
<1> QED
  BY <1>1, <1>2, <1>3, <1>4, <1>5

\* A barge-in reopens the channel at most as often as it may.
LEMMA BargeIsFew ==
    ASSUME Few(live), NEW o \in BOOLEAN, NEW packet \in BOOLEAN, Barge(o, packet)
    PROVE  live'.reopens <= MAX_LIVE_REOPENS
<1> DEFINE r == _reopen_if_dropped(o)
           l == [r EXCEPT !.preroll = @ \/ (packet /\ _live_channel)]
<1>1. Few(r)
  BY FewOperations
<1>2. PICK b \in BOOLEAN : b = (r.preroll \/ (packet /\ _live_channel))
  OBVIOUS
<1>3. Few(l)
  <2>1. l = [r EXCEPT !.preroll = b]
    BY <1>2
  <2> HIDE DEF l, r
  <2> QED
    BY <1>1, <1>2, <2>1 DEF Few, Bridges
<1>4. live' = l \/ live' = _on_live_failed(l)
  BY DEF Barge
<1> HIDE DEF l
<1> QED
  BY <1>3, <1>4, FewOperations DEF Few

\* The bridge changed in fields that do not count
LEMMA StaysFew ==
    ASSUME Few(live), NEW l, l.reopens = live.reopens
    PROVE  l.reopens <= MAX_LIVE_REOPENS
  BY DEF Few

\* Every step leaves the channel reopened at most as often as it may be.
LEMMA ReopensStep ==
    ASSUME BridgeInv, Few(live), [VoiceNext]_voiceVars
    PROVE  live'.reopens <= MAX_LIVE_REOPENS
<1>0. live \in Bridges /\ live.reopens <= MAX_LIVE_REOPENS /\ Few(Disengaged(live))
  BY FewOperations DEF Few
<1>1. ASSUME live' = live PROVE live'.reopens <= MAX_LIVE_REOPENS
  BY <1>0, <1>1
<1>2. ASSUME NEW c, NEW o, NEW pos, _authenticate(c, o, pos)
      PROVE  live'.reopens <= MAX_LIVE_REOPENS
  BY <1>0, <1>2, FewOperations DEF _authenticate, start_live, Few
<1>3. ASSUME NEW q \in BOOLEAN, NEW o \in BOOLEAN, receive_audio(q, o)
      PROVE  live'.reopens <= MAX_LIVE_REOPENS
  <2>1. CASE Barge(o, TRUE)
    BY <2>1, BargeIsFew
  <2>2. CASE ~ Barge(o, TRUE)
    <3> DEFINE l == [live EXCEPT !.preroll = @ \/ _live_channel, !.active = @ /\ _live_channel]
    <3>1. forward(l, trace)
      BY <1>3, <2>2 DEF receive_audio
    <3>2. PICK b \in BOOLEAN : b = (live.preroll \/ _live_channel)
      OBVIOUS
    <3>3. PICK a \in BOOLEAN : a = (live.active /\ _live_channel)
      OBVIOUS
    <3>4. l = [live EXCEPT !.preroll = b, !.active = a]
      BY <3>2, <3>3
    <3> HIDE DEF l
    <3>5. l \in Bridges /\ l.reopens = live.reopens
      <4>1. l \in Bridges
        BY <1>0, <3>4 DEF Bridges
      <4>2. l.reopens = live.reopens
        BY <1>0, <3>4 DEF Bridges
      <4> QED
        BY <4>1, <4>2
    <3>6. Few(l)
      BY <1>0, <3>5 DEF Few
    <3> QED
      BY <3>1, <3>6, FewOperations
  <2> QED
    BY <2>1, <2>2
<1>4. ASSUME NEW o \in BOOLEAN, client_barge_in(o) PROVE live'.reopens <= MAX_LIVE_REOPENS
  BY <1>4, BargeIsFew DEF client_barge_in
<1>5. ASSUME NEW o \in BOOLEAN, respond_to_text(o) PROVE live'.reopens <= MAX_LIVE_REOPENS
  <2> DEFINE l == _reopen_if_dropped(o)
  <2>1. Few(l) /\ Few(_on_live_failed(l))
    BY FewOperations
  <2>2. \/ live' = l \/ live' = _on_live_failed(l)
        \/ live' = [l EXCEPT !.owed = TRUE, !.asked = TRUE, !.started = FALSE,
                             !.guard = FALSE, !.inflight = TRUE]
    BY <1>5 DEF respond_to_text
  <2> HIDE DEF l
  <2> QED
    BY <2>1, <2>2 DEF Few, Bridges
<1>6. ASSUME NEW n, narration_resumed(n) PROVE live'.reopens <= MAX_LIVE_REOPENS
  <2>1. CASE disengage
    BY <1>0, <2>1, FewOperations DEF disengage, Few
  <2>2. CASE ~ disengage
    BY <1>1, <1>6, <2>2 DEF narration_resumed
  <2> QED
    BY <2>1, <2>2
<1>7. CASE engage
  <2> DEFINE l == [live EXCEPT !.active = TRUE, !.owed = TRUE, !.started = FALSE,
                               !.spoke = FALSE, !.asked = FALSE, !.guard = TRUE,
                               !.preroll = FALSE]
  <2>1. Few(l)
    <3>1. l \in Bridges
      BY <1>0 DEF Bridges
    <3>2. l.reopens = live.reopens
      BY <1>0 DEF Bridges
    <3> HIDE DEF l
    <3> QED
      BY <1>0, <3>1, <3>2 DEF Few
  <2>2. forward(l, trace) \/ live' = l \/ live' = live
    BY <1>7 DEF engage
  <2> HIDE DEF l
  <2> QED
    BY <1>1, <2>1, <2>2, FewOperations DEF Few
<1>8. CASE forward_packet
  <2> DEFINE l == [live EXCEPT !.active = @ /\ _live_channel]
  <2>1. PICK a \in BOOLEAN : a = (live.active /\ _live_channel)
    OBVIOUS
  <2>2. l = [live EXCEPT !.active = a] /\ forward(l, trace)
    BY <1>8, <2>1 DEF forward_packet
  <2> HIDE DEF l
  <2>3. Few(l)
    BY <1>0, <2>1, <2>2 DEF Few, Bridges
  <2> QED
    BY <2>2, <2>3, FewOperations
<1>9. CASE cancel_cut_reply
  <2>1. cancel_response(live) \/ live' = _on_live_failed(live)
    BY <1>9 DEF cancel_cut_reply
  <2> QED
    BY <2>1, FewOperations DEF Few
<1>10. CASE _close_floor_if_silent
  <2>1. \/ cancel_response(Disengaged(live)) \/ live' = Disengaged(live)
        \/ live' = [live EXCEPT !.guard = FALSE]
    BY <1>10 DEF _close_floor_if_silent
  <2> QED
    BY <1>0, <2>1, FewOperations DEF Few, Bridges
<1>11. CASE on_speech_started \/ on_speech_stopped \/ on_created \/ on_audio \/ on_tool_call
            \/ tool_output \/ stream_ends
  <2>1. \/ live' = live \/ live' = _end(live)
        \/ live' = [live EXCEPT !.spoke = TRUE, !.talking = TRUE, !.guard = FALSE,
                                !.started = FALSE]
        \/ live' = [live EXCEPT !.talking = FALSE] \/ live' = [live EXCEPT !.inflight = TRUE]
        \/ live' = [live EXCEPT !.started = TRUE]
        \/ live' = [live EXCEPT !.follow = TRUE, !.tools = 1]
        \/ live' = [live EXCEPT !.tools = 0, !.inflight = TRUE]
    BY <1>11 DEF on_speech_started, on_speech_stopped, on_created, on_audio,
       on_tool_call, tool_output, stream_ends
  <2>2. Few(_end(live))
    BY FewOperations
  <2> QED
    BY <1>0, <2>1, <2>2 DEF Few, Bridges
<1>12. ASSUME NEW c, on_turn_done(c) PROVE live'.reopens <= MAX_LIVE_REOPENS
  <2> DEFINE l == [live EXCEPT !.inflight = FALSE, !.follow = FALSE]
  <2>1. live' = l \/ live' = [l EXCEPT !.active = FALSE, !.owed = FALSE, !.guard = FALSE,
                                       !.started = FALSE]
    BY <1>12 DEF on_turn_done
  <2>2. l \in Bridges /\ l.reopens = live.reopens
    BY <1>0 DEF Bridges
  <2> HIDE DEF l
  <2>3. live'.reopens = live.reopens
    BY <2>1, <2>2 DEF Bridges
  <2> QED
    BY <1>0, <2>3
<1>13. CASE close_session
  BY <1>13, FewOperations DEF close_session, Few
<1>14. ASSUME NEW n, narration_delivered(n) \/ narration_paused(n) \/ client_reported_position(n)
       PROVE  live'.reopens <= MAX_LIVE_REOPENS
  BY <1>1, <1>14 DEF narration_delivered, narration_paused, client_reported_position
<1>15. CASE vendor_speech_starts \/ vendor_speech_ends \/ vendor_answers \/ vendor_drops
            \/ _settle \/ refractory_over
  BY <1>1, <1>15 DEF vendor_speech_starts, vendor_speech_ends, vendor_answers, vendor_drops,
     VendorSays, _settle, refractory_over
<1>16. ASSUME NEW a, start_session(a) PROVE live'.reopens <= MAX_LIVE_REOPENS
  BY <1>1, <1>16 DEF start_session
<1>17. CASE UNCHANGED voiceVars
  BY <1>1, <1>17 DEF voiceVars
<1> QED
  BY <1>2, <1>3, <1>4, <1>5, <1>6, <1>7, <1>8, <1>9, <1>10, <1>11, <1>12, <1>13, <1>14, <1>15,
     <1>16, <1>17 DEF VoiceNext, ClientFrame, Reader

\* Every step leaves on the wire what the vendor can say.
LEMMA WireStep ==
    ASSUME wire \in Seq(VendorEvents), [VoiceNext]_voiceVars
    PROVE  wire' \in Seq(VendorEvents)
<1> DEFINE Typed == wire' \in Seq(VendorEvents)
<1>1. ASSUME wire' = wire \/ wire' = <<>> PROVE Typed
  <2>1. <<>> \in Seq(VendorEvents)
    OBVIOUS
  <2> QED
    BY <1>1, <2>1
<1>2. ASSUME NEW l, cancel_response(l) PROVE Typed
  <2>1. wire' = wire \/ wire' = Append(wire, "cancelled")
    BY <1>2 DEF cancel_response
  <2> QED
    BY <2>1 DEF VendorEvents
<1>3. ASSUME NEW e, Reads(e) PROVE Typed
  BY <1>3 DEF Reads
<1>4. ASSUME NEW s \in Seq(VendorEvents), VendorSays(s) PROVE Typed
  BY <1>4 DEF VendorSays
<1>5. ASSUME NEW o, NEW packet, Barge(o, packet) PROVE Typed
  BY <1>1, <1>5 DEF Barge
<1>6. ASSUME NEW q, NEW o, receive_audio(q, o) PROVE Typed
  BY <1>1, <1>5, <1>6 DEF receive_audio
<1>7. ASSUME NEW o, client_barge_in(o) \/ respond_to_text(o) PROVE Typed
  BY <1>1, <1>5, <1>7 DEF client_barge_in, respond_to_text
<1>8. ASSUME NEW n, narration_delivered(n) \/ narration_paused(n) \/ client_reported_position(n)
      PROVE  Typed
  BY <1>1, <1>8 DEF narration_delivered, narration_paused, client_reported_position
<1>9. ASSUME NEW n, narration_resumed(n) PROVE Typed
  BY <1>1, <1>2, <1>9 DEF narration_resumed, disengage
<1>10. CASE engage \/ forward_packet \/ refractory_over \/ _settle \/ close_session
  BY <1>1, <1>10 DEF engage, forward_packet, refractory_over, _settle, close_session
<1>11. CASE cancel_cut_reply \/ _close_floor_if_silent
  BY <1>1, <1>2, <1>11 DEF cancel_cut_reply, _close_floor_if_silent
<1>12. CASE Reader
  BY <1>1, <1>3, <1>12 DEF Reader, on_speech_started, on_speech_stopped, on_created, on_audio,
     on_tool_call, tool_output, stream_ends, on_turn_done
<1>13. CASE vendor_speech_starts
  <2>1. <<"started">> \o <<"cancelled">> \in Seq(VendorEvents)
        /\ <<"started">> \o <<>> \in Seq(VendorEvents)
    BY DEF VendorEvents
  <2>2. (<<"started">> \o IF vend.answering THEN <<"cancelled">> ELSE <<>>) \in Seq(VendorEvents)
    BY <2>1
  <2> QED
    BY <1>4, <1>13, <2>2 DEF vendor_speech_starts
<1>14. CASE vendor_speech_ends
  <2>1. <<"stopped", "created">> \in Seq(VendorEvents)
    BY DEF VendorEvents
  <2> QED
    BY <1>4, <1>14, <2>1 DEF vendor_speech_ends
<1>15. CASE vendor_answers
  <2>1. /\ <<"audio">> \in Seq(VendorEvents) /\ <<"tool", "done">> \in Seq(VendorEvents)
        /\ <<"done">> \in Seq(VendorEvents)
    BY DEF VendorEvents
  <2> QED
    BY <1>4, <1>15, <2>1 DEF vendor_answers
<1>16. CASE vendor_drops
  BY <1>1, <1>16 DEF vendor_drops
<1>17. ASSUME NEW a, start_session(a) PROVE Typed
  BY <1>1, <1>17 DEF start_session
<1>18. ASSUME NEW c, NEW o, NEW pos, _authenticate(c, o, pos) PROVE Typed
  BY <1>1, <1>18 DEF _authenticate
<1>19. CASE UNCHANGED voiceVars
  BY <1>1, <1>19 DEF voiceVars
<1> QED
  BY <1>6, <1>7, <1>8, <1>9, <1>10, <1>11, <1>12, <1>13, <1>14, <1>15, <1>16, <1>17, <1>18, <1>19
     DEF VoiceNext, ClientFrame

\* A session is within its bounds from the start, each step keeps it so, and that is its type.
LEMMA VoiceBounded ==
    /\ VoiceInit => VoiceBounds
    /\ VoiceInv /\ VoiceBounds /\ [VoiceNext]_voiceVars => VoiceBounds'
    /\ VoiceInv /\ VoiceBounds => VoiceTypeOK
<1>1. VoiceInit => VoiceBounds
  <2>1. Silent \in Clocks /\ Quiet \in Detectors
    BY VoiceAssumption DEF Silent, Clocks, Quiet, Detectors
  <2>2. NoBridge.reopens <= MAX_LIVE_REOPENS
    BY FewOperations DEF Few
  <2> QED
    BY <2>1, <2>2 DEF VoiceInit, VoiceBounds, PlacesTyped
<1>2. ASSUME VoiceInv, VoiceBounds, [VoiceNext]_voiceVars PROVE VoiceBounds'
  <2>1. BridgeInv /\ Few(live)
    BY <1>2 DEF VoiceInv, BridgeInv, BridgeIsSound, VoiceBounds, Few
  <2>2. PlacesTyped'
    BY <1>2, PlacesStep DEF VoiceBounds
  <2>3. narr' \in Clocks
    BY <1>2, ClockStep DEF VoiceBounds
  <2>4. vad' \in Detectors
    BY <1>2, DetectorStep DEF VoiceBounds
  <2>5. live'.reopens <= MAX_LIVE_REOPENS
    BY <1>2, <2>1, ReopensStep
  <2>6. wire' \in Seq(VendorEvents)
    BY <1>2, WireStep DEF VoiceBounds
  <2> QED
    BY <2>2, <2>3, <2>4, <2>5, <2>6 DEF VoiceBounds, Clocks, Detectors
<1>3. ASSUME VoiceInv, VoiceBounds PROVE VoiceTypeOK
  <2>1. narr.spoken \in 0..narr.delivered /\ narr.delivered \in 0..MaxPos
    BY <1>3, VoiceAssumption DEF VoiceBounds, Clocks
  <2>2. vad.run \in 0..SpeechFrames
    BY <1>3 DEF VoiceBounds, Detectors
  <2>3. live \in Bridges
    BY <1>3 DEF VoiceInv, BridgeInv, BridgeIsSound
  <2>4. /\ live.there \in {"none", "up", "failed"} /\ live.tools \in 0..1
        /\ live.reopens \in 0..MAX_LIVE_REOPENS
    BY <1>3, <2>3, VoiceAssumption DEF VoiceBounds, Bridges
  <2>5. \A i \in DOMAIN wire : wire[i] \in VendorEvents
    BY <1>3, ElementOfSeq DEF VoiceBounds
  <2> QED
    BY <1>3, <2>1, <2>2, <2>4, <2>5 DEF VoiceBounds, PlacesTyped, VoiceTypeOK, VendorEvents
<1> QED
  BY <1>1, <1>2, <1>3

=============================================================================

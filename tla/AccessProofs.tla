---------------------------- MODULE AccessProofs ----------------------------
(***************************************************************************)
(* Proofs about who may do what, and with what secrets: Access, Feed,      *)
(* Throttle, McpTools, Connectors and Vault, for any number of accounts,   *)
(* clients, consents, sessions, open requests, failures, calls,            *)
(* authorization servers, registrations and redeployments.                 *)
(***************************************************************************)
EXTENDS Access, Feed, Throttle, McpTools, Connectors, Vault, SequenceTheorems,
        FiniteSetTheorems, WellFoundedInduction, NaturalsInduction, TLAPS

(***************************************************************************)
(* Throttle.  The answers of the window in force are the last ones; those  *)
(* before the window before it lie a whole window back.                    *)
(***************************************************************************)

\* How many of the answers belong to the window in force
AnsweredNow == IF window.failures > MaxFailures THEN MaxFailures ELSE window.failures

ThrottleInv ==
    /\ now \in Nat /\ now <= MaxTicks
    /\ window \in [started : Nat, failures : 0..(MaxFailures + 1)] /\ window.started <= now
    /\ served \in Seq(Nat)
    /\ AnsweredNow <= Len(served)
    /\ \A k \in 1..Len(served) : served[k] <= now
    /\ \A k \in 1..(Len(served) - AnsweredNow) : served[k] <= window.started
    /\ \A k \in 1..(Len(served) - AnsweredNow - MaxFailures) :
           served[k] + WindowTicks <= window.started
    /\ \A k \in 1..Len(served) :
           k + 2 * MaxFailures <= Len(served) =>
               served[k] + WindowTicks <= served[k + 2 * MaxFailures]

LEMMA ThrottleStart == ThrottleInit => ThrottleInv
BY ThrottleAssumption DEF ThrottleInit, ThrottleInv, AnsweredNow

\* The sequence of answers after one more
LEMMA OneMore ==
    ASSUME served \in Seq(Nat), now \in Nat, served' = Append(served, now)
    PROVE  /\ served' \in Seq(Nat) /\ Len(served') = Len(served) + 1 /\ Len(served) \in Nat
           /\ \A k \in 1..Len(served) : served'[k] = served[k] /\ served[k] \in Nat
           /\ served'[Len(served) + 1] = now
BY AppendProperties, LenProperties

\* The answer twice the budget back lies before the previous window.
LEMMA TwiceBack ==
    ASSUME NEW k \in Nat, NEW N \in Nat, NEW F \in Nat, NEW g \in Nat,
           F > 0, g <= F, k > 0, k + 2 * F = N + 1
    PROVE  k \in 1..(N + 1 - g - F) /\ k \in 1..N
OBVIOUS

\* One more answer, in the window in force or in a new one
AnsweredIn(N, g) ==
    /\ N \in Nat /\ N = Len(served)
    /\ now' = now /\ now \in Nat /\ now <= MaxTicks
    /\ window' \in [started : Nat, failures : 0..(MaxFailures + 1)] /\ window'.started <= now
    /\ served' \in Seq(Nat) /\ Len(served') = N + 1 /\ served'[N + 1] = now
    /\ \A k \in 1..N : served'[k] = served[k]
    /\ g = AnsweredNow' /\ g \in 1..(N + 1) /\ g <= MaxFailures
    /\ \A k \in 1..N : served[k] \in Nat /\ served[k] <= now
    /\ \A k \in 1..(N + 1 - g) : served'[k] <= window'.started
    /\ \A k \in 1..(N + 1 - g - MaxFailures) : served'[k] + WindowTicks <= window'.started

LEMMA Answered ==
    ASSUME ThrottleInv, NEW N, NEW g, AnsweredIn(N, g)
    PROVE  ThrottleInv'
<1> DEFINE F == MaxFailures
           W == WindowTicks
<1>0. F \in Nat /\ F > 0 /\ W \in Nat /\ N \in Nat /\ g \in Nat /\ g <= F /\ g <= N + 1
      /\ window'.started \in Nat /\ now \in Nat /\ window'.started <= now
  BY ThrottleAssumption DEF AnsweredIn
<1>1. \A k \in 1..(N + 1) : served'[k] <= now /\ served'[k] \in Nat
  <2> TAKE k \in 1..(N + 1)
  <2>1. k \in 1..N \/ k = N + 1
    BY <1>0
  <2> QED
    BY <1>0, <2>1 DEF AnsweredIn
<1>2. \A k \in 1..(N + 1) : k + 2 * F <= N + 1 => served'[k] + W <= served'[k + 2 * F]
  <2> SUFFICES ASSUME NEW k \in 1..(N + 1), k + 2 * F <= N + 1
               PROVE  served'[k] + W <= served'[k + 2 * F]
    OBVIOUS
  <2>1. CASE k + 2 * F <= N
    <3>1. k \in 1..N /\ k + 2 * F \in 1..N
      BY <1>0, <2>1
    <3>2. served[k] + W <= served[k + 2 * F]
      BY <2>1, <3>1 DEF ThrottleInv, AnsweredIn
    <3>3. served'[k] = served[k] /\ served'[k + 2 * F] = served[k + 2 * F]
      BY <3>1 DEF AnsweredIn
    <3> QED
      BY <3>2, <3>3
  <2>2. CASE k + 2 * F = N + 1
    <3>1. k \in 1..(N + 1 - g - F) /\ k \in 1..N
      BY <1>0, <2>2, TwiceBack
    <3>2. served'[k] + W <= window'.started /\ served'[k] \in Nat
      BY <1>1, <3>1 DEF AnsweredIn
    <3>3. served'[k + 2 * F] = now
      BY <2>2 DEF AnsweredIn
    <3> QED
      BY <1>0, <3>2, <3>3
  <2>3. k + 2 * F <= N \/ k + 2 * F = N + 1
    BY <1>0
  <2> QED
    BY <2>1, <2>2, <2>3
<1>3. Len(served') = N + 1 /\ g = AnsweredNow'
  BY DEF AnsweredIn
<1>4. /\ now' \in Nat /\ now' <= MaxTicks /\ window'.started <= now' /\ served' \in Seq(Nat)
      /\ window' \in [started : Nat, failures : 0..(F + 1)]
  BY DEF AnsweredIn
<1>5. \A k \in 1..(Len(served') - AnsweredNow') : served'[k] <= window'.started
  BY <1>3 DEF AnsweredIn
<1>6. \A k \in 1..(Len(served') - AnsweredNow' - F) : served'[k] + W <= window'.started
  <2>1. \A k \in 1..(N + 1 - g - F) : served'[k] + W <= window'.started
    BY DEF AnsweredIn
  <2> HIDE DEF F, W
  <2>2. Len(served') - AnsweredNow' - F = N + 1 - g - F
    BY <1>0, <1>3
  <2> QED
    BY <2>1, <2>2
<1>7. AnsweredNow' <= Len(served')
  BY <1>0, <1>3
<1>8. \A k \in 1..Len(served') : served'[k] <= now'
  BY <1>1, <1>3 DEF AnsweredIn
<1>9. \A k \in 1..Len(served') :
         k + 2 * F <= Len(served') => served'[k] + W <= served'[k + 2 * F]
  BY <1>2, <1>3
<1> QED
  BY <1>4, <1>5, <1>6, <1>7, <1>8, <1>9 DEF ThrottleInv

\* Every step keeps the invariant.
LEMMA ThrottleStep == ThrottleInv /\ [ThrottleNext]_throttleVars => ThrottleInv'
<1> SUFFICES ASSUME ThrottleInv, [ThrottleNext]_throttleVars PROVE ThrottleInv'
  OBVIOUS
<1> DEFINE N == Len(served)
           F == MaxFailures
<1>0. /\ now \in Nat /\ window \in [started : Nat, failures : 0..(F + 1)]
      /\ window.started \in Nat /\ window.failures \in 0..(F + 1)
      /\ served \in Seq(Nat) /\ N \in Nat /\ F \in Nat /\ F > 0
      /\ WindowTicks \in Nat /\ WindowTicks > 0 /\ MaxTicks \in Nat /\ now <= MaxTicks
      /\ AnsweredNow \in Nat /\ AnsweredNow <= F /\ AnsweredNow <= N /\ window.started <= now
  BY ThrottleAssumption, LenProperties DEF ThrottleInv, AnsweredNow
<1>a. \A k \in 1..N : served[k] \in Nat /\ served[k] <= now
  BY ElementOfSeq DEF ThrottleInv
<1>b. \A k \in 1..(N - AnsweredNow) : served[k] <= window.started
  BY DEF ThrottleInv
<1>c. \A k \in 1..(N - AnsweredNow - F) : served[k] + WindowTicks <= window.started
  BY DEF ThrottleInv
<1>d. \A k \in 1..N : k + 2 * F <= N => served[k] + WindowTicks <= served[k + 2 * F]
  BY DEF ThrottleInv
<1>1. CASE _refused /\ now - window.started >= WindowTicks
  <2>1. window' = [started |-> now, failures |-> 1] /\ now' = now
    BY <1>1 DEF _refused, record_failure
  <2>2. /\ window'.failures = 1 /\ window'.started = now
        /\ window' \in [started : Nat, failures : 0..(F + 1)]
    BY <1>0, <2>1
  <2>3. served' = Append(served, now)
    BY <1>0, <1>1, <2>2 DEF _refused
  <2>4. AnsweredNow' = 1
    BY <1>0, <2>2 DEF AnsweredNow
  <2>5. /\ served' \in Seq(Nat) /\ Len(served') = N + 1
        /\ \A k \in 1..N : served'[k] = served[k]
        /\ served'[N + 1] = now
    BY <1>0, <2>3, OneMore
  <2> HIDE DEF N, F
  <2>8. \A k \in 1..(N - F) : served'[k] + WindowTicks <= now
    <3> SUFFICES ASSUME NEW k \in 1..(N - F) PROVE served'[k] + WindowTicks <= now
      OBVIOUS
    <3>1. k \in 1..(N - AnsweredNow) /\ k \in 1..N
      BY <1>0
    <3>2. served'[k] = served[k] /\ served[k] \in Nat /\ served[k] <= window.started
      BY <1>a, <1>b, <2>5, <3>1
    <3> QED
      BY <1>0, <1>1, <3>2
  <2> QED
    <3>1. \A k \in 1..(N + 1 - 1) : served'[k] <= now
      BY <1>0, <1>a, <2>5
    <3>2. N + 1 - 1 - F = N - F
      BY <1>0
    <3>3. AnsweredIn(N, 1)
      BY <1>0, <1>a, <2>1, <2>2, <2>4, <2>5, <2>8, <3>1, <3>2 DEF AnsweredIn, F, N
    <3> QED
      BY <3>3, Answered
<1>2. CASE _refused /\ ~ (now - window.started >= WindowTicks) /\ window.failures < F
  <2>0. ~ (window.failures > MaxFailures)
    BY <1>0, <1>2
  <2>1. window' = [window EXCEPT !.failures = window.failures + 1] /\ now' = now
    BY <1>2, <2>0 DEF _refused, record_failure
  <2>2. /\ window'.failures = window.failures + 1 /\ window'.started = window.started
        /\ window' \in [started : Nat, failures : 0..(F + 1)]
    BY <1>0, <1>2, <2>1
  <2>3. served' = Append(served, now)
    BY <1>0, <1>2, <2>2 DEF _refused
  <2>4. AnsweredNow' = AnsweredNow + 1 /\ AnsweredNow < F
    BY <1>0, <1>2, <2>2 DEF AnsweredNow
  <2>5. /\ served' \in Seq(Nat) /\ Len(served') = N + 1
        /\ \A k \in 1..N : served'[k] = served[k]
        /\ served'[N + 1] = now
    BY <1>0, <2>3, OneMore
  <2> HIDE DEF N, F
  <2>7. \A k \in 1..(N - AnsweredNow) : served'[k] <= window.started
    <3> TAKE k \in 1..(N - AnsweredNow)
    <3>1. k \in 1..N
      BY <1>0
    <3> QED
      BY <1>b, <2>5, <3>1
  <2>8. \A k \in 1..(N - AnsweredNow - F) : served'[k] + WindowTicks <= window.started
    <3> TAKE k \in 1..(N - AnsweredNow - F)
    <3>1. k \in 1..N
      BY <1>0
    <3> QED
      BY <1>c, <2>5, <3>1
  <2> QED
    <3>1. N + 1 - (AnsweredNow + 1) = N - AnsweredNow /\ N + 1 - (AnsweredNow + 1) - F = N - AnsweredNow - F
          /\ AnsweredNow + 1 \in 1..(N + 1) /\ AnsweredNow + 1 <= F
      BY <1>0, <2>4
    <3>2. AnsweredIn(N, AnsweredNow + 1)
      BY <1>0, <1>a, <2>1, <2>2, <2>4, <2>5, <2>7, <2>8, <3>1 DEF AnsweredIn, F, N
    <3> QED
      BY <3>2, Answered
<1>3. CASE _refused /\ ~ (now - window.started >= WindowTicks) /\ ~ (window.failures < F)
  <2>0. window.failures = F \/ window.failures = F + 1
    <3>1. window.failures \in Nat /\ F \in Nat /\ window.failures <= F + 1
      BY <1>0
    <3>2. ~ (window.failures < F)
      BY <1>3
    <3> HIDE DEF F
    <3> QED
      BY <3>1, <3>2
  <2>1. window' = [window EXCEPT !.failures = F + 1] /\ now' = now
    <3>1. CASE window.failures = F
      <4>1. ~ (window.failures > MaxFailures)
        BY <1>0, <3>1
      <4> QED
        BY <1>3, <3>1, <4>1 DEF _refused, record_failure
    <3>2. CASE window.failures = F + 1
      <4>1. window.failures > MaxFailures
        BY <1>0, <3>2
      <4> QED
        BY <1>3, <3>2, <4>1 DEF _refused, record_failure
    <3> QED
      BY <2>0, <3>1, <3>2
  <2>2. window'.failures = F + 1 /\ window'.started = window.started
        /\ window' \in [started : Nat, failures : 0..(F + 1)]
    <3>1. window \in [started : Nat, failures : 0..(F + 1)] /\ F + 1 \in 0..(F + 1)
      BY <1>0
    <3> QED
      BY <3>1, <2>1
  <2>3. served' = served
    BY <1>0, <1>3, <2>2 DEF _refused
  <2>4. AnsweredNow' = AnsweredNow
    BY <1>0, <1>3, <2>2 DEF AnsweredNow
  <2> QED
    BY <1>0, <2>1, <2>2, <2>3, <2>4 DEF ThrottleInv
<1>4. CASE Tick
  <2>1. now' = now + 1 /\ now < MaxTicks /\ window' = window /\ served' = served /\ AnsweredNow' = AnsweredNow
    BY <1>4 DEF Tick, AnsweredNow
  <2>2. \A k \in 1..N : served[k] <= now + 1
    BY <1>0, <1>a
  <2> QED
    BY <1>0, <2>1, <2>2 DEF ThrottleInv
<1>5. CASE UNCHANGED throttleVars
  BY <1>5 DEF throttleVars, ThrottleInv, AnsweredNow
<1> QED
  BY <1>1, <1>2, <1>3, <1>4, <1>5 DEF ThrottleNext

LEMMA ThrottleUse == ThrottleInv => RefusalsAreBounded
<1> SUFFICES ASSUME ThrottleInv, NEW k \in DOMAIN served,
                    k + 2 * MaxFailures \in DOMAIN served
             PROVE  served[k + 2 * MaxFailures] >= served[k] + WindowTicks
  BY DEF RefusalsAreBounded
<1>1. DOMAIN served = 1..Len(served) /\ Len(served) \in Nat
  BY LenProperties DEF ThrottleInv
<1>2. served[k] \in Nat /\ served[k + 2 * MaxFailures] \in Nat
  BY <1>1, ElementOfSeq DEF ThrottleInv
<1> QED
  BY <1>1, <1>2, ThrottleAssumption DEF ThrottleInv

\* No span as long as the window sees more than twice the budget answered with a
\* 401, for every budget and window and however the failures fall.
THEOREM RefusalsAreBoundedHolds == ThrottleSpec => []RefusalsAreBounded
BY ThrottleStart, ThrottleStep, ThrottleUse, PTL DEF ThrottleSpec

(***************************************************************************)
(* Feed.  A rotation that ran alone saw every live token, and nobody has   *)
(* the one it commits; a client being answered meanwhile is marked.        *)
(***************************************************************************)

FeedRequests == [at : {"idle", "minting", "rotating"}, born : 0..MaxBegun,
                 seen : SUBSET (1..MaxBegun), alone : BOOLEAN]
FeedReaders == [has : SUBSET (1..MaxBegun), at : {"idle", "rendering"},
                joined : 0..MaxBegun, overlapped : BOOLEAN]

FeedTypes ==
    /\ token \in [1..MaxBegun -> {"none", "live", "revoked"}]
    /\ own \in [Owners -> FeedRequests] /\ reader \in [Readers -> FeedReaders]
    /\ begun \in 0..MaxBegun /\ rotated \in 0..begun

Committed == {t \in 1..MaxBegun : token[t] # "none"}

OwnersSound ==
    /\ Committed \subseteq 1..begun
    /\ \A o \in Owners : own[o].at # "idle" =>
           /\ own[o].born \in (1..begun) \ Committed
           /\ own[o].seen \subseteq Committed
           /\ own[o].at = "rotating" /\ own[o].alone => own[o].seen = Live
    /\ \A o, p \in Owners : own[o].at # "idle" /\ own[p].at # "idle" /\ own[o].born = own[p].born
                                => o = p

Since(r) == reader[r].joined >= rotated \/ reader[r].overlapped

ReadersSound ==
    \A r \in Readers :
        /\ reader[r].has \subseteq Committed
        /\ \A t \in reader[r].has : token[t] = "live" => Since(r)
        /\ reader[r].at = "rendering" => Since(r) /\ Live # {}

FeedInv == FeedTypes /\ OwnersSound /\ ReadersSound

\* A set of numbers up to a bound, if it has any, has a largest one.
LEMMA MaxIsMember ==
    ASSUME NEW B \in Nat, NEW S, S \subseteq 1..B, S # {}
    PROVE  Max(S) \in S
<1> DEFINE T == {B - t : t \in S}
<1>1. T \subseteq Nat /\ T # {}
  <2>1. \A t \in S : t \in 1..B
    OBVIOUS
  <2>2. \A t \in S : B - t \in Nat
    BY <2>1
  <2>3. T \subseteq Nat
    BY <2>2
  <2> QED
    BY <2>3
<1>2. PICK m \in T : \A y \in T : ~ (<<y, m>> \in OpToRel(<, Nat))
  <2> HIDE DEF T
  <2> QED
    BY <1>1, WFMin, NatLessThanWellFounded
<1>3. \A y \in T : ~ (y < m)
  <2> TAKE y \in T
  <2>1. <<y, m>> \in Nat \X Nat
    BY <1>1
  <2> QED
    BY <1>2, <2>1 DEF OpToRel
<1>4. PICK b \in S : m = B - b
  OBVIOUS
<1>5. \A t \in S : b >= t
  <2> TAKE t \in S
  <2>1. B - t \in T
    OBVIOUS
  <2>2. ~ (B - t < B - b)
    BY <1>3, <1>4, <2>1
  <2>3. t \in 1..B /\ b \in 1..B
    OBVIOUS
  <2> QED
    BY <2>2, <2>3
<1> QED
  BY <1>5 DEF Max

\* The active token is a live one, if there is one.
LEMMA ActiveIsLive == Live # {} <=> active_feed_token # 0 /\ active_feed_token \in Live
<1>1. Live \subseteq 1..MaxBegun /\ MaxBegun \in Nat
  BY FeedAssumption DEF Live
<1>2. ASSUME Live # {} PROVE active_feed_token \in Live
  BY <1>1, <1>2, MaxIsMember DEF active_feed_token
<1> QED
  BY <1>1, <1>2 DEF active_feed_token

LEMMA FeedStart == FeedInit => FeedInv
<1> SUFFICES ASSUME FeedInit PROVE FeedInv
  OBVIOUS
<1>1. NoRequest \in FeedRequests
  BY FeedAssumption DEF NoRequest, FeedRequests
<1>2. FeedTypes
  BY <1>1, FeedAssumption DEF FeedInit, FeedTypes, FeedReaders
<1>3. Committed = {}
  BY DEF FeedInit, Committed
<1>4. OwnersSound
  BY <1>3 DEF FeedInit, OwnersSound, NoRequest
<1>5. ReadersSound
  BY <1>3 DEF FeedInit, ReadersSound
<1> QED
  BY <1>2, <1>4, <1>5 DEF FeedInv

\* A request begins: minting, when there is no token, or rotating what is live.
LEMMA BeginStep ==
    ASSUME FeedInv, NEW o \in Owners, ensure_feed_token(o) \/ rotate_feed_token(o)
    PROVE  FeedInv'
<1> DEFINE q == IF ensure_feed_token(o)
                THEN [NoRequest EXCEPT !.at = "minting", !.born = begun + 1]
                ELSE [NoRequest EXCEPT !.at = "rotating", !.born = begun + 1, !.seen = Live]
<1>1. own' = [own EXCEPT ![o] = q] /\ own[o].at = "idle"
      /\ begun' = begun + 1 /\ begun < MaxBegun /\ UNCHANGED <<token, reader, rotated>>
  BY DEF ensure_feed_token, rotate_feed_token
<1>2. /\ q.at \in {"minting", "rotating"} /\ q.born = begun + 1 /\ q.alone = TRUE
      /\ q.seen \in {{}, Live}
      /\ q.at = "rotating" => q.seen = Live
  BY DEF NoRequest
<1>3. begun \in 0..MaxBegun /\ begun + 1 \in 1..MaxBegun /\ MaxBegun \in Nat
  BY <1>1, FeedAssumption DEF FeedInv, FeedTypes
<1>4. q \in FeedRequests
  <2>1. begun + 1 \in 0..MaxBegun /\ Live \in SUBSET (1..MaxBegun)
    BY <1>3 DEF Live
  <2>2. CASE ensure_feed_token(o)
    BY <2>1, <2>2 DEF FeedRequests, NoRequest
  <2>3. CASE ~ ensure_feed_token(o)
    BY <2>1, <2>3 DEF FeedRequests, NoRequest
  <2> QED
    BY <2>2, <2>3
<1> HIDE DEF q
<1>5. FeedTypes'
  BY <1>1, <1>3, <1>4 DEF FeedInv, FeedTypes
<1>6. Committed' = Committed /\ Live' = Live /\ Live \subseteq Committed
  BY <1>1 DEF Committed, Live
<1>7. Committed \subseteq 1..begun /\ 1..begun \subseteq 1..(begun + 1) /\ begun + 1 \notin 1..begun
  BY <1>3 DEF FeedInv, OwnersSound
<1>8. own'[o] = q /\ \A p \in Owners : p # o => own'[p] = own[p]
  BY <1>1 DEF FeedInv, FeedTypes
<1>9. OwnersSound'
  <2>1. \A p \in Owners : own[p].at # "idle" => own[p].born \in 1..begun
    BY DEF FeedInv, OwnersSound
  <2>2. begun + 1 \in 1..(begun + 1)
    BY <1>3
  <2>3. \A p \in Owners : own'[p].at # "idle" =>
           /\ own'[p].born \in (1..(begun + 1)) \ Committed
           /\ own'[p].seen \subseteq Committed
           /\ own'[p].at = "rotating" /\ own'[p].alone => own'[p].seen = Live
    <3> SUFFICES ASSUME NEW p \in Owners, own'[p].at # "idle"
                 PROVE  /\ own'[p].born \in (1..(begun + 1)) \ Committed
                        /\ own'[p].seen \subseteq Committed
                        /\ own'[p].at = "rotating" /\ own'[p].alone => own'[p].seen = Live
      OBVIOUS
    <3>1. CASE p = o
      <4>1. own'[p] = q
        BY <1>8, <3>1
      <4>2. begun + 1 \notin Committed /\ {} \subseteq Committed
        BY <1>7
      <4>3. q.seen \subseteq Committed
        BY <1>2, <1>6
      <4>4. q.born \in (1..(begun + 1)) \ Committed
        BY <1>2, <2>2, <4>2
      <4> QED
        BY <1>2, <4>1, <4>3, <4>4
    <3>2. CASE p # o
      <4>1. own'[p] = own[p]
        BY <1>8, <3>2
      <4>2. /\ own[p].born \in (1..begun) \ Committed /\ own[p].seen \subseteq Committed
            /\ own[p].at = "rotating" /\ own[p].alone => own[p].seen = Live
        BY <4>1 DEF FeedInv, OwnersSound
      <4> QED
        BY <1>7, <4>1, <4>2
    <3> QED
      BY <3>1, <3>2
  <2>4. \A p, r \in Owners : own'[p].at # "idle" /\ own'[r].at # "idle" /\ own'[p].born = own'[r].born
                                => p = r
    BY <1>2, <1>7, <1>8, <2>1 DEF FeedInv, OwnersSound
  <2> QED
    BY <1>1, <1>6, <1>7, <2>3, <2>4 DEF OwnersSound
<1>10. ReadersSound'
  BY <1>1, <1>6 DEF FeedInv, ReadersSound, Since
<1> QED
  BY <1>5, <1>9, <1>10 DEF FeedInv

\* A request commits.
LEMMA CommitStep ==
    ASSUME FeedInv, NEW o \in Owners, feed_request_commits(o)
    PROVE  FeedInv'
<1> DEFINE b == own[o].born
           S == own[o].seen
<1>1. /\ own[o].at # "idle" /\ begun' = begun
      /\ token' = [t \in 1..MaxBegun |-> IF t = b THEN "live"
                                         ELSE IF t \in S THEN "revoked" ELSE token[t]]
      /\ rotated' = IF own[o].at = "rotating" /\ own[o].alone /\ b > rotated THEN b ELSE rotated
      /\ reader' = [r \in Readers |->
                     [reader[r] EXCEPT !.overlapped = reader[r].overlapped \/ reader[r].at = "rendering"]]
      /\ own' = [p \in Owners |-> IF p = o THEN NoRequest
                                  ELSE [own[p] EXCEPT !.alone = own[p].at = "idle"]]
  BY DEF feed_request_commits, Revoked
<1>2. /\ b \in (1..begun) \ Committed /\ S \subseteq Committed
      /\ own[o].at = "rotating" /\ own[o].alone => S = Live
  BY <1>1 DEF FeedInv, OwnersSound
<1>3. begun \in 0..MaxBegun /\ MaxBegun \in Nat /\ b \in 1..MaxBegun /\ rotated \in 0..begun
  BY <1>2, FeedAssumption DEF FeedInv, FeedTypes
<1>4. token \in [1..MaxBegun -> {"none", "live", "revoked"}] /\ own \in [Owners -> FeedRequests]
      /\ reader \in [Readers -> FeedReaders]
  BY DEF FeedInv, FeedTypes
<1> HIDE DEF b, S
<1>5. Committed' = Committed \cup {b} /\ b \notin Committed /\ b \in Live' /\ Committed \subseteq 1..begun
  BY <1>1, <1>2, <1>3 DEF Committed, Live, FeedInv, OwnersSound
<1>6. Live' \subseteq (Live \ S) \cup {b}
  BY <1>1 DEF Live
<1>7. \A p \in Owners : p # o =>
          /\ own'[p].at = own[p].at /\ own'[p].born = own[p].born /\ own'[p].seen = own[p].seen
          /\ own'[p].alone = (own[p].at = "idle") /\ own'[p] \in FeedRequests
  BY <1>1, <1>4 DEF FeedRequests
<1>8. own'[o].at = "idle" /\ own'[o] \in FeedRequests
  BY <1>1, <1>3 DEF NoRequest, FeedRequests
<1>9. \A r \in Readers :
          /\ reader'[r].has = reader[r].has /\ reader'[r].at = reader[r].at
          /\ reader'[r].joined = reader[r].joined /\ reader'[r] \in FeedReaders
          /\ reader'[r].overlapped = (reader[r].overlapped \/ reader[r].at = "rendering")
  BY <1>1, <1>4 DEF FeedReaders
<1>10. FeedTypes'
  <2>1. token' \in [1..MaxBegun -> {"none", "live", "revoked"}]
    BY <1>1, <1>4
  <2>2. own' \in [Owners -> FeedRequests] /\ reader' \in [Readers -> FeedReaders]
    BY <1>1, <1>7, <1>8, <1>9
  <2>3. rotated' \in 0..begun
    BY <1>1, <1>2, <1>3
  <2> QED
    BY <1>1, <1>3, <2>1, <2>2, <2>3 DEF FeedTypes
<1>11. OwnersSound'
  <2>1. Committed' \subseteq 1..begun'
    BY <1>1, <1>2, <1>5
  <2>2. ASSUME NEW p \in Owners, own'[p].at # "idle"
        PROVE  /\ own'[p].born \in (1..begun') \ Committed'
               /\ own'[p].seen \subseteq Committed'
               /\ own'[p].at = "rotating" /\ own'[p].alone => own'[p].seen = Live'
    <3>1. p # o /\ own[p].at # "idle" /\ ~ own'[p].alone
      BY <1>7, <1>8, <2>2
    <3>2. own[p].born # b /\ own[p].born \in (1..begun) \ Committed /\ own[p].seen \subseteq Committed
      BY <1>1, <3>1 DEF FeedInv, OwnersSound, b
    <3>3. own'[p].born = own[p].born /\ own'[p].seen = own[p].seen
      BY <1>7, <3>1
    <3> QED
      BY <1>1, <1>5, <3>1, <3>2, <3>3
  <2>3. \A p, r \in Owners : own'[p].at # "idle" /\ own'[r].at # "idle" /\ own'[p].born = own'[r].born
                                => p = r
    BY <1>7, <1>8 DEF FeedInv, OwnersSound
  <2> QED
    BY <2>1, <2>2, <2>3 DEF OwnersSound
<1>12. ReadersSound'
  <2> SUFFICES ASSUME NEW r \in Readers
               PROVE  /\ reader'[r].has \subseteq Committed'
                      /\ \A t \in reader'[r].has : token'[t] = "live" => Since(r)'
                      /\ reader'[r].at = "rendering" => Since(r)' /\ Live' # {}
    BY DEF ReadersSound
  <2>1. reader[r].has \subseteq Committed
    BY DEF FeedInv, ReadersSound
  <2>2. ASSUME NEW t \in reader'[r].has, token'[t] = "live" PROVE Since(r)'
    <3>1. t \in Committed /\ t # b /\ t \in 1..MaxBegun
      BY <1>5, <1>9, <2>1, <2>2 DEF Committed
    <3>2. t \in Live /\ t \notin S
      BY <1>6, <2>2, <3>1 DEF Live
    <3>3. rotated' = rotated
      BY <1>1, <1>2, <3>2
    <3>4. Since(r)
      BY <1>9, <2>2, <3>2 DEF FeedInv, ReadersSound, Live
    <3> QED
      BY <1>9, <3>3, <3>4 DEF Since
  <2>3. reader'[r].at = "rendering" => Since(r)'
    BY <1>9 DEF Since
  <2> QED
    BY <1>5, <1>9, <2>1, <2>2, <2>3
<1> QED
  BY <1>10, <1>11, <1>12 DEF FeedInv

\* A client subscribes, asks or is answered.
LEMMA ReaderStep ==
    ASSUME FeedInv, NEW r \in Readers,
           subscribe(r) \/ render_feed(r) \/ \E t \in 1..MaxBegun : rss_feed(r, t)
    PROVE  FeedInv'
<1>1. UNCHANGED <<token, own, begun, rotated>>
  BY DEF subscribe, render_feed, rss_feed
<1>2. Committed' = Committed /\ Live' = Live /\ Live \subseteq Committed
  BY <1>1 DEF Committed, Live
<1>3. OwnersSound'
  BY <1>1, <1>2 DEF FeedInv, OwnersSound
<1>4. reader \in [Readers -> FeedReaders] /\ reader[r] \in FeedReaders /\ begun \in 0..MaxBegun
      /\ rotated \in 0..begun /\ MaxBegun \in Nat
  BY FeedAssumption DEF FeedInv, FeedTypes
<1>5. \E x \in FeedReaders :
        /\ reader' = [reader EXCEPT ![r] = x]
        /\ x.has \subseteq Committed
        /\ \A t \in x.has : token[t] = "live" => x.joined >= rotated \/ x.overlapped
        /\ x.at = "rendering" => (x.joined >= rotated \/ x.overlapped) /\ Live # {}
  <2>1. /\ reader[r].has \subseteq Committed
        /\ \A t \in reader[r].has : token[t] = "live" => Since(r)
        /\ reader[r].at = "rendering" => Since(r) /\ Live # {}
    BY DEF FeedInv, ReadersSound
  <2>2. CASE subscribe(r)
    <3> DEFINE x == [reader[r] EXCEPT !.has = reader[r].has \cup {active_feed_token},
                                      !.joined = begun, !.overlapped = FALSE]
    <3>1. reader' = [reader EXCEPT ![r] = x] /\ active_feed_token # 0 /\ reader[r].at = "idle"
      BY <1>4, <2>2 DEF subscribe
    <3>2. active_feed_token \in Live
      BY <3>1, ActiveIsLive DEF active_feed_token
    <3>3. active_feed_token \in Committed /\ active_feed_token \in 1..MaxBegun
      BY <3>2, <1>2 DEF Committed
    <3>4. x \in FeedReaders /\ x.has = reader[r].has \cup {active_feed_token} /\ x.joined = begun
          /\ x.at = "idle"
      BY <1>4, <3>1, <3>3 DEF FeedReaders
    <3>5. begun >= rotated
      BY <1>4
    <3> HIDE DEF x
    <3> QED
      BY <2>1, <3>1, <3>3, <3>4, <3>5
  <2>3. CASE render_feed(r)
    <3> DEFINE x == [reader[r] EXCEPT !.at = "idle", !.has = reader[r].has \cup {active_feed_token}]
    <3>1. reader' = [reader EXCEPT ![r] = x] /\ reader[r].at = "rendering"
      BY <1>4, <2>3 DEF render_feed
    <3>2. active_feed_token \in Live /\ Since(r)
      BY <2>1, <3>1, ActiveIsLive
    <3>3. active_feed_token \in Committed /\ active_feed_token \in 1..MaxBegun
      BY <3>2, <1>2 DEF Committed
    <3>4. x \in FeedReaders /\ x.has = reader[r].has \cup {active_feed_token}
          /\ x.joined = reader[r].joined /\ x.overlapped = reader[r].overlapped /\ x.at = "idle"
      BY <1>4, <3>3 DEF FeedReaders
    <3> HIDE DEF x
    <3> QED
      BY <2>1, <3>1, <3>2, <3>3, <3>4 DEF Since
  <2>4. ASSUME NEW t \in 1..MaxBegun, rss_feed(r, t)
        PROVE \E x \in FeedReaders :
                /\ reader' = [reader EXCEPT ![r] = x]
                /\ x.has \subseteq Committed
                /\ \A u \in x.has : token[u] = "live" => x.joined >= rotated \/ x.overlapped
                /\ x.at = "rendering" => (x.joined >= rotated \/ x.overlapped) /\ Live # {}
    <3> DEFINE x == [reader[r] EXCEPT !.at = "rendering"]
    <3>1. reader' = [reader EXCEPT ![r] = x] /\ t \in reader[r].has /\ token[t] = "live"
      BY <1>4, <2>4 DEF rss_feed, user_for_feed_token
    <3>2. t \in Live /\ Since(r)
      BY <2>1, <3>1 DEF Live
    <3>3. x \in FeedReaders /\ x.has = reader[r].has
          /\ x.joined = reader[r].joined /\ x.overlapped = reader[r].overlapped
      BY <1>4 DEF FeedReaders
    <3> HIDE DEF x
    <3> QED
      BY <2>1, <3>1, <3>2, <3>3 DEF Since
  <2> QED
    BY <2>2, <2>3, <2>4
<1>6. PICK x \in FeedReaders :
        /\ reader' = [reader EXCEPT ![r] = x]
        /\ x.has \subseteq Committed
        /\ \A t \in x.has : token[t] = "live" => x.joined >= rotated \/ x.overlapped
        /\ x.at = "rendering" => (x.joined >= rotated \/ x.overlapped) /\ Live # {}
  BY <1>5
<1>7. reader'[r] = x /\ \A q \in Readers : q # r => reader'[q] = reader[q]
  BY <1>4, <1>6
<1>8. FeedTypes'
  BY <1>1, <1>4, <1>6 DEF FeedInv, FeedTypes
<1>9. ReadersSound'
  BY <1>1, <1>2, <1>6, <1>7 DEF FeedInv, ReadersSound, Since
<1> QED
  BY <1>3, <1>8, <1>9 DEF FeedInv

\* Every step keeps the invariant.
LEMMA FeedStep == FeedInv /\ [FeedNext]_feedVars => FeedInv'
<1>1. FeedInv /\ UNCHANGED feedVars => FeedInv'
  BY DEF feedVars, FeedInv, FeedTypes, OwnersSound, ReadersSound, Since, Committed, Live
<1> QED
  BY <1>1, BeginStep, CommitStep, ReaderStep DEF FeedNext

LEMMA FeedUse == FeedInv => RotationUnsubscribes
BY ActiveIsLive DEF FeedInv, ReadersSound, Since, RotationUnsubscribes, user_for_feed_token

\* A rotation unsubscribes every client that was there before it, except one that
\* was being answered when a token was committed; and a feed being rendered has a
\* token: for any number of the owner's overlapping requests and of clients.
THEOREM RotationUnsubscribesHolds == FeedSpec => []RotationUnsubscribes
BY FeedStart, FeedStep, FeedUse, PTL DEF FeedSpec

(***************************************************************************)
(* Access.  A consent that led to a session or a refresh token is spent,   *)
(* and leads to one of each, issued together; a revocation between its     *)
(* statements holds all the consent led to, unless it was rotated since.   *)
(***************************************************************************)

SignInRecords == [step : {"none", "pending", "handed", "spent"},
                  kind : {"web", "native", "mcp", "mint"},
                  client : Clients \cup {None}, email : Emails \cup {None}]
SessionRows == [id : 1..MaxSessions, n : SignIns, email : Emails, client : Clients \cup {None}]
RefreshRows == [session : 1..MaxSessions, n : SignIns, email : Emails, client : Clients]
TokenRows == [n : SignIns, email : Emails, revoked : BOOLEAN]

AccessTypes ==
    /\ signin \in [SignIns -> SignInRecords]
    /\ sess \subseteq SessionRows /\ refr \subseteq RefreshRows /\ pats \subseteq TokenRows
    /\ made \in 0..MaxSessions
    /\ sweep \in [at : {"idle", "refresh", "session"}, refr : SUBSET RefreshRows,
                  sess : SUBSET SessionRows, who : SUBSET SignIns]
    /\ history \in [revoked : SUBSET SignIns, rotated : SUBSET SignIns,
                    admitted : SUBSET SignIns]

IsSpent(n) == signin[n].step = "spent"

OneOfEach ==
    /\ \A s, t \in sess : s.n = t.n => s = t
    /\ \A r, q \in refr : r.n = q.n => r = q
    /\ \A s \in sess, r \in refr : s.n = r.n => s.id = r.session
    /\ \A s \in sess : IsSpent(s.n)
    /\ \A r \in refr : IsSpent(r.n)

Personal(n) == signin[n].kind # "mcp"

Narrow ==
    /\ \A n \in SignIns : /\ signin[n].kind = "mcp" => signin[n].client \in Clients
                          /\ signin[n].step = "handed" => signin[n].email \in Emails
    /\ \A s \in sess : s.client = None => Personal(s.n)
    /\ \A p \in pats : Personal(p.n) /\ IsSpent(p.n)
    /\ \A n \in history.admitted : Personal(n) /\ IsSpent(n)

RevokedNow ==
    \A n \in history.revoked :
        /\ IsSpent(n)
        /\ n \notin history.rotated =>
               (\A s \in sess : s.n # n) /\ (\A r \in refr : r.n # n)

Sweeping ==
    sweep.at # "idle" =>
        \A n \in sweep.who :
            /\ IsSpent(n)
            /\ n \notin history.rotated =>
                   /\ \A r \in refr : r.n = n => sweep.at = "refresh" /\ r \in sweep.refr
                   /\ sweep.sess # {} \/ sweep.at = "session" =>
                          \A s \in sess : s.n = n => s \in sweep.sess

AccessInv == AccessTypes /\ OneOfEach /\ Narrow /\ RevokedNow /\ Sweeping

\* Rows that are there
LEMMA AccessRows ==
    ASSUME AccessInv
    PROVE  /\ \A s \in sess : s \in SessionRows /\ s.n \in SignIns /\ s.email \in Emails
           /\ \A r \in refr : r \in RefreshRows /\ r.n \in SignIns /\ r.email \in Emails
                              /\ r.client \in Clients /\ r.session \in 1..MaxSessions
           /\ \A p \in pats : p \in TokenRows /\ p.n \in SignIns
BY DEF AccessInv, AccessTypes, SessionRows, RefreshRows, TokenRows

LEMMA AccessStart == AccessInit => AccessInv
<1> SUFFICES ASSUME AccessInit PROVE AccessInv
  OBVIOUS
<1>1. NoSignIn \in SignInRecords /\ NoSignIn.kind = "web" /\ NoSignIn.step = "none"
  BY DEF NoSignIn, SignInRecords
<1>2. signin \in [SignIns -> SignInRecords]
      /\ \A n \in SignIns : signin[n].kind = "web" /\ signin[n].step = "none"
  BY <1>1 DEF AccessInit
<1>3. sweep = NoSweep /\ NoSweep.at = "idle"
  BY DEF AccessInit, NoSweep
<1>4. history = [revoked |-> {}, rotated |-> {}, admitted |-> {}] /\ sess = {} /\ refr = {} /\ pats = {}
  BY DEF AccessInit
<1>5. AccessTypes
  BY <1>2, <1>4, AccessAssumption DEF AccessInit, AccessTypes, NoSweep
<1> QED
  BY <1>2, <1>3, <1>4, <1>5 DEF AccessInv, OneOfEach, Narrow, RevokedNow, Sweeping

\* A consent that is not spent moves on, and may lead to its session and token.
MovesOn(n, g, A, B) ==
    /\ n \in SignIns /\ ~ IsSpent(n) /\ g \in SignInRecords /\ signin' = [signin EXCEPT ![n] = g]
    /\ g.kind = "mcp" => g.client \in Clients
    /\ g.step = "handed" => g.email \in Emails
    /\ A \subseteq SessionRows /\ B \subseteq RefreshRows
    /\ sess' = sess \cup A /\ refr' = refr \cup B
    /\ A # {} \/ B # {} => g.step = "spent"
    /\ \A a \in A : a.n = n /\ (a.client = None => g.kind # "mcp")
    /\ \A b \in B : b.n = n
    /\ \A a, b \in A : a = b
    /\ \A a, b \in B : a = b
    /\ \A a \in A, b \in B : a.id = b.session
    /\ made' \in 0..MaxSessions /\ UNCHANGED <<pats, sweep, history>>

LEMMA ConsentStep ==
    ASSUME AccessInv, NEW n, NEW g, NEW A, NEW B, MovesOn(n, g, A, B)
    PROVE  AccessInv'
<1> USE DEF MovesOn
<1>1. signin'[n] = g /\ \A k \in SignIns : k # n => signin'[k] = signin[k]
  BY DEF AccessInv, AccessTypes
<1>2. AccessTypes'
  BY DEF AccessInv, AccessTypes
<1>3. (\A s \in sess : s.n # n) /\ (\A r \in refr : r.n # n) /\ (\A p \in pats : p.n # n)
  BY DEF AccessInv, OneOfEach, Narrow
<1>4. OneOfEach'
  <2>1. \A s, t \in sess' : s.n = t.n => s = t
    BY <1>3 DEF AccessInv, OneOfEach
  <2>2. \A r, q \in refr' : r.n = q.n => r = q
    BY <1>3 DEF AccessInv, OneOfEach
  <2>3. \A s \in sess', r \in refr' : s.n = r.n => s.id = r.session
    BY <1>3 DEF AccessInv, OneOfEach
  <2>4. (\A s \in sess' : IsSpent(s.n)') /\ (\A r \in refr' : IsSpent(r.n)')
    BY <1>1, <1>3, AccessRows DEF AccessInv, OneOfEach, IsSpent
  <2> QED
    BY <2>1, <2>2, <2>3, <2>4 DEF OneOfEach
<1>5. Narrow'
  <2>1. \A k \in SignIns : /\ signin'[k].kind = "mcp" => signin'[k].client \in Clients
                           /\ signin'[k].step = "handed" => signin'[k].email \in Emails
    BY <1>1 DEF AccessInv, Narrow
  <2>2. \A s \in sess' : s.client = None => Personal(s.n)'
    BY <1>1, <1>3, AccessRows DEF AccessInv, Narrow, Personal
  <2>3. \A p \in pats : Personal(p.n)' /\ IsSpent(p.n)'
    BY <1>1, <1>3, AccessRows DEF AccessInv, Narrow, Personal, IsSpent
  <2>4. n \notin history.admitted /\ history.admitted \subseteq SignIns
    BY DEF AccessInv, Narrow, AccessTypes
  <2>5. \A k \in history.admitted : Personal(k)' /\ IsSpent(k)'
    BY <1>1, <2>4 DEF AccessInv, Narrow, Personal, IsSpent
  <2> QED
    BY <2>1, <2>2, <2>3, <2>5 DEF Narrow
<1>6. RevokedNow'
  <2>1. n \notin history.revoked /\ history.revoked \subseteq SignIns
    BY DEF AccessInv, RevokedNow, AccessTypes
  <2> QED
    BY <1>1, <2>1 DEF AccessInv, RevokedNow, IsSpent
<1>7. Sweeping'
  <2>1. CASE sweep.at = "idle"
    BY <2>1 DEF Sweeping
  <2>2. CASE sweep.at # "idle"
    <3>1. n \notin sweep.who /\ sweep.who \subseteq SignIns
      BY <2>2 DEF AccessInv, Sweeping, AccessTypes
    <3> QED
      BY <1>1, <2>2, <3>1 DEF AccessInv, Sweeping, IsSpent
  <2> QED
    BY <2>1, <2>2
<1> QED
  BY <1>2, <1>4, <1>5, <1>6, <1>7 DEF AccessInv

\* AccessRows go.
LEMMA ShrinkStep ==
    ASSUME AccessInv, sess' \subseteq sess, refr' \subseteq refr,
           UNCHANGED <<signin, pats, sweep, history, made>>
    PROVE  AccessInv'
<1>1. AccessTypes'
  BY DEF AccessInv, AccessTypes
<1>2. OneOfEach'
  BY DEF AccessInv, OneOfEach, IsSpent
<1>3. Narrow'
  BY DEF AccessInv, Narrow, Personal, IsSpent
<1>4. RevokedNow'
  BY DEF AccessInv, RevokedNow, IsSpent
<1>5. Sweeping'
  BY DEF AccessInv, Sweeping, IsSpent
<1> QED
  BY <1>1, <1>2, <1>3, <1>4, <1>5 DEF AccessInv

\* A refresh token is exchanged: the consent's old rows go as its new ones come.
LEMMA RotateStep ==
    ASSUME AccessInv, NEW r \in refr, exchange_refresh_token(r)
    PROVE  AccessInv'
<1> DEFINE a == NewSession(r.n, r.email, r.client)
           b == [session |-> made + 1, n |-> r.n, email |-> r.email, client |-> r.client]
<1>1. /\ sess' = {s \in sess : s.id # r.session} \cup {a}
      /\ refr' = (refr \ {r}) \cup {b}
      /\ made' = made + 1 /\ made < MaxSessions /\ UNCHANGED <<signin, pats, sweep>>
      /\ history' = IF sweep.at = "idle" THEN history
                    ELSE [history EXCEPT !.rotated = history.rotated \cup {r.n}]
  BY DEF exchange_refresh_token, _issue, consume_refresh_token
<1>2. made + 1 \in 1..MaxSessions /\ made' \in 0..MaxSessions
  BY <1>1, AccessAssumption DEF AccessInv, AccessTypes
<1>3. a \in SessionRows /\ a.n = r.n /\ a.id = made + 1 /\ a.client \in Clients /\ a.client # None
  BY <1>2, AccessRows, AccessAssumption DEF NewSession, SessionRows
<1>4. b \in RefreshRows /\ b.n = r.n /\ b.session = made + 1
  BY <1>2, AccessRows DEF RefreshRows
<1> HIDE DEF a, b
<1>5. /\ \A s \in sess : s.n = r.n => s \notin {x \in sess : x.id # r.session}
      /\ \A q \in refr : q.n = r.n => q = r
      /\ IsSpent(r.n)
  BY DEF AccessInv, OneOfEach
<1>6. /\ \A s \in sess' : s = a \/ (s \in sess /\ s.n # r.n)
      /\ \A q \in refr' : q = b \/ (q \in refr /\ q.n # r.n)
  BY <1>1, <1>5
<1>7. /\ history'.revoked = history.revoked /\ history'.admitted = history.admitted
      /\ history.rotated \subseteq history'.rotated
      /\ sweep.at # "idle" => r.n \in history'.rotated
      /\ history' \in [revoked : SUBSET SignIns, rotated : SUBSET SignIns, admitted : SUBSET SignIns]
  BY <1>1, AccessRows DEF AccessInv, AccessTypes
<1>8. AccessTypes'
  BY <1>1, <1>2, <1>3, <1>4, <1>7 DEF AccessInv, AccessTypes
<1>9. OneOfEach'
  <2>1. \A n : IsSpent(n)' <=> IsSpent(n)
    BY <1>1 DEF IsSpent
  <2>2. (\A s, t \in sess' : s.n = t.n => s = t) /\ (\A q, t \in refr' : q.n = t.n => q = t)
    BY <1>3, <1>4, <1>6 DEF AccessInv, OneOfEach
  <2>3. \A s \in sess', q \in refr' : s.n = q.n => s.id = q.session
    BY <1>3, <1>4, <1>6 DEF AccessInv, OneOfEach
  <2>4. (\A s \in sess' : IsSpent(s.n)) /\ (\A q \in refr' : IsSpent(q.n))
    BY <1>3, <1>4, <1>5, <1>6 DEF AccessInv, OneOfEach
  <2> QED
    BY <2>1, <2>2, <2>3, <2>4 DEF OneOfEach
<1>10. Narrow'
  BY <1>1, <1>3, <1>6, <1>7 DEF AccessInv, Narrow, Personal, IsSpent
<1>11. RevokedNow'
  <2>1. \A n \in history.revoked : n \notin history.rotated => n # r.n
    BY DEF AccessInv, RevokedNow
  <2>2. \A n \in history'.revoked : n \notin history'.rotated => n # r.n
    BY <1>7, <2>1
  <2> QED
    BY <1>1, <1>3, <1>4, <1>6, <1>7, <2>2 DEF AccessInv, RevokedNow, IsSpent
<1>12. Sweeping'
  BY <1>1, <1>3, <1>4, <1>6, <1>7 DEF AccessInv, Sweeping, IsSpent
<1> QED
  BY <1>8, <1>9, <1>10, <1>11, <1>12 DEF AccessInv

\* A refresh token is revoked, with the access token beside it.
LEMMA RevokeStep ==
    ASSUME AccessInv, NEW r \in refr, revoke_refresh_token(r)
    PROVE  AccessInv'
<1>1. /\ sess' = {s \in sess : s.id # r.session} /\ refr' = refr \ {r}
      /\ UNCHANGED <<signin, pats, sweep, made>>
      /\ history' = [history EXCEPT !.revoked = history.revoked \cup {r.n}]
  BY DEF revoke_refresh_token, consume_refresh_token
<1>2. /\ history'.revoked = history.revoked \cup {r.n} /\ history'.admitted = history.admitted
      /\ history'.rotated = history.rotated
      /\ history' \in [revoked : SUBSET SignIns, rotated : SUBSET SignIns, admitted : SUBSET SignIns]
  BY <1>1, AccessRows DEF AccessInv, AccessTypes
<1>3. IsSpent(r.n) /\ (\A s \in sess' : s.n # r.n) /\ (\A q \in refr' : q.n # r.n)
  BY <1>1 DEF AccessInv, OneOfEach
<1>4. AccessTypes'
  BY <1>1, <1>2 DEF AccessInv, AccessTypes
<1>5. OneOfEach'
  BY <1>1 DEF AccessInv, OneOfEach, IsSpent
<1>6. Narrow'
  BY <1>1, <1>2 DEF AccessInv, Narrow, Personal, IsSpent
<1>7. RevokedNow'
  BY <1>1, <1>2, <1>3 DEF AccessInv, RevokedNow, IsSpent
<1>8. Sweeping'
  BY <1>1, <1>2 DEF AccessInv, Sweeping, IsSpent
<1> QED
  BY <1>4, <1>5, <1>6, <1>7, <1>8 DEF AccessInv

\* A revocation begins: of one session, or of everything.
LEMMA SweepStep ==
    ASSUME AccessInv, UNCHANGED <<signin, sess, refr, pats, made, history>>,
           delete_sessions_for_user \/ \E s \in sess : delete_session(s)
    PROVE  AccessInv'
<1>1. OneOfEach' /\ Narrow' /\ RevokedNow'
  BY DEF AccessInv, OneOfEach, Narrow, RevokedNow, Personal, IsSpent
<1>2. \A n : IsSpent(n)' <=> IsSpent(n)
  BY DEF IsSpent
<1>3. CASE delete_sessions_for_user
  <2>1. sweep' = [at |-> "refresh", refr |-> refr, sess |-> {}, who |-> {x.n : x \in sess \cup refr}]
    BY <1>3 DEF delete_sessions_for_user
  <2>2. {x.n : x \in sess \cup refr} \subseteq SignIns
    BY AccessRows
  <2>3. AccessTypes'
    BY <2>1, <2>2 DEF AccessInv, AccessTypes
  <2>4. \A n \in {x.n : x \in sess \cup refr} : IsSpent(n)
    BY DEF AccessInv, OneOfEach
  <2>5. Sweeping'
    BY <1>2, <2>1, <2>4 DEF Sweeping
  <2> QED
    BY <1>1, <2>3, <2>5 DEF AccessInv
<1>4. ASSUME NEW s \in sess, delete_session(s) PROVE AccessInv'
  <2>1. sweep' = [at |-> "refresh", refr |-> {r \in refr : r.session = s.id}, sess |-> {s}, who |-> {s.n}]
    BY <1>4 DEF delete_session
  <2>2. AccessTypes'
    BY <2>1, AccessRows DEF AccessInv, AccessTypes
  <2>3. IsSpent(s.n) /\ (\A t \in sess : t.n = s.n => t = s)
        /\ \A r \in refr : r.n = s.n => r \in {q \in refr : q.session = s.id}
    BY DEF AccessInv, OneOfEach
  <2>4. Sweeping'
    BY <1>2, <2>1, <2>3 DEF Sweeping
  <2> QED
    BY <1>1, <2>2, <2>4 DEF AccessInv
<1> QED
  BY <1>3, <1>4

\* Its two statements end.
LEMMA SweptStep ==
    ASSUME AccessInv, delete_refresh_tokens \/ delete_sessions
    PROVE  AccessInv'
<1>1. CASE delete_refresh_tokens
  <2>1. /\ sweep.at = "refresh" /\ refr' = refr \ sweep.refr
        /\ sweep' = [sweep EXCEPT !.at = "session", !.refr = {},
                                  !.sess = IF sweep.sess = {} THEN sess ELSE sweep.sess]
        /\ UNCHANGED <<signin, sess, pats, made, history>>
    BY <1>1 DEF delete_refresh_tokens, swept_refresh
  <2>2. /\ sweep'.at = "session" /\ sweep'.who = sweep.who
        /\ sweep'.sess = IF sweep.sess = {} THEN sess ELSE sweep.sess
        /\ sweep' \in [at : {"idle", "refresh", "session"}, refr : SUBSET RefreshRows,
                       sess : SUBSET SessionRows, who : SUBSET SignIns]
    BY <2>1 DEF AccessInv, AccessTypes
  <2>3. AccessTypes'
    BY <2>1, <2>2 DEF AccessInv, AccessTypes
  <2>4. OneOfEach' /\ Narrow' /\ RevokedNow'
    BY <2>1 DEF AccessInv, OneOfEach, Narrow, RevokedNow, Personal, IsSpent
  <2>5. Sweeping'
    BY <2>1, <2>2 DEF AccessInv, Sweeping, IsSpent
  <2> QED
    BY <2>3, <2>4, <2>5 DEF AccessInv
<1>2. CASE delete_sessions
  <2>1. /\ sweep.at = "session" /\ sess' = sess \ sweep.sess /\ sweep' = NoSweep
        /\ history' = [history EXCEPT !.revoked = history.revoked \cup sweep.who]
        /\ UNCHANGED <<signin, refr, pats, made>>
    BY <1>2 DEF delete_sessions
  <2>2. /\ history'.revoked = history.revoked \cup sweep.who /\ history'.admitted = history.admitted
        /\ history'.rotated = history.rotated
        /\ history' \in [revoked : SUBSET SignIns, rotated : SUBSET SignIns, admitted : SUBSET SignIns]
    BY <2>1 DEF AccessInv, AccessTypes
  <2>3. AccessTypes'
    BY <2>1, <2>2 DEF AccessInv, AccessTypes, NoSweep
  <2>4. OneOfEach'
    BY <2>1 DEF AccessInv, OneOfEach, IsSpent
  <2>5. Narrow'
    BY <2>1, <2>2 DEF AccessInv, Narrow, Personal, IsSpent
  <2>6. RevokedNow'
    BY <2>1, <2>2 DEF AccessInv, RevokedNow, Sweeping, IsSpent
  <2>7. Sweeping'
    BY <2>1 DEF Sweeping, NoSweep
  <2> QED
    BY <2>3, <2>4, <2>5, <2>6, <2>7 DEF AccessInv
<1> QED
  BY <1>1, <1>2

\* A browser's session is let into the operator view or makes a token; a token is
\* revoked.
LEMMA TokenStep ==
    ASSUME AccessInv, UNCHANGED <<signin, sess, refr, sweep, made>>,
           \/ \E s \in sess : require_admin(s) \/ create_api_token(s)
           \/ \E p \in pats : pats' = Revoke(p) /\ history' = history
    PROVE  AccessInv'
<1>1. /\ \A p \in pats' : p \in TokenRows /\ Personal(p.n) /\ IsSpent(p.n)
      /\ \A n \in history'.admitted : n \in SignIns /\ Personal(n) /\ IsSpent(n)
      /\ history'.revoked = history.revoked /\ history'.rotated = history.rotated
      /\ history' \in [revoked : SUBSET SignIns, rotated : SUBSET SignIns, admitted : SUBSET SignIns]
  <2>0. /\ \A p \in pats : p \in TokenRows /\ Personal(p.n) /\ IsSpent(p.n)
        /\ \A n \in history.admitted : n \in SignIns /\ Personal(n) /\ IsSpent(n)
        /\ history \in [revoked : SUBSET SignIns, rotated : SUBSET SignIns, admitted : SUBSET SignIns]
    BY AccessRows DEF AccessInv, AccessTypes, Narrow
  <2>1. \A s \in sess : is_browser_session(s) => Personal(s.n) /\ IsSpent(s.n) /\ s.n \in SignIns
    BY AccessRows DEF AccessInv, Narrow, OneOfEach, is_browser_session
  <2>2. ASSUME NEW s \in sess, require_admin(s)
        PROVE  /\ pats' = pats
               /\ history' = [history EXCEPT !.admitted = history.admitted \cup {s.n}]
               /\ is_browser_session(s)
    BY <2>2 DEF require_admin, is_admin
  <2>3. ASSUME NEW s \in sess, create_api_token(s)
        PROVE  /\ pats' = pats \cup {[n |-> s.n, email |-> s.email, revoked |-> FALSE]}
               /\ history' = history /\ is_browser_session(s)
    BY <2>3 DEF create_api_token
  <2>4. CASE \E s \in sess : require_admin(s)
    BY <2>0, <2>1, <2>2, <2>4
  <2>5. CASE \E s \in sess : create_api_token(s)
    <3>1. PICK s \in sess : create_api_token(s)
      BY <2>5
    <3> DEFINE t == [n |-> s.n, email |-> s.email, revoked |-> FALSE]
    <3>2. t \in TokenRows /\ t.n = s.n
      BY AccessRows DEF TokenRows
    <3>3. pats' = pats \cup {t} /\ history' = history /\ is_browser_session(s)
      BY <2>3, <3>1
    <3> HIDE DEF t
    <3> QED
      BY <2>0, <2>1, <3>2, <3>3
  <2>6. ASSUME NEW p \in pats, pats' = Revoke(p), history' = history
        PROVE \A q \in pats' : q \in TokenRows /\ Personal(q.n) /\ IsSpent(q.n)
    <3>1. [p EXCEPT !.revoked = TRUE] \in TokenRows /\ [p EXCEPT !.revoked = TRUE].n = p.n
      BY <2>0 DEF TokenRows
    <3> QED
      BY <2>0, <2>6, <3>1 DEF Revoke
  <2> QED
    BY <2>0, <2>4, <2>5, <2>6
<1>2. AccessTypes'
  BY <1>1 DEF AccessInv, AccessTypes
<1>3. OneOfEach'
  BY DEF AccessInv, OneOfEach, IsSpent
<1>4. Narrow'
  BY <1>1 DEF AccessInv, Narrow, Personal, IsSpent
<1>5. RevokedNow'
  BY <1>1 DEF AccessInv, RevokedNow, IsSpent
<1>6. Sweeping'
  BY <1>1 DEF AccessInv, Sweeping, IsSpent
<1> QED
  BY <1>2, <1>3, <1>4, <1>5, <1>6 DEF AccessInv

\* The consent begins, is handed over, expires, or leads to a session.
LEMMA SignInStep ==
    ASSUME AccessInv,
           \/ start_login \/ start_native_login \/ \E c \in Clients : authorize(c)
           \/ \E n \in SignIns, t \in IdTokens : complete_login(n, t) \/ complete_authorization(n, t)
           \/ \E n, v \in SignIns : redeem_native_login(n, v)
           \/ \E e \in Emails : mint(e)
           \/ \E n \in SignIns : exchange_authorization_code(n) \/ signin_expires(n)
    PROVE  AccessInv'
<1>0. \A n \in SignIns : /\ signin[n] \in SignInRecords /\ signin[n].client \in Clients \cup {None}
                         /\ signin[n].kind = "mcp" => signin[n].client \in Clients
                         /\ signin[n].step = "handed" => signin[n].email \in Emails
  BY DEF AccessInv, AccessTypes, Narrow, SignInRecords
<1>1. ASSUME NEW kind \in {"web", "native", "mcp"}, NEW c \in Clients \cup {None},
             kind = "mcp" => c \in Clients, begin_consent(kind, c),
             UNCHANGED <<sess, refr, pats, sweep, made, history>>
      PROVE  AccessInv'
  <2> DEFINE g == [step |-> "pending", kind |-> kind, client |-> c, email |-> None]
  <2>1. PICK n \in SignIns : signin[n].step = "none" /\ signin' = [signin EXCEPT ![n] = g]
    BY <1>1 DEF begin_consent
  <2>2. g \in SignInRecords /\ g.kind = kind /\ g.client = c /\ g.step = "pending"
    BY <1>1 DEF SignInRecords
  <2> HIDE DEF g
  <2>3. sess' = sess \cup {} /\ refr' = refr \cup {} /\ ~ IsSpent(n) /\ made' \in 0..MaxSessions
    BY <1>1, <2>1 DEF IsSpent, AccessInv, AccessTypes
  <2>9. MovesOn(n, g, {}, {})
    BY <1>1, <2>1, <2>2, <2>3 DEF MovesOn
  <2> QED
    BY <2>9, ConsentStep
<1>2. ASSUME NEW n \in SignIns, ~ IsSpent(n), signin' = Spent(n),
             UNCHANGED <<sess, refr, pats, sweep, made, history>>
      PROVE  AccessInv'
  <2> DEFINE g == [signin[n] EXCEPT !.step = "spent"]
  <2>1. signin' = [signin EXCEPT ![n] = g]
    BY <1>2 DEF Spent, AccessInv, AccessTypes
  <2>2. g \in SignInRecords /\ g.kind = signin[n].kind /\ g.client = signin[n].client /\ g.step = "spent"
    BY <1>0 DEF SignInRecords
  <2> HIDE DEF g
  <2>3. sess' = sess \cup {} /\ refr' = refr \cup {} /\ made' \in 0..MaxSessions
    BY <1>2 DEF AccessInv, AccessTypes
  <2>9. MovesOn(n, g, {}, {})
    BY <1>0, <1>2, <2>1, <2>2, <2>3 DEF MovesOn
  <2> QED
    BY <2>9, ConsentStep
<1>3. ASSUME NEW n \in SignIns, ~ IsSpent(n), NEW e \in Emails, signin' = Handed(n, e),
             UNCHANGED <<sess, refr, pats, sweep, made, history>>
      PROVE  AccessInv'
  <2> DEFINE g == [signin[n] EXCEPT !.step = "handed", !.email = e]
  <2>1. signin' = [signin EXCEPT ![n] = g]
    BY <1>3 DEF Handed, AccessInv, AccessTypes
  <2>2. g \in SignInRecords /\ g.kind = signin[n].kind /\ g.client = signin[n].client /\ g.step = "handed"
        /\ g.email = e
    BY <1>0 DEF SignInRecords
  <2> HIDE DEF g
  <2>3. sess' = sess \cup {} /\ refr' = refr \cup {} /\ made' \in 0..MaxSessions
    BY <1>3 DEF AccessInv, AccessTypes
  <2>9. MovesOn(n, g, {}, {})
    BY <1>0, <1>3, <2>1, <2>2, <2>3 DEF MovesOn
  <2> QED
    BY <2>9, ConsentStep
<1>4. ASSUME NEW n \in SignIns, ~ IsSpent(n), signin[n].kind # "mcp", signin' = Spent(n),
             NEW e \in Emails, create_session(n, e, None), UNCHANGED <<refr, pats, sweep, history>>
      PROVE  AccessInv'
  <2> DEFINE g == [signin[n] EXCEPT !.step = "spent"]
             a == NewSession(n, e, None)
  <2>1. signin' = [signin EXCEPT ![n] = g]
    BY <1>4 DEF Spent, AccessInv, AccessTypes
  <2>2. g \in SignInRecords /\ g.kind = signin[n].kind /\ g.client = signin[n].client /\ g.step = "spent"
    BY <1>0 DEF SignInRecords
  <2> HIDE DEF g
  <2>3. made' \in 0..MaxSessions /\ made + 1 \in 1..MaxSessions /\ sess' = sess \cup {a}
        /\ refr' = refr \cup {}
    BY <1>4, AccessAssumption DEF create_session, AccessInv, AccessTypes
  <2>4. a \in SessionRows /\ a.n = n
    BY <2>3 DEF SessionRows, NewSession
  <2> HIDE DEF a
  <2>5. {a} \in SUBSET SessionRows
    BY <2>4
  <2>9. MovesOn(n, g, {a}, {})
    BY <1>0, <1>4, <2>1, <2>2, <2>3, <2>4, <2>5 DEF MovesOn
  <2> QED
    BY <2>9, ConsentStep
<1>5. ASSUME NEW e \in Emails, mint(e) PROVE AccessInv'
  <2> DEFINE g == [step |-> "spent", kind |-> "mint", client |-> None, email |-> None]
  <2>1. PICK n \in SignIns : /\ signin[n].step = "none" /\ signin' = [signin EXCEPT ![n] = g]
                             /\ create_session(n, e, None)
    BY <1>5 DEF mint
  <2> DEFINE a == NewSession(n, e, None)
  <2>2. g \in SignInRecords /\ g.kind = "mint" /\ g.step = "spent"
    BY DEF SignInRecords
  <2> HIDE DEF g
  <2>3. /\ made' \in 0..MaxSessions /\ made + 1 \in 1..MaxSessions /\ sess' = sess \cup {a}
        /\ refr' = refr \cup {} /\ ~ IsSpent(n) /\ UNCHANGED <<pats, sweep, history>>
    BY <1>5, <2>1, AccessAssumption DEF create_session, AccessInv, AccessTypes, IsSpent, mint
  <2>4. a \in SessionRows /\ a.n = n
    BY <2>3 DEF SessionRows, NewSession
  <2> HIDE DEF a
  <2>5. {a} \in SUBSET SessionRows
    BY <2>4
  <2>9. MovesOn(n, g, {a}, {})
    BY <2>1, <2>2, <2>3, <2>4, <2>5 DEF MovesOn
  <2> QED
    BY <2>9, ConsentStep
<1>6. ASSUME NEW n \in SignIns, exchange_authorization_code(n) PROVE AccessInv'
  <2> DEFINE g == [signin[n] EXCEPT !.step = "spent"]
             e == signin[n].email
             c == signin[n].client
             a == NewSession(n, e, c)
             b == [session |-> made + 1, n |-> n, email |-> e, client |-> c]
  <2>1. /\ signin' = [signin EXCEPT ![n] = g] /\ signin[n].step = "handed" /\ signin[n].kind = "mcp"
        /\ UNCHANGED <<pats, sweep, history>>
    BY <1>6 DEF exchange_authorization_code, Spent, AccessInv, AccessTypes
  <2>2. g \in SignInRecords /\ g.kind = signin[n].kind /\ g.client = signin[n].client /\ g.step = "spent"
    BY <1>0 DEF SignInRecords
  <2>3. e \in Emails /\ c \in Clients /\ c # None
    BY <1>0, <2>1, AccessAssumption
  <2>4. /\ made' = made + 1 /\ made < MaxSessions /\ sess' = sess \cup {a} /\ refr' = refr \cup {b}
    BY <1>6 DEF exchange_authorization_code, _issue
  <2>5. made' \in 0..MaxSessions /\ made + 1 \in 1..MaxSessions
    BY <2>4, AccessAssumption DEF AccessInv, AccessTypes
  <2> HIDE DEF g, e, c
  <2>6. a \in SessionRows /\ a.n = n /\ a.id = made + 1 /\ a.client # None
    BY <2>3, <2>5 DEF SessionRows, NewSession
  <2>7. b \in RefreshRows /\ b.n = n /\ b.session = made + 1
    BY <2>3, <2>5 DEF RefreshRows
  <2> HIDE DEF a, b
  <2>8. {a} \in SUBSET SessionRows /\ {b} \in SUBSET RefreshRows /\ ~ IsSpent(n)
    BY <2>1, <2>6, <2>7 DEF IsSpent
  <2>9. MovesOn(n, g, {a}, {b})
    BY <1>0, <2>1, <2>2, <2>4, <2>5, <2>6, <2>7, <2>8 DEF MovesOn
  <2> QED
    BY <2>9, ConsentStep
<1>7. ASSUME NEW n \in SignIns, NEW t \in IdTokens, complete_login(n, t) \/ complete_authorization(n, t)
      PROVE  AccessInv'
  <2>1. ~ IsSpent(n) /\ t.email \in Emails
    BY <1>7 DEF complete_login, complete_authorization, IsSpent, IdTokens
  <2>2. CASE signin' = Handed(n, t.email) /\ UNCHANGED <<sess, refr, pats, sweep, made, history>>
    BY <1>3, <2>1, <2>2
  <2>3. CASE /\ signin[n].kind = "web" /\ signin' = Spent(n) /\ create_session(n, t.email, None)
             /\ UNCHANGED <<refr, pats, sweep, history>>
    BY <1>4, <2>1, <2>3
  <2> QED
    BY <1>7, <2>2, <2>3 DEF complete_login, complete_authorization
<1>8. ASSUME NEW n \in SignIns, NEW v \in SignIns, redeem_native_login(n, v) PROVE AccessInv'
  <2>1. ~ IsSpent(n) /\ signin[n].email \in Emails /\ signin[n].kind # "mcp"
    BY <1>0, <1>8 DEF redeem_native_login, IsSpent
  <2> QED
    BY <1>4, <1>8, <2>1 DEF redeem_native_login, take_handoff
<1>9. ASSUME NEW n \in SignIns, signin_expires(n) PROVE AccessInv'
  BY <1>2, <1>9 DEF signin_expires, IsSpent
<1>10. CASE start_login
  BY <1>1, <1>10 DEF start_login
<1>11. CASE start_native_login
  BY <1>1, <1>11 DEF start_native_login
<1>12. ASSUME NEW c \in Clients, authorize(c) PROVE AccessInv'
  BY <1>1, <1>12 DEF authorize
<1> QED
  BY <1>5, <1>6, <1>7, <1>8, <1>9, <1>10, <1>11, <1>12

\* Every step keeps the invariant.
LEMMA AccessStep == AccessInv /\ [AccessNext]_accessVars => AccessInv'
<1> SUFFICES ASSUME AccessInv, [AccessNext]_accessVars PROVE AccessInv'
  OBVIOUS
<1>1. CASE UNCHANGED <<signin, sess, refr, pats, sweep, made, history>>
  BY <1>1, ShrinkStep
<1>2. ASSUME NEW c \in Clients, register_client(c) PROVE AccessInv'
  BY <1>1, <1>2 DEF register_client
<1>3. CASE sweep_clients
  BY <1>1, <1>3 DEF sweep_clients
<1>4. ASSUME NEW list \in SUBSET Emails, redeploy(list) PROVE AccessInv'
  BY <1>1, <1>4 DEF redeploy
<1>5. ASSUME NEW r \in refr, refresh_expires(r) PROVE AccessInv'
  BY <1>5, ShrinkStep DEF refresh_expires
<1>6. ASSUME NEW s \in sess, session_expires(s) PROVE AccessInv'
  BY <1>6, ShrinkStep DEF session_expires
<1>7. ASSUME NEW s \in sess, logout(s) \/ delisted_session(s) \/ revoke_access_token(s) PROVE AccessInv'
  BY <1>7, SweepStep DEF logout, delisted_session, revoke_access_token
<1>8. CASE logout_everywhere
  BY <1>8, SweepStep DEF logout_everywhere
<1>9. ASSUME NEW s \in sess, require_admin(s) \/ create_api_token(s) PROVE AccessInv'
  <2>1. UNCHANGED <<signin, sess, refr, sweep, made>>
    BY <1>9 DEF require_admin, create_api_token
  <2> QED
    BY <1>9, <2>1, TokenStep
<1>10. ASSUME NEW s \in sess, NEW p \in pats, revoke_api_token(s, p) PROVE AccessInv'
  BY <1>10, TokenStep DEF revoke_api_token
<1>11. ASSUME NEW p \in pats, delisted_api_token(p) PROVE AccessInv'
  BY <1>11, TokenStep DEF delisted_api_token
<1>12. CASE UNCHANGED accessVars
  BY <1>1, <1>12 DEF accessVars
<1>13. CASE \/ start_login \/ start_native_login \/ \E c \in Clients : authorize(c)
            \/ \E n \in SignIns, t \in IdTokens : complete_login(n, t) \/ complete_authorization(n, t)
            \/ \E n, v \in SignIns : redeem_native_login(n, v)
            \/ \E e \in Emails : mint(e)
            \/ \E n \in SignIns : exchange_authorization_code(n) \/ signin_expires(n)
  BY <1>13, SignInStep
<1>14. CASE delete_refresh_tokens \/ delete_sessions
  BY <1>14, SweptStep
<1>15. ASSUME NEW r \in refr, exchange_refresh_token(r) \/ revoke_refresh_token(r) PROVE AccessInv'
  BY <1>15, RotateStep, RevokeStep
<1> QED
  BY <1>2, <1>3, <1>4, <1>5, <1>6, <1>7, <1>8, <1>9, <1>10, <1>11, <1>12, <1>13, <1>14, <1>15
     DEF AccessNext

\* At most one, counted.
LEMMA AtMostOne ==
    ASSUME NEW S, \A s, t \in S : s = t
    PROVE  Cardinality(S) <= 1
<1>1. CASE S = {}
  BY <1>1, FS_EmptySet
<1>2. CASE S # {}
  <2>1. PICK s \in S : TRUE
    BY <1>2
  <2>2. S = {s}
    BY <2>1
  <2>3. Cardinality({s}) = 1
    BY FS_Singleton, Zenon
  <2> QED
    BY <2>2, <2>3
<1> QED
  BY <1>1, <1>2

LEMMA AccessUse ==
    AccessInv => OneGrantPerConsent /\ RevokedStaysRevoked /\ DelegationStaysNarrow
<1> SUFFICES ASSUME AccessInv PROVE OneGrantPerConsent /\ RevokedStaysRevoked /\ DelegationStaysNarrow
  OBVIOUS
<1>1. OneGrantPerConsent
  <2> SUFFICES ASSUME NEW n \in SignIns
               PROVE  /\ Cardinality({s \in sess : s.n = n}) <= 1
                      /\ Cardinality({r \in refr : r.n = n}) <= 1
    BY DEF OneGrantPerConsent
  <2> DEFINE S == {s \in sess : s.n = n}
             R == {r \in refr : r.n = n}
  <2>1. (\A s, t \in S : s = t) /\ (\A s, t \in R : s = t)
    BY DEF AccessInv, OneOfEach
  <2> HIDE DEF S, R
  <2>2. Cardinality(S) <= 1 /\ Cardinality(R) <= 1
    BY <2>1, AtMostOne
  <2> QED
    BY <2>2 DEF S, R
<1>2. RevokedStaysRevoked
  BY DEF AccessInv, RevokedNow, RevokedStaysRevoked, Grants
<1>3. DelegationStaysNarrow
  BY DEF AccessInv, Narrow, Personal, DelegationStaysNarrow
<1> QED
  BY <1>1, <1>2, <1>3

\* However many sign-ins, exchanges, rotations and revocations overlap: one consent
\* holds at most one session and one refresh token; a revoked consent stays revoked,
\* unless it was rotated while its revocation ran; and an MCP client's grant reaches
\* neither the operator view nor a personal token.
THEOREM AccessHolds ==
    AccessSpec => [](OneGrantPerConsent /\ RevokedStaysRevoked /\ DelegationStaysNarrow)
BY AccessStart, AccessStep, AccessUse, PTL DEF AccessSpec

(***************************************************************************)
(* The MCP tool registry.                                                  *)
(***************************************************************************)

\* The names registered as writes
WriteNames ==
    {"set_news_item_read", "paste_text", "integrate_source_items", "dismiss_source_items",
     "connect_source", "poll_source", "resync_source", "set_label_sync", "reauthorize_source",
     "disconnect_source", "remove_source", "create_connector", "delete_connector",
     "authorize_connector", "create_episode", "create_smart_episode", "rename_episode",
     "set_playback_position", "mark_episode_listened", "rotate_feed", "save_highlight",
     "delete_highlight", "logout_everywhere", "set_llm_config"}

\* A tool's record says whether its name was registered as a write.
LEMMA ToolShape ==
    ASSUME NEW group, NEW R, NEW W, NEW t \in ToolDefs(group, R, W)
    PROVE  t.name \in R \cup W /\ (t.write <=> t.name \in W)
<1>1. PICK n \in R \cup W : t = [name |-> n, group |-> group, write |-> n \in W]
  BY DEF ToolDefs
<1>2. t.name = n /\ t.write = (n \in W)
  BY <1>1
<1> QED
  BY <1>2

LEMMA FunctionShape ==
    ASSUME NEW R, NEW W, NEW A, NEW O, NEW f \in Functions_of(R, W, A, O)
    PROVE  f.name \in R \cup W /\ (f.writes <=> f.name \in W)
<1>1. PICK n \in R \cup W : f = [name |-> n, writes |-> n \in W, arms |-> n \in A, operator |-> n \in O]
  BY DEF Functions_of
<1>2. f.name = n /\ f.writes = (n \in W)
  BY <1>1
<1> QED
  BY <1>2

\* A tool under one of those names is registered as a write.
LEMMA WritesAreRegistered == \A t \in ALL_TOOLS : t.name \in WriteNames => t.write
<1>0. ASSUME NEW group, NEW R, NEW W, \A n \in R : n \notin WriteNames
      PROVE  \A t \in ToolDefs(group, R, W) : t.name \in WriteNames => t.write
  BY <1>0, ToolShape
<1>1. \A n \in {"list_news_items", "get_news_item", "get_ingestion_status", "list_held_source_items",
                "get_source_item", "get_enrich_transcript", "list_sources", "list_connectors",
                "list_episodes", "get_episode", "get_episode_transcript", "get_episode_chapters",
                "get_feed", "list_highlights", "get_processing_status", "get_health",
                "get_voice_status", "whoami", "get_admin_overview", "list_waitlist",
                "get_llm_config", "get_llm_spend"} : n \notin WriteNames
  BY DEF WriteNames
<1> QED
  BY <1>0, <1>1 DEF ALL_TOOLS

\* A function that changes a row is under one of those names, but for get_feed.
LEMMA WritersAreNamed ==
    \A f \in IMPLEMENTATIONS : f.writes => f.name \in WriteNames \cup {"get_feed"}
<1>0. ASSUME NEW R, NEW W, NEW A, NEW O, \A n \in W : n \in WriteNames \cup {"get_feed"}
      PROVE  \A f \in Functions_of(R, W, A, O) : f.writes => f.name \in WriteNames \cup {"get_feed"}
  BY <1>0, FunctionShape
<1>1. \A f \in backlog_tools \cup ingestion_tools \cup source_tools :
        f.writes => f.name \in WriteNames \cup {"get_feed"}
  BY <1>0 DEF backlog_tools, ingestion_tools, source_tools, WriteNames
<1>2. \A f \in connector_tools \cup episode_tools \cup highlight_tools :
        f.writes => f.name \in WriteNames \cup {"get_feed"}
  BY <1>0 DEF connector_tools, episode_tools, highlight_tools, WriteNames
<1>3. \A f \in feed_tools \cup ops_tools \cup admin_tools :
        f.writes => f.name \in WriteNames \cup {"get_feed"}
  BY <1>0 DEF feed_tools, ops_tools, admin_tools, WriteNames
<1> QED
  BY <1>1, <1>2, <1>3 DEF IMPLEMENTATIONS


(***************************************************************************)
(* Tool calls.  The inductive invariant: the transports in force are the   *)
(* running lifespans' in the order they started; what a task's context     *)
(* variables say is its own request's, from authentication to the call;    *)
(* and each call's outcome follows from where it is.                       *)
(***************************************************************************)

\* A strictly increasing sequence, and what is in one
Rising(s) == \A i, j \in 1..Len(s) : i < j => s[i] < s[j]
Members(s) == {s[i] : i \in 1..Len(s)}

CallRecord ==
    [at : {"idle", "authenticating", "transport", "handler", "committed", "done"},
     bearer : Bearers \cup {None}, param : SUBSET all_group_names,
     tool : AskedTools \cup {None}, transport : Nat \cup {None},
     caller : Bearers \cup {None}, wrote : BOOLEAN, first : BOOLEAN,
     committed : BOOLEAN, fired : {0, 1}, counted : Seq({"ok", "refused", "error"}),
     answer : {None, "503", "400", "401", "500", "unknown_tool", "refused", "error", "ok"}]

\* No handler has run: nothing was changed, counted or fired.
Untouched(q) == ~q.wrote /\ ~q.committed /\ q.fired = 0 /\ q.counted = <<>>

CallSound(q) ==
    /\ q.at \in {"idle", "authenticating", "transport"} => q.caller = None /\ Untouched(q)
    /\ q.at \in {"authenticating", "transport"} => build_server
    /\ q.caller # None =>
         build_server /\ q.caller = q.bearer /\ q.tool \in select_tools(q.param)
    /\ q.wrote => Function(q.tool).writes /\ (q.tool = "get_feed" => q.first)
    /\ q.at = "handler" => q.caller # None /\ Untouched(q)
    /\ q.at = "committed" =>
         q.caller # None /\ q.committed /\ q.fired = 0 /\ q.counted = <<>>
    /\ q.at = "done" =>
         /\ Len(q.counted) = (IF q.caller # None THEN 1 ELSE 0)
         /\ q.counted = <<"ok">> <=> q.committed
         /\ q.fired = 1 => q.committed

ScopeSound(q, s) ==
    q.at = "transport" => s = [caller |-> q.bearer, tools |-> select_tools(q.param)]

TransportsSound ==
    /\ transports \in Seq(Nat)
    /\ lifespans \in [started : Nat, running : SUBSET Nat]
    /\ Rising(transports) /\ Members(transports) = lifespans.running
    /\ \A t \in lifespans.running : t <= lifespans.started
    /\ transports # <<>> => build_server

CallsSound ==
    /\ toolcall \in [Calls -> CallRecord]
    /\ scope = [r \in Calls |-> scope[r]]
    /\ \A r \in Calls : CallSound(toolcall[r]) /\ ScopeSound(toolcall[r], scope[r])

McpInv == TransportsSound /\ CallsSound /\ known \subseteq Bearers /\ minted \in BOOLEAN

\* Every tool that can be selected has a function, once the server has been built.
LEMMA SelectedIsImplemented ==
    ASSUME build_server, NEW p, NEW n \in select_tools(p)
    PROVE  Function(n) \in IMPLEMENTATIONS /\ Function(n).name = n
<1>1. n \in Names(IMPLEMENTATIONS)
  BY DEF build_server, select_tools, Names
<1>2. \E f \in IMPLEMENTATIONS : f.name = n
  BY <1>1 DEF Names
<1> QED
  BY <1>2 DEF Function

\* The first states satisfy the invariant.
LEMMA McpStart == McpInit => McpInv
<1> SUFFICES ASSUME McpInit PROVE McpInv
  OBVIOUS
<1>1. TransportsSound
  BY DEF McpInit, TransportsSound, Rising, Members
<1>2. Idle \in CallRecord
  BY DEF Idle, CallRecord
<1>3. CallSound(Idle) /\ \A s : ScopeSound(Idle, s)
  BY DEF Idle, CallSound, ScopeSound, Untouched
<1>4. CallsSound
  BY <1>2, <1>3 DEF McpInit, CallsSound
<1> QED
  BY <1>1, <1>4 DEF McpInit, McpInv

\* A request that is answered before its handler ran is sound.
LEMMA AnsweredEarly ==
    ASSUME NEW q \in CallRecord, q.caller = None, Untouched(q),
           NEW a \in {"503", "400", "401", "500", "unknown_tool", "refused"}
    PROVE  /\ [q EXCEPT !.answer = a] \in CallRecord
           /\ CallSound([[q EXCEPT !.answer = a] EXCEPT !.at = "done"])
<1> DEFINE d == [[q EXCEPT !.answer = a] EXCEPT !.at = "done"]
<1>1. [q EXCEPT !.answer = a] \in CallRecord
  BY DEF CallRecord
<1>2. d.at = "done" /\ d.caller = None /\ ~d.wrote /\ ~d.committed /\ d.fired = 0 /\ d.counted = <<>>
  BY DEF CallRecord, Untouched
<1> HIDE DEF d
<1>3. Len(d.counted) = 0 /\ d.counted # <<"ok">> /\ d.fired < 1
  BY <1>2
<1>4. CallSound(d)
  BY <1>2, <1>3 DEF CallSound
<1> QED
  BY <1>1, <1>4 DEF d

\* A request whose record is sound as it was counted is sound once done.
LEMMA CountedOnce ==
    ASSUME NEW q \in CallRecord, q.caller # None, CallSound(q), q.counted = <<>>,
           NEW o \in {"ok", "refused", "error"}, o = "ok" <=> q.committed,
           NEW a \in {0, 1}, a = 1 => q.committed
    PROVE  LET c == [q EXCEPT !.fired = a, !.answer = o, !.counted = Append(@, o)]
           IN  c \in CallRecord /\ CallSound([c EXCEPT !.at = "done"])
<1> DEFINE c == [q EXCEPT !.fired = a, !.answer = o, !.counted = <<o>>]
           d == [c EXCEPT !.at = "done"]
<1>1. Append(q.counted, o) = <<o>>
  <2>1. Append(<<>>, o) = <<o>>
    OBVIOUS
  <2> QED
    BY <2>1
<1>2. <<o>> \in Seq({"ok", "refused", "error"}) /\ Len(<<o>>) = 1
  OBVIOUS
<1>3. c \in CallRecord
  BY <1>2 DEF CallRecord
<1>4. /\ d.at = "done" /\ d.tool = q.tool /\ d.caller = q.caller
      /\ d.bearer = q.bearer /\ d.param = q.param /\ d.wrote = q.wrote
      /\ d.committed = q.committed /\ d.first = q.first /\ d.fired = a /\ d.counted = <<o>>
  BY DEF CallRecord
<1> HIDE DEF d
<1>5. <<o>> = <<"ok">> <=> o = "ok"
  OBVIOUS
<1>6. CallSound(d)
  BY <1>2, <1>4, <1>5 DEF CallSound
<1> QED
  BY <1>1, <1>3, <1>6 DEF d

\* One request's step keeps what the others have.
LEMMA OneCall ==
    ASSUME CallsSound, NEW r \in Calls, NEW q \in CallRecord, NEW s,
           CallSound(q), ScopeSound(q, s),
           toolcall' = [toolcall EXCEPT ![r] = q], scope' = [scope EXCEPT ![r] = s]
    PROVE  CallsSound'
<1>1. toolcall' \in [Calls -> CallRecord] /\ scope' = [x \in Calls |-> scope'[x]]
  BY DEF CallsSound
<1>2. ASSUME NEW x \in Calls
      PROVE  CallSound(toolcall'[x]) /\ ScopeSound(toolcall'[x], scope'[x])
  <2>1. CASE x = r
    BY <2>1 DEF CallsSound
  <2>2. CASE x # r
    BY <2>2 DEF CallsSound
  <2> QED
    BY <2>1, <2>2
<1>3. \A x \in Calls : CallSound(toolcall[x])' /\ ScopeSound(toolcall[x], scope[x])'
  BY <1>2 DEF CallSound, ScopeSound, Untouched
<1> QED
  BY <1>1, <1>3 DEF CallsSound

\* A request that ends keeps it, if its record is sound once done.
LEMMA FinishKeeps ==
    ASSUME McpInv, NEW r \in Calls, NEW q \in CallRecord,
           CallSound([q EXCEPT !.at = "done"]), Finish(r, q)
    PROVE  TransportsSound' /\ CallsSound'
<1> DEFINE d == [q EXCEPT !.at = "done"]
<1>1. d \in CallRecord /\ d.at = "done"
  BY DEF CallRecord
<1>2. ScopeSound(d, Unbound)
  BY <1>1 DEF ScopeSound
<1>3. toolcall' = [toolcall EXCEPT ![r] = d] /\ scope' = [scope EXCEPT ![r] = Unbound]
  BY DEF Finish, Task
<1> HIDE DEF d
<1>4. CallsSound'
  BY <1>1, <1>2, <1>3, OneCall DEF McpInv, d
<1>5. TransportsSound'
  BY DEF McpInv, TransportsSound, Finish, Rising, Members
<1> QED
  BY <1>4, <1>5


\* A sequence without its k-th element.
WithoutAt(s, k) == SubSeq(s, 1, k - 1) \o SubSeq(s, k + 1, Len(s))
IsWithout(s, k, w) ==
    /\ w \in Seq(Nat) /\ Len(w) = Len(s) - 1
    /\ \A i \in 1..Len(s) - 1 : w[i] = IF i < k THEN s[i] ELSE s[i + 1]

LEMMA WithoutIsWithout ==
    ASSUME NEW s \in Seq(Nat), NEW k \in 1..Len(s)
    PROVE  IsWithout(s, k, WithoutAt(s, k))
<1> DEFINE n == Len(s)
           L == SubSeq(s, 1, k - 1)
           R == SubSeq(s, k + 1, n)
<1>1. n \in Nat /\ k \in Nat /\ 1 <= k /\ k <= n /\ \A i \in 1..n : s[i] \in Nat
  OBVIOUS
<1> HIDE DEF n
<1>2. L \in Seq(Nat) /\ Len(L) = k - 1 /\ \A i \in 1..k - 1 : L[i] = s[i]
  <2>1. k - 1 \in Int /\ 1 \in Int /\ \A i \in 1..k - 1 : s[i] \in Nat
    BY <1>1
  <2>2. /\ L \in Seq(Nat) /\ Len(L) = IF 1 <= k - 1 THEN (k - 1) - 1 + 1 ELSE 0
        /\ \A i \in 1..(k - 1) - 1 + 1 : L[i] = s[1 + i - 1]
    BY <2>1, SubSeqProperties
  <2> HIDE DEF L
  <2>3. (k - 1) - 1 + 1 = k - 1 /\ Len(L) = k - 1
    BY <1>1, <2>2
  <2>4. \A i \in 1..k - 1 : 1 + i - 1 = i
    BY <1>1
  <2> QED
    BY <2>2, <2>3, <2>4
<1>3. R \in Seq(Nat) /\ Len(R) = n - k /\ \A i \in 1..n - k : R[i] = s[k + i]
  <2>1. k + 1 \in Int /\ n \in Int /\ \A i \in k + 1..n : s[i] \in Nat
    BY <1>1
  <2>2. /\ R \in Seq(Nat) /\ Len(R) = IF k + 1 <= n THEN n - (k + 1) + 1 ELSE 0
        /\ \A i \in 1..n - (k + 1) + 1 : R[i] = s[(k + 1) + i - 1]
    BY <2>1, SubSeqProperties
  <2> HIDE DEF R
  <2>3. n - (k + 1) + 1 = n - k /\ Len(R) = n - k
    BY <1>1, <2>2
  <2>4. \A i \in 1..n - k : (k + 1) + i - 1 = k + i
    BY <1>1
  <2> QED
    BY <2>2, <2>3, <2>4
<1> HIDE DEF L, R
<1> DEFINE w == L \o R
<1>4. /\ w \in Seq(Nat) /\ Len(w) = Len(L) + Len(R)
      /\ \A i \in 1..Len(L) + Len(R) : w[i] = IF i <= Len(L) THEN L[i] ELSE R[i - Len(L)]
  BY <1>2, <1>3, ConcatProperties
<1> HIDE DEF w
<1>5. Len(w) = n - 1 /\ Len(L) + Len(R) = n - 1
  BY <1>1, <1>2, <1>3, <1>4
<1>6. ASSUME NEW i \in 1..n - 1 PROVE w[i] = IF i < k THEN s[i] ELSE s[i + 1]
  <2>1. CASE i < k
    <3>1. i <= Len(L) /\ i \in 1..k - 1
      BY <2>1, <1>1, <1>2
    <3> QED
      BY <3>1, <2>1, <1>2, <1>4, <1>5
  <2>2. CASE ~(i < k)
    <3>1. ~(i <= Len(L)) /\ i - Len(L) = i - k + 1 /\ i - k + 1 \in 1..n - k /\ k + (i - k + 1) = i + 1
      BY <2>2, <1>1, <1>2
    <3>2. w[i] = R[i - k + 1]
      BY <3>1, <1>4, <1>5
    <3> QED
      BY <3>1, <3>2, <2>2, <1>3
  <2> QED
    BY <2>1, <2>2
<1> QED
  BY <1>4, <1>5, <1>6 DEF n, w, L, R, IsWithout, WithoutAt

\* A strictly increasing sequence stays so, and loses just that element.
LEMMA RisingWithout ==
    ASSUME NEW s \in Seq(Nat), Rising(s), NEW k \in 1..Len(s),
           NEW w, IsWithout(s, k, w)
    PROVE  Rising(w) /\ Members(w) = Members(s) \ {s[k]}
<1> DEFINE n == Len(s)
           at(i) == IF i < k THEN i ELSE i + 1
<1>1. n \in Nat /\ k \in Nat /\ 1 <= k /\ k <= n /\ \A i \in 1..n : s[i] \in Nat
  OBVIOUS
<1>2. /\ \A i, j \in 1..n : i < j => s[i] < s[j]
      /\ Len(w) = n - 1
      /\ \A i \in 1..n - 1 : w[i] = s[at(i)]
  BY DEF Rising, IsWithout
<1> HIDE DEF n
<1>3. \A i \in 1..n - 1 : at(i) \in 1..n /\ at(i) # k
  BY <1>1
<1>4. \A i, j \in 1..n - 1 : i < j => at(i) < at(j)
  BY <1>1
<1>5. \A i \in 1..n : i # k => \E j \in 1..n - 1 : at(j) = i
  <2> SUFFICES ASSUME NEW i \in 1..n, i # k PROVE \E j \in 1..n - 1 : at(j) = i
    OBVIOUS
  <2>1. CASE i < k
    <3>1. i \in 1..n - 1 /\ at(i) = i
      BY <2>1, <1>1
    <3> QED
      BY <3>1
  <2>2. CASE i > k
    <3>1. i - 1 \in 1..n - 1 /\ at(i - 1) = i
      BY <2>2, <1>1
    <3> QED
      BY <3>1
  <2> QED
    BY <2>1, <2>2, <1>1
<1> HIDE DEF at
<1>6. Rising(w)
  <2> SUFFICES ASSUME NEW i \in 1..n - 1, NEW j \in 1..n - 1, i < j PROVE w[i] < w[j]
    BY <1>2 DEF Rising
  <2> QED
    BY <1>2, <1>3, <1>4
<1>7. \A i \in 1..n : i # k => s[i] # s[k]
  <2> SUFFICES ASSUME NEW i \in 1..n, i # k PROVE s[i] # s[k]
    OBVIOUS
  <2>1. s[i] \in Nat /\ s[k] \in Nat /\ k \in 1..n
    BY <1>1
  <2>2. s[i] < s[k] \/ s[k] < s[i]
    BY <1>1, <1>2, <2>1
  <2> QED
    BY <2>1, <2>2
<1>8. Members(w) = {w[i] : i \in 1..n - 1} /\ Members(s) = {s[i] : i \in 1..n}
  BY <1>2 DEF Members, n
<1>9. ASSUME NEW x \in Members(w) PROVE x \in Members(s) \ {s[k]}
  <2>1. PICK i \in 1..n - 1 : x = s[at(i)]
    BY <1>2, <1>8
  <2> QED
    BY <2>1, <1>3, <1>7, <1>8
<1>10. ASSUME NEW x \in Members(s), x # s[k] PROVE x \in Members(w)
  <2>1. PICK i \in 1..n : x = s[i]
    BY <1>8
  <2>2. PICK j \in 1..n - 1 : at(j) = i
    BY <2>1, <1>5, <1>10
  <2> QED
    BY <2>1, <2>2, <1>2, <1>8
<1> QED
  BY <1>6, <1>9, <1>10

LEMMA RisingAppend ==
    ASSUME NEW s \in Seq(Nat), Rising(s), NEW t \in Nat, \A u \in Members(s) : u < t
    PROVE  Rising(Append(s, t)) /\ Members(Append(s, t)) = Members(s) \cup {t}
<1> DEFINE n == Len(s)
           w == Append(s, t)
<1>1. /\ n \in Nat /\ Len(w) = n + 1 /\ w[n + 1] = t
      /\ \A i \in 1..n : w[i] = s[i] /\ s[i] \in Nat
  OBVIOUS
<1>2. /\ \A i, j \in 1..n : i < j => s[i] < s[j]
      /\ \A i \in 1..n : s[i] < t
  BY DEF Rising, Members
<1>3. Members(s) = {s[i] : i \in 1..n} /\ Members(w) = {w[i] : i \in 1..n + 1}
  BY <1>1 DEF Members
<1> HIDE DEF w, n
<1>4. \A i \in 1..n + 1 : i \in 1..n \/ i = n + 1
  BY <1>1
<1>5. \A i, j \in 1..n + 1 : i < j => i \in 1..n
  BY <1>1
<1>6. Rising(w)
  <2> SUFFICES ASSUME NEW i \in 1..n + 1, NEW j \in 1..n + 1, i < j PROVE w[i] < w[j]
    BY <1>1 DEF Rising
  <2>1. i \in 1..n /\ (j \in 1..n \/ j = n + 1)
    BY <1>4, <1>5
  <2> QED
    BY <2>1, <1>1, <1>2
<1>7. 1..n \subseteq 1..n + 1 /\ n + 1 \in 1..n + 1
  BY <1>1
<1>8. ASSUME NEW x PROVE x \in Members(w) <=> x \in Members(s) \cup {t}
  BY <1>1, <1>3, <1>4, <1>7
<1> QED
  BY <1>6, <1>8 DEF w

\* The newest of a rising sequence is its last.
LEMMA RisingLast ==
    ASSUME NEW s \in Seq(Nat), Rising(s), NEW t \in Members(s)
    PROVE  s # <<>> /\ s[Len(s)] \in Nat /\ t <= s[Len(s)]
<1> DEFINE n == Len(s)
<1>1. n \in Nat /\ \A i \in 1..n : s[i] \in Nat
  OBVIOUS
<1>2. \A i, j \in 1..n : i < j => s[i] < s[j]
  BY DEF Rising
<1>3. PICK i \in 1..n : t = s[i]
  BY DEF Members
<1>4. s # <<>>
  BY <1>3
<1> HIDE DEF n
<1>5. n \in 1..n /\ s[n] \in Nat /\ s[i] \in Nat /\ (i = n \/ i < n)
  BY <1>1, <1>3
<1>6. s[i] <= s[n]
  <2>1. CASE i = n
    BY <2>1, <1>5
  <2>2. CASE i < n
    <3>1. s[i] < s[n]
      BY <2>2, <1>2, <1>5
    <3> QED
      BY <3>1, <1>5
  <2> QED
    BY <2>1, <2>2, <1>5
<1> QED
  BY <1>3, <1>4, <1>5, <1>6 DEF n

\* A lifespan starts: its transport is newer than every other.
LEMMA RunningStarts ==
    ASSUME McpInv, running_starts PROVE TransportsSound'
<1> DEFINE t == lifespans.started + 1
<1>1. /\ lifespans' = [started |-> t, running |-> lifespans.running \cup {t}]
      /\ transports' = Append(transports, t)
      /\ t \in Nat /\ \A u \in lifespans.running : u < t
      /\ build_server
  BY DEF running_starts, McpInv, TransportsSound
<1>2. /\ transports \in Seq(Nat) /\ Rising(transports)
      /\ Members(transports) = lifespans.running
      /\ lifespans.running \subseteq Nat
      /\ \A u \in lifespans.running : u <= lifespans.started
      /\ lifespans.started \in Nat
  BY DEF McpInv, TransportsSound
<1>3. Rising(transports') /\ Members(transports') = lifespans'.running
  BY <1>1, <1>2, RisingAppend
<1>4. transports' \in Seq(Nat)
  BY <1>1, <1>2
<1>5. /\ lifespans' \in [started : Nat, running : SUBSET Nat]
      /\ lifespans'.started = t /\ lifespans'.running = lifespans.running \cup {t}
  BY <1>1, <1>2
<1>6. \A u \in lifespans'.running : u <= lifespans'.started
  BY <1>1, <1>2, <1>5
<1>7. Rising(transports)' /\ Members(transports)' = lifespans'.running
  BY <1>3 DEF Rising, Members
<1> QED
  BY <1>1, <1>4, <1>5, <1>6, <1>7 DEF TransportsSound, build_server

\* A lifespan ends: its transport goes, the others stay in their order.
LEMMA RunningEndsKeeps ==
    ASSUME McpInv, NEW t \in lifespans.running,
           transports' = RunningEnds(t),
           lifespans' = [lifespans EXCEPT !.running = @ \ {t}]
    PROVE  TransportsSound'
<1> DEFINE k == CHOOSE i \in DOMAIN transports : transports[i] = t
<1>1. /\ transports \in Seq(Nat) /\ DOMAIN transports = 1..Len(transports)
      /\ Rising(transports) /\ Members(transports) = lifespans.running
      /\ lifespans \in [started : Nat, running : SUBSET Nat]
      /\ \A u \in lifespans.running : u <= lifespans.started
      /\ transports # <<>> => build_server
  BY DEF McpInv, TransportsSound
<1>2. k \in 1..Len(transports) /\ transports[k] = t
  BY <1>1 DEF Members
<1>3. transports' = SubSeq(transports, 1, k - 1) \o SubSeq(transports, k + 1, Len(transports))
  BY DEF RunningEnds
<1> HIDE DEF k
<1>4. IsWithout(transports, k, transports') /\ transports' \in Seq(Nat)
  <2>1. transports' = WithoutAt(transports, k)
    BY <1>3 DEF WithoutAt
  <2>2. IsWithout(transports, k, WithoutAt(transports, k))
    BY <1>1, <1>2, WithoutIsWithout
  <2> QED
    BY <2>1, <2>2 DEF IsWithout
<1>5. Rising(transports') /\ Members(transports') = Members(transports) \ {t}
  BY <1>1, <1>2, <1>4, RisingWithout
<1>6. /\ lifespans' \in [started : Nat, running : SUBSET Nat]
      /\ lifespans'.started = lifespans.started
      /\ lifespans'.running = lifespans.running \ {t}
  BY <1>1
<1>7. Rising(transports)' /\ Members(transports)' = lifespans'.running
  BY <1>1, <1>5, <1>6 DEF Rising, Members
<1>8. transports # <<>>
  BY <1>2
<1> QED
  BY <1>1, <1>4, <1>6, <1>7, <1>8 DEF TransportsSound, build_server

\* Every step keeps the invariant.
LEMMA McpStep == McpInv /\ [McpNext]_mcpVars => McpInv'
<1> SUFFICES ASSUME McpInv, [McpNext]_mcpVars PROVE McpInv'
  OBVIOUS
<1>0. TransportsSound /\ CallsSound /\ known \subseteq Bearers /\ minted \in BOOLEAN
  BY DEF McpInv
<1>k. ASSUME UNCHANGED <<toolcall, scope>> PROVE CallsSound'
  BY <1>0, <1>k DEF CallsSound, CallSound, ScopeSound, Untouched
<1>t. ASSUME UNCHANGED <<transports, lifespans>> PROVE TransportsSound'
  BY <1>0, <1>t DEF TransportsSound, Rising, Members
<1>1. CASE running_starts
  BY <1>0, <1>1, <1>k, RunningStarts DEF running_starts, McpInv
<1>2. CASE running_ends
  BY <1>0, <1>2, <1>k, RunningEndsKeeps DEF running_ends, McpInv
<1>3. CASE revoked_elsewhere
  BY <1>0, <1>3, <1>k, <1>t DEF revoked_elsewhere, McpInv
<1>4. CASE UNCHANGED mcpVars
  BY <1>0, <1>4, <1>k, <1>t DEF mcpVars, McpInv
<1>5. ASSUME NEW r \in Calls, endpoint_call(r) PROVE McpInv'
  <2>1. toolcall[r] \in CallRecord /\ CallSound(toolcall[r]) /\ toolcall[r].at = "idle"
    BY <1>0, <1>5 DEF CallsSound, endpoint_call
  <2>2. toolcall[r].caller = None /\ Untouched(toolcall[r])
    BY <2>1 DEF CallSound
  <2>3. \A a \in {"503", "400"} :
          /\ [toolcall[r] EXCEPT !.answer = a] \in CallRecord
          /\ CallSound([[toolcall[r] EXCEPT !.answer = a] EXCEPT !.at = "done"])
    BY <2>1, <2>2, AnsweredEarly
  <2>4. CASE \E a \in {"503", "400"} : Finish(r, [toolcall[r] EXCEPT !.answer = a])
    BY <2>3, <2>4, <1>0, <1>5, FinishKeeps DEF endpoint_call, McpInv
  <2>5. ASSUME NEW b \in Bearers \cup {None}, NEW p \in Params, p \subseteq all_group_names,
               transports # <<>>,
               toolcall' = [toolcall EXCEPT ![r].at = "authenticating", ![r].bearer = b,
                              ![r].param = p, ![r].transport = transports[Len(transports)]],
               UNCHANGED <<transports, lifespans, scope>>
        PROVE  McpInv'
    <3> DEFINE q == [toolcall[r] EXCEPT !.at = "authenticating", !.bearer = b, !.param = p,
                                        !.transport = transports[Len(transports)]]
    <3>1. build_server /\ transports[Len(transports)] \in Nat
      BY <1>0, <2>5 DEF TransportsSound
    <3>2. q \in CallRecord /\ CallSound(q) /\ ScopeSound(q, scope[r])
      <4>1. PICK t \in Nat : t = transports[Len(transports)]
        BY <3>1
      <4>2. q = [toolcall[r] EXCEPT !.at = "authenticating", !.bearer = b, !.param = p,
                                    !.transport = t]
        BY <4>1
      <4> HIDE DEF q
      <4>3. q \in CallRecord
        BY <4>2, <2>1, <2>5 DEF CallRecord
      <4>4. /\ q.at = "authenticating" /\ q.caller = toolcall[r].caller
            /\ q.wrote = toolcall[r].wrote /\ q.committed = toolcall[r].committed
            /\ q.fired = toolcall[r].fired /\ q.counted = toolcall[r].counted
        BY <4>2, <2>1 DEF CallRecord
      <4>5. CallSound(q)
        BY <4>4, <3>1, <2>2 DEF CallSound, Untouched
      <4>6. ScopeSound(q, scope[r])
        BY <4>4 DEF ScopeSound
      <4> QED
        BY <4>3, <4>5, <4>6
    <3>3. toolcall' = [toolcall EXCEPT ![r] = q] /\ scope' = [scope EXCEPT ![r] = scope[r]]
      BY <2>5, <1>0 DEF CallsSound
    <3> HIDE DEF q
    <3>4. CallsSound'
      BY <1>0, <3>2, <3>3, OneCall
    <3> QED
      BY <3>4, <2>5, <1>t, <1>0, <1>5 DEF McpInv, endpoint_call
  <2> QED
    BY <2>4, <2>5, <1>5 DEF endpoint_call
<1>6. ASSUME NEW r \in Calls, authenticate(r) PROVE McpInv'
  <2>1. toolcall[r] \in CallRecord /\ CallSound(toolcall[r]) /\ toolcall[r].at = "authenticating"
    BY <1>0, <1>6 DEF CallsSound, authenticate
  <2>2. \A a \in {"401", "500"} :
          /\ [Idle EXCEPT !.answer = a] \in CallRecord
          /\ CallSound([[Idle EXCEPT !.answer = a] EXCEPT !.at = "done"])
    <3>1. Idle \in CallRecord /\ Idle.caller = None /\ Untouched(Idle)
      BY DEF CallRecord, Untouched, Idle
    <3> QED
      BY <3>1, AnsweredEarly
  <2>3. CASE \E a \in {"401", "500"} : Finish(r, [Idle EXCEPT !.answer = a])
    BY <2>2, <2>3, <1>0, <1>6, FinishKeeps DEF authenticate, McpInv
  <2>4. CASE /\ toolcall' = [toolcall EXCEPT ![r].at = "transport"]
             /\ scope' = [scope EXCEPT ![r] =
                   [caller |-> toolcall[r].bearer, tools |-> select_tools(toolcall[r].param)]]
             /\ UNCHANGED <<transports, lifespans>>
    <3> DEFINE q == [toolcall[r] EXCEPT !.at = "transport"]
               s == [caller |-> toolcall[r].bearer, tools |-> select_tools(toolcall[r].param)]
    <3>1. q \in CallRecord /\ CallSound(q) /\ ScopeSound(q, s)
      BY <2>1 DEF CallRecord, CallSound, ScopeSound, Untouched
    <3>2. toolcall' = [toolcall EXCEPT ![r] = q] /\ scope' = [scope EXCEPT ![r] = s]
      BY <2>4
    <3> HIDE DEF q, s
    <3>3. CallsSound'
      BY <1>0, <3>1, <3>2, OneCall
    <3> QED
      BY <3>3, <2>4, <1>t, <1>0, <1>6 DEF McpInv, authenticate
  <2> QED
    BY <2>3, <2>4, <1>6 DEF authenticate, Task
<1>7. ASSUME NEW r \in Calls, call_tool(r) PROVE McpInv'
  <2>1. /\ toolcall[r] \in CallRecord /\ CallSound(toolcall[r]) /\ toolcall[r].at = "transport"
        /\ scope[r] = [caller |-> toolcall[r].bearer, tools |-> select_tools(toolcall[r].param)]
    BY <1>0, <1>7 DEF CallsSound, ScopeSound, call_tool
  <2>2. toolcall[r].caller = None /\ Untouched(toolcall[r]) /\ build_server
    BY <2>1 DEF CallSound
  <2>3. \A a \in {"unknown_tool", "refused"} :
          /\ [toolcall[r] EXCEPT !.answer = a] \in CallRecord
          /\ CallSound([[toolcall[r] EXCEPT !.answer = a] EXCEPT !.at = "done"])
    BY <2>1, <2>2, AnsweredEarly
  <2>4. CASE \E a \in {"unknown_tool", "refused"} : Finish(r, [toolcall[r] EXCEPT !.answer = a])
    BY <2>3, <2>4, <1>0, <1>7, FinishKeeps DEF call_tool, McpInv
  <2>5. ASSUME NEW n \in AskedTools, n \in scope[r].tools, scope[r].caller # None,
               toolcall' = [toolcall EXCEPT ![r].at = "handler", ![r].tool = n,
                                            ![r].caller = scope[r].caller],
               UNCHANGED <<transports, lifespans, scope>>
        PROVE  McpInv'
    <3> DEFINE q == [toolcall[r] EXCEPT !.at = "handler", !.tool = n, !.caller = scope[r].caller]
    <3>0. /\ toolcall[r].bearer \in Bearers \cup {None} /\ toolcall[r].bearer # None
          /\ scope[r].caller = toolcall[r].bearer /\ n \in select_tools(toolcall[r].param)
      <4>1. scope[r].caller = toolcall[r].bearer /\ scope[r].tools = select_tools(toolcall[r].param)
        BY <2>1
      <4>2. toolcall[r].bearer \in Bearers \cup {None}
        BY <2>1 DEF CallRecord
      <4> QED
        BY <4>1, <4>2, <2>5
    <3>1. q \in CallRecord
      BY <2>1, <3>0 DEF CallRecord
    <3>2. /\ q.at = "handler" /\ q.tool = n /\ q.caller = toolcall[r].bearer
          /\ q.bearer = toolcall[r].bearer /\ q.param = toolcall[r].param
          /\ q.wrote = toolcall[r].wrote /\ q.committed = toolcall[r].committed
          /\ q.fired = toolcall[r].fired /\ q.counted = toolcall[r].counted
      BY <2>1, <3>0 DEF CallRecord
    <3>3. toolcall' = [toolcall EXCEPT ![r] = q] /\ scope' = [scope EXCEPT ![r] = scope[r]]
      BY <2>5, <1>0 DEF CallsSound
    <3> HIDE DEF q
    <3>4. CallSound(q) /\ ScopeSound(q, scope[r])
      BY <3>0, <3>2, <2>2 DEF CallSound, ScopeSound, Untouched
    <3>5. CallsSound'
      BY <1>0, <3>1, <3>3, <3>4, OneCall
    <3> QED
      BY <3>5, <2>5, <1>t, <1>0, <1>7 DEF McpInv, call_tool
  <2> QED
    BY <2>4, <2>5, <1>7 DEF call_tool, Task
<1>8. ASSUME NEW r \in Calls, tool_raises(r) PROVE McpInv'
  <2>1. toolcall[r] \in CallRecord /\ CallSound(toolcall[r]) /\ toolcall[r].at = "handler"
    BY <1>0, <1>8 DEF CallsSound, tool_raises
  <2>2. PICK o \in {"refused", "error"} : Raised(r, o)
    BY <1>8 DEF tool_raises
  <2>3. toolcall[r].caller # None /\ Untouched(toolcall[r])
    BY <2>1 DEF CallSound
  <2> DEFINE c == [toolcall[r] EXCEPT !.fired = 0, !.answer = o, !.counted = Append(@, o)]
  <2>4. c \in CallRecord /\ CallSound([c EXCEPT !.at = "done"])
    <3>1. toolcall[r].counted = <<>> /\ ~toolcall[r].committed /\ o # "ok" /\ 0 # 1
      BY <2>3 DEF Untouched
    <3>2. o \in {"ok", "refused", "error"} /\ (o = "ok" <=> toolcall[r].committed)
      BY <3>1
    <3> QED
      BY <2>1, <2>3, <3>1, <3>2, CountedOnce
  <2>5. c = [toolcall[r] EXCEPT !.answer = o, !.counted = Append(@, o)]
    BY <2>1, <2>3 DEF CallRecord, Untouched
  <2> HIDE DEF c
  <2>6. Finish(r, c) /\ UNCHANGED <<known, minted>>
    BY <2>2, <2>5 DEF Raised
  <2>7. TransportsSound' /\ CallsSound'
    BY <2>4, <2>6, FinishKeeps
  <2> QED
    BY <2>6, <2>7, <1>0 DEF McpInv
<1>9. ASSUME NEW r \in Calls, handler_commits(r) PROVE McpInv'
  <2> DEFINE f == Function(toolcall[r].tool)
             w == f.writes /\ (toolcall[r].tool = "get_feed" => ~minted)
             q == [toolcall[r] EXCEPT !.at = "committed", !.committed = TRUE,
                                      !.wrote = w, !.first = ~minted]
  <2>1. toolcall[r] \in CallRecord /\ CallSound(toolcall[r]) /\ toolcall[r].at = "handler"
    BY <1>0, <1>9 DEF CallsSound, handler_commits
  <2>2. /\ toolcall[r].caller # None /\ Untouched(toolcall[r])
    BY <2>1 DEF CallSound
  <2>3. w \in BOOLEAN
    OBVIOUS
  <2>4. toolcall' = [toolcall EXCEPT ![r] = q] /\ scope' = [scope EXCEPT ![r] = scope[r]]
    BY <1>9, <1>0 DEF handler_commits, CallsSound
  <2>w. w => Function(toolcall[r].tool).writes /\ (toolcall[r].tool = "get_feed" => ~minted)
    OBVIOUS
  <2> HIDE DEF w
  <2>5. q \in CallRecord
    BY <2>1, <2>3, <1>0, ZenonT(40) DEF CallRecord
  <2>6. /\ q.at = "committed" /\ q.tool = toolcall[r].tool /\ q.caller = toolcall[r].caller
        /\ q.bearer = toolcall[r].bearer /\ q.param = toolcall[r].param
        /\ q.wrote = w /\ q.first = ~minted /\ q.committed = TRUE
        /\ q.fired = toolcall[r].fired /\ q.counted = toolcall[r].counted
    BY <2>1 DEF CallRecord
  <2> HIDE DEF q
  <2>7. CallSound(q) /\ ScopeSound(q, scope[r])
    BY <2>1, <2>2, <2>6, <2>w DEF CallSound, ScopeSound, Untouched
  <2>8. CallsSound'
    BY <1>0, <2>4, <2>5, <2>7, OneCall
  <2>9. UNCHANGED <<transports, lifespans>> /\ known' \subseteq Bearers /\ minted' \in BOOLEAN
    BY <1>0, <1>9 DEF handler_commits
  <2> QED
    BY <2>8, <2>9, <1>t DEF McpInv
<1>10. ASSUME NEW r \in Calls, run_returns(r) PROVE McpInv'
  <2>1. toolcall[r] \in CallRecord /\ CallSound(toolcall[r]) /\ toolcall[r].at = "committed"
    BY <1>0, <1>10 DEF CallsSound, run_returns
  <2>2. PICK a \in {0, 1} :
          Finish(r, [toolcall[r] EXCEPT !.fired = a, !.answer = "ok", !.counted = Append(@, "ok")])
    <3>1. 0..1 = {0, 1} /\ {0} \subseteq {0, 1} /\ {1} \subseteq {0, 1}
      OBVIOUS
    <3> QED
      BY <1>10, <3>1 DEF run_returns
  <2> DEFINE c == [toolcall[r] EXCEPT !.fired = a, !.answer = "ok", !.counted = Append(@, "ok")]
  <2>3. toolcall[r].caller # None /\ toolcall[r].committed /\ toolcall[r].counted = <<>>
    BY <2>1 DEF CallSound
  <2>4. c \in CallRecord /\ CallSound([c EXCEPT !.at = "done"])
    BY <2>1, <2>3, CountedOnce
  <2>5. Finish(r, c)
    BY <2>2
  <2> HIDE DEF c
  <2>7. TransportsSound' /\ CallsSound'
    BY <2>4, <2>5, FinishKeeps
  <2> QED
    BY <1>10, <2>7, <1>0 DEF McpInv, run_returns
<1> QED
  BY <1>1, <1>2, <1>3, <1>4, <1>5, <1>6, <1>7, <1>8, <1>9, <1>10 DEF McpNext

\* The invariant gives what a tool call promises.
LEMMA McpUse == McpInv => ToolCallsHold
<1> SUFFICES ASSUME McpInv PROVE ToolCallsHold
  OBVIOUS
<1>0. TransportsSound /\ CallsSound
  BY DEF McpInv
<1>1. CallsAreAccounted
  BY <1>0 DEF CallsAreAccounted, CallsSound, CallSound
<1>2. ASSUME NEW r \in Calls, toolcall[r].caller # None
      PROVE  /\ toolcall[r].caller = toolcall[r].bearer
             /\ \E t \in ALL_TOOLS, g \in Named(toolcall[r].param) :
                  /\ t.name = toolcall[r].tool /\ t.group = g.base
                  /\ g.readonly /\ toolcall[r].wrote =>
                       toolcall[r].tool = "get_feed" /\ toolcall[r].first
  <2> DEFINE q == toolcall[r]
  <2>1. /\ build_server /\ q.caller = q.bearer /\ q.tool \in select_tools(q.param)
        /\ q.wrote => Function(q.tool).writes /\ (q.tool = "get_feed" => q.first)
    BY <1>0, <1>2 DEF CallsSound, CallSound
  <2> HIDE DEF q
  <2>2. PICK t \in ALL_TOOLS, g \in Named(q.param) :
          t.name = q.tool /\ t.group = g.base /\ (g.readonly => ~t.write)
    BY <2>1 DEF select_tools, Names
  <2>3. ASSUME g.readonly, q.wrote PROVE q.tool = "get_feed" /\ q.first
    <3>1. q.tool \notin WriteNames
      BY <2>2, <2>3, WritesAreRegistered
    <3>2. Function(q.tool) \in IMPLEMENTATIONS /\ Function(q.tool).name = q.tool
      BY <2>1, SelectedIsImplemented
    <3>3. q.tool \in WriteNames \cup {"get_feed"}
      BY <2>1, <2>3, <3>2, WritersAreNamed
    <3> QED
      BY <2>1, <2>3, <3>1, <3>3
  <2> QED
    BY <2>1, <2>2, <2>3 DEF q
<1>3. CallsAreConfined
  BY <1>2 DEF CallsAreConfined
<1>4. TransportInForce
  <2>1. /\ transports \in Seq(Nat) /\ Rising(transports)
        /\ Members(transports) = lifespans.running
    BY <1>0 DEF TransportsSound
  <2>2. \A i \in 1..Len(transports) : transports[i] \in lifespans.running
    BY <2>1 DEF Members
  <2>3. \A t \in lifespans.running : transports # <<>> /\ t <= transports[Len(transports)]
    BY <2>1, RisingLast
  <2>4. transports # <<>> => 1 \in 1..Len(transports)
    BY <2>1
  <2> QED
    BY <2>2, <2>3, <2>4 DEF TransportInForce
<1> QED
  BY <1>1, <1>3, <1>4 DEF ToolCallsHold

\* Whatever requests run beside it, a tool call runs as its own request's bearer
\* and within the groups its own URL named, is counted once, and reaches the
\* newest lifespan's transport (mcp/context.py, mcp/server.py).
THEOREM ToolCallsHoldAlways == McpSpec => []ToolCallsHold
<1> QED
  BY McpStart, McpStep, McpUse, PTL DEF McpSpec

(***************************************************************************)
(* Connectors.  A flow that waits for consent or for its code holds a      *)
(* client; and a row that a flow once read with a token set and not ready  *)
(* is one that a late refusal had already spoiled, so that a refusal       *)
(* written from it spoils nothing more.                                    *)
(***************************************************************************)
McpRows == [there : BOOLEAN, status : {"needs_auth", "ready", "error"},
            secret : 0..MaxClients, client : 0..MaxClients,
            issuer : Issuers \cup {None}, err : BOOLEAN]
FlowRecords == [at : {"none", "discovering", "consent", "exchanging", "over"},
                row : McpRows, issuer : Issuers \cup {None}, client : 0..MaxClients]

ConnectorTypes ==
    /\ mcp \in McpRows /\ flow \in [Flows -> FlowRecords]
    /\ regs \in 0..MaxClients /\ late \in BOOLEAN

InForce(row) == row.secret # 0 => late \/ row.status = "ready"

ConnectorInv ==
    /\ ConnectorTypes
    /\ ~ mcp.there => mcp.secret = 0
    /\ mcp.secret # 0 => mcp.client = mcp.secret
    /\ InForce(mcp)
    /\ \A f \in Flows : /\ InForce(flow[f].row)
                        /\ flow[f].at \in {"consent", "exchanging"} => flow[f].client # 0

\* The constant records.
LEMMA ConnectorRecords ==
    /\ NoRow \in McpRows /\ NoRow.secret = 0 /\ NoRow.there = FALSE
    /\ Unstarted \in FlowRecords /\ Unstarted.row = NoRow /\ Unstarted.at = "none"
<1>1. NoRow \in McpRows /\ NoRow.secret = 0 /\ NoRow.there = FALSE
  BY ConnectorAssumption DEF NoRow, McpRows
<1>2. Unstarted.row = NoRow /\ Unstarted.at = "none"
  BY DEF Unstarted
<1>3. Unstarted \in FlowRecords
  BY <1>1, ConnectorAssumption DEF Unstarted, FlowRecords
<1> QED
  BY <1>1, <1>2, <1>3

\* A step that leaves the row, and moves one flow.
LEMMA FlowStep ==
    ASSUME ConnectorInv, NEW f \in Flows, NEW g \in FlowRecords, UNCHANGED <<mcp, late>>,
           flow' = [flow EXCEPT ![f] = g], regs' \in 0..MaxClients,
           g.row = flow[f].row \/ g.row = mcp,
           g.at \in {"consent", "exchanging"} => g.client # 0
    PROVE  ConnectorInv'
<1>1. flow \in [Flows -> FlowRecords]
  BY DEF ConnectorInv, ConnectorTypes
<1>2. flow'[f] = g /\ \A e \in Flows : e # f => flow'[e] = flow[e]
  BY <1>1
<1>3. flow' \in [Flows -> FlowRecords]
  BY <1>1
<1>4. InForce(g.row)
  BY DEF ConnectorInv
<1>5. \A e \in Flows : InForce(flow'[e].row)
  BY <1>2, <1>4 DEF ConnectorInv
<1> QED
  BY <1>2, <1>3, <1>5 DEF ConnectorInv, ConnectorTypes, InForce

\* A refusal written from the row the flow had read.
LEMMA RefusalStep ==
    ASSUME ConnectorInv, NEW f \in Flows, NEW outcome \in {"needs_auth", "error"},
           _connector_refused(f, outcome)
    PROVE  ConnectorInv'
<1>1. flow \in [Flows -> FlowRecords] /\ flow[f] \in FlowRecords /\ mcp \in McpRows
      /\ flow[f].row \in McpRows
  BY DEF ConnectorInv, ConnectorTypes, FlowRecords
<1> DEFINE g == [flow[f] EXCEPT !.at = "over"]
           status == StatusAfterRefusal(flow[f].row, outcome)
           row == [mcp EXCEPT !.status = status, !.err = TRUE]
<1>2. g \in FlowRecords /\ g.at = "over" /\ g.row = flow[f].row
  BY <1>1 DEF FlowRecords
<1>3. status \in {"needs_auth", "ready", "error"}
  BY DEF StatusAfterRefusal
<1>4. row \in McpRows /\ row.secret = mcp.secret /\ row.client = mcp.client
      /\ row.there = mcp.there /\ row.status = status
  BY <1>1, <1>3 DEF McpRows
<1>5. /\ mcp' = IF mcp.there THEN row ELSE mcp
      /\ late' = (late \/ (mcp.there /\ mcp.secret # flow[f].row.secret))
      /\ flow' = [flow EXCEPT ![f] = g] /\ UNCHANGED regs
  BY DEF _connector_refused
<1>6. status = "ready" \/ ~(flow[f].row.secret # 0 /\ flow[f].row.status = "ready")
  BY DEF StatusAfterRefusal
<1> HIDE DEF g, status, row
<1>7. mcp.secret # 0 => late' \/ mcp'.status = "ready"
  BY <1>4, <1>5, <1>6 DEF ConnectorInv, InForce
<1>8. late' \in BOOLEAN /\ (late => late')
  BY <1>5 DEF ConnectorInv, ConnectorTypes
<1>9. mcp' \in McpRows /\ mcp'.secret = mcp.secret /\ mcp'.client = mcp.client
      /\ mcp'.there = mcp.there
  BY <1>1, <1>4, <1>5
<1>10. \A e \in Flows : flow'[e].row = flow[e].row
                        /\ (flow'[e] = flow[e] \/ flow'[e].at = "over")
  BY <1>1, <1>2, <1>5
<1>11. flow' \in [Flows -> FlowRecords]
  BY <1>1, <1>2, <1>5
<1>12. \A e \in Flows : /\ InForce(flow[e].row)'
                        /\ flow'[e].at \in {"consent", "exchanging"} => flow'[e].client # 0
  BY <1>8, <1>10 DEF ConnectorInv, InForce
<1>13. InForce(mcp)'
  BY <1>7, <1>9 DEF InForce
<1> QED
  BY <1>5, <1>8, <1>9, <1>11, <1>12, <1>13 DEF ConnectorInv, ConnectorTypes

\* Every action of the connectors keeps the invariant.
LEMMA ConnectorStep == ConnectorInv /\ [ConnectorNext]_connectorVars => ConnectorInv'
<1> SUFFICES ASSUME ConnectorInv, [ConnectorNext]_connectorVars PROVE ConnectorInv'
  OBVIOUS
<1>0. /\ mcp \in McpRows /\ flow \in [Flows -> FlowRecords] /\ regs \in 0..MaxClients
      /\ late \in BOOLEAN /\ \A f \in Flows : flow[f] \in FlowRecords
  BY DEF ConnectorInv, ConnectorTypes
<1>1. CASE create_mcp_connector
  <2> DEFINE row == [NoRow EXCEPT !.there = TRUE]
  <2>1. row \in McpRows /\ row.secret = 0
    BY ConnectorRecords DEF McpRows
  <2>2. mcp' = row /\ UNCHANGED <<flow, regs, late>>
    BY <1>1 DEF create_mcp_connector
  <2> HIDE DEF row
  <2> QED
    BY <2>1, <2>2, ConnectorAssumption DEF ConnectorInv, ConnectorTypes, InForce, McpRows
<1>2. CASE delete_connector
  <2>1. mcp' = NoRow /\ UNCHANGED <<regs, late>>
    BY <1>2 DEF delete_connector
  <2>2. ASSUME NEW f \in Flows
        PROVE  /\ flow'[f] \in FlowRecords /\ flow'[f].row = flow[f].row
               /\ flow'[f] = flow[f] \/ flow'[f].at = "over"
    <3> DEFINE g == [flow[f] EXCEPT !.at = "over"]
    <3>1. g \in FlowRecords /\ g.at = "over" /\ g.row = flow[f].row
      BY <1>0 DEF FlowRecords
    <3>2. flow'[f] = g \/ flow'[f] = flow[f]
      BY <1>2 DEF delete_connector
    <3> HIDE DEF g
    <3> QED
      BY <1>0, <3>1, <3>2
  <2>3. flow' \in [Flows -> FlowRecords]
    <3>1. flow' = [f \in Flows |-> flow'[f]]
      BY <1>2 DEF delete_connector
    <3> QED
      BY <2>2, <3>1
  <2>4. \A f \in Flows : /\ InForce(flow[f].row)'
                         /\ flow'[f].at \in {"consent", "exchanging"} => flow'[f].client # 0
    BY <2>1, <2>2 DEF ConnectorInv, InForce
  <2> QED
    BY <1>0, <2>1, <2>3, <2>4, ConnectorRecords DEF ConnectorInv, ConnectorTypes, InForce
<1>3. CASE delete_site_connector \/ \E s \in BOOLEAN : create_site_connector(s)
  <2>1. UNCHANGED <<mcp, flow, regs, late>>
    BY <1>3 DEF delete_site_connector, create_site_connector
  <2> QED
    BY <2>1 DEF ConnectorInv, ConnectorTypes, InForce
<1>4. ASSUME NEW f \in Flows, authorize_connector(f) PROVE ConnectorInv'
  <2> DEFINE g == [flow[f] EXCEPT !.at = "discovering", !.row = mcp]
  <2>1. g \in FlowRecords /\ g.row = mcp /\ g.at = "discovering"
    BY <1>0 DEF FlowRecords
  <2>2. flow' = [flow EXCEPT ![f] = g] /\ UNCHANGED <<mcp, regs, late>>
    BY <1>4 DEF authorize_connector
  <2> HIDE DEF g
  <2> QED
    BY <1>0, <2>1, <2>2, FlowStep
<1>5. ASSUME NEW f \in Flows, connector_gone(f) \/ consent_expires(f) PROVE ConnectorInv'
  <2> DEFINE g == [flow[f] EXCEPT !.at = "over"]
  <2>1. g \in FlowRecords /\ g.row = flow[f].row /\ g.at = "over"
    BY <1>0 DEF FlowRecords
  <2>2. flow' = [flow EXCEPT ![f] = g] /\ UNCHANGED <<mcp, regs, late>>
    BY <1>5 DEF connector_gone, consent_expires
  <2> HIDE DEF g
  <2> QED
    BY <1>0, <2>1, <2>2, FlowStep
<1>6. ASSUME NEW f \in Flows, NEW d \in Documents, discovery_answers(f, d) PROVE ConnectorInv'
  <2>1. PICK client \in 0..MaxClients :
            /\ client # 0 /\ flow' = WaitingFlow(f, d, client)
            /\ regs' \in 0..MaxClients /\ UNCHANGED <<mcp, late>>
    <3>1. flow[f].row.client \in 0..MaxClients
      BY <1>0 DEF FlowRecords, McpRows
    <3>2. CASE reusable(flow[f].row, d.named) /\ flow' = WaitingFlow(f, d, flow[f].row.client)
               /\ mcp' = bind_client(f, d, flow[f].row.client) /\ UNCHANGED <<regs, late>>
      BY <1>0, <3>1, <3>2 DEF reusable, bind_client
    <3>3. CASE regs < MaxClients /\ regs' = regs + 1 /\ flow' = WaitingFlow(f, d, regs + 1)
               /\ mcp' = bind_client(f, d, regs + 1) /\ UNCHANGED late
      <4>1. regs + 1 \in 0..MaxClients /\ regs + 1 # 0
        BY <1>0, <3>3, ConnectorAssumption
      <4> QED
        BY <3>3, <4>1 DEF bind_client
    <3> QED
      BY <1>6, <3>2, <3>3 DEF discovery_answers
  <2> DEFINE g == [flow[f] EXCEPT !.at = "consent", !.issuer = d.named, !.client = client]
  <2>2. d.named \in Issuers
    BY DEF Documents
  <2>3. g \in FlowRecords /\ g.row = flow[f].row /\ g.client = client
    BY <1>0, <2>2 DEF FlowRecords
  <2>4. flow' = [flow EXCEPT ![f] = g]
    BY <2>1 DEF WaitingFlow
  <2> HIDE DEF g
  <2> QED
    BY <1>0, <2>1, <2>3, <2>4, FlowStep
<1>7. ASSUME NEW f \in Flows, NEW d \in Documents, discovery_fails(f, d) \/ registration_fails(f, d)
      PROVE  ConnectorInv'
  BY <1>7, RefusalStep DEF discovery_fails, registration_fails
<1>8. ASSUME NEW f \in Flows, NEW iss, NEW promised, connector_oauth_callback(f, iss, promised)
      PROVE ConnectorInv'
  <2> DEFINE g == [flow[f] EXCEPT !.at = "exchanging", !.row = mcp]
  <2>1. g \in FlowRecords /\ g.row = mcp /\ g.client = flow[f].client
    BY <1>0 DEF FlowRecords
  <2>2. flow[f].client # 0
    BY <1>8 DEF connector_oauth_callback, ConnectorInv
  <2>3. flow' = [flow EXCEPT ![f] = g] /\ UNCHANGED <<mcp, regs, late>>
    BY <1>8 DEF connector_oauth_callback
  <2> HIDE DEF g
  <2> QED
    BY <1>0, <2>1, <2>2, <2>3, FlowStep
<1>9. ASSUME NEW f \in Flows, exchange_connector_code(f) PROVE ConnectorInv'
  <2>1. flow[f].client \in 0..MaxClients /\ flow[f].issuer \in Issuers \cup {None}
        /\ flow[f].client # 0 /\ mcp.there
    BY <1>0, <1>9 DEF FlowRecords, exchange_connector_code, ConnectorInv
  <2> DEFINE bound == [mcp EXCEPT !.issuer = flow[f].issuer, !.client = flow[f].client]
             row == [bound EXCEPT !.secret = flow[f].client, !.status = "ready", !.err = FALSE]
             g == [flow[f] EXCEPT !.at = "over"]
  <2>2. bound \in McpRows /\ bound.client = flow[f].client /\ bound.there = mcp.there
    BY <1>0, <2>1 DEF McpRows
  <2>3. g \in FlowRecords /\ g.row = flow[f].row /\ g.at = "over"
    BY <1>0 DEF FlowRecords
  <2> HIDE DEF bound
  <2>4. row \in McpRows /\ row.secret = flow[f].client /\ row.client = flow[f].client
        /\ row.there = mcp.there /\ row.status = "ready"
    BY <2>1, <2>2 DEF McpRows
  <2>5. mcp' = row /\ flow' = [flow EXCEPT ![f] = g] /\ UNCHANGED <<regs, late>>
    BY <1>9 DEF exchange_connector_code, store_connector_secret, set_connector_oauth_client, bound
  <2> HIDE DEF row, g
  <2>6. /\ flow' \in [Flows -> FlowRecords]
        /\ \A e \in Flows : flow'[e].row = flow[e].row
                            /\ (flow'[e] = flow[e] \/ flow'[e].at = "over")
    BY <1>0, <2>3, <2>5
  <2>7. \A e \in Flows : /\ InForce(flow[e].row)'
                         /\ flow'[e].at \in {"consent", "exchanging"} => flow'[e].client # 0
    BY <2>5, <2>6 DEF ConnectorInv, InForce
  <2> QED
    BY <1>0, <2>1, <2>4, <2>5, <2>6, <2>7 DEF ConnectorInv, ConnectorTypes, InForce
<1>10. ASSUME NEW f \in Flows, exchange_refused(f) PROVE ConnectorInv'
  BY <1>10, RefusalStep DEF exchange_refused
<1>11. ASSUME NEW f \in Flows, seal_fails(f) PROVE ConnectorInv'
  <2> DEFINE g == [flow[f] EXCEPT !.at = "consent"]
  <2>1. g \in FlowRecords /\ g.row = flow[f].row /\ g.client = flow[f].client
    BY <1>0 DEF FlowRecords
  <2>2. flow[f].client # 0
    BY <1>11 DEF seal_fails, ConnectorInv
  <2>3. flow' = [flow EXCEPT ![f] = g] /\ UNCHANGED <<mcp, regs, late>>
    BY <1>11 DEF seal_fails
  <2> HIDE DEF g
  <2> QED
    BY <1>0, <2>1, <2>2, <2>3, FlowStep
<1>12. CASE UNCHANGED connectorVars
  BY <1>12 DEF connectorVars, ConnectorInv, ConnectorTypes, InForce
<1> QED
  BY <1>1, <1>2, <1>3, <1>4, <1>5, <1>6, <1>7, <1>8, <1>9, <1>10, <1>11, <1>12
     DEF ConnectorNext

\* The initial states satisfy it.
LEMMA ConnectorStart == ConnectorInit => ConnectorInv
<1> SUFFICES ASSUME ConnectorInit PROVE ConnectorInv
  OBVIOUS
<1>1. mcp = NoRow /\ regs = 0 /\ late = FALSE /\ flow = [f \in Flows |-> Unstarted]
  BY DEF ConnectorInit
<1>2. ConnectorTypes
  <2>1. flow \in [Flows -> FlowRecords]
    BY <1>1, ConnectorRecords
  <2>2. 0 \in 0..MaxClients
    BY ConnectorAssumption
  <2> QED
    BY <1>1, <2>1, <2>2, ConnectorRecords DEF ConnectorTypes
<1>3. \A f \in Flows : flow[f].row.secret = 0 /\ flow[f].at = "none"
  BY <1>1, ConnectorRecords
<1> QED
  BY <1>1, <1>2, <1>3, ConnectorRecords DEF ConnectorInv, InForce

\* It implies that a grant stays in force.
LEMMA ConnectorUse == ConnectorInv => GrantStaysInForce
BY DEF ConnectorInv, GrantStaysInForce, Offered, InForce, ConnectorTypes, McpRows

\* The client on a connector's row is the one its token set was issued to,
\* and the server is offered to the agent unless a refusal was written late:
\* for any number of overlapping authorizations, refusals and removals.
THEOREM GrantStaysInForceHolds == ConnectorSpec => []GrantStaysInForce
BY ConnectorStart, ConnectorStep, ConnectorUse, PTL DEF ConnectorSpec

(***************************************************************************)
(* Vault.  The associated data tells places apart, because neither part of *)
(* a place may hold the separator.  What is in a row was sealed by one     *)
(* store, for one place, whichever row it is in by now.                    *)
(***************************************************************************)

\* The associated data of a place that has one is its two parts, joined.
LEMMA AadShape ==
    ASSUME NEW p \in Places, aad(p) # None
    PROVE  /\ p[1] \in Idents /\ p[2] \in Idents /\ p = <<p[1], p[2]>>
           /\ ~ Ambiguous(p[1]) /\ ~ Ambiguous(p[2])
           /\ aad(p) = p[1] \o <<":">> \o p[2]
BY DEF aad, Places

\* Where the separator is tells where the first part ends.
LEMMA JoinPrefix ==
    ASSUME NEW T, NEW a \in Seq(T), NEW b \in Seq(T), NEW c \in Seq(T), NEW d \in Seq(T),
           \A k \in DOMAIN c : c[k] # ":",
           a \o <<":">> \o b = c \o <<":">> \o d
    PROVE  ~ (Len(a) < Len(c))
<1> DEFINE U == T \cup {":"}
           n == Len(a) + 1
<1>1. a \in Seq(U) /\ b \in Seq(U) /\ c \in Seq(U) /\ d \in Seq(U) /\ <<":">> \in Seq(U)
  OBVIOUS
<1>2. SUFFICES ASSUME Len(a) < Len(c) PROVE FALSE
  OBVIOUS
<1>3. (a \o <<":">>) \in Seq(U) /\ (c \o <<":">>) \in Seq(U)
      /\ Len(a \o <<":">>) = Len(a) + 1 /\ Len(c \o <<":">>) = Len(c) + 1
  BY <1>1
<1>4. n \in 1..Len(a \o <<":">>) /\ n \in 1..Len(c) /\ n \in 1..Len(c \o <<":">>)
  BY <1>1, <1>2, <1>3
<1>5. ((a \o <<":">>) \o b)[n] = (a \o <<":">>)[n]
  BY <1>1, <1>3, <1>4
<1>6. (a \o <<":">>)[n] = ":"
  BY <1>1
<1>7. ((c \o <<":">>) \o d)[n] = (c \o <<":">>)[n]
  BY <1>1, <1>3, <1>4
<1>8. (c \o <<":">>)[n] = c[n]
  BY <1>1, <1>4
<1>9. DOMAIN c = 1..Len(c)
  BY <1>1
<1>10. c[n] # ":"
  BY <1>4, <1>9
<1>11. ((a \o <<":">>) \o b)[n] = ((c \o <<":">>) \o d)[n]
  OBVIOUS
<1> QED
  BY <1>5, <1>6, <1>7, <1>8, <1>10, <1>11

\* So two places with the same associated data are the same place.
LEMMA AadInjective ==
    ASSUME NEW p \in Places, NEW q \in Places, aad(p) # None, aad(p) = aad(q)
    PROVE  p = q
<1> DEFINE a == p[1] b == p[2] c == q[1] d == q[2]
<1>1. /\ a \in Idents /\ b \in Idents /\ c \in Idents /\ d \in Idents
      /\ p = <<a, b>> /\ q = <<c, d>>
      /\ ~ Ambiguous(a) /\ ~ Ambiguous(b) /\ ~ Ambiguous(c) /\ ~ Ambiguous(d)
      /\ a \o <<":">> \o b = c \o <<":">> \o d
  BY AadShape
<1> DEFINE T == {a[k] : k \in DOMAIN a} \cup {b[k] : k \in DOMAIN b}
                \cup {c[k] : k \in DOMAIN c} \cup {d[k] : k \in DOMAIN d}
<1> HIDE DEF a, b, c, d
<1>2. /\ a \in Seq({a[k] : k \in DOMAIN a}) /\ b \in Seq({b[k] : k \in DOMAIN b})
      /\ c \in Seq({c[k] : k \in DOMAIN c}) /\ d \in Seq({d[k] : k \in DOMAIN d})
  BY <1>1, VaultAssumption
<1>3. a \in Seq(T) /\ b \in Seq(T) /\ c \in Seq(T) /\ d \in Seq(T)
  BY <1>2
<1> HIDE DEF T
<1>4. (\A k \in DOMAIN a : a[k] # ":") /\ (\A k \in DOMAIN c : c[k] # ":")
  BY <1>1 DEF Ambiguous
<1>5. ~ (Len(a) < Len(c)) /\ ~ (Len(c) < Len(a))
  BY <1>1, <1>3, <1>4, JoinPrefix
<1>6. Len(a) \in Nat /\ Len(c) \in Nat /\ Len(b) \in Nat /\ Len(d) \in Nat
  BY <1>3
<1>7. Len(a) = Len(c)
  BY <1>5, <1>6
<1> DEFINE U == T \cup {":"}
           l == a \o <<":">>
           m == c \o <<":">>
<1>8. a \in Seq(U) /\ b \in Seq(U) /\ c \in Seq(U) /\ d \in Seq(U) /\ <<":">> \in Seq(U)
  BY <1>3
<1>9. l \in Seq(U) /\ m \in Seq(U) /\ Len(l) = Len(a) + 1 /\ Len(m) = Len(c) + 1
  BY <1>8
<1>10. \A k \in 1..Len(a) : l[k] = a[k] /\ m[k] = c[k]
  BY <1>7, <1>8
<1> HIDE DEF l, m, U
<1>11. l \o b = m \o d
  BY <1>1 DEF l, m
<1>12. Len(l \o b) = Len(l) + Len(b) /\ Len(m \o d) = Len(m) + Len(d)
  BY <1>8, <1>9, ConcatProperties
<1>13. Len(l) = Len(m) /\ Len(b) = Len(d)
  BY <1>6, <1>7, <1>9, <1>11, <1>12
<1>14. \A k \in 1..Len(l) : (l \o b)[k] = l[k] /\ (m \o d)[k] = m[k]
  <2>1. \A k \in 1..Len(l) : (l \o b)[k] = l[k]
    BY <1>6, <1>8, <1>9, ConcatProperties
  <2>2. \A k \in 1..Len(m) : (m \o d)[k] = m[k]
    BY <1>8, <1>9, ConcatProperties
  <2> QED
    BY <2>1, <2>2, <1>13
<1>15. \A k \in 1..Len(b) : (l \o b)[Len(l) + k] = b[k] /\ (m \o d)[Len(l) + k] = d[k]
  BY <1>8, <1>9, <1>13
<1>16. \A k \in 1..Len(a) : a[k] = c[k]
  <2> SUFFICES ASSUME NEW k \in 1..Len(a) PROVE a[k] = c[k]
    OBVIOUS
  <2>1. k \in 1..Len(l)
    BY <1>6, <1>9
  <2>2. l[k] = m[k]
    BY <2>1, <1>11, <1>14
  <2> QED
    BY <2>2, <1>10
<1>17. \A k \in 1..Len(b) : b[k] = d[k]
  BY <1>11, <1>15
<1>18. a = c
  BY <1>3, <1>7, <1>16, SMTT(20)
<1>19. b = d
  BY <1>3, <1>13, <1>17
<1> QED
  BY <1>1, <1>18, <1>19

\* What one store put into an envelope, under the key in force then.
SealedBy(is, q, n, key) ==
    /\ is.cipher = [key |-> <<"dek", n>>, data |-> aad(q), plain |-> <<q, n>>]
    /\ is.wrapped = [key |-> key, data |-> aad(q), plain |-> <<"dek", n>>]

RowSound(p, row) ==
    /\ aad(p) # None
    /\ row.for[1] = p
    /\ row.mode = "real" => row.under[1] = "kms"
    /\ \E q \in Places, n \in 1..MaxSeals, key \in {build_key_manager(e) : e \in Environments} :
          /\ SealedBy(row.is, q, n, key)
          /\ ~ row.moved => q = p /\ row.for = <<p, n>> /\ key = row.under

VaultInv ==
    /\ env \in [Processes -> Environments]
    /\ DOMAIN vaultrows \subseteq Places
    /\ \A p \in DOMAIN vaultrows : RowSound(p, vaultrows[p])
    /\ sealed_n \in [seals : 0..MaxSeals, deploys : 0..MaxRedeploys, moves : 0..MaxMoves]
    /\ OpensItsOwn
    /\ stored # None /\ stored.named => stored.ready = stored.ok

\* Real mode seals under Cloud KMS or not at all.
LEMMA RealIsKms ==
    ASSUME NEW e \in Environments, build_key_manager(e) # None, e.mode = "real"
    PROVE  build_key_manager(e)[1] = "kms"
BY DEF build_key_manager, Environments

LEMMA VaultStart == VaultInit => VaultInv
<1> SUFFICES ASSUME VaultInit PROVE VaultInv
  OBVIOUS
<1>1. env \in [Processes -> Environments]
  <2>1. {e \in Environments : e.sdk /\ e.mode = "fake" /\ e.key = "named" /\ e.kek = "default"}
          \subseteq Environments
    OBVIOUS
  <2> QED
    BY <2>1 DEF VaultInit
<1>2. vaultrows = <<>> /\ DOMAIN vaultrows = {}
  BY DEF VaultInit
<1>3. sealed_n \in [seals : 0..MaxSeals, deploys : 0..MaxRedeploys, moves : 0..MaxMoves]
  <2>1. sealed_n = [seals |-> 0, deploys |-> 0, moves |-> 0]
    BY DEF VaultInit
  <2>2. 0 \in 0..MaxSeals /\ 0 \in 0..MaxRedeploys /\ 0 \in 0..MaxMoves
    <3>1. MaxSeals \in Nat /\ MaxRedeploys \in Nat /\ MaxMoves \in Nat
      BY VaultAssumption
    <3> QED
      BY <3>1
  <2> QED
    BY <2>1, <2>2
<1>4. opened = None /\ stored = None
  BY DEF VaultInit
<1>5. \A p \in DOMAIN vaultrows : RowSound(p, vaultrows[p])
  BY <1>2
<1>6. DOMAIN vaultrows \subseteq Places
  BY <1>2
<1> QED
  BY <1>1, <1>3, <1>4, <1>5, <1>6 DEF VaultInv, OpensItsOwn

\* A store leaves a sound row, or none.
LEMMA StoreStep ==
    ASSUME VaultInv, NEW place \in Places, store_credential(place)
    PROVE  VaultInv'
<1> DEFINE n == sealed_n.seals + 1
           K == build_key_manager(env.api)
           ok == Usable(env.api) /\ aad(place) # None
           row == [is |-> seal(env.api, n, aad(place), <<place, n>>), for |-> <<place, n>>,
                   under |-> K, mode |-> env.api.mode, moved |-> FALSE]
<1>1. n \in 1..MaxSeals /\ env.api \in Environments
  BY VaultAssumption DEF store_credential, VaultInv, Processes
<1>2. sealed_n' \in [seals : 0..MaxSeals, deploys : 0..MaxRedeploys, moves : 0..MaxMoves]
  BY <1>1 DEF store_credential, VaultInv
<1>3. stored' # None /\ stored'.named => stored'.ready = stored'.ok
  <2> DEFINE ready == vault_status(env.api)
             named == aad(place) # None
  <2>1. stored' = [ok |-> ok, ready |-> ready, named |-> named]
    BY DEF store_credential
  <2>2. named => ready = ok
    BY DEF vault_status, Usable
  <2> HIDE DEF ready, named, ok
  <2>3. stored'.named = named /\ stored'.ready = ready /\ stored'.ok = ok
    BY <2>1
  <2> QED
    BY <2>2, <2>3, Zenon
<1>4. OpensItsOwn'
  BY DEF store_credential, OpensItsOwn
<1>5. CASE ~ ok
  <2>1. UNCHANGED <<env, vaultrows>>
    BY <1>5 DEF store_credential
  <2> QED
    BY <1>2, <1>3, <1>4, <2>1 DEF VaultInv
<1>6. CASE ok
  <2>1. K # None /\ aad(place) # None
    BY <1>6 DEF Usable
  <2>2. RowSound(place, row)
    <3>1. SealedBy(row.is, place, n, K)
      BY DEF SealedBy, seal, wrap, Encrypt
    <3>2. row.mode = "real" => row.under[1] = "kms"
      BY <1>1, <2>1, RealIsKms
    <3>3. row.for[1] = place /\ row.for = <<place, n>> /\ K = row.under
      OBVIOUS
    <3> QED
      BY <1>1, <2>1, <3>1, <3>2, <3>3 DEF RowSound
  <2> HIDE DEF row
  <2>3. vaultrows' = [p \in DOMAIN vaultrows \cup {place} |-> IF p = place THEN row ELSE vaultrows[p]]
    BY <1>6 DEF store_credential, row
  <2>4. DOMAIN vaultrows' = DOMAIN vaultrows \cup {place}
    BY <2>3
  <2>5. \A p \in DOMAIN vaultrows' : RowSound(p, vaultrows'[p])
    BY <2>2, <2>3, <2>4 DEF VaultInv
  <2>6. env' = env
    BY DEF store_credential
  <2> HIDE DEF n, K, ok
  <2> QED
    BY <1>2, <1>3, <1>4, <2>4, <2>5, <2>6 DEF VaultInv
<1> QED
  BY <1>5, <1>6

\* What a worker is handed was stored for the place it asked for: the envelope
\* opens only under the associated data of the place it was sealed for.
LEMMA LoadStep ==
    ASSUME VaultInv, NEW place \in Places, load_credential(place)
    PROVE  VaultInv'
<1> DEFINE row == vaultrows[place]
           e == env.worker
           got == IF Usable(e) THEN open_sealed(e, row.is, aad(place)) ELSE None
           same == Usable(e) /\ build_key_manager(e) = row.under
<1>1. RowSound(place, row)
  BY DEF load_credential, VaultInv
<1>2. PICK q \in Places, n \in 1..MaxSeals, key \in {build_key_manager(x) : x \in Environments} :
          /\ SealedBy(row.is, q, n, key)
          /\ ~ row.moved => q = place /\ row.for = <<place, n>> /\ key = row.under
  BY <1>1 DEF RowSound
<1>3. row.for[1] = place /\ aad(place) # None
  BY <1>1 DEF RowSound
<1>4. opened' = [got |-> got, for |-> row.for, moved |-> row.moved, same |-> same]
  BY DEF load_credential
<1>5. <<"dek", n>> # None
  BY VaultAssumption
<1>6. unwrap(e, row.is.wrapped, aad(place)) =
          IF key = build_key_manager(e) /\ aad(q) = aad(place) THEN <<"dek", n>> ELSE None
  BY <1>2 DEF SealedBy, unwrap, Decrypt
<1>7. open_sealed(e, row.is, aad(place)) =
          IF key = build_key_manager(e) /\ aad(q) = aad(place) THEN <<q, n>> ELSE None
  BY <1>2, <1>5, <1>6 DEF SealedBy, open_sealed, Decrypt
<1>8. got # None => got[1] = row.for[1]
  <2> SUFFICES ASSUME got # None PROVE got[1] = row.for[1]
    OBVIOUS
  <2>1. got = <<q, n>> /\ aad(q) = aad(place)
    BY <1>7
  <2>2. q = place
    BY <1>3, <2>1, AadInjective
  <2> QED
    BY <1>3, <2>1, <2>2
<1>9. same /\ ~ row.moved => got = row.for
  BY <1>2, <1>7
<1>10. OpensItsOwn'
  <2> HIDE DEF got, same, row
  <2> QED
    BY <1>4, <1>8, <1>9 DEF OpensItsOwn
<1> QED
  BY <1>10 DEF load_credential, VaultInv

\* A row written back over another keeps what one store sealed.
LEMMA MoveStep ==
    ASSUME VaultInv, NEW from \in Places, NEW to \in Places, move_row(from, to)
    PROVE  VaultInv'
<1> DEFINE row == [vaultrows[to] EXCEPT !.is = vaultrows[from].is, !.moved = TRUE]
<1>1. RowSound(from, vaultrows[from]) /\ RowSound(to, vaultrows[to])
      /\ from \in DOMAIN vaultrows /\ to \in DOMAIN vaultrows
  BY DEF move_row, VaultInv
<1>2. RowSound(to, row)
  BY <1>1 DEF RowSound
<1>3. vaultrows' = [vaultrows EXCEPT ![to] = row]
  BY DEF move_row
<1> HIDE DEF row
<1>4. DOMAIN vaultrows' = DOMAIN vaultrows
  BY <1>3
<1>5. \A p \in DOMAIN vaultrows' : RowSound(p, vaultrows'[p])
  BY <1>1, <1>2, <1>3, <1>4 DEF VaultInv
<1>6. sealed_n' \in [seals : 0..MaxSeals, deploys : 0..MaxRedeploys, moves : 0..MaxMoves]
  BY VaultAssumption DEF move_row, VaultInv
<1>7. env' = env /\ opened' = None /\ stored' = None
  BY DEF move_row
<1> QED
  BY <1>4, <1>5, <1>6, <1>7 DEF VaultInv, OpensItsOwn

\* Every step keeps the invariant.
LEMMA VaultStep == VaultInv /\ [VaultNext]_vaultVars => VaultInv'
<1> SUFFICES ASSUME VaultInv, [VaultNext]_vaultVars PROVE VaultInv'
  OBVIOUS
<1>1. ASSUME NEW p \in Processes, redeploy_vault(p) PROVE VaultInv'
  <2>1. env' \in [Processes -> Environments]
    BY <1>1 DEF redeploy_vault, VaultInv
  <2>2. sealed_n' \in [seals : 0..MaxSeals, deploys : 0..MaxRedeploys, moves : 0..MaxMoves]
    BY <1>1, VaultAssumption DEF redeploy_vault, VaultInv
  <2> QED
    BY <1>1, <2>1, <2>2 DEF redeploy_vault, VaultInv, OpensItsOwn
<1>2. CASE UNCHANGED vaultVars
  BY <1>2 DEF vaultVars, VaultInv, OpensItsOwn
<1> QED
  BY <1>1, <1>2, StoreStep, LoadStep, MoveStep DEF VaultNext

\* It implies what the vault promises.
LEMMA VaultUse == VaultInv => VaultHolds
BY DEF VaultInv, VaultHolds, ReadyMeansSealed, RowSound

\* No worker is handed another row's secret, whatever is written back over what
\* and however often the processes are redeployed; what the health document calls
\* ready does seal; and real mode seals under Cloud KMS alone.
THEOREM VaultHoldsAlways == VaultSpec => []VaultHolds
BY VaultStart, VaultStep, VaultUse, PTL DEF VaultSpec

(***************************************************************************)
(* Types                                                                   *)
(***************************************************************************)

\* What the sign-in limiter's invariant says of its types
LEMMA ThrottleTyped == ThrottleInv => ThrottleTypeOK
<1> SUFFICES ASSUME ThrottleInv PROVE ThrottleTypeOK
  OBVIOUS
<1>1. now \in 0..MaxTicks /\ window \in [started : 0..now, failures : 0..(MaxFailures + 1)]
  BY ThrottleAssumption DEF ThrottleInv
<1>2. served \in Seq(0..now)
  <2>1. /\ served \in Seq(Nat) /\ \A k \in 1..Len(served) : served[k] <= now /\ served[k] \in Nat
        /\ now \in Nat /\ Len(served) \in Nat /\ DOMAIN served = 1..Len(served)
        /\ served = [k \in 1..Len(served) |-> served[k]]
    BY DEF ThrottleInv
  <2>2. \A k \in 1..Len(served) : served[k] \in 0..now
    BY <2>1
  <2> QED
    BY <2>1, <2>2
<1> QED
  BY <1>1, <1>2 DEF ThrottleTypeOK

\* What the feeds' invariant says of its types
LEMMA FeedTyped == FeedInv => FeedTypeOK
  BY FeedAssumption DEF FeedInv, FeedTypes, FeedTypeOK, FeedRequests, FeedReaders

\* What the vault's invariant says of its types
LEMMA VaultTyped == VaultInv => VaultTypeOK
  BY DEF VaultInv, VaultTypeOK

\* What the connectors' invariant says of its types
LEMMA ConnectorTyped == ConnectorInv => ConnectorTypeOK
  BY DEF ConnectorInv, ConnectorTypes, ConnectorTypeOK, McpRows, FlowRecords

\* Everything sign-in and OAuth keep has its type at the start and after every step.
LEMMA AccessTyped ==
    /\ AccessInit => AccessTypeOK
    /\ AccessInv /\ AccessTypeOK /\ [AccessNext]_accessVars => AccessTypeOK'
<1>1. AccessInv /\ allowed \subseteq Emails /\ clients \subseteq Clients => AccessTypeOK
  BY DEF AccessInv, AccessTypes, AccessTypeOK, SignInRecords, SessionRows, RefreshRows, TokenRows
<1>2. AccessInit => AccessTypeOK
  BY <1>1, AccessStart DEF AccessInit
<1>3. ASSUME AccessInv, AccessTypeOK, [AccessNext]_accessVars PROVE AccessTypeOK'
  <2>1. AccessInv'
    BY <1>3, AccessStep
  <2>2. allowed \subseteq Emails /\ clients \subseteq Clients
    BY <1>3 DEF AccessTypeOK
  <2>3. (allowed \subseteq Emails /\ clients \subseteq Clients)'
    <3>1. CASE \E c \in Clients : authorize(c) \/ register_client(c)
      BY <2>2, <3>1 DEF authorize, register_client
    <3>2. CASE sweep_clients
      BY <2>2, <3>2 DEF sweep_clients, purge_unused_clients
    <3>3. CASE \E list \in SUBSET Emails : redeploy(list)
      BY <2>2, <3>3 DEF redeploy
    <3>4. CASE UNCHANGED <<allowed, clients>>
      BY <2>2, <3>4
    <3> QED
      BY <1>3, <3>1, <3>2, <3>3, <3>4
         DEF AccessNext, accessVars, start_login, start_native_login, complete_login,
             complete_authorization, redeem_native_login, mint,
             exchange_authorization_code, signin_expires, exchange_refresh_token,
             revoke_refresh_token, refresh_expires, require_admin, create_api_token,
             logout, delisted_session, revoke_access_token, session_expires,
             revoke_api_token, delisted_api_token, logout_everywhere,
             delete_refresh_tokens, delete_sessions
  <2> QED
    BY <2>1, <2>3
    DEF AccessInv, AccessTypes, AccessTypeOK, SignInRecords, SessionRows, RefreshRows, TokenRows
<1> QED
  BY <1>2, <1>3
\* So has everything the tool server keeps.
LEMMA McpTyped ==
    /\ McpInit => McpTypeOK
    /\ McpInv /\ McpTypeOK /\ [McpNext]_mcpVars => McpTypeOK'
<1> USE McpToolsAssumption
<1>1. McpInit => McpTypeOK
  <2>1. <<>> \in Seq(1..MaxLifespans)
    OBVIOUS
  <2> QED
    BY <2>1, McpStart DEF McpInit, McpTypeOK, McpInv, CallsSound, CallRecord
<1>2. ASSUME McpInv, McpTypeOK, [McpNext]_mcpVars PROVE McpTypeOK'
  <2>1. McpInv'
    BY <1>2, McpStep
  <2>2. lifespans.started \in 0..MaxLifespans /\ lifespans.running \subseteq 1..lifespans.started
    BY <1>2 DEF McpTypeOK
  <2>3. (lifespans.started \in 0..MaxLifespans /\ lifespans.running \subseteq 1..lifespans.started)'
    <3>1. CASE running_starts
      BY <2>2, <3>1 DEF running_starts
    <3>2. CASE running_ends
      BY <1>2, <2>2, <3>2 DEF running_ends, McpInv, TransportsSound
    <3>3. ASSUME NEW r \in Calls, endpoint_call(r) \/ authenticate(r) \/ call_tool(r)
                 \/ tool_raises(r) \/ handler_commits(r) \/ run_returns(r)
          PROVE  UNCHANGED lifespans
      <4>1. CASE endpoint_call(r)
        BY <4>1, Zenon DEF endpoint_call, Finish
      <4>2. CASE authenticate(r)
        BY <4>2, Zenon DEF authenticate, Finish
      <4>3. CASE call_tool(r)
        BY <4>3, Zenon DEF call_tool, Finish
      <4>4. CASE tool_raises(r)
        BY <4>4 DEF tool_raises, Raised, Finish
      <4>5. CASE handler_commits(r)
        BY <4>5, Zenon DEF handler_commits, Finish
      <4>6. CASE run_returns(r)
        BY <4>6, Zenon DEF run_returns, Finish
      <4> QED
        BY <3>3, <4>1, <4>2, <4>3, <4>4, <4>5, <4>6
    <3>4. CASE UNCHANGED lifespans
      BY <2>2, <3>4
    <3>5. CASE UNCHANGED mcpVars
      BY <3>4, <3>5 DEF mcpVars
    <3> QED
      BY <1>2, <3>1, <3>2, <3>3, <3>4, <3>5 DEF McpNext, revoked_elsewhere
  <2>4. transports' \in Seq(1..MaxLifespans)
    <3>1. /\ transports' \in Seq(Nat) /\ Members(transports') = lifespans'.running
          /\ Len(transports') \in Nat
          /\ transports' = [i \in 1..Len(transports') |-> transports'[i]]
      BY <2>1 DEF McpInv, TransportsSound
    <3>2. \A i \in 1..Len(transports') : transports'[i] \in 1..MaxLifespans
      <4> TAKE i \in 1..Len(transports')
      <4>1. transports'[i] \in lifespans'.running
        BY <3>1 DEF Members
      <4>2. transports'[i] \in 1..lifespans'.started /\ lifespans'.started \in 0..MaxLifespans
        BY <4>1, <2>3
      <4> QED
        BY <4>2
    <3> QED
      BY <3>1, <3>2
  <2> QED
    BY <2>1, <2>3, <2>4 DEF McpInv, CallsSound, CallRecord, McpTypeOK
<1> QED
  BY <1>1, <1>2

=============================================================================

------------------------------ MODULE Throttle ------------------------------
(***************************************************************************)
(* The bound on failed authentications: one fixed window for the process.  *)
(* api/src/motet_api/throttle.py and deps.py.  Time is counted in ticks.   *)
(***************************************************************************)
EXTENDS Integers, Sequences

CONSTANTS
    MaxFailures,    \* MAX_FAILURES
    WindowTicks,    \* WINDOW_SECONDS
    MaxTicks        \* how long the clock runs (bound)

ASSUME ThrottleAssumption ==
    MaxFailures \in Nat \ {0} /\ WindowTicks \in Nat \ {0} /\ MaxTicks \in Nat

VARIABLES
    now,       \* time.monotonic()
    window,    \* when the window began, and the failures counted in it
    served     \* history: when each 401 was answered to a presented bearer

throttleVars == <<now, window, served>>

ThrottleInit ==
    /\ now = 0
    /\ window = [started |-> 0, failures |-> 0]
    /\ served = <<>>

\* The window's counter saturates one past the budget; nothing reads further.
ThrottleTypeOK ==
    /\ now \in 0..MaxTicks
    /\ window \in [started : 0..now, failures : 0..(MaxFailures + 1)]
    /\ served \in Seq(0..now)

\* FailureThrottle.record_failure, under its lock: the window after one failure
record_failure_next_tick(w) ==
    IF now - w.started >= WindowTicks THEN [started |-> now + 1, failures |-> 1]
    ELSE [w EXCEPT !.failures = IF @ > MaxFailures THEN @ ELSE @ + 1]
record_failure_keeps_start(w) ==
    IF now - w.started >= WindowTicks THEN [w EXCEPT !.failures = 1]
    ELSE [w EXCEPT !.failures = IF @ > MaxFailures THEN @ ELSE @ + 1]
record_failure(w) ==
    IF now - w.started >= WindowTicks THEN [started |-> now, failures |-> 1]
    ELSE [w EXCEPT !.failures = IF @ > MaxFailures THEN @ ELSE @ + 1]

\* _refused for a request that presented a bearer: 429 once over the budget
_refused ==
    /\ window' = record_failure(window)
    /\ served' = IF window'.failures > MaxFailures THEN served
                 ELSE Append(served, now)
    /\ now' = now

Tick ==
    /\ now < MaxTicks /\ now' = now + 1
    /\ UNCHANGED <<window, served>>

ThrottleNext == _refused \/ Tick

ThrottleSpec == ThrottleInit /\ [][ThrottleNext]_throttleVars

\* However the failures fall, no span as long as the window sees more than twice
\* the budget answered with a 401, each of which cost a database probe: the window
\* is fixed, so two budgets may meet across a boundary and never three.
RefusalsAreBounded ==
    \A k \in DOMAIN served :
        k + 2 * MaxFailures \in DOMAIN served =>
            served[k + 2 * MaxFailures] >= served[k] + WindowTicks

=============================================================================

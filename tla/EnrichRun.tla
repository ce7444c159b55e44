----------------------------- MODULE EnrichRun ------------------------------
(***************************************************************************)
(* One owner's enrichment runs, from the worker's handler through the      *)
(* service to the agent's event stream and back: what a run may spend,     *)
(* what of it is written down, and what of the transcript is kept.         *)
(* workers/src/motet_workers/enrich.py, db/src/motet_db/enrichment.py,     *)
(* enrich/src/motet_enrich/{app,runner,pi,prompt,redact,config,contract}.  *)
(*                                                                         *)
(* The handler runs one at a time per owner (module JobQueue) and waits    *)
(* for the answer inside its transaction; the service's run outlives a     *)
(* caller that hung up or died.  The agent and its tools are external: a   *)
(* stream of events with a running cost.  Everything happens within one    *)
(* rolling day of the spending cap.                                        *)
(***************************************************************************)
EXTENDS Base, Integers, FiniteSets

CONSTANTS
    Articles,      \* source items waiting for their article
    MaxUsdDay,     \* MOTET_ENRICH_MAX_USD_PER_DAY, in units of cost
    MaxUsdItem,    \* the cap the service allows a run
    MaxCallsRun,   \* the tool calls the service allows a run
    MaxLate,       \* events still read once the group was told to go (bound): all that
                   \* was in the pipe, and all the group emits in its grace period
    MaxEvents      \* events of one run's stream (bound)

ASSUME EnrichAssumption ==
    /\ {MaxUsdDay, MaxUsdItem, MaxCallsRun, MaxEvents} \subseteq Nat \ {0}
    /\ MaxLate \in Nat
    /\ None \notin Articles
    /\ None \notin {"timeout", "capped", "raised", "article", "stub", "blocked"}

\* external: the servers a run talks to, and what an event of each can bring.
\* The mailbox may name a tool of its own "browser_search".
Tools == {"browser__execute", "mail__search", "browser_search"}
Step == 2          \* the cost one event adds at the most

VARIABLES
    added,     \* whether the owner still has the site
    status,    \* per item, source_items.enrich_status
    held,      \* the handler: the item whose answer it waits for, and what it will do
    run_,      \* per item, the service's run of it
    ledger,    \* enrich_runs: the spend the cap sees, and the transcripts' contents
    jar,       \* the sealed browser state: the item whose run last signed in
    owed       \* history: what the agents charged, less what nobody was left to hear of

enrichVars == <<added, status, held, run_, ledger, jar, owed>>

NoRun == [at |-> "none", cost |-> 0, calls |-> 0, events |-> 0, stop |-> None,
          final |-> None, late |-> 0, login |-> FALSE, read |-> FALSE, kept |-> {}, cap |-> 0]

\* What is left to say of a run that is over
Over(r, at) == [NoRun EXCEPT !.at = at, !.login = at = "answered" /\ r.login]

\* A run nobody waits for any more goes on, under its caps; nothing of it, its
\* cost included, reaches the database, so it is followed no further.
Unheard(r) == Over(r, "lost")

EnrichInit ==
    /\ added = TRUE /\ status = [i \in Articles |-> "queued"] /\ held = None
    /\ run_ = [i \in Articles |-> NoRun]
    /\ ledger = [spent |-> 0, holds |-> {}] /\ jar = None
    /\ owed = 0

EnrichTypeOK ==
    /\ \A i \in Articles :
           /\ status[i] \in {"queued", "running", "done", "failed", "skipped"}
           /\ run_[i].at \in {"none", "up", "stopping", "gone", "answered", "lost"}
           /\ run_[i].stop \in {None, "timeout", "capped", "raised"}
    /\ held \in Articles \cup {None} /\ jar \in Articles \cup {None}
    /\ ledger.spent \in Nat /\ owed \in Nat

(***************************************************************************)
(* The handler, up to the call                                             *)
(***************************************************************************)

\* site_still_allowed: the site row is the permission, asked again at run time.
site_still_allowed == added

\* spend_since
spend_since == ledger.spent

\* clamp: a caller may ask for less than the service allows and never for more.
clamp_asked(asked) == asked
clamp(asked) == IF asked < MaxUsdItem THEN asked ELSE MaxUsdItem

\* mark_enrichment_finished, by _finish; integrate is queued with the preview as it is.
_finish(i, word) == status' = [status EXCEPT ![i] = word]

\* _record_skip: a row that costs nothing
_record_skip(i, word) == _finish(i, word) /\ UNCHANGED ledger

\* build_enrich_client: none where the deployment has no service, or it cannot be built.
build_enrich_client == {"client", "none"}

\* handle_enrich without a run: an interrupted predecessor, no client, the site gone,
\* the day's budget spent, or a start that could not be announced.
enrich_skipped(i, client, announced) ==
    /\ held = None
    /\ \/ status[i] = "running" /\ _record_skip(i, "failed")
       \/ /\ status[i] = "queued"
          /\ client = "none" \/ ~ site_still_allowed \/ spend_since >= MaxUsdDay
          /\ _record_skip(i, "skipped")
       \/ /\ status[i] = "queued" /\ client # "none" /\ ~ announced
          /\ site_still_allowed /\ spend_since < MaxUsdDay
          /\ _record_skip(i, "failed")
    /\ UNCHANGED <<added, held, run_, jar, owed>>

\* record_enrich_failure: the handler raised its way to the end of the ladder.
record_enrich_failure(i) ==
    /\ held = None /\ status[i] \in {"queued", "running"}
    /\ _record_skip(i, "failed")
    /\ UNCHANGED <<added, held, run_, jar, owed>>

\* _announce_running: durable before the agent starts, whatever becomes of the handler
_announce_running(i) == status' = [status EXCEPT ![i] = "running"]

\* _write_layout: a run whose files cannot be laid out never starts a process.
_write_layout(cap, laid_out) ==
    [NoRun EXCEPT !.cap = cap, !.at = IF laid_out THEN "up" ELSE "gone",
                  !.stop = IF laid_out THEN None ELSE "raised"]

\* handle_enrich up to the service's answer: the credentials are opened, the start is
\* announced, and the service clamps what it is asked for.
handle_enrich(i, asked, laid_out) ==
    /\ held = None /\ status[i] = "queued"
    /\ site_still_allowed /\ spend_since < MaxUsdDay
    /\ _announce_running(i)
    /\ held' = i
    /\ run_' = [run_ EXCEPT ![i] = _write_layout(clamp(asked), laid_out)]
    /\ UNCHANGED <<added, ledger, jar, owed>>

\* The owner deletes the site.
delete_site ==
    /\ added /\ added' = FALSE
    /\ UNCHANGED <<status, held, run_, ledger, jar, owed>>

(***************************************************************************)
(* The run                                                                 *)
(***************************************************************************)

\* is_browser_tool: the namespace, and nothing else
is_browser_tool_prefix(tool) == tool \in {"browser__execute", "browser_search"}
is_browser_tool(tool) == tool = "browser__execute"

\* Redactor over a kept string: the secrets the run was handed, wherever they stand, and
\* the shapes a secret usually takes.  A "token" is a secret of no such shape: it stays.
Redacted(pieces) == {p \in pieces : p[2] \notin {"password", "link"}}

\* strip_article: the fenced article comes out of the agent's message.
strip_article(pieces) == {p \in pieces : p[2] # "article"}

\* summarize_foreign_result: a foreign tool's result is replaced by its size.
_redacted(tool, result) == IF is_browser_tool(tool) THEN Redacted(result) ELSE {}

\* external: the events of a stream.  A call with its result, or a message.
Events ==
    {e \in [kind : {"tool"}, tool : Tools, login : BOOLEAN, cost : {0, Step}] :
         e.login => e.tool = "browser__execute"}
        \cup [kind : {"message"}, final : {"article", "stub", "blocked"}, cost : {0, Step}]

\* external: all that the strings of an event may hold, by who wrote them.  A page may
\* show anything, what was typed into it included, and the agent may repeat whatever it
\* has been shown; of the mailbox it has been shown nothing before it asked.
Known(r) == {"page", "password", "link", "token"} \cup (IF r.read THEN {"mail"} ELSE {})
Args(r) == {"agent"} \X Known(r)
Text(r) == {"agent"} \X (Known(r) \cup {"article"})
Result(r, tool) == IF tool = "browser__execute" THEN {"browser"} \X Known(r)
                   ELSE {"mailbox"} \X {"mail", "link", "token"}

\* What the transcript keeps of an event: arguments, result, text
Entries(r, e) ==
    IF e.kind = "tool" THEN Redacted(Args(r)) \cup _redacted(e.tool, Result(r, e.tool))
    ELSE Redacted(strip_article(Text(r)))

\* _Collected.absorb: the cost is cumulative, a call is counted, the last message is the
\* answer, and every one of them is an entry.
absorb(r, e) ==
    [r EXCEPT !.cost = @ + e.cost, !.events = @ + 1,
              !.late = @ + (IF r.at = "stopping" THEN 1 ELSE 0),
              !.calls = @ + (IF e.kind = "tool" THEN 1 ELSE 0),
              !.final = IF e.kind = "message" THEN e.final ELSE @,
              !.login = @ \/ (e.kind = "tool" /\ e.login),
              !.read = @ \/ (e.kind = "tool" /\ e.tool # "browser__execute"),
              !.kept = @ \cup Entries(r, e)]

\* _stop: the first reason stands, and the whole group is told to go.
_stop(r, reason) ==
    [r EXCEPT !.stop = IF @ = None THEN reason ELSE @,
              !.at = IF @ = "up" THEN "stopping" ELSE @]

\* _consume: lines already in the pipe are read after a stop as well.
_consume_uncapped(r, e) == absorb(r, e)
_consume(r, e) ==
    LET a == absorb(r, e)
    IN  IF a.calls > MaxCallsRun \/ a.cost > r.cap THEN _stop(a, "capped") ELSE a

stream(i, e) ==
    /\ run_[i].at \in {"up", "stopping"} /\ run_[i].events < MaxEvents
    /\ run_[i].at = "stopping" => run_[i].late < MaxLate
    /\ run_' = [run_ EXCEPT ![i] = _consume(@, e)]
    /\ owed' = owed + e.cost
    /\ UNCHANGED <<added, status, held, ledger, jar>>

\* The wall clock of the run, an exception while its stream is read, and the end of
\* the stream; _execute makes sure of the group before it returns.
timer(i) ==
    /\ run_[i].at = "up"
    /\ run_' = [run_ EXCEPT ![i] = _stop(@, "timeout")]
    /\ UNCHANGED <<added, status, held, ledger, jar, owed>>
run_raises(i) ==
    /\ run_[i].at \in {"up", "stopping"}
    /\ run_' = [run_ EXCEPT ![i] = [@ EXCEPT !.at = "gone", !.stop = "raised"]]
    /\ UNCHANGED <<added, status, held, ledger, jar, owed>>
_execute(i) ==
    /\ run_[i].at \in {"up", "stopping"}
    /\ run_' = [run_ EXCEPT ![i].at = "gone"]
    /\ UNCHANGED <<added, status, held, ledger, jar, owed>>

\* parse_answer: a message that brings no article is a wall, whatever it calls itself.
parse_answer(final) == IF final = "blocked" THEN "blocked" ELSE "ok"

\* _verdict
_verdict(r) ==
    CASE r.stop = "raised" -> "failed"
      [] r.stop \in {"timeout", "capped"} -> r.stop
      [] r.stop = None /\ r.final = None -> "failed"
      [] OTHER -> parse_answer(r.final)

\* run and _assemble: on every outcome the answer carries the cost, the transcript and
\* the browser's cookies.
Answer_failed_costs_nothing(r) ==
    [status |-> _verdict(r), cost |-> IF r.stop = "raised" THEN 0 ELSE r.cost,
     login |-> r.login, kept |-> r.kept]
Answer_cookies_if_ok(r) ==
    [status |-> _verdict(r), cost |-> r.cost,
     login |-> r.login /\ _verdict(r) = "ok", kept |-> r.kept]
Answer(r) ==
    [status |-> _verdict(r), cost |-> r.cost, login |-> r.login, kept |-> r.kept]

(***************************************************************************)
(* The handler, from the answer on                                         *)
(***************************************************************************)

\* _record: the run's row, with its cost and its transcript
_record_run(l, a) == [spent |-> l.spent + a.cost, holds |-> l.holds \cup a.kept]

\* _store_browser_state: whatever cookies came back, unless they cannot be sealed
_store_browser_state(i, a, sealed) == IF a.login /\ sealed THEN i ELSE jar

\* _apply: the article if it is one (MIN_ARTICLE_CHARS), the run always, the cookies
_apply(i, sealed) ==
    LET a == Answer(run_[i])
        ok == a.status = "ok" /\ run_[i].final = "article"
    IN  /\ held = i /\ run_[i].at = "gone"
        /\ _finish(i, IF ok THEN "done" ELSE "failed")
        /\ ledger' = _record_run(ledger, a)
        /\ jar' = _store_browser_state(i, a, sealed)
        /\ run_' = [run_ EXCEPT ![i] = Over(@, IF sealed THEN "answered" ELSE "lost")]
        /\ held' = None
        /\ UNCHANGED <<added, owed>>

\* The call failed or timed out while the run goes on, so it is not tried again: the
\* preview integrates, and what the run costs is never seen.
call_failed(i) ==
    /\ held = i
    /\ _record_skip(i, "failed")
    /\ held' = None
    /\ owed' = owed - run_[i].cost
    /\ run_' = [run_ EXCEPT ![i] = Unheard(@)]
    /\ UNCHANGED <<added, jar>>

\* The worker dies: its transaction is rolled back and the announcement is not.
enrich_worker_dies(i) ==
    /\ held = i
    /\ held' = None
    /\ owed' = owed - run_[i].cost
    /\ run_' = [run_ EXCEPT ![i] = Unheard(@)]
    /\ UNCHANGED <<added, status, ledger, jar>>

EnrichNext ==
    \/ delete_site
    \/ \E i \in Articles :
           \/ \E client \in build_enrich_client, announced \in BOOLEAN :
                  enrich_skipped(i, client, announced)
           \/ record_enrich_failure(i)
           \/ \E asked \in {MaxUsdItem, MaxUsdItem + 4}, laid_out \in BOOLEAN :
                  handle_enrich(i, asked, laid_out)
           \/ \E e \in Events : stream(i, e)
           \/ timer(i) \/ run_raises(i) \/ _execute(i)
           \/ \E sealed \in BOOLEAN : _apply(i, sealed)
           \/ call_failed(i) \/ enrich_worker_dies(i)

EnrichSpec == EnrichInit /\ [][EnrichNext]_enrichVars

(***************************************************************************)
(* Properties                                                              *)
(***************************************************************************)

HeldCost == IF held = None THEN 0 ELSE run_[held].cost

\* Whatever way a run ended, what it cost is in the rows the daily cap is summed from,
\* unless nobody was left to hear the answer.
SpendIsSeen == owed = ledger.spent + HeldCost

\* So the day ends within one run of its cap: the last run to start found the cap
\* unspent, and was itself stopped at the event that passed its own, or at the last of
\* those it still emitted.
DayIsCapped == ledger.spent <= (MaxUsdDay - 1) + (MaxUsdItem + (1 + MaxLate) * Step)

\* What the mailbox answered is in no transcript: what there is of it the agent repeated
\* itself, in its words, its arguments or a page, after it had read it.  Nor is a secret
\* the run was handed or one of a known shape, nor the article's block.
TranscriptIsSifted ==
    /\ \A piece \in ledger.holds :
           piece[1] # "mailbox" /\ piece[2] \notin {"password", "link", "article"}
    /\ \A i \in Articles :
           {<<"agent", "mail">>, <<"browser", "mail">>} \cap run_[i].kept # {} => run_[i].read

\* A login a run paid for is the one the next run starts from, however the run ended.
LoginIsKept ==
    \A i \in Articles : run_[i].at = "answered" /\ run_[i].login => jar # None

RunsAreAccountable == SpendIsSeen /\ DayIsCapped /\ TranscriptIsSifted /\ LoginIsKept

=============================================================================

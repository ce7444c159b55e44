---------------------------- MODULE ModelGateway ----------------------------
(***************************************************************************)
(* Which model a stage runs on, what a completion may come back as, and    *)
(* where its bill ends up.                                                 *)
(* inference/src/motet_inference/llm, inference/.../accounting.py,         *)
(* api/src/motet_api/admin_llm.py, workers/.../llm_context.py,             *)
(* db/src/motet_db/{settings,llm_usage}.py.                                *)
(*                                                                         *)
(* Admins save model and effort per stage into the settings table; a job   *)
(* reads the rows once and resolves them against its environment; a deploy *)
(* may change that environment, or the catalogue, under rows that stay.    *)
(* The vendor is external: it bills what it answers, usable or not.        *)
(***************************************************************************)
EXTENDS Base, Integers, FiniteSets, Sequences

CONSTANTS
    Tunable,       \* the stages admins save settings for (bound)
    Images,        \* deployments: a catalogue and an environment each
    Savers,        \* admins with a save under way at one time
    MaxSaves,      \* saves that commit (bound)
    MaxCalls,      \* completions billed (bound)
    MaxDeploys     \* deploys (bound)

ASSUME GatewayAssumption ==
    Tunable \subseteq {"dedup", "dedup_confirm", "script", "voice"} /\
    MaxSaves \in Nat /\ MaxCalls \in Nat /\ MaxDeploys \in Nat

LlmStage == {"dedup", "dedup_confirm", "script", "voice"}

\* The catalogue's kinds of model: what effort each takes, whether it caches for
\* an hour, and whether it decides itself to think.  "new" is a slug no catalogue has.
ModelSpec ==
    [sonnet |-> [efforts |-> {"low"}, hour |-> TRUE, adaptive |-> TRUE],
     haiku  |-> [efforts |-> {}, hour |-> TRUE, adaptive |-> FALSE],
     gpt    |-> [efforts |-> {"low"}, hour |-> FALSE, adaptive |-> FALSE]]
Slugs == DOMAIN ModelSpec \cup {"new"}
Efforts == {"low", "off"}

DEFAULT_MODEL == "sonnet"
DEFAULT_EFFORTS == [s \in LlmStage |-> IF s = "voice" THEN "off" ELSE "low"]
STAGES_CACHING_ONE_HOUR == {"dedup"}

\* A set of overrides: a model and an effort per stage, either absent.
NoRows == [s \in LlmStage |-> [model |-> None, effort |-> None]]

\* No job in hand
NoLlmJob == [stage |-> None, at |-> "idle", buffer |-> <<>>, thinking |-> <<>>]

VARIABLES
    deploy,    \* the running image: its catalogue and its environment
    rows,      \* the settings table
    saving,    \* per admin, the changes validated in a transaction not yet committed
    gate_job,  \* the job a worker runs, and what each stage's request will be
    bill,      \* completions: billed by the vendor, counted on the metric
    usage,     \* the llm_usage rows, per stage
    lapse,     \* history: bills the code knowingly lets go, and how
    count      \* saves and deploys so far

gatewayVars == <<deploy, rows, saving, gate_job, bill, usage, lapse, count>>

(***************************************************************************)
(* Resolving a configuration                                               *)
(***************************************************************************)

Given(v, fallback) == IF v = None THEN fallback ELSE v

\* load_config: per stage and per axis, a row outranks the stage's variable, that
\* the global one, and that the default.
load_config(d, settings) ==
    [s \in LlmStage |->
        [model  |-> Given(settings[s].model,
                          Given(d.stage[s].model, Given(d.model, DEFAULT_MODEL))),
         effort |-> Given(settings[s].effort,
                          Given(d.stage[s].effort, Given(d.effort, DEFAULT_EFFORTS[s])))]]

\* _check_model
_check_model(d, s, c) ==
    IF c.model \notin d.known THEN d.allow_unlisted
    ELSE /\ s \in STAGES_CACHING_ONE_HOUR => ModelSpec[c.model].hour
         /\ c.effort # "off" => c.effort \in ModelSpec[c.model].efforts

SettingsResolve(d, settings) ==
    \A s \in LlmStage : _check_model(d, s, load_config(d, settings)[s])

\* validate_overrides: a model row is of the catalogue, escape hatch or not.
validate_overrides(d, settings) ==
    /\ \A s \in LlmStage : settings[s].model \in d.known \cup {None}
    /\ SettingsResolve(d, settings)

\* An image boots only if its environment resolves on its own.
validate_startup(d) == SettingsResolve(d, NoRows)

ASSUME ImagesBoot == \A d \in Images : validate_startup(d)

GatewayInit ==
    /\ deploy \in Images /\ rows = NoRows
    /\ saving = [a \in Savers |-> None] /\ gate_job = NoLlmJob
    /\ bill = [s \in LlmStage |-> 0] /\ usage = [s \in LlmStage |-> 0]
    /\ lapse = [s \in LlmStage |-> 0]
    /\ count = [saves |-> 0, deploys |-> 0, sound |-> TRUE]

GatewayTypeOK ==
    /\ validate_startup(deploy)
    /\ \A s \in LlmStage : /\ rows[s].model \in Slugs \cup {None}
                           /\ rows[s].effort \in Efforts \cup {None}
    /\ \A s \in LlmStage : bill[s] \in 0..MaxCalls /\ usage[s] \in 0..MaxCalls
    /\ gate_job.at \in {"idle", "first", "again", "answered", "raised"}

(***************************************************************************)
(* Saving from the admin screen                                            *)
(***************************************************************************)

\* The body of a PUT names the axes it changes; "clear" deletes the row.
Changes == [model : Slugs \cup {"keep", "clear"}, effort : Efforts \cup {"keep", "clear"}]

Put(row, change) == IF change = "keep" THEN row ELSE IF change = "clear" THEN None ELSE change

\* put: the changed rows of one stage
put(table, s, ch) ==
    [table EXCEPT ![s].model = Put(@, ch.model), ![s].effort = Put(@, ch.effort)]

\* apply_update: the lock, the rows under it, the candidate's validation.  What
\* does not resolve is a 400 and writes nothing.
Locked == \E a \in Savers : saving[a] # None
apply_update_unlocked(a, s, ch) ==
    /\ validate_overrides(deploy, put(rows, s, ch))
    /\ saving' = [saving EXCEPT ![a] = [stage |-> s, change |-> ch]]
    /\ UNCHANGED <<deploy, rows, gate_job, bill, usage, lapse, count>>
apply_update(a, s, ch) ==
    /\ ~ Locked
    /\ validate_overrides(deploy, put(rows, s, ch))
    /\ saving' = [saving EXCEPT ![a] = [stage |-> s, change |-> ch]]
    /\ UNCHANGED <<deploy, rows, gate_job, bill, usage, lapse, count>>

\* put_llm_config: an admin, a stage, and a change that is not empty
put_llm_config(a) ==
    /\ saving[a] = None /\ count.saves < MaxSaves
    /\ \E s \in Tunable, ch \in Changes :
           /\ ch # [model |-> "keep", effort |-> "keep"]
           /\ apply_update(a, s, ch)

\* The request's transaction commits and lets go of the table.
commit_save(a) ==
    /\ saving[a] # None
    /\ rows' = put(rows, saving[a].stage, saving[a].change)
    /\ saving' = [saving EXCEPT ![a] = None]
    /\ count' = [count EXCEPT !.saves = @ + 1]
    /\ UNCHANGED <<deploy, gate_job, bill, usage, lapse>>

\* A new image: what was saved against the old one stays in the table.  A save
\* under way dies with the process that held it.
new_deploy(d) ==
    /\ count.deploys < MaxDeploys /\ d # deploy
    /\ deploy' = d
    /\ saving' = [a \in Savers |-> None]
    /\ count' = [count EXCEPT !.deploys = @ + 1, !.sound = FALSE]
    /\ UNCHANGED <<rows, gate_job, bill, usage, lapse>>

(***************************************************************************)
(* A job's completions                                                     *)
(***************************************************************************)

\* job_overrides: rows that cannot be read, or do not resolve, are not installed.
job_overrides_unchecked(readable) == IF readable THEN rows ELSE NoRows
job_overrides(readable) ==
    IF readable /\ validate_overrides(deploy, rows) THEN rows ELSE NoRows

\* build_request: what an answer without thinking would mean on the stage's model,
\* or that the pairing is refused
build_request(d, s, c) ==
    CASE ~ _check_model(d, s, c) -> "refused"
      [] c.effort = "off" -> "none"
      [] c.effort # "off" /\ c.model \notin d.known -> "unknown"
      [] OTHER -> IF ModelSpec[c.model].adaptive THEN "adaptive" ELSE "budget"

\* llm_job_context, entered: one reading of the rows for the whole job.
begin_llm_job(stage, readable) ==
    LET conf == load_config(deploy, job_overrides(readable))
    IN  /\ gate_job.at = "idle"
        /\ gate_job' = [stage |-> stage, at |-> "first", buffer |-> <<>>,
                        thinking |-> [s \in LlmStage \ {"voice"} |->
                                         build_request(deploy, s, conf[s])]]
        /\ UNCHANGED <<deploy, rows, saving, bill, usage, lapse, count>>

\* external: what the vendor may send back, billed in every case but the first
Deliveries == {"nothing", "answer", "unthought", "truncated", "empty"}

\* OpenRouterClient._parse, and complete before it
_parse(thinking, delivery) ==
    CASE delivery \in {"nothing", "empty"} -> "LlmTransportError"
      [] delivery = "truncated" -> "LlmBudgetExhaustedError"
      [] delivery = "unthought" /\ thinking = "budget" -> "ReasoningNotAppliedError"
      [] OTHER -> "response"

\* record_usage and record_budget_exhausted: metric, log line, and the sink of the job
Recorded(s, parsed) ==
    parsed = "response" \/ (parsed = "LlmBudgetExhaustedError" /\ s \in {"dedup_confirm", "voice"})
_record(j, s) == [j EXCEPT !.buffer = Append(@, s)]

Bump(f, s, yes) == IF yes THEN [f EXCEPT ![s] = @ + 1] ELSE f

CallsMade(f) == f["dedup"] + f["dedup_confirm"] + f["script"] + f["voice"]

\* One completion of stage s by the job: what it raises ends the job, except that
\* a second look answers "no" to everything but a fault of its own configuration.
complete(s, delivery, next) ==
    LET parsed == _parse(gate_job.thinking[s], delivery)
        billed == delivery # "nothing"
        swallowed == s = "dedup_confirm" /\ parsed # "ReasoningNotAppliedError"
    IN  /\ CallsMade(bill) < MaxCalls
        /\ bill' = Bump(bill, s, billed)
        /\ lapse' = Bump(lapse, s, billed /\ ~ Recorded(s, parsed))
        /\ gate_job' = [(IF Recorded(s, parsed) THEN _record(gate_job, s) ELSE gate_job)
                            EXCEPT !.at = IF parsed = "response" THEN next
                                          ELSE IF swallowed THEN "answered" ELSE "raised"]
        /\ UNCHANGED <<deploy, rows, saving, usage, count>>

\* ClaudeIntegrator.integrate, ClaudeScriptGenerator.generate: the first call; an
\* answer that cannot be read raises after it was recorded (parse_json_object), and
\* a related story asks for a second look.
first_call(delivery) ==
    /\ gate_job.at = "first"
    /\ \E next \in {"answered", "raised"} \cup
                   (IF gate_job.stage = "dedup" THEN {"again"} ELSE {}) :
           complete(gate_job.stage, delivery, next)

\* _is_same_event
second_look(delivery) ==
    /\ gate_job.at = "again"
    /\ complete("dedup_confirm", delivery, "answered")

\* _flush, after the handler's transaction has settled either way: the buffer goes
\* to the ledger on its own, or is dropped with a log line.
Flushed(j, written) ==
    IF written THEN [s \in LlmStage |-> usage[s] + Cardinality({i \in DOMAIN j.buffer :
                                                                   j.buffer[i] = s})]
    ELSE usage
_flush_with_the_work(written) ==
    /\ gate_job.at \in {"answered", "raised"}
    /\ usage' = Flushed(gate_job, written /\ gate_job.at = "answered")
    /\ lapse' = IF written THEN lapse
                ELSE [s \in LlmStage |-> lapse[s] + Flushed(gate_job, TRUE)[s] - usage[s]]
    /\ gate_job' = NoLlmJob
    /\ UNCHANGED <<deploy, rows, saving, bill, count>>
_flush(written) ==
    /\ gate_job.at \in {"answered", "raised"}
    /\ usage' = Flushed(gate_job, written)
    /\ lapse' = IF written THEN lapse
                ELSE [s \in LlmStage |-> lapse[s] + Flushed(gate_job, TRUE)[s] - usage[s]]
    /\ gate_job' = NoLlmJob
    /\ UNCHANGED <<deploy, rows, saving, bill, count>>

\* The worker dies inside the job, buffer and all.
llm_worker_dies ==
    /\ gate_job.at # "idle"
    /\ lapse' = [s \in LlmStage |-> lapse[s] + Flushed(gate_job, TRUE)[s] - usage[s]]
    /\ gate_job' = NoLlmJob
    /\ UNCHANGED <<deploy, rows, saving, bill, usage, count>>

\* totals and _fold: what the spend screen shows, by stage and by queue
QUEUE_STAGES == [integrate |-> {"dedup", "dedup_confirm"}, script |-> {"script"}]
totals == usage
SumOf(f, q) ==
    LET Of(s) == IF s \in QUEUE_STAGES[q] THEN f[s] ELSE 0
    IN  Of("dedup") + Of("dedup_confirm") + Of("script") + Of("voice")
_fold(q) == SumOf(totals, q)

GatewayNext ==
    \/ \E a \in Savers : put_llm_config(a) \/ commit_save(a)
    \/ \E d \in Images : new_deploy(d)
    \/ \E stage \in {"dedup", "script"}, readable \in BOOLEAN : begin_llm_job(stage, readable)
    \/ \E delivery \in Deliveries : first_call(delivery) \/ second_look(delivery)
    \/ \E written \in BOOLEAN : _flush(written)
    \/ llm_worker_dies

GatewaySpec == GatewayInit /\ [][GatewayNext]_gatewayVars

(***************************************************************************)
(* Properties                                                              *)
(***************************************************************************)

\* Until an image changes under them, the saved rows resolve as a whole: two admins
\* each saving one half of a pairing cannot store one no job could run on.
SavedRowsResolve == count.sound => validate_overrides(deploy, rows)

\* Whatever is in the table, a job runs on a configuration every stage of which its
\* image accepts: a bad row costs the override and never the job.
JobsCanRun ==
    \A s \in DOMAIN gate_job.thinking : gate_job.thinking[s] # "refused"

\* Every completion the vendor billed is in the ledger, on its queue, once the job is
\* over, whether or not the job's own work was rolled back: all but those the code
\* lets go (no usage read off an answer it refuses, a first call out of budget, a
\* ledger write that fails, a dead worker).
BilledIsBooked ==
    gate_job.at = "idle" =>
        \A q \in DOMAIN QUEUE_STAGES :
            _fold(q) = SumOf(bill, q) - SumOf(lapse, q)

\* The gateway's three promises.
GatewayIsSound == SavedRowsResolve /\ JobsCanRun /\ BilledIsBooked

=============================================================================

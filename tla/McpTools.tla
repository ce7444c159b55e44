------------------------------ MODULE McpTools ------------------------------
(***************************************************************************)
(* The MCP server at /mcp: the tool registry, the groups a connection      *)
(* selects, the scope a request binds for its tool call, the transport of  *)
(* each lifespan, and the one way a tool reaches a route's handler.        *)
(* api/src/motet_api/mcp/: registry, server, context and the tool modules. *)
(*                                                                         *)
(* Every tool is here by name; of its handler, what the connection can     *)
(* see: whether it changes a row, whether it arms the drain nudge, and     *)
(* whether it is for operators.                                            *)
(***************************************************************************)
EXTENDS Base, Integers, Sequences, FiniteSets

CONSTANTS
    Calls,          \* requests to /mcp
    Bearers,        \* of "shared", "admin", "grant", "pat" and "feed"
    Params,         \* values of ?tool_groups=, as sets of names
    AskedTools,          \* the tools that calls name
    MaxLifespans    \* lifespans of the app a process runs (bound)

ASSUME McpToolsAssumption ==
    /\ Bearers \subseteq {"shared", "admin", "grant", "pat", "feed"}
    /\ MaxLifespans \in Nat

VARIABLES
    transports,     \* McpEndpoint.running, oldest first
    lifespans,      \* lifespans started, and the ones whose session manager runs
    toolcall,            \* each request: where it is, what it asked, what became of it
    scope,          \* the context variables _caller, _tools, _request, per task
    known,           \* bearers the database still knows
    minted          \* whether the owner has a feed token

mcpVars == <<transports, lifespans, toolcall, scope, known, minted>>

(* ------------------------------ registry ------------------------------- *)

DEFAULT_GROUPS == {"backlog", "ingestion", "sources", "connectors", "episodes",
                   "feed", "highlights", "ops"}
OPT_IN_GROUPS == {"admin"}

\* ToolDef: a tool's group, and whether it is registered as a write
ToolDefs(group, reads, writes) ==
    {[name |-> n, group |-> group, write |-> n \in writes] : n \in reads \cup writes}

ALL_TOOLS ==
    UNION {
      ToolDefs("backlog", {"list_news_items", "get_news_item"}, {"set_news_item_read"}),
      ToolDefs("ingestion",
        {"get_ingestion_status", "list_held_source_items", "get_source_item",
         "get_enrich_transcript"},
        {"paste_text", "integrate_source_items", "dismiss_source_items"}),
      ToolDefs("sources", {"list_sources"},
        {"connect_source", "poll_source", "resync_source", "set_label_sync",
         "reauthorize_source", "disconnect_source", "remove_source"}),
      ToolDefs("connectors", {"list_connectors"},
        {"create_connector", "delete_connector", "authorize_connector"}),
      ToolDefs("episodes",
        {"list_episodes", "get_episode", "get_episode_transcript", "get_episode_chapters"},
        {"create_episode", "create_smart_episode", "rename_episode",
         "set_playback_position", "mark_episode_listened"}),
      ToolDefs("feed", {"get_feed"}, {"rotate_feed"}),
      ToolDefs("highlights", {"list_highlights"}, {"save_highlight", "delete_highlight"}),
      ToolDefs("ops",
        {"get_processing_status", "get_health", "get_voice_status", "whoami"}, {}),
      ToolDefs("admin",
        {"get_admin_overview", "list_waitlist", "get_llm_config", "get_llm_spend"},
        {"logout_everywhere", "set_llm_config"})}

Names(tools) == {t.name : t \in tools}

(* -------------------------------- tools -------------------------------- *)

\* A tool module: which of its functions call a handler that changes a row, which
\* hand it the nudge to arm, which require an operator.
Functions_of(reads, writes, arms, operator) ==
    {[name |-> n, writes |-> n \in writes, arms |-> n \in arms,
      operator |-> n \in operator] : n \in reads \cup writes}

backlog_tools ==
    Functions_of({"list_news_items", "get_news_item"}, {"set_news_item_read"}, {}, {})
ingestion_tools ==
    Functions_of(
      {"get_ingestion_status", "list_held_source_items", "get_source_item",
       "get_enrich_transcript"},
      {"paste_text", "integrate_source_items", "dismiss_source_items"},
      {"paste_text", "integrate_source_items"}, {})
source_tools ==
    Functions_of({"list_sources"},
      {"connect_source", "poll_source", "resync_source", "set_label_sync",
       "reauthorize_source", "disconnect_source", "remove_source"},
      {"poll_source", "resync_source"}, {})
connector_tools ==
    Functions_of({"list_connectors"},
      {"create_connector", "delete_connector", "authorize_connector"}, {}, {})
episode_tools ==
    Functions_of(
      {"list_episodes", "get_episode", "get_episode_transcript", "get_episode_chapters"},
      {"create_episode", "create_smart_episode", "rename_episode",
       "set_playback_position", "mark_episode_listened"},
      {"create_episode", "create_smart_episode"}, {})
\* get_feed_info mints the token on the first ask, though its route is a GET.
feed_tools == Functions_of({}, {"get_feed", "rotate_feed"}, {}, {})
highlight_tools ==
    Functions_of({"list_highlights"}, {"save_highlight", "delete_highlight"}, {}, {})
ops_tools ==
    Functions_of({"get_processing_status", "get_health", "get_voice_status", "whoami"},
                 {}, {}, {})
admin_tools ==
    Functions_of(
      {"get_admin_overview", "list_waitlist", "get_llm_config", "get_llm_spend"},
      {"logout_everywhere", "set_llm_config"}, {},
      {"get_admin_overview", "list_waitlist", "get_llm_config", "get_llm_spend",
       "set_llm_config"})

IMPLEMENTATIONS ==
    UNION {backlog_tools, ingestion_tools, source_tools, connector_tools,
           episode_tools, feed_tools, highlight_tools, ops_tools, admin_tools}
Function(name) == CHOOSE f \in IMPLEMENTATIONS : f.name = name

\* set_llm_config and create_connector refuse some arguments before run is called,
\* so the refusal is never counted.
RefusesEarly(name) == name \in {"set_llm_config", "create_connector"}

(* --------------------------- group selection --------------------------- *)

\* A name of ?tool_groups=: a group, or its read-only variant
all_group_names ==
    [base : DEFAULT_GROUPS \cup OPT_IN_GROUPS, readonly : BOOLEAN]

\* select_tools: with nothing named, the default groups; an unknown name refuses the lot
Named(param) ==
    IF param = {} THEN [base : DEFAULT_GROUPS, readonly : {FALSE}] ELSE param
select_tools_readonly_whole(param) ==
    Names({t \in ALL_TOOLS : \E g \in Named(param) : t.group = g.base})
select_tools(param) ==
    Names({t \in ALL_TOOLS : \E g \in Named(param) :
               t.group = g.base /\ (g.readonly => ~t.write)})

(* ------------------------------ requests ------------------------------- *)

Idle == [at |-> "idle", bearer |-> None, param |-> {}, tool |-> None,
         transport |-> None, caller |-> None, wrote |-> FALSE, first |-> FALSE,
         committed |-> FALSE, fired |-> 0, counted |-> <<>>, answer |-> None]
Unbound == [caller |-> None, tools |-> {}]

McpInit ==
    /\ transports = <<>> /\ lifespans = [started |-> 0, running |-> {}]
    /\ toolcall = [r \in Calls |-> Idle]
    /\ scope = [r \in Calls |-> Unbound]
    /\ known = Bearers /\ minted = FALSE

McpTypeOK ==
    /\ transports \in Seq(1..MaxLifespans)
    /\ lifespans.started \in 0..MaxLifespans
    /\ lifespans.running \subseteq 1..lifespans.started
    /\ \A r \in Calls :
         /\ toolcall[r].at \in {"idle", "authenticating", "transport", "handler", "committed", "done"}
         /\ toolcall[r].answer \in {None, "503", "400", "401", "500", "unknown_tool",
                               "refused", "error", "ok"}
         /\ toolcall[r].fired \in 0..1
    /\ known \subseteq Bearers /\ minted \in BOOLEAN

\* build_server: the process does not start when the two tables disagree
build_server == Names(ALL_TOOLS) = Names(IMPLEMENTATIONS)

\* McpMount.running, entered: a fresh transport, then it is the one in force
running_starts ==
    /\ build_server
    /\ lifespans.started < MaxLifespans
    /\ LET t == lifespans.started + 1
       IN /\ lifespans' = [started |-> t, running |-> lifespans.running \cup {t}]
          /\ transports' = Append(transports, t)
    /\ UNCHANGED <<toolcall, scope, known, minted>>

\* McpMount.running, left: it takes away its own transport and not a later one's
RunningEnds_last(t) == SubSeq(transports, 1, Len(transports) - 1)
RunningEnds(t) ==
    LET i == CHOOSE i \in DOMAIN transports : transports[i] = t
    IN  SubSeq(transports, 1, i - 1) \o SubSeq(transports, i + 1, Len(transports))
running_ends ==
    \E t \in lifespans.running :
        /\ transports' = RunningEnds(t)
        /\ lifespans' = [lifespans EXCEPT !.running = @ \ {t}]
        /\ UNCHANGED <<toolcall, scope, known, minted>>

\* The context variables a task reads are its own request's.
Task_global(r) == CHOOSE q \in Calls : TRUE
Task(r) == r

\* request_scope's finally
Finish(r, q) ==
    /\ toolcall' = [toolcall EXCEPT ![r] = [q EXCEPT !.at = "done"]]
    /\ scope' = [scope EXCEPT ![Task(r)] = Unbound]
    /\ UNCHANGED <<transports, lifespans>>

\* McpEndpoint.__call__ up to the thread that authenticates: the transport in force
\* and the groups of the query string are read here, before the await
endpoint_call(r) ==
    /\ toolcall[r].at = "idle"
    /\ IF transports = <<>> THEN Finish(r, [toolcall[r] EXCEPT !.answer = "503"])
       ELSE \E b \in Bearers \cup {None}, p \in Params :
              IF ~(p \subseteq all_group_names)
              THEN Finish(r, [toolcall[r] EXCEPT !.answer = "400"])
              ELSE /\ toolcall' = [toolcall EXCEPT ![r].at = "authenticating",
                              ![r].bearer = b, ![r].param = p,
                              ![r].transport = transports[Len(transports)]]
                   /\ UNCHANGED <<transports, lifespans, scope>>
    /\ UNCHANGED <<known, minted>>

\* authenticate, on a connection of its own; then request_scope and the transport.
\* A feed token is not a bearer.  A transport whose manager has stopped raises.
authenticate(r) ==
    /\ toolcall[r].at = "authenticating"
    /\ IF toolcall[r].bearer \notin known \ {"feed"}
       THEN Finish(r, [Idle EXCEPT !.answer = "401"])
       ELSE IF toolcall[r].transport \notin lifespans.running
            THEN Finish(r, [Idle EXCEPT !.answer = "500"])
            ELSE /\ scope' = [scope EXCEPT ![Task(r)] =
                      [caller |-> toolcall[r].bearer, tools |-> select_tools(toolcall[r].param)]]
                 /\ toolcall' = [toolcall EXCEPT ![r].at = "transport"]
                 /\ UNCHANGED <<transports, lifespans>>
    /\ UNCHANGED <<known, minted>>

\* The message is the body's, which only the transport reads.  call_tool refuses a name outside the connection's tools; the function may refuse
\* its arguments; run takes the caller from the context and opens the connection
call_tool(r) ==
    /\ toolcall[r].at = "transport"
    /\ \E n \in AskedTools :
         IF n \notin scope[Task(r)].tools \/ scope[Task(r)].caller = None
         THEN Finish(r, [toolcall[r] EXCEPT !.answer = "unknown_tool"])
         ELSE \/ /\ RefusesEarly(n)
                 /\ Finish(r, [toolcall[r] EXCEPT !.answer = "refused"])
              \/ /\ toolcall' = [toolcall EXCEPT ![r].at = "handler", ![r].tool = n,
                                       ![r].caller = scope[Task(r)].caller]
                 /\ UNCHANGED <<transports, lifespans, scope>>
    /\ UNCHANGED <<known, minted>>

\* What the route says of the caller: require_admin, and logout's refusal of a PAT
Forbidden(q) ==
    \/ Function(q.tool).operator /\ q.caller # "admin"
    \/ q.tool = "logout_everywhere" /\ q.caller = "pat"

\* run: the handler raised, or the commit did; the connection rolls back, nothing
\* fires, and the outcome is counted once
Raised(r, outcome) ==
    /\ Finish(r, [toolcall[r] EXCEPT !.answer = outcome, !.counted = Append(@, outcome)])
    /\ UNCHANGED <<known, minted>>
tool_raises(r) ==
    /\ toolcall[r].at = "handler"
    /\ IF Forbidden(toolcall[r]) THEN Raised(r, "refused")
       ELSE \E outcome \in {"refused", "error"} : Raised(r, outcome)

\* run: the handler returned and the connection committed.  A commit that deletes
\* every session takes browser sessions and MCP grants, never a PAT.
handler_commits(r) ==
    /\ toolcall[r].at = "handler" /\ ~Forbidden(toolcall[r])
    /\ LET f == Function(toolcall[r].tool)
           wrote == f.writes /\ (toolcall[r].tool = "get_feed" => ~minted)
       IN /\ toolcall' = [toolcall EXCEPT ![r].at = "committed", ![r].committed = TRUE,
                                ![r].wrote = wrote, ![r].first = ~minted]
          /\ minted' = (minted \/ toolcall[r].tool \in {"get_feed", "rotate_feed"})
          /\ known' = IF toolcall[r].tool = "logout_everywhere"
                     THEN known \ {"admin", "grant"} ELSE known
    /\ UNCHANGED <<transports, lifespans, scope>>

\* deps.connection past its commit: the nudge fires, if the handler armed it
\* (integrate_source_items arms only when it queued something); then run counts ok
run_returns(r) ==
    /\ toolcall[r].at = "committed"
    /\ \E armed \in IF Function(toolcall[r].tool).arms
                    THEN IF toolcall[r].tool = "integrate_source_items" THEN 0..1 ELSE {1}
                    ELSE {0} :
         Finish(r, [toolcall[r] EXCEPT !.fired = armed, !.answer = "ok",
                                  !.counted = Append(@, "ok")])
    /\ UNCHANGED <<known, minted>>

\* A grant revoked, or a session logged out, by another request
revoked_elsewhere ==
    \E b \in known \ {"shared", "feed"} :
        /\ known' = known \ {b}
        /\ UNCHANGED <<transports, lifespans, toolcall, scope, minted>>

McpNext ==
    \/ running_starts \/ running_ends \/ revoked_elsewhere
    \/ \E r \in Calls :
         \/ endpoint_call(r) \/ authenticate(r) \/ call_tool(r)
         \/ tool_raises(r) \/ handler_commits(r) \/ run_returns(r)

McpSpec == McpInit /\ [][McpNext]_mcpVars

(* ----------------------------- properties ------------------------------ *)

\* Whatever requests run beside it, a handler runs as the bearer its own request
\* presented and only for a tool of a group its own URL named: admin never by
\* default, and through a read-only variant nothing changes a row, but for the
\* feed token that get_feed mints when it is asked first (mcp/context.py
\* request_scope, registry.select_tools, server.call_tool).
CallsAreConfined ==
    \A r \in Calls : toolcall[r].caller # None =>
        /\ toolcall[r].caller = toolcall[r].bearer
        /\ \E t \in ALL_TOOLS, g \in Named(toolcall[r].param) :
             /\ t.name = toolcall[r].tool /\ t.group = g.base
             /\ g.readonly /\ toolcall[r].wrote =>
                  (toolcall[r].tool = "get_feed" /\ toolcall[r].first)
                    \/ \E h \in Named(toolcall[r].param) : h.base = g.base /\ ~h.readonly

\* A call that reached its handler is counted exactly once, ok exactly when its
\* transaction committed, and a worker is asked for only after that commit
\* (mcp/context.py run, deps.connection).
CallsAreAccounted ==
    \A r \in Calls : toolcall[r].at = "done" =>
        /\ Len(toolcall[r].counted) = (IF toolcall[r].caller # None THEN 1 ELSE 0)
        /\ toolcall[r].counted = <<"ok">> <=> toolcall[r].committed
        /\ toolcall[r].fired = 1 => toolcall[r].committed

\* The transport in force is that of the newest lifespan still running: one that
\* ends takes away its own and never a later one's (McpMount.running).
TransportInForce ==
    /\ transports = <<>> <=> lifespans.running = {}
    /\ \A i \in 1..Len(transports) : transports[i] \in lifespans.running
    /\ \A t \in lifespans.running : t <= transports[Len(transports)]

ToolCallsHold == CallsAreConfined /\ CallsAreAccounted /\ TransportInForce

=============================================================================

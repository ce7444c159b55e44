----------------------------- MODULE Connectors -----------------------------
(***************************************************************************)
(* The remote MCP servers and the sites the enrichment agent may use: how  *)
(* one is added, authorized over OAuth, re-authorized, handed to an agent  *)
(* run and removed.                                                        *)
(* db/src/motet_db/connectors.py, api/src/motet_api/main.py and            *)
(* connectors.py, sources/src/motet_sources/mcp_oauth.py,                  *)
(* workers/src/motet_workers/enrich.py.                                    *)
(*                                                                         *)
(* One MCP connector and one site are followed.  A flow is one             *)
(* authorization.  Both of its requests read the row, then talk to the     *)
(* server with no lock held, then write, so the row read may be stale when *)
(* it is used.  A client is the number of the registration that made it; a *)
(* token set is known by the client it was issued to.                      *)
(***************************************************************************)
EXTENDS Base, Integers

CONSTANTS
    Flows,        \* authorizations the owner starts
    Issuers,      \* authorization servers the MCP server may name in turn
    MaxClients    \* clients registered (bound)

ASSUME ConnectorAssumption == MaxClients \in Nat

VARIABLES
    mcp,       \* the MCP connector's row
    site,      \* the site's row: whether it is there, and has a password
    flow,      \* each authorization: where it is and what it holds
    regs,      \* external: clients registered, with their issuer
    late       \* a refusal was written from a row read before a grant landed

connectorVars == <<mcp, site, flow, regs, late>>

NoRow == [there |-> FALSE, status |-> "needs_auth", secret |-> 0, client |-> 0,
          issuer |-> None, err |-> FALSE]
Unstarted == [at |-> "none", row |-> NoRow, issuer |-> None, client |-> 0]

ConnectorInit ==
    /\ mcp = NoRow /\ site = [there |-> FALSE, secret |-> FALSE]
    /\ flow = [f \in Flows |-> Unstarted]
    /\ regs = 0 /\ late = FALSE

\* The types of the rows.
ConnectorTypeOK ==
    /\ mcp.status \in {"needs_auth", "ready", "error"}
    /\ mcp.secret \in 0..MaxClients /\ mcp.client \in 0..MaxClients
    /\ mcp.issuer \in Issuers \cup {None}
    /\ \A f \in Flows :
           /\ flow[f].at \in {"none", "discovering", "consent", "exchanging", "over"}
           /\ flow[f].client \in 0..MaxClients
    /\ regs \in 0..MaxClients /\ late \in BOOLEAN

(***************************************************************************)
(* The rows                                                                *)
(***************************************************************************)

\* connector_spec and create_connector: an MCP server needs the owner's
\* acknowledgement and starts needs_auth; a site is ready with or without a login.
create_mcp_connector ==
    /\ ~ mcp.there
    /\ mcp' = [NoRow EXCEPT !.there = TRUE]
    /\ UNCHANGED <<site, flow, regs, late>>

\* One row per domain: the unique index answers 409 to a second one.
create_site_connector(secret) ==
    /\ ~ site.there
    /\ site' = [there |-> TRUE, secret |-> secret]
    /\ UNCHANGED <<mcp, flow, regs, late>>

\* delete_connector: its pending states go with it.
delete_connector ==
    /\ mcp.there
    /\ mcp' = NoRow
    /\ flow' = [f \in Flows |->
                   IF flow[f].at = "consent" THEN [flow[f] EXCEPT !.at = "over"] ELSE flow[f]]
    /\ UNCHANGED <<site, regs, late>>

delete_site_connector ==
    /\ site.there /\ site' = [there |-> FALSE, secret |-> FALSE]
    /\ UNCHANGED <<mcp, flow, regs, late>>

\* set_connector_oauth_client
set_connector_oauth_client(row, issuer, client) ==
    [row EXCEPT !.issuer = issuer, !.client = client]

\* store_connector_secret: a grant sealed onto the row makes it ready.
store_connector_secret(row, client) ==
    [row EXCEPT !.secret = client, !.status = "ready", !.err = FALSE]

\* _connector_refused, given the row the request read: the reason is committed,
\* and a server that worked when the request began stays ready.
StatusAfterRefusal_outcome(read, outcome) == outcome
StatusAfterRefusal(read, outcome) ==
    IF read.secret # 0 /\ read.status = "ready" THEN "ready" ELSE outcome

_connector_refused(f, outcome) ==
    /\ mcp' = IF mcp.there
              THEN [mcp EXCEPT !.status = StatusAfterRefusal(flow[f].row, outcome),
                               !.err = TRUE]
              ELSE mcp
    /\ late' = (late \/ (mcp.there /\ mcp.secret # flow[f].row.secret))
    /\ flow' = [flow EXCEPT ![f] = [@ EXCEPT !.at = "over"]]
    /\ UNCHANGED <<site, regs>>

(***************************************************************************)
(* external: what the server answers, and what the client makes of it      *)
(***************************************************************************)

\* _guard: https, and every address it resolves to on the public internet
Guarded(url) == url.https /\ url.public

\* The documents discovery reads
Documents == [at : [https : BOOLEAN, public : BOOLEAN],
              resource_here : BOOLEAN,     \* the metadata names this very origin
              named : Issuers, declared : Issuers, s256 : BOOLEAN,
              consent_https : BOOLEAN, registration : BOOLEAN]

\* _resource_metadata_url and _authorization_server_metadata
ResourceNamed(d) == d.resource_here
IssuerConfirmed(d) == d.declared = d.named

\* discover
discover(d) ==
    IF ~ Guarded(d.at) THEN "unsafe"
    ELSE IF ~ (ResourceNamed(d) /\ IssuerConfirmed(d) /\ d.s256) THEN "broken"
    ELSE IF ~ d.consent_https THEN "unsafe"
    ELSE "found"

(***************************************************************************)
(* POST /v1/connectors/{id}/authorize                                      *)
(***************************************************************************)

\* The row is read; then the network.
authorize_connector(f) ==
    /\ flow[f].at = "none" /\ mcp.there
    /\ flow' = [flow EXCEPT ![f] = [@ EXCEPT !.at = "discovering", !.row = mcp]]
    /\ UNCHANGED <<mcp, site, regs, late>>

\* The client recorded is used again while its issuer is unchanged.
reusable(row, issuer) == row.issuer = issuer /\ row.client # 0

\* start_oauth: what discovery and registration produced waits on the state row,
\* and nothing of the connector changes yet.
WaitingFlow(f, d, client) ==
    [flow EXCEPT ![f] = [@ EXCEPT !.at = "consent", !.issuer = d.named, !.client = client]]

bind_client_early(f, d, client) == set_connector_oauth_client(mcp, d.named, client)
bind_client(f, d, client) == mcp

discovery_answers(f, d) ==
    /\ flow[f].at = "discovering"
    /\ discover(d) = "found"
    /\ mcp.there
    /\ \/ /\ reusable(flow[f].row, d.named)
          /\ flow' = WaitingFlow(f, d, flow[f].row.client)
          /\ mcp' = bind_client(f, d, flow[f].row.client)
          /\ UNCHANGED regs
       \/ /\ ~ reusable(flow[f].row, d.named) /\ d.registration
          /\ regs < MaxClients /\ regs' = regs + 1
          /\ flow' = WaitingFlow(f, d, regs + 1)
          /\ mcp' = bind_client(f, d, regs + 1)
    /\ UNCHANGED <<site, late>>

\* The row went meanwhile: the state's foreign key refuses the insert.
connector_gone(f) ==
    /\ flow[f].at \in {"discovering", "exchanging"} /\ ~ mcp.there
    /\ flow' = [flow EXCEPT ![f] = [@ EXCEPT !.at = "over"]]
    /\ UNCHANGED <<mcp, site, regs, late>>

discovery_fails(f, d) ==
    /\ flow[f].at = "discovering"
    /\ discover(d) # "found"
    /\ _connector_refused(f, "error")

\* register: no registration endpoint, or one that fails
registration_fails(f, d) ==
    /\ flow[f].at = "discovering"
    /\ discover(d) = "found" /\ ~ reusable(flow[f].row, d.named)
    /\ \/ ~ d.registration /\ _connector_refused(f, "needs_auth")
       \/ d.registration /\ _connector_refused(f, "error")

(***************************************************************************)
(* POST /v1/connectors/oauth/callback                                      *)
(***************************************************************************)

\* The state is consumed, the issuer checked, the row read; then the network.
\* A response that names another issuer is refused and the state kept.  One that names
\* none is taken, unless the server said that it always names itself (promised).
connector_oauth_callback(f, iss, promised) ==
    /\ flow[f].at = "consent" /\ mcp.there
    /\ iss = flow[f].issuer \/ (iss = None /\ ~ promised)
    /\ flow' = [flow EXCEPT ![f] = [@ EXCEPT !.at = "exchanging", !.row = mcp]]
    /\ UNCHANGED <<mcp, site, regs, late>>

\* exchange_code, then the client and the token set written together
exchange_connector_code(f) ==
    /\ flow[f].at = "exchanging" /\ mcp.there
    /\ mcp' = store_connector_secret(
                  set_connector_oauth_client(mcp, flow[f].issuer, flow[f].client),
                  flow[f].client)
    /\ flow' = [flow EXCEPT ![f] = [@ EXCEPT !.at = "over"]]
    /\ UNCHANGED <<site, regs, late>>

exchange_refused(f) ==
    /\ flow[f].at = "exchanging"
    /\ _connector_refused(f, "needs_auth")

\* The seal failed: 503, and the whole request is undone, the state included.
seal_fails(f) ==
    /\ flow[f].at = "exchanging" /\ mcp.there
    /\ flow' = [flow EXCEPT ![f] = [@ EXCEPT !.at = "consent"]]
    /\ UNCHANGED <<mcp, site, regs, late>>

\* purge_expired_oauth_states: nobody came back.
consent_expires(f) ==
    /\ flow[f].at = "consent"
    /\ flow' = [flow EXCEPT ![f] = [@ EXCEPT !.at = "over"]]
    /\ UNCHANGED <<mcp, site, regs, late>>

ConnectorNext ==
    \/ create_mcp_connector \/ delete_connector \/ delete_site_connector
    \/ \E s \in BOOLEAN : create_site_connector(s)
    \/ \E f \in Flows :
           \/ authorize_connector(f) \/ connector_gone(f)
           \/ \E d \in Documents : \/ discovery_answers(f, d) \/ discovery_fails(f, d)
                                   \/ registration_fails(f, d)
           \/ \E iss \in Issuers \cup {None}, promised \in BOOLEAN :
                  connector_oauth_callback(f, iss, promised)
           \/ exchange_connector_code(f) \/ exchange_refused(f) \/ seal_fails(f)
           \/ consent_expires(f)

ConnectorSpec == ConnectorInit /\ [][ConnectorNext]_connectorVars

(***************************************************************************)
(* Properties                                                              *)
(***************************************************************************)

\* _mcp_servers: a run is handed the servers that are ready and hold a token set
Offered == mcp.there /\ mcp.status = "ready" /\ mcp.secret # 0

\* The client on the row is the one its sealed token set was issued to, so that a
\* refresh asks the right one, whatever authorization was abandoned since; and a
\* server with a token set is offered to the agent, except when a refusal was
\* written from a row read before the token set landed.
GrantStaysInForce ==
    mcp.secret # 0 => /\ mcp.client = mcp.secret
                      /\ late \/ Offered

=============================================================================

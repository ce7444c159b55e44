------------------------------- MODULE Access -------------------------------
(***************************************************************************)
(* Who may call the API: the Google sign-in (browser, iOS app, MCP client),*)
(* the sessions, refresh tokens and personal access tokens it leads to,    *)
(* the allowlist every one of them is checked against, and revocation.     *)
(* api/src/motet_api/main.py, deps.py, auth/google.py, mcp/oauth.py,       *)
(* mcp/server.py; db/src/motet_db/auth.py, api_tokens.py, mcp_oauth.py,    *)
(* mint_session.py, allowlist.py.                                          *)
(*                                                                         *)
(* A consent is one trip through Google; everything minted from it carries *)
(* its number, which no table stores.  An oauth_states row, then a handoff *)
(* or code row, is the consent's step.  Secrets may be copied, so any      *)
(* holder may present any of them at any time.  An expired row answers no  *)
(* query, so expiry removes it.  A request is one transaction; only the    *)
(* two DELETEs of a revocation are apart, because at READ COMMITTED each   *)
(* deletes the rows that existed when it began, after any wait for a lock. *)
(***************************************************************************)
EXTENDS Base, Integers, FiniteSets

CONSTANTS
    Emails,        \* Google accounts
    Admins,        \* MOTET_ADMIN_EMAILS
    Clients,       \* MCP clients that may register
    MaxConsents,   \* trips through Google (bound)
    MaxSessions    \* sessions ever made (bound)

ASSUME AccessAssumption ==
    /\ Admins \subseteq Emails /\ None \notin Clients
    /\ MaxConsents \in Nat /\ MaxSessions \in Nat

SignIns == 1..MaxConsents

VARIABLES
    allowed,   \* MOTET_ALLOWED_EMAILS of the running deployment
    signin,    \* oauth_states, auth_handoffs and mcp_oauth_codes, by consent
    sess,      \* auth_sessions
    refr,      \* mcp_oauth_refresh_tokens
    pats,      \* api_tokens
    clients,   \* mcp_oauth_clients
    sweep,     \* a revocation between its two DELETEs
    made,      \* sessions made so far
    history    \* what no table keeps: consents revoked, rotated meanwhile, admitted

accessVars == <<allowed, signin, sess, refr, pats, clients, sweep, made, history>>

NoSignIn == [step |-> "none", kind |-> "web", client |-> None, email |-> None]
NoSweep == [at |-> "idle", refr |-> {}, sess |-> {}, who |-> {}]

AccessInit ==
    /\ allowed = Emails
    /\ signin = [n \in SignIns |-> NoSignIn]
    /\ sess = {} /\ refr = {} /\ pats = {} /\ clients = {}
    /\ sweep = NoSweep /\ made = 0
    /\ history = [revoked |-> {}, rotated |-> {}, admitted |-> {}]

\* The types of the tables.
AccessTypeOK ==
    /\ allowed \subseteq Emails
    /\ \A n \in SignIns :
           /\ signin[n].step \in {"none", "pending", "handed", "spent"}
           /\ signin[n].kind \in {"web", "native", "mcp", "mint"}
           /\ signin[n].client \in Clients \cup {None}
           /\ signin[n].email \in Emails \cup {None}
    /\ sess \subseteq [id : 1..MaxSessions, n : SignIns, email : Emails,
                       client : Clients \cup {None}]
    /\ refr \subseteq [session : 1..MaxSessions, n : SignIns, email : Emails,
                       client : Clients]
    /\ pats \subseteq [n : SignIns, email : Emails, revoked : BOOLEAN]
    /\ clients \subseteq Clients /\ made \in 0..MaxSessions
    /\ sweep.at \in {"idle", "refresh", "session"}
    /\ \A f \in {"revoked", "rotated", "admitted"} : history[f] \subseteq SignIns

(***************************************************************************)
(* Rows                                                                    *)
(***************************************************************************)

\* allowlist: an empty list admits nobody.
is_allowed(email) == email \in allowed

\* create_session_for_digest: the next row, for a consent and its address
NewSession(n, email, client) ==
    [id |-> made + 1, n |-> n, email |-> email, client |-> client]

create_session(n, email, client) ==
    /\ made < MaxSessions
    /\ made' = made + 1
    /\ sess' = sess \cup {NewSession(n, email, client)}

\* start_oauth: an unused consent, remembered by its state.
begin_consent(kind, client) ==
    \E n \in SignIns :
        /\ signin[n].step = "none"
        /\ \A k \in 1..(n - 1) : signin[k].step # "none"
        /\ signin' = [signin EXCEPT ![n] =
                          [step |-> "pending", kind |-> kind, client |-> client,
                           email |-> None]]

\* consume_oauth_state, take_handoff and consume_code: DELETE ... RETURNING,
\* undone with the transaction when the request is refused afterwards.
Spent(n) == [signin EXCEPT ![n].step = "spent"]

\* create_handoff and create_code
Handed(n, email) == [signin EXCEPT ![n].step = "handed", ![n].email = email]

(***************************************************************************)
(* Signing in                                                              *)
(***************************************************************************)

\* GoogleIdentityProvider._verify: external Google signed it, for the nonce of
\* this very sign-in, about an address it has verified.
Verified(token, n) == token.genuine /\ token.nonce = n /\ token.email_verified

IdTokens == [genuine : BOOLEAN, nonce : SignIns, email_verified : BOOLEAN, email : Emails]

\* POST /v1/auth/google/start, for a browser
start_login ==
    /\ allowed # {}
    /\ begin_consent("web", None)
    /\ UNCHANGED <<allowed, sess, refr, pats, clients, sweep, made, history>>

\* POST /v1/auth/native/start, with the app's challenge on the row
start_native_login ==
    /\ allowed # {}
    /\ begin_consent("native", None)
    /\ UNCHANGED <<allowed, sess, refr, pats, clients, sweep, made, history>>

\* MotetOAuthProvider.authorize, with the client's request on the row
authorize(c) ==
    /\ allowed # {} /\ c \in clients
    /\ begin_consent("mcp", c)
    /\ UNCHANGED <<allowed, sess, refr, pats, clients, sweep, made, history>>

\* POST /v1/auth/google/callback
complete_login(n, token) ==
    /\ signin[n].step = "pending"
    /\ Verified(token, n) /\ is_allowed(token.email)
    /\ \/ /\ signin[n].kind = "native"
          /\ signin' = Handed(n, token.email)
          /\ UNCHANGED <<sess, made>>
       \/ /\ signin[n].kind = "web"
          /\ signin' = Spent(n)
          /\ create_session(n, token.email, None)
    /\ UNCHANGED <<allowed, refr, pats, clients, sweep, history>>

\* POST /v1/auth/mcp/callback: the client must still be registered.
complete_authorization(n, token) ==
    /\ signin[n].step = "pending" /\ signin[n].kind = "mcp"
    /\ Verified(token, n) /\ is_allowed(token.email)
    /\ signin[n].client \in clients
    /\ signin' = Handed(n, token.email)
    /\ UNCHANGED <<allowed, sess, refr, pats, clients, sweep, made, history>>

\* POST /v1/auth/native/redeem: whoever read the link lacks the verifier.
verifier_matches(verifier, n) == verifier = n

take_handoff_kept(n) == signin
take_handoff(n) == Spent(n)

redeem_native_login(n, verifier) ==
    /\ signin[n].step = "handed" /\ signin[n].kind = "native"
    /\ verifier_matches(verifier, n)
    /\ is_allowed(signin[n].email)
    /\ signin' = take_handoff(n)
    /\ create_session(n, signin[n].email, None)
    /\ UNCHANGED <<allowed, refr, pats, clients, sweep, history>>

\* motet_db.mint_session: the staging job, for an address sign-in would accept
check_email(email) == allowed # {} /\ is_allowed(email)

mint(email) ==
    /\ check_email(email)
    /\ \E n \in SignIns :
           /\ signin[n].step = "none"
           /\ \A k \in 1..(n - 1) : signin[k].step # "none"
           /\ signin' = [signin EXCEPT ![n] = [step |-> "spent", kind |-> "mint",
                                               client |-> None, email |-> None]]
           /\ create_session(n, email, None)
    /\ UNCHANGED <<allowed, refr, pats, clients, sweep, history>>

(***************************************************************************)
(* MCP clients                                                             *)
(***************************************************************************)

\* purge_unused_clients: a client with no code, refresh token or session;
\* a pending sign-in does not keep it.
Unused(c) ==
    /\ \A r \in refr : r.client # c
    /\ \A s \in sess : s.client # c
    /\ \A n \in SignIns : ~ (signin[n].step = "handed" /\ signin[n].client = c)

\* A day has passed for these, when somebody registers.
purge_unused_clients == \E old \in SUBSET {c \in clients : Unused(c)} :
    clients' = clients \ old

register_client(c) ==
    /\ c \notin clients
    /\ clients' = clients \cup {c}
    /\ UNCHANGED <<allowed, signin, sess, refr, pats, sweep, made, history>>

\* The sweep a registration, of this client or any other, starts with
sweep_clients ==
    /\ purge_unused_clients
    /\ UNCHANGED <<allowed, signin, sess, refr, pats, sweep, made, history>>

\* _issue: a session and the refresh token beside it, for an allowed address
_issue(n, email, client, oldSess, oldRefr) ==
    /\ is_allowed(email)
    /\ made < MaxSessions
    /\ made' = made + 1
    /\ sess' = oldSess \cup {NewSession(n, email, client)}
    /\ refr' = oldRefr \cup {[session |-> made + 1, n |-> n, email |-> email,
                              client |-> client]}

exchange_authorization_code(n) ==
    /\ signin[n].step = "handed" /\ signin[n].kind = "mcp"
    /\ _issue(n, signin[n].email, signin[n].client, sess, refr)
    /\ signin' = Spent(n)
    /\ UNCHANGED <<allowed, pats, clients, sweep, history>>

\* consume_refresh_token: the token and the access token issued beside it
consume_refresh_token_leaving_access(r) == [refr |-> refr \ {r}, sess |-> sess]
consume_refresh_token(r) ==
    [refr |-> refr \ {r}, sess |-> {s \in sess : s.id # r.session}]

exchange_refresh_token(r) ==
    /\ r \in refr
    /\ LET rest == consume_refresh_token(r)
       IN  _issue(r.n, r.email, r.client, rest.sess, rest.refr)
    /\ history' = IF sweep.at = "idle" THEN history
                  ELSE [history EXCEPT !.rotated = @ \cup {r.n}]
    /\ UNCHANGED <<allowed, signin, pats, clients, sweep>>

(***************************************************************************)
(* Callers                                                                 *)
(***************************************************************************)

\* session_for_token, then the allowlist again: the caller a bearer resolves to
session_caller(s) == s \in sess /\ is_allowed(s.email)

\* token_for_secret
pat_caller(p) == p \in pats /\ ~ p.revoked /\ is_allowed(p.email)

\* deps.is_browser_session
is_browser_session_by_how(s) == TRUE
is_browser_session(s) == s.client = None

\* deps.is_admin
is_admin(s) == is_browser_session(s) /\ s.email \in Admins

\* A route under /v1/admin: require_admin
require_admin(s) ==
    /\ session_caller(s) /\ is_admin(s)
    /\ history' = [history EXCEPT !.admitted = @ \cup {s.n}]
    /\ UNCHANGED <<allowed, signin, sess, refr, pats, clients, sweep, made>>

\* POST /v1/auth/tokens, behind require_session
create_api_token(s) ==
    /\ session_caller(s) /\ is_browser_session(s)
    /\ \A p \in pats : p.n # s.n
    /\ pats' = pats \cup {[n |-> s.n, email |-> s.email, revoked |-> FALSE]}
    /\ UNCHANGED <<allowed, signin, sess, refr, clients, sweep, made, history>>

Revoke(p) == (pats \ {p}) \cup {[p EXCEPT !.revoked = TRUE]}

\* DELETE /v1/auth/tokens/{id}, behind require_session
revoke_api_token(s, p) ==
    /\ session_caller(s) /\ is_browser_session(s)
    /\ p \in pats /\ pats' = Revoke(p)
    /\ UNCHANGED <<allowed, signin, sess, refr, clients, sweep, made, history>>

\* _caller_for_api_token of an address off the list: revoked, and committed
\* before the 401 rolls the request back
delisted_api_token(p) ==
    /\ p \in pats /\ ~ p.revoked /\ ~ is_allowed(p.email)
    /\ pats' = Revoke(p)
    /\ UNCHANGED <<allowed, signin, sess, refr, clients, sweep, made, history>>

(***************************************************************************)
(* Revocation                                                              *)
(***************************************************************************)

\* delete_session's first DELETE begins: the refresh token issued beside it
delete_session(s) ==
    /\ sweep.at = "idle"
    /\ sweep' = [at |-> "refresh", refr |-> {r \in refr : r.session = s.id},
                 sess |-> {s}, who |-> {s.n}]

\* delete_sessions_for_user's
delete_sessions_for_user ==
    /\ sweep.at = "idle"
    /\ sweep' = [at |-> "refresh", refr |-> refr, sess |-> {},
                 who |-> {x.n : x \in sess \cup refr}]

\* The first DELETE ends and the second begins
swept_refresh_none == {}
swept_refresh == sweep.refr

delete_refresh_tokens ==
    /\ sweep.at = "refresh"
    /\ refr' = refr \ swept_refresh
    /\ sweep' = [sweep EXCEPT !.at = "session", !.refr = {},
                              !.sess = IF @ = {} THEN sess ELSE @]
    /\ UNCHANGED <<allowed, signin, sess, pats, clients, made, history>>

\* The second DELETE ends and the request commits
delete_sessions ==
    /\ sweep.at = "session"
    /\ sess' = sess \ sweep.sess
    /\ history' = [history EXCEPT !.revoked = @ \cup sweep.who]
    /\ sweep' = NoSweep
    /\ UNCHANGED <<allowed, signin, refr, pats, clients, made>>

\* POST /v1/auth/logout
logout(s) ==
    /\ session_caller(s) /\ delete_session(s)
    /\ UNCHANGED <<allowed, signin, sess, refr, pats, clients, made, history>>

\* require_caller of an address off the list: the row goes, and is committed
\* before the 401 rolls the request back
delisted_session(s) ==
    /\ s \in sess /\ ~ is_allowed(s.email) /\ delete_session(s)
    /\ UNCHANGED <<allowed, signin, sess, refr, pats, clients, made, history>>

\* POST /v1/auth/logout-all, with a session or with the shared token
logout_everywhere ==
    /\ sess # {} \/ refr # {}
    /\ delete_sessions_for_user
    /\ UNCHANGED <<allowed, signin, sess, refr, pats, clients, made, history>>

\* POST /revoke of an access token: revoke_session_grant
revoke_access_token(s) ==
    /\ s \in sess /\ s.client # None /\ delete_session(s)
    /\ UNCHANGED <<allowed, signin, sess, refr, pats, clients, made, history>>

\* POST /revoke of a refresh token
revoke_refresh_token(r) ==
    /\ r \in refr
    /\ LET rest == consume_refresh_token(r)
       IN  refr' = rest.refr /\ sess' = rest.sess
    /\ history' = [history EXCEPT !.revoked = @ \cup {r.n}]
    /\ UNCHANGED <<allowed, signin, pats, clients, sweep, made>>

(***************************************************************************)
(* Time and deployments                                                    *)
(***************************************************************************)

\* purge_expired_oauth_states, purge_expired_handoffs and purge_expired
signin_expires(n) ==
    /\ signin[n].step \in {"pending", "handed"}
    /\ signin' = Spent(n)
    /\ UNCHANGED <<allowed, sess, refr, pats, clients, sweep, made, history>>

\* purge_expired_sessions
session_expires(s) ==
    /\ s \in sess /\ sess' = sess \ {s}
    /\ UNCHANGED <<allowed, signin, refr, pats, clients, sweep, made, history>>

refresh_expires(r) ==
    /\ r \in refr /\ refr' = refr \ {r}
    /\ UNCHANGED <<allowed, signin, sess, pats, clients, sweep, made, history>>

\* A deployment with another allowlist
redeploy(list) ==
    /\ allowed' = list
    /\ UNCHANGED <<signin, sess, refr, pats, clients, sweep, made, history>>

AccessNext ==
    \/ start_login \/ start_native_login
    \/ \E c \in Clients : authorize(c) \/ register_client(c)
    \/ sweep_clients
    \/ \E n \in SignIns, t \in IdTokens : complete_login(n, t) \/ complete_authorization(n, t)
    \/ \E n, v \in SignIns : redeem_native_login(n, v)
    \/ \E e \in Emails : mint(e)
    \/ \E n \in SignIns : exchange_authorization_code(n) \/ signin_expires(n)
    \/ \E r \in refr : exchange_refresh_token(r) \/ revoke_refresh_token(r)
                       \/ refresh_expires(r)
    \/ \E s \in sess : \/ require_admin(s) \/ create_api_token(s)
                       \/ logout(s) \/ delisted_session(s) \/ revoke_access_token(s)
                       \/ session_expires(s)
                       \/ \E p \in pats : revoke_api_token(s, p)
    \/ \E p \in pats : delisted_api_token(p)
    \/ logout_everywhere \/ delete_refresh_tokens \/ delete_sessions
    \/ \E list \in SUBSET Emails : redeploy(list)

AccessSpec == AccessInit /\ [][AccessNext]_accessVars

(***************************************************************************)
(* Properties                                                              *)
(***************************************************************************)

Grants(n) == {s \in sess : s.n = n} \cup {r \in refr : r.n = n}

\* One trip through Google never leads to two live sessions or two live refresh
\* tokens, however often its state, code, handoff or refresh token is presented.
OneGrantPerConsent ==
    \A n \in SignIns : /\ Cardinality({s \in sess : s.n = n}) <= 1
                       /\ Cardinality({r \in refr : r.n = n}) <= 1

\* Once a logout, a logout-all, a revocation or a delisting has committed, nothing
\* the consent led to works again; except where a refresh token was exchanged
\* while the revocation was between its statements.
RevokedStaysRevoked ==
    \A n \in history.revoked \ history.rotated : Grants(n) = {}

\* A personal access token and the operator view are reached from a person's own
\* sign-in only, never through the grant an MCP client was given.
DelegationStaysNarrow ==
    \A n \in history.admitted \cup {p.n : p \in pats} : signin[n].kind # "mcp"

=============================================================================

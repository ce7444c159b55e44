----------------------------- MODULE MailGrant -----------------------------
(***************************************************************************)
(* The grant of one Gmail source: connecting it, the consent callback, the *)
(* tokens the workers mint from the grant, the check of which mailbox the  *)
(* grant reaches, re-consent for label sync, disconnecting and removing.   *)
(* api/src/motet_api/main.py (the /v1/sources routes), db/phase2.py,       *)
(* workers/ingest.py and workers/labels.py.                                *)
(*                                                                         *)
(* A mailbox is an account; Google's account chooser may hand back any.    *)
(* Three workers use the grant: the poll and the extraction inside one     *)
(* transaction each, the label write-back in a transaction per step.  A    *)
(* transaction's writes are kept in its record until it commits; the row   *)
(* lock that mint_token takes lasts as long.  A stamp is a grant's         *)
(* updated_at.  What a poll lists is the subject of MailSearch.            *)
(***************************************************************************)
EXTENDS Base, Integers, FiniteSets

CONSTANTS
    Accounts,     \* Google accounts the owner can pick
    Consents,     \* authorizations (oauth_states rows), numbered as they are begun
    MaxStamps,    \* grants stored over a behaviour (bound)
    MaxPolls,     \* poll jobs over a behaviour (bound)
    MaxRevoked,   \* grants Google stops honouring (bound)
    MaxTries      \* DEFAULT_MAX_ATTEMPTS of a poll job

ASSUME GrantAssumption ==
    /\ None \notin Accounts /\ Consents \subseteq Nat
    /\ MaxStamps \in Nat /\ MaxPolls \in Nat /\ MaxRevoked \in Nat
    /\ MaxTries \in Nat \ {0}

VARIABLES
    src,      \* the sources row; its last_error is shown and never read
    mbox,     \* sync_state: mailbox_address and mailbox_verified_for
    grant,    \* source_credentials, purpose refresh
    access,   \* source_credentials, purpose access
    consent,  \* oauth_states, and the callback that holds the row
    dead,     \* external: stamps Google no longer honours
    polls,    \* poll jobs: queued so far, ready, attempts of the current one
    worker,   \* the poll, the extraction and the write-back in progress
    leaving,  \* a disconnect request waiting for a row lock
    stamps,   \* grants stored so far
    seen      \* history: mailboxes read, mailboxes written, refused stamps

grantVars == <<src, mbox, grant, access, consent, dead, polls, worker, leaving,
               stamps, seen>>

Kinds == {"poll", "extract", "label"}
NoConsent == [st |-> "none", wide |-> FALSE, acct |-> None]
SpentConsent == [NoConsent EXCEPT !.st = "spent"]     \* the row is deleted
NoGrant  == [stamp |-> 0, acct |-> None, wide |-> FALSE]
NoAccess == [acct |-> None, wide |-> FALSE, live |-> FALSE]
\* at: where the execution is.  snap: the sync_state it read at its start.
\* of: the grant it read.  tok: the account its token reaches.  minted, to:
\* its uncommitted writes, a new access token and the grant's stamp after it.
Rest == [at |-> "idle", snap |-> [addr |-> None, vfor |-> 0], of |-> NoGrant,
         tok |-> None, due |-> FALSE, minted |-> FALSE, to |-> 0]

GrantTypeOK ==
    /\ src \in [row : {"none", "row", "removed"}, active : BOOLEAN, gone : BOOLEAN,
                polled : BOOLEAN, items : BOOLEAN, labels : BOOLEAN]
    /\ mbox \in [addr : Accounts \cup {None}, vfor : 0..MaxStamps]
    /\ grant \in [stamp : 0..MaxStamps, acct : Accounts \cup {None}, wide : BOOLEAN]
    /\ access \in [acct : Accounts \cup {None}, wide : BOOLEAN, live : BOOLEAN]
    /\ consent \in [Consents -> [st : {"none", "open", "held", "exchanged", "spent"},
                                 wide : BOOLEAN, acct : Accounts \cup {None}]]
    /\ dead \subseteq 1..MaxStamps
    /\ polls \in [made : 0..MaxPolls, ready : 0..MaxPolls, tries : 0..MaxTries]
    /\ \A k \in Kinds :
           /\ worker[k].at \in {"idle", "minting", "checking", "using"}
           /\ worker[k].tok \in Accounts \cup {None}
    /\ leaving \in {"no", "all", "grant_only"}
    /\ stamps \in 0..MaxStamps
    /\ seen \in [read : SUBSET Accounts, written : SUBSET Accounts,
                 refused : SUBSET (1..MaxStamps)]

GrantInit ==
    /\ src = [row |-> "none", active |-> FALSE, gone |-> FALSE, polled |-> FALSE,
              items |-> FALSE, labels |-> FALSE]
    /\ mbox = [addr |-> None, vfor |-> 0]
    /\ grant = NoGrant /\ access = NoAccess
    /\ consent = [c \in Consents |-> NoConsent]
    /\ dead = {} /\ polls = [made |-> 0, ready |-> 0, tries |-> 0]
    /\ worker = [k \in Kinds |-> Rest]
    /\ leaving = "no" /\ stamps = 0
    /\ seen = [read |-> {}, written |-> {}, refused |-> {}]

(***************************************************************************)
(* The rows                                                                *)
(***************************************************************************)

\* The refresh row is locked from mint_token's FOR UPDATE to the commit.
GrantLocked == \E k \in {"poll", "extract"} : worker[k].minted

\* enqueue_source_poll
enqueue_source_poll(p) == [p EXCEPT !.made = @ + 1, !.ready = @ + 1]
RoomForPoll == polls.made < MaxPolls

\* start_oauth: one row per authorization.
start_oauth(c, wide) ==
    /\ consent[c].st = "none" /\ \A d \in Consents : d < c => consent[d].st # "none"
    /\ consent' = [consent EXCEPT ![c] = [st |-> "open", wide |-> wide, acct |-> None]]

\* delete_source_credentials and mark_source_disconnected
Disconnected(s) == [s EXCEPT !.active = FALSE, !.gone = TRUE]

\* mailbox_check_due: is there a grant the recorded address was not checked for
mailbox_check_due_address_only(m) == grant.stamp # 0 /\ m.addr = None
mailbox_check_due(m) == grant.stamp # 0 /\ ~ (m.addr # None /\ m.vfor = grant.stamp)

(***************************************************************************)
(* Routes, one transaction each                                            *)
(***************************************************************************)

\* POST /v1/sources/connect: the row first, inactive, then the consent URL.
connect_source ==
    /\ src.row = "none"
    /\ src' = [src EXCEPT !.row = "row"]
    /\ \E c \in Consents : start_oauth(c, FALSE)
    /\ UNCHANGED <<mbox, grant, access, dead, polls, worker, leaving, stamps, seen>>

\* PUT /v1/sources/{id}/label-sync
set_label_sync ==
    /\ src.row = "row"
    /\ src' = [src EXCEPT !.labels = ~ @]
    /\ UNCHANGED <<mbox, grant, access, consent, dead, polls, worker, leaving,
                   stamps, seen>>

\* POST /v1/sources/{id}/reauthorize: only for a source with label sync set.
reauthorize_source ==
    /\ src.row = "row" /\ src.labels
    /\ \E c \in Consents : start_oauth(c, TRUE)
    /\ UNCHANGED <<src, mbox, grant, access, dead, polls, worker, leaving, stamps, seen>>

\* POST /v1/sources/{id}/poll
poll_source ==
    /\ src.row = "row" /\ src.active /\ RoomForPoll
    /\ polls' = enqueue_source_poll(polls)
    /\ UNCHANGED <<src, mbox, grant, access, consent, dead, worker, leaving, stamps, seen>>

\* A state nobody came back with in ten minutes, and the sweep of it.
purge_expired_oauth_states(c) ==
    /\ consent[c].st = "open"
    /\ consent' = [consent EXCEPT ![c] = SpentConsent]
    /\ UNCHANGED <<src, mbox, grant, access, dead, polls, worker, leaving, stamps, seen>>

\* DELETE /v1/sources/{id}/credentials.  A DELETE that meets the row lock
\* waits, and then deletes the rows its snapshot held: an access token that
\* the waited-for transaction inserted is not one of them.
disconnect_source ==
    /\ src.row = "row"
    /\ IF GrantLocked
       THEN /\ leaving = "no"
            /\ leaving' = IF access.acct = None THEN "grant_only" ELSE "all"
            /\ UNCHANGED <<src, grant, access>>
       ELSE /\ src' = IF grant.stamp # 0 \/ access.acct # None
                      THEN Disconnected(src) ELSE [src EXCEPT !.active = FALSE]
            /\ grant' = NoGrant /\ access' = NoAccess
            /\ UNCHANGED leaving
    /\ UNCHANGED <<mbox, consent, dead, polls, worker, stamps, seen>>

disconnect_after_wait ==
    /\ leaving # "no" /\ ~ GrantLocked
    /\ src' = IF grant.stamp # 0 THEN Disconnected(src) ELSE [src EXCEPT !.active = FALSE]
    /\ grant' = NoGrant
    /\ access' = IF leaving = "all" THEN NoAccess ELSE access
    /\ leaving' = "no"
    /\ UNCHANGED <<mbox, consent, dead, polls, worker, stamps, seen>>

\* DELETE /v1/sources/{id}, with remove_unused_source's guards in its order.
remove_unused_source_waiting ==
    /\ src.row = "row"
    /\ grant.stamp = 0 /\ access.acct = None
    /\ ~ src.active /\ ~ src.polled /\ ~ src.gone /\ ~ src.items
remove_unused_source ==
    /\ src.row = "row"
    /\ grant.stamp = 0 /\ access.acct = None
    /\ ~ src.active /\ ~ src.polled /\ ~ src.gone /\ ~ src.items
    /\ \A c \in Consents : consent[c].st \notin {"held", "exchanged"}

remove_source ==
    /\ remove_unused_source
    /\ src' = [src EXCEPT !.row = "removed"]
    /\ consent' = [c \in Consents |->
                      IF consent[c].st = "open" THEN SpentConsent ELSE consent[c]]
    /\ UNCHANGED <<mbox, grant, access, dead, polls, worker, leaving, stamps, seen>>

(***************************************************************************)
(* POST /v1/sources/callback: the state is consumed and its row stays      *)
(* locked over the call to Google; the last step stores and commits.       *)
(***************************************************************************)

consume_oauth_state(c) ==
    /\ consent[c].st = "open"
    /\ consent' = [consent EXCEPT ![c].st = "held"]
    /\ UNCHANGED <<src, mbox, grant, access, dead, polls, worker, leaving, stamps, seen>>

\* exchange_code spends the code.  A refusal, or a grant with no refresh
\* token, raises: the rollback brings the state row back.
exchange_code(c) ==
    /\ consent[c].st = "held"
    /\ \/ \E a \in Accounts :
              consent' = [consent EXCEPT ![c].st = "exchanged", ![c].acct = a]
       \/ consent' = [consent EXCEPT ![c].st = "open"]
    /\ UNCHANGED <<src, mbox, grant, access, dead, polls, worker, leaving, stamps, seen>>

\* Scopes: what was asked, as far as it was granted.  Then active, and a poll.
oauth_callback(c) ==
    /\ consent[c].st = "exchanged" /\ src.row = "row"
    /\ ~ GrantLocked /\ stamps < MaxStamps /\ RoomForPoll
    /\ \E wide \in {FALSE, consent[c].wide} :
           grant' = [stamp |-> stamps + 1, acct |-> consent[c].acct, wide |-> wide]
    /\ stamps' = stamps + 1
    /\ src' = [src EXCEPT !.active = TRUE]
    /\ consent' = [consent EXCEPT ![c] = SpentConsent]
    /\ polls' = enqueue_source_poll(polls)
    /\ UNCHANGED <<mbox, access, dead, worker, leaving, seen>>

(***************************************************************************)
(* The workers                                                             *)
(***************************************************************************)

Go(k, at) == worker' = [worker EXCEPT ![k].at = at]
Done(k)   == worker' = [worker EXCEPT ![k] = Rest]

\* A due check mints; otherwise _access_token: the cached token if it is
\* unexpired and has the scope, else mint_token from the grant stored now.
_access_token(k, scoped, due) ==
    LET cached == ~ due /\ access.live /\ (scoped => access.wide)
    IN  worker' = [worker EXCEPT ![k] =
            IF cached THEN [Rest EXCEPT !.at = "using", !.tok = access.acct,
                                        !.snap = IF k = "poll" THEN mbox ELSE Rest.snap]
            ELSE [Rest EXCEPT !.at = "minting", !.of = grant, !.due = due,
                              !.snap = IF k = "extract" THEN Rest.snap ELSE mbox]]

\* The queue claims a poll.  A source that is gone is a permanent failure
\* with nothing to record; a paused one ends its run and returns.
handle_poll_returns ==
    /\ worker["poll"].at = "idle" /\ polls.ready > 0
    /\ src.row # "row" \/ ~ src.active
    /\ polls' = [polls EXCEPT !.ready = @ - 1, !.tries = 0]
    /\ UNCHANGED <<src, mbox, grant, access, consent, dead, worker, leaving, stamps, seen>>

handle_poll ==
    /\ worker["poll"].at = "idle" /\ polls.ready > 0
    /\ src.row = "row" /\ src.active
    /\ _access_token("poll", FALSE, mailbox_check_due(mbox))
    /\ polls' = [polls EXCEPT !.ready = @ - 1, !.tries = @ + 1]
    /\ UNCHANGED <<src, mbox, grant, access, consent, dead, leaving, stamps, seen>>

\* handle_extract runs for a message a poll queued, paused source or not.
handle_extract ==
    /\ worker["extract"].at = "idle" /\ src.row = "row" /\ src.polled
    /\ _access_token("extract", FALSE, FALSE)
    /\ UNCHANGED <<src, mbox, grant, access, consent, dead, polls, leaving, stamps, seen>>

\* _attempt: no settings, an inactive source or a read-only grant writes nothing.
write_back ==
    /\ worker["label"].at = "idle" /\ src.row = "row" /\ src.items
    /\ src.labels /\ src.active /\ grant.wide
    /\ _access_token("label", TRUE, mailbox_check_due(mbox))
    /\ UNCHANGED <<src, mbox, grant, access, consent, dead, polls, leaving, stamps, seen>>

\* The poll job goes back to the queue, or gives up: record_poll_failure
\* writes last_error and last_polled_at and keeps every other key.
record_poll_failure(p, final) ==
    IF final THEN /\ src' = IF src.row = "row"
                            THEN [src EXCEPT !.polled = TRUE] ELSE src
                  /\ polls' = [p EXCEPT !.tries = 0]
             ELSE /\ polls' = [p EXCEPT !.ready = @ + 1]
                  /\ UNCHANGED src

\* The transaction rolls back.  The write-back only records the outcome.
Fail(k, permanent) ==
    /\ Done(k)
    /\ IF k = "poll" THEN record_poll_failure(polls, permanent \/ polls.tries >= MaxTries)
                     ELSE UNCHANGED <<src, polls>>
    /\ UNCHANGED <<mbox, grant, access, consent, dead, leaving, stamps>>

\* mint_token with no grant, or one Google refuses.  The set_source_active
\* before the raise is in the transaction that the raise rolls back.
mint_refused(k) ==
    /\ worker[k].at = "minting"
    /\ worker[k].of.stamp = 0 \/ worker[k].of.stamp \in dead
    /\ Fail(k, TRUE)
    /\ seen' = IF k = "poll" /\ worker[k].of.stamp # 0
               THEN [seen EXCEPT !.refused = @ \cup {worker[k].of.stamp}] ELSE seen

\* Google, Gmail or the profile fails in a way worth a retry.
SourceErrorRaised(k) ==
    /\ worker[k].at # "idle" /\ worker[k].of.stamp \notin dead
    /\ Fail(k, FALSE) /\ UNCHANGED seen

\* After the refresh the grant is read again under a lock, and must be the
\* one the refresh was made from.  A rotated refresh token replaces it, and
\* carries a check that was made for it.
mint_token_unchecked(k) == TRUE
mint_token_current(k) == grant.stamp = worker[k].of.stamp

grant_replaced(k) ==
    /\ worker[k].at = "minting" /\ ~ GrantLocked
    /\ worker[k].of.stamp \notin {0} \cup dead
    /\ ~ mint_token_current(k)
    /\ Fail(k, FALSE) /\ UNCHANGED seen

After(k) == IF worker[k].due THEN "checking" ELSE "using"

carry_source_sync_state_key(m, old, new) ==
    IF m.vfor = old THEN [m EXCEPT !.vfor = new] ELSE m

mint_token(k) ==
    /\ worker[k].at = "minting" /\ ~ GrantLocked
    /\ worker[k].of.stamp \notin {0} \cup dead
    /\ mint_token_current(k)
    /\ \E to \in {worker[k].of.stamp} \cup
                 (IF stamps < MaxStamps THEN {stamps + 1} ELSE {}) :
           /\ stamps' = IF to > stamps THEN to ELSE stamps
           /\ worker' = [worker EXCEPT ![k] = [worker[k] EXCEPT
                            !.at = After(k), !.tok = worker[k].of.acct, !.to = to,
                            !.minted = k # "label"]]
           /\ IF k = "label"     \* a transaction of its own, committed here
              THEN /\ access' = [acct |-> worker[k].of.acct, wide |-> worker[k].of.wide,
                                 live |-> TRUE]
                   /\ grant' = [grant EXCEPT !.stamp = to]
                   /\ mbox' = carry_source_sync_state_key(mbox, worker[k].of.stamp, to)
              ELSE UNCHANGED <<access, grant, mbox>>
    /\ UNCHANGED <<src, consent, dead, polls, leaving, seen>>

\* check_mailbox, on an address that differs from the one read at the start:
\* the credentials go, the source is paused, and that commits.
check_mailbox_mismatch(k) ==
    /\ worker[k].at = "checking"
    /\ worker[k].snap.addr \notin {None, worker[k].tok}
    /\ k = "label" => ~ GrantLocked
    /\ grant' = NoGrant /\ access' = NoAccess
    /\ src' = Disconnected(src)
    /\ polls' = IF k = "poll" THEN [polls EXCEPT !.tries = 0] ELSE polls
    /\ Done(k)
    /\ UNCHANGED <<mbox, consent, dead, leaving, stamps, seen>>

\* On a match the poll keeps the two keys for its own write; the write-back
\* merges them now.
check_mailbox(k) ==
    /\ worker[k].at = "checking"
    /\ worker[k].snap.addr \in {None, worker[k].tok}
    /\ Go(k, "using")
    /\ mbox' = IF k = "label" THEN [addr |-> worker[k].tok, vfor |-> worker[k].to] ELSE mbox
    /\ UNCHANGED <<src, grant, access, consent, dead, polls, leaving, stamps, seen>>

\* What a poll or an extraction commits of its mint.
CommitMint(w) ==
    /\ access' = IF w.minted THEN [acct |-> w.tok, wide |-> w.of.wide, live |-> TRUE]
                             ELSE access
    /\ grant' = IF w.minted THEN [grant EXCEPT !.stamp = w.to] ELSE grant

\* The end of a poll: the mailbox keys are read again rather than taken from
\* the snapshot, and the check's own result goes over them.
poll_keys_from_snapshot(w) ==
    IF w.due THEN [addr |-> w.tok, vfor |-> w.to] ELSE w.snap
poll_keys(w) ==
    IF w.due THEN [addr |-> w.tok, vfor |-> w.to]
    ELSE IF w.minted THEN carry_source_sync_state_key(mbox, w.of.stamp, w.to) ELSE mbox

poll_commits ==
    LET w == worker["poll"] IN
    /\ w.at = "using"
    /\ CommitMint(w)
    /\ mbox' = poll_keys(w)
    /\ src' = IF src.row = "row" THEN [src EXCEPT !.polled = TRUE] ELSE src
    /\ polls' = [polls EXCEPT !.tries = 0]
    /\ seen' = [seen EXCEPT !.read = @ \cup {w.tok}]
    /\ Done("poll")
    /\ UNCHANGED <<consent, dead, leaving, stamps>>

\* The message is one the poll saw; a token of another mailbox finds nothing
\* under its id, which raises.
extract_commits ==
    LET w == worker["extract"] IN
    /\ w.at = "using" /\ w.tok \in seen.read
    /\ CommitMint(w)
    /\ mbox' = IF w.minted THEN carry_source_sync_state_key(mbox, w.of.stamp, w.to) ELSE mbox
    /\ src' = [src EXCEPT !.items = TRUE]
    /\ Done("extract")
    /\ UNCHANGED <<consent, dead, polls, leaving, stamps, seen>>

modify_labels ==
    /\ worker["label"].at = "using"
    /\ seen' = [seen EXCEPT !.written = @ \cup {worker["label"].tok}]
    /\ Done("label")
    /\ UNCHANGED <<src, mbox, grant, access, consent, dead, polls, leaving, stamps>>

(***************************************************************************)
(* The world: an access token expires, the owner revokes, a worker dies    *)
(***************************************************************************)

expire_access ==
    /\ access.live
    /\ access' = [access EXCEPT !.live = FALSE]
    /\ UNCHANGED <<src, mbox, grant, consent, dead, polls, worker, leaving, stamps, seen>>

revoke ==
    /\ grant.stamp \notin {0} \cup dead /\ Cardinality(dead) < MaxRevoked
    /\ dead' = dead \cup {grant.stamp}
    /\ UNCHANGED <<src, mbox, grant, access, consent, polls, worker, leaving, stamps, seen>>

\* The lease of its job runs out and the job is offered again.
worker_dies(k) ==
    /\ worker[k].at # "idle"
    /\ Done(k)
    /\ polls' = IF k = "poll" THEN [polls EXCEPT !.ready = @ + 1] ELSE polls
    /\ k = "poll" => polls.tries < MaxTries
    /\ UNCHANGED <<src, mbox, grant, access, consent, dead, leaving, stamps, seen>>

GrantNext ==
    \/ connect_source \/ set_label_sync \/ reauthorize_source \/ poll_source
    \/ disconnect_source \/ disconnect_after_wait \/ remove_source
    \/ \E c \in Consents :
           \/ purge_expired_oauth_states(c) \/ consume_oauth_state(c)
           \/ exchange_code(c) \/ oauth_callback(c)
    \/ handle_poll_returns \/ handle_poll \/ handle_extract \/ write_back
    \/ \E k \in Kinds :
           \/ mint_refused(k) \/ SourceErrorRaised(k) \/ grant_replaced(k)
           \/ mint_token(k) \/ check_mailbox_mismatch(k) \/ check_mailbox(k)
           \/ worker_dies(k)
    \/ poll_commits \/ extract_commits \/ modify_labels
    \/ expire_access \/ revoke

GrantSpec == GrantInit /\ [][GrantNext]_grantVars

(***************************************************************************)
(* Properties                                                              *)
(***************************************************************************)

\* One source reads and writes one mailbox, the one it recorded, whichever
\* account a later consent came back as (ingest.check_mailbox: "A source whose
\* token silently changed mailbox would run one inbox's cursor against
\* another").
OneMailbox ==
    /\ seen.read \cup seen.written \subseteq {mbox.addr}
    /\ mbox.addr # None /\ mbox.vfor = grant.stamp /\ access.live
           => access.acct = mbox.addr

\* A consent whose code Google has exchanged still has its source to land in:
\* removing an unused source never takes the row from under a callback, and a
\* source that pulled something in, or holds a credential, is never removed.
ConsentLands ==
    /\ \A c \in Consents : consent[c].st \in {"held", "exchanged"} => src.row = "row"
    /\ src.row = "removed" => ~ src.items /\ grant.stamp = 0 /\ seen.read = {}

\* A mailbox Google has refused to refresh stops being polled: the source is
\* paused until its owner consents again (test_ingest.py: "Deactivating stops
\* the scheduler from hammering a dead connection every few minutes").
RevokedIsDeactivated ==
    grant.stamp \in seen.refused => ~ src.active

=============================================================================

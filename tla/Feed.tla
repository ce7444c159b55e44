-------------------------------- MODULE Feed --------------------------------
(***************************************************************************)
(* The private podcast feed: the token in its URL, minted on first ask and *)
(* rotated when it leaks, and the documents podcast clients fetch with it. *)
(* db/src/motet_db/repo.py, api/src/motet_api/main.py, deps.py and         *)
(* feed.py.                                                                *)
(*                                                                         *)
(* Requests are transactions at READ COMMITTED: what one writes appears    *)
(* when it commits, and two may overlap.  A token's created_at is the time *)
(* its transaction began, here a count of the transactions begun.          *)
(***************************************************************************)
EXTENDS Base, Integers, FiniteSets, FiniteSetsExt

CONSTANTS
    Owners,     \* requests the owner's apps have open at once
    Readers,    \* podcast clients
    MaxBegun    \* transactions of the owner (bound)

ASSUME FeedAssumption == MaxBegun \in Nat

VARIABLES
    token,      \* the feed_tokens committed, by created_at: "none", "live" or "revoked"
    own,        \* the owner's open requests
    begun,      \* transactions the owner began
    reader,     \* each client: tokens in the URLs it has, and its open request
    rotated     \* history: when the latest rotation began that committed with no other
                \* of the owner's transactions committing in between

feedVars == <<token, own, begun, reader, rotated>>

NoRequest == [at |-> "idle", born |-> 0, seen |-> {}, alone |-> TRUE]

FeedInit ==
    /\ token = [t \in 1..MaxBegun |-> "none"]
    /\ own = [o \in Owners |-> NoRequest]
    /\ begun = 0 /\ rotated = 0
    /\ reader = [r \in Readers |->
                    [has |-> {}, at |-> "idle", joined |-> 0, overlapped |-> FALSE]]

FeedTypeOK ==
    /\ \A t \in 1..MaxBegun : token[t] \in {"none", "live", "revoked"}
    /\ \A o \in Owners : own[o].at \in {"idle", "minting", "rotating"}
    /\ begun \in 0..MaxBegun /\ rotated \in 0..MaxBegun
    /\ \A r \in Readers : /\ reader[r].has \subseteq 1..MaxBegun
                          /\ reader[r].at \in {"idle", "rendering"}

Live == {t \in 1..MaxBegun : token[t] = "live"}

\* active_feed_token: the newest that is not revoked
active_feed_token == IF Live = {} THEN 0 ELSE Max(Live)

\* user_for_feed_token: unknown and revoked tokens resolve to nobody.
user_for_feed_token_any(t) == token[t] # "none"
user_for_feed_token(t) == token[t] = "live"

\* ensure_feed_token, behind GET /v1/feed, when there is none yet; otherwise the
\* request changes nothing.
ensure_feed_token(o) ==
    /\ own[o].at = "idle" /\ active_feed_token = 0 /\ begun < MaxBegun
    /\ begun' = begun + 1
    /\ own' = [own EXCEPT ![o] = [NoRequest EXCEPT !.at = "minting", !.born = begun + 1]]
    /\ UNCHANGED <<token, reader, rotated>>

\* rotate_feed_token, its UPDATE: the rows to revoke are the ones committed now.  A
\* second rotation waits for the first one's rows and then revokes none of them
\* again; it never sees the token the first inserted.
rotate_feed_token(o) ==
    /\ own[o].at = "idle" /\ begun < MaxBegun
    /\ begun' = begun + 1
    /\ own' = [own EXCEPT ![o] = [NoRequest EXCEPT !.at = "rotating", !.born = begun + 1,
                                                  !.seen = Live]]
    /\ UNCHANGED <<token, reader, rotated>>

Revoked_newest(o) == IF own[o].seen = {} THEN {} ELSE {Max(own[o].seen)}
Revoked(o) == own[o].seen

\* The request commits: get_feed_info or rotate_feed answers with the new URL.
feed_request_commits(o) ==
    /\ own[o].at # "idle"
    /\ token' = [t \in 1..MaxBegun |->
                    IF t = own[o].born THEN "live"
                    ELSE IF t \in Revoked(o) THEN "revoked" ELSE token[t]]
    /\ rotated' = IF own[o].at = "rotating" /\ own[o].alone /\ own[o].born > rotated
                  THEN own[o].born ELSE rotated
    /\ reader' = [r \in Readers |->
                     [reader[r] EXCEPT !.overlapped = @ \/ reader[r].at = "rendering"]]
    /\ own' = [p \in Owners |-> IF p = o THEN NoRequest
                                ELSE [own[p] EXCEPT !.alone = own[p].at = "idle"]]
    /\ UNCHANGED begun

\* The owner pastes the URL the app shows into a podcast client.
subscribe(r) ==
    /\ reader[r].at = "idle" /\ active_feed_token # 0
    /\ reader' = [reader EXCEPT ![r] = [reader[r] EXCEPT !.has = @ \cup {active_feed_token},
                                                         !.joined = begun, !.overlapped = FALSE]]
    /\ UNCHANGED <<token, own, begun, rotated>>

\* rss_feed, its dependency: the token presented resolves to the owner.
rss_feed(r, t) ==
    /\ reader[r].at = "idle" /\ t \in reader[r].has
    /\ user_for_feed_token(t)
    /\ reader' = [reader EXCEPT ![r].at = "rendering"]
    /\ UNCHANGED <<token, own, begun, rotated>>

\* rss_feed and render_feed: every URL in the document carries the active token.
render_feed(r) ==
    /\ reader[r].at = "rendering"
    /\ reader' = [reader EXCEPT ![r].at = "idle", ![r].has = @ \cup {active_feed_token}]
    /\ UNCHANGED <<token, own, begun, rotated>>

FeedNext ==
    \/ \E o \in Owners : ensure_feed_token(o) \/ rotate_feed_token(o) \/ feed_request_commits(o)
    \/ \E r \in Readers : \/ subscribe(r) \/ render_feed(r)
                          \/ \E t \in 1..MaxBegun : rss_feed(r, t)

FeedSpec == FeedInit /\ [][FeedNext]_feedVars

(***************************************************************************)
(* Properties                                                              *)
(***************************************************************************)

\* A rotation unsubscribes: once it has committed, with no other token committed
\* while it ran, no client that was subscribed before it began has a URL that works,
\* except one whose request was being answered when a token was committed, and so
\* was handed the new one.  And a feed being rendered always has a token to put in
\* it, as rss_feed asserts.
RotationUnsubscribes ==
    \A r \in Readers :
        /\ (\E t \in reader[r].has : user_for_feed_token(t))
               => reader[r].joined >= rotated \/ reader[r].overlapped
        /\ reader[r].at = "rendering" => active_feed_token # 0

=============================================================================

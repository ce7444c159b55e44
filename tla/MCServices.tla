----------------------------- MODULE MCServices -----------------------------
\* The services around the pipeline for TLC: their state is disjoint, so one run
\* checks the sum of their specifications.  The initial state picks a scene, the
\* component that runs; every other component is off.
EXTENDS MailGrant, MailSearch, Access, Connectors, Requests, Throttle, Backlog,
        Listening, Serving, Feed, Voice, ModelGateway, EnrichRun, Panels, BuildPanel,
        Vault, Extract, McpTools, Harness, Hearing, TLC

CONSTANTS x, y    \* interchangeable: accounts, workers, flows, owners, savers, seeds, calls ...

VARIABLE scene

Scenes == {"grant", "search", "access", "connectors", "requests", "throttle", "backlog",
           "listening", "serving", "feed", "voice", "gateway", "enrich", "panels",
           "build", "vault", "extract", "mcp", "harness", "hearing"}

ServicesSymmetry == Permutations({x, y})

(* ------------------------- values for constants ------------------------ *)

SomeDeployments == [flag : BOOLEAN, name : {"staging", "prod-eu"}]
SomeTranscripts == {<< <<1, 2>>, <<1>> >>, << <<2>>, <<>>, <<1, 1>> >>, << <<0>>, <<1>> >>}
SomeParams == LET G(b, ro) == [base |-> b, readonly |-> ro]
              IN {{}, {G("admin", FALSE)}, {G("feed", TRUE), G("admin", TRUE)},
                  {G("nope", FALSE)}}
SomeSamples == {<<>>, <<5, 1, 2>>, <<4, 1, 2, 9>>}
SomePassages == {[id |-> 1, story |-> 1, length |-> 2], [id |-> 2, story |-> 2, length |-> 1]}
SomeIdents == {<<"a">>, <<"b">>, <<"a", ":", "a">>}
SomePlainParts == {None, <<"prose", "footer", "url", "prose", "prose">>,
                   <<"preamble", "prose", "url">>,
                   <<"url", "divider", "footer", "prose", "footer", "prose">>}

Image(slugs, model, stage, effort) ==
    [known |-> slugs, allow_unlisted |-> TRUE, model |-> model, stage |-> stage, effort |-> effort]
SomeImages ==
    {Image(DOMAIN ModelSpec, None, NoRows, None),
     Image({"sonnet", "gpt"}, None, NoRows, None),
     Image(DOMAIN ModelSpec, "new", [NoRows EXCEPT !["dedup"].model = "haiku"], "off")}

(* ------------------------------- the sum -------------------------------- *)

GrantOff ==
    /\ src = None /\ mbox = None /\ grant = None /\ access = None /\ consent = None
    /\ dead = None /\ polls = None /\ worker = None /\ leaving = None
    /\ stamps = None /\ seen = None
SearchOff ==
    /\ clock = None /\ inbox = None /\ conf = None /\ sync = None /\ jobs = None
    /\ poll = None /\ sought = None
AccessOff ==
    /\ allowed = None /\ signin = None /\ sess = None /\ refr = None /\ pats = None
    /\ clients = None /\ sweep = None /\ made = None /\ history = None
ConnectorOff ==
    /\ mcp = None /\ site = None /\ flow = None /\ regs = None /\ late = None
RequestOff ==
    /\ req = None /\ job = None /\ exec = None /\ listed = None /\ told = None
    /\ starts = None
ThrottleOff ==
    /\ now = None /\ window = None /\ served = None
BacklogOff ==
    /\ story = None /\ think = None /\ last = None /\ twins = None
ListeningOff ==
    /\ item = None /\ ep = None /\ heard = None
ServingOff ==
    /\ answered = None /\ saved = None
FeedOff ==
    /\ token = None /\ own = None /\ begun = None /\ reader = None /\ rotated = None
VoiceOff ==
    /\ session_at = None /\ narr = None /\ vad = None /\ live = None /\ vend = None
    /\ wire = None /\ pump = None /\ reader_at = None /\ trace = None
GatewayOff ==
    /\ deploy = None /\ rows = None /\ saving = None /\ gate_job = None
    /\ bill = None /\ usage = None /\ lapse = None /\ count = None
EnrichOff ==
    /\ added = None /\ status = None /\ held = None /\ run_ = None /\ ledger = None
    /\ jar = None /\ owed = None
PanelsOff ==
    /\ jobrows = None /\ items = None /\ polling = None /\ skipped = None
    /\ gone = None /\ walk = None
BuildOff ==
    /\ clock_b = None /\ episode = None /\ stages = None /\ beats = None
    /\ listed_copy = None /\ panel = None /\ bar = None
VaultOff ==
    /\ env = None /\ vaultrows = None /\ opened = None /\ stored = None
    /\ sealed_n = None
ExtractOff ==
    /\ open_ = None /\ parser = None /\ visible = None /\ confused = None
    /\ plain = None /\ message = None
McpOff ==
    /\ transports = None /\ lifespans = None /\ toolcall = None /\ scope = None
    /\ known = None /\ minted = None
HarnessOff ==
    /\ deployed = None /\ tables = None /\ numbered = None /\ seeding = None
    /\ reset = None /\ handler = None
HearOff ==
    /\ floor = None /\ warm = None /\ turn = None /\ decided = None /\ steady = None
    /\ playing_at = None

ServicesInit ==
    /\ scene \in Scenes
    /\ IF scene = "grant" THEN GrantInit ELSE GrantOff
    /\ IF scene = "search" THEN SearchInit ELSE SearchOff
    /\ IF scene = "access" THEN AccessInit ELSE AccessOff
    /\ IF scene = "connectors" THEN ConnectorInit ELSE ConnectorOff
    /\ IF scene = "requests" THEN RequestInit ELSE RequestOff
    /\ IF scene = "throttle" THEN ThrottleInit ELSE ThrottleOff
    /\ IF scene = "backlog" THEN BacklogInit ELSE BacklogOff
    /\ IF scene = "listening" THEN ListeningInit ELSE ListeningOff
    /\ IF scene = "serving" THEN ServingInit ELSE ServingOff
    /\ IF scene = "feed" THEN FeedInit ELSE FeedOff
    /\ IF scene = "voice" THEN VoiceInit ELSE VoiceOff
    /\ IF scene = "gateway" THEN GatewayInit ELSE GatewayOff
    /\ IF scene = "enrich" THEN EnrichInit ELSE EnrichOff
    /\ IF scene = "panels" THEN PanelsInit ELSE PanelsOff
    /\ IF scene = "build" THEN BuildInit ELSE BuildOff
    /\ IF scene = "vault" THEN VaultInit ELSE VaultOff
    /\ IF scene = "extract" THEN ExtractInit ELSE ExtractOff
    /\ IF scene = "mcp" THEN McpInit ELSE McpOff
    /\ IF scene = "harness" THEN HarnessInit ELSE HarnessOff
    /\ IF scene = "hearing" THEN HearInit ELSE HearOff

\* What a step leaves alone comes first: TLC then fixes it once for all the
\* successors of a state.
ServicesNext ==
    /\ UNCHANGED scene
    /\ IF scene = "grant" THEN TRUE ELSE UNCHANGED grantVars
    /\ IF scene = "search" THEN TRUE ELSE UNCHANGED searchVars
    /\ IF scene = "access" THEN TRUE ELSE UNCHANGED accessVars
    /\ IF scene = "connectors" THEN TRUE ELSE UNCHANGED connectorVars
    /\ IF scene = "requests" THEN TRUE ELSE UNCHANGED requestVars
    /\ IF scene = "throttle" THEN TRUE ELSE UNCHANGED throttleVars
    /\ IF scene = "backlog" THEN TRUE ELSE UNCHANGED backlogVars
    /\ IF scene = "listening" THEN TRUE ELSE UNCHANGED listeningVars
    /\ IF scene = "serving" THEN TRUE ELSE UNCHANGED servingVars
    /\ IF scene = "feed" THEN TRUE ELSE UNCHANGED feedVars
    /\ IF scene = "voice" THEN TRUE ELSE UNCHANGED voiceVars
    /\ IF scene = "gateway" THEN TRUE ELSE UNCHANGED gatewayVars
    /\ IF scene = "enrich" THEN TRUE ELSE UNCHANGED enrichVars
    /\ IF scene = "panels" THEN TRUE ELSE UNCHANGED panelsVars
    /\ IF scene = "build" THEN TRUE ELSE UNCHANGED buildVars
    /\ IF scene = "vault" THEN TRUE ELSE UNCHANGED vaultVars
    /\ IF scene = "extract" THEN TRUE ELSE UNCHANGED extractVars
    /\ IF scene = "mcp" THEN TRUE ELSE UNCHANGED mcpVars
    /\ IF scene = "harness" THEN TRUE ELSE UNCHANGED harnessVars
    /\ IF scene = "hearing" THEN TRUE ELSE UNCHANGED hearVars
    /\ \/ scene = "grant" /\ GrantNext
       \/ scene = "search" /\ SearchNext
       \/ scene = "access" /\ AccessNext
       \/ scene = "connectors" /\ ConnectorNext
       \/ scene = "requests" /\ RequestNext
       \/ scene = "throttle" /\ ThrottleNext
       \/ scene = "backlog" /\ BacklogNext
       \/ scene = "listening" /\ ListeningNext
       \/ scene = "serving" /\ ServingNext
       \/ scene = "feed" /\ FeedNext
       \/ scene = "voice" /\ VoiceNext
       \/ scene = "gateway" /\ GatewayNext
       \/ scene = "enrich" /\ EnrichNext
       \/ scene = "panels" /\ PanelsNext
       \/ scene = "build" /\ BuildNext
       \/ scene = "vault" /\ VaultNext
       \/ scene = "extract" /\ ExtractNext
       \/ scene = "mcp" /\ McpNext
       \/ scene = "harness" /\ HarnessNext
       \/ scene = "hearing" /\ HearNext

servicesVars ==
    <<scene, grantVars, searchVars, accessVars, connectorVars, requestVars, throttleVars,
      backlogVars, listeningVars, servingVars, feedVars, voiceVars, gatewayVars,
      enrichVars, panelsVars, buildVars, vaultVars, extractVars, mcpVars, harnessVars,
      hearVars>>

ServicesSpec == ServicesInit /\ [][ServicesNext]_servicesVars

(* ------------------------------ properties ------------------------------ *)

\* The type invariant of every component.
ServicesTypeOK ==
    /\ scene \in Scenes
    /\ scene = "grant" => GrantTypeOK
    /\ scene = "search" => SearchTypeOK
    /\ scene = "access" => AccessTypeOK
    /\ scene = "connectors" => ConnectorTypeOK
    /\ scene = "requests" => RequestTypeOK
    /\ scene = "throttle" => ThrottleTypeOK
    /\ scene = "backlog" => BacklogTypeOK
    /\ scene = "listening" => ListeningTypeOK
    /\ scene = "serving" => ServingTypeOK
    /\ scene = "feed" => FeedTypeOK
    /\ scene = "voice" => VoiceTypeOK
    /\ scene = "gateway" => GatewayTypeOK
    /\ scene = "enrich" => EnrichTypeOK
    /\ scene = "panels" => PanelsTypeOK
    /\ scene = "build" => BuildTypeOK
    /\ scene = "vault" => VaultTypeOK
    /\ scene = "extract" => ExtractTypeOK
    /\ scene = "mcp" => McpTypeOK
    /\ scene = "harness" => HarnessTypeOK
    /\ scene = "hearing" => HearTypeOK

\* A source reads and labels only the mailbox its owner consented to, and a consent
\* given is the one in force (main.oauth_callback, ingest.check_mailbox, mint_token).
GrantIsTheOwners == scene = "grant" => OneMailbox /\ ConsentLands

\* No message between two searches is stepped over, and what a message's reader sees is
\* what is extracted from it (GmailMailClient._search, sources/extract.py).
MailArrivesWhole ==
    /\ scene = "search" => NothingSteppedOver
    /\ scene = "extract" => ExtractionIsSound

\* A resync asked for is carried out whatever polls overlap it, and the progress shown
\* adds up (ingest.handle_poll, record_poll_failure, sync_progress).
ResyncIsHonest == scene = "search" => ResyncNotLost /\ ProgressAddsUp

\* One consent yields one grant, a delegated one stays narrower than its owner's, and a
\* tool call runs as the bearer and within the groups its request named (api/auth,
\* api/mcp/oauth.py, deps.py, mcp/context.py, mcp/registry.py).
AuthorityStaysNarrow ==
    /\ scene = "access" => OneGrantPerConsent /\ DelegationStaysNarrow
    /\ scene = "mcp" => ToolCallsHold

\* What is revoked stays revoked: sessions and tokens, a rotated feed's subscribers, and
\* the guesses a failing client may make in a window (api/mcp/oauth.py, repo.py
\* rotate_feed_token, throttle.py).
RevocationHolds ==
    /\ scene = "access" => RevokedStaysRevoked
    /\ scene = "feed" => RotationUnsubscribes
    /\ scene = "throttle" => RefusalsAreBounded

\* A stored secret opens only for the row it was sealed for, and a connector in force
\* stays usable with the client and issuer it was granted by (vault/envelope.py,
\* main.connector_oauth_callback, main._connector_refused).
CredentialsHold ==
    /\ scene = "connectors" => GrantStaysInForce
    /\ scene = "vault" => VaultHolds

\* A drain or an alert fires only for what committed, and work nudged for is drained
\* (drain.py, slack.py, runner.py).
ToldOnlyAfterCommit == scene = "requests" => ToldAfterCommit

\* A story is merged, marked read and chosen for an episode only as its listener's own
\* reading and listening say (handlers.handle_integrate, phase2.record_listen_progress).
BacklogIsKept ==
    /\ scene = "backlog" => DedupKeepsItsWord
    /\ scene = "listening" => ReadStateIsEarned

\* Byte ranges, claim timings and cues answer what was asked for
\* (main._byte_range_response, handlers.apportion_claim_timings, shownotes.py).
AnsweredAsAsked == scene = "serving" => ServedAsAsked

\* The floor passes between narration, listener and model as the session says, and a
\* turn is taken on speech that stands out (voice session.py, live.py, vad.py, bargein.py).
ListenerIsHeard ==
    /\ scene = "voice" => FloorIsKept
    /\ scene = "hearing" => HearingHolds

\* What an agent run or a model call was charged is booked, within the caps, and a
\* saved model setting resolves (enrich pi.py, workers enrich.py, llm_context.py).
SpendIsAccounted ==
    /\ scene = "enrich" => RunsAreAccountable
    /\ scene = "gateway" => GatewayIsSound

\* What the owner is shown of a message, of the queues and of a build agrees with the
\* rows it is about (repo.py, episode_progress.py).
ShownIsTrue ==
    /\ scene = "panels" => PanelsAreHonest
    /\ scene = "build" => BuildPanelHolds

\* The staging harness leaves nothing behind and is absent in production
\* (db/fixtures.py, api/fixtures.py).
HarnessIsSafe == scene = "harness" => HarnessHolds

=============================================================================

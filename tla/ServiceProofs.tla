---------------------------- MODULE ServiceProofs ----------------------------
(***************************************************************************)
(* The services together: a behaviour of the sum is a behaviour of the one *)
(* component its scene names, so each component's invariant carries over.  *)
(***************************************************************************)
EXTENDS MCServices, AccessProofs, MailProofs, OperationsProofs, ClientProofs

\* A step of the sum is a step of the component in force, or none.
LEMMA SceneStep ==
    ASSUME [ServicesNext]_servicesVars
    PROVE  /\ scene' = scene
           /\ scene = "access" => [AccessNext]_accessVars
           /\ scene = "feed" => [FeedNext]_feedVars
           /\ scene = "throttle" => [ThrottleNext]_throttleVars
           /\ scene = "connectors" => [ConnectorNext]_connectorVars
           /\ scene = "vault" => [VaultNext]_vaultVars
           /\ scene = "mcp" => [McpNext]_mcpVars
           /\ scene = "grant" => [GrantNext]_grantVars
           /\ scene = "search" => [SearchNext]_searchVars
           /\ scene = "requests" => [RequestNext]_requestVars
           /\ scene = "harness" => [HarnessNext]_harnessVars
           /\ scene = "enrich" => [EnrichNext]_enrichVars
           /\ scene = "gateway" => [GatewayNext]_gatewayVars
           /\ scene = "panels" => [PanelsNext]_panelsVars
           /\ scene = "build" => [BuildNext]_buildVars
           /\ scene = "voice" => [VoiceNext]_voiceVars
           /\ scene = "hearing" => [HearNext]_hearVars
           /\ scene = "backlog" => [BacklogNext]_backlogVars
           /\ scene = "listening" => [ListeningNext]_listeningVars
           /\ scene = "serving" => [ServingNext]_servingVars
           /\ scene = "extract" => [ExtractNext]_extractVars
<1>1. CASE ServicesNext
  BY <1>1 DEF ServicesNext
<1>2. CASE UNCHANGED servicesVars
  BY <1>2 DEF servicesVars
<1> QED
  BY <1>1, <1>2

\* What is revoked stays revoked, in every scene.
THEOREM RevocationHoldsAlways == ServicesSpec => []RevocationHolds
<1> DEFINE Inv == /\ scene = "access" => AccessInv
                  /\ scene = "feed" => FeedInv
                  /\ scene = "throttle" => ThrottleInv
<1>1. ServicesInit => Inv
  BY AccessStart, FeedStart, ThrottleStart DEF ServicesInit
<1>2. Inv /\ [ServicesNext]_servicesVars => Inv'
  BY SceneStep, AccessStep, FeedStep, ThrottleStep
<1>3. Inv => RevocationHolds
  BY AccessUse, FeedUse, ThrottleUse DEF RevocationHolds
<1> QED
  BY <1>1, <1>2, <1>3, PTL DEF ServicesSpec

\* Stored secrets and connectors' grants, in every scene.
THEOREM CredentialsHoldAlways == ServicesSpec => []CredentialsHold
<1> DEFINE Inv == /\ scene = "connectors" => ConnectorInv
                  /\ scene = "vault" => VaultInv
<1>1. ServicesInit => Inv
  BY ConnectorStart, VaultStart DEF ServicesInit
<1>2. Inv /\ [ServicesNext]_servicesVars => Inv'
  BY SceneStep, ConnectorStep, VaultStep
<1>3. Inv => CredentialsHold
  BY ConnectorUse, VaultUse DEF CredentialsHold
<1> QED
  BY <1>1, <1>2, <1>3, PTL DEF ServicesSpec

\* One grant per consent, delegations and tool calls within their bounds, in every scene.
THEOREM AuthorityStaysNarrowAlways == ServicesSpec => []AuthorityStaysNarrow
<1> DEFINE Inv == /\ scene = "access" => AccessInv
                  /\ scene = "mcp" => McpInv
<1>1. ServicesInit => Inv
  BY AccessStart, McpStart DEF ServicesInit
<1>2. Inv /\ [ServicesNext]_servicesVars => Inv'
  BY SceneStep, AccessStep, McpStep
<1>3. Inv => AuthorityStaysNarrow
  BY AccessUse, McpUse DEF AuthorityStaysNarrow
<1> QED
  BY <1>1, <1>2, <1>3, PTL DEF ServicesSpec

\* A source works on the one mailbox its owner gave it, in every scene.
THEOREM GrantIsTheOwnersAlways == ServicesSpec => []GrantIsTheOwners
<1> DEFINE Inv == scene = "grant" => GrantInv
<1>1. ServicesInit => Inv
  BY GrantStart DEF ServicesInit
<1>2. Inv /\ [ServicesNext]_servicesVars => Inv'
  BY SceneStep, GrantStep
<1>3. Inv => GrantIsTheOwners
  BY GrantUse DEF GrantIsTheOwners
<1> QED
  BY <1>1, <1>2, <1>3, PTL DEF ServicesSpec

\* No message is stepped over and what is read of one is what it shows, in every scene.
THEOREM MailArrivesWholeAlways == ServicesSpec => []MailArrivesWhole
<1> DEFINE Inv == /\ scene = "search" => SearchInv
                  /\ scene = "extract" => ExtractInv
<1>1. ServicesInit => Inv
  BY SearchStart, ExtractStart DEF ServicesInit
<1>2. Inv /\ [ServicesNext]_servicesVars => Inv'
  BY SceneStep, SearchStep, ExtractStep
<1>3. Inv => MailArrivesWhole
  BY SearchUse, ExtractUse DEF MailArrivesWhole
<1> QED
  BY <1>1, <1>2, <1>3, PTL DEF ServicesSpec

\* A resync is carried out and its progress adds up, in every scene.
THEOREM ResyncIsHonestAlways == ServicesSpec => []ResyncIsHonest
<1> DEFINE Inv == scene = "search" => SearchInv
<1>1. ServicesInit => Inv
  BY SearchStart DEF ServicesInit
<1>2. Inv /\ [ServicesNext]_servicesVars => Inv'
  BY SceneStep, SearchStep
<1>3. Inv => ResyncIsHonest
  BY SearchUse DEF ResyncIsHonest
<1> QED
  BY <1>1, <1>2, <1>3, PTL DEF ServicesSpec

\* What is told and what is nudged for has committed, in every scene.
THEOREM ToldOnlyAfterCommitAlways == ServicesSpec => []ToldOnlyAfterCommit
<1> DEFINE Inv == scene = "requests" => RequestInv
<1>1. ServicesInit => Inv
  BY RequestStart DEF ServicesInit
<1>2. Inv /\ [ServicesNext]_servicesVars => Inv'
  BY SceneStep, RequestStep
<1>3. Inv => ToldOnlyAfterCommit
  BY RequestUse DEF ToldOnlyAfterCommit
<1> QED
  BY <1>1, <1>2, <1>3, PTL DEF ServicesSpec

\* The staging harness stays contained and its reset clean, in every scene.
THEOREM HarnessIsSafeAlways == ServicesSpec => []HarnessIsSafe
<1> DEFINE Inv == scene = "harness" => HarnessInv
<1>1. ServicesInit => Inv
  BY HarnessStart DEF ServicesInit
<1>2. Inv /\ [ServicesNext]_servicesVars => Inv'
  BY SceneStep, HarnessStep
<1>3. Inv => HarnessIsSafe
  BY HarnessUse DEF HarnessIsSafe
<1> QED
  BY <1>1, <1>2, <1>3, PTL DEF ServicesSpec

\* What a run or a call was charged is booked within the caps, in every scene.
THEOREM SpendIsAccountedAlways == ServicesSpec => []SpendIsAccounted
<1> DEFINE Inv == /\ scene = "enrich" => EnrichInv
                  /\ scene = "gateway" => GatewayInv
<1>1. ServicesInit => Inv
  BY EnrichStart, GatewayStart DEF ServicesInit
<1>2. Inv /\ [ServicesNext]_servicesVars => Inv'
  BY SceneStep, EnrichStep, GatewayStep
<1>3. Inv => SpendIsAccounted
  BY EnrichUse, GatewayUse DEF SpendIsAccounted
<1> QED
  BY <1>1, <1>2, <1>3, PTL DEF ServicesSpec

\* What the panels show is so, in every scene.
THEOREM ShownIsTrueAlways == ServicesSpec => []ShownIsTrue
<1> DEFINE Inv == /\ scene = "panels" => PanelsInv
                  /\ scene = "build" => BuildInv
<1>1. ServicesInit => Inv
  BY PanelsStart, BuildStart DEF ServicesInit
<1>2. Inv /\ [ServicesNext]_servicesVars => Inv'
  BY SceneStep, PanelsStep, BuildStep
<1>3. Inv => ShownIsTrue
  BY PanelsUse DEF ShownIsTrue, BuildInv
<1> QED
  BY <1>1, <1>2, <1>3, PTL DEF ServicesSpec

\* The listener is heard, and only when the floor is theirs, in every scene.
THEOREM ListenerIsHeardAlways == ServicesSpec => []ListenerIsHeard
<1> DEFINE Inv == /\ scene = "voice" => VoiceInv
                  /\ scene = "hearing" => HearInv
<1>1. ServicesInit => Inv
  BY VoiceStart, HearStart DEF ServicesInit
<1>2. Inv /\ [ServicesNext]_servicesVars => Inv'
  BY SceneStep, VoiceStep, HearStep
<1>3. Inv => ListenerIsHeard
  BY VoiceUse, HearUse DEF ListenerIsHeard
<1> QED
  BY <1>1, <1>2, <1>3, PTL DEF ServicesSpec

\* Stories are merged, read and passed over as their listener did, in every scene.
THEOREM BacklogIsKeptAlways == ServicesSpec => []BacklogIsKept
<1> DEFINE Inv == /\ scene = "backlog" => BacklogInv
                  /\ scene = "listening" => ListeningInv
<1>1. ServicesInit => Inv
  BY BacklogStart, ListeningStart DEF ServicesInit
<1>2. Inv /\ [ServicesNext]_servicesVars => Inv'
  BY SceneStep, BacklogStep, ListeningStep
<1>3. Inv => BacklogIsKept
  BY DEF BacklogIsKept, BacklogInv, DedupKeepsItsWord, ListeningInv
<1> QED
  BY <1>1, <1>2, <1>3, PTL DEF ServicesSpec

\* What is served is what was asked for, in every scene.
THEOREM AnsweredAsAskedAlways == ServicesSpec => []AnsweredAsAsked
<1> DEFINE Inv == scene = "serving" => ServingInv
<1>1. ServicesInit => Inv
  BY ServingStart DEF ServicesInit
<1>2. Inv /\ [ServicesNext]_servicesVars => Inv'
  BY SceneStep, ServingStep
<1>3. Inv => AnsweredAsAsked
  BY DEF AnsweredAsAsked, ServingInv
<1> QED
  BY <1>1, <1>2, <1>3, PTL DEF ServicesSpec

\* Every component's state keeps its type, in every scene: the invariant of each, with
\* what bounds its counters beside it.
THEOREM TypesHoldAlways == ServicesSpec => []ServicesTypeOK
<1> DEFINE Mail == /\ scene = "grant" => GrantInv /\ GrantBounds
                   /\ scene = "search" => SearchInv /\ SearchBounds
           Authority == /\ scene = "access" => AccessInv /\ AccessTypeOK
                        /\ scene = "connectors" => ConnectorInv
                        /\ scene = "throttle" => ThrottleInv
                        /\ scene = "feed" => FeedInv
                        /\ scene = "vault" => VaultInv
                        /\ scene = "mcp" => McpInv /\ McpTypeOK
           Operations == /\ scene = "requests" => RequestInv /\ RequestBounds
                         /\ scene = "gateway" => GatewayInv /\ GatewayBounds
                         /\ scene = "enrich" => EnrichInv
                         /\ scene = "harness" => HarnessInv /\ numbered <= MaxRows
           Shown == /\ scene = "panels" => PanelsInv /\ HistoriesTyped
                    /\ scene = "build" => BuildInv /\ BuildBounds
                    /\ scene = "voice" => VoiceInv /\ VoiceBounds
                    /\ scene = "hearing" => HearInv /\ HearBounds
           Told == /\ scene = "backlog" => BacklogInv
                   /\ scene = "listening" => ListeningInv /\ ListeningBounds
                   /\ scene = "serving" => ServingTypeOK
                   /\ scene = "extract" => ExtractInv /\ parser.fed <= MaxTags
           Inv == scene \in Scenes /\ Mail /\ Authority /\ Operations /\ Shown /\ Told
<1>1. ServicesInit => Inv
  <2> SUFFICES ASSUME ServicesInit PROVE Inv
    OBVIOUS
  <2>1. scene \in Scenes /\ Mail
    BY GrantStart, SearchStart, GrantBounded, SearchBounded DEF ServicesInit
  <2>2. Authority
    BY AccessStart, ConnectorStart, ThrottleStart, FeedStart, VaultStart, McpStart,
       AccessTyped, McpTyped DEF ServicesInit
  <2>3. Operations
    BY RequestStart, GatewayStart, EnrichStart, HarnessStart,
       RequestBounded, GatewayBounded, HarnessBounded DEF ServicesInit
  <2>4. Shown
    BY PanelsStart, BuildStart, VoiceStart, HearStart,
       PanelsTyped, BuildBounded, VoiceBounded, HearBounded DEF ServicesInit
  <2>5. Told
    BY BacklogStart, ListeningStart, ExtractStart,
       ListeningBounded, ServingTyped, ExtractBounded DEF ServicesInit
  <2> HIDE DEF Mail, Authority, Operations, Shown, Told
  <2> QED
    BY <2>1, <2>2, <2>3, <2>4, <2>5
<1>2. Inv /\ [ServicesNext]_servicesVars => Inv'
  <2> SUFFICES ASSUME Inv, [ServicesNext]_servicesVars PROVE Inv'
    OBVIOUS
  <2>1. (scene \in Scenes)' /\ Mail'
    BY SceneStep, GrantStep, SearchStep, GrantBounded, SearchBounded
  <2>2. Authority'
    BY SceneStep, AccessStep, ConnectorStep, ThrottleStep, FeedStep, VaultStep, McpStep,
       AccessTyped, McpTyped
  <2>3. Operations'
    BY SceneStep, RequestStep, GatewayStep, EnrichStep, HarnessStep,
       RequestBounded, GatewayBounded, HarnessBounded
  <2>4. Shown'
    BY SceneStep, PanelsStep, BuildStep, VoiceStep, HearStep,
       PanelsTyped, BuildBounded, VoiceBounded, HearBounded
  <2>5. Told'
    BY SceneStep, BacklogStep, ListeningStep, ExtractStep,
       ListeningBounded, ServingTyped, ExtractBounded
  <2> HIDE DEF Mail, Authority, Operations, Shown, Told
  <2> QED
    BY <2>1, <2>2, <2>3, <2>4, <2>5
<1>3. Inv => ServicesTypeOK
  <2> SUFFICES ASSUME Inv PROVE ServicesTypeOK
    OBVIOUS
  <2>1. /\ scene = "grant" => GrantTypeOK
        /\ scene = "search" => SearchTypeOK
    BY GrantBounded, SearchBounded
  <2>2. /\ scene = "access" => AccessTypeOK
        /\ scene = "connectors" => ConnectorTypeOK
        /\ scene = "throttle" => ThrottleTypeOK
        /\ scene = "feed" => FeedTypeOK
        /\ scene = "vault" => VaultTypeOK
        /\ scene = "mcp" => McpTypeOK
    BY AccessTyped, ConnectorTyped, ThrottleTyped, FeedTyped, VaultTyped, McpTyped
  <2>3. /\ scene = "requests" => RequestTypeOK
        /\ scene = "gateway" => GatewayTypeOK
        /\ scene = "enrich" => EnrichTypeOK
        /\ scene = "harness" => HarnessTypeOK
    BY RequestBounded, GatewayBounded, EnrichTyped, HarnessBounded
  <2>4. /\ scene = "panels" => PanelsTypeOK
        /\ scene = "build" => BuildTypeOK
        /\ scene = "voice" => VoiceTypeOK
        /\ scene = "hearing" => HearTypeOK
    BY PanelsTyped, BuildBounded, VoiceBounded, HearBounded
  <2>5. /\ scene = "backlog" => BacklogTypeOK
        /\ scene = "listening" => ListeningTypeOK
        /\ scene = "serving" => ServingTypeOK
        /\ scene = "extract" => ExtractTypeOK
    BY BacklogTyped, ListeningBounded, ServingTyped, ExtractBounded
  <2>6. scene \in Scenes
    OBVIOUS
  <2> HIDE DEF Inv
  <2> QED
    BY <2>1, <2>2, <2>3, <2>4, <2>5, <2>6 DEF ServicesTypeOK
<1> HIDE DEF Inv
<1> QED
  BY <1>1, <1>2, <1>3, PTL DEF ServicesSpec

=============================================================================

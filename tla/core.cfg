CONSTANTS
    Part = {"vcs", "release", "hitl", "repos", "ci", "request", "diff", "trace",
            "issue", "links", "index", "log", "plan", "gates",
            "tree", "registry", "gateway", "login", "pipeline"}
    x = x
    y = y
    t1 = t1
    t2 = t2
    p1 = p1
    p2 = p2
    Worker = {"w1", "w2"}
    SnapshotInput <- MCSnapshotInput
    ForkInput <- MCForkInput
    ForkCount = 2
    MergeInput <- MCMergeInput
    MemoryInput <- MCMemoryInput
    RecordInput <- MCRecordInput
    DecisionInput <- MCDecisionInput
    RecorderConfig <- MCRecorderConfig
    Text = {t1, t2}
    Detail <- MCDetail
    MaxCommands = 3
    VcsFaults = 1
    Promoter = {p1, p2}
    Skew <- MCSkew
    AgentSpec <- MCAgentSpec
    MaxReleases = 4
    ReleaseFaults = 1
    Voter = {"u1", "u2"}
    Label <- MCLabel
    ApprovalRules <- MCApprovalRules
    DefaultTimeout = 1
    MaxHitlTime = 2
    MaxInterventions = 2
    NoRun = "none"
    RunId = {"sequence", "backport", "deploy", "ci"}
    Repo = {1, 2, 3, 4}
    BackportCommits <- MCBackportCommits
    CommitFilter = {"c1", "c3"}
    TargetBranches <- MCTargetBranches
    FailFast = TRUE
    MaxEdges = 2
    LedgerFaults = 1
    CiRun = "ci"
    StageLists <- MCStageLists
    RecoveryPolicyInput <- MCRecoveryPolicy
    FailureSignals <- MCFailureSignals
    MaxRecoveries = 2
    Author = {"p", "q"}
    Host = {"github", "gitlab"}
    LibrarianSet = FALSE
    Content = {"x"}
    Env = {"e"}
    MaxPrCommands = 2
    MaxPrEdits = 1
    EventInput <- MCEventInput
    MaxRunEvents = 3
    GraphInput <- MCGraphInput
    LeafMap <- MCLeafMap
    TraceRun = {1, 2}
    Exporter = {"x", "y"}
    MaxRecorded = 1
    Cutoff = 1
    MaxRuns = 1
    TraceFaults = 1
    BranchName = {"main", "b"}
    LinkNode <- MCLinkNode
    LinkKind = {"blocks", "blocked-by", "relates", "verified-by"}
    MaxIssueSteps = 6
    MaxLinks = 3
    EntryInput <- MCEntryInput
    Budget <- MCBudget
    IndexPolicy <- MCIndexPolicy
    LogPolicy <- MCLogPolicy
    Unlimited = Unlimited
    MemoryLimit = 2
    MaxLog = 3
    MaxMemoryTime = 2
    Task = {1, 2, 3}
    Ghost = 9
    MaxParallel = 1
    Withheld = {}
    Policy <- MCPolicy
    LowConfidence = 40
    MaxHours = 2
    VersionInput <- MCVersionInput
    SuiteInput <- MCSuiteInput
    CheckInput <- MCCheckInput
    DigestInput <- MCDigestInput
    Thresholds <- MCThresholds
    Baseline = 60
    RequiredTag = "smoke"
    MaxPublished = 3
    FilePath = {1, 2, 3, 9}
    Ignored = {3}
    Unsafe = {9}
    FileContent = {"x", "y"}
    ForeignCommit <- MCForeignCommit
    MaxPushes = 1
    MaxPulls = 2
    MaxFileEdits = 1
    v1 = v1
    v2 = v2
    v3 = v3
    a1 = a1
    a2 = a2
    b1 = b1
    s1 = s1
    s2 = s2
    Version = {v1, v2, v3}
    Artifact = {a1, a2, b1}
    NoArtifact = NoArtifact
    NoManifest = NoManifest
    Manifest <- MCManifest
    Token = "T"
    Wrong = "W"
    RegistrySlot = {s1, s2}
    RegistryRequest <- MCRegistryRequest
    LegacyCrates <- MCLegacyCrates
    LegacyIndex <- MCLegacyIndex
    RegistryFaults = 1
    Handler = {"h1", "h2"}
    GatewayCall <- MCGatewayCall
    ApprovalTtl = 0
    MaxGrants = 2
    MaxCalls = 2
    Revocable = {"j"}
    MaxHour = 1
    GatewayFaults = 1
    LoginInput <- MCLoginInput
    SwitchOrg = {"acme"}
    DeviceExpiry = 2
    MaxLogins = 3
    LoginFaults = 1
    Target = "v1"
    Tree <- MCTree
    ReleaseOption <- MCReleaseOption
    MaxReleaseRuns = 2
    MaxEdits = 2
SPECIFICATION CoreSpec
INVARIANTS
    CommitHasSnapshot
    
    ApprovedByQuorum
    OrchestrationSound
    CiSound
    
    AlignmentSound
    
    TraceSound
    
    CompactionMinimal
    PlanSound
    GatesSound
    WorkTreeSound
    
    DestructiveApproved
    
    
    CoreTypeOK
PROPERTIES RollbackUndoesLast
CHECK_DEADLOCK FALSE

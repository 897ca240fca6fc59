CONSTANTS
    s1 = s1  s2 = s2  s3 = s3  alice = alice  bob = bob  repo = repo
    main = main  dev = dev  da = da  db = db  None = None
    MaxHistory = 2
    Repo = {repo}
    Branch = {main, dev}
    Main = main
    Digest = {da, db}
    Meta = {"init", "alice", "bob"}
    CommitId <- MCCommitId
    Identity <- MCIdentity
    Root <- MCRoot
    Backend = "sqlx"
    Slot = {s1, s2, s3}
    Request = {}
    RequireCas = TRUE
    Client = {alice, bob}
    Tree <- MCTree
    Name <- MCName
    Target = main
    TheRepo = repo
    Forced = {}
    Created = FALSE
    Attempts = 1
    Runs <- Once
SPECIFICATION PublishSpec
SYMMETRY SlotSymmetry
INVARIANTS AckedNotLost
CHECK_DEADLOCK FALSE

CONSTANTS
    s1 = s1  s2 = s2  s3 = s3  alice = alice  bob = bob  repo = repo
    main = main  dev = dev  da = da  db = db  None = None
    MaxHistory = 3
    Repo = {repo}
    Branch = {main, dev}
    Main = main
    Digest = {da, db}
    Meta = {"init", "alice", "bob"}
    CommitId <- MCCommitId
    Identity <- MCIdentity
    Root <- MCRoot
    Backend = "sqlx"
    Slot = {s1, s2}
    Request = {}
    RequireCas = TRUE
    Client = {alice, bob}
    Tree <- MCTree
    Name <- MCName
    Target = dev
    TheRepo = repo
    Forced = {bob}
    Created = TRUE
    Attempts = 1
    Runs <- AliceTwice
SPECIFICATION PublishSpec
SYMMETRY SlotSymmetry
INVARIANTS AckedNotLost
PROPERTIES LinearHistory
CHECK_DEADLOCK FALSE

CONSTANTS
    s1 = s1  s2 = s2  s3 = s3  alice = alice  bob = bob  repo = repo
    main = main  dev = dev  da = da  db = db  None = None
    MaxHistory = 2
    Repo = {repo}
    Branch = {main}
    Main = main
    Digest = {da, db}
    Meta = {"init", "alice", "bob"}
    CommitId <- FromRoot
    Identity <- MCIdentity
    Root <- MCRoot
    Backend = "sqlx"
    Slot = {s1, s2}
    Request = {}
    RequireCas = TRUE
    Client = {alice, bob}
    Tree <- MCTree
    Name <- MCName
    Target = main
    TheRepo = repo
    Forced = {}
    Created = TRUE
    Attempts = 1
    Runs <- Once
SPECIFICATION FairPublish
INVARIANTS PublishSafe
 
CHECK_DEADLOCK FALSE

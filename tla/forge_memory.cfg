CONSTANTS
    s1 = s1  s2 = s2  r1 = r1  r2 = r2  main = main  dev = dev  d1 = d1  d2 = d2
    root = root  root2 = root2  base = base  tip = tip  None = None
    Repo = {r1, r2}
    Branch = {main}
    Main = main
    Digest = {d1, d2}
    Meta = {"init", "agent"}
    CommitId = {root, root2, base, tip}
    Identity <- MCIdentity
    Root <- MCRoot
    Backend = "memory"
    Slot = {s1, s2}
    Request <- TwoRepoRequests
    RequireCas = FALSE
SPECIFICATION Spec
SYMMETRY SlotSymmetry
INVARIANTS PublishSound

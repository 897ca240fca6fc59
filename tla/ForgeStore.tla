----------------------------- MODULE ForgeStore -----------------------------
(***************************************************************************)
(* The persistent state of the forge (crates/forge-cas) and the operations *)
(* of the ForgeStore trait, for its three implementations: the in-memory   *)
(* maps under one RwLock, the append-only data-mesh collections, and the   *)
(* PostgreSQL tables.                                                      *)
(*                                                                         *)
(* A blob is its digest.  A manifest is the set of digests it references:  *)
(* paths, sizes and modes are data no property distinguishes.  A commit id *)
(* is the hash of a commit's whole content, so the constant Identity gives *)
(* the one content each id is the hash of.                                 *)
(***************************************************************************)
EXTENDS Integers, Sequences, FiniteSets

CONSTANTS
    Repo,       \* repository names
    Branch,     \* branch names
    Main,       \* the default branch, "main"
    Digest,     \* blob digests
    Meta,       \* (message, author) pairs
    CommitId,   \* commit ids
    Identity,   \* the content each commit id is the hash of
    Root,       \* per repository, the id of the empty commit of create_repo
    Backend,    \* which ForgeStore implementation serves the requests
    None        \* an absent commit, branch head or option

Doc == [repo : Repo, manifest : SUBSET Digest,
        parents : SUBSET CommitId, meta : Meta]

ASSUME StoreAssumption ==
    /\ Backend \in {"memory", "datamesh", "sqlx"}
    /\ Main \in Branch
    /\ None \notin CommitId
    /\ None \notin Doc
    /\ Identity \in [CommitId -> Doc]
    /\ Root \in [Repo -> CommitId]
    /\ \A r \in Repo : /\ Identity[Root[r]].repo = r
                       /\ Identity[Root[r]].manifest = {}
                       /\ Identity[Root[r]].parents = {}

(* No two contents have the same id: SHA-256 is taken to be collision-free. *)
ASSUME HashAssumption ==
    \A x, y \in CommitId : Identity[x] = Identity[y] => x = y

VARIABLES
    cas,        \* digests whose bytes are stored
    receipts,   \* digests with a compact existence record (data-mesh only)
    commits,    \* commits[repo][id]: the stored record, or None
    branches,   \* branches[repo][branch]: the head, or None
    private     \* visibility flag of each repository, None when never set

store == <<cas, receipts, commits, branches, private>>

StoreTypeOK ==
    /\ cas \in SUBSET Digest
    /\ receipts \in SUBSET Digest
    /\ commits \in [Repo -> [CommitId -> Doc \cup {None}]]
    /\ branches \in [Repo -> [Branch -> CommitId \cup {None}]]
    /\ private \in [Repo -> BOOLEAN \cup {None}]

StoreInit ==
    /\ cas = {}
    /\ receipts = {}
    /\ commits = [r \in Repo |-> [c \in CommitId |-> None]]
    /\ branches = [r \in Repo |-> [b \in Branch |-> None]]
    /\ private = [r \in Repo |-> None]

-----------------------------------------------------------------------------
(* A plausible bug of put_commit: an upsert. *)
PutCommitUpsert(r, id, doc) ==
    commits' = [commits EXCEPT ![r] = [@ EXCEPT ![id] = doc]]

(* put_commit.  The map of the memory store is overwritten; the keyed       *)
(* create of the data-mesh and INSERT .. ON CONFLICT DO NOTHING keep what   *)
(* is there.                                                                *)
PutCommit(r, id, doc) ==
    commits' = IF Backend # "memory" /\ commits[r][id] # None
               THEN commits
               ELSE [commits EXCEPT ![r] = [@ EXCEPT ![id] = doc]]

(* set_branch: last writer wins in every implementation. *)
SetBranch(r, b, id) ==
    branches' = [branches EXCEPT ![r] = [@ EXCEPT ![b] = id]]

(* The branch updates of atomic_publish, in order: the last one for a       *)
(* branch decides its head.                                                 *)
UpdateBranches(r, updates) ==
    LET Of(b) == {i \in DOMAIN updates : updates[i][1] = b}
        Last(b) == CHOOSE i \in Of(b) : \A j \in Of(b) : j <= i
    IN  branches' = [branches EXCEPT ![r] =
            [b \in Branch |-> IF Of(b) = {} THEN branches[r][b]
                              ELSE updates[Last(b)][2]]]

=============================================================================

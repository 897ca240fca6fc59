------------------------------ MODULE ForgeCas ------------------------------
(***************************************************************************)
(* The HTTP handlers of the forge (crates/forge-cas) over a ForgeStore.    *)
(* Handlers run concurrently in Slots; one action is one store call, which *)
(* is one critical section (memory) or one await (data-mesh, PostgreSQL).  *)
(* A handler of a remote store may fail at any call, with or without the   *)
(* call's effect, and is dropped where it stands when its client hangs up. *)
(***************************************************************************)
EXTENDS ForgeStore

CONSTANTS
    Slot,        \* handlers that may run at the same time
    Request,     \* the requests that clients send
    RequireCas   \* FORGE_REQUIRE_CAS

Op == {"put_blob", "create_commit", "post_commit", "update_branch",
       "create_repo", "publish", "source"}

(* One request shape for all routes; a route reads the fields it needs.     *)
(* head and absent are expected_head and expect_absent of a branch update.  *)
RequestType ==
    [op : Op, repo : Repo, branch : Branch, id : CommitId, doc : Doc,
     blobs : SUBSET Digest, updates : Seq(Branch \X CommitId),
     head : CommitId \cup {None}, absent : BOOLEAN,
     private : BOOLEAN \cup {None}]

(* The id of a request is the hash of its content, as the handlers that     *)
(* build the record compute it.  Only publish takes the id from its client. *)
WellFormed(q) ==
    /\ q.op \in {"create_commit", "post_commit", "create_repo"} =>
          q.doc = Identity[q.id] /\ q.doc.repo = q.repo
    /\ q.op = "post_commit" => q.doc.parents = {}
    /\ q.op = "create_repo" => q.id = Root[q.repo]

ASSUME ForgeAssumption ==
    /\ RequireCas \in BOOLEAN
    /\ Request \subseteq RequestType
    /\ \A q \in Request : WellFormed(q)

VARIABLE handler
vars == <<cas, receipts, commits, branches, private, handler>>

PC == {"idle", "blob", "receipt", "parents", "exists", "targets", "commit",
       "updates", "publish", "check", "cas", "set", "lookup", "private",
       "main", "resolve", "load", "stream", "reply"}

(* A handler in flight: the request, where it is, and its local variables.  *)
Handler ==
    [req : RequestType \cup {None}, pc : PC, status : Int,
     parents : SUBSET CommitId,   \* parent commits still to read
     inherited : SUBSET Digest,   \* digests of the parent trees read so far
     todo : SUBSET Digest,        \* digests still to check, store or stream
     backfill : SUBSET Digest,    \* receipts still to write
     missing : SUBSET Digest,     \* digests found absent
     next : Nat,                  \* branch update at hand
     id : CommitId \cup {None},   \* a head or commit id read from the store
     wrote : BOOLEAN]             \* it has written a blob, commit or head

Idle == [req |-> None, pc |-> "idle", status |-> 0, parents |-> {},
         inherited |-> {}, todo |-> {}, backfill |-> {}, missing |-> {},
         next |-> 1, id |-> None, wrote |-> FALSE]

TypeOK ==
    /\ StoreTypeOK
    /\ handler \in [Slot -> Handler]

Init == StoreInit /\ handler = [s \in Slot |-> Idle]

-----------------------------------------------------------------------------
Remote == Backend # "memory"

Become(s, h) == handler' = [handler EXCEPT ![s] = h]

Reply(h, code) == [h EXCEPT !.pc = "reply", !.status = code]

Goto(h, pc) == IF pc = "reply" THEN Reply(h, 201) ELSE [h EXCEPT !.pc = pc]

(* The order of the writes once validation is over: blobs one by one, then  *)
(* the commit, then the branch updates one by one.                          *)
NextUpdate(h) == IF h.next > Len(h.req.updates) THEN "reply" ELSE "updates"

AfterCommit(h) ==
    CASE h.req.op = "create_repo" -> "main"
      [] h.req.op = "publish"     -> NextUpdate(h)
      [] OTHER                    -> "reply"

NextBlob(h) == IF h.todo # {} THEN "blob"
               ELSE IF h.req.op = "publish" THEN "commit" ELSE "reply"

StartWrites(h) == LET g == [h EXCEPT !.todo = h.req.blobs, !.next = 1]
                  IN  Goto(g, NextBlob(g))

(* Gate 3 of the data-mesh publish looks at the branch targets one by one. *)
NextTarget(h) == IF h.next > Len(h.req.updates) THEN StartWrites(h)
                 ELSE Goto(h, "targets")

(* The verdict on the blobs, once every lookup has answered: an error wins, *)
(* then a missing blob.                                                     *)
Settle(h) ==
    IF h.todo # {} \/ h.backfill # {} THEN [h EXCEPT !.pc = "exists"]
    ELSE IF h.status = 500 THEN Reply(h, 500)
    ELSE IF h.missing # {} THEN Reply(h, 422)
    ELSE IF h.req.op = "publish" THEN NextTarget(h) ELSE Goto(h, "commit")

(* digests_requiring_validation, with its result looked up: a digest in the *)
(* tree of a known parent, or uploaded by the same publish, is not checked. *)
Validate(h) ==
    IF h.parents # {} THEN [h EXCEPT !.pc = "parents"]
    ELSE Settle([h EXCEPT !.todo = h.req.doc.manifest \ (h.inherited \cup
                    IF h.req.op = "publish" THEN h.req.blobs ELSE {})])

Publish(h) ==
    IF h.req.doc.repo # h.req.repo THEN Reply(h, 422)
    ELSE CASE Backend = "memory"   -> Goto(h, "publish")
           [] Backend = "datamesh" -> Validate(h)
           [] Backend = "sqlx"     -> StartWrites(h)

(* The first store call of a handler. *)
Begin(q) ==
    LET h == [Idle EXCEPT !.req = q, !.parents =
                 IF q.op \in {"create_commit", "publish"}
                 THEN q.doc.parents ELSE {}]
    IN  CASE q.op = "put_blob"      -> [h EXCEPT !.pc = "blob", !.todo = q.blobs]
          [] q.op = "create_commit" -> Validate(h)
          [] q.op = "post_commit"   -> Goto(h, "commit")
          [] q.op = "update_branch" -> Goto(h, "check")
          [] q.op = "create_repo"   -> Goto(h, "lookup")
          [] q.op = "publish"       -> Publish(h)
          [] q.op = "source"        -> Goto(h, "resolve")

Accept(s) ==
    /\ handler[s].pc = "idle"
    /\ \E q \in Request : Become(s, Begin(q))
    /\ UNCHANGED store

-----------------------------------------------------------------------------
(* Writing blobs: POST /api/v1/blobs and step 1 of a publish. *)

(* A plausible bug: the receipts of a batch are written up front. *)
PutBlobEarlyReceipts(s) ==
    LET h == handler[s] IN
    /\ h.pc = "blob"
    /\ \E d \in h.todo :
        /\ cas' = cas \cup {d}
        /\ Become(s, [h EXCEPT !.todo = @ \ {d}, !.pc = "receipt", !.backfill = {d}])
    /\ receipts' = receipts \cup h.todo
    /\ UNCHANGED <<commits, branches, private>>

PutBlob(s) ==
    LET h == handler[s] IN
    /\ h.pc = "blob"
    /\ \E d \in h.todo :
        LET g == [h EXCEPT !.todo = @ \ {d}, !.wrote = TRUE] IN
        /\ cas' = cas \cup {d}
        /\ Become(s, IF Backend = "datamesh"
                     THEN [g EXCEPT !.pc = "receipt", !.backfill = {d}]
                     ELSE Goto(g, NextBlob(g)))
    /\ UNCHANGED <<receipts, commits, branches, private>>

PutReceipt(s) ==
    LET h == handler[s] IN
    /\ h.pc = "receipt"
    /\ receipts' = receipts \cup h.backfill
    /\ LET g == [h EXCEPT !.backfill = {}] IN Become(s, Goto(g, NextBlob(g)))
    /\ UNCHANGED <<cas, commits, branches, private>>

-----------------------------------------------------------------------------
(* Validating a tree: create_commit and the data-mesh publish. *)

(* A plausible bug: a parent that is not stored is trusted like one that is. *)
ReadParentUnknown(s) ==
    LET h == handler[s] IN
    /\ h.pc = "parents"
    /\ \E p \in h.parents :
        Become(s, Validate([h EXCEPT !.parents = @ \ {p},
                                     !.inherited = @ \cup Identity[p].manifest]))
    /\ UNCHANGED store

ReadParent(s) ==
    LET h == handler[s] IN
    /\ h.pc = "parents"
    /\ \E p \in h.parents :
        LET parent == commits[h.req.repo][p] IN
        Become(s, Validate([h EXCEPT
            !.parents = @ \ {p},
            !.inherited = @ \cup IF parent = None THEN {} ELSE parent.manifest]))
    /\ UNCHANGED store

(* A plausible bug: a non-empty answer is read as "all there". *)
ExistsAllAny(s) ==
    LET h == handler[s] IN
    /\ h.pc = "exists"
    /\ Backend # "datamesh"
    /\ Become(s, Settle([h EXCEPT !.todo = {},
            !.missing = IF h.todo \cap cas = {} THEN h.todo ELSE {}]))
    /\ UNCHANGED store

(* exists_all of the memory and PostgreSQL stores: one query. *)
ExistsAll(s) ==
    LET h == handler[s] IN
    /\ h.pc = "exists"
    /\ Backend # "datamesh"
    /\ Become(s, Settle([h EXCEPT !.todo = {}, !.missing = @ \cup (h.todo \ cas)]))
    /\ UNCHANGED store

(* blob_exists_with_backfill: the lookups of exists_all run concurrently. *)
BlobExists(s) ==
    LET h == handler[s] IN
    /\ h.pc = "exists"
    /\ Backend = "datamesh"
    /\ \E d \in h.todo : Become(s, Settle([h EXCEPT
            !.todo = @ \ {d},
            !.backfill = IF d \in cas \ receipts THEN @ \cup {d} ELSE @,
            !.missing = IF d \in cas \cup receipts THEN @ ELSE @ \cup {d}]))
    /\ UNCHANGED store

Backfill(s) ==
    LET h == handler[s] IN
    /\ h.pc = "exists"
    /\ \E d \in h.backfill :
        /\ receipts' = receipts \cup {d}
        /\ Become(s, Settle([h EXCEPT !.backfill = @ \ {d}]))
    /\ UNCHANGED <<cas, commits, branches, private>>

(* A plausible bug: only the first branch update is validated. *)
CheckTargetFirst(s) ==
    LET h == handler[s]
        target == h.req.updates[h.next][2] IN
    /\ h.pc = "targets"
    /\ Become(s, IF commits[h.req.repo][target] = None /\ target # h.req.id
                 THEN Reply(h, 500) ELSE StartWrites(h))
    /\ UNCHANGED store

CheckTarget(s) ==
    LET h == handler[s]
        target == h.req.updates[h.next][2] IN
    /\ h.pc = "targets"
    /\ Become(s, IF commits[h.req.repo][target] = None /\ target # h.req.id
                 THEN Reply(h, 500)
                 ELSE NextTarget([h EXCEPT !.next = @ + 1]))
    /\ UNCHANGED store

-----------------------------------------------------------------------------
(* Writing commits and heads. *)

StoreCommit(s) ==
    LET h == handler[s] IN
    /\ h.pc = "commit"
    /\ PutCommit(h.req.repo, h.req.id, h.req.doc)
    /\ LET g == [h EXCEPT !.wrote = TRUE] IN Become(s, Goto(g, AfterCommit(g)))
    /\ UNCHANGED <<cas, receipts, branches, private>>

MoveBranch(s) ==
    LET h == handler[s]
        update == h.req.updates[h.next]
        g == [h EXCEPT !.next = @ + 1] IN
    /\ h.pc = "updates"
    /\ SetBranch(h.req.repo, update[1], update[2])
    /\ Become(s, Goto(g, NextUpdate(g)))
    /\ UNCHANGED <<cas, receipts, commits, private>>

(* Gates 2 and 3 of the memory store's atomic_publish, each with a          *)
(* plausible bug: a tree is taken for complete when it brings any blob;     *)
(* only the first target is looked up.                                      *)
TreePresentSome(q) == q.blobs # {} \/ q.doc.manifest \subseteq cas

TreePresent(q) == q.doc.manifest \subseteq cas \cup q.blobs

TargetsFirst(q) ==
    \A i \in DOMAIN q.updates \cap {1} :
        \/ commits[q.repo][q.updates[i][2]] # None
        \/ q.updates[i][2] = q.id

TargetsKnown(q) ==
    \A i \in DOMAIN q.updates :
        \/ commits[q.repo][q.updates[i][2]] # None
        \/ q.updates[i][2] = q.id

(* A plausible bug: the blobs are stored before the gates are passed. *)
PublishMemoryEager(s) ==
    LET h == handler[s]
        q == h.req IN
    /\ h.pc = "publish"
    /\ cas' = cas \cup q.blobs
    /\ \/ /\ ~ TreePresent(q)
          /\ Become(s, Reply([h EXCEPT !.wrote = q.blobs # {}], 422))
          /\ UNCHANGED <<commits, branches>>
       \/ /\ TreePresent(q)
          /\ PutCommit(q.repo, q.id, q.doc)
          /\ UpdateBranches(q.repo, q.updates)
          /\ Become(s, Reply([h EXCEPT !.wrote = TRUE], 201))
    /\ UNCHANGED <<receipts, private>>

(* atomic_publish of the memory store: one write lock from the first gate   *)
(* to the last insert.                                                      *)
PublishMemory(s) ==
    LET h == handler[s]
        q == h.req IN
    /\ h.pc = "publish"
    /\ \/ /\ ~ TreePresent(q)
          /\ Become(s, Reply(h, 422))
          /\ UNCHANGED store
       \/ /\ TreePresent(q) /\ ~ TargetsKnown(q)
          /\ Become(s, Reply(h, 500))
          /\ UNCHANGED store
       \/ /\ TreePresent(q) /\ TargetsKnown(q)
          /\ cas' = cas \cup q.blobs
          /\ PutCommit(q.repo, q.id, q.doc)
          /\ UpdateBranches(q.repo, q.updates)
          /\ Become(s, Reply([h EXCEPT !.wrote = TRUE], 201))
          /\ UNCHANGED <<receipts, private>>

(* PUT /api/v1/repos/:repo/branches/:branch *)
(* Plausible bugs: any id is accepted; a request without an expectation is  *)
(* served although the forge requires one.                                  *)
CheckCommitAnyId(s) ==
    LET h == handler[s]
        expects == h.req.absent \/ h.req.head # None IN
    /\ h.pc = "check"
    /\ Become(s, Goto(h, IF expects THEN "cas" ELSE "set"))
    /\ UNCHANGED store

CheckCommitLax(s) ==
    LET h == handler[s]
        q == h.req
        expects == q.absent \/ q.head # None IN
    /\ h.pc = "check"
    /\ Become(s, IF commits[q.repo][q.id] = None THEN Reply(h, 422)
                 ELSE Goto(h, IF expects THEN "cas" ELSE "set"))
    /\ UNCHANGED store

CheckCommit(s) ==
    LET h == handler[s]
        q == h.req
        refused == commits[q.repo][q.id] = None \/ (q.absent /\ q.head # None)
        expects == q.absent \/ q.head # None IN
    /\ h.pc = "check"
    /\ Become(s, CASE refused                            -> Reply(h, 422)
                   [] ~ refused /\ expects               -> Goto(h, "cas")
                   [] ~ refused /\ ~ expects /\ RequireCas -> Reply(h, 428)
                   [] OTHER                              -> Goto(h, "set"))
    /\ UNCHANGED store

(* Plausible bugs: the comparison and the write are two calls, as in the    *)
(* data-mesh, or the comparison is inverted.                                *)
CasSetBranchSplit(s) ==
    LET h == handler[s]
        q == h.req IN
    /\ h.pc = "cas"
    /\ Become(s, IF branches[q.repo][q.branch] # q.head THEN Reply(h, 409)
                 ELSE Goto(h, "set"))
    /\ UNCHANGED store

CasSetBranchInverted(s) ==
    LET h == handler[s]
        q == h.req IN
    /\ h.pc = "cas"
    /\ Become(s, IF branches[q.repo][q.branch] = q.head THEN Reply(h, 409)
                 ELSE Goto(h, "set"))
    /\ UNCHANGED store

(* cas_set_branch: one critical section or one SQL statement; a read and a  *)
(* later write in the data-mesh.                                            *)
CasSetBranch(s) ==
    LET h == handler[s]
        q == h.req IN
    /\ h.pc = "cas"
    /\ \/ /\ branches[q.repo][q.branch] # q.head
          /\ Become(s, Reply(h, 409))
          /\ UNCHANGED branches
       \/ /\ branches[q.repo][q.branch] = q.head
          /\ Backend = "datamesh"
          /\ Become(s, Goto(h, "set"))
          /\ UNCHANGED branches
       \/ /\ branches[q.repo][q.branch] = q.head
          /\ Backend # "datamesh"
          /\ SetBranch(q.repo, q.branch, q.id)
          /\ Become(s, Reply([h EXCEPT !.wrote = TRUE], 200))
    /\ UNCHANGED <<cas, receipts, commits, private>>

WriteBranch(s) ==
    LET h == handler[s] IN
    /\ h.pc = "set"
    /\ SetBranch(h.req.repo, h.req.branch, h.req.id)
    /\ Become(s, Reply([h EXCEPT !.wrote = TRUE], 200))
    /\ UNCHANGED <<cas, receipts, commits, private>>

-----------------------------------------------------------------------------
(* POST /api/v1/repos: an existing main answers 200, otherwise an empty     *)
(* root commit is stored and main is pointed at it.                         *)

LookupMain(s) ==
    LET h == handler[s]
        head == branches[h.req.repo][Main] IN
    /\ h.pc = "lookup"
    /\ Become(s, IF head # None /\ h.req.private = None THEN Reply(h, 200)
                 ELSE [h EXCEPT !.pc = "private", !.id = head])
    /\ UNCHANGED store

SetPrivate(s) ==
    LET h == handler[s] IN
    /\ h.pc = "private"
    /\ private' = [private EXCEPT ![h.req.repo] =
                      IF h.req.private = None THEN TRUE ELSE h.req.private]
    /\ Become(s, IF h.id # None THEN Reply(h, 200) ELSE Goto(h, "commit"))
    /\ UNCHANGED <<cas, receipts, commits, branches>>

(* A plausible bug: the record is stored where its id belongs. *)
SetMainRecord(s) ==
    LET h == handler[s] IN
    /\ h.pc = "main"
    /\ SetBranch(h.req.repo, Main, h.req.doc)
    /\ Become(s, Reply(h, 201))
    /\ UNCHANGED <<cas, receipts, commits, private>>

SetMain(s) ==
    LET h == handler[s] IN
    /\ h.pc = "main"
    /\ SetBranch(h.req.repo, Main, h.req.id)
    /\ Become(s, Reply(h, 201))
    /\ UNCHANGED <<cas, receipts, commits, private>>

-----------------------------------------------------------------------------
(* GET /api/v1/repos/:repo/source: resolve a branch or take a commit id,    *)
(* load the commit, then fetch each blob while the tar streams.  A blob     *)
(* that is not there truncates a response whose status has gone out.        *)

ResolveRef(s) ==
    LET h == handler[s]
        q == h.req IN
    /\ h.pc = "resolve"
    /\ Become(s, [h EXCEPT !.pc = "load",
                           !.id = IF q.head # None THEN q.head
                                  ELSE branches[q.repo][q.branch]])
    /\ UNCHANGED store

LoadCommit(s) ==
    LET h == handler[s]
        commit == IF h.id = None THEN None ELSE commits[h.req.repo][h.id] IN
    /\ h.pc = "load"
    /\ Become(s, IF commit = None THEN Reply(h, 404)
                 ELSE IF commit.manifest = {} THEN Reply(h, 200)
                 ELSE [h EXCEPT !.pc = "stream", !.todo = commit.manifest])
    /\ UNCHANGED store

StreamBlob(s) ==
    LET h == handler[s] IN
    /\ h.pc = "stream"
    /\ \E d \in h.todo :
        LET g == [h EXCEPT !.todo = @ \ {d},
                           !.missing = IF d \in cas THEN @ ELSE {d}] IN
        Become(s, IF g.todo = {} \/ g.missing # {} THEN Reply(g, 200) ELSE g)
    /\ UNCHANGED store

-----------------------------------------------------------------------------
Respond(s) ==
    /\ handler[s].pc = "reply"
    /\ Become(s, Idle)
    /\ UNCHANGED store

(* A remote store answers a call with an error.  The effect of the previous *)
(* call may already be there: its own error is this one, seen one step on.  *)
Fail(s) ==
    LET h == handler[s] IN
    /\ Remote
    /\ h.pc \notin {"idle", "exists"}
    /\ h.pc = "reply" => h.status \in {200, 201}
    /\ Become(s, Reply(h, 500))
    /\ UNCHANGED store

(* A plausible bug: a lookup that fails is counted as a hit. *)
FailLookupIgnored(s) ==
    LET h == handler[s] IN
    /\ Remote
    /\ h.pc = "exists"
    /\ \E d \in h.todo \cup h.backfill :
        Become(s, Settle([h EXCEPT !.todo = @ \ {d}, !.backfill = @ \ {d}]))
    /\ UNCHANGED store

(* A failed lookup or backfill of the data-mesh exists_all does not stop    *)
(* the others.                                                              *)
FailLookup(s) ==
    LET h == handler[s] IN
    /\ Remote
    /\ h.pc = "exists"
    /\ \E d \in h.todo \cup h.backfill :
        Become(s, Settle([h EXCEPT !.todo = @ \ {d}, !.backfill = @ \ {d},
                                   !.status = 500]))
    /\ UNCHANGED store

(* The client hangs up, or the process dies: the handler stops at an await. *)
Drop(s) ==
    /\ Remote
    /\ handler[s].pc \notin {"idle", "reply"}
    /\ Become(s, Idle)
    /\ UNCHANGED store

Validation(s) ==
    ReadParent(s) \/ ExistsAll(s) \/ BlobExists(s) \/ Backfill(s) \/ CheckTarget(s)

Write(s) ==
    PutBlob(s) \/ PutReceipt(s) \/ StoreCommit(s) \/ MoveBranch(s) \/ PublishMemory(s)

UpdateBranch(s) == CheckCommit(s) \/ CasSetBranch(s) \/ WriteBranch(s)

CreateRepo(s) == LookupMain(s) \/ SetPrivate(s) \/ SetMain(s)

ReadSource(s) == ResolveRef(s) \/ LoadCommit(s) \/ StreamBlob(s)

Fault(s) == Fail(s) \/ FailLookup(s) \/ Drop(s)

Next == \E s \in Slot :
    \/ Accept(s) \/ Validation(s) \/ Write(s) \/ UpdateBranch(s)
    \/ CreateRepo(s) \/ ReadSource(s) \/ Respond(s) \/ Fault(s)

Spec == Init /\ [][Next]_vars

-----------------------------------------------------------------------------
(* A branch head is a commit stored under the same repository: resolving a  *)
(* branch never leads to an unknown commit or to another repository's.      *)
HeadsResolve ==
    \A r \in Repo, b \in Branch :
        branches[r][b] # None =>
            /\ commits[r][branches[r][b]] # None
            /\ commits[r][branches[r][b]].repo = r

(* Every blob a stored commit references is in the CAS, although            *)
(* create_commit checks only the digests its parents do not already have.   *)
TreesStored ==
    \A r \in Repo, c \in CommitId :
        commits[r][c] # None => commits[r][c].manifest \subseteq cas

(* A receipt stands for bytes that are really there: the compact record     *)
(* that replaces the blob lookup is only ever written after the blob.       *)
ReceiptsSound == receipts \subseteq cas

(* Whatever prefix of a publish was written before it failed, branches,     *)
(* commits, blobs and receipts fit together.                                *)
StoreConsistent == HeadsResolve /\ TreesStored /\ ReceiptsSound

(* A commit that create_commit accepted has all its blobs: "Every           *)
(* referenced blob must already be in CAS".                                 *)
AcceptedTreeStored ==
    \A s \in Slot :
        /\ handler[s].pc = "reply"
        /\ handler[s].req.op = "create_commit"
        /\ handler[s].status = 201
        => handler[s].req.doc.manifest \subseteq cas

(* A source tar is never cut short by a missing blob. *)
SourceComplete ==
    \A s \in Slot : handler[s].pc = "reply" /\ handler[s].req.op = "source"
                        => handler[s].missing = {}

(* A refused request (4xx) has written no blob, no commit and no head.      *)
RejectedWritesNothing ==
    \A s \in Slot : handler[s].status \in 400..499 => ~ handler[s].wrote

(* A publish checks everything before it writes anything: it is refused     *)
(* without a trace, or leaves a store in which every head and tree is whole.*)
PublishSound == HeadsResolve /\ TreesStored /\ RejectedWritesNothing

(* A stored commit record never changes and never disappears: the immutable *)
(* cache header of the source route depends on it.                          *)
CommitsImmutable ==
    [][\A r \in Repo, c \in CommitId :
          commits[r][c] # None => commits'[r][c] = commits[r][c]]_vars

(* With FORGE_REQUIRE_CAS a branch update moves the head only from the head *)
(* the client expected at the time of the write.                            *)
UpdateFromExpectedHead ==
    [][\A s \in Slot : UpdateBranch(s) =>
          \A r \in Repo, b \in Branch :
              branches'[r][b] # branches[r][b] =>
                  branches[r][b] = handler[s].req.head]_vars

=============================================================================

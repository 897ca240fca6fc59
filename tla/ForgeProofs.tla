---------------------------- MODULE ForgeProofs ----------------------------
(***************************************************************************)
(* No stored commit, and no receipt, refers to a blob that is not in the   *)
(* CAS: the proof that create_commit may trust the trees of its parents,   *)
(* and the data-mesh store its receipts.  With the heads of                *)
(* ForgeCasProofs this makes the whole store consistent.  The last part    *)
(* is about the answers: a refused request has written nothing.            *)
(***************************************************************************)
EXTENDS ForgeCasProofs

(* The routes that store a commit without looking at its tree are not used: *)
(* post_commit_repo, and the publish of the PostgreSQL store.               *)
ValidatedOnly ==
    /\ \A q \in Request : q.op # "post_commit"
    /\ Backend = "sqlx" => \A q \in Request : q.op # "publish"

(* The blobs that come with the request itself. *)
Uploads(q) == IF q.op = "publish" THEN q.blobs ELSE {}

(* What a handler knows of the tree it validates or writes, C being the     *)
(* blobs stored: the digests that are neither stored nor on its lists have  *)
(* been ruled out, at every point between two store calls.                  *)
Tree(h, C) ==
    /\ h.inherited \subseteq C
    /\ h.backfill \subseteq C
    /\ h.pc \in {"parents", "exists"} => h.req.op \in {"create_commit", "publish"}
    /\ h.pc = "targets" => h.req.op = "publish"
    /\ h.pc \in {"lookup", "private"} => h.req.op = "create_repo"
    /\ h.pc = "exists" =>
          \/ h.status = 500
          \/ h.req.doc.manifest \subseteq C \cup h.todo \cup h.missing \cup Uploads(h.req)
    /\ h.pc = "targets" => h.req.doc.manifest \subseteq C \cup h.req.blobs
    /\ h.pc \in {"blob", "receipt"} /\ h.req.op = "publish" =>
          h.req.doc.manifest \subseteq C \cup h.todo
    /\ h.pc = "commit" => h.req.doc.manifest \subseteq C
    /\ h.pc = "stream" => h.todo \subseteq C
    /\ h.req.op = "source" => h.missing = {}

TreeInv ==
    /\ TypeInv
    /\ ReceiptsSound
    /\ TreesStored
    /\ \A s \in Slot : Tree(handler[s], cas)

(* What is known of its tree is kept by a handler that answers. *)
LEMMA TreeReply ==
    ASSUME NEW h \in Busy, NEW C, NEW code,
           h.inherited \subseteq C, h.backfill \subseteq C,
           h.req.op = "source" => h.missing = {}
    PROVE  Tree(Reply(h, code), C)
  BY DEF Tree, Reply, Busy, Handler

(* What is known of its tree is kept by a handler that goes on to a call   *)
(* that does not read the tree.                                            *)
LEMMA TreeGoto ==
    ASSUME NEW h \in Busy, NEW C,
           NEW pc \in {"publish", "updates", "main", "check", "cas", "set", "resolve", "reply"},
           h.inherited \subseteq C, h.backfill \subseteq C,
           h.req.op = "source" => h.missing = {}
    PROVE  Tree(Goto(h, pc), C)
  <1>1. CASE pc = "reply"
    BY <1>1, TreeReply DEF Goto
  <1>2. CASE pc # "reply"
    BY <1>2 DEF Goto, Tree, Busy, Handler
  <1> QED
    BY <1>1, <1>2

(* What is known of its tree is kept by a handler that goes on to its next *)
(* blob.                                                                   *)
LEMMA TreeNextBlob ==
    ASSUME NEW h \in Busy, NEW C,
           h.inherited \subseteq C, h.backfill \subseteq C,
           h.req.op = "source" => h.missing = {},
           h.req.op = "publish" => h.req.doc.manifest \subseteq C \cup h.todo
    PROVE  Tree(Goto(h, NextBlob(h)), C)
  <1>1. CASE NextBlob(h) = "reply"
    BY <1>1, TreeReply DEF Goto
  <1>2. CASE NextBlob(h) # "reply"
    BY <1>2 DEF Goto, NextBlob, Tree, Busy, Handler
  <1> QED
    BY <1>1, <1>2

(* What is known of its tree is kept by a handler that starts to write. *)
LEMMA TreeStartWrites ==
    ASSUME NEW h \in Busy, NEW C,
           h.inherited \subseteq C, h.backfill \subseteq C,
           h.req.op = "publish",
           h.req.doc.manifest \subseteq C \cup h.req.blobs
    PROVE  Tree(StartWrites(h), C)
  <1> DEFINE g == [h EXCEPT !.todo = h.req.blobs, !.next = 1]
  <1>1. h.req.blobs \in SUBSET Digest
    BY BusyTypes, RequestTypes
  <1>2. g \in Handler /\ g.req = h.req /\ g.next = 1 /\ g.todo = h.req.blobs
        /\ g.inherited = h.inherited /\ g.backfill = h.backfill
    BY <1>1 DEF Busy, Handler
  <1>3. StartWrites(h) = Goto(g, NextBlob(g))
    BY DEF StartWrites
  <1> HIDE DEF g
  <1>4. g \in Busy
    BY <1>2 DEF Busy
  <1> QED
    BY <1>2, <1>3, <1>4, TreeNextBlob

(* What is known of its tree is kept by a handler that goes on to its next *)
(* target.                                                                 *)
LEMMA TreeNextTarget ==
    ASSUME NEW h \in Busy, NEW C,
           h.inherited \subseteq C, h.backfill \subseteq C,
           h.req.op = "publish",
           h.req.doc.manifest \subseteq C \cup h.req.blobs
    PROVE  Tree(NextTarget(h), C)
  <1>1. Tree(Goto(h, "targets"), C)
    BY DEF Tree, Goto, Busy, Handler
  <1> QED
    BY <1>1, TreeStartWrites DEF NextTarget

(* What is known of its tree is kept by a handler that ends its            *)
(* validation.                                                             *)
LEMMA TreeSettle ==
    ASSUME NEW h \in Busy, NEW C,
           h.inherited \subseteq C, h.backfill \subseteq C,
           h.req.op \in {"create_commit", "publish"},
           \/ h.status = 500
           \/ h.req.doc.manifest \subseteq C \cup h.todo \cup h.missing \cup Uploads(h.req)
    PROVE  Tree(Settle(h), C)
  <1>1. CASE h.todo # {} \/ h.backfill # {}
    BY <1>1 DEF Settle, Tree, Busy, Handler
  <1>2. CASE h.todo = {} /\ h.backfill = {} /\ (h.status = 500 \/ h.missing # {})
    BY <1>2, TreeReply DEF Settle
  <1>3. CASE h.todo = {} /\ h.backfill = {} /\ h.status # 500 /\ h.missing = {}
    <2>1. h.req.doc.manifest \subseteq C \cup Uploads(h.req)
      BY <1>3
    <2>2. CASE h.req.op = "publish"
      BY <1>3, <2>1, <2>2, TreeNextTarget DEF Settle, Uploads
    <2>3. CASE h.req.op # "publish"
      <3>1. Settle(h) = Goto(h, "commit") /\ h.req.doc.manifest \subseteq C
        BY <1>3, <2>1, <2>3 DEF Settle, Uploads
      <3>2. Tree(Goto(h, "commit"), C)
        BY <3>1 DEF Tree, Goto, Busy, Handler
      <3> QED BY <3>1, <3>2
    <2> QED BY <2>2, <2>3
  <1> QED
    BY <1>1, <1>2, <1>3

(* What is known of its tree is kept by a handler that looks up the        *)
(* digests that are left.                                                  *)
LEMMA TreeValidate ==
    ASSUME NEW h \in Busy, NEW C,
           h.inherited \subseteq C, h.backfill \subseteq C,
           h.req.op \in {"create_commit", "publish"}
    PROVE  Tree(Validate(h), C)
  <1>1. CASE h.parents # {}
    BY <1>1 DEF Validate, Tree, Busy, Handler
  <1>2. CASE h.parents = {}
    <2> DEFINE g == [h EXCEPT !.todo = h.req.doc.manifest \
                                         (h.inherited \cup Uploads(h.req))]
    <2>1. Validate(h) = Settle(g)
      BY <1>2 DEF Validate, Uploads
    <2>2. h.req.doc.manifest \ (h.inherited \cup Uploads(h.req)) \in SUBSET Digest
      BY BusyTypes, RequestTypes
    <2>3. g \in Busy /\ g.req = h.req /\ g.inherited = h.inherited
          /\ g.backfill = h.backfill
          /\ g.todo = h.req.doc.manifest \ (h.inherited \cup Uploads(h.req))
      BY <2>2 DEF Busy, Handler
    <2> HIDE DEF g
    <2>4. g.req.doc.manifest \subseteq C \cup g.todo \cup g.missing \cup Uploads(g.req)
      BY <2>3
    <2> QED
      BY <2>1, <2>3, <2>4, TreeSettle
  <1> QED
    BY <1>1, <1>2

(* A handler that starts owes nothing yet, unless its route skips the       *)
(* validation.                                                              *)
LEMMA TreeBegin ==
    ASSUME ValidatedOnly, NEW q \in Request, NEW C
    PROVE  Tree(Begin(q), C)
  <1> DEFINE h == [Idle EXCEPT !.req = q, !.parents =
                     IF q.op \in {"create_commit", "publish"}
                     THEN q.doc.parents ELSE {}]
  <1>0. q \in RequestType /\ q.blobs \in SUBSET Digest /\ q.doc.parents \in SUBSET CommitId
        /\ q.op \in Op /\ q.op # "post_commit" /\ (q.op = "publish" => Backend # "sqlx")
    BY RequestTypes DEF ValidatedOnly
  <1>1. Idle \in Handler /\ Idle.next = 1 /\ Idle.inherited = {} /\ Idle.backfill = {}
        /\ Idle.missing = {}
    BY DEF Handler, Idle, PC
  <1>2. h \in Handler /\ h.req = q /\ h.next = 1 /\ h.inherited = {} /\ h.backfill = {}
        /\ h.missing = {}
    BY <1>0, <1>1 DEF Handler
  <1>3. Begin(q) = CASE q.op = "put_blob"      -> [h EXCEPT !.pc = "blob", !.todo = q.blobs]
                     [] q.op = "create_commit" -> Validate(h)
                     [] q.op = "post_commit"   -> Goto(h, "commit")
                     [] q.op = "update_branch" -> Goto(h, "check")
                     [] q.op = "create_repo"   -> Goto(h, "lookup")
                     [] q.op = "publish"       -> Publish(h)
                     [] q.op = "source"        -> Goto(h, "resolve")
    BY DEF Begin
  <1> HIDE DEF h
  <1>4. h \in Busy
    BY <1>2 DEF Busy
  <1>5. CASE q.op = "put_blob"
    BY <1>2, <1>3, <1>4, <1>5 DEF Tree, Busy, Handler
  <1>6. CASE q.op = "create_commit"
    BY <1>2, <1>3, <1>4, <1>6, TreeValidate
  <1>7. CASE q.op \in {"update_branch", "create_repo", "source"}
    <2>1. PICK pc \in {"check", "lookup", "resolve"} :
            Begin(q) = Goto(h, pc) /\ (pc = "lookup" => q.op = "create_repo")
      BY <1>3, <1>7
    <2> QED
      BY <1>2, <1>4, <2>1 DEF Goto, Tree, Busy, Handler
  <1>8. CASE q.op = "publish"
    <2>1. \/ Begin(q) = Reply(h, 422) \/ Begin(q) = Goto(h, "publish")
          \/ Begin(q) = Validate(h)
      BY <1>0, <1>3, <1>8, StoreAssumption DEF Publish
    <2>2. Tree(Goto(h, "publish"), C)
      BY <1>2, <1>4, <1>8, TreeGoto
    <2> QED
      BY <1>2, <1>4, <1>8, <2>1, <2>2, TreeReply, TreeValidate
  <1> QED
    BY <1>0, <1>5, <1>6, <1>7, <1>8 DEF Op

(* A larger CAS does not disturb a handler. *)
LEMMA TreeMore ==
    ASSUME NEW h \in Handler, NEW C, NEW D, C \subseteq D, Tree(h, C)
    PROVE  Tree(h, D)
  BY DEF Tree

(* A step that changes one handler, and removes no blob, keeps TreeInv. *)
LEMMA BecomeTree ==
    ASSUME TreeInv, TypeInv', NEW s \in Slot, NEW g, Become(s, g),
           Tree(g, cas'), cas \subseteq cas', ReceiptsSound', TreesStored'
    PROVE  TreeInv'
  <1>1. ASSUME NEW t \in Slot PROVE Tree(handler'[t], cas')
    <2>1. CASE t = s
      BY <2>1 DEF Become, TreeInv, TypeInv
    <2>2. CASE t # s
      BY <2>2, TreeMore DEF Become, TreeInv, TypeInv
    <2> QED BY <2>1, <2>2
  <1> QED
    BY <1>1 DEF TreeInv

(* A step that leaves blobs, receipts and commits alone keeps them sound. *)
LEMMA TreeKeepStore ==
    ASSUME TreeInv, UNCHANGED <<cas, receipts, commits>>
    PROVE  cas \subseteq cas' /\ ReceiptsSound' /\ TreesStored'
  BY DEF TreeInv, ReceiptsSound, TreesStored

(* A commit stored with its whole tree in the CAS keeps TreesStored. *)
LEMMA TreePutCommit ==
    ASSUME TreeInv, NEW r \in Repo, NEW c \in CommitId, NEW d \in Doc,
           PutCommit(r, c, d), cas \subseteq cas', d.manifest \subseteq cas'
    PROVE  TreesStored'
  <1> SUFFICES ASSUME NEW x \in Repo, NEW y \in CommitId, commits'[x][y] # None
               PROVE  commits'[x][y].manifest \subseteq cas'
    BY DEF TreesStored
  <1>1. commits'[x][y] \in {commits[x][y], d}
    BY DEF PutCommit, TreeInv, TypeInv, StoreTypeOK
  <1> QED
    BY <1>1 DEF TreeInv, TreesStored

(* The tree invariant is inductive. *)
LEMMA TreeStep ==
    ASSUME ValidatedOnly, TreeInv, [Next]_vars
    PROVE  TreeInv'
  <1>t. TypeInv'
    BY TypeStep DEF TreeInv
  <1>0. CASE UNCHANGED vars
    BY <1>0, <1>t DEF TreeInv, ReceiptsSound, TreesStored, vars
  <1> SUFFICES ASSUME NEW s \in Slot,
                      \/ Accept(s) \/ Validation(s) \/ Write(s) \/ UpdateBranch(s)
                      \/ CreateRepo(s) \/ ReadSource(s) \/ Respond(s) \/ Fault(s)
               PROVE  TreeInv'
    BY <1>0 DEF Next
  <1> DEFINE h == handler[s]
  <1>a. /\ h \in Handler /\ Tree(h, cas) /\ (h.pc # "idle" => h \in Busy)
        /\ StoreTypeOK /\ TypeInv /\ ReceiptsSound /\ TreesStored
    BY DEF TreeInv, TypeInv, Ready
  <1> HIDE DEF h
  <1>k. h.inherited \subseteq cas /\ h.backfill \subseteq cas
        /\ (h.req.op = "source" => h.missing = {})
    BY <1>a DEF Tree
  <1>b. ASSUME h \in Busy
        PROVE  /\ h.req \in Request /\ h.req.repo \in Repo
               /\ h.req.id \in CommitId /\ h.req.doc \in Doc
               /\ h.req.op # "post_commit"
               /\ h.req.op = "publish" => Backend # "sqlx"
    BY <1>b, BusyTypes, RequestTypes DEF ValidatedOnly
  <1>1. CASE Accept(s)
    <2>1. UNCHANGED store /\ \E q \in Request : Become(s, Begin(q))
      BY <1>1 DEF Accept
    <2> QED
      BY <1>t, <2>1, TreeBegin, TreeKeepStore, BecomeTree DEF store
  <1>2. CASE ReadParent(s)
    <2>1. h.pc = "parents" /\ h \in Busy /\ UNCHANGED store
      BY <1>2, <1>a DEF ReadParent, h
    <2>2. PICK p \in h.parents :
            Become(s, Validate([h EXCEPT !.parents = @ \ {p},
                !.inherited = @ \cup IF commits[h.req.repo][p] = None THEN {}
                                     ELSE commits[h.req.repo][p].manifest]))
      BY <1>2 DEF ReadParent, h
    <2> DEFINE found == IF commits[h.req.repo][p] = None THEN {}
                        ELSE commits[h.req.repo][p].manifest
               g == [h EXCEPT !.parents = @ \ {p}, !.inherited = @ \cup found]
    <2>3. found \in SUBSET Digest /\ found \subseteq cas
      BY <1>a, <1>b, <2>1, BusyTypes DEF TreesStored, StoreTypeOK
    <2>4. g \in Busy /\ g.req = h.req /\ g.backfill = h.backfill
          /\ g.inherited = h.inherited \cup found
      <3> HIDE DEF found
      <3> QED BY <2>1, <2>3 DEF Busy, Handler
    <2>5. Become(s, Validate(g))
      BY <2>2
    <2> HIDE DEF g, found
    <2>6. Tree(Validate(g), cas)
      BY <1>a, <1>k, <2>1, <2>3, <2>4, TreeValidate DEF Tree
    <2> QED
      BY <1>t, <2>1, <2>5, <2>6, TreeKeepStore, BecomeTree DEF store
  <1>3. CASE ExistsAll(s)
    <2> DEFINE g == [h EXCEPT !.todo = {}, !.missing = @ \cup (h.todo \ cas)]
    <2>1. h.pc = "exists" /\ h \in Busy /\ Become(s, Settle(g)) /\ UNCHANGED store
          /\ Backend # "datamesh"
      BY <1>3, <1>a DEF ExistsAll, h
    <2>2. g \in Busy /\ g.req = h.req /\ g.inherited = h.inherited
          /\ g.backfill = h.backfill /\ g.status = h.status /\ g.todo = {}
          /\ g.missing = h.missing \cup (h.todo \ cas)
      BY <2>1 DEF Busy, Handler
    <2> HIDE DEF g
    <2>3. \/ g.status = 500
          \/ g.req.doc.manifest \subseteq cas \cup g.todo \cup g.missing \cup Uploads(g.req)
      BY <1>a, <2>1, <2>2 DEF Tree
    <2>4. g.req.op \in {"create_commit", "publish"}
      BY <1>a, <2>1, <2>2 DEF Tree
    <2>5. Tree(Settle(g), cas)
      BY <1>k, <2>2, <2>3, <2>4, TreeSettle
    <2> QED
      BY <1>t, <2>1, <2>5, TreeKeepStore, BecomeTree DEF store
  <1>4. CASE BlobExists(s)
    <2>1. h.pc = "exists" /\ h \in Busy /\ UNCHANGED store
      BY <1>4, <1>a DEF BlobExists, h
    <2>2. PICK d \in h.todo : Become(s, Settle([h EXCEPT
            !.todo = @ \ {d},
            !.backfill = IF d \in cas \ receipts THEN @ \cup {d} ELSE @,
            !.missing = IF d \in cas \cup receipts THEN @ ELSE @ \cup {d}]))
      BY <1>4 DEF BlobExists, h
    <2> DEFINE more == IF d \in cas \ receipts THEN h.backfill \cup {d} ELSE h.backfill
               lost == IF d \in cas \cup receipts THEN h.missing ELSE h.missing \cup {d}
               g == [h EXCEPT !.todo = @ \ {d}, !.backfill = more, !.missing = lost]
    <2>3. Become(s, Settle(g))
      BY <2>1, <2>2 DEF Busy, Handler
    <2>4. more \in SUBSET Digest /\ lost \in SUBSET Digest
      BY <2>1, BusyTypes
    <2>5. more \subseteq cas /\ h.missing \subseteq lost /\ (d \in cas \/ d \in lost)
      BY <1>a, <1>k DEF ReceiptsSound
    <2> HIDE DEF more, lost
    <2>6. g \in Busy
      BY <2>1, <2>4 DEF Busy, Handler
    <2>7. g.req = h.req /\ g.inherited = h.inherited /\ g.status = h.status
          /\ g.todo = h.todo \ {d} /\ g.backfill = more /\ g.missing = lost
      BY <2>1 DEF Busy, Handler
    <2> HIDE DEF g
    <2>8. \/ g.status = 500
          \/ g.req.doc.manifest \subseteq cas \cup g.todo \cup g.missing \cup Uploads(g.req)
      BY <1>a, <2>1, <2>5, <2>7 DEF Tree
    <2>9. Tree(Settle(g), cas)
      BY <1>a, <1>k, <2>1, <2>5, <2>6, <2>7, <2>8, TreeSettle DEF Tree
    <2> QED
      BY <1>t, <2>1, <2>3, <2>9, TreeKeepStore, BecomeTree DEF store
  <1>5. CASE Backfill(s)
    <2>1. h.pc = "exists" /\ h \in Busy /\ UNCHANGED <<cas, commits>>
      BY <1>5, <1>a DEF Backfill, h
    <2>2. PICK d \in h.backfill :
            /\ receipts' = receipts \cup {d}
            /\ Become(s, Settle([h EXCEPT !.backfill = @ \ {d}]))
      BY <1>5 DEF Backfill, h
    <2> DEFINE g == [h EXCEPT !.backfill = @ \ {d}]
    <2>3. g \in Busy /\ g.req = h.req /\ g.inherited = h.inherited /\ g.status = h.status
          /\ g.todo = h.todo /\ g.backfill = h.backfill \ {d} /\ g.missing = h.missing
      BY <2>1 DEF Busy, Handler
    <2>4. Become(s, Settle(g))
      BY <2>2
    <2> HIDE DEF g
    <2>5. \/ g.status = 500
          \/ g.req.doc.manifest \subseteq cas \cup g.todo \cup g.missing \cup Uploads(g.req)
      BY <1>a, <2>1, <2>3 DEF Tree
    <2>6. g.req.op \in {"create_commit", "publish"}
      BY <1>a, <2>1, <2>3 DEF Tree
    <2>7. Tree(Settle(g), cas)
      BY <1>k, <2>3, <2>5, <2>6, TreeSettle
    <2>8. ReceiptsSound' /\ TreesStored' /\ cas \subseteq cas'
      BY <1>a, <1>k, <2>1, <2>2 DEF ReceiptsSound, TreesStored
    <2> QED
      BY <1>t, <2>1, <2>4, <2>7, <2>8, BecomeTree
  <1>6. CASE CheckTarget(s)
    <2> DEFINE g == [h EXCEPT !.next = @ + 1]
    <2>1. /\ h.pc = "targets" /\ h \in Busy /\ UNCHANGED store
          /\ (Become(s, Reply(h, 500)) \/ Become(s, NextTarget(g)))
      BY <1>6, <1>a DEF CheckTarget, h
    <2>2. g \in Busy /\ g.req = h.req /\ g.inherited = h.inherited
          /\ g.backfill = h.backfill
      BY <2>1 DEF Busy, Handler
    <2> HIDE DEF g
    <2>3. Tree(Reply(h, 500), cas)
      BY <1>k, <2>1, TreeReply
    <2>4. Tree(NextTarget(g), cas)
      BY <1>a, <1>k, <2>1, <2>2, TreeNextTarget DEF Tree
    <2> QED
      BY <1>t, <2>1, <2>3, <2>4, TreeKeepStore, BecomeTree DEF store
  <1>7. CASE PutBlob(s)
    <2>1. h.pc = "blob" /\ h \in Busy /\ UNCHANGED <<receipts, commits>>
      BY <1>7, <1>a DEF PutBlob, h
    <2>2. PICK d \in h.todo :
            LET g == [h EXCEPT !.todo = @ \ {d}, !.wrote = TRUE] IN
            /\ cas' = cas \cup {d}
            /\ Become(s, IF Backend = "datamesh"
                         THEN [g EXCEPT !.pc = "receipt", !.backfill = {d}]
                         ELSE Goto(g, NextBlob(g)))
      BY <1>7 DEF PutBlob, h
    <2> DEFINE g == [h EXCEPT !.todo = @ \ {d}, !.wrote = TRUE]
    <2>3. /\ g \in Busy /\ g.req = h.req /\ g.inherited = h.inherited
          /\ g.backfill = h.backfill /\ g.missing = h.missing
          /\ g.todo = h.todo \ {d} /\ d \in Digest
      BY <2>1 DEF Busy, Handler
    <2>4. /\ cas' = cas \cup {d}
          /\ \/ Become(s, [g EXCEPT !.pc = "receipt", !.backfill = {d}])
             \/ Become(s, Goto(g, NextBlob(g)))
      BY <2>2
    <2> HIDE DEF g
    <2>5. g.req.op = "publish" => g.req.doc.manifest \subseteq cas' \cup g.todo
      BY <1>a, <2>1, <2>3, <2>4 DEF Tree
    <2>6. Tree(Goto(g, NextBlob(g)), cas')
      BY <1>k, <2>3, <2>4, <2>5, TreeNextBlob
    <2>7. Tree([g EXCEPT !.pc = "receipt", !.backfill = {d}], cas')
      BY <1>k, <2>3, <2>4, <2>5 DEF Tree, Busy, Handler
    <2>8. ReceiptsSound' /\ TreesStored' /\ cas \subseteq cas'
      BY <1>a, <2>1, <2>4 DEF ReceiptsSound, TreesStored
    <2> QED
      BY <1>t, <2>4, <2>6, <2>7, <2>8, BecomeTree
  <1>8. CASE PutReceipt(s)
    <2> DEFINE g == [h EXCEPT !.backfill = {}]
    <2>1. /\ h.pc = "receipt" /\ h \in Busy /\ Become(s, Goto(g, NextBlob(g)))
          /\ receipts' = receipts \cup h.backfill /\ UNCHANGED <<cas, commits>>
      BY <1>8, <1>a DEF PutReceipt, h
    <2>2. /\ g \in Busy /\ g.req = h.req /\ g.inherited = h.inherited
          /\ g.backfill = {} /\ g.missing = h.missing /\ g.todo = h.todo
      BY <2>1 DEF Busy, Handler
    <2> HIDE DEF g
    <2>3. Tree(Goto(g, NextBlob(g)), cas)
      BY <1>a, <1>k, <2>1, <2>2, TreeNextBlob DEF Tree
    <2>4. ReceiptsSound' /\ TreesStored' /\ cas \subseteq cas'
      BY <1>a, <1>k, <2>1 DEF ReceiptsSound, TreesStored
    <2> QED
      BY <1>t, <2>1, <2>3, <2>4, BecomeTree
  <1>9. CASE StoreCommit(s)
    <2> DEFINE g == [h EXCEPT !.wrote = TRUE]
    <2>1. /\ h.pc = "commit" /\ h \in Busy /\ Become(s, Goto(g, AfterCommit(g)))
          /\ PutCommit(h.req.repo, h.req.id, h.req.doc) /\ UNCHANGED <<cas, receipts>>
      BY <1>9, <1>a DEF StoreCommit, h
    <2>2. /\ g \in Busy /\ g.req = h.req /\ g.inherited = h.inherited
          /\ g.backfill = h.backfill /\ g.missing = h.missing
      BY <2>1 DEF Busy, Handler
    <2> HIDE DEF g
    <2>3. AfterCommit(g) \in {"main", "reply", "updates"}
      BY DEF AfterCommit, NextUpdate
    <2>4. Tree(Goto(g, AfterCommit(g)), cas)
      BY <1>k, <2>2, <2>3, TreeGoto
    <2>5. h.req.doc.manifest \subseteq cas
      BY <1>a, <2>1 DEF Tree
    <2>6. TreesStored'
      BY <1>b, <2>1, <2>5, TreePutCommit
    <2>7. ReceiptsSound' /\ cas \subseteq cas'
      BY <1>a, <2>1 DEF ReceiptsSound
    <2> QED
      BY <1>t, <2>1, <2>4, <2>6, <2>7, BecomeTree
  <1>10. CASE MoveBranch(s)
    <2> DEFINE g == [h EXCEPT !.next = @ + 1]
    <2>1. /\ h \in Busy /\ Become(s, Goto(g, NextUpdate(g)))
          /\ UNCHANGED <<cas, receipts, commits>>
      BY <1>10, <1>a DEF MoveBranch, h
    <2>2. /\ g \in Busy /\ g.req = h.req /\ g.inherited = h.inherited
          /\ g.backfill = h.backfill /\ g.missing = h.missing
      BY <2>1 DEF Busy, Handler
    <2> HIDE DEF g
    <2>3. NextUpdate(g) \in {"reply", "updates"}
      BY DEF NextUpdate
    <2>4. Tree(Goto(g, NextUpdate(g)), cas)
      BY <1>k, <2>2, <2>3, TreeGoto
    <2> QED
      BY <1>t, <2>1, <2>4, TreeKeepStore, BecomeTree
  <1>11. CASE PublishMemory(s)
    <2> DEFINE g == [h EXCEPT !.wrote = TRUE]
    <2>1. h \in Busy /\ (\/ Become(s, Reply(h, 422)) /\ UNCHANGED store
                         \/ Become(s, Reply(h, 500)) /\ UNCHANGED store
                         \/ /\ Become(s, Reply(g, 201))
                            /\ TreePresent(h.req)
                            /\ cas' = cas \cup h.req.blobs
                            /\ PutCommit(h.req.repo, h.req.id, h.req.doc)
                            /\ UNCHANGED <<receipts, private>>)
      BY <1>11, <1>a DEF PublishMemory, h
    <2>2. /\ g \in Busy /\ g.req = h.req /\ g.inherited = h.inherited
          /\ g.backfill = h.backfill /\ g.missing = h.missing
      BY <2>1 DEF Busy, Handler
    <2> HIDE DEF g
    <2>3. ASSUME NEW code PROVE Tree(Reply(h, code), cas)
      BY <1>k, <2>1, TreeReply
    <2>4. CASE UNCHANGED store /\ ~ Become(s, Reply(g, 201))
      BY <1>t, <2>1, <2>3, <2>4, TreeKeepStore, BecomeTree DEF store
    <2>5. CASE ~ (UNCHANGED store /\ ~ Become(s, Reply(g, 201)))
      <3>1. /\ Become(s, Reply(g, 201)) 
            /\ (UNCHANGED store \/ (/\ TreePresent(h.req)
                            /\ cas' = cas \cup h.req.blobs
                            /\ PutCommit(h.req.repo, h.req.id, h.req.doc)
                            /\ UNCHANGED receipts))
        BY <2>1, <2>5
      <3>2. cas \subseteq cas'
        BY <3>1 DEF store
      <3>3. Tree(Reply(g, 201), cas')
        BY <1>k, <2>2, <3>2, TreeReply
      <3>4. ReceiptsSound'
        BY <1>a, <3>1, <3>2 DEF ReceiptsSound, store
      <3>5. TreesStored'
        BY <1>b, <2>1, <3>1, <3>2, TreePutCommit, TreeKeepStore DEF TreePresent, store
      <3> QED
        BY <1>t, <3>1, <3>2, <3>3, <3>4, <3>5, BecomeTree
    <2> QED
      BY <2>4, <2>5
  <1>12. CASE UpdateBranch(s)
    <2> DEFINE g == [h EXCEPT !.wrote = TRUE]
    <2>1. /\ h \in Busy /\ UNCHANGED <<cas, receipts, commits>>
          /\ \/ \E code \in {409, 422, 428} : Become(s, Reply(h, code))
             \/ \E pc \in {"cas", "set"} : Become(s, Goto(h, pc))
             \/ Become(s, Reply(g, 200))
      BY <1>12, <1>a DEF UpdateBranch, CheckCommit, CasSetBranch, WriteBranch, store, h
    <2>2. /\ g \in Busy /\ g.req = h.req /\ g.inherited = h.inherited
          /\ g.backfill = h.backfill /\ g.missing = h.missing
      BY <2>1 DEF Busy, Handler
    <2> HIDE DEF g
    <2>3. ASSUME NEW code PROVE Tree(Reply(h, code), cas) /\ Tree(Reply(g, code), cas)
      BY <1>k, <2>1, <2>2, TreeReply
    <2>4. Tree(Goto(h, "cas"), cas) /\ Tree(Goto(h, "set"), cas)
      BY <1>k, <2>1, TreeGoto
    <2> QED
      BY <1>t, <2>1, <2>3, <2>4, TreeKeepStore, BecomeTree
  <1>13. CASE LookupMain(s)
    <2> DEFINE g == [h EXCEPT !.pc = "private", !.id = branches[h.req.repo][Main]]
    <2>1. /\ h \in Busy /\ UNCHANGED store
          /\ (Become(s, Reply(h, 200)) \/ Become(s, g))
      BY <1>13, <1>a DEF LookupMain, h
    <2>2. Tree(g, cas)
      BY <1>a, <1>13, <2>1 DEF LookupMain, Tree, Busy, Handler, h
    <2>3. Tree(Reply(h, 200), cas)
      BY <1>k, <2>1, TreeReply
    <2> HIDE DEF g
    <2> QED
      BY <1>t, <2>1, <2>2, <2>3, TreeKeepStore, BecomeTree DEF store
  <1>14. CASE SetPrivate(s)
    <2>1. /\ h.pc = "private" /\ h \in Busy /\ UNCHANGED <<cas, receipts, commits>>
          /\ (Become(s, Reply(h, 200)) \/ Become(s, Goto(h, "commit")))
      BY <1>14, <1>a DEF SetPrivate, h
    <2>2. h.req.doc.manifest = {}
      <3>1. h.req.op = "create_repo"
        BY <1>a, <2>1 DEF Tree
      <3> QED
        BY <1>b, <2>1, <3>1, RequestTypes, StoreAssumption DEF WellFormed
    <2>3. Tree(Goto(h, "commit"), cas)
      BY <1>k, <2>1, <2>2 DEF Goto, Tree, Busy, Handler
    <2>4. Tree(Reply(h, 200), cas)
      BY <1>k, <2>1, TreeReply
    <2> QED
      BY <1>t, <2>1, <2>3, <2>4, TreeKeepStore, BecomeTree
  <1>15. CASE SetMain(s)
    <2>1. /\ h \in Busy /\ Become(s, Reply(h, 201)) /\ UNCHANGED <<cas, receipts, commits>>
      BY <1>15, <1>a DEF SetMain, h
    <2>2. Tree(Reply(h, 201), cas)
      BY <1>k, <2>1, TreeReply
    <2> QED
      BY <1>t, <2>1, <2>2, TreeKeepStore, BecomeTree
  <1>16. CASE ResolveRef(s)
    <2> DEFINE found == IF h.req.head # None THEN h.req.head
                        ELSE branches[h.req.repo][h.req.branch]
               g == [h EXCEPT !.pc = "load", !.id = found]
    <2>1. h \in Busy /\ UNCHANGED store /\ Become(s, g)
      BY <1>16, <1>a DEF ResolveRef, h
    <2>2. Tree(g, cas)
      <3> HIDE DEF found
      <3> QED BY <1>k, <2>1 DEF Tree, Busy, Handler
    <2> HIDE DEF g
    <2> QED
      BY <1>t, <2>1, <2>2, TreeKeepStore, BecomeTree DEF store
  <1>17. CASE LoadCommit(s)
    <2> DEFINE c == commits[h.req.repo][h.id]
               g == [h EXCEPT !.pc = "stream", !.todo = c.manifest]
    <2>1. /\ h \in Busy /\ UNCHANGED store
          /\ \/ \E code \in {404, 200} : Become(s, Reply(h, code))
             \/ h.id # None /\ c # None /\ Become(s, g)
      BY <1>17, <1>a DEF LoadCommit, h
    <2>2. ASSUME h.id # None, c # None PROVE c.manifest \subseteq cas
      BY <1>a, <1>b, <2>1, <2>2, BusyTypes DEF TreesStored
    <2> HIDE DEF c
    <2>3. ASSUME c.manifest \subseteq cas PROVE Tree(g, cas)
      BY <1>k, <2>1, <2>3 DEF Tree, Busy, Handler
    <2>4. ASSUME NEW code PROVE Tree(Reply(h, code), cas)
      BY <1>k, <2>1, TreeReply
    <2> HIDE DEF g
    <2> QED
      BY <1>t, <2>1, <2>2, <2>3, <2>4, TreeKeepStore, BecomeTree DEF store
  <1>18. CASE StreamBlob(s)
    <2>1. h \in Busy /\ h.pc = "stream" /\ UNCHANGED store /\ h.todo \subseteq cas
      BY <1>18, <1>a DEF StreamBlob, Tree, h
    <2>2. PICK d \in h.todo :
            LET g == [h EXCEPT !.todo = @ \ {d},
                               !.missing = IF d \in cas THEN @ ELSE {d}] IN
            Become(s, IF g.todo = {} \/ g.missing # {} THEN Reply(g, 200) ELSE g)
      BY <1>18 DEF StreamBlob, h
    <2> DEFINE g == [h EXCEPT !.todo = @ \ {d}, !.missing = IF d \in cas THEN @ ELSE {d}]
    <2>3. Become(s, Reply(g, 200)) \/ Become(s, g)
      BY <2>2
    <2>4. /\ g \in Busy /\ g.pc = "stream" /\ g.req = h.req /\ g.inherited = h.inherited
          /\ g.backfill = h.backfill /\ g.todo \subseteq h.todo
      BY <2>1 DEF Busy, Handler
    <2>5. g.missing = h.missing
      BY <2>1 DEF Busy, Handler
    <2> HIDE DEF g
    <2>6. Tree(Reply(g, 200), cas)
      BY <1>k, <2>4, <2>5, TreeReply
    <2>7. Tree(g, cas)
      BY <1>k, <2>1, <2>4, <2>5 DEF Tree
    <2> QED
      BY <1>t, <2>1, <2>3, <2>6, <2>7, TreeKeepStore, BecomeTree DEF store
  <1>19. CASE Respond(s) \/ Drop(s)
    <2>1. Become(s, Idle) /\ UNCHANGED store
      BY <1>19 DEF Respond, Drop
    <2>2. Tree(Idle, cas)
      BY DEF Idle, Tree
    <2> QED
      BY <1>t, <2>1, <2>2, TreeKeepStore, BecomeTree DEF store
  <1>20. CASE Fail(s)
    <2>1. h \in Busy /\ Become(s, Reply(h, 500)) /\ UNCHANGED store
      BY <1>20, <1>a DEF Fail, h
    <2>2. Tree(Reply(h, 500), cas)
      BY <1>k, <2>1, TreeReply
    <2> QED
      BY <1>t, <2>1, <2>2, TreeKeepStore, BecomeTree DEF store
  <1>21. CASE FailLookup(s)
    <2>1. h.pc = "exists" /\ h \in Busy /\ UNCHANGED store
      BY <1>21, <1>a DEF FailLookup, h
    <2>2. PICK d \in h.todo \cup h.backfill :
            Become(s, Settle([h EXCEPT !.todo = @ \ {d}, !.backfill = @ \ {d},
                                       !.status = 500]))
      BY <1>21 DEF FailLookup, h
    <2> DEFINE k == [h EXCEPT !.todo = @ \ {d}, !.backfill = @ \ {d}]
               g == [k EXCEPT !.status = 500]
    <2>3. Become(s, Settle(g))
      BY <2>1, <2>2 DEF Busy, Handler
    <2>4. k \in Busy /\ k.req = h.req /\ k.inherited = h.inherited
          /\ k.backfill \subseteq h.backfill
      BY <2>1 DEF Busy, Handler
    <2> HIDE DEF k
    <2>5. g \in Busy /\ g.req = h.req /\ g.inherited = h.inherited
          /\ g.backfill \subseteq h.backfill /\ g.status = 500
      BY <2>4 DEF Busy, Handler
    <2> HIDE DEF g
    <2>6. g.req.op \in {"create_commit", "publish"}
      BY <1>a, <2>1, <2>5 DEF Tree
    <2>7. Tree(Settle(g), cas)
      BY <1>k, <2>5, <2>6, TreeSettle
    <2> QED
      BY <1>t, <2>1, <2>3, <2>7, TreeKeepStore, BecomeTree DEF store
  <1> QED
    BY <1>1, <1>2, <1>3, <1>4, <1>5, <1>6, <1>7, <1>8, <1>9, <1>10, <1>11, <1>12,
       <1>13, <1>14, <1>15, <1>16, <1>17, <1>18, <1>19, <1>20, <1>21
       DEF Validation, Write, CreateRepo, ReadSource, Fault

(* TreeInv is an invariant of the forge when every commit enters through a *)
(* validating route.                                                       *)
THEOREM TreeInvariant ==
    ASSUME ValidatedOnly
    PROVE  Spec => []TreeInv
  <1>1. Init => TreeInv
    <2> SUFFICES ASSUME Init PROVE TreeInv
      OBVIOUS
    <2>1. TypeInv
      BY TypeInit
    <2>2. Tree(Idle, cas)
      BY DEF Idle, Tree
    <2> QED
      BY <2>1, <2>2 DEF Init, StoreInit, TreeInv, ReceiptsSound, TreesStored
  <1>2. TreeInv /\ [Next]_vars => TreeInv'
    BY TreeStep
  <1> QED
    BY <1>1, <1>2, PTL DEF Spec

(* Every blob a stored commit references is in the CAS, whatever the        *)
(* interleaving, the store errors and the dropped handlers: a digest that   *)
(* create_commit does not look up because a parent has it is really there.  *)
THEOREM TreesAreStored ==
    ASSUME ValidatedOnly
    PROVE  Spec => []TreesStored
  <1>1. TreeInv => TreesStored
    BY DEF TreeInv
  <1> QED
    BY <1>1, TreeInvariant, PTL

(* A receipt of the data-mesh store is never ahead of the blob it stands    *)
(* for, so a lookup it answers cannot let a commit through without its      *)
(* bytes.                                                                   *)
THEOREM ReceiptsAreSound ==
    ASSUME ValidatedOnly
    PROVE  Spec => []ReceiptsSound
  <1>1. TreeInv => ReceiptsSound
    BY DEF TreeInv
  <1> QED
    BY <1>1, TreeInvariant, PTL

(* The source route never cuts a tar short for want of a blob.              *)
THEOREM SourcesAreComplete ==
    ASSUME ValidatedOnly
    PROVE  Spec => []SourceComplete
  <1>1. TreeInv => SourceComplete
    BY DEF TreeInv, Tree, SourceComplete
  <1> QED
    BY <1>1, TreeInvariant, PTL

-----------------------------------------------------------------------------
(* If every commit enters through a route that validates it and the        *)
(* PostgreSQL publish is not used, heads, trees and receipts are           *)
(* consistent in every state: whichever store call fails and whichever     *)
(* handler is dropped, forge-cas leaves nothing half-written that a reader *)
(* could follow.                                                           *)
THEOREM StoreAlwaysConsistent ==
    ASSUME ValidatedOnly, CheckedPublish
    PROVE  Spec => []StoreConsistent
  <1>1. HeadsResolve /\ TreesStored /\ ReceiptsSound => StoreConsistent
    BY DEF StoreConsistent
  <1> QED
    BY <1>1, HeadsAlwaysResolve, TreesAreStored, ReceiptsAreSound, PTL

-----------------------------------------------------------------------------
(* A handler before its first write: nothing is written and it has not     *)
(* refused.                                                                *)
Untouched(h) ==
    /\ {"pc", "status", "wrote"} \subseteq DOMAIN h
    /\ ~ h.wrote /\ h.status \notin 400 .. 499

(* A handler has written only beyond the gates of its route, and refuses   *)
(* only from in front of them.                                             *)
Clean(h) ==
    /\ {"pc", "status", "wrote"} \subseteq DOMAIN h
    /\ h.wrote => h.pc \in {"blob", "receipt", "commit", "updates", "main", "reply"}
    /\ h.status \in 400 .. 499 => h.pc = "reply" /\ ~ h.wrote

CleanInv == \A s \in Slot : Clean(handler[s])

(* A handler that answers is clean if it has written nothing or its answer *)
(* is no refusal.                                                          *)
LEMMA CleanReply ==
    ASSUME NEW h, {"pc", "status", "wrote"} \subseteq DOMAIN h, NEW code,
           code \in 400 .. 499 => ~ h.wrote
    PROVE  Clean(Reply(h, code))
  BY DEF Clean, Reply

(* A handler that has written nothing may go on anywhere. *)
LEMMA CleanGoto ==
    ASSUME NEW h, Untouched(h), NEW pc
    PROVE  Clean(Goto(h, pc))
  BY CleanReply DEF Clean, Untouched, Goto

(* A handler that has written something goes on to its next write. *)
LEMMA CleanWrites ==
    ASSUME NEW h, {"pc", "status", "wrote"} \subseteq DOMAIN h, h.status \notin 400 .. 499,
           NEW pc \in {"blob", "receipt", "commit", "updates", "main", "reply"}
    PROVE  Clean(Goto(h, pc))
  BY CleanReply DEF Clean, Goto

(* The verdict on the blobs of a handler that has written nothing. *)
LEMMA CleanSettle ==
    ASSUME NEW h, Untouched(h)
    PROVE  Clean(Settle(h))
  <1>1. Clean([h EXCEPT !.pc = "exists"])
    BY DEF Clean, Untouched
  <1>2. Clean(Reply(h, 500)) /\ Clean(Reply(h, 422))
    BY CleanReply DEF Untouched
  <1>3. Clean(NextTarget(h))
    <2> DEFINE g == [h EXCEPT !.todo = h.req.blobs, !.next = 1]
    <2>1. Untouched(g)
      BY DEF Untouched
    <2>2. Clean(Goto(g, NextBlob(g)))
      <3> HIDE DEF g
      <3> QED BY <2>1, CleanGoto
    <2> QED BY <2>2, CleanGoto DEF NextTarget, StartWrites
  <1>4. Clean(Goto(h, "commit"))
    BY CleanGoto
  <1> QED BY <1>1, <1>2, <1>3, <1>4 DEF Settle

(* The validation of a handler that has written nothing. *)
LEMMA CleanValidate ==
    ASSUME NEW h, Untouched(h)
    PROVE  Clean(Validate(h))
  <1> DEFINE g == [h EXCEPT !.todo = h.req.doc.manifest \ (h.inherited \cup
                     IF h.req.op = "publish" THEN h.req.blobs ELSE {})]
  <1>1. Untouched(g)
    BY DEF Untouched
  <1>2. Clean([h EXCEPT !.pc = "parents"])
    BY DEF Clean, Untouched
  <1>3. Clean(Settle(g))
    <2> HIDE DEF g
    <2> QED BY <1>1, CleanSettle
  <1> QED BY <1>2, <1>3 DEF Validate

(* A request begins with nothing written. *)
LEMMA CleanBegin ==
    ASSUME NEW q \in Request
    PROVE  Clean(Begin(q))
  <1> DEFINE h == [Idle EXCEPT !.req = q, !.parents =
                     IF q.op \in {"create_commit", "publish"} THEN q.doc.parents ELSE {}]
             g == [h EXCEPT !.todo = h.req.blobs, !.next = 1]
  <1>1. Untouched(h) /\ Untouched(g)
    BY DEF Untouched, Idle
  <1>2. Clean([h EXCEPT !.pc = "blob", !.todo = q.blobs])
    BY <1>1 DEF Untouched, Clean
  <1>3. q.op \in Op
    BY RequestTypes
  <1> HIDE DEF h
  <1>4. Clean(Goto(g, NextBlob(g)))
    <2> HIDE DEF g
    <2> QED BY <1>1, CleanGoto
  <1>5. Clean(Publish(h))
    BY <1>1, <1>4, CleanGoto, CleanValidate, CleanReply, StoreAssumption
       DEF Publish, Untouched, StartWrites
  <1> QED BY <1>1, <1>2, <1>3, <1>5, CleanGoto, CleanValidate DEF Begin, h, Op

(* A handler moves and the others stay. *)
LEMMA CleanBecome ==
    ASSUME CleanInv, NEW s \in Slot, DOMAIN handler = Slot, NEW g, Become(s, g), Clean(g)
    PROVE  CleanInv'
  BY DEF CleanInv, Become
(* Every step of a handler keeps it clean. *)
LEMMA CleanStep ==
    ASSUME TypeInv, CleanInv, [Next]_vars
    PROVE  CleanInv'
  <1>0. CASE UNCHANGED vars
    BY <1>0 DEF CleanInv, vars
  <1> SUFFICES ASSUME NEW s \in Slot,
                      \/ Accept(s) \/ Validation(s) \/ Write(s) \/ UpdateBranch(s)
                      \/ CreateRepo(s) \/ ReadSource(s) \/ Respond(s) \/ Fault(s)
               PROVE  CleanInv'
    BY <1>0 DEF Next
  <1> DEFINE h == handler[s]
  <1>a. DOMAIN handler = Slot /\ Clean(h) /\ h.status \in Int
    BY DEF CleanInv, TypeInv, Handler
  <1>b. ASSUME h.pc \in {"parents", "exists", "targets", "publish", "check", "cas", "set", "lookup",
                         "private", "resolve", "load", "stream"}
        PROVE  Untouched(h)
    BY <1>a, <1>b DEF Clean, Untouched
  <1>c. ASSUME NEW code, h.pc # "idle", code \in 400 .. 499 => ~ h.wrote, Become(s, Reply(h, code))
        PROVE  CleanInv'
    BY <1>a, <1>c, CleanReply, CleanBecome DEF Clean
  <1>d. ASSUME NEW pc, Untouched(h), Become(s, Goto(h, pc))
        PROVE  CleanInv'
    BY <1>a, <1>d, CleanGoto, CleanBecome
  <1>1. CASE Accept(s)
    BY <1>1, <1>a, CleanBegin, CleanBecome DEF Accept
  <1>2. CASE ReadParent(s)
    <2>1. PICK p \in h.parents :
            Become(s, Validate([h EXCEPT !.parents = @ \ {p},
                !.inherited = @ \cup IF commits[h.req.repo][p] = None THEN {}
                                     ELSE commits[h.req.repo][p].manifest]))
      BY <1>2 DEF ReadParent
    <2> DEFINE g == [h EXCEPT !.parents = @ \ {p},
                       !.inherited = @ \cup IF commits[h.req.repo][p] = None THEN {}
                                            ELSE commits[h.req.repo][p].manifest]
    <2>2. Untouched(g)
      BY <1>2, <1>b DEF ReadParent, Untouched
    <2> HIDE DEF g
    <2>3. Clean(Validate(g))
      BY <2>2, CleanValidate
    <2> QED BY <1>a, <2>1, <2>3, CleanBecome DEF g
  <1>3. CASE ExistsAll(s) \/ BlobExists(s) \/ Backfill(s) \/ FailLookup(s)
    <2>1. PICK g : Untouched(g) /\ Become(s, Settle(g))
      <3>1. Untouched(h)
        BY <1>3, <1>b DEF ExistsAll, BlobExists, Backfill, FailLookup
      <3>2. CASE ExistsAll(s)
        <4> DEFINE k == [h EXCEPT !.todo = {}, !.missing = @ \cup (h.todo \ cas)]
        <4>1. Untouched(k) /\ Become(s, Settle(k))
          BY <3>1, <3>2 DEF ExistsAll, Untouched
        <4> HIDE DEF k
        <4> QED BY <4>1
      <3>3. CASE BlobExists(s)
        <4>1. PICK d \in h.todo : Become(s, Settle([h EXCEPT
                !.todo = @ \ {d},
                !.backfill = IF d \in cas \ receipts THEN @ \cup {d} ELSE @,
                !.missing = IF d \in cas \cup receipts THEN @ ELSE @ \cup {d}]))
          BY <3>3 DEF BlobExists
        <4> DEFINE k == [h EXCEPT
                !.todo = @ \ {d},
                !.backfill = IF d \in cas \ receipts THEN @ \cup {d} ELSE @,
                !.missing = IF d \in cas \cup receipts THEN @ ELSE @ \cup {d}]
        <4>2. Untouched(k)
          BY <3>1 DEF Untouched
        <4> HIDE DEF k
        <4> QED BY <4>1, <4>2 DEF k
      <3>4. CASE Backfill(s)
        <4>1. PICK d \in h.backfill : Become(s, Settle([h EXCEPT !.backfill = @ \ {d}]))
          BY <3>4 DEF Backfill
        <4> DEFINE k == [h EXCEPT !.backfill = @ \ {d}]
        <4>2. Untouched(k)
          BY <3>1 DEF Untouched
        <4> HIDE DEF k
        <4> QED BY <4>1, <4>2 DEF k
      <3>5. CASE FailLookup(s)
        <4>1. PICK d \in h.todo \cup h.backfill :
                Become(s, Settle([h EXCEPT !.todo = @ \ {d}, !.backfill = @ \ {d}, !.status = 500]))
          BY <3>5 DEF FailLookup
        <4> DEFINE k == [h EXCEPT !.todo = @ \ {d}, !.backfill = @ \ {d}, !.status = 500]
        <4>2. Untouched(k)
          BY <3>1 DEF Untouched
        <4> HIDE DEF k
        <4> QED BY <4>1, <4>2 DEF k
      <3> QED BY <1>3, <3>2, <3>3, <3>4, <3>5
    <2> QED BY <1>a, <2>1, CleanSettle, CleanBecome
  <1>4. CASE CheckTarget(s)
    <2>1. Untouched(h)
      BY <1>4, <1>b DEF CheckTarget
    <2> DEFINE g == [h EXCEPT !.next = @ + 1]
               k == [g EXCEPT !.todo = g.req.blobs, !.next = 1]
    <2>2. Untouched(g) /\ Untouched(k)
      BY <2>1 DEF Untouched
    <2>3. Become(s, Reply(h, 500)) \/ Become(s, NextTarget(g))
      BY <1>4 DEF CheckTarget
    <2> HIDE DEF g
    <2>4. Clean(Goto(k, NextBlob(k))) /\ Clean(Goto(g, "targets"))
      <3> HIDE DEF k
      <3> QED BY <2>2, CleanGoto
    <2>5. Clean(NextTarget(g))
      BY <2>4 DEF NextTarget, StartWrites
    <2> QED BY <1>4, <1>a, <1>c, <2>3, <2>5, CleanBecome DEF CheckTarget
  <1>5. CASE PutBlob(s)
    <2>1. PICK d \in h.todo :
            LET g == [h EXCEPT !.todo = @ \ {d}, !.wrote = TRUE] IN
            Become(s, IF Backend = "datamesh" THEN [g EXCEPT !.pc = "receipt", !.backfill = {d}]
                      ELSE Goto(g, NextBlob(g)))
      BY <1>5 DEF PutBlob
    <2> DEFINE g == [h EXCEPT !.todo = @ \ {d}, !.wrote = TRUE]
    <2>2. {"pc", "status", "wrote"} \subseteq DOMAIN g /\ g.status \notin 400 .. 499
      BY <1>a, <1>5 DEF PutBlob, Clean
    <2>3. Become(s, [g EXCEPT !.pc = "receipt", !.backfill = {d}]) \/ Become(s, Goto(g, NextBlob(g)))
      BY <2>1
    <2> HIDE DEF g
    <2>4. Clean([g EXCEPT !.pc = "receipt", !.backfill = {d}])
      BY <2>2 DEF Clean
    <2>5. Clean(Goto(g, NextBlob(g)))
      BY <2>2, CleanWrites DEF NextBlob
    <2> QED BY <1>a, <2>3, <2>4, <2>5, CleanBecome
  <1>6. CASE PutReceipt(s)
    <2> DEFINE g == [h EXCEPT !.backfill = {}]
    <2>1. /\ {"pc", "status", "wrote"} \subseteq DOMAIN g /\ g.status \notin 400 .. 499
          /\ Become(s, Goto(g, NextBlob(g)))
      BY <1>a, <1>6 DEF PutReceipt, Clean
    <2> HIDE DEF g
    <2>2. Clean(Goto(g, NextBlob(g)))
      BY <2>1, CleanWrites DEF NextBlob
    <2> QED BY <1>a, <2>1, <2>2, CleanBecome
  <1>7. CASE StoreCommit(s)
    <2> DEFINE g == [h EXCEPT !.wrote = TRUE]
    <2>1. /\ {"pc", "status", "wrote"} \subseteq DOMAIN g /\ g.status \notin 400 .. 499
          /\ Become(s, Goto(g, AfterCommit(g)))
      BY <1>a, <1>7 DEF StoreCommit, Clean
    <2> HIDE DEF g
    <2>2. Clean(Goto(g, AfterCommit(g)))
      BY <2>1, CleanWrites DEF AfterCommit, NextUpdate
    <2> QED BY <1>a, <2>1, <2>2, CleanBecome
  <1>8. CASE MoveBranch(s)
    <2> DEFINE g == [h EXCEPT !.next = @ + 1]
    <2>1. /\ {"pc", "status", "wrote"} \subseteq DOMAIN g /\ g.status \notin 400 .. 499
          /\ Become(s, Goto(g, NextUpdate(g)))
      BY <1>a, <1>8 DEF MoveBranch, Clean
    <2> HIDE DEF g
    <2>2. Clean(Goto(g, NextUpdate(g)))
      BY <2>1, CleanWrites DEF NextUpdate
    <2> QED BY <1>a, <2>1, <2>2, CleanBecome
  <1>9. ASSUME {"pc", "status", "wrote"} \subseteq DOMAIN h, NEW code \in {200, 201},
               Become(s, Reply([h EXCEPT !.wrote = TRUE], code))
        PROVE  CleanInv'
    <2> DEFINE g == [h EXCEPT !.wrote = TRUE]
    <2>1. {"pc", "status", "wrote"} \subseteq DOMAIN g /\ code \notin 400 .. 499
      BY <1>9
    <2>2. Become(s, Reply(g, code))
      BY <1>9
    <2> HIDE DEF g
    <2> QED BY <1>a, <2>1, <2>2, CleanReply, CleanBecome
  <1>10. CASE PublishMemory(s)
    <2>1. Untouched(h) /\ h.pc = "publish"
      BY <1>10, <1>b DEF PublishMemory
    <2>2. \/ \E code \in {422, 500} : Become(s, Reply(h, code))
          \/ Become(s, Reply([h EXCEPT !.wrote = TRUE], 201))
      BY <1>10 DEF PublishMemory
    <2> QED BY <2>1, <2>2, <1>c, <1>9 DEF Untouched
  <1>11. CASE CheckCommit(s)
    <2>1. Untouched(h) /\ h.pc = "check"
      BY <1>11, <1>b DEF CheckCommit
    <2>2. \/ \E code \in {422, 428} : Become(s, Reply(h, code))
          \/ \E pc \in {"cas", "set"} : Become(s, Goto(h, pc))
      BY <1>11 DEF CheckCommit
    <2> QED BY <2>1, <2>2, <1>c, <1>d DEF Untouched
  <1>12. CASE CasSetBranch(s)
    <2>1. Untouched(h) /\ h.pc = "cas"
      BY <1>12, <1>b DEF CasSetBranch
    <2>2. \/ Become(s, Reply(h, 409)) \/ Become(s, Goto(h, "set"))
          \/ Become(s, Reply([h EXCEPT !.wrote = TRUE], 200))
      BY <1>12 DEF CasSetBranch
    <2> QED BY <2>1, <2>2, <1>c, <1>d, <1>9 DEF Untouched
  <1>13. CASE WriteBranch(s)
    BY <1>13, <1>a, <1>9 DEF WriteBranch, Clean
  <1>14. CASE LookupMain(s)
    <2>1. Untouched(h) /\ h.pc = "lookup"
      BY <1>14, <1>b DEF LookupMain
    <2> DEFINE g == [h EXCEPT !.pc = "private", !.id = branches[h.req.repo][Main]]
    <2>2. Become(s, Reply(h, 200)) \/ Become(s, g)
      BY <1>14 DEF LookupMain
    <2>3. Clean(g)
      BY <2>1 DEF Clean, Untouched
    <2> HIDE DEF g
    <2> QED BY <2>1, <2>2, <2>3, <1>a, <1>c, CleanBecome
  <1>15. CASE SetPrivate(s)
    <2>1. Untouched(h) /\ h.pc = "private"
      BY <1>15, <1>b DEF SetPrivate
    <2>2. Become(s, Reply(h, 200)) \/ Become(s, Goto(h, "commit"))
      BY <1>15 DEF SetPrivate
    <2> QED BY <2>1, <2>2, <1>c, <1>d
  <1>16. CASE SetMain(s)
    BY <1>16, <1>c DEF SetMain
  <1>17. CASE ResolveRef(s)
    <2>1. Untouched(h) /\ h.pc = "resolve"
      BY <1>17, <1>b DEF ResolveRef
    <2> DEFINE g == [h EXCEPT !.pc = "load", !.id = IF h.req.head # None THEN h.req.head
                                                    ELSE branches[h.req.repo][h.req.branch]]
    <2>2. Become(s, g)
      BY <1>17 DEF ResolveRef
    <2>3. Clean(g)
      BY <2>1 DEF Clean, Untouched
    <2> HIDE DEF g
    <2> QED BY <2>2, <2>3, <1>a, CleanBecome
  <1>18. CASE LoadCommit(s)
    <2>1. Untouched(h) /\ h.pc = "load"
      BY <1>18, <1>b DEF LoadCommit
    <2>2. \/ \E code \in {404, 200} : Become(s, Reply(h, code))
          \/ \E S : Become(s, [h EXCEPT !.pc = "stream", !.todo = S])
      BY <1>18 DEF LoadCommit
    <2>3. ASSUME NEW S PROVE Clean([h EXCEPT !.pc = "stream", !.todo = S])
      BY <2>1 DEF Clean, Untouched
    <2>4. CASE \E code \in {404, 200} : Become(s, Reply(h, code))
      BY <2>1, <2>4, <1>c DEF Untouched
    <2>5. CASE \E S : Become(s, [h EXCEPT !.pc = "stream", !.todo = S])
      BY <2>3, <2>5, <1>a, CleanBecome
    <2> QED BY <2>2, <2>4, <2>5
  <1>19. CASE StreamBlob(s)
    <2>1. Untouched(h) /\ h.pc = "stream"
      BY <1>19, <1>b DEF StreamBlob
    <2>2. PICK d \in h.todo :
            LET g == [h EXCEPT !.todo = @ \ {d}, !.missing = IF d \in cas THEN @ ELSE {d}] IN
            Become(s, IF g.todo = {} \/ g.missing # {} THEN Reply(g, 200) ELSE g)
      BY <1>19 DEF StreamBlob
    <2> DEFINE g == [h EXCEPT !.todo = @ \ {d}, !.missing = IF d \in cas THEN @ ELSE {d}]
    <2>3. Untouched(g)
      BY <2>1 DEF Untouched
    <2>4. Become(s, Reply(g, 200)) \/ Become(s, g)
      BY <2>2
    <2> HIDE DEF g
    <2>5. Clean(Reply(g, 200)) /\ Clean(g)
      BY <2>3, CleanReply DEF Clean, Untouched
    <2> QED BY <2>4, <2>5, <1>a, CleanBecome
  <1>20. CASE Respond(s) \/ Drop(s)
    <2>1. Clean(Idle) /\ Become(s, Idle)
      BY <1>20 DEF Respond, Drop, Clean, Idle
    <2> QED BY <2>1, <1>a, CleanBecome
  <1>21. CASE Fail(s)
    BY <1>21, <1>c DEF Fail
  <1> QED
    BY <1>1, <1>2, <1>3, <1>4, <1>5, <1>6, <1>7, <1>8, <1>10, <1>11, <1>12, <1>13, <1>14, <1>15,
       <1>16, <1>17, <1>18, <1>19, <1>20, <1>21
       DEF Validation, Write, UpdateBranch, CreateRepo, ReadSource, Fault

(* Whatever the store, whatever fails and however handlers interleave, a   *)
(* request that is refused with a 4xx has written no blob, no commit and   *)
(* no head: every gate of a route comes before the route's first write.    *)
THEOREM RefusalsWriteNothing == Spec => []RejectedWritesNothing
  <1>1. Init => CleanInv
    BY DEF Init, CleanInv, Clean, Idle
  <1>2. CleanInv => RejectedWritesNothing
    BY DEF CleanInv, Clean, RejectedWritesNothing
  <1>3. Spec => []CleanInv
    BY <1>1, CleanStep, TypeInvariant, PTL DEF Spec
  <1> QED BY <1>2, <1>3, PTL

(* If every commit enters through a validating route and the PostgreSQL    *)
(* publish is not used, atomic_publish either refuses without a trace or   *)
(* leaves a store in which every head and every tree is whole.             *)
THEOREM PublishesAreSound ==
    ASSUME ValidatedOnly, CheckedPublish
    PROVE  Spec => []PublishSound
  <1>1. HeadsResolve /\ TreesStored /\ RejectedWritesNothing => PublishSound
    BY DEF PublishSound
  <1> QED
    BY <1>1, HeadsAlwaysResolve, TreesAreStored, RefusalsWriteNothing, PTL
=============================================================================

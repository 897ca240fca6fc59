--------------------------- MODULE PublishProofs ---------------------------
(***************************************************************************)
(* What `aivcs publish` promises, for any number of publishers, handlers   *)
(* and commits: the branch moves from a commit to its child, a publish     *)
(* that was acknowledged is never lost, and what a publisher is told of a  *)
(* conflict is true.                                                       *)
(***************************************************************************)
EXTENDS ForgePublish, TLAPS

(* When a branch may be written without the comparison in the same step. *)
Split == ~ RequireCas \/ Backend = "datamesh"

(* What publishers send. *)
Sent ==
    {q \in RequestType :
        /\ q.op \in {"create_repo", "create_commit", "update_branch"}
        /\ q.repo = TheRepo /\ q.doc = Identity[q.id]
        /\ q.op = "create_repo" => q.id = Root[TheRepo]
        /\ q.op = "update_branch" =>
              q.branch = Target /\ (q.head # None => q.head \in Identity[q.id].parents)}

(* Where the handler of a route stands. *)
PointOf(op, pc) ==
    \/ pc = "reply"
    \/ op = "create_repo" /\ pc \in {"lookup", "private", "commit", "main"}
    \/ op = "create_commit" /\ pc \in {"parents", "exists", "commit"}
    \/ op = "update_branch" /\ pc \in {"check", "cas", "set"}

(* A handler that serves a publisher, heard or not. *)
Serving ==
    {h \in Handler :
        /\ h.req \in Sent /\ PointOf(h.req.op, h.pc)
        /\ h.pc # "reply" => h.status \in {0, 500}
        /\ h.pc = "set" => Split}

(* What a step of the server does for an update of the branch, from h to   *)
(* g, and to the branch: nothing, the update itself, or the reset of main  *)
(* at the end of create_repo.                                              *)
Quiet(h, g) ==
    /\ Tip' = Tip /\ landed' = landed
    /\ g \in Serving /\ h.req.op = "update_branch" =>
          /\ g.status \notin 200 .. 299
          /\ g.pc # "reply" \/ g.status = 409 => h.pc \in {"check", "cas"}

Lands(h, g) ==
    /\ h.req.op = "update_branch" /\ h.pc \in {"cas", "set"}
    /\ h.pc = "cas" => Tip = h.req.head
    /\ Tip' = h.req.id /\ landed' = landed \cup {h.req.id}
    /\ g \in Serving /\ g.pc = "reply" /\ g.status = 200

Resets(h) ==
    /\ h.req.op = "create_repo"
    /\ \/ Target = Main /\ Tip' = Root[TheRepo] /\ landed' = landed \cup {Root[TheRepo]}
       \/ Target # Main /\ Tip' = Tip /\ landed' = landed

StoreInv == StoreTypeOK /\ (Tip # None => Tip \in landed)

(* The parts of a handler that serves a publisher. *)
LEMMA ServingTypes ==
    ASSUME NEW h \in Serving
    PROVE  /\ h \in Handler /\ h.pc # "idle"
           /\ h.req \in RequestType /\ h.req \in Sent
           /\ h.req.repo = TheRepo /\ TheRepo \in Repo
           /\ h.req.op \in {"create_repo", "create_commit", "update_branch"}
           /\ h.req.id \in CommitId /\ h.req.doc \in Doc /\ h.req.branch \in Branch
           /\ h.req.doc.parents \in SUBSET CommitId /\ h.req.doc.manifest \in SUBSET Digest
           /\ h.req.head \in CommitId \cup {None} /\ h.req.private \in BOOLEAN \cup {None}
           /\ h.req.doc.repo = h.req.doc.repo
           /\ h.todo \in SUBSET Digest /\ h.backfill \in SUBSET Digest
           /\ h.parents \in SUBSET CommitId /\ h.inherited \in SUBSET Digest
  <1>1. h \in Handler /\ h.req \in Sent /\ PointOf(h.req.op, h.pc)
    BY DEF Serving
  <1>2. h.pc # "idle"
    BY <1>1 DEF PointOf
  <1>3. h.req \in RequestType /\ h.req.repo = TheRepo
        /\ h.req.op \in {"create_repo", "create_commit", "update_branch"}
    BY <1>1 DEF Sent
  <1>4. h.req.doc \in Doc /\ h.req.id \in CommitId /\ h.req.branch \in Branch
        /\ h.req.head \in CommitId \cup {None} /\ h.req.private \in BOOLEAN \cup {None}
    BY <1>3 DEF RequestType
  <1>5. h.req.doc.parents \in SUBSET CommitId /\ h.req.doc.manifest \in SUBSET Digest
    BY <1>4 DEF Doc
  <1>6. /\ h.todo \in SUBSET Digest /\ h.backfill \in SUBSET Digest
        /\ h.parents \in SUBSET CommitId /\ h.inherited \in SUBSET Digest
    BY <1>1 DEF Handler
  <1> QED BY <1>1, <1>2, <1>3, <1>4, <1>5, <1>6, PublishAssumption

(* A handler that answers goes on serving the same request. *)
LEMMA ServingReply ==
    ASSUME NEW h \in Handler, h.req \in Sent, NEW code \in Int
    PROVE  /\ Reply(h, code) \in Serving /\ Reply(h, code).req = h.req
           /\ Reply(h, code).pc = "reply" /\ Reply(h, code).status = code
  <1>1. h \in Handler /\ h.req \in Sent
    OBVIOUS
  <1>2. /\ Reply(h, code) \in Handler /\ Reply(h, code).req = h.req
        /\ Reply(h, code).pc = "reply" /\ Reply(h, code).status = code
    BY <1>1 DEF Reply, Handler, PC
  <1> QED BY <1>1, <1>2 DEF Serving, PointOf

(* A handler goes on to another point of its route. *)
LEMMA ServingGoto ==
    ASSUME NEW h \in Serving, NEW pc \in PC, PointOf(h.req.op, pc), pc # "reply",
           h.status \in {0, 500}, pc = "set" => Split
    PROVE  Goto(h, pc) \in Serving /\ Goto(h, pc).req = h.req
           /\ Goto(h, pc).pc = pc /\ Goto(h, pc).status = h.status
  BY DEF Serving, Goto, Handler

(* The verdict on the blobs of a commit. *)
LEMMA ServingSettle ==
    ASSUME NEW h \in Serving, h.req.op = "create_commit", h.status \in {0, 500}
    PROVE  Settle(h) \in Serving /\ Settle(h).req = h.req
  <1>1. [h EXCEPT !.pc = "exists"] \in Serving /\ [h EXCEPT !.pc = "exists"].req = h.req
    BY DEF Serving, Handler, PointOf, PC
  <1>2. Goto(h, "commit") \in Serving /\ Goto(h, "commit").req = h.req
    BY ServingGoto DEF PointOf, PC
  <1>3. \A code \in {422, 500} : Reply(h, code) \in Serving /\ Reply(h, code).req = h.req
    BY ServingReply, ServingTypes
  <1> QED BY <1>1, <1>2, <1>3 DEF Settle

(* The validation of a commit. *)
LEMMA ServingValidate ==
    ASSUME NEW h \in Serving, h.req.op = "create_commit", h.status \in {0, 500}
    PROVE  Validate(h) \in Serving /\ Validate(h).req = h.req
  <1>1. [h EXCEPT !.pc = "parents"] \in Serving /\ [h EXCEPT !.pc = "parents"].req = h.req
    BY DEF Serving, Handler, PointOf, PC
  <1> DEFINE S == h.req.doc.manifest \ (h.inherited \cup
                    IF h.req.op = "publish" THEN h.req.blobs ELSE {})
             g == [h EXCEPT !.todo = S]
  <1>2. S \in SUBSET Digest
    BY ServingTypes
  <1>3. g \in Serving /\ g.req = h.req /\ g.status = h.status
    <2> HIDE DEF S
    <2> QED BY <1>2 DEF Serving, Handler, PointOf
  <1>4. Settle(g) \in Serving /\ Settle(g).req = h.req
    <2> HIDE DEF g
    <2> QED BY <1>3, ServingSettle
  <1> QED BY <1>1, <1>4 DEF Validate

(* The first point of a handler that a publisher's request starts. *)
LEMMA ServingBegin ==
    ASSUME NEW q \in Sent
    PROVE  /\ Begin(q) \in Serving /\ Begin(q).req = q
           /\ q.op = "update_branch" => Begin(q).pc = "check" /\ Begin(q).status = 0
  <1> DEFINE P == IF q.op \in {"create_commit", "publish"} THEN q.doc.parents ELSE {}
             h == [Idle EXCEPT !.req = q, !.parents = P]
  <1>1. q \in RequestType /\ q.op \in {"create_repo", "create_commit", "update_branch"}
    BY DEF Sent
  <1>2. q.doc \in Doc
    BY <1>1 DEF RequestType
  <1>3. P \in SUBSET CommitId
    BY <1>2 DEF Doc
  <1> HIDE DEF P
  <1>4. h \in Handler /\ h.req = q /\ h.status = 0
    <2>1. Idle \in Handler /\ Idle.status = 0
      BY DEF Handler, Idle, PC
    <2> QED BY <1>1, <1>3, <2>1 DEF Handler
  <1> HIDE DEF h
  <1>5. CASE q.op = "create_commit"
    <2>1. [h EXCEPT !.pc = "parents"] \in Serving
      BY <1>4, <1>5 DEF Serving, Handler, PC, PointOf
    <2>2. Validate(h) \in Serving /\ Validate(h).req = q
      <3> DEFINE S == h.req.doc.manifest \ (h.inherited \cup
                        IF h.req.op = "publish" THEN h.req.blobs ELSE {})
                 k == [h EXCEPT !.todo = S]
      <3>1. S \in SUBSET Digest
        BY <1>2, <1>4 DEF Doc
      <3> HIDE DEF S
      <3>2. k \in Handler /\ k.req = q /\ k.status = 0
        BY <1>4, <3>1 DEF Handler
      <3> HIDE DEF k
      <3>3. [k EXCEPT !.pc = "exists"] \in Serving /\ [k EXCEPT !.pc = "exists"].req = q
        BY <1>5, <3>2 DEF Serving, Handler, PC, PointOf
      <3>4. /\ Reply(k, 500) \in Serving /\ Reply(k, 500).req = q
            /\ Reply(k, 422) \in Serving /\ Reply(k, 422).req = q
        BY <3>2, ServingReply
      <3>5. Goto(k, "commit") \in Serving /\ Goto(k, "commit").req = q
        BY <1>5, <3>2 DEF Serving, Handler, PC, PointOf, Goto
      <3>6. Settle(k) \in Serving /\ Settle(k).req = q
        BY <1>5, <3>2, <3>3, <3>4, <3>5 DEF Settle
      <3>7. [h EXCEPT !.pc = "parents"].req = q
        BY <1>4 DEF Handler
      <3> QED BY <2>1, <3>6, <3>7 DEF Validate, k, S
    <2> QED BY <1>5, <2>2 DEF Begin, P, h
  <1>6. CASE q.op = "update_branch"
    <2>1. Goto(h, "check") \in Serving /\ Goto(h, "check").req = q
          /\ Goto(h, "check").pc = "check" /\ Goto(h, "check").status = 0
      BY <1>4, <1>6 DEF Serving, Handler, PC, PointOf, Goto
    <2> QED BY <1>6, <2>1 DEF Begin, P, h
  <1>7. CASE q.op = "create_repo"
    <2>1. Goto(h, "lookup") \in Serving /\ Goto(h, "lookup").req = q
      BY <1>4, <1>7 DEF Serving, Handler, PC, PointOf, Goto
    <2> QED BY <1>7, <2>1 DEF Begin, P, h
  <1> QED BY <1>1, <1>5, <1>6, <1>7

(* Every step of the server moves one handler along its route, and the     *)
(* branch only through an update or the end of create_repo.                *)
LEMMA ServerStep ==
    ASSUME StoreInv, handler \in [Slot -> {Idle} \cup Serving], landed \in SUBSET CommitId,
           NEW s \in Slot, Serve(s) \/ Discard(s) \/ ServerFault(s)
    PROVE  /\ handler[s] \in Serving /\ StoreInv' /\ UNCHANGED <<client, caller, acked>>
           /\ \E g \in {Idle} \cup Serving :
                 /\ Become(s, g) /\ (g = Idle \/ g.req = handler[s].req)
                 /\ Quiet(handler[s], g) \/ Lands(handler[s], g) \/ Resets(handler[s])
  <1> DEFINE h == handler[s]
             Goal == \E g \in {Idle} \cup Serving :
                        /\ Become(s, g) /\ (g = Idle \/ g.req = h.req)
                        /\ Quiet(h, g) \/ Lands(h, g) \/ Resets(h)
  <1>1. h \in Serving
    <2>1. h.pc # "idle"
      BY DEF Serve, Discard, ServerFault, Validation, Write, UpdateBranch, CreateRepo, Respond, Fault,
         ReadParent, ExistsAll, BlobExists, Backfill, CheckTarget, PutBlob, PutReceipt, StoreCommit,
         MoveBranch, PublishMemory, CheckCommit, CasSetBranch, WriteBranch, LookupMain, SetPrivate,
         SetMain, Fail, FailLookup, Drop
    <2> QED BY <2>1 DEF Idle
  <1>2. UNCHANGED <<client, caller, acked>>
    BY DEF Serve, Discard, ServerFault
  <1>3. /\ h.req \in RequestType /\ h.req.repo = TheRepo /\ TheRepo \in Repo /\ h \in Handler
        /\ h.req \in Sent
        /\ h.req.op \in {"create_repo", "create_commit", "update_branch"}
        /\ h.req.id \in CommitId /\ h.req.doc \in Doc
        /\ h.todo \in SUBSET Digest /\ h.backfill \in SUBSET Digest
        /\ h.parents \in SUBSET CommitId /\ h.inherited \in SUBSET Digest
        /\ h.req.private \in BOOLEAN \cup {None}
        /\ h.req.head \in CommitId \cup {None}
    BY <1>1, ServingTypes
  <1>4. /\ PointOf(h.req.op, h.pc) /\ (h.pc # "reply" => h.status \in {0, 500})
        /\ h.pc = "set" => Split
    BY <1>1 DEF Serving
  <1>5. StoreTypeOK /\ (Tip # None => Tip \in landed) /\ Target \in Branch /\ Main \in Branch
    BY PublishAssumption, StoreAssumption DEF StoreInv
  <1> HIDE DEF h
  <1>6. ASSUME UNCHANGED branches
        PROVE  Tip' = Tip /\ landed' = landed /\ (Tip' # None => Tip' \in landed')
    <2>1. Tip' = Tip
      BY <1>6 DEF Tip
    <2>2. landed' = landed \/ landed' = landed \cup ({Tip} \ {None})
      BY <2>1 DEF Serve, Discard, ServerFault, Record, Tip
    <2> QED BY <1>5, <2>1, <2>2
  <1>7. ASSUME NEW g \in {Idle} \cup Serving, Become(s, g), g = Idle \/ g.req = h.req,
               UNCHANGED branches, StoreTypeOK',
               g \in Serving /\ h.req.op = "update_branch" =>
                  /\ g.status \notin 200 .. 299
                  /\ g.pc # "reply" \/ g.status = 409 => h.pc \in {"check", "cas"}
        PROVE  Goal /\ StoreInv'
    BY <1>6, <1>7 DEF Quiet, StoreInv
  <1>8. ASSUME UNCHANGED store PROVE StoreTypeOK' /\ UNCHANGED branches
    BY <1>5, <1>8 DEF store, StoreTypeOK
  <1>9. ASSUME h.req.op = "create_commit", NEW g \in Serving, g.req = h.req, Become(s, g),
               UNCHANGED branches, StoreTypeOK'
        PROVE  Goal /\ StoreInv'
    BY <1>7, <1>9
  <1>10. ASSUME NEW code \in Int, code \notin 200 .. 299, code = 409 => h.pc = "cas",
                Become(s, Reply(h, code)), UNCHANGED store
         PROVE  Goal /\ StoreInv'
    <2>1. /\ Reply(h, code) \in Serving /\ Reply(h, code).req = h.req
          /\ Reply(h, code).pc = "reply" /\ Reply(h, code).status = code
      BY <1>3, ServingReply
    <2> QED BY <1>7, <1>8, <1>10, <2>1
  <1>11. CASE Discard(s) \/ Drop(s)
    <2>1. Become(s, Idle) /\ UNCHANGED store
      BY <1>11 DEF Discard, Respond, Drop
    <2>2. Idle \notin Serving
      BY DEF Serving, Idle, PointOf
    <2>3. Goal /\ StoreInv'
      BY <1>7, <1>8, <2>1, <2>2
    <2> QED BY <1>1, <1>2, <2>3 DEF h
  <1>12. CASE Fail(s)
    <2>1. Become(s, Reply(h, 500)) /\ UNCHANGED store
      BY <1>12 DEF Fail, h
    <2>2. Goal /\ StoreInv'
      BY <1>10, <2>1
    <2> QED BY <1>1, <1>2, <2>2 DEF h
  <1>13. ASSUME h.req.op = "create_commit", h.status \in {0, 500}, NEW g \in Handler, g.req = h.req,
                g.pc = h.pc, h.pc # "reply", g.status \in {0, 500}
         PROVE  g \in Serving
    BY <1>1, <1>3, <1>4, <1>13 DEF Serving, PointOf
  <1>14. CASE FailLookup(s)
    <2>1. h.req.op = "create_commit" /\ h.pc = "exists"
      BY <1>4, <1>14 DEF FailLookup, PointOf, h
    <2>2. PICK d \in h.todo \cup h.backfill :
            Become(s, Settle([h EXCEPT !.todo = @ \ {d}, !.backfill = @ \ {d}, !.status = 500]))
      BY <1>14 DEF FailLookup, h
    <2> DEFINE S == h.todo \ {d}
               T == h.backfill \ {d}
               g == [h EXCEPT !.todo = S, !.backfill = T, !.status = 500]
    <2>a. S \in SUBSET Digest /\ T \in SUBSET Digest
      BY <1>3
    <2>4. UNCHANGED store /\ Become(s, Settle(g))
      BY <1>14, <2>2 DEF FailLookup
    <2> HIDE DEF S, T
    <2>3. g \in Handler /\ g.req = h.req /\ g.pc = h.pc /\ g.status = 500
      <3> DEFINE k == [h EXCEPT !.todo = S, !.backfill = T]
      <3>1. k \in Handler /\ k.req = h.req /\ k.pc = h.pc
        BY <1>3, <2>a DEF Handler
      <3>2. g = [k EXCEPT !.status = 500]
        BY <1>3 DEF Handler
      <3> HIDE DEF g, k
      <3> QED BY <3>1, <3>2 DEF Handler
    <2> HIDE DEF g
    <2>5. Settle(g) \in Serving /\ Settle(g).req = h.req
      BY <1>4, <1>13, <2>1, <2>3, ServingSettle
    <2>6. Goal /\ StoreInv'
      BY <1>8, <1>9, <2>1, <2>4, <2>5
    <2> QED BY <1>1, <1>2, <2>6 DEF h
  <1>15. CASE ReadParent(s)
    <2>1. h.req.op = "create_commit" /\ h.pc = "parents"
      BY <1>4, <1>15 DEF ReadParent, PointOf, h
    <2>2. PICK p \in h.parents :
            Become(s, Validate([h EXCEPT !.parents = @ \ {p},
                !.inherited = @ \cup IF commits[h.req.repo][p] = None THEN {}
                                     ELSE commits[h.req.repo][p].manifest]))
      BY <1>15 DEF ReadParent, h
    <2> DEFINE found == IF commits[h.req.repo][p] = None THEN {} ELSE commits[h.req.repo][p].manifest
               g == [h EXCEPT !.parents = @ \ {p}, !.inherited = @ \cup found]
    <2>3. found \in SUBSET Digest
      BY <1>3, <1>5, <2>2 DEF StoreTypeOK, Doc
    <2>4. g \in Handler /\ g.req = h.req /\ g.pc = h.pc /\ g.status = h.status
      <3> HIDE DEF found
      <3> QED BY <1>3, <2>3 DEF Handler
    <2>5. UNCHANGED store /\ Become(s, Validate(g))
      BY <1>15, <2>2 DEF ReadParent
    <2> HIDE DEF g
    <2>6. Validate(g) \in Serving /\ Validate(g).req = h.req
      BY <1>4, <1>13, <2>1, <2>4, ServingValidate
    <2>7. Goal /\ StoreInv'
      BY <1>8, <1>9, <2>1, <2>5, <2>6
    <2> QED BY <1>1, <1>2, <2>7 DEF h
  <1>16. CASE ExistsAll(s)
    <2>1. h.req.op = "create_commit" /\ h.pc = "exists"
      BY <1>4, <1>16 DEF ExistsAll, PointOf, h
    <2> DEFINE g == [h EXCEPT !.todo = {}, !.missing = @ \cup (h.todo \ cas)]
    <2>2. g \in Handler /\ g.req = h.req /\ g.pc = h.pc /\ g.status = h.status
      BY <1>3 DEF Handler
    <2>3. UNCHANGED store /\ Become(s, Settle(g))
      BY <1>16 DEF ExistsAll, h
    <2> HIDE DEF g
    <2>4. Settle(g) \in Serving /\ Settle(g).req = h.req
      BY <1>4, <1>13, <2>1, <2>2, ServingSettle
    <2>5. Goal /\ StoreInv'
      BY <1>8, <1>9, <2>1, <2>3, <2>4
    <2> QED BY <1>1, <1>2, <2>5 DEF h
  <1>17. CASE BlobExists(s)
    <2>1. h.req.op = "create_commit" /\ h.pc = "exists"
      BY <1>4, <1>17 DEF BlobExists, PointOf, h
    <2>2. PICK d \in h.todo : Become(s, Settle([h EXCEPT
            !.todo = @ \ {d},
            !.backfill = IF d \in cas \ receipts THEN @ \cup {d} ELSE @,
            !.missing = IF d \in cas \cup receipts THEN @ ELSE @ \cup {d}]))
      BY <1>17 DEF BlobExists, h
    <2> DEFINE g == [h EXCEPT
            !.todo = @ \ {d},
            !.backfill = IF d \in cas \ receipts THEN @ \cup {d} ELSE @,
            !.missing = IF d \in cas \cup receipts THEN @ ELSE @ \cup {d}]
    <2>3. g \in Handler /\ g.req = h.req /\ g.pc = h.pc /\ g.status = h.status
      BY <1>3, <2>2 DEF Handler
    <2>4. UNCHANGED store /\ Become(s, Settle(g))
      BY <1>17, <2>2 DEF BlobExists
    <2> HIDE DEF g
    <2>5. Settle(g) \in Serving /\ Settle(g).req = h.req
      BY <1>4, <1>13, <2>1, <2>3, ServingSettle
    <2>6. Goal /\ StoreInv'
      BY <1>8, <1>9, <2>1, <2>4, <2>5
    <2> QED BY <1>1, <1>2, <2>6 DEF h
  <1>18. CASE Backfill(s)
    <2>1. h.req.op = "create_commit" /\ h.pc = "exists"
      BY <1>4, <1>18 DEF Backfill, PointOf, h
    <2>2. PICK d \in h.backfill : receipts' = receipts \cup {d}
                                 /\ Become(s, Settle([h EXCEPT !.backfill = @ \ {d}]))
      BY <1>18 DEF Backfill, h
    <2> DEFINE g == [h EXCEPT !.backfill = @ \ {d}]
    <2>3. g \in Handler /\ g.req = h.req /\ g.pc = h.pc /\ g.status = h.status
      BY <1>3, <2>2 DEF Handler
    <2>4. StoreTypeOK' /\ UNCHANGED branches /\ Become(s, Settle(g))
      BY <1>3, <1>5, <1>18, <2>2 DEF Backfill, StoreTypeOK
    <2> HIDE DEF g
    <2>5. Settle(g) \in Serving /\ Settle(g).req = h.req
      BY <1>4, <1>13, <2>1, <2>3, ServingSettle
    <2>6. Goal /\ StoreInv'
      BY <1>9, <2>1, <2>4, <2>5
    <2> QED BY <1>1, <1>2, <2>6 DEF h
  <1>19. CASE StoreCommit(s)
    <2> DEFINE g == [h EXCEPT !.wrote = TRUE]
    <2>1. h.req.op \in {"create_commit", "create_repo"} /\ h.pc = "commit"
      BY <1>3, <1>4, <1>19 DEF StoreCommit, PointOf, h
    <2>2. /\ PutCommit(h.req.repo, h.req.id, h.req.doc) /\ Become(s, Goto(g, AfterCommit(g)))
          /\ UNCHANGED <<cas, receipts, branches, private>>
      BY <1>19 DEF StoreCommit, h
    <2>3. StoreTypeOK'
      BY <1>3, <1>5, <2>2 DEF StoreTypeOK, PutCommit
    <2>4. g \in Handler /\ g.req = h.req /\ g.pc = h.pc /\ g.status = h.status
      BY <1>3 DEF Handler
    <2> HIDE DEF g
    <2>5. g \in Serving
      BY <1>3, <1>4, <2>1, <2>4 DEF Serving, PointOf
    <2>6. Goto(g, AfterCommit(g)) \in Serving /\ Goto(g, AfterCommit(g)).req = h.req
      <3>1. CASE h.req.op = "create_repo"
        <4>1. AfterCommit(g) = "main"
          BY <2>4, <3>1 DEF AfterCommit
        <4>2. Goto(g, "main") \in Serving /\ Goto(g, "main").req = h.req
          BY <1>4, <2>1, <2>4, <2>5, <3>1, ServingGoto DEF PointOf, PC
        <4> QED BY <4>1, <4>2
      <3>2. CASE h.req.op = "create_commit"
        <4>1. AfterCommit(g) = "reply"
          BY <2>4, <3>2 DEF AfterCommit
        <4>2. Reply(g, 201) \in Serving /\ Reply(g, 201).req = h.req
          BY <1>3, <2>4, ServingReply
        <4> QED BY <4>1, <4>2 DEF Goto
      <3> QED BY <2>1, <3>1, <3>2
    <2>7. Goal /\ StoreInv'
      BY <1>7, <2>1, <2>2, <2>3, <2>6
    <2> QED BY <1>1, <1>2, <2>7 DEF h
  <1>20. CASE CheckCommit(s)
    <2>1. h.req.op = "update_branch" /\ h.pc = "check" /\ h.status \in {0, 500}
      BY <1>4, <1>20 DEF CheckCommit, PointOf, h
    <2>2. /\ UNCHANGED store
          /\ \/ \E code \in {422, 428} : Become(s, Reply(h, code))
             \/ Become(s, Goto(h, "cas"))
             \/ ~ RequireCas /\ Become(s, Goto(h, "set"))
      BY <1>20, ForgeAssumption DEF CheckCommit, h
    <2>3. ASSUME NEW pc \in {"cas", "set"}, pc = "set" => ~ RequireCas, Become(s, Goto(h, pc))
          PROVE  Goal /\ StoreInv'
      <3>1. /\ Goto(h, pc) \in Serving /\ Goto(h, pc).req = h.req
            /\ Goto(h, pc).pc = pc /\ Goto(h, pc).status = h.status
        BY <1>1, <2>1, <2>3, ServingGoto DEF PointOf, PC, Split, h
      <3> QED BY <1>7, <1>8, <2>1, <2>2, <2>3, <3>1
    <2>4. Goal /\ StoreInv'
      BY <1>10, <2>2, <2>3
    <2> QED BY <1>1, <1>2, <2>4 DEF h
  <1>21. ASSUME h.req.op = "update_branch", h.pc \in {"cas", "set"}, h.pc = "cas" => Tip = h.req.head,
                SetBranch(TheRepo, Target, h.req.id), Record, UNCHANGED <<cas, receipts, commits, private>>,
                Become(s, Reply([h EXCEPT !.wrote = TRUE], 200))
         PROVE  Goal /\ StoreInv'
    <2> DEFINE g == [h EXCEPT !.wrote = TRUE]
    <2>1. g \in Handler /\ g.req = h.req
      BY <1>3 DEF Handler
    <2>2. Become(s, Reply(g, 200))
      BY <1>21
    <2> HIDE DEF g
    <2>3. /\ Reply(g, 200) \in Serving /\ Reply(g, 200).req = h.req
          /\ Reply(g, 200).pc = "reply" /\ Reply(g, 200).status = 200
      BY <1>3, <2>1, ServingReply
    <2>4. Tip' = h.req.id /\ StoreTypeOK'
      BY <1>3, <1>5, <1>21 DEF Tip, SetBranch, StoreTypeOK
    <2>5. landed' = landed \cup {h.req.id}
      BY <1>3, <1>21, <2>4, StoreAssumption DEF Record, Tip
    <2>6. Lands(h, Reply(g, 200)) /\ StoreInv'
      BY <1>21, <2>3, <2>4, <2>5 DEF Lands, StoreInv
    <2> QED BY <2>2, <2>3, <2>6
  <1>22. CASE (CasSetBranch(s) \/ WriteBranch(s)) /\ Record
    <2>1. /\ h.req.op = "update_branch" /\ h.req.branch = Target
          /\ h.pc \in {"cas", "set"} /\ h.status \in {0, 500}
      BY <1>3, <1>4, <1>22 DEF CasSetBranch, WriteBranch, PointOf, Sent, h
    <2>2. CASE CasSetBranch(s)
      <3>1. \/ h.pc = "cas" /\ Become(s, Reply(h, 409)) /\ UNCHANGED store
            \/ Backend = "datamesh" /\ h.pc = "cas" /\ Become(s, Goto(h, "set")) /\ UNCHANGED store
            \/ /\ h.pc = "cas" /\ Tip = h.req.head /\ SetBranch(TheRepo, Target, h.req.id)
               /\ Become(s, Reply([h EXCEPT !.wrote = TRUE], 200))
               /\ UNCHANGED <<cas, receipts, commits, private>>
        BY <1>3, <2>1, <2>2 DEF CasSetBranch, store, Tip, h
      <3>2. ASSUME h.pc = "cas", Become(s, Reply(h, 409)), UNCHANGED store PROVE Goal /\ StoreInv'
        BY <1>10, <3>2
      <3>3. ASSUME Backend = "datamesh", h.pc = "cas", Become(s, Goto(h, "set")), UNCHANGED store
            PROVE  Goal /\ StoreInv'
        <4>1. /\ Goto(h, "set") \in Serving /\ Goto(h, "set").req = h.req
              /\ Goto(h, "set").pc = "set" /\ Goto(h, "set").status = h.status
          BY <1>1, <2>1, <3>3, ServingGoto DEF PointOf, PC, Split, h
        <4> QED BY <1>7, <1>8, <2>1, <3>3, <4>1
      <3>4. Goal /\ StoreInv'
        BY <1>21, <1>22, <2>1, <3>1, <3>2, <3>3
      <3> QED BY <1>1, <1>2, <3>4 DEF h
    <2>3. CASE WriteBranch(s)
      <3>1. /\ h.pc = "set" /\ SetBranch(TheRepo, Target, h.req.id)
            /\ Become(s, Reply([h EXCEPT !.wrote = TRUE], 200))
            /\ UNCHANGED <<cas, receipts, commits, private>>
        BY <1>3, <2>1, <2>3 DEF WriteBranch, h
      <3>2. Goal /\ StoreInv'
        BY <1>21, <1>22, <2>1, <3>1
      <3> QED BY <1>1, <1>2, <3>2 DEF h
    <2> QED BY <1>22, <2>2, <2>3
  <1>23. CASE LookupMain(s)
    <2>1. h.req.op = "create_repo" /\ h.pc = "lookup"
      BY <1>4, <1>23 DEF LookupMain, PointOf, h
    <2> DEFINE g == [h EXCEPT !.pc = "private", !.id = branches[h.req.repo][Main]]
    <2>2. UNCHANGED store /\ (Become(s, Reply(h, 200)) \/ Become(s, g))
      BY <1>23 DEF LookupMain, h
    <2>3. branches[h.req.repo][Main] \in CommitId \cup {None}
      BY <1>3, <1>5 DEF StoreTypeOK
    <2>4. g \in Handler /\ g.req = h.req /\ g.pc = "private" /\ g.status = h.status
      BY <1>3, <2>3 DEF Handler, PC
    <2> HIDE DEF g
    <2>5. g \in Serving
      BY <1>3, <1>4, <2>1, <2>4 DEF Serving, PointOf
    <2>6. Reply(h, 200) \in Serving /\ Reply(h, 200).req = h.req
      BY <1>3, ServingReply
    <2>7. Goal /\ StoreInv'
      BY <1>7, <1>8, <2>1, <2>2, <2>4, <2>5, <2>6
    <2> QED BY <1>1, <1>2, <2>7 DEF h
  <1>24. CASE SetPrivate(s)
    <2>1. h.req.op = "create_repo" /\ h.pc = "private"
      BY <1>4, <1>24 DEF SetPrivate, PointOf, h
    <2>2. /\ UNCHANGED <<cas, receipts, commits, branches>>
          /\ private' = [private EXCEPT ![h.req.repo] =
                            IF h.req.private = None THEN TRUE ELSE h.req.private]
          /\ Become(s, Reply(h, 200)) \/ Become(s, Goto(h, "commit"))
      BY <1>24 DEF SetPrivate, h
    <2>3. StoreTypeOK'
      BY <1>3, <1>5, <2>2 DEF StoreTypeOK
    <2>4. /\ Reply(h, 200) \in Serving /\ Reply(h, 200).req = h.req
          /\ Goto(h, "commit") \in Serving /\ Goto(h, "commit").req = h.req
      BY <1>1, <1>3, <1>4, <2>1, ServingReply, ServingGoto DEF PointOf, PC, h
    <2>5. Goal /\ StoreInv'
      BY <1>7, <2>1, <2>2, <2>3, <2>4
    <2> QED BY <1>1, <1>2, <2>5 DEF h
  <1>25. CASE SetMain(s) /\ Record
    <2>1. h.req.op = "create_repo" /\ h.req.id = Root[TheRepo]
      BY <1>3, <1>4, <1>25 DEF SetMain, PointOf, Sent, h
    <2>2. /\ SetBranch(TheRepo, Main, Root[TheRepo]) /\ Become(s, Reply(h, 201))
          /\ UNCHANGED <<cas, receipts, commits, private>>
      BY <1>3, <1>25, <2>1 DEF SetMain, h
    <2>3. StoreTypeOK' /\ Tip' = IF Target = Main THEN Root[TheRepo] ELSE Tip
      BY <1>3, <1>5, <2>1, <2>2 DEF SetBranch, StoreTypeOK, Tip
    <2>4. landed' = landed \cup ({Tip'} \ {None})
      BY <1>25 DEF Record, Tip
    <2>5. Resets(h) /\ StoreInv'
      BY <1>3, <1>5, <2>1, <2>3, <2>4, StoreAssumption DEF Resets, StoreInv
    <2>6. Reply(h, 201) \in Serving /\ Reply(h, 201).req = h.req
      BY <1>3, ServingReply
    <2>7. Goal
      BY <2>2, <2>5, <2>6
    <2> QED BY <1>1, <1>2, <2>5, <2>7 DEF h
  <1>26. ~ CheckTarget(s) /\ ~ PutBlob(s) /\ ~ PutReceipt(s) /\ ~ MoveBranch(s) /\ ~ PublishMemory(s)
    <2>1. h.pc \notin {"targets", "blob", "receipt", "updates", "publish"}
      BY <1>3, <1>4 DEF PointOf
    <2> QED BY <2>1 DEF CheckTarget, PutBlob, PutReceipt, MoveBranch, PublishMemory, h
  <1> QED
    BY <1>11, <1>12, <1>14, <1>15, <1>16, <1>17, <1>18, <1>19, <1>20, <1>22, <1>23, <1>24, <1>25, <1>26
       DEF Serve, ServerFault, Validation, Write, UpdateBranch, CreateRepo, Fault

-----------------------------------------------------------------------------
(* A publisher waits for the answer of one handler, which serves the       *)
(* request the publisher is waiting for, unless it was dropped.            *)
Waiting(st) == st.pc \in {"creating", "committing", "updating"}

Serves(h, st) ==
    h = Idle \/ /\ h \in Serving
                /\ st.pc = "creating" => h.req.op = "create_repo"
                /\ st.pc = "committing" => h.req.op = "create_commit"
                /\ st.pc = "updating" => h.req.op = "update_branch" /\ h.req.id = st.id

(* Once the branch is resolved, the commit is a child of the head it had.  *)
ClientOK(c, st) ==
    /\ st \in ClientState
    /\ st.id # None => st.id \in CommitOn(c, st.head)
    /\ st.pc \notin {"resolve", "create", "creating", "resolve2", "failed"} => st.id # None

PubInv ==
    /\ StoreInv
    /\ landed \in SUBSET CommitId /\ acked \in SUBSET CommitId
    /\ handler \in [Slot -> {Idle} \cup Serving]
    /\ client \in [Client -> ClientState]
    /\ caller \in [Slot -> Client \cup {None}]
    /\ \A c \in Client : ClientOK(c, client[c])
    /\ \A s \in Slot : caller[s] # None =>
          Waiting(client[caller[s]]) /\ Serves(handler[s], client[caller[s]])
    /\ \A s, t \in Slot : caller[s] # None /\ caller[s] = caller[t] => s = t

(* A publisher's own step, or one of its reads. *)
LEMMA ClientMoves ==
    ASSUME PubInv, NEW c \in Client, ~ Waiting(client[c]), NEW st, ClientOK(c, st), Update(c, st),
           cas' \in SUBSET Digest, receipts' \in SUBSET Digest,
           UNCHANGED <<commits, branches, private, handler, caller, landed, acked>>
    PROVE  PubInv'
  <1>1. StoreInv'
    BY DEF PubInv, StoreInv, StoreTypeOK, Tip
  <1>2. /\ client' \in [Client -> ClientState] /\ \A d \in Client : ClientOK(d, client'[d])
        /\ \A d \in Client \ {c} : client'[d] = client[d]
    BY DEF PubInv, Update, ClientOK
  <1>3. ASSUME NEW s \in Slot, caller[s] # None
        PROVE  client'[caller[s]] = client[caller[s]]
    BY <1>2, <1>3 DEF PubInv
  <1> QED BY <1>1, <1>2, <1>3 DEF PubInv

(* A publisher sends a request and waits for its answer. *)
LEMMA SendMoves ==
    ASSUME PubInv, NEW c \in Client, ~ Waiting(client[c]), NEW st, ClientOK(c, st), Waiting(st),
           NEW q \in Sent, Serves(Begin(q), st), Send(c, q, st)
    PROVE  /\ PubInv'
           /\ \E s \in Slot : /\ handler[s] = Idle
                              /\ handler' = [handler EXCEPT ![s] = Begin(q)]
  <1>1. PICK s \in Free : Become(s, Begin(q)) /\ caller' = [caller EXCEPT ![s] = c]
    BY DEF Send
  <1>2. s \in Slot /\ handler[s].pc = "idle" /\ caller[s] = None
    BY DEF Free
  <1>3. Begin(q) \in Serving
    BY ServingBegin
  <1>4. /\ handler' \in [Slot -> {Idle} \cup Serving]
        /\ handler'[s] = Begin(q) /\ \A t \in Slot \ {s} : handler'[t] = handler[t]
        /\ handler' = [handler EXCEPT ![s] = Begin(q)]
    BY <1>1, <1>2, <1>3 DEF PubInv, Become
  <1>5. handler[s] = Idle
    <2>1. handler[s] \in {Idle} \cup Serving
      BY <1>2 DEF PubInv
    <2> QED BY <1>2, <2>1, ServingTypes
  <1>6. StoreInv' /\ UNCHANGED <<landed, acked>>
    BY DEF PubInv, Send, StoreInv, StoreTypeOK, Tip
  <1>7. Update(c, st)
    BY DEF Send
  <1>8. /\ client' \in [Client -> ClientState] /\ \A d \in Client : ClientOK(d, client'[d])
        /\ client'[c] = st /\ \A d \in Client \ {c} : client'[d] = client[d]
    BY <1>7 DEF PubInv, Update, ClientOK
  <1>9. /\ caller' \in [Slot -> Client \cup {None}] /\ caller'[s] = c
        /\ \A t \in Slot \ {s} : caller'[t] = caller[t] /\ caller[t] # c
    <2>1. \A t \in Slot : caller[t] # c
      BY PublishAssumption DEF PubInv
    <2> QED BY <1>1, <1>2, <2>1 DEF PubInv
  <1>10. \A t \in Slot : caller'[t] # None =>
            Waiting(client'[caller'[t]]) /\ Serves(handler'[t], client'[caller'[t]])
    BY <1>4, <1>8, <1>9 DEF PubInv
  <1>11. \A t, u \in Slot : caller'[t] # None /\ caller'[t] = caller'[u] => t = u
    BY <1>9 DEF PubInv
  <1> QED BY <1>2, <1>4, <1>5, <1>6, <1>8, <1>9, <1>10, <1>11 DEF PubInv

(* A publisher stops waiting, with an answer or without one. *)
LEMMA HearMoves ==
    ASSUME PubInv, NEW c \in Client, NEW s \in Slot, caller[s] = c,
           NEW st, ClientOK(c, st), ~ Waiting(st), Update(c, st),
           caller' = [caller EXCEPT ![s] = None],
           handler' = handler \/ Become(s, Idle),
           acked' \in SUBSET CommitId,
           UNCHANGED <<cas, receipts, commits, branches, private, landed>>
    PROVE  PubInv'
  <1>1. StoreInv'
    BY DEF PubInv, StoreInv, StoreTypeOK, Tip
  <1>2. /\ client' \in [Client -> ClientState] /\ \A d \in Client : ClientOK(d, client'[d])
        /\ \A d \in Client \ {c} : client'[d] = client[d]
    BY DEF PubInv, Update, ClientOK
  <1>3. /\ caller' \in [Slot -> Client \cup {None}] /\ caller'[s] = None
        /\ \A t \in Slot \ {s} : caller'[t] = caller[t] /\ caller[t] # c
    <2>1. \A t \in Slot \ {s} : caller[t] # c
      BY PublishAssumption DEF PubInv
    <2> QED BY <2>1 DEF PubInv
  <1>4. /\ handler' \in [Slot -> {Idle} \cup Serving]
        /\ \A t \in Slot \ {s} : handler'[t] = handler[t]
    BY DEF PubInv, Become
  <1>5. \A t \in Slot : caller'[t] # None =>
            Waiting(client'[caller'[t]]) /\ Serves(handler'[t], client'[caller'[t]])
    BY <1>2, <1>3, <1>4 DEF PubInv
  <1>6. \A t, u \in Slot : caller'[t] # None /\ caller'[t] = caller'[u] => t = u
    BY <1>3 DEF PubInv
  <1> QED BY <1>1, <1>2, <1>3, <1>4, <1>5, <1>6 DEF PubInv

(* The server goes on, heard or not. *)
LEMMA ServerMoves ==
    ASSUME PubInv, NEW s \in Slot, Serve(s) \/ Discard(s) \/ ServerFault(s)
    PROVE  PubInv'
  <1>1. PICK g \in {Idle} \cup Serving :
            /\ Become(s, g) /\ (g = Idle \/ g.req = handler[s].req)
            /\ Quiet(handler[s], g) \/ Lands(handler[s], g) \/ Resets(handler[s])
    BY ServerStep DEF PubInv
  <1>2. handler[s] \in Serving /\ StoreInv' /\ UNCHANGED <<client, caller, acked>>
    BY ServerStep DEF PubInv
  <1>3. landed' \in SUBSET CommitId
    <2>1. Root[TheRepo] \in CommitId /\ handler[s].req.id \in CommitId
      BY <1>2, ServingTypes, StoreAssumption, PublishAssumption
    <2> QED BY <1>1, <2>1 DEF Quiet, Lands, Resets, PubInv
  <1>4. /\ handler' \in [Slot -> {Idle} \cup Serving]
        /\ handler'[s] = g /\ \A t \in Slot \ {s} : handler'[t] = handler[t]
    BY <1>1 DEF PubInv, Become
  <1>5. ASSUME NEW st, Serves(handler[s], st) PROVE Serves(g, st)
    <2>1. handler[s] # Idle
      BY <1>2 DEF Serving, Idle, PointOf
    <2> QED BY <1>1, <1>5, <2>1 DEF Serves
  <1>6. \A t \in Slot : caller'[t] # None =>
            Waiting(client'[caller'[t]]) /\ Serves(handler'[t], client'[caller'[t]])
    BY <1>2, <1>4, <1>5 DEF PubInv
  <1> QED BY <1>2, <1>3, <1>4, <1>6 DEF PubInv

(* A publisher goes on to another point of the command. *)
LEMMA ClientGoes ==
    ASSUME NEW c, NEW st, ClientOK(c, st), NEW p \in ClientPC,
           p \notin {"resolve", "create", "creating", "resolve2", "failed"} => st.id # None
    PROVE  /\ ClientOK(c, [st EXCEPT !.pc = p])
           /\ [st EXCEPT !.pc = p].pc = p /\ [st EXCEPT !.pc = p].id = st.id
  BY DEF ClientOK, ClientState

(* A publisher that has resolved the branch has its commit and uploads. *)
LEMMA PlanMoves ==
    ASSUME PubInv, NEW c \in Client, Plan(c)
    PROVE  \E st : /\ ClientOK(c, st) /\ Update(c, st) /\ st.pc = "upload"
                   /\ st.id \in CommitOn(c, Tip)
  <1>1. PICK up \in Uploads(c, Tip), id \in CommitOn(c, Tip) :
            Update(c, [client[c] EXCEPT !.pc = "upload", !.head = Tip, !.upload = up, !.id = id])
    BY DEF Plan
  <1>2. Tip \in CommitId \cup {None}
    BY PublishAssumption DEF PubInv, StoreInv, StoreTypeOK, Tip
  <1>3. id \in CommitId /\ id # None
    BY StoreAssumption DEF CommitOn
  <1>4. up \in SUBSET Digest
    <2>1. Tree[c] \in SUBSET Digest
      BY PublishAssumption
    <2>2. up = Tree[c] \/ up \subseteq Tree[c]
      BY <1>1 DEF Uploads
    <2> QED BY <2>1, <2>2
  <1>5. client[c] \in ClientState
    BY DEF PubInv
  <1> DEFINE st == [client[c] EXCEPT !.pc = "upload", !.head = Tip, !.upload = up, !.id = id]
  <1>6. st \in ClientState /\ st.pc = "upload" /\ st.id = id /\ st.head = Tip
    BY <1>2, <1>3, <1>4, <1>5 DEF ClientState, ClientPC
  <1>7. Update(c, st)
    BY <1>1
  <1> HIDE DEF st
  <1>8. ClientOK(c, st)
    BY <1>1, <1>3, <1>6 DEF ClientOK
  <1> QED BY <1>1, <1>6, <1>7, <1>8

(* The messages of a publisher. *)
LEMMA MessageSent ==
    ASSUME NEW id \in CommitId
    PROVE  /\ Message("create_commit", id) \in Sent
           /\ [Message("create_repo", Root[TheRepo]) EXCEPT !.branch = Main] \in Sent
           /\ \A h \in CommitId \cup {None}, b \in BOOLEAN :
                 (h # None => h \in Identity[id].parents) =>
                    [Message("update_branch", id) EXCEPT !.head = h, !.absent = b] \in Sent
  <1>1. Root[TheRepo] \in CommitId /\ Identity[id] \in Doc /\ Identity[Root[TheRepo]] \in Doc
        /\ TheRepo \in Repo /\ Target \in Branch /\ Main \in Branch
    BY StoreAssumption, PublishAssumption
  <1>2. <<>> \in Seq(Branch \X CommitId)
    OBVIOUS
  <1>3. ASSUME NEW op \in {"create_commit", "create_repo", "update_branch"}, NEW i \in CommitId,
               NEW b \in Branch, NEW h \in CommitId \cup {None}, NEW a \in BOOLEAN, Identity[i] \in Doc
        PROVE  [op |-> op, repo |-> TheRepo, branch |-> b, id |-> i, doc |-> Identity[i], blobs |-> {},
                updates |-> <<>>, head |-> h, absent |-> a, private |-> None] \in RequestType
    BY <1>1, <1>2, <1>3 DEF RequestType, Op
  <1>4. Message("create_commit", id) \in Sent
    <2>1. Message("create_commit", id) \in RequestType
      BY <1>1, <1>3 DEF Message
    <2> QED BY <2>1 DEF Sent, Message
  <1>5. [Message("create_repo", Root[TheRepo]) EXCEPT !.branch = Main] \in Sent
    <2> DEFINE m == Message("create_repo", Root[TheRepo])
               q == [m EXCEPT !.branch = Main]
    <2>1. /\ m \in RequestType /\ m.op = "create_repo" /\ m.repo = TheRepo
          /\ m.id = Root[TheRepo] /\ m.doc = Identity[Root[TheRepo]]
      BY <1>1, <1>3 DEF Message
    <2> HIDE DEF m
    <2>2. /\ q \in RequestType /\ q.op = "create_repo" /\ q.repo = TheRepo
          /\ q.id = Root[TheRepo] /\ q.doc = Identity[Root[TheRepo]]
      BY <1>1, <2>1 DEF RequestType
    <2> HIDE DEF q
    <2>3. q \in Sent
      BY <2>2 DEF Sent
    <2> QED BY <2>3 DEF q, m
  <1>6. ASSUME NEW h \in CommitId \cup {None}, NEW b \in BOOLEAN,
               h # None => h \in Identity[id].parents
        PROVE  [Message("update_branch", id) EXCEPT !.head = h, !.absent = b] \in Sent
    <2> DEFINE m == Message("update_branch", id)
               q == [m EXCEPT !.head = h, !.absent = b]
    <2>1. /\ m \in RequestType /\ m.op = "update_branch" /\ m.repo = TheRepo
          /\ m.id = id /\ m.doc = Identity[id] /\ m.branch = Target
      BY <1>1, <1>3 DEF Message
    <2> HIDE DEF m
    <2>2. /\ q \in RequestType /\ q.op = "update_branch" /\ q.repo = TheRepo
          /\ q.id = id /\ q.doc = Identity[id] /\ q.branch = Target /\ q.head = h
      BY <2>1 DEF RequestType
    <2> HIDE DEF q
    <2>3. q \in Sent
      BY <1>6, <2>2 DEF Sent
    <2> QED BY <2>3 DEF q, m
  <1> QED BY <1>4, <1>5, <1>6

(* The kinds of steps a publisher takes, by what they change.  Before it    *)
(* asks for the update of the branch nothing it does can move the branch.   *)
Before == {"resolve", "create", "creating", "resolve2", "upload", "commit", "committing", "probe", "update"}

Planned(c, st) ==
    /\ client[c].pc \in {"resolve", "resolve2"} /\ st.pc = "upload"
    /\ st.id \in CommitOn(c, Tip) /\ UNCHANGED <<handler, acked>>

Again(c, st) == client[c].runs < Runs[c] /\ st.pc = "resolve" /\ UNCHANGED <<handler, acked>>

GoesOn(c, st) ==
    /\ client[c].pc \in Before /\ st.pc \in (Before \ {"resolve"}) \cup {"failed"}
    /\ st.id = client[c].id /\ UNCHANGED acked
    /\ st.pc \in {"create", "creating", "resolve2"} =>
          client[c].pc \in {"create", "creating"} \/ (client[c].pc = "resolve" /\ Tip = None)
    /\ \/ UNCHANGED handler
       \/ \E s \in Slot : Become(s, Idle)
       \/ \E s \in Slot, q \in Sent :
             /\ q.op # "update_branch" /\ (q.op = "create_repo" => client[c].pc = "create")
             /\ Become(s, Begin(q))

Asks(c, st) ==
    /\ client[c].pc = "update" /\ st.pc = "updating" /\ st.id = client[c].id /\ UNCHANGED acked
    /\ \E s \in Slot, q \in Sent : q.op = "update_branch" /\ q.id = st.id /\ Become(s, Begin(q))

Leaves(c, st) ==
    client[c].pc = "updating" /\ st.pc = "unknown" /\ st.id = client[c].id /\ UNCHANGED <<handler, acked>>

IsTold(c, st) ==
    /\ client[c].pc = "updating" /\ st.id = client[c].id
    /\ \E s \in Slot :
          /\ handler[s] \in Serving /\ handler[s].pc = "reply"
          /\ handler[s].req.op = "update_branch" /\ handler[s].req.id = client[c].id
          /\ Become(s, Idle)
          /\ st.pc \in {"done", "failed"} \/ (st.pc = "conflict" /\ handler[s].status = 409)
          /\ acked' = IF Succeeded(s) THEN acked \cup {client[c].id} ELSE acked

(* Every step of a publisher is of one of these kinds, and keeps PubInv. *)
LEMMA ClientKinds ==
    ASSUME PubInv, NEW c \in Client, ClientStep(c) \/ ClientFault(c)
    PROVE  /\ PubInv' /\ UNCHANGED <<branches, landed>>
           /\ \E st : /\ ClientOK(c, st) /\ Update(c, st)
                      /\ \/ Planned(c, st) \/ Again(c, st) \/ GoesOn(c, st)
                         \/ Asks(c, st) \/ Leaves(c, st) \/ IsTold(c, st)
  <1> DEFINE k == client[c]
             Kinds(st) == \/ Planned(c, st) \/ Again(c, st) \/ GoesOn(c, st)
                          \/ Asks(c, st) \/ Leaves(c, st) \/ IsTold(c, st)
             Goal == /\ PubInv' /\ UNCHANGED <<branches, landed>>
                     /\ \E st : ClientOK(c, st) /\ Update(c, st) /\ Kinds(st)
  <1>1. /\ k \in ClientState /\ ClientOK(c, k) /\ cas \in SUBSET Digest /\ receipts \in SUBSET Digest
        /\ acked \in SUBSET CommitId
    BY DEF PubInv, StoreInv, StoreTypeOK
  <1>2. k.id # None => k.id \in CommitId /\ k.id \in CommitOn(c, k.head)
    BY <1>1 DEF ClientOK, CommitOn
  <1>a. \A p \in ClientPC :
            (p \notin {"resolve", "create", "creating", "resolve2", "failed"} => k.id # None) =>
               /\ ClientOK(c, [k EXCEPT !.pc = p])
               /\ [k EXCEPT !.pc = p].pc = p /\ [k EXCEPT !.pc = p].id = k.id
    <2> HIDE DEF k
    <2> QED BY <1>1, ClientGoes
  <1> HIDE DEF k
  <1>3. ASSUME NEW st, ClientOK(c, st), Update(c, st), ~ Waiting(k), Local, Kinds(st)
        PROVE  Goal
    <2> HIDE DEF Kinds
    <2>1. PubInv'
      BY <1>1, <1>3, ClientMoves DEF Local, k
    <2> QED BY <1>3, <2>1 DEF Local
  <1>4. ASSUME NEW p \in (Before \ {"resolve"}) \cup {"failed"}, k.pc \in Before,
               p \notin {"create", "creating", "resolve2", "failed"} => k.id # None,
               p \in {"create", "creating", "resolve2"} =>
                  k.pc \in {"create", "creating"} \/ (k.pc = "resolve" /\ Tip = None),
               ~ Waiting(k), Local, Update(c, [k EXCEPT !.pc = p])
        PROVE  Goal
    <2> DEFINE st == [k EXCEPT !.pc = p]
    <2>1. ClientOK(c, st) /\ st.pc = p /\ st.id = k.id
      BY <1>a, <1>4 DEF Before, ClientPC
    <2> HIDE DEF st
    <2>2. GoesOn(c, st)
      BY <1>4, <2>1 DEF GoesOn, Local, k
    <2> QED BY <1>3, <1>4, <2>1, <2>2 DEF st
  <1>5. CASE Resolve(c)
    <2>1. k.pc \in {"resolve", "resolve2"} /\ Local /\ ~ Waiting(k) /\ k.pc \in Before
      BY <1>5 DEF Resolve, Waiting, Before, k
    <2>2. CASE k.pc = "resolve" /\ Tip = None /\ Update(c, [k EXCEPT !.pc = "create"])
      BY <1>4, <2>1, <2>2 DEF Before
    <2>3. CASE Plan(c)
      <3>1. PICK st : ClientOK(c, st) /\ Update(c, st) /\ st.pc = "upload" /\ st.id \in CommitOn(c, Tip)
        BY <2>3, PlanMoves
      <3>2. Planned(c, st)
        BY <2>1, <3>1 DEF Planned, Local, k
      <3> QED BY <1>3, <2>1, <3>1, <3>2
    <2> QED BY <1>5, <2>2, <2>3 DEF Resolve, k
  <1>6. CASE Upload(c)
    <2>1. /\ k.pc = "upload" /\ ~ Waiting(k)
          /\ UNCHANGED <<commits, branches, private, handler, caller, landed, acked>>
      BY <1>6 DEF Upload, Waiting, k
    <2>2. PICK d \in k.upload :
            /\ cas' = cas \cup {d}
            /\ receipts' = IF Backend = "datamesh" THEN receipts \cup {d} ELSE receipts
            /\ Update(c, [k EXCEPT !.upload = @ \ {d}])
      BY <1>6 DEF Upload, k
    <2> DEFINE st == [k EXCEPT !.upload = @ \ {d}]
    <2>3. k.upload \in SUBSET Digest
      BY <1>1 DEF ClientState
    <2>4. st \in ClientState /\ st.pc = k.pc /\ st.id = k.id /\ st.head = k.head
      BY <1>1, <2>3 DEF ClientState
    <2>5. Update(c, st)
      BY <2>2
    <2> HIDE DEF st
    <2>6. ClientOK(c, st)
      BY <1>1, <2>4 DEF ClientOK
    <2>7. cas' \in SUBSET Digest /\ receipts' \in SUBSET Digest
      BY <1>1, <2>2, <2>3
    <2>8. PubInv'
      BY <2>1, <2>5, <2>6, <2>7, ClientMoves DEF k
    <2>9. GoesOn(c, st)
      BY <2>1, <2>4 DEF GoesOn, Before, k
    <2> QED BY <2>1, <2>5, <2>6, <2>8, <2>9
  <1>7. CASE Uploaded(c)
    <2> DEFINE st == [k EXCEPT !.pc = "commit", !.attempt = 0]
    <2>1. k.pc = "upload" /\ ~ Waiting(k) /\ Local /\ Update(c, st)
      BY <1>7 DEF Uploaded, Waiting, k
    <2>2. st \in ClientState /\ st.pc = "commit" /\ st.id = k.id /\ st.head = k.head
      BY <1>1 DEF ClientState, ClientPC
    <2> HIDE DEF st
    <2>3. ClientOK(c, st)
      BY <1>1, <2>1, <2>2 DEF ClientOK
    <2>4. GoesOn(c, st)
      BY <2>1, <2>2 DEF GoesOn, Before, Local, k
    <2> QED BY <1>3, <2>1, <2>3, <2>4
  <1>8. CASE Probe(c)
    <2>1. k.pc = "probe" /\ ~ Waiting(k) /\ Local /\ k.id # None
      BY <1>1, <1>8 DEF Probe, Waiting, ClientOK, k
    <2>2. \E p \in {"update", "commit", "failed"} : Update(c, [k EXCEPT !.pc = p])
      BY <1>8 DEF Probe, k
    <2> QED BY <1>4, <2>1, <2>2 DEF Before
  <1>9. CASE Abort(c)
    <2>1. k.pc \in Before /\ ~ Waiting(k) /\ Local /\ Update(c, [k EXCEPT !.pc = "failed"])
      BY <1>9 DEF Abort, Waiting, Before, k
    <2> QED BY <1>4, <2>1 DEF Before
  <1>10. CASE Rerun(c)
    <2> DEFINE st == [Fresh EXCEPT !.runs = k.runs + 1]
    <2>1. k.pc \in {"done", "conflict", "failed", "unknown"} /\ k.runs < Runs[c] /\ Local /\ Update(c, st)
      BY <1>10 DEF Rerun, k
    <2>2. Fresh \in ClientState /\ Fresh.pc = "resolve" /\ Fresh.id = None
      BY DEF Fresh, ClientState, ClientPC
    <2>3. k.runs + 1 \in Nat
      BY <1>1 DEF ClientState
    <2>4. st \in ClientState /\ st.pc = "resolve" /\ st.id = None
      <3> HIDE DEF Fresh
      <3> QED BY <2>2, <2>3 DEF ClientState
    <2> HIDE DEF st
    <2>5. ClientOK(c, st)
      BY <2>4 DEF ClientOK
    <2>6. Again(c, st) /\ ~ Waiting(k)
      BY <2>1, <2>4 DEF Again, Local, Waiting, k
    <2> QED BY <1>3, <2>1, <2>5, <2>6
  <1>11. ASSUME NEW st, ClientOK(c, st), NEW q \in Sent, Send(c, q, st), ~ Waiting(k), Waiting(st),
                Serves(Begin(q), st), Kinds(st)
         PROVE  Goal
    <2> HIDE DEF Kinds
    <2>1. PubInv'
      BY <1>11, SendMoves DEF k
    <2> QED BY <1>11, <2>1 DEF Send
  <1>12. CASE SendCreate(c)
    <2> DEFINE q == [Message("create_repo", Root[TheRepo]) EXCEPT !.branch = Main]
               st == [k EXCEPT !.pc = "creating"]
    <2>1. k.pc = "create" /\ ~ Waiting(k) /\ Send(c, q, st)
      BY <1>12 DEF SendCreate, Waiting, k
    <2>2. ClientOK(c, st) /\ st.pc = "creating" /\ st.id = k.id
      BY <1>a DEF ClientPC
    <2>3. q \in Sent
      BY MessageSent, StoreAssumption, PublishAssumption
    <2>4. q.op = "create_repo"
      BY DEF Message
    <2> HIDE DEF q, st
    <2>5. Serves(Begin(q), st) /\ Waiting(st)
      BY <2>2, <2>3, <2>4, ServingBegin DEF Serves, Waiting
    <2>6. GoesOn(c, st)
      BY <2>1, <2>2, <2>3, <2>4 DEF GoesOn, Before, Send, Free, k
    <2> QED BY <1>11, <2>1, <2>2, <2>3, <2>5, <2>6
  <1>13. CASE SendCommit(c)
    <2> DEFINE q == Message("create_commit", k.id)
               st == [k EXCEPT !.pc = "committing", !.attempt = @ + 1]
    <2>1. k.pc = "commit" /\ ~ Waiting(k) /\ Send(c, q, st)
      BY <1>13 DEF SendCommit, Waiting, k
    <2>2. st \in ClientState /\ st.pc = "committing" /\ st.id = k.id /\ st.head = k.head
      <3> DEFINE n == k.attempt + 1
      <3>1. n \in Nat
        BY <1>1 DEF ClientState
      <3>2. st = [k EXCEPT !.pc = "committing", !.attempt = n]
        OBVIOUS
      <3> HIDE DEF n
      <3> QED BY <1>1, <3>1, <3>2 DEF ClientState, ClientPC
    <2>3. k.id # None
      BY <1>1, <2>1 DEF ClientOK
    <2>4. q \in Sent
      BY <1>2, <2>3, MessageSent
    <2>5. q.op = "create_commit"
      BY DEF Message
    <2> HIDE DEF q, st
    <2>6. ClientOK(c, st)
      BY <1>1, <2>2, <2>3 DEF ClientOK
    <2>7. Serves(Begin(q), st) /\ Waiting(st)
      BY <2>2, <2>4, <2>5, ServingBegin DEF Serves, Waiting
    <2>8. GoesOn(c, st)
      BY <2>1, <2>2, <2>4, <2>5 DEF GoesOn, Before, Send, Free, k
    <2> QED BY <1>11, <2>1, <2>4, <2>6, <2>7, <2>8
  <1>14. CASE SendUpdate(c)
    <2> DEFINE hd == IF c \in Forced THEN None ELSE k.head
               ab == c \notin Forced /\ k.head = None
               q == [Message("update_branch", k.id) EXCEPT !.head = hd, !.absent = ab]
               st == [k EXCEPT !.pc = "updating"]
    <2>1. k.pc = "update" /\ ~ Waiting(k) /\ Send(c, q, st)
      <3>1. k.pc = "update"
        BY <1>14 DEF SendUpdate, k
      <3>2. Send(c, q, st)
        BY <1>14 DEF SendUpdate, k
      <3> QED BY <3>1, <3>2 DEF Waiting
    <2>2. k.id # None
      BY <1>1, <2>1 DEF ClientOK
    <2>3. ClientOK(c, st) /\ st.pc = "updating" /\ st.id = k.id
      BY <1>a, <2>2 DEF ClientPC
    <2>4. hd \in CommitId \cup {None} /\ ab \in BOOLEAN /\ (hd # None => hd \in Identity[k.id].parents)
      <3>1. k.head \in CommitId \cup {None}
        BY <1>1 DEF ClientState
      <3>2. Identity[k.id].parents = {k.head} \ {None}
        BY <1>2, <2>2 DEF CommitOn
      <3> QED BY <3>1, <3>2
    <2> HIDE DEF hd, ab
    <2>5. q \in Sent
      BY <1>2, <2>2, <2>4, MessageSent
    <2>6. q.op = "update_branch" /\ q.id = k.id
      BY DEF Message
    <2> HIDE DEF q, st
    <2>7. Serves(Begin(q), st) /\ Waiting(st)
      BY <2>3, <2>5, <2>6, ServingBegin DEF Serves, Waiting
    <2>8. Asks(c, st)
      BY <2>1, <2>3, <2>5, <2>6 DEF Asks, Send, Free, k
    <2> QED BY <1>11, <2>1, <2>3, <2>5, <2>7, <2>8
  <1>15. ASSUME NEW s \in Slot, caller[s] = c, NEW p \in {"resolve2", "failed", "update", "probe"},
                NEW r \in BOOLEAN, k.pc \in {"creating", "committing"},
                k.pc = "creating" => p \in {"resolve2", "failed"},
                k.pc = "committing" => p \in {"update", "probe"},
                NEW st, st = [k EXCEPT !.pc = p] \/ st = [k EXCEPT !.pc = p, !.retry = r], Update(c, st),
                caller' = [caller EXCEPT ![s] = None], handler' = handler \/ Become(s, Idle),
                UNCHANGED <<cas, receipts, commits, branches, private, landed, acked>>
         PROVE  Goal
    <2>1. st \in ClientState /\ st.pc = p /\ st.id = k.id /\ st.head = k.head
      BY <1>1, <1>15 DEF ClientState, ClientPC
    <2>2. p \notin {"resolve2", "failed"} => k.id # None
      BY <1>1, <1>15 DEF ClientOK
    <2>3. ClientOK(c, st) /\ ~ Waiting(st)
      BY <1>1, <2>1, <2>2 DEF ClientOK, Waiting
    <2>4. PubInv'
      BY <1>1, <1>15, <2>3, HearMoves
    <2>5. GoesOn(c, st)
      BY <1>15, <2>1 DEF GoesOn, Before, k
    <2> QED BY <1>15, <2>3, <2>4, <2>5
  <1>16. ASSUME NEW s \in Slot, ReceiveCreate(c, s)
         PROVE  Goal
    <2> DEFINE p == IF Succeeded(s) THEN "resolve2" ELSE "failed"
               st == [k EXCEPT !.pc = p]
    <2>1. p \in {"resolve2", "failed"}
      OBVIOUS
    <2>2. /\ k.pc = "creating" /\ caller[s] = c /\ Update(c, st) /\ Become(s, Idle)
          /\ caller' = [caller EXCEPT ![s] = None]
          /\ UNCHANGED <<cas, receipts, commits, branches, private, landed, acked>>
      BY <1>16 DEF ReceiveCreate, Receive, k
    <2> HIDE DEF p, Goal
    <2> QED BY <1>15, <2>1, <2>2
  <1>17. ASSUME NEW s \in Slot, ReceiveCommit(c, s)
         PROVE  Goal
    <2> DEFINE p == IF Succeeded(s) THEN "update" ELSE "probe"
               st == [k EXCEPT !.pc = p, !.retry = FALSE]
    <2>1. p \in {"update", "probe"}
      OBVIOUS
    <2>2. /\ k.pc = "committing" /\ caller[s] = c /\ Update(c, st) /\ Become(s, Idle)
          /\ caller' = [caller EXCEPT ![s] = None]
          /\ UNCHANGED <<cas, receipts, commits, branches, private, landed, acked>>
      BY <1>17 DEF ReceiveCommit, Receive, k
    <2> HIDE DEF p, Goal
    <2> QED BY <1>15, <2>1, <2>2
  <1>18. ASSUME NEW s \in Slot, ReceiveUpdate(c, s)
         PROVE  Goal
    <2> DEFINE p == CASE Succeeded(s)            -> "done"
                      [] handler[s].status = 409 -> "conflict"
                      [] OTHER                   -> "failed"
               st == [k EXCEPT !.pc = p]
    <2>1. p \in {"done", "failed"} \/ (p = "conflict" /\ handler[s].status = 409)
      OBVIOUS
    <2>2. /\ k.pc = "updating" /\ caller[s] = c /\ Update(c, st) /\ Become(s, Idle)
          /\ handler[s].pc = "reply" /\ caller' = [caller EXCEPT ![s] = None]
          /\ UNCHANGED <<cas, receipts, commits, branches, private, landed>>
          /\ acked' = IF Succeeded(s) THEN acked \cup {k.id} ELSE acked
      BY <1>18 DEF ReceiveUpdate, Receive, k
    <2> HIDE DEF p
    <2>3. k.id # None /\ k.id \in CommitId
      BY <1>1, <1>2, <2>2 DEF ClientOK
    <2>4. ClientOK(c, st) /\ st.pc = p /\ st.id = k.id
      BY <1>a, <2>1, <2>3 DEF ClientPC
    <2>5. handler[s] \in Serving /\ handler[s].req.op = "update_branch" /\ handler[s].req.id = k.id
      <3>1. c # None /\ Serves(handler[s], k)
        BY <2>2, PublishAssumption DEF PubInv, k
      <3>2. handler[s] # Idle
        BY <2>2 DEF Idle
      <3> QED BY <2>2, <3>1, <3>2 DEF Serves
    <2> HIDE DEF st
    <2>6. PubInv'
      <3>1. ~ Waiting(st) /\ acked' \in SUBSET CommitId
        BY <1>1, <2>1, <2>2, <2>3, <2>4 DEF Waiting
      <3> QED BY <2>2, <2>4, <3>1, HearMoves
    <2>7. IsTold(c, st)
      BY <2>1, <2>2, <2>4, <2>5 DEF IsTold, k
    <2> QED BY <2>2, <2>4, <2>6, <2>7
  <1>19. ASSUME NEW s \in Slot, GiveUp(c, s)
         PROVE  Goal
    <2>1. /\ caller[s] = c /\ caller' = [caller EXCEPT ![s] = None]
          /\ UNCHANGED <<cas, receipts, commits, branches, private, handler, landed, acked>>
      BY <1>19 DEF GiveUp
    <2>2. CASE k.pc = "creating" /\ Update(c, [k EXCEPT !.pc = "failed"])
      <3> HIDE DEF Goal
      <3> QED BY <1>15, <2>1, <2>2
    <2>3. CASE k.pc = "committing" /\ \E r \in BOOLEAN : Update(c, [k EXCEPT !.pc = "probe", !.retry = r])
      <3> HIDE DEF Goal
      <3> QED BY <1>15, <2>1, <2>3
    <2>4. CASE k.pc = "updating" /\ Update(c, [k EXCEPT !.pc = "unknown"])
      <3> DEFINE st == [k EXCEPT !.pc = "unknown"]
      <3>1. k.id # None
        BY <1>1, <2>4 DEF ClientOK
      <3>2. ClientOK(c, st) /\ st.pc = "unknown" /\ st.id = k.id
        BY <1>a, <3>1 DEF ClientPC
      <3> HIDE DEF st
      <3>3. PubInv'
        <4>1. ~ Waiting(st)
          BY <3>2 DEF Waiting
        <4> QED BY <1>1, <2>1, <2>4, <3>2, <4>1, HearMoves DEF st
      <3>4. Leaves(c, st)
        BY <2>1, <2>4, <3>2 DEF Leaves, k
      <3> QED BY <2>1, <2>4, <3>2, <3>3, <3>4 DEF st
    <2> QED BY <1>19, <2>2, <2>3, <2>4 DEF GiveUp, k
  <1> QED BY <1>5, <1>6, <1>7, <1>8, <1>9, <1>10, <1>12, <1>13, <1>14, <1>16, <1>17, <1>18, <1>19
      DEF ClientStep, ClientFault

-----------------------------------------------------------------------------
(* Nothing published yet. *)
LEMMA PubStart ==
    ASSUME PublishInit
    PROVE  PubInv /\ acked = {} /\ landed = {Tip} \ {None} /\ handler = [s \in Slot |-> Idle]
           /\ client = [c \in Client |-> Fresh] /\ (Tip # None => Created /\ Tip = Root[TheRepo])
           /\ (Target = Main /\ Created => Tip = Root[TheRepo])
  <1>1. Tip = IF Created /\ Target = Main THEN Root[TheRepo] ELSE None
    BY PublishAssumption DEF PublishInit, Tip
  <1>2. landed = {Tip} \ {None} /\ Root[TheRepo] \in CommitId /\ None \notin CommitId
    BY StoreAssumption, PublishAssumption DEF PublishInit, Tip
  <1>3. StoreInv
    <2>1. commits \in [Repo -> [CommitId -> Doc \cup {None}]]
      BY StoreAssumption DEF PublishInit
    <2>2. branches \in [Repo -> [Branch -> CommitId \cup {None}]]
      BY StoreAssumption DEF PublishInit
    <2>3. private \in [Repo -> BOOLEAN \cup {None}] /\ cas = {} /\ receipts = {}
      BY DEF PublishInit
    <2> QED BY <1>2, <2>1, <2>2, <2>3 DEF StoreInv, StoreTypeOK
  <1>4. Fresh \in ClientState /\ Fresh.pc = "resolve" /\ Fresh.id = None
    BY DEF Fresh, ClientState, ClientPC
  <1>5. /\ client = [c \in Client |-> Fresh] /\ caller = [s \in Slot |-> None]
        /\ handler = [s \in Slot |-> Idle] /\ acked = {}
    BY DEF PublishInit
  <1> HIDE DEF Fresh, Idle
  <1>6. \A c \in Client : ClientOK(c, client[c])
    BY <1>4, <1>5 DEF ClientOK
  <1> QED BY <1>1, <1>2, <1>3, <1>4, <1>5, <1>6 DEF PubInv

(* Every step keeps publishers and handlers together. *)
LEMMA PubStep ==
    ASSUME PubInv, [PublishNext]_pvars
    PROVE  PubInv'
  <1>1. CASE UNCHANGED pvars
    BY <1>1 DEF pvars, PubInv, StoreInv, StoreTypeOK, Tip
  <1>2. CASE \E c \in Client : ClientStep(c) \/ ClientFault(c)
    BY <1>2, ClientKinds
  <1>3. CASE \E s \in Slot : Serve(s) \/ Discard(s) \/ ServerFault(s)
    BY <1>3, ServerMoves
  <1> QED BY <1>1, <1>2, <1>3 DEF PublishNext

-----------------------------------------------------------------------------
(* The history of the branch.  A reply of success stands for a commit that  *)
(* has landed, and nobody can reset a branch main that exists.              *)
Told(h) ==
    h \in Serving /\ h.req.op = "update_branch" /\ h.pc = "reply" /\ h.status \in 200 .. 299

NoReset ==
    Target = Main =>
        /\ Tip # None
        /\ \A s \in Slot : handler[s] \in Serving => handler[s].req.op # "create_repo"
        /\ \A c \in Client : client[c].pc \notin {"create", "creating", "resolve2"}

LogInv ==
    /\ PubInv
    /\ Tip = None => landed = {}
    /\ acked \subseteq landed
    /\ \A x \in landed : x = Tip \/ \E y \in landed : x \in Identity[y].parents
    /\ \A s \in Slot : Told(handler[s]) => handler[s].req.id \in landed
    /\ NoReset

(* The steps of the server, seen from the branch: it advances to a child or *)
(* stays, and a reply of success comes after the branch has moved.          *)
LEMMA LogServer ==
    ASSUME LogInv, RequireCas, Backend # "datamesh",
           NEW s \in Slot, Serve(s) \/ Discard(s) \/ ServerFault(s)
    PROVE  LogInv' /\ ((\E id \in CommitId : Log!Advance(id)) \/ UNCHANGED <<Tip, landed, acked>>)
  <1>1. PubInv
    BY DEF LogInv
  <1>2. PICK g \in {Idle} \cup Serving :
            /\ Become(s, g) /\ (g = Idle \/ g.req = handler[s].req)
            /\ Quiet(handler[s], g) \/ Lands(handler[s], g) \/ Resets(handler[s])
    BY <1>1, ServerStep DEF PubInv
  <1> DEFINE h == handler[s]
  <1>3. h \in Serving /\ UNCHANGED <<client, caller, acked>>
    BY <1>1, ServerStep DEF PubInv
  <1>4. PubInv'
    BY <1>1, ServerMoves
  <1>5. /\ handler' \in [Slot -> {Idle} \cup Serving]
        /\ handler'[s] = g /\ \A t \in Slot \ {s} : handler'[t] = handler[t]
    BY <1>1, <1>2 DEF PubInv, Become
  <1>6. Idle \notin Serving
    BY DEF Serving, Idle, PointOf
  <1> HIDE DEF h, Idle
  <1>7. CASE Lands(h, g)
    <2>1. h.pc # "set"
      BY <1>3 DEF Serving, Split
    <2>2. /\ h.req.op = "update_branch" /\ Tip = h.req.head /\ Tip' = h.req.id
          /\ landed' = landed \cup {h.req.id} /\ g.req = h.req
      BY <1>2, <1>6, <1>7, <2>1 DEF Lands, h
    <2>3. h.req.id \in CommitId /\ h.req.id # None /\ (Tip # None => Tip \in Identity[h.req.id].parents)
      BY <1>3, <2>2, ServingTypes, StoreAssumption DEF Sent
    <2>4. Log!Advance(h.req.id)
      BY <1>3, <2>2, <2>3 DEF Log!Advance
    <2>5. \A x \in landed' : x = Tip' \/ \E y \in landed' : x \in Identity[y].parents
      BY <2>2, <2>3 DEF LogInv
    <2>6. \A t \in Slot : Told(handler'[t]) => handler'[t].req.id \in landed'
      BY <1>5, <2>2 DEF LogInv
    <2>7. NoReset'
      BY <1>3, <1>5, <2>2, <2>3 DEF LogInv, NoReset
    <2>8. LogInv'
      BY <1>3, <1>4, <2>2, <2>3, <2>5, <2>6, <2>7 DEF LogInv
    <2> QED BY <2>3, <2>4, <2>8
  <1>8. CASE ~ Lands(h, g)
    <2>1. Tip' = Tip /\ landed' = landed
      BY <1>2, <1>3, <1>8 DEF Quiet, Resets, LogInv, NoReset, h
    <2>2. ~ Told(g)
      BY <1>2, <1>3, <1>6, <1>8 DEF Told, Quiet, Resets, h
    <2>3. \A t \in Slot : Told(handler'[t]) => handler'[t].req.id \in landed'
      BY <1>5, <2>1, <2>2 DEF LogInv
    <2>4. NoReset'
      BY <1>2, <1>3, <1>5, <1>6, <2>1 DEF LogInv, NoReset, h
    <2>5. LogInv'
      BY <1>3, <1>4, <2>1, <2>3, <2>4 DEF LogInv
    <2> QED BY <1>3, <2>1, <2>5
  <1> QED BY <1>7, <1>8

(* The steps of a publisher: the branch stays, and success is reported only *)
(* of a commit that has landed.                                             *)
LEMMA LogClient ==
    ASSUME LogInv, NEW c \in Client, ClientStep(c) \/ ClientFault(c)
    PROVE  LogInv' /\ ((\E id \in CommitId : Log!Acknowledge(id)) \/ UNCHANGED <<Tip, landed, acked>>)
  <1>1. PubInv
    BY DEF LogInv
  <1>2. PICK st : /\ ClientOK(c, st) /\ Update(c, st)
                  /\ \/ Planned(c, st) \/ Again(c, st) \/ GoesOn(c, st)
                     \/ Asks(c, st) \/ Leaves(c, st) \/ IsTold(c, st)
    BY <1>1, ClientKinds
  <1>3. PubInv' /\ UNCHANGED <<branches, landed>>
    BY <1>1, ClientKinds
  <1>4. Tip' = Tip
    BY <1>3 DEF Tip
  <1>5. client'[c] = st /\ \A d \in Client \ {c} : client'[d] = client[d]
    BY <1>1, <1>2 DEF PubInv, Update
  <1>6. Idle \notin Serving
    BY DEF Serving, Idle, PointOf
  <1> HIDE DEF Idle
  <1>7. ASSUME NEW s \in Slot, NEW q \in Sent, Become(s, Begin(q))
        PROVE  /\ handler'[s] = Begin(q) /\ ~ Told(Begin(q)) /\ Begin(q).req = q
               /\ \A t \in Slot \ {s} : handler'[t] = handler[t]
    <2>1. handler'[s] = Begin(q) /\ \A t \in Slot \ {s} : handler'[t] = handler[t]
      BY <1>1, <1>7 DEF PubInv, Become
    <2>2. Begin(q).req = q /\ (q.op = "update_branch" => Begin(q).pc = "check")
      BY <1>7, ServingBegin
    <2> QED BY <2>1, <2>2 DEF Told
  <1>8. ASSUME NEW s \in Slot, Become(s, Idle)
        PROVE  handler'[s] = Idle /\ ~ Told(Idle) /\ \A t \in Slot \ {s} : handler'[t] = handler[t]
    <2>1. handler'[s] = Idle /\ \A t \in Slot \ {s} : handler'[t] = handler[t]
      BY <1>1, <1>8 DEF PubInv, Become
    <2> QED BY <1>6, <2>1 DEF Told
  <1>9. \A s \in Slot : \/ handler'[s] = handler[s] \/ handler'[s] = Idle
                        \/ \E q \in Sent : /\ handler'[s] = Begin(q) /\ ~ Told(Begin(q)) /\ Begin(q).req = q
                                           /\ q.op = "create_repo" => client[c].pc = "create"
    <2>1. CASE UNCHANGED handler
      BY <2>1
    <2>2. CASE \E s \in Slot : Become(s, Idle)
      BY <1>8, <2>2
    <2>3. CASE \E s \in Slot, q \in Sent : /\ (q.op = "create_repo" => client[c].pc = "create")
                                           /\ Become(s, Begin(q))
      BY <1>7, <2>3
    <2> QED BY <1>2, <2>1, <2>2, <2>3 DEF Planned, Again, GoesOn, Asks, Leaves, IsTold
  <1>10. \A s \in Slot : Told(handler'[s]) => handler'[s].req.id \in landed'
    BY <1>3, <1>6, <1>9 DEF LogInv, Told
  <1>11. NoReset'
    <2> SUFFICES ASSUME Target = Main PROVE NoReset'
      BY DEF NoReset
    <2>1. Tip # None /\ client[c].pc \notin {"create", "creating", "resolve2"}
      BY DEF LogInv, NoReset
    <2>2. st.pc \notin {"create", "creating", "resolve2"}
      BY <1>2, <2>1 DEF Planned, Again, GoesOn, Asks, Leaves, IsTold
    <2>3. \A s \in Slot : handler'[s] \in Serving => handler'[s].req.op # "create_repo"
      BY <1>6, <1>9, <2>1 DEF LogInv, NoReset
    <2> QED BY <1>4, <1>5, <2>1, <2>2, <2>3 DEF LogInv, NoReset
  <1>12. acked' = acked \/ \E id \in CommitId : id \in landed /\ acked' = acked \cup {id}
    <2>1. CASE IsTold(c, st)
      <3>1. PICK s \in Slot :
              /\ handler[s] \in Serving /\ handler[s].pc = "reply"
              /\ handler[s].req.op = "update_branch" /\ handler[s].req.id = client[c].id
              /\ acked' = IF Succeeded(s) THEN acked \cup {client[c].id} ELSE acked
        BY <2>1 DEF IsTold
      <3>2. Succeeded(s) => client[c].id \in landed
        BY <3>1 DEF Succeeded, Told, LogInv
      <3> QED BY <1>1, <3>1, <3>2 DEF PubInv
    <2> QED BY <1>2, <2>1 DEF Planned, Again, GoesOn, Asks, Leaves
  <1>13. LogInv'
    BY <1>3, <1>4, <1>10, <1>11, <1>12 DEF LogInv
  <1>14. (\E id \in CommitId : Log!Acknowledge(id)) \/ UNCHANGED <<Tip, landed, acked>>
    BY <1>3, <1>4, <1>12 DEF Log!Acknowledge
  <1> QED BY <1>13, <1>14

(* Every step advances the branch, acknowledges what has landed, or does    *)
(* neither.                                                                 *)
LEMMA LogStep ==
    ASSUME LogInv, RequireCas, Backend # "datamesh", [PublishNext]_pvars
    PROVE  LogInv' /\ [Log!LogNext]_(Log!logvars)
  <1>1. CASE UNCHANGED pvars
    <2>1. PubInv'
      BY <1>1, PubStep DEF LogInv
    <2>2. Tip' = Tip /\ UNCHANGED <<landed, acked, handler, client>>
      BY <1>1 DEF pvars, Tip
    <2>3. NoReset'
      BY <2>2 DEF LogInv, NoReset
    <2> QED BY <2>1, <2>2, <2>3 DEF LogInv, Log!logvars
  <1>2. CASE \E c \in Client : ClientStep(c) \/ ClientFault(c)
    BY <1>2, LogClient DEF Log!LogNext, Log!logvars
  <1>3. CASE \E s \in Slot : Serve(s) \/ Discard(s) \/ ServerFault(s)
    BY <1>3, LogServer DEF Log!LogNext, Log!logvars
  <1> QED BY <1>1, <1>2, <1>3 DEF PublishNext

(* At the start the branch is where create_repo left it. *)
LEMMA LogStart ==
    ASSUME PublishInit, Target # Main \/ Created
    PROVE  LogInv /\ Log!LogInit
  <1>1. /\ PubInv /\ acked = {} /\ landed = {Tip} \ {None} /\ handler = [s \in Slot |-> Idle]
        /\ client = [c \in Client |-> Fresh] /\ (Target = Main => Tip = Root[TheRepo])
    BY PubStart
  <1>2. Idle \notin Serving
    BY DEF Serving, Idle, PointOf
  <1>3. Fresh.pc = "resolve" /\ Root[TheRepo] # None
    BY StoreAssumption, PublishAssumption DEF Fresh
  <1> HIDE DEF Idle, Fresh
  <1>4. NoReset
    BY <1>1, <1>2, <1>3 DEF NoReset
  <1>5. \A s \in Slot : ~ Told(handler[s])
    BY <1>1, <1>2 DEF Told
  <1>6. Tip \in CommitId \cup {None}
    BY <1>1, PublishAssumption DEF PubInv, StoreInv, StoreTypeOK, Tip
  <1> QED BY <1>1, <1>4, <1>5, <1>6 DEF LogInv, Log!LogInit

(* Publishers against a store with a conditional branch write: the branch   *)
(* moves from a commit to its child, and success is only reported of a      *)
(* commit the branch has pointed to, whatever is lost, late or run again.   *)
(* On main this needs a repository that exists: the run                     *)
(* publish_create_race shows create_repo resetting main under a publisher.  *)
THEOREM PublishRefinesLog ==
    ASSUME RequireCas, Backend # "datamesh", Target # Main \/ Created
    PROVE  PublishSpec => LinearHistory
  <1>1. PublishInit => LogInv /\ Log!LogInit
    BY LogStart
  <1>2. LogInv /\ [PublishNext]_pvars => LogInv' /\ [Log!LogNext]_(Log!logvars)
    BY LogStep
  <1> QED BY <1>1, <1>2, PTL DEF PublishSpec, LinearHistory, Log!LogSpec

(* Under the same conditions an acknowledged publish is never lost: it is   *)
(* the head, or a child of it has been.                                     *)
THEOREM AcknowledgedNeverLost ==
    ASSUME RequireCas, Backend # "datamesh", Target # Main \/ Created
    PROVE  PublishSpec => []AckedNotLost
  <1>1. PublishInit => LogInv
    BY LogStart
  <1>2. LogInv /\ [PublishNext]_pvars => LogInv'
    BY LogStep
  <1>3. LogInv => AckedNotLost
    BY DEF LogInv, AckedNotLost
  <1> QED BY <1>1, <1>2, <1>3, PTL DEF PublishSpec

-----------------------------------------------------------------------------
(* What a publisher is told.  When every publisher runs the command once    *)
(* and no two commit the same tree under the same name, a commit belongs to *)
(* one publisher and is asked for once: while its handler can still refuse  *)
(* the update, or has refused it, the commit has not landed.                *)
Single == (\A c \in Client : Runs[c] = 0)
       /\ \A c, d \in Client : Tree[c] = Tree[d] /\ Name[c] = Name[d] => c = d

Updates(h) == h \in Serving /\ h.req.op = "update_branch"

Refusable(h) == Updates(h) /\ (h.pc # "reply" \/ h.status = 409)

TruthInv ==
    /\ PubInv
    /\ landed \subseteq {Root[TheRepo]} \cup {client[d].id : d \in Client}
    /\ \A c \in Client :
          /\ client[c].id \in landed => client[c].pc \in {"updating", "unknown", "done", "failed"}
          /\ client[c].pc \in {"resolve", "create", "creating", "resolve2"} => client[c].id = None
    /\ \A s \in Slot : Updates(handler[s]) =>
          \E c \in Client : handler[s].req.id = client[c].id /\ client[c].pc \in {"updating", "unknown"}
    /\ \A s \in Slot : Refusable(handler[s]) => handler[s].req.id \notin landed
    /\ \A s, t \in Slot : Updates(handler[s]) /\ Updates(handler[t])
                          /\ handler[s].req.id = handler[t].req.id => s = t

(* A commit of a publisher is not the root commit, nor another publisher's. *)
LEMMA OwnCommits ==
    ASSUME Single, NEW c \in Client, NEW st, ClientOK(c, st), st.id # None
    PROVE  /\ st.id # Root[TheRepo] /\ st.id \in CommitId
           /\ \A d \in Client : \A sd : ClientOK(d, sd) /\ sd.id = st.id => d = c
  <1>1. st.id \in CommitId /\ Identity[st.id].manifest = Tree[c] /\ Identity[st.id].meta = Name[c]
    BY DEF ClientOK, CommitOn
  <1>2. Identity[Root[TheRepo]].manifest = {} /\ Tree[c] # {}
    BY StoreAssumption, PublishAssumption
  <1>3. ASSUME NEW d \in Client, NEW sd, ClientOK(d, sd), sd.id = st.id
        PROVE  d = c
    <2>1. Identity[st.id].manifest = Tree[d] /\ Identity[st.id].meta = Name[d]
      BY <1>3 DEF ClientOK, CommitOn
    <2> QED BY <1>1, <2>1 DEF Single
  <1> QED BY <1>1, <1>2, <1>3

(* A step of the server keeps what publishers are told true. *)
LEMMA TruthServer ==
    ASSUME TruthInv, Single, NEW s \in Slot, Serve(s) \/ Discard(s) \/ ServerFault(s)
    PROVE  TruthInv'
  <1>1. PubInv
    BY DEF TruthInv
  <1>2. PICK g \in {Idle} \cup Serving :
            /\ Become(s, g) /\ (g = Idle \/ g.req = handler[s].req)
            /\ Quiet(handler[s], g) \/ Lands(handler[s], g) \/ Resets(handler[s])
    BY <1>1, ServerStep DEF PubInv
  <1> DEFINE h == handler[s]
  <1>3. h \in Serving /\ UNCHANGED <<client, caller, acked>>
    BY <1>1, ServerStep DEF PubInv
  <1>4. PubInv'
    BY <1>1, ServerMoves
  <1>5. handler'[s] = g /\ \A t \in Slot \ {s} : handler'[t] = handler[t]
    BY <1>1, <1>2 DEF PubInv, Become
  <1>6. Idle \notin Serving
    BY DEF Serving, Idle, PointOf
  <1> HIDE DEF h, Idle
  <1>7. Updates(g) => Updates(h) /\ g.req = h.req
    BY <1>2, <1>3, <1>6 DEF Updates, h
  <1>8. \A t \in Slot : Updates(handler'[t]) => Updates(handler[t]) /\ handler'[t].req = handler[t].req
    BY <1>5, <1>7 DEF h
  <1>9. \A t, u \in Slot : Updates(handler'[t]) /\ Updates(handler'[u])
                           /\ handler'[t].req.id = handler'[u].req.id => t = u
    BY <1>8 DEF TruthInv
  <1>10. \A t \in Slot : Updates(handler'[t]) =>
            \E c \in Client : handler'[t].req.id = client'[c].id /\ client'[c].pc \in {"updating", "unknown"}
    BY <1>3, <1>8 DEF TruthInv
  <1>11. \A c \in Client : ClientOK(c, client[c])
    BY <1>1 DEF PubInv
  <1>12. CASE Lands(h, g)
    <2>1. /\ Updates(h) /\ landed' = landed \cup {h.req.id} /\ ~ Refusable(g)
      BY <1>3, <1>12 DEF Lands, Updates, Refusable
    <2>2. PICK c \in Client : h.req.id = client[c].id /\ client[c].pc \in {"updating", "unknown"}
      BY <2>1 DEF TruthInv, h
    <2>3. client[c].id # None
      BY <1>11, <2>2 DEF ClientOK
    <2>4. \A d \in Client : client[d].id = h.req.id => d = c
      BY <1>11, <2>2, <2>3, OwnCommits
    <2>5. \A d \in Client : client[d].id \in landed' =>
              client[d].pc \in {"updating", "unknown", "done", "failed"}
      BY <2>1, <2>2, <2>4 DEF TruthInv
    <2>6. \A t \in Slot : Refusable(handler'[t]) => handler'[t].req.id \notin landed'
      <3> SUFFICES ASSUME NEW t \in Slot, Refusable(handler'[t]) PROVE handler'[t].req.id \notin landed'
        OBVIOUS
      <3>1. t # s /\ handler'[t] = handler[t]
        BY <1>5, <2>1
      <3>2. handler[t].req.id # h.req.id
        BY <2>1, <3>1 DEF TruthInv, Refusable, h
      <3> QED BY <2>1, <3>1, <3>2 DEF TruthInv
    <2>7. landed' \subseteq {Root[TheRepo]} \cup {client[d].id : d \in Client}
      BY <2>1, <2>2 DEF TruthInv
    <2> QED BY <1>3, <1>4, <1>9, <1>10, <2>5, <2>6, <2>7 DEF TruthInv
  <1>13. CASE ~ Lands(h, g)
    <2>1. landed' = landed \/ landed' = landed \cup {Root[TheRepo]}
      BY <1>2, <1>13 DEF Quiet, Resets, h
    <2>2. \A c \in Client : client[c].id # Root[TheRepo]
      <3>1. Root[TheRepo] # None
        BY StoreAssumption, PublishAssumption
      <3> QED BY <1>11, <3>1, OwnCommits
    <2>3. \A t \in Slot : Updates(handler'[t]) => handler'[t].req.id # Root[TheRepo]
      BY <1>3, <1>10, <2>2
    <2>4. Refusable(g) => Refusable(h)
      BY <1>2, <1>3, <1>7, <1>13 DEF Refusable, Updates, Quiet, Resets, h
    <2>5. \A t \in Slot : Refusable(handler'[t]) => handler'[t].req.id \notin landed
      BY <1>5, <1>8, <2>4 DEF TruthInv, Refusable, h
    <2>6. \A t \in Slot : Refusable(handler'[t]) => handler'[t].req.id \notin landed'
      BY <2>1, <2>3, <2>5 DEF Refusable
    <2>7. \A d \in Client : client[d].id \in landed' => client[d].id \in landed
      BY <2>1, <2>2
    <2>8. landed' \subseteq {Root[TheRepo]} \cup {client[d].id : d \in Client}
      BY <2>1 DEF TruthInv
    <2> QED BY <1>3, <1>4, <1>9, <1>10, <2>6, <2>7, <2>8 DEF TruthInv
  <1> QED BY <1>12, <1>13

(* A step of a publisher keeps it true as well: only one that is still to   *)
(* ask can plan a commit, and only one that has asked once can be refused.  *)
LEMMA TruthClient ==
    ASSUME TruthInv, Single, NEW c \in Client, ClientStep(c) \/ ClientFault(c)
    PROVE  TruthInv'
  <1>1. PubInv
    BY DEF TruthInv
  <1>2. PICK st : /\ ClientOK(c, st) /\ Update(c, st)
                  /\ \/ Planned(c, st) \/ Again(c, st) \/ GoesOn(c, st)
                     \/ Asks(c, st) \/ Leaves(c, st) \/ IsTold(c, st)
    BY <1>1, ClientKinds
  <1>3. PubInv' /\ landed' = landed
    BY <1>1, ClientKinds
  <1>4. client'[c] = st /\ \A d \in Client \ {c} : client'[d] = client[d]
    BY <1>1, <1>2 DEF PubInv, Update
  <1>5. Idle \notin Serving /\ None \notin landed
    <2>1. Idle \notin Serving
      BY DEF Serving, Idle, PointOf
    <2> QED BY <1>1, <2>1, StoreAssumption DEF PubInv
  <1> HIDE DEF Idle
  <1>6. \A d \in Client : ClientOK(d, client[d])
    BY <1>1 DEF PubInv
  <1>7. ~ Again(c, st)
    BY <1>6 DEF Again, Single, ClientOK, ClientState
  <1>8. ASSUME st.id \in landed => st.pc \in {"updating", "unknown", "done", "failed"},
               st.pc \in {"resolve", "create", "creating", "resolve2"} => st.id = None,
               client[c].id # None => st.id = client[c].id,
               \A s \in Slot : Updates(handler'[s]) =>
                  \E d \in Client : handler'[s].req.id = client'[d].id /\ client'[d].pc \in {"updating", "unknown"},
               \A s \in Slot : Refusable(handler'[s]) => handler'[s].req.id \notin landed,
               \A s, t \in Slot : Updates(handler'[s]) /\ Updates(handler'[t])
                                  /\ handler'[s].req.id = handler'[t].req.id => s = t
        PROVE  TruthInv'
    <2>1. landed' \subseteq {Root[TheRepo]} \cup {client'[d].id : d \in Client}
      <3> SUFFICES ASSUME NEW x \in landed, x # Root[TheRepo] PROVE \E d \in Client : x = client'[d].id
        BY <1>3
      <3>1. PICK d \in Client : x = client[d].id
        BY DEF TruthInv
      <3>2. d = c => x = client'[c].id
        BY <1>4, <1>5, <1>8, <3>1
      <3> QED BY <1>4, <3>1, <3>2
    <2>2. \A d \in Client :
            /\ client'[d].id \in landed' => client'[d].pc \in {"updating", "unknown", "done", "failed"}
            /\ client'[d].pc \in {"resolve", "create", "creating", "resolve2"} => client'[d].id = None
      BY <1>3, <1>4, <1>8 DEF TruthInv
    <2> QED BY <1>3, <1>8, <2>1, <2>2 DEF TruthInv
  <1>9. ASSUME client[c].pc \notin {"updating", "unknown"},
               \A s \in Slot : Updates(handler'[s]) => handler'[s] = handler[s]
        PROVE  /\ \A s \in Slot : Updates(handler'[s]) =>
                    \E d \in Client : handler'[s].req.id = client'[d].id /\ client'[d].pc \in {"updating", "unknown"}
               /\ \A s \in Slot : Refusable(handler'[s]) => handler'[s].req.id \notin landed
               /\ \A s, t \in Slot : Updates(handler'[s]) /\ Updates(handler'[t])
                                     /\ handler'[s].req.id = handler'[t].req.id => s = t
    <2>1. \A s \in Slot : Updates(handler'[s]) =>
              \E d \in Client \ {c} :
                  handler[s].req.id = client[d].id /\ client[d].pc \in {"updating", "unknown"}
      BY <1>9 DEF TruthInv
    <2>2. \A s \in Slot : Updates(handler'[s]) =>
              \E d \in Client : handler'[s].req.id = client'[d].id /\ client'[d].pc \in {"updating", "unknown"}
      BY <1>4, <1>9, <2>1
    <2> QED BY <1>9, <2>2 DEF TruthInv, Refusable
  <1>10. CASE Planned(c, st)
    <2>1. /\ client[c].pc \in {"resolve", "resolve2"} /\ client[c].id = None /\ handler' = handler
          /\ st.pc = "upload" /\ st.id # None
      BY <1>2, <1>10 DEF Planned, TruthInv, ClientOK
    <2>2. st.id \notin landed
      <3> SUFFICES ASSUME st.id \in landed PROVE FALSE
        OBVIOUS
      <3>1. st.id # Root[TheRepo] /\ \A d \in Client : \A sd : ClientOK(d, sd) /\ sd.id = st.id => d = c
        BY <1>2, <2>1, OwnCommits
      <3>2. PICK d \in Client : st.id = client[d].id
        BY <3>1 DEF TruthInv
      <3> QED BY <1>6, <2>1, <3>1, <3>2
    <2> QED BY <1>8, <1>9, <2>1, <2>2
  <1>11. CASE GoesOn(c, st)
    <2>1. /\ client[c].pc \in Before /\ st.pc \in (Before \ {"resolve"}) \cup {"failed"} /\ st.id = client[c].id
          /\ st.pc \in {"create", "creating", "resolve2"} => client[c].pc \in {"resolve", "create", "creating"}
      BY <1>11 DEF GoesOn
    <2>2. \A s \in Slot : Updates(handler'[s]) => handler'[s] = handler[s]
      <3>1. CASE \E s \in Slot : Become(s, Idle)
        <4>1. PICK s \in Slot : Become(s, Idle)
          BY <3>1
        <4>2. handler'[s] = Idle /\ \A t \in Slot \ {s} : handler'[t] = handler[t]
          BY <1>1, <4>1 DEF PubInv, Become
        <4> QED BY <1>5, <4>2 DEF Updates
      <3>2. CASE \E s \in Slot, q \in Sent : q.op # "update_branch" /\ Become(s, Begin(q))
        <4>1. PICK s \in Slot, q \in Sent : q.op # "update_branch" /\ Become(s, Begin(q))
          BY <3>2
        <4>2. handler'[s] = Begin(q) /\ \A t \in Slot \ {s} : handler'[t] = handler[t]
          BY <1>1, <4>1 DEF PubInv, Become
        <4>3. Begin(q).req = q
          BY ServingBegin
        <4> QED BY <4>1, <4>2, <4>3 DEF Updates
      <3> QED BY <1>11, <3>1, <3>2 DEF GoesOn
    <2>3. /\ client[c].id \notin landed
          /\ client[c].pc \in {"resolve", "create", "creating"} => client[c].id = None
      BY <2>1 DEF TruthInv, Before
    <2>4. client[c].pc \notin {"updating", "unknown"}
      BY <2>1 DEF Before
    <2> QED BY <1>8, <1>9, <2>1, <2>2, <2>3, <2>4 DEF Before
  <1>12. CASE Asks(c, st)
    <2>1. client[c].pc = "update" /\ st.pc = "updating" /\ st.id = client[c].id
      BY <1>12 DEF Asks
    <2>2. PICK s \in Slot, q \in Sent : q.op = "update_branch" /\ q.id = st.id /\ Become(s, Begin(q))
      BY <1>12 DEF Asks
    <2>3. handler'[s] = Begin(q) /\ \A t \in Slot \ {s} : handler'[t] = handler[t]
      BY <1>1, <2>2 DEF PubInv, Become
    <2>4. Begin(q).req = q /\ Begin(q) \in Serving
      BY ServingBegin
    <2>5. client[c].id \notin landed /\ client[c].id # None
      BY <1>6, <2>1 DEF TruthInv, ClientOK
    <2>6. \A t \in Slot : Updates(handler[t]) => handler[t].req.id # client[c].id
              /\ \E d \in Client \ {c} :
                    handler[t].req.id = client[d].id /\ client[d].pc \in {"updating", "unknown"}
      <3>1. \A d \in Client : client[d].id = client[c].id => d = c
        BY <1>6, <2>5, OwnCommits
      <3> QED BY <2>1, <3>1 DEF TruthInv
    <2>7. \A t \in Slot : Updates(handler'[t]) =>
              \E d \in Client : handler'[t].req.id = client'[d].id /\ client'[d].pc \in {"updating", "unknown"}
      BY <1>4, <2>1, <2>2, <2>3, <2>4, <2>6
    <2>8. \A t \in Slot : Refusable(handler'[t]) => handler'[t].req.id \notin landed
      BY <2>1, <2>2, <2>3, <2>4, <2>5 DEF TruthInv
    <2>9. \A t, u \in Slot : Updates(handler'[t]) /\ Updates(handler'[u])
                             /\ handler'[t].req.id = handler'[u].req.id => t = u
      BY <2>1, <2>2, <2>3, <2>4, <2>6 DEF TruthInv
    <2> QED BY <1>8, <2>1, <2>7, <2>8, <2>9
  <1>13. CASE Leaves(c, st)
    <2>1. client[c].pc = "updating" /\ st.pc = "unknown" /\ st.id = client[c].id /\ handler' = handler
      BY <1>13 DEF Leaves
    <2>2. \A t \in Slot : Updates(handler'[t]) =>
              \E d \in Client : handler'[t].req.id = client'[d].id /\ client'[d].pc \in {"updating", "unknown"}
      BY <1>4, <2>1 DEF TruthInv
    <2> QED BY <1>8, <2>1, <2>2 DEF TruthInv
  <1>14. CASE IsTold(c, st)
    <2>1. PICK s \in Slot :
            /\ handler[s] \in Serving /\ handler[s].pc = "reply"
            /\ handler[s].req.op = "update_branch" /\ handler[s].req.id = client[c].id
            /\ Become(s, Idle)
            /\ st.pc \in {"done", "failed"} \/ (st.pc = "conflict" /\ handler[s].status = 409)
      BY <1>14 DEF IsTold
    <2>2. st.id = client[c].id /\ client[c].pc = "updating"
      BY <1>14 DEF IsTold
    <2>3. handler'[s] = Idle /\ \A t \in Slot \ {s} : handler'[t] = handler[t]
      BY <1>1, <2>1 DEF PubInv, Become
    <2>4. st.id \in landed => st.pc \in {"done", "failed"}
      BY <2>1, <2>2 DEF TruthInv, Refusable, Updates
    <2>5. \A t \in Slot : Updates(handler'[t]) =>
              t # s /\ handler'[t] = handler[t] /\ handler[t].req.id # client[c].id
      BY <1>5, <2>1, <2>3 DEF TruthInv, Updates
    <2>6. \A t \in Slot : Updates(handler'[t]) =>
              \E d \in Client : handler'[t].req.id = client'[d].id /\ client'[d].pc \in {"updating", "unknown"}
      <3>1. \A t \in Slot : Updates(handler'[t]) =>
                \E d \in Client \ {c} :
                    handler[t].req.id = client[d].id /\ client[d].pc \in {"updating", "unknown"}
        BY <2>5 DEF TruthInv
      <3> QED BY <1>4, <2>5, <3>1
    <2>7. /\ \A t \in Slot : Refusable(handler'[t]) => handler'[t].req.id \notin landed
          /\ \A t, u \in Slot : Updates(handler'[t]) /\ Updates(handler'[u])
                                /\ handler'[t].req.id = handler'[u].req.id => t = u
      BY <2>5 DEF TruthInv, Refusable
    <2> QED BY <1>8, <2>1, <2>2, <2>4, <2>6, <2>7
  <1> QED BY <1>2, <1>7, <1>10, <1>11, <1>12, <1>13, <1>14

(* The types of the store, the handlers and the publishers. *)
LEMMA PublishTypes ==
    ASSUME PubInv
    PROVE  PublishTypeOK
  <1>1. Idle \in Handler
    BY DEF Handler, Idle, PC
  <1> HIDE DEF Idle
  <1>2. handler \in [Slot -> Handler]
    BY <1>1 DEF PubInv, Serving
  <1> QED BY <1>2 DEF PubInv, StoreInv, PublishTypeOK, TypeOK

(* When every publisher runs the command once, with a tree and a name of    *)
(* its own, a publisher told of a conflict has not published, on any store  *)
(* and whatever is lost or late: "Nothing was written. Re-fetch the         *)
(* branch" is true.                                                         *)
THEOREM PublishersToldTruth ==
    ASSUME \A c \in Client : Runs[c] = 0,
           \A c, d \in Client : Tree[c] = Tree[d] /\ Name[c] = Name[d] => c = d
    PROVE  PublishSpec => []PublishSafe
  <1>1. Single
    BY DEF Single
  <1>2. PublishInit => TruthInv
    <2> SUFFICES ASSUME PublishInit PROVE TruthInv
      OBVIOUS
    <2>1. /\ PubInv /\ landed = {Tip} \ {None} /\ handler = [s \in Slot |-> Idle]
          /\ client = [c \in Client |-> Fresh] /\ (Tip # None => Tip = Root[TheRepo])
      BY PubStart
    <2>2. Idle \notin Serving /\ Fresh.pc = "resolve" /\ Fresh.id = None
      BY DEF Serving, Idle, PointOf, Fresh
    <2> HIDE DEF Idle, Fresh
    <2> QED BY <2>1, <2>2, StoreAssumption DEF TruthInv, Updates, Refusable
  <1>3. TruthInv /\ [PublishNext]_pvars => TruthInv'
    <2> SUFFICES ASSUME TruthInv, [PublishNext]_pvars PROVE TruthInv'
      OBVIOUS
    <2>1. CASE UNCHANGED pvars
      <3>1. PubInv'
        BY <2>1, PubStep DEF TruthInv
      <3>2. UNCHANGED <<handler, client, landed>>
        BY <2>1 DEF pvars
      <3> QED BY <3>1, <3>2 DEF TruthInv
    <2>2. CASE \E c \in Client : ClientStep(c) \/ ClientFault(c)
      BY <1>1, <2>2, TruthClient
    <2>3. CASE \E s \in Slot : Serve(s) \/ Discard(s) \/ ServerFault(s)
      BY <1>1, <2>3, TruthServer
    <2> QED BY <2>1, <2>2, <2>3 DEF PublishNext
  <1>4. TruthInv => PublishSafe
    <2> SUFFICES ASSUME TruthInv PROVE PublishSafe
      OBVIOUS
    <2>1. PublishTypeOK
      BY PublishTypes DEF TruthInv
    <2>2. ConflictNotPublished
      BY DEF TruthInv, ConflictNotPublished
    <2> QED BY <2>1, <2>2 DEF PublishSafe
  <1> QED BY <1>2, <1>3, <1>4, PTL DEF PublishSpec
=============================================================================

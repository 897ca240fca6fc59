--------------------------- MODULE ForgeCasProofs ---------------------------
(***************************************************************************)
(* Proofs about the forge handlers, for every set of repositories, blobs,  *)
(* commits, requests and concurrent handlers.                              *)
(***************************************************************************)
EXTENDS ForgeCas, WellFoundedInduction, TLAPS

(* A handler record that carries a request, between two store calls. *)
Busy == {h \in Handler : h.req \in Request /\ h.next >= 1}

(* When a branch may be written without the comparison in the same step.    *)
Unconditional == ~ RequireCas \/ Backend = "datamesh"

(* What holds of a handler wherever it stands: unless it is idle it has a   *)
(* request, and the branch update at hand exists.                           *)
Ready(h) ==
    /\ h \in Handler
    /\ h.pc # "idle" => h \in Busy
    /\ h.pc \in {"targets", "updates"} => h.next <= Len(h.req.updates)
    /\ h.pc = "set" => Unconditional

TypeInv == StoreTypeOK /\ handler \in [Slot -> Handler] /\ \A s \in Slot : Ready(handler[s])

(* The fields of a request, and what well-formedness says of them. *)
LEMMA RequestTypes ==
    ASSUME NEW q \in Request
    PROVE  /\ q \in RequestType
           /\ WellFormed(q)
           /\ q.op \in Op /\ q.repo \in Repo /\ q.branch \in Branch
           /\ q.id \in CommitId /\ q.doc \in Doc /\ q.blobs \in SUBSET Digest
           /\ q.updates \in Seq(Branch \X CommitId)
           /\ q.head \in CommitId \cup {None}
           /\ q.private \in BOOLEAN \cup {None}
           /\ q.doc.repo \in Repo
           /\ q.doc.manifest \in SUBSET Digest
           /\ q.doc.parents \in SUBSET CommitId
           /\ Len(q.updates) \in Nat
  <1>1. q \in RequestType /\ WellFormed(q)
    BY ForgeAssumption
  <1>2. q.op \in Op /\ q.repo \in Repo /\ q.branch \in Branch
        /\ q.id \in CommitId /\ q.doc \in Doc /\ q.blobs \in SUBSET Digest
        /\ q.updates \in Seq(Branch \X CommitId)
        /\ q.head \in CommitId \cup {None}
        /\ q.private \in BOOLEAN \cup {None}
    BY <1>1 DEF RequestType
  <1>3. /\ q.doc.repo \in Repo
        /\ q.doc.manifest \in SUBSET Digest
        /\ q.doc.parents \in SUBSET CommitId
    BY <1>2 DEF Doc
  <1>4. Len(q.updates) \in Nat
    BY <1>2
  <1> QED
    BY <1>1, <1>2, <1>3, <1>4

(* The fields of a handler in flight. *)
LEMMA BusyTypes ==
    ASSUME NEW h \in Busy
    PROVE  /\ h.req \in Request
           /\ h.pc \in PC /\ h.status \in Int
           /\ h.parents \in SUBSET CommitId /\ h.inherited \in SUBSET Digest
           /\ h.todo \in SUBSET Digest /\ h.backfill \in SUBSET Digest
           /\ h.missing \in SUBSET Digest /\ h.next \in Nat /\ h.next >= 1
           /\ h.id \in CommitId \cup {None} /\ h.wrote \in BOOLEAN
  BY DEF Busy, Handler

(* The handler that results from an answer is typed and has what its next  *)
(* program point needs.                                                    *)
LEMMA ReplyReady ==
    ASSUME NEW h \in Busy, NEW code \in Int
    PROVE  Reply(h, code) \in Busy /\ Ready(Reply(h, code))
  BY DEF Busy, Reply, Ready, Handler, PC

(* The handler that results from a jump is typed and has what its next     *)
(* program point needs.                                                    *)
LEMMA GotoReady ==
    ASSUME NEW h \in Busy, NEW pc \in PC \ {"idle"},
           pc \in {"targets", "updates"} => h.next <= Len(h.req.updates),
           pc = "set" => Unconditional
    PROVE  Goto(h, pc) \in Busy /\ Ready(Goto(h, pc))
  <1>1. CASE pc = "reply"
    BY <1>1, ReplyReady DEF Goto
  <1>2. CASE pc # "reply"
    BY <1>2 DEF Goto, Busy, Ready, Handler
  <1> QED
    BY <1>1, <1>2

(* The handler that results from the next blob of a publish is typed and   *)
(* has what its next program point needs.                                  *)
LEMMA NextBlobReady ==
    ASSUME NEW h \in Busy
    PROVE  Goto(h, NextBlob(h)) \in Busy /\ Ready(Goto(h, NextBlob(h)))
  <1>1. NextBlob(h) \in PC \ {"idle", "targets", "updates", "set"}
    BY DEF NextBlob, PC
  <1> QED
    BY <1>1, GotoReady

(* The handler that results from the next branch update of a publish is    *)
(* typed and has what its next program point needs.                        *)
LEMMA NextUpdateReady ==
    ASSUME NEW h \in Busy
    PROVE  Goto(h, NextUpdate(h)) \in Busy /\ Ready(Goto(h, NextUpdate(h)))
  <1>1. NextUpdate(h) \in {"reply", "updates"}
        /\ (NextUpdate(h) = "updates" => h.next <= Len(h.req.updates))
    BY BusyTypes, RequestTypes DEF NextUpdate
  <1> QED
    BY <1>1, GotoReady DEF PC

(* The handler that results from storing the commit is typed and has what  *)
(* its next program point needs.                                           *)
LEMMA AfterCommitReady ==
    ASSUME NEW h \in Busy
    PROVE  Goto(h, AfterCommit(h)) \in Busy /\ Ready(Goto(h, AfterCommit(h)))
  <1>1. AfterCommit(h) \in {"main", "reply", NextUpdate(h)}
    BY DEF AfterCommit
  <1> QED
    BY <1>1, GotoReady, NextUpdateReady DEF PC

(* The handler that results from the first write of a publish is typed and *)
(* has what its next program point needs.                                  *)
LEMMA StartWritesReady ==
    ASSUME NEW h \in Busy
    PROVE  StartWrites(h) \in Busy /\ Ready(StartWrites(h))
  <1> DEFINE g == [h EXCEPT !.todo = h.req.blobs, !.next = 1]
  <1>1. h.req.blobs \in SUBSET Digest
    BY BusyTypes, RequestTypes
  <1>2. g \in Handler /\ g.req \in Request /\ g.next = 1
    BY <1>1 DEF Busy, Handler
  <1>3. g \in Busy
    <2> HIDE DEF g
    <2> QED BY <1>2 DEF Busy
  <1> QED
    BY <1>3, NextBlobReady DEF StartWrites

(* The handler that results from the next target to check is typed and has *)
(* what its next program point needs.                                      *)
LEMMA NextTargetReady ==
    ASSUME NEW h \in Busy
    PROVE  NextTarget(h) \in Busy /\ Ready(NextTarget(h))
  <1>1. CASE h.next > Len(h.req.updates)
    BY <1>1, StartWritesReady DEF NextTarget
  <1>2. CASE ~ (h.next > Len(h.req.updates))
    BY <1>2, GotoReady, BusyTypes, RequestTypes DEF NextTarget, PC
  <1> QED
    BY <1>1, <1>2

(* The handler that results from the end of the validation is typed and    *)
(* has what its next program point needs.                                  *)
LEMMA SettleReady ==
    ASSUME NEW h \in Busy
    PROVE  Settle(h) \in Busy /\ Ready(Settle(h))
  <1>1. [h EXCEPT !.pc = "exists"] \in Busy /\ Ready([h EXCEPT !.pc = "exists"])
    BY DEF Busy, Ready, Handler, PC
  <1>2. Goto(h, "commit") \in Busy /\ Ready(Goto(h, "commit"))
    BY GotoReady DEF PC
  <1> QED
    BY <1>1, <1>2, ReplyReady, NextTargetReady DEF Settle

(* The handler that results from a step of the validation is typed and has *)
(* what its next program point needs.                                      *)
LEMMA ValidateReady ==
    ASSUME NEW h \in Busy
    PROVE  Validate(h) \in Busy /\ Ready(Validate(h))
  <1>1. [h EXCEPT !.pc = "parents"] \in Busy /\ Ready([h EXCEPT !.pc = "parents"])
    BY DEF Busy, Ready, Handler, PC
  <1> DEFINE g == [h EXCEPT !.todo = h.req.doc.manifest \ (h.inherited \cup
                    IF h.req.op = "publish" THEN h.req.blobs ELSE {})]
  <1>2. g \in Busy
    BY BusyTypes, RequestTypes DEF Busy, Handler
  <1> QED
    BY <1>1, <1>2, SettleReady DEF Validate

(* The handler that results from entering a publish is typed and has what  *)
(* its next program point needs.                                           *)
LEMMA PublishReady ==
    ASSUME NEW h \in Busy
    PROVE  Publish(h) \in Busy /\ Ready(Publish(h))
  <1>1. Goto(h, "publish") \in Busy /\ Ready(Goto(h, "publish"))
    BY GotoReady DEF PC
  <1> QED
    BY <1>1, ReplyReady, ValidateReady, StartWritesReady, StoreAssumption DEF Publish

(* The handler that results from a new request is typed and has what its   *)
(* next program point needs.                                               *)
LEMMA BeginReady ==
    ASSUME NEW q \in Request
    PROVE  Ready(Begin(q))
  <1> DEFINE h == [Idle EXCEPT !.req = q, !.parents =
                     IF q.op \in {"create_commit", "publish"}
                     THEN q.doc.parents ELSE {}]
  <1>0. q \in RequestType /\ q.blobs \in SUBSET Digest /\ q.doc.parents \in SUBSET CommitId
    BY RequestTypes
  <1> DEFINE g == [h EXCEPT !.pc = "blob", !.todo = q.blobs]
  <1>1. h \in Busy
    <2>1. Idle \in Handler /\ Idle.next = 1
      BY DEF Handler, Idle, PC
    <2>2. h \in Handler /\ h.req \in Request /\ h.next = 1
      BY <1>0, <2>1 DEF Handler
    <2> HIDE DEF h
    <2> QED BY <2>2 DEF Busy
  <1>2. Ready(g)
    <2>1. g \in Busy /\ g.pc = "blob"
      <3> HIDE DEF h
      <3> QED BY <1>0, <1>1 DEF Busy, Handler, PC
    <2> HIDE DEF g
    <2> QED BY <2>1 DEF Busy, Ready
  <1>3. /\ Ready(Goto(h, "commit")) /\ Ready(Goto(h, "check"))
        /\ Ready(Goto(h, "lookup")) /\ Ready(Goto(h, "resolve"))
    BY <1>1, GotoReady DEF PC
  <1>4. Ready(Validate(h)) /\ Ready(Publish(h))
    BY <1>1, ValidateReady, PublishReady
  <1>5. q.op \in Op
    BY RequestTypes
  <1> QED
    BY <1>2, <1>3, <1>4, <1>5 DEF Begin, Op

(* A nonempty set of naturals has a least element: the one form of         *)
(* induction over data that is needed.                                     *)
LEMMA LeastNatural ==
    ASSUME NEW T, T \subseteq Nat, T # {}
    PROVE  \E m \in T : \A k \in T : m <= k
  <1>1. PICK R : /\ IsWellFoundedOn(R, Nat)
                 /\ \A x, y \in Nat : x < y => <<x, y>> \in R
    BY NatLessThanWellFounded DEF OpToRel
  <1>2. PICK m \in T : \A k \in T : ~ (<<k, m>> \in R)
    <2>1. IsWellFoundedOn(R, Nat)
      BY <1>1
    <2> QED BY ONLY <2>1, T \subseteq Nat, T # {}, WFMin, Zenon
  <1>3. \A k \in T : m <= k
    <2> SUFFICES ASSUME NEW k \in T, ~ (m <= k) PROVE FALSE
      OBVIOUS
    <2>1. k < m
      OBVIOUS
    <2> QED BY <1>1, <1>2, <2>1
  <1> QED BY <1>2, <1>3

(* The last of several branch updates exists. *)
LEMMA LastIndex ==
    ASSUME NEW n \in Nat, NEW S \in SUBSET (1..n), S # {}
    PROVE  \E i \in S : \A j \in S : j <= i
  <1> DEFINE T == {k \in Nat : n - k \in S}
  <1>1. PICK j \in S : TRUE
    OBVIOUS
  <1>2. n - j \in T
    BY <1>1
  <1>3. PICK m \in T : \A k \in T : m <= k
    <2>1. T \subseteq Nat /\ T # {}
      BY <1>2
    <2> HIDE DEF T
    <2> QED BY <2>1, LeastNatural
  <1>4. n - m \in S
    BY <1>3
  <1>5. ASSUME NEW i \in S PROVE i <= n - m
    <2>1. n - i \in T
      OBVIOUS
    <2>2. m <= n - i
      BY <1>3, <2>1
    <2> QED BY <2>2
  <1> QED
    BY <1>4, <1>5

(* Writing a commit keeps the type of the commit table. *)
LEMMA PutCommitType ==
    ASSUME StoreTypeOK, NEW r \in Repo, NEW c \in CommitId, NEW d \in Doc,
           PutCommit(r, c, d)
    PROVE  commits' \in [Repo -> [CommitId -> Doc \cup {None}]]
  BY DEF StoreTypeOK, PutCommit

(* Setting a branch keeps the type of the branch table. *)
LEMMA SetBranchType ==
    ASSUME StoreTypeOK, NEW r \in Repo, NEW b \in Branch, NEW c \in CommitId,
           SetBranch(r, b, c)
    PROVE  branches' \in [Repo -> [Branch -> CommitId \cup {None}]]
  BY DEF StoreTypeOK, SetBranch

(* A list of branch updates changes a branch to a head that the list       *)
(* names, or leaves it alone.                                              *)
LEMMA UpdateBranchesType ==
    ASSUME StoreTypeOK, NEW r \in Repo, NEW us \in Seq(Branch \X CommitId),
           UpdateBranches(r, us)
    PROVE  /\ branches' \in [Repo -> [Branch -> CommitId \cup {None}]]
           /\ \A x \in Repo, b \in Branch :
                 \/ branches'[x][b] = branches[x][b]
                 \/ x = r /\ \E i \in DOMAIN us : branches'[x][b] = us[i][2]
  <1> DEFINE Of(b) == {i \in DOMAIN us : us[i][1] = b}
             Last(b) == CHOOSE i \in Of(b) : \A j \in Of(b) : j <= i
             row == [b \in Branch |-> IF Of(b) = {} THEN branches[r][b]
                                      ELSE us[Last(b)][2]]
  <1>1. ASSUME NEW b \in Branch, Of(b) # {}
        PROVE  Last(b) \in DOMAIN us
    <2>1. Len(us) \in Nat /\ DOMAIN us = 1..Len(us) /\ Of(b) \in SUBSET (1..Len(us))
      OBVIOUS
    <2>2. \E i \in Of(b) : \A j \in Of(b) : j <= i
      BY <1>1, <2>1, LastIndex
    <2> QED
      BY <2>2
  <1>2. \A i \in DOMAIN us : us[i][2] \in CommitId
    OBVIOUS
  <1>3. branches' = [branches EXCEPT ![r] = row]
    BY DEF UpdateBranches
  <1>4. \A b \in Branch : IF Of(b) = {} THEN row[b] = branches[r][b]
                          ELSE row[b] = us[Last(b)][2]
    OBVIOUS
  <1>5. row \in [Branch -> CommitId \cup {None}]
    <2>1. ASSUME NEW b \in Branch PROVE row[b] \in CommitId \cup {None}
      <3>1. CASE Of(b) = {}
        BY <1>4, <3>1 DEF StoreTypeOK
      <3>2. CASE Of(b) # {}
        <4>1. us[Last(b)][2] \in CommitId
          BY <1>1, <1>2, <3>2
        <4> QED BY <1>4, <3>2, <4>1
      <3> QED BY <3>1, <3>2
    <2> QED BY <2>1
  <1> HIDE DEF row
  <1>6. branches' \in [Repo -> [Branch -> CommitId \cup {None}]]
    BY <1>3, <1>5 DEF StoreTypeOK
  <1>7. ASSUME NEW x \in Repo, NEW b \in Branch
        PROVE  \/ branches'[x][b] = branches[x][b]
               \/ x = r /\ \E i \in DOMAIN us : branches'[x][b] = us[i][2]
    <2>1. CASE x # r
      BY <1>3, <2>1 DEF StoreTypeOK
    <2>2. CASE x = r
      <3>1. branches'[x][b] = row[b]
        BY <1>3, <2>2 DEF StoreTypeOK
      <3> QED
        BY <1>1, <1>4, <2>2, <3>1
    <2> QED
      BY <2>1, <2>2
  <1> QED
    BY <1>6, <1>7

(* A step that changes one handler and keeps the store typed keeps         *)
(* TypeInv.                                                                *)
LEMMA BecomeReady ==
    ASSUME TypeInv, NEW s \in Slot, NEW g, Become(s, g), Ready(g), StoreTypeOK'
    PROVE  TypeInv'
  BY DEF TypeInv, Become, Ready

(* A step that leaves the store alone keeps its type. *)
LEMMA KeepStore ==
    ASSUME TypeInv, UNCHANGED store
    PROVE  StoreTypeOK'
  BY DEF TypeInv, StoreTypeOK, store

(* The type invariant is inductive: one step per action. *)
LEMMA TypeStep ==
    ASSUME TypeInv, [Next]_vars
    PROVE  TypeInv'
  <1>0. CASE UNCHANGED vars
    BY <1>0 DEF TypeInv, StoreTypeOK, vars
  <1> SUFFICES ASSUME NEW s \in Slot, 
                      \/ Accept(s) \/ Validation(s) \/ Write(s) \/ UpdateBranch(s)
                      \/ CreateRepo(s) \/ ReadSource(s) \/ Respond(s) \/ Fault(s)
               PROVE  TypeInv'
    BY <1>0 DEF Next
  <1> DEFINE h == handler[s]
  <1> USE DEF vars
  <1>a. h \in Handler /\ Ready(h) /\ (h.pc # "idle" => h \in Busy) /\ StoreTypeOK
    BY DEF TypeInv, Ready
  <1> HIDE DEF h
  <1>b. ASSUME h \in Busy
        PROVE  /\ h.req \in Request /\ h.req.repo \in Repo /\ h.req.branch \in Branch
               /\ h.req.id \in CommitId /\ h.req.doc \in Doc
               /\ h.req.updates \in Seq(Branch \X CommitId)
               /\ h.req.head \in CommitId \cup {None}
               /\ h.req.blobs \in SUBSET Digest
               /\ h.req.private \in BOOLEAN \cup {None}
    BY <1>b, BusyTypes, RequestTypes
  <1>1. CASE Accept(s)
    BY <1>1, BeginReady, BecomeReady, KeepStore DEF Accept
  <1>2. CASE ReadParent(s)
    <2>1. PICK p \in h.parents :
            Become(s, Validate([h EXCEPT !.parents = @ \ {p},
                !.inherited = @ \cup IF commits[h.req.repo][p] = None THEN {}
                                     ELSE commits[h.req.repo][p].manifest]))
      BY <1>2 DEF ReadParent, h
    <2> DEFINE found == IF commits[h.req.repo][p] = None THEN {}
                        ELSE commits[h.req.repo][p].manifest
               g == [h EXCEPT !.parents = @ \ {p}, !.inherited = @ \cup found]
    <2>2. h \in Busy /\ UNCHANGED store
      BY <1>2, <1>a DEF ReadParent, h
    <2>3. found \in SUBSET Digest
      BY <1>a, <1>b, <2>2, BusyTypes DEF StoreTypeOK, Doc
    <2>4. g \in Busy
      <3> HIDE DEF found
      <3> QED BY <2>2, <2>3 DEF Busy, Handler
    <2> HIDE DEF g
    <2> QED
      BY <2>1, <2>2, <2>4, ValidateReady, BecomeReady, KeepStore DEF g
  <1>3. CASE ExistsAll(s)
    <2> DEFINE g == [h EXCEPT !.todo = {}, !.missing = @ \cup (h.todo \ cas)]
    <2>1. h \in Busy /\ Become(s, Settle(g)) /\ UNCHANGED store
      BY <1>3, <1>a DEF ExistsAll, h
    <2>2. g \in Busy
      BY <2>1 DEF Busy, Handler
    <2> HIDE DEF g
    <2> QED
      BY <2>1, <2>2, SettleReady, BecomeReady, KeepStore
  <1>4. CASE BlobExists(s)
    <2>1. h \in Busy /\ UNCHANGED store
      BY <1>4, <1>a DEF BlobExists, h
    <2>2. PICK d \in h.todo : Become(s, Settle([h EXCEPT
            !.todo = @ \ {d},
            !.backfill = IF d \in cas \ receipts THEN @ \cup {d} ELSE @,
            !.missing = IF d \in cas \cup receipts THEN @ ELSE @ \cup {d}]))
      BY <1>4 DEF BlobExists, h
    <2> DEFINE g == [h EXCEPT
            !.todo = @ \ {d},
            !.backfill = IF d \in cas \ receipts THEN @ \cup {d} ELSE @,
            !.missing = IF d \in cas \cup receipts THEN @ ELSE @ \cup {d}]
    <2>3. g \in Busy
      BY <2>1 DEF Busy, Handler
    <2> HIDE DEF g
    <2> QED
      BY <2>1, <2>2, <2>3, SettleReady, BecomeReady, KeepStore DEF g
  <1>5. CASE Backfill(s)
    <2>1. h \in Busy
      BY <1>5, <1>a DEF Backfill, h
    <2>2. PICK d \in h.backfill :
            /\ receipts' = receipts \cup {d}
            /\ Become(s, Settle([h EXCEPT !.backfill = @ \ {d}]))
      BY <1>5 DEF Backfill, h
    <2> DEFINE g == [h EXCEPT !.backfill = @ \ {d}]
    <2>3. g \in Busy
      BY <2>1 DEF Busy, Handler
    <2>4. StoreTypeOK'
      BY <1>5, <1>a, <2>1, <2>2, BusyTypes DEF Backfill, StoreTypeOK
    <2> HIDE DEF g
    <2> QED
      BY <2>2, <2>3, <2>4, SettleReady, BecomeReady DEF g
  <1>6. CASE CheckTarget(s)
    <2> DEFINE g == [h EXCEPT !.next = @ + 1]
    <2>1. h \in Busy /\ UNCHANGED store
          /\ (Become(s, Reply(h, 500)) \/ Become(s, NextTarget(g)))
      BY <1>6, <1>a DEF CheckTarget, h
    <2>2. g \in Busy
      BY <2>1 DEF Busy, Handler
    <2> HIDE DEF g
    <2> QED
      BY <2>1, <2>2, ReplyReady, NextTargetReady, BecomeReady, KeepStore
  <1>7. CASE PutBlob(s)
    <2>1. h \in Busy
      BY <1>7, <1>a DEF PutBlob, h
    <2>2. PICK d \in h.todo :
            LET g == [h EXCEPT !.todo = @ \ {d}, !.wrote = TRUE] IN
            /\ cas' = cas \cup {d}
            /\ Become(s, IF Backend = "datamesh"
                         THEN [g EXCEPT !.pc = "receipt", !.backfill = {d}]
                         ELSE Goto(g, NextBlob(g)))
      BY <1>7 DEF PutBlob, h
    <2> DEFINE g == [h EXCEPT !.todo = @ \ {d}, !.wrote = TRUE]
    <2>3. g \in Busy /\ d \in Digest
      BY <2>1 DEF Busy, Handler
    <2>4. StoreTypeOK'
      BY <1>7, <1>a, <2>2, <2>3 DEF PutBlob, StoreTypeOK
    <2> HIDE DEF g
    <2>5. Ready([g EXCEPT !.pc = "receipt", !.backfill = {d}])
      BY <2>3 DEF Busy, Ready, Handler, PC
    <2> QED
      BY <2>2, <2>3, <2>4, <2>5, NextBlobReady, BecomeReady DEF g
  <1>8. CASE PutReceipt(s)
    <2> DEFINE g == [h EXCEPT !.backfill = {}]
    <2>1. h \in Busy /\ Become(s, Goto(g, NextBlob(g)))
      BY <1>8, <1>a DEF PutReceipt, h
    <2>2. g \in Busy
      BY <2>1 DEF Busy, Handler
    <2>3. StoreTypeOK'
      BY <1>8, <1>a, <2>1, BusyTypes DEF PutReceipt, StoreTypeOK, h
    <2> HIDE DEF g
    <2> QED
      BY <2>1, <2>2, <2>3, NextBlobReady, BecomeReady
  <1>9. CASE StoreCommit(s)
    <2> DEFINE g == [h EXCEPT !.wrote = TRUE]
    <2>1. h \in Busy /\ Become(s, Goto(g, AfterCommit(g)))
      BY <1>9, <1>a DEF StoreCommit, h
    <2>2. g \in Busy
      BY <2>1 DEF Busy, Handler
    <2>3. StoreTypeOK'
      <3>1. PutCommit(h.req.repo, h.req.id, h.req.doc)
        BY <1>9 DEF StoreCommit, h
      <3>2. commits' \in [Repo -> [CommitId -> Doc \cup {None}]]
        BY <3>1, <1>a, <1>b, <2>1, PutCommitType
      <3> QED
        BY <1>9, <1>a, <3>2 DEF StoreCommit, StoreTypeOK
    <2> HIDE DEF g
    <2> QED
      BY <2>1, <2>2, <2>3, AfterCommitReady, BecomeReady
  <1>10. CASE MoveBranch(s)
    <2> DEFINE g == [h EXCEPT !.next = @ + 1]
    <2>1. h \in Busy /\ Become(s, Goto(g, NextUpdate(g))) /\ h.next \in DOMAIN h.req.updates
      BY <1>10, <1>a, <1>b, BusyTypes DEF MoveBranch, Ready, h
    <2>2. g \in Busy
      BY <2>1 DEF Busy, Handler
    <2>3. StoreTypeOK'
      <3>1. SetBranch(h.req.repo, h.req.updates[h.next][1], h.req.updates[h.next][2])
        BY <1>10 DEF MoveBranch, h
      <3>2. /\ h.req.updates[h.next][1] \in Branch
            /\ h.req.updates[h.next][2] \in CommitId
        BY <1>b, <2>1
      <3>3. branches' \in [Repo -> [Branch -> CommitId \cup {None}]]
        BY <3>1, <3>2, <1>a, <1>b, <2>1, SetBranchType
      <3> QED
        BY <1>10, <1>a, <3>3 DEF MoveBranch, StoreTypeOK
    <2> HIDE DEF g
    <2> QED
      BY <2>1, <2>2, <2>3, NextUpdateReady, BecomeReady
  <1>11. CASE PublishMemory(s)
    <2> DEFINE g == [h EXCEPT !.wrote = TRUE]
    <2>1. h \in Busy /\ (\/ Become(s, Reply(h, 422)) /\ UNCHANGED store
                         \/ Become(s, Reply(h, 500)) /\ UNCHANGED store
                         \/ /\ Become(s, Reply(g, 201))
                            /\ cas' = cas \cup h.req.blobs
                            /\ PutCommit(h.req.repo, h.req.id, h.req.doc)
                            /\ UpdateBranches(h.req.repo, h.req.updates)
                            /\ UNCHANGED <<receipts, private>>)
      BY <1>11, <1>a DEF PublishMemory, h
    <2>2. g \in Busy
      BY <2>1 DEF Busy, Handler
    <2>3. CASE UNCHANGED store
      BY <2>1, <2>2, <2>3, ReplyReady, BecomeReady, KeepStore DEF g
    <2>4. CASE ~ UNCHANGED store
      <3>1. commits' \in [Repo -> [CommitId -> Doc \cup {None}]]
        BY <1>a, <1>b, <2>1, <2>4, PutCommitType
      <3>2. branches' \in [Repo -> [Branch -> CommitId \cup {None}]]
        BY <1>a, <1>b, <2>1, <2>4, UpdateBranchesType
      <3>3. StoreTypeOK'
        BY <1>a, <1>b, <2>1, <2>4, <3>1, <3>2 DEF StoreTypeOK
      <3> HIDE DEF g
      <3> QED
        BY <2>1, <2>2, <2>4, <3>3, ReplyReady, BecomeReady
    <2> QED
      BY <2>3, <2>4
  <1>12. CASE CheckCommit(s)
    <2>1. h \in Busy /\ UNCHANGED store
          /\ \/ \E code \in {422, 428} : Become(s, Reply(h, code))
             \/ Become(s, Goto(h, "cas"))
             \/ Become(s, Goto(h, "set")) /\ Unconditional
      BY <1>12, <1>a DEF CheckCommit, Unconditional, h
    <2> QED
      BY <2>1, ReplyReady, GotoReady, BecomeReady, KeepStore DEF PC
  <1>13. CASE CasSetBranch(s) \/ WriteBranch(s)
    <2> DEFINE g == [h EXCEPT !.wrote = TRUE]
    <2>1. /\ h \in Busy
          /\ UNCHANGED branches \/ SetBranch(h.req.repo, h.req.branch, h.req.id)
          /\ UNCHANGED <<cas, receipts, commits, private>>
          /\ \/ Become(s, Reply(h, 409))
             \/ Become(s, Goto(h, "set")) /\ Unconditional
             \/ Become(s, Reply(g, 200))
      BY <1>13, <1>a DEF CasSetBranch, WriteBranch, Unconditional, h
    <2>2. g \in Busy
      BY <2>1 DEF Busy, Handler
    <2>3. StoreTypeOK'
      BY <1>a, <1>b, <2>1, SetBranchType DEF StoreTypeOK
    <2> HIDE DEF g
    <2> QED
      BY <2>1, <2>2, <2>3, ReplyReady, GotoReady, BecomeReady DEF PC
  <1>14. CASE LookupMain(s)
    <2> DEFINE g == [h EXCEPT !.pc = "private", !.id = branches[h.req.repo][Main]]
    <2>1. h \in Busy /\ UNCHANGED store
          /\ (Become(s, Reply(h, 200)) \/ Become(s, g))
      BY <1>14, <1>a DEF LookupMain, h
    <2>2. branches[h.req.repo][Main] \in CommitId \cup {None}
      BY <1>a, <1>b, <2>1, StoreAssumption DEF StoreTypeOK
    <2>3. Ready(g)
      BY <2>1, <2>2 DEF Busy, Ready, Handler, PC
    <2> HIDE DEF g
    <2> QED
      BY <2>1, <2>3, ReplyReady, BecomeReady, KeepStore
  <1>15. CASE SetPrivate(s)
    <2>1. h \in Busy /\ (Become(s, Reply(h, 200)) \/ Become(s, Goto(h, "commit")))
      BY <1>15, <1>a DEF SetPrivate, h
    <2>2. StoreTypeOK'
      BY <1>15, <1>a, <1>b, <2>1 DEF SetPrivate, StoreTypeOK, h
    <2> QED
      BY <2>1, <2>2, ReplyReady, GotoReady, BecomeReady DEF PC
  <1>16. CASE SetMain(s)
    <2>1. /\ h \in Busy /\ Become(s, Reply(h, 201))
          /\ SetBranch(h.req.repo, Main, h.req.id)
          /\ UNCHANGED <<cas, receipts, commits, private>>
      BY <1>16, <1>a DEF SetMain, h
    <2>2. StoreTypeOK'
      BY <1>a, <1>b, <2>1, SetBranchType, StoreAssumption DEF StoreTypeOK
    <2> QED
      BY <2>1, <2>2, ReplyReady, BecomeReady
  <1>17. CASE ResolveRef(s)
    <2> DEFINE found == IF h.req.head # None THEN h.req.head
                        ELSE branches[h.req.repo][h.req.branch]
               g == [h EXCEPT !.pc = "load", !.id = found]
    <2>1. h \in Busy /\ UNCHANGED store /\ Become(s, g)
      BY <1>17, <1>a DEF ResolveRef, h
    <2>2. found \in CommitId \cup {None}
      BY <1>a, <1>b, <2>1 DEF StoreTypeOK
    <2>3. Ready(g)
      <3> HIDE DEF found
      <3> QED BY <2>1, <2>2 DEF Busy, Ready, Handler, PC
    <2> HIDE DEF g
    <2> QED
      BY <2>1, <2>3, BecomeReady, KeepStore
  <1>18. CASE LoadCommit(s)
    <2> DEFINE c == commits[h.req.repo][h.id]
               g == [h EXCEPT !.pc = "stream", !.todo = c.manifest]
    <2>1. /\ h \in Busy /\ UNCHANGED store
          /\ \/ \E code \in {404, 200} : Become(s, Reply(h, code))
             \/ h.id # None /\ c # None /\ Become(s, g)
      BY <1>18, <1>a DEF LoadCommit, h
    <2>2. ASSUME h.id # None, c # None PROVE Ready(g)
      <3>1. c \in Doc
        BY <1>a, <1>b, <2>1, <2>2, BusyTypes DEF StoreTypeOK
      <3>2. c.manifest \in SUBSET Digest
        BY <3>1 DEF Doc
      <3> HIDE DEF c
      <3>3. g \in Handler /\ g.req = h.req /\ g.next = h.next /\ g.pc = "stream"
        BY <2>1, <3>2 DEF Busy, Handler, PC
      <3> HIDE DEF g
      <3> QED BY <2>1, <3>3 DEF Busy, Ready
    <2> HIDE DEF g, c
    <2> QED
      BY <2>1, <2>2, ReplyReady, BecomeReady, KeepStore
  <1>19. CASE StreamBlob(s)
    <2>1. h \in Busy /\ h.pc = "stream" /\ UNCHANGED store
      BY <1>19, <1>a DEF StreamBlob, h
    <2>2. PICK d \in h.todo :
            LET g == [h EXCEPT !.todo = @ \ {d},
                               !.missing = IF d \in cas THEN @ ELSE {d}] IN
            Become(s, IF g.todo = {} \/ g.missing # {} THEN Reply(g, 200) ELSE g)
      BY <1>19 DEF StreamBlob, h
    <2> DEFINE g == [h EXCEPT !.todo = @ \ {d}, !.missing = IF d \in cas THEN @ ELSE {d}]
    <2>3. g \in Busy /\ g.pc = "stream"
      BY <2>1 DEF Busy, Handler
    <2> HIDE DEF g
    <2>4. Ready(g)
      BY <2>3 DEF Ready, Busy
    <2> QED
      BY <2>1, <2>2, <2>3, <2>4, ReplyReady, BecomeReady, KeepStore DEF g
  <1>20. CASE Respond(s) \/ Drop(s)
    <2>1. Become(s, Idle) /\ UNCHANGED store
      BY <1>20 DEF Respond, Drop
    <2>2. Ready(Idle)
      BY DEF Idle, Ready, Handler, PC
    <2> QED
      BY <2>1, <2>2, BecomeReady, KeepStore
  <1>21. CASE Fail(s)
    <2>1. h \in Busy /\ Become(s, Reply(h, 500)) /\ UNCHANGED store
      BY <1>21, <1>a DEF Fail, h
    <2> QED
      BY <2>1, ReplyReady, BecomeReady, KeepStore
  <1>22. CASE FailLookup(s)
    <2>1. h \in Busy /\ UNCHANGED store
      BY <1>22, <1>a DEF FailLookup, h
    <2>2. PICK d \in h.todo \cup h.backfill :
            Become(s, Settle([h EXCEPT !.todo = @ \ {d}, !.backfill = @ \ {d},
                                       !.status = 500]))
      BY <1>22 DEF FailLookup, h
    <2> DEFINE g == [h EXCEPT !.todo = @ \ {d}, !.backfill = @ \ {d}, !.status = 500]
    <2>3. g \in Busy
      <3> DEFINE k == [h EXCEPT !.todo = @ \ {d}, !.backfill = @ \ {d}]
      <3>1. k \in Busy
        BY <2>1 DEF Busy, Handler
      <3>2. g = [k EXCEPT !.status = 500]
        BY <2>1 DEF Busy, Handler
      <3> HIDE DEF g, k
      <3> QED BY <3>1, <3>2 DEF Busy, Handler
    <2> HIDE DEF g
    <2> QED
      BY <2>1, <2>2, <2>3, SettleReady, BecomeReady, KeepStore DEF g
  <1> QED
    BY <1>1, <1>2, <1>3, <1>4, <1>5, <1>6, <1>7, <1>8, <1>9, <1>10, <1>11, <1>12,
       <1>13, <1>14, <1>15, <1>16, <1>17, <1>18, <1>19, <1>20, <1>21, <1>22
       DEF Validation, Write, UpdateBranch, CreateRepo, ReadSource, Fault

(* TypeInv holds of the empty store. *)
LEMMA TypeInit ==
    ASSUME Init
    PROVE  TypeInv
  BY DEF Init, StoreInit, TypeInv, StoreTypeOK, Idle, Ready, Handler, PC

(* TypeInv is an invariant of the forge: whatever the backend, each        *)
(* handler in flight is typed and holds what its program point needs.      *)
THEOREM TypeInvariant == Spec => []TypeInv
  BY TypeInit, TypeStep, PTL DEF Spec

(* Every record, branch head and local variable of the forge stays of its   *)
(* type, for all three stores, under every interleaving of handlers.        *)
THEOREM TypeCorrect == Spec => []TypeOK
  <1>1. TypeInv => TypeOK
    BY DEF TypeInv, TypeOK
  <1> QED
    BY <1>1, TypeInvariant, PTL

-----------------------------------------------------------------------------
(* A branch head is a commit stored under the branch's own repository, a   *)
(* stored commit never changes, and an update moves a head only from where *)
(* its client expected it.                                                 *)

(* The PostgreSQL publish, which checks nothing, is not used. *)
CheckedPublish == Backend = "sqlx" => \A q \in Request : q.op # "publish"

Stored(M, r, c) == M[r][c] # None

(* The target of a branch update is stored, or is the commit published.     *)
TargetOK(q, M, i) == Stored(M, q.repo, q.updates[i][2]) \/ q.updates[i][2] = q.id

(* What a handler knows of the commits M when it is about to write a        *)
(* commit or a head.                                                        *)
Pointed(h, M) ==
    /\ h.pc \notin {"idle", "reply"} /\ h.req.op = "publish" => h.req.doc.repo = h.req.repo
    /\ h.pc = "publish" => h.req.op = "publish"
    /\ h.pc = "commit" => h.req.op \in {"create_commit", "post_commit", "create_repo", "publish"}
    /\ h.pc \in {"lookup", "private", "main"} => h.req.op = "create_repo"
    /\ h.pc \in {"cas", "set", "main"} => Stored(M, h.req.repo, h.req.id)
    /\ h.pc \in {"parents", "exists"} =>
          h.req.op \in {"create_commit", "publish"} /\ h.next = 1
    /\ h.pc = "targets" =>
          h.req.op = "publish" /\ \A i \in 1..(h.next - 1) : TargetOK(h.req, M, i)
    /\ h.pc \in {"blob", "receipt", "commit"} /\ h.req.op = "publish" =>
          h.next = 1 /\ \A i \in DOMAIN h.req.updates : TargetOK(h.req, M, i)
    /\ h.pc = "updates" =>
          \A i \in DOMAIN h.req.updates : Stored(M, h.req.repo, h.req.updates[i][2])

CommitsOwned ==
    \A r \in Repo, c \in CommitId : commits[r][c] # None => commits[r][c].repo = r

HeadInv ==
    /\ TypeInv
    /\ HeadsResolve
    /\ CommitsOwned
    /\ \A s \in Slot : Pointed(handler[s], commits)

(* What a handler that answers will write to a branch is stored. *)
LEMMA HeadReply ==
    ASSUME NEW h \in Busy, NEW M, NEW code
    PROVE  Pointed(Reply(h, code), M)
  BY DEF Pointed, Reply, Busy, Handler

(* What a handler that goes on to its next blob will write to a branch is  *)
(* stored.                                                                 *)
LEMMA HeadNextBlob ==
    ASSUME NEW h \in Busy, NEW M,
           h.req.op = "publish" =>
              /\ h.req.doc.repo = h.req.repo /\ h.next = 1
              /\ \A i \in DOMAIN h.req.updates : TargetOK(h.req, M, i)
    PROVE  Pointed(Goto(h, NextBlob(h)), M)
  <1>1. CASE NextBlob(h) = "reply"
    BY <1>1, HeadReply DEF Goto
  <1>2. CASE NextBlob(h) # "reply"
    <2>1. NextBlob(h) = "blob" \/ (NextBlob(h) = "commit" /\ h.req.op = "publish")
      BY <1>2 DEF NextBlob
    <2> DEFINE g == [h EXCEPT !.pc = NextBlob(h)]
    <2>2. g.req = h.req /\ g.next = h.next /\ g.pc = NextBlob(h)
      BY DEF Busy, Handler
    <2>3. Goto(h, NextBlob(h)) = g
      BY <1>2 DEF Goto
    <2> HIDE DEF g
    <2> QED
      BY <2>1, <2>2, <2>3 DEF Pointed
  <1> QED
    BY <1>1, <1>2

(* What a handler that starts to write will write to a branch is stored. *)
LEMMA HeadStartWrites ==
    ASSUME NEW h \in Busy, NEW M, h.req.doc.repo = h.req.repo,
           \A i \in DOMAIN h.req.updates : TargetOK(h.req, M, i)
    PROVE  Pointed(StartWrites(h), M)
  <1> DEFINE g == [h EXCEPT !.todo = h.req.blobs, !.next = 1]
  <1>1. h.req.blobs \in SUBSET Digest
    BY BusyTypes, RequestTypes
  <1>2. g \in Handler /\ g.req = h.req /\ g.next = 1
    BY <1>1 DEF Busy, Handler
  <1>3. StartWrites(h) = Goto(g, NextBlob(g))
    BY DEF StartWrites
  <1> HIDE DEF g
  <1>4. g \in Busy
    BY <1>2 DEF Busy
  <1> QED
    BY <1>2, <1>3, <1>4, HeadNextBlob

(* What a handler that goes on to its next target will write to a branch   *)
(* is stored.                                                              *)
LEMMA HeadNextTarget ==
    ASSUME NEW h \in Busy, NEW M, h.req.doc.repo = h.req.repo, h.req.op = "publish",
           \A i \in 1..(h.next - 1) : TargetOK(h.req, M, i)
    PROVE  Pointed(NextTarget(h), M)
  <1>0. /\ h.next \in Nat /\ Len(h.req.updates) \in Nat
        /\ DOMAIN h.req.updates = 1..Len(h.req.updates)
    BY BusyTypes, RequestTypes
  <1>1. CASE h.next > Len(h.req.updates)
    <2>1. \A i \in DOMAIN h.req.updates : TargetOK(h.req, M, i)
      BY <1>0, <1>1
    <2> QED
      BY <1>1, <2>1, HeadStartWrites DEF NextTarget
  <1>2. CASE ~ (h.next > Len(h.req.updates))
    <2> DEFINE g == [h EXCEPT !.pc = "targets"]
    <2>1. g.req = h.req /\ g.next = h.next /\ g.pc = "targets"
      BY DEF Busy, Handler
    <2>2. NextTarget(h) = g
      BY <1>2 DEF NextTarget, Goto
    <2> HIDE DEF g
    <2> QED BY <2>1, <2>2 DEF Pointed
  <1> QED
    BY <1>1, <1>2

(* What a handler that ends its validation will write to a branch is       *)
(* stored.                                                                 *)
LEMMA HeadSettle ==
    ASSUME NEW h \in Busy, NEW M, h.next = 1,
           h.req.op \in {"create_commit", "publish"},
           h.req.op = "publish" => h.req.doc.repo = h.req.repo
    PROVE  Pointed(Settle(h), M)
  <1>1. Pointed([h EXCEPT !.pc = "exists"], M)
    BY DEF Pointed, Busy, Handler
  <1>2. ASSUME h.req.op # "publish" PROVE Pointed(Goto(h, "commit"), M)
    BY <1>2 DEF Pointed, Goto, Busy, Handler
  <1>3. ASSUME h.req.op = "publish" PROVE Pointed(NextTarget(h), M)
    <2>1. \A i \in 1..(h.next - 1) : TargetOK(h.req, M, i)
      OBVIOUS
    <2> QED BY <1>3, <2>1, HeadNextTarget
  <1> QED
    BY <1>1, <1>2, <1>3, HeadReply DEF Settle

(* What a handler that looks up digests will write to a branch is stored. *)
LEMMA HeadValidate ==
    ASSUME NEW h \in Busy, NEW M, h.next = 1,
           h.req.op \in {"create_commit", "publish"},
           h.req.op = "publish" => h.req.doc.repo = h.req.repo
    PROVE  Pointed(Validate(h), M)
  <1>1. CASE h.parents # {}
    BY <1>1 DEF Validate, Pointed, Busy, Handler
  <1>2. CASE h.parents = {}
    <2> DEFINE need == h.req.doc.manifest \ (h.inherited \cup
                          IF h.req.op = "publish" THEN h.req.blobs ELSE {})
               g == [h EXCEPT !.todo = need]
    <2>1. need \in SUBSET Digest
      BY BusyTypes, RequestTypes
    <2>2. Validate(h) = Settle(g)
      BY <1>2 DEF Validate
    <2> HIDE DEF need
    <2>3. g \in Busy /\ g.req = h.req /\ g.next = h.next
      BY <2>1 DEF Busy, Handler
    <2> HIDE DEF g
    <2> QED
      BY <2>2, <2>3, HeadSettle
  <1> QED
    BY <1>1, <1>2

(* What a handler that has just begun will write to a branch is stored. *)
LEMMA HeadBegin ==
    ASSUME CheckedPublish, NEW q \in Request, NEW M
    PROVE  Pointed(Begin(q), M)
  <1> DEFINE h == [Idle EXCEPT !.req = q, !.parents =
                     IF q.op \in {"create_commit", "publish"}
                     THEN q.doc.parents ELSE {}]
  <1>0. q \in RequestType /\ q.blobs \in SUBSET Digest /\ q.doc.parents \in SUBSET CommitId
        /\ q.op \in Op /\ (q.op = "publish" => Backend # "sqlx")
    BY RequestTypes DEF CheckedPublish
  <1>1. Idle \in Handler /\ Idle.next = 1
    BY DEF Handler, Idle, PC
  <1>2. h \in Handler /\ h.req = q /\ h.next = 1
    BY <1>0, <1>1 DEF Handler
  <1>3. Begin(q) = CASE q.op = "put_blob"      -> [h EXCEPT !.pc = "blob", !.todo = q.blobs]
                     [] q.op = "create_commit" -> Validate(h)
                     [] q.op = "post_commit"   -> Goto(h, "commit")
                     [] q.op = "update_branch" -> Goto(h, "check")
                     [] q.op = "create_repo"   -> Goto(h, "lookup")
                     [] q.op = "publish"       -> Publish(h)
                     [] q.op = "source"        -> Goto(h, "resolve")
    BY DEF Begin
  <1> HIDE DEF h
  <1>4. h \in Busy
    BY <1>2 DEF Busy
  <1>5. CASE q.op = "put_blob"
    BY <1>2, <1>3, <1>4, <1>5 DEF Pointed, Busy, Handler
  <1>6. CASE q.op = "create_commit"
    BY <1>2, <1>3, <1>4, <1>6, HeadValidate
  <1>7. CASE q.op \in {"post_commit", "update_branch", "create_repo", "source"}
    <2>1. PICK pc \in {"commit", "check", "lookup", "resolve"} :
            Begin(q) = Goto(h, pc) /\ (pc = "lookup" => q.op = "create_repo")
                                   /\ (pc = "commit" => q.op = "post_commit")
      BY <1>3, <1>7
    <2> QED
      BY <1>2, <1>4, <1>7, <2>1 DEF Goto, Pointed, Busy, Handler
  <1>8. CASE q.op = "publish"
    <2>0. Begin(q) = Publish(h)
      BY <1>3, <1>8
    <2>1. \/ Begin(q) = Reply(h, 422)
          \/ q.doc.repo = q.repo /\ Begin(q) = Goto(h, "publish")
          \/ q.doc.repo = q.repo /\ Begin(q) = Validate(h)
      <3>1. CASE q.doc.repo # q.repo
        BY <1>2, <2>0, <3>1 DEF Publish
      <3>2. CASE q.doc.repo = q.repo
        BY <1>0, <1>2, <1>8, <2>0, <3>2, StoreAssumption DEF Publish
      <3> QED BY <3>1, <3>2
    <2>2. ASSUME q.doc.repo = q.repo PROVE Pointed(Goto(h, "publish"), M)
      BY <1>2, <1>4, <1>8, <2>2 DEF Goto, Pointed, Busy, Handler
    <2> QED
      BY <1>2, <1>4, <1>8, <2>1, <2>2, HeadReply, HeadValidate
  <1> QED
    BY <1>0, <1>5, <1>6, <1>7, <1>8 DEF Op

(* More commits do not disturb a handler. *)
LEMMA HeadMore ==
    ASSUME NEW h, Ready(h), NEW M, NEW N, Pointed(h, M),
           \A r \in Repo, c \in CommitId : Stored(M, r, c) => Stored(N, r, c)
    PROVE  Pointed(h, N)
  <1>1. CASE h.pc = "idle"
    BY <1>1 DEF Pointed
  <1>2. CASE h.pc # "idle"
    <2>1. h \in Busy
      BY <1>2 DEF Ready
    <2>2. h.req.repo \in Repo /\ h.req.id \in CommitId /\ h.next \in Nat
          /\ h.req.updates \in Seq(Branch \X CommitId)
      BY <2>1, BusyTypes, RequestTypes
    <2>3. \A i \in DOMAIN h.req.updates : h.req.updates[i][2] \in CommitId
      BY <2>2
    <2>4. \A i \in DOMAIN h.req.updates : TargetOK(h.req, M, i) => TargetOK(h.req, N, i)
      BY <2>2, <2>3 DEF TargetOK
    <2>5. h.pc = "targets" => 1..(h.next - 1) \subseteq DOMAIN h.req.updates
      BY <2>2 DEF Ready
    <2> QED
      BY <2>2, <2>3, <2>4, <2>5, <1>2 DEF Pointed
  <1> QED
    BY <1>1, <1>2

(* A step that changes one handler, and removes no commit, keeps HeadInv. *)
LEMMA BecomeHead ==
    ASSUME HeadInv, TypeInv', NEW s \in Slot, NEW g, Become(s, g),
           Pointed(g, commits'), HeadsResolve', CommitsOwned',
           \A r \in Repo, c \in CommitId : Stored(commits, r, c) => Stored(commits', r, c)
    PROVE  HeadInv'
  <1>1. ASSUME NEW t \in Slot PROVE Pointed(handler'[t], commits')
    <2>1. CASE t = s
      BY <2>1 DEF Become, HeadInv, TypeInv
    <2>2. CASE t # s
      <3>1. handler'[t] = handler[t]
        BY <2>2 DEF Become, HeadInv, TypeInv
      <3>2. Ready(handler[t]) /\ Pointed(handler[t], commits)
        BY DEF HeadInv, TypeInv
      <3>3. Pointed(handler[t], commits')
        BY <3>2, HeadMore
      <3> QED BY <3>1, <3>3
    <2> QED BY <2>1, <2>2
  <1> QED
    BY <1>1 DEF HeadInv

(* A step that moves no head and stores no commit. *)
LEMMA BecomeHeadStill ==
    ASSUME HeadInv, TypeInv', NEW s \in Slot, NEW g, Become(s, g), Pointed(g, commits),
           UNCHANGED <<commits, branches>>
    PROVE  HeadInv'
  <1>1. HeadsResolve' /\ CommitsOwned'
    BY DEF HeadInv, HeadsResolve, CommitsOwned
  <1>2. \A r \in Repo, c \in CommitId : Stored(commits, r, c) => Stored(commits', r, c)
    OBVIOUS
  <1>3. Pointed(g, commits')
    BY SMT
  <1> QED
    BY <1>1, <1>2, <1>3, BecomeHead

(* A head may be moved to a stored commit. *)
LEMMA MoveHead ==
    ASSUME HeadInv, NEW r \in Repo, NEW b \in Branch, NEW c \in CommitId,
           SetBranch(r, b, c), Stored(commits, r, c), UNCHANGED commits
    PROVE  HeadsResolve' /\ CommitsOwned'
  <1>1. CommitsOwned'
    BY DEF HeadInv, CommitsOwned
  <1>2. ASSUME NEW x \in Repo, NEW y \in Branch, branches'[x][y] # None
        PROVE  commits'[x][branches'[x][y]] # None
               /\ commits'[x][branches'[x][y]].repo = x
    <2>1. CASE x = r /\ y = b
      BY <2>1 DEF HeadInv, TypeInv, StoreTypeOK, SetBranch, Stored, CommitsOwned
    <2>2. CASE ~ (x = r /\ y = b)
      <3>1. branches'[x][y] = branches[x][y]
        BY <2>2 DEF HeadInv, TypeInv, StoreTypeOK, SetBranch
      <3> QED
        BY <1>2, <3>1 DEF HeadInv, HeadsResolve
    <2> QED BY <2>1, <2>2
  <1> QED
    BY <1>1, <1>2 DEF HeadsResolve

(* put_commit keeps what is stored stored, and adds its own record.         *)
LEMMA AddCommit ==
    ASSUME HeadInv, NEW r \in Repo, NEW c \in CommitId, NEW d \in Doc,
           PutCommit(r, c, d), d.repo = r
    PROVE  /\ Stored(commits', r, c)
           /\ CommitsOwned'
           /\ \A x \in Repo, y \in CommitId : Stored(commits, x, y) => Stored(commits', x, y)
  <1>1. d # None
    BY StoreAssumption
  <1>2. \A x \in Repo, y \in CommitId :
           \/ commits'[x][y] = commits[x][y] /\ ((x = r /\ y = c) => commits[x][y] # None)
           \/ x = r /\ y = c /\ commits'[x][y] = d
    BY <1>1 DEF HeadInv, TypeInv, StoreTypeOK, PutCommit
  <1>3. Stored(commits', r, c)
    BY <1>1, <1>2 DEF Stored
  <1>4. CommitsOwned'
    BY <1>2 DEF HeadInv, CommitsOwned
  <1> QED
    BY <1>1, <1>2, <1>3, <1>4 DEF Stored

(* The head invariant is inductive. *)
LEMMA HeadStep ==
    ASSUME CheckedPublish, HeadInv, [Next]_vars
    PROVE  HeadInv'
  <1>t. TypeInv'
    BY TypeStep DEF HeadInv
  <1>0. CASE UNCHANGED vars
    BY <1>0, <1>t DEF HeadInv, HeadsResolve, CommitsOwned, vars
  <1> SUFFICES ASSUME NEW s \in Slot,
                      \/ Accept(s) \/ Validation(s) \/ Write(s) \/ UpdateBranch(s)
                      \/ CreateRepo(s) \/ ReadSource(s) \/ Respond(s) \/ Fault(s)
               PROVE  HeadInv'
    BY <1>0 DEF Next
  <1> DEFINE h == handler[s]
  <1>a. /\ h \in Handler /\ Ready(h) /\ Pointed(h, commits) /\ (h.pc # "idle" => h \in Busy)
        /\ StoreTypeOK /\ TypeInv /\ HeadsResolve /\ CommitsOwned
    BY DEF HeadInv, TypeInv, Ready
  <1> HIDE DEF h
  <1>b. ASSUME h \in Busy
        PROVE  /\ h.req \in Request /\ h.req.repo \in Repo /\ h.req.branch \in Branch
               /\ h.req.id \in CommitId /\ h.req.doc \in Doc /\ WellFormed(h.req)
               /\ h.req.updates \in Seq(Branch \X CommitId) /\ h.next \in Nat
               /\ DOMAIN h.req.updates = 1..Len(h.req.updates)
               /\ \A i \in DOMAIN h.req.updates :
                     h.req.updates[i][1] \in Branch /\ h.req.updates[i][2] \in CommitId
    <2>1. /\ h.req \in Request /\ h.req.repo \in Repo /\ h.req.branch \in Branch
          /\ h.req.id \in CommitId /\ h.req.doc \in Doc /\ WellFormed(h.req)
          /\ h.req.updates \in Seq(Branch \X CommitId) /\ h.next \in Nat
      BY <1>b, BusyTypes, RequestTypes
    <2> QED BY <2>1
  <1>1. CASE Accept(s)
    <2>1. UNCHANGED store /\ \E q \in Request : Become(s, Begin(q))
      BY <1>1 DEF Accept
    <2> QED
      BY <1>t, <2>1, HeadBegin, BecomeHeadStill DEF store
  <1>2. CASE ReadParent(s)
    <2>1. h.pc = "parents" /\ h \in Busy /\ UNCHANGED store
      BY <1>2, <1>a DEF ReadParent, h
    <2>2. PICK p \in h.parents :
            Become(s, Validate([h EXCEPT !.parents = @ \ {p},
                !.inherited = @ \cup IF commits[h.req.repo][p] = None THEN {}
                                     ELSE commits[h.req.repo][p].manifest]))
      BY <1>2 DEF ReadParent, h
    <2> DEFINE found == IF commits[h.req.repo][p] = None THEN {}
                        ELSE commits[h.req.repo][p].manifest
               g == [h EXCEPT !.parents = @ \ {p}, !.inherited = @ \cup found]
    <2>3. found \in SUBSET Digest
      BY <1>a, <1>b, <2>1, BusyTypes DEF StoreTypeOK, Doc
    <2>4. g \in Busy /\ g.req = h.req /\ g.next = h.next
      <3> HIDE DEF found
      <3> QED BY <2>1, <2>3 DEF Busy, Handler
    <2>5. Become(s, Validate(g))
      BY <2>2
    <2> HIDE DEF g, found
    <2>6. Pointed(Validate(g), commits)
      BY <1>a, <2>1, <2>4, HeadValidate DEF Pointed
    <2> QED
      BY <1>t, <2>1, <2>5, <2>6, BecomeHeadStill DEF store
  <1>3. ASSUME NEW g \in Busy, g.req = h.req, g.next = h.next, h.pc = "exists",
               Become(s, Settle(g)), UNCHANGED <<commits, branches>>
        PROVE  HeadInv'
    <2>1. h \in Busy
      BY <1>3, <1>a
    <2>2. Pointed(Settle(g), commits)
      BY <1>3, <1>a, <2>1, HeadSettle DEF Pointed
    <2> QED
      BY <1>3, <1>t, <2>2, BecomeHeadStill
  <1>4. CASE ExistsAll(s)
    <2> DEFINE g == [h EXCEPT !.todo = {}, !.missing = @ \cup (h.todo \ cas)]
    <2>1. h.pc = "exists" /\ h \in Busy /\ Become(s, Settle(g)) /\ UNCHANGED store
      BY <1>4, <1>a DEF ExistsAll, h
    <2>2. g \in Busy /\ g.req = h.req /\ g.next = h.next
      BY <2>1 DEF Busy, Handler
    <2> HIDE DEF g
    <2> QED BY <1>3, <2>1, <2>2 DEF store
  <1>5. CASE BlobExists(s)
    <2>1. h.pc = "exists" /\ h \in Busy /\ UNCHANGED store
      BY <1>5, <1>a DEF BlobExists, h
    <2>2. PICK d \in h.todo : Become(s, Settle([h EXCEPT
            !.todo = @ \ {d},
            !.backfill = IF d \in cas \ receipts THEN @ \cup {d} ELSE @,
            !.missing = IF d \in cas \cup receipts THEN @ ELSE @ \cup {d}]))
      BY <1>5 DEF BlobExists, h
    <2> DEFINE g == [h EXCEPT
            !.todo = @ \ {d},
            !.backfill = IF d \in cas \ receipts THEN @ \cup {d} ELSE @,
            !.missing = IF d \in cas \cup receipts THEN @ ELSE @ \cup {d}]
    <2>3. g \in Busy
      BY <2>1 DEF Busy, Handler
    <2>4. g.req = h.req /\ g.next = h.next
      BY <2>1 DEF Busy, Handler
    <2>5. Become(s, Settle(g))
      BY <2>2
    <2> HIDE DEF g
    <2> QED BY <1>3, <2>1, <2>3, <2>4, <2>5 DEF store
  <1>6. CASE Backfill(s)
    <2>1. h.pc = "exists" /\ h \in Busy /\ UNCHANGED <<commits, branches>>
      BY <1>6, <1>a DEF Backfill, h
    <2>2. PICK d \in h.backfill : Become(s, Settle([h EXCEPT !.backfill = @ \ {d}]))
      BY <1>6 DEF Backfill, h
    <2> DEFINE g == [h EXCEPT !.backfill = @ \ {d}]
    <2>3. g \in Busy /\ g.req = h.req /\ g.next = h.next
      BY <2>1 DEF Busy, Handler
    <2>4. Become(s, Settle(g))
      BY <2>2
    <2> HIDE DEF g
    <2> QED BY <1>3, <2>1, <2>3, <2>4
  <1>7. CASE FailLookup(s)
    <2>1. h.pc = "exists" /\ h \in Busy /\ UNCHANGED store
      BY <1>7, <1>a DEF FailLookup, h
    <2>2. PICK d \in h.todo \cup h.backfill :
            Become(s, Settle([h EXCEPT !.todo = @ \ {d}, !.backfill = @ \ {d},
                                       !.status = 500]))
      BY <1>7 DEF FailLookup, h
    <2> DEFINE k == [h EXCEPT !.todo = @ \ {d}, !.backfill = @ \ {d}]
               g == [k EXCEPT !.status = 500]
    <2>3. Become(s, Settle(g))
      BY <2>1, <2>2 DEF Busy, Handler
    <2>4. k \in Busy /\ k.req = h.req /\ k.next = h.next
      BY <2>1 DEF Busy, Handler
    <2> HIDE DEF k
    <2>5. g \in Busy /\ g.req = h.req /\ g.next = h.next
      BY <2>4 DEF Busy, Handler
    <2> HIDE DEF g
    <2> QED BY <1>3, <2>1, <2>3, <2>5 DEF store
  <1>8. CASE CheckTarget(s)
    <2> DEFINE g == [h EXCEPT !.next = @ + 1]
    <2>1. /\ h.pc = "targets" /\ h \in Busy /\ UNCHANGED store
          /\ \/ Become(s, Reply(h, 500))
             \/ TargetOK(h.req, commits, h.next) /\ Become(s, NextTarget(g))
      BY <1>8, <1>a DEF CheckTarget, TargetOK, Stored, h
    <2>2. g \in Busy /\ g.req = h.req /\ g.next = h.next + 1
      BY <2>1 DEF Busy, Handler
    <2> HIDE DEF g
    <2>3. ASSUME TargetOK(h.req, commits, h.next) PROVE Pointed(NextTarget(g), commits)
      <3>1. \A i \in 1..(g.next - 1) : TargetOK(g.req, commits, i)
        BY <1>a, <1>b, <2>1, <2>2, <2>3 DEF Pointed
      <3> QED
        BY <1>a, <2>1, <2>2, <3>1, HeadNextTarget DEF Pointed
    <2> QED
      BY <1>t, <2>1, <2>3, HeadReply, BecomeHeadStill DEF store
  <1>9. CASE PutBlob(s)
    <2>1. h.pc = "blob" /\ h \in Busy /\ UNCHANGED <<commits, branches>>
      BY <1>9, <1>a DEF PutBlob, h
    <2>2. PICK d \in h.todo :
            LET g == [h EXCEPT !.todo = @ \ {d}, !.wrote = TRUE] IN
            Become(s, IF Backend = "datamesh"
                      THEN [g EXCEPT !.pc = "receipt", !.backfill = {d}]
                      ELSE Goto(g, NextBlob(g)))
      BY <1>9 DEF PutBlob, h
    <2> DEFINE g == [h EXCEPT !.todo = @ \ {d}, !.wrote = TRUE]
               k == [g EXCEPT !.pc = "receipt", !.backfill = {d}]
    <2>3. g \in Busy /\ g.req = h.req /\ g.next = h.next
      BY <2>1 DEF Busy, Handler
    <2>4. Become(s, k) \/ Become(s, Goto(g, NextBlob(g)))
      BY <2>2
    <2> HIDE DEF g
    <2>5. Pointed(Goto(g, NextBlob(g)), commits)
      BY <1>a, <2>1, <2>3, HeadNextBlob DEF Pointed
    <2>6. Pointed(k, commits)
      <3>1. k.req = h.req /\ k.next = h.next /\ k.pc = "receipt"
        BY <2>3 DEF Busy, Handler
      <3> HIDE DEF k
      <3> QED BY <1>a, <2>1, <3>1 DEF Pointed
    <2> HIDE DEF k
    <2> QED
      BY <1>t, <2>1, <2>4, <2>5, <2>6, BecomeHeadStill
  <1>10. CASE PutReceipt(s)
    <2> DEFINE g == [h EXCEPT !.backfill = {}]
    <2>1. /\ h.pc = "receipt" /\ h \in Busy /\ Become(s, Goto(g, NextBlob(g)))
          /\ UNCHANGED <<commits, branches>>
      BY <1>10, <1>a DEF PutReceipt, h
    <2>2. g \in Busy /\ g.req = h.req /\ g.next = h.next
      BY <2>1 DEF Busy, Handler
    <2> HIDE DEF g
    <2>3. Pointed(Goto(g, NextBlob(g)), commits)
      BY <1>a, <2>1, <2>2, HeadNextBlob DEF Pointed
    <2> QED
      BY <1>t, <2>1, <2>3, BecomeHeadStill
  <1>11. CASE StoreCommit(s)
    <2> DEFINE g == [h EXCEPT !.wrote = TRUE]
    <2>1. /\ h.pc = "commit" /\ h \in Busy /\ Become(s, Goto(g, AfterCommit(g)))
          /\ PutCommit(h.req.repo, h.req.id, h.req.doc) /\ UNCHANGED branches
      BY <1>11, <1>a DEF StoreCommit, h
    <2>2. g \in Busy /\ g.req = h.req /\ g.next = h.next
      BY <2>1 DEF Busy, Handler
    <2> HIDE DEF g
    <2>3. h.req.doc.repo = h.req.repo
      BY <1>a, <1>b, <2>1 DEF Pointed, WellFormed
    <2>4. /\ Stored(commits', h.req.repo, h.req.id) /\ CommitsOwned'
          /\ \A x \in Repo, y \in CommitId : Stored(commits, x, y) => Stored(commits', x, y)
      BY <1>b, <2>1, <2>3, AddCommit
    <2>5. HeadsResolve'
      <3> SUFFICES ASSUME NEW r \in Repo, NEW b \in Branch, branches[r][b] # None
                   PROVE  commits'[r][branches[r][b]] # None
                          /\ commits'[r][branches[r][b]].repo = r
        BY <2>1 DEF HeadsResolve
      <3>1. branches[r][b] \in CommitId
        BY <1>a DEF StoreTypeOK
      <3> QED
        BY <1>a, <2>4, <3>1 DEF HeadsResolve, CommitsOwned, Stored
    <2>6. Pointed(Goto(g, AfterCommit(g)), commits')
      <3>1. CASE AfterCommit(g) = "reply"
        BY <2>2, <3>1, HeadReply DEF Goto
      <3>2. CASE AfterCommit(g) = "main"
        <4>1. h.req.op = "create_repo"
          BY <2>2, <3>2 DEF AfterCommit, NextUpdate
        <4> QED
          BY <2>2, <2>4, <3>2, <4>1 DEF Goto, Pointed, Busy, Handler
      <3>3. CASE AfterCommit(g) = "updates"
        <4>1. h.req.op = "publish"
          BY <2>2, <3>3 DEF AfterCommit, NextUpdate
        <4>2. \A i \in DOMAIN h.req.updates : Stored(commits', h.req.repo, h.req.updates[i][2])
          BY <1>a, <1>b, <2>1, <2>4, <4>1 DEF Pointed, TargetOK
        <4> DEFINE k == [g EXCEPT !.pc = "updates"]
        <4>3. Goto(g, AfterCommit(g)) = k /\ k.req = h.req /\ k.pc = "updates"
          BY <2>2, <3>3 DEF Goto, Busy, Handler
        <4> HIDE DEF k
        <4> QED
          BY <2>3, <4>2, <4>3 DEF Pointed
      <3> QED
        BY <3>1, <3>2, <3>3 DEF AfterCommit, NextUpdate
    <2> QED
      BY <1>t, <2>1, <2>4, <2>5, <2>6, BecomeHead
  <1>12. CASE MoveBranch(s)
    <2> DEFINE g == [h EXCEPT !.next = @ + 1]
               target == h.req.updates[h.next]
    <2>1. /\ h.pc = "updates" /\ h \in Busy /\ Become(s, Goto(g, NextUpdate(g)))
          /\ SetBranch(h.req.repo, target[1], target[2]) /\ UNCHANGED commits
      BY <1>12, <1>a DEF MoveBranch, h
    <2>2. g \in Busy /\ g.req = h.req
      BY <2>1 DEF Busy, Handler
    <2>3. h.next \in DOMAIN h.req.updates
      BY <1>a, <1>b, <2>1, BusyTypes DEF Ready
    <2>4. /\ target[1] \in Branch /\ target[2] \in CommitId
          /\ Stored(commits, h.req.repo, target[2])
      BY <1>a, <1>b, <2>1, <2>3 DEF Pointed
    <2> HIDE DEF g, target
    <2>5. HeadsResolve' /\ CommitsOwned'
      BY <1>b, <2>1, <2>4, MoveHead
    <2>6. Pointed(Goto(g, NextUpdate(g)), commits)
      <3>1. CASE NextUpdate(g) = "reply"
        BY <2>2, <3>1, HeadReply DEF Goto
      <3>2. CASE NextUpdate(g) = "updates"
        <4> DEFINE k == [g EXCEPT !.pc = "updates"]
        <4>1. Goto(g, NextUpdate(g)) = k /\ k.req = h.req /\ k.pc = "updates"
          BY <2>2, <3>2 DEF Goto, Busy, Handler
        <4> HIDE DEF k
        <4> QED
          BY <1>a, <2>1, <4>1 DEF Pointed
      <3> QED
        BY <3>1, <3>2 DEF NextUpdate
    <2>7. Pointed(Goto(g, NextUpdate(g)), commits')
      BY <2>1, <2>6
    <2> QED
      BY <1>t, <2>1, <2>5, <2>7, BecomeHead
  <1>13. CASE PublishMemory(s)
    <2> DEFINE g == [h EXCEPT !.wrote = TRUE]
    <2>1. /\ h.pc = "publish" /\ h \in Busy
          /\ \/ Become(s, Reply(h, 422)) /\ UNCHANGED store
             \/ Become(s, Reply(h, 500)) /\ UNCHANGED store
             \/ /\ Become(s, Reply(g, 201))
                /\ TargetsKnown(h.req)
                /\ PutCommit(h.req.repo, h.req.id, h.req.doc)
                /\ UpdateBranches(h.req.repo, h.req.updates)
      BY <1>13, <1>a DEF PublishMemory, h
    <2>2. g \in Busy
      BY <2>1 DEF Busy, Handler
    <2> HIDE DEF g
    <2>3. CASE UNCHANGED store /\ (Become(s, Reply(h, 422)) \/ Become(s, Reply(h, 500)))
      BY <1>t, <2>1, <2>3, HeadReply, BecomeHeadStill DEF store
    <2>4. CASE /\ Become(s, Reply(g, 201))
               /\ TargetsKnown(h.req)
               /\ PutCommit(h.req.repo, h.req.id, h.req.doc)
               /\ UpdateBranches(h.req.repo, h.req.updates)
      <3>1. h.req.doc.repo = h.req.repo
        BY <1>a, <1>b, <2>1 DEF Pointed
      <3>2. /\ Stored(commits', h.req.repo, h.req.id) /\ CommitsOwned'
            /\ \A x \in Repo, y \in CommitId : Stored(commits, x, y) => Stored(commits', x, y)
        BY <1>b, <2>1, <2>4, <3>1, AddCommit
      <3>3. \A i \in DOMAIN h.req.updates : Stored(commits', h.req.repo, h.req.updates[i][2])
        BY <1>b, <2>1, <2>4, <3>2 DEF TargetsKnown, Stored
      <3>4. \A x \in Repo, b \in Branch :
               \/ branches'[x][b] = branches[x][b]
               \/ x = h.req.repo /\ \E i \in DOMAIN h.req.updates :
                                        branches'[x][b] = h.req.updates[i][2]
        BY <1>a, <1>b, <2>1, <2>4, UpdateBranchesType
      <3>5. HeadsResolve'
        <4> SUFFICES ASSUME NEW r \in Repo, NEW b \in Branch, branches'[r][b] # None
                     PROVE  commits'[r][branches'[r][b]] # None
                            /\ commits'[r][branches'[r][b]].repo = r
          BY DEF HeadsResolve
        <4>1. branches'[r][b] \in CommitId
          BY <1>t DEF TypeInv, StoreTypeOK
        <4>2. Stored(commits', r, branches'[r][b])
          BY <1>a, <3>2, <3>3, <3>4, <4>1 DEF HeadsResolve, Stored
        <4> QED
          BY <3>2, <4>1, <4>2 DEF CommitsOwned, Stored
      <3> QED
        BY <1>t, <2>2, <2>4, <3>2, <3>5, HeadReply, BecomeHead
    <2> QED
      BY <2>1, <2>3, <2>4
  <1>14. CASE CheckCommit(s)
    <2>1. /\ h.pc = "check" /\ h \in Busy /\ UNCHANGED store
          /\ \/ \E code \in {422, 428} : Become(s, Reply(h, code))
             \/ /\ Stored(commits, h.req.repo, h.req.id)
                /\ \E pc \in {"cas", "set"} : Become(s, Goto(h, pc))
      BY <1>14, <1>a DEF CheckCommit, Stored, h
    <2>2. ASSUME Stored(commits, h.req.repo, h.req.id), NEW pc \in {"cas", "set"}
          PROVE  Pointed(Goto(h, pc), commits)
      <3> DEFINE k == [h EXCEPT !.pc = pc]
      <3>1. Goto(h, pc) = k /\ k.req = h.req /\ k.pc = pc /\ k.pc \in {"cas", "set"}
        BY <2>1, <2>2 DEF Goto, Busy, Handler
      <3> HIDE DEF k
      <3> QED BY <1>a, <2>1, <2>2, <3>1 DEF Pointed
    <2> QED
      BY <1>t, <2>1, <2>2, HeadReply, BecomeHeadStill DEF store
  <1>15. CASE CasSetBranch(s) \/ WriteBranch(s)
    <2> DEFINE g == [h EXCEPT !.wrote = TRUE]
    <2>1. /\ h.pc \in {"cas", "set"} /\ h \in Busy /\ UNCHANGED commits
          /\ \/ Become(s, Reply(h, 409)) /\ UNCHANGED branches
             \/ Become(s, Goto(h, "set")) /\ UNCHANGED branches
             \/ /\ Become(s, Reply(g, 200))
                /\ SetBranch(h.req.repo, h.req.branch, h.req.id)
      BY <1>15, <1>a DEF CasSetBranch, WriteBranch, h
    <2>2. g \in Busy
      BY <2>1 DEF Busy, Handler
    <2> HIDE DEF g
    <2>3. Stored(commits, h.req.repo, h.req.id)
      BY <1>a, <2>1 DEF Pointed
    <2>4. Pointed(Goto(h, "set"), commits)
      <3> DEFINE k == [h EXCEPT !.pc = "set"]
      <3>1. Goto(h, "set") = k /\ k.req = h.req /\ k.pc = "set"
        BY <2>1 DEF Goto, Busy, Handler
      <3> HIDE DEF k
      <3> QED BY <1>a, <2>1, <2>3, <3>1 DEF Pointed
    <2>5. CASE UNCHANGED branches /\ (Become(s, Reply(h, 409)) \/ Become(s, Goto(h, "set")))
      BY <1>t, <2>1, <2>4, <2>5, HeadReply, BecomeHeadStill
    <2>6. CASE Become(s, Reply(g, 200)) /\ SetBranch(h.req.repo, h.req.branch, h.req.id)
      <3>1. HeadsResolve' /\ CommitsOwned'
        BY <1>b, <2>1, <2>3, <2>6, MoveHead
      <3>2. Pointed(Reply(g, 200), commits')
        BY <2>2, HeadReply
      <3> QED
        BY <1>t, <2>1, <2>6, <3>1, <3>2, BecomeHead
    <2> QED
      BY <2>1, <2>5, <2>6
  <1>16. CASE LookupMain(s)
    <2> DEFINE g == [h EXCEPT !.pc = "private", !.id = branches[h.req.repo][Main]]
    <2>1. /\ h.pc = "lookup" /\ h \in Busy /\ UNCHANGED store
          /\ (Become(s, Reply(h, 200)) \/ Become(s, g))
      BY <1>16, <1>a DEF LookupMain, h
    <2>2. g.req = h.req /\ g.pc = "private"
      BY <2>1 DEF Busy, Handler
    <2> HIDE DEF g
    <2>3. Pointed(g, commits)
      BY <1>a, <2>1, <2>2 DEF Pointed
    <2> QED
      BY <1>t, <2>1, <2>3, HeadReply, BecomeHeadStill DEF store
  <1>17. CASE SetPrivate(s)
    <2>1. /\ h.pc = "private" /\ h \in Busy /\ UNCHANGED <<commits, branches>>
          /\ (Become(s, Reply(h, 200)) \/ Become(s, Goto(h, "commit")))
      BY <1>17, <1>a DEF SetPrivate, h
    <2>2. Pointed(Goto(h, "commit"), commits)
      BY <1>a, <2>1 DEF Goto, Pointed, Busy, Handler
    <2> QED
      BY <1>t, <2>1, <2>2, HeadReply, BecomeHeadStill
  <1>18. CASE SetMain(s)
    <2>1. /\ h.pc = "main" /\ h \in Busy /\ Become(s, Reply(h, 201))
          /\ SetBranch(h.req.repo, Main, h.req.id) /\ UNCHANGED commits
      BY <1>18, <1>a DEF SetMain, h
    <2>2. Stored(commits, h.req.repo, h.req.id)
      BY <1>a, <2>1 DEF Pointed
    <2>3. HeadsResolve' /\ CommitsOwned'
      BY <1>b, <2>1, <2>2, MoveHead, StoreAssumption
    <2>4. Pointed(Reply(h, 201), commits')
      BY <2>1, HeadReply
    <2> QED
      BY <1>t, <2>1, <2>3, <2>4, BecomeHead
  <1>19. CASE ResolveRef(s)
    <2> DEFINE found == IF h.req.head # None THEN h.req.head
                        ELSE branches[h.req.repo][h.req.branch]
               g == [h EXCEPT !.pc = "load", !.id = found]
    <2>1. h.pc = "resolve" /\ h \in Busy /\ UNCHANGED store /\ Become(s, g)
      BY <1>19, <1>a DEF ResolveRef, h
    <2>2. g.req = h.req /\ g.pc = "load"
      <3> HIDE DEF found
      <3> QED BY <2>1 DEF Busy, Handler
    <2> HIDE DEF g
    <2>3. Pointed(g, commits)
      BY <1>a, <2>1, <2>2 DEF Pointed
    <2> QED
      BY <1>t, <2>1, <2>3, BecomeHeadStill DEF store
  <1>20. CASE LoadCommit(s)
    <2> DEFINE c == commits[h.req.repo][h.id]
               g == [h EXCEPT !.pc = "stream", !.todo = c.manifest]
    <2>1. /\ h.pc = "load" /\ h \in Busy /\ UNCHANGED store
          /\ \/ \E code \in {404, 200} : Become(s, Reply(h, code))
             \/ Become(s, g)
      BY <1>20, <1>a DEF LoadCommit, h
    <2>2. g.req = h.req /\ g.pc = "stream"
      <3> HIDE DEF c
      <3> QED BY <2>1 DEF Busy, Handler
    <2> HIDE DEF g, c
    <2>3. Pointed(g, commits)
      BY <1>a, <2>1, <2>2 DEF Pointed
    <2> QED
      BY <1>t, <2>1, <2>3, HeadReply, BecomeHeadStill DEF store
  <1>21. CASE StreamBlob(s)
    <2>1. h \in Busy /\ h.pc = "stream" /\ UNCHANGED store
      BY <1>21, <1>a DEF StreamBlob, h
    <2>2. PICK d \in h.todo :
            LET g == [h EXCEPT !.todo = @ \ {d},
                               !.missing = IF d \in cas THEN @ ELSE {d}] IN
            Become(s, IF g.todo = {} \/ g.missing # {} THEN Reply(g, 200) ELSE g)
      BY <1>21 DEF StreamBlob, h
    <2> DEFINE g == [h EXCEPT !.todo = @ \ {d}, !.missing = IF d \in cas THEN @ ELSE {d}]
    <2>3. Become(s, Reply(g, 200)) \/ Become(s, g)
      BY <2>2
    <2>4. g \in Busy /\ g.pc = "stream" /\ g.req = h.req
      BY <2>1 DEF Busy, Handler
    <2> HIDE DEF g
    <2>5. Pointed(g, commits)
      BY <1>a, <2>1, <2>4 DEF Pointed
    <2> QED
      BY <1>t, <2>1, <2>3, <2>4, <2>5, HeadReply, BecomeHeadStill DEF store
  <1>22. CASE Respond(s) \/ Drop(s) \/ Fail(s)
    <2>1. UNCHANGED store /\ (Become(s, Idle) \/ (h \in Busy /\ Become(s, Reply(h, 500))))
      BY <1>22, <1>a DEF Respond, Drop, Fail, h
    <2>2. Pointed(Idle, commits)
      BY DEF Idle, Pointed
    <2> QED
      BY <1>t, <2>1, <2>2, HeadReply, BecomeHeadStill DEF store
  <1> QED
    BY <1>1, <1>2, <1>4, <1>5, <1>6, <1>7, <1>8, <1>9, <1>10, <1>11, <1>12, <1>13,
       <1>14, <1>15, <1>16, <1>17, <1>18, <1>19, <1>20, <1>21, <1>22
       DEF Validation, Write, UpdateBranch, CreateRepo, ReadSource, Fault

(* A branch never points at a commit that is not stored under the branch's  *)
(* own repository, for the memory and data-mesh stores and, without its     *)
(* unchecked publish, for PostgreSQL; store errors and handlers dropped     *)
(* between two calls included.                                              *)
THEOREM HeadsAlwaysResolve ==
    ASSUME CheckedPublish
    PROVE  Spec => []HeadsResolve
  <1>1. Init => HeadInv
    <2> SUFFICES ASSUME Init PROVE HeadInv
      OBVIOUS
    <2>1. TypeInv
      BY TypeInit
    <2>2. Pointed(Idle, commits)
      BY DEF Idle, Pointed
    <2> QED
      BY <2>1, <2>2 DEF Init, StoreInit, HeadInv, HeadsResolve, CommitsOwned
  <1>2. HeadInv /\ [Next]_vars => HeadInv'
    BY HeadStep
  <1>3. HeadInv => HeadsResolve
    BY DEF HeadInv
  <1> QED
    BY <1>1, <1>2, <1>3, PTL DEF Spec

(* A commit record, once stored, is never replaced or removed by the        *)
(* data-mesh and PostgreSQL stores.                                         *)
THEOREM CommitsNeverChange ==
    ASSUME Backend # "memory"
    PROVE  Spec => CommitsImmutable
  <1> DEFINE Kept == \A r \in Repo, c \in CommitId :
                        commits[r][c] # None => commits'[r][c] = commits[r][c]
  <1>1. TypeInv /\ [Next]_vars => [Kept]_vars
    <2> SUFFICES ASSUME TypeInv, Next PROVE Kept
      OBVIOUS
    <2>1. PICK s \in Slot :
            \/ Accept(s) \/ Validation(s) \/ Write(s) \/ UpdateBranch(s)
            \/ CreateRepo(s) \/ ReadSource(s) \/ Respond(s) \/ Fault(s)
      BY DEF Next
    <2>2. \/ UNCHANGED commits
          \/ StoreCommit(s) \/ PublishMemory(s)
      BY <2>1 DEF Accept, Validation, Write, UpdateBranch, CreateRepo, ReadSource,
                  Respond, Fault, ReadParent, ExistsAll, BlobExists, Backfill,
                  CheckTarget, PutBlob, PutReceipt, MoveBranch, CheckCommit,
                  CasSetBranch, WriteBranch, LookupMain, SetPrivate, SetMain,
                  ResolveRef, LoadCommit, StreamBlob, Fail, FailLookup, Drop, store
    <2>3. ASSUME NEW r \in Repo, NEW c \in CommitId, NEW d \in Doc, PutCommit(r, c, d)
          PROVE  Kept
      BY <2>3 DEF PutCommit, TypeInv, StoreTypeOK
    <2>4. handler[s].pc # "idle" => /\ handler[s].req.repo \in Repo
                                    /\ handler[s].req.id \in CommitId
                                    /\ handler[s].req.doc \in Doc
      BY BusyTypes, RequestTypes DEF TypeInv, Ready
    <2>5. CASE StoreCommit(s)
      BY <2>3, <2>4, <2>5 DEF StoreCommit
    <2>6. CASE PublishMemory(s)
      BY <2>3, <2>4, <2>6 DEF PublishMemory, store
    <2> QED
      BY <2>2, <2>5, <2>6
  <1> QED
    BY <1>1, TypeInvariant, PTL DEF Spec, CommitsImmutable

(* With FORGE_REQUIRE_CAS, on a store that compares and writes in one step, *)
(* a branch update never overwrites a head its client has not seen.         *)
THEOREM UpdatesAreConditional ==
    ASSUME RequireCas, Backend # "datamesh"
    PROVE  Spec => UpdateFromExpectedHead
  <1> DEFINE Expected == \A s \in Slot : UpdateBranch(s) =>
                           \A r \in Repo, b \in Branch :
                              branches'[r][b] # branches[r][b] =>
                                 branches[r][b] = handler[s].req.head
  <1>1. TypeInv /\ [Next]_vars => [Expected]_vars
    <2> SUFFICES ASSUME TypeInv, NEW s \in Slot, UpdateBranch(s),
                        NEW r \in Repo, NEW b \in Branch,
                        branches'[r][b] # branches[r][b]
                 PROVE  branches[r][b] = handler[s].req.head
      OBVIOUS
    <2>1. handler[s].pc # "set"
      BY DEF TypeInv, Ready, Unconditional
    <2>2. /\ handler[s].pc = "cas"
          /\ branches[handler[s].req.repo][handler[s].req.branch] = handler[s].req.head
          /\ SetBranch(handler[s].req.repo, handler[s].req.branch, handler[s].req.id)
      BY <2>1 DEF UpdateBranch, CheckCommit, CasSetBranch, WriteBranch, store
    <2>3. handler[s].req.repo \in Repo /\ handler[s].req.branch \in Branch
      BY <2>2, BusyTypes, RequestTypes DEF TypeInv, Ready
    <2>4. r = handler[s].req.repo /\ b = handler[s].req.branch
      BY <2>2, <2>3 DEF SetBranch, TypeInv, StoreTypeOK
    <2> QED
      BY <2>2, <2>4
  <1> QED
    BY <1>1, TypeInvariant, PTL DEF Spec, UpdateFromExpectedHead
=============================================================================

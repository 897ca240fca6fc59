---------------------------- MODULE ForgePublish ----------------------------
(***************************************************************************)
(* Clients running `aivcs publish` (crates/aivcs-cli, forge_remote.rs)     *)
(* against the handlers of ForgeCas.  A publish resolves the branch,       *)
(* creates the repository when the branch is absent, uploads what the      *)
(* parent tree lacks, posts the commit and moves the branch under the      *)
(* expectation that it still has the head it read.                         *)
(*                                                                         *)
(* A client that stops waiting (timeout, lost connection) leaves its       *)
(* request behind: the handler may still run to its end, be dropped, or    *)
(* fail.  GET routes are one store call and one action here; POST and PUT  *)
(* routes that take several calls run as handlers.                         *)
(***************************************************************************)
EXTENDS ForgeCas

CONSTANTS
    Client,      \* publishers
    Tree,        \* the digests of each publisher's working tree
    Name,        \* the (message, author) each publisher commits with
    Target,      \* the branch they publish to
    TheRepo,     \* the repository they publish to
    Forced,      \* publishers with AIVCS_PUBLISH_FORCE
    Created,     \* whether the repository exists at the start
    Attempts,    \* forge_upload_retries
    Runs         \* bound: how often a publisher runs the command again

ASSUME PublishAssumption ==
    /\ None \notin Client
    /\ Tree \in [Client -> SUBSET Digest]
    /\ \A c \in Client : Tree[c] # {}     \* "refusing to publish empty tree"
    /\ Name \in [Client -> Meta]
    /\ Target \in Branch
    /\ TheRepo \in Repo
    /\ Forced \subseteq Client
    /\ Created \in BOOLEAN
    /\ Attempts \in Nat \ {0}
    /\ Runs \in [Client -> Nat]

VARIABLES
    client,   \* the state of each publisher
    caller,   \* the client waiting for a handler, or None
    landed,   \* history: the commits the target branch has pointed to
    acked     \* history: the commits whose publisher was told of success

pvars == <<cas, receipts, commits, branches, private, handler,
           client, caller, landed, acked>>

ClientPC == {"resolve", "create", "creating", "resolve2", "upload", "commit",
             "committing", "probe", "update", "updating",
             "done", "conflict", "failed", "unknown"}

ClientState == [pc : ClientPC, head : CommitId \cup {None},
                id : CommitId \cup {None}, upload : SUBSET Digest,
                attempt : Nat, retry : BOOLEAN, runs : Nat]

Fresh == [pc |-> "resolve", head |-> None, id |-> None, upload |-> {},
          attempt |-> 0, retry |-> FALSE, runs |-> 0]

PublishTypeOK ==
    /\ TypeOK
    /\ client \in [Client -> ClientState]
    /\ caller \in [Slot -> Client \cup {None}]
    /\ landed \in SUBSET CommitId
    /\ acked \in SUBSET CommitId

(* The repository as create_repo leaves it, or nothing at all. *)
PublishInit ==
    /\ cas = {} /\ receipts = {}
    /\ private = [r \in Repo |-> None]
    /\ commits = [r \in Repo |-> [c \in CommitId |->
                    IF Created /\ c = Root[r] THEN Identity[c] ELSE None]]
    /\ branches = [r \in Repo |-> [b \in Branch |->
                    IF Created /\ b = Main THEN Root[r] ELSE None]]
    /\ handler = [s \in Slot |-> Idle]
    /\ client = [c \in Client |-> Fresh]
    /\ caller = [s \in Slot |-> None]
    /\ landed = {branches[TheRepo][Target]} \ {None}
    /\ acked = {}

-----------------------------------------------------------------------------
Tip == branches[TheRepo][Target]

Update(c, st) == client' = [client EXCEPT ![c] = st]

(* landed follows the branch through every step. *)
Record == landed' = landed \cup ({branches'[TheRepo][Target]} \ {None})

Local == UNCHANGED <<cas, receipts, commits, branches, private, handler,
                     caller, landed, acked>>

Free == {s \in Slot : handler[s].pc = "idle" /\ caller[s] = None}

(* Hand a request to the server and wait for its answer. *)
Send(c, q, st) ==
    /\ \E s \in Free : /\ Become(s, Begin(q))
                       /\ caller' = [caller EXCEPT ![s] = c]
    /\ Update(c, st)
    /\ UNCHANGED <<cas, receipts, commits, branches, private, landed, acked>>

Message(op, id) ==
    [op |-> op, repo |-> TheRepo, branch |-> Target, id |-> id,
     doc |-> Identity[id], blobs |-> {}, updates |-> <<>>, head |-> None,
     absent |-> FALSE, private |-> None]

(* The answer arrives: the handler is done and the connection is closed. *)
Receive(c, s, st) ==
    /\ caller[s] = c
    /\ handler[s].pc = "reply"
    /\ Become(s, Idle)
    /\ caller' = [caller EXCEPT ![s] = None]
    /\ Update(c, st)
    /\ UNCHANGED <<cas, receipts, commits, branches, private, landed>>

Succeeded(s) == handler[s].status \in 200..299

(* What the parent tree has need not be uploaded; when its manifest cannot  *)
(* be read the whole tree is.                                               *)
Uploads(c, head) ==
    LET parent == IF head = None THEN None ELSE commits[TheRepo][head]
    IN  {Tree[c]} \cup
            IF parent = None THEN {} ELSE {Tree[c] \ parent.manifest}

(* The commit the publish will post on top of the head it has read. *)
CommitOn(c, head) ==
    {id \in CommitId : Identity[id] =
        [repo |-> TheRepo, manifest |-> Tree[c],
         parents |-> {head} \ {None}, meta |-> Name[c]]}

Plan(c) ==
    \E up \in Uploads(c, Tip), id \in CommitOn(c, Tip) :
        Update(c, [client[c] EXCEPT !.pc = "upload", !.head = Tip,
                                    !.upload = up, !.id = id])

(* resolve_branch_optional, before and after the repository is created. *)
Resolve(c) ==
    /\ \/ /\ client[c].pc = "resolve"
          /\ Tip = None
          /\ Update(c, [client[c] EXCEPT !.pc = "create"])
       \/ /\ client[c].pc = "resolve"
          /\ Tip # None
          /\ Plan(c)
       \/ /\ client[c].pc = "resolve2"
          /\ Plan(c)
    /\ Local

SendCreate(c) ==
    /\ client[c].pc = "create"
    /\ Send(c, [Message("create_repo", Root[TheRepo]) EXCEPT !.branch = Main],
            [client[c] EXCEPT !.pc = "creating"])

ReceiveCreate(c, s) ==
    /\ client[c].pc = "creating"
    /\ Receive(c, s, [client[c] EXCEPT !.pc = IF Succeeded(s) THEN "resolve2"
                                              ELSE "failed"])
    /\ UNCHANGED acked

(* upload_blobs: the order of the uploads does not matter, so one at a time. *)
Upload(c) ==
    /\ client[c].pc = "upload"
    /\ client[c].upload # {}
    /\ \E d \in client[c].upload :
        /\ cas' = cas \cup {d}
        /\ receipts' = IF Backend = "datamesh" THEN receipts \cup {d} ELSE receipts
        /\ Update(c, [client[c] EXCEPT !.upload = @ \ {d}])
    /\ UNCHANGED <<commits, branches, private, handler, caller, landed, acked>>

Uploaded(c) ==
    /\ client[c].pc = "upload"
    /\ client[c].upload = {}
    /\ Update(c, [client[c] EXCEPT !.pc = "commit", !.attempt = 0])
    /\ Local

-----------------------------------------------------------------------------
(* post_commit: after a timeout or an error the client looks whether its    *)
(* commit is there, under the id it can compute itself.                     *)

(* A plausible bug: the attempts are not counted. *)
SendCommitUncounted(c) ==
    /\ client[c].pc = "commit"
    /\ Send(c, Message("create_commit", client[c].id),
            [client[c] EXCEPT !.pc = "committing"])

SendCommit(c) ==
    /\ client[c].pc = "commit"
    /\ Send(c, Message("create_commit", client[c].id),
            [client[c] EXCEPT !.pc = "committing", !.attempt = @ + 1])

(* A plausible bug: a state that nothing handles. *)
ReceiveCommitRetrying(c, s) ==
    /\ client[c].pc = "committing"
    /\ Receive(c, s, [client[c] EXCEPT !.pc = IF Succeeded(s) THEN "update"
                                              ELSE "retrying"])
    /\ UNCHANGED acked

ReceiveCommit(c, s) ==
    /\ client[c].pc = "committing"
    /\ Receive(c, s, [client[c] EXCEPT !.pc = IF Succeeded(s) THEN "update"
                                              ELSE "probe", !.retry = FALSE])
    /\ UNCHANGED acked

Probe(c) ==
    LET st == client[c] IN
    /\ st.pc = "probe"
    /\ \/ /\ commits[TheRepo][st.id] # None
          /\ Update(c, [st EXCEPT !.pc = "update"])
       \/ \* not there, or the probe itself failed
          Update(c, [st EXCEPT !.pc =
              IF st.retry /\ st.attempt < Attempts THEN "commit" ELSE "failed"])
    /\ Local

(* A plausible bug: the expectation is the head at the time of the update,  *)
(* not the head the commit was built on.                                    *)
SendUpdateReread(c) ==
    /\ client[c].pc = "update"
    /\ Send(c, [Message("update_branch", client[c].id) EXCEPT
                   !.head = Tip, !.absent = Tip = None],
            [client[c] EXCEPT !.pc = "updating"])

(* update_branch: one attempt, conditioned on the head that was read. *)
SendUpdate(c) ==
    LET st == client[c] IN
    /\ st.pc = "update"
    /\ Send(c, [Message("update_branch", st.id) EXCEPT
                   !.head = IF c \in Forced THEN None ELSE st.head,
                   !.absent = c \notin Forced /\ st.head = None],
            [st EXCEPT !.pc = "updating"])

(* A plausible bug: every refusal is reported as a conflict. *)
ReceiveUpdateAnyError(c, s) ==
    /\ client[c].pc = "updating"
    /\ Receive(c, s, [client[c] EXCEPT !.pc = IF Succeeded(s) THEN "done"
                                              ELSE "conflict"])
    /\ acked' = IF Succeeded(s) THEN acked \cup {client[c].id} ELSE acked

ReceiveUpdate(c, s) ==
    /\ client[c].pc = "updating"
    /\ Receive(c, s, [client[c] EXCEPT !.pc =
            CASE Succeeded(s)            -> "done"
              [] handler[s].status = 409 -> "conflict"
              [] OTHER                   -> "failed"])
    /\ acked' = IF Succeeded(s) THEN acked \cup {client[c].id} ELSE acked

-----------------------------------------------------------------------------
(* Faults of the network, and the user running the command again. *)

(* A read or an upload fails for good. *)
Abort(c) ==
    /\ client[c].pc \in {"resolve", "resolve2", "upload"}
    /\ Update(c, [client[c] EXCEPT !.pc = "failed"])
    /\ Local

(* The client stops waiting for the answer; the handler lives on unheard.   *)
(* Only a timeout, not a broken connection, makes post_commit try again.    *)
GiveUp(c, s) ==
    /\ caller[s] = c
    /\ caller' = [caller EXCEPT ![s] = None]
    /\ \/ /\ client[c].pc = "creating"
          /\ Update(c, [client[c] EXCEPT !.pc = "failed"])
       \/ /\ client[c].pc = "committing"
          /\ \E timeout \in BOOLEAN :
                Update(c, [client[c] EXCEPT !.pc = "probe", !.retry = timeout])
       \/ /\ client[c].pc = "updating"
          /\ Update(c, [client[c] EXCEPT !.pc = "unknown"])
    /\ UNCHANGED <<cas, receipts, commits, branches, private, handler, landed, acked>>

Rerun(c) ==
    /\ client[c].pc \in {"done", "conflict", "failed", "unknown"}
    /\ client[c].runs < Runs[c]
    /\ Update(c, [Fresh EXCEPT !.runs = client[c].runs + 1])
    /\ Local

(* The server: a handler's next store call, the end of one nobody waits     *)
(* for, and the faults of ForgeCas.                                         *)
Serve(s) ==
    /\ Validation(s) \/ Write(s) \/ UpdateBranch(s) \/ CreateRepo(s)
    /\ Record
    /\ UNCHANGED <<client, caller, acked>>

Discard(s) ==
    /\ caller[s] = None
    /\ Respond(s)
    /\ UNCHANGED <<client, caller, landed, acked>>

ServerFault(s) ==
    /\ Fault(s)
    /\ UNCHANGED <<client, caller, landed, acked>>

ClientStep(c) ==
    \/ Resolve(c) \/ SendCreate(c) \/ Upload(c) \/ Uploaded(c)
    \/ SendCommit(c) \/ Probe(c) \/ SendUpdate(c)
    \/ \E s \in Slot : ReceiveCreate(c, s) \/ ReceiveCommit(c, s) \/ ReceiveUpdate(c, s)

ClientFault(c) == Abort(c) \/ (\E s \in Slot : GiveUp(c, s)) \/ Rerun(c)

PublishNext ==
    \/ \E c \in Client : ClientStep(c) \/ ClientFault(c)
    \/ \E s \in Slot : Serve(s) \/ Discard(s) \/ ServerFault(s)

PublishSpec == PublishInit /\ [][PublishNext]_pvars

(* Every task the runtime schedules makes progress: a handler runs to its   *)
(* reply, a client takes its next step, and one whose handler was dropped   *)
(* notices the broken connection.  Neither the user's reruns nor the faults *)
(* are fair.                                                                *)
Fairness ==
    /\ \A c \in Client :
        /\ WF_pvars(ClientStep(c))
        /\ WF_pvars(\E s \in Slot : handler[s].pc = "idle" /\ GiveUp(c, s))
    /\ \A s \in Slot : WF_pvars(Serve(s)) /\ WF_pvars(Discard(s))

FairPublish == PublishSpec /\ Fairness

-----------------------------------------------------------------------------
(* What a publisher may rely on: the branch only moves forward, from a      *)
(* commit to a child of it, and success is only reported of a commit that   *)
(* the branch did point to.                                                 *)
Log == INSTANCE PublishLog WITH head <- Tip

LinearHistory == Log!LogSpec

(* No acknowledged publish is ever lost: it was the head, and every former  *)
(* head has a child that was head after it, up to the present one.          *)
AckedNotLost ==
    /\ acked \subseteq landed
    /\ \A x \in landed : x = Tip \/ \E y \in landed : x \in Identity[y].parents

(* A publisher told that the branch moved has not published: "Nothing was   *)
(* written.  Re-fetch the branch, restage your files".                      *)
ConflictNotPublished ==
    \A c \in Client : client[c].pc = "conflict" => client[c].id \notin landed

(* What a publisher is told is true, and its retry counter, its parent and  *)
(* its commit stay within what forge_remote allows, whatever is lost,       *)
(* repeated or late.                                                        *)
PublishSafe == PublishTypeOK /\ ConflictNotPublished

Ended == {"done", "conflict", "failed", "unknown"}

(* Every publish ends, whatever fails underneath it. *)
EveryPublishEnds == \A c \in Client : client[c].pc = "resolve" ~> client[c].pc \in Ended

(* Publishers that race for a branch do not all lose: unless some publish   *)
(* fails, or nobody hears how it went, one of them succeeds.                *)
SomePublishSucceeds ==
    (\A c \in Client : [](client[c].pc \notin {"failed", "unknown"})) => <>(acked # {})

(* The retry loop of forge_remote terminates, and a race has a winner.      *)
PublishLive == EveryPublishEnds /\ SomePublishSucceeds

=============================================================================

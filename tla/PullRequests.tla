---------------------------- MODULE PullRequests ----------------------------
(***************************************************************************)
(* `aivcs pr`: opening a change request on GitHub or GitLab with a digest  *)
(* of the workspace in its body, committing a file to its branch, and the  *)
(* two checks a CI job makes of the body.  Several authors use one branch  *)
(* of one project, a workspace changes while a command runs, and each call *)
(* to the host is a step.  The host itself is external.                    *)
(***************************************************************************)
EXTENDS Naturals

CONSTANTS Author,
          Host,           (* the hosts to try *)
          LibrarianSet,   (* whether RELIC_LIBRARIAN_USERNAME is set *)
          Content,        (* contents of the file the commands commit *)
          Env,            (* environments: flake and toolchain *)
          MaxPrCommands,  (* bound on commands *)
          MaxPrEdits      (* bound on changes of a workspace *)

(* GitHost::detect chooses one of two. *)
GitHost == {"github", "gitlab"}

ASSUME PullRequestAssumption ==
    Host \subseteq GitHost /\ MaxPrCommands \in Nat /\ MaxPrEdits \in Nat

(* PrAction: the subcommands that call the host, and their switches.       *)
PrAction == [kind : {"open", "branch", "commit", "pipeline"}, skipBranch : BOOLEAN,
             librarian : BOOLEAN]

(* CiSnapshot: the commit, the files of the tree with the configuration of *)
(* the local CI among them, the environment.                               *)
CiSnapshot == [sha : Nat \ {0}, content : Content \cup {"absent"}, env : Env]

Nothing == [sha |-> 0]
IdleCommand == [pc |-> "idle"]

VARIABLES host,        (* GitHost::detect *)
          workspace,   (* workspace[a]: the author's checkout: [sha, content, env] *)
          command,     (* command[a]: the running command *)
          branch,      (* the branch on the host: [exists, sha, content] *)
          request,     (* the open change request, the digest in its body and what it was taken of *)
          accepted,    (* the checkout that verify-snapshot last accepted, and the workspace
                          the digest was taken of *)
          prCommands, prEdits

requestVars == <<host, workspace, command, branch, request, accepted, prCommands, prEdits>>

RequestInit ==
    /\ host \in Host
    /\ workspace \in [Author -> {[sha |-> 1, content |-> "absent", env |-> e] : e \in Env}]
    /\ command = [a \in Author |-> IdleCommand]
    /\ branch = [exists |-> FALSE, sha |-> 1, content |-> "absent"]
    /\ request = [open |-> FALSE]
    /\ accepted = [taken |-> Nothing, checkout |-> Nothing]
    /\ prCommands = 0 /\ prEdits = 0

-----------------------------------------------------------------------------
(* build_ci_snapshot and CiSnapshot::digest: the commit, every file of the *)
(* tree, the configuration of the local CI and the environment.  A digest  *)
(* stands for what it was computed from.                                   *)
(* A plausible bug: the digest is taken over the commit and the            *)
(* environment, and not over the files.                                    *)
SnapshotDigestOfHead(w) == [sha |-> w.sha, env |-> w.env]

SnapshotDigest(w) == [sha |-> w.sha, content |-> w.content, env |-> w.env]

EditWorkspace(a, c, e) ==
    /\ prEdits < MaxPrEdits /\ prEdits' = prEdits + 1
    /\ workspace' = [workspace EXCEPT ![a].content = c, ![a].env = e]
    /\ UNCHANGED <<host, command, branch, request, accepted, prCommands>>

(* The author fetches the branch, and what was committed to it.            *)
Pull(a) ==
    /\ branch.exists /\ workspace[a].sha # branch.sha
    /\ workspace' = [workspace EXCEPT ![a].sha = branch.sha, ![a].content = branch.content]
    /\ UNCHANGED <<host, command, branch, request, accepted, prCommands, prEdits>>

(* cmd_pr_open, cmd_pr_branch, cmd_pr_commit and cmd_pr_pipeline are a     *)
(* snapshot and a list of the calls that remain.                           *)
CallsOf(action) ==
    CASE action.kind = "open"   -> {"request"}
      [] action.kind = "branch" -> {"branch"}
      [] action.kind = "commit" -> {"lookup", "put"}
      [] OTHER -> {"lookup", "put", "request"} \cup (IF action.skipBranch THEN {} ELSE {"branch"})

Start(a, action) ==
    /\ command[a] = IdleCommand /\ prCommands < MaxPrCommands
    /\ prCommands' = prCommands + 1
    /\ command' = [command EXCEPT ![a] =
                     [pc |-> "running", calls |-> CallsOf(action), seen |-> 0,
                      body |-> SnapshotDigest(workspace[a]), taken |-> workspace[a],
                      librarian |-> action.librarian /\ host = "github" /\ "request" \in CallsOf(action)]]
    /\ UNCHANGED <<host, workspace, branch, request, accepted, prEdits>>

PendingCall(a) ==
    CASE "branch" \in command[a].calls -> "branch"
      [] "branch" \notin command[a].calls /\ "lookup" \in command[a].calls -> "lookup"
      [] {"branch", "lookup"} \cap command[a].calls = {} /\ "put" \in command[a].calls -> "put"
      [] OTHER -> "request"

Returns(a, call) ==
    command' = [command EXCEPT ![a] =
                  IF command[a].calls = {call} THEN IdleCommand
                  ELSE [command[a] EXCEPT !.calls = @ \ {call}]]

GivesUp(a) == command' = [command EXCEPT ![a] = IdleCommand]

Calling(a, call) == command[a] # IdleCommand /\ PendingCall(a) = call

(* create_branch: the host refuses a branch that exists.                   *)
HostCreatesBranch == ~branch.exists /\ branch' = [branch EXCEPT !.exists = TRUE]

CreateBranch(a) ==
    /\ Calling(a, "branch")
    /\ \/ GivesUp(a) /\ UNCHANGED branch
       \/ HostCreatesBranch /\ Returns(a, "branch")
    /\ UNCHANGED <<host, workspace, request, accepted, prCommands, prEdits>>

(* commit_file looks the file up first.  On GitHub a lookup that fails     *)
(* counts as no file, on GitLab only an answer does.                       *)
LookupFile(a) ==
    /\ Calling(a, "lookup")
    /\ \/ /\ command' = [command EXCEPT ![a].calls = @ \ {"lookup"}, ![a].seen =
                           IF branch.exists /\ branch.content # "absent" THEN branch.sha ELSE 0]
       \/ /\ host = "github"
          /\ command' = [command EXCEPT ![a].calls = @ \ {"lookup"}, ![a].seen = 0]
       \/ host = "gitlab" /\ GivesUp(a)
    /\ UNCHANGED <<host, workspace, branch, request, accepted, prCommands, prEdits>>

(* The commit.  GitHub compares the file with the one seen; GitLab only    *)
(* asks that it exists when it is to be updated.                           *)
HostAccepts(seen) ==
    /\ branch.exists
    /\ IF seen = 0 THEN branch.content = "absent"
       ELSE branch.content # "absent" /\ (host = "github" => seen = branch.sha)

PutFile(a) ==
    /\ Calling(a, "put")
    /\ \/ GivesUp(a) /\ UNCHANGED branch
       \/ /\ HostAccepts(command[a].seen)
          /\ branch' = [branch EXCEPT !.sha = @ + 1, !.content = workspace[a].content]
          /\ Returns(a, "put")
    /\ UNCHANGED <<host, workspace, request, accepted, prCommands, prEdits>>

(* open_change_request: the request is open before a reviewer is asked     *)
(* for, so a missing name of the librarian fails with the request open.    *)
ReviewRequested(a) == command[a].librarian /\ LibrarianSet

HostOpensRequest(a) ==
    /\ branch.exists /\ ~request.open
    /\ request' = [open |-> TRUE, body |-> command[a].body, taken |-> command[a].taken,
                   reviewed |-> ReviewRequested(a)]

OpenRequest(a) ==
    /\ Calling(a, "request") /\ GivesUp(a)
    /\ HostOpensRequest(a) \/ UNCHANGED request
    /\ UNCHANGED <<host, workspace, branch, accepted, prCommands, prEdits>>

(* cmd_pr_verify_snapshot, in a CI job that checks the branch out in an    *)
(* environment of its own.                                                 *)
VerifySnapshot(e) ==
    /\ request.open
    /\ LET checkout == [sha |-> branch.sha, content |-> branch.content, env |-> e]
       IN  /\ SnapshotDigest(checkout) = request.body
           /\ accepted' = [taken |-> request.taken, checkout |-> checkout]
    /\ UNCHANGED <<host, workspace, command, branch, request, prCommands, prEdits>>

RequestNext ==
    \/ \E a \in Author, c \in Content, e \in Env : EditWorkspace(a, c, e)
    \/ \E a \in Author : Pull(a)
    \/ \E a \in Author, action \in PrAction : Start(a, action)
    \/ \E a \in Author : CreateBranch(a) \/ LookupFile(a) \/ PutFile(a) \/ OpenRequest(a)
    \/ \E e \in Env : VerifySnapshot(e)

RequestSpec == RequestInit /\ [][RequestNext]_requestVars

-----------------------------------------------------------------------------
RequestTypeOK ==
    /\ host \in GitHost
    /\ workspace \in [Author -> CiSnapshot]
    /\ \A a \in Author : command[a] = IdleCommand \/
          /\ command[a].calls \subseteq {"branch", "lookup", "put", "request"}
          /\ command[a].calls # {} /\ command[a].seen \in 0 .. branch.sha
          /\ command[a].taken \in CiSnapshot
    /\ branch \in [exists : BOOLEAN, sha : Nat \ {0}, content : Content \cup {"absent"}]
    /\ accepted.checkout = Nothing \/ accepted.checkout \in CiSnapshot
    /\ prCommands \in 0 .. MaxPrCommands /\ prEdits \in 0 .. MaxPrEdits

(* A request that verify-snapshot accepts holds what its author ran the    *)
(* local CI on: the commit, the files and the environment checked out are  *)
(* those of the workspace the digest was taken of, whatever was edited     *)
(* after the digest, committed by others to the branch or left unpushed.   *)
VerifiedAsTaken == accepted.checkout = accepted.taken

=============================================================================

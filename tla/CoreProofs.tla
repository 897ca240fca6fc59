----------------------------- MODULE CoreProofs -----------------------------
(***************************************************************************)
(* Theorems about six parts of the core, for any numbers of authors,       *)
(* exporters, reviewers, files, repositories, runs and workers: the        *)
(* snapshot of a change request, the trace artifacts, human approval, the  *)
(* working trees of push and pull, the orchestrators of several            *)
(* repositories, and the commands that write agent commits.                *)
(***************************************************************************)
EXTENDS LibraryProofs, PullRequests, TraceStore, Hitl, WorkTree, MultiRepo, VcsCommands

-----------------------------------------------------------------------------
(* Change requests.  A running command, as Start makes it: the body that   *)
(* goes into the request is the digest of the workspace taken then, which  *)
(* the author may edit afterwards.                                         *)
RunningCommand ==
    [pc : {"running"}, calls : SUBSET {"branch", "lookup", "put", "request"}, seen : Nat,
     body : CiSnapshot, taken : CiSnapshot, librarian : BOOLEAN]

CommandOK(k, sha) ==
    \/ k = IdleCommand
    \/ /\ k \in RunningCommand
       /\ k.calls # {} /\ k.seen <= sha
       /\ "lookup" \in k.calls => "put" \in k.calls
       /\ k.body = k.taken

RequestOK(q) == q.open => q.taken \in CiSnapshot /\ q.body = q.taken

BranchType == [exists : BOOLEAN, sha : Nat \ {0}, content : Content \cup {"absent"}]

(* What is inductive about change requests. *)
RequestInv ==
    /\ host \in GitHost
    /\ workspace \in [Author -> CiSnapshot]
    /\ DOMAIN command = Author /\ command = [a \in Author |-> command[a]]
    /\ \A a \in Author : CommandOK(command[a], branch.sha)
    /\ branch \in BranchType
    /\ RequestOK(request)
    /\ accepted.checkout = Nothing \/ accepted.checkout \in CiSnapshot
    /\ accepted.checkout = accepted.taken
    /\ prCommands \in 0 .. MaxPrCommands /\ prEdits \in 0 .. MaxPrEdits

(* A digest stands for the snapshot it was computed from. *)
LEMMA DigestOfSnapshot ==
    ASSUME NEW w \in CiSnapshot
    PROVE  SnapshotDigest(w) = w
  BY DEF SnapshotDigest, CiSnapshot

(* The calls of a command: a commit is preceded by its lookup. *)
LEMMA CallsOfAction ==
    ASSUME NEW action \in PrAction
    PROVE  /\ CallsOf(action) \subseteq {"branch", "lookup", "put", "request"}
           /\ CallsOf(action) # {}
           /\ "lookup" \in CallsOf(action) => "put" \in CallsOf(action)
  <1>1. CASE action.kind = "open"
    BY <1>1 DEF CallsOf
  <1>2. CASE action.kind = "branch"
    BY <1>2 DEF CallsOf
  <1>3. CASE action.kind = "commit"
    BY <1>3 DEF CallsOf
  <1>4. CASE action.kind = "pipeline"
    BY <1>4 DEF CallsOf
  <1> QED BY <1>1, <1>2, <1>3, <1>4 DEF PrAction

(* A command stays well formed when the branch moves on. *)
LEMMA CommandLater ==
    ASSUME NEW k, NEW m \in Nat, NEW n \in Nat, m <= n, CommandOK(k, m)
    PROVE  CommandOK(k, n)
  BY DEF CommandOK, RunningCommand

(* A call that returned is taken off the list; the command ends with it    *)
(* when it was the last.                                                   *)
LEMMA PrReturns ==
    ASSUME NEW k \in RunningCommand, NEW n \in Nat, CommandOK(k, n), NEW call, k.calls # {call},
           call = "put" => "lookup" \notin k.calls
    PROVE  CommandOK([k EXCEPT !.calls = @ \ {call}], n)
  BY DEF CommandOK, RunningCommand, IdleCommand

(* The file was looked up, and the commit of it is left to do. *)
LEMMA CommandLooksUp ==
    ASSUME NEW k \in RunningCommand, NEW n \in Nat, CommandOK(k, n), "lookup" \in k.calls,
           NEW seen \in Nat, seen <= n
    PROVE  CommandOK([k EXCEPT !.calls = @ \ {"lookup"}, !.seen = seen], n)
  BY DEF CommandOK, RunningCommand, IdleCommand

(* A command that calls the host is a running one, and its pending call is *)
(* on its list.                                                            *)
LEMMA PendingOnList ==
    ASSUME NEW a \in Author, NEW call, NEW n, CommandOK(command[a], n), Calling(a, call)
    PROVE  /\ command[a] \in RunningCommand
           /\ call \in command[a].calls
           /\ call = "put" => "lookup" \notin command[a].calls
  <1>1. command[a] \in RunningCommand /\ command[a].calls # {}
    BY DEF Calling, CommandOK
  <1>2. command[a].calls \subseteq {"branch", "lookup", "put", "request"}
    BY <1>1 DEF RunningCommand
  <1>3. call = PendingCall(a)
    BY DEF Calling
  <1> QED BY <1>1, <1>2, <1>3 DEF PendingCall

(* Every step of a command, of an author or of a CI job keeps RequestInv. *)
LEMMA RequestStep ==
    ASSUME RequestInv, [RequestNext]_requestVars
    PROVE  RequestInv'
  <1> USE PullRequestAssumption
  <1>sha. /\ branch.sha \in Nat /\ branch.sha # 0 /\ branch.content \in Content \cup {"absent"}
          /\ branch.exists \in BOOLEAN
    BY DEF RequestInv, BranchType
  <1>1. ASSUME NEW a \in Author, NEW c \in Content, NEW e \in Env, EditWorkspace(a, c, e)
        PROVE  RequestInv'
    <2>1. workspace[a] \in CiSnapshot
      BY DEF RequestInv
    <2>2. workspace' \in [Author -> CiSnapshot]
      BY <1>1, <2>1 DEF EditWorkspace, RequestInv, CiSnapshot
    <2> QED BY <1>1, <2>2 DEF EditWorkspace, RequestInv
  <1>2. ASSUME NEW a \in Author, Pull(a)
        PROVE  RequestInv'
    <2>1. workspace[a] \in CiSnapshot
      BY DEF RequestInv
    <2>2. workspace' \in [Author -> CiSnapshot]
      BY <1>2, <2>1, <1>sha DEF Pull, RequestInv, CiSnapshot
    <2> QED BY <1>2, <2>2 DEF Pull, RequestInv
  <1>3. ASSUME NEW a \in Author, NEW action \in PrAction, Start(a, action)
        PROVE  RequestInv'
    <2>1. workspace[a] \in CiSnapshot /\ SnapshotDigest(workspace[a]) = workspace[a]
      BY DigestOfSnapshot DEF RequestInv
    <2>2. PICK k : k = [pc |-> "running", calls |-> CallsOf(action), seen |-> 0,
                      body |-> SnapshotDigest(workspace[a]), taken |-> workspace[a],
                      librarian |-> action.librarian /\ host = "github" /\ "request" \in CallsOf(action)]
      OBVIOUS
    <2>3. k \in RunningCommand /\ k.calls = CallsOf(action) /\ k.seen = 0 /\ k.body = k.taken
      BY <2>1, <2>2, CallsOfAction DEF RunningCommand
    <2>4. CommandOK(k, branch.sha)
      BY <2>3, CallsOfAction, <1>sha DEF CommandOK
    <2>5. command' = [command EXCEPT ![a] = k]
      BY <1>3, <2>2 DEF Start
    <2> QED BY <1>3, <2>4, <2>5 DEF Start, RequestInv
  <1>give. ASSUME NEW a \in Author, GivesUp(a), UNCHANGED branch
           PROVE  /\ DOMAIN command' = Author /\ command' = [b \in Author |-> command'[b]]
                  /\ \A b \in Author : CommandOK(command'[b], branch'.sha)
    BY <1>give DEF GivesUp, RequestInv, CommandOK
  <1>ret. ASSUME NEW a \in Author, NEW call, Calling(a, call), Returns(a, call),
                 branch'.sha \in Nat, branch.sha <= branch'.sha
          PROVE  /\ DOMAIN command' = Author /\ command' = [b \in Author |-> command'[b]]
                 /\ \A b \in Author : CommandOK(command'[b], branch'.sha)
    <2>1. \A b \in Author : CommandOK(command[b], branch'.sha)
      BY <1>ret, <1>sha, CommandLater DEF RequestInv
    <2>2. command[a] \in RunningCommand /\ (call = "put" => "lookup" \notin command[a].calls)
      BY <1>ret, <2>1, PendingOnList
    <2>3. command[a].calls # {call} => CommandOK([command[a] EXCEPT !.calls = @ \ {call}], branch'.sha)
      BY <1>ret, <2>1, <2>2, PrReturns
    <2>4. CommandOK(IdleCommand, branch'.sha)
      BY DEF CommandOK
    <2>5. PICK k : k = IF command[a].calls = {call} THEN IdleCommand
                       ELSE [command[a] EXCEPT !.calls = @ \ {call}]
      OBVIOUS
    <2>6. CommandOK(k, branch'.sha)
      BY <2>3, <2>4, <2>5
    <2>7. command' = [command EXCEPT ![a] = k]
      BY <1>ret, <2>5 DEF Returns
    <2> QED BY <2>1, <2>6, <2>7 DEF RequestInv
  <1>4. ASSUME NEW a \in Author, CreateBranch(a)
        PROVE  RequestInv'
    <2>1. branch' \in BranchType /\ branch'.sha = branch.sha
      BY <1>4 DEF CreateBranch, HostCreatesBranch, RequestInv, BranchType
    <2>2. /\ DOMAIN command' = Author /\ command' = [b \in Author |-> command'[b]]
          /\ \A b \in Author : CommandOK(command'[b], branch'.sha)
      <3>1. CASE GivesUp(a) /\ UNCHANGED branch
        BY <3>1, <1>give
      <3>2. CASE Returns(a, "branch")
        <4>1. Calling(a, "branch") /\ branch'.sha \in Nat /\ branch.sha <= branch'.sha
          BY <1>4, <2>1, <1>sha DEF CreateBranch
        <4> QED BY <3>2, <4>1, <1>ret
      <3> QED BY <1>4, <3>1, <3>2 DEF CreateBranch
    <2> QED BY <1>4, <2>1, <2>2 DEF CreateBranch, RequestInv
  <1>5. ASSUME NEW a \in Author, LookupFile(a)
        PROVE  RequestInv'
    <2>1. CommandOK(command[a], branch.sha)
      BY DEF RequestInv
    <2>2. command[a] \in RunningCommand /\ "lookup" \in command[a].calls
      BY <1>5, <2>1, PendingOnList DEF LookupFile
    <2>3. CASE GivesUp(a)
      BY <1>5, <2>3, <1>give DEF LookupFile, RequestInv
    <2>4. CASE \E n \in {0, branch.sha} :
                  command' = [command EXCEPT ![a].calls = @ \ {"lookup"}, ![a].seen = n]
      <3>1. PICK n \in {0, branch.sha} :
                  command' = [command EXCEPT ![a].calls = @ \ {"lookup"}, ![a].seen = n]
        BY <2>4
      <3>2. PICK k : k = [command[a] EXCEPT !.calls = @ \ {"lookup"}, !.seen = n]
        OBVIOUS
      <3>3. CommandOK(k, branch.sha)
        <4>1. n \in Nat /\ n <= branch.sha /\ branch.sha \in Nat
          BY <1>sha
        <4> QED BY <2>1, <2>2, <3>2, <4>1, CommandLooksUp
      <3>4. command' = [command EXCEPT ![a] = k]
        BY <3>1, <3>2 DEF RequestInv
      <3> QED BY <1>5, <3>3, <3>4 DEF LookupFile, RequestInv
    <2> QED BY <1>5, <2>3, <2>4 DEF LookupFile
  <1>6. ASSUME NEW a \in Author, PutFile(a)
        PROVE  RequestInv'
    <2>1. workspace[a].content \in Content \cup {"absent"}
      BY DEF RequestInv, CiSnapshot
    <2>2. branch' \in BranchType /\ branch.sha <= branch'.sha /\ branch'.sha \in Nat
      <3>1. CASE UNCHANGED branch
        BY <1>sha, <3>1 DEF RequestInv
      <3>2. CASE branch' = [branch EXCEPT !.sha = @ + 1, !.content = workspace[a].content]
        <4>1. branch' \in BranchType
          <5>1. PICK n : n = branch.sha + 1
            OBVIOUS
          <5>2. n \in Nat \ {0}
            BY <5>1, <1>sha
          <5>3. branch' = [branch EXCEPT !.sha = n, !.content = workspace[a].content]
            BY <5>1, <3>2
          <5> QED BY <5>2, <5>3, <2>1 DEF RequestInv, BranchType
        <4>2. branch'.sha = branch.sha + 1
          BY <3>2 DEF RequestInv, BranchType
        <4> QED BY <4>1, <4>2, <1>sha
      <3> QED BY <1>6, <3>1, <3>2 DEF PutFile
    <2>3. /\ DOMAIN command' = Author /\ command' = [b \in Author |-> command'[b]]
          /\ \A b \in Author : CommandOK(command'[b], branch'.sha)
      <3>1. CASE GivesUp(a) /\ UNCHANGED branch
        BY <3>1, <1>give
      <3>2. CASE Returns(a, "put")
        <4>1. Calling(a, "put")
          BY <1>6 DEF PutFile
        <4> QED BY <3>2, <4>1, <2>2, <1>ret
      <3> QED BY <1>6, <3>1, <3>2 DEF PutFile
    <2> QED BY <1>6, <2>2, <2>3 DEF PutFile, RequestInv
  <1>7. ASSUME NEW a \in Author, OpenRequest(a)
        PROVE  RequestInv'
    <2>1. CommandOK(command[a], branch.sha) /\ Calling(a, "request")
      BY <1>7 DEF OpenRequest, RequestInv
    <2>2. command[a].body = command[a].taken /\ command[a].taken \in CiSnapshot
      BY <2>1 DEF CommandOK, Calling, RunningCommand
    <2>3. RequestOK(request')
      BY <1>7, <2>2 DEF OpenRequest, HostOpensRequest, RequestOK, RequestInv
    <2>4. /\ DOMAIN command' = Author /\ command' = [b \in Author |-> command'[b]]
          /\ \A b \in Author : CommandOK(command'[b], branch'.sha)
      BY <1>7, <1>give DEF OpenRequest
    <2> QED BY <1>7, <2>3, <2>4 DEF OpenRequest, RequestInv
  <1>8. ASSUME NEW e \in Env, VerifySnapshot(e)
        PROVE  RequestInv'
    <2>1. PICK checkout : checkout = [sha |-> branch.sha, content |-> branch.content, env |-> e]
      OBVIOUS
    <2>2. checkout \in CiSnapshot
      BY <2>1, <1>sha DEF CiSnapshot
    <2>3. SnapshotDigest(checkout) = checkout
      BY <2>2, DigestOfSnapshot
    <2>4. SnapshotDigest(checkout) = request.body /\ accepted' = [taken |-> request.taken, checkout |-> checkout]
      BY <1>8, <2>1 DEF VerifySnapshot
    <2>5. request.body = request.taken
      BY <1>8 DEF VerifySnapshot, RequestInv, RequestOK
    <2>6. accepted'.checkout = checkout /\ accepted'.taken = checkout
      BY <2>3, <2>4, <2>5
    <2> QED BY <1>8, <2>2, <2>6 DEF VerifySnapshot, RequestInv
  <1>9. CASE UNCHANGED requestVars
    BY <1>9 DEF requestVars, RequestInv
  <1> QED BY <1>1, <1>2, <1>3, <1>4, <1>5, <1>6, <1>7, <1>8, <1>9 DEF RequestNext

(* A request that `aivcs pr verify-snapshot` accepts holds what its author *)
(* ran the local CI on, for any number of authors, edits and commits: the  *)
(* digest in the body is the one of the workspace when the command started *)
(* (Start), and no later step of the command takes another.                *)
THEOREM VerifiedRequests == RequestSpec => [](RequestTypeOK /\ VerifiedAsTaken)
  <1>1. RequestInit => RequestInv
    BY PullRequestAssumption DEF RequestInit, RequestInv, CiSnapshot, IdleCommand, CommandOK,
       BranchType,
       RequestOK, Nothing
  <1>2. RequestInv => RequestTypeOK /\ VerifiedAsTaken
    BY DEF RequestInv, RequestTypeOK, VerifiedAsTaken, CommandOK, RunningCommand, BranchType
  <1> QED BY <1>1, <1>2, RequestStep, PTL DEF RequestSpec

-----------------------------------------------------------------------------
(* Traces.  What an exporter has read of a run that had ended is what the  *)
(* ledger still says of it, and so is what it wrote.                       *)
Recording == [status : {"RUNNING"} \cup TraceTerminal, events : 0 .. MaxRecorded]

Exporting == [at : {"idle", "record", "events", "mkdir", "json", "digest", "ended"},
              run : TraceRun \cup {0}, status : {"unknown", "RUNNING"} \cup TraceTerminal,
              events : 0 .. MaxRecorded]

TraceDirectory == [dir : BOOLEAN, json : {NoFile, Torn} \cup RunTraceArtifact,
                   digest : {NoFile} \cup [is : {"digest"}, digest : 0 .. MaxRecorded]]

(* An exporter e beside the ledger R. *)
ExporterOK(e, R) ==
    /\ e.at \notin {"idle", "ended"} => e.run \in TraceRun
    /\ e.at \in {"events", "mkdir", "json", "digest"} =>
          /\ e.status # "unknown"
          /\ e.status \in TraceTerminal => R[e.run].status = e.status
    /\ e.at \in {"mkdir", "json", "digest"} /\ e.status \in TraceTerminal =>
          R[e.run].events = e.events

(* A directory t of the run r beside the ledger R. *)
DirectoryOK(t, r, R) ==
    /\ t.dir \/ t = NoDir
    /\ t.json.is = "artifact" /\ t.json.status \in TraceTerminal =>
          R[r].status = t.json.status /\ R[r].events = t.json.events

(* Of the runs a retention pass found, the ones it keeps are newer than    *)
(* the ones it removes or has removed.                                     *)
PassOK(p) == \A r \in p.doomed \cup p.removed, k \in p.kept : k > r

TraceInv ==
    /\ recorded \in [TraceRun -> Recording]
    /\ exporter \in [Exporter -> Exporting]
    /\ traces \in [TraceRun -> TraceDirectory]
    /\ pruner \in RetentionPass /\ crashes \in 0 .. TraceFaults
    /\ \A x \in Exporter : ExporterOK(exporter[x], recorded)
    /\ \A r \in TraceRun : DirectoryOK(traces[r], r, recorded)
    /\ PassOK(pruner)

(* The ledger moves on from R to S: ended runs stay as they are. *)
EndedStay(R, S) ==
    \A r \in TraceRun : R[r].status \in TraceTerminal => S[r] = R[r]

(* What exporters and directories hold outlives every step of the ledger. *)
LEMMA LedgerMovesOn ==
    ASSUME TraceInv, NEW S \in [TraceRun -> Recording], EndedStay(recorded, S)
    PROVE  /\ \A x \in Exporter : ExporterOK(exporter[x], S)
           /\ \A r \in TraceRun : DirectoryOK(traces[r], r, S)
  <1>1. ASSUME NEW x \in Exporter PROVE ExporterOK(exporter[x], S)
    BY DEF TraceInv, ExporterOK, EndedStay
  <1>2. ASSUME NEW r \in TraceRun PROVE DirectoryOK(traces[r], r, S)
    BY DEF TraceInv, DirectoryOK, EndedStay
  <1> QED BY <1>1, <1>2

(* RetentionPolicy::prune keeps the newest: a young run that is not kept   *)
(* has as many newer ones as are kept.                                     *)
LEMMA KeptAreNewer ==
    ASSUME NEW found \in SUBSET TraceRun, NEW r \in found \ Kept(found), NEW k \in Kept(found)
    PROVE  k > r
  <1> DEFINE young == Young(found)
  <1> USE DEF Young, Kept
  <1>1. TraceRun \subseteq Nat /\ Cutoff \in Nat /\ MaxRuns \in Nat /\ IsFiniteSet(TraceRun)
    BY TraceAssumption
  <1>2. r \in Nat /\ k \in Nat /\ k # r
    BY <1>1
  <1>3. SUFFICES ASSUME r > k PROVE FALSE
    BY <1>2
  <1>4. r \in young
    BY <1>1, <1>2, <1>3
  <1>5. IsFiniteSet({s \in young : s > k})
    <2>1. {s \in young : s > k} \subseteq TraceRun
      OBVIOUS
    <2> QED BY <1>1, <2>1, FS_Subset
  <1>6. {s \in young : s > r} \subseteq {s \in young : s > k}
    <2>1. young \subseteq Nat
      BY <1>1
    <2>2. ASSUME NEW s \in young, s > r PROVE s > k
      BY <1>2, <1>3, <2>1, <2>2
    <2> QED BY <2>2
  <1>7. /\ Cardinality({s \in young : s > r}) <= Cardinality({s \in young : s > k})
        /\ Cardinality({s \in young : s > r}) \in Nat /\ Cardinality({s \in young : s > k}) \in Nat
    BY <1>5, <1>6, FS_Subset, FS_CardinalityType
  <1>8. Cardinality({s \in young : s > k}) < MaxRuns /\ ~(Cardinality({s \in young : s > r}) < MaxRuns)
    BY <1>4
  <1> QED BY <1>1, <1>7, <1>8

(* Every step of a run, an exporter or the retention pass keeps TraceInv. *)
LEMMA TraceStep ==
    ASSUME TraceInv, [TraceNext]_traceVars
    PROVE  TraceInv'
  <1> USE TraceAssumption
  <1>1. ASSUME NEW r \in TraceRun, RecordEvent(r) \/ EndRun(r)
        PROVE  TraceInv'
    <2>1. recorded[r] \in Recording
      BY DEF TraceInv
    <2>2. recorded' \in [TraceRun -> Recording]
      BY <1>1, <2>1 DEF RecordEvent, EndRun, TraceInv, Recording, TraceTerminal
    <2>3. EndedStay(recorded, recorded')
      BY <1>1 DEF RecordEvent, EndRun, TraceInv, EndedStay, TraceTerminal
    <2>4. /\ \A x \in Exporter : ExporterOK(exporter[x], recorded')
          /\ \A q \in TraceRun : DirectoryOK(traces[q], q, recorded')
      BY <2>2, <2>3, LedgerMovesOn
    <2> QED BY <1>1, <2>2, <2>4 DEF RecordEvent, EndRun, TraceInv
  <1>2. ASSUME NEW x \in Exporter, NEW e \in Exporting, ExporterOK(e, recorded),
               exporter' = [exporter EXCEPT ![x] = e]
        PROVE  /\ exporter' \in [Exporter -> Exporting]
               /\ \A y \in Exporter : ExporterOK(exporter'[y], recorded)
    BY <1>2 DEF TraceInv
  <1>3. EndedExporter \in Exporting /\ ExporterOK(EndedExporter, recorded)
    BY DEF EndedExporter, IdleExporter, Exporting, ExporterOK
  <1>4. ASSUME NEW x \in Exporter, NEW r \in TraceRun, StartExport(x, r)
        PROVE  TraceInv'
    <2>1. PICK e : e = [IdleExporter EXCEPT !.at = "record", !.run = r]
      OBVIOUS
    <2>2. e \in Exporting /\ ExporterOK(e, recorded)
      <3>1. IdleExporter \in Exporting
        BY DEF IdleExporter, Exporting
      <3>2. e \in Exporting /\ e.at = "record" /\ e.run = r
        BY <2>1, <3>1 DEF Exporting
      <3> QED BY <3>2 DEF ExporterOK
    <2>3. exporter' = [exporter EXCEPT ![x] = e]
      BY <1>4, <2>1 DEF StartExport
    <2> QED BY <1>2, <1>4, <2>2, <2>3 DEF StartExport, TraceInv
  <1>5. ASSUME NEW x \in Exporter, ReplayStep(x)
        PROVE  TraceInv'
    <2>1. PICK e : e = exporter[x]
      OBVIOUS
    <2>2. e \in Exporting /\ ExporterOK(e, recorded) /\ e.at \in {"record", "events"}
      BY <1>5, <2>1 DEF TraceInv, ReplayStep
    <2>3. e.run \in TraceRun /\ recorded[e.run] \in Recording
      BY <2>2 DEF ExporterOK, TraceInv
    <2>4. CASE e.at = "record"
      <3>1. PICK f : f = [e EXCEPT !.at = "events", !.status = recorded[e.run].status]
        OBVIOUS
      <3>2. f \in Exporting /\ f.at = "events" /\ f.status = recorded[e.run].status /\ f.run = e.run
        BY <2>2, <2>3, <3>1 DEF Exporting, Recording
      <3>3. ExporterOK(f, recorded)
        BY <2>3, <3>2 DEF ExporterOK, Recording, TraceTerminal
      <3>4. exporter' = [exporter EXCEPT ![x] = f]
        BY <1>5, <2>1, <2>4, <3>1 DEF ReplayStep, Replay
      <3> QED BY <1>2, <1>5, <3>2, <3>3, <3>4 DEF ReplayStep, TraceInv
    <2>5. CASE e.at = "events"
      <3>1. PICK f : f = [e EXCEPT !.at = "mkdir", !.events = recorded[e.run].events]
        OBVIOUS
      <3>2. /\ f \in Exporting /\ f.at = "mkdir" /\ f.events = recorded[e.run].events
            /\ f.run = e.run /\ f.status = e.status
        BY <2>2, <2>3, <3>1 DEF Exporting, Recording
      <3>3. ExporterOK(f, recorded)
        BY <2>2, <2>3, <2>5, <3>2 DEF ExporterOK
      <3>4. exporter' = [exporter EXCEPT ![x] = f]
        BY <1>5, <2>1, <2>5, <3>1 DEF ReplayStep, Replay
      <3> QED BY <1>2, <1>5, <3>2, <3>3, <3>4 DEF ReplayStep, TraceInv
    <2> QED BY <2>2, <2>4, <2>5
  <1>6. ASSUME NEW r \in TraceRun, NEW t \in TraceDirectory, DirectoryOK(t, r, recorded),
               traces' = [traces EXCEPT ![r] = t]
        PROVE  /\ traces' \in [TraceRun -> TraceDirectory]
               /\ \A q \in TraceRun : DirectoryOK(traces'[q], q, recorded)
    BY <1>6 DEF TraceInv
  <1>7. ASSUME NEW x \in Exporter, WriteTrace(x)
        PROVE  TraceInv'
    <2>1. PICK e : e = exporter[x]
      OBVIOUS
    <2>2. e \in Exporting /\ ExporterOK(e, recorded) /\ e.at \in {"mkdir", "json", "digest"}
      BY <1>7, <2>1 DEF TraceInv, WriteTrace
    <2>3. PICK t : t = traces[e.run]
      OBVIOUS
    <2>4. e.run \in TraceRun /\ t \in TraceDirectory /\ DirectoryOK(t, e.run, recorded)
      BY <2>2, <2>3 DEF ExporterOK, TraceInv
    <2>5. CASE /\ e.at = "mkdir" /\ traces' = [traces EXCEPT ![e.run].dir = TRUE]
               /\ exporter' = [exporter EXCEPT ![x] = [e EXCEPT !.at = "json"]]
      <3>1. PICK f : f = [e EXCEPT !.at = "json"]
        OBVIOUS
      <3>2. f \in Exporting /\ f.at = "json" /\ f.run = e.run /\ f.status = e.status /\ f.events = e.events
        BY <2>2, <3>1 DEF Exporting
      <3>3. ExporterOK(f, recorded)
        BY <2>2, <2>5, <3>2 DEF ExporterOK
      <3>4. PICK u : u = [t EXCEPT !.dir = TRUE]
        OBVIOUS
      <3>5. u \in TraceDirectory /\ u.dir /\ u.json = t.json
        BY <2>4, <3>4 DEF TraceDirectory
      <3>6. DirectoryOK(u, e.run, recorded)
        BY <2>4, <3>5 DEF DirectoryOK
      <3>7. traces' = [traces EXCEPT ![e.run] = u]
        BY <2>3, <2>5, <3>4
      <3>8. exporter' = [exporter EXCEPT ![x] = f]
        BY <2>5, <3>1
      <3> QED BY <1>2, <1>6, <1>7, <2>4, <3>2, <3>3, <3>5, <3>6, <3>7, <3>8 DEF WriteTrace, TraceInv
    <2>6. CASE /\ e.at = "json" /\ t.dir /\ traces' = [traces EXCEPT ![e.run].json = TraceArtifact(e)]
               /\ exporter' = [exporter EXCEPT ![x] = [e EXCEPT !.at = "digest"]]
      <3>1. PICK f : f = [e EXCEPT !.at = "digest"]
        OBVIOUS
      <3>2. f \in Exporting /\ f.at = "digest" /\ f.run = e.run /\ f.status = e.status /\ f.events = e.events
        BY <2>2, <3>1 DEF Exporting
      <3>3. ExporterOK(f, recorded)
        BY <2>2, <2>6, <3>2 DEF ExporterOK
      <3>4. PICK j : j = TraceArtifact(e)
        OBVIOUS
      <3>5. j \in RunTraceArtifact /\ j.status = e.status /\ j.events = e.events
        BY <2>2, <2>6, <3>4 DEF TraceArtifact, RunTraceArtifact, Exporting, ExporterOK
      <3>6. PICK u : u = [t EXCEPT !.json = j]
        OBVIOUS
      <3>7. u \in TraceDirectory /\ u.dir /\ u.json = j
        BY <2>4, <2>6, <3>5, <3>6 DEF TraceDirectory
      <3>8. DirectoryOK(u, e.run, recorded)
        BY <2>2, <2>6, <3>5, <3>7 DEF DirectoryOK, ExporterOK
      <3>9. traces' = [traces EXCEPT ![e.run] = u]
        BY <2>3, <2>6, <3>4, <3>6
      <3>10. exporter' = [exporter EXCEPT ![x] = f]
        BY <2>6, <3>1
      <3> QED BY <1>2, <1>6, <1>7, <2>4, <3>2, <3>3, <3>7, <3>8, <3>9, <3>10 DEF WriteTrace, TraceInv
    <2>7. CASE /\ e.at = "digest" /\ t.dir /\ traces' = [traces EXCEPT ![e.run].digest = DigestFile(e)]
               /\ exporter' = [exporter EXCEPT ![x] = EndedExporter]
      <3>1. PICK d : d = DigestFile(e)
        OBVIOUS
      <3>2. d \in [is : {"digest"}, digest : 0 .. MaxRecorded]
        BY <2>2, <3>1 DEF DigestFile, Exporting
      <3>3. PICK u : u = [t EXCEPT !.digest = d]
        OBVIOUS
      <3>4. u \in TraceDirectory /\ u.dir /\ u.json = t.json
        BY <2>4, <2>7, <3>2, <3>3 DEF TraceDirectory
      <3>5. DirectoryOK(u, e.run, recorded)
        BY <2>4, <3>4 DEF DirectoryOK
      <3>6. traces' = [traces EXCEPT ![e.run] = u]
        BY <2>3, <2>7, <3>1, <3>3
      <3> QED BY <1>2, <1>3, <1>6, <1>7, <2>4, <2>7, <3>4, <3>5, <3>6 DEF WriteTrace, TraceInv
    <2>8. CASE exporter' = [exporter EXCEPT ![x] = EndedExporter] /\ UNCHANGED traces
      BY <1>2, <1>3, <1>7, <2>8 DEF WriteTrace, TraceInv
    <2> QED BY <1>7, <2>1, <2>3, <2>5, <2>6, <2>7, <2>8 DEF WriteTrace
  <1>8. ASSUME NEW x \in Exporter, CrashExport(x)
        PROVE  TraceInv'
    <2>1. exporter' = [exporter EXCEPT ![x] = EndedExporter]
      BY <1>8 DEF CrashExport
    <2>2. /\ exporter' \in [Exporter -> Exporting]
          /\ \A y \in Exporter : ExporterOK(exporter'[y], recorded)
      BY <1>2, <1>3, <2>1
    <2>3. crashes' \in 0 .. TraceFaults
      BY <1>8 DEF CrashExport, TraceInv
    <2>4. /\ traces' \in [TraceRun -> TraceDirectory]
          /\ \A q \in TraceRun : DirectoryOK(traces'[q], q, recorded)
      <3>1. CASE UNCHANGED traces
        BY <3>1 DEF TraceInv
      <3>2. CASE traces' # traces
        <4>1. PICK r : r = exporter[x].run
          OBVIOUS
        <4>2. r \in TraceRun
          BY <1>8, <4>1 DEF CrashExport, TraceInv, ExporterOK
        <4>3. PICK u : u = [traces[r] EXCEPT !.json = Torn]
          OBVIOUS
        <4>4. traces[r] \in TraceDirectory /\ traces[r].dir
          BY <1>8, <3>2, <4>1, <4>2 DEF CrashExport, TraceInv
        <4>5. u \in TraceDirectory /\ u.dir /\ u.json = Torn
          BY <4>3, <4>4 DEF TraceDirectory
        <4>6. DirectoryOK(u, r, recorded)
          BY <4>5 DEF DirectoryOK, Torn
        <4>7. traces' = [traces EXCEPT ![r] = u]
          BY <1>8, <3>2, <4>1, <4>3 DEF CrashExport
        <4> QED BY <1>6, <4>2, <4>5, <4>6, <4>7
      <3> QED BY <3>1, <3>2
    <2> QED BY <1>8, <2>2, <2>3, <2>4 DEF CrashExport, TraceInv
  <1>9. ASSUME ScanTraces
        PROVE  TraceInv'
    <2>1. PICK found : found = {r \in TraceRun : traces[r].dir /\ traces[r].json.is = "artifact"}
      OBVIOUS
    <2>2. pruner' = [at |-> "removing", kept |-> Kept(found), doomed |-> found \ Kept(found),
                     removed |-> {}]
      BY <1>9, <2>1 DEF ScanTraces
    <2>3. found \in SUBSET TraceRun /\ Kept(found) \subseteq found
      BY <2>1 DEF Kept, Young
    <2>4. \A r \in found \ Kept(found), k \in Kept(found) : k > r
      BY <2>3, KeptAreNewer
    <2>5. PassOK(pruner') /\ pruner' \in RetentionPass
      BY <2>2, <2>3, <2>4 DEF PassOK, RetentionPass
    <2> QED BY <1>9, <2>5 DEF ScanTraces, TraceInv
  <1>10. ASSUME PruneTrace
         PROVE  TraceInv'
    <2>1. PassOK(Resting) /\ Resting \in RetentionPass
      BY DEF PassOK, Resting, RetentionPass
    <2>2. CASE pruner' = Resting /\ UNCHANGED traces
      BY <1>10, <2>1, <2>2 DEF PruneTrace, TraceInv
    <2>3. NextRemoved(pruner.doomed) \subseteq pruner.doomed /\ pruner.doomed \subseteq TraceRun
      BY DEF NextRemoved, TraceInv, RetentionPass
    <2>4. ASSUME NEW r \in pruner.doomed, traces' = [traces EXCEPT ![r] = NoDir],
                 pruner' = [pruner EXCEPT !.doomed = @ \ {r}, !.removed = @ \cup {r}]
          PROVE  TraceInv'
      <3>1. r \in TraceRun
        BY <2>3
      <3>2. NoDir \in TraceDirectory /\ DirectoryOK(NoDir, r, recorded)
        BY DEF NoDir, NoFile, TraceDirectory, DirectoryOK
      <3>3. /\ traces' \in [TraceRun -> TraceDirectory]
            /\ \A q \in TraceRun : DirectoryOK(traces'[q], q, recorded)
        BY <1>6, <2>4, <3>1, <3>2
      <3>4. pruner' \in RetentionPass
        BY <2>4, <3>1 DEF TraceInv, RetentionPass
      <3>5. /\ pruner'.kept = pruner.kept
            /\ pruner'.doomed \cup pruner'.removed \subseteq pruner.doomed \cup pruner.removed
        BY <2>4 DEF TraceInv, RetentionPass
      <3>6. PassOK(pruner')
        BY <3>5 DEF PassOK, TraceInv
      <3> QED BY <1>10, <3>3, <3>4, <3>6 DEF PruneTrace, TraceInv
    <2>5. ASSUME NEW r \in pruner.doomed, NEW t \in LeftOver(traces[r]),
                 traces' = [traces EXCEPT ![r] = t], pruner' = Resting
          PROVE  TraceInv'
      <3>1. r \in TraceRun
        BY <2>3
      <3>2. traces[r] \in TraceDirectory /\ DirectoryOK(traces[r], r, recorded)
        BY <3>1 DEF TraceInv
      <3>3. PICK j \in {traces[r].json, NoFile}, d \in {traces[r].digest, NoFile} :
                t = [traces[r] EXCEPT !.json = j, !.digest = d]
        BY DEF LeftOver
      <3>4. t \in TraceDirectory /\ t.dir = traces[r].dir /\ t.json = j /\ t.digest = d
        BY <3>2, <3>3 DEF TraceDirectory
      <3>5. DirectoryOK(t, r, recorded)
        <4>1. CASE traces[r].dir
          BY <3>2, <3>4, <4>1 DEF DirectoryOK, NoFile
        <4>2. CASE traces[r] = NoDir
          <5>1. t.dir = FALSE /\ t.json = NoFile /\ t.digest = NoFile
            BY <3>4, <4>2 DEF NoDir
          <5>2. t = NoDir
            BY <3>4, <5>1 DEF NoDir, TraceDirectory
          <5> QED BY <5>2 DEF DirectoryOK, NoDir, NoFile
        <4> QED BY <3>2, <4>1, <4>2 DEF DirectoryOK
      <3>6. /\ traces' \in [TraceRun -> TraceDirectory]
            /\ \A q \in TraceRun : DirectoryOK(traces'[q], q, recorded)
        BY <1>6, <2>5, <3>1, <3>4, <3>5
      <3> QED BY <1>10, <2>1, <2>5, <3>6 DEF PruneTrace, TraceInv
    <2> QED BY <1>10, <2>2, <2>3, <2>4, <2>5 DEF PruneTrace
  <1>11. CASE UNCHANGED traceVars
    BY <1>11 DEF traceVars, TraceInv
  <1> QED BY <1>1, <1>4, <1>5, <1>7, <1>8, <1>9, <1>10, <1>11 DEF TraceNext

(* An artifact that read_trace_artifact accepts and that says its run has  *)
(* ended is the whole record of that run, whatever exporters, crashes and  *)
(* retention passes left in its directory; and the retention pass removes  *)
(* no run and keeps an older one.  The record is read before the events    *)
(* (replay_run), so a terminal status means that no event was still to     *)
(* come; with the two calls the other way round ExporterOK is lost.        *)
THEOREM TracesAreSound == TraceSpec => [](TraceTypeOK /\ TraceSound)
  <1>1. TraceInit => TraceInv
    <2> SUFFICES ASSUME TraceInit PROVE TraceInv
      OBVIOUS
    <2>1. \A x \in Exporter : IdleExporter \in Exporting /\ ExporterOK(IdleExporter, recorded)
      BY TraceAssumption DEF IdleExporter, Exporting, ExporterOK
    <2>2. \A r \in TraceRun : NoDir \in TraceDirectory /\ DirectoryOK(NoDir, r, recorded)
      BY DEF NoDir, NoFile, TraceDirectory, DirectoryOK
    <2>3. PassOK(Resting) /\ Resting \in RetentionPass
      BY DEF PassOK, Resting, RetentionPass
    <2>4. recorded \in [TraceRun -> Recording]
      BY TraceAssumption DEF TraceInit, Recording
    <2>5. exporter \in [Exporter -> Exporting] /\ \A x \in Exporter : ExporterOK(exporter[x], recorded)
      BY <2>1 DEF TraceInit
    <2>6. /\ traces \in [TraceRun -> TraceDirectory]
          /\ \A r \in TraceRun : DirectoryOK(traces[r], r, recorded)
      BY <2>2 DEF TraceInit
    <2>7. crashes \in 0 .. TraceFaults
      BY TraceAssumption DEF TraceInit
    <2> QED BY <2>3, <2>4, <2>5, <2>6, <2>7 DEF TraceInit, TraceInv
  <1>2. TraceInv => TraceTypeOK /\ TraceSound
    <2> SUFFICES ASSUME TraceInv PROVE TraceTypeOK /\ TraceSound
      OBVIOUS
    <2>1. TraceTypeOK
      BY DEF TraceInv, TraceTypeOK, Recording, Exporting, TraceDirectory, DirectoryOK
    <2>2. ASSUME NEW r \in TraceRun, Verified(traces[r]), traces[r].json.status \in TraceTerminal
          PROVE  ReadTrace(r) = recorded[r]
      <3>1. recorded[r].status = traces[r].json.status /\ recorded[r].events = traces[r].json.events
        BY <2>2 DEF TraceInv, DirectoryOK, Verified
      <3>2. recorded[r] \in Recording
        BY DEF TraceInv
      <3> QED BY <3>1, <3>2 DEF ReadTrace, Recording
    <2>3. \A r \in pruner.removed, k \in pruner.kept : k > r
      BY DEF TraceInv, PassOK
    <2> QED BY <2>1, <2>2, <2>3 DEF TraceSound
  <1> QED BY <1>1, <1>2, TraceStep, PTL DEF TraceSpec

-----------------------------------------------------------------------------
(* Human approval.  The tier and the timeout that the policy gives to a     *)
(* label: the first of the matching rules is one of the rules.              *)
LEMMA RiskTyped ==
    ASSUME NEW label
    PROVE  EvaluateRisk(label).tier \in RiskTier /\ EvaluateRisk(label).timeout \in Nat
  <1> DEFINE matching == {i \in DOMAIN ApprovalRules : ApprovalRules[i].pattern \in label}
             first == CHOOSE i \in matching : \A j \in matching : i <= j
             rule == IF matching = {} THEN [tier |-> "low", timeout |-> NoTimeout]
                     ELSE ApprovalRules[first]
  <1>1. EvaluateRisk(label) = [tier |-> rule.tier,
                               timeout |-> IF rule.timeout = NoTimeout THEN DefaultTimeout
                                           ELSE rule.timeout]
    BY DEF EvaluateRisk
  <1>2. matching # {} => first \in DOMAIN ApprovalRules
    <2> SUFFICES ASSUME matching # {} PROVE first \in matching
      OBVIOUS
    <2>1. matching \subseteq Nat
      BY HitlAssumption
    <2>2. \E i \in matching : \A j \in matching : i <= j
      BY <2>1, LeastIndex
    <2> QED BY <2>2
  <1>3. rule.tier \in RiskTier /\ rule.timeout \in Nat
    <2>1. CASE matching = {}
      BY <2>1 DEF RiskTier, NoTimeout
    <2>2. CASE matching # {}
      BY <1>2, <2>2, HitlAssumption
    <2> QED BY <2>1, <2>2
  <1> HIDE DEF rule
  <1> QED BY <1>1, <1>3, HitlAssumption

(* The votes of a sequence are counted in a finite set. *)
LEMMA VotesCounted ==
    ASSUME NEW v \in Seq(ApprovalVote), NEW S \in SUBSET DOMAIN v
    PROVE  IsFiniteSet(S) /\ Cardinality(S) \in Nat /\ (Cardinality(S) = 0 <=> S = {})
  <1>1. IsFiniteSet(DOMAIN v)
    BY FS_Interval
  <1>2. IsFiniteSet(S)
    BY <1>1, FS_Subset
  <1> QED BY <1>2, FS_CardinalityType, FS_EmptySet

OnePerVoter(v) == \A i, j \in DOMAIN v : v[i].voter = v[j].voter => i = j

(* When nobody voted twice, there are as many voters as votes. *)
LEMMA VotersCounted ==
    ASSUME NEW v \in Seq(ApprovalVote), OnePerVoter(v), NEW S \in SUBSET DOMAIN v
    PROVE  Cardinality({v[i].voter : i \in S}) = Cardinality(S)
  <1> DEFINE T == {v[i].voter : i \in S}
             f == [i \in S |-> v[i].voter]
  <1>1. f \in [S -> T] /\ (\A i, j \in S : f[i] = f[j] => i = j) /\ (\A t \in T : \E i \in S : f[i] = t)
    BY DEF OnePerVoter
  <1> HIDE DEF f, T
  <1>2. f \in Bijection(S, T)
    BY <1>1, Fun_IsBij
  <1>3. ExistsBijection(S, T) /\ IsFiniteSet(S)
    BY <1>2, VotesCounted DEF ExistsBijection
  <1>4. Cardinality(T) = Cardinality(S)
    BY <1>3, FS_Bijection
  <1> QED BY <1>4 DEF T

(* What is inductive about approval: nobody votes twice, whatever the      *)
(* checkpoint went through, and an approved one has its quorum.            *)
HitlInv == HitlTypeOK /\ OnePerVoter(votes) /\ ApprovedByQuorum

(* A checkpoint and a status make a checkpoint. *)
LEMMA StatusSet ==
    ASSUME NEW c \in ApprovalCheckpoint, NEW s \in CheckpointStatus
    PROVE  /\ [c EXCEPT !.status = s] \in ApprovalCheckpoint
           /\ [c EXCEPT !.status = s].status = s
           /\ [c EXCEPT !.status = s].tier = c.tier
           /\ [c EXCEPT !.status = s].expires = c.expires
  BY DEF ApprovalCheckpoint

(* evaluate_checkpoint approves by the votes that were cast, in time. *)
LEMMA ApprovingEvaluation ==
    ASSUME HitlInv, Open, ~IsTerminal, Evaluation = "approved"
    PROVE  /\ \A i \in DOMAIN votes : votes[i].decision # "reject"
           /\ Count("approve") >= MinApprovals[checkpoint.tier]
           /\ checkpoint.expires # NoTimeout => hitlNow < checkpoint.expires
  <1>1. checkpoint \in ApprovalCheckpoint /\ votes \in Seq(ApprovalVote) /\ hitlNow \in Nat
    BY DEF HitlInv, HitlTypeOK, Open
  <1>2. checkpoint.status # "approved"
    BY DEF IsTerminal
  <1>3. ~IsExpiredNow
    BY DEF Evaluation
  <1>4. ~(Count("reject") > 0)
    BY <1>3 DEF Evaluation
  <1>5. \/ Count("approve") >= MinApprovals[checkpoint.tier]
        \/ ~RequiresApproval(checkpoint.tier)
    BY <1>2, <1>3, <1>4 DEF Evaluation
  <1>6. \A d : Count(d) \in Nat /\ (Count(d) = 0 => {i \in DOMAIN votes : votes[i].decision = d} = {})
    BY <1>1, VotesCounted DEF Count
  <1>7. {i \in DOMAIN votes : votes[i].decision = "reject"} = {}
    BY <1>4, <1>6
  <1>8. Count("approve") >= MinApprovals[checkpoint.tier]
    <2>1. CASE ~RequiresApproval(checkpoint.tier)
      <3>1. checkpoint.tier \in {"low", "medium"}
        BY <1>1, <2>1 DEF RequiresApproval, ApprovalCheckpoint, RiskTier
      <3>2. MinApprovals[checkpoint.tier] = 0
        BY <3>1 DEF MinApprovals
      <3> QED BY <3>2, <1>6
    <2> QED BY <1>5, <2>1
  <1>9. checkpoint.expires # NoTimeout => hitlNow < checkpoint.expires
    BY <1>1, <1>3 DEF IsExpiredNow, ApprovalCheckpoint
  <1> QED BY <1>7, <1>8, <1>9

(* Every step of a reviewer, an operator or the clock keeps HitlInv. *)
LEMMA HitlStep ==
    ASSUME HitlInv, [HitlNext]_hitlVars
    PROVE  HitlInv'
  <1> USE HitlAssumption
  <1>open. Open => checkpoint \in ApprovalCheckpoint
    BY DEF Open, HitlInv, HitlTypeOK
  <1>1. ASSUME NEW label \in Label, CreateCheckpoint(label)
        PROVE  HitlInv'
    <2>1. PICK c : c = checkpoint'
      OBVIOUS
    <2>2. PICK r : r = EvaluateRisk(label)
      OBVIOUS
    <2>3. r.tier \in RiskTier /\ r.timeout \in Nat
      BY <2>2, RiskTyped
    <2>4. c = [status |-> "pending", tier |-> r.tier,
               expires |-> IF r.timeout = NoTimeout THEN NoTimeout ELSE hitlNow + r.timeout]
      BY <1>1, <2>1, <2>2 DEF CreateCheckpoint
    <2>5. hitlNow \in Nat
      BY DEF HitlInv, HitlTypeOK
    <2>6. c \in ApprovalCheckpoint /\ c.status = "pending"
      BY <2>3, <2>4, <2>5 DEF ApprovalCheckpoint, CheckpointStatus, NoTimeout
    <2> QED BY <1>1, <2>1, <2>6 DEF CreateCheckpoint, HitlInv, HitlTypeOK, ApprovedByQuorum
  <1>2. ASSUME NEW v \in Voter, NEW d \in VoteDecision, SubmitVote(v, d)
        PROVE  HitlInv'
    <2>1. CASE AcceptsVote(v) /\ votes' = Append(votes, [voter |-> v, decision |-> d]) /\ UNCHANGED checkpoint
      <3>1. checkpoint'.status # "approved"
        BY <2>1 DEF AcceptsVote, IsTerminal
      <3>2. PICK w : w = [voter |-> v, decision |-> d]
        OBVIOUS
      <3>3. w \in ApprovalVote /\ w.voter = v
        BY <3>2 DEF ApprovalVote
      <3>4. votes \in Seq(ApprovalVote) /\ votes' = Append(votes, w)
        BY <2>1, <3>2 DEF HitlInv, HitlTypeOK
      <3>5. votes' \in Seq(ApprovalVote)
        BY <3>3, <3>4
      <3>6. OnePerVoter(votes')
        BY <2>1, <3>3, <3>4 DEF AcceptsVote, OnePerVoter, HitlInv
      <3> QED BY <1>2, <2>1, <3>1, <3>5, <3>6 DEF SubmitVote, HitlInv, HitlTypeOK, ApprovedByQuorum
    <2>2. CASE checkpoint' = [checkpoint EXCEPT !.status = "expired"] /\ UNCHANGED votes
      <3>1. checkpoint' \in ApprovalCheckpoint /\ checkpoint'.status = "expired"
        BY <1>2, <1>open, <2>2, StatusSet DEF SubmitVote, CheckpointStatus
      <3> QED BY <1>2, <2>2, <3>1 DEF SubmitVote, HitlInv, HitlTypeOK, ApprovedByQuorum
    <2> QED BY <1>2, <2>1, <2>2 DEF SubmitVote
  <1>3. ASSUME EvaluateCheckpoint
        PROVE  HitlInv'
    <2>1. checkpoint \in ApprovalCheckpoint /\ votes \in Seq(ApprovalVote) /\ hitlNow \in Nat
      BY <1>3, <1>open DEF EvaluateCheckpoint, HitlInv, HitlTypeOK
    <2>2. PICK s : s = Evaluation
      OBVIOUS
    <2>3. s \in CheckpointStatus
      BY <2>1, <2>2 DEF Evaluation, ApprovalCheckpoint, CheckpointStatus
    <2>4. checkpoint' = [checkpoint EXCEPT !.status = s] /\ decidedAt' = hitlNow
      BY <1>3, <2>2 DEF EvaluateCheckpoint
    <2>5. /\ checkpoint' \in ApprovalCheckpoint /\ checkpoint'.status = s
          /\ checkpoint'.tier = checkpoint.tier /\ checkpoint'.expires = checkpoint.expires
      BY <2>1, <2>3, <2>4, StatusSet
    <2>6. votes' = votes /\ interventions' = interventions /\ artifact' = artifact /\ hitlNow' = hitlNow
      BY <1>3 DEF EvaluateCheckpoint
    <2>7. HitlTypeOK' /\ OnePerVoter(votes')
      BY <2>1, <2>4, <2>5, <2>6 DEF HitlInv, HitlTypeOK
    <2>8. ASSUME s = "approved" PROVE ApprovedByQuorum'
      <3>1. /\ \A i \in DOMAIN votes : votes[i].decision # "reject"
            /\ Count("approve") >= MinApprovals[checkpoint.tier]
            /\ checkpoint.expires # NoTimeout => hitlNow < checkpoint.expires
        BY <1>3, <2>2, <2>8, ApprovingEvaluation DEF EvaluateCheckpoint
      <3>2. Cardinality({votes[i].voter : i \in {j \in DOMAIN votes : votes[j].decision = "approve"}})
              = Count("approve")
        BY <2>1, VotersCounted DEF HitlInv, Count
      <3> QED BY <2>4, <2>5, <2>6, <3>1, <3>2 DEF ApprovedByQuorum
    <2>9. ASSUME s # "approved" PROVE ApprovedByQuorum'
      BY <2>5, <2>9 DEF ApprovedByQuorum
    <2> QED BY <2>7, <2>8, <2>9 DEF HitlInv
  <1>4. ASSUME NEW action \in InterventionAction, ApplyIntervention(action)
        PROVE  HitlInv'
    <2>1. PICK s : s = Intervened(action)
      OBVIOUS
    <2>2. s \in CheckpointStatus /\ s # "approved"
      BY <2>1 DEF Intervened, InterventionAction, CheckpointStatus
    <2>3. checkpoint' \in ApprovalCheckpoint /\ checkpoint'.status = s
      BY <1>4, <1>open, <2>1, <2>2, StatusSet DEF ApplyIntervention
    <2>4. interventions' \in Seq(InterventionAction)
      BY <1>4 DEF ApplyIntervention, HitlInv, HitlTypeOK
    <2> QED BY <1>4, <2>2, <2>3, <2>4 DEF ApplyIntervention, HitlInv, HitlTypeOK, ApprovedByQuorum
  <1>5. ASSUME Finalize
        PROVE  HitlInv'
    <2>1. checkpoint \in ApprovalCheckpoint /\ votes \in Seq(ApprovalVote) /\ hitlNow \in Nat
           /\ interventions \in Seq(InterventionAction)
      BY <1>5, <1>open DEF Finalize, HitlInv, HitlTypeOK
    <2>2. \A d : Count(d) \in Nat
      BY <2>1, VotesCounted DEF Count
    <2>3. Digest \in CheckpointStatus \X Nat \X Nat \X Nat /\ checkpoint.status \in CheckpointStatus
      BY <2>1 DEF Digest, ApprovalCheckpoint
    <2>4. artifact' \in HitlArtifact
      BY <1>5, <2>2, <2>3 DEF Finalize, HitlArtifact
    <2> QED BY <1>5, <2>4 DEF Finalize, HitlInv, HitlTypeOK, ApprovedByQuorum
  <1>6. ASSUME HitlTick
        PROVE  HitlInv'
    BY <1>6 DEF HitlTick, HitlInv, HitlTypeOK, ApprovedByQuorum
  <1>7. CASE UNCHANGED hitlVars
    BY <1>7 DEF hitlVars, HitlInv, HitlTypeOK, ApprovedByQuorum
  <1> QED BY <1>1, <1>2, <1>3, <1>4, <1>5, <1>6, <1>7 DEF HitlNext

(* For any policy, any number of reviewers and any order of votes, pauses, *)
(* edits and ticks, a checkpoint that evaluate_checkpoint approved has the *)
(* approvals its tier asks for, each of another person, no rejection, and  *)
(* was decided before its deadline.  A vote submitted while the checkpoint *)
(* was paused counts when it is resumed, so the number of voters is tied   *)
(* to the number of votes in every state (OnePerVoter).                    *)
THEOREM ApprovalsHaveQuorum == HitlSpec => [](HitlTypeOK /\ ApprovedByQuorum)
  <1>1. HitlInit => HitlInv
    BY DEF HitlInit, HitlInv, HitlTypeOK, OnePerVoter, ApprovedByQuorum, NoCheckpoint
  <1>2. HitlInv => HitlTypeOK /\ ApprovedByQuorum
    BY DEF HitlInv
  <1> QED BY <1>1, <1>2, HitlStep, PTL DEF HitlSpec

-----------------------------------------------------------------------------
(* Working trees.  The records of the two commands. *)
HereState == [content : FileContent \cup {"missing"}, exec : BOOLEAN]
ThereState == [content : FileContent \cup {"missing", "torn"}, exec : BOOLEAN]

PushRecord(C) == [pc : {"idle", "walk", "upload"}, todo : SUBSET FilePath, manifest : TreeManifest,
                  parent : C, uploads : SUBSET FileContent]

PullRecord == [pc : {"idle", "load", "compare", "chmod", "ok"}, tries : 0 .. 2,
               manifest : TreeManifest, todo : SUBSET FilePath, need : SUBSET FilePath,
               writing : SUBSET FilePath, written : SUBSET FilePath, edited : SUBSET FilePath]

(* Beside the commits C. *)
PushOK(k, C) ==
    /\ k \in PushRecord(C)
    /\ k.uploads \subseteq TreeDigests(k.manifest)
    /\ k.pc # "upload" => k.uploads = {}

(* Beside the working tree T: what was compared or written, and not edited *)
(* since, is in place; the modes are set once the command goes on.         *)
PullOK(q, T) ==
    /\ q \in PullRecord
    /\ q.todo \cup q.need \cup q.writing \cup q.written \subseteq DOMAIN q.manifest
    /\ q.pc = "load" => q.todo = DOMAIN q.manifest /\ q.written = {}
    /\ q.pc \in {"compare", "chmod", "ok"} =>
          \A p \in DOMAIN q.manifest \ (q.edited \cup q.todo \cup q.need) :
              T[p].content = q.manifest[p].digest
    /\ q.pc \in {"compare", "ok"} => \A p \in q.written : q.manifest[p].exec => T[p].exec
    /\ q.pc = "ok" => q.todo = {} /\ q.need = {}

CommitsOK(M, B) ==
    /\ 0 \in DOMAIN M
    /\ \A c \in DOMAIN M : M[c] \in TreeManifest /\ TreeDigests(M[c]) \subseteq B

(* What is inductive about the working trees. *)
TreeInv ==
    /\ here \in [FilePath -> HereState]
    /\ there \in [FilePath -> ThereState]
    /\ CommitsOK(manifests, blobStore)
    /\ headCommit \in DOMAIN manifests
    /\ PushOK(push, DOMAIN manifests)
    /\ PullOK(pull, there)

(* A manifest is a function from some of the paths. *)
LEMMA ManifestFunction ==
    ASSUME NEW m
    PROVE  m \in TreeManifest <=> m \in [DOMAIN m -> ManifestEntry] /\ DOMAIN m \subseteq FilePath
  BY DEF TreeManifest

(* The walk adds an entry to the manifest. *)
LEMMA ManifestWith ==
    ASSUME NEW m \in TreeManifest, NEW p \in FilePath, NEW e \in ManifestEntry
    PROVE  With(m, p, e) \in TreeManifest
  <1>1. m \in [DOMAIN m -> ManifestEntry] /\ DOMAIN m \subseteq FilePath
    BY ManifestFunction
  <1>2. /\ DOMAIN With(m, p, e) = DOMAIN m \cup {p}
        /\ With(m, p, e) \in [DOMAIN m \cup {p} -> ManifestEntry]
    BY <1>1 DEF With
  <1> QED BY <1>1, <1>2, ManifestFunction

(* The empty manifest of the root commit. *)
LEMMA EmptyManifest == <<>> \in TreeManifest /\ TreeDigests(<<>>) = {} /\ DOMAIN <<>> = {}
  <1>1. DOMAIN <<>> = {}
    OBVIOUS
  <1>2. <<>> \in [{} -> ManifestEntry]
    OBVIOUS
  <1>3. <<>> \in TreeManifest
    BY <1>1, <1>2, ManifestFunction
  <1> QED BY <1>1, <1>3 DEF TreeDigests

(* The digests of a manifest are contents. *)
LEMMA DigestsAreContents ==
    ASSUME NEW m \in TreeManifest
    PROVE  TreeDigests(m) \subseteq FileContent
  BY ManifestFunction DEF TreeDigests, ManifestEntry

(* A push that failed, or that has not begun. *)
LEMMA IdlePushOK ==
    ASSUME NEW C, 0 \in C
    PROVE  PushOK(IdlePush, C)
  BY EmptyManifest DEF PushOK, PushRecord, IdlePush

(* More commits do not disturb a push. *)
LEMMA PushLater ==
    ASSUME NEW k, NEW C, NEW D, C \subseteq D, PushOK(k, C)
    PROVE  PushOK(k, D)
  BY DEF PushOK, PushRecord

(* A pull that was killed, or that has not begun. *)
LEMMA IdlePullOK == \A T : PullOK(IdlePull, T)
  <1>1. IdlePull \in PullRecord
    BY EmptyManifest DEF PullRecord, IdlePull
  <1> QED BY <1>1 DEF PullOK, IdlePull

(* Every step of a push keeps TreeInv. *)
LEMMA PushStep ==
    ASSUME TreeInv, PushCommand
    PROVE  TreeInv'
  <1> DEFINE C == DOMAIN manifests
  <1>same. ASSUME UNCHANGED <<here, there, blobStore, manifests, headCommit, pull>>, PushOK(push', C)
           PROVE  TreeInv'
    BY <1>same DEF TreeInv
  <1>typed. /\ push \in PushRecord(C) /\ push.manifest \in TreeManifest /\ push.todo \subseteq FilePath
            /\ push.parent \in C /\ 0 \in C
    BY DEF TreeInv, PushOK, PushRecord, CommitsOK
  <1>fails. PushFails /\ PushOnly => TreeInv'
    BY <1>same, <1>typed, IdlePushOK DEF PushFails, PushOnly
  <1>1. CASE StartPush
    <2>1. PICK k : k = [IdlePush EXCEPT !.pc = "walk", !.todo = {p \in FilePath : ~Ignores(p)}]
      OBVIOUS
    <2>2. IdlePush \in PushRecord(C) /\ IdlePush.uploads = {}
      BY <1>typed, IdlePushOK DEF PushOK, IdlePush
    <2>3. k \in PushRecord(C) /\ k.uploads = {}
      BY <2>1, <2>2 DEF PushRecord
    <2>4. PushOK(push', C)
      BY <1>1, <2>1, <2>3 DEF StartPush, PushOK
    <2> QED BY <1>1, <1>same, <2>4 DEF StartPush, PushOnly
  <1>2. ASSUME NEW p \in FilePath, WalkFile(p)
        PROVE  TreeInv'
    <2>1. PICK m : m = IF here[p].content = NoSuchFile.content THEN push.manifest
                       ELSE With(push.manifest, p, [digest |-> here[p].content, exec |-> here[p].exec])
      OBVIOUS
    <2>2. m \in TreeManifest
      <3>1. here[p] \in HereState
        BY DEF TreeInv
      <3>2. here[p].content # "missing" => [digest |-> here[p].content, exec |-> here[p].exec] \in ManifestEntry
        BY <3>1 DEF HereState, ManifestEntry
      <3> QED BY <1>typed, <2>1, <3>2, ManifestWith DEF NoSuchFile
    <2>3. push' = [push EXCEPT !.todo = @ \ {p}, !.manifest = m]
      BY <1>2, <2>1 DEF WalkFile
    <2>4. push' \in PushRecord(C) /\ push'.uploads = push.uploads /\ push'.pc = "walk"
      BY <1>2, <1>typed, <2>2, <2>3 DEF PushRecord, WalkFile
    <2>5. push.uploads = {}
      BY <1>2 DEF WalkFile, TreeInv, PushOK
    <2>6. PushOK(push', C)
      BY <2>4, <2>5 DEF PushOK
    <2> QED BY <1>2, <1>same, <2>6 DEF WalkFile, PushOnly
  <1>3. CASE EndWalk
    <2>1. CASE PushFails
      BY <1>3, <1>fails, <2>1 DEF EndWalk
    <2>2. ASSUME NEW known, UNCHANGED <<blobStore, manifests, headCommit, treeCounts>>,
                 push' = [push EXCEPT !.pc = "upload", !.parent = headCommit,
                             !.uploads = TreeDigests(push.manifest) \ known]
          PROVE  TreeInv'
      <3>1. headCommit \in C /\ TreeDigests(push.manifest) \subseteq FileContent
        BY <1>typed, DigestsAreContents DEF TreeInv
      <3>2. PICK U : U = TreeDigests(push.manifest) \ known
        OBVIOUS
      <3>3. /\ push' \in PushRecord(C) /\ push'.manifest = push.manifest
            /\ push'.uploads = U /\ push'.pc = "upload"
        BY <1>typed, <2>2, <3>1, <3>2 DEF PushRecord
      <3>4. PushOK(push', C)
        BY <3>2, <3>3 DEF PushOK
      <3> QED BY <1>3, <1>same, <2>2, <3>4 DEF EndWalk, PushOnly
    <2> QED BY <1>3, <2>1, <2>2 DEF EndWalk
  <1>4. ASSUME NEW d \in FileContent, UploadBlob(d)
        PROVE  TreeInv'
    <2>1. CASE PushFails
      BY <1>4, <1>fails, <2>1 DEF UploadBlob
    <2>2. CASE ~PushFails
      <3>1. /\ push.pc = "upload" /\ push' = [push EXCEPT !.uploads = @ \ {d}]
            /\ blobStore \subseteq blobStore'
            /\ UNCHANGED <<here, there, pull, manifests, headCommit>>
        BY <1>4, <2>2 DEF UploadBlob, PushOnly
      <3>2. /\ push' \in PushRecord(C) /\ push'.manifest = push.manifest
            /\ push'.uploads = push.uploads \ {d} /\ push'.pc = "upload"
        BY <1>typed, <3>1 DEF PushRecord
      <3>3. PushOK(push', C)
        BY <3>2 DEF PushOK, TreeInv
      <3>4. CommitsOK(manifests, blobStore')
        BY <3>1 DEF TreeInv, CommitsOK
      <3> QED BY <3>1, <3>3, <3>4 DEF TreeInv
    <2> QED BY <2>1, <2>2
  <1>5. CASE CommitPush
    <2>1. CASE PushFails
      BY <1>5, <1>fails, <2>1 DEF CommitPush
    <2>2. CASE ForgeAccepts
      <3>1. PICK n : n = Cardinality(C)
        OBVIOUS
      <3>2. manifests' = With(manifests, n, push.manifest) /\ headCommit' = n /\ push' = IdlePush
        BY <1>5, <2>2, <3>1 DEF CommitPush
      <3>3. UNCHANGED <<here, there, blobStore, pull>>
        BY <1>5, <2>2 DEF CommitPush, PushOnly
      <3>4. /\ DOMAIN manifests' = C \cup {n}
            /\ \A c \in C \cup {n} : manifests'[c] = IF c = n THEN push.manifest ELSE manifests[c]
        BY <3>2 DEF With
      <3>5. TreeDigests(push.manifest) \subseteq blobStore
        BY <1>typed, <2>2 DEF ForgeAccepts, TreeInv, CommitsOK
      <3>6. CommitsOK(manifests', blobStore)
        BY <1>typed, <3>4, <3>5 DEF TreeInv, CommitsOK
      <3>7. PushOK(push', DOMAIN manifests')
        BY <1>typed, <3>2, <3>4, IdlePushOK
      <3> QED BY <3>2, <3>3, <3>4, <3>6, <3>7 DEF TreeInv
    <2> QED BY <1>5, <2>1, <2>2 DEF CommitPush
  <1> QED BY <1>1, <1>2, <1>3, <1>4, <1>5 DEF PushCommand

(* Every step of a pull keeps TreeInv. *)
LEMMA PullStep ==
    ASSUME TreeInv, FetchCommand
    PROVE  TreeInv'
  <1>same. ASSUME PullOnly, there' \in [FilePath -> ThereState], PullOK(pull', there')
           PROVE  TreeInv'
    BY <1>same DEF TreeInv, PullOnly
  <1>typed. pull \in PullRecord /\ there \in [FilePath -> ThereState] /\ PullOK(pull, there)
    BY DEF TreeInv, PullOK
  <1>fields. /\ pull.manifest \in TreeManifest /\ DOMAIN pull.manifest \subseteq FilePath
             /\ \A p \in DOMAIN pull.manifest : pull.manifest[p] \in ManifestEntry
    BY <1>typed, ManifestFunction DEF PullRecord
  <1>idle. ASSUME PullEnds("idle"), PullOnly PROVE TreeInv'
    <2>1. pull' \in PullRecord /\ pull'.pc = "idle" /\ pull'.manifest = pull.manifest
           /\ pull'.todo = pull.todo /\ pull'.need = pull.need /\ pull'.writing = pull.writing
           /\ pull'.written = pull.written
      BY <1>idle, <1>typed DEF PullEnds, PullRecord
    <2>2. PullOK(pull', there)
      BY <1>typed, <2>1 DEF PullOK
    <2> QED BY <1>idle, <1>same, <1>typed, <2>2 DEF PullEnds
  <1>1. ASSUME NEW c \in CloneTarget, StartPull(c)
        PROVE  TreeInv'
    <2>1. manifests[c] \in TreeManifest
      BY DEF CloneTarget, TreeInv, CommitsOK
    <2>2. DOMAIN manifests[c] \subseteq FilePath
      BY <2>1, ManifestFunction
    <2>3. PICK m : m = manifests[c]
      OBVIOUS
    <2>4. pull' = [IdlePull EXCEPT !.pc = "load", !.tries = 1, !.manifest = m, !.todo = DOMAIN m]
      BY <1>1, <2>3 DEF StartPull
    <2>5. /\ pull' \in PullRecord /\ pull'.pc = "load" /\ pull'.manifest = m /\ pull'.todo = DOMAIN m
          /\ pull'.need = {} /\ pull'.writing = {} /\ pull'.written = {}
      <3>1. PICK S : S = DOMAIN m
        OBVIOUS
      <3>2. pull' = [pc |-> "load", tries |-> 1, manifest |-> m, todo |-> S, need |-> {},
                     writing |-> {}, written |-> {}, edited |-> {}]
        BY <2>4, <3>1 DEF IdlePull
      <3>3. m \in TreeManifest /\ S \in SUBSET FilePath
        BY <2>1, <2>2, <2>3, <3>1
      <3>4. pull' \in PullRecord
        BY <3>2, <3>3 DEF PullRecord
      <3> QED BY <3>1, <3>2, <3>4
    <2>6. PullOK(pull', there)
      BY <2>5 DEF PullOK
    <2> QED BY <1>1, <1>same, <1>typed, <2>6 DEF StartPull
  <1>2. CASE LoadManifest
    <2>1. CASE PullEnds("idle")
      BY <1>2, <1>idle, <2>1 DEF LoadManifest
    <2>2. CASE PullEnds("compare")
      <3>1. pull' \in PullRecord /\ pull'.pc = "compare" /\ pull'.manifest = pull.manifest
             /\ pull'.todo = pull.todo /\ pull'.need = pull.need /\ pull'.writing = pull.writing
             /\ pull'.written = pull.written
        BY <2>2, <1>typed DEF PullEnds, PullRecord
      <3>2. pull.pc = "load"
        BY <1>2 DEF LoadManifest
      <3>3. PullOK(pull', there)
        BY <1>typed, <3>1, <3>2 DEF PullOK
      <3> QED BY <1>2, <1>same, <1>typed, <2>2, <3>3 DEF LoadManifest, PullEnds
    <2>3. CASE pull' = [pull EXCEPT !.tries = 2] /\ UNCHANGED <<there, treeCounts>>
      <3>1. pull' \in PullRecord /\ pull'.pc = pull.pc /\ pull'.manifest = pull.manifest
             /\ pull'.todo = pull.todo /\ pull'.need = pull.need /\ pull'.writing = pull.writing
             /\ pull'.written = pull.written
        BY <2>3, <1>typed DEF PullRecord
      <3>2. pull.pc = "load"
        BY <1>2 DEF LoadManifest
      <3>3. PullOK(pull', there)
        BY <1>typed, <3>1, <3>2 DEF PullOK
      <3> QED BY <1>2, <1>same, <1>typed, <2>3, <3>3 DEF LoadManifest
    <2> QED BY <1>2, <2>1, <2>2, <2>3 DEF LoadManifest
  <1>3. ASSUME NEW p \in FilePath, CompareFile(p)
        PROVE  TreeInv'
    <2>1. CASE PullEnds("idle")
      BY <1>3, <1>idle, <2>1 DEF CompareFile
    <2>2. CASE EnsureSafeRepoPath(p)
      <3>1. PICK N : N = IF Matches(p) THEN pull.need ELSE pull.need \cup {p}
        OBVIOUS
      <3>2. pull' = [pull EXCEPT !.todo = @ \ {p}, !.need = N, !.edited = @ \ {p}] /\ there' = there
        BY <1>3, <2>2, <3>1 DEF CompareFile
      <3>3. pull.pc = "compare" /\ p \in pull.todo
        BY <1>3 DEF CompareFile
      <3>4. N \subseteq FilePath /\ N \subseteq pull.need \cup {p} /\ pull.need \subseteq N
        BY <1>typed, <3>1 DEF PullRecord
      <3>5. /\ pull' \in PullRecord /\ pull'.pc = "compare" /\ pull'.manifest = pull.manifest
            /\ pull'.todo = pull.todo \ {p} /\ pull'.need = N /\ pull'.writing = pull.writing
            /\ pull'.written = pull.written /\ pull'.edited = pull.edited \ {p}
        BY <1>typed, <3>2, <3>3, <3>4 DEF PullRecord
      <3>6. p \notin N => there[p].content = pull.manifest[p].digest
        BY <3>1 DEF Matches
      <3>7. PullOK(pull', there)
        BY <1>typed, <3>3, <3>4, <3>5, <3>6 DEF PullOK
      <3> QED BY <1>3, <1>same, <1>typed, <3>2, <3>7 DEF CompareFile
    <2> QED BY <1>3, <2>1, <2>2 DEF CompareFile
  <1>4. ASSUME NEW d \in FileContent, DownloadBlob(d)
        PROVE  TreeInv'
    <2>1. CASE PullEnds("idle")
      BY <1>4, <1>idle, <2>1 DEF DownloadBlob
    <2>2. CASE ~PullEnds("idle")
      <3>1. PICK W : W = {p \in pull.need : pull.manifest[p].digest = d}
        OBVIOUS
      <3>2. pull' = [pull EXCEPT !.writing = W] /\ there' = there /\ pull.pc = "compare"
        BY <1>4, <2>2, <3>1 DEF DownloadBlob
      <3>3. W \subseteq pull.need
        BY <3>1
      <3>4. /\ pull' \in PullRecord /\ pull'.pc = "compare" /\ pull'.manifest = pull.manifest
            /\ pull'.todo = pull.todo /\ pull'.need = pull.need /\ pull'.writing = W
            /\ pull'.written = pull.written /\ pull'.edited = pull.edited
        BY <1>typed, <3>2, <3>3 DEF PullRecord
      <3>5. PullOK(pull', there)
        BY <1>typed, <3>2, <3>3, <3>4 DEF PullOK
      <3> QED BY <1>4, <1>same, <1>typed, <3>2, <3>5 DEF DownloadBlob
    <2> QED BY <2>1, <2>2
  <1>5. ASSUME NEW p \in FilePath, WriteFile(p)
        PROVE  TreeInv'
    <2>1. p \in pull.writing /\ p \in DOMAIN pull.manifest
      BY <1>5, <1>typed DEF WriteFile, PullOK
    <2>2. pull.manifest[p].digest \in FileContent
      BY <1>fields, <2>1 DEF ManifestEntry
    <2>3. there' = [there EXCEPT ![p].content = pull.manifest[p].digest]
      BY <1>5 DEF WriteFile
    <2>4. /\ there' \in [FilePath -> ThereState]
          /\ \A q \in FilePath : there'[q].content = IF q = p THEN pull.manifest[p].digest
                                                       ELSE there[q].content
      BY <1>typed, <2>2, <2>3 DEF ThereState
    <2>5. /\ pull' \in PullRecord /\ pull'.pc = "chmod" /\ pull'.manifest = pull.manifest
          /\ pull'.todo = pull.todo /\ pull'.need = pull.need \ {p} /\ pull'.writing = pull.writing \ {p}
          /\ pull'.written = pull.written \cup {p} /\ pull'.edited = pull.edited \ {p}
      BY <1>5, <1>typed DEF WriteFile, PullRecord
    <2>6. pull.pc = "compare"
      BY <1>5 DEF WriteFile
    <2>7. PullOK(pull', there')
      BY <1>typed, <1>fields, <2>1, <2>4, <2>5, <2>6 DEF PullOK
    <2> QED BY <1>5, <1>same, <2>4, <2>7 DEF WriteFile
  <1>6. CASE SetMode
    <2>1. there' = [p \in FilePath |-> IF p \in pull.written /\ pull.manifest[p].exec
                                       THEN [there[p] EXCEPT !.exec = TRUE] ELSE there[p]]
      BY <1>6 DEF SetMode
    <2>2. ASSUME NEW p \in FilePath
          PROVE  /\ there'[p] \in ThereState /\ there'[p].content = there[p].content
                 /\ p \in pull.written /\ pull.manifest[p].exec => there'[p].exec
      <3>1. there[p] \in ThereState
        BY <1>typed
      <3>2. there'[p] = IF p \in pull.written /\ pull.manifest[p].exec
                        THEN [there[p] EXCEPT !.exec = TRUE] ELSE there[p]
        BY <2>1
      <3> QED BY <3>1, <3>2 DEF ThereState
    <2>3. there' \in [FilePath -> ThereState]
      BY <2>1, <2>2
    <2>4. /\ pull' \in PullRecord /\ pull'.pc = "compare" /\ pull'.manifest = pull.manifest
          /\ pull'.todo = pull.todo /\ pull'.need = pull.need /\ pull'.writing = pull.writing
          /\ pull'.written = pull.written /\ pull'.edited = pull.edited
      BY <1>6, <1>typed DEF SetMode, PullRecord
    <2>5. pull.pc = "chmod"
      BY <1>6 DEF SetMode
    <2>6. PullOK(pull', there')
      BY <1>typed, <1>fields, <2>2, <2>4, <2>5 DEF PullOK
    <2> QED BY <1>6, <1>same, <2>3, <2>6 DEF SetMode
  <1>7. CASE EndPull
    <2>1. pull' \in PullRecord /\ pull'.pc = "ok" /\ pull'.manifest = pull.manifest
           /\ pull'.todo = pull.todo /\ pull'.need = pull.need /\ pull'.writing = pull.writing
           /\ pull'.written = pull.written /\ pull'.edited = pull.edited
      BY <1>7, <1>typed DEF EndPull, PullEnds, PullRecord
    <2>2. pull.pc = "compare" /\ pull.todo = {} /\ pull.need = {} /\ there' = there
      BY <1>7 DEF EndPull, PullEnds
    <2>3. PullOK(pull', there)
      BY <1>typed, <2>1, <2>2 DEF PullOK
    <2> QED BY <1>7, <1>same, <1>typed, <2>2, <2>3 DEF EndPull
  <1>8. CASE KillPull
    <2>1. there' \in [FilePath -> ThereState]
      <3>1. CASE there' = there
        BY <1>typed, <3>1
      <3>2. CASE \E p \in pull.writing : there' = [there EXCEPT ![p].content = HalfWritten]
        BY <1>typed, <3>2 DEF ThereState, HalfWritten
      <3> QED BY <1>8, <3>1, <3>2 DEF KillPull
    <2>2. PullOK(pull', there')
      BY <1>8, IdlePullOK DEF KillPull
    <2> QED BY <1>8, <1>same, <2>1, <2>2 DEF KillPull
  <1> QED BY <1>1, <1>2, <1>3, <1>4, <1>5, <1>6, <1>7, <1>8 DEF FetchCommand

(* A user who edits either tree keeps TreeInv. *)
LEMMA EditStep ==
    ASSUME TreeInv, NEW p \in FilePath, NEW c \in FileContent \cup {NoSuchFile.content},
           EditHere(p, c) \/ EditThere(p, c)
    PROVE  TreeInv'
  <1>0. c \in FileContent \cup {"missing"}
    BY DEF NoSuchFile
  <1>1. CASE EditHere(p, c)
    <2>1. here' \in [FilePath -> HereState]
      BY <1>0, <1>1 DEF EditHere, TreeInv, HereState
    <2> QED BY <1>1, <2>1 DEF EditHere, TreeInv
  <1>2. CASE EditThere(p, c)
    <2>1. there \in [FilePath -> ThereState] /\ PullOK(pull, there) /\ pull \in PullRecord
      BY DEF TreeInv, PullOK
    <2>2. there' = [there EXCEPT ![p].content = c]
      BY <1>2 DEF EditThere
    <2>3. /\ there' \in [FilePath -> ThereState]
          /\ \A q \in FilePath : there'[q].exec = there[q].exec
          /\ \A q \in FilePath \ {p} : there'[q].content = there[q].content
      BY <1>0, <2>1, <2>2 DEF ThereState
    <2>4. /\ pull' \in PullRecord /\ pull'.pc = pull.pc /\ pull'.manifest = pull.manifest
          /\ pull'.todo = pull.todo /\ pull'.need = pull.need /\ pull'.writing = pull.writing
          /\ pull'.written = pull.written /\ pull'.edited = pull.edited \cup {p}
      BY <1>2, <2>1 DEF EditThere, PullRecord
    <2>5. DOMAIN pull.manifest \subseteq FilePath
      BY <2>1, ManifestFunction DEF PullRecord
    <2>6. PullOK(pull', there')
      BY <2>1, <2>3, <2>4, <2>5 DEF PullOK
    <2> QED BY <1>2, <2>3, <2>6 DEF EditThere, TreeInv
  <1> QED BY <1>1, <1>2

(* TreeInv holds of the trees before the first command. *)
LEMMA TreeStart ==
    ASSUME TreeInit
    PROVE  TreeInv
  <1>1. here \in [FilePath -> HereState]
    <2>1. PICK saved \in [FilePath \ Unsafe -> FileContent] :
             here = [p \in FilePath |-> IF p \in Unsafe THEN NoSuchFile
                                        ELSE [content |-> saved[p], exec |-> TRUE]]
      BY DEF TreeInit
    <2> QED BY <2>1 DEF NoSuchFile, HereState
  <1>2. there \in [FilePath -> ThereState]
    BY DEF TreeInit, NoSuchFile, ThereState
  <1>3. /\ DOMAIN manifests = {0} \cup DOMAIN ForeignCommit
        /\ \A c \in DOMAIN manifests : manifests[c] = IF c = 0 THEN <<>> ELSE ForeignCommit[c]
    BY DEF TreeInit
  <1>4. \A c \in DOMAIN ForeignCommit : TreeDigests(ForeignCommit[c]) \subseteq blobStore
    BY DEF TreeInit
  <1>5. CommitsOK(manifests, blobStore)
    BY <1>3, <1>4, EmptyManifest, WorkTreeAssumption DEF CommitsOK
  <1>6. PushOK(push, DOMAIN manifests) /\ PullOK(pull, there) /\ headCommit \in DOMAIN manifests
    BY <1>3, IdlePushOK, IdlePullOK DEF TreeInit
  <1> QED BY <1>1, <1>2, <1>5, <1>6 DEF TreeInv

(* Between two working trees nothing is lost, for any files, contents,     *)
(* manifests of other clients and numbers of commands: a commit the forge  *)
(* accepted has all its blobs, because a push whose files changed after    *)
(* the walk is refused (ForgeAccepts), and a pull that reports success has *)
(* every file of its manifest in place, whatever killed pulls and users    *)
(* had left there.                                                         *)
THEOREM WorkTreesAreSound == TreeSpec => [](TreeTypeOK /\ WorkTreeSound)
  <1>1. TreeInit => TreeInv
    BY TreeStart
  <1>2. TreeInv /\ [TreeNext]_treeVars => TreeInv'
    <2> SUFFICES ASSUME TreeInv, [TreeNext]_treeVars PROVE TreeInv'
      OBVIOUS
    <2>1. CASE UNCHANGED treeVars
      BY <2>1 DEF treeVars, TreeInv
    <2> QED BY <2>1, PushStep, PullStep, EditStep DEF TreeNext
  <1>3. TreeInv => TreeTypeOK /\ WorkTreeSound
    <2> SUFFICES ASSUME TreeInv PROVE TreeTypeOK /\ WorkTreeSound
      OBVIOUS
    <2>1. PulledWhole
      BY DEF TreeInv, PullOK, PulledWhole
    <2>2. CommitsPullable
      BY DEF TreeInv, CommitsOK, CommitsPullable
    <2>3. TreeTypeOK
      <3>1. \A tree \in {here, there} :
               tree \in [FilePath -> [content : FileContent \cup {NoSuchFile.content, HalfWritten},
                                      exec : BOOLEAN]]
        BY DEF TreeInv, HereState, ThereState, NoSuchFile, HalfWritten
      <3> QED BY <3>1 DEF TreeInv, TreeTypeOK, PushOK, PullOK, PushRecord, PullRecord, CommitsOK
    <2> QED BY <2>1, <2>2, <2>3 DEF WorkTreeSound
  <1> QED BY <1>1, <1>2, <1>3, PTL DEF TreeSpec


-----------------------------------------------------------------------------
(* The orchestrators of several repositories.  The edges of a graph, read   *)
(* from either end.                                                         *)
LEMMA EdgeEnds ==
    ASSUME NEW E, E \subseteq Repo \X Repo, NEW u, NEW w
    PROVE  /\ w \in DependentsOf(E, u) <=> <<u, w>> \in E
           /\ u \in DependenciesOf(E, w) <=> <<u, w>> \in E
  <1>1. ASSUME NEW e \in E PROVE e = <<e[1], e[2]>>
    OBVIOUS
  <1>2. w \in DependentsOf(E, u) <=> \E e \in E : e[1] = u /\ e[2] = w
    BY DEF DependentsOf
  <1>3. u \in DependenciesOf(E, w) <=> \E e \in E : e[2] = w /\ e[1] = u
    BY DEF DependenciesOf
  <1>4. (\E e \in E : e[1] = u /\ e[2] = w) <=> <<u, w>> \in E
    <2>1. ASSUME <<u, w>> \in E PROVE \E e \in E : e[1] = u /\ e[2] = w
      <3>1. <<u, w>>[1] = u /\ <<u, w>>[2] = w
        OBVIOUS
      <3> QED BY <2>1, <3>1
    <2>2. ASSUME NEW e \in E, e[1] = u, e[2] = w PROVE <<u, w>> \in E
      BY <1>1, <2>2
    <2> QED BY <2>1, <2>2
  <1> QED BY <1>2, <1>3, <1>4

(* One more layer of the breadth-first search. *)
Downstream(E, V) == V \cup UNION {DependentsOf(E, s) : s \in V}

IsLayers(f, E, r, N) ==
    f = [n \in 0..N |-> IF n = 0 THEN DependentsOf(E, r) ELSE Downstream(E, f[n - 1])]

(* The search has a layer for every number. *)
LEMMA LayersExist ==
    ASSUME NEW E, E \subseteq Repo \X Repo, NEW r \in Repo, NEW N \in Nat
    PROVE  \E f : IsLayers(f, E, r, N)
  <1> DEFINE X == SUBSET Repo
             G == [p \in Nat \X X |-> Downstream(E, p[2])]
             base == DependentsOf(E, r)
  <1>0. \A u : DependentsOf(E, u) \subseteq Repo
    BY DEF DependentsOf
  <1>1. base \in X /\ G \in [Nat \X X -> X]
    <2>1. ASSUME NEW V \in X PROVE Downstream(E, V) \in X
      BY <1>0 DEF Downstream
    <2>2. ASSUME NEW p \in Nat \X X PROVE Downstream(E, p[2]) \in X
      <3>1. p[2] \in X
        OBVIOUS
      <3> HIDE DEF X
      <3> QED BY <2>1, <3>1
    <2>3. G \in [Nat \X X -> X]
      <3> HIDE DEF X
      <3> QED BY <2>2
    <2> QED BY <1>0, <2>3
  <1>2. \A n \in Nat, V \in X : G[<<n, V>>] = Downstream(E, V)
    OBVIOUS
  <1> HIDE DEF X, G, base
  <1>3. PICK f : IsIteration(f, X, base, G, N)
    BY <1>1, IterationExists
  <1>4. ASSUME NEW n \in 0..N
        PROVE  f[n] = IF n = 0 THEN base ELSE Downstream(E, f[n - 1])
    <2>1. n # 0 => n \in 1..N /\ n \in Nat /\ n - 1 \in 0..N
      OBVIOUS
    <2> QED BY <1>2, <1>3, <2>1 DEF IsIteration
  <1>5. f = [n \in 0..N |-> f[n]]
    BY <1>3 DEF IsIteration
  <1>6. f = [n \in 0..N |-> IF n = 0 THEN base ELSE Downstream(E, f[n - 1])]
    BY <1>4, <1>5
  <1> QED BY <1>6 DEF IsLayers, base

(* The first layer is the direct dependents, each other one continues the   *)
(* one before it.                                                           *)
LEMMA LayersUnfold ==
    ASSUME NEW E, NEW r, NEW N \in Nat, NEW f, IsLayers(f, E, r, N)
    PROVE  f[0] = DependentsOf(E, r) /\ \A k \in 1..N : f[k] = Downstream(E, f[k - 1])
  <1> DEFINE g == [n \in 0..N |-> IF n = 0 THEN DependentsOf(E, r) ELSE Downstream(E, f[n - 1])]
  <1>1. \A n \in 0..N : g[n] = IF n = 0 THEN DependentsOf(E, r) ELSE Downstream(E, f[n - 1])
    OBVIOUS
  <1>2. f = g
    BY DEF IsLayers
  <1> HIDE DEF g
  <1>3. \A n \in 0..N : f[n] = IF n = 0 THEN DependentsOf(E, r) ELSE Downstream(E, f[n - 1])
    BY <1>1, <1>2
  <1> QED BY <1>3

(* What a set of repositories is closed under. *)
ClosedUnder(E, C) == \A e \in E : e[1] \in C => e[2] \in C

(* A layer has found as many repositories as its number says, or all there  *)
(* are; each has a dependency in it or is a direct dependent; and a closed  *)
(* set that holds the direct dependents holds the layer.                    *)
LEMMA LayersGrow ==
    ASSUME NEW E, E \subseteq Repo \X Repo, NEW r \in Repo, NEW N \in Nat, NEW f,
           IsLayers(f, E, r, N), NEW n \in 0..N
    PROVE  /\ f[n] \subseteq Repo /\ DependentsOf(E, r) \subseteq f[n]
           /\ Downstream(E, f[n]) = f[n] \/ Cardinality(f[n]) >= n + 1
           /\ \A x \in f[n] : \E y \in f[n] \cup {r} : <<y, x>> \in E
           /\ \A C : DependentsOf(E, r) \subseteq C /\ ClosedUnder(E, C) => f[n] \subseteq C
  <1> DEFINE Base == DependentsOf(E, r)
             Sized(k, V) == Downstream(E, V) = V \/ Cardinality(V) >= k + 1
             Rooted(V) == \A x \in V : \E y \in V \cup {r} : <<y, x>> \in E
             Least(V) == \A C : Base \subseteq C /\ ClosedUnder(E, C) => V \subseteq C
             Good(k, V) == /\ V \subseteq Repo /\ Base \subseteq V
                           /\ Sized(k, V) /\ Rooted(V) /\ Least(V)
             T == {k \in 0..N : ~ Good(k, f[k])}
  <1>0. f[0] = Base /\ \A k \in 1..N : f[k] = Downstream(E, f[k - 1])
    BY LayersUnfold
  <1>a. \A u : DependentsOf(E, u) \subseteq Repo
    BY DEF DependentsOf
  <1>b. \A u, w : w \in DependentsOf(E, u) <=> <<u, w>> \in E
    BY EdgeEnds
  <1> SUFFICES ASSUME T # {} PROVE FALSE
    OBVIOUS
  <1>1. PICK m \in T : \A k \in T : m <= k
    <2>1. T \subseteq Nat
      OBVIOUS
    <2> HIDE DEF T
    <2> QED BY <2>1, LeastIndex
  <1>2. m \in 0..N /\ ~ Good(m, f[m])
    BY <1>1
  <1>3. m # 0
    <2>1. Sized(0, Base)
      <3>1. CASE Base = {}
        BY <3>1 DEF Downstream
      <3>2. CASE Base # {}
        <4>1. IsFiniteSet(Base)
          BY <1>a, MultiRepoAssumption, FS_Subset
        <4>2. Cardinality(Base) \in Nat /\ Cardinality(Base) # 0
          BY <3>2, <4>1, FS_CardinalityType, FS_EmptySet
        <4> HIDE DEF Base
        <4> QED BY <4>2
      <3> QED BY <3>1, <3>2
    <2>2. Rooted(Base) /\ Least(Base)
      BY <1>b
    <2>3. Good(0, f[0])
      <3> HIDE DEF Sized, Rooted, Least
      <3> QED BY <1>0, <1>a, <2>1, <2>2
    <2> QED BY <1>2, <2>3
  <1> DEFINE V == f[m - 1]
             W == f[m]
  <1>4. Good(m - 1, V) /\ W = Downstream(E, V)
    <2>1. m - 1 \in 0..N /\ m - 1 \notin T
      BY <1>1, <1>2, <1>3
    <2> HIDE DEF Good
    <2> QED BY <1>0, <1>2, <1>3, <2>1
  <1> HIDE DEF T
  <1>5. V \subseteq W /\ W \subseteq Repo /\ Base \subseteq W
    BY <1>4, <1>a DEF Downstream
  <1>6. Rooted(W)
    <2> SUFFICES ASSUME NEW x \in W PROVE \E y \in W \cup {r} : <<y, x>> \in E
      OBVIOUS
    <2>1. CASE x \in V
      BY <1>4, <1>5, <2>1
    <2>2. CASE x \notin V
      <3>1. PICK s \in V : x \in DependentsOf(E, s)
        BY <1>4, <2>2 DEF Downstream
      <3> QED BY <1>5, <1>b, <3>1
    <2> QED BY <2>1, <2>2
  <1>7. Least(W)
    <2> SUFFICES ASSUME NEW C, Base \subseteq C, ClosedUnder(E, C), NEW x \in W PROVE x \in C
      OBVIOUS
    <2>0. V \subseteq C
      BY <1>4
    <2>1. CASE x \notin V
      <3>1. PICK s \in V : x \in DependentsOf(E, s)
        BY <1>4, <2>1 DEF Downstream
      <3>2. <<s, x>> \in E /\ s \in C
        BY <1>b, <2>0, <3>1
      <3>3. <<s, x>>[1] = s /\ <<s, x>>[2] = x
        OBVIOUS
      <3> QED BY <3>2, <3>3 DEF ClosedUnder
    <2> QED BY <2>0, <2>1
  <1>8. Sized(m, W)
    <2>1. CASE W = V
      BY <1>4, <2>1
    <2>2. CASE W # V
      <3>1. IsFiniteSet(W) /\ IsFiniteSet(V)
        BY <1>5, MultiRepoAssumption, FS_Subset
      <3>2. Cardinality(V) < Cardinality(W)
        <4> HIDE DEF V, W
        <4> QED BY <1>5, <2>2, <3>1, FS_Subset, FS_CardinalityType
      <3>3. Cardinality(V) \in Nat /\ Cardinality(W) \in Nat
        BY <3>1, FS_CardinalityType
      <3>4. Cardinality(V) >= (m - 1) + 1
        BY <1>4, <2>2
      <3> HIDE DEF V, W
      <3> QED BY <1>2, <3>2, <3>3, <3>4
    <2> QED BY <2>1, <2>2
  <1> HIDE DEF Sized, Rooted, Least
  <1> QED BY <1>2, <1>5, <1>6, <1>7, <1>8

(* The transitive dependents: the least closed set with the direct ones.    *)
LEMMA TransitiveIs ==
    ASSUME NEW E, E \subseteq Repo \X Repo, NEW r \in Repo
    PROVE  LET all == TransitiveDependentsOf(E, r)
           IN  /\ all \subseteq Repo /\ DependentsOf(E, r) \subseteq all
               /\ ClosedUnder(E, all)
               /\ \A x \in all : \E y \in all \cup {r} : <<y, x>> \in E
               /\ \A C : DependentsOf(E, r) \subseteq C /\ ClosedUnder(E, C) => all \subseteq C
  <1> DEFINE N == Cardinality(Repo)
             Is(f) == f = [n \in 0..N |-> IF n = 0 THEN DependentsOf(E, r)
                              ELSE f[n - 1] \cup UNION {DependentsOf(E, s) : s \in f[n - 1]}]
             layer == CHOOSE f : Is(f)
             all == layer[N]
  <1>1. N \in Nat
    BY MultiRepoAssumption, FS_CardinalityType
  <1>2. \E f : Is(f)
    <2>1. PICK f : IsLayers(f, E, r, N)
      <3> HIDE DEF N
      <3> QED BY <1>1, LayersExist
    <2>2. Is(f)
      BY <2>1 DEF IsLayers, Downstream
    <2> HIDE DEF Is
    <2> QED BY <2>2
  <1>3. Is(layer)
    <2> HIDE DEF Is
    <2> QED BY <1>2
  <1>4. TransitiveDependentsOf(E, r) = all
    BY DEF TransitiveDependentsOf
  <1>5. IsLayers(layer, E, r, N)
    <2> HIDE DEF layer
    <2> QED BY <1>3 DEF IsLayers, Downstream
  <1> HIDE DEF layer, Is
  <1>6. /\ all \subseteq Repo /\ DependentsOf(E, r) \subseteq all
        /\ Downstream(E, all) = all \/ Cardinality(all) >= N + 1
        /\ \A x \in all : \E y \in all \cup {r} : <<y, x>> \in E
        /\ \A C : DependentsOf(E, r) \subseteq C /\ ClosedUnder(E, C) => all \subseteq C
    <2>1. N \in 0..N
      BY <1>1
    <2> HIDE DEF N
    <2> QED BY <1>1, <1>5, <2>1, LayersGrow
  <1>7. Cardinality(all) \in Nat /\ Cardinality(all) <= N
    <2> HIDE DEF all
    <2> QED BY <1>6, MultiRepoAssumption, FS_Subset, FS_CardinalityType
  <1>8. Downstream(E, all) = all
    BY <1>1, <1>6, <1>7
  <1> HIDE DEF all
  <1>9. ClosedUnder(E, all)
    <2> SUFFICES ASSUME NEW e \in E, e[1] \in all PROVE e[2] \in all
      BY DEF ClosedUnder
    <2>1. e = <<e[1], e[2]>>
      OBVIOUS
    <2>2. e[2] \in DependentsOf(E, e[1])
      BY <2>1, EdgeEnds
    <2> QED BY <1>8, <2>2 DEF Downstream
  <1> QED BY <1>4, <1>6, <1>9

-----------------------------------------------------------------------------
(* In every set of repositories there is one that depends on none of them.  *)
Acyclic(E) == \A S \in (SUBSET Repo) \ {{}} : \E u \in S : \A w \in S : <<w, u>> \notin E

(* An edge after which the dependent is not found from itself leaves the    *)
(* graph without a cycle.                                                   *)
LEMMA EdgeClosesNoCycle ==
    ASSUME NEW E, E \subseteq Repo \X Repo, Acyclic(E), NEW a \in Repo, NEW b \in Repo,
           ~ FindCycleThrough(E \cup {<<a, b>>}, b)
    PROVE  Acyclic(E \cup {<<a, b>>})
  <1> DEFINE F == E \cup {<<a, b>>}
             D == TransitiveDependentsOf(F, b)
  <1>1. F \subseteq Repo \X Repo
    OBVIOUS
  <1>2. /\ D \subseteq Repo /\ DependentsOf(F, b) \subseteq D /\ ClosedUnder(F, D)
    <2> HIDE DEF F
    <2> QED BY <1>1, TransitiveIs
  <1>3. b \notin D
    BY DEF FindCycleThrough
  <1> HIDE DEF D
  <1>4. \A u, w : <<u, w>> \in F /\ u \in D => w \in D
    <2> SUFFICES ASSUME NEW u, NEW w, <<u, w>> \in F, u \in D PROVE w \in D
      OBVIOUS
    <2>1. <<u, w>>[1] = u /\ <<u, w>>[2] = w
      OBVIOUS
    <2> HIDE DEF F
    <2> QED BY <1>2, <2>1 DEF ClosedUnder
  <1>5. \A w : <<b, w>> \in F => w \in D
    <2> HIDE DEF F
    <2> QED BY <1>1, <1>2, EdgeEnds
  <1>6. a # b /\ a \notin D
    BY <1>3, <1>4, <1>5
  <1> SUFFICES ASSUME NEW S \in (SUBSET Repo) \ {{}}, \A u \in S : \E w \in S : <<w, u>> \in F
               PROVE  FALSE
    BY DEF Acyclic
  <1> DEFINE R == S \ (D \cup {b})
  <1>7. \A u \in S : u # b => \E w \in S : <<w, u>> \in E
    OBVIOUS
  <1>8. a \in R
    <2>1. PICK u \in S : \A w \in S : <<w, u>> \notin E
      BY DEF Acyclic
    <2> QED BY <1>6, <2>1
  <1>9. ASSUME NEW u \in R PROVE \E w \in R : <<w, u>> \in E
    <2>1. PICK w \in S : <<w, u>> \in E
      BY <1>7
    <2>2. w \notin D /\ w # b
      BY <1>4, <1>5, <2>1
    <2> QED BY <2>1, <2>2
  <1>10. R \in (SUBSET Repo) \ {{}}
    BY <1>8
  <1> HIDE DEF R
  <1> QED BY <1>9, <1>10 DEF Acyclic

(* Without a cycle no repository is among its own dependents. *)
LEMMA AcyclicIsGraph ==
    ASSUME NEW repos, repos \subseteq Repo, NEW E, E \subseteq repos \X repos, Acyclic(E)
    PROVE  IsDependencyGraph(repos, E)
  <1> SUFFICES ASSUME NEW r \in repos, r \in TransitiveDependentsOf(E, r) PROVE FALSE
    BY DEF IsDependencyGraph, FindCycleThrough
  <1> DEFINE D == TransitiveDependentsOf(E, r)
  <1>1. E \subseteq Repo \X Repo /\ r \in Repo
    OBVIOUS
  <1>2. D \subseteq Repo /\ \A x \in D : \E y \in D \cup {r} : <<y, x>> \in E
    BY <1>1, TransitiveIs
  <1>3. r \in D
    OBVIOUS
  <1> HIDE DEF D
  <1> QED BY <1>2, <1>3 DEF Acyclic
-----------------------------------------------------------------------------
(* A sorted set lists each of its members once. *)
LEMMA SortedLists ==
    ASSUME NEW S, S \subseteq Repo
    PROVE  /\ SortUnstable(S) \in Seq(S)
           /\ \A i, j \in DOMAIN SortUnstable(S) : SortUnstable(S)[i] = SortUnstable(S)[j] => i = j
           /\ \A u \in S : \E i \in DOMAIN SortUnstable(S) : SortUnstable(S)[i] = u
  <1> DEFINE R == {e \in S \X S : e[1] < e[2]}
             N == Cardinality(S)
             rank(u) == Cardinality({q \in S : q < u})
             list == [i \in 1..N |-> CHOOSE u \in S : rank(u) = i - 1]
  <1>1. IsFiniteSet(S) /\ N \in Nat /\ S \subseteq Nat
    BY MultiRepoAssumption, FS_Subset, FS_CardinalityType
  <1>2. \A u, w \in S : <<u, w>> \in R <=> u < w
    OBVIOUS
  <1> HIDE DEF R
  <1>3. IsTotalOrder(S, R)
    BY <1>1, <1>2 DEF IsTotalOrder
  <1>4. \A u \in S : rank(u) = Cardinality(Below(S, R, u))
    BY <1>2 DEF Below
  <1> HIDE DEF rank, N
  <1>5. \A i \in 1..N : \E u \in S : rank(u) = i - 1
    <2> SUFFICES ASSUME NEW i \in 1..N PROVE \E u \in S : rank(u) = i - 1
      OBVIOUS
    <2>1. i - 1 \in 0..(N - 1)
      BY <1>1
    <2>2. PICK u \in S : Cardinality(Below(S, R, u)) = i - 1
      BY <1>1, <1>3, <2>1, RankOnto DEF N
    <2> QED BY <1>4, <2>2
  <1>6. \A i \in 1..N : list[i] \in S /\ rank(list[i]) = i - 1
    BY <1>5
  <1>a. list = [i \in 1..N |-> list[i]]
    OBVIOUS
  <1> HIDE DEF list
  <1>7. DOMAIN list = 1..N /\ list \in Seq(S)
    <2>1. DOMAIN list = 1..N /\ list \in [1..N -> S]
      BY <1>6, <1>a
    <2> QED BY <1>1, <2>1
  <1>8. \A i, j \in 1..N : list[i] = list[j] => i = j
    BY <1>1, <1>6
  <1>9. ASSUME NEW u \in S PROVE \E i \in 1..N : list[i] = u
    <2>1. rank(u) \in 0..(N - 1)
      BY <1>1, <1>3, <1>4, RankGrows DEF N
    <2>2. rank(u) + 1 \in 1..N /\ rank(list[rank(u) + 1]) = rank(u) /\ list[rank(u) + 1] \in S
      BY <1>1, <1>6, <2>1
    <2>3. ASSUME NEW v \in S, rank(v) = rank(u) PROVE v = u
      <3> SUFFICES ASSUME v # u PROVE FALSE
        OBVIOUS
      <3>1. <<u, v>> \in R \/ <<v, u>> \in R
        BY <1>3 DEF IsTotalOrder
      <3>2. <<u, v>> \in R => rank(u) < rank(v)
        BY <1>1, <1>3, <1>4, RankGrows
      <3>3. <<v, u>> \in R => rank(v) < rank(u)
        BY <1>1, <1>3, <1>4, RankGrows
      <3> QED BY <2>1, <2>3, <3>1, <3>2, <3>3
    <2> QED BY <2>2, <2>3
  <1>10. SortUnstable(S) = list
    BY DEF SortUnstable, list, rank, N
  <1> QED BY <1>7, <1>8, <1>9, <1>10
-----------------------------------------------------------------------------
(* Kahn's algorithm.  The repositories of a list of steps. *)
Names(steps) == {steps[i][1] : i \in DOMAIN steps}

Once(steps) == \A i, j \in DOMAIN steps : steps[i][1] = steps[j][1] => i = j

KahnState(all) == [queue : Seq(all \X Nat), sorted : Seq(all \X Nat)]

(* A sorted set of repositories, each paired with a level. *)
LEMMA LevelLists ==
    ASSUME NEW all, all \subseteq Repo, NEW S \in SUBSET all, NEW level \in Nat
    PROVE  LET list == SortUnstable(S)
               steps == [i \in DOMAIN list |-> <<list[i], level>>]
           IN  steps \in Seq(all \X Nat) /\ Once(steps) /\ Names(steps) = S
  <1> DEFINE list == SortUnstable(S)
             steps == [i \in DOMAIN list |-> <<list[i], level>>]
  <1>1. /\ list \in Seq(S)
        /\ \A i, j \in DOMAIN list : list[i] = list[j] => i = j
        /\ \A u \in S : \E i \in DOMAIN list : list[i] = u
    BY SortedLists
  <1> HIDE DEF list
  <1>2. DOMAIN steps = DOMAIN list /\ \A i \in DOMAIN list : steps[i] = <<list[i], level>>
    OBVIOUS
  <1>3. \A i \in DOMAIN list : steps[i][1] = list[i] /\ list[i] \in S
    BY <1>1, <1>2
  <1>4. steps \in Seq(all \X Nat)
    <2>1. Len(list) \in Nat /\ DOMAIN list = 1..Len(list)
      BY <1>1
    <2>2. \A i \in 1..Len(list) : <<list[i], level>> \in all \X Nat
      BY <1>3, <2>1
    <2>3. steps \in [1..Len(list) -> all \X Nat]
      BY <2>1, <2>2
    <2> HIDE DEF steps
    <2> QED BY <2>1, <2>3
  <1> HIDE DEF steps
  <1>5. Once(steps)
    BY <1>1, <1>2, <1>3 DEF Once
  <1>6. Names(steps) = S
    BY <1>1, <1>2, <1>3 DEF Names
  <1> QED BY <1>4, <1>5, <1>6 DEF list, steps

(* What a round appends to the queue. *)
Freed(E, k) ==
    {d \in DependentsOf(E, k.queue[1][1]) :
        DependenciesOf(E, d) \subseteq Names(k.sorted) \cup {k.queue[1][1]}}

IsRound(E, all, k, more) ==
    /\ more \in Seq(all \X Nat) /\ Once(more) /\ Names(more) = Freed(E, k)
    /\ KahnRound(E, k) = [queue |-> Tail(k.queue) \o more, sorted |-> Append(k.sorted, k.queue[1])]

(* A round takes the first of the queue and appends those that it frees. *)
LEMMA KahnRoundIs ==
    ASSUME NEW all, all \subseteq Repo, NEW E, E \subseteq all \X all,
           NEW k \in KahnState(all), k.queue # <<>>
    PROVE  \E more : IsRound(E, all, k, more)
  <1> DEFINE n == k.queue[1][1]
             done == {s[1] : s \in ToSet(k.sorted)} \cup {n}
             S == {d \in DependentsOf(E, n) : DependenciesOf(E, d) \subseteq done}
             next == SortUnstable(S)
             level == k.queue[1][2] + 1
             more == [i \in DOMAIN next |-> <<next[i], level>>]
  <1>1. {s[1] : s \in ToSet(k.sorted)} = Names(k.sorted)
    BY DEF Names, ToSet
  <1>2. S = Freed(E, k)
    BY <1>1 DEF Freed
  <1>3. k.queue[1] \in all \X Nat
    <2>1. k.queue \in Seq(all \X Nat)
      BY DEF KahnState
    <2> QED BY <2>1
  <1>4. level \in Nat
    BY <1>3
  <1>5. S \in SUBSET all
    BY DEF DependentsOf
  <1>6. KahnRound(E, k) = [queue |-> Tail(k.queue) \o more, sorted |-> Append(k.sorted, k.queue[1])]
    BY DEF KahnRound
  <1>7. more \in Seq(all \X Nat) /\ Once(more) /\ Names(more) = S
    <2> HIDE DEF S, level
    <2> QED BY <1>4, <1>5, LevelLists
  <1> HIDE DEF more, S
  <1> QED BY <1>2, <1>6, <1>7 DEF IsRound

(* A round keeps the types. *)
LEMMA KahnTyped ==
    ASSUME NEW all, all \subseteq Repo, NEW E, E \subseteq all \X all, NEW k \in KahnState(all)
    PROVE  KahnRound(E, k) \in KahnState(all)
  <1>1. CASE k.queue = <<>>
    BY <1>1 DEF KahnRound
  <1>2. CASE k.queue # <<>>
    <2>1. PICK more : IsRound(E, all, k, more)
      BY <1>2, KahnRoundIs
    <2>2. k.queue \in Seq(all \X Nat) /\ k.sorted \in Seq(all \X Nat)
      BY DEF KahnState
    <2>3. Tail(k.queue) \in Seq(all \X Nat) /\ k.queue[1] \in all \X Nat
      BY <1>2, <2>2
    <2>4. Tail(k.queue) \o more \in Seq(all \X Nat) /\ Append(k.sorted, k.queue[1]) \in Seq(all \X Nat)
      BY <2>1, <2>2, <2>3 DEF IsRound
    <2> QED BY <2>1, <2>4 DEF KahnState, IsRound
  <1> QED BY <1>1, <1>2

(* What the loop keeps: no repository is met twice, those that are sorted   *)
(* come after their dependencies, those in the queue have only sorted       *)
(* dependencies, and any other repository waits for one that is not sorted. *)
KahnInv(E, all, k, n) ==
    /\ k \in KahnState(all)
    /\ Once(k.sorted) /\ Once(k.queue) /\ Names(k.sorted) \cap Names(k.queue) = {}
    /\ \A j \in DOMAIN k.sorted : \A d \in DependenciesOf(E, k.sorted[j][1]) :
          \E i \in 1..(j - 1) : k.sorted[i][1] = d
    /\ \A u \in Names(k.queue) : DependenciesOf(E, u) \subseteq Names(k.sorted)
    /\ \A u \in all : DependenciesOf(E, u) \subseteq Names(k.sorted)
                      => u \in Names(k.sorted) \cup Names(k.queue)
    /\ k.queue = <<>> \/ Len(k.sorted) = n

(* The names of lists that are put together. *)
LEMMA NamesOf ==
    ASSUME NEW X, NEW s \in Seq(X)
    PROVE  /\ \A e \in X : Names(Append(s, e)) = Names(s) \cup {e[1]}
           /\ \A t \in Seq(X) : Names(s \o t) = Names(s) \cup Names(t)
           /\ s # <<>> => Names(s) = Names(Tail(s)) \cup {s[1][1]}
           /\ s # <<>> /\ Once(s) => Once(Tail(s)) /\ s[1][1] \notin Names(Tail(s))
           /\ \A e \in X : Once(s) /\ e[1] \notin Names(s) => Once(Append(s, e))
           /\ \A t \in Seq(X) : Once(s) /\ Once(t) /\ Names(s) \cap Names(t) = {} => Once(s \o t)
  <1> DEFINE n == Len(s)
  <1>1. n \in Nat /\ DOMAIN s = 1..n
    OBVIOUS
  <1>2. ASSUME NEW e \in X
        PROVE  /\ Names(Append(s, e)) = Names(s) \cup {e[1]}
               /\ Once(s) /\ e[1] \notin Names(s) => Once(Append(s, e))
    <2> DEFINE g == Append(s, e)
    <2>1. DOMAIN g = 1..(n + 1) /\ g[n + 1] = e /\ \A i \in 1..n : g[i] = s[i]
      BY <1>1
    <2> HIDE DEF g, n
    <2>2. 1..(n + 1) = 1..n \cup {n + 1}
      BY <1>1
    <2>3. Names(g) = Names(s) \cup {e[1]}
      BY <1>1, <2>1, <2>2 DEF Names
    <2>4. ASSUME Once(s), e[1] \notin Names(s) PROVE Once(g)
      <3>1. \A i \in 1..n : s[i][1] # e[1]
        BY <1>1, <2>4 DEF Names
      <3> QED BY <1>1, <2>1, <2>2, <2>4, <3>1 DEF Once
    <2> QED BY <2>3, <2>4 DEF g
  <1>3. ASSUME NEW t \in Seq(X)
        PROVE  /\ Names(s \o t) = Names(s) \cup Names(t)
               /\ Once(s) /\ Once(t) /\ Names(s) \cap Names(t) = {} => Once(s \o t)
    <2> DEFINE g == s \o t
               m == Len(t)
    <2>1. m \in Nat /\ DOMAIN t = 1..m
      OBVIOUS
    <2>2. /\ DOMAIN g = 1..(n + m)
          /\ \A i \in 1..(n + m) : g[i] = IF i <= n THEN s[i] ELSE t[i - n]
      BY ConcatProperties
    <2> HIDE DEF g, n, m
    <2>3. ASSUME NEW i \in 1..(n + m)
          PROVE  \/ i \in 1..n /\ g[i] = s[i]
                 \/ i \notin 1..n /\ i - n \in 1..m /\ g[i] = t[i - n]
      BY <1>1, <2>1, <2>2
    <2>4. \A i \in 1..n : i \in 1..(n + m) /\ g[i] = s[i]
      BY <1>1, <2>1, <2>2
    <2>5. \A i \in 1..m : i + n \in 1..(n + m) /\ g[i + n] = t[i]
      <3> SUFFICES ASSUME NEW i \in 1..m PROVE i + n \in 1..(n + m) /\ g[i + n] = t[i]
        OBVIOUS
      <3>1. i + n \in 1..(n + m) /\ ~(i + n <= n) /\ (i + n) - n = i
        BY <1>1, <2>1
      <3> QED BY <2>2, <3>1
    <2>6. Names(g) = Names(s) \cup Names(t)
      <3>1. ASSUME NEW z \in Names(g) PROVE z \in Names(s) \cup Names(t)
        <4>1. PICK i \in 1..(n + m) : z = g[i][1]
          BY <2>2, <3>1 DEF Names
        <4>2. \/ i \in DOMAIN s /\ z = s[i][1]
              \/ i - n \in DOMAIN t /\ z = t[i - n][1]
          BY <1>1, <2>1, <2>3, <4>1
        <4> QED BY <4>2 DEF Names
      <3>2. ASSUME NEW z \in Names(s) PROVE z \in Names(g)
        BY <1>1, <2>2, <2>4 DEF Names
      <3>3. ASSUME NEW z \in Names(t) PROVE z \in Names(g)
        BY <2>1, <2>2, <2>5 DEF Names
      <3> QED BY <3>1, <3>2, <3>3
    <2>7. ASSUME Once(s), Once(t), Names(s) \cap Names(t) = {} PROVE Once(g)
      <3>0. \A i \in 1..n, j \in 1..m : s[i][1] # t[j][1]
        BY <1>1, <2>1, <2>7 DEF Names
      <3> SUFFICES ASSUME NEW i \in 1..(n + m), NEW j \in 1..(n + m), g[i][1] = g[j][1] PROVE i = j
        BY <2>2 DEF Once
      <3>1. CASE i \in 1..n /\ j \in 1..n
        BY <1>1, <2>4, <2>7, <3>1 DEF Once
      <3>2. CASE i \notin 1..n /\ j \notin 1..n
        <4>1. i - n = j - n
          BY <2>1, <2>3, <2>7, <3>2 DEF Once
        <4> QED BY <1>1, <4>1
      <3>3. CASE i \in 1..n /\ j \notin 1..n
        BY <2>3, <3>0, <3>3
      <3>4. CASE i \notin 1..n /\ j \in 1..n
        BY <2>3, <3>0, <3>4
      <3> QED BY <3>1, <3>2, <3>3, <3>4
    <2> QED BY <2>6, <2>7 DEF g
  <1>4. ASSUME s # <<>>
        PROVE  /\ Names(s) = Names(Tail(s)) \cup {s[1][1]}
               /\ Once(s) => Once(Tail(s)) /\ s[1][1] \notin Names(Tail(s))
    <2> DEFINE g == Tail(s)
    <2>1. n \in Nat \ {0}
      BY <1>4, EmptySeq
    <2>2. DOMAIN g = 1..(n - 1) /\ \A i \in 1..(n - 1) : g[i] = s[i + 1]
      BY <1>4, HeadTailProperties
    <2> HIDE DEF g, n
    <2>3. \A i \in 1..(n - 1) : i + 1 \in 1..n /\ i + 1 # 1
      BY <2>1
    <2>4. ASSUME NEW i \in 1..n, i # 1 PROVE i - 1 \in 1..(n - 1) /\ g[i - 1] = s[i]
      <3>1. i - 1 \in 1..(n - 1) /\ (i - 1) + 1 = i
        BY <2>1, <2>4
      <3> QED BY <2>2, <3>1
    <2>5. 1 \in 1..n
      BY <2>1
    <2>6. Names(s) = Names(g) \cup {s[1][1]}
      <3>1. ASSUME NEW z \in Names(s) PROVE z \in Names(g) \cup {s[1][1]}
        <4>1. PICK i \in 1..n : z = s[i][1]
          BY <1>1, <3>1 DEF Names
        <4>2. i # 1 => i - 1 \in DOMAIN g /\ z = g[i - 1][1]
          BY <2>2, <2>4, <4>1
        <4> QED BY <4>1, <4>2 DEF Names
      <3>2. ASSUME NEW z \in Names(g) PROVE z \in Names(s)
        BY <1>1, <2>2, <2>3 DEF Names
      <3>3. s[1][1] \in Names(s)
        BY <1>1, <2>5 DEF Names
      <3> QED BY <3>1, <3>2, <3>3
    <2>7. ASSUME Once(s) PROVE Once(g) /\ s[1][1] \notin Names(g)
      <3>1. ASSUME NEW i \in 1..(n - 1), NEW j \in 1..(n - 1), g[i][1] = g[j][1] PROVE i = j
        <4>1. i + 1 \in DOMAIN s /\ j + 1 \in DOMAIN s /\ s[i + 1][1] = s[j + 1][1]
          BY <1>1, <2>2, <2>3, <3>1
        <4>2. i + 1 = j + 1
          BY <2>7, <4>1 DEF Once
        <4> QED BY <4>2
      <3>2. ASSUME s[1][1] \in Names(g) PROVE FALSE
        <4>1. PICK i \in 1..(n - 1) : s[1][1] = g[i][1]
          BY <2>2, <3>2 DEF Names
        <4>2. i + 1 \in DOMAIN s /\ 1 \in DOMAIN s /\ s[i + 1][1] = s[1][1] /\ i + 1 # 1
          BY <1>1, <2>2, <2>3, <2>5, <4>1
        <4> QED BY <2>7, <4>2 DEF Once
      <3> QED BY <2>2, <3>1, <3>2 DEF Once
    <2> QED BY <2>6, <2>7 DEF g
  <1> QED BY <1>2, <1>3, <1>4
(* A round keeps the invariant of the loop. *)
LEMMA KahnStep ==
    ASSUME NEW all, all \subseteq Repo, NEW E, E \subseteq all \X all, NEW k, NEW n \in Nat,
           KahnInv(E, all, k, n)
    PROVE  KahnInv(E, all, KahnRound(E, k), n + 1)
  <1>0. k \in KahnState(all)
    BY DEF KahnInv
  <1>1. CASE k.queue = <<>>
    <2>1. KahnRound(E, k) = k
      BY <1>1 DEF KahnRound
    <2> QED BY <1>1, <2>1 DEF KahnInv
  <1>2. CASE k.queue # <<>>
    <2> DEFINE X == all \X Nat
               queue == k.queue
               sorted == k.sorted
               first == queue[1]
               u == first[1]
               later == Tail(queue)
    <2>1. queue \in Seq(X) /\ sorted \in Seq(X)
      BY <1>0 DEF KahnState
    <2>2. first \in X /\ later \in Seq(X)
      BY <1>2, <2>1
    <2>3. PICK more : IsRound(E, all, k, more)
      BY <1>0, <1>2, KahnRoundIs
    <2> DEFINE nq == later \o more
               ns == Append(sorted, first)
               g == KahnRound(E, k)
    <2>4. /\ more \in Seq(X) /\ Once(more) /\ Names(more) = Freed(E, k)
          /\ g = [queue |-> nq, sorted |-> ns]
      BY <2>3 DEF IsRound
    <2>5. /\ Once(sorted) /\ Once(queue) /\ Names(sorted) \cap Names(queue) = {}
          /\ \A j \in DOMAIN sorted : \A d \in DependenciesOf(E, sorted[j][1]) :
                \E i \in 1..(j - 1) : sorted[i][1] = d
          /\ \A w \in Names(queue) : DependenciesOf(E, w) \subseteq Names(sorted)
          /\ \A w \in all : DependenciesOf(E, w) \subseteq Names(sorted)
                            => w \in Names(sorted) \cup Names(queue)
          /\ Len(sorted) = n
      BY <1>2 DEF KahnInv
    <2>6. Freed(E, k) = {d \in DependentsOf(E, u) : DependenciesOf(E, d) \subseteq Names(sorted) \cup {u}}
      BY DEF Freed
    <2>7. nq \in Seq(X) /\ ns \in Seq(X)
      BY <2>1, <2>2, <2>4
    <2>8. g \in KahnState(all)
      BY <2>4, <2>7 DEF KahnState
    <2>9. g.queue = nq /\ g.sorted = ns
      BY <2>4
    <2> HIDE DEF X, queue, sorted, g
    <2>10. /\ Names(queue) = Names(later) \cup {u}
           /\ Once(later) /\ u \notin Names(later)
      BY <1>2, <2>1, <2>5, NamesOf DEF queue
    <2>11. Names(ns) = Names(sorted) \cup {u} /\ u \notin Names(sorted) /\ Once(ns)
      BY <2>1, <2>2, <2>5, <2>10, NamesOf
    <2>12. Names(nq) = Names(later) \cup Names(more)
      <3>1. later \in Seq(X) /\ more \in Seq(X)
        BY <2>2, <2>4
      <3> HIDE DEF later
      <3> QED BY ONLY <3>1, NamesOf
    <2> HIDE DEF later
    <2>e. \A v, w : v \in DependentsOf(E, w) <=> w \in DependenciesOf(E, v)
      BY EdgeEnds
    <2>13. ASSUME NEW j \in DOMAIN sorted
           PROVE  DependenciesOf(E, sorted[j][1]) \subseteq Names(sorted)
      <3>1. j \in 1..Len(sorted) /\ DOMAIN sorted = 1..Len(sorted) /\ Len(sorted) \in Nat
        BY <2>1, <2>13
      <3>2. \A i \in 1..(j - 1) : i \in DOMAIN sorted
        BY <3>1
      <3> QED BY <2>5, <2>13, <3>2 DEF Names
    <2>14. \A w \in Names(sorted) \cup Names(queue) : DependenciesOf(E, w) \subseteq Names(sorted)
      BY <2>5, <2>13 DEF Names
    <2>15. \A w \in Names(more) : w \notin Names(sorted) \cup Names(queue)
      BY <2>4, <2>6, <2>11, <2>14, <2>e
    <2>16. Once(nq) /\ Names(ns) \cap Names(nq) = {}
      <3>1. Names(later) \cap Names(more) = {}
        BY <2>10, <2>15
      <3>2. Once(nq)
        BY <2>2, <2>4, <2>10, <3>1, NamesOf DEF later
      <3> QED BY <2>5, <2>10, <2>11, <2>12, <2>15, <3>2
    <2>17. ASSUME NEW j \in DOMAIN ns, NEW d \in DependenciesOf(E, ns[j][1])
           PROVE  \E i \in 1..(j - 1) : ns[i][1] = d
      <3>1. /\ DOMAIN ns = 1..(n + 1) /\ ns[n + 1] = first /\ \A i \in 1..n : ns[i] = sorted[i]
            /\ DOMAIN sorted = 1..n
        BY <2>1, <2>2, <2>5
      <3> HIDE DEF ns, first
      <3>2. CASE j \in 1..n
        <4>1. PICK i \in 1..(j - 1) : sorted[i][1] = d
          BY <2>5, <2>17, <3>1, <3>2
        <4>2. i \in 1..n
          BY <3>2, <4>1
        <4> QED BY <3>1, <4>1, <4>2
      <3>3. CASE j = n + 1
        <4>1. d \in Names(sorted)
          BY <2>5, <2>10, <2>17, <3>1, <3>3
        <4>2. PICK i \in 1..n : sorted[i][1] = d
          BY <3>1, <4>1 DEF Names
        <4>3. i \in 1..(j - 1)
          BY <3>3, <4>2
        <4> QED BY <3>1, <4>2, <4>3
      <3> QED BY <2>17, <3>1, <3>2, <3>3
    <2>18. Len(ns) = n + 1
      BY <2>1, <2>2, <2>5
    <2> HIDE DEF nq, ns
    <2>19. ASSUME NEW w \in Names(nq) PROVE DependenciesOf(E, w) \subseteq Names(ns)
      BY <2>4, <2>6, <2>10, <2>11, <2>12, <2>14
    <2>20. ASSUME NEW w \in all, DependenciesOf(E, w) \subseteq Names(ns)
           PROVE  w \in Names(ns) \cup Names(nq)
      <3>1. CASE u \in DependenciesOf(E, w)
        BY <2>4, <2>6, <2>11, <2>12, <2>20, <2>e, <3>1
      <3>2. CASE u \notin DependenciesOf(E, w)
        BY <2>5, <2>10, <2>11, <2>12, <2>20, <3>2
      <3> QED BY <3>1, <3>2
    <2> QED BY <2>8, <2>9, <2>11, <2>16, <2>17, <2>18, <2>19, <2>20 DEF KahnInv, g
  <1> QED BY <1>1, <1>2

(* The queue of the loop at its start: the repositories without a           *)
(* dependency.                                                              *)
KahnFirst(E, all) ==
    LET roots == SortUnstable({r \in all : DependenciesOf(E, r) = {}})
    IN  [queue |-> [i \in DOMAIN roots |-> <<roots[i], 0>>], sorted |-> <<>>]

IsKahn(f, E, all, N) ==
    f = [n \in 0..N |-> IF n = 0 THEN KahnFirst(E, all) ELSE KahnRound(E, f[n - 1])]

(* The loop starts with its invariant. *)
LEMMA KahnStart ==
    ASSUME NEW all, all \subseteq Repo, NEW E, E \subseteq all \X all
    PROVE  KahnInv(E, all, KahnFirst(E, all), 0)
  <1> DEFINE S == {r \in all : DependenciesOf(E, r) = {}}
             list == SortUnstable(S)
             queue == [i \in DOMAIN list |-> <<list[i], 0>>]
             k == KahnFirst(E, all)
  <1>1. queue \in Seq(all \X Nat) /\ Once(queue) /\ Names(queue) = S
    <2>1. S \in SUBSET all /\ 0 \in Nat
      OBVIOUS
    <2> HIDE DEF S
    <2> QED BY <2>1, LevelLists
  <1>2. k.queue = queue /\ k.sorted = <<>> /\ k \in KahnState(all)
    BY <1>1 DEF KahnFirst, KahnState
  <1> HIDE DEF queue, k
  <1>3. Names(k.sorted) = {} /\ Once(k.sorted) /\ DOMAIN k.sorted = {} /\ Len(k.sorted) = 0
    BY <1>2 DEF Names, Once
  <1> QED BY <1>1, <1>2, <1>3 DEF KahnInv, k

(* The loop has a state after any number of rounds. *)
LEMMA KahnExists ==
    ASSUME NEW all, all \subseteq Repo, NEW E, E \subseteq all \X all, NEW N \in Nat
    PROVE  \E f : IsKahn(f, E, all, N)
  <1> DEFINE X == KahnState(all)
             G == [p \in Nat \X X |-> KahnRound(E, p[2])]
             base == KahnFirst(E, all)
  <1>1. base \in X /\ G \in [Nat \X X -> X]
    <2>1. ASSUME NEW p \in Nat \X X PROVE KahnRound(E, p[2]) \in X
      BY KahnTyped
    <2>2. G \in [Nat \X X -> X]
      <3> HIDE DEF X
      <3> QED BY <2>1
    <2> QED BY <2>2, KahnStart DEF KahnInv
  <1>2. \A n \in Nat, k \in X : G[<<n, k>>] = KahnRound(E, k)
    <2> HIDE DEF X
    <2> QED OBVIOUS
  <1> HIDE DEF X, G, base
  <1>3. PICK f : IsIteration(f, X, base, G, N)
    BY <1>1, IterationExists
  <1>4. ASSUME NEW n \in 0..N
        PROVE  f[n] = IF n = 0 THEN base ELSE KahnRound(E, f[n - 1])
    <2>1. n # 0 => n \in 1..N /\ n \in Nat /\ n - 1 \in 0..N
      OBVIOUS
    <2> QED BY <1>2, <1>3, <2>1 DEF IsIteration
  <1>5. f = [n \in 0..N |-> f[n]]
    BY <1>3 DEF IsIteration
  <1>6. f = [n \in 0..N |-> IF n = 0 THEN base ELSE KahnRound(E, f[n - 1])]
    BY <1>4, <1>5
  <1> QED BY <1>6 DEF IsKahn, base

(* A list that has every repository once and after its dependencies. *)
Ordered(E, all, steps) ==
    /\ steps \in Seq(all \X Nat) /\ Once(steps) /\ Names(steps) = all
    /\ \A j \in DOMAIN steps : \A d \in DependenciesOf(E, steps[j][1]) :
          \E i \in 1..(j - 1) : steps[i][1] = d

(* Kahn's algorithm orders every graph without a cycle: the error at the    *)
(* end of topological_order and of to_execution_plan is not reached.        *)
LEMMA LevelledIsOrdered ==
    ASSUME NEW all, all \subseteq Repo, NEW E, E \subseteq all \X all, Acyclic(E)
    PROVE  Ordered(E, all, Levelled(E, all))
  <1> DEFINE N == Cardinality(all)
             kahn == CHOOSE f : IsKahn(f, E, all, N)
             k == kahn[N]
  <1>1. N \in Nat /\ IsFiniteSet(all)
    BY MultiRepoAssumption, FS_Subset, FS_CardinalityType
  <1>2. Levelled(E, all) = k.sorted
    BY DEF Levelled, IsKahn, KahnFirst
  <1>3. IsKahn(kahn, E, all, N)
    <2> HIDE DEF N
    <2> QED BY <1>1, KahnExists
  <1> HIDE DEF kahn
  <1>4. kahn[0] = KahnFirst(E, all) /\ \A n \in 1..N : kahn[n] = KahnRound(E, kahn[n - 1])
    <2> DEFINE g == [n \in 0..N |-> IF n = 0 THEN KahnFirst(E, all) ELSE KahnRound(E, kahn[n - 1])]
    <2> HIDE DEF N
    <2>1. \A n \in 0..N : g[n] = IF n = 0 THEN KahnFirst(E, all) ELSE KahnRound(E, kahn[n - 1])
      OBVIOUS
    <2>2. kahn = g
      BY <1>3 DEF IsKahn
    <2> HIDE DEF g
    <2>3. \A n \in 0..N : kahn[n] = IF n = 0 THEN KahnFirst(E, all) ELSE KahnRound(E, kahn[n - 1])
      BY <2>1, <2>2
    <2> QED BY <1>1, <2>3
  <1> HIDE DEF N
  <1> DEFINE T == {n \in 0..N : ~ KahnInv(E, all, kahn[n], n)}
  <1>5. T = {}
    <2> SUFFICES ASSUME T # {} PROVE FALSE
      OBVIOUS
    <2>1. PICK m \in T : \A n \in T : m <= n
      <3>1. T \subseteq Nat
        OBVIOUS
      <3> HIDE DEF T
      <3> QED BY <3>1, LeastIndex
    <2>2. m \in 0..N /\ ~ KahnInv(E, all, kahn[m], m)
      BY <2>1
    <2>3. m # 0
      BY <1>4, <2>2, KahnStart
    <2>4. m \in 1..N /\ m - 1 \in Nat /\ KahnInv(E, all, kahn[m - 1], m - 1) /\ (m - 1) + 1 = m
      <3>1. m - 1 \in 0..N /\ m - 1 \notin T
        BY <1>1, <2>1, <2>2, <2>3
      <3> QED BY <1>1, <2>2, <2>3, <3>1
    <2>5. KahnInv(E, all, KahnRound(E, kahn[m - 1]), (m - 1) + 1)
      BY <2>4, KahnStep
    <2> QED BY <1>4, <2>2, <2>4, <2>5
  <1>6. KahnInv(E, all, k, N)
    BY <1>1, <1>5
  <1> HIDE DEF k
  <1> DEFINE D == Names(k.sorted)
  <1>7. k.sorted \in Seq(all \X Nat) /\ k.queue \in Seq(all \X Nat) /\ Once(k.sorted)
    BY <1>6 DEF KahnInv, KahnState
  <1>8. D \subseteq all /\ Names(k.queue) \subseteq all
    <2>1. ASSUME NEW s \in Seq(all \X Nat), NEW i \in DOMAIN s PROVE s[i][1] \in all
      <3>1. s[i] \in all \X Nat
        BY <2>1
      <3> QED BY <3>1
    <2> QED BY <1>7, <2>1 DEF Names
  <1>9. k.queue = <<>>
    <2> SUFFICES ASSUME k.queue # <<>> PROVE FALSE
      OBVIOUS
    <2>1. Len(k.sorted) = N
      BY <1>6 DEF KahnInv
    <2>2. DOMAIN k.sorted = 1..N
      BY <1>7, <2>1
    <2> DEFINE name == [i \in 1..N |-> k.sorted[i][1]]
    <2>3. name \in [1..N -> all] /\ \A i, j \in 1..N : name[i] = name[j] => i = j
      BY <1>7, <1>8, <2>2 DEF Once, Names
    <2>4. \A i \in 1..N : name[i] \in D
      BY <2>2 DEF Names
    <2> HIDE DEF name
    <2>5. name \in Injection(1..N, all)
      BY <2>3, Fun_IsInj
    <2>6. Cardinality(1..N) = N
      BY <1>1, FS_Interval
    <2>7. name \in Surjection(1..N, all)
      BY <1>1, <2>5, <2>6, FS_Injection DEF N
    <2>8. all \subseteq D
      <3>1. \A w \in all : \E i \in 1..N : name[i] = w
        BY <2>7 DEF Surjection
      <3> HIDE DEF D
      <3> QED BY <2>4, <3>1
    <2>9. k.queue[1][1] \in Names(k.queue)
      <3>1. 1 \in DOMAIN k.queue
        BY <1>7
      <3> QED BY <3>1 DEF Names
    <2> QED BY <1>6, <1>8, <2>8, <2>9 DEF KahnInv
  <1>10. Names(k.queue) = {}
    BY <1>9 DEF Names
  <1>11. D = all
    <2> SUFFICES ASSUME all \ D # {} PROVE FALSE
      BY <1>8
    <2>1. PICK w \in all \ D : \A v \in all \ D : <<v, w>> \notin E
      <3>1. all \ D \in (SUBSET Repo) \ {{}}
        OBVIOUS
      <3> HIDE DEF D
      <3> QED BY <3>1 DEF Acyclic
    <2>2. DependenciesOf(E, w) \subseteq D
      <3> SUFFICES ASSUME NEW v \in DependenciesOf(E, w) PROVE v \in D
        OBVIOUS
      <3>1. <<v, w>> \in E /\ v \in all
        BY EdgeEnds
      <3> QED BY <2>1, <3>1
    <2> QED BY <1>6, <1>10, <2>1, <2>2 DEF KahnInv
  <1> QED BY <1>2, <1>6, <1>7, <1>11 DEF Ordered, KahnInv
-----------------------------------------------------------------------------
(* The execution plan and its parallel groups. *)
RepoGroup == [repos : SUBSET Repo, parallel : BOOLEAN]
RepoStep == [repo : Repo, parallel : BOOLEAN]

Seen(steps, n) == {steps[i].repo : i \in 1..n}

(* A plan runs every repository once and after its dependencies. *)
IsPlan(E, all, steps) ==
    /\ steps \in Seq(RepoStep)
    /\ Seen(steps, Len(steps)) = all
    /\ \A n \in 1..Len(steps) : /\ steps[n].repo \notin Seen(steps, n - 1)
                                /\ DependenciesOf(E, steps[n].repo) \subseteq Seen(steps, n - 1)

(* to_execution_plan makes such a plan of an ordered list. *)
LEMMA PlanIsOrdered ==
    ASSUME NEW all, all \subseteq Repo, NEW E, E \subseteq all \X all, Acyclic(E)
    PROVE  IsPlan(E, all, ExecutionPlan(E, all))
  <1> DEFINE levels == Levelled(E, all)
             parallel(i) == \E j \in DOMAIN levels : j # i /\ levels[j][2] = levels[i][2]
             steps == [i \in DOMAIN levels |-> [repo |-> levels[i][1], parallel |-> parallel(i)]]
             N == Len(levels)
  <1>1. Ordered(E, all, levels)
    BY LevelledIsOrdered
  <1>2. ExecutionPlan(E, all) = steps
    BY DEF ExecutionPlan
  <1> HIDE DEF levels
  <1>3. levels \in Seq(all \X Nat) /\ N \in Nat /\ DOMAIN levels = 1..N
    BY <1>1 DEF Ordered
  <1>4. \A i \in 1..N : levels[i][1] \in Repo
    <2>1. \A i \in 1..N : levels[i] \in all \X Nat
      BY <1>3
    <2> QED BY <2>1
  <1>5. \A i \in 1..N : parallel(i) \in BOOLEAN
    OBVIOUS
  <1> HIDE DEF parallel, N
  <1>6. \A i \in 1..N : steps[i] \in RepoStep /\ steps[i].repo = levels[i][1]
    BY <1>3, <1>4, <1>5 DEF RepoStep
  <1>7. DOMAIN steps = 1..N /\ steps = [i \in 1..N |-> steps[i]]
    BY <1>3
  <1> HIDE DEF steps
  <1>8. steps \in Seq(RepoStep) /\ Len(steps) = N
    <2>1. steps \in [1..N -> RepoStep]
      BY <1>6, <1>7
    <2> QED BY <1>3, <1>7, <2>1
  <1>9. ASSUME NEW n \in 0..N
        PROVE  Seen(steps, n) = {levels[i][1] : i \in 1..n} /\ \A i \in 1..n : i \in 1..N
    <2>1. \A i \in 1..n : i \in 1..N
      BY <1>3
    <2> QED BY <1>6, <2>1 DEF Seen
  <1>10. Seen(steps, N) = all
    <2>1. N \in 0..N
      BY <1>3
    <2> QED BY <1>1, <1>3, <1>9, <2>1 DEF Ordered, Names
  <1>11. ASSUME NEW n \in 1..N, NEW d \in DependenciesOf(E, steps[n].repo)
         PROVE  d \in Seen(steps, n - 1)
    <2>1. n - 1 \in 0..N
      BY <1>3
    <2>2. PICK i \in 1..(n - 1) : levels[i][1] = d
      BY <1>1, <1>3, <1>6, <1>11 DEF Ordered
    <2> QED BY <1>9, <2>1, <2>2
  <1>12. ASSUME NEW n \in 1..N, steps[n].repo \in Seen(steps, n - 1) PROVE FALSE
    <2>1. n - 1 \in 0..N
      BY <1>3
    <2>2. PICK i \in 1..(n - 1) : levels[i][1] = levels[n][1]
      BY <1>6, <1>9, <1>12, <2>1
    <2>3. i \in DOMAIN levels /\ n \in DOMAIN levels /\ i # n
      BY <1>3, <2>2
    <2> QED BY <1>1, <2>2, <2>3 DEF Ordered, Once
  <1> QED BY <1>2, <1>8, <1>10, <1>11, <1>12 DEF IsPlan

(* After n steps the groups partition the repositories of these, and every  *)
(* dependency is in an earlier group.                                       *)
GroupsInv(E, steps, groups, n) ==
    /\ groups \in Seq(RepoGroup)
    /\ \A u : u \in Seen(steps, n) <=> \E i \in DOMAIN groups : u \in groups[i].repos
    /\ \A i, j \in DOMAIN groups : \A u \in groups[i].repos \cap groups[j].repos : i = j
    /\ \A i, j \in DOMAIN groups : \A u \in groups[i].repos, w \in groups[j].repos :
          <<u, w>> \in E => i < j

(* Where a step goes: into the last group when that holds none of its       *)
(* dependencies, or into a new one.                                         *)
JoinsAt(E, step, groups, more, p) ==
    /\ more \in Seq(RepoGroup) /\ p \in DOMAIN more /\ Len(more) = p
    /\ p = Len(groups) \/ p = Len(groups) + 1
    /\ \A i \in DOMAIN groups : i # p => i \in DOMAIN more /\ more[i] = groups[i]
    /\ p \in DOMAIN groups => /\ more[p].repos = groups[p].repos \cup {step.repo}
                              /\ DependenciesOf(E, step.repo) \cap groups[p].repos = {}
    /\ p \notin DOMAIN groups => more[p].repos = {step.repo}

(* parallel_groups puts each step in such a place. *)
LEMMA GroupedAt ==
    ASSUME NEW E, NEW step \in RepoStep, NEW groups \in Seq(RepoGroup)
    PROVE  \E p : JoinsAt(E, step, groups, Grouped(E, step, groups), p)
  <1> DEFINE m == Len(groups)
             more == Grouped(E, step, groups)
  <1>1. m \in Nat /\ DOMAIN groups = 1..m /\ step.repo \in Repo /\ step.parallel \in BOOLEAN
    BY DEF RepoStep
  <1>2. CASE groups # <<>> /\ JoinsGroup(E, step, groups[m])
    <2>1. more = [groups EXCEPT ![m].repos = @ \cup {step.repo}]
      BY <1>2 DEF Grouped
    <2>2. m \in 1..m
      BY <1>1, <1>2, EmptySeq
    <2> DEFINE last == [groups[m] EXCEPT !.repos = @ \cup {step.repo}]
    <2>3. groups[m] \in RepoGroup
      BY <1>1, <2>2
    <2>4. last \in RepoGroup /\ last.repos = groups[m].repos \cup {step.repo}
      BY <1>1, <2>3 DEF RepoGroup
    <2>5. more = [groups EXCEPT ![m] = last]
      BY <2>1
    <2> HIDE DEF last, more
    <2>6. /\ more \in Seq(RepoGroup) /\ Len(more) = m /\ DOMAIN more = 1..m /\ more[m] = last
          /\ \A i \in 1..m : i # m => more[i] = groups[i]
      <3>1. groups \in [1..m -> RepoGroup]
        BY <1>1
      <3>2. more \in [1..m -> RepoGroup] /\ more[m] = last /\ \A i \in 1..m : i # m => more[i] = groups[i]
        <4> HIDE DEF m
        <4> QED BY <2>2, <2>4, <2>5, <3>1
      <3> HIDE DEF m
      <3> QED BY <1>1, <3>2
    <2>7. DependenciesOf(E, step.repo) \cap groups[m].repos = {}
      BY <1>2 DEF JoinsGroup
    <2>8. JoinsAt(E, step, groups, more, m)
      <3> HIDE DEF m
      <3> QED BY <1>1, <2>2, <2>4, <2>6, <2>7 DEF JoinsAt, m
    <2> QED BY <2>8 DEF more
  <1>3. CASE ~ (groups # <<>> /\ JoinsGroup(E, step, groups[m]))
    <2> DEFINE last == [repos |-> {step.repo}, parallel |-> step.parallel]
    <2>1. more = Append(groups, last)
      BY <1>3 DEF Grouped
    <2>2. last \in RepoGroup /\ last.repos = {step.repo}
      BY <1>1 DEF RepoGroup
    <2> HIDE DEF last, more
    <2>3. /\ more \in Seq(RepoGroup) /\ Len(more) = m + 1 /\ DOMAIN more = 1..(m + 1)
          /\ more[m + 1] = last /\ \A i \in 1..m : more[i] = groups[i]
      BY <2>1, <2>2
    <2>4. m + 1 \in 1..(m + 1) /\ m + 1 \notin 1..m /\ \A i \in 1..m : i \in 1..(m + 1)
      BY <1>1
    <2>5. JoinsAt(E, step, groups, more, m + 1)
      <3> HIDE DEF m
      <3> QED BY <1>1, <2>2, <2>3, <2>4 DEF JoinsAt, m
    <2> QED BY <2>5 DEF more
  <1> QED BY <1>2, <1>3

(* A step keeps the groups apart and in order. *)
LEMMA GroupsStep ==
    ASSUME NEW all, all \subseteq Repo, NEW E, E \subseteq all \X all, NEW steps,
           IsPlan(E, all, steps), NEW n \in 1..Len(steps), NEW groups,
           GroupsInv(E, steps, groups, n - 1)
    PROVE  GroupsInv(E, steps, Grouped(E, steps[n], groups), n)
  <1> DEFINE more == Grouped(E, steps[n], groups)
             r == steps[n].repo
             Old == Seen(steps, n - 1)
  <1>1. groups \in Seq(RepoGroup) /\ steps[n] \in RepoStep
    BY DEF GroupsInv, IsPlan
  <1>2. PICK p : JoinsAt(E, steps[n], groups, more, p)
    BY <1>1, GroupedAt
  <1>3. n \in Nat /\ Len(steps) \in Nat /\ n - 1 \in 0..Len(steps) /\ n \in 0..Len(steps)
    BY DEF IsPlan
  <1>4. Seen(steps, n) = Old \cup {r}
    <2>1. 1..n = 1..(n - 1) \cup {n}
      BY <1>3
    <2> QED BY <2>1 DEF Seen
  <1>5. r \notin Old /\ DependenciesOf(E, r) \subseteq Old
    BY <1>3 DEF IsPlan
  <1>6. \A u \in Old : DependenciesOf(E, u) \subseteq Old
    <2> SUFFICES ASSUME NEW u \in Old PROVE DependenciesOf(E, u) \subseteq Old
      OBVIOUS
    <2>1. PICK j \in 1..(n - 1) : u = steps[j].repo
      BY DEF Seen
    <2>2. j \in 1..Len(steps) /\ 1..(j - 1) \subseteq 1..(n - 1)
      BY <1>3, <2>1
    <2>3. DependenciesOf(E, u) \subseteq Seen(steps, j - 1)
      BY <2>1, <2>2 DEF IsPlan
    <2> QED BY <2>2, <2>3 DEF Seen
  <1>7. /\ \A u : u \in Old <=> \E i \in DOMAIN groups : u \in groups[i].repos
        /\ \A i, j \in DOMAIN groups : \A u \in groups[i].repos \cap groups[j].repos : i = j
        /\ \A i, j \in DOMAIN groups : \A u \in groups[i].repos, w \in groups[j].repos :
              <<u, w>> \in E => i < j
    BY DEF GroupsInv
  <1>8. \A u, w : u \in DependenciesOf(E, w) <=> <<u, w>> \in E
    BY EdgeEnds
  <1>9. /\ more \in Seq(RepoGroup) /\ p \in DOMAIN more /\ DOMAIN groups \subseteq DOMAIN more
        /\ \A i \in DOMAIN more : i \in Int /\ i <= p /\ (i # p => i \in DOMAIN groups)
    <2>1. Len(groups) \in Nat /\ DOMAIN groups = 1..Len(groups)
      BY <1>1
    <2>2. more \in Seq(RepoGroup) /\ p \in DOMAIN more /\ Len(more) = p
          /\ (p = Len(groups) \/ p = Len(groups) + 1)
      BY <1>2 DEF JoinsAt
    <2> HIDE DEF more
    <2>3. DOMAIN more = 1..p /\ p \in Nat
      BY <2>2
    <2> QED BY <2>1, <2>2, <2>3
  <1>10. \A i \in DOMAIN more : \A u :
            u \in more[i].repos <=> (i \in DOMAIN groups /\ u \in groups[i].repos) \/ (i = p /\ u = r)
    <2> HIDE DEF more
    <2> QED BY <1>2, <1>9 DEF JoinsAt
  <1>11. p \in DOMAIN groups => DependenciesOf(E, r) \cap groups[p].repos = {}
    BY <1>2 DEF JoinsAt
  <1> HIDE DEF more, r, Old
  <1>12. \A u : u \in Seen(steps, n) <=> \E i \in DOMAIN more : u \in more[i].repos
    BY <1>4, <1>7, <1>9, <1>10
  <1>13. \A i, j \in DOMAIN more : \A u \in more[i].repos \cap more[j].repos : i = j
    BY <1>5, <1>7, <1>10
  <1>14. ASSUME NEW i \in DOMAIN more, NEW j \in DOMAIN more,
                NEW u \in more[i].repos, NEW w \in more[j].repos, <<u, w>> \in E
         PROVE  i < j
    <2>1. u \in Old /\ i \in DOMAIN groups /\ u \in groups[i].repos
      <3>1. w \in Old \cup {r}
        BY <1>7, <1>10
      <3>2. u \in Old
        BY <1>5, <1>6, <1>8, <1>14, <3>1
      <3> QED BY <1>5, <1>10, <3>2
    <2>2. CASE w = r
      <3>1. j = p
        BY <1>5, <1>7, <1>10, <2>2
      <3>2. i # p
        BY <1>8, <1>11, <1>14, <2>1, <2>2
      <3> QED BY <1>9, <3>1, <3>2
    <2>3. CASE w # r
      BY <1>7, <1>10, <1>14, <2>1, <2>3
    <2> QED BY <2>2, <2>3
  <1> QED BY <1>9, <1>12, <1>13, <1>14 DEF GroupsInv, more

IsGrouping(f, E, steps, N) ==
    f = [n \in 0..N |-> IF n = 0 THEN <<>> ELSE Grouped(E, steps[n], f[n - 1])]

(* The loop of parallel_groups has a result after every step. *)
LEMMA GroupingExists ==
    ASSUME NEW E, NEW steps \in Seq(RepoStep)
    PROVE  \E f : IsGrouping(f, E, steps, Len(steps))
  <1> DEFINE N == Len(steps)
             X == Seq(RepoGroup)
             G == [q \in Nat \X X |-> IF q[1] \in 1..N THEN Grouped(E, steps[q[1]], q[2]) ELSE q[2]]
  <1>1. N \in Nat /\ <<>> \in X
    OBVIOUS
  <1>2. ASSUME NEW n \in 1..N, NEW g \in X PROVE Grouped(E, steps[n], g) \in X
    <2>1. steps[n] \in RepoStep
      OBVIOUS
    <2> QED BY <2>1, GroupedAt DEF JoinsAt
  <1> HIDE DEF N, X
  <1>3. G \in [Nat \X X -> X]
    BY <1>2
  <1>4. \A n \in 1..N, g \in X : G[<<n, g>>] = Grouped(E, steps[n], g)
    BY <1>1
  <1> HIDE DEF G
  <1>5. PICK f : IsIteration(f, X, <<>>, G, N)
    BY <1>1, <1>3, IterationExists
  <1>6. ASSUME NEW n \in 0..N
        PROVE  f[n] = IF n = 0 THEN <<>> ELSE Grouped(E, steps[n], f[n - 1])
    <2>1. n # 0 => n \in 1..N /\ n - 1 \in 0..N
      BY <1>1
    <2> QED BY <1>4, <1>5, <2>1 DEF IsIteration
  <1>7. f = [n \in 0..N |-> f[n]]
    BY <1>5 DEF IsIteration
  <1>8. f = [n \in 0..N |-> IF n = 0 THEN <<>> ELSE Grouped(E, steps[n], f[n - 1])]
    BY <1>6, <1>7
  <1> QED BY <1>8 DEF IsGrouping, N

(* Each repository is in one group, and its dependencies in earlier ones.   *)
LEMMA GroupsAreOrdered ==
    ASSUME nodes \subseteq Repo, deps \subseteq nodes \X nodes, Acyclic(deps)
    PROVE  GroupsRespectDependencies
  <1> DEFINE steps == ExecutionPlan(deps, nodes)
             N == Len(steps)
             groups == CHOOSE f : IsGrouping(f, deps, steps, N)
             last == groups[N]
  <1>1. IsPlan(deps, nodes, steps)
    BY PlanIsOrdered
  <1>2. steps \in Seq(RepoStep) /\ N \in Nat /\ Seen(steps, N) = nodes
    BY <1>1 DEF IsPlan
  <1>3. ParallelGroups(deps, nodes) = last
    BY DEF ParallelGroups, IsGrouping
  <1> HIDE DEF steps
  <1>4. IsGrouping(groups, deps, steps, N)
    BY <1>2, GroupingExists
  <1> HIDE DEF groups, N
  <1>5. groups[0] = <<>> /\ \A n \in 1..N : groups[n] = Grouped(deps, steps[n], groups[n - 1])
    <2> DEFINE g == [n \in 0..N |-> IF n = 0 THEN <<>> ELSE Grouped(deps, steps[n], groups[n - 1])]
    <2>1. \A n \in 0..N : g[n] = IF n = 0 THEN <<>> ELSE Grouped(deps, steps[n], groups[n - 1])
      OBVIOUS
    <2>2. groups = g
      BY <1>4 DEF IsGrouping
    <2> HIDE DEF g
    <2>3. \A n \in 0..N : groups[n] = IF n = 0 THEN <<>> ELSE Grouped(deps, steps[n], groups[n - 1])
      BY <2>1, <2>2
    <2> QED BY <1>2, <2>3
  <1> DEFINE T == {n \in 0..N : ~ GroupsInv(deps, steps, groups[n], n)}
  <1>6. T = {}
    <2> SUFFICES ASSUME T # {} PROVE FALSE
      OBVIOUS
    <2>1. PICK m \in T : \A n \in T : m <= n
      <3>1. T \subseteq Nat
        OBVIOUS
      <3> HIDE DEF T
      <3> QED BY <3>1, LeastIndex
    <2>2. m \in 0..N /\ ~ GroupsInv(deps, steps, groups[m], m)
      BY <2>1
    <2>3. m # 0
      <3>1. Seen(steps, 0) = {}
        BY DEF Seen
      <3>2. GroupsInv(deps, steps, <<>>, 0)
        BY <3>1 DEF GroupsInv
      <3> QED BY <1>5, <2>2, <3>2
    <2>4. m \in 1..Len(steps) /\ GroupsInv(deps, steps, groups[m - 1], m - 1)
      <3>1. m - 1 \in 0..N /\ m - 1 \notin T
        BY <1>2, <2>1, <2>2, <2>3
      <3> QED BY <1>2, <2>2, <2>3, <3>1 DEF N
    <2>5. GroupsInv(deps, steps, Grouped(deps, steps[m], groups[m - 1]), m)
      BY <1>1, <2>4, GroupsStep
    <2> QED BY <1>5, <2>2, <2>4, <2>5 DEF N
  <1>7. GroupsInv(deps, steps, last, N)
    BY <1>2, <1>6
  <1> HIDE DEF last
  <1> DEFINE at(u) == {i \in DOMAIN last : u \in last[i].repos}
  <1>8. ASSUME NEW u \in nodes PROVE Cardinality(at(u)) = 1
    <2>1. PICK i \in DOMAIN last : u \in last[i].repos
      BY <1>2, <1>7 DEF GroupsInv
    <2>2. at(u) = {i}
      BY <1>7, <2>1 DEF GroupsInv
    <2> QED BY <2>2, FS_Singleton
  <1>9. ASSUME NEW e \in deps, NEW i \in at(e[1]), NEW j \in at(e[2]) PROVE i < j
    <2>1. e = <<e[1], e[2]>>
      OBVIOUS
    <2> QED BY <1>7, <2>1 DEF GroupsInv
  <1> QED BY <1>3, <1>8, <1>9 DEF GroupsRespectDependencies
-----------------------------------------------------------------------------
(* What waits in the sequence: each repository once, after those that it    *)
(* depends on, with everything that depends on it.                          *)
Waiting(E, todo) ==
    /\ \A i, j \in DOMAIN todo : todo[i] = todo[j] => i = j
    /\ \A i, j \in DOMAIN todo : <<todo[i], todo[j]>> \in E => i < j
    /\ ClosedUnder(E, ToSet(todo))

(* The first of a list and the others. *)
LEMMA TailMembers ==
    ASSUME NEW X, NEW todo \in Seq(X), todo # <<>>
    PROVE  /\ Tail(todo) \in Seq(X) /\ todo[1] \in X /\ 1 \in DOMAIN todo
           /\ ToSet(todo) = ToSet(Tail(todo)) \cup {todo[1]}
           /\ \A i \in DOMAIN Tail(todo) : i \in Int /\ i + 1 \in DOMAIN todo /\ Tail(todo)[i] = todo[i + 1]
  <1> DEFINE g == Tail(todo)
             n == Len(todo)
  <1>1. n \in Nat \ {0} /\ DOMAIN todo = 1..n
    BY EmptySeq
  <1>2. g \in Seq(X) /\ DOMAIN g = 1..(n - 1) /\ \A i \in 1..(n - 1) : g[i] = todo[i + 1]
    BY HeadTailProperties
  <1>3. todo[1] \in X
    BY <1>1
  <1> HIDE DEF g, n
  <1>4. \A i \in 1..(n - 1) : i \in Int /\ i + 1 \in 1..n
    BY <1>1
  <1>5. ASSUME NEW z \in ToSet(todo), z # todo[1] PROVE z \in ToSet(g)
    <2>1. PICK i \in 1..n : z = todo[i]
      BY <1>1 DEF ToSet
    <2>2. i - 1 \in 1..(n - 1) /\ (i - 1) + 1 = i
      BY <1>1, <1>5, <2>1
    <2>3. i - 1 \in DOMAIN g /\ g[i - 1] = z
      BY <1>2, <2>1, <2>2
    <2> QED BY <2>3 DEF ToSet
  <1>6. ASSUME NEW z \in ToSet(g) PROVE z \in ToSet(todo)
    <2>1. PICK i \in 1..(n - 1) : z = g[i]
      BY <1>2 DEF ToSet
    <2>2. i + 1 \in DOMAIN todo /\ z = todo[i + 1]
      BY <1>1, <1>2, <1>4, <2>1
    <2> QED BY <2>2 DEF ToSet
  <1>7. 1 \in DOMAIN todo /\ todo[1] \in ToSet(todo)
    BY <1>1 DEF ToSet
  <1> QED BY <1>1, <1>2, <1>3, <1>4, <1>5, <1>6, <1>7 DEF g

(* When the first is taken the others still wait. *)
LEMMA WaitingTail ==
    ASSUME NEW E, E \subseteq Repo \X Repo, NEW todo \in Seq(Repo), todo # <<>>, Waiting(E, todo)
    PROVE  Waiting(E, Tail(todo)) /\ todo[1] \notin ToSet(Tail(todo))
  <1> DEFINE g == Tail(todo)
             first == todo[1]
  <1>1. /\ g \in Seq(Repo) /\ 1 \in DOMAIN todo /\ ToSet(todo) = ToSet(g) \cup {first}
        /\ \A i \in DOMAIN g : i \in Int /\ i + 1 \in DOMAIN todo /\ g[i] = todo[i + 1]
    BY TailMembers
  <1>2. /\ \A i, j \in DOMAIN todo : todo[i] = todo[j] => i = j
        /\ \A i, j \in DOMAIN todo : <<todo[i], todo[j]>> \in E => i < j
        /\ ClosedUnder(E, ToSet(todo))
    BY DEF Waiting
  <1> HIDE DEF g
  <1>a. \A i \in DOMAIN g : i >= 1 /\ i + 1 > 1
    BY <1>1
  <1>3. ASSUME NEW i \in DOMAIN g, NEW j \in DOMAIN g, g[i] = g[j] PROVE i = j
    <2>1. i + 1 = j + 1
      BY <1>1, <1>2, <1>3
    <2> QED BY <1>1, <2>1
  <1>4. ASSUME NEW i \in DOMAIN g, NEW j \in DOMAIN g, <<g[i], g[j]>> \in E PROVE i < j
    <2>1. i + 1 < j + 1
      BY <1>1, <1>2, <1>4
    <2> QED BY <1>1, <2>1
  <1>5. first \notin ToSet(g)
    <2> SUFFICES ASSUME first \in ToSet(g) PROVE FALSE
      OBVIOUS
    <2>1. PICK i \in DOMAIN g : g[i] = first
      BY DEF ToSet
    <2>2. i + 1 = 1
      BY <1>1, <1>2, <2>1
    <2> QED BY <1>a, <1>1, <2>2
  <1>6. ASSUME NEW e \in E, e[1] \in ToSet(g) PROVE e[2] \in ToSet(g)
    <2>1. e = <<e[1], e[2]>>
      OBVIOUS
    <2>2. e[2] \in ToSet(todo)
      BY <1>1, <1>2, <1>6 DEF ClosedUnder
    <2>3. PICK i \in DOMAIN g : g[i] = e[1]
      BY <1>6 DEF ToSet
    <2>4. e[2] # first
      <3> SUFFICES ASSUME e[2] = first PROVE FALSE
        OBVIOUS
      <3>1. i + 1 < 1
        BY <1>1, <1>2, <2>1, <2>3
      <3> QED BY <1>a, <3>1
    <2> QED BY <1>1, <2>2, <2>4
  <1> QED BY <1>3, <1>4, <1>5, <1>6 DEF Waiting, ClosedUnder, g

(* The topological order is such a list of all repositories. *)
LEMMA OrderWaits ==
    ASSUME NEW all, all \subseteq Repo, NEW E, E \subseteq all \X all, Acyclic(E)
    PROVE  LET todo == TopologicalOrder(E, all)
           IN  todo \in Seq(Repo) /\ Waiting(E, todo) /\ ToSet(todo) = all
  <1> DEFINE steps == Levelled(E, all)
             todo == [i \in DOMAIN steps |-> steps[i][1]]
             n == Len(steps)
  <1>1. Ordered(E, all, steps)
    BY LevelledIsOrdered
  <1>2. TopologicalOrder(E, all) = todo
    BY DEF TopologicalOrder
  <1> HIDE DEF steps
  <1>3. n \in Nat /\ DOMAIN steps = 1..n /\ steps \in Seq(all \X Nat)
    BY <1>1 DEF Ordered
  <1>4. DOMAIN todo = 1..n /\ \A i \in 1..n : todo[i] = steps[i][1] /\ todo[i] \in all
    <2>1. \A i \in 1..n : steps[i] \in all \X Nat
      BY <1>3
    <2> QED BY <1>3, <2>1
  <1>a. todo = [i \in 1..n |-> todo[i]]
    BY <1>3
  <1> HIDE DEF todo, n
  <1>5. todo \in Seq(Repo)
    <2>1. todo \in [1..n -> Repo]
      BY <1>4, <1>a
    <2> QED BY <1>3, <2>1
  <1>6. ToSet(todo) = all
    BY <1>1, <1>3, <1>4 DEF ToSet, Ordered, Names
  <1>7. \A i, j \in 1..n : todo[i] = todo[j] => i = j
    BY <1>1, <1>3, <1>4 DEF Ordered, Once
  <1>8. ASSUME NEW i \in 1..n, NEW j \in 1..n, <<todo[i], todo[j]>> \in E PROVE i < j
    <2>1. todo[i] \in DependenciesOf(E, steps[j][1])
      BY <1>4, <1>8, EdgeEnds
    <2>2. PICK k \in 1..(j - 1) : steps[k][1] = todo[i]
      BY <1>1, <1>3, <2>1 DEF Ordered
    <2>3. k \in 1..n /\ k < j
      BY <1>3, <2>2
    <2> QED BY <1>4, <1>7, <2>2, <2>3
  <1>9. ClosedUnder(E, all)
    BY DEF ClosedUnder
  <1> QED BY <1>2, <1>4, <1>5, <1>6, <1>7, <1>8, <1>9 DEF Waiting

(* Every orchestrator has a list of its own items to work on. *)
LEMMA PlanTyped ==
    ASSUME NEW o \in Orchestrator, nodes \subseteq Repo, deps \subseteq nodes \X nodes, Acyclic(deps)
    PROVE  Plan(o) \in Seq(ItemOf(o))
  <1>1. CASE o = "sequence"
    <2>1. Plan(o) = TopologicalOrder(deps, nodes) /\ ItemOf(o) = Repo
      BY <1>1 DEF Plan, ItemOf
    <2> QED BY <2>1, OrderWaits
  <1>2. CASE o = "backport"
    <2> DEFINE X == Seq(ToSet(BackportCommits) \X ToSet(TargetBranches))
               N == Len(BackportCommits)
               row(n) == [i \in DOMAIN TargetBranches |-> <<BackportCommits[n], TargetBranches[i]>>]
               Listed(n, s) == IF BackportCommits[n] \notin CommitFilter THEN s ELSE s \o row(n)
               G == [p \in Nat \X X |-> IF p[1] \in 1..N THEN Listed(p[1], p[2]) ELSE p[2]]
               Is(f) == f = [n \in 0..N |-> IF n = 0 THEN <<>>
                                ELSE IF BackportCommits[n] \notin CommitFilter THEN f[n - 1]
                                ELSE f[n - 1] \o row(n)]
               tasks == CHOOSE f : Is(f)
    <2>1. N \in Nat /\ DOMAIN BackportCommits = 1..N
          /\ Len(TargetBranches) \in Nat /\ DOMAIN TargetBranches = 1..Len(TargetBranches)
      BY MultiRepoAssumption
    <2>2. \A n \in 1..N : row(n) \in X
      <3> SUFFICES ASSUME NEW n \in 1..N PROVE row(n) \in X
        OBVIOUS
      <3>1. \A i \in DOMAIN TargetBranches :
               <<BackportCommits[n], TargetBranches[i]>> \in ToSet(BackportCommits) \X ToSet(TargetBranches)
        BY <2>1 DEF ToSet
      <3>2. row(n) \in [1..Len(TargetBranches) -> ToSet(BackportCommits) \X ToSet(TargetBranches)]
        BY <2>1, <3>1
      <3> HIDE DEF row
      <3> QED BY <2>1, <3>2
    <2>3. \A n \in 1..N, s \in X : Listed(n, s) \in X
      <3> HIDE DEF row
      <3> QED BY <2>2
    <2>4. <<>> \in X
      OBVIOUS
    <2> HIDE DEF X, N, row
    <2>5. G \in [Nat \X X -> X] /\ \A n \in 1..N, s \in X : G[<<n, s>>] = Listed(n, s)
      <3> HIDE DEF Listed
      <3> QED BY <2>1, <2>3
    <2> HIDE DEF G
    <2>6. PICK f : IsIteration(f, X, <<>>, G, N)
      BY <2>1, <2>4, <2>5, IterationExists
    <2>7. ASSUME NEW n \in 0..N PROVE f[n] = IF n = 0 THEN <<>> ELSE Listed(n, f[n - 1])
      <3>1. n # 0 => n \in 1..N /\ n - 1 \in 0..N
        BY <2>1
      <3> HIDE DEF Listed
      <3> QED BY <2>5, <2>6, <3>1 DEF IsIteration
    <2>8. f = [n \in 0..N |-> f[n]]
      BY <2>6 DEF IsIteration
    <2>9. Is(f)
      BY <2>7, <2>8
    <2>10. Is(tasks)
      <3> HIDE DEF Is
      <3> QED BY <2>9
    <2> HIDE DEF tasks
    <2>11. \A n \in 0..N : tasks[n] = IF n = 0 THEN <<>> ELSE Listed(n, tasks[n - 1])
      <3> DEFINE g == [n \in 0..N |-> IF n = 0 THEN <<>> ELSE Listed(n, tasks[n - 1])]
      <3>1. \A n \in 0..N : g[n] = IF n = 0 THEN <<>> ELSE Listed(n, tasks[n - 1])
        <4> HIDE DEF Listed
        <4> QED OBVIOUS
      <3>2. tasks = g
        BY <2>10
      <3> HIDE DEF g, Is
      <3> QED BY <3>1, <3>2
    <2> HIDE DEF Is, Listed
    <2> DEFINE T == {n \in 0..N : tasks[n] \notin X}
    <2>12. T = {}
      <3> SUFFICES ASSUME T # {} PROVE FALSE
        OBVIOUS
      <3>1. PICK m \in T : \A n \in T : m <= n
        <4>1. T \subseteq Nat
          OBVIOUS
        <4> HIDE DEF T
        <4> QED BY <4>1, LeastIndex
      <3>2. m \in 0..N /\ tasks[m] \notin X /\ m # 0
        BY <2>4, <2>11, <3>1
      <3>3. m - 1 \in 0..N /\ m - 1 \notin T
        BY <2>1, <3>1, <3>2
      <3>4. tasks[m - 1] \in X /\ m \in 1..N
        BY <2>1, <3>2, <3>3
      <3> QED BY <2>3, <2>11, <3>2, <3>4
    <2>13. tasks[N] \in X
      BY <2>1, <2>12
    <2>14. Plan(o) = tasks[N]
      BY <1>2 DEF Plan, ResolveTasks, tasks, Is, row, N
    <2>15. ItemOf(o) = ToSet(BackportCommits) \X ToSet(TargetBranches)
      BY <1>2 DEF ItemOf
    <2> QED BY <2>13, <2>14, <2>15 DEF X
  <1>3. CASE o = "deploy"
    <2>1. Plan(o) = DeployEvents /\ ItemOf(o) = ToSet(DeployEvents)
      BY <1>3 DEF Plan, ItemOf
    <2>2. DeployEvents \in Seq(ToSet(DeployEvents))
      BY DEF DeployEvents, ToSet
    <2> QED BY <2>1, <2>2
  <1> QED BY <1>1, <1>2, <1>3 DEF Orchestrator
-----------------------------------------------------------------------------
(* The run of an orchestrator tells what it did: its events are numbered    *)
(* without a gap, each item that ended has the event of its beginning and   *)
(* the one of its end, and the row of an ended run has the number of events.*)
Texts(rows) == {e[2] : e \in rows}

Told(t, rows, row) ==
    /\ t.pc = "idle" => t = IdleTask /\ rows = {}
    /\ t.pc \in {"next", "work", "ok"} =>
          /\ {e[1] : e \in rows} = 1..(t.no - 1)
          /\ \A item \in t.ok : <<"begin", item>> \in Texts(rows) /\ <<"done", item>> \in Texts(rows)
          /\ \A item \in t.bad : <<"begin", item>> \in Texts(rows) /\ <<"failed", item>> \in Texts(rows)
    /\ t.pc = "work" => t.todo # <<>> /\ <<"begin", t.todo[1]>> \in Texts(rows)
    /\ t.pc = "ok" => /\ row.status = IF t.bad = {} THEN "COMPLETED" ELSE "FAILED"
                      /\ row.total = t.no - 1

(* The sequencer: what it released or failed to release waits no more, and  *)
(* what builds on a failed release is excluded and has not been tried.      *)
Sequenced(t, E) ==
    /\ Waiting(E, t.todo)
    /\ (t.ok \cup t.bad) \cap ToSet(t.todo) = {}
    /\ \A r \in t.bad : /\ TransitiveDependentsOf(E, r) \subseteq t.skip
                        /\ TransitiveDependentsOf(E, r) \cap (t.ok \cup t.bad) = {}
    /\ t.pc = "work" => t.todo # <<>> /\ t.todo[1] \notin t.skip

OrchInv ==
    /\ runs \in [RunId -> Row] /\ events = [id \in RunId |-> events[id]]
    /\ nodes \subseteq Repo /\ deps \subseteq nodes \X nodes /\ Acyclic(deps)
    /\ wanted \subseteq nodes /\ lfaults \in 0..LedgerFaults
    /\ task = [o \in Orchestrator |-> task[o]]
    /\ \A o \in Orchestrator : task[o] \in SequenceOutcome(o) /\ Told(task[o], events[o], runs[o])
    /\ Sequenced(task["sequence"], deps)

(* A step of one orchestrator leaves the others and their runs alone. *)
LEMMA TaskSteps ==
    ASSUME OrchInv, NEW o \in Orchestrator, NEW t \in SequenceOutcome(o),
           task' = [task EXCEPT ![o] = t], nodes' = nodes, deps' = deps,
           wanted' \subseteq nodes, lfaults' \in 0..LedgerFaults,
           runs' \in [RunId -> Row], events' = [id \in RunId |-> events'[id]],
           \A id \in RunId \ {o} : runs'[id] = runs[id] /\ events'[id] = events[id],
           Told(t, events'[o], runs'[o]), o = "sequence" => Sequenced(t, deps)
    PROVE  OrchInv'
  <1>1. /\ nodes \subseteq Repo /\ deps \subseteq nodes \X nodes /\ Acyclic(deps)
        /\ task = [p \in Orchestrator |-> task[p]]
        /\ \A p \in Orchestrator : task[p] \in SequenceOutcome(p) /\ Told(task[p], events[p], runs[p])
        /\ Sequenced(task["sequence"], deps)
    BY DEF OrchInv
  <1>2. task' = [p \in Orchestrator |-> task'[p]] /\ task'[o] = t
        /\ \A p \in Orchestrator \ {o} : task'[p] = task[p]
    BY <1>1
  <1>3. \A p \in Orchestrator \ {o} : runs'[p] = runs[p] /\ events'[p] = events[p]
    BY MultiRepoAssumption
  <1>4. ASSUME NEW p \in Orchestrator
        PROVE  task'[p] \in SequenceOutcome(p) /\ Told(task'[p], events'[p], runs'[p])
    <2>1. CASE p = o
      BY <1>2, <2>1
    <2>2. CASE p # o
      BY <1>1, <1>2, <1>3, <2>2
    <2> QED BY <2>1, <2>2
  <1>5. Sequenced(task'["sequence"], deps)
    BY <1>1, <1>2 DEF Orchestrator
  <1>6. \A p \in Orchestrator : SequenceOutcome(p)' = SequenceOutcome(p)
    BY DEF SequenceOutcome, ItemOf
  <1>7. Acyclic(deps') /\ Sequenced(task'["sequence"], deps')
    BY <1>1, <1>5
  <1> QED BY <1>1, <1>2, <1>4, <1>7 DEF OrchInv

(* An orchestrator that ends with an error has nothing more to promise of   *)
(* its run, whether its last call was executed or not.                      *)
LEMMA TaskErrs ==
    ASSUME OrchInv, NEW o \in Orchestrator, CallFailing, Errs(o), nodes' = nodes, deps' = deps,
           wanted' \subseteq nodes, runs' \in [RunId -> Row], events' = [id \in RunId |-> events'[id]],
           \A id \in RunId \ {o} : runs'[id] = runs[id] /\ events'[id] = events[id]
    PROVE  OrchInv'
  <1> DEFINE t == [task[o] EXCEPT !.pc = "error"]
  <1>1. /\ lfaults \in 0..LedgerFaults /\ task[o] \in SequenceOutcome(o)
        /\ task = [p \in Orchestrator |-> task[p]] /\ Sequenced(task["sequence"], deps)
    BY DEF OrchInv
  <1>2. lfaults' \in 0..LedgerFaults
    BY <1>1, MultiRepoAssumption DEF CallFailing
  <1>3. /\ t \in SequenceOutcome(o) /\ t.pc = "error" /\ t.todo = task[o].todo /\ t.ok = task[o].ok
        /\ t.bad = task[o].bad /\ t.skip = task[o].skip
    BY <1>1 DEF SequenceOutcome
  <1>4. task' = [task EXCEPT ![o] = t]
    BY <1>1 DEF Errs
  <1> HIDE DEF t
  <1>5. Told(t, events'[o], runs'[o])
    BY <1>3 DEF Told
  <1>6. ASSUME o = "sequence" PROVE Sequenced(t, deps)
    BY <1>1, <1>3, <1>6 DEF Sequenced
  <1> QED BY <1>2, <1>3, <1>4, <1>5, <1>6, TaskSteps

(* The next number is free: append_event adds the event. *)
LEMMA EventIsAdded ==
    ASSUME OrchInv, NEW o \in Orchestrator, task[o].pc \in {"next", "work"}, NEW event,
           InsertEvent(o, task[o].no, event)
    PROVE  /\ events' = [id \in RunId |-> events'[id]]
           /\ \A id \in RunId \ {o} : events'[id] = events[id]
           /\ events'[o] = events[o] \cup {<<task[o].no, event>>}
           /\ {e[1] : e \in events'[o]} = 1..task[o].no
           /\ Texts(events'[o]) = Texts(events[o]) \cup {event}
  <1> DEFINE no == task[o].no
             rows == events[o]
             more == rows \cup {<<no, event>>}
  <1>1. task[o] \in SequenceOutcome(o) /\ Told(task[o], rows, runs[o]) /\ o \in RunId
        /\ events = [id \in RunId |-> events[id]]
    BY MultiRepoAssumption DEF OrchInv
  <1>2. no \in Nat /\ no >= 1
    BY <1>1 DEF SequenceOutcome
  <1>3. {e[1] : e \in rows} = 1..(no - 1)
    BY <1>1 DEF Told
  <1>4. ASSUME NEW e \in rows PROVE e[1] # no
    BY <1>2, <1>3
  <1>5. events' = [events EXCEPT ![o] = rows \cup {<<no, event>>}]
    BY <1>4 DEF InsertEvent
  <1>6. events'[o] = more
    BY <1>1, <1>5
  <1>7. {e[1] : e \in more} = 1..no
    <2>1. {e[1] : e \in more} = {e[1] : e \in rows} \cup {no}
      <3>1. <<no, event>>[1] = no
        OBVIOUS
      <3> QED BY <3>1
    <2> HIDE DEF more, rows, no
    <2> QED BY <1>2, <1>3, <2>1
  <1>8. Texts(more) = Texts(rows) \cup {event}
    <2>1. <<no, event>>[2] = event
      OBVIOUS
    <2> QED BY <2>1 DEF Texts
  <1>9. events' = [id \in RunId |-> events'[id]] /\ \A id \in RunId \ {o} : events'[id] = events[id]
    BY <1>1, <1>5
  <1> QED BY <1>6, <1>7, <1>8, <1>9

(* One append_event of an orchestrator, and what it does after it. *)
LEMMA RecordedStep ==
    ASSUME OrchInv, NEW o \in Orchestrator, task[o].pc \in {"next", "work"}, NEW event,
           NEW after \in SequenceOutcome(o), after.pc \in {"next", "work"}, after.no = task[o].no + 1,
           Recorded(o, event, after),
           \A texts : texts = Texts(events[o]) \cup {event} =>
              /\ \A item \in after.ok : <<"begin", item>> \in texts /\ <<"done", item>> \in texts
              /\ \A item \in after.bad : <<"begin", item>> \in texts /\ <<"failed", item>> \in texts
              /\ after.pc = "work" => after.todo # <<>> /\ <<"begin", after.todo[1]>> \in texts,
           o = "sequence" => Sequenced(after, deps)
    PROVE  OrchInv'
  <1>1. /\ runs \in [RunId -> Row] /\ events = [id \in RunId |-> events[id]] /\ wanted \subseteq nodes
        /\ task[o] \in SequenceOutcome(o) /\ lfaults \in 0..LedgerFaults
    BY DEF OrchInv
  <1>2. runs' = runs /\ nodes' = nodes /\ deps' = deps /\ wanted' = wanted
    BY DEF Recorded
  <1>3. ASSUME InsertEvent(o, task[o].no, event), task' = [task EXCEPT ![o] = after], UNCHANGED lfaults
        PROVE  OrchInv'
    <2>1. /\ events' = [id \in RunId |-> events'[id]]
          /\ \A id \in RunId \ {o} : events'[id] = events[id]
          /\ {e[1] : e \in events'[o]} = 1..task[o].no
          /\ Texts(events'[o]) = Texts(events[o]) \cup {event}
      BY <1>3, EventIsAdded
    <2>2. task[o].no \in Nat
      BY <1>1 DEF SequenceOutcome
    <2>3. after.no - 1 = task[o].no
      BY <2>2
    <2>4. Told(after, events'[o], runs'[o])
      <3>1. /\ \A item \in after.ok : /\ <<"begin", item>> \in Texts(events'[o])
                                      /\ <<"done", item>> \in Texts(events'[o])
            /\ \A item \in after.bad : /\ <<"begin", item>> \in Texts(events'[o])
                                       /\ <<"failed", item>> \in Texts(events'[o])
            /\ after.pc = "work" => after.todo # <<>> /\ <<"begin", after.todo[1]>> \in Texts(events'[o])
        BY <2>1
      <3> QED BY ONLY <2>1, <2>3, <3>1, after.pc \in {"next", "work"} DEF Told
    <2> QED BY <1>1, <1>2, <1>3, <2>1, <2>4, TaskSteps
  <1>4. ASSUME CallFailing, Errs(o), InsertEvent(o, task[o].no, event) \/ UNCHANGED events PROVE OrchInv'
    <2>1. /\ events' = [id \in RunId |-> events'[id]]
          /\ \A id \in RunId \ {o} : events'[id] = events[id]
      BY <1>1, <1>4, EventIsAdded
    <2> QED BY <1>1, <1>2, <1>4, <2>1, TaskErrs
  <1> QED BY <1>3, <1>4 DEF Recorded

(* The graph grows only before there is a sequence. *)
LEMMA GraphSteps ==
    ASSUME OrchInv, NEW r \in Repo, AddNode(r) \/ \E s \in Repo : AddDependency(r, s)
    PROVE  OrchInv'
  <1>1. /\ nodes \subseteq Repo /\ deps \subseteq nodes \X nodes /\ Acyclic(deps) /\ wanted \subseteq nodes
        /\ \A o \in Orchestrator : task[o] \in SequenceOutcome(o) /\ Told(task[o], events[o], runs[o])
        /\ runs \in [RunId -> Row] /\ events = [id \in RunId |-> events[id]]
        /\ task = [o \in Orchestrator |-> task[o]] /\ lfaults \in 0..LedgerFaults
    BY DEF OrchInv
  <1>2. runs' = runs /\ events' = events /\ task' = task /\ wanted' = wanted /\ lfaults' = lfaults
        /\ task["sequence"] = IdleTask
    BY DEF AddNode, AddDependency, ledger, Building
  <1>3. nodes' \subseteq Repo /\ nodes \subseteq nodes' /\ deps' \subseteq nodes' \X nodes' /\ Acyclic(deps')
    <2>1. CASE AddNode(r)
      <3>1. nodes' = nodes \cup {r} /\ deps' = deps
        BY <2>1 DEF AddNode
      <3> QED BY <1>1, <3>1
    <2>2. ASSUME NEW s \in Repo, AddDependency(r, s)
          PROVE  nodes' \subseteq Repo /\ nodes \subseteq nodes' /\ deps' \subseteq nodes' \X nodes' /\ Acyclic(deps')
      <3> DEFINE added == deps \cup {<<r, s>>}
      <3>1. nodes' = nodes /\ r \in nodes /\ s \in nodes
            /\ deps' = IF FindCycleThrough(added, s) THEN deps ELSE added
        BY <2>2 DEF AddDependency
      <3>2. ~ FindCycleThrough(added, s) => Acyclic(added)
        BY <1>1, EdgeClosesNoCycle
      <3>3. added \subseteq nodes \X nodes
        BY <1>1, <3>1
      <3> HIDE DEF added
      <3>4. CASE FindCycleThrough(added, s)
        BY <1>1, <3>1, <3>4
      <3>5. CASE ~ FindCycleThrough(added, s)
        BY <1>1, <3>1, <3>2, <3>3, <3>5
      <3> QED BY <3>4, <3>5
    <2> QED BY <2>1, <2>2
  <1>4. Sequenced(IdleTask, deps')
    <2>1. IdleTask.todo = <<>> /\ IdleTask.ok = {} /\ IdleTask.bad = {} /\ IdleTask.pc = "idle"
      BY DEF IdleTask
    <2>2. ToSet(<<>>) = {} /\ DOMAIN <<>> = {}
      BY DEF ToSet
    <2> QED BY <2>1, <2>2 DEF Sequenced, Waiting, ClosedUnder
  <1>5. \A o \in Orchestrator : SequenceOutcome(o)' = SequenceOutcome(o)
    BY DEF SequenceOutcome, ItemOf
  <1>6. Sequenced(task'["sequence"], deps')
    BY <1>2, <1>4
  <1> QED BY <1>1, <1>2, <1>3, <1>5, <1>6 DEF OrchInv

(* Every orchestrator starts with its plan and an empty run. *)
LEMMA StartSteps ==
    ASSUME OrchInv, NEW o \in Orchestrator, StartRun(o)
    PROVE  OrchInv'
  <1> DEFINE t == [task[o] EXCEPT !.pc = "next", !.todo = Plan(o)]
  <1>1. /\ nodes \subseteq Repo /\ deps \subseteq nodes \X nodes /\ Acyclic(deps) /\ wanted \subseteq nodes
        /\ task[o] \in SequenceOutcome(o) /\ Told(task[o], events[o], runs[o])
        /\ runs \in [RunId -> Row] /\ events = [id \in RunId |-> events[id]]
        /\ task = [p \in Orchestrator |-> task[p]] /\ lfaults \in 0..LedgerFaults
    BY DEF OrchInv
  <1>2. /\ task[o] = IdleTask /\ nodes' = nodes /\ deps' = deps /\ events' = events
        /\ wanted' \in IF o = "sequence" THEN SUBSET nodes ELSE {wanted}
    BY DEF StartRun
  <1>3. wanted' \subseteq nodes
    BY <1>1, <1>2
  <1>4. InsertRun(o) => /\ runs' \in [RunId -> Row]
                        /\ \A id \in RunId \ {o} : runs'[id] = runs[id]
    <2>1. Absent \in Row
      BY DEF Absent, Row
    <2>2. [Absent EXCEPT !.status = "RUNNING"] \in Row
      BY <2>1 DEF Row
    <2> QED BY <1>1, <2>2 DEF InsertRun
  <1>5. ASSUME InsertRun(o), task' = [task EXCEPT ![o].pc = "next", ![o].todo = Plan(o)], UNCHANGED lfaults
        PROVE  OrchInv'
    <2>1. Plan(o) \in Seq(ItemOf(o))
      BY <1>1, PlanTyped
    <2>a. IdleTask.pc = "idle" /\ IdleTask.no = 1 /\ IdleTask.ok = {} /\ IdleTask.bad = {} /\ IdleTask.skip = {}
      BY DEF IdleTask
    <2>2. task[o].no = 1 /\ task[o].ok = {} /\ task[o].bad = {} /\ task[o].skip = {} /\ events[o] = {}
      BY <1>1, <1>2, <2>a DEF Told
    <2>3. /\ t \in SequenceOutcome(o) /\ t.pc = "next" /\ t.todo = Plan(o) /\ t.no = 1 /\ t.ok = {}
          /\ t.bad = {} /\ t.skip = {}
      BY <1>1, <2>1, <2>2 DEF SequenceOutcome
    <2>4. task' = [task EXCEPT ![o] = t]
      BY <1>1, <1>5
    <2> HIDE DEF t
    <2>5. Told(t, events'[o], runs'[o])
      <3>1. {e[1] : e \in {}} = 1..(1 - 1)
        OBVIOUS
      <3> QED BY <1>2, <2>2, <2>3, <3>1 DEF Told
    <2>6. ASSUME o = "sequence" PROVE Sequenced(t, deps)
      <3>1. Plan(o) = TopologicalOrder(deps, nodes)
        BY <2>6 DEF Plan
      <3>2. Waiting(deps, t.todo)
        BY <1>1, <2>3, <3>1, OrderWaits
      <3> QED BY <2>3, <3>2 DEF Sequenced
    <2> QED BY <1>1, <1>2, <1>3, <1>4, <1>5, <2>3, <2>4, <2>5, <2>6, TaskSteps
  <1>6. ASSUME CallFailing, Errs(o), InsertRun(o) \/ UNCHANGED runs PROVE OrchInv'
    <2>1. runs' \in [RunId -> Row] /\ \A id \in RunId \ {o} : runs'[id] = runs[id]
      BY <1>1, <1>4, <1>6
    <2> QED BY <1>1, <1>2, <1>3, <1>6, <2>1, TaskErrs
  <1> QED BY <1>5, <1>6 DEF StartRun

(* A repository that is passed over waits no more. *)
LEMMA SkipSteps ==
    ASSUME OrchInv, NEW o \in Orchestrator, SkipItem(o)
    PROVE  OrchInv'
  <1> DEFINE t == [task[o] EXCEPT !.todo = Tail(@)]
             old == task[o]
  <1>1. /\ deps \subseteq Repo \X Repo /\ wanted \subseteq nodes
        /\ old \in SequenceOutcome(o) /\ Told(old, events[o], runs[o])
        /\ runs \in [RunId -> Row] /\ events = [id \in RunId |-> events[id]]
        /\ task = [p \in Orchestrator |-> task[p]] /\ lfaults \in 0..LedgerFaults
        /\ Sequenced(task["sequence"], deps)
    BY DEF OrchInv
  <1>2. /\ old.pc = "next" /\ old.todo # <<>> /\ o = "sequence" /\ nodes' = nodes /\ deps' = deps
        /\ wanted' = wanted /\ lfaults' = lfaults /\ runs' = runs /\ events' = events
        /\ task' = [task EXCEPT ![o].todo = Tail(@)]
    BY DEF SkipItem, Skips, ledger
  <1>3. old.todo \in Seq(Repo) /\ ItemOf(o) = Repo
    BY <1>1, <1>2 DEF SequenceOutcome, ItemOf
  <1>4. Tail(old.todo) \in Seq(Repo) /\ ToSet(Tail(old.todo)) \subseteq ToSet(old.todo)
    BY <1>2, <1>3, TailMembers
  <1>5. /\ t \in SequenceOutcome(o) /\ t.pc = "next" /\ t.todo = Tail(old.todo) /\ t.no = old.no
        /\ t.ok = old.ok /\ t.bad = old.bad /\ t.skip = old.skip
    BY <1>1, <1>2, <1>3, <1>4 DEF SequenceOutcome
  <1>6. task' = [task EXCEPT ![o] = t]
    BY <1>1, <1>2
  <1> HIDE DEF t
  <1>7. Told(t, events'[o], runs'[o])
    BY <1>1, <1>2, <1>5 DEF Told
  <1>8. Sequenced(t, deps)
    <2>1. Waiting(deps, old.todo)
      BY <1>1, <1>2 DEF Sequenced
    <2>2. Waiting(deps, Tail(old.todo))
      BY <1>1, <1>2, <1>3, <2>1, WaitingTail
    <2> QED BY <1>1, <1>2, <1>4, <1>5, <2>2 DEF Sequenced
  <1> QED BY <1>1, <1>2, <1>5, <1>6, <1>7, <1>8, TaskSteps

(* What builds on the first of the waiting repositories waits behind it. *)
LEMMA DependentsWait ==
    ASSUME NEW E, E \subseteq Repo \X Repo, Acyclic(E), NEW todo \in Seq(Repo), todo # <<>>, Waiting(E, todo)
    PROVE  LET D == TransitiveDependentsOf(E, todo[1])
           IN  D \subseteq Repo /\ D \subseteq ToSet(todo) /\ todo[1] \notin D
  <1> DEFINE first == todo[1]
             D == TransitiveDependentsOf(E, first)
             C == ToSet(todo)
  <1>1. first \in Repo /\ first \in C
    BY TailMembers
  <1>2. ClosedUnder(E, C)
    BY DEF Waiting
  <1> HIDE DEF C, first
  <1>3. DependentsOf(E, first) \subseteq C
    <2> SUFFICES ASSUME NEW d \in DependentsOf(E, first) PROVE d \in C
      OBVIOUS
    <2>1. PICK e \in E : e[1] = first /\ d = e[2]
      BY DEF DependentsOf
    <2> QED BY <1>1, <1>2, <2>1 DEF ClosedUnder
  <1>4. D \subseteq Repo /\ D \subseteq C
    BY <1>1, <1>2, <1>3, TransitiveIs
  <1>5. first \notin D
    BY <1>1, AcyclicIsGraph DEF IsDependencyGraph, FindCycleThrough
  <1> QED BY <1>4, <1>5 DEF first, C

(* What an orchestrator knows when it has written one more event. *)
Moved(t, pc, todo) == [t EXCEPT !.pc = pc, !.no = @ + 1, !.todo = todo]

(* It keeps what it knew of its items. *)
LEMMA OutcomeMoves ==
    ASSUME NEW o, NEW t \in SequenceOutcome(o), NEW pc \in {"next", "work"}, NEW todo \in Seq(ItemOf(o))
    PROVE  LET u == Moved(t, pc, todo)
           IN  /\ u \in SequenceOutcome(o) /\ u.pc = pc /\ u.no = t.no + 1 /\ u.todo = todo
               /\ u.ok = t.ok /\ u.bad = t.bad /\ u.skip = t.skip
  <1> DEFINE n == t.no + 1
             u == [t EXCEPT !.pc = pc, !.no = n, !.todo = todo]
  <1>1. t.no \in Nat \ {0}
    BY DEF SequenceOutcome
  <1>2. n \in Nat \ {0}
    BY <1>1
  <1> HIDE DEF n
  <1>3. u \in SequenceOutcome(o) /\ u.pc = pc /\ u.no = n /\ u.todo = todo
    BY <1>2 DEF SequenceOutcome
  <1>4. u.ok = t.ok /\ u.bad = t.bad /\ u.skip = t.skip
    BY DEF SequenceOutcome
  <1> QED BY <1>3, <1>4 DEF n, Moved

(* The event of the beginning of an item, at which the deploy runner is     *)
(* already done with it.                                                    *)
LEMMA BeginSteps ==
    ASSUME OrchInv, NEW o \in Orchestrator, BeginItem(o)
    PROVE  OrchInv'
  <1> DEFINE old == task[o]
             event == <<"begin", old.todo[1]>>
             gone == [old EXCEPT !.no = @ + 1, !.todo = Tail(@)]
             busy == [old EXCEPT !.no = @ + 1, !.pc = "work"]
  <1>1. /\ old \in SequenceOutcome(o) /\ Told(old, events[o], runs[o])
        /\ Sequenced(task["sequence"], deps)
    BY DEF OrchInv
  <1>2. /\ old.pc = "next" /\ old.todo # <<>> /\ ~ Skips(o, old.todo[1])
        /\ Recorded(o, event, IF o = "deploy" THEN gone ELSE busy)
    BY DEF BeginItem
  <1>3. old.todo \in Seq(ItemOf(o)) /\ old.no \in Nat \ {0}
    BY <1>1 DEF SequenceOutcome
  <1>4. /\ \A item \in old.ok : <<"begin", item>> \in Texts(events[o]) /\ <<"done", item>> \in Texts(events[o])
        /\ \A item \in old.bad : <<"begin", item>> \in Texts(events[o]) /\ <<"failed", item>> \in Texts(events[o])
    BY <1>1, <1>2 DEF Told
  <1>5. CASE o = "deploy"
    <2>1. Tail(old.todo) \in Seq(ItemOf(o))
      BY <1>2, <1>3, TailMembers
    <2>2. gone \in SequenceOutcome(o) /\ gone.pc = "next" /\ gone.no = old.no + 1
          /\ gone.ok = old.ok /\ gone.bad = old.bad
      <3>1. gone = Moved(old, "next", Tail(old.todo))
        BY <1>1, <1>2 DEF SequenceOutcome, Moved
      <3>2. ASSUME NEW todo \in Seq(ItemOf(o)), gone = Moved(old, "next", todo)
            PROVE  gone \in SequenceOutcome(o) /\ gone.pc = "next" /\ gone.no = old.no + 1
                   /\ gone.ok = old.ok /\ gone.bad = old.bad
        <4> HIDE DEF gone, old
        <4> QED BY <1>1, <3>2, OutcomeMoves
      <3> HIDE DEF gone, old
      <3> QED BY <2>1, <3>1, <3>2
    <2>3. Recorded(o, event, gone)
      BY <1>2, <1>5
    <2> HIDE DEF gone, event
    <2> QED BY <1>2, <1>4, <1>5, <2>2, <2>3, RecordedStep
  <1>6. CASE o # "deploy"
    <2>1. busy \in SequenceOutcome(o) /\ busy.pc = "work" /\ busy.no = old.no + 1 /\ busy.todo = old.todo
          /\ busy.ok = old.ok /\ busy.bad = old.bad /\ busy.skip = old.skip
      <3>1. busy = Moved(old, "work", old.todo)
        BY <1>1 DEF SequenceOutcome, Moved
      <3> HIDE DEF busy, old
      <3> QED BY <1>1, <1>3, <3>1, OutcomeMoves
    <2>2. Recorded(o, event, busy)
      BY <1>2, <1>6
    <2> HIDE DEF busy
    <2>3. ASSUME o = "sequence" PROVE Sequenced(busy, deps)
      <3>1. old.todo[1] \notin old.skip
        BY <1>2, <2>3 DEF Skips
      <3> QED BY <1>1, <1>2, <2>1, <2>3, <3>1 DEF Sequenced
    <2>4. event = <<"begin", busy.todo[1]>>
      BY <2>1
    <2> HIDE DEF event
    <2> QED BY <1>2, <1>4, <2>1, <2>2, <2>3, <2>4, RecordedStep
  <1> QED BY <1>5, <1>6

(* The event of the end of an item: when it failed, all that builds on it   *)
(* is still waiting and is excluded now.                                    *)
LEMMA EndSteps ==
    ASSUME OrchInv, NEW o \in Orchestrator, NEW success \in BOOLEAN, EndItem(o, success)
    PROVE  OrchInv'
  <1> DEFINE old == task[o]
             item == old.todo[1]
             event == <<IF success THEN "done" ELSE "failed", item>>
             rest == Remaining(o, success)
             done == [old EXCEPT !.pc = "next", !.no = @ + 1, !.todo = rest]
             good == [done EXCEPT !.ok = @ \cup {item}]
             lost == [done EXCEPT !.bad = @ \cup {item}, !.skip = @ \cup Excludes(o, item)]
  <1>1. /\ old \in SequenceOutcome(o) /\ Told(old, events[o], runs[o])
        /\ Sequenced(task["sequence"], deps) /\ deps \subseteq Repo \X Repo /\ Acyclic(deps)
    BY DEF OrchInv
  <1>2. old.pc = "work" /\ Recorded(o, event, IF success THEN good ELSE lost)
    BY DEF EndItem
  <1>3. /\ old.todo \in Seq(ItemOf(o)) /\ old.todo # <<>> /\ old.no \in Nat \ {0}
        /\ <<"begin", item>> \in Texts(events[o])
    BY <1>1, <1>2 DEF SequenceOutcome, Told
  <1>4. /\ \A i \in old.ok : <<"begin", i>> \in Texts(events[o]) /\ <<"done", i>> \in Texts(events[o])
        /\ \A i \in old.bad : <<"begin", i>> \in Texts(events[o]) /\ <<"failed", i>> \in Texts(events[o])
    BY <1>1, <1>2 DEF Told
  <1>5. item \in ItemOf(o) /\ Tail(old.todo) \in Seq(ItemOf(o))
    BY <1>3, TailMembers
  <1>6. rest \in Seq(ItemOf(o)) /\ (o = "sequence" => rest = Tail(old.todo))
    BY <1>5 DEF Remaining
  <1>7. /\ done \in SequenceOutcome(o) /\ done.pc = "next" /\ done.no = old.no + 1 /\ done.todo = rest
        /\ done.ok = old.ok /\ done.bad = old.bad /\ done.skip = old.skip
    <2>1. done = Moved(old, "next", rest)
      BY DEF Moved
    <2> HIDE DEF done, old, rest
    <2> QED BY <1>1, <1>6, <2>1, OutcomeMoves
  <1>8. ASSUME o = "sequence"
        PROVE  /\ Waiting(deps, rest) /\ item \notin ToSet(rest) /\ ToSet(rest) \subseteq ToSet(old.todo)
               /\ (old.ok \cup old.bad) \cap ToSet(old.todo) = {}
               /\ \A r \in old.bad : /\ TransitiveDependentsOf(deps, r) \subseteq old.skip
                                     /\ TransitiveDependentsOf(deps, r) \cap (old.ok \cup old.bad) = {}
               /\ item \notin old.skip /\ Excludes(o, item) = TransitiveDependentsOf(deps, item)
               /\ TransitiveDependentsOf(deps, item) \subseteq Repo
               /\ TransitiveDependentsOf(deps, item) \subseteq ToSet(old.todo)
               /\ item \notin TransitiveDependentsOf(deps, item)
    <2>1. ItemOf(o) = Repo /\ Excludes(o, item) = TransitiveDependentsOf(deps, item)
      BY <1>8 DEF ItemOf, Excludes
    <2>2. old.todo \in Seq(Repo) /\ Sequenced(old, deps)
      BY <1>1, <1>3, <1>8, <2>1
    <2>3. Waiting(deps, old.todo)
      BY <2>2 DEF Sequenced
    <2>4. Waiting(deps, rest) /\ item \notin ToSet(rest) /\ ToSet(rest) \subseteq ToSet(old.todo)
      <3>1. Waiting(deps, Tail(old.todo)) /\ item \notin ToSet(Tail(old.todo))
        BY <1>1, <1>3, <2>2, <2>3, WaitingTail
      <3>2. ToSet(Tail(old.todo)) \subseteq ToSet(old.todo)
        BY <1>3, <2>2, TailMembers
      <3> QED BY <1>6, <1>8, <3>1, <3>2
    <2>5. /\ TransitiveDependentsOf(deps, item) \subseteq Repo
          /\ TransitiveDependentsOf(deps, item) \subseteq ToSet(old.todo)
          /\ item \notin TransitiveDependentsOf(deps, item)
      BY <1>1, <1>3, <2>2, <2>3, DependentsWait
    <2>6. /\ (old.ok \cup old.bad) \cap ToSet(old.todo) = {} /\ item \notin old.skip
          /\ \A r \in old.bad : /\ TransitiveDependentsOf(deps, r) \subseteq old.skip
                                /\ TransitiveDependentsOf(deps, r) \cap (old.ok \cup old.bad) = {}
      BY <1>2, <2>2 DEF Sequenced
    <2> QED BY <2>1, <2>4, <2>5, <2>6
  <1> HIDE DEF done, rest
  <1>9. CASE success
    <2>1. /\ good \in SequenceOutcome(o) /\ good.pc = "next" /\ good.no = old.no + 1 /\ good.todo = rest
          /\ good.ok = old.ok \cup {item} /\ good.bad = old.bad /\ good.skip = old.skip
      BY <1>5, <1>7 DEF SequenceOutcome
    <2>2. Recorded(o, event, good) /\ event = <<"done", item>>
      BY <1>2, <1>9
    <2> HIDE DEF good, event
    <2>3. ASSUME o = "sequence" PROVE Sequenced(good, deps)
      <3>1. (good.ok \cup good.bad) \cap ToSet(good.todo) = {}
        BY <1>8, <2>1, <2>3
      <3>2. ASSUME NEW r \in good.bad
            PROVE  /\ TransitiveDependentsOf(deps, r) \subseteq good.skip
                   /\ TransitiveDependentsOf(deps, r) \cap (good.ok \cup good.bad) = {}
        BY <1>8, <2>1, <2>3, <3>2
      <3>3. Waiting(deps, good.todo) /\ good.pc # "work"
        BY <1>8, <2>1, <2>3
      <3> QED BY <3>1, <3>2, <3>3 DEF Sequenced
    <2>4. ASSUME NEW texts, texts = Texts(events[o]) \cup {event}
          PROVE  /\ \A i \in good.ok : <<"begin", i>> \in texts /\ <<"done", i>> \in texts
                 /\ \A i \in good.bad : <<"begin", i>> \in texts /\ <<"failed", i>> \in texts
                 /\ good.pc # "work"
      BY <1>3, <1>4, <2>1, <2>2, <2>4
    <2> QED BY <1>2, <2>1, <2>2, <2>3, <2>4, RecordedStep
  <1>10. CASE ~ success
    <2>1. Excludes(o, item) \subseteq Repo
      BY <1>8 DEF Excludes
    <2>2. /\ lost \in SequenceOutcome(o) /\ lost.pc = "next" /\ lost.no = old.no + 1 /\ lost.todo = rest
          /\ lost.ok = old.ok /\ lost.bad = old.bad \cup {item} /\ lost.skip = old.skip \cup Excludes(o, item)
      BY <1>5, <1>7, <2>1 DEF SequenceOutcome
    <2>3. Recorded(o, event, lost) /\ event = <<"failed", item>>
      BY <1>2, <1>10
    <2> HIDE DEF lost, event
    <2>4. ASSUME o = "sequence" PROVE Sequenced(lost, deps)
      <3>1. (lost.ok \cup lost.bad) \cap ToSet(lost.todo) = {}
        BY <1>8, <2>2, <2>4
      <3>2. ASSUME NEW r \in lost.bad
            PROVE  /\ TransitiveDependentsOf(deps, r) \subseteq lost.skip
                   /\ TransitiveDependentsOf(deps, r) \cap (lost.ok \cup lost.bad) = {}
        <4>1. CASE r = item
          BY <1>8, <2>2, <2>4, <4>1
        <4>2. CASE r # item
          BY <1>8, <2>2, <2>4, <3>2, <4>2
        <4> QED BY <4>1, <4>2
      <3>3. Waiting(deps, lost.todo) /\ lost.pc # "work"
        BY <1>8, <2>2, <2>4
      <3> QED BY <3>1, <3>2, <3>3 DEF Sequenced
    <2>5. ASSUME NEW texts, texts = Texts(events[o]) \cup {event}
          PROVE  /\ \A i \in lost.ok : <<"begin", i>> \in texts /\ <<"done", i>> \in texts
                 /\ \A i \in lost.bad : <<"begin", i>> \in texts /\ <<"failed", i>> \in texts
                 /\ lost.pc # "work"
      BY <1>3, <1>4, <2>2, <2>3, <2>5
    <2> QED BY <1>2, <2>2, <2>3, <2>4, <2>5, RecordedStep
  <1> QED BY <1>9, <1>10

(* finish_ok or finish_err: the run ends with the number of its events. *)
LEMMA FinishSteps ==
    ASSUME OrchInv, NEW o \in Orchestrator, FinishRun(o)
    PROVE  OrchInv'
  <1> DEFINE old == task[o]
             status == IF OverallSuccess(o) THEN "COMPLETED" ELSE "FAILED"
             row == [status |-> status, total |-> old.no - 1, success |-> status = "COMPLETED"]
             t == [old EXCEPT !.pc = "ok"]
  <1>1. /\ old \in SequenceOutcome(o) /\ Told(old, events[o], runs[o]) /\ wanted \subseteq nodes
        /\ runs \in [RunId -> Row] /\ events = [id \in RunId |-> events[id]] /\ o \in RunId
        /\ task = [p \in Orchestrator |-> task[p]] /\ lfaults \in 0..LedgerFaults
        /\ Sequenced(task["sequence"], deps)
    BY MultiRepoAssumption DEF OrchInv
  <1>2. /\ old.pc = "next" /\ events' = events /\ nodes' = nodes /\ deps' = deps /\ wanted' = wanted
        /\ \/ UpdateRun(o, status, old.no - 1) /\ task' = [task EXCEPT ![o].pc = "ok"] /\ UNCHANGED lfaults
           \/ CallFailing /\ Errs(o) /\ (UpdateRun(o, status, old.no - 1) \/ UNCHANGED runs)
    BY DEF FinishRun
  <1>3. old.no \in Nat \ {0}
    BY <1>1 DEF SequenceOutcome
  <1>4. old.no - 1 \in Nat /\ status \in {"COMPLETED", "FAILED"}
    BY <1>3
  <1>5. row \in Row /\ row.status = status /\ row.total = old.no - 1
    <2> HIDE DEF status, old
    <2> QED BY <1>4 DEF Row, Terminal
  <1>6. UpdateRun(o, status, old.no - 1) => runs' = [runs EXCEPT ![o] = row]
    BY DEF UpdateRun
  <1>7. status = IF old.bad = {} THEN "COMPLETED" ELSE "FAILED"
    BY DEF OverallSuccess
  <1> HIDE DEF row
  <1>8. UpdateRun(o, status, old.no - 1) => /\ runs' \in [RunId -> Row] /\ runs'[o] = row
                                            /\ \A id \in RunId \ {o} : runs'[id] = runs[id]
    BY <1>1, <1>5, <1>6
  <1>9. ASSUME UpdateRun(o, status, old.no - 1), task' = [task EXCEPT ![o].pc = "ok"], UNCHANGED lfaults
        PROVE  OrchInv'
    <2>1. /\ t \in SequenceOutcome(o) /\ t.pc = "ok" /\ t.todo = old.todo /\ t.no = old.no
          /\ t.ok = old.ok /\ t.bad = old.bad /\ t.skip = old.skip
      BY <1>1 DEF SequenceOutcome
    <2>2. task' = [task EXCEPT ![o] = t]
      BY <1>1, <1>9
    <2> HIDE DEF t, status
    <2>3. Told(t, events'[o], runs'[o])
      BY <1>1, <1>2, <1>5, <1>7, <1>8, <1>9, <2>1 DEF Told
    <2>4. ASSUME o = "sequence" PROVE Sequenced(t, deps)
      BY <1>1, <2>1, <2>4 DEF Sequenced
    <2> QED BY <1>1, <1>2, <1>8, <1>9, <2>1, <2>2, <2>3, <2>4, TaskSteps
  <1>10. ASSUME CallFailing, Errs(o), UpdateRun(o, status, old.no - 1) \/ UNCHANGED runs PROVE OrchInv'
    <2>1. runs' \in [RunId -> Row] /\ \A id \in RunId \ {o} : runs'[id] = runs[id]
      BY <1>1, <1>8, <1>10
    <2> QED BY <1>1, <1>2, <1>10, <2>1, TaskErrs
  <1> QED BY <1>2, <1>9, <1>10

(* What the invariant says of the plan, the releases and the runs. *)
LEMMA OrchInvIsSound ==
    ASSUME OrchInv
    PROVE  MultiRepoTypeOK /\ OrchestrationSound
  <1> DEFINE t == task["sequence"]
  <1>1. /\ runs \in [RunId -> Row] /\ nodes \subseteq Repo /\ deps \subseteq nodes \X nodes
        /\ Acyclic(deps) /\ wanted \subseteq nodes /\ lfaults \in 0..LedgerFaults
        /\ \A o \in Orchestrator : task[o] \in SequenceOutcome(o) /\ Told(task[o], events[o], runs[o])
        /\ Sequenced(t, deps)
    BY DEF OrchInv
  <1>2. MultiRepoTypeOK
    BY <1>1, AcyclicIsGraph DEF MultiRepoTypeOK
  <1>3. GroupsRespectDependencies
    BY <1>1, GroupsAreOrdered
  <1>4. NothingReleasedOnFailure
    <2> SUFFICES ASSUME NEW r \in nodes, RepoReleaseStatus(r) = "failed",
                        NEW d \in TransitiveDependentsOf(deps, r)
                 PROVE  RepoReleaseStatus(d) \in {"skipped", "pending"}
      BY DEF NothingReleasedOnFailure
    <2>1. r \in t.bad
      <3> SUFFICES ASSUME r \notin t.bad PROVE FALSE
        OBVIOUS
      <3>1. RepoReleaseStatus(r) \in {"succeeded", "skipped", "in_progress", "pending"}
        BY DEF RepoReleaseStatus
      <3> QED BY <3>1
    <2>2. d \in t.skip /\ d \notin t.ok /\ d \notin t.bad
      BY <1>1, <2>1 DEF Sequenced
    <2>3. ~ (t.pc = "work" /\ t.todo[1] = d)
      BY <1>1, <2>2 DEF Sequenced
    <2> QED BY <2>2, <2>3 DEF RepoReleaseStatus
  <1>5. OkRunsAreWhole
    <2> SUFFICES ASSUME NEW o \in Orchestrator, task[o].pc = "ok"
                 PROVE  /\ runs[o].status = IF OverallSuccess(o) THEN "COMPLETED" ELSE "FAILED"
                        /\ {e[1] : e \in events[o]} = 1 .. runs[o].total
                        /\ \A item \in task[o].ok \cup task[o].bad :
                              {<<"begin", item>>, <<IF item \in task[o].ok THEN "done" ELSE "failed", item>>}
                                 \subseteq {e[2] : e \in events[o]}
      BY DEF OkRunsAreWhole
    <2>1. Told(task[o], events[o], runs[o])
      BY <1>1
    <2>2. runs[o].status = IF OverallSuccess(o) THEN "COMPLETED" ELSE "FAILED"
      BY <2>1 DEF Told, OverallSuccess
    <2>3. {e[1] : e \in events[o]} = 1 .. runs[o].total
      BY <2>1 DEF Told
    <2>4. /\ \A item \in task[o].ok : /\ <<"begin", item>> \in Texts(events[o])
                                      /\ <<"done", item>> \in Texts(events[o])
          /\ \A item \in task[o].bad : /\ <<"begin", item>> \in Texts(events[o])
                                       /\ <<"failed", item>> \in Texts(events[o])
      BY <2>1 DEF Told
    <2>5. Texts(events[o]) = {e[2] : e \in events[o]}
      BY DEF Texts
    <2> HIDE DEF Texts
    <2>6. ASSUME NEW item \in task[o].ok \cup task[o].bad
          PROVE  {<<"begin", item>>, <<IF item \in task[o].ok THEN "done" ELSE "failed", item>>}
                    \subseteq Texts(events[o])
      <3>1. CASE item \in task[o].ok
        BY <2>4, <3>1
      <3>2. CASE item \notin task[o].ok
        BY <2>4, <2>6, <3>2
      <3> QED BY <3>1, <3>2
    <2> QED BY <2>2, <2>3, <2>5, <2>6
  <1> QED BY <1>2, <1>3, <1>4, <1>5 DEF OrchestrationSound

(* Whatever dependencies are declared and in whatever order, whatever       *)
(* releases, cherry-picks and ledger calls fail: the plan never runs a      *)
(* repository before or beside one it depends on, the sequencer never       *)
(* releases on top of a failed release, and a run that was ended tells all  *)
(* that was done (graph.rs, sequencer.rs, backport.rs, deploy_runner.rs).   *)
THEOREM OrchestrationIsSound == MultiRepoSpec => [](MultiRepoTypeOK /\ OrchestrationSound)
  <1>1. MultiRepoInit => OrchInv
    <2> SUFFICES ASSUME MultiRepoInit PROVE OrchInv
      OBVIOUS
    <2>1. /\ runs = [id \in RunId |-> Absent] /\ events = [id \in RunId |-> {}] /\ nodes = {} /\ deps = {}
          /\ wanted = {} /\ lfaults = 0 /\ task = [o \in Orchestrator |-> IdleTask]
      BY DEF MultiRepoInit, LedgerInit
    <2>2. Absent \in Row
      BY DEF Absent, Row
    <2>3. runs \in [RunId -> Row] /\ events = [id \in RunId |-> events[id]]
      BY <2>1, <2>2
    <2>4. Acyclic({})
      BY DEF Acyclic
    <2>5. \A o \in Orchestrator : events[o] = {} /\ task[o] = IdleTask
      BY <2>1, MultiRepoAssumption
    <2>6. ASSUME NEW o PROVE IdleTask \in SequenceOutcome(o)
      BY DEF IdleTask, SequenceOutcome
    <2>7. /\ IdleTask.todo = <<>> /\ IdleTask.ok = {} /\ IdleTask.bad = {} /\ IdleTask.pc = "idle"
          /\ ToSet(<<>>) = {}
      BY DEF IdleTask, ToSet
    <2>8. Sequenced(IdleTask, {})
      <3>1. Waiting({}, <<>>)
        BY DEF Waiting, ClosedUnder
      <3> QED BY <2>7, <3>1 DEF Sequenced
    <2>9. \A o \in Orchestrator : Told(IdleTask, {}, runs[o])
      BY <2>7 DEF Told
    <2>10. Sequenced(task["sequence"], deps)
      BY <2>1, <2>5, <2>8 DEF Orchestrator
    <2> QED BY <2>1, <2>3, <2>4, <2>5, <2>6, <2>9, <2>10, MultiRepoAssumption DEF OrchInv
  <1>2. OrchInv /\ [MultiRepoNext]_multiRepoVars => OrchInv'
    <2> SUFFICES ASSUME OrchInv, [MultiRepoNext]_multiRepoVars PROVE OrchInv'
      OBVIOUS
    <2>1. CASE UNCHANGED multiRepoVars
      <3>1. /\ runs' = runs /\ events' = events /\ nodes' = nodes /\ deps' = deps /\ task' = task
            /\ wanted' = wanted /\ lfaults' = lfaults
        BY <2>1 DEF multiRepoVars, ledger
      <3>2. \A o \in Orchestrator : SequenceOutcome(o)' = SequenceOutcome(o)
        BY DEF SequenceOutcome, ItemOf
      <3> QED BY <3>1, <3>2 DEF OrchInv
    <2>2. CASE MultiRepoNext
      BY <2>2, GraphSteps, StartSteps, SkipSteps, BeginSteps, EndSteps, FinishSteps DEF MultiRepoNext
    <2> QED BY <2>1, <2>2
  <1>3. OrchInv => MultiRepoTypeOK /\ OrchestrationSound
    BY OrchInvIsSound
  <1> QED BY <1>1, <1>2, <1>3, PTL DEF MultiRepoSpec

-----------------------------------------------------------------------------
(* The commands of an agent.  A call writes a commit or a snapshot only by  *)
(* creating it, and what it keeps besides has the type of its place.        *)
Creates(c, coll, id) == c.op = "create" /\ c.coll = coll /\ c.key = id

CallTyped(c) ==
    /\ c.op # "create" => c.coll \notin {"commits", "snapshots"}
    /\ c.op = "edge" => IsGraphEdge(c.key)
    /\ c.op = "memory" => IsMemoryRecord(c.doc) /\ c.key = <<c.key[1], c.key[2]>>
    /\ c.op \in {"decision", "outcome"} => c.doc \in DecisionRecord

(* The calls that a task still has to make: the snapshot of a commit is     *)
(* among them, before the commit, unless it is stored.                      *)
Restorable(calls, stored) ==
    /\ calls \in Seq(ToSet(calls))
    /\ \A i \in DOMAIN calls : CallTyped(calls[i])
    /\ \A i \in DOMAIN calls : \A id :
          Creates(calls[i], "commits", id) =>
             id \in stored \/ \E j \in 1..(i - 1) : Creates(calls[j], "snapshots", id)

WillCommit(calls, id) == \E i \in DOMAIN calls : Creates(calls[i], "commits", id)

(* A command: what it makes is stored, or a task will store it or failed.   *)
JobOK(k, D) ==
    /\ k = [tasks |-> k.tasks, failed |-> k.failed, made |-> k.made]
    /\ k.tasks = [t \in DOMAIN k.tasks |-> k.tasks[t]]
    /\ \A t \in DOMAIN k.tasks : Restorable(k.tasks[t], DOMAIN D["snapshots"])
    /\ \A id \in k.made :
          id \in DOMAIN D["commits"] \/ \E t \in DOMAIN k.tasks : t \in k.failed \/ WillCommit(k.tasks[t], id)

HandleInv ==
    /\ mode \in {"unset", "mesh", "local"} /\ docs = [c \in Collection |-> docs[c]]
    /\ edges \in Seq(ToSet(edges)) /\ \A i \in DOMAIN edges : IsGraphEdge(edges[i])
    /\ mode # "local" => \A i, j \in DOMAIN edges : edges[i] = edges[j] => i = j
    /\ IsFiniteSet(DOMAIN memories)
    /\ \A m \in DOMAIN memories : IsMemoryRecord(memories[m]) /\ m = <<m[1], m[2]>>
    /\ \A d \in DOMAIN decisions : decisions[d] \in DecisionRecord
    /\ mode = "unset" => memories = NoDocs /\ decisions = NoDocs

VcsInv ==
    /\ HandleInv /\ CommitHasSnapshot /\ acked \subseteq DOMAIN docs["commits"]
    /\ job = [w \in Worker |-> job[w]] /\ \A w \in Worker : JobOK(job[w], docs)
    /\ mode = "unset" => \A w \in Worker : job[w] = IdleJob
    /\ issued \in 0..MaxCommands /\ vfaults \in 0..VcsFaults

(* What a call does to the stored commits and snapshots. *)
LEMMA DocsGrow ==
    ASSUME HandleInv, NEW c, CallTyped(c)
    PROVE  LET after == DocsAfter(c)
           IN  /\ after = [x \in Collection |-> after[x]]
               /\ \A coll \in {"commits", "snapshots"} :
                     /\ DOMAIN docs[coll] \subseteq DOMAIN after[coll]
                     /\ \A id : id \in DOMAIN after[coll] <=> id \in DOMAIN docs[coll] \/ Creates(c, coll, id)
  <1> DEFINE after == DocsAfter(c)
             more == MeshCreate(docs[c.coll], c.key, c.doc)
  <1>1. docs = [x \in Collection |-> docs[x]] /\ {"commits", "snapshots"} \subseteq Collection
    BY DEF HandleInv, Collection
  <1>2. DOMAIN more = DOMAIN docs[c.coll] \cup {c.key}
    BY DEF MeshCreate, Inserted
  <1>3. CASE c.op = "edge" \/ (c.op # "create" /\ mode = "local")
    <2>1. after = docs
      BY <1>3 DEF DocsAfter
    <2>2. c.op # "create"
      BY <1>3
    <2> QED BY <1>1, <2>1, <2>2 DEF Creates
  <1>4. CASE ~ (c.op = "edge" \/ (c.op # "create" /\ mode = "local"))
    <2>1. after = [docs EXCEPT ![c.coll] = more]
      BY <1>4 DEF DocsAfter
    <2> HIDE DEF more, after
    <2>2. /\ after = [x \in Collection |-> after[x]]
          /\ \A x \in Collection : after[x] = IF x = c.coll THEN more ELSE docs[x]
      BY <1>1, <2>1
    <2>3. ASSUME NEW coll \in {"commits", "snapshots"}
          PROVE  /\ DOMAIN docs[coll] \subseteq DOMAIN after[coll]
                 /\ \A id : id \in DOMAIN after[coll] <=> id \in DOMAIN docs[coll] \/ Creates(c, coll, id)
      <3>1. CASE coll = c.coll
        <4>1. c.op = "create"
          BY <3>1 DEF CallTyped
        <4>2. DOMAIN after[coll] = DOMAIN docs[coll] \cup {c.key}
          BY <1>1, <1>2, <2>2, <3>1
        <4> QED BY <3>1, <4>1, <4>2 DEF Creates
      <3>2. CASE coll # c.coll
        <4>1. after[coll] = docs[coll]
          BY <1>1, <2>2, <3>2
        <4> QED BY <3>2, <4>1 DEF Creates
      <3> QED BY <3>1, <3>2
    <2> QED BY <2>2, <2>3 DEF after
  <1> QED BY <1>3, <1>4

(* What a call does to the rest of the handle. *)
LEMMA HandleKept ==
    ASSUME HandleInv, NEW c, CallTyped(c), mode # "unset", mode' = mode,
           docs' = docs \/ docs' = DocsAfter(c), edges' = edges \/ edges' = EdgesAfter(c),
           memories' = memories \/ memories' = MemoriesAfter(c),
           decisions' = decisions \/ decisions' = DecisionsAfter(c)
    PROVE  HandleInv'
  <1>1. mode' \in {"unset", "mesh", "local"} /\ docs' = [x \in Collection |-> docs'[x]] /\ mode' # "unset"
    BY DocsGrow DEF HandleInv
  <1>2. /\ edges' \in Seq(ToSet(edges')) /\ \A i \in DOMAIN edges' : IsGraphEdge(edges'[i])
        /\ mode' = "mesh" => \A i, j \in DOMAIN edges' : edges'[i] = edges'[j] => i = j
    <2>1. /\ edges \in Seq(ToSet(edges)) /\ \A i \in DOMAIN edges : IsGraphEdge(edges[i])
          /\ mode = "mesh" => \A i, j \in DOMAIN edges : edges[i] = edges[j] => i = j
      BY DEF HandleInv
    <2>2. CASE edges' = edges
      BY <2>1, <2>2
    <2>3. CASE edges' # edges
      <3> DEFINE n == Len(edges)
                 more == Append(edges, c.key)
      <3>1. /\ c.op = "edge" /\ edges' = more
            /\ mode = "mesh" => \A i \in DOMAIN edges : edges[i] # c.key
        BY <2>3 DEF EdgesAfter
      <3>2. IsGraphEdge(c.key)
        BY <3>1 DEF CallTyped
      <3>3. n \in Nat /\ DOMAIN edges = 1..n
        BY <2>1
      <3>4. DOMAIN more = 1..(n + 1) /\ more[n + 1] = c.key /\ \A i \in 1..n : more[i] = edges[i]
        BY <2>1
      <3>5. more \in Seq(ToSet(more))
        <4>1. more = [i \in 1..(n + 1) |-> more[i]]
          BY <2>1, <3>4
        <4>2. \A i \in 1..(n + 1) : more[i] \in ToSet(more)
          BY <3>4 DEF ToSet
        <4> HIDE DEF more, n
        <4>3. more \in [1..(n + 1) -> ToSet(more)]
          BY <4>1, <4>2
        <4> QED BY <3>3, <4>3
      <3> HIDE DEF n, more
      <3>6. \A i \in 1..(n + 1) : i \in 1..n \/ i = n + 1
        BY <3>3
      <3> QED BY <2>1, <3>1, <3>2, <3>3, <3>4, <3>5, <3>6
    <2> QED BY <2>2, <2>3
  <1>3. /\ IsFiniteSet(DOMAIN memories')
        /\ \A m \in DOMAIN memories' : IsMemoryRecord(memories'[m]) /\ m = <<m[1], m[2]>>
    <2>1. /\ IsFiniteSet(DOMAIN memories)
          /\ \A m \in DOMAIN memories : IsMemoryRecord(memories[m]) /\ m = <<m[1], m[2]>>
      BY DEF HandleInv
    <2>2. CASE memories' = memories
      BY <2>1, <2>2
    <2>3. CASE memories' # memories
      <3>1. c.op = "memory" /\ memories' = Inserted(memories, c.key, c.doc)
        BY <2>3 DEF MemoriesAfter
      <3>2. IsMemoryRecord(c.doc) /\ c.key = <<c.key[1], c.key[2]>>
        BY <3>1 DEF CallTyped
      <3>3. /\ DOMAIN memories' = DOMAIN memories \cup {c.key}
            /\ \A m \in DOMAIN memories' : memories'[m] = IF m = c.key THEN c.doc ELSE memories[m]
        BY <3>1 DEF Inserted
      <3>4. IsFiniteSet(DOMAIN memories')
        BY <2>1, <3>3, FS_AddElement
      <3>5. ASSUME NEW m \in DOMAIN memories' PROVE IsMemoryRecord(memories'[m]) /\ m = <<m[1], m[2]>>
        <4>1. CASE m = c.key
          BY <3>2, <3>3, <4>1
        <4>2. CASE m # c.key
          BY <2>1, <3>3, <4>2
        <4> QED BY <4>1, <4>2
      <3> QED BY <3>4, <3>5
    <2> QED BY <2>2, <2>3
  <1>4. \A d \in DOMAIN decisions' : decisions'[d] \in DecisionRecord
    <2>1. \A d \in DOMAIN decisions : decisions[d] \in DecisionRecord
      BY DEF HandleInv
    <2>2. CASE decisions' = decisions
      BY <2>1, <2>2
    <2>3. CASE decisions' # decisions
      <3>1. c.op \in {"decision", "outcome"} /\ decisions' = Inserted(decisions, c.key, c.doc)
        BY <2>3 DEF DecisionsAfter
      <3>2. c.doc \in DecisionRecord
        BY <3>1 DEF CallTyped
      <3>3. /\ DOMAIN decisions' = DOMAIN decisions \cup {c.key}
            /\ \A m \in DOMAIN decisions' : decisions'[m] = IF m = c.key THEN c.doc ELSE decisions[m]
        BY <3>1 DEF Inserted
      <3> QED BY <2>1, <3>2, <3>3
    <2> QED BY <2>2, <2>3
  <1> QED BY <1>1, <1>2, <1>3, <1>4 DEF HandleInv

(* More stored commits and snapshots only help. *)
LEMMA JobGrows ==
    ASSUME NEW k, NEW D, NEW E, JobOK(k, D), DOMAIN D["commits"] \subseteq DOMAIN E["commits"],
           DOMAIN D["snapshots"] \subseteq DOMAIN E["snapshots"]
    PROVE  JobOK(k, E)
  <1>1. \A t \in DOMAIN k.tasks : Restorable(k.tasks[t], DOMAIN E["snapshots"])
    BY DEF JobOK, Restorable
  <1> QED BY <1>1 DEF JobOK

(* The first call of a task writes no commit that could not be restored,    *)
(* and after it the task is as it must be.                                  *)
LEMMA TaskTail ==
    ASSUME NEW calls, NEW stored, NEW more, Restorable(calls, stored), calls # <<>>, stored \subseteq more,
           \A id : Creates(Head(calls), "snapshots", id) => id \in more
    PROVE  /\ CallTyped(Head(calls))
           /\ \A id : Creates(Head(calls), "commits", id) => id \in stored
           /\ Restorable(Tail(calls), more)
           /\ \A id : WillCommit(calls, id) => WillCommit(Tail(calls), id) \/ Creates(Head(calls), "commits", id)
  <1> DEFINE n == Len(calls)
             g == Tail(calls)
  <1>1. /\ calls \in Seq(ToSet(calls)) /\ \A i \in DOMAIN calls : CallTyped(calls[i])
        /\ \A i \in DOMAIN calls : \A id :
              Creates(calls[i], "commits", id) =>
                 id \in stored \/ \E j \in 1..(i - 1) : Creates(calls[j], "snapshots", id)
    BY DEF Restorable
  <1>2. n \in Nat \ {0} /\ DOMAIN calls = 1..n /\ Head(calls) = calls[1]
    BY <1>1, EmptySeq
  <1>3. /\ g \in Seq(ToSet(calls)) /\ DOMAIN g = 1..(n - 1)
        /\ \A i \in 1..(n - 1) : g[i] = calls[i + 1]
    BY <1>1, HeadTailProperties
  <1>4. 1 \in 1..n /\ \A i \in 1..(n - 1) : i + 1 \in 1..n
    BY <1>2
  <1> HIDE DEF g, n
  <1>5. \A id : Creates(Head(calls), "commits", id) => id \in stored
    BY <1>1, <1>2, <1>4
  <1>6. g \in Seq(ToSet(g))
    <2>1. \A i \in 1..(n - 1) : g[i] \in ToSet(g)
      BY <1>3 DEF ToSet
    <2>2. n - 1 \in Nat /\ g = [i \in 1..(n - 1) |-> g[i]]
      BY <1>2, <1>3
    <2>3. g \in [1..(n - 1) -> ToSet(g)]
      BY <2>1, <2>2
    <2> QED BY <2>2, <2>3
  <1>7. ASSUME NEW i \in DOMAIN g, NEW id, Creates(g[i], "commits", id)
        PROVE  id \in more \/ \E j \in 1..(i - 1) : Creates(g[j], "snapshots", id)
    <2>1. i \in 1..(n - 1) /\ i + 1 \in 1..n /\ Creates(calls[i + 1], "commits", id)
      BY <1>3, <1>4, <1>7
    <2>2. id \in stored \/ \E j \in 1..((i + 1) - 1) : Creates(calls[j], "snapshots", id)
      BY <1>1, <1>2, <2>1
    <2>3. CASE id \in stored
      BY <2>3
    <2>4. ASSUME NEW j \in 1..((i + 1) - 1), Creates(calls[j], "snapshots", id)
          PROVE  id \in more \/ \E k \in 1..(i - 1) : Creates(g[k], "snapshots", id)
      <3>1. CASE j = 1
        BY <1>2, <2>4, <3>1
      <3>2. CASE j # 1
        <4>1. j - 1 \in 1..(i - 1) /\ j - 1 \in 1..(n - 1) /\ (j - 1) + 1 = j
          BY <1>2, <2>1, <2>4, <3>2
        <4>2. g[j - 1] = calls[j]
          BY <1>3, <4>1
        <4> QED BY <2>4, <4>1, <4>2
      <3> QED BY <3>1, <3>2
    <2> QED BY <2>2, <2>3, <2>4
  <1>8. Restorable(g, more)
    BY <1>1, <1>2, <1>3, <1>4, <1>6, <1>7 DEF Restorable
  <1>9. ASSUME NEW id, WillCommit(calls, id) PROVE WillCommit(g, id) \/ Creates(Head(calls), "commits", id)
    <2>1. PICK i \in 1..n : Creates(calls[i], "commits", id)
      BY <1>2, <1>9 DEF WillCommit
    <2>2. CASE i = 1
      BY <1>2, <2>1, <2>2
    <2>3. CASE i # 1
      <3>1. i - 1 \in 1..(n - 1) /\ (i - 1) + 1 = i
        BY <1>2, <2>1, <2>3
      <3>2. i - 1 \in DOMAIN g /\ g[i - 1] = calls[i]
        BY <1>3, <3>1
      <3> QED BY <2>1, <3>2 DEF WillCommit
    <2> QED BY <2>2, <2>3
  <1> QED BY <1>1, <1>2, <1>4, <1>5, <1>8, <1>9 DEF g

(* Calls that create nothing may come first. *)
LEMMA CallsBefore ==
    ASSUME NEW pre, pre \in Seq(ToSet(pre)), NEW calls, NEW stored, Restorable(calls, stored),
           \A i \in DOMAIN pre : pre[i].op # "create" /\ CallTyped(pre[i])
    PROVE  /\ Restorable(pre \o calls, stored)
           /\ \A id : WillCommit(calls, id) => WillCommit(pre \o calls, id)
  <1> DEFINE all == pre \o calls
             p == Len(pre)
             n == Len(calls)
  <1>1. /\ calls \in Seq(ToSet(calls)) /\ \A i \in DOMAIN calls : CallTyped(calls[i])
        /\ \A i \in DOMAIN calls : \A id :
              Creates(calls[i], "commits", id) =>
                 id \in stored \/ \E j \in 1..(i - 1) : Creates(calls[j], "snapshots", id)
    BY DEF Restorable
  <1>2. p \in Nat /\ n \in Nat /\ DOMAIN pre = 1..p /\ DOMAIN calls = 1..n
    BY <1>1
  <1>3. /\ DOMAIN all = 1..(p + n) /\ all = [i \in 1..(p + n) |-> all[i]]
        /\ \A i \in 1..p : all[i] = pre[i]
        /\ \A i \in 1..n : p + i \in 1..(p + n) /\ all[p + i] = calls[i]
    <2> DEFINE X == ToSet(pre) \cup ToSet(calls)
    <2>1. pre \in Seq(X) /\ calls \in Seq(X)
      BY <1>1
    <2> HIDE DEF X
    <2>2. \A i \in 1..p : i \in 1..(p + n)
      BY <1>2
    <2>3. \A i \in 1..n : p + i \in 1..(p + n) /\ p + i > p /\ (p + i) - p = i
      BY <1>2
    <2>4. all \in Seq(X) /\ DOMAIN all = 1..(p + n)
      BY <1>2, <2>1, ConcatProperties
    <2>5. \A i \in 1..(p + n) : all[i] = IF i <= p THEN pre[i] ELSE calls[i - p]
      BY <2>1, ConcatProperties
    <2> HIDE DEF all, p, n
    <2>6. all = [i \in 1..(p + n) |-> all[i]]
      BY <2>4
    <2>7. \A i \in 1..p : i <= p
      BY <1>2
    <2>8. \A i \in 1..n : ~ (p + i <= p)
      BY <1>2
    <2> QED BY <2>2, <2>3, <2>4, <2>5, <2>6, <2>7, <2>8
  <1> HIDE DEF all, p, n
  <1>4. ASSUME NEW i \in 1..(p + n)
        PROVE  i \in 1..p \/ (i - p \in 1..n /\ p + (i - p) = i)
    BY <1>2
  <1>5. all \in Seq(ToSet(all))
    <2>1. \A i \in 1..(p + n) : all[i] \in ToSet(all)
      BY <1>3 DEF ToSet
    <2>2. all \in [1..(p + n) -> ToSet(all)] /\ p + n \in Nat
      BY <1>2, <1>3, <2>1
    <2> QED BY <2>2
  <1>6. ASSUME NEW i \in DOMAIN all PROVE CallTyped(all[i])
    <2>1. CASE i \in 1..p
      BY <1>2, <1>3, <2>1
    <2>2. CASE i - p \in 1..n /\ p + (i - p) = i
      <3>1. all[i] = calls[i - p]
        BY <1>3, <2>2
      <3> QED BY <1>1, <1>2, <2>2, <3>1
    <2> QED BY <1>3, <1>4, <2>1, <2>2
  <1>7. ASSUME NEW i \in DOMAIN all, NEW id, Creates(all[i], "commits", id)
        PROVE  id \in stored \/ \E j \in 1..(i - 1) : Creates(all[j], "snapshots", id)
    <2>1. i - p \in 1..n /\ p + (i - p) = i
      BY <1>2, <1>3, <1>4, <1>7 DEF Creates
    <2>2. all[i] = calls[i - p]
      BY <1>3, <2>1
    <2>3. id \in stored \/ \E j \in 1..((i - p) - 1) : Creates(calls[j], "snapshots", id)
      BY <1>1, <1>2, <1>7, <2>1, <2>2
    <2>4. ASSUME NEW j \in 1..((i - p) - 1), Creates(calls[j], "snapshots", id)
          PROVE  \E m \in 1..(i - 1) : Creates(all[m], "snapshots", id)
      <3>1. p + j \in 1..(i - 1) /\ j \in 1..n
        BY <1>2, <2>1, <2>4
      <3>2. Creates(all[p + j], "snapshots", id)
        BY <1>3, <2>4, <3>1
      <3> QED BY <3>1, <3>2
    <2> QED BY <2>3, <2>4
  <1>8. ASSUME NEW id, WillCommit(calls, id) PROVE WillCommit(all, id)
    <2>1. PICK i \in 1..n : Creates(calls[i], "commits", id)
      BY <1>2, <1>8 DEF WillCommit
    <2>2. p + i \in DOMAIN all /\ Creates(all[p + i], "commits", id)
      BY <1>3, <2>1
    <2> QED BY <2>2 DEF WillCommit
  <1> QED BY <1>5, <1>6, <1>7, <1>8 DEF Restorable, all

(* snapshot, fork and merge write the snapshot before the commit. *)
LEMMA SnapshotCallsRestorable ==
    ASSUME NEW id, NEW s, NEW parents, parents \in Seq(ToSet(parents)), NEW kind \in EdgeType, NEW stored
    PROVE  LET calls == SnapshotCalls(id, s, parents, kind)
           IN  Restorable(calls, stored) /\ WillCommit(calls, id)
  <1> DEFINE first == SaveSnapshot(id, s)
             second == SaveCommit(id, parents)
             linkCalls == [i \in DOMAIN parents |-> SaveEdge(id, parents[i], kind)]
             calls == <<first, second>> \o linkCalls
             n == Len(parents)
  <1>1. n \in Nat /\ DOMAIN parents = 1..n
    OBVIOUS
  <1>2. /\ first.op = "create" /\ first.coll = "snapshots" /\ first.key = id
        /\ second.op = "create" /\ second.coll = "commits" /\ second.key = id
    BY DEF SaveSnapshot, SaveCommit, CreateCall
  <1>3. \A i \in 1..n : /\ linkCalls[i].op = "edge" /\ linkCalls[i].coll = "edges"
                        /\ linkCalls[i].key = <<id, parents[i], kind>>
    BY <1>1 DEF SaveEdge
  <1>4. \A i \in 1..n : IsGraphEdge(<<id, parents[i], kind>>)
    BY DEF IsGraphEdge
  <1>5. DOMAIN linkCalls = 1..n /\ linkCalls = [i \in 1..n |-> linkCalls[i]]
    BY <1>1
  <1> HIDE DEF first, second, linkCalls, n
  <1>6. linkCalls \in Seq(ToSet(linkCalls))
    <2>1. \A i \in 1..n : linkCalls[i] \in ToSet(linkCalls)
      BY <1>5 DEF ToSet
    <2>2. linkCalls \in [1..n -> ToSet(linkCalls)]
      BY <1>5, <2>1
    <2> QED BY <1>1, <2>2
  <1>7. Len(linkCalls) = n
    BY <1>1, <1>5, <1>6
  <1>8. /\ DOMAIN calls = 1..(2 + n) /\ calls = [i \in 1..(2 + n) |-> calls[i]]
        /\ calls[1] = first /\ calls[2] = second
        /\ \A i \in 1..n : calls[2 + i] = linkCalls[i]
    <2> DEFINE X == ToSet(linkCalls) \cup {first, second}
    <2>1. <<first, second>> \in Seq(X) /\ linkCalls \in Seq(X) /\ Len(<<first, second>>) = 2
      BY <1>6
    <2> HIDE DEF X
    <2> QED BY <1>1, <1>7, <2>1
  <1> HIDE DEF calls
  <1>9. calls \in Seq(ToSet(calls))
    <2>1. \A i \in 1..(2 + n) : calls[i] \in ToSet(calls)
      BY <1>8 DEF ToSet
    <2>2. calls \in [1..(2 + n) -> ToSet(calls)] /\ 2 + n \in Nat
      BY <1>1, <1>8, <2>1
    <2> QED BY <2>2
  <1>10. ASSUME NEW i \in 1..(2 + n)
         PROVE  i = 1 \/ i = 2 \/ (i - 2 \in 1..n /\ calls[i] = linkCalls[i - 2])
    <2>1. CASE i \in {1, 2}
      BY <2>1
    <2>2. CASE i \notin {1, 2}
      <3>1. i - 2 \in 1..n /\ 2 + (i - 2) = i
        BY <1>1, <2>2
      <3> QED BY <1>8, <3>1
    <2> QED BY <2>1, <2>2
  <1>11. ASSUME NEW i \in DOMAIN calls PROVE CallTyped(calls[i])
    <2>1. CASE i = 1
      BY <1>2, <1>8, <2>1 DEF CallTyped
    <2>2. CASE i = 2
      BY <1>2, <1>8, <2>2 DEF CallTyped
    <2>3. CASE i - 2 \in 1..n /\ calls[i] = linkCalls[i - 2]
      BY <1>3, <1>4, <2>3 DEF CallTyped
    <2> QED BY <1>8, <1>10, <2>1, <2>2, <2>3
  <1>12. ASSUME NEW i \in DOMAIN calls, NEW x, Creates(calls[i], "commits", x)
         PROVE  x \in stored \/ \E j \in 1..(i - 1) : Creates(calls[j], "snapshots", x)
    <2>1. i = 2
      BY <1>2, <1>3, <1>8, <1>10, <1>12 DEF Creates
    <2>2. x = id /\ Creates(calls[1], "snapshots", x) /\ 1 \in 1..(i - 1)
      BY <1>2, <1>8, <1>12, <2>1 DEF Creates
    <2> QED BY <2>2
  <1>13. 2 \in DOMAIN calls /\ Creates(calls[2], "commits", id)
    BY <1>1, <1>2, <1>8 DEF Creates
  <1>14. SnapshotCalls(id, s, parents, kind) = calls
    BY DEF SnapshotCalls, calls, first, second, linkCalls
  <1> QED BY <1>9, <1>11, <1>12, <1>13, <1>14 DEF Restorable, WillCommit

(* A command that is issued: each of its tasks can be made whole, and what  *)
(* it makes is written by one of them.                                      *)
LEMMA IssueKeeps ==
    ASSUME VcsInv, NEW w \in Worker, NEW tasks, NEW made, Issue(w, tasks, made),
           tasks = [t \in DOMAIN tasks |-> tasks[t]],
           \A t \in DOMAIN tasks : Restorable(tasks[t], DOMAIN docs["snapshots"]),
           \A id \in made : \E t \in DOMAIN tasks : WillCommit(tasks[t], id)
    PROVE  VcsInv'
  <1> DEFINE k == [tasks |-> tasks, failed |-> {}, made |-> made]
  <1>1. /\ mode # "unset" /\ issued < MaxCommands
        /\ job' = [job EXCEPT ![w] = k]
        /\ issued' = issued + 1
        /\ mode' = mode /\ docs' = docs /\ edges' = edges /\ memories' = memories /\ decisions' = decisions
        /\ acked' = acked /\ vfaults' = vfaults
    BY DEF Issue, handleVars
  <1>2. k.tasks = tasks /\ k.failed = {} /\ k.made = made
    OBVIOUS
  <1>3. JobOK(k, docs)
    BY <1>2 DEF JobOK
  <1> HIDE DEF k
  <1>4. HandleInv'
    BY <1>1 DEF VcsInv, HandleInv
  <1>5. CommitHasSnapshot' /\ acked' \subseteq DOMAIN docs'["commits"]
    BY <1>1 DEF VcsInv, CommitHasSnapshot
  <1>6. job' = [v \in Worker |-> job'[v]] /\ \A v \in Worker : job'[v] = IF v = w THEN k ELSE job[v]
    BY <1>1 DEF VcsInv
  <1>7. \A v \in Worker : JobOK(job'[v], docs')
    BY <1>1, <1>3, <1>6 DEF VcsInv
  <1>8. issued' \in 0..MaxCommands /\ vfaults' \in 0..VcsFaults
    BY <1>1, VcsAssumption DEF VcsInv
  <1> QED BY <1>1, <1>4, <1>5, <1>6, <1>7, <1>8 DEF VcsInv

(* The same for the commands of one task. *)
LEMMA OneTask ==
    ASSUME VcsInv, NEW w \in Worker, NEW calls, NEW made, Issue(w, <<calls>>, made),
           Restorable(calls, DOMAIN docs["snapshots"]), \A id \in made : WillCommit(calls, id)
    PROVE  VcsInv'
  <1> DEFINE tasks == <<calls>>
  <1>1. tasks = [t \in DOMAIN tasks |-> tasks[t]] /\ DOMAIN tasks = {1} /\ tasks[1] = calls
    OBVIOUS
  <1>2. Issue(w, tasks, made)
    OBVIOUS
  <1> HIDE DEF tasks
  <1>3. \A t \in DOMAIN tasks : Restorable(tasks[t], DOMAIN docs["snapshots"])
    BY <1>1
  <1>4. \A id \in made : \E t \in DOMAIN tasks : WillCommit(tasks[t], id)
    BY <1>1
  <1> QED BY <1>1, <1>2, <1>3, <1>4, IssueKeeps

(* A single call that writes no commit. *)
LEMMA HarmlessCall ==
    ASSUME NEW c, CallTyped(c), c.op = "create" => c.coll # "commits", NEW stored
    PROVE  Restorable(<<c>>, stored)
  <1> DEFINE calls == <<c>>
  <1>1. DOMAIN calls = {1} /\ calls[1] = c /\ calls \in Seq({c})
    OBVIOUS
  <1>2. ToSet(calls) = {c}
    BY <1>1 DEF ToSet
  <1> HIDE DEF calls
  <1>3. Restorable(calls, stored)
    BY <1>1, <1>2 DEF Restorable, Creates
  <1> QED BY <1>3 DEF calls

(* init. *)
LEMMA CmdInitKeeps == ASSUME VcsInv, NEW w \in Worker, CmdInit(w) PROVE VcsInv'
  <1> DEFINE c == SaveSnapshot(InitialCommit, "initial")
             d == SaveCommit(InitialCommit, <<>>)
             calls == <<c, d>>
  <1>1. Issue(w, <<calls>>, {InitialCommit})
    BY DEF CmdInit
  <1>2. /\ c.op = "create" /\ c.coll = "snapshots" /\ c.key = InitialCommit
        /\ d.op = "create" /\ d.coll = "commits" /\ d.key = InitialCommit
    BY DEF SaveSnapshot, SaveCommit, CreateCall
  <1> HIDE DEF c, d
  <1>3. DOMAIN calls = 1..2 /\ calls[1] = c /\ calls[2] = d /\ calls \in Seq({c, d})
    OBVIOUS
  <1>4. ToSet(calls) = {c, d}
    <2>1. 1 \in 1..2 /\ 2 \in 1..2 /\ \A i \in 1..2 : i = 1 \/ i = 2
      OBVIOUS
    <2> QED BY <1>3, <2>1 DEF ToSet
  <1> HIDE DEF calls
  <1>5. \A i \in DOMAIN calls : CallTyped(calls[i])
    BY <1>2, <1>3 DEF CallTyped
  <1>6. ASSUME NEW i \in DOMAIN calls, NEW id, Creates(calls[i], "commits", id)
        PROVE  \E j \in 1..(i - 1) : Creates(calls[j], "snapshots", id)
    <2>1. i = 2 /\ 1 \in 1..(i - 1)
      BY <1>2, <1>3, <1>6 DEF Creates
    <2> QED BY <1>2, <1>3, <1>6, <2>1 DEF Creates
  <1>7. Restorable(calls, DOMAIN docs["snapshots"])
    BY <1>3, <1>4, <1>5, <1>6 DEF Restorable
  <1>8. WillCommit(calls, InitialCommit)
    BY <1>2, <1>3 DEF WillCommit, Creates
  <1> QED BY <1>1, <1>7, <1>8, OneTask

(* snapshot and fork. *)
LEMMA CmdSnapshotKeeps ==
    ASSUME VcsInv, NEW w \in Worker, NEW in \in SnapshotInput, CmdSnapshot(w, in[1], in[2])
    PROVE  VcsInv'
  <1> DEFINE calls == SnapshotCalls(SnapshotId(in[1]), in[1], in[2], "normal")
  <1>1. Issue(w, <<calls>>, {SnapshotId(in[1])})
    BY DEF CmdSnapshot
  <1>2. in[2] \in Seq(ToSet(in[2])) /\ "normal" \in EdgeType
    BY VcsAssumption DEF EdgeType
  <1>3. Restorable(calls, DOMAIN docs["snapshots"]) /\ WillCommit(calls, SnapshotId(in[1]))
    BY <1>2, SnapshotCallsRestorable
  <1> HIDE DEF calls
  <1> QED BY <1>1, <1>3, OneTask

(* `fork`: a snapshot and a commit per branch, in tasks of their own. *)
LEMMA CmdForkKeeps ==
    ASSUME VcsInv, NEW w \in Worker, NEW p \in ForkInput, CmdFork(w, p)
    PROVE  VcsInv'
  <1> DEFINE s == docs["snapshots"][p]
             tasks == [i \in 1 .. ForkCount |-> SnapshotCalls(ForkId(p, i), s, <<p>>, "normal")]
             made == {ForkId(p, i) : i \in 1 .. ForkCount}
  <1>1. Issue(w, tasks, made)
    BY DEF CmdFork
  <1>2. <<p>> \in Seq(ToSet(<<p>>)) /\ "normal" \in EdgeType
    BY DEF EdgeType, ToSet
  <1>3. \A i \in 1 .. ForkCount : LET calls == SnapshotCalls(ForkId(p, i), s, <<p>>, "normal")
                                  IN  Restorable(calls, DOMAIN docs["snapshots"]) /\ WillCommit(calls, ForkId(p, i))
    BY <1>2, SnapshotCallsRestorable
  <1>4. tasks = [t \in DOMAIN tasks |-> tasks[t]] /\ DOMAIN tasks = 1..ForkCount
    OBVIOUS
  <1>5. \A i \in 1..ForkCount : Restorable(tasks[i], DOMAIN docs["snapshots"]) /\ WillCommit(tasks[i], ForkId(p, i))
    BY <1>3
  <1> HIDE DEF tasks
  <1>6. \A id \in made : \E t \in DOMAIN tasks : WillCommit(tasks[t], id)
    BY <1>4, <1>5
  <1>7. \A t \in DOMAIN tasks : Restorable(tasks[t], DOMAIN docs["snapshots"])
    BY <1>4, <1>5
  <1> HIDE DEF made
  <1> QED BY <1>1, <1>4, <1>6, <1>7, IssueKeeps

(* The memories a merge writes are memories, finitely many. *)
LEMMA MergedMemories ==
    ASSUME HandleInv, NEW a, NEW b, NEW merged \in SynthesizeMemory(a, b)
    PROVE  IsFiniteSet(DOMAIN merged) /\ \A k \in DOMAIN merged : IsMemoryRecord(merged[k])
  <1> DEFINE ma == GetMemories(a)
             mb == GetMemories(b)
             options(k) ==
                IF k \notin DOMAIN mb THEN {ma[k]}
                ELSE IF k \notin DOMAIN ma THEN {mb[k]}
                ELSE IF ma[k].text = mb[k].text THEN {ma[k]} ELSE ResolveConflict(ma[k], mb[k])
             keys == DOMAIN ma \cup DOMAIN mb
  <1>1. DOMAIN merged = keys /\ \A k \in keys : merged[k] \in options(k)
    BY DEF SynthesizeMemory
  <1>2. ASSUME NEW c
        PROVE  /\ IsFiniteSet(DOMAIN GetMemories(c))
               /\ \A k \in DOMAIN GetMemories(c) : IsMemoryRecord(GetMemories(c)[k])
    <2> DEFINE S == {n \in DOMAIN memories : n[1] = c}
               K == {m[2] : m \in S}
    <2>1. DOMAIN GetMemories(c) = K /\ \A k \in K : GetMemories(c)[k] = memories[<<c, k>>]
      BY DEF GetMemories
    <2>2. IsFiniteSet(S)
      BY FS_Subset DEF HandleInv
    <2>3. IsFiniteSet(K)
      <3> DEFINE f == [m \in S |-> m[2]]
      <3>1. f \in Surjection(S, K)
        BY DEF Surjection
      <3> QED BY <2>2, <3>1, FS_Surjection
    <2>4. ASSUME NEW k \in K PROVE IsMemoryRecord(memories[<<c, k>>])
      <3>1. PICK m \in DOMAIN memories : m[1] = c /\ m[2] = k
        OBVIOUS
      <3>2. m = <<m[1], m[2]>> /\ IsMemoryRecord(memories[m])
        BY DEF HandleInv
      <3>3. m = <<c, k>>
        BY <3>1, <3>2
      <3> QED BY <3>2, <3>3
    <2> QED BY <2>1, <2>3, <2>4
  <1>3. IsFiniteSet(keys)
    BY <1>2, FS_Union
  <1>4. ASSUME NEW x, NEW y, NEW m \in ResolveConflict(x, y) PROVE IsMemoryRecord(m)
    <2>1. PICK z : m = [text |-> z, meta |-> 3]
      BY DEF ResolveConflict
    <2>2. DOMAIN m = {"text", "meta"} /\ m.meta = 3
      BY <2>1
    <2> QED BY <2>2 DEF IsMemoryRecord
  <1>5. ASSUME NEW k \in keys PROVE IsMemoryRecord(merged[k])
    <2>1. merged[k] \in options(k)
      BY <1>1
    <2>2. k \in DOMAIN ma => IsMemoryRecord(ma[k])
      BY <1>2
    <2>3. k \in DOMAIN mb => IsMemoryRecord(mb[k])
      BY <1>2
    <2> HIDE DEF ma, mb
    <2> QED BY <1>4, <2>1, <2>2, <2>3
  <1> QED BY <1>1, <1>3, <1>5

(* SetToSeq of a finite set is a sequence. *)
LEMMA SetToSeqIsSeq == ASSUME NEW S, IsFiniteSet(S) PROVE SetToSeq(S) \in Seq(S)
  <1> DEFINE P(f) == f \in [1..Cardinality(S) -> S] /\ IsInjective(f)
  <1>1. Cardinality(S) \in Nat
    BY FS_CardinalityType
  <1>2. \E f : P(f)
    <2>1. PICK f : f \in [1..Cardinality(S) -> S] /\ \A i, j \in 1..Cardinality(S) : f[i] = f[j] => i = j
      <3>1. PICK n \in Nat : ExistsBijection(1..n, S)
        BY FS_NatBijection
      <3>2. n = Cardinality(S)
        BY <3>1, FS_CountingElements
      <3> QED BY <3>1, <3>2 DEF ExistsBijection, Bijection, Injection, Surjection, IsInjective
    <2> QED BY <2>1 DEF IsInjective
  <1>3. SetToSeq(S) = CHOOSE f \in [1..Cardinality(S) -> S] : IsInjective(f)
    BY DEF SetToSeq
  <1>4. SetToSeq(S) \in [1..Cardinality(S) -> S]
    BY <1>2, <1>3
  <1> QED BY <1>1, <1>4

(* `merge`: the merged state is saved before the commit with two parents. *)
LEMMA CmdMergeKeeps ==
    ASSUME VcsInv, NEW w \in Worker, NEW in \in MergeInput, CmdMerge(w, in[1], in[2])
    PROVE  VcsInv'
  <1> DEFINE a == in[1]
             b == in[2]
             id == MergeId(a, b)
  <1>1. PICK merged \in SynthesizeMemory(a, b) :
           LET keys == SetToSeq(DOMAIN merged)
           IN  Issue(w, <<[i \in DOMAIN keys |-> SaveMemory(id, keys[i], merged[keys[i]])]
                            \o SnapshotCalls(id, "merged", <<a, b>>, "merge")>>, {id})
    BY DEF CmdMerge
  <1> DEFINE keys == SetToSeq(DOMAIN merged)
             pre == [i \in DOMAIN keys |-> SaveMemory(id, keys[i], merged[keys[i]])]
             calls == SnapshotCalls(id, "merged", <<a, b>>, "merge")
             n == Len(keys)
  <1>2. IsFiniteSet(DOMAIN merged) /\ \A k \in DOMAIN merged : IsMemoryRecord(merged[k])
    BY MergedMemories DEF VcsInv
  <1>3. keys \in Seq(DOMAIN merged)
    BY <1>2, SetToSeqIsSeq
  <1>4. Issue(w, <<pre \o calls>>, {id})
    BY <1>1
  <1> HIDE DEF keys
  <1>5. n \in Nat /\ DOMAIN keys = 1..n /\ \A i \in 1..n : keys[i] \in DOMAIN merged
    BY <1>3
  <1>6. DOMAIN pre = 1..n /\ pre = [i \in 1..n |-> pre[i]]
    BY <1>5
  <1>7. \A i \in 1..n : /\ pre[i].op = "memory" /\ pre[i].coll = "memories"
                        /\ pre[i].key = <<id, keys[i]>> /\ pre[i].doc = merged[keys[i]]
    BY <1>5 DEF SaveMemory
  <1> HIDE DEF pre, n, id
  <1>8. \A i \in DOMAIN pre : pre[i].op # "create" /\ CallTyped(pre[i])
    BY <1>2, <1>5, <1>6, <1>7 DEF CallTyped
  <1>9. pre \in Seq(ToSet(pre))
    <2>1. \A i \in 1..n : pre[i] \in ToSet(pre)
      BY <1>6 DEF ToSet
    <2>2. pre \in [1..n -> ToSet(pre)]
      BY <1>6, <2>1
    <2> QED BY <1>5, <2>2
  <1>10. <<a, b>> \in Seq(ToSet(<<a, b>>)) /\ "merge" \in EdgeType
    <2>1. ToSet(<<a, b>>) = {a, b}
      <3> DEFINE s == <<a, b>>
      <3>1. DOMAIN s = 1..2 /\ s[1] = a /\ s[2] = b
        OBVIOUS
      <3>2. 1 \in 1..2 /\ 2 \in 1..2 /\ \A i \in 1..2 : i = 1 \/ i = 2
        OBVIOUS
      <3> HIDE DEF s
      <3>3. ToSet(s) = {a, b}
        BY <3>1, <3>2 DEF ToSet
      <3> QED BY <3>3 DEF s
    <2> QED BY <2>1 DEF EdgeType
  <1>11. Restorable(calls, DOMAIN docs["snapshots"]) /\ WillCommit(calls, id)
    BY <1>10, SnapshotCallsRestorable
  <1> HIDE DEF calls
  <1>12. Restorable(pre \o calls, DOMAIN docs["snapshots"]) /\ WillCommit(pre \o calls, id)
    BY <1>8, <1>9, <1>11, CallsBefore
  <1> DEFINE all == pre \o calls
  <1>13. Issue(w, <<all>>, {id}) /\ Restorable(all, DOMAIN docs["snapshots"]) /\ WillCommit(all, id)
    BY <1>4, <1>12
  <1> HIDE DEF all
  <1> QED BY <1>13, OneTask

(* The commands of one call, and forgetting. *)
LEMMA OneCallKeeps ==
    ASSUME VcsInv, NEW w \in Worker
    PROVE  /\ \A in \in MemoryInput : CmdRemember(w, in[1], in[2]) => VcsInv'
           /\ \A d \in DecisionInput : CmdDecide(w, d) => VcsInv'
           /\ \A in \in RecordInput : CmdRegister(w, in[1], in[2]) => VcsInv'
           /\ CmdDecisionOutcome(w) => VcsInv'
  <1>1. ASSUME NEW c, CallTyped(c), c.op = "create" => c.coll # "commits", Issue(w, << <<c>> >>, {})
        PROVE  VcsInv'
    <2> DEFINE calls == <<c>>
    <2>1. Restorable(calls, DOMAIN docs["snapshots"])
      BY <1>1, HarmlessCall
    <2>2. Issue(w, <<calls>>, {})
      BY <1>1
    <2> HIDE DEF calls
    <2> QED BY <2>1, <2>2, OneTask
  <1>2. ASSUME NEW in \in MemoryInput, CmdRemember(w, in[1], in[2]) PROVE VcsInv'
    <2> DEFINE m == [text |-> in[2], meta |-> 0]
               c == SaveMemory(in[1], "note", m)
    <2>1. Issue(w, << <<c>> >>, {})
      BY <1>2 DEF CmdRemember
    <2>2. DOMAIN m = {"text", "meta"} /\ m.meta = 0
      OBVIOUS
    <2>3. IsMemoryRecord(m)
      BY <2>2 DEF IsMemoryRecord
    <2> HIDE DEF m
    <2>4. c.op = "memory" /\ c.coll = "memories" /\ c.doc = m /\ c.key = <<in[1], "note">>
      BY DEF SaveMemory
    <2> HIDE DEF c
    <2>5. c.key = <<c.key[1], c.key[2]>>
      BY <2>4
    <2>6. CallTyped(c)
      BY <2>3, <2>4, <2>5 DEF CallTyped
    <2>7. c.op # "create"
      BY <2>4
    <2> QED BY <1>1, <2>1, <2>6, <2>7
  <1>3. ASSUME NEW d \in DecisionInput, CmdDecide(w, d) PROVE VcsInv'
    <2> DEFINE c == SaveDecision(issued, "open")
    <2>1. Issue(w, << <<c>> >>, {})
      BY <1>3 DEF CmdDecide
    <2>2. c.op = "decision" /\ c.coll = "decisions" /\ c.doc = "open"
      BY DEF SaveDecision
    <2> HIDE DEF c
    <2>3. CallTyped(c) /\ c.op # "create"
      BY <2>2 DEF CallTyped, DecisionRecord
    <2> QED BY <1>1, <2>1, <2>3
  <1>4. ASSUME NEW in \in RecordInput, CmdRegister(w, in[1], in[2]) PROVE VcsInv'
    <2> DEFINE c == CreateCall(in[1], in[2], in[2])
    <2>1. Issue(w, << <<c>> >>, {})
      BY <1>4 DEF CmdRegister
    <2>2. c.op = "create" /\ c.coll = in[1] /\ in[1] # "commits"
      BY VcsAssumption DEF CreateCall
    <2> HIDE DEF c
    <2>3. CallTyped(c) /\ (c.op = "create" => c.coll # "commits")
      BY <2>2 DEF CallTyped
    <2> QED BY <1>1, <2>1, <2>3
  <1>5. ASSUME CmdDecisionOutcome(w) PROVE VcsInv'
    <2>1. PICK id \in DOMAIN decisions : Issue(w, << <<UpdateOutcome(id, "outcome")>> >>, {})
      BY <1>5 DEF CmdDecisionOutcome
    <2> DEFINE c == UpdateOutcome(id, "outcome")
    <2>2. c.op = "outcome" /\ c.coll = "decisions" /\ c.doc = "outcome"
      BY DEF UpdateOutcome
    <2>3. Issue(w, << <<c>> >>, {})
      BY <2>1
    <2> HIDE DEF c
    <2>4. CallTyped(c) /\ c.op # "create"
      BY <2>2 DEF CallTyped, DecisionRecord
    <2> QED BY <1>1, <2>3, <2>4
  <1> QED BY <1>2, <1>3, <1>4, <1>5

(* Forgetting memories touches neither commits nor snapshots. *)
LEMMA CmdForgetKeeps == ASSUME VcsInv, NEW w \in Worker, CmdForget(w) PROVE VcsInv'
  <1>1. PICK gone : memories' = Without(memories, gone)
    BY DEF CmdForget, DeleteMemory, DeleteMemoryById
  <1>2. /\ mode # "unset" /\ issued < MaxCommands /\ issued' = issued + 1
        /\ mode' = mode /\ docs' = docs /\ edges' = edges /\ decisions' = decisions
        /\ job' = job /\ acked' = acked /\ vfaults' = vfaults
    BY DEF CmdForget, DeleteMemory, DeleteMemoryById
  <1>3. /\ DOMAIN memories' = DOMAIN memories \ gone
        /\ \A m \in DOMAIN memories' : memories'[m] = memories[m]
    BY <1>1 DEF Without
  <1>4. IsFiniteSet(DOMAIN memories')
    BY <1>3, FS_Subset DEF VcsInv, HandleInv
  <1>5. HandleInv'
    BY <1>2, <1>3, <1>4 DEF VcsInv, HandleInv
  <1>6. issued' \in 0..MaxCommands
    BY <1>2, VcsAssumption DEF VcsInv
  <1> QED BY <1>2, <1>5, <1>6 DEF VcsInv, CommitHasSnapshot

(* A call of a task, which goes on after it or stops: a commit is written   *)
(* only when its snapshot is stored.                                        *)
LEMMA CallKeeps ==
    ASSUME VcsInv, NEW w \in Worker, NEW i \in DOMAIN job[w].tasks, NEW c, Pending(w, i),
           c = Head(job[w].tasks[i]), docs' = docs \/ docs' = DocsAfter(c), edges' = edges \/ edges' = EdgesAfter(c),
           memories' = memories \/ memories' = MemoriesAfter(c),
           decisions' = decisions \/ decisions' = DecisionsAfter(c), mode' = mode,
           acked' = acked, issued' = issued, vfaults' \in 0..VcsFaults,
           (docs' = DocsAfter(c) /\ TaskAdvance(w, i)) \/ TaskStops(w, i)
    PROVE  VcsInv'
  <1> DEFINE k == job[w]
             calls == k.tasks[i]
             stored == DOMAIN docs["snapshots"]
             more == DOMAIN docs'["snapshots"]
  <1>1. /\ HandleInv /\ CommitHasSnapshot /\ JobOK(k, docs) /\ job = [v \in Worker |-> job[v]]
        /\ calls # <<>> /\ c = Head(calls)
    BY DEF VcsInv, Pending
  <1>2. mode # "unset"
    BY DEF VcsInv, IdleJob
  <1>3. /\ k = [tasks |-> k.tasks, failed |-> k.failed, made |-> k.made]
        /\ k.tasks = [t \in DOMAIN k.tasks |-> k.tasks[t]]
        /\ \A t \in DOMAIN k.tasks : Restorable(k.tasks[t], stored)
        /\ \A id \in k.made :
              id \in DOMAIN docs["commits"] \/ \E t \in DOMAIN k.tasks : t \in k.failed \/ WillCommit(k.tasks[t], id)
    BY <1>1 DEF JobOK
  <1>4. CallTyped(c) /\ \A id : Creates(c, "commits", id) => id \in stored
    <2>1. \A id : Creates(Head(calls), "snapshots", id) => id \in stored \cup {c.key}
      BY <1>1 DEF Creates
    <2>2. stored \subseteq stored \cup {c.key} /\ Restorable(calls, stored)
      BY <1>3
    <2> HIDE DEF calls, stored
    <2> QED BY <1>1, <2>1, <2>2, TaskTail
  <1>5. HandleInv'
    BY <1>1, <1>2, <1>4, HandleKept
  <1>6. \A coll \in {"commits", "snapshots"} :
           /\ DOMAIN docs[coll] \subseteq DOMAIN docs'[coll]
           /\ \A id : id \in DOMAIN docs'[coll] => id \in DOMAIN docs[coll] \/ Creates(c, coll, id)
    BY <1>1, <1>4, DocsGrow
  <1>7. docs' = DocsAfter(c) => \A coll \in {"commits", "snapshots"} : \A id :
                                   Creates(c, coll, id) => id \in DOMAIN docs'[coll]
    BY <1>1, <1>4, DocsGrow
  <1>8. CommitHasSnapshot' /\ acked' \subseteq DOMAIN docs'["commits"]
    BY <1>1, <1>4, <1>6 DEF CommitHasSnapshot, VcsInv
  <1>9. DOMAIN docs["commits"] \subseteq DOMAIN docs'["commits"] /\ stored \subseteq more
    BY <1>6
  <1>10. ASSUME NEW tail, NEW failed, Restorable(tail, more), k.failed \subseteq failed,
                \A id : WillCommit(calls, id) =>
                           WillCommit(tail, id) \/ id \in DOMAIN docs'["commits"] \/ i \in failed,
                job' = [job EXCEPT ![w] = [tasks |-> [k.tasks EXCEPT ![i] = tail],
                                           failed |-> failed, made |-> k.made]]
         PROVE  VcsInv'
    <2> DEFINE ts == [k.tasks EXCEPT ![i] = tail]
               l == [tasks |-> ts, failed |-> failed, made |-> k.made]
    <2>1. l.tasks = ts /\ l.failed = failed /\ l.made = k.made
      OBVIOUS
    <2>2. DOMAIN ts = DOMAIN k.tasks /\ \A t \in DOMAIN k.tasks : ts[t] = IF t = i THEN tail ELSE k.tasks[t]
      BY <1>3
    <2>3. ts = [t \in DOMAIN ts |-> ts[t]]
      OBVIOUS
    <2> HIDE DEF ts
    <2>4. \A t \in DOMAIN ts : Restorable(ts[t], more)
      <3>1. \A t \in DOMAIN k.tasks : Restorable(k.tasks[t], more)
        BY <1>3, <1>9 DEF Restorable
      <3> QED BY <1>10, <2>2, <3>1
    <2>5. ASSUME NEW id \in k.made, id \notin DOMAIN docs'["commits"]
          PROVE  \E t \in DOMAIN ts : t \in failed \/ WillCommit(ts[t], id)
      <3>1. PICK t \in DOMAIN k.tasks : t \in k.failed \/ WillCommit(k.tasks[t], id)
        BY <1>3, <1>9, <2>5
      <3>2. t \in failed \/ WillCommit(ts[t], id)
        BY <1>10, <2>2, <2>5, <3>1
      <3> QED BY <2>2, <3>2
    <2>6. JobOK(l, docs')
      BY <2>1, <2>3, <2>4, <2>5 DEF JobOK
    <2> HIDE DEF l
    <2>7. job' = [v \in Worker |-> job'[v]] /\ \A v \in Worker : job'[v] = IF v = w THEN l ELSE job[v]
      BY <1>1, <1>10 DEF l, ts
    <2>8. ASSUME NEW v \in Worker PROVE JobOK(job[v], docs')
      <3>1. JobOK(job[v], docs)
        BY DEF VcsInv
      <3> QED BY <1>9, <3>1, JobGrows
    <2> QED BY <1>2, <1>5, <1>8, <2>6, <2>7, <2>8 DEF VcsInv
  <1>11. CASE docs' = DocsAfter(c) /\ TaskAdvance(w, i)
    <2>1. /\ Restorable(Tail(calls), more)
          /\ \A id : WillCommit(calls, id) => WillCommit(Tail(calls), id) \/ Creates(c, "commits", id)
      <3>1. \A id : Creates(Head(calls), "snapshots", id) => id \in more
        BY <1>1, <1>7, <1>11
      <3>2. Restorable(calls, stored)
        BY <1>3
      <3> HIDE DEF calls, stored, more
      <3> QED BY <1>1, <1>9, <3>1, <3>2, TaskTail
    <2>2. job' = [job EXCEPT ![w] = [tasks |-> [k.tasks EXCEPT ![i] = Tail(calls)],
                                     failed |-> k.failed, made |-> k.made]]
      <3>1. job' = [job EXCEPT ![w] = [k EXCEPT !.tasks = [k.tasks EXCEPT ![i] = Tail(calls)]]]
        BY <1>11 DEF TaskAdvance
      <3> DEFINE ts == [k.tasks EXCEPT ![i] = Tail(calls)]
      <3> HIDE DEF ts
      <3>2. [k EXCEPT !.tasks = ts] = [tasks |-> ts, failed |-> k.failed, made |-> k.made]
        BY <1>3
      <3> QED BY <3>1, <3>2 DEF ts
    <2> HIDE DEF calls, k, more
    <2> QED BY <1>7, <1>10, <1>11, <2>1, <2>2
  <1>12. CASE TaskStops(w, i)
    <2>1. Restorable(<<>>, more)
      BY DEF Restorable
    <2>2. job' = [job EXCEPT ![w] = [tasks |-> [k.tasks EXCEPT ![i] = <<>>],
                                     failed |-> k.failed \cup {i}, made |-> k.made]]
      <3> DEFINE ts == [k.tasks EXCEPT ![i] = <<>>]
                 fs == k.failed \cup {i}
                 j == [job EXCEPT ![w].tasks[i] = <<>>]
                 m == [tasks |-> ts, failed |-> k.failed, made |-> k.made]
      <3>1. job' = [j EXCEPT ![w].failed = @ \cup {i}]
        BY <1>12 DEF TaskStops
      <3>2. j = [job EXCEPT ![w] = [k EXCEPT !.tasks = ts]]
        OBVIOUS
      <3> HIDE DEF ts, j
      <3>3. [k EXCEPT !.tasks = ts] = m
        BY <1>3
      <3>4. DOMAIN j = Worker /\ j[w] = m /\ j = [job EXCEPT ![w] = m]
        BY <1>1, <3>2, <3>3
      <3>5. m.failed = k.failed
        OBVIOUS
      <3>6. [m EXCEPT !.failed = fs] = [tasks |-> ts, failed |-> fs, made |-> k.made]
        OBVIOUS
      <3> HIDE DEF m, fs, k
      <3>7. job' = [j EXCEPT ![w] = [m EXCEPT !.failed = m.failed \cup {i}]]
        BY <3>1, <3>4
      <3>8. m.failed \cup {i} = fs
        BY <3>5 DEF fs
      <3>9. job' = [j EXCEPT ![w] = [tasks |-> ts, failed |-> fs, made |-> k.made]]
        BY <3>6, <3>7, <3>8
      <3>10. job = [v \in Worker |-> job[v]]
        BY <1>1
      <3> DEFINE l == [tasks |-> ts, failed |-> fs, made |-> k.made]
      <3>11. job' = [j EXCEPT ![w] = l]
        BY <3>9
      <3> HIDE DEF l
      <3>12. job' = [job EXCEPT ![w] = l]
        BY <3>4, <3>10, <3>11
      <3> QED BY <3>12 DEF ts, fs, l
    <2> HIDE DEF calls, k, more
    <2> DEFINE none == <<>>
               fs == k.failed \cup {i}
    <2>3. /\ Restorable(none, more) /\ k.failed \subseteq fs /\ i \in fs
          /\ job' = [job EXCEPT ![w] = [tasks |-> [k.tasks EXCEPT ![i] = none], failed |-> fs, made |-> k.made]]
      BY <2>1, <2>2
    <2> HIDE DEF none, fs
    <2>4. \A id : WillCommit(calls, id) => WillCommit(none, id) \/ id \in DOMAIN docs'["commits"] \/ i \in fs
      BY <2>3
    <2> QED BY <1>10, <2>3, <2>4
  <1> QED BY <1>11, <1>12

(* A task makes its next call, which may fail or be lost. *)
LEMMA TaskKeeps ==
    ASSUME VcsInv, NEW w \in Worker, NEW i \in DOMAIN job[w].tasks, TaskCall(w, i) \/ TaskCallLost(w, i)
    PROVE  VcsInv'
  <1> DEFINE c == Head(job[w].tasks[i])
  <1>1. vfaults \in 0..VcsFaults
    BY DEF VcsInv
  <1>2. CASE TaskCall(w, i)
    <2>1. /\ Pending(w, i) /\ acked' = acked /\ issued' = issued /\ vfaults' = vfaults
          /\ \/ CallSucceeds(c) /\ TaskAdvance(w, i)
             \/ TaskStops(w, i) /\ UNCHANGED handleVars
      BY <1>2 DEF TaskCall
    <2>2. CASE CallSucceeds(c) /\ TaskAdvance(w, i)
      <3>1. /\ docs' = DocsAfter(c) /\ edges' = EdgesAfter(c)
            /\ memories' = MemoriesAfter(c) /\ decisions' = DecisionsAfter(c) /\ mode' = mode
        BY <2>2 DEF CallSucceeds
      <3> QED BY <1>1, <2>1, <2>2, <3>1, CallKeeps
    <2>3. CASE TaskStops(w, i) /\ UNCHANGED handleVars
      <3>1. docs' = docs /\ edges' = edges /\ memories' = memories /\ decisions' = decisions /\ mode' = mode
        BY <2>3 DEF handleVars
      <3> QED BY <1>1, <2>1, <2>3, <3>1, CallKeeps
    <2> QED BY <2>1, <2>2, <2>3
  <1>3. CASE TaskCallLost(w, i)
    <2>1. /\ Pending(w, i) /\ vfaults < VcsFaults /\ CallLost(c) /\ TaskStops(w, i)
          /\ vfaults' = vfaults + 1 /\ acked' = acked /\ issued' = issued
      BY <1>3 DEF TaskCallLost
    <2>2. /\ docs' = docs \/ docs' = DocsAfter(c)
          /\ edges' = edges \/ edges' = EdgesAfter(c)
          /\ memories' = MemoriesAfter(c)
          /\ decisions' = decisions \/ decisions' = DecisionsAfter(c)
          /\ mode' = mode
      BY <2>1 DEF CallLost
    <2>3. vfaults' \in 0..VcsFaults
      BY <1>1, <2>1, VcsAssumption
    <2> HIDE DEF c
    <2> QED BY <2>1, <2>2, <2>3, CallKeeps DEF c
  <1> QED BY <1>2, <1>3

(* A command returns Ok only when every task made all its calls, so that    *)
(* what it made is stored.                                                  *)
LEMMA ReturnKeeps == ASSUME VcsInv, NEW w \in Worker, CommandReturns(w) PROVE VcsInv'
  <1> DEFINE k == job[w]
  <1>1. /\ job' = [job EXCEPT ![w] = IdleJob]
        /\ mode' = mode /\ docs' = docs /\ edges' = edges /\ memories' = memories /\ decisions' = decisions
        /\ issued' = issued /\ vfaults' = vfaults
    BY DEF CommandReturns, handleVars
  <1>2. \/ (\A i \in DOMAIN k.tasks : ~Pending(w, i) /\ i \notin k.failed) /\ acked' = acked \cup k.made
        \/ acked' = acked
    BY DEF CommandReturns
  <1>3. acked' \subseteq DOMAIN docs'["commits"]
    <2>1. acked \subseteq DOMAIN docs["commits"] /\ JobOK(k, docs)
      BY DEF VcsInv
    <2>2. ASSUME \A i \in DOMAIN k.tasks : ~Pending(w, i) /\ i \notin k.failed, NEW id \in k.made
          PROVE  id \in DOMAIN docs["commits"]
      <3>1. \A i \in DOMAIN k.tasks : k.tasks[i] = <<>>
        BY <2>2 DEF Pending
      <3>2. \A i \in DOMAIN k.tasks : ~WillCommit(k.tasks[i], id)
        BY <3>1 DEF WillCommit
      <3> QED BY <2>1, <2>2, <3>2 DEF JobOK
    <2> QED BY <1>1, <1>2, <2>1, <2>2
  <1>4. JobOK(IdleJob, docs)
    BY DEF JobOK, IdleJob
  <1>5. job' = [v \in Worker |-> job'[v]] /\ \A v \in Worker : job'[v] = IF v = w THEN IdleJob ELSE job[v]
    BY <1>1 DEF VcsInv
  <1>6. HandleInv'
    BY <1>1 DEF VcsInv, HandleInv
  <1> QED BY <1>1, <1>3, <1>4, <1>5, <1>6 DEF VcsInv, CommitHasSnapshot

(* The process starts, ends and starts again. *)
LEMMA ProcessKeeps == ASSUME VcsInv, VcsSetup \/ VcsRestart PROVE VcsInv'
  <1>1. JobOK(IdleJob, docs')
    BY DEF JobOK, IdleJob
  <1>2. DOMAIN NoDocs = {} /\ IsFiniteSet({}) /\ \A m \in DOMAIN NoDocs : FALSE
    BY FS_EmptySet DEF NoDocs
  <1>3. CASE VcsSetup
    <2>1. /\ mode = "unset" /\ mode' \in {"mesh", "local"} /\ docs' = docs /\ edges' = edges
          /\ memories' = memories /\ decisions' = decisions
          /\ job' = job /\ acked' = acked /\ issued' = issued /\ vfaults' = vfaults
      BY <1>3 DEF VcsSetup, SetupFromEnv
    <2>2. HandleInv'
      BY <2>1 DEF VcsInv, HandleInv
    <2> QED BY <2>1, <2>2 DEF VcsInv, CommitHasSnapshot
  <1>4. CASE VcsRestart
    <2> DEFINE none == [c \in Collection |-> NoDocs]
    <2>1. /\ mode' = "unset" /\ memories' = NoDocs /\ decisions' = NoDocs /\ vfaults < VcsFaults
          /\ docs' = IF mode = "local" THEN none ELSE docs
          /\ edges' = IF mode = "local" THEN <<>> ELSE edges
          /\ job' = [w \in Worker |-> IdleJob] /\ acked' = (IF mode = "local" THEN {} ELSE acked)
          /\ vfaults' = vfaults + 1 /\ issued' = issued
      BY <1>4 DEF VcsRestart, HandleRestart
    <2>2. vfaults' \in 0..VcsFaults
      BY <2>1, VcsAssumption DEF VcsInv
    <2>3. none = [c \in Collection |-> none[c]] /\ none["commits"] = NoDocs /\ none["snapshots"] = NoDocs
      BY DEF Collection
    <2> HIDE DEF none
    <2>4. docs' = [c \in Collection |-> docs'[c]] /\ edges' \in Seq(ToSet(edges'))
      <3>1. docs = [c \in Collection |-> docs[c]] /\ edges \in Seq(ToSet(edges))
        BY DEF VcsInv, HandleInv
      <3>2. CASE mode = "local"
        <4>1. docs' = none /\ edges' = <<>>
          BY <2>1, <3>2
        <4> QED BY <2>3, <4>1
      <3>3. CASE mode # "local"
        <4>1. docs' = docs /\ edges' = edges
          BY <2>1, <3>3
        <4> QED BY <3>1, <4>1
      <3> QED BY <3>2, <3>3
    <2>5. /\ \A i \in DOMAIN edges' : IsGraphEdge(edges'[i])
          /\ \A i, j \in DOMAIN edges' : edges'[i] = edges'[j] => i = j
      BY <2>1 DEF VcsInv, HandleInv
    <2>6. HandleInv'
      BY <1>2, <2>1, <2>4, <2>5 DEF HandleInv
    <2>7. CommitHasSnapshot' /\ acked' \subseteq DOMAIN docs'["commits"]
      BY <1>2, <2>1, <2>3 DEF VcsInv, CommitHasSnapshot
    <2> QED BY <1>1, <2>1, <2>2, <2>6, <2>7 DEF VcsInv
  <1> QED BY <1>3, <1>4

(* Every step of the commands keeps the invariant. *)
LEMMA VcsStep == ASSUME VcsInv, [VcsNext]_vcsVars PROVE VcsInv'
  <1>1. CASE UNCHANGED vcsVars
    <2>1. /\ mode' = mode /\ docs' = docs /\ edges' = edges /\ memories' = memories /\ decisions' = decisions
          /\ job' = job /\ acked' = acked /\ issued' = issued /\ vfaults' = vfaults
      BY <1>1 DEF vcsVars, handleVars
    <2> QED BY <2>1 DEF VcsInv, HandleInv, CommitHasSnapshot
  <1>2. CASE VcsSetup \/ VcsRestart
    BY <1>2, ProcessKeeps
  <1>3. ASSUME NEW w \in Worker,
               \/ CmdInit(w) \/ CmdForget(w) \/ CmdDecisionOutcome(w) \/ CommandReturns(w)
               \/ \E d \in DecisionInput : CmdDecide(w, d)
               \/ \E in \in SnapshotInput : CmdSnapshot(w, in[1], in[2])
               \/ \E p \in ForkInput : CmdFork(w, p)
               \/ \E in \in MergeInput : CmdMerge(w, in[1], in[2])
               \/ \E in \in MemoryInput : CmdRemember(w, in[1], in[2])
               \/ \E in \in RecordInput : CmdRegister(w, in[1], in[2])
               \/ \E i \in DOMAIN job[w].tasks : TaskCall(w, i) \/ TaskCallLost(w, i)
        PROVE  VcsInv'
    BY <1>3, CmdInitKeeps, CmdForgetKeeps, OneCallKeeps, ReturnKeeps, CmdSnapshotKeeps, CmdForkKeeps,
       CmdMergeKeeps, TaskKeeps
  <1> QED BY <1>1, <1>2, <1>3 DEF VcsNext

(* Whatever the agents' commands do at once, and whichever calls fail, are   *)
(* lost or are cut short by the end of the process, a commit that can be     *)
(* found can be restored, and a command that returned Ok left its commits:   *)
(* snapshot, fork and merge write the snapshot before the commit, and        *)
(* nothing but the end of an in-process store removes either.                *)
THEOREM CommitsCanBeRestored == VcsSpec => [](VcsTypeOK /\ CommitHasSnapshot)
  <1>1. VcsInit => VcsInv
    <2> SUFFICES ASSUME VcsInit PROVE VcsInv
      OBVIOUS
    <2>1. /\ mode = "unset" /\ docs = [c \in Collection |-> NoDocs] /\ edges = <<>>
          /\ memories = NoDocs /\ decisions = NoDocs
          /\ job = [w \in Worker |-> IdleJob] /\ acked = {} /\ issued = 0 /\ vfaults = 0
      BY DEF VcsInit, HandleInit
    <2>2. DOMAIN NoDocs = {} /\ IsFiniteSet({})
      BY FS_EmptySet DEF NoDocs
    <2>3. JobOK(IdleJob, docs)
      BY DEF JobOK, IdleJob
    <2>4. docs = [c \in Collection |-> docs[c]] /\ docs["commits"] = NoDocs /\ docs["snapshots"] = NoDocs
      BY <2>1 DEF Collection
    <2>5. edges \in Seq(ToSet(edges)) /\ DOMAIN edges = {}
      BY <2>1
    <2>6. HandleInv
      BY <2>1, <2>2, <2>4, <2>5 DEF HandleInv
    <2> QED BY <2>1, <2>2, <2>3, <2>4, <2>6, VcsAssumption DEF VcsInv, CommitHasSnapshot
  <1>2. VcsInv /\ [VcsNext]_vcsVars => VcsInv'
    BY VcsStep
  <1>3. VcsInv => VcsTypeOK /\ CommitHasSnapshot
    BY DEF VcsInv, HandleInv, VcsTypeOK, HandleTypeOK
  <1> QED BY <1>1, <1>2, <1>3, PTL DEF VcsSpec
=============================================================================

------------------------------- MODULE MCCore -------------------------------
(***************************************************************************)
(* Instances for TLC of the parts of the core that share no state with one *)
(* another, the two users of the run ledger excepted.                      *)
(***************************************************************************)
EXTENDS VcsCommands, ReleaseRegistry, Hitl, MultiRepo, CiPipeline, PullRequests,
        RunDiffs, TraceStore, IssueGraph, AgentMemory, Planning, ReleaseGates, WorkTree, MCServices

CONSTANTS x, y, t1, t2, p1, p2

-----------------------------------------------------------------------------
(* The agent's commands: two states, a fork, a merge, a memory, a decision. *)
MCSnapshotInput == {<<x, <<>>>>, <<y, <<SnapshotId(x)>>>>}
MCForkInput == {SnapshotId(x)}
MCMergeInput == {<<SnapshotId(x), SnapshotId(y)>>}
MCMemoryInput == {<<SnapshotId(x), t1>>, <<SnapshotId(y), t2>>}
MCRecordInput == {<<"agents", "a">>}
MCDetail == [t \in {t1, t2} |-> IF t = t1 THEN 1 ELSE 2]
MCDecisionInput == {[source |-> "tool", confidence |-> 1, size |-> 1]}
MCRecorderConfig == [enabled |-> TRUE, events |-> TRUE, tools |-> TRUE, maxSize |-> 2]

(* Promoters whose clocks differ; an incomplete spec, and one whose digest *)
(* is not that of its components.                                          *)
SpecOf(c, d, e) == [components |-> c, digest |-> d, computed |-> e]
MCAgentSpec == {SpecOf("complete", "a", "a"), SpecOf("complete", "b", "b"),
                SpecOf("partial", "c", "c"), SpecOf("complete", "b", "d")}
MCSkew == [p \in {p1, p2} |-> IF p = p1 THEN 0 ELSE 2]

(* A label that two rules match, one that one matches, one that none does.  *)
MCLabel == {{"prod", "deploy"}, {"deploy"}, {}}
MCApprovalRules ==
    <<[pattern |-> "prod", tier |-> "critical", timeout |-> 2],
      [pattern |-> "deploy", tier |-> "high", timeout |-> 0]>>

MCBackportCommits == <<"c1", "c2", "c3">>
MCTargetBranches == <<"t1">>

(* A pipeline that runs a stage twice and skips one, and one with a stage   *)
(* nobody knows; a flaky failure and one of an unclear class.               *)
CiStage(n, k, e) == [name |-> n, known |-> k, enabled |-> e]
MCStageLists == {<<CiStage("fmt", TRUE, TRUE), CiStage("test", TRUE, FALSE), CiStage("fmt", TRUE, TRUE)>>,
                 <<CiStage("bogus", FALSE, TRUE)>>}
MCRecoveryPolicy ==
    {[maxAttempts |-> 2, maxFlaky |-> 1, patchForward |-> FALSE, rollback |-> TRUE]}
MCFailureSignals ==
    {[stage |-> {"test", "integration"}, message |-> {}, flaky |-> TRUE],
     [stage |-> {}, message |-> {"integration"}, flaky |-> FALSE]}

(* Calls of two tools with absent, null and real parameters, a call without *)
(* a name, a node and a checkpoint.                                         *)
EventOf(k, n, p) == [kind |-> k, name |-> n, payload |-> p]
MCEventInput ==
    {EventOf("tool_called", "t", <<>>), EventOf("tool_called", "t", "/p" :> "null"),
     EventOf("tool_called", "u", "/p" :> "x"), EventOf("tool_called", "none", <<>>),
     EventOf("checkpoint_saved", "n", "/p" :> "x" @@ "/checkpoint_id" :> "c"),
     EventOf("node_entered", "n", <<>>)}
GraphNode(i, p) == [id |-> i, prompt |-> p]
MCGraphInput ==
    {[entry |-> e, exits |-> q, nodes |-> n, edges |-> d, prompts |-> p] :
        e \in {"none", "n"}, q \in {<<>>, <<"n">>},
        n \in {<<>>, <<GraphNode("n", "none")>>, <<GraphNode("n", "p"), GraphNode("n", "q")>>},
        d \in {{}, {<<"n", "m">>}}, p \in {<<>>, "n" :> "p", "m" :> "q"}}
MCLeafMap == UNION {[S -> {"x", "null", "empty"}] : S \in SUBSET {"/a", "/b"}}

MCLinkNode == {[kind |-> "issue", id |-> 1], [kind |-> "pr", id |-> 1], [kind |-> "issue", id |-> 2]}

(* Memories that compete for a window of five tokens. *)
MemoryOf(i, k, t, r, g) == [id |-> i, key |-> k, tokens |-> t, relevance |-> r, tag |-> g]
MCEntryInput == {MemoryOf(1, "k", 1, 2, "k"), MemoryOf(2, "k", 3, 2, "j"),
                 MemoryOf(3, "j", 2, -1, "k"), MemoryOf(4, "j", 3, 1, "k")}
MCBudget == [max |-> 6, reserved |-> 1]
MCIndexPolicy == {[minTokens |-> Unlimited, maxAge |-> 1, maxEntries |-> 2],
                  [minTokens |-> 2, maxAge |-> Unlimited, maxEntries |-> 1]}
MCLogPolicy == {[maxAge |-> 1, perKey |-> Unlimited], [maxAge |-> Unlimited, perKey |-> 1]}

(* A commit of another client, with a path that leads out of the tree. *)
FileOf(d) == [digest |-> d, exec |-> FALSE]
MCForeignCommit == 1 :> (1 :> FileOf("x") @@ 9 :> FileOf("x"))

MCPolicy == [minConfidence |-> 50, maxBlocked |-> 0, onFailure |-> TRUE, maxStale |-> 1]

(* Versions around one release: pre-releases with numbers of one and two    *)
(* digits, names, and lists of different length.                            *)
Release(c, p) == [core |-> c, pre |-> p]
Number(n) == [numeric |-> TRUE, value |-> n]
Word(n) == [numeric |-> FALSE, value |-> n]
MCVersionInput ==
    {Release(-1, <<>>), Release(1, <<>>)}
      \cup {Release(2, p) : p \in {<<>>, <<Number(9)>>, <<Number(10)>>, <<Word(1)>>,
                                   <<Word(1), Number(2)>>, <<Word(1), Word(1)>>}}
Case(e, a, t) == [expected |-> e, actual |-> a, tags |-> t]
MCSuiteInput == {<<>>, <<Case("x", "x", {"smoke"}), Case("x", "y", {})>>,
                 <<Case("any", "y", {})>>, <<Case("x", "y", {"smoke"}), Case("x", "x", {})>>}
Check(c, p, s) == [check |-> c, passed |-> p, severity |-> s]
MCCheckInput ==
    {<<Check("fmt", TRUE, "none"), Check("lint", TRUE, "medium"), Check("test", FALSE, "none"),
       Check("test", TRUE, "low"), Check("verification", TRUE, "none")>>,
     <<Check("fmt", TRUE, "none"), Check("lint", TRUE, "none"), Check("test", TRUE, "high")>>,
     <<Check("fmt", TRUE, "none"), Check("lint", TRUE, "none"), Check("test", TRUE, "none"),
       Check("verification", TRUE, "none")>>}
Digests(s, t, g) == [spec |-> s, tools |-> t, graph |-> g]
MCDigestInput == {Digests("s1", "t", "g"), Digests("malformed", "t", "g"),
                  Digests("s1", "", "g"), Digests("s1", "t", "h")}
MCThresholds == [minPass |-> 50, maxRegression |-> 10, failFast |-> FALSE]

-----------------------------------------------------------------------------
(* One part at a time makes steps. *)
CONSTANT Part  (* the parts to explore *)

VARIABLE part

ciOwn == <<ci, recovery, recoveries, artifactDir>>
repoOwn == <<nodes, deps, task, wanted, lfaults>>

coreVars == <<part, vcsVars, releaseVars, hitlVars, ledger, repoOwn, ciOwn, requestVars,
              compared, traceVars, issueVars, memoryVars, planVars, gateVars,
              treeVars, registryVars, gatewayVars, loginVars, pipelineVars>>

CoreInit ==
    /\ part \in Part
    /\ VcsInit /\ ReleaseInit /\ HitlInit /\ MultiRepoInit /\ CiInit /\ DiffInit /\ TraceInit
    /\ IssueInit /\ MemoryInit /\ GatesInit /\ RegistryInit /\ GatewayInit
    /\ IF part = "tree" THEN TreeInit ELSE TreeInit /\ \A p \in {1, 2, 3} : here[p].content = "x"
    /\ IF part = "login" THEN LoginInit ELSE LoginInit /\ tokenFile = Unset
    /\ IF part = "pipeline" THEN PipelineInit
       ELSE PipelineInit /\ tree = TreeAt("v1", "written", TRUE)
    /\ IF part = "plan" THEN PlanInit
       ELSE plan = [tasks |-> {}, depends |-> <<>>] /\ dag = NoDag /\ hour = 0
    /\ IF part = "request" THEN RequestInit
       ELSE RequestInit /\ host = CHOOSE h \in Host : TRUE

(* The part p makes a step and the others stand still. *)
Only(p) ==
    /\ part = p
    /\ UNCHANGED part
    /\ IF p = "vcs" THEN TRUE ELSE UNCHANGED vcsVars
    /\ IF p = "release" THEN TRUE ELSE UNCHANGED releaseVars
    /\ IF p = "hitl" THEN TRUE ELSE UNCHANGED hitlVars
    /\ IF p \in {"repos", "ci"} THEN TRUE ELSE UNCHANGED ledger
    /\ IF p = "repos" THEN TRUE ELSE UNCHANGED repoOwn
    /\ IF p = "ci" THEN TRUE ELSE UNCHANGED ciOwn
    /\ IF p = "request" THEN TRUE ELSE UNCHANGED requestVars
    /\ IF p = "diff" THEN TRUE ELSE UNCHANGED compared
    /\ IF p = "trace" THEN TRUE ELSE UNCHANGED traceVars
    /\ IF p \in {"issue", "links"} THEN TRUE ELSE UNCHANGED issueVars
    /\ IF p \in {"index", "log"} THEN TRUE ELSE UNCHANGED memoryVars
    /\ IF p = "plan" THEN TRUE ELSE UNCHANGED planVars
    /\ IF p = "gates" THEN TRUE ELSE UNCHANGED gateVars
    /\ IF p = "tree" THEN TRUE ELSE UNCHANGED treeVars
    /\ IF p = "registry" THEN TRUE ELSE UNCHANGED registryVars
    /\ IF p = "gateway" THEN TRUE ELSE UNCHANGED gatewayVars
    /\ IF p = "login" THEN TRUE ELSE UNCHANGED loginVars
    /\ IF p = "pipeline" THEN TRUE ELSE UNCHANGED pipelineVars

VcsStep == Only("vcs") /\ VcsNext
ReleaseStep == Only("release") /\ ReleaseNext
HitlStep == Only("hitl") /\ HitlNext
ReposStep == Only("repos") /\ MultiRepoNext
CiStep == Only("ci") /\ CiNext
RequestStep == Only("request") /\ RequestNext
DiffStep == Only("diff") /\ DiffNext
TraceStep == Only("trace") /\ TraceNext
IssueStep == Only("issue") /\ IssueNext
LinkStep == Only("links") /\ LinkNext
IndexStep == Only("index") /\ IndexNext
LogStep == Only("log") /\ LogNext
PlanStep == Only("plan") /\ PlanNext
GatesStep == Only("gates") /\ GatesNext
TreeStep == Only("tree") /\ TreeNext
RegistryStep == Only("registry") /\ RegistryNext
GatewayStep == Only("gateway") /\ GatewayNext
LoginStep == Only("login") /\ LoginNext
PipelineStep == Only("pipeline") /\ PipelineNext

CoreNext ==
    \/ VcsStep \/ ReleaseStep \/ HitlStep \/ ReposStep \/ CiStep \/ RequestStep \/ DiffStep
    \/ TraceStep \/ IssueStep \/ LinkStep \/ IndexStep \/ LogStep \/ PlanStep \/ GatesStep
    \/ TreeStep \/ RegistryStep \/ GatewayStep \/ LoginStep \/ PipelineStep

(* The type invariants of the parts, each about the part that makes steps: *)
(* the records a part keeps are those the source declares, its dependency  *)
(* graphs have no cycles, its keys are unique and its counters within      *)
(* their bounds.                                                           *)
CoreTypeOK ==
    CASE part = "vcs" -> VcsTypeOK
      [] part = "release" -> ReleaseTypeOK
      [] part = "hitl" -> HitlTypeOK
      [] part = "repos" -> MultiRepoTypeOK
      [] part = "ci" -> CiTypeOK
      [] part = "request" -> RequestTypeOK
      [] part = "trace" -> TraceTypeOK
      [] part \in {"issue", "links"} -> IssueTypeOK
      [] part \in {"index", "log"} -> MemoryTypeOK
      [] part = "plan" -> PlanTypeOK
      [] part = "gates" -> GatesTypeOK
      [] part = "tree" -> TreeTypeOK
      [] part = "registry" -> RegistryTypeOK
      [] part = "gateway" -> GatewayTypeOK
      [] part = "login" -> LoginTypeOK
      [] part = "pipeline" -> PipelineTypeOK
      [] OTHER -> TRUE

(* The libraries against their reference definitions, for every pair of     *)
(* inputs and every state a caller brings them to: the diffs account for    *)
(* every change and agree with each other; the context is packed within its *)
(* budget, the same by both packers, and queries come in order.             *)
LibrariesMatch == DiffsSound /\ MemorySound

CoreSpec == CoreInit /\ [][CoreNext]_coreVars

=============================================================================

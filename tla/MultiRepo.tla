----------------------------- MODULE MultiRepo -----------------------------
(***************************************************************************)
(* Work across repositories: the dependency graph and its execution plan,  *)
(* and the orchestrators that record what they do as a run of the ledger:  *)
(* the release sequencer, the backport executor and the deploy runner.     *)
(* Each writes only to its own run, so append_event's reading and writing  *)
(* are one step here; any call may fail, which ends the orchestrator and   *)
(* leaves its run as it is.                                                *)
(***************************************************************************)
EXTENDS RunLedger, Sequences, FiniteSetsExt, SequencesExt

CONSTANTS Repo,          (* repository ids; the code orders them by name *)
          BackportCommits, CommitFilter, TargetBranches,  (* BackportPolicy *)
          FailFast,      (* BackportPolicy.fail_fast *)
          MaxEdges,      (* bound on dependencies *)
          LedgerFaults   (* bound on failing ledger calls *)

Orchestrator == {"sequence", "backport", "deploy"}

ASSUME MultiRepoAssumption ==
    /\ Repo \subseteq Nat /\ IsFiniteSet(Repo) /\ FailFast \in BOOLEAN /\ MaxEdges \in Nat
    /\ BackportCommits \in Seq(ToSet(BackportCommits))
    /\ TargetBranches \in Seq(ToSet(TargetBranches))
    /\ Orchestrator \subseteq RunId /\ LedgerFaults \in Nat

VARIABLES nodes, deps,   (* RepoDependencyGraph: <<dependency, dependent>> *)
          task,          (* orchestrator -> what it is doing *)
          wanted,        (* repositories with a pending release *)
          lfaults

multiRepoVars == <<ledger, nodes, deps, task, wanted, lfaults>>

IdleTask == [pc |-> "idle", todo |-> <<>>, no |-> 1, ok |-> {}, bad |-> {}, skip |-> {}]

MultiRepoInit ==
    /\ LedgerInit
    /\ nodes = {} /\ deps = {} /\ wanted = {} /\ lfaults = 0
    /\ task = [o \in Orchestrator |-> IdleTask]

-----------------------------------------------------------------------------
(* The graph.  *)
DependentsOf(edgesOf, r)  == {e[2] : e \in {f \in edgesOf : f[1] = r}}
DependenciesOf(edgesOf, r) == {e[1] : e \in {f \in edgesOf : f[2] = r}}

(* transitive_dependents_of: breadth first over downstream edges, here a   *)
(* layer at a time.                                                        *)
TransitiveDependentsOf(edgesOf, r) ==
    LET layer[n \in 0 .. Cardinality(Repo)] ==
            IF n = 0 THEN DependentsOf(edgesOf, r)
            ELSE LET seen == layer[n - 1]
                 IN  seen \cup UNION {DependentsOf(edgesOf, s) : s \in seen}
    IN  layer[Cardinality(Repo)]

(* find_cycle_through: does a path over the new edge lead back?            *)
FindCycleThrough(edgesOf, start) == start \in TransitiveDependentsOf(edgesOf, start)

(* RepoDependencyGraph: edges between nodes that were added, no cycle.     *)
IsDependencyGraph(repos, edgesOf) ==
    edgesOf \subseteq repos \X repos /\ \A r \in repos : ~FindCycleThrough(edgesOf, r)

Building == task["sequence"] = IdleTask

AddNode(r) ==
    /\ Building /\ r \notin nodes /\ nodes' = nodes \cup {r}
    /\ UNCHANGED <<ledger, deps, task, wanted, lfaults>>

(* add_dependency: the edge is added and rolled back when it closes a      *)
(* cycle.  A plausible bug does not look whether both nodes are there.     *)
AddDependencyUnchecked(dependency, dependent) ==
    LET added == deps \cup {<<dependency, dependent>>}
    IN  /\ Building /\ Cardinality(deps) < MaxEdges
        /\ deps' = IF FindCycleThrough(added, dependent) THEN deps ELSE added
        /\ UNCHANGED <<ledger, nodes, task, wanted, lfaults>>

AddDependency(dependency, dependent) ==
    LET added == deps \cup {<<dependency, dependent>>}
    IN  /\ Building /\ {dependency, dependent} \subseteq nodes
        /\ Cardinality(deps) < MaxEdges
        /\ deps' = IF FindCycleThrough(added, dependent) THEN deps ELSE added
        /\ UNCHANGED <<ledger, nodes, task, wanted, lfaults>>

(* sort_unstable on names that are all different.                          *)
SortUnstable(S) == [i \in 1 .. Cardinality(S) |->
                      CHOOSE r \in S : Cardinality({q \in S : q < r}) = i - 1]

(* Kahn's algorithm with a queue of <<repository, level>>: a dependent     *)
(* enters the queue with the last of its dependencies.                     *)
KahnRound(edgesOf, k) ==
    LET n == k.queue[1][1]
        done == {s[1] : s \in ToSet(k.sorted)} \cup {n}
        next == SortUnstable({d \in DependentsOf(edgesOf, n) : DependenciesOf(edgesOf, d) \subseteq done})
    IN  IF k.queue = <<>> THEN k
        ELSE [queue  |-> Tail(k.queue) \o [i \in DOMAIN next |-> <<next[i], k.queue[1][2] + 1>>],
              sorted |-> Append(k.sorted, k.queue[1])]

(* Every round takes another repository, so that there is no round after   *)
(* as many as there are repositories.                                      *)
Levelled(edgesOf, all) ==
    LET roots == SortUnstable({r \in all : DependenciesOf(edgesOf, r) = {}})
        kahn[n \in 0 .. Cardinality(all)] ==
            IF n = 0 THEN [queue |-> [i \in DOMAIN roots |-> <<roots[i], 0>>], sorted |-> <<>>]
            ELSE KahnRound(edgesOf, kahn[n - 1])
    IN  kahn[Cardinality(all)].sorted

(* topological_order.  *)
TopologicalOrder(edgesOf, all) ==
    LET steps == Levelled(edgesOf, all)
    IN  [i \in DOMAIN steps |-> steps[i][1]]

(* to_execution_plan: a repository that has its level to itself cannot run *)
(* in parallel.                                                            *)
ExecutionPlan(edgesOf, all) ==
    LET steps == Levelled(edgesOf, all)
    IN  [i \in DOMAIN steps |->
            [repo |-> steps[i][1],
             parallel |-> \E j \in DOMAIN steps : j # i /\ steps[j][2] = steps[i][2]]]

(* parallel_groups: a step joins the current group unless it depends on a  *)
(* member of it.  A plausible bug groups all adjacent parallel steps.      *)
JoinsAnyGroup(edgesOf, step, group) == step.parallel /\ group.parallel

JoinsGroup(edgesOf, step, group) ==
    step.parallel /\ group.parallel /\ DependenciesOf(edgesOf, step.repo) \cap group.repos = {}

Grouped(edgesOf, step, groups) ==
    IF groups # <<>> /\ JoinsGroup(edgesOf, step, groups[Len(groups)])
    THEN [groups EXCEPT ![Len(groups)].repos = @ \cup {step.repo}]
    ELSE Append(groups, [repos |-> {step.repo}, parallel |-> step.parallel])

ParallelGroups(edgesOf, all) ==
    LET steps == ExecutionPlan(edgesOf, all)
        groups[n \in 0 .. Len(steps)] ==
            IF n = 0 THEN <<>> ELSE Grouped(edgesOf, steps[n], groups[n - 1])
    IN  groups[Len(steps)]

-----------------------------------------------------------------------------
(* Orchestrators.  build_plan takes every repository in topological order; *)
(* those without a release are skipped.  resolve_tasks gives each commit   *)
(* that passes the filter for each target; run_at has three fixed events.  *)
ResolveTasks ==
    LET tasks[n \in 0 .. Len(BackportCommits)] ==
            IF n = 0 THEN <<>>
            ELSE IF BackportCommits[n] \notin CommitFilter THEN tasks[n - 1]
            ELSE tasks[n - 1] \o [i \in DOMAIN TargetBranches |->
                                     <<BackportCommits[n], TargetBranches[i]>>]
    IN  tasks[Len(BackportCommits)]

DeployEvents == <<"started", "executed", "completed">>

Plan(o) ==
    CASE o = "sequence" -> TopologicalOrder(deps, nodes)
      [] o = "backport" -> ResolveTasks
      [] o = "deploy"   -> DeployEvents

(* What an orchestrator works on, and SequenceOutcome or its counterpart.  *)
ItemOf(o) ==
    CASE o = "sequence" -> Repo
      [] o = "backport" -> ToSet(BackportCommits) \X ToSet(TargetBranches)
      [] o = "deploy"   -> ToSet(DeployEvents)

SequenceOutcome(o) ==
    [pc : {"idle", "next", "work", "ok", "error"}, todo : Seq(ItemOf(o)), no : Nat \ {0},
     ok : SUBSET ItemOf(o), bad : SUBSET ItemOf(o), skip : SUBSET Repo]

OverallSuccess(o) == task[o].bad = {}

(* RepoReleaseStatus of a repository in the sequence: one without a         *)
(* release is skipped from the start, another when its turn comes.          *)
RepoReleaseStatus(r) ==
    LET t == task["sequence"]
    IN  CASE r \in t.ok   -> "succeeded"
          [] r \in t.bad  -> "failed"
          [] r \notin wanted \/ r \in t.skip \ ToSet(t.todo) -> "skipped"
          [] t.pc = "work" /\ t.todo[1] = r -> "in_progress"
          [] OTHER -> "pending"

CallFailing == lfaults < LedgerFaults /\ lfaults' = lfaults + 1

Errs(o) == task' = [task EXCEPT ![o].pc = "error"]

(* GraphRunRecorder::start.  The orchestrators share nothing but the       *)
(* ledger's tables, so one of them at a time is looked at.                 *)
StartRun(o) ==
    /\ \A p \in Orchestrator : task[p] = IdleTask
    /\ wanted' \in IF o = "sequence" THEN SUBSET nodes ELSE {wanted}
    /\ \/ /\ InsertRun(o)
          /\ task' = [task EXCEPT ![o].pc = "next", ![o].todo = Plan(o)]
          /\ UNCHANGED lfaults
       \/ CallFailing /\ Errs(o) /\ (InsertRun(o) \/ UNCHANGED runs)
    /\ UNCHANGED <<events, nodes, deps>>

Skips(o, item) == o = "sequence" /\ (item \in task[o].skip \/ item \notin wanted)

SkipItem(o) ==
    /\ task[o].pc = "next" /\ task[o].todo # <<>> /\ Skips(o, task[o].todo[1])
    /\ task' = [task EXCEPT ![o].todo = Tail(@)]
    /\ UNCHANGED <<ledger, nodes, deps, wanted, lfaults>>

(* One append_event, and where the orchestrator goes after it.             *)
Recorded(o, event, after) ==
    /\ \/ InsertEvent(o, task[o].no, event) /\ task' = [task EXCEPT ![o] = after] /\ UNCHANGED lfaults
       \/ CallFailing /\ Errs(o) /\ (InsertEvent(o, task[o].no, event) \/ UNCHANGED events)
    /\ UNCHANGED <<runs, nodes, deps, wanted>>

(* NodeEntered, ToolCalled, or an event of the deploy runner, which has no *)
(* work to do in between.  A plausible bug numbers the two events of an    *)
(* item alike; the ledger drops the second in silence.                     *)
BeginItemUnnumbered(o) ==
    /\ task[o].pc = "next" /\ task[o].todo # <<>> /\ ~Skips(o, task[o].todo[1])
    /\ Recorded(o, <<"begin", task[o].todo[1]>>,
                IF o = "deploy" THEN [task[o] EXCEPT !.no = @ + 1, !.todo = Tail(@)]
                ELSE [task[o] EXCEPT !.pc = "work"])

BeginItem(o) ==
    /\ task[o].pc = "next" /\ task[o].todo # <<>> /\ ~Skips(o, task[o].todo[1])
    /\ Recorded(o, <<"begin", task[o].todo[1]>>,
                IF o = "deploy" THEN [task[o] EXCEPT !.no = @ + 1, !.todo = Tail(@)]
                ELSE [task[o] EXCEPT !.no = @ + 1, !.pc = "work"])

(* What a failed item excludes: the transitive dependents of a repository; *)
(* with fail_fast, all remaining tasks.  A plausible bug skips the direct  *)
(* dependents only.                                                        *)
ExcludesDirect(o, item) == IF o = "sequence" THEN DependentsOf(deps, item) ELSE {}

Excludes(o, item) == IF o = "sequence" THEN TransitiveDependentsOf(deps, item) ELSE {}

(* BackportExecutor::execute may stop at the first failure.                *)
Remaining(o, success) ==
    IF ~success /\ o = "backport" /\ FailFast THEN <<>> ELSE Tail(task[o].todo)

(* The release or cherry-pick, and its NodeExited, NodeFailed, ToolReturned*)
(* or ToolFailed event.                                                    *)
EndItem(o, success) ==
    /\ task[o].pc = "work"
    /\ LET item == task[o].todo[1]
           done == [task[o] EXCEPT !.pc = "next", !.no = @ + 1, !.todo = Remaining(o, success)]
       IN  Recorded(o, <<IF success THEN "done" ELSE "failed", item>>,
               IF success THEN [done EXCEPT !.ok = @ \cup {item}]
               ELSE [done EXCEPT !.bad = @ \cup {item}, !.skip = @ \cup Excludes(o, item)])

(* finish_ok or finish_err.  *)
FinishRun(o) ==
    /\ task[o].pc = "next" /\ task[o].todo = <<>>
    /\ LET end == UpdateRun(o, IF OverallSuccess(o) THEN "COMPLETED" ELSE "FAILED", task[o].no - 1)
       IN  \/ end /\ task' = [task EXCEPT ![o].pc = "ok"] /\ UNCHANGED lfaults
           \/ CallFailing /\ Errs(o) /\ (end \/ UNCHANGED runs)
    /\ UNCHANGED <<events, nodes, deps, wanted>>

MultiRepoNext ==
    \/ \E r \in Repo : AddNode(r) \/ \E s \in Repo : AddDependency(r, s)
    \/ \E o \in Orchestrator : \/ StartRun(o) \/ SkipItem(o) \/ BeginItem(o) \/ FinishRun(o)
                        \/ \E success \in BOOLEAN : EndItem(o, success)

MultiRepoSpec == MultiRepoInit /\ [][MultiRepoNext]_multiRepoVars

-----------------------------------------------------------------------------
MultiRepoTypeOK ==
    /\ runs \in [RunId -> Row] /\ nodes \subseteq Repo /\ wanted \subseteq nodes
    /\ IsDependencyGraph(nodes, deps)
    /\ \A o \in Orchestrator : task[o] \in SequenceOutcome(o)
    /\ lfaults \in 0 .. LedgerFaults

(* Whatever edges were added in whatever order, the plan runs each         *)
(* repository exactly once and after everything it depends on, also when   *)
(* steps of one parallel group run at the same time.                       *)
GroupsRespectDependencies ==
    LET groups == ParallelGroups(deps, nodes)
        at(r) == {i \in DOMAIN groups : r \in groups[i].repos}
    IN  /\ \A r \in nodes : Cardinality(at(r)) = 1
        /\ \A e \in deps : \A i \in at(e[1]), j \in at(e[2]) : i < j

(* The sequencer never releases a repository whose release would build on  *)
(* a failed one, however long the chain between them.                      *)
NothingReleasedOnFailure ==
    \A r \in nodes : RepoReleaseStatus(r) = "failed" =>
        \A d \in TransitiveDependentsOf(deps, r) :
            RepoReleaseStatus(d) \in {"skipped", "pending"}

(* An orchestrator that returned Ok left a run that has ended, tells       *)
(* whether an item failed, and holds an event for the beginning and the    *)
(* end of each item it worked on, numbered without a gap.                  *)
OkRunsAreWhole ==
    \A o \in Orchestrator : task[o].pc = "ok" =>
        /\ runs[o].status = IF OverallSuccess(o) THEN "COMPLETED" ELSE "FAILED"
        /\ {e[1] : e \in events[o]} = 1 .. runs[o].total
        /\ \A item \in task[o].ok \cup task[o].bad :
              {<<"begin", item>>, <<IF item \in task[o].ok THEN "done" ELSE "failed", item>>} \subseteq {e[2] : e \in events[o]}

(* What the orchestrators promise together: an order that respects the      *)
(* dependencies, no release on top of a failed one, and runs in the ledger  *)
(* that tell all of it.                                                     *)
OrchestrationSound ==
    GroupsRespectDependencies /\ NothingReleasedOnFailure /\ OkRunsAreWhole

=============================================================================

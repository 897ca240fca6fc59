------------------------------ MODULE Planning ------------------------------
(***************************************************************************)
(* Planning: a goal is decomposed into a graph of tasks, which is          *)
(* validated; the scheduler offers the tasks whose dependencies are done;  *)
(* the drift of the execution decides whether to plan again.  The library  *)
(* holds no state of its own: whoever executes the plan (outside the       *)
(* repository) starts what the scheduler offers and records how each task  *)
(* ends.  Confidence is a percentage.                                      *)
(***************************************************************************)
EXTENDS Integers, FiniteSets, FiniteSetsExt

CONSTANTS
    Task,            \* ids of tasks: numbers, in the order of the strings
    Ghost,           \* the id of a task that is not in the plan
    MaxParallel,     \* max_parallel
    Withheld,        \* blocked_tasks of the constraints
    Policy,          \* when to plan again
    LowConfidence,   \* the confidence an executor reports for a task in doubt
    MaxHours         \* bound on the clock

(* ReplanPolicy; ratios are percentages. *)
ReplanPolicy ==
    [minConfidence : 0..100, maxBlocked : 0..100, onFailure : BOOLEAN, maxStale : Nat]

ReplanReason == {"confidence", "blocked", "failed", "stale"}

(* GoalPlan: the tasks of all its epics, and what each depends on. *)
GoalPlan == UNION {[tasks : {S}, depends : [S -> SUBSET (S \cup {Ghost})]] : S \in SUBSET Task}

PlanTaskStatus == {"pending", "in_progress", "done", "blocked", "failed"}

ASSUME PlanningAssumption ==
    /\ Policy \in ReplanPolicy
    /\ Task \subseteq Nat /\ IsFiniteSet(Task) /\ Ghost \notin Task
    /\ MaxParallel \in Nat /\ MaxHours \in Nat /\ LowConfidence \in 0..100

VARIABLES
    plan,        \* [tasks, depends]: the goal, [task -> set of ids]
    dag,         \* [is, status, confidence, updated]: the executable form
    hour         \* the clock

planVars == <<plan, dag, hour>>

NoDag == [is |-> "none"]

PlanInit ==
    /\ plan \in GoalPlan
    /\ dag = NoDag
    /\ hour = 0

-----------------------------------------------------------------------------
(* The tasks that the queue of validate visits: those without dependencies, *)
(* then those whose last dependency has just been visited, and so on.       *)
Visited ==
    LET after[n \in 0..Cardinality(plan.tasks)] ==
            IF n = 0 THEN {}
            ELSE {t \in plan.tasks : plan.depends[t] \subseteq after[n - 1]}
    IN  after[Cardinality(plan.tasks)]

(* A validation that only looks for missing dependencies. *)
ValidateMissing ==
    IF \E t \in plan.tasks : ~(plan.depends[t] \subseteq plan.tasks) THEN "missing"
    ELSE "ok"

(* ExecutionDag::validate *)
Validate ==
    IF \E t \in plan.tasks : ~(plan.depends[t] \subseteq plan.tasks) THEN "missing"
    ELSE IF Cardinality(Visited) # Cardinality(plan.tasks) THEN "cycle"
    ELSE "ok"

(* ExecutionDag, and the PlanTasks it starts with. *)
ExecutionDag ==
    [is : {"dag"}, status : [plan.tasks -> PlanTaskStatus],
     confidence : [plan.tasks -> 0..100], updated : [plan.tasks -> 0..hour]]

PendingTasks ==
    [is |-> "dag", status |-> [t \in plan.tasks |-> "pending"],
     confidence |-> [t \in plan.tasks |-> 100], updated |-> [t \in plan.tasks |-> hour]]

(* decompose_goal_to_dag *)
Decompose ==
    /\ dag = NoDag
    /\ dag' = IF Validate # "ok" THEN [is |-> Validate] ELSE PendingTasks
    /\ UNCHANGED <<plan, hour>>

Accepted == dag.is = "dag"

(* schedule_next_ready_tasks: in the order of ids, cut at max_parallel.     *)
Ready ==
    {t \in plan.tasks \ Withheld :
        dag.status[t] = "pending" /\ \A d \in plan.depends[t] : dag.status[d] = "done"}

Scheduled == {t \in Ready : Cardinality({u \in Ready : u <= t}) <= MaxParallel}

-----------------------------------------------------------------------------
(* compute_progress and evaluate_replan *)
InState(s) == {t \in plan.tasks : dag.status[t] = s}

(* The mean confidence, rounded down: a percentage is above the one when it *)
(* is above the other.                                                      *)
MeanConfidence ==
    LET sum == FoldSet(LAMBDA t, n : dag.confidence[t] + n, 0, plan.tasks)
    IN  IF plan.tasks = {} THEN 0 ELSE sum \div Cardinality(plan.tasks)

Progress ==
    [done |-> Cardinality(InState("done")), blocked |-> Cardinality(InState("blocked")),
     failed |-> Cardinality(InState("failed")), confidence |-> MeanConfidence]

(* The ratio of a part to all tasks is above a percentage; of none it is 0. *)
RatioAbove(part, percent) == 100 * part > percent * Cardinality(plan.tasks)

ReplanReasons ==
    LET p == Progress
        oldest == Min({dag.updated[t] : t \in plan.tasks})
    IN  {r \in ReplanReason :
           CASE r = "confidence" -> p.confidence < Policy.minConfidence
             [] r = "blocked" -> RatioAbove(p.blocked, Policy.maxBlocked)
             [] r = "failed" -> Policy.onFailure /\ p.failed > 0
             [] r = "stale" -> plan.tasks # {} /\ hour - oldest > Policy.maxStale}

(* ReplanDecision.should_replan *)
ShouldReplan == ReplanReasons # {}

-----------------------------------------------------------------------------
(* The executor. *)
StartTask ==
    /\ Accepted /\ Scheduled # {}
    /\ dag' = [dag EXCEPT
          !.status = [t \in plan.tasks |-> IF t \in Scheduled THEN "in_progress" ELSE @[t]],
          !.updated = [t \in plan.tasks |-> IF t \in Scheduled THEN hour ELSE @[t]]]
    /\ UNCHANGED <<plan, hour>>

Finish(t) ==
    /\ Accepted /\ t \in InState("in_progress")
    /\ \E s \in {"done", "blocked", "failed"} :
          dag' = [dag EXCEPT !.status[t] = s, !.updated[t] = hour,
                             !.confidence[t] = IF s = "done" THEN @ ELSE LowConfidence]
    /\ UNCHANGED <<plan, hour>>

PassHour ==
    /\ hour < MaxHours
    /\ hour' = hour + 1
    /\ UNCHANGED <<plan, dag>>

PlanNext == Decompose \/ StartTask \/ PassHour \/ \E t \in plan.tasks : Finish(t)

PlanSpec == PlanInit /\ [][PlanNext]_planVars

-----------------------------------------------------------------------------
PlanTypeOK ==
    /\ plan \in GoalPlan /\ hour \in 0..MaxHours
    /\ dag \in [is : {"none", "missing", "cycle"}] \cup ExecutionDag

(* A set of tasks that wait for each other. *)
Knot(S) == S # {} /\ \A t \in S : plan.depends[t] \cap S # {}

(* The validation accepts exactly the plans that can be executed: every     *)
(* dependency is there and no set of tasks waits for itself.                *)
AcceptedIsExecutable ==
    /\ Accepted => /\ \A t \in plan.tasks : plan.depends[t] \subseteq plan.tasks
                   /\ ~\E S \in SUBSET plan.tasks : Knot(S)
    /\ dag.is = "missing" => \E t \in plan.tasks : ~(plan.depends[t] \subseteq plan.tasks)
    /\ dag.is = "cycle" => \E S \in SUBSET plan.tasks : Knot(S)

(* A plan that is not done and on which nothing is running or ready is      *)
(* noticed: under a policy that replans on failures and on any blocked task *)
(* there is a reason to replan, unless the constraints withhold a task.     *)
StallsNoticed ==
    /\ Accepted
    /\ InState("done") # plan.tasks
    /\ InState("in_progress") = {} /\ Ready = {}
    /\ Withheld \cap InState("pending") = {}
    /\ Policy.onFailure /\ Policy.maxBlocked = 0
    => ShouldReplan

(* No task starts before what it depends on is done, every plan that can be *)
(* executed and no other is accepted, and one that is stuck is noticed.     *)
PlanSound ==
    /\ AcceptedIsExecutable
    /\ StallsNoticed
    /\ Accepted => \A t \in plan.tasks : dag.status[t] # "pending" =>
                      \A d \in plan.depends[t] : dag.status[d] = "done"

=============================================================================

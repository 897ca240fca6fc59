---------------------------- MODULE RoleExecutor ----------------------------
(***************************************************************************)
(* execute_roles_parallel: one task per role, at most MaxConcurrent at a   *)
(* time, each with a run of its own in the shared ledger.  The injected    *)
(* role_executor appends some events to its run, then returns or panics.   *)
(* A ledger call may fail, with or without its effect, and may answer Ok   *)
(* without it: the errors of a statement are not read.                     *)
(***************************************************************************)
EXTENDS RunLedger

CONSTANTS
    Role,
    MaxConcurrent,   \* bound: the largest config.max_concurrent
    MaxEvents        \* bound: events a role appends to its run

ASSUME RoleAssumption ==
    /\ Role \subseteq RunId /\ IsFiniteSet(Role)
    /\ MaxConcurrent \in Nat \ {0}
    /\ MaxEvents \in Nat

VARIABLES
    config,     \* the roles of the batch and its ParallelRoleConfig
    task,       \* the task of each role
    permits,    \* free permits
    failFlag,   \* the watch channel
    results,    \* the vector behind the mutex, as a set
    verdict     \* what the caller is told

batch == <<config, task, permits, failFlag, results, verdict>>

RolePC == {"permit", "check", "create", "execute", "append", "fetch", "write",
           "signal", "push", "done"}

(* end tells how the task left: with a result, skipped, or by a panic.      *)
(* written: the call that ends the run took effect.                         *)
Task == [pc : RolePC, run : RunId \cup {NoRun}, ok : BOOLEAN, seq : Nat,
         end : {"none", "result", "skipped", "panic"}, written : BOOLEAN]

Config == [roles : SUBSET Role, maxConcurrent : 1..MaxConcurrent, failFast : BOOLEAN]

Result == [role : Role, run : RunId \cup {NoRun}, success : BOOLEAN]

RoleInit ==
    /\ config \in Config
    /\ task = [r \in Role |-> [pc |-> "permit", run |-> NoRun, ok |-> FALSE,
                               seq |-> 1, end |-> "none", written |-> FALSE]]
    /\ permits = config.maxConcurrent
    /\ failFlag = FALSE
    /\ results = {}
    /\ verdict = "none"

-----------------------------------------------------------------------------
Step(r, t) == task' = [task EXCEPT ![r] = t]

(* The task ends and drops its permit. *)
Leave(r, end) ==
    /\ Step(r, [task[r] EXCEPT !.pc = "done", !.end = end])
    /\ permits' = permits + 1

Acquire(r) ==
    /\ task[r].pc = "permit"
    /\ permits > 0
    /\ permits' = permits - 1
    /\ Step(r, [task[r] EXCEPT !.pc = "check"])
    /\ UNCHANGED <<config, failFlag, results, verdict, ledger>>

(* A plausible bug: a task that must not start queues again. *)
CheckFlagRequeue(r) ==
    /\ task[r].pc = "check"
    /\ Step(r, [task[r] EXCEPT !.pc = IF failFlag THEN "permit" ELSE "create"])
    /\ permits' = IF failFlag THEN permits + 1 ELSE permits
    /\ UNCHANGED <<config, failFlag, results, verdict, ledger>>

CheckFlag(r) ==
    /\ task[r].pc = "check"
    /\ \/ /\ failFlag
          /\ Leave(r, "skipped")
       \/ /\ ~ failFlag
          /\ Step(r, [task[r] EXCEPT !.pc = "create"])
          /\ UNCHANGED permits
    /\ UNCHANGED <<config, failFlag, results, verdict, ledger>>

(* A plausible bug: a task that finds a run already there adopts it. *)
CreateRunShared(r) ==
    /\ task[r].pc = "create"
    /\ \E id \in config.roles :
        /\ IF runs[id].status = "NONE" THEN InsertRun(id) ELSE UNCHANGED runs
        /\ Step(r, [task[r] EXCEPT !.pc = "execute", !.run = id])
    /\ UNCHANGED <<config, permits, failFlag, results, verdict, events>>

CreateRun(r) ==
    /\ task[r].pc = "create"
    /\ InsertRun(r) \/ UNCHANGED runs
    /\ \/ Step(r, [task[r] EXCEPT !.pc = "execute", !.run = r])
       \/ Step(r, [task[r] EXCEPT !.pc = "signal"])
    /\ UNCHANGED <<config, permits, failFlag, results, verdict, events>>

(* append_event, called by the role: the read, then the write. *)
AppendFetch(r) ==
    /\ task[r].pc = "execute"
    /\ task[r].seq <= MaxEvents
    /\ \/ Running(task[r].run) /\ Step(r, [task[r] EXCEPT !.pc = "append"])
       \/ Step(r, [task[r] EXCEPT !.seq = @ + 1])      \* an error, or refused
    /\ UNCHANGED <<config, permits, failFlag, results, verdict, ledger>>

AppendWrite(r) ==
    /\ task[r].pc = "append"
    /\ InsertEvent(task[r].run, task[r].seq, r) \/ UNCHANGED events
    /\ Step(r, [task[r] EXCEPT !.pc = "execute", !.seq = @ + 1])
    /\ UNCHANGED <<config, permits, failFlag, results, verdict, runs>>

Return(r) ==
    /\ task[r].pc = "execute"
    /\ \E ok \in BOOLEAN : Step(r, [task[r] EXCEPT !.pc = "fetch", !.ok = ok])
    /\ UNCHANGED <<config, permits, failFlag, results, verdict, ledger>>

(* A plausible bug: a permit that is not dropped when the task unwinds. *)
PanicKeepsPermit(r) ==
    /\ task[r].pc \in {"execute", "append"}
    /\ Step(r, [task[r] EXCEPT !.pc = "done", !.end = "panic"])
    /\ UNCHANGED <<config, permits, failFlag, results, verdict, ledger>>

(* The role panics: the task unwinds, and the JoinError is ignored. *)
Panic(r) ==
    /\ task[r].pc \in {"execute", "append"}
    /\ Leave(r, "panic")
    /\ UNCHANGED <<config, failFlag, results, verdict, ledger>>

(* complete_run or fail_run; whatever it answers is ignored. *)
FinishFetch(r) ==
    /\ task[r].pc = "fetch"
    /\ \/ /\ Running(task[r].run)
          /\ Step(r, [task[r] EXCEPT !.pc = "write"])
       \/ Step(r, [task[r] EXCEPT !.pc = "signal"])
    /\ UNCHANGED <<config, permits, failFlag, results, verdict, ledger>>

(* A plausible bug: only a success is recorded. *)
FinishWriteOk(r) ==
    /\ task[r].pc = "write"
    /\ IF task[r].ok THEN UpdateRun(task[r].run, "COMPLETED", 1) ELSE UNCHANGED runs
    /\ Step(r, [task[r] EXCEPT !.pc = "signal", !.written = TRUE])
    /\ UNCHANGED <<config, permits, failFlag, results, verdict, events>>

FinishWrite(r) ==
    /\ task[r].pc = "write"
    /\ \/ /\ IF task[r].ok THEN UpdateRun(task[r].run, "COMPLETED", 1)
                           ELSE UpdateRun(task[r].run, "FAILED", 0)
          /\ Step(r, [task[r] EXCEPT !.pc = "signal", !.written = TRUE])
       \/ /\ Step(r, [task[r] EXCEPT !.pc = "signal"])
          /\ UNCHANGED runs
    /\ UNCHANGED <<config, permits, failFlag, results, verdict, events>>

(* A plausible bug: every ending stops the siblings. *)
SignalAlways(r) ==
    /\ task[r].pc = "signal"
    /\ failFlag' = (failFlag \/ config.failFast)
    /\ Step(r, [task[r] EXCEPT !.pc = "push"])
    /\ UNCHANGED <<config, permits, results, verdict, ledger>>

Signal(r) ==
    /\ task[r].pc = "signal"
    /\ failFlag' = (failFlag \/ (config.failFast /\ ~ task[r].ok))
    /\ Step(r, [task[r] EXCEPT !.pc = "push"])
    /\ UNCHANGED <<config, permits, results, verdict, ledger>>

Push(r) ==
    /\ task[r].pc = "push"
    /\ results' = results \cup {[role |-> r, run |-> task[r].run, success |-> task[r].ok]}
    /\ Leave(r, "result")
    /\ UNCHANGED <<config, failFlag, verdict, ledger>>

(* A plausible bug: one failure makes the batch fail. *)
JoinAny ==
    /\ verdict = "none"
    /\ \A r \in config.roles : task[r].pc = "done"
    /\ verdict' = IF \E x \in results : ~ x.success THEN "err" ELSE "ok"
    /\ UNCHANGED <<config, task, permits, failFlag, results, ledger>>

(* Every task has been awaited. *)
Join ==
    /\ verdict = "none"
    /\ \A r \in config.roles : task[r].pc = "done"
    /\ verdict' = IF results # {} /\ \A x \in results : ~ x.success THEN "err" ELSE "ok"
    /\ UNCHANGED <<config, task, permits, failFlag, results, ledger>>

RoleStep(r) ==
    \/ Acquire(r) \/ CheckFlag(r) \/ CreateRun(r) \/ AppendFetch(r) \/ AppendWrite(r)
    \/ Return(r) \/ Panic(r) \/ FinishFetch(r) \/ FinishWrite(r) \/ Signal(r) \/ Push(r)

RoleNext == Join \/ \E r \in config.roles : RoleStep(r)

-----------------------------------------------------------------------------
Holding == {r \in config.roles : task[r].pc \notin {"permit", "done"}}

(* No more than max_concurrent roles are at work, and no permit is lost,    *)
(* whether a task ends well, is skipped or panics.                          *)
PermitsConserved == permits >= 0 /\ permits + Cardinality(Holding) = config.maxConcurrent

(* When the batch has returned, a role without a result either panicked or  *)
(* was skipped because of a sibling whose failure is among the results.     *)
NoRoleLost ==
    verdict # "none" =>
        \A r \in config.roles :
            \/ \E x \in results : x.role = r /\ x.success = task[r].ok
            \/ task[r].end = "panic"
            \/ task[r].end = "skipped" /\ config.failFast /\ \E x \in results : ~ x.success

(* When the batch has returned, a run that was handed to a role has the     *)
(* status its result reports, unless the role panicked or the ledger did    *)
(* not take the write.                                                      *)
ResultsMatchLedger ==
    verdict # "none" =>
        \A r \in config.roles : task[r].run # NoRun /\ task[r].written =>
            runs[task[r].run].status = IF task[r].ok THEN "COMPLETED" ELSE "FAILED"

(* "Returns Err(RoleError::ParallelExecutionFailed) only when every role    *)
(* fails."                                                                  *)
ErrOnlyWhenAllFail ==
    verdict = "err" =>
        \A r \in config.roles : task[r].end = "panic" \/ (task[r].end = "result" /\ ~ task[r].ok)

(* The same without fail_fast. *)
ErrOnlyWhenAllRan == ~ config.failFast => ErrOnlyWhenAllFail

(* The call returns, if the injected executors do. *)
BatchReturns == <>(verdict # "none")

=============================================================================

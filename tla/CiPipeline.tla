----------------------------- MODULE CiPipeline -----------------------------
(***************************************************************************)
(* `aivcs ci run`: the stages of a pipeline, recorded as a run of the      *)
(* ledger; the gate, which judges the run by its events alone; and the     *)
(* bounded recovery of a failed run, with the artifact it leaves.  The     *)
(* command may be killed at any point.                                     *)
(***************************************************************************)
EXTENDS RunLedger, Sequences

CONSTANTS CiRun,          (* the run of the pipeline *)
          StageLists,     (* sequences of [name, known, enabled] *)
          RecoveryPolicyInput, (* policies to try *)
          FailureSignals,      (* failures to try *)
          MaxRecoveries   (* bound on recoveries of the run *)

(* StageConfig: a name that StageConfig::from_name knows or not.           *)
StageConfig == [name : STRING, known : BOOLEAN, enabled : BOOLEAN]

(* FailureClass and FailureSignal; a stage and a message are the classes   *)
(* whose words they contain.                                               *)
FailureClass == {"build", "test", "runtime", "integration", "unknown"}

FailureSignal == [stage : SUBSET FailureClass, message : SUBSET FailureClass, flaky : BOOLEAN]

RecoveryPolicy ==
    [maxAttempts : Nat, maxFlaky : Nat, patchForward : BOOLEAN, rollback : BOOLEAN]

RecoveryDecision ==
    [class : FailureClass, action : {"retry", "patch_forward", "rollback", "escalate"}]

RecoveryLog ==
    [outcome : {"recovered", "failed"}, decisions : Seq(RecoveryDecision),
     final : SUBSET FailureSignal, policy : RecoveryPolicy, initial : FailureSignal,
     number : Nat]

ASSUME CiAssumption ==
    /\ CiRun \in RunId /\ MaxRecoveries \in Nat
    /\ StageLists \subseteq Seq(StageConfig)
    /\ RecoveryPolicyInput \subseteq RecoveryPolicy /\ FailureSignals \subseteq FailureSignal

VARIABLES ci,          (* the command: its stages, the next one, the numbers of its events *)
          recovery,    (* the recovery loop *)
          recoveries,
          artifactDir  (* recovery.json and recovery.digest of the run *)

ciVars == <<ledger, ci, recovery, recoveries, artifactDir>>

NoLog == [outcome |-> "none"]
IdleRecovery == [pc |-> "idle"]

CiInit ==
    /\ LedgerInit
    /\ ci = [pc |-> "idle"]
    /\ recovery = IdleRecovery /\ recoveries = 0
    /\ artifactDir = [log |-> NoLog, digest |-> NoLog]

-----------------------------------------------------------------------------
(* CiRunner::execute_stage: an exit code, a signal (code -1), or an error: *)
(* an empty command, one that cannot be started, a timeout.                *)
StageOutcome == {"zero", "nonzero", "signal", "error"}

(* The locals of CiPipeline::run and the PipelineResult they end in.       *)
PipelineResult ==
    [pc : {"stage", "execute", "record", "gate", "done", "error"},
     stages : Seq(StageConfig), seq : Nat \ {0}, allPassed : BOOLEAN,
     results : Seq(StageOutcome), verdict : {"none", "passed", "failed"},
     current : StageOutcome \cup {"none"}]

StartedPipeline(stages) ==
    [pc |-> "stage", stages |-> stages, seq |-> 1, allPassed |-> TRUE,
     results |-> <<>>, verdict |-> "none", current |-> "none"]

FailedCount == Cardinality({i \in DOMAIN ci.results : ci.results[i] # "zero"})

(* cmd_ci_run and CiPipeline::run.  An unknown stage ends the command      *)
(* before a run is created.                                                *)
StartCi(stages) ==
    /\ ci.pc = "idle"
    /\ IF \A i \in DOMAIN stages : stages[i].known
       THEN /\ InsertRun(CiRun)
            /\ ci' = StartedPipeline(stages)
       ELSE ci' = [pc |-> "error"] /\ UNCHANGED runs
    /\ UNCHANGED <<events, recovery, recoveries, artifactDir>>

Stage == Head(ci.stages)

SkipStage ==
    /\ ci.pc = "stage" /\ ci.stages # <<>> /\ ~Stage.enabled
    /\ ci' = [ci EXCEPT !.stages = Tail(@)]
    /\ UNCHANGED <<ledger, recovery, recoveries, artifactDir>>

(* recorder.record; an error of the ledger ends the command.               *)
RecordsEvent(kind, next) ==
    \/ /\ InsertEvent(CiRun, ci.seq, [kind |-> kind, tool |-> Stage.name])
       /\ ci' = [next EXCEPT !.seq = @ + 1]
    \/ ci' = [ci EXCEPT !.pc = "error"] /\ UNCHANGED events

CallStage ==
    /\ ci.pc = "stage" /\ ci.stages # <<>> /\ Stage.enabled
    /\ RecordsEvent("tool_called", [ci EXCEPT !.pc = "execute"])
    /\ UNCHANGED <<runs, recovery, recoveries, artifactDir>>

ExecuteStage(outcome) ==
    /\ ci.pc = "execute"
    /\ ci' = [ci EXCEPT !.pc = "record", !.current = outcome]
    /\ UNCHANGED <<ledger, recovery, recoveries, artifactDir>>

(* A plausible bug: the error path records the failure and forgets that    *)
(* not all stages passed.                                                  *)
RecordStageForgets ==
    /\ ci.pc = "record"
    /\ RecordsEvent(IF ci.current = "zero" THEN "tool_returned" ELSE "tool_failed",
                    [ci EXCEPT !.pc = "stage", !.stages = Tail(@),
                               !.allPassed = @ /\ ci.current \in {"zero", "error"},
                               !.results = Append(@, ci.current), !.current = "none"])
    /\ UNCHANGED <<runs, recovery, recoveries, artifactDir>>

RecordStage ==
    /\ ci.pc = "record"
    /\ RecordsEvent(IF ci.current = "zero" THEN "tool_returned" ELSE "tool_failed",
                    [ci EXCEPT !.pc = "stage", !.stages = Tail(@),
                               !.allPassed = @ /\ ci.current = "zero",
                               !.results = Append(@, ci.current), !.current = "none"])
    /\ UNCHANGED <<runs, recovery, recoveries, artifactDir>>

FinishCi ==
    /\ ci.pc = "stage" /\ ci.stages = <<>>
    /\ \/ UpdateRun(CiRun, IF ci.allPassed THEN "COMPLETED" ELSE "FAILED", ci.seq - 1)
          /\ ci' = [ci EXCEPT !.pc = "gate"]
       \/ ci' = [ci EXCEPT !.pc = "error"] /\ UNCHANGED runs
    /\ UNCHANGED <<events, recovery, recoveries, artifactDir>>

(* CiGate::evaluate.                                                       *)
ToolsOf(kind) == {e[2].tool : e \in {f \in events[CiRun] : f[2].kind = kind}}

GatePasses ==
    /\ ToolsOf("tool_failed") = {}
    /\ ToolsOf("tool_called") \subseteq ToolsOf("tool_returned")

EvaluateGate ==
    /\ ci.pc = "gate"
    /\ ci' = [ci EXCEPT !.pc = "done",
                        !.verdict = IF ci.allPassed /\ GatePasses THEN "passed" ELSE "failed"]
    /\ UNCHANGED <<ledger, recovery, recoveries, artifactDir>>

KillCi ==
    /\ ci.pc \in {"stage", "execute", "record", "gate"}
    /\ ci' = [ci EXCEPT !.pc = "error"]
    /\ UNCHANGED <<ledger, recovery, recoveries, artifactDir>>

-----------------------------------------------------------------------------
(* Self-healing.  classify_failure takes the first class that the stage or *)
(* the message names.                                                      *)
ClassifyFailure(signal) ==
    LET named == signal.stage \cup signal.message
    IN  IF "build" \in named THEN "build"
        ELSE IF "test" \in named THEN "test"
        ELSE IF "runtime" \in named THEN "runtime"
        ELSE IF "integration" \in named THEN "integration" ELSE "unknown"

(* A plausible bug: every flaky test is retried, however often it was.     *)
DecideActionUnbounded(class, signal, policy, flakyUsed) ==
    CASE class = "test" /\ signal.flaky -> "retry"
      [] policy.patchForward /\ class \in {"build", "test"} /\ ~(class = "test" /\ signal.flaky) -> "patch_forward"
      [] policy.rollback /\ class \in {"runtime", "integration"} -> "rollback"
      [] OTHER -> "escalate"

DecideAction(class, signal, policy, flakyUsed) ==
    CASE class = "test" /\ signal.flaky /\ flakyUsed < policy.maxFlaky -> "retry"
      [] policy.patchForward /\ class \in {"build", "test"}
           /\ ~(class = "test" /\ signal.flaky /\ flakyUsed < policy.maxFlaky) -> "patch_forward"
      [] policy.rollback /\ class \in {"runtime", "integration"} -> "rollback"
      [] OTHER -> "escalate"

StartRecovery(policy, signal) ==
    /\ ci.pc = "done" /\ ci.verdict = "failed"
    /\ recovery.pc = "idle" /\ recoveries < MaxRecoveries
    /\ recoveries' = recoveries + 1
    /\ recovery' = [pc |-> "loop", policy |-> policy, initial |-> signal, current |-> signal,
                    flakyUsed |-> 0, decisions |-> <<>>]
    /\ UNCHANGED <<ledger, ci, artifactDir>>

Ends(outcome, decisions, final) ==
    recovery' = [pc |-> "json",
                 log |-> [outcome |-> outcome, decisions |-> decisions, final |-> final,
                          policy |-> recovery.policy, initial |-> recovery.initial,
                          number |-> recoveries]]

(* One attempt of execute_recovery_loop; the caller's apply_action repairs *)
(* the failure or answers with the next one, or none.                      *)
Attempt(repaired, next) ==
    /\ recovery.pc = "loop" /\ Len(recovery.decisions) < recovery.policy.maxAttempts
    /\ LET class == ClassifyFailure(recovery.current)
           action == DecideAction(class, recovery.current, recovery.policy, recovery.flakyUsed)
           decisions == Append(recovery.decisions, [class |-> class, action |-> action])
       IN  CASE action = "escalate" -> Ends("failed", decisions, {recovery.current})
             [] action # "escalate" /\ repaired -> Ends("recovered", decisions, {})
             [] OTHER -> recovery' = [recovery EXCEPT !.decisions = decisions, !.current = next,
                                        !.flakyUsed = IF action = "retry" THEN @ + 1 ELSE @]
    /\ UNCHANGED <<ledger, ci, recoveries, artifactDir>>

AttemptsExhausted ==
    /\ recovery.pc = "loop" /\ Len(recovery.decisions) = recovery.policy.maxAttempts
    /\ Ends("failed", recovery.decisions, {recovery.current})
    /\ UNCHANGED <<ledger, ci, recoveries, artifactDir>>

(* write_recovery_artifact writes the log, then its digest, over those of  *)
(* an earlier recovery of the run; a digest stands for the log it is of.   *)
WriteRecoveryJson ==
    /\ recovery.pc = "json"
    /\ artifactDir' = [artifactDir EXCEPT !.log = recovery.log]
    /\ recovery' = [recovery EXCEPT !.pc = "digest"]
    /\ UNCHANGED <<ledger, ci, recoveries>>

WriteRecoveryDigest ==
    /\ recovery.pc = "digest"
    /\ artifactDir' = [artifactDir EXCEPT !.digest = recovery.log]
    /\ recovery' = IdleRecovery
    /\ UNCHANGED <<ledger, ci, recoveries>>

KillRecovery ==
    /\ recovery.pc \in {"loop", "json", "digest"}
    /\ recovery' = IdleRecovery
    /\ UNCHANGED <<ledger, ci, recoveries, artifactDir>>

(* read_recovery_artifact accepts the log when its digest matches.         *)
ReadRecoveryArtifact ==
    IF artifactDir.log # NoLog /\ artifactDir.digest = artifactDir.log THEN artifactDir.log ELSE NoLog

CiNext ==
    \/ \E s \in StageLists : StartCi(s)
    \/ SkipStage \/ CallStage
    \/ \E o \in StageOutcome : ExecuteStage(o)
    \/ RecordStage \/ FinishCi \/ EvaluateGate \/ KillCi
    \/ \E p \in RecoveryPolicyInput, s \in FailureSignals : StartRecovery(p, s)
    \/ \E r \in BOOLEAN, n \in FailureSignals : Attempt(r, n)
    \/ AttemptsExhausted \/ WriteRecoveryJson \/ WriteRecoveryDigest \/ KillRecovery

CiSpec == CiInit /\ [][CiNext]_ciVars

-----------------------------------------------------------------------------
CiTypeOK ==
    /\ runs \in [RunId -> Row]
    /\ ci \in [pc : {"idle", "error"}] \cup PipelineResult
    /\ recovery \in [pc : {"idle"}] \cup [pc : {"json", "digest"}, log : RecoveryLog]
                   \cup [pc : {"loop"}, policy : RecoveryPolicy, initial : FailureSignal,
                         current : FailureSignal, flakyUsed : Nat, decisions : Seq(RecoveryDecision)]
    /\ recoveries \in 0 .. MaxRecoveries
    /\ \A file \in {"log", "digest"} : artifactDir[file] = NoLog \/ artifactDir[file] \in RecoveryLog

(* The run and the gate agree: once the pipeline has ended the run, the    *)
(* run is COMPLETED exactly when the gate passes on its events and every   *)
(* stage that ran exited with 0, and the run counts every event.           *)
CiVerdictsAgree ==
    runs[CiRun].status \in Terminal =>
        /\ (runs[CiRun].status = "COMPLETED") = GatePasses
        /\ GatePasses = (FailedCount = 0)
        /\ Cardinality(events[CiRun]) = runs[CiRun].total

(* What read_recovery_artifact accepts accounts for its outcome, whichever *)
(* recoveries were killed: retries of flaky tests stay within the policy,  *)
(* a recovery that gave up early escalated, and one that recovered never   *)
(* did.                                                                    *)
RecoveryAccounted ==
    LET log == ReadRecoveryArtifact
        Taken(a) == {i \in DOMAIN log.decisions : log.decisions[i].action = a}
    IN  log # NoLog =>
          /\ Cardinality(Taken("retry")) <= log.policy.maxFlaky
          /\ log.outcome = "failed" /\ Len(log.decisions) < log.policy.maxAttempts =>
               Taken("escalate") = {Len(log.decisions)}
          /\ log.outcome = "recovered" => Taken("escalate") = {}

(* The pipeline and its recovery: the run, the gate and the stages agree,   *)
(* and a recovery artifact that is accepted accounts for its outcome.       *)
CiSound == CiVerdictsAgree /\ RecoveryAccounted

=============================================================================

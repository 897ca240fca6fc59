------------------------------- MODULE MCRuns -------------------------------
(***************************************************************************)
(* A batch of parallel roles and a graph run sharing one ledger.           *)
(***************************************************************************)
EXTENDS RoleExecutor, LedgerHandler, TLC

CONSTANTS reviewer, tester, graph

(* The graph run has an id of its own.                                     *)
ASSUME DistinctRuns == GraphRun \notin Role

vars == <<ledger, batch, lh>>

RunsTypeOK ==
    /\ runs \in [RunId -> Row]
    /\ events \in [RunId -> SUBSET (Nat \X (Nat \cup Role))]
    /\ config \in Config
    /\ task \in [Role -> Task]
    /\ permits \in 0..MaxConcurrent
    /\ failFlag \in BOOLEAN
    /\ results \in SUBSET Result
    /\ verdict \in {"none", "ok", "err"}
    /\ lh \in LedgerHandlerState

(* Two tasks at a time: a batch of both roles without a graph run, or one   *)
(* role beside a graph run.                                                 *)
Init ==
    /\ LedgerInit /\ RoleInit
    /\ \/ HandlerInit /\ Cardinality(config.roles) <= 1
       \/ lh = [Idle EXCEPT !.pc = "stopped"] /\ config.roles = Role

Next ==
    \/ RoleNext /\ UNCHANGED lh
    \/ HandlerNext /\ UNCHANGED batch
    \/ verdict # "none" /\ lh.pc = "stopped" /\ UNCHANGED vars

(* The batch at every moment: its permits are all accounted for, however    *)
(* tasks end; once it has returned every role is explained by a result, a   *)
(* panic or a failed sibling; without fail_fast it is refused only when     *)
(* every role failed.  The types are those of the ledger, where a counter   *)
(* below zero would show.                                                   *)
RunsSound == RunsTypeOK /\ PermitsConserved /\ NoRoleLost /\ ErrOnlyWhenAllRan

(* Tasks that are ready are run: the scheduler of tokio starves none. *)
Fairness ==
    /\ WF_vars(Join /\ UNCHANGED lh)
    /\ \A r \in Role : WF_vars(r \in config.roles /\ RoleStep(r) /\ UNCHANGED lh)

Spec == Init /\ [][Next]_vars /\ Fairness

(* Any batch beside a graph run, or without one. *)
RunsSpec ==
    /\ LedgerInit /\ RoleInit /\ (HandlerInit \/ lh = [Idle EXCEPT !.pc = "stopped"])
    /\ [][Next]_vars

=============================================================================

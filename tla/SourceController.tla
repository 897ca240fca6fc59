-------------------------- MODULE SourceController --------------------------
(***************************************************************************)
(* The controller that watches one AivcsRepository resource, resolves the  *)
(* branch head at the forge, sends a merge event to the build receiver and *)
(* records the revision in the resource's status.                          *)
(***************************************************************************)
EXTENDS Naturals, FiniteSets

CONSTANTS LastRevision,      (* the branch head takes the values 1 .. LastRevision *)
          WatchedBranch,     (* spec.branch *)
          EmitEnabled,       (* OG_BUILDS_MERGE_URL is set *)
          ControllerFaults   (* failed calls and crashes *)

ASSUME ControllerAssumption == LastRevision \in Nat /\ ControllerFaults \in Nat

VARIABLES branchHead,  (* at the forge; 0: the branch does not exist yet *)
          revision,    (* status.artifactRevision at the API server; 0: none *)
          cached,      (* the same in the object the controller has cached *)
          reconciler,  (* [pc, previous, head] of the reconcile in progress *)
          received,    (* merge events the receiver has claimed, once each *)
          cfaults

controllerVars == <<branchHead, revision, cached, reconciler, received, cfaults>>

Rev == 0 .. LastRevision

(* MergeEventPayload::from_main_advance: a clean merge to main.  Its       *)
(* event_id is the dedup key repository@sha, here the revision.            *)
MergeEventPayload(head) ==
    [event_id |-> head, target_branch |-> "main", commit_sha |-> head,
     merged |-> TRUE, approved |-> TRUE, checks_passed |-> TRUE]

EventIds(events) == {e.event_id : e \in events}

(* The receiver claims an event_id once; a second delivery has no effect.  *)
Deliver(event, events) ==
    IF event.event_id \in EventIds(events) THEN events ELSE events \cup {event}

Waiting == [pc |-> "idle", previous |-> 0, head |-> 0]

ControllerTypeOK ==
    /\ branchHead \in Rev /\ revision \in Rev /\ cached \in Rev
    /\ reconciler \in [pc : {"idle", "emit", "patch"}, previous : Rev, head : Rev]
    /\ received \subseteq {MergeEventPayload(r) : r \in Rev}
    /\ cfaults \in 0 .. ControllerFaults

ControllerInit ==
    /\ branchHead = 0 /\ revision = 0 /\ cached = 0
    /\ reconciler = Waiting /\ received = {} /\ cfaults = 0

(* A publish moves the branch (the forge, see ForgeCas). *)
AdvanceHead ==
    /\ branchHead < LastRevision
    /\ branchHead' = branchHead + 1
    /\ UNCHANGED <<revision, cached, reconciler, received, cfaults>>

(* The watch brings the cached object up to date. *)
SyncCache ==
    /\ cached # revision
    /\ cached' = revision
    /\ UNCHANGED <<branchHead, revision, reconciler, received, cfaults>>

ShouldEmit(branch, advanced) == advanced /\ branch = "main"

(* reconcile takes the cached object and asks the forge for the head: a    *)
(* branch that is missing or has not moved is looked at again later.       *)
(* A plausible bug patches the status first.                               *)
ResolveHeadPatchFirst ==
    /\ reconciler.pc = "idle"
    /\ branchHead # 0 /\ branchHead # cached
    /\ reconciler' = [pc |-> "emit", previous |-> cached, head |-> branchHead]
    /\ revision' = branchHead
    /\ UNCHANGED <<branchHead, cached, received, cfaults>>

ResolveBranchHead ==
    /\ reconciler.pc = "idle"
    /\ branchHead # 0 /\ branchHead # cached
    /\ reconciler' = [pc |-> IF ShouldEmit(WatchedBranch, branchHead # cached) /\ EmitEnabled
                             THEN "emit" ELSE "patch",
                      previous |-> cached, head |-> branchHead]
    /\ UNCHANGED <<branchHead, revision, cached, received, cfaults>>

Emit ==
    /\ reconciler.pc = "emit"
    /\ received' = Deliver(MergeEventPayload(reconciler.head), received)
    /\ reconciler' = [reconciler EXCEPT !.pc = "patch"]
    /\ UNCHANGED <<branchHead, revision, cached, cfaults>>

(* A plausible bug writes back the revision it had read.                   *)
PatchStatusPrevious ==
    /\ reconciler.pc = "patch"
    /\ revision' = reconciler.previous
    /\ reconciler' = Waiting
    /\ UNCHANGED <<branchHead, cached, received, cfaults>>

PatchStatus ==
    /\ reconciler.pc = "patch"
    /\ revision' = reconciler.head
    /\ reconciler' = Waiting
    /\ UNCHANGED <<branchHead, cached, received, cfaults>>

(* A call fails, perhaps with its effect done, and error_policy requeues;  *)
(* or the controller crashes and starts again from the listed objects.     *)
ReconcileFails ==
    /\ reconciler.pc # "idle" /\ cfaults < ControllerFaults
    /\ \/ UNCHANGED <<received, revision, cached>>
       \/ /\ reconciler.pc = "emit"
          /\ received' = Deliver(MergeEventPayload(reconciler.head), received)
          /\ UNCHANGED <<revision, cached>>
       \/ /\ reconciler.pc = "patch"
          /\ revision' = reconciler.head
          /\ UNCHANGED <<received, cached>>
       \/ cached' = revision /\ UNCHANGED <<received, revision>>
    /\ reconciler' = Waiting
    /\ cfaults' = cfaults + 1
    /\ UNCHANGED branchHead

ControllerNext ==
    \/ AdvanceHead \/ SyncCache
    \/ ResolveBranchHead \/ Emit \/ PatchStatus \/ ReconcileFails

(* Every reconcile ends in a requeue, so another follows; the watch is     *)
(* live.  The forge owes nothing.                                          *)
ControllerFairness ==
    /\ WF_controllerVars(ResolveBranchHead) /\ WF_controllerVars(Emit)
    /\ WF_controllerVars(PatchStatus) /\ WF_controllerVars(SyncCache)

ControllerSpec == ControllerInit /\ [][ControllerNext]_controllerVars /\ ControllerFairness

-----------------------------------------------------------------------------
(* A revision recorded in the status was delivered: reconcile emits before *)
(* it patches, so that no crash in between can drop a build trigger.       *)
RecordedWasDelivered ==
    WatchedBranch = "main" /\ EmitEnabled /\ revision # 0
        => revision \in EventIds(received)

(* A head that main keeps is eventually delivered to the builders and      *)
(* recorded, although emits fail, answers are lost, the controller crashes *)
(* and works with a stale copy of the resource.                            *)
LastHeadDelivered ==
    branchHead = LastRevision ~> (LastRevision \in EventIds(received) /\ revision = LastRevision)

=============================================================================

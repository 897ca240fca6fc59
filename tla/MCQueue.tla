------------------------------ MODULE MCQueue ------------------------------
(***************************************************************************)
(* Instances for TLC of the engines' run queue and of the source           *)
(* controller, whose correctness is also that something happens.           *)
(***************************************************************************)
EXTENDS RunQueue, SourceController, TLC

CONSTANTS e1, e2

(* The two share no state, so one of them at a time makes steps.           *)
CONSTANT Part  (* the parts to explore *)

VARIABLE part

liveVars == <<part, queueVars, controllerVars>>

LiveInit == part \in Part /\ QueueInit /\ ControllerInit

QueueStep == part = "queue" /\ QueueNext /\ UNCHANGED <<part, controllerVars>>
ControllerStep == part = "controller" /\ ControllerNext /\ UNCHANGED <<part, queueVars>>

LiveNext == QueueStep \/ ControllerStep

(* However engines and reconciles interleave and whichever calls fail, no  *)
(* run is in two hands and every recorded revision was delivered.          *)
EnginesSound ==
    /\ QueueTypeOK /\ ControllerTypeOK
    /\ ClaimedOnce /\ HeldIsClaimed
    /\ RecordedWasDelivered

(* Whatever is lost or restarted, no queued run stays queued, and a head    *)
(* that stays is delivered and recorded.                                    *)
EnginesLive == EveryRunClaimed /\ LastHeadDelivered

LiveSpec ==
    /\ LiveInit /\ [][LiveNext]_liveVars
    /\ part = "queue" => QueueFairness
    /\ part = "controller" => ControllerFairness

=============================================================================

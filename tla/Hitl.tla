-------------------------------- MODULE Hitl --------------------------------
(***************************************************************************)
(* Human approval of one gated action: a checkpoint whose risk tier is     *)
(* chosen by policy, the votes of reviewers, the interventions of          *)
(* operators, and the audit artifact written at the end.  Reviewers,       *)
(* operators and the clock take their steps in any order.                  *)
(***************************************************************************)
EXTENDS Naturals, Sequences, FiniteSets

CONSTANTS Voter,
          Label,              (* checkpoint labels, each a set of the patterns it contains *)
          ApprovalRules,      (* sequence of [pattern, tier, timeout] *)
          DefaultTimeout,
          MaxHitlTime,        (* bound on the clock *)
          MaxInterventions    (* bound on interventions *)

NoTimeout == 0

RiskTier == {"low", "medium", "high", "critical"}

ASSUME HitlAssumption ==
    /\ DefaultTimeout \in Nat /\ MaxHitlTime \in Nat /\ MaxInterventions \in Nat
    /\ DOMAIN ApprovalRules \subseteq Nat
    /\ \A i \in DOMAIN ApprovalRules :
          ApprovalRules[i].tier \in RiskTier /\ ApprovalRules[i].timeout \in Nat

VARIABLES checkpoint, votes, interventions, artifact, hitlNow, decidedAt

hitlVars == <<checkpoint, votes, interventions, artifact, hitlNow, decidedAt>>

NoCheckpoint == [status |-> "none"]
NoArtifactYet == [digest |-> <<>>]

HitlInit ==
    /\ checkpoint = NoCheckpoint
    /\ votes = <<>> /\ interventions = <<>>
    /\ artifact = NoArtifactYet
    /\ hitlNow = 0 /\ decidedAt = 0

RequiresApproval(tier) == tier \in {"high", "critical"}

MinApprovals == [low |-> 0, medium |-> 0, high |-> 1, critical |-> 2]

(* What is kept of a checkpoint and of the votes and interventions on it.   *)
(* Labels, explanations, comments and reasons decide nothing.               *)
CheckpointStatus == {"pending", "approved", "rejected", "expired", "paused"}

ApprovalCheckpoint == [status : CheckpointStatus, tier : RiskTier, expires : Nat]

VoteDecision == {"approve", "reject", "changes"}

ApprovalVote == [voter : Voter, decision : VoteDecision]

InterventionAction == {"pause", "edit", "continue", "abort"}

HitlArtifact == [digest : CheckpointStatus \X Nat \X Nat \X Nat, outcome : CheckpointStatus,
                 approvals : Nat, rejections : Nat]

(* ApprovalPolicy::evaluate_risk: the first rule whose pattern the label   *)
(* contains; a rule without timeout takes the default.                     *)
EvaluateRisk(label) ==
    LET matching == {i \in DOMAIN ApprovalRules : ApprovalRules[i].pattern \in label}
        first == CHOOSE i \in matching : \A j \in matching : i <= j
        rule == IF matching = {} THEN [tier |-> "low", timeout |-> NoTimeout]
                ELSE ApprovalRules[first]
    IN  [tier    |-> rule.tier,
         timeout |-> IF rule.timeout = NoTimeout THEN DefaultTimeout ELSE rule.timeout]

CreateCheckpoint(label) ==
    /\ checkpoint = NoCheckpoint
    /\ LET r == EvaluateRisk(label)
       IN  checkpoint' = [status |-> "pending", tier |-> r.tier,
                          expires |-> IF r.timeout = NoTimeout THEN NoTimeout ELSE hitlNow + r.timeout]
    /\ UNCHANGED <<votes, interventions, artifact, hitlNow, decidedAt>>

IsTerminal == checkpoint.status \in {"approved", "rejected", "expired"}

IsExpiredNow == checkpoint.expires # NoTimeout /\ hitlNow >= checkpoint.expires

Open == checkpoint # NoCheckpoint /\ artifact = NoArtifactYet

-----------------------------------------------------------------------------
(* submit_vote: a vote on a terminal checkpoint is refused, one that comes *)
(* too late expires it, a second vote of the same voter is refused.  A     *)
(* plausible bug forgets who voted.                                        *)
AcceptsAnyVote(v) == ~IsTerminal /\ ~IsExpiredNow

AcceptsVote(v) == ~IsTerminal /\ ~IsExpiredNow /\ \A i \in DOMAIN votes : votes[i].voter # v

SubmitVote(v, d) ==
    /\ Open
    /\ \/ /\ AcceptsVote(v)
          /\ votes' = Append(votes, [voter |-> v, decision |-> d])
          /\ UNCHANGED checkpoint
       \/ /\ ~IsTerminal /\ IsExpiredNow
          /\ checkpoint' = [checkpoint EXCEPT !.status = "expired"]
          /\ UNCHANGED votes
    /\ UNCHANGED <<interventions, artifact, hitlNow, decidedAt>>

Count(d) == Cardinality({i \in DOMAIN votes : votes[i].decision = d})

(* evaluate_checkpoint, while the checkpoint is pending or paused.         *)
Evaluation ==
    LET required == MinApprovals[checkpoint.tier]
    IN  CASE IsExpiredNow -> "expired"
          [] Count("reject") > 0 /\ ~IsExpiredNow -> "rejected"
          [] OTHER -> IF \/ Count("approve") >= required /\ required > 0
                         \/ ~RequiresApproval(checkpoint.tier)
                      THEN "approved" ELSE checkpoint.status

EvaluateCheckpoint ==
    /\ Open /\ ~IsTerminal /\ Evaluation # checkpoint.status
    /\ checkpoint' = [checkpoint EXCEPT !.status = Evaluation]
    /\ decidedAt' = hitlNow
    /\ UNCHANGED <<votes, interventions, artifact, hitlNow>>

(* apply_intervention: pause, edit and abort apply in every status.        *)
Intervened(action) ==
    CASE action \in {"pause", "edit"} -> "paused"
      [] action = "continue"          -> "pending"
      [] action = "abort"             -> "rejected"

ApplyIntervention(action) ==
    /\ Open /\ Len(interventions) < MaxInterventions
    /\ action = "continue" => checkpoint.status = "paused"
    /\ checkpoint' = [checkpoint EXCEPT !.status = Intervened(action)]
    /\ interventions' = Append(interventions, action)
    /\ UNCHANGED <<votes, artifact, hitlNow, decidedAt>>

(* HitlArtifact: the digest covers the status and the numbers of votes and *)
(* interventions; DecisionSummary counts the votes.                        *)
Digest == <<checkpoint.status, Len(votes), Len(interventions), hitlNow>>

Finalize ==
    /\ Open /\ IsTerminal
    /\ artifact' = [digest |-> Digest, outcome |-> checkpoint.status,
                    approvals |-> Count("approve"), rejections |-> Count("reject")]
    /\ UNCHANGED <<checkpoint, votes, interventions, hitlNow, decidedAt>>

HitlTick ==
    /\ hitlNow < MaxHitlTime /\ hitlNow' = hitlNow + 1
    /\ UNCHANGED <<checkpoint, votes, interventions, artifact, decidedAt>>

HitlNext ==
    \/ EvaluateCheckpoint \/ Finalize \/ HitlTick
    \/ \E l \in Label : CreateCheckpoint(l)
    \/ \E v \in Voter, d \in VoteDecision : SubmitVote(v, d)
    \/ \E a \in InterventionAction : ApplyIntervention(a)

HitlSpec == HitlInit /\ [][HitlNext]_hitlVars

-----------------------------------------------------------------------------
HitlTypeOK ==
    /\ checkpoint = NoCheckpoint \/ checkpoint \in ApprovalCheckpoint
    /\ votes \in Seq(ApprovalVote) /\ interventions \in Seq(InterventionAction)
    /\ artifact = NoArtifactYet \/ artifact \in HitlArtifact
    /\ hitlNow \in Nat /\ decidedAt \in 0 .. hitlNow

(* However votes, pauses, edits and the clock interleave, an approved      *)
(* checkpoint of a tier that requires approval was approved before its     *)
(* deadline by as many different people as the tier asks for, and nobody   *)
(* rejected it.                                                            *)
ApprovedByQuorum ==
    checkpoint.status = "approved" =>
        /\ \A i \in DOMAIN votes : votes[i].decision # "reject"
        /\ Cardinality({votes[i].voter : i \in {j \in DOMAIN votes : votes[j].decision = "approve"}})
             >= MinApprovals[checkpoint.tier]
        /\ checkpoint.expires # NoTimeout => decidedAt < checkpoint.expires

=============================================================================

----------------------------- MODULE PublishLog -----------------------------
(***************************************************************************)
(* What `aivcs publish` promises about a branch: its head only advances to *)
(* a child of itself, and a publisher is told of success only for a commit *)
(* the branch has pointed to.                                              *)
(***************************************************************************)
CONSTANTS CommitId, Identity, None

VARIABLES
    head,     \* the commit the branch points to, or None
    landed,   \* every commit it has pointed to
    acked     \* the commits whose publishers were told of success

logvars == <<head, landed, acked>>

LogInit ==
    /\ head \in CommitId \cup {None}
    /\ landed = {head} \ {None}
    /\ acked = {}

Advance(id) ==
    /\ head = None \/ head \in Identity[id].parents
    /\ head' = id
    /\ landed' = landed \cup {id}
    /\ UNCHANGED acked

Acknowledge(id) ==
    /\ id \in landed
    /\ acked' = acked \cup {id}
    /\ UNCHANGED <<head, landed>>

LogNext == \E id \in CommitId : Advance(id) \/ Acknowledge(id)

LogSpec == LogInit /\ [][LogNext]_logvars

=============================================================================

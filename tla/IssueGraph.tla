----------------------------- MODULE IssueGraph -----------------------------
(***************************************************************************)
(* The issue graph library: one issue with its branches of commits, and    *)
(* the typed links between the nodes of the mesh.  The library keeps the   *)
(* issue itself; the rows of the links belong to the store of a server     *)
(* outside this repository, which is modelled from what the library offers *)
(* it: canonical rows, same_relationship for idempotent creation, and the  *)
(* cycle check for `blocks` and the other relations that must not close.   *)
(***************************************************************************)
EXTENDS Integers, Sequences, FiniteSets

CONSTANTS
    BranchName,       \* names of branches, "main" included
    LinkNode,         \* the nodes of the mesh to link
    LinkKind,         \* the kinds a client may declare
    MaxIssueSteps,    \* bound on operations on the issue
    MaxLinks          \* bound on rows of links

(* MeshRef: `kind:id`, where the id is never empty. *)
NodeKind == {"issue", "pr", "ci-run", "agent", "commit", "check", "artifact", "service",
             "finding", "metric"}

MeshRef == [kind : NodeKind, id : Nat]

(* Kinds come in pairs, one of which is stored; `relates` is its own.       *)
PassiveOf ==
    [blocks |-> "blocked-by", parent |-> "child", implements |-> "implemented-by",
     verifies |-> "verified-by", produces |-> "produced-by", triggers |-> "triggered-by",
     authored |-> "authored-by", gates |-> "gated-by", probes |-> "probed-by",
     found |-> "found-by", measured |-> "measured-by", relates |-> "relates"]

MeshEdgeKind == DOMAIN PassiveOf \cup {PassiveOf[k] : k \in DOMAIN PassiveOf}

MeshEdge == [from : MeshRef, kind : MeshEdgeKind, to : MeshRef]

ASSUME IssueAssumption ==
    /\ "main" \in BranchName /\ MaxIssueSteps \in Nat /\ MaxLinks \in Nat
    /\ LinkNode \subseteq MeshRef /\ IsFiniteSet(LinkNode) /\ LinkKind \subseteq MeshEdgeKind

VARIABLES
    issue,       \* [branches, current, ledger]: what an operation reads
    drawn,       \* commit ids drawn so far: Uuid::new_v4
    links        \* the stored rows, [from, kind, to]

issueVars == <<issue, drawn, links>>

NoParent == 0

(* IssueCommit, and what IssueGraph keeps of an issue: the commits of its   *)
(* branches and the log of operations.  Titles, intents, criteria and       *)
(* references of all kinds are carried along and decide nothing.            *)
IssueCommit == [id : Nat \ {0}, parent : Nat]

IssueRecord(i) ==
    /\ DOMAIN i.branches \subseteq BranchName /\ i.current \in DOMAIN i.branches
    /\ \A b \in DOMAIN i.branches : i.branches[b] \in Seq(IssueCommit)
    /\ \A n \in DOMAIN i.ledger :
          i.ledger[n][1] \in {"checkout", "create", "commit", "merge"}

(* IssueGraph::new *)
IssueInit ==
    /\ issue = [branches |-> [b \in {"main"} |-> <<>>],
                current |-> "main", ledger |-> <<>>]
    /\ drawn = 0
    /\ links = {}

-----------------------------------------------------------------------------
CurrentCommits == issue.branches[issue.current]

(* latest_commit *)
LatestCommit ==
    IF CurrentCommits = <<>> THEN NoParent ELSE CurrentCommits[Len(CurrentCommits)].id

Logged(entry) == Append(issue.ledger, entry)

Busy == Len(issue.ledger) < MaxIssueSteps

(* checkout: refused for a branch that does not exist. *)
Checkout(b) ==
    /\ Busy /\ b \in DOMAIN issue.branches
    /\ issue' = [issue EXCEPT !.current = b, !.ledger = Logged(<<"checkout", b>>)]
    /\ UNCHANGED <<drawn, links>>

(* A branch that starts at the latest commit, without the ones before it. *)
BranchCommitsLatest ==
    IF CurrentCommits = <<>> THEN <<>> ELSE <<CurrentCommits[Len(CurrentCommits)]>>

(* create_branch: a copy of the commits of the current branch. *)
BranchCommits == CurrentCommits

CreateIssueBranch(b) ==
    /\ Busy /\ b \notin DOMAIN issue.branches
    /\ issue' = [issue EXCEPT
          !.branches = [c \in DOMAIN @ \cup {b} |-> IF c = b THEN BranchCommits ELSE @[c]],
          !.ledger = Logged(<<"create", b>>)]
    /\ UNCHANGED <<drawn, links>>

(* commit and commit_detailed: both take the latest commit of the current   *)
(* branch as the parent; the detailed form only brings its own text fields. *)
Commit ==
    LET new == [id |-> drawn + 1, parent |-> LatestCommit]
    IN  /\ Busy
        /\ drawn' = drawn + 1
        /\ issue' = [issue EXCEPT !.branches[issue.current] = Append(@, new),
                                  !.ledger = Logged(<<"commit", new.id>>)]
        /\ UNCHANGED links

(* semantic_merge: the commits of the source that the target lacks are      *)
(* pushed onto it in their order.                                           *)
Merged(target, source) ==
    LET existing == {target[i].id : i \in DOMAIN target}
        pushed[n \in 0..Len(source)] ==
            IF n = 0 THEN target
            ELSE IF source[n].id \in existing THEN pushed[n - 1]
            ELSE Append(pushed[n - 1], source[n])
    IN  pushed[Len(source)]

SemanticMerge(target, source) ==
    /\ Busy /\ {source, target} \subseteq DOMAIN issue.branches
    /\ issue' = [issue EXCEPT !.branches[target] = Merged(@, issue.branches[source]),
                              !.ledger = Logged(<<"merge", source>>)]
    /\ UNCHANGED <<drawn, links>>

-----------------------------------------------------------------------------
InverseKind(kind) ==
    IF kind \in DOMAIN PassiveOf THEN PassiveOf[kind]
    ELSE CHOOSE k \in DOMAIN PassiveOf : PassiveOf[k] = kind

IsCanonical(kind) == kind \in DOMAIN PassiveOf

(* MeshEdge::canonical and IssueEdge::canonical *)
Canonical(from, kind, to) ==
    IF IsCanonical(kind) THEN [from |-> from, kind |-> kind, to |-> to]
    ELSE [from |-> to, kind |-> InverseKind(kind), to |-> from]

SameRelationship(e, f) ==
    /\ e.kind = f.kind
    /\ \/ e.from = f.from /\ e.to = f.to
       \/ e.kind = "relates" /\ e.from = f.to /\ e.to = f.from

(* The nodes that the search of would_create_cycle marks as seen: from      *)
(* `node`, along stored edges of one kind.                                  *)
Reached(kind, node) ==
    LET edges == {e \in links : e.kind = kind}
        layer[n \in 0..Cardinality(LinkNode)] ==
            IF n = 0 THEN {node}
            ELSE layer[n - 1] \cup {e.to : e \in {f \in edges : f.from \in layer[n - 1]}}
    IN  layer[Cardinality(LinkNode)]

(* would_create_cycle, and would_create_blocks_cycle for "blocks". *)
WouldCreateCycle(candidate) ==
    candidate.kind # "relates" /\ candidate.from \in Reached(candidate.kind, candidate.to)

(* The store of the links (not in this repository): a self link is refused, *)
(* a relationship that is there already is not stored again, one that would *)
(* close a cycle is refused.                                                *)
StoreLink(from, kind, to) ==
    LET edge == Canonical(from, kind, to)
    IN  /\ from # to
        /\ Cardinality(links) < MaxLinks
        /\ ~\E e \in links : SameRelationship(e, edge)
        /\ ~WouldCreateCycle(edge)
        /\ links' = links \cup {edge}
        /\ UNCHANGED <<issue, drawn>>

IssueNext ==
    \/ \E b \in BranchName : Checkout(b) \/ CreateIssueBranch(b)
    \/ Commit
    \/ \E t, s \in DOMAIN issue.branches : SemanticMerge(t, s)

LinkNext == \E x, y \in LinkNode, k \in LinkKind : StoreLink(x, k, y)

IssueSpec == IssueInit /\ [][IssueNext \/ LinkNext]_issueVars

-----------------------------------------------------------------------------
IssueTypeOK == IssueRecord(issue) /\ drawn \in Nat /\ links \subseteq MeshEdge

(* On every branch each commit occurs once, after the commit it names as    *)
(* its parent: branches that were copied, extended and merged into one      *)
(* another in any order can still be read as histories.                     *)
HistoriesClosed ==
    \A b \in DOMAIN issue.branches :
       LET commits == issue.branches[b]
       IN  /\ \A i, j \in DOMAIN commits : commits[i].id = commits[j].id => i = j
           /\ \A i \in DOMAIN commits :
                 commits[i].parent # NoParent =>
                    \E j \in 1..(i - 1) : commits[j].id = commits[i].parent

(* A relation between two nodes has one row, whichever end declared it and  *)
(* in whichever form, and no node reaches itself along the rows of a        *)
(* relation that must not close.                                            *)
LinksSound ==
    /\ \A e \in links : IsCanonical(e.kind)
    /\ \A e, f \in links :
          /\ e.kind = "relates" /\ f.kind = "relates" /\ {e.from, e.to} = {f.from, f.to} => e = f
          /\ e.kind # "relates" /\ e.kind = f.kind => ~(e.from = f.to /\ e.to = f.from)
    /\ \A kind \in {e.kind : e \in links} \ {"relates"} :
          \A S \in (SUBSET LinkNode) \ {{}} :
             \E x \in S : \A y \in S : [from |-> x, kind |-> kind, to |-> y] \notin links

IssueGraphSound == HistoriesClosed /\ LinksSound

=============================================================================

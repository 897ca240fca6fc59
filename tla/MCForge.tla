------------------------------ MODULE MCForge ------------------------------
(***************************************************************************)
(* Instances of ForgeCas for TLC: two handlers, one repository with an     *)
(* empty root commit, a commit `base` with one blob and a commit `tip` on  *)
(* top of it that keeps that blob and adds another; in the runs on         *)
(* isolation also a second repository.                                     *)
(***************************************************************************)
EXTENDS ForgeCas, TLC

CONSTANTS s1, s2, r1, r2, main, dev, d1, d2, root, root2, base, tip

MCIdentity ==
    [c \in CommitId |->
        CASE c = root  -> [repo |-> r1, manifest |-> {}, parents |-> {}, meta |-> "init"]
          [] c = root2 -> [repo |-> r2, manifest |-> {}, parents |-> {}, meta |-> "init"]
          [] c = base  -> [repo |-> r1, manifest |-> {d1}, parents |-> {}, meta |-> "agent"]
          [] c = tip   -> [repo |-> r1, manifest |-> {d1, d2}, parents |-> {base},
                           meta |-> "agent"]]

MCRoot == [r \in Repo |-> IF r = r1 THEN root ELSE root2]

(* Handlers are interchangeable. *)
SlotSymmetry == Permutations(Slot)

(* Requests, route by route. *)
Blank(op, c) ==
    [op |-> op, repo |-> Identity[c].repo, branch |-> Main, id |-> c,
     doc |-> Identity[c], blobs |-> {}, updates |-> <<>>, head |-> None,
     absent |-> FALSE, private |-> None]

Blobs   == {[Blank("put_blob", root) EXCEPT !.blobs = {d}] : d \in Digest}
Commits == {Blank("create_commit", c) : c \in CommitId}
Posts   == {Blank("post_commit", base)}
Repos   == {[Blank("create_repo", Root[r]) EXCEPT !.private = p] :
                r \in Repo, p \in {None, FALSE}}
Sources == {Blank("source", root), [Blank("source", root) EXCEPT !.head = tip]}

(* Branch updates with an expectation, without one, and with both kinds.    *)
Updates ==
    {[Blank("update_branch", root) EXCEPT !.repo = r, !.branch = b, !.id = c,
        !.head = h, !.absent = a] :
        r \in Repo, b \in Branch, c \in CommitId, h \in CommitId \cup {None},
        a \in BOOLEAN}

(* Publishes of `tip`: with or without its blobs, moving no branch, one     *)
(* branch, or the same branch twice; one under another commit's id, and one *)
(* addressed to another repository's name.                                  *)
Publishes ==
    {[Blank("publish", tip) EXCEPT !.blobs = bs, !.updates = us] :
        bs \in {{}, {d2}, {d1, d2}},
        us \in {<<>>, <<<<Main, tip>>>>, <<<<Main, base>>, <<Main, tip>>>>}}
      \cup {[Blank("publish", tip) EXCEPT !.id = base, !.blobs = {d1, d2},
                !.updates = <<<<Main, base>>, <<Main, tip>>>>]}

ForeignPublish == {[Blank("publish", tip) EXCEPT !.repo = r2]}

CoreRequests == Blobs \cup Commits \cup Updates \cup Repos \cup Sources
PublishRequests == Blobs \cup Commits \cup Publishes \cup Sources
TwoRepoRequests == Blobs \cup Commits \cup Repos \cup Publishes \cup ForeignPublish
                     \cup {q \in Updates : q.head = None /\ ~ q.absent}
TrustRequests   == Blobs \cup Posts \cup Commits

=============================================================================

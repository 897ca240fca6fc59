----------------------------- MODULE MCPublish -----------------------------
(***************************************************************************)
(* Instances of ForgePublish for TLC.  A commit id is the chain of the     *)
(* publishers whose commits lead to it, after the root commit if there is  *)
(* one: the content of a commit is its last publisher's tree on top of the *)
(* rest of the chain.                                                      *)
(***************************************************************************)
EXTENDS ForgePublish, TLC

CONSTANTS s1, s2, s3, alice, bob, repo, main, dev, da, db, MaxHistory

Chains(n) == UNION {[1..k -> Client] : k \in 1..n}
FromRoot == {<<>>} \cup {<<TRUE>> \o x : x \in Chains(MaxHistory)}
MCCommitId == FromRoot \cup {<<FALSE>> \o x : x \in Chains(MaxHistory)}

(* <<>> is the root commit, <<TRUE, ...>> a chain that starts from it and   *)
(* <<FALSE, ...>> a chain whose first commit has no parent.                 *)
MCIdentity ==
    [x \in CommitId |->
        IF x = <<>> THEN [repo |-> repo, manifest |-> {}, parents |-> {}, meta |-> "init"]
        ELSE LET n == Len(x)
                 c == x[n]
             IN  [repo |-> repo, manifest |-> Tree[c], meta |-> Name[c],
                  parents |-> IF n > 2 THEN {SubSeq(x, 1, n - 1)}
                              ELSE IF x[1] THEN {<<>>} ELSE {}]]

MCRoot == [r \in Repo |-> <<>>]

(* The trees share a blob, so an incremental upload leaves something out.   *)
MCTree == [c \in Client |-> IF c = alice THEN {da} ELSE {da, db}]
MCName == [c \in Client |-> IF c = alice THEN "alice" ELSE "bob"]

(* Nobody runs the command again, or only alice does. *)
Once == [c \in Client |-> 0]
AliceTwice == [c \in Client |-> IF c = alice THEN 1 ELSE 0]

SlotSymmetry == Permutations(Slot)

=============================================================================

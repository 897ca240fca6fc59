-------------------------- MODULE ReleaseRegistry --------------------------
(***************************************************************************)
(* The releases of one agent: an append-only history whose newest entry,   *)
(* by the promoter's clock, is the current release.  promote is one call;  *)
(* rollback reads the history and promotes its second entry in another.    *)
(***************************************************************************)
EXTENDS Naturals, Sequences, FiniteSets

CONSTANTS Promoter,      (* clients of the registry *)
          Skew,          (* Promoter -> Nat: how far its clock is ahead *)
          AgentSpec,     (* specs a client may promote *)
          MaxReleases,   (* bound on promotions *)
          ReleaseFaults  (* bound on calls whose answer is lost *)

ASSUME ReleaseAssumption ==
    Skew \in [Promoter -> Nat] /\ MaxReleases \in Nat /\ ReleaseFaults \in Nat

VARIABLES releases,  (* the collection, in the order of insertion *)
          now,       (* true time: one unit per stamp *)
          client,    (* promoter -> what it is doing *)
          rfaults

releaseVars == <<releases, now, client, rfaults>>

IdleClient == [pc |-> "idle"]

(* A release as the registry keeps it; at is created_at.                   *)
ReleaseRecord == [digest : {s.digest : s \in AgentSpec}, at : Nat]

ReleaseInit ==
    /\ releases = <<>>
    /\ now = 0
    /\ client = [p \in Promoter |-> IdleClient]
    /\ rfaults = 0

(* validate_spec_for_promote: no empty component, no empty git sha, and    *)
(* the digest recomputed from the components.                              *)
ValidSpec(s) == s.components = "complete" /\ s.digest = s.computed

(* release_history: newest first; sort_by_key is stable, so entries with   *)
(* the same stamp stay in the order of insertion.                          *)
ReleaseHistory ==
    LET newer(i) == {j \in DOMAIN releases :
                        \/ releases[j].at > releases[i].at
                        \/ releases[j].at = releases[i].at /\ j < i}
    IN  [n \in DOMAIN releases |->
            releases[CHOOSE i \in DOMAIN releases : Cardinality(newer(i)) = n - 1]]

(* The record of a promotion is stamped before it is sent.                 *)
Stamp(p, digest, kind) ==
    client' = [client EXCEPT ![p] = [pc |-> "send", digest |-> digest, at |-> now + Skew[p],
                                     kind |-> kind, read |-> Len(releases)]]

Promote(p, s) ==
    /\ client[p].pc = "idle" /\ now < MaxReleases
    /\ ValidSpec(s)
    /\ Stamp(p, s.digest, "promote")
    /\ now' = now + 1
    /\ UNCHANGED <<releases, rfaults>>

(* release_rollback: NotFound and NoPreviousRelease end it at once.  A     *)
(* plausible bug promotes the oldest release.                              *)
RollbackTargetOldest(history) == history[Len(history)]

RollbackTarget(history) == history[2]

Rollback(p) ==
    /\ client[p].pc = "idle" /\ now < MaxReleases
    /\ Len(ReleaseHistory) >= 2
    /\ Stamp(p, RollbackTarget(ReleaseHistory).digest, "rollback")
    /\ now' = now + 1
    /\ UNCHANGED <<releases, rfaults>>

Entry(c) == [digest |-> c.digest, at |-> c.at]

(* release_promote in the mesh: the key is name, digest and stamp.         *)
Appended(c) ==
    IF \E i \in DOMAIN releases : releases[i] = Entry(c) THEN releases
    ELSE Append(releases, Entry(c))

SendRelease(p) ==
    /\ client[p].pc = "send"
    /\ releases' = Appended(client[p])
    /\ client' = [client EXCEPT ![p] = IdleClient]
    /\ UNCHANGED <<now, rfaults>>

SendReleaseLost(p) ==
    /\ client[p].pc = "send" /\ rfaults < ReleaseFaults
    /\ releases' \in {releases, Appended(client[p])}
    /\ client' = [client EXCEPT ![p] = IdleClient]
    /\ rfaults' = rfaults + 1
    /\ UNCHANGED now

ReleaseNext ==
    \E p \in Promoter :
        \/ Rollback(p) \/ SendRelease(p) \/ SendReleaseLost(p)
        \/ \E s \in AgentSpec : Promote(p, s)

ReleaseSpec == ReleaseInit /\ [][ReleaseNext]_releaseVars

-----------------------------------------------------------------------------
ReleaseTypeOK ==
    /\ now \in 0 .. MaxReleases /\ rfaults \in 0 .. ReleaseFaults
    /\ releases \in Seq(ReleaseRecord) /\ Len(releases) <= now
    /\ \A i, j \in DOMAIN releases : releases[i] = releases[j] => i = j

(* A rollback undoes the last change of the release: the release current   *)
(* after it is the one that was current before the last promotion or       *)
(* rollback.  It holds when nothing was promoted between its reading and   *)
(* its own promotion, and no clock ran behind a stamp already stored.      *)
InStampOrder == \A i, j \in DOMAIN releases : i < j => releases[i].at < releases[j].at

RollbackUndoesLast ==
    [][\A p \in Promoter :
          /\ client[p].pc = "send" /\ client[p].kind = "rollback" /\ client'[p] = IdleClient
          /\ client[p].read = Len(releases) /\ Len(releases') > Len(releases)
          /\ InStampOrder'
          => ReleaseHistory'[1].digest = releases[Len(releases) - 1].digest]_releaseVars

=============================================================================

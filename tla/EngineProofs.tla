---------------------------- MODULE EngineProofs ----------------------------
(***************************************************************************)
(* The engines' run queue and the source controller, for any number of     *)
(* engines, runs, revisions and faults.                                    *)
(***************************************************************************)
EXTENDS MCQueue, FiniteSetTheorems, WellFoundedInduction, TLAPS

-----------------------------------------------------------------------------
(* The source controller.  Between the emit and the patch the revision     *)
(* about to be recorded is known to be delivered.                          *)
ControllerInv ==
    /\ ControllerTypeOK
    /\ RecordedWasDelivered
    /\ WatchedBranch = "main" /\ EmitEnabled /\ reconciler.pc = "patch"
         => reconciler.head \in EventIds(received)

(* The receiver keeps what it has and has what was delivered to it. *)
LEMMA DeliverKeeps ==
    ASSUME NEW r, NEW S
    PROVE  /\ EventIds(S) \subseteq EventIds(Deliver(MergeEventPayload(r), S))
           /\ r \in EventIds(Deliver(MergeEventPayload(r), S))
           /\ S \subseteq Deliver(MergeEventPayload(r), S)
           /\ Deliver(MergeEventPayload(r), S) \subseteq S \cup {MergeEventPayload(r)}
  <1> DEFINE e == MergeEventPayload(r)
  <1>1. e.event_id = r
    BY DEF MergeEventPayload
  <1>2. Deliver(e, S) = IF r \in EventIds(S) THEN S ELSE S \cup {e}
    BY <1>1 DEF Deliver
  <1> HIDE DEF e
  <1>3. r \in EventIds(S \cup {e}) /\ EventIds(S) \subseteq EventIds(S \cup {e})
    BY <1>1 DEF EventIds
  <1>4. /\ EventIds(S) \subseteq EventIds(Deliver(e, S)) /\ r \in EventIds(Deliver(e, S))
        /\ S \subseteq Deliver(e, S) /\ Deliver(e, S) \subseteq S \cup {e}
    BY <1>2, <1>3
  <1> QED
    BY <1>4 DEF e

(* The controller starts with nothing recorded. *)
LEMMA ControllerInitInv == ControllerInit => ControllerInv
  BY ControllerAssumption
     DEF ControllerInit, ControllerInv, ControllerTypeOK, RecordedWasDelivered, Rev, Waiting

(* A reconcile records a revision only after the receiver has its event,   *)
(* however it fails and is repeated.                                       *)
LEMMA ControllerStepInv == ControllerInv /\ [ControllerNext]_controllerVars => ControllerInv'
  <1> SUFFICES ASSUME ControllerInv, [ControllerNext]_controllerVars
               PROVE  ControllerInv'
    OBVIOUS
  <1> USE ControllerAssumption DEF ControllerInv, ControllerTypeOK, RecordedWasDelivered, Rev
  <1>1. CASE AdvanceHead
    BY <1>1 DEF AdvanceHead
  <1>2. CASE SyncCache
    BY <1>2 DEF SyncCache
  <1>3. CASE ResolveBranchHead
    BY <1>3 DEF ResolveBranchHead, ShouldEmit
  <1>4. CASE Emit
    BY <1>4, DeliverKeeps DEF Emit
  <1>5. CASE PatchStatus
    BY <1>5 DEF PatchStatus, Waiting
  <1>6. CASE ReconcileFails
    BY <1>6, DeliverKeeps DEF ReconcileFails, Waiting
  <1>7. CASE UNCHANGED controllerVars
    BY <1>7 DEF controllerVars
  <1> QED
    BY <1>1, <1>2, <1>3, <1>4, <1>5, <1>6, <1>7 DEF ControllerNext

-----------------------------------------------------------------------------
(* What query_documents returns.                                           *)

(* A set of naturals has a least element: the induction of this module.    *)
LEMMA LeastNatural ==
    ASSUME NEW T, T \subseteq Nat, T # {}
    PROVE  \E m \in T : \A k \in T : m <= k
  <1>1. PICK R : /\ IsWellFoundedOn(R, Nat)
                 /\ \A x, y \in Nat : x < y => <<x, y>> \in R
    BY NatLessThanWellFounded DEF OpToRel
  <1>2. PICK m \in T : \A k \in T : ~ (<<k, m>> \in R)
    <2>1. IsWellFoundedOn(R, Nat)
      BY <1>1
    <2> QED BY ONLY <2>1, T \subseteq Nat, T # {}, WFMin, Zenon
  <1>3. \A k \in T : m <= k
    <2> SUFFICES ASSUME NEW k \in T, ~ (m <= k) PROVE FALSE
      OBVIOUS
    <2>1. k < m
      OBVIOUS
    <2> QED BY <1>1, <1>2, <2>1
  <1> QED BY <1>2, <1>3

(* m[n] are the matching documents among the first n, the newest first.    *)
Collects(m, D, c, field, value) ==
    /\ m \in [0 .. Len(c) -> Seq(D)] /\ m[0] = <<>>
    /\ \A n \in 1 .. Len(c) :
          m[n] = IF c[n].data[field] = value THEN <<c[n].data>> \o m[n - 1] ELSE m[n - 1]

(* MatchesUpTo is such a function: it exists (a least length without one   *)
(* would not be least), so the CHOOSE of its definition picks it.          *)
LEMMA MatchesRecursion ==
    ASSUME NEW D, NEW c, Len(c) \in Nat, \A n \in 1 .. Len(c) : c[n].data \in D,
           NEW field, NEW value
    PROVE  Collects(MatchesUpTo(c, field, value), D, c, field, value)
  <1> DEFINE V == Seq(D)
             step(n, x) == IF c[n].data[field] = value THEN <<c[n].data>> \o x ELSE x
             Body(f) == [n \in 0 .. Len(c) |-> IF n = 0 THEN <<>> ELSE step(n, f[n - 1])]
             m == MatchesUpTo(c, field, value)
  <1>1. m = CHOOSE g : g = Body(g)
    BY DEF MatchesUpTo
  <1>2. <<>> \in V /\ \A n \in 1 .. Len(c), x \in V : step(n, x) \in V
    OBVIOUS
  <1> HIDE DEF V, m
  <1> SUFFICES /\ m \in [0 .. Len(c) -> V] /\ m[0] = <<>>
               /\ \A n \in 1 .. Len(c) : m[n] = step(n, m[n - 1])
    BY DEF m, V, Collects
  <1> HIDE DEF step
  <1> DEFINE Good(k, f) == /\ f \in [0 .. k -> V] /\ f[0] = <<>>
                           /\ \A n \in 1 .. k : f[n] = step(n, f[n - 1])
             T == {k \in 0 .. Len(c) : ~ \E f : Good(k, f)}
  <1>3. /\ \A k \in 0 .. Len(c) : k \notin T => \E f : Good(k, f)
        /\ \A k \in T : ~ \E f : Good(k, f)
        /\ T \subseteq Nat /\ T \subseteq 0 .. Len(c)
    OBVIOUS
  <1>4. ASSUME T # {} PROVE FALSE
    <2>1. PICK k \in T : \A j \in T : k <= j
      <3> HIDE DEF T
      <3> QED BY <1>3, <1>4, LeastNatural
    <2> HIDE DEF T
    <2>2. CASE k = 0
      <3>1. Good(0, [i \in 0 .. 0 |-> <<>>])
        BY <1>2
      <3> QED BY <1>3, <2>1, <2>2, <3>1
    <2>3. CASE k # 0
      <3>1. k - 1 \in 0 .. Len(c) /\ k - 1 \notin T /\ k \in 1 .. Len(c)
        BY <1>3, <2>1, <2>3
      <3>2. PICK f : Good(k - 1, f)
        BY <1>3, <3>1
      <3> DEFINE g == [i \in 0 .. k |-> IF i = k THEN step(k, f[k - 1]) ELSE f[i]]
      <3>3. step(k, f[k - 1]) \in V
        BY <1>2, <3>1, <3>2
      <3>4. g \in [0 .. k -> V]
        BY <3>1, <3>2, <3>3
      <3>5. ASSUME NEW n \in 1 .. k PROVE g[n] = step(n, g[n - 1])
        <4>1. CASE n = k
          BY <4>1, <3>1
        <4>2. CASE n # k
          <5>1. n \in 1 .. k - 1 /\ n - 1 \in 0 .. k /\ n - 1 # k
            BY <4>2, <3>1
          <5> QED BY <5>1, <4>2, <3>2
        <4> QED BY <4>1, <4>2
      <3>6. g[0] = <<>>
        BY <2>3, <3>1, <3>2
      <3>7. Good(k, g)
        BY <3>4, <3>5, <3>6
      <3> HIDE DEF Good, g
      <3> QED BY <1>3, <2>1, <3>7
    <2> QED BY <2>2, <2>3
  <1>5. PICK f : Good(Len(c), f)
    <2> HIDE DEF Good, T
    <2> QED BY <1>3, <1>4
  <1>6. f = Body(f)
    <2>1. \A n \in 0 .. Len(c) : f[n] = IF n = 0 THEN <<>> ELSE step(n, f[n - 1])
      BY <1>5
    <2>2. f = [n \in 0 .. Len(c) |-> f[n]]
      BY <1>5
    <2> QED BY <2>1, <2>2
  <1>7. m = Body(m)
    <2> HIDE DEF Body
    <2> QED BY <1>1, <1>6
  <1>8. /\ DOMAIN m = 0 .. Len(c) /\ m = [i \in 0 .. Len(c) |-> m[i]] /\ m[0] = <<>>
        /\ \A n \in 1 .. Len(c) : m[n] = step(n, m[n - 1])
    BY <1>7
  <1>9. \A n \in 0 .. Len(c) : m[n] \in V
    <2> DEFINE U == {k \in 0 .. Len(c) : m[k] \notin V}
    <2> SUFFICES ASSUME U # {} PROVE FALSE
      OBVIOUS
    <2>1. PICK k \in U : \A j \in U : k <= j
      <3>1. U \subseteq Nat
        OBVIOUS
      <3> HIDE DEF U
      <3> QED BY <3>1, LeastNatural
    <2>2. k # 0
      BY <1>2, <1>8
    <2>3. k - 1 \in 0 .. Len(c) /\ m[k - 1] \in V
      BY <2>1, <2>2
    <2> QED BY <1>2, <1>8, <2>2, <2>3
  <1> QED
    BY <1>8, <1>9

(* A document that is created comes first if it matches, and what was there *)
(* stays as it was.                                                         *)
Prepends(D, c, x, field, value) ==
    /\ Matches(c, field, value) \in Seq(D)
    /\ Matches(Append(c, x), field, value) =
          IF x.data[field] = value THEN <<x.data>> \o Matches(c, field, value)
                                   ELSE Matches(c, field, value)

(* One more document in the collection: what query_documents then finds. *)
LEMMA MatchesAppend ==
    ASSUME NEW E, NEW D, \A x \in E : x.data \in D, NEW c \in Seq(E), NEW x \in E,
           NEW field, NEW value
    PROVE  Prepends(D, c, x, field, value)
  <1> DEFINE d == Append(c, x)
             m == MatchesUpTo(c, field, value)
             q == MatchesUpTo(d, field, value)
             hit(y) == y.data[field] = value
  <1>1. /\ Len(c) \in Nat /\ Len(d) = Len(c) + 1 /\ d[Len(d)] = x
        /\ \A n \in 1 .. Len(c) : c[n] \in E /\ d[n] = c[n]
        /\ d \in Seq(E) /\ \A n \in 1 .. Len(d) : d[n] \in E
    OBVIOUS
  <1> HIDE DEF d
  <1>2. (\A n \in 1 .. Len(c) : c[n].data \in D) /\ \A n \in 1 .. Len(d) : d[n].data \in D
    BY <1>1
  <1>3. Collects(m, D, c, field, value) /\ Collects(q, D, d, field, value)
    <2>1. Len(d) \in Nat
      BY <1>1
    <2> QED BY <1>1, <1>2, <2>1, MatchesRecursion
  <1>4. /\ m \in [0 .. Len(c) -> Seq(D)] /\ m[0] = <<>>
        /\ \A n \in 1 .. Len(c) : m[n] = IF hit(c[n]) THEN <<c[n].data>> \o m[n - 1] ELSE m[n - 1]
    BY <1>3 DEF Collects
  <1>5. /\ q \in [0 .. Len(d) -> Seq(D)] /\ q[0] = <<>>
        /\ \A n \in 1 .. Len(d) : q[n] = IF hit(d[n]) THEN <<d[n].data>> \o q[n - 1] ELSE q[n - 1]
    BY <1>3 DEF Collects
  <1>6. Matches(c, field, value) = m[Len(c)] /\ Matches(d, field, value) = q[Len(d)]
    BY DEF Matches
  <1> HIDE DEF m, q, hit
  <1>7. \A n \in 0 .. Len(c) : q[n] = m[n]
    <2> DEFINE U == {k \in 0 .. Len(c) : q[k] # m[k]}
    <2> SUFFICES ASSUME U # {} PROVE FALSE
      OBVIOUS
    <2>1. PICK k \in U : \A j \in U : k <= j
      <3>1. U \subseteq Nat
        BY <1>1
      <3> HIDE DEF U
      <3> QED BY <3>1, LeastNatural
    <2>2. k # 0
      BY <1>4, <1>5
    <2>3. k \in 1 .. Len(c) /\ k \in 1 .. Len(d) /\ q[k - 1] = m[k - 1]
      BY <1>1, <2>1, <2>2
    <2>4. d[k] = c[k]
      BY <1>1, <2>3
    <2>5. q[k] = m[k]
      BY <1>4, <1>5, <2>3, <2>4
    <2> QED BY <2>5
  <1>8. Len(d) \in 1 .. Len(d) /\ Len(d) - 1 = Len(c) /\ Len(c) \in 0 .. Len(c)
    BY <1>1
  <1>9. q[Len(d)] = IF hit(x) THEN <<x.data>> \o m[Len(c)] ELSE m[Len(c)]
    BY <1>1, <1>5, <1>7, <1>8
  <1>10. m[Len(c)] \in Seq(D)
    BY <1>4, <1>8
  <1> QED
    BY <1>6, <1>9, <1>10 DEF d, hit, Prepends

(* An empty collection has no matching document. *)
LEMMA MatchesEmpty == ASSUME NEW field, NEW value PROVE Matches(<<>>, field, value) = <<>>
  <1>1. Len(<<>>) = 0 /\ Len(<<>>) \in Nat
    OBVIOUS
  <1>2. Collects(MatchesUpTo(<<>>, field, value), {}, <<>>, field, value)
    BY <1>1, MatchesRecursion
  <1> QED BY <1>1, <1>2 DEF Matches, Collects

(* The limit of a query cuts the oldest off. *)
LEMMA FirstOfTypes ==
    ASSUME NEW D, NEW s \in Seq(D), NEW limit \in Nat \ {0}
    PROVE  /\ FirstOf(s, limit) \in Seq(D)
           /\ Len(FirstOf(s, limit)) = IF Len(s) < limit THEN Len(s) ELSE limit
           /\ \A i \in 1 .. Len(FirstOf(s, limit)) : FirstOf(s, limit)[i] = s[i]
           /\ FirstOf(s, limit) = <<>> <=> s = <<>>
           /\ Len(s) <= limit => FirstOf(s, limit) = s
  <1> DEFINE n == IF Len(s) < limit THEN Len(s) ELSE limit
  <1>1. Len(s) \in Nat /\ n \in 0 .. Len(s)
    OBVIOUS
  <1> HIDE DEF n
  <1>2. /\ SubSeq(s, 1, n) \in Seq(D) /\ Len(SubSeq(s, 1, n)) = n
        /\ \A i \in 1 .. n : SubSeq(s, 1, n)[i] = s[i]
    BY <1>1
  <1>3. FirstOf(s, limit) = SubSeq(s, 1, n)
    BY DEF FirstOf, n
  <1>4. s = <<>> <=> Len(s) = 0
    OBVIOUS
  <1>5. SubSeq(s, 1, n) = <<>> <=> n = 0
    BY <1>1, <1>2
  <1>6. n = 0 <=> Len(s) = 0
    BY <1>1 DEF n
  <1>7. Len(s) <= limit => SubSeq(s, 1, n) = s
    BY <1>1, <1>2 DEF n
  <1> QED BY <1>2, <1>3, <1>4, <1>5, <1>6, <1>7 DEF n

-----------------------------------------------------------------------------
(* The run queue: what one more event changes.                             *)
RunData == [run : QueueRun, status : {"queued", "running", "succeeded", "failed"}]

Queued == Matches(events, "status", "queued")

(* The queries of the run queue return run documents, get at most one. *)
LEMMA QueryTypes ==
    ASSUME events \in Seq(EventDocument)
    PROVE  /\ Queued \in Seq(RunData)
           /\ \A r : Current(r) = <<>> \/ \E d \in RunData : Current(r) = <<d>>
  <1>1. \A x \in EventDocument : x.data \in RunData
    BY DEF EventDocument, RunData
  <1> SUFFICES ASSUME NEW r
               PROVE  /\ Queued \in Seq(RunData)
                      /\ Current(r) = <<>> \/ \E d \in RunData : Current(r) = <<d>>
    OBVIOUS
  <1>2. CASE events = <<>>
    <2>1. Queued = <<>> /\ Matches(events, "run", r) = <<>>
      BY <1>2, MatchesEmpty DEF Queued
    <2>2. <<>> \in Seq(RunData) /\ 1 \in Nat \ {0}
      OBVIOUS
    <2>3. Current(r) = <<>>
      BY <2>1, <2>2, FirstOfTypes DEF Current, QueryDocuments
    <2> QED BY <2>1, <2>2, <2>3
  <1>3. CASE events # <<>>
    <2>1. events[1] \in EventDocument
      BY <1>3
    <2>2. Queued \in Seq(RunData) /\ Matches(events, "run", r) \in Seq(RunData)
      <3>1. Prepends(RunData, events, events[1], "status", "queued")
        BY <1>1, <2>1, MatchesAppend
      <3>2. Prepends(RunData, events, events[1], "run", r)
        BY <1>1, <2>1, MatchesAppend
      <3> QED BY <3>1, <3>2 DEF Prepends, Queued
    <2> DEFINE s == Matches(events, "run", r)
    <2> HIDE DEF s
    <2>3. /\ FirstOf(s, 1) \in Seq(RunData)
          /\ Len(FirstOf(s, 1)) = IF Len(s) < 1 THEN Len(s) ELSE 1
      <3>1. s \in Seq(RunData) /\ 1 \in Nat \ {0}
        BY <2>2 DEF s
      <3> QED BY <3>1, FirstOfTypes
    <2>4. Len(s) \in Nat
      BY <2>2 DEF s
    <2>5. FirstOf(s, 1) = <<>> \/ \E d \in RunData : FirstOf(s, 1) = <<d>>
      BY <2>3, <2>4
    <2> QED BY <2>2, <2>5 DEF s, Current, QueryDocuments
  <1> QED BY <1>2, <1>3

(* One more event: it is the newest of its run, it is found by its key,    *)
(* and the queued events stay in their order.                              *)
LEMMA EventAppended ==
    ASSUME events \in Seq(EventDocument), NEW x \in EventDocument, events' = Append(events, x)
    PROVE  /\ Queued' = IF x.data.status = "queued" THEN <<x.data>> \o Queued ELSE Queued
           /\ \A r : Current(r)' = IF x.data.run = r THEN <<x.data>> ELSE Current(r)
           /\ \A k : KeyExists(events, k)' <=> KeyExists(events, k) \/ x.key = k
           /\ events' \in Seq(EventDocument)
  <1>1. \A y \in EventDocument : y.data \in RunData
    BY DEF EventDocument, RunData
  <1>2. Queued' = IF x.data.status = "queued" THEN <<x.data>> \o Queued ELSE Queued
    <2>1. Prepends(RunData, events, x, "status", "queued")
      BY <1>1, MatchesAppend
    <2> QED BY <2>1 DEF Queued, Prepends
  <1>3. ASSUME NEW r PROVE Current(r)' = IF x.data.run = r THEN <<x.data>> ELSE Current(r)
    <2> DEFINE s == Matches(events, "run", r)
    <2>1. s \in Seq(RunData) /\ s' = IF x.data.run = r THEN <<x.data>> \o s ELSE s
      <3>1. Prepends(RunData, events, x, "run", r)
        BY <1>1, MatchesAppend
      <3> QED BY <3>1 DEF Prepends
    <2>2. Current(r) = FirstOf(s, 1) /\ Current(r)' = FirstOf(s', 1)
      BY DEF Current, QueryDocuments
    <2> HIDE DEF s
    <2>3. CASE x.data.run = r
      <3> DEFINE t == <<x.data>> \o s
      <3>1. t \in Seq(RunData) /\ Len(t) >= 1 /\ t[1] = x.data /\ Len(t) \in Nat
        BY <1>1, <2>1
      <3> HIDE DEF t
      <3>2. FirstOf(t, 1) \in Seq(RunData) /\ Len(FirstOf(t, 1)) = 1 /\ FirstOf(t, 1)[1] = x.data
        <4>1. t \in Seq(RunData) /\ 1 \in Nat \ {0} /\ 1 \in 1 .. 1
          BY <3>1
        <4>2. /\ FirstOf(t, 1) \in Seq(RunData)
              /\ Len(FirstOf(t, 1)) = IF Len(t) < 1 THEN Len(t) ELSE 1
              /\ \A i \in 1 .. Len(FirstOf(t, 1)) : FirstOf(t, 1)[i] = t[i]
          BY <4>1, FirstOfTypes, Zenon
        <4>3. Len(FirstOf(t, 1)) = 1
          BY <3>1, <4>2
        <4> QED BY <3>1, <4>1, <4>2, <4>3
      <3>3. FirstOf(t, 1) = <<x.data>>
        BY <3>2
      <3> QED BY <2>1, <2>2, <2>3, <3>3 DEF t
    <2>4. CASE x.data.run # r
      BY <2>1, <2>2, <2>4
    <2> QED BY <2>3, <2>4
  <1>4. ASSUME NEW k PROVE KeyExists(events, k)' <=> KeyExists(events, k) \/ x.key = k
    <2>1. /\ Len(events) \in Nat /\ Len(events') = Len(events) + 1
          /\ DOMAIN events = 1 .. Len(events) /\ DOMAIN events' = 1 .. Len(events) + 1
          /\ events'[Len(events) + 1] = x
          /\ \A i \in 1 .. Len(events) : events'[i] = events[i]
      OBVIOUS
    <2> QED BY <2>1 DEF KeyExists
  <1> QED BY <1>2, <1>3, <1>4

-----------------------------------------------------------------------------
(* Who holds which run.  A run that was handed out has its claim in the    *)
(* collection, which nobody removes; an engine holds only what it was      *)
(* handed.                                                                 *)
HandedInv ==
    /\ \A r \in QueueRun : handed[r] <= 1 /\ (handed[r] = 1 => KeyExists(events, r))
    /\ \A e \in Engine :
          /\ engine[e].pc \in {"check", "claim"} => engine[e].candidates # <<>>
          /\ engine[e].pc \in {"run", "report"} <=> engine[e].run # NoKey
          /\ engine[e].run # NoKey => handed[engine[e].run] = 1
    /\ \A e, f \in Engine : engine[e].run # NoKey /\ engine[e].run = engine[f].run => e = f

(* The runs in the order in which they were enqueued. *)
Oldest(i) == Queued[Len(Queued) + 1 - i].run

(* What the collection says of a run: it is enqueued once, and its newest  *)
(* event says "queued" until the claim is written.                         *)
StoredInv ==
    /\ \A i \in 1 .. Len(Queued) : Queued[i].status = "queued"
    /\ \A i, j \in 1 .. Len(Queued) : Queued[i].run = Queued[j].run => i = j
    /\ \A r \in QueueRun :
          /\ Current(r) # <<>> <=> \E i \in 1 .. Len(Queued) : Queued[i].run = r
          /\ KeyExists(events, r) => Current(r) # <<>>
          /\ Current(r) # <<>> => (KeyExists(events, r) <=> Current(r)[1].status # "queued")

(* An engine has passed over the oldest k runs, none of which is queued    *)
(* any more, and its candidates are the runs that follow.                  *)
Passed(e, k) ==
    /\ \A j \in 1 .. Len(engine[e].candidates) :
          k + j <= Len(Queued) /\ engine[e].candidates[j] = Oldest(k + j)
    /\ \A i \in 1 .. k : ~ IsQueued(Oldest(i))

OrderInv ==
    \A e \in Engine : engine[e].pc \in {"check", "claim"} => \E k \in 0 .. Len(Queued) : Passed(e, k)

(* claim_next_queued tries runs, and within the limit all that were        *)
(* enqueued, the oldest first.                                             *)
LEMMA CandidatesTypes ==
    ASSUME events \in Seq(EventDocument)
    PROVE  /\ Candidates \in Seq(QueueRun)
           /\ Len(Queued) <= QueryLimit =>
                /\ Len(Candidates) = Len(Queued)
                /\ \A i \in 1 .. Len(Queued) : Candidates[i] = Oldest(i)
  <1>1. Queued \in Seq(RunData) /\ QueryLimit \in Nat \ {0}
    BY QueryTypes, QueueAssumption
  <1> DEFINE docs == FirstOf(Queued, QueryLimit)
  <1>2. docs \in Seq(RunData) /\ (Len(Queued) <= QueryLimit => docs = Queued)
    <2>1. Queued \in Seq(RunData)
      BY <1>1
    <2>2. QueryLimit \in Nat \ {0}
      BY <1>1
    <2>3. Len(Queued) \in Nat
      BY <2>1
    <2>4. /\ FirstOf(Queued, QueryLimit) \in Seq(RunData)
          /\ Len(FirstOf(Queued, QueryLimit)) = IF Len(Queued) < QueryLimit THEN Len(Queued) ELSE QueryLimit
          /\ \A i \in 1 .. Len(FirstOf(Queued, QueryLimit)) : FirstOf(Queued, QueryLimit)[i] = Queued[i]
          /\ FirstOf(Queued, QueryLimit) = <<>> <=> Queued = <<>>
          /\ Len(Queued) <= QueryLimit => FirstOf(Queued, QueryLimit) = Queued
      BY <2>1, <2>2, FirstOfTypes, Zenon
    <2> QED BY <2>4
  <1>3. Candidates = [i \in DOMAIN docs |-> docs[Len(docs) + 1 - i].run]
    BY DEF Candidates, QueryDocuments, Queued
  <1> HIDE DEF docs
  <1>4. \A i \in 1 .. Len(docs) : docs[Len(docs) + 1 - i].run \in QueueRun
    <2> SUFFICES ASSUME NEW i \in 1 .. Len(docs) PROVE docs[Len(docs) + 1 - i].run \in QueueRun
      OBVIOUS
    <2>1. Len(docs) \in Nat /\ Len(docs) + 1 - i \in 1 .. Len(docs)
      BY <1>2
    <2>2. docs[Len(docs) + 1 - i] \in RunData
      BY <1>2, <2>1
    <2> QED BY <2>2 DEF RunData
  <1>5. Candidates \in [1 .. Len(docs) -> QueueRun] /\ Len(docs) \in Nat
    BY <1>2, <1>3, <1>4
  <1>6. Candidates \in Seq(QueueRun) /\ Len(Candidates) = Len(docs)
    BY <1>5
  <1> QED
    BY <1>2, <1>3, <1>6 DEF Oldest

(* One step of the queue adds at most one event. *)
LEMMA KeysStay ==
    ASSUME events \in Seq(EventDocument), NEW x \in EventDocument,
           events' \in {events, Append(events, x)}
    PROVE  /\ events' \in Seq(EventDocument)
           /\ \A k : KeyExists(events, k) => KeyExists(events, k)'
  <1>1. CASE events' = events
    BY <1>1 DEF KeyExists
  <1>2. CASE events' = Append(events, x)
    BY <1>2, EventAppended
  <1> QED BY <1>1, <1>2

(* The documents that the run queue writes. *)
LEMMA DocumentTypes ==
    ASSUME NEW r \in QueueRun, NEW s \in {"queued", "running", "succeeded", "failed"}
    PROVE  /\ Document(r, RunDoc(r, s)) \in EventDocument
           /\ Document(NoKey, RunDoc(r, s)) \in EventDocument
           /\ Document(r, RunDoc(r, s)).key = r /\ Document(NoKey, RunDoc(r, s)).key = NoKey
           /\ Document(r, RunDoc(r, s)).data = RunDoc(r, s)
           /\ Document(NoKey, RunDoc(r, s)).data = RunDoc(r, s)
           /\ RunDoc(r, s).run = r /\ RunDoc(r, s).status = s
  BY DEF Document, RunDoc, EventDocument

(* At the start no engine holds anything. *)
LEMMA HandedInit == QueueInit => QueueTypeOK /\ HandedInv
  <1> SUFFICES ASSUME QueueInit PROVE QueueTypeOK /\ HandedInv
    OBVIOUS
  <1>1. IdleEngine \in EngineRecord /\ IdleEngine.pc = "idle" /\ IdleEngine.run = NoKey
    BY DEF IdleEngine, EngineRecord
  <1>2. QueueTypeOK
    BY <1>1, QueueAssumption DEF QueueInit, QueueTypeOK
  <1>3. HandedInv
    BY <1>1 DEF QueueInit, HandedInv
  <1> QED BY <1>2, <1>3

(* Engine e goes to a state in which it holds nothing. *)
LEMMA HoldsNothing ==
    ASSUME QueueTypeOK, HandedInv, NEW e \in Engine, NEW st \in EngineRecord,
           engine' = [engine EXCEPT ![e] = st], handed' = handed,
           st.run = NoKey, st.pc \in {"idle", "check", "claim"},
           st.pc # "idle" => st.candidates # <<>>,
           \A k : KeyExists(events, k) => KeyExists(events, k)'
    PROVE  engine' \in [Engine -> EngineRecord] /\ HandedInv'
  <1> USE DEF QueueTypeOK, HandedInv
  <1>1. engine' \in [Engine -> EngineRecord]
    OBVIOUS
  <1>2. \A f \in Engine : engine'[f] = IF f = e THEN st ELSE engine[f]
    OBVIOUS
  <1> QED BY <1>1, <1>2

(* An engine that goes on to further candidates holds nothing. *)
LEMMA GotoHoldsNothing ==
    ASSUME QueueTypeOK, HandedInv, NEW e \in Engine, NEW cands \in Seq(QueueRun),
           Goto(e, cands), handed' = handed,
           \A k : KeyExists(events, k) => KeyExists(events, k)'
    PROVE  engine' \in [Engine -> EngineRecord] /\ HandedInv'
  <1> DEFINE st == IF cands = <<>> THEN IdleEngine
                   ELSE [pc |-> "check", candidates |-> cands, run |-> NoKey]
  <1>1. /\ st \in EngineRecord /\ st.run = NoKey /\ st.pc \in {"idle", "check", "claim"}
        /\ st.pc # "idle" => st.candidates # <<>>
    BY DEF EngineRecord, IdleEngine
  <1>2. engine' = [engine EXCEPT ![e] = st]
    BY DEF Goto
  <1> HIDE DEF st
  <1> QED BY <1>1, <1>2, HoldsNothing

(* The idempotent claim adds an event exactly when the key is new. *)
LEMMA ClaimEvent ==
    ASSUME QueueTypeOK, NEW r \in QueueRun, NEW x, x = Document(r, RunDoc(r, "running"))
    PROVE  /\ x \in EventDocument
           /\ CreateIdempotent(events, r, RunDoc(r, "running")) \in {events, Append(events, x)}
           /\ ~ KeyExists(events, r) =>
                CreateIdempotent(events, r, RunDoc(r, "running")) = Append(events, x)
  BY DocumentTypes DEF CreateIdempotent

(* No step hands out a run whose claim is in the collection. *)
LEMMA HandedStep == QueueTypeOK /\ HandedInv /\ [QueueNext]_queueVars => QueueTypeOK' /\ HandedInv'
  <1> SUFFICES ASSUME QueueTypeOK, HandedInv, [QueueNext]_queueVars
               PROVE  QueueTypeOK' /\ HandedInv'
    OBVIOUS
  <1> USE QueueAssumption
  <1>1. events \in Seq(EventDocument)
    BY DEF QueueTypeOK
  <1>2. ASSUME NEW r \in QueueRun, EnqueueRun(r) PROVE QueueTypeOK' /\ HandedInv'
    <2>1. PICK x \in EventDocument : events' = Append(events, x)
      BY <1>2, DocumentTypes DEF EnqueueRun, CreateDocument
    <2>2. events' \in Seq(EventDocument) /\ \A k : KeyExists(events, k) => KeyExists(events, k)'
      BY <1>1, <2>1, KeysStay
    <2> QED BY <1>2, <2>2 DEF EnqueueRun, QueueTypeOK, HandedInv
  <1>3. ASSUME NEW e \in Engine, PollQueue(e) PROVE QueueTypeOK' /\ HandedInv'
    <2>1. Candidates \in Seq(QueueRun)
      BY <1>1, CandidatesTypes
    <2>2. events' = events /\ handed' = handed /\ qfaults' = qfaults
      BY <1>3 DEF PollQueue
    <2>3. \A k : KeyExists(events, k) => KeyExists(events, k)'
      BY <2>2 DEF KeyExists
    <2>4. engine' \in [Engine -> EngineRecord] /\ HandedInv'
      BY <1>3, <2>1, <2>2, <2>3, GotoHoldsNothing DEF PollQueue
    <2> QED BY <2>2, <2>4 DEF QueueTypeOK
  <1>4. ASSUME NEW e \in Engine, CheckCandidate(e) PROVE QueueTypeOK' /\ HandedInv'
    <2>1. /\ engine[e] \in EngineRecord /\ engine[e].candidates \in Seq(QueueRun)
          /\ engine[e].candidates # <<>> /\ engine[e].run = NoKey
      BY <1>4 DEF CheckCandidate, QueueTypeOK, HandedInv, EngineRecord
    <2>2. events' = events /\ handed' = handed /\ qfaults' = qfaults
      BY <1>4 DEF CheckCandidate
    <2>3. \A k : KeyExists(events, k) => KeyExists(events, k)'
      BY <2>2 DEF KeyExists
    <2>4. CASE engine' = [engine EXCEPT ![e].pc = "claim"]
      <3> DEFINE st == [engine[e] EXCEPT !.pc = "claim"]
      <3>1. /\ st \in EngineRecord /\ st.pc = "claim" /\ st.run = NoKey /\ st.candidates # <<>>
        BY <2>1 DEF EngineRecord
      <3>2. engine' = [engine EXCEPT ![e] = st]
        BY <2>4 DEF QueueTypeOK
      <3> HIDE DEF st
      <3>3. engine' \in [Engine -> EngineRecord] /\ HandedInv'
        BY <2>2, <2>3, <3>1, <3>2, HoldsNothing
      <3> QED BY <2>2, <3>3 DEF QueueTypeOK
    <2>5. CASE Goto(e, Tail(engine[e].candidates))
      <3>1. Tail(engine[e].candidates) \in Seq(QueueRun)
        BY <2>1
      <3>2. engine' \in [Engine -> EngineRecord] /\ HandedInv'
        BY <2>2, <2>3, <2>5, <3>1, GotoHoldsNothing
      <3> QED BY <2>2, <3>2 DEF QueueTypeOK
    <2> QED BY <1>4, <2>4, <2>5 DEF CheckCandidate
  <1>5. ASSUME NEW e \in Engine, ClaimRun(e) PROVE QueueTypeOK' /\ HandedInv'
    <2>1. /\ engine[e] \in EngineRecord /\ engine[e].candidates \in Seq(QueueRun)
          /\ engine[e].candidates # <<>> /\ engine[e].run = NoKey
      BY <1>5 DEF ClaimRun, QueueTypeOK, HandedInv, EngineRecord
    <2>2. PICK r \in QueueRun : r = Head(engine[e].candidates)
      <3>1. Head(engine[e].candidates) \in QueueRun
        BY <2>1
      <3> QED BY <3>1
    <2>3. PICK x \in EventDocument : x = Document(r, RunDoc(r, "running")) /\ x.key = r
      BY DocumentTypes
    <2>9. Tail(engine[e].candidates) \in Seq(QueueRun)
      BY <2>1
    <2>4. /\ events' = CreateIdempotent(events, r, RunDoc(r, "running")) /\ qfaults' = qfaults
          /\ IF KeyExists(events, r)
             THEN Goto(e, Tail(engine[e].candidates)) /\ UNCHANGED handed
             ELSE /\ engine' = [engine EXCEPT ![e] = [pc |-> "run", candidates |-> <<>>, run |-> r]]
                  /\ handed' = [handed EXCEPT ![r] = @ + 1]
      BY <1>5, <2>2 DEF ClaimRun
    <2>5. events' \in {events, Append(events, x)} /\ (~ KeyExists(events, r) => events' = Append(events, x))
      BY <2>3, <2>4, ClaimEvent
    <2>6. events' \in Seq(EventDocument) /\ \A k : KeyExists(events, k) => KeyExists(events, k)'
      BY <1>1, <2>3, <2>5, KeysStay
    <2>7. CASE KeyExists(events, r)
      <3>1. Goto(e, Tail(engine[e].candidates)) /\ handed' = handed
        BY <2>4, <2>7
      <3>2. engine' \in [Engine -> EngineRecord] /\ HandedInv'
        BY <2>6, <2>9, <3>1, GotoHoldsNothing
      <3> QED BY <2>4, <2>6, <3>1, <3>2 DEF QueueTypeOK
    <2>8. CASE ~ KeyExists(events, r)
      <3> DEFINE st == [pc |-> "run", candidates |-> <<>>, run |-> r]
      <3>1. engine' = [engine EXCEPT ![e] = st] /\ handed' = [handed EXCEPT ![r] = @ + 1]
        BY <2>4, <2>8
      <3>2. st \in EngineRecord /\ st.pc = "run" /\ st.run = r
        BY <2>2 DEF EngineRecord
      <3> HIDE DEF st
      <3>3. KeyExists(events, r)'
        <4>1. events' = Append(events, x)
          BY <2>5, <2>8
        <4>2. KeyExists(events, r)' <=> KeyExists(events, r) \/ x.key = r
          BY <1>1, <2>3, <4>1, EventAppended
        <4> QED BY <2>3, <4>2
      <3>4. handed[r] = 0
        <4>1. handed[r] \in Nat /\ handed[r] <= 1 /\ handed[r] # 1
          BY <2>2, <2>8 DEF QueueTypeOK, HandedInv
        <4> QED BY <4>1
      <3>5. \A f \in Engine : engine[f].run # r
        <4> SUFFICES ASSUME NEW f \in Engine, engine[f].run = r PROVE FALSE
          OBVIOUS
        <4>1. engine[f].run # NoKey
          BY <2>2
        <4>2. handed[engine[f].run] = 1
          BY <4>1 DEF HandedInv
        <4> QED BY <3>4, <4>2
      <3>6. /\ engine' \in [Engine -> EngineRecord]
            /\ \A f \in Engine : engine'[f] = IF f = e THEN st ELSE engine[f]
        BY <3>1, <3>2 DEF QueueTypeOK
      <3>7. /\ handed' \in [QueueRun -> Nat]
            /\ \A q \in QueueRun : handed'[q] = IF q = r THEN 1 ELSE handed[q]
        BY <2>2, <3>1, <3>4 DEF QueueTypeOK
      <3>8. QueueTypeOK'
        BY <2>4, <2>6, <3>6, <3>7 DEF QueueTypeOK
      <3>9. \A q \in QueueRun : handed'[q] <= 1 /\ (handed'[q] = 1 => KeyExists(events, q)')
        BY <2>6, <3>3, <3>7 DEF HandedInv
      <3>10. \A f \in Engine :
                /\ engine'[f].pc \in {"check", "claim"} => engine'[f].candidates # <<>>
                /\ engine'[f].pc \in {"run", "report"} <=> engine'[f].run # NoKey
        <4> SUFFICES ASSUME NEW f \in Engine
                     PROVE  /\ engine'[f].pc \in {"check", "claim"} => engine'[f].candidates # <<>>
                            /\ engine'[f].pc \in {"run", "report"} <=> engine'[f].run # NoKey
          OBVIOUS
        <4>1. CASE f = e
          <5>1. engine'[f].pc = "run" /\ engine'[f].run = r
            BY <3>2, <3>6, <4>1
          <5> QED BY <2>2, <5>1
        <4>2. CASE f # e
          BY <3>6, <4>2 DEF HandedInv
        <4> QED BY <4>1, <4>2
      <3>11. \A f \in Engine : engine'[f].run # NoKey => handed'[engine'[f].run] = 1
        <4> SUFFICES ASSUME NEW f \in Engine, engine'[f].run # NoKey PROVE handed'[engine'[f].run] = 1
          OBVIOUS
        <4>1. CASE f = e
          BY <2>2, <3>2, <3>6, <3>7, <4>1
        <4>2. CASE f # e
          <5>1. engine'[f] = engine[f] /\ engine[f].run \in QueueRun /\ engine[f].run # r
            BY <3>5, <3>6, <4>2 DEF QueueTypeOK, EngineRecord
          <5> QED BY <3>7, <5>1 DEF HandedInv
        <4> QED BY <4>1, <4>2
      <3>12. \A f, g \in Engine : engine'[f].run # NoKey /\ engine'[f].run = engine'[g].run => f = g
        BY <3>2, <3>5, <3>6 DEF HandedInv
      <3> QED BY <3>8, <3>9, <3>10, <3>11, <3>12 DEF HandedInv
    <2> QED BY <2>7, <2>8
  <1>6. ASSUME NEW e \in Engine, ReadRun(e) PROVE QueueTypeOK' /\ HandedInv'
    <2> DEFINE st == [engine[e] EXCEPT !.pc = "report"]
    <2>1. events' = events /\ handed' = handed /\ qfaults' = qfaults /\ engine[e].pc = "run"
      BY <1>6 DEF ReadRun
    <2>2. engine[e] \in EngineRecord
      BY DEF QueueTypeOK
    <2>3. st \in EngineRecord /\ st.pc = "report" /\ st.run = engine[e].run
      BY <2>2 DEF EngineRecord
    <2>4. engine' = [engine EXCEPT ![e] = st]
      BY <1>6 DEF ReadRun, QueueTypeOK
    <2> HIDE DEF st
    <2>5. /\ engine' \in [Engine -> EngineRecord]
          /\ \A f \in Engine : engine'[f] = IF f = e THEN st ELSE engine[f]
      BY <2>3, <2>4 DEF QueueTypeOK
    <2>6. \A k : KeyExists(events, k)' <=> KeyExists(events, k)
      BY <2>1 DEF KeyExists
    <2>7. HandedInv'
      BY <2>1, <2>3, <2>5, <2>6 DEF HandedInv
    <2> QED BY <2>1, <2>5, <2>7 DEF QueueTypeOK
  <1>7. /\ IdleEngine \in EngineRecord /\ IdleEngine.run = NoKey /\ IdleEngine.pc = "idle"
    BY DEF IdleEngine, EngineRecord
  <1>8. ASSUME NEW e \in Engine, NEW s \in {"succeeded", "failed"}, AppendStatus(e, s)
        PROVE  QueueTypeOK' /\ HandedInv'
    <2>1. engine[e].run \in QueueRun
      <3>1. engine[e].run # NoKey /\ engine[e] \in EngineRecord
        BY <1>8 DEF AppendStatus, HandedInv, QueueTypeOK
      <3> QED BY <3>1 DEF EngineRecord
    <2>2. PICK x \in EventDocument : events' = Append(events, x)
      BY <1>8, <2>1, DocumentTypes DEF AppendStatus, CreateDocument
    <2>3. events' \in Seq(EventDocument) /\ \A k : KeyExists(events, k) => KeyExists(events, k)'
      BY <1>1, <2>2, KeysStay
    <2>4. engine' = [engine EXCEPT ![e] = IdleEngine] /\ handed' = handed /\ qfaults' = qfaults
      BY <1>8 DEF AppendStatus
    <2>5. engine' \in [Engine -> EngineRecord] /\ HandedInv'
      BY <1>7, <2>3, <2>4, HoldsNothing
    <2> QED BY <2>3, <2>4, <2>5 DEF QueueTypeOK
  <1>9. ASSUME NEW e \in Engine, CallFails(e) PROVE QueueTypeOK' /\ HandedInv'
    <2>1. events' = events \/ \E x \in EventDocument : events' \in {events, Append(events, x)}
      <3>1. CASE UNCHANGED events
        BY <3>1
      <3>2. CASE engine[e].pc = "claim" /\ events' = CreateIdempotent(events,
                      Head(engine[e].candidates), RunDoc(Head(engine[e].candidates), "running"))
        <4>1. Head(engine[e].candidates) \in QueueRun
          <5>1. engine[e].candidates \in Seq(QueueRun) /\ engine[e].candidates # <<>>
            BY <3>2 DEF HandedInv, QueueTypeOK, EngineRecord
          <5> QED BY <5>1
        <4> QED BY <3>2, <4>1, ClaimEvent
      <3>3. CASE engine[e].pc = "report" /\ \E s \in {"succeeded", "failed"} :
                      events' = CreateDocument(events, RunDoc(engine[e].run, s))
        <4>1. engine[e].run \in QueueRun
          <5>1. engine[e].run # NoKey /\ engine[e] \in EngineRecord
            BY <3>3 DEF HandedInv, QueueTypeOK
          <5> QED BY <5>1 DEF EngineRecord
        <4> QED BY <3>3, <4>1, DocumentTypes DEF CreateDocument
      <3> QED BY <1>9, <3>1, <3>2, <3>3 DEF CallFails
    <2>3. events' \in Seq(EventDocument) /\ \A k : KeyExists(events, k) => KeyExists(events, k)'
      <3>1. CASE events' = events
        BY <1>1, <3>1 DEF KeyExists
      <3>2. CASE \E x \in EventDocument : events' \in {events, Append(events, x)}
        BY <1>1, <3>2, KeysStay
      <3> QED BY <2>1, <3>1, <3>2
    <2>4. /\ engine' = [engine EXCEPT ![e] = IdleEngine] /\ handed' = handed
          /\ qfaults < QueueFaults /\ qfaults' = qfaults + 1
      BY <1>9 DEF CallFails
    <2>5. engine' \in [Engine -> EngineRecord] /\ HandedInv'
      BY <1>7, <2>3, <2>4, HoldsNothing
    <2> QED BY <2>3, <2>4, <2>5 DEF QueueTypeOK
  <1>10. CASE UNCHANGED queueVars
    BY <1>10 DEF queueVars, QueueTypeOK, HandedInv, KeyExists
  <1> QED
    BY <1>2, <1>3, <1>4, <1>5, <1>6, <1>8, <1>9, <1>10 DEF QueueNext, EngineStep

(* No run is in two hands and every recorded revision was delivered, for   *)
(* any number of engines, runs, revisions and failed calls.                *)
THEOREM EnginesAreSound == LiveSpec => []EnginesSound
  <1> DEFINE Inv == ControllerInv /\ QueueTypeOK /\ HandedInv
  <1>1. LiveInit => Inv
    BY ControllerInitInv, HandedInit DEF LiveInit
  <1>2. Inv /\ [LiveNext]_liveVars => Inv'
    <2> SUFFICES ASSUME Inv, [LiveNext]_liveVars PROVE Inv'
      OBVIOUS
    <2>1. [QueueNext]_queueVars /\ [ControllerNext]_controllerVars
      BY DEF LiveNext, QueueStep, ControllerStep, liveVars
    <2> QED BY <2>1, ControllerStepInv, HandedStep
  <1>3. Inv => EnginesSound
    <2> SUFFICES ASSUME Inv PROVE EnginesSound
      OBVIOUS
    <2>1. ClaimedOnce /\ QueueTypeOK /\ ControllerTypeOK /\ RecordedWasDelivered
      BY DEF ControllerInv, HandedInv, ClaimedOnce
    <2>2. HeldIsClaimed
      <3> SUFFICES ASSUME NEW e \in Engine, engine[e].pc \in {"run", "report"}
                   PROVE  /\ handed[engine[e].run] = 1
                          /\ KeyExists(events, engine[e].run)
                          /\ \A f \in Engine \ {e} : engine[f].run # engine[e].run
        BY DEF HeldIsClaimed
      <3>1. engine[e].run # NoKey /\ handed[engine[e].run] = 1
        BY DEF HandedInv
      <3>2. engine[e].run \in QueueRun
        BY <3>1 DEF QueueTypeOK, EngineRecord
      <3> QED BY <3>1, <3>2 DEF HandedInv
    <2> QED BY <2>1, <2>2 DEF EnginesSound
  <1> QED BY <1>1, <1>2, <1>3, PTL DEF LiveSpec

-----------------------------------------------------------------------------
(* The refinement.  The collection changes in three ways: a run is         *)
(* enqueued, the oldest queued run is claimed, a claimed run is reported.  *)
Enqueued(r) ==
    /\ Current(r) = <<>>
    /\ events' = Append(events, Document(NoKey, RunDoc(r, "queued")))

Claimed(i) ==
    /\ ~ KeyExists(events, Oldest(i))
    /\ \A j \in 1 .. i - 1 : ~ IsQueued(Oldest(j))
    /\ events' = Append(events, Document(Oldest(i), RunDoc(Oldest(i), "running")))

Reported(r, s) ==
    /\ KeyExists(events, r)
    /\ events' = Append(events, Document(NoKey, RunDoc(r, s)))

EventsMove ==
    \/ events' = events
    \/ \E r \in QueueRun : Enqueued(r)
    \/ \E i \in 1 .. Len(Queued) : Claimed(i)
    \/ \E r \in QueueRun, s \in {"succeeded", "failed"} : Reported(r, s)

(* The oldest candidate of an engine that has come to a claim or a check. *)
LEMMA OldestCandidate ==
    ASSUME QueueTypeOK, HandedInv, OrderInv, NEW e \in Engine, engine[e].pc \in {"check", "claim"}
    PROVE  \E k \in 0 .. Len(Queued) :
              /\ Passed(e, k) /\ k + 1 \in 1 .. Len(Queued)
              /\ Head(engine[e].candidates) = Oldest(k + 1)
  <1>1. PICK k \in 0 .. Len(Queued) : Passed(e, k)
    BY DEF OrderInv
  <1>2. engine[e].candidates \in Seq(QueueRun) /\ engine[e].candidates # <<>>
    BY DEF HandedInv, QueueTypeOK, EngineRecord
  <1>3. 1 \in 1 .. Len(engine[e].candidates) /\ Head(engine[e].candidates) = engine[e].candidates[1]
    BY <1>2
  <1>4. Len(Queued) \in Nat
    BY QueryTypes DEF QueueTypeOK
  <1>5. k + 1 <= Len(Queued) /\ engine[e].candidates[1] = Oldest(k + 1)
    BY <1>1, <1>3 DEF Passed
  <1> QED BY <1>1, <1>3, <1>4, <1>5

(* A claim that is stored takes the oldest queued run, whether or not the  *)
(* engine hears of it.                                                     *)
LEMMA ClaimMoves ==
    ASSUME QueueTypeOK, HandedInv, OrderInv, NEW e \in Engine, engine[e].pc = "claim",
           events' = CreateIdempotent(events, Head(engine[e].candidates),
                                      RunDoc(Head(engine[e].candidates), "running"))
    PROVE  events' = events \/ \E i \in 1 .. Len(Queued) : Claimed(i)
  <1>1. PICK k \in 0 .. Len(Queued) :
              /\ Passed(e, k) /\ k + 1 \in 1 .. Len(Queued)
              /\ Head(engine[e].candidates) = Oldest(k + 1)
    BY OldestCandidate
  <1>2. CASE KeyExists(events, Oldest(k + 1))
    BY <1>1, <1>2 DEF CreateIdempotent
  <1>3. CASE ~ KeyExists(events, Oldest(k + 1))
    <2>1. events' = Append(events, Document(Oldest(k + 1), RunDoc(Oldest(k + 1), "running")))
      BY <1>1, <1>3 DEF CreateIdempotent
    <2>2. \A j \in 1 .. (k + 1) - 1 : ~ IsQueued(Oldest(j))
      BY <1>1 DEF Passed
    <2> QED BY <1>1, <1>3, <2>1, <2>2 DEF Claimed
  <1> QED BY <1>2, <1>3

(* A report that is stored is about a claimed run. *)
LEMMA ReportMoves ==
    ASSUME QueueTypeOK, HandedInv, NEW e \in Engine, engine[e].pc = "report",
           NEW s \in {"succeeded", "failed"},
           events' = CreateDocument(events, RunDoc(engine[e].run, s))
    PROVE  \E r \in QueueRun, t \in {"succeeded", "failed"} : Reported(r, t)
  <1>1. engine[e].run # NoKey /\ handed[engine[e].run] = 1 /\ engine[e] \in EngineRecord
    BY DEF HandedInv, QueueTypeOK
  <1>2. engine[e].run \in QueueRun
    BY <1>1 DEF EngineRecord
  <1>3. KeyExists(events, engine[e].run)
    BY <1>1, <1>2 DEF HandedInv
  <1> QED BY <1>2, <1>3 DEF Reported, CreateDocument

(* Every step of the queue moves the collection in one of these ways. *)
LEMMA QueueMoves ==
    ASSUME QueueTypeOK, HandedInv, OrderInv, [QueueNext]_queueVars
    PROVE  EventsMove
  <1>1. ASSUME NEW r \in QueueRun, EnqueueRun(r) PROVE EventsMove
    BY <1>1 DEF EnqueueRun, Enqueued, CreateDocument, EventsMove
  <1>2. ASSUME NEW e \in Engine, PollQueue(e) \/ CheckCandidate(e) \/ ReadRun(e) PROVE EventsMove
    BY <1>2 DEF PollQueue, CheckCandidate, ReadRun, EventsMove
  <1>3. ASSUME NEW e \in Engine, ClaimRun(e) PROVE EventsMove
    BY <1>3, ClaimMoves DEF ClaimRun, EventsMove
  <1>4. ASSUME NEW e \in Engine, NEW s \in {"succeeded", "failed"}, AppendStatus(e, s)
        PROVE  EventsMove
    BY <1>4, ReportMoves DEF AppendStatus, EventsMove
  <1>5. ASSUME NEW e \in Engine, CallFails(e) PROVE EventsMove
    BY <1>5, ClaimMoves, ReportMoves DEF CallFails, EventsMove
  <1>6. CASE UNCHANGED queueVars
    BY <1>6 DEF queueVars, EventsMove
  <1> QED BY <1>1, <1>2, <1>3, <1>4, <1>5, <1>6 DEF QueueNext, EngineStep

(* No move reorders the runs or queues one again. *)
Grows ==
    /\ Len(Queued') \in Nat /\ Len(Queued) <= Len(Queued')
    /\ \A i \in 1 .. Len(Queued) :
          Oldest(i)' = Oldest(i) /\ (~ IsQueued(Oldest(i)) => ~ IsQueued(Oldest(i))')

(* Enqueued runs are what RunStore sees, the oldest first. *)
LEMMA StoredRuns ==
    /\ Queued \in Seq(RunData) =>
         RunsStored = [i \in 1 .. Len(Queued) |->
                          [run |-> Oldest(i), status |-> Current(Oldest(i))[1].status]]
    /\ Queued' \in Seq(RunData) =>
         RunsStored' = [i \in 1 .. Len(Queued') |->
                          [run |-> Oldest(i)', status |-> (Current(Oldest(i))[1].status)']]
  BY DEF RunsStored, Oldest, Queued

(* Enqueueing a run is Enqueue of RunStore. *)
LEMMA EnqueueMoves ==
    ASSUME events \in Seq(EventDocument), StoredInv, NEW r \in QueueRun, Enqueued(r)
    PROVE  StoredInv' /\ Grows /\ Store!StoreRunNext
  <1> DEFINE d == RunDoc(r, "queued")
  <1>1. PICK x \in EventDocument : x = Document(NoKey, d) /\ x.key = NoKey /\ x.data = d
    BY DocumentTypes
  <1>2. d.run = r /\ d.status = "queued" /\ d \in RunData
    BY DEF RunDoc, RunData
  <1>3. events' = Append(events, x)
    BY <1>1 DEF Enqueued
  <1> HIDE DEF d
  <1>4. /\ Queued' = <<d>> \o Queued
        /\ \A q : Current(q)' = IF r = q THEN <<d>> ELSE Current(q)
        /\ \A k : KeyExists(events, k)' <=> KeyExists(events, k) \/ NoKey = k
    BY <1>1, <1>2, <1>3, EventAppended
  <1>5. PICK n \in Nat : n = Len(Queued) /\ Queued \in Seq(RunData)
    BY QueryTypes
  <1>6. /\ Queued' \in Seq(RunData) /\ Len(Queued') = n + 1
        /\ Queued'[1] = d /\ \A i \in 1 .. n : Queued'[i + 1] = Queued[i]
    BY <1>2, <1>4, <1>5
  <1>7. \A i \in 1 .. n + 1 : Queued'[i] = IF i = 1 THEN d ELSE Queued[i - 1]
    <2> SUFFICES ASSUME NEW i \in 1 .. n + 1, i # 1 PROVE Queued'[i] = Queued[i - 1]
      BY <1>6
    <2>1. i - 1 \in 1 .. n /\ (i - 1) + 1 = i
      BY <1>5
    <2> QED BY <1>6, <2>1
  <1>8. Current(r) = <<>> /\ \A i \in 1 .. n : Queued[i].run # r
    BY <1>5 DEF Enqueued, StoredInv
  <1>9. \A i \in 1 .. n : Oldest(i)' = Oldest(i) /\ Oldest(i) \in QueueRun /\ Oldest(i) # r
    <2> SUFFICES ASSUME NEW i \in 1 .. n
                 PROVE  Oldest(i)' = Oldest(i) /\ Oldest(i) \in QueueRun /\ Oldest(i) # r
      OBVIOUS
    <2>1. n + 1 - i \in 1 .. n /\ (n + 1) + 1 - i = (n + 1 - i) + 1
      BY <1>5
    <2>2. Queued'[(n + 1) + 1 - i] = Queued[n + 1 - i] /\ Queued[n + 1 - i] \in RunData
      BY <1>5, <1>6, <2>1
    <2>3. Oldest(i)' = Queued'[(n + 1) + 1 - i].run /\ Oldest(i) = Queued[n + 1 - i].run
      BY <1>5, <1>6 DEF Oldest
    <2> QED BY <1>8, <2>1, <2>2, <2>3 DEF RunData
  <1>10. Oldest(n + 1)' = r
    BY <1>2, <1>5, <1>6 DEF Oldest
  <1>11. \A i \in 1 .. n : Current(Oldest(i))' = Current(Oldest(i))
    <2> SUFFICES ASSUME NEW i \in 1 .. n PROVE Current(Oldest(i))' = Current(Oldest(i))
      OBVIOUS
    <2>1. PICK o : o = Oldest(i) /\ o = Oldest(i)' /\ o # r
      BY <1>9
    <2>2. Current(Oldest(i))' = Current(o)'
      BY <2>1 DEF Current
    <2> QED BY <1>4, <2>1, <2>2
  <1>12. Grows
    BY <1>5, <1>6, <1>9, <1>11 DEF Grows, IsQueued
  <1>13. StoredInv'
    <2>1. \A i \in 1 .. Len(Queued') : Queued'[i].status = "queued"
      BY <1>2, <1>5, <1>6, <1>7 DEF StoredInv
    <2>2. \A i, j \in 1 .. Len(Queued') : Queued'[i].run = Queued'[j].run => i = j
      <3> SUFFICES ASSUME NEW i \in 1 .. n + 1, NEW j \in 1 .. n + 1, i # j
                   PROVE  Queued'[i].run # Queued'[j].run
        BY <1>6
      <3>1. (i # 1 => i - 1 \in 1 .. n) /\ (j # 1 => j - 1 \in 1 .. n) /\ i - 1 # j - 1
        BY <1>5
      <3> QED BY <1>2, <1>5, <1>7, <1>8, <3>1 DEF StoredInv
    <2>3. ASSUME NEW q \in QueueRun
          PROVE  /\ Current(q)' # <<>> <=> \E i \in 1 .. Len(Queued') : Queued'[i].run = q
                 /\ KeyExists(events, q)' => Current(q)' # <<>>
                 /\ Current(q)' # <<>> => (KeyExists(events, q)' <=> Current(q)'[1].status # "queued")
      <3>1. KeyExists(events, q)' <=> KeyExists(events, q)
        BY <1>4, QueueAssumption
      <3>2. CASE q = r
        <4>1. Current(q)' = <<d>> /\ Current(q)' # <<>> /\ Current(q)'[1].status = "queued"
          BY <1>2, <1>4, <3>2
        <4>2. 1 \in 1 .. Len(Queued') /\ Queued'[1].run = q
          BY <1>2, <1>5, <1>6, <3>2
        <4>3. ~ KeyExists(events, q)
          BY <1>8, <3>2 DEF StoredInv
        <4> QED BY <3>1, <4>1, <4>2, <4>3
      <3>3. CASE q # r
        <4>1. Current(q)' = Current(q)
          BY <1>4, <3>3
        <4>2. (\E i \in 1 .. n + 1 : Queued'[i].run = q) <=> \E i \in 1 .. n : Queued[i].run = q
          <5>1. ASSUME NEW i \in 1 .. n + 1, Queued'[i].run = q PROVE \E j \in 1 .. n : Queued[j].run = q
            <6>1. i # 1 /\ Queued'[i] = Queued[i - 1] /\ i - 1 \in 1 .. n
              BY <1>2, <1>5, <1>7, <3>3, <5>1
            <6> QED BY <5>1, <6>1
          <5>2. ASSUME NEW i \in 1 .. n, Queued[i].run = q PROVE \E j \in 1 .. n + 1 : Queued'[j].run = q
            <6>1. i + 1 \in 1 .. n + 1 /\ Queued'[i + 1] = Queued[i]
              BY <1>5, <1>6
            <6> QED BY <5>2, <6>1
          <5> QED BY <5>1, <5>2
        <4> QED BY <1>5, <1>6, <3>1, <4>1, <4>2 DEF StoredInv
      <3> QED BY <3>2, <3>3
    <2> QED BY <2>1, <2>2, <2>3 DEF StoredInv
  <1>14. Store!Enqueue(r)
    <2> DEFINE rec(i) == [run |-> Oldest(i), status |-> Current(Oldest(i))[1].status]
               new == [run |-> r, status |-> "queued"]
    <2>1. RunsStored = [i \in 1 .. n |-> rec(i)]
      BY <1>5, StoredRuns
    <2>2. RunsStored' = [i \in 1 .. n + 1 |-> rec(i)']
      BY <1>6, StoredRuns
    <2>3. \A i \in 1 .. n : rec(i)' = rec(i)
      BY <1>9, <1>11
    <2>4. rec(n + 1)' = new
      <3>1. Current(Oldest(n + 1))' = Current(r)'
        BY <1>10 DEF Current
      <3> QED BY <1>2, <1>4, <1>10, <3>1
    <2>5. \A i \in 1 .. n : rec(i).run # r
      BY <1>9
    <2> HIDE DEF rec, new
    <2>6. RunsStored' = [i \in 1 .. n + 1 |-> IF i = n + 1 THEN new ELSE rec(i)]
      BY <1>5, <2>2, <2>3, <2>4
    <2>7. RunsStored \in Seq({rec(i) : i \in 1 .. n} \cup {new}) /\ Len(RunsStored) = n
      BY <1>5, <2>1
    <2>8. Append(RunsStored, new) = [i \in 1 .. n + 1 |-> IF i = n + 1 THEN new ELSE rec(i)]
      BY <1>5, <2>1, <2>7
    <2>9. \A i \in DOMAIN RunsStored : RunsStored[i].run # r
      BY <2>1, <2>5
    <2> QED BY <2>6, <2>8, <2>9 DEF Store!Enqueue, new
  <1> QED BY <1>12, <1>13, <1>14 DEF Store!StoreRunNext

(* A new event of a claimed run changes its status and nothing else. *)
LEMMA StatusMoves ==
    ASSUME events \in Seq(EventDocument), StoredInv, NEW x \in EventDocument,
           NEW i \in 1 .. Len(Queued), NEW s \in {"running", "succeeded", "failed"},
           events' = Append(events, x), x.data = RunDoc(Oldest(i), s),
           x.key = Oldest(i) \/ (x.key = NoKey /\ KeyExists(events, Oldest(i)))
    PROVE  StoredInv' /\ Grows /\ RunsStored' = [RunsStored EXCEPT ![i].status = s]
  <1>1. PICK n \in Nat : n = Len(Queued) /\ Queued \in Seq(RunData)
    BY QueryTypes
  <1>2. \A j \in 1 .. n : n + 1 - j \in 1 .. n /\ Queued[n + 1 - j] \in RunData
    BY <1>1
  <1>3. \A j \in 1 .. n : Oldest(j) = Queued[n + 1 - j].run /\ Oldest(j) \in QueueRun
    BY <1>1, <1>2 DEF Oldest, RunData
  <1>4. PICK r \in QueueRun : r = Oldest(i)
    BY <1>1, <1>3
  <1>5. x.data.run = r /\ x.data.status = s /\ s # "queued" /\ x.data = RunDoc(r, s)
    BY <1>4 DEF RunDoc
  <1>6. /\ Queued' = Queued
        /\ \A q : Current(q)' = IF r = q THEN <<x.data>> ELSE Current(q)
        /\ \A k : KeyExists(events, k)' <=> KeyExists(events, k) \/ x.key = k
    BY <1>5, EventAppended
  <1>7. \A j \in 1 .. n : Oldest(j)' = Oldest(j)
    BY <1>6 DEF Oldest
  <1>8. \A j \in 1 .. n : Oldest(j) = r <=> j = i
    <2> SUFFICES ASSUME NEW j \in 1 .. n, Oldest(j) = r PROVE j = i
      BY <1>4
    <2>1. i \in 1 .. n /\ n + 1 - j \in 1 .. n /\ n + 1 - i \in 1 .. n
      BY <1>1
    <2>2. Queued[n + 1 - j].run = Queued[n + 1 - i].run
      BY <1>3, <1>4, <2>1
    <2>3. n + 1 - j = n + 1 - i
      BY <1>1, <2>1, <2>2 DEF StoredInv
    <2> QED BY <2>1, <2>3
  <1>9. ASSUME NEW j \in 1 .. n
        PROVE  /\ j # i => Current(Oldest(j))' = Current(Oldest(j))
               /\ j = i => Current(Oldest(j))' = <<x.data>>
    <2>1. PICK o : o = Oldest(j) /\ o = Oldest(j)'
      BY <1>7
    <2>2. Current(Oldest(j))' = Current(o)'
      BY <2>1 DEF Current
    <2> QED BY <1>6, <1>8, <2>1, <2>2
  <1>10. Grows
    <2>1. ~ IsQueued(Oldest(i))'
      BY <1>1, <1>5, <1>9 DEF IsQueued
    <2> QED BY <1>1, <1>6, <1>7, <1>9, <2>1 DEF Grows, IsQueued
  <1>11. Current(r) # <<>> /\ KeyExists(events, r)'
    <2>1. \E j \in 1 .. Len(Queued) : Queued[j].run = r
      BY <1>1, <1>2, <1>3, <1>4
    <2>2. Current(r) # <<>>
      BY <2>1 DEF StoredInv
    <2>3. x.key = r \/ KeyExists(events, r)
      BY <1>4
    <2> QED BY <1>6, <2>2, <2>3
  <1>12. StoredInv'
    <2>1. /\ \A j \in 1 .. Len(Queued') : Queued'[j].status = "queued"
          /\ \A j, k \in 1 .. Len(Queued') : Queued'[j].run = Queued'[k].run => j = k
      BY <1>6 DEF StoredInv
    <2>2. ASSUME NEW q \in QueueRun
          PROVE  /\ Current(q)' # <<>> <=> \E j \in 1 .. Len(Queued') : Queued'[j].run = q
                 /\ KeyExists(events, q)' => Current(q)' # <<>>
                 /\ Current(q)' # <<>> => (KeyExists(events, q)' <=> Current(q)'[1].status # "queued")
      <3>1. Current(q) # <<>> <=> \E j \in 1 .. Len(Queued') : Queued'[j].run = q
        BY <1>6 DEF StoredInv
      <3>2. CASE q = r
        <4>1. Current(q)' = <<x.data>> /\ Current(q)' # <<>> /\ Current(q)'[1].status # "queued"
          BY <1>5, <1>6, <3>2
        <4> QED BY <1>11, <3>1, <3>2, <4>1
      <3>3. CASE q # r
        <4>1. Current(q)' = Current(q) /\ x.key # q
          BY <1>4, <1>6, <3>3, QueueAssumption
        <4>2. KeyExists(events, q)' <=> KeyExists(events, q)
          BY <1>6, <4>1
        <4> QED BY <3>1, <4>1, <4>2 DEF StoredInv
      <3> QED BY <3>2, <3>3
    <2> QED BY <2>1, <2>2 DEF StoredInv
  <1>13. RunsStored' = [RunsStored EXCEPT ![i].status = s]
    <2> DEFINE rec(j) == [run |-> Oldest(j), status |-> Current(Oldest(j))[1].status]
    <2>1. RunsStored = [j \in 1 .. n |-> rec(j)]
      BY <1>1, StoredRuns
    <2>2. RunsStored' = [j \in 1 .. n |-> rec(j)']
      BY <1>1, <1>6, StoredRuns
    <2>3. \A j \in 1 .. n : j # i => rec(j)' = rec(j)
      BY <1>7, <1>9
    <2>4. rec(i)' = [rec(i) EXCEPT !.status = s]
      BY <1>1, <1>5, <1>7, <1>9
    <2> HIDE DEF rec
    <2> QED BY <1>1, <2>1, <2>2, <2>3, <2>4
  <1> QED BY <1>10, <1>12, <1>13

(* Every move of the collection is a step of RunStore or none. *)
LEMMA MovesRefine ==
    ASSUME events \in Seq(EventDocument), StoredInv, EventsMove
    PROVE  StoredInv' /\ Grows /\ [Store!StoreRunNext]_RunsStored
  <1>1. PICK n \in Nat : n = Len(Queued) /\ Queued \in Seq(RunData)
    BY QueryTypes
  <1>2. CASE events' = events
    <2>1. Queued' = Queued /\ RunsStored' = RunsStored
      BY <1>2 DEF Queued, RunsStored, Current
    <2>2. \A r : Current(r)' = Current(r) /\ (KeyExists(events, r)' <=> KeyExists(events, r))
      BY <1>2 DEF Current, KeyExists
    <2>3. StoredInv'
      BY <2>1, <2>2 DEF StoredInv
    <2>4. Grows
      BY <1>1, <1>2, <2>1 DEF Grows, Oldest, IsQueued, Current
    <2> QED BY <2>1, <2>3, <2>4
  <1>3. ASSUME NEW r \in QueueRun, Enqueued(r)
        PROVE  StoredInv' /\ Grows /\ [Store!StoreRunNext]_RunsStored
    BY <1>3, EnqueueMoves
  <1>4. ASSUME NEW i \in 1 .. n PROVE Oldest(i) \in QueueRun /\ RunsStored[i].status = Current(Oldest(i))[1].status
              /\ i \in DOMAIN RunsStored /\ Current(Oldest(i)) # <<>>
    <2>1. n + 1 - i \in 1 .. n
      OBVIOUS
    <2>2. Queued[n + 1 - i] \in RunData
      BY <1>1, <2>1
    <2>3. Oldest(i) = Queued[n + 1 - i].run /\ Oldest(i) \in QueueRun
      BY <1>1, <2>2 DEF Oldest, RunData
    <2>4. Current(Oldest(i)) # <<>>
      BY <1>1, <2>1, <2>3 DEF StoredInv
    <2> QED BY <1>1, <2>3, <2>4, StoredRuns
  <1>5. ASSUME NEW i \in 1 .. n, Claimed(i)
        PROVE  StoredInv' /\ Grows /\ [Store!StoreRunNext]_RunsStored
    <2>1. PICK x \in EventDocument :
             /\ events' = Append(events, x) /\ x.data = RunDoc(Oldest(i), "running")
             /\ x.key = Oldest(i)
      BY <1>4, <1>5, DocumentTypes DEF Claimed
    <2>2. StoredInv' /\ Grows /\ RunsStored' = [RunsStored EXCEPT ![i].status = "running"]
      BY <1>1, <2>1, StatusMoves
    <2>3. RunsStored[i].status = "queued"
      BY <1>4, <1>5 DEF Claimed, StoredInv
    <2>4. \A j \in 1 .. i - 1 : RunsStored[j].status # "queued"
      <3> SUFFICES ASSUME NEW j \in 1 .. i - 1 PROVE RunsStored[j].status # "queued"
        OBVIOUS
      <3>1. j \in 1 .. n /\ ~ IsQueued(Oldest(j))
        BY <1>5 DEF Claimed
      <3> QED BY <1>4, <3>1 DEF IsQueued
    <2>5. Store!ClaimNextQueued(i)
      BY <2>2, <2>3, <2>4 DEF Store!ClaimNextQueued
    <2> QED BY <1>4, <2>2, <2>5 DEF Store!StoreRunNext
  <1>6. ASSUME NEW r \in QueueRun, NEW s \in {"succeeded", "failed"}, Reported(r, s)
        PROVE  StoredInv' /\ Grows /\ [Store!StoreRunNext]_RunsStored
    <2>1. Current(r) # <<>> /\ Current(r)[1].status # "queued"
      BY <1>6 DEF Reported, StoredInv
    <2>2. PICK j \in 1 .. n : Queued[j].run = r
      BY <1>1, <2>1 DEF StoredInv
    <2>3. PICK i \in 1 .. n : Oldest(i) = r
      <3>1. n + 1 - j \in 1 .. n /\ n + 1 - (n + 1 - j) = j
        OBVIOUS
      <3>2. Oldest(n + 1 - j) = r
        BY <1>1, <2>2, <3>1 DEF Oldest
      <3> QED BY <3>1, <3>2
    <2>4. PICK x \in EventDocument :
             /\ events' = Append(events, x) /\ x.data = RunDoc(Oldest(i), s)
             /\ x.key = NoKey /\ KeyExists(events, Oldest(i))
      BY <1>6, <2>3, DocumentTypes DEF Reported
    <2>5. StoredInv' /\ Grows /\ RunsStored' = [RunsStored EXCEPT ![i].status = s]
      BY <1>1, <2>4, StatusMoves
    <2>6. Store!SetStatus(i, s)
      BY <1>4, <2>1, <2>3, <2>5 DEF Store!SetStatus
    <2> QED BY <1>4, <2>5, <2>6 DEF Store!StoreRunNext
  <1> QED BY <1>1, <1>2, <1>3, <1>5, <1>6 DEF EventsMove

(* With at most QueryLimit runs the query returns all of them. *)
LEMMA QueuedBounded ==
    ASSUME events \in Seq(EventDocument), StoredInv, WithinLimit
    PROVE  Len(Queued) <= QueryLimit
  <1>1. Queued \in Seq(RunData) /\ Len(Queued) \in Nat
    BY QueryTypes
  <1> DEFINE f == [i \in 1 .. Len(Queued) |-> Queued[i].run]
  <1>2. f \in [1 .. Len(Queued) -> QueueRun]
    <2>1. \A i \in 1 .. Len(Queued) : Queued[i] \in RunData
      BY <1>1
    <2>2. \A i \in 1 .. Len(Queued) : Queued[i].run \in QueueRun
      BY <2>1 DEF RunData
    <2> QED BY <2>2
  <1>3. IsInjective(f)
    BY DEF IsInjective, StoredInv
  <1>4. f \in Injection(1 .. Len(Queued), QueueRun)
    BY <1>2, <1>3 DEF Injection
  <1> HIDE DEF f
  <1>5. Cardinality(1 .. Len(Queued)) <= Cardinality(QueueRun)
    BY <1>4, FS_Injection DEF WithinLimit
  <1>6. Cardinality(1 .. Len(Queued)) = Len(Queued)
    <2>1. 1 \in Int /\ Len(Queued) \in Int
      BY <1>1
    <2>2. Cardinality(1 .. Len(Queued)) = IF 1 > Len(Queued) THEN 0 ELSE Len(Queued) - 1 + 1
      BY <2>1, FS_Interval
    <2> QED BY <1>1, <2>2
  <1>7. Cardinality(QueueRun) \in Nat
    BY FS_CardinalityType DEF WithinLimit
  <1> QED BY <1>1, <1>5, <1>6, <1>7, QueueAssumption DEF WithinLimit

(* An engine that does not move stays past what it has passed. *)
LEMMA PassedStays ==
    ASSUME Grows, Len(Queued) \in Nat, Len(Queued') \in Nat, NEW e \in Engine,
           engine'[e].candidates = engine[e].candidates,
           NEW k \in 0 .. Len(Queued), Passed(e, k), Len(engine[e].candidates) \in Nat
    PROVE  Passed(e, k)' /\ k \in 0 .. Len(Queued')
  <1>1. Len(Queued) <= Len(Queued') /\ k \in 0 .. Len(Queued')
    BY DEF Grows
  <1>2. ASSUME NEW j \in 1 .. Len(engine'[e].candidates)
        PROVE  k + j <= Len(Queued') /\ engine'[e].candidates[j] = Oldest(k + j)'
    <2>1. k + j <= Len(Queued) /\ engine[e].candidates[j] = Oldest(k + j)
      BY DEF Passed
    <2>2. k + j \in 1 .. Len(Queued)
      BY <2>1
    <2> QED BY <1>1, <2>1, <2>2 DEF Grows
  <1>3. \A i \in 1 .. k : ~ IsQueued(Oldest(i))'
    BY DEF Passed, Grows
  <1> QED BY <1>1, <1>2, <1>3 DEF Passed

(* An engine whose first candidate is not queued goes on to the next. *)
LEMMA PassedOne ==
    ASSUME QueueTypeOK, HandedInv, NEW e \in Engine, engine[e].pc \in {"check", "claim"},
           NEW k \in 0 .. Len(Queued), Passed(e, k), k + 1 \in 1 .. Len(Queued),
           ~ IsQueued(Oldest(k + 1)), events' = events, Goto(e, Tail(engine[e].candidates))
    PROVE  engine'[e].pc = "idle" \/ \E m \in 0 .. Len(Queued') : Passed(e, m)'
  <1>1. engine[e].candidates \in Seq(QueueRun) /\ engine[e].candidates # <<>>
    BY DEF HandedInv, QueueTypeOK, EngineRecord
  <1>2. PICK t \in Seq(QueueRun) : t = Tail(engine[e].candidates)
    <2>1. Tail(engine[e].candidates) \in Seq(QueueRun)
      BY <1>1
    <2> QED BY <2>1
  <1>3. /\ Len(t) \in Nat /\ Len(engine[e].candidates) = Len(t) + 1
        /\ \A j \in 1 .. Len(t) : t[j] = engine[e].candidates[j + 1]
    BY <1>1, <1>2
  <1>4. engine'[e] = IF t = <<>> THEN IdleEngine ELSE [pc |-> "check", candidates |-> t, run |-> NoKey]
    BY <1>2 DEF Goto, QueueTypeOK
  <1>5. Queued' = Queued /\ (\A i : Oldest(i)' = Oldest(i)) /\ \A i : IsQueued(Oldest(i))' <=> IsQueued(Oldest(i))
    BY DEF Queued, Oldest, IsQueued, Current
  <1>6. CASE t = <<>>
    BY <1>4, <1>6 DEF IdleEngine
  <1>7. CASE t # <<>>
    <2>1. engine'[e].candidates = t
      BY <1>4, <1>7
    <2>2. ASSUME NEW j \in 1 .. Len(t) PROVE (k + 1) + j <= Len(Queued') /\ t[j] = Oldest((k + 1) + j)'
      <3>1. j + 1 \in 1 .. Len(engine[e].candidates) /\ k + (j + 1) = (k + 1) + j
        <4>1. Len(t) \in Nat /\ Len(engine[e].candidates) = Len(t) + 1 /\ Len(Queued) \in Nat
          BY <1>3, QueryTypes DEF QueueTypeOK
        <4> QED BY <4>1
      <3>2. k + (j + 1) <= Len(Queued) /\ engine[e].candidates[j + 1] = Oldest(k + (j + 1))
        BY <3>1 DEF Passed
      <3> QED BY <1>3, <1>5, <3>1, <3>2
    <2>3. \A i \in 1 .. k + 1 : ~ IsQueued(Oldest(i))'
      BY <1>5 DEF Passed
    <2>4. Passed(e, k + 1)'
      BY <2>1, <2>2, <2>3 DEF Passed
    <2> QED BY <1>5, <2>4
  <1> QED BY <1>6, <1>7

(* Only the engine that moves has to be looked at. *)
LEMMA OthersOrdered ==
    ASSUME QueueTypeOK, QueueTypeOK', OrderInv, Grows, NEW e \in Engine,
           \A f \in Engine \ {e} : engine'[f] = engine[f],
           engine'[e].pc \in {"check", "claim"} => \E k \in 0 .. Len(Queued') : Passed(e, k)'
    PROVE  OrderInv'
  <1>1. Len(Queued) \in Nat /\ Len(Queued') \in Nat
    <2>1. Queued \in Seq(RunData)
      BY QueryTypes DEF QueueTypeOK
    <2> QED BY <2>1 DEF Grows
  <1>2. ASSUME NEW f \in Engine, engine'[f].pc \in {"check", "claim"}, f # e
        PROVE  \E k \in 0 .. Len(Queued') : Passed(f, k)'
    <2>1. engine'[f] = engine[f]
      BY <1>2
    <2>2. PICK k \in 0 .. Len(Queued) : Passed(f, k)
      BY <1>2, <2>1 DEF OrderInv
    <2>3. Len(engine[f].candidates) \in Nat
      <3>1. engine[f].candidates \in Seq(QueueRun)
        BY DEF QueueTypeOK, EngineRecord
      <3> QED BY <3>1
    <2>4. Passed(f, k)' /\ k \in 0 .. Len(Queued')
      BY <1>1, <2>1, <2>2, <2>3, PassedStays
    <2> QED BY <2>4
  <1> QED BY <1>2 DEF OrderInv

(* Every step keeps the engines past the oldest runs only once those are   *)
(* claimed.                                                                *)
LEMMA OrderStep ==
    ASSUME QueueTypeOK, QueueTypeOK', HandedInv, StoredInv, OrderInv, WithinLimit,
           Grows, [QueueNext]_queueVars
    PROVE  OrderInv'
  <1>1. events \in Seq(EventDocument) /\ Len(Queued) \in Nat
    BY QueryTypes DEF QueueTypeOK
  <1>2. \A f \in Engine : engine[f] \in EngineRecord /\ engine[f].candidates \in Seq(QueueRun)
    BY DEF QueueTypeOK, EngineRecord
  <1>3. ASSUME NEW e \in Engine, NEW st, engine' = [engine EXCEPT ![e] = st], st.pc \notin {"check", "claim"}
        PROVE  OrderInv'
    <2>1. engine'[e] = st /\ \A f \in Engine \ {e} : engine'[f] = engine[f]
      BY <1>3 DEF QueueTypeOK
    <2> QED BY <1>3, <2>1, OthersOrdered
  <1>4. ASSUME engine' = engine PROVE OrderInv'
    <2>1. CASE Engine = {}
      BY <2>1 DEF OrderInv
    <2>2. ASSUME NEW e \in Engine PROVE OrderInv'
      <3>1. ASSUME engine[e].pc \in {"check", "claim"} PROVE \E k \in 0 .. Len(Queued') : Passed(e, k)'
        <4>1. PICK k \in 0 .. Len(Queued) : Passed(e, k)
          BY <3>1 DEF OrderInv
        <4>2. Len(engine[e].candidates) \in Nat
          BY <1>2
        <4>3. Len(Queued') \in Nat
          BY DEF Grows
        <4> QED BY <1>1, <1>4, <4>1, <4>2, <4>3, PassedStays
      <3> QED BY <1>4, <3>1, OthersOrdered
    <2> QED BY <2>1, <2>2
  <1>5. ASSUME NEW e \in Engine, PollQueue(e) PROVE OrderInv'
    <2>1. events' = events /\ engine[e].pc = "idle" /\ Candidates # <<>>
      BY <1>5 DEF PollQueue
    <2>2. Len(Queued) <= QueryLimit
      BY <1>1, QueuedBounded
    <2>3. PICK c : c = Candidates
      OBVIOUS
    <2>4. /\ c \in Seq(QueueRun) /\ Len(c) = Len(Queued)
          /\ \A i \in 1 .. Len(Queued) : c[i] = Oldest(i)
      BY <1>1, <2>2, <2>3, CandidatesTypes
    <2>5. engine'[e].candidates = c /\ \A f \in Engine \ {e} : engine'[f] = engine[f]
      BY <1>5, <2>1, <2>3 DEF PollQueue, Goto, QueueTypeOK
    <2>6. Queued' = Queued /\ \A i : Oldest(i)' = Oldest(i)
      BY <2>1 DEF Queued, Oldest
    <2>7. Passed(e, 0)'
      BY <1>1, <2>4, <2>5, <2>6 DEF Passed
    <2>8. 0 \in 0 .. Len(Queued')
      BY <1>1, <2>6
    <2> QED BY <2>5, <2>7, <2>8, OthersOrdered
  <1>6. ASSUME NEW e \in Engine, CheckCandidate(e) PROVE OrderInv'
    <2>1. events' = events /\ engine[e].pc = "check"
      BY <1>6 DEF CheckCandidate
    <2>2. PICK k \in 0 .. Len(Queued) : /\ Passed(e, k) /\ k + 1 \in 1 .. Len(Queued)
                                        /\ Head(engine[e].candidates) = Oldest(k + 1)
      BY <2>1, OldestCandidate
    <2>3. CASE IsQueued(Head(engine[e].candidates))
      <3>1. engine' = [engine EXCEPT ![e].pc = "claim"]
        BY <1>6, <2>3 DEF CheckCandidate
      <3>2. engine'[e].candidates = engine[e].candidates /\ \A f \in Engine \ {e} : engine'[f] = engine[f]
        BY <1>2, <3>1 DEF QueueTypeOK, EngineRecord
      <3>3. Queued' = Queued
        BY <2>1 DEF Queued
      <3>4. Passed(e, k)' /\ k \in 0 .. Len(Queued')
        BY <1>1, <1>2, <2>2, <3>2, <3>3, PassedStays
      <3> QED BY <3>2, <3>4, OthersOrdered
    <2>4. CASE ~ IsQueued(Head(engine[e].candidates))
      <3>1. Goto(e, Tail(engine[e].candidates))
        BY <1>6, <2>4 DEF CheckCandidate
      <3>2. ~ IsQueued(Oldest(k + 1))
        BY <2>2, <2>4
      <3>3. engine'[e].pc = "idle" \/ \E m \in 0 .. Len(Queued') : Passed(e, m)'
        BY <2>1, <2>2, <3>1, <3>2, PassedOne
      <3>4. \A f \in Engine \ {e} : engine'[f] = engine[f]
        BY <3>1 DEF Goto, QueueTypeOK
      <3> QED BY <3>3, <3>4, OthersOrdered
    <2> QED BY <2>3, <2>4
  <1>7. ASSUME NEW e \in Engine, ClaimRun(e) PROVE OrderInv'
    <2>1. engine[e].pc = "claim"
      BY <1>7 DEF ClaimRun
    <2>2. PICK k \in 0 .. Len(Queued) : /\ Passed(e, k) /\ k + 1 \in 1 .. Len(Queued)
                                        /\ Head(engine[e].candidates) = Oldest(k + 1)
      BY <2>1, OldestCandidate
    <2>3. CASE KeyExists(events, Head(engine[e].candidates))
      <3>1. Goto(e, Tail(engine[e].candidates)) /\ events' = events
        BY <1>7, <2>3 DEF ClaimRun, CreateIdempotent
      <3>2. ~ IsQueued(Oldest(k + 1))
        <4>1. Head(engine[e].candidates) \in QueueRun
          <5>1. engine[e].candidates \in Seq(QueueRun) /\ engine[e].candidates # <<>>
            BY <1>2, <2>1 DEF HandedInv
          <5> QED BY <5>1
        <4> QED BY <2>2, <2>3, <4>1 DEF StoredInv, IsQueued
      <3>3. engine'[e].pc = "idle" \/ \E m \in 0 .. Len(Queued') : Passed(e, m)'
        BY <2>1, <2>2, <3>1, <3>2, PassedOne
      <3>4. \A f \in Engine \ {e} : engine'[f] = engine[f]
        BY <3>1 DEF Goto, QueueTypeOK
      <3> QED BY <3>3, <3>4, OthersOrdered
    <2>4. CASE ~ KeyExists(events, Head(engine[e].candidates))
      <3> DEFINE st == [pc |-> "run", candidates |-> <<>>, run |-> Head(engine[e].candidates)]
      <3>1. engine' = [engine EXCEPT ![e] = st]
        BY <1>7, <2>4 DEF ClaimRun
      <3>2. st.pc \notin {"check", "claim"}
        OBVIOUS
      <3>3. engine'[e].pc = "run" /\ \A f \in Engine \ {e} : engine'[f] = engine[f]
        BY <3>1 DEF QueueTypeOK
      <3> QED BY <3>3, OthersOrdered
    <2> QED BY <2>3, <2>4
  <1>8. ASSUME NEW e \in Engine, ReadRun(e) PROVE OrderInv'
    <2>1. engine'[e].pc = "report" /\ \A f \in Engine \ {e} : engine'[f] = engine[f]
      BY <1>2, <1>8 DEF ReadRun, QueueTypeOK, EngineRecord
    <2> QED BY <2>1, OthersOrdered
  <1>9. ASSUME NEW e \in Engine, engine' = [engine EXCEPT ![e] = IdleEngine] PROVE OrderInv'
    BY <1>3, <1>9 DEF IdleEngine
  <1> QED
    BY <1>4, <1>5, <1>6, <1>7, <1>8, <1>9
       DEF QueueNext, EngineStep, EnqueueRun, AppendStatus, CallFails, queueVars

(* The empty collection is the empty store. *)
LEMMA StoredInit == QueueInit => StoredInv /\ OrderInv /\ RunsStored = <<>>
  <1> SUFFICES ASSUME QueueInit PROVE StoredInv /\ OrderInv /\ RunsStored = <<>>
    OBVIOUS
  <1>1. events = <<>> /\ Queued = <<>>
    BY MatchesEmpty DEF QueueInit, Queued
  <1>2. \A r : ~ KeyExists(events, r)
    BY <1>1 DEF KeyExists
  <1>3. ASSUME NEW r PROVE Current(r) = <<>>
    <2>1. <<>> \in Seq(RunData) /\ 1 \in Nat \ {0} /\ Matches(events, "run", r) = <<>>
      BY <1>1, MatchesEmpty
    <2> QED BY <2>1, FirstOfTypes DEF Current, QueryDocuments
  <1>4. StoredInv
    BY <1>1, <1>2, <1>3 DEF StoredInv
  <1>5. OrderInv
    BY DEF QueueInit, OrderInv, IdleEngine
  <1>6. RunsStored = <<>>
    BY <1>1 DEF RunsStored, Queued
  <1> QED BY <1>4, <1>5, <1>6

(* With no more runs than the query returns, the collection implements     *)
(* RunStore: any number of engines, whose checks, claims and reports       *)
(* interleave and whose answers may be lost, hand out the runs in the      *)
(* order in which they were enqueued, each one once.                       *)
THEOREM QueueRefinesStore == ASSUME WithinLimit PROVE LiveSpec => QueueImplementsStore
  <1> DEFINE Inv == QueueTypeOK /\ HandedInv /\ StoredInv /\ OrderInv
  <1>1. LiveInit => Inv /\ Store!StoreRunInit
    BY HandedInit, StoredInit DEF LiveInit, Store!StoreRunInit
  <1>2. Inv /\ [LiveNext]_liveVars => Inv' /\ [Store!StoreRunNext]_RunsStored
    <2> SUFFICES ASSUME Inv, [LiveNext]_liveVars PROVE Inv' /\ [Store!StoreRunNext]_RunsStored
      OBVIOUS
    <2>1. [QueueNext]_queueVars
      BY DEF LiveNext, QueueStep, ControllerStep, liveVars
    <2>2. QueueTypeOK' /\ HandedInv'
      BY <2>1, HandedStep
    <2>3. EventsMove
      BY <2>1, QueueMoves
    <2>4. StoredInv' /\ Grows /\ [Store!StoreRunNext]_RunsStored
      BY <2>3, MovesRefine DEF QueueTypeOK
    <2>5. OrderInv'
      BY <2>1, <2>2, <2>4, OrderStep
    <2> QED BY <2>2, <2>4, <2>5
  <1> QED BY <1>1, <1>2, PTL DEF LiveSpec, QueueImplementsStore, Store!StoreRunSpec

=============================================================================

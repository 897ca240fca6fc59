------------------------------ MODULE RunQueue ------------------------------
(***************************************************************************)
(* DataMeshRunStore: CI runs event-sourced in one append-only collection   *)
(* and shared by the API and several engines.  An action is one call to    *)
(* data-mesh and the code up to the next call.                             *)
(***************************************************************************)
EXTENDS DataMesh, FiniteSets

CONSTANTS Engine,      (* aivcsd processes *)
          QueueRun,    (* runs the API may enqueue, numbered *)
          QueryLimit,  (* the limit of the query for queued events, 100 *)
          QueueFaults  (* how many calls may fail *)

ASSUME QueueAssumption ==
    /\ QueueRun \subseteq Nat \ {0} /\ NoKey \notin QueueRun
    /\ QueryLimit \in Nat \ {0} /\ QueueFaults \in Nat

VARIABLES events,   (* the collection ci_executions *)
          engine,   (* what each engine is doing *)
          handed,   (* how often each run was handed to an engine *)
          qfaults   (* failures so far *)

queueVars == <<events, engine, handed, qfaults>>

EngineRecord ==
    [pc : {"idle", "check", "claim", "run", "report"},
     candidates : Seq(QueueRun), run : QueueRun \cup {NoKey}]

IdleEngine == [pc |-> "idle", candidates |-> <<>>, run |-> NoKey]

(* A stored event: run_doc under the key of a claim, or under none.        *)
EventDocument ==
    [key : QueueRun \cup {NoKey},
     data : [run : QueueRun, status : {"queued", "running", "succeeded", "failed"}]]

QueueTypeOK ==
    /\ events \in Seq(EventDocument)
    /\ engine \in [Engine -> EngineRecord]
    /\ handed \in [QueueRun -> Nat]
    /\ qfaults \in 0 .. QueueFaults

QueueInit ==
    /\ events = <<>>
    /\ engine = [e \in Engine |-> IdleEngine]
    /\ handed = [r \in QueueRun |-> 0]
    /\ qfaults = 0

RunDoc(r, s) == [run |-> r, status |-> s]

(* get: the newest event of a run, as a sequence of at most one. *)
Current(r) == QueryDocuments(events, "run", r, 1)

IsQueued(r) == Current(r) # <<>> /\ Current(r)[1].status = "queued"

(* enqueue appends a queued event under a fresh id: run r is the r-th. *)
EnqueueRun(r) ==
    /\ Current(r) = <<>> /\ \A q \in 1 .. r - 1 : Current(q) # <<>>
    /\ events' = CreateDocument(events, RunDoc(r, "queued"))
    /\ UNCHANGED <<engine, handed, qfaults>>

(* The candidates of claim_next_queued: the newest queued events, oldest   *)
(* first, each run once.  A plausible bug forgets to reverse them.         *)
CandidatesNewestFirst ==
    LET docs == QueryDocuments(events, "status", "queued", QueryLimit)
    IN  [i \in DOMAIN docs |-> docs[i].run]

Candidates ==
    LET docs == QueryDocuments(events, "status", "queued", QueryLimit)
    IN  [i \in DOMAIN docs |-> docs[Len(docs) + 1 - i].run]

(* An engine looks at its next candidate, or gives up when there is none. *)
Goto(e, cands) ==
    engine' = [engine EXCEPT ![e] =
        IF cands = <<>> THEN IdleEngine
        ELSE [pc |-> "check", candidates |-> cands, run |-> NoKey]]

PollQueue(e) ==
    /\ engine[e].pc = "idle"
    /\ Candidates # <<>>
    /\ Goto(e, Candidates)
    /\ UNCHANGED <<events, handed, qfaults>>

(* The candidate's newest event decides whether a claim is worth trying.   *)
(* A plausible bug stops at the first candidate that is taken.             *)
CheckCandidateStops(e) ==
    /\ engine[e].pc = "check"
    /\ IF IsQueued(Head(engine[e].candidates))
       THEN engine' = [engine EXCEPT ![e].pc = "claim"]
       ELSE Goto(e, <<>>)
    /\ UNCHANGED <<events, handed, qfaults>>

CheckCandidate(e) ==
    /\ engine[e].pc = "check"
    /\ IF IsQueued(Head(engine[e].candidates))
       THEN engine' = [engine EXCEPT ![e].pc = "claim"]
       ELSE Goto(e, Tail(engine[e].candidates))
    /\ UNCHANGED <<events, handed, qfaults>>

(* The running event is written under the key claim:<run>; an engine that  *)
(* is told "exists" has lost the run and tries the next candidate.  A      *)
(* plausible bug writes the event without the key.                         *)
ClaimRunUnkeyed(e) ==
    LET r == Head(engine[e].candidates)
    IN  /\ engine[e].pc = "claim"
        /\ events' = CreateDocument(events, RunDoc(r, "running"))
        /\ engine' = [engine EXCEPT ![e] = [pc |-> "run", candidates |-> <<>>, run |-> r]]
        /\ handed' = [handed EXCEPT ![r] = @ + 1]
        /\ UNCHANGED qfaults

ClaimRun(e) ==
    LET r == Head(engine[e].candidates)
    IN  /\ engine[e].pc = "claim"
        /\ events' = CreateIdempotent(events, r, RunDoc(r, "running"))
        /\ IF KeyExists(events, r)
           THEN Goto(e, Tail(engine[e].candidates)) /\ UNCHANGED handed
           ELSE /\ engine' = [engine EXCEPT ![e] =
                                 [pc |-> "run", candidates |-> <<>>, run |-> r]]
                /\ handed' = [handed EXCEPT ![r] = @ + 1]
        /\ UNCHANGED qfaults

(* set_status reads the run, which exists since it was claimed, ...        *)
ReadRun(e) ==
    /\ engine[e].pc = "run"
    /\ Current(engine[e].run) # <<>>
    /\ engine' = [engine EXCEPT ![e].pc = "report"]
    /\ UNCHANGED <<events, handed, qfaults>>

(* ... and appends an event with the new status.                           *)
AppendStatus(e, s) ==
    /\ engine[e].pc = "report"
    /\ events' = CreateDocument(events, RunDoc(engine[e].run, s))
    /\ engine' = [engine EXCEPT ![e] = IdleEngine]
    /\ UNCHANGED <<handed, qfaults>>

(* A call fails: without effect, or with its effect done and the answer    *)
(* lost to the 30 s timeout.  The operation returns the error and the      *)
(* engine forgets what it was doing.                                       *)
CallFails(e) ==
    /\ engine[e].pc # "idle" /\ qfaults < QueueFaults
    /\ \/ UNCHANGED events
       \/ /\ engine[e].pc = "claim"
          /\ LET r == Head(engine[e].candidates)
             IN  events' = CreateIdempotent(events, r, RunDoc(r, "running"))
       \/ /\ engine[e].pc = "report"
          /\ \E s \in {"succeeded", "failed"} :
                events' = CreateDocument(events, RunDoc(engine[e].run, s))
    /\ engine' = [engine EXCEPT ![e] = IdleEngine]
    /\ qfaults' = qfaults + 1
    /\ UNCHANGED handed

EngineStep(e) ==
    \/ PollQueue(e) \/ CheckCandidate(e) \/ ClaimRun(e) \/ ReadRun(e)
    \/ \E s \in {"succeeded", "failed"} : AppendStatus(e, s)

QueueNext ==
    \/ \E r \in QueueRun : EnqueueRun(r)
    \/ \E e \in Engine : EngineStep(e) \/ CallFails(e)

(* aivcsd polls and works through what it has claimed. *)
QueueFairness == \A e \in Engine : WF_queueVars(EngineStep(e))

QueueSpec == QueueInit /\ [][QueueNext]_queueVars /\ QueueFairness

-----------------------------------------------------------------------------
(* The runs in the order of their first event, with their newest status.   *)
RunsStored ==
    LET queued == Matches(events, "status", "queued")
        run(i) == queued[Len(queued) + 1 - i].run
    IN  [i \in DOMAIN queued |-> [run |-> run(i), status |-> Current(run(i))[1].status]]

Store == INSTANCE RunStore WITH Run <- QueueRun, runs <- RunsStored

(* The query for queued events returns all of them. *)
WithinLimit == IsFiniteSet(QueueRun) /\ Cardinality(QueueRun) <= QueryLimit

(* DataMeshRunStore implements RunStore (claim_next_queued "claims the     *)
(* oldest queued run"): whatever the engines interleave and whichever      *)
(* answers are lost, a claim takes the oldest queued run, no run is        *)
(* claimed twice, and a finished run never runs again.  This needs         *)
(* WithinLimit: the query cuts the oldest queued events off.               *)
QueueImplementsStore == Store!StoreRunSpec

(* No run is handed to two engines, although both may have seen it queued  *)
(* before either claimed it.                                               *)
ClaimedOnce == \A r \in QueueRun : handed[r] <= 1

(* An engine that holds a run was handed it, and the claim of that run is  *)
(* in the collection, so nobody else will be handed it.                    *)
HeldIsClaimed ==
    \A e \in Engine :
        engine[e].pc \in {"run", "report"} =>
            /\ handed[engine[e].run] = 1
            /\ KeyExists(events, engine[e].run)
            /\ \A f \in Engine \ {e} : engine[f].run # engine[e].run

(* Every enqueued run is eventually claimed, whatever runs the query also  *)
(* returns and whoever wins the race for them.                             *)
EveryRunClaimed == \A r \in QueueRun : IsQueued(r) ~> ~ IsQueued(r)

=============================================================================

---------------------------- MODULE LibraryProofs ----------------------------
(***************************************************************************)
(* Theorems about the parts of the core that a caller drives, for any      *)
(* pipelines, policies, versions, suites, tasks and links: the CI pipeline *)
(* with its gate and its recovery, the gates of a release, planning, the   *)
(* issue graph, the compaction of an agent's memory, and the alignment of  *)
(* two runs.  What a recursive function computes is found with the least   *)
(* round that would refute it (LeastIndex, IterationExists).               *)
(***************************************************************************)
EXTENDS CiPipeline, ReleaseGates, Planning, IssueGraph, AgentMemory, RunDiffs,
        FiniteSetTheorems, FunctionTheorems, SequenceTheorems, NaturalsInduction, TLAPS

-----------------------------------------------------------------------------
(* The pipeline.  The tools that the events of a kind name. *)
CiEvent == [kind : {"tool_called", "tool_returned", "tool_failed"}, tool : STRING]

Named(E, kind) == {e[2].tool : e \in {f \in E : f[2].kind = kind}}

(* The stage that has been called and whose result is not recorded yet. *)
OpenStage(k) == IF k.pc \in {"execute", "record"} THEN {Head(k.stages).name} ELSE {}

(* What the command knows agrees with the rows it has written: the numbers  *)
(* of the events are those below seq, and all_passed, the results and the   *)
(* events tell the same.                                                    *)
RecordedOK(k, E) ==
    /\ IsFiniteSet(E) /\ Cardinality(E) = k.seq - 1
    /\ \A e \in E : e[1] < k.seq
    /\ k.allPassed <=> \A i \in DOMAIN k.results : k.results[i] = "zero"
    /\ k.allPassed <=> Named(E, "tool_failed") = {}

AtStage(k, E, row) ==
    /\ k.pc \in {"stage", "execute", "record"} => row.status = "RUNNING"
    /\ k.pc \in {"execute", "record"} => k.stages # <<>>
    /\ k.pc = "record" => k.current # "none"
    /\ k.pc # "error" \/ row.status \in Terminal =>
          Named(E, "tool_called") \subseteq Named(E, "tool_returned") \cup Named(E, "tool_failed")
                                               \cup OpenStage(k)
    /\ row.status \in Terminal =>
          /\ k.pc \in {"gate", "done", "error"}
          /\ row.status = (IF k.allPassed THEN "COMPLETED" ELSE "FAILED")
          /\ row.total = k.seq - 1

PipelineOK(k, E, row) ==
    \/ k \in [pc : {"idle", "error"}] /\ E = {} /\ row.status = "NONE"
    \/ k \in PipelineResult /\ RecordedOK(k, E) /\ AtStage(k, E, row)

PipelineInv ==
    /\ runs \in [RunId -> Row]
    /\ events \in [RunId -> SUBSET (Nat \X CiEvent)]
    /\ PipelineOK(ci, events[CiRun], runs[CiRun])

(* An event with the next number joins the others. *)
LEMMA EventJoins ==
    ASSUME NEW E, E \subseteq Nat \X CiEvent, NEW n \in Nat \ {0}, NEW ev \in CiEvent,
           IsFiniteSet(E), Cardinality(E) = n - 1, \A e \in E : e[1] < n
    PROVE  LET F == E \cup {<<n, ev>>}
           IN  /\ F \subseteq Nat \X CiEvent /\ IsFiniteSet(F) /\ Cardinality(F) = (n + 1) - 1
               /\ \A e \in F : e[1] < n + 1
               /\ \A kind : Named(F, kind) = IF ev.kind = kind THEN Named(E, kind) \cup {ev.tool}
                                             ELSE Named(E, kind)
  <1> DEFINE new == <<n, ev>>
             F == E \cup {new}
  <1>1. new \in Nat \X CiEvent /\ new[1] = n /\ new[2] = ev
    OBVIOUS
  <1>2. new \notin E
    <2> SUFFICES ASSUME new \in E PROVE FALSE
      OBVIOUS
    <2>1. new[1] < n
      OBVIOUS
    <2> QED BY <2>1, <1>1
  <1>3. IsFiniteSet(F) /\ Cardinality(F) = Cardinality(E) + 1
    BY <1>2, FS_AddElement
  <1>4. F \subseteq Nat \X CiEvent
    BY <1>1
  <1>5. \A e \in F : e[1] < n + 1
    <2> SUFFICES ASSUME NEW e \in F PROVE e[1] < n + 1
      OBVIOUS
    <2>1. CASE e \in E
      <3>1. e[1] \in Nat /\ e[1] < n
        BY <2>1
      <3> QED BY <3>1
    <2>2. CASE e = new
      BY <2>2, <1>1
    <2> QED BY <2>1, <2>2
  <1>6. \A kind : Named(F, kind) = IF ev.kind = kind THEN Named(E, kind) \cup {ev.tool}
                                   ELSE Named(E, kind)
    <2> SUFFICES ASSUME NEW kind
                 PROVE  Named(F, kind) = IF ev.kind = kind THEN Named(E, kind) \cup {ev.tool}
                                         ELSE Named(E, kind)
      OBVIOUS
    <2> HIDE DEF new
    <2>1. {f \in F : f[2].kind = kind}
            = IF ev.kind = kind THEN {f \in E : f[2].kind = kind} \cup {new}
              ELSE {f \in E : f[2].kind = kind}
      BY <1>1
    <2> QED BY <2>1, <1>1 DEF Named
  <1>7. Cardinality(F) = (n + 1) - 1
    BY <1>3
  <1> HIDE DEF F
  <1> QED BY <1>3, <1>4, <1>5, <1>6, <1>7 DEF F

(* No event has the next number, so the ledger keeps the one it is given.  *)
LEMMA EventKept ==
    ASSUME events \in [RunId -> SUBSET (Nat \X CiEvent)], NEW n \in Nat \ {0}, NEW ev \in CiEvent,
           \A e \in events[CiRun] : e[1] < n, InsertEvent(CiRun, n, ev)
    PROVE  /\ events' \in [RunId -> SUBSET (Nat \X CiEvent)]
           /\ events'[CiRun] = events[CiRun] \cup {<<n, ev>>}
  <1> DEFINE new == <<n, ev>>
  <1>1. ~ \E e \in events[CiRun] : e[1] = n
    <2> SUFFICES ASSUME NEW e \in events[CiRun], e[1] = n PROVE FALSE
      OBVIOUS
    <2>1. e[1] < n
      OBVIOUS
    <2> QED BY <2>1
  <1>2. events' = [events EXCEPT ![CiRun] = @ \cup {new}]
    BY <1>1 DEF InsertEvent
  <1>3. new \in Nat \X CiEvent
    OBVIOUS
  <1> HIDE DEF new
  <1>4. events[CiRun] \cup {new} \in SUBSET (Nat \X CiEvent)
    BY <1>3, CiAssumption
  <1>5. /\ events' \in [RunId -> SUBSET (Nat \X CiEvent)]
        /\ events'[CiRun] = events[CiRun] \cup {new}
    BY <1>2, <1>4, CiAssumption
  <1> QED BY <1>5 DEF new

(* A command that stops keeps what it has recorded. *)
LEMMA StoppedCommand ==
    ASSUME NEW k \in PipelineResult, NEW E, NEW row, RecordedOK(k, E), AtStage(k, E, row),
           k.pc # "done"
    PROVE  PipelineOK([k EXCEPT !.pc = "error"], E, row)
  <1> DEFINE m == [k EXCEPT !.pc = "error"]
  <1>1. /\ m \in PipelineResult /\ m.pc = "error" /\ m.seq = k.seq /\ m.allPassed = k.allPassed
        /\ m.results = k.results
    BY DEF PipelineResult
  <1> HIDE DEF m
  <1>2. RecordedOK(m, E)
    BY <1>1 DEF RecordedOK
  <1>3. AtStage(m, E, row)
    <2>1. row.status \in Terminal => OpenStage(k) = {}
      BY DEF AtStage, OpenStage, Terminal
    <2>2. OpenStage(m) = {}
      BY <1>1 DEF OpenStage
    <2> QED BY <1>1, <2>1, <2>2 DEF AtStage
  <1> QED BY <1>1, <1>2, <1>3 DEF PipelineOK, m

(* Recording an event at a stage: the command stops at an error of the      *)
(* ledger, or goes on with the event in the ledger and the next number.     *)
LEMMA RecordedEvent ==
    ASSUME PipelineInv, ci \in PipelineResult, RecordedOK(ci, events[CiRun]),
           AtStage(ci, events[CiRun], runs[CiRun]), ci.pc \in {"stage", "record"},
           NEW kind \in {"tool_called", "tool_returned", "tool_failed"}, ci.stages # <<>>,
           NEW next \in PipelineResult, next.seq = ci.seq, RecordsEvent(kind, next), UNCHANGED runs,
           LET E == events[CiRun] \cup {<<ci.seq, [kind |-> kind, tool |-> Stage.name]>>}
           IN  \A m \in PipelineResult :
                  /\ m.pc = next.pc /\ m.stages = next.stages /\ m.allPassed = next.allPassed
                  /\ m.results = next.results /\ m.current = next.current
                  /\ m.seq = next.seq + 1
                  /\ E \subseteq Nat \X CiEvent /\ IsFiniteSet(E) /\ Cardinality(E) = m.seq - 1
                  /\ \A e \in E : e[1] < m.seq
                  /\ \A l : Named(E, l) = IF l = kind THEN Named(events[CiRun], l) \cup {Stage.name}
                                          ELSE Named(events[CiRun], l)
                  => PipelineOK(m, E, runs[CiRun])
    PROVE  PipelineInv'
  <1> DEFINE ev == [kind |-> kind, tool |-> Stage.name]
             E == events[CiRun]
             F == E \cup {<<ci.seq, ev>>}
  <1>1. ci.seq \in Nat \ {0} /\ Head(ci.stages) \in StageConfig
    BY DEF PipelineResult
  <1>2. ev \in CiEvent /\ ev.kind = kind /\ ev.tool = Stage.name
    BY <1>1 DEF CiEvent, StageConfig, Stage
  <1>3. E \subseteq Nat \X CiEvent /\ IsFiniteSet(E) /\ Cardinality(E) = ci.seq - 1
    BY CiAssumption DEF PipelineInv, RecordedOK
  <1>4. \A e \in E : e[1] < ci.seq
    BY DEF RecordedOK
  <1>5. runs' \in [RunId -> Row] /\ runs'[CiRun] = runs[CiRun]
    BY DEF PipelineInv
  <1>6. CASE ci' = [ci EXCEPT !.pc = "error"] /\ UNCHANGED events
    <2>1. PipelineOK(ci', events[CiRun], runs[CiRun])
      BY <1>6, StoppedCommand
    <2> QED BY <1>5, <1>6, <2>1 DEF PipelineInv
  <1>7. CASE InsertEvent(CiRun, ci.seq, ev) /\ ci' = [next EXCEPT !.seq = @ + 1]
    <2> DEFINE n == next.seq + 1
    <2>1. n \in Nat \ {0} /\ n = ci.seq + 1
      BY <1>1
    <2> HIDE DEF n
    <2>2. ci' = [next EXCEPT !.seq = n]
      BY <1>7 DEF n
    <2>3. /\ ci' \in PipelineResult /\ ci'.pc = next.pc /\ ci'.stages = next.stages
          /\ ci'.allPassed = next.allPassed /\ ci'.results = next.results
          /\ ci'.current = next.current /\ ci'.seq = n
      BY <2>1, <2>2 DEF PipelineResult
    <2> HIDE DEF ev
    <2>4. events' \in [RunId -> SUBSET (Nat \X CiEvent)] /\ events'[CiRun] = F
      <3>1. events \in [RunId -> SUBSET (Nat \X CiEvent)]
        BY DEF PipelineInv
      <3> QED BY <1>1, <1>2, <1>4, <1>7, <3>1, EventKept
    <2>5. /\ F \subseteq Nat \X CiEvent /\ IsFiniteSet(F) /\ Cardinality(F) = (ci.seq + 1) - 1
          /\ \A e \in F : e[1] < ci.seq + 1
          /\ \A l : Named(F, l) = IF ev.kind = l THEN Named(E, l) \cup {ev.tool} ELSE Named(E, l)
      <3> HIDE DEF E
      <3> QED BY ONLY <1>1, <1>2, <1>3, <1>4, EventJoins
    <2>6. \A l : Named(F, l) = IF l = kind THEN Named(E, l) \cup {Stage.name} ELSE Named(E, l)
      BY <1>2, <2>5
    <2>7. PipelineOK(ci', F, runs[CiRun])
      <3> DEFINE G == events[CiRun] \cup {<<ci.seq, [kind |-> kind, tool |-> Stage.name]>>}
      <3>1. F = G
        BY DEF ev
      <3> HIDE DEF F
      <3>2. PipelineOK(ci', G, runs[CiRun])
        BY <2>1, <2>3, <2>5, <2>6, <3>1 DEF n
      <3> QED BY <3>1, <3>2
    <2> QED BY <1>5, <2>4, <2>7 DEF PipelineInv
  <1> QED BY <1>6, <1>7 DEF RecordsEvent

(* Every step of the command keeps what it knows in agreement with the rows *)
(* it has written.                                                          *)
PipelineAction ==
    \/ \E s \in StageLists : StartCi(s)
    \/ SkipStage \/ CallStage
    \/ \E o \in StageOutcome : ExecuteStage(o)
    \/ RecordStage \/ FinishCi \/ EvaluateGate \/ KillCi

(* At a stage the command is the one that was started. *)
LEMMA RunningPipeline ==
    ASSUME PipelineInv, ci.pc \in {"stage", "execute", "record", "gate"}
    PROVE  /\ ci \in PipelineResult /\ RecordedOK(ci, events[CiRun])
           /\ AtStage(ci, events[CiRun], runs[CiRun])
  BY DEF PipelineInv, PipelineOK

(* Every step of the pipeline keeps it. *)
LEMMA PipelineStep == PipelineInv /\ PipelineAction => PipelineInv'
  <1> SUFFICES ASSUME PipelineInv, PipelineAction PROVE PipelineInv'
    OBVIOUS
  <1> DEFINE E == events[CiRun]
             row == runs[CiRun]
  <1>1. ASSUME NEW stages \in StageLists, StartCi(stages) PROVE PipelineInv'
    <2>1. E = {} /\ row.status = "NONE" /\ UNCHANGED events
      BY <1>1 DEF StartCi, PipelineInv, PipelineOK, PipelineResult
    <2>2. CASE \A i \in DOMAIN stages : stages[i].known
      <3>1. InsertRun(CiRun) /\ ci' = StartedPipeline(stages)
        BY <1>1, <2>2 DEF StartCi
      <3>2. runs' \in [RunId -> Row] /\ runs'[CiRun].status = "RUNNING"
        <4>1. [Absent EXCEPT !.status = "RUNNING"] \in Row
              /\ [Absent EXCEPT !.status = "RUNNING"].status = "RUNNING"
          BY DEF Absent, Row
        <4> QED BY <3>1, <4>1, CiAssumption DEF InsertRun, PipelineInv
      <3>3. /\ ci' \in PipelineResult /\ ci'.pc = "stage" /\ ci'.seq = 1 /\ ci'.allPassed = TRUE
            /\ ci'.results = <<>>
        <4>1. stages \in Seq(StageConfig) /\ <<>> \in Seq(StageOutcome)
          BY CiAssumption
        <4> QED BY <3>1, <4>1 DEF StartedPipeline, PipelineResult
      <3>4. \A kind : Named({}, kind) = {}
        BY DEF Named
      <3>5. RecordedOK(ci', {})
        <4>1. IsFiniteSet({}) /\ Cardinality({}) = 0
          BY FS_EmptySet
        <4> QED BY <3>3, <3>4, <4>1 DEF RecordedOK
      <3>6. AtStage(ci', {}, runs'[CiRun])
        BY <3>2, <3>3, <3>4 DEF AtStage, Terminal
      <3> QED BY <2>1, <3>2, <3>3, <3>5, <3>6 DEF PipelineInv, PipelineOK
    <2>3. CASE ~ \A i \in DOMAIN stages : stages[i].known
      <3>1. ci' = [pc |-> "error"] /\ UNCHANGED runs
        BY <1>1, <2>3 DEF StartCi
      <3> QED BY <2>1, <3>1 DEF PipelineInv, PipelineOK
    <2> QED BY <2>2, <2>3
  <1>2. ASSUME SkipStage PROVE PipelineInv'
    <2>1. ci.pc = "stage" /\ ci.stages # <<>> /\ ci' = [ci EXCEPT !.stages = Tail(@)]
          /\ UNCHANGED <<runs, events>>
      BY <1>2 DEF SkipStage, ledger
    <2>2. ci \in PipelineResult /\ RecordedOK(ci, E) /\ AtStage(ci, E, row)
      BY <2>1, RunningPipeline
    <2>3. Tail(ci.stages) \in Seq(StageConfig)
      BY <2>1, <2>2 DEF PipelineResult
    <2>4. /\ ci' \in PipelineResult /\ ci'.pc = ci.pc /\ ci'.seq = ci.seq
          /\ ci'.allPassed = ci.allPassed /\ ci'.results = ci.results
      BY <2>1, <2>2, <2>3 DEF PipelineResult
    <2>5. RecordedOK(ci', E)
      BY <2>2, <2>4 DEF RecordedOK
    <2>6. AtStage(ci', E, row)
      BY <2>1, <2>2, <2>4 DEF AtStage, OpenStage
    <2> QED BY <2>1, <2>4, <2>5, <2>6 DEF PipelineInv, PipelineOK
  <1>3. ASSUME CallStage PROVE PipelineInv'
    <2> DEFINE next == [ci EXCEPT !.pc = "execute"]
    <2>1. /\ ci.pc = "stage" /\ ci.stages # <<>> /\ RecordsEvent("tool_called", next)
          /\ UNCHANGED runs
      BY <1>3 DEF CallStage
    <2>2. ci \in PipelineResult /\ RecordedOK(ci, E) /\ AtStage(ci, E, row)
      BY <2>1, RunningPipeline
    <2>3. /\ next \in PipelineResult /\ next.pc = "execute" /\ next.seq = ci.seq
          /\ next.stages = ci.stages /\ next.allPassed = ci.allPassed /\ next.results = ci.results
      BY <2>2 DEF PipelineResult
    <2> HIDE DEF next
    <2> DEFINE F == events[CiRun] \cup {<<ci.seq, [kind |-> "tool_called", tool |-> Stage.name]>>}
    <2>4. ASSUME NEW m \in PipelineResult, m.pc = next.pc, m.stages = next.stages,
                 m.allPassed = next.allPassed, m.results = next.results, m.seq = next.seq + 1,
                 IsFiniteSet(F), Cardinality(F) = m.seq - 1, \A e \in F : e[1] < m.seq,
                 \A l : Named(F, l) = IF l = "tool_called" THEN Named(E, l) \cup {Stage.name}
                                     ELSE Named(E, l)
          PROVE  PipelineOK(m, F, row)
      <3> HIDE DEF F
      <3>1. /\ Named(F, "tool_called") = Named(E, "tool_called") \cup {Stage.name}
            /\ Named(F, "tool_returned") = Named(E, "tool_returned")
            /\ Named(F, "tool_failed") = Named(E, "tool_failed")
        BY <2>4
      <3>2. RecordedOK(m, F)
        BY <2>2, <2>3, <2>4, <3>1 DEF RecordedOK
      <3>3. AtStage(m, F, row)
        <4>1. OpenStage(m) = {Stage.name} /\ OpenStage(ci) = {}
          BY <2>1, <2>3, <2>4 DEF OpenStage, Stage
        <4> QED BY <2>1, <2>2, <2>3, <2>4, <3>1, <4>1 DEF AtStage, Terminal
      <3> QED BY <3>2, <3>3 DEF PipelineOK
    <2> QED BY <2>1, <2>2, <2>3, <2>4, RecordedEvent
  <1>4. ASSUME NEW o \in StageOutcome, ExecuteStage(o) PROVE PipelineInv'
    <2>1. ci.pc = "execute" /\ ci' = [ci EXCEPT !.pc = "record", !.current = o]
          /\ UNCHANGED <<runs, events>>
      BY <1>4 DEF ExecuteStage, ledger
    <2>2. ci \in PipelineResult /\ RecordedOK(ci, E) /\ AtStage(ci, E, row)
      BY <2>1, RunningPipeline
    <2>3. /\ ci' \in PipelineResult /\ ci'.pc = "record" /\ ci'.seq = ci.seq /\ ci'.current = o
          /\ ci'.allPassed = ci.allPassed /\ ci'.results = ci.results /\ ci'.stages = ci.stages
      BY <2>1, <2>2 DEF PipelineResult
    <2>4. RecordedOK(ci', E)
      BY <2>2, <2>3 DEF RecordedOK
    <2>5. AtStage(ci', E, row)
      BY <2>1, <2>2, <2>3 DEF AtStage, OpenStage, StageOutcome, Terminal
    <2> QED BY <2>1, <2>3, <2>4, <2>5 DEF PipelineInv, PipelineOK
  <1>5. ASSUME RecordStage PROVE PipelineInv'
    <2> DEFINE kind == IF ci.current = "zero" THEN "tool_returned" ELSE "tool_failed"
               next == [ci EXCEPT !.pc = "stage", !.stages = Tail(@),
                                  !.allPassed = @ /\ ci.current = "zero",
                                  !.results = Append(@, ci.current), !.current = "none"]
    <2>1. ci.pc = "record" /\ RecordsEvent(kind, next) /\ UNCHANGED runs
      BY <1>5 DEF RecordStage
    <2>2. ci \in PipelineResult /\ RecordedOK(ci, E) /\ AtStage(ci, E, row)
      BY <2>1, RunningPipeline
    <2>3. ci.stages # <<>> /\ ci.current \in StageOutcome
      BY <2>1, <2>2 DEF AtStage, PipelineResult
    <2>4. /\ Tail(ci.stages) \in Seq(StageConfig)
          /\ Append(ci.results, ci.current) \in Seq(StageOutcome)
      BY <2>2, <2>3 DEF PipelineResult
    <2>5. /\ next \in PipelineResult /\ next.pc = "stage" /\ next.seq = ci.seq
          /\ next.stages = Tail(ci.stages) /\ next.allPassed = (ci.allPassed /\ ci.current = "zero")
          /\ next.results = Append(ci.results, ci.current)
      <3>1. (ci.allPassed /\ ci.current = "zero") \in BOOLEAN
        OBVIOUS
      <3> QED BY <2>2, <2>4, <3>1 DEF PipelineResult
    <2>6. kind \in {"tool_called", "tool_returned", "tool_failed"}
      OBVIOUS
    <2>7. next.allPassed <=> \A i \in DOMAIN next.results : next.results[i] = "zero"
      <3>1. ci.results \in Seq(StageOutcome) /\ ci.allPassed \in BOOLEAN
        BY <2>2 DEF PipelineResult
      <3>2. ci.allPassed <=> \A i \in DOMAIN ci.results : ci.results[i] = "zero"
        BY <2>2 DEF RecordedOK
      <3> DEFINE all == \A i \in DOMAIN next.results : next.results[i] = "zero"
                 all0 == \A i \in DOMAIN ci.results : ci.results[i] = "zero"
      <3> HIDE DEF next
      <3>3. all <=> all0 /\ ci.current = "zero"
        BY <3>1, <2>5, <2>3
      <3> QED BY <3>1, <3>2, <3>3, <2>5
    <2> HIDE DEF next
    <2> DEFINE F == events[CiRun] \cup {<<ci.seq, [kind |-> kind, tool |-> Stage.name]>>}
    <2>8. ASSUME NEW m \in PipelineResult, m.pc = next.pc, m.stages = next.stages,
                 m.allPassed = next.allPassed, m.results = next.results, m.seq = next.seq + 1,
                 IsFiniteSet(F), Cardinality(F) = m.seq - 1, \A e \in F : e[1] < m.seq,
                 \A l : Named(F, l) = IF l = kind THEN Named(E, l) \cup {Stage.name}
                                     ELSE Named(E, l)
          PROVE  PipelineOK(m, F, row)
      <3> HIDE DEF F
      <3>1. /\ Named(F, "tool_called") = Named(E, "tool_called")
            /\ Named(F, "tool_returned") = IF ci.current = "zero"
                   THEN Named(E, "tool_returned") \cup {Stage.name} ELSE Named(E, "tool_returned")
            /\ Named(F, "tool_failed") = IF ci.current = "zero"
                   THEN Named(E, "tool_failed") ELSE Named(E, "tool_failed") \cup {Stage.name}
        BY <2>8
      <3>2. RecordedOK(m, F)
        <4>1. m.allPassed <=> \A i \in DOMAIN m.results : m.results[i] = "zero"
          BY <2>7, <2>8
        <4>2. m.allPassed <=> Named(F, "tool_failed") = {}
          BY <2>2, <2>5, <2>8, <3>1 DEF RecordedOK
        <4> QED BY <2>8, <4>1, <4>2 DEF RecordedOK
      <3>3. AtStage(m, F, row)
        <4>1. OpenStage(ci) = {Stage.name} /\ OpenStage(m) = {}
          BY <2>1, <2>5, <2>8 DEF OpenStage, Stage
        <4> QED BY <2>1, <2>2, <2>5, <2>8, <3>1, <4>1 DEF AtStage, Terminal
      <3> QED BY <3>2, <3>3 DEF PipelineOK
    <2> HIDE DEF kind
    <2> QED BY <2>1, <2>2, <2>3, <2>5, <2>6, <2>8, RecordedEvent
  <1>6. ASSUME FinishCi PROVE PipelineInv'
    <2>1. ci.pc = "stage" /\ UNCHANGED events
      BY <1>6 DEF FinishCi
    <2>2. ci \in PipelineResult /\ RecordedOK(ci, E) /\ AtStage(ci, E, row)
      BY <2>1, RunningPipeline
    <2>3. CASE ci' = [ci EXCEPT !.pc = "error"] /\ UNCHANGED runs
      BY <2>1, <2>2, <2>3, StoppedCommand DEF PipelineInv
    <2>4. CASE /\ UpdateRun(CiRun, IF ci.allPassed THEN "COMPLETED" ELSE "FAILED", ci.seq - 1)
               /\ ci' = [ci EXCEPT !.pc = "gate"]
      <3> DEFINE status == IF ci.allPassed THEN "COMPLETED" ELSE "FAILED"
                 new == [status |-> status, total |-> ci.seq - 1, success |-> status = "COMPLETED"]
      <3>1. new \in Row /\ new.status = status /\ new.total = ci.seq - 1
        BY <2>2 DEF Row, Terminal, PipelineResult
      <3>2. runs' = [runs EXCEPT ![CiRun] = new]
        BY <2>4 DEF UpdateRun
      <3> HIDE DEF new
      <3>3. runs' \in [RunId -> Row] /\ runs'[CiRun] = new
        BY <3>1, <3>2, CiAssumption DEF PipelineInv
      <3>4. /\ ci' \in PipelineResult /\ ci'.pc = "gate" /\ ci'.seq = ci.seq
            /\ ci'.allPassed = ci.allPassed /\ ci'.results = ci.results
        BY <2>2, <2>4 DEF PipelineResult
      <3>5. RecordedOK(ci', E)
        BY <2>2, <3>4 DEF RecordedOK
      <3>6. AtStage(ci', E, new)
        BY <2>1, <2>2, <3>1, <3>4 DEF AtStage, OpenStage
      <3> QED BY <2>1, <3>3, <3>4, <3>5, <3>6 DEF PipelineInv, PipelineOK
    <2> QED BY <1>6, <2>3, <2>4 DEF FinishCi
  <1>7. ASSUME EvaluateGate PROVE PipelineInv'
    <2> DEFINE v == IF ci.allPassed /\ GatePasses THEN "passed" ELSE "failed"
    <2>1. ci.pc = "gate" /\ ci' = [ci EXCEPT !.pc = "done", !.verdict = v] /\ UNCHANGED <<runs, events>>
      BY <1>7 DEF EvaluateGate, ledger
    <2>2. ci \in PipelineResult /\ RecordedOK(ci, E) /\ AtStage(ci, E, row)
      BY <2>1, RunningPipeline
    <2>3. v \in {"none", "passed", "failed"}
      OBVIOUS
    <2> HIDE DEF v
    <2>4. /\ ci' \in PipelineResult /\ ci'.pc = "done" /\ ci'.seq = ci.seq
          /\ ci'.allPassed = ci.allPassed /\ ci'.results = ci.results
      BY <2>1, <2>2, <2>3 DEF PipelineResult
    <2>5. RecordedOK(ci', E)
      BY <2>2, <2>4 DEF RecordedOK
    <2>6. AtStage(ci', E, row)
      BY <2>1, <2>2, <2>4 DEF AtStage, OpenStage
    <2> QED BY <2>1, <2>4, <2>5, <2>6 DEF PipelineInv, PipelineOK
  <1>8. ASSUME KillCi PROVE PipelineInv'
    <2>1. /\ ci.pc \in {"stage", "execute", "record", "gate"} /\ ci' = [ci EXCEPT !.pc = "error"]
          /\ UNCHANGED <<runs, events>>
      BY <1>8 DEF KillCi, ledger
    <2>2. ci \in PipelineResult /\ RecordedOK(ci, E) /\ AtStage(ci, E, row)
      BY <2>1, RunningPipeline
    <2>3. PipelineOK(ci', E, row)
      BY <2>1, <2>2, StoppedCommand
    <2> QED BY <2>1, <2>3 DEF PipelineInv
  <1> QED BY <1>1, <1>2, <1>3, <1>4, <1>5, <1>6, <1>7, <1>8 DEF PipelineAction

-----------------------------------------------------------------------------
(* The recovery.  The attempts at which an action was taken. *)
Taken(decisions, a) == {i \in DOMAIN decisions : decisions[i].action = a}

Accounted(log) ==
    /\ Cardinality(Taken(log.decisions, "retry")) <= log.policy.maxFlaky
    /\ log.outcome = "failed" /\ Len(log.decisions) < log.policy.maxAttempts =>
          Taken(log.decisions, "escalate") = {Len(log.decisions)}
    /\ log.outcome = "recovered" => Taken(log.decisions, "escalate") = {}

AccountedLog == {log \in RecoveryLog : Accounted(log)}

RecoveryLoop ==
    [pc : {"loop"}, policy : RecoveryPolicy, initial : FailureSignal,
     current : FailureSignal, flakyUsed : Nat, decisions : Seq(RecoveryDecision)]

(* No attempt of a loop that goes on escalated, and the counter of retries  *)
(* is the number of them.                                                   *)
LoopOK(r) ==
    /\ r \in RecoveryLoop
    /\ Taken(r.decisions, "escalate") = {}
    /\ Cardinality(Taken(r.decisions, "retry")) = r.flakyUsed
    /\ r.flakyUsed <= r.policy.maxFlaky

RecoveryInv ==
    /\ \/ recovery = IdleRecovery \/ LoopOK(recovery)
       \/ recovery \in [pc : {"json", "digest"}, log : AccountedLog]
    /\ recoveries \in 0 .. MaxRecoveries
    /\ artifactDir \in [log : AccountedLog \cup {NoLog}, digest : AccountedLog \cup {NoLog}]

(* A decision joins the others. *)
LEMMA DecisionJoins ==
    ASSUME NEW ds \in Seq(RecoveryDecision), NEW d \in RecoveryDecision, NEW a
    PROVE  /\ Append(ds, d) \in Seq(RecoveryDecision) /\ Len(Append(ds, d)) = Len(ds) + 1
           /\ IsFiniteSet(Taken(ds, a)) /\ Cardinality(Taken(ds, a)) \in Nat
           /\ Taken(Append(ds, d), a) = IF d.action = a THEN Taken(ds, a) \cup {Len(ds) + 1}
                                        ELSE Taken(ds, a)
           /\ d.action = a => Cardinality(Taken(Append(ds, d), a)) = Cardinality(Taken(ds, a)) + 1
  <1> DEFINE n == Len(ds) + 1
             ds2 == Append(ds, d)
  <1>1. n \in Nat /\ ds2 \in Seq(RecoveryDecision) /\ Len(ds2) = n /\ DOMAIN ds2 = 1..n
        /\ DOMAIN ds = 1..(n - 1) /\ ds2[n] = d /\ \A i \in 1..(n - 1) : ds2[i] = ds[i]
    OBVIOUS
  <1>2. IsFiniteSet(Taken(ds, a)) /\ Cardinality(Taken(ds, a)) \in Nat
    <2>1. Taken(ds, a) \subseteq 1..(n - 1) /\ 1 \in Int /\ n - 1 \in Int
      BY <1>1 DEF Taken
    <2>2. IsFiniteSet(1..(n - 1))
      BY <2>1, FS_Interval
    <2> QED BY <2>1, <2>2, FS_Subset, FS_CardinalityType
  <1> HIDE DEF n, ds2
  <1>3. Taken(ds2, a) = IF d.action = a THEN Taken(ds, a) \cup {n} ELSE Taken(ds, a)
    <2>0. 1..n = 1..(n - 1) \cup {n}
      <3>1. n \in Nat /\ n >= 1
        BY <1>1 DEF n
      <3> QED BY <3>1
    <2>1. DOMAIN ds2 = DOMAIN ds \cup {n} /\ \A i \in DOMAIN ds : ds2[i] = ds[i]
      BY <1>1, <2>0
    <2>2. ds2[n] = d /\ n \notin DOMAIN ds
      BY <1>1
    <2>3. \A i : i \in Taken(ds2, a) <=> i \in Taken(ds, a) \/ (i = n /\ d.action = a)
      BY <2>1, <2>2 DEF Taken
    <2> QED BY <2>3
  <1>4. n \notin Taken(ds, a)
    BY <1>1 DEF Taken
  <1>5. d.action = a => Cardinality(Taken(ds2, a)) = Cardinality(Taken(ds, a)) + 1
    BY <1>2, <1>3, <1>4, FS_AddElement
  <1> QED BY <1>1, <1>2, <1>3, <1>5 DEF n, ds2

(* classify_failure names a class, and decide_action an action; it retries  *)
(* only while retries are left.                                             *)
LEMMA DecisionTyped ==
    ASSUME NEW signal \in FailureSignal, NEW policy \in RecoveryPolicy, NEW used \in Nat
    PROVE  LET class == ClassifyFailure(signal)
               action == DecideAction(class, signal, policy, used)
           IN  /\ [class |-> class, action |-> action] \in RecoveryDecision
               /\ action = "retry" => used < policy.maxFlaky
  <1> DEFINE class == ClassifyFailure(signal)
             action == DecideAction(class, signal, policy, used)
  <1>1. class \in FailureClass
    BY DEF ClassifyFailure, FailureClass
  <1> HIDE DEF class
  <1>2. /\ action \in {"retry", "patch_forward", "rollback", "escalate"}
        /\ action = "retry" => used < policy.maxFlaky
    <2>1. CASE class = "test" /\ signal.flaky /\ used < policy.maxFlaky
      BY <2>1 DEF DecideAction
    <2>2. CASE ~ (class = "test" /\ signal.flaky /\ used < policy.maxFlaky)
      BY <2>2 DEF DecideAction
    <2> QED BY <2>1, <2>2
  <1> HIDE DEF action
  <1>3. [class |-> class, action |-> action] \in RecoveryDecision
    BY <1>1, <1>2 DEF RecoveryDecision
  <1> QED BY <1>2, <1>3 DEF action, class

(* The log a recovery ends with. *)
LEMMA LogOfLoop ==
    ASSUME NEW ds \in Seq(RecoveryDecision), NEW final \in SUBSET FailureSignal,
           NEW policy \in RecoveryPolicy, NEW initial \in FailureSignal, NEW n \in Nat,
           NEW outcome \in {"recovered", "failed"},
           Cardinality(Taken(ds, "retry")) <= policy.maxFlaky,
           outcome = "failed" /\ Len(ds) < policy.maxAttempts => Taken(ds, "escalate") = {Len(ds)},
           outcome = "recovered" => Taken(ds, "escalate") = {}
    PROVE  [outcome |-> outcome, decisions |-> ds, final |-> final, policy |-> policy,
            initial |-> initial, number |-> n] \in AccountedLog
  <1> DEFINE log == [outcome |-> outcome, decisions |-> ds, final |-> final, policy |-> policy,
                     initial |-> initial, number |-> n]
  <1>1. log \in RecoveryLog /\ log.outcome = outcome /\ log.decisions = ds /\ log.policy = policy
    BY DEF RecoveryLog
  <1> HIDE DEF log
  <1>2. Accounted(log)
    BY <1>1 DEF Accounted
  <1> QED BY <1>1, <1>2 DEF AccountedLog, log

RecoveryAction ==
    \/ \E p \in RecoveryPolicyInput, s \in FailureSignals : StartRecovery(p, s)
    \/ \E r \in BOOLEAN, n \in FailureSignals : Attempt(r, n)
    \/ AttemptsExhausted \/ WriteRecoveryJson \/ WriteRecoveryDigest \/ KillRecovery

(* Every step of the recovery keeps its log accounted for. *)
LEMMA RecoveryStep == RecoveryInv /\ RecoveryAction => RecoveryInv'
  <1> SUFFICES ASSUME RecoveryInv, RecoveryAction PROVE RecoveryInv'
    OBVIOUS
  <1> DEFINE r == recovery
             FileOK == AccountedLog \cup {NoLog}
  <1>n. recoveries \in Nat /\ MaxRecoveries \in Nat
    BY CiAssumption DEF RecoveryInv
  <1>l. r.pc = "loop" => LoopOK(r)
    BY DEF RecoveryInv, IdleRecovery
  <1>w. r.pc \in {"json", "digest"} => r \in [pc : {"json", "digest"}, log : AccountedLog]
    BY DEF RecoveryInv, IdleRecovery, LoopOK, RecoveryLoop
  <1>1. ASSUME NEW p \in RecoveryPolicyInput, NEW s \in FailureSignals, StartRecovery(p, s)
        PROVE  RecoveryInv'
    <2>1. /\ recoveries' = recoveries + 1 /\ recoveries < MaxRecoveries /\ UNCHANGED artifactDir
          /\ recovery' = [pc |-> "loop", policy |-> p, initial |-> s, current |-> s,
                          flakyUsed |-> 0, decisions |-> <<>>]
      BY <1>1 DEF StartRecovery
    <2>2. /\ recovery' \in RecoveryLoop /\ recovery'.decisions = <<>> /\ recovery'.flakyUsed = 0
          /\ recovery'.policy = p
      BY <2>1, CiAssumption DEF RecoveryLoop
    <2>3. \A a : Taken(<<>>, a) = {}
      BY DEF Taken
    <2>4. 0 <= p.maxFlaky
      BY CiAssumption DEF RecoveryPolicy
    <2>5. LoopOK(recovery')
      BY <2>2, <2>3, <2>4, FS_EmptySet DEF LoopOK
    <2>6. recoveries' \in 0 .. MaxRecoveries
      BY <1>n, <2>1
    <2> QED BY <2>1, <2>5, <2>6 DEF RecoveryInv
  <1>2. ASSUME NEW repaired \in BOOLEAN, NEW next \in FailureSignals, Attempt(repaired, next)
        PROVE  RecoveryInv'
    <2> DEFINE class == ClassifyFailure(r.current)
               action == DecideAction(class, r.current, r.policy, r.flakyUsed)
               d == [class |-> class, action |-> action]
               ds == Append(r.decisions, d)
    <2>1. r.pc = "loop" /\ Len(r.decisions) < r.policy.maxAttempts /\ UNCHANGED <<recoveries, artifactDir>>
      BY <1>2 DEF Attempt
    <2>2. LoopOK(r)
      BY <1>l, <2>1
    <2>3. /\ r.policy \in RecoveryPolicy /\ r.current \in FailureSignal /\ r.initial \in FailureSignal
          /\ r.flakyUsed \in Nat /\ r.decisions \in Seq(RecoveryDecision)
          /\ r.policy.maxFlaky \in Nat /\ r.policy.maxAttempts \in Nat
      BY <2>2 DEF LoopOK, RecoveryLoop, RecoveryPolicy
    <2>4. d \in RecoveryDecision /\ (action = "retry" => r.flakyUsed < r.policy.maxFlaky)
      BY <2>3, DecisionTyped
    <2>5. d.action = action
      OBVIOUS
    <2>6. \/ action = "escalate" /\ Ends("failed", ds, {r.current})
          \/ action # "escalate" /\ repaired /\ Ends("recovered", ds, {})
          \/ /\ action # "escalate"
             /\ recovery' = [recovery EXCEPT !.decisions = ds, !.current = next,
                                 !.flakyUsed = IF action = "retry" THEN @ + 1 ELSE @]
      <3> HIDE DEF class, action
      <3>1. CASE action = "escalate"
        BY <1>2, <3>1 DEF Attempt, class, action
      <3>2. CASE action # "escalate" /\ repaired
        BY <1>2, <3>2 DEF Attempt, class, action
      <3>3. CASE action # "escalate" /\ ~ repaired
        BY <1>2, <3>3 DEF Attempt, class, action
      <3> QED BY <3>1, <3>2, <3>3
    <2> HIDE DEF d, class, action
    <2>7. /\ ds \in Seq(RecoveryDecision) /\ Len(ds) = Len(r.decisions) + 1
          /\ \A a : /\ Taken(ds, a) = IF d.action = a THEN Taken(r.decisions, a) \cup {Len(ds)}
                                        ELSE Taken(r.decisions, a)
                    /\ d.action = a => Cardinality(Taken(ds, a)) = Cardinality(Taken(r.decisions, a)) + 1
      BY <2>3, <2>4, DecisionJoins
    <2> HIDE DEF ds
    <2>8. /\ Cardinality(Taken(ds, "retry")) = IF action = "retry" THEN r.flakyUsed + 1 ELSE r.flakyUsed
          /\ Cardinality(Taken(ds, "retry")) <= r.policy.maxFlaky
      BY <2>2, <2>3, <2>4, <2>5, <2>7 DEF LoopOK
    <2>9. Taken(ds, "escalate") = IF action = "escalate" THEN {Len(ds)} ELSE {}
      BY <2>2, <2>5, <2>7 DEF LoopOK
    <2>10. CASE action = "escalate" /\ Ends("failed", ds, {r.current})
      <3> DEFINE log == [outcome |-> "failed", decisions |-> ds, final |-> {r.current},
                         policy |-> r.policy, initial |-> r.initial, number |-> recoveries]
      <3>1. log \in AccountedLog
        BY <1>n, <2>3, <2>7, <2>8, <2>9, <2>10, LogOfLoop
      <3>2. recovery' = [pc |-> "json", log |-> log]
        BY <2>10 DEF Ends
      <3> HIDE DEF log
      <3> QED BY <2>1, <3>1, <3>2 DEF RecoveryInv
    <2>11. CASE action # "escalate" /\ Ends("recovered", ds, {})
      <3> DEFINE log == [outcome |-> "recovered", decisions |-> ds, final |-> {},
                         policy |-> r.policy, initial |-> r.initial, number |-> recoveries]
      <3>1. log \in AccountedLog
        BY <1>n, <2>3, <2>7, <2>8, <2>9, <2>11, LogOfLoop
      <3>2. recovery' = [pc |-> "json", log |-> log]
        BY <2>11 DEF Ends
      <3> HIDE DEF log
      <3> QED BY <2>1, <3>1, <3>2 DEF RecoveryInv
    <2>12. CASE /\ action # "escalate"
                /\ recovery' = [recovery EXCEPT !.decisions = ds, !.current = next,
                                    !.flakyUsed = IF action = "retry" THEN @ + 1 ELSE @]
      <3> DEFINE used == IF action = "retry" THEN r.flakyUsed + 1 ELSE r.flakyUsed
      <3>1. used \in Nat /\ next \in FailureSignal
        BY <2>3, CiAssumption
      <3>2. recovery' = [recovery EXCEPT !.decisions = ds, !.current = next, !.flakyUsed = used]
        BY <2>12
      <3> HIDE DEF used
      <3>3. /\ recovery' \in RecoveryLoop /\ recovery'.decisions = ds /\ recovery'.flakyUsed = used
            /\ recovery'.policy = r.policy
        BY <2>2, <2>7, <3>1, <3>2 DEF LoopOK, RecoveryLoop
      <3>4. LoopOK(recovery')
        BY <2>8, <2>9, <2>12, <3>3 DEF LoopOK, used
      <3> QED BY <2>1, <3>4 DEF RecoveryInv
    <2> QED BY <2>6, <2>10, <2>11, <2>12
  <1>3. ASSUME AttemptsExhausted PROVE RecoveryInv'
    <2>1. /\ r.pc = "loop" /\ Len(r.decisions) = r.policy.maxAttempts
          /\ Ends("failed", r.decisions, {r.current}) /\ UNCHANGED <<recoveries, artifactDir>>
      BY <1>3 DEF AttemptsExhausted
    <2>2. LoopOK(r)
      BY <1>l, <2>1
    <2>3. /\ r.policy \in RecoveryPolicy /\ r.current \in FailureSignal /\ r.initial \in FailureSignal
          /\ r.decisions \in Seq(RecoveryDecision) /\ Len(r.decisions) \in Nat
          /\ Cardinality(Taken(r.decisions, "retry")) <= r.policy.maxFlaky
      BY <2>2 DEF LoopOK, RecoveryLoop
    <2> DEFINE log == [outcome |-> "failed", decisions |-> r.decisions, final |-> {r.current},
                       policy |-> r.policy, initial |-> r.initial, number |-> recoveries]
    <2>4. log \in AccountedLog
      <3>1. ~ (Len(r.decisions) < r.policy.maxAttempts)
        BY <2>1, <2>3
      <3>2. {r.current} \in SUBSET FailureSignal
        BY <2>3
      <3> QED BY <1>n, <2>3, <3>1, <3>2, LogOfLoop
    <2>5. recovery' = [pc |-> "json", log |-> log]
      BY <2>1 DEF Ends
    <2> HIDE DEF log
    <2> QED BY <2>1, <2>4, <2>5 DEF RecoveryInv
  <1>4. ASSUME WriteRecoveryJson PROVE RecoveryInv'
    <2>1. /\ r.pc = "json" /\ artifactDir' = [artifactDir EXCEPT !.log = r.log]
          /\ recovery' = [r EXCEPT !.pc = "digest"] /\ UNCHANGED recoveries
      BY <1>4 DEF WriteRecoveryJson
    <2>2. r \in [pc : {"json", "digest"}, log : AccountedLog]
      BY <1>w, <2>1
    <2> QED BY <2>1, <2>2 DEF RecoveryInv
  <1>5. ASSUME WriteRecoveryDigest PROVE RecoveryInv'
    <2>1. /\ r.pc = "digest" /\ artifactDir' = [artifactDir EXCEPT !.digest = r.log]
          /\ recovery' = IdleRecovery /\ UNCHANGED recoveries
      BY <1>5 DEF WriteRecoveryDigest
    <2>2. r \in [pc : {"json", "digest"}, log : AccountedLog]
      BY <1>w, <2>1
    <2> QED BY <2>1, <2>2 DEF RecoveryInv
  <1>6. ASSUME KillRecovery PROVE RecoveryInv'
    BY <1>6 DEF KillRecovery, RecoveryInv
  <1> QED BY <1>1, <1>2, <1>3, <1>4, <1>5, <1>6 DEF RecoveryAction

-----------------------------------------------------------------------------
(* Both hold at the start. *)
LEMMA CiStart == CiInit => PipelineInv /\ RecoveryInv
  <1> SUFFICES ASSUME CiInit PROVE PipelineInv /\ RecoveryInv
    OBVIOUS
  <1>1. /\ runs = [id \in RunId |-> Absent] /\ events = [id \in RunId |-> {}]
        /\ ci = [pc |-> "idle"] /\ recovery = IdleRecovery /\ recoveries = 0
        /\ artifactDir = [log |-> NoLog, digest |-> NoLog]
    BY DEF CiInit, LedgerInit
  <1>2. Absent \in Row /\ Absent.status = "NONE"
    BY DEF Absent, Row
  <1>3. PipelineInv
    BY <1>1, <1>2, CiAssumption DEF PipelineInv, PipelineOK
  <1>4. RecoveryInv
    BY <1>1, CiAssumption DEF RecoveryInv
  <1> QED BY <1>3, <1>4

(* The pipeline, the gate and the recovery: the types; and CiSound, that    *)
(* the run of the ledger, the gate's reading of its events and the results  *)
(* of the stages agree once the run has ended, and that a recovery artifact *)
(* that is accepted accounts for its outcome.  For every list of stages,    *)
(* every outcome of each, every policy and sequence of failures, with the   *)
(* command and the recovery killed anywhere.                                *)
THEOREM CiIsSound == CiSpec => [](CiTypeOK /\ CiSound)
  <1> DEFINE Inv == PipelineInv /\ RecoveryInv
  <1>1. CiInit => Inv
    BY CiStart
  <1>2. Inv /\ [CiNext]_ciVars => Inv'
    <2> SUFFICES ASSUME Inv, [CiNext]_ciVars PROVE Inv'
      OBVIOUS
    <2>1. CASE PipelineAction
      <3>1. UNCHANGED <<recovery, recoveries, artifactDir>>
        BY <2>1 DEF PipelineAction, StartCi, SkipStage, CallStage, ExecuteStage, RecordStage,
                    FinishCi, EvaluateGate, KillCi
      <3>2. RecoveryInv'
        BY <3>1 DEF RecoveryInv
      <3> QED BY <2>1, <3>2, PipelineStep
    <2>2. CASE RecoveryAction
      <3>1. UNCHANGED <<runs, events, ci>>
        BY <2>2 DEF RecoveryAction, StartRecovery, Attempt, AttemptsExhausted, WriteRecoveryJson,
                    WriteRecoveryDigest, KillRecovery, ledger
      <3>2. PipelineInv'
        BY <3>1 DEF PipelineInv
      <3> QED BY <2>2, <3>2, RecoveryStep
    <2>3. CASE UNCHANGED ciVars
      BY <2>3 DEF ciVars, ledger, PipelineInv, RecoveryInv
    <2> QED BY <2>1, <2>2, <2>3 DEF CiNext, PipelineAction, RecoveryAction
  <1>3. Inv => CiTypeOK
    <2> SUFFICES ASSUME Inv PROVE CiTypeOK
      OBVIOUS
    <2>1. ci \in [pc : {"idle", "error"}] \cup PipelineResult
      BY DEF PipelineInv, PipelineOK
    <2>2. recovery \in [pc : {"idle"}] \cup [pc : {"json", "digest"}, log : RecoveryLog]
                        \cup RecoveryLoop
      BY DEF RecoveryInv, IdleRecovery, LoopOK, AccountedLog
    <2>3. \A file \in {"log", "digest"} : artifactDir[file] = NoLog \/ artifactDir[file] \in RecoveryLog
      BY DEF RecoveryInv, AccountedLog
    <2> QED BY <2>1, <2>2, <2>3 DEF CiTypeOK, PipelineInv, RecoveryInv, RecoveryLoop
  <1>4. Inv => CiSound
    <2> SUFFICES ASSUME Inv PROVE CiSound
      OBVIOUS
    <2>1. CiVerdictsAgree
      <3> SUFFICES ASSUME runs[CiRun].status \in Terminal
                   PROVE  /\ (runs[CiRun].status = "COMPLETED") = GatePasses
                          /\ GatePasses = (FailedCount = 0)
                          /\ Cardinality(events[CiRun]) = runs[CiRun].total
        BY DEF CiVerdictsAgree
      <3>1. /\ ci \in PipelineResult /\ RecordedOK(ci, events[CiRun])
            /\ AtStage(ci, events[CiRun], runs[CiRun])
        BY DEF PipelineInv, PipelineOK, Terminal
      <3>2. \A kind : ToolsOf(kind) = Named(events[CiRun], kind)
        BY DEF ToolsOf, Named
      <3>3. OpenStage(ci) = {}
        BY <3>1 DEF AtStage, OpenStage
      <3>4. GatePasses <=> ci.allPassed
        BY <3>1, <3>2, <3>3 DEF GatePasses, AtStage, RecordedOK
      <3>5. ci.allPassed <=> FailedCount = 0
        <4> DEFINE failed == {i \in DOMAIN ci.results : ci.results[i] # "zero"}
        <4>1. failed \subseteq 1..Len(ci.results) /\ Len(ci.results) \in Nat
          BY <3>1 DEF PipelineResult
        <4>2. IsFiniteSet(failed)
          <5>1. IsFiniteSet(1..Len(ci.results))
            BY <4>1, FS_Interval
          <5> HIDE DEF failed
          <5> QED BY <4>1, <5>1, FS_Subset
        <4>3. Cardinality(failed) = 0 <=> failed = {}
          BY <4>2, FS_EmptySet
        <4> QED BY <3>1, <4>3 DEF FailedCount, RecordedOK
      <3>6. (runs[CiRun].status = "COMPLETED") <=> ci.allPassed
        BY <3>1 DEF AtStage
      <3>7. Cardinality(events[CiRun]) = runs[CiRun].total
        BY <3>1 DEF AtStage, RecordedOK
      <3>8. GatePasses \in BOOLEAN
        BY DEF GatePasses
      <3> QED BY <3>4, <3>5, <3>6, <3>7, <3>8
    <2>2. RecoveryAccounted
      <3> DEFINE log == ReadRecoveryArtifact
      <3>1. log = NoLog \/ log \in AccountedLog
        BY DEF ReadRecoveryArtifact, RecoveryInv
      <3> HIDE DEF log
      <3>2. log # NoLog => Accounted(log)
        BY <3>1 DEF AccountedLog
      <3> QED BY <3>2 DEF RecoveryAccounted, Accounted, Taken, log
    <2> QED BY <2>1, <2>2 DEF CiSound
  <1> QED BY <1>1, <1>2, <1>3, <1>4, PTL DEF CiSpec

-----------------------------------------------------------------------------
(* The gates of a release.  A set of numbers has a least element. *)
LEMMA LeastIndex ==
    ASSUME NEW T, T \subseteq Nat, T # {}
    PROVE  \E m \in T : \A k \in T : m <= k
  <1>1. PICK R : /\ IsWellFoundedOn(R, Nat)
                 /\ \A i, j \in Nat : i < j => <<i, j>> \in R
    BY NatLessThanWellFounded DEF OpToRel
  <1>2. PICK m \in T : \A k \in T : ~ (<<k, m>> \in R)
    <2>1. IsWellFoundedOn(R, Nat)
      BY <1>1
    <2> QED BY ONLY <2>1, T \subseteq Nat, T # {}, WFMin, Zenon
  <1>3. \A k \in T : m <= k
    <2> SUFFICES ASSUME NEW k \in T, ~ (m <= k) PROVE FALSE
      OBVIOUS
    <2>1. k < m
      OBVIOUS
    <2> QED BY <1>1, <1>2, <2>1
  <1> QED BY <1>2, <1>3

(* Identifiers are totally ordered, and equal only when they are the same.  *)
After(p, q) == CompareIdentifier(p, q) = "greater"

(* Identifiers are ordered strictly and transitively. *)
LEMMA IdentifierOrder ==
    ASSUME NEW p \in Identifier, NEW q \in Identifier, NEW r \in Identifier
    PROVE  /\ CompareIdentifier(p, q) = "equal" <=> p = q
           /\ ~ After(p, p)
           /\ After(p, q) /\ After(q, r) => After(p, r)
  <1>1. /\ p.numeric \in BOOLEAN /\ q.numeric \in BOOLEAN /\ r.numeric \in BOOLEAN
        /\ p.value \in Nat /\ q.value \in Nat /\ r.value \in Nat
        /\ p = q <=> p.numeric = q.numeric /\ p.value = q.value
    BY DEF Identifier
  <1>2. CompareIdentifier(p, q) = "equal" <=> p = q
    BY <1>1 DEF CompareIdentifier
  <1>3. ~ After(p, p)
    BY <1>1 DEF CompareIdentifier, After
  <1>4. After(p, q) /\ After(q, r) => After(p, r)
    BY <1>1 DEF CompareIdentifier, After
  <1> QED BY <1>2, <1>3, <1>4

(* The place at which one list of identifiers goes beyond another. *)
BeyondAt(a, b, n) ==
    /\ n \in 1..Len(a)
    /\ \A i \in 1..(n - 1) : i <= Len(b) /\ a[i] = b[i]
    /\ n > Len(b) \/ After(a[n], b[n])

(* cmp_prerelease finds that place: it is the first identifier that differs *)
(* or the end of the shorter list.                                          *)
LEMMA PrereleaseOrder ==
    ASSUME NEW a \in Seq(Identifier), NEW b \in Seq(Identifier)
    PROVE  ComparePrerelease(a, b) = "greater" <=> \E n \in Nat : BeyondAt(a, b, n)
  <1> DEFINE k == IF Len(a) < Len(b) THEN Len(a) ELSE Len(b)
             common == 1..k
             differing == {i \in common : CompareIdentifier(a[i], b[i]) # "equal"}
             first == CHOOSE i \in differing : \A j \in differing : i <= j
  <1>1. /\ Len(a) \in Nat /\ Len(b) \in Nat /\ k \in Nat
        /\ \A i \in Nat : i \in common <=> i >= 1 /\ i <= Len(a) /\ i <= Len(b)
        /\ \A i \in 1..Len(a) : a[i] \in Identifier
        /\ \A i \in 1..Len(b) : b[i] \in Identifier
    OBVIOUS
  <1>2. \A i \in common : i \in differing <=> a[i] # b[i]
    <2> SUFFICES ASSUME NEW i \in common PROVE i \in differing <=> a[i] # b[i]
      OBVIOUS
    <2>1. a[i] \in Identifier /\ b[i] \in Identifier
      BY <1>1
    <2> QED BY <2>1, IdentifierOrder
  <1>3. differing \subseteq common /\ common \subseteq Nat
    BY <1>1
  <1>4. ComparePrerelease(a, b) =
           IF differing # {} THEN CompareIdentifier(a[first], b[first])
           ELSE IF Len(a) < Len(b) THEN "less"
           ELSE IF Len(a) > Len(b) THEN "greater" ELSE "equal"
    BY DEF ComparePrerelease
  <1> HIDE DEF k, common, differing, first
  <1>5. differing # {} => first \in differing /\ \A j \in differing : first <= j
    <2> SUFFICES ASSUME differing # {} PROVE first \in differing /\ \A j \in differing : first <= j
      OBVIOUS
    <2>1. \E m \in differing : \A j \in differing : m <= j
      <3>1. differing \subseteq Nat
        BY <1>3
      <3> QED BY <3>1, LeastIndex
    <2> QED BY <2>1 DEF first
  <1>6. ASSUME ComparePrerelease(a, b) = "greater" PROVE \E n \in Nat : BeyondAt(a, b, n)
    <2>1. CASE differing # {}
      <3>1. first \in common /\ first \in Nat /\ After(a[first], b[first])
        BY <1>3, <1>4, <1>5, <1>6, <2>1 DEF After
      <3>2. \A i \in 1..(first - 1) : i <= Len(b) /\ a[i] = b[i]
        <4> SUFFICES ASSUME NEW i \in 1..(first - 1) PROVE i <= Len(b) /\ a[i] = b[i]
          OBVIOUS
        <4>1. i \in common /\ ~ (first <= i)
          BY <1>1, <3>1
        <4> QED BY <1>1, <1>2, <1>5, <2>1, <4>1
      <3>3. BeyondAt(a, b, first)
        BY <1>1, <3>1, <3>2 DEF BeyondAt
      <3> QED BY <3>1, <3>3
    <2>2. CASE differing = {}
      <3> DEFINE n == Len(b) + 1
      <3>1. Len(a) > Len(b)
        BY <1>1, <1>4, <1>6, <2>2
      <3>2. \A i \in 1..(n - 1) : i <= Len(b) /\ a[i] = b[i]
        BY <1>1, <1>2, <2>2, <3>1
      <3>3. BeyondAt(a, b, n)
        BY <1>1, <3>1, <3>2 DEF BeyondAt
      <3> QED BY <1>1, <3>3
    <2> QED BY <2>1, <2>2
  <1>7. ASSUME NEW n \in Nat, BeyondAt(a, b, n) PROVE ComparePrerelease(a, b) = "greater"
    <2>1. n >= 1 /\ n <= Len(a) /\ \A i \in 1..(n - 1) : i \in common /\ i \notin differing
      BY <1>1, <1>2, <1>7 DEF BeyondAt
    <2>2. CASE n <= Len(b)
      <3>1. n \in common /\ After(a[n], b[n])
        BY <1>1, <1>7, <2>1, <2>2 DEF BeyondAt
      <3>2. n \in differing
        <4>1. a[n] \in Identifier /\ b[n] \in Identifier
          BY <1>1, <2>1, <2>2
        <4>2. a[n] # b[n]
          BY <3>1, <4>1, IdentifierOrder
        <4> QED BY <1>2, <3>1, <4>2
      <3>3. first = n
        <4>1. first \in Nat /\ first >= 1 /\ first <= n /\ first \in differing
          BY <1>1, <1>3, <1>5, <3>2
        <4>2. ~ (first < n)
          BY <2>1, <4>1
        <4> QED BY <4>1, <4>2
      <3> QED BY <1>4, <3>1, <3>2, <3>3 DEF After
    <2>3. CASE n > Len(b)
      <3>1. Len(a) > Len(b)
        BY <1>1, <2>1, <2>3
      <3>2. differing = {}
        <4> SUFFICES ASSUME NEW i \in differing PROVE FALSE
          OBVIOUS
        <4>1. i \in Nat /\ i >= 1 /\ i <= Len(b)
          BY <1>1, <1>3
        <4> QED BY <1>1, <2>1, <2>3, <4>1
      <3> QED BY <1>1, <1>4, <3>1, <3>2
    <2> QED BY <1>1, <2>2, <2>3
  <1> QED BY <1>6, <1>7

(* To go beyond is transitive, at the earlier of the two places, and no     *)
(* list goes beyond itself.                                                 *)
LEMMA BeyondOrder ==
    ASSUME NEW a \in Seq(Identifier), NEW b \in Seq(Identifier), NEW c \in Seq(Identifier)
    PROVE  /\ ~ \E n \in Nat : BeyondAt(a, a, n)
           /\ (\E n \in Nat : BeyondAt(a, b, n)) /\ (\E n \in Nat : BeyondAt(b, c, n))
                 => \E n \in Nat : BeyondAt(a, c, n)
  <1>1. /\ Len(a) \in Nat /\ Len(b) \in Nat /\ Len(c) \in Nat
        /\ \A i \in 1..Len(a) : a[i] \in Identifier
        /\ \A i \in 1..Len(b) : b[i] \in Identifier
        /\ \A i \in 1..Len(c) : c[i] \in Identifier
    OBVIOUS
  <1>2. ~ \E n \in Nat : BeyondAt(a, a, n)
    <2> SUFFICES ASSUME NEW n \in Nat, BeyondAt(a, a, n) PROVE FALSE
      OBVIOUS
    <2>1. n \in 1..Len(a) /\ After(a[n], a[n])
      BY <1>1 DEF BeyondAt
    <2> QED BY <1>1, <2>1, IdentifierOrder
  <1>3. ASSUME NEW n \in Nat, BeyondAt(a, b, n), NEW m \in Nat, BeyondAt(b, c, m)
        PROVE  \E l \in Nat : BeyondAt(a, c, l)
    <2>1. n \in 1..Len(a) /\ m \in 1..Len(b)
      BY <1>3 DEF BeyondAt
    <2>2. CASE n < m
      <3>1. n <= Len(b) /\ After(a[n], b[n])
        BY <1>1, <1>3, <2>1, <2>2 DEF BeyondAt
      <3>2. n <= Len(c) /\ b[n] = c[n]
        BY <1>1, <1>3, <2>1, <2>2 DEF BeyondAt
      <3>3. \A i \in 1..(n - 1) : i <= Len(c) /\ a[i] = c[i]
        <4> SUFFICES ASSUME NEW i \in 1..(n - 1) PROVE i <= Len(c) /\ a[i] = c[i]
          OBVIOUS
        <4>1. i \in 1..(m - 1)
          BY <2>2
        <4> QED BY <1>3, <4>1 DEF BeyondAt
      <3>4. BeyondAt(a, c, n)
        BY <2>1, <3>1, <3>2, <3>3 DEF BeyondAt
      <3> QED BY <3>4
    <2>3. CASE n = m
      <3>1. n <= Len(b) /\ After(a[n], b[n])
        BY <1>1, <1>3, <2>1, <2>3 DEF BeyondAt
      <3>2. \A i \in 1..(n - 1) : i <= Len(c) /\ a[i] = c[i]
        BY <1>3, <2>3 DEF BeyondAt
      <3>3. n > Len(c) \/ After(a[n], c[n])
        <4>1. CASE n > Len(c)
          BY <4>1
        <4>2. CASE n <= Len(c)
          <5>1. After(b[n], c[n])
            BY <1>1, <1>3, <2>3, <4>2 DEF BeyondAt
          <5>2. a[n] \in Identifier /\ b[n] \in Identifier /\ c[n] \in Identifier
            BY <1>1, <2>1, <2>3, <3>1, <4>2
          <5> QED BY <3>1, <5>1, <5>2, IdentifierOrder
        <4> QED BY <1>1, <4>1, <4>2
      <3>4. BeyondAt(a, c, n)
        BY <2>1, <3>2, <3>3 DEF BeyondAt
      <3> QED BY <3>4
    <2>4. CASE n > m
      <3>1. m \in 1..(n - 1) /\ a[m] = b[m]
        BY <1>1, <1>3, <2>1, <2>4 DEF BeyondAt
      <3>2. m > Len(c) \/ After(a[m], c[m])
        BY <1>3, <3>1 DEF BeyondAt
      <3>3. \A i \in 1..(m - 1) : i <= Len(c) /\ a[i] = c[i]
        <4> SUFFICES ASSUME NEW i \in 1..(m - 1) PROVE i <= Len(c) /\ a[i] = c[i]
          OBVIOUS
        <4>1. i \in 1..(n - 1)
          BY <2>4
        <4> QED BY <1>3, <4>1 DEF BeyondAt
      <3>4. BeyondAt(a, c, m)
        BY <1>1, <2>1, <3>1, <3>2, <3>3 DEF BeyondAt
      <3> QED BY <3>4
    <2> QED BY <2>2, <2>3, <2>4
  <1> QED BY <1>2, <1>3

(* cmp_version is a strict order of versions.  The empty list stands for a  *)
(* release, which comes after its pre-releases.                             *)
LEMMA VersionOrder ==
    ASSUME NEW u \in SemVersion, NEW v \in SemVersion, NEW w \in SemVersion
    PROVE  /\ ~ (Greater(u, v) /\ Greater(v, u))
           /\ Greater(u, v) /\ Greater(v, w) => Greater(u, w)
  <1>1. /\ u.core \in Int /\ v.core \in Int /\ w.core \in Int
        /\ u.pre \in Seq(Identifier) /\ v.pre \in Seq(Identifier) /\ w.pre \in Seq(Identifier)
    BY DEF SemVersion
  <1> DEFINE Beyond(p, q) == ComparePrerelease(p, q) = "greater"
  <1>2. /\ ~ Beyond(u.pre, u.pre)
        /\ Beyond(u.pre, v.pre) /\ Beyond(v.pre, w.pre) => Beyond(u.pre, w.pre)
        /\ Beyond(u.pre, v.pre) /\ Beyond(v.pre, u.pre) => Beyond(u.pre, u.pre)
    <2>1. \A p, q \in Seq(Identifier) : Beyond(p, q) <=> \E n \in Nat : BeyondAt(p, q, n)
      BY PrereleaseOrder
    <2>2. \A p, q, r \in Seq(Identifier) :
             /\ ~ \E n \in Nat : BeyondAt(p, p, n)
             /\ (\E n \in Nat : BeyondAt(p, q, n)) /\ (\E n \in Nat : BeyondAt(q, r, n))
                   => \E n \in Nat : BeyondAt(p, r, n)
      BY BeyondOrder
    <2> HIDE DEF Beyond
    <2>3. \A p, q, r \in Seq(Identifier) :
             ~ Beyond(p, p) /\ (Beyond(p, q) /\ Beyond(q, r) => Beyond(p, r))
      BY <2>1, <2>2
    <2> QED BY <1>1, <2>3
  <1>3. \A x, y : Greater(x, y) <=>
           IF x.core # y.core THEN x.core > y.core
           ELSE IF x.pre = <<>> THEN y.pre # <<>> ELSE y.pre # <<>> /\ Beyond(x.pre, y.pre)
    BY DEF Greater
  <1> HIDE DEF Beyond
  <1> QED BY <1>1, <1>2, <1>3

-----------------------------------------------------------------------------
(* What is inductive: each version comes after all before it, and the       *)
(* evidence is what the last of them was let through with.                  *)
Evidence(e) ==
    /\ e.suite \in EvalSuite /\ e.suite # <<>> /\ OverallPass(EvalReport(e.suite))
    /\ e.checks \in Seq(CheckResult) /\ e.strict \in BOOLEAN /\ e.approved = TRUE
    /\ GuardrailPassed(GuardrailVerdict(e.checks, e.strict, TRUE, TRUE))

GatesInv ==
    /\ published \in Seq(VersionInput) /\ currentRelease \in ReleaseDigests \cup {NoRelease}
    /\ \A i, j \in 1..Len(published) : i < j => Greater(published[j], published[i])
    /\ evidence = NoEvidence \/ Evidence(evidence)
    /\ published # <<>> => Evidence(evidence)

(* A suite that passes has a case that ran. *)
LEMMA PassingSuite ==
    ASSUME NEW suite \in EvalSuite, OverallPass(EvalReport(suite))
    PROVE  suite # <<>>
  <1> SUFFICES ASSUME suite = <<>> PROVE FALSE
    OBVIOUS
  <1>1. Executed(suite) = {}
    BY DEF Executed
  <1>2. DOMAIN EvalReport(suite).cases = Executed(suite)
    BY DEF EvalReport
  <1> QED BY <1>1, <1>2 DEF OverallPass

(* Evaluating, checking and publishing keep it. *)
LEMMA GatesStep == GatesInv /\ [GatesNext]_gateVars => GatesInv'
  <1> SUFFICES ASSUME GatesInv, [GatesNext]_gateVars PROVE GatesInv'
    OBVIOUS
  <1>1. CASE UNCHANGED gateVars
    BY <1>1 DEF gateVars, GatesInv
  <1>2. ASSUME NEW v \in VersionInput, NEW suite \in SuiteInput, NEW checks \in CheckInput,
               NEW digests \in DigestInput, NEW strict \in BOOLEAN, NEW approved \in BOOLEAN,
               Publish(v, suite, checks, digests, strict, approved)
        PROVE  GatesInv'
    <2>1. /\ OverallPass(EvalReport(suite))
          /\ BlockReason(GuardrailVerdict(checks, strict, TRUE, approved)) = "none"
          /\ VerdictPassed(PublishViolations(PublishCandidate(v, digests)))
          /\ published' = Append(published, v) /\ currentRelease' = digests
          /\ evidence' = [suite |-> suite, checks |-> checks, strict |-> strict, approved |-> approved]
      BY <1>2 DEF Publish
    <2>2. Evidence(evidence')
      <3>1. GuardrailPassed(GuardrailVerdict(checks, strict, TRUE, approved))
        BY <2>1 DEF BlockReason
      <3>2. GuardrailVerdict(checks, strict, TRUE, approved).requiresApproval = ~ approved
        BY DEF GuardrailVerdict
      <3>3. approved = TRUE
        BY <3>1, <3>2 DEF GuardrailPassed
      <3>4. suite \in EvalSuite /\ suite # <<>> /\ checks \in Seq(CheckResult)
        BY <2>1, GatesAssumption, PassingSuite
      <3>5. /\ evidence'.suite = suite /\ evidence'.checks = checks /\ evidence'.strict = strict
            /\ evidence'.approved = approved
        BY <2>1
      <3> QED BY <2>1, <3>1, <3>3, <3>4, <3>5 DEF Evidence
    <2>3. published \in Seq(VersionInput) /\ published' \in Seq(VersionInput)
          /\ Len(published') = Len(published) + 1 /\ published'[Len(published) + 1] = v
          /\ \A i \in 1..Len(published) : published'[i] = published[i]
      BY <2>1 DEF GatesInv
    <2>4. \A i \in 1..Len(published) : Greater(v, published[i])
      <3> SUFFICES ASSUME NEW i \in 1..Len(published) PROVE Greater(v, published[i])
        OBVIOUS
      <3> DEFINE last == published[Len(published)]
                 c == PublishCandidate(v, digests)
      <3>1. last \in c.previous /\ c.version = v
        <4>1. Len(published) \in {j \in DOMAIN published : j = Len(published)}
          BY <2>3
        <4> QED BY <4>1 DEF PublishCandidate
      <3> HIDE DEF c
      <3>2. "bump" \notin PublishViolations(c) /\ "bump" \in PublishRules
        BY <2>1 DEF VerdictPassed, PublishRules, c
      <3>3. \A p \in c.previous : Greater(c.version, p)
        BY <3>2 DEF PublishViolations
      <3>4. Greater(v, last)
        BY <3>1, <3>3
      <3>5. CASE i = Len(published)
        BY <3>4, <3>5
      <3>6. CASE i < Len(published)
        <4>1. Greater(last, published[i])
          BY <2>3, <3>6 DEF GatesInv
        <4>2. v \in SemVersion /\ last \in SemVersion /\ published[i] \in SemVersion
          <5>1. last \in VersionInput /\ published[i] \in VersionInput
            BY <2>3
          <5> QED BY <5>1, GatesAssumption
        <4> HIDE DEF last
        <4> QED BY <3>4, <4>1, <4>2, VersionOrder
      <3> QED BY <2>3, <3>5, <3>6
    <2>5. ASSUME NEW i \in 1..Len(published'), NEW j \in 1..Len(published'), i < j
          PROVE  Greater(published'[j], published'[i])
      <3>1. i \in 1..Len(published)
        BY <2>3, <2>5
      <3>2. CASE j = Len(published) + 1
        BY <2>3, <2>4, <3>1, <3>2
      <3>3. CASE j \in 1..Len(published)
        BY <2>3, <2>5, <3>1, <3>3 DEF GatesInv
      <3> QED BY <2>3, <3>2, <3>3
    <2>6. currentRelease' \in ReleaseDigests
      BY <2>1, GatesAssumption
    <2> QED BY <2>2, <2>3, <2>5, <2>6 DEF GatesInv
  <1> QED BY <1>1, <1>2 DEF GatesNext

(* The strict profile requires more and blocks on less. *)
LEMMA StrictImpliesStandard ==
    ASSUME NEW checks \in Seq(CheckResult), NEW strict \in BOOLEAN,
           GuardrailPassed(GuardrailVerdict(checks, strict, TRUE, TRUE))
    PROVE  /\ GuardrailPassed(GuardrailVerdict(checks, FALSE, TRUE, TRUE))
           /\ \A c \in RequiredChecks(strict) :
                 /\ \E i \in DOMAIN checks : checks[i].check = c
                 /\ checks[LastResult(checks, c)].passed
  <1> DEFINE ran == {checks[i].check : i \in DOMAIN checks}
             counted(s) == {LastResult(checks, c) : c \in RequiredChecks(s) \cap ran}
             limit(s) == Severity[IF s THEN "medium" ELSE "high"]
             bad(s) == {i \in counted(s) : checks[i].severity # "none"
                                          /\ Severity[checks[i].severity] >= limit(s)}
             v(s) == GuardrailVerdict(checks, s, TRUE, TRUE)
  <1>1. \A s \in BOOLEAN :
           /\ v(s).missing = RequiredChecks(s) \ ran
           /\ v(s).blocked = {checks[i].check : i \in {j \in counted(s) : ~checks[j].passed}}
           /\ v(s).findings = bad(s)
           /\ v(s).requiresApproval = FALSE
    BY DEF GuardrailVerdict
  <1> HIDE DEF v
  <1>2. \A s \in BOOLEAN : GuardrailPassed(v(s)) <=>
           /\ RequiredChecks(s) \subseteq ran
           /\ \A j \in counted(s) : checks[j].passed
           /\ bad(s) = {}
    <2> SUFFICES ASSUME NEW s \in BOOLEAN
                 PROVE  GuardrailPassed(v(s)) <=>
                           /\ RequiredChecks(s) \subseteq ran
                           /\ \A j \in counted(s) : checks[j].passed
                           /\ bad(s) = {}
      OBVIOUS
    <2> HIDE DEF bad, counted, ran
    <2>1. v(s).missing = {} <=> RequiredChecks(s) \subseteq ran
      BY <1>1
    <2>2. v(s).blocked = {} <=> \A j \in counted(s) : checks[j].passed
      <3> DEFINE failing == {j \in counted(s) : ~checks[j].passed}
      <3>1. v(s).blocked = {checks[i].check : i \in failing}
        BY <1>1
      <3>2. failing = {} <=> \A j \in counted(s) : checks[j].passed
        BY Zenon
      <3> HIDE DEF failing
      <3>3. v(s).blocked = {} <=> failing = {}
        BY <3>1
      <3> QED BY <3>2, <3>3
    <2>3. v(s).findings = {} <=> bad(s) = {}
      BY <1>1
    <2>4. v(s).requiresApproval = FALSE
      BY <1>1
    <2> QED BY <2>1, <2>2, <2>3, <2>4 DEF GuardrailPassed
  <1>3. RequiredChecks(FALSE) \subseteq RequiredChecks(strict)
    BY DEF RequiredChecks
  <1>4. counted(FALSE) \subseteq counted(strict)
    BY <1>3
  <1>5. \A c \in RequiredChecks(strict) \cap ran : LastResult(checks, c) \in DOMAIN checks
    <2> SUFFICES ASSUME NEW c \in RequiredChecks(strict) \cap ran
                 PROVE  LastResult(checks, c) \in DOMAIN checks
      OBVIOUS
    <2> DEFINE n == Len(checks)
               at == {i \in 1..n : checks[i].check = c}
               back == {n - i : i \in at}
    <2>1. n \in Nat /\ DOMAIN checks = 1..n /\ at # {}
      OBVIOUS
    <2>2. back \subseteq Nat /\ back # {}
      BY <2>1
    <2>3. PICK m \in back : \A l \in back : m <= l
      <3> HIDE DEF back
      <3> QED BY <2>2, LeastIndex
    <2>4. PICK i \in at : m = n - i
      BY <2>3
    <2>5. \A j \in at : j <= i
      <3> SUFFICES ASSUME NEW j \in at PROVE j <= i
        OBVIOUS
      <3>1. n - j \in back
        OBVIOUS
      <3>2. n - i <= n - j
        BY <2>3, <2>4, <3>1
      <3> QED BY <2>1, <3>2
    <2>6. \E k \in DOMAIN checks :
             /\ checks[k].check = c
             /\ \A j \in DOMAIN checks : checks[j].check = c => j <= k
      BY <2>1, <2>4, <2>5
    <2> QED BY <2>6 DEF LastResult
  <1>6. bad(FALSE) \subseteq bad(strict)
    <2> SUFFICES ASSUME NEW i \in bad(FALSE) PROVE i \in bad(strict)
      OBVIOUS
    <2> DEFINE rank == Severity[checks[i].severity]
    <2>1. i \in counted(strict) /\ checks[i].severity # "none"
      BY <1>4
    <2>2. i \in DOMAIN checks
      BY <1>5, <2>1
    <2>3. checks[i].severity \in DOMAIN Severity
      <3>1. checks[i] \in CheckResult
        BY <2>2
      <3> QED BY ONLY <2>1, <3>1 DEF CheckResult
    <2>4. rank \in Int
      BY <2>3 DEF Severity
    <2>5. rank >= 3
      BY DEF Severity
    <2>6. limit(strict) = 2 \/ limit(strict) = 3
      BY DEF Severity
    <2>7. rank >= limit(strict)
      <3> HIDE DEF rank, limit
      <3> QED BY <2>4, <2>5, <2>6
    <2> QED BY <2>1, <2>7
  <1>7. GuardrailPassed(v(strict))
    BY DEF v
  <1>8. GuardrailPassed(v(FALSE))
    <2> HIDE DEF bad, counted, ran
    <2> QED BY <1>2, <1>3, <1>4, <1>6, <1>7
  <1>9. ASSUME NEW c \in RequiredChecks(strict)
        PROVE  /\ \E i \in DOMAIN checks : checks[i].check = c
               /\ checks[LastResult(checks, c)].passed
    BY <1>2, <1>7
  <1> QED BY <1>8, <1>9 DEF v

(* What OverallPass says of the suite. *)
LEMMA PassRate ==
    ASSUME NEW suite \in EvalSuite, OverallPass(EvalReport(suite))
    PROVE  /\ Thresholds.minPass > 0 => PassedCases(EvalReport(suite)) # {}
           /\ ~Thresholds.failFast =>
                 100 * Cardinality({i \in DOMAIN suite : CasePassed(suite[i])})
                    >= Thresholds.minPass * Len(suite)
  <1> DEFINE report == EvalReport(suite)
             ranCases == DOMAIN report.cases
             passing == {i \in DOMAIN suite : CasePassed(suite[i])}
  <1>1. /\ ranCases = Executed(suite)
        /\ PassedCases(report) = {i \in Executed(suite) : CasePassed(suite[i])}
    <2>1. report.cases = [i \in Executed(suite) |-> [passed |-> CasePassed(suite[i]), tags |-> suite[i].tags]]
      BY DEF EvalReport
    <2> HIDE DEF report
    <2>2. ranCases = Executed(suite)
      BY <2>1
    <2>3. \A i \in Executed(suite) : report.cases[i].passed = CasePassed(suite[i])
      BY <2>1
    <2> QED BY <2>2, <2>3 DEF PassedCases
  <1>2. ranCases # {} /\ RateAtLeast(report, Thresholds.minPass)
    BY DEF OverallPass
  <1>3. Thresholds.minPass \in Nat
    <2>1. Thresholds \in EvalThresholds
      BY GatesAssumption
    <2>2. Thresholds.minPass \in 0..100
      BY ONLY <2>1 DEF EvalThresholds
    <2> QED BY ONLY <2>2
  <1>4. Executed(suite) \subseteq DOMAIN suite /\ DOMAIN suite = 1..Len(suite) /\ Len(suite) \in Nat
    <2>1. Executed(suite) \subseteq DOMAIN suite
      BY DEF Executed
    <2>2. DOMAIN suite = 1..Len(suite) /\ Len(suite) \in Nat
      BY DEF EvalSuite
    <2> QED BY <2>1, <2>2
  <1>5. IsFiniteSet(DOMAIN suite) /\ Cardinality(DOMAIN suite) = Len(suite)
    BY <1>4, FS_Interval
  <1>6. IsFiniteSet(ranCases) /\ Cardinality(ranCases) \in Nat \ {0}
    <2> HIDE DEF ranCases
    <2>1. IsFiniteSet(ranCases)
      BY <1>1, <1>4, <1>5, FS_Subset
    <2> QED BY <1>2, <2>1, FS_EmptySet, FS_CardinalityType
  <1>7. 100 * Cardinality(PassedCases(report)) >= Thresholds.minPass * Cardinality(ranCases)
    BY <1>2 DEF RateAtLeast
  <1>8. ASSUME Thresholds.minPass > 0, PassedCases(report) = {} PROVE FALSE
    <2>1. Cardinality(PassedCases(report)) = 0
      BY <1>8, FS_EmptySet
    <2> DEFINE n == Cardinality(ranCases)
               p == Thresholds.minPass
    <2>2. 0 >= p * n
      BY <1>7, <2>1
    <2>3. p \in Nat /\ p >= 1 /\ n \in Nat /\ n >= 1
      BY <1>3, <1>6, <1>8
    <2> HIDE DEF n, p
    <2>4. p * n >= 1
      BY <2>3
    <2> QED BY <2>2, <2>3, <2>4
  <1>9. ASSUME ~Thresholds.failFast
        PROVE  100 * Cardinality(passing) >= Thresholds.minPass * Len(suite)
    <2>1. Executed(suite) = DOMAIN suite
      BY <1>9 DEF Executed
    <2>2. PassedCases(report) = passing /\ ranCases = DOMAIN suite
      BY <1>1, <2>1
    <2> HIDE DEF passing, ranCases, report
    <2> QED BY <1>5, <1>7, <2>2
  <1> QED BY <1>8, <1>9

(* The gates of a release: the types; and GatesSound, that versions only    *)
(* go up, not only against the one before but against all before it, and    *)
(* that every release had its evidence.  For any versions, suites, checks,  *)
(* thresholds and number of releases: the order of versions is transitive   *)
(* and asymmetric whatever their pre-releases.                              *)
THEOREM GatesAreSound == GatesSpec => [](GatesTypeOK /\ GatesSound)
  <1>0. <<>> \in EvalSuite /\ <<>> \in Seq(VersionInput) /\ Len(<<>>) = 0
    BY DEF EvalSuite
  <1>1. GatesInit => GatesInv
    <2> SUFFICES ASSUME GatesInit PROVE GatesInv
      OBVIOUS
    <2>1. published = <<>> /\ currentRelease = NoRelease /\ evidence = NoEvidence
      BY DEF GatesInit
    <2>2. \A i, j \in 1..Len(published) : i < j => Greater(published[j], published[i])
      BY <1>0, <2>1
    <2> QED BY <1>0, <2>1, <2>2 DEF GatesInv
  <1>2. GatesInv => GatesTypeOK
    <2> SUFFICES ASSUME GatesInv PROVE GatesTypeOK
      OBVIOUS
    <2>1. /\ evidence.suite \in EvalSuite /\ evidence.strict \in BOOLEAN
          /\ evidence.approved \in BOOLEAN
      <3>1. CASE evidence = NoEvidence
        BY <1>0, <3>1 DEF NoEvidence
      <3>2. CASE Evidence(evidence)
        BY <3>2 DEF Evidence
      <3> QED BY <3>1, <3>2 DEF GatesInv
    <2> QED BY <2>1 DEF GatesInv, GatesTypeOK
  <1>3. GatesInv => GatesSound
    <2> SUFFICES ASSUME GatesInv PROVE GatesSound
      OBVIOUS
    <2>1. VersionsIncrease
      <3> SUFFICES ASSUME NEW i \in DOMAIN published, NEW j \in DOMAIN published, i < j
                   PROVE  Greater(published[j], published[i]) /\ ~Greater(published[i], published[j])
        BY DEF VersionsIncrease
      <3>1. published \in Seq(VersionInput) /\ DOMAIN published = 1..Len(published)
        BY DEF GatesInv
      <3>2. Greater(published[j], published[i])
        BY <3>1 DEF GatesInv
      <3>3. published[i] \in SemVersion /\ published[j] \in SemVersion
        <4>1. published[i] \in VersionInput /\ published[j] \in VersionInput
          BY <3>1
        <4> QED BY <4>1, GatesAssumption
      <3> QED BY <3>2, <3>3, VersionOrder
    <2>2. ReleasedWithEvidence
      <3> SUFFICES ASSUME published # <<>>
                   PROVE  ReleasedWithEvidence
        BY DEF ReleasedWithEvidence
      <3>1. Evidence(evidence)
        BY DEF GatesInv
      <3>2. /\ evidence.suite # <<>> /\ evidence.approved
            /\ Thresholds.minPass > 0 => PassedCases(EvalReport(evidence.suite)) # {}
            /\ ~Thresholds.failFast =>
                 100 * Cardinality({i \in DOMAIN evidence.suite : CasePassed(evidence.suite[i])})
                    >= Thresholds.minPass * Len(evidence.suite)
        BY <3>1, PassRate DEF Evidence
      <3>3. /\ GuardrailPassed(GuardrailVerdict(evidence.checks, FALSE, TRUE, TRUE))
            /\ \A c \in RequiredChecks(evidence.strict) :
                  /\ \E i \in DOMAIN evidence.checks : evidence.checks[i].check = c
                  /\ evidence.checks[LastResult(evidence.checks, c)].passed
        BY <3>1, StrictImpliesStandard DEF Evidence
      <3> QED BY <3>2, <3>3 DEF ReleasedWithEvidence
    <2> QED BY <2>1, <2>2 DEF GatesSound
  <1> QED BY <1>1, <1>2, <1>3, GatesStep, PTL DEF GatesSpec

-----------------------------------------------------------------------------
(* What a loop computes.  A function that each of N rounds continues exists *)
(* for every number of rounds: the least number for which there is none     *)
(* would extend the function for the number before it.                      *)
IsIteration(f, X, base, G, N) ==
    f \in [0..N -> X] /\ f[0] = base /\ \A n \in 1..N : f[n] = G[<<n, f[n - 1]>>]

(* A step repeated from a first value has a table of its results. *)
LEMMA IterationExists ==
    ASSUME NEW X, NEW base \in X, NEW G \in [Nat \X X -> X], NEW N \in Nat
    PROVE  \E f : IsIteration(f, X, base, G, N)
  <1> DEFINE T == {m \in Nat : ~ \E f : IsIteration(f, X, base, G, m)}
  <1> SUFFICES ASSUME T # {} PROVE FALSE
    OBVIOUS
  <1>1. PICK m \in T : \A k \in T : m <= k
    <2>1. T \subseteq Nat
      OBVIOUS
    <2> HIDE DEF T
    <2> QED BY <2>1, LeastIndex
  <1>2. CASE m = 0
    <2> DEFINE f == [n \in 0..0 |-> base]
    <2>1. IsIteration(f, X, base, G, 0)
      BY DEF IsIteration
    <2> QED BY <1>1, <1>2, <2>1
  <1>3. CASE m # 0
    <2>1. m \in Nat /\ m - 1 \in Nat /\ m - 1 \notin T
      BY <1>1, <1>3
    <2>2. PICK g : IsIteration(g, X, base, G, m - 1)
      BY <2>1
    <2> DEFINE last == G[<<m, g[m - 1]>>]
               f == [n \in 0..m |-> IF n = m THEN last ELSE g[n]]
    <2>3. g[m - 1] \in X /\ last \in X
      BY <2>1, <2>2 DEF IsIteration
    <2>4. f \in [0..m -> X] /\ f[0] = base
      <3> HIDE DEF last
      <3> QED BY <1>3, <2>1, <2>2, <2>3 DEF IsIteration
    <2>5. ASSUME NEW n \in 1..m PROVE f[n] = G[<<n, f[n - 1]>>]
      <3>1. f[n - 1] = g[n - 1]
        BY <2>1
      <3>2. CASE n = m
        BY <3>1, <3>2
      <3>3. CASE n # m
        <4>1. n \in 1..(m - 1) /\ f[n] = g[n]
          BY <3>3
        <4> QED BY <2>2, <3>1, <4>1 DEF IsIteration
      <3> QED BY <3>2, <3>3
    <2> HIDE DEF f
    <2>6. IsIteration(f, X, base, G, m)
      BY <2>4, <2>5 DEF IsIteration
    <2> QED BY <1>1, <2>6
  <1> QED BY <1>2, <1>3

-----------------------------------------------------------------------------
(* Planning.  The rounds of the traversal of `validate`: those whose        *)
(* dependencies were visited in the round before.                           *)
Next1(S, D, V) == {t \in S : D[t] \subseteq V}

IsRounds(f, S, D, N) == f = [n \in 0..N |-> IF n = 0 THEN {} ELSE Next1(S, D, f[n - 1])]

(* The rounds of `validate` have a table. *)
LEMMA RoundsExist ==
    ASSUME NEW S, NEW D, NEW N \in Nat
    PROVE  \E f : IsRounds(f, S, D, N)
  <1> DEFINE X == SUBSET S
             G == [p \in Nat \X X |-> Next1(S, D, p[2])]
  <1>1. {} \in X /\ G \in [Nat \X X -> X]
    BY DEF Next1
  <1>2. \A n \in Nat, V \in X : G[<<n, V>>] = Next1(S, D, V)
    OBVIOUS
  <1> HIDE DEF X, G
  <1>3. PICK f : IsIteration(f, X, {}, G, N)
    BY <1>1, IterationExists
  <1>4. ASSUME NEW n \in 0..N
        PROVE  f[n] = IF n = 0 THEN {} ELSE Next1(S, D, f[n - 1])
    <2>1. n # 0 => n \in 1..N /\ n \in Nat /\ n - 1 \in 0..N
      OBVIOUS
    <2> QED BY <1>2, <1>3, <2>1 DEF IsIteration
  <1>5. f = [n \in 0..N |-> f[n]]
    BY <1>3 DEF IsIteration
  <1> QED BY <1>4, <1>5 DEF IsRounds

(* The first round is empty, and each continues the one before. *)
LEMMA RoundsUnfold ==
    ASSUME NEW S, NEW D, NEW N \in Nat, NEW f, IsRounds(f, S, D, N)
    PROVE  f[0] = {} /\ \A k \in 1..N : f[k] = Next1(S, D, f[k - 1])
  <1> DEFINE g == [n \in 0..N |-> IF n = 0 THEN {} ELSE Next1(S, D, f[n - 1])]
  <1>1. \A n \in 0..N : g[n] = IF n = 0 THEN {} ELSE Next1(S, D, f[n - 1])
    OBVIOUS
  <1>2. f = g
    BY DEF IsRounds
  <1> HIDE DEF g
  <1>3. \A n \in 0..N : f[n] = IF n = 0 THEN {} ELSE Next1(S, D, f[n - 1])
    BY <1>1, <1>2
  <1> QED BY <1>3

(* A round reaches at least as many tasks as its number, or nothing more is *)
(* to be reached.                                                           *)
LEMMA RoundsGrow ==
    ASSUME NEW S, IsFiniteSet(S), NEW D, NEW N \in Nat, NEW f, IsRounds(f, S, D, N), NEW n \in 0..N
    PROVE  /\ f[n] \subseteq S /\ f[n] \subseteq Next1(S, D, f[n])
           /\ Next1(S, D, f[n]) = f[n] \/ Cardinality(f[n]) >= n
  <1> DEFINE Good(k) == /\ f[k] \subseteq S /\ f[k] \subseteq Next1(S, D, f[k])
                        /\ Next1(S, D, f[k]) = f[k] \/ Cardinality(f[k]) >= k
             T == {k \in 0..N : ~ Good(k)}
  <1>0. /\ f[0] = {} /\ \A k \in 1..N : f[k] = Next1(S, D, f[k - 1])
    BY RoundsUnfold
  <1> SUFFICES ASSUME T # {} PROVE FALSE
    OBVIOUS
  <1>1. PICK m \in T : \A k \in T : m <= k
    <2>1. T \subseteq Nat
      OBVIOUS
    <2> HIDE DEF T
    <2> QED BY <2>1, LeastIndex
  <1>2. m \in 0..N /\ ~ Good(m)
    BY <1>1
  <1>3. m # 0
    <2>1. Good(0)
      BY <1>0, FS_EmptySet
    <2> QED BY <1>2, <2>1
  <1> DEFINE V == f[m - 1]
             W == f[m]
  <1>4. Good(m - 1) /\ W = Next1(S, D, V)
    <2>1. m - 1 \in 0..N /\ m - 1 \notin T
      BY <1>1, <1>2, <1>3
    <2> QED BY <1>0, <1>2, <1>3, <2>1
  <1>5. /\ V \subseteq S /\ V \subseteq W /\ (W = V \/ Cardinality(V) >= m - 1)
    BY <1>4
  <1> HIDE DEF T
  <1>6. W \subseteq S /\ W \subseteq Next1(S, D, W)
    BY <1>4, <1>5 DEF Next1
  <1>7. Next1(S, D, W) = W \/ Cardinality(W) >= m
    <2>1. CASE W = V
      BY <1>4, <2>1
    <2>2. CASE W # V
      <3>1. IsFiniteSet(W) /\ IsFiniteSet(V)
        BY <1>5, <1>6, FS_Subset
      <3>2. Cardinality(V) < Cardinality(W)
        BY <1>5, <2>2, <3>1, FS_Subset, FS_CardinalityType
      <3>3. Cardinality(V) \in Nat /\ Cardinality(W) \in Nat
        BY <3>1, FS_CardinalityType
      <3> HIDE DEF V, W
      <3> QED BY <1>2, <1>5, <2>2, <3>2, <3>3
    <2> QED BY <2>1, <2>2
  <1> QED BY <1>2, <1>6, <1>7

(* No round reaches a set of tasks that wait for each other. *)
LEMMA RoundsAvoidKnots ==
    ASSUME NEW S, NEW D, NEW N \in Nat, NEW f, IsRounds(f, S, D, N), NEW n \in 0..N,
           NEW K, \A t \in K : D[t] \cap K # {}
    PROVE  f[n] \cap K = {}
  <1> DEFINE T == {k \in 0..N : f[k] \cap K # {}}
  <1>0. /\ f[0] = {} /\ \A k \in 1..N : f[k] = Next1(S, D, f[k - 1])
    BY RoundsUnfold
  <1> SUFFICES ASSUME T # {} PROVE FALSE
    OBVIOUS
  <1>1. PICK m \in T : \A k \in T : m <= k
    <2>1. T \subseteq Nat
      OBVIOUS
    <2> HIDE DEF T
    <2> QED BY <2>1, LeastIndex
  <1>2. m \in 1..N
    BY <1>0, <1>1
  <1>3. PICK t \in f[m] \cap K : TRUE
    BY <1>1
  <1>4. D[t] \subseteq f[m - 1]
    BY <1>0, <1>2, <1>3 DEF Next1
  <1>5. m - 1 \in T
    BY <1>2, <1>3, <1>4
  <1> QED BY <1>1, <1>2, <1>5

(* What a goal is made of. *)
LEMMA GoalTyped ==
    ASSUME plan \in GoalPlan
    PROVE  /\ plan.tasks \subseteq Task /\ IsFiniteSet(plan.tasks)
           /\ Cardinality(plan.tasks) \in Nat
           /\ plan.depends \in [plan.tasks -> SUBSET (plan.tasks \cup {Ghost})]
  <1>1. PICK S \in SUBSET Task : plan \in [tasks : {S}, depends : [S -> SUBSET (S \cup {Ghost})]]
    BY DEF GoalPlan
  <1>2. plan.tasks = S /\ plan.depends \in [S -> SUBSET (S \cup {Ghost})]
    BY <1>1
  <1>3. IsFiniteSet(S)
    BY PlanningAssumption, FS_Subset
  <1> QED BY <1>2, <1>3, FS_CardinalityType

(* What `validate` visits is the last of as many rounds as there are tasks. *)
LEMMA VisitedIsLastRound ==
    ASSUME plan \in GoalPlan
    PROVE  \E f : /\ IsRounds(f, plan.tasks, plan.depends, Cardinality(plan.tasks))
                 /\ Visited = f[Cardinality(plan.tasks)]
  <1> DEFINE S == plan.tasks
             D == plan.depends
             N == Cardinality(S)
             Is(f) == f = [n \in 0..N |-> IF n = 0 THEN {} ELSE {t \in S : D[t] \subseteq f[n - 1]}]
             after == CHOOSE f : Is(f)
  <1>1. N \in Nat
    BY GoalTyped
  <1>2. \E f : Is(f)
    <2>1. PICK f : IsRounds(f, S, D, N)
      <3> HIDE DEF S, D, N
      <3> QED BY <1>1, RoundsExist
    <2>2. Is(f)
      BY <2>1 DEF IsRounds, Next1
    <2> HIDE DEF Is
    <2> QED BY <2>2
  <1>3. Is(after)
    <2> HIDE DEF Is
    <2> QED BY <1>2
  <1>4. Visited = after[N]
    BY DEF Visited
  <1>5. IsRounds(after, S, D, N)
    <2> HIDE DEF after
    <2> QED BY <1>3 DEF IsRounds, Next1
  <1> HIDE DEF after
  <1> QED BY <1>4, <1>5

(* `validate` is exact: what it accepts has its dependencies and no set of  *)
(* tasks that wait for each other, and what it takes for a cycle has one.   *)
LEMMA ValidateExact ==
    ASSUME plan \in GoalPlan
    PROVE  /\ Validate \in {"ok", "missing", "cycle"}
           /\ Validate = "missing" => \E t \in plan.tasks : ~(plan.depends[t] \subseteq plan.tasks)
           /\ Validate # "missing" => \A t \in plan.tasks : plan.depends[t] \subseteq plan.tasks
           /\ Validate = "ok" => ~\E S \in SUBSET plan.tasks : Knot(S)
           /\ Validate = "cycle" => \E S \in SUBSET plan.tasks : Knot(S)
  <1> DEFINE S == plan.tasks
             D == plan.depends
             N == Cardinality(S)
  <1>1. IsFiniteSet(S) /\ N \in Nat
    BY GoalTyped
  <1>2. PICK f : IsRounds(f, S, D, N) /\ Visited = f[N]
    BY VisitedIsLastRound
  <1>3. /\ Visited \subseteq S
        /\ Next1(S, D, Visited) = Visited \/ Cardinality(Visited) >= N
    <2>1. N \in 0..N
      BY <1>1
    <2> HIDE DEF N, S, D
    <2> QED BY <1>1, <1>2, <2>1, RoundsGrow
  <1>4. Cardinality(Visited) \in Nat /\ Cardinality(Visited) <= N /\ (Cardinality(Visited) = N => Visited = S)
    <2> HIDE DEF S, D
    <2> QED BY <1>1, <1>3, FS_Subset, FS_CardinalityType
  <1>5. Validate \in {"ok", "missing", "cycle"}
    BY DEF Validate
  <1>6. Validate = "missing" <=> \E t \in S : ~(D[t] \subseteq S)
    BY DEF Validate
  <1>7. ASSUME Validate = "ok", NEW K \in SUBSET S, Knot(K) PROVE FALSE
    <2>1. Visited = S
      BY <1>4, <1>7 DEF Validate
    <2>2. f[N] \cap K = {}
      <3>1. N \in 0..N /\ \A t \in K : D[t] \cap K # {}
        BY <1>1, <1>7 DEF Knot
      <3> HIDE DEF S, D, N
      <3> QED BY <1>1, <1>2, <3>1, RoundsAvoidKnots
    <2> QED BY <1>2, <1>7, <2>1, <2>2 DEF Knot
  <1>8. ASSUME Validate = "cycle" PROVE \E K \in SUBSET S : Knot(K)
    <2> DEFINE K == S \ Visited
    <2>1. Cardinality(Visited) # N /\ \A t \in S : D[t] \subseteq S
      BY <1>8 DEF Validate
    <2>2. Next1(S, D, Visited) = Visited
      BY <1>1, <1>3, <1>4, <2>1
    <2>3. Visited # S
      BY <2>1
    <2>4. K # {}
      BY <1>3, <2>3
    <2>5. ASSUME NEW t \in K PROVE D[t] \cap K # {}
      <3>1. t \in S /\ t \notin Next1(S, D, Visited)
        BY <2>2
      <3>2. ~ (D[t] \subseteq Visited)
        BY <3>1 DEF Next1
      <3> QED BY <2>1, <3>1, <3>2
    <2>6. Knot(K)
      <3> HIDE DEF K
      <3> QED BY <2>4, <2>5 DEF Knot
    <2> QED BY <2>6
  <1> QED BY <1>5, <1>6, <1>7, <1>8

-----------------------------------------------------------------------------
(* What is inductive about an execution: the verdict is that of the goal,   *)
(* which stays, and no task left "pending" before its dependencies.         *)
TasksOrdered(status) ==
    \A t \in plan.tasks : status[t] # "pending" => \A d \in plan.depends[t] : status[d] = "done"

PlanInv ==
    /\ plan \in GoalPlan /\ hour \in 0..MaxHours
    /\ \/ dag = NoDag
       \/ dag \in [is : {"missing", "cycle"}] /\ dag.is = Validate
       \/ dag \in ExecutionDag /\ Validate = "ok" /\ TasksOrdered(dag.status)

(* A step of the executor: the fields of the graph change together. *)
LEMMA DagMoves ==
    ASSUME PlanInv, Accepted, UNCHANGED <<plan, hour>>,
           NEW st \in [plan.tasks -> PlanTaskStatus], NEW up \in [plan.tasks -> 0..hour],
           NEW co \in [plan.tasks -> 0..100],
           dag' = [dag EXCEPT !.status = st, !.updated = up, !.confidence = co], TasksOrdered(st)
    PROVE  PlanInv'
  <1>1. dag \in ExecutionDag /\ Validate = "ok"
    BY DEF PlanInv, Accepted, NoDag
  <1>2. dag' \in ExecutionDag /\ dag'.status = st
    BY <1>1 DEF ExecutionDag
  <1>3. ExecutionDag' = ExecutionDag /\ Validate' = Validate
    BY DEF ExecutionDag, Validate, Visited
  <1>4. TasksOrdered(dag.status)'
    BY <1>2 DEF TasksOrdered
  <1> QED BY <1>1, <1>2, <1>3, <1>4 DEF PlanInv

(* Every step of the planner and of the clock keeps it. *)
LEMMA PlanStep == PlanInv /\ [PlanNext]_planVars => PlanInv'
  <1> SUFFICES ASSUME PlanInv, [PlanNext]_planVars PROVE PlanInv'
    OBVIOUS
  <1>1. Accepted => dag \in ExecutionDag /\ Validate = "ok" /\ TasksOrdered(dag.status)
    BY DEF PlanInv, Accepted, NoDag
  <1>2. hour \in Nat /\ MaxHours \in Nat
    BY PlanningAssumption DEF PlanInv
  <1>3. ASSUME Decompose PROVE PlanInv'
    <2>1. dag' = (IF Validate # "ok" THEN [is |-> Validate] ELSE PendingTasks) /\ UNCHANGED <<plan, hour>>
      BY <1>3 DEF Decompose
    <2>2. Validate' = Validate /\ Validate \in {"ok", "missing", "cycle"}
      BY <2>1, ValidateExact DEF Validate, Visited, PlanInv
    <2>3. CASE Validate # "ok"
      BY <2>1, <2>2, <2>3 DEF PlanInv
    <2>4. CASE Validate = "ok"
      <3>1. dag' = PendingTasks
        BY <2>1, <2>4
      <3>2. /\ PendingTasks \in ExecutionDag
            /\ PendingTasks.status = [t \in plan.tasks |-> "pending"]
        <4>1. /\ [t \in plan.tasks |-> "pending"] \in [plan.tasks -> PlanTaskStatus]
              /\ [t \in plan.tasks |-> 100] \in [plan.tasks -> 0..100]
              /\ [t \in plan.tasks |-> hour] \in [plan.tasks -> 0..hour]
          BY <1>2 DEF PlanTaskStatus
        <4> QED BY <4>1 DEF PendingTasks, ExecutionDag
      <3>3. ExecutionDag' = ExecutionDag
        BY <2>1 DEF ExecutionDag
      <3>4. TasksOrdered(dag.status)'
        BY <2>1, <3>1, <3>2 DEF TasksOrdered
      <3> QED BY <2>1, <2>2, <2>4, <3>1, <3>2, <3>3, <3>4 DEF PlanInv
    <2> QED BY <2>3, <2>4
  <1>4. ASSUME StartTask PROVE PlanInv'
    <2> DEFINE st == [t \in plan.tasks |-> IF t \in Scheduled THEN "in_progress" ELSE dag.status[t]]
               up == [t \in plan.tasks |-> IF t \in Scheduled THEN hour ELSE dag.updated[t]]
    <2>1. /\ Accepted /\ UNCHANGED <<plan, hour>>
          /\ dag' = [dag EXCEPT !.status = st, !.updated = up]
      BY <1>4 DEF StartTask
    <2>2. /\ dag.status \in [plan.tasks -> PlanTaskStatus] /\ dag.updated \in [plan.tasks -> 0..hour]
          /\ dag.confidence \in [plan.tasks -> 0..100]
      BY <1>1, <2>1 DEF ExecutionDag
    <2>3. st \in [plan.tasks -> PlanTaskStatus] /\ up \in [plan.tasks -> 0..hour]
      BY <1>2, <2>2 DEF PlanTaskStatus
    <2>4. TasksOrdered(st)
      <3> SUFFICES ASSUME NEW t \in plan.tasks, st[t] # "pending", NEW d \in plan.depends[t]
                   PROVE  st[d] = "done"
        BY DEF TasksOrdered
      <3>1. Validate # "missing"
        BY <1>1, <2>1
      <3>2. d \in plan.tasks
        BY <3>1, ValidateExact DEF PlanInv
      <3>3. dag.status[d] = "done"
        <4>1. CASE t \in Scheduled
          BY <4>1 DEF Scheduled, Ready
        <4>2. CASE t \notin Scheduled
          BY <1>1, <2>1, <4>2 DEF TasksOrdered
        <4> QED BY <4>1, <4>2
      <3>4. d \notin Scheduled
        BY <3>3 DEF Scheduled, Ready
      <3> QED BY <3>2, <3>3, <3>4
    <2>5. dag' = [dag EXCEPT !.status = st, !.updated = up, !.confidence = dag.confidence]
      <3> HIDE DEF st, up
      <3> QED BY <1>1, <2>1 DEF ExecutionDag
    <2> HIDE DEF st, up
    <2> QED BY <2>1, <2>2, <2>3, <2>4, <2>5, DagMoves
  <1>5. ASSUME NEW t \in plan.tasks, Finish(t) PROVE PlanInv'
    <2>1. /\ Accepted /\ dag.status[t] = "in_progress" /\ UNCHANGED <<plan, hour>>
      BY <1>5 DEF Finish, InState
    <2>2. PICK s \in {"done", "blocked", "failed"} :
             dag' = [dag EXCEPT !.status[t] = s, !.updated[t] = hour,
                                !.confidence[t] = IF s = "done" THEN @ ELSE LowConfidence]
      BY <1>5 DEF Finish
    <2> DEFINE c == IF s = "done" THEN dag.confidence[t] ELSE LowConfidence
               st == [dag.status EXCEPT ![t] = s]
               up == [dag.updated EXCEPT ![t] = hour]
               co == [dag.confidence EXCEPT ![t] = c]
    <2>3. /\ dag.status \in [plan.tasks -> PlanTaskStatus] /\ dag.updated \in [plan.tasks -> 0..hour]
          /\ dag.confidence \in [plan.tasks -> 0..100] /\ dag \in ExecutionDag
      BY <1>1, <2>1 DEF ExecutionDag
    <2>4. c \in 0..100
      BY <2>3, PlanningAssumption
    <2>5. /\ st \in [plan.tasks -> PlanTaskStatus] /\ up \in [plan.tasks -> 0..hour]
          /\ co \in [plan.tasks -> 0..100]
      <3> HIDE DEF c
      <3> QED BY <1>2, <2>3, <2>4 DEF PlanTaskStatus
    <2>6. TasksOrdered(st)
      <3> SUFFICES ASSUME NEW u \in plan.tasks, st[u] # "pending", NEW d \in plan.depends[u]
                   PROVE  st[d] = "done"
        BY DEF TasksOrdered
      <3>1. dag.status[u] # "pending"
        BY <2>1, <2>3
      <3>2. dag.status[d] = "done"
        BY <1>1, <2>1, <3>1 DEF TasksOrdered
      <3> QED BY <2>1, <2>3, <3>2
    <2>7. dag' = [dag EXCEPT !.status = st, !.updated = up, !.confidence = co]
      BY <2>2, <2>3 DEF ExecutionDag
    <2> HIDE DEF st, up, co
    <2> QED BY <2>1, <2>5, <2>6, <2>7, DagMoves
  <1>6. ASSUME PassHour PROVE PlanInv'
    <2>1. hour' = hour + 1 /\ hour < MaxHours /\ UNCHANGED <<plan, dag>>
      BY <1>6 DEF PassHour
    <2>2. Validate' = Validate
      BY <2>1 DEF Validate, Visited
    <2>3. dag \in ExecutionDag => dag' \in ExecutionDag'
      <3> SUFFICES ASSUME dag \in ExecutionDag PROVE dag' \in ExecutionDag'
        OBVIOUS
      <3>1. 0..hour \subseteq 0..hour'
        BY <1>2, <2>1
      <3> QED BY <2>1, <3>1 DEF ExecutionDag
    <2>4. hour' \in 0..MaxHours
      BY <1>2, <2>1
    <2>5. TasksOrdered(dag.status)' <=> TasksOrdered(dag.status)
      BY <2>1 DEF TasksOrdered
    <2> QED BY <2>1, <2>2, <2>3, <2>4, <2>5 DEF PlanInv
  <1>7. CASE UNCHANGED planVars
    <2>1. UNCHANGED <<plan, dag, hour>>
      BY <1>7 DEF planVars
    <2>2. Validate' = Validate /\ ExecutionDag' = ExecutionDag
          /\ (TasksOrdered(dag.status)' <=> TasksOrdered(dag.status))
      BY <2>1 DEF Validate, Visited, ExecutionDag, TasksOrdered
    <2> QED BY <2>1, <2>2 DEF PlanInv
  <1> QED BY <1>3, <1>4, <1>5, <1>6, <1>7 DEF PlanNext

(* A plan on which nothing runs and nothing is ready, and whose tasks are   *)
(* all pending or done, would hold a set of tasks that wait for each other. *)
LEMMA StuckIsKnot ==
    ASSUME PlanInv, Accepted, InState("done") # plan.tasks, InState("in_progress") = {},
           InState("blocked") = {}, InState("failed") = {}, Ready = {},
           Withheld \cap InState("pending") = {}
    PROVE  FALSE
  <1> DEFINE K == InState("pending")
  <1>1. dag \in ExecutionDag /\ Validate = "ok"
    BY DEF PlanInv, Accepted, NoDag
  <1>2. /\ \A t \in plan.tasks : plan.depends[t] \subseteq plan.tasks
        /\ ~\E S \in SUBSET plan.tasks : Knot(S)
    BY <1>1, ValidateExact DEF PlanInv
  <1>3. \A t \in plan.tasks : dag.status[t] \in {"pending", "done"}
    <2>1. \A t \in plan.tasks : dag.status[t] \in PlanTaskStatus
      BY <1>1 DEF ExecutionDag
    <2> QED BY <2>1 DEF PlanTaskStatus, InState
  <1>4. K # {} /\ K \subseteq plan.tasks
    BY <1>3 DEF InState
  <1>5. ASSUME NEW t \in K PROVE plan.depends[t] \cap K # {}
    <2>1. t \in plan.tasks /\ dag.status[t] = "pending" /\ t \notin Withheld
      BY DEF InState
    <2>2. t \notin Ready
      OBVIOUS
    <2>3. PICK d \in plan.depends[t] : dag.status[d] # "done"
      BY <2>1, <2>2 DEF Ready
    <2>4. d \in K
      BY <1>2, <1>3, <2>1, <2>3 DEF InState
    <2> QED BY <2>3, <2>4
  <1>6. Knot(K)
    <2> HIDE DEF K
    <2> QED BY <1>4, <1>5 DEF Knot
  <1> QED BY <1>2, <1>4, <1>6

(* Planning: the types; and PlanSound, that a plan is accepted exactly when *)
(* every dependency is there and no set of tasks waits for itself, that no  *)
(* task starts before what it depends on is done, and that a stuck plan is  *)
(* noticed.  For any number of tasks, dependencies, policy and constraints. *)
THEOREM PlansAreSound == PlanSpec => [](PlanTypeOK /\ PlanSound)
  <1>1. PlanInit => PlanInv
    BY PlanningAssumption DEF PlanInit, PlanInv
  <1>2. PlanInv => PlanTypeOK
    BY DEF PlanInv, PlanTypeOK, NoDag
  <1>3. PlanInv => PlanSound
    <2> SUFFICES ASSUME PlanInv PROVE PlanSound
      OBVIOUS
    <2>1. /\ Accepted => dag \in ExecutionDag /\ Validate = "ok" /\ TasksOrdered(dag.status)
          /\ dag.is \in {"missing", "cycle"} => dag.is = Validate
      BY DEF PlanInv, Accepted, NoDag, ExecutionDag
    <2>2. AcceptedIsExecutable
      <3>1. plan \in GoalPlan
        BY DEF PlanInv
      <3> QED BY <2>1, <3>1, ValidateExact DEF AcceptedIsExecutable
    <2>3. StallsNoticed
      <3> SUFFICES ASSUME Accepted, InState("done") # plan.tasks, InState("in_progress") = {},
                          Ready = {}, Withheld \cap InState("pending") = {}, Policy.onFailure,
                          Policy.maxBlocked = 0
                   PROVE  ShouldReplan
        BY DEF StallsNoticed
      <3>1. IsFiniteSet(plan.tasks) /\ Cardinality(plan.tasks) \in Nat
        BY GoalTyped DEF PlanInv
      <3>2. \A s : IsFiniteSet(InState(s)) /\ Cardinality(InState(s)) \in Nat
                   /\ (InState(s) # {} => Cardinality(InState(s)) > 0)
        <4> SUFFICES ASSUME NEW s
                     PROVE  IsFiniteSet(InState(s)) /\ Cardinality(InState(s)) \in Nat
                            /\ (InState(s) # {} => Cardinality(InState(s)) > 0)
          OBVIOUS
        <4>1. InState(s) \subseteq plan.tasks
          BY DEF InState
        <4> QED BY <3>1, <4>1, FS_Subset, FS_CardinalityType, FS_EmptySet
      <3>3. /\ Progress.blocked = Cardinality(InState("blocked"))
            /\ Progress.failed = Cardinality(InState("failed"))
        BY DEF Progress
      <3>4. CASE InState("failed") # {}
        <4>1. Progress.failed > 0
          BY <3>2, <3>3, <3>4
        <4>2. "failed" \in ReplanReasons
          BY <4>1 DEF ReplanReasons, ReplanReason
        <4> QED BY <4>2 DEF ShouldReplan
      <3>5. CASE InState("blocked") # {}
        <4>1. Progress.blocked \in Nat /\ Progress.blocked > 0
          BY <3>2, <3>3, <3>5
        <4>2. RatioAbove(Progress.blocked, Policy.maxBlocked)
          BY <3>1, <4>1 DEF RatioAbove
        <4>3. "blocked" \in ReplanReasons
          BY <4>2 DEF ReplanReasons, ReplanReason
        <4> QED BY <4>3 DEF ShouldReplan
      <3>6. CASE InState("failed") = {} /\ InState("blocked") = {}
        BY <3>6, StuckIsKnot
      <3> QED BY <3>4, <3>5, <3>6
    <2> QED BY <2>1, <2>2, <2>3 DEF PlanSound, TasksOrdered
  <1> QED BY <1>1, <1>2, <1>3, PlanStep, PTL DEF PlanSpec

-----------------------------------------------------------------------------
(* The links of the mesh.  What is inductive: rows are canonical and join   *)
(* two nodes, one row for a symmetric relation, and no set of nodes has a   *)
(* row of one relation out of each into the set.                            *)
LinkRow == [from : LinkNode, kind : DOMAIN PassiveOf, to : LinkNode]

Row1(node, kind, other) == [from |-> node, kind |-> kind, to |-> other]

NoLoop(kind, rows) ==
    \A S \in (SUBSET LinkNode) \ {{}} : \E u \in S : \A w \in S : Row1(u, kind, w) \notin rows

LinksInv ==
    /\ links \subseteq LinkRow
    /\ \A e, f \in links :
          e.kind = "relates" /\ f.kind = "relates" /\ {e.from, e.to} = {f.from, f.to} => e = f
    /\ \A kind \in DOMAIN PassiveOf \ {"relates"} : NoLoop(kind, links)

(* One more round of the search, along the rows of the relation. *)
Along(rows, V) == V \cup {e.to : e \in {f \in rows : f.from \in V}}

IsSearch(f, rows, node, N) ==
    f = [n \in 0..N |-> IF n = 0 THEN {node} ELSE Along(rows, f[n - 1])]

(* The search along the links has a table. *)
LEMMA SearchExists ==
    ASSUME NEW rows, rows \subseteq LinkRow, NEW node \in LinkNode, NEW N \in Nat
    PROVE  \E f : IsSearch(f, rows, node, N)
  <1> DEFINE X == SUBSET LinkNode
             G == [p \in Nat \X X |-> Along(rows, p[2])]
             base == {node}
  <1>0. \A e \in rows : e.to \in LinkNode
    BY DEF LinkRow
  <1>1. base \in X /\ G \in [Nat \X X -> X]
    <2>1. ASSUME NEW V \in X PROVE Along(rows, V) \in X
      BY <1>0 DEF Along
    <2>2. ASSUME NEW p \in Nat \X X PROVE Along(rows, p[2]) \in X
      <3>1. p[2] \in X
        OBVIOUS
      <3> HIDE DEF X
      <3> QED BY <2>1, <3>1
    <2>3. G \in [Nat \X X -> X]
      <3> HIDE DEF X
      <3> QED BY <2>2
    <2> QED BY <2>3
  <1>2. \A n \in Nat, V \in X : G[<<n, V>>] = Along(rows, V)
    OBVIOUS
  <1> HIDE DEF X, G, base
  <1>3. PICK f : IsIteration(f, X, base, G, N)
    BY <1>1, IterationExists
  <1>4. ASSUME NEW n \in 0..N
        PROVE  f[n] = IF n = 0 THEN base ELSE Along(rows, f[n - 1])
    <2>1. n # 0 => n \in 1..N /\ n \in Nat /\ n - 1 \in 0..N
      OBVIOUS
    <2> QED BY <1>2, <1>3, <2>1 DEF IsIteration
  <1>5. f = [n \in 0..N |-> f[n]]
    BY <1>3 DEF IsIteration
  <1>6. f = [n \in 0..N |-> IF n = 0 THEN base ELSE Along(rows, f[n - 1])]
    BY <1>4, <1>5
  <1> QED BY <1>6 DEF IsSearch, base

(* The search starts at the node and each round continues the one before.  *)
LEMMA SearchUnfold ==
    ASSUME NEW rows, NEW node, NEW N \in Nat, NEW f, IsSearch(f, rows, node, N)
    PROVE  f[0] = {node} /\ \A k \in 1..N : f[k] = Along(rows, f[k - 1])
  <1> DEFINE g == [n \in 0..N |-> IF n = 0 THEN {node} ELSE Along(rows, f[n - 1])]
  <1>1. \A n \in 0..N : g[n] = IF n = 0 THEN {node} ELSE Along(rows, f[n - 1])
    OBVIOUS
  <1>2. f = g
    BY DEF IsSearch
  <1> HIDE DEF g
  <1>3. \A n \in 0..N : f[n] = IF n = 0 THEN {node} ELSE Along(rows, f[n - 1])
    BY <1>1, <1>2
  <1> QED BY <1>3

(* A round has found more nodes than its number, or all there are to find. *)
LEMMA SearchGrows ==
    ASSUME NEW rows, rows \subseteq LinkRow, NEW node \in LinkNode, NEW N \in Nat, NEW f,
           IsSearch(f, rows, node, N), NEW n \in 0..N
    PROVE  /\ f[n] \subseteq LinkNode /\ node \in f[n]
           /\ Along(rows, f[n]) = f[n] \/ Cardinality(f[n]) >= n + 1
  <1> DEFINE Good(k) == /\ f[k] \subseteq LinkNode /\ node \in f[k]
                        /\ Along(rows, f[k]) = f[k] \/ Cardinality(f[k]) >= k + 1
             T == {k \in 0..N : ~ Good(k)}
  <1>0. f[0] = {node} /\ \A k \in 1..N : f[k] = Along(rows, f[k - 1])
    BY SearchUnfold
  <1> SUFFICES ASSUME T # {} PROVE FALSE
    OBVIOUS
  <1>1. PICK m \in T : \A k \in T : m <= k
    <2>1. T \subseteq Nat
      OBVIOUS
    <2> HIDE DEF T
    <2> QED BY <2>1, LeastIndex
  <1>2. m \in 0..N /\ ~ Good(m)
    BY <1>1
  <1>3. m # 0
    <2>1. Cardinality({node}) = 1
      BY FS_Singleton
    <2>2. Good(0)
      BY <1>0, <2>1
    <2> QED BY <1>2, <2>2
  <1> DEFINE V == f[m - 1]
             W == f[m]
  <1>4. Good(m - 1) /\ W = Along(rows, V)
    <2>1. m - 1 \in 0..N /\ m - 1 \notin T
      BY <1>1, <1>2, <1>3
    <2> QED BY <1>0, <1>2, <1>3, <2>1
  <1>5. /\ V \subseteq LinkNode /\ node \in V /\ (W = V \/ Cardinality(V) >= (m - 1) + 1)
    BY <1>4
  <1> HIDE DEF T
  <1>6. V \subseteq W /\ W \subseteq LinkNode /\ node \in W
    <2>1. \A e \in rows : e.to \in LinkNode
      BY DEF LinkRow
    <2> QED BY <1>4, <1>5, <2>1 DEF Along
  <1>7. Along(rows, W) = W \/ Cardinality(W) >= m + 1
    <2>1. CASE W = V
      BY <1>4, <2>1
    <2>2. CASE W # V
      <3>1. IsFiniteSet(W) /\ IsFiniteSet(V)
        BY <1>5, <1>6, IssueAssumption, FS_Subset
      <3>2. Cardinality(V) < Cardinality(W)
        BY <1>6, <2>2, <3>1, FS_Subset, FS_CardinalityType
      <3>3. Cardinality(V) \in Nat /\ Cardinality(W) \in Nat
        BY <3>1, FS_CardinalityType
      <3> HIDE DEF V, W
      <3> QED BY <1>2, <1>5, <2>2, <3>2, <3>3
    <2> QED BY <2>1, <2>2
  <1> QED BY <1>2, <1>6, <1>7

(* What the search of would_create_cycle has seen is all there is to reach. *)
LEMMA ReachedClosed ==
    ASSUME links \subseteq LinkRow, NEW kind, NEW node \in LinkNode
    PROVE  /\ node \in Reached(kind, node)
           /\ \A e \in links : e.kind = kind /\ e.from \in Reached(kind, node)
                               => e.to \in Reached(kind, node)
  <1> DEFINE rows == {e \in links : e.kind = kind}
             N == Cardinality(LinkNode)
             Is(f) == f = [n \in 0..N |-> IF n = 0 THEN {node}
                              ELSE f[n - 1] \cup {e.to : e \in {g \in rows : g.from \in f[n - 1]}}]
             layer == CHOOSE f : Is(f)
  <1>1. N \in Nat /\ rows \subseteq LinkRow
    BY IssueAssumption, FS_CardinalityType
  <1>2. \E f : Is(f)
    <2>1. PICK f : IsSearch(f, rows, node, N)
      <3> HIDE DEF rows, N
      <3> QED BY <1>1, SearchExists
    <2>2. Is(f)
      BY <2>1 DEF IsSearch, Along
    <2> HIDE DEF Is
    <2> QED BY <2>2
  <1>3. Is(layer)
    <2> HIDE DEF Is
    <2> QED BY <1>2
  <1>4. Reached(kind, node) = layer[N]
    BY DEF Reached
  <1>5. IsSearch(layer, rows, node, N)
    <2> HIDE DEF layer
    <2> QED BY <1>3 DEF IsSearch, Along
  <1> HIDE DEF layer, Is
  <1> DEFINE R == layer[N]
  <1>6. R \subseteq LinkNode /\ node \in R /\ (Along(rows, R) = R \/ Cardinality(R) >= N + 1)
    <2>1. N \in 0..N
      BY <1>1
    <2> HIDE DEF rows, N
    <2> QED BY <1>1, <1>5, <2>1, SearchGrows
  <1>7. Cardinality(R) \in Nat /\ Cardinality(R) <= N
    <2> HIDE DEF R
    <2> QED BY <1>6, IssueAssumption, FS_Subset, FS_CardinalityType
  <1>8. Along(rows, R) = R
    BY <1>1, <1>6, <1>7
  <1> HIDE DEF R
  <1>9. \A e \in links : e.kind = kind /\ e.from \in R => e.to \in R
    BY <1>8 DEF Along
  <1> QED BY <1>4, <1>6, <1>9 DEF R

(* Every kind has a stored form, and canonical gives it. *)
LEMMA CanonicalRow ==
    ASSUME NEW node \in LinkNode, NEW other \in LinkNode, NEW kind \in LinkKind
    PROVE  LET edge == Canonical(node, kind, other)
           IN  /\ edge \in LinkRow
               /\ {edge.from, edge.to} = {node, other}
  <1>1. CASE kind \in DOMAIN PassiveOf
    <2>1. Canonical(node, kind, other) = [from |-> node, kind |-> kind, to |-> other]
      BY <1>1 DEF Canonical, IsCanonical
    <2> QED BY <1>1, <2>1 DEF LinkRow
  <1>2. CASE kind \notin DOMAIN PassiveOf
    <2>1. \E k \in DOMAIN PassiveOf : PassiveOf[k] = kind
      BY <1>2, IssueAssumption DEF MeshEdgeKind
    <2>2. InverseKind(kind) \in DOMAIN PassiveOf
      BY <1>2, <2>1 DEF InverseKind
    <2>3. Canonical(node, kind, other) = [from |-> other, kind |-> InverseKind(kind), to |-> node]
      BY <1>2 DEF Canonical, IsCanonical
    <2> QED BY <2>2, <2>3 DEF LinkRow
  <1> QED BY <1>1, <1>2
(* A row that does not close a loop leaves its relation without one: a      *)
(* closed set of nodes would meet what the search found in another one.     *)
LEMMA RowClosesNoLoop ==
    ASSUME links \subseteq LinkRow, NEW kind \in DOMAIN PassiveOf, NoLoop(kind, links),
           NEW edge \in LinkRow, edge.kind = kind,
           edge.from \notin Reached(kind, edge.to)
    PROVE  NoLoop(kind, links \cup {edge})
  <1> DEFINE R == Reached(kind, edge.to)
  <1>0. edge.from \in LinkNode /\ edge.to \in LinkNode /\ edge = Row1(edge.from, kind, edge.to)
    BY DEF LinkRow, Row1
  <1>1. edge.to \in R /\ edge.from \notin R
        /\ \A e \in links : e.kind = kind /\ e.from \in R => e.to \in R
    BY <1>0, ReachedClosed
  <1> HIDE DEF R
  <1>2. \A u, w \in LinkNode : Row1(u, kind, w) \in links /\ u \in R => w \in R
    BY <1>1 DEF Row1
  <1> SUFFICES ASSUME NEW S \in (SUBSET LinkNode) \ {{}},
                      \A u \in S : \E w \in S : Row1(u, kind, w) \in links \cup {edge}
               PROVE  FALSE
    BY DEF NoLoop
  <1>3. \A u, w : Row1(u, kind, w) = edge => u = edge.from /\ w = edge.to
    BY <1>0 DEF Row1
  <1>4. PICK u \in S : \A w \in S : Row1(u, kind, w) \notin links
    BY DEF NoLoop
  <1>5. edge.to \in S
    BY <1>3, <1>4
  <1>6. S \cap R \in (SUBSET LinkNode) \ {{}}
    BY <1>1, <1>5
  <1>7. PICK x \in S \cap R : \A w \in S \cap R : Row1(x, kind, w) \notin links
    BY <1>6 DEF NoLoop
  <1>8. PICK w \in S : Row1(x, kind, w) \in links \cup {edge}
    BY <1>7
  <1>9. x # edge.from /\ Row1(x, kind, w) \in links
    BY <1>1, <1>3, <1>7, <1>8
  <1>10. w \in R
    BY <1>2, <1>7, <1>8, <1>9
  <1> QED BY <1>7, <1>8, <1>9, <1>10

(* Storing a link keeps the rows canonical, single and without a loop. *)
LEMMA LinksStep ==
    ASSUME LinksInv, NEW x \in LinkNode, NEW y \in LinkNode, NEW k \in LinkKind,
           StoreLink(x, k, y)
    PROVE  LinksInv'
  <1> DEFINE edge == Canonical(x, k, y)
  <1>1. edge \in LinkRow /\ {edge.from, edge.to} = {x, y}
    BY CanonicalRow
  <1>2. /\ x # y /\ links' = links \cup {edge}
        /\ \A e \in links : ~ SameRelationship(e, edge)
        /\ ~ WouldCreateCycle(edge)
    BY DEF StoreLink
  <1> HIDE DEF edge
  <1>3. links' \subseteq LinkRow
    BY <1>1, <1>2 DEF LinksInv
  <1>4. ASSUME NEW e \in links', NEW f \in links', e.kind = "relates", f.kind = "relates",
               {e.from, e.to} = {f.from, f.to}
        PROVE  e = f
    <2>1. ASSUME NEW g \in links, g.kind = "relates", edge.kind = "relates",
                 {g.from, g.to} = {edge.from, edge.to}
          PROVE  FALSE
      <3>1. (g.from = edge.from /\ g.to = edge.to) \/ (g.from = edge.to /\ g.to = edge.from)
        BY <2>1
      <3> QED BY <1>2, <2>1, <3>1 DEF SameRelationship
    <2> QED BY <1>2, <1>4, <2>1 DEF LinksInv
  <1>5. ASSUME NEW kind \in DOMAIN PassiveOf \ {"relates"}
        PROVE  NoLoop(kind, links')
    <2>1. CASE edge.kind = kind
      <3>1. edge.from \notin Reached(kind, edge.to)
        BY <1>2, <1>5, <2>1 DEF WouldCreateCycle
      <3>2. NoLoop(kind, links) /\ links \subseteq LinkRow
        BY DEF LinksInv
      <3> QED BY <1>1, <1>2, <2>1, <3>1, <3>2, RowClosesNoLoop
    <2>2. CASE edge.kind # kind
      <3>1. \A u, w : Row1(u, kind, w) # edge
        BY <2>2 DEF Row1
      <3> QED BY <1>2, <3>1 DEF NoLoop, LinksInv
    <2> QED BY <2>1, <2>2
  <1> QED BY <1>3, <1>4, <1>5 DEF LinksInv

(* What the rows must satisfy follows: two nodes cannot hold each other in  *)
(* one relation, as the pair would be a closed set.                         *)
LEMMA LinksAreSound ==
    ASSUME LinksInv
    PROVE  LinksSound /\ links \subseteq MeshEdge
  <1>1. links \subseteq LinkRow
    BY DEF LinksInv
  <1>2. \A e \in links : IsCanonical(e.kind)
    BY <1>1 DEF LinkRow, IsCanonical
  <1>3. links \subseteq MeshEdge
    BY <1>1, IssueAssumption DEF LinkRow, MeshEdge, MeshEdgeKind
  <1>4. ASSUME NEW e \in links, NEW f \in links, e.kind # "relates", e.kind = f.kind,
               e.from = f.to, e.to = f.from
        PROVE  FALSE
    <2> DEFINE S == {e.from, e.to}
    <2>1. e \in LinkRow /\ f \in LinkRow
      BY <1>1
    <2>2. e = Row1(e.from, e.kind, e.to) /\ f = Row1(e.to, e.kind, e.from)
      BY <1>4, <2>1 DEF LinkRow, Row1
    <2>3. S \in (SUBSET LinkNode) \ {{}}
      BY <2>1 DEF LinkRow
    <2>4. e.kind \in DOMAIN PassiveOf \ {"relates"}
      BY <1>4, <2>1 DEF LinkRow
    <2>5. PICK u \in S : \A w \in S : Row1(u, e.kind, w) \notin links
      BY <2>3, <2>4 DEF LinksInv, NoLoop
    <2> QED BY <2>2, <2>5
  <1>5. \A kind \in {e.kind : e \in links} \ {"relates"} : NoLoop(kind, links)
    BY <1>1 DEF LinksInv, LinkRow
  <1> QED BY <1>2, <1>3, <1>4, <1>5 DEF LinksSound, LinksInv, NoLoop, Row1
(* The histories.  A history has each commit once, after its parent. *)
Ids(commits) == {commits[i].id : i \in DOMAIN commits}

History(commits) ==
    /\ commits \in Seq(IssueCommit)
    /\ \A i, j \in DOMAIN commits : commits[i].id = commits[j].id => i = j
    /\ \A i \in DOMAIN commits :
          commits[i].parent # NoParent => \E j \in 1..(i - 1) : commits[j].id = commits[i].parent

(* A commit that is new to a history which holds its parent continues it. *)
LEMMA HistoryGrows ==
    ASSUME NEW h, History(h), NEW c \in IssueCommit, c.id \notin Ids(h),
           c.parent # NoParent => c.parent \in Ids(h)
    PROVE  History(Append(h, c)) /\ Ids(Append(h, c)) = Ids(h) \cup {c.id}
  <1> DEFINE g == Append(h, c)
             n == Len(h)
  <1>1. h \in Seq(IssueCommit) /\ n \in Nat /\ DOMAIN h = 1..n
    BY DEF History
  <1>2. /\ g \in Seq(IssueCommit) /\ DOMAIN g = 1..(n + 1)
        /\ g[n + 1] = c /\ \A i \in 1..n : g[i] = h[i]
    BY <1>1
  <1> HIDE DEF g, n
  <1>3. Ids(g) = Ids(h) \cup {c.id}
    <2>1. ASSUME NEW z \in Ids(g) PROVE z \in Ids(h) \cup {c.id}
      BY <1>1, <1>2 DEF Ids
    <2>2. ASSUME NEW z \in Ids(h) PROVE z \in Ids(g)
      <3>1. PICK i \in 1..n : z = h[i].id
        BY <1>1 DEF Ids
      <3>2. i \in DOMAIN g /\ z = g[i].id
        BY <1>1, <1>2, <3>1
      <3> QED BY <3>2 DEF Ids
    <2>3. c.id \in Ids(g)
      <3>1. n + 1 \in DOMAIN g /\ g[n + 1].id = c.id
        BY <1>1, <1>2
      <3> QED BY <3>1 DEF Ids
    <2> QED BY <2>1, <2>2, <2>3
  <1>4. \A i \in 1..n : h[i].id # c.id
    BY <1>1 DEF Ids
  <1>5. ASSUME NEW i \in DOMAIN g, NEW j \in DOMAIN g, g[i].id = g[j].id
        PROVE  i = j
    <2>1. CASE i \in 1..n /\ j \in 1..n
      BY <1>1, <1>2, <1>5, <2>1 DEF History
    <2>2. CASE i = n + 1
      BY <1>1, <1>2, <1>4, <1>5, <2>2
    <2>3. CASE j = n + 1
      BY <1>1, <1>2, <1>4, <1>5, <2>3
    <2> QED BY <1>1, <1>2, <2>1, <2>2, <2>3
  <1>6. ASSUME NEW i \in DOMAIN g, g[i].parent # NoParent
        PROVE  \E j \in 1..(i - 1) : g[j].id = g[i].parent
    <2>1. CASE i \in 1..n
      <3>1. PICK j \in 1..(i - 1) : h[j].id = h[i].parent
        BY <1>1, <1>2, <1>6, <2>1 DEF History
      <3>2. g[j] = h[j] /\ g[i] = h[i]
        BY <1>1, <1>2, <2>1, <3>1
      <3> QED BY <3>1, <3>2
    <2>2. CASE i = n + 1
      <3>1. c.parent \in Ids(h)
        BY <1>2, <1>6, <2>2
      <3>2. PICK j \in 1..n : h[j].id = c.parent
        BY <1>1, <3>1 DEF Ids
      <3>3. j \in 1..(i - 1) /\ g[j].id = g[i].parent
        BY <1>1, <1>2, <2>2, <3>2
      <3> QED BY <3>3
    <2> QED BY <1>1, <1>2, <2>1, <2>2
  <1> QED BY <1>2, <1>3, <1>5, <1>6 DEF History, g

(* What the loop of semantic_merge has pushed after each round. *)
IsPushed(f, target, source, N) ==
    f = [n \in 0..N |-> IF n = 0 THEN target
                        ELSE IF source[n].id \in Ids(target) THEN f[n - 1]
                        ELSE Append(f[n - 1], source[n])]

(* The loop computes something for every source. *)
LEMMA PushedExists ==
    ASSUME NEW target \in Seq(IssueCommit), NEW source \in Seq(IssueCommit)
    PROVE  \E f : IsPushed(f, target, source, Len(source))
  <1> DEFINE N == Len(source)
             X == Seq(IssueCommit)
             Pushed(n, h) == IF source[n].id \in Ids(target) THEN h ELSE Append(h, source[n])
             G == [p \in Nat \X X |-> IF p[1] \in 1..N THEN Pushed(p[1], p[2]) ELSE p[2]]
  <1>1. N \in Nat /\ \A n \in 1..N : source[n] \in IssueCommit
    OBVIOUS
  <1>2. G \in [Nat \X X -> X]
    <2>1. ASSUME NEW n \in 1..N, NEW h \in X PROVE Pushed(n, h) \in X
      BY <1>1, <2>1
    <2>2. ASSUME NEW p \in Nat \X X
          PROVE  (IF p[1] \in 1..N THEN Pushed(p[1], p[2]) ELSE p[2]) \in X
      <3>1. p[2] \in X
        OBVIOUS
      <3> HIDE DEF X, Pushed, N
      <3> QED BY <2>1, <3>1
    <2> HIDE DEF X, Pushed, N
    <2> QED BY <2>2
  <1>3. \A n \in 1..N, h \in X : G[<<n, h>>] = Pushed(n, h)
    <2> HIDE DEF X, Pushed
    <2> QED BY <1>1
  <1>4. target \in X
    OBVIOUS
  <1> HIDE DEF X, G
  <1>5. PICK f : IsIteration(f, X, target, G, N)
    <2> HIDE DEF N
    <2> QED BY <1>1, <1>2, <1>4, IterationExists
  <1>6. ASSUME NEW n \in 0..N
        PROVE  f[n] = IF n = 0 THEN target ELSE Pushed(n, f[n - 1])
    <2> HIDE DEF N, Pushed
    <2>1. n # 0 => n \in 1..N /\ n - 1 \in 0..N
      BY <1>1
    <2> QED BY <1>3, <1>5, <2>1 DEF IsIteration
  <1>7. f = [n \in 0..N |-> f[n]]
    BY <1>5 DEF IsIteration
  <1>8. f = [n \in 0..N |-> IF n = 0 THEN target ELSE Pushed(n, f[n - 1])]
    <2> HIDE DEF N, Pushed
    <2> QED BY <1>6, <1>7
  <1> QED BY <1>8 DEF IsPushed

(* A merge of two histories is a history with the commits of both, although *)
(* the loop compares with what the target had before it started.            *)
LEMMA MergedIsHistory ==
    ASSUME NEW target, History(target), NEW source, History(source)
    PROVE  /\ History(Merged(target, source))
           /\ Ids(Merged(target, source)) = Ids(target) \cup Ids(source)
  <1> DEFINE N == Len(source)
             pushed == CHOOSE f : IsPushed(f, target, source, N)
  <1>1. /\ target \in Seq(IssueCommit) /\ source \in Seq(IssueCommit)
        /\ N \in Nat /\ DOMAIN source = 1..N
    BY DEF History
  <1>2. Merged(target, source) = pushed[N]
    BY DEF Merged, IsPushed, Ids
  <1>3. IsPushed(pushed, target, source, N)
    BY <1>1, PushedExists
  <1> HIDE DEF pushed
  <1>4. /\ pushed[0] = target
        /\ \A n \in 1..N : pushed[n] = IF source[n].id \in Ids(target) THEN pushed[n - 1]
                                       ELSE Append(pushed[n - 1], source[n])
    <2> DEFINE g == [n \in 0..N |-> IF n = 0 THEN target
                        ELSE IF source[n].id \in Ids(target) THEN pushed[n - 1]
                        ELSE Append(pushed[n - 1], source[n])]
    <2> HIDE DEF N
    <2>1. \A n \in 0..N : g[n] = IF n = 0 THEN target
                        ELSE IF source[n].id \in Ids(target) THEN pushed[n - 1]
                        ELSE Append(pushed[n - 1], source[n])
      OBVIOUS
    <2>2. pushed = g
      BY <1>3 DEF IsPushed
    <2> HIDE DEF g
    <2>3. \A n \in 0..N : pushed[n] = IF n = 0 THEN target
                        ELSE IF source[n].id \in Ids(target) THEN pushed[n - 1]
                        ELSE Append(pushed[n - 1], source[n])
      BY <2>1, <2>2
    <2> QED BY <1>1, <2>3
  <1> DEFINE Seen(n) == {source[i].id : i \in 1..n}
             Good(n) == History(pushed[n]) /\ Ids(pushed[n]) = Ids(target) \cup Seen(n)
             T == {n \in 0..N : ~ Good(n)}
  <1>5. T = {}
    <2> SUFFICES ASSUME T # {} PROVE FALSE
      OBVIOUS
    <2>1. PICK m \in T : \A k \in T : m <= k
      <3>1. T \subseteq Nat
        OBVIOUS
      <3> HIDE DEF T
      <3> QED BY <3>1, LeastIndex
    <2>2. m \in 0..N /\ ~ Good(m)
      BY <2>1
    <2>3. m # 0
      <3>1. Seen(0) = {}
        OBVIOUS
      <3>2. Good(0)
        BY <1>4, <3>1
      <3> QED BY <2>2, <3>2
    <2>4. m \in 1..N /\ Good(m - 1)
      <3>1. m - 1 \in 0..N /\ m - 1 \notin T
        BY <1>1, <2>1, <2>2, <2>3
      <3> QED BY <1>1, <2>2, <2>3, <3>1
    <2> HIDE DEF T, N
    <2> DEFINE c == source[m]
    <2>5. Seen(m) = Seen(m - 1) \cup {c.id}
      <3>1. 1..m = 1..(m - 1) \cup {m}
        BY <2>4, <1>1
      <3> QED BY <3>1
    <2>6. c \in IssueCommit /\ c.id \notin Seen(m - 1)
          /\ (c.parent # NoParent => c.parent \in Seen(m - 1))
      <3>1. c \in IssueCommit
        BY <1>1, <2>4 DEF N
      <3>2. \A i \in 1..(m - 1) : i \in DOMAIN source /\ m \in DOMAIN source /\ i # m
        BY <1>1, <2>4
      <3>3. c.id \notin Seen(m - 1)
        BY <3>2 DEF History
      <3>4. c.parent # NoParent => c.parent \in Seen(m - 1)
        BY <1>1, <2>4 DEF History
      <3> QED BY <3>1, <3>3, <3>4
    <2> HIDE DEF c, Seen
    <2>7. CASE c.id \in Ids(target)
      <3>1. pushed[m] = pushed[m - 1]
        BY <1>4, <2>4, <2>7 DEF c
      <3> QED BY <2>2, <2>4, <2>5, <2>7, <3>1
    <2>8. CASE c.id \notin Ids(target)
      <3>1. pushed[m] = Append(pushed[m - 1], c)
        BY <1>4, <2>4, <2>8 DEF c
      <3>2. c.id \notin Ids(pushed[m - 1]) /\ (c.parent # NoParent => c.parent \in Ids(pushed[m - 1]))
        BY <2>4, <2>6, <2>8
      <3>3. History(pushed[m]) /\ Ids(pushed[m]) = Ids(pushed[m - 1]) \cup {c.id}
        BY <2>4, <2>6, <3>1, <3>2, HistoryGrows
      <3> QED BY <2>2, <2>4, <2>5, <3>3
    <2> QED BY <2>7, <2>8
  <1>6. Good(N)
    BY <1>1, <1>5
  <1>7. Seen(N) = Ids(source)
    BY <1>1 DEF Ids
  <1> QED BY <1>2, <1>6, <1>7
(* What the operations on the issue keep: every branch is a history of      *)
(* commits whose ids were drawn before.                                     *)
IssueEntry == {"checkout", "create", "commit", "merge"} \X (BranchName \cup Nat)

Branches == UNION {[D -> Seq(IssueCommit)] : D \in SUBSET BranchName}

Drawn(commits, n) == History(commits) /\ \A z \in Ids(commits) : z <= n

IssueInv ==
    /\ issue \in [branches : Branches, current : BranchName, ledger : Seq(IssueEntry)]
    /\ issue.current \in DOMAIN issue.branches
    /\ \A b \in DOMAIN issue.branches : Drawn(issue.branches[b], drawn)
    /\ drawn \in Nat
    /\ LinksInv

(* A step on the issue writes one branch and adds one entry to the log.     *)
LEMMA BranchWritten ==
    ASSUME NEW branches \in Branches, NEW b \in BranchName, NEW commits \in Seq(IssueCommit)
    PROVE  /\ [c \in DOMAIN branches \cup {b} |-> IF c = b THEN commits ELSE branches[c]] \in Branches
           /\ b \in DOMAIN branches => [branches EXCEPT ![b] = commits] \in Branches
  <1>1. PICK D \in SUBSET BranchName : branches \in [D -> Seq(IssueCommit)]
    BY DEF Branches
  <1>2. [c \in DOMAIN branches \cup {b} |-> IF c = b THEN commits ELSE branches[c]]
           \in [D \cup {b} -> Seq(IssueCommit)]
    BY <1>1
  <1>3. b \in DOMAIN branches => [branches EXCEPT ![b] = commits] \in [D -> Seq(IssueCommit)]
    BY <1>1
  <1>4. D \cup {b} \in SUBSET BranchName
    BY <1>1
  <1> QED BY <1>1, <1>2, <1>3, <1>4 DEF Branches

(* Every operation on the issue and every link stored keeps the invariant. *)
LEMMA IssueStep == IssueInv /\ [IssueNext \/ LinkNext]_issueVars => IssueInv'
  <1> SUFFICES ASSUME IssueInv, [IssueNext \/ LinkNext]_issueVars PROVE IssueInv'
    OBVIOUS
  <1> DEFINE branches == issue.branches
             current == issue.current
             entries == issue.ledger
  <1>1. /\ issue = [branches |-> branches, current |-> current, ledger |-> entries]
        /\ branches \in Branches /\ current \in BranchName /\ entries \in Seq(IssueEntry)
        /\ current \in DOMAIN branches /\ DOMAIN branches \subseteq BranchName
        /\ drawn \in Nat /\ LinksInv
        /\ \A b \in DOMAIN branches : Drawn(branches[b], drawn)
    BY DEF IssueInv, Branches
  <1>2. ASSUME NEW kind \in {"checkout", "create", "commit", "merge"}, NEW z \in BranchName \cup Nat
        PROVE  Append(entries, <<kind, z>>) \in Seq(IssueEntry)
    <2>1. <<kind, z>> \in IssueEntry
      BY DEF IssueEntry
    <2> HIDE DEF entries
    <2> QED BY <1>1, <2>1
  <1>3. ASSUME NEW b \in DOMAIN branches PROVE branches[b] \in Seq(IssueCommit)
    BY <1>1 DEF Drawn, History
  <1>4. ASSUME links' = links PROVE LinksInv'
    BY <1>1, <1>4 DEF LinksInv, NoLoop
  <1>5. ASSUME NEW nb \in Branches, NEW nc \in BranchName, NEW nl \in Seq(IssueEntry),
               issue' = [branches |-> nb, current |-> nc, ledger |-> nl],
               nc \in DOMAIN nb, drawn' \in Nat, links' = links,
               \A b \in DOMAIN nb : Drawn(nb[b], drawn')
        PROVE  IssueInv'
    BY <1>4, <1>5 DEF IssueInv
  <1>6. ASSUME NEW b \in BranchName, Checkout(b) PROVE IssueInv'
    <2> DEFINE nl == Append(entries, <<"checkout", b>>)
    <2>1. nl \in Seq(IssueEntry)
      BY <1>2
    <2>2. b \in DOMAIN branches /\ drawn' = drawn /\ links' = links
      BY <1>6 DEF Checkout
    <2>3. issue' = [issue EXCEPT !.current = b, !.ledger = nl]
      BY <1>6 DEF Checkout, Logged
    <2> HIDE DEF nl, branches, current, entries
    <2>4. issue' = [branches |-> branches, current |-> b, ledger |-> nl]
      BY <1>1, <2>3
    <2> QED BY <1>1, <1>5, <2>1, <2>2, <2>4
  <1>7. ASSUME NEW b \in BranchName, CreateIssueBranch(b) PROVE IssueInv'
    <2> DEFINE nl == Append(entries, <<"create", b>>)
               old == branches[current]
               nb == [c \in DOMAIN branches \cup {b} |-> IF c = b THEN old ELSE branches[c]]
    <2>1. nl \in Seq(IssueEntry)
      BY <1>2
    <2>2. drawn' = drawn /\ links' = links
      BY <1>7 DEF CreateIssueBranch
    <2>3. issue' = [issue EXCEPT !.branches = nb, !.ledger = nl]
      BY <1>7 DEF CreateIssueBranch, Logged, BranchCommits, CurrentCommits
    <2>4. nb \in Branches
      <3> HIDE DEF branches, current
      <3> QED BY <1>1, <1>3, BranchWritten
    <2>5. current \in DOMAIN nb /\ \A c \in DOMAIN nb : Drawn(nb[c], drawn)
      <3> HIDE DEF branches, current
      <3> QED BY <1>1
    <2> HIDE DEF nl, nb, branches, current, entries
    <2>6. issue' = [branches |-> nb, current |-> current, ledger |-> nl]
      BY <1>1, <2>3
    <2> QED BY <1>1, <1>5, <2>1, <2>2, <2>4, <2>5, <2>6
  <1>8. ASSUME Commit PROVE IssueInv'
    <2> DEFINE old == branches[current]
               new == [id |-> drawn + 1, parent |-> LatestCommit]
               written == Append(old, new)
               nb == [branches EXCEPT ![current] = written]
               nl == Append(entries, <<"commit", drawn + 1>>)
    <2>1. nl \in Seq(IssueEntry)
      <3>1. drawn + 1 \in BranchName \cup Nat
        BY <1>1
      <3> HIDE DEF nl
      <3> QED BY <1>2, <3>1 DEF nl
    <2>2. drawn' = drawn + 1 /\ links' = links /\ drawn' \in Nat
      BY <1>1, <1>8 DEF Commit
    <2>3. issue' = [issue EXCEPT !.branches[issue.current] = written, !.ledger = nl]
      BY <1>1, <1>8 DEF Commit, Logged
    <2>4. Drawn(old, drawn) /\ old \in Seq(IssueCommit)
      BY <1>1, <1>3
    <2>5. LatestCommit \in Nat /\ (LatestCommit # NoParent => LatestCommit \in Ids(old))
      <3>1. CASE old = <<>>
        BY <3>1 DEF LatestCommit, CurrentCommits, NoParent
      <3>2. CASE old # <<>>
        <4>1. Len(old) \in DOMAIN old /\ old[Len(old)] \in IssueCommit
          BY <2>4, <3>2
        <4>2. LatestCommit = old[Len(old)].id
          BY <3>2 DEF LatestCommit, CurrentCommits
        <4> HIDE DEF old
        <4> QED BY <4>1, <4>2 DEF Ids, IssueCommit
      <3> QED BY <3>1, <3>2
    <2>6. /\ new \in IssueCommit /\ new.id = drawn + 1 /\ new.parent = LatestCommit
      BY <1>1, <2>5 DEF IssueCommit
    <2> HIDE DEF old, new
    <2>7. new.id \notin Ids(old)
      BY <1>1, <2>4, <2>6 DEF Drawn
    <2>8. History(written) /\ Ids(written) = Ids(old) \cup {drawn + 1}
      BY <2>4, <2>5, <2>6, <2>7, HistoryGrows DEF Drawn
    <2> HIDE DEF written
    <2>9. ASSUME NEW h, History(h), \A z \in Ids(h) : z <= drawn PROVE Drawn(h, drawn + 1)
      <3>1. ASSUME NEW i \in DOMAIN h PROVE h[i].id \in Nat
        <4>1. h \in Seq(IssueCommit)
          BY <2>9 DEF History
        <4>2. h[i] \in IssueCommit
          BY <3>1, <4>1
        <4> QED BY <4>2 DEF IssueCommit
      <3>2. Ids(h) \subseteq Nat
        BY <3>1 DEF Ids
      <3> QED BY <1>1, <2>9, <3>2 DEF Drawn
    <2>10. Drawn(written, drawn + 1)
      <3>1. Drawn(old, drawn + 1)
        BY <2>4, <2>9 DEF Drawn
      <3> QED BY <1>1, <2>8, <3>1 DEF Drawn
    <2>11. nb \in Branches
      <3>1. written \in Seq(IssueCommit)
        BY <2>8 DEF History
      <3> HIDE DEF branches, current
      <3> QED BY <1>1, <3>1, BranchWritten
    <2>12. current \in DOMAIN nb /\ \A c \in DOMAIN nb : Drawn(nb[c], drawn + 1)
      <3> HIDE DEF branches, current
      <3>1. \A c \in DOMAIN branches : Drawn(branches[c], drawn + 1)
        BY <1>1, <2>9 DEF Drawn
      <3>2. DOMAIN nb = DOMAIN branches
        OBVIOUS
      <3>3. \A c \in DOMAIN branches : nb[c] = IF c = current THEN written ELSE branches[c]
        OBVIOUS
      <3> HIDE DEF nb
      <3> QED BY <1>1, <2>10, <3>1, <3>2, <3>3
    <2> HIDE DEF nl
    <2>13. issue' = [branches |-> nb, current |-> current, ledger |-> nl]
      BY <1>1, <2>3
    <2> HIDE DEF nb, branches, current, entries
    <2> QED BY <1>1, <1>5, <2>1, <2>2, <2>11, <2>12, <2>13
  <1>9. ASSUME NEW t \in DOMAIN issue.branches, NEW s \in DOMAIN issue.branches,
               SemanticMerge(t, s)
        PROVE  IssueInv'
    <2> DEFINE written == Merged(branches[t], branches[s])
               nb == [branches EXCEPT ![t] = written]
               nl == Append(entries, <<"merge", s>>)
    <2>1. nl \in Seq(IssueEntry)
      BY <1>1, <1>2
    <2>2. drawn' = drawn /\ links' = links
      BY <1>9 DEF SemanticMerge
    <2>3. issue' = [issue EXCEPT !.branches[t] = written, !.ledger = nl]
      BY <1>9 DEF SemanticMerge, Logged
    <2>4. History(written) /\ Ids(written) = Ids(branches[t]) \cup Ids(branches[s])
      BY <1>1, MergedIsHistory DEF Drawn
    <2> HIDE DEF written
    <2>5. Drawn(written, drawn) /\ written \in Seq(IssueCommit)
      BY <1>1, <2>4 DEF Drawn, History
    <2>6. nb \in Branches
      <3>1. t \in DOMAIN branches
        OBVIOUS
      <3> HIDE DEF branches
      <3> QED BY <1>1, <2>5, <3>1, BranchWritten
    <2>7. current \in DOMAIN nb /\ \A c \in DOMAIN nb : Drawn(nb[c], drawn)
      <3> HIDE DEF branches, current
      <3> QED BY <1>1, <2>5
    <2> HIDE DEF nl
    <2>8. issue' = [branches |-> nb, current |-> current, ledger |-> nl]
      BY <1>1, <2>3
    <2> HIDE DEF nb, branches, current, entries
    <2> QED BY <1>1, <1>5, <2>1, <2>2, <2>6, <2>7, <2>8
  <1>10. ASSUME NEW x \in LinkNode, NEW y \in LinkNode, NEW k \in LinkKind, StoreLink(x, k, y)
         PROVE  IssueInv'
    <2>1. LinksInv'
      BY <1>1, <1>10, LinksStep
    <2>2. issue' = issue /\ drawn' = drawn
      BY <1>10 DEF StoreLink
    <2> QED BY <2>1, <2>2 DEF IssueInv
  <1>11. ASSUME UNCHANGED issueVars PROVE IssueInv'
    BY <1>4, <1>11 DEF IssueInv, issueVars
  <1> HIDE DEF branches, current, entries
  <1> QED BY <1>6, <1>7, <1>8, <1>9, <1>10, <1>11 DEF IssueNext, LinkNext

(* The issue graph keeps its promises: branches that are created, extended  *)
(* and merged into one another in any order remain histories in which every *)
(* commit occurs once and after its parent (create_branch, commit,          *)
(* semantic_merge), and the links that the store keeps have one canonical   *)
(* row each and close no cycle (canonical, same_relationship,               *)
(* would_create_cycle), whatever the nodes, kinds, branches and bounds.     *)
THEOREM IssueGraphIsSound == IssueSpec => [](IssueTypeOK /\ IssueGraphSound)
  <1>1. IssueInit => IssueInv
    <2> SUFFICES ASSUME IssueInit PROVE IssueInv
      OBVIOUS
    <2> DEFINE first == [b \in {"main"} |-> <<>>]
    <2>1. issue = [branches |-> first, current |-> "main", ledger |-> <<>>] /\ drawn = 0 /\ links = {}
      BY DEF IssueInit
    <2>2. first \in [{"main"} -> Seq(IssueCommit)] /\ {"main"} \in SUBSET BranchName
      BY IssueAssumption
    <2>3. first \in Branches
      BY <2>2 DEF Branches
    <2>4. DOMAIN first = {"main"} /\ \A b \in DOMAIN first : first[b] = <<>>
      OBVIOUS
    <2> HIDE DEF first
    <2>5. Drawn(<<>>, 0)
      BY DEF Drawn, History, Ids
    <2>6. LinksInv
      BY <2>1 DEF LinksInv, NoLoop
    <2> QED BY <2>1, <2>3, <2>4, <2>5, <2>6, IssueAssumption DEF IssueInv
  <1>2. IssueInv => IssueTypeOK /\ IssueGraphSound
    <2> SUFFICES ASSUME IssueInv PROVE IssueTypeOK /\ IssueGraphSound
      OBVIOUS
    <2>1. LinksSound /\ links \subseteq MeshEdge
      BY LinksAreSound DEF IssueInv
    <2>2. HistoriesClosed
      BY DEF IssueInv, HistoriesClosed, Drawn, History
    <2>3. \A b \in DOMAIN issue.branches : issue.branches[b] \in Seq(IssueCommit)
      BY DEF IssueInv, Drawn, History
    <2>4. DOMAIN issue.branches \subseteq BranchName
      BY DEF IssueInv, Branches
    <2>5. \A n \in DOMAIN issue.ledger :
             issue.ledger[n][1] \in {"checkout", "create", "commit", "merge"}
      BY DEF IssueInv, IssueEntry
    <2>6. IssueTypeOK
      BY <2>1, <2>3, <2>4, <2>5 DEF IssueTypeOK, IssueRecord, IssueInv
    <2> QED BY <2>1, <2>2, <2>6 DEF IssueGraphSound
  <1> QED BY <1>1, <1>2, IssueStep, PTL DEF IssueSpec

-----------------------------------------------------------------------------
(* In a finite total order R of S every rank below the size is taken: the   *)
(* rank is an injection into as many numbers as there are elements.         *)
Below(S, R, u) == {w \in S : <<w, u>> \in R}

IsTotalOrder(S, R) ==
    /\ \A u \in S : <<u, u>> \notin R
    /\ \A u, v, w \in S : <<u, v>> \in R /\ <<v, w>> \in R => <<u, w>> \in R
    /\ \A u, v \in S : u # v => <<u, v>> \in R \/ <<v, u>> \in R

(* Who comes later has the higher rank, and ranks are below the size. *)
LEMMA RankGrows ==
    ASSUME NEW S, IsFiniteSet(S), NEW R, IsTotalOrder(S, R), NEW u \in S
    PROVE  /\ Cardinality(Below(S, R, u)) \in 0..(Cardinality(S) - 1)
           /\ \A w \in S : <<u, w>> \in R =>
                 Cardinality(Below(S, R, u)) < Cardinality(Below(S, R, w))
  <1>1. \A w \in S : Below(S, R, w) \in SUBSET S /\ IsFiniteSet(Below(S, R, w))
                     /\ Cardinality(Below(S, R, w)) \in Nat
    BY FS_Subset, FS_CardinalityType DEF Below
  <1>2. Cardinality(S) \in Nat
    BY FS_CardinalityType
  <1>3. Cardinality(Below(S, R, u)) <= Cardinality(S) /\ Cardinality(Below(S, R, u)) # Cardinality(S)
    <2>1. Below(S, R, u) # S
      BY DEF Below, IsTotalOrder
    <2> QED BY <1>1, <2>1, FS_Subset
  <1>4. ASSUME NEW w \in S, <<u, w>> \in R
        PROVE  Cardinality(Below(S, R, u)) < Cardinality(Below(S, R, w))
    <2>1. Below(S, R, u) \in SUBSET Below(S, R, w) /\ u \in Below(S, R, w) /\ u \notin Below(S, R, u)
      BY <1>4 DEF Below, IsTotalOrder
    <2> DEFINE A == Below(S, R, u)
               B == Below(S, R, w)
    <2>2. IsFiniteSet(B) /\ Cardinality(A) \in Nat /\ Cardinality(B) \in Nat
      BY <1>1
    <2> HIDE DEF A, B
    <2>3. Cardinality(A) <= Cardinality(B) /\ Cardinality(A) # Cardinality(B)
      BY <2>1, <2>2, FS_Subset DEF A, B
    <2> QED BY <2>2, <2>3 DEF A, B
  <1> QED BY <1>1, <1>2, <1>3, <1>4

(* Every rank below the size is taken. *)
LEMMA RankOnto ==
    ASSUME NEW S, IsFiniteSet(S), NEW R, IsTotalOrder(S, R), NEW i \in 0..(Cardinality(S) - 1)
    PROVE  \E u \in S : Cardinality(Below(S, R, u)) = i
  <1> DEFINE N == Cardinality(S)
             Rank == 0..(N - 1)
             rank == [u \in S |-> Cardinality(Below(S, R, u))]
  <1>1. N \in Nat
    BY FS_CardinalityType
  <1>2. IsFiniteSet(Rank) /\ Cardinality(Rank) = N
    BY <1>1, FS_Interval
  <1>3. rank \in [S -> Rank]
    BY RankGrows
  <1>4. ASSUME NEW u \in S, NEW w \in S, rank[u] = rank[w] PROVE u = w
    <2> SUFFICES ASSUME u # w PROVE FALSE
      OBVIOUS
    <2>1. rank[u] < rank[w] \/ rank[w] < rank[u]
      BY RankGrows DEF IsTotalOrder
    <2>2. rank[u] \in Int /\ rank[w] \in Int
      BY <1>3
    <2> HIDE DEF rank
    <2> QED BY <1>4, <2>1, <2>2
  <1> HIDE DEF rank, Rank, N
  <1>5. rank \in Injection(S, Rank)
    BY <1>3, <1>4, Fun_IsInj
  <1>6. rank \in Surjection(S, Rank)
    BY <1>2, <1>5, FS_Injection DEF N
  <1>7. i \in Rank
    BY DEF Rank, N
  <1>8. PICK u \in S : rank[u] = i
    BY <1>6, <1>7, Fun_SurjectionProperties
  <1> QED BY <1>8 DEF rank

(* As many elements have a rank of k or more as the size exceeds k.         *)
LEMMA TopOfOrder ==
    ASSUME NEW S, IsFiniteSet(S), NEW R, IsTotalOrder(S, R), NEW k \in 0..Cardinality(S)
    PROVE  LET top == {u \in S : Cardinality(Below(S, R, u)) >= k}
           IN  IsFiniteSet(top) /\ Cardinality(top) = Cardinality(S) - k
  <1> DEFINE N == Cardinality(S)
             rank(u) == Cardinality(Below(S, R, u))
             top == {u \in S : rank(u) >= k}
             Q == k..(N - 1)
             f == [u \in top |-> rank(u)]
  <1>1. N \in Nat /\ k \in Nat /\ k <= N
    BY FS_CardinalityType
  <1>2. \A u \in S : rank(u) \in 0..(N - 1)
    BY RankGrows
  <1>3. ASSUME NEW u \in S, NEW w \in S, rank(u) = rank(w) PROVE u = w
    <2> SUFFICES ASSUME u # w PROVE FALSE
      OBVIOUS
    <2>1. rank(u) < rank(w) \/ rank(w) < rank(u)
      BY RankGrows DEF IsTotalOrder
    <2>2. rank(u) \in Int /\ rank(w) \in Int
      BY <1>2
    <2> HIDE DEF rank
    <2> QED BY <1>3, <2>1, <2>2
  <1>4. \A i \in 0..(N - 1) : \E u \in S : rank(u) = i
    BY RankOnto
  <1>5. IsFiniteSet(top)
    BY FS_Subset
  <1> HIDE DEF rank
  <1>6. f \in [top -> Q]
    BY <1>1, <1>2
  <1>7. \A a, b \in top : f[a] = f[b] => a = b
    BY <1>3
  <1>8. \A t \in Q : \E s \in top : f[s] = t
    <2> TAKE t \in Q
    <2>1. t \in 0..(N - 1) /\ t >= k
      BY <1>1
    <2>2. PICK u \in S : rank(u) = t
      BY <1>4, <2>1
    <2>3. u \in top /\ f[u] = t
      BY <2>1, <2>2
    <2> QED BY <2>3
  <1> HIDE DEF f, top, Q
  <1>9. f \in Bijection(top, Q)
    BY <1>6, <1>7, <1>8, Fun_IsBij
  <1>10. ExistsBijection(top, Q)
    BY <1>9, Fun_ExistsBij
  <1>11. Cardinality(Q) = Cardinality(top)
    BY <1>5, <1>10, FS_Bijection
  <1>12. Cardinality(Q) = N - k
    <2>1. k \in Int /\ N - 1 \in Int
      BY <1>1
    <2>2. Cardinality(k..(N - 1)) = IF k > N - 1 THEN 0 ELSE (N - 1) - k + 1
      BY <2>1, FS_Interval
    <2> QED BY <1>1, <2>2 DEF Q
  <1> QED BY <1>5, <1>11, <1>12 DEF top, rank

-----------------------------------------------------------------------------
(* Agent memory.  The index holds one entry of each id.                     *)
OneOfEachId(entries) == \A e, f \in entries : e.id = f.id => e = f

(* The entries by age; the ids break the ties.                              *)
AgeOrder(S) == {q \in S \X S : Older(q[1], q[2])}

(* The order by age is total, and an entry's rank counts the older ones. *)
LEMMA AgeIsTotal ==
    ASSUME NEW S, S \subseteq MemoryEntry, OneOfEachId(S)
    PROVE  /\ IsTotalOrder(S, AgeOrder(S))
           /\ \A u, v \in S : <<u, v>> \in AgeOrder(S) <=> Older(u, v)
           /\ \A u \in S : Below(S, AgeOrder(S), u) = {f \in S : Older(f, u)}
  <1> DEFINE R == AgeOrder(S)
  <1>1. \A u, v \in S : <<u, v>> \in R <=> Older(u, v)
    BY DEF AgeOrder
  <1>2. \A u \in S : u.created \in Nat /\ u.id \in Nat
    BY DEF MemoryEntry
  <1> HIDE DEF R
  <1>3. \A u \in S : <<u, u>> \notin R
    BY <1>1, <1>2 DEF Older
  <1>4. \A u, v, w \in S : <<u, v>> \in R /\ <<v, w>> \in R => <<u, w>> \in R
    <2> TAKE u, v, w \in S
    <2>1. /\ u.created \in Nat /\ u.id \in Nat /\ v.created \in Nat /\ v.id \in Nat
          /\ w.created \in Nat /\ w.id \in Nat
      BY <1>2
    <2>2. Older(u, v) /\ Older(v, w) => Older(u, w)
      BY <2>1 DEF Older
    <2> QED BY <1>1, <2>2
  <1>5. \A u, v \in S : u # v => <<u, v>> \in R \/ <<v, u>> \in R
    <2> SUFFICES ASSUME NEW u \in S, NEW v \in S, u # v PROVE Older(u, v) \/ Older(v, u)
      BY <1>1
    <2>1. u.created \in Nat /\ u.id \in Nat /\ v.created \in Nat /\ v.id \in Nat /\ u.id # v.id
      BY <1>2 DEF OneOfEachId
    <2> QED BY <2>1 DEF Older
  <1>6. \A u \in S : Below(S, R, u) = {f \in S : Older(f, u)}
    BY <1>1 DEF Below
  <1> QED BY <1>1, <1>3, <1>4, <1>5, <1>6 DEF R, IsTotalOrder

FitsPolicy(e, p, at) ==
    /\ Limited(p.minTokens) => e.tokens >= p.minTokens
    /\ Limited(p.maxAge) => e.created >= at - p.maxAge

(* compact_index removes no more than its limits ask for. *)
LEMMA CompactionKeepsNewest ==
    ASSUME NEW B, B \subseteq MemoryEntry, IsFiniteSet(B), OneOfEachId(B), NEW p \in IndexCompaction
    PROVE  LET left == CompactIndex(B, p)
           IN  /\ left \subseteq {e \in B : FitsPolicy(e, p, today)}
               /\ \A e \in B \ left : FitsPolicy(e, p, today) =>
                     /\ Limited(p.maxEntries)
                     /\ Cardinality({f \in left : Older(e, f)}) = p.maxEntries
  <1> DEFINE young == {e \in B : FitsPolicy(e, p, today)}
             N == Cardinality(young)
             excess == IF Limited(p.maxEntries) THEN N - p.maxEntries ELSE 0
             older(e) == {f \in young : Older(f, e)}
             left == CompactIndex(B, p)
  <1>1. left = {e \in young : Cardinality(older(e)) >= excess}
    <2> DEFINE large == {e \in B : Limited(p.minTokens) => e.tokens >= p.minTokens}
               fresh == {e \in large : Limited(p.maxAge) => e.created >= today - p.maxAge}
    <2>1. fresh = young
      BY DEF FitsPolicy
    <2>2. left = {e \in fresh : Cardinality({f \in fresh : Older(f, e)})
                                  >= (IF Limited(p.maxEntries) THEN Cardinality(fresh) - p.maxEntries ELSE 0)}
      BY DEF CompactIndex
    <2> HIDE DEF fresh, young, left
    <2> QED BY <2>1, <2>2
  <1>2. young \subseteq MemoryEntry /\ OneOfEachId(young)
    BY DEF OneOfEachId
  <1>3. IsFiniteSet(young) /\ N \in Nat
    BY FS_Subset, FS_CardinalityType
  <1>4. Limited(p.maxEntries) => p.maxEntries \in Nat
    BY DEF IndexCompaction, Optional, Limited
  <1> HIDE DEF young, left
  <1>5. left \subseteq young
    BY <1>1
  <1>6. ASSUME NEW e \in B \ left, FitsPolicy(e, p, today)
        PROVE  /\ Limited(p.maxEntries)
               /\ Cardinality({f \in left : Older(e, f)}) = p.maxEntries
    <2> DEFINE R == AgeOrder(young)
    <2>1. e \in young
      BY <1>6 DEF young
    <2>2. /\ IsTotalOrder(young, R)
          /\ \A u, v \in young : <<u, v>> \in R <=> Older(u, v)
          /\ \A u \in young : Below(young, R, u) = older(u)
      BY <1>2, AgeIsTotal
    <2> HIDE DEF R
    <2>3. \A u \in young : Cardinality(older(u)) \in 0..(N - 1)
      BY <1>3, <2>2, RankGrows
    <2>4. Cardinality(older(e)) \in 0..(N - 1) /\ ~ (Cardinality(older(e)) >= excess)
      BY <1>1, <1>6, <2>1, <2>3
    <2>5. Limited(p.maxEntries) /\ excess = N - p.maxEntries /\ excess \in 0..N /\ N - excess = p.maxEntries
      <3>1. Limited(p.maxEntries)
        BY <1>3, <2>4
      <3>2. p.maxEntries \in Nat /\ excess = N - p.maxEntries
        BY <1>4, <3>1
      <3> HIDE DEF excess
      <3> QED BY <1>3, <2>4, <3>1, <3>2
    <2>6. Cardinality({u \in young : Cardinality(Below(young, R, u)) >= excess}) = N - excess
      <3> HIDE DEF excess
      <3> QED BY <1>3, <2>2, <2>5, TopOfOrder
    <2>7. left = {u \in young : Cardinality(Below(young, R, u)) >= excess}
      <3> HIDE DEF excess
      <3> QED BY <1>1, <2>2
    <2>8. ASSUME NEW f \in left PROVE Older(e, f)
      <3>1. f \in young /\ Cardinality(older(f)) >= excess
        BY <1>1, <2>8
      <3>2. f # e
        BY <1>6
      <3>3. ASSUME <<f, e>> \in R PROVE FALSE
        <4>1. Cardinality(Below(young, R, f)) < Cardinality(Below(young, R, e))
          BY <1>3, <2>1, <2>2, <3>1, <3>3, RankGrows
        <4>2. Cardinality(older(f)) < Cardinality(older(e))
          BY <2>1, <2>2, <3>1, <4>1
        <4>3. Cardinality(older(f)) \in Int /\ Cardinality(older(e)) \in Int /\ excess \in Int
          BY <2>3, <2>4, <2>5, <3>1
        <4> HIDE DEF older, excess
        <4> QED BY <2>4, <3>1, <4>2, <4>3
      <3> QED BY <2>1, <2>2, <3>1, <3>2, <3>3 DEF IsTotalOrder
    <2>9. {f \in left : Older(e, f)} = left
      BY <2>8
    <2> HIDE DEF excess
    <2> QED BY <2>5, <2>6, <2>7, <2>9
  <1> QED BY <1>5, <1>6 DEF young, left

(* What is inductive about the index. *)
IndexInv ==
    /\ index \subseteq MemoryEntry /\ IsFiniteSet(index) /\ OneOfEachId(index)
    /\ memoryLog = <<>> /\ today \in Nat
    /\ \/ compacted = NoCompaction
       \/ /\ compacted = [before |-> compacted.before, policy |-> compacted.policy, at |-> compacted.at]
          /\ compacted.before \subseteq MemoryEntry /\ IsFiniteSet(compacted.before)
          /\ OneOfEachId(compacted.before) /\ compacted.policy \in IndexCompaction
          /\ compacted.at \in 0 .. today

(* Inserting, forgetting, waiting and compacting keep it. *)
LEMMA IndexStepKeeps == ASSUME IndexInv, [IndexNext]_memoryVars PROVE IndexInv'
  <1>1. /\ index \subseteq MemoryEntry /\ IsFiniteSet(index) /\ OneOfEachId(index)
        /\ memoryLog = <<>> /\ today \in Nat
    BY DEF IndexInv
  <1>2. ASSUME NEW e \in EntryInput, Insert(e) PROVE IndexInv'
    <2> DEFINE d == Dated(e)
    <2>1. e \in [id : Nat, key : STRING, tokens : Nat, relevance : Int, tag : STRING]
      BY MemoryAssumption
    <2>2. d \in MemoryEntry /\ d.id = e.id
      BY <1>1, <2>1 DEF Dated, MemoryEntry
    <2> HIDE DEF d
    <2>3. /\ \A f \in index : f.id # e.id
          /\ index' = index \cup {d} /\ memoryLog' = memoryLog /\ today' = today /\ compacted' = compacted
      BY <1>2 DEF Insert, d
    <2>4. IsFiniteSet(index')
      BY <1>1, <2>3, FS_AddElement
    <2>5. OneOfEachId(index')
      BY <1>1, <2>2, <2>3 DEF OneOfEachId
    <2> QED BY <2>2, <2>3, <2>4, <2>5 DEF IndexInv
  <1>3. ASSUME NEW S, S \subseteq index PROVE IsFiniteSet(S) /\ OneOfEachId(S) /\ S \subseteq MemoryEntry
    BY <1>1, <1>3, FS_Subset DEF OneOfEachId
  <1>4. ASSUME NEW e \in index, Forget(e) PROVE IndexInv'
    <2>1. index' \subseteq index /\ memoryLog' = memoryLog /\ today' = today /\ compacted' = compacted
      BY <1>4 DEF Forget
    <2>2. IsFiniteSet(index') /\ OneOfEachId(index') /\ index' \subseteq MemoryEntry
      BY <1>3, <2>1
    <2> QED BY <2>1, <2>2 DEF IndexInv
  <1>5. CASE PassDay
    <2>1. index' = index /\ memoryLog' = memoryLog /\ today' = today + 1 /\ compacted' = compacted
      BY <1>5 DEF PassDay
    <2>2. today' \in Nat /\ \A n \in 0 .. today : n \in 0 .. today'
      BY <1>1, <2>1
    <2> QED BY <2>1, <2>2 DEF IndexInv
  <1>6. ASSUME NEW p \in IndexPolicy, ApplyIndexPolicy(p) PROVE IndexInv'
    <2>1. /\ index' = CompactIndex(index, p) /\ memoryLog' = memoryLog /\ today' = today
          /\ compacted' = [before |-> index, policy |-> p, at |-> today]
      BY <1>6 DEF ApplyIndexPolicy
    <2>2. index' \subseteq index
      BY <2>1 DEF CompactIndex
    <2>3. IsFiniteSet(index') /\ OneOfEachId(index') /\ index' \subseteq MemoryEntry
      BY <1>3, <2>2
    <2>4. compacted'.before = index /\ compacted'.policy = p /\ compacted'.at = today
      BY <2>1
    <2>5. p \in IndexCompaction /\ today \in 0 .. today
      BY <1>1, MemoryAssumption
    <2> QED BY <1>1, <2>1, <2>3, <2>4, <2>5 DEF IndexInv
  <1>7. CASE UNCHANGED memoryVars
    BY <1>7 DEF memoryVars, IndexInv
  <1> QED BY <1>2, <1>4, <1>5, <1>6, <1>7 DEF IndexNext

(* Whatever is inserted, forgotten and compacted, and however many entries  *)
(* share an instant: compact_index drops an entry within the token and the  *)
(* age limit only when exactly as many newer ones as the policy keeps are   *)
(* left.                                                                    *)
THEOREM CompactionIsMinimal == IndexSpec => [](MemoryTypeOK /\ CompactionMinimal)
  <1>1. MemoryInit => IndexInv
    <2> SUFFICES ASSUME MemoryInit PROVE IndexInv
      OBVIOUS
    <2>1. IsFiniteSet({})
      BY FS_EmptySet
    <2> QED BY <2>1 DEF MemoryInit, IndexInv, OneOfEachId
  <1>2. IndexInv /\ [IndexNext]_memoryVars => IndexInv'
    BY IndexStepKeeps
  <1>3. IndexInv => MemoryTypeOK /\ CompactionMinimal
    <2> SUFFICES ASSUME IndexInv PROVE MemoryTypeOK /\ CompactionMinimal
      OBVIOUS
    <2>1. MemoryTypeOK
      BY DEF IndexInv, MemoryTypeOK
    <2>2. ASSUME compacted # NoCompaction, compacted.at = today
          PROVE  LET p == compacted.policy
                     left == CompactIndex(compacted.before, p)
                 IN  /\ left \subseteq {e \in compacted.before : FitsPolicy(e, p, today)}
                     /\ \A e \in compacted.before \ left : FitsPolicy(e, p, today) =>
                           /\ Limited(p.maxEntries)
                           /\ Cardinality({f \in left : Older(e, f)}) = p.maxEntries
      <3> DEFINE B == compacted.before
                 p == compacted.policy
      <3>1. B \subseteq MemoryEntry /\ IsFiniteSet(B) /\ OneOfEachId(B) /\ p \in IndexCompaction
        BY <2>2 DEF IndexInv
      <3> HIDE DEF B, p
      <3>2. LET left == CompactIndex(B, p)
            IN  /\ left \subseteq {e \in B : FitsPolicy(e, p, today)}
                /\ \A e \in B \ left : FitsPolicy(e, p, today) =>
                      /\ Limited(p.maxEntries)
                      /\ Cardinality({f \in left : Older(e, f)}) = p.maxEntries
        BY <3>1, CompactionKeepsNewest
      <3> QED BY <3>2 DEF B, p
    <2>3. CompactionMinimal
      BY <2>2 DEF CompactionMinimal, FitsPolicy
    <2> QED BY <2>1, <2>3
  <1> QED BY <1>1, <1>2, <1>3, PTL DEF IndexSpec

-----------------------------------------------------------------------------
(* Tables of two indices.  A table whose cells depend on cells of a smaller *)
(* sum of indices exists: repeating the step settles one diagonal after the *)
(* other.                                                                   *)
Grid(m, n) == (0..m) \X (0..n)

Diagonal(p) == p[1] + p[2]

IsSweep(step, m, n, V) ==
    /\ step \in [[Grid(m, n) -> V] -> [Grid(m, n) -> V]]
    /\ \A g, h \in [Grid(m, n) -> V] : \A p \in Grid(m, n) :
          (\A q \in Grid(m, n) : Diagonal(q) < Diagonal(p) => g[q] = h[q]) => step[g][p] = step[h][p]

(* A sweep has a table it leaves as it is. *)
LEMMA TableExists ==
    ASSUME NEW m \in Nat, NEW n \in Nat, NEW V, NEW z \in V, NEW step, IsSweep(step, m, n, V)
    PROVE  \E f \in [Grid(m, n) -> V] : f = step[f]
  <1> DEFINE C == Grid(m, n)
             X == [C -> V]
             base == [p \in C |-> z]
             G == [r \in Nat \X X |-> step[r[2]]]
             N == m + n + 2
  <1>0. /\ step \in [X -> X]
        /\ \A g, h \in X : \A p \in C :
              (\A q \in C : Diagonal(q) < Diagonal(p) => g[q] = h[q]) => step[g][p] = step[h][p]
    BY DEF IsSweep
  <1>1. base \in X /\ N \in Nat
    OBVIOUS
  <1>2. G \in [Nat \X X -> X] /\ \A s \in Nat, g \in X : G[<<s, g>>] = step[g]
    BY <1>0
  <1>3. \A p \in C : Diagonal(p) \in 0..(m + n)
    BY DEF Grid, Diagonal
  <1> HIDE DEF G, base
  <1>4. PICK T : IsIteration(T, X, base, G, N)
    BY <1>1, <1>2, IterationExists
  <1>5. T \in [0..N -> X] /\ \A s \in 1..N : T[s] = step[T[s - 1]]
    <2>1. T \in [0..N -> X] /\ \A s \in 1..N : T[s] = G[<<s, T[s - 1]>>]
      BY <1>4 DEF IsIteration
    <2>2. ASSUME NEW s \in 1..N PROVE T[s] = step[T[s - 1]]
      <3>1. s \in Nat /\ s - 1 \in 0..N
        BY <1>1
      <3> HIDE DEF X, N
      <3>2. T[s - 1] \in X
        BY <2>1, <3>1
      <3>3. G[<<s, T[s - 1]>>] = step[T[s - 1]]
        BY <1>2, <3>1, <3>2
      <3> QED BY <2>1, <3>3
    <2> QED BY <2>1, <2>2
  <1> DEFINE Bad == {s \in Nat : s < N /\ \E p \in C : Diagonal(p) < s /\ T[s][p] # T[s + 1][p]}
  <1>6. Bad = {}
    <2> SUFFICES ASSUME Bad # {} PROVE FALSE
      OBVIOUS
    <2>1. PICK s \in Bad : \A k \in Bad : s <= k
      <3>1. Bad \subseteq Nat
        OBVIOUS
      <3> HIDE DEF Bad
      <3> QED BY <3>1, LeastIndex
    <2>2. PICK p \in C : Diagonal(p) < s /\ T[s][p] # T[s + 1][p]
      BY <2>1
    <2>3. s \in Nat /\ s < N /\ s # 0 /\ s - 1 \in Nat /\ s - 1 < N /\ s - 1 \notin Bad
      BY <1>1, <1>3, <2>1, <2>2
    <2>4. ASSUME NEW q \in C, Diagonal(q) < Diagonal(p) PROVE T[s - 1][q] = T[s][q]
      <3>1. Diagonal(q) < s - 1 /\ (s - 1) + 1 = s
        BY <1>3, <2>2, <2>3, <2>4
      <3> QED BY <2>3, <3>1
    <2>5. T[s - 1] \in X /\ T[s] \in X /\ T[s] = step[T[s - 1]] /\ T[s + 1] = step[T[s]]
      <3>1. s - 1 \in 0..N /\ s \in 0..N /\ s \in 1..N /\ s + 1 \in 1..N /\ (s + 1) - 1 = s
        BY <1>1, <2>3
      <3> HIDE DEF X, N
      <3> QED BY <1>5, <3>1
    <2> QED BY <1>0, <2>2, <2>4, <2>5
  <1> DEFINE f == T[N - 1]
  <1>7. f \in X /\ step[f] = T[N]
    <2>1. N \in 1..N /\ N - 1 \in 0..N
      BY <1>1
    <2> HIDE DEF X, N
    <2> QED BY <1>5, <2>1
  <1>8. ASSUME NEW p \in C PROVE f[p] = step[f][p]
    <2>1. N - 1 \in Nat /\ N - 1 < N /\ Diagonal(p) < N - 1 /\ (N - 1) + 1 = N
      BY <1>3
    <2> HIDE DEF N
    <2>2. N - 1 \notin Bad
      BY <1>6
    <2>3. T[N - 1][p] = T[N][p]
      BY <2>1, <2>2
    <2> QED BY <1>7, <2>3
  <1>9. step[f] \in X
    BY <1>0, <1>7
  <1> HIDE DEF f
  <1>10. f = step[f]
    BY <1>7, <1>8, <1>9
  <1> QED BY <1>7, <1>10

(* What holds of a cell once it holds of all cells of a smaller sum of      *)
(* indices holds of the whole table.                                        *)
LEMMA GridInduction ==
    ASSUME NEW m \in Nat, NEW n \in Nat, NEW S,
           \A p \in Grid(m, n) :
              (\A q \in Grid(m, n) : Diagonal(q) < Diagonal(p) => q \in S) => p \in S
    PROVE  Grid(m, n) \subseteq S
  <1> SUFFICES ASSUME NEW w \in Grid(m, n), w \notin S PROVE FALSE
    OBVIOUS
  <1> DEFINE T == {Diagonal(p) : p \in {q \in Grid(m, n) : q \notin S}}
  <1>1. \A p \in Grid(m, n) : Diagonal(p) \in Nat
    BY DEF Grid, Diagonal
  <1>2. T \subseteq Nat /\ T # {}
    BY <1>1
  <1>3. PICK k \in T : \A l \in T : k <= l
    <2> HIDE DEF T
    <2> QED BY <1>2, LeastIndex
  <1>4. PICK p \in Grid(m, n) : p \notin S /\ k = Diagonal(p)
    BY <1>3
  <1>5. ASSUME NEW q \in Grid(m, n), Diagonal(q) < Diagonal(p) PROVE q \in S
    <2> SUFFICES ASSUME q \notin S PROVE FALSE
      OBVIOUS
    <2>1. Diagonal(q) \in T
      OBVIOUS
    <2> QED BY <1>1, <1>3, <1>4, <1>5, <2>1
  <1> QED BY <1>4, <1>5

(* The table and the backtrack of lcs_alignment, cell by cell, for a set M  *)
(* of pairs of calls with equal names.                                      *)
IsLcsTable(f, m, n, M) ==
    /\ f \in [Grid(m, n) -> Nat]
    /\ \A i \in 0..m, j \in 0..n :
          /\ i = 0 \/ j = 0 => f[<<i, j>>] = 0
          /\ i # 0 /\ j # 0 /\ <<i, j>> \in M => f[<<i, j>>] = f[<<i - 1, j - 1>>] + 1
          /\ i # 0 /\ j # 0 /\ <<i, j>> \notin M =>
                /\ f[<<i, j>>] \in {f[<<i, j - 1>>], f[<<i - 1, j>>]}
                /\ f[<<i, j>>] >= f[<<i, j - 1>>] /\ f[<<i, j>>] >= f[<<i - 1, j>>]

IsBacktrack(g, f, m, n, M) ==
    /\ g \in [Grid(m, n) -> SUBSET Grid(m, n)]
    /\ \A i \in 0..m, j \in 0..n :
          /\ i = 0 \/ j = 0 => g[<<i, j>>] = {}
          /\ i # 0 /\ j # 0 /\ <<i, j>> \in M => g[<<i, j>>] = g[<<i - 1, j - 1>>] \cup {<<i, j>>}
          /\ i # 0 /\ j # 0 /\ <<i, j>> \notin M =>
                g[<<i, j>>] = IF f[<<i, j - 1>>] > f[<<i - 1, j>>] THEN g[<<i, j - 1>>] ELSE g[<<i - 1, j>>]

NamePairs(a, b) == {p \in (1..Len(a)) \X (1..Len(b)) : a[p[1]].name = b[p[2]].name}

(* The neighbours of a cell that is not on the border. *)
LEMMA Neighbours ==
    ASSUME NEW m \in Nat, NEW n \in Nat, NEW p \in Grid(m, n), p[1] # 0, p[2] # 0
    PROVE  /\ <<p[1] - 1, p[2] - 1>> \in Grid(m, n) /\ Diagonal(<<p[1] - 1, p[2] - 1>>) < Diagonal(p)
           /\ <<p[1], p[2] - 1>> \in Grid(m, n) /\ Diagonal(<<p[1], p[2] - 1>>) < Diagonal(p)
           /\ <<p[1] - 1, p[2]>> \in Grid(m, n) /\ Diagonal(<<p[1] - 1, p[2]>>) < Diagonal(p)
  BY DEF Grid, Diagonal

(* The larger of two numbers. *)
LEMMA MaxOfTwo ==
    ASSUME NEW x \in Nat, NEW y \in Nat
    PROVE  Max({x, y}) \in {x, y} /\ Max({x, y}) >= x /\ Max({x, y}) >= y
  <1>1. \E w \in {x, y} : \A v \in {x, y} : w >= v
    OBVIOUS
  <1> QED BY <1>1 DEF Max

(* The recursive definition of the table has a solution, so it is one. *)
LEMMA LcsTableIs ==
    ASSUME NEW a, NEW b, Len(a) \in Nat, Len(b) \in Nat
    PROVE  IsLcsTable(LcsTable(a, b), Len(a), Len(b), NamePairs(a, b))
  <1> DEFINE m == Len(a)
             n == Len(b)
             C == Grid(m, n)
             body(g, p) == IF p[1] = 0 \/ p[2] = 0 THEN 0
                           ELSE IF a[p[1]].name = b[p[2]].name THEN g[<<p[1] - 1, p[2] - 1>>] + 1
                           ELSE Max({g[<<p[1], p[2] - 1>>], g[<<p[1] - 1, p[2]>>]})
             step == [g \in [C -> Nat] |-> [p \in C |-> body(g, p)]]
             Is(f) == f = [p \in (0..Len(a)) \X (0..Len(b)) |-> body(f, p)]
             dp == CHOOSE f : Is(f)
  <1>0. m \in Nat /\ n \in Nat
    OBVIOUS
  <1>1. ASSUME NEW p \in C, p[1] # 0, p[2] # 0
        PROVE  /\ <<p[1] - 1, p[2] - 1>> \in C /\ <<p[1], p[2] - 1>> \in C /\ <<p[1] - 1, p[2]>> \in C
               /\ Diagonal(<<p[1] - 1, p[2] - 1>>) < Diagonal(p) /\ Diagonal(<<p[1], p[2] - 1>>) < Diagonal(p)
               /\ Diagonal(<<p[1] - 1, p[2]>>) < Diagonal(p)
    <2> HIDE DEF m, n
    <2> QED BY <1>0, <1>1, Neighbours
  <1>2. ASSUME NEW g \in [C -> Nat], NEW p \in C PROVE body(g, p) \in Nat
    <2>1. CASE p[1] = 0 \/ p[2] = 0
      BY <2>1
    <2>2. CASE p[1] # 0 /\ p[2] # 0
      <3>1. g[<<p[1] - 1, p[2] - 1>>] \in Nat /\ g[<<p[1], p[2] - 1>>] \in Nat /\ g[<<p[1] - 1, p[2]>>] \in Nat
        BY <1>1, <2>2
      <3>2. Max({g[<<p[1], p[2] - 1>>], g[<<p[1] - 1, p[2]>>]}) \in Nat
        BY <3>1, MaxOfTwo
      <3> QED BY <3>1, <3>2
    <2> QED BY <2>1, <2>2
  <1>3. ASSUME NEW g \in [C -> Nat], NEW h \in [C -> Nat], NEW p \in C,
               \A q \in C : Diagonal(q) < Diagonal(p) => g[q] = h[q]
        PROVE  body(g, p) = body(h, p)
    <2>1. CASE p[1] = 0 \/ p[2] = 0
      BY <2>1
    <2>2. CASE p[1] # 0 /\ p[2] # 0
      <3>1. /\ g[<<p[1] - 1, p[2] - 1>>] = h[<<p[1] - 1, p[2] - 1>>]
            /\ g[<<p[1], p[2] - 1>>] = h[<<p[1], p[2] - 1>>]
            /\ g[<<p[1] - 1, p[2]>>] = h[<<p[1] - 1, p[2]>>]
        BY <1>1, <1>3, <2>2
      <3> QED BY <3>1
    <2> QED BY <2>1, <2>2
  <1> HIDE DEF body
  <1>4. step \in [[C -> Nat] -> [C -> Nat]] /\ \A g \in [C -> Nat], p \in C : step[g][p] = body(g, p)
    BY <1>2
  <1>5. PICK f \in [C -> Nat] : f = step[f]
    <2>1. \A g, h \in [C -> Nat] : \A p \in C :
             (\A q \in C : Diagonal(q) < Diagonal(p) => g[q] = h[q]) => step[g][p] = step[h][p]
      BY <1>3, <1>4
    <2> DEFINE V == Nat
               z == 0
    <2>2. z \in V
      OBVIOUS
    <2>3. IsSweep(step, m, n, V)
      BY <1>4, <2>1 DEF IsSweep
    <2> HIDE DEF step, m, n, V, z
    <2>5. \E f \in [Grid(m, n) -> V] : f = step[f]
      BY <1>0, <2>2, <2>3, TableExists
    <2> QED BY <2>5 DEF V
  <1>6. Is(f)
    BY <1>5 DEF Grid
  <1>7. Is(dp)
    <2> HIDE DEF Is
    <2> QED BY <1>6
  <1>8. LcsTable(a, b) = dp
    BY DEF LcsTable, body
  <1> HIDE DEF dp
  <1>9. dp = [p \in C |-> dp[p]] /\ \A p \in C : dp[p] = body(dp, p)
    BY <1>7 DEF Grid
  <1>10. dp \in [C -> Nat]
    <2> DEFINE S == {p \in C : dp[p] \in Nat}
    <2>1. ASSUME NEW p \in C, \A q \in C : Diagonal(q) < Diagonal(p) => q \in S PROVE p \in S
      <3> SUFFICES dp[p] \in Nat
        OBVIOUS
      <3>0. dp[p] = body(dp, p)
        BY <1>9
      <3>1. CASE p[1] = 0 \/ p[2] = 0
        BY <3>0, <3>1 DEF body
      <3>2. CASE p[1] # 0 /\ p[2] # 0
        <4>1. dp[<<p[1] - 1, p[2] - 1>>] \in Nat /\ dp[<<p[1], p[2] - 1>>] \in Nat /\ dp[<<p[1] - 1, p[2]>>] \in Nat
          BY <1>1, <2>1, <3>2
        <4>2. Max({dp[<<p[1], p[2] - 1>>], dp[<<p[1] - 1, p[2]>>]}) \in Nat
          BY <4>1, MaxOfTwo
        <4> QED BY <3>0, <3>2, <4>1, <4>2 DEF body
      <3> QED BY <3>1, <3>2
    <2>2. C \subseteq S
      <3> HIDE DEF S, m, n
      <3> QED BY <1>0, <2>1, GridInduction
    <2> QED BY <1>9, <2>2
  <1>11. ASSUME NEW i \in 0..m, NEW j \in 0..n
         PROVE  /\ i = 0 \/ j = 0 => dp[<<i, j>>] = 0
                /\ i # 0 /\ j # 0 /\ <<i, j>> \in NamePairs(a, b) => dp[<<i, j>>] = dp[<<i - 1, j - 1>>] + 1
                /\ i # 0 /\ j # 0 /\ <<i, j>> \notin NamePairs(a, b) =>
                      /\ dp[<<i, j>>] \in {dp[<<i, j - 1>>], dp[<<i - 1, j>>]}
                      /\ dp[<<i, j>>] >= dp[<<i, j - 1>>] /\ dp[<<i, j>>] >= dp[<<i - 1, j>>]
    <2> DEFINE p == <<i, j>>
    <2>1. p \in C /\ p[1] = i /\ p[2] = j
      BY DEF Grid
    <2>2. dp[p] = body(dp, p)
      BY <1>9, <2>1
    <2>3. CASE i = 0 \/ j = 0
      BY <2>1, <2>2, <2>3 DEF body
    <2>4. CASE i # 0 /\ j # 0
      <3>1. p \in NamePairs(a, b) <=> a[i].name = b[j].name
        BY <2>4 DEF NamePairs
      <3>2. /\ a[i].name = b[j].name => dp[p] = dp[<<i - 1, j - 1>>] + 1
            /\ a[i].name # b[j].name => dp[p] = Max({dp[<<i, j - 1>>], dp[<<i - 1, j>>]})
        BY <2>1, <2>2, <2>4 DEF body
      <3>3. dp[<<i, j - 1>>] \in Nat /\ dp[<<i - 1, j>>] \in Nat
        BY <1>1, <1>10, <2>1, <2>4
      <3> QED BY <2>4, <3>1, <3>2, <3>3, MaxOfTwo
    <2> QED BY <2>3, <2>4
  <1> QED BY <1>8, <1>10, <1>11 DEF IsLcsTable

(* The same for the backtrack, which the alignment is the last cell of. *)
LEMMA BacktrackIs ==
    ASSUME NEW a, NEW b, Len(a) \in Nat, Len(b) \in Nat
    PROVE  \E g : /\ IsBacktrack(g, LcsTable(a, b), Len(a), Len(b), NamePairs(a, b))
                  /\ LcsAlignment(a, b) = g[<<Len(a), Len(b)>>]
  <1> DEFINE m == Len(a)
             n == Len(b)
             C == Grid(m, n)
             dp == LcsTable(a, b)
             V == SUBSET C
             body(g, p) == IF p[1] = 0 \/ p[2] = 0 THEN {}
                           ELSE IF a[p[1]].name = b[p[2]].name THEN g[<<p[1] - 1, p[2] - 1>>] \cup {p}
                           ELSE IF dp[<<p[1], p[2] - 1>>] > dp[<<p[1] - 1, p[2]>>] THEN g[<<p[1], p[2] - 1>>]
                           ELSE g[<<p[1] - 1, p[2]>>]
             step == [g \in [C -> V] |-> [p \in C |-> body(g, p)]]
             Is(f) == f = [p \in (0..Len(a)) \X (0..Len(b)) |-> body(f, p)]
             from == CHOOSE f : Is(f)
  <1>0. m \in Nat /\ n \in Nat
    OBVIOUS
  <1>1. ASSUME NEW p \in C, p[1] # 0, p[2] # 0
        PROVE  /\ <<p[1] - 1, p[2] - 1>> \in C /\ <<p[1], p[2] - 1>> \in C /\ <<p[1] - 1, p[2]>> \in C
               /\ Diagonal(<<p[1] - 1, p[2] - 1>>) < Diagonal(p) /\ Diagonal(<<p[1], p[2] - 1>>) < Diagonal(p)
               /\ Diagonal(<<p[1] - 1, p[2]>>) < Diagonal(p)
    <2> HIDE DEF m, n
    <2> QED BY <1>0, <1>1, Neighbours
  <1>8. LcsAlignment(a, b) = from[<<Len(a), Len(b)>>]
    BY DEF LcsAlignment
  <1> HIDE DEF dp, C, V
  <1>2. ASSUME NEW g, NEW p \in C,
               p[1] # 0 /\ p[2] # 0 => /\ g[<<p[1] - 1, p[2] - 1>>] \in V /\ g[<<p[1], p[2] - 1>>] \in V
                                       /\ g[<<p[1] - 1, p[2]>>] \in V
        PROVE  body(g, p) \in V
    BY <1>2 DEF V
  <1>3. ASSUME NEW g \in [C -> V], NEW h \in [C -> V], NEW p \in C,
               \A q \in C : Diagonal(q) < Diagonal(p) => g[q] = h[q]
        PROVE  body(g, p) = body(h, p)
    <2>1. CASE p[1] = 0 \/ p[2] = 0
      BY <2>1
    <2>2. CASE p[1] # 0 /\ p[2] # 0
      <3>1. /\ g[<<p[1] - 1, p[2] - 1>>] = h[<<p[1] - 1, p[2] - 1>>]
            /\ g[<<p[1], p[2] - 1>>] = h[<<p[1], p[2] - 1>>]
            /\ g[<<p[1] - 1, p[2]>>] = h[<<p[1] - 1, p[2]>>]
        BY <1>1, <1>3, <2>2
      <3> QED BY <3>1
    <2> QED BY <2>1, <2>2
  <1> HIDE DEF body
  <1>4. step \in [[C -> V] -> [C -> V]] /\ \A g \in [C -> V], p \in C : step[g][p] = body(g, p)
    <2>1. ASSUME NEW g \in [C -> V], NEW p \in C PROVE body(g, p) \in V
      BY <1>1, <1>2
    <2> QED BY <2>1
  <1>5. PICK f \in [C -> V] : f = step[f]
    <2>1. \A g, h \in [C -> V] : \A p \in C :
             (\A q \in C : Diagonal(q) < Diagonal(p) => g[q] = h[q]) => step[g][p] = step[h][p]
      BY <1>3, <1>4
    <2>2. {} \in V
      BY DEF V
    <2>3. IsSweep(step, m, n, V)
      BY <1>4, <2>1 DEF IsSweep, C
    <2> HIDE DEF step, m, n
    <2>4. \E f \in [Grid(m, n) -> V] : f = step[f]
      BY <1>0, <2>2, <2>3, TableExists
    <2> QED BY <2>4 DEF C
  <1>6. Is(f)
    BY <1>5 DEF Grid, C
  <1>7. Is(from)
    <2> HIDE DEF Is
    <2> QED BY <1>6
  <1> HIDE DEF from
  <1>9. from = [p \in C |-> from[p]] /\ \A p \in C : from[p] = body(from, p)
    BY <1>7 DEF Grid, C
  <1>10. from \in [C -> V]
    <2> DEFINE S == {p \in C : from[p] \in V}
    <2>1. ASSUME NEW p \in C, \A q \in C : Diagonal(q) < Diagonal(p) => q \in S PROVE p \in S
      <3>1. p[1] # 0 /\ p[2] # 0 => /\ from[<<p[1] - 1, p[2] - 1>>] \in V /\ from[<<p[1], p[2] - 1>>] \in V
                                    /\ from[<<p[1] - 1, p[2]>>] \in V
        BY <1>1, <2>1
      <3>2. body(from, p) \in V
        BY <1>2, <3>1
      <3> QED BY <1>9, <3>2
    <2>2. C \subseteq S
      <3> HIDE DEF S, m, n
      <3> QED BY <1>0, <2>1, GridInduction DEF C
    <2> QED BY <1>9, <2>2
  <1>11. ASSUME NEW i \in 0..m, NEW j \in 0..n
         PROVE  /\ i = 0 \/ j = 0 => from[<<i, j>>] = {}
                /\ i # 0 /\ j # 0 /\ <<i, j>> \in NamePairs(a, b) =>
                      from[<<i, j>>] = from[<<i - 1, j - 1>>] \cup {<<i, j>>}
                /\ i # 0 /\ j # 0 /\ <<i, j>> \notin NamePairs(a, b) =>
                      from[<<i, j>>] = IF dp[<<i, j - 1>>] > dp[<<i - 1, j>>] THEN from[<<i, j - 1>>]
                                       ELSE from[<<i - 1, j>>]
    <2> DEFINE p == <<i, j>>
    <2>1. p \in C /\ p[1] = i /\ p[2] = j
      BY DEF Grid, C
    <2>2. from[p] = body(from, p)
      BY <1>9, <2>1
    <2>3. p \in NamePairs(a, b) <=> i # 0 /\ j # 0 /\ a[i].name = b[j].name
      BY DEF NamePairs
    <2> QED BY <2>1, <2>2, <2>3 DEF body
  <1>12. IsBacktrack(from, dp, m, n, NamePairs(a, b))
    BY <1>10, <1>11 DEF IsBacktrack, C, V
  <1> QED BY <1>8, <1>12 DEF dp

(* A pairing that keeps the order of both sides and stays below a cell. *)
Increasing(A) ==
    \A p, q \in A : p # q => p[1] # q[1] /\ p[2] # q[2] /\ (p[1] < q[1] <=> p[2] < q[2])

WithinCell(A, i, j) == A \subseteq (1..i) \X (1..j)

(* Such a subsequence with as many pairs as the table says. *)
FitsCell(A, k, p, M) ==
    A \subseteq M /\ WithinCell(A, p[1], p[2]) /\ Increasing(A) /\ IsFiniteSet(A) /\ Cardinality(A) = k

(* The pairs found from a cell fit it. *)
LEMMA BacktrackFits ==
    ASSUME NEW m \in Nat, NEW n \in Nat, NEW M, M \subseteq (1..m) \X (1..n), NEW f, NEW g,
           IsLcsTable(f, m, n, M), IsBacktrack(g, f, m, n, M)
    PROVE  \A p \in Grid(m, n) : FitsCell(g[p], f[p], p, M)
  <1> DEFINE Good(p) == /\ g[p] \subseteq M /\ WithinCell(g[p], p[1], p[2]) /\ Increasing(g[p])
                        /\ IsFiniteSet(g[p]) /\ Cardinality(g[p]) = f[p]
             C == Grid(m, n)
             S == {p \in C : Good(p)}
  <1>1. ASSUME NEW p \in C, \A q \in C : Diagonal(q) < Diagonal(p) => q \in S PROVE Good(p)
    <2>0a. PICK i \in 0..m, j \in 0..n : p = <<i, j>>
      BY DEF Grid
    <2>1. i \in 0..m /\ j \in 0..n /\ p = <<i, j>> /\ p[1] = i /\ p[2] = j
      BY <2>0a
    <2>2. CASE i = 0 \/ j = 0
      <3>1. g[p] = {} /\ f[p] = 0
        BY <2>1, <2>2 DEF IsLcsTable, IsBacktrack
      <3> QED BY <3>1, FS_EmptySet DEF WithinCell, Increasing
    <2>3. CASE i # 0 /\ j # 0 /\ p \in M
      <3> DEFINE q == <<i - 1, j - 1>>
      <3>1. g[p] = g[q] \cup {p} /\ f[p] = f[q] + 1
        BY <2>1, <2>3 DEF IsLcsTable, IsBacktrack
      <3>2. q \in C /\ Diagonal(q) < Diagonal(p) /\ q[1] = i - 1 /\ q[2] = j - 1
        BY <2>1, <2>3, Neighbours
      <3>3. Good(q)
        BY <1>1, <3>2
      <3>4. \A r \in g[q] : r[1] \in 1..(i - 1) /\ r[2] \in 1..(j - 1)
        BY <3>2, <3>3 DEF WithinCell
      <3>5. p \notin g[q] /\ WithinCell(g[p], i, j) /\ g[p] \subseteq M
        <4>1. p \notin g[q]
          BY <2>1, <3>4
        <4>2. g[q] \subseteq (1..i) \X (1..j)
          BY <2>1, <3>2, <3>3 DEF WithinCell
        <4>3. p \in (1..i) \X (1..j)
          BY <2>1, <2>3
        <4> QED BY <2>3, <3>1, <3>3, <4>1, <4>2, <4>3 DEF WithinCell
      <3>6. Increasing(g[p])
        <4> SUFFICES ASSUME NEW r \in g[p], NEW s \in g[p], r # s
                     PROVE  r[1] # s[1] /\ r[2] # s[2] /\ (r[1] < s[1] <=> r[2] < s[2])
          BY DEF Increasing
        <4>1. CASE r \in g[q] /\ s \in g[q]
          BY <3>3, <4>1 DEF Increasing
        <4>2. CASE r = p
          <5>1. s \in g[q]
            BY <3>1, <4>2
          <5> QED BY <2>1, <3>4, <4>2, <5>1
        <4>3. CASE s = p
          <5>1. r \in g[q]
            BY <3>1, <4>3
          <5> QED BY <2>1, <3>4, <4>3, <5>1
        <4> QED BY <3>1, <4>1, <4>2, <4>3
      <3>7. IsFiniteSet(g[p]) /\ Cardinality(g[p]) = Cardinality(g[q]) + 1
        <4>1. IsFiniteSet(g[q]) /\ p \notin g[q] /\ g[p] = g[q] \cup {p}
          BY <3>1, <3>3, <3>5
        <4> HIDE DEF q, Good, S, C
        <4> QED BY <4>1, FS_AddElement
      <3> QED BY <2>1, <3>1, <3>3, <3>5, <3>6, <3>7
    <2>4. CASE i # 0 /\ j # 0 /\ p \notin M
      <3> DEFINE q == IF f[<<i, j - 1>>] > f[<<i - 1, j>>] THEN <<i, j - 1>> ELSE <<i - 1, j>>
      <3>1. <<i, j - 1>> \in C /\ <<i - 1, j>> \in C
        BY <2>1, <2>4, Neighbours
      <3>2. f[<<i, j - 1>>] \in Nat /\ f[<<i - 1, j>>] \in Nat
        BY <3>1 DEF IsLcsTable
      <3>3. g[p] = g[q]
        BY <2>1, <2>4 DEF IsBacktrack
      <3>4. f[p] = f[q]
        <4>1. f[p] \in {f[<<i, j - 1>>], f[<<i - 1, j>>]} /\ f[p] >= f[<<i, j - 1>>] /\ f[p] >= f[<<i - 1, j>>]
          BY <2>1, <2>4 DEF IsLcsTable
        <4> QED BY <3>2, <4>1
      <3>5. q \in C /\ Diagonal(q) < Diagonal(p) /\ q[1] <= i /\ q[2] <= j /\ q[1] \in Nat /\ q[2] \in Nat
        <4>0. Diagonal(<<i, j - 1>>) < Diagonal(p) /\ Diagonal(<<i - 1, j>>) < Diagonal(p)
          BY <2>1, <2>4 DEF Diagonal
        <4>1. i - 1 \in Nat /\ i - 1 <= i /\ j - 1 \in Nat /\ j - 1 <= j /\ i <= i /\ j <= j
          BY <2>1, <2>4
        <4>2. CASE f[<<i, j - 1>>] > f[<<i - 1, j>>]
          <5>1. q = <<i, j - 1>> /\ q[1] = i /\ q[2] = j - 1
            BY <4>2
          <5> QED BY <2>1, <3>1, <4>0, <4>1, <5>1
        <4>3. CASE ~(f[<<i, j - 1>>] > f[<<i - 1, j>>])
          <5>1. q = <<i - 1, j>> /\ q[1] = i - 1 /\ q[2] = j
            BY <4>3
          <5> QED BY <2>1, <3>1, <4>0, <4>1, <5>1
        <4> QED BY <4>2, <4>3
      <3> HIDE DEF q
      <3>6. Good(q)
        BY <1>1, <3>5
      <3>7. WithinCell(g[q], i, j)
        <4>1. (1..q[1]) \X (1..q[2]) \subseteq (1..i) \X (1..j)
          BY <2>1, <3>5
        <4> QED BY <3>6, <4>1 DEF WithinCell
      <3> QED BY <2>1, <3>3, <3>4, <3>6, <3>7
    <2> QED BY <2>1, <2>2, <2>3, <2>4
  <1>2. C \subseteq S
    <2>1. \A p \in C : (\A q \in C : Diagonal(q) < Diagonal(p) => q \in S) => p \in S
      BY <1>1
    <2> HIDE DEF S
    <2> QED BY <2>1, GridInduction
  <1> QED BY <1>2 DEF FitsCell

(* A common subsequence of the calls below a cell. *)
IsCommonBelow(A, p, M) == A \subseteq M /\ WithinCell(A, p[1], p[2]) /\ Increasing(A)

(* No common subsequence below a cell has more pairs than the table says. *)
LEMMA NoneLonger ==
    ASSUME NEW m \in Nat, NEW n \in Nat, NEW M, M \subseteq (1..m) \X (1..n), NEW f,
           IsLcsTable(f, m, n, M)
    PROVE  \A p \in Grid(m, n) : \A A : IsCommonBelow(A, p, M) => IsFiniteSet(A) /\ Cardinality(A) <= f[p]
  <1> DEFINE Good(p) == \A A : IsCommonBelow(A, p, M) => IsFiniteSet(A) /\ Cardinality(A) <= f[p]
             C == Grid(m, n)
             S == {p \in C : Good(p)}
  <1>1. ASSUME NEW p \in C, \A q \in C : Diagonal(q) < Diagonal(p) => q \in S PROVE Good(p)
    <2>0a. PICK i \in 0..m, j \in 0..n : p = <<i, j>>
      BY DEF Grid
    <2>1. i \in 0..m /\ j \in 0..n /\ p = <<i, j>> /\ p[1] = i /\ p[2] = j
      BY <2>0a
    <2> SUFFICES ASSUME NEW A, IsCommonBelow(A, p, M) PROVE IsFiniteSet(A) /\ Cardinality(A) <= f[p]
      OBVIOUS
    <2>0. /\ A \subseteq M
          /\ \A r \in A : r = <<r[1], r[2]>> /\ r[1] \in 1..i /\ r[2] \in 1..j
          /\ \A r, s \in A : r # s => r[1] # s[1] /\ r[2] # s[2] /\ (r[1] < s[1] <=> r[2] < s[2])
      BY <2>1 DEF IsCommonBelow, WithinCell, Increasing
    <2>2. CASE i = 0 \/ j = 0
      <3>1. f[p] = 0
        BY <2>1, <2>2 DEF IsLcsTable
      <3>2. A = {}
        BY <2>0, <2>1, <2>2
      <3> QED BY <3>1, <3>2, FS_EmptySet
    <2>3. CASE i # 0 /\ j # 0 /\ p \in M
      <3> DEFINE q == <<i - 1, j - 1>>
                 B == {r \in A : r[1] < i /\ r[2] < j}
      <3>1. f[p] = f[q] + 1
        BY <2>1, <2>3 DEF IsLcsTable
      <3>2. q \in C /\ Diagonal(q) < Diagonal(p) /\ q[1] = i - 1 /\ q[2] = j - 1
        BY <2>1, <2>3, Neighbours
      <3>3. f[q] \in Nat
        BY <3>2 DEF IsLcsTable
      <3>4. IsCommonBelow(B, q, M)
        <4>1. B \subseteq (1..(i - 1)) \X (1..(j - 1))
          BY <2>0, <2>1
        <4> QED BY <2>0, <3>2, <4>1 DEF IsCommonBelow, WithinCell, Increasing
      <3>5. IsFiniteSet(B) /\ Cardinality(B) <= f[q]
        <4> HIDE DEF B, q
        <4> QED BY <1>1, <3>2, <3>4
      <3>6. ASSUME NEW r \in A \ B, NEW s \in A \ B PROVE r = s
        BY <2>0, <2>1
      <3>7. Cardinality(B) \in Nat
        <4> HIDE DEF B
        <4> QED BY <3>5, FS_CardinalityType
      <3>8. CASE A = B
        <4> HIDE DEF B, q
        <4> QED BY <3>1, <3>3, <3>5, <3>7, <3>8
      <3>9. CASE A # B
        <4>1. PICK x : x \in A \ B
          BY <3>9
        <4>2. A = B \cup {x} /\ x \notin B
          BY <3>6, <4>1
        <4> HIDE DEF B, q
        <4>3. IsFiniteSet(A) /\ Cardinality(A) = Cardinality(B) + 1
          BY <3>5, <4>2, FS_AddElement
        <4> QED BY <3>1, <3>3, <3>5, <3>7, <4>3
      <3> QED BY <3>8, <3>9
    <2>4. CASE i # 0 /\ j # 0 /\ p \notin M
      <3> DEFINE q == IF \E r \in A : r[1] = i THEN <<i, j - 1>> ELSE <<i - 1, j>>
      <3>1. f[p] >= f[<<i, j - 1>>] /\ f[p] >= f[<<i - 1, j>>]
        BY <2>1, <2>4 DEF IsLcsTable
      <3>2. q \in C /\ Diagonal(q) < Diagonal(p)
        BY <2>1, <2>4, Neighbours
      <3>3. f[p] >= f[q]
        BY <3>1
      <3>4. IsCommonBelow(A, q, M)
        <4>1. CASE \E r \in A : r[1] = i
          <5>1. PICK r \in A : r[1] = i
            BY <4>1
          <5>2. r[2] < j
            BY <2>0, <2>1, <2>4, <5>1
          <5>3. \A s \in A : s[1] \in 1..i /\ s[2] \in 1..(j - 1)
            BY <2>0, <2>1, <5>1, <5>2
          <5>4. A \subseteq (1..i) \X (1..(j - 1))
            BY <2>0, <5>3
          <5>5. q[1] = i /\ q[2] = j - 1
            BY <4>1
          <5> QED BY <5>4, <5>5 DEF IsCommonBelow, WithinCell
        <4>2. CASE ~ \E r \in A : r[1] = i
          <5>3. \A s \in A : s[1] \in 1..(i - 1) /\ s[2] \in 1..j
            BY <2>0, <2>1, <4>2
          <5>4. A \subseteq (1..(i - 1)) \X (1..j)
            BY <2>0, <5>3
          <5>5. q[1] = i - 1 /\ q[2] = j
            BY <4>2
          <5> QED BY <5>4, <5>5 DEF IsCommonBelow, WithinCell
        <4> QED BY <4>1, <4>2
      <3> HIDE DEF q
      <3>5. IsFiniteSet(A) /\ Cardinality(A) <= f[q]
        BY <1>1, <3>2, <3>4
      <3>6. Cardinality(A) \in Nat /\ f[q] \in Nat /\ f[p] \in Nat
        BY <3>2, <3>5, FS_CardinalityType DEF IsLcsTable
      <3> QED BY <3>3, <3>5, <3>6
    <2> QED BY <2>1, <2>2, <2>3, <2>4
  <1>2. C \subseteq S
    <2>1. \A p \in C : (\A q \in C : Diagonal(q) < Diagonal(p) => q \in S) => p \in S
      BY <1>1
    <2> HIDE DEF S
    <2> QED BY <2>1, GridInduction
  <1> QED BY <1>2

(* What lcs_alignment finds is a longest common subsequence, for any two    *)
(* sequences of calls.                                                      *)
LEMMA AlignmentOptimal ==
    ASSUME NEW a, NEW b, Len(a) \in Nat, DOMAIN a = 1..Len(a), Len(b) \in Nat, DOMAIN b = 1..Len(b)
    PROVE  AlignmentMaximal(a, b)
  <1> DEFINE m == Len(a)
             n == Len(b)
             M == NamePairs(a, b)
             f == LcsTable(a, b)
             last == <<m, n>>
  <1>1. m \in Nat /\ n \in Nat /\ M \subseteq (1..m) \X (1..n) /\ IsLcsTable(f, m, n, M)
    BY LcsTableIs DEF NamePairs
  <1>2. PICK g : IsBacktrack(g, f, m, n, M) /\ LcsAlignment(a, b) = g[last]
    BY BacktrackIs
  <1>3. last \in Grid(m, n) /\ last[1] = m /\ last[2] = n
    BY DEF Grid
  <1>4. /\ M = {p \in (DOMAIN a) \X (DOMAIN b) : a[p[1]].name = b[p[2]].name}
        /\ \A A : A \subseteq M => WithinCell(A, m, n)
        /\ \A A : IsAlignment(a, b, A) <=> A \subseteq M /\ Increasing(A)
    BY DEF NamePairs, WithinCell, IsAlignment, Increasing
  <1> HIDE DEF m, n, M, f, last
  <1>5. g[last] \subseteq M /\ Increasing(g[last]) /\ Cardinality(g[last]) = f[last]
    <2>1. FitsCell(g[last], f[last], last, M)
      BY <1>1, <1>2, <1>3, BacktrackFits
    <2> QED BY <2>1 DEF FitsCell
  <1>6. ASSUME NEW A \in SUBSET M, IsAlignment(a, b, A) PROVE Cardinality(A) <= f[last]
    <2>1. IsCommonBelow(A, last, M)
      BY <1>3, <1>4, <1>6 DEF IsCommonBelow
    <2> QED BY <1>1, <1>3, <2>1, NoneLonger
  <1> QED BY <1>2, <1>4, <1>5, <1>6 DEF AlignmentMaximal

(* A function on 1..k is a sequence of length k. *)
LEMMA LengthOf ==
    ASSUME NEW s, NEW k \in Nat, s = [i \in 1..k |-> s[i]]
    PROVE  Len(s) = k /\ DOMAIN s = 1..Len(s)
  OBVIOUS

(* What a filter keeps of a run is a sequence. *)
LEMMA CallsAreSequences ==
    ASSUME NEW e \in Events
    PROVE  /\ Len(NamedCalls(e)) \in Nat /\ DOMAIN NamedCalls(e) = 1..Len(NamedCalls(e))
           /\ Len(AllCalls(e)) \in Nat /\ DOMAIN AllCalls(e) = 1..Len(AllCalls(e))
  <1>1. PICK k \in Nat : DOMAIN e = 1..k
    <2>1. PICK k \in 0..MaxRunEvents : e \in [1..k -> EventInput]
      BY DEF Events
    <2> QED BY <2>1, RunDiffsAssumption
  <1>2. ASSUME NEW S \in SUBSET DOMAIN e PROVE Cardinality(S) \in Nat
    <2>1. IsFiniteSet(1..k)
      BY FS_Interval
    <2> QED BY <1>1, <2>1, FS_Subset, FS_CardinalityType
  <1> DEFINE S == {i \in DOMAIN e : e[i].kind = "tool_called" /\ e[i].name # "none"}
             T == {i \in DOMAIN e : e[i].kind = "tool_called"}
  <1>3. Len(NamedCalls(e)) \in Nat /\ DOMAIN NamedCalls(e) = 1..Len(NamedCalls(e))
    <2>1. Cardinality(S) \in Nat
      BY <1>2
    <2>2. NamedCalls(e) = Selected(Numbered(e), S)
      BY DEF NamedCalls
    <2> HIDE DEF S
    <2>3. NamedCalls(e) = [i \in 1..Cardinality(S) |-> NamedCalls(e)[i]]
      BY <2>2 DEF Selected
    <2> QED BY <2>1, <2>3, LengthOf
  <1>4. Len(AllCalls(e)) \in Nat /\ DOMAIN AllCalls(e) = 1..Len(AllCalls(e))
    <2> DEFINE calls == Selected(Numbered(e), T)
               all == [i \in DOMAIN calls |-> IF calls[i].name = "none" THEN [calls[i] EXCEPT !.name = "unknown"]
                                              ELSE calls[i]]
    <2>1. Cardinality(T) \in Nat
      BY <1>2
    <2>2. AllCalls(e) = all
      BY DEF AllCalls
    <2> HIDE DEF T
    <2>3. DOMAIN calls = 1..Cardinality(T)
      BY DEF Selected
    <2> HIDE DEF calls
    <2>4. all = [i \in 1..Cardinality(T) |-> all[i]]
      BY <2>3
    <2> HIDE DEF all
    <2> QED BY <2>1, <2>2, <2>4, LengthOf
  <1> QED BY <1>3, <1>4

(* The pair being compared is nothing, or two runs, or two of the others. *)
ComparedInv == compared.kind = "runs" => compared.a \in Events /\ compared.b \in Events

(* Whatever two runs recorded, the alignment that both tool-call diffs      *)
(* start from is a longest common subsequence of their calls.               *)
THEOREM AlignmentIsLongest == DiffSpec => []AlignmentSound
  <1>1. DiffInit => ComparedInv
    BY DEF DiffInit, NothingCompared, ComparedInv
  <1>2. ComparedInv /\ [DiffNext]_compared => ComparedInv'
    <2> SUFFICES ASSUME ComparedInv, [DiffNext]_compared PROVE ComparedInv'
      OBVIOUS
    <2>1. CASE CompareRuns
      BY <2>1 DEF CompareRuns, ComparedInv
    <2>2. CASE CompareGraphs
      BY <2>2 DEF CompareGraphs, ComparedInv
    <2>3. CASE CompareSpecs
      BY <2>3 DEF CompareSpecs, ComparedInv
    <2>4. CASE UNCHANGED compared
      BY <2>4 DEF ComparedInv
    <2> QED BY <2>1, <2>2, <2>3, <2>4 DEF DiffNext
  <1>3. ComparedInv => AlignmentSound
    BY CallsAreSequences, AlignmentOptimal DEF ComparedInv, AlignmentSound
  <1> QED BY <1>1, <1>2, <1>3, PTL DEF DiffSpec
=============================================================================

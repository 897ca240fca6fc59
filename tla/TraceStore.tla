----------------------------- MODULE TraceStore -----------------------------
(***************************************************************************)
(* Trace artifacts: a run is replayed from the ledger, its record first    *)
(* and its events second, and written as trace.json and trace.digest, two  *)
(* files of the run's directory.  Runs go on while they are replayed,      *)
(* exporters of the same run write over each other, a crash can leave half *)
(* of an artifact, and the retention policy removes directories meanwhile. *)
(* A run is identified by its creation time, and a list of events by its   *)
(* length: the ledger only appends.                                        *)
(***************************************************************************)
EXTENDS Integers, FiniteSets

CONSTANTS
    TraceRun,         \* the runs, numbers in the order of created_at
    Exporter,         \* processes, each of which replays and writes one trace
    MaxRecorded,      \* bound on the events of a run
    Cutoff,           \* runs created before it are too old to keep
    MaxRuns,          \* max_runs of the policy
    TraceFaults       \* bound on crashes of an exporter

ASSUME TraceAssumption ==
    /\ TraceRun \subseteq Nat /\ IsFiniteSet(TraceRun)
    /\ MaxRecorded \in Nat /\ Cutoff \in Nat /\ MaxRuns \in Nat /\ TraceFaults \in Nat

VARIABLES
    recorded,      \* recorded[r] = [status, events]: the ledger
    exporter,      \* exporter[x] = [at, run, status, events]
    traces,        \* traces[r] = [dir, json, digest]: the directory of the run
    pruner,        \* [at, kept, doomed, removed]: the retention pass
    crashes        \* crashes so far

traceVars == <<recorded, exporter, traces, pruner, crashes>>

TraceTerminal == {"COMPLETED", "FAILED"}

(* RunTraceArtifact: the run is that of the directory. *)
RunTraceArtifact ==
    [is : {"artifact"}, status : {"RUNNING"} \cup TraceTerminal, events : 0 .. MaxRecorded,
     digest : 0 .. MaxRecorded]

(* A pass of RetentionPolicy: what it keeps, has yet to remove, has removed. *)
RetentionPass == [at : {"rest", "removing"}, kept : SUBSET TraceRun, doomed : SUBSET TraceRun,
                  removed : SUBSET TraceRun]

NoFile == [is |-> "absent"]
Torn == [is |-> "torn"]
NoDir == [dir |-> FALSE, json |-> NoFile, digest |-> NoFile]
Resting == [at |-> "rest", kept |-> {}, doomed |-> {}, removed |-> {}]
IdleExporter == [at |-> "idle", run |-> 0, status |-> "unknown", events |-> 0]
EndedExporter == [IdleExporter EXCEPT !.at = "ended"]

TraceInit ==
    /\ recorded = [r \in TraceRun |-> [status |-> "RUNNING", events |-> 0]]
    /\ exporter = [x \in Exporter |-> IdleExporter]
    /\ traces = [r \in TraceRun |-> NoDir]
    /\ pruner = Resting
    /\ crashes = 0

-----------------------------------------------------------------------------
(* The recorder of the run, through RunLedger: events are appended while    *)
(* the run is running and none after it has ended.                          *)
RecordEvent(r) ==
    /\ recorded[r].status = "RUNNING" /\ recorded[r].events < MaxRecorded
    /\ recorded' = [recorded EXCEPT ![r].events = @ + 1]
    /\ UNCHANGED <<exporter, traces, pruner, crashes>>

EndRun(r) ==
    /\ recorded[r].status = "RUNNING"
    /\ \E s \in TraceTerminal : recorded' = [recorded EXCEPT ![r].status = s]
    /\ UNCHANGED <<exporter, traces, pruner, crashes>>

-----------------------------------------------------------------------------
(* replay_run with its two ledger calls the other way round. *)
ReplayEventsFirst(x) ==
    LET e == exporter[x] IN
    exporter' = [exporter EXCEPT ![x] =
        IF e.at = "record" THEN [e EXCEPT !.at = "events", !.events = recorded[e.run].events]
        ELSE [e EXCEPT !.at = "mkdir", !.status = recorded[e.run].status]]

(* replay_run: get_run, then get_events, then from_replay. *)
Replay(x) ==
    LET e == exporter[x] IN
    exporter' = [exporter EXCEPT ![x] =
        IF e.at = "record" THEN [e EXCEPT !.at = "events", !.status = recorded[e.run].status]
        ELSE [e EXCEPT !.at = "mkdir", !.events = recorded[e.run].events]]

StartExport(x, r) ==
    /\ exporter[x].at = "idle"
    /\ exporter' = [exporter EXCEPT ![x] = [IdleExporter EXCEPT !.at = "record", !.run = r]]
    /\ UNCHANGED <<recorded, traces, pruner, crashes>>

ReplayStep(x) ==
    /\ exporter[x].at \in {"record", "events"}
    /\ Replay(x)
    /\ UNCHANGED <<recorded, traces, pruner, crashes>>

(* The replay digest identifies the events; the artifact carries it too. *)
TraceArtifact(e) == [is |-> "artifact", status |-> e.status, events |-> e.events, digest |-> e.events]

DigestFile(e) == [is |-> "digest", digest |-> e.events]

(* write_trace_artifact: create_dir_all, then the two files.  A directory   *)
(* that the retention pass removed makes the write fail with an I/O error,  *)
(* and the exporter gives up.                                               *)
WriteTrace(x) ==
    LET e == exporter[x]
        step(next) == exporter' = [exporter EXCEPT ![x] = next]
    IN  /\ \/ /\ e.at = "mkdir"
              /\ traces' = [traces EXCEPT ![e.run].dir = TRUE]
              /\ step([e EXCEPT !.at = "json"])
           \/ /\ e.at = "json" /\ traces[e.run].dir
              /\ traces' = [traces EXCEPT ![e.run].json = TraceArtifact(e)]
              /\ step([e EXCEPT !.at = "digest"])
           \/ /\ e.at = "digest" /\ traces[e.run].dir
              /\ traces' = [traces EXCEPT ![e.run].digest = DigestFile(e)]
              /\ step(EndedExporter)
           \/ /\ e.at \in {"json", "digest"} /\ ~traces[e.run].dir
              /\ step(EndedExporter)
              /\ UNCHANGED traces
        /\ UNCHANGED <<recorded, pruner, crashes>>

(* An exporter stops between two steps, or in the middle of writing the     *)
(* JSON, which leaves a prefix of it.                                       *)
CrashExport(x) ==
    LET e == exporter[x] IN
    /\ e.at \in {"json", "digest"} /\ crashes < TraceFaults
    /\ crashes' = crashes + 1
    /\ exporter' = [exporter EXCEPT ![x] = EndedExporter]
    /\ \/ UNCHANGED traces
       \/ /\ e.at = "json" /\ traces[e.run].dir
          /\ traces' = [traces EXCEPT ![e.run].json = Torn]
    /\ UNCHANGED <<recorded, pruner>>

-----------------------------------------------------------------------------
(* read_trace_artifact: the JSON must parse, the companion digest must      *)
(* agree when it is there, and the digest of the events must be the one     *)
(* that the artifact carries.                                               *)
Verified(t) ==
    /\ t.json.is = "artifact"
    /\ t.digest.is = "digest" => t.digest.digest = t.json.digest
    /\ t.json.digest = t.json.events

ReadTrace(r) == [status |-> traces[r].json.status, events |-> traces[r].json.events]

-----------------------------------------------------------------------------
(* RetentionPolicy::prune: first the directories whose trace.json parses    *)
(* are collected, newest first; those too old go, and of the others all but *)
(* the MaxRuns newest.                                                      *)
Young(found) == {r \in found : r >= Cutoff}

Kept(found) == {r \in Young(found) : Cardinality({s \in Young(found) : s > r}) < MaxRuns}

ScanTraces ==
    LET found == {r \in TraceRun : traces[r].dir /\ traces[r].json.is = "artifact"}
    IN  /\ pruner.at = "rest"
        /\ pruner' = [at |-> "removing", kept |-> Kept(found), doomed |-> found \ Kept(found),
                      removed |-> {}]
        /\ UNCHANGED <<recorded, exporter, traces, crashes>>

(* The directories that are too old are removed first, the newest of them   *)
(* first, and then those above the number.                                  *)
NextRemoved(doomed) ==
    LET old == {r \in doomed : r < Cutoff}
        now == IF old = {} THEN doomed ELSE old
    IN  {r \in now : \A s \in now : s <= r}

(* A removal that fails may have removed some of the files, and its error   *)
(* ends the pass.  Nobody else removes directories.                         *)
LeftOver(t) == {[t EXCEPT !.json = j, !.digest = d] : j \in {t.json, NoFile}, d \in {t.digest, NoFile}}

PruneTrace ==
    /\ pruner.at = "removing"
    /\ \/ /\ pruner.doomed = {}
          /\ pruner' = Resting
          /\ UNCHANGED traces
       \/ \E r \in NextRemoved(pruner.doomed) :
             \/ /\ traces' = [traces EXCEPT ![r] = NoDir]
                /\ pruner' = [pruner EXCEPT !.doomed = @ \ {r}, !.removed = @ \cup {r}]
             \/ /\ \E t \in LeftOver(traces[r]) : traces' = [traces EXCEPT ![r] = t]
                /\ pruner' = Resting
    /\ UNCHANGED <<recorded, exporter, crashes>>

TraceNext ==
    \/ \E r \in TraceRun : RecordEvent(r) \/ EndRun(r)
    \/ \E x \in Exporter :
          \/ \E r \in TraceRun : StartExport(x, r)
          \/ ReplayStep(x) \/ WriteTrace(x) \/ CrashExport(x)
    \/ ScanTraces \/ PruneTrace

TraceSpec == TraceInit /\ [][TraceNext]_traceVars

-----------------------------------------------------------------------------
TraceTypeOK ==
    /\ recorded \in [TraceRun -> [status : {"RUNNING"} \cup TraceTerminal, events : 0 .. MaxRecorded]]
    /\ exporter \in [Exporter -> [at : {"idle", "record", "events", "mkdir", "json", "digest", "ended"},
                                  run : TraceRun \cup {0}, status : {"unknown", "RUNNING"} \cup TraceTerminal,
                                  events : 0 .. MaxRecorded]]
    /\ \A r \in TraceRun :
          /\ traces[r].dir \/ traces[r] = NoDir
          /\ traces[r].json \in {NoFile, Torn} \cup RunTraceArtifact
          /\ traces[r].digest \in {NoFile} \cup [is : {"digest"}, digest : 0 .. MaxRecorded]
    /\ pruner \in RetentionPass /\ crashes \in 0 .. TraceFaults

(* An artifact that read_trace_artifact accepts and that says its run has   *)
(* ended holds every event of the run and the status it ended with: "a      *)
(* self-contained, content-verified record of a completed run".  It rests   *)
(* on the record being read before the events, on a torn or mismatched pair *)
(* of files being refused, and on ended runs not changing.                  *)
(* The retention pass never removes a run and keeps an older one.           *)
TraceSound ==
    /\ \A r \in TraceRun :
          Verified(traces[r]) /\ traces[r].json.status \in TraceTerminal =>
              ReadTrace(r) = recorded[r]
    /\ \A r \in pruner.removed, k \in pruner.kept : k > r

=============================================================================

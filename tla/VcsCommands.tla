---------------------------- MODULE VcsCommands ----------------------------
(***************************************************************************)
(* The commands that write agent commits: init, snapshot, fork and merge   *)
(* of the CLI, and the recording of memories and decisions.  A command is  *)
(* one or more tasks, each a sequence of calls on the state handle that    *)
(* stops at the first error.  Identifiers are hashes: they are modelled by *)
(* what is hashed.                                                         *)
(***************************************************************************)
EXTENDS StateHandle, FiniteSetsExt, SequencesExt

CONSTANTS Worker,       (* concurrent users of the handle *)
          SnapshotInput,  (* pairs of a state and its parents, at most one *)
          ForkInput,    (* commits to fork from *)
          ForkCount,    (* forks made by one fork command *)
          MergeInput,   (* pairs of commits to merge *)
          MemoryInput,  (* pairs of a commit and a content to remember *)
          RecordInput,  (* pairs of a collection and a key to register *)
          DecisionInput,  (* decisions an agent may record *)
          RecorderConfig, (* DecisionRecorderConfig *)
          Text,         (* contents of memories *)
          Detail,       (* Text -> Nat: the score of a content's length *)
          MaxCommands,  (* bound on the commands issued *)
          VcsFaults     (* bound on lost calls and restarts *)

ASSUME VcsAssumption ==
    /\ ForkCount \in Nat /\ MaxCommands \in Nat /\ VcsFaults \in Nat
    /\ Detail \in [Text -> Nat]
    /\ \A in \in SnapshotInput : in[2] \in Seq(ToSet(in[2]))
    /\ \A in \in RecordInput : in[1] \in {"agents", "ci_snapshots", "ci_pipelines", "ci_runs"}

VARIABLES job,    (* worker -> the command it runs *)
          acked,  (* commits whose command returned Ok *)
          issued, vfaults

vcsVars == <<handleVars, job, acked, issued, vfaults>>

IdleJob == [tasks |-> <<>>, failed |-> {}, made |-> {}]

InitialCommit    == <<"init">>
SnapshotId(s)    == <<"state", s>>
ForkId(parent, i) == <<"fork", parent, i>>
MergeId(a, b)    == <<"merge", a, b>>

VcsInit ==
    /\ HandleInit
    /\ job = [w \in Worker |-> IdleJob]
    /\ acked = {} /\ issued = 0 /\ vfaults = 0

Idle(w) == job[w] = IdleJob

Issue(w, tasks, made) ==
    /\ mode # "unset" /\ Idle(w) /\ issued < MaxCommands
    /\ job' = [job EXCEPT ![w] = [tasks |-> tasks, failed |-> {}, made |-> made]]
    /\ issued' = issued + 1
    /\ UNCHANGED <<handleVars, acked, vfaults>>

-----------------------------------------------------------------------------
(* Setting up the handle, once per process.                                *)
VcsSetup == SetupFromEnv /\ UNCHANGED <<job, acked, issued, vfaults>>

CmdInit(w) ==
    Issue(w, << <<SaveSnapshot(InitialCommit, "initial"), SaveCommit(InitialCommit, <<>>)>> >>,
          {InitialCommit})

(* The identity of a snapshot does not depend on its parent.  A plausible  *)
(* bug records the commit first, as save_merge_commit does.                *)
CommitFirstCalls(id, s, parents, kind) ==
    <<SaveCommit(id, parents), SaveSnapshot(id, s)>>
      \o [i \in DOMAIN parents |-> SaveEdge(id, parents[i], kind)]

SnapshotCalls(id, s, parents, kind) ==
    <<SaveSnapshot(id, s), SaveCommit(id, parents)>>
      \o [i \in DOMAIN parents |-> SaveEdge(id, parents[i], kind)]

CmdSnapshot(w, s, parents) ==
    Issue(w, <<SnapshotCalls(SnapshotId(s), s, parents, "normal")>>, {SnapshotId(s)})

(* fork_agent_parallel: the parent's snapshot must load; then one spawned  *)
(* task per fork.                                                          *)
CmdFork(w, parent) ==
    /\ LoadSnapshot(parent)
    /\ Issue(w, [i \in 1 .. ForkCount |->
                    SnapshotCalls(ForkId(parent, i), docs["snapshots"][parent], <<parent>>, "normal")],
             {ForkId(parent, i) : i \in 1 .. ForkCount})

(* conflict_score: content length and number of metadata fields; recency   *)
(* adds at most one, so it decides when they are level.                    *)
Signals(m) == Detail[m.text] + m.meta

ResolveConflict(ma, mb) ==
    LET won(m) == [text |-> m.text, meta |-> 3]  (* merged_from, resolution, confidence *)
    IN  {won(m) : m \in {x \in {ma, mb} : Signals(x) >= Signals(ma) /\ Signals(x) >= Signals(mb)}}

(* synthesize_memory: the memories of the merge commit, from one reading   *)
(* of the in-process memories of its parents.                              *)
SynthesizeMemory(a, b) ==
    LET ma == GetMemories(a)
        mb == GetMemories(b)
        options(k) ==
            IF k \notin DOMAIN mb THEN {ma[k]}
            ELSE IF k \notin DOMAIN ma THEN {mb[k]}
            ELSE IF ma[k].text = mb[k].text THEN {ma[k]} ELSE ResolveConflict(ma[k], mb[k])
        keys == DOMAIN ma \cup DOMAIN mb
    IN  {f \in [keys -> UNION {options(k) : k \in keys}] : \A k \in keys : f[k] \in options(k)}

(* semantic_merge: memories, snapshot, commit, one edge per parent.        *)
CmdMerge(w, a, b) ==
    \E merged \in SynthesizeMemory(a, b) :
        LET id   == MergeId(a, b)
            keys == SetToSeq(DOMAIN merged)
        IN  Issue(w, <<[i \in DOMAIN keys |-> SaveMemory(id, keys[i], merged[keys[i]])]
                         \o SnapshotCalls(id, "merged", <<a, b>>, "merge")>>,
                  {id})

(* A memory noted by an agent.                                             *)
CmdRemember(w, commit, text) ==
    Issue(w, << <<SaveMemory(commit, "note", [text |-> text, meta |-> 0])>> >>, {})

(* should_capture_source; a payload is given by its size, a confidence in  *)
(* percent.                                                                *)
Captured(d) ==
    /\ RecorderConfig.enabled
    /\ d.source = "event" => RecorderConfig.events
    /\ d.source = "tool" => RecorderConfig.tools

(* record_decision_with_source: what is not captured or not valid is not   *)
(* recorded.  Its id is new.                                               *)
CmdDecide(w, d) ==
    /\ Captured(d) /\ d.confidence \in 0 .. 100 /\ d.size <= RecorderConfig.maxSize
    /\ Issue(w, << <<SaveDecision(issued, "open")>> >>, {})

(* record_decision_outcome.                                                *)
CmdDecisionOutcome(w) ==
    /\ RecorderConfig.enabled
    /\ \E id \in DOMAIN decisions : Issue(w, << <<UpdateOutcome(id, "outcome")>> >>, {})

(* register_agent, save_ci_snapshot, save_ci_pipeline and save_ci_run.     *)
CmdRegister(w, coll, k) == Issue(w, << <<CreateCall(coll, k, k)>> >>, {})

CmdForget(w) ==
    /\ mode # "unset" /\ Idle(w) /\ DOMAIN memories # {} /\ issued < MaxCommands
    /\ DeleteMemory("note") \/ \E id \in DOMAIN memories : DeleteMemoryById(id)
    /\ issued' = issued + 1
    /\ UNCHANGED <<job, acked, vfaults>>

-----------------------------------------------------------------------------
(* One call of task i of worker w.                                         *)
Pending(w, i) == i \in DOMAIN job[w].tasks /\ job[w].tasks[i] # <<>>

TaskAdvance(w, i) == job' = [job EXCEPT ![w].tasks[i] = Tail(@)]

TaskStops(w, i) ==
    job' = [job EXCEPT ![w].tasks[i] = <<>>, ![w].failed = @ \cup {i}]

TaskCall(w, i) ==
    /\ Pending(w, i)
    /\ LET c == Head(job[w].tasks[i])
       IN  \/ CallSucceeds(c) /\ TaskAdvance(w, i)
           \/ Refused(c) /\ TaskStops(w, i) /\ UNCHANGED handleVars
    /\ UNCHANGED <<acked, issued, vfaults>>

TaskCallLost(w, i) ==
    /\ Pending(w, i) /\ vfaults < VcsFaults
    /\ CallLost(Head(job[w].tasks[i])) /\ TaskStops(w, i)
    /\ vfaults' = vfaults + 1
    /\ UNCHANGED <<acked, issued>>

(* The tasks are awaited in order; the first error is returned and ends    *)
(* the process' runtime, and the tasks still running with it.              *)
CommandReturns(w) ==
    /\ ~Idle(w)
    /\ LET done(i) == ~Pending(w, i) /\ i \notin job[w].failed
           all == DOMAIN job[w].tasks
       IN  \/ (\A i \in all : done(i)) /\ acked' = acked \cup job[w].made
           \/ /\ \E i \in job[w].failed : \A j \in 1 .. i - 1 : done(j)
              /\ UNCHANGED acked
    /\ job' = [job EXCEPT ![w] = IdleJob]
    /\ UNCHANGED <<handleVars, issued, vfaults>>

(* The process dies between two calls and is started again.                *)
VcsRestart ==
    /\ mode # "unset" /\ vfaults < VcsFaults
    /\ HandleRestart
    /\ job' = [w \in Worker |-> IdleJob]
    /\ acked' = IF mode = "local" THEN {} ELSE acked
    /\ vfaults' = vfaults + 1
    /\ UNCHANGED issued

VcsNext ==
    \/ VcsSetup \/ VcsRestart
    \/ \E w \in Worker :
         \/ CmdInit(w) \/ CmdForget(w) \/ CmdDecisionOutcome(w) \/ CommandReturns(w)
         \/ \E d \in DecisionInput : CmdDecide(w, d)
         \/ \E in \in SnapshotInput : CmdSnapshot(w, in[1], in[2])
         \/ \E p \in ForkInput : CmdFork(w, p)
         \/ \E in \in MergeInput : CmdMerge(w, in[1], in[2])
         \/ \E in \in MemoryInput : CmdRemember(w, in[1], in[2])
         \/ \E in \in RecordInput : CmdRegister(w, in[1], in[2])
         \/ \E i \in DOMAIN job[w].tasks : TaskCall(w, i) \/ TaskCallLost(w, i)

VcsSpec == VcsInit /\ [][VcsNext]_vcsVars

-----------------------------------------------------------------------------
VcsTypeOK ==
    /\ HandleTypeOK
    /\ acked \subseteq DOMAIN docs["commits"]
    /\ issued \in 0 .. MaxCommands /\ vfaults \in 0 .. VcsFaults

(* Whatever fails, is lost or dies between two calls, a commit that can be *)
(* found can be restored: its snapshot was written before it.              *)
CommitHasSnapshot == DOMAIN docs["commits"] \subseteq DOMAIN docs["snapshots"]

(* A commit and its ancestors by the parents their records name.           *)
Ancestors(c) ==
    LET stored == DOMAIN docs["commits"]
        line[n \in 0 .. Cardinality(stored)] ==
            IF n = 0 THEN {c}
            ELSE LET below == line[n - 1]
                 IN  below \cup UNION {ToSet(docs["commits"][d]) : d \in below \cap stored}
    IN  line[Cardinality(stored)]

(* A command that returned Ok left a whole commit: its history lists each  *)
(* stored ancestor exactly once, provided the commands that made them      *)
(* returned Ok too, and the trace shows a state for each.                  *)
AckedHistoryWhole ==
    \A c \in acked :
        LET line == Ancestors(c) \cap DOMAIN docs["commits"]
            walk == GetCommitHistory(c, 10)
        IN  line \subseteq acked =>
               /\ ToSet(walk) = line /\ Len(walk) = Cardinality(line)
               /\ GetReasoningTrace(c) = walk

=============================================================================

---------------------------- MODULE StateHandle ----------------------------
(***************************************************************************)
(* SurrealHandle, the persistence handle every command works through.      *)
(* With data-mesh configured ("mesh") commits, snapshots, edges and CI     *)
(* records live in its collections; memories and decisions live in the     *)
(* process and are copied to the mesh ("write-through").  Without it       *)
(* ("local") everything lives in the process.  A call is a record          *)
(* [op, coll, key, doc]; what it does is given by operators, so that the   *)
(* commands of the modules that extend this one are sequences of calls.    *)
(***************************************************************************)
EXTENDS Naturals, Sequences, FiniteSets

VARIABLES mode,      (* "unset", "mesh" or "local" *)
          docs,      (* collection -> key -> document *)
          edges,     (* the commit graph, in the order of insertion *)
          memories,  (* in-process: <<commit, key>> -> memory *)
          decisions  (* in-process: decision id -> decision *)

handleVars == <<mode, docs, edges, memories, decisions>>

Collection == {"commits", "snapshots", "agents", "ci_snapshots", "ci_pipelines",
               "ci_runs", "memories", "decisions"}

NoDocs == [k \in {} |-> {}]

EdgeType == {"normal", "merge", "fork"}

(* A GraphEdge, a memory and a decision with what the commands read of     *)
(* them: the number of metadata fields, and whether the outcome is known.  *)
IsGraphEdge(e) == Len(e) = 3 /\ e[3] \in EdgeType

IsMemoryRecord(m) == DOMAIN m = {"text", "meta"} /\ m.meta \in 0 .. 3

DecisionRecord == {"open", "outcome"}

(* SurrealHandle: the mode, and the MemoryStore or the mesh behind it.     *)
HandleTypeOK ==
    /\ mode \in {"unset", "mesh", "local"}
    /\ DOMAIN docs = Collection
    /\ \A i \in DOMAIN edges : IsGraphEdge(edges[i])
    /\ \A m \in DOMAIN memories : IsMemoryRecord(memories[m])
    /\ \A d \in DOMAIN decisions : decisions[d] \in DecisionRecord
    /\ mode = "unset" => memories = NoDocs /\ decisions = NoDocs
    /\ mode = "mesh" => \A i, j \in DOMAIN edges : edges[i] = edges[j] => i = j

HandleInit ==
    /\ mode = "unset"
    /\ docs = [c \in Collection |-> NoDocs]
    /\ edges = <<>>
    /\ memories = NoDocs
    /\ decisions = NoDocs

(* setup_from_env: without the mesh's variables the handle is in-process,  *)
(* and it starts with nothing.                                             *)
SetupFromEnv ==
    /\ mode = "unset"
    /\ mode' \in {"mesh", "local"}
    /\ mode' = "local" => edges = <<>> /\ docs = [c \in Collection |-> NoDocs]
    /\ UNCHANGED <<docs, edges, memories, decisions>>

-----------------------------------------------------------------------------
(* Calls.                                                                  *)
CreateCall(coll, k, d)   == [op |-> "create", coll |-> coll, key |-> k, doc |-> d]
SaveCommit(id, parents)  == CreateCall("commits", id, parents)
SaveSnapshot(id, s)      == CreateCall("snapshots", id, s)
SaveEdge(child, parent, kind) ==
    [op |-> "edge", coll |-> "edges", key |-> <<child, parent, kind>>, doc |-> kind]
SaveMemory(commit, k, m) ==
    [op |-> "memory", coll |-> "memories", key |-> <<commit, k>>, doc |-> m]
SaveDecision(id, d) == [op |-> "decision", coll |-> "decisions", key |-> id, doc |-> d]
UpdateOutcome(id, d) == [op |-> "outcome", coll |-> "decisions", key |-> id, doc |-> d]

(* Insertion into a map, over what is there.                               *)
Inserted(f, k, d) == [x \in DOMAIN f \cup {k} |-> IF x = k THEN d ELSE f[x]]

(* create_document_idempotent under the domain key: the first document     *)
(* stays.                                                                  *)
MeshCreate(f, k, d) == IF k \in DOMAIN f THEN f ELSE Inserted(f, k, d)

(* A call that ends in a Transaction error: it changes nothing.            *)
Refused(c) ==
    CASE c.op = "create"   -> c.key \in DOMAIN docs[c.coll]
      [] c.op = "decision" -> c.key \in DOMAIN decisions
      [] c.op = "outcome"  -> c.key \notin DOMAIN decisions
      [] OTHER             -> FALSE

(* What a call changes in the store of the records: for a memory, a        *)
(* decision or its outcome the copy that mesh_write_through makes, under   *)
(* the same key every time.                                                *)
DocsAfter(c) ==
    IF c.op = "edge" \/ (c.op # "create" /\ mode = "local") THEN docs
    ELSE [docs EXCEPT ![c.coll] = MeshCreate(@, c.key, c.doc)]

(* An edge is keyed in the mesh; the in-process vector takes duplicates.   *)
EdgesAfter(c) ==
    LET seen == \E i \in DOMAIN edges : edges[i] = c.key
    IN  IF c.op = "edge" /\ ~(mode = "mesh" /\ seen) THEN Append(edges, c.key) ELSE edges

(* save_memory inserts over what is there, before the mesh is called; so   *)
(* do save_decision and update_decision_outcome.                           *)
MemoriesAfter(c) == IF c.op = "memory" THEN Inserted(memories, c.key, c.doc) ELSE memories

DecisionsAfter(c) ==
    IF c.op \in {"decision", "outcome"} THEN Inserted(decisions, c.key, c.doc) ELSE decisions

CallSucceeds(c) ==
    /\ ~Refused(c)
    /\ docs' = DocsAfter(c) /\ edges' = EdgesAfter(c)
    /\ memories' = MemoriesAfter(c) /\ decisions' = DecisionsAfter(c)
    /\ UNCHANGED mode

(* The request is lost, or its answer is: the in-process part is done, the *)
(* other part is or is not, and the caller gets an error.                  *)
CallLost(c) ==
    /\ mode = "mesh"
    /\ \E applied \in BOOLEAN :
          /\ docs' = IF applied THEN DocsAfter(c) ELSE docs
          /\ edges' = IF applied THEN EdgesAfter(c) ELSE edges
    /\ memories' = MemoriesAfter(c)
    /\ decisions' = IF Refused(c) THEN decisions ELSE DecisionsAfter(c)
    /\ UNCHANGED mode

(* The process ends: what is in the process is gone.                       *)
HandleRestart ==
    /\ mode' = "unset"
    /\ memories' = NoDocs /\ decisions' = NoDocs
    /\ docs' = IF mode = "local" THEN [c \in Collection |-> NoDocs] ELSE docs
    /\ edges' = IF mode = "local" THEN <<>> ELSE edges

-----------------------------------------------------------------------------
(* Reads.                                                                  *)
MeshGet(coll, id) == id \in DOMAIN docs[coll]

GetCommit(id)    == MeshGet("commits", id)
LoadSnapshot(id) == MeshGet("snapshots", id)

EdgesOf(child) == SelectSeq(edges, LAMBDA e : e[1] = child)

(* get_parents and get_parent, from all_edges.                             *)
GetParents(child) == [i \in DOMAIN EdgesOf(child) |-> EdgesOf(child)[i][2]]

GetParent(child) == SubSeq(GetParents(child), 1, IF EdgesOf(child) = <<>> THEN 0 ELSE 1)

(* get_memories: the memories of a commit, by key.                         *)
GetMemories(commit) ==
    [k \in {m[2] : m \in {n \in DOMAIN memories : n[1] = commit}} |-> memories[<<commit, k>>]]

(* delete_memory removes a key from every commit, delete_memory_by_id one  *)
(* record; neither tells the mesh.                                         *)
Without(f, gone) == [k \in DOMAIN f \ gone |-> f[k]]

DeleteMemory(k) ==
    /\ memories' = Without(memories, {m \in DOMAIN memories : m[2] = k})
    /\ UNCHANGED <<mode, docs, edges, decisions>>

DeleteMemoryById(id) ==
    /\ memories' = Without(memories, {id})
    /\ UNCHANGED <<mode, docs, edges, decisions>>

(* The parents the walk of get_commit_history follows from a commit: its   *)
(* edges, or the first recorded parent when it has none.  A plausible bug  *)
(* asks get_parent.                                                        *)
WalkParentsFirst(id) == GetParent(id)

WalkParents(id) ==
    LET recorded == docs["commits"][id]
    IN  IF GetParents(id) # <<>> THEN GetParents(id)
        ELSE IF recorded # <<>> THEN <<recorded[1]>> ELSE <<>>

(* get_commit_history: breadth first, each commit once, at most limit; a   *)
(* commit that is not stored ends its line.                                *)
HistoryRound(w, limit) ==
    LET id == Head(w.queue)
        ps == IF GetCommit(id) THEN WalkParents(id) ELSE <<>>
        fresh == SelectSeq([i \in DOMAIN ps |->
                     IF ps[i] \in w.visited \/ \E j \in 1 .. i - 1 : ps[j] = ps[i]
                     THEN <<>> ELSE <<ps[i]>>], LAMBDA x : x # <<>>)
        next == [i \in DOMAIN fresh |-> fresh[i][1]]
    IN  IF w.queue = <<>> \/ Len(w.history) >= limit THEN w
        ELSE [queue   |-> Tail(w.queue) \o next,
              visited |-> w.visited \cup {next[i] : i \in DOMAIN next},
              history |-> IF GetCommit(id) THEN Append(w.history, id) ELSE w.history]

(* What enters the queue after the start is the end of an edge or the      *)
(* recorded parent of a commit, so that the rounds are as many at most.    *)
GetCommitHistory(start, limit) ==
    LET rounds == 1 + Len(edges) + Cardinality(DOMAIN docs["commits"])
        walk[n \in 0 .. rounds] ==
            IF n = 0 THEN [queue |-> <<start>>, visited |-> {start}, history |-> <<>>]
            ELSE HistoryRound(walk[n - 1], limit)
    IN  walk[rounds].history

(* get_reasoning_trace: the snapshots along the history; one that is       *)
(* missing is skipped.                                                     *)
GetReasoningTrace(id) == SelectSeq(GetCommitHistory(id, 100), LoadSnapshot)

=============================================================================

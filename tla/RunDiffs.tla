------------------------------ MODULE RunDiffs ------------------------------
(***************************************************************************)
(* How two recorded runs, two graph snapshots and two specifications are   *)
(* compared: the tool calls of the runs aligned by a longest common        *)
(* subsequence of their names, the node paths by their common prefix, the  *)
(* last checkpoints at chosen pointers, the graphs and the specifications  *)
(* leaf by leaf.  The comparisons are operators; the variable holds the    *)
(* pair being compared.  An event is [kind, name, payload]: `name` is the  *)
(* string under payload["tool_name"] or payload["node_id"], "none" when    *)
(* there is no such string, and `payload` the other leaves, a function     *)
(* from pointers to values ("null" included) over the pointers present.    *)
(***************************************************************************)
EXTENDS Integers, Sequences, FiniteSets, FiniteSetsExt, TLC

CONSTANTS
    EventInput,      \* the events a run may record
    MaxRunEvents,    \* bound on the events of a run
    GraphInput,      \* the states with an embedded graph
    LeafMap          \* the values of a specification, pointer to value: "empty" is an
                     \* object without members or an array without elements

ASSUME RunDiffsAssumption == MaxRunEvents \in Nat

VARIABLE compared    \* [kind, a, b]

NothingCompared == [kind |-> "nothing", a |-> {}, b |-> {}]

(* val.get(key).unwrap_or(&Value::Null) *)
At(payload, key) == IF key \in DOMAIN payload THEN payload[key] ELSE "null"

(* json_diff and param_delta: the pointers at which two values differ.  An  *)
(* absent member and a null are the same.                                   *)
ParamDelta(p, q) == {key \in DOMAIN p \cup DOMAIN q : At(p, key) # At(q, key)}

(* The `seq` of an event is its position in the run: the ledger returns the *)
(* events in seq order and the recorder numbers them without a gap.         *)
Numbered(events) == [i \in DOMAIN events |-> events[i] @@ [seq |-> i]]

(* The elements at the positions of S, in order: what a filter keeps.       *)
Selected(events, S) ==
    [n \in 1..Cardinality(S) |->
        events[CHOOSE i \in S : Cardinality({j \in S : j < i}) = n - 1]]

-----------------------------------------------------------------------------
(* Tool calls.  tool_calls.rs drops a call without a name, lcs_diff.rs      *)
(* calls it "unknown".                                                      *)
NamedCalls(events) ==
    Selected(Numbered(events),
             {i \in DOMAIN events : events[i].kind = "tool_called" /\ events[i].name # "none"})

AllCalls(events) ==
    LET calls == Selected(Numbered(events), {i \in DOMAIN events : events[i].kind = "tool_called"})
    IN  [i \in DOMAIN calls |->
            IF calls[i].name = "none" THEN [calls[i] EXCEPT !.name = "unknown"]
            ELSE calls[i]]

(* The table of lcs_alignment: the length of the longest common subsequence *)
(* of the first p[1] calls of A and the first p[2] calls of B.              *)
LcsTable(a, b) ==
    LET dp[p \in (0..Len(a)) \X (0..Len(b))] ==
            IF p[1] = 0 \/ p[2] = 0 THEN 0
            ELSE IF a[p[1]].name = b[p[2]].name THEN dp[<<p[1] - 1, p[2] - 1>>] + 1
            ELSE Max({dp[<<p[1], p[2] - 1>>], dp[<<p[1] - 1, p[2]>>]})
    IN  dp

(* A backtrack that always drops the call of A. *)
LcsAlignmentDropsA(a, b) ==
    LET from[p \in (0..Len(a)) \X (0..Len(b))] ==
            IF p[1] = 0 \/ p[2] = 0 THEN {}
            ELSE IF a[p[1]].name = b[p[2]].name
                 THEN from[<<p[1] - 1, p[2] - 1>>] \cup {p}
            ELSE from[<<p[1] - 1, p[2]>>]
    IN  from[<<Len(a), Len(b)>>]

(* The backtrack of lcs_alignment: the set of aligned index pairs. *)
LcsAlignment(a, b) ==
    LET dp == LcsTable(a, b)
        from[p \in (0..Len(a)) \X (0..Len(b))] ==
            IF p[1] = 0 \/ p[2] = 0 THEN {}
            ELSE IF a[p[1]].name = b[p[2]].name
                 THEN from[<<p[1] - 1, p[2] - 1>>] \cup {p}
            ELSE IF dp[<<p[1], p[2] - 1>>] > dp[<<p[1] - 1, p[2]>>]
                 THEN from[<<p[1], p[2] - 1>>]
            ELSE from[<<p[1] - 1, p[2]>>]
    IN  from[<<Len(a), Len(b)>>]

Firsts(pairs) == {p[1] : p \in pairs}
Seconds(pairs) == {p[2] : p \in pairs}

(* A call of B may be taken twice. *)
ReorderTargetsRepeated(a, b, aligned) ==
    {p \in (DOMAIN a) \X (DOMAIN b) :
        /\ p[1] \notin Firsts(aligned)
        /\ LET free == {j \in DOMAIN b : j \notin Seconds(aligned) /\ b[j].name = a[p[1]].name}
           IN  free # {} /\ p[2] = Min(free)}

(* Every unaligned call of A takes the first unaligned call of B of its     *)
(* name that none took before it: a reorder.                                *)
ReorderTargets(a, b, aligned) ==
    LET taken[i \in 0..Len(a)] ==
            IF i = 0 THEN {}
            ELSE LET free == {j \in DOMAIN b : /\ j \notin Seconds(aligned)
                                               /\ j \notin Seconds(taken[i - 1])
                                               /\ b[j].name = a[i].name}
                 IN  IF i \in Firsts(aligned) \/ free = {} THEN taken[i - 1]
                     ELSE taken[i - 1] \cup {<<i, Min(free)>>}
    IN  taken[Len(a)]

(* ToolCallChange: a call is named by its position. *)
ToolCallChanges(a, b) ==
    [added : SUBSET DOMAIN b, removed : SUBSET DOMAIN a,
     reordered : SUBSET ((DOMAIN a) \X (DOMAIN b)),
     paramChanged : SUBSET ((DOMAIN a) \X (DOMAIN b))]

(* tool_calls::diff_tool_calls on the extracted calls.  A reordered call    *)
(* whose parameters changed is in both sets.                                *)
ToolCallDiff(a, b) ==
    LET aligned == LcsAlignment(a, b)
        moved == ReorderTargets(a, b, aligned)
    IN  [added        |-> (DOMAIN b \ Seconds(aligned)) \ Seconds(moved),
         removed      |-> (DOMAIN a \ Firsts(aligned)) \ Firsts(moved),
         reordered    |-> moved,
         paramChanged |-> {p \in aligned \cup moved :
                              ParamDelta(a[p[1]].payload, b[p[2]].payload) # {}}]

(* build_run_diff: the counters that `aivcs diff run` prints. *)
RunDiffOutput(eventsA, eventsB) ==
    LET diff == ToolCallDiff(NamedCalls(eventsA), NamedCalls(eventsB))
        count == [c \in DOMAIN diff |-> Cardinality(diff[c])]
    IN  count @@ [events_a |-> Len(eventsA), events_b |-> Len(eventsB),
                  tool_call_changes |-> count.added + count.removed
                                        + count.reordered + count.paramChanged]

(* lcs_diff::diff_tool_calls.  A pair is reordered when the order of the    *)
(* indices and of the numbers differ from the pair before it.               *)
LcsSummary(a, b) ==
    LET aligned == LcsAlignment(a, b)
        before(p) == {q \in aligned : q[1] < p[1]}
        previous(p) == CHOOSE q \in before(p) : \A r \in before(p) : r[1] <= q[1]
        isReordered(p) ==
            /\ before(p) # {}
            /\ LET q == previous(p)
               IN  \/ (p[1] > q[1]) # (a[p[1]].seq > a[q[1]].seq)
                   \/ (p[2] > q[2]) # (b[p[2]].seq > b[q[2]].seq)
    IN  [removed    |-> DOMAIN a \ Firsts(aligned),
         added      |-> DOMAIN b \ Seconds(aligned),
         reordered  |-> {p \in aligned : isReordered(p)},
         paramDelta |-> {p \in aligned : /\ ~isReordered(p)
                                         /\ ParamDelta(a[p[1]].payload,
                                                       b[p[2]].payload) # {}}]

Identical(summary) == \A c \in DOMAIN summary : summary[c] = {}

-----------------------------------------------------------------------------
(* Node paths: extract_node_path and diff_node_paths. *)
NodePath(events) ==
    Selected(Numbered(events),
             {i \in DOMAIN events : events[i].kind = "node_entered" /\ events[i].name # "none"})

CommonPrefix(p, q) ==
    Max({n \in 0..Min({Len(p), Len(q)}) :
            \A i \in 1..n : p[i].name = q[i].name})

NodePathDiff(p, q) ==
    LET n == CommonPrefix(p, q)
    IN  IF n = Len(p) /\ n = Len(q) THEN [diverged |-> FALSE]
        ELSE [diverged |-> TRUE,
              prefix |-> [i \in 1..n |-> p[i].name],
              tailA |-> SubSeq(p, n + 1, Len(p)),
              tailB |-> SubSeq(q, n + 1, Len(q))]

(* The payload of the last checkpoint, with no members when there is none;  *)
(* diff_run_states at a set of pointers.                                    *)
LastCheckpoint(events) ==
    LET saved == {i \in DOMAIN events : events[i].kind = "checkpoint_saved"}
    IN  IF saved = {} THEN <<>> ELSE events[Max(saved)].payload

DiffRunStates(eventsA, eventsB, pointers) ==
    ParamDelta(LastCheckpoint(eventsA), LastCheckpoint(eventsB)) \cap pointers

(* find_resume_point: the events up to the last checkpoint, which must name *)
(* its node and its checkpoint.                                             *)
ResumePoint(events) ==
    LET saved == {i \in DOMAIN events : events[i].kind = "checkpoint_saved"}
        last == Max(saved)
    IN  IF saved = {} THEN [found |-> "none"]
        ELSE IF "/checkpoint_id" \notin DOMAIN events[last].payload
                \/ events[last].name = "none" THEN [found |-> "error"]
        ELSE [found |-> "point", eventsBefore |-> SubSeq(events, 1, last)]

-----------------------------------------------------------------------------
(* Graph snapshots.  A state is [entry, exits, nodes, edges, prompts]:      *)
(* `nodes` a sequence of [id, prompt] ("none" without an inline prompt, or  *)
(* for a node that is just a string) and `prompts` the top-level map, which *)
(* overrides the inline ones.                                               *)
InlinePrompts(state) ==
    LET prompted == {i \in DOMAIN state.nodes : state.nodes[i].prompt # "none"}
        last(id) == Max({i \in prompted : state.nodes[i].id = id})
    IN  [id \in {state.nodes[i].id : i \in prompted} |-> state.nodes[last(id)].prompt]

GraphSnapshot(state) ==
    [entry   |-> state.entry,
     exits   |-> state.exits,
     nodes   |-> {state.nodes[i].id : i \in DOMAIN state.nodes},
     edges   |-> state.edges,
     prompts |-> state.prompts @@ InlinePrompts(state)]

(* has_semantic_content *)
HasSemanticContent(g) ==
    g.nodes # {} \/ g.edges # {} \/ DOMAIN g.prompts # {} \/ g.entry # "none" \/ g.exits # <<>>

PromptAt(g, id) == IF id \in DOMAIN g.prompts THEN g.prompts[id] ELSE "none"

SemanticGraphDiff(base, head) ==
    [prompts      |-> {id \in DOMAIN base.prompts \cup DOMAIN head.prompts :
                          PromptAt(base, id) # PromptAt(head, id)},
     nodesAdded   |-> head.nodes \ base.nodes,
     nodesRemoved |-> base.nodes \ head.nodes,
     edgesAdded   |-> head.edges \ base.edges,
     edgesRemoved |-> base.edges \ head.edges,
     entry        |-> IF base.entry # head.entry THEN {<<base.entry, head.entry>>} ELSE {},
     exits        |-> IF base.exits # head.exits THEN {<<base.exits, head.exits>>} ELSE {}]

(* collect_leaf_paths walks objects and arrays alike, and finds nothing in  *)
(* an empty one.                                                            *)
CollectLeafPaths(value) ==
    [p \in {q \in DOMAIN value : value[q] # "empty"} |-> value[p]]

(* build_spec_diff, on the leaves of the two values. *)
SpecDiff(left, right) ==
    [changed |-> {p \in DOMAIN left \cap DOMAIN right : left[p] # right[p]},
     onlyA   |-> DOMAIN left \ DOMAIN right,
     onlyB   |-> DOMAIN right \ DOMAIN left]

-----------------------------------------------------------------------------
Events == UNION {[1..n -> EventInput] : n \in 0..MaxRunEvents}

DiffInit == compared = NothingCompared

(* `aivcs diff run`, `diff-runs`, and the library's node and state diffs. *)
CompareRuns ==
    /\ compared.kind = "nothing"
    /\ \E a, b \in Events : compared' = [kind |-> "runs", a |-> a, b |-> b]

(* `aivcs pr semantic-summary`. *)
CompareGraphs ==
    /\ compared.kind = "nothing"
    /\ \E a, b \in GraphInput : compared' = [kind |-> "graphs", a |-> a, b |-> b]

(* `aivcs diff spec`. *)
CompareSpecs ==
    /\ compared.kind = "nothing"
    /\ \E a, b \in LeafMap : compared' = [kind |-> "specs", a |-> a, b |-> b]

DiffNext == CompareRuns \/ CompareGraphs \/ CompareSpecs

DiffSpec == DiffInit /\ [][DiffNext]_compared

-----------------------------------------------------------------------------
(* The alignment is a strictly increasing matching of equal names, and no   *)
(* common subsequence is longer.                                            *)
IsAlignment(a, b, pairs) ==
    /\ pairs \subseteq (DOMAIN a) \X (DOMAIN b)
    /\ \A p \in pairs : a[p[1]].name = b[p[2]].name
    /\ \A p, q \in pairs : p # q => p[1] # q[1] /\ p[2] # q[2] /\ (p[1] < q[1] <=> p[2] < q[2])

AlignmentMaximal(a, b) ==
    LET aligned == LcsAlignment(a, b)
        matches == {p \in (DOMAIN a) \X (DOMAIN b) : a[p[1]].name = b[p[2]].name}
    IN  /\ IsAlignment(a, b, aligned)
        /\ \A pairs \in SUBSET matches :
              IsAlignment(a, b, pairs) => Cardinality(pairs) <= Cardinality(aligned)

CallsNamed(calls, name) == {i \in DOMAIN calls : calls[i].name = name}

(* The diff accounts for every call: of each name exactly the surplus of A  *)
(* is removed and the surplus of B added, so that no call is reported both  *)
(* as removed and as added again.                                           *)
SurplusReported(a, b) ==
    LET diff == ToolCallDiff(a, b)
    IN  /\ diff \in ToolCallChanges(a, b)
        /\ \A name \in {a[i].name : i \in DOMAIN a} \cup {b[i].name : i \in DOMAIN b} :
              LET inA == Cardinality(CallsNamed(a, name))
                  inB == Cardinality(CallsNamed(b, name))
              IN  /\ Cardinality(diff.removed \cap CallsNamed(a, name)) = Max({0, inA - inB})
                  /\ Cardinality(diff.added \cap CallsNamed(b, name)) = Max({0, inB - inA})

(* The two run diffs of the repository say the same of calls with a name,   *)
(* and are empty for exactly the pairs that make the same calls.            *)
DiffsAgree(a, b) ==
    LET diff == ToolCallDiff(a, b)
        summary == LcsSummary(a, b)
        same == /\ Len(a) = Len(b)
                /\ \A i \in DOMAIN a : /\ a[i].name = b[i].name
                                       /\ ParamDelta(a[i].payload, b[i].payload) = {}
    IN  /\ summary.removed = diff.removed \cup Firsts(diff.reordered)
        /\ summary.added = diff.added \cup Seconds(diff.reordered)
        /\ summary.reordered = {}
        /\ Identical(summary) <=> same
        /\ Identical(diff) <=> same

(* A divergence is the paths cut at the first step that differs. *)
DivergenceWhole(p, q) ==
    LET d == NodePathDiff(p, q)
        names(path) == [i \in DOMAIN path |-> path[i].name]
    IN  IF ~d.diverged THEN names(p) = names(q)
        ELSE /\ names(p) = d.prefix \o names(d.tailA)
             /\ names(q) = d.prefix \o names(d.tailB)
             /\ d.tailA # <<>> /\ d.tailB # <<>> => d.tailA[1].name # d.tailB[1].name

(* A run resumed at its resume point starts from the state that the state   *)
(* diff compares, and has made no call after it.                            *)
ResumesAtCheckpoint(events) ==
    LET point == ResumePoint(events)
    IN  point.found = "point" =>
           /\ LastCheckpoint(point.eventsBefore) = LastCheckpoint(events)
           /\ point.eventsBefore[Len(point.eventsBefore)].kind = "checkpoint_saved"

(* The semantic diff carries the base graph into the head graph. *)
GraphDiffWhole(base, head) ==
    LET d == SemanticGraphDiff(base, head)
    IN  /\ (base.nodes \ d.nodesRemoved) \cup d.nodesAdded = head.nodes
        /\ (base.edges \ d.edgesRemoved) \cup d.edgesAdded = head.edges
        /\ \A id \in DOMAIN base.prompts \cup DOMAIN head.prompts :
              id \notin d.prompts => id \in DOMAIN base.prompts \cap DOMAIN head.prompts
        /\ Identical(d) <=> base = head
        /\ Identical(d) \/ HasSemanticContent(base) \/ HasSemanticContent(head)

(* Two specifications that differ in empty objects and arrays only compare  *)
(* as equal, others only when they are.                                     *)
SpecDiffWhole(left, right) ==
    LET l == CollectLeafPaths(left)
        r == CollectLeafPaths(right)
    IN  Identical(SpecDiff(l, r)) <=> l = r

(* Both tool-call diffs start from a longest common subsequence: whatever   *)
(* two runs recorded, no order-preserving pairing of calls of equal names   *)
(* has more pairs than the one lcs_alignment finds.                         *)
AlignmentSound ==
    compared.kind = "runs" =>
        /\ AlignmentMaximal(NamedCalls(compared.a), NamedCalls(compared.b))
        /\ AlignmentMaximal(AllCalls(compared.a), AllCalls(compared.b))

(* What the comparisons promise, for every pair of inputs: the changes      *)
(* account for every call, the two tool-call diffs agree, and a diff is     *)
(* empty only for equal inputs (a null and an absent parameter being        *)
(* equal).                                                                  *)
DiffsSound ==
    CASE compared.kind = "runs" ->
            LET a == NamedCalls(compared.a)
                b == NamedCalls(compared.b)
            IN  /\ SurplusReported(a, b)
                /\ DiffsAgree(a, b)
                /\ RunDiffOutput(compared.a, compared.b).tool_call_changes = 0
                      <=> Identical(LcsSummary(a, b))
                /\ DivergenceWhole(NodePath(compared.a), NodePath(compared.b))
                /\ ResumesAtCheckpoint(compared.a)
                /\ DiffRunStates(compared.a, compared.b, {"/p"}) = {}
                      <=> At(LastCheckpoint(compared.a), "/p")
                             = At(LastCheckpoint(compared.b), "/p")
      [] compared.kind = "graphs" ->
            GraphDiffWhole(GraphSnapshot(compared.a), GraphSnapshot(compared.b))
      [] compared.kind = "specs" -> SpecDiffWhole(compared.a, compared.b)
      [] OTHER -> TRUE

=============================================================================

---------------------------- MODULE AgentMemory ----------------------------
(***************************************************************************)
(* The memory of an agent: an index of entries by id, the flat log that    *)
(* keyword queries search, the packing of a context window within a token  *)
(* budget, and the two compactions.  Time only passes; relevance, score    *)
(* and priority are small integers, -1 a relevance that is not finite.     *)
(***************************************************************************)
EXTENDS Integers, Sequences, FiniteSets, FiniteSetsExt, SequencesExt

CONSTANTS
    EntryInput,       \* what may be inserted, [id, key, tokens, relevance, tag]
    Budget,           \* [max, reserved], ContextBudget
    IndexPolicy,      \* policies of compact_index, [minTokens, maxAge, maxEntries]
    LogPolicy,        \* policies of compact, [maxAge, perKey]
    Unlimited,        \* None for an optional limit
    MemoryLimit,      \* limit of a query
    MaxLog,           \* bound on the length of the log
    MaxMemoryTime     \* bound on the clock

Limited(limit) == limit # Unlimited

Optional(S) == S \cup {Unlimited}

(* MemoryEntry of the index; the kind and the tags of an entry are one tag  *)
(* here, since a query tests both alike.                                    *)
MemoryEntry == [id : Nat, key : STRING, tokens : Nat, relevance : Int, tag : STRING, created : Nat]

(* The two types CompactionPolicy, of the index and of the log. *)
IndexCompaction ==
    [minTokens : Optional(Nat), maxAge : Optional(Nat), maxEntries : Optional(Nat)]

LogCompaction == [maxAge : Optional(Nat), perKey : Optional(Nat)]

ASSUME MemoryAssumption ==
    /\ IndexPolicy \subseteq IndexCompaction /\ LogPolicy \subseteq LogCompaction
    /\ Budget.reserved < Budget.max       \* ContextBudget::new
    /\ MaxMemoryTime \in Nat /\ MaxLog \in Nat /\ MemoryLimit \in Nat
    /\ \A e \in EntryInput :
          e \in [id : Nat, key : STRING, tokens : Nat, relevance : Int, tag : STRING]

VARIABLES
    index,        \* the entries of MemoryIndex by id, with `created`
    memoryLog,    \* the list of memory_context's MemoryIndex
    today,        \* the clock
    compacted     \* the index before the last compaction, and the policy

memoryVars == <<index, memoryLog, today, compacted>>

NoCompaction == [before |-> {}, policy |-> Unlimited, at |-> 0]

MemoryInit ==
    /\ index = {}
    /\ memoryLog = <<>>
    /\ today = 0
    /\ compacted = NoCompaction

Dated(e) == [id |-> e.id, key |-> e.key, tokens |-> e.tokens, relevance |-> e.relevance,
             tag |-> e.tag, created |-> today]

-----------------------------------------------------------------------------
(* MemoryIndex::insert refuses a duplicate id. *)
Insert(e) ==
    /\ \A f \in index : f.id # e.id
    /\ index' = index \cup {Dated(e)}
    /\ UNCHANGED <<memoryLog, today, compacted>>

(* ingest, into the log, refuses nothing. *)
Ingest(e) ==
    /\ Len(memoryLog) < MaxLog
    /\ memoryLog' = Append(memoryLog, Dated(e))
    /\ UNCHANGED <<index, today, compacted>>

Forget(e) ==
    /\ e \in index
    /\ index' = index \ {e}
    /\ UNCHANGED <<memoryLog, today, compacted>>

PassDay ==
    /\ today < MaxMemoryTime
    /\ today' = today + 1
    /\ UNCHANGED <<index, memoryLog, compacted>>

-----------------------------------------------------------------------------
(* IndexQuery: each filter may be absent. *)
IndexQuery == [tag : Optional({e.tag : e \in index}), after : Optional({today})]

(* MemoryIndex::query: the matching entries, newest first, cut at a limit.  *)
(* The order of entries of one instant is that of the hash map.             *)
Query(q) == {e \in index : /\ Limited(q.tag) => e.tag = q.tag
                           /\ Limited(q.after) => e.created >= q.after}

Cut(matches) ==
    {S \in SUBSET matches :
        /\ Cardinality(S) = Min({MemoryLimit, Cardinality(matches)})
        /\ \A e \in S, f \in matches \ S : e.created >= f.created}

(* The total order of assemble_context: relevance, then newest, then id. *)
Before(e, f) ==
    \/ e.relevance > f.relevance
    \/ e.relevance = f.relevance /\ e.created > f.created
    \/ e.relevance = f.relevance /\ e.created = f.created /\ e.id < f.id

Available == Budget.max - Budget.reserved

Tokens(S) == FoldSet(LAMBDA e, n : e.tokens + n, 0, S)

(* A packing that ends at the first candidate that does not fit.           *)
AssembleContextStops(candidates) ==
    FoldSeq(LAMBDA e, window :
               IF window.dropped = 0 /\ window.total + e.tokens <= Available
               THEN [items |-> window.items \cup {e}, total |-> window.total + e.tokens,
                     dropped |-> window.dropped]
               ELSE [window EXCEPT !.dropped = @ + 1],
            [items |-> {}, total |-> 0, dropped |-> 0],
            Reverse(SetToSortSeq(candidates, Before)))

(* assemble_context: the candidates in order, each taken when it fits what  *)
(* is left and dropped otherwise.                                           *)
AssembleContext(candidates) ==
    FoldSeq(LAMBDA e, window :
               IF window.total + e.tokens <= Available
               THEN [items |-> window.items \cup {e}, total |-> window.total + e.tokens,
                     dropped |-> window.dropped]
               ELSE [window EXCEPT !.dropped = @ + 1],
            [items |-> {}, total |-> 0, dropped |-> 0],
            Reverse(SetToSortSeq(candidates, Before)))

(* ContextAssembler::assemble is the same packing by priority, which the    *)
(* stable sort leaves in the order of arrival within a priority.            *)
Assemble(segments, budget) ==
    LET position(i) == Cardinality({j \in DOMAIN segments :
                           \/ segments[j].priority > segments[i].priority
                           \/ segments[j].priority = segments[i].priority /\ j <= i})
        sorted == [n \in DOMAIN segments |-> CHOOSE i \in DOMAIN segments : position(i) = n]
        packed[n \in 0..Len(segments)] ==
            IF n = 0 THEN [taken |-> {}, total |-> 0]
            ELSE LET w == packed[n - 1]
                     cost == segments[sorted[n]].tokens
                 IN  IF w.total + cost <= budget
                     THEN [taken |-> w.taken \cup {sorted[n]}, total |-> w.total + cost]
                     ELSE w
    IN  packed[Len(segments)]

(* MemoryIndex::query of the log: the hits by score, at most MemoryLimit;   *)
(* exact keys, or any entry with a word in common.                          *)
Hits(key, strategy) ==
    LET score(e) == IF e.key = key THEN 2 ELSE IF strategy = "keyword" /\ e.tag = key THEN 1 ELSE 0
        hits == SelectSeq(memoryLog, LAMBDA e : score(e) > 0)
        sorted == SortSeq(hits, LAMBDA e, f : score(e) > score(f))
    IN  SubSeq(sorted, 1, Min({MemoryLimit, Len(sorted)}))

-----------------------------------------------------------------------------
(* The oldest first, then by id. *)
Older(e, f) == e.created < f.created \/ (e.created = f.created /\ e.id < f.id)

(* The count is trimmed before the small and the old entries go. *)
CompactIndexTrimFirst(entries, policy) ==
    LET excess == IF Limited(policy.maxEntries) THEN Cardinality(entries) - policy.maxEntries ELSE 0
        trimmed == {e \in entries : Cardinality({f \in entries : Older(f, e)}) >= excess}
        large == {e \in trimmed : Limited(policy.minTokens) => e.tokens >= policy.minTokens}
    IN  {e \in large : Limited(policy.maxAge) => e.created >= today - policy.maxAge}

(* compact_index: below the token threshold, then too old, then the oldest  *)
(* of those that are too many.                                              *)
CompactIndex(entries, policy) ==
    LET large == {e \in entries : Limited(policy.minTokens) => e.tokens >= policy.minTokens}
        young == {e \in large : Limited(policy.maxAge) => e.created >= today - policy.maxAge}
        excess == IF Limited(policy.maxEntries) THEN Cardinality(young) - policy.maxEntries ELSE 0
    IN  {e \in young : Cardinality({f \in young : Older(f, e)}) >= excess}

(* CompactionPolicy::compact: too old, then the newest of each key; what is *)
(* left is in chronological order again.  Entries of one instant stay in    *)
(* the order of the log here; between keys the code takes the hash map's.   *)
CompactLog(entries, policy) ==
    LET young == SelectSeq(entries, LAMBDA e : Limited(policy.maxAge) =>
                                               e.created >= today - policy.maxAge)
        newer(i) == {j \in DOMAIN young :
                        /\ young[j].key = young[i].key
                        /\ \/ young[j].created > young[i].created
                           \/ young[j].created = young[i].created /\ j < i}
        kept == {i \in DOMAIN young : Limited(policy.perKey) =>
                                      Cardinality(newer(i)) < policy.perKey}
    IN  [n \in 1..Cardinality(kept) |->
            young[CHOOSE i \in kept : Cardinality({j \in kept : j <= i}) = n]]

ApplyIndexPolicy(p) ==
    /\ index' = CompactIndex(index, p)
    /\ compacted' = [before |-> index, policy |-> p, at |-> today]
    /\ UNCHANGED <<memoryLog, today>>

ApplyLogPolicy(p) ==
    /\ memoryLog' = CompactLog(memoryLog, p)
    /\ UNCHANGED <<index, today, compacted>>

IndexNext ==
    \/ \E e \in EntryInput : Insert(e)
    \/ \E e \in index : Forget(e)
    \/ PassDay
    \/ \E p \in IndexPolicy : ApplyIndexPolicy(p)

IndexSpec == MemoryInit /\ [][IndexNext]_memoryVars

LogNext ==
    \/ \E e \in EntryInput : Ingest(e)
    \/ PassDay
    \/ \E p \in LogPolicy : ApplyLogPolicy(p)

-----------------------------------------------------------------------------
MemoryTypeOK ==
    /\ index \subseteq MemoryEntry /\ memoryLog \in Seq(MemoryEntry) /\ today \in Nat
    /\ compacted = NoCompaction \/
          /\ compacted.before \subseteq MemoryEntry /\ compacted.policy \in IndexCompaction
          /\ compacted.at \in 0 .. today

(* The context fits the budget, and nothing dropped was worth more than     *)
(* what would have to leave for it: an entry is missing only when it does   *)
(* not fit together with the packed entries that come before it.            *)
ContextPacked ==
    \A q \in IndexQuery :
       LET candidates == Query(q)
           window == AssembleContext(candidates)
       IN  /\ window.total = Tokens(window.items) /\ window.total <= Available
           /\ window.dropped = Cardinality(candidates \ window.items)
           /\ \A e \in candidates \ window.items :
                 Tokens({f \in window.items : Before(f, e)}) + e.tokens > Available
           /\ Cut(candidates) # {}

(* Both packers choose the same when priority is the order of relevance. *)
PackersAgree ==
    LET sorted == SetToSortSeq(index, Before)
        segments == [n \in DOMAIN sorted |-> [priority |-> Len(sorted) - n,
                                              tokens |-> sorted[n].tokens]]
    IN  {sorted[n] : n \in Assemble(segments, Available).taken} = AssembleContext(index).items

(* Compaction removes no more than its limits ask for: right after it, an   *)
(* entry that satisfies the token and the age limit is gone only when as    *)
(* many as the policy keeps are newer and still there.                      *)
CompactionMinimal ==
    compacted # NoCompaction /\ compacted.at = today =>
       LET p == compacted.policy
           fits(e) == /\ Limited(p.minTokens) => e.tokens >= p.minTokens
                      /\ Limited(p.maxAge) => e.created >= compacted.at - p.maxAge
           left == CompactIndex(compacted.before, p)
       IN  /\ left \subseteq {e \in compacted.before : fits(e)}
           /\ \A e \in compacted.before \ left :
                 fits(e) => /\ Limited(p.maxEntries)
                            /\ Cardinality({f \in left : Older(e, f)}) = p.maxEntries

(* The log stays in chronological order, and its queries never return more  *)
(* than they may nor a worse hit in place of a better one.                  *)
LogOrdered ==
    /\ \A i, j \in DOMAIN memoryLog : i < j => memoryLog[i].created <= memoryLog[j].created
    /\ \A e \in {memoryLog[i] : i \in DOMAIN memoryLog} :
          LET hits == Hits(e.key, "keyword")
              exact == Hits(e.key, "exact")
          IN  /\ Len(hits) = MemoryLimit \/ Len(hits) >= Len(exact)
              /\ \A i \in DOMAIN exact : hits[i].key = e.key

(* What the memory promises an agent: the context within its budget and     *)
(* filled, the same by both packers, and ordered queries.                   *)
MemorySound == ContextPacked /\ PackersAgree /\ LogOrdered

=============================================================================

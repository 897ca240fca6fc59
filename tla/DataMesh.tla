------------------------------ MODULE DataMesh ------------------------------
(***************************************************************************)
(* A collection of the data-mesh offering as its clients see it: an        *)
(* append-only sequence of documents, the oldest first.  A document is     *)
(* [key, data]; `key` is the idempotency key of the request that created   *)
(* it, or NoKey.  Documents are never changed or removed.                  *)
(***************************************************************************)
EXTENDS Sequences, Naturals, SequencesExt

CONSTANT NoKey

Document(k, d) == [key |-> k, data |-> d]

(* create_document: the document is appended whatever is there.            *)
CreateDocument(c, d) == Append(c, Document(NoKey, d))

(* create_document_idempotent answers "exists" and stores nothing when the *)
(* key was used before in this collection.                                 *)
KeyExists(c, k) == \E i \in DOMAIN c : c[i].key = k

CreateIdempotent(c, k, d) == IF KeyExists(c, k) THEN c ELSE Append(c, Document(k, d))

(* list_documents: the data, newest first, at most limit of them;          *)
(* documents_of drops the envelope.                                        *)
FirstOf(hits, limit) == SubSeq(hits, 1, IF Len(hits) < limit THEN Len(hits) ELSE limit)

NewestFirst(c) == [i \in DOMAIN c |-> c[Len(c) + 1 - i].data]

ListDocuments(c, limit) == FirstOf(NewestFirst(c), limit)

(* query_documents: those whose field has the value, newest first.         *)
MatchesUpTo(c, field, value) ==
    LET upTo[n \in 0 .. Len(c)] ==
          IF n = 0 THEN <<>>
          ELSE IF c[n].data[field] = value THEN <<c[n].data>> \o upTo[n - 1]
          ELSE upTo[n - 1]
    IN  upTo

Matches(c, field, value) == MatchesUpTo(c, field, value)[Len(c)]

QueryDocuments(c, field, value, limit) == FirstOf(Matches(c, field, value), limit)

=============================================================================

------------------------------ MODULE RunStore ------------------------------
(***************************************************************************)
(* What a RunStore promises to the API, which enqueues CI runs, and to the *)
(* engines, which claim and finish them: the in-memory store, where every  *)
(* operation is one critical section.                                      *)
(***************************************************************************)
EXTENDS Sequences, Naturals, SequencesExt

CONSTANT Run

VARIABLE runs  (* runs as [run, status], in the order of created_at *)

RunStatus == {"queued", "running", "succeeded", "failed"}

(* A CiRunRecord. *)
RunRecord == [run : Run, status : RunStatus]

StoreRunInit == runs = <<>>

Enqueue(r) ==
    /\ \A i \in DOMAIN runs : runs[i].run # r
    /\ runs' = Append(runs, [run |-> r, status |-> "queued"])

(* Only the oldest queued run is handed out, and it stops being queued. *)
ClaimNextQueued(i) ==
    /\ runs[i].status = "queued"
    /\ \A j \in 1 .. i - 1 : runs[j].status # "queued"
    /\ runs' = [runs EXCEPT ![i].status = "running"]

(* An engine reports the end of a run it has claimed. *)
SetStatus(i, s) ==
    /\ runs[i].status # "queued"
    /\ runs' = [runs EXCEPT ![i].status = s]

StoreRunNext ==
    \/ \E r \in Run : Enqueue(r)
    \/ \E i \in DOMAIN runs : ClaimNextQueued(i)
    \/ \E i \in DOMAIN runs, s \in {"succeeded", "failed"} : SetStatus(i, s)

StoreTypeOK == runs \in Seq(RunRecord)

StoreRunSpec == StoreRunInit /\ [][StoreRunNext]_runs

=============================================================================

----------------------------- MODULE RunLedger -----------------------------
(***************************************************************************)
(* The run ledger of oxidized-state: the rows of the tables `runs` and     *)
(* `run_events`, and the database calls SurrealRunLedger makes.  Every     *)
(* operation but create_run is two calls, a read that checks the status    *)
(* and a write that no longer does; MemoryRunLedger takes the two together *)
(* under a mutex.  Callers choose when to make each call.                  *)
(***************************************************************************)
EXTENDS Integers, FiniteSets

CONSTANTS
    RunId,    \* the runs, each named after the task that creates it: the
              \* UUIDs that create_run draws are all different
    NoRun     \* no run id

ASSUME LedgerAssumption == NoRun \notin RunId

VARIABLES
    runs,     \* runs[id]: the row
    events    \* events[id]: the <<seq, event>> rows of the run

ledger == <<runs, events>>

Terminal == {"COMPLETED", "FAILED", "CANCELLED"}

Row == [status : {"NONE", "RUNNING"} \cup Terminal, total : Nat, success : BOOLEAN]

Absent == [status |-> "NONE", total |-> 0, success |-> FALSE]

LedgerInit ==
    /\ runs = [id \in RunId |-> Absent]
    /\ events = [id \in RunId |-> {}]

InsertRun(id) == runs' = [runs EXCEPT ![id] = [Absent EXCEPT !.status = "RUNNING"]]

(* fetch_running *)
Running(id) == runs[id].status = "RUNNING"

(* CREATE run_events.  The index on (run_id, seq) is unique, and the error  *)
(* of a statement stays in a response that append_event does not read: a    *)
(* second event with the same number is dropped in silence.                 *)
InsertEvent(id, seq, event) ==
    events' = IF \E e \in events[id] : e[1] = seq THEN events
              ELSE [events EXCEPT ![id] = @ \cup {<<seq, event>>}]

(* UPDATE runs MERGE, with the row built by complete, fail or cancel. *)
UpdateRun(id, status, total) ==
    runs' = [runs EXCEPT ![id] = [status |-> status, total |-> total,
                                  success |-> status = "COMPLETED"]]

-----------------------------------------------------------------------------
(* A run that has ended is immutable, and so is its list of events: "A run  *)
(* transitions: Running -> Completed | Failed (terminal)".  No single call  *)
(* enforces it, since the writes do not look at the status again.           *)
EndedRunsImmutable ==
    [][\A id \in RunId : runs[id].status \in Terminal =>
          runs'[id] = runs[id] /\ events'[id] = events[id]]_ledger

=============================================================================

--------------------------- MODULE LedgerHandler ---------------------------
(***************************************************************************)
(* LedgerHandler: the background task that copies the events of a graph    *)
(* run from the event bus into a run of the ledger, one at a time, and     *)
(* ends the run when the bus closes.  Ledger errors are logged and the     *)
(* event is given up.  An event is the number of its arrival.              *)
(***************************************************************************)
EXTENDS RunLedger

CONSTANTS
    GraphRun,       \* the run this handler creates
    MaxHandled      \* bound: events on the bus

ASSUME HandlerAssumption == GraphRun \in RunId /\ MaxHandled \in Nat

VARIABLE lh

HandlerPC == {"start", "ready", "append", "insert", "stop", "finish", "stopped"}

LedgerHandlerState ==
    [pc : HandlerPC, run : RunId \cup {NoRun},
     seq : Nat,                \* the AtomicU64, the next number to hand out
     event : Nat,              \* the last event taken from the bus
     using : Nat,              \* the number of the event at hand
     sawError : BOOLEAN,
     acked : SUBSET Nat]       \* events whose append_event answered Ok and whose
                               \* statement the database did not fail

(* A plausible bug: the numbers start at 0, and a run without events ends   *)
(* with seq - 1 below zero.                                                 *)
IdleFromZero == [pc |-> "start", run |-> NoRun, seq |-> 0, event |-> 0, using |-> 0,
                 sawError |-> FALSE, acked |-> {}]

Idle == [pc |-> "start", run |-> NoRun, seq |-> 1, event |-> 0, using |-> 0,
         sawError |-> FALSE, acked |-> {}]

HandlerInit == lh = Idle

-----------------------------------------------------------------------------
OnStart ==
    /\ lh.pc = "start"
    /\ InsertRun(GraphRun) \/ UNCHANGED runs
    /\ \/ lh' = [lh EXCEPT !.pc = "ready", !.run = GraphRun]
       \/ lh' = [lh EXCEPT !.pc = "ready"]
    /\ UNCHANGED events

(* A plausible bug: a number is only used up by an append that is known to  *)
(* have worked.                                                             *)
HandleReusing ==
    /\ lh.pc = "ready" /\ lh.event < MaxHandled
    /\ lh' = [lh EXCEPT !.event = @ + 1, !.using = Cardinality(lh.acked) + 1,
                        !.seq = Cardinality(lh.acked) + 2,
                        !.pc = IF lh.run = NoRun THEN @ ELSE "append"]
    /\ UNCHANGED ledger

(* handle, up to the ledger call: without a run the event is ignored. *)
Handle ==
    /\ lh.pc = "ready"
    /\ lh.event < MaxHandled
    /\ \/ /\ lh.run = NoRun
          /\ lh' = [lh EXCEPT !.event = @ + 1]
       \/ /\ lh.run # NoRun
          /\ \E error \in BOOLEAN :
              lh' = [lh EXCEPT !.pc = "append", !.event = @ + 1, !.seq = @ + 1,
                               !.using = lh.seq, !.sawError = @ \/ error]
    /\ UNCHANGED ledger

HandleFetch ==
    /\ lh.pc = "append"
    /\ \/ Running(lh.run) /\ lh' = [lh EXCEPT !.pc = "insert"]
       \/ lh' = [lh EXCEPT !.pc = "ready"]
    /\ UNCHANGED ledger

HandleInsert ==
    /\ lh.pc = "insert"
    /\ \/ /\ InsertEvent(lh.run, lh.using, lh.event)
          /\ \/ lh' = [lh EXCEPT !.pc = "ready", !.acked = @ \cup {lh.event}]
             \/ lh' = [lh EXCEPT !.pc = "ready"]      \* the answer is lost
       \/ /\ UNCHANGED events                       \* an error, reported or not
          /\ lh' = [lh EXCEPT !.pc = "ready"]
    /\ UNCHANGED runs

(* The bus is closed. *)
OnStop ==
    /\ lh.pc = "ready"
    /\ lh' = [lh EXCEPT !.pc = IF lh.run = NoRun THEN "stopped" ELSE "stop"]
    /\ UNCHANGED ledger

StopFetch ==
    /\ lh.pc = "stop"
    /\ \/ Running(lh.run) /\ lh' = [lh EXCEPT !.pc = "finish"]
       \/ lh' = [lh EXCEPT !.pc = "stopped"]
    /\ UNCHANGED ledger

StopWrite ==
    /\ lh.pc = "finish"
    /\ \/ UpdateRun(lh.run, IF lh.sawError THEN "FAILED" ELSE "COMPLETED", lh.seq - 1)
       \/ UNCHANGED runs
    /\ lh' = [lh EXCEPT !.pc = "stopped"]
    /\ UNCHANGED events

HandlerNext ==
    OnStart \/ Handle \/ HandleFetch \/ HandleInsert \/ OnStop \/ StopFetch \/ StopWrite

-----------------------------------------------------------------------------
(* An event that the ledger acknowledged is in the run, under a number that *)
(* puts it after the events that came before it: the silent drop of a       *)
(* number used twice never meets an event of this handler.                  *)
AckedEventsKept ==
    lh.run # NoRun =>
        /\ \A n \in lh.acked : \E e \in events[lh.run] : e[2] = n
        /\ \A d, e \in events[lh.run] : d[1] < e[1] <=> d[2] < e[2]

=============================================================================

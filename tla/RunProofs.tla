------------------------------ MODULE RunProofs ------------------------------
(***************************************************************************)
(* The batch of parallel roles and the graph run on one ledger, for any    *)
(* number of roles, permits and events.                                    *)
(***************************************************************************)
EXTENDS MCRuns, FiniteSetTheorems, TLAPS

(* A task writes to its own run only, and only while that has not ended.   *)
RoleRuns(r, t, row) ==
    /\ t.run \in {NoRun, r}
    /\ t.pc \in {"permit", "check", "create"} =>
          row.status = "NONE" /\ t.run = NoRun /\ ~ t.written
    /\ t.pc \in {"execute", "append", "fetch", "write"} =>
          t.run = r /\ row.status \notin Terminal /\ ~ t.written
    /\ t.written => t.run = r /\ row.status = IF t.ok THEN "COMPLETED" ELSE "FAILED"

RunsOwned == \A r \in Role : RoleRuns(r, task[r], runs[r])

(* The numbers handed out so far are below seq, and the events so far are  *)
(* no later than the one at hand.                                          *)
Numbered(st, rows) ==
    /\ rows \subseteq Nat \X Nat
    /\ \A e \in rows : e[1] < st.seq /\ e[2] <= st.event
    /\ st.pc \in {"append", "insert"} =>
          st.using < st.seq /\ \A e \in rows : e[1] < st.using /\ e[2] < st.event
    /\ \A d, e \in rows : d[1] < e[1] <=> d[2] < e[2]
    /\ \A n \in st.acked : \E e \in rows : e[2] = n

HandlerRuns(st, row) ==
    /\ st.run \in {NoRun, GraphRun} /\ st.seq >= 1
    /\ st.pc \in {"append", "insert", "stop", "finish"} => st.run = GraphRun
    /\ st.pc # "stopped" => row.status \notin Terminal

HandlerOwned == HandlerRuns(lh, runs[GraphRun]) /\ Numbered(lh, events[GraphRun])

(* Every task that is done has its reason, and what raised the flag is a   *)
(* failure among the results or about to be pushed.                        *)
RolesExplained ==
    /\ \A r \in config.roles :
          /\ task[r].pc = "done" <=> task[r].end # "none"
          /\ task[r].end = "result" => \E x \in results : x.role = r /\ x.success = task[r].ok
          /\ task[r].end = "skipped" => failFlag
    /\ failFlag => /\ config.failFast
                   /\ \E r \in config.roles : ~ task[r].ok /\ (task[r].pc = "push" \/ task[r].end = "result")
    /\ \A x \in results : /\ x.role \in config.roles /\ task[x.role].end = "result"
                          /\ x.success = task[x.role].ok
    /\ verdict # "none" => \A r \in config.roles : task[r].pc = "done"
    /\ verdict = "err" => \A x \in results : ~ x.success

RunsInv == RunsTypeOK /\ PermitsConserved /\ RunsOwned /\ HandlerOwned /\ RolesExplained

(* The roles of a batch are finitely many. *)
LEMMA HoldingFinite == RunsTypeOK => IsFiniteSet(Holding)
  <1> SUFFICES ASSUME RunsTypeOK PROVE IsFiniteSet(Holding)
    OBVIOUS
  <1>1. Holding \subseteq Role
    BY DEF Holding, RunsTypeOK, Config
  <1> QED BY <1>1, RoleAssumption, FS_Subset

(* A task takes a permit, keeps it or drops it.                            *)
LEMMA PermitKept ==
    ASSUME PermitsConserved, UNCHANGED <<config, permits>>, Holding' = Holding
    PROVE  PermitsConserved'
  BY DEF PermitsConserved

(* A role that takes a permit joins the holders. *)
LEMMA PermitTaken ==
    ASSUME RunsTypeOK, PermitsConserved, UNCHANGED config, permits > 0, permits' = permits - 1,
           NEW r, r \notin Holding, Holding' = Holding \cup {r}
    PROVE  PermitsConserved' /\ permits' \in 0 .. MaxConcurrent
  <1>1. IsFiniteSet(Holding) /\ Cardinality(Holding) \in Nat
    BY HoldingFinite, FS_CardinalityType
  <1>2. Cardinality(Holding') = Cardinality(Holding) + 1
    BY <1>1, FS_AddElement
  <1> QED BY <1>1, <1>2, RoleAssumption DEF PermitsConserved, RunsTypeOK

(* A permit that is dropped comes back. *)
LEMMA PermitDropped ==
    ASSUME RunsTypeOK, PermitsConserved, UNCHANGED config, permits' = permits + 1,
           NEW r \in Holding, Holding' = Holding \ {r}
    PROVE  PermitsConserved' /\ permits' \in 0 .. MaxConcurrent
  <1>1. IsFiniteSet(Holding) /\ Cardinality(Holding) \in Nat
    BY HoldingFinite, FS_CardinalityType
  <1>2. IsFiniteSet(Holding \ {r}) /\ Cardinality(Holding \ {r}) = Cardinality(Holding) - 1
    BY <1>1, FS_RemoveElement
  <1>3. Cardinality(Holding \ {r}) \in Nat
    BY <1>2, FS_CardinalityType
  <1>4. config.maxConcurrent \in 1 .. MaxConcurrent
    BY DEF RunsTypeOK, Config
  <1> QED BY <1>1, <1>2, <1>3, <1>4, RoleAssumption DEF PermitsConserved, RunsTypeOK

EventRows == SUBSET (Nat \X (Nat \cup Role))

(* A task of the batch moves, and writes to its own run at most.           *)
LEMMA TaskMoves ==
    ASSUME RunsInv, NEW r \in config.roles, NEW t \in Task, task' = [task EXCEPT ![r] = t],
           UNCHANGED <<config, failFlag, results, verdict, lh>>,
           task[r].pc \notin {"push", "done"}, t.pc \notin {"push", "done"}, t.end = task[r].end,
           runs' \in [RunId -> Row], \A id \in RunId \ {r} : runs'[id] = runs[id],
           events' \in [RunId -> EventRows], \A id \in RunId \ {r} : events'[id] = events[id],
           RoleRuns(r, t, runs'[r]),
           \/ permits' = permits /\ (t.pc = "permit" <=> task[r].pc = "permit")
           \/ task[r].pc = "permit" /\ t.pc # "permit" /\ permits > 0 /\ permits' = permits - 1
    PROVE  RunsInv'
  <1>1. r \in Role /\ config.roles \subseteq Role /\ Role \subseteq RunId /\ GraphRun \in RunId \ {r}
    BY RoleAssumption, HandlerAssumption, DistinctRuns DEF RunsInv, RunsTypeOK, Config
  <1>2. task' \in [Role -> Task] /\ task'[r] = t /\ \A o \in Role \ {r} : task'[o] = task[o]
    BY <1>1 DEF RunsInv, RunsTypeOK
  <1>3. PermitsConserved' /\ permits' \in 0 .. MaxConcurrent
    <2>1. CASE permits' = permits /\ (t.pc = "permit" <=> task[r].pc = "permit")
      <3>1. Holding' = Holding
        BY <1>1, <1>2, <2>1 DEF Holding
      <3> QED BY <2>1, <3>1, PermitKept DEF RunsInv, RunsTypeOK
    <2>2. CASE task[r].pc = "permit" /\ t.pc # "permit" /\ permits > 0 /\ permits' = permits - 1
      <3>1. r \notin Holding /\ Holding' = Holding \cup {r}
        BY <1>1, <1>2, <2>2 DEF Holding
      <3> QED BY <2>2, <3>1, PermitTaken DEF RunsInv
    <2> QED BY <2>1, <2>2
  <1>4. RunsTypeOK'
    BY <1>2, <1>3 DEF RunsInv, RunsTypeOK, EventRows
  <1>5. RunsOwned'
    BY <1>1, <1>2 DEF RunsInv, RunsOwned
  <1>6. HandlerOwned'
    BY <1>1 DEF RunsInv, HandlerOwned
  <1>7. RolesExplained'
    <2>1. task[r].end = "none" /\ \A x \in results : x.role # r
      BY DEF RunsInv, RolesExplained
    <2>2. verdict = "none"
      BY DEF RunsInv, RolesExplained
    <2>3. \A o \in config.roles :
            /\ task'[o].pc = "done" <=> task'[o].end # "none"
            /\ task'[o].end = "result" => \E x \in results : x.role = o /\ x.success = task'[o].ok
            /\ task'[o].end = "skipped" => failFlag
      BY <1>1, <1>2, <2>1 DEF RunsInv, RolesExplained
    <2>4. failFlag => /\ config.failFast
                      /\ \E o \in config.roles : ~ task'[o].ok /\ (task'[o].pc = "push" \/ task'[o].end = "result")
      BY <1>1, <1>2, <2>1 DEF RunsInv, RolesExplained
    <2>5. \A x \in results : /\ x.role \in config.roles /\ task'[x.role].end = "result"
                             /\ x.success = task'[x.role].ok
      BY <1>1, <1>2, <2>1 DEF RunsInv, RolesExplained
    <2> QED BY <2>2, <2>3, <2>4, <2>5 DEF RolesExplained
  <1> QED BY <1>3, <1>4, <1>5, <1>6, <1>7 DEF RunsInv

(* A task ends with a result, skipped or by a panic.                       *)
LEMMA TaskLeaves ==
    ASSUME RunsInv, NEW r \in config.roles, NEW end \in {"result", "skipped", "panic"}, Leave(r, end),
           UNCHANGED <<config, failFlag, verdict, lh, runs, events>>,
           task[r].pc \in IF end = "result" THEN {"push"} ELSE {"check", "execute", "append"},
           end = "skipped" => failFlag,
           end = "result" =>
               results' = results \cup {[role |-> r, run |-> task[r].run, success |-> task[r].ok]},
           end # "result" => results' = results
    PROVE  RunsInv'
  <1>1. r \in Role /\ config.roles \subseteq Role /\ task[r].pc \notin {"permit", "done"}
    BY DEF RunsInv, RunsTypeOK, Config
  <1>2. PICK t : t = [task[r] EXCEPT !.pc = "done", !.end = end]
    OBVIOUS
  <1>3. /\ t \in Task /\ t.pc = "done" /\ t.end = end /\ t.ok = task[r].ok /\ t.run = task[r].run
        /\ t.written = task[r].written
    BY <1>1, <1>2 DEF RunsInv, RunsTypeOK, Task, RolePC
  <1>4. /\ task' \in [Role -> Task] /\ task'[r] = t /\ \A o \in Role \ {r} : task'[o] = task[o]
        /\ permits' = permits + 1
    BY <1>1, <1>2, <1>3 DEF Leave, Step, RunsInv, RunsTypeOK
  <1>5. PermitsConserved' /\ permits' \in 0 .. MaxConcurrent
    <2>1. r \in Holding /\ Holding' = Holding \ {r}
      BY <1>1, <1>3, <1>4 DEF Holding
    <2> QED BY <1>4, <2>1, PermitDropped DEF RunsInv
  <1>6. PICK new : new = [role |-> r, run |-> task[r].run, success |-> task[r].ok]
    OBVIOUS
  <1>7. new \in Result /\ new.role = r /\ new.success = task[r].ok
    <2>1. task[r].run \in RunId \cup {NoRun} /\ task[r].ok \in BOOLEAN
      BY <1>1 DEF RunsInv, RunsTypeOK, Task
    <2> QED BY <1>1, <1>6, <2>1 DEF Result
  <1>8. results' \subseteq results \cup {new} /\ results \subseteq results' /\ (end = "result" <=> new \in results' \ results)
    <2>1. \A x \in results : x.role # r
      BY DEF RunsInv, RolesExplained
    <2> QED BY <1>6, <1>7, <2>1
  <1>9. RunsTypeOK'
    BY <1>4, <1>5, <1>7, <1>8 DEF RunsInv, RunsTypeOK
  <1>10. RunsOwned'
    BY <1>1, <1>3, <1>4 DEF RunsInv, RunsOwned, RoleRuns
  <1>11. HandlerOwned'
    BY DEF RunsInv, HandlerOwned
  <1>12. RolesExplained'
    <2>1. task[r].end = "none" /\ (\A x \in results : x.role # r) /\ verdict = "none"
      BY DEF RunsInv, RolesExplained
    <2>2. \A o \in config.roles :
            /\ task'[o].pc = "done" <=> task'[o].end # "none"
            /\ task'[o].end = "result" => \E x \in results' : x.role = o /\ x.success = task'[o].ok
            /\ task'[o].end = "skipped" => failFlag
      <3> SUFFICES ASSUME NEW o \in config.roles
                   PROVE  /\ task'[o].pc = "done" <=> task'[o].end # "none"
                          /\ task'[o].end = "result" => \E x \in results' : x.role = o /\ x.success = task'[o].ok
                          /\ task'[o].end = "skipped" => failFlag
        OBVIOUS
      <3>1. CASE o = r
        BY <1>3, <1>4, <1>7, <1>8, <3>1
      <3>2. CASE o # r
        BY <1>1, <1>4, <1>8, <3>2 DEF RunsInv, RolesExplained
      <3> QED BY <3>1, <3>2
    <2>3. failFlag => /\ config.failFast
                      /\ \E o \in config.roles : ~ task'[o].ok /\ (task'[o].pc = "push" \/ task'[o].end = "result")
      <3> SUFFICES ASSUME failFlag
                   PROVE  /\ config.failFast
                          /\ \E o \in config.roles : ~ task'[o].ok /\ (task'[o].pc = "push" \/ task'[o].end = "result")
        OBVIOUS
      <3>1. PICK o \in config.roles : ~ task[o].ok /\ (task[o].pc = "push" \/ task[o].end = "result")
        BY DEF RunsInv, RolesExplained
      <3>2. ~ task'[o].ok /\ (task'[o].pc = "push" \/ task'[o].end = "result")
        <4>1. CASE o = r
          BY <1>3, <1>4, <2>1, <3>1, <4>1
        <4>2. CASE o # r
          BY <1>1, <1>4, <3>1, <4>2
        <4> QED BY <4>1, <4>2
      <3> QED BY <3>2 DEF RunsInv, RolesExplained
    <2>4. \A x \in results' : /\ x.role \in config.roles /\ task'[x.role].end = "result"
                              /\ x.success = task'[x.role].ok
      <3> SUFFICES ASSUME NEW x \in results'
                   PROVE  x.role \in config.roles /\ task'[x.role].end = "result" /\ x.success = task'[x.role].ok
        OBVIOUS
      <3>1. CASE x \in results
        BY <1>1, <1>4, <2>1, <3>1 DEF RunsInv, RolesExplained
      <3>2. CASE x \notin results
        BY <1>3, <1>4, <1>7, <1>8, <3>2
      <3> QED BY <3>1, <3>2
    <2> QED BY <2>1, <2>2, <2>3, <2>4 DEF RolesExplained
  <1> QED BY <1>5, <1>9, <1>10, <1>11, <1>12 DEF RunsInv

(* The end of a failed role raises the flag, if the batch is fail-fast.    *)
LEMMA SignalKeeps ==
    ASSUME RunsInv, NEW r \in config.roles, Signal(r), UNCHANGED lh
    PROVE  RunsInv'
  <1>1. r \in Role /\ config.roles \subseteq Role
    BY DEF RunsInv, RunsTypeOK, Config
  <1>2. PICK t : t = [task[r] EXCEPT !.pc = "push"]
    OBVIOUS
  <1>3. /\ t \in Task /\ t.pc = "push" /\ t.end = task[r].end /\ t.ok = task[r].ok /\ t.run = task[r].run
        /\ t.written = task[r].written
    BY <1>1, <1>2 DEF RunsInv, RunsTypeOK, Task, RolePC
  <1>4. /\ task' \in [Role -> Task] /\ task'[r] = t /\ \A o \in Role \ {r} : task'[o] = task[o]
        /\ UNCHANGED <<config, permits, results, verdict, runs, events>> /\ task[r].pc = "signal"
    BY <1>1, <1>2, <1>3 DEF Signal, Step, RunsInv, RunsTypeOK, ledger
  <1>5. failFlag' \in BOOLEAN /\ (failFlag' <=> failFlag \/ (config.failFast /\ ~ task[r].ok))
    BY DEF Signal
  <1>6. PermitsConserved'
    <2>1. Holding' = Holding
      BY <1>1, <1>3, <1>4 DEF Holding
    <2> QED BY <1>4, <2>1, PermitKept DEF RunsInv
  <1>7. RunsTypeOK'
    BY <1>4, <1>5 DEF RunsInv, RunsTypeOK
  <1>8. RunsOwned'
    BY <1>1, <1>3, <1>4 DEF RunsInv, RunsOwned, RoleRuns
  <1>9. HandlerOwned'
    BY <1>4 DEF RunsInv, HandlerOwned
  <1>10. RolesExplained'
    <2>1. task[r].end = "none" /\ (\A x \in results : x.role # r) /\ verdict = "none"
      BY <1>4 DEF RunsInv, RolesExplained
    <2>2. \A o \in config.roles :
            /\ task'[o].pc = "done" <=> task'[o].end # "none"
            /\ task'[o].end = "result" => \E x \in results : x.role = o /\ x.success = task'[o].ok
            /\ task'[o].end = "skipped" => failFlag'
      BY <1>1, <1>3, <1>4, <1>5, <2>1 DEF RunsInv, RolesExplained
    <2>3. failFlag' => /\ config.failFast
                       /\ \E o \in config.roles : ~ task'[o].ok /\ (task'[o].pc = "push" \/ task'[o].end = "result")
      <3>1. CASE failFlag
        BY <1>1, <1>3, <1>4, <2>1, <3>1 DEF RunsInv, RolesExplained
      <3>2. CASE config.failFast /\ ~ task[r].ok
        BY <1>3, <1>4, <3>2
      <3> QED BY <1>5, <3>1, <3>2
    <2>4. \A x \in results : /\ x.role \in config.roles /\ task'[x.role].end = "result"
                             /\ x.success = task'[x.role].ok
      BY <1>1, <1>4, <2>1 DEF RunsInv, RolesExplained
    <2> QED BY <1>4, <2>1, <2>2, <2>3, <2>4 DEF RolesExplained
  <1> QED BY <1>6, <1>7, <1>8, <1>9, <1>10 DEF RunsInv

(* The join of all tasks, which decides the verdict, keeps RunsInv. *)
LEMMA JoinKeeps ==
    ASSUME RunsInv, Join, UNCHANGED lh
    PROVE  RunsInv'
  <1>1. /\ verdict' \in {"ok", "err"} /\ (verdict' = "err" => \A x \in results : ~ x.success)
        /\ \A r \in config.roles : task[r].pc = "done"
        /\ UNCHANGED <<config, task, permits, failFlag, results, runs, events>>
    BY DEF Join, ledger
  <1>2. Holding' = Holding
    BY <1>1 DEF Holding
  <1>3. PermitsConserved' /\ RunsTypeOK'
    BY <1>1, <1>2, PermitKept DEF RunsInv, RunsTypeOK
  <1>4. RunsOwned' /\ HandlerOwned'
    BY <1>1 DEF RunsInv, RunsOwned, HandlerOwned
  <1>5. RolesExplained'
    BY <1>1 DEF RunsInv, RolesExplained
  <1> QED BY <1>3, <1>4, <1>5 DEF RunsInv

(* The graph run's handler moves, and writes to its own run at most.       *)
LEMMA HandlerKeeps ==
    ASSUME RunsInv, UNCHANGED batch, lh' \in LedgerHandlerState,
           runs' \in [RunId -> Row], \A id \in RunId \ {GraphRun} : runs'[id] = runs[id],
           events' \in [RunId -> EventRows], \A id \in RunId \ {GraphRun} : events'[id] = events[id],
           HandlerRuns(lh', runs'[GraphRun]), Numbered(lh', events'[GraphRun])
    PROVE  RunsInv'
  <1>1. UNCHANGED <<config, task, permits, failFlag, results, verdict>>
    BY DEF batch
  <1>2. \A r \in Role : r \in RunId \ {GraphRun}
    BY RoleAssumption, DistinctRuns
  <1>3. Holding' = Holding
    BY <1>1 DEF Holding
  <1>4. PermitsConserved' /\ RunsTypeOK'
    BY <1>1, <1>3, PermitKept DEF RunsInv, RunsTypeOK, EventRows
  <1>5. RunsOwned'
    BY <1>1, <1>2 DEF RunsInv, RunsOwned
  <1>6. RolesExplained'
    BY <1>1 DEF RunsInv, RolesExplained
  <1> QED BY <1>4, <1>5, <1>6 DEF RunsInv, HandlerOwned

(* What a ledger call writes.                                              *)
LEMMA InsertRunWrites ==
    ASSUME RunsTypeOK, NEW id \in RunId, InsertRun(id) \/ UNCHANGED runs
    PROVE  /\ runs' \in [RunId -> Row] /\ \A o \in RunId \ {id} : runs'[o] = runs[o]
           /\ runs'[id].status \in {"RUNNING", runs[id].status}
  <1>1. [Absent EXCEPT !.status = "RUNNING"] \in Row /\ [Absent EXCEPT !.status = "RUNNING"].status = "RUNNING"
    BY DEF Absent, Row
  <1>2. CASE UNCHANGED runs
    BY <1>2 DEF RunsTypeOK
  <1>3. CASE InsertRun(id)
    BY <1>1, <1>3 DEF RunsTypeOK, InsertRun
  <1> QED BY <1>2, <1>3

(* complete_run and fail_run write the row of their run and no other. *)
LEMMA UpdateRunWrites ==
    ASSUME RunsTypeOK, NEW id \in RunId, NEW status \in {"COMPLETED", "FAILED"}, NEW total \in Nat,
           UpdateRun(id, status, total)
    PROVE  /\ runs' \in [RunId -> Row] /\ (\A o \in RunId \ {id} : runs'[o] = runs[o])
           /\ runs'[id].status = status
  <1>1. PICK row : row = [status |-> status, total |-> total, success |-> status = "COMPLETED"]
    OBVIOUS
  <1>2. row \in Row /\ row.status = status
    BY <1>1 DEF Row, Terminal
  <1> QED BY <1>1, <1>2 DEF RunsTypeOK, UpdateRun

(* An event is added under its number unless the number is taken; other    *)
(* runs keep their events.                                                 *)
LEMMA InsertEventWrites ==
    ASSUME RunsTypeOK, NEW id \in RunId, NEW seq \in Nat, NEW event \in Nat \cup Role,
           InsertEvent(id, seq, event)
    PROVE  /\ events' \in [RunId -> EventRows] /\ (\A o \in RunId \ {id} : events'[o] = events[o])
           /\ \/ events'[id] = events[id] /\ \E e \in events[id] : e[1] = seq
              \/ events'[id] = events[id] \cup {<<seq, event>>}
  <1>1. events \in [RunId -> EventRows]
    BY DEF RunsTypeOK, EventRows
  <1>2. CASE \E e \in events[id] : e[1] = seq
    BY <1>1, <1>2 DEF InsertEvent
  <1>3. CASE ~ \E e \in events[id] : e[1] = seq
    <2>1. events' = [events EXCEPT ![id] = events[id] \cup {<<seq, event>>}]
      BY <1>3 DEF InsertEvent
    <2>2. events[id] \cup {<<seq, event>>} \in EventRows
      BY <1>1 DEF EventRows
    <2> QED BY <1>1, <2>1, <2>2
  <1> QED BY <1>2, <1>3

(* Every step of a task of the batch.                                      *)
LEMMA RoleKeeps ==
    ASSUME RunsInv, NEW r \in config.roles, RoleStep(r), UNCHANGED lh
    PROVE  RunsInv'
  <1>1. /\ r \in Role /\ r \in RunId /\ task[r] \in Task /\ RunsTypeOK /\ RoleRuns(r, task[r], runs[r])
        /\ runs \in [RunId -> Row] /\ events \in [RunId -> EventRows]
    BY RoleAssumption DEF RunsInv, RunsTypeOK, Config, RunsOwned, EventRows
  <1>2. /\ task[r].run \in RunId \cup {NoRun} /\ task[r].seq \in Nat /\ task[r].pc \in RolePC
        /\ DOMAIN task[r] = {"pc", "run", "ok", "seq", "end", "written"}
    BY <1>1 DEF Task
  <1>3. CASE Acquire(r)
    <2>1. PICK t : t = [task[r] EXCEPT !.pc = "check"]
      OBVIOUS
    <2>2. t \in Task /\ t.pc = "check" /\ t.end = task[r].end /\ t.run = task[r].run /\ t.written = task[r].written
      BY <1>1, <2>1 DEF Task, RolePC
    <2>3. /\ task' = [task EXCEPT ![r] = t] /\ task[r].pc = "permit" /\ permits > 0 /\ permits' = permits - 1
          /\ UNCHANGED <<config, failFlag, results, verdict, runs, events>>
      BY <1>3, <2>1 DEF Acquire, Step, ledger
    <2>4. RoleRuns(r, t, runs'[r])
      BY <1>1, <2>2, <2>3 DEF RoleRuns
    <2> QED BY <1>1, <2>2, <2>3, <2>4, TaskMoves
  <1>4. CASE CheckFlag(r)
    <2>1. CASE failFlag /\ Leave(r, "skipped")
      <3>1. PICK end : end = "skipped"
        OBVIOUS
      <3>2. /\ end \in {"result", "skipped", "panic"} /\ Leave(r, end) /\ task[r].pc = "check"
            /\ UNCHANGED <<config, failFlag, results, verdict, runs, events>> /\ end # "result"
        BY <1>4, <2>1, <3>1 DEF CheckFlag, ledger
      <3>3. end # "result" => results' = results
        BY <3>2
      <3>4. end = "result" => results' = results \cup {[role |-> r, run |-> task[r].run, success |-> task[r].ok]}
        BY <3>2
      <3>5. end = "skipped" => failFlag
        BY <2>1
      <3>6. task[r].pc \in IF end = "result" THEN {"push"} ELSE {"check", "execute", "append"}
        BY <3>2
      <3> QED BY <3>2, <3>3, <3>4, <3>5, <3>6, TaskLeaves
    <2>2. CASE Step(r, [task[r] EXCEPT !.pc = "create"]) /\ UNCHANGED permits
      <3>1. PICK t : t = [task[r] EXCEPT !.pc = "create"]
        OBVIOUS
      <3>2. t \in Task /\ t.pc = "create" /\ t.end = task[r].end /\ t.run = task[r].run /\ t.written = task[r].written
        BY <1>1, <3>1 DEF Task, RolePC
      <3>3. /\ task' = [task EXCEPT ![r] = t] /\ task[r].pc = "check" /\ permits' = permits
            /\ UNCHANGED <<config, failFlag, results, verdict, runs, events>>
        BY <1>4, <2>2, <3>1 DEF CheckFlag, Step, ledger
      <3>4. RoleRuns(r, t, runs'[r])
        BY <1>1, <3>2, <3>3 DEF RoleRuns
      <3> QED BY <1>1, <3>2, <3>3, <3>4, TaskMoves
    <2> QED BY <1>4, <2>1, <2>2 DEF CheckFlag
  <1>5. CASE CreateRun(r)
    <2>1. /\ task[r].pc = "create" /\ runs' \in [RunId -> Row] /\ (\A o \in RunId \ {r} : runs'[o] = runs[o])
          /\ runs'[r].status \in {"RUNNING", "NONE"} /\ UNCHANGED <<config, permits, failFlag, results, verdict, events>>
      <3>1. InsertRun(r) \/ UNCHANGED runs
        BY <1>5 DEF CreateRun
      <3>2. task[r].pc = "create" /\ runs[r].status = "NONE"
        BY <1>1, <1>5 DEF CreateRun, RoleRuns
      <3> QED BY <1>1, <1>5, <3>1, <3>2, InsertRunWrites DEF CreateRun
    <2>2. CASE Step(r, [task[r] EXCEPT !.pc = "execute", !.run = r])
      <3>1. PICK t : t = [task[r] EXCEPT !.pc = "execute", !.run = r]
        OBVIOUS
      <3>2. t \in Task /\ t.pc = "execute" /\ t.end = task[r].end /\ t.run = r /\ t.written = task[r].written
        BY <1>1, <3>1 DEF Task, RolePC
      <3>3. task' = [task EXCEPT ![r] = t]
        BY <2>2, <3>1 DEF Step
      <3>4. RoleRuns(r, t, runs'[r])
        BY <1>1, <2>1, <3>2 DEF RoleRuns, Terminal
      <3> QED BY <1>1, <2>1, <3>2, <3>3, <3>4, TaskMoves
    <2>3. CASE Step(r, [task[r] EXCEPT !.pc = "signal"])
      <3>1. PICK t : t = [task[r] EXCEPT !.pc = "signal"]
        OBVIOUS
      <3>2. t \in Task /\ t.pc = "signal" /\ t.end = task[r].end /\ t.run = task[r].run /\ t.written = task[r].written
        BY <1>1, <3>1 DEF Task, RolePC
      <3>3. task' = [task EXCEPT ![r] = t]
        BY <2>3, <3>1 DEF Step
      <3>4. RoleRuns(r, t, runs'[r])
        BY <1>1, <2>1, <3>2 DEF RoleRuns
      <3> QED BY <1>1, <2>1, <3>2, <3>3, <3>4, TaskMoves
    <2> QED BY <1>5, <2>2, <2>3 DEF CreateRun
  <1>6. CASE AppendFetch(r)
    <2>1. /\ task[r].pc = "execute" /\ UNCHANGED <<config, permits, failFlag, results, verdict, runs, events>>
          /\ \/ task' = [task EXCEPT ![r] = [task[r] EXCEPT !.pc = "append"]]
             \/ task' = [task EXCEPT ![r] = [task[r] EXCEPT !.seq = @ + 1]]
      BY <1>6 DEF AppendFetch, Step, ledger
    <2>2. PICK t : /\ task' = [task EXCEPT ![r] = t]
                   /\ t \in {[task[r] EXCEPT !.pc = "append"], [task[r] EXCEPT !.seq = @ + 1]}
      BY <2>1
    <2>3. /\ t \in Task /\ t.pc \in {"append", "execute"} /\ t.end = task[r].end /\ t.run = task[r].run
          /\ t.written = task[r].written
      <3>1. task[r].seq + 1 \in Nat
        BY <1>2
      <3>2. CASE t = [task[r] EXCEPT !.pc = "append"]
        BY <1>1, <3>2 DEF Task, RolePC
      <3>3. CASE t = [task[r] EXCEPT !.seq = @ + 1]
        BY <1>1, <2>1, <3>1, <3>3 DEF Task, RolePC
      <3> QED BY <2>2, <3>2, <3>3
    <2>4. RoleRuns(r, t, runs'[r])
      BY <1>1, <2>1, <2>3 DEF RoleRuns
    <2> QED BY <1>1, <2>1, <2>2, <2>3, <2>4, TaskMoves
  <1>7. CASE AppendWrite(r)
    <2>1. PICK t : t = [task[r] EXCEPT !.pc = "execute", !.seq = @ + 1]
      OBVIOUS
    <2>2. t \in Task /\ t.pc = "execute" /\ t.end = task[r].end /\ t.run = task[r].run /\ t.written = task[r].written
      <3>1. task[r].seq + 1 \in Nat
        BY <1>2
      <3> QED BY <1>1, <2>1, <3>1 DEF Task, RolePC
    <2>3. /\ task' = [task EXCEPT ![r] = t] /\ task[r].pc = "append" /\ permits' = permits
          /\ UNCHANGED <<config, failFlag, results, verdict, runs>>
          /\ InsertEvent(task[r].run, task[r].seq, r) \/ UNCHANGED events
      BY <1>7, <2>1 DEF AppendWrite, Step
    <2>4. RoleRuns(r, t, runs'[r]) /\ task[r].run = r
      BY <1>1, <2>2, <2>3 DEF RoleRuns
    <2>5. events' \in [RunId -> EventRows] /\ \A o \in RunId \ {r} : events'[o] = events[o]
      <3>1. CASE UNCHANGED events
        BY <1>1, <3>1
      <3>2. CASE InsertEvent(task[r].run, task[r].seq, r)
        BY <1>1, <1>2, <2>4, <3>2, InsertEventWrites
      <3> QED BY <2>3, <3>1, <3>2
    <2> QED BY <1>1, <2>2, <2>3, <2>4, <2>5, TaskMoves
  <1>8. CASE Return(r)
    <2>1. PICK ok \in BOOLEAN : Step(r, [task[r] EXCEPT !.pc = "fetch", !.ok = ok])
      BY <1>8 DEF Return
    <2>2. PICK t : t = [task[r] EXCEPT !.pc = "fetch", !.ok = ok]
      OBVIOUS
    <2>3. t \in Task /\ t.pc = "fetch" /\ t.end = task[r].end /\ t.run = task[r].run /\ t.written = task[r].written
      BY <1>1, <2>2 DEF Task, RolePC
    <2>4. /\ task' = [task EXCEPT ![r] = t] /\ task[r].pc = "execute" /\ permits' = permits
          /\ UNCHANGED <<config, failFlag, results, verdict, runs, events>>
      BY <1>8, <2>1, <2>2 DEF Return, Step, ledger
    <2>5. RoleRuns(r, t, runs'[r])
      BY <1>1, <2>3, <2>4 DEF RoleRuns
    <2> QED BY <1>1, <2>3, <2>4, <2>5, TaskMoves
  <1>9. CASE Panic(r)
    <2>1. PICK end : end = "panic"
      OBVIOUS
    <2>2. /\ end \in {"result", "skipped", "panic"} /\ Leave(r, end) /\ task[r].pc \in {"execute", "append"}
          /\ end \notin {"result", "skipped"}
          /\ UNCHANGED <<config, failFlag, results, verdict, runs, events>>
      BY <1>9, <2>1 DEF Panic, ledger
    <2>3. end # "result" => results' = results
      BY <2>2
    <2>4. end = "result" => results' = results \cup {[role |-> r, run |-> task[r].run, success |-> task[r].ok]}
      BY <2>2
    <2>5. task[r].pc \in IF end = "result" THEN {"push"} ELSE {"check", "execute", "append"}
      BY <2>2
    <2> QED BY <2>2, <2>3, <2>4, <2>5, TaskLeaves
  <1>10. CASE FinishFetch(r)
    <2>1. PICK pc \in {"write", "signal"} : Step(r, [task[r] EXCEPT !.pc = pc])
      BY <1>10 DEF FinishFetch
    <2>2. PICK t : t = [task[r] EXCEPT !.pc = pc]
      OBVIOUS
    <2>3. t \in Task /\ t.pc = pc /\ t.end = task[r].end /\ t.run = task[r].run /\ t.written = task[r].written
      BY <1>1, <2>1, <2>2 DEF Task, RolePC
    <2>4. /\ task' = [task EXCEPT ![r] = t] /\ task[r].pc = "fetch" /\ permits' = permits
          /\ UNCHANGED <<config, failFlag, results, verdict, runs, events>>
      BY <1>10, <2>1, <2>2 DEF FinishFetch, Step, ledger
    <2>5. RoleRuns(r, t, runs'[r])
      BY <1>1, <2>3, <2>4 DEF RoleRuns
    <2> QED BY <1>1, <2>1, <2>3, <2>4, <2>5, TaskMoves
  <1>11. CASE FinishWrite(r)
    <2>1. /\ task[r].pc = "write" /\ UNCHANGED <<config, permits, failFlag, results, verdict, events>>
          /\ task[r].run = r /\ ~ task[r].written
      BY <1>1, <1>11 DEF FinishWrite, RoleRuns
    <2>2. CASE /\ IF task[r].ok THEN UpdateRun(task[r].run, "COMPLETED", 1) ELSE UpdateRun(task[r].run, "FAILED", 0)
               /\ Step(r, [task[r] EXCEPT !.pc = "signal", !.written = TRUE])
      <3>1. PICK t : t = [task[r] EXCEPT !.pc = "signal", !.written = TRUE]
        OBVIOUS
      <3>2. t \in Task /\ t.pc = "signal" /\ t.end = task[r].end /\ t.run = task[r].run /\ t.ok = task[r].ok
        BY <1>1, <3>1 DEF Task, RolePC
      <3>3. task' = [task EXCEPT ![r] = t]
        BY <2>2, <3>1 DEF Step
      <3>4. /\ runs' \in [RunId -> Row] /\ (\A o \in RunId \ {r} : runs'[o] = runs[o])
            /\ runs'[r].status = IF task[r].ok THEN "COMPLETED" ELSE "FAILED"
        <4>1. CASE task[r].ok
          BY <1>1, <2>1, <2>2, <4>1, UpdateRunWrites
        <4>2. CASE ~ task[r].ok
          BY <1>1, <2>1, <2>2, <4>2, UpdateRunWrites
        <4> QED BY <4>1, <4>2
      <3>5. RoleRuns(r, t, runs'[r])
        BY <2>1, <3>2, <3>4 DEF RoleRuns
      <3> QED BY <1>1, <2>1, <3>2, <3>3, <3>4, <3>5, TaskMoves
    <2>3. CASE Step(r, [task[r] EXCEPT !.pc = "signal"]) /\ UNCHANGED runs
      <3>1. PICK t : t = [task[r] EXCEPT !.pc = "signal"]
        OBVIOUS
      <3>2. t \in Task /\ t.pc = "signal" /\ t.end = task[r].end /\ t.run = task[r].run /\ t.written = task[r].written
        BY <1>1, <3>1 DEF Task, RolePC
      <3>3. task' = [task EXCEPT ![r] = t]
        BY <2>3, <3>1 DEF Step
      <3>4. RoleRuns(r, t, runs'[r])
        BY <1>1, <2>1, <2>3, <3>2 DEF RoleRuns
      <3> QED BY <1>1, <2>1, <2>3, <3>2, <3>3, <3>4, TaskMoves
    <2> QED BY <1>11, <2>2, <2>3 DEF FinishWrite
  <1>12. CASE Signal(r)
    BY <1>12, SignalKeeps
  <1>13. CASE Push(r)
    <2>1. PICK end : end = "result"
      OBVIOUS
    <2>2. /\ end \in {"result", "skipped", "panic"} /\ Leave(r, end) /\ task[r].pc = "push"
          /\ results' = results \cup {[role |-> r, run |-> task[r].run, success |-> task[r].ok]}
          /\ UNCHANGED <<config, failFlag, verdict, runs, events>>
      BY <1>13, <2>1 DEF Push, ledger
    <2> QED BY <2>1, <2>2, TaskLeaves
  <1> QED BY <1>3, <1>4, <1>5, <1>6, <1>7, <1>8, <1>9, <1>10, <1>11, <1>12, <1>13 DEF RoleStep

(* A step of the handler that takes no number keeps what is numbered.      *)
LEMMA NumberedKeeps ==
    ASSUME NEW st \in LedgerHandlerState, NEW new \in LedgerHandlerState, NEW rows, Numbered(st, rows),
           new.seq = st.seq, new.event >= st.event, new.acked = st.acked, new.using = st.using,
           new.pc = "insert" => st.pc = "append", new.pc # "append",
           new.event = st.event \/ new.pc = "ready"
    PROVE  Numbered(new, rows)
  <1>1. /\ st.seq \in Nat /\ st.event \in Nat /\ st.using \in Nat /\ new.event \in Nat
    BY DEF LedgerHandlerState
  <1>2. rows \subseteq Nat \X Nat /\ \A e \in rows : e[1] \in Nat /\ e[2] \in Nat
    BY DEF Numbered
  <1>3. \A e \in rows : e[1] < new.seq /\ e[2] <= new.event
    BY <1>1, <1>2 DEF Numbered
  <1>4. new.pc \in {"append", "insert"} => new.using < new.seq /\ \A e \in rows : e[1] < new.using /\ e[2] < new.event
    BY <1>1, <1>2 DEF Numbered
  <1> QED BY <1>2, <1>3, <1>4 DEF Numbered

(* Every step of the ledger handler, with the answers it loses, keeps      *)
(* RunsInv.                                                                *)
LEMMA HandlerStepKeeps ==
    ASSUME RunsInv, HandlerNext, UNCHANGED batch
    PROVE  RunsInv'
  <1>1. /\ GraphRun \in RunId /\ lh \in LedgerHandlerState /\ RunsTypeOK
        /\ runs \in [RunId -> Row] /\ events \in [RunId -> EventRows]
        /\ HandlerRuns(lh, runs[GraphRun]) /\ Numbered(lh, events[GraphRun])
    BY HandlerAssumption DEF RunsInv, RunsTypeOK, EventRows, HandlerOwned
  <1>2. /\ lh.seq \in Nat /\ lh.seq >= 1 /\ lh.event \in Nat /\ lh.using \in Nat /\ lh.acked \subseteq Nat
        /\ lh.run \in {NoRun, GraphRun}
    BY <1>1 DEF LedgerHandlerState, HandlerRuns
  <1>3. ASSUME NEW pc \in HandlerPC, lh' = [lh EXCEPT !.pc = pc], pc # "append",
               pc = "insert" => lh.pc = "append", pc \in {"insert", "stop", "finish"} => lh.run = GraphRun,
               lh.pc # "stopped",
               UNCHANGED events, runs' \in [RunId -> Row], \A id \in RunId \ {GraphRun} : runs'[id] = runs[id],
               pc = "stopped" \/ UNCHANGED runs
        PROVE  RunsInv'
    <2>1. /\ lh' \in LedgerHandlerState /\ lh'.pc = pc /\ lh'.seq = lh.seq /\ lh'.event = lh.event
          /\ lh'.using = lh.using /\ lh'.acked = lh.acked /\ lh'.run = lh.run
      BY <1>1, <1>3 DEF LedgerHandlerState
    <2>2. Numbered(lh', events'[GraphRun])
      <3>1. /\ lh'.event >= lh.event /\ lh'.pc # "append"
            /\ lh'.pc = "insert" => lh.pc = "append"
        BY <1>2, <1>3, <2>1
      <3>2. PICK rows : rows = events[GraphRun] /\ rows = events'[GraphRun]
        BY <1>3
      <3>3. Numbered(lh', rows)
        BY <1>1, <2>1, <3>1, <3>2, NumberedKeeps
      <3> QED BY <3>2, <3>3
    <2>3. HandlerRuns(lh', runs'[GraphRun])
      BY <1>1, <1>2, <1>3, <2>1 DEF HandlerRuns
    <2> QED BY <1>1, <1>3, <2>1, <2>2, <2>3, HandlerKeeps
  <1>4. CASE OnStart
    <2>1. PICK run \in {GraphRun, NoRun} : lh' = [lh EXCEPT !.pc = "ready", !.run = run]
      <3>1. CASE lh' = [lh EXCEPT !.pc = "ready", !.run = GraphRun]
        BY <3>1
      <3>2. CASE lh' = [lh EXCEPT !.pc = "ready"]
        <4>1. lh' = [lh EXCEPT !.pc = "ready", !.run = lh.run]
          BY <1>1, <3>2 DEF LedgerHandlerState
        <4> QED BY <1>2, <4>1
      <3> QED BY <1>4, <3>1, <3>2 DEF OnStart
    <2>2. /\ lh' \in LedgerHandlerState /\ lh'.pc = "ready" /\ lh'.seq = lh.seq /\ lh'.event = lh.event
          /\ lh'.using = lh.using /\ lh'.acked = lh.acked /\ lh'.run \in {NoRun, GraphRun}
      <3>1. run \in RunId \cup {NoRun}
        BY <2>1, HandlerAssumption
      <3> QED BY <1>1, <2>1, <3>1 DEF LedgerHandlerState, HandlerPC
    <2>3. /\ runs' \in [RunId -> Row] /\ \A o \in RunId \ {GraphRun} : runs'[o] = runs[o]
          /\ runs'[GraphRun].status \in {"RUNNING", runs[GraphRun].status}
      <3>1. InsertRun(GraphRun) \/ UNCHANGED runs
        BY <1>4 DEF OnStart
      <3> QED BY <1>1, <3>1, InsertRunWrites
    <2>4. UNCHANGED events /\ lh.pc = "start"
      BY <1>4 DEF OnStart
    <2>5. Numbered(lh', events'[GraphRun])
      BY <1>1, <1>2, <2>2, <2>4, NumberedKeeps
    <2>6. HandlerRuns(lh', runs'[GraphRun])
      BY <1>1, <1>2, <2>2, <2>3, <2>4 DEF HandlerRuns, Terminal
    <2> QED BY <1>1, <2>2, <2>3, <2>4, <2>5, <2>6, HandlerKeeps
  <1>5. CASE Handle
    <2>1. UNCHANGED <<runs, events>> /\ lh.pc = "ready"
      BY <1>5 DEF Handle, ledger
    <2>2. CASE lh.run = NoRun /\ lh' = [lh EXCEPT !.event = @ + 1]
      <3>1. /\ lh' \in LedgerHandlerState /\ lh'.pc = "ready" /\ lh'.seq = lh.seq /\ lh'.event = lh.event + 1
            /\ lh'.using = lh.using /\ lh'.acked = lh.acked /\ lh'.run = lh.run
        <4>1. lh.event + 1 \in Nat
          BY <1>2
        <4> QED BY <1>1, <2>1, <2>2, <4>1 DEF LedgerHandlerState
      <3>2. Numbered(lh', events'[GraphRun])
        BY <1>1, <1>2, <2>1, <3>1, NumberedKeeps
      <3>3. HandlerRuns(lh', runs'[GraphRun])
        BY <1>1, <1>2, <2>1, <3>1 DEF HandlerRuns
      <3> QED BY <1>1, <2>1, <3>1, <3>2, <3>3, HandlerKeeps
    <2>3. ASSUME NEW error \in BOOLEAN, lh.run # NoRun,
                 lh' = [lh EXCEPT !.pc = "append", !.event = @ + 1, !.seq = @ + 1,
                                  !.using = lh.seq, !.sawError = @ \/ error]
          PROVE  RunsInv'
      <3>1. /\ lh' \in LedgerHandlerState /\ lh'.pc = "append" /\ lh'.seq = lh.seq + 1 /\ lh'.event = lh.event + 1
            /\ lh'.using = lh.seq /\ lh'.acked = lh.acked /\ lh'.run = lh.run
        <4>1. lh.event + 1 \in Nat /\ lh.seq + 1 \in Nat
          BY <1>2
        <4>2. PICK saw \in BOOLEAN : saw = (lh.sawError \/ error)
          OBVIOUS
        <4>3. lh' = [lh EXCEPT !.pc = "append", !.event = lh.event + 1, !.seq = lh.seq + 1,
                               !.using = lh.seq, !.sawError = saw]
          BY <2>3, <4>2
        <4> QED BY <1>1, <1>2, <4>1, <4>3 DEF LedgerHandlerState, HandlerPC
      <3>2. Numbered(lh', events'[GraphRun])
        <4>1. PICK rows : rows = events[GraphRun] /\ Numbered(lh, rows)
          BY <1>1
        <4>2. rows \subseteq Nat \X Nat /\ \A e \in rows : e[1] \in Nat /\ e[2] \in Nat
          BY <4>1 DEF Numbered
        <4>3. \A e \in rows : e[1] < lh.seq /\ e[2] <= lh.event
          BY <4>1 DEF Numbered
        <4>4. \A e \in rows : e[1] < lh'.seq /\ e[2] <= lh'.event /\ e[1] < lh'.using /\ e[2] < lh'.event
          BY <1>2, <3>1, <4>2, <4>3
        <4>5. lh'.using < lh'.seq
          BY <1>2, <3>1
        <4>6. Numbered(lh', rows)
          BY <3>1, <4>1, <4>2, <4>4, <4>5 DEF Numbered
        <4> QED BY <2>1, <4>1, <4>6
      <3>3. HandlerRuns(lh', runs'[GraphRun])
        BY <1>1, <1>2, <2>1, <2>3, <3>1 DEF HandlerRuns
      <3> QED BY <1>1, <2>1, <3>1, <3>2, <3>3, HandlerKeeps
    <2> QED BY <1>5, <2>2, <2>3 DEF Handle
  <1>6. CASE HandleFetch
    <2>1. PICK pc \in {"insert", "ready"} : lh' = [lh EXCEPT !.pc = pc]
      BY <1>6 DEF HandleFetch
    <2>2. lh.pc = "append" /\ lh.run = GraphRun /\ UNCHANGED <<runs, events>> /\ pc \in HandlerPC
      BY <1>1, <1>6, <2>1 DEF HandleFetch, ledger, HandlerRuns, HandlerPC
    <2> QED BY <1>1, <1>3, <2>1, <2>2
  <1>7. CASE HandleInsert
    <2>1. lh.pc = "insert" /\ lh.run = GraphRun /\ UNCHANGED runs
      BY <1>1, <1>7 DEF HandleInsert, HandlerRuns
    <2>2. CASE UNCHANGED events /\ lh' = [lh EXCEPT !.pc = "ready"]
      BY <1>1, <1>3, <2>1, <2>2 DEF HandlerPC
    <2>3. CASE /\ InsertEvent(lh.run, lh.using, lh.event)
               /\ \/ lh' = [lh EXCEPT !.pc = "ready", !.acked = @ \cup {lh.event}]
                  \/ lh' = [lh EXCEPT !.pc = "ready"]
      <3>1. PICK acked \in {lh.acked, lh.acked \cup {lh.event}} : lh' = [lh EXCEPT !.pc = "ready", !.acked = acked]
        <4>1. CASE lh' = [lh EXCEPT !.pc = "ready"]
          <5>1. lh' = [lh EXCEPT !.pc = "ready", !.acked = lh.acked]
            BY <1>1, <4>1 DEF LedgerHandlerState
          <5> QED BY <5>1
        <4>2. CASE lh' = [lh EXCEPT !.pc = "ready", !.acked = @ \cup {lh.event}]
          BY <4>2
        <4> QED BY <2>3, <4>1, <4>2
      <3>2. /\ lh' \in LedgerHandlerState /\ lh'.pc = "ready" /\ lh'.seq = lh.seq /\ lh'.event = lh.event
            /\ lh'.using = lh.using /\ lh'.acked = acked /\ lh'.run = lh.run
        <4>1. acked \in SUBSET Nat
          BY <1>2, <3>1
        <4> QED BY <1>1, <3>1, <4>1 DEF LedgerHandlerState, HandlerPC
      <3>3. PICK rows : rows = events[GraphRun] /\ Numbered(lh, rows)
        BY <1>1
      <3>4. /\ rows \subseteq Nat \X Nat /\ (\A e \in rows : e[1] \in Nat /\ e[2] \in Nat)
            /\ \A e \in rows : e[1] < lh.using /\ e[2] < lh.event
            /\ lh.using < lh.seq
        BY <2>1, <3>3 DEF Numbered
      <3>5. /\ events' \in [RunId -> EventRows] /\ (\A o \in RunId \ {GraphRun} : events'[o] = events[o])
            /\ events'[GraphRun] = rows \cup {<<lh.using, lh.event>>}
        <4>1. ~ \E e \in rows : e[1] = lh.using
          BY <1>2, <3>4
        <4> QED BY <1>1, <1>2, <2>1, <2>3, <3>3, <4>1, InsertEventWrites
      <3>6. Numbered(lh', rows \cup {<<lh.using, lh.event>>})
        <4>1. PICK new : new = <<lh.using, lh.event>>
          OBVIOUS
        <4>2. new \in Nat \X Nat /\ new[1] = lh.using /\ new[2] = lh.event
          BY <1>2, <4>1
        <4>3. rows \cup {new} \subseteq Nat \X Nat
          BY <3>4, <4>2
        <4>4. \A e \in rows \cup {new} : e[1] < lh'.seq /\ e[2] <= lh'.event
          BY <1>2, <3>2, <3>4, <4>2
        <4>5. \A d, e \in rows \cup {new} : d[1] < e[1] <=> d[2] < e[2]
          <5> SUFFICES ASSUME NEW d \in rows \cup {new}, NEW e \in rows \cup {new}
                       PROVE  d[1] < e[1] <=> d[2] < e[2]
            OBVIOUS
          <5>1. CASE d \in rows /\ e \in rows
            BY <3>3, <5>1 DEF Numbered
          <5>2. CASE d = new \/ e = new
            BY <1>2, <3>4, <4>2, <5>2
          <5> QED BY <5>1, <5>2
        <4>6. \A n \in acked : \E e \in rows \cup {new} : e[2] = n
          BY <3>1, <3>3, <4>2 DEF Numbered
        <4>7. Numbered(lh', rows \cup {new})
          BY <3>2, <4>3, <4>4, <4>5, <4>6 DEF Numbered
        <4> QED BY <4>1, <4>7
      <3>7. HandlerRuns(lh', runs'[GraphRun])
        BY <1>1, <1>2, <2>1, <3>2 DEF HandlerRuns
      <3> QED BY <1>1, <2>1, <3>2, <3>5, <3>6, <3>7, HandlerKeeps
    <2> QED BY <1>7, <2>2, <2>3 DEF HandleInsert
  <1>8. CASE OnStop
    <2>1. PICK pc \in {"stopped", "stop"} : lh' = [lh EXCEPT !.pc = pc] /\ (pc = "stop" => lh.run # NoRun)
      <3>1. CASE lh.run = NoRun
        BY <1>8, <3>1 DEF OnStop
      <3>2. CASE lh.run # NoRun
        BY <1>8, <3>2 DEF OnStop
      <3> QED BY <3>1, <3>2
    <2>2. lh.pc = "ready" /\ UNCHANGED <<runs, events>> /\ pc \in HandlerPC
      BY <1>8, <2>1 DEF OnStop, ledger, HandlerPC
    <2> QED BY <1>1, <1>2, <1>3, <2>1, <2>2
  <1>9. CASE StopFetch
    <2>1. PICK pc \in {"stopped", "finish"} : lh' = [lh EXCEPT !.pc = pc]
      BY <1>9 DEF StopFetch
    <2>2. lh.pc = "stop" /\ lh.run = GraphRun /\ UNCHANGED <<runs, events>> /\ pc \in HandlerPC
      BY <1>1, <1>9, <2>1 DEF StopFetch, ledger, HandlerPC, HandlerRuns
    <2> QED BY <1>1, <1>3, <2>1, <2>2
  <1>10. CASE StopWrite
    <2>1. lh.pc = "finish" /\ lh.run = GraphRun /\ UNCHANGED events /\ lh' = [lh EXCEPT !.pc = "stopped"]
      BY <1>1, <1>10 DEF StopWrite, HandlerRuns
    <2>2. runs' \in [RunId -> Row] /\ \A o \in RunId \ {GraphRun} : runs'[o] = runs[o]
      <3>1. CASE UNCHANGED runs
        BY <1>1, <3>1
      <3>2. CASE ~ UNCHANGED runs
        <4>1. PICK status : status = IF lh.sawError THEN "FAILED" ELSE "COMPLETED"
          OBVIOUS
        <4>2. status \in {"COMPLETED", "FAILED"} /\ lh.seq - 1 \in Nat
          BY <1>2, <4>1
        <4>3. UpdateRun(GraphRun, status, lh.seq - 1)
          BY <1>10, <2>1, <3>2, <4>1 DEF StopWrite
        <4> QED BY <1>1, <4>2, <4>3, UpdateRunWrites
      <3> QED BY <3>1, <3>2
    <2> QED BY <1>3, <2>1, <2>2 DEF HandlerPC
  <1> QED BY <1>4, <1>5, <1>6, <1>7, <1>8, <1>9, <1>10 DEF HandlerNext

(* The steps of the batch and of the handler together. *)
LEMMA RunsStep == RunsInv /\ [Next]_vars => RunsInv'
  <1> SUFFICES ASSUME RunsInv, [Next]_vars PROVE RunsInv'
    OBVIOUS
  <1>1. CASE UNCHANGED vars
    <2>1. UNCHANGED <<runs, events, config, task, permits, failFlag, results, verdict, lh>>
      BY <1>1 DEF vars, ledger, batch
    <2>2. Holding' = Holding
      BY <2>1 DEF Holding
    <2> QED BY <2>1, <2>2 DEF RunsInv, RunsTypeOK, PermitsConserved, RunsOwned, HandlerOwned,
               RolesExplained
  <1>2. CASE RoleNext /\ UNCHANGED lh
    BY <1>2, RoleKeeps, JoinKeeps DEF RoleNext
  <1>3. CASE HandlerNext /\ UNCHANGED batch
    BY <1>3, HandlerStepKeeps
  <1> QED BY <1>1, <1>2, <1>3 DEF Next

(* RunsInv holds before the first step, with and without a graph run. *)
LEMMA RunsStart ==
    LedgerInit /\ RoleInit /\ (HandlerInit \/ lh = [Idle EXCEPT !.pc = "stopped"]) => RunsInv
  <1> SUFFICES ASSUME LedgerInit, RoleInit, HandlerInit \/ lh = [Idle EXCEPT !.pc = "stopped"] PROVE RunsInv
    OBVIOUS
  <1>1. runs \in [RunId -> Row] /\ events \in [RunId -> EventRows]
    BY DEF LedgerInit, Absent, Row, EventRows
  <1>2. \A id \in RunId : runs[id].status = "NONE" /\ events[id] = {}
    BY DEF LedgerInit, Absent
  <1>3. \A r \in Role : /\ task[r].pc = "permit" /\ task[r].run = NoRun /\ ~ task[r].written /\ task[r].end = "none"
    BY DEF RoleInit
  <1>4. task \in [Role -> Task]
    BY DEF RoleInit, Task, RolePC
  <1>5. /\ lh.seq = 1 /\ lh.event = 0 /\ lh.using = 0 /\ lh.acked = {} /\ lh.run = NoRun
        /\ lh.pc \in {"start", "stopped"} /\ lh \in LedgerHandlerState
    <2>1. CASE HandlerInit
      BY <2>1 DEF HandlerInit, Idle, LedgerHandlerState, HandlerPC
    <2>2. CASE lh = [Idle EXCEPT !.pc = "stopped"]
      BY <2>2 DEF Idle, LedgerHandlerState, HandlerPC
    <2> QED BY <2>1, <2>2
  <1>6. config \in Config /\ permits = config.maxConcurrent /\ permits \in 1 .. MaxConcurrent
    BY DEF RoleInit, Config
  <1>7. config.roles \subseteq Role
    BY <1>6 DEF Config
  <1>8. PermitsConserved /\ permits \in 0 .. MaxConcurrent
    <2>1. Holding = {}
      BY <1>3, <1>7 DEF Holding
    <2>2. Cardinality(Holding) = 0
      BY <2>1, FS_EmptySet
    <2> QED BY <1>6, <2>2, RoleAssumption DEF PermitsConserved
  <1>9. RunsTypeOK
    BY <1>1, <1>4, <1>5, <1>6, <1>8 DEF RunsTypeOK, RoleInit, EventRows
  <1>10. RunsOwned
    BY <1>2, <1>3, RoleAssumption DEF RunsOwned, RoleRuns
  <1>11. HandlerOwned
    <2>1. HandlerRuns(lh, runs[GraphRun])
      BY <1>2, <1>5, HandlerAssumption DEF HandlerRuns, Terminal
    <2>2. Numbered(lh, events[GraphRun])
      BY <1>2, <1>5, HandlerAssumption DEF Numbered
    <2> QED BY <2>1, <2>2 DEF HandlerOwned
  <1>12. RolesExplained
    BY <1>3, <1>7 DEF RolesExplained, RoleInit
  <1> QED BY <1>8, <1>9, <1>10, <1>11, <1>12 DEF RunsInv

(* RunsInv is an invariant of every batch beside every graph run. *)
LEMMA RunsAlways == RunsSpec => []RunsInv
  BY RunsStart, RunsStep, PTL DEF RunsSpec

(* For any batch and any graph run on the shared ledger: no permit is      *)
(* lost, a batch that returned explains every role by a result, a panic or *)
(* a failed sibling, and without fail_fast it is refused only when every   *)
(* role failed.                                                            *)
THEOREM BatchesAreSound == RunsSpec => []RunsSound
  <1>1. RunsInv => RunsSound
    <2> SUFFICES ASSUME RunsInv PROVE RunsSound
      OBVIOUS
    <2>1. NoRoleLost
      <3> SUFFICES ASSUME verdict # "none", NEW r \in config.roles
                   PROVE  \/ \E x \in results : x.role = r /\ x.success = task[r].ok
                          \/ task[r].end = "panic"
                          \/ task[r].end = "skipped" /\ config.failFast /\ \E x \in results : ~ x.success
        BY DEF NoRoleLost
      <3>1. task[r].end \in {"result", "skipped", "panic"}
        <4>1. task[r].pc = "done" /\ task[r].end # "none"
          BY DEF RunsInv, RolesExplained
        <4>2. task[r] \in Task
          BY DEF RunsInv, RunsTypeOK, Config
        <4> QED BY <4>1, <4>2 DEF Task
      <3>2. CASE task[r].end = "skipped"
        <4>1. config.failFast /\ \E o \in config.roles : ~ task[o].ok /\ (task[o].pc = "push" \/ task[o].end = "result")
          BY <3>2 DEF RunsInv, RolesExplained
        <4>2. PICK o \in config.roles : ~ task[o].ok /\ task[o].end = "result"
          BY <4>1 DEF RunsInv, RolesExplained
        <4>3. PICK x \in results : x.role = o /\ x.success = task[o].ok
          BY <4>2 DEF RunsInv, RolesExplained
        <4> QED BY <3>2, <4>1, <4>2, <4>3
      <3>3. CASE task[r].end = "result"
        BY <3>3 DEF RunsInv, RolesExplained
      <3> QED BY <3>1, <3>2, <3>3
    <2>2. ErrOnlyWhenAllRan
      <3> SUFFICES ASSUME ~ config.failFast, verdict = "err", NEW r \in config.roles
                   PROVE  task[r].end = "panic" \/ (task[r].end = "result" /\ ~ task[r].ok)
        BY DEF ErrOnlyWhenAllRan, ErrOnlyWhenAllFail
      <3>1. task[r].end \in {"result", "panic"}
        <4>1. task[r].pc = "done" /\ task[r].end # "none" /\ task[r].end # "skipped"
          BY DEF RunsInv, RolesExplained
        <4> QED BY <4>1 DEF RunsInv, RunsTypeOK, Task, Config
      <3>2. CASE task[r].end = "result"
        <4>1. PICK x \in results : x.role = r /\ x.success = task[r].ok
          BY <3>2 DEF RunsInv, RolesExplained
        <4>2. ~ x.success
          BY DEF RunsInv, RolesExplained
        <4> QED BY <3>2, <4>1, <4>2
      <3> QED BY <3>1, <3>2
    <2> QED BY <2>1, <2>2 DEF RunsInv, RunsSound
  <1> QED BY <1>1, RunsAlways, PTL

(* When a batch has returned, the runs whose end the ledger took have the  *)
(* status that the results report.                                         *)
THEOREM ResultsAreRecorded == RunsSpec => []ResultsMatchLedger
  <1>1. RunsInv => ResultsMatchLedger
    BY DEF RunsInv, RunsOwned, RoleRuns, ResultsMatchLedger, RunsTypeOK, Config
  <1> QED BY <1>1, RunsAlways, PTL

(* An acknowledged event of the graph run is never dropped by the unique   *)
(* index, and the numbers keep the order in which events arrived.          *)
THEOREM GraphEventsKept == RunsSpec => []AckedEventsKept
  <1>1. RunsInv => AckedEventsKept
    BY DEF RunsInv, HandlerOwned, HandlerRuns, Numbered, AckedEventsKept
  <1> QED BY <1>1, RunsAlways, PTL

(* No interleaving of checks and unchecked writes changes a run that has   *)
(* ended, or its events: every task writes to a run of its own.            *)
THEOREM EndedRunsStay == RunsSpec => EndedRunsImmutable
  <1>1. ASSUME RunsInv, [Next]_vars, NEW id \in RunId, runs[id].status \in Terminal
        PROVE  runs'[id] = runs[id] /\ events'[id] = events[id]
    <2>1. CASE UNCHANGED vars
      BY <2>1 DEF vars, ledger
    <2>2. ASSUME NEW r \in config.roles, RoleStep(r) PROVE runs'[id] = runs[id] /\ events'[id] = events[id]
      <3>1. r \in Role /\ r \in RunId /\ RoleRuns(r, task[r], runs[r]) /\ RunsTypeOK
        BY <1>1, RoleAssumption DEF RunsInv, RunsTypeOK, Config, RunsOwned
      <3>2. CASE CreateRun(r)
        <4>1. id # r /\ UNCHANGED events
          BY <1>1, <3>1, <3>2 DEF CreateRun, RoleRuns, Terminal
        <4>2. InsertRun(r) \/ UNCHANGED runs
          BY <3>2 DEF CreateRun
        <4> QED BY <3>1, <4>1, <4>2, InsertRunWrites
      <3>3. CASE AppendWrite(r)
        <4>1. id # r /\ task[r].run = r /\ UNCHANGED runs
          BY <1>1, <3>1, <3>3 DEF AppendWrite, RoleRuns
        <4>2. InsertEvent(r, task[r].seq, r) \/ UNCHANGED events
          BY <3>3, <4>1 DEF AppendWrite
        <4> QED BY <3>1, <4>1, <4>2 DEF InsertEvent, RunsTypeOK
      <3>4. CASE FinishWrite(r)
        <4>1. id # r /\ task[r].run = r /\ UNCHANGED events
          BY <1>1, <3>1, <3>4 DEF FinishWrite, RoleRuns
        <4>2. UpdateRun(r, "COMPLETED", 1) \/ UpdateRun(r, "FAILED", 0) \/ UNCHANGED runs
          BY <3>4, <4>1 DEF FinishWrite
        <4> QED BY <3>1, <4>1, <4>2 DEF UpdateRun, RunsTypeOK
      <3> QED BY <2>2, <3>2, <3>3, <3>4
              DEF RoleStep, ledger, Acquire, CheckFlag, AppendFetch, Return, Panic, FinishFetch, Signal, Push
    <2>3. CASE Join
      BY <2>3 DEF Join, ledger
    <2>4. CASE HandlerNext
      <3>1. GraphRun \in RunId /\ HandlerRuns(lh, runs[GraphRun]) /\ RunsTypeOK
        BY <1>1, HandlerAssumption DEF RunsInv, HandlerOwned
      <3>2. CASE OnStart
        <4>1. id # GraphRun /\ UNCHANGED events
          BY <1>1, <3>1, <3>2 DEF OnStart, HandlerRuns
        <4>2. InsertRun(GraphRun) \/ UNCHANGED runs
          BY <3>2 DEF OnStart
        <4> QED BY <3>1, <4>1, <4>2, InsertRunWrites
      <3>3. CASE HandleInsert
        <4>1. id # GraphRun /\ lh.run = GraphRun /\ UNCHANGED runs
          BY <1>1, <3>1, <3>3 DEF HandleInsert, HandlerRuns
        <4>2. InsertEvent(GraphRun, lh.using, lh.event) \/ UNCHANGED events
          BY <3>3, <4>1 DEF HandleInsert
        <4> QED BY <3>1, <4>1, <4>2 DEF InsertEvent, RunsTypeOK
      <3>4. CASE StopWrite
        <4>1. id # GraphRun /\ lh.run = GraphRun /\ UNCHANGED events
          BY <1>1, <3>1, <3>4 DEF StopWrite, HandlerRuns
        <4>2. UpdateRun(GraphRun, IF lh.sawError THEN "FAILED" ELSE "COMPLETED", lh.seq - 1) \/ UNCHANGED runs
          BY <3>4, <4>1 DEF StopWrite
        <4> QED BY <3>1, <4>1, <4>2 DEF UpdateRun, RunsTypeOK
      <3> QED BY <2>4, <3>2, <3>3, <3>4 DEF HandlerNext, ledger, Handle, HandleFetch, OnStop, StopFetch
    <2> QED BY <1>1, <2>1, <2>2, <2>3, <2>4 DEF Next, RoleNext
  <1>2. RunsInv /\ [Next]_vars =>
          [\A id \in RunId : runs[id].status \in Terminal => runs'[id] = runs[id] /\ events'[id] = events[id]]_ledger
    BY <1>1
  <1> QED BY <1>2, RunsAlways, PTL DEF RunsSpec, EndedRunsImmutable

=============================================================================

----------------------------- MODULE Delegation -----------------------------
(***************************************************************************)
(* The delegation runtime (crates/core/src/delegation.rs) over the table   *)
(* agent_runs (crates/core/src/store.rs): admission of primary, main and   *)
(* subagent runs, retries, guarded status transitions, cancellation of     *)
(* subtrees, the sweep of stop_session / end_session, the live map with    *)
(* its cancellation tokens, and await_terminal.                            *)
(*                                                                         *)
(* A Task is a tokio task inside one call of the runtime.  Every await on  *)
(* the store or on a mutex is a step boundary; `admission` is the mutex of *)
(* that name, the transitions do not take it.  A Waiter is a task inside   *)
(* await_terminal.  Run holds the run ids (uuids) that may be drawn.       *)
(***************************************************************************)
EXTENDS Naturals, FiniteSets, Sequences

CONSTANTS
  Run, Agent, Session, Task, Waiter,
  None,        \* the absent option
  MaxDepth,    \* MAX_MAIN_DELEGATION_DEPTH
  MaxActive,   \* MAX_ACTIVE_CHILD_RUNS
  EventCap     \* capacity of the terminal_events broadcast channel

ASSUME BoundsAssumption ==
  /\ MaxDepth \in Nat
  /\ MaxActive \in Nat
  /\ EventCap \in Nat \ {0}

ASSUME SetsAssumption ==
  /\ None \notin Run
  /\ None \notin Agent
  /\ None \notin Session
  /\ None \notin Task
  /\ Session # {}

VARIABLES
  status,     \* agent_runs.status; "absent" before the row is inserted
  row,        \* the other columns of agent_runs, never updated
  admission,  \* holder of the admission mutex, or None
  live,       \* keys of the live map
  token,      \* the cancellation token register() made for a run
  terminal,   \* keys of the terminal map
  pc, cur, arg, todo, roots, target,  \* locals of each task
  seen,       \* history: runs active in the session when a sweep began
  wpc, wrun, inbox, lagged            \* locals of each waiter

store  == <<status, row>>
tasks  == <<pc, cur, arg, todo, roots, target, seen>>
waits  == <<wpc, wrun, inbox, lagged>>
vars   == <<store, admission, live, token, terminal, tasks, waits>>

-----------------------------------------------------------------------------
Terminal  == {"completed", "failed", "cancelled", "interrupted"}
ActiveSt  == {"queued", "running"}
Retryable == {"failed", "cancelled", "interrupted"}
Kind      == {"primary", "main", "subagent"}

\* `anc` is the ancestry tree() collects by following parent_run_id: the run
\* itself and everything above it.  parent_run_id is never updated.
Row == [session : Session, parent : Run \cup {None}, anc : SUBSET Run,
        agent : Agent \cup {None}, kind : Kind, retryOf : Run \cup {None}]

Present == {r \in Run : status[r] # "absent"}
Active  == {r \in Run : status[r] \in ActiveSt}
IsRoot(r) == row[r].parent = None

\* list_descendant_agent_runs
Descendants(r) == {d \in Present : r \in row[d].anc /\ d # r}

\* An id no row and no admitted call uses yet.
Fresh(r) ==
  /\ status[r] = "absent"
  /\ \A t \in Task : pc[t] = "insert" => cur[t] # r

\* ensure_capacity, for the root tree() found above run p
HasCapacity(p) ==
  \A root \in row[p].anc :
    IsRoot(root) => Cardinality(Descendants(root) \cap Active) < MaxActive

MainDepth(p) == Cardinality({a \in row[p].anc : row[a].kind = "main"})

\* A run whose id some caller of the transitions can hold: its handle was
\* returned, or insert_owned_session_with_primary_run committed it.
Known(r) ==
  \/ token[r] # "none"
  \/ \E t \in Task : pc[t] = "activate" /\ cur[t] = r

\* Faulty variant: the checks are made without waiting for the mutex.
Admit_NoLock(t, r, w) ==
  /\ pc[t] = "idle"
  /\ Fresh(r)
  /\ admission' = t
  /\ arg' = [arg EXCEPT ![t] = w]
  /\ cur' = [cur EXCEPT ![t] = r]
  /\ pc' = [pc EXCEPT ![t] = "insert"]
  /\ UNCHANGED <<store, live, token, terminal, todo, roots, target, seen, waits>>

\* A call takes the admission mutex, passes its checks and holds row w for r.
Admit(t, r, w) ==
  /\ pc[t] = "idle"
  /\ admission = None
  /\ Fresh(r)
  /\ admission' = t
  /\ arg' = [arg EXCEPT ![t] = w]
  /\ cur' = [cur EXCEPT ![t] = r]
  /\ pc' = [pc EXCEPT ![t] = "insert"]
  /\ UNCHANGED <<store, live, token, terminal, todo, roots, target, seen, waits>>

-----------------------------------------------------------------------------
(* Admission of new runs                                                   *)

\* insert_owned_session_with_primary_run: session and root in one SQLite
\* transaction, outside the admission mutex
InsertOwned(t, r, s, a) ==
  /\ pc[t] = "idle"
  /\ Fresh(r)
  /\ \A q \in Present : row[q].session # s
  /\ status' = [status EXCEPT ![r] = "queued"]
  /\ row' = [row EXCEPT ![r] = [session |-> s, parent |-> None, anc |-> {r},
                                agent |-> a, kind |-> "primary",
                                retryOf |-> None]]
  /\ cur' = [cur EXCEPT ![t] = r]
  /\ pc' = [pc EXCEPT ![t] = "activate"]
  /\ UNCHANGED <<admission, live, token, terminal, arg, todo, roots, target,
                 seen, waits>>

\* activate_persisted_primary: takes the mutex only to register
ActivatePersistedPrimary(t) ==
  /\ pc[t] = "activate"
  /\ admission = None
  /\ live' = live \cup {cur[t]}
  /\ token' = [token EXCEPT ![cur[t]] = "armed"]
  /\ cur' = [cur EXCEPT ![t] = None]
  /\ pc' = [pc EXCEPT ![t] = "idle"]
  /\ UNCHANGED <<store, admission, terminal, arg, todo, roots, target, seen,
                 waits>>

\* begin_primary, on a session that exists
BeginPrimary(t, r, s, a) ==
  /\ \E q \in Present : row[q].session = s
  /\ Admit(t, r, [session |-> s, parent |-> None, anc |-> {r}, agent |-> a,
                  kind |-> "primary", retryOf |-> None])

\* Faulty variant: only the parent's agent is compared, not the ancestry.
QueueMain_ParentOnly(t, r, p, a) ==
  /\ p \in Present
  /\ row[p].agent # a
  /\ MainDepth(p) < MaxDepth
  /\ HasCapacity(p)
  /\ Admit(t, r, [session |-> row[p].session, parent |-> p,
                  anc |-> row[p].anc \cup {r}, agent |-> a,
                  kind |-> "main", retryOf |-> None])

\* Faulty variant: off by one in the depth check.
QueueMain_TooDeep(t, r, p, a) ==
  /\ p \in Present
  /\ \A x \in row[p].anc : row[x].agent # a
  /\ MainDepth(p) <= MaxDepth
  /\ HasCapacity(p)
  /\ Admit(t, r, [session |-> row[p].session, parent |-> p,
                  anc |-> row[p].anc \cup {r}, agent |-> a,
                  kind |-> "main", retryOf |-> None])

QueueMain(t, r, p, a) ==
  /\ p \in Present
  /\ \A x \in row[p].anc : row[x].agent # a
  /\ MainDepth(p) < MaxDepth
  /\ HasCapacity(p)
  /\ Admit(t, r, [session |-> row[p].session, parent |-> p,
                  anc |-> row[p].anc \cup {r}, agent |-> a,
                  kind |-> "main", retryOf |-> None])

QueueSubagent(t, r, p) ==
  /\ p \in Present
  /\ HasCapacity(p)
  /\ Admit(t, r, [session |-> row[p].session, parent |-> p,
                  anc |-> row[p].anc \cup {r}, agent |-> None,
                  kind |-> "subagent", retryOf |-> None])

\* Faulty variant: retry branches are not refused.
RetryChild_Branch(t, r, prev) ==
  /\ prev \in Present
  /\ ~IsRoot(prev)
  /\ status[prev] \in Retryable
  /\ HasCapacity(prev)
  /\ Admit(t, r, [row[prev] EXCEPT
                    !.anc = row[row[prev].parent].anc \cup {r},
                    !.retryOf = prev])

\* retry_child_handle: the new run takes the predecessor's place in the tree
RetryChild(t, r, prev) ==
  /\ prev \in Present
  /\ ~IsRoot(prev)
  /\ status[prev] \in Retryable
  /\ \A q \in Present : row[q].retryOf # prev
  /\ HasCapacity(prev)
  /\ Admit(t, r, [row[prev] EXCEPT
                    !.anc = row[row[prev].parent].anc \cup {r},
                    !.retryOf = prev])

\* Faulty variant: the mutex is dropped before register().
Insert_DropsLock(t) ==
  /\ pc[t] = "insert"
  /\ status' = [status EXCEPT ![cur[t]] = "queued"]
  /\ row' = [row EXCEPT ![cur[t]] = arg[t]]
  /\ arg' = [arg EXCEPT ![t] = None]
  /\ pc' = [pc EXCEPT ![t] = "register"]
  /\ admission' = None
  /\ UNCHANGED <<live, token, terminal, cur, todo, roots, target, seen, waits>>

\* insert_primary_agent_run / insert_agent_run
Insert(t) ==
  /\ pc[t] = "insert"
  /\ status' = [status EXCEPT ![cur[t]] = "queued"]
  /\ row' = [row EXCEPT ![cur[t]] = arg[t]]
  /\ arg' = [arg EXCEPT ![t] = None]
  /\ pc' = [pc EXCEPT ![t] = "register"]
  /\ UNCHANGED <<admission, live, token, terminal, cur, todo, roots, target,
                 seen, waits>>

\* Faulty variant: register() locks the mutex its caller already holds.
Register_Relocks(t) ==
  /\ pc[t] = "register"
  /\ admission = None
  /\ live' = live \cup {cur[t]}
  /\ token' = [token EXCEPT ![cur[t]] = "armed"]
  /\ cur' = [cur EXCEPT ![t] = None]
  /\ pc' = [pc EXCEPT ![t] = "idle"]
  /\ UNCHANGED <<store, admission, terminal, arg, todo, roots, target, seen,
                 waits>>

\* register(), after which the call returns and drops the mutex
Register(t) ==
  /\ pc[t] = "register"
  /\ live' = live \cup {cur[t]}
  /\ token' = [token EXCEPT ![cur[t]] = "armed"]
  /\ admission' = None
  /\ cur' = [cur EXCEPT ![t] = None]
  /\ pc' = [pc EXCEPT ![t] = "idle"]
  /\ UNCHANGED <<store, terminal, arg, todo, roots, target, seen, waits>>

-----------------------------------------------------------------------------
(* Guarded transitions                                                     *)

\* Faulty variant: the UPDATE has no status condition.
Cas_Unguarded(r, from, to) ==
  /\ status[r] # "absent"
  /\ status' = [status EXCEPT ![r] = to]

\* transition_agent_run as a compare-and-set on the status column
Cas(r, from, to) ==
  /\ status[r] \in from
  /\ status[r] \notin Terminal
  /\ status' = [status EXCEPT ![r] = to]

\* Faulty variant: a status the enum does not have.
MarkRunning_BadStatus(t, r) ==
  /\ pc[t] = "idle"
  /\ Known(r)
  /\ Cas(r, {"queued"}, "started")
  /\ UNCHANGED <<row, admission, live, token, terminal, tasks, waits>>

MarkRunning(t, r) ==
  /\ pc[t] = "idle"
  /\ Known(r)
  /\ Cas(r, {"queued"}, "running")
  /\ UNCHANGED <<row, admission, live, token, terminal, tasks, waits>>

\* complete, fail and interrupt
Finish(t, r, to) ==
  /\ pc[t] = "idle"
  /\ Known(r)
  /\ Cas(r, ActiveSt, to)
  /\ cur' = [cur EXCEPT ![t] = r]
  /\ pc' = [pc EXCEPT ![t] = "unlive"]
  /\ UNCHANGED <<row, admission, live, token, terminal, arg, todo, roots,
                 target, seen, waits>>

\* transition() drops the live entry without cancelling its token
Unlive(t) ==
  /\ pc[t] = "unlive"
  /\ live' = live \ {cur[t]}
  /\ pc' = [pc EXCEPT ![t] = "record"]
  /\ UNCHANGED <<store, admission, token, terminal, cur, arg, todo, roots,
                 target, seen, waits>>

\* record_terminal: first the map ...
Record(t) ==
  /\ pc[t] = "record"
  /\ terminal' = terminal \cup {cur[t]}
  /\ pc' = [pc EXCEPT ![t] = "announce"]
  /\ UNCHANGED <<store, admission, live, token, cur, arg, todo, roots,
                 target, seen, waits>>

\* A waiter holds a receiver from its subscription until it returns.
Subscribed(w) == wpc[w] \in {"check", "store", "recv"}

\* ... then the broadcast, which overwrites the oldest event of a full
\* receiver.  The task goes on with the sweep or cancellation it is part of.
Announce(t) ==
  /\ pc[t] = "announce"
  /\ inbox' = [w \in Waiter |->
                 IF ~Subscribed(w) THEN inbox[w]
                 ELSE IF Len(inbox[w]) < EventCap THEN Append(inbox[w], cur[t])
                 ELSE Append(Tail(inbox[w]), cur[t])]
  /\ lagged' = [w \in Waiter |->
                  lagged[w] \/ (Subscribed(w) /\ Len(inbox[w]) = EventCap)]
  /\ pc' = [pc EXCEPT ![t] = IF admission = t THEN "cancel"
                             ELSE IF target[t] # None THEN "sweep"
                             ELSE "idle"]
  /\ cur' = [cur EXCEPT ![t] = None]
  /\ UNCHANGED <<store, admission, live, token, terminal, arg, todo, roots,
                 target, seen, wpc, wrun>>

-----------------------------------------------------------------------------
(* Cancellation and the sweep of a session                                 *)

\* cancel_child: the run and its descendants, listed under the mutex
CancelChild(t, r) ==
  /\ pc[t] = "idle"
  /\ admission = None
  /\ r \in Present
  /\ ~IsRoot(r)
  /\ admission' = t
  /\ todo' = [todo EXCEPT ![t] = {r} \cup Descendants(r)]
  /\ target' = [target EXCEPT ![t] = r]
  /\ pc' = [pc EXCEPT ![t] = "cancel"]
  /\ UNCHANGED <<store, live, token, terminal, cur, arg, roots, seen, waits>>

\* One element of the cancellation loop: Cancelled if it is still active
CancelStep(t, r) ==
  /\ pc[t] = "cancel"
  /\ r \in todo[t]
  /\ todo' = [todo EXCEPT ![t] = @ \ {r}]
  /\ \/ /\ Cas(r, ActiveSt, "cancelled")
        /\ cur' = [cur EXCEPT ![t] = r]
        /\ pc' = [pc EXCEPT ![t] = "kill"]
     \/ /\ r \notin Active
        /\ UNCHANGED <<status, cur, pc>>
  /\ UNCHANGED <<row, admission, live, token, terminal, arg, roots, target,
                 seen, waits>>

\* The live entry is removed and, when there was one, its token cancelled.
Kill(t) ==
  /\ pc[t] = "kill"
  /\ live' = live \ {cur[t]}
  /\ token' = [token EXCEPT ![cur[t]] =
                 IF cur[t] \in live THEN "fired" ELSE @]
  /\ pc' = [pc EXCEPT ![t] = "record"]
  /\ UNCHANGED <<store, admission, terminal, cur, arg, todo, roots, target,
                 seen, waits>>

\* The loop ends and the mutex is dropped; a sweep now interrupts the root.
CancelDone(t) ==
  /\ pc[t] = "cancel"
  /\ todo[t] = {}
  /\ admission' = None
  /\ IF IsRoot(target[t])
     THEN /\ pc' = [pc EXCEPT ![t] = "stopRoot"]
          /\ UNCHANGED target
     ELSE /\ pc' = [pc EXCEPT ![t] = "idle"]
          /\ target' = [target EXCEPT ![t] = None]
  /\ UNCHANGED <<store, live, token, terminal, cur, arg, todo, roots, seen,
                 waits>>

\* stop_session / end_session list the active roots of the session once
SweepStart(t, s) ==
  LET active == {r \in Active : row[r].session = s}
  IN  /\ pc[t] = "idle"
      /\ roots' = [roots EXCEPT ![t] = {r \in active : IsRoot(r)}]
      /\ seen' = [seen EXCEPT ![t] = active]
      /\ pc' = [pc EXCEPT ![t] = "sweep"]
      /\ UNCHANGED <<store, admission, live, token, terminal, cur, arg, todo,
                     target, waits>>

\* Faulty variant: only the direct children of the root are listed.
SweepRoot_Children(t, r) ==
  /\ pc[t] = "sweep"
  /\ r \in roots[t]
  /\ admission = None
  /\ admission' = t
  /\ roots' = [roots EXCEPT ![t] = @ \ {r}]
  /\ target' = [target EXCEPT ![t] = r]
  /\ todo' = [todo EXCEPT ![t] = {d \in Present : row[d].parent = r}]
  /\ pc' = [pc EXCEPT ![t] = "cancel"]
  /\ UNCHANGED <<store, live, token, terminal, cur, arg, seen, waits>>

\* cancel_descendants_of_root for the next root
SweepRoot(t, r) ==
  /\ pc[t] = "sweep"
  /\ r \in roots[t]
  /\ admission = None
  /\ admission' = t
  /\ roots' = [roots EXCEPT ![t] = @ \ {r}]
  /\ target' = [target EXCEPT ![t] = r]
  /\ todo' = [todo EXCEPT ![t] = Descendants(r)]
  /\ pc' = [pc EXCEPT ![t] = "cancel"]
  /\ UNCHANGED <<store, live, token, terminal, cur, arg, seen, waits>>

\* interrupt(root), which loses against a root that finished meanwhile
StopRoot(t) ==
  /\ pc[t] = "stopRoot"
  /\ \/ /\ Cas(target[t], ActiveSt, "interrupted")
        /\ cur' = [cur EXCEPT ![t] = target[t]]
        /\ pc' = [pc EXCEPT ![t] = "unlive"]
     \/ /\ target[t] \notin Active
        /\ pc' = [pc EXCEPT ![t] = "sweep"]
        /\ UNCHANGED <<status, cur>>
  /\ UNCHANGED <<row, admission, live, token, terminal, arg, todo, roots,
                 target, seen, waits>>

SweepDone(t) ==
  /\ pc[t] = "sweep"
  /\ roots[t] = {}
  /\ pc' = [pc EXCEPT ![t] = "idle"]
  /\ target' = [target EXCEPT ![t] = None]
  /\ seen' = [seen EXCEPT ![t] = {}]
  /\ UNCHANGED <<store, admission, live, token, terminal, cur, arg, todo,
                 roots, waits>>

-----------------------------------------------------------------------------
(* await_terminal                                                          *)

Subscribe(w, r) ==
  /\ wpc[w] = "idle"
  /\ wpc' = [wpc EXCEPT ![w] = "check"]
  /\ wrun' = [wrun EXCEPT ![w] = r]
  /\ inbox' = [inbox EXCEPT ![w] = <<>>]
  /\ lagged' = [lagged EXCEPT ![w] = FALSE]
  /\ UNCHANGED <<store, admission, live, token, terminal, tasks>>

Move(w, to) ==
  /\ wpc' = [wpc EXCEPT ![w] = to]
  /\ UNCHANGED <<store, admission, live, token, terminal, tasks, wrun>>

\* await_terminal looks at the map and the table before it listens.
CheckTerminal(w) ==
  /\ wpc[w] = "check"
  /\ Move(w, IF wrun[w] \in terminal THEN "ok" ELSE "store")
  /\ UNCHANGED <<inbox, lagged>>

CheckStore(w) ==
  /\ wpc[w] = "store"
  /\ Move(w, IF status[wrun[w]] \in Terminal THEN "ok"
             ELSE IF status[wrun[w]] = "absent" THEN "unknown"
             ELSE "recv")
  /\ UNCHANGED <<inbox, lagged>>

\* Faulty variant: the loop goes on after a lag instead of returning.
Recv_SkipsLag(w) ==
  /\ wpc[w] = "recv"
  /\ inbox[w] # <<>>
  /\ Move(w, IF Head(inbox[w]) = wrun[w] THEN "ok" ELSE "recv")
  /\ inbox' = [inbox EXCEPT ![w] = Tail(@)]
  /\ lagged' = [lagged EXCEPT ![w] = FALSE]

\* recv() reports the overwritten events before it yields another one
Recv(w) ==
  /\ wpc[w] = "recv"
  /\ \/ /\ lagged[w]
        /\ Move(w, "lagged")
        /\ UNCHANGED <<inbox, lagged>>
     \/ /\ ~lagged[w]
        /\ inbox[w] # <<>>
        /\ Move(w, IF Head(inbox[w]) = wrun[w] THEN "ok" ELSE "recv")
        /\ inbox' = [inbox EXCEPT ![w] = Tail(@)]
        /\ UNCHANGED lagged

\* The caller takes the answer and may wait for another run.
Return(w) ==
  /\ wpc[w] \in {"ok", "unknown", "lagged"}
  /\ wpc' = [wpc EXCEPT ![w] = "idle"]
  /\ wrun' = [wrun EXCEPT ![w] = None]
  /\ inbox' = [inbox EXCEPT ![w] = <<>>]
  /\ lagged' = [lagged EXCEPT ![w] = FALSE]
  /\ UNCHANGED <<store, admission, live, token, terminal, tasks>>

-----------------------------------------------------------------------------
NoRow(s) == [session |-> s, parent |-> None, anc |-> {}, agent |-> None,
             kind |-> "primary", retryOf |-> None]

\* The process dies and the next one boots: every task, waiter and map is
\* lost, recover_after_restart interrupts what the table still calls active
\* before the control plane is handed to any caller.
Restart ==
  /\ status' = [r \in Run |-> IF r \in Active THEN "interrupted"
                              ELSE status[r]]
  /\ terminal' = Active
  /\ admission' = None
  /\ live' = {}
  /\ token' = [r \in Run |-> "none"]
  /\ pc' = [t \in Task |-> "idle"]
  /\ cur' = [t \in Task |-> None]
  /\ arg' = [t \in Task |-> None]
  /\ todo' = [t \in Task |-> {}]
  /\ roots' = [t \in Task |-> {}]
  /\ target' = [t \in Task |-> None]
  /\ seen' = [t \in Task |-> {}]
  /\ wpc' = [w \in Waiter |-> "idle"]
  /\ wrun' = [w \in Waiter |-> None]
  /\ inbox' = [w \in Waiter |-> <<>>]
  /\ lagged' = [w \in Waiter |-> FALSE]
  /\ UNCHANGED row

Init ==
  /\ status = [r \in Run |-> "absent"]
  /\ row = [r \in Run |-> NoRow(CHOOSE s \in Session : TRUE)]
  /\ terminal = {}
  /\ admission = None
  /\ live = {}
  /\ token = [r \in Run |-> "none"]
  /\ pc = [t \in Task |-> "idle"]
  /\ cur = [t \in Task |-> None]
  /\ arg = [t \in Task |-> None]
  /\ todo = [t \in Task |-> {}]
  /\ roots = [t \in Task |-> {}]
  /\ target = [t \in Task |-> None]
  /\ seen = [t \in Task |-> {}]
  /\ wpc = [w \in Waiter |-> "idle"]
  /\ wrun = [w \in Waiter |-> None]
  /\ inbox = [w \in Waiter |-> <<>>]
  /\ lagged = [w \in Waiter |-> FALSE]

TaskStep(t) ==
  \/ ActivatePersistedPrimary(t)
  \/ Insert(t)
  \/ Register(t)
  \/ Unlive(t)
  \/ Record(t)
  \/ Announce(t)
  \/ \E r \in Run : CancelStep(t, r)
  \/ Kill(t)
  \/ CancelDone(t)
  \/ \E r \in Run : SweepRoot(t, r)
  \/ StopRoot(t)
  \/ SweepDone(t)

TaskCallOn(t, r) ==
  \/ \E s \in Session, a \in Agent : InsertOwned(t, r, s, a)
  \/ \E s \in Session, a \in Agent : BeginPrimary(t, r, s, a)
  \/ \E p \in Run, a \in Agent : QueueMain(t, r, p, a)
  \/ \E p \in Run : QueueSubagent(t, r, p)
  \/ \E p \in Run : RetryChild(t, r, p)
  \/ MarkRunning(t, r)
  \/ \E to \in {"completed", "failed", "interrupted"} : Finish(t, r, to)
  \/ CancelChild(t, r)

TaskCall(t) == \E r \in Run : TaskCallOn(t, r)

WaiterStep(w) ==
  \/ CheckTerminal(w)
  \/ CheckStore(w)
  \/ Recv(w)

Next ==
  \/ \E t \in Task : TaskStep(t) \/ TaskCall(t)
  \/ \E t \in Task, s \in Session : SweepStart(t, s)
  \/ \E w \in Waiter : WaiterStep(w) \/ Return(w)
  \/ \E w \in Waiter, r \in Run : Subscribe(w, r)
  \/ Restart

Spec == Init /\ [][Next]_vars

\* The tokio runtime polls every ready task: a call that was started goes on.
\* Nobody has to start one.
FairSpec ==
  /\ Spec
  /\ \A t \in Task : SF_vars(TaskStep(t))
  /\ \A w \in Waiter : WF_vars(WaiterStep(w))
-----------------------------------------------------------------------------
(* Properties                                                              *)

TaskPc == {"idle", "insert", "register", "activate", "unlive", "record",
           "announce", "cancel", "kill", "stopRoot", "sweep"}
WaiterPc == {"idle", "check", "store", "recv", "ok", "unknown", "lagged"}

\* Every variable has its type.
TypeOK ==
  /\ status \in [Run -> {"absent"} \cup ActiveSt \cup Terminal]
  /\ row \in [Run -> Row]
  /\ admission \in Task \cup {None}
  /\ live \subseteq Run
  /\ token \in [Run -> {"none", "armed", "fired"}]
  /\ terminal \subseteq Run
  /\ pc \in [Task -> TaskPc]
  /\ cur \in [Task -> Run \cup {None}]
  /\ arg \in [Task -> Row \cup {None}]
  /\ todo \in [Task -> SUBSET Run]
  /\ roots \in [Task -> SUBSET Run]
  /\ target \in [Task -> Run \cup {None}]
  /\ seen \in [Task -> SUBSET Run]
  /\ wpc \in [Waiter -> WaiterPc]
  /\ wrun \in [Waiter -> Run \cup {None}]
  /\ inbox \in [Waiter -> Seq(Run)]
  /\ lagged \in [Waiter -> BOOLEAN]

\* MAX_ACTIVE_CHILD_RUNS: no root ever has more queued or running runs below
\* it, however many callers queue and retry children at the same time.  The
\* count ensure_capacity reads is stale when the row is inserted; the mutex
\* must make it stale in one direction only.
CapacityBound ==
  \A root \in Present : IsRoot(root) =>
    Cardinality(Descendants(root) \cap Active) <= MaxActive

\* No agent profile is executed twice on one path of the delegation tree,
\* retries included: queue_main's cycle check, which retry_child_handle does
\* not repeat.
NoAncestryCycle ==
  \A r \in Present : \A x, y \in row[r].anc :
    x # y /\ row[x].agent # None => row[x].agent # row[y].agent

\* MAX_MAIN_DELEGATION_DEPTH bounds the main delegates on every path.
DepthBound == \A r \in Present : MainDepth(r) <= MaxDepth

\* "retry branches are not allowed": a run has at most one retry, which sits
\* under the same parent and replaces a run that ended without success.
RetryIsChain ==
  \A r \in Present : row[r].retryOf # None =>
    /\ status[row[r].retryOf] \in Retryable
    /\ row[r].parent = row[row[r].retryOf].parent
    /\ \A q \in Present : row[q].retryOf = row[r].retryOf => q = r

\* When a cancellation loop has gone through its list and still holds the
\* mutex, no run below its target is active: nothing was admitted behind it.
CancelIsComplete ==
  \A t \in Task : pc[t] = "cancel" /\ todo[t] = {} =>
    Descendants(target[t]) \cap Active = {}

\* A run is recorded as Cancelled only together with its token: once the
\* canceller is past the live map, the executor holding that token sees it.
CancelledTokenFires ==
  \A r \in Run : status[r] = "cancelled" =>
    \/ token[r] # "armed"
    \/ \E t \in Task : pc[t] = "kill" /\ cur[t] = r

\* The live map holds a finished child only while its finisher is between the
\* store update and the removal.  (A root may stay: a sweep can interrupt it
\* between insert_owned_session_with_primary_run and its activation.)
LiveChildIsActive ==
  \A r \in live : ~IsRoot(r) /\ status[r] \in Terminal =>
    \E t \in Task : pc[t] \in {"unlive", "kill"} /\ cur[t] = r

\* What makes a cancellation safe: it reaches everything below its target, it
\* stops the executors of what it ended, and it leaves no finished child in the
\* live map.
CancellationInv ==
  CancelIsComplete /\ CancelledTokenFires /\ LiveChildIsActive

\* A sweep (stop_session, end_session) that is done has terminated every run
\* it found active below a root it found active.  (A run retried under a root
\* that has ended is below none of them, and survives.)
SweepCancelsListedTrees ==
  \A t \in Task : pc[t] = "sweep" /\ roots[t] = {} =>
    \A r \in seen[t] :
      (\E root \in row[r].anc \cap seen[t] : IsRoot(root)) => r \notin Active

\* A terminal status is final: late completions, failures, interrupts and
\* cancellations, and the recovery after a restart, all lose against it.
TerminalIsFinal ==
  [][\A r \in Run : status[r] \in Terminal => status'[r] = status[r]]_vars

\* await_terminal returns once its run is terminal: the wake-up is not lost
\* between its check of the store and its recv(), nor to a full channel.
WaiterReturns ==
  \A w \in Waiter :
    (wpc[w] = "recv" /\ status[wrun[w]] \in Terminal) ~> (wpc[w] # "recv")

\* No call keeps the admission mutex, so delegation never stalls.
AdmissionIsReleased ==
  \A t \in Task : (admission = t) ~> (admission # t)
=============================================================================

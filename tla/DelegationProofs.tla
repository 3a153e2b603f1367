-------------------------- MODULE DelegationProofs --------------------------
(* Proofs about Delegation, for every number of runs, agents, sessions,    *)
(* tasks and waiters and every value of the two limits.                    *)
EXTENDS Delegation, FiniteSetTheorems, TLAPS

\* What a task's program counter says about its locals and the mutex.
LocalsOK ==
  \A t \in Task :
    /\ pc[t] \in {"insert", "register", "activate", "unlive", "record",
                  "announce", "kill"} => cur[t] \in Run
    /\ pc[t] = "insert" => arg[t] \in Row
    /\ pc[t] \in {"insert", "register", "cancel", "kill"} => admission = t
    /\ pc[t] \in {"cancel", "kill", "stopRoot"} => target[t] \in Run
    /\ admission = t =>
         /\ pc[t] \in {"insert", "register", "cancel", "kill", "record",
                       "announce"}
         /\ pc[t] \in {"record", "announce"} => target[t] \in Run

TypeInv == TypeOK /\ LocalsOK

\* The initial state has the right types.
LEMMA TypeInit == Init => TypeInv
  <1> SUFFICES ASSUME Init PROVE TypeInv
    OBVIOUS
  <1>1. (CHOOSE s \in Session : TRUE) \in Session
    BY SetsAssumption
  <1>2. row \in [Run -> Row]
    BY <1>1 DEF Init, NoRow, Row, Kind
  <1>3. TypeOK
    BY <1>2 DEF Init, TypeOK, TaskPc, WaiterPc
  <1>4. LocalsOK
    BY SetsAssumption DEF Init, LocalsOK
  <1> QED
    BY <1>3, <1>4 DEF TypeInv

\* An admitted call preserves the types when the row it holds is a row.
LEMMA AdmitType ==
  ASSUME TypeInv, NEW t \in Task, NEW r \in Run, NEW w \in Row, Admit(t, r, w)
  PROVE  TypeInv'
  <1>1. TypeOK'
    BY DEF TypeInv, TypeOK, Admit, store, waits, TaskPc
  <1>2. LocalsOK'
    BY SetsAssumption DEF TypeInv, TypeOK, LocalsOK, Admit, store, waits, TaskPc
  <1> QED
    BY <1>1, <1>2 DEF TypeInv

\* A broadcast preserves the types of the receivers' queues.
LEMMA AnnounceType ==
  ASSUME TypeInv, NEW t \in Task, Announce(t)
  PROVE  TypeInv'
  <1> USE DEF TypeInv, TypeOK, LocalsOK
  <1>1. cur[t] \in Run
    BY DEF Announce
  <1>2. ASSUME NEW w \in Waiter
        PROVE  /\ Append(inbox[w], cur[t]) \in Seq(Run)
               /\ Len(inbox[w]) >= EventCap =>
                    Append(Tail(inbox[w]), cur[t]) \in Seq(Run)
    <2>1. inbox[w] \in Seq(Run)
      OBVIOUS
    <2>2. Len(inbox[w]) >= EventCap => inbox[w] # <<>>
      BY <2>1, BoundsAssumption
    <2> QED
      BY <1>1, <2>1, <2>2
  <1>3. inbox' \in [Waiter -> Seq(Run)]
    BY <1>2, BoundsAssumption DEF Announce
  <1> QED
    BY <1>1, <1>3, SetsAssumption
    DEF Announce, store, waits, tasks, TaskPc, WaiterPc

\* A retry's row, its predecessor's with two columns replaced, is a row.
LEMMA RetryRow ==
  ASSUME NEW w \in Row, NEW A \in SUBSET Run, NEW p \in Run
  PROVE  [w EXCEPT !.anc = A, !.retryOf = p] \in Row
  BY DEF Row

\* Every step preserves the types.
LEMMA TypeStep == TypeInv /\ [Next]_vars => TypeInv'
  <1> SUFFICES ASSUME TypeInv, [Next]_vars PROVE TypeInv'
    OBVIOUS
  <1> USE SetsAssumption DEF TypeInv, TypeOK, LocalsOK, TaskPc, WaiterPc,
          ActiveSt, Terminal, store, tasks, waits
  <1>1. ASSUME NEW t \in Task, TaskStep(t) PROVE TypeInv'
    <2>1. CASE ActivatePersistedPrimary(t)
      BY <2>1 DEF ActivatePersistedPrimary
    <2>2. CASE Insert(t)
      BY <2>2 DEF Insert
    <2>3. CASE Register(t)
      BY <2>3 DEF Register
    <2>4. CASE Unlive(t)
      BY <2>4 DEF Unlive
    <2>5. CASE Record(t)
      BY <2>5 DEF Record
    <2>6. CASE Announce(t)
      BY <2>6, AnnounceType DEF TypeInv
    <2>7. CASE \E r \in Run : CancelStep(t, r)
      <3>1. PICK r \in Run : CancelStep(t, r)
        BY <2>7
      <3>2. CASE Cas(r, ActiveSt, "cancelled")
        <4>1. /\ status' = [status EXCEPT ![r] = "cancelled"]
              /\ cur' = [cur EXCEPT ![t] = r]
              /\ pc' = [pc EXCEPT ![t] = "kill"]
              /\ todo' = [todo EXCEPT ![t] = @ \ {r}]
              /\ pc[t] = "cancel"
              /\ UNCHANGED <<row, admission, live, token, terminal, arg, roots,
                             target, seen, waits>>
          BY <3>1, <3>2 DEF CancelStep, Cas, Active
        <4>2. TypeOK'
          BY <4>1
        <4>3. LocalsOK'
          BY <4>1
        <4> QED
          BY <4>2, <4>3
      <3>3. CASE ~Cas(r, ActiveSt, "cancelled")
        <4>1. UNCHANGED <<status, cur, pc>>
          BY <3>1, <3>3 DEF CancelStep
        <4> QED
          BY <3>1, <4>1 DEF CancelStep
      <3> QED
        BY <3>2, <3>3
    <2>8. CASE Kill(t)
      BY <2>8 DEF Kill
    <2>9. CASE CancelDone(t)
      <3>1. CASE IsRoot(target[t])
        BY <2>9, <3>1 DEF CancelDone
      <3>2. CASE ~IsRoot(target[t])
        <4>1. /\ pc[t] = "cancel"
              /\ admission' = None
              /\ pc' = [pc EXCEPT ![t] = "idle"]
              /\ target' = [target EXCEPT ![t] = None]
              /\ UNCHANGED <<store, live, token, terminal, cur, arg, todo,
                             roots, seen, waits>>
          BY <2>9, <3>2 DEF CancelDone
        <4>2. TypeOK'
          BY <4>1
        <4>3. \A u \in Task : u # t => pc'[u] = pc[u] /\ target'[u] = target[u]
          BY <4>1
        <4>4. LocalsOK'
          BY <4>1, <4>3
        <4> QED
          BY <4>2, <4>4
      <3> QED
        BY <3>1, <3>2
    <2>10. CASE \E r \in Run : SweepRoot(t, r)
      BY <2>10 DEF SweepRoot, Descendants, Present
    <2>11. CASE StopRoot(t)
      <3>1. CASE Cas(target[t], ActiveSt, "interrupted")
        <4>1. /\ pc[t] = "stopRoot"
              /\ status' = [status EXCEPT ![target[t]] = "interrupted"]
              /\ cur' = [cur EXCEPT ![t] = target[t]]
              /\ pc' = [pc EXCEPT ![t] = "unlive"]
              /\ UNCHANGED <<row, admission, live, token, terminal, arg, todo,
                             roots, target, seen, waits>>
          BY <2>11, <3>1 DEF StopRoot, Cas, Active
        <4>2. TypeOK'
          BY <4>1
        <4>3. LocalsOK'
          BY <4>1
        <4> QED
          BY <4>2, <4>3
      <3>2. CASE ~Cas(target[t], ActiveSt, "interrupted")
        <4>1. /\ pc' = [pc EXCEPT ![t] = "sweep"]
              /\ UNCHANGED <<status, cur>>
          BY <2>11, <3>2 DEF StopRoot
        <4> QED
          BY <2>11, <4>1 DEF StopRoot
      <3> QED
        BY <3>1, <3>2
    <2>12. CASE SweepDone(t)
      BY <2>12 DEF SweepDone
    <2> QED
      BY <1>1, <2>1, <2>2, <2>3, <2>4, <2>5, <2>6, <2>7, <2>8, <2>9, <2>10,
         <2>11, <2>12 DEF TaskStep
  <1>2. ASSUME NEW t \in Task, NEW r \in Run, TaskCallOn(t, r)
        PROVE  TypeInv'
    <2>1. CASE \E s \in Session, a \in Agent : InsertOwned(t, r, s, a)
      BY <2>1 DEF InsertOwned, Row, Kind
    <2>2. CASE \E s \in Session, a \in Agent : BeginPrimary(t, r, s, a)
      BY <2>2, AdmitType DEF BeginPrimary, Row, Kind
    <2>3. CASE \E p \in Run, a \in Agent : QueueMain(t, r, p, a)
      BY <2>3, AdmitType DEF QueueMain, Row, Kind
    <2>4. CASE \E p \in Run : QueueSubagent(t, r, p)
      <3>1. PICK p \in Run : QueueSubagent(t, r, p)
        BY <2>4
      <3>2. row[p] \in Row
        OBVIOUS
      <3>3. [session |-> row[p].session, parent |-> p,
             anc |-> row[p].anc \cup {r}, agent |-> None,
             kind |-> "subagent", retryOf |-> None] \in Row
        BY <3>2 DEF Row, Kind
      <3> QED
        BY <3>1, <3>3, AdmitType DEF QueueSubagent
    <2>5. CASE \E p \in Run : RetryChild(t, r, p)
      <3>1. PICK p \in Run : RetryChild(t, r, p)
        BY <2>5
      <3>2. row[p] \in Row /\ row[row[p].parent] \in Row
        BY <3>1 DEF RetryChild, IsRoot, Row
      <3>3. row[row[p].parent].anc \cup {r} \in SUBSET Run
        BY <3>2 DEF Row
      <3>4. [row[p] EXCEPT !.anc = row[row[p].parent].anc \cup {r},
                           !.retryOf = p] \in Row
        BY <3>2, <3>3, RetryRow
      <3> QED
        BY <3>1, <3>4, AdmitType DEF RetryChild
    <2>6. CASE MarkRunning(t, r)
      BY <2>6 DEF MarkRunning, Cas
    <2>7. CASE \E to \in {"completed", "failed", "interrupted"} :
                 Finish(t, r, to)
      BY <2>7 DEF Finish, Cas
    <2>8. CASE CancelChild(t, r)
      BY <2>8 DEF CancelChild, Descendants, Present
    <2> QED
      BY <1>2, <2>1, <2>2, <2>3, <2>4, <2>5, <2>6, <2>7, <2>8 DEF TaskCallOn
  <1>3. ASSUME NEW t \in Task, NEW s \in Session, SweepStart(t, s)
        PROVE  TypeInv'
    BY <1>3 DEF SweepStart, Active
  <1>4. ASSUME NEW w \in Waiter, WaiterStep(w) \/ Return(w)
        PROVE  TypeInv'
    <2>1. CASE CheckTerminal(w)
      BY <2>1 DEF CheckTerminal, Move
    <2>2. CASE CheckStore(w)
      BY <2>2 DEF CheckStore, Move
    <2>3. CASE Recv(w)
      <3>1. CASE lagged[w]
        <4>1. /\ wpc' = [wpc EXCEPT ![w] = "lagged"]
              /\ UNCHANGED <<store, admission, live, token, terminal, tasks,
                             wrun, inbox, lagged>>
          BY <2>3, <3>1 DEF Recv, Move
        <4> QED
          BY <4>1
      <3>2. CASE ~lagged[w]
        <4>1. inbox[w] \in Seq(Run) /\ inbox[w] # <<>>
          BY <2>3, <3>2 DEF Recv
        <4>2. Tail(inbox[w]) \in Seq(Run)
          BY <4>1
        <4> QED
          <5>1. /\ wpc' = [wpc EXCEPT ![w] = IF Head(inbox[w]) = wrun[w]
                                             THEN "ok" ELSE "recv"]
                /\ inbox' = [inbox EXCEPT ![w] = Tail(@)]
                /\ UNCHANGED <<store, admission, live, token, terminal, tasks,
                               wrun, lagged>>
            BY <2>3, <3>2 DEF Recv, Move
          <5> QED
            BY <4>2, <5>1
      <3> QED
        BY <3>1, <3>2
    <2>4. CASE Return(w)
      BY <2>4 DEF Return
    <2> QED
      BY <1>4, <2>1, <2>2, <2>3, <2>4 DEF WaiterStep
  <1>5. ASSUME NEW w \in Waiter, NEW r \in Run, Subscribe(w, r)
        PROVE  TypeInv'
    BY <1>5 DEF Subscribe
  <1>6. CASE Restart
    BY <1>6 DEF Restart, Active
  <1>7. CASE UNCHANGED vars
    BY <1>7 DEF vars
  <1> QED
    BY <1>1, <1>2, <1>3, <1>4, <1>5, <1>6, <1>7 DEF Next, TaskCall

\* The type invariant holds of every behaviour of the runtime.
THEOREM TypeCorrect == Spec => []TypeOK
  <1>1. TypeInv => TypeOK
    BY DEF TypeInv
  <1> QED
    BY <1>1, TypeInit, TypeStep, PTL DEF Spec

-----------------------------------------------------------------------------
(* What a step can do to the table                                         *)

\* No row is added and none becomes active.
Quiet ==
  /\ row' = row
  /\ Present' = Present
  /\ Active' \subseteq Active
  /\ \A r \in Run : status[r] \in Terminal => status'[r] = status[r]

\* Task t passes the checks of one of the calls that insert a run.
Admits(t) ==
  \E r \in Run :
    \/ \E s \in Session, a \in Agent : BeginPrimary(t, r, s, a)
    \/ \E p \in Run, a \in Agent : QueueMain(t, r, p, a)
    \/ \E p \in Run : QueueSubagent(t, r, p)
    \/ \E p \in Run : RetryChild(t, r, p)

\* The calls that wait for their insert are the ones that waited before.
SamePending ==
  \A t \in Task : pc'[t] = "insert" =>
    pc[t] = "insert" /\ cur'[t] = cur[t] /\ arg'[t] = arg[t]

\* A compare-and-set is quiet.
LEMMA CasQuiet ==
  ASSUME TypeInv, NEW r \in Run, NEW from, NEW to \in {"running"} \cup Terminal,
         from \subseteq ActiveSt, Cas(r, from, to), row' = row
  PROVE  Quiet
  BY DEF TypeInv, TypeOK, Cas, Quiet, Present, Active, ActiveSt, Terminal

\* A step that leaves the table alone is quiet.
LEMMA SameStoreQuiet == UNCHANGED store => Quiet
  BY DEF store, Quiet, Present, Active

\* Every step is quiet, except the two inserts.
LEMMA StepShape ==
  ASSUME TypeInv, [Next]_vars
  PROVE  \/ Quiet /\ SamePending
         \/ UNCHANGED store /\ \E t \in Task : Admits(t)
         \/ \E t \in Task, r \in Run, s \in Session, a \in Agent :
              InsertOwned(t, r, s, a)
         \/ \E t \in Task : Insert(t)
  <1> USE DEF TypeInv, TypeOK, LocalsOK, tasks, waits
  <1>1. ASSUME NEW t \in Task, TaskStep(t), ~Insert(t)
        PROVE  Quiet /\ SamePending
    <2>1. CASE \/ ActivatePersistedPrimary(t) \/ Register(t) \/ Unlive(t)
               \/ Record(t) \/ Announce(t) \/ Kill(t) \/ CancelDone(t)
               \/ SweepDone(t) \/ \E r \in Run : SweepRoot(t, r)
      <3>1. UNCHANGED store
        BY <2>1 DEF ActivatePersistedPrimary, Register, Unlive, Record,
                    Announce, Kill, CancelDone, SweepDone, SweepRoot
      <3>2. SamePending
        BY <2>1 DEF SamePending, ActivatePersistedPrimary, Register, Unlive,
                    Record, Announce, Kill, CancelDone, SweepDone, SweepRoot
      <3> QED
        BY <3>1, <3>2, SameStoreQuiet
    <2>2. CASE \E r \in Run : CancelStep(t, r)
      <3>1. PICK r \in Run : CancelStep(t, r)
        BY <2>2
      <3>2. SamePending
        BY <3>1 DEF CancelStep, SamePending
      <3>3. Quiet
        <4>1. row' = row
          BY <3>1 DEF CancelStep
        <4>2. Cas(r, ActiveSt, "cancelled") \/ UNCHANGED status
          BY <3>1 DEF CancelStep
        <4> QED
          BY <4>1, <4>2, CasQuiet, SameStoreQuiet DEF store, Terminal
      <3> QED
        BY <3>2, <3>3
    <2>3. CASE StopRoot(t)
      <3>1. SamePending
        BY <2>3 DEF StopRoot, SamePending
      <3>2. Quiet
        <4>1. row' = row /\ target[t] \in Run
          BY <2>3 DEF StopRoot
        <4>2. Cas(target[t], ActiveSt, "interrupted") \/ UNCHANGED status
          BY <2>3 DEF StopRoot
        <4> QED
          BY <4>1, <4>2, CasQuiet, SameStoreQuiet DEF store, Terminal
      <3> QED
        BY <3>1, <3>2
    <2> QED
      BY <1>1, <2>1, <2>2, <2>3 DEF TaskStep
  <1>2. ASSUME NEW t \in Task, NEW r \in Run, MarkRunning(t, r)
        PROVE  Quiet /\ SamePending
    <2>1. SamePending
      BY <1>2 DEF MarkRunning, SamePending
    <2>2. Quiet
      BY <1>2, CasQuiet DEF MarkRunning, ActiveSt
    <2> QED
      BY <2>1, <2>2
  <1>3. ASSUME NEW t \in Task, NEW r \in Run,
               NEW to \in {"completed", "failed", "interrupted"},
               Finish(t, r, to)
        PROVE  Quiet /\ SamePending
    <2>1. SamePending
      BY <1>3 DEF Finish, SamePending
    <2>2. Quiet
      BY <1>3, CasQuiet DEF Finish, Terminal
    <2> QED
      BY <2>1, <2>2
  <1>4. ASSUME NEW t \in Task, NEW r \in Run, CancelChild(t, r)
        PROVE  Quiet /\ SamePending
    BY <1>4, SameStoreQuiet DEF CancelChild, SamePending
  <1>5. ASSUME NEW t \in Task, Admits(t)
        PROVE  UNCHANGED store
    BY <1>5 DEF Admits, BeginPrimary, QueueMain, QueueSubagent, RetryChild,
                Admit
  <1>6. ASSUME NEW t \in Task, NEW s \in Session, SweepStart(t, s)
        PROVE  Quiet /\ SamePending
    BY <1>6, SameStoreQuiet DEF SweepStart, SamePending
  <1>7. ASSUME NEW w \in Waiter, WaiterStep(w) \/ Return(w)
        PROVE  Quiet /\ SamePending
    BY <1>7, SameStoreQuiet
    DEF WaiterStep, Return, CheckTerminal, CheckStore, Recv, Move, SamePending
  <1>8. ASSUME NEW w \in Waiter, NEW r \in Run, Subscribe(w, r)
        PROVE  Quiet /\ SamePending
    BY <1>8, SameStoreQuiet DEF Subscribe, SamePending
  <1>9. CASE Restart
    <2>1. SamePending
      BY <1>9 DEF Restart, SamePending
    <2>2. Quiet
      BY <1>9 DEF Restart, Quiet, Present, Active, ActiveSt, Terminal
    <2> QED
      BY <2>1, <2>2
  <1>10. CASE UNCHANGED vars
    BY <1>10, SameStoreQuiet DEF vars, SamePending
  <1> QED
    BY <1>1, <1>2, <1>3, <1>4, <1>5, <1>6, <1>7, <1>8, <1>9, <1>10
    DEF Next, TaskCall, TaskCallOn, Admits

-----------------------------------------------------------------------------
(* The delegation tree                                                     *)

ActiveBelow(root) == Descendants(root) \cap Active

\* The ancestry of every row is the walk along parent_run_id.
TreeOK ==
  \A r \in Present :
    /\ r \in row[r].anc
    /\ row[r].anc \subseteq Present
    /\ row[r].parent = None => row[r].anc = {r}
    /\ row[r].parent # None =>
         /\ row[r].parent \in Present
         /\ r \notin row[row[r].parent].anc
         /\ row[r].anc = row[row[r].parent].anc \cup {r}

\* What the checks of an admitted call established still holds when the
\* insert comes: rows never change ...
Placed(t) ==
  /\ status[cur[t]] = "absent"
  /\ arg[t].parent = None => arg[t].anc = {cur[t]}
  /\ arg[t].parent # None =>
       /\ arg[t].parent \in Present
       /\ arg[t].anc = row[arg[t].parent].anc \cup {cur[t]}
  /\ arg[t].agent # None =>
       \A x \in arg[t].anc \ {cur[t]} : row[x].agent # arg[t].agent

\* ... and the mutex keeps every other insert below the same root out.
Room(t) ==
  \A root \in arg[t].anc \ {cur[t]} :
    IsRoot(root) => Cardinality(ActiveBelow(root)) < MaxActive

PendingOK == \A t \in Task : pc[t] = "insert" => Placed(t) /\ Room(t)

CapacityOK ==
  \A root \in Present : IsRoot(root) =>
    /\ IsFiniteSet(ActiveBelow(root))
    /\ Cardinality(ActiveBelow(root)) <= MaxActive

TreeInv == TypeInv /\ TreeOK /\ PendingOK /\ CapacityOK /\ NoAncestryCycle

\* The inductive invariant holds of the empty table.
LEMMA TreeInit == Init => TreeInv
  <1> SUFFICES ASSUME Init PROVE TreeInv
    OBVIOUS
  <1>1. Present = {}
    BY DEF Init, Present
  <1>2. \A t \in Task : pc[t] # "insert"
    BY DEF Init
  <1> QED
    BY <1>1, <1>2, TypeInit
    DEF TreeInv, TreeOK, PendingOK, CapacityOK, NoAncestryCycle

\* Steps that are quiet and admit nothing.
LEMMA TreeQuiet ==
  ASSUME TreeInv, TypeInv', Quiet, SamePending
  PROVE  TreeInv'
  <1> USE DEF TreeInv, Quiet
  <1>1. TreeOK' /\ NoAncestryCycle'
    BY DEF TreeOK, NoAncestryCycle
  <1>2. ASSUME NEW root \in Present, IsRoot(root)
        PROVE  /\ IsFiniteSet(ActiveBelow(root)')
               /\ Cardinality(ActiveBelow(root)')
                    <= Cardinality(ActiveBelow(root))
    <2>1. ActiveBelow(root)' \subseteq ActiveBelow(root)
      BY DEF ActiveBelow, Descendants
    <2>2. IsFiniteSet(ActiveBelow(root))
      BY <1>2 DEF CapacityOK
    <2> QED
      BY <2>1, <2>2, FS_Subset
  <1>3. ASSUME NEW root \in Present, IsRoot(root)
        PROVE  /\ Cardinality(ActiveBelow(root)) \in Nat
               /\ Cardinality(ActiveBelow(root)') \in Nat
    BY <1>2, <1>3, FS_CardinalityType DEF CapacityOK
  <1>4. CapacityOK'
    <2> SUFFICES ASSUME NEW root \in Present', IsRoot(root)'
                 PROVE  /\ IsFiniteSet(ActiveBelow(root)')
                        /\ Cardinality(ActiveBelow(root)') <= MaxActive
      BY DEF CapacityOK
    <2>1. root \in Present /\ IsRoot(root)
      BY DEF IsRoot
    <2>2. Cardinality(ActiveBelow(root)) <= MaxActive
      BY <2>1 DEF CapacityOK
    <2> QED
      BY <1>2, <1>3, <2>1, <2>2, BoundsAssumption
  <1>5. PendingOK'
    <2> SUFFICES ASSUME NEW t \in Task, pc'[t] = "insert"
                 PROVE  Placed(t)' /\ Room(t)'
      BY DEF PendingOK
    <2>1. /\ pc[t] = "insert" /\ cur'[t] = cur[t] /\ arg'[t] = arg[t]
          /\ cur[t] \in Run
          /\ Placed(t) /\ Room(t)
      BY DEF SamePending, PendingOK, TypeInv, LocalsOK
    <2>2. Placed(t)'
      BY <2>1 DEF Placed, Present
    <2>3. arg[t].anc \ {cur[t]} \subseteq Present
      BY <2>1 DEF Placed, TreeOK
    <2>4. Room(t)'
      <3> SUFFICES ASSUME NEW root \in arg[t].anc \ {cur[t]}, IsRoot(root)'
                   PROVE  Cardinality(ActiveBelow(root)') < MaxActive
        BY <2>1 DEF Room
      <3>1. root \in Present /\ IsRoot(root)
        BY <2>3 DEF IsRoot
      <3>2. Cardinality(ActiveBelow(root)) < MaxActive
        BY <2>1, <3>1 DEF Room
      <3> QED
        BY <1>2, <1>3, <3>1, <3>2, BoundsAssumption
    <2> QED
      BY <2>2, <2>4
  <1> QED
    BY <1>1, <1>4, <1>5

\* The row w that a call holds for run r after its checks.
Checked(t, r, w) ==
  /\ Admit(t, r, w)
  /\ w.parent = None => w.anc = {r}
  /\ w.parent # None =>
       /\ w.parent \in Present
       /\ w.anc = row[w.parent].anc \cup {r}
  /\ w.agent # None => \A x \in w.anc \ {r} : row[x].agent # w.agent
  /\ \A root \in w.anc \ {r} :
       IsRoot(root) => Cardinality(ActiveBelow(root)) < MaxActive

\* Every call that admits a run has checked the row it is going to insert;
\* retry_child_handle relies on the checks its predecessor passed.
LEMMA AdmitsChecked ==
  ASSUME TreeInv, NEW t \in Task, Admits(t)
  PROVE  \E r \in Run, w \in Row : Checked(t, r, w)
  <1> USE SetsAssumption DEF TreeInv, TypeInv, TypeOK
  <1>1. PICK r \in Run :
          \/ \E s \in Session, a \in Agent : BeginPrimary(t, r, s, a)
          \/ \E p \in Run, a \in Agent : QueueMain(t, r, p, a)
          \/ \E p \in Run : QueueSubagent(t, r, p)
          \/ \E p \in Run : RetryChild(t, r, p)
    BY DEF Admits
  <1>2. ASSUME NEW s \in Session, NEW a \in Agent, BeginPrimary(t, r, s, a)
        PROVE  \E w \in Row : Checked(t, r, w)
    <2> DEFINE w == [session |-> s, parent |-> None, anc |-> {r}, agent |-> a,
                     kind |-> "primary", retryOf |-> None]
    <2>1. w \in Row
      BY DEF Row, Kind
    <2>2. Checked(t, r, w)
      BY <1>2 DEF Checked, BeginPrimary
    <2> QED
      BY <2>1, <2>2
  <1>3. ASSUME NEW p \in Run, NEW a \in Agent, QueueMain(t, r, p, a)
        PROVE  \E w \in Row : Checked(t, r, w)
    <2> DEFINE w == [session |-> row[p].session, parent |-> p,
                     anc |-> row[p].anc \cup {r}, agent |-> a,
                     kind |-> "main", retryOf |-> None]
    <2>1. row[p] \in Row
      OBVIOUS
    <2>2. w \in Row
      BY <2>1 DEF Row, Kind
    <2>3. Admit(t, r, w) /\ p \in Present
      BY <1>3 DEF QueueMain
    <2>4. \A x \in w.anc \ {r} : row[x].agent # a
      BY <1>3 DEF QueueMain
    <2>5. \A root \in w.anc \ {r} :
            IsRoot(root) => Cardinality(ActiveBelow(root)) < MaxActive
      BY <1>3 DEF QueueMain, HasCapacity, ActiveBelow
    <2>6. Checked(t, r, w)
      BY <2>3, <2>4, <2>5 DEF Checked
    <2> QED
      BY <2>2, <2>6
  <1>4. ASSUME NEW p \in Run, QueueSubagent(t, r, p)
        PROVE  \E w \in Row : Checked(t, r, w)
    <2> DEFINE w == [session |-> row[p].session, parent |-> p,
                     anc |-> row[p].anc \cup {r}, agent |-> None,
                     kind |-> "subagent", retryOf |-> None]
    <2>1. row[p] \in Row
      OBVIOUS
    <2>2. w \in Row
      BY <2>1 DEF Row, Kind
    <2>3. Admit(t, r, w) /\ p \in Present
      BY <1>4 DEF QueueSubagent
    <2>4. \A root \in w.anc \ {r} :
            IsRoot(root) => Cardinality(ActiveBelow(root)) < MaxActive
      BY <1>4 DEF QueueSubagent, HasCapacity, ActiveBelow
    <2>5. Checked(t, r, w)
      BY <2>3, <2>4 DEF Checked
    <2> QED
      BY <2>2, <2>5
  <1>5. ASSUME NEW p \in Run, RetryChild(t, r, p)
        PROVE  \E w \in Row : Checked(t, r, w)
    <2> DEFINE up == row[p].parent
               w  == [row[p] EXCEPT !.anc = row[up].anc \cup {r},
                                    !.retryOf = p]
    <2>1. /\ p \in Present /\ up # None
          /\ Admit(t, r, w)
          /\ HasCapacity(p)
      BY <1>5 DEF RetryChild, IsRoot
    <2>2. /\ up \in Present /\ p \notin row[up].anc
          /\ row[p].anc = row[up].anc \cup {p}
      BY <2>1 DEF TreeOK
    <2>3. row[p] \in Row /\ row[up] \in Row
      BY <2>2 DEF Present
    <2>4. /\ w \in Row /\ w.parent = up /\ w.anc = row[up].anc \cup {r}
          /\ w.agent = row[p].agent
      BY <2>3 DEF Row
    <2>5. w.agent # None => \A x \in w.anc \ {r} : row[x].agent # w.agent
      BY <2>1, <2>2, <2>4 DEF NoAncestryCycle
    <2>6. \A root \in w.anc \ {r} :
            IsRoot(root) => Cardinality(ActiveBelow(root)) < MaxActive
      BY <2>1, <2>2, <2>4 DEF HasCapacity, ActiveBelow
    <2>7. Checked(t, r, w)
      BY <2>1, <2>2, <2>4, <2>5, <2>6 DEF Checked
    <2> QED
      BY <2>4, <2>7
  <1> QED
    BY <1>1, <1>2, <1>3, <1>4, <1>5

\* A call that passed its checks is placed and has room.
LEMMA TreeAdmit ==
  ASSUME TreeInv, TypeInv', UNCHANGED store, NEW t \in Task, Admits(t)
  PROVE  TreeInv'
  <1> USE DEF TreeInv
  <1>1. /\ row' = row /\ status' = status
        /\ Present' = Present /\ Active' = Active
    BY DEF store, Present, Active
  <1>2. ASSUME NEW root PROVE ActiveBelow(root)' = ActiveBelow(root)
    BY <1>1 DEF ActiveBelow, Descendants
  <1>3. TreeOK' /\ NoAncestryCycle'
    BY <1>1 DEF TreeOK, NoAncestryCycle
  <1>4. CapacityOK'
    BY <1>1, <1>2 DEF CapacityOK, IsRoot
  <1>5. PICK r \in Run, w \in Row : Checked(t, r, w)
    BY AdmitsChecked
  <1>6. /\ cur' = [cur EXCEPT ![t] = r]
        /\ arg' = [arg EXCEPT ![t] = w]
        /\ pc' = [pc EXCEPT ![t] = "insert"]
        /\ status[r] = "absent"
    BY <1>5 DEF Checked, Admit, Fresh
  <1>7. PendingOK'
    <2> SUFFICES ASSUME NEW u \in Task, pc'[u] = "insert"
                 PROVE  Placed(u)' /\ Room(u)'
      BY DEF PendingOK
    <2>1. CASE u = t
      <3>1. cur'[u] = r /\ arg'[u] = w
        BY <1>6, <2>1 DEF TypeInv, TypeOK
      <3>2. Placed(u)'
        BY <1>1, <1>5, <1>6, <3>1 DEF Placed, Checked
      <3>3. Room(u)'
        BY <1>1, <1>2, <1>5, <3>1 DEF Room, Checked, IsRoot
      <3> QED
        BY <3>2, <3>3
    <2>2. CASE u # t
      <3>1. pc[u] = "insert" /\ cur'[u] = cur[u] /\ arg'[u] = arg[u]
        BY <1>6, <2>2 DEF TypeInv, TypeOK
      <3>2. Placed(u) /\ Room(u)
        BY <3>1 DEF PendingOK
      <3>3. Placed(u)'
        BY <1>1, <3>1, <3>2 DEF Placed
      <3>4. Room(u)'
        BY <1>1, <1>2, <3>1, <3>2 DEF Room, IsRoot
      <3> QED
        BY <3>3, <3>4
    <2> QED
      BY <2>1, <2>2
  <1> QED
    BY <1>3, <1>4, <1>7

\* Inserting a checked row keeps the tree, and the bound, intact.
LEMMA AddRun ==
  ASSUME TreeInv, TypeInv', NEW r \in Run, NEW w \in Row,
         status[r] = "absent",
         status' = [status EXCEPT ![r] = "queued"],
         row' = [row EXCEPT ![r] = w],
         w.parent = None => w.anc = {r},
         w.parent # None => /\ w.parent \in Present
                            /\ w.anc = row[w.parent].anc \cup {r},
         w.agent # None => \A x \in w.anc \ {r} : row[x].agent # w.agent,
         \A root \in w.anc \ {r} :
           IsRoot(root) => Cardinality(ActiveBelow(root)) < MaxActive,
         \A u \in Task : pc'[u] = "insert" =>
           /\ pc[u] = "insert" /\ cur'[u] = cur[u] /\ arg'[u] = arg[u]
           /\ cur[u] # r /\ w.anc = {r}
  PROVE  TreeInv'
  <1> USE DEF TreeInv
  <1>1. /\ Present' = Present \cup {r} /\ r \notin Present
        /\ Active' = Active \cup {r}
        /\ \A q \in Present : row'[q] = row[q]
        /\ row'[r] = w
    BY DEF TypeInv, TypeOK, Present, Active, ActiveSt
  <1>2. w.anc \ {r} \subseteq Present
    BY DEF TreeOK
  <1>3. TreeOK'
    <2> SUFFICES ASSUME NEW q \in Present'
                 PROVE  /\ q \in row'[q].anc
                        /\ row'[q].anc \subseteq Present'
                        /\ row'[q].parent = None => row'[q].anc = {q}
                        /\ row'[q].parent # None =>
                             /\ row'[q].parent \in Present'
                             /\ q \notin row'[row'[q].parent].anc
                             /\ row'[q].anc =
                                  row'[row'[q].parent].anc \cup {q}
      BY DEF TreeOK
    <2>1. CASE q = r
      BY <1>1, <1>2, <2>1 DEF TreeOK
    <2>2. CASE q # r
      <3>1. q \in Present
        BY <1>1, <2>2
      <3> QED
        BY <1>1, <3>1 DEF TreeOK
    <2> QED
      BY <2>1, <2>2
  <1>4. NoAncestryCycle'
    <2> SUFFICES ASSUME NEW q \in Present',
                        NEW x \in row'[q].anc, NEW y \in row'[q].anc,
                        x # y, row'[x].agent # None
                 PROVE  row'[x].agent # row'[y].agent
      BY DEF NoAncestryCycle
    <2>1. CASE q \in Present
      <3>1. /\ row'[q] = row[q] /\ x \in Present /\ y \in Present
        BY <1>1, <2>1 DEF TreeOK
      <3> QED
        BY <1>1, <2>1, <3>1 DEF NoAncestryCycle
    <2>2. CASE q = r
      <3>1. x \in w.anc /\ y \in w.anc
        BY <1>1, <2>2
      <3>2. CASE x = r
        BY <1>1, <1>2, <3>1, <3>2
      <3>3. CASE y = r
        BY <1>1, <1>2, <3>1, <3>3
      <3>4. CASE x # r /\ y # r
        <4>1. /\ w.parent # None
              /\ x \in row[w.parent].anc /\ y \in row[w.parent].anc
              /\ x \in Present /\ y \in Present
          BY <1>2, <3>1, <3>4
        <4> QED
          BY <1>1, <4>1 DEF NoAncestryCycle
      <3> QED
        BY <3>2, <3>3, <3>4
    <2> QED
      BY <1>1, <2>1, <2>2
  <1>5. ASSUME NEW root \in Present, IsRoot(root)
        PROVE  /\ ActiveBelow(root)' = IF root \in w.anc
                                       THEN ActiveBelow(root) \cup {r}
                                       ELSE ActiveBelow(root)
               /\ IsFiniteSet(ActiveBelow(root))
               /\ Cardinality(ActiveBelow(root)) \in Nat
               /\ Cardinality(ActiveBelow(root)) <= MaxActive
    <2>1. ActiveBelow(root)' = IF root \in w.anc
                               THEN ActiveBelow(root) \cup {r}
                               ELSE ActiveBelow(root)
      BY <1>1, <1>5 DEF ActiveBelow, Descendants
    <2> QED
      BY <1>5, <2>1, FS_CardinalityType DEF CapacityOK
  <1>6. CapacityOK'
    <2> SUFFICES ASSUME NEW root \in Present', IsRoot(root)'
                 PROVE  /\ IsFiniteSet(ActiveBelow(root)')
                        /\ Cardinality(ActiveBelow(root)') <= MaxActive
      BY DEF CapacityOK
    <2>1. CASE root = r
      <3>1. ActiveBelow(root)' = {}
        BY <1>1, <1>2, <2>1 DEF ActiveBelow, Descendants, TreeOK
      <3> QED
        BY <3>1, FS_EmptySet, BoundsAssumption
    <2>2. CASE root # r
      <3>1. root \in Present /\ IsRoot(root)
        BY <1>1, <2>2 DEF IsRoot
      <3>2. CASE root \in w.anc
        <4>1. Cardinality(ActiveBelow(root)) < MaxActive
          BY <2>2, <3>1, <3>2
        <4>2. /\ IsFiniteSet(ActiveBelow(root) \cup {r})
              /\ Cardinality(ActiveBelow(root) \cup {r})
                   <= Cardinality(ActiveBelow(root)) + 1
          BY <1>5, <3>1, FS_AddElement, FS_CardinalityType
        <4>3. Cardinality(ActiveBelow(root) \cup {r}) \in Nat
          BY <4>2, FS_CardinalityType
        <4> QED
          BY <1>5, <3>1, <3>2, <4>1, <4>2, <4>3, BoundsAssumption
      <3>3. CASE root \notin w.anc
        BY <1>5, <3>1, <3>3
      <3> QED
        BY <3>2, <3>3
    <2> QED
      BY <2>1, <2>2
  <1>7. PendingOK'
    <2> SUFFICES ASSUME NEW u \in Task, pc'[u] = "insert"
                 PROVE  Placed(u)' /\ Room(u)'
      BY DEF PendingOK
    <2>1. /\ pc[u] = "insert" /\ cur'[u] = cur[u] /\ arg'[u] = arg[u]
          /\ cur[u] # r /\ w.anc = {r} /\ cur[u] \in Run
          /\ Placed(u) /\ Room(u)
      BY DEF PendingOK, TypeInv, LocalsOK
    <2>2. arg[u].anc \ {cur[u]} \subseteq Present
      BY <2>1 DEF Placed, TreeOK
    <2>3. Placed(u)'
      <3>1. status'[cur[u]] = "absent"
        BY <2>1 DEF Placed, TypeInv, TypeOK
      <3> QED
        BY <1>1, <2>1, <2>2, <3>1 DEF Placed
    <2>4. Room(u)'
      <3> SUFFICES ASSUME NEW root \in arg[u].anc \ {cur[u]}, IsRoot(root)'
                   PROVE  Cardinality(ActiveBelow(root)') < MaxActive
        BY <2>1 DEF Room
      <3>1. root \in Present /\ IsRoot(root) /\ root \notin w.anc
        BY <1>1, <2>1, <2>2 DEF IsRoot
      <3> QED
        BY <1>5, <2>1, <3>1 DEF Room
    <2> QED
      BY <2>3, <2>4
  <1> QED
    BY <1>3, <1>4, <1>6, <1>7

\* Every step preserves the inductive invariant: quiet steps by TreeQuiet, the
\* admissions by TreeAdmit, the two inserts by AddRun.
LEMMA TreeStep == TreeInv /\ [Next]_vars => TreeInv'
  <1> SUFFICES ASSUME TreeInv, [Next]_vars PROVE TreeInv'
    OBVIOUS
  <1>0. TypeInv /\ TypeInv'
    BY TypeStep DEF TreeInv
  <1>1. CASE Quiet /\ SamePending
    BY <1>0, <1>1, TreeQuiet
  <1>2. CASE UNCHANGED store /\ \E t \in Task : Admits(t)
    BY <1>0, <1>2, TreeAdmit
  <1>3. ASSUME NEW t \in Task, NEW r \in Run, NEW s \in Session,
               NEW a \in Agent, InsertOwned(t, r, s, a)
        PROVE  TreeInv'
    <2> DEFINE w == [session |-> s, parent |-> None, anc |-> {r}, agent |-> a,
                     kind |-> "primary", retryOf |-> None]
    <2>1. w \in Row
      BY SetsAssumption DEF Row, Kind
    <2>2. /\ status[r] = "absent"
          /\ status' = [status EXCEPT ![r] = "queued"]
          /\ row' = [row EXCEPT ![r] = w]
      BY <1>3 DEF InsertOwned, Fresh
    <2>3. \A u \in Task : pc'[u] = "insert" =>
            /\ pc[u] = "insert" /\ cur'[u] = cur[u] /\ arg'[u] = arg[u]
            /\ cur[u] # r /\ w.anc = {r}
      BY <1>0, <1>3 DEF InsertOwned, Fresh, TypeInv, TypeOK
    <2> HIDE DEF w
    <2>4. w.parent = None /\ w.anc = {r}
      BY DEF w
    <2> QED
      BY <1>0, <2>1, <2>2, <2>3, <2>4, AddRun
  <1>4. ASSUME NEW t \in Task, Insert(t)
        PROVE  TreeInv'
    <2>1. /\ pc[t] = "insert" /\ cur[t] \in Run /\ arg[t] \in Row
          /\ status' = [status EXCEPT ![cur[t]] = "queued"]
          /\ row' = [row EXCEPT ![cur[t]] = arg[t]]
      BY <1>0, <1>4 DEF Insert, TypeInv, LocalsOK
    <2>2. Placed(t) /\ Room(t)
      BY <2>1 DEF TreeInv, PendingOK
    <2>3. \A u \in Task : pc'[u] # "insert"
      <3> SUFFICES ASSUME NEW u \in Task, pc'[u] = "insert" PROVE FALSE
        OBVIOUS
      <3>1. u # t /\ pc[u] = "insert"
        BY <1>0, <1>4 DEF Insert, TypeInv, TypeOK
      <3> QED
        BY <1>0, <2>1, <3>1 DEF TypeInv, LocalsOK
    <2> QED
      BY <1>0, <2>1, <2>2, <2>3, AddRun DEF Placed, Room
  <1> QED
    BY <1>0, <1>1, <1>2, <1>3, <1>4, StepShape

\* No root ever has more than MAX_ACTIVE_CHILD_RUNS active runs below it.
THEOREM CapacityIsBounded == Spec => []CapacityBound
  <1>1. TreeInv => CapacityBound
    BY DEF TreeInv, CapacityOK, CapacityBound, ActiveBelow
  <1> QED
    BY <1>1, TreeInit, TreeStep, PTL DEF Spec

\* No agent profile is executed twice on one path, retries included.
THEOREM AncestryIsAcyclic == Spec => []NoAncestryCycle
  <1>1. TreeInv => NoAncestryCycle
    BY DEF TreeInv
  <1> QED
    BY <1>1, TreeInit, TreeStep, PTL DEF Spec

\* A terminal status is never overwritten, by any call or by recovery.
THEOREM TerminalFinality == Spec => TerminalIsFinal
  <1>1. ASSUME TreeInv, [Next]_vars
        PROVE  [\A r \in Run : status[r] \in Terminal =>
                                 status'[r] = status[r]]_vars
    <2>1. CASE Quiet
      BY <2>1 DEF Quiet
    <2>2. CASE UNCHANGED store
      BY <2>2 DEF store
    <2>3. CASE \E t \in Task, r \in Run, s \in Session, a \in Agent :
                 InsertOwned(t, r, s, a)
      BY <1>1, <2>3 DEF TreeInv, TypeInv, TypeOK, InsertOwned, Fresh, Terminal
    <2>4. CASE \E t \in Task : Insert(t)
      BY <1>1, <2>4
      DEF TreeInv, TypeInv, TypeOK, PendingOK, Placed, Insert, Terminal
    <2> QED
      BY <1>1, <2>1, <2>2, <2>3, <2>4, StepShape DEF TreeInv
  <1> QED
    BY <1>1, TreeInit, TreeStep, PTL DEF Spec, TerminalIsFinal
=============================================================================

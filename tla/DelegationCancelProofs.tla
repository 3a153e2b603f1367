----------------------- MODULE DelegationCancelProofs -----------------------
(* Proofs about the rows Delegation inserts (depth and retries) and about  *)
(* its cancellations and sweeps, on top of DelegationProofs.               *)
EXTENDS DelegationProofs

-----------------------------------------------------------------------------
(* The inductive invariants.                                               *)

MainsIn(rows, A) == {a \in A : rows[a].kind = "main"}

\* Room for a row of that kind below the runs in A.
Shallow(rows, A, kind) ==
  /\ IsFiniteSet(MainsIn(rows, A))
  /\ Cardinality(MainsIn(rows, A)) + (IF kind = "main" THEN 1 ELSE 0) <= MaxDepth

\* A retry of p sits where p does, and p has ended without success.
Replaces(parent, p) ==
  p \in Run /\ status[p] \in Retryable /\ row[p].parent = parent

\* The depth checked by queue_main and the predecessor checked by
\* retry_child_handle still stand when the insert comes.
PendingRow(t) ==
  /\ Shallow(row, arg[t].anc \ {cur[t]}, arg[t].kind)
  /\ arg[t].retryOf # None =>
       /\ Replaces(arg[t].parent, arg[t].retryOf)
       /\ \A q \in Present : row[q].retryOf # arg[t].retryOf

RowsOK ==
  /\ \A r \in Present : Shallow(row, row[r].anc \ {r}, row[r].kind)
  /\ \A r \in Present : row[r].retryOf # None =>
       /\ Replaces(row[r].parent, row[r].retryOf)
       /\ \A q \in Present : row[q].retryOf = row[r].retryOf => q = r
  /\ \A t \in Task : pc[t] = "insert" => PendingRow(t)

\* Task t is in the cancellation loop and holds the mutex.
Cancelling(t) ==
  admission = t /\ pc[t] \in {"cancel", "kill", "record", "announce"}

\* What an active run below the target of a cancellation is found on.
ListOK ==
  \A t \in Task : Cancelling(t) => ActiveBelow(target[t]) \subseteq todo[t]

\* The runs a task holds on to: roots are activated and stopped, never
\* cancelled; a child is not registered after it ended.
Listed(t) ==
  /\ \A r \in todo[t] : r \in Present /\ ~IsRoot(r)
  /\ roots[t] \cup seen[t] \subseteq Present
  /\ target[t] # None => target[t] \in Present

Held(t) ==
  /\ Listed(t)
  /\ pc[t] = "activate" => cur[t] \in Present /\ IsRoot(cur[t])
  /\ pc[t] = "register" =>
       /\ cur[t] \in Present
       /\ ~IsRoot(cur[t]) => cur[t] \in Active /\ token[cur[t]] = "none"
  /\ pc[t] = "unlive" => status[cur[t]] \in Terminal \ {"cancelled"}
  /\ pc[t] = "kill" => status[cur[t]] = "cancelled"
  /\ pc[t] = "stopRoot" => IsRoot(target[t])

HeldOK == \A t \in Task : Held(t)

\* A token is armed as long as its run can be cancelled and then found by it.
TokenOK ==
  \A r \in Run :
    /\ status[r] = "absent" => token[r] = "none"
    /\ token[r] = "armed" => r \in live \/ status[r] \in Terminal \ {"cancelled"}
    /\ status[r] = "cancelled" => ~IsRoot(r)

CancelInv ==
  TreeInv /\ ListOK /\ HeldOK /\ TokenOK /\ CancelledTokenFires /\ LiveChildIsActive

\* Where a sweep is with the run r that it saw below the root it saw: the root
\* is still to come, or its tree is being cancelled, or the root is stopped
\* next, or r is done.
OnTheWay(t, r, root) ==
  \/ root \in roots[t]
  \/ Cancelling(t) /\ target[t] = root /\ (r \in todo[t] \/ r = root)
  \/ pc[t] = "stopRoot" /\ target[t] = root /\ r = root

SweepOK ==
  \A t \in Task : \A r \in seen[t] : \A root \in row[r].anc \cap seen[t] :
    IsRoot(root) /\ r \in Active => OnTheWay(t, r, root)

-----------------------------------------------------------------------------
(* Depth and retries.                                                      *)

\* Shallow looks at the rows of the runs in A only.
LEMMA ShallowSame ==
  ASSUME NEW old, NEW new, NEW A, NEW kind, \A a \in A : new[a] = old[a],
         Shallow(old, A, kind)
  PROVE  Shallow(new, A, kind)
  <1>1. MainsIn(new, A) = MainsIn(old, A)
    BY DEF MainsIn
  <1> QED
    BY <1>1 DEF Shallow

\* The main delegates on the path to p, p included.
LEMMA DepthOfRun ==
  ASSUME NEW rows, NEW A, NEW p \in A, Shallow(rows, A \ {p}, rows[p].kind)
  PROVE  /\ IsFiniteSet(MainsIn(rows, A))
         /\ Cardinality(MainsIn(rows, A)) \in Nat
         /\ Cardinality(MainsIn(rows, A)) <= MaxDepth
  <1> DEFINE B == MainsIn(rows, A \ {p})
  <1>1. IsFiniteSet(B) /\ Cardinality(B) \in Nat
    BY FS_CardinalityType DEF Shallow
  <1>2. CASE rows[p].kind = "main"
    <2>1. MainsIn(rows, A) = B \cup {p} /\ p \notin B
      BY <1>2 DEF MainsIn
    <2>2. IsFiniteSet(B \cup {p}) /\ Cardinality(B \cup {p}) = Cardinality(B) + 1
      BY <1>1, <2>1, FS_AddElement
    <2>3. Cardinality(B) + 1 <= MaxDepth
      BY <1>2 DEF Shallow
    <2> QED
      BY <1>1, <2>1, <2>2, <2>3
  <1>3. CASE rows[p].kind # "main"
    <2>1. MainsIn(rows, A) = B
      BY <1>3 DEF MainsIn
    <2>2. Cardinality(B) + 0 <= MaxDepth
      BY <1>3 DEF Shallow
    <2> QED
      BY <1>1, <2>1, <2>2
  <1> QED
    BY <1>2, <1>3

\* No row is main above a root.
LEMMA RootIsShallow == \A rows : Shallow(rows, {}, "primary")
  <1> SUFFICES ASSUME NEW rows PROVE Shallow(rows, {}, "primary")
    OBVIOUS
  <1>1. MainsIn(rows, {}) = {}
    BY DEF MainsIn
  <1> QED
    BY <1>1, FS_EmptySet, BoundsAssumption DEF Shallow

\* What a call that passed its checks knows of the row it is going to insert.
Admissible(r, w) ==
  /\ Shallow(row, w.anc \ {r}, w.kind)
  /\ w.retryOf # None =>
       /\ Replaces(w.parent, w.retryOf)
       /\ \A q \in Present : row[q].retryOf # w.retryOf

\* Every call that admits a run has established it: queue_main by its depth
\* check, retry_child_handle from the run it replaces.
LEMMA AdmitsRow ==
  ASSUME TreeInv, RowsOK, NEW t \in Task, Admits(t)
  PROVE  \E r \in Run, w \in Row : Admit(t, r, w) /\ Admissible(r, w)
  <1> USE SetsAssumption DEF TreeInv, TypeInv, TypeOK
  <1>1. PICK r \in Run :
          \/ \E s \in Session, a \in Agent : BeginPrimary(t, r, s, a)
          \/ \E p \in Run, a \in Agent : QueueMain(t, r, p, a)
          \/ \E p \in Run : QueueSubagent(t, r, p)
          \/ \E p \in Run : RetryChild(t, r, p)
    BY DEF Admits
  <1>2. ASSUME NEW s \in Session, NEW a \in Agent, BeginPrimary(t, r, s, a)
        PROVE  \E w \in Row : Admit(t, r, w) /\ Admissible(r, w)
    <2> DEFINE w == [session |-> s, parent |-> None, anc |-> {r}, agent |-> a,
                     kind |-> "primary", retryOf |-> None]
    <2>1. w \in Row
      BY DEF Row, Kind
    <2>2. Admit(t, r, w)
      BY <1>2 DEF BeginPrimary
    <2>3. w.anc \ {r} = {} /\ w.kind = "primary" /\ w.retryOf = None
      OBVIOUS
    <2> HIDE DEF w
    <2>4. Shallow(row, w.anc \ {r}, w.kind)
      <3>1. Shallow(row, {}, "primary")
        BY RootIsShallow
      <3> QED
        BY <2>3, <3>1, Zenon
    <2>5. Admissible(r, w)
      BY <2>3, <2>4 DEF Admissible
    <2> QED
      BY <2>1, <2>2, <2>5
  <1>3. ASSUME NEW p \in Present
        PROVE  /\ IsFiniteSet(MainsIn(row, row[p].anc))
               /\ Cardinality(MainsIn(row, row[p].anc)) \in Nat
               /\ Cardinality(MainsIn(row, row[p].anc)) <= MaxDepth
               /\ row[p].anc \subseteq Present
    <2>1. p \in row[p].anc /\ Shallow(row, row[p].anc \ {p}, row[p].kind)
      BY DEF RowsOK, TreeOK
    <2> QED
      BY <2>1, DepthOfRun DEF TreeOK
  <1>4. ASSUME NEW p \in Run, NEW a \in Agent, QueueMain(t, r, p, a)
        PROVE  \E w \in Row : Admit(t, r, w) /\ Admissible(r, w)
    <2> DEFINE w == [session |-> row[p].session, parent |-> p,
                     anc |-> row[p].anc \cup {r}, agent |-> a,
                     kind |-> "main", retryOf |-> None]
    <2>1. row[p] \in Row
      OBVIOUS
    <2>2. w \in Row
      BY <2>1 DEF Row, Kind
    <2>3. Admit(t, r, w) /\ p \in Present /\ status[r] = "absent"
      BY <1>4 DEF QueueMain, Admit, Fresh
    <2>4. w.anc \ {r} = row[p].anc
      BY <1>3, <2>3 DEF Present
    <2>5. Cardinality(MainsIn(row, row[p].anc)) < MaxDepth
      BY <1>4 DEF QueueMain, MainDepth, MainsIn
    <2>6. Shallow(row, row[p].anc, "main")
      BY <1>3, <2>3, <2>5, BoundsAssumption DEF Shallow
    <2>7. w.kind = "main" /\ w.retryOf = None
      OBVIOUS
    <2> HIDE DEF w
    <2> QED
      BY <2>2, <2>3, <2>4, <2>6, <2>7 DEF Admissible
  <1>5. ASSUME NEW p \in Run, QueueSubagent(t, r, p)
        PROVE  \E w \in Row : Admit(t, r, w) /\ Admissible(r, w)
    <2> DEFINE w == [session |-> row[p].session, parent |-> p,
                     anc |-> row[p].anc \cup {r}, agent |-> None,
                     kind |-> "subagent", retryOf |-> None]
    <2>1. row[p] \in Row
      OBVIOUS
    <2>2. w \in Row
      BY <2>1 DEF Row, Kind
    <2>3. Admit(t, r, w) /\ p \in Present /\ status[r] = "absent"
      BY <1>5 DEF QueueSubagent, Admit, Fresh
    <2>4. w.anc \ {r} = row[p].anc
      BY <1>3, <2>3 DEF Present
    <2>5. Shallow(row, row[p].anc, "subagent")
      BY <1>3, <2>3, BoundsAssumption DEF Shallow
    <2>6. w.kind = "subagent" /\ w.retryOf = None
      OBVIOUS
    <2> HIDE DEF w
    <2> QED
      BY <2>2, <2>3, <2>4, <2>5, <2>6 DEF Admissible
  <1>6. ASSUME NEW p \in Run, RetryChild(t, r, p)
        PROVE  \E w \in Row : Admit(t, r, w) /\ Admissible(r, w)
    <2> DEFINE up == row[p].parent
               w  == [row[p] EXCEPT !.anc = row[up].anc \cup {r}, !.retryOf = p]
    <2>1. /\ p \in Present /\ up # None /\ status[p] \in Retryable
          /\ \A q \in Present : row[q].retryOf # p
          /\ Admit(t, r, w) /\ status[r] = "absent"
      BY <1>6 DEF RetryChild, IsRoot, Admit, Fresh
    <2>2. /\ up \in Present /\ p \notin row[up].anc
          /\ row[p].anc = row[up].anc \cup {p}
      BY <2>1 DEF TreeOK
    <2>3. row[p] \in Row /\ row[up] \in Row
      BY <2>2 DEF Present
    <2>4. /\ w \in Row /\ w.parent = up /\ w.anc = row[up].anc \cup {r}
          /\ w.kind = row[p].kind /\ w.retryOf = p
      BY <2>3 DEF Row
    <2>5. w.anc \ {r} = row[p].anc \ {p}
      BY <1>3, <2>1, <2>2, <2>4 DEF Present
    <2>6. Shallow(row, row[p].anc \ {p}, row[p].kind)
      BY <2>1 DEF RowsOK
    <2> HIDE DEF w
    <2>7. Admissible(r, w)
      BY <2>1, <2>4, <2>5, <2>6 DEF Admissible, Replaces
    <2> QED
      BY <2>1, <2>4, <2>7
  <1> QED
    BY <1>1, <1>2, <1>4, <1>5, <1>6

\* Inserting such a row keeps depths and retries in order.
LEMMA AddRow ==
  ASSUME TreeInv, TreeInv', RowsOK, NEW r \in Run, NEW w \in Row,
         status[r] = "absent",
         status' = [status EXCEPT ![r] = "queued"],
         row' = [row EXCEPT ![r] = w],
         Admissible(r, w),
         \A u \in Task : pc'[u] = "insert" =>
           /\ pc[u] = "insert" /\ cur'[u] = cur[u] /\ arg'[u] = arg[u]
           /\ w.retryOf = None
  PROVE  RowsOK'
  <1>1. /\ Present' = Present \cup {r} /\ r \notin Present
        /\ \A q \in Present : row'[q] = row[q] /\ status'[q] = status[q]
        /\ row'[r] = w
    BY DEF TreeInv, TypeInv, TypeOK, Present
  <1>2. ASSUME NEW parent, NEW p, Replaces(parent, p)
        PROVE  /\ p \in Present /\ p \in Run
               /\ status'[p] \in Retryable /\ row'[p].parent = parent
    <2>1. p \in Present
      BY <1>2 DEF Replaces, Present, Retryable
    <2> QED
      BY <1>1, <1>2, <2>1 DEF Replaces
  <1>3. ASSUME NEW q \in Present'
        PROVE  Shallow(row', row'[q].anc \ {q}, row'[q].kind)
    <2>1. row'[q].anc \subseteq Present'
      BY DEF TreeInv, TreeOK
    <2>2. CASE q = r
      <3>1. \A a \in w.anc \ {r} : row'[a] = row[a]
        BY <1>1, <2>1, <2>2
      <3>2. Shallow(row, w.anc \ {r}, w.kind)
        BY DEF Admissible
      <3>3. Shallow(row', w.anc \ {r}, w.kind)
        BY <3>1, <3>2, ShallowSame
      <3> QED
        BY <1>1, <2>2, <3>3
    <2>3. CASE q # r
      <3>1. q \in Present /\ row'[q] = row[q] /\ row[q].anc \subseteq Present
        BY <1>1, <2>3 DEF TreeInv, TreeOK
      <3>2. \A a \in row[q].anc \ {q} : row'[a] = row[a]
        BY <1>1, <3>1
      <3>3. Shallow(row, row[q].anc \ {q}, row[q].kind)
        BY <3>1 DEF RowsOK
      <3>4. Shallow(row', row[q].anc \ {q}, row[q].kind)
        BY <3>2, <3>3, ShallowSame
      <3> QED
        BY <3>1, <3>4
    <2> QED
      BY <2>2, <2>3
  <1>4. ASSUME NEW q \in Present', row'[q].retryOf # None
        PROVE  /\ Replaces(row[q].parent, row[q].retryOf)'
               /\ \A x \in Present' : row'[x].retryOf = row'[q].retryOf => x = q
    <2>1. CASE q = r
      BY <1>1, <1>2, <1>4, <2>1 DEF Admissible, Replaces
    <2>2. CASE q # r
      <3>1. q \in Present /\ row'[q] = row[q]
        BY <1>1, <2>2
      <3>2. /\ Replaces(row[q].parent, row[q].retryOf)
            /\ \A x \in Present : row[x].retryOf = row[q].retryOf => x = q
        BY <1>4, <3>1 DEF RowsOK
      <3>3. w.retryOf # row[q].retryOf
        BY <1>4, <3>1 DEF Admissible
      <3> QED
        BY <1>1, <1>2, <3>1, <3>2, <3>3 DEF Replaces
    <2> QED
      BY <2>1, <2>2
  <1>5. ASSUME NEW u \in Task, pc'[u] = "insert"
        PROVE  PendingRow(u)'
    <2>1. /\ pc[u] = "insert" /\ cur'[u] = cur[u] /\ arg'[u] = arg[u]
          /\ w.retryOf = None /\ PendingRow(u) /\ Placed(u)
      BY <1>5 DEF RowsOK, TreeInv, PendingOK
    <2>2. arg[u].anc \ {cur[u]} \subseteq Present
      BY <2>1 DEF Placed, TreeInv, TreeOK
    <2>3. Shallow(row', arg[u].anc \ {cur[u]}, arg[u].kind)
      <3>1. Shallow(row, arg[u].anc \ {cur[u]}, arg[u].kind)
        BY <2>1 DEF PendingRow
      <3>2. \A a \in arg[u].anc \ {cur[u]} : row'[a] = row[a]
        BY <1>1, <2>2
      <3> QED
        BY <3>1, <3>2, ShallowSame
    <2> QED
      BY <1>1, <1>2, <2>1, <2>3 DEF PendingRow, Replaces
  <1> QED
    BY <1>3, <1>4, <1>5 DEF RowsOK

\* Steps that add no row keep them in order.
LEMMA RowsKept ==
  ASSUME TreeInv, RowsOK, Present' = Present, row' = row,
         \A r \in Run : status[r] \in Terminal => status'[r] = status[r],
         \A t \in Task : pc'[t] = "insert" => PendingRow(t)'
  PROVE  RowsOK'
  BY DEF RowsOK, Replaces, Retryable, Terminal

(* Every step keeps the depth of the rows and the chains of the retries. *)
LEMMA RowsStep == TreeInv /\ RowsOK /\ [Next]_vars => RowsOK'
  <1> SUFFICES ASSUME TreeInv, RowsOK, [Next]_vars PROVE RowsOK'
    OBVIOUS
  <1>0. TreeInv' /\ TypeInv
    BY TreeStep DEF TreeInv
  <1>1. CASE Quiet /\ SamePending
    <2>1. ASSUME NEW t \in Task, pc'[t] = "insert" PROVE PendingRow(t)'
      <3>1. pc[t] = "insert" /\ cur'[t] = cur[t] /\ arg'[t] = arg[t] /\ PendingRow(t)
        BY <1>1, <2>1 DEF SamePending, RowsOK
      <3> QED
        BY <1>1, <3>1 DEF Quiet, PendingRow, Replaces, Retryable, Terminal
    <2> QED
      BY <1>1, <2>1, RowsKept DEF Quiet
  <1>2. ASSUME UNCHANGED store, NEW t \in Task, Admits(t) PROVE RowsOK'
    <2>1. PICK r \in Run, w \in Row : Admit(t, r, w) /\ Admissible(r, w)
      BY <1>2, AdmitsRow
    <2>2. /\ cur' = [cur EXCEPT ![t] = r] /\ arg' = [arg EXCEPT ![t] = w]
          /\ pc' = [pc EXCEPT ![t] = "insert"]
          /\ status' = status /\ row' = row /\ Present' = Present
      BY <1>2, <2>1 DEF Admit, store, Present
    <2>3. ASSUME NEW u \in Task, pc'[u] = "insert" PROVE PendingRow(u)'
      <3>1. CASE u = t
        <4>1. cur'[u] = r /\ arg'[u] = w
          BY <1>0, <2>2, <3>1 DEF TypeInv, TypeOK
        <4> QED
          BY <2>1, <2>2, <4>1 DEF Admissible, PendingRow, Replaces
      <3>2. CASE u # t
        <4>1. pc[u] = "insert" /\ cur'[u] = cur[u] /\ arg'[u] = arg[u]
          BY <1>0, <2>2, <2>3, <3>2 DEF TypeInv, TypeOK
        <4> QED
          BY <2>2, <4>1 DEF RowsOK, PendingRow, Replaces
      <3> QED
        BY <3>1, <3>2
    <2> QED
      BY <2>2, <2>3, RowsKept
  <1>3. ASSUME NEW t \in Task, NEW r \in Run, NEW s \in Session,
               NEW a \in Agent, InsertOwned(t, r, s, a)
        PROVE  RowsOK'
    <2> DEFINE w == [session |-> s, parent |-> None, anc |-> {r}, agent |-> a,
                     kind |-> "primary", retryOf |-> None]
    <2>1. w \in Row /\ w.retryOf = None /\ w.anc \ {r} = {} /\ w.kind = "primary"
      BY SetsAssumption DEF Row, Kind
    <2>2. /\ status[r] = "absent"
          /\ status' = [status EXCEPT ![r] = "queued"]
          /\ row' = [row EXCEPT ![r] = w]
      BY <1>3 DEF InsertOwned, Fresh
    <2>3. \A u \in Task : pc'[u] = "insert" =>
            pc[u] = "insert" /\ cur'[u] = cur[u] /\ arg'[u] = arg[u]
      BY <1>0, <1>3 DEF InsertOwned, TypeInv, TypeOK
    <2> HIDE DEF w
    <2>4. Admissible(r, w)
      BY <2>1, RootIsShallow DEF Admissible
    <2> QED
      BY <1>0, <2>1, <2>2, <2>3, <2>4, AddRow
  <1>4. ASSUME NEW t \in Task, Insert(t) PROVE RowsOK'
    <2>1. /\ pc[t] = "insert" /\ cur[t] \in Run /\ arg[t] \in Row
          /\ status' = [status EXCEPT ![cur[t]] = "queued"]
          /\ row' = [row EXCEPT ![cur[t]] = arg[t]]
      BY <1>0, <1>4 DEF Insert, TypeInv, LocalsOK
    <2>2. Admissible(cur[t], arg[t]) /\ status[cur[t]] = "absent"
      BY <2>1 DEF RowsOK, PendingRow, Admissible, TreeInv, PendingOK, Placed
    <2>3. \A u \in Task : pc'[u] # "insert"
      <3> SUFFICES ASSUME NEW u \in Task, pc'[u] = "insert" PROVE FALSE
        OBVIOUS
      <3>1. u # t /\ pc[u] = "insert"
        BY <1>0, <1>4 DEF Insert, TypeInv, TypeOK
      <3> QED
        BY <1>0, <2>1, <3>1 DEF TypeInv, LocalsOK
    <2> QED
      BY <1>0, <2>1, <2>2, <2>3, AddRow
  <1> QED
    BY <1>0, <1>1, <1>2, <1>3, <1>4, StepShape

\* The rows of the empty table are in order.
LEMMA RowsInvariant == Spec => [](TreeInv /\ RowsOK)
  <1>1. Init => RowsOK
    BY DEF Init, RowsOK, Present
  <1> QED
    BY <1>1, TreeInit, TreeStep, RowsStep, PTL DEF Spec

\* No path of the tree has more than MAX_MAIN_DELEGATION_DEPTH main delegates,
\* retries included: queue_main checks it, retry_child_handle does not.
THEOREM DepthIsBounded == Spec => []DepthBound
  <1>1. TreeInv /\ RowsOK => DepthBound
    <2> SUFFICES ASSUME TreeInv, RowsOK, NEW r \in Present PROVE MainDepth(r) <= MaxDepth
      BY DEF DepthBound
    <2>1. r \in row[r].anc /\ Shallow(row, row[r].anc \ {r}, row[r].kind)
      BY DEF TreeInv, TreeOK, RowsOK
    <2>2. Cardinality(MainsIn(row, row[r].anc)) <= MaxDepth
      BY <2>1, DepthOfRun
    <2> QED
      BY <2>2 DEF MainDepth, MainsIn
  <1> QED
    BY <1>1, RowsInvariant, PTL

\* Retries form chains, never branches, however many callers retry at once
\* (retry_child_handle: the check and the insert are under one mutex).
THEOREM RetriesAreChains == Spec => []RetryIsChain
  <1>1. TreeInv /\ RowsOK => RetryIsChain
    BY DEF RowsOK, RetryIsChain, Replaces
  <1> QED
    BY <1>1, RowsInvariant, PTL

-----------------------------------------------------------------------------
(* Cancellation.                                                           *)

\* The waiters only read.
LEMMA WaitingStep ==
  [Next]_vars =>
    \/ \E t \in Task : TaskStep(t) \/ TaskCall(t)
    \/ \E t \in Task, s \in Session : SweepStart(t, s)
    \/ UNCHANGED <<store, admission, live, token, terminal, tasks>>
    \/ Restart
  BY DEF Next, vars, WaiterStep, Return, CheckTerminal, CheckStore, Recv, Move,
         Subscribe

\* What no step does to the table: remove or change a row, revive a run.
Stable ==
  /\ Present \subseteq Present'
  /\ \A r \in Present : row'[r] = row[r] /\ (r \in Active' => r \in Active)
  /\ \A r \in Run : status[r] \in Terminal => status'[r] = status[r]

(* No step revives a run that has ended, nor changes a row that is there. *)
LEMMA StoreStep ==
  ASSUME TreeInv, [Next]_vars
  PROVE  Stable
  <1> USE DEF Stable
  <1>1. CASE Quiet
    BY <1>1 DEF Quiet
  <1>2. CASE UNCHANGED store
    BY <1>2 DEF store, Present, Active
  <1>3. ASSUME NEW r \in Run, NEW w, status[r] = "absent",
               status' = [status EXCEPT ![r] = "queued"], row' = [row EXCEPT ![r] = w]
        PROVE  Stable
    BY <1>3 DEF TreeInv, TypeInv, TypeOK, Present, Active, ActiveSt, Terminal
  <1>4. ASSUME NEW t \in Task, NEW r \in Run, NEW s \in Session, NEW a \in Agent,
               InsertOwned(t, r, s, a)
        PROVE  Stable
    BY <1>3, <1>4 DEF InsertOwned, Fresh
  <1>5. ASSUME NEW t \in Task, Insert(t) PROVE Stable
    <2>1. cur[t] \in Run /\ status[cur[t]] = "absent"
      BY <1>5 DEF Insert, TreeInv, TypeInv, LocalsOK, PendingOK, Placed
    <2> QED
      BY <1>3, <1>5, <2>1 DEF Insert
  <1> QED
    BY <1>1, <1>2, <1>4, <1>5, StepShape DEF TreeInv

\* list_descendant_agent_runs finds no root.
LEMMA DescendantsAreChildren ==
  ASSUME TreeInv, NEW r, NEW d \in Descendants(r)
  PROVE  d \in Present /\ ~IsRoot(d)
  BY DEF TreeInv, TreeOK, Descendants, IsRoot

\* Nobody finishes, cancels or arms a child between its insert and its registration.
LEMMA RegisterKept ==
  ASSUME TreeInv, HeldOK, NEW u \in Task, pc[u] = "register", pc'[u] = "register",
         ~IsRoot(cur[u]),
         [Next]_vars
  PROVE  status'[cur[u]] \in ActiveSt /\ token'[cur[u]] = "none"
  <1> DEFINE c == cur[u]
  <1>0. /\ admission = u /\ u # None /\ c \in Run
        /\ status[c] \in ActiveSt /\ token[c] = "none"
        /\ status \in [Run -> {"absent"} \cup ActiveSt \cup Terminal]
        /\ token \in [Run -> {"none", "armed", "fired"}]
        /\ pc \in [Task -> TaskPc] /\ pc[u] = "register" /\ pc'[u] = "register"
        /\ \A t \in Task : pc[t] = "activate" => cur[t] # c
        /\ \A t \in Task : pc[t] = "stopRoot" => target[t] # c
        /\ \A t \in Task : pc[t] \in {"insert", "register", "cancel", "kill"} => admission = t
    BY SetsAssumption DEF TreeInv, TypeInv, TypeOK, LocalsOK, HeldOK, Held, Active
  <1>1. ASSUME NEW t \in Task, TaskStep(t)
        PROVE status'[cur[u]] \in ActiveSt /\ token'[cur[u]] = "none"
    <2>1. CASE ActivatePersistedPrimary(t)
      BY <2>1, <1>0 DEF ActivatePersistedPrimary, Known, Fresh, Cas, Terminal, ActiveSt, store,
         tasks
    <2>2. CASE Insert(t)
      BY <2>2, <1>0 DEF Insert, Known, Fresh, Cas, Terminal, ActiveSt, store, tasks
    <2>3. CASE Register(t)
      BY <2>3, <1>0 DEF Register, Known, Fresh, Cas, Terminal, ActiveSt, store, tasks
    <2>4. CASE Unlive(t)
      BY <2>4, <1>0 DEF Unlive, Known, Fresh, Cas, Terminal, ActiveSt, store, tasks
    <2>5. CASE Record(t)
      BY <2>5, <1>0 DEF Record, Known, Fresh, Cas, Terminal, ActiveSt, store, tasks
    <2>6. CASE Announce(t)
      BY <2>6, <1>0 DEF Announce, Known, Fresh, Cas, Terminal, ActiveSt, store, tasks
    <2>7. ASSUME NEW r \in Run, CancelStep(t, r)
          PROVE status'[cur[u]] \in ActiveSt /\ token'[cur[u]] = "none"
      BY <2>7, <1>0 DEF CancelStep, Known, Fresh, Cas, Terminal, ActiveSt, store, tasks
    <2>8. CASE Kill(t)
      BY <2>8, <1>0 DEF Kill, Known, Fresh, Cas, Terminal, ActiveSt, store, tasks
    <2>9. CASE CancelDone(t)
      BY <2>9, <1>0 DEF CancelDone, Known, Fresh, Cas, Terminal, ActiveSt, store, tasks
    <2>10. ASSUME NEW r \in Run, SweepRoot(t, r)
           PROVE status'[cur[u]] \in ActiveSt /\ token'[cur[u]] = "none"
      BY <2>10, <1>0 DEF SweepRoot, Known, Fresh, Cas, Terminal, ActiveSt, store, tasks
    <2>11. CASE StopRoot(t)
      BY <2>11, <1>0 DEF StopRoot, Known, Fresh, Cas, Terminal, ActiveSt, store, tasks
    <2>12. CASE SweepDone(t)
      BY <2>12, <1>0 DEF SweepDone, Known, Fresh, Cas, Terminal, ActiveSt, store, tasks
    <2> QED
      BY <1>1, <2>1, <2>2, <2>3, <2>4, <2>5, <2>6, <2>7, <2>8, <2>9, <2>10, <2>11, <2>12
         DEF TaskStep
  <1>2. ASSUME NEW t \in Task, NEW r \in Run, TaskCallOn(t, r)
        PROVE status'[cur[u]] \in ActiveSt /\ token'[cur[u]] = "none"
    <2>1. ASSUME NEW s \in Session, NEW a \in Agent, InsertOwned(t, r, s, a)
          PROVE status'[cur[u]] \in ActiveSt /\ token'[cur[u]] = "none"
      BY <2>1, <1>0 DEF InsertOwned, Known, Fresh, Cas, Terminal, ActiveSt, store, tasks
    <2>2. ASSUME NEW s \in Session, NEW a \in Agent, BeginPrimary(t, r, s, a)
          PROVE status'[cur[u]] \in ActiveSt /\ token'[cur[u]] = "none"
      BY <2>2, <1>0 DEF BeginPrimary, Admit, Known, Fresh, Cas, Terminal, ActiveSt, store, tasks
    <2>3. ASSUME NEW p \in Run, NEW a \in Agent, QueueMain(t, r, p, a)
          PROVE status'[cur[u]] \in ActiveSt /\ token'[cur[u]] = "none"
      BY <2>3, <1>0 DEF QueueMain, Admit, Known, Fresh, Cas, Terminal, ActiveSt, store, tasks
    <2>4. ASSUME NEW p \in Run, QueueSubagent(t, r, p)
          PROVE status'[cur[u]] \in ActiveSt /\ token'[cur[u]] = "none"
      BY <2>4, <1>0 DEF QueueSubagent, Admit, Known, Fresh, Cas, Terminal, ActiveSt, store, tasks
    <2>5. ASSUME NEW p \in Run, RetryChild(t, r, p)
          PROVE status'[cur[u]] \in ActiveSt /\ token'[cur[u]] = "none"
      BY <2>5, <1>0 DEF RetryChild, Admit, Known, Fresh, Cas, Terminal, ActiveSt, store, tasks
    <2>6. CASE MarkRunning(t, r)
      BY <2>6, <1>0 DEF MarkRunning, Known, Fresh, Cas, Terminal, ActiveSt, store, tasks
    <2>7. ASSUME NEW to \in {"completed", "failed", "interrupted"}, Finish(t, r, to)
          PROVE status'[cur[u]] \in ActiveSt /\ token'[cur[u]] = "none"
      BY <2>7, <1>0 DEF Finish, Known, Fresh, Cas, Terminal, ActiveSt, store, tasks
    <2>8. CASE CancelChild(t, r)
      BY <2>8, <1>0 DEF CancelChild, Known, Fresh, Cas, Terminal, ActiveSt, store, tasks
    <2> QED
      BY <1>2, <2>1, <2>2, <2>3, <2>4, <2>5, <2>6, <2>7, <2>8 DEF TaskCallOn
  <1>3. ASSUME NEW t \in Task, NEW s \in Session, SweepStart(t, s)
        PROVE status'[cur[u]] \in ActiveSt /\ token'[cur[u]] = "none"
    BY <1>3, <1>0 DEF SweepStart, Known, Fresh, Cas, Terminal, ActiveSt, store, tasks
  <1>4. CASE UNCHANGED <<store, admission, live, token, terminal, tasks>>
    BY <1>4, <1>0 DEF tasks, Known, Fresh, Cas, Terminal, ActiveSt, store, tasks
  <1>5. CASE Restart
    BY <1>5, <1>0 DEF Restart, Known, Fresh, Cas, Terminal, ActiveSt, store, tasks
  <1>6. \/ \E t \in Task : TaskStep(t) \/ TaskCall(t)
        \/ \E t \in Task, s \in Session : SweepStart(t, s)
        \/ UNCHANGED <<store, admission, live, token, terminal, tasks>>
        \/ Restart
    BY WaitingStep
  <1> QED
    BY <1>1, <1>2, <1>3, <1>4, <1>5, <1>6 DEF TaskCall


\* A task that goes on holding what it held, or lets go of it.
LEMMA HeldCarries ==
  ASSUME Stable, NEW u \in Task, Held(u),
         todo'[u] \subseteq todo[u], roots'[u] \subseteq roots[u], seen'[u] \subseteq seen[u],
         target'[u] \in {target[u], None},
         \/ pc'[u] \in {"idle", "insert", "record", "announce", "cancel", "sweep"}
         \/ /\ pc'[u] = pc[u] /\ cur'[u] = cur[u] /\ target'[u] = target[u]
            /\ cur[u] \in Run /\ target[u] \in Run \cup {None} /\ (pc[u] = "stopRoot" => target[u] # None)
            /\ pc[u] = "register" /\ ~IsRoot(cur[u]) =>
                 cur[u] \in Active' /\ token'[cur[u]] = "none"
  PROVE  Held(u)'
  <1> USE DEF Stable, Held, Listed, IsRoot
  <1>1. /\ \A r \in todo'[u] : r \in Present' /\ row'[r].parent # None
        /\ roots'[u] \cup seen'[u] \subseteq Present'
        /\ target'[u] # None => target'[u] \in Present'
    OBVIOUS
  <1>2. CASE pc'[u] \in {"idle", "insert", "record", "announce", "cancel", "sweep"}
    BY <1>1, <1>2
  <1>3. CASE /\ pc'[u] = pc[u] /\ cur'[u] = cur[u] /\ target'[u] = target[u]
             /\ cur[u] \in Run /\ target[u] \in Run \cup {None} /\ (pc[u] = "stopRoot" => target[u] # None)
             /\ pc[u] = "register" /\ ~IsRoot(cur[u]) =>
                  cur[u] \in Active' /\ token'[cur[u]] = "none"
    <2>1. pc'[u] = "activate" => cur'[u] \in Present' /\ row'[cur'[u]].parent = None
      BY <1>3
    <2>2. pc'[u] = "register" =>
            /\ cur'[u] \in Present'
            /\ row'[cur'[u]].parent # None => cur'[u] \in Active' /\ token'[cur'[u]] = "none"
      BY <1>3
    <2>3. pc'[u] = "unlive" => status'[cur'[u]] \in Terminal \ {"cancelled"}
      BY <1>3
    <2>4. pc'[u] = "kill" => status'[cur'[u]] = "cancelled"
      BY <1>3 DEF Terminal
    <2>5. pc'[u] = "stopRoot" => row'[target'[u]].parent = None
      BY <1>3
    <2> QED
      BY <1>1, <2>1, <2>2, <2>3, <2>4, <2>5
  <1> QED
    BY <1>2, <1>3

\* A task whose locals a step leaves alone.
OthersKeep(u) ==
  /\ pc'[u] = pc[u] /\ cur'[u] = cur[u] /\ todo'[u] = todo[u]
  /\ roots'[u] = roots[u] /\ seen'[u] = seen[u] /\ target'[u] = target[u]

(* What a task holds on to outlives the steps of the others. *)
LEMMA OthersHeld ==
  ASSUME TreeInv, HeldOK, TokenOK, [Next]_vars, NEW u \in Task, OthersKeep(u)
  PROVE  Held(u)'
  <1>1. Stable /\ Held(u)
    BY StoreStep DEF HeldOK
  <1>2. /\ cur[u] \in Run \/ pc[u] \notin {"activate", "register", "unlive", "kill"}
        /\ target[u] \in Run \cup {None}
        /\ pc[u] = "stopRoot" => target[u] # None
    BY SetsAssumption DEF TreeInv, TypeInv, TypeOK, LocalsOK
  <1>3. pc[u] = "register" /\ ~IsRoot(cur[u]) =>
          cur[u] \in Active' /\ token'[cur[u]] = "none"
    <2> SUFFICES ASSUME pc[u] = "register", ~IsRoot(cur[u])
                 PROVE  cur[u] \in Active' /\ token'[cur[u]] = "none"
      OBVIOUS
    <2>1. pc'[u] = "register" /\ cur[u] \in Run
      BY <1>2 DEF OthersKeep
    <2> QED
      BY <2>1, RegisterKept DEF Active
  <1>4. CASE cur[u] \in Run
    BY <1>1, <1>2, <1>3, <1>4, HeldCarries DEF OthersKeep
  <1>5. CASE pc[u] \notin {"activate", "register", "unlive", "kill"}
    BY <1>1, <1>2, <1>5 DEF Held, Listed, Stable, OthersKeep, IsRoot
  <1> QED
    BY <1>2, <1>4, <1>5

\* Every step keeps what the tasks hold on to.
LEMMA HeldStep ==
  ASSUME TreeInv, HeldOK, TokenOK,
         [Next]_vars
  PROVE  HeldOK'
  <1>0. TypeOK /\ LocalsOK /\ Stable /\ None \notin Run
    BY StoreStep, SetsAssumption DEF TreeInv, TypeInv
  <1>1. ASSUME NEW t \in Task, TaskStep(t) PROVE HeldOK'
    <2>1. CASE ActivatePersistedPrimary(t)
      <3>1. \A u \in Task : u # t => OthersKeep(u)
        BY <2>1, <1>0 DEF ActivatePersistedPrimary, OthersKeep, TypeOK
      <3>2. /\ todo'[t] \subseteq todo[t] /\ roots'[t] \subseteq roots[t] /\ seen'[t] \subseteq seen[t]
            /\ target'[t] \in {target[t], None}
            /\ pc'[t] \in {"idle", "insert", "record", "announce", "cancel", "sweep"}
        BY <2>1, <1>0 DEF ActivatePersistedPrimary, TypeOK
      <3>3. Held(t)'
        BY <1>0, <3>2, HeldCarries DEF HeldOK
      <3> QED
        BY <3>1, <3>3, OthersHeld DEF HeldOK
    <2>2. CASE Insert(t)
      <3>1. \A u \in Task : u # t => OthersKeep(u)
        BY <2>2, <1>0 DEF Insert, OthersKeep, TypeOK
      <3>3. Held(t)'
        <4>1. Listed(t)'
          BY <2>2, <1>0 DEF Insert, Held, Listed, HeldOK, Stable, IsRoot, TypeOK
        <4>2. cur[t] \in Run /\ status[cur[t]] = "absent" /\ token[cur[t]] = "none"
          BY <2>2, <1>0 DEF Insert, LocalsOK, TreeInv, PendingOK, Placed, TokenOK
        <4>3. /\ pc'[t] = "register" /\ cur'[t] = cur[t]
              /\ status'[cur[t]] = "queued" /\ token' = token
          BY <2>2, <1>0, <4>2 DEF Insert, TypeOK
        <4> QED
          BY <4>1, <4>2, <4>3 DEF Held, Present, Active, ActiveSt
      <3> QED
        BY <3>1, <3>3, OthersHeld DEF HeldOK
    <2>3. CASE Register(t)
      <3>1. \A u \in Task : u # t => OthersKeep(u)
        BY <2>3, <1>0 DEF Register, OthersKeep, TypeOK
      <3>2. /\ todo'[t] \subseteq todo[t] /\ roots'[t] \subseteq roots[t] /\ seen'[t] \subseteq seen[t]
            /\ target'[t] \in {target[t], None}
            /\ pc'[t] \in {"idle", "insert", "record", "announce", "cancel", "sweep"}
        BY <2>3, <1>0 DEF Register, TypeOK
      <3>3. Held(t)'
        BY <1>0, <3>2, HeldCarries DEF HeldOK
      <3> QED
        BY <3>1, <3>3, OthersHeld DEF HeldOK
    <2>4. CASE Unlive(t)
      <3>1. \A u \in Task : u # t => OthersKeep(u)
        BY <2>4, <1>0 DEF Unlive, OthersKeep, TypeOK
      <3>2. /\ todo'[t] \subseteq todo[t] /\ roots'[t] \subseteq roots[t] /\ seen'[t] \subseteq seen[t]
            /\ target'[t] \in {target[t], None}
            /\ pc'[t] \in {"idle", "insert", "record", "announce", "cancel", "sweep"}
        BY <2>4, <1>0 DEF Unlive, TypeOK
      <3>3. Held(t)'
        BY <1>0, <3>2, HeldCarries DEF HeldOK
      <3> QED
        BY <3>1, <3>3, OthersHeld DEF HeldOK
    <2>5. CASE Record(t)
      <3>1. \A u \in Task : u # t => OthersKeep(u)
        BY <2>5, <1>0 DEF Record, OthersKeep, TypeOK
      <3>2. /\ todo'[t] \subseteq todo[t] /\ roots'[t] \subseteq roots[t] /\ seen'[t] \subseteq seen[t]
            /\ target'[t] \in {target[t], None}
            /\ pc'[t] \in {"idle", "insert", "record", "announce", "cancel", "sweep"}
        BY <2>5, <1>0 DEF Record, TypeOK
      <3>3. Held(t)'
        BY <1>0, <3>2, HeldCarries DEF HeldOK
      <3> QED
        BY <3>1, <3>3, OthersHeld DEF HeldOK
    <2>6. CASE Announce(t)
      <3>1. \A u \in Task : u # t => OthersKeep(u)
        BY <2>6, <1>0 DEF Announce, OthersKeep, TypeOK
      <3>2. /\ todo'[t] \subseteq todo[t] /\ roots'[t] \subseteq roots[t] /\ seen'[t] \subseteq seen[t]
            /\ target'[t] \in {target[t], None}
            /\ pc'[t] \in {"idle", "insert", "record", "announce", "cancel", "sweep"}
        BY <2>6, <1>0 DEF Announce, TypeOK
      <3>3. Held(t)'
        BY <1>0, <3>2, HeldCarries DEF HeldOK
      <3> QED
        BY <3>1, <3>3, OthersHeld DEF HeldOK
    <2>7. ASSUME NEW r \in Run, CancelStep(t, r) PROVE HeldOK'
      <3>1. \A u \in Task : u # t => OthersKeep(u)
        BY <2>7, <1>0 DEF CancelStep, OthersKeep, TypeOK
      <3>3. Held(t)'
        <4>1. Listed(t)'
          BY <2>7, <1>0 DEF CancelStep, Held, Listed, HeldOK, Stable, IsRoot, TypeOK
        <4>2. \/ pc'[t] = "kill" /\ cur'[t] = r /\ status'[r] = "cancelled"
              \/ pc'[t] = "cancel"
          BY <2>7, <1>0 DEF CancelStep, Cas, TypeOK
        <4> QED
          BY <4>1, <4>2 DEF Held
      <3> QED
        BY <3>1, <3>3, OthersHeld DEF HeldOK
    <2>8. CASE Kill(t)
      <3>1. \A u \in Task : u # t => OthersKeep(u)
        BY <2>8, <1>0 DEF Kill, OthersKeep, TypeOK
      <3>2. /\ todo'[t] \subseteq todo[t] /\ roots'[t] \subseteq roots[t] /\ seen'[t] \subseteq seen[t]
            /\ target'[t] \in {target[t], None}
            /\ pc'[t] \in {"idle", "insert", "record", "announce", "cancel", "sweep"}
        BY <2>8, <1>0 DEF Kill, TypeOK
      <3>3. Held(t)'
        BY <1>0, <3>2, HeldCarries DEF HeldOK
      <3> QED
        BY <3>1, <3>3, OthersHeld DEF HeldOK
    <2>9. CASE CancelDone(t)
      <3>1. \A u \in Task : u # t => OthersKeep(u)
        BY <2>9, <1>0 DEF CancelDone, OthersKeep, TypeOK
      <3>3. Held(t)'
        <4>1. Listed(t)'
          BY <2>9, <1>0 DEF CancelDone, Held, Listed, HeldOK, Stable, IsRoot, TypeOK
        <4>2. \/ pc'[t] = "idle"
              \/ pc'[t] = "stopRoot" /\ target'[t] = target[t] /\ IsRoot(target[t]) /\ row' = row
          BY <2>9, <1>0 DEF CancelDone, TypeOK, store
        <4> QED
          BY <4>1, <4>2 DEF Held, IsRoot
      <3> QED
        BY <3>1, <3>3, OthersHeld DEF HeldOK
    <2>10. ASSUME NEW r \in Run, SweepRoot(t, r) PROVE HeldOK'
      <3>1. \A u \in Task : u # t => OthersKeep(u)
        BY <2>10, <1>0 DEF SweepRoot, OthersKeep, TypeOK
      <3>3. Held(t)'
        <4>1. \A d \in Descendants(r) : d \in Present /\ ~IsRoot(d)
          BY DescendantsAreChildren
        <4>2. Listed(t)'
          BY <2>10, <1>0, <4>1 DEF SweepRoot, Held, Listed, HeldOK, Stable, IsRoot, TypeOK
        <4>3. pc'[t] = "cancel"
          BY <2>10, <1>0 DEF SweepRoot, TypeOK
        <4> QED
          BY <4>2, <4>3 DEF Held
      <3> QED
        BY <3>1, <3>3, OthersHeld DEF HeldOK
    <2>11. CASE StopRoot(t)
      <3>1. \A u \in Task : u # t => OthersKeep(u)
        BY <2>11, <1>0 DEF StopRoot, OthersKeep, TypeOK
      <3>3. Held(t)'
        <4>1. Listed(t)'
          BY <2>11, <1>0 DEF StopRoot, Held, Listed, HeldOK, Stable, IsRoot, TypeOK
        <4>2. \/ pc'[t] = "sweep"
              \/ pc'[t] = "unlive" /\ cur'[t] = target[t] /\ status'[target[t]] = "interrupted"
          BY <2>11, <1>0 DEF StopRoot, Cas, TypeOK, LocalsOK
        <4> QED
          BY <4>1, <4>2 DEF Held, Terminal
      <3> QED
        BY <3>1, <3>3, OthersHeld DEF HeldOK
    <2>12. CASE SweepDone(t)
      <3>1. \A u \in Task : u # t => OthersKeep(u)
        BY <2>12, <1>0 DEF SweepDone, OthersKeep, TypeOK
      <3>2. /\ todo'[t] \subseteq todo[t] /\ roots'[t] \subseteq roots[t] /\ seen'[t] \subseteq seen[t]
            /\ target'[t] \in {target[t], None}
            /\ pc'[t] \in {"idle", "insert", "record", "announce", "cancel", "sweep"}
        BY <2>12, <1>0 DEF SweepDone, TypeOK
      <3>3. Held(t)'
        BY <1>0, <3>2, HeldCarries DEF HeldOK
      <3> QED
        BY <3>1, <3>3, OthersHeld DEF HeldOK
    <2> QED
      BY <1>1, <2>1, <2>2, <2>3, <2>4, <2>5, <2>6, <2>7, <2>8, <2>9, <2>10, <2>11, <2>12
         DEF TaskStep
  <1>2. ASSUME NEW t \in Task, NEW r \in Run, TaskCallOn(t, r) PROVE HeldOK'
    <2>1. ASSUME NEW s \in Session, NEW a \in Agent, InsertOwned(t, r, s, a) PROVE HeldOK'
      <3>1. \A u \in Task : u # t => OthersKeep(u)
        BY <2>1, <1>0 DEF InsertOwned, OthersKeep, TypeOK
      <3>3. Held(t)'
        <4>1. Listed(t)'
          BY <2>1, <1>0 DEF InsertOwned, Held, Listed, HeldOK, Stable, IsRoot, TypeOK
        <4>2. /\ pc'[t] = "activate" /\ cur'[t] = r /\ r \in Present' /\ row'[r].parent = None
          BY <2>1, <1>0 DEF InsertOwned, TypeOK, Present
        <4> QED
          BY <4>1, <4>2 DEF Held, IsRoot
      <3> QED
        BY <3>1, <3>3, OthersHeld DEF HeldOK
    <2>2. ASSUME NEW s \in Session, NEW a \in Agent, BeginPrimary(t, r, s, a) PROVE HeldOK'
      <3>1. \A u \in Task : u # t => OthersKeep(u)
        BY <2>2, <1>0 DEF BeginPrimary, Admit, OthersKeep, TypeOK
      <3>2. /\ todo'[t] \subseteq todo[t] /\ roots'[t] \subseteq roots[t] /\ seen'[t] \subseteq seen[t]
            /\ target'[t] \in {target[t], None}
            /\ pc'[t] \in {"idle", "insert", "record", "announce", "cancel", "sweep"}
        BY <2>2, <1>0 DEF BeginPrimary, Admit, TypeOK
      <3>3. Held(t)'
        BY <1>0, <3>2, HeldCarries DEF HeldOK
      <3> QED
        BY <3>1, <3>3, OthersHeld DEF HeldOK
    <2>3. ASSUME NEW p \in Run, NEW a \in Agent, QueueMain(t, r, p, a) PROVE HeldOK'
      <3>1. \A u \in Task : u # t => OthersKeep(u)
        BY <2>3, <1>0 DEF QueueMain, Admit, OthersKeep, TypeOK
      <3>2. /\ todo'[t] \subseteq todo[t] /\ roots'[t] \subseteq roots[t] /\ seen'[t] \subseteq seen[t]
            /\ target'[t] \in {target[t], None}
            /\ pc'[t] \in {"idle", "insert", "record", "announce", "cancel", "sweep"}
        BY <2>3, <1>0 DEF QueueMain, Admit, TypeOK
      <3>3. Held(t)'
        BY <1>0, <3>2, HeldCarries DEF HeldOK
      <3> QED
        BY <3>1, <3>3, OthersHeld DEF HeldOK
    <2>4. ASSUME NEW p \in Run, QueueSubagent(t, r, p) PROVE HeldOK'
      <3>1. \A u \in Task : u # t => OthersKeep(u)
        BY <2>4, <1>0 DEF QueueSubagent, Admit, OthersKeep, TypeOK
      <3>2. /\ todo'[t] \subseteq todo[t] /\ roots'[t] \subseteq roots[t] /\ seen'[t] \subseteq seen[t]
            /\ target'[t] \in {target[t], None}
            /\ pc'[t] \in {"idle", "insert", "record", "announce", "cancel", "sweep"}
        BY <2>4, <1>0 DEF QueueSubagent, Admit, TypeOK
      <3>3. Held(t)'
        BY <1>0, <3>2, HeldCarries DEF HeldOK
      <3> QED
        BY <3>1, <3>3, OthersHeld DEF HeldOK
    <2>5. ASSUME NEW p \in Run, RetryChild(t, r, p) PROVE HeldOK'
      <3>1. \A u \in Task : u # t => OthersKeep(u)
        BY <2>5, <1>0 DEF RetryChild, Admit, OthersKeep, TypeOK
      <3>2. /\ todo'[t] \subseteq todo[t] /\ roots'[t] \subseteq roots[t] /\ seen'[t] \subseteq seen[t]
            /\ target'[t] \in {target[t], None}
            /\ pc'[t] \in {"idle", "insert", "record", "announce", "cancel", "sweep"}
        BY <2>5, <1>0 DEF RetryChild, Admit, TypeOK
      <3>3. Held(t)'
        BY <1>0, <3>2, HeldCarries DEF HeldOK
      <3> QED
        BY <3>1, <3>3, OthersHeld DEF HeldOK
    <2>6. CASE MarkRunning(t, r)
      <3>1. \A u \in Task : OthersKeep(u)
        BY <2>6 DEF MarkRunning, OthersKeep, tasks
      <3> QED
        BY <3>1, OthersHeld DEF HeldOK
    <2>7. ASSUME NEW to \in {"completed", "failed", "interrupted"}, Finish(t, r, to) PROVE HeldOK'
      <3>1. \A u \in Task : u # t => OthersKeep(u)
        BY <2>7, <1>0 DEF Finish, OthersKeep, TypeOK
      <3>3. Held(t)'
        <4>1. Listed(t)'
          BY <2>7, <1>0 DEF Finish, Held, Listed, HeldOK, Stable, IsRoot, TypeOK
        <4>2. pc'[t] = "unlive" /\ cur'[t] = r /\ status'[r] = to
          BY <2>7, <1>0 DEF Finish, Cas, TypeOK
        <4> QED
          BY <4>1, <4>2 DEF Held, Terminal
      <3> QED
        BY <3>1, <3>3, OthersHeld DEF HeldOK
    <2>8. CASE CancelChild(t, r)
      <3>1. \A u \in Task : u # t => OthersKeep(u)
        BY <2>8, <1>0 DEF CancelChild, OthersKeep, TypeOK
      <3>3. Held(t)'
        <4>1. \A d \in Descendants(r) : d \in Present /\ ~IsRoot(d)
          BY DescendantsAreChildren
        <4>2. Listed(t)'
          BY <2>8, <1>0, <4>1 DEF CancelChild, Held, Listed, HeldOK, Stable, IsRoot, TypeOK
        <4>3. pc'[t] = "cancel"
          BY <2>8, <1>0 DEF CancelChild, TypeOK
        <4> QED
          BY <4>2, <4>3 DEF Held
      <3> QED
        BY <3>1, <3>3, OthersHeld DEF HeldOK
    <2> QED
      BY <1>2, <2>1, <2>2, <2>3, <2>4, <2>5, <2>6, <2>7, <2>8 DEF TaskCallOn
  <1>3. ASSUME NEW t \in Task, NEW s \in Session, SweepStart(t, s) PROVE HeldOK'
    <2>1. \A u \in Task : u # t => OthersKeep(u)
      BY <1>3, <1>0 DEF SweepStart, OthersKeep, TypeOK
    <2>3. Held(t)'
      <3>1. Active \subseteq Present
        BY DEF Active, Present, ActiveSt
      <3>2. Listed(t)'
        BY <1>3, <1>0, <3>1 DEF SweepStart, Held, Listed, HeldOK, Stable, IsRoot, TypeOK
      <3>3. pc'[t] = "sweep"
        BY <1>3, <1>0 DEF SweepStart, TypeOK
      <3> QED
        BY <3>2, <3>3 DEF Held
    <2> QED
      BY <2>1, <2>3, OthersHeld DEF HeldOK
  <1>4. CASE UNCHANGED <<store, admission, live, token, terminal, tasks>>
    <2>1. \A u \in Task : OthersKeep(u)
      BY <1>4 DEF OthersKeep, tasks
    <2> QED
      BY <2>1, OthersHeld DEF HeldOK
  <1>5. CASE Restart
    <2>1. \A u \in Task : /\ pc'[u] = "idle" /\ todo'[u] = {} /\ roots'[u] = {}
                           /\ seen'[u] = {} /\ target'[u] = None
      BY <1>5 DEF Restart
    <2> QED
      BY <2>1 DEF HeldOK, Held, Listed
  <1>6. \/ \E t \in Task : TaskStep(t) \/ TaskCall(t)
        \/ \E t \in Task, s \in Session : SweepStart(t, s)
        \/ UNCHANGED <<store, admission, live, token, terminal, tasks>>
        \/ Restart
    BY WaitingStep
  <1> QED
    BY <1>1, <1>2, <1>3, <1>4, <1>5, <1>6 DEF TaskCall

\* Every step keeps the tokens of the runs that can be cancelled findable.
LEMMA TokenStep ==
  ASSUME TreeInv, HeldOK, TokenOK,
         [Next]_vars
  PROVE  TokenOK'
  <1>0. TypeOK /\ LocalsOK /\ Stable /\ None \notin Run /\ None \notin Task
    BY StoreStep, SetsAssumption DEF TreeInv, TypeInv
  <1>1. ASSUME NEW t \in Task, TaskStep(t) PROVE TokenOK'
    <2>1. CASE ActivatePersistedPrimary(t)
      BY <2>1, <1>0 DEF ActivatePersistedPrimary, Cas, TokenOK, HeldOK, Held, Listed, Stable,
         IsRoot, TypeOK, LocalsOK, Present, Active, ActiveSt, Terminal, store, tasks
    <2>2. CASE Insert(t)
      BY <2>2, <1>0 DEF Insert, Cas, TokenOK, HeldOK, Held, Listed, Stable, IsRoot, TypeOK,
         LocalsOK, Present, Active, ActiveSt, Terminal, store, tasks
    <2>3. CASE Register(t)
      BY <2>3, <1>0 DEF Register, Cas, TokenOK, HeldOK, Held, Listed, Stable, IsRoot, TypeOK,
         LocalsOK, Present, Active, ActiveSt, Terminal, store, tasks
    <2>4. CASE Unlive(t)
      BY <2>4, <1>0 DEF Unlive, Cas, TokenOK, HeldOK, Held, Listed, Stable, IsRoot, TypeOK,
         LocalsOK, Present, Active, ActiveSt, Terminal, store, tasks
    <2>5. CASE Record(t)
      BY <2>5, <1>0 DEF Record, Cas, TokenOK, HeldOK, Held, Listed, Stable, IsRoot, TypeOK,
         LocalsOK, Present, Active, ActiveSt, Terminal, store, tasks
    <2>6. CASE Announce(t)
      BY <2>6, <1>0 DEF Announce, Cas, TokenOK, HeldOK, Held, Listed, Stable, IsRoot, TypeOK,
         LocalsOK, Present, Active, ActiveSt, Terminal, store, tasks
    <2>7. ASSUME NEW r \in Run, CancelStep(t, r) PROVE TokenOK'
      BY <2>7, <1>0 DEF CancelStep, Cas, TokenOK, HeldOK, Held, Listed, Stable, IsRoot, TypeOK,
         LocalsOK, Present, Active, ActiveSt, Terminal, store, tasks
    <2>8. CASE Kill(t)
      BY <2>8, <1>0 DEF Kill, Cas, TokenOK, HeldOK, Held, Listed, Stable, IsRoot, TypeOK,
         LocalsOK, Present, Active, ActiveSt, Terminal, store, tasks
    <2>9. CASE CancelDone(t)
      BY <2>9, <1>0 DEF CancelDone, Cas, TokenOK, HeldOK, Held, Listed, Stable, IsRoot, TypeOK,
         LocalsOK, Present, Active, ActiveSt, Terminal, store, tasks
    <2>10. ASSUME NEW r \in Run, SweepRoot(t, r) PROVE TokenOK'
      BY <2>10, <1>0 DEF SweepRoot, Cas, TokenOK, HeldOK, Held, Listed, Stable, IsRoot, TypeOK,
         LocalsOK, Present, Active, ActiveSt, Terminal, store, tasks
    <2>11. CASE StopRoot(t)
      BY <2>11, <1>0 DEF StopRoot, Cas, TokenOK, HeldOK, Held, Listed, Stable, IsRoot, TypeOK,
         LocalsOK, Present, Active, ActiveSt, Terminal, store, tasks
    <2>12. CASE SweepDone(t)
      BY <2>12, <1>0 DEF SweepDone, Cas, TokenOK, HeldOK, Held, Listed, Stable, IsRoot, TypeOK,
         LocalsOK, Present, Active, ActiveSt, Terminal, store, tasks
    <2> QED
      BY <1>1, <2>1, <2>2, <2>3, <2>4, <2>5, <2>6, <2>7, <2>8, <2>9, <2>10, <2>11, <2>12
         DEF TaskStep
  <1>2. ASSUME NEW t \in Task, NEW r \in Run, TaskCallOn(t, r) PROVE TokenOK'
    <2>1. ASSUME NEW s \in Session, NEW a \in Agent, InsertOwned(t, r, s, a) PROVE TokenOK'
      BY <2>1, <1>0 DEF InsertOwned, Cas, TokenOK, HeldOK, Held, Listed, Stable, IsRoot, TypeOK,
         LocalsOK, Present, Active, ActiveSt, Terminal, store, tasks
    <2>2. ASSUME NEW s \in Session, NEW a \in Agent, BeginPrimary(t, r, s, a) PROVE TokenOK'
      BY <2>2, <1>0 DEF BeginPrimary, Admit, Cas, TokenOK, HeldOK, Held, Listed, Stable, IsRoot,
         TypeOK, LocalsOK, Present, Active, ActiveSt, Terminal, store, tasks
    <2>3. ASSUME NEW p \in Run, NEW a \in Agent, QueueMain(t, r, p, a) PROVE TokenOK'
      BY <2>3, <1>0 DEF QueueMain, Admit, Cas, TokenOK, HeldOK, Held, Listed, Stable, IsRoot,
         TypeOK, LocalsOK, Present, Active, ActiveSt, Terminal, store, tasks
    <2>4. ASSUME NEW p \in Run, QueueSubagent(t, r, p) PROVE TokenOK'
      BY <2>4, <1>0 DEF QueueSubagent, Admit, Cas, TokenOK, HeldOK, Held, Listed, Stable,
         IsRoot, TypeOK, LocalsOK, Present, Active, ActiveSt, Terminal, store, tasks
    <2>5. ASSUME NEW p \in Run, RetryChild(t, r, p) PROVE TokenOK'
      BY <2>5, <1>0 DEF RetryChild, Admit, Cas, TokenOK, HeldOK, Held, Listed, Stable, IsRoot,
         TypeOK, LocalsOK, Present, Active, ActiveSt, Terminal, store, tasks
    <2>6. CASE MarkRunning(t, r)
      BY <2>6, <1>0 DEF MarkRunning, Cas, TokenOK, HeldOK, Held, Listed, Stable, IsRoot, TypeOK,
         LocalsOK, Present, Active, ActiveSt, Terminal, store, tasks
    <2>7. ASSUME NEW to \in {"completed", "failed", "interrupted"}, Finish(t, r, to) PROVE TokenOK'
      BY <2>7, <1>0 DEF Finish, Cas, TokenOK, HeldOK, Held, Listed, Stable, IsRoot, TypeOK,
         LocalsOK, Present, Active, ActiveSt, Terminal, store, tasks
    <2>8. CASE CancelChild(t, r)
      BY <2>8, <1>0 DEF CancelChild, Cas, TokenOK, HeldOK, Held, Listed, Stable, IsRoot, TypeOK,
         LocalsOK, Present, Active, ActiveSt, Terminal, store, tasks
    <2> QED
      BY <1>2, <2>1, <2>2, <2>3, <2>4, <2>5, <2>6, <2>7, <2>8 DEF TaskCallOn
  <1>3. ASSUME NEW t \in Task, NEW s \in Session, SweepStart(t, s) PROVE TokenOK'
    BY <1>3, <1>0 DEF SweepStart, Cas, TokenOK, HeldOK, Held, Listed, Stable, IsRoot, TypeOK,
       LocalsOK, Present, Active, ActiveSt, Terminal, store, tasks
  <1>4. CASE UNCHANGED <<store, admission, live, token, terminal, tasks>>
    BY <1>4, <1>0 DEF tasks, Cas, TokenOK, HeldOK, Held, Listed, Stable, IsRoot, TypeOK,
       LocalsOK, Present, Active, ActiveSt, Terminal, store, tasks
  <1>5. CASE Restart
    BY <1>5, <1>0 DEF Restart, Cas, TokenOK, HeldOK, Held, Listed, Stable, IsRoot, TypeOK,
       LocalsOK, Present, Active, ActiveSt, Terminal, store, tasks
  <1>6. \/ \E t \in Task : TaskStep(t) \/ TaskCall(t)
        \/ \E t \in Task, s \in Session : SweepStart(t, s)
        \/ UNCHANGED <<store, admission, live, token, terminal, tasks>>
        \/ Restart
    BY WaitingStep
  <1> QED
    BY <1>1, <1>2, <1>3, <1>4, <1>5, <1>6 DEF TaskCall

\* Every step keeps the executor of a cancelled run told, or about to be.
LEMMA FiresStep ==
  ASSUME TreeInv, HeldOK, TokenOK, CancelledTokenFires,
         [Next]_vars
  PROVE  CancelledTokenFires'
  <1>0. TypeOK /\ LocalsOK /\ Stable /\ None \notin Run /\ None \notin Task
    BY StoreStep, SetsAssumption DEF TreeInv, TypeInv
  <1>1. ASSUME NEW t \in Task, TaskStep(t) PROVE CancelledTokenFires'
    <2>1. CASE ActivatePersistedPrimary(t)
      <3>1. /\ pc[t] = "activate" /\ status' = status /\ row' = row /\ cur[t] \in Run
            /\ \A r \in Run : token'[r] # token[r] => r = cur[t]
            /\ \A u \in Task : pc'[u] # pc[u] \/ cur'[u] # cur[u] => u = t
        BY <2>1, <1>0 DEF ActivatePersistedPrimary, store, TypeOK, LocalsOK
      <3>2. status[cur[t]] # "cancelled"
        BY <3>1 DEF HeldOK, Held, TokenOK, Active, ActiveSt
      <3> QED
        BY <3>1, <3>2 DEF CancelledTokenFires
    <2>2. CASE Insert(t)
      BY <2>2, <1>0 DEF Insert, Cas, TokenOK, HeldOK, Held, Listed, Stable, IsRoot, TypeOK,
         LocalsOK, Present, ActiveSt, Terminal, store, tasks, CancelledTokenFires
    <2>3. CASE Register(t)
      <3>1. /\ pc[t] = "register" /\ status' = status /\ row' = row /\ cur[t] \in Run
            /\ \A r \in Run : token'[r] # token[r] => r = cur[t]
            /\ \A u \in Task : pc'[u] # pc[u] \/ cur'[u] # cur[u] => u = t
        BY <2>3, <1>0 DEF Register, store, TypeOK, LocalsOK
      <3>2. status[cur[t]] # "cancelled"
        BY <3>1 DEF HeldOK, Held, TokenOK, Active, ActiveSt
      <3> QED
        BY <3>1, <3>2 DEF CancelledTokenFires
    <2>4. CASE Unlive(t)
      BY <2>4, <1>0 DEF Unlive, Cas, TokenOK, HeldOK, Held, Listed, Stable, IsRoot, TypeOK,
         LocalsOK, Present, ActiveSt, Terminal, store, tasks, CancelledTokenFires
    <2>5. CASE Record(t)
      BY <2>5, <1>0 DEF Record, Cas, TokenOK, HeldOK, Held, Listed, Stable, IsRoot, TypeOK,
         LocalsOK, Present, ActiveSt, Terminal, store, tasks, CancelledTokenFires
    <2>6. CASE Announce(t)
      BY <2>6, <1>0 DEF Announce, Cas, TokenOK, HeldOK, Held, Listed, Stable, IsRoot, TypeOK,
         LocalsOK, Present, ActiveSt, Terminal, store, tasks, CancelledTokenFires
    <2>7. ASSUME NEW r \in Run, CancelStep(t, r) PROVE CancelledTokenFires'
      BY <2>7, <1>0 DEF CancelStep, Cas, TokenOK, HeldOK, Held, Listed, Stable, IsRoot, TypeOK,
         LocalsOK, Present, ActiveSt, Terminal, store, tasks, CancelledTokenFires
    <2>8. CASE Kill(t)
      BY <2>8, <1>0 DEF Kill, Cas, TokenOK, HeldOK, Held, Listed, Stable, IsRoot, TypeOK,
         LocalsOK, Present, ActiveSt, Terminal, store, tasks, CancelledTokenFires
    <2>9. CASE CancelDone(t)
      BY <2>9, <1>0 DEF CancelDone, Cas, TokenOK, HeldOK, Held, Listed, Stable, IsRoot, TypeOK,
         LocalsOK, Present, ActiveSt, Terminal, store, tasks, CancelledTokenFires
    <2>10. ASSUME NEW r \in Run, SweepRoot(t, r) PROVE CancelledTokenFires'
      BY <2>10, <1>0 DEF SweepRoot, Cas, TokenOK, HeldOK, Held, Listed, Stable, IsRoot, TypeOK,
         LocalsOK, Present, ActiveSt, Terminal, store, tasks, CancelledTokenFires
    <2>11. CASE StopRoot(t)
      BY <2>11, <1>0 DEF StopRoot, Cas, TokenOK, HeldOK, Held, Listed, Stable, IsRoot, TypeOK,
         LocalsOK, Present, ActiveSt, Terminal, store, tasks, CancelledTokenFires
    <2>12. CASE SweepDone(t)
      BY <2>12, <1>0 DEF SweepDone, Cas, TokenOK, HeldOK, Held, Listed, Stable, IsRoot, TypeOK,
         LocalsOK, Present, ActiveSt, Terminal, store, tasks, CancelledTokenFires
    <2> QED
      BY <1>1, <2>1, <2>2, <2>3, <2>4, <2>5, <2>6, <2>7, <2>8, <2>9, <2>10, <2>11, <2>12
         DEF TaskStep
  <1>2. ASSUME NEW t \in Task, NEW r \in Run, TaskCallOn(t, r) PROVE CancelledTokenFires'
    <2>1. ASSUME NEW s \in Session, NEW a \in Agent, InsertOwned(t, r, s, a)
          PROVE CancelledTokenFires'
      BY <2>1, <1>0 DEF InsertOwned, Cas, TokenOK, HeldOK, Held, Listed, Stable, IsRoot, TypeOK,
         LocalsOK, Present, ActiveSt, Terminal, store, tasks, CancelledTokenFires
    <2>2. ASSUME NEW s \in Session, NEW a \in Agent, BeginPrimary(t, r, s, a)
          PROVE CancelledTokenFires'
      BY <2>2, <1>0 DEF BeginPrimary, Admit, Cas, TokenOK, HeldOK, Held, Listed, Stable, IsRoot,
         TypeOK, LocalsOK, Present, ActiveSt, Terminal, store, tasks, CancelledTokenFires
    <2>3. ASSUME NEW p \in Run, NEW a \in Agent, QueueMain(t, r, p, a) PROVE CancelledTokenFires'
      BY <2>3, <1>0 DEF QueueMain, Admit, Cas, TokenOK, HeldOK, Held, Listed, Stable, IsRoot,
         TypeOK, LocalsOK, Present, ActiveSt, Terminal, store, tasks, CancelledTokenFires
    <2>4. ASSUME NEW p \in Run, QueueSubagent(t, r, p) PROVE CancelledTokenFires'
      BY <2>4, <1>0 DEF QueueSubagent, Admit, Cas, TokenOK, HeldOK, Held, Listed, Stable,
         IsRoot, TypeOK, LocalsOK, Present, ActiveSt, Terminal, store, tasks,
         CancelledTokenFires
    <2>5. ASSUME NEW p \in Run, RetryChild(t, r, p) PROVE CancelledTokenFires'
      BY <2>5, <1>0 DEF RetryChild, Admit, Cas, TokenOK, HeldOK, Held, Listed, Stable, IsRoot,
         TypeOK, LocalsOK, Present, ActiveSt, Terminal, store, tasks, CancelledTokenFires
    <2>6. CASE MarkRunning(t, r)
      BY <2>6, <1>0 DEF MarkRunning, Cas, TokenOK, HeldOK, Held, Listed, Stable, IsRoot, TypeOK,
         LocalsOK, Present, ActiveSt, Terminal, store, tasks, CancelledTokenFires
    <2>7. ASSUME NEW to \in {"completed", "failed", "interrupted"}, Finish(t, r, to)
          PROVE CancelledTokenFires'
      BY <2>7, <1>0 DEF Finish, Cas, TokenOK, HeldOK, Held, Listed, Stable, IsRoot, TypeOK,
         LocalsOK, Present, ActiveSt, Terminal, store, tasks, CancelledTokenFires
    <2>8. CASE CancelChild(t, r)
      BY <2>8, <1>0 DEF CancelChild, Cas, TokenOK, HeldOK, Held, Listed, Stable, IsRoot, TypeOK,
         LocalsOK, Present, ActiveSt, Terminal, store, tasks, CancelledTokenFires
    <2> QED
      BY <1>2, <2>1, <2>2, <2>3, <2>4, <2>5, <2>6, <2>7, <2>8 DEF TaskCallOn
  <1>3. ASSUME NEW t \in Task, NEW s \in Session, SweepStart(t, s) PROVE CancelledTokenFires'
    BY <1>3, <1>0 DEF SweepStart, Cas, TokenOK, HeldOK, Held, Listed, Stable, IsRoot, TypeOK,
       LocalsOK, Present, ActiveSt, Terminal, store, tasks, CancelledTokenFires
  <1>4. CASE UNCHANGED <<store, admission, live, token, terminal, tasks>>
    BY <1>4, <1>0 DEF tasks, Cas, TokenOK, HeldOK, Held, Listed, Stable, IsRoot, TypeOK,
       LocalsOK, Present, ActiveSt, Terminal, store, tasks, CancelledTokenFires
  <1>5. CASE Restart
    BY <1>5, <1>0 DEF Restart, Cas, TokenOK, HeldOK, Held, Listed, Stable, IsRoot, TypeOK,
       LocalsOK, Present, ActiveSt, Terminal, store, tasks, CancelledTokenFires
  <1>6. \/ \E t \in Task : TaskStep(t) \/ TaskCall(t)
        \/ \E t \in Task, s \in Session : SweepStart(t, s)
        \/ UNCHANGED <<store, admission, live, token, terminal, tasks>>
        \/ Restart
    BY WaitingStep
  <1> QED
    BY <1>1, <1>2, <1>3, <1>4, <1>5, <1>6 DEF TaskCall

\* Every step keeps finished children out of the live map, or about to leave it.
LEMMA LiveStep ==
  ASSUME TreeInv, HeldOK, TokenOK, LiveChildIsActive,
         [Next]_vars
  PROVE  LiveChildIsActive'
  <1>0. TypeOK /\ LocalsOK /\ Stable /\ None \notin Run /\ None \notin Task
    BY StoreStep, SetsAssumption DEF TreeInv, TypeInv
  <1>1. ASSUME NEW t \in Task, TaskStep(t) PROVE LiveChildIsActive'
    <2>1. CASE ActivatePersistedPrimary(t)
      BY <2>1, <1>0 DEF ActivatePersistedPrimary, Cas, TokenOK, HeldOK, Held, Listed, Stable,
         IsRoot, TypeOK, LocalsOK, Present, ActiveSt, Terminal, store, tasks, LiveChildIsActive
    <2>2. CASE Insert(t)
      BY <2>2, <1>0 DEF Insert, Cas, TokenOK, HeldOK, Held, Listed, Stable, IsRoot, TypeOK,
         LocalsOK, Present, ActiveSt, Terminal, store, tasks, LiveChildIsActive
    <2>3. CASE Register(t)
      <3>1. /\ pc[t] = "register" /\ status' = status /\ row' = row /\ cur[t] \in Run
            /\ live' = live \cup {cur[t]}
            /\ \A u \in Task : pc'[u] # pc[u] \/ cur'[u] # cur[u] => u = t
        BY <2>3, <1>0 DEF Register, store, TypeOK, LocalsOK
      <3>2. IsRoot(cur[t]) \/ status[cur[t]] \notin Terminal
        BY <3>1 DEF HeldOK, Held, Active, ActiveSt, Terminal
      <3> QED
        BY <3>1, <3>2 DEF LiveChildIsActive, IsRoot
    <2>4. CASE Unlive(t)
      BY <2>4, <1>0 DEF Unlive, Cas, TokenOK, HeldOK, Held, Listed, Stable, IsRoot, TypeOK,
         LocalsOK, Present, ActiveSt, Terminal, store, tasks, LiveChildIsActive
    <2>5. CASE Record(t)
      BY <2>5, <1>0 DEF Record, Cas, TokenOK, HeldOK, Held, Listed, Stable, IsRoot, TypeOK,
         LocalsOK, Present, ActiveSt, Terminal, store, tasks, LiveChildIsActive
    <2>6. CASE Announce(t)
      BY <2>6, <1>0 DEF Announce, Cas, TokenOK, HeldOK, Held, Listed, Stable, IsRoot, TypeOK,
         LocalsOK, Present, ActiveSt, Terminal, store, tasks, LiveChildIsActive
    <2>7. ASSUME NEW r \in Run, CancelStep(t, r) PROVE LiveChildIsActive'
      BY <2>7, <1>0 DEF CancelStep, Cas, TokenOK, HeldOK, Held, Listed, Stable, IsRoot, TypeOK,
         LocalsOK, Present, ActiveSt, Terminal, store, tasks, LiveChildIsActive
    <2>8. CASE Kill(t)
      BY <2>8, <1>0 DEF Kill, Cas, TokenOK, HeldOK, Held, Listed, Stable, IsRoot, TypeOK,
         LocalsOK, Present, ActiveSt, Terminal, store, tasks, LiveChildIsActive
    <2>9. CASE CancelDone(t)
      BY <2>9, <1>0 DEF CancelDone, Cas, TokenOK, HeldOK, Held, Listed, Stable, IsRoot, TypeOK,
         LocalsOK, Present, ActiveSt, Terminal, store, tasks, LiveChildIsActive
    <2>10. ASSUME NEW r \in Run, SweepRoot(t, r) PROVE LiveChildIsActive'
      BY <2>10, <1>0 DEF SweepRoot, Cas, TokenOK, HeldOK, Held, Listed, Stable, IsRoot, TypeOK,
         LocalsOK, Present, ActiveSt, Terminal, store, tasks, LiveChildIsActive
    <2>11. CASE StopRoot(t)
      BY <2>11, <1>0 DEF StopRoot, Cas, TokenOK, HeldOK, Held, Listed, Stable, IsRoot, TypeOK,
         LocalsOK, Present, ActiveSt, Terminal, store, tasks, LiveChildIsActive
    <2>12. CASE SweepDone(t)
      BY <2>12, <1>0 DEF SweepDone, Cas, TokenOK, HeldOK, Held, Listed, Stable, IsRoot, TypeOK,
         LocalsOK, Present, ActiveSt, Terminal, store, tasks, LiveChildIsActive
    <2> QED
      BY <1>1, <2>1, <2>2, <2>3, <2>4, <2>5, <2>6, <2>7, <2>8, <2>9, <2>10, <2>11, <2>12
         DEF TaskStep
  <1>2. ASSUME NEW t \in Task, NEW r \in Run, TaskCallOn(t, r) PROVE LiveChildIsActive'
    <2>1. ASSUME NEW s \in Session, NEW a \in Agent, InsertOwned(t, r, s, a)
          PROVE LiveChildIsActive'
      BY <2>1, <1>0 DEF InsertOwned, Cas, TokenOK, HeldOK, Held, Listed, Stable, IsRoot, TypeOK,
         LocalsOK, Present, ActiveSt, Terminal, store, tasks, LiveChildIsActive
    <2>2. ASSUME NEW s \in Session, NEW a \in Agent, BeginPrimary(t, r, s, a)
          PROVE LiveChildIsActive'
      BY <2>2, <1>0 DEF BeginPrimary, Admit, Cas, TokenOK, HeldOK, Held, Listed, Stable, IsRoot,
         TypeOK, LocalsOK, Present, ActiveSt, Terminal, store, tasks, LiveChildIsActive
    <2>3. ASSUME NEW p \in Run, NEW a \in Agent, QueueMain(t, r, p, a) PROVE LiveChildIsActive'
      BY <2>3, <1>0 DEF QueueMain, Admit, Cas, TokenOK, HeldOK, Held, Listed, Stable, IsRoot,
         TypeOK, LocalsOK, Present, ActiveSt, Terminal, store, tasks, LiveChildIsActive
    <2>4. ASSUME NEW p \in Run, QueueSubagent(t, r, p) PROVE LiveChildIsActive'
      BY <2>4, <1>0 DEF QueueSubagent, Admit, Cas, TokenOK, HeldOK, Held, Listed, Stable,
         IsRoot, TypeOK, LocalsOK, Present, ActiveSt, Terminal, store, tasks, LiveChildIsActive
    <2>5. ASSUME NEW p \in Run, RetryChild(t, r, p) PROVE LiveChildIsActive'
      BY <2>5, <1>0 DEF RetryChild, Admit, Cas, TokenOK, HeldOK, Held, Listed, Stable, IsRoot,
         TypeOK, LocalsOK, Present, ActiveSt, Terminal, store, tasks, LiveChildIsActive
    <2>6. CASE MarkRunning(t, r)
      BY <2>6, <1>0 DEF MarkRunning, Cas, TokenOK, HeldOK, Held, Listed, Stable, IsRoot, TypeOK,
         LocalsOK, Present, ActiveSt, Terminal, store, tasks, LiveChildIsActive
    <2>7. ASSUME NEW to \in {"completed", "failed", "interrupted"}, Finish(t, r, to)
          PROVE LiveChildIsActive'
      BY <2>7, <1>0 DEF Finish, Cas, TokenOK, HeldOK, Held, Listed, Stable, IsRoot, TypeOK,
         LocalsOK, Present, ActiveSt, Terminal, store, tasks, LiveChildIsActive
    <2>8. CASE CancelChild(t, r)
      BY <2>8, <1>0 DEF CancelChild, Cas, TokenOK, HeldOK, Held, Listed, Stable, IsRoot, TypeOK,
         LocalsOK, Present, ActiveSt, Terminal, store, tasks, LiveChildIsActive
    <2> QED
      BY <1>2, <2>1, <2>2, <2>3, <2>4, <2>5, <2>6, <2>7, <2>8 DEF TaskCallOn
  <1>3. ASSUME NEW t \in Task, NEW s \in Session, SweepStart(t, s) PROVE LiveChildIsActive'
    BY <1>3, <1>0 DEF SweepStart, Cas, TokenOK, HeldOK, Held, Listed, Stable, IsRoot, TypeOK,
       LocalsOK, Present, ActiveSt, Terminal, store, tasks, LiveChildIsActive
  <1>4. CASE UNCHANGED <<store, admission, live, token, terminal, tasks>>
    BY <1>4, <1>0 DEF tasks, Cas, TokenOK, HeldOK, Held, Listed, Stable, IsRoot, TypeOK,
       LocalsOK, Present, ActiveSt, Terminal, store, tasks, LiveChildIsActive
  <1>5. CASE Restart
    BY <1>5, <1>0 DEF Restart, Cas, TokenOK, HeldOK, Held, Listed, Stable, IsRoot, TypeOK,
       LocalsOK, Present, ActiveSt, Terminal, store, tasks, LiveChildIsActive
  <1>6. \/ \E t \in Task : TaskStep(t) \/ TaskCall(t)
        \/ \E t \in Task, s \in Session : SweepStart(t, s)
        \/ UNCHANGED <<store, admission, live, token, terminal, tasks>>
        \/ Restart
    BY WaitingStep
  <1> QED
    BY <1>1, <1>2, <1>3, <1>4, <1>5, <1>6 DEF TaskCall

\* A step that inserts nothing makes no run active below another; a root that
\* is inserted is below none.
LEMMA BelowShrinks ==
  ASSUME TreeInv, Stable, NEW x \in Present,
         \A r \in Present' : r \in Present \/ row'[r].anc = {r}
  PROVE  ActiveBelow(x)' \subseteq ActiveBelow(x)
  <1> SUFFICES ASSUME NEW d \in ActiveBelow(x)' PROVE d \in ActiveBelow(x)
    OBVIOUS
  <1>1. d \in Present' /\ x \in row'[d].anc /\ d # x /\ d \in Active'
    BY DEF ActiveBelow, Descendants
  <1>2. d \in Present
    BY <1>1
  <1> QED
    BY <1>1, <1>2 DEF Stable, ActiveBelow, Descendants

\* Every step keeps a cancellation complete: what is active below its target is on
\* its list, because nobody else inserts while it holds the mutex.
LEMMA ListStep ==
  ASSUME TreeInv, HeldOK, ListOK,
         [Next]_vars
  PROVE  ListOK'
  <1>0. TypeOK /\ LocalsOK /\ Stable /\ None \notin Run /\ None \notin Task
    BY StoreStep, SetsAssumption DEF TreeInv, TypeInv
  <1>1. ASSUME NEW t \in Task, TaskStep(t) PROVE ListOK'
    <2>1. CASE ActivatePersistedPrimary(t)
      BY <2>1, <1>0 DEF ActivatePersistedPrimary, Cas, ListOK, HeldOK, Held, Listed, TypeOK,
         LocalsOK, Cancelling, store, tasks, Descendants, ActiveBelow, Active, Present
    <2>2. CASE Insert(t)
      BY <2>2, <1>0 DEF Insert, Cas, ListOK, HeldOK, Held, Listed, TypeOK, LocalsOK, Cancelling,
         store, tasks, Descendants, ActiveBelow, Active, Present
    <2>3. CASE Register(t)
      BY <2>3, <1>0 DEF Register, Cas, ListOK, HeldOK, Held, Listed, TypeOK, LocalsOK,
         Cancelling, store, tasks, Descendants, ActiveBelow, Active, Present
    <2>4. CASE Unlive(t)
      BY <2>4, <1>0 DEF Unlive, Cas, ListOK, HeldOK, Held, Listed, TypeOK, LocalsOK, Cancelling,
         store, tasks, Descendants, ActiveBelow, Active, Present
    <2>5. CASE Record(t)
      BY <2>5, <1>0 DEF Record, Cas, ListOK, HeldOK, Held, Listed, TypeOK, LocalsOK, Cancelling,
         store, tasks, Descendants, ActiveBelow, Active, Present
    <2>6. CASE Announce(t)
      BY <2>6, <1>0 DEF Announce, Cas, ListOK, HeldOK, Held, Listed, TypeOK, LocalsOK,
         Cancelling, store, tasks, Descendants, ActiveBelow, Active, Present
    <2>7. ASSUME NEW r \in Run, CancelStep(t, r) PROVE ListOK'
      <3>1. /\ admission' = admission /\ admission = t /\ pc[t] = "cancel"
            /\ target' = target /\ row' = row /\ target[t] \in Present
            /\ todo' = [todo EXCEPT ![t] = todo[t] \ {r}]
        BY <2>7, <1>0 DEF CancelStep, LocalsOK, HeldOK, Held, Listed
      <3>2. Present' = Present /\ Active' \subseteq Active \ {r}
        BY <2>7, <1>0 DEF CancelStep, Cas, TypeOK, Present, Active, ActiveSt, Terminal
      <3>3. ActiveBelow(target[t]) \subseteq todo[t]
        BY <3>1 DEF ListOK, Cancelling
      <3>4. ActiveBelow(target[t])' \subseteq ActiveBelow(target[t]) \ {r}
        BY <3>1, <3>2 DEF ActiveBelow, Descendants
      <3> QED
        BY <1>0, <3>1, <3>3, <3>4 DEF ListOK, Cancelling, TypeOK
    <2>8. CASE Kill(t)
      BY <2>8, <1>0 DEF Kill, Cas, ListOK, HeldOK, Held, Listed, TypeOK, LocalsOK, Cancelling,
         store, tasks, Descendants, ActiveBelow, Active, Present
    <2>9. CASE CancelDone(t)
      BY <2>9, <1>0 DEF CancelDone, Cas, ListOK, HeldOK, Held, Listed, TypeOK, LocalsOK,
         Cancelling, store, tasks, Descendants, ActiveBelow, Active, Present
    <2>10. ASSUME NEW r \in Run, SweepRoot(t, r) PROVE ListOK'
      BY <2>10, <1>0 DEF SweepRoot, Cas, ListOK, HeldOK, Held, Listed, TypeOK, LocalsOK,
         Cancelling, store, tasks, Descendants, ActiveBelow, Active, Present
    <2>11. CASE StopRoot(t)
      BY <2>11, <1>0 DEF StopRoot, Cas, ListOK, HeldOK, Held, Listed, TypeOK, LocalsOK,
         Cancelling, store, tasks, Descendants, ActiveBelow, Active, Present
    <2>12. CASE SweepDone(t)
      BY <2>12, <1>0 DEF SweepDone, Cas, ListOK, HeldOK, Held, Listed, TypeOK, LocalsOK,
         Cancelling, store, tasks, Descendants, ActiveBelow, Active, Present
    <2> QED
      BY <1>1, <2>1, <2>2, <2>3, <2>4, <2>5, <2>6, <2>7, <2>8, <2>9, <2>10, <2>11, <2>12
         DEF TaskStep
  <1>2. ASSUME NEW t \in Task, NEW r \in Run, TaskCallOn(t, r) PROVE ListOK'
    <2>1. ASSUME NEW s \in Session, NEW a \in Agent, InsertOwned(t, r, s, a) PROVE ListOK'
      BY <2>1, <1>0 DEF InsertOwned, Cas, ListOK, HeldOK, Held, Listed, TypeOK, LocalsOK,
         Cancelling, store, tasks, Descendants, ActiveBelow, Active, Present
    <2>2. ASSUME NEW s \in Session, NEW a \in Agent, BeginPrimary(t, r, s, a) PROVE ListOK'
      BY <2>2, <1>0 DEF BeginPrimary, Admit, Cas, ListOK, HeldOK, Held, Listed, TypeOK,
         LocalsOK, Cancelling, store, tasks, Descendants, ActiveBelow, Active, Present
    <2>3. ASSUME NEW p \in Run, NEW a \in Agent, QueueMain(t, r, p, a) PROVE ListOK'
      BY <2>3, <1>0 DEF QueueMain, Admit, Cas, ListOK, HeldOK, Held, Listed, TypeOK, LocalsOK,
         Cancelling, store, tasks, Descendants, ActiveBelow, Active, Present
    <2>4. ASSUME NEW p \in Run, QueueSubagent(t, r, p) PROVE ListOK'
      BY <2>4, <1>0 DEF QueueSubagent, Admit, Cas, ListOK, HeldOK, Held, Listed, TypeOK,
         LocalsOK, Cancelling, store, tasks, Descendants, ActiveBelow, Active, Present
    <2>5. ASSUME NEW p \in Run, RetryChild(t, r, p) PROVE ListOK'
      BY <2>5, <1>0 DEF RetryChild, Admit, Cas, ListOK, HeldOK, Held, Listed, TypeOK, LocalsOK,
         Cancelling, store, tasks, Descendants, ActiveBelow, Active, Present
    <2>6. CASE MarkRunning(t, r)
      BY <2>6, <1>0 DEF MarkRunning, Cas, ListOK, HeldOK, Held, Listed, TypeOK, LocalsOK,
         Cancelling, store, tasks, Descendants, ActiveBelow, Active, Present
    <2>7. ASSUME NEW to \in {"completed", "failed", "interrupted"}, Finish(t, r, to) PROVE ListOK'
      <3>1. /\ admission' = admission /\ target' = target /\ row' = row /\ todo' = todo
            /\ \A u \in Task : u # t => pc'[u] = pc[u]
            /\ pc'[t] = "unlive"
        BY <2>7, <1>0 DEF Finish, TypeOK
      <3>2. Present' = Present /\ Active' \subseteq Active
        BY <2>7, <1>0 DEF Finish, Cas, TypeOK, Present, Active, ActiveSt, Terminal
      <3>3. \A u \in Task : ActiveBelow(target[u])' \subseteq ActiveBelow(target[u])
        BY <3>1, <3>2 DEF ActiveBelow, Descendants
      <3> QED
        BY <3>1, <3>3 DEF ListOK, Cancelling
    <2>8. CASE CancelChild(t, r)
      BY <2>8, <1>0 DEF CancelChild, Cas, ListOK, HeldOK, Held, Listed, TypeOK, LocalsOK,
         Cancelling, store, tasks, Descendants, ActiveBelow, Active, Present
    <2> QED
      BY <1>2, <2>1, <2>2, <2>3, <2>4, <2>5, <2>6, <2>7, <2>8 DEF TaskCallOn
  <1>3. ASSUME NEW t \in Task, NEW s \in Session, SweepStart(t, s) PROVE ListOK'
    BY <1>3, <1>0 DEF SweepStart, Cas, ListOK, HeldOK, Held, Listed, TypeOK, LocalsOK,
       Cancelling, store, tasks, Descendants, ActiveBelow, Active, Present
  <1>4. CASE UNCHANGED <<store, admission, live, token, terminal, tasks>>
    BY <1>4, <1>0 DEF tasks, Cas, ListOK, HeldOK, Held, Listed, TypeOK, LocalsOK, Cancelling,
       store, tasks, Descendants, ActiveBelow, Active, Present
  <1>5. CASE Restart
    BY <1>5, <1>0 DEF Restart, Cas, ListOK, HeldOK, Held, Listed, TypeOK, LocalsOK, Cancelling,
       store, tasks, Descendants, ActiveBelow, Active, Present
  <1>6. \/ \E t \in Task : TaskStep(t) \/ TaskCall(t)
        \/ \E t \in Task, s \in Session : SweepStart(t, s)
        \/ UNCHANGED <<store, admission, live, token, terminal, tasks>>
        \/ Restart
    BY WaitingStep
  <1> QED
    BY <1>1, <1>2, <1>3, <1>4, <1>5, <1>6 DEF TaskCall

\* A fresh table has nothing to cancel.
LEMMA CancelInit == Init => CancelInv
  <1> SUFFICES ASSUME Init PROVE CancelInv
    OBVIOUS
  <1>1. ListOK /\ HeldOK /\ TokenOK /\ CancelledTokenFires /\ LiveChildIsActive
    BY SetsAssumption
    DEF Init, ListOK, HeldOK, Held, Listed, TokenOK, CancelledTokenFires, LiveChildIsActive,
        Cancelling, Present
  <1> QED
    BY <1>1, TreeInit DEF CancelInv

(* Every step keeps what the cancellations need. *)
LEMMA CancelStepOK == CancelInv /\ [Next]_vars => CancelInv'
  BY TreeStep, ListStep, HeldStep, TokenStep, FiresStep, LiveStep DEF CancelInv

\* A cancellation reaches everything below its target, fires the token of every
\* run it ends, and leaves no finished child in the live map, whoever admits,
\* finishes or registers runs meanwhile (cancel_child, cancel_descendants_of_root).
THEOREM CancellationIsComplete == Spec => []CancellationInv
  <1>1. CancelInv => CancellationInv
    <2> SUFFICES ASSUME CancelInv PROVE CancelIsComplete
      BY DEF CancelInv, CancellationInv
    <2> SUFFICES ASSUME NEW t \in Task, pc[t] = "cancel", todo[t] = {}
                 PROVE  Descendants(target[t]) \cap Active = {}
      BY DEF CancelIsComplete
    <2>1. Cancelling(t)
      BY DEF CancelInv, TreeInv, TypeInv, LocalsOK, Cancelling
    <2> QED
      BY <2>1 DEF CancelInv, ListOK, ActiveBelow
  <1> QED
    BY <1>1, CancelInit, CancelStepOK, PTL DEF Spec

-----------------------------------------------------------------------------
(* The sweep of a session.                                                 *)

\* Every step keeps the sweeps on the way to every run they saw below a root.
LEMMA SweepStep ==
  ASSUME CancelInv, SweepOK,
         [Next]_vars
  PROVE  SweepOK'
  <1>0. HeldOK /\ TypeOK /\ LocalsOK /\ Stable /\ None \notin Run /\ None \notin Task
    BY StoreStep, SetsAssumption DEF CancelInv, TreeInv, TypeInv
  <1>1. ASSUME NEW t \in Task, TaskStep(t) PROVE SweepOK'
    <2>1. CASE ActivatePersistedPrimary(t)
      BY <2>1, <1>0 DEF ActivatePersistedPrimary, OnTheWay, Cas, SweepOK, HeldOK, Held, Listed,
         TypeOK, LocalsOK, Stable, Cancelling, IsRoot, store, tasks, Descendants, Active,
         Present
    <2>2. CASE Insert(t)
      <3> SUFFICES ASSUME NEW u \in Task, NEW x \in seen'[u], NEW y \in row'[x].anc \cap seen'[u],
                          IsRoot(y)', x \in Active'
                   PROVE  OnTheWay(u, x, y)'
        BY DEF SweepOK
      <3>1. seen' = seen
        BY <2>2 DEF Insert
      <3>2. /\ x \in Present /\ y \in Present /\ row'[x] = row[x]
            /\ IsRoot(y) /\ x \in Active
        BY <1>0, <3>1 DEF HeldOK, Held, Listed, Stable, IsRoot
      <3>3. OnTheWay(u, x, y)
        BY <3>1, <3>2 DEF SweepOK
      <3> QED
        BY <2>2, <1>0, <3>3 DEF Insert, OnTheWay, Cancelling, TypeOK
    <2>3. CASE Register(t)
      BY <2>3, <1>0 DEF Register, OnTheWay, Cas, SweepOK, HeldOK, Held, Listed, TypeOK,
         LocalsOK, Stable, Cancelling, IsRoot, store, tasks, Descendants, Active, Present
    <2>4. CASE Unlive(t)
      BY <2>4, <1>0 DEF Unlive, OnTheWay, Cas, SweepOK, HeldOK, Held, Listed, TypeOK, LocalsOK,
         Stable, Cancelling, IsRoot, store, tasks, Descendants, Active, Present
    <2>5. CASE Record(t)
      BY <2>5, <1>0 DEF Record, OnTheWay, Cas, SweepOK, HeldOK, Held, Listed, TypeOK, LocalsOK,
         Stable, Cancelling, IsRoot, store, tasks, Descendants, Active, Present
    <2>6. CASE Announce(t)
      BY <2>6, <1>0 DEF Announce, OnTheWay, Cas, SweepOK, HeldOK, Held, Listed, TypeOK,
         LocalsOK, Stable, Cancelling, IsRoot, store, tasks, Descendants, Active, Present
    <2>7. ASSUME NEW r \in Run, CancelStep(t, r) PROVE SweepOK'
      <3> SUFFICES ASSUME NEW u \in Task, NEW x \in seen'[u], NEW y \in row'[x].anc \cap seen'[u],
                          IsRoot(y)', x \in Active'
                   PROVE  OnTheWay(u, x, y)'
        BY DEF SweepOK
      <3>1. seen' = seen
        BY <2>7 DEF CancelStep
      <3>2. /\ x \in Present /\ y \in Present /\ row'[x] = row[x]
            /\ IsRoot(y) /\ x \in Active
        BY <1>0, <3>1 DEF HeldOK, Held, Listed, Stable, IsRoot
      <3>3. OnTheWay(u, x, y)
        BY <3>1, <3>2 DEF SweepOK
      <3>4. /\ x # r \/ x \notin todo[t]
            /\ UNCHANGED <<roots, target, admission>>
            /\ todo' = [todo EXCEPT ![t] = todo[t] \ {r}]
            /\ pc[t] = "cancel" /\ pc'[t] \in {"cancel", "kill"}
            /\ \A v \in Task : v # t => pc'[v] = pc[v]
        <4>1. r \notin Active'
          BY <2>7, <1>0 DEF CancelStep, Cas, TypeOK, Active, ActiveSt
        <4> QED
          BY <2>7, <1>0, <4>1 DEF CancelStep, TypeOK
      <3> QED
        BY <1>0, <3>3, <3>4 DEF OnTheWay, Cancelling, TypeOK
    <2>8. CASE Kill(t)
      BY <2>8, <1>0 DEF Kill, OnTheWay, Cas, SweepOK, HeldOK, Held, Listed, TypeOK, LocalsOK,
         Stable, Cancelling, IsRoot, store, tasks, Descendants, Active, Present
    <2>9. CASE CancelDone(t)
      BY <2>9, <1>0 DEF CancelDone, OnTheWay, Cas, SweepOK, HeldOK, Held, Listed, TypeOK,
         LocalsOK, Stable, Cancelling, IsRoot, store, tasks, Descendants, Active, Present
    <2>10. ASSUME NEW r \in Run, SweepRoot(t, r) PROVE SweepOK'
      <3> SUFFICES ASSUME NEW u \in Task, NEW x \in seen'[u], NEW y \in row'[x].anc \cap seen'[u],
                          IsRoot(y)', x \in Active'
                   PROVE  OnTheWay(u, x, y)'
        BY DEF SweepOK
      <3>1. seen' = seen
        BY <2>10 DEF SweepRoot
      <3>2. /\ x \in Present /\ y \in Present /\ row'[x] = row[x]
            /\ IsRoot(y) /\ x \in Active
        BY <1>0, <3>1 DEF HeldOK, Held, Listed, Stable, IsRoot
      <3>3. OnTheWay(u, x, y)
        BY <3>1, <3>2 DEF SweepOK
      <3>4. /\ roots' = [roots EXCEPT ![t] = roots[t] \ {r}]
            /\ target' = [target EXCEPT ![t] = r]
            /\ todo' = [todo EXCEPT ![t] = Descendants(r)]
            /\ pc' = [pc EXCEPT ![t] = "cancel"] /\ pc[t] = "sweep"
            /\ admission = None /\ admission' = t
        BY <2>10 DEF SweepRoot
      <3>5. CASE u # t
        BY <1>0, <3>3, <3>4, <3>5 DEF OnTheWay, Cancelling, TypeOK
      <3>6. CASE u = t
        <4>1. y \in roots[t]
          BY <1>0, <3>3, <3>4, <3>6 DEF OnTheWay, Cancelling
        <4>2. x \in Descendants(y) \/ x = y
          BY <3>2 DEF Descendants
        <4>3. /\ roots'[t] = roots[t] \ {r} /\ target'[t] = r /\ todo'[t] = Descendants(r)
              /\ Cancelling(t)'
          BY <1>0, <3>4 DEF TypeOK, Cancelling
        <4> QED
          BY <3>6, <4>1, <4>2, <4>3 DEF OnTheWay
      <3> QED
        BY <3>5, <3>6
    <2>11. CASE StopRoot(t)
      <3> SUFFICES ASSUME NEW u \in Task, NEW x \in seen'[u], NEW y \in row'[x].anc \cap seen'[u],
                          IsRoot(y)', x \in Active'
                   PROVE  OnTheWay(u, x, y)'
        BY DEF SweepOK
      <3>1. seen' = seen
        BY <2>11 DEF StopRoot
      <3>2. /\ x \in Present /\ y \in Present /\ row'[x] = row[x]
            /\ IsRoot(y) /\ x \in Active
        BY <1>0, <3>1 DEF HeldOK, Held, Listed, Stable, IsRoot
      <3>3. OnTheWay(u, x, y)
        BY <3>1, <3>2 DEF SweepOK
      <3>4. /\ UNCHANGED <<roots, target, admission, todo>>
            /\ pc[t] = "stopRoot" /\ pc'[t] \notin {"cancel", "kill", "record", "announce"}
            /\ \A v \in Task : v # t => pc'[v] = pc[v]
        BY <2>11, <1>0 DEF StopRoot, TypeOK
      <3>5. target[t] \notin Active'
        BY <2>11, <1>0 DEF StopRoot, Cas, TypeOK, LocalsOK, Active, ActiveSt
      <3> QED
        BY <3>3, <3>4, <3>5 DEF OnTheWay, Cancelling
    <2>12. CASE SweepDone(t)
      BY <2>12, <1>0 DEF SweepDone, OnTheWay, Cas, SweepOK, HeldOK, Held, Listed, TypeOK,
         LocalsOK, Stable, Cancelling, IsRoot, store, tasks, Descendants, Active, Present
    <2> QED
      BY <1>1, <2>1, <2>2, <2>3, <2>4, <2>5, <2>6, <2>7, <2>8, <2>9, <2>10, <2>11, <2>12
         DEF TaskStep
  <1>2. ASSUME NEW t \in Task, NEW r \in Run, TaskCallOn(t, r) PROVE SweepOK'
    <2>1. ASSUME NEW s \in Session, NEW a \in Agent, InsertOwned(t, r, s, a) PROVE SweepOK'
      <3> SUFFICES ASSUME NEW u \in Task, NEW x \in seen'[u], NEW y \in row'[x].anc \cap seen'[u],
                          IsRoot(y)', x \in Active'
                   PROVE  OnTheWay(u, x, y)'
        BY DEF SweepOK
      <3>1. seen' = seen
        BY <2>1 DEF InsertOwned
      <3>2. /\ x \in Present /\ y \in Present /\ row'[x] = row[x]
            /\ IsRoot(y) /\ x \in Active
        BY <1>0, <3>1 DEF HeldOK, Held, Listed, Stable, IsRoot
      <3>3. OnTheWay(u, x, y)
        BY <3>1, <3>2 DEF SweepOK
      <3> QED
        BY <2>1, <1>0, <3>3 DEF InsertOwned, OnTheWay, Cancelling, TypeOK
    <2>2. ASSUME NEW s \in Session, NEW a \in Agent, BeginPrimary(t, r, s, a) PROVE SweepOK'
      BY <2>2, <1>0 DEF BeginPrimary, Admit, OnTheWay, Cas, SweepOK, HeldOK, Held, Listed,
         TypeOK, LocalsOK, Stable, Cancelling, IsRoot, store, tasks, Descendants, Active,
         Present
    <2>3. ASSUME NEW p \in Run, NEW a \in Agent, QueueMain(t, r, p, a) PROVE SweepOK'
      BY <2>3, <1>0 DEF QueueMain, Admit, OnTheWay, Cas, SweepOK, HeldOK, Held, Listed, TypeOK,
         LocalsOK, Stable, Cancelling, IsRoot, store, tasks, Descendants, Active, Present
    <2>4. ASSUME NEW p \in Run, QueueSubagent(t, r, p) PROVE SweepOK'
      BY <2>4, <1>0 DEF QueueSubagent, Admit, OnTheWay, Cas, SweepOK, HeldOK, Held, Listed,
         TypeOK, LocalsOK, Stable, Cancelling, IsRoot, store, tasks, Descendants, Active,
         Present
    <2>5. ASSUME NEW p \in Run, RetryChild(t, r, p) PROVE SweepOK'
      BY <2>5, <1>0 DEF RetryChild, Admit, OnTheWay, Cas, SweepOK, HeldOK, Held, Listed, TypeOK,
         LocalsOK, Stable, Cancelling, IsRoot, store, tasks, Descendants, Active, Present
    <2>6. CASE MarkRunning(t, r)
      BY <2>6, <1>0 DEF MarkRunning, OnTheWay, Cas, SweepOK, HeldOK, Held, Listed, TypeOK,
         LocalsOK, Stable, Cancelling, IsRoot, store, tasks, Descendants, Active, Present
    <2>7. ASSUME NEW to \in {"completed", "failed", "interrupted"}, Finish(t, r, to) PROVE SweepOK'
      BY <2>7, <1>0 DEF Finish, OnTheWay, Cas, SweepOK, HeldOK, Held, Listed, TypeOK, LocalsOK,
         Stable, Cancelling, IsRoot, store, tasks, Descendants, Active, Present
    <2>8. CASE CancelChild(t, r)
      BY <2>8, <1>0 DEF CancelChild, OnTheWay, Cas, SweepOK, HeldOK, Held, Listed, TypeOK,
         LocalsOK, Stable, Cancelling, IsRoot, store, tasks, Descendants, Active, Present
    <2> QED
      BY <1>2, <2>1, <2>2, <2>3, <2>4, <2>5, <2>6, <2>7, <2>8 DEF TaskCallOn
  <1>3. ASSUME NEW t \in Task, NEW s \in Session, SweepStart(t, s) PROVE SweepOK'
    BY <1>3, <1>0 DEF SweepStart, OnTheWay, Cas, SweepOK, HeldOK, Held, Listed, TypeOK,
       LocalsOK, Stable, Cancelling, IsRoot, store, tasks, Descendants, Active, Present
  <1>4. CASE UNCHANGED <<store, admission, live, token, terminal, tasks>>
    BY <1>4, <1>0 DEF tasks, OnTheWay, Cas, SweepOK, HeldOK, Held, Listed, TypeOK, LocalsOK,
       Stable, Cancelling, IsRoot, store, tasks, Descendants, Active, Present
  <1>5. CASE Restart
    BY <1>5, <1>0 DEF Restart, OnTheWay, Cas, SweepOK, HeldOK, Held, Listed, TypeOK, LocalsOK,
       Stable, Cancelling, IsRoot, store, tasks, Descendants, Active, Present
  <1>6. \/ \E t \in Task : TaskStep(t) \/ TaskCall(t)
        \/ \E t \in Task, s \in Session : SweepStart(t, s)
        \/ UNCHANGED <<store, admission, live, token, terminal, tasks>>
        \/ Restart
    BY WaitingStep
  <1> QED
    BY <1>1, <1>2, <1>3, <1>4, <1>5, <1>6 DEF TaskCall

\* When a sweep has gone through its roots, every run it found active below a root
\* it found active has ended (stop_session and end_session with
\* cancel_descendants_of_root), whatever the runs did meanwhile.
THEOREM SweepsAreComplete == Spec => []SweepCancelsListedTrees
  <1>1. CancelInv /\ SweepOK => SweepCancelsListedTrees
    <2> SUFFICES ASSUME CancelInv, SweepOK, NEW t \in Task, pc[t] = "sweep", roots[t] = {},
                        NEW r \in seen[t], NEW root \in row[r].anc \cap seen[t], IsRoot(root),
                        r \in Active
                 PROVE  FALSE
      BY DEF SweepCancelsListedTrees
    <2>1. OnTheWay(t, r, root)
      BY DEF SweepOK
    <2> QED
      BY <2>1 DEF OnTheWay, Cancelling
  <1>2. Init => SweepOK
    BY DEF Init, SweepOK
  <1> QED
    BY <1>1, <1>2, CancelInit, CancelStepOK, SweepStep, PTL DEF Spec
=============================================================================

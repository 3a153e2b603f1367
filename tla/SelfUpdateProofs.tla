-------------------------- MODULE SelfUpdateProofs --------------------------
(* Proofs about SelfUpdate: a rollback stays possible through every fault,  *)
(* and a canary takes over only as the installed release.                  *)
EXTENDS SelfUpdate, FiniteSetTheorems, TLAPS

-----------------------------------------------------------------------------
(* The inductive invariant.                                                *)

Started(p) == proc[p].st # "none"

\* The canary has been spawned, and the update is neither done nor undone.
HasCanary == update.step \in {"health", "drain", "swap", "signal", "stop", "watch", "restore"}

ProcType == [Pid -> [st : State, ver : Version \cup {None}]]

\* A process runs a release.
ProcInv == \A p \in Pid : Started(p) => proc[p].ver \in Version

\* Who takes part in the update.
PartiesInv ==
  /\ update.step # "idle" => update.by \in Pid /\ Started(update.by)
  /\ HasCanary => update.canary \in Pid /\ Started(update.canary)

\* Where the two releases of an update are: the old one at the install path
\* until the backup, the new one staged until the swap and installed from there
\* to the rollback.
BinariesInv ==
  /\ update.step \in {"spawn", "health", "drain"} => bin = proc[update.by].ver
  /\ update.step = "spawn" => stage \in Version
  /\ update.step \in {"health", "drain", "swap"} => stage = proc[update.canary].ver
  /\ update.step \in {"signal", "stop", "watch", "restore"} => bin = proc[update.canary].ver

\* The process ids an update may still need.
ReserveInv ==
  /\ update.step = "spawn" => \E p, q \in Free : p # q
  /\ HasCanary \/ update.step = "respawn" => Free # {}

\* Whose signal update.json can hold: none between the verdict and the signal,
\* only the canary's from then on; and a rollback kills before it restores.
SignalInv ==
  /\ update.step \in {"drain", "swap", "signal"} => ~Says("promote")
  /\ update.step \in {"stop", "watch", "restore"} /\ Says("promote") =>
       handoff.pid = update.canary
  /\ update.step = "restore" => proc[update.canary].st \notin {"spawned", "probing", "waiting"}
  /\ \A q \in Pid : Says("promote") /\ handoff.pid = q /\ proc[q].st = "waiting" =>
       bin = proc[q].ver

BaseInv == TypeOK /\ ProcInv /\ PartiesInv /\ ReserveInv

IInv == BaseInv /\ BinariesInv /\ RollbackIsPossible /\ SignalInv

\* What every step keeps of a process that has started.
Keeps ==
  \A p \in Pid : Started(p) => /\ proc'[p].st # "none"
                               /\ proc'[p].ver = proc[p].ver

ProcStep == proc' \in ProcType /\ ProcInv' /\ Keeps

-----------------------------------------------------------------------------
(* Processes.                                                              *)

(* A process that has started may go to any other step of its program. *)
LEMMA GoesStep ==
  ASSUME proc \in ProcType, ProcInv, NEW p \in Pid, Started(p),
         NEW st \in State \ {"none"}, Goes(p, st)
  PROVE  /\ ProcStep /\ Free' = Free
         /\ proc'[p].st = st
         /\ \A q \in Pid : q # p => proc'[q] = proc[q]
BY DEF ProcType, ProcInv, Started, Goes, ProcStep, Keeps, Free

(* SIGTERM starts no process, and leaves none in the canary's handshake. *)
LEMMA TerminatedStep ==
  ASSUME proc \in ProcType, ProcInv, NEW p \in Pid, proc' = Terminated(p)
  PROVE  /\ ProcStep /\ Free' = Free
         /\ proc'[p].st \notin {"spawned", "probing", "waiting"}
         /\ \A q \in Pid : q # p => proc'[q] = proc[q]
<1>1. PICK st \in State : /\ proc' = [proc EXCEPT ![p].st = st]
                          /\ st \notin {"spawned", "probing", "waiting"}
                          /\ st = "none" <=> proc[p].st = "none"
  <2> DEFINE st == CASE proc[p].st \in {"serving", "stopped", "published", "live"} -> "closing"
                     [] proc[p].st \in {"none", "dead", "closing"} -> proc[p].st
                     [] OTHER -> "dead"
  <2>1. proc' = [proc EXCEPT ![p].st = st]
    BY DEF Terminated
  <2>2. proc[p].st \in State
    BY DEF ProcType
  <2>3. CASE proc[p].st \in {"serving", "stopped", "published", "live"}
    <3>1. st = "closing"
      BY <2>3
    <3> QED BY <2>1, <2>3, <3>1 DEF State
  <2>4. CASE proc[p].st \in {"none", "dead", "closing"}
    <3>1. st = proc[p].st
      BY <2>4
    <3> HIDE DEF st
    <3> QED BY <2>1, <2>2, <2>4, <3>1 DEF State
  <2>5. CASE proc[p].st \notin {"serving", "stopped", "published", "live",
                                "none", "dead", "closing"}
    <3>1. st = "dead"
      BY <2>5
    <3> QED BY <2>1, <2>5, <3>1 DEF State
  <2> HIDE DEF st
  <2> QED BY <2>3, <2>4, <2>5
<1>2. proc'[p].st = st /\ proc'[p].ver = proc[p].ver /\ proc'[p] \in [st : State, ver : Version \cup {None}]
  BY <1>1 DEF ProcType
<1>3. \A q \in Pid : q # p => proc'[q] = proc[q]
  BY <1>1 DEF ProcType
<1>4. proc' \in ProcType
  BY <1>1 DEF ProcType
<1>5. ProcInv' /\ Keeps /\ Free' = Free
  BY <1>1, <1>2, <1>3 DEF ProcInv, Keeps, Free, Started
<1> QED BY <1>1, <1>2, <1>3, <1>4, <1>5 DEF ProcStep

(* A spawn takes an id that was free, and nobody else's. *)
LEMMA SpawnedStep ==
  ASSUME proc \in ProcType, ProcInv, Free # {},
         NEW st \in State \ {"none"}, NEW ver \in Version, proc' = Spawned(st, ver)
  PROVE  /\ ProcStep
         /\ Fresh \in Free /\ Free' = Free \ {Fresh}
         /\ proc'[Fresh] = [st |-> st, ver |-> ver]
         /\ \A q \in Pid : q # Fresh => proc'[q] = proc[q]
<1>1. Fresh \in Pid /\ proc[Fresh].st = "none"
  BY DEF Free, Fresh
<1> HIDE DEF Fresh
<1>2. /\ proc'[Fresh] = [st |-> st, ver |-> ver]
      /\ \A q \in Pid : q # Fresh => proc'[q] = proc[q]
      /\ proc' \in ProcType
  BY <1>1 DEF Spawned, ProcType
<1>3. ProcInv' /\ Keeps
  BY <1>1, <1>2 DEF ProcInv, Keeps, Started
<1>4. Free' = Free \ {Fresh} /\ Fresh \in Free
  BY <1>1, <1>2 DEF Free
<1> QED BY <1>2, <1>3, <1>4 DEF ProcStep

(* A finite set of more than one element has two. *)
LEMMA TwoOfMany ==
  ASSUME NEW S, IsFiniteSet(S), Cardinality(S) >= 2
  PROVE  \E a, b \in S : a # b
<1>1. S # {}
  BY FS_EmptySet
<1>2. PICK a \in S : TRUE
  BY <1>1
<1>3. IsFiniteSet(S \ {a}) /\ Cardinality(S \ {a}) = Cardinality(S) - 1
  BY <1>2, FS_RemoveElement
<1>4. S \ {a} # {}
  <2>1. Cardinality(S) \in Nat
    BY FS_CardinalityType
  <2> QED BY <1>3, <2>1, FS_EmptySet
<1> QED BY <1>2, <1>4

(* Enough free ids are two, and still two after one more has been taken. *)
LEMMA EnoughFree ==
  /\ Cardinality(Free) >= Reserve => \E p, q \in Free : p # q
  /\ Cardinality(Free) > Reserve =>
       /\ Free # {}
       /\ \A r \in Free : \E p, q \in Free \ {r} : p # q
<1>1. IsFiniteSet(Free)
  BY SelfUpdateAssumption, FS_Subset DEF Free
<1>2. Cardinality(Free) \in Nat
  BY <1>1, FS_CardinalityType
<1>3. ASSUME Cardinality(Free) >= Reserve
      PROVE  \E p, q \in Free : p # q
  BY <1>1, <1>3, TwoOfMany DEF Reserve
<1>4. ASSUME Cardinality(Free) > Reserve, NEW r \in Free
      PROVE  \E p, q \in Free \ {r} : p # q
  <2>1. IsFiniteSet(Free \ {r}) /\ Cardinality(Free \ {r}) = Cardinality(Free) - 1
    BY <1>1, FS_RemoveElement
  <2>2. Cardinality(Free \ {r}) >= 2
    BY <1>2, <1>4, <2>1 DEF Reserve
  <2> QED BY <2>1, <2>2, TwoOfMany
<1>5. Cardinality(Free) > Reserve => Free # {}
  BY <1>2, <1>3 DEF Reserve
<1> QED BY <1>3, <1>4, <1>5


-----------------------------------------------------------------------------
(* Steps on processes.                                                     *)

\* Only the three spawns take an id: the canary's, the one a rollback respawns,
\* and a daemon that leaves two.
FreeStep ==
  \/ Free' = Free
  \/ /\ update.step = "spawn" /\ update'.step = "health"
     /\ Fresh \in Free /\ Free' = Free \ {Fresh}
     /\ proc'[Fresh] = [st |-> "spawned", ver |-> stage]
  \/ update.step = "respawn" /\ update'.step = "exit"
  \/ update' = update /\ \E p, q \in Free' : p # q

(* A step that leaves the processes alone. *)
LEMMA SameProcesses ==
  ASSUME proc \in ProcType, ProcInv, proc' = proc
  PROVE  ProcStep /\ Free' = Free
BY DEF ProcType, ProcInv, Started, ProcStep, Keeps, Free

(* A process that exits stays started. *)
LEMMA ExitsStep ==
  ASSUME proc \in ProcType, ProcInv, NEW p \in Pid, Started(p), Exits(p)
  PROVE  ProcStep /\ Free' = Free
BY GoesStep DEF Exits, State

(* What any step does to the processes: none forgets its release. *)
LEMMA ProcessesStep ==
  ASSUME BaseInv, BinariesInv, RollbackIsPossible, [Next]_vars
  PROVE  ProcStep /\ FreeStep
<1> DEFINE Goal == ProcStep /\ (Free' = Free \/ FreeStep)
<1> SUFFICES Goal
  BY DEF FreeStep
<1>t. TypeOK /\ proc \in ProcType /\ ProcInv
  BY DEF BaseInv, TypeOK, ProcType
<1>i. update.step # "idle" => update.by \in Pid /\ Started(update.by)
  BY DEF BaseInv, PartiesInv
<1>c. HasCanary => update.canary \in Pid
  BY DEF BaseInv, PartiesInv
<1>b. /\ update.step = "spawn" => Free # {} /\ stage \in Version
      /\ update.step = "respawn" => Free # {} /\ bin \in Version
  BY <1>t, <1>i DEF BaseInv, ReserveInv, BinariesInv, RollbackIsPossible, ProcInv
<1> USE <1>t DEF Applying, HasCanary
<1> HIDE DEF Goal
<1>s. CASE UNCHANGED vars
  BY <1>s, SameProcesses DEF vars, Goal
<1>1. CASE SpawnCanary
  <2>1. CASE UNCHANGED proc
    BY <2>1, SameProcesses DEF Goal
  <2>2. CASE proc' = Spawned("spawned", stage) /\ update' = [update EXCEPT !.step = "health", !.canary = Fresh]
    <3>1. update'.step = "health"
      BY <2>2, <1>t DEF TypeOK
    <3> QED BY <1>1, <2>2, <3>1, <1>b, SpawnedStep DEF SpawnCanary, Goal, State, FreeStep
  <2> QED BY <1>1, <2>1, <2>2 DEF SpawnCanary
<1>2. CASE AwaitHealthy
  BY <1>2, SameProcesses DEF AwaitHealthy, Goal
<1>3. CASE Abort
  BY <1>3, TerminatedStep, <1>c DEF Abort, Goal
<1>4. CASE Backup
  <2>1. CASE FailApply
    BY <1>4, <2>1, ExitsStep, <1>i DEF Backup, FailApply, Goal
  <2>2. CASE UNCHANGED proc
    BY <2>2, SameProcesses DEF Goal
  <2> QED BY <1>4, <2>1, <2>2 DEF Backup
<1>5. CASE Swap
  <2>1. CASE FailApply
    BY <1>5, <2>1, ExitsStep, <1>i DEF Swap, FailApply, Goal
  <2>2. CASE UNCHANGED proc
    BY <2>2, SameProcesses DEF Goal
  <2> QED BY <1>5, <2>1, <2>2 DEF Swap
<1>6. CASE Signal
  BY <1>6, SameProcesses DEF Signal, Goal
<1>7. CASE StopOld
  BY <1>7, GoesStep, <1>i DEF StopOld, Goal, State
<1>8. CASE HandOver
  BY <1>8, ExitsStep, <1>i DEF HandOver, Goal
<1>9. CASE RollBack
  BY <1>9, TerminatedStep, <1>c DEF RollBack, Goal
<1>10. CASE Restore
  <2>1. CASE FailApply
    BY <1>10, <2>1, ExitsStep, <1>i DEF Restore, FailApply, Goal
  <2>2. CASE UNCHANGED proc
    BY <2>2, SameProcesses DEF Goal
  <2> QED BY <1>10, <2>1, <2>2 DEF Restore
<1>11. CASE Respawn
  <2>1. CASE UNCHANGED proc
    BY <2>1, SameProcesses DEF Goal
  <2>2. CASE proc' = Spawned("boot", bin)
    <3>1. update'.step = "exit"
      BY <1>11, <1>t DEF Respawn, To, TypeOK
    <3> QED BY <1>11, <2>2, <3>1, <1>b, SpawnedStep DEF Respawn, Goal, State, FreeStep
  <2> QED BY <1>11, <2>1, <2>2 DEF Respawn
<1>12. CASE ExitOld
  BY <1>12, ExitsStep, <1>i DEF ExitOld, Goal
<1>13. CASE PowerLoss
  <2>1. \A p \in Pid : /\ proc'[p].ver = proc[p].ver
                       /\ proc'[p].st \in {proc[p].st, "dead"}
                       /\ proc'[p].st = "none" <=> proc[p].st = "none"
    BY <1>13 DEF PowerLoss, Alive, ProcType
  <2>2. proc' \in ProcType
    BY <1>13 DEF PowerLoss, Alive, ProcType, State
  <2>3. Free' = Free
    BY <2>1 DEF Free
  <2> QED BY <2>1, <2>2, <2>3 DEF Goal, ProcStep, ProcInv, Keeps, Started
<1>14. CASE StartDaemon
  <2>1. Free # {} /\ bin \in Version
    BY <1>14, EnoughFree, <1>t DEF StartDaemon, TypeOK
  <2>2. ProcStep /\ Fresh \in Free /\ Free' = Free \ {Fresh}
    BY <1>14, <2>1, SpawnedStep DEF StartDaemon, State
  <2> QED BY <1>14, <2>2, EnoughFree DEF StartDaemon, Goal, FreeStep
<1>15. ASSUME NEW p \in Pid, TakeLock(p) PROVE Goal
  <2>1. PICK st \in State \ {"none"} : Goes(p, st)
    BY <1>15 DEF TakeLock, State
  <2> QED BY <1>15, <2>1, GoesStep DEF TakeLock, Goal, Started
<1>16. ASSUME NEW p \in Pid, Connect(p) PROVE Goal
  <2>1. CASE Exits(p)
    BY <1>16, <2>1, ExitsStep DEF Connect, Goal, Started
  <2>2. CASE Goes(p, "serving")
    BY <1>16, <2>2, GoesStep DEF Connect, Goal, Started, State
  <2> QED BY <1>16, <2>1, <2>2 DEF Connect
<1>17. ASSUME NEW p \in Pid, Close(p) PROVE Goal
  BY <1>17, ExitsStep DEF Close, Goal, Started
<1>18. ASSUME NEW p \in Pid, Shutdown(p) PROVE Goal
  BY <1>18, TerminatedStep DEF Shutdown, Goal
<1>19. ASSUME NEW p \in Pid, Stage(p) PROVE Goal
  BY <1>19, SameProcesses DEF Stage, Goal
<1>20. ASSUME NEW p \in Pid, Probe(p) PROVE Goal
  <2>1. PICK st \in State \ {"none"} : Goes(p, st)
    BY <1>20 DEF Probe, State
  <2> QED BY <1>20, <2>1, GoesStep DEF Probe, Goal, Started
<1>21. ASSUME NEW p \in Pid, Probed(p) PROVE Goal
  <2>1. PICK st \in State \ {"none"} : Goes(p, st)
    BY <1>21 DEF Probed, State
  <2> QED BY <1>21, <2>1, GoesStep DEF Probed, Goal, Started
<1>22. ASSUME NEW p \in Pid, SeePromote(p) PROVE Goal
  <2>1. PICK st \in State \ {"none"} : Goes(p, st)
    BY <1>22 DEF SeePromote, State
  <2> QED BY <1>22, <2>1, GoesStep DEF SeePromote, Goal, Started
<1>23. ASSUME NEW p \in Pid, PromoteTimeout(p) PROVE Goal
  <2>1. PICK st \in State \ {"none"} : Goes(p, st)
    BY <1>23 DEF PromoteTimeout, State
  <2> QED BY <1>23, <2>1, GoesStep DEF PromoteTimeout, Goal, Started
<1>24. ASSUME NEW p \in Pid, Promote(p) PROVE Goal
  <2>1. PICK st \in State \ {"none"} : Goes(p, st)
    BY <1>24 DEF Promote, State
  <2> QED BY <1>24, <2>1, GoesStep DEF Promote, Goal, Started
<1>25. ASSUME NEW p \in Pid, Promoted(p) PROVE Goal
  <2>1. PICK st \in State \ {"none"} : Goes(p, st)
    BY <1>25 DEF Promoted, State
  <2> QED BY <1>25, <2>1, GoesStep DEF Promoted, Goal, Started
<1>26. ASSUME NEW p \in Pid, LateLock(p) PROVE Goal
  BY <1>26, SameProcesses DEF LateLock, Goal
<1>27. ASSUME NEW p \in Pid, Kill(p) PROVE Goal
  BY <1>27, ExitsStep DEF Kill, Alive, Goal, Started
<1> QED BY <1>1, <1>2, <1>3, <1>4, <1>5, <1>6, <1>7, <1>8, <1>9, <1>10, <1>11, <1>12, <1>13,
   <1>14, <1>15, <1>16, <1>17, <1>18, <1>19, <1>20, <1>21, <1>22, <1>23, <1>24, <1>25, <1>26,
   <1>27, <1>s
  DEF Next, Applier, Daemon, Canary

(* Type correctness, for what a step does to the other variables. *)
LEMMA TypeStep ==
  ASSUME BaseInv, ProcStep, FreeStep, [Next]_vars
  PROVE  TypeOK'
<1> DEFINE UpdateType == [by : Pid \cup {None}, step : Step, canary : Pid \cup {None}]
           HandoffType == [phase : Phase, pid : Pid] \cup {None}
           StatusType == [pid : Pid, state : {"connecting", "running", "error"}] \cup {None}
           Goal == /\ update' \in UpdateType
                   /\ handoff' \in HandoffType
                   /\ status' \in StatusType
                   /\ lock' \in Pid \cup {None}
                   /\ {bin', bak', stage'} \subseteq Version \cup {None}
                   /\ kills' \in 0 .. MaxKills
                   /\ errors' \in 0 .. MaxErrors
<1> SUFFICES Goal
  BY DEF TypeOK, ProcStep, ProcType
<1>t. /\ update \in UpdateType /\ handoff \in HandoffType /\ status \in StatusType
      /\ lock \in Pid \cup {None}
      /\ bin \in Version \cup {None} /\ bak \in Version \cup {None} /\ stage \in Version \cup {None}
      /\ kills \in Nat /\ kills <= MaxKills /\ errors \in Nat /\ errors <= MaxErrors
      /\ MaxKills \in Nat /\ MaxErrors \in Nat
  BY SelfUpdateAssumption DEF BaseInv, TypeOK
<1>n. NoUpdate \in UpdateType
  BY DEF NoUpdate, Step
<1>i. /\ update.step # "idle" => update.by \in Pid
      /\ HasCanary => update.canary \in Pid
  BY DEF BaseInv, PartiesInv
<1>u. \A s \in Step : [update EXCEPT !.step = s] \in UpdateType
  BY <1>t
<1> USE <1>t DEF Applying, disk, Errs, NoErr
<1>s. CASE UNCHANGED vars
  BY <1>s DEF vars
<1>1. CASE SpawnCanary
  <2>1. Fresh \in Pid
    BY <1>1 DEF SpawnCanary, Fresh, BaseInv, ReserveInv, Free
  <2> HIDE DEF Fresh
  <2>2. [update EXCEPT !.step = "health", !.canary = Fresh] \in UpdateType
    BY <2>1 DEF Step
  <2>3. update' \in UpdateType
    BY <1>1, <1>n, <2>2 DEF SpawnCanary
  <2>4. errors' \in 0 .. MaxErrors
    BY <1>1 DEF SpawnCanary
  <2> QED BY <1>1, <2>3, <2>4 DEF SpawnCanary
<1>2. CASE AwaitHealthy
  BY <1>2, <1>u, <1>n DEF AwaitHealthy, To, Step
<1>3. CASE Abort
  BY <1>3, <1>n DEF Abort
<1>4. CASE Backup
  BY <1>4, <1>u, <1>n, <1>i DEF Backup, To, Step, FailApply, Exits, Unlocked
<1>5. CASE Swap
  BY <1>5, <1>u, <1>n, <1>i DEF Swap, To, Step, FailApply, Exits, Unlocked
<1>6. CASE Signal
  BY <1>6, <1>u, <1>n, <1>i DEF Signal, To, Step, HasCanary, Phase
<1>7. CASE StopOld
  BY <1>7, <1>u, <1>n DEF StopOld, To, Step
<1>8. CASE HandOver
  BY <1>8, <1>n, <1>i DEF HandOver, Exits, Unlocked
<1>9. CASE RollBack
  BY <1>9, <1>u, <1>n DEF RollBack, To, Step
<1>10. CASE Restore
  BY <1>10, <1>u, <1>n, <1>i DEF Restore, To, Step, FailApply, Exits, Unlocked
<1>11. CASE Respawn
  BY <1>11, <1>u, <1>n DEF Respawn, To, Step
<1>12. CASE ExitOld
  BY <1>12, <1>n, <1>i DEF ExitOld, Exits, Unlocked
<1>13. CASE PowerLoss
  BY <1>13, <1>n DEF PowerLoss
<1>14. CASE StartDaemon
  BY <1>14 DEF StartDaemon
<1>15. ASSUME NEW p \in Pid, TakeLock(p) PROVE Goal
  BY <1>15 DEF TakeLock
<1>16. ASSUME NEW p \in Pid, Connect(p) PROVE Goal
  BY <1>16 DEF Connect, Exits, Unlocked
<1>17. ASSUME NEW p \in Pid, Close(p) PROVE Goal
  BY <1>17, <1>n DEF Close, Exits, Unlocked
<1>18. ASSUME NEW p \in Pid, Shutdown(p) PROVE Goal
  BY <1>18, <1>n DEF Shutdown
<1>19. ASSUME NEW p \in Pid, Stage(p) PROVE Goal
  BY <1>19 DEF Stage, Step
<1>20. ASSUME NEW p \in Pid, Probe(p) PROVE Goal
  BY <1>20 DEF Probe, Writes, Phase
<1>21. ASSUME NEW p \in Pid, Probed(p) PROVE Goal
  BY <1>21 DEF Probed, Writes, Phase
<1>22. ASSUME NEW p \in Pid, SeePromote(p) PROVE Goal
  BY <1>22 DEF SeePromote
<1>23. ASSUME NEW p \in Pid, PromoteTimeout(p) PROVE Goal
  BY <1>23 DEF PromoteTimeout, Writes, Phase
<1>24. ASSUME NEW p \in Pid, Promote(p) PROVE Goal
  BY <1>24 DEF Promote, Writes, Phase
<1>25. ASSUME NEW p \in Pid, Promoted(p) PROVE Goal
  BY <1>25 DEF Promoted, Writes, Phase
<1>26. ASSUME NEW p \in Pid, LateLock(p) PROVE Goal
  BY <1>26 DEF LateLock
<1>27. ASSUME NEW p \in Pid, Kill(p) PROVE Goal
  BY <1>27, <1>n DEF Kill, Exits, Unlocked
<1> HIDE DEF UpdateType, HandoffType, StatusType, Goal
<1> QED BY <1>1, <1>2, <1>3, <1>4, <1>5, <1>6, <1>7, <1>8, <1>9, <1>10, <1>11, <1>12, <1>13,
   <1>14, <1>15, <1>16, <1>17, <1>18, <1>19, <1>20, <1>21, <1>22, <1>23, <1>24, <1>25, <1>26,
   <1>27, <1>s
  DEF Next, Applier, Daemon, Canary

-----------------------------------------------------------------------------
(* Steps of the update.                                                    *)

\* The step an update is at, for the ids it still needs.
Needs ==
  /\ update'.step = "spawn" => update.step = "spawn" \/ \E p, q \in Free : p # q
  /\ HasCanary' \/ update'.step = "respawn" =>
       HasCanary \/ update.step \in {"spawn", "respawn"}

(* Who takes part in an update, and which ids it needs, in each step. *)
LEMMA UpdateStep ==
  ASSUME BaseInv, ProcStep, FreeStep, [Next]_vars
  PROVE  PartiesInv' /\ Needs
<1> DEFINE Goal == PartiesInv' /\ Needs
<1> SUFFICES Goal
  OBVIOUS
<1>t. update \in [by : Pid \cup {None}, step : Step, canary : Pid \cup {None}]
  BY DEF BaseInv, TypeOK
<1>i. /\ update.step # "idle" => update.by \in Pid /\ Started(update.by)
      /\ HasCanary => update.canary \in Pid /\ Started(update.canary)
  BY DEF BaseInv, PartiesInv
<1>k. \A p \in Pid : Started(p) => Started(p)'
  BY DEF ProcStep, Keeps, Started
<1>n. NoUpdate.step = "idle"
  BY DEF NoUpdate
<1>e. update' = NoUpdate => Goal
  BY <1>n DEF PartiesInv, Needs, HasCanary
<1>h. ASSUME update'.by = update.by, update'.canary = update.canary,
             update.step # "idle",
             HasCanary' => HasCanary, update'.step # "spawn",
             update'.step = "respawn" => HasCanary \/ update.step = "respawn"
      PROVE  Goal
  BY <1>h, <1>i, <1>k DEF PartiesInv, Needs
<1>u. update' = update => Goal
  <2> SUFFICES ASSUME update' = update PROVE Goal
    OBVIOUS
  <2>1. PartiesInv'
    BY <1>i, <1>k DEF PartiesInv, HasCanary
  <2> QED BY <2>1 DEF Needs, HasCanary
<1> HIDE DEF Goal
<1>s. CASE UNCHANGED vars
  BY <1>s, <1>u DEF vars
<1>1. CASE SpawnCanary
  <2>1. CASE update' = NoUpdate
    BY <2>1, <1>e
  <2>2. CASE update' = [update EXCEPT !.step = "health", !.canary = Fresh] /\ proc' = Spawned("spawned", stage)
    <3>1. PICK c \in Pid : c = Fresh /\ proc[c].st = "none"
      BY <1>1 DEF SpawnCanary, Applying, Fresh, BaseInv, ReserveInv, Free
    <3> HIDE DEF Fresh
    <3>2. Started(c)'
      BY <2>2, <3>1 DEF Spawned, BaseInv, TypeOK, Started
    <3>3. update'.by = update.by /\ update'.step = "health" /\ update'.canary = c
      BY <2>2, <3>1, <1>t
    <3>4. update.step = "spawn"
      BY <1>1 DEF SpawnCanary, Applying
    <3>5. PartiesInv'
      BY <3>2, <3>3, <3>4, <1>i, <1>k DEF PartiesInv
    <3> QED BY <3>3, <3>4, <3>5 DEF Goal, Needs, HasCanary
  <2> QED BY <1>1, <2>1, <2>2 DEF SpawnCanary
<1>2. CASE AwaitHealthy
  BY <1>2, <1>t, <1>h DEF AwaitHealthy, To, Applying, HasCanary
<1>3. CASE Abort
  BY <1>3, <1>e DEF Abort
<1>4. CASE Backup
  BY <1>4, <1>t, <1>h, <1>e DEF Backup, To, Applying, HasCanary, FailApply
<1>5. CASE Swap
  BY <1>5, <1>t, <1>h, <1>e DEF Swap, To, Applying, HasCanary, FailApply
<1>6. CASE Signal
  BY <1>6, <1>t, <1>h, <1>e DEF Signal, To, Applying, HasCanary
<1>7. CASE StopOld
  BY <1>7, <1>t, <1>h DEF StopOld, To, Applying, HasCanary
<1>8. CASE HandOver
  BY <1>8, <1>e DEF HandOver
<1>9. CASE RollBack
  BY <1>9, <1>t, <1>h DEF RollBack, To, Applying, HasCanary
<1>10. CASE Restore
  BY <1>10, <1>t, <1>h, <1>e DEF Restore, To, Applying, HasCanary, FailApply
<1>11. CASE Respawn
  BY <1>11, <1>t, <1>h DEF Respawn, To, Applying, HasCanary
<1>12. CASE ExitOld
  BY <1>12, <1>e DEF ExitOld
<1>13. CASE PowerLoss
  BY <1>13, <1>e DEF PowerLoss
<1>14. CASE StartDaemon
  BY <1>14, <1>u DEF StartDaemon
<1>15. ASSUME NEW p \in Pid, TakeLock(p) PROVE Goal
  BY <1>15, <1>u DEF TakeLock
<1>16. ASSUME NEW p \in Pid, Connect(p) PROVE Goal
  BY <1>16, <1>u DEF Connect
<1>17. ASSUME NEW p \in Pid, Close(p) PROVE Goal
  BY <1>17, <1>u, <1>e DEF Close
<1>18. ASSUME NEW p \in Pid, Shutdown(p) PROVE Goal
  BY <1>18, <1>u, <1>e DEF Shutdown
<1>19. ASSUME NEW p \in Pid, Stage(p) PROVE Goal
  <2>1. update'.by = p /\ update'.step = "spawn" /\ Started(p)
    BY <1>19 DEF Stage, Started
  <2>2. \E q, r \in Free : q # r
    BY <1>19, EnoughFree DEF Stage
  <2> QED BY <2>1, <2>2, <1>k DEF Goal, PartiesInv, Needs, HasCanary
<1>20. ASSUME NEW p \in Pid, Probe(p) PROVE Goal
  BY <1>20, <1>u DEF Probe
<1>21. ASSUME NEW p \in Pid, Probed(p) PROVE Goal
  BY <1>21, <1>u DEF Probed
<1>22. ASSUME NEW p \in Pid, SeePromote(p) PROVE Goal
  BY <1>22, <1>u DEF SeePromote
<1>23. ASSUME NEW p \in Pid, PromoteTimeout(p) PROVE Goal
  BY <1>23, <1>u DEF PromoteTimeout
<1>24. ASSUME NEW p \in Pid, Promote(p) PROVE Goal
  BY <1>24, <1>u DEF Promote
<1>25. ASSUME NEW p \in Pid, Promoted(p) PROVE Goal
  BY <1>25, <1>u DEF Promoted
<1>26. ASSUME NEW p \in Pid, LateLock(p) PROVE Goal
  BY <1>26, <1>u DEF LateLock
<1>27. ASSUME NEW p \in Pid, Kill(p) PROVE Goal
  BY <1>27, <1>u, <1>e DEF Kill
<1> QED BY <1>1, <1>2, <1>3, <1>4, <1>5, <1>6, <1>7, <1>8, <1>9, <1>10, <1>11, <1>12, <1>13,
   <1>14, <1>15, <1>16, <1>17, <1>18, <1>19, <1>20, <1>21, <1>22, <1>23, <1>24, <1>25, <1>26,
   <1>27, <1>s
  DEF Next, Applier, Daemon, Canary

(* The ids an update still needs stay free. *)
LEMMA ReserveStep ==
  ASSUME BaseInv, FreeStep, Needs
  PROVE  ReserveInv'
<1>1. /\ update.step = "spawn" => \E p, q \in Free : p # q
      /\ HasCanary \/ update.step = "respawn" => Free # {}
  BY DEF BaseInv, ReserveInv
<1>2. CASE Free' = Free
  BY <1>1, <1>2 DEF Needs, ReserveInv
<1>3. CASE update.step = "spawn" /\ update'.step = "health" /\ Free' = Free \ {Fresh}
  BY <1>1, <1>3 DEF ReserveInv
<1>4. CASE update.step = "respawn" /\ update'.step = "exit"
  BY <1>4 DEF ReserveInv, HasCanary
<1>5. CASE \E p, q \in Free' : p # q
  BY <1>5 DEF ReserveInv
<1> QED BY <1>2, <1>3, <1>4, <1>5 DEF FreeStep

(* Where the two releases are, in each step. *)
LEMMA BinariesStep ==
  ASSUME BaseInv, BinariesInv, RollbackIsPossible, ProcStep, FreeStep, [Next]_vars
  PROVE  BinariesInv' /\ RollbackIsPossible'
<1> DEFINE Goal == BinariesInv' /\ RollbackIsPossible'
<1> SUFFICES Goal
  OBVIOUS
<1>t. /\ update \in [by : Pid \cup {None}, step : Step, canary : Pid \cup {None}]
      /\ None \notin Version
  BY SelfUpdateAssumption DEF BaseInv, TypeOK, Version

<1>i. /\ update.step # "idle" => /\ proc[update.by].ver \in Version
                                 /\ proc'[update.by].ver = proc[update.by].ver
      /\ HasCanary => /\ proc[update.canary].ver \in Version
                      /\ proc'[update.canary].ver = proc[update.canary].ver
  BY DEF BaseInv, PartiesInv, ProcInv, ProcStep, Keeps
<1>b. BinariesInv /\ RollbackIsPossible
  OBVIOUS
<1>n. NoUpdate.step = "idle"
  BY DEF NoUpdate
<1>e. update' = NoUpdate /\ bin' = bin /\ bak' = bak => Goal
  BY <1>b, <1>n DEF BinariesInv, RollbackIsPossible
<1>h. ASSUME update'.by = update.by, update'.canary = update.canary,
             bin' = bin, bak' = bak, stage' = stage,
             \/ update'.step = update.step
             \/ update.step = "health" /\ update'.step = "drain"
             \/ update.step = "signal" /\ update'.step = "stop"
             \/ update.step = "stop" /\ update'.step = "watch"
             \/ update.step = "watch" /\ update'.step = "restore"
             \/ update.step = "respawn" /\ update'.step = "exit"
      PROVE  Goal
  <2>1. BinariesInv'
    BY <1>b, <1>i, <1>h DEF BinariesInv, HasCanary
  <2>2. RollbackIsPossible'
    BY <1>b, <1>i, <1>h DEF RollbackIsPossible
  <2> QED BY <2>1, <2>2
<1>u. update' = update /\ UNCHANGED disk => Goal
  BY <1>h DEF disk
<1> HIDE DEF Goal
<1> USE DEF disk
<1>s. CASE UNCHANGED vars
  BY <1>s, <1>u DEF vars
<1>1. CASE SpawnCanary
  <2>1. CASE update' = NoUpdate
    BY <1>1, <2>1, <1>e DEF SpawnCanary
  <2>2. CASE update' = [update EXCEPT !.step = "health", !.canary = Fresh]
    <3>1. update'.step = "health" /\ update'.canary = Fresh /\ update'.by = update.by
      BY <2>2, <1>t
    <3>2. proc'[Fresh].ver = stage
      <4>1. proc' = Spawned("spawned", stage) /\ update.step = "spawn"
        BY <1>1, <3>1, <1>n DEF SpawnCanary, Applying
      <4>2. proc \in ProcType /\ ProcInv /\ Free # {} /\ stage \in Version
        BY <4>1, <1>b DEF BinariesInv, BaseInv, TypeOK, ProcType, ReserveInv
      <4>3. proc'[Fresh] = [st |-> "spawned", ver |-> stage]
        BY <4>1, <4>2, SpawnedStep DEF State
      <4> QED BY <4>3
    <3>3. bin' = bin /\ bak' = bak /\ stage' = stage /\ update.step = "spawn"
      BY <1>1 DEF SpawnCanary, Applying
    <3> HIDE DEF Fresh
    <3>4. bin = proc[update.by].ver /\ bin \in Version
      BY <1>b, <1>i, <3>3 DEF BinariesInv
    <3> QED BY <3>1, <3>2, <3>3, <3>4, <1>i, <1>t DEF Goal, BinariesInv, RollbackIsPossible
  <2> QED BY <1>1, <2>1, <2>2 DEF SpawnCanary
<1>2. CASE AwaitHealthy
  BY <1>2, <1>t, <1>h DEF AwaitHealthy, To, Applying
<1>3. CASE Abort
  BY <1>3, <1>e DEF Abort
<1>4. CASE Backup
  <2>1. CASE FailApply
    BY <2>1, <1>e DEF FailApply
  <2>2. CASE bak' = bin /\ stage' = stage /\ To("swap")
    <3>1. update'.by = update.by /\ update'.canary = update.canary /\ update'.step = "swap"
      BY <2>2, <1>t DEF To
    <3>2. update.step = "drain"
      BY <1>4 DEF Backup, Applying
    <3>3. BinariesInv'
      BY <1>b, <1>i, <2>2, <3>1, <3>2 DEF BinariesInv, HasCanary
    <3>4. RollbackIsPossible'
      BY <1>b, <1>i, <1>t, <2>2, <3>1, <3>2 DEF BinariesInv, RollbackIsPossible, HasCanary
    <3> QED BY <3>3, <3>4 DEF Goal
  <2> QED BY <1>4, <2>1, <2>2 DEF Backup
<1>5. CASE Swap
  <2>1. CASE FailApply
    BY <2>1, <1>e DEF FailApply
  <2>2. CASE bin' = stage /\ bak' = bak /\ To("signal")
    <3>1. update'.by = update.by /\ update'.canary = update.canary /\ update'.step = "signal"
      BY <2>2, <1>t DEF To
    <3>2. update.step = "swap"
      BY <1>5 DEF Swap, Applying
    <3>3. BinariesInv'
      BY <1>b, <1>i, <2>2, <3>1, <3>2 DEF BinariesInv, HasCanary
    <3>4. RollbackIsPossible'
      BY <1>b, <1>i, <1>t, <2>2, <3>1, <3>2 DEF BinariesInv, RollbackIsPossible, HasCanary
    <3> QED BY <3>3, <3>4 DEF Goal
  <2> QED BY <1>5, <2>1, <2>2 DEF Swap
<1>6. CASE Signal
  BY <1>6, <1>t, <1>h, <1>e DEF Signal, Applying
<1>7. CASE StopOld
  BY <1>7, <1>t, <1>h DEF StopOld, To, Applying
<1>8. CASE HandOver
  BY <1>8, <1>e DEF HandOver
<1>9. CASE RollBack
  BY <1>9, <1>t, <1>h DEF RollBack, To, Applying
<1>10. CASE Restore
  <2>1. CASE FailApply
    BY <2>1, <1>e DEF FailApply
  <2>2. CASE bin' = bak /\ To("respawn")
    <3>1. update'.by = update.by /\ update'.canary = update.canary /\ update'.step = "respawn"
      BY <2>2, <1>t DEF To
    <3>2. update.step = "restore"
      BY <1>10 DEF Restore, Applying
    <3>3. BinariesInv'
      BY <1>b, <1>i, <2>2, <3>1, <3>2 DEF BinariesInv, HasCanary
    <3>4. RollbackIsPossible'
      BY <1>b, <1>i, <1>t, <2>2, <3>1, <3>2 DEF BinariesInv, RollbackIsPossible, HasCanary
    <3> QED BY <3>3, <3>4 DEF Goal
  <2> QED BY <1>10, <2>1, <2>2 DEF Restore
<1>11. CASE Respawn
  BY <1>11, <1>t, <1>h DEF Respawn, To, Applying
<1>12. CASE ExitOld
  BY <1>12, <1>e DEF ExitOld
<1>13. CASE PowerLoss
  BY <1>13, <1>e DEF PowerLoss
<1>14. CASE StartDaemon
  BY <1>14, <1>u DEF StartDaemon
<1>15. ASSUME NEW p \in Pid, TakeLock(p) PROVE Goal
  BY <1>15, <1>u DEF TakeLock
<1>16. ASSUME NEW p \in Pid, Connect(p) PROVE Goal
  BY <1>16, <1>u DEF Connect
<1>17. ASSUME NEW p \in Pid, Close(p) PROVE Goal
  BY <1>17, <1>u, <1>e DEF Close
<1>18. ASSUME NEW p \in Pid, Shutdown(p) PROVE Goal
  BY <1>18, <1>u, <1>e DEF Shutdown
<1>19. ASSUME NEW p \in Pid, Stage(p) PROVE Goal
  <2>1. /\ update'.by = p /\ update'.step = "spawn"
        /\ stage' \in Version /\ bin' = proc[p].ver /\ bak' = bak
        /\ proc[p].ver \in Version /\ proc'[p].ver = proc[p].ver
    BY <1>19 DEF Stage, BaseInv, ProcInv, Started
  <2> QED BY <1>t, <2>1 DEF Goal, BinariesInv, RollbackIsPossible
<1>20. ASSUME NEW p \in Pid, Probe(p) PROVE Goal
  BY <1>20, <1>u DEF Probe
<1>21. ASSUME NEW p \in Pid, Probed(p) PROVE Goal
  BY <1>21, <1>u DEF Probed
<1>22. ASSUME NEW p \in Pid, SeePromote(p) PROVE Goal
  BY <1>22, <1>u DEF SeePromote
<1>23. ASSUME NEW p \in Pid, PromoteTimeout(p) PROVE Goal
  BY <1>23, <1>u DEF PromoteTimeout
<1>24. ASSUME NEW p \in Pid, Promote(p) PROVE Goal
  BY <1>24, <1>u DEF Promote
<1>25. ASSUME NEW p \in Pid, Promoted(p) PROVE Goal
  BY <1>25, <1>u DEF Promoted
<1>26. ASSUME NEW p \in Pid, LateLock(p) PROVE Goal
  BY <1>26, <1>u DEF LateLock
<1>27. ASSUME NEW p \in Pid, Kill(p) PROVE Goal
  BY <1>27, <1>u, <1>e DEF Kill
<1> QED BY <1>1, <1>2, <1>3, <1>4, <1>5, <1>6, <1>7, <1>8, <1>9, <1>10, <1>11, <1>12, <1>13,
   <1>14, <1>15, <1>16, <1>17, <1>18, <1>19, <1>20, <1>21, <1>22, <1>23, <1>24, <1>25, <1>26,
   <1>27, <1>s
  DEF Next, Applier, Daemon, Canary

-----------------------------------------------------------------------------
(* Steps of the handshake.                                                 *)

\* Only a verdict brings a canary to its wait, and no process comes back to the
\* handshake.
Handshake ==
  \A q \in Pid :
    /\ proc'[q].st = "waiting" => proc[q].st = "waiting" \/ ~Says("promote")'
    /\ Started(q) /\ proc[q].st \notin {"spawned", "probing", "waiting"} =>
         proc'[q].st \notin {"spawned", "probing", "waiting"}

(* How the steps of a process move it through the handshake. *)
LEMMA HandshakeStep ==
  ASSUME BaseInv, BinariesInv, [Next]_vars
  PROVE  Handshake
<1> DEFINE Out == {"spawned", "probing", "waiting"}
           Moves(q) == /\ proc'[q].st = "waiting" => proc[q].st = "waiting" \/ ~Says("promote")'
                       /\ Started(q) /\ proc[q].st \notin Out => proc'[q].st \notin Out
<1> SUFFICES ASSUME NEW q \in Pid PROVE Moves(q)
  BY DEF Handshake
<1>t. proc \in ProcType /\ ProcInv
  BY DEF BaseInv, TypeOK, ProcType
<1>i. update.step # "idle" => update.by \in Pid
  BY DEF BaseInv, PartiesInv
<1>c. HasCanary => update.canary \in Pid
  BY DEF BaseInv, PartiesInv
<1>e. proc'[q] = proc[q] => Moves(q)
  OBVIOUS
<1>d. ASSUME NEW p \in Pid, NEW st \in State \ Out, Goes(p, st)
      PROVE  Moves(q)
  BY <1>t, <1>d DEF Goes, ProcType
<1>x. ASSUME NEW p \in Pid, Exits(p)
      PROVE  Moves(q)
  BY <1>d, <1>x DEF Exits, State
<1>k. ASSUME NEW p \in Pid, proc' = Terminated(p)
      PROVE  Moves(q)
  BY <1>e, <1>k, <1>t, TerminatedStep
<1>n. ASSUME Free # {}, NEW st \in {"boot", "spawned"}, NEW ver \in Version,
             proc' = Spawned(st, ver)
      PROVE  Moves(q)
  <2>1. PICK c \in Pid : c = Fresh /\ proc[c].st = "none"
    BY <1>n DEF Free, Fresh
  <2> HIDE DEF Fresh
  <2>2. proc'[c].st = st /\ (q # c => proc'[q] = proc[q])
    BY <1>n, <1>t, <2>1 DEF Spawned, ProcType
  <2> QED BY <1>e, <2>1, <2>2 DEF Started
<1> HIDE DEF Moves
<1> USE <1>t DEF Applying, HasCanary
<1>s. CASE UNCHANGED vars
  BY <1>s, <1>e DEF vars
<1>1. CASE SpawnCanary
  <2>1. Free # {} /\ stage \in Version
    BY <1>1 DEF SpawnCanary, BaseInv, ReserveInv, BinariesInv
  <2> QED BY <1>1, <2>1, <1>e, <1>n DEF SpawnCanary
<1>2. CASE AwaitHealthy
  BY <1>2, <1>e DEF AwaitHealthy
<1>3. CASE Abort
  BY <1>3, <1>k, <1>c DEF Abort
<1>4. CASE Backup
  BY <1>4, <1>e, <1>x, <1>i DEF Backup, FailApply
<1>5. CASE Swap
  BY <1>5, <1>e, <1>x, <1>i DEF Swap, FailApply
<1>6. CASE Signal
  BY <1>6, <1>e DEF Signal
<1>7. CASE StopOld
  BY <1>7, <1>d, <1>i DEF StopOld, State
<1>8. CASE HandOver
  BY <1>8, <1>x, <1>i DEF HandOver
<1>9. CASE RollBack
  BY <1>9, <1>k, <1>c DEF RollBack
<1>10. CASE Restore
  BY <1>10, <1>e, <1>x, <1>i DEF Restore, FailApply
<1>11. CASE Respawn
  <2>1. CASE proc' = proc
    BY <2>1, <1>e
  <2>2. CASE proc' = Spawned("boot", bin)
    <3>1. PICK c \in Pid : c = Fresh /\ proc[c].st = "none"
      BY <1>11 DEF Respawn, Free, Fresh, BaseInv, ReserveInv
    <3> HIDE DEF Fresh
    <3>2. proc'[c].st = "boot" /\ (q # c => proc'[q] = proc[q])
      BY <2>2, <3>1 DEF Spawned, ProcType
    <3> QED BY <1>e, <3>1, <3>2 DEF Moves, Started
  <2> QED BY <1>11, <2>1, <2>2 DEF Respawn
<1>12. CASE ExitOld
  BY <1>12, <1>x, <1>i DEF ExitOld
<1>13. CASE PowerLoss
  <2>1. proc'[q].st \in {proc[q].st, "dead"}
    BY <1>13 DEF PowerLoss, ProcType
  <2> QED BY <2>1 DEF Moves
<1>14. CASE StartDaemon
  <2>1. Free # {} /\ bin \in Version
    BY <1>14, EnoughFree DEF StartDaemon, BaseInv, TypeOK
  <2> QED BY <1>14, <2>1, <1>n DEF StartDaemon
<1>15. ASSUME NEW p \in Pid, TakeLock(p) PROVE Moves(q)
  BY <1>15, <1>d DEF TakeLock, State
<1>16. ASSUME NEW p \in Pid, Connect(p) PROVE Moves(q)
  BY <1>16, <1>x, <1>d DEF Connect, State
<1>17. ASSUME NEW p \in Pid, Close(p) PROVE Moves(q)
  BY <1>17, <1>x DEF Close
<1>18. ASSUME NEW p \in Pid, Shutdown(p) PROVE Moves(q)
  BY <1>18, <1>k DEF Shutdown
<1>19. ASSUME NEW p \in Pid, Stage(p) PROVE Moves(q)
  BY <1>19, <1>e DEF Stage
<1>20. ASSUME NEW p \in Pid, Probe(p) PROVE Moves(q)
  <2>1. proc'[p].st = "probing" /\ (q # p => proc'[q] = proc[q]) /\ proc[p].st = "spawned"
    BY <1>20 DEF Probe, Goes, ProcType
  <2> QED BY <2>1, <1>e DEF Moves
<1>21. ASSUME NEW p \in Pid, Probed(p) PROVE Moves(q)
  <2>1. CASE Goes(p, "dead")
    BY <2>1, <1>d DEF State
  <2>2. CASE Writes(p, "healthy") /\ Goes(p, "waiting")
    <3>1. proc'[p].st = "waiting" /\ (q # p => proc'[q] = proc[q]) /\ proc[p].st = "probing"
      BY <1>21, <2>2 DEF Probed, Goes, ProcType
    <3>2. ~Says("promote")'
      BY <2>2 DEF Writes, Says
    <3> QED BY <3>1, <3>2, <1>e DEF Moves
  <2> QED BY <1>21, <2>1, <2>2 DEF Probed
<1>22. ASSUME NEW p \in Pid, SeePromote(p) PROVE Moves(q)
  BY <1>22, <1>d DEF SeePromote, State
<1>23. ASSUME NEW p \in Pid, PromoteTimeout(p) PROVE Moves(q)
  BY <1>23, <1>d DEF PromoteTimeout, State
<1>24. ASSUME NEW p \in Pid, Promote(p) PROVE Moves(q)
  BY <1>24, <1>d DEF Promote, State
<1>25. ASSUME NEW p \in Pid, Promoted(p) PROVE Moves(q)
  BY <1>25, <1>d DEF Promoted, State
<1>26. ASSUME NEW p \in Pid, LateLock(p) PROVE Moves(q)
  BY <1>26, <1>e DEF LateLock
<1>27. ASSUME NEW p \in Pid, Kill(p) PROVE Moves(q)
  BY <1>27, <1>x DEF Kill
<1> QED BY <1>1, <1>2, <1>3, <1>4, <1>5, <1>6, <1>7, <1>8, <1>9, <1>10, <1>11, <1>12, <1>13,
   <1>14, <1>15, <1>16, <1>17, <1>18, <1>19, <1>20, <1>21, <1>22, <1>23, <1>24, <1>25, <1>26,
   <1>27, <1>s
  DEF Next, Applier, Daemon, Canary

(* The signal in update.json, in each step: only Signal writes one, and it
   addresses the canary whose release has just been installed. *)
LEMMA SignalStep ==
  ASSUME BaseInv, BinariesInv, SignalInv, ProcStep, Handshake, [Next]_vars
  PROVE  SignalInv'
<1> DEFINE Out == {"spawned", "probing", "waiting"}
           Quiet == {"drain", "swap", "signal"}
           Signalled == {"stop", "watch", "restore"}
           Goal == /\ Says("promote")' => handoff' = handoff /\ bin' = bin
                   /\ update'.step \in Quiet => update.step \in Quiet \/ ~Says("promote")'
                   /\ update'.step \in Signalled =>
                        update.step \in Signalled /\ update'.canary = update.canary
                   /\ update'.step = "restore" =>
                        update.step = "restore" \/ proc'[update.canary].st \notin Out
<1>t. update \in [by : Pid \cup {None}, step : Step, canary : Pid \cup {None}]
  BY DEF BaseInv, TypeOK
<1>c. HasCanary => update.canary \in Pid /\ Started(update.canary)
  BY DEF BaseInv, PartiesInv
<1>v. \A q \in Pid : proc[q].st # "none" => proc'[q].ver = proc[q].ver
  BY DEF ProcStep, Keeps, Started
<1>1. Goal => SignalInv'
  <2> SUFFICES ASSUME Goal PROVE SignalInv'
    OBVIOUS
  <2>1. Says("promote")' => Says("promote")
    BY DEF Says
  <2>2. update'.step \in Quiet => ~Says("promote")'
    BY <2>1 DEF SignalInv
  <2>3. update'.step \in Signalled /\ Says("promote")' => handoff'.pid = update'.canary
    BY <2>1 DEF SignalInv
  <2>4. update'.step = "restore" => proc'[update'.canary].st \notin Out
    BY <1>c DEF SignalInv, Handshake, HasCanary
  <2>5. ASSUME NEW q \in Pid, Says("promote")', handoff'.pid = q, proc'[q].st = "waiting"
        PROVE  bin' = proc'[q].ver
    <3>1. Says("promote") /\ handoff.pid = q /\ proc[q].st = "waiting"
      BY <2>1, <2>5 DEF Handshake
    <3> QED BY <1>v, <2>5, <3>1 DEF SignalInv
  <2> HIDE DEF Goal
  <2> QED BY <2>2, <2>3, <2>4, <2>5 DEF SignalInv
<1>2. CASE Signal
  <2>1. /\ handoff' = [phase |-> "promote", pid |-> update.canary]
        /\ update.canary \in Pid /\ bin' = bin /\ bin = proc[update.canary].ver
        /\ proc' = proc
    BY <1>2, <1>c DEF Signal, Applying, BinariesInv, HasCanary, disk
  <2>2. /\ update'.step \in {"idle", "stop"}
        /\ update'.step = "stop" => update'.canary = update.canary
    BY <1>2, <1>t DEF Signal, NoUpdate
  <2>3. handoff'.pid = update.canary
    BY <2>1
  <2> QED BY <2>1, <2>2, <2>3 DEF SignalInv
<1>3. CASE ~Signal
  <2> SUFFICES Goal
    BY <1>1
  <2>n. NoUpdate.step = "idle"
    BY DEF NoUpdate
  <2>q. update.step \in Quiet => ~Says("promote")
    BY DEF SignalInv
  <2>h. Says("promote")' = (handoff' # None /\ handoff'.phase = "promote")
    BY DEF Says
  <2> USE DEF Applying, disk
  <2>s. CASE UNCHANGED vars
    BY <2>s DEF vars
  <2>1. CASE SpawnCanary
    BY <2>1, <1>t, <2>n DEF SpawnCanary
  <2>2. CASE AwaitHealthy
    BY <2>2, <1>t, <2>h DEF AwaitHealthy, To, Says
  <2>3. CASE Abort
    BY <2>3, <2>n, <2>h DEF Abort
  <2>4. CASE Backup
    BY <2>4, <1>t, <2>q, <2>n, <2>h DEF Backup, To, FailApply, Says
  <2>5. CASE Swap
    BY <2>5, <1>t, <2>q, <2>n, <2>h DEF Swap, To, FailApply, Says
  <2>7. CASE StopOld
    BY <2>7, <1>t DEF StopOld, To
  <2>8. CASE HandOver
    BY <2>8, <2>n, <2>h DEF HandOver
  <2>9. CASE RollBack
    BY <2>9, <1>t, <1>c, TerminatedStep DEF RollBack, To, BaseInv, TypeOK, ProcType, HasCanary
  <2>10. CASE Restore
    BY <2>10, <1>t, <2>n, <2>h DEF Restore, To, FailApply
  <2>11. CASE Respawn
    BY <2>11, <1>t DEF Respawn, To
  <2>12. CASE ExitOld
    BY <2>12, <2>n DEF ExitOld
  <2>13. CASE PowerLoss
    BY <2>13, <2>n DEF PowerLoss
  <2>14. CASE StartDaemon
    BY <2>14 DEF StartDaemon
  <2>15. ASSUME NEW p \in Pid, TakeLock(p) PROVE Goal
    BY <2>15 DEF TakeLock
  <2>16. ASSUME NEW p \in Pid, Connect(p) PROVE Goal
    BY <2>16 DEF Connect
  <2>17. ASSUME NEW p \in Pid, Close(p) PROVE Goal
    BY <2>17, <2>n DEF Close
  <2>18. ASSUME NEW p \in Pid, Shutdown(p) PROVE Goal
    BY <2>18, <2>n DEF Shutdown
  <2>19. ASSUME NEW p \in Pid, Stage(p) PROVE Goal
    BY <2>19 DEF Stage
  <2>20. ASSUME NEW p \in Pid, Probe(p) PROVE Goal
    BY <2>20, <2>h DEF Probe, Writes
  <2>21. ASSUME NEW p \in Pid, Probed(p) PROVE Goal
    <3>1. ASSUME NEW ph \in {"healthy", "failed"}, Writes(p, ph) PROVE ~Says("promote")'
      BY <3>1, <2>h DEF Writes
    <3>2. update' = update /\ bin' = bin
      BY <2>21 DEF Probed
    <3>3. handoff' = handoff \/ ~Says("promote")'
      BY <2>21, <3>1 DEF Probed
    <3> QED BY <3>2, <3>3
  <2>22. ASSUME NEW p \in Pid, SeePromote(p) PROVE Goal
    BY <2>22 DEF SeePromote
  <2>23. ASSUME NEW p \in Pid, PromoteTimeout(p) PROVE Goal
    BY <2>23, <2>h DEF PromoteTimeout, Writes
  <2>24. ASSUME NEW p \in Pid, Promote(p) PROVE Goal
    <3>1. ASSUME NEW ph \in {"healthy", "failed"}, Writes(p, ph) PROVE ~Says("promote")'
      BY <3>1, <2>h DEF Writes
    <3>2. update' = update /\ bin' = bin
      BY <2>24 DEF Promote
    <3>3. handoff' = handoff \/ ~Says("promote")'
      BY <2>24, <3>1 DEF Promote
    <3> QED BY <3>2, <3>3
  <2>25. ASSUME NEW p \in Pid, Promoted(p) PROVE Goal
    BY <2>25, <2>h DEF Promoted, Writes
  <2>26. ASSUME NEW p \in Pid, LateLock(p) PROVE Goal
    BY <2>26 DEF LateLock
  <2>27. ASSUME NEW p \in Pid, Kill(p) PROVE Goal
    BY <2>27, <2>n DEF Kill
  <2> HIDE DEF Goal
  <2> QED BY <1>3, <2>1, <2>2, <2>3, <2>4, <2>5, <2>7, <2>8, <2>9, <2>10, <2>11, <2>12, <2>13,
     <2>14, <2>15, <2>16, <2>17, <2>18, <2>19, <2>20, <2>21, <2>22, <2>23, <2>24, <2>25, <2>26,
     <2>27, <2>s
    DEF Next, Applier, Daemon, Canary
<1> QED BY <1>2, <1>3

-----------------------------------------------------------------------------
(* The theorems.                                                           *)

(* The first daemon serves its own installed release, and no update runs. *)
LEMMA InitInv == Init => IInv
<1> SUFFICES ASSUME Init PROVE IInv
  OBVIOUS
<1>1. PICK p \in Pid :
        /\ proc = [q \in Pid |-> IF q = p THEN [st |-> "serving", ver |-> 1]
                                          ELSE [st |-> "none", ver |-> None]]
        /\ lock = p
        /\ status = [pid |-> p, state |-> "running"]
  <2> DEFINE p == CHOOSE q \in Pid : TRUE
  <2>1. p \in Pid
    BY SelfUpdateAssumption
  <2> HIDE DEF p
  <2>2. /\ proc = [q \in Pid |-> IF q = p THEN [st |-> "serving", ver |-> 1]
                                          ELSE [st |-> "none", ver |-> None]]
        /\ lock = p
        /\ status = [pid |-> p, state |-> "running"]
    BY DEF Init, p
  <2> QED BY <2>1, <2>2
<1>2. 1 \in Version
  BY SelfUpdateAssumption DEF Version
<1>3. /\ update = NoUpdate /\ handoff = None
      /\ bin = 1 /\ bak = None /\ stage = None /\ kills = 0 /\ errors = 0
  BY DEF Init
<1>4. update.step = "idle"
  BY <1>3 DEF NoUpdate
<1>5. proc \in ProcType /\ ProcInv
  <2>1. /\ [st |-> "serving", ver |-> 1] \in [st : State, ver : Version \cup {None}]
        /\ [st |-> "none", ver |-> None] \in [st : State, ver : Version \cup {None}]
    BY <1>2 DEF State
  <2>2. proc \in ProcType
    BY <1>1, <2>1 DEF ProcType
  <2>3. \A q \in Pid : /\ q = p => proc[q] = [st |-> "serving", ver |-> 1]
                       /\ q # p => proc[q] = [st |-> "none", ver |-> None]
    BY <1>1
  <2>4. ProcInv
    BY <1>2, <2>3 DEF ProcInv, Started
  <2> QED BY <2>2, <2>4
<1>6. update \in [by : Pid \cup {None}, step : Step, canary : Pid \cup {None}]
  BY <1>3 DEF NoUpdate, Step
<1>7. TypeOK
  BY <1>1, <1>2, <1>3, <1>5, <1>6, SelfUpdateAssumption DEF TypeOK, ProcType
<1>8. PartiesInv /\ ReserveInv /\ BinariesInv
  BY <1>4 DEF PartiesInv, ReserveInv, BinariesInv, HasCanary
<1>9. RollbackIsPossible
  <2>1. bin # None
    BY <1>2, <1>3, SelfUpdateAssumption DEF Version
  <2> QED BY <1>4, <2>1 DEF RollbackIsPossible
<1>10. SignalInv
  BY <1>3, <1>4 DEF SignalInv, Says
<1> QED BY <1>5, <1>7, <1>8, <1>9, <1>10 DEF IInv, BaseInv

(* Every step, a kill, a power loss and a failed rename included, keeps it. *)
LEMMA NextInv == IInv /\ [Next]_vars => IInv'
<1> SUFFICES ASSUME IInv, [Next]_vars PROVE IInv'
  OBVIOUS
<1>1. BaseInv /\ BinariesInv /\ RollbackIsPossible /\ SignalInv
  BY DEF IInv
<1>2. ProcStep /\ FreeStep
  BY <1>1, ProcessesStep
<1>3. TypeOK' /\ ProcInv'
  BY <1>1, <1>2, TypeStep DEF ProcStep
<1>4. PartiesInv' /\ Needs
  BY <1>1, <1>2, UpdateStep
<1>5. ReserveInv'
  BY <1>1, <1>2, <1>4, ReserveStep
<1>6. BinariesInv' /\ RollbackIsPossible'
  BY <1>1, <1>2, BinariesStep
<1>7. SignalInv'
  BY <1>1, <1>2, HandshakeStep, SignalStep
<1> QED BY <1>3, <1>4, <1>5, <1>6, <1>7 DEF IInv, BaseInv

(* The inductive invariant holds in every reachable state. *)
LEMMA Inductive == Spec => []IInv
BY InitInv, NextInv, PTL DEF Spec

(* Whatever fails or is killed during an update, the release of the daemon that
   runs it is in the backup, or back at the install path, and the install
   directory never loses every binary (applier.rs: backup, swap, restore). *)
THEOREM RollbackStaysPossible == Spec => []UpdateInv
<1>1. IInv => UpdateInv
  BY DEF IInv, BaseInv, UpdateInv
<1> QED BY <1>1, Inductive, PTL

(* A canary follows the signal of its own update only when its release is the
   installed one (applier.rs: swap before the signal, kill before restore). *)
THEOREM PromotionIsInstalled == Spec => PromotedIsInstalled
<1> DEFINE Step1 == \A q \in Pid :
                      SeePromote(q) /\ handoff.pid = q => bin = proc[q].ver
<1>1. IInv /\ [Next]_vars => [Step1]_vars
  BY DEF IInv, SignalInv, SeePromote
<1> QED BY <1>1, Inductive, PTL DEF Spec, PromotedIsInstalled
=============================================================================

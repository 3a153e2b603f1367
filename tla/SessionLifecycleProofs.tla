----------------------- MODULE SessionLifecycleProofs -----------------------
(***************************************************************************)
(* Safety of SessionLifecycle for any number of turns, prompts and         *)
(* harnesses and any set of environment operations.                        *)
(***************************************************************************)
EXTENDS SessionLifecycle, FiniteSetTheorems, TLAPS

-----------------------------------------------------------------------------
(* The inductive invariant, in four parts and three conditional ones.      *)

\* A turn that uses a handle has one.
HasHandle ==
  \A t \in Turn :
    pc[t] \in {"recheck", "refresh", "dispatch", "coord", "send", "turn"}
      => hn[t] \in Harness

TypeInv == TypeOK /\ HasHandle

\* Only a delivery carries a queued prompt, and it carries it to the end.
PromptOwner ==
  \A t \in Turn :
    /\ prompt[t] # None => by[t] \in {"queue", "boot"}
    /\ pc[t] = "free" => prompt[t] = None
    /\ pc[t] = "resumeFail" => by[t] = "resume"

\* A row about to be deleted was given to a turn.
SettlingHanded == settling \subseteq handed

QueueInv == PromptOwner /\ SettlingHanded /\ ClaimHasOwner /\ NoPromptDropped

\* Where a resumed turn can be
ResumePc == {"harness", "resumeFail", "dispatch", "send", "turn", "complete",
             "settle", "failed", "demote", "deliver"}

\* Nobody else acts while the boot resumes the session it found Running.
BootInv ==
  /\ sess = "none" => boot = "done"
  /\ boot # "done" => spc = "idle" /\ epc = "idle"
  /\ boot \in {"recover", "reconcile"} => \A t \in Turn : pc[t] = "free"
  /\ boot = "resume" =>
       /\ sess = "running"
       /\ \A t, u \in Turn : pc[t] # "free" /\ pc[u] # "free" => t = u
       /\ \A t \in Turn : pc[t] # "free" =>
            by[t] = "resume" /\ pc[t] \in {"harness", "resumeFail"}
  /\ \A t \in Turn :
       /\ pc[t] = "free" => by[t] = None
       /\ pc[t] = "resumeFail" => by[t] = "resume"
       /\ by[t] = "resume" => pc[t] \in ResumePc
       /\ by[t] = "resume" /\ pc[t] \in {"harness", "resumeFail"}
            => boot = "resume"

\* Where a startup is before it dispatches, or when it gave up
Undispatched == {"prepare", "record", "check", "harness", "recheck", "fail",
                 "unreserve", "unwind"}

\* There is one startup; once it was cancelled in time it stays undispatched.
StartInv ==
  /\ \A t, u \in Turn : by[t] = "start" /\ by[u] = "start" => t = u
  /\ \A t \in Turn : pc[t] = "register" => by[t] = "start"
  /\ sess = "none" =>
       /\ spc = "idle" /\ epc = "idle" /\ ~tooLate
       /\ \A t \in Turn : pc[t] = "free" /\ by[t] = None
  /\ tooLate =>
       /\ startTok
       /\ \A t \in Turn : by[t] = "start" => pc[t] \in Undispatched

\* Without mentions no task leaves an active run behind, unless it met the
\* drain latch: the run is ended before each of the steps a task may leave at.
RunInv ==
  \A t \in Turn :
    /\ pc[t] # "coord"
    /\ pc[t] \in {"free", "unwind", "unreserve", "settle", "deliver", "admit",
                   "demote", "restore"}
         => run[t] # "active" \/ draining

\* A startup that can still create or record a worktree
Preparing(t) == pc[t] \in {"register", "prepare", "record"}

\* The `starting` map covers the preparation of the workspace, so a teardown
\* that waited for it never runs next to one.
TreeInv ==
  /\ \A t \in Turn :
       Preparing(t) \/ pc[t] \in {"check", "recheck", "unwind"}
         => by[t] = "start"
  /\ \A t \in Turn : pc[t] \in {"prepare", "record"} => starting = "yes"
  /\ tree = "created" => \E t \in Turn : pc[t] = "record"
  /\ epc # "idle" => sess # "none" /\ \A t \in Turn : pc[t] # "register"
  /\ epc \in {"status", "handle", "queue", "sweep", "tree"} \/ sess = "ended"
       => \A t \in Turn : ~Preparing(t)
  /\ sess = "ended" /\ epc \notin {"handle", "queue", "sweep", "tree"}
       => tree = "none"

\* A turn that is going to demote the session before its task ends.  A startup
\* that unwinds and a delivery that may claim nothing are past that point; a
\* continuation is not there yet, it may still meet the drain latch.
WillDemote(t) ==
  /\ pc[t] \notin {"free", "unwind", "deliver"}
  /\ pc[t] = "reserve" => by[t] # "user"

\* A Running session has a turn that will demote it, unless a stop, an end or
\* the boot is in charge; a startup token is cancelled by one of the former.
DriverInv ==
  /\ boot # "done" => ~startTok
  /\ epc \in {"handle", "queue", "sweep", "tree"} => Over(sess)
  /\ startTok => Over(sess) \/ spc # "idle" \/ epc # "idle"
  /\ \A t \in Turn : pc[t] = "admit" => by[t] # "user"
  /\ sess = "running" =>
       \/ \E t \in Turn : WillDemote(t)
       \/ spc # "idle" \/ epc # "idle"
       \/ boot \in {"recover", "reconcile"}

-----------------------------------------------------------------------------
(* Steps                                                                   *)

\* The number of prompts is a number; positions are bounded by it.
LEMMA PositionType == Cardinality(Prompt) \in Nat
PROOF BY EnvAssumption, FS_CardinalityType

\* Every step preserves the types, and a turn that uses a handle has one.
LEMMA TypeInvStep == TypeInv /\ [Next]_vars => TypeInv'
PROOF
<1> SUFFICES ASSUME TypeInv, [Next]_vars PROVE TypeInv'
  OBVIOUS
<1> USE DEF TypeInv, TypeOK, Origin, HasHandle, TurnPc, vars, row, prompts,
    plane, harness, control, turns
<1>1. CASE UNCHANGED vars
  BY <1>1
<1>2. ASSUME NEW t \in Turn, TurnStep(t) PROVE TypeInv'
  <2>1. CASE RegisterStartup(t)
    <3>1. /\ pc[t] = "register" /\ pc' = [pc EXCEPT ![t] = "prepare"]
          /\ starting' = "yes"
      BY <2>1 DEF RegisterStartup, Goto
    <3>2. startTok' \in BOOLEAN
      BY <2>1, Zenon DEF RegisterStartup
    <3>3. UNCHANGED <<row, prompts, live, draining, tooLate, harness, control,
                      by, prompt, hn, ranAs, run>>
      BY <2>1, Zenon DEF RegisterStartup
    <3> QED  BY <3>1, <3>2, <3>3
  <2>2. CASE PrepareWorkspace(t)
    BY <2>2 DEF PrepareWorkspace, Goto
  <2>3. CASE RecordWorkspace(t)
    BY <2>3 DEF RecordWorkspace, Goto
  <2>4. CASE Checkpoint(t)
    BY <2>4 DEF Checkpoint, Goto, Finish
  <2>5. CASE Unwind(t)
    BY <2>5 DEF Unwind, Leave, Goto
  <2>6. ASSUME NEW h \in Harness, StartHarness(t, h) PROVE TypeInv'
    BY <2>6 DEF StartHarness, NewHarness, AfterStart, Goto
  <2>7. CASE StartHarnessFails(t)
    BY <2>7 DEF StartHarnessFails, Goto
  <2>8. CASE ResumeFails(t)
    BY <2>8 DEF ResumeFails, Goto
  <2>9. CASE FailRun(t)
    BY <2>9 DEF FailRun, Goto, Finish
  <2>10. CASE Unreserve(t)
    BY <2>10, EnvAssumption DEF Unreserve, Demote, Leave, Goto
  <2>11. CASE Reserve(t)
    BY <2>11 DEF Reserve, Promote, Leave, Goto
  <2>12. CASE AwaitStartup(t)
    BY <2>12 DEF AwaitStartup, Goto
  <2>13. CASE Refresh(t)
    BY <2>13 DEF Refresh, Goto
  <2>14. CASE Dispatch(t)
    BY <2>14 DEF Dispatch, Goto
  <2>15. CASE Coordinate(t)
    BY <2>15 DEF Coordinate, CoordinatorCancelled, Goto, Finish
  <2>16. CASE BeginTurn(t)
    BY <2>16 DEF BeginTurn, Goto
  <2>17. CASE EndTurn(t)
    BY <2>17 DEF EndTurn, Goto
  <2>18. CASE Complete(t)
    BY <2>18 DEF Complete, Finish, Goto
  <2>19. CASE Settle(t)
    BY <2>19, EnvAssumption DEF Settle, Demote, Leave, Goto
  <2>20. CASE FailTurn(t)
    BY <2>20 DEF FailTurn, Finish, Goto
  <2>21. CASE DemoteAndLeave(t)
    BY <2>21, EnvAssumption DEF DemoteAndLeave, Demote, Leave, Goto
  <2>22. CASE Deliver(t)
    BY <2>22 DEF Deliver, Leave, Goto, Head, Pending, Rows
  <2>23. CASE Admit(t)
    BY <2>23 DEF Admit, Goto
  <2>24. CASE Restore(t)
    BY <2>24 DEF Restore, Goto
  <2> QED  BY <1>2, <2>1, <2>2, <2>3, <2>4, <2>5, <2>6, <2>7, <2>8, <2>9,
      <2>10, <2>11, <2>12, <2>13, <2>14, <2>15, <2>16, <2>17, <2>18, <2>19,
      <2>20, <2>21, <2>22, <2>23, <2>24 DEF TurnStep
<1>3. CASE ControlStep
  <2>1. CASE LeaveStartup
    BY <2>1 DEF LeaveStartup
  <2>2. CASE StopHandle
    BY <2>2 DEF StopHandle, CancelHandle
  <2>3. CASE StopSweep
    BY <2>3 DEF StopSweep, InterruptRuns
  <2>4. CASE StopStatus
    BY <2>4 DEF StopStatus
  <2>5. CASE EndWait
    BY <2>5 DEF EndWait
  <2>6. CASE EndStatus
    BY <2>6 DEF EndStatus
  <2>7. CASE EndHandle
    BY <2>7 DEF EndHandle, CancelHandle
  <2>8. CASE EndQueue
    BY <2>8 DEF EndQueue, Rows
  <2>9. CASE EndSweep
    BY <2>9 DEF EndSweep, InterruptRuns
  <2>10. CASE EndTree
    BY <2>10 DEF EndTree
  <2>11. CASE RecoverClaims
    BY <2>11 DEF RecoverClaims
  <2>12. CASE BootDone
    BY <2>12 DEF BootDone
  <2>13. ASSUME NEW p \in Prompt, DeleteDelivered(p) PROVE TypeInv'
    BY <2>13 DEF DeleteDelivered
  <2>14. ASSUME NEW t \in Turn, Reconcile(t) PROVE TypeInv'
    BY <2>14, EnvAssumption DEF Reconcile, GivesUp, Free, Goto
  <2>15. ASSUME NEW t \in Turn, BootDeliver(t) PROVE TypeInv'
    BY <2>15 DEF BootDeliver, Free, Goto
  <2> QED  BY <1>3, <2>1, <2>2, <2>3, <2>4, <2>5, <2>6, <2>7, <2>8, <2>9,
      <2>10, <2>11, <2>12, <2>13, <2>14, <2>15 DEF ControlStep
<1>4. CASE Call
  <2>1. ASSUME NEW t \in Turn, StartSession(t) PROVE TypeInv'
    BY <2>1 DEF StartSession, Free, Goto
  <2>2. ASSUME NEW t \in Turn, Continue(t) PROVE TypeInv'
    BY <2>2 DEF Continue, Visible, Free, Goto
  <2>3. ASSUME NEW t \in Turn, NEW p \in Prompt, Enqueue(t, p) PROVE TypeInv'
    BY <2>3, PositionType DEF Enqueue, Visible, Free, Goto, IsNextPosition
  <2>4. ASSUME NEW p \in Prompt, RemovePrompt(p) PROVE TypeInv'
    BY <2>4 DEF RemovePrompt, Visible, Pending, Rows
  <2>5. CASE Stop
    BY <2>5 DEF Stop, CancelStartup, BeforeDispatch, Visible
  <2>6. CASE End
    BY <2>6 DEF End, CancelStartup, BeforeDispatch, Visible
  <2>7. CASE Drain
    BY <2>7 DEF Drain
  <2>8. CASE Crash
    BY <2>8 DEF Crash
  <2> QED  BY <1>4, <2>1, <2>2, <2>3, <2>4, <2>5, <2>6, <2>7, <2>8 DEF Call
<1> QED  BY <1>1, <1>2, <1>3, <1>4 DEF Next

\* Every step leaves the boot undisturbed: nobody acts on the session between
\* the crash and the end of its resumption.
LEMMA BootInvStep == TypeInv /\ BootInv /\ [Next]_vars => BootInv'
PROOF
<1> SUFFICES ASSUME TypeInv, BootInv, [Next]_vars PROVE BootInv'
  OBVIOUS
<1> USE DistinctAssumption DEF TypeInv, TypeOK, Origin, BootInv, ResumePc,
    vars, row, prompts, plane, harness, control, turns
<1>1. CASE UNCHANGED vars
  BY <1>1
<1>2. ASSUME NEW t \in Turn, TurnStep(t) PROVE BootInv'
  <2>1. CASE RegisterStartup(t)
    BY <2>1 DEF RegisterStartup, Goto
  <2>2. CASE PrepareWorkspace(t)
    BY <2>2 DEF PrepareWorkspace, Goto
  <2>3. CASE RecordWorkspace(t)
    BY <2>3 DEF RecordWorkspace, Goto
  <2>4. CASE Checkpoint(t)
    BY <2>4 DEF Checkpoint, Goto, Finish
  <2>5. CASE Unwind(t)
    BY <2>5 DEF Unwind, Leave, Goto
  <2>6. ASSUME NEW h \in Harness, StartHarness(t, h) PROVE BootInv'
    BY <2>6 DEF StartHarness, NewHarness, AfterStart, Goto
  <2>7. CASE StartHarnessFails(t)
    BY <2>7 DEF StartHarnessFails, Goto
  <2>8. CASE ResumeFails(t)
    BY <2>8 DEF ResumeFails, Goto
  <2>9. CASE FailRun(t)
    BY <2>9 DEF FailRun, Goto, Finish
  <2>10. CASE Unreserve(t)
    BY <2>10 DEF Unreserve, Demote, Leave, Goto
  <2>11. CASE Reserve(t)
    BY <2>11 DEF Reserve, Promote, Leave, Goto
  <2>12. CASE AwaitStartup(t)
    BY <2>12 DEF AwaitStartup, Goto
  <2>13. CASE Refresh(t)
    BY <2>13 DEF Refresh, Goto
  <2>14. CASE Dispatch(t)
    BY <2>14 DEF Dispatch, Goto
  <2>15. CASE Coordinate(t)
    BY <2>15 DEF Coordinate, CoordinatorCancelled, Goto, Finish
  <2>16. CASE BeginTurn(t)
    BY <2>16 DEF BeginTurn, Goto
  <2>17. CASE EndTurn(t)
    BY <2>17 DEF EndTurn, Goto
  <2>18. CASE Complete(t)
    BY <2>18 DEF Complete, Finish, Goto
  <2>19. CASE Settle(t)
    BY <2>19 DEF Settle, Demote, Leave, Goto
  <2>20. CASE FailTurn(t)
    BY <2>20 DEF FailTurn, Finish, Goto
  <2>21. CASE DemoteAndLeave(t)
    BY <2>21 DEF DemoteAndLeave, Demote, Leave, Goto
  <2>22. CASE Deliver(t)
    BY <2>22 DEF Deliver, Leave, Goto, Head, Pending, Rows
  <2>23. CASE Admit(t)
    BY <2>23 DEF Admit, Goto
  <2>24. CASE Restore(t)
    BY <2>24 DEF Restore, Goto
  <2> QED  BY <1>2, <2>1, <2>2, <2>3, <2>4, <2>5, <2>6, <2>7, <2>8, <2>9,
      <2>10, <2>11, <2>12, <2>13, <2>14, <2>15, <2>16, <2>17, <2>18, <2>19,
      <2>20, <2>21, <2>22, <2>23, <2>24 DEF TurnStep
<1>3. CASE ControlStep
  <2>1. CASE LeaveStartup
    BY <2>1 DEF LeaveStartup
  <2>2. CASE StopHandle
    BY <2>2 DEF StopHandle, CancelHandle
  <2>3. CASE StopSweep
    BY <2>3 DEF StopSweep, InterruptRuns
  <2>4. CASE StopStatus
    BY <2>4 DEF StopStatus
  <2>5. CASE EndWait
    BY <2>5 DEF EndWait
  <2>6. CASE EndStatus
    BY <2>6 DEF EndStatus
  <2>7. CASE EndHandle
    BY <2>7 DEF EndHandle, CancelHandle
  <2>8. CASE EndQueue
    BY <2>8 DEF EndQueue, Rows
  <2>9. CASE EndSweep
    BY <2>9 DEF EndSweep, InterruptRuns
  <2>10. CASE EndTree
    BY <2>10 DEF EndTree
  <2>11. CASE RecoverClaims
    BY <2>11 DEF RecoverClaims
  <2>12. CASE BootDone
    BY <2>12 DEF BootDone
  <2>13. ASSUME NEW p \in Prompt, DeleteDelivered(p) PROVE BootInv'
    BY <2>13 DEF DeleteDelivered
  <2>14. ASSUME NEW t \in Turn, Reconcile(t) PROVE BootInv'
    BY <2>14 DEF Reconcile, GivesUp, Free, Goto
  <2>15. ASSUME NEW t \in Turn, BootDeliver(t) PROVE BootInv'
    BY <2>15 DEF BootDeliver, Free, Goto
  <2> QED  BY <1>3, <2>1, <2>2, <2>3, <2>4, <2>5, <2>6, <2>7, <2>8, <2>9,
      <2>10, <2>11, <2>12, <2>13, <2>14, <2>15 DEF ControlStep
<1>4. CASE Call
  <2>1. ASSUME NEW t \in Turn, StartSession(t) PROVE BootInv'
    BY <2>1 DEF StartSession, Free, Goto
  <2>2. ASSUME NEW t \in Turn, Continue(t) PROVE BootInv'
    BY <2>2 DEF Continue, Visible, Free, Goto
  <2>3. ASSUME NEW t \in Turn, NEW p \in Prompt, Enqueue(t, p) PROVE BootInv'
    BY <2>3 DEF Enqueue, Visible, Free, Goto, IsNextPosition
  <2>4. ASSUME NEW p \in Prompt, RemovePrompt(p) PROVE BootInv'
    BY <2>4 DEF RemovePrompt, Visible, Pending, Rows
  <2>5. CASE Stop
    BY <2>5 DEF Stop, CancelStartup, BeforeDispatch, Visible
  <2>6. CASE End
    BY <2>6 DEF End, CancelStartup, BeforeDispatch, Visible
  <2>7. CASE Drain
    BY <2>7 DEF Drain
  <2>8. CASE Crash
    BY <2>8 DEF Crash
  <2> QED  BY <1>4, <2>1, <2>2, <2>3, <2>4, <2>5, <2>6, <2>7, <2>8 DEF Call
<1> QED  BY <1>1, <1>2, <1>3, <1>4 DEF Next

\* Every step keeps the queue accounted for: a claim passes from its delivery
\* to the deletion or the restoration of the row, and no row goes away untold.
LEMMA QueueInvStep ==
  TypeInv /\ BootInv /\ QueueInv /\ [Next]_vars => QueueInv'
PROOF
<1> SUFFICES ASSUME TypeInv, BootInv, QueueInv, [Next]_vars PROVE QueueInv'
  OBVIOUS
<1> USE DistinctAssumption DEF TypeInv, TypeOK, Origin, QueueInv, PromptOwner,
    SettlingHanded, ClaimHasOwner, NoPromptDropped, Rows,
    vars, row, prompts, plane, harness, control, turns
<1>1. CASE UNCHANGED vars
  BY <1>1
<1>2. ASSUME NEW t \in Turn, TurnStep(t) PROVE QueueInv'
  <2>1. CASE RegisterStartup(t)
    BY <2>1 DEF RegisterStartup, Goto
  <2>2. CASE PrepareWorkspace(t)
    BY <2>2 DEF PrepareWorkspace, Goto
  <2>3. CASE RecordWorkspace(t)
    BY <2>3 DEF RecordWorkspace, Goto
  <2>4. CASE Checkpoint(t)
    BY <2>4 DEF Checkpoint, Goto, Finish
  <2>5. CASE Unwind(t)
    BY <2>5 DEF Unwind, Leave, Goto
  <2>6. ASSUME NEW h \in Harness, StartHarness(t, h) PROVE QueueInv'
    BY <2>6 DEF BootInv, StartHarness, NewHarness, AfterStart, Goto
  <2>7. CASE StartHarnessFails(t)
    BY <2>7 DEF StartHarnessFails, Goto
  <2>8. CASE ResumeFails(t)
    BY <2>8 DEF BootInv, ResumeFails, Goto
  <2>9. CASE FailRun(t)
    BY <2>9 DEF FailRun, Goto, Finish
  <2>10. CASE Unreserve(t)
    BY <2>10 DEF Unreserve, Demote, Leave, Goto
  <2>11. CASE Reserve(t)
    BY <2>11 DEF Reserve, Promote, Leave, Goto
  <2>12. CASE AwaitStartup(t)
    BY <2>12 DEF AwaitStartup, Goto
  <2>13. CASE Refresh(t)
    BY <2>13 DEF Refresh, Goto
  <2>14. CASE Dispatch(t)
    BY <2>14 DEF Dispatch, Goto
  <2>15. CASE Coordinate(t)
    BY <2>15 DEF Coordinate, CoordinatorCancelled, Goto, Finish
  <2>16. CASE BeginTurn(t)
    BY <2>16 DEF BeginTurn, Goto
  <2>17. CASE EndTurn(t)
    BY <2>17 DEF EndTurn, Goto
  <2>18. CASE Complete(t)
    BY <2>18 DEF Complete, Finish, Goto
  <2>19. CASE Settle(t)
    BY <2>19 DEF Settle, Demote, Leave, Goto
  <2>20. CASE FailTurn(t)
    BY <2>20 DEF FailTurn, Finish, Goto
  <2>21. CASE DemoteAndLeave(t)
    BY <2>21 DEF DemoteAndLeave, Demote, Leave, Goto
  <2>22. CASE Deliver(t)
    BY <2>22 DEF Deliver, Leave, Goto, Head, Pending, Rows
  <2>23. CASE Admit(t)
    BY <2>23 DEF Admit, Goto
  <2>24. CASE Restore(t)
    BY <2>24 DEF Restore, Goto
  <2> QED  BY <1>2, <2>1, <2>2, <2>3, <2>4, <2>5, <2>6, <2>7, <2>8, <2>9,
      <2>10, <2>11, <2>12, <2>13, <2>14, <2>15, <2>16, <2>17, <2>18, <2>19,
      <2>20, <2>21, <2>22, <2>23, <2>24 DEF TurnStep
<1>3. CASE ControlStep
  <2>1. CASE LeaveStartup
    BY <2>1 DEF LeaveStartup
  <2>2. CASE StopHandle
    BY <2>2 DEF StopHandle, CancelHandle
  <2>3. CASE StopSweep
    BY <2>3 DEF StopSweep, InterruptRuns
  <2>4. CASE StopStatus
    BY <2>4 DEF StopStatus
  <2>5. CASE EndWait
    BY <2>5 DEF EndWait
  <2>6. CASE EndStatus
    BY <2>6 DEF EndStatus
  <2>7. CASE EndHandle
    BY <2>7 DEF EndHandle, CancelHandle
  <2>8. CASE EndQueue
    BY <2>8 DEF EndQueue, Rows
  <2>9. CASE EndSweep
    BY <2>9 DEF EndSweep, InterruptRuns
  <2>10. CASE EndTree
    BY <2>10 DEF EndTree
  <2>11. CASE RecoverClaims
    BY <2>11 DEF RecoverClaims
  <2>12. CASE BootDone
    BY <2>12 DEF BootDone
  <2>13. ASSUME NEW p \in Prompt, DeleteDelivered(p) PROVE QueueInv'
    BY <2>13 DEF DeleteDelivered
  <2>14. ASSUME NEW t \in Turn, Reconcile(t) PROVE QueueInv'
    BY <2>14 DEF Reconcile, GivesUp, Free, Goto
  <2>15. ASSUME NEW t \in Turn, BootDeliver(t) PROVE QueueInv'
    BY <2>15 DEF BootDeliver, Free, Goto
  <2> QED  BY <1>3, <2>1, <2>2, <2>3, <2>4, <2>5, <2>6, <2>7, <2>8, <2>9,
      <2>10, <2>11, <2>12, <2>13, <2>14, <2>15 DEF ControlStep
<1>4. CASE Call
  <2>1. ASSUME NEW t \in Turn, StartSession(t) PROVE QueueInv'
    BY <2>1 DEF StartSession, Free, Goto
  <2>2. ASSUME NEW t \in Turn, Continue(t) PROVE QueueInv'
    BY <2>2 DEF Continue, Visible, Free, Goto
  <2>3. ASSUME NEW t \in Turn, NEW p \in Prompt, Enqueue(t, p) PROVE QueueInv'
    BY <2>3 DEF Enqueue, Visible, Free, Goto, IsNextPosition
  <2>4. ASSUME NEW p \in Prompt, RemovePrompt(p) PROVE QueueInv'
    BY <2>4 DEF RemovePrompt, Visible, Pending, Rows
  <2>5. CASE Stop
    BY <2>5 DEF Stop, CancelStartup, BeforeDispatch, Visible
  <2>6. CASE End
    BY <2>6 DEF End, CancelStartup, BeforeDispatch, Visible
  <2>7. CASE Drain
    BY <2>7 DEF Drain
  <2>8. CASE Crash
    BY <2>8 DEF Crash
  <2> QED  BY <1>4, <2>1, <2>2, <2>3, <2>4, <2>5, <2>6, <2>7, <2>8 DEF Call
<1> QED  BY <1>1, <1>2, <1>3, <1>4 DEF Next

\* Every step keeps a startup that was cancelled in time from dispatching.
LEMMA StartInvStep ==
  TypeInv /\ BootInv /\ StartInv /\ [Next]_vars => StartInv'
PROOF
<1> SUFFICES ASSUME TypeInv, BootInv, StartInv, [Next]_vars PROVE StartInv'
  OBVIOUS
<1> USE DistinctAssumption DEF TypeInv, TypeOK, Origin, BootInv, StartInv,
    Undispatched, vars, row, prompts, plane, harness, control, turns
<1>1. CASE UNCHANGED vars
  BY <1>1
<1>2. ASSUME NEW t \in Turn, TurnStep(t) PROVE StartInv'
  <2>1. CASE RegisterStartup(t)
    BY <2>1 DEF RegisterStartup, Goto
  <2>2. CASE PrepareWorkspace(t)
    BY <2>2 DEF PrepareWorkspace, Goto
  <2>3. CASE RecordWorkspace(t)
    BY <2>3 DEF RecordWorkspace, Goto
  <2>4. CASE Checkpoint(t)
    BY <2>4 DEF Checkpoint, Goto, Finish
  <2>5. CASE Unwind(t)
    BY <2>5 DEF Unwind, Leave, Goto
  <2>6. ASSUME NEW h \in Harness, StartHarness(t, h) PROVE StartInv'
    BY <2>6 DEF StartHarness, NewHarness, AfterStart, Goto
  <2>7. CASE StartHarnessFails(t)
    BY <2>7 DEF StartHarnessFails, Goto
  <2>8. CASE ResumeFails(t)
    BY <2>8 DEF ResumeFails, Goto
  <2>9. CASE FailRun(t)
    BY <2>9 DEF FailRun, Goto, Finish
  <2>10. CASE Unreserve(t)
    BY <2>10 DEF Unreserve, Demote, Leave, Goto
  <2>11. CASE Reserve(t)
    BY <2>11 DEF Reserve, Promote, Leave, Goto
  <2>12. CASE AwaitStartup(t)
    BY <2>12 DEF AwaitStartup, Goto
  <2>13. CASE Refresh(t)
    BY <2>13 DEF Refresh, Goto
  <2>14. CASE Dispatch(t)
    BY <2>14 DEF Dispatch, Goto
  <2>15. CASE Coordinate(t)
    BY <2>15 DEF Coordinate, CoordinatorCancelled, Goto, Finish
  <2>16. CASE BeginTurn(t)
    BY <2>16 DEF BeginTurn, Goto
  <2>17. CASE EndTurn(t)
    BY <2>17 DEF EndTurn, Goto
  <2>18. CASE Complete(t)
    BY <2>18 DEF Complete, Finish, Goto
  <2>19. CASE Settle(t)
    BY <2>19 DEF Settle, Demote, Leave, Goto
  <2>20. CASE FailTurn(t)
    BY <2>20 DEF FailTurn, Finish, Goto
  <2>21. CASE DemoteAndLeave(t)
    BY <2>21 DEF DemoteAndLeave, Demote, Leave, Goto
  <2>22. CASE Deliver(t)
    BY <2>22 DEF Deliver, Leave, Goto, Head, Pending, Rows
  <2>23. CASE Admit(t)
    BY <2>23 DEF Admit, Goto
  <2>24. CASE Restore(t)
    BY <2>24 DEF Restore, Goto
  <2> QED  BY <1>2, <2>1, <2>2, <2>3, <2>4, <2>5, <2>6, <2>7, <2>8, <2>9,
      <2>10, <2>11, <2>12, <2>13, <2>14, <2>15, <2>16, <2>17, <2>18, <2>19,
      <2>20, <2>21, <2>22, <2>23, <2>24 DEF TurnStep
<1>3. CASE ControlStep
  <2>1. CASE LeaveStartup
    BY <2>1 DEF LeaveStartup
  <2>2. CASE StopHandle
    BY <2>2 DEF StopHandle, CancelHandle
  <2>3. CASE StopSweep
    BY <2>3 DEF StopSweep, InterruptRuns
  <2>4. CASE StopStatus
    BY <2>4 DEF StopStatus
  <2>5. CASE EndWait
    BY <2>5 DEF EndWait
  <2>6. CASE EndStatus
    BY <2>6 DEF EndStatus
  <2>7. CASE EndHandle
    BY <2>7 DEF EndHandle, CancelHandle
  <2>8. CASE EndQueue
    BY <2>8 DEF EndQueue, Rows
  <2>9. CASE EndSweep
    BY <2>9 DEF EndSweep, InterruptRuns
  <2>10. CASE EndTree
    BY <2>10 DEF EndTree
  <2>11. CASE RecoverClaims
    BY <2>11 DEF RecoverClaims
  <2>12. CASE BootDone
    BY <2>12 DEF BootDone
  <2>13. ASSUME NEW p \in Prompt, DeleteDelivered(p) PROVE StartInv'
    BY <2>13 DEF DeleteDelivered
  <2>14. ASSUME NEW t \in Turn, Reconcile(t) PROVE StartInv'
    BY <2>14 DEF Reconcile, GivesUp, Free, Goto
  <2>15. ASSUME NEW t \in Turn, BootDeliver(t) PROVE StartInv'
    BY <2>15 DEF BootDeliver, Free, Goto
  <2> QED  BY <1>3, <2>1, <2>2, <2>3, <2>4, <2>5, <2>6, <2>7, <2>8, <2>9,
      <2>10, <2>11, <2>12, <2>13, <2>14, <2>15 DEF ControlStep
<1>4. CASE Call
  <2>1. ASSUME NEW t \in Turn, StartSession(t) PROVE StartInv'
    BY <2>1 DEF StartSession, Free, Goto
  <2>2. ASSUME NEW t \in Turn, Continue(t) PROVE StartInv'
    BY <2>2 DEF Continue, Visible, Free, Goto
  <2>3. ASSUME NEW t \in Turn, NEW p \in Prompt, Enqueue(t, p) PROVE StartInv'
    BY <2>3 DEF Enqueue, Visible, Free, Goto, IsNextPosition
  <2>4. ASSUME NEW p \in Prompt, RemovePrompt(p) PROVE StartInv'
    BY <2>4 DEF RemovePrompt, Visible, Pending, Rows
  <2>5. CASE Stop
    BY <2>5 DEF Stop, CancelStartup, BeforeDispatch, Visible
  <2>6. CASE End
    BY <2>6 DEF End, CancelStartup, BeforeDispatch, Visible
  <2>7. CASE Drain
    BY <2>7 DEF Drain
  <2>8. CASE Crash
    BY <2>8 DEF Crash
  <2> QED  BY <1>4, <2>1, <2>2, <2>3, <2>4, <2>5, <2>6, <2>7, <2>8 DEF Call
<1> QED  BY <1>1, <1>2, <1>3, <1>4 DEF Next

\* Every step ends the run of a task before the task leaves.
LEMMA RunInvStep ==
  ASSUME "mention" \notin Env
  PROVE TypeInv /\ RunInv /\ [Next]_vars => RunInv'
PROOF
<1> SUFFICES ASSUME TypeInv, RunInv, [Next]_vars PROVE RunInv'
  OBVIOUS
<1> USE DistinctAssumption DEF TypeInv, TypeOK, Origin, RunInv, vars, row,
    prompts, plane, harness, control, turns
<1>1. CASE UNCHANGED vars
  BY <1>1
<1>2. ASSUME NEW t \in Turn, TurnStep(t) PROVE RunInv'
  <2>1. CASE RegisterStartup(t)
    BY <2>1 DEF RegisterStartup, Goto
  <2>2. CASE PrepareWorkspace(t)
    BY <2>2 DEF PrepareWorkspace, Goto
  <2>3. CASE RecordWorkspace(t)
    BY <2>3 DEF RecordWorkspace, Goto
  <2>4. CASE Checkpoint(t)
    BY <2>4 DEF Checkpoint, Goto, Finish
  <2>5. CASE Unwind(t)
    BY <2>5 DEF Unwind, Leave, Goto
  <2>6. ASSUME NEW h \in Harness, StartHarness(t, h) PROVE RunInv'
    BY <2>6 DEF StartHarness, NewHarness, AfterStart, Goto
  <2>7. CASE StartHarnessFails(t)
    BY <2>7 DEF StartHarnessFails, Goto
  <2>8. CASE ResumeFails(t)
    BY <2>8 DEF ResumeFails, Goto
  <2>9. CASE FailRun(t)
    BY <2>9 DEF FailRun, Goto, Finish
  <2>10. CASE Unreserve(t)
    BY <2>10 DEF Unreserve, Demote, Leave, Goto
  <2>11. CASE Reserve(t)
    BY <2>11 DEF Reserve, Promote, Leave, Goto
  <2>12. CASE AwaitStartup(t)
    BY <2>12 DEF AwaitStartup, Goto
  <2>13. CASE Refresh(t)
    BY <2>13 DEF Refresh, Goto
  <2>14. CASE Dispatch(t)
    BY <2>14 DEF Dispatch, Goto
  <2>15. CASE Coordinate(t)
    BY <2>15 DEF Coordinate, CoordinatorCancelled, Goto, Finish
  <2>16. CASE BeginTurn(t)
    BY <2>16 DEF BeginTurn, Goto
  <2>17. CASE EndTurn(t)
    BY <2>17 DEF EndTurn, Goto
  <2>18. CASE Complete(t)
    BY <2>18 DEF Complete, Finish, Goto
  <2>19. CASE Settle(t)
    BY <2>19 DEF Settle, Demote, Leave, Goto
  <2>20. CASE FailTurn(t)
    BY <2>20 DEF FailTurn, Finish, Goto
  <2>21. CASE DemoteAndLeave(t)
    BY <2>21 DEF DemoteAndLeave, Demote, Leave, Goto
  <2>22. CASE Deliver(t)
    BY <2>22 DEF Deliver, Leave, Goto, Head, Pending, Rows
  <2>23. CASE Admit(t)
    BY <2>23 DEF Admit, Goto
  <2>24. CASE Restore(t)
    BY <2>24 DEF Restore, Goto
  <2> QED  BY <1>2, <2>1, <2>2, <2>3, <2>4, <2>5, <2>6, <2>7, <2>8, <2>9,
      <2>10, <2>11, <2>12, <2>13, <2>14, <2>15, <2>16, <2>17, <2>18, <2>19,
      <2>20, <2>21, <2>22, <2>23, <2>24 DEF TurnStep
<1>3. CASE ControlStep
  <2>1. CASE LeaveStartup
    BY <2>1 DEF LeaveStartup
  <2>2. CASE StopHandle
    BY <2>2 DEF StopHandle, CancelHandle
  <2>3. CASE StopSweep
    BY <2>3 DEF StopSweep, InterruptRuns
  <2>4. CASE StopStatus
    BY <2>4 DEF StopStatus
  <2>5. CASE EndWait
    BY <2>5 DEF EndWait
  <2>6. CASE EndStatus
    BY <2>6 DEF EndStatus
  <2>7. CASE EndHandle
    BY <2>7 DEF EndHandle, CancelHandle
  <2>8. CASE EndQueue
    BY <2>8 DEF EndQueue, Rows
  <2>9. CASE EndSweep
    BY <2>9 DEF EndSweep, InterruptRuns
  <2>10. CASE EndTree
    BY <2>10 DEF EndTree
  <2>11. CASE RecoverClaims
    BY <2>11 DEF RecoverClaims
  <2>12. CASE BootDone
    BY <2>12 DEF BootDone
  <2>13. ASSUME NEW p \in Prompt, DeleteDelivered(p) PROVE RunInv'
    BY <2>13 DEF DeleteDelivered
  <2>14. ASSUME NEW t \in Turn, Reconcile(t) PROVE RunInv'
    BY <2>14 DEF Reconcile, GivesUp, Free, Goto
  <2>15. ASSUME NEW t \in Turn, BootDeliver(t) PROVE RunInv'
    BY <2>15 DEF BootDeliver, Free, Goto
  <2> QED  BY <1>3, <2>1, <2>2, <2>3, <2>4, <2>5, <2>6, <2>7, <2>8, <2>9,
      <2>10, <2>11, <2>12, <2>13, <2>14, <2>15 DEF ControlStep
<1>4. CASE Call
  <2>1. ASSUME NEW t \in Turn, StartSession(t) PROVE RunInv'
    BY <2>1 DEF StartSession, Free, Goto
  <2>2. ASSUME NEW t \in Turn, Continue(t) PROVE RunInv'
    BY <2>2 DEF Continue, Visible, Free, Goto
  <2>3. ASSUME NEW t \in Turn, NEW p \in Prompt, Enqueue(t, p) PROVE RunInv'
    BY <2>3 DEF Enqueue, Visible, Free, Goto, IsNextPosition
  <2>4. ASSUME NEW p \in Prompt, RemovePrompt(p) PROVE RunInv'
    BY <2>4 DEF RemovePrompt, Visible, Pending, Rows
  <2>5. CASE Stop
    BY <2>5 DEF Stop, CancelStartup, BeforeDispatch, Visible
  <2>6. CASE End
    BY <2>6 DEF End, CancelStartup, BeforeDispatch, Visible
  <2>7. CASE Drain
    BY <2>7 DEF Drain
  <2>8. CASE Crash
    BY <2>8 DEF Crash
  <2> QED  BY <1>4, <2>1, <2>2, <2>3, <2>4, <2>5, <2>6, <2>7, <2>8 DEF Call
<1> QED  BY <1>1, <1>2, <1>3, <1>4 DEF Next

\* Every step that takes the last turn past its demotion leaves the session out
\* of Running, or a stop, an end or a boot in charge of it.
LEMMA DriverInvStep ==
  ASSUME "invalid" \notin Env
  PROVE TypeInv /\ BootInv /\ StartInv /\ DriverInv /\ [Next]_vars
          => DriverInv'
PROOF
<1> SUFFICES ASSUME TypeInv, BootInv, StartInv, DriverInv, [Next]_vars
    PROVE  DriverInv'
  OBVIOUS
<1> USE DistinctAssumption DEF TypeInv, TypeOK, Origin, BootInv, DriverInv,
    WillDemote, Over, vars, row, prompts, plane, harness, control, turns
<1>1. CASE UNCHANGED vars
  BY <1>1
<1>2. ASSUME NEW t \in Turn, TurnStep(t) PROVE DriverInv'
  <2>1. CASE RegisterStartup(t)
    BY <2>1 DEF RegisterStartup, Goto
  <2>2. CASE PrepareWorkspace(t)
    BY <2>2 DEF PrepareWorkspace, Goto
  <2>3. CASE RecordWorkspace(t)
    BY <2>3 DEF RecordWorkspace, Goto
  <2>4. CASE Checkpoint(t)
    BY <2>4 DEF Checkpoint, Goto, Finish
  <2>5. CASE Unwind(t)
    BY <2>5 DEF Unwind, Leave, Goto
  <2>6. ASSUME NEW h \in Harness, StartHarness(t, h) PROVE DriverInv'
    BY <2>6 DEF StartHarness, NewHarness, AfterStart, Goto
  <2>7. CASE StartHarnessFails(t)
    BY <2>7 DEF StartHarnessFails, Goto
  <2>8. CASE ResumeFails(t)
    BY <2>8 DEF ResumeFails, Goto
  <2>9. CASE FailRun(t)
    BY <2>9 DEF FailRun, Goto, Finish
  <2>10. CASE Unreserve(t)
    BY <2>10 DEF Unreserve, Demote, Leave, Goto
  <2>11. CASE Reserve(t)
    BY <2>11 DEF Reserve, Promote, Leave, Goto
  <2>12. CASE AwaitStartup(t)
    BY <2>12 DEF AwaitStartup, Goto
  <2>13. CASE Refresh(t)
    BY <2>13 DEF Refresh, Goto
  <2>14. CASE Dispatch(t)
    BY <2>14 DEF Dispatch, Goto
  <2>15. CASE Coordinate(t)
    BY <2>15 DEF Coordinate, CoordinatorCancelled, Goto, Finish
  <2>16. CASE BeginTurn(t)
    BY <2>16 DEF BeginTurn, Goto
  <2>17. CASE EndTurn(t)
    BY <2>17 DEF EndTurn, Goto
  <2>18. CASE Complete(t)
    BY <2>18 DEF Complete, Finish, Goto
  <2>19. CASE Settle(t)
    BY <2>19 DEF Settle, Demote, Leave, Goto
  <2>20. CASE FailTurn(t)
    BY <2>20 DEF FailTurn, Finish, Goto
  <2>21. CASE DemoteAndLeave(t)
    BY <2>21 DEF DemoteAndLeave, Demote, Leave, Goto
  <2>22. CASE Deliver(t)
    BY <2>22 DEF Deliver, Leave, Goto, Head, Pending, Rows
  <2>23. CASE Admit(t)
    BY <2>23 DEF Admit, Goto
  <2>24. CASE Restore(t)
    BY <2>24 DEF Restore, Goto
  <2> QED  BY <1>2, <2>1, <2>2, <2>3, <2>4, <2>5, <2>6, <2>7, <2>8, <2>9,
      <2>10, <2>11, <2>12, <2>13, <2>14, <2>15, <2>16, <2>17, <2>18, <2>19,
      <2>20, <2>21, <2>22, <2>23, <2>24 DEF TurnStep
<1>3. CASE ControlStep
  <2>1. CASE LeaveStartup
    BY <2>1 DEF LeaveStartup
  <2>2. CASE StopHandle
    BY <2>2 DEF StopHandle, CancelHandle
  <2>3. CASE StopSweep
    BY <2>3 DEF StopSweep, InterruptRuns
  <2>4. CASE StopStatus
    BY <2>4 DEF StopStatus
  <2>5. CASE EndWait
    BY <2>5 DEF EndWait
  <2>6. CASE EndStatus
    BY <2>6 DEF EndStatus
  <2>7. CASE EndHandle
    BY <2>7 DEF EndHandle, CancelHandle
  <2>8. CASE EndQueue
    BY <2>8 DEF EndQueue, Rows
  <2>9. CASE EndSweep
    BY <2>9 DEF EndSweep, InterruptRuns
  <2>10. CASE EndTree
    BY <2>10 DEF EndTree
  <2>11. CASE RecoverClaims
    BY <2>11 DEF RecoverClaims
  <2>12. CASE BootDone
    BY <2>12 DEF BootDone
  <2>13. ASSUME NEW p \in Prompt, DeleteDelivered(p) PROVE DriverInv'
    BY <2>13 DEF DeleteDelivered
  <2>14. ASSUME NEW t \in Turn, Reconcile(t) PROVE DriverInv'
    BY <2>14 DEF Reconcile, GivesUp, Free, Goto
  <2>15. ASSUME NEW t \in Turn, BootDeliver(t) PROVE DriverInv'
    BY <2>15 DEF BootDeliver, Free, Goto
  <2> QED  BY <1>3, <2>1, <2>2, <2>3, <2>4, <2>5, <2>6, <2>7, <2>8, <2>9,
      <2>10, <2>11, <2>12, <2>13, <2>14, <2>15 DEF ControlStep
<1>4. CASE Call
  <2>1. ASSUME NEW t \in Turn, StartSession(t) PROVE DriverInv'
    BY <2>1 DEF StartSession, Free, Goto
  <2>2. ASSUME NEW t \in Turn, Continue(t) PROVE DriverInv'
    BY <2>2 DEF Continue, Visible, Free, Goto
  <2>3. ASSUME NEW t \in Turn, NEW p \in Prompt, Enqueue(t, p) PROVE DriverInv'
    BY <2>3 DEF Enqueue, Visible, Free, Goto, IsNextPosition
  <2>4. ASSUME NEW p \in Prompt, RemovePrompt(p) PROVE DriverInv'
    BY <2>4 DEF RemovePrompt, Visible, Pending, Rows
  <2>5. CASE Stop
    BY <2>5 DEF Stop, CancelStartup, BeforeDispatch, Visible
  <2>6. CASE End
    BY <2>6 DEF End, CancelStartup, BeforeDispatch, Visible
  <2>7. CASE Drain
    BY <2>7 DEF Drain
  <2>8. CASE Crash
    BY <2>8 DEF Crash
  <2> QED  BY <1>4, <2>1, <2>2, <2>3, <2>4, <2>5, <2>6, <2>7, <2>8 DEF Call
<1> QED  BY <1>1, <1>2, <1>3, <1>4 DEF Next
\* Every step keeps teardown and workspace preparation apart.
LEMMA TreeInvStep ==
  ASSUME {"early", "timeout", "crash"} \cap Env = {}
  PROVE TypeInv /\ StartInv /\ TreeInv /\ [Next]_vars => TreeInv'
PROOF
<1> SUFFICES ASSUME TypeInv, StartInv, TreeInv, [Next]_vars PROVE TreeInv'
  OBVIOUS
<1> USE DistinctAssumption DEF TypeInv, TypeOK, Origin, StartInv, TreeInv,
    Preparing, vars, row, prompts, plane, harness, control, turns
<1>1. CASE UNCHANGED vars
  BY <1>1
<1>2. ASSUME NEW t \in Turn, TurnStep(t) PROVE TreeInv'
  <2>1. CASE RegisterStartup(t)
    BY <2>1 DEF RegisterStartup, Goto
  <2>2. CASE PrepareWorkspace(t)
    BY <2>2 DEF PrepareWorkspace, Goto
  <2>3. CASE RecordWorkspace(t)
    BY <2>3 DEF RecordWorkspace, Goto
  <2>4. CASE Checkpoint(t)
    BY <2>4 DEF Checkpoint, Goto, Finish
  <2>5. CASE Unwind(t)
    BY <2>5 DEF Unwind, Leave, Goto
  <2>6. ASSUME NEW h \in Harness, StartHarness(t, h) PROVE TreeInv'
    BY <2>6 DEF StartHarness, NewHarness, AfterStart, Goto
  <2>7. CASE StartHarnessFails(t)
    BY <2>7 DEF StartHarnessFails, Goto
  <2>8. CASE ResumeFails(t)
    BY <2>8 DEF ResumeFails, Goto
  <2>9. CASE FailRun(t)
    BY <2>9 DEF FailRun, Goto, Finish
  <2>10. CASE Unreserve(t)
    BY <2>10 DEF Unreserve, Demote, Leave, Goto
  <2>11. CASE Reserve(t)
    BY <2>11 DEF Reserve, Promote, Leave, Goto
  <2>12. CASE AwaitStartup(t)
    BY <2>12 DEF AwaitStartup, Goto
  <2>13. CASE Refresh(t)
    BY <2>13 DEF Refresh, Goto
  <2>14. CASE Dispatch(t)
    BY <2>14 DEF Dispatch, Goto
  <2>15. CASE Coordinate(t)
    BY <2>15 DEF Coordinate, CoordinatorCancelled, Goto, Finish
  <2>16. CASE BeginTurn(t)
    BY <2>16 DEF BeginTurn, Goto
  <2>17. CASE EndTurn(t)
    BY <2>17 DEF EndTurn, Goto
  <2>18. CASE Complete(t)
    BY <2>18 DEF Complete, Finish, Goto
  <2>19. CASE Settle(t)
    BY <2>19 DEF Settle, Demote, Leave, Goto
  <2>20. CASE FailTurn(t)
    BY <2>20 DEF FailTurn, Finish, Goto
  <2>21. CASE DemoteAndLeave(t)
    BY <2>21 DEF DemoteAndLeave, Demote, Leave, Goto
  <2>22. CASE Deliver(t)
    BY <2>22 DEF Deliver, Leave, Goto, Head, Pending, Rows
  <2>23. CASE Admit(t)
    BY <2>23 DEF Admit, Goto
  <2>24. CASE Restore(t)
    BY <2>24 DEF Restore, Goto
  <2> QED  BY <1>2, <2>1, <2>2, <2>3, <2>4, <2>5, <2>6, <2>7, <2>8, <2>9,
      <2>10, <2>11, <2>12, <2>13, <2>14, <2>15, <2>16, <2>17, <2>18, <2>19,
      <2>20, <2>21, <2>22, <2>23, <2>24 DEF TurnStep
<1>3. CASE ControlStep
  <2>1. CASE LeaveStartup
    BY <2>1 DEF LeaveStartup
  <2>2. CASE StopHandle
    BY <2>2 DEF StopHandle, CancelHandle
  <2>3. CASE StopSweep
    BY <2>3 DEF StopSweep, InterruptRuns
  <2>4. CASE StopStatus
    BY <2>4 DEF StopStatus
  <2>5. CASE EndWait
    BY <2>5 DEF EndWait
  <2>6. CASE EndStatus
    BY <2>6 DEF EndStatus
  <2>7. CASE EndHandle
    BY <2>7 DEF EndHandle, CancelHandle
  <2>8. CASE EndQueue
    BY <2>8 DEF EndQueue, Rows
  <2>9. CASE EndSweep
    BY <2>9 DEF EndSweep, InterruptRuns
  <2>10. CASE EndTree
    BY <2>10 DEF EndTree
  <2>11. CASE RecoverClaims
    BY <2>11 DEF RecoverClaims
  <2>12. CASE BootDone
    BY <2>12 DEF BootDone
  <2>13. ASSUME NEW p \in Prompt, DeleteDelivered(p) PROVE TreeInv'
    BY <2>13 DEF DeleteDelivered
  <2>14. ASSUME NEW t \in Turn, Reconcile(t) PROVE TreeInv'
    BY <2>14 DEF Reconcile, GivesUp, Free, Goto
  <2>15. ASSUME NEW t \in Turn, BootDeliver(t) PROVE TreeInv'
    BY <2>15 DEF BootDeliver, Free, Goto
  <2> QED  BY <1>3, <2>1, <2>2, <2>3, <2>4, <2>5, <2>6, <2>7, <2>8, <2>9,
      <2>10, <2>11, <2>12, <2>13, <2>14, <2>15 DEF ControlStep
<1>4. CASE Call
  <2>1. ASSUME NEW t \in Turn, StartSession(t) PROVE TreeInv'
    BY <2>1 DEF StartSession, Free, Goto
  <2>2. ASSUME NEW t \in Turn, Continue(t) PROVE TreeInv'
    BY <2>2 DEF Continue, Visible, Free, Goto
  <2>3. ASSUME NEW t \in Turn, NEW p \in Prompt, Enqueue(t, p) PROVE TreeInv'
    BY <2>3 DEF Enqueue, Visible, Free, Goto, IsNextPosition
  <2>4. ASSUME NEW p \in Prompt, RemovePrompt(p) PROVE TreeInv'
    BY <2>4 DEF RemovePrompt, Visible, Pending, Rows
  <2>5. CASE Stop
    BY <2>5 DEF Stop, CancelStartup, BeforeDispatch, Visible
  <2>6. CASE End
    BY <2>6 DEF End, CancelStartup, BeforeDispatch, Visible
  <2>7. CASE Drain
    BY <2>7 DEF Drain
  <2>8. CASE Crash
    BY <2>8 DEF Crash
  <2> QED  BY <1>4, <2>1, <2>2, <2>3, <2>4, <2>5, <2>6, <2>7, <2>8 DEF Call
<1> QED  BY <1>1, <1>2, <1>3, <1>4 DEF Next

\* No step takes a session out of Interrupted or Ended to Idle or Running.
LEMMA StopWinsStep == BootInv /\ [Next]_vars => (Over(sess) => Over(sess'))
PROOF
<1> SUFFICES ASSUME BootInv, [Next]_vars, Over(sess) PROVE Over(sess')
  OBVIOUS
<1> USE DEF Over, vars, row
<1>1. CASE UNCHANGED vars
  BY <1>1
<1>2. ASSUME NEW t \in Turn, TurnStep(t) PROVE Over(sess')
  <2>1. CASE \/ RegisterStartup(t) \/ PrepareWorkspace(t) \/ RecordWorkspace(t)
             \/ Checkpoint(t) \/ Unwind(t)
             \/ (\E h \in Harness : StartHarness(t, h))
             \/ StartHarnessFails(t) \/ FailRun(t) \/ AwaitStartup(t)
             \/ Refresh(t) \/ Dispatch(t) \/ Coordinate(t)
             \/ BeginTurn(t) \/ EndTurn(t) \/ Complete(t) \/ FailTurn(t)
             \/ Admit(t) \/ Restore(t)
    BY <2>1 DEF RegisterStartup, PrepareWorkspace, RecordWorkspace, Checkpoint,
                Unwind, StartHarness, StartHarnessFails, FailRun, AwaitStartup,
                Refresh, Dispatch, Coordinate, BeginTurn, EndTurn, Complete,
                FailTurn, Admit, Restore
  <2>2. CASE \/ Unreserve(t) \/ Reserve(t) \/ Settle(t) \/ DemoteAndLeave(t)
             \/ Deliver(t)
    BY <2>2 DEF Unreserve, Reserve, Settle, DemoteAndLeave, Deliver, Demote,
                Promote
  <2>3. CASE ResumeFails(t)
    BY <2>3 DEF ResumeFails, BootInv
  <2> QED  BY <1>2, <2>1, <2>2, <2>3 DEF TurnStep
<1>3. CASE ControlStep
  BY <1>3 DEF ControlStep, LeaveStartup, DeleteDelivered, StopHandle,
      StopSweep,
              StopStatus, EndWait, EndStatus, EndHandle, EndQueue, EndSweep,
              EndTree, RecoverClaims, Reconcile, BootDeliver, BootDone
<1>4. CASE Call
  BY <1>4 DEF Call, StartSession, Continue, Enqueue, RemovePrompt, Stop, End,
              Drain, Crash
<1> QED  BY <1>1, <1>2, <1>3, <1>4 DEF Next

-----------------------------------------------------------------------------
(* Theorems                                                                *)

SafetyInv == TypeInv /\ BootInv /\ QueueInv /\ StartInv

\* The initial states satisfy the invariant, and its three conditional parts.
LEMMA InitInv == Init => SafetyInv /\ RunInv /\ DriverInv /\ TreeInv
PROOF
<1> SUFFICES ASSUME Init PROVE SafetyInv /\ RunInv /\ DriverInv /\ TreeInv
  OBVIOUS
<1> USE EnvAssumption, DistinctAssumption DEF Init, Origin
<1>1. TypeInv
  <2>1. sid \in BOOLEAN /\ cut \in [Harness -> BOOLEAN]
    BY Zenon
  <2>2. startTok \in BOOLEAN /\ draining \in BOOLEAN /\ tooLate \in BOOLEAN
    BY Zenon
  <2>3. sess \in {"none", "idle", "running", "interrupted", "ended"}
    BY Zenon
  <2> QED  BY <2>1, <2>2, <2>3 DEF TypeInv, TypeOK, HasHandle, TurnPc
<1>2. BootInv /\ StartInv
  BY DEF BootInv, StartInv, ResumePc, Undispatched
<1>3. QueueInv
  BY DEF QueueInv, PromptOwner, SettlingHanded, ClaimHasOwner, NoPromptDropped
<1>4. RunInv /\ TreeInv
  BY DEF RunInv, TreeInv, Preparing
<1>5. DriverInv
  BY DEF DriverInv
<1> QED  BY <1>1, <1>2, <1>3, <1>4, <1>5 DEF SafetyInv

\* The conjunction of the four parts is an invariant of every session.
THEOREM Safety == Spec => []SafetyInv
PROOF
<1>1. Init => SafetyInv
  BY InitInv
<1>2. SafetyInv /\ [Next]_vars => SafetyInv'
  BY TypeInvStep, BootInvStep, QueueInvStep, StartInvStep DEF SafetyInv
<1> QED  BY <1>1, <1>2, PTL DEF Spec

\* Every variable keeps its type; in particular resume_attempts never passes
\* the cap of resume_session, however often the daemon crashes.
THEOREM TypeCorrect == Spec => []TypeOK
PROOF
<1>1. SafetyInv => TypeOK
  BY DEF SafetyInv, TypeInv
<1> QED  BY <1>1, Safety, PTL

\* A claimed row of session_prompt_queue always has an owner that will delete
\* or restore it, or a boot that will recover it.
THEOREM ClaimsAreOwned == Spec => []ClaimHasOwner
PROOF
<1>1. SafetyInv => ClaimHasOwner
  BY DEF SafetyInv, QueueInv
<1> QED  BY <1>1, Safety, PTL

\* No accepted prompt leaves the table before a turn was given it, unless a
\* client removed it or ended the session.
THEOREM PromptsAreKept == Spec => []NoPromptDropped
PROOF
<1>1. SafetyInv => NoPromptDropped
  BY DEF SafetyInv, QueueInv
<1> QED  BY <1>1, Safety, PTL

\* A startup whose token was cancelled before its last checkpoint never sends
\* the first prompt.
THEOREM StartupIsStopped == Spec => []StoppedStartupNeverPrompts
PROOF
<1>1. SafetyInv => StoppedStartupNeverPrompts
  BY DEF SafetyInv, StartInv, Undispatched, StoppedStartupNeverPrompts
<1> QED  BY <1>1, Safety, PTL

\* Interrupted and Ended are final: update_status of stop_session and
\* end_session is never undone by a demotion, a reservation, a claim or a boot.
THEOREM StopIsFinal == Spec => StopWins
PROOF
<1>1. SafetyInv => BootInv
  BY DEF SafetyInv
<1> QED  BY <1>1, Safety, StopWinsStep, PTL DEF Spec, StopWins

\* Without explicit mentions, a primary run that is active has a task that will
\* end it, or met the drain latch.
THEOREM RunsAreDriven ==
  ASSUME "mention" \notin Env
  PROVE  Spec => []RunHasDriver
PROOF
<1>1. Init => RunInv
  BY InitInv
<1>2. SafetyInv /\ RunInv /\ [Next]_vars => RunInv'
  BY RunInvStep DEF SafetyInv
<1>3. RunInv => RunHasDriver
  BY DEF RunInv, RunHasDriver
<1> QED  BY <1>1, <1>2, <1>3, Safety, PTL DEF Spec

\* While the agent of a session still resolves at boot, a session is Running
\* only with a turn, a delivery, a stop, an end or the boot still to act on it:
\* no error path of a startup, continuation, resume or delivery wedges it.
THEOREM RunningIsDriven ==
  ASSUME "invalid" \notin Env
  PROVE  Spec => []RunningHasDriver
PROOF
<1>1. Init => DriverInv
  BY InitInv
<1>2. SafetyInv /\ DriverInv /\ [Next]_vars => DriverInv'
  BY DriverInvStep DEF SafetyInv
<1>3. DriverInv => RunningHasDriver
  BY DEF DriverInv, WillDemote, RunningHasDriver
<1> QED  BY <1>1, <1>2, <1>3, Safety, PTL DEF Spec

\* When clients wait for the starting call to return, the startup unwinds
\* within the bounded wait and the daemon does not crash, an ended session
\* leaves no worktree behind.
THEOREM WorktreesAreReclaimed ==
  ASSUME {"early", "timeout", "crash"} \cap Env = {}
  PROVE  Spec => []WorktreeIsReclaimed
PROOF
<1>1. Init => TreeInv
  BY InitInv
<1>2. SafetyInv /\ TreeInv /\ [Next]_vars => TreeInv'
  BY TreeInvStep DEF SafetyInv
<1>3. TreeInv => WorktreeIsReclaimed
  BY DEF TreeInv, WorktreeIsReclaimed
<1> QED  BY <1>1, <1>2, <1>3, Safety, PTL DEF Spec
=============================================================================

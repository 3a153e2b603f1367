------------------------------ MODULE Scheduler ------------------------------
(***************************************************************************)
(* The cron scheduler, followed along one job (jobs share nothing but the   *)
(* tick): the tick that finds it due, the detached task that runs the wake  *)
(* gate, inserts the run row, starts the agent session and watches it, the  *)
(* report that the watcher puts on the background rail for the chat the job *)
(* is bound to, "Run now", and the edits of the job that happen meanwhile   *)
(* (scheduler.rs, api/scheduler_api.rs, control/app_control.rs).  A restart *)
(* closes the runs the dead process left (ControlPlane::reconcile).         *)
(***************************************************************************)
EXTENDS BackgroundRail, FiniteSets

CONSTANTS
  Run,        \* ids of fires, each with its run row and report: the bound on them
  MaxCrashes  \* bound: crashes of the daemon

ASSUME SchedulerAssumption ==
  /\ Event = Run \cup Outcome
  /\ Run \cap Outcome = {}
  /\ MaxCrashes \in Nat

VARIABLES
  job,    \* the row of jobs and its anchor job_last_fired
  row,    \* job_runs.status; "gone": deleted with the job
  task,   \* the task of a fire: its step, and the chat the job was bound to when
          \* the task last read it
  edit,   \* the users' requests to change the job: what each has still to write
  boot,   \* "down", "booting" (loops run, reconcile has not), "up"
  crashes,
  choice,    \* history: the chat the job reports to by the users' last word
  since,     \* history: the choices in force since the run was closed
  restored   \* history: the chats a stale copy of the row has bound the job to

history == <<choice, since, restored>>
schedVars == <<job, row, task, edit, boot, crashes, history>>
vars == <<railVars, schedVars>>

\* due: no anchor yet, the next occurrence lies ahead, or it has passed.
JobRow == [there : BOOLEAN, on : BOOLEAN, due : {"unanchored", "no", "yes"},
           home : Chat \cup {None}]

\* What a request has still to write: the row it has in hand, or the anchor.
Request == [step : {"none", "update", "toggle", "pause", "anchor"}, on : BOOLEAN,
            home : Chat \cup {None}]

\* "deaf": the watcher has missed the end of the session.
Step == {"none", "gate", "insert", "start", "watch", "deaf", "home", "clear", "post",
         "done"}

TypeOK ==
  /\ RailTypeOK
  /\ job \in JobRow
  /\ row \in [Run -> {"none", "running", "success", "failed", "gone"}]
  /\ task \in [Run -> [step : Step, home : Chat \cup {None}]]
  /\ edit \in [1 .. MaxActs -> Request]
  /\ boot \in {"down", "booting", "up"}
  /\ crashes \in 0 .. MaxCrashes
  /\ choice \in Chat \cup {None}
  /\ since \in [Run -> SUBSET Chat]
  /\ restored \subseteq Chat

NoRequest == [step |-> "none", on |-> FALSE, home |-> None]
NoTask == [step |-> "none", home |-> None]
Over == [step |-> "done", home |-> None]

\* A job somebody has just created and bound to a chat.
Init ==
  /\ RailInit
  /\ choice \in Chat
  /\ job = [there |-> TRUE, on |-> TRUE, due |-> "unanchored", home |-> choice]
  /\ row = [r \in Run |-> "none"]
  /\ task = [r \in Run |-> NoTask]
  /\ edit = [n \in 1 .. MaxActs |-> NoRequest]
  /\ boot = "up"
  /\ crashes = 0
  /\ since = [r \in Run |-> {}]
  /\ restored = {}

Alive == boot # "down"

HasRunningRun == \E r \in Run : row[r] = "running"

Fresh == {r \in Run : task[r].step = "none"}
NextRun == CHOOSE r \in Fresh : TRUE

At(r, step) == Alive /\ task[r].step = step
Goes(r, step) == task' = [task EXCEPT ![r].step = step]

\* What remains of a task then is to announce the end of its run (the gateway
\* log, the automation event, JobRunChanged), which nothing here depends on.
Stops(r) == task' = [task EXCEPT ![r] = Over]

\* A fire works on a copy of the job row, its binding included.
Fires(step) ==
  task' = [task EXCEPT ![NextRun] = [step |-> step, home |-> job.home]]

\* The runs whose watcher is past its verdict, with the binding they may use.
Closed == {r \in Run : task[r].step \in {"home", "post", "clear"}}

\* The users' last word on where the job reports.
Chooses(h) ==
  /\ choice' = h
  /\ since' = [r \in Run |-> IF r \in Closed THEN since[r] \cup ({h} \ {None})
                             ELSE since[r]]
  /\ UNCHANGED restored

-----------------------------------------------------------------------------
\* The clock and the tick

ClockPasses ==
  /\ job.due = "no"
  /\ Fresh # {}
  /\ job' = [job EXCEPT !.due = "yes"]
  /\ UNCHANGED <<railVars, row, task, edit, boot, crashes, history>>

\* scheduler::tick: the first sighting anchors; a due job without a running run
\* is re-anchored and fired on a task of its own.
Tick ==
  /\ Alive
  /\ job.there /\ job.on
  /\ \/ /\ job.due = "unanchored"
        /\ job' = [job EXCEPT !.due = "no"]
        /\ UNCHANGED task
     \/ /\ job.due = "yes"
        /\ ~HasRunningRun
        /\ Fresh # {}
        /\ job' = [job EXCEPT !.due = "no"]
        /\ Fires("gate")
  /\ UNCHANGED <<railVars, row, edit, boot, crashes, history>>

\* run_pre_check: the fire is skipped or wakes.
Gate(r) ==
  /\ At(r, "gate")
  /\ Goes(r, "insert") \/ Stops(r)
  /\ UNCHANGED <<railVars, job, row, edit, boot, crashes, history>>

\* run_job_now, from the API or from the app-control tool.
RunNow ==
  /\ boot = "up"
  /\ job.there
  /\ ~HasRunningRun
  /\ Fresh # {}
  /\ Fires("insert")
  /\ UNCHANGED <<railVars, job, row, edit, boot, crashes, history>>

-----------------------------------------------------------------------------
\* run_job

\* insert_run: the job may have been deleted meanwhile.
Insert(r) ==
  /\ At(r, "insert")
  /\ row' = [row EXCEPT ![r] = "running"]
  /\ Goes(r, "start")
  /\ UNCHANGED <<railVars, job, edit, boot, crashes, history>>

\* finalize_run is an UPDATE without a condition on the status.
Finalized(r, st) == [row EXCEPT ![r] = IF @ = "gone" THEN @ ELSE st]

\* start_session_with_prompt starts the session or fails.
Start(r) ==
  /\ At(r, "start")
  /\ \/ Goes(r, "watch") /\ UNCHANGED row
     \/ Stops(r) /\ row' = Finalized(r, "failed")
  /\ UNCHANGED <<railVars, job, edit, boot, crashes, history>>

\* The watcher hears the first turn of the session end, closes the run, and
\* goes on to the report unless the turn failed or its reply is [SILENT].
Hear(r) ==
  /\ At(r, "watch")
  /\ \/ /\ row' = Finalized(r, "success")
        /\ Goes(r, "home")
        /\ since' = [since EXCEPT ![r] = {choice} \ {None}]
     \/ /\ \E st \in {"success", "failed"} : row' = Finalized(r, st)
        /\ Stops(r)
        /\ UNCHANGED since
  /\ UNCHANGED <<railVars, job, edit, boot, crashes, choice, restored>>

\* The broadcast drops the event of a listener that lags.
Miss(r) ==
  /\ At(r, "watch")
  /\ Fails
  /\ Goes(r, "deaf")
  /\ UNCHANGED <<chat, rail, order, drain, seen, purging, orphans, acts,
                 job, row, edit, boot, crashes, history>>

\* Mutant: the deadline of a run is that of its session.
Timeout_WhileLive(r) ==
  /\ At(r, "watch")
  /\ row' = Finalized(r, "failed")
  /\ Stops(r)
  /\ UNCHANGED <<railVars, job, edit, boot, crashes, history>>

\* Two hours have passed.
Timeout(r) ==
  /\ At(r, "watch") \/ At(r, "deaf")
  /\ row' = Finalized(r, "failed")
  /\ Stops(r)
  /\ UNCHANGED <<railVars, job, edit, boot, crashes, history>>

-----------------------------------------------------------------------------
\* deliver_to_home_chat

\* The chat is looked up: a chat that is there and not ended gets the report.
Looked(r, c) ==
  IF c = None THEN Stops(r)
  ELSE task' = [task EXCEPT ![r] = [step |-> IF chat[c] \in {"ended", "gone"}
                                             THEN "clear" ELSE "post",
                                    home |-> c]]

\* Mutant: the binding the job had when it fired is used.
ReadJob_Snapshot(r) ==
  /\ At(r, "home")
  /\ Looked(r, task[r].home)
  /\ UNCHANGED <<railVars, job, row, edit, boot, crashes, history>>

\* The job is read again.
ReadJob(r) ==
  /\ At(r, "home")
  /\ Looked(r, IF job.there THEN job.home ELSE None)
  /\ UNCHANGED <<railVars, job, row, edit, boot, crashes, history>>

\* clear_home_session: whatever the job is bound to by now.
ClearHome(r) ==
  /\ At(r, "clear")
  /\ job' = [job EXCEPT !.home = None]
  /\ Chooses(None)
  /\ Stops(r)
  /\ UNCHANGED <<railVars, row, edit, boot, crashes>>

\* The report is enqueued for the chat that was read and checked before.
Post(r) ==
  /\ At(r, "post")
  /\ Enqueue(r, task[r].home)
  /\ Stops(r)
  /\ UNCHANGED <<chat, drain, seen, purging, orphans, acts, faults,
                 job, row, edit, boot, crashes, history>>

-----------------------------------------------------------------------------
\* The users' edits.  Each reads the row in one await and upserts the whole of
\* it in a later one, so that two of them may cross.

Begins(step, on, home) ==
  /\ boot = "up" /\ Acts
  /\ job.there
  /\ edit' = [edit EXCEPT ![acts'] = [step |-> step, on |-> on, home |-> home]]
  /\ UNCHANGED <<chat, rail, order, drain, seen, purging, orphans, faults,
                 job, row, task, boot, crashes, history>>

\* update_job keeps the flag; the chat it binds the job to has a row.
BeginUpdate ==
  \E h \in {c \in Chat : chat[c] # "gone"} \cup {None} :
    Begins("update", job.on, h)

\* toggle_job of the API changes the flag of the row it has read ...
BeginToggle == \E on \in BOOLEAN : Begins("toggle", on, job.home)

\* ... and so does set_job_enabled of the app-control tool.  The sync of the
\* plugin that installed the job upserts what it has read with the flag it had.
BeginPause == \E on \in BOOLEAN : Begins("pause", on, job.home)

Upserts(n) ==
  job' = [there |-> TRUE, on |-> edit[n].on, due |-> job.due, home |-> edit[n].home]

\* upsert_job: a job deleted in between is back.
Update(n) ==
  /\ edit[n].step = "update"
  /\ Upserts(n)
  /\ Chooses(edit[n].home)
  /\ edit' = [edit EXCEPT ![n] = NoRequest]
  /\ UNCHANGED <<railVars, row, task, boot, crashes>>

\* The same upsert, with the binding as it was read.  toggle_job goes on to the
\* anchor.
Flip(n) ==
  /\ edit[n].step \in {"toggle", "pause"}
  /\ Upserts(n)
  /\ restored' = IF job.there /\ job.home = edit[n].home THEN restored
                 ELSE restored \cup ({edit[n].home} \ {None})
  /\ edit' = [edit EXCEPT ![n] = IF @.step = "toggle" THEN [@ EXCEPT !.step = "anchor"]
                                 ELSE NoRequest]
  /\ UNCHANGED <<railVars, row, task, boot, crashes, choice, since>>

\* toggle_job: a long-past occurrence is not to fire; the tick may have been
\* faster.
Reanchor(n) ==
  /\ edit[n].step = "anchor"
  /\ job' = [job EXCEPT !.due = "no"]
  /\ edit' = [edit EXCEPT ![n] = NoRequest]
  /\ UNCHANGED <<railVars, row, task, boot, crashes, history>>

DeleteJob ==
  /\ boot = "up" /\ Acts
  /\ job.there
  /\ job' = [job EXCEPT !.there = FALSE]
  /\ Chooses(None)
  /\ row' = [r \in Run |-> IF row[r] = "none" THEN "none" ELSE "gone"]
  /\ UNCHANGED <<chat, rail, order, drain, seen, purging, orphans, faults,
                 task, edit, boot, crashes>>

Users ==
  \/ BeginUpdate \/ BeginToggle \/ BeginPause \/ DeleteJob
  \/ \E n \in 1 .. MaxActs : Update(n) \/ Flip(n) \/ Reanchor(n)

-----------------------------------------------------------------------------
\* Crash and restart

Crash ==
  /\ Alive
  /\ crashes < MaxCrashes
  /\ crashes' = crashes + 1
  /\ boot' = "down"
  /\ RailCrash
  /\ task' = [r \in Run |-> IF task[r].step = "none" THEN NoTask ELSE Over]
  /\ edit' = [n \in 1 .. MaxActs |-> NoRequest]
  /\ UNCHANGED <<job, row, history>>

\* Mutant: the claims of the dead process are handed out again.
Boot_ReleasesClaims ==
  /\ boot = "down"
  /\ boot' = "booting"
  /\ rail' = [e \in Event |-> IF rail[e].st = "claimed"
                              THEN [rail[e] EXCEPT !.st = "pending"] ELSE rail[e]]
  /\ UNCHANGED <<chat, order, drain, seen, purging, orphans, acts, faults,
                 job, row, task, edit, crashes, history>>

\* build_daemon spawns the scheduler and the rail.
Boot ==
  /\ boot = "down"
  /\ boot' = "booting"
  /\ UNCHANGED <<railVars, job, row, task, edit, crashes, history>>

\* fail_incomplete_runs_on_restart, called from Daemon::start.
Reconcile ==
  /\ boot = "booting"
  /\ boot' = "up"
  /\ row' = [r \in Run |-> IF row[r] = "running" THEN "failed" ELSE row[r]]
  /\ UNCHANGED <<railVars, job, task, edit, crashes, history>>

-----------------------------------------------------------------------------
RunTask(r) ==
  \/ Gate(r) \/ Insert(r) \/ Start(r) \/ Hear(r) \/ Timeout(r)
  \/ ReadJob(r) \/ ClearHome(r) \/ Post(r)

RailStep == Alive /\ (Drainer \/ Chats) /\ UNCHANGED schedVars

Next ==
  \/ ClockPasses \/ Tick \/ RunNow
  \/ \E r \in Run : RunTask(r) \/ Miss(r)
  \/ Users
  \/ Crash \/ Boot \/ Reconcile
  \/ RailStep

\* The loops poll, tasks run, a watcher has a deadline, a crashed daemon is
\* started again, and the turn of a chat ends: in the code it may be parked on an
\* approval, which has no deadline.  The session of a run, users and the clock owe
\* nothing.
Fairness ==
  /\ WF_vars(Tick)
  /\ \A r \in Run : WF_vars(RunTask(r))
  /\ WF_vars(Boot \/ Reconcile)
  /\ WF_vars(Alive /\ Drainer /\ UNCHANGED schedVars)
  /\ WF_vars(Alive /\ (\E c \in Chat : TurnEnds(c)) /\ UNCHANGED schedVars)

Spec == Init /\ [][Next]_vars /\ Fairness

-----------------------------------------------------------------------------
\* A run row that says "running" has a task that will close it, once a restart
\* has closed what the dead process left: has_running_run, the guard of both the
\* tick and "Run now", never wedges a job (scheduler.rs,
\* fail_incomplete_runs_on_restart).
RunIsOwned ==
  boot = "up" =>
    \A r \in Run : row[r] = "running" => task[r].step \in {"start", "watch", "deaf"}

\* What every step of the scheduler and of the rail keeps, a restart included: no
\* run without a task, no row delivered twice.
SchedulerInv == TypeOK /\ RunIsOwned /\ SeenOnce

\* A report is addressed to a chat the users had chosen when the run ended, or
\* since: "a chat the user picked (or cleared) during a long run wins"
\* (scheduler.rs, deliver_to_home_chat).  The one exception is a binding that an
\* upsert of a stale copy of the row has put back.
ReportIsWanted ==
  \A r \in Run : rail[r].st # "unsent" => rail[r].to \in since[r] \cup restored

\* A job that is due fires, unless it is switched off or deleted: no run that
\* went wrong blocks it for ever (scheduler::tick, the watcher's deadline).
JobFires ==
  (job.there /\ job.on /\ job.due = "yes") ~>
    (~job.there \/ ~job.on \/ job.due # "yes" \/ Fresh = {})

-----------------------------------------------------------------------------
\* Described and not given; no property of the passing run.

\* "The anchor is already advanced, so this fire cannot double-run"
\* (scheduler.rs, tick).
NoDoubleRun == Cardinality({r \in Run : row[r] = "running"}) <= 1

\* The comment of deliver_to_home_chat to the letter.  A toggle or a pause that
\* has read the row before the user picked or cleared the chat undoes that.
ChosenChatWins ==
  \A r \in Run : rail[r].st # "unsent" => rail[r].to \in since[r]

\* A job the users delete stays deleted (scheduler.rs, delete_job); the upsert of
\* a request that has read it before brings it back.
DeletedStays == [][~job.there => ~job'.there]_vars
=============================================================================

--------------------------- MODULE SchedulerProofs ---------------------------
(* Proofs about Scheduler and the rail it posts to: a run that is running has *)
(* its task, a row reaches its chat once, and a report goes where the users   *)
(* wanted it after the run, or where a stale copy of the row sent it.        *)
EXTENDS Scheduler, TLAPS

-----------------------------------------------------------------------------
(* The inductive invariant.                                                *)

Sendable == {"pending", "claimed", "delivered", "dropped"}

RailRow == [to : {None}, st : {"unsent"}] \cup [to : Chat, st : Sendable]

Pass == [held : Event \cup {None}, sent : BOOLEAN, failed : SUBSET Event, n : 0 .. MaxPerTick]

\* What has reached its chat is neither claimable, nor given back at the end of
\* the pass, nor in hand to be delivered.
Unseen(e) == seen[e] = 0
RailInv ==
  \A e \in Event :
    /\ rail[e].st \in {"unsent", "pending"} =>
         Unseen(e) /\ drain.held # e /\ e \notin drain.failed
    /\ e \in drain.failed => Unseen(e) /\ drain.held # e
    /\ InHand(e) => Unseen(e)
    /\ seen[e] <= 1

\* A report is posted by the task of its run, at its end, to a chat that was
\* chosen since the run was closed or was put back by a stale copy of the row.
ReportInv ==
  \A r \in Run :
    /\ rail[r].st # "unsent" => task[r].step = "done"
    /\ task[r].step = "clear" => task[r].home \in Chat
    /\ task[r].step = "post" => task[r].home \in (since[r] \cup restored) \cap Chat
    /\ task[r].step = "home" /\ choice # None => choice \in since[r]

\* The job is bound to what the users chose last, or to what was put back.
BindingInv ==
  job.there /\ job.home # None => job.home = choice \/ job.home \in restored

-----------------------------------------------------------------------------
(* Steps of the rail.                                                      *)

\* What a step of the rail leaves to the scheduler: reports are posted by the
\* tasks only, and keep their address.
ReportsKept ==
  \A r \in Run : rail'[r].to = rail[r].to /\ (rail'[r].st = "unsent" <=> rail[r].st = "unsent")

RailStepOK == RailTypeOK' /\ RailInv' /\ ReportsKept

(* The rows' constants. *)
LEMMA RailConstants ==
  /\ None \notin Chat /\ None \notin Event
  /\ Run \subseteq Event /\ Outcome \subseteq Event /\ Run \cap Outcome = {}
  /\ MaxPerTick \in Nat /\ MaxActs \in Nat /\ MaxFaults \in Nat
BY RailAssumption, SchedulerAssumption

(* A sent row keeps its address when its status changes. *)
LEMMA MovedRow ==
  ASSUME rail \in [Event -> RailRow], NEW e \in Event, rail[e].st # "unsent",
         NEW st \in Sendable
  PROVE  /\ Moved(e, st) \in [Event -> RailRow]
         /\ Moved(e, st)[e].st = st /\ Moved(e, st)[e].to = rail[e].to
         /\ \A f \in Event : f # e => Moved(e, st)[f] = rail[f]
<1>1. rail[e] \in [to : Chat, st : Sendable]
  BY DEF RailRow
<1>2. [rail[e] EXCEPT !.st = st] \in RailRow
  BY <1>1 DEF RailRow
<1> QED BY <1>1, <1>2 DEF Moved

(* A purge drops what a chat has not received, and nothing else. *)
LEMMA DroppedRows ==
  ASSUME rail \in [Event -> RailRow], NEW c \in Chat
  PROVE  /\ WithoutUndelivered(c) \in [Event -> RailRow]
         /\ \A e \in Event :
              /\ WithoutUndelivered(c)[e].to = rail[e].to
              /\ \/ WithoutUndelivered(c)[e].st = rail[e].st
                 \/ /\ rail[e].st \in {"pending", "claimed"}
                    /\ WithoutUndelivered(c)[e].st = "dropped"
<1> DEFINE after == WithoutUndelivered(c)
<1>1. after = [e \in Event |-> after[e]]
  BY DEF WithoutUndelivered
<1>2. ASSUME NEW e \in Event
      PROVE  /\ after[e] \in RailRow
             /\ after[e].to = rail[e].to
             /\ \/ after[e].st = rail[e].st
                \/ rail[e].st \in {"pending", "claimed"} /\ after[e].st = "dropped"
  <2>1. CASE rail[e].to = c /\ rail[e].st \in {"pending", "claimed"}
    <3>1. rail[e] \in [to : Chat, st : Sendable]
      BY <2>1 DEF RailRow
    <3>2. after[e] = [rail[e] EXCEPT !.st = "dropped"]
      BY <2>1 DEF WithoutUndelivered
    <3> QED BY <2>1, <3>1, <3>2 DEF RailRow, Sendable
  <2>2. CASE ~(rail[e].to = c /\ rail[e].st \in {"pending", "claimed"})
    <3>1. after[e] = rail[e]
      BY <2>2 DEF WithoutUndelivered
    <3> QED BY <3>1
  <2> QED BY <2>1, <2>2
<1> HIDE DEF after
<1>3. after \in [Event -> RailRow]
  BY <1>1, <1>2
<1>4. ASSUME NEW e \in Event
      PROVE  /\ after[e].to = rail[e].to
             /\ \/ after[e].st = rail[e].st
                \/ rail[e].st \in {"pending", "claimed"} /\ after[e].st = "dropped"
  BY <1>2
<1> QED BY <1>3, <1>4 DEF after

(* The type invariant of the rail, variable by variable. *)
LEMMA RailTypes ==
  RailTypeOK <=>
    /\ chat \in [Chat -> {"idle", "running", "interrupted", "ended", "gone"}]
    /\ rail \in [Event -> RailRow]
    /\ order \in Seq(Event)
    /\ drain \in Pass
    /\ seen \in [Event -> Nat]
    /\ purging \subseteq Chat
    /\ orphans \subseteq Event
    /\ acts \in 0 .. MaxActs
    /\ faults \in 0 .. MaxFaults
BY DEF RailTypeOK, RailRow, Sendable, Pass

(* A step that leaves the rows, the pass and what was received alone. *)
LEMMA RailSame ==
  ASSUME RailInv, UNCHANGED <<rail, drain, seen>>
  PROVE  RailInv' /\ ReportsKept
BY DEF RailInv, Unseen, InHand, ReportsKept

(* The oldest deliverable row is claimed. *)
LEMMA ClaimStep ==
  ASSUME RailTypeOK, RailInv, Claim
  PROVE  RailStepOK
<1>1. PICK i \in Ready : /\ rail' = Moved(order[i], "claimed")
                         /\ drain' = [drain EXCEPT !.held = order[i], !.n = @ + 1]
  BY DEF Claim
<1>2. PICK e \in Event : e = order[i] /\ rail[e].st = "pending"
  BY <1>1, RailTypes DEF Ready, Deliverable
<1>3. /\ rail' \in [Event -> RailRow]
      /\ rail'[e].st = "claimed" /\ rail'[e].to = rail[e].to
      /\ \A f \in Event : f # e => rail'[f] = rail[f]
  BY <1>1, <1>2, RailTypes, MovedRow DEF Sendable
<1>4. /\ drain' \in Pass /\ drain'.held = e /\ drain'.sent = drain.sent
      /\ drain'.failed = drain.failed
  <2>1. drain' = [drain EXCEPT !.held = e, !.n = drain.n + 1]
    BY <1>1, <1>2
  <2>2. drain \in Pass /\ drain.n + 1 \in 0 .. MaxPerTick
    BY RailTypes, RailConstants DEF Claim, Pass
  <2> QED BY <2>1, <2>2 DEF Pass
<1>5. RailTypeOK'
  BY <1>3, <1>4, RailTypes DEF Claim, RailTypeOK, RailRow, Sendable, Pass
<1>6. seen' = seen
  BY DEF Claim
<1>7. RailInv'
  BY <1>2, <1>3, <1>4, <1>6 DEF RailInv, Unseen, InHand
<1>8. ReportsKept
  BY <1>2, <1>3, RailConstants DEF ReportsKept
<1> QED BY <1>5, <1>7, <1>8 DEF RailStepOK

(* What a delivery does to the pass and to what was received. *)
LEMMA SentStep ==
  ASSUME RailTypeOK, RailInv, NEW e \in Event, InHand(e), Sent(e), rail' = rail
  PROVE  drain' \in Pass /\ seen' \in [Event -> Nat] /\ RailInv' /\ ReportsKept
<1>1. /\ drain' \in Pass /\ drain'.held = e /\ drain'.sent = TRUE
      /\ drain'.failed = drain.failed
  BY RailTypes DEF Sent, Pass, InHand
<1>2. /\ seen' \in [Event -> Nat] /\ seen'[e] = seen[e] + 1
      /\ \A f \in Event : f # e => seen'[f] = seen[f]
  BY RailTypes DEF Sent
<1>3. /\ Unseen(e) /\ drain.held = e /\ e \notin drain.failed
      /\ rail[e].st \notin {"unsent", "pending"}
  BY DEF RailInv, InHand
<1>4. ASSUME NEW f \in Event
      PROVE  /\ rail[f].st \in {"unsent", "pending"} =>
                  seen'[f] = 0 /\ drain'.held # f /\ f \notin drain'.failed
             /\ f \in drain'.failed => seen'[f] = 0 /\ drain'.held # f
             /\ ~(drain'.held = f /\ ~drain'.sent)
             /\ seen'[f] <= 1
  BY <1>1, <1>2, <1>3 DEF RailInv, Unseen
<1>5. RailInv'
  BY <1>4 DEF RailInv, Unseen, InHand
<1> QED BY <1>1, <1>2, <1>5 DEF ReportsKept

(* A delivery as a turn or as a message. *)
LEMMA DeliverStep ==
  ASSUME RailTypeOK, RailInv, NEW e \in Event, DeliverTurn(e) \/ DeliverOutcome(e)
  PROVE  RailStepOK
<1>1. InHand(e) /\ Sent(e) /\ UNCHANGED <<rail, order, purging, orphans, acts, faults>>
  BY DEF DeliverTurn, DeliverOutcome
<1>2. chat' \in [Chat -> {"idle", "running", "interrupted", "ended", "gone"}]
  BY RailTypes DEF DeliverTurn, DeliverOutcome
<1>3. drain' \in Pass /\ seen' \in [Event -> Nat] /\ RailInv' /\ ReportsKept
  BY <1>1, SentStep
<1>4. RailTypeOK'
  BY <1>1, <1>2, <1>3 DEF RailTypeOK, RailRow, Sendable, Pass
<1> QED BY <1>3, <1>4 DEF RailStepOK

(* A delivery that fails leaves the row claimed. *)
LEMMA RefuseStep ==
  ASSUME RailTypeOK, RailInv, NEW e \in Event, Refuse(e)
  PROVE  RailStepOK
<1>1. /\ drain' \in Pass /\ drain'.held = None /\ drain'.sent = drain.sent
      /\ drain'.failed = drain.failed \cup {e}
  BY RailTypes DEF Refuse, Pass
<1>2. /\ UNCHANGED <<chat, rail, order, seen, purging, orphans, acts>>
      /\ faults' \in 0 .. MaxFaults
  BY RailTypes, RailConstants DEF Refuse, Fails
<1>3. /\ Unseen(e) /\ drain.held = e
      /\ rail[e].st \notin {"unsent", "pending"}
  BY DEF RailInv, InHand, Refuse
<1>4. RailTypeOK'
  BY <1>1, <1>2 DEF RailTypeOK, Pass
<1>5. RailInv'
  BY <1>1, <1>2, <1>3, RailConstants DEF RailInv, Unseen, InHand
<1>6. ReportsKept
  BY <1>2 DEF ReportsKept
<1> QED BY <1>4, <1>5, <1>6 DEF RailStepOK

(* The mark after a delivery. *)
LEMMA MarkStep ==
  ASSUME RailTypeOK, RailInv, NEW e \in Event, Mark(e)
  PROVE  RailStepOK
<1>1. /\ drain' \in Pass /\ drain'.held = None /\ drain'.sent = FALSE
      /\ drain'.failed = drain.failed
  BY RailTypes DEF Mark, Pass
<1>2. drain.held = e /\ rail[e].st \notin {"unsent", "pending"}
  BY DEF RailInv, Mark
<1>3. /\ rail' \in [Event -> RailRow]
      /\ rail'[e].st \notin {"unsent", "pending"} /\ rail'[e].to = rail[e].to
      /\ \A f \in Event : f # e => rail'[f] = rail[f]
  BY <1>2, RailTypes, MovedRow DEF Mark, Sendable
<1>4. UNCHANGED <<chat, order, seen, purging, orphans, acts, faults>>
  BY DEF Mark
<1>5. RailTypeOK'
  BY <1>1, <1>3, <1>4 DEF RailTypeOK, RailRow, Sendable, Pass
<1>6. RailInv'
  BY <1>1, <1>2, <1>3, <1>4, RailConstants DEF RailInv, Unseen, InHand
<1>7. ReportsKept
  BY <1>2, <1>3, RailConstants DEF ReportsKept
<1> QED BY <1>5, <1>6, <1>7 DEF RailStepOK

(* A pass that forgets what it holds. *)
LEMMA NoPassType ==
  NoPass \in Pass /\ NoPass.held = None /\ NoPass.failed = {} /\ NoPass.sent = FALSE
BY RailConstants DEF NoPass, Pass

(* The end of a pass gives back what failed in it. *)
LEMMA EndPassStep ==
  ASSUME RailTypeOK, RailInv, EndPass
  PROVE  RailStepOK
<1>1. /\ drain' = NoPass
      /\ UNCHANGED <<chat, order, seen, purging, orphans, acts, faults>>
  BY DEF EndPass
<1>2. ASSUME NEW e \in Event
      PROVE  /\ rail'[e] \in RailRow /\ rail'[e].to = rail[e].to
             /\ \/ rail'[e].st = rail[e].st
                \/ e \in drain.failed /\ rail[e].st = "claimed" /\ rail'[e].st = "pending"
  <2>1. CASE e \in drain.failed /\ rail[e].st = "claimed"
    <3>1. rail[e] \in [to : Chat, st : Sendable]
      BY <2>1, RailTypes DEF RailRow
    <3>2. rail'[e] = [rail[e] EXCEPT !.st = "pending"]
      BY <2>1 DEF EndPass
    <3> QED BY <2>1, <3>1, <3>2 DEF RailRow, Sendable
  <2>2. CASE ~(e \in drain.failed /\ rail[e].st = "claimed")
    <3>1. rail'[e] = rail[e]
      BY <2>2 DEF EndPass
    <3> QED BY <3>1, RailTypes
  <2> QED BY <2>1, <2>2
<1>3. rail' \in [Event -> RailRow]
  <2>1. rail' = [e \in Event |-> rail'[e]]
    BY DEF EndPass
  <2> QED BY <1>2, <2>1
<1>4. RailTypeOK'
  BY <1>1, <1>3, NoPassType DEF RailTypeOK, RailRow, Sendable, Pass
<1>5. RailInv'
  BY <1>1, <1>2, NoPassType, RailConstants DEF RailInv, Unseen, InHand
<1>6. ReportsKept
  BY <1>2, RailConstants DEF ReportsKept
<1> QED BY <1>4, <1>5, <1>6 DEF RailStepOK

(* What people do to a chat without touching the rail. *)
LEMMA ChatStep ==
  ASSUME RailTypeOK, RailInv, NEW c \in Chat,
         UserTurn(c) \/ TurnEnds(c) \/ StopChat(c) \/ EndChat(c)
  PROVE  RailStepOK
<1>1. UNCHANGED <<rail, order, drain, seen, orphans>>
  BY DEF UserTurn, TurnEnds, StopChat, EndChat
<1>2. chat' \in [Chat -> {"idle", "running", "interrupted", "ended", "gone"}]
  BY RailTypes DEF UserTurn, TurnEnds, StopChat, EndChat
<1>3. purging' \subseteq Chat /\ acts' \in 0 .. MaxActs /\ faults' \in 0 .. MaxFaults
  BY RailTypes, RailConstants DEF UserTurn, TurnEnds, StopChat, EndChat, Acts
<1>4. RailTypeOK'
  BY <1>1, <1>2, <1>3 DEF RailTypeOK
<1> QED BY <1>1, <1>4, RailSame DEF RailStepOK

(* The purge of an ended or deleted chat. *)
LEMMA PurgeStep ==
  ASSUME RailTypeOK, RailInv, NEW c \in Chat, Purge(c) \/ DeleteChat(c)
  PROVE  RailStepOK
<1>1. rail' = WithoutUndelivered(c) /\ UNCHANGED <<order, drain, seen, orphans>>
  BY DEF Purge, DeleteChat
<1>2. chat' \in [Chat -> {"idle", "running", "interrupted", "ended", "gone"}]
  BY RailTypes DEF Purge, DeleteChat
<1>3. purging' \subseteq Chat /\ acts' \in 0 .. MaxActs /\ faults' \in 0 .. MaxFaults
  BY RailTypes, RailConstants DEF Purge, DeleteChat, Acts
<1>4. /\ rail' \in [Event -> RailRow]
      /\ \A e \in Event :
           /\ rail'[e].to = rail[e].to
           /\ \/ rail'[e].st = rail[e].st
              \/ rail[e].st \in {"pending", "claimed"} /\ rail'[e].st = "dropped"
  BY <1>1, RailTypes, DroppedRows
<1>5. RailTypeOK'
  BY <1>1, <1>2, <1>3, <1>4 DEF RailTypeOK, RailRow, Sendable
<1>6. RailInv'
  BY <1>1, <1>4 DEF RailInv, Unseen, InHand
<1>7. ReportsKept
  BY <1>4, RailConstants DEF ReportsKept
<1> QED BY <1>5, <1>6, <1>7 DEF RailStepOK

(* A row that was never sent is put on the rail. *)
LEMMA EnqueueStep ==
  ASSUME RailTypeOK, RailInv, NEW e \in Event, NEW c \in Chat, rail[e].st = "unsent",
         Enqueue(e, c), UNCHANGED <<chat, drain, seen, purging, orphans, acts, faults>>
  PROVE  /\ RailTypeOK' /\ RailInv'
         /\ rail'[e] = [to |-> c, st |-> "pending"]
         /\ \A f \in Event : f # e => rail'[f] = rail[f]
<1>1. /\ rail' \in [Event -> RailRow]
      /\ rail'[e] = [to |-> c, st |-> "pending"]
      /\ \A f \in Event : f # e => rail'[f] = rail[f]
  BY RailTypes DEF Enqueue, RailRow, Sendable
<1>2. order' \in Seq(Event)
  BY RailTypes DEF Enqueue
<1>3. RailTypeOK'
  BY <1>1, <1>2 DEF RailTypeOK, RailRow, Sendable
<1>4. RailInv'
  BY <1>1 DEF RailInv, Unseen, InHand
<1> QED BY <1>1, <1>3, <1>4

(* An outcome of a delegation is put on the rail. *)
LEMMA PostOutcomeStep ==
  ASSUME RailTypeOK, RailInv, NEW e \in Outcome, NEW c \in Chat, PostOutcome(e, c)
  PROVE  RailStepOK
<1>1. e \in Event /\ e \notin Run
  BY RailConstants
<1>2. /\ RailTypeOK' /\ RailInv'
      /\ \A f \in Event : f # e => rail'[f] = rail[f]
  BY <1>1, EnqueueStep DEF PostOutcome
<1> QED BY <1>1, <1>2, RailConstants DEF RailStepOK, ReportsKept

(* Every step of the drainer and of the chats. *)
LEMMA DrainerStep ==
  ASSUME RailTypeOK, RailInv, Drainer \/ Chats
  PROVE  RailStepOK
<1>1. CASE Drainer
  BY <1>1, ClaimStep, DeliverStep, RefuseStep, MarkStep, EndPassStep DEF Drainer
<1>2. CASE Chats
  BY <1>2, ChatStep, PurgeStep, PostOutcomeStep DEF Chats
<1> QED BY <1>1, <1>2

(* A crash forgets the pass. *)
LEMMA RailCrashStep ==
  ASSUME RailTypeOK, RailInv, RailCrash
  PROVE  RailStepOK
<1>1. /\ drain' = NoPass /\ purging' = {} /\ orphans' \subseteq Event
      /\ UNCHANGED <<chat, rail, order, seen, acts, faults>>
  BY RailTypes DEF RailCrash
<1>2. RailTypeOK'
  BY <1>1, NoPassType DEF RailTypeOK, Pass
<1>3. RailInv'
  BY <1>1, NoPassType, RailConstants DEF RailInv, Unseen, InHand
<1>4. ReportsKept
  BY <1>1 DEF ReportsKept
<1> QED BY <1>2, <1>3, <1>4 DEF RailStepOK

-----------------------------------------------------------------------------
(* Steps of the scheduler.                                                 *)

Task == [step : Step, home : Chat \cup {None}]

SchedTypeOK ==
  /\ job \in JobRow
  /\ row \in [Run -> {"none", "running", "success", "failed", "gone"}]
  /\ task \in [Run -> Task]
  /\ edit \in [1 .. MaxActs -> Request]
  /\ boot \in {"down", "booting", "up"}
  /\ crashes \in 0 .. MaxCrashes
  /\ choice \in Chat \cup {None}
  /\ since \in [Run -> SUBSET Chat]
  /\ restored \subseteq Chat

Reports == ReportInv /\ BindingInv /\ ReportIsWanted

\* What a step may do to the binding when nobody chooses.
BindingKept ==
  job'.there /\ job'.home # None =>
    \/ job.there /\ job.home = job'.home
    \/ job'.home \in restored'

\* The steps of a task in which its run is running.
Running == {"start", "watch", "deaf"}

\* What a step may do to the tasks that are not on their way to a report.
Silent(r) ==
  \/ task'[r] = task[r]
  \/ /\ task'[r].step \notin {"home", "clear", "post"}
     /\ rail[r].st # "unsent" => task'[r].step = "done"

\* What a step may do to the runs and their tasks.
Owned(r) ==
  row'[r] = "running" =>
    /\ row[r] = "running"
    /\ task'[r].step = task[r].step \/ task'[r].step \in Running

(* The type invariant in two parts. *)
LEMMA Types == TypeOK <=> RailTypeOK /\ SchedTypeOK
BY DEF TypeOK, SchedTypeOK, Task

(* A task that goes on keeps the binding it has read. *)
LEMMA GoesTask ==
  ASSUME SchedTypeOK, NEW r \in Run, NEW step \in Step, Goes(r, step)
  PROVE  /\ task' \in [Run -> Task]
         /\ task'[r].step = step /\ task'[r].home = task[r].home
         /\ \A q \in Run : q # r => task'[q] = task[q]
BY DEF SchedTypeOK, Task, Goes

(* A task that stops. *)
LEMMA StopsTask ==
  ASSUME SchedTypeOK, NEW r \in Run, Stops(r)
  PROVE  /\ task' \in [Run -> Task]
         /\ task'[r].step = "done"
         /\ \A q \in Run : q # r => task'[q] = task[q]
<1>1. Over \in Task /\ Over.step = "done"
  BY DEF Over, Task, Step
<1> QED BY <1>1 DEF SchedTypeOK, Stops

(* A fire takes a task nobody has used. *)
LEMMA FiresTask ==
  ASSUME SchedTypeOK, Fresh # {}, NEW step \in Step, Fires(step)
  PROVE  /\ task' \in [Run -> Task]
         /\ \E r \in Run : /\ task[r].step = "none" /\ task'[r].step = step
                           /\ \A q \in Run : q # r => task'[q] = task[q]
<1>1. PICK r \in Run : r = NextRun /\ task[r].step = "none"
  BY DEF Fresh, NextRun
<1>2. [step |-> step, home |-> job.home] \in Task
  BY DEF SchedTypeOK, JobRow, Task
<1>3. task' = [task EXCEPT ![r] = [step |-> step, home |-> job.home]]
  BY <1>1 DEF Fires
<1>4. task' \in [Run -> Task]
  BY <1>2, <1>3 DEF SchedTypeOK
<1>5. task'[r].step = step /\ \A q \in Run : q # r => task'[q] = task[q]
  BY <1>3 DEF SchedTypeOK
<1> QED BY <1>1, <1>4, <1>5

(* A step at which nobody chooses a chat, though a stale copy of the row may put
   one back. *)
LEMMA ReportsGrow ==
  ASSUME Reports, ReportsKept, UNCHANGED <<choice, since>>, restored \subseteq restored',
         BindingKept, \A r \in Run : Silent(r)
  PROVE  Reports'
<1>1. ReportIsWanted'
  BY DEF Reports, ReportIsWanted, ReportsKept
<1>2. ReportInv'
  BY DEF Reports, ReportInv, ReportsKept, Silent
<1>3. BindingInv'
  BY DEF Reports, BindingInv, BindingKept
<1> QED BY <1>1, <1>2, <1>3 DEF Reports

(* Reports are untouched by what does not write the binding. *)
LEMMA ReportsSame ==
  ASSUME Reports, ReportsKept, UNCHANGED history,
         job'.there = job.there, job'.home = job.home \/ job'.home = None,
         \A r \in Run : Silent(r)
  PROVE  Reports'
<1>1. UNCHANGED <<choice, since>> /\ restored \subseteq restored'
  BY DEF history
<1>2. BindingKept
  BY DEF BindingKept
<1> QED BY <1>1, <1>2, ReportsGrow

(* What the users choose is known to every run that has not read it yet. *)
LEMMA ReportsChoose ==
  ASSUME SchedTypeOK, Reports, ReportsKept, NEW h \in Chat \cup {None}, Chooses(h),
         job'.there /\ job'.home # None => job'.home = h,
         \A r \in Run : Silent(r)
  PROVE  /\ Reports' /\ choice' \in Chat \cup {None}
         /\ since' \in [Run -> SUBSET Chat] /\ restored' \subseteq Chat
<1>1. choice' = h /\ restored' = restored
  BY DEF Chooses
<1>2. ASSUME NEW r \in Run
      PROVE  /\ since[r] \subseteq since'[r] /\ since'[r] \subseteq Chat
             /\ r \in Closed /\ h # None => h \in since'[r]
  BY DEF SchedTypeOK, Chooses
<1>3. since' \in [Run -> SUBSET Chat]
  <2>1. since' = [r \in Run |-> since'[r]]
    BY DEF Chooses
  <2> QED BY <1>2, <2>1
<1>4. ReportIsWanted'
  BY <1>1, <1>2 DEF Reports, ReportIsWanted, ReportsKept
<1>5. ASSUME NEW r \in Run
      PROVE  /\ rail'[r].st # "unsent" => task'[r].step = "done"
             /\ task'[r].step = "clear" => task'[r].home \in Chat
             /\ task'[r].step = "post" =>
                  task'[r].home \in (since'[r] \cup restored) \cap Chat
             /\ task'[r].step = "home" /\ h # None => h \in since'[r]
  <2>1. CASE task'[r] = task[r]
    <3>1. task[r].step = "home" => r \in Closed
      BY DEF Closed
    <3> QED BY <1>2, <2>1, <3>1 DEF Reports, ReportInv, ReportsKept
  <2>2. CASE task'[r] # task[r]
    BY <2>2 DEF Silent, ReportsKept
  <2> QED BY <2>1, <2>2
<1>6. ReportInv'
  BY <1>1, <1>5 DEF ReportInv
<1>7. BindingInv'
  BY <1>1 DEF BindingInv
<1> QED BY <1>1, <1>3, <1>4, <1>6, <1>7 DEF Reports, SchedTypeOK

(* A run that is running keeps its task. *)
LEMMA OwnedRuns ==
  ASSUME RunIsOwned, boot' = boot, \A r \in Run : Owned(r)
  PROVE  RunIsOwned'
BY DEF RunIsOwned, Owned, Running

(* The rail, when a step of the scheduler leaves it alone. *)
LEMMA RailKept ==
  ASSUME RailTypeOK, RailInv, UNCHANGED <<chat, rail, order, drain, seen, purging, orphans>>,
         acts' \in 0 .. MaxActs, faults' \in 0 .. MaxFaults
  PROVE  RailStepOK
<1>1. RailTypeOK'
  BY DEF RailTypeOK
<1> QED BY <1>1, RailSame DEF RailStepOK

(* The budgets of what users do and of what fails. *)
LEMMA Budgets ==
  ASSUME RailTypeOK
  PROVE  /\ UNCHANGED acts \/ Acts => acts' \in 0 .. MaxActs
         /\ UNCHANGED faults \/ Fails => faults' \in 0 .. MaxFaults
BY RailTypes, RailConstants DEF Acts, Fails

\* What each step establishes.
StepOK == RailTypeOK' /\ RailInv' /\ SchedTypeOK' /\ RunIsOwned' /\ Reports'

Base == RailTypeOK /\ RailInv /\ SchedTypeOK /\ RunIsOwned /\ Reports

(* The request that a step works on is one of those. *)
LEMMA Requests ==
  ASSUME SchedTypeOK, NEW n \in 1 .. MaxActs, edit[n].step # "none"
  PROVE  /\ edit[n] \in Request /\ job.due \in {"unanchored", "no", "yes"}
         /\ [edit EXCEPT ![n] = NoRequest] \in [1 .. MaxActs -> Request]
         /\ [edit EXCEPT ![n].step = "anchor"] \in [1 .. MaxActs -> Request]
BY DEF SchedTypeOK, Request, NoRequest, JobRow

(* The clock, and the anchor of a toggle. *)
LEMMA AnchorStep ==
  ASSUME Base, ClockPasses \/ \E n \in 1 .. MaxActs : Reanchor(n)
  PROVE  StepOK
<1>1. RailStepOK
  BY Budgets, RailKept DEF Base, railVars, ClockPasses, Reanchor
<1>2. /\ UNCHANGED <<row, task, boot, crashes, history>>
      /\ job' \in JobRow /\ job'.there = job.there /\ job'.home = job.home
  BY DEF ClockPasses, Reanchor, Base, SchedTypeOK, JobRow
<1>3. edit' \in [1 .. MaxActs -> Request]
  <2>1. CASE ClockPasses
    BY <2>1 DEF ClockPasses, Base, SchedTypeOK
  <2>2. ASSUME NEW n \in 1 .. MaxActs, Reanchor(n) PROVE edit' \in [1 .. MaxActs -> Request]
    BY <2>2, Requests DEF Reanchor, Base
  <2> QED BY <2>1, <2>2
<1>4. Reports'
  BY <1>1, <1>2, ReportsSame DEF Base, RailStepOK, Silent
<1>5. RunIsOwned' /\ SchedTypeOK'
  BY <1>2, <1>3 DEF Base, RunIsOwned, SchedTypeOK, history
<1> QED BY <1>1, <1>4, <1>5 DEF StepOK, RailStepOK

(* What the users want: an update of the binding, or the end of the job. *)
LEMMA ChoiceStep ==
  ASSUME Base, DeleteJob \/ \E n \in 1 .. MaxActs : Update(n)
  PROVE  StepOK
<1>1. RailStepOK
  BY Budgets, RailKept DEF Base, railVars, DeleteJob, Update
<1>2. UNCHANGED <<task, boot, crashes>>
  BY DEF DeleteJob, Update
<1>3. PICK h \in Chat \cup {None} :
        /\ Chooses(h) /\ job' \in JobRow
        /\ job'.there /\ job'.home # None => job'.home = h
        /\ edit' \in [1 .. MaxActs -> Request]
  <2>1. CASE DeleteJob
    <3>1. job' \in JobRow /\ ~job'.there
      BY <2>1 DEF DeleteJob, Base, SchedTypeOK, JobRow
    <3> QED BY <2>1, <3>1 DEF DeleteJob, Base, SchedTypeOK
  <2>2. CASE \E n \in 1 .. MaxActs : Update(n)
    <3>1. PICK n \in 1 .. MaxActs : Update(n)
      BY <2>2
    <3>2. edit[n].step # "none"
      BY <3>1 DEF Update
    <3>3. edit[n].home \in Chat \cup {None} /\ edit' \in [1 .. MaxActs -> Request]
      BY <3>1, <3>2, Requests DEF Update, Base, Request
    <3>4. job' \in JobRow /\ job'.home = edit[n].home
      BY <3>1, <3>2, Requests DEF Update, Upserts, Base, Request, JobRow
    <3> QED BY <3>1, <3>3, <3>4 DEF Update
  <2> QED BY <2>1, <2>2
<1>4. /\ Reports' /\ choice' \in Chat \cup {None}
      /\ since' \in [Run -> SUBSET Chat] /\ restored' \subseteq Chat
  BY <1>1, <1>2, <1>3, ReportsChoose DEF Base, RailStepOK, Silent
<1>5. /\ row' \in [Run -> {"none", "running", "success", "failed", "gone"}]
      /\ \A r \in Run : row'[r] = "running" => row[r] = "running"
  BY DEF Base, SchedTypeOK, DeleteJob, Update
<1>6. RunIsOwned'
  BY <1>2, <1>5, OwnedRuns DEF Base, Owned
<1>7. SchedTypeOK'
  BY <1>2, <1>3, <1>4, <1>5 DEF Base, SchedTypeOK, history
<1> QED BY <1>1, <1>4, <1>6, <1>7 DEF StepOK, RailStepOK

(* The upsert of a toggle or a pause: the binding is the one there is, or is put
   back. *)
LEMMA FlipStep ==
  ASSUME Base, NEW n \in 1 .. MaxActs, Flip(n)
  PROVE  StepOK
<1>1. RailStepOK
  BY Budgets, RailKept DEF Base, railVars, Flip
<1>2. UNCHANGED <<row, task, boot, crashes, choice, since>>
  BY DEF Flip
<1>3. /\ edit[n] \in Request /\ job.due \in {"unanchored", "no", "yes"}
      /\ edit' \in [1 .. MaxActs -> Request]
  <2>1. edit[n].step # "none"
    BY DEF Flip
  <2>2. CASE edit[n].step = "toggle"
    BY <2>1, <2>2, Requests DEF Flip, Base
  <2>3. CASE edit[n].step # "toggle"
    BY <2>1, <2>3, Requests DEF Flip, Base
  <2> QED BY <2>2, <2>3, <2>1, Requests DEF Base
<1>4. /\ job' \in JobRow /\ job'.home = edit[n].home
      /\ edit[n].home \in Chat \cup {None}
  BY <1>3 DEF Flip, Upserts, Request, JobRow
<1>5. /\ restored \subseteq restored' /\ restored' \subseteq Chat
      /\ edit[n].home # None =>
           (job.there /\ job.home = edit[n].home) \/ edit[n].home \in restored'
  BY <1>4 DEF Flip, Base, SchedTypeOK
<1>6. BindingKept
  BY <1>4, <1>5 DEF BindingKept
<1>7. Reports'
  BY <1>1, <1>2, <1>5, <1>6, ReportsGrow DEF Base, RailStepOK, Silent
<1>8. RunIsOwned' /\ SchedTypeOK'
  BY <1>2, <1>3, <1>4, <1>5 DEF Base, RunIsOwned, SchedTypeOK
<1> QED BY <1>1, <1>7, <1>8 DEF StepOK, RailStepOK

(* A request reads the job. *)
LEMMA BeginStep ==
  ASSUME Base, BeginUpdate \/ BeginToggle \/ BeginPause
  PROVE  StepOK
<1>1. PICK step \in {"update", "toggle", "pause"}, on \in BOOLEAN,
           home \in Chat \cup {None} : Begins(step, on, home)
  BY DEF BeginUpdate, BeginToggle, BeginPause, Base, SchedTypeOK, JobRow
<1>2. RailStepOK
  BY <1>1, Budgets, RailKept DEF Base, Begins
<1>3. UNCHANGED <<job, row, task, boot, crashes, history>>
  BY <1>1 DEF Begins
<1>4. edit' \in [1 .. MaxActs -> Request]
  <2>1. [step |-> step, on |-> on, home |-> home] \in Request
    BY <1>1 DEF Request
  <2> QED BY <1>1, <2>1 DEF Begins, Base, SchedTypeOK
<1>5. Reports'
  BY <1>2, <1>3, ReportsSame DEF Base, RailStepOK, Silent
<1>6. RunIsOwned' /\ SchedTypeOK'
  BY <1>3, <1>4 DEF Base, RunIsOwned, SchedTypeOK, history
<1> QED BY <1>2, <1>5, <1>6 DEF StepOK, RailStepOK

(* A task that is fired. *)
LEMMA FiresSilently ==
  ASSUME Base, Fresh # {}, NEW step \in {"gate", "insert"}, Fires(step)
  PROVE  /\ task' \in [Run -> Task]
         /\ \A r \in Run : Silent(r)
         /\ \A r \in Run : task'[r] = task[r] \/ task[r].step = "none"
<1>1. step \in Step
  BY DEF Step
<1>2. /\ task' \in [Run -> Task]
      /\ \E r \in Run : /\ task[r].step = "none" /\ task'[r].step = step
                        /\ \A q \in Run : q # r => task'[q] = task[q]
  BY <1>1, FiresTask DEF Base
<1> QED BY <1>2 DEF Base, Reports, ReportInv, Silent

(* The tick: it anchors the job, or anchors it again and fires. *)
LEMMA TickStep ==
  ASSUME Base, Tick
  PROVE  StepOK
<1>1. RailStepOK
  BY Budgets, RailKept DEF Base, Tick, railVars
<1>2. job' \in JobRow /\ job'.there = job.there /\ job'.home = job.home
  BY DEF Base, SchedTypeOK, JobRow, Tick
<1>3. UNCHANGED <<row, edit, boot, crashes, history>>
  BY DEF Tick
<1>4. /\ task' \in [Run -> Task]
      /\ \A r \in Run : Silent(r)
      /\ \A r \in Run : task'[r] = task[r] \/ ~HasRunningRun
  <2>1. CASE UNCHANGED task
    BY <2>1 DEF Base, SchedTypeOK, Silent
  <2>2. CASE Fresh # {} /\ Fires("gate") /\ ~HasRunningRun
    BY <2>2, FiresSilently
  <2> QED BY <2>1, <2>2 DEF Tick
<1>5. Reports'
  BY <1>1, <1>2, <1>3, <1>4, ReportsSame DEF Base, RailStepOK
<1>6. RunIsOwned'
  BY <1>3, <1>4, OwnedRuns DEF Base, Owned, HasRunningRun
<1>7. SchedTypeOK'
  BY <1>2, <1>3, <1>4 DEF Base, SchedTypeOK, history
<1> QED BY <1>1, <1>5, <1>6, <1>7 DEF StepOK, RailStepOK

(* "Run now". *)
LEMMA RunNowStep ==
  ASSUME Base, RunNow
  PROVE  StepOK
<1>1. RailStepOK
  BY Budgets, RailKept DEF Base, RunNow, railVars
<1>2. UNCHANGED <<job, row, edit, boot, crashes, history>>
  BY DEF RunNow
<1>3. task' \in [Run -> Task] /\ \A r \in Run : Silent(r)
  BY FiresSilently DEF RunNow
<1>4. Reports'
  BY <1>1, <1>2, <1>3, ReportsSame DEF Base, RailStepOK
<1>5. RunIsOwned'
  BY <1>2, OwnedRuns DEF Base, Owned, RunNow, HasRunningRun
<1>6. SchedTypeOK'
  BY <1>2, <1>3 DEF Base, SchedTypeOK, history
<1> QED BY <1>1, <1>4, <1>5, <1>6 DEF StepOK, RailStepOK

(* A run is closed unless its row is gone. *)
LEMMA FinalizedRow ==
  ASSUME SchedTypeOK, NEW r \in Run, NEW st \in {"success", "failed"},
         row' = Finalized(r, st)
  PROVE  /\ row' \in [Run -> {"none", "running", "success", "failed", "gone"}]
         /\ row'[r] # "running"
         /\ \A q \in Run : q # r => row'[q] = row[q]
BY DEF SchedTypeOK, Finalized

(* The steps of a task up to the end of its run that announce nothing. *)
LEMMA QuietTaskStep ==
  ASSUME Base, NEW r \in Run,
         \/ Gate(r) \/ Insert(r) \/ Start(r) \/ Miss(r) \/ Timeout(r)
         \/ Hear(r) /\ Stops(r) /\ UNCHANGED since
  PROVE  StepOK
<1>1. RailStepOK
  BY Budgets, RailKept
     DEF Base, railVars, Gate, Insert, Start, Miss, Timeout, Hear
<1>2. UNCHANGED <<job, edit, boot, crashes, history>> /\ Alive
  BY DEF Gate, Insert, Start, Miss, Timeout, Hear, At, history
<1>3. /\ task' \in [Run -> Task]
      /\ task'[r].step \in {"insert", "start", "watch", "deaf", "done"}
      /\ \A q \in Run : q # r => task'[q] = task[q]
  <2>1. CASE Stops(r)
    BY <2>1, StopsTask DEF Base
  <2>2. CASE \E step \in {"insert", "start", "watch", "deaf"} : Goes(r, step)
    BY <2>2, GoesTask DEF Base, Step
  <2> QED BY <2>1, <2>2 DEF Gate, Insert, Start, Miss, Timeout
<1>4. rail[r].st = "unsent"
  BY DEF Base, Reports, ReportInv, Gate, Insert, Start, Miss, Timeout, Hear, At
<1>5. Reports'
  BY <1>1, <1>2, <1>3, <1>4, ReportsSame DEF Base, RailStepOK, Silent
<1>6. /\ row' \in [Run -> {"none", "running", "success", "failed", "gone"}]
      /\ \A q \in Run : q # r => row'[q] = row[q]
      /\ row'[r] = "running" => task'[r].step \in Running \/ boot # "up"
  <2>1. CASE Gate(r)
    BY <2>1 DEF Base, SchedTypeOK, RunIsOwned, Gate, At
  <2>2. CASE Insert(r)
    <3>1. task'[r].step = "start"
      BY <2>2, GoesTask DEF Insert, Base, Step
    <3> QED BY <2>2, <3>1 DEF Base, SchedTypeOK, Insert, Running
  <2>3. CASE Start(r) /\ UNCHANGED row /\ Goes(r, "watch")
    <3>1. task'[r].step = "watch"
      BY <2>3, GoesTask DEF Base, Step
    <3> QED BY <2>3, <3>1 DEF Base, SchedTypeOK, Running
  <2>4. CASE Miss(r)
    <3>1. task'[r].step = "deaf"
      BY <2>4, GoesTask DEF Miss, Base, Step
    <3> QED BY <2>4, <3>1 DEF Base, SchedTypeOK, Miss, Running
  <2>5. CASE \E st \in {"success", "failed"} : row' = Finalized(r, st)
    BY <2>5, FinalizedRow DEF Base
  <2> QED BY <2>1, <2>2, <2>3, <2>4, <2>5 DEF Start, Timeout, Hear
<1>7. RunIsOwned'
  BY <1>2, <1>3, <1>6 DEF Base, RunIsOwned, Running
<1>8. SchedTypeOK'
  BY <1>2, <1>3, <1>6 DEF Base, SchedTypeOK, history
<1> QED BY <1>1, <1>5, <1>7, <1>8 DEF StepOK, RailStepOK

(* The watcher closes a run that has something to say: the binding of that
   moment is where its report may go. *)
LEMMA HearStep ==
  ASSUME Base, NEW r \in Run, Hear(r)
  PROVE  StepOK
<1>1. CASE Stops(r) /\ UNCHANGED since
  BY <1>1, QuietTaskStep
<1>2. CASE /\ row' = Finalized(r, "success") /\ Goes(r, "home")
           /\ since' = [since EXCEPT ![r] = {choice} \ {None}]
  <2>1. RailStepOK /\ UNCHANGED <<job, edit, boot, crashes, choice, restored, rail>>
    BY Budgets, RailKept DEF Base, railVars, Hear
  <2>2. /\ task' \in [Run -> Task] /\ task'[r].step = "home"
        /\ \A q \in Run : q # r => task'[q] = task[q]
    BY <1>2, GoesTask DEF Base, Step
  <2>3. /\ since' \in [Run -> SUBSET Chat]
        /\ choice # None => choice \in since'[r]
        /\ \A q \in Run : q # r => since'[q] = since[q]
    BY <1>2 DEF Base, SchedTypeOK
  <2>4. rail[r].st = "unsent"
    BY DEF Base, Reports, ReportInv, Hear, At
  <2>5. ReportInv'
    BY <2>1, <2>2, <2>3, <2>4 DEF Base, Reports, ReportInv
  <2>6. ReportIsWanted'
    BY <2>1, <2>3, <2>4 DEF Base, Reports, ReportIsWanted
  <2>7. BindingInv'
    BY <2>1 DEF Base, Reports, BindingInv
  <2>8. /\ row' \in [Run -> {"none", "running", "success", "failed", "gone"}]
        /\ row'[r] # "running"
        /\ \A q \in Run : q # r => row'[q] = row[q]
    BY <1>2, FinalizedRow DEF Base
  <2>9. RunIsOwned'
    BY <2>1, <2>2, <2>8 DEF Base, RunIsOwned
  <2>10. SchedTypeOK'
    BY <2>1, <2>2, <2>3, <2>8 DEF Base, SchedTypeOK
  <2> QED BY <2>1, <2>5, <2>6, <2>9, <2>10, <2>7 DEF StepOK, RailStepOK, Reports
<1> QED BY <1>1, <1>2 DEF Hear

(* The binding is read again, and its chat looked up. *)
LEMMA ReadJobStep ==
  ASSUME Base, NEW r \in Run, ReadJob(r)
  PROVE  StepOK
<1>1. RailStepOK /\ UNCHANGED <<job, row, edit, boot, crashes, history, rail>>
  BY Budgets, RailKept DEF Base, railVars, ReadJob
<1>2. rail[r].st = "unsent" /\ task[r].step = "home"
  BY DEF Base, Reports, ReportInv, ReadJob, At
<1>3. /\ task' \in [Run -> Task]
      /\ task'[r].step \in {"done", "clear", "post"}
      /\ task'[r].step # "done" => job.there /\ job.home # None /\ task'[r].home = job.home
      /\ \A q \in Run : q # r => task'[q] = task[q]
  <2>1. CASE job.there /\ job.home # None
    <3>1. job.home \in Chat
      BY <2>1 DEF Base, SchedTypeOK, JobRow
    <3>2. PICK step \in {"clear", "post"} :
            task' = [task EXCEPT ![r] = [step |-> step, home |-> job.home]]
      BY <2>1 DEF ReadJob, Looked
    <3>3. [step |-> step, home |-> job.home] \in Task
      BY <3>1 DEF Task, Step
    <3> QED BY <2>1, <3>2, <3>3 DEF Base, SchedTypeOK
  <2>2. CASE ~(job.there /\ job.home # None)
    <3>1. Stops(r)
      BY <2>2 DEF ReadJob, Looked
    <3> QED BY <3>1, StopsTask DEF Base
  <2> QED BY <2>1, <2>2
<1>4. job.there /\ job.home # None => job.home \in (since[r] \cup restored) \cap Chat
  BY <1>2 DEF Base, Reports, ReportInv, BindingInv, SchedTypeOK, JobRow
<1>5. ReportInv'
  BY <1>1, <1>2, <1>3, <1>4 DEF Base, Reports, ReportInv, history
<1>6. ReportIsWanted' /\ BindingInv'
  BY <1>1 DEF Base, Reports, ReportIsWanted, BindingInv, history
<1>7. RunIsOwned'
  BY <1>1, <1>2, <1>3 DEF Base, RunIsOwned
<1>8. SchedTypeOK'
  BY <1>1, <1>3 DEF Base, SchedTypeOK, history
<1> QED BY <1>1, <1>5, <1>6, <1>7, <1>8 DEF StepOK, RailStepOK, Reports

(* A binding to a chat that cannot receive is cleared. *)
LEMMA ClearHomeStep ==
  ASSUME Base, NEW r \in Run, ClearHome(r)
  PROVE  StepOK
<1>1. RailStepOK /\ UNCHANGED <<row, edit, boot, crashes>>
  BY Budgets, RailKept DEF Base, railVars, ClearHome
<1>2. /\ task' \in [Run -> Task] /\ task'[r].step = "done"
      /\ \A q \in Run : q # r => task'[q] = task[q]
  BY StopsTask DEF Base, ClearHome
<1>3. Chooses(None) /\ job' \in JobRow /\ job'.home = None
  BY DEF Base, SchedTypeOK, JobRow, ClearHome
<1>4. /\ Reports' /\ choice' \in Chat \cup {None}
      /\ since' \in [Run -> SUBSET Chat] /\ restored' \subseteq Chat
  BY <1>1, <1>2, <1>3, ReportsChoose DEF Base, RailStepOK, Silent
<1>5. RunIsOwned'
  BY <1>1, <1>2 DEF Base, RunIsOwned, ClearHome, At
<1>6. SchedTypeOK'
  BY <1>1, <1>2, <1>3, <1>4 DEF Base, SchedTypeOK, history
<1> QED BY <1>1, <1>4, <1>5, <1>6 DEF StepOK, RailStepOK

(* The report is posted, for the first time. *)
LEMMA PostStep ==
  ASSUME Base, NEW r \in Run, Post(r)
  PROVE  StepOK
<1>1. /\ task[r].step = "post" /\ rail[r].st = "unsent"
      /\ task[r].home \in (since[r] \cup restored) \cap Chat
  BY DEF Base, Reports, ReportInv, Post, At
<1>2. UNCHANGED <<job, row, edit, boot, crashes, history>>
  BY DEF Post
<1>3. /\ RailTypeOK' /\ RailInv'
      /\ rail'[r].to = task[r].home
      /\ \A f \in Event : f # r => rail'[f] = rail[f]
  <2>1. r \in Event
    BY RailConstants
  <2>2. /\ RailTypeOK' /\ RailInv'
        /\ rail'[r] = [to |-> task[r].home, st |-> "pending"]
        /\ \A f \in Event : f # r => rail'[f] = rail[f]
    BY <1>1, <2>1, EnqueueStep DEF Base, Post
  <2> QED BY <2>2
<1>4. /\ task' \in [Run -> Task] /\ task'[r].step = "done"
      /\ \A q \in Run : q # r => task'[q] = task[q]
  BY StopsTask DEF Base, Post
<1>5. ReportInv'
  BY <1>2, <1>3, <1>4, RailConstants DEF Base, Reports, ReportInv, history
<1>6. ReportIsWanted' /\ BindingInv'
  BY <1>1, <1>2, <1>3, RailConstants
     DEF Base, Reports, ReportIsWanted, BindingInv, history
<1>7. RunIsOwned'
  BY <1>1, <1>2, <1>4 DEF Base, RunIsOwned
<1>8. SchedTypeOK'
  BY <1>2, <1>4 DEF Base, SchedTypeOK, history
<1> QED BY <1>3, <1>5, <1>6, <1>7, <1>8 DEF StepOK, Reports

(* A crash loses every task, a boot starts the loops, and reconcile closes the
   runs the dead process left before anything relies on their rows. *)
LEMMA RestartStep ==
  ASSUME Base, Crash \/ Boot \/ Reconcile
  PROVE  StepOK
<1>1. RailStepOK
  BY Budgets, RailKept, RailCrashStep DEF Base, railVars, Crash, Boot, Reconcile
<1>2. UNCHANGED <<job, history>>
  BY DEF Crash, Boot, Reconcile
<1>3. task' \in [Run -> Task] /\ \A r \in Run : Silent(r)
  <2>1. CASE Crash
    <3>1. NoTask \in Task /\ Over \in Task /\ NoTask.step = "none" /\ Over.step = "done"
      BY DEF NoTask, Over, Task, Step
    <3>2. \A r \in Run : task'[r] = IF task[r].step = "none" THEN NoTask ELSE Over
      BY <2>1 DEF Crash
    <3>3. task' \in [Run -> Task]
      BY <2>1, <3>1 DEF Crash
    <3> QED BY <3>1, <3>2, <3>3 DEF Base, Reports, ReportInv, Silent
  <2>2. CASE UNCHANGED task
    BY <2>2 DEF Base, SchedTypeOK, Silent
  <2> QED BY <2>1, <2>2 DEF Crash, Boot, Reconcile
<1>4. Reports'
  BY <1>1, <1>2, <1>3, ReportsSame DEF Base, RailStepOK
<1>5. /\ row' \in [Run -> {"none", "running", "success", "failed", "gone"}]
      /\ boot' = "up" => \A r \in Run : row'[r] # "running"
  BY DEF Base, SchedTypeOK, Crash, Boot, Reconcile
<1>6. RunIsOwned'
  BY <1>5 DEF RunIsOwned
<1>7. edit' \in [1 .. MaxActs -> Request]
  <2>1. NoRequest \in Request
    BY DEF Request, NoRequest
  <2>2. CASE Crash
    BY <2>1, <2>2 DEF Crash
  <2>3. CASE UNCHANGED edit
    BY <2>3 DEF Base, SchedTypeOK
  <2> QED BY <2>2, <2>3 DEF Crash, Boot, Reconcile
<1>8. boot' \in {"down", "booting", "up"} /\ crashes' \in 0 .. MaxCrashes
  BY SchedulerAssumption DEF Base, SchedTypeOK, Crash, Boot, Reconcile
<1>9. SchedTypeOK'
  BY <1>2, <1>3, <1>5, <1>7, <1>8 DEF Base, SchedTypeOK, history
<1> QED BY <1>1, <1>4, <1>6, <1>9 DEF StepOK, RailStepOK

(* The rail's own steps, and stuttering. *)
LEMMA RailOnlyStep ==
  ASSUME Base, RailStep \/ UNCHANGED vars
  PROVE  StepOK
<1>1. RailStepOK
  <2>1. CASE RailStep
    BY <2>1, DrainerStep DEF RailStep, Base
  <2>2. CASE UNCHANGED vars
    BY <2>2, Budgets, RailKept DEF Base, vars, railVars
  <2> QED BY <2>1, <2>2
<1>2. UNCHANGED <<job, row, task, edit, boot, crashes, history>>
  BY DEF RailStep, vars, schedVars
<1>3. Reports'
  BY <1>1, <1>2, ReportsSame DEF Base, RailStepOK, Silent
<1>4. RunIsOwned' /\ SchedTypeOK'
  BY <1>2 DEF Base, RunIsOwned, SchedTypeOK, history
<1> QED BY <1>1, <1>3, <1>4 DEF StepOK, RailStepOK

-----------------------------------------------------------------------------
(* The theorems.                                                           *)

(* A job somebody has just created, and an empty rail. *)
LEMMA InitInv == Init => Base
<1> SUFFICES ASSUME Init PROVE Base
  OBVIOUS
<1>1. RailTypeOK /\ RailInv /\ \A e \in Event : rail[e].st = "unsent"
  <2>1. RailTypeOK
    BY NoPassType, RailConstants DEF Init, RailInit, RailTypeOK, Pass
  <2>2. RailInv
    BY NoPassType, RailConstants DEF Init, RailInit, RailInv, Unseen, InHand
  <2> QED BY <2>1, <2>2 DEF Init, RailInit
<1>2. SchedTypeOK
  <2>1. NoTask \in Task
    BY DEF NoTask, Task, Step
  <2>2. job \in JobRow /\ choice \in Chat
    BY DEF Init, JobRow
  <2>3. edit \in [1 .. MaxActs -> Request]
    BY DEF Init, Request, NoRequest
  <2> QED BY <2>1, <2>2, <2>3, SchedulerAssumption DEF Init, SchedTypeOK
<1>3. RunIsOwned
  BY DEF Init, RunIsOwned
<1>4. Reports
  <2>1. \A r \in Run : task[r].step = "none" /\ rail[r].st = "unsent"
    BY <1>1, RailConstants DEF Init, NoTask
  <2>2. BindingInv
    BY DEF Init, BindingInv
  <2> QED BY <2>1, <2>2 DEF Reports, ReportInv, ReportIsWanted
<1> QED BY <1>1, <1>2, <1>3, <1>4 DEF Base

(* Every step, a crash at any point included, keeps it. *)
LEMMA NextInv == Base /\ [Next]_vars => Base'
<1> SUFFICES ASSUME Base, [Next]_vars PROVE StepOK
  BY DEF StepOK, Base
<1>1. ASSUME NEW r \in Run, RunTask(r) \/ Miss(r) PROVE StepOK
  BY <1>1, QuietTaskStep, HearStep, ReadJobStep, ClearHomeStep, PostStep DEF RunTask
<1>2. CASE Users
  BY <1>2, AnchorStep, ChoiceStep, FlipStep, BeginStep DEF Users
<1> QED BY <1>1, <1>2, AnchorStep, TickStep, RunNowStep, RestartStep, RailOnlyStep DEF Next

(* The inductive invariant holds in every reachable state. *)
LEMMA Inductive == Spec => []Base
BY InitInv, NextInv, PTL DEF Spec

(* A run that says "running" has the task that will close it once a restart has
   closed what the dead process left, and no row reaches its chat twice, whatever
   fails or dies between a delivery and its mark (fail_incomplete_runs_on_restart,
   claim_deliverable_background_event). *)
THEOREM RunsAreOwnedAndRowsSeenOnce == Spec => []SchedulerInv
<1>1. Base => SchedulerInv
  <2> SUFFICES ASSUME Base PROVE SchedulerInv
    OBVIOUS
  <2>1. SeenOnce
    BY DEF Base, RailInv, SeenOnce
  <2> QED BY <2>1, Types DEF Base, SchedulerInv
<1> QED BY <1>1, Inductive, PTL

(* A report goes to a chat the users had chosen when the run ended or since, however
   many requests cross, but for a binding that an upsert of a stale copy of the row
   has put back (deliver_to_home_chat, upsert_job). *)
THEOREM ReportsAreWanted == Spec => []ReportIsWanted
<1>1. Base => ReportIsWanted
  BY DEF Base, Reports
<1> QED BY <1>1, Inductive, PTL
=============================================================================

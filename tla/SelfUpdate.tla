----------------------------- MODULE SelfUpdate -----------------------------
(***************************************************************************)
(* The self-update of the daemon: the serving daemon (the applier) stages   *)
(* the next binary beside its own, spawns it as a canary, waits for its     *)
(* verdict in update.json, swaps the installed binary, hands over and       *)
(* watches the canary take over, or rolls back (update/applier.rs,          *)
(* update/canary.rs, update/handoff.rs, and their production hosts in       *)
(* control/src/daemon_cmd.rs).  The processes share four things: the        *)
(* handoff file, the status file daemon.json, the daemon lock and the       *)
(* binaries of the install directory.                                       *)
(*                                                                         *)
(* A deadline may pass at any moment: its length is not modelled.  A        *)
(* process can be killed, a rename can fail, the user can stop a daemon or  *)
(* start another one, and the machine can lose power.                       *)
(***************************************************************************)
EXTENDS Naturals, FiniteSets

CONSTANTS
  Pid,         \* process ids, never used twice: the bound on the processes started
  None,        \* no process, no file
  MaxVersion,  \* releases are 1..MaxVersion
  MaxKills,    \* bound: processes killed and power losses
  MaxErrors    \* bound: renames, spawns and boots that fail

ASSUME SelfUpdateAssumption ==
  /\ IsFiniteSet(Pid) /\ Pid # {}
  /\ None \notin Pid \cup (1 .. MaxVersion)
  /\ MaxVersion \in Nat \ {0}
  /\ MaxKills \in Nat
  /\ MaxErrors \in Nat

VARIABLES
  proc,     \* per process: where it is, and the version of its binary
  update,   \* the applier: the daemon that runs it, its step, its canary
  handoff,  \* update.json: the phase and who wrote it
  status,   \* daemon.json
  lock,     \* the process that holds daemon.lock
  bin,      \* the version at the install path, None when there is no file
  bak,      \* the version at <install path>.bak
  stage,    \* the version at .ryuzi.canary
  kills, errors

vars == <<proc, update, handoff, status, lock, bin, bak, stage, kills, errors>>
disk == <<bin, bak, stage>>

Version == 1 .. MaxVersion

\* Steps of run_daemon, of run_canary, and of a process being shut down.
State == {"none", "boot", "connecting", "serving", "stopped",
          "spawned", "probing", "waiting", "promoting", "published", "live",
          "closing", "dead"}

Step == {"idle", "spawn", "health", "drain", "swap", "signal", "stop", "watch",
         "restore", "respawn", "exit"}

Phase == {"probing", "healthy", "failed", "promote", "promoted"}

TypeOK ==
  /\ proc \in [Pid -> [st : State, ver : Version \cup {None}]]
  /\ update \in [by : Pid \cup {None}, step : Step, canary : Pid \cup {None}]
  /\ handoff \in [phase : Phase, pid : Pid] \cup {None}
  /\ status \in [pid : Pid, state : {"connecting", "running", "error"}] \cup {None}
  /\ lock \in Pid \cup {None}
  /\ {bin, bak, stage} \subseteq Version \cup {None}
  /\ kills \in 0 .. MaxKills
  /\ errors \in 0 .. MaxErrors

NoUpdate == [by |-> None, step |-> "idle", canary |-> None]

\* A daemon of the first release serves.
Init ==
  /\ LET p == CHOOSE q \in Pid : TRUE IN
       /\ proc = [q \in Pid |-> IF q = p THEN [st |-> "serving", ver |-> 1]
                                         ELSE [st |-> "none", ver |-> None]]
       /\ lock = p
       /\ status = [pid |-> p, state |-> "running"]
  /\ update = NoUpdate
  /\ handoff = None
  /\ bin = 1 /\ bak = None /\ stage = None
  /\ kills = 0 /\ errors = 0

-----------------------------------------------------------------------------
\* Processes

Alive(p) == proc[p].st \notin {"none", "dead"}

Goes(p, st) == proc' = [proc EXCEPT ![p].st = st]

\* An exit, however it comes about: the OS drops the lock.
Unlocked(p) == IF lock = p THEN None ELSE lock

Exits(p) == Goes(p, "dead") /\ lock' = Unlocked(p)

\* What SIGTERM does to a process: one that has installed its handlers shuts
\* down gracefully, any other is gone at once.
Terminated(p) ==
  [proc EXCEPT ![p].st =
     CASE @ \in {"serving", "stopped", "published", "live"} -> "closing"
       [] @ \in {"none", "dead", "closing"} -> @
       [] OTHER -> "dead"]

\* The ids not used yet, and the one the next process gets.  An update needs
\* two of them, for the canary and for the daemon a rollback respawns, so that
\* running out of ids never stops an update half-way.
Free == {q \in Pid : proc[q].st = "none"}
Fresh == CHOOSE q \in Pid : proc[q].st = "none"
Reserve == 2

Spawned(st, ver) == [proc EXCEPT ![Fresh] = [st |-> st, ver |-> ver]]

Errs == errors < MaxErrors /\ errors' = errors + 1
NoErr == UNCHANGED errors

-----------------------------------------------------------------------------
\* run_daemon

\* The user, or a service manager, starts the installed binary.
StartDaemon ==
  /\ Cardinality(Free) > Reserve
  /\ bin # None
  /\ proc' = Spawned("boot", bin)
  /\ UNCHANGED <<update, handoff, status, lock, disk, kills, errors>>

\* DaemonLock::acquire never waits.
TakeLock(p) ==
  /\ proc[p].st = "boot"
  /\ \/ /\ lock = None
        /\ lock' = p
        /\ Goes(p, "connecting")
        /\ status' = [pid |-> p, state |-> "connecting"]
     \/ /\ lock # None
        /\ Goes(p, "dead")
        /\ UNCHANGED <<lock, status>>
  /\ UNCHANGED <<update, handoff, disk, kills, errors>>

\* build_and_start and start_control_api, within CONNECT_TIMEOUT_MS.
Connect(p) ==
  /\ proc[p].st = "connecting"
  /\ \/ /\ Goes(p, "serving")
        /\ status' = [pid |-> p, state |-> "running"]
        /\ NoErr /\ UNCHANGED lock
     \/ /\ Errs
        /\ Exits(p)
        /\ status' = [pid |-> p, state |-> "error"]
  /\ UNCHANGED <<update, handoff, disk, kills>>

\* A signal or the shutdown RPC.  The updater's task is aborted first, at the
\* await it is in; between the two renames and the signal there is none.
Shutdown(p) ==
  /\ proc[p].st \in {"serving", "stopped", "live"}
  /\ proc' = Terminated(p)
  /\ update' = IF update.by = p /\ update.step \notin {"swap", "signal"}
               THEN NoUpdate ELSE update
  /\ UNCHANGED <<handoff, status, lock, disk, kills, errors>>

\* The rest of shutdown_once: stop, clear the status file, exit.
Close(p) ==
  /\ proc[p].st = "closing"
  /\ Exits(p)
  /\ status' = None
  /\ update' = IF update.by = p THEN NoUpdate ELSE update
  /\ UNCHANGED <<handoff, disk, kills, errors>>

-----------------------------------------------------------------------------
\* apply_update: the steps of the applier, in the daemon update.by

Applying(step) == update.step = step

To(step) == update' = [update EXCEPT !.step = step]

\* UpdateManager::tick finds a newer release and the asset is downloaded,
\* verified and written.  A stage that fails changes nothing.  The path to
\* replace is current_exe(): a daemon whose own file has been renamed since it
\* started would replace another path, which is left out.
Stage(p) ==
  /\ proc[p].st = "serving"
  /\ update = NoUpdate
  /\ bin = proc[p].ver
  /\ Cardinality(Free) >= Reserve
  /\ \E v \in Version : v > proc[p].ver /\ stage' = v
  /\ update' = [by |-> p, step |-> "spawn", canary |-> None]
  /\ UNCHANGED <<proc, handoff, status, lock, bin, bak, kills, errors>>

\* spawn_canary starts the staged binary and keeps its pid.
SpawnCanary ==
  /\ Applying("spawn")
  /\ \/ /\ proc' = Spawned("spawned", stage)
        /\ update' = [update EXCEPT !.step = "health", !.canary = Fresh]
        /\ NoErr
     \/ /\ Errs
        /\ update' = NoUpdate
        /\ UNCHANGED proc
  /\ UNCHANGED <<handoff, status, lock, disk, kills>>

\* wait_for looks at the phase in the file, not at who wrote it.
Says(phase) == handoff # None /\ handoff.phase = phase

AwaitHealthy ==
  /\ Applying("health")
  /\ Says("healthy")
  /\ To("drain")
  /\ UNCHANGED <<proc, handoff, status, lock, disk, kills, errors>>

\* Mutant: the wait for the verdict has no deadline.
Abort_OnFailure ==
  /\ Applying("health")
  /\ Says("failed")
  /\ proc' = Terminated(update.canary)
  /\ handoff' = None
  /\ update' = NoUpdate
  /\ UNCHANGED <<status, lock, disk, kills, errors>>

\* The canary failed or the deadline passed: the old daemon goes on serving.
Abort ==
  /\ Applying("health")
  /\ ~Says("healthy")
  /\ proc' = Terminated(update.canary)
  /\ handoff' = None
  /\ update' = NoUpdate
  /\ UNCHANGED <<status, lock, disk, kills, errors>>

\* An error of a rename after the drain: the process records it and exits; the
\* canary and update.json are left alone.
FailApply ==
  /\ Errs
  /\ Exits(update.by)
  /\ status' = [pid |-> update.by, state |-> "error"]
  /\ update' = NoUpdate
  /\ UNCHANGED <<handoff, disk, kills>>

\* Mutant: the signal is given before the swap.
Backup_ThenSignal ==
  /\ Applying("drain")
  /\ bin' = None /\ bak' = bin
  /\ To("signal")
  /\ UNCHANGED <<proc, handoff, status, lock, stage, kills, errors>>

\* drain and backup.
Backup ==
  /\ Applying("drain")
  /\ \/ /\ bin' = None /\ bak' = bin
        /\ To("swap")
        /\ NoErr
        /\ UNCHANGED <<proc, handoff, status, lock, stage, kills>>
     \/ FailApply

Swap ==
  /\ Applying("swap")
  /\ \/ /\ bin' = stage /\ stage' = None
        /\ To("signal")
        /\ NoErr
        /\ UNCHANGED <<proc, handoff, status, lock, bak, kills>>
     \/ FailApply

Signal ==
  /\ Applying("signal")
  /\ handoff' = [phase |-> "promote", pid |-> update.canary]
  /\ update' = IF proc[update.by].st = "closing" THEN NoUpdate
               ELSE [update EXCEPT !.step = "stop"]
  /\ UNCHANGED <<proc, status, lock, disk, kills, errors>>

\* stop_gateways: the old daemon stops serving, after the signal.
StopOld ==
  /\ Applying("stop")
  /\ Goes(update.by, "stopped")
  /\ To("watch")
  /\ UNCHANGED <<handoff, status, lock, disk, kills, errors>>

\* ApplyOutcome::Promoted.
HandOver ==
  /\ Applying("watch")
  /\ Says("promoted")
  /\ handoff' = None
  /\ Exits(update.by)
  /\ update' = NoUpdate
  /\ UNCHANGED <<status, disk, kills, errors>>

\* ApplyOutcome::RolledBack: the watchdog gave up.
RollBack ==
  /\ Applying("watch")
  /\ ~Says("promoted")
  /\ proc' = Terminated(update.canary)
  /\ To("restore")
  /\ UNCHANGED <<handoff, status, lock, disk, kills, errors>>

\* Mutant: the rollback cleans up and leaves the new binary installed.
Restore_KeepsNew ==
  /\ Applying("restore")
  /\ handoff' = None
  /\ To("respawn")
  /\ UNCHANGED <<proc, status, lock, disk, kills, errors>>

Restore ==
  /\ Applying("restore")
  /\ \/ /\ bin' = bak /\ bak' = None
        /\ handoff' = None
        /\ To("respawn")
        /\ NoErr
        /\ UNCHANGED <<proc, status, lock, stage, kills>>
     \/ FailApply

\* handle_apply_outcome spawns the previous daemon and only then exits.
Respawn ==
  /\ Applying("respawn")
  /\ \/ /\ proc' = Spawned("boot", bin)
        /\ NoErr
     \/ /\ Errs
        /\ UNCHANGED proc
  /\ To("exit")
  /\ UNCHANGED <<handoff, status, lock, disk, kills>>

ExitOld ==
  /\ Applying("exit")
  /\ Exits(update.by)
  /\ update' = NoUpdate
  /\ UNCHANGED <<handoff, status, disk, kills, errors>>

-----------------------------------------------------------------------------
\* run_canary_with

Writes(q, phase) == handoff' = [phase |-> phase, pid |-> q]

Probe(q) ==
  /\ proc[q].st = "spawned"
  /\ Writes(q, "probing")
  /\ Goes(q, "probing")
  /\ UNCHANGED <<update, status, lock, disk, kills, errors>>

\* The version is the target's and the database opens, or not.
Probed(q) ==
  /\ proc[q].st = "probing"
  /\ \/ Writes(q, "healthy") /\ Goes(q, "waiting") /\ NoErr
     \/ Writes(q, "failed") /\ Goes(q, "dead") /\ Errs
  /\ UNCHANGED <<update, status, lock, disk, kills>>

SeePromote(q) ==
  /\ proc[q].st = "waiting"
  /\ Says("promote")
  /\ Goes(q, "promoting")
  /\ UNCHANGED <<update, handoff, status, lock, disk, kills, errors>>

\* The canary's own deadline.  The clock is read after the poll: a promotion written
\* in between is overwritten.
PromoteTimeout(q) ==
  /\ proc[q].st = "waiting"
  /\ Writes(q, "failed")
  /\ Goes(q, "dead")
  /\ UNCHANGED <<update, status, lock, disk, kills, errors>>

\* promote(): start, control API, handlers, status file.
Promote(q) ==
  /\ proc[q].st = "promoting"
  /\ \/ /\ Goes(q, "published")
        /\ status' = [pid |-> q, state |-> "running"]
        /\ NoErr /\ UNCHANGED handoff
     \/ /\ Writes(q, "failed")
        /\ Goes(q, "dead")
        /\ Errs /\ UNCHANGED status
  /\ UNCHANGED <<update, lock, disk, kills>>

Promoted(q) ==
  /\ proc[q].st = "published"
  /\ Writes(q, "promoted")
  /\ Goes(q, "live")
  /\ UNCHANGED <<update, status, lock, disk, kills, errors>>

\* spawn_lock_acquire_retry.
LateLock(q) ==
  /\ proc[q].st = "live"
  /\ lock = None
  /\ lock' = q
  /\ UNCHANGED <<proc, update, handoff, status, disk, kills, errors>>

-----------------------------------------------------------------------------
\* Faults

\* SIGKILL.
Kill(p) ==
  /\ kills < MaxKills
  /\ Alive(p)
  /\ kills' = kills + 1
  /\ Exits(p)
  /\ update' = IF update.by = p THEN NoUpdate ELSE update
  /\ UNCHANGED <<handoff, status, disk, errors>>

PowerLoss ==
  /\ kills < MaxKills
  /\ kills' = kills + 1
  /\ proc' = [p \in Pid |-> IF Alive(p) THEN [proc[p] EXCEPT !.st = "dead"] ELSE proc[p]]
  /\ lock' = None
  /\ update' = NoUpdate
  /\ UNCHANGED <<handoff, status, disk, errors>>

-----------------------------------------------------------------------------
Daemon(p) == TakeLock(p) \/ Connect(p) \/ Close(p)

Applier ==
  \/ SpawnCanary \/ AwaitHealthy \/ Abort
  \/ Backup \/ Swap \/ Signal \/ StopOld
  \/ HandOver \/ RollBack \/ Restore \/ Respawn \/ ExitOld

Canary(q) ==
  \/ Probe(q) \/ Probed(q) \/ SeePromote(q) \/ PromoteTimeout(q)
  \/ Promote(q) \/ Promoted(q) \/ LateLock(q)

Next ==
  \/ Applier
  \/ PowerLoss
  \/ StartDaemon
  \/ \E p \in Pid :
       \/ Daemon(p) \/ Shutdown(p) \/ Stage(p)
       \/ Canary(p) \/ Kill(p)

\* Every process runs until it stops by itself, and every wait of the
\* handshake has a deadline.
Fairness ==
  /\ WF_vars(Applier)
  /\ \A p \in Pid : WF_vars(Daemon(p)) /\ WF_vars(Canary(p))

Spec == Init /\ [][Next]_vars /\ Fairness

-----------------------------------------------------------------------------
\* From the first rename on, the daemon that runs the update can be put back:
\* its release is in the backup until a rollback has restored it to the install
\* path, and the install directory never loses every binary, whatever failed or
\* was killed (applier.rs: backup, swap, restore).
RollbackIsPossible ==
  /\ update.step \in {"swap", "signal", "stop", "watch", "restore"} =>
       bak = proc[update.by].ver
  /\ update.step \in {"respawn", "exit"} => bin = proc[update.by].ver
  /\ bin = None => bak # None

\* What every step of an update keeps, those of a kill or of an error included.
UpdateInv == TypeOK /\ RollbackIsPossible

\* A canary becomes the daemon on the signal of its own update only when its
\* release is the installed one, so that the next start runs what runs now
\* (applier.rs: swap before the promote signal, kill before restore).
PromotedIsInstalled ==
  [][\A q \in Pid :
       SeePromote(q) /\ handoff.pid = q => bin = proc[q].ver]_vars

\* An update ends: the applier never waits for its canary for ever, whoever is
\* killed and whatever fails (wait_for has a deadline at both of its places).
UpdateEnds == update # NoUpdate ~> update = NoUpdate

-----------------------------------------------------------------------------
\* Four things the handshake is described as giving and does not; they are no
\* property of a passing run (README, "What the models also show").

\* What serves.  A promoting canary claims the gateways before it is published.
Serves(p) == proc[p].st \in {"serving", "promoting", "published", "live"}

\* "the applier/canary handshake, not the flock, is what excludes the two during
\* the swap" (daemon_cmd.rs): one process serves at a time.
HandshakeExcludes == \A p, q \in Pid : Serves(p) /\ Serves(q) => p = q

\* The binary is swapped only for a canary that said it is healthy.
SwapNeedsHealthyCanary ==
  update.step = "swap" => proc[update.canary].st \notin {"spawned", "probing"}

\* A canary answers only the signal of its own update.
PromoteIsAddressed == [][\A q \in Pid : SeePromote(q) => handoff.pid = q]_vars

\* "rolled back; respawning the previous daemon" (applier.rs).
RollbackRespawns == update.step = "respawn" ~> \E p \in Pid : Serves(p)
=============================================================================

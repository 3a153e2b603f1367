--------------------------- MODULE AgentRegistry ---------------------------
(***************************************************************************)
(* The on-disk agent registry: journalled transactions over the agents     *)
(* directory (agents/transaction.rs), the registry instances that cache an *)
(* image of it and mutate it (agents/registry.rs), and the boot that picks *)
(* between loading, first install and upgrade (agents/bootstrap.rs).       *)
(* A process may die after any disk operation, and a disk operation may    *)
(* return an error instead of having its effect.                           *)
(*                                                                         *)
(* A path holds a value or Absent: a whole agent directory is one value    *)
(* (its agent.yaml), a rename moves it in one step, and the syncs of the   *)
(* code make every finished operation survive a crash.  Within one pass of *)
(* the code over the journal's operations the model takes the paths in any *)
(* order.  The registry generation is a hash of the contents, here the     *)
(* contents themselves.                                                    *)
(***************************************************************************)
EXTENDS Naturals, FiniteSets

CONSTANTS Procs,       \* processes with a registry instance over this directory
          Agents,      \* agent ids; Ryuzi is the built-in one
          Ryuzi,
          Profiles,    \* contents of an agent.yaml or of subagents.yaml
          Default,     \* the contents the templates render
          Absent,      \* nothing at a path
          NoProc,
          Installs,    \* what may be on disk at first: "existing", "fresh", "upgrade"
          MaxCrashes,  \* bound on crashes
          MaxErrors,   \* bound on operations that return an error
          MaxTx        \* bound on transactions

ASSUME RegistryAssumption ==
    /\ Ryuzi \in Agents /\ Default \in Profiles
    /\ Absent \notin Profiles \cup [listed : SUBSET Agents, default : Agents]
    /\ NoProc \notin Procs
    /\ Agents \cap {"subagents", "index", "memory"} = {}
    /\ Installs \subseteq {"existing", "fresh", "upgrade"}
    /\ MaxTx \in Nat /\ MaxCrashes \in Nat /\ MaxErrors \in Nat

VARIABLES active,      \* what is at each path of the registry
          dirs,        \* the transaction directories under agents/.transactions
          lock,        \* holder of the registry file lock
          settings,    \* the store's persistence marker and legacy agent settings
          proc,        \* the processes
          used,        \* agent ids given out: new_agent_id never repeats one
          nextTx,      \* the id of the next transaction
          faults       \* crashes and errors so far

vars == <<active, dirs, lock, settings, proc, used, nextTx, faults>>

Paths == Agents \cup {"subagents", "index", "memory"}
Tx    == 1..MaxTx

\* The contents of index.yaml: the ordered agents (as a set) and the default.
IndexOf(i) == [listed |-> i.listed, default |-> i.default]

Missing == [x \in Paths |-> Absent]
Exists(x) == active[x] # Absent

\* No transaction directory; one without a journal is "incomplete".
NoDir == [phase |-> "none", op |-> [x \in Paths |-> "none"],
          stage |-> Missing, aside |-> Missing]

\* registry_generation hashes index.yaml, subagents.yaml and every agent.yaml.
Generation == [x \in Paths \ {"memory"} |-> active[x]]
NoGeneration == [x \in Paths \ {"memory"} |-> Absent]

Down == [pc |-> "down", plan |-> "none", tx |-> 0, todo |-> {}, view |-> Absent,
         gen |-> NoGeneration, cand |-> Absent, newGen |-> NoGeneration,
         next |-> "none"]

\* The disk as recovery would leave it now: what a transaction directory with a
\* journal still has to put back, or still has to put in place.
Settled(d) ==
    [x \in Paths |->
       IF d.phase = "prepared"
       THEN CASE d.op[x] # "none" /\ d.aside[x] # Absent -> d.aside[x]
              [] d.op[x] = "create" -> Absent
              [] OTHER -> active[x]
       ELSE IF d.op[x] \in {"replace", "create", "index"} /\ d.stage[x] # Absent
            THEN d.stage[x] ELSE active[x]]

SettledDisk ==
    LET journals == {t \in Tx : dirs[t].phase \in {"prepared", "committed"}}
    IN IF journals = {} THEN active
       ELSE Settled(dirs[CHOOSE t \in journals : TRUE])

ImageOf(disk) ==
    [profiles |-> [a \in Agents |-> disk[a]], sub |-> disk["subagents"],
     listed |-> IF disk["index"] = Absent THEN {} ELSE disk["index"].listed,
     default |-> IF disk["index"] = Absent THEN Ryuzi ELSE disk["index"].default]

\* The mutations of the atomic registry, and what makes an image whole.
Reg == INSTANCE AtomicRegistry WITH img <- Absent

\* No registry is not an image.
ASSUME ImageAssumption == Absent \notin Reg!Images

\* The atomic registry this one implements: there is none until recovery would
\* produce a whole image.
Atomic == INSTANCE AtomicRegistry
    WITH img <- LET i == ImageOf(SettledDisk) IN IF Reg!WellFormed(i) THEN i ELSE Absent

-----------------------------------------------------------------------------
(* Disk images before the first boot. *)

InstalledImage == [profiles |-> [a \in Agents |-> IF a = Ryuzi THEN Default ELSE Absent],
                   sub |-> Default, listed |-> {Ryuzi}, default |-> Ryuzi]

DiskOf(i) == [x \in Paths |-> IF x \in Agents THEN i.profiles[x]
                              ELSE CASE x = "subagents" -> i.sub
                                     [] x = "index" -> IndexOf(i)
                                     [] OTHER -> Absent]

Init ==
    /\ \E k \in Installs :
         /\ active = CASE k = "existing" -> DiskOf(InstalledImage)
                       [] k = "fresh" -> Missing
                       [] OTHER -> [Missing EXCEPT !["memory"] = Default]
         /\ settings = [marker |-> k = "existing", legacy |-> k = "upgrade"]
    /\ dirs = [t \in Tx |-> NoDir]
    /\ lock = NoProc
    /\ proc = [p \in Procs |-> Down]
    /\ used = {Ryuzi}
    /\ nextTx = 1
    /\ faults = [crashes |-> 0, errors |-> 0]

-----------------------------------------------------------------------------
(* Steps of a process. *)

At(p, l)  == proc[p].pc = l
Goto(p, l) == proc' = [proc EXCEPT ![p].pc = l]

\* Continue at l with the paths S to be visited.
Visit(p, l, S) == proc' = [proc EXCEPT ![p].pc = l, ![p].todo = S]
Visited(p, x)  == proc' = [proc EXCEPT ![p].todo = @ \ {x}]

Dir(p) == dirs[proc[p].tx]
Touched(d) == {x \in Paths : d.op[x] # "none"}

\* The process dies, or an operation returns an error, now.
Dies == /\ faults.crashes < MaxCrashes
        /\ faults' = [faults EXCEPT !.crashes = @ + 1]

Errs == /\ faults.errors < MaxErrors
        /\ faults' = [faults EXCEPT !.errors = @ + 1]

\* initialize_agent_registry: the reason is read before any lock is taken, and
\* load_existing first restores a missing subagents.yaml.
Boot(p) ==
    LET legacy == settings.legacy \/ Exists("memory")
        plan == IF ~settings.marker /\ ~Exists("index")
                THEN IF legacy THEN "upgrade" ELSE "fresh"
                ELSE IF ~settings.marker /\ legacy THEN "cleanup" ELSE "existing"
    IN /\ At(p, "down")
       /\ proc' = [proc EXCEPT ![p] = [Down EXCEPT !.pc = "recover", !.plan = plan]]
       /\ active' = IF plan = "existing" /\ ~Exists("subagents")
                    THEN [active EXCEPT !["subagents"] = Default] ELSE active
       /\ UNCHANGED <<dirs, lock, settings, used, nextTx, faults>>

\* recover_transactions takes the lock and then each directory in turn.
LockForRecovery(p) ==
    /\ At(p, "recover") /\ lock = NoProc
    /\ lock' = p
    /\ Goto(p, "scan")
    /\ UNCHANGED <<active, dirs, settings, used, nextTx, faults>>

\* Mutant: recovery takes every leftover directory for an incomplete one.
Scan_Discards(p) ==
    /\ At(p, "scan")
    /\ \E t \in Tx :
         /\ dirs[t].phase # "none"
         /\ proc' = [proc EXCEPT ![p].tx = t, ![p].next = "scan", ![p].pc = "remove"]
    /\ UNCHANGED <<active, dirs, lock, settings, used, nextTx, faults>>

Scan(p) ==
    /\ At(p, "scan")
    /\ \E t \in Tx :
         /\ dirs[t].phase # "none"
         /\ \A u \in Tx : dirs[u].phase # "none" => t <= u
         /\ proc' = [proc EXCEPT ![p].tx = t, ![p].todo = Touched(dirs[t]), ![p].next = "scan",
                       ![p].pc = CASE dirs[t].phase = "prepared" -> "rollback"
                                   [] dirs[t].phase = "committed" -> "replay"
                                   [] OTHER -> "remove"]
    /\ UNCHANGED <<active, dirs, lock, settings, used, nextTx, faults>>

\* Every journal is settled: release the lock; bootstrap_defaults goes on to
\* its own transaction, every other boot to reading the files.
Recovered(p) ==
    /\ At(p, "scan") /\ \A t \in Tx : dirs[t].phase = "none"
    /\ lock' = NoProc
    /\ Goto(p, IF proc[p].plan \in {"fresh", "upgrade"} THEN "defaults" ELSE "read")
    /\ UNCHANGED <<active, dirs, settings, used, nextTx, faults>>

\* An operation of a boot failed: initialize_agent_registry returns the error
\* and the process exits.  A serving process drops the call and goes on.
GiveUp(p) ==
    /\ lock' = IF lock = p THEN NoProc ELSE lock
    /\ proc' = [proc EXCEPT ![p] = IF @.plan = "serve" THEN [@ EXCEPT !.pc = "up"] ELSE Down]

-----------------------------------------------------------------------------
(* AgentTransaction::prepare and commit. *)

\* The operations of the journal for candidate c, a RegistryDiskImage: it carries
\* the profiles of c.agents and lists the directories c.deleted; any other
\* directory stays as it is.
OpsFor(c) ==
    [x \in Paths |->
       CASE x \in c.deleted -> "delete"
         [] x \in Agents /\ x \notin c.deleted ->
              IF x \notin c.agents THEN "none"
              ELSE IF Exists(x) THEN "replace" ELSE "create"
         [] x = "subagents" -> IF Exists(x) THEN "replace" ELSE "create"
         [] x = "memory" -> IF c.legacy /\ Exists(x) THEN "delete" ELSE "none"
         [] OTHER -> "index"]

\* prepare: under the lock, a new directory with everything staged; the
\* journal that makes it a transaction is written by WriteJournal.
Prepare(p, c) ==
    /\ lock = NoProc /\ nextTx \in Tx
    /\ lock' = p
    /\ nextTx' = nextTx + 1
    /\ dirs' = [dirs EXCEPT ![nextTx] =
                  [phase |-> "incomplete", op |-> OpsFor(c),
                   stage |-> [x \in Paths |->
                     IF OpsFor(c)[x] \in {"replace", "create", "index"}
                     THEN DiskOf(c.image)[x] ELSE Absent],
                   aside |-> Missing]]
    /\ proc' = [proc EXCEPT ![p].pc = "journal", ![p].tx = nextTx, ![p].cand = c]
    /\ used' = used \cup Reg!Ids(c.image)
    /\ UNCHANGED <<active, settings, faults>>

\* A mutation of a serving instance, computed from its cached image and refused
\* (no step) when the disk no longer has the generation that image was read at.
Mutate(p) ==
    /\ At(p, "up")
    /\ proc[p].gen = Generation
    /\ \E i \in Reg!Mutations(proc[p].view) :
         LET old == Reg!Ids(proc[p].view)
             new == Reg!Ids(i)
         IN /\ (new \ old) \cap used = {}
            /\ Prepare(p, [image |-> i, agents |-> new, deleted |-> old \ new,
                           legacy |-> FALSE])

\* bootstrap_defaults: the template agent, under a fresh id when a directory
\* named ryuzi is there; an upgrade also deletes what it found.
Defaults(p) ==
    LET existing == {a \in Agents : Exists(a)}
        destructive == proc[p].plan = "upgrade"
    IN /\ At(p, "defaults")
       /\ \E a \in IF Ryuzi \in existing THEN Agents \ used ELSE {Ryuzi} :
            Prepare(p, [image |-> [profiles |-> [b \in Agents |->
                                      IF b = a THEN Default ELSE Absent],
                                   sub |-> Default, listed |-> {a}, default |-> a],
                        agents |-> {a},
                        deleted |-> IF destructive THEN existing ELSE {},
                        legacy |-> destructive])

\* append_default_ryuzi: no agent of the registry can run, so one is added and
\* becomes the default.  Nothing is compared with the generation that was read.
AppendDefault(p) ==
    LET view == proc[p].view
    IN /\ At(p, "append")
       /\ \E a \in Agents \ (used \cup Reg!Ids(view)) :
            Prepare(p, [image |-> [view EXCEPT !.profiles[a] = Default,
                                               !.listed = Reg!Ids(view) \cup {a},
                                               !.default = a],
                        agents |-> {a}, deleted |-> {}, legacy |-> FALSE])

WriteJournal(p) ==
    /\ At(p, "journal")
    /\ dirs' = [dirs EXCEPT ![proc[p].tx].phase = "prepared"]
    /\ Visit(p, "aside", {x \in Paths : Dir(p).op[x] \in {"replace", "delete"}})
    /\ UNCHANGED <<active, lock, settings, used, nextTx, faults>>

\* commit_before_marker, first loop: targets to backup or trash.
MoveAside(p) ==
    /\ At(p, "aside")
    /\ \E x \in proc[p].todo :
         /\ Exists(x) /\ Dir(p).aside[x] = Absent
         /\ active' = [active EXCEPT ![x] = Absent]
         /\ dirs' = [dirs EXCEPT ![proc[p].tx].aside[x] = active[x]]
         /\ Visited(p, x)
    /\ UNCHANGED <<lock, settings, used, nextTx, faults>>

StartInstall(p) ==
    /\ At(p, "aside") /\ proc[p].todo = {}
    /\ Visit(p, "install", {x \in Paths : Dir(p).op[x] \in {"replace", "create"}})
    /\ UNCHANGED <<active, dirs, lock, settings, used, nextTx, faults>>

\* Second loop: staged files to their targets.
Install(p) ==
    /\ At(p, "install")
    /\ \E x \in proc[p].todo :
         /\ Dir(p).stage[x] # Absent /\ ~Exists(x)
         /\ active' = [active EXCEPT ![x] = Dir(p).stage[x]]
         /\ dirs' = [dirs EXCEPT ![proc[p].tx].stage[x] = Absent]
         /\ Visited(p, x)
    /\ UNCHANGED <<lock, settings, used, nextTx, faults>>

\* Mutant: the index is overwritten without a backup.
IndexAside_Forgets(p) ==
    /\ At(p, "install") /\ proc[p].todo = {}
    /\ Goto(p, "index")
    /\ UNCHANGED <<active, dirs, lock, settings, used, nextTx, faults>>

\* The index goes to backup if there is one, and is then written from the
\* stage, which keeps its copy.
IndexAside(p) ==
    /\ At(p, "install") /\ proc[p].todo = {}
    /\ active' = [active EXCEPT !["index"] = Absent]
    /\ dirs' = [dirs EXCEPT ![proc[p].tx].aside["index"] = active["index"]]
    /\ Goto(p, "index")
    /\ UNCHANGED <<lock, settings, used, nextTx, faults>>

\* The rendered index is written last, in place.
IndexWrite(p) ==
    /\ At(p, "index")
    /\ active' = [active EXCEPT !["index"] = Dir(p).stage["index"]]
    /\ Goto(p, "marker")
    /\ UNCHANGED <<dirs, lock, settings, used, nextTx, faults>>

\* The commit point: the journal says Committed.
WriteMarker(p) ==
    /\ At(p, "marker")
    /\ dirs' = [dirs EXCEPT ![proc[p].tx].phase = "committed"]
    /\ Goto(p, "hash")
    /\ UNCHANGED <<active, lock, settings, used, nextTx, faults>>

\* The generation of the committed image, under the lock; then cleanup.
HashCommitted(p) ==
    /\ At(p, "hash")
    /\ proc' = [proc EXCEPT ![p].newGen = Generation, ![p].pc = "replay",
                            ![p].todo = Touched(Dir(p)), ![p].next = "publish"]
    /\ UNCHANGED <<active, dirs, lock, settings, used, nextTx, faults>>

\* commit returned: the instance publishes the candidate with its generation,
\* or bootstrap goes on to load what it has just committed.
Publish(p) ==
    /\ At(p, "publish")
    /\ lock' = NoProc
    /\ proc' = [proc EXCEPT ![p] = LET q == @ IN
         IF q.plan = "serve"
         THEN [q EXCEPT !.pc = "up", !.view = q.cand.image, !.gen = q.newGen]
         ELSE [q EXCEPT !.pc = "recover",
                        !.plan = IF q.plan = "upgrade" THEN "cleanup" ELSE "adopt"]]
    /\ UNCHANGED <<active, dirs, settings, used, nextTx, faults>>

-----------------------------------------------------------------------------
(* Settling a journal: rollback_prepared, replay_committed and the removal of
   the directory, run by commit itself and by recovery. *)

\* The two (target, trash) or (stage, target) combinations the code refuses.
RollbackBails(p, x) ==
    Dir(p).op[x] = "delete" /\ (Exists(x) <=> Dir(p).aside[x] # Absent)

\* Mutant: a target that is already in place is refused too.
ReplayBails_NeedsStage(p, x) ==
    Dir(p).op[x] \in {"replace", "create", "index"} /\ Dir(p).stage[x] = Absent

ReplayBails(p, x) ==
    CASE Dir(p).op[x] \in {"replace", "create"} -> (Exists(x) <=> Dir(p).stage[x] # Absent)
      [] Dir(p).op[x] = "delete" -> Exists(x)
      [] OTHER -> ~Exists(x) /\ Dir(p).stage[x] = Absent

\* The index comes last in both passes.
Due(p) == {x \in proc[p].todo : x = "index" => proc[p].todo = {x}}

\* A target in the way of its backup is removed in a step of its own.
RollbackClear(p) ==
    /\ At(p, "rollback")
    /\ \E x \in Due(p) :
         /\ Dir(p).op[x] \in {"replace", "index"}
         /\ Dir(p).aside[x] # Absent /\ Exists(x)
         /\ active' = [active EXCEPT ![x] = Absent]
    /\ UNCHANGED <<dirs, lock, settings, proc, used, nextTx, faults>>

\* Mutant: what was moved aside is copied back and also stays in the trash.
RollbackPath_Copies(p) ==
    /\ At(p, "rollback")
    /\ \E x \in Due(p) :
         /\ ~RollbackBails(p, x)
         /\ Dir(p).aside[x] # Absent => ~Exists(x)
         /\ active' = [active EXCEPT ![x] = IF Dir(p).aside[x] # Absent THEN Dir(p).aside[x] ELSE @]
         /\ Visited(p, x)
    /\ UNCHANGED <<dirs, lock, settings, used, nextTx, faults>>

\* Put back what was moved aside, and take out what was created.  An index
\* that was not there before has no backup and stays.
RollbackPath(p) ==
    /\ At(p, "rollback")
    /\ \E x \in Due(p) :
         LET back == Dir(p).aside[x] IN
         /\ ~RollbackBails(p, x)
         /\ back # Absent => ~Exists(x)
         /\ active' = [active EXCEPT ![x] =
              IF back # Absent THEN back
              ELSE IF Dir(p).op[x] = "create" THEN Absent ELSE active[x]]
         /\ dirs' = [dirs EXCEPT ![proc[p].tx].aside[x] = Absent]
         /\ Visited(p, x)
    /\ UNCHANGED <<lock, settings, used, nextTx, faults>>

\* Move what is still staged to its target; the index is written again from
\* the stage when the stage still has it.
ReplayPath(p) ==
    /\ At(p, "replay")
    /\ \E x \in Due(p) :
         LET staged == Dir(p).stage[x] IN
         /\ ~ReplayBails(p, x)
         /\ active' = [active EXCEPT ![x] = IF staged # Absent THEN staged ELSE @]
         /\ dirs' = [dirs EXCEPT ![proc[p].tx].stage[x] = IF x = "index" THEN @ ELSE Absent]
         /\ Visited(p, x)
    /\ UNCHANGED <<lock, settings, used, nextTx, faults>>

\* A refused path: the error is returned, or only logged behind the marker.
Bail(p) ==
    /\ \/ At(p, "rollback") /\ \E x \in Due(p) : RollbackBails(p, x)
       \/ At(p, "replay") /\ \E x \in Due(p) : ReplayBails(p, x)
    /\ IF proc[p].next = "publish" THEN Goto(p, "publish") /\ UNCHANGED lock ELSE GiveUp(p)
    /\ UNCHANGED <<active, dirs, settings, used, nextTx, faults>>

\* Recovery found no journal, or every path of the journal is settled.
Removing(p) ==
    \/ At(p, "remove")
    \/ proc[p].pc \in {"rollback", "replay"} /\ proc[p].todo = {}

\* remove_transaction_dir.
RemoveDir(p) ==
    /\ Removing(p)
    /\ dirs' = [dirs EXCEPT ![proc[p].tx] = NoDir]
    /\ IF proc[p].next = "fail" THEN GiveUp(p) ELSE Goto(p, proc[p].next) /\ UNCHANGED lock
    /\ UNCHANGED <<active, settings, used, nextTx, faults>>

-----------------------------------------------------------------------------
(* AgentRegistry::load after recovery, and the end of a boot. *)

\* The files are read without the lock; a missing subagents.yaml is fatal.
Read(p) ==
    LET present == {a \in Agents : Exists(a)}
        ids == IF Exists("index") THEN present \cap active["index"].listed ELSE present
    IN /\ At(p, "read")
       /\ IF ~Exists("subagents") THEN GiveUp(p)
          ELSE /\ \E d \in IF Exists("index") THEN {active["index"].default}
                           ELSE IF ids # {} THEN ids ELSE {Ryuzi} :
                    proc' = [proc EXCEPT ![p].pc = "generation", ![p].view =
                      [profiles |-> [a \in Agents |-> IF a \in ids THEN active[a] ELSE Absent],
                       sub |-> active["subagents"],
                       listed |-> IF Exists("index") THEN active["index"].listed ELSE ids,
                       default |-> d]]
               /\ UNCHANGED lock
       /\ UNCHANGED <<active, dirs, settings, used, nextTx, faults>>

\* The generation is hashed afterwards, without the lock too.  load_existing
\* then appends a default agent when none can run: whether one can hangs on the
\* providers, routes and plugins of the store as well as on its profile.
ReadGeneration(p) ==
    /\ At(p, "generation")
    /\ \E executable \in SUBSET Reg!Ids(proc[p].view) :
         proc' = [proc EXCEPT ![p].gen = Generation,
           ![p].pc = IF proc[p].plan = "existing" /\ executable = {}
                     THEN "append" ELSE "finish"]
    /\ UNCHANGED <<active, dirs, lock, settings, used, nextTx, faults>>

\* The legacy settings go first, the persistence marker is written last.
DeleteLegacySettings(p) ==
    /\ At(p, "finish")
    /\ settings' = [settings EXCEPT !.legacy = @ /\ proc[p].plan # "cleanup"]
    /\ Goto(p, "mark")
    /\ UNCHANGED <<active, dirs, lock, used, nextTx, faults>>

SetMarker(p) ==
    /\ At(p, "mark")
    /\ settings' = [settings EXCEPT !.marker = TRUE]
    /\ proc' = [proc EXCEPT ![p].pc = "up", ![p].plan = "serve"]
    /\ UNCHANGED <<active, dirs, lock, used, nextTx, faults>>

-----------------------------------------------------------------------------
(* Faults. *)

\* The process dies; the operating system releases its file lock.
Crash(p) ==
    /\ ~At(p, "down") /\ Dies
    /\ lock' = IF lock = p THEN NoProc ELSE lock
    /\ proc' = [proc EXCEPT ![p] = Down]
    /\ UNCHANGED <<active, dirs, settings, used, nextTx>>

\* What an interrupted remove_dir_all may leave of a directory.
Leftovers(d) ==
    {[phase |-> j, op |-> d.op,
      stage |-> [x \in Paths |-> IF x \in S THEN d.stage[x] ELSE Absent],
      aside |-> [x \in Paths |-> IF x \in A THEN d.aside[x] ELSE Absent]] :
        j \in {d.phase, "incomplete"},
        S \in SUBSET {x \in Paths : d.stage[x] # Absent},
        A \in SUBSET {x \in Paths : d.aside[x] # Absent}}

CrashRemoving(p) ==
    /\ Removing(p) /\ Dies
    /\ \E d \in Leftovers(Dir(p)) : dirs' = [dirs EXCEPT ![proc[p].tx] = d]
    /\ lock' = NoProc
    /\ proc' = [proc EXCEPT ![p] = Down]
    /\ UNCHANGED <<active, settings, used, nextTx>>

\* remove_dir_all returns an error.  After a commit that is only logged: the
\* transaction "committed; cleanup deferred to recovery".
RemoveFails(p) ==
    /\ Removing(p) /\ Errs
    /\ \E d \in Leftovers(Dir(p)) : dirs' = [dirs EXCEPT ![proc[p].tx] = d]
    /\ IF proc[p].next = "publish" THEN Goto(p, "publish") /\ UNCHANGED lock ELSE GiveUp(p)
    /\ UNCHANGED <<active, settings, used, nextTx>>

\* Staging or writing the journal failed: the guard removes the directory.
PrepareFails(p) ==
    /\ At(p, "journal") /\ Errs
    /\ dirs' = [dirs EXCEPT ![proc[p].tx] = NoDir]
    /\ GiveUp(p)
    /\ UNCHANGED <<active, settings, used, nextTx>>

RollBack(p) == proc' = [proc EXCEPT ![p].pc = "rollback", ![p].todo = Touched(Dir(p)),
                                    ![p].next = "fail"]

\* A move or a write of commit failed, or the marker did: rollback_after_failure.
CommitFails(p) ==
    /\ proc[p].pc \in {"aside", "install", "index", "marker"}
    /\ Errs
    /\ RollBack(p)
    /\ UNCHANGED <<active, dirs, lock, settings, used, nextTx>>

\* The marker is on disk and only the sync behind it failed.
MarkerSyncFails(p) ==
    /\ At(p, "marker")
    /\ Errs
    /\ dirs' = [dirs EXCEPT ![proc[p].tx].phase = "committed"]
    /\ RollBack(p)
    /\ UNCHANGED <<active, lock, settings, used, nextTx>>

\* A move of a rollback or of recovery's replay failed: the error is returned
\* and the directory stays.
SettleFails(p) ==
    /\ \/ At(p, "rollback")
       \/ At(p, "replay") /\ proc[p].next = "scan"
    /\ proc[p].todo # {}
    /\ Errs
    /\ GiveUp(p)
    /\ UNCHANGED <<active, dirs, settings, used, nextTx>>

\* Behind the marker: hashing fails and commit returns an error although it has
\* committed, or cleanup's replay fails, which is only logged.
LateFails(p) ==
    /\ \/ At(p, "hash") /\ GiveUp(p)
       \/ At(p, "replay") /\ proc[p].next = "publish" /\ Goto(p, "publish") /\ UNCHANGED lock
    /\ Errs
    /\ UNCHANGED <<active, dirs, settings, used, nextTx>>

-----------------------------------------------------------------------------
CommitStep(p) == WriteJournal(p) \/ MoveAside(p) \/ StartInstall(p) \/ Install(p)
    \/ IndexAside(p) \/ IndexWrite(p) \/ WriteMarker(p) \/ HashCommitted(p) \/ Publish(p)

SettleStep(p) == LockForRecovery(p) \/ Scan(p) \/ Recovered(p)
    \/ RollbackClear(p) \/ RollbackPath(p) \/ ReplayPath(p) \/ RemoveDir(p)

BootStep(p) == Boot(p) \/ Defaults(p) \/ AppendDefault(p)
    \/ Read(p) \/ ReadGeneration(p) \/ DeleteLegacySettings(p) \/ SetMarker(p)

FaultStep(p) == Crash(p) \/ CrashRemoving(p)
    \/ PrepareFails(p) \/ CommitFails(p) \/ SettleFails(p)

\* Errors of the commit marker's own sync and behind the marker.
LateFaultStep(p) == MarkerSyncFails(p) \/ RemoveFails(p) \/ LateFails(p)

Step(p) == CommitStep(p) \/ SettleStep(p) \/ BootStep(p)

Next == \E p \in Procs : Mutate(p) \/ Step(p) \/ FaultStep(p)

\* A started call runs to its end and a process that exited is started again;
\* nobody owes a mutation, and faults owe nothing.
Fairness == \A p \in Procs : WF_vars(Step(p))

Spec == Init /\ [][Next]_vars /\ Fairness

\* The same with errors at and behind the commit marker.  Only then does a
\* journal meet a state the code refuses (RecoveryNeverBails).
LateSpec == /\ Init
            /\ [][Next \/ \E p \in Procs : LateFaultStep(p) \/ Bail(p)]_vars
            /\ Fairness

-----------------------------------------------------------------------------
(* Properties. *)

\* Type correctness.
TypeOK ==
    LET Content == Profiles \cup {Absent} \cup [listed : SUBSET Agents, default : Agents]
        Files == [Paths -> Content]
    IN /\ active \in Files
       /\ dirs \in [Tx -> [phase : {"none", "incomplete", "prepared", "committed"},
                           op : [Paths -> {"none", "replace", "create", "delete", "index"}],
                           stage : Files, aside : Files]]
       /\ lock \in Procs \cup {NoProc}
       /\ settings \in [marker : BOOLEAN, legacy : BOOLEAN]
       /\ used \subseteq Agents /\ nextTx \in 1..MaxTx + 1
       /\ faults \in [crashes : 0..MaxCrashes, errors : 0..MaxErrors]
       /\ \A p \in Procs : proc[p].tx \in 0..MaxTx /\ proc[p].todo \subseteq Paths

\* The registry implements the atomic one: whatever dies or fails, the image
\* recovery would produce changes only at commit markers, and there by one
\* whole mutation of the current image or by the default agent of a repair.
ImplementsAtomicRegistry == Atomic!Spec

\* commit and recover_transactions settle a journal without ever meeting one
\* of the states they refuse ("rollback has both ...", "replay has neither
\* ..."), however often they were interrupted.
RecoveryNeverBails ==
    \A p \in Procs :
       /\ At(p, "rollback") => \A x \in proc[p].todo : ~RollbackBails(p, x)
       /\ At(p, "replay") => \A x \in proc[p].todo : ~ReplayBails(p, x)

\* The generation a serving instance caches vouches for its image: when the
\* disk still has it, the cached image is what is on disk and no journal is
\* pending, so a mutation computed from the cache overwrites nothing unseen.
GenerationVouchesForImage ==
    \A p \in Procs :
       At(p, "up") /\ proc[p].gen = Generation /\ lock = NoProc
         => proc[p].view = ImageOf(SettledDisk)

\* What recovery and the cache rely on, at every step of every process.
RegistryInv ==
    TypeOK /\ RecoveryNeverBails /\ GenerationVouchesForImage

\* An upgrade trades the user's legacy memory directory for the new registry:
\* until the legacy settings are dropped, either the directory is in place, or
\* a journal still decides, or a registry that loads has replaced it - whatever
\* died or failed on the way.
MemoryIsTradedForRegistry ==
    settings.legacy /\ ~Exists("memory")
      => \/ \E t \in Tx : dirs[t].phase \in {"prepared", "committed"}
                          /\ dirs[t].op["memory"] = "delete"
         \/ /\ Exists("index") /\ Exists("subagents")
            /\ \A a \in active["index"].listed : Exists(a)

\* A process always comes back to serving: once there are no legacy settings
\* left to clean up, a boot after any crash or error ends with the registry
\* loaded (unless it needs a transaction or an id that the bounds do not leave).
EventuallyServes ==
    \A p \in Procs :
       []<>(\/ At(p, "up") \/ settings.legacy
            \/ proc[p].pc \in {"defaults", "append"} /\ (nextTx > MaxTx \/ used = Agents))

\* "a crash anywhere above leaves either the old state (the transaction rolled
\* back) or valid new files whose remaining SQL cleanup the next startup
\* completes" (bootstrap.rs): the first upgrade can be carried through.
UpgradeEnds == \A p \in Procs : []<>(At(p, "up") \/ nextTx > MaxTx)

=============================================================================

------------------------ MODULE AgentRegistryProofs ------------------------
(***************************************************************************)
(* Proofs about AgentRegistry for one process, any agents, contents,       *)
(* transactions, crashes and errors: recovery never meets a state it       *)
(* refuses, the cached image is the one on disk, and the registry          *)
(* implements AtomicRegistry.                                              *)
(***************************************************************************)
EXTENDS AgentRegistry, TLAPS

\* A second error does not strike the rollback of a failed commit in a process
\* that goes on serving: it would leave the journal on disk and serve.
NoSecondError == \A p \in Procs : proc[p].plan = "serve" => ~SettleFails(p)
RollbackEnds  == [][NoSecondError]_vars

\* The agent of a new installation can run: no boot appends another one before
\* the installation has its persistence marker.  With no marker, a crash that
\* finds the index moved aside would be taken for a fresh install.
NoEarlyAppend ==
  \A p \in Procs : AppendDefault(p) /\ Reg!Ids(proc[p].view) # {} => settings.marker
InstalledAgentRuns == [][NoEarlyAppend]_vars

-----------------------------------------------------------------------------
(* Types.                                                                  *)

Index   == [listed : SUBSET Agents, default : Agents]
Content == Profiles \cup {Absent} \cup Index
Files   == [Paths -> Content]

\* The index has an index at its path, all other paths have profiles.
DiskOK(f) ==
  /\ f \in Files
  /\ f["index"] \in Index \cup {Absent}
  /\ \A x \in Paths : x # "index" => f[x] \in Profiles \cup {Absent}

DirSet == [phase : {"none", "incomplete", "prepared", "committed"},
           op : [Paths -> {"none", "replace", "create", "delete", "index"}],
           stage : Files, aside : Files]

Starting == {"upgrade", "fresh", "cleanup", "existing", "adopt"}

PC == {"down", "recover", "scan", "remove", "rollback", "replay", "defaults", "read",
       "generation", "append", "finish", "mark", "up", "journal", "aside", "install",
       "index", "marker", "hash", "publish"}

Candidate == [image : Reg!Images, agents : SUBSET Agents, deleted : SUBSET Agents,
              legacy : BOOLEAN]

Generations == [Paths \ {"memory"} -> Content]

ProcSet == [pc : PC, plan : {"none", "serve"} \cup Starting, tx : 0..MaxTx,
            todo : SUBSET Paths, view : Reg!Images \cup {Absent}, gen : Generations,
            cand : Candidate \cup {Absent}, newGen : Generations,
            next : {"none", "scan", "publish", "fail"}]

TypeInv ==
  /\ TypeOK
  /\ proc \in [Procs -> ProcSet]
  /\ DiskOK(active)
  /\ \A t \in Tx : DiskOK(dirs[t].stage) /\ DiskOK(dirs[t].aside)

-----------------------------------------------------------------------------
(* Control: what a process holds at each pc.                               *)

Holding    == {"scan", "remove", "rollback", "replay", "journal", "aside", "install",
               "index", "marker", "hash", "publish"}
Preparing  == {"journal", "aside", "install", "index", "marker"}
Working    == Preparing \cup {"remove", "rollback", "replay", "hash"}
Clean      == {"defaults", "read", "generation", "append", "finish", "mark", "up", "publish"}

AfterMarker(p) == At(p, "hash") \/ At(p, "publish") \/ (At(p, "replay") /\ proc[p].next = "publish")

InCommit(p) == \/ proc[p].pc \in Preparing
               \/ At(p, "rollback") /\ proc[p].next = "fail"
               \/ AfterMarker(p)

PlanInv(p) ==
  /\ At(p, "down") <=> proc[p].plan = "none"
  /\ At(p, "up") => proc[p].plan = "serve"
  /\ proc[p].pc \in {"recover", "scan", "remove"} => proc[p].plan \in Starting
  /\ At(p, "defaults") => proc[p].plan \in {"fresh", "upgrade"}
  /\ At(p, "append") => proc[p].plan = "existing"
  /\ proc[p].pc \in {"read", "generation", "finish", "mark"} =>
       proc[p].plan \in {"cleanup", "existing", "adopt"}
  /\ InCommit(p) => proc[p].plan \in {"fresh", "upgrade", "existing", "serve"}
  /\ proc[p].pc \in {"remove", "rollback", "replay"} /\ ~InCommit(p) =>
       proc[p].plan \in Starting /\ proc[p].next = "scan"

LockInv(p) == lock = IF proc[p].pc \in Holding THEN p ELSE NoProc

\* The one directory of the process, and its phase.
DirInv(p) ==
  /\ \A t, u \in Tx : dirs[t].phase # "none" /\ dirs[u].phase # "none" => t = u
  /\ proc[p].pc \in Working => proc[p].tx \in Tx /\ Dir(p).phase # "none"
  /\ proc[p].pc \in Clean => \A t \in Tx : dirs[t].phase = "none"
  /\ At(p, "journal") => Dir(p).phase = "incomplete"
  /\ At(p, "remove") => Dir(p).phase = "incomplete"
  /\ proc[p].pc \in {"aside", "install", "index", "marker", "rollback"} => Dir(p).phase = "prepared"
  /\ proc[p].pc \in {"hash", "replay"} => Dir(p).phase = "committed"

-----------------------------------------------------------------------------
(* Journals and the disk.                                                  *)

OpsOK(d) ==
  /\ d.op["index"] = "index"
  /\ d.op["subagents"] \in {"replace", "create"}
  /\ d.op["memory"] \in {"none", "delete"}
  /\ \A a \in Agents : d.op[a] \in {"none", "replace", "create", "delete"}
  /\ \A x \in Paths : d.stage[x] # Absent => d.op[x] \in {"replace", "create", "index"}

\* What rollback can put back.
PreparedOK(d) ==
  \A x \in Paths :
    /\ d.aside[x] # Absent => d.op[x] \in {"replace", "delete", "index"}
    /\ d.op[x] = "delete" => (Exists(x) <=> d.aside[x] = Absent)
    /\ d.op[x] = "replace" => Exists(x) \/ d.aside[x] # Absent

\* Replay finds everything in place.
CommittedOK(d) ==
  \A x \in Paths :
    /\ d.op[x] \in {"replace", "create"} => d.stage[x] = Absent /\ Exists(x)
    /\ d.op[x] = "delete" => ~Exists(x)
    /\ d.op[x] = "index" => Exists(x) /\ d.stage[x] \in {Absent, active[x]}

JournalInv ==
  \A t \in Tx :
    /\ dirs[t].phase # "none" => OpsOK(dirs[t])
    /\ dirs[t].phase = "prepared" => PreparedOK(dirs[t])
    /\ dirs[t].phase = "committed" => CommittedOK(dirs[t])

\* What the candidate wants at path x.
Target(p, x) == DiskOf(proc[p].cand.image)[x]

\* The staged files, and what of them is installed.
StagedAt(p, x)    == Dir(p).stage[x] = Target(p, x)
InstalledAt(p, x) == Dir(p).stage[x] = Absent /\ active[x] = Target(p, x)

CommitInv(p) ==
  /\ proc[p].pc \in Preparing =>
       /\ proc[p].cand \in Candidate
       /\ Reg!WellFormed(proc[p].cand.image)
       /\ Dir(p).stage["index"] = Target(p, "index")
       /\ \A a \in Agents :
            /\ Dir(p).op[a] = "none" => active[a] = Target(p, a)
            /\ Dir(p).op[a] = "delete" => Target(p, a) = Absent
            /\ Dir(p).op[a] \in {"replace", "create"} => Target(p, a) # Absent
  /\ At(p, "journal") =>
       \A x \in Paths :
         /\ Dir(p).aside[x] = Absent
         /\ Dir(p).op[x] \in {"replace", "delete"} => Exists(x)
         /\ Dir(p).op[x] = "create" => ~Exists(x)
         /\ Dir(p).op[x] \in {"replace", "create"} => StagedAt(p, x)
  /\ At(p, "aside") =>
       /\ Dir(p).aside["index"] = Absent
       /\ \A x \in Paths :
            /\ x \in proc[p].todo => Dir(p).op[x] \in {"replace", "delete"}
            /\ x \notin proc[p].todo /\ Dir(p).op[x] \in {"replace", "delete"} => Dir(p).aside[x] # Absent
            /\ Dir(p).op[x] \in {"replace", "create"} => StagedAt(p, x)
  /\ At(p, "install") => Dir(p).aside["index"] = Absent
  /\ proc[p].pc \in {"install", "index", "marker"} =>
       \A x \in Paths :
         /\ x \in proc[p].todo => Dir(p).op[x] \in {"replace", "create"}
         /\ Dir(p).op[x] \in {"replace", "delete"} => Dir(p).aside[x] # Absent
         /\ Dir(p).op[x] \in {"replace", "create"} =>
              IF x \in proc[p].todo THEN StagedAt(p, x) ELSE InstalledAt(p, x)
  /\ proc[p].pc \in {"index", "marker"} => proc[p].todo = {}
  /\ At(p, "index") => ~Exists("index")
  /\ At(p, "marker") => active["index"] = Target(p, "index")

\* What a rollback has put back.
RollbackInv(p) ==
  At(p, "rollback") =>
    \A x \in Paths \ proc[p].todo :
      Dir(p).aside[x] = Absent /\ (Dir(p).op[x] = "create" => ~Exists(x))

-----------------------------------------------------------------------------
(* The image recovery would leave.                                         *)

Whole(disk) == Reg!WellFormed(ImageOf(disk))

SettledInv ==
  /\ Whole(SettledDisk) \/ \A a \in Agents : SettledDisk[a] = Absent
  /\ \A t \in Tx : dirs[t].phase = "prepared" /\ Whole(SettledDisk) => settings.marker
  /\ settings.marker => ~settings.legacy /\ Whole(SettledDisk)
  /\ SettledDisk["memory"] # Absent => settings.legacy
  /\ settings.legacy => (Whole(SettledDisk) <=> SettledDisk["memory"] = Absent)
  /\ settings.legacy /\ ~Whole(SettledDisk) => SettledDisk["subagents"] = Absent
  /\ \A t \in Tx : dirs[t].phase # "none" /\ settings.legacy => dirs[t].op["memory"] = "delete"

\* What a whole image may be replaced by.
Successors(i) == Reg!Mutations(i) \cup Reg!Appended(i)

\* The process has read the image there is.
HasImage(p) ==
  \/ proc[p].pc \in {"generation", "append"} \cup Preparing /\ Whole(SettledDisk)
  \/ proc[p].pc \in {"finish", "mark"}
  \/ proc[p].plan = "serve" /\ ~AfterMarker(p)

\* What a process knows of it.
ViewInv(p) ==
  /\ proc[p].plan = "upgrade" => settings.legacy
  /\ proc[p].plan = "cleanup" /\ ~At(p, "mark") => settings.legacy
  /\ proc[p].plan \in {"fresh", "existing", "adopt", "serve"} \/ At(p, "mark") => ~settings.legacy
  /\ proc[p].plan = "serve" => settings.marker
  /\ proc[p].plan = "adopt" \/ proc[p].pc \in {"finish", "mark"} => Whole(SettledDisk)
  /\ proc[p].plan \in {"fresh", "upgrade"} /\ ~AfterMarker(p) => ~Whole(SettledDisk)
  /\ proc[p].pc \in {"generation", "append"} /\ ~Whole(SettledDisk) =>
       proc[p].plan = "existing" /\ Reg!Ids(proc[p].view) = {}
  /\ At(p, "generation") \/ At(p, "append") => proc[p].view \in Reg!Images
  /\ HasImage(p) => proc[p].view = ImageOf(SettledDisk)
  /\ proc[p].pc \in Preparing /\ Whole(SettledDisk) =>
       settings.marker /\ proc[p].cand.image \in Successors(proc[p].view)
  /\ AfterMarker(p) => Whole(active) /\ proc[p].cand \in Candidate
                         /\ ImageOf(active) = proc[p].cand.image

IInv(p) ==
  /\ TypeInv
  /\ PlanInv(p) /\ LockInv(p) /\ DirInv(p)
  /\ JournalInv /\ CommitInv(p) /\ RollbackInv(p)
  /\ SettledInv /\ ViewInv(p)

-----------------------------------------------------------------------------
(* Paths, disks and images.                                                *)

LEMMA PathFacts ==
  /\ "index" \in Paths /\ "subagents" \in Paths /\ "memory" \in Paths
  /\ Agents \subseteq Paths
  /\ \A a \in Agents : a # "index" /\ a # "subagents" /\ a # "memory"
  /\ \A x \in Paths : x \in Agents \/ x \in {"index", "subagents", "memory"}
  BY RegistryAssumption DEF Paths

LEMMA AbsentFacts ==
  /\ \A i \in Index : i # Absent
  /\ \A v \in Profiles : v # Absent
  /\ \A i \in Reg!Images : i # Absent
  BY RegistryAssumption, ImageAssumption DEF Index

\* What ImageOf reads at each path.
LEMMA ImageFields ==
  ASSUME NEW f
  PROVE  /\ \A a \in Agents : ImageOf(f).profiles[a] = f[a]
         /\ ImageOf(f).profiles = [a \in Agents |-> f[a]]
         /\ ImageOf(f).sub = f["subagents"]
         /\ ImageOf(f).listed = IF f["index"] = Absent THEN {} ELSE f["index"].listed
         /\ ImageOf(f).default = IF f["index"] = Absent THEN Ryuzi ELSE f["index"].default
         /\ Reg!Ids(ImageOf(f)) = {a \in Agents : f[a] # Absent}
  BY DEF ImageOf, Reg!Ids

\* A disk whose image is whole, path by path.
LEMMA WholeDisk ==
  ASSUME NEW f, DiskOK(f)
  PROVE  Whole(f) <=> /\ f["index"] # Absent
                      /\ f["subagents"] # Absent
                      /\ f["index"].listed = {a \in Agents : f[a] # Absent}
                      /\ f[f["index"].default] # Absent
<1> DEFINE i == ImageOf(f)
<1>1. i = [profiles |-> [a \in Agents |-> f[a]], sub |-> f["subagents"],
           listed |-> IF f["index"] = Absent THEN {} ELSE f["index"].listed,
           default |-> IF f["index"] = Absent THEN Ryuzi ELSE f["index"].default]
  BY DEF ImageOf
<1>2. Whole(f) <=> i \in Reg!Images /\ i.listed = Reg!Ids(i) /\ i.default \in Reg!Ids(i)
  BY DEF Whole, Reg!WellFormed
<1>3. Reg!Ids(i) = {a \in Agents : f[a] # Absent}
  BY ImageFields
<1>4. /\ f["subagents"] \in Profiles \cup {Absent}
      /\ \A a \in Agents : f[a] \in Profiles \cup {Absent}
      /\ f["index"] \in Index \cup {Absent}
  BY PathFacts DEF DiskOK
<1>5. [a \in Agents |-> f[a]] \in [Agents -> Profiles \cup {Absent}]
  BY <1>4
<1>6. CASE f["index"] = Absent
  BY <1>1, <1>2, <1>3, <1>6
<1>7. CASE f["index"] # Absent
  <2>1. /\ f["index"] \in Index
        /\ f["index"].listed \in SUBSET Agents /\ f["index"].default \in Agents
    BY <1>4, <1>7 DEF Index
  <2>2. i = [profiles |-> [a \in Agents |-> f[a]], sub |-> f["subagents"],
             listed |-> f["index"].listed, default |-> f["index"].default]
    BY <1>1, <1>7
  <2>3. i \in Reg!Images <=> f["subagents"] \in Profiles
    BY <1>5, <2>1, <2>2 DEF Reg!Images
  <2>4. f["subagents"] \in Profiles <=> f["subagents"] # Absent
    BY <1>4, AbsentFacts
  <2>5. i.default \in Reg!Ids(i) <=> f[f["index"].default] # Absent
    BY <1>3, <2>1, <2>2
  <2> QED BY <1>2, <1>3, <1>7, <2>2, <2>3, <2>4, <2>5
<1> QED BY <1>6, <1>7

\* An image is read from its agents, subagents.yaml and the index.
LEMMA SameImage ==
  ASSUME NEW f, NEW g, \A x \in Paths : x # "memory" => f[x] = g[x]
  PROVE  ImageOf(f) = ImageOf(g)
  <1>1. f["index"] = g["index"] /\ f["subagents"] = g["subagents"]
    BY PathFacts
  <1>2. [a \in Agents |-> f[a]] = [a \in Agents |-> g[a]]
    BY PathFacts
  <1> QED BY <1>1, <1>2 DEF ImageOf

LEMMA DiskEqual ==
  ASSUME NEW f \in Files, NEW g \in Files, \A x \in Paths : f[x] = g[x]
  PROVE  f = g
  BY DEF Files

-----------------------------------------------------------------------------
(* The disk that recovery would leave.                                     *)

Journal(t) == dirs[t].phase \in {"prepared", "committed"}

LEMMA SettledNone ==
  ASSUME \A t \in Tx : ~Journal(t)
  PROVE  SettledDisk = active
  BY DEF SettledDisk, Journal

LEMMA SettledNoneNext ==
  ASSUME \A t \in Tx : ~Journal(t)'
  PROVE  SettledDisk' = active'
  BY DEF SettledDisk, Journal

LEMMA SettledOne ==
  ASSUME NEW t \in Tx, Journal(t),
         \A u \in Tx : dirs[u].phase # "none" => u = t
  PROVE  SettledDisk = Settled(dirs[t])
  <1>1. {u \in Tx : dirs[u].phase \in {"prepared", "committed"}} = {t}
    BY DEF Journal
  <1> QED BY <1>1 DEF SettledDisk

LEMMA SettledOneNext ==
  ASSUME NEW t \in Tx, Journal(t)',
         \A u \in Tx : dirs'[u].phase # "none" => u = t
  PROVE  SettledDisk' = Settled(dirs[t])'
  <1>1. {u \in Tx : dirs'[u].phase \in {"prepared", "committed"}} = {t}
    BY DEF Journal
  <1> QED BY <1>1 DEF SettledDisk

\* A committed journal has everything in place.
LEMMA CommittedSettled ==
  ASSUME NEW d, CommittedOK(d), d.phase = "committed", active \in Files
  PROVE  Settled(d) = active
  <1>1. \A x \in Paths : Settled(d)[x] = active[x]
    BY DEF Settled, CommittedOK
  <1>2. Settled(d) = [x \in Paths |-> Settled(d)[x]]
    BY DEF Settled
  <1> QED BY <1>1, <1>2 DEF Files

LEMMA CommittedSettledNext ==
  ASSUME NEW t, CommittedOK(dirs[t])', dirs'[t].phase = "committed", active' \in Files
  PROVE  Settled(dirs[t])' = active'
  <1>1. \A x \in Paths : Settled(dirs[t])'[x] = active'[x]
    BY DEF Settled, CommittedOK, Exists
  <1>2. Settled(dirs[t])' = [x \in Paths |-> Settled(dirs[t])'[x]]
    BY DEF Settled
  <1> QED BY <1>1, <1>2 DEF Files

-----------------------------------------------------------------------------
(* The process record.                                                     *)

\* What a step that only moves a process on leaves of it.
SameWork(p) == /\ proc'[p].plan = proc[p].plan /\ proc'[p].tx = proc[p].tx
               /\ proc'[p].view = proc[p].view /\ proc'[p].gen = proc[p].gen
               /\ proc'[p].cand = proc[p].cand /\ proc'[p].newGen = proc[p].newGen
               /\ proc'[p].next = proc[p].next

LEMMA GotoFacts ==
  ASSUME NEW p \in Procs, proc \in [Procs -> ProcSet], NEW l \in PC, Goto(p, l)
  PROVE  /\ proc' \in [Procs -> ProcSet]
         /\ proc'[p].pc = l /\ proc'[p].todo = proc[p].todo /\ SameWork(p)
  BY DEF Goto, ProcSet, SameWork

LEMMA VisitFacts ==
  ASSUME NEW p \in Procs, proc \in [Procs -> ProcSet], NEW l \in PC, NEW S \in SUBSET Paths,
         Visit(p, l, S)
  PROVE  /\ proc' \in [Procs -> ProcSet]
         /\ proc'[p].pc = l /\ proc'[p].todo = S /\ SameWork(p)
  BY DEF Visit, ProcSet, SameWork

LEMMA VisitedFacts ==
  ASSUME NEW p \in Procs, proc \in [Procs -> ProcSet], NEW x, Visited(p, x)
  PROVE  /\ proc' \in [Procs -> ProcSet]
         /\ proc'[p].pc = proc[p].pc /\ proc'[p].todo = proc[p].todo \ {x} /\ SameWork(p)
  BY DEF Visited, ProcSet, SameWork

LEMMA DownType == Down \in ProcSet
  BY AbsentFacts, RegistryAssumption DEF Down, ProcSet, PC, NoGeneration, Generations, Content

LEMMA GiveUpFacts ==
  ASSUME NEW p \in Procs, proc \in [Procs -> ProcSet], GiveUp(p)
  PROVE  /\ proc' \in [Procs -> ProcSet]
         /\ lock' = IF lock = p THEN NoProc ELSE lock
         /\ proc[p].plan # "serve" => proc'[p] = Down
         /\ proc[p].plan = "serve" => proc'[p].pc = "up" /\ SameWork(p)
  BY DownType DEF GiveUp, ProcSet, PC, SameWork

LEMMA FaultFacts ==
  ASSUME TypeOK
  PROVE  /\ Errs => faults' \in [crashes : 0..MaxCrashes, errors : 0..MaxErrors]
         /\ Dies => faults' \in [crashes : 0..MaxCrashes, errors : 0..MaxErrors]
  BY RegistryAssumption DEF TypeOK, Errs, Dies

LEMMA GenerationType ==
  ASSUME active \in Files
  PROVE  Generation \in Generations
  BY DEF Generation, Generations, Files

\* The updates of a process record that several steps share.
Jump(p, l, S, n) == proc' = [proc EXCEPT ![p].pc = l, ![p].todo = S, ![p].next = n]

Take(p, t, S, n, l) ==
  proc' = [proc EXCEPT ![p].tx = t, ![p].todo = S, ![p].next = n, ![p].pc = l]

Hashed(p, g, l, S, n) ==
  proc' = [proc EXCEPT ![p].newGen = g, ![p].pc = l, ![p].todo = S, ![p].next = n]

LEMMA JumpFacts ==
  ASSUME NEW p \in Procs, proc \in [Procs -> ProcSet], NEW l \in PC, NEW S \in SUBSET Paths,
         NEW n \in {"none", "scan", "publish", "fail"},
         Jump(p, l, S, n)
  PROVE  /\ proc' \in [Procs -> ProcSet]
         /\ proc'[p] = [proc[p] EXCEPT !.pc = l, !.todo = S, !.next = n]
         /\ proc'[p].pc = l /\ proc'[p].todo = S /\ proc'[p].next = n
         /\ proc'[p].plan = proc[p].plan /\ proc'[p].tx = proc[p].tx
         /\ proc'[p].view = proc[p].view /\ proc'[p].cand = proc[p].cand
<1>1. proc' = [proc EXCEPT ![p] = [proc[p] EXCEPT !.pc = l, !.todo = S, !.next = n]]
  BY DEF Jump
<1>2. proc[p] \in ProcSet
  OBVIOUS
<1>3. [proc[p] EXCEPT !.pc = l, !.todo = S, !.next = n] \in ProcSet
  BY <1>2 DEF ProcSet
<1>4. proc'[p] = [proc[p] EXCEPT !.pc = l, !.todo = S, !.next = n] /\ proc' \in [Procs -> ProcSet]
  BY <1>1, <1>3
<1> QED BY <1>2, <1>4 DEF ProcSet

LEMMA TakeFacts ==
  ASSUME NEW p \in Procs, proc \in [Procs -> ProcSet], NEW l \in PC, NEW S \in SUBSET Paths,
         NEW n \in {"none", "scan", "publish", "fail"}, NEW t \in 0..MaxTx,
         Take(p, t, S, n, l)
  PROVE  /\ proc' \in [Procs -> ProcSet]
         /\ proc'[p].pc = l /\ proc'[p].todo = S /\ proc'[p].next = n /\ proc'[p].tx = t
         /\ proc'[p].plan = proc[p].plan
         /\ proc'[p].view = proc[p].view /\ proc'[p].cand = proc[p].cand
<1> DEFINE r == [proc[p] EXCEPT !.tx = t, !.todo = S, !.next = n, !.pc = l]
<1>1. proc' = [proc EXCEPT ![p] = r]
  BY DEF Take
<1>2. proc[p] \in ProcSet
  OBVIOUS
<1>3. r \in ProcSet
  BY <1>2 DEF ProcSet
<1>4. proc'[p] = r /\ proc' \in [Procs -> ProcSet]
  BY <1>1, <1>3
<1> QED BY <1>2, <1>4 DEF ProcSet

LEMMA HashedFacts ==
  ASSUME NEW p \in Procs, proc \in [Procs -> ProcSet], NEW l \in PC, NEW S \in SUBSET Paths,
         NEW n \in {"none", "scan", "publish", "fail"}, NEW g \in Generations,
         Hashed(p, g, l, S, n)
  PROVE  /\ proc' \in [Procs -> ProcSet]
         /\ proc'[p].pc = l /\ proc'[p].todo = S /\ proc'[p].next = n
         /\ proc'[p].plan = proc[p].plan /\ proc'[p].tx = proc[p].tx
         /\ proc'[p].view = proc[p].view /\ proc'[p].cand = proc[p].cand
<1> DEFINE r == [proc[p] EXCEPT !.newGen = g, !.pc = l, !.todo = S, !.next = n]
<1>1. proc' = [proc EXCEPT ![p] = r]
  BY DEF Hashed
<1>2. proc[p] \in ProcSet
  OBVIOUS
<1>3. r \in ProcSet
  BY <1>2 DEF ProcSet
<1>4. proc'[p] = r /\ proc' \in [Procs -> ProcSet]
  BY <1>1, <1>3
<1> QED BY <1>2, <1>4 DEF ProcSet

-----------------------------------------------------------------------------
(* What the steps have in common.                                          *)

LEMMA TypeAssembles ==
  ASSUME DiskOK(active'), dirs' \in [Tx -> DirSet],
         \A t \in Tx : DiskOK(dirs'[t].stage) /\ DiskOK(dirs'[t].aside),
         lock' \in Procs \cup {NoProc}, settings' \in [marker : BOOLEAN, legacy : BOOLEAN],
         used' \subseteq Agents, nextTx' \in 1..MaxTx + 1,
         faults' \in [crashes : 0..MaxCrashes, errors : 0..MaxErrors],
         proc' \in [Procs -> ProcSet]
  PROVE  TypeInv'
  <1>1. TypeOK'
    <2>1. active' \in Files
      BY DEF DiskOK
    <2>2. \A q \in Procs : proc'[q].tx \in 0..MaxTx /\ proc'[q].todo \subseteq Paths
      BY DEF ProcSet
    <2> QED BY <2>1, <2>2 DEF TypeOK, Files, Content, Index, DirSet
  <1>2. DiskOK(active)'
    BY DEF DiskOK
  <1>3. \A t \in Tx : DiskOK(dirs[t].stage)' /\ DiskOK(dirs[t].aside)'
    BY DEF DiskOK
  <1> QED BY <1>1, <1>2, <1>3 DEF TypeInv

LEMMA TypeParts ==
  ASSUME TypeInv
  PROVE  /\ DiskOK(active) /\ active \in Files /\ dirs \in [Tx -> DirSet]
         /\ \A t \in Tx : DiskOK(dirs[t].stage) /\ DiskOK(dirs[t].aside)
         /\ lock \in Procs \cup {NoProc} /\ settings \in [marker : BOOLEAN, legacy : BOOLEAN]
         /\ used \subseteq Agents /\ nextTx \in 1..MaxTx + 1
         /\ faults \in [crashes : 0..MaxCrashes, errors : 0..MaxErrors]
         /\ proc \in [Procs -> ProcSet]
  BY DEF TypeInv, TypeOK, DiskOK, Files, Content, Index, DirSet

\* A step of which the disk sees nothing keeps the types it does not touch.
LEMMA QuietTypes ==
  ASSUME TypeInv, UNCHANGED <<active, dirs, used, nextTx>>,
         lock' \in Procs \cup {NoProc}, settings' \in [marker : BOOLEAN, legacy : BOOLEAN],
         faults' \in [crashes : 0..MaxCrashes, errors : 0..MaxErrors],
         proc' \in [Procs -> ProcSet]
  PROVE  TypeInv'
  BY TypeParts, TypeAssembles

LEMMA QuietDisk ==
  ASSUME UNCHANGED <<active, dirs>>
  PROVE  /\ SettledDisk' = SettledDisk
         /\ JournalInv => JournalInv'
         /\ SettledInv /\ UNCHANGED settings => SettledInv'
  <1>1. SettledDisk' = SettledDisk
    BY DEF SettledDisk, Settled
  <1>2. JournalInv => JournalInv'
    BY DEF JournalInv, OpsOK, PreparedOK, CommittedOK, Exists
  <1>3. SettledInv /\ UNCHANGED settings => SettledInv'
    BY <1>1 DEF SettledInv
  <1> QED BY <1>1, <1>2, <1>3

LEMMA SettledKept ==
  ASSUME SettledInv, SettledDisk' = SettledDisk, UNCHANGED settings,
         \A t \in Tx : /\ dirs'[t].phase = "prepared" => dirs[t].phase = "prepared"
                       /\ dirs'[t].phase # "none" =>
                            dirs[t].phase # "none" /\ dirs'[t].op = dirs[t].op
  PROVE  SettledInv'
  <1>1. Whole(SettledDisk)' <=> Whole(SettledDisk)
    BY DEF Whole, ImageOf
  <1> QED BY <1>1 DEF SettledInv

\* The image of the disk that recovery would leave changes as AtomicRegistry says.
StepImage ==
  \/ SettledDisk' = SettledDisk
  \/ ~Whole(SettledDisk) /\ ~Whole(SettledDisk')
  \/ /\ Whole(SettledDisk')
     /\ Whole(SettledDisk) => ImageOf(SettledDisk') \in Successors(ImageOf(SettledDisk))

-----------------------------------------------------------------------------
(* Steps that leave the disk alone.                                        *)

LEMMA LockForRecoveryStep ==
  ASSUME NEW p, Procs = {p}, IInv(p), LockForRecovery(p)
  PROVE  IInv(p)' /\ StepImage
  <1>1. /\ TypeInv /\ PlanInv(p) /\ LockInv(p) /\ DirInv(p)
        /\ JournalInv /\ CommitInv(p) /\ RollbackInv(p) /\ SettledInv /\ ViewInv(p)
    BY DEF IInv
  <1>2. /\ proc[p].pc = "recover" /\ lock' = p
        /\ UNCHANGED <<active, dirs, settings, used, nextTx, faults>>
    BY DEF LockForRecovery, At
  <1>3. /\ proc' \in [Procs -> ProcSet] /\ proc'[p].pc = "scan" /\ SameWork(p)
    BY <1>1, GotoFacts, TypeParts DEF LockForRecovery, PC
  <1>4. SettledDisk' = SettledDisk /\ JournalInv' /\ SettledInv'
    BY <1>1, <1>2, QuietDisk
  <1>5. TypeInv'
    BY <1>1, <1>2, <1>3, QuietTypes, TypeParts
  <1>6. PlanInv(p)'
    BY <1>1, <1>2, <1>3 DEF PlanInv, At, InCommit, AfterMarker, Preparing, SameWork
  <1>7. LockInv(p)' /\ DirInv(p)'
    BY <1>1, <1>2, <1>3 DEF LockInv, DirInv, At, Dir, Holding, Working, Preparing, Clean, SameWork
  <1>8. CommitInv(p)' /\ RollbackInv(p)'
    BY <1>3 DEF CommitInv, RollbackInv, At, Preparing
  <1>9. ViewInv(p)'
    BY <1>1, <1>2, <1>3, <1>4 DEF ViewInv, HasImage, At, AfterMarker, Preparing, SameWork
  <1> QED BY <1>4, <1>5, <1>6, <1>7, <1>8, <1>9 DEF IInv, StepImage

\* Where recovery goes with directory t.
ScanTo(t) == CASE dirs[t].phase = "prepared" -> "rollback"
               [] dirs[t].phase = "committed" -> "replay"
               [] OTHER -> "remove"

LEMMA ScanStep ==
  ASSUME NEW p, Procs = {p}, IInv(p), Scan(p)
  PROVE  IInv(p)' /\ StepImage
  <1>1. /\ TypeInv /\ PlanInv(p) /\ LockInv(p) /\ DirInv(p)
        /\ JournalInv /\ CommitInv(p) /\ RollbackInv(p) /\ SettledInv /\ ViewInv(p)
    BY DEF IInv
  <1>2. /\ proc[p].pc = "scan"
        /\ UNCHANGED <<active, dirs, lock, settings, used, nextTx, faults>>
    BY DEF Scan, At
  <1>3. PICK t \in Tx :
         /\ dirs[t].phase # "none"
         /\ proc' \in [Procs -> ProcSet] /\ proc'[p].tx = t /\ proc'[p].next = "scan"
         /\ proc'[p].todo = Touched(dirs[t])
         /\ proc'[p].pc = CASE dirs[t].phase = "prepared" -> "rollback"
                            [] dirs[t].phase = "committed" -> "replay"
                            [] OTHER -> "remove"
         /\ proc'[p].plan = proc[p].plan /\ proc'[p].view = proc[p].view
         /\ proc'[p].cand = proc[p].cand
    <2>1. PICK t \in Tx : dirs[t].phase # "none" /\ Take(p, t, Touched(dirs[t]), "scan", ScanTo(t))
      BY DEF Scan, Take, ScanTo
    <2>2. t \in 0..MaxTx /\ Touched(dirs[t]) \in SUBSET Paths
      BY RegistryAssumption DEF Tx, Touched
    <2>3. ScanTo(t) \in PC /\ "scan" \in {"none", "scan", "publish", "fail"} /\ p \in Procs
      BY DEF PC, ScanTo
    <2>p. proc \in [Procs -> ProcSet]
      BY <1>1, TypeParts
    <2>4. /\ proc' \in [Procs -> ProcSet]
          /\ proc'[p].pc = ScanTo(t) /\ proc'[p].todo = Touched(dirs[t])
          /\ proc'[p].next = "scan" /\ proc'[p].tx = t
          /\ proc'[p].plan = proc[p].plan
          /\ proc'[p].view = proc[p].view /\ proc'[p].cand = proc[p].cand
      <3> DEFINE S == Touched(dirs[t])
                 l == ScanTo(t)
      <3>1. S \in SUBSET Paths /\ l \in PC /\ Take(p, t, S, "scan", l)
        BY <2>1, <2>2, <2>3
      <3> HIDE DEF S, l
      <3>2. /\ proc' \in [Procs -> ProcSet]
            /\ proc'[p].pc = l /\ proc'[p].todo = S /\ proc'[p].next = "scan" /\ proc'[p].tx = t
            /\ proc'[p].plan = proc[p].plan
            /\ proc'[p].view = proc[p].view /\ proc'[p].cand = proc[p].cand
        BY <2>p, <2>2, <2>3, <3>1, TakeFacts
      <3> QED BY <3>2 DEF S, l
    <2> QED BY <2>1, <2>4 DEF ScanTo
  <1>4. SettledDisk' = SettledDisk /\ JournalInv' /\ SettledInv'
    BY <1>1, <1>2, QuietDisk
  <1>5. TypeInv'
    BY <1>1, <1>2, <1>3, QuietTypes, TypeParts
  <1>6. PlanInv(p)'
    BY <1>1, <1>2, <1>3 DEF PlanInv, At, InCommit, AfterMarker, Preparing, SameWork
  <1>7. LockInv(p)' /\ DirInv(p)'
    <2>1. dirs[t].phase \in {"incomplete", "prepared", "committed"}
      BY <1>1, <1>3, TypeParts DEF DirSet
    <2> QED BY <1>1, <1>2, <1>3, <2>1 DEF LockInv, DirInv, At, Dir, Holding, Working, Preparing, Clean
  <1>8. CommitInv(p)' /\ RollbackInv(p)'
    <2>1. CommitInv(p)'
      BY <1>3 DEF CommitInv, At, Preparing
    <2>2. dirs[t].phase = "prepared" => \A x \in Paths \ Touched(dirs[t]) :
            dirs[t].aside[x] = Absent /\ dirs[t].op[x] # "create"
      BY <1>1 DEF JournalInv, PreparedOK, Touched
    <2> QED BY <1>2, <1>3, <2>1, <2>2 DEF RollbackInv, At, Dir
  <1>9. ViewInv(p)'
    BY <1>1, <1>2, <1>3, <1>4 DEF ViewInv, HasImage, At, AfterMarker, Preparing, SameWork
  <1> QED BY <1>4, <1>5, <1>6, <1>7, <1>8, <1>9 DEF IInv, StepImage

LEMMA RecoveredStep ==
  ASSUME NEW p, Procs = {p}, IInv(p), Recovered(p)
  PROVE  IInv(p)' /\ StepImage
  <1>1. /\ TypeInv /\ PlanInv(p) /\ LockInv(p) /\ DirInv(p)
        /\ JournalInv /\ CommitInv(p) /\ RollbackInv(p) /\ SettledInv /\ ViewInv(p)
    BY DEF IInv
  <1>2. /\ proc[p].pc = "scan" /\ lock' = NoProc
        /\ \A t \in Tx : dirs[t].phase = "none"
        /\ UNCHANGED <<active, dirs, settings, used, nextTx, faults>>
    BY DEF Recovered, At
  <1>3. /\ proc' \in [Procs -> ProcSet] /\ SameWork(p)
        /\ proc'[p].pc = IF proc[p].plan \in {"fresh", "upgrade"} THEN "defaults" ELSE "read"
    BY <1>1, GotoFacts, TypeParts DEF Recovered, PC
  <1>4. SettledDisk' = SettledDisk /\ JournalInv' /\ SettledInv'
    BY <1>1, <1>2, QuietDisk
  <1>5. TypeInv'
    BY <1>1, <1>2, <1>3, QuietTypes, TypeParts
  <1>6. PlanInv(p)'
    BY <1>1, <1>2, <1>3 DEF PlanInv, At, InCommit, AfterMarker, Preparing, SameWork, Starting
  <1>7. LockInv(p)' /\ DirInv(p)'
    BY <1>1, <1>2, <1>3 DEF LockInv, DirInv, At, Dir, Holding, Working, Preparing, Clean, SameWork
  <1>8. CommitInv(p)' /\ RollbackInv(p)'
    BY <1>3 DEF CommitInv, RollbackInv, At, Preparing
  <1>9. ViewInv(p)'
    BY <1>1, <1>2, <1>3, <1>4 DEF ViewInv, HasImage, At, AfterMarker, Preparing, SameWork
  <1> QED BY <1>4, <1>5, <1>6, <1>7, <1>8, <1>9 DEF IInv, StepImage

LEMMA StartInstallStep ==
  ASSUME NEW p, Procs = {p}, IInv(p), StartInstall(p)
  PROVE  IInv(p)' /\ StepImage
  <1>1. /\ TypeInv /\ PlanInv(p) /\ LockInv(p) /\ DirInv(p)
        /\ JournalInv /\ CommitInv(p) /\ RollbackInv(p) /\ SettledInv /\ ViewInv(p)
    BY DEF IInv
  <1>2. /\ proc[p].pc = "aside" /\ proc[p].todo = {}
        /\ UNCHANGED <<active, dirs, lock, settings, used, nextTx, faults>>
    BY DEF StartInstall, At
  <1>3. /\ proc' \in [Procs -> ProcSet] /\ proc'[p].pc = "install" /\ SameWork(p)
        /\ proc'[p].todo = {x \in Paths : Dir(p).op[x] \in {"replace", "create"}}
    BY <1>1, VisitFacts, TypeParts DEF StartInstall, PC
  <1>4. SettledDisk' = SettledDisk /\ JournalInv' /\ SettledInv'
    BY <1>1, <1>2, QuietDisk
  <1>5. TypeInv'
    BY <1>1, <1>2, <1>3, QuietTypes, TypeParts
  <1>6. PlanInv(p)'
    BY <1>1, <1>2, <1>3 DEF PlanInv, At, InCommit, AfterMarker, Preparing, SameWork
  <1>7. LockInv(p)' /\ DirInv(p)'
    BY <1>1, <1>2, <1>3 DEF LockInv, DirInv, At, Dir, Holding, Working, Preparing, Clean, SameWork
  <1>8. CommitInv(p)' /\ RollbackInv(p)'
    <2>1. Dir(p)' = Dir(p) /\ \A x \in Paths : Target(p, x)' = Target(p, x)
      BY <1>2, <1>3 DEF Dir, Target, SameWork
    <2>2. \A x \in Paths : StagedAt(p, x)' <=> StagedAt(p, x)
      BY <2>1 DEF StagedAt
    <2>3. /\ Dir(p).aside["index"] = Absent
          /\ \A x \in Paths :
               /\ Dir(p).op[x] \in {"replace", "delete"} => Dir(p).aside[x] # Absent
               /\ Dir(p).op[x] \in {"replace", "create"} => StagedAt(p, x)
      BY <1>1, <1>2 DEF CommitInv, At
    <2>4. /\ proc[p].cand \in Candidate /\ Reg!WellFormed(proc[p].cand.image)
          /\ Dir(p).stage["index"] = Target(p, "index")
          /\ \A a \in Agents :
               /\ Dir(p).op[a] = "none" => active[a] = Target(p, a)
               /\ Dir(p).op[a] = "delete" => Target(p, a) = Absent
               /\ Dir(p).op[a] \in {"replace", "create"} => Target(p, a) # Absent
      BY <1>1, <1>2 DEF CommitInv, Preparing
    <2>5. /\ proc'[p].cand = proc[p].cand /\ proc'[p].tx = proc[p].tx
          /\ \A x \in Paths : Exists(x)' <=> Exists(x)
      BY <1>2, <1>3 DEF SameWork, Exists
    <2>6. proc'[p].pc = "install" /\ \A x \in Paths :
            x \in proc'[p].todo <=> Dir(p).op[x] \in {"replace", "create"}
      BY <1>3
    <2>7. /\ proc'[p].cand \in Candidate /\ Reg!WellFormed(proc'[p].cand.image)
          /\ Dir(p)'.stage["index"] = Target(p, "index")'
          /\ \A a \in Agents :
               /\ Dir(p)'.op[a] = "none" => active'[a] = Target(p, a)'
               /\ Dir(p)'.op[a] = "delete" => Target(p, a)' = Absent
               /\ Dir(p)'.op[a] \in {"replace", "create"} => Target(p, a)' # Absent
      <3>1. \A a \in Agents : Target(p, a)' = Target(p, a) /\ active'[a] = active[a]
        BY <1>2, <2>1, PathFacts
      <3> QED BY <2>1, <2>4, <2>5, <3>1, PathFacts
    <2>8. /\ Dir(p)'.aside["index"] = Absent
          /\ \A x \in Paths :
               /\ x \in proc'[p].todo => Dir(p)'.op[x] \in {"replace", "create"}
               /\ Dir(p)'.op[x] \in {"replace", "delete"} => Dir(p)'.aside[x] # Absent
               /\ Dir(p)'.op[x] \in {"replace", "create"} =>
                    IF x \in proc'[p].todo THEN StagedAt(p, x)' ELSE InstalledAt(p, x)'
      BY <2>1, <2>2, <2>3, <2>6
    <2> QED BY <2>6, <2>7, <2>8 DEF CommitInv, RollbackInv, At
  <1>9. ViewInv(p)'
    BY <1>1, <1>2, <1>3, <1>4 DEF ViewInv, HasImage, At, AfterMarker, Preparing, SameWork
  <1> QED BY <1>4, <1>5, <1>6, <1>7, <1>8, <1>9 DEF IInv, StepImage

LEMMA CommitFailsStep ==
  ASSUME NEW p, Procs = {p}, IInv(p), CommitFails(p)
  PROVE  IInv(p)' /\ StepImage
  <1>1. /\ TypeInv /\ PlanInv(p) /\ LockInv(p) /\ DirInv(p)
        /\ JournalInv /\ CommitInv(p) /\ RollbackInv(p) /\ SettledInv /\ ViewInv(p)
    BY DEF IInv
  <1>2. /\ proc[p].pc \in {"aside", "install", "index", "marker"} /\ Errs
        /\ UNCHANGED <<active, dirs, lock, settings, used, nextTx>>
    BY DEF CommitFails, At
  <1>3. /\ proc' \in [Procs -> ProcSet] /\ proc'[p].pc = "rollback" /\ proc'[p].next = "fail"
        /\ proc'[p].todo = Touched(Dir(p)) /\ proc'[p].tx = proc[p].tx
        /\ proc'[p].plan = proc[p].plan /\ proc'[p].view = proc[p].view
        /\ proc'[p].cand = proc[p].cand
    <2>1. Touched(Dir(p)) \in SUBSET Paths
      BY DEF Touched
    <2>2. "rollback" \in PC /\ "fail" \in {"none", "scan", "publish", "fail"} /\ p \in Procs
      BY DEF PC
    <2>3. Jump(p, "rollback", Touched(Dir(p)), "fail")
      BY DEF CommitFails, RollBack, Jump
    <2>4. proc \in [Procs -> ProcSet]
      BY <1>1, TypeParts
    <2> QED BY <2>1, <2>2, <2>3, <2>4, JumpFacts
  <1>4. SettledDisk' = SettledDisk /\ JournalInv' /\ SettledInv'
    BY <1>1, <1>2, QuietDisk
  <1>5. TypeInv'
    BY <1>1, <1>2, <1>3, QuietTypes, TypeParts, FaultFacts DEF TypeInv
  <1>6. PlanInv(p)'
    BY <1>1, <1>2, <1>3 DEF PlanInv, At, InCommit, AfterMarker, Preparing, SameWork
  <1>7. LockInv(p)' /\ DirInv(p)'
    BY <1>1, <1>2, <1>3 DEF LockInv, DirInv, At, Dir, Holding, Working, Preparing, Clean, SameWork
  <1>8. CommitInv(p)' /\ RollbackInv(p)'
    <2>1. CommitInv(p)'
      BY <1>3 DEF CommitInv, At, Preparing
    <2>2. Dir(p).phase = "prepared" /\ proc[p].tx \in Tx
      BY <1>1, <1>2 DEF DirInv, Working, Preparing
    <2>3. \A x \in Paths \ Touched(Dir(p)) : Dir(p).aside[x] = Absent /\ Dir(p).op[x] # "create"
      BY <1>1, <2>2 DEF JournalInv, PreparedOK, Touched, Dir
    <2> QED BY <1>2, <1>3, <2>1, <2>3 DEF RollbackInv, At, Dir
  <1>9. ViewInv(p)'
    BY <1>1, <1>2, <1>3, <1>4 DEF ViewInv, HasImage, At, AfterMarker, Preparing, SameWork
  <1> QED BY <1>4, <1>5, <1>6, <1>7, <1>8, <1>9 DEF IInv, StepImage

LEMMA SettleFailsStep ==
  ASSUME NEW p, Procs = {p}, IInv(p), SettleFails(p), proc[p].plan # "serve"
  PROVE  IInv(p)' /\ StepImage
  <1>1. /\ TypeInv /\ PlanInv(p) /\ LockInv(p) /\ DirInv(p)
        /\ JournalInv /\ CommitInv(p) /\ RollbackInv(p) /\ SettledInv /\ ViewInv(p)
    BY DEF IInv
  <1>2. /\ \/ proc[p].pc = "rollback"
           \/ proc[p].pc = "replay" /\ proc[p].next = "scan"
        /\ Errs /\ proc[p].plan # "serve"
        /\ UNCHANGED <<active, dirs, settings, used, nextTx>>
    BY DEF SettleFails, At
  <1>3. /\ proc' \in [Procs -> ProcSet] /\ proc'[p] = Down /\ lock' = NoProc
    BY <1>1, <1>2, GiveUpFacts, TypeParts DEF SettleFails, LockInv, Holding
  <1>4. SettledDisk' = SettledDisk /\ JournalInv' /\ SettledInv'
    BY <1>1, <1>2, QuietDisk
  <1>5. TypeInv'
    BY <1>1, <1>2, <1>3, QuietTypes, TypeParts, FaultFacts DEF TypeInv
  <1>6. PlanInv(p)'
    BY <1>3 DEF PlanInv, At, InCommit, AfterMarker, Preparing, Down
  <1>7. LockInv(p)' /\ DirInv(p)'
    BY <1>1, <1>2, <1>3 DEF LockInv, DirInv, At, Holding, Working, Preparing, Clean, Down
  <1>8. CommitInv(p)' /\ RollbackInv(p)'
    BY <1>3 DEF CommitInv, RollbackInv, At, Preparing, Down
  <1>9. ViewInv(p)'
    BY <1>3 DEF ViewInv, HasImage, At, AfterMarker, Preparing, Down
  <1> QED BY <1>4, <1>5, <1>6, <1>7, <1>8, <1>9 DEF IInv, StepImage

LEMMA CrashStep ==
  ASSUME NEW p, Procs = {p}, IInv(p), Crash(p)
  PROVE  IInv(p)' /\ StepImage
  <1>1. /\ TypeInv /\ PlanInv(p) /\ LockInv(p) /\ DirInv(p)
        /\ JournalInv /\ CommitInv(p) /\ RollbackInv(p) /\ SettledInv /\ ViewInv(p)
    BY DEF IInv
  <1>2. /\ Dies /\ lock' = IF lock = p THEN NoProc ELSE lock
        /\ UNCHANGED <<active, dirs, settings, used, nextTx>>
    BY DEF Crash, At
  <1>3. /\ proc' \in [Procs -> ProcSet] /\ proc'[p] = Down /\ lock' = NoProc
    BY <1>1, <1>2, DownType, TypeParts DEF Crash, LockInv
  <1>4. SettledDisk' = SettledDisk /\ JournalInv' /\ SettledInv'
    BY <1>1, <1>2, QuietDisk
  <1>5. TypeInv'
    BY <1>1, <1>2, <1>3, QuietTypes, TypeParts, FaultFacts DEF TypeInv
  <1>6. PlanInv(p)'
    BY <1>3 DEF PlanInv, At, InCommit, AfterMarker, Preparing, Down
  <1>7. LockInv(p)' /\ DirInv(p)'
    BY <1>1, <1>2, <1>3 DEF LockInv, DirInv, At, Holding, Working, Preparing, Clean, Down
  <1>8. CommitInv(p)' /\ RollbackInv(p)'
    BY <1>3 DEF CommitInv, RollbackInv, At, Preparing, Down
  <1>9. ViewInv(p)'
    BY <1>3 DEF ViewInv, HasImage, At, AfterMarker, Preparing, Down
  <1> QED BY <1>4, <1>5, <1>6, <1>7, <1>8, <1>9 DEF IInv, StepImage

LEMMA HashCommittedStep ==
  ASSUME NEW p, Procs = {p}, IInv(p), HashCommitted(p)
  PROVE  IInv(p)' /\ StepImage
  <1>1. /\ TypeInv /\ PlanInv(p) /\ LockInv(p) /\ DirInv(p)
        /\ JournalInv /\ CommitInv(p) /\ RollbackInv(p) /\ SettledInv /\ ViewInv(p)
    BY DEF IInv
  <1>2. /\ proc[p].pc = "hash"
        /\ UNCHANGED <<active, dirs, lock, settings, used, nextTx, faults>>
    BY DEF HashCommitted, At
  <1>3. /\ proc' \in [Procs -> ProcSet] /\ proc'[p].pc = "replay" /\ proc'[p].next = "publish"
        /\ proc'[p].todo = Touched(Dir(p)) /\ proc'[p].tx = proc[p].tx
        /\ proc'[p].plan = proc[p].plan /\ proc'[p].view = proc[p].view
        /\ proc'[p].cand = proc[p].cand
    <2>1. Touched(Dir(p)) \in SUBSET Paths
      BY DEF Touched
    <2>2. "replay" \in PC /\ "publish" \in {"none", "scan", "publish", "fail"} /\ p \in Procs
      BY DEF PC
    <2>3. Hashed(p, Generation, "replay", Touched(Dir(p)), "publish")
      BY DEF HashCommitted, Hashed
    <2>4. Generation \in Generations
      BY <1>1, TypeParts, GenerationType
    <2> QED BY <1>1, <2>1, <2>2, <2>3, <2>4, TypeParts, HashedFacts
  <1>4. SettledDisk' = SettledDisk /\ JournalInv' /\ SettledInv'
    BY <1>1, <1>2, QuietDisk
  <1>5. TypeInv'
    BY <1>1, <1>2, <1>3, QuietTypes, TypeParts
  <1>6. PlanInv(p)'
    BY <1>1, <1>2, <1>3 DEF PlanInv, At, InCommit, AfterMarker, Preparing, SameWork
  <1>7. LockInv(p)' /\ DirInv(p)'
    BY <1>1, <1>2, <1>3 DEF LockInv, DirInv, At, Dir, Holding, Working, Preparing, Clean, SameWork
  <1>8. CommitInv(p)' /\ RollbackInv(p)'
    BY <1>3 DEF CommitInv, RollbackInv, At, Preparing
  <1>9. ViewInv(p)'
    <2>1. Whole(active)' /\ ImageOf(active)' = ImageOf(active)
      BY <1>1, <1>2 DEF ViewInv, AfterMarker, At, Whole, ImageOf
    <2> QED BY <1>1, <1>2, <1>3, <1>4, <2>1 DEF ViewInv, HasImage, At, AfterMarker, Preparing
  <1> QED BY <1>4, <1>5, <1>6, <1>7, <1>8, <1>9 DEF IInv, StepImage

-----------------------------------------------------------------------------
(* The image on a disk without transactions: load, hash and publish.       *)

\* The settled disk is a disk, also while a journal is pending.
LEMMA SettledType ==
  ASSUME TypeInv
  PROVE  DiskOK(SettledDisk)
<1>1. DiskOK(active) /\ \A t \in Tx : DiskOK(dirs[t].stage) /\ DiskOK(dirs[t].aside)
  BY TypeParts
<1>2. CASE {t \in Tx : dirs[t].phase \in {"prepared", "committed"}} = {}
  BY <1>1, <1>2 DEF SettledDisk
<1>3. CASE {t \in Tx : dirs[t].phase \in {"prepared", "committed"}} # {}
  <2>1. PICK t \in Tx : SettledDisk = Settled(dirs[t])
    BY <1>3 DEF SettledDisk
  <2>2. \A x \in Paths : \/ Settled(dirs[t])[x] = active[x]
                         \/ Settled(dirs[t])[x] = dirs[t].stage[x]
                         \/ Settled(dirs[t])[x] = dirs[t].aside[x]
                         \/ Settled(dirs[t])[x] = Absent
    BY DEF Settled
  <2>3. Settled(dirs[t]) = [x \in Paths |-> Settled(dirs[t])[x]]
    BY DEF Settled
  <2>4. \A x \in Paths : Settled(dirs[t])[x] \in Content
    BY <1>1, <2>2 DEF DiskOK, Files, Content
  <2>5. Settled(dirs[t])["index"] \in Index \cup {Absent}
    BY <1>1, <2>2, PathFacts DEF DiskOK
  <2>6. \A x \in Paths : x # "index" => Settled(dirs[t])[x] \in Profiles \cup {Absent}
    BY <1>1, <2>2 DEF DiskOK
  <2> QED BY <2>1, <2>3, <2>4, <2>5, <2>6 DEF DiskOK, Files
<1> QED BY <1>2, <1>3

\* Without directories the disk is settled.
LEMMA CleanDisk ==
  ASSUME \A t \in Tx : dirs[t].phase = "none"
  PROVE  SettledDisk = active
  BY SettledNone DEF Journal

\* The image of a whole disk has agents.
LEMMA WholeHasAgents ==
  ASSUME NEW f, Whole(f)
  PROVE  Reg!Ids(ImageOf(f)) # {} /\ ImageOf(f) \in Reg!Images
  BY DEF Whole, Reg!WellFormed

\* What Read makes of the files on the disk.
ReadImage(d) ==
  LET present == {a \in Agents : Exists(a)}
      ids == IF Exists("index") THEN present \cap active["index"].listed ELSE present
  IN [profiles |-> [a \in Agents |-> IF a \in ids THEN active[a] ELSE Absent],
      sub |-> active["subagents"],
      listed |-> IF Exists("index") THEN active["index"].listed ELSE ids,
      default |-> d]

ReadDefault(d) ==
  \/ Exists("index") /\ d = active["index"].default
  \/ ~Exists("index") /\ d \in Agents

Loaded(p, v) == proc' = [proc EXCEPT ![p].pc = "generation", ![p].view = v]

LEMMA ReadImageFacts ==
  ASSUME DiskOK(active), Exists("subagents"), NEW d, ReadDefault(d)
  PROVE  /\ ReadImage(d) \in Reg!Images
         /\ Whole(active) => ReadImage(d) = ImageOf(active)
         /\ (\A a \in Agents : ~Exists(a)) => Reg!Ids(ReadImage(d)) = {}
<1> DEFINE ids == IF Exists("index") THEN {a \in Agents : Exists(a)} \cap active["index"].listed
                  ELSE {a \in Agents : Exists(a)}
           prof == [a \in Agents |-> IF a \in ids THEN active[a] ELSE Absent]
           list == IF Exists("index") THEN active["index"].listed ELSE ids
<1>1. ReadImage(d) = [profiles |-> prof, sub |-> active["subagents"], listed |-> list, default |-> d]
  BY DEF ReadImage
<1>2. /\ active["subagents"] \in Profiles
      /\ \A a \in Agents : active[a] \in Profiles \cup {Absent}
      /\ Exists("index") => active["index"] \in Index
  BY PathFacts DEF DiskOK, Exists
<1>3. prof \in [Agents -> Profiles \cup {Absent}]
  BY <1>2
<1>4. list \in SUBSET Agents /\ d \in Agents
  BY <1>2 DEF ReadDefault, Index
<1>5. ReadImage(d) \in Reg!Images
  <2> HIDE DEF prof, list
  <2> QED BY <1>1, <1>2, <1>3, <1>4 DEF Reg!Images
<1>6. Whole(active) => ReadImage(d) = ImageOf(active)
  <2> SUFFICES ASSUME Whole(active) PROVE ReadImage(d) = ImageOf(active)
    OBVIOUS
  <2>1. /\ Exists("index") /\ active["index"].listed = {a \in Agents : Exists(a)}
    BY WholeDisk DEF Exists
  <2>2. ids = {a \in Agents : Exists(a)}
    BY <2>1
  <2>3. prof = [a \in Agents |-> active[a]]
    BY <2>2 DEF Exists
  <2>4. d = active["index"].default /\ list = active["index"].listed
    BY <2>1 DEF ReadDefault
  <2>5. active["index"] # Absent
    BY <2>1 DEF Exists
  <2> HIDE DEF prof, list, ids
  <2> QED BY <1>1, <2>3, <2>4, <2>5 DEF ImageOf
<1>7. (\A a \in Agents : ~Exists(a)) => Reg!Ids(ReadImage(d)) = {}
  BY <1>1 DEF Reg!Ids, Exists
<1> QED BY <1>5, <1>6, <1>7

LEMMA LoadedFacts ==
  ASSUME NEW p \in Procs, proc \in [Procs -> ProcSet], NEW v \in Reg!Images, Loaded(p, v)
  PROVE  /\ proc' \in [Procs -> ProcSet]
         /\ proc'[p].pc = "generation" /\ proc'[p].view = v
         /\ proc'[p].plan = proc[p].plan /\ proc'[p].tx = proc[p].tx
<1> DEFINE r == [proc[p] EXCEPT !.pc = "generation", !.view = v]
<1>1. proc' = [proc EXCEPT ![p] = r]
  BY DEF Loaded
<1>2. proc[p] \in ProcSet
  OBVIOUS
<1>3. r \in ProcSet
  BY <1>2 DEF ProcSet, PC
<1>4. proc'[p] = r /\ proc' \in [Procs -> ProcSet]
  BY <1>1, <1>3
<1> QED BY <1>2, <1>4 DEF ProcSet

\* A boot that gives up without the lock leaves nothing behind.
LEMMA QuietDown ==
  ASSUME NEW p, Procs = {p}, IInv(p), UNCHANGED <<active, dirs, settings, used, nextTx>>,
         faults' \in [crashes : 0..MaxCrashes, errors : 0..MaxErrors],
         proc' \in [Procs -> ProcSet], proc'[p] = Down, lock' = NoProc
  PROVE  IInv(p)' /\ StepImage
  <1>1. /\ TypeInv /\ PlanInv(p) /\ LockInv(p) /\ DirInv(p)
        /\ JournalInv /\ CommitInv(p) /\ RollbackInv(p) /\ SettledInv /\ ViewInv(p)
    BY DEF IInv
  <1>4. SettledDisk' = SettledDisk /\ JournalInv' /\ SettledInv'
    BY <1>1, QuietDisk
  <1>5. TypeInv'
    BY <1>1, QuietTypes, TypeParts
  <1>6. PlanInv(p)'
    BY DEF PlanInv, At, InCommit, AfterMarker, Preparing, Down
  <1>7. LockInv(p)' /\ DirInv(p)'
    BY <1>1 DEF LockInv, DirInv, At, Holding, Working, Preparing, Clean, Down
  <1>8. CommitInv(p)' /\ RollbackInv(p)'
    BY DEF CommitInv, RollbackInv, At, Preparing, Down
  <1>9. ViewInv(p)'
    BY DEF ViewInv, HasImage, At, AfterMarker, Preparing, Down
  <1> QED BY <1>4, <1>5, <1>6, <1>7, <1>8, <1>9 DEF IInv, StepImage

LEMMA ReadStep ==
  ASSUME NEW p, Procs = {p}, IInv(p), Read(p)
  PROVE  IInv(p)' /\ StepImage
  <1>1. /\ TypeInv /\ PlanInv(p) /\ LockInv(p) /\ DirInv(p)
        /\ JournalInv /\ CommitInv(p) /\ RollbackInv(p) /\ SettledInv /\ ViewInv(p)
    BY DEF IInv
  <1>2. /\ proc[p].pc = "read" /\ lock = NoProc
        /\ UNCHANGED <<active, dirs, settings, used, nextTx, faults>>
        /\ proc[p].plan \in {"cleanup", "existing", "adopt"}
        /\ proc[p].plan = "cleanup" => settings.legacy
        /\ proc[p].plan \in {"existing", "adopt"} => ~settings.legacy
        /\ proc[p].plan = "adopt" => Whole(SettledDisk)
        /\ \A t \in Tx : dirs[t].phase = "none"
    BY <1>1 DEF Read, At, LockInv, Holding, PlanInv, DirInv, Clean, ViewInv
  <1>3. SettledDisk = active
    BY <1>2, CleanDisk
  <1>4. SettledDisk' = SettledDisk /\ JournalInv' /\ SettledInv'
    BY <1>1, <1>2, QuietDisk
  <1>5. CASE ~Exists("subagents")
    <2>1. GiveUp(p)
      BY <1>5 DEF Read
    <2>2. proc' \in [Procs -> ProcSet] /\ proc'[p] = Down /\ lock' = NoProc
      BY <1>1, <1>2, <2>1, GiveUpFacts, TypeParts
    <2>3. faults' \in [crashes : 0..MaxCrashes, errors : 0..MaxErrors]
      BY <1>1, <1>2, TypeParts
    <2> QED BY <1>2, <2>2, <2>3, QuietDown
  <1>6. CASE Exists("subagents")
    <2>1. PICK d : ReadDefault(d) /\ Loaded(p, ReadImage(d)) /\ UNCHANGED lock
      <3>1. active["index"] # Absent => active["index"].default \in Agents
        BY <1>1, TypeParts DEF DiskOK, Index
      <3> QED BY <1>6, <3>1, RegistryAssumption DEF Read, ReadDefault, Loaded, ReadImage
    <2> DEFINE v == ReadImage(d)
    <2>2. /\ v \in Reg!Images
          /\ Whole(active) => v = ImageOf(active)
          /\ (\A a \in Agents : ~Exists(a)) => Reg!Ids(v) = {}
      BY <1>1, <1>6, <2>1, ReadImageFacts, TypeParts
    <2> HIDE DEF v
    <2>3. /\ proc' \in [Procs -> ProcSet] /\ proc'[p].pc = "generation" /\ proc'[p].view = v
          /\ proc'[p].plan = proc[p].plan /\ proc'[p].tx = proc[p].tx
      BY <1>1, <2>1, <2>2, LoadedFacts, TypeParts DEF v
    <2>4. ~Whole(active) => proc[p].plan = "existing" /\ Reg!Ids(v) = {}
      <3> SUFFICES ASSUME ~Whole(active) PROVE proc[p].plan = "existing" /\ Reg!Ids(v) = {}
        OBVIOUS
      <3>1. proc[p].plan = "existing"
        BY <1>1, <1>2, <1>3, <1>6 DEF SettledInv, Exists
      <3> QED BY <1>1, <1>3, <2>2, <3>1 DEF SettledInv, Exists
    <2>5. TypeInv'
      BY <1>1, <1>2, <2>1, <2>3, QuietTypes, TypeParts
    <2>6. PlanInv(p)'
      BY <1>1, <1>2, <2>3 DEF PlanInv, At, InCommit, AfterMarker, Preparing
    <2>7. LockInv(p)' /\ DirInv(p)'
      BY <1>1, <1>2, <2>1, <2>3 DEF LockInv, DirInv, At, Dir, Holding, Working, Preparing, Clean
    <2>8. CommitInv(p)' /\ RollbackInv(p)'
      BY <2>3 DEF CommitInv, RollbackInv, At, Preparing
    <2>9. ViewInv(p)'
      BY <1>2, <1>3, <1>4, <2>2, <2>3, <2>4 DEF ViewInv, HasImage, At, AfterMarker, Preparing
    <2> QED BY <1>4, <2>5, <2>6, <2>7, <2>8, <2>9 DEF IInv, StepImage
  <1> QED BY <1>5, <1>6

LEMMA ReadGenerationStep ==
  ASSUME NEW p, Procs = {p}, IInv(p), ReadGeneration(p)
  PROVE  IInv(p)' /\ StepImage
  <1>1. /\ TypeInv /\ PlanInv(p) /\ LockInv(p) /\ DirInv(p)
        /\ JournalInv /\ CommitInv(p) /\ RollbackInv(p) /\ SettledInv /\ ViewInv(p)
    BY DEF IInv
  <1>2. /\ proc[p].pc = "generation" /\ lock' = lock
        /\ UNCHANGED <<active, dirs, settings, used, nextTx, faults>>
    BY DEF ReadGeneration, At
  <1>3. /\ proc' \in [Procs -> ProcSet]
        /\ proc'[p].pc \in {"append", "finish"}
        /\ proc'[p].pc = "append" => proc[p].plan = "existing"
        /\ proc[p].plan = "existing" /\ Reg!Ids(proc[p].view) = {} => proc'[p].pc = "append"
        /\ proc'[p].plan = proc[p].plan /\ proc'[p].tx = proc[p].tx
        /\ proc'[p].view = proc[p].view
    <2>a. PICK executable \in SUBSET Reg!Ids(proc[p].view) :
            proc' = [proc EXCEPT ![p].gen = Generation,
              ![p].pc = IF proc[p].plan = "existing" /\ executable = {}
                        THEN "append" ELSE "finish"]
      BY DEF ReadGeneration
    <2> DEFINE l == IF proc[p].plan = "existing" /\ executable = {} THEN "append" ELSE "finish"
               g == Generation
               r == [proc[p] EXCEPT !.gen = g, !.pc = l]
    <2>1. g \in Generations
      BY <1>1, TypeParts, GenerationType
    <2>2. l \in PC /\ proc' = [proc EXCEPT ![p].gen = g, ![p].pc = l]
      BY <2>a DEF PC
    <2> HIDE DEF g, l
    <2>3. proc' = [proc EXCEPT ![p] = r] /\ proc[p] \in ProcSet
      BY <1>1, <2>2, TypeParts
    <2>4. r \in ProcSet
      BY <2>1, <2>2, <2>3 DEF ProcSet
    <2>5. proc'[p] = r /\ proc' \in [Procs -> ProcSet]
      BY <1>1, <2>3, <2>4, TypeParts
    <2>6. proc'[p].pc = l /\ proc'[p].plan = proc[p].plan /\ proc'[p].tx = proc[p].tx
          /\ proc'[p].view = proc[p].view
      BY <2>3, <2>5 DEF ProcSet
    <2> QED BY <2>5, <2>6 DEF l
  <1>4. SettledDisk' = SettledDisk /\ JournalInv' /\ SettledInv'
    BY <1>1, <1>2, QuietDisk
  <1>5. TypeInv'
    BY <1>1, <1>2, <1>3, QuietTypes, TypeParts
  <1>6. PlanInv(p)'
    BY <1>1, <1>2, <1>3 DEF PlanInv, At, InCommit, AfterMarker, Preparing
  <1>7. LockInv(p)' /\ DirInv(p)'
    BY <1>1, <1>2, <1>3 DEF LockInv, DirInv, At, Dir, Holding, Working, Preparing, Clean
  <1>8. CommitInv(p)' /\ RollbackInv(p)'
    BY <1>3 DEF CommitInv, RollbackInv, At, Preparing
  <1>9. ViewInv(p)'
    <2>1. Whole(SettledDisk) => Reg!Ids(proc[p].view) # {} /\ proc[p].view = ImageOf(SettledDisk)
      BY <1>1, <1>2, WholeHasAgents DEF ViewInv, HasImage, At
    <2>2. ~Whole(SettledDisk) => proc[p].plan = "existing" /\ Reg!Ids(proc[p].view) = {}
      BY <1>1, <1>2 DEF ViewInv, At
    <2>3. /\ proc[p].view \in Reg!Images
          /\ proc[p].plan \in {"cleanup", "existing", "adopt"}
          /\ proc[p].plan = "cleanup" => settings.legacy
          /\ proc[p].plan \in {"existing", "adopt"} => ~settings.legacy
      BY <1>1, <1>2 DEF ViewInv, PlanInv, At
    <2> QED BY <1>2, <1>3, <1>4, <2>1, <2>2, <2>3 DEF ViewInv, HasImage, At, AfterMarker, Preparing
  <1> QED BY <1>4, <1>5, <1>6, <1>7, <1>8, <1>9 DEF IInv, StepImage

\* What publishing makes of a process record.
PublishedPlan(plan) == IF plan = "upgrade" THEN "cleanup" ELSE "adopt"

LEMMA PublishFacts ==
  ASSUME NEW p \in Procs, proc \in [Procs -> ProcSet], Publish(p),
         proc[p].cand \in Candidate
  PROVE  /\ proc' \in [Procs -> ProcSet]
         /\ proc[p].plan = "serve" =>
              proc'[p].pc = "up" /\ proc'[p].plan = "serve" /\ proc'[p].view = proc[p].cand.image
         /\ proc[p].plan # "serve" =>
              proc'[p].pc = "recover" /\ proc'[p].plan = PublishedPlan(proc[p].plan)
         /\ proc'[p].tx = proc[p].tx
<1> DEFINE q == proc[p]
           s == [q EXCEPT !.pc = "up", !.view = q.cand.image, !.gen = q.newGen]
           b == [q EXCEPT !.pc = "recover", !.plan = PublishedPlan(q.plan)]
<1>1. q \in ProcSet /\ q.cand.image \in Reg!Images
  BY DEF Candidate
<1>2. proc' = [proc EXCEPT ![p] = IF q.plan = "serve" THEN s ELSE b]
  BY DEF Publish, PublishedPlan
<1> HIDE DEF q
<1>3. s \in ProcSet /\ b \in ProcSet
  <2>1. s \in ProcSet
    BY <1>1 DEF ProcSet, PC
  <2>2. PublishedPlan(q.plan) \in Starting /\ "recover" \in PC
    BY DEF PublishedPlan, Starting, PC
  <2>3. b \in ProcSet
    BY <1>1, <2>2 DEF ProcSet
  <2> QED BY <2>1, <2>3
<1>4. /\ s.pc = "up" /\ s.plan = q.plan /\ s.view = q.cand.image /\ s.tx = q.tx
      /\ b.pc = "recover" /\ b.plan = PublishedPlan(q.plan) /\ b.tx = q.tx
  BY <1>1 DEF ProcSet
<1> HIDE DEF s, b
<1>5. proc'[p] = (IF q.plan = "serve" THEN s ELSE b) /\ proc' \in [Procs -> ProcSet]
  BY <1>2, <1>3
<1> QED BY <1>4, <1>5 DEF q

LEMMA PublishStep ==
  ASSUME NEW p, Procs = {p}, IInv(p), Publish(p)
  PROVE  IInv(p)' /\ StepImage
  <1>1. /\ TypeInv /\ PlanInv(p) /\ LockInv(p) /\ DirInv(p)
        /\ JournalInv /\ CommitInv(p) /\ RollbackInv(p) /\ SettledInv /\ ViewInv(p)
    BY DEF IInv
  <1>2. /\ proc[p].pc = "publish" /\ lock' = NoProc
        /\ UNCHANGED <<active, dirs, settings, used, nextTx, faults>>
        /\ \A t \in Tx : dirs[t].phase = "none"
        /\ proc[p].plan \in {"fresh", "upgrade", "existing", "serve"}
        /\ Whole(active) /\ proc[p].cand \in Candidate /\ ImageOf(active) = proc[p].cand.image
    BY <1>1 DEF Publish, At, DirInv, Clean, PlanInv, InCommit, AfterMarker, ViewInv
  <1>3. /\ proc' \in [Procs -> ProcSet]
        /\ proc[p].plan = "serve" =>
             proc'[p].pc = "up" /\ proc'[p].plan = "serve" /\ proc'[p].view = ImageOf(active)
        /\ proc[p].plan # "serve" =>
             proc'[p].pc = "recover" /\ proc'[p].plan = PublishedPlan(proc[p].plan)
        /\ proc'[p].tx = proc[p].tx
    BY <1>1, <1>2, PublishFacts, TypeParts
  <1>4. SettledDisk' = SettledDisk /\ JournalInv' /\ SettledInv' /\ SettledDisk = active
    BY <1>1, <1>2, QuietDisk, CleanDisk
  <1>5. TypeInv'
    BY <1>1, <1>2, <1>3, QuietTypes, TypeParts
  <1>6. PlanInv(p)'
    BY <1>2, <1>3 DEF PlanInv, At, InCommit, AfterMarker, Preparing, PublishedPlan, Starting
  <1>7. LockInv(p)' /\ DirInv(p)'
    BY <1>1, <1>2, <1>3 DEF LockInv, DirInv, At, Dir, Holding, Working, Preparing, Clean
  <1>8. CommitInv(p)' /\ RollbackInv(p)'
    BY <1>3 DEF CommitInv, RollbackInv, At, Preparing
  <1>9. ViewInv(p)'
    <2>1. /\ proc[p].plan = "upgrade" => settings.legacy
          /\ proc[p].plan \in {"fresh", "existing", "serve"} => ~settings.legacy
          /\ proc[p].plan = "serve" => settings.marker
      BY <1>1 DEF ViewInv
    <2> QED BY <1>2, <1>3, <1>4, <2>1
            DEF ViewInv, HasImage, At, AfterMarker, Preparing, PublishedPlan
  <1> QED BY <1>4, <1>5, <1>6, <1>7, <1>8, <1>9 DEF IInv, StepImage

-----------------------------------------------------------------------------
(* The settings: legacy ones go, the marker comes.                         *)

LEMMA DeleteLegacySettingsStep ==
  ASSUME NEW p, Procs = {p}, IInv(p), DeleteLegacySettings(p)
  PROVE  IInv(p)' /\ StepImage
  <1>1. /\ TypeInv /\ PlanInv(p) /\ LockInv(p) /\ DirInv(p)
        /\ JournalInv /\ CommitInv(p) /\ RollbackInv(p) /\ SettledInv /\ ViewInv(p)
    BY DEF IInv
  <1>2. /\ proc[p].pc = "finish" /\ lock' = lock
        /\ UNCHANGED <<active, dirs, used, nextTx, faults>>
        /\ settings' = [settings EXCEPT !.legacy = @ /\ proc[p].plan # "cleanup"]
        /\ proc[p].plan \in {"cleanup", "existing", "adopt"}
        /\ \A t \in Tx : dirs[t].phase = "none"
        /\ Whole(SettledDisk) /\ proc[p].view = ImageOf(SettledDisk)
        /\ proc[p].plan \in {"existing", "adopt"} => ~settings.legacy
        /\ proc[p].plan = "cleanup" => settings.legacy
    BY <1>1 DEF DeleteLegacySettings, At, PlanInv, DirInv, Clean, ViewInv, HasImage
  <1>3. /\ proc' \in [Procs -> ProcSet] /\ proc'[p].pc = "mark" /\ SameWork(p)
    BY <1>1, GotoFacts, TypeParts DEF DeleteLegacySettings, PC
  <1>4. SettledDisk' = SettledDisk /\ JournalInv' /\ SettledInv'
    <2>1. SettledDisk' = SettledDisk /\ JournalInv'
      BY <1>1, <1>2, QuietDisk
    <2>2. /\ settings' \in [marker : BOOLEAN, legacy : BOOLEAN]
          /\ settings'.marker = settings.marker /\ settings'.legacy = FALSE
      BY <1>1, <1>2, TypeParts
    <2>3. SettledDisk["memory"] = Absent
      BY <1>1, <1>2 DEF SettledInv
    <2>4. Whole(SettledDisk)' /\ SettledDisk'["memory"] = Absent
      BY <1>2, <2>1, <2>3 DEF Whole
    <2>5. SettledInv'
      BY <1>2, <2>2, <2>4 DEF SettledInv
    <2> QED BY <2>1, <2>5
  <1>5. TypeInv'
    BY <1>1, <1>2, <1>3, QuietTypes, TypeParts
  <1>6. PlanInv(p)'
    BY <1>1, <1>2, <1>3 DEF PlanInv, At, InCommit, AfterMarker, Preparing, SameWork
  <1>7. LockInv(p)' /\ DirInv(p)'
    BY <1>1, <1>2, <1>3 DEF LockInv, DirInv, At, Dir, Holding, Working, Preparing, Clean, SameWork
  <1>8. CommitInv(p)' /\ RollbackInv(p)'
    BY <1>3 DEF CommitInv, RollbackInv, At, Preparing
  <1>9. ViewInv(p)'
    <2>1. ~settings'.legacy /\ Whole(SettledDisk)'
      BY <1>1, <1>2, <1>4, TypeParts DEF Whole
    <2> QED BY <1>2, <1>3, <1>4, <2>1 DEF ViewInv, HasImage, At, AfterMarker, Preparing, SameWork
  <1> QED BY <1>4, <1>5, <1>6, <1>7, <1>8, <1>9 DEF IInv, StepImage

LEMMA SetMarkerStep ==
  ASSUME NEW p, Procs = {p}, IInv(p), SetMarker(p)
  PROVE  IInv(p)' /\ StepImage
  <1>1. /\ TypeInv /\ PlanInv(p) /\ LockInv(p) /\ DirInv(p)
        /\ JournalInv /\ CommitInv(p) /\ RollbackInv(p) /\ SettledInv /\ ViewInv(p)
    BY DEF IInv
  <1>2. /\ proc[p].pc = "mark" /\ lock' = lock
        /\ UNCHANGED <<active, dirs, used, nextTx, faults>>
        /\ settings' = [settings EXCEPT !.marker = TRUE]
        /\ \A t \in Tx : dirs[t].phase = "none"
        /\ Whole(SettledDisk) /\ proc[p].view = ImageOf(SettledDisk)
        /\ ~settings.legacy
    BY <1>1 DEF SetMarker, At, DirInv, Clean, ViewInv, HasImage
  <1>3. /\ proc' \in [Procs -> ProcSet] /\ proc'[p].pc = "up" /\ proc'[p].plan = "serve"
        /\ proc'[p].view = proc[p].view /\ proc'[p].tx = proc[p].tx
    <2> DEFINE r == [proc[p] EXCEPT !.pc = "up", !.plan = "serve"]
    <2>1. proc' = [proc EXCEPT ![p] = r] /\ proc[p] \in ProcSet
      BY <1>1, TypeParts DEF SetMarker
    <2>2. r \in ProcSet
      BY <2>1 DEF ProcSet, PC
    <2>3. proc'[p] = r /\ proc' \in [Procs -> ProcSet]
      BY <1>1, <2>1, <2>2, TypeParts
    <2> QED BY <2>1, <2>3 DEF ProcSet
  <1>4. SettledDisk' = SettledDisk /\ JournalInv' /\ SettledInv'
    <2>1. SettledDisk' = SettledDisk /\ JournalInv'
      BY <1>1, <1>2, QuietDisk
    <2>2. /\ settings' \in [marker : BOOLEAN, legacy : BOOLEAN]
          /\ settings'.marker = TRUE /\ settings'.legacy = FALSE
      BY <1>1, <1>2, TypeParts
    <2>3. SettledDisk["memory"] = Absent
      BY <1>1, <1>2 DEF SettledInv
    <2>4. Whole(SettledDisk)' /\ SettledDisk'["memory"] = Absent
      BY <1>2, <2>1, <2>3 DEF Whole
    <2>5. SettledInv'
      BY <1>2, <2>2, <2>4 DEF SettledInv
    <2> QED BY <2>1, <2>5
  <1>5. TypeInv'
    BY <1>1, <1>2, <1>3, QuietTypes, TypeParts
  <1>6. PlanInv(p)'
    BY <1>3 DEF PlanInv, At, InCommit, AfterMarker, Preparing
  <1>7. LockInv(p)' /\ DirInv(p)'
    BY <1>1, <1>2, <1>3 DEF LockInv, DirInv, At, Dir, Holding, Working, Preparing, Clean
  <1>8. CommitInv(p)' /\ RollbackInv(p)'
    BY <1>3 DEF CommitInv, RollbackInv, At, Preparing
  <1>9. ViewInv(p)'
    <2>1. ~settings'.legacy /\ settings'.marker /\ Whole(SettledDisk)'
      BY <1>1, <1>2, <1>4, TypeParts DEF Whole
    <2> QED BY <1>2, <1>3, <1>4, <2>1 DEF ViewInv, HasImage, At, AfterMarker, Preparing
  <1> QED BY <1>4, <1>5, <1>6, <1>7, <1>8, <1>9 DEF IInv, StepImage

-----------------------------------------------------------------------------
(* A boot.                                                                 *)

\* A memory directory that is in place is one recovery keeps.
LEMMA MemoryThere ==
  ASSUME TypeInv, JournalInv, Exists("memory")
  PROVE  SettledDisk["memory"] = active["memory"]
<1>1. CASE {t \in Tx : dirs[t].phase \in {"prepared", "committed"}} = {}
  BY <1>1 DEF SettledDisk
<1>2. CASE {t \in Tx : dirs[t].phase \in {"prepared", "committed"}} # {}
  <2>1. PICK t \in Tx : /\ SettledDisk = Settled(dirs[t])
                        /\ dirs[t].phase \in {"prepared", "committed"}
    BY <1>2 DEF SettledDisk
  <2>2. /\ OpsOK(dirs[t])
        /\ dirs[t].phase = "prepared" => PreparedOK(dirs[t])
        /\ dirs[t].phase = "committed" => CommittedOK(dirs[t])
    BY <2>1 DEF JournalInv
  <2>3. dirs[t].op["memory"] \in {"none", "delete"}
    BY <2>2 DEF OpsOK
  <2>4. CASE dirs[t].phase = "prepared"
    <3>1. dirs[t].op["memory"] # "none" => dirs[t].aside["memory"] = Absent
      BY <2>2, <2>3, <2>4, PathFacts DEF PreparedOK
    <3> QED BY <2>1, <2>3, <2>4, <3>1, PathFacts DEF Settled
  <2>5. CASE dirs[t].phase = "committed"
    BY <2>1, <2>3, <2>5, PathFacts DEF Settled
  <2> QED BY <2>1, <2>4, <2>5
<1> QED BY <1>1, <1>2

\* Without an index at its path and without a prepared journal, nothing is whole.
LEMMA IndexThere ==
  ASSUME TypeInv, JournalInv, Whole(SettledDisk), ~Exists("index"),
         \A t \in Tx : dirs[t].phase # "prepared"
  PROVE  FALSE
<1>1. CASE {t \in Tx : dirs[t].phase \in {"prepared", "committed"}} = {}
  <2>1. SettledDisk = active
    BY <1>1 DEF SettledDisk
  <2> QED BY <2>1, WholeDisk, TypeParts DEF Exists
<1>2. CASE {t \in Tx : dirs[t].phase \in {"prepared", "committed"}} # {}
  <2>1. PICK t \in Tx : dirs[t].phase = "committed"
    BY <1>2
  <2>2. OpsOK(dirs[t]) /\ CommittedOK(dirs[t])
    BY <2>1 DEF JournalInv
  <2> QED BY <2>2, PathFacts DEF OpsOK, CommittedOK
<1> QED BY <1>1, <1>2

\* load_existing restores a subagents.yaml that is missing. Where a journal
\* decides over that file it is not missing, or is about to be put back.
Restored == [active EXCEPT !["subagents"] = Default]

LEMMA RestoreDisk ==
  ASSUME NEW p, Procs = {p}, TypeInv, DirInv(p), JournalInv, SettledInv,
         ~Exists("subagents"), ~settings.legacy, active' = Restored,
         UNCHANGED <<dirs, settings>>
  PROVE  /\ DiskOK(active') /\ JournalInv' /\ SettledInv'
         /\ SettledDisk' = SettledDisk \/ (~Whole(SettledDisk) /\ ~Whole(SettledDisk'))
<1>1. /\ DiskOK(active) /\ active \in [Paths -> Content]
  BY TypeParts DEF Files
<1>2. /\ active' \in [Paths -> Content] /\ active'["subagents"] = Default
      /\ \A x \in Paths : x # "subagents" => active'[x] = active[x]
  BY <1>1, PathFacts, RegistryAssumption DEF Restored, Content
<1>3. DiskOK(active')
  BY <1>1, <1>2, PathFacts, RegistryAssumption DEF DiskOK, Files
<1>4. active'["subagents"] # Absent /\ active["subagents"] = Absent
  BY <1>2, RegistryAssumption, AbsentFacts DEF Exists
<1>5. \A x \in Paths : x # "subagents" => (Exists(x)' <=> Exists(x))
  BY <1>2 DEF Exists
<1>6. JournalInv'
  <2> SUFFICES ASSUME NEW t \in Tx
               PROVE  /\ dirs[t].phase # "none" => OpsOK(dirs[t])
                      /\ dirs[t].phase = "prepared" => PreparedOK(dirs[t])'
                      /\ dirs[t].phase = "committed" => CommittedOK(dirs[t])'
    BY DEF JournalInv, OpsOK
  <2>1. /\ dirs[t].phase # "none" => OpsOK(dirs[t])
        /\ dirs[t].phase = "prepared" => PreparedOK(dirs[t])
        /\ dirs[t].phase = "committed" => CommittedOK(dirs[t])
    BY DEF JournalInv
  <2>2. dirs[t].phase # "none" => dirs[t].op["subagents"] \in {"replace", "create"}
    BY <2>1 DEF OpsOK
  <2>3. ASSUME dirs[t].phase = "prepared" PROVE PreparedOK(dirs[t])'
    BY <1>4, <1>5, <2>1, <2>2, <2>3 DEF PreparedOK, Exists
  <2>4. dirs[t].phase # "committed"
    BY <1>4, <2>1, <2>2, PathFacts DEF CommittedOK, Exists
  <2> QED BY <2>1, <2>3, <2>4
<1>7. CASE \A t \in Tx : ~Journal(t)
  <2>1. SettledDisk = active /\ SettledDisk' = active'
    BY <1>7, SettledNone, SettledNoneNext DEF Journal
  <2>2. ~Whole(active) /\ \A a \in Agents : active[a] = Absent
    BY <1>1, <1>4, <2>1, WholeDisk DEF SettledInv
  <2>3. ~Whole(active') /\ \A a \in Agents : active'[a] = Absent
    <3>1. \A a \in Agents : active'[a] = Absent
      BY <1>2, <2>2, PathFacts
    <3>2. active'["index"] # Absent => active'["index"].default \in Agents
      BY <1>3 DEF DiskOK, Index
    <3> QED BY <1>3, <3>1, <3>2, WholeDisk
  <2>4. SettledDisk'["memory"] = SettledDisk["memory"]
    BY <1>2, <2>1, PathFacts
  <2>5. SettledInv'
    <3>1. ~Whole(SettledDisk)'
      BY <2>1, <2>3 DEF Whole, ImageOf
    <3> QED BY <2>1, <2>2, <2>3, <2>4, <3>1 DEF SettledInv
  <2> QED BY <1>3, <1>6, <2>1, <2>2, <2>3, <2>5
<1>8. CASE \E t \in Tx : Journal(t)
  <2>1. PICK t \in Tx : Journal(t)
    BY <1>8
  <2>2. \A u \in Tx : dirs[u].phase # "none" => u = t
    BY <2>1 DEF DirInv, Journal
  <2>3. SettledDisk = Settled(dirs[t]) /\ SettledDisk' = Settled(dirs[t])'
    <3>1. Journal(t)' /\ \A u \in Tx : dirs'[u].phase # "none" => u = t
      BY <2>1, <2>2 DEF Journal
    <3> QED BY <2>1, <2>2, <3>1, SettledOne, SettledOneNext
  <2>4. /\ OpsOK(dirs[t])
        /\ dirs[t].phase = "prepared" => PreparedOK(dirs[t])
        /\ dirs[t].phase = "committed" => CommittedOK(dirs[t])
    BY <2>1 DEF JournalInv, Journal
  <2>5. dirs[t].op["subagents"] \in {"replace", "create"}
    BY <2>4 DEF OpsOK
  <2>6. dirs[t].phase = "prepared"
    BY <2>1, <2>4, <2>5, PathFacts DEF CommittedOK, Journal
  <2>7. dirs[t].aside["subagents"] # Absent \/ dirs[t].op["subagents"] = "create"
    BY <2>4, <2>5, <2>6, PathFacts DEF PreparedOK
  <2>8. \A x \in Paths : Settled(dirs[t])'[x] = Settled(dirs[t])[x]
    <3> SUFFICES ASSUME NEW x \in Paths PROVE Settled(dirs[t])'[x] = Settled(dirs[t])[x]
      OBVIOUS
    <3>1. CASE x = "subagents"
      BY <2>5, <2>6, <2>7, <3>1 DEF Settled
    <3>2. CASE x # "subagents"
      BY <1>2, <2>6, <3>2 DEF Settled
    <3> QED BY <3>1, <3>2
  <2>9. Settled(dirs[t])' = Settled(dirs[t])
    <3>1. /\ Settled(dirs[t])' = [x \in Paths |-> Settled(dirs[t])'[x]]
          /\ Settled(dirs[t]) = [x \in Paths |-> Settled(dirs[t])[x]]
      BY DEF Settled
    <3> QED BY <2>8, <3>1
  <2>10. SettledDisk' = SettledDisk
    BY <2>3, <2>9
  <2>11. SettledInv'
    BY <2>10, SettledKept
  <2> QED BY <1>3, <1>6, <2>10, <2>11
<1> QED BY <1>7, <1>8

BootPlan ==
  LET legacy == settings.legacy \/ Exists("memory")
  IN IF ~settings.marker /\ ~Exists("index")
     THEN IF legacy THEN "upgrade" ELSE "fresh"
     ELSE IF ~settings.marker /\ legacy THEN "cleanup" ELSE "existing"

LEMMA BootStepOK ==
  ASSUME NEW p, Procs = {p}, IInv(p), Boot(p)
  PROVE  IInv(p)' /\ StepImage
  <1>1. /\ TypeInv /\ PlanInv(p) /\ LockInv(p) /\ DirInv(p)
        /\ JournalInv /\ CommitInv(p) /\ RollbackInv(p) /\ SettledInv /\ ViewInv(p)
    BY DEF IInv
  <1>2. /\ proc[p].pc = "down" /\ lock' = lock
        /\ UNCHANGED <<dirs, settings, used, nextTx, faults>>
        /\ active' = IF BootPlan = "existing" /\ ~Exists("subagents") THEN Restored ELSE active
    BY DEF Boot, At, BootPlan, Restored
  <1>3. /\ proc' \in [Procs -> ProcSet] /\ proc'[p].pc = "recover" /\ proc'[p].plan = BootPlan
    <2> DEFINE r == [Down EXCEPT !.pc = "recover", !.plan = BootPlan]
    <2>1. proc' = [proc EXCEPT ![p] = r]
      BY DEF Boot, BootPlan
    <2>2. "recover" \in PC /\ BootPlan \in Starting
      BY DEF PC, Starting, BootPlan
    <2>3. Down \in ProcSet
      BY DownType
    <2>4. r \in ProcSet /\ r.pc = "recover" /\ r.plan = BootPlan
      BY <2>2, <2>3 DEF ProcSet
    <2> QED BY <1>1, <2>1, <2>4, TypeParts
  <1>4. /\ BootPlan \in {"upgrade", "fresh", "cleanup", "existing"}
        /\ BootPlan \in {"upgrade", "cleanup"} => settings.legacy
        /\ BootPlan \in {"fresh", "existing"} => ~settings.legacy
        /\ BootPlan \in {"fresh", "upgrade"} => ~Whole(SettledDisk)
    <2>1. Exists("memory") => settings.legacy
      BY <1>1, MemoryThere DEF SettledInv, Exists
    <2>2. settings.marker => ~settings.legacy
      BY <1>1 DEF SettledInv
    <2>3. ~settings.marker /\ ~Exists("index") => ~Whole(SettledDisk)
      BY <1>1, IndexThere DEF SettledInv
    <2> QED BY <2>1, <2>2, <2>3 DEF BootPlan
  <1>5. /\ DiskOK(active') /\ JournalInv' /\ SettledInv'
        /\ SettledDisk' = SettledDisk \/ (~Whole(SettledDisk) /\ ~Whole(SettledDisk'))
    <2>1. CASE active' = active
      <3>1. UNCHANGED <<active, dirs>> /\ UNCHANGED settings
        BY <1>2, <2>1
      <3>2. JournalInv' /\ SettledInv' /\ SettledDisk' = SettledDisk
        BY <1>1, <3>1, QuietDisk
      <3> QED BY <1>1, <2>1, <3>2, TypeParts
    <2>2. CASE BootPlan = "existing" /\ ~Exists("subagents") /\ active' = Restored
      BY <1>1, <1>2, <1>4, <2>2, RestoreDisk
    <2> QED BY <1>2, <2>1, <2>2
  <1>6. TypeInv'
    BY <1>1, <1>2, <1>3, <1>5, TypeParts, TypeAssembles
  <1>7. PlanInv(p)'
    BY <1>3, <1>4 DEF PlanInv, At, InCommit, AfterMarker, Preparing, Starting
  <1>8. LockInv(p)' /\ DirInv(p)'
    BY <1>1, <1>2, <1>3 DEF LockInv, DirInv, At, Dir, Holding, Working, Preparing, Clean
  <1>9. CommitInv(p)' /\ RollbackInv(p)'
    BY <1>3 DEF CommitInv, RollbackInv, At, Preparing
  <1>10. ViewInv(p)'
    <2>1. ~Whole(SettledDisk) => ~Whole(SettledDisk)'
      <3>1. Whole(SettledDisk)' <=> Whole(SettledDisk')
        BY DEF Whole, ImageOf
      <3> QED BY <1>5, <3>1
    <2> QED BY <1>2, <1>3, <1>4, <2>1 DEF ViewInv, HasImage, At, AfterMarker, Preparing
  <1> QED BY <1>5, <1>6, <1>7, <1>8, <1>9, <1>10 DEF IInv, StepImage

-----------------------------------------------------------------------------
(* prepare: the candidates, their journals and the staged files.           *)

\* A whole mutation of a whole image is whole.
LEMMA MutationsWhole ==
  ASSUME NEW i, Reg!WellFormed(i), NEW j \in Reg!Mutations(i)
  PROVE  Reg!WellFormed(j)
<1>1. /\ i \in Reg!Images /\ i.listed = Reg!Ids(i) /\ i.default \in Reg!Ids(i)
  BY DEF Reg!WellFormed
<1>2. /\ i.profiles \in [Agents -> Profiles \cup {Absent}] /\ i.sub \in Profiles
      /\ i.listed \in SUBSET Agents /\ i.default \in Agents
      /\ Reg!Ids(i) \subseteq Agents
  BY <1>1 DEF Reg!Images, Reg!Ids
<1>3. CASE j \in Reg!Created(i)
  <2>1. PICK a \in Agents \ Reg!Ids(i), v \in Profiles :
          j = [i EXCEPT !.profiles[a] = v, !.listed = @ \cup {a}]
    <3> DEFINE Make(a, v) == [i EXCEPT !.profiles[a] = v, !.listed = @ \cup {a}]
    <3>1. Reg!Created(i) = {Make(a, v) : a \in Agents \ Reg!Ids(i), v \in Profiles}
      BY DEF Reg!Created
    <3> HIDE DEF Make
    <3>2. PICK a \in Agents \ Reg!Ids(i), v \in Profiles : j = Make(a, v)
      BY <1>3, <3>1
    <3> QED BY <3>2 DEF Make
  <2>2. /\ j.profiles = [i.profiles EXCEPT ![a] = v] /\ j.sub = i.sub
        /\ j.listed = i.listed \cup {a} /\ j.default = i.default /\ j \in Reg!Images
    BY <1>1, <1>2, <2>1 DEF Reg!Images
  <2>3. Reg!Ids(j) = Reg!Ids(i) \cup {a}
    BY <1>2, <2>2, AbsentFacts DEF Reg!Ids
  <2> QED BY <1>1, <2>2, <2>3 DEF Reg!WellFormed
<1>4. CASE j \in Reg!Updated(i)
  <2>1. PICK a \in Reg!Ids(i), v \in Profiles : j = [i EXCEPT !.profiles[a] = v]
    BY <1>4 DEF Reg!Updated
  <2>2. /\ j.profiles = [i.profiles EXCEPT ![a] = v] /\ j.sub = i.sub
        /\ j.listed = i.listed /\ j.default = i.default /\ j \in Reg!Images
    BY <1>1, <1>2, <2>1 DEF Reg!Images
  <2>3. Reg!Ids(j) = Reg!Ids(i)
    BY <1>2, <2>2, AbsentFacts DEF Reg!Ids
  <2> QED BY <1>1, <2>2, <2>3 DEF Reg!WellFormed
<1>5. CASE j \in Reg!DefaultSet(i)
  <2>1. PICK a \in Reg!Ids(i) : j = [i EXCEPT !.default = a]
    BY <1>5 DEF Reg!DefaultSet
  <2>2. /\ j.profiles = i.profiles /\ j.sub = i.sub
        /\ j.listed = i.listed /\ j.default = a /\ j \in Reg!Images
    BY <1>1, <1>2, <2>1 DEF Reg!Images
  <2> QED BY <1>1, <2>2 DEF Reg!WellFormed, Reg!Ids
<1>6. CASE j \in Reg!SubagentsSet(i)
  <2>1. PICK v \in Profiles : j = [i EXCEPT !.sub = v]
    BY <1>6 DEF Reg!SubagentsSet
  <2>2. /\ j.profiles = i.profiles /\ j.sub = v
        /\ j.listed = i.listed /\ j.default = i.default /\ j \in Reg!Images
    BY <1>1, <1>2, <2>1 DEF Reg!Images
  <2> QED BY <1>1, <2>2 DEF Reg!WellFormed, Reg!Ids
<1>7. CASE j \in Reg!Deleted(i)
  <2>1. PICK d \in Reg!Ids(i) \X Reg!Ids(i) :
          /\ d[1] # d[2]
          /\ j = [i EXCEPT !.profiles[d[1]] = Absent, !.listed = @ \ {d[1]}, !.default = d[2]]
    BY <1>7 DEF Reg!Deleted
  <2>2. d[1] \in Agents /\ d[2] \in Reg!Ids(i)
    BY <1>2
  <2>3. /\ j.profiles = [i.profiles EXCEPT ![d[1]] = Absent] /\ j.sub = i.sub
        /\ j.listed = i.listed \ {d[1]} /\ j.default = d[2] /\ j \in Reg!Images
    BY <1>1, <1>2, <2>1, <2>2 DEF Reg!Images
  <2>4. Reg!Ids(j) = Reg!Ids(i) \ {d[1]}
    BY <1>2, <2>2, <2>3 DEF Reg!Ids
  <2> QED BY <1>1, <2>1, <2>2, <2>3, <2>4 DEF Reg!WellFormed
<1> QED BY <1>3, <1>4, <1>5, <1>6, <1>7 DEF Reg!Mutations

\* The files of an image.
LEMMA DiskOfFacts ==
  ASSUME NEW i \in Reg!Images
  PROVE  /\ \A a \in Agents : DiskOf(i)[a] = i.profiles[a]
         /\ DiskOf(i)["subagents"] = i.sub /\ DiskOf(i)["index"] = IndexOf(i)
         /\ DiskOf(i)["memory"] = Absent
         /\ DiskOK(DiskOf(i))
         /\ DiskOf(i)["subagents"] # Absent /\ DiskOf(i)["index"] # Absent
<1>1. /\ \A a \in Agents : i.profiles[a] \in Profiles \cup {Absent}
      /\ i.sub \in Profiles /\ i.listed \in SUBSET Agents /\ i.default \in Agents
  BY DEF Reg!Images
<1>2. /\ \A a \in Agents : DiskOf(i)[a] = i.profiles[a]
      /\ DiskOf(i)["subagents"] = i.sub /\ DiskOf(i)["index"] = IndexOf(i)
      /\ DiskOf(i)["memory"] = Absent
      /\ DiskOf(i) = [x \in Paths |-> DiskOf(i)[x]]
  BY PathFacts DEF DiskOf
<1>3. IndexOf(i) \in Index
  BY <1>1 DEF IndexOf, Index
<1>4. \A x \in Paths : DiskOf(i)[x] \in Content
  BY <1>1, <1>2, <1>3, PathFacts DEF Content
<1>5. \A x \in Paths : x # "index" => DiskOf(i)[x] \in Profiles \cup {Absent}
  BY <1>1, <1>2, PathFacts
<1>6. DiskOf(i) \in Files
  BY <1>2, <1>4 DEF Files
<1> QED BY <1>1, <1>2, <1>3, <1>5, <1>6, AbsentFacts DEF DiskOK

StageOf(c) == [x \in Paths |-> IF OpsFor(c)[x] \in {"replace", "create", "index"}
                               THEN DiskOf(c.image)[x] ELSE Absent]

PreparedDir(c) == [phase |-> "incomplete", op |-> OpsFor(c), stage |-> StageOf(c),
                   aside |-> Missing]

LEMMA OpsFacts ==
  ASSUME NEW c \in Candidate
  PROVE  /\ OpsFor(c) \in [Paths -> {"none", "replace", "create", "delete", "index"}]
         /\ OpsFor(c)["index"] = "index"
         /\ OpsFor(c)["subagents"] = IF Exists("subagents") THEN "replace" ELSE "create"
         /\ OpsFor(c)["memory"] = IF c.legacy /\ Exists("memory") THEN "delete" ELSE "none"
         /\ \A a \in Agents :
              OpsFor(c)[a] = IF a \in c.deleted THEN "delete"
                             ELSE IF a \notin c.agents THEN "none"
                             ELSE IF Exists(a) THEN "replace" ELSE "create"
<1>1. c.deleted \subseteq Agents
  BY DEF Candidate
<1>2. /\ OpsFor(c)["index"] = "index"
      /\ OpsFor(c)["subagents"] = IF Exists("subagents") THEN "replace" ELSE "create"
      /\ OpsFor(c)["memory"] = IF c.legacy /\ Exists("memory") THEN "delete" ELSE "none"
  BY <1>1, PathFacts DEF OpsFor
<1>3. ASSUME NEW a \in Agents
      PROVE  OpsFor(c)[a] = IF a \in c.deleted THEN "delete"
                            ELSE IF a \notin c.agents THEN "none"
                            ELSE IF Exists(a) THEN "replace" ELSE "create"
  BY PathFacts DEF OpsFor
<1>4. OpsFor(c) = [x \in Paths |-> OpsFor(c)[x]]
  BY DEF OpsFor
<1>5. \A x \in Paths : OpsFor(c)[x] \in {"none", "replace", "create", "delete", "index"}
  BY <1>2, <1>3, PathFacts
<1> QED BY <1>2, <1>3, <1>4, <1>5

LEMMA PreparedDirFacts ==
  ASSUME NEW c \in Candidate
  PROVE  /\ PreparedDir(c) \in DirSet
         /\ DiskOK(PreparedDir(c).stage) /\ DiskOK(PreparedDir(c).aside)
         /\ PreparedDir(c).phase = "incomplete" /\ PreparedDir(c).op = OpsFor(c)
         /\ \A x \in Paths : PreparedDir(c).aside[x] = Absent
         /\ \A x \in Paths : PreparedDir(c).stage[x] =
              IF OpsFor(c)[x] \in {"replace", "create", "index"}
              THEN DiskOf(c.image)[x] ELSE Absent
<1>1. DiskOK(DiskOf(c.image))
  BY DiskOfFacts DEF Candidate
<1>2. \A x \in Paths : StageOf(c)[x] = IF OpsFor(c)[x] \in {"replace", "create", "index"}
                                       THEN DiskOf(c.image)[x] ELSE Absent
  BY DEF StageOf
<1>3. StageOf(c) = [x \in Paths |-> StageOf(c)[x]]
  BY DEF StageOf
<1>4. DiskOK(StageOf(c))
  <2>1. \A x \in Paths : StageOf(c)[x] \in Content
    BY <1>1, <1>2 DEF DiskOK, Files, Content
  <2>2. StageOf(c)["index"] \in Index \cup {Absent}
    BY <1>1, <1>2, PathFacts DEF DiskOK
  <2>3. \A x \in Paths : x # "index" => StageOf(c)[x] \in Profiles \cup {Absent}
    BY <1>1, <1>2 DEF DiskOK
  <2> QED BY <1>3, <2>1, <2>2, <2>3 DEF DiskOK, Files
<1>5. DiskOK(Missing) /\ \A x \in Paths : Missing[x] = Absent
  BY PathFacts DEF DiskOK, Missing, Files, Content
<1>6. PreparedDir(c) = [phase |-> "incomplete", op |-> OpsFor(c), stage |-> StageOf(c),
                        aside |-> Missing]
  BY DEF PreparedDir
<1>7. PreparedDir(c) \in DirSet
  BY <1>4, <1>5, <1>6, OpsFacts DEF DirSet, DiskOK
<1> QED BY <1>2, <1>4, <1>5, <1>6, <1>7

\* What the candidates of registry.rs and bootstrap.rs have in common.
Sound(p, c) ==
  /\ Reg!WellFormed(c.image)
  /\ \A a \in Agents \ (c.agents \cup c.deleted) : c.image.profiles[a] = active[a]
  /\ \A a \in c.agents \ c.deleted : c.image.profiles[a] # Absent
  /\ \A a \in c.deleted : Exists(a) /\ c.image.profiles[a] = Absent
  /\ settings.legacy => c.legacy /\ Exists("memory")
  /\ Whole(SettledDisk) => /\ settings.marker /\ proc[p].view = ImageOf(SettledDisk)
                           /\ c.image \in Successors(proc[p].view)

Queued(p, t, c) == proc' = [proc EXCEPT ![p].pc = "journal", ![p].tx = t, ![p].cand = c]

LEMMA QueuedFacts ==
  ASSUME NEW p \in Procs, proc \in [Procs -> ProcSet], NEW t \in 0..MaxTx, NEW c \in Candidate,
         Queued(p, t, c)
  PROVE  /\ proc' \in [Procs -> ProcSet]
         /\ proc'[p].pc = "journal" /\ proc'[p].tx = t /\ proc'[p].cand = c
         /\ proc'[p].plan = proc[p].plan /\ proc'[p].view = proc[p].view
<1> DEFINE r == [proc[p] EXCEPT !.pc = "journal", !.tx = t, !.cand = c]
<1>1. proc' = [proc EXCEPT ![p] = r]
  BY DEF Queued
<1>2. proc[p] \in ProcSet
  OBVIOUS
<1>3. r \in ProcSet
  BY <1>2 DEF ProcSet, PC
<1>4. proc'[p] = r /\ proc' \in [Procs -> ProcSet]
  BY <1>1, <1>3
<1> QED BY <1>2, <1>4 DEF ProcSet

LEMMA PrepareStep ==
  ASSUME NEW p, Procs = {p}, IInv(p), NEW c \in Candidate, Prepare(p, c), Sound(p, c),
         proc[p].pc \in {"up", "defaults", "append"}
  PROVE  IInv(p)' /\ StepImage
  <1>1. /\ TypeInv /\ PlanInv(p) /\ LockInv(p) /\ DirInv(p)
        /\ JournalInv /\ CommitInv(p) /\ RollbackInv(p) /\ SettledInv /\ ViewInv(p)
    BY DEF IInv
  <1>2. /\ nextTx \in Tx /\ lock' = p /\ nextTx' = nextTx + 1
        /\ dirs' = [dirs EXCEPT ![nextTx] = PreparedDir(c)]
        /\ used' = used \cup Reg!Ids(c.image)
        /\ UNCHANGED <<active, settings, faults>>
    BY DEF Prepare, PreparedDir, StageOf
  <1>3. /\ proc' \in [Procs -> ProcSet]
        /\ proc'[p].pc = "journal" /\ proc'[p].tx = nextTx /\ proc'[p].cand = c
        /\ proc'[p].plan = proc[p].plan /\ proc'[p].view = proc[p].view
    <2>1. Queued(p, nextTx, c) /\ nextTx \in 0..MaxTx
      BY <1>2, RegistryAssumption DEF Prepare, Queued, Tx
    <2> QED BY <1>1, <2>1, QueuedFacts, TypeParts
  <1>4. \A t \in Tx : dirs[t].phase = "none"
    BY <1>1 DEF DirInv, Clean
  <1>5. /\ dirs' \in [Tx -> DirSet] /\ dirs'[nextTx] = PreparedDir(c)
        /\ \A t \in Tx : t # nextTx => dirs'[t] = dirs[t]
    BY <1>1, <1>2, PreparedDirFacts, TypeParts
  <1>6. /\ SettledDisk = active /\ SettledDisk' = active
        /\ \A t \in Tx : dirs'[t].phase \in {"none", "incomplete"}
    <2>1. \A t \in Tx : dirs'[t].phase \in {"none", "incomplete"}
      BY <1>4, <1>5, PreparedDirFacts
    <2> QED BY <1>2, <1>4, <2>1, SettledNoneNext, CleanDisk DEF Journal
  <1>7. OpsOK(PreparedDir(c))
    <2>1. PreparedDir(c).op = OpsFor(c)
      BY PreparedDirFacts
    <2>2. \A a \in Agents : OpsFor(c)[a] \in {"none", "replace", "create", "delete"}
      BY OpsFacts
    <2>3. \A x \in Paths : PreparedDir(c).stage[x] # Absent =>
             OpsFor(c)[x] \in {"replace", "create", "index"}
      BY PreparedDirFacts
    <2> QED BY <2>1, <2>2, <2>3, OpsFacts DEF OpsOK
  <1>8. JournalInv'
    <2> SUFFICES ASSUME NEW t \in Tx
                 PROVE  /\ dirs'[t].phase # "none" => OpsOK(dirs'[t])
                        /\ dirs'[t].phase \notin {"prepared", "committed"}
      BY DEF JournalInv, OpsOK
    <2> QED BY <1>4, <1>5, <1>6, <1>7
  <1>9. SettledInv'
    <2>1. Whole(SettledDisk)' <=> Whole(SettledDisk)
      BY <1>6 DEF Whole, ImageOf
    <2>2. \A t \in Tx : dirs'[t].phase # "none" /\ settings.legacy => dirs'[t].op["memory"] = "delete"
      BY <1>4, <1>5, PreparedDirFacts, OpsFacts DEF Sound
    <2> QED BY <1>1, <1>2, <1>6, <2>1, <2>2 DEF SettledInv
  <1>10. TypeInv'
    <2>1. nextTx' \in 1..MaxTx + 1
      BY <1>2, RegistryAssumption DEF Tx
    <2>2. used' \subseteq Agents
      BY <1>1, <1>2, TypeParts DEF Reg!Ids
    <2>3. \A t \in Tx : DiskOK(dirs'[t].stage) /\ DiskOK(dirs'[t].aside)
      BY <1>1, <1>5, PreparedDirFacts, TypeParts
    <2> QED BY <1>1, <1>2, <1>3, <1>5, <2>1, <2>2, <2>3, TypeParts, TypeAssembles
  <1>11. PlanInv(p)'
    BY <1>1, <1>3 DEF PlanInv, At, InCommit, AfterMarker, Preparing
  <1>12. LockInv(p)' /\ DirInv(p)'
    <2>1. Dir(p)' = PreparedDir(c) /\ Dir(p)'.phase = "incomplete"
      BY <1>3, <1>5, PreparedDirFacts DEF Dir
    <2>2. \A t, u \in Tx : dirs'[t].phase # "none" /\ dirs'[u].phase # "none" => t = u
      BY <1>4, <1>5
    <2> QED BY <1>2, <1>3, <2>1, <2>2
            DEF LockInv, DirInv, At, Holding, Working, Preparing, Clean
  <1>13. CommitInv(p)' /\ RollbackInv(p)'
    <2>1. Dir(p)' = PreparedDir(c)
      BY <1>3, <1>5 DEF Dir
    <2>2. \A x \in Paths : /\ Target(p, x)' = DiskOf(c.image)[x]
                           /\ Exists(x)' <=> Exists(x)
      BY <1>2, <1>3 DEF Target, Exists
    <2>3. PreparedDir(c).stage["index"] = DiskOf(c.image)["index"]
      BY PreparedDirFacts, OpsFacts, PathFacts
    <2>4. ASSUME NEW a \in Agents
          PROVE  /\ PreparedDir(c).op[a] = "none" => active[a] = c.image.profiles[a]
                 /\ PreparedDir(c).op[a] = "delete" => c.image.profiles[a] = Absent
                 /\ PreparedDir(c).op[a] \in {"replace", "create"} => c.image.profiles[a] # Absent
      BY PreparedDirFacts, OpsFacts DEF Sound
    <2>5. ASSUME NEW x \in Paths
          PROVE  /\ PreparedDir(c).aside[x] = Absent
                 /\ PreparedDir(c).op[x] \in {"replace", "delete"} => Exists(x)
                 /\ PreparedDir(c).op[x] = "create" => ~Exists(x)
                 /\ PreparedDir(c).op[x] \in {"replace", "create"} =>
                      PreparedDir(c).stage[x] = DiskOf(c.image)[x]
      <3>1. /\ PreparedDir(c).aside[x] = Absent
            /\ PreparedDir(c).op[x] \in {"replace", "create"} =>
                 PreparedDir(c).stage[x] = DiskOf(c.image)[x]
        BY PreparedDirFacts
      <3>2. /\ OpsFor(c)[x] \in {"replace", "delete"} => Exists(x)
            /\ OpsFor(c)[x] = "create" => ~Exists(x)
        <4>1. CASE x \in Agents
          BY <4>1, OpsFacts DEF Sound
        <4>2. CASE x \in {"index", "subagents", "memory"}
          BY <4>2, OpsFacts
        <4> QED BY <4>1, <4>2, PathFacts
      <3> QED BY <3>1, <3>2, PreparedDirFacts
    <2>6. /\ proc'[p].cand \in Candidate /\ Reg!WellFormed(proc'[p].cand.image)
          /\ Dir(p)'.stage["index"] = Target(p, "index")'
          /\ \A a \in Agents :
               /\ Dir(p)'.op[a] = "none" => active'[a] = Target(p, a)'
               /\ Dir(p)'.op[a] = "delete" => Target(p, a)' = Absent
               /\ Dir(p)'.op[a] \in {"replace", "create"} => Target(p, a)' # Absent
      <3>1. \A a \in Agents : Target(p, a)' = c.image.profiles[a] /\ active'[a] = active[a]
        BY <1>2, <2>2, DiskOfFacts, PathFacts DEF Candidate
      <3> QED BY <1>3, <2>1, <2>2, <2>3, <2>4, <3>1, PathFacts DEF Sound
    <2>7. \A x \in Paths :
            /\ Dir(p)'.aside[x] = Absent
            /\ Dir(p)'.op[x] \in {"replace", "delete"} => Exists(x)'
            /\ Dir(p)'.op[x] = "create" => ~Exists(x)'
            /\ Dir(p)'.op[x] \in {"replace", "create"} => StagedAt(p, x)'
      BY <2>1, <2>2, <2>5 DEF StagedAt
    <2> QED BY <1>3, <2>6, <2>7 DEF CommitInv, RollbackInv, At
  <1>14. ViewInv(p)'
    <2>1. Whole(SettledDisk)' <=> Whole(SettledDisk)
      BY <1>6 DEF Whole, ImageOf
    <2>2. Whole(SettledDisk) => /\ settings.marker /\ proc[p].view = ImageOf(SettledDisk)
                                /\ c.image \in Successors(proc[p].view)
      BY DEF Sound
    <2>3. /\ proc[p].plan = "upgrade" => settings.legacy
          /\ proc[p].plan \in {"fresh", "existing", "serve"} => ~settings.legacy
          /\ proc[p].plan = "serve" => settings.marker
          /\ proc[p].plan \in {"fresh", "upgrade", "existing", "serve"}
          /\ proc[p].plan \in {"fresh", "upgrade"} => ~Whole(SettledDisk)
          /\ proc[p].plan = "serve" => proc[p].view = ImageOf(SettledDisk)
      BY <1>1 DEF ViewInv, PlanInv, At, AfterMarker, HasImage
    <2> QED BY <1>2, <1>3, <1>6, <2>1, <2>2, <2>3
            DEF ViewInv, HasImage, At, AfterMarker, Preparing
  <1> QED BY <1>6, <1>8, <1>9, <1>10, <1>11, <1>12, <1>13, <1>14 DEF IInv, StepImage

LEMMA MutateStep ==
  ASSUME NEW p, Procs = {p}, IInv(p), Mutate(p)
  PROVE  IInv(p)' /\ StepImage
  <1>1. /\ TypeInv /\ PlanInv(p) /\ LockInv(p) /\ DirInv(p)
        /\ JournalInv /\ CommitInv(p) /\ RollbackInv(p) /\ SettledInv /\ ViewInv(p)
    BY DEF IInv
  <1>2. /\ proc[p].pc = "up" /\ proc[p].plan = "serve" /\ ~settings.legacy /\ settings.marker
        /\ proc[p].view = ImageOf(SettledDisk) /\ Whole(SettledDisk)
        /\ \A t \in Tx : dirs[t].phase = "none"
    BY <1>1 DEF Mutate, At, PlanInv, ViewInv, HasImage, AfterMarker, SettledInv, DirInv, Clean
  <1>3. proc[p].view = ImageOf(active) /\ Reg!WellFormed(proc[p].view)
    BY <1>2, CleanDisk DEF Whole
  <1>4. PICK i \in Reg!Mutations(proc[p].view) :
          Prepare(p, [image |-> i, agents |-> Reg!Ids(i),
                      deleted |-> Reg!Ids(proc[p].view) \ Reg!Ids(i), legacy |-> FALSE])
    BY DEF Mutate
  <1> DEFINE c == [image |-> i, agents |-> Reg!Ids(i),
                   deleted |-> Reg!Ids(proc[p].view) \ Reg!Ids(i), legacy |-> FALSE]
  <1>5. Reg!WellFormed(i) /\ i \in Reg!Images
    BY <1>3, MutationsWhole DEF Reg!WellFormed
  <1>6. /\ c.image = i /\ c.agents = Reg!Ids(i)
        /\ c.deleted = Reg!Ids(proc[p].view) \ Reg!Ids(i) /\ c \in Candidate
    BY <1>5 DEF Candidate, Reg!Ids
  <1>7. \A a \in Agents : /\ a \in Reg!Ids(proc[p].view) <=> Exists(a)
                          /\ a \in Reg!Ids(i) <=> i.profiles[a] # Absent
    <2>1. Reg!Ids(proc[p].view) = {a \in Agents : active[a] # Absent}
      BY <1>3, ImageFields
    <2> QED BY <2>1 DEF Exists, Reg!Ids
  <1>8. Prepare(p, c)
    BY <1>4
  <1> HIDE DEF c
  <1>9. c.deleted \subseteq Agents
    BY <1>6 DEF Candidate
  <1>10. Sound(p, c)
    <2>1. \A a \in Agents \ (c.agents \cup c.deleted) : c.image.profiles[a] = active[a]
      BY <1>6, <1>7 DEF Exists
    <2>2. /\ \A a \in c.agents \ c.deleted : c.image.profiles[a] # Absent
          /\ \A a \in c.deleted : Exists(a) /\ c.image.profiles[a] = Absent
      BY <1>5, <1>6, <1>7, <1>9 DEF Reg!Ids
    <2>3. c.image \in Successors(proc[p].view)
      BY <1>4, <1>6 DEF Successors
    <2> QED BY <1>2, <1>5, <1>6, <2>1, <2>2, <2>3 DEF Sound
  <1> QED BY <1>2, <1>6, <1>8, <1>10, PrepareStep

LEMMA DefaultsStep ==
  ASSUME NEW p, Procs = {p}, IInv(p), Defaults(p)
  PROVE  IInv(p)' /\ StepImage
  <1>1. /\ TypeInv /\ PlanInv(p) /\ LockInv(p) /\ DirInv(p)
        /\ JournalInv /\ CommitInv(p) /\ RollbackInv(p) /\ SettledInv /\ ViewInv(p)
    BY DEF IInv
  <1>2. /\ proc[p].pc = "defaults" /\ proc[p].plan \in {"fresh", "upgrade"}
        /\ ~Whole(SettledDisk)
        /\ proc[p].plan = "fresh" => ~settings.legacy
        /\ \A t \in Tx : dirs[t].phase = "none"
    BY <1>1 DEF Defaults, At, PlanInv, ViewInv, AfterMarker, DirInv, Clean
  <1>3. SettledDisk = active
    BY <1>2, CleanDisk
  <1>4. /\ \A a \in Agents : ~Exists(a)
        /\ settings.legacy => Exists("memory")
    BY <1>1, <1>2, <1>3 DEF SettledInv, Exists
  <1> DEFINE prof(a) == [b \in Agents |-> IF b = a THEN Default ELSE Absent]
             im(a) == [profiles |-> prof(a), sub |-> Default, listed |-> {a}, default |-> a]
             del == IF proc[p].plan = "upgrade" THEN {a \in Agents : Exists(a)} ELSE {}
             c(a) == [image |-> im(a), agents |-> {a}, deleted |-> del, legacy |-> proc[p].plan = "upgrade"]
  <1>5. PICK a \in Agents : Prepare(p, c(a))
    BY RegistryAssumption DEF Defaults
  <1>6. del = {}
    BY <1>4
  <1>7. prof(a) \in [Agents -> Profiles \cup {Absent}] /\ prof(a)[a] = Default
        /\ \A b \in Agents : b # a => prof(a)[b] = Absent
    BY RegistryAssumption
  <1> HIDE DEF prof, del
  <1>8. /\ im(a) \in Reg!Images /\ im(a).profiles = prof(a)
        /\ im(a).listed = {a} /\ im(a).default = a
    BY <1>7, RegistryAssumption DEF Reg!Images
  <1> HIDE DEF im
  <1>9. Reg!Ids(im(a)) = {a} /\ Reg!WellFormed(im(a))
    BY <1>7, <1>8, RegistryAssumption, AbsentFacts DEF Reg!Ids, Reg!WellFormed
  <1>10. /\ c(a) \in Candidate /\ c(a).image = im(a) /\ c(a).agents = {a}
         /\ c(a).deleted = {} /\ c(a).legacy = (proc[p].plan = "upgrade")
    BY <1>6, <1>8 DEF Candidate
  <1> HIDE DEF c
  <1>11. Sound(p, c(a))
    <2>1. \A b \in Agents : b # a => im(a).profiles[b] = active[b]
      BY <1>4, <1>7, <1>8 DEF Exists
    <2>2. im(a).profiles[a] # Absent
      BY <1>7, <1>8, RegistryAssumption, AbsentFacts
    <2> QED BY <1>2, <1>4, <1>9, <1>10, <2>1, <2>2 DEF Sound
  <1> QED BY <1>2, <1>5, <1>10, <1>11, PrepareStep

\* The image with the default agent appended to a registry that is whole, or that
\* has no agents.
LEMMA AppendedImage ==
  ASSUME NEW v \in Reg!Images, NEW a \in Agents \ Reg!Ids(v), NEW i,
         i = [v EXCEPT !.profiles[a] = Default, !.listed = Reg!Ids(v) \cup {a}, !.default = a]
  PROVE  /\ Reg!WellFormed(i) /\ i \in Reg!Images
         /\ i.profiles = [v.profiles EXCEPT ![a] = Default]
         /\ Reg!WellFormed(v) => i \in Reg!Appended(v)
<1>1. /\ v.profiles \in [Agents -> Profiles \cup {Absent}] /\ v.sub \in Profiles
      /\ v.listed \in SUBSET Agents /\ v.default \in Agents /\ Reg!Ids(v) \subseteq Agents
      /\ Default \in Profiles
  BY RegistryAssumption DEF Reg!Images, Reg!Ids
<1>2. /\ i.profiles = [v.profiles EXCEPT ![a] = Default] /\ i.sub = v.sub
      /\ i.listed = Reg!Ids(v) \cup {a} /\ i.default = a /\ i \in Reg!Images
  BY <1>1 DEF Reg!Images
<1>3. Reg!Ids(i) = Reg!Ids(v) \cup {a}
  BY <1>1, <1>2, AbsentFacts DEF Reg!Ids
<1>4. Reg!WellFormed(i)
  BY <1>2, <1>3 DEF Reg!WellFormed
<1>5. ASSUME Reg!WellFormed(v) PROVE i \in Reg!Appended(v)
  <2>1. v.listed = Reg!Ids(v)
    BY <1>5 DEF Reg!WellFormed
  <2> DEFINE Make(b, w) == [v EXCEPT !.profiles[b] = w, !.listed = @ \cup {b}, !.default = b]
  <2>2. i = Make(a, Default)
    BY <2>1
  <2>3. Reg!Appended(v) = {Make(b, w) : b \in Agents \ Reg!Ids(v), w \in Profiles}
    BY DEF Reg!Appended
  <2> HIDE DEF Make
  <2> QED BY <1>1, <2>2, <2>3
<1> QED BY <1>2, <1>4, <1>5

LEMMA AppendDefaultStep ==
  ASSUME NEW p, Procs = {p}, IInv(p), AppendDefault(p), NoEarlyAppend
  PROVE  IInv(p)' /\ StepImage
  <1>1. /\ TypeInv /\ PlanInv(p) /\ LockInv(p) /\ DirInv(p)
        /\ JournalInv /\ CommitInv(p) /\ RollbackInv(p) /\ SettledInv /\ ViewInv(p)
    BY DEF IInv
  <1>2. /\ proc[p].pc = "append" /\ proc[p].plan = "existing" /\ ~settings.legacy
        /\ proc[p].view \in Reg!Images
        /\ ~Whole(SettledDisk) => Reg!Ids(proc[p].view) = {}
        /\ Whole(SettledDisk) => proc[p].view = ImageOf(SettledDisk)
        /\ \A t \in Tx : dirs[t].phase = "none"
    BY <1>1 DEF AppendDefault, At, PlanInv, ViewInv, HasImage, AfterMarker, DirInv, Clean
  <1>3. SettledDisk = active
    BY <1>2, CleanDisk
  <1> DEFINE v == proc[p].view
             im(a) == [v EXCEPT !.profiles[a] = Default,
                                !.listed = Reg!Ids(v) \cup {a}, !.default = a]
             c(a) == [image |-> im(a), agents |-> {a}, deleted |-> {}, legacy |-> FALSE]
  <1>4. PICK a \in Agents \ Reg!Ids(v) : Prepare(p, c(a))
    BY DEF AppendDefault
  <1>5. \A b \in Agents : v.profiles[b] = active[b]
    <2>1. CASE Whole(SettledDisk)
      <3>1. v = ImageOf(active)
        BY <1>2, <1>3, <2>1
      <3> HIDE DEF v
      <3> QED BY <3>1, ImageFields
    <2>2. CASE ~Whole(SettledDisk)
      BY <1>1, <1>2, <1>3, <2>2 DEF SettledInv, Reg!Ids
    <2> QED BY <2>1, <2>2
  <1>6. Whole(SettledDisk) => settings.marker /\ Reg!WellFormed(v)
    <2> SUFFICES ASSUME Whole(SettledDisk) PROVE settings.marker /\ Reg!WellFormed(v)
      OBVIOUS
    <2>1. Reg!WellFormed(v) /\ Reg!Ids(v) # {}
      BY <1>2 DEF Whole, Reg!WellFormed
    <2> QED BY <2>1 DEF NoEarlyAppend
  <1> HIDE DEF v
  <1>7. v \in Reg!Images
    BY <1>2 DEF v
  <1>8. /\ Reg!WellFormed(im(a)) /\ im(a) \in Reg!Images
        /\ im(a).profiles = [v.profiles EXCEPT ![a] = Default]
        /\ Reg!WellFormed(v) => im(a) \in Reg!Appended(v)
    BY <1>7, AppendedImage
  <1> HIDE DEF im
  <1>9. /\ c(a) \in Candidate /\ c(a).image = im(a) /\ c(a).agents = {a}
        /\ c(a).deleted = {} /\ c(a).legacy = FALSE
    BY <1>8 DEF Candidate
  <1> HIDE DEF c
  <1>10. Sound(p, c(a))
    <2>1. v.profiles \in [Agents -> Profiles \cup {Absent}]
      BY <1>7 DEF Reg!Images
    <2>2. /\ \A b \in Agents : b # a => im(a).profiles[b] = active[b]
          /\ im(a).profiles[a] # Absent
      BY <1>5, <1>8, <2>1, RegistryAssumption, AbsentFacts
    <2>3. Whole(SettledDisk) => /\ settings.marker /\ v = ImageOf(SettledDisk)
                                /\ im(a) \in Successors(v)
      BY <1>2, <1>6, <1>8 DEF Successors, v
    <2> QED BY <1>2, <1>8, <1>9, <2>2, <2>3 DEF Sound, v
  <1> QED BY <1>2, <1>4, <1>9, <1>10, PrepareStep DEF v

-----------------------------------------------------------------------------
(* Steps on the directory of the transaction.                              *)

FitsAt(x, v) == IF x = "index" THEN v \in Index \cup {Absent} ELSE v \in Profiles \cup {Absent}

LEMMA FitsFacts ==
  /\ \A f : DiskOK(f) => \A x \in Paths : FitsAt(x, f[x])
  /\ \A x \in Paths : FitsAt(x, Absent)
  BY DEF DiskOK, FitsAt

\* One path of a disk is written.
LEMMA DiskPut ==
  ASSUME NEW f, DiskOK(f), NEW x \in Paths, NEW v, FitsAt(x, v)
  PROVE  /\ DiskOK([f EXCEPT ![x] = v])
         /\ \A y \in Paths : [f EXCEPT ![x] = v][y] = IF y = x THEN v ELSE f[y]
<1> DEFINE g == [f EXCEPT ![x] = v]
<1>1. f \in [Paths -> Content]
  BY DEF DiskOK, Files
<1>2. v \in Content
  BY DEF FitsAt, Content
<1>3. g \in [Paths -> Content] /\ \A y \in Paths : g[y] = IF y = x THEN v ELSE f[y]
  BY <1>1, <1>2
<1> HIDE DEF g
<1>4. DiskOK(g)
  BY <1>3, PathFacts DEF DiskOK, Files, FitsAt
<1> QED BY <1>3, <1>4 DEF g

PutActive(x, v)   == active' = [active EXCEPT ![x] = v]
PutAside(t, x, v) == dirs' = [dirs EXCEPT ![t].aside[x] = v]
PutStage(t, x, v) == dirs' = [dirs EXCEPT ![t].stage[x] = v]
PutPhase(t, v)    == dirs' = [dirs EXCEPT ![t].phase = v]

LEMMA PutActiveFacts ==
  ASSUME DiskOK(active), NEW x \in Paths, NEW v, FitsAt(x, v), PutActive(x, v)
  PROVE  /\ DiskOK(active')
         /\ \A y \in Paths : active'[y] = IF y = x THEN v ELSE active[y]
         /\ \A y \in Paths : Exists(y)' <=> IF y = x THEN v # Absent ELSE Exists(y)
<1> DEFINE g == [active EXCEPT ![x] = v]
<1>a. DiskOK(g) /\ \A y \in Paths : g[y] = IF y = x THEN v ELSE active[y]
  BY DiskPut
<1>b. active' = g
  BY DEF PutActive
<1> HIDE DEF g
<1>1. DiskOK(active') /\ \A y \in Paths : active'[y] = IF y = x THEN v ELSE active[y]
  BY <1>a, <1>b
<1> QED BY <1>1 DEF Exists

\* The directories, of which t is the one that is there.
Single(t) == \A u \in Tx : dirs[u].phase # "none" => u = t

DirsOK == /\ dirs \in [Tx -> DirSet]
          /\ \A t \in Tx : DiskOK(dirs[t].stage) /\ DiskOK(dirs[t].aside)

LEMMA PutAsideFacts ==
  ASSUME DirsOK, NEW t \in Tx, NEW x \in Paths, NEW v, FitsAt(x, v), PutAside(t, x, v)
  PROVE  /\ DirsOK'
         /\ \A u \in Tx : dirs'[u].phase = dirs[u].phase
         /\ Single(t) => Single(t)'
         /\ dirs'[t].op = dirs[t].op /\ dirs'[t].stage = dirs[t].stage
         /\ \A y \in Paths : dirs'[t].aside[y] = IF y = x THEN v ELSE dirs[t].aside[y]
<1>1. dirs[t] \in DirSet /\ dirs \in [Tx -> DirSet]
  BY DEF DirsOK
<1> DEFINE a == [dirs[t].aside EXCEPT ![x] = v]
           d == [dirs[t] EXCEPT !.aside = a]
<1>2. dirs' = [dirs EXCEPT ![t] = d]
  BY DEF PutAside
<1>3. DiskOK(a) /\ \A y \in Paths : a[y] = IF y = x THEN v ELSE dirs[t].aside[y]
  BY DiskPut DEF DirsOK
<1> HIDE DEF a
<1>4. d \in DirSet /\ d.phase = dirs[t].phase /\ d.op = dirs[t].op /\ d.stage = dirs[t].stage
      /\ d.aside = a
  BY <1>1, <1>3 DEF DirSet, DiskOK
<1> HIDE DEF d
<1>5. dirs' \in [Tx -> DirSet] /\ \A u \in Tx : dirs'[u] = IF u = t THEN d ELSE dirs[u]
  BY <1>1, <1>2, <1>4
<1>6. DirsOK'
  <2>1. \A u \in Tx : DiskOK(dirs'[u].stage) /\ DiskOK(dirs'[u].aside)
    BY <1>3, <1>4, <1>5 DEF DirsOK
  <2> QED BY <1>5, <2>1 DEF DirsOK, DiskOK
<1> QED BY <1>3, <1>4, <1>5, <1>6 DEF Single

LEMMA PutStageFacts ==
  ASSUME DirsOK, NEW t \in Tx, NEW x \in Paths, NEW v, FitsAt(x, v), PutStage(t, x, v)
  PROVE  /\ DirsOK'
         /\ \A u \in Tx : dirs'[u].phase = dirs[u].phase
         /\ Single(t) => Single(t)'
         /\ dirs'[t].op = dirs[t].op /\ dirs'[t].aside = dirs[t].aside
         /\ \A y \in Paths : dirs'[t].stage[y] = IF y = x THEN v ELSE dirs[t].stage[y]
<1>1. dirs[t] \in DirSet /\ dirs \in [Tx -> DirSet]
  BY DEF DirsOK
<1> DEFINE a == [dirs[t].stage EXCEPT ![x] = v]
           d == [dirs[t] EXCEPT !.stage = a]
<1>2. dirs' = [dirs EXCEPT ![t] = d]
  BY DEF PutStage
<1>3. DiskOK(a) /\ \A y \in Paths : a[y] = IF y = x THEN v ELSE dirs[t].stage[y]
  BY DiskPut DEF DirsOK
<1> HIDE DEF a
<1>4. d \in DirSet /\ d.phase = dirs[t].phase /\ d.op = dirs[t].op /\ d.aside = dirs[t].aside
      /\ d.stage = a
  BY <1>1, <1>3 DEF DirSet, DiskOK
<1> HIDE DEF d
<1>5. dirs' \in [Tx -> DirSet] /\ \A u \in Tx : dirs'[u] = IF u = t THEN d ELSE dirs[u]
  BY <1>1, <1>2, <1>4
<1>6. DirsOK'
  <2>1. \A u \in Tx : DiskOK(dirs'[u].stage) /\ DiskOK(dirs'[u].aside)
    BY <1>3, <1>4, <1>5 DEF DirsOK
  <2> QED BY <1>5, <2>1 DEF DirsOK, DiskOK
<1> QED BY <1>3, <1>4, <1>5, <1>6 DEF Single

LEMMA PutPhaseFacts ==
  ASSUME DirsOK, NEW t \in Tx, NEW v \in {"none", "incomplete", "prepared", "committed"},
         PutPhase(t, v)
  PROVE  /\ DirsOK'
         /\ \A u \in Tx : u # t => dirs'[u] = dirs[u]
         /\ Single(t) => Single(t)'
         /\ dirs'[t].phase = v /\ dirs'[t].op = dirs[t].op
         /\ dirs'[t].stage = dirs[t].stage /\ dirs'[t].aside = dirs[t].aside
<1>1. dirs[t] \in DirSet /\ dirs \in [Tx -> DirSet]
  BY DEF DirsOK
<1> DEFINE d == [dirs[t] EXCEPT !.phase = v]
<1>2. dirs' = [dirs EXCEPT ![t] = d]
  BY DEF PutPhase
<1>4. d \in DirSet /\ d.phase = v /\ d.op = dirs[t].op /\ d.aside = dirs[t].aside
      /\ d.stage = dirs[t].stage
  BY <1>1 DEF DirSet
<1> HIDE DEF d
<1>5. dirs' \in [Tx -> DirSet] /\ \A u \in Tx : dirs'[u] = IF u = t THEN d ELSE dirs[u]
  BY <1>1, <1>2, <1>4
<1>6. DirsOK'
  <2>1. \A u \in Tx : DiskOK(dirs'[u].stage) /\ DiskOK(dirs'[u].aside)
    BY <1>4, <1>5 DEF DirsOK
  <2> QED BY <1>5, <2>1 DEF DirsOK, DiskOK
<1> QED BY <1>4, <1>5, <1>6 DEF Single

\* What a process at work knows of its directory.
LEMMA WorkingDir ==
  ASSUME NEW p, TypeInv, DirInv(p), JournalInv, proc[p].pc \in Working
  PROVE  /\ DirsOK /\ proc[p].tx \in Tx /\ Dir(p) = dirs[proc[p].tx]
         /\ Single(proc[p].tx) /\ Dir(p).phase # "none" /\ Dir(p) \in DirSet
         /\ DiskOK(Dir(p).stage) /\ DiskOK(Dir(p).aside)
         /\ OpsOK(Dir(p))
         /\ Dir(p).phase = "prepared" => PreparedOK(Dir(p))
         /\ Dir(p).phase = "committed" => CommittedOK(Dir(p))
  BY TypeParts DEF DirInv, Dir, DirsOK, Single, JournalInv

\* The journal of the one directory is as it should be.
LEMMA OneJournal ==
  ASSUME NEW t \in Tx, Single(t)', OpsOK(dirs[t])',
         dirs'[t].phase = "prepared" => PreparedOK(dirs[t])',
         dirs'[t].phase = "committed" => CommittedOK(dirs[t])'
  PROVE  JournalInv'
  BY DEF JournalInv, Single

\* Same ops, and nothing staged that was not: the journal stays legible.
LEMMA OpsKept ==
  ASSUME NEW t, OpsOK(dirs[t]), dirs'[t].op = dirs[t].op,
         \A x \in Paths : dirs'[t].stage[x] # Absent => dirs[t].stage[x] # Absent
  PROVE  OpsOK(dirs[t])'
  BY DEF OpsOK

\* The disk recovery would leave is compared path by path.
LEMMA SettledSame ==
  ASSUME NEW t \in Tx, Journal(t), Journal(t)', Single(t), Single(t)',
         \A x \in Paths : Settled(dirs[t])'[x] = Settled(dirs[t])[x]
  PROVE  SettledDisk' = SettledDisk
<1>1. SettledDisk = Settled(dirs[t]) /\ SettledDisk' = Settled(dirs[t])'
  BY SettledOne, SettledOneNext DEF Single
<1>2. /\ Settled(dirs[t])' = [x \in Paths |-> Settled(dirs[t])'[x]]
      /\ Settled(dirs[t]) = [x \in Paths |-> Settled(dirs[t])[x]]
  BY DEF Settled
<1> QED BY <1>1, <1>2

\* A prepared journal, path by path.
LEMMA SettledPrepared ==
  ASSUME NEW d, d.phase = "prepared", PreparedOK(d), NEW x \in Paths
  PROVE  Settled(d)[x] = IF d.aside[x] # Absent THEN d.aside[x]
                         ELSE IF d.op[x] = "create" THEN Absent ELSE active[x]
<1>1. d.aside[x] # Absent => d.op[x] \in {"replace", "delete", "index"}
  BY DEF PreparedOK
<1> QED BY <1>1 DEF Settled

LEMMA SettledPreparedNext ==
  ASSUME NEW t, dirs'[t].phase = "prepared", PreparedOK(dirs[t])', NEW x \in Paths
  PROVE  Settled(dirs[t])'[x] = IF dirs'[t].aside[x] # Absent THEN dirs'[t].aside[x]
                                ELSE IF dirs'[t].op[x] = "create" THEN Absent ELSE active'[x]
<1>1. dirs'[t].aside[x] # Absent => dirs'[t].op[x] \in {"replace", "delete", "index"}
  BY DEF PreparedOK
<1> QED BY <1>1 DEF Settled

-----------------------------------------------------------------------------
(* commit, up to the marker.                                               *)

\* A step of a commit that leaves the settled disk and the settings alone keeps
\* what the process knows of them.
LEMMA CommitView ==
  ASSUME NEW p, PlanInv(p), ViewInv(p), proc[p].pc \in Preparing,
         proc'[p].pc \in Preparing, SameWork(p), UNCHANGED settings,
         SettledDisk' = SettledDisk \/ (~Whole(SettledDisk) /\ ~Whole(SettledDisk)'
                                         /\ ~settings.marker)
  PROVE  PlanInv(p)' /\ ViewInv(p)'
<1>1. PlanInv(p)'
  BY DEF PlanInv, At, InCommit, AfterMarker, Preparing, SameWork
<1>2. Whole(SettledDisk)' <=> Whole(SettledDisk)
  BY DEF Whole, ImageOf
<1>3. /\ proc[p].plan \in {"fresh", "upgrade", "existing", "serve"}
      /\ proc[p].plan = "upgrade" => settings.legacy
      /\ proc[p].plan \in {"fresh", "existing", "serve"} => ~settings.legacy
      /\ proc[p].plan = "serve" => settings.marker
      /\ proc[p].plan = "serve" => proc[p].view = ImageOf(SettledDisk)
      /\ proc[p].plan \in {"fresh", "upgrade"} => ~Whole(SettledDisk)
      /\ Whole(SettledDisk) => /\ settings.marker /\ proc[p].view = ImageOf(SettledDisk)
                              /\ proc[p].cand.image \in Successors(proc[p].view)
  BY DEF PlanInv, ViewInv, At, InCommit, AfterMarker, Preparing, HasImage
<1>4. settings.marker => SettledDisk' = SettledDisk
  OBVIOUS
<1>5. ViewInv(p)'
  BY <1>2, <1>3, <1>4 DEF ViewInv, At, AfterMarker, Preparing, HasImage, SameWork
<1> QED BY <1>1, <1>5

\* The process keeps its lock and its directory.
LEMMA CommitLock ==
  ASSUME NEW p, LockInv(p), DirInv(p), proc[p].pc \in Preparing, UNCHANGED lock,
         SameWork(p), Single(proc[p].tx)',
         proc'[p].pc \in Preparing \cup {"hash"},
         Dir(p)'.phase = IF proc'[p].pc = "hash" THEN "committed" ELSE "prepared",
         proc'[p].pc # "journal"
  PROVE  LockInv(p)' /\ DirInv(p)'
<1>1. LockInv(p)'
  BY DEF LockInv, Holding, Preparing
<1>2. proc'[p].tx = proc[p].tx /\ proc[p].tx \in Tx
  BY DEF DirInv, Working, SameWork
<1>3. \A t, u \in Tx : dirs'[t].phase # "none" /\ dirs'[u].phase # "none" => t = u
  BY <1>2 DEF Single
<1>4. DirInv(p)'
  BY <1>2, <1>3 DEF DirInv, At, Working, Preparing, Clean
<1> QED BY <1>1, <1>4

\* What a candidate is does not change on its way.
CandInv(p) ==
  /\ proc[p].cand \in Candidate
  /\ Reg!WellFormed(proc[p].cand.image)
  /\ Dir(p).stage["index"] = Target(p, "index")
  /\ \A a \in Agents :
       /\ Dir(p).op[a] = "none" => active[a] = Target(p, a)
       /\ Dir(p).op[a] = "delete" => Target(p, a) = Absent
       /\ Dir(p).op[a] \in {"replace", "create"} => Target(p, a) # Absent

LEMMA CandKept ==
  ASSUME NEW p, CandInv(p), SameWork(p), Dir(p)'.op = Dir(p).op,
         Dir(p)'.stage["index"] = Dir(p).stage["index"],
         \A a \in Agents : Dir(p).op[a] = "none" => active'[a] = active[a]
  PROVE  CandInv(p)'
<1>1. proc'[p].cand = proc[p].cand
  BY DEF SameWork
<1>2. /\ Target(p, "index")' = Target(p, "index")
      /\ \A a \in Agents : Target(p, a)' = Target(p, a)
  BY <1>1 DEF Target
<1> QED BY <1>1, <1>2 DEF CandInv

LEMMA WriteJournalStep ==
  ASSUME NEW p, Procs = {p}, IInv(p), WriteJournal(p)
  PROVE  IInv(p)' /\ StepImage
  <1>1. /\ TypeInv /\ PlanInv(p) /\ LockInv(p) /\ DirInv(p)
        /\ JournalInv /\ CommitInv(p) /\ RollbackInv(p) /\ SettledInv /\ ViewInv(p)
    BY DEF IInv
  <1>t. PICK t \in Tx : t = proc[p].tx
    BY <1>1, WorkingDir DEF WriteJournal, At, Working, Preparing
  <1>2. /\ proc[p].pc = "journal" /\ Dir(p).phase = "incomplete"
        /\ PutPhase(t, "prepared")
        /\ UNCHANGED <<active, lock, settings, used, nextTx, faults>>
    BY <1>t, <1>1 DEF WriteJournal, At, DirInv, PutPhase
  <1>3. /\ proc' \in [Procs -> ProcSet] /\ proc'[p].pc = "aside" /\ SameWork(p)
        /\ proc'[p].todo = {x \in Paths : Dir(p).op[x] \in {"replace", "delete"}}
    BY <1>1, VisitFacts, TypeParts DEF WriteJournal, PC
  <1>4. /\ DirsOK /\ t \in Tx /\ Dir(p) = dirs[t] /\ Single(t) /\ OpsOK(dirs[t])
    BY <1>t, <1>1, <1>2, WorkingDir DEF Working, Preparing
  <1>5. /\ DirsOK' /\ Single(t)' /\ Dir(p)' = dirs'[t]
        /\ dirs'[t].phase = "prepared" /\ dirs'[t].op = dirs[t].op
        /\ dirs'[t].stage = dirs[t].stage /\ dirs'[t].aside = dirs[t].aside
    BY <1>t, <1>2, <1>3, <1>4, PutPhaseFacts DEF Dir, SameWork
  <1>6. \A x \in Paths :
          /\ dirs[t].aside[x] = Absent
          /\ dirs[t].op[x] \in {"replace", "delete"} => Exists(x)
          /\ dirs[t].op[x] = "create" => ~Exists(x)
          /\ dirs[t].op[x] \in {"replace", "create"} => dirs[t].stage[x] = Target(p, x)
    BY <1>1, <1>2, <1>4 DEF CommitInv, At, StagedAt
  <1>7. \A x \in Paths : Exists(x)' <=> Exists(x)
    BY <1>2 DEF Exists
  <1>8. PreparedOK(dirs[t])' /\ OpsOK(dirs[t])'
    BY <1>4, <1>5, <1>6, <1>7, OpsKept DEF PreparedOK
  <1>9. JournalInv'
    BY <1>4, <1>5, <1>8, OneJournal
  <1>10. SettledDisk' = SettledDisk
    <2>1. SettledDisk = active
      BY <1>2, <1>4, SettledNone DEF Single, Journal
    <2>2. Journal(t)'
      BY <1>5 DEF Journal
    <2>3. SettledDisk' = Settled(dirs[t])'
      BY <1>4, <1>5, <2>2, SettledOneNext DEF Single
    <2>4. \A x \in Paths : Settled(dirs[t])'[x] = active[x]
      BY <1>2, <1>5, <1>6, <1>8, SettledPreparedNext DEF Exists
    <2>5. active \in [Paths -> Content] /\ Settled(dirs[t])' = [x \in Paths |-> Settled(dirs[t])'[x]]
      BY <1>1, TypeParts DEF Settled, Files
    <2> QED BY <2>1, <2>3, <2>4, <2>5
  <1>11. Whole(SettledDisk) => settings.marker
    BY <1>1, <1>2 DEF ViewInv, PlanInv, InCommit, Preparing, AfterMarker, At
  <1>12. SettledInv'
    <2>1. Whole(SettledDisk)' <=> Whole(SettledDisk)
      BY <1>10 DEF Whole, ImageOf
    <2>2. \A u \in Tx : dirs'[u].phase # "none" => u = t /\ dirs[u].phase # "none" /\ dirs'[u].op = dirs[u].op
      BY <1>2, <1>4, <1>5 DEF Single
    <2> QED BY <1>1, <1>2, <1>10, <1>11, <2>1, <2>2 DEF SettledInv
  <1>13. TypeInv'
    BY <1>1, <1>2, <1>3, <1>5, TypeParts, TypeAssembles DEF DirsOK
  <1>14. PlanInv(p)' /\ ViewInv(p)'
    BY <1>1, <1>2, <1>3, <1>10, CommitView DEF Preparing
  <1>15. LockInv(p)' /\ DirInv(p)'
    <2>1. Single(proc[p].tx)' /\ Dir(p)'.phase = "prepared"
      BY <1>t, <1>3, <1>5 DEF Single, SameWork
    <2> QED BY <1>1, <1>2, <1>3, <2>1, CommitLock DEF Preparing
  <1>16. CommitInv(p)' /\ RollbackInv(p)'
    <2>1. CandInv(p)
      BY <1>1, <1>2 DEF CommitInv, CandInv, Preparing
    <2>2. CandInv(p)'
      BY <1>2, <1>3, <1>4, <1>5, <2>1, CandKept, PathFacts
    <2>3. \A x \in Paths : Target(p, x)' = Target(p, x)
      BY <1>3 DEF Target, SameWork
    <2>4. \A x \in Paths :
            /\ x \in proc'[p].todo <=> dirs'[t].op[x] \in {"replace", "delete"}
            /\ dirs'[t].aside[x] = Absent
            /\ dirs'[t].op[x] \in {"replace", "create"} => StagedAt(p, x)'
      BY <1>3, <1>4, <1>5, <1>6, <2>3 DEF StagedAt
    <2> QED BY <1>3, <1>5, <2>2, <2>4, PathFacts DEF CommitInv, RollbackInv, CandInv, At
  <1> QED BY <1>9, <1>10, <1>12, <1>13, <1>14, <1>15, <1>16 DEF IInv, StepImage

LEMMA MoveAsideStep ==
  ASSUME NEW p, Procs = {p}, IInv(p), MoveAside(p)
  PROVE  IInv(p)' /\ StepImage
  <1>1. /\ TypeInv /\ PlanInv(p) /\ LockInv(p) /\ DirInv(p)
        /\ JournalInv /\ CommitInv(p) /\ RollbackInv(p) /\ SettledInv /\ ViewInv(p)
    BY DEF IInv
  <1>t. PICK t \in Tx : t = proc[p].tx
    BY <1>1, WorkingDir DEF MoveAside, At, Working, Preparing
  <1>2. PICK z \in Paths :
        /\ proc[p].pc = "aside" /\ Dir(p).phase = "prepared"
        /\ z \in proc[p].todo /\ Exists(z) /\ Dir(p).aside[z] = Absent
        /\ PutActive(z, Absent) /\ PutAside(t, z, active[z]) /\ Visited(p, z)
        /\ UNCHANGED <<lock, settings, used, nextTx, faults>>
    <2>1. proc[p].todo \subseteq Paths
      BY <1>1 DEF TypeInv, TypeOK
    <2> QED BY <1>t, <1>1, <2>1 DEF MoveAside, At, DirInv, PutActive, PutAside
  <1>3. /\ proc' \in [Procs -> ProcSet] /\ proc'[p].pc = "aside" /\ SameWork(p)
        /\ proc'[p].todo = proc[p].todo \ {z}
    BY <1>1, <1>2, VisitedFacts, TypeParts
  <1>4. /\ DirsOK /\ t \in Tx /\ Dir(p) = dirs[t] /\ Single(t) /\ OpsOK(dirs[t])
        /\ dirs[t].phase = "prepared" /\ PreparedOK(dirs[t])
    BY <1>t, <1>1, <1>2, WorkingDir DEF Working, Preparing
  <1>5. /\ DirsOK' /\ Single(t)' /\ Dir(p)' = dirs'[t]
        /\ dirs'[t].phase = "prepared" /\ dirs'[t].op = dirs[t].op
        /\ dirs'[t].stage = dirs[t].stage
        /\ \A y \in Paths : dirs'[t].aside[y] = IF y = z THEN active[z] ELSE dirs[t].aside[y]
    <2>1. FitsAt(z, active[z])
      BY <1>1, TypeParts, FitsFacts
    <2> QED BY <1>t, <1>2, <1>3, <1>4, <2>1, PutAsideFacts DEF Dir, SameWork
  <1>6. /\ DiskOK(active')
        /\ \A y \in Paths : active'[y] = IF y = z THEN Absent ELSE active[y]
        /\ \A y \in Paths : Exists(y)' <=> (y # z /\ Exists(y))
    BY <1>1, <1>2, PutActiveFacts, TypeParts, FitsFacts
  <1>7. /\ dirs[t].aside["index"] = Absent
        /\ \A x \in Paths :
             /\ x \in proc[p].todo => dirs[t].op[x] \in {"replace", "delete"}
             /\ x \notin proc[p].todo /\ dirs[t].op[x] \in {"replace", "delete"} => dirs[t].aside[x] # Absent
             /\ dirs[t].op[x] \in {"replace", "create"} => StagedAt(p, x)
    BY <1>1, <1>2, <1>4 DEF CommitInv, At
  <1>8. z # "index" /\ dirs[t].op[z] \in {"replace", "delete"} /\ active[z] # Absent
    BY <1>2, <1>4, <1>7 DEF OpsOK, Exists
  <1>9. PreparedOK(dirs[t])' /\ OpsOK(dirs[t])'
    <2>1. OpsOK(dirs[t])'
      BY <1>4, <1>5, OpsKept
    <2>2. PreparedOK(dirs[t])'
      BY <1>4, <1>5, <1>6, <1>8 DEF PreparedOK
    <2> QED BY <2>1, <2>2
  <1>10. JournalInv'
    BY <1>4, <1>5, <1>9, OneJournal
  <1>11. SettledDisk' = SettledDisk
    <2>1. \A x \in Paths : Settled(dirs[t])'[x] = Settled(dirs[t])[x]
      BY <1>2, <1>4, <1>5, <1>6, <1>8, <1>9, SettledPrepared, SettledPreparedNext
    <2>2. Journal(t) /\ Journal(t)'
      BY <1>4, <1>5 DEF Journal
    <2> QED BY <1>4, <1>5, <2>1, <2>2, SettledSame
  <1>12. SettledInv'
    <2>1. \A u \in Tx : dirs'[u].phase # "none" => u = t
      BY <1>5 DEF Single
    <2> QED BY <1>1, <1>2, <1>4, <1>5, <1>11, <2>1, SettledKept
  <1>13. TypeInv'
    BY <1>1, <1>2, <1>3, <1>5, <1>6, TypeParts, TypeAssembles DEF DirsOK
  <1>14. PlanInv(p)' /\ ViewInv(p)'
    BY <1>1, <1>2, <1>3, <1>11, CommitView DEF Preparing
  <1>15. LockInv(p)' /\ DirInv(p)'
    <2>1. Single(proc[p].tx)' /\ Dir(p)'.phase = "prepared"
      BY <1>t, <1>3, <1>5 DEF Single, SameWork
    <2> QED BY <1>1, <1>2, <1>3, <2>1, CommitLock DEF Preparing
  <1>16. CommitInv(p)' /\ RollbackInv(p)'
    <2>1. CandInv(p)
      BY <1>1, <1>2 DEF CommitInv, CandInv, Preparing
    <2>2. CandInv(p)'
      <3>1. \A a \in Agents : Dir(p).op[a] = "none" => active'[a] = active[a]
        BY <1>4, <1>6, <1>8, PathFacts
      <3> QED BY <1>3, <1>4, <1>5, <2>1, <3>1, CandKept, PathFacts
    <2>3. \A x \in Paths : Target(p, x)' = Target(p, x)
      BY <1>3 DEF Target, SameWork
    <2>4. \A x \in Paths :
            /\ x \in proc'[p].todo => dirs'[t].op[x] \in {"replace", "delete"}
            /\ x \notin proc'[p].todo /\ dirs'[t].op[x] \in {"replace", "delete"} =>
                 dirs'[t].aside[x] # Absent
            /\ dirs'[t].op[x] \in {"replace", "create"} => StagedAt(p, x)'
      BY <1>3, <1>4, <1>5, <1>7, <1>8, <2>3 DEF StagedAt
    <2>5. dirs'[t].aside["index"] = Absent
      BY <1>5, <1>7, <1>8, PathFacts
    <2> QED BY <1>3, <1>5, <2>2, <2>4, <2>5 DEF CommitInv, RollbackInv, CandInv, At
  <1> QED BY <1>10, <1>11, <1>12, <1>13, <1>14, <1>15, <1>16 DEF IInv, StepImage

LEMMA InstallStep ==
  ASSUME NEW p, Procs = {p}, IInv(p), Install(p)
  PROVE  IInv(p)' /\ StepImage
  <1>1. /\ TypeInv /\ PlanInv(p) /\ LockInv(p) /\ DirInv(p)
        /\ JournalInv /\ CommitInv(p) /\ RollbackInv(p) /\ SettledInv /\ ViewInv(p)
    BY DEF IInv
  <1>t. PICK t \in Tx : t = proc[p].tx
    BY <1>1, WorkingDir DEF Install, At, Working, Preparing
  <1>2. PICK z \in Paths :
        /\ proc[p].pc = "install" /\ Dir(p).phase = "prepared"
        /\ z \in proc[p].todo /\ ~Exists(z) /\ Dir(p).stage[z] # Absent
        /\ PutActive(z, Dir(p).stage[z]) /\ PutStage(t, z, Absent) /\ Visited(p, z)
        /\ UNCHANGED <<lock, settings, used, nextTx, faults>>
    <2>1. proc[p].todo \subseteq Paths
      BY <1>1 DEF TypeInv, TypeOK
    <2> QED BY <1>t, <1>1, <2>1 DEF Install, At, DirInv, PutActive, PutStage
  <1>3. /\ proc' \in [Procs -> ProcSet] /\ proc'[p].pc = "install" /\ SameWork(p)
        /\ proc'[p].todo = proc[p].todo \ {z}
    BY <1>1, <1>2, VisitedFacts, TypeParts
  <1>4. /\ DirsOK /\ Dir(p) = dirs[t] /\ Single(t) /\ OpsOK(dirs[t])
        /\ dirs[t].phase = "prepared" /\ PreparedOK(dirs[t])
    BY <1>t, <1>1, <1>2, WorkingDir DEF Working, Preparing
  <1>5. /\ DirsOK' /\ Single(t)' /\ Dir(p)' = dirs'[t]
        /\ dirs'[t].phase = "prepared" /\ dirs'[t].op = dirs[t].op
        /\ dirs'[t].aside = dirs[t].aside
        /\ \A y \in Paths : dirs'[t].stage[y] = IF y = z THEN Absent ELSE dirs[t].stage[y]
    BY <1>t, <1>2, <1>3, <1>4, FitsFacts, PutStageFacts DEF Dir, SameWork
  <1>6. /\ DiskOK(active')
        /\ \A y \in Paths : active'[y] = IF y = z THEN dirs[t].stage[z] ELSE active[y]
        /\ \A y \in Paths : Exists(y)' <=> (y = z \/ Exists(y))
    <2>1. FitsAt(z, dirs[t].stage[z])
      BY <1>1, TypeParts, FitsFacts
    <2> QED BY <1>1, <1>2, <1>4, <2>1, PutActiveFacts, TypeParts
  <1>7. /\ dirs[t].aside["index"] = Absent
        /\ \A x \in Paths :
             /\ x \in proc[p].todo => dirs[t].op[x] \in {"replace", "create"}
             /\ dirs[t].op[x] \in {"replace", "delete"} => dirs[t].aside[x] # Absent
             /\ dirs[t].op[x] \in {"replace", "create"} =>
                  IF x \in proc[p].todo THEN StagedAt(p, x) ELSE InstalledAt(p, x)
    BY <1>1, <1>2, <1>4 DEF CommitInv, At
  <1>8. /\ z # "index" /\ dirs[t].op[z] \in {"replace", "create"}
        /\ dirs[t].stage[z] = Target(p, z)
        /\ dirs[t].op[z] = "create" => dirs[t].aside[z] = Absent
    BY <1>2, <1>4, <1>7 DEF OpsOK, StagedAt, PreparedOK
  <1>9. PreparedOK(dirs[t])' /\ OpsOK(dirs[t])'
    <2>1. OpsOK(dirs[t])'
      BY <1>4, <1>5, OpsKept
    <2>2. PreparedOK(dirs[t])'
      BY <1>4, <1>5, <1>6, <1>8 DEF PreparedOK
    <2> QED BY <2>1, <2>2
  <1>10. JournalInv'
    BY <1>4, <1>5, <1>9, OneJournal
  <1>11. SettledDisk' = SettledDisk
    <2>1. \A x \in Paths : Settled(dirs[t])'[x] = Settled(dirs[t])[x]
      BY <1>2, <1>4, <1>5, <1>6, <1>7, <1>8, <1>9, SettledPrepared, SettledPreparedNext
    <2>2. Journal(t) /\ Journal(t)'
      BY <1>4, <1>5 DEF Journal
    <2> QED BY <1>4, <1>5, <2>1, <2>2, SettledSame
  <1>12. SettledInv'
    <2>1. \A u \in Tx : dirs'[u].phase # "none" => u = t
      BY <1>5 DEF Single
    <2> QED BY <1>1, <1>2, <1>4, <1>5, <1>11, <2>1, SettledKept
  <1>13. TypeInv'
    BY <1>1, <1>2, <1>3, <1>5, <1>6, TypeParts, TypeAssembles DEF DirsOK
  <1>14. PlanInv(p)' /\ ViewInv(p)'
    BY <1>1, <1>2, <1>3, <1>11, CommitView DEF Preparing
  <1>15. LockInv(p)' /\ DirInv(p)'
    <2>1. Single(proc[p].tx)' /\ Dir(p)'.phase = "prepared"
      BY <1>t, <1>3, <1>5 DEF Single, SameWork
    <2> QED BY <1>1, <1>2, <1>3, <2>1, CommitLock DEF Preparing
  <1>16. CommitInv(p)' /\ RollbackInv(p)'
    <2>1. CandInv(p)
      BY <1>1, <1>2 DEF CommitInv, CandInv, Preparing
    <2>2. CandInv(p)'
      BY <1>3, <1>4, <1>5, <1>6, <1>8, <2>1, CandKept, PathFacts
    <2>3. \A x \in Paths : Target(p, x)' = Target(p, x)
      BY <1>3 DEF Target, SameWork
    <2>4. ASSUME NEW x \in Paths
          PROVE  /\ x \in proc'[p].todo => dirs'[t].op[x] \in {"replace", "create"}
                 /\ dirs'[t].op[x] \in {"replace", "delete"} => dirs'[t].aside[x] # Absent
                 /\ dirs'[t].op[x] \in {"replace", "create"} =>
                      IF x \in proc'[p].todo THEN StagedAt(p, x)' ELSE InstalledAt(p, x)'
      <3>1. CASE x = z
        <4>1. InstalledAt(p, x)'
          BY <1>5, <1>6, <1>8, <2>3, <3>1 DEF InstalledAt
        <4> QED BY <1>3, <1>5, <1>7, <3>1, <4>1
      <3>2. CASE x # z
        <4>1. StagedAt(p, x) <=> StagedAt(p, x)'
          BY <1>4, <1>5, <2>3, <3>2 DEF StagedAt
        <4>2. InstalledAt(p, x) <=> InstalledAt(p, x)'
          BY <1>4, <1>5, <1>6, <2>3, <3>2 DEF InstalledAt
        <4> QED BY <1>3, <1>5, <1>7, <3>2, <4>1, <4>2
      <3> QED BY <3>1, <3>2
    <2> QED BY <1>3, <1>5, <1>7, <2>2, <2>4 DEF CommitInv, RollbackInv, CandInv, At
  <1> QED BY <1>10, <1>11, <1>12, <1>13, <1>14, <1>15, <1>16 DEF IInv, StepImage

LEMMA IndexAsideStep ==
  ASSUME NEW p, Procs = {p}, IInv(p), IndexAside(p)
  PROVE  IInv(p)' /\ StepImage
  <1>1. /\ TypeInv /\ PlanInv(p) /\ LockInv(p) /\ DirInv(p)
        /\ JournalInv /\ CommitInv(p) /\ RollbackInv(p) /\ SettledInv /\ ViewInv(p)
    BY DEF IInv
  <1>t. PICK t \in Tx : t = proc[p].tx
    BY <1>1, WorkingDir DEF IndexAside, At, Working, Preparing
  <1>2. /\ proc[p].pc = "install" /\ Dir(p).phase = "prepared" /\ proc[p].todo = {}
        /\ PutActive("index", Absent) /\ PutAside(t, "index", active["index"])
        /\ UNCHANGED <<lock, settings, used, nextTx, faults>>
    BY <1>t, <1>1 DEF IndexAside, At, DirInv, PutActive, PutAside
  <1>3. /\ proc' \in [Procs -> ProcSet] /\ proc'[p].pc = "index" /\ SameWork(p)
        /\ proc'[p].todo = {}
    BY <1>1, <1>2, GotoFacts, TypeParts DEF IndexAside, PC
  <1>4. /\ DirsOK /\ Dir(p) = dirs[t] /\ Single(t) /\ OpsOK(dirs[t])
        /\ dirs[t].phase = "prepared" /\ PreparedOK(dirs[t])
    BY <1>t, <1>1, <1>2, WorkingDir DEF Working, Preparing
  <1>5. /\ DirsOK' /\ Single(t)' /\ Dir(p)' = dirs'[t]
        /\ dirs'[t].phase = "prepared" /\ dirs'[t].op = dirs[t].op
        /\ dirs'[t].stage = dirs[t].stage
        /\ \A y \in Paths : dirs'[t].aside[y] = IF y = "index" THEN active["index"]
                                                ELSE dirs[t].aside[y]
    <2>1. FitsAt("index", active["index"]) /\ "index" \in Paths
      BY <1>1, TypeParts, FitsFacts, PathFacts
    <2> QED BY <1>t, <1>2, <1>3, <1>4, <2>1, PutAsideFacts DEF Dir, SameWork
  <1>6. /\ DiskOK(active')
        /\ \A y \in Paths : active'[y] = IF y = "index" THEN Absent ELSE active[y]
        /\ \A y \in Paths : Exists(y)' <=> (y # "index" /\ Exists(y))
    BY <1>1, <1>2, PutActiveFacts, TypeParts, FitsFacts, PathFacts
  <1>7. /\ dirs[t].aside["index"] = Absent /\ dirs[t].op["index"] = "index"
        /\ \A x \in Paths :
             /\ dirs[t].op[x] \in {"replace", "delete"} => dirs[t].aside[x] # Absent
             /\ dirs[t].op[x] \in {"replace", "create"} => InstalledAt(p, x)
    BY <1>1, <1>2, <1>4 DEF CommitInv, At, OpsOK
  <1>9. PreparedOK(dirs[t])' /\ OpsOK(dirs[t])'
    <2>1. OpsOK(dirs[t])'
      BY <1>4, <1>5, OpsKept
    <2>2. PreparedOK(dirs[t])'
      BY <1>4, <1>5, <1>6, <1>7 DEF PreparedOK
    <2> QED BY <2>1, <2>2
  <1>10. JournalInv'
    BY <1>4, <1>5, <1>9, OneJournal
  <1>11. SettledDisk' = SettledDisk
    <2>1. \A x \in Paths : Settled(dirs[t])'[x] = Settled(dirs[t])[x]
      BY <1>4, <1>5, <1>6, <1>7, <1>9, SettledPrepared, SettledPreparedNext
    <2>2. Journal(t) /\ Journal(t)'
      BY <1>4, <1>5 DEF Journal
    <2> QED BY <1>4, <1>5, <2>1, <2>2, SettledSame
  <1>12. SettledInv'
    <2>1. \A u \in Tx : dirs'[u].phase # "none" => u = t
      BY <1>5 DEF Single
    <2> QED BY <1>1, <1>2, <1>4, <1>5, <1>11, <2>1, SettledKept
  <1>13. TypeInv'
    BY <1>1, <1>2, <1>3, <1>5, <1>6, TypeParts, TypeAssembles DEF DirsOK
  <1>14. PlanInv(p)' /\ ViewInv(p)'
    BY <1>1, <1>2, <1>3, <1>11, CommitView DEF Preparing
  <1>15. LockInv(p)' /\ DirInv(p)'
    <2>1. Single(proc[p].tx)' /\ Dir(p)'.phase = "prepared"
      BY <1>t, <1>3, <1>5 DEF Single, SameWork
    <2> QED BY <1>1, <1>2, <1>3, <2>1, CommitLock DEF Preparing
  <1>16. CommitInv(p)' /\ RollbackInv(p)'
    <2>1. CandInv(p)
      BY <1>1, <1>2 DEF CommitInv, CandInv, Preparing
    <2>2. CandInv(p)'
      BY <1>3, <1>4, <1>5, <1>6, <2>1, CandKept, PathFacts
    <2>3. \A x \in Paths : Target(p, x)' = Target(p, x)
      BY <1>3 DEF Target, SameWork
    <2>4. ASSUME NEW x \in Paths
          PROVE  /\ dirs'[t].op[x] \in {"replace", "delete"} => dirs'[t].aside[x] # Absent
                 /\ dirs'[t].op[x] \in {"replace", "create"} => InstalledAt(p, x)'
      BY <1>4, <1>5, <1>6, <1>7, <2>3 DEF InstalledAt
    <2>5. ~Exists("index")'
      BY <1>6, PathFacts
    <2> QED BY <1>3, <1>5, <2>2, <2>4, <2>5 DEF CommitInv, RollbackInv, CandInv, At
  <1> QED BY <1>10, <1>11, <1>12, <1>13, <1>14, <1>15, <1>16 DEF IInv, StepImage

LEMMA IndexWriteStep ==
  ASSUME NEW p, Procs = {p}, IInv(p), IndexWrite(p)
  PROVE  IInv(p)' /\ StepImage
  <1>1. /\ TypeInv /\ PlanInv(p) /\ LockInv(p) /\ DirInv(p)
        /\ JournalInv /\ CommitInv(p) /\ RollbackInv(p) /\ SettledInv /\ ViewInv(p)
    BY DEF IInv
  <1>t. PICK t \in Tx : t = proc[p].tx
    BY <1>1, WorkingDir DEF IndexWrite, At, Working, Preparing
  <1>2. /\ proc[p].pc = "index" /\ Dir(p).phase = "prepared" /\ proc[p].todo = {}
        /\ PutActive("index", Dir(p).stage["index"])
        /\ UNCHANGED <<dirs, lock, settings, used, nextTx, faults>>
    BY <1>1 DEF IndexWrite, At, DirInv, PutActive, CommitInv
  <1>3. /\ proc' \in [Procs -> ProcSet] /\ proc'[p].pc = "marker" /\ SameWork(p)
        /\ proc'[p].todo = {}
    BY <1>1, <1>2, GotoFacts, TypeParts DEF IndexWrite, PC
  <1>4. /\ DirsOK /\ Dir(p) = dirs[t] /\ Single(t) /\ OpsOK(dirs[t])
        /\ dirs[t].phase = "prepared" /\ PreparedOK(dirs[t])
    BY <1>t, <1>1, <1>2, WorkingDir DEF Working, Preparing
  <1>c. CandInv(p)
    BY <1>1, <1>2 DEF CommitInv, CandInv, Preparing
  <1>5. /\ DirsOK' /\ Single(t)' /\ Dir(p)' = dirs'[t] /\ dirs'[t] = dirs[t]
        /\ dirs'[t].phase = "prepared"
    BY <1>t, <1>2, <1>3, <1>4 DEF Dir, SameWork, DirsOK, DiskOK, Single
  <1>7. /\ ~Exists("index") /\ dirs[t].op["index"] = "index"
        /\ dirs[t].stage["index"] = Target(p, "index") /\ Target(p, "index") # Absent
        /\ \A x \in Paths :
             /\ dirs[t].op[x] \in {"replace", "delete"} => dirs[t].aside[x] # Absent
             /\ dirs[t].op[x] \in {"replace", "create"} => InstalledAt(p, x)
    BY <1>1, <1>2, <1>4, <1>c, DiskOfFacts DEF CommitInv, At, OpsOK, CandInv, Target, Candidate
  <1>6. /\ DiskOK(active')
        /\ \A y \in Paths : active'[y] = IF y = "index" THEN dirs[t].stage["index"] ELSE active[y]
        /\ \A y \in Paths : Exists(y)' <=> (y = "index" \/ Exists(y))
    <2>1. FitsAt("index", dirs[t].stage["index"])
      BY <1>1, TypeParts, FitsFacts, PathFacts
    <2> QED BY <1>1, <1>2, <1>4, <1>7, <2>1, PutActiveFacts, TypeParts, PathFacts
  <1>9. PreparedOK(dirs[t])' /\ OpsOK(dirs[t])'
    <2>1. OpsOK(dirs[t])'
      BY <1>4, <1>5, OpsKept
    <2>2. PreparedOK(dirs[t])'
      BY <1>4, <1>5, <1>6, <1>7 DEF PreparedOK
    <2> QED BY <2>1, <2>2
  <1>10. JournalInv'
    BY <1>4, <1>5, <1>9, OneJournal
  <1>s. \A x \in Paths : x # "index" => SettledDisk'[x] = SettledDisk[x]
    <2>1. Journal(t) /\ Journal(t)'
      BY <1>4, <1>5 DEF Journal
    <2>2. SettledDisk = Settled(dirs[t]) /\ SettledDisk' = Settled(dirs[t])'
      BY <1>4, <1>5, <2>1, SettledOne, SettledOneNext DEF Single
    <2>3. \A x \in Paths : x # "index" => Settled(dirs[t])'[x] = Settled(dirs[t])[x]
      BY <1>4, <1>5, <1>6, <1>9, SettledPrepared, SettledPreparedNext
    <2> QED BY <2>2, <2>3
  <1>a. ASSUME dirs[t].aside["index"] # Absent
        PROVE  SettledDisk' = SettledDisk /\ SettledInv'
    <2>1. \A x \in Paths : Settled(dirs[t])'[x] = Settled(dirs[t])[x]
      BY <1>4, <1>5, <1>6, <1>9, <1>a, SettledPrepared, SettledPreparedNext
    <2>2. Journal(t) /\ Journal(t)'
      BY <1>4, <1>5 DEF Journal
    <2>3. SettledDisk' = SettledDisk
      BY <1>4, <1>5, <2>1, <2>2, SettledSame
    <2>4. SettledInv'
      BY <1>1, <1>2, <2>3, SettledKept
    <2> QED BY <2>3, <2>4
  <1>b. ASSUME dirs[t].aside["index"] = Absent
        PROVE  /\ ~Whole(SettledDisk) /\ ~Whole(SettledDisk)' /\ ~Whole(SettledDisk')
               /\ ~settings.marker /\ SettledInv'
    <2>1. SettledDisk["index"] = Absent
      <3>1. SettledDisk = Settled(dirs[t])
        BY <1>4, SettledOne DEF Single, Journal
      <3> QED BY <1>4, <1>7, <1>b, <3>1, SettledPrepared, PathFacts DEF Exists
    <2>2. ~Whole(SettledDisk) /\ \A a \in Agents : SettledDisk[a] = Absent
      BY <1>1, <2>1, WholeDisk, SettledType DEF SettledInv
    <2>3. DiskOK(SettledDisk')
      <3>1. TypeInv'
        BY <1>1, <1>2, <1>3, <1>5, <1>6, TypeParts, TypeAssembles DEF DirsOK
      <3>2. TypeInv' => DiskOK(SettledDisk)'
        BY SettledType, PTL
      <3> QED BY <3>1, <3>2 DEF DiskOK
    <2>4. ~Whole(SettledDisk')
      <3>1. \A a \in Agents : SettledDisk'[a] = Absent
        BY <1>s, <2>2, PathFacts
      <3>2. SettledDisk'["index"] # Absent => SettledDisk'["index"].default \in Agents
        BY <2>3 DEF DiskOK, Index
      <3> QED BY <2>3, <3>1, <3>2, WholeDisk
    <2>5. ~Whole(SettledDisk)'
      BY <2>4 DEF Whole, ImageOf
    <2>6. /\ SettledDisk'["memory"] = SettledDisk["memory"]
          /\ SettledDisk'["subagents"] = SettledDisk["subagents"]
          /\ \A a \in Agents : SettledDisk'[a] = Absent
      BY <1>s, <2>2, PathFacts
    <2>7. ~settings.marker
      BY <1>1, <2>2 DEF SettledInv
    <2>8. SettledInv'
      BY <1>1, <1>2, <2>2, <2>5, <2>6, <2>7 DEF SettledInv
    <2> QED BY <2>2, <2>4, <2>5, <2>7, <2>8
  <1>11. /\ SettledDisk' = SettledDisk \/ (~Whole(SettledDisk) /\ ~Whole(SettledDisk)' /\ ~settings.marker)
         /\ SettledDisk' = SettledDisk \/ (~Whole(SettledDisk) /\ ~Whole(SettledDisk'))
         /\ SettledInv'
    BY <1>a, <1>b
  <1>13. TypeInv'
    BY <1>1, <1>2, <1>3, <1>5, <1>6, TypeParts, TypeAssembles DEF DirsOK
  <1>14. PlanInv(p)' /\ ViewInv(p)'
    BY <1>1, <1>2, <1>3, <1>11, CommitView DEF Preparing
  <1>15. LockInv(p)' /\ DirInv(p)'
    <2>1. Single(proc[p].tx)' /\ Dir(p)'.phase = "prepared"
      BY <1>t, <1>3, <1>5 DEF Single, SameWork
    <2> QED BY <1>1, <1>2, <1>3, <2>1, CommitLock DEF Preparing
  <1>16. CommitInv(p)' /\ RollbackInv(p)'
    <2>2. CandInv(p)'
      BY <1>c, <1>3, <1>4, <1>5, <1>6, CandKept, PathFacts
    <2>3. \A x \in Paths : Target(p, x)' = Target(p, x)
      BY <1>3 DEF Target, SameWork
    <2>4. ASSUME NEW x \in Paths
          PROVE  /\ dirs'[t].op[x] \in {"replace", "delete"} => dirs'[t].aside[x] # Absent
                 /\ dirs'[t].op[x] \in {"replace", "create"} => InstalledAt(p, x)'
      BY <1>4, <1>5, <1>6, <1>7, <2>3 DEF InstalledAt
    <2>5. active'["index"] = Target(p, "index")'
      BY <1>6, <1>7, <2>3, PathFacts
    <2> QED BY <1>3, <1>5, <2>2, <2>4, <2>5 DEF CommitInv, RollbackInv, CandInv, At
  <1> QED BY <1>10, <1>11, <1>13, <1>14, <1>15, <1>16 DEF IInv, StepImage

LEMMA WriteMarkerStep ==
  ASSUME NEW p, Procs = {p}, IInv(p), WriteMarker(p)
  PROVE  IInv(p)' /\ StepImage
  <1>1. /\ TypeInv /\ PlanInv(p) /\ LockInv(p) /\ DirInv(p)
        /\ JournalInv /\ CommitInv(p) /\ RollbackInv(p) /\ SettledInv /\ ViewInv(p)
    BY DEF IInv
  <1>t. PICK t \in Tx : t = proc[p].tx
    BY <1>1, WorkingDir DEF WriteMarker, At, Working, Preparing
  <1>2. /\ proc[p].pc = "marker" /\ Dir(p).phase = "prepared" /\ proc[p].todo = {}
        /\ PutPhase(t, "committed")
        /\ UNCHANGED <<active, lock, settings, used, nextTx, faults>>
    BY <1>t, <1>1 DEF WriteMarker, At, DirInv, PutPhase, CommitInv
  <1>3. /\ proc' \in [Procs -> ProcSet] /\ proc'[p].pc = "hash" /\ SameWork(p)
    BY <1>1, <1>2, GotoFacts, TypeParts DEF WriteMarker, PC
  <1>4. /\ DirsOK /\ Dir(p) = dirs[t] /\ Single(t) /\ OpsOK(dirs[t])
        /\ dirs[t].phase = "prepared" /\ PreparedOK(dirs[t])
    BY <1>t, <1>1, <1>2, WorkingDir DEF Working, Preparing
  <1>5. /\ DirsOK' /\ Single(t)' /\ Dir(p)' = dirs'[t]
        /\ dirs'[t].phase = "committed" /\ dirs'[t].op = dirs[t].op
        /\ dirs'[t].stage = dirs[t].stage /\ dirs'[t].aside = dirs[t].aside
    BY <1>t, <1>2, <1>3, <1>4, PutPhaseFacts DEF Dir, SameWork
  <1>6. DiskOK(active) /\ active \in Files
    BY <1>1, TypeParts
  <1> DEFINE i == proc[p].cand.image
  <1>7. /\ proc[p].cand \in Candidate /\ i \in Reg!Images /\ Reg!WellFormed(i)
        /\ \A a \in Agents :
             /\ dirs[t].op[a] = "none" => active[a] = DiskOf(i)[a]
             /\ dirs[t].op[a] = "delete" => DiskOf(i)[a] = Absent
             /\ dirs[t].op[a] \in {"replace", "create"} => DiskOf(i)[a] # Absent
        /\ \A x \in Paths : Target(p, x) = DiskOf(i)[x]
    BY <1>1, <1>2, <1>4, PathFacts DEF CommitInv, Preparing, Candidate, Target
  <1> HIDE DEF i
  <1>8. /\ dirs[t].stage["index"] = DiskOf(i)["index"] /\ active["index"] = DiskOf(i)["index"]
        /\ \A x \in Paths :
             /\ dirs[t].op[x] \in {"replace", "delete"} => dirs[t].aside[x] # Absent
             /\ dirs[t].op[x] \in {"replace", "create"} =>
                  dirs[t].stage[x] = Absent /\ active[x] = DiskOf(i)[x]
    BY <1>1, <1>2, <1>4, <1>7, PathFacts DEF CommitInv, At, Preparing, InstalledAt
  <1>9. /\ dirs[t].op["index"] = "index" /\ dirs[t].op["subagents"] \in {"replace", "create"}
        /\ dirs[t].op["memory"] \in {"none", "delete"}
        /\ \A a \in Agents : dirs[t].op[a] \in {"none", "replace", "create", "delete"}
    BY <1>4 DEF OpsOK
  <1>10. /\ \A x \in Paths : dirs[t].op[x] = "delete" => ~Exists(x)
         /\ \A a \in Agents : active[a] = i.profiles[a]
         /\ active["subagents"] = i.sub /\ active["index"] = IndexOf(i)
         /\ i.sub # Absent /\ IndexOf(i) # Absent
    <2>1. \A x \in Paths : dirs[t].op[x] = "delete" => ~Exists(x)
      BY <1>4, <1>8 DEF PreparedOK
    <2>2. /\ \A a \in Agents : DiskOf(i)[a] = i.profiles[a]
          /\ DiskOf(i)["subagents"] = i.sub /\ DiskOf(i)["index"] = IndexOf(i)
          /\ i.sub # Absent /\ IndexOf(i) # Absent
      BY <1>7, DiskOfFacts
    <2>3. ASSUME NEW a \in Agents PROVE active[a] = i.profiles[a]
      BY <1>7, <1>8, <1>9, <2>1, <2>2, PathFacts DEF Exists
    <2> QED BY <1>8, <1>9, <2>1, <2>2, <2>3, PathFacts
  <1>11. ImageOf(active) = i /\ Whole(active)
    <2>1. i.profiles = [a \in Agents |-> active[a]]
      BY <1>7, <1>10 DEF Reg!Images
    <2>2. /\ IndexOf(i).listed = i.listed /\ IndexOf(i).default = i.default
      BY DEF IndexOf
    <2>3. i = [profiles |-> i.profiles, sub |-> i.sub, listed |-> i.listed, default |-> i.default]
      BY <1>7 DEF Reg!Images
    <2>4. ImageOf(active) = [profiles |-> i.profiles, sub |-> i.sub, listed |-> i.listed,
                             default |-> i.default]
      BY <1>10, <2>1, <2>2 DEF ImageOf
    <2>5. ImageOf(active) = i
      BY <2>3, <2>4
    <2> QED BY <1>7, <2>5 DEF Whole
  <1>12. CommittedOK(dirs[t])' /\ OpsOK(dirs[t])'
    <2>1. OpsOK(dirs[t])'
      BY <1>4, <1>5, OpsKept
    <2>3. ASSUME NEW x \in Paths, dirs[t].op[x] \in {"replace", "create"} PROVE Exists(x)
      <3>1. active[x] = DiskOf(i)[x]
        BY <1>8, <2>3
      <3>2. CASE x \in Agents
        BY <1>7, <2>3, <3>1, <3>2 DEF Exists
      <3>3. CASE x = "subagents"
        BY <1>10, <3>3 DEF Exists
      <3> QED BY <1>9, <2>3, <3>2, <3>3, PathFacts
    <2>4. \A x \in Paths : dirs[t].op[x] = "index" => x = "index"
      BY <1>9, PathFacts
    <2>5. \A x \in Paths : Exists(x)' <=> Exists(x)
      BY <1>2 DEF Exists
    <2>6. CommittedOK(dirs[t])'
      <3> SUFFICES ASSUME NEW x \in Paths
                   PROVE  /\ dirs[t].op[x] \in {"replace", "create"} => dirs[t].stage[x] = Absent /\ Exists(x)
                          /\ dirs[t].op[x] = "delete" => ~Exists(x)
                          /\ dirs[t].op[x] = "index" => Exists(x) /\ dirs[t].stage[x] \in {Absent, active[x]}
        BY <1>2, <1>5, <2>5 DEF CommittedOK
      <3>1. dirs[t].op[x] = "index" => Exists(x) /\ dirs[t].stage[x] = active[x]
        BY <1>8, <1>10, <2>4 DEF Exists
      <3> QED BY <1>8, <1>10, <2>3, <3>1
    <2> QED BY <2>1, <2>6
  <1>13. JournalInv'
    BY <1>5, <1>12, OneJournal
  <1>14. SettledDisk' = active
    <2>1. Journal(t)'
      BY <1>5 DEF Journal
    <2>2. SettledDisk' = Settled(dirs[t])'
      BY <1>5, <2>1, SettledOneNext DEF Single
    <2> QED BY <1>2, <1>5, <1>6, <1>12, <2>2, CommittedSettledNext
  <1>15. Whole(SettledDisk') /\ Whole(SettledDisk)' /\ ImageOf(SettledDisk') = i
    BY <1>11, <1>14 DEF Whole, ImageOf
  <1>16. /\ proc[p].plan \in {"fresh", "upgrade", "existing", "serve"}
         /\ Whole(SettledDisk) => settings.marker /\ i \in Successors(ImageOf(SettledDisk))
    BY <1>1, <1>2 DEF i, ViewInv, PlanInv, At, AfterMarker, InCommit, Preparing, HasImage
  <1>17. StepImage
    BY <1>15, <1>16 DEF StepImage
  <1>18. SettledInv'
    <2>1. active["memory"] # Absent => settings.legacy
      BY <1>1, MemoryThere DEF SettledInv, Exists
    <2>2. settings.legacy => active["memory"] = Absent
      BY <1>1, <1>4, <1>10, PathFacts DEF SettledInv, Exists
    <2>3. \A u \in Tx : dirs'[u].phase # "none" => u = t
      BY <1>5 DEF Single
    <2>4. settings.legacy => dirs'[t].op["memory"] = "delete"
      BY <1>1, <1>4, <1>5 DEF SettledInv
    <2>5. settings.marker => ~settings.legacy
      BY <1>1 DEF SettledInv
    <2>6. \A u \in Tx : dirs'[u].phase # "prepared"
      BY <1>5, <2>3
    <2> QED BY <1>2, <1>14, <1>15, <2>1, <2>2, <2>3, <2>4, <2>5, <2>6 DEF SettledInv
  <1>19. TypeInv'
    <2>1. DiskOK(active')
      BY <1>2, <1>6
    <2> QED BY <1>1, <1>2, <1>3, <1>5, <2>1, TypeParts, TypeAssembles DEF DirsOK
  <1>20. PlanInv(p)'
    BY <1>3, <1>16 DEF PlanInv, At, InCommit, AfterMarker, Preparing, SameWork
  <1>21. LockInv(p)' /\ DirInv(p)'
    <2>1. Single(proc[p].tx)' /\ Dir(p)'.phase = "committed"
      BY <1>t, <1>3, <1>5 DEF Single, SameWork
    <2> QED BY <1>1, <1>2, <1>3, <2>1, CommitLock DEF Preparing
  <1>22. CommitInv(p)' /\ RollbackInv(p)'
    BY <1>3 DEF CommitInv, RollbackInv, At, Preparing
  <1>23. ViewInv(p)'
    <2>1. /\ proc[p].plan = "upgrade" => settings.legacy
          /\ proc[p].plan \in {"fresh", "existing", "serve"} => ~settings.legacy
          /\ proc[p].plan = "serve" => settings.marker
      BY <1>1 DEF ViewInv
    <2>2. Whole(active)' /\ ImageOf(active)' = proc'[p].cand.image /\ proc'[p].cand \in Candidate
      BY <1>2, <1>3, <1>7, <1>11 DEF Whole, ImageOf, SameWork, i
    <2> QED BY <1>2, <1>3, <1>15, <1>16, <2>1, <2>2
            DEF ViewInv, HasImage, At, AfterMarker, Preparing, SameWork
  <1> QED BY <1>13, <1>17, <1>18, <1>19, <1>20, <1>21, <1>22, <1>23 DEF IInv

-----------------------------------------------------------------------------
(* Settling a journal.                                                     *)

LEMMA SettlingView ==
  ASSUME NEW p, PlanInv(p), ViewInv(p), proc[p].pc \in {"rollback", "replay"},
         proc'[p].pc = proc[p].pc, SameWork(p), UNCHANGED settings,
         SettledDisk' = SettledDisk, At(p, "replay") => UNCHANGED active
  PROVE  PlanInv(p)' /\ ViewInv(p)'
<1>1. PlanInv(p)'
  BY DEF PlanInv, At, InCommit, AfterMarker, Preparing, SameWork
<1>2. Whole(SettledDisk)' <=> Whole(SettledDisk)
  BY DEF Whole, ImageOf
<1>3. ImageOf(SettledDisk)' = ImageOf(SettledDisk)
  BY DEF ImageOf
<1>4. AfterMarker(p)' <=> AfterMarker(p)
  BY DEF AfterMarker, At, SameWork
<1>5. AfterMarker(p) => UNCHANGED active
  BY DEF AfterMarker, At
<1>6. AfterMarker(p)' => Whole(active)' /\ proc'[p].cand \in Candidate
                           /\ ImageOf(active)' = proc'[p].cand.image
  BY <1>4, <1>5 DEF ViewInv, SameWork, Whole, ImageOf
<1> QED BY <1>1, <1>2, <1>3, <1>4, <1>6
        DEF ViewInv, HasImage, At, Preparing, SameWork

LEMMA SettlingLock ==
  ASSUME NEW p, LockInv(p), DirInv(p), proc[p].pc \in {"rollback", "replay"}, UNCHANGED lock,
         proc'[p].pc = proc[p].pc, SameWork(p), Single(proc[p].tx)',
         Dir(p)'.phase = Dir(p).phase
  PROVE  LockInv(p)' /\ DirInv(p)'
<1>1. LockInv(p)'
  BY DEF LockInv, Holding
<1>2. proc'[p].tx = proc[p].tx /\ proc[p].tx \in Tx
  BY DEF DirInv, Working, SameWork
<1>3. \A t, u \in Tx : dirs'[t].phase # "none" /\ dirs'[u].phase # "none" => t = u
  BY <1>2 DEF Single
<1>4. DirInv(p)'
  BY <1>2, <1>3 DEF DirInv, At, Working, Preparing, Clean
<1> QED BY <1>1, <1>4

LEMMA RollbackClearStep ==
  ASSUME NEW p, Procs = {p}, IInv(p), RollbackClear(p)
  PROVE  IInv(p)' /\ StepImage
  <1>1. /\ TypeInv /\ PlanInv(p) /\ LockInv(p) /\ DirInv(p)
        /\ JournalInv /\ CommitInv(p) /\ RollbackInv(p) /\ SettledInv /\ ViewInv(p)
    BY DEF IInv
  <1>t. PICK t \in Tx : t = proc[p].tx
    BY <1>1, WorkingDir DEF RollbackClear, At, Working, Preparing
  <1>2. PICK z \in Paths :
        /\ proc[p].pc = "rollback" /\ Dir(p).phase = "prepared"
        /\ z \in proc[p].todo /\ Dir(p).aside[z] # Absent
        /\ Dir(p).op[z] \in {"replace", "index"}
        /\ PutActive(z, Absent)
        /\ UNCHANGED <<dirs, lock, settings, proc, used, nextTx, faults>>
    <2>1. proc[p].todo \subseteq Paths
      BY <1>1 DEF TypeInv, TypeOK
    <2> QED BY <1>1, <2>1 DEF RollbackClear, Due, At, DirInv, PutActive
  <1>4. /\ DirsOK /\ t \in Tx /\ Dir(p) = dirs[t] /\ Single(t) /\ OpsOK(dirs[t])
        /\ dirs[t].phase = "prepared" /\ PreparedOK(dirs[t])
    BY <1>t, <1>1, <1>2, WorkingDir DEF Working, Preparing
  <1>5. /\ DirsOK' /\ Single(t)' /\ Dir(p)' = dirs[t] /\ dirs'[t] = dirs[t]
        /\ SameWork(p) /\ proc'[p].pc = "rollback"
    BY <1>2, <1>4 DEF Dir, SameWork, DirsOK, DiskOK, Single
  <1>6. /\ DiskOK(active')
        /\ \A y \in Paths : active'[y] = IF y = z THEN Absent ELSE active[y]
        /\ \A y \in Paths : Exists(y)' <=> (y # z /\ Exists(y))
    BY <1>1, <1>2, PutActiveFacts, TypeParts, FitsFacts
  <1>9. PreparedOK(dirs[t])' /\ OpsOK(dirs[t])'
    <2>1. OpsOK(dirs[t])'
      BY <1>4, <1>5, OpsKept
    <2>2. PreparedOK(dirs[t])'
      BY <1>2, <1>4, <1>5, <1>6 DEF PreparedOK
    <2> QED BY <2>1, <2>2
  <1>10. JournalInv'
    BY <1>4, <1>5, <1>9, OneJournal
  <1>11. SettledDisk' = SettledDisk
    <2>1. \A x \in Paths : Settled(dirs[t])'[x] = Settled(dirs[t])[x]
      BY <1>2, <1>4, <1>5, <1>6, <1>9, SettledPrepared, SettledPreparedNext
    <2>2. Journal(t) /\ Journal(t)'
      BY <1>4, <1>5 DEF Journal
    <2> QED BY <1>4, <1>5, <2>1, <2>2, SettledSame
  <1>12. SettledInv'
    BY <1>1, <1>2, <1>11, SettledKept
  <1>13. TypeInv'
    BY <1>1, <1>2, <1>5, <1>6, TypeParts, TypeAssembles DEF DirsOK
  <1>14. PlanInv(p)' /\ ViewInv(p)'
    BY <1>1, <1>2, <1>5, <1>11, SettlingView DEF At
  <1>15. LockInv(p)' /\ DirInv(p)'
    <2>1. Single(proc[p].tx)' /\ Dir(p)'.phase = Dir(p).phase
      BY <1>t, <1>2, <1>4, <1>5 DEF Single
    <2> QED BY <1>1, <1>2, <1>5, <2>1, SettlingLock
  <1>16. CommitInv(p)' /\ RollbackInv(p)'
    <2>1. CommitInv(p)'
      BY <1>5 DEF CommitInv, At, Preparing
    <2>2. RollbackInv(p)'
      BY <1>1, <1>2, <1>4, <1>5, <1>6 DEF RollbackInv, At
    <2> QED BY <2>1, <2>2
  <1> QED BY <1>10, <1>11, <1>12, <1>13, <1>14, <1>15, <1>16 DEF IInv, StepImage

LEMMA RollbackPathStep ==
  ASSUME NEW p, Procs = {p}, IInv(p), RollbackPath(p)
  PROVE  IInv(p)' /\ StepImage
  <1>1. /\ TypeInv /\ PlanInv(p) /\ LockInv(p) /\ DirInv(p)
        /\ JournalInv /\ CommitInv(p) /\ RollbackInv(p) /\ SettledInv /\ ViewInv(p)
    BY DEF IInv
  <1>t. PICK t \in Tx : t = proc[p].tx
    BY <1>1, WorkingDir DEF RollbackPath, At, Working, Preparing
  <1>2. PICK z \in Paths :
        /\ proc[p].pc = "rollback" /\ Dir(p).phase = "prepared"
        /\ z \in proc[p].todo
        /\ Dir(p).aside[z] # Absent => ~Exists(z)
        /\ PutActive(z, IF Dir(p).aside[z] # Absent THEN Dir(p).aside[z]
                        ELSE IF Dir(p).op[z] = "create" THEN Absent ELSE active[z])
        /\ PutAside(t, z, Absent) /\ Visited(p, z)
        /\ UNCHANGED <<lock, settings, used, nextTx, faults>>
    <2>1. proc[p].todo \subseteq Paths
      BY <1>1 DEF TypeInv, TypeOK
    <2> QED BY <1>t, <1>1, <2>1 DEF RollbackPath, Due, At, DirInv, PutActive, PutAside
  <1>3. /\ proc' \in [Procs -> ProcSet] /\ proc'[p].pc = "rollback" /\ SameWork(p)
        /\ proc'[p].todo = proc[p].todo \ {z}
    BY <1>1, <1>2, VisitedFacts, TypeParts
  <1>4. /\ DirsOK /\ t \in Tx /\ Dir(p) = dirs[t] /\ Single(t) /\ OpsOK(dirs[t])
        /\ dirs[t].phase = "prepared" /\ PreparedOK(dirs[t])
    BY <1>t, <1>1, <1>2, WorkingDir DEF Working, Preparing
  <1>5. /\ DirsOK' /\ Single(t)' /\ Dir(p)' = dirs'[t]
        /\ dirs'[t].phase = "prepared" /\ dirs'[t].op = dirs[t].op
        /\ dirs'[t].stage = dirs[t].stage
        /\ \A y \in Paths : dirs'[t].aside[y] = IF y = z THEN Absent ELSE dirs[t].aside[y]
    <2>1. FitsAt(z, Absent) /\ PutAside(t, z, Absent)
      BY <1>2, FitsFacts
    <2>2. DirsOK /\ t \in Tx /\ z \in Paths
      BY <1>4
    <2>3. /\ DirsOK' /\ Single(t)'
          /\ dirs'[t].phase = dirs[t].phase /\ dirs'[t].op = dirs[t].op
          /\ dirs'[t].stage = dirs[t].stage
          /\ \A y \in Paths : dirs'[t].aside[y] = IF y = z THEN Absent ELSE dirs[t].aside[y]
      BY <1>4, <2>1, <2>2, PutAsideFacts
    <2> QED BY <1>t, <1>3, <1>4, <2>3 DEF Dir, SameWork
  <1> DEFINE v == IF dirs[t].aside[z] # Absent THEN dirs[t].aside[z]
                  ELSE IF dirs[t].op[z] = "create" THEN Absent ELSE active[z]
  <1>6. /\ DiskOK(active')
        /\ \A y \in Paths : active'[y] = IF y = z THEN v ELSE active[y]
        /\ \A y \in Paths : Exists(y)' <=> IF y = z THEN v # Absent ELSE Exists(y)
    <2>1. FitsAt(z, dirs[t].aside[z]) /\ FitsAt(z, active[z]) /\ FitsAt(z, Absent)
      BY <1>1, TypeParts, FitsFacts
    <2>2. FitsAt(z, v) /\ PutActive(z, v)
      BY <1>2, <1>4, <2>1
    <2> HIDE DEF v
    <2> QED BY <1>1, <2>2, PutActiveFacts, TypeParts
  <1>9. PreparedOK(dirs[t])' /\ OpsOK(dirs[t])'
    <2>1. OpsOK(dirs[t])'
      BY <1>4, <1>5, OpsKept
    <2>2. PreparedOK(dirs[t])'
      BY <1>2, <1>4, <1>5, <1>6 DEF PreparedOK, Exists
    <2> QED BY <2>1, <2>2
  <1>10. JournalInv'
    BY <1>4, <1>5, <1>9, OneJournal
  <1>11. SettledDisk' = SettledDisk
    <2>1. ASSUME NEW x \in Paths PROVE Settled(dirs[t])'[x] = Settled(dirs[t])[x]
      <3>1. /\ Settled(dirs[t])[x] = IF dirs[t].aside[x] # Absent THEN dirs[t].aside[x]
                                     ELSE IF dirs[t].op[x] = "create" THEN Absent ELSE active[x]
            /\ Settled(dirs[t])'[x] = IF dirs'[t].aside[x] # Absent THEN dirs'[t].aside[x]
                                      ELSE IF dirs'[t].op[x] = "create" THEN Absent ELSE active'[x]
        BY <1>4, <1>5, <1>9, SettledPrepared, SettledPreparedNext
      <3>2. dirs[t].aside[x] # Absent => dirs[t].op[x] # "create"
        BY <1>4 DEF PreparedOK
      <3> QED BY <1>5, <1>6, <3>1, <3>2
    <2>2. Journal(t) /\ Journal(t)'
      BY <1>4, <1>5 DEF Journal
    <2> QED BY <1>4, <1>5, <2>1, <2>2, SettledSame
  <1>12. SettledInv'
    <2>1. \A u \in Tx : dirs'[u].phase # "none" => u = t
      BY <1>5 DEF Single
    <2> QED BY <1>1, <1>2, <1>4, <1>5, <1>11, <2>1, SettledKept
  <1>13. TypeInv'
    BY <1>1, <1>2, <1>3, <1>5, <1>6, TypeParts, TypeAssembles DEF DirsOK
  <1>14. PlanInv(p)' /\ ViewInv(p)'
    BY <1>1, <1>2, <1>3, <1>11, SettlingView DEF At
  <1>15. LockInv(p)' /\ DirInv(p)'
    <2>1. Single(proc[p].tx)' /\ Dir(p)'.phase = Dir(p).phase
      BY <1>t, <1>3, <1>4, <1>5 DEF Single, SameWork
    <2> QED BY <1>1, <1>2, <1>3, <2>1, SettlingLock
  <1>16. CommitInv(p)' /\ RollbackInv(p)'
    <2>1. CommitInv(p)'
      BY <1>3 DEF CommitInv, At, Preparing
    <2>2. ASSUME NEW x \in Paths \ proc'[p].todo
          PROVE  dirs'[t].aside[x] = Absent /\ (dirs'[t].op[x] = "create" => ~Exists(x)')
      <3>1. CASE x = z
        <4>1. dirs[t].op[x] = "create" => dirs[t].aside[x] = Absent
          BY <1>4 DEF PreparedOK
        <4> QED BY <1>5, <1>6, <3>1, <4>1
      <3>2. CASE x # z
        <4>1. x \in Paths \ proc[p].todo
          BY <1>3, <3>2
        <4> QED BY <1>1, <1>2, <1>4, <1>5, <1>6, <3>2, <4>1 DEF RollbackInv, At
      <3> QED BY <3>1, <3>2
    <2> QED BY <1>3, <1>5, <2>1, <2>2 DEF RollbackInv, At
  <1> QED BY <1>10, <1>11, <1>12, <1>13, <1>14, <1>15, <1>16 DEF IInv, StepImage

LEMMA ReplayPathStep ==
  ASSUME NEW p, Procs = {p}, IInv(p), ReplayPath(p)
  PROVE  IInv(p)' /\ StepImage
  <1>1. /\ TypeInv /\ PlanInv(p) /\ LockInv(p) /\ DirInv(p)
        /\ JournalInv /\ CommitInv(p) /\ RollbackInv(p) /\ SettledInv /\ ViewInv(p)
    BY DEF IInv
  <1>t. PICK t \in Tx : t = proc[p].tx
    BY <1>1, WorkingDir DEF ReplayPath, At, Working, Preparing
  <1>2. PICK z \in Paths :
        /\ proc[p].pc = "replay" /\ Dir(p).phase = "committed"
        /\ PutActive(z, IF Dir(p).stage[z] # Absent THEN Dir(p).stage[z] ELSE active[z])
        /\ PutStage(t, z, IF z = "index" THEN dirs[t].stage[z] ELSE Absent) /\ Visited(p, z)
        /\ UNCHANGED <<lock, settings, used, nextTx, faults>>
    <2>1. proc[p].todo \subseteq Paths
      BY <1>1 DEF TypeInv, TypeOK
    <2> QED BY <1>t, <1>1, <2>1 DEF ReplayPath, Due, At, DirInv, PutActive, PutStage
  <1>3. /\ proc' \in [Procs -> ProcSet] /\ proc'[p].pc = "replay" /\ SameWork(p)
    BY <1>1, <1>2, VisitedFacts, TypeParts
  <1>4. /\ DirsOK /\ t \in Tx /\ Dir(p) = dirs[t] /\ Single(t) /\ OpsOK(dirs[t])
        /\ dirs[t].phase = "committed" /\ CommittedOK(dirs[t])
    BY <1>t, <1>1, <1>2, WorkingDir DEF Working, Preparing
  <1>5. /\ z # "index" => dirs[t].stage[z] = Absent
        /\ dirs[t].stage[z] \in {Absent, active[z]}
    <2>1. dirs[t].op[z] = "index" <=> z = "index"
      BY <1>4, PathFacts DEF OpsOK
    <2> QED BY <1>4, <2>1 DEF OpsOK, CommittedOK
  <1>6. UNCHANGED active
    <2>1. active \in [Paths -> Content]
      BY <1>1, TypeParts DEF Files
    <2>2. active' = [active EXCEPT ![z] = active[z]]
      BY <1>2, <1>4, <1>5 DEF PutActive
    <2> QED BY <2>1, <2>2
  <1>7. UNCHANGED dirs
    <2>1. /\ dirs \in [Tx -> DirSet] /\ dirs[t] \in DirSet /\ dirs[t].stage \in [Paths -> Content]
      BY <1>4 DEF DirsOK, DiskOK, Files
    <2>2. dirs' = [dirs EXCEPT ![t] = [dirs[t] EXCEPT !.stage = [dirs[t].stage EXCEPT ![z] = dirs[t].stage[z]]]]
      BY <1>2, <1>5 DEF PutStage
    <2>3. [dirs[t].stage EXCEPT ![z] = dirs[t].stage[z]] = dirs[t].stage
      BY <2>1
    <2>4. [dirs[t] EXCEPT !.stage = dirs[t].stage] = dirs[t]
      BY <2>1 DEF DirSet
    <2> QED BY <2>1, <2>2, <2>3, <2>4
  <1>8. SettledDisk' = SettledDisk /\ JournalInv' /\ SettledInv'
    BY <1>1, <1>2, <1>6, <1>7, QuietDisk
  <1>9. TypeInv'
    BY <1>1, <1>2, <1>3, <1>6, <1>7, QuietTypes, TypeParts
  <1>10. PlanInv(p)' /\ ViewInv(p)'
    BY <1>1, <1>2, <1>3, <1>6, <1>8, SettlingView DEF At
  <1>11. LockInv(p)' /\ DirInv(p)'
    <2>1. Single(proc[p].tx)' /\ Dir(p)'.phase = Dir(p).phase
      BY <1>t, <1>3, <1>4, <1>7 DEF Single, Dir, SameWork
    <2> QED BY <1>1, <1>2, <1>3, <2>1, SettlingLock
  <1>12. CommitInv(p)' /\ RollbackInv(p)'
    BY <1>3 DEF CommitInv, RollbackInv, At, Preparing
  <1> QED BY <1>8, <1>9, <1>10, <1>11, <1>12 DEF IInv, StepImage

-----------------------------------------------------------------------------
(* The end of a journal.                                                   *)

\* Where a directory is removed, recovery has nothing left to do.
LEMMA RemovingSettled ==
  ASSUME NEW p, TypeInv, DirInv(p), JournalInv, RollbackInv(p), Removing(p) \/ At(p, "journal")
  PROVE  /\ SettledDisk = active /\ proc[p].pc \in Working
         /\ Dir(p).phase = "prepared" =>
              \A x \in Paths : Dir(p).aside[x] = Absent /\ (Dir(p).op[x] = "create" => ~Exists(x))
<1>1. proc[p].pc \in Working
  BY DEF Removing, At, Working, Preparing
<1>t. PICK t \in Tx : t = proc[p].tx
  BY <1>1, WorkingDir
<1>2. /\ DirsOK /\ Dir(p) = dirs[t] /\ Single(t) /\ dirs[t] \in DirSet /\ dirs[t].phase # "none"
      /\ dirs[t].phase = "prepared" => PreparedOK(dirs[t])
      /\ dirs[t].phase = "committed" => CommittedOK(dirs[t])
  BY <1>1, <1>t, WorkingDir
<1>3. dirs[t].phase = "prepared" =>
        \A x \in Paths : dirs[t].aside[x] = Absent /\ (dirs[t].op[x] = "create" => ~Exists(x))
  BY <1>2 DEF RollbackInv, DirInv, Removing, At, Working, Preparing
<1>4. active \in Files
  BY TypeParts
<1>5. CASE dirs[t].phase = "incomplete"
  <2>1. \A u \in Tx : ~Journal(u)
    BY <1>2, <1>5 DEF Single, Journal
  <2>2. SettledDisk = active
    BY <2>1, SettledNone
  <2> QED BY <1>1, <1>2, <1>5, <2>2
<1>6. CASE dirs[t].phase = "prepared"
  <2>1. SettledDisk = Settled(dirs[t])
    BY <1>2, <1>6, SettledOne DEF Single, Journal
  <2>2. \A x \in Paths : Settled(dirs[t])[x] = active[x]
    BY <1>2, <1>3, <1>6, SettledPrepared DEF Exists
  <2>3. Settled(dirs[t]) = [x \in Paths |-> Settled(dirs[t])[x]]
    BY DEF Settled
  <2>4. SettledDisk = active
    BY <1>4, <2>1, <2>2, <2>3 DEF Files
  <2> QED BY <1>1, <1>2, <1>3, <2>4
<1>7. CASE dirs[t].phase = "committed"
  <2>1. SettledDisk = Settled(dirs[t])
    BY <1>2, <1>7, SettledOne DEF Single, Journal
  <2>2. SettledDisk = active
    BY <1>2, <1>4, <1>7, <2>1, CommittedSettled
  <2> QED BY <1>1, <1>2, <1>7, <2>2
<1>8. dirs[t].phase \in {"incomplete", "prepared", "committed"}
  BY <1>2 DEF DirSet
<1>9. SettledDisk = active
  BY <1>5, <1>6, <1>7, <1>8
<1> QED BY <1>1, <1>2, <1>3, <1>9

EmptyDir(t) == dirs' = [dirs EXCEPT ![t] = NoDir]

LEMMA EmptyDirFacts ==
  ASSUME DirsOK, NEW t \in Tx, Single(t), EmptyDir(t)
  PROVE  DirsOK' /\ \A u \in Tx : dirs'[u].phase = "none"
<1>1. DiskOK(Missing)
  BY PathFacts DEF DiskOK, Missing, Files, Content
<1>2. NoDir \in DirSet /\ NoDir.phase = "none" /\ NoDir.stage = Missing /\ NoDir.aside = Missing
  BY <1>1 DEF NoDir, DirSet, DiskOK
<1> HIDE DEF NoDir
<1>3. dirs' \in [Tx -> DirSet] /\ \A u \in Tx : dirs'[u] = IF u = t THEN NoDir ELSE dirs[u]
  BY <1>2 DEF EmptyDir, DirsOK
<1>4. \A u \in Tx : DiskOK(dirs'[u].stage) /\ DiskOK(dirs'[u].aside)
  BY <1>1, <1>2, <1>3 DEF DirsOK
<1>5. DirsOK'
  BY <1>3, <1>4 DEF DirsOK, DiskOK
<1> QED BY <1>2, <1>3, <1>5 DEF Single

\* The directory goes, and with it everything but the process's own state.
LEMMA Emptied ==
  ASSUME NEW p, Procs = {p}, IInv(p), Removing(p) \/ At(p, "journal"),
         EmptyDir(proc[p].tx), UNCHANGED <<active, settings, used, nextTx>>,
         faults' \in [crashes : 0..MaxCrashes, errors : 0..MaxErrors],
         proc' \in [Procs -> ProcSet], lock' \in {p, NoProc}
  PROVE  /\ SettledDisk = active /\ SettledDisk' = active
         /\ TypeInv' /\ JournalInv' /\ SettledInv'
         /\ \A t \in Tx : dirs'[t].phase = "none"
  <1>1. /\ TypeInv /\ PlanInv(p) /\ LockInv(p) /\ DirInv(p)
        /\ JournalInv /\ CommitInv(p) /\ RollbackInv(p) /\ SettledInv /\ ViewInv(p)
    BY DEF IInv
  <1>2. SettledDisk = active /\ proc[p].pc \in Working
    BY <1>1, RemovingSettled
  <1>3. DirsOK' /\ \A t \in Tx : dirs'[t].phase = "none"
    BY <1>1, <1>2, WorkingDir, EmptyDirFacts
  <1>4. SettledDisk' = active
    BY <1>3, SettledNoneNext DEF Journal
  <1>5. JournalInv'
    BY <1>3 DEF JournalInv
  <1>6. SettledInv'
    BY <1>1, <1>2, <1>3, <1>4, SettledKept
  <1>7. TypeInv'
    <2>1. DiskOK(active')
      BY <1>1, TypeParts
    <2> QED BY <1>1, <1>3, <2>1, TypeParts, TypeAssembles DEF DirsOK
  <1> QED BY <1>2, <1>3, <1>4, <1>5, <1>6, <1>7

\* The failed call of a serving process, or a boot, ends with its directory.
LEMMA EmptiedGiveUp ==
  ASSUME NEW p, Procs = {p}, IInv(p), Removing(p) \/ At(p, "journal"),
         ~AfterMarker(p), GiveUp(p),
         EmptyDir(proc[p].tx), UNCHANGED <<active, settings, used, nextTx>>,
         faults' \in [crashes : 0..MaxCrashes, errors : 0..MaxErrors]
  PROVE  IInv(p)' /\ StepImage
  <1>1. /\ TypeInv /\ PlanInv(p) /\ LockInv(p) /\ DirInv(p)
        /\ JournalInv /\ CommitInv(p) /\ RollbackInv(p) /\ SettledInv /\ ViewInv(p)
    BY DEF IInv
  <1>2. /\ proc' \in [Procs -> ProcSet] /\ lock' = NoProc
        /\ proc[p].plan # "serve" => proc'[p] = Down
        /\ proc[p].plan = "serve" => proc'[p].pc = "up" /\ SameWork(p)
    <2>1. lock = p
      BY <1>1 DEF LockInv, Holding, Removing, At
    <2> QED BY <1>1, <2>1, GiveUpFacts, TypeParts
  <1>3. /\ SettledDisk = active /\ SettledDisk' = active
        /\ TypeInv' /\ JournalInv' /\ SettledInv'
        /\ \A t \in Tx : dirs'[t].phase = "none"
    BY <1>2, Emptied
  <1>4. PlanInv(p)'
    BY <1>2 DEF PlanInv, At, InCommit, AfterMarker, Preparing, Down, SameWork
  <1>5. LockInv(p)' /\ DirInv(p)'
    BY <1>2, <1>3 DEF LockInv, DirInv, At, Holding, Working, Preparing, Clean, Down
  <1>6. CommitInv(p)' /\ RollbackInv(p)'
    BY <1>2 DEF CommitInv, RollbackInv, At, Preparing, Down
  <1>7. ViewInv(p)'
    <2>1. CASE proc[p].plan # "serve"
      BY <1>2, <2>1 DEF ViewInv, HasImage, At, AfterMarker, Preparing, Down
    <2>2. CASE proc[p].plan = "serve"
      <3>1. proc[p].view = ImageOf(SettledDisk) /\ settings.marker /\ ~settings.legacy
        BY <1>1, <2>2 DEF ViewInv, HasImage
      <3> QED BY <1>2, <1>3, <2>2, <3>1
              DEF ViewInv, HasImage, At, AfterMarker, Preparing, SameWork
    <2> QED BY <2>1, <2>2
  <1> QED BY <1>3, <1>4, <1>5, <1>6, <1>7 DEF IInv, StepImage

LEMMA PrepareFailsStep ==
  ASSUME NEW p, Procs = {p}, IInv(p), PrepareFails(p)
  PROVE  IInv(p)' /\ StepImage
  <1>1. TypeInv
    BY DEF IInv
  <1>2. /\ At(p, "journal") /\ Errs /\ GiveUp(p) /\ EmptyDir(proc[p].tx)
        /\ UNCHANGED <<active, settings, used, nextTx>>
    BY DEF PrepareFails, EmptyDir
  <1>3. faults' \in [crashes : 0..MaxCrashes, errors : 0..MaxErrors]
    BY <1>1, <1>2, FaultFacts DEF TypeInv
  <1>4. ~AfterMarker(p)
    BY <1>2 DEF AfterMarker, At
  <1> QED BY <1>2, <1>3, <1>4, EmptiedGiveUp

LEMMA RemoveDirStep ==
  ASSUME NEW p, Procs = {p}, IInv(p), RemoveDir(p)
  PROVE  IInv(p)' /\ StepImage
  <1>1. /\ TypeInv /\ PlanInv(p) /\ LockInv(p) /\ DirInv(p)
        /\ JournalInv /\ CommitInv(p) /\ RollbackInv(p) /\ SettledInv /\ ViewInv(p)
    BY DEF IInv
  <1>2. /\ Removing(p) /\ EmptyDir(proc[p].tx)
        /\ UNCHANGED <<active, settings, used, nextTx, faults>>
    BY DEF RemoveDir, EmptyDir
  <1>3. faults' \in [crashes : 0..MaxCrashes, errors : 0..MaxErrors]
    BY <1>1, <1>2, TypeParts
  <1>4. CASE proc[p].next = "fail"
    <2>1. ~AfterMarker(p)
      BY <1>1, <1>2, <1>4 DEF AfterMarker, At, Removing
    <2> QED BY <1>2, <1>3, <1>4, <2>1, EmptiedGiveUp DEF RemoveDir
  <1>5. CASE proc[p].next # "fail"
    <2>1. /\ proc[p].next \in {"scan", "publish"}
          /\ proc[p].next = "publish" <=> AfterMarker(p)
          /\ proc[p].next = "scan" => proc[p].plan \in Starting
          /\ proc[p].pc \in {"remove", "rollback", "replay"}
      BY <1>1, <1>2, <1>5 DEF PlanInv, InCommit, AfterMarker, At, Removing, Preparing
    <2>2. /\ proc' \in [Procs -> ProcSet] /\ proc'[p].pc = proc[p].next /\ SameWork(p)
          /\ UNCHANGED lock
      <3>1. Goto(p, proc[p].next) /\ proc[p].next \in PC /\ UNCHANGED lock
        BY <1>5, <2>1 DEF RemoveDir, PC
      <3> QED BY <1>1, <3>1, GotoFacts, TypeParts
    <2>3. lock = p
      BY <1>1, <2>1 DEF LockInv, Holding
    <2>4. /\ SettledDisk = active /\ SettledDisk' = active
          /\ TypeInv' /\ JournalInv' /\ SettledInv'
          /\ \A t \in Tx : dirs'[t].phase = "none"
      BY <1>2, <1>3, <2>2, <2>3, Emptied
    <2>5. PlanInv(p)'
      BY <1>1, <2>1, <2>2 DEF PlanInv, At, InCommit, AfterMarker, Preparing, SameWork, Starting
    <2>6. LockInv(p)' /\ DirInv(p)'
      BY <2>1, <2>2, <2>3, <2>4 DEF LockInv, DirInv, At, Holding, Working, Preparing, Clean
    <2>7. CommitInv(p)' /\ RollbackInv(p)'
      BY <2>1, <2>2 DEF CommitInv, RollbackInv, At, Preparing
    <2>8. ViewInv(p)'
      <3>1. /\ Whole(SettledDisk)' <=> Whole(SettledDisk)
            /\ ImageOf(SettledDisk)' = ImageOf(SettledDisk)
            /\ Whole(active)' <=> Whole(active)
            /\ ImageOf(active)' = ImageOf(active)
        BY <1>2, <2>4 DEF Whole, ImageOf
      <3>2. AfterMarker(p)' <=> AfterMarker(p)
        BY <2>1, <2>2 DEF AfterMarker, At
      <3>3. ~HasImage(p)' \/ (proc[p].plan = "serve" /\ AfterMarker(p)')
        BY <2>1, <2>2, <3>2 DEF HasImage, At, SameWork, Starting, Preparing
      <3>4. proc[p].plan = "serve" => AfterMarker(p)
        BY <2>1 DEF Starting
      <3> QED BY <1>1, <1>2, <2>1, <2>2, <3>1, <3>2, <3>4
              DEF ViewInv, HasImage, At, Preparing, SameWork
    <2> QED BY <2>4, <2>5, <2>6, <2>7, <2>8 DEF IInv, StepImage
  <1> QED BY <1>4, <1>5

SetDir(t, d) == dirs' = [dirs EXCEPT ![t] = d]

LEMMA SetDirFacts ==
  ASSUME DirsOK, NEW t \in Tx, Single(t), NEW d \in DirSet, DiskOK(d.stage), DiskOK(d.aside),
         SetDir(t, d)
  PROVE  DirsOK' /\ Single(t)' /\ dirs'[t] = d
<1>1. dirs' \in [Tx -> DirSet] /\ \A u \in Tx : dirs'[u] = IF u = t THEN d ELSE dirs[u]
  BY DEF SetDir, DirsOK
<1>2. \A u \in Tx : DiskOK(dirs'[u].stage) /\ DiskOK(dirs'[u].aside)
  BY <1>1 DEF DirsOK
<1>3. DirsOK'
  BY <1>1, <1>2 DEF DirsOK, DiskOK
<1> QED BY <1>1, <1>3 DEF Single

LEMMA LeftoverFacts ==
  ASSUME NEW d \in DirSet, DiskOK(d.stage), DiskOK(d.aside), NEW e \in Leftovers(d)
  PROVE  /\ e \in DirSet /\ DiskOK(e.stage) /\ DiskOK(e.aside)
         /\ e.op = d.op /\ e.phase \in {d.phase, "incomplete"}
         /\ \A x \in Paths : e.stage[x] \in {Absent, d.stage[x]} /\ e.aside[x] \in {Absent, d.aside[x]}
<1> DEFINE Left(j, S, A) ==
      [phase |-> j, op |-> d.op,
       stage |-> [x \in Paths |-> IF x \in S THEN d.stage[x] ELSE Absent],
       aside |-> [x \in Paths |-> IF x \in A THEN d.aside[x] ELSE Absent]]
<1>1. Leftovers(d) = {Left(j, S, A) : j \in {d.phase, "incomplete"},
                        S \in SUBSET {x \in Paths : d.stage[x] # Absent},
                        A \in SUBSET {x \in Paths : d.aside[x] # Absent}}
  BY DEF Leftovers
<1> HIDE DEF Left
<1>2. PICK j \in {d.phase, "incomplete"}, S \in SUBSET {x \in Paths : d.stage[x] # Absent},
           A \in SUBSET {x \in Paths : d.aside[x] # Absent} : e = Left(j, S, A)
  BY <1>1
<1>3. e = [phase |-> j, op |-> d.op,
           stage |-> [x \in Paths |-> IF x \in S THEN d.stage[x] ELSE Absent],
           aside |-> [x \in Paths |-> IF x \in A THEN d.aside[x] ELSE Absent]]
  BY <1>2 DEF Left
<1>4. /\ e.stage = [x \in Paths |-> IF x \in S THEN d.stage[x] ELSE Absent]
      /\ e.aside = [x \in Paths |-> IF x \in A THEN d.aside[x] ELSE Absent]
      /\ e.op = d.op /\ e.phase = j
  BY <1>3
<1>5. /\ e.stage \in [Paths -> Content] /\ e.aside \in [Paths -> Content]
      /\ \A x \in Paths : e.stage[x] \in {Absent, d.stage[x]} /\ e.aside[x] \in {Absent, d.aside[x]}
  BY <1>4 DEF DiskOK, Files, Content
<1>6. DiskOK(e.stage) /\ DiskOK(e.aside)
  BY <1>5, PathFacts DEF DiskOK, Files
<1>7. e \in DirSet
  BY <1>3, <1>4, <1>5 DEF DirSet, Files
<1> QED BY <1>4, <1>5, <1>6, <1>7

LEMMA CrashRemovingStep ==
  ASSUME NEW p, Procs = {p}, IInv(p), CrashRemoving(p)
  PROVE  IInv(p)' /\ StepImage
  <1>1. /\ TypeInv /\ PlanInv(p) /\ LockInv(p) /\ DirInv(p)
        /\ JournalInv /\ CommitInv(p) /\ RollbackInv(p) /\ SettledInv /\ ViewInv(p)
    BY DEF IInv
  <1>2. /\ SettledDisk = active /\ proc[p].pc \in Working
        /\ Dir(p).phase = "prepared" =>
             \A x \in Paths : Dir(p).aside[x] = Absent /\ (Dir(p).op[x] = "create" => ~Exists(x))
    BY <1>1, RemovingSettled DEF CrashRemoving
  <1>t. PICK t \in Tx : t = proc[p].tx
    BY <1>1, <1>2, WorkingDir
  <1>3. PICK d \in Leftovers(Dir(p)) :
        /\ SetDir(t, d) /\ Dies /\ lock' = NoProc
        /\ proc' = [proc EXCEPT ![p] = Down]
        /\ UNCHANGED <<active, settings, used, nextTx>>
    BY <1>t DEF CrashRemoving, SetDir
  <1>4. /\ DirsOK /\ Dir(p) = dirs[t] /\ Single(t) /\ OpsOK(dirs[t]) /\ dirs[t] \in DirSet
        /\ dirs[t].phase # "none"
        /\ DiskOK(dirs[t].stage) /\ DiskOK(dirs[t].aside)
        /\ dirs[t].phase = "prepared" => PreparedOK(dirs[t])
        /\ dirs[t].phase = "committed" => CommittedOK(dirs[t])
    BY <1>t, <1>1, <1>2, WorkingDir
  <1>5. /\ d \in DirSet /\ DiskOK(d.stage) /\ DiskOK(d.aside)
        /\ d.op = dirs[t].op /\ d.phase \in {dirs[t].phase, "incomplete"}
        /\ \A x \in Paths : /\ d.stage[x] \in {Absent, dirs[t].stage[x]}
                            /\ d.aside[x] \in {Absent, dirs[t].aside[x]}
    BY <1>3, <1>4, LeftoverFacts
  <1>6. DirsOK' /\ Single(t)' /\ dirs'[t] = d
    BY <1>3, <1>4, <1>5, SetDirFacts
  <1>7. /\ proc' \in [Procs -> ProcSet] /\ proc'[p] = Down
        /\ faults' \in [crashes : 0..MaxCrashes, errors : 0..MaxErrors]
    BY <1>1, <1>3, DownType, FaultFacts, TypeParts DEF TypeInv
  <1>8. OpsOK(dirs[t])'
    BY <1>4, <1>5, <1>6, OpsKept
  <1>e. \A x \in Paths : (Exists(x)' <=> Exists(x)) /\ active'[x] = active[x]
    BY <1>3 DEF Exists
  <1>9. dirs'[t].phase = "prepared" => PreparedOK(dirs[t])'
    BY <1>2, <1>4, <1>5, <1>6, <1>e DEF PreparedOK
  <1>10. dirs'[t].phase = "committed" => CommittedOK(dirs[t])'
    BY <1>4, <1>5, <1>6, <1>e DEF CommittedOK
  <1>11. JournalInv'
    BY <1>6, <1>8, <1>9, <1>10, OneJournal
  <1>12. SettledDisk' = active'
    <2>1. active' \in Files
      BY <1>1, <1>3, TypeParts
    <2>2. CASE ~Journal(t)'
      <3>1. \A u \in Tx : ~Journal(u)'
        BY <1>6, <2>2 DEF Journal, Single
      <3> QED BY <3>1, SettledNoneNext
    <2>3. CASE Journal(t)'
      <3>1. SettledDisk' = Settled(dirs[t])'
        BY <1>6, <2>3, SettledOneNext DEF Single
      <3>2. CASE dirs'[t].phase = "committed"
        BY <1>10, <2>1, <3>1, <3>2, CommittedSettledNext
      <3>3. CASE dirs'[t].phase = "prepared"
        <4>1. \A x \in Paths : dirs'[t].aside[x] = Absent /\ (dirs'[t].op[x] = "create" => ~Exists(x)')
          BY <1>2, <1>4, <1>5, <1>6, <1>e, <3>3
        <4>2. \A x \in Paths : Settled(dirs[t])'[x] = active'[x]
          BY <1>9, <3>3, <4>1, SettledPreparedNext DEF Exists
        <4>3. Settled(dirs[t])' = [x \in Paths |-> Settled(dirs[t])'[x]]
          BY DEF Settled
        <4> QED BY <2>1, <3>1, <4>2, <4>3 DEF Files
      <3> QED BY <2>3, <3>2, <3>3 DEF Journal
    <2> QED BY <2>2, <2>3
  <1>13. SettledInv'
    <2>1. \A u \in Tx : dirs'[u].phase # "none" => u = t
      BY <1>6 DEF Single
    <2> QED BY <1>1, <1>2, <1>3, <1>4, <1>5, <1>6, <1>12, <2>1, SettledKept
  <1>14. TypeInv'
    <2>1. DiskOK(active')
      BY <1>1, <1>3, TypeParts
    <2> QED BY <1>1, <1>3, <1>6, <1>7, <2>1, TypeParts, TypeAssembles DEF DirsOK
  <1>15. PlanInv(p)'
    BY <1>7 DEF PlanInv, At, InCommit, AfterMarker, Preparing, Down
  <1>16. LockInv(p)' /\ DirInv(p)'
    BY <1>3, <1>6, <1>7 DEF LockInv, DirInv, At, Holding, Working, Preparing, Clean, Down, Single
  <1>17. CommitInv(p)' /\ RollbackInv(p)'
    BY <1>7 DEF CommitInv, RollbackInv, At, Preparing, Down
  <1>18. ViewInv(p)'
    BY <1>7 DEF ViewInv, HasImage, At, AfterMarker, Preparing, Down
  <1>19. StepImage
    BY <1>2, <1>3, <1>12 DEF StepImage
  <1> QED BY <1>11, <1>13, <1>14, <1>15, <1>16, <1>17, <1>18, <1>19 DEF IInv

-----------------------------------------------------------------------------
(* Every step keeps the invariant.                                         *)

LEMMA NextStep ==
  ASSUME NEW p, Procs = {p}, IInv(p), Next, NoEarlyAppend,
         proc[p].plan = "serve" => ~SettleFails(p)
  PROVE  IInv(p)' /\ StepImage
<1>1. Mutate(p) \/ Step(p) \/ FaultStep(p)
  BY DEF Next
<1>2. CASE Mutate(p)
  BY <1>2, MutateStep
<1>3. CASE CommitStep(p)
  BY <1>3, WriteJournalStep, MoveAsideStep, StartInstallStep, InstallStep, IndexAsideStep,
     IndexWriteStep, WriteMarkerStep, HashCommittedStep, PublishStep DEF CommitStep
<1>4. CASE SettleStep(p)
  BY <1>4, LockForRecoveryStep, ScanStep, RecoveredStep, RollbackClearStep, RollbackPathStep,
     ReplayPathStep, RemoveDirStep DEF SettleStep
<1>5. CASE BootStep(p)
  BY <1>5, BootStepOK, DefaultsStep, AppendDefaultStep, ReadStep, ReadGenerationStep,
     DeleteLegacySettingsStep, SetMarkerStep DEF BootStep
<1>6. CASE FaultStep(p)
  BY <1>6, CrashStep, CrashRemovingStep, PrepareFailsStep, CommitFailsStep, SettleFailsStep
     DEF FaultStep
<1> QED BY <1>1, <1>2, <1>3, <1>4, <1>5, <1>6 DEF Step

LEMMA StutterStep ==
  ASSUME NEW p, IInv(p), UNCHANGED vars
  PROVE  IInv(p)' /\ StepImage
  <1>1. /\ TypeInv /\ PlanInv(p) /\ LockInv(p) /\ DirInv(p)
        /\ JournalInv /\ CommitInv(p) /\ RollbackInv(p) /\ SettledInv /\ ViewInv(p)
    BY DEF IInv
  <1>2. UNCHANGED <<active, dirs, lock, settings, proc, used, nextTx, faults>>
    BY DEF vars
  <1>3. SettledDisk' = SettledDisk /\ JournalInv' /\ SettledInv'
    BY <1>1, <1>2, QuietDisk
  <1>4. TypeInv'
    BY <1>1, <1>2, QuietTypes, TypeParts
  <1>5. PlanInv(p)' /\ LockInv(p)' /\ DirInv(p)'
    BY <1>1, <1>2 DEF PlanInv, LockInv, DirInv, At, InCommit, AfterMarker, Dir
  <1>6. CommitInv(p)' /\ RollbackInv(p)'
    BY <1>1, <1>2 DEF CommitInv, RollbackInv, At, Dir, Exists, Target, StagedAt, InstalledAt
  <1>7. ViewInv(p)'
    BY <1>1, <1>2, <1>3 DEF ViewInv, HasImage, At, AfterMarker, Whole, ImageOf
  <1> QED BY <1>3, <1>4, <1>5, <1>6, <1>7 DEF IInv, StepImage

-----------------------------------------------------------------------------
(* The first boot.                                                         *)

LEMMA InstalledWhole ==
  /\ InstalledImage \in Reg!Images /\ Reg!WellFormed(InstalledImage)
  /\ Whole(DiskOf(InstalledImage)) /\ DiskOK(DiskOf(InstalledImage))
  /\ DiskOf(InstalledImage)["memory"] = Absent
<1> DEFINE i == InstalledImage
<1>1. /\ i.profiles = [a \in Agents |-> IF a = Ryuzi THEN Default ELSE Absent]
      /\ i.sub = Default /\ i.listed = {Ryuzi} /\ i.default = Ryuzi
      /\ i = [profiles |-> i.profiles, sub |-> i.sub, listed |-> i.listed, default |-> i.default]
  BY DEF InstalledImage
<1> HIDE DEF i
<1>2. i \in Reg!Images
  BY <1>1, RegistryAssumption DEF Reg!Images
<1>3. Reg!Ids(i) = {Ryuzi}
  BY <1>1, RegistryAssumption, AbsentFacts DEF Reg!Ids
<1>4. Reg!WellFormed(i)
  BY <1>1, <1>2, <1>3 DEF Reg!WellFormed
<1>5. /\ DiskOK(DiskOf(i)) /\ DiskOf(i)["memory"] = Absent
      /\ DiskOf(i)["subagents"] = i.sub /\ DiskOf(i)["index"] = IndexOf(i)
      /\ \A a \in Agents : DiskOf(i)[a] = i.profiles[a]
      /\ DiskOf(i)["subagents"] # Absent /\ DiskOf(i)["index"] # Absent
  BY <1>2, DiskOfFacts
<1>6. IndexOf(i).listed = i.listed /\ IndexOf(i).default = i.default
  BY DEF IndexOf
<1>7. /\ DiskOf(i)["index"].listed = {a \in Agents : DiskOf(i)[a] # Absent}
      /\ DiskOf(i)[DiskOf(i)["index"].default] # Absent
  BY <1>1, <1>3, <1>5, <1>6, RegistryAssumption, AbsentFacts DEF Reg!Ids
<1>8. Whole(DiskOf(i))
  BY <1>5, <1>7, WholeDisk
<1> QED BY <1>2, <1>4, <1>5, <1>8 DEF i

LEMMA InitInv ==
  ASSUME NEW p, Procs = {p}, Init
  PROVE  IInv(p)
  <1>1. PICK k \in Installs :
        /\ active = CASE k = "existing" -> DiskOf(InstalledImage)
                      [] k = "fresh" -> Missing
                      [] OTHER -> [Missing EXCEPT !["memory"] = Default]
        /\ settings = [marker |-> k = "existing", legacy |-> k = "upgrade"]
    BY DEF Init
  <1>2. /\ dirs = [t \in Tx |-> NoDir] /\ lock = NoProc /\ proc = [q \in Procs |-> Down]
        /\ used = {Ryuzi} /\ nextTx = 1 /\ faults = [crashes |-> 0, errors |-> 0]
    BY DEF Init
  <1>3. k \in {"existing", "fresh", "upgrade"}
    BY RegistryAssumption
  <1>4. DiskOK(Missing) /\ \A x \in Paths : Missing[x] = Absent
    BY PathFacts DEF DiskOK, Missing, Files, Content
  <1>5. /\ DiskOK(active)
        /\ k # "upgrade" => active["memory"] = Absent
        /\ k = "existing" => Whole(active)
        /\ k # "existing" => ~Whole(active) /\ \A x \in Paths : x # "memory" => active[x] = Absent
        /\ k = "upgrade" => active["memory"] # Absent
    <2>1. CASE k = "existing"
      BY <1>1, <2>1, InstalledWhole
    <2>2. CASE k = "fresh"
      BY <1>1, <1>4, <2>2, WholeDisk, PathFacts
    <2>3. CASE k = "upgrade"
      <3>1. active = [Missing EXCEPT !["memory"] = Default] /\ FitsAt("memory", Default)
        BY <1>1, <2>3, RegistryAssumption DEF FitsAt
      <3>2. DiskOK(active) /\ \A x \in Paths : active[x] = IF x = "memory" THEN Default ELSE Absent
        <4> DEFINE g == [Missing EXCEPT !["memory"] = Default]
        <4>1. DiskOK(g) /\ \A y \in Paths : g[y] = IF y = "memory" THEN Default ELSE Missing[y]
          <5>1. "memory" \in Paths /\ DiskOK(Missing)
            BY <1>4, PathFacts
          <5>2. FitsAt("memory", Default)
            BY <3>1
          <5> QED BY ONLY <5>1, <5>2, DiskPut
        <4>2. active = g
          BY <3>1
        <4> HIDE DEF g
        <4> QED BY <1>4, <4>1, <4>2
      <3> QED BY <2>3, <3>2, WholeDisk, PathFacts, RegistryAssumption, AbsentFacts
    <2> QED BY <1>3, <2>1, <2>2, <2>3
  <1>6. /\ NoDir \in DirSet /\ NoDir.phase = "none" /\ NoDir.stage = Missing /\ NoDir.aside = Missing
    BY <1>4 DEF NoDir, DirSet, DiskOK
  <1>7. DirsOK /\ \A t \in Tx : dirs[t].phase = "none"
    BY <1>2, <1>4, <1>6 DEF DirsOK
  <1>8. SettledDisk = active
    BY <1>7, CleanDisk
  <1>9. proc \in [Procs -> ProcSet] /\ proc[p] = Down
    BY <1>2, DownType
  <1>10. TypeInv
    <2>1. used \subseteq Agents /\ nextTx \in 1..MaxTx + 1
          /\ faults \in [crashes : 0..MaxCrashes, errors : 0..MaxErrors]
          /\ settings \in [marker : BOOLEAN, legacy : BOOLEAN]
      BY <1>1, <1>2, RegistryAssumption
    <2>2. \A q \in Procs : proc[q].tx \in 0..MaxTx /\ proc[q].todo \subseteq Paths
      BY <1>9 DEF ProcSet
    <2>3. TypeOK
      BY <1>2, <1>5, <1>7, <2>1, <2>2 DEF TypeOK, DiskOK, DirsOK, Files, Content, Index, DirSet
    <2> QED BY <1>5, <1>7, <1>9, <2>3 DEF TypeInv, DirsOK
  <1>11. PlanInv(p) /\ LockInv(p) /\ DirInv(p)
    BY <1>2, <1>7, <1>9 DEF PlanInv, LockInv, DirInv, At, InCommit, AfterMarker, Down, Holding,
       Working, Preparing, Clean
  <1>12. JournalInv /\ CommitInv(p) /\ RollbackInv(p)
    BY <1>7, <1>9 DEF JournalInv, CommitInv, RollbackInv, At, Preparing, Down
  <1>13. SettledInv
    BY <1>1, <1>3, <1>5, <1>7, <1>8, PathFacts DEF SettledInv
  <1>14. ViewInv(p)
    BY <1>9 DEF ViewInv, HasImage, At, AfterMarker, Preparing, Down
  <1> QED BY <1>10, <1>11, <1>12, <1>13, <1>14 DEF IInv

-----------------------------------------------------------------------------
(* What is left of a replay, and what a failed commit has cost.            *)

TailInv(p) ==
  /\ At(p, "replay") => \A x \in proc[p].todo : Dir(p).op[x] # "none"
  /\ At(p, "rollback") /\ proc[p].next = "fail" => faults.errors >= 1

LEMMA TailKept ==
  ASSUME NEW p, Procs = {p}, IInv(p), TailInv(p), Next
  PROVE  TailInv(p)'
  <1>1. TypeInv /\ proc \in [Procs -> ProcSet] /\ DirInv(p) /\ JournalInv
    BY TypeParts DEF IInv
  <1>2. Mutate(p) \/ Step(p) \/ FaultStep(p)
    BY DEF Next
  <1>e. /\ faults.errors \in Nat /\ faults.crashes \in Nat
        /\ Errs => faults'.errors = faults.errors + 1
        /\ Dies => faults'.errors = faults.errors
    <2>1. faults \in [crashes : 0..MaxCrashes, errors : 0..MaxErrors]
      BY <1>1, TypeParts
    <2> QED BY <2>1, RegistryAssumption DEF Errs, Dies
  \* Steps after which the process is at neither pass.
  <1>q. ASSUME proc'[p].pc \notin {"rollback", "replay"} PROVE TailInv(p)'
    BY <1>q DEF TailInv, At
  <1>3. ASSUME NEW l \in PC \ {"rollback", "replay"}, Goto(p, l) PROVE TailInv(p)'
    BY <1>1, <1>3, <1>q, GotoFacts
  <1>4. ASSUME NEW l \in PC \ {"rollback", "replay"}, NEW S \in SUBSET Paths, Visit(p, l, S)
        PROVE  TailInv(p)'
    BY <1>1, <1>4, <1>q, VisitFacts
  <1>5. ASSUME NEW x, Visited(p, x), proc[p].pc \notin {"rollback", "replay"} PROVE TailInv(p)'
    BY <1>1, <1>5, <1>q, VisitedFacts
  <1>6. ASSUME GiveUp(p) PROVE TailInv(p)'
    BY <1>1, <1>6, <1>q, GiveUpFacts DEF Down
  <1>7. ASSUME proc' = [proc EXCEPT ![p] = Down] PROVE TailInv(p)'
    BY <1>1, <1>7, <1>q DEF Down
  <1>8. CASE Mutate(p) \/ Defaults(p) \/ AppendDefault(p)
    <2>1. PICK c : Prepare(p, c)
      BY <1>8 DEF Mutate, Defaults, AppendDefault
    <2>2. proc'[p].pc = "journal"
      BY <1>1, <2>1 DEF Prepare, ProcSet
    <2> QED BY <1>q, <2>2
  <1>9. CASE CommitStep(p)
    <2>1. CASE WriteJournal(p) \/ StartInstall(p)
      BY <2>1, <1>4 DEF WriteJournal, StartInstall, PC
    <2>2. CASE MoveAside(p) \/ Install(p)
      BY <2>2, <1>5 DEF MoveAside, Install, At
    <2>3. CASE IndexAside(p) \/ IndexWrite(p) \/ WriteMarker(p)
      BY <2>3, <1>3 DEF IndexAside, IndexWrite, WriteMarker, PC
    <2>4. CASE HashCommitted(p)
      <3>1. Hashed(p, Generation, "replay", Touched(Dir(p)), "publish")
        BY <2>4 DEF HashCommitted, Hashed
      <3>2. Touched(Dir(p)) \in SUBSET Paths /\ Generation \in Generations /\ "replay" \in PC
        BY <1>1, TypeParts, GenerationType DEF Touched, PC
      <3>3. /\ proc'[p].pc = "replay" /\ proc'[p].todo = Touched(Dir(p))
            /\ proc'[p].tx = proc[p].tx
        BY <1>1, <3>1, <3>2, HashedFacts
      <3>4. UNCHANGED dirs
        BY <2>4 DEF HashCommitted
      <3> QED BY <3>3, <3>4 DEF TailInv, At, Dir, Touched
    <2>5. CASE Publish(p)
      <3>1. proc'[p].pc \in {"up", "recover"}
        BY <1>1, <2>5 DEF Publish, ProcSet
      <3> QED BY <1>q, <3>1
    <2> QED BY <1>9, <2>1, <2>2, <2>3, <2>4, <2>5 DEF CommitStep
  <1>10. CASE SettleStep(p)
    <2>1. CASE LockForRecovery(p) \/ Recovered(p)
      BY <2>1, <1>3 DEF LockForRecovery, Recovered, PC
    <2>2. CASE Scan(p)
      <3>1. PICK t \in Tx : Take(p, t, Touched(dirs[t]), "scan", ScanTo(t))
        BY <2>2 DEF Scan, Take, ScanTo
      <3>2. /\ t \in 0..MaxTx /\ Touched(dirs[t]) \in SUBSET Paths /\ ScanTo(t) \in PC
        BY RegistryAssumption DEF Tx, Touched, PC, ScanTo
      <3>3. /\ proc'[p].todo = Touched(dirs[t]) /\ proc'[p].next = "scan" /\ proc'[p].tx = t
        BY <1>1, <3>1, <3>2, TakeFacts
      <3>4. UNCHANGED dirs
        BY <2>2 DEF Scan
      <3> QED BY <3>3, <3>4 DEF TailInv, At, Dir, Touched
    <2>3. CASE RollbackClear(p)
      BY <2>3 DEF RollbackClear, TailInv, At
    <2>4. CASE RollbackPath(p)
      <3>1. PICK z : Visited(p, z)
        BY <2>4 DEF RollbackPath
      <3>2. proc'[p].pc = "rollback" /\ proc'[p].next = proc[p].next /\ UNCHANGED faults
        BY <1>1, <2>4, <3>1, VisitedFacts DEF RollbackPath, At, SameWork
      <3> QED BY <2>4, <3>2 DEF TailInv, At, RollbackPath
    <2>5. CASE ReplayPath(p)
      <3>1. PICK z : /\ Visited(p, z)
                     /\ dirs' = [dirs EXCEPT ![proc[p].tx].stage[z] = IF z = "index" THEN @ ELSE Absent]
        BY <2>5 DEF ReplayPath
      <3>2. /\ proc'[p].pc = "replay" /\ proc'[p].todo = proc[p].todo \ {z}
            /\ proc'[p].tx = proc[p].tx
        BY <1>1, <2>5, <3>1, VisitedFacts DEF ReplayPath, At, SameWork
      <3>3. proc[p].tx \in Tx /\ DirsOK
        BY <1>1, <2>5, WorkingDir DEF ReplayPath, At, Working
      <3>4. dirs'[proc[p].tx].op = dirs[proc[p].tx].op
        BY <3>1, <3>3 DEF DirsOK, DirSet
      <3> QED BY <2>5, <3>2, <3>4 DEF TailInv, At, Dir, ReplayPath
    <2>6. CASE RemoveDir(p)
      <3>1. CASE proc[p].next = "fail"
        BY <1>6, <2>6, <3>1 DEF RemoveDir
      <3>2. CASE proc[p].next # "fail"
        <4>1. Goto(p, proc[p].next) /\ proc[p].next \in {"none", "scan", "publish"}
          BY <1>1, <2>6, <3>2 DEF RemoveDir, ProcSet
        <4>2. proc'[p].pc = proc[p].next
          BY <1>1, <4>1 DEF Goto, ProcSet
        <4> QED BY <1>q, <4>1, <4>2
      <3> QED BY <3>1, <3>2
    <2> QED BY <1>10, <2>1, <2>2, <2>3, <2>4, <2>5, <2>6 DEF SettleStep
  <1>11. CASE Boot(p)
    <2>1. proc'[p].pc = "recover"
      BY <1>1, <1>11 DEF Boot, Down
    <2> QED BY <1>q, <2>1
  <1>12. CASE Read(p) \/ ReadGeneration(p) \/ SetMarker(p)
    <2>1. CASE GiveUp(p)
      BY <1>6, <2>1
    <2>2. CASE ~GiveUp(p)
      <3>1. proc'[p].pc \in {"generation", "append", "finish", "up"}
        BY <1>1, <1>12, <2>2 DEF Read, ReadGeneration, SetMarker, ProcSet
      <3> QED BY <1>q, <3>1
    <2> QED BY <2>1, <2>2
  <1>13. CASE DeleteLegacySettings(p)
    BY <1>3, <1>13 DEF DeleteLegacySettings, PC
  <1>14. CASE FaultStep(p)
    <2>1. CASE Crash(p) \/ CrashRemoving(p)
      BY <1>7, <2>1 DEF Crash, CrashRemoving
    <2>2. CASE PrepareFails(p) \/ SettleFails(p)
      BY <1>6, <2>2 DEF PrepareFails, SettleFails
    <2>3. CASE CommitFails(p)
      <3>1. Jump(p, "rollback", Touched(Dir(p)), "fail") /\ Errs
        BY <2>3 DEF CommitFails, RollBack, Jump
      <3>2. proc'[p].pc = "rollback"
        BY <1>1, <3>1 DEF Jump, ProcSet
      <3> QED BY <1>e, <3>1, <3>2 DEF TailInv, At
    <2> QED BY <1>14, <2>1, <2>2, <2>3 DEF FaultStep
  <1> QED BY <1>2, <1>8, <1>9, <1>10, <1>11, <1>12, <1>13, <1>14 DEF Step, BootStep

-----------------------------------------------------------------------------
(* What the invariant says of the registry.                                *)

LEMMA InvRegistry ==
  ASSUME NEW p, Procs = {p}, IInv(p), TailInv(p)
  PROVE  RegistryInv
  <1>1. TypeInv /\ PlanInv(p) /\ DirInv(p) /\ JournalInv /\ ViewInv(p)
    BY DEF IInv
  <1>2. TypeOK
    BY <1>1 DEF TypeInv
  <1>3. RecoveryNeverBails
    <2>1. ASSUME At(p, "rollback"), NEW x \in proc[p].todo PROVE ~RollbackBails(p, x)
      <3>1. proc[p].pc \in Working /\ Dir(p).phase = "prepared" /\ x \in Paths
        BY <1>1, <2>1 DEF DirInv, At, Working, TypeInv, TypeOK
      <3>2. PreparedOK(Dir(p))
        BY <1>1, <3>1, WorkingDir
      <3> QED BY <3>1, <3>2 DEF PreparedOK, RollbackBails
    <2>2. ASSUME At(p, "replay"), NEW x \in proc[p].todo PROVE ~ReplayBails(p, x)
      <3>1. proc[p].pc \in Working /\ Dir(p).phase = "committed" /\ x \in Paths
        BY <1>1, <2>2 DEF DirInv, At, Working, TypeInv, TypeOK
      <3>2. CommittedOK(Dir(p)) /\ Dir(p) \in DirSet
        BY <1>1, <3>1, WorkingDir
      <3>3. Dir(p).op[x] \in {"replace", "create", "delete", "index"}
        BY <2>2, <3>1, <3>2 DEF TailInv, DirSet
      <3> QED BY <3>1, <3>2, <3>3 DEF CommittedOK, ReplayBails
    <2> QED BY <2>1, <2>2 DEF RecoveryNeverBails
  <1>4. GenerationVouchesForImage
    <2>1. At(p, "up") => proc[p].view = ImageOf(SettledDisk)
      BY <1>1 DEF PlanInv, ViewInv, HasImage, AfterMarker, At
    <2> QED BY <2>1 DEF GenerationVouchesForImage
  <1> QED BY <1>2, <1>3, <1>4 DEF RegistryInv

LEMMA InvMemory ==
  ASSUME NEW p, IInv(p)
  PROVE  MemoryIsTradedForRegistry
  <1>1. TypeInv /\ SettledInv
    BY DEF IInv
  <1> SUFFICES ASSUME settings.legacy, ~Exists("memory"),
                      \A t \in Tx : ~(Journal(t) /\ dirs[t].op["memory"] = "delete")
               PROVE  /\ Exists("index") /\ Exists("subagents")
                      /\ \A a \in active["index"].listed : Exists(a)
    BY DEF MemoryIsTradedForRegistry, Journal
  <1>2. \A t \in Tx : ~Journal(t)
    BY <1>1 DEF SettledInv, Journal
  <1>3. SettledDisk = active
    BY <1>2, SettledNone
  <1>4. Whole(active) /\ DiskOK(active)
    BY <1>1, <1>3, TypeParts DEF SettledInv, Exists
  <1> QED BY <1>4, WholeDisk DEF Exists

\* The image that AtomicRegistry sees.
Image == LET i == ImageOf(SettledDisk) IN IF Reg!WellFormed(i) THEN i ELSE Absent

LEMMA SameMutations ==
  ASSUME NEW i
  PROVE  /\ Atomic!Mutations(i) = Reg!Mutations(i)
         /\ Atomic!Appended(i) = Reg!Appended(i)
         /\ Atomic!WellFormed(i) <=> Reg!WellFormed(i)
  BY DEF Atomic!Mutations, Atomic!Created, Atomic!Updated, Atomic!DefaultSet,
         Atomic!SubagentsSet, Atomic!Deleted, Atomic!Ids, Atomic!WellFormed, Atomic!Images,
         Atomic!Appended, Reg!Appended, Reg!Mutations, Reg!Created, Reg!Updated, Reg!DefaultSet,
         Reg!SubagentsSet, Reg!Deleted, Reg!Ids, Reg!WellFormed, Reg!Images

LEMMA AtomicInit == Atomic!Init
  BY SameMutations DEF Atomic!Init

LEMMA AtomicNext ==
  ASSUME StepImage
  PROVE  Image' = Image \/ Atomic!Next
  <1>1. CASE SettledDisk' = SettledDisk
    BY <1>1 DEF Image, ImageOf
  <1>2. CASE ~Whole(SettledDisk) /\ ~Whole(SettledDisk')
    <2>1. Image = Absent /\ Image' = Absent
      BY <1>2 DEF Image, Whole, ImageOf
    <2> QED BY <2>1
  <1>3. CASE /\ Whole(SettledDisk')
             /\ Whole(SettledDisk) => ImageOf(SettledDisk') \in Successors(ImageOf(SettledDisk))
    <2>1. Image' = ImageOf(SettledDisk') /\ Reg!WellFormed(Image')
      BY <1>3 DEF Image, Whole, ImageOf
    <2>2. CASE ~Whole(SettledDisk)
      <3>1. Image = Absent
        BY <2>2 DEF Image, Whole
      <3> QED BY <2>1, <3>1, SameMutations DEF Atomic!Next, Atomic!Bootstrap, Image
    <2>3. CASE Whole(SettledDisk)
      <3>1. Image = ImageOf(SettledDisk) /\ Image \in Reg!Images
        BY <2>3 DEF Image, Whole, Reg!WellFormed
      <3>2. Image # Absent /\ Image' \in Reg!Mutations(Image) \cup Reg!Appended(Image)
        BY <1>3, <2>1, <2>3, <3>1, AbsentFacts DEF Successors
      <3> QED BY <3>2, SameMutations DEF Atomic!Next, Atomic!Mutate, Atomic!Repair, Image
    <2> QED BY <2>2, <2>3
  <1> QED BY <1>1, <1>2, <1>3 DEF StepImage

-----------------------------------------------------------------------------
(* The theorems.                                                           *)

LEMMA Invariance ==
  ASSUME NEW p, Procs = {p}
  PROVE  Spec /\ RollbackEnds /\ InstalledAgentRuns =>
           [](IInv(p) /\ TailInv(p)) /\ [][StepImage]_vars
<1>1. Init => IInv(p) /\ TailInv(p)
  <2> SUFFICES ASSUME Init PROVE IInv(p) /\ TailInv(p)
    OBVIOUS
  <2>1. proc[p] = Down
    BY DEF Init
  <2> QED BY <2>1, InitInv DEF TailInv, At, Down
<1>2. IInv(p) /\ TailInv(p) /\ [Next]_vars
        /\ [NoSecondError]_vars /\ [NoEarlyAppend]_vars
      => IInv(p)' /\ TailInv(p)' /\ StepImage
  <2> SUFFICES ASSUME IInv(p), TailInv(p), [Next]_vars,
                      [NoSecondError]_vars, [NoEarlyAppend]_vars
               PROVE  IInv(p)' /\ TailInv(p)' /\ StepImage
    OBVIOUS
  <2>1. CASE UNCHANGED vars
    <3>1. TailInv(p)'
      BY <2>1 DEF vars, TailInv, At, Dir
    <3> QED BY <2>1, <3>1, StutterStep
  <2>2. CASE Next /\ NoEarlyAppend /\ (proc[p].plan = "serve" => ~SettleFails(p))
    BY <2>2, NextStep, TailKept
  <2>3. CASE ~UNCHANGED vars
    BY <2>2, <2>3 DEF NoSecondError
  <2> QED BY <2>1, <2>3
<1> QED BY <1>1, <1>2, PTL DEF Spec, RollbackEnds, InstalledAgentRuns

\* One error in all is not enough to strike the rollback that an error began.
THEOREM OneErrorIsRolledBack ==
  ASSUME NEW p, Procs = {p}, MaxErrors <= 1
  PROVE  Spec /\ InstalledAgentRuns => RollbackEnds
<1> DEFINE Inv == IInv(p) /\ TailInv(p)
<1>1. Init => Inv
  <2> SUFFICES ASSUME Init PROVE Inv
    OBVIOUS
  <2>1. proc[p] = Down
    BY DEF Init
  <2> QED BY <2>1, InitInv DEF TailInv, At, Down
<1>2. Inv => NoSecondError
  <2> SUFFICES ASSUME IInv(p), TailInv(p), proc[p].plan = "serve", SettleFails(p)
               PROVE  FALSE
    BY DEF NoSecondError
  <2>1. PlanInv(p) /\ TypeInv
    BY DEF IInv
  <2>2. faults.errors < MaxErrors /\ faults.errors \in Nat
    BY <2>1, RegistryAssumption, TypeParts DEF SettleFails, Errs
  <2>3. ~AfterMarker(p) /\ proc[p].pc \in {"rollback", "replay"}
    BY DEF SettleFails, AfterMarker, At
  <2>4. At(p, "rollback") /\ proc[p].next = "fail"
    BY <2>1, <2>3 DEF PlanInv, InCommit, Preparing, Starting, At
  <2> QED BY <2>2, <2>4, RegistryAssumption DEF TailInv
<1>3. Inv /\ [Next]_vars /\ [NoEarlyAppend]_vars => Inv'
  <2> SUFFICES ASSUME IInv(p), TailInv(p), [Next]_vars, [NoEarlyAppend]_vars PROVE IInv(p)' /\ TailInv(p)'
    OBVIOUS
  <2>1. CASE UNCHANGED vars
    <3>1. TailInv(p)'
      BY <2>1 DEF vars, TailInv, At, Dir
    <3> QED BY <2>1, <3>1, StutterStep
  <2>2. CASE Next /\ NoEarlyAppend
    <3>1. proc[p].plan = "serve" => ~SettleFails(p)
      BY <1>2 DEF NoSecondError
    <3> QED BY <2>2, <3>1, NextStep, TailKept
  <2> QED BY <2>1, <2>2
<1> HIDE DEF Inv
<1> QED BY <1>1, <1>2, <1>3, PTL DEF Spec, RollbackEnds, InstalledAgentRuns

\* Recovery never meets a state it refuses, and a generation that is still the
\* one on disk vouches for the cached image (transaction.rs, registry.rs).
THEOREM RegistryIsSound ==
  ASSUME NEW p, Procs = {p}
  PROVE  Spec /\ RollbackEnds /\ InstalledAgentRuns => []RegistryInv
<1>1. IInv(p) /\ TailInv(p) => RegistryInv
  BY InvRegistry
<1> QED BY <1>1, Invariance, PTL

\* The legacy memory directory is given up only for a registry that loads
\* (bootstrap.rs).
THEOREM MemoryIsTraded ==
  ASSUME NEW p, Procs = {p}
  PROVE  Spec /\ RollbackEnds /\ InstalledAgentRuns => []MemoryIsTradedForRegistry
<1>1. IInv(p) => MemoryIsTradedForRegistry
  BY InvMemory
<1> QED BY <1>1, Invariance, PTL

\* The disk that recovery would leave changes by whole mutations and appended
\* default agents only, each computed from the image it replaces (registry.rs,
\* bootstrap.rs).
THEOREM RegistryRefinesAtomic ==
  ASSUME NEW p, Procs = {p}
  PROVE  Spec /\ RollbackEnds /\ InstalledAgentRuns => ImplementsAtomicRegistry
<1>1. Init => Atomic!Init
  BY AtomicInit
<1>2. [StepImage]_vars => [Atomic!Next]_Image
  <2>1. CASE UNCHANGED vars
    <3>1. StepImage
      BY <2>1, QuietDisk DEF vars, StepImage
    <3> QED BY <3>1, AtomicNext
  <2>2. CASE StepImage
    BY <2>2, AtomicNext
  <2> QED BY <2>1, <2>2
<1>3. Spec /\ RollbackEnds /\ InstalledAgentRuns => Atomic!Init /\ [][Atomic!Next]_Image
  BY <1>1, <1>2, Invariance, PTL DEF Spec
<1> QED BY <1>3 DEF ImplementsAtomicRegistry, Atomic!Spec, Image
=============================================================================

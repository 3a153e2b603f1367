--------------------------- MODULE KnowledgeSwap ---------------------------
(***************************************************************************)
(* The learning queue of an agent together with a registry mutation of any *)
(* agent.  AgentTransaction::prepare copies every agent's directory, the   *)
(* knowledge bundle in it included, and commit puts the copy in its place; *)
(* neither takes the agent's write fence (agents/transaction.rs).          *)
(***************************************************************************)
EXTENDS LearningQueue

CONSTANT MaxUpdates   \* bound on registry mutations

VARIABLES copy,       \* the staged copy of agents/<id>, or Gone
          updates     \* registry mutations so far

swap == <<copy, updates>>

SwapInit == Init /\ copy = Gone /\ updates = 0

\* copy_directory(target, stage), under the registry's mutation lock.  The
\* copy is taken while no knowledge transaction is under way: a torn copy
\* would only add to what can be lost.
PrepareUpdate ==
    /\ up /\ alive /\ del = "idle" /\ copy = Gone /\ fence = NoOne
    /\ updates < MaxUpdates /\ updates' = updates + 1
    /\ copy' = [root |-> root, txn |-> txn]
    /\ UNCHANGED vars

\* commit_before_marker: the directory is renamed to the backup and the copy
\* to its place.
CommitUpdate ==
    /\ up /\ copy # Gone /\ fence = NoOne
    /\ root' = copy.root /\ txn' = copy.txn
    /\ copy' = Gone
    /\ UNCHANGED <<up, queue, fence, workers, agent, count, updates>>

\* Meanwhile everything else goes on, but for the delete, which waits for the
\* mutation lock, and a crash, whose recovery is AgentRegistry's business.
QueueStep == Next /\ (copy # Gone => up' /\ del' = del) /\ UNCHANGED swap

SwapNext == PrepareUpdate \/ CommitUpdate \/ QueueStep

SwapSpec == SwapInit /\ [][SwapNext]_<<vars, swap>>
=============================================================================

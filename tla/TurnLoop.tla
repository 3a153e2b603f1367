------------------------------ MODULE TurnLoop ------------------------------
(***************************************************************************)
(* The native harness's turn loop: run_turn and drive of                   *)
(* harness/native/runner.rs, with the provider ledger and its repair       *)
(* (ledger.rs), compaction (context_manager/compaction.rs), the permission *)
(* gate and its approval hub (permission.rs, approval.rs), the steer       *)
(* buffer (steer.rs) and the iteration budget (iteration_budget.rs).       *)
(*                                                                         *)
(* One session, one turn at a time (the turn lock).  Beside the turn run   *)
(* the user (prompts, steers, stops, answers to approval cards, possibly   *)
(* late and repeated), the provider, the store, and crashes of the daemon. *)
(*                                                                         *)
(* A message of the ledger is a record: what the user says in it, the tool *)
(* uses an assistant makes in it, the tool results it carries, and for a   *)
(* compaction summary the texts the summarising model was shown.  Tool     *)
(* call ids are only unique within one provider response, which is all the *)
(* provider promises.  Token counts are abstracted to "the window is full".*)
(***************************************************************************)
EXTENDS Integers, Sequences, FiniteSets, SequencesExt

CONSTANTS
  Prompt,          \* user prompts; each starts one turn, and names its run
  Steer,           \* mid-turn messages
  Call,            \* tool call ids
  NoTurn,          \* no turn is running
  Window,          \* agent.max_provider_turns
  AutoBudget,      \* agent.auto_continue_budget
  MaxFaults,       \* bound on crashes and failed writes, together
  MaxCompactions   \* bound on successful compactions

ASSUME WindowAssumption == Window \in Nat \ {0}
ASSUME AutoAssumption == AutoBudget \in Nat
ASSUME BoundsAssumption == MaxFaults \in Nat /\ MaxCompactions \in Nat
ASSUME NoTurnAssumption == NoTurn \notin Prompt
ASSUME CallAssumption == IsFiniteSet(Call)

VARIABLES
  up,        \* the daemon runs
  turn,      \* the prompt whose turn holds the turn lock, or NoTurn
  pc,        \* where drive() is
  asked,     \* prompts sent so far
  turns,     \* provider_turns past the checkpoint's boundary, in order
  ckpt,      \* the replacement history of the latest context checkpoint
  ledger,    \* the in-memory ledger of the running turn
  batch,     \* tool calls of the last response still to run
  results,   \* results collected for the batch so far
  budget,    \* remaining iterations of this window
  auto,      \* windows granted automatically
  reqs,      \* turn requests made by this turn
  full,      \* the in-memory token count is pinned at the full window
  saved,     \* the persisted one is
  over,      \* the history overflowed the window and was not compacted since
  forgot,    \* ... and that is not on record, or was not read from it
  cancel,    \* the turn's cancellation token
  stopping,  \* stop_session has cancelled and not yet denied the approvals
  buf,       \* the steer buffer
  pushed,    \* steers accepted so far
  said,      \* texts whose append to the ledger succeeded
  hub,       \* keys of the approval hub
  cards,     \* keys of the approval cards this turn has shown, oldest first
  reply,     \* what the reply channel of the parked call holds
  rows,      \* pending_approvals
  stale,     \* rows that a failed deletion left behind
  lossy,     \* a compaction dropped messages to make its own request fit
  gone,      \* steers lost to a crash or to a failed append
  late,      \* tools run after the turn was cancelled
  faults,    \* crashes and failed writes so far
  compactions \* successful compactions so far

conv == <<turns, ckpt, ledger, said, lossy>>
asks == <<hub, rows, stale>>
card == <<cards, reply>>
perm == <<asks, card>>
tools == <<batch, results, late>>
meter == <<budget, auto, reqs>>
record == <<saved, over, forgot>>
win == <<full, record>>
steers == <<buf, pushed, gone>>
counts == <<faults, compactions>>
life == <<up, turn, asked>>
ctl == <<cancel, stopping>>
vars == <<pc, life, ctl, conv, perm, tools, meter, win, steers, counts>>

Text == Prompt \cup Steer \cup {"continue", "nudge", "summary"}

Key == Prompt \X Call

NoReply == [allow |-> FALSE, card |-> -1]

-----------------------------------------------------------------------------
(* Messages *)

UserSays(texts) ==
  [role |-> "user", says |-> texts, gist |-> {}, uses |-> {}, results |-> {}]

ToolResults(ids) ==
  [role |-> "user", says |-> {}, gist |-> {}, uses |-> {}, results |-> ids]

Assistant(ids) ==
  [role |-> "assistant", says |-> {}, gist |-> {}, uses |-> ids, results |-> {}]

Summary(texts) ==
  [role |-> "user", says |-> {"summary"}, gist |-> texts, uses |-> {}, results |-> {}]

Message ==
  [role : {"user", "assistant"}, says : SUBSET Text, gist : SUBSET Text,
   uses : SUBSET Call, results : SUBSET Call]

\* The texts a history still holds: verbatim, or shown to a summary it carries.
Holds(ms) ==
  UNION {ms[i].says \cup ms[i].gist : i \in DOMAIN ms}

\* The tool uses of message i that the next message does not answer.
Missing(ms, i) ==
  IF ms[i].role # "assistant" THEN {}
  ELSE ms[i].uses \ (IF i < Len(ms) /\ ms[i + 1].role = "user"
                     THEN ms[i + 1].results ELSE {})

\* Message i as the request carries it: a user message first answers what the
\* message before it left dangling; where no user message follows, a
\* synthetic one does.
Repaired(ms, i) ==
  LET here == IF i > 1 /\ ms[i].role = "user"
              THEN [ms[i] EXCEPT !.results = @ \cup Missing(ms, i - 1)] ELSE ms[i]
      tail == i = Len(ms) \/ ms[i + 1].role # "user"
  IN  IF Missing(ms, i) # {} /\ tail
      THEN <<here, ToolResults(Missing(ms, i))>> ELSE <<here>>

Sanitized(ms) == FlattenSeq([i \in 1..Len(ms) |-> Repaired(ms, i)])

\* What a provider accepts: the conversation starts with the user and is the
\* provider's to continue, every tool use is answered in the message right
\* after it, and no result answers anything else.
WellFormed(ms) ==
  /\ ms # <<>>
  /\ ms[1].role = "user" /\ ms[1].results = {}
  /\ ms[Len(ms)].role = "user"
  /\ \A i \in 2..Len(ms) :
       /\ ms[i - 1].uses # {} => ms[i].role = "user"
       /\ ms[i].role = "user" => ms[i].results = ms[i - 1].uses

-----------------------------------------------------------------------------
(* The ledger: in memory, and in the store *)

\* The latest checkpoint's replacement and every turn after its boundary (the
\* rows before it are kept for audit and never read again).
Load == ckpt \o turns

Appends(m) ==
  /\ turns' = Append(turns, m)
  /\ ledger' = Append(ledger, m)
  /\ said' = said \cup m.says

Append1(m) == Appends(m) /\ UNCHANGED faults

Fault == faults < MaxFaults /\ faults' = faults + 1

NoAppend == UNCHANGED <<turns, ledger, said, faults>>

\* A failed append ends the turn with an error; history is left as it was.
AppendFails == Fault /\ UNCHANGED <<turns, ledger, said>>

\* replace_all: a checkpoint whose boundary is the last turn it replaces.
InstallReplacement(ms) ==
  /\ ckpt' = ms /\ turns' = <<>>
  /\ ledger' = ms

-----------------------------------------------------------------------------
(* Compaction *)

\* Where a history may start: at a user message that carries no tool result.
Starts(ms) == {i \in 2..Len(ms) : ms[i].role = "user" /\ ms[i].results = {}}

\* The copies of the history the summarising request may finally fit with: the
\* whole of it, or what is left after dropping the oldest messages, up to the
\* next place a history may start (to nothing, when there is none).
Survivors(ms) ==
  LET starts == Starts(ms) \cup {1}
      left == {SubSeq(ms, i, Len(ms)) : i \in starts}
  IN  IF \A i \in starts : i < Len(ms) THEN left \cup {<<>>} ELSE left

\* A message that starts with what the user said, not with a summary of it
Retains(m) == m.role = "user" /\ m.says # {} /\ "summary" \notin m.says

\* Mutant: a kept message keeps the tool results folded into it.
Retainable_WithResults(ms) ==
  FlattenSeq([i \in 1..Len(ms) |-> IF Retains(ms[i]) THEN <<ms[i]>> ELSE <<>>])

\* The user messages worth keeping beside the summary, without tool results.
Retainable(ms) ==
  FlattenSeq([i \in 1..Len(ms) |->
    IF Retains(ms[i]) THEN <<[ms[i] EXCEPT !.results = {}]>> ELSE <<>>])

\* Mutant: only what is kept anyway is shown to the summarising model.
Replacement_SummarisesKept(ms, k) ==
  LET kept == Retainable(ms)
      newest == SubSeq(kept, Len(kept) - k + 1, Len(kept))
  IN  Append(newest, Summary(Holds(newest)))

\* The newest k of them (how many is a matter of tokens, but the newest always
\* is kept), then the summary.
Replacement(ms, k) ==
  LET kept == Retainable(ms)
  IN  Append(SubSeq(kept, Len(kept) - k + 1, Len(kept)), Summary(Holds(ms)))

Keeps(ms) ==
  LET n == Len(Retainable(ms)) IN IF n = 0 THEN {0} ELSE 1..n

\* A successful compaction of the history ms.
Compacted(ms) ==
  /\ compactions < MaxCompactions
  /\ compactions' = compactions + 1
  /\ \E w \in Survivors(Sanitized(ms)) : \E k \in Keeps(w) :
       /\ InstallReplacement(Replacement(w, k))
       /\ lossy' = (lossy \/ w # Sanitized(ms))

-----------------------------------------------------------------------------
(* The turn *)

\* The turn returns: its ContextManager, budget and token are dropped.
Returns ==
  /\ pc' = "idle" /\ turn' = NoTurn /\ cancel' = FALSE
  /\ batch' = <<>> /\ results' = {} /\ late' = 0
  /\ budget' = 0 /\ auto' = 0 /\ reqs' = 0
  /\ full' = FALSE /\ cards' = <<>> /\ reply' = NoReply

\* Mutant: the token count is never seeded from the persisted one.
SendPrompt_Unseeded ==
  /\ up /\ pc = "idle" /\ asked # Prompt
  /\ LET p == CHOOSE q \in Prompt : q \notin asked
     IN  turn' = p /\ asked' = asked \cup {p}
  /\ ledger' = Load
  /\ full' = FALSE
  /\ budget' = Window
  /\ pc' = "prompt"
  /\ UNCHANGED <<up, ctl, turns, ckpt, said, lossy, perm, tools, auto, reqs,
                 record, steers, counts>>

\* send_prompt takes the turn lock; run_turn loads the context, seeds the
\* token count from the persisted one, and has the prompt to append.  When that
\* cannot be read, the turn starts from the estimate of what it loaded, and may
\* save the estimate over it.
SendPrompt ==
  /\ up /\ pc = "idle" /\ asked # Prompt
  /\ LET p == CHOOSE q \in Prompt : q \notin asked
     IN  turn' = p /\ asked' = asked \cup {p}
  /\ ledger' = Load
  /\ \/ full' = saved /\ UNCHANGED <<record, faults>>
     \/ /\ Fault
        /\ full' = FALSE
        /\ saved' \in {saved, FALSE}
        /\ forgot' = (forgot \/ over) /\ UNCHANGED over
  /\ budget' = Window
  /\ pc' = "prompt"
  /\ UNCHANGED <<up, ctl, turns, ckpt, said, lossy, perm, tools, auto, reqs,
                 steers, compactions>>

AppendPrompt ==
  /\ pc = "prompt"
  /\ UNCHANGED <<up, asked, stopping, ckpt, lossy, asks, record, steers, compactions>>
  /\ \/ /\ Append1(UserSays({turn}))
        /\ pc' = "top"
        /\ UNCHANGED <<turn, cancel, card, tools, meter, full>>
     \/ AppendFails /\ Returns

\* while budget.try_consume() { if cancelled return
Iterate ==
  /\ pc = "top"
  /\ UNCHANGED <<up, asked, stopping, conv, asks, record, steers, counts>>
  /\ \/ /\ budget = 0
        /\ pc' = "spent"
        /\ UNCHANGED <<turn, cancel, card, tools, meter, full>>
     \/ budget > 0 /\ cancel /\ Returns
     \/ /\ budget > 0 /\ ~cancel
        /\ budget' = budget - 1
        /\ pc' = "request"
        /\ UNCHANGED <<turn, cancel, card, tools, auto, reqs, full>>

\* The overflow is dealt with: its history was compacted, or fitted after all.
Settles == over' = FALSE /\ forgot' = FALSE

\* The compaction check, then the request.  A full window always compacts; a
\* failure then ends the turn, and otherwise may be survived.
Request ==
  /\ pc = "request"
  /\ UNCHANGED <<up, asked, stopping, said, asks, saved, steers, faults>>
  /\ LET sends == /\ reqs' = reqs + 1 /\ pc' = "stream"
                  /\ UNCHANGED <<turn, cancel, card, tools, budget, auto>>
         keeps == UNCHANGED <<over, forgot, turns, ckpt, ledger, lossy, compactions>>
     IN  \/ ~full /\ sends /\ keeps /\ UNCHANGED full
         \/ Compacted(ledger) /\ full' = FALSE /\ Settles /\ sends
         \/ Returns /\ keeps

\* The count on record becomes that of a history which fits (best effort).
SaveCount ==
  \/ saved' = FALSE /\ UNCHANGED faults
  \/ Fault /\ UNCHANGED saved

\* The whole response is there: the token count is the provider's again, and is
\* saved, and the assistant message is appended.  A stream that closes without
\* another item is taken as it is, cancelled or not.
Respond ==
  /\ pc = "stream"
  /\ Settles
  /\ UNCHANGED <<up, asked, stopping, ckpt, lossy, asks, steers, compactions>>
  /\ \/ \E calls \in SetToAllKPermutations(Call) :
          /\ SaveCount /\ Appends(Assistant(ToSet(calls)))
          /\ batch' = calls
          /\ pc' = IF calls = <<>> THEN "answered" ELSE "batch"
          /\ full' = FALSE
          /\ UNCHANGED <<turn, cancel, card, results, late, meter>>
     \/ AppendFails /\ saved' \in {saved, FALSE} /\ Returns

\* The stream is cancelled at its next item, or fails.
StreamEnds ==
  /\ pc = "stream"
  /\ Returns
  /\ UNCHANGED <<up, asked, stopping, conv, asks, record, steers, counts>>

\* The request or its stream overflows the window: the count is pinned at the
\* full window ...
Overflow ==
  /\ pc = "stream"
  /\ full' = TRUE /\ over' = TRUE
  /\ pc' = "record"
  /\ UNCHANGED <<life, ctl, conv, perm, tools, meter, saved, forgot, steers, counts>>

\* ... and persisted for the next turn (best effort), and the turn fails.
RecordFull ==
  /\ pc = "record"
  /\ \/ saved' = TRUE /\ forgot' = FALSE /\ UNCHANGED faults
     \/ Fault /\ forgot' = ~saved /\ UNCHANGED saved
  /\ Returns
  /\ UNCHANGED <<up, asked, stopping, conv, asks, over, steers, compactions>>

\* A steer is appended as a user message of its own; a failed append loses what
\* was drained.
DrainInto(next) ==
  /\ buf' = {} /\ UNCHANGED pushed
  /\ \/ Append1(UserSays(buf)) /\ next /\ UNCHANGED gone
     \/ AppendFails /\ Returns /\ gone' = gone \cup buf

GoesTo(label) ==
  pc' = label /\ UNCHANGED <<turn, cancel, card, tools, meter, full>>

\* Mutant: a plain answer ends the turn and discards the steer that landed.
EndTurn_Discards ==
  /\ pc = "answered"
  /\ buf' = {} /\ UNCHANGED <<pushed, gone>>
  /\ Returns /\ NoAppend
  /\ UNCHANGED <<up, asked, stopping, ckpt, lossy, asks, record, compactions>>

\* A response without tool calls ends the turn, unless a steer landed.
EndTurn ==
  /\ pc = "answered"
  /\ UNCHANGED <<up, asked, stopping, ckpt, lossy, asks, record, compactions>>
  /\ \/ buf = {} /\ Returns /\ NoAppend /\ UNCHANGED steers
     \/ buf # {} /\ DrainInto(GoesTo("top"))

-----------------------------------------------------------------------------
(* One tool call after the other *)

Answered(ids) ==
  /\ results' = results \cup ids
  /\ pc' = "batch"

\* The next call starts, unless the turn was cancelled: then every remaining
\* call is answered "Interrupted by user".
NextCall ==
  /\ pc = "batch" /\ batch # <<>>
  /\ IF cancel
     THEN Answered(ToSet(batch)) /\ batch' = <<>>
     ELSE pc' = "gate" /\ UNCHANGED <<batch, results>>
  /\ UNCHANGED <<life, ctl, conv, perm, late, meter, win, steers, counts>>

\* Mutant: the card is shown without its key in the hub.
Gate_Unregistered ==
  /\ pc = "gate"
  /\ reply' = NoReply
  /\ pc' = "ask"
  /\ UNCHANGED <<life, ctl, conv, asks, cards, tools, meter, win, steers, counts>>

\* A hook, the file-system scope, the tool filter, a rule, a session override
\* or a policy settles the call; or it is put to the user: its key enters the
\* approval hub.
Gate ==
  /\ pc = "gate"
  /\ UNCHANGED <<life, ctl, conv, cards, rows, stale, late, meter, win, steers, counts>>
  /\ \/ pc' = "exec" /\ UNCHANGED <<batch, results, hub, reply>>
     \/ Answered({Head(batch)}) /\ batch' = Tail(batch) /\ UNCHANGED <<hub, reply>>
     \/ /\ hub' = hub \cup {<<turn, Head(batch)>>}
        /\ reply' = NoReply
        /\ pc' = "ask"
        /\ UNCHANGED <<batch, results>>

\* The card is recorded (best effort) and announced.
Ask ==
  /\ pc = "ask"
  /\ \/ rows' = rows \cup {<<turn, Head(batch)>>} /\ UNCHANGED faults
     \/ /\ Fault
        /\ UNCHANGED rows
  /\ cards' = Append(cards, <<turn, Head(batch)>>)
  /\ pc' = "parked"
  /\ UNCHANGED <<life, ctl, conv, hub, reply, stale, tools, meter, win, steers, compactions>>

\* Mutant: the wait listens to the reply only.
Wake_IgnoresCancel ==
  /\ pc = "parked" /\ reply # NoReply
  /\ pc' = "forget"
  /\ UNCHANGED <<life, ctl, conv, perm, tools, meter, win, steers, counts>>

\* select!, biased: a cancelled turn denies and deregisters; else the reply.
Wake ==
  /\ pc = "parked"
  /\ \/ cancel /\ hub' = hub \ {<<turn, Head(batch)>>} /\ reply' = NoReply
     \/ ~cancel /\ reply # NoReply /\ UNCHANGED <<hub, reply>>
  /\ pc' = "forget"
  /\ UNCHANGED <<life, ctl, conv, cards, rows, stale, tools, meter, win, steers, counts>>

\* The row is deleted whatever ended the wait (best effort); the verdict stands.
Forget ==
  /\ pc = "forget"
  /\ \/ rows' = rows \ {<<turn, Head(batch)>>} /\ UNCHANGED <<stale, faults>>
     \/ /\ Fault
        /\ stale' = stale \cup (rows \cap {<<turn, Head(batch)>>})
        /\ UNCHANGED rows
  /\ IF reply.allow
     THEN pc' = "exec" /\ UNCHANGED <<batch, results, reply>>
     ELSE Answered({Head(batch)}) /\ batch' = Tail(batch) /\ reply' = NoReply
  /\ UNCHANGED <<life, ctl, conv, hub, cards, late, meter, win, steers, compactions>>

\* The tool runs to its end.
Execute ==
  /\ pc = "exec"
  /\ Answered({Head(batch)})
  /\ batch' = Tail(batch)
  /\ reply' = NoReply
  /\ late' = IF cancel THEN late + 1 ELSE late
  /\ UNCHANGED <<life, ctl, conv, hub, cards, rows, stale, meter, win, steers, counts>>

\* The batch's results are appended as one message.
AppendResults ==
  /\ pc = "batch" /\ batch = <<>>
  /\ UNCHANGED <<up, asked, stopping, ckpt, lossy, asks, record, steers, compactions>>
  /\ \/ /\ Append1(ToolResults(results))
        /\ results' = {}
        /\ pc' = "drain"
        /\ UNCHANGED <<turn, cancel, card, batch, late, meter, full>>
     \/ AppendFails /\ Returns

\* A steer rides behind the results; a cancelled turn then returns.
AfterResults ==
  /\ pc = "drain"
  /\ UNCHANGED <<up, asked, stopping, ckpt, lossy, asks, record, compactions>>
  /\ LET next == IF cancel THEN Returns ELSE GoesTo("top")
     IN  \/ buf = {} /\ next /\ NoAppend /\ UNCHANGED steers
         \/ buf # {} /\ DrainInto(next)

-----------------------------------------------------------------------------
(* The window is spent *)

\* Another window is granted while the auto-continue budget lasts.
Spent ==
  /\ pc = "spent"
  /\ UNCHANGED <<up, asked, stopping, ckpt, lossy, asks, record, steers, compactions>>
  /\ \/ /\ auto < AutoBudget /\ ~cancel
        /\ \/ /\ Append1(UserSays({"continue"}))
              /\ auto' = auto + 1
              /\ budget' = budget + Window
              /\ pc' = "top"
              /\ UNCHANGED <<turn, cancel, card, tools, reqs, full>>
           \/ AppendFails /\ Returns
     \/ /\ auto >= AutoBudget \/ cancel
        /\ NoAppend
        /\ GoesTo("tail")

\* The last drain, then the tool-less request for a final summary.
SummaryRequest ==
  /\ pc = "tail"
  /\ UNCHANGED <<up, asked, stopping, ckpt, lossy, asks, record, compactions>>
  /\ LET next == /\ reqs' = reqs + 1 /\ pc' = "summary"
                 /\ UNCHANGED <<turn, cancel, card, tools, budget, auto, full>>
     IN  \/ buf = {} /\ next /\ NoAppend /\ UNCHANGED steers
         \/ buf # {} /\ DrainInto(next)

\* Only a non-empty answer is recorded: the question, then the answer.
SummaryAnswer ==
  /\ pc = "summary"
  /\ UNCHANGED <<up, asked, stopping, ckpt, lossy, asks, record, steers, compactions>>
  /\ \/ NoAppend /\ Returns
     \/ Append1(UserSays({"nudge"})) /\ GoesTo("closing")
     \/ AppendFails /\ Returns

Close ==
  /\ pc = "closing"
  /\ UNCHANGED <<up, asked, stopping, ckpt, lossy, asks, record, steers, compactions>>
  /\ Returns
  /\ Append1(Assistant({})) \/ AppendFails

-----------------------------------------------------------------------------
(* Beside the turn *)

\* /compact takes the turn lock, compacts what the store holds and saves the
\* new count.
ManualCompact ==
  /\ up /\ pc = "idle" /\ Load # <<>>
  /\ Compacted(Load)
  /\ SaveCount /\ Settles
  /\ UNCHANGED <<pc, life, ctl, said, perm, tools, meter, full, steers>>

\* steer_session, with a live handle: a turn need not be running.
PushSteer(s) ==
  /\ up /\ s \notin pushed
  /\ buf' = buf \cup {s} /\ pushed' = pushed \cup {s}
  /\ UNCHANGED <<pc, life, ctl, conv, perm, tools, meter, win, gone, counts>>

\* stop_session cancels the live turn's token ...
StopCancel ==
  /\ up /\ ~stopping /\ turn # NoTurn /\ ~cancel
  /\ cancel' = TRUE /\ stopping' = TRUE
  /\ UNCHANGED <<pc, life, conv, perm, tools, meter, win, steers, counts>>

\* ... and then denies every approval the session has parked.
StopDeny ==
  /\ up /\ stopping
  /\ stopping' = FALSE
  /\ hub' = {}
  /\ reply' = IF hub # {} THEN [allow |-> FALSE, card |-> 0] ELSE reply
  /\ UNCHANGED <<pc, life, cancel, conv, cards, rows, stale, tools, meter, win, steers, counts>>

\* Some surface answers a card, now or long after: resolve() finds its key in
\* the hub, or does nothing.
Answer(n, allow) ==
  /\ up /\ cards[n] \in hub
  /\ hub' = hub \ {cards[n]}
  /\ reply' = [allow |-> allow, card |-> n]
  /\ UNCHANGED <<pc, life, ctl, conv, cards, rows, stale, tools, meter, win, steers, counts>>

\* The process dies: everything in memory is gone.
Crash ==
  /\ up /\ Fault
  /\ up' = FALSE
  /\ Returns
  /\ stopping' = FALSE /\ hub' = {}
  /\ buf' = {} /\ gone' = gone \cup buf
  /\ ledger' = <<>>
  /\ forgot' = IF pc = "record" THEN ~saved ELSE forgot
  /\ UNCHANGED <<asked, turns, ckpt, said, lossy, rows, stale, saved, over, pushed, compactions>>

\* build_daemon drops the rows of the previous boot (best effort).
Boot ==
  /\ ~up /\ up' = TRUE
  /\ \/ rows' = {} /\ stale' = {} /\ UNCHANGED faults
     \/ /\ Fault
        /\ stale' = rows /\ UNCHANGED rows
  /\ UNCHANGED <<pc, turn, asked, ctl, conv, hub, cards, reply, tools, meter, win, steers, compactions>>

-----------------------------------------------------------------------------
(* Specification *)

Init ==
  /\ up = TRUE /\ turn = NoTurn /\ pc = "idle" /\ asked = {}
  /\ turns = <<>> /\ ckpt = <<>> /\ ledger = <<>>
  /\ said = {} /\ lossy = FALSE
  /\ batch = <<>> /\ results = {} /\ late = 0
  /\ budget = 0 /\ auto = 0 /\ reqs = 0
  /\ full = FALSE /\ saved = FALSE /\ over = FALSE /\ forgot = FALSE
  /\ cancel = FALSE /\ stopping = FALSE
  /\ buf = {} /\ pushed = {} /\ gone = {}
  /\ hub = {} /\ cards = <<>> /\ reply = NoReply /\ rows = {} /\ stale = {}
  /\ faults = 0 /\ compactions = 0

\* What the turn's own task does, with the provider and the tools it awaits.
TurnStep ==
  \/ AppendPrompt \/ Iterate \/ Request
  \/ Respond \/ StreamEnds \/ Overflow \/ RecordFull
  \/ EndTurn \/ NextCall \/ Gate \/ Ask \/ Wake \/ Forget \/ Execute
  \/ AppendResults \/ AfterResults \/ Spent \/ SummaryRequest \/ SummaryAnswer \/ Close

Next ==
  \/ SendPrompt \/ TurnStep \/ ManualCompact
  \/ \E s \in Steer : PushSteer(s)
  \/ StopCancel \/ StopDeny
  \/ \E n \in DOMAIN cards : \E allow \in BOOLEAN : Answer(n, allow)
  \/ Crash \/ Boot

\* The turn's task, the provider's stream and a tool all make progress; the
\* second half of a stop runs; a crashed daemon is started again.  Nobody has to
\* answer an approval card.
Fairness == WF_vars(TurnStep) /\ WF_vars(StopDeny) /\ WF_vars(Boot)

Spec == Init /\ [][Next]_vars /\ Fairness

-----------------------------------------------------------------------------
(* Properties *)

Label ==
  {"idle", "prompt", "top", "request", "stream", "record", "answered", "batch",
   "gate", "ask", "parked", "forget", "exec", "drain", "spent", "tail", "summary", "closing"}

\* Every variable has its type, and a turn is in progress exactly when the turn
\* lock is held.
TypeOK ==
  /\ up \in BOOLEAN /\ turn \in Prompt \cup {NoTurn} /\ pc \in Label
  /\ asked \subseteq Prompt /\ (pc = "idle") = (turn = NoTurn)
  /\ turns \in Seq(Message) /\ ledger \in Seq(Message) /\ ckpt \in Seq(Message)
  /\ said \subseteq Text /\ lossy \in BOOLEAN
  /\ batch \in Seq(Call) /\ results \subseteq Call /\ late \in Nat
  /\ budget \in Nat /\ auto \in 0..AutoBudget /\ reqs \in Nat
  /\ full \in BOOLEAN /\ saved \in BOOLEAN /\ over \in BOOLEAN /\ forgot \in BOOLEAN
  /\ cancel \in BOOLEAN /\ stopping \in BOOLEAN
  /\ buf \subseteq Steer /\ pushed \subseteq Steer /\ gone \subseteq Steer
  /\ hub \subseteq Key /\ cards \in Seq(Key) /\ rows \subseteq Key /\ stale \subseteq Key
  /\ reply \in [allow : BOOLEAN, card : -1..Len(cards)]
  /\ faults \in 0..MaxFaults /\ compactions \in 0..MaxCompactions

\* Whatever was cut short before (a crash or a failed write between a response
\* and its results, a stop in the middle of a batch, a compaction, a steer),
\* every request carries a conversation the provider accepts: sanitize_tool_pairing,
\* the interrupted results and strip_tool_results see to it.
RequestIsPaired ==
  pc \in {"stream", "summary"} => WellFormed(Sanitized(ledger))

\* Everything the user said that reached the ledger is in the next request, in
\* its own words or through a summary made from them, across turns, crashes and
\* repeated compactions; only a compaction that had to drop history to fit may
\* lose it.
NothingSaidIsLost ==
  ~lossy => said \subseteq Holds(Load)

\* The running turn's ledger is what a restart would load: an append and a
\* checkpoint change the store and the memory alike.
LedgerIsDurable ==
  turn # NoTurn => ledger = Load

\* A steer that was accepted is in the buffer or in the ledger, until a crash or
\* a failed append takes it.
SteerIsKept ==
  pushed \subseteq buf \cup said \cup gone

\* An approval lives exactly as long as its wait: no key stays in the hub when
\* nobody waits for its reply, and no row stays listed but for a failed deletion.
NoOrphanedApproval ==
  LET waiting == IF pc \in {"ask", "parked", "forget"} THEN {<<turn, Head(batch)>>} ELSE {}
  IN  /\ hub \subseteq waiting
      /\ up => rows \subseteq waiting \cup stale

\* An overflowing request is not made again before the history was compacted,
\* even by a later turn or after a restart: the full window is persisted and
\* seeds the next turn.  Only a record that could not be written, or that one
\* turn could not read, lets it be made once more.
OverflowIsCompacted ==
  over /\ ~forgot => pc \notin {"stream", "summary"}

\* A stopped turn winds down: at most one more tool runs after the stop, and
\* no turn makes more requests than its windows and the final summary.
TurnIsBounded ==
  late <= 1 /\ reqs <= (AutoBudget + 1) * Window + 1

\* What one turn owes the store, the user and the provider at every step: its
\* ledger is durable, its requests and its tools after a stop are bounded, an
\* overflow is compacted before it is tried again, and no card outlives its wait.
TurnInv ==
  /\ TypeOK
  /\ LedgerIsDurable
  /\ NoOrphanedApproval
  /\ OverflowIsCompacted
  /\ TurnIsBounded

\* A stop takes effect: the turn ends, parked or streaming, answered or not.
StopSettles == cancel ~> ~cancel

\* A turn never hangs on anything but an open approval card that can still be
\* answered.
TurnEndsOrAsks ==
  []<>(pc = "idle" \/ (pc = "parked" /\ <<turn, Head(batch)>> \in hub))

\* The reply a call runs on is the answer to that call's own card.
AnswerMatchesCall ==
  (pc = "exec" /\ reply.card > 0) => reply.card = Len(cards)

=============================================================================

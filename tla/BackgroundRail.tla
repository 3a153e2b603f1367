--------------------------- MODULE BackgroundRail ---------------------------
(***************************************************************************)
(* The background rail: finished out-of-band work is a durable row of the   *)
(* table background_events, addressed to a chat.  The drainer claims the    *)
(* oldest row whose chat is idle and delivers it, a scheduled report as a   *)
(* new user turn of the chat and a delegation outcome as a message of the   *)
(* run that asked for it (background_rail.rs and the store's rail           *)
(* functions).  Meanwhile people use, stop, end and delete the chats.       *)
(*                                                                         *)
(* One drain pass is several steps: a claim, the delivery, the mark, and at *)
(* the end the release of what failed.                                      *)
(***************************************************************************)
EXTENDS Naturals, Sequences

CONSTANTS
  Chat,        \* chat sessions
  Broken,      \* the chats whose agent cannot be executed any more
  Event,       \* rail rows
  Outcome,     \* the rows of kind 'delegation' that keep their origin run
  MaxPerTick,  \* MAX_PER_TICK
  MaxActs,     \* bound: what the users do
  MaxFaults,   \* bound: deliveries that fail, events a listener misses
  None

ASSUME RailAssumption ==
  /\ Broken \subseteq Chat
  /\ Outcome \subseteq Event
  /\ None \notin Chat \cup Event
  /\ MaxPerTick \in Nat \ {0}
  /\ MaxActs \in Nat
  /\ MaxFaults \in Nat

VARIABLES
  chat,     \* sessions.status of each chat; "gone": no row
  rail,     \* background_events
  order,    \* its rows by created_at
  drain,    \* the drainer's pass: the row in hand, delivered or not yet marked,
            \* the rows that failed in this pass, and the claims made
  seen,     \* how often the content of a row has reached its chat
  purging,  \* the chats between their status 'ended' and the purge of their rows
  orphans,  \* history: the rows that were claimed when the process died
  acts, faults

railVars == <<chat, rail, order, drain, seen, purging, orphans, acts, faults>>

NoPass == [held |-> None, sent |-> FALSE, failed |-> {}, n |-> 0]

RailTypeOK ==
  /\ chat \in [Chat -> {"idle", "running", "interrupted", "ended", "gone"}]
  /\ rail \in [Event -> [to : {None}, st : {"unsent"}]
                       \cup [to : Chat, st : {"pending", "claimed", "delivered", "dropped"}]]
  /\ order \in Seq(Event)
  /\ drain \in [held : Event \cup {None}, sent : BOOLEAN,
                failed : SUBSET Event, n : 0 .. MaxPerTick]
  /\ seen \in [Event -> Nat]
  /\ purging \subseteq Chat
  /\ orphans \subseteq Event
  /\ acts \in 0 .. MaxActs
  /\ faults \in 0 .. MaxFaults

RailInit ==
  /\ chat = [c \in Chat |-> "idle"]
  /\ rail = [e \in Event |-> [to |-> None, st |-> "unsent"]]
  /\ order = <<>>
  /\ drain = NoPass
  /\ seen = [e \in Event |-> 0]
  /\ purging = {}
  /\ orphans = {}
  /\ acts = 0
  /\ faults = 0

Acts == acts < MaxActs /\ acts' = acts + 1
Fails == faults < MaxFaults /\ faults' = faults + 1

-----------------------------------------------------------------------------
\* The store

\* enqueue_background_event_for_run.
Enqueue(e, c) ==
  /\ rail' = [rail EXCEPT ![e] = [to |-> c, st |-> "pending"]]
  /\ order' = Append(order, e)

Deliverable(e) == rail[e].st = "pending" /\ chat[rail[e].to] = "idle"

\* The places in the order of the rows a claim may take.
Ready == {i \in DOMAIN order : Deliverable(order[i])}

Moved(e, st) == [rail EXCEPT ![e].st = st]

\* Every undelivered row of the chat, claimed ones included.
WithoutUndelivered(c) ==
  [e \in Event |->
     IF rail[e].to = c /\ rail[e].st \in {"pending", "claimed"}
     THEN [rail[e] EXCEPT !.st = "dropped"] ELSE rail[e]]

-----------------------------------------------------------------------------
\* background_rail::tick

\* claim_deliverable_background_event.
Claim ==
  /\ drain.held = None
  /\ drain.n < MaxPerTick
  /\ \E i \in Ready :
       /\ \A j \in Ready : i <= j
       /\ rail' = Moved(order[i], "claimed")
       /\ drain' = [drain EXCEPT !.held = order[i], !.n = @ + 1]
  /\ UNCHANGED <<chat, order, seen, purging, orphans, acts, faults>>

InHand(e) == drain.held = e /\ ~drain.sent

Sent(e) ==
  /\ seen' = [seen EXCEPT ![e] = @ + 1]
  /\ drain' = [drain EXCEPT !.sent = TRUE]

\* continue_session_with_prompt: it promotes an idle chat and starts the turn
\* whatever the status has become since the claim.
DeliverTurn(e) ==
  /\ InHand(e)
  /\ e \notin Outcome
  /\ LET c == rail[e].to IN
       /\ c \notin Broken
       /\ chat[c] # "gone"
       /\ chat' = IF chat[c] = "idle" THEN [chat EXCEPT ![c] = "running"] ELSE chat
  /\ Sent(e)
  /\ UNCHANGED <<rail, order, purging, orphans, acts, faults>>

\* insert_run_message: the chat's status plays no part.
DeliverOutcome(e) ==
  /\ InHand(e)
  /\ e \in Outcome
  /\ chat[rail[e].to] # "gone"
  /\ Sent(e)
  /\ UNCHANGED <<chat, rail, order, purging, orphans, acts, faults>>

\* The delivery fails: the row stays claimed until the end of the pass.
Refuse(e) ==
  /\ InHand(e)
  /\ LET c == rail[e].to IN
       \/ (chat[c] = "gone" \/ (c \in Broken /\ e \notin Outcome)) /\ UNCHANGED faults
       \/ Fails
  /\ drain' = [drain EXCEPT !.held = None, !.failed = @ \cup {e}]
  /\ UNCHANGED <<chat, rail, order, seen, purging, orphans, acts>>

\* mark_background_delivered; the row may be gone by now.
Mark(e) ==
  /\ drain.held = e /\ drain.sent
  /\ rail' = IF rail[e].st = "dropped" THEN rail ELSE Moved(e, "delivered")
  /\ drain' = [drain EXCEPT !.held = None, !.sent = FALSE]
  /\ UNCHANGED <<chat, order, seen, purging, orphans, acts, faults>>

\* Mutant: a failed row keeps its claim.
EndPass_KeepsClaims ==
  /\ drain.held = None
  /\ drain.n > 0
  /\ drain.n = MaxPerTick \/ Ready = {}
  /\ drain' = NoPass
  /\ UNCHANGED <<chat, rail, order, seen, purging, orphans, acts, faults>>

\* Nothing is deliverable, or the pass has made its claims: what failed is
\* released for the next one.
EndPass ==
  /\ drain.held = None
  /\ drain.n > 0
  /\ drain.n = MaxPerTick \/ Ready = {}
  /\ rail' = [e \in Event |->
                IF e \in drain.failed /\ rail[e].st = "claimed"
                THEN [rail[e] EXCEPT !.st = "pending"] ELSE rail[e]]
  /\ drain' = NoPass
  /\ UNCHANGED <<chat, order, seen, purging, orphans, acts, faults>>

Drainer ==
  \/ Claim
  \/ \E e \in Event : DeliverTurn(e) \/ DeliverOutcome(e) \/ Refuse(e) \/ Mark(e)
  \/ EndPass

-----------------------------------------------------------------------------
\* The chats.  Those whose agent cannot be executed are read-only.

UserTurn(c) ==
  /\ Acts
  /\ c \notin Broken
  /\ chat[c] = "idle"
  /\ chat' = [chat EXCEPT ![c] = "running"]
  /\ UNCHANGED <<rail, order, drain, seen, purging, orphans, faults>>

\* demote_if_running.
TurnEnds(c) ==
  /\ chat[c] = "running"
  /\ chat' = [chat EXCEPT ![c] = "idle"]
  /\ UNCHANGED <<rail, order, drain, seen, purging, orphans, acts, faults>>

\* stop_session writes Interrupted over any status, and no turn leaves it.
StopChat(c) ==
  /\ Acts
  /\ c \notin Broken
  /\ chat[c] # "gone"
  /\ chat' = [chat EXCEPT ![c] = "interrupted"]
  /\ UNCHANGED <<rail, order, drain, seen, purging, orphans, faults>>

\* end_session: the status first, the rail rows at the end of the teardown.
EndChat(c) ==
  /\ Acts
  /\ c \notin Broken
  /\ chat[c] # "gone"
  /\ chat' = [chat EXCEPT ![c] = "ended"]
  /\ purging' = purging \cup {c}
  /\ UNCHANGED <<rail, order, drain, seen, orphans, faults>>

Purge(c) ==
  /\ c \in purging
  /\ rail' = WithoutUndelivered(c)
  /\ purging' = purging \ {c}
  /\ UNCHANGED <<chat, order, drain, seen, orphans, acts, faults>>

\* Retention deletes an archived chat with everything that refers to it.
DeleteChat(c) ==
  /\ Acts
  /\ chat[c] # "gone"
  /\ chat' = [chat EXCEPT ![c] = "gone"]
  /\ rail' = WithoutUndelivered(c)
  /\ UNCHANGED <<order, drain, seen, purging, orphans, faults>>

\* A background child finishes and reports to the run that dispatched it.
PostOutcome(e, c) ==
  /\ e \in Outcome
  /\ rail[e].st = "unsent"
  /\ chat[c] # "gone"
  /\ Enqueue(e, c)
  /\ UNCHANGED <<chat, drain, seen, purging, orphans, acts, faults>>

Chats ==
  \E c \in Chat :
    \/ UserTurn(c) \/ TurnEnds(c) \/ StopChat(c) \/ EndChat(c) \/ Purge(c)
    \/ DeleteChat(c)
    \/ \E e \in Outcome : PostOutcome(e, c)

\* The process dies: its pass is forgotten, the claims in the table are not.
RailCrash ==
  /\ drain' = NoPass
  /\ purging' = {}
  /\ orphans' = orphans \cup {e \in Event : rail[e].st = "claimed"}
  /\ UNCHANGED <<chat, rail, order, seen, acts, faults>>

-----------------------------------------------------------------------------
\* No row reaches its chat twice, whatever fails or dies between the delivery
\* and its mark (claim_deliverable_background_event, mark_background_delivered).
SeenOnce == \A e \in Event : seen[e] <= 1

\* The chats that will not be idle again.
ClosedChats == {c \in Chat : chat[c] \in {"interrupted", "ended", "gone"}}

\* A row whose chat can receive it is delivered in the end: neither a chat that
\* refuses every delivery nor one that fails now and then keeps the drainer from
\* the others (background_rail.rs: "stops it starving every other target").
RowArrives ==
  \A e \in Event :
    rail[e].st = "pending" ~>
      \/ rail[e].st \in {"delivered", "dropped"}
      \/ rail[e].to \in Broken \cup ClosedChats
      \/ e \in orphans

\* "Rows are durable: they are never dropped on failure, only left pending for
\* the next attempt" (background_rail.rs): every claim is in somebody's hands.
\* A restart breaks it, and RowArrives leaves out the rows it strands.
ClaimIsHeld ==
  \A e \in Event : rail[e].st = "claimed" => e \in drain.failed \cup {drain.held}
=============================================================================

------------------------- MODULE ConversationInput -------------------------
(* The messages of one conversation on their way into turns of the agent:  *)
(* the admission gate and the handlers of Dispatcher, the phase, native    *)
(* and primary inputs of InteractionEventAdapter, the durable queue of     *)
(* FileInteractionInputQueueStore with its claims, the recovery at start,  *)
(* /stop, and crashes.  A step ends where the code awaits.                 *)
EXTENDS Naturals, Sequences, FiniteSets, Queues

CONSTANTS
  Message,     \* the text messages users send to this conversation
  Recovery,    \* the actor that runs recoverQueuedInputs
  None,        \* no actor, no message
  Limit,       \* inputs one conversation may queue (100 in the code)
  Left,        \* messages whose inputs an earlier process left in the queue
  MaxTrouble   \* bound: crashes, failed turns, answers that cannot be shown and /stop commands

ASSUME ActorAssumption == Recovery \notin Message /\ None \notin Message \cup {Recovery}
ASSUME LimitAssumption == Limit \in Nat \ {0}
ASSUME LeftAssumption == Left \subseteq Message /\ IsFiniteSet(Left)

Actor == Message \cup {Recovery}

VARIABLES
  store,    \* records of the queue file, oldest first: id, token (0: none), lapsed lease
  used,     \* tokens drawn so far for each record (a token is a fresh UUID)
  phase,    \* phase of the interaction snapshot
  native,   \* inputs handed to the running turn
  primary,  \* inputs reserved by the handler of their message
  held,     \* tokens of claimed primary inputs
  gate,     \* actors at the admission gate; the first one is inside
  session,  \* the actor whose turn holds the session lock
  loaded,   \* whether the process has loaded the session
  actor,    \* each actor's program counter, the input it has in hand, the outcome of its turn
  unfinished, \* inputs whose recovered turn failed, released when the recovery ends
  cancel,   \* where a /stop is, whether it met a session, cancellationRequested and -Published
  admitted, \* history: messages whose senders were told they are taken care of
  closed,   \* history: messages whose own turn failed, or that /stop removed
  answered, \* history: messages a completed turn has answered
  taken,    \* history: the turn a native input was handed to
  disturbed, \* history: live turns that /stop reached, or that another turn started beside
  trouble   \* how much of MaxTrouble has happened

disk == <<store, used>>
adapter == <<phase, native, primary, held>>
history == <<admitted, closed, answered, taken, disturbed>>
vars == <<disk, adapter, gate, session, loaded, actor, unfinished, cancel, history, trouble>>

Busy == {"running", "queued"}
Stored == {store[k].id : k \in DOMAIN store}
NoCancel == [at |-> "no", hit |-> FALSE, requested |-> FALSE, published |-> FALSE]

\* Turns that were reserved and whose end is not published.
Turning == {"planning", "starting", "running", "aborted", "finished"}
Live == {a \in Actor : actor[a].pc \in Turning}

----------------------------------------------------------------------------
(* The queue file.                                                         *)

Unclaimed(i) == [id |-> i, token |-> 0, lapsed |-> FALSE]
HeadIsFree(s) == s # <<>> /\ (s[1].token = 0 \/ s[1].lapsed)
RecordsOf(ids) == [id : ids, token : Nat, lapsed : BOOLEAN]
Without(s, i) == Staying(s, RecordsOf(Message \ {i}))
Claims(s, i, t) == t # 0 /\ \E k \in DOMAIN s : s[k].id = i /\ s[k].token = t

\* A release with a token that is not the record's does nothing.
Released(s, i, t) ==
  [k \in DOMAIN s |-> IF Claims(s, i, t) /\ s[k].id = i THEN Unclaimed(i) ELSE s[k]]
ClaimHead(s) == [s EXCEPT ![1] = [id |-> @.id, token |-> used[@.id] + 1, lapsed |-> FALSE]]

----------------------------------------------------------------------------
(* Steps that several handlers share.                                      *)

Goes(a, pc) == actor' = [actor EXCEPT ![a].pc = pc]
TakesUp(a, r) ==
  actor' = [actor EXCEPT ![a] = [pc |-> "draining", id |-> r.id, token |-> r.token, drains |-> TRUE, ok |-> FALSE]]
\* Mutant of Opened: the gate stays closed behind its actor.
KeptClosed == gate

\* admit() opens the gate to the next actor.
Opened == Tail(gate)
Trouble == trouble < MaxTrouble /\ trouble' = trouble + 1
Drains(a) == actor[a].drains
Enters(a, pc) == actor[a].pc = pc /\ gate # <<>> /\ Head(gate) = a

\* claim(): only the head of the queue can be claimed.
ClaimsHead(a, s, g) ==
  /\ HeadIsFree(s)
  /\ store' = ClaimHead(s)
  /\ used' = [used EXCEPT ![s[1].id] = @ + 1]
  /\ TakesUp(a, store'[1])
  /\ gate' = Append(g, a)

\* peekQueuedInput(): the first input no running turn has, claimed by another or not.
Waiting(s, n) == Staying(s, RecordsOf(Message \ n))

\* One round of drainQueuedInputs up to the wait at the gate.
Drain(a, s, n, g) ==
  \/ ClaimsHead(a, s, g)
  \/ /\ ~HeadIsFree(s)
     /\ Waiting(s, n) # <<>>
     /\ TakesUp(a, Head(Waiting(s, n)))
     /\ gate' = Append(g, a)
     /\ store' = s /\ UNCHANGED used
  \/ /\ ~HeadIsFree(s)
     /\ Waiting(s, n) = <<>>
     /\ Goes(a, "done")
     /\ store' = s /\ gate' = g /\ UNCHANGED used

ReleaseAll(s, inputs) ==
  [k \in DOMAIN s |->
    IF \E i \in inputs : i.token # 0 /\ i.id = s[k].id /\ i.token = s[k].token
    THEN Unclaimed(s[k].id) ELSE s[k]]

\* The loop of recoverQueuedInputs: the next input, or the end with the timer of the failed ones.
Recover(s, failed) ==
  \/ ClaimsHead(Recovery, s, gate) /\ unfinished' = failed
  \/ /\ ~HeadIsFree(s)
     /\ store' = ReleaseAll(s, failed)
     /\ Goes(Recovery, IF failed = {} THEN "done" ELSE "retry")
     /\ unfinished' = {}
     /\ UNCHANGED <<used, gate>>

----------------------------------------------------------------------------
\* The orders in which an earlier process may have queued what it left.
Orders == {o \in [1 .. Cardinality(Left) -> Left] : \A j, k \in DOMAIN o : o[j] = o[k] => j = k}

Init ==
  /\ \E o \in Orders : store = [k \in DOMAIN o |-> Unclaimed(o[k])]
  /\ used = [m \in Message |-> 0]
  /\ phase = "idle" /\ native = {} /\ primary = {} /\ held = [m \in Message |-> 0]
  /\ gate = <<>> /\ session = None /\ loaded = FALSE
  /\ actor = [a \in Actor |->
       [pc |-> IF a = Recovery THEN "retry" ELSE IF a \in Left THEN "done" ELSE "new",
        id |-> a, token |-> 0, drains |-> FALSE, ok |-> FALSE]]
  /\ unfinished = {} /\ cancel = NoCancel
  /\ admitted = Left /\ closed = {} /\ answered = {} /\ taken = [m \in Message |-> None]
  /\ disturbed = {} /\ trouble = 0

(* handle(): a message joins the gate of its owner.                        *)
Arrive(m) ==
  /\ actor[m].pc = "new"
  /\ gate' = Append(gate, m) /\ Goes(m, "waiting")
  /\ UNCHANGED <<disk, adapter, session, loaded, unfinished, cancel, history, trouble>>

(* Inside the gate the phase is read; model and usage are awaited after it. *)
Snapshot(m) ==
  /\ Enters(m, "waiting")
  /\ Goes(m, IF phase \in Busy THEN "busy" ELSE "free")
  /\ UNCHANGED <<disk, adapter, gate, session, loaded, unfinished, cancel, history, trouble>>

Refuse(m) ==
  /\ Goes(m, "done") /\ gate' = Opened
  /\ UNCHANGED <<disk, adapter, history>>

(* deliverOrQueue(): the phase is checked again, the input is stored, and  *)
(* the runtime is asked to take it up.                                     *)
Queue(m) ==
  /\ actor[m].pc = "busy"
  /\ \/ (phase \notin Busy \/ Len(store) >= Limit) /\ Refuse(m)
     \/ /\ phase \in Busy /\ Len(store) < Limit
        /\ store' = Append(store, Unclaimed(m))
        /\ Goes(m, "offer")
        /\ UNCHANGED <<used, adapter, gate, history>>
  /\ UNCHANGED <<session, loaded, unfinished, cancel, trouble>>

(* followUp() succeeds only while a turn streams; turn.queued is published *)
(* either way, whatever the phase is by now.                               *)
Offered(m) ==
  /\ actor[m].pc = "offer"
  /\ \/ UNCHANGED <<native, taken>>
     \/ /\ session # None
        /\ native' = native \cup {m} /\ taken' = [taken EXCEPT ![m] = session]
  /\ phase' = "queued"
  /\ Goes(m, "done") /\ gate' = Opened
  /\ admitted' = admitted \cup {m}
  /\ UNCHANGED <<disk, primary, held, session, loaded, unfinished, cancel>>
  /\ UNCHANGED <<closed, answered, disturbed, trouble>>

(* reservePrimaryInput(), and what follows it without an await: the turn   *)
(* of the message, or, behind a queued input, demotePrimaryInput and the   *)
(* first round of the drain.                                               *)
Reserve(m) ==
  /\ actor[m].pc = "free"
  /\ \/ Len(store) >= Limit /\ Refuse(m)
     \/ /\ store = <<>>
        /\ store' = <<[id |-> m, token |-> 1, lapsed |-> FALSE]>>
        /\ used' = [used EXCEPT ![m] = 1] /\ held' = [held EXCEPT ![m] = 1]
        /\ native' = native \cup {m} /\ primary' = primary \cup {m}
        /\ Goes(m, "start")
        /\ UNCHANGED <<phase, gate, history>>
     \/ /\ store # <<>> /\ Len(store) < Limit
        /\ primary' = primary \cup {m}
        /\ admitted' = admitted \cup {m}
        /\ Drain(m, Append(store, Unclaimed(m)), native, Opened)
        /\ UNCHANGED <<phase, native, held, closed, answered, taken, disturbed>>
  /\ UNCHANGED <<session, loaded, unfinished, cancel, trouble>>

\* Mutant of EnterDrain: the drain goes on in a busy conversation.
EnterDrainAnyway(a) ==
  /\ Enters(a, "draining")
  /\ Goes(a, "start")
  /\ UNCHANGED <<disk, adapter, gate, session, loaded, unfinished, cancel, history, trouble>>

(* A drain that got through the gate gives its input back to a busy        *)
(* conversation.  The recovery does not look.                              *)
EnterDrain(a) ==
  /\ Enters(a, "draining")
  /\ Goes(a, IF phase \in Busy THEN "giveback" ELSE "start")
  /\ UNCHANGED <<disk, adapter, gate, session, loaded, unfinished, cancel, history, trouble>>

\* Mutant of GiveBack: the early return leaves the gate closed.
GiveBackInside(a) ==
  /\ actor[a].pc = "giveback"
  /\ store' = Released(store, actor[a].id, actor[a].token)
  /\ Goes(a, "done")
  /\ UNCHANGED <<used, adapter, gate, session, loaded, unfinished, cancel, history, trouble>>

GiveBack(a) ==
  /\ actor[a].pc = "giveback"
  /\ store' = Released(store, actor[a].id, actor[a].token)
  /\ Goes(a, "done") /\ gate' = Opened
  /\ UNCHANGED <<used, adapter, session, loaded, unfinished, cancel, history, trouble>>

EnterRecovery ==
  /\ Enters(Recovery, "draining")
  /\ Goes(Recovery, "start")
  /\ UNCHANGED <<disk, adapter, gate, session, loaded, unfinished, cancel, history, trouble>>

(* runTurn() up to onReserved: the turn is reserved and the gate opened.   *)
Start(a) ==
  /\ actor[a].pc = "start"
  /\ phase' = "running"
  /\ Goes(a, "planning") /\ gate' = Opened
  /\ admitted' = admitted \cup {actor[a].id}
  /\ disturbed' = IF Live = {} THEN {} ELSE Live \cup {a}
  /\ UNCHANGED <<disk, native, primary, held, session, loaded, unfinished, cancel>>
  /\ UNCHANGED <<closed, answered, taken, trouble>>

(* The model is asked for its status; then turn.started is applied, which  *)
(* writes the phase a second time, whatever it is by now.                  *)
Announce(a) ==
  /\ actor[a].pc = "planning"
  /\ phase' = "running" /\ Goes(a, "starting")
  /\ UNCHANGED <<disk, native, primary, held, gate, session, loaded, unfinished, cancel, history, trouble>>

(* SessionCoordinator.run: one turn at a time holds the session.           *)
Run(a) ==
  /\ actor[a].pc = "starting" /\ session = None
  /\ session' = a /\ loaded' = TRUE
  /\ Goes(a, "running")
  /\ UNCHANGED <<disk, adapter, gate, unfinished, cancel, history, trouble>>

(* The run resolves: an answer, or a failure of the model or by an abort.  *)
Finish(a) ==
  /\ actor[a].pc \in {"running", "aborted"} /\ session = a
  /\ session' = None
  /\ \/ /\ actor' = [actor EXCEPT ![a].pc = "finished", ![a].ok = TRUE]
        /\ answered' = answered \cup {actor[a].id} \cup {m \in Message : taken[m] = a}
        /\ UNCHANGED <<trouble, closed>>
     \/ /\ actor' = [actor EXCEPT ![a].pc = "finished", ![a].ok = FALSE]
        /\ IF actor[a].pc = "aborted" THEN UNCHANGED trouble ELSE Trouble
        /\ closed' = IF Drains(a) THEN closed ELSE closed \cup {a}
        /\ UNCHANGED answered
  /\ taken' = [m \in Message |-> IF taken[m] = a THEN None ELSE taken[m]]
  /\ UNCHANGED <<disk, adapter, gate, loaded, unfinished, cancel, admitted, disturbed>>

(* turn.finished, turn.failed or turn.cancelled is published; a turn that  *)
(* fails publishes nothing where /stop has done so.                        *)
Publish(a) ==
  LET stopped == ~actor[a].ok /\ cancel.requested IN
  /\ actor[a].pc = "finished" /\ Goes(a, "settling")
  /\ phase' = IF stopped /\ cancel.published THEN phase ELSE "ended"
  /\ cancel' = [cancel EXCEPT !.published = @ \/ stopped]
  /\ disturbed' = disturbed \ {a}
  /\ UNCHANGED <<disk, native, primary, held, gate, session, loaded, unfinished>>
  /\ UNCHANGED <<admitted, closed, answered, taken, trouble>>

(* The finally block of message.send: it acknowledges the native inputs of *)
(* a completed turn, the primary ones of a failed turn, and forgets both,  *)
(* and what /stop has noted.                                               *)
Settled(ok) == {i \in IF ok THEN native ELSE primary : held[i] = 0 \/ Claims(store, i, held[i])}
Settle(a) ==
  /\ actor[a].pc = "settling"
  /\ store' = Staying(store, RecordsOf(Message \ Settled(actor[a].ok)))
  /\ native' = {} /\ primary' = {} /\ held' = [m \in Message |-> 0]
  /\ cancel' = [cancel EXCEPT !.requested = FALSE, !.published = FALSE]
  /\ Goes(a, IF actor[a].ok THEN "present" ELSE "fail")
  /\ UNCHANGED <<used, phase, gate, session, loaded, unfinished, history, trouble>>

(* The answer was shown.  A handler goes on with the queue; a drain and    *)
(* the recovery acknowledge the input first, and throw if they cannot.     *)
AckInput(a) == actor[a].token = 0 \/ Claims(store, actor[a].id, actor[a].token)
Present(a) ==
  /\ actor[a].pc = "present"
  /\ \/ ~Drains(a) /\ Drain(a, store, native, gate) /\ UNCHANGED unfinished
     \/ /\ Drains(a) /\ a # Recovery /\ AckInput(a)
        /\ Drain(a, Without(store, actor[a].id), native, gate)
        /\ UNCHANGED unfinished
     \/ a = Recovery /\ AckInput(a) /\ Recover(Without(store, actor[a].id), unfinished)
     \/ Drains(a) /\ ~AckInput(a) /\ Goes(a, "done") /\ UNCHANGED <<disk, gate, unfinished>>
  /\ UNCHANGED <<adapter, session, loaded, cancel, history, trouble>>

(* The error was shown.  A handler discards its message, a drain releases  *)
(* its input, the recovery keeps it claimed until its end.                 *)
PresentFailure(a) ==
  /\ actor[a].pc = "fail"
  /\ \/ /\ ~Drains(a) /\ Goes(a, "done")
        /\ store' = Without(store, a)
        /\ UNCHANGED <<used, gate, unfinished>>
     \/ /\ Drains(a) /\ a # Recovery /\ Goes(a, "done")
        /\ store' = Released(store, actor[a].id, actor[a].token)
        /\ UNCHANGED <<used, gate, unfinished>>
     \/ /\ a = Recovery
        /\ Recover(store, unfinished \cup {[id |-> actor[a].id, token |-> actor[a].token]})
  /\ UNCHANGED <<adapter, session, loaded, cancel, history, trouble>>

(* The answer or the error cannot be shown: the exception ends the actor.  *)
PresentationThrows(a) ==
  /\ actor[a].pc \in {"present", "fail"} /\ Trouble
  /\ Goes(a, "done")
  /\ UNCHANGED <<disk, adapter, gate, session, loaded, unfinished, cancel, history>>

(* recoverQueuedInputs() at the start of the gateway and of its timer.     *)
StartRecovery ==
  /\ actor[Recovery].pc = "retry"
  /\ Recover(store, {})
  /\ UNCHANGED <<adapter, session, loaded, cancel, history, trouble>>

----------------------------------------------------------------------------
(* cancel(): the turn that holds the session is aborted; turn.cancelled is *)
(* published if there was a session, unless a turn has done so; and then   *)
(* the queue is cleared.                                                   *)
Stop ==
  /\ Trouble /\ cancel.at = "no"
  /\ cancel' = [cancel EXCEPT !.at = "aborting", !.hit = loaded,
                              !.requested = @ \/ phase # "idle"]
  /\ actor' = [a \in Actor |->
       IF a = session THEN [actor[a] EXCEPT !.pc = "aborted"] ELSE actor[a]]
  /\ UNCHANGED <<disk, adapter, gate, session, loaded, unfinished, history>>

Stopped ==
  /\ cancel.at = "aborting"
  /\ IF cancel.hit /\ ~cancel.published
     THEN phase' = "ended" /\ disturbed' = Live
     ELSE UNCHANGED <<phase, disturbed>>
  /\ cancel' = [cancel EXCEPT !.at = "clearing", !.published = @ \/ cancel.hit]
  /\ UNCHANGED <<disk, native, primary, held, gate, session, loaded, actor, unfinished>>
  /\ UNCHANGED <<admitted, closed, answered, taken, trouble>>

Cleared ==
  /\ cancel.at = "clearing"
  /\ cancel' = [cancel EXCEPT !.at = "no", !.hit = FALSE, !.requested = @ /\ cancel.hit]
  /\ store' = <<>> /\ native' = {}
  /\ closed' = closed \cup Stored
  /\ UNCHANGED <<used, phase, primary, held, gate, session, loaded, actor, unfinished>>
  /\ UNCHANGED <<admitted, answered, taken, disturbed, trouble>>

(* The process dies and starts again: only the queue file survives.        *)
Crash ==
  /\ Trouble
  /\ phase' = "idle" /\ native' = {} /\ primary' = {} /\ held' = [m \in Message |-> 0]
  /\ gate' = <<>> /\ session' = None /\ loaded' = FALSE
  /\ actor' = [a \in Actor |->
       IF a = Recovery
       THEN [pc |-> "retry", id |-> a, token |-> 0, drains |-> FALSE, ok |-> FALSE]
       ELSE IF actor[a].pc = "new" THEN actor[a] ELSE [actor[a] EXCEPT !.pc = "done"]]
  /\ unfinished' = {} /\ cancel' = NoCancel
  /\ taken' = [m \in Message |-> None] /\ disturbed' = {}
  /\ UNCHANGED <<disk, admitted, closed, answered>>

(* A lease outlives every turn, so it lapses only when nobody works on its *)
(* input any more.                                                         *)
Lapse(k) ==
  /\ store[k].token # 0 /\ ~store[k].lapsed
  /\ \A a \in Actor :
       actor[a].pc = "done" \/ actor[a].id # store[k].id \/ actor[a].token # store[k].token
  /\ held[store[k].id] # store[k].token
  /\ \A i \in unfinished : i.id # store[k].id \/ i.token # store[k].token
  /\ store' = [store EXCEPT ![k].lapsed = TRUE]
  /\ UNCHANGED <<used, adapter, gate, session, loaded, actor, unfinished, cancel, history, trouble>>

Handle(m) == Arrive(m) \/ Snapshot(m) \/ Queue(m) \/ Offered(m) \/ Reserve(m) \/ EnterDrain(m) \/ GiveBack(m)
Turn(a) == Start(a) \/ Announce(a) \/ Run(a) \/ Finish(a) \/ Publish(a) \/ Settle(a) \/ Present(a) \/ PresentFailure(a)

Next ==
  \/ \E m \in Message : Handle(m)
  \/ \E a \in Actor : Turn(a) \/ PresentationThrows(a)
  \/ StartRecovery \/ EnterRecovery
  \/ Stop \/ Stopped \/ Cleared \/ Crash
  \/ \E k \in DOMAIN store : Lapse(k)

Spec == Init /\ [][Next]_vars

\* What an actor does next.
GoesOn(a) ==
  \/ Turn(a)
  \/ /\ a \in Message
     /\ Snapshot(a) \/ Queue(a) \/ Offered(a) \/ Reserve(a) \/ EnterDrain(a) \/ GiveBack(a)
  \/ a = Recovery /\ EnterRecovery

(* Promises settle, runs end, cards are shown: every step of a handler, of *)
(* a turn and of the recovery that stays possible is taken.  Messages,     *)
(* faults, /stop, crashes and the lapse of a lease need not happen.        *)
FairSpec ==
  /\ Spec
  /\ \A a \in Actor : WF_vars(GoesOn(a))
  /\ WF_vars(Stopped \/ Cleared)

----------------------------------------------------------------------------
\* Types; an input has one record, and no actor waits at the gate twice: one
\* that asked for the gate while it is inside would wait for itself.
InputTypeOK ==
  /\ store \in Seq(RecordsOf(Message))
  /\ used \in [Message -> Nat] /\ held \in [Message -> Nat]
  /\ phase \in {"idle", "running", "queued", "ended"}
  /\ native \subseteq Message /\ primary \subseteq Message
  /\ gate \in Seq(Actor) /\ session \in Actor \cup {None}
  /\ cancel.at \in {"no", "aborting", "clearing"} /\ disturbed \subseteq Live
  /\ \A k, l \in DOMAIN store : k # l => store[k].id # store[l].id
  /\ \A k, l \in DOMAIN gate : k # l => gate[k] # gate[l]

\* interaction-runtime.ts:337: "Durably reserves a primary inbound message
\* before the channel acknowledges admission."  A message whose sender was told
\* that it is taken care of stays in the queue, or with an actor, until a turn
\* answered it, its own turn failed, or /stop removed it.
InHand(m) == \E a \in Actor : actor[a].id = m /\ actor[a].pc \notin {"new", "done"}
AdmittedIsKept == \A m \in admitted : m \in Stored \cup closed \cup answered \/ InHand(m)

\* The phase is read, model and usage are awaited, and only then the turn
\* starts (dispatcher.ts:153, 319), while turns write the phase on their own:
\* still no message starts a turn, its own or that of a queued input, beside a
\* live one, unless /stop has reached that one or another turn, as the
\* recovery's may, has started beside it.
NoTurnIsOverrun ==
  [][\A m \in Message :
       actor[m].pc = "start" /\ actor'[m].pc = "planning" => Live \subseteq disturbed]_vars

\* The admission gate never blocks a conversation: a handler that waits at it,
\* for its message or again for an input of the queue, ends, whatever turns
\* fail, presentations throw and users stop.
HandlersFinish ==
  \A m \in Message \ Left : actor[m].pc \in {"waiting", "draining"} ~> actor[m].pc = "done"
=============================================================================

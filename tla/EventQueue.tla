----------------------------- MODULE EventQueue -----------------------------
(***************************************************************************)
(* The event side of RawConnection (src/src/atsq/connection.py): the       *)
(* bounded asyncio.Queue between the receive loop, which publishes, and    *)
(* the tasks inside wait_for_event() or iterating events(), which consume. *)
(*                                                                         *)
(* asyncio runs one task at a time, so a step here is what a task does     *)
(* between two suspensions.  Events are numbered in arrival order (their   *)
(* text is irrelevant), and the queue also carries the close sentinel      *)
(* _QUEUE_CLOSED, which _shutdown() puts in and every consumer puts back.  *)
(*                                                                         *)
(* The asyncio.Queue itself is modelled as CPython implements it: get()    *)
(* on an empty queue parks the task on a getter future; put_nowait()       *)
(* resolves the oldest getter; the woken task runs later, and by then      *)
(* another consumer may have emptied the queue again.                      *)
(***************************************************************************)
EXTENDS Naturals, Sequences, SequencesExt, FiniteSets

CONSTANTS Consumer,   (* tasks that call wait_for_event() or events()       *)
          QueueSize,  (* event_queue_size; 0 makes asyncio.Queue unbounded  *)
          MaxEvents   (* bound: events the server ever sends                *)

ASSUME QueueAssumption == QueueSize \in Nat /\ MaxEvents \in Nat
ASSUME ConsumerAssumption == IsFiniteSet(Consumer)

VARIABLES closed,     (* RawConnection._closed                              *)
          queue,      (* contents of _event_queue, oldest first             *)
          getters,    (* consumers parked on an unresolved getter, FIFO     *)
          wstate,     (* where each consumer is in wait_for_event()         *)
          published,  (* number of events the receive loop has published    *)
          got         (* got[w]: number of the last event w was handed      *)

queueVars == <<closed, queue, getters, wstate, published, got>>

Sentinel == 0                     (* _QUEUE_CLOSED; events are 1, 2, ...    *)
Full == QueueSize > 0 /\ Len(queue) >= QueueSize
Woken == {w \in Consumer : wstate[w] = "woken"}

EQInit ==
    /\ closed = FALSE
    /\ queue = <<>>
    /\ getters = <<>>
    /\ wstate = [w \in Consumer |-> "idle"]
    /\ published = 0
    /\ got = [w \in Consumer |-> 0]

-----------------------------------------------------------------------------
(* asyncio.Queue *)

\* put_nowait() and a cancelled get() resolve the oldest getter, if any; ws
\* is wstate with the calling consumer's own change already applied.
WakeNext(ws) ==
    IF getters = <<>>
    THEN wstate' = ws /\ UNCHANGED getters
    ELSE /\ wstate' = [ws EXCEPT ![Head(getters)] = "woken"]
         /\ getters' = Tail(getters)

-----------------------------------------------------------------------------
(* Publishing *)

\* Seeded faults: never evict; evict the newest item instead of the oldest.
MakeRoomNever == queue
MakeRoomNewest == IF Full THEN SubSeq(queue, 1, Len(queue) - 1) ELSE queue

\* The QueueFull branch of both publishing loops: drop the oldest item.
MakeRoom == IF Full THEN Tail(queue) ELSE queue

\* _publish_event
PublishEvent ==
    /\ published < MaxEvents
    /\ published' = published + 1
    /\ queue' = Append(MakeRoom, published + 1)
    /\ WakeNext(wstate)
    /\ UNCHANGED <<closed, got>>

\* Seeded fault: the sentinel gives up on a full queue.
PublishSentinelIfRoom ==
    IF Full THEN UNCHANGED <<queue, getters, wstate>>
    ELSE queue' = Append(queue, Sentinel) /\ WakeNext(wstate)

\* _publish_event_sentinel
PublishSentinel ==
    /\ queue' = Append(MakeRoom, Sentinel)
    /\ WakeNext(wstate)

\* The event side of _shutdown(), which runs once: it returns early when
\* the connection is already closed.
CloseStream ==
    /\ ~closed
    /\ closed' = TRUE
    /\ PublishSentinel
    /\ UNCHANGED <<published, got>>

-----------------------------------------------------------------------------
(* Consuming: wait_for_event(), which events() calls in a loop *)

\* A consumer that finds the queue empty parks; on a closed connection it
\* would raise instead of parking.
BeginWait(w) ==
    /\ wstate[w] = "idle"
    /\ queue = <<>>
    /\ ~closed
    /\ getters' = Append(getters, w)
    /\ wstate' = [wstate EXCEPT ![w] = "waiting"]
    /\ UNCHANGED <<closed, queue, published, got>>

\* Woken, but another consumer took the item first: park again, last in line.
WaitAgain(w) ==
    /\ wstate[w] = "woken"
    /\ queue = <<>>
    /\ getters' = Append(getters, w)
    /\ wstate' = [wstate EXCEPT ![w] = "waiting"]
    /\ UNCHANGED <<closed, queue, published, got>>

\* get() returns an event: at once to a caller that finds one, or on resuming.
TakeEvent(w) ==
    /\ wstate[w] \in {"idle", "woken"}
    /\ queue # <<>> /\ Head(queue) # Sentinel
    /\ queue' = Tail(queue)
    /\ got' = [got EXCEPT ![w] = Head(queue)]
    /\ wstate' = [wstate EXCEPT ![w] = "idle"]
    /\ UNCHANGED <<closed, getters, published>>

\* Seeded fault: the first consumer to see the sentinel keeps it.
SeeClosedKeep(w) ==
    /\ wstate[w] \in {"idle", "woken"}
    /\ queue # <<>> /\ Head(queue) = Sentinel
    /\ queue' = Tail(queue)
    /\ wstate' = [wstate EXCEPT ![w] = "idle"]
    /\ UNCHANGED <<closed, getters, published, got>>

\* get() returns the sentinel: put it back, which wakes the next consumer,
\* and raise ConnectionClosedError.
SeeClosed(w) ==
    /\ wstate[w] \in {"idle", "woken"}
    /\ queue # <<>> /\ Head(queue) = Sentinel
    /\ queue' = Append(Tail(queue), Sentinel)
    /\ WakeNext([wstate EXCEPT ![w] = "idle"])
    /\ UNCHANGED <<closed, published, got>>

\* The timeout of wait_for_event() expires, or the consumer is cancelled.
\* A parked getter just leaves the line.
AbandonParked(w) ==
    /\ wstate[w] = "waiting"
    /\ \E i \in DOMAIN getters :
          getters[i] = w /\ getters' = RemoveAt(getters, i)
    /\ wstate' = [wstate EXCEPT ![w] = "idle"]
    /\ UNCHANGED <<closed, queue, published, got>>

\* asyncio.Queue.get(): a getter interrupted after it was resolved hands its
\* wake-up to the next one when there is something left to take.
PassOn(w) ==
    IF queue = <<>>
    THEN wstate' = [wstate EXCEPT ![w] = "idle"] /\ UNCHANGED getters
    ELSE WakeNext([wstate EXCEPT ![w] = "idle"])

\* Seeded fault: the wake-up dies with the consumer it was meant for.
AbandonWokenSilent(w) ==
    /\ wstate[w] = "woken"
    /\ wstate' = [wstate EXCEPT ![w] = "idle"]
    /\ UNCHANGED <<closed, queue, getters, published, got>>

AbandonWoken(w) ==
    /\ wstate[w] = "woken"
    /\ PassOn(w)
    /\ UNCHANGED <<closed, queue, published, got>>

ConsumerStep(w) ==
    \/ BeginWait(w)
    \/ WaitAgain(w)
    \/ TakeEvent(w)
    \/ SeeClosed(w)
    \/ AbandonParked(w)
    \/ AbandonWoken(w)

-----------------------------------------------------------------------------
(* The event side alone: the receive loop publishes until the connection   *)
(* shuts down.                                                             *)

ReceiveEvent == ~closed /\ PublishEvent

EQNext ==
    \/ ReceiveEvent
    \/ CloseStream
    \/ \E w \in Consumer : ConsumerStep(w)

EQSpec == EQInit /\ [][EQNext]_queueVars

\* A woken task is on the event loop's ready list, so it runs: nothing else
\* is assumed, neither that the server sends nor that anyone consumes.
ResumeFairness ==
    \A w \in Consumer :
        WF_queueVars(wstate[w] = "woken" /\ (TakeEvent(w) \/ SeeClosed(w) \/ WaitAgain(w)))

EQFairSpec == EQSpec /\ ResumeFairness

-----------------------------------------------------------------------------
(* Properties *)

\* The line of getters lists exactly the parked consumers, each once.
LineOK(line, ws) ==
    /\ ws \in [Consumer -> {"idle", "waiting", "woken"}]
    /\ line \in Seq(Consumer)
    /\ \A w \in Consumer : ws[w] = "waiting" <=> \E i \in DOMAIN line : line[i] = w
    /\ \A i, j \in DOMAIN line : line[i] = line[j] => i = j

\* The state is well formed and the queue never exceeds its limit.
EQTypeOK ==
    /\ closed \in BOOLEAN
    /\ published \in Nat
    /\ queue \in Seq(Nat)
    /\ QueueSize > 0 => Len(queue) <= QueueSize
    /\ got \in [Consumer -> Nat]
    /\ LineOK(getters, wstate)

NEvents == IF closed THEN Len(queue) - 1 ELSE Len(queue)

\* Once closed, the sentinel is in the queue, behind every event, and stays
\* there whoever consumes it (lines 242-244: "leave the sentinel in place"); in
\* front of it are the most recent events, in arrival order, none repeated.
QueueInv ==
    /\ closed => queue # <<>> /\ queue[Len(queue)] = Sentinel
    /\ NEvents <= published
    /\ \A i \in 1 .. NEvents : queue[i] = published - NEvents + i

\* No lost wake-up: while a consumer is parked, every item in the queue has a
\* consumer on its way to it, whatever timeouts, cancellations and consumers
\* that jump the line did in between.
NoStrandedConsumer ==
    getters # <<>> => Len(queue) <= Cardinality(Woken)

\* The queue implements the event stream: in order, at most once, and lossy
\* only when QueueSize events are unread.
Stream == INSTANCE EventStream WITH
            Capacity <- QueueSize, consumed <- published - NEvents
ImplementsStream == Stream!Spec

\* When the connection shuts down every consumer inside wait_for_event()
\* returns, and none parks again: the one sentinel reaches all of them.
ConsumersReleased ==
    closed ~> [](\A w \in Consumer : wstate[w] = "idle")
=============================================================================

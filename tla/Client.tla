------------------------------- MODULE Client -------------------------------
(***************************************************************************)
(* Class Client of src/src/atsq/client.py: start(), close(), and the       *)
(* run_forever() loop that connects, dispatches events to the handlers and *)
(* reconnects with backoff.                                                *)
(*                                                                         *)
(* A connection is what RawConnection promises (modules RawConnection and  *)
(* EventStream): it is open until it is closed, once, by either side; its  *)
(* unread events are handed out oldest first, the oldest being lost when   *)
(* Capacity are unread, and are still handed out after it closed; then its *)
(* events() end.  Connections are numbered in the order they are made.     *)
(***************************************************************************)
EXTENDS Naturals, Sequences, FiniteSets

CONSTANTS
    RF,           (* the task inside run_forever()                          *)
    App,          (* other application tasks that call start()              *)
    Setup,        (* what start() awaits once the SSH connection is up, in  *)
                  (* order: the session, the greeting, the commands         *)
    EventName,    (* names of the events the server sends                   *)
    HandlerCount, (* the handlers @client.on() has appended for each name   *)
    Capacity,     (* event_queue_size                                       *)
    InitialDelay, MaxDelay, BannedDelay,   (* arguments of run_forever()    *)
    Usages,       (* the ways the application may go about it, each a set   *)
                  (* of "shared", other tasks call start(), "early",        *)
                  (* close() may come while start() is in progress, and     *)
                  (* "ready", on_ready may raise                            *)
    MaxFailures,  (* bound: failures in a row that are counted              *)
    MaxConns,     (* bound: connections that can be made                    *)
    MaxEvents     (* bound: events the server sends                         *)

AnyEvent == "*"

\* The backoff without its cap, after n failures in a row.
Doubled[n \in Nat] == IF n = 0 THEN InitialDelay ELSE 2 * Doubled[n - 1]

ASSUME ClientAssumption ==
    /\ RF \notin App
    /\ Setup \in Seq({"session", "greeting", "use", "clientupdate", "servernotifyregister"})
    /\ Setup # <<>>
    /\ AnyEvent \notin EventName
    /\ HandlerCount \in [EventName \cup {AnyEvent} -> Nat]
    /\ {Capacity, InitialDelay, MaxDelay, BannedDelay, MaxConns, MaxEvents} \subseteq Nat
    /\ Capacity > 0 /\ InitialDelay <= MaxDelay
    /\ MaxFailures \in Nat \ {0} /\ Doubled[MaxFailures - 1] >= MaxDelay
    /\ Usages \subseteq SUBSET {"shared", "early", "ready"}

Task == App \cup {RF}
Conn == 1 .. MaxConns
NoConn == 0

VARIABLES
    usage,     (* the way the application goes about it                     *)
    conn,      (* _conn                                                     *)
    stopping,  (* _stopping                                                 *)
    made,      (* number of connections made so far                         *)
    open,      (* the connections that are not closed                       *)
    unread,    (* unread[i]: events in the queue of connection i            *)
    sent,      (* number of events sent by the server                       *)
    at,        (* at[t]: where task t is in start()                         *)
    new,       (* new[t]: the connection start() is setting up in task t    *)
    step,      (* step[t]: index in Setup of what t awaits                  *)
    rf,        (* where run_forever() is                                    *)
    src,       (* the connection whose events() it iterates                 *)
    event,     (* the event it dispatches                                   *)
    todo,      (* the handlers that have yet to run for it                  *)
    delay,     (* delay                                                     *)
    wait,      (* how long it sleeps                                        *)
    ready,     (* history: connections on_ready completed for               *)
    failures,  (* history: sleeps since the last successful start()         *)
    log        (* history: event number, connection, name and handler of    *)
               (* every run                                                 *)

connVars == <<usage, conn, made, open, unread, sent>>
startVars == <<at, new, step>>
loopVars == <<rf, src, event, todo, delay, wait>>
history == <<ready, failures, log>>
vars == <<connVars, stopping, startVars, loopVars, history>>

Event == [n : Nat \ {0}, name : EventName]
NoEvent == [n |-> 0, name |-> AnyEvent]
Handler == [name : EventName \cup {AnyEvent}, i : Nat \ {0}]

Init ==
    /\ usage \in Usages
    /\ conn = NoConn /\ stopping = FALSE
    /\ made = 0 /\ open = {} /\ sent = 0
    /\ unread = [i \in Conn |-> <<>>]
    /\ at = [t \in Task |-> "out"]
    /\ new = [t \in Task |-> NoConn] /\ step = [t \in Task |-> 1]
    /\ rf = "top" /\ src = NoConn /\ event = NoEvent /\ todo = <<>>
    /\ delay = InitialDelay /\ wait = 0
    /\ ready = {} /\ failures = 0 /\ log = <<>>

-----------------------------------------------------------------------------
(* Connections *)

Connected == conn \in open

\* Seeded fault: the queue is not bounded.
MakeRoomNever(q) == q

\* A full queue gives up its oldest event, to an event or to the sentinel.
MakeRoom(q) == IF Len(q) >= Capacity THEN Tail(q) ELSE q

\* RawConnection is closed, by either side; nothing happens the second time.
CloseConn(i) ==
    /\ open' = open \ {i}
    /\ unread' = IF i \in open THEN [unread EXCEPT ![i] = MakeRoom(@)] ELSE unread

ConnectionLost(i) ==
    /\ i \in open
    /\ CloseConn(i)
    /\ UNCHANGED <<usage, conn, made, sent, stopping, startVars, loopVars, history>>

\* Connection i has a receive loop from the greeting on, whether start() has
\* installed it yet, and whether another has been installed since.
Receiving(i) ==
    /\ i \in open
    /\ \A t \in Task : at[t] = "setup" /\ new[t] = i => Setup[step[t]] \notin {"session", "greeting"}

\* The server notifies of an event, and the receive loop queues it.
EventArrives(i) ==
    /\ Receiving(i)
    /\ sent < MaxEvents
    /\ sent' = sent + 1
    /\ \E name \in EventName :
         unread' = [unread EXCEPT ![i] = Append(MakeRoom(@), [n |-> sent + 1, name |-> name])]
    /\ UNCHANGED <<usage, conn, made, open, stopping, startVars, loopVars, history>>

-----------------------------------------------------------------------------
(* run_forever(): the end of a round *)

\* Seeded fault: doubling is not capped.
NextDelayUncapped == delay * 2

NextDelay == IF delay * 2 > MaxDelay THEN MaxDelay ELSE delay * 2

\* The try block is left by an error ("none" when events() just ended):
\* stop, or sleep before the next round.
EndRound(error) ==
    /\ IF stopping THEN rf' = "done" /\ UNCHANGED <<wait, failures>>
       ELSE /\ rf' = "sleep"
            /\ wait' = IF error = "banned" THEN BannedDelay ELSE delay
            /\ failures' = IF failures < MaxFailures THEN failures + 1 ELSE failures
    /\ event' = NoEvent /\ todo' = <<>>
    /\ UNCHANGED <<src, delay, ready, log>>

\* The sleep is over.
Wake ==
    /\ rf = "sleep"
    /\ delay' = NextDelay
    /\ rf' = "top"
    /\ UNCHANGED <<connVars, stopping, startVars, src, event, todo, wait, history>>

-----------------------------------------------------------------------------
(* start() *)

\* Another task of the application calls start() of this client.
AppStart(t) ==
    /\ "shared" \in usage /\ t \in App /\ at[t] = "out"
    /\ at' = [at EXCEPT ![t] = "dial"]
    /\ UNCHANGED <<connVars, stopping, new, step, loopVars, history>>

\* What start() raises, run_forever() handles and the application gets.
Raise(t, error) ==
    /\ at' = [at EXCEPT ![t] = "out"]
    /\ IF t = RF THEN EndRound(error) ELSE UNCHANGED <<loopVars, history>>

\* The SSH connection cannot be made; a ban shows in the message.
DialFails(t) ==
    /\ at[t] = "dial"
    /\ \E error \in {"other", "banned"} : Raise(t, error)
    /\ UNCHANGED <<connVars, stopping, new, step>>

\* The SSH connection is up.
Dialed(t) ==
    /\ at[t] = "dial"
    /\ made < MaxConns
    /\ made' = made + 1
    /\ open' = open \cup {made + 1}
    /\ at' = [at EXCEPT ![t] = "setup"]
    /\ new' = [new EXCEPT ![t] = made + 1]
    /\ step' = [step EXCEPT ![t] = 1]
    /\ UNCHANGED <<usage, conn, unread, sent, stopping, loopVars, history>>

\* Seeded fault: on_ready only runs after the first connect.
EstablishedReadyOnce(t) ==
    /\ conn' = new[t]
    /\ at' = [at EXCEPT ![t] = "out"]
    /\ IF t = RF
       THEN /\ rf' = IF ready = {} THEN "ready" ELSE "events"
            /\ src' = new[t] /\ delay' = InitialDelay /\ failures' = 0
            /\ UNCHANGED <<event, todo, wait, ready, log>>
       ELSE UNCHANGED <<loopVars, history>>
    /\ UNCHANGED <<new, step>>

\* Setup is complete.  run_forever() goes on to on_ready.
Established(t) ==
    /\ conn' = new[t]
    /\ at' = [at EXCEPT ![t] = "out"]
    /\ IF t = RF
       THEN /\ rf' = "ready" /\ delay' = InitialDelay /\ failures' = 0
            /\ UNCHANGED <<src, event, todo, wait, ready, log>>
       ELSE UNCHANGED <<loopVars, history>>
    /\ UNCHANGED <<new, step>>

\* The awaited step succeeds, or is the nickname and is refused.
SetupStep(t) ==
    /\ at[t] = "setup" /\ new[t] \in open
    /\ IF step[t] = Len(Setup) THEN Established(t)
       ELSE /\ step' = [step EXCEPT ![t] = @ + 1]
            /\ UNCHANGED <<conn, at, new, loopVars, history>>
    /\ UNCHANGED <<usage, made, open, unread, sent, stopping>>

\* Seeded fault: the connection is not closed.
SetupAbortedUnclosed(t) ==
    /\ at[t] = "setup"
    /\ UNCHANGED <<open, unread>>
    /\ at' = [at EXCEPT ![t] = "undo"]

\* The except clause of start(), or of SshTransport.connect() while it opens
\* the session, closes the connection before it raises again.
SetupAborted(t) ==
    /\ at[t] = "setup"
    /\ CloseConn(new[t])
    /\ at' = [at EXCEPT ![t] = "undo"]

\* The step is refused by the server, or the connection does not survive it.
SetupFails(t) ==
    /\ SetupAborted(t)
    /\ Setup[step[t]] \in {"greeting", "clientupdate"} => new[t] \notin open
    /\ UNCHANGED <<usage, conn, made, sent, stopping, new, step, loopVars, history>>

SetupUndone(t) ==
    /\ at[t] = "undo"
    /\ \E error \in {"other", "banned"} : Raise(t, error)
    /\ UNCHANGED <<connVars, stopping, new, step>>

-----------------------------------------------------------------------------
(* run_forever(): a round *)

\* Seeded fault: a closed connection counts as one.
NeedsStartIfNone == conn = NoConn

NeedsStart == ~Connected

\* Top of the loop: no live connection, so start() one.
RoundStarts ==
    /\ rf = "top" /\ ~stopping /\ NeedsStart
    /\ rf' = "starting"
    /\ at' = [at EXCEPT ![RF] = "dial"]
    /\ UNCHANGED <<connVars, stopping, new, step, src, event, todo, delay, wait, history>>

\* A live connection is used as it is, on_ready included: it is not run.
RoundResumes ==
    /\ rf = "top" /\ ~stopping /\ ~NeedsStart
    /\ rf' = "events" /\ src' = conn
    /\ UNCHANGED <<connVars, stopping, startVars, event, todo, delay, wait, history>>

Stops ==
    /\ rf = "top" /\ stopping
    /\ rf' = "done"
    /\ UNCHANGED <<connVars, stopping, startVars, src, event, todo, delay, wait, history>>

ReadyDone ==
    /\ rf = "ready"
    /\ rf' = "events" /\ src' = conn
    /\ ready' = ready \cup {conn}
    /\ UNCHANGED <<connVars, stopping, startVars, event, todo, delay, wait, failures, log>>

ReadyRaises ==
    /\ "ready" \in usage
    /\ rf = "ready"
    /\ \E error \in {"other", "banned"} : EndRound(error)
    /\ UNCHANGED <<connVars, stopping, startVars>>

-----------------------------------------------------------------------------
(* run_forever(): events and handlers *)

\* The list _handlers keeps of a name.
Named(name) == [i \in 1 .. HandlerCount[name] |-> [name |-> name, i |-> i]]

\* Handlers of the event's own name first, then those of every event.
Handlers(name) == Named(name) \o Named(AnyEvent)

\* events() yields the oldest unread event; a closed connection's too.
NextEvent ==
    /\ rf = "events"
    /\ unread[src] # <<>>
    /\ unread' = [unread EXCEPT ![src] = Tail(@)]
    /\ event' = Head(unread[src])
    /\ todo' = Handlers(Head(unread[src]).name)
    /\ rf' = "dispatch"
    /\ UNCHANGED <<usage, conn, made, open, sent, stopping, startVars, src, delay, wait, history>>

\* Seeded fault: an exception in one handler is the end of the event.
AfterHandlerStops(raised) == IF raised THEN <<>> ELSE Tail(todo)

\* What a handler raises is logged; the others have their turn all the same.
AfterHandler(raised) == Tail(todo)

\* The next handler runs.  It is awaited, and what it awaits lets every other
\* action in between.
RunHandler ==
    /\ rf = "dispatch" /\ todo # <<>>
    /\ \E raised \in BOOLEAN : todo' = AfterHandler(raised)
    /\ log' = Append(log, [n |-> event.n, c |-> src, name |-> event.name, h |-> Head(todo)])
    /\ UNCHANGED <<connVars, stopping, startVars, rf, src, event, delay, wait, ready, failures>>

Dispatched ==
    /\ rf = "dispatch" /\ todo = <<>>
    /\ rf' = "events" /\ event' = NoEvent
    /\ UNCHANGED <<connVars, stopping, startVars, src, todo, delay, wait, history>>

\* Seeded fault: events() ends when there is nothing to read.
EventsEndEarly ==
    /\ rf = "events"
    /\ unread[src] = <<>>
    /\ EndRound("none")
    /\ UNCHANGED <<connVars, stopping, startVars>>

\* Everything is read and the connection is closed: events() ends.
EventsEnd ==
    /\ rf = "events"
    /\ unread[src] = <<>> /\ src \notin open
    /\ EndRound("none")
    /\ UNCHANGED <<connVars, stopping, startVars>>

\* The application cancels run_forever().  start() closes the connection it
\* is setting up; one that is established stays.
CancelRun ==
    /\ rf # "done"
    /\ rf' = "done"
    /\ IF at[RF] = "setup" THEN CloseConn(new[RF]) ELSE UNCHANGED <<open, unread>>
    /\ at' = [at EXCEPT ![RF] = "out"]
    /\ event' = NoEvent /\ todo' = <<>>
    /\ UNCHANGED <<usage, conn, made, sent, stopping, new, step, src, delay, wait, history>>

-----------------------------------------------------------------------------
(* close() *)

\* Seeded fault: the flag is set, the connection stays.
CloseFlagOnly ==
    /\ "early" \in usage \/ \A t \in Task : at[t] = "out"
    /\ stopping' = TRUE
    /\ UNCHANGED <<connVars, startVars, loopVars, history>>

\* Called by a handler, by on_ready or by another task, at any time; unless
\* "early", only while no start() is in progress.
Close ==
    /\ "early" \in usage \/ \A t \in Task : at[t] = "out"
    /\ stopping' = TRUE
    /\ IF conn = NoConn THEN UNCHANGED <<open, unread>> ELSE CloseConn(conn)
    /\ UNCHANGED <<usage, conn, made, sent, startVars, loopVars, history>>

-----------------------------------------------------------------------------
StartStep(t) ==
    DialFails(t) \/ Dialed(t) \/ SetupStep(t) \/ SetupFails(t) \/ SetupUndone(t)

RunStep ==
    \/ RoundStarts \/ RoundResumes \/ Stops \/ ReadyDone \/ ReadyRaises
    \/ NextEvent \/ RunHandler \/ Dispatched \/ EventsEnd \/ Wake

Next ==
    \/ \E t \in Task : StartStep(t) \/ AppStart(t)
    \/ RunStep \/ CancelRun \/ Close
    \/ \E i \in Conn : ConnectionLost(i) \/ EventArrives(i)

Spec == Init /\ [][Next]_vars

\* The event loop runs what is ready, sleeps end, and so do on_ready and the
\* handlers, which is up to the application.  Nothing is assumed of start():
\* the greeting has no timeout.
Fairness == WF_vars(RunStep)

FairSpec == Spec /\ Fairness

-----------------------------------------------------------------------------
(* Properties *)

\* No queue of unread events is longer than it may be.
ConnTypeOK ==
    /\ usage \in Usages
    /\ made \in 0 .. MaxConns /\ conn \in 0 .. made /\ open \subseteq 1 .. made
    /\ stopping \in BOOLEAN
    /\ sent \in 0 .. MaxEvents
    /\ unread \in [Conn -> Seq(Event)]
    /\ \A i \in Conn : Len(unread[i]) <= Capacity

\* What start() sets up or gives up is a connection it has made.
StartTypeOK ==
    /\ at \in [Task -> {"out", "dial", "setup", "undo"}]
    /\ new \in [Task -> 0 .. made] /\ step \in [Task -> 1 .. Len(Setup)]
    /\ \A t \in Task : at[t] \in {"setup", "undo"} => new[t] # NoConn

\* run_forever() is in start() just when it says so, and has a connection
\* where it uses one.
LoopTypeOK ==
    /\ rf \in {"top", "starting", "ready", "events", "dispatch", "sleep", "done"}
    /\ at[RF] = "out" <=> rf # "starting"
    /\ src \in 0 .. made /\ (rf \in {"events", "dispatch"} => src # NoConn)
    /\ rf = "ready" => conn # NoConn
    /\ event \in IF rf = "dispatch" THEN Event ELSE {NoEvent}
    /\ todo \in Seq(Handler) /\ (rf # "dispatch" => todo = <<>>)
    /\ delay \in InitialDelay .. MaxDelay /\ wait \in {0, BannedDelay} \cup InitialDelay .. MaxDelay
    /\ ready \subseteq 0 .. made /\ failures \in 0 .. MaxFailures
    /\ log \in Seq([n : Nat \ {0}, c : Conn, name : EventName, h : Handler])

\* The state is well formed.
ClientTypeOK == ConnTypeOK /\ StartTypeOK /\ LoopTypeOK

\* No connection leaks, if nobody but run_forever() calls start(): one that
\* is open is the client's, or start() is still busy setting it up, whatever
\* failed, was cancelled or was lost before.
NoOrphan ==
    "shared" \notin usage =>
       \A i \in open : i = conn \/ \E t \in Task : at[t] = "setup" /\ new[t] = i

\* "exponential backoff (initial_delay doubling up to max_delay)" (lines
\* 256-257): the delay is set by the failures since the last successful
\* start(), and by nothing before it.
BackoffOf(n) ==
    IF Doubled[n] > MaxDelay THEN MaxDelay ELSE Doubled[n]
Backoff ==
    LET sleeps == IF rf = "sleep" THEN failures - 1 ELSE failures
    IN rf # "done" => delay = BackoffOf(sleeps)

\* Handlers run for the events in the order of arrival, over reconnects too,
\* those of its name before the catch-all ones, each kind in order of
\* registration ("sequentially", line 225); and none is left out when the
\* loop goes on to the next event, whatever was raised or reconnected in
\* between.  If other tasks call start(), several connections queue events at
\* a time, and only those of each are in order.
RunsBefore(g, h) == IF g.name = h.name THEN g.i < h.i ELSE h.name = AnyEvent
Over(n) == n # event.n /\ (rf = "done" => n # log[Len(log)].n)
HandlersInOrder ==
    /\ \A i, j \in DOMAIN log : i < j =>
          \/ log[i].n < log[j].n
          \/ log[i].n = log[j].n /\ RunsBefore(log[i].h, log[j].h)
          \/ "shared" \in usage /\ log[i].c # log[j].c
    /\ \A i \in DOMAIN log : Over(log[i].n) =>
          \A name \in {log[i].name, AnyEvent} : \A h \in 1 .. HandlerCount[name] :
             \E j \in DOMAIN log :
                log[j].n = log[i].n /\ log[j].h = [name |-> name, i |-> h]

\* "connection lost; reconnecting" (line 283): run_forever() only sleeps and
\* starts another round when there is no live connection to serve.
SleepsWhenLost == rf = "sleep" => ~Connected

\* That holds if nobody else connects and on_ready does not raise.
SleepsOnlyWhenLost == usage \cap {"shared", "ready"} = {} => SleepsWhenLost

\* Handlers never see an event of a connection before on_ready has completed
\* on it, if nobody else connects and on_ready does not raise.
ReadyBeforeEvents ==
    usage \cap {"shared", "ready"} = {} /\ rf \in {"events", "dispatch"} => src \in ready

\* "Disconnect and stop run_forever" (line 184): a client that was closed
\* does not serve the events of a live connection.
ClosedMeansDisconnected == stopping /\ rf = "events" => src \notin open

\* That holds if nobody else connects and close() does not come while start()
\* is in progress.
ClosedStaysDisconnected == usage \cap {"shared", "early"} = {} => ClosedMeansDisconnected

\* After close(), run_forever() returns, if nobody else connects and close()
\* does not come while start() is in progress.
CloseStopsLoop == stopping /\ usage \cap {"shared", "early"} = {} ~> rf = "done"

\* A sleep is followed by another attempt to connect, for ever, unless the
\* client was closed or the loop cancelled.
KeepsTrying == rf = "sleep" ~> at[RF] = "dial" \/ Connected \/ rf = "done"
=============================================================================

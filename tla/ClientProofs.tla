---------------------------- MODULE ClientProofs ----------------------------
(***************************************************************************)
(* Theorems about Client, for any number of tasks, connections, events and *)
(* handlers, any setup and any delays.                                     *)
(***************************************************************************)
EXTENDS Client, SequenceInduction

-----------------------------------------------------------------------------
(* The inductive invariant *)

\* Nobody but run_forever() connects: what is open is what it has made last.
AloneInv ==
    "shared" \notin usage =>
       /\ \A t \in App : at[t] = "out"
       /\ at[RF] \in {"dial", "undo"} => open = {}
       /\ at[RF] = "setup" => open \subseteq {new[RF]}
       /\ at[RF] = "out" => open \subseteq {conn}
       /\ rf \in {"events", "dispatch"} => src = conn

\* If on_ready does not raise either, a round ends with the connection only.
ServedInv ==
    usage \cap {"shared", "ready"} = {} =>
       /\ rf \in {"top", "sleep"} => ~Connected
       /\ rf \in {"events", "dispatch"} => src \in ready

\* If close() waits for start(), it is the end of the last connection.
StoppedInv ==
    usage \cap {"shared", "early"} = {} /\ stopping => at[RF] = "out" /\ open = {}

DelayInv == Backoff /\ (rf = "sleep" => failures > 0)

\* What is unread on connection i has not been dispatched, and on the
\* connection whose events are dispatched it is later than what was.
Behind(i) ==
    \A k \in 1 .. Len(unread[i]) :
       /\ unread[i][k].n # event.n /\ (i = src => event.n < unread[i][k].n)
       /\ \A j \in 1 .. Len(log) :
             log[j].n # unread[i][k].n /\ (log[j].c = i => log[j].n < unread[i][k].n)

\* What is unread on connection i is later than all that was dispatched.
Later(i) ==
    \A k \in 1 .. Len(unread[i]) :
       /\ event.n < unread[i][k].n
       /\ \A j \in 1 .. Len(log) : log[j].n < unread[i][k].n

\* The events of connection i are unread in the order they were sent.
Sorted(i) ==
    \A k \in 1 .. Len(unread[i]) :
       /\ unread[i][k].n <= sent
       /\ \A j \in 1 .. Len(unread[i]) : j < k => unread[i][j].n < unread[i][k].n

\* An event is in one queue only.
Apart(i, l) ==
    \A j \in 1 .. Len(unread[i]), k \in 1 .. Len(unread[l]) : unread[i][j].n # unread[l][k].n

\* If nobody but run_forever() connects, it reads connection i, or will next.
Reads(i) == i = conn \/ (at[RF] = "setup" /\ i = new[RF])

\* Events are unread in the order they were sent, on each connection; and
\* those of a connection after all that was dispatched before it, if nobody
\* but run_forever() connects.
QueueInv ==
    /\ event.n <= sent /\ \A j \in 1 .. Len(log) : log[j].n <= sent
    /\ \A i \in Conn : (i > made => unread[i] = <<>>) /\ Sorted(i) /\ Behind(i)
    /\ \A i, l \in Conn : i # l => Apart(i, l)
    /\ "shared" \notin usage => \A i \in Conn : Reads(i) => Later(i)

\* The handlers that have run for the event, the last in the log, and those
\* that have yet to run are its handlers.
Ran == Len(Handlers(event.name)) - Len(todo)
Entry(h) == [n |-> event.n, c |-> src, name |-> event.name, h |-> h]
DispatchInv ==
    rf = "dispatch" =>
       /\ Ran \in 0 .. Len(log)
       /\ \A i \in 1 .. Len(todo) : todo[i] = Handlers(event.name)[Ran + i]
       /\ \A i \in 1 .. Ran : log[Len(log) - Ran + i] = Entry(Handlers(event.name)[i])
       /\ \A j \in 1 .. Len(log) - Ran :
             /\ log[j].n # event.n
             /\ log[j].c = src \/ "shared" \notin usage => log[j].n < event.n

LogInv == QueueInv /\ DispatchInv /\ HandlersInOrder
ClientInv == ClientTypeOK /\ AloneInv /\ ServedInv /\ StoppedInv /\ DelayInv /\ LogInv

-----------------------------------------------------------------------------
(* Operators *)

\* What is left of a queue when there is room: the same, but for the oldest.
LEMMA MakeRoomProperties ==
    ASSUME NEW S, NEW q \in Seq(S), Len(q) <= Capacity
    PROVE  /\ MakeRoom(q) \in Seq(S)
           /\ Len(MakeRoom(q)) < Capacity
           /\ q = <<>> => MakeRoom(q) = <<>>
           /\ \E d \in 0 .. 1 :
                 /\ Len(MakeRoom(q)) = Len(q) - d
                 /\ \A k \in 1 .. Len(MakeRoom(q)) : MakeRoom(q)[k] = q[k + d]
<1>1. Capacity \in Nat /\ Capacity > 0 /\ Len(q) \in Nat /\ Len(<<>>) = 0
  BY ClientAssumption, LenProperties, EmptySeq
<1>2. CASE Len(q) >= Capacity
  <2>1. q # <<>> /\ MakeRoom(q) = Tail(q)
    BY <1>1, <1>2 DEF MakeRoom
  <2>2. /\ Tail(q) \in Seq(S) /\ Len(Tail(q)) = Len(q) - 1
        /\ \A k \in 1 .. Len(Tail(q)) : Tail(q)[k] = q[k + 1]
    BY <2>1, HeadTailProperties
  <2>3. 1 \in 0 .. 1
    OBVIOUS
  <2> QED BY <1>1, <2>1, <2>2, <2>3
<1>3. CASE ~(Len(q) >= Capacity)
  <2>1. MakeRoom(q) = q
    BY <1>3 DEF MakeRoom
  <2>2. 0 \in 0 .. 1 /\ Len(q) = Len(q) - 0 /\ \A k \in 1 .. Len(q) : k + 0 = k
    BY <1>1
  <2> QED BY <1>1, <1>3, <2>1, <2>2
<1> QED BY <1>2, <1>3

LEMMA HandlersProperties ==
    ASSUME NEW name \in EventName
    PROVE  /\ HandlerCount[name] \in Nat /\ HandlerCount[AnyEvent] \in Nat
           /\ Handlers(name) \in Seq(Handler)
           /\ Len(Handlers(name)) = HandlerCount[name] + HandlerCount[AnyEvent]
           /\ \A i \in 1 .. HandlerCount[name] : Handlers(name)[i] = [name |-> name, i |-> i]
           /\ \A i \in 1 .. HandlerCount[AnyEvent] :
                 Handlers(name)[HandlerCount[name] + i] = [name |-> AnyEvent, i |-> i]
<1> DEFINE own == HandlerCount[name]
           any == HandlerCount[AnyEvent]
<1>1. own \in Nat /\ any \in Nat /\ name \in EventName \cup {AnyEvent} /\ AnyEvent \in EventName \cup {AnyEvent}
  BY ClientAssumption
<1> HIDE DEF own, any
<1>2. ASSUME NEW m \in EventName \cup {AnyEvent}, NEW c \in Nat, c = HandlerCount[m]
      PROVE  /\ Named(m) \in Seq(Handler) /\ Len(Named(m)) = c
             /\ \A i \in 1 .. c : Named(m)[i] = [name |-> m, i |-> i]
  <2>1. Named(m) = [i \in 1 .. c |-> [name |-> m, i |-> i]]
    BY <1>2 DEF Named
  <2>2. \A i \in 1 .. c : [name |-> m, i |-> i] \in Handler
    BY DEF Handler
  <2>3. Named(m) \in [1 .. c -> Handler]
    BY <2>1, <2>2
  <2> QED BY <2>1, <2>3, IsASeq, LenProperties
<1>3. /\ Named(name) \in Seq(Handler) /\ Len(Named(name)) = own
      /\ \A i \in 1 .. own : Named(name)[i] = [name |-> name, i |-> i]
  BY <1>1, <1>2 DEF own
<1>4. /\ Named(AnyEvent) \in Seq(Handler) /\ Len(Named(AnyEvent)) = any
      /\ \A i \in 1 .. any : Named(AnyEvent)[i] = [name |-> AnyEvent, i |-> i]
  BY <1>1, <1>2 DEF any
<1>5. /\ Handlers(name) \in Seq(Handler)
      /\ Len(Handlers(name)) = own + any
      /\ \A i \in 1 .. own + any :
            Handlers(name)[i] = IF i <= own THEN Named(name)[i] ELSE Named(AnyEvent)[i - own]
  <2> DEFINE p == Named(name)
             q == Named(AnyEvent)
  <2>1. p \in Seq(Handler) /\ q \in Seq(Handler) /\ Len(p) = own /\ Len(q) = any
    BY <1>3, <1>4
  <2>2. Handlers(name) = p \o q
    BY DEF Handlers
  <2> HIDE DEF p, q
  <2>3. /\ p \o q \in Seq(Handler)
        /\ Len(p \o q) = Len(p) + Len(q)
        /\ \A i \in 1 .. Len(p) + Len(q) :
              (p \o q)[i] = IF i <= Len(p) THEN p[i] ELSE q[i - Len(p)]
    BY <2>1, ConcatProperties
  <2>4. \A i \in 1 .. own + any : (p \o q)[i] = IF i <= own THEN p[i] ELSE q[i - own]
    BY <2>1, <2>3
  <2>5. /\ Handlers(name) \in Seq(Handler) /\ Len(Handlers(name)) = own + any
        /\ \A i \in 1 .. own + any : Handlers(name)[i] = IF i <= own THEN p[i] ELSE q[i - own]
    BY <2>1, <2>2, <2>3, <2>4
  <2> QED BY <2>5 DEF p, q
<1>6. \A i \in 1 .. own : Handlers(name)[i] = [name |-> name, i |-> i]
  <2>1. \A i \in 1 .. own : i \in 1 .. own + any /\ i <= own
    BY <1>1
  <2> QED BY <1>3, <1>5, <2>1
<1>7. ASSUME NEW i \in 1 .. any PROVE Handlers(name)[own + i] = [name |-> AnyEvent, i |-> i]
  <2> DEFINE k == own + i
  <2>1. k \in 1 .. own + any /\ ~(k <= own) /\ k - own = i
    BY <1>1
  <2> HIDE DEF k
  <2>2. Handlers(name)[k] = Named(AnyEvent)[k - own]
    BY <1>1, <1>5, <2>1
  <2>3. Handlers(name)[k] = [name |-> AnyEvent, i |-> i]
    BY <1>4, <2>1, <2>2
  <2> QED BY <2>3 DEF k
<1> QED BY <1>1, <1>5, <1>6, <1>7 DEF own, any

Run == [n : Nat \ {0}, c : Conn, name : EventName, h : Handler]

LEMMA DelayFacts ==
    /\ Capacity \in Nat /\ Capacity > 0 /\ InitialDelay \in Nat /\ MaxDelay \in Nat
    /\ InitialDelay <= MaxDelay /\ BannedDelay \in Nat /\ MaxConns \in Nat /\ MaxEvents \in Nat
    /\ MaxFailures \in Nat /\ MaxFailures > 0 /\ RF \notin App /\ AnyEvent \notin EventName
BY ClientAssumption

-----------------------------------------------------------------------------
(* Types *)

\* Where queues lose events, they lose the oldest.
Shrunk ==
    \A i \in Conn : \E d \in Nat :
       /\ Len(unread'[i]) = Len(unread[i]) - d
       /\ \A k \in 1 .. Len(unread'[i]) : unread'[i][k] = unread[i][k + d]

LEMMA CloseConnProperties ==
    ASSUME ClientTypeOK, NEW c \in Conn, CloseConn(c)
    PROVE  /\ open' = open \ {c}
           /\ unread' \in [Conn -> Seq(Event)]
           /\ \A i \in Conn : Len(unread'[i]) <= Capacity
           /\ \A i \in Conn : unread[i] = <<>> => unread'[i] = <<>>
           /\ Shrunk
<1>0. /\ unread \in [Conn -> Seq(Event)]
      /\ \A i \in Conn : Len(unread[i]) \in Nat /\ Len(unread[i]) <= Capacity
  BY LenProperties DEF ClientTypeOK, ConnTypeOK
<1>1. ASSUME NEW i \in Conn
      PROVE  /\ MakeRoom(unread[i]) \in Seq(Event) /\ Len(MakeRoom(unread[i])) <= Capacity
             /\ unread[i] = <<>> => MakeRoom(unread[i]) = <<>>
             /\ \E d \in Nat :
                   /\ Len(MakeRoom(unread[i])) = Len(unread[i]) - d
                   /\ \A k \in 1 .. Len(MakeRoom(unread[i])) : MakeRoom(unread[i])[k] = unread[i][k + d]
  <2> DEFINE q == unread[i]
  <2>1. q \in Seq(Event) /\ Len(q) <= Capacity
    BY <1>0
  <2> HIDE DEF q
  <2>2. /\ MakeRoom(q) \in Seq(Event) /\ Len(MakeRoom(q)) < Capacity
        /\ q = <<>> => MakeRoom(q) = <<>>
        /\ \E d \in 0 .. 1 :
              /\ Len(MakeRoom(q)) = Len(q) - d
              /\ \A k \in 1 .. Len(MakeRoom(q)) : MakeRoom(q)[k] = q[k + d]
    BY <2>1, MakeRoomProperties
  <2>3. Len(MakeRoom(q)) <= Capacity
    BY <2>2, LenProperties, DelayFacts
  <2>4. \A d \in 0 .. 1 : d \in Nat
    OBVIOUS
  <2> QED BY <2>2, <2>3, <2>4 DEF q
<1>2. ASSUME NEW i \in Conn
      PROVE  /\ unread[i] = unread[i]
             /\ Len(unread[i]) = Len(unread[i]) - 0
             /\ \A k \in 1 .. Len(unread[i]) : unread[i][k] = unread[i][k + 0]
  <2>1. \A k \in 1 .. Len(unread[i]) : k + 0 = k
    BY <1>0
  <2> QED BY <1>0, <2>1
<1>3. open' = open \ {c}
  BY DEF CloseConn
<1>4. CASE c \in open
  <2>1. unread' = [unread EXCEPT ![c] = MakeRoom(@)]
    BY <1>4 DEF CloseConn
  <2>2. unread' \in [Conn -> Seq(Event)]
    BY <1>0, <1>1, <2>1
  <2>3. unread'[c] = MakeRoom(unread[c]) /\ \A i \in Conn : i # c => unread'[i] = unread[i]
    BY <1>0, <2>1
  <2>4. Shrunk
    <3> SUFFICES ASSUME NEW i \in Conn
                 PROVE  \E d \in Nat :
                          /\ Len(unread'[i]) = Len(unread[i]) - d
                          /\ \A k \in 1 .. Len(unread'[i]) : unread'[i][k] = unread[i][k + d]
      BY DEF Shrunk
    <3>1. CASE i = c
      BY <1>1, <2>3, <3>1
    <3>2. CASE i # c
      BY <1>2, <2>3, <3>2
    <3> QED BY <3>1, <3>2
  <2> QED BY <1>0, <1>1, <1>3, <2>2, <2>3, <2>4
<1>5. CASE c \notin open
  <2>1. unread' = unread
    BY <1>5 DEF CloseConn
  <2>2. Shrunk
    BY <1>2, <2>1 DEF Shrunk
  <2> QED BY <1>0, <1>3, <2>1, <2>2
<1> QED BY <1>4, <1>5

LEMMA ClientTypeInit == Init => ClientTypeOK
<1> SUFFICES ASSUME Init PROVE ClientTypeOK
  OBVIOUS
<1> USE DelayFacts
<1>1. /\ \A i \in Conn : unread[i] = <<>> /\ Len(unread[i]) = 0
      /\ unread \in [Conn -> Seq(Event)]
      /\ todo \in Seq(Handler) /\ log \in Seq(Run)
  BY EmptySeq DEF Init
<1>2. 1 \in 1 .. Len(Setup)
  BY ClientAssumption, EmptySeq, LenProperties
<1>3. at \in [Task -> {"out", "dial", "setup", "undo"}] /\ \A t \in Task : at[t] = "out"
  BY DEF Init
<1>4. new \in [Task -> 0 .. made] /\ step \in [Task -> 1 .. Len(Setup)]
  BY <1>2 DEF Init, NoConn
<1>5. RF \in Task
  BY DEF Task
<1>6. ConnTypeOK
  <2>1. made = 0 /\ conn = 0 /\ sent = 0 /\ open = {} /\ stopping = FALSE /\ usage \in Usages
    BY DEF Init, NoConn
  <2>2. made \in 0 .. MaxConns /\ conn \in 0 .. made /\ sent \in 0 .. MaxEvents /\ open \subseteq 1 .. made
    BY <2>1
  <2>3. \A i \in Conn : Len(unread[i]) <= Capacity
    BY <1>1
  <2> QED BY <1>1, <2>1, <2>2, <2>3 DEF ConnTypeOK
<1>7. StartTypeOK
  BY <1>3, <1>4 DEF StartTypeOK
<1>8. LoopTypeOK
  BY <1>1, <1>3, <1>5 DEF Init, LoopTypeOK, NoConn
<1> QED BY <1>6, <1>7, <1>8 DEF ClientTypeOK

\* run_forever() leaves a round as it may.
LEMMA EndRoundTypes ==
    ASSUME ClientTypeOK, NEW error, EndRound(error), rf # "done",
           made' \in Nat, made <= made', at'[RF] = "out"
    PROVE  LoopTypeOK'
<1> USE DelayFacts DEF ClientTypeOK, LoopTypeOK
<1>1. /\ rf' \in {"done", "sleep"} /\ event' = NoEvent /\ todo' = <<>>
      /\ UNCHANGED <<src, delay, ready, log>>
  BY DEF EndRound
<1>2. failures' \in 0 .. MaxFailures
  BY DEF EndRound
<1>3. wait' \in {0, BannedDelay} \cup InitialDelay .. MaxDelay
  BY DEF EndRound
<1>4. src' \in 0 .. made' /\ ready' \subseteq 0 .. made'
  BY <1>1 DEF ConnTypeOK
<1>5. todo' \in Seq(Handler)
  BY <1>1, EmptySeq
<1> QED BY <1>1, <1>2, <1>3, <1>4, <1>5

\* Nothing of the loop's is touched.
LEMMA LoopTypeKept ==
    ASSUME ClientTypeOK, UNCHANGED <<loopVars, history>>,
           made' \in Nat, made <= made', at'[RF] = "out" <=> at[RF] = "out",
           rf = "ready" => conn' # NoConn
    PROVE  LoopTypeOK'
<1>1. src' = src /\ ready' = ready
  BY DEF loopVars, history
<1>2. src \in 0 .. made /\ ready \subseteq 0 .. made
  BY DEF ClientTypeOK, LoopTypeOK
<1>3. 0 .. made \subseteq 0 .. made'
  BY DEF ClientTypeOK, ConnTypeOK
<1>4. src' \in 0 .. made' /\ ready' \subseteq 0 .. made'
  BY <1>1, <1>2, <1>3
<1> QED BY <1>4 DEF ClientTypeOK, LoopTypeOK, loopVars, history

LEMMA StartTypeKept ==
    ASSUME ClientTypeOK, UNCHANGED startVars, made' \in Nat, made <= made'
    PROVE  StartTypeOK'
BY DEF ClientTypeOK, ConnTypeOK, StartTypeOK, startVars

LEMMA ConnTypeKept == ClientTypeOK /\ UNCHANGED <<connVars, stopping>> => ConnTypeOK'
BY DEF ClientTypeOK, ConnTypeOK, connVars

\* start(), whoever runs it.
LEMMA StartTypeStep ==
    ASSUME ClientTypeOK, NEW t \in Task, StartStep(t) \/ AppStart(t)
    PROVE  ClientTypeOK'
<1> USE DelayFacts
<1>0. /\ RF \in Task /\ made \in Nat /\ made <= made
      /\ at \in [Task -> {"out", "dial", "setup", "undo"}]
      /\ new \in [Task -> 0 .. made] /\ step \in [Task -> 1 .. Len(Setup)]
      /\ \A u \in Task : at[u] \in {"setup", "undo"} => new[u] # NoConn
  BY DEF Task, ClientTypeOK, ConnTypeOK, StartTypeOK
<1>1. ASSUME NEW error, Raise(t, error), at[t] # "out", UNCHANGED <<connVars, stopping, new, step>>
      PROVE  ClientTypeOK'
  <2>1. at' = [at EXCEPT ![t] = "out"] /\ UNCHANGED <<made, conn, new, step>>
    BY <1>1 DEF Raise, connVars
  <2>2. StartTypeOK'
    BY <1>0, <2>1 DEF StartTypeOK
  <2>3. CASE t = RF
    <3>1. EndRound(error) /\ at'[RF] = "out" /\ rf # "done"
      BY <1>0, <1>1, <2>1, <2>3 DEF Raise, ClientTypeOK, LoopTypeOK
    <3>2. LoopTypeOK'
      BY <1>0, <2>1, <3>1, EndRoundTypes
    <3> QED BY <1>1, <2>2, <3>2, ConnTypeKept DEF ClientTypeOK
  <2>4. CASE t # RF
    <3>1. UNCHANGED <<loopVars, history>> /\ at'[RF] = at[RF]
      BY <1>0, <1>1, <2>1, <2>4 DEF Raise
    <3>2. LoopTypeOK'
      BY <1>0, <2>1, <3>1, LoopTypeKept DEF ClientTypeOK, LoopTypeOK
    <3> QED BY <1>1, <2>2, <3>2, ConnTypeKept DEF ClientTypeOK
  <2> QED BY <2>3, <2>4
<1>2. CASE AppStart(t)
  <2>1. t # RF /\ at' = [at EXCEPT ![t] = "dial"]
        /\ UNCHANGED <<connVars, made, conn, stopping, new, step, loopVars, history>>
    BY <1>2 DEF AppStart, connVars
  <2>2. StartTypeOK'
    BY <1>0, <2>1 DEF StartTypeOK
  <2>3. LoopTypeOK'
    BY <1>0, <2>1, LoopTypeKept DEF ClientTypeOK, LoopTypeOK
  <2> QED BY <2>1, <2>2, <2>3, ConnTypeKept DEF ClientTypeOK
<1>3. CASE DialFails(t)
  BY <1>1, <1>3 DEF DialFails
<1>4. CASE SetupUndone(t)
  BY <1>1, <1>4 DEF SetupUndone
<1>5. CASE Dialed(t)
  <2>1. /\ made' = made + 1 /\ made' \in 0 .. MaxConns
        /\ UNCHANGED <<usage, conn, unread, sent, stopping, loopVars, history>>
        /\ open' = open \cup {made'}
        /\ at' = [at EXCEPT ![t] = "setup"] /\ at[t] = "dial"
        /\ new' = [new EXCEPT ![t] = made'] /\ step' = [step EXCEPT ![t] = 1]
    BY <1>0, <1>5 DEF Dialed
  <2>2. ConnTypeOK'
    BY <1>0, <2>1 DEF ClientTypeOK, ConnTypeOK
  <2>3. 1 \in 1 .. Len(Setup)
    BY ClientAssumption, EmptySeq, LenProperties
  <2>4. StartTypeOK'
    BY <1>0, <2>1, <2>3 DEF StartTypeOK, NoConn
  <2>5. LoopTypeOK'
    BY <1>0, <2>1, LoopTypeKept DEF ClientTypeOK, LoopTypeOK
  <2> QED BY <2>2, <2>4, <2>5 DEF ClientTypeOK
<1>6. CASE SetupStep(t)
  <2>1. at[t] = "setup" /\ UNCHANGED <<usage, made, open, unread, sent, stopping>>
    BY <1>6 DEF SetupStep
  <2>2. CASE step[t] = Len(Setup)
    <3>1. Established(t) /\ conn' = new[t] /\ at' = [at EXCEPT ![t] = "out"] /\ UNCHANGED <<new, step>>
      BY <1>6, <2>2 DEF SetupStep, Established
    <3>2. ConnTypeOK'
      BY <1>0, <2>1, <3>1 DEF ClientTypeOK, ConnTypeOK
    <3>3. StartTypeOK'
      BY <1>0, <2>1, <3>1 DEF StartTypeOK
    <3>4. conn' # NoConn
      BY <1>0, <2>1, <3>1
    <3>5. CASE t = RF
      <4>1. /\ rf' = "ready" /\ delay' = InitialDelay /\ failures' = 0 /\ at'[RF] = "out"
            /\ UNCHANGED <<made, src, event, todo, wait, ready, log>> /\ rf = "starting"
        BY <1>0, <2>1, <3>1, <3>5 DEF Established, ClientTypeOK, LoopTypeOK
      <4>2. LoopTypeOK'
        BY <3>4, <4>1 DEF ClientTypeOK, LoopTypeOK
      <4> QED BY <3>2, <3>3, <4>2 DEF ClientTypeOK
    <3>6. CASE t # RF
      <4>1. UNCHANGED <<loopVars, history>> /\ at'[RF] = at[RF]
        BY <1>0, <3>1, <3>6 DEF Established
      <4>2. LoopTypeOK'
        BY <1>0, <2>1, <3>4, <4>1, LoopTypeKept
      <4> QED BY <3>2, <3>3, <4>2 DEF ClientTypeOK
    <3> QED BY <3>5, <3>6
  <2>3. CASE step[t] # Len(Setup)
    <3>1. step' = [step EXCEPT ![t] = step[t] + 1] /\ UNCHANGED <<conn, at, new, loopVars, history>>
      BY <1>6, <2>3 DEF SetupStep
    <3>2. Len(Setup) \in Nat /\ step[t] \in 1 .. Len(Setup)
      BY <1>0, ClientAssumption, LenProperties
    <3>3. step[t] + 1 \in 1 .. Len(Setup)
      BY <2>3, <3>2
    <3>4. StartTypeOK'
      BY <1>0, <2>1, <3>1, <3>3 DEF StartTypeOK
    <3>5. LoopTypeOK'
      BY <1>0, <2>1, <3>1, LoopTypeKept DEF ClientTypeOK, LoopTypeOK
    <3>6. ConnTypeOK'
      BY <2>1, <3>1 DEF ClientTypeOK, ConnTypeOK
    <3> QED BY <3>4, <3>5, <3>6 DEF ClientTypeOK
  <2> QED BY <2>2, <2>3
<1>7. CASE SetupFails(t)
  <2>1. /\ at[t] = "setup" /\ CloseConn(new[t]) /\ at' = [at EXCEPT ![t] = "undo"]
        /\ UNCHANGED <<usage, conn, made, sent, stopping, new, step, loopVars, history>>
    BY <1>7 DEF SetupFails, SetupAborted
  <2>2. new[t] \in Conn
    BY <1>0, <2>1 DEF ClientTypeOK, ConnTypeOK, Conn, NoConn
  <2>3. ConnTypeOK'
    BY <2>1, <2>2, CloseConnProperties DEF ClientTypeOK, ConnTypeOK
  <2>4. StartTypeOK'
    BY <1>0, <2>1 DEF StartTypeOK
  <2>5. LoopTypeOK'
    BY <1>0, <2>1, LoopTypeKept DEF ClientTypeOK, LoopTypeOK
  <2> QED BY <2>3, <2>4, <2>5 DEF ClientTypeOK
<1> QED BY <1>2, <1>3, <1>4, <1>5, <1>6, <1>7 DEF StartStep

LEMMA EntryFields ==
    \A h : /\ Entry(h).n = event.n /\ Entry(h).c = src
          /\ Entry(h).name = event.name /\ Entry(h).h = h
BY DEF Entry

\* A handler that runs makes an entry of the log.
LEMMA HeadTypes ==
    ASSUME ClientTypeOK, rf = "dispatch", todo # <<>>
    PROVE  Entry(Head(todo)) \in Run
<1>1. Head(todo) \in Handler
  BY HeadTailProperties DEF ClientTypeOK, LoopTypeOK
<1>2. src \in Conn
  <2>1. src \in 0 .. made /\ src # 0 /\ made \in 0 .. MaxConns
    BY DEF ClientTypeOK, ConnTypeOK, LoopTypeOK, NoConn
  <2> QED BY <2>1, DelayFacts DEF Conn
<1>3. event.n \in Nat \ {0} /\ event.name \in EventName
  BY DEF ClientTypeOK, LoopTypeOK, Event
<1> QED BY <1>1, <1>2, <1>3 DEF Entry, Run

\* The loop of run_forever().
LEMMA RunTypeStep ==
    ASSUME ClientTypeOK, RunStep
    PROVE  ClientTypeOK'
<1> USE DelayFacts
<1>0. /\ RF \in Task /\ made \in Nat /\ made <= made /\ conn \in 0 .. made /\ src \in 0 .. made
      /\ at \in [Task -> {"out", "dial", "setup", "undo"}]
      /\ (at[RF] = "out" <=> rf # "starting")
  BY DEF Task, ClientTypeOK, ConnTypeOK, StartTypeOK, LoopTypeOK
<1>1. ASSUME NEW error, EndRound(error), rf \notin {"done", "starting"},
             UNCHANGED <<connVars, stopping, startVars>>
      PROVE  ClientTypeOK'
  <2>1. LoopTypeOK'
    BY <1>0, <1>1, EndRoundTypes DEF connVars, startVars
  <2> QED BY <1>0, <1>1, <2>1, ConnTypeKept, StartTypeKept DEF ClientTypeOK, connVars
<1>2. CASE RoundStarts
  <2>1. /\ rf' = "starting" /\ at' = [at EXCEPT ![RF] = "dial"] /\ rf = "top"
        /\ UNCHANGED <<connVars, made, stopping, new, step, src, event, todo, delay, wait, history>>
    BY <1>2 DEF RoundStarts, connVars
  <2>2. StartTypeOK'
    BY <1>0, <2>1 DEF ClientTypeOK, StartTypeOK
  <2>3. LoopTypeOK'
    BY <1>0, <2>1 DEF ClientTypeOK, LoopTypeOK, history
  <2> QED BY <2>1, <2>2, <2>3, ConnTypeKept DEF ClientTypeOK
<1>3. ASSUME rf \in {"top", "ready"}, rf' \in {"events", "done"}, src' \in {src, conn},
             rf' = "events" => src' # NoConn, ready' \in {ready, ready \cup {conn}},
             UNCHANGED <<connVars, stopping, startVars, event, todo, delay, wait, failures, log>>
      PROVE  ClientTypeOK'
  <2>1. UNCHANGED <<at, made, conn>>
    BY <1>3 DEF connVars, startVars
  <2>2. LoopTypeOK'
    BY <1>0, <1>3, <2>1 DEF ClientTypeOK, LoopTypeOK
  <2> QED BY <1>0, <1>3, <2>1, <2>2, ConnTypeKept, StartTypeKept DEF ClientTypeOK
<1>4. CASE RoundResumes
  <2>1. conn # NoConn
    BY <1>0, <1>4 DEF RoundResumes, NeedsStart, Connected, ClientTypeOK, ConnTypeOK, NoConn
  <2> QED BY <1>3, <1>4, <2>1 DEF RoundResumes, history
<1>5. CASE Stops
  BY <1>3, <1>5 DEF Stops, history
<1>6. CASE ReadyDone
  BY <1>3, <1>6 DEF ReadyDone, ClientTypeOK, LoopTypeOK
<1>7. CASE ReadyRaises
  BY <1>1, <1>7 DEF ReadyRaises
<1>8. CASE NextEvent
  <2>1. /\ rf = "events" /\ rf' = "dispatch" /\ src \in Conn /\ unread[src] # <<>>
        /\ unread' = [unread EXCEPT ![src] = Tail(unread[src])]
        /\ event' = Head(unread[src]) /\ todo' = Handlers(Head(unread[src]).name)
        /\ UNCHANGED <<usage, conn, made, open, sent, stopping, startVars, at, src, delay, wait, history>>
    BY <1>0, <1>8 DEF NextEvent, ClientTypeOK, ConnTypeOK, LoopTypeOK, Conn, NoConn, startVars
  <2>2. unread \in [Conn -> Seq(Event)] /\ \A i \in Conn : Len(unread[i]) <= Capacity
    BY DEF ClientTypeOK, ConnTypeOK
  <2>3. /\ Head(unread[src]) \in Event
        /\ Tail(unread[src]) \in Seq(Event)
        /\ Len(Tail(unread[src])) = Len(unread[src]) - 1 /\ Len(unread[src]) \in Nat
    BY <2>1, <2>2, HeadTailProperties, LenProperties
  <2>4. /\ unread' \in [Conn -> Seq(Event)]
        /\ \A i \in Conn : Len(unread'[i]) <= Capacity
    BY <2>1, <2>2, <2>3
  <2>5. ConnTypeOK'
    BY <2>1, <2>4 DEF ClientTypeOK, ConnTypeOK
  <2>6. event' \in Event /\ todo' \in Seq(Handler)
    BY <2>1, <2>3, HandlersProperties DEF Event
  <2>7. LoopTypeOK'
    BY <1>0, <2>1, <2>6 DEF ClientTypeOK, LoopTypeOK, history
  <2> QED BY <1>0, <2>1, <2>5, <2>7, StartTypeKept DEF ClientTypeOK
<1>9. CASE RunHandler
  <2>1. /\ rf = "dispatch" /\ rf' = "dispatch" /\ todo # <<>> /\ todo' = Tail(todo)
        /\ log' = Append(log, Entry(Head(todo)))
        /\ UNCHANGED <<connVars, made, conn, stopping, startVars, at, src, event, delay, wait, ready, failures>>
    BY <1>9 DEF RunHandler, AfterHandler, connVars, startVars, Entry
  <2>2. todo' \in Seq(Handler) /\ Head(todo) \in Handler
    BY <2>1, HeadTailProperties DEF ClientTypeOK, LoopTypeOK
  <2>3. Entry(Head(todo)) \in Run
    BY <2>1, HeadTypes
  <2>4. log' \in Seq(Run)
    <3>1. log \in Seq(Run)
      BY DEF ClientTypeOK, LoopTypeOK, Run
    <3> QED BY <2>1, <2>3, <3>1, AppendProperties
  <2>5. LoopTypeOK'
    BY <2>1, <2>2, <2>4 DEF ClientTypeOK, LoopTypeOK, Run
  <2> QED BY <1>0, <2>1, <2>5, ConnTypeKept, StartTypeKept DEF ClientTypeOK
<1>10. CASE Dispatched
  <2>1. UNCHANGED <<at, made, conn>>
    BY <1>10 DEF Dispatched, connVars, startVars
  <2>2. LoopTypeOK'
    BY <1>0, <1>10, <2>1, EmptySeq DEF Dispatched, ClientTypeOK, LoopTypeOK, history
  <2> QED BY <1>0, <1>10, <2>1, <2>2, ConnTypeKept, StartTypeKept DEF ClientTypeOK, Dispatched
<1>11. CASE EventsEnd
  BY <1>1, <1>11 DEF EventsEnd
<1>12. CASE Wake
  <2>1. UNCHANGED <<at, made, conn>>
    BY <1>12 DEF Wake, connVars, startVars
  <2>2. delay' \in InitialDelay .. MaxDelay
    BY <1>12 DEF Wake, NextDelay, ClientTypeOK, LoopTypeOK
  <2>3. LoopTypeOK'
    BY <1>0, <1>12, <2>1, <2>2 DEF Wake, ClientTypeOK, LoopTypeOK, history
  <2> QED BY <1>0, <1>12, <2>1, <2>3, ConnTypeKept, StartTypeKept DEF ClientTypeOK, Wake
<1> QED
  BY <1>2, <1>4, <1>5, <1>6, <1>7, <1>8, <1>9, <1>10, <1>11, <1>12 DEF RunStep

\* Every step.
LEMMA ClientTypeStep ==
    ASSUME ClientTypeOK, [Next]_vars
    PROVE  ClientTypeOK'
<1> USE DelayFacts
<1>0. /\ RF \in Task /\ made \in Nat /\ made <= made /\ conn \in 0 .. made
      /\ at \in [Task -> {"out", "dial", "setup", "undo"}]
      /\ new \in [Task -> 0 .. made]
      /\ \A u \in Task : at[u] \in {"setup", "undo"} => new[u] # NoConn
      /\ (at[RF] = "out" <=> rf # "starting")
  BY DEF Task, ClientTypeOK, ConnTypeOK, StartTypeOK, LoopTypeOK
<1>1. CASE \E t \in Task : StartStep(t) \/ AppStart(t)
  BY <1>1, StartTypeStep
<1>2. CASE RunStep
  BY <1>2, RunTypeStep
<1>3. ASSUME NEW c \in Conn, CloseConn(c) \/ UNCHANGED <<open, unread>>,
             UNCHANGED <<usage, conn, made, sent>>, stopping' \in BOOLEAN
      PROVE  ConnTypeOK'
  BY <1>3, CloseConnProperties DEF ClientTypeOK, ConnTypeOK
<1>4. CASE CancelRun
  <2>1. /\ rf' = "done" /\ at' = [at EXCEPT ![RF] = "out"]
        /\ event' = NoEvent /\ todo' = <<>>
        /\ UNCHANGED <<usage, conn, made, sent, stopping, new, step, src, delay, wait, history>>
    BY <1>4 DEF CancelRun
  <2>2. ConnTypeOK'
    <3>1. CASE at[RF] = "setup"
      <4>1. new[RF] \in Conn /\ CloseConn(new[RF])
        BY <1>0, <1>4, <3>1 DEF CancelRun, Conn, NoConn, ClientTypeOK, ConnTypeOK
      <4> QED BY <1>3, <2>1, <4>1 DEF ClientTypeOK, ConnTypeOK
    <3>2. CASE at[RF] # "setup"
      <4>1. UNCHANGED <<open, unread>>
        BY <1>4, <3>2 DEF CancelRun
      <4> QED BY <2>1, <4>1 DEF ClientTypeOK, ConnTypeOK
    <3> QED BY <3>1, <3>2
  <2>3. StartTypeOK'
    BY <1>0, <2>1 DEF ClientTypeOK, StartTypeOK
  <2>4. LoopTypeOK'
    BY <1>0, <2>1, EmptySeq DEF ClientTypeOK, LoopTypeOK, history
  <2> QED BY <2>2, <2>3, <2>4 DEF ClientTypeOK
<1>5. CASE Close
  <2>1. stopping' = TRUE /\ UNCHANGED <<usage, conn, made, sent, startVars, at, loopVars, history>>
    BY <1>5 DEF Close, startVars
  <2>2. ConnTypeOK'
    <3>1. CASE conn = NoConn
      <4>1. UNCHANGED <<open, unread>>
        BY <1>5, <3>1 DEF Close
      <4> QED BY <2>1, <4>1 DEF ClientTypeOK, ConnTypeOK
    <3>2. CASE conn # NoConn
      <4>1. conn \in Conn /\ CloseConn(conn)
        BY <1>0, <1>5, <3>2 DEF Close, Conn, NoConn, ClientTypeOK, ConnTypeOK
      <4> QED BY <1>3, <2>1, <4>1
    <3> QED BY <3>1, <3>2
  <2>3. LoopTypeOK'
    BY <1>0, <2>1, LoopTypeKept DEF ClientTypeOK, LoopTypeOK
  <2> QED BY <1>0, <2>1, <2>2, <2>3, StartTypeKept DEF ClientTypeOK
<1>6. ASSUME NEW i \in Conn, ConnectionLost(i) PROVE ClientTypeOK'
  <2>1. CloseConn(i) /\ UNCHANGED <<usage, conn, made, sent, stopping, startVars, at, loopVars, history>>
    BY <1>6 DEF ConnectionLost, startVars
  <2>2. ConnTypeOK'
    BY <1>3, <2>1 DEF ClientTypeOK, ConnTypeOK
  <2>3. LoopTypeOK'
    BY <1>0, <2>1, LoopTypeKept DEF ClientTypeOK, LoopTypeOK
  <2> QED BY <1>0, <2>1, <2>2, <2>3, StartTypeKept DEF ClientTypeOK
<1>7. ASSUME NEW i \in Conn, EventArrives(i) PROVE ClientTypeOK'
  <2>1. /\ sent < MaxEvents /\ sent' = sent + 1
        /\ UNCHANGED <<usage, conn, made, open, stopping, startVars, at, loopVars, history>>
    BY <1>7 DEF EventArrives, startVars
  <2>2. PICK name \in EventName :
           unread' = [unread EXCEPT ![i] = Append(MakeRoom(unread[i]), [n |-> sent + 1, name |-> name])]
    BY <1>7 DEF EventArrives
  <2>3. /\ unread \in [Conn -> Seq(Event)] /\ \A j \in Conn : Len(unread[j]) <= Capacity
        /\ sent \in Nat
    BY DEF ClientTypeOK, ConnTypeOK
  <2>4. MakeRoom(unread[i]) \in Seq(Event) /\ Len(MakeRoom(unread[i])) < Capacity
    BY <2>3, MakeRoomProperties
  <2>5. [n |-> sent + 1, name |-> name] \in Event /\ Len(MakeRoom(unread[i])) \in Nat
    BY <2>3, <2>4, LenProperties DEF Event
  <2>6. /\ Append(MakeRoom(unread[i]), [n |-> sent + 1, name |-> name]) \in Seq(Event)
        /\ Len(Append(MakeRoom(unread[i]), [n |-> sent + 1, name |-> name])) <= Capacity
    BY <2>4, <2>5, AppendProperties
  <2>7. unread' \in [Conn -> Seq(Event)] /\ \A j \in Conn : Len(unread'[j]) <= Capacity
    BY <2>2, <2>3, <2>6
  <2>8. ConnTypeOK'
    BY <2>1, <2>7 DEF ClientTypeOK, ConnTypeOK
  <2>9. LoopTypeOK'
    BY <1>0, <2>1, LoopTypeKept DEF ClientTypeOK, LoopTypeOK
  <2> QED BY <1>0, <2>1, <2>8, <2>9, StartTypeKept DEF ClientTypeOK
<1>8. CASE UNCHANGED vars
  <2>1. UNCHANGED <<connVars, made, conn, at, stopping, startVars, loopVars, history>>
    BY <1>8 DEF vars, connVars, startVars
  <2>2. LoopTypeOK'
    BY <1>0, <2>1, LoopTypeKept DEF ClientTypeOK, LoopTypeOK
  <2> QED BY <1>0, <2>1, <2>2, ConnTypeKept, StartTypeKept DEF ClientTypeOK
<1> QED BY <1>1, <1>2, <1>4, <1>5, <1>6, <1>7, <1>8 DEF Next

-----------------------------------------------------------------------------
(* Connections *)

\* A connection that is closed stays closed.
LEMMA OpenShrinks == \A c : CloseConn(c) => open' = open \ {c}
BY DEF CloseConn

LEMMA UsageKept == [Next]_vars => usage' = usage
BY DEF Next, vars, connVars, StartStep, RunStep, DialFails, Dialed, SetupStep, SetupFails,
       SetupUndone, AppStart, RoundStarts, RoundResumes, Stops, ReadyDone, ReadyRaises,
       NextEvent, RunHandler, Dispatched, EventsEnd, Wake, CancelRun, Close, ConnectionLost,
       EventArrives

LEMMA AloneStep ==
    ASSUME ClientTypeOK, AloneInv, [Next]_vars
    PROVE  AloneInv'
<1> SUFFICES ASSUME "shared" \notin usage' PROVE AloneInv'
  BY DEF AloneInv
<1>0. /\ at \in [Task -> {"out", "dial", "setup", "undo"}] /\ new \in [Task -> 0 .. made]
      /\ RF \in Task /\ RF \notin App /\ Task = App \cup {RF}
      /\ (at[RF] = "out" <=> rf # "starting")
  BY DelayFacts DEF ClientTypeOK, StartTypeOK, LoopTypeOK, Task
<1>1. usage' = usage
  BY UsageKept
<1>2. /\ \A t \in App : at[t] = "out"
      /\ at[RF] \in {"dial", "undo"} => open = {}
      /\ at[RF] = "setup" => open \subseteq {new[RF]}
      /\ at[RF] = "out" => open \subseteq {conn}
      /\ rf \in {"events", "dispatch"} => src = conn
  BY <1>1 DEF AloneInv
<1>3. ASSUME UNCHANGED <<conn, at, new>>, open' \subseteq open,
             rf' \in {"events", "dispatch"} => src' = conn
      PROVE  AloneInv'
  BY <1>2, <1>3 DEF AloneInv
<1>4. ASSUME NEW t \in Task, StartStep(t) \/ AppStart(t) PROVE AloneInv'
  <2>1. t = RF /\ StartStep(RF)
    BY <1>0, <1>1, <1>2, <1>4 DEF StartStep, DialFails, Dialed, SetupStep, SetupFails,
          SetupAborted, SetupUndone, AppStart
  <2>2. ASSUME NEW error, Raise(RF, error), at[RF] \in {"dial", "undo"},
               UNCHANGED <<connVars, stopping, new, step>>
        PROVE  AloneInv'
    <3>1. at' = [at EXCEPT ![RF] = "out"] /\ UNCHANGED <<open, conn>> /\ rf' \notin {"events", "dispatch"}
      BY <2>2 DEF Raise, EndRound, connVars
    <3> QED BY <1>0, <1>2, <2>2, <3>1 DEF AloneInv
  <2>3. CASE DialFails(RF)
    BY <2>2, <2>3 DEF DialFails
  <2>4. CASE SetupUndone(RF)
    BY <2>2, <2>4 DEF SetupUndone
  <2>5. CASE Dialed(RF)
    <3>1. /\ open = {} /\ open' = {made + 1} /\ at' = [at EXCEPT ![RF] = "setup"]
          /\ new' = [new EXCEPT ![RF] = made + 1] /\ rf' = "starting"
      BY <1>0, <1>2, <2>5 DEF Dialed, loopVars
    <3> QED BY <1>0, <1>2, <3>1 DEF AloneInv
  <2>6. CASE SetupStep(RF) /\ step[RF] = Len(Setup)
    <3>1. /\ at[RF] = "setup" /\ conn' = new[RF] /\ open' = open /\ rf' = "ready"
          /\ at' = [at EXCEPT ![RF] = "out"] /\ new' = new
      BY <2>6 DEF SetupStep, Established
    <3> QED BY <1>0, <1>2, <3>1 DEF AloneInv
  <2>7. CASE SetupStep(RF) /\ step[RF] # Len(Setup)
    BY <1>2, <1>3, <2>7 DEF SetupStep, loopVars
  <2>8. CASE SetupFails(RF)
    <3>1. /\ at[RF] = "setup" /\ open' = open \ {new[RF]} /\ at' = [at EXCEPT ![RF] = "undo"]
          /\ rf' = rf /\ rf = "starting"
      BY <1>0, <2>8, OpenShrinks DEF SetupFails, SetupAborted, loopVars
    <3>2. open' = {}
      BY <1>2, <3>1
    <3> QED BY <1>0, <1>2, <3>1, <3>2 DEF AloneInv
  <2> QED BY <2>1, <2>3, <2>4, <2>5, <2>6, <2>7, <2>8 DEF StartStep
<1>5. CASE RoundStarts
  <2>1. /\ at' = [at EXCEPT ![RF] = "dial"] /\ rf' = "starting" /\ open' = open
        /\ at[RF] = "out" /\ conn \notin open
    BY <1>0, <1>5 DEF RoundStarts, connVars, NeedsStart, Connected
  <2>2. open' = {}
    BY <1>2, <2>1
  <2> QED BY <1>0, <1>2, <2>1, <2>2 DEF AloneInv
<1>6. CASE RoundResumes \/ Stops \/ ReadyDone
  BY <1>2, <1>3, <1>6 DEF RoundResumes, Stops, ReadyDone, connVars, startVars
<1>7. CASE ReadyRaises \/ EventsEnd
  BY <1>3, <1>7 DEF ReadyRaises, EventsEnd, EndRound, connVars, startVars
<1>8. CASE NextEvent \/ RunHandler \/ Dispatched \/ Wake
  BY <1>2, <1>3, <1>8 DEF NextEvent, RunHandler, Dispatched, Wake, connVars, startVars
<1>9. CASE CancelRun
  <2>1. at' = [at EXCEPT ![RF] = "out"] /\ rf' = "done" /\ conn' = conn
    BY <1>9 DEF CancelRun
  <2>2. open' \subseteq {conn}
    <3>1. CASE at[RF] = "setup"
      BY <1>2, <1>9, <3>1, OpenShrinks DEF CancelRun
    <3>2. CASE at[RF] # "setup"
      BY <1>0, <1>2, <1>9, <3>2 DEF CancelRun
    <3> QED BY <3>1, <3>2
  <2> QED BY <1>0, <1>2, <2>1, <2>2 DEF AloneInv
<1>10. CASE Close
  BY <1>2, <1>3, <1>10, OpenShrinks DEF Close, startVars, loopVars
<1>11. ASSUME NEW i \in Conn, ConnectionLost(i) \/ EventArrives(i) PROVE AloneInv'
  BY <1>2, <1>3, <1>11, OpenShrinks DEF ConnectionLost, EventArrives, startVars, loopVars
<1>12. CASE UNCHANGED vars
  BY <1>2, <1>3, <1>12 DEF vars, connVars, startVars, loopVars
<1> QED
  BY <1>4, <1>5, <1>6, <1>7, <1>8, <1>9, <1>10, <1>11, <1>12 DEF Next, RunStep

LEMMA ServedStep ==
    ASSUME ClientTypeOK, AloneInv, ServedInv, [Next]_vars
    PROVE  ServedInv'
<1> SUFFICES ASSUME usage' \cap {"shared", "ready"} = {} PROVE ServedInv'
  BY DEF ServedInv
<1>0. /\ at \in [Task -> {"out", "dial", "setup", "undo"}] /\ RF \in Task
      /\ (at[RF] = "out" <=> rf # "starting")
  BY DEF ClientTypeOK, StartTypeOK, LoopTypeOK, Task
<1>1. usage' = usage
  BY UsageKept
<1>2. /\ "shared" \notin usage /\ "ready" \notin usage
      /\ rf \in {"top", "sleep"} => conn \notin open
      /\ rf \in {"events", "dispatch"} => src \in ready
  BY <1>1 DEF ServedInv, Connected
<1>3. /\ \A t \in App : at[t] = "out"
      /\ at[RF] \in {"dial", "undo"} => open = {}
      /\ rf \in {"events", "dispatch"} => src = conn
  BY <1>2 DEF AloneInv
<1>4. ASSUME rf' = rf, src' = src, ready' = ready, conn' = conn, open' \subseteq open
      PROVE  ServedInv'
  BY <1>2, <1>4 DEF ServedInv, Connected
<1>5. ASSUME rf' \notin {"top", "sleep", "events", "dispatch"} PROVE ServedInv'
  BY <1>5 DEF ServedInv
<1>6. ASSUME NEW t \in Task, StartStep(t) \/ AppStart(t) PROVE ServedInv'
  <2>1. t = RF /\ StartStep(RF)
    BY <1>0, <1>2, <1>3, <1>6 DEF StartStep, DialFails, Dialed, SetupStep, SetupFails,
          SetupAborted, SetupUndone, AppStart, Task
  <2>2. ASSUME NEW error, Raise(RF, error), at[RF] \in {"dial", "undo"},
               UNCHANGED <<connVars, stopping, new, step>>
        PROVE  ServedInv'
    <3>1. open' = {} /\ rf' \notin {"events", "dispatch"}
      BY <1>3, <2>2 DEF Raise, EndRound, connVars
    <3> QED BY <3>1 DEF ServedInv, Connected
  <2>3. CASE DialFails(RF)
    BY <2>2, <2>3 DEF DialFails
  <2>4. CASE SetupUndone(RF)
    BY <2>2, <2>4 DEF SetupUndone
  <2>5. CASE Dialed(RF) \/ SetupFails(RF)
    BY <1>0, <1>5, <2>5 DEF Dialed, SetupFails, SetupAborted, loopVars
  <2>6. CASE SetupStep(RF)
    BY <1>0, <1>5, <2>6 DEF SetupStep, Established, loopVars
  <2> QED BY <2>1, <2>3, <2>4, <2>5, <2>6 DEF StartStep
<1>7. CASE RoundStarts
  BY <1>5, <1>7 DEF RoundStarts
<1>8. CASE RoundResumes
  BY <1>2, <1>8 DEF RoundResumes, NeedsStart, Connected
<1>9. CASE Stops \/ CancelRun
  BY <1>5, <1>9 DEF Stops, CancelRun
<1>10. CASE ReadyDone
  BY <1>10 DEF ReadyDone, ServedInv
<1>11. CASE ReadyRaises
  BY <1>2, <1>11 DEF ReadyRaises
<1>12. CASE EventsEnd
  <2>1. rf' \notin {"events", "dispatch", "top"} /\ src = conn /\ conn \notin open /\ UNCHANGED <<conn, open>>
    BY <1>3, <1>12 DEF EventsEnd, EndRound, connVars
  <2> QED BY <2>1 DEF ServedInv, Connected
<1>13. CASE NextEvent \/ RunHandler \/ Dispatched
  BY <1>2, <1>13 DEF NextEvent, RunHandler, Dispatched, connVars, history, ServedInv
<1>14. CASE Wake
  BY <1>2, <1>14 DEF Wake, connVars, history, ServedInv, Connected
<1>15. CASE Close
  BY <1>4, <1>15, OpenShrinks DEF Close, loopVars, history
<1>16. ASSUME NEW i \in Conn, ConnectionLost(i) \/ EventArrives(i) PROVE ServedInv'
  BY <1>4, <1>16, OpenShrinks DEF ConnectionLost, EventArrives, loopVars, history
<1>17. CASE UNCHANGED vars
  BY <1>4, <1>17 DEF vars, connVars, loopVars, history
<1> QED
  BY <1>6, <1>7, <1>8, <1>9, <1>10, <1>11, <1>12, <1>13, <1>14, <1>15, <1>16, <1>17 DEF Next, RunStep

LEMMA StoppedStep ==
    ASSUME ClientTypeOK, AloneInv, StoppedInv, [Next]_vars
    PROVE  StoppedInv'
<1> SUFFICES ASSUME usage' \cap {"shared", "early"} = {}, stopping' = TRUE PROVE StoppedInv'
  <2>1. stopping' \in BOOLEAN
    BY ClientTypeStep DEF ClientTypeOK, ConnTypeOK
  <2> QED BY <2>1 DEF StoppedInv
<1>0. /\ at \in [Task -> {"out", "dial", "setup", "undo"}] /\ RF \in Task
      /\ open \subseteq 1 .. made /\ stopping \in BOOLEAN
  BY DEF ClientTypeOK, ConnTypeOK, StartTypeOK, Task
<1>1. usage' = usage
  BY UsageKept
<1>2. CASE Close
  <2>1. at[RF] = "out" /\ at' = at
    BY <1>0, <1>1, <1>2 DEF Close, startVars
  <2>2. open \subseteq {conn}
    BY <1>1, <2>1 DEF AloneInv
  <2>3. CASE conn = NoConn
    <3>1. open' = open
      BY <1>2, <2>3 DEF Close
    <3>2. 0 \notin open
      BY <1>0
    <3>3. open = {}
      BY <2>2, <2>3, <3>2 DEF NoConn
    <3> QED BY <2>1, <3>1, <3>3 DEF StoppedInv
  <2>4. CASE conn # NoConn
    BY <1>2, <2>1, <2>2, <2>4, OpenShrinks DEF Close, StoppedInv
  <2> QED BY <2>3, <2>4
<1>3. CASE ~Close
  <2>1. stopping' = stopping
    BY <1>3 DEF Next, vars, StartStep, RunStep, DialFails, Dialed, SetupStep, SetupFails,
         SetupUndone, AppStart, RoundStarts, RoundResumes, Stops, ReadyDone, ReadyRaises,
         NextEvent, RunHandler, Dispatched, EventsEnd, Wake, CancelRun, ConnectionLost,
         EventArrives
  <2>2. at[RF] = "out" /\ open = {} /\ stopping = TRUE /\ \A t \in App : at[t] = "out"
    BY <1>1, <2>1 DEF StoppedInv, AloneInv
  <2>3. ASSUME UNCHANGED <<open, at>> PROVE StoppedInv'
    BY <2>2, <2>3 DEF StoppedInv
  <2>4. ~(\E t \in Task : StartStep(t) \/ AppStart(t)) /\ ~RoundStarts
    BY <1>1, <2>2 DEF Task, StartStep, DialFails, Dialed, SetupStep, SetupFails, SetupAborted,
          SetupUndone, AppStart, RoundStarts
  <2>5. CASE RunStep
    BY <2>3, <2>4, <2>5 DEF RunStep, RoundResumes, Stops, ReadyDone, ReadyRaises, NextEvent,
          RunHandler, Dispatched, EventsEnd, Wake, connVars, startVars
  <2>6. CASE CancelRun
    BY <1>0, <2>2, <2>6 DEF CancelRun, StoppedInv
  <2>7. ASSUME NEW i \in Conn, ConnectionLost(i) \/ EventArrives(i) PROVE StoppedInv'
    BY <2>2, <2>3, <2>7 DEF ConnectionLost, EventArrives, startVars
  <2>8. CASE UNCHANGED vars
    BY <2>3, <2>8 DEF vars, connVars, startVars
  <2> QED BY <1>3, <2>4, <2>5, <2>6, <2>7, <2>8 DEF Next
<1> QED BY <1>2, <1>3

-----------------------------------------------------------------------------
(* Delays *)

\* The recursion of the backoff, unfolded.
LEMMA DoubledProperties ==
    /\ Doubled \in [Nat -> Nat]
    /\ Doubled[0] = InitialDelay
    /\ \A n \in Nat : Doubled[n + 1] = 2 * Doubled[n]
<1> DEFINE twice == [x \in Nat |-> 2 * x]
           Def(f) == f = [n \in Nat |-> IF n = 0 THEN InitialDelay ELSE 2 * f[n - 1]]
<1>1. twice \in [Nat -> Nat] /\ \A x \in Nat : twice[x] = 2 * x
  OBVIOUS
<1> HIDE DEF twice
<1>2. PICK f \in [Nat -> Nat] : f[0] = InitialDelay /\ \A n \in Nat : f[n + 1] = twice[f[n]]
  <2>1. InitialDelay \in Nat
    BY DelayFacts
  <2>2. RecursiveFunctions(Nat, InitialDelay, twice) # {}
    BY <1>1, <2>1, NatRecursion
  <2> QED BY <2>2 DEF RecursiveFunctions
<1>3. \A n \in Nat : f[n] = IF n = 0 THEN InitialDelay ELSE 2 * f[n - 1]
  <2> TAKE n \in Nat
  <2>1. CASE n = 0
    BY <1>2, <2>1
  <2>2. CASE n # 0
    <3>1. n - 1 \in Nat /\ n - 1 + 1 = n
      BY <2>2
    <3>2. f[n] = twice[f[n - 1]] /\ f[n - 1] \in Nat
      BY <1>2, <3>1
    <3> QED BY <1>1, <2>2, <3>2
  <2> QED BY <2>1, <2>2
<1>4. Def(f)
  BY <1>2, <1>3
<1>5. Doubled = CHOOSE g : Def(g)
  BY DEF Doubled
<1>6. Def(Doubled)
  <2> HIDE DEF Def
  <2> QED BY <1>4, <1>5
<1>7. \A n \in Nat : Doubled[n] = IF n = 0 THEN InitialDelay ELSE 2 * Doubled[n - 1]
  BY <1>6
<1>8. \A n \in Nat : Doubled[n + 1] = 2 * Doubled[n]
  <2> TAKE n \in Nat
  <2>1. n + 1 \in Nat /\ n + 1 # 0 /\ n + 1 - 1 = n
    OBVIOUS
  <2> QED BY <1>7, <2>1
<1>9. \A n \in Nat : Doubled[n] \in Nat
  <2> DEFINE Typed == {n \in Nat : Doubled[n] \in Nat}
  <2>1. 0 \in Typed
    BY <1>7, DelayFacts
  <2>2. \A n \in Nat : n \in Typed => n + 1 \in Typed
    BY <1>8
  <2>3. Nat \subseteq Typed
    <3> HIDE DEF Typed
    <3> QED BY <2>1, <2>2, NatSetInduction
  <2> QED BY <2>3
<1>10. Doubled \in [Nat -> Nat]
  BY <1>6, <1>7, <1>9
<1> QED BY <1>7, <1>8, <1>10

LEMMA BackoffProperties ==
    /\ BackoffOf(0) = InitialDelay
    /\ BackoffOf(MaxFailures) = MaxDelay /\ BackoffOf(MaxFailures - 1) = MaxDelay
    /\ \A n \in Nat :
          BackoffOf(n + 1) = IF BackoffOf(n) * 2 > MaxDelay THEN MaxDelay ELSE BackoffOf(n) * 2
<1> USE DelayFacts, DoubledProperties
<1>1. \A n \in Nat : Doubled[n] \in Nat /\ Doubled[n + 1] = 2 * Doubled[n]
  OBVIOUS
<1>2. BackoffOf(0) = InitialDelay
  BY DEF BackoffOf
<1>3. MaxFailures - 1 \in Nat /\ MaxFailures - 1 + 1 = MaxFailures /\ Doubled[MaxFailures - 1] >= MaxDelay
  BY ClientAssumption
<1>4. Doubled[MaxFailures] = 2 * Doubled[MaxFailures - 1] /\ Doubled[MaxFailures - 1] \in Nat
  BY <1>1, <1>3
<1>5. Doubled[MaxFailures] >= MaxDelay /\ Doubled[MaxFailures] \in Nat
  BY <1>3, <1>4
<1>6. BackoffOf(MaxFailures) = MaxDelay /\ BackoffOf(MaxFailures - 1) = MaxDelay
  <2>1. \A x \in Nat : x >= MaxDelay => (IF x > MaxDelay THEN MaxDelay ELSE x) = MaxDelay
    OBVIOUS
  <2> QED BY <1>3, <1>4, <1>5, <2>1 DEF BackoffOf
<1>7. ASSUME NEW n \in Nat
      PROVE  BackoffOf(n + 1) = IF BackoffOf(n) * 2 > MaxDelay THEN MaxDelay ELSE BackoffOf(n) * 2
  <2>1. Doubled[n] \in Nat /\ Doubled[n + 1] = 2 * Doubled[n]
    BY <1>1
  <2> QED BY <2>1 DEF BackoffOf
<1> QED BY <1>2, <1>6, <1>7

LEMMA DelayStep ==
    ASSUME ClientTypeOK, DelayInv, [Next]_vars
    PROVE  DelayInv'
<1> USE DelayFacts
<1>0. /\ rf # "done" => delay = BackoffOf(IF rf = "sleep" THEN failures - 1 ELSE failures)
      /\ rf = "sleep" => failures > 0
      /\ failures \in 0 .. MaxFailures /\ delay \in Nat
      /\ (at[RF] = "out" <=> rf # "starting")
      /\ at \in [Task -> {"out", "dial", "setup", "undo"}] /\ RF \in Task
  BY DEF DelayInv, Backoff, ClientTypeOK, StartTypeOK, LoopTypeOK, Task
<1>1. ASSUME UNCHANGED <<delay, failures>>, (rf = "sleep" <=> rf' = "sleep"), rf # "done"
      PROVE  DelayInv'
  BY <1>0, <1>1 DEF DelayInv, Backoff
<1>2. ASSUME rf' = "done" PROVE DelayInv'
  BY <1>2 DEF DelayInv, Backoff
<1>3. ASSUME NEW error, EndRound(error), rf \notin {"done", "sleep"} PROVE DelayInv'
  <2>1. CASE stopping
    BY <1>2, <1>3, <2>1 DEF EndRound
  <2>2. CASE ~stopping
    <3>1. /\ rf' = "sleep" /\ delay' = delay /\ delay = BackoffOf(failures)
          /\ failures' = IF failures < MaxFailures THEN failures + 1 ELSE failures
      BY <1>0, <1>3, <2>2 DEF EndRound
    <3>2. failures' > 0 /\ BackoffOf(failures' - 1) = BackoffOf(failures)
      <4>1. CASE failures < MaxFailures
        <5>1. failures' > 0 /\ failures' - 1 = failures
          BY <1>0, <3>1, <4>1
        <5> QED BY <5>1
      <4>2. CASE failures = MaxFailures
        BY <3>1, <4>2, BackoffProperties
      <4> QED BY <1>0, <4>1, <4>2
    <3> QED BY <3>1, <3>2 DEF DelayInv, Backoff, BackoffOf
  <2> QED BY <2>1, <2>2
<1>4. ASSUME NEW t \in Task, StartStep(t) PROVE DelayInv'
  <2>1. ASSUME NEW error, Raise(t, error), at[t] # "out" PROVE DelayInv'
    <3>1. CASE t = RF
      BY <1>0, <1>3, <2>1, <3>1 DEF Raise
    <3>2. CASE t # RF /\ rf # "done"
      BY <1>1, <2>1, <3>2 DEF Raise, loopVars, history
    <3>3. CASE t # RF /\ rf = "done"
      BY <1>2, <2>1, <3>3 DEF Raise, loopVars
    <3> QED BY <3>1, <3>2, <3>3
  <2>2. CASE DialFails(t) \/ SetupUndone(t)
    BY <2>1, <2>2 DEF DialFails, SetupUndone
  <2>3. ASSUME UNCHANGED <<loopVars, history>> PROVE DelayInv'
    BY <1>1, <1>2, <2>3 DEF loopVars, history
  <2>4. CASE Dialed(t) \/ SetupFails(t)
    BY <2>3, <2>4 DEF Dialed, SetupFails
  <2>5. CASE SetupStep(t)
    <3>1. CASE t = RF /\ step[t] = Len(Setup)
      <4>1. delay' = InitialDelay /\ failures' = 0 /\ rf' = "ready"
        BY <2>5, <3>1 DEF SetupStep, Established
      <4> QED BY <4>1, BackoffProperties DEF DelayInv, Backoff, BackoffOf
    <3>2. CASE ~(t = RF /\ step[t] = Len(Setup))
      BY <2>3, <2>5, <3>2 DEF SetupStep, Established
    <3> QED BY <3>1, <3>2
  <2> QED BY <1>4, <2>2, <2>4, <2>5 DEF StartStep
<1>5. CASE Wake
  <2>1. /\ delay = BackoffOf(failures - 1) /\ delay' = NextDelay /\ rf' = "top"
        /\ failures' = failures /\ failures > 0 /\ failures - 1 \in Nat /\ failures - 1 + 1 = failures
    BY <1>0, <1>5 DEF Wake, history
  <2>2. delay' = BackoffOf(failures)
    BY <2>1, BackoffProperties DEF NextDelay
  <2> QED BY <2>1, <2>2 DEF DelayInv, Backoff, BackoffOf
<1>6. CASE RoundStarts \/ RoundResumes \/ ReadyDone \/ NextEvent \/ RunHandler \/ Dispatched
  BY <1>1, <1>6 DEF RoundStarts, RoundResumes, ReadyDone, NextEvent, RunHandler, Dispatched, history
<1>7. CASE Stops \/ CancelRun
  BY <1>2, <1>7 DEF Stops, CancelRun
<1>8. CASE ReadyRaises \/ EventsEnd
  BY <1>3, <1>8 DEF ReadyRaises, EventsEnd
<1>9. ASSUME UNCHANGED <<loopVars, history>> PROVE DelayInv'
  BY <1>1, <1>2, <1>9 DEF loopVars, history
<1>10. CASE Close \/ (\E t \in Task : AppStart(t)) \/ UNCHANGED vars
  BY <1>9, <1>10 DEF Close, AppStart, vars
<1>11. ASSUME NEW i \in Conn, ConnectionLost(i) \/ EventArrives(i) PROVE DelayInv'
  BY <1>9, <1>11 DEF ConnectionLost, EventArrives
<1> QED
  BY <1>4, <1>5, <1>6, <1>7, <1>8, <1>10, <1>11 DEF Next, RunStep

-----------------------------------------------------------------------------
(* Events and handlers *)

LEMMA SameShrunk == ClientTypeOK /\ unread' = unread => Shrunk
<1> SUFFICES ASSUME ClientTypeOK, unread' = unread, NEW i \in Conn
             PROVE  \E d \in Nat :
                      /\ Len(unread'[i]) = Len(unread[i]) - d
                      /\ \A k \in 1 .. Len(unread'[i]) : unread'[i][k] = unread[i][k + d]
  BY DEF Shrunk
<1>1. Len(unread[i]) \in Nat
  BY LenProperties DEF ClientTypeOK, ConnTypeOK
<1>2. Len(unread[i]) = Len(unread[i]) - 0 /\ \A k \in 1 .. Len(unread[i]) : k + 0 = k
  BY <1>1
<1> QED BY <1>2

LEMMA QueueTypes ==
    ASSUME ClientTypeOK
    PROVE  /\ unread \in [Conn -> Seq(Event)]
           /\ \A i \in Conn : Len(unread[i]) \in Nat
           /\ \A i \in Conn : \A k \in 1 .. Len(unread[i]) :
                 unread[i][k] \in Event /\ unread[i][k].n \in Nat \ {0}
           /\ sent \in Nat /\ event.n \in Nat
           /\ Len(log) \in Nat /\ log \in Seq(Run)
           /\ \A j \in 1 .. Len(log) : log[j].n \in Nat \ {0}
           /\ made \in Nat /\ Conn \subseteq Nat
           /\ conn # NoConn => conn \in Conn
           /\ src # NoConn => src \in Conn
<1>1. unread \in [Conn -> Seq(Event)] /\ sent \in Nat /\ log \in Seq(Run)
  BY DelayFacts DEF ClientTypeOK, ConnTypeOK, LoopTypeOK, Run
<1>2. ASSUME NEW i \in Conn, NEW k \in 1 .. Len(unread[i])
      PROVE  unread[i][k] \in Event /\ unread[i][k].n \in Nat \ {0}
  <2>1. unread[i] \in Seq(Event)
    BY <1>1
  <2>2. unread[i][k] \in Event
    BY <2>1, ElementOfSeq
  <2> QED BY <2>2 DEF Event
<1>3. ASSUME NEW j \in 1 .. Len(log) PROVE log[j].n \in Nat \ {0}
  <2>1. log[j] \in Run
    BY <1>1, ElementOfSeq
  <2> QED BY <2>1 DEF Run
<1>4. event \in Event \cup {NoEvent}
  BY DEF ClientTypeOK, LoopTypeOK
<1>5. conn \in 0 .. made /\ src \in 0 .. made /\ made \in 0 .. MaxConns
  BY DEF ClientTypeOK, ConnTypeOK, LoopTypeOK
<1>6. event.n \in Nat
  BY <1>4 DEF Event, NoEvent
<1>7. /\ made \in Nat /\ Conn \subseteq Nat
      /\ (conn # NoConn => conn \in Conn) /\ (src # NoConn => src \in Conn)
  BY <1>5, DelayFacts DEF Conn, NoConn
<1> QED BY <1>1, <1>2, <1>3, <1>6, <1>7, LenProperties

\* A connection that is being set up has been made.
LEMMA NewTypes ==
    ASSUME ClientTypeOK, NEW t \in Task, at[t] = "setup"
    PROVE  new[t] \in Conn
<1>1. new[t] \in 0 .. made /\ new[t] # 0 /\ made \in 0 .. MaxConns
  BY DEF ClientTypeOK, ConnTypeOK, StartTypeOK, NoConn
<1> QED BY <1>1, DelayFacts DEF Conn

\* Where the queues lose no more than their oldest events, and no event is
\* new, the order is as it was; a connection that is new has no events yet.
LEMMA QueueKept ==
    ASSUME ClientTypeOK, ClientTypeOK', QueueInv, Shrunk,
           UNCHANGED <<usage, sent, log>>, made <= made',
           event' = NoEvent \/ (event' = event /\ src' = src),
           "shared" \notin usage => \A i \in Conn : Reads(i)' => Reads(i) \/ i > made
    PROVE  QueueInv'
<1>0. /\ unread' \in [Conn -> Seq(Event)] /\ \A i \in Conn : Len(unread'[i]) \in Nat
      /\ made \in Nat /\ made' \in Nat /\ Conn \subseteq Nat
      /\ event.n \in Nat /\ event'.n \in Nat /\ event'.n <= event.n
  <2>1. event \in Event \cup {NoEvent} /\ event.n \in Nat /\ NoEvent.n = 0
    BY DEF ClientTypeOK, LoopTypeOK, Event, NoEvent
  <2>2. event'.n \in Nat /\ event'.n <= event.n
    BY <2>1
  <2>3. unread' \in [Conn -> Seq(Event)] /\ made' \in Nat
    BY DelayFacts DEF ClientTypeOK, ConnTypeOK
  <2>4. \A i \in Conn : Len(unread'[i]) \in Nat
    BY <2>3, LenProperties
  <2> QED BY <2>1, <2>2, <2>3, <2>4, QueueTypes
<1>1. ASSUME NEW i \in Conn
      PROVE  \E d \in Nat : /\ Len(unread'[i]) = Len(unread[i]) - d
                            /\ \A k \in 1 .. Len(unread'[i]) :
                                  k + d \in 1 .. Len(unread[i]) /\ unread'[i][k] = unread[i][k + d]
  <2>1. PICK d \in Nat : /\ Len(unread'[i]) = Len(unread[i]) - d
                         /\ \A k \in 1 .. Len(unread'[i]) : unread'[i][k] = unread[i][k + d]
    BY DEF Shrunk
  <2>2. \A k \in 1 .. Len(unread'[i]) : k + d \in 1 .. Len(unread[i])
    BY <1>0, <2>1, QueueTypes
  <2> QED BY <2>1, <2>2
<1>2. ASSUME NEW i \in Conn, NEW k \in 1 .. Len(unread'[i])
      PROVE  \E l \in 1 .. Len(unread[i]) : unread'[i][k] = unread[i][l]
  BY <1>1
<1>3. ASSUME NEW i \in Conn, i > made PROVE unread'[i] = <<>>
  <2>1. Len(unread[i]) = 0
    BY <1>3, EmptySeq DEF QueueInv
  <2>2. PICK d \in Nat : Len(unread'[i]) = Len(unread[i]) - d
    BY <1>1
  <2>3. Len(unread'[i]) = 0
    BY <1>0, <2>1, <2>2
  <2> QED BY <1>0, <2>3, EmptySeq
<1>4. ASSUME NEW i \in Conn PROVE i > made' => unread'[i] = <<>>
  BY <1>0, <1>3
<1>5. ASSUME NEW i \in Conn PROVE Sorted(i)'
  <2>1. PICK d \in Nat : \A k \in 1 .. Len(unread'[i]) :
                k + d \in 1 .. Len(unread[i]) /\ unread'[i][k] = unread[i][k + d]
    BY <1>1
  <2>2. Sorted(i)
    BY DEF QueueInv
  <2>3. ASSUME NEW k \in 1 .. Len(unread'[i])
        PROVE  /\ unread'[i][k].n <= sent'
               /\ \A j \in 1 .. Len(unread'[i]) : j < k => unread'[i][j].n < unread'[i][k].n
    <3>1. k + d \in 1 .. Len(unread[i]) /\ unread'[i][k] = unread[i][k + d]
      BY <2>1
    <3>2. unread'[i][k].n <= sent'
      BY <2>2, <3>1 DEF Sorted
    <3>3. ASSUME NEW j \in 1 .. Len(unread'[i]), j < k PROVE unread'[i][j].n < unread'[i][k].n
      <4>1. j + d < k + d /\ j + d \in 1 .. Len(unread[i]) /\ unread'[i][j] = unread[i][j + d]
        BY <1>0, <2>1, <3>3
      <4> QED BY <2>2, <3>1, <4>1 DEF Sorted
    <3> QED BY <3>2, <3>3
  <2> QED BY <2>3 DEF Sorted
<1>6. ASSUME NEW i \in Conn PROVE Behind(i)'
  <2>1. Behind(i)
    BY DEF QueueInv
  <2>2. ASSUME NEW k \in 1 .. Len(unread'[i])
        PROVE  /\ unread'[i][k].n # event'.n /\ (i = src' => event'.n < unread'[i][k].n)
               /\ \A j \in 1 .. Len(log') :
                     log'[j].n # unread'[i][k].n /\ (log'[j].c = i => log'[j].n < unread'[i][k].n)
    <3>1. PICK l \in 1 .. Len(unread[i]) : unread'[i][k] = unread[i][l]
      BY <1>2
    <3>2. unread[i][l].n \in Nat \ {0}
      BY QueueTypes
    <3>3. unread[i][l].n # event'.n /\ (i = src' => event'.n < unread[i][l].n)
      <4>1. CASE event' = NoEvent
        BY <3>2, <4>1 DEF NoEvent
      <4>2. CASE event' = event /\ src' = src
        BY <2>1, <4>2 DEF Behind
      <4> QED BY <4>1, <4>2
    <3> QED BY <2>1, <3>1, <3>3 DEF Behind
  <2> QED BY <2>2 DEF Behind
<1>7. ASSUME NEW i \in Conn, NEW l \in Conn, i # l PROVE Apart(i, l)'
  <2>1. Apart(i, l)
    BY <1>7 DEF QueueInv
  <2>2. ASSUME NEW j \in 1 .. Len(unread'[i]), NEW k \in 1 .. Len(unread'[l])
        PROVE  unread'[i][j].n # unread'[l][k].n
    <3>1. PICK a \in 1 .. Len(unread[i]) : unread'[i][j] = unread[i][a]
      BY <1>2
    <3>2. PICK b \in 1 .. Len(unread[l]) : unread'[l][k] = unread[l][b]
      BY <1>2
    <3> QED BY <2>1, <3>1, <3>2 DEF Apart
  <2> QED BY <2>2 DEF Apart
<1>8. ASSUME "shared" \notin usage', NEW i \in Conn, Reads(i)' PROVE Later(i)'
  <2>1. CASE i > made
    <3>1. Len(unread'[i]) = 0
      BY <1>3, <2>1, EmptySeq
    <3> QED BY <3>1 DEF Later
  <2>2. CASE Reads(i)
    <3>1. Later(i)
      BY <1>8, <2>2 DEF QueueInv
    <3>2. ASSUME NEW k \in 1 .. Len(unread'[i])
          PROVE  /\ event'.n < unread'[i][k].n
                 /\ \A j \in 1 .. Len(log') : log'[j].n < unread'[i][k].n
      <4>1. PICK l \in 1 .. Len(unread[i]) : unread'[i][k] = unread[i][l]
        BY <1>2
      <4>2. /\ event.n < unread[i][l].n /\ unread[i][l].n \in Nat
            /\ \A j \in 1 .. Len(log) : log[j].n < unread[i][l].n
        BY <3>1, QueueTypes DEF Later
      <4> QED BY <1>0, <4>1, <4>2
    <3> QED BY <3>2 DEF Later
  <2> QED BY <1>8, <2>1, <2>2
<1>9. event'.n <= sent' /\ \A j \in 1 .. Len(log') : log'[j].n <= sent'
  <2>1. event.n <= sent /\ sent \in Nat
    BY QueueTypes DEF QueueInv
  <2> QED BY <1>0, <2>1 DEF QueueInv
<1> QED BY <1>4, <1>5, <1>6, <1>7, <1>8, <1>9 DEF QueueInv

\* The oldest event is taken.
LEMMA QueueNext ==
    ASSUME ClientTypeOK, AloneInv, QueueInv, NextEvent
    PROVE  QueueInv'
<1> USE QueueTypes
<1>1. /\ src \in Conn /\ unread[src] # <<>> /\ rf = "events" /\ event' = Head(unread[src])
      /\ unread' = [unread EXCEPT ![src] = Tail(unread[src])]
      /\ UNCHANGED <<usage, made, conn, sent, src, log, at, new>>
  BY DEF NextEvent, ClientTypeOK, LoopTypeOK, history, startVars
<1>2. /\ event' = unread[src][1] /\ 1 \in 1 .. Len(unread[src])
      /\ Len(unread'[src]) = Len(unread[src]) - 1
      /\ \A k \in 1 .. Len(unread'[src]) : unread'[src][k] = unread[src][k + 1]
      /\ \A i \in Conn : i # src => unread'[i] = unread[i]
  BY <1>1, HeadTailProperties, EmptySeq
<1>3. \A k \in 1 .. Len(unread'[src]) : k + 1 \in 1 .. Len(unread[src]) /\ 1 < k + 1
  BY <1>1, <1>2
<1>4. Sorted(src) /\ Behind(src)
  BY <1>1 DEF QueueInv
<1>5. ASSUME NEW k \in 1 .. Len(unread'[src])
      PROVE  /\ event'.n < unread'[src][k].n
             /\ \A j \in 1 .. Len(log) :
                   log[j].n # unread'[src][k].n /\ (log[j].c = src => log[j].n < unread'[src][k].n)
  BY <1>1, <1>2, <1>3, <1>4 DEF Sorted, Behind
<1>6. ASSUME NEW i \in Conn, i # src, NEW k \in 1 .. Len(unread[i]) PROVE unread[i][k].n # event'.n
  <2>1. Apart(i, src)
    BY <1>1, <1>6 DEF QueueInv
  <2> QED BY <1>2, <2>1 DEF Apart
<1>7. ASSUME NEW i \in Conn PROVE Behind(i)'
  <2>1. CASE i = src
    <3>1. \A k \in 1 .. Len(unread'[src]) :
             unread'[src][k].n \in Nat /\ event'.n \in Nat /\ unread'[src][k].n # event'.n
      BY <1>1, <1>2, <1>3, <1>5
    <3> QED BY <1>1, <1>5, <2>1, <3>1 DEF Behind
  <2>2. CASE i # src
    <3>1. Behind(i)
      BY DEF QueueInv
    <3> QED BY <1>1, <1>2, <1>6, <2>2, <3>1 DEF Behind
  <2> QED BY <2>1, <2>2
<1>8. ASSUME NEW i \in Conn PROVE Sorted(i)'
  <2>1. CASE i # src
    <3>1. Sorted(i)
      BY DEF QueueInv
    <3> QED BY <1>1, <1>2, <2>1, <3>1 DEF Sorted
  <2>2. CASE i = src
    <3>1. ASSUME NEW k \in 1 .. Len(unread'[src])
          PROVE  /\ unread'[src][k].n <= sent'
                 /\ \A j \in 1 .. Len(unread'[src]) : j < k => unread'[src][j].n < unread'[src][k].n
      <4>1. unread'[src][k] = unread[src][k + 1] /\ k + 1 \in 1 .. Len(unread[src])
        BY <1>2, <1>3
      <4>2. ASSUME NEW j \in 1 .. Len(unread'[src]), j < k PROVE unread'[src][j].n < unread'[src][k].n
        <5>1. /\ unread'[src][j] = unread[src][j + 1] /\ j + 1 \in 1 .. Len(unread[src])
              /\ j + 1 < k + 1
          BY <1>1, <1>2, <1>3, <4>2
        <5> QED BY <1>4, <4>1, <5>1 DEF Sorted
      <4> QED BY <1>1, <1>4, <4>1, <4>2 DEF Sorted
    <3> QED BY <1>1, <2>2, <3>1 DEF Sorted
  <2> QED BY <2>1, <2>2
<1>9. ASSUME NEW i \in Conn, NEW k \in 1 .. Len(unread'[i])
      PROVE  \E l \in 1 .. Len(unread[i]) : unread'[i][k] = unread[i][l]
  <2>1. CASE i = src
    BY <1>2, <1>3, <2>1
  <2>2. CASE i # src
    BY <1>2, <2>2
  <2> QED BY <2>1, <2>2
<1>10. ASSUME NEW i \in Conn, NEW l \in Conn, i # l PROVE Apart(i, l)'
  <2>1. Apart(i, l)
    BY <1>10 DEF QueueInv
  <2>2. ASSUME NEW j \in 1 .. Len(unread'[i]), NEW k \in 1 .. Len(unread'[l])
        PROVE  unread'[i][j].n # unread'[l][k].n
    <3>1. PICK a \in 1 .. Len(unread[i]) : unread'[i][j] = unread[i][a]
      BY <1>9
    <3>2. PICK b \in 1 .. Len(unread[l]) : unread'[l][k] = unread[l][b]
      BY <1>9
    <3> QED BY <2>1, <3>1, <3>2 DEF Apart
  <2> QED BY <2>2 DEF Apart
<1>11. ASSUME "shared" \notin usage', NEW i \in Conn, Reads(i)' PROVE Later(i)'
  <2>1. i = src /\ Reads(src)
    <3>1. src = conn /\ at[RF] = "out"
      BY <1>1, <1>11 DEF AloneInv, ClientTypeOK, LoopTypeOK
    <3> QED BY <1>1, <1>11, <3>1 DEF Reads
  <2>2. Later(src)
    BY <1>1, <1>11, <2>1 DEF QueueInv
  <2>3. \A k \in 1 .. Len(unread'[src]) : \A j \in 1 .. Len(log) : log[j].n < unread'[src][k].n
    BY <1>2, <1>3, <2>2 DEF Later
  <2> QED BY <1>1, <1>5, <2>1, <2>3 DEF Later
<1>12. event'.n <= sent' /\ \A j \in 1 .. Len(log') : log'[j].n <= sent'
  <2>1. event'.n <= sent
    BY <1>2, <1>4 DEF Sorted
  <2> QED BY <1>1, <2>1 DEF QueueInv
<1>13. ASSUME NEW i \in Conn, i > made' PROVE unread'[i] = <<>>
  <2>1. unread[i] = <<>>
    BY <1>1, <1>13 DEF QueueInv
  <2> QED BY <1>1, <1>2, <2>1
<1> QED BY <1>7, <1>8, <1>10, <1>11, <1>12, <1>13 DEF QueueInv

\* A handler runs: its event is logged.
LEMMA QueueRun ==
    ASSUME ClientTypeOK, QueueInv, RunHandler
    PROVE  QueueInv'
<1> USE QueueTypes
<1>1. /\ rf = "dispatch" /\ todo # <<>> /\ log' = Append(log, Entry(Head(todo)))
      /\ UNCHANGED <<usage, made, unread, conn, sent, src, event, at, new>>
  BY DEF RunHandler, connVars, startVars, Entry
<1>2. Entry(Head(todo)) \in Run
  BY <1>1, HeadTypes
<1>3. Entry(Head(todo)).n = event.n /\ Entry(Head(todo)).c = src
  BY DEF Entry
<1>4. /\ Len(log') = Len(log) + 1
      /\ \A j \in 1 .. Len(log) : log'[j] = log[j]
      /\ log'[Len(log) + 1].n = event.n /\ log'[Len(log) + 1].c = src
  BY <1>1, <1>2, <1>3, AppendProperties
<1>5. ASSUME NEW j \in 1 .. Len(log')
      PROVE  \/ j \in 1 .. Len(log) /\ log'[j] = log[j]
             \/ log'[j].n = event.n /\ log'[j].c = src
  BY <1>4
<1>6. ASSUME NEW i \in Conn PROVE Behind(i)'
  <2>1. Behind(i)
    BY DEF QueueInv
  <2>2. ASSUME NEW k \in 1 .. Len(unread[i]), NEW j \in 1 .. Len(log')
        PROVE  log'[j].n # unread[i][k].n /\ (log'[j].c = i => log'[j].n < unread[i][k].n)
    BY <1>5, <2>1 DEF Behind
  <2> QED BY <1>1, <2>1, <2>2 DEF Behind
<1>7. ASSUME "shared" \notin usage', NEW i \in Conn, Reads(i)' PROVE Later(i)'
  <2>1. Later(i)
    BY <1>1, <1>7 DEF QueueInv, Reads
  <2>2. ASSUME NEW k \in 1 .. Len(unread[i]), NEW j \in 1 .. Len(log')
        PROVE  log'[j].n < unread[i][k].n
    BY <1>5, <2>1 DEF Later
  <2> QED BY <1>1, <2>1, <2>2 DEF Later
<1>8. event'.n <= sent' /\ \A j \in 1 .. Len(log') : log'[j].n <= sent'
  BY <1>1, <1>5 DEF QueueInv
<1>9. \A i \in Conn : (i > made' => unread'[i] = <<>>) /\ Sorted(i)'
  BY <1>1 DEF QueueInv, Sorted
<1>10. \A i, l \in Conn : i # l => Apart(i, l)'
  BY <1>1 DEF QueueInv, Apart
<1> QED BY <1>6, <1>7, <1>8, <1>9, <1>10 DEF QueueInv

\* An event is behind all that came before it, on whatever connection.
LEMMA QueueArrival ==
    ASSUME ClientTypeOK, QueueInv, NEW i \in Conn, EventArrives(i)
    PROVE  QueueInv'
<1> USE QueueTypes
<1>1. /\ sent' = sent + 1 /\ i \in open
      /\ UNCHANGED <<usage, made, conn, src, event, log, at, new>>
  BY DEF EventArrives, Receiving, loopVars, history, startVars
<1> DEFINE m == MakeRoom(unread[i])
<1>2. PICK name \in EventName : unread' = [unread EXCEPT ![i] = Append(m, [n |-> sent + 1, name |-> name])]
  BY DEF EventArrives
<1>3. [n |-> sent + 1, name |-> name] \in Event
  BY DEF Event
<1>4. unread[i] \in Seq(Event) /\ Len(unread[i]) <= Capacity
  BY DEF ClientTypeOK, ConnTypeOK
<1>5. /\ m \in Seq(Event)
      /\ \E d \in 0 .. 1 : /\ Len(m) = Len(unread[i]) - d
                           /\ \A k \in 1 .. Len(m) : m[k] = unread[i][k + d]
  BY <1>4, MakeRoomProperties
<1> HIDE DEF m
<1>6. PICK d \in 0 .. 1 : /\ Len(m) = Len(unread[i]) - d
                          /\ \A k \in 1 .. Len(m) : m[k] = unread[i][k + d]
  BY <1>5
<1>7. /\ Len(unread'[i]) = Len(m) + 1 /\ Len(m) \in Nat
      /\ \A k \in 1 .. Len(m) : unread'[i][k] = m[k]
      /\ unread'[i][Len(m) + 1].n = sent + 1
      /\ \A j \in Conn : j # i => unread'[j] = unread[j]
  BY <1>2, <1>3, <1>5, AppendProperties, LenProperties
<1>8. \A k \in 1 .. Len(m) : unread'[i][k] = unread[i][k + d] /\ k + d \in 1 .. Len(unread[i])
  BY <1>6, <1>7
<1>9. ASSUME NEW j \in Conn, NEW k \in 1 .. Len(unread'[j])
      PROVE  \/ \E l \in 1 .. Len(unread[j]) : unread'[j][k] = unread[j][l]
             \/ j = i /\ k = Len(m) + 1 /\ unread'[j][k].n = sent + 1
  <2>1. CASE j # i
    BY <1>7, <2>1
  <2>2. CASE j = i
    <3>1. k \in 1 .. Len(m) \/ k = Len(m) + 1
      BY <1>7, <2>2
    <3> QED BY <1>7, <1>8, <2>2, <3>1
  <2> QED BY <2>1, <2>2
<1>10. event.n < sent + 1 /\ \A j \in 1 .. Len(log) : log[j].n < sent + 1
  BY DEF QueueInv
<1>11. ASSUME NEW j \in Conn, NEW l \in 1 .. Len(unread[j]) PROVE unread[j][l].n < sent + 1
  BY DEF QueueInv, Sorted
<1>12. ASSUME NEW j \in Conn PROVE Behind(j)'
  <2>1. Behind(j)
    BY DEF QueueInv
  <2>2. ASSUME NEW k \in 1 .. Len(unread'[j])
        PROVE  /\ unread'[j][k].n # event.n /\ (j = src => event.n < unread'[j][k].n)
               /\ \A p \in 1 .. Len(log) :
                     log[p].n # unread'[j][k].n /\ (log[p].c = j => log[p].n < unread'[j][k].n)
    <3>1. CASE \E l \in 1 .. Len(unread[j]) : unread'[j][k] = unread[j][l]
      BY <2>1, <3>1 DEF Behind
    <3>2. CASE unread'[j][k].n = sent + 1
      BY <1>10, <3>2
    <3> QED BY <1>9, <3>1, <3>2
  <2> QED BY <1>1, <2>2 DEF Behind
<1>13. ASSUME NEW j \in Conn PROVE Sorted(j)'
  <2>1. Sorted(j) /\ Sorted(i)
    BY DEF QueueInv
  <2>2. CASE j # i
    <3>1. unread'[j] = unread[j]
      BY <1>7, <2>2
    <3>2. ASSUME NEW k \in 1 .. Len(unread[j])
          PROVE  /\ unread[j][k].n <= sent'
                 /\ \A l \in 1 .. Len(unread[j]) : l < k => unread[j][l].n < unread[j][k].n
      <4>1. unread[j][k].n <= sent'
        BY <1>1, <2>1 DEF Sorted
      <4>2. \A l \in 1 .. Len(unread[j]) : l < k => unread[j][l].n < unread[j][k].n
        BY <2>1 DEF Sorted
      <4> QED BY <4>1, <4>2
    <3> QED BY <3>1, <3>2 DEF Sorted
  <2>3. CASE j = i
    <3>1. ASSUME NEW k \in 1 .. Len(unread'[i])
          PROVE  /\ unread'[i][k].n <= sent'
                 /\ \A l \in 1 .. Len(unread'[i]) : l < k => unread'[i][l].n < unread'[i][k].n
      <4>1. unread'[i][k].n <= sent'
        <5>1. CASE \E l \in 1 .. Len(unread[i]) : unread'[i][k] = unread[i][l]
          BY <1>1, <2>1, <5>1 DEF Sorted
        <5>2. CASE unread'[i][k].n = sent + 1
          BY <1>1, <5>2
        <5> QED BY <1>9, <5>1, <5>2
      <4>2. ASSUME NEW l \in 1 .. Len(unread'[i]), l < k PROVE unread'[i][l].n < unread'[i][k].n
        <5>1. l \in 1 .. Len(m) /\ unread'[i][l] = unread[i][l + d] /\ l + d \in 1 .. Len(unread[i])
          BY <1>7, <1>8, <4>2
        <5>2. CASE k \in 1 .. Len(m)
          <6>1. unread'[i][k] = unread[i][k + d] /\ k + d \in 1 .. Len(unread[i]) /\ l + d < k + d
            BY <1>8, <4>2, <5>2
          <6> QED BY <2>1, <5>1, <6>1 DEF Sorted
        <5>3. CASE k = Len(m) + 1
          BY <1>7, <1>11, <5>1, <5>3
        <5> QED BY <1>7, <5>2, <5>3
      <4> QED BY <4>1, <4>2
    <3> QED BY <2>3, <3>1 DEF Sorted
  <2> QED BY <2>2, <2>3
<1>14. ASSUME NEW j \in Conn, NEW l \in Conn, j # l PROVE Apart(j, l)'
  <2>1. Apart(j, l)
    BY <1>14 DEF QueueInv
  <2>2. ASSUME NEW a \in 1 .. Len(unread'[j]), NEW b \in 1 .. Len(unread'[l])
        PROVE  unread'[j][a].n # unread'[l][b].n
    <3>1. /\ \/ \E k \in 1 .. Len(unread[j]) : unread'[j][a] = unread[j][k]
             \/ j = i /\ unread'[j][a].n = sent + 1
          /\ \/ \E k \in 1 .. Len(unread[l]) : unread'[l][b] = unread[l][k]
             \/ l = i /\ unread'[l][b].n = sent + 1
      BY <1>9
    <3>2. CASE j = i /\ unread'[j][a].n = sent + 1
      <4>1. PICK k \in 1 .. Len(unread[l]) : unread'[l][b] = unread[l][k]
        BY <1>14, <3>1, <3>2
      <4> QED BY <1>11, <3>2, <4>1
    <3>3. CASE l = i /\ unread'[l][b].n = sent + 1
      <4>1. PICK k \in 1 .. Len(unread[j]) : unread'[j][a] = unread[j][k]
        BY <1>14, <3>1, <3>3
      <4> QED BY <1>11, <3>3, <4>1
    <3>4. CASE /\ \E k \in 1 .. Len(unread[j]) : unread'[j][a] = unread[j][k]
               /\ \E k \in 1 .. Len(unread[l]) : unread'[l][b] = unread[l][k]
      BY <2>1, <3>4 DEF Apart
    <3> QED BY <3>1, <3>2, <3>3, <3>4
  <2> QED BY <2>2 DEF Apart
<1>15. ASSUME "shared" \notin usage', NEW j \in Conn, Reads(j)' PROVE Later(j)'
  <2>1. Later(j)
    BY <1>1, <1>15 DEF QueueInv, Reads
  <2>2. ASSUME NEW k \in 1 .. Len(unread'[j])
        PROVE  event.n < unread'[j][k].n /\ \A p \in 1 .. Len(log) : log[p].n < unread'[j][k].n
    <3>1. CASE \E l \in 1 .. Len(unread[j]) : unread'[j][k] = unread[j][l]
      BY <2>1, <3>1 DEF Later
    <3>2. CASE unread'[j][k].n = sent + 1
      BY <1>10, <3>2
    <3> QED BY <1>9, <3>1, <3>2
  <2> QED BY <1>1, <2>2 DEF Later
<1>16. event'.n <= sent' /\ \A j \in 1 .. Len(log') : log'[j].n <= sent'
  <2>1. \A x \in Nat : x < sent + 1 => x <= sent + 1
    OBVIOUS
  <2>2. event.n <= sent + 1 /\ \A j \in 1 .. Len(log) : log[j].n <= sent + 1
    BY <1>10, <2>1
  <2> QED BY <1>1, <2>2
<1>17. ASSUME NEW j \in Conn, j > made' PROVE unread'[j] = <<>>
  <2>1. j # i
    BY <1>1, <1>17 DEF ClientTypeOK, ConnTypeOK
  <2> QED BY <1>1, <1>7, <1>17, <2>1 DEF QueueInv
<1> QED BY <1>12, <1>13, <1>14, <1>15, <1>16, <1>17 DEF QueueInv

LEMMA QueueStep ==
    ASSUME ClientTypeOK, AloneInv, QueueInv, [Next]_vars
    PROVE  QueueInv'
<1>0. /\ ClientTypeOK' /\ usage' = usage /\ made \in Nat /\ RF \in Task
      /\ at \in [Task -> {"out", "dial", "setup", "undo"}] /\ new \in [Task -> 0 .. made]
      /\ (at[RF] = "out" <=> rf # "starting") /\ (rf # "dispatch" => event = NoEvent)
      /\ "shared" \notin usage => \A t \in Task : t = RF \/ at[t] = "out"
  BY ClientTypeStep, UsageKept, QueueTypes
     DEF ClientTypeOK, StartTypeOK, LoopTypeOK, AloneInv, Task
<1>1. ASSUME Shrunk, UNCHANGED <<sent, log>>, made <= made',
             event' = NoEvent \/ (event' = event /\ src' = src),
             "shared" \notin usage => \A i \in Conn : Reads(i)' => Reads(i) \/ i > made
      PROVE  QueueInv'
  BY <1>0, <1>1, QueueKept
<1>2. ASSUME Shrunk, UNCHANGED <<made, conn, sent, log, new>>,
             event' = NoEvent \/ (event' = event /\ src' = src),
             at'[RF] = "setup" => at[RF] = "setup"
      PROVE  QueueInv'
  BY <1>0, <1>1, <1>2 DEF Reads
<1>3. ASSUME NEW t \in Task, StartStep(t) \/ AppStart(t) PROVE QueueInv'
  <2>1. ASSUME NEW error, Raise(t, error), UNCHANGED <<connVars, new>>
        PROVE  QueueInv'
    <3>1. /\ at' = [at EXCEPT ![t] = "out"] /\ UNCHANGED <<made, conn, sent, log, new, unread>>
          /\ event' = NoEvent \/ (event' = event /\ src' = src)
      BY <2>1 DEF Raise, EndRound, connVars, loopVars, history
    <3>2. at'[RF] = "setup" => at[RF] = "setup"
      BY <1>0, <3>1
    <3> QED BY <1>2, <3>1, <3>2, SameShrunk
  <2>2. CASE DialFails(t) \/ SetupUndone(t)
    BY <2>1, <2>2 DEF DialFails, SetupUndone
  <2>3. CASE AppStart(t)
    <3>1. /\ at' = [at EXCEPT ![t] = "dial"]
          /\ UNCHANGED <<made, conn, sent, log, new, unread, event, src>>
      BY <2>3 DEF AppStart, connVars, loopVars, history
    <3>2. at'[RF] = "setup" => at[RF] = "setup"
      BY <1>0, <3>1
    <3> QED BY <1>2, <3>1, <3>2, SameShrunk
  <2>4. CASE Dialed(t)
    <3>1. /\ made' = made + 1 /\ at' = [at EXCEPT ![t] = "setup"] /\ at[t] # "out"
          /\ new' = [new EXCEPT ![t] = made + 1]
          /\ UNCHANGED <<conn, unread, sent, log, event, src>>
      BY <2>4 DEF Dialed, loopVars, history
    <3>2. ASSUME "shared" \notin usage, NEW i \in Conn, Reads(i)' PROVE Reads(i) \/ i > made
      <4>1. t = RF
        BY <1>0, <3>1, <3>2
      <4>2. new'[RF] = made + 1
        BY <1>0, <3>1, <4>1
      <4> QED BY <1>0, <3>1, <3>2, <4>2 DEF Reads
    <3> QED BY <1>0, <1>1, <3>1, <3>2, SameShrunk
  <2>5. CASE SetupStep(t) /\ step[t] = Len(Setup)
    <3>1. /\ at[t] = "setup" /\ conn' = new[t] /\ at' = [at EXCEPT ![t] = "out"]
          /\ UNCHANGED <<made, new, unread, sent, log, event, src>>
      BY <2>5 DEF SetupStep, Established, loopVars, history
    <3>2. ASSUME "shared" \notin usage, NEW i \in Conn, Reads(i)' PROVE Reads(i)
      <4>1. t = RF
        BY <1>0, <3>1, <3>2
      <4> QED BY <1>0, <3>1, <3>2, <4>1 DEF Reads
    <3> QED BY <1>0, <1>1, <3>1, <3>2, SameShrunk
  <2>6. CASE SetupStep(t) /\ step[t] # Len(Setup)
    BY <1>2, <2>6, SameShrunk DEF SetupStep, loopVars, history
  <2>7. CASE SetupFails(t)
    <3>1. /\ at[t] = "setup" /\ CloseConn(new[t]) /\ at' = [at EXCEPT ![t] = "undo"]
          /\ UNCHANGED <<made, conn, sent, log, new, event, src>>
      BY <2>7 DEF SetupFails, SetupAborted, loopVars, history
    <3>2. at'[RF] = "setup" => at[RF] = "setup"
      BY <1>0, <3>1
    <3>3. Shrunk
      BY <3>1, NewTypes, CloseConnProperties
    <3> QED BY <1>2, <3>1, <3>2, <3>3
  <2> QED BY <1>3, <2>2, <2>3, <2>4, <2>5, <2>6, <2>7 DEF StartStep
<1>4. CASE RoundResumes \/ ReadyDone
  <2>1. event' = NoEvent /\ UNCHANGED <<made, conn, sent, log, new, at, unread>>
    BY <1>0, <1>4 DEF RoundResumes, ReadyDone, connVars, startVars, history
  <2> QED BY <1>2, <2>1, SameShrunk
<1>5. CASE RoundStarts
  <2>1. /\ at' = [at EXCEPT ![RF] = "dial"]
        /\ UNCHANGED <<made, conn, sent, log, new, unread, event, src>>
    BY <1>5 DEF RoundStarts, connVars, history
  <2>2. at'[RF] = "dial"
    BY <1>0, <2>1
  <2> QED BY <1>2, <2>1, <2>2, SameShrunk
<1>6. CASE Stops \/ Wake \/ Dispatched
  BY <1>2, <1>6, SameShrunk DEF Stops, Wake, Dispatched, connVars, startVars, history
<1>7. CASE ReadyRaises \/ EventsEnd
  BY <1>2, <1>7, SameShrunk DEF ReadyRaises, EventsEnd, EndRound, connVars, startVars
<1>8. CASE NextEvent
  BY <1>8, QueueNext
<1>9. CASE RunHandler
  BY <1>9, QueueRun
<1>10. CASE CancelRun
  <2>1. Shrunk
    <3>1. CASE at[RF] = "setup"
      BY <1>0, <1>10, <3>1, NewTypes, CloseConnProperties DEF CancelRun
    <3>2. CASE at[RF] # "setup"
      BY <1>10, <3>2, SameShrunk DEF CancelRun
    <3> QED BY <3>1, <3>2
  <2>2. /\ at' = [at EXCEPT ![RF] = "out"] /\ event' = NoEvent
        /\ UNCHANGED <<made, conn, sent, log, new>>
    BY <1>10 DEF CancelRun, history
  <2>3. at'[RF] = "out"
    BY <1>0, <2>2
  <2> QED BY <1>2, <2>1, <2>2, <2>3
<1>11. CASE Close
  <2>1. Shrunk
    <3>1. CASE conn = NoConn
      BY <1>11, <3>1, SameShrunk DEF Close
    <3>2. CASE conn # NoConn
      BY <1>11, <3>2, QueueTypes, CloseConnProperties DEF Close
    <3> QED BY <3>1, <3>2
  <2> QED BY <1>2, <1>11, <2>1 DEF Close, startVars, loopVars, history
<1>12. ASSUME NEW i \in Conn, ConnectionLost(i) PROVE QueueInv'
  BY <1>2, <1>12, CloseConnProperties DEF ConnectionLost, startVars, loopVars, history
<1>13. ASSUME NEW i \in Conn, EventArrives(i) PROVE QueueInv'
  BY <1>13, QueueArrival
<1>14. CASE UNCHANGED vars
  BY <1>2, <1>14, SameShrunk DEF vars, connVars, startVars, loopVars, history
<1> QED
  BY <1>3, <1>4, <1>5, <1>6, <1>7, <1>8, <1>9, <1>10, <1>11, <1>12, <1>13, <1>14 DEF Next, RunStep

\* What touches the event, the handlers that are left or the log: taking an
\* event, running a handler, and what ends the event.
LEMMA DispatchKept ==
    ASSUME ClientTypeOK, [Next]_vars, ~NextEvent, ~RunHandler
    PROVE  /\ log' = log
           /\ rf' = "dispatch" => UNCHANGED <<rf, src, event, todo>>
           /\ event' \in {event, NoEvent}
           /\ rf = "done" => rf' = "done" /\ event' = event
           /\ event' # event => rf = "dispatch" /\ (Dispatched \/ rf' = "done")
<1>0. /\ at[RF] = "out" <=> rf # "starting"
      /\ rf # "dispatch" => event = NoEvent
  BY DEF ClientTypeOK, LoopTypeOK
<1>1. ASSUME NEW error, EndRound(error), rf \notin {"done", "dispatch"}
      PROVE  log' = log /\ rf' # "dispatch" /\ event' = event
  BY <1>0, <1>1 DEF EndRound
<1>2. ASSUME NEW t \in Task, StartStep(t) \/ AppStart(t)
      PROVE  \/ UNCHANGED <<log, rf, src, event, todo>>
             \/ log' = log /\ rf = "starting" /\ rf' # "dispatch" /\ event' = event
  <2>1. ASSUME NEW error, Raise(t, error), at[t] # "out"
        PROVE  \/ UNCHANGED <<log, rf, src, event, todo>>
               \/ log' = log /\ rf = "starting" /\ rf' # "dispatch" /\ event' = event
    BY <1>0, <1>1, <2>1 DEF Raise, loopVars, history
  <2>2. CASE DialFails(t) \/ SetupUndone(t)
    BY <2>1, <2>2 DEF DialFails, SetupUndone
  <2>3. CASE SetupStep(t)
    BY <1>0, <2>3 DEF SetupStep, Established, loopVars, history
  <2>4. CASE AppStart(t) \/ Dialed(t) \/ SetupFails(t)
    BY <2>4 DEF AppStart, Dialed, SetupFails, loopVars, history
  <2> QED BY <1>2, <2>2, <2>3, <2>4 DEF StartStep
<1>3. CASE RoundStarts \/ RoundResumes \/ Stops \/ Wake \/ ReadyDone
  BY <1>3 DEF RoundStarts, RoundResumes, Stops, Wake, ReadyDone, history
<1>4. CASE ReadyRaises \/ EventsEnd
  BY <1>0, <1>1, <1>4 DEF ReadyRaises, EventsEnd
<1>5. CASE Dispatched
  BY <1>5 DEF Dispatched, history
<1>6. CASE CancelRun
  BY <1>0, <1>6 DEF CancelRun, history
<1>7. CASE Close \/ UNCHANGED vars
  BY <1>7 DEF Close, vars, loopVars, history
<1>8. ASSUME NEW i \in Conn, ConnectionLost(i) \/ EventArrives(i)
      PROVE  UNCHANGED <<log, rf, src, event, todo>>
  BY <1>8 DEF ConnectionLost, EventArrives, loopVars, history
<1> QED BY <1>2, <1>3, <1>4, <1>5, <1>6, <1>7, <1>8 DEF Next, RunStep

\* The lengths that Ran is made of.
LEMMA RanTypes ==
    ASSUME ClientTypeOK, rf = "dispatch"
    PROVE  /\ event \in Event /\ event.name \in EventName
           /\ Handlers(event.name) \in Seq(Handler) /\ Len(Handlers(event.name)) \in Nat
           /\ todo \in Seq(Handler) /\ Len(todo) \in Nat
           /\ log \in Seq(Run) /\ Len(log) \in Nat
           /\ Ran \in Int
<1>1. event \in Event /\ event.name \in EventName /\ todo \in Seq(Handler) /\ log \in Seq(Run)
  BY DEF ClientTypeOK, LoopTypeOK, Event, Run
<1>2. Handlers(event.name) \in Seq(Handler)
  BY <1>1, HandlersProperties
<1> QED BY <1>1, <1>2, LenProperties DEF Ran

LEMMA DispatchStep ==
    ASSUME ClientTypeOK, AloneInv, QueueInv, DispatchInv, [Next]_vars
    PROVE  DispatchInv'
<1>0. usage' = usage
  BY UsageKept
<1>1. CASE NextEvent
  <2>1. /\ src \in Conn /\ unread[src] # <<>> /\ event' = Head(unread[src])
        /\ todo' = Handlers(event'.name) /\ log' = log /\ rf = "events" /\ src' = src
    BY <1>1, QueueTypes DEF NextEvent, ClientTypeOK, LoopTypeOK, history
  <2>2. event' = unread[src][1] /\ 1 \in 1 .. Len(unread[src]) /\ event' \in Event
    <3>1. unread[src] \in Seq(Event)
      BY <2>1, QueueTypes
    <3> QED BY <2>1, <3>1, HeadTailProperties, EmptySeq
  <2>3. Handlers(event'.name) \in Seq(Handler) /\ Len(Handlers(event'.name)) \in Nat
    BY <2>2, HandlersProperties, LenProperties DEF Event
  <2>4. Ran' = 0
    BY <2>1, <2>3 DEF Ran
  <2>5. ASSUME NEW j \in 1 .. Len(log)
        PROVE  /\ log[j].n # event'.n
               /\ log[j].c = src \/ "shared" \notin usage => log[j].n < event'.n
    <3>1. Behind(src)
      BY <2>1 DEF QueueInv
    <3>2. "shared" \notin usage => Later(src)
      BY <2>1 DEF QueueInv, AloneInv, Reads
    <3> QED BY <2>2, <3>1, <3>2 DEF Behind, Later
  <2>6. Len(log) \in Nat
    BY QueueTypes
  <2>7. \A i \in 1 .. Len(todo') : todo'[i] = Handlers(event'.name)[0 + i]
    BY <2>1, <2>3
  <2> QED BY <1>0, <2>1, <2>4, <2>5, <2>6, <2>7 DEF DispatchInv
<1>2. CASE RunHandler
  <2> DEFINE hs == Handlers(event.name)
             run == Entry(Head(todo))
  <2>1. /\ rf = "dispatch" /\ rf' = "dispatch" /\ todo # <<>> /\ todo' = Tail(todo)
        /\ event' = event /\ src' = src /\ log' = Append(log, run)
    BY <1>2 DEF RunHandler, AfterHandler, Entry
  <2>2. /\ Ran \in 0 .. Len(log)
        /\ \A i \in 1 .. Len(todo) : todo[i] = hs[Ran + i]
        /\ \A i \in 1 .. Ran : log[Len(log) - Ran + i] = Entry(hs[i])
        /\ \A j \in 1 .. Len(log) - Ran :
              /\ log[j].n # event.n
              /\ log[j].c = src \/ "shared" \notin usage => log[j].n < event.n
    BY <2>1 DEF DispatchInv
  <2>3. /\ event \in Event /\ todo \in Seq(Handler) /\ Len(todo) \in Nat
        /\ log \in Seq(Run) /\ Len(log) \in Nat /\ hs \in Seq(Handler) /\ Len(hs) \in Nat
    BY <2>1, RanTypes
  <2>4. /\ Len(todo) > 0 /\ Head(todo) = todo[1] /\ Head(todo) \in Handler
        /\ Len(todo') = Len(todo) - 1 /\ \A i \in 1 .. Len(todo') : todo'[i] = todo[i + 1]
    BY <2>1, <2>3, HeadTailProperties, EmptySeq
  <2>5. run \in Run
    BY <2>1, HeadTypes
  <2> HIDE DEF run
  <2>6. /\ Len(log') = Len(log) + 1 /\ log'[Len(log) + 1] = run
        /\ \A j \in 1 .. Len(log) : log'[j] = log[j]
    BY <2>1, <2>3, <2>5, AppendProperties
  <2>7. Ran' = Ran + 1 /\ Ran = Len(hs) - Len(todo)
    BY <2>1, <2>3, <2>4 DEF Ran
  <2> HIDE DEF hs
  <2>8. Ran' \in 0 .. Len(log') /\ Len(log') - Ran' = Len(log) - Ran
    BY <2>2, <2>3, <2>6, <2>7
  <2>9. ASSUME NEW i \in 1 .. Len(todo') PROVE todo'[i] = hs[Ran' + i]
    <3>1. i + 1 \in 1 .. Len(todo) /\ Ran + (i + 1) = Ran' + i
      BY <2>2, <2>3, <2>4, <2>7
    <3> QED BY <2>2, <2>4, <3>1
  <2>10. ASSUME NEW i \in 1 .. Ran'
         PROVE  log'[Len(log') - Ran' + i] = Entry(hs[i])
    <3>1. CASE i \in 1 .. Ran
      <4>1. Len(log') - Ran' + i = Len(log) - Ran + i /\ Len(log) - Ran + i \in 1 .. Len(log)
        BY <2>2, <2>3, <2>8, <3>1
      <4> QED BY <2>2, <2>6, <3>1, <4>1
    <3>2. CASE i = Ran + 1
      <4>1. Len(log') - Ran' + i = Len(log) + 1 /\ 1 \in 1 .. Len(todo)
        BY <2>2, <2>3, <2>4, <2>8, <3>2
      <4>2. todo[1] = hs[Ran + 1]
        BY <2>2, <4>1
      <4> QED BY <2>4, <2>6, <3>2, <4>1, <4>2 DEF run
    <3>3. i \in 1 .. Ran \/ i = Ran + 1
      <4>1. i \in 1 .. Ran + 1 /\ Ran \in Nat
        BY <2>2, <2>3, <2>7
      <4> QED BY <4>1
    <3> QED BY <3>1, <3>2, <3>3
  <2>11. ASSUME NEW j \in 1 .. Len(log') - Ran'
         PROVE  /\ log'[j].n # event.n
                /\ log'[j].c = src \/ "shared" \notin usage => log'[j].n < event.n
    <3>1. j \in 1 .. Len(log) - Ran
      BY <2>8
    <3>2. j \in 1 .. Len(log)
      BY <2>2, <2>3, <3>1
    <3> QED BY <2>2, <2>6, <3>1, <3>2
  <2>12. \A h : Entry(h)' = Entry(h)
    BY <2>1 DEF Entry
  <2> QED BY <1>0, <2>1, <2>8, <2>9, <2>10, <2>11, <2>12 DEF DispatchInv, hs
<1>3. CASE ~NextEvent /\ ~RunHandler
  <2>1. log' = log /\ (rf' = "dispatch" => UNCHANGED <<rf, src, event, todo>>)
    BY <1>3, DispatchKept
  <2> QED BY <1>0, <2>1 DEF DispatchInv, Ran, Entry
<1> QED BY <1>1, <1>2, <1>3

\* The handlers of an event are in order, and none is missing.
LEMMA HandlersOrdered ==
    ASSUME NEW name \in EventName
    PROVE  /\ \A i, j \in 1 .. Len(Handlers(name)) :
                 i < j => RunsBefore(Handlers(name)[i], Handlers(name)[j])
           /\ \A other \in {name, AnyEvent} : \A h \in 1 .. HandlerCount[other] :
                 \E i \in 1 .. Len(Handlers(name)) : Handlers(name)[i] = [name |-> other, i |-> h]
<1> DEFINE hs == Handlers(name)
           own == HandlerCount[name]
           any == HandlerCount[AnyEvent]
<1>1. /\ own \in Nat /\ any \in Nat /\ Len(hs) = own + any /\ name # AnyEvent
      /\ \A i \in 1 .. own : hs[i] = [name |-> name, i |-> i]
      /\ \A i \in 1 .. any : hs[own + i] = [name |-> AnyEvent, i |-> i]
  BY HandlersProperties, DelayFacts
<1> HIDE DEF hs, own, any
<1>2. ASSUME NEW i \in 1 .. own + any, i \notin 1 .. own
      PROVE  i - own \in 1 .. any /\ hs[i] = [name |-> AnyEvent, i |-> i - own]
  <2>1. i - own \in 1 .. any /\ own + (i - own) = i
    BY <1>1, <1>2
  <2>2. hs[own + (i - own)] = [name |-> AnyEvent, i |-> i - own]
    BY <1>1, <2>1
  <2> QED BY <2>1, <2>2
<1>3. ASSUME NEW i \in 1 .. Len(hs), NEW j \in 1 .. Len(hs), i < j
      PROVE  RunsBefore(hs[i], hs[j])
  <2>1. CASE j \in 1 .. own
    <3>1. i \in 1 .. own
      BY <1>1, <1>3, <2>1
    <3>2. hs[i] = [name |-> name, i |-> i] /\ hs[j] = [name |-> name, i |-> j]
      BY <1>1, <2>1, <3>1
    <3> QED BY <1>3, <3>2 DEF RunsBefore
  <2>2. CASE i \in 1 .. own /\ j \notin 1 .. own
    <3>1. hs[i] = [name |-> name, i |-> i]
      BY <1>1, <2>2
    <3>2. j \in 1 .. own + any
      BY <1>1
    <3>3. hs[j] = [name |-> AnyEvent, i |-> j - own]
      BY <1>2, <2>2, <3>2
    <3> QED BY <1>1, <3>1, <3>3 DEF RunsBefore
  <2>3. CASE i \notin 1 .. own /\ j \notin 1 .. own
    <3>1. /\ hs[i] = [name |-> AnyEvent, i |-> i - own]
          /\ hs[j] = [name |-> AnyEvent, i |-> j - own]
      BY <1>1, <1>2, <2>3
    <3>2. i - own < j - own
      BY <1>1, <1>3
    <3> QED BY <3>1, <3>2 DEF RunsBefore
  <2>4. i \notin 1 .. own => j \notin 1 .. own
    BY <1>1, <1>3
  <2> QED BY <2>1, <2>2, <2>3, <2>4
<1>4. ASSUME NEW h \in 1 .. own PROVE \E i \in 1 .. Len(hs) : hs[i] = [name |-> name, i |-> h]
  <2>1. h \in 1 .. Len(hs)
    BY <1>1
  <2> QED BY <1>1, <2>1
<1>5. ASSUME NEW h \in 1 .. any PROVE \E i \in 1 .. Len(hs) : hs[i] = [name |-> AnyEvent, i |-> h]
  <2>1. own + h \in 1 .. Len(hs)
    BY <1>1
  <2>2. hs[own + h] = [name |-> AnyEvent, i |-> h]
    BY <1>1
  <2> QED BY <2>1, <2>2
<1>6. ASSUME NEW other \in {name, AnyEvent}, NEW h \in 1 .. HandlerCount[other]
      PROVE  \E i \in 1 .. Len(hs) : hs[i] = [name |-> other, i |-> h]
  BY <1>4, <1>5 DEF own, any
<1> QED BY <1>3, <1>6 DEF hs

\* The parts of HandlersInOrder: two runs are in order, and all the handlers
\* of a run's event have run.
InOrder(i, j) ==
    \/ log[i].n < log[j].n
    \/ log[i].n = log[j].n /\ RunsBefore(log[i].h, log[j].h)
    \/ "shared" \in usage /\ log[i].c # log[j].c
Complete(i) ==
    \A name \in {log[i].name, AnyEvent} : \A h \in 1 .. HandlerCount[name] :
       \E j \in DOMAIN log : log[j].n = log[i].n /\ log[j].h = [name |-> name, i |-> h]

LEMMA OrderParts ==
    /\ HandlersInOrder <=>
          /\ \A i, j \in DOMAIN log : i < j => InOrder(i, j)
          /\ \A i \in DOMAIN log : Over(log[i].n) => Complete(i)
    /\ HandlersInOrder' <=>
          /\ \A i, j \in DOMAIN log' : i < j => InOrder(i, j)'
          /\ \A i \in DOMAIN log' : Over(log[i].n)' => Complete(i)'
BY DEF HandlersInOrder, InOrder, Complete

\* A handler that runs runs after those that ran for its event.
LEMMA OrderRun ==
    ASSUME ClientTypeOK, DispatchInv, HandlersInOrder, RunHandler
    PROVE  HandlersInOrder'
<1> DEFINE hs == Handlers(event.name)
           run == Entry(Head(todo))
<1>1. /\ rf = "dispatch" /\ rf' = "dispatch" /\ todo # <<>> /\ event' = event /\ usage' = usage
      /\ log' = Append(log, run)
  BY DEF RunHandler, Entry, connVars
<1>2. /\ event \in Event /\ event.name \in EventName /\ todo \in Seq(Handler) /\ Len(todo) \in Nat
      /\ log \in Seq(Run) /\ Len(log) \in Nat /\ hs \in Seq(Handler) /\ Len(hs) \in Nat
      /\ Ran = Len(hs) - Len(todo)
  BY <1>1, RanTypes DEF Ran
<1>3. /\ Ran \in 0 .. Len(log)
      /\ \A i \in 1 .. Len(todo) : todo[i] = hs[Ran + i]
      /\ \A i \in 1 .. Ran : log[Len(log) - Ran + i] = Entry(hs[i])
      /\ \A j \in 1 .. Len(log) - Ran :
            log[j].c = src \/ "shared" \notin usage => log[j].n < event.n
  BY <1>1 DEF DispatchInv
<1>4. Len(todo) > 0 /\ Head(todo) = todo[1] /\ Head(todo) \in Handler
  BY <1>1, <1>2, HeadTailProperties, EmptySeq
<1>5. run \in Run /\ run.n = event.n /\ run.c = src /\ run.h = Head(todo)
  BY <1>1, HeadTypes DEF Entry
<1>6. \A i, j \in 1 .. Len(hs) : i < j => RunsBefore(hs[i], hs[j])
  BY <1>2, HandlersOrdered
<1> HIDE DEF run, hs
<1>7. /\ DOMAIN log = 1 .. Len(log) /\ DOMAIN log' = 1 .. Len(log) + 1
      /\ log'[Len(log) + 1] = run
      /\ \A j \in 1 .. Len(log) : log'[j] = log[j]
  <2>1. log' \in Seq(Run) /\ Len(log') = Len(log) + 1
    BY <1>1, <1>2, <1>5, AppendProperties
  <2>2. log'[Len(log) + 1] = run /\ \A j \in 1 .. Len(log) : log'[j] = log[j]
    BY <1>1, <1>2, <1>5, AppendProperties
  <2> QED BY <1>2, <2>1, <2>2, LenProperties
<1>8. ASSUME NEW i \in 1 .. Len(log)
      PROVE  \/ log[i].n < run.n
             \/ log[i].n = run.n /\ RunsBefore(log[i].h, run.h)
             \/ "shared" \in usage /\ log[i].c # run.c
  <2>1. CASE i \in 1 .. Len(log) - Ran
    BY <1>3, <1>5, <2>1
  <2>2. CASE i \notin 1 .. Len(log) - Ran
    <3> DEFINE k == i - (Len(log) - Ran)
    <3>1. k \in 1 .. Ran /\ Len(log) - Ran + k = i
      BY <1>2, <1>3, <2>2
    <3>2. k \in 1 .. Len(hs) /\ Ran + 1 \in 1 .. Len(hs) /\ k < Ran + 1 /\ 1 \in 1 .. Len(todo)
      BY <1>2, <1>3, <1>4, <3>1
    <3> HIDE DEF k
    <3>3. log[i].n = event.n /\ log[i].h = hs[k]
      <4>1. log[i] = Entry(hs[k])
        BY <1>3, <3>1
      <4> QED BY <4>1, EntryFields
    <3>4. run.h = hs[Ran + 1]
      BY <1>3, <1>4, <1>5, <3>2
    <3>5. RunsBefore(hs[k], hs[Ran + 1])
      BY <1>6, <3>2
    <3> QED BY <1>5, <3>3, <3>4, <3>5
  <2> QED BY <2>1, <2>2
<1>9. ASSUME NEW i \in DOMAIN log', NEW j \in DOMAIN log', i < j PROVE InOrder(i, j)'
  <2>1. i \in 1 .. Len(log) /\ (j \in 1 .. Len(log) \/ j = Len(log) + 1)
    BY <1>2, <1>7, <1>9
  <2>2. CASE j \in 1 .. Len(log)
    <3>1. InOrder(i, j)
      BY <1>7, <1>9, <2>1, <2>2, OrderParts
    <3> QED BY <1>1, <1>7, <2>1, <2>2, <3>1 DEF InOrder
  <2>3. CASE j = Len(log) + 1
    BY <1>1, <1>7, <1>8, <2>1, <2>3 DEF InOrder
  <2> QED BY <2>1, <2>2, <2>3
<1>10. ASSUME NEW i \in DOMAIN log', Over(log[i].n)' PROVE Complete(i)'
  <2>1. log'[i].n # event.n
    BY <1>1, <1>10 DEF Over
  <2>2. i \in 1 .. Len(log)
    BY <1>2, <1>5, <1>7, <2>1
  <2>3. Over(log[i].n)
    BY <1>1, <1>7, <2>1, <2>2 DEF Over
  <2>4. Complete(i)
    BY <1>7, <2>2, <2>3, OrderParts
  <2>5. log'[i] = log[i] /\ \A j \in DOMAIN log : j \in DOMAIN log' /\ log'[j] = log[j]
    BY <1>2, <1>7, <2>2
  <2> QED BY <2>4, <2>5 DEF Complete
<1> QED BY <1>9, <1>10, OrderParts

\* An event that ends has run all its handlers, or is cut short by the end
\* of the loop.
LEMMA OrderStep ==
    ASSUME ClientTypeOK, DispatchInv, HandlersInOrder, [Next]_vars
    PROVE  HandlersInOrder'
<1>1. CASE RunHandler
  BY <1>1, OrderRun
<1>2. CASE ~RunHandler
  <2>1. log' = log /\ log \in Seq(Run)
    <3>1. CASE NextEvent
      BY <3>1 DEF NextEvent, history, ClientTypeOK, LoopTypeOK, Run
    <3>2. CASE ~NextEvent
      BY <1>2, <3>2, DispatchKept DEF ClientTypeOK, LoopTypeOK, Run
    <3> QED BY <3>1, <3>2
  <2>2. DOMAIN log = 1 .. Len(log) /\ Len(log) \in Nat /\ \A i \in DOMAIN log : log[i].n \in Nat \ {0}
    <3> DEFINE q == log
    <3>1. q \in Seq(Run)
      BY <2>1
    <3> HIDE DEF q
    <3>2. Len(q) \in Nat /\ q \in [1 .. Len(q) -> Run] /\ DOMAIN q = 1 .. Len(q)
      BY <3>1, LenProperties
    <3>3. \A i \in DOMAIN q : q[i].n \in Nat \ {0}
      BY <3>2 DEF Run
    <3> QED BY <3>2, <3>3 DEF q
  <2>3. \A i, j \in DOMAIN log : InOrder(i, j)' <=> InOrder(i, j)
    BY <2>1, UsageKept DEF InOrder
  <2>4. \A i \in DOMAIN log : Complete(i)' <=> Complete(i)
    BY <2>1 DEF Complete
  <2>5. ASSUME NEW i \in DOMAIN log, Over(log[i].n)', ~Over(log[i].n) PROVE Complete(i)
    <3> DEFINE n == log[i].n
    <3>1. n # event'.n /\ (rf' = "done" => n # log[Len(log)].n)
      BY <2>1, <2>5 DEF Over
    <3>2. n = event.n \/ (rf = "done" /\ n = log[Len(log)].n)
      BY <2>5 DEF Over
    <3>3. CASE NextEvent
      <4>1. rf = "events" /\ event = NoEvent
        BY <3>3 DEF NextEvent, ClientTypeOK, LoopTypeOK
      <4> QED BY <2>2, <3>2, <4>1 DEF NoEvent
    <3>4. CASE ~NextEvent
      <4>1. rf # "done" /\ n = event.n /\ rf = "dispatch" /\ (Dispatched \/ rf' = "done")
        BY <1>2, <3>1, <3>2, <3>4, DispatchKept
      <4> DEFINE hs == Handlers(event.name)
      <4>2. /\ event \in Event /\ event.name \in EventName /\ Len(todo) \in Nat
            /\ Len(hs) \in Nat /\ Ran = Len(hs) - Len(todo)
        BY <4>1, RanTypes DEF Ran
      <4>3. /\ Ran \in 0 .. Len(log)
            /\ \A k \in 1 .. Ran : log[Len(log) - Ran + k] = Entry(hs[k])
            /\ \A j \in 1 .. Len(log) - Ran : log[j].n # event.n
        BY <4>1 DEF DispatchInv
      <4>4. \A other \in {event.name, AnyEvent} : \A h \in 1 .. HandlerCount[other] :
               \E k \in 1 .. Len(hs) : hs[k] = [name |-> other, i |-> h]
        BY <4>2, HandlersOrdered
      <4> HIDE DEF hs
      <4>5. i - (Len(log) - Ran) \in 1 .. Ran /\ log[i].name = event.name
        <5>1. i \notin 1 .. Len(log) - Ran
          BY <4>1, <4>3
        <5>2. i - (Len(log) - Ran) \in 1 .. Ran /\ Len(log) - Ran + (i - (Len(log) - Ran)) = i
          BY <2>2, <4>3, <5>1
        <5>3. log[i].name = event.name
          <6>1. log[i] = Entry(hs[i - (Len(log) - Ran)])
            BY <4>3, <5>2
          <6> QED BY <6>1, EntryFields
        <5> QED BY <5>2, <5>3
      <4>6. Ran \in 1 .. Ran /\ Len(log) - Ran + Ran = Len(log)
        BY <2>2, <4>3, <4>5
      <4>7. rf' # "done"
        <5>1. log[Len(log) - Ran + Ran].n = event.n
          <6>1. log[Len(log) - Ran + Ran] = Entry(hs[Ran])
            BY <4>3, <4>6
          <6> QED BY <6>1, EntryFields
        <5> QED BY <3>1, <4>1, <4>6, <5>1
      <4>8. Ran = Len(hs)
        <5>1. todo = <<>>
          BY <4>1, <4>7 DEF Dispatched
        <5> QED BY <4>2, <5>1, EmptySeq
      <4>9. ASSUME NEW other \in {log[i].name, AnyEvent}, NEW h \in 1 .. HandlerCount[other]
            PROVE  \E j \in DOMAIN log :
                      log[j].n = log[i].n /\ log[j].h = [name |-> other, i |-> h]
        <5>1. PICK k \in 1 .. Len(hs) : hs[k] = [name |-> other, i |-> h]
          BY <4>4, <4>5
        <5>2. Len(log) - Ran + k \in DOMAIN log
          BY <2>2, <4>3, <4>8
        <5>3. log[Len(log) - Ran + k].n = event.n /\ log[Len(log) - Ran + k].h = hs[k]
          <6>1. log[Len(log) - Ran + k] = Entry(hs[k])
            BY <4>3, <4>8
          <6> QED BY <6>1, EntryFields
        <5> QED BY <4>1, <5>1, <5>2, <5>3
      <4> QED BY <4>9 DEF Complete
    <3> QED BY <3>3, <3>4
  <2> QED BY <2>1, <2>3, <2>4, <2>5, OrderParts
<1> QED BY <1>1, <1>2

-----------------------------------------------------------------------------
(* The theorems *)

LEMMA ClientInvInit == Init => ClientInv
<1> SUFFICES ASSUME Init PROVE ClientInv
  OBVIOUS
<1>1. ClientTypeOK
  BY ClientTypeInit
<1>2. Len(log) = 0 /\ \A i \in Conn : Len(unread[i]) = 0
  BY EmptySeq DEF Init
<1>3. AloneInv /\ ServedInv /\ StoppedInv
  BY DEF Init, AloneInv, ServedInv, StoppedInv, Connected, Task
<1>4. DelayInv
  BY BackoffProperties, DelayFacts DEF Init, DelayInv, Backoff
<1>5. \A i \in Conn : Sorted(i) /\ Behind(i) /\ Later(i) /\ \A l \in Conn : Apart(i, l)
  BY <1>2 DEF Sorted, Behind, Later, Apart
<1>6. QueueInv
  BY <1>2, <1>5 DEF Init, QueueInv, NoEvent
<1>7. DispatchInv
  BY DEF Init, DispatchInv
<1>8. HandlersInOrder
  BY DEF Init, HandlersInOrder
<1> QED BY <1>1, <1>3, <1>4, <1>6, <1>7, <1>8 DEF ClientInv, LogInv

LEMMA ClientInvStep == ClientInv /\ [Next]_vars => ClientInv'
<1> SUFFICES ASSUME ClientInv, [Next]_vars PROVE ClientInv'
  OBVIOUS
<1>1. ClientTypeOK' /\ AloneInv' /\ ServedInv' /\ StoppedInv' /\ DelayInv'
  BY ClientTypeStep, AloneStep, ServedStep, StoppedStep, DelayStep DEF ClientInv
<1>2. QueueInv' /\ DispatchInv' /\ HandlersInOrder'
  BY QueueStep, DispatchStep, OrderStep DEF ClientInv, LogInv
<1> QED BY <1>1, <1>2 DEF ClientInv, LogInv

\* The inductive invariant of run_forever(), start() and close() (lines
\* 130-194 and 244-300): whose the open connections are, how long the next
\* sleep is, and in which order events are unread, dispatched and run.
THEOREM ClientInvariant == Spec => []ClientInv
BY ClientInvInit, ClientInvStep, PTL DEF Spec

\* The state stays well formed: no queue of unread events outgrows
\* event_queue_size, and run_forever() is in start() just when it awaits it.
THEOREM ClientTypes == Spec => []ClientTypeOK
<1>1. ClientInv => ClientTypeOK
  BY DEF ClientInv
<1> QED BY <1>1, ClientInvariant, PTL

\* No connection leaks from start(), close() or the loop, if nobody but
\* run_forever() connects.
THEOREM NoOrphans == Spec => []NoOrphan
<1>1. ClientInv => NoOrphan
  <2> SUFFICES ASSUME ClientInv, "shared" \notin usage, NEW i \in open, i # conn
               PROVE  \E t \in Task : at[t] = "setup" /\ new[t] = i
    BY DEF NoOrphan
  <2>1. RF \in Task /\ at[RF] \in {"out", "dial", "setup", "undo"}
    BY DEF Task, ClientInv, ClientTypeOK, StartTypeOK
  <2> QED BY <2>1 DEF ClientInv, AloneInv
<1> QED BY <1>1, ClientInvariant, PTL

\* The delay of run_forever() is InitialDelay doubled once per failure since
\* the last successful start(), and at most MaxDelay.
THEOREM BackoffFollowed == Spec => []Backoff
<1>1. ClientInv => Backoff
  BY DEF ClientInv, DelayInv
<1> QED BY <1>1, ClientInvariant, PTL

\* Handlers run one event at a time, in the order the events came, in the
\* order of their registration, and none is left out; over reconnects too.
\* If other tasks call start(), that is so of the events of each connection.
THEOREM HandlersRunInOrder == Spec => []HandlersInOrder
<1>1. ClientInv => HandlersInOrder
  BY DEF ClientInv, LogInv
<1> QED BY <1>1, ClientInvariant, PTL

\* run_forever() only sleeps when the connection is lost, if nobody else
\* connects and on_ready does not raise.
THEOREM SleepsOnlyLost == Spec => []SleepsOnlyWhenLost
<1>1. ClientInv => SleepsOnlyWhenLost
  BY DEF ClientInv, ServedInv, SleepsOnlyWhenLost, SleepsWhenLost
<1> QED BY <1>1, ClientInvariant, PTL

\* No handler sees an event of a connection before on_ready has completed
\* on it, on the same condition.
THEOREM ReadyFirst == Spec => []ReadyBeforeEvents
<1>1. ClientInv => ReadyBeforeEvents
  BY DEF ClientInv, ServedInv, ReadyBeforeEvents
<1> QED BY <1>1, ClientInvariant, PTL

\* A client that was closed does not serve a live connection, if nobody else
\* connects and close() does not come while start() is in progress.
THEOREM ClosedStays == Spec => []ClosedStaysDisconnected
<1>1. ClientInv => ClosedStaysDisconnected
  BY DEF ClientInv, StoppedInv, ClosedStaysDisconnected, ClosedMeansDisconnected
<1> QED BY <1>1, ClientInvariant, PTL
=============================================================================

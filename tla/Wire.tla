-------------------------------- MODULE Wire --------------------------------
(***************************************************************************)
(* One command exchange after the other, over the wire: the caller's       *)
(* arguments are rendered to a line, the server reads it and answers with  *)
(* lines of its own, notifications between them; the network hands them on *)
(* in chunks of any length; SshTransport.read_line() cuts lines out of the *)
(* chunks, _recv_loop() sorts them, _exec_line() and the typed wrappers    *)
(* make of them what the caller gets.                                      *)
(*                                                                         *)
(* RawConnection has the other half: several callers, timeouts,            *)
(* cancellation and the end of a session.  Here one caller asks at a time. *)
(***************************************************************************)
EXTENDS Protocol, Commands

CONSTANTS
    Char,        (* the characters of texts                                 *)
    Call,        (* the calls that may be made                              *)
    Event,       (* notifications the server sends, as [name, rows]         *)
    Answers,     (* by command: the [rows, end] it may be answered with     *)
    ReadChunk,   (* _READ_CHUNK                                             *)
    MaxUnderway  (* bound: messages under way before a notification is sent *)

\* The characters that mean something, and what stands for them.
ASSUME WireAssumption ==
    /\ ReadChunk \in Nat \ {0} /\ MaxUnderway \in Nat
    /\ {"\\", "/", " ", "|", "BEL", "BS", "\f", "\n", "\r", "\t", "VT", "=", "-",
        "s", "p", "a", "b", "f", "n", "r", "t", "v",
        "notify", "error", "id", "msg", "0", "ok"} \subseteq Char

VARIABLES
    outbound,    (* the command line on its way to the server               *)
    inbound,     (* what the server sent and nobody has read                *)
    up,          (* the channel from the server has not ended               *)
    generation,  (* of the server                                           *)
    buffer,      (* _buffer of the transport                                *)
    recv,        (* "greeting", "loop", "closed" or "crashed"               *)
    greeting,    (* _greeting                                               *)
    dialect,     (* _dialect                                                *)
    dataBuf,     (* _data_buffer                                            *)
    call,        (* the call in progress                                    *)
    answer,      (* what it has returned or raised                          *)
    understood,  (* history: what the server read of it                     *)
    meant,       (* history: what the server answered                       *)
    underway,    (* history: messages sent and not yet received             *)
    received     (* history: the message this step received, or None        *)

wireVars == <<outbound, inbound, up, generation>>
readerVars == <<buffer, recv, greeting, dialect, dataBuf>>
callVars == <<call, answer>>
history == <<understood, meant, underway>>
vars == <<wireVars, readerVars, callVars, history, received>>

-----------------------------------------------------------------------------
(* The server, by the ServerQuery manual *)

Manual ==
    [c \in {"\\", "/", " ", "|", "BEL", "BS", "\f", "\n", "\r", "\t", "VT"} |->
        CASE c = "\\" -> "\\" [] c = "/"  -> "/" [] c = " "  -> "s" [] c = "|"  -> "p"
          [] c = "BEL" -> "a" [] c = "BS" -> "b" [] c = "\f" -> "f" [] c = "\n" -> "n"
          [] c = "\r" -> "r" [] c = "\t" -> "t" [] c = "VT" -> "v"]

ServerEscape(text) ==
    FlattenSeq([i \in DOMAIN text |->
        IF text[i] \in DOMAIN Manual THEN <<"\\", Manual[text[i]]>> ELSE <<text[i]>>])

\* A character is the second of a pair if an odd number of backslashes
\* stands before it.
ServerUnescape(word) ==
    LET Run(i) == CHOOSE n \in 0 .. i - 1 :
                     /\ \A k \in i - n .. i - 1 : word[k] = "\\"
                     /\ n < i - 1 => word[i - n - 1] # "\\"
        Second(i) == Run(i) % 2 = 1
        Raw(code) == CHOOSE c \in DOMAIN Manual : Manual[c] = code
    IN FlattenSeq([i \in DOMAIN word |->
           IF Second(i) THEN <<Raw(word[i])>> ELSE IF word[i] = "\\" THEN <<>> ELSE <<word[i]>>])

\* A command: its name, the switches, and the parameters of each segment.
ServerReads(line) ==
    LET words == Tail(Split(line, " "))
        switches == {w \in ToSet(words) : w[1] = "-"}
        segments == Split(Join(Without(words, switches), " "), "|")
        Param(word) == << <<word[1]>>, ServerUnescape(SubSeq(word, 3, Len(word))) >>
    IN [cmd |-> line[1],
        options |-> {w[2] : w \in switches},
        segments |-> [i \in DOMAIN segments |->
                         {Param(word) : word \in ToSet(NonEmpty(Split(segments[i], " ")))}]]

RowText(row) ==
    LET keys == SetToSeq(DOMAIN row)
        Prop(key) == IF row[key] = <<>> THEN key ELSE key \o <<"=">> \o ServerEscape(row[key])
    IN Join([i \in DOMAIN keys |-> Prop(keys[i])], " ")

\* Messages are what the receive loop should make of a line.
DataMessage(rows) == [kind |-> "data", rows |-> rows]
EndMessage(id, msg, extra) == [kind |-> "end", id |-> id, msg |-> msg, extra |-> extra]
Flood(n) ==
    EndMessage(FloodErrorId, <<"client", " ", "is", " ", "flooding">>,
               [key \in {<<"extra_msg">>} |-> <<"please", " ", "wait", " ", n, " ", "second", "s">>])
EventMessage(event) ==
    [kind |-> "event", name |-> <<event.name>>,
     rows |-> IF event.rows = <<>> THEN << <<>> >> ELSE event.rows]

DataLine(rows) == Join([i \in DOMAIN rows |-> RowText(rows[i])], "|")

LineOf(m) ==
    CASE m.kind = "data"  -> DataLine(m.rows)
      [] m.kind = "event" ->
           Join(NonEmpty(<< <<"notify">> \o m.name, DataLine(m.rows) >>), " ")
      [] m.kind = "end"   ->
           Join(NonEmpty(<< <<"error">>, <<"id", "=", m.id>>,
                            <<"msg", "=">> \o ServerEscape(m.msg), RowText(m.extra) >>), " ")

\* "The wire terminator is \n\r", and "servers that terminate with a bare \n"
\* (transport.py:108-111).
Terminator == {<<"\n", "\r">>, <<"\n">>}

Terminated(lines, t) == FlattenSeq([i \in DOMAIN lines |-> lines[i] \o t])

Greeting(g) == << <<"TS3">>, <<IF g = "TS3" THEN Welcome3 ELSE "Welcome to the TeamSpeak ", "...">> >>

Send(messages) ==
    /\ up
    /\ \E t \in Terminator :
         inbound' = inbound \o Terminated([i \in DOMAIN messages |-> LineOf(messages[i])], t)
    /\ underway' = underway \o messages
    /\ UNCHANGED up

\* What it may mean to answer: the parameters it understood, as rows, unless
\* the command has answers of its own.
Meaning(reading) ==
    LET Row(params) == [key \in {p[1] : p \in params} |-> (CHOOSE p \in params : p[1] = key)[2]]
        segments == Without(reading.segments, {{}})
        echo == [i \in DOMAIN segments |-> Row(segments[i])]
    IN IF reading.cmd \in DOMAIN Answers THEN Answers[reading.cmd]
       ELSE {[rows |-> echo, end |-> EndMessage("0", <<"ok">>, <<>>)]}

\* A key, the name of a command or of an event, a number: one character to
\* everybody on the way.
Word == Char \ {" ", "|", "=", "\n", "\r", "-", "notify", "error"}

\* The items of a dict: words, and texts of any characters.
IsBlock(block) ==
    /\ block \in Seq(ToSet(block))
    /\ \A item \in ToSet(block) : item.key \in Word /\ item.texts \in Seq(Seq(Char))
    /\ \A i, j \in DOMAIN block : block[i].key = block[j].key => i = j

Keys(block) == {item.key : item \in ToSet(block)}

\* Any of the values is a list of several.
HasList(c) ==
    \E block \in {c.params} \cup ToSet(c.blocks) : \E item \in ToSet(block) : Len(item.texts) > 1

\* What stands beside a list, in the same segment, is of other keys.
ASSUME CallAssumption ==
    \A c \in Call :
       /\ c.cmd \in Word /\ c.options \in Seq(Word)
       /\ IsBlock(c.params) /\ c.blocks \in Seq(ToSet(c.blocks))
       /\ \A block \in ToSet(c.blocks) : IsBlock(block)
       /\ HasList(c) /\ c.blocks # <<>> => Keys(c.params) \cap Keys(c.blocks[1]) = {}

IsRow(row) ==
    /\ IsFiniteSet(DOMAIN row) /\ DOMAIN row \subseteq {<<w>> : w \in Word}
    /\ row \in [DOMAIN row -> Seq(Char)]

AreRows(rows) ==
    rows \in Seq(ToSet(rows)) /\ \A row \in ToSet(rows) : IsRow(row) /\ DOMAIN row # {}

\* What a server sends: rows with something in them, and the id and the text
\* of every outcome before anything else that belongs to it.
ASSUME MessageAssumption ==
    /\ \A event \in Event : event.name \in Word /\ AreRows(event.rows)
    /\ \A m \in UNION {Answers[cmd] : cmd \in DOMAIN Answers} :
          /\ AreRows(m.rows)
          /\ m.end = EndMessage(m.end.id, m.end.msg, m.end.extra)
          /\ m.end.id \in Word /\ m.end.msg \in Seq(Char)
          /\ IsRow(m.end.extra) /\ DOMAIN m.end.extra \cap {<<"id">>, <<"msg">>} = {}

\* Every call is one of a typed method or of exec(); a refusal has no rows,
\* and a transfer is granted or refused in one.
ASSUME AnswerAssumption ==
    \A c \in {d \in Call : Renderable(d)} :
       /\ c.via \in {"exec", "first", "cldbid", "cid", "list", "init"}
       /\ \A m \in Meaning(ServerReads(RenderCommand(c))) :
             /\ m.rows \in Seq(ToSet(m.rows)) /\ m.end.kind = "end"
             /\ m.end.id # "0" => m.rows = <<>>
             /\ c.via = "init" => Len(m.rows) <= 1

\* The messages for the rows of an answer, in one line or in several.
RowMessages(m, together) ==
    IF m.rows = <<>> THEN <<>>
    ELSE IF together THEN <<DataMessage(m.rows)>>
    ELSE [i \in DOMAIN m.rows |-> DataMessage(<<m.rows[i]>>)]

\* The rows, a notification perhaps, and the terminator.
ServerAnswers ==
    /\ outbound # <<>>
    /\ outbound' = <<>>
    /\ LET reading == ServerReads(outbound)
       IN /\ understood' = reading
          /\ \E m \in Meaning(reading), together \in BOOLEAN,
                notices \in {<<>>} \cup {<<EventMessage(event)>> : event \in Event} :
               /\ meant' = m
               /\ Send(RowMessages(m, together) \o notices \o <<m.end>>)
    /\ received' = None
    /\ UNCHANGED <<generation, readerVars, callVars>>

ServerNotifies ==
    /\ recv # "greeting" /\ Len(underway) < MaxUnderway
    /\ \E event \in Event : Send(<<EventMessage(event)>>)
    /\ received' = None
    /\ UNCHANGED <<outbound, generation, readerVars, callVars, understood, meant>>

\* A blank line, which is no message.
ServerBlanks ==
    /\ recv = "loop" /\ up /\ inbound = <<>>
    /\ inbound' = <<"\n">> /\ received' = None
    /\ UNCHANGED <<outbound, up, generation, readerVars, callVars, history>>

\* The channel ends, in the middle of a line perhaps: what is not read by
\* then is lost.
ServerDrops ==
    /\ up
    /\ up' = FALSE /\ inbound' = <<>> /\ received' = None
    /\ UNCHANGED <<outbound, generation, readerVars, callVars, history>>

-----------------------------------------------------------------------------
(* The caller: exec() and the wrappers over it *)

Idle == [kind |-> "idle"]
Waiting == [kind |-> "waiting"]
Closed == [kind |-> "closed"]
Returns(rows) == [kind |-> "rows", rows |-> rows]
Raises(id, msg, wait) == [kind |-> "error", id |-> id, msg |-> msg, wait |-> wait]

\* exec(): the rows, a QueryError, or a FloodError with the time to wait.
Outcome(lines, error) ==
    IF error.id = "0" THEN Returns(ParseDataBlock(lines))
    ELSE Raises(error.id, error.msg,
                IF error.id = FloodErrorId THEN RetryAfter(error.extra) ELSE "0")

FirstRow(rows) == IF rows = <<>> THEN [kind |-> "IndexError"] ELSE Returns(<<rows[1]>>)

FirstField(rows, key) ==
    CASE rows = <<>>                     -> [kind |-> "IndexError"]
      [] rows # <<>> /\ <<key>> \in DOMAIN rows[1] -> [kind |-> "text", text |-> rows[1][<<key>>]]
      [] OTHER                           -> [kind |-> "KeyError"]

EmptyResultSet == "1281"

\* An empty directory is answered with an error.
FileListOf(outcome) ==
    IF outcome.kind = "error" /\ outcome.id = EmptyResultSet THEN Returns(<<>>) ELSE outcome

\* A transfer is refused in a row without ftkey.
Granted(rows) ==
    LET row == IF rows = <<>> THEN <<>> ELSE rows[1]
    IN IF <<"ftkey">> \in DOMAIN row THEN Returns(<<row>>)
       ELSE Raises(Get(row, "status", <<"-1">>)[1], Get(row, "msg", <<"failed">>), "0")

\* What the typed method makes of what exec() returns or raises.
Typed(via, outcome) ==
    CASE via = "list" -> FileListOf(outcome)
      [] via = "exec" \/ (via # "list" /\ outcome.kind = "error") -> outcome
      [] via = "first" /\ outcome.kind = "rows" -> FirstRow(outcome.rows)
      [] via \in {"cldbid", "cid"} /\ outcome.kind = "rows" -> FirstField(outcome.rows, via)
      [] via = "init" /\ outcome.kind = "rows" -> Granted(outcome.rows)

\* render_command() raises ValueError, and nothing is sent; or the line is
\* written.
Exec(c) ==
    /\ recv = "loop" /\ answer = Idle
    /\ call' = c
    /\ IF Renderable(c) THEN outbound' = RenderCommand(c) /\ answer' = Waiting
                        ELSE UNCHANGED outbound /\ answer' = [kind |-> "ValueError"]
    /\ received' = None
    /\ UNCHANGED <<inbound, up, generation, readerVars, history>>

\* The caller has the answer, and the exchange is over.
Return ==
    /\ answer \notin {Idle, Waiting}
    /\ answer' = Idle /\ call' = None /\ received' = None
    /\ understood' = None /\ meant' = None
    /\ UNCHANGED <<wireVars, readerVars, underway>>

\* The pending future is resolved.
Resolve(outcome) == answer' = IF answer = Waiting THEN outcome ELSE answer

-----------------------------------------------------------------------------
(* SshTransport.read_line(), RawConnection.start() and _recv_loop() *)

\* Seeded fault: the carriage return in front of a line stays.
StripNothing(line) == line

\* strip(b"\r")
Strip(line) ==
    LET text == {i \in DOMAIN line : line[i] # "\r"}
    IN IF text = {} THEN <<>> ELSE SubSeq(line, Min(text), Max(text))

Reading == recv \in {"greeting", "loop"}

\* Seeded fault: a line is one when its CR has come, too.
HasLineAndCR == \E i \in 1 .. Len(buffer) - 1 : SubSeq(buffer, i, i + 1) = <<"\n", "\r">>

HasLine == "\n" \in ToSet(buffer)

\* read() returns a chunk.
ReadMore ==
    /\ Reading /\ ~HasLine /\ inbound # <<>>
    /\ \E n \in 1 .. ReadChunk :
         /\ n <= Len(inbound)
         /\ buffer' = buffer \o SubSeq(inbound, 1, n)
         /\ inbound' = SubSeq(inbound, n + 1, Len(inbound))
    /\ received' = None
    /\ UNCHANGED <<outbound, up, generation, recv, greeting, dialect, dataBuf, callVars, history>>

\* It returns nothing: read_line() raises, and _shutdown() fails the command.
ReadEnd ==
    /\ Reading /\ ~HasLine /\ inbound = <<>> /\ ~up
    /\ recv' = "closed" /\ received' = None
    /\ Resolve(Closed)
    /\ UNCHANGED <<wireVars, buffer, greeting, dialect, dataBuf, call, history>>

\* Seeded fault: the welcome line is left for the receive loop.
GreetingLinesOne == 1

GreetingLines == 2

\* What the application did not leave to AUTO stays.
TakeGreeting(line) ==
    /\ greeting' = Append(greeting, line)
    /\ IF Len(greeting') = GreetingLines
       THEN /\ recv' = "loop"
            /\ dialect' = IF dialect = "AUTO" THEN SniffDialect(greeting') ELSE dialect
       ELSE UNCHANGED <<recv, dialect>>
    /\ received' = None
    /\ UNCHANGED <<dataBuf, answer, underway>>

Take(message) ==
    /\ received' = message
    /\ underway' = IF underway = <<>> THEN <<>> ELSE Tail(underway)

TakeEvent(line) ==
    /\ IsEventLine(line)
    /\ Take(EventFromLine(line))
    /\ UNCHANGED <<recv, dataBuf, answer>>

TakeData(line) ==
    /\ ~IsEventLine(line) /\ ~IsErrorLine(line)
    /\ Take(DataMessage(ParseDataLine(line)))
    /\ dataBuf' = Append(dataBuf, line)
    /\ UNCHANGED <<recv, answer>>

TakeEnd(line) ==
    /\ IsErrorLine(line) /\ ErrorLineParses(line)
    /\ Take(ParseErrorLine(line))
    /\ dataBuf' = <<>>
    /\ Resolve(Typed(call.via, Outcome(dataBuf, ParseErrorLine(line))))
    /\ UNCHANGED recv

\* int() raises ValueError, and the loop ends with it.
Crash(line) ==
    /\ IsErrorLine(line) /\ ~ErrorLineParses(line)
    /\ recv' = "crashed" /\ dataBuf' = <<>> /\ received' = None
    /\ Resolve(Closed)
    /\ UNCHANGED underway

\* The line up to the first LF; an empty one means nothing to the loop.
ReadLine ==
    /\ Reading /\ HasLine
    /\ LET newline == SelectInSeq(buffer, LAMBDA c : c = "\n")
           line == Strip(SubSeq(buffer, 1, newline - 1))
       IN /\ buffer' = SubSeq(buffer, newline + 1, Len(buffer))
          /\ IF recv = "greeting" THEN TakeGreeting(line)
             ELSE /\ UNCHANGED <<greeting, dialect>>
                  /\ IF line = <<>>
                     THEN received' = None /\ UNCHANGED <<recv, dataBuf, answer, underway>>
                     ELSE TakeEvent(line) \/ TakeData(line) \/ TakeEnd(line) \/ Crash(line)
    /\ UNCHANGED <<wireVars, call, understood, meant>>

-----------------------------------------------------------------------------
Init ==
    /\ outbound = <<>> /\ up = TRUE
    /\ generation \in {"TS3", "TS6"}
    /\ \E t \in Terminator : inbound = Terminated(Greeting(generation), t)
    /\ buffer = <<>> /\ recv = "greeting" /\ greeting = <<>>
    /\ dialect \in {"AUTO", generation}
    /\ dataBuf = <<>>
    /\ call = None /\ answer = Idle
    /\ understood = None /\ meant = None
    /\ underway = <<>> /\ received = None

Reader == ReadMore \/ ReadEnd \/ ReadLine
Server == ServerAnswers \/ ServerNotifies \/ ServerBlanks \/ ServerDrops
Next == Reader \/ Server \/ (\E c \in Call : Exec(c)) \/ Return

Spec == Init /\ [][Next]_vars

-----------------------------------------------------------------------------
(* Properties *)

\* What the server may come to answer, and the messages it may send.
Answerable == UNION {Meaning(ServerReads(RenderCommand(c))) : c \in {d \in Call : Renderable(d)}}
Sendable ==
    {EventMessage(event) : event \in Event} \cup {m.end : m \in Answerable}
    \cup UNION {ToSet(RowMessages(m, together)) : m \in Answerable, together \in BOOLEAN}

\* One line tells one message: nothing in it ends it early, it is sorted by
\* the kind it was sent as, and what is parsed of it is what was meant,
\* unless the id in it is none.
Readable(m) ==
    LET line == LineOf(m)
    IN /\ line \in Seq(ToSet(line) \ {"\n", "\r"}) \ {<<>>}
       /\ \/ /\ m.kind = "event" /\ IsEventLine(line)
             /\ EventFromLine(line) = m
          \/ /\ m.kind = "data" /\ ~IsEventLine(line) /\ ~IsErrorLine(line)
             /\ DataMessage(ParseDataLine(line)) = m
          \/ /\ m.kind = "end" /\ ~IsEventLine(line) /\ IsErrorLine(line)
             /\ ErrorLineParses(line) => ParseErrorLine(line) = m

\* Whatever the rows of an answer, the text of a refusal or the fields of an
\* event hold, the line they come in can be read back.
LinesReadable == \A m \in Sendable : Readable(m)

\* The same of the messages that are sent: when a line has come, the message
\* it is the line of can be read back from it.
UnderwayReadable == HasLine /\ underway # <<>> => Readable(Head(underway))

\* What a call asks for: in each segment the parameters of one block, those
\* of params in the first.
Asked(c) ==
    LET Params(block) ==
            UNION {{<< <<item.key>>, text>> : text \in ToSet(item.texts)} : item \in ToSet(block)}
        blocks == [i \in DOMAIN c.blocks |-> Params(c.blocks[i])]
    IN IF blocks = <<>> THEN <<Params(c.params)>>
       ELSE <<Params(c.params) \cup blocks[1]>> \o Tail(blocks)

\* Whatever characters the values have, None among them or not, the server
\* reads what the call asks for: its switches, and block by block its
\* parameters; of a list ("for commands that accept multiple targets",
\* protocol.py:36-38) each value in a segment of its own.
CommandUnderstood ==
    understood # None =>
       /\ understood.cmd = call.cmd /\ understood.options = ToSet(call.options)
       /\ IF HasList(call)
          THEN /\ UNION ToSet(understood.segments) = UNION ToSet(Asked(call))
               /\ \A segment \in ToSet(understood.segments) : \A p, q \in segment :
                     p[1] = q[1] => p = q
          ELSE understood.segments = Asked(call)

\* The caller gets what the server meant, however it was cut into lines and
\* chunks and whatever went by between: the rows, the row or the field, with
\* every character of them; or the refusal, which a flooded client is told
\* with the time to wait, an upload in a row without a key, and an empty
\* directory as an error that is none.
OutcomeExact ==
    LET accepted == meant.end.id = "0"
        rows == meant.rows
    IN /\ answer.kind = "rows" =>
             CASE call.via = "exec"  -> accepted /\ answer.rows = rows
               [] call.via = "list"  -> /\ accepted \/ meant.end.id = EmptyResultSet
                                        /\ answer.rows = rows
               [] call.via = "first" -> accepted /\ answer.rows = <<rows[1]>>
               [] call.via = "init"  -> /\ accepted /\ answer.rows = <<rows[1]>>
                                        /\ <<"ftkey">> \in DOMAIN rows[1]
       /\ answer.kind = "text" => accepted /\ answer.text = rows[1][<<call.via>>]
       /\ answer.kind = "IndexError" => accepted /\ rows = <<>>
       /\ answer.kind = "error" =>
             IF accepted
             THEN call.via = "init" /\ \A row \in ToSet(rows) : <<"ftkey">> \notin DOMAIN row
             ELSE /\ answer.id = meant.end.id /\ answer.msg = meant.end.msg
                  /\ \A n \in Number : meant.end = Flood(n) => answer.wait = n

\* Every message is received whole, once, in order, and by the kind it was
\* sent as, until the session ends.
Channel == INSTANCE MessageChannel WITH over <- recv \in {"closed", "crashed"}
ImplementsChannel == Channel!Spec

\* No line waits in the buffer for a chunk that need not come: when all that
\* was sent is read, every message has been received.
NothingHeldBack ==
    recv = "loop" /\ up /\ inbound = <<>> /\ ~HasLine => underway = <<>>

\* The greeting tells the generation of the server, and none of it is left
\* for the receive loop to take for an answer.
DialectKnown == recv = "loop" => dialect = generation
=============================================================================

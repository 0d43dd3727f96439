------------------------------ MODULE Protocol ------------------------------
(***************************************************************************)
(* The stateless part of the client: escaping (escape.py), rendering of    *)
(* commands and parsing of lines (protocol.py), and what events.py,        *)
(* errors.py and dialect.py read from a parsed line.                       *)
(*                                                                         *)
(* A text is a sequence of characters.  A character is one that escaping,  *)
(* rendering or parsing looks at, or a whole word none of them looks into: *)
(* a key, a number, the "notify" in front of an event.                     *)
(*                                                                         *)
(* A call is the arguments of render_command(): a word cmd, words options, *)
(* a block params and a sequence blocks of blocks.  A block is the items   *)
(* of a dict in order, each a word key and the texts that stand for the    *)
(* value: <<>> for None or an empty list, <<v>> for a plain value, more    *)
(* for a list.                                                             *)
(***************************************************************************)
EXTENDS Integers, SequencesExt, TLC

CONSTANT Number   (* the words that int() converts                          *)

-----------------------------------------------------------------------------
(* escape.py *)

\* Seeded fault: the backslash is the last to be replaced.
EscapeMapBackslashLast ==
    << <<"/", "/">>, <<" ", "s">>, <<"|", "p">>, <<"BEL", "a">>, <<"BS", "b">>, <<"\f", "f">>,
       <<"\n", "n">>, <<"\r", "r">>, <<"\t", "t">>, <<"VT", "v">>, <<"\\", "\\">> >>

\* Raw character and the one that stands for it behind a backslash, in order.
EscapeMap ==
    << <<"\\", "\\">>, <<"/", "/">>, <<" ", "s">>, <<"|", "p">>, <<"BEL", "a">>, <<"BS", "b">>,
       <<"\f", "f">>, <<"\n", "n">>, <<"\r", "r">>, <<"\t", "t">>, <<"VT", "v">> >>

Replace(text, char, code) ==
    FlattenSeq([i \in DOMAIN text |-> IF text[i] = char THEN <<"\\", code>> ELSE <<text[i]>>])

Escape(text) == FoldLeft(LAMBDA t, pair : Replace(t, pair[1], pair[2]), text, EscapeMap)

UnescapeMap ==
    [code \in {pair[2] : pair \in ToSet(EscapeMap)} |->
        (CHOOSE pair \in ToSet(EscapeMap) : pair[2] = code)[1]]

\* Seeded fault: what follows a backslash is decoded and read once more.
UnescapeByOne(text) ==
    LET n == Len(text)
        IsEscape(i) == text[i] = "\\" /\ i < n /\ text[i + 1] \in DOMAIN UnescapeMap
    IN FlattenSeq([i \in 1 .. n |->
           CASE IsEscape(i) -> <<UnescapeMap[text[i + 1]]>>
             [] ~IsEscape(i) /\ i > 1 /\ IsEscape(i - 1) -> <<>>
             [] OTHER -> <<text[i]>>])

\* One pass from left to right; a backslash before anything else stays.
Unescape(text) ==
    LET n == Len(text)
        IsEscape(i) == text[i] = "\\" /\ i < n /\ text[i + 1] \in DOMAIN UnescapeMap
        from[i \in 1 .. n + 1] ==
            IF i > n THEN <<>>
            ELSE IF IsEscape(i) THEN <<UnescapeMap[text[i + 1]]>> \o from[i + 2]
                                ELSE <<text[i]>> \o from[i + 1]
    IN from[1]

-----------------------------------------------------------------------------
(* Commands *)

Join(pieces, sep) ==
    FlattenSeq([i \in DOMAIN pieces |-> IF i = 1 THEN pieces[i] ELSE <<sep>> \o pieces[i]])

\* A sequence without the elements that are in S.
Without(seq, S) ==
    FlattenSeq([i \in DOMAIN seq |-> IF seq[i] \in S THEN <<>> ELSE <<seq[i]>>])

NonEmpty(pieces) == Without(pieces, {<<>>})

\* A value is the text that str() makes of it; a bool has become an int before,
\* so that True is the text <<"1">>.
RenderParam(key, text) == <<key, "=">> \o Escape(text)

RenderBlock(block) ==
    LET Rendered(item) ==
            Join([i \in DOMAIN item.texts |-> RenderParam(item.key, item.texts[i])], "|")
    IN Join(NonEmpty([i \in DOMAIN block |-> Rendered(block[i])]), " ")

\* A call that is not raises ValueError.
Renderable(call) == \A i \in DOMAIN call.blocks : RenderBlock(call.blocks[i]) # <<>>

\* The first block shares a segment with params.
Segments(call) ==
    LET blocks == [i \in DOMAIN call.blocks |-> RenderBlock(call.blocks[i])]
        shared == RenderBlock(call.params)
    IN IF blocks = <<>> THEN <<shared>>
       ELSE <<Join(NonEmpty(<<shared, blocks[1]>>), " ")>> \o Tail(blocks)

RenderCommand(call) ==
    Join(NonEmpty(<< <<call.cmd>>, Join(NonEmpty(Segments(call)), "|") >>)
             \o [i \in DOMAIN call.options |-> <<"-", call.options[i]>>], " ")

-----------------------------------------------------------------------------
(* Lines *)

Split(text, sep) ==
    FoldLeft(LAMBDA pieces, c : IF c = sep THEN Append(pieces, <<>>)
                                ELSE [pieces EXCEPT ![Len(pieces)] = Append(@, c)],
             << <<>> >>, text)

\* Seeded fault: split() in place of partition(), and its second piece.
AfterToNext(text, sep) == LET pieces == Split(text, sep) IN IF Len(pieces) = 1 THEN <<>> ELSE pieces[2]

\* partition(): a separator at 0 is none at all.
Before(text, sep) ==
    LET i == SelectInSeq(text, LAMBDA c : c = sep) IN IF i = 0 THEN text ELSE SubSeq(text, 1, i - 1)
After(text, sep) ==
    LET i == SelectInSeq(text, LAMBDA c : c = sep) IN IF i = 0 THEN <<>> ELSE SubSeq(text, i + 1, Len(text))

\* A dict: the last property of a name counts.
ParseRow(text) ==
    LET props == NonEmpty(Split(text, " "))
        Named(name) == {i \in DOMAIN props : Before(props[i], "=") = name}
    IN [name \in {Before(prop, "=") : prop \in ToSet(props)} |->
           Unescape(After(props[Max(Named(name))], "="))]

ParseDataLine(line) ==
    NonEmpty([i \in DOMAIN Split(line, "|") |-> ParseRow(Split(line, "|")[i])])

ParseDataBlock(lines) == FlattenSeq([i \in DOMAIN lines |-> ParseDataLine(lines[i])])

Get(row, key, default) == IF <<key>> \in DOMAIN row THEN row[<<key>>] ELSE default

IsEventLine(line) == line # <<>> /\ line[1] = "notify"

IsErrorLine(line) == line # <<>> /\ line[1] = "error" /\ (Len(line) > 1 => line[2] = " ")

\* int() takes its id.
ErrorLineParses(line) ==
    \E n \in Number : Get(ParseRow(Tail(line)), "id", <<"-1">>) = <<n>>

ParseErrorLine(line) ==
    LET props == ParseRow(Tail(line))
    IN [kind |-> "end", id |-> Get(props, "id", <<"-1">>)[1], msg |-> Get(props, "msg", <<>>),
        extra |-> Restrict(props, DOMAIN props \ {<<"id">>, <<"msg">>})]

EventFromLine(line) ==
    LET rows == ParseDataLine(After(line, " "))
    IN [kind |-> "event", name |-> Tail(Before(line, " ")),
        rows |-> IF rows = <<>> THEN << <<>> >> ELSE rows]

-----------------------------------------------------------------------------
(* errors.py, dialect.py *)

FloodErrorId == "524"

\* re.search(r"wait (\d+) second"), or 1.
RetryAfter(extra) ==
    LET text == Get(extra, "extra_msg", <<>>)
        Matches(i) == /\ SubSeq(text, i, i + 1) = <<"wait", " ">>
                      /\ text[i + 2] \in Number
                      /\ SubSeq(text, i + 3, i + 4) = <<" ", "second">>
        found == {i \in 1 .. Len(text) - 4 : Matches(i)}
    IN IF found = {} THEN "1" ELSE text[Min(found) + 2]

Welcome3 == "Welcome to the TeamSpeak 3 "

SniffDialect(greeting) ==
    IF \E i \in DOMAIN greeting : greeting[i] # <<>> /\ greeting[i][1] = Welcome3
    THEN "TS3" ELSE "TS6"
=============================================================================

------------------------------- MODULE MCWire -------------------------------
(* Wire on small instances.  Texts are made of characters that mean         *)
(* something to somebody on the way, and "s", which does behind a backslash.*)
EXTENDS Wire

Text(n) == SeqOf({"\\", " ", "|", "=", "\n", "\r", "s"}, n)
One == <<"1">>

MCCall ==
    {SendTextMessage(One, t, One) : t \in Text(2)}
    \cup ToSet(StartCalls(None, One, <<"|">>, << << <<"server">>, None>>, << <<"channel">>, <<"0">> >> >>))
    \cup {ClientKick(One, <<"5">>, reason) : reason \in {None, <<>>, <<" ">>}}
    \cup {ClientList(<<"uid", "away">>), ChannelMove(One, One, None), ChannelMove(One, One, <<"0">>)}
    \cup {ExecOf("clientkick", <<"f">>, <<[key |-> "clid", texts |-> <<One, <<"|">>, <<>> >>], Item("reasonmsg", t)>>,
                 <<>>) : t \in {None, <<" ">>}}
    \cup {ExecOf("channeladdperm", <<>>, params,
                 << <<Item("permsid", t), Item("permvalue", <<"|">>)>>, <<Item("permsid", t)>> >>) :
            t \in {<<>>, <<"|">>}, params \in {<<>>, <<Item("cid", None)>>, <<Item("cid", One)>>}}
    \cup {ExecOf("channeladdperm", <<>>, <<>>, << <<Item("permsid", <<"s">>)>>, <<Item("permvalue", None)>> >>)}
    \cup {Whoami, ServerGroupsByClient(One), ClientDbidFromUid(<<"=">>),
          ChannelCreate(<<"/">>, <<Item("cpid", One)>>),
          FileList(One, <<"/">>, <<>>), RenameFile(<<"s">>, <<"/", " ">>, One, <<>>),
          FtInitUpload(One, <<"s">>, One, <<>>, One, One, <<"0">>)}

MCEvent == {[name |-> "textmessage", rows |-> << <<"msg">> :> <<" ", "\n">> >>],
            [name |-> "serveredited", rows |-> <<>>]}

Ok(rows) == [rows |-> rows, end |-> EndMessage("0", <<"ok">>, <<>>)]
Refused(id, msg) == [rows |-> <<>>, end |-> EndMessage(id, msg, <<>>)]
NoSuch == <<"no", " ", "such">>

MCAnswers ==
    "whoami" :> {Ok(<<>>), Ok(<< <<"client_id">> :> One, <<"client_id">> :> <<"2">> >>)} @@
    "servergroupsbyclientid" :>
        {Refused("768", NoSuch), [rows |-> <<>>, end |-> Flood("3")], Refused("x", <<"garbled">>)} @@
    "clientgetdbidfromuid" :> {Ok(<< <<"cldbid">> :> <<"2">> >>), Ok(<<>>), Refused("768", NoSuch)} @@
    "channelcreate" :> {Ok(<< <<"cid">> :> <<"7">> >>), Ok(<< <<"id">> :> <<"7">> >>)} @@
    "ftgetfilelist" :>
        {Ok(<< <<"name">> :> <<"a", " ">>, <<"name">> :> <<"|">> >>),
         Refused(EmptyResultSet, <<"empty">>), Refused("768", NoSuch)} @@
    "ftinitupload" :>
        {Ok(<< <<"ftkey">> :> <<"key">> @@ <<"port">> :> <<"30033">> >>), Ok(<<>>),
         Ok(<< <<"status">> :> <<"2054">> @@ <<"msg">> :> NoSuch >>)}

MCNumber == {"-1", "0", "1", "3", "524", "768", "1281", "2054"}

\* The names that calls, answers and events hold are characters, too.
MCChar ==
    {"\\", "/", " ", "|", "BEL", "BS", "\f", "\n", "\r", "\t", "VT", "=", "-",
     "s", "p", "a", "b", "f", "n", "r", "t", "v", "notify", "error", "id", "msg", "ok"}
    \cup MCNumber \cup {"2", "5", "7", "30033", "x"}
    \cup {"such", "no", "garbled", "empty", "key", "server", "channel",
          "client", "is", "flooding", "please", "wait", "second"}
    \cup {"extra_msg", "client_id", "cldbid", "name", "ftkey", "port", "status"}
    \cup {event.name : event \in MCEvent}
    \cup {c.cmd : c \in MCCall} \cup UNION {ToSet(c.options) : c \in MCCall}
    \cup UNION {Keys(c.params) : c \in MCCall}
    \cup UNION {Keys(block) : block \in UNION {ToSet(c.blocks) : c \in MCCall}}
=============================================================================

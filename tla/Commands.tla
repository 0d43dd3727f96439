------------------------------ MODULE Commands ------------------------------
(***************************************************************************)
(* The calls of exec() behind the typed methods of Client and FileTransfer *)
(* (client.py, filetransfer.py): the command, its parameters in order, and *)
(* in via what the method makes of the rows: "exec" hands them on or drops *)
(* them, "first" takes rows[0], "cldbid" and "cid" that field of it,       *)
(* "list" and "init" are file_list() and _init() of FileTransfer.          *)
(*                                                                         *)
(* An argument is a text, or None.                                         *)
(***************************************************************************)
EXTENDS Sequences

CONSTANT None

Item(key, value) == [key |-> key, texts |-> IF value = None THEN <<>> ELSE <<value>>]

ExecOf(cmd, options, params, blocks) ==
    [cmd |-> cmd, via |-> "exec", options |-> options, params |-> params, blocks |-> blocks]

Plain(cmd, params) == ExecOf(cmd, <<>>, params, <<>>)
Via(via, cmd, params) == [Plain(cmd, params) EXCEPT !.via = via]

-----------------------------------------------------------------------------
(* Client *)

Use(sid) == Plain("use", <<Item("sid", sid)>>)

ServerNotifyRegister(event, id) ==
    Plain("servernotifyregister", <<Item("event", event), Item("id", id)>>)

Whoami == Via("first", "whoami", <<>>)

Version == Via("first", "version", <<>>)

ClientList(options) == ExecOf("clientlist", options, <<>>, <<>>)

ClientInfo(clid) == Via("first", "clientinfo", <<Item("clid", clid)>>)

ClientDbidFromUid(cluid) == Via("cldbid", "clientgetdbidfromuid", <<Item("cluid", cluid)>>)

ServerGroupsByClient(cldbid) == Plain("servergroupsbyclientid", <<Item("cldbid", cldbid)>>)

\* server_group_add_client(), server_group_del_client()
ServerGroupClient(cmd, sgid, cldbid) ==
    Plain(cmd, <<Item("sgid", sgid), Item("cldbid", cldbid)>>)

SetClientChannelGroup(cgid, cid, cldbid) ==
    Plain("setclientchannelgroup", <<Item("cgid", cgid), Item("cid", cid), Item("cldbid", cldbid)>>)

ChannelCreate(name, props) ==
    Via("cid", "channelcreate", <<Item("channel_name", name)>> \o props)

ChannelAddPerm(cid, permsid, permvalue) ==
    Plain("channeladdperm",
          <<Item("cid", cid), Item("permsid", permsid), Item("permvalue", permvalue)>>)

ChannelClientAddPerm(cid, cldbid, permsid, permvalue) ==
    Plain("channelclientaddperm",
          <<Item("cid", cid), Item("cldbid", cldbid), Item("permsid", permsid),
            Item("permvalue", permvalue)>>)

ChannelMove(cid, cpid, order) ==
    Plain("channelmove", <<Item("cid", cid), Item("cpid", cpid), Item("order", order)>>)

SendTextMessage(target, msg, targetmode) ==
    Plain("sendtextmessage",
          <<Item("targetmode", targetmode), Item("target", target), Item("msg", msg)>>)

ClientKick(clid, reasonid, reasonmsg) ==
    Plain("clientkick",
          <<Item("clid", clid), Item("reasonid", reasonid), Item("reasonmsg", reasonmsg)>>)

\* Client.start(): the commands behind the greeting.  Registrations are pairs
\* of an event and a channel, or None.
StartCalls(sid, port, nickname, registrations) ==
    (CASE sid # None                  -> <<Use(sid)>>
       [] sid = None /\ port # None   -> <<Plain("use", <<Item("port", port)>>)>>
       [] OTHER                       -> <<>>)
    \o (IF nickname = None THEN <<>>
        ELSE <<Plain("clientupdate", <<Item("client_nickname", nickname)>>)>>)
    \o [i \in DOMAIN registrations |-> ServerNotifyRegister(registrations[i][1], registrations[i][2])]

-----------------------------------------------------------------------------
(* FileTransfer *)

\* _normalize()
Normalize(name) == IF name # <<>> /\ name[1] = "/" THEN name ELSE <<"/">> \o name

InFile(cmd, via, cid, cpw, params) == Via(via, cmd, <<Item("cid", cid), Item("cpw", cpw)>> \o params)

\* _init(): the number of the transfer comes first.
InitOf(cmd, ftfid, params) == Via("init", cmd, <<Item("clientftfid", ftfid)>> \o params)

FtInitUpload(ftfid, name, cid, cpw, size, overwrite, resume) ==
    InitOf("ftinitupload", ftfid,
          <<Item("name", Normalize(name)), Item("cid", cid), Item("cpw", cpw), Item("size", size),
            Item("overwrite", overwrite), Item("resume", resume)>>)

FtInitDownload(ftfid, name, cid, cpw) ==
    InitOf("ftinitdownload", ftfid,
          <<Item("name", Normalize(name)), Item("cid", cid), Item("cpw", cpw),
            Item("seekpos", <<"0">>)>>)

FileList(cid, path, cpw) == InFile("ftgetfilelist", "list", cid, cpw, <<Item("path", path)>>)

FileInfo(name, cid, cpw) ==
    InFile("ftgetfileinfo", "first", cid, cpw, <<Item("name", Normalize(name))>>)

DeleteFile(name, cid, cpw) ==
    InFile("ftdeletefile", "exec", cid, cpw, <<Item("name", Normalize(name))>>)

CreateDirectory(dirname, cid, cpw) ==
    InFile("ftcreatedir", "exec", cid, cpw, <<Item("dirname", Normalize(dirname))>>)

RenameFile(oldname, newname, cid, cpw) ==
    InFile("ftrenamefile", "exec", cid, cpw,
           <<Item("oldname", Normalize(oldname)), Item("newname", Normalize(newname))>>)

\* An icon is the file of its number among the files of the server; crc32()
\* gives the number, one word.
IconName(id) == <<"/", "icon_", id>>
DownloadIcon(ftfid, id) == FtInitDownload(ftfid, IconName(id), <<"0">>, <<>>)
DeleteIcon(id) == DeleteFile(IconName(id), <<"0">>, <<>>)
=============================================================================

--------------------------- MODULE MCFileTransfer ---------------------------
(* FileTransfer on small instances: an empty file and one of three bytes.   *)
EXTENDS FileTransfer

MCPayload == {<<>>, <<1, 2, 3>>}
=============================================================================

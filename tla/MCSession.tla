----------------------------- MODULE MCSession -----------------------------
(* One watcher and one other client, which may reconnect before the manager *)
(* has noticed that its old connection is gone.                             *)
EXTENDS Session

CONSTANTS watcher, other

MCSockIDs == {<<watcher, 1>>, <<other, 1>>, <<other, 2>>}
=============================================================================

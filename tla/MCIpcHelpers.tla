---------------------------- MODULE MCIpcHelpers ----------------------------
(* Model values and fd tables for the ipc_fds run. *)
EXTENDS IpcHelpers

CONSTANTS t1, t2, fa, fb

MCThreads == {t1, t2}
MCFiles == {fa, fb}

(* The service holds one descriptor of each file and has a free number;   *)
(* the client holds a descriptor of fb it received from another process.  *)
MCRemoteInit == (1 :> fa) @@ (2 :> fb) @@ (3 :> NoFile)
MCLocalInit == (1 :> fb) @@ [fd \in 2..5 |-> NoFile]
=============================================================================

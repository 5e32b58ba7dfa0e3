-------------------------- MODULE BackgroundServer --------------------------
(***************************************************************************)
(* The background_server context manager and _server_runner of            *)
(* hivemind/moe/server/server.py: a parent process spawns a child over a   *)
(* duplex pipe; the child's main thread calls Server.create(start=True),   *)
(* reports success or failure, waits for the "SHUTDOWN" token and shuts    *)
(* the server down.  The child's main thread is the owner of Server.tla,   *)
(* so the server's threads and the two concurrent shutdown() calls are     *)
(* those of Server.tla, and they only run while the child process lives.   *)
(***************************************************************************)
EXTENDS Server

CONSTANT
    CheckpointDirGiven   \* create(checkpoint_dir=..., hugginface_rep=None)

(* create() never forwards checkpoint_dir to Server.__init__ (lines        *)
(* 208-217), so a server made by _server_runner has no CheckpointSaver.    *)
ASSUME BackgroundAssumption == CheckpointDirGiven \in BOOLEAN /\ WithSaver = FALSE

VARIABLES
    parent,    \* the parent's place in background_server
    proc,      \* the child process: "new", "alive", "exited", "killed"
    toParent,  \* what the child sent: NoMsg, <<TRUE, "peer">> or <<FALSE, error>>
    toChild    \* what the parent sent: "none" or "SHUTDOWN"

bgVars == <<serverVars, parent, proc, toParent, toChild>>

NoMsg == <<FALSE, "none">>

(* The exceptions create() can raise after starting the DHT: a generated   *)
(* uid already in the DHT (NameError, line 392), and load_expert called    *)
(* with three of its four parameters when restoring from a checkpoint      *)
(* (TypeError, line 231 against checkpoints.py line 79).                   *)
CreateErrors == {"NameError"} \cup (IF CheckpointDirGiven THEN {"TypeError"} ELSE {})

BGTypeOK ==
    /\ pc \in [Threads -> {"create", "await", "serving", "recv", "returned", "join",
                           "done", "new", "run", "runtime"} \cup SdLabels]
    /\ parent \in {"start", "recv", "body", "join", "done"}
    /\ proc \in {"new", "alive", "exited", "killed"}
    /\ toParent \in {NoMsg, <<TRUE, "peer">>} \cup {<<FALSE, r>> : r \in CreateErrors}
    /\ toChild \in {"none", "SHUTDOWN"}

BGInit ==
    /\ pc = [t \in Threads |-> IF t = "owner" THEN "create" ELSE "new"]
    /\ ready = FALSE
    /\ runtime = "idle"
    /\ runtimeStop = FALSE
    /\ dhtH = IF HasExperts THEN "new" ELSE "none"
    /\ dhtStop = FALSE
    /\ saver = "none"
    /\ saverStop = FALSE
    /\ handlers = "new"
    /\ dht = "new"
    /\ calls = 0
    /\ parent = "start"
    /\ proc = "new"
    /\ toParent = NoMsg
    /\ toChild = "none"

-----------------------------------------------------------------------------
(* _server_runner, lines 336-341: create() raises after DHT(start=True);   *)
(* the error is sent to the parent and the runner returns.                 *)
(* Mutant of ChildCreateFail: the error is sent without the (False, ...)   *)
(* tuple around it.                                                        *)
ChildCreateFailUntupled ==
    /\ pc["owner"] = "create"
    /\ \E r \in CreateErrors : toParent' = r
    /\ dht' = "up"
    /\ Goto("owner", "returned")
    /\ UNCHANGED <<ready, runtime, runtimeStop, dhtH, dhtStop, saver, saverStop,
                   handlers, calls, parent, proc, toChild>>

ChildCreateFail ==
    /\ pc["owner"] = "create"
    /\ \E r \in CreateErrors : toParent' = <<FALSE, r>>
    /\ dht' = "up"
    /\ Goto("owner", "returned")
    /\ UNCHANGED <<ready, runtime, runtimeStop, dhtH, dhtStop, saver, saverStop,
                   handlers, calls, parent, proc, toChild>>

(* create() returns: the DHT is up and Server.__init__(start=True) has     *)
(* started the server thread and waits for ready (run_in_background).     *)
ChildCreateOk ==
    /\ pc["owner"] = "create"
    /\ ~CheckpointDirGiven
    /\ dht' = "up"
    /\ pc' = [pc EXCEPT !["owner"] = "await", !["srv"] = "run"]
    /\ UNCHANGED <<ready, runtime, runtimeStop, dhtH, dhtStop, saver, saverStop,
                   handlers, calls, parent, proc, toParent, toChild>>

(* Lines 344-345: report the peer to the parent.                           *)
ChildSendOk ==
    /\ pc["owner"] = "serving"
    /\ toParent' = <<TRUE, "peer">>
    /\ Goto("owner", "recv")
    /\ UNCHANGED <<ready, runtime, runtimeStop, dhtH, dhtStop, saver, saverStop,
                   handlers, dht, calls, parent, proc, toChild>>

(* Line 346 returns with the shutdown token; the finally calls shutdown(). *)
ChildRecvShutdown ==
    /\ pc["owner"] = "recv"
    /\ toChild = "SHUTDOWN"
    /\ calls' = calls + 1
    /\ Goto("owner", "sd_clear")
    /\ UNCHANGED <<ready, runtime, runtimeStop, dhtH, dhtStop, saver, saverStop,
                   handlers, dht, parent, proc, toParent, toChild>>

(* The runner has returned: the interpreter waits for the non-daemon       *)
(* server thread, kills the daemon DHT handler thread and exits.           *)
ChildExit ==
    /\ pc["owner"] \in {"done", "returned"}
    /\ pc["srv"] \in {"new", "done"}
    /\ proc' = "exited"
    /\ UNCHANGED <<serverVars, parent, toParent, toChild>>

ChildStep == ChildCreateFail \/ ChildCreateOk \/ ChildSendOk \/ ChildRecvShutdown \/ ChildExit

(* A step of the child process happens only while it is alive; a step of  *)
(* the server's threads leaves the pipe and the parent alone.              *)
Alive(A) == proc = "alive" /\ A

InChild(A) == Alive(A) /\ UNCHANGED <<parent, proc, toParent, toChild>>


-----------------------------------------------------------------------------
(* background_server, lines 315-332, in the parent process.                *)

(* runner.start() (line 318).                                              *)
ParentStart ==
    /\ parent = "start"
    /\ parent' = "recv"
    /\ proc' = "alive"
    /\ UNCHANGED <<serverVars, toParent, toChild>>

(* pipe.recv() (line 321) blocks until the child has sent; a failure is    *)
(* raised as RuntimeError (line 326) and the finally joins the child.      *)
ParentRecv ==
    /\ parent = "recv"
    /\ toParent # NoMsg
    /\ parent' = IF toParent[1] THEN "body" ELSE "join"
    /\ UNCHANGED <<serverVars, proc, toParent, toChild>>

(* The with-block ends normally: the token is sent (line 324).             *)
ParentBodyExit ==
    /\ parent = "body"
    /\ toChild' = "SHUTDOWN"
    /\ parent' = "join"
    /\ UNCHANGED <<serverVars, proc, toParent>>

(* The with-block raises: the exception leaves the yield and line 324 is   *)
(* skipped; only the finally runs.                                         *)
ParentBodyRaise ==
    /\ parent = "body"
    /\ parent' = "join"
    /\ UNCHANGED <<serverVars, proc, toParent, toChild>>

(* runner.join(timeout) returns because the child exited.                  *)
ParentJoined ==
    /\ parent = "join"
    /\ proc = "exited"
    /\ parent' = "done"
    /\ UNCHANGED <<serverVars, proc, toParent, toChild>>

(* Mutant of ParentKill: the parent gives up waiting without killing.      *)
ParentKillMissing ==
    /\ parent = "join"
    /\ proc = "alive"
    /\ parent' = "done"
    /\ UNCHANGED <<serverVars, proc, toParent, toChild>>

(* join(timeout=shutdown_timeout) times out with the child alive:          *)
(* runner.kill() (lines 328-331).  The timing is not modelled: the         *)
(* timeout may expire whenever the child is still alive.                   *)
ParentKill ==
    /\ parent = "join"
    /\ proc = "alive"
    /\ parent' = "done"
    /\ proc' = "killed"
    /\ UNCHANGED <<serverVars, toParent, toChild>>

ParentStep ==
    \/ ParentStart \/ ParentRecv \/ ParentBodyExit \/ ParentBodyRaise
    \/ ParentJoined \/ ParentKill

BGNext ==
    \/ ParentStep
    \/ Alive(ChildStep)
    \/ InChild(ThreadsNext)

BGSpec == BGInit /\ [][BGNext]_bgVars

(* Each thread of either process runs when it can; the with-block ends;    *)
(* the runtime's contract as in Server.tla, and a runtime.run() that has   *)
(* started either becomes ready or raises.  Which of the two, and which    *)
(* way the with-block ends, are not forced.                                *)
BGFairness ==
    /\ WF_bgVars(ParentStep)
    /\ WF_bgVars(Alive(ChildStep) \/ InChild(OwnerStep))
    /\ WF_bgVars(InChild(SrvStep))
    /\ WF_bgVars(InChild(RuntimeExit))
    /\ WF_bgVars(InChild(DhtHandlerExit))
    /\ WF_bgVars(InChild(RuntimeReady \/ RuntimeCrash))

FairBGSpec == BGSpec /\ BGFairness

-----------------------------------------------------------------------------
(* PROPERTIES                                                              *)

(* A with-block that got the server ends with the parent out of            *)
(* background_server and the child process gone, exited or killed, however *)
(* the block ends and however the runtime behaves (lines 321-332).         *)
NoOrphanChild == parent = "body" ~> (parent = "done" /\ proc \in {"exited", "killed"})

(* A child process that exits on its own after starting a server leaves    *)
(* nothing running: the server thread, the DHT handler (a daemon thread,   *)
(* killed at exit otherwise), the handlers, the DHT and the runtime are    *)
(* all stopped (_server_runner's finally, Server.shutdown, Server.run).    *)
OrderlyExit == (proc = "exited" /\ pc["srv"] # "new") => AllStopped

(* background_server always returns: the spec (section 4.6) says the       *)
(* parent blocks for exactly one of two messages, a failure or a success.  *)
ParentReturns == <>(parent = "done")

(* A child that reported a started server is killed only after it was     *)
(* sent the shutdown token: the spec says that on scoped exit the token is *)
(* sent before the timed join.  A child that reported a failure gets no    *)
(* token; it returns from _server_runner on its own.                       *)
KillOnlyAfterToken == proc = "killed" /\ toParent[1] => toChild = "SHUTDOWN"
-----------------------------------------------------------------------------
(* INDUCTIVE INVARIANT (proved in BackgroundServerProofs.tla)               *)

(* The server's invariant of Server.tla holds inside the child, the       *)
(* server thread is not started while create() runs, and the child exits  *)
(* only with its server thread not started or returned; after that no     *)
(* thread of the child moves.                                             *)
BGInv ==
    /\ BGTypeOK
    /\ DataTypeOK
    /\ OrderlyCore
    /\ pc["owner"] = "create" => pc["srv"] = "new"
    /\ proc = "exited" => pc["srv"] \in {"new", "done"}
=============================================================================

------------------------------- MODULE Server -------------------------------
(***************************************************************************)
(* Lifecycle of hivemind/moe/server/server.py's Server: the thread that    *)
(* owns the object (constructs it with start=True, waits for .ready, later *)
(* calls shutdown() and join(), as _server_runner does), the server thread *)
(* running Server.run, and the threads and processes run() starts: the     *)
(* Runtime (external; only its contract is modelled), the                  *)
(* DHTHandlerThread, the CheckpointSaver and the connection handlers.      *)
(*                                                                         *)
(* shutdown() is a sequence of steps that two threads may execute at the  *)
(* same time: the owner, and the server thread from the `finally` of run() *)
(* once runtime.run() returns.  Each thread's position in shutdown is a    *)
(* label of its pc.  The saver's own store cycles are Checkpoint.tla; here *)
(* it only matters that its loop ends once its stop event is set.          *)
(***************************************************************************)
EXTENDS Naturals

CONSTANTS
    WithSaver,   \* Server.__init__ got a checkpoint_dir (a CheckpointSaver exists)
    HasExperts   \* module_backends is non-empty (a DHTHandlerThread exists)

ASSUME ServerAssumption == WithSaver \in BOOLEAN /\ HasExperts \in BOOLEAN

(* The labels of shutdown(), in the order of its statements.               *)
SdLabels == {"sd_clear", "sd_handlers", "sd_dhtStop", "sd_dhtJoin",
             "sd_saverStop", "sd_saverJoin", "sd_dht", "sd_runtime"}

Threads == {"owner", "srv"}

VARIABLES
    pc,           \* pc[t]: where thread t is
    ready,        \* runtime.ready, the mp.Event returned by Server.ready
    runtime,      \* the Runtime: "idle", "starting", "serving", "stopped", "crashed"
    runtimeStop,  \* runtime.shutdown() was called
    dhtH,         \* the DHTHandlerThread: "none", "new", "running", "stopped"
    dhtStop,      \* dht_handler_thread.stop
    saver,        \* the CheckpointSaver thread: "none", "new", "running", "stopped"
    saverStop,    \* checkpoint_saver.stop
    handlers,     \* the ConnectionHandler processes: "new", "running", "stopped"
    dht,          \* the DHT node: "new", "up", "down"
    calls         \* number of shutdown() calls so far

serverVars == <<pc, ready, runtime, runtimeStop, dhtH, dhtStop, saver, saverStop,
                handlers, dht, calls>>

(* The types of the variables other than pc.                               *)
DataTypeOK ==
    /\ ready \in BOOLEAN
    /\ runtime \in {"idle", "starting", "serving", "stopped", "crashed"}
    /\ runtimeStop \in BOOLEAN
    /\ dhtH \in {"none", "new", "running", "stopped"}
    /\ dhtStop \in BOOLEAN
    /\ saver \in {"none", "new", "running", "stopped"}
    /\ saverStop \in BOOLEAN
    /\ handlers \in {"new", "running", "stopped"}
    /\ dht \in {"new", "up", "down"}
    /\ calls \in Nat

TypeOK ==
    /\ pc \in [Threads -> {"start", "await", "serving", "join", "done",
                           "new", "run", "runtime"} \cup SdLabels]
    /\ DataTypeOK

(* Server.__init__ has run (lines 71-90): handlers, the saver (whose       *)
(* constructor stored once), the runtime and the DHT handler exist, none   *)
(* started.  The DHT handed in may or may not be running.                  *)
ServerInit ==
    /\ pc = [t \in Threads |-> IF t = "owner" THEN "start" ELSE "new"]
    /\ ready = FALSE
    /\ runtime = "idle"
    /\ runtimeStop = FALSE
    /\ dhtH = IF HasExperts THEN "new" ELSE "none"
    /\ dhtStop = FALSE
    /\ saver = IF WithSaver THEN "new" ELSE "none"
    /\ saverStop = FALSE
    /\ handlers = "new"
    /\ dht \in {"new", "up"}
    /\ calls = 0

Goto(t, l) == pc' = [pc EXCEPT ![t] = l]

-----------------------------------------------------------------------------
(* shutdown(), lines 290-307, executed by thread t; it returns to the      *)
(* caller's next statement.                                                *)
AfterShutdown(t) == IF t = "owner" THEN "join" ELSE "done"

(* Mutant of ShutdownClear: ready.clear() is left out.                     *)
ShutdownClearMissing(t) ==
    /\ pc[t] = "sd_clear"
    /\ Goto(t, "sd_handlers")
    /\ UNCHANGED <<ready, runtime, runtimeStop, dhtH, dhtStop, saver, saverStop, handlers, dht, calls>>

ShutdownClear(t) ==
    /\ pc[t] = "sd_clear"
    /\ ready' = FALSE
    /\ Goto(t, "sd_handlers")
    /\ UNCHANGED <<runtime, runtimeStop, dhtH, dhtStop, saver, saverStop, handlers, dht, calls>>

ShutdownHandlers(t) ==
    /\ pc[t] = "sd_handlers"
    /\ handlers' = "stopped"
    /\ Goto(t, IF HasExperts THEN "sd_dhtStop" ELSE "sd_saverStop")
    /\ UNCHANGED <<ready, runtime, runtimeStop, dhtH, dhtStop, saver, saverStop, dht, calls>>

ShutdownDhtStop(t) ==
    /\ pc[t] = "sd_dhtStop"
    /\ dhtStop' = TRUE
    /\ Goto(t, "sd_dhtJoin")
    /\ UNCHANGED <<ready, runtime, runtimeStop, dhtH, saver, saverStop, handlers, dht, calls>>

(* Mutant of ShutdownDhtJoin: shutdown does not wait for the DHT handler.  *)
ShutdownDhtJoinSkipped(t) ==
    /\ pc[t] = "sd_dhtJoin"
    /\ Goto(t, IF WithSaver THEN "sd_saverStop" ELSE "sd_dht")
    /\ UNCHANGED <<ready, runtime, runtimeStop, dhtH, dhtStop, saver, saverStop, handlers, dht, calls>>

(* Thread.join blocks until the thread has ended.                          *)
ShutdownDhtJoin(t) ==
    /\ pc[t] = "sd_dhtJoin"
    /\ dhtH = "stopped"
    /\ Goto(t, IF WithSaver THEN "sd_saverStop" ELSE "sd_dht")
    /\ UNCHANGED <<ready, runtime, runtimeStop, dhtH, dhtStop, saver, saverStop, handlers, dht, calls>>

(* Mutant of ShutdownSaverStop: checkpoint_saver.stop.set() is left out   *)
(* before the join.                                                        *)
ShutdownSaverStopMissing(t) ==
    /\ pc[t] = "sd_saverStop"
    /\ Goto(t, IF WithSaver THEN "sd_saverJoin" ELSE "sd_dht")
    /\ UNCHANGED <<ready, runtime, runtimeStop, dhtH, dhtStop, saver, saverStop, handlers, dht, calls>>

ShutdownSaverStop(t) ==
    /\ pc[t] = "sd_saverStop"
    /\ IF WithSaver THEN /\ saverStop' = TRUE
                         /\ Goto(t, "sd_saverJoin")
                    ELSE /\ UNCHANGED saverStop
                         /\ Goto(t, "sd_dht")
    /\ UNCHANGED <<ready, runtime, runtimeStop, dhtH, dhtStop, saver, handlers, dht, calls>>

(* Mutant of ShutdownSaverJoin: shutdown does not wait for the saver.      *)
ShutdownSaverJoinSkipped(t) ==
    /\ pc[t] = "sd_saverJoin"
    /\ Goto(t, "sd_dht")
    /\ UNCHANGED <<ready, runtime, runtimeStop, dhtH, dhtStop, saver, saverStop, handlers, dht, calls>>

ShutdownSaverJoin(t) ==
    /\ pc[t] = "sd_saverJoin"
    /\ saver = "stopped"
    /\ Goto(t, "sd_dht")
    /\ UNCHANGED <<ready, runtime, runtimeStop, dhtH, dhtStop, saver, saverStop, handlers, dht, calls>>

ShutdownDht(t) ==
    /\ pc[t] = "sd_dht"
    /\ dht' = "down"
    /\ Goto(t, "sd_runtime")
    /\ UNCHANGED <<ready, runtime, runtimeStop, dhtH, dhtStop, saver, saverStop, handlers, calls>>

ShutdownRuntime(t) ==
    /\ pc[t] = "sd_runtime"
    /\ runtimeStop' = TRUE
    /\ Goto(t, AfterShutdown(t))
    /\ UNCHANGED <<ready, runtime, dhtH, dhtStop, saver, saverStop, handlers, dht, calls>>

ShutdownStep(t) ==
    \/ ShutdownClear(t)
    \/ ShutdownHandlers(t)
    \/ ShutdownDhtStop(t)
    \/ ShutdownDhtJoin(t)
    \/ ShutdownSaverStop(t)
    \/ ShutdownSaverJoin(t)
    \/ ShutdownDht(t)
    \/ ShutdownRuntime(t)


-----------------------------------------------------------------------------
(* Server.run on the server thread, lines 245-256: start the DHT if it is  *)
(* not alive (waiting for it), start the DHT handler, the saver and every  *)
(* connection handler, then enter runtime.run().                           *)
SrvRun ==
    /\ pc["srv"] = "run"
    /\ dht' = "up"
    /\ dhtH' = IF HasExperts THEN "running" ELSE "none"
    /\ saver' = IF WithSaver THEN "running" ELSE "none"
    /\ handlers' = "running"
    /\ runtime' = "starting"
    /\ Goto("srv", "runtime")
    /\ UNCHANGED <<ready, runtimeStop, dhtStop, saverStop, calls>>

(* runtime.run() returned or raised: the `finally` of run() calls          *)
(* shutdown(), lines 257-260.                                              *)
SrvFinally ==
    /\ pc["srv"] = "runtime"
    /\ runtime \in {"stopped", "crashed"}
    /\ calls' = calls + 1
    /\ Goto("srv", "sd_clear")
    /\ UNCHANGED <<ready, runtime, runtimeStop, dhtH, dhtStop, saver, saverStop, handlers, dht>>

(* The Runtime's contract: it sets ready once it serves, its run() returns *)
(* once runtime.shutdown() was called, and it may raise at any time.       *)
RuntimeReady ==
    /\ runtime = "starting"
    /\ ~runtimeStop
    /\ runtime' = "serving"
    /\ ready' = TRUE
    /\ UNCHANGED <<pc, runtimeStop, dhtH, dhtStop, saver, saverStop, handlers, dht, calls>>

RuntimeExit ==
    /\ runtime \in {"starting", "serving"}
    /\ runtimeStop
    /\ runtime' = "stopped"
    /\ UNCHANGED <<pc, ready, runtimeStop, dhtH, dhtStop, saver, saverStop, handlers, dht, calls>>

RuntimeCrash ==
    /\ runtime \in {"starting", "serving"}
    /\ runtime' = "crashed"
    /\ UNCHANGED <<pc, ready, runtimeStop, dhtH, dhtStop, saver, saverStop, handlers, dht, calls>>

(* The loops of DHTHandlerThread and CheckpointSaver.run end once their    *)
(* stop event is set (stop.wait returns True).                             *)
DhtHandlerExit ==
    /\ dhtH = "running"
    /\ dhtStop
    /\ dhtH' = "stopped"
    /\ UNCHANGED <<pc, ready, runtime, runtimeStop, dhtStop, saver, saverStop, handlers, dht, calls>>

SaverExit ==
    /\ saver = "running"
    /\ saverStop
    /\ saver' = "stopped"
    /\ UNCHANGED <<pc, ready, runtime, runtimeStop, dhtH, dhtStop, saverStop, handlers, dht, calls>>

(* run_in_background, lines 267-268: start the server thread and wait for  *)
(* ready (timeout=None: no deadline).                                      *)
OwnerStart ==
    /\ pc["owner"] = "start"
    /\ pc' = [pc EXCEPT !["owner"] = "await", !["srv"] = "run"]
    /\ UNCHANGED <<ready, runtime, runtimeStop, dhtH, dhtStop, saver, saverStop, handlers, dht, calls>>

OwnerReady ==
    /\ pc["owner"] = "await"
    /\ ready
    /\ Goto("owner", "serving")
    /\ UNCHANGED <<ready, runtime, runtimeStop, dhtH, dhtStop, saver, saverStop, handlers, dht, calls>>

(* The owner calls server.shutdown() (_server_runner line 350).           *)
OwnerShutdown ==
    /\ pc["owner"] = "serving"
    /\ calls' = calls + 1
    /\ Goto("owner", "sd_clear")
    /\ UNCHANGED <<ready, runtime, runtimeStop, dhtH, dhtStop, saver, saverStop, handlers, dht>>

(* Mutant of OwnerJoin: the owner does not wait for the server thread.     *)
OwnerJoinSkipped ==
    /\ pc["owner"] = "join"
    /\ Goto("owner", "done")
    /\ UNCHANGED <<ready, runtime, runtimeStop, dhtH, dhtStop, saver, saverStop, handlers, dht, calls>>

(* server.join() (_server_runner line 351).                                *)
OwnerJoin ==
    /\ pc["owner"] = "join"
    /\ pc["srv"] = "done"
    /\ Goto("owner", "done")
    /\ UNCHANGED <<ready, runtime, runtimeStop, dhtH, dhtStop, saver, saverStop, handlers, dht, calls>>

(* The steps of the server's threads once the server object exists, the   *)
(* owner's except its decision to call shutdown().                         *)
SrvStep == SrvRun \/ SrvFinally \/ ShutdownStep("srv")
OwnerStep == OwnerReady \/ ShutdownStep("owner") \/ OwnerJoin

ThreadsNext ==
    \/ SrvStep
    \/ OwnerStep
    \/ RuntimeReady \/ RuntimeExit \/ RuntimeCrash
    \/ DhtHandlerExit
    \/ SaverExit

ServerNext == ThreadsNext \/ OwnerStart \/ OwnerShutdown

ServerSpec == ServerInit /\ [][ServerNext]_serverVars

(* Every thread runs when it can: the owner, the server thread and the     *)
(* loops of the DHT handler and the saver, which wake on their events; the *)
(* runtime's run() returns after runtime.shutdown().  The owner's decision *)
(* to shut down, the runtime becoming ready and crashing are not forced.   *)
ServerFairness ==
    /\ WF_serverVars(OwnerStart)
    /\ WF_serverVars(OwnerStep)
    /\ WF_serverVars(SrvStep)
    /\ WF_serverVars(RuntimeExit)
    /\ WF_serverVars(DhtHandlerExit)
    /\ WF_serverVars(SaverExit)

FairServerSpec == ServerSpec /\ ServerFairness

-----------------------------------------------------------------------------
(* PROPERTIES                                                              *)

(* Everything the server started has ended: the server thread returned,   *)
(* the DHT handler and the saver threads ended, the handlers and the DHT   *)
(* are shut down, the runtime is no longer running and ready is clear.     *)
AllStopped ==
    /\ pc["srv"] \in {"new", "done"}
    /\ dhtH \in {"none", "stopped"}
    /\ saver \in {"none", "stopped"}
    /\ handlers = "stopped"
    /\ dht = "down"
    /\ runtime \in {"stopped", "crashed"}
    /\ ~ready

(* When the owner's shutdown() and join() have returned, the whole server  *)
(* has stopped and .ready is observed cleared (spec property 10), however  *)
(* the owner's shutdown interleaves with the one the server thread runs    *)
(* from run()'s finally: Server.shutdown, Server.run, _server_runner.      *)
OwnerDoneOrderly == pc["owner"] = "done" => AllStopped

(* Once the owner calls shutdown(), it and join() return and everything    *)
(* stops: no join waits on a thread that never ends (Server.shutdown).     *)
ShutdownCompletes == pc["owner"] = "sd_clear" ~> (pc["owner"] = "done" /\ AllStopped)

(* shutdown() is called at most once per server lifetime, as the spec says *)
(* it is designed to be (section 5).                                       *)
ShutdownOnce == calls <= 1
-----------------------------------------------------------------------------
(* REFINEMENT: Server implements ServerLifecycle                           *)

(* Some thread has entered shutdown(): the owner's call, or the one of     *)
(* run()'s finally.                                                        *)
ShutdownBegun ==
    \/ pc["owner"] \in SdLabels \cup {"join", "done"}
    \/ pc["srv"] \in SdLabels \cup {"done"}

(* The phase of the spec's state machine that a state of the server is in. *)
Phase ==
    IF AllStopped THEN "stopped"
    ELSE IF ShutdownBegun THEN "stopping"
    ELSE IF ready THEN "ready"
    ELSE IF pc["srv"] = "new" THEN "constructed"
    ELSE "running"

Lifecycle == INSTANCE ServerLifecycle WITH phase <- Phase

(* The server goes through the spec's lifecycle in order, never back, and *)
(* once shutting down it ends stopped, whichever thread's shutdown() runs  *)
(* first and however the runtime ends (section 4.6, Server.run and         *)
(* Server.shutdown).                                                       *)
LifecycleRefined == Lifecycle!FairSpec

-----------------------------------------------------------------------------
(* INDUCTIVE INVARIANT (proved in ServerProofs.tla)                         *)

(* What the server thread has already torn down at each label of its own  *)
(* shutdown() (the one run()'s finally calls): the labels after a step.   *)
AfterClear     == (SdLabels \ {"sd_clear"}) \cup {"done"}
AfterHandlers  == AfterClear \ {"sd_handlers"}
AfterDhtJoin   == {"sd_saverStop", "sd_saverJoin", "sd_dht", "sd_runtime", "done"}
AfterSaverJoin == {"sd_dht", "sd_runtime", "done"}
AfterDht       == {"sd_runtime", "done"}

(* The inductive invariant: the server thread only enters its shutdown    *)
(* once the runtime has returned, the runtime never starts again, so what *)
(* its shutdown stopped stays stopped, and the owner's join waits for it.  *)
OrderlyCore ==
    /\ ~HasExperts => dhtH = "none"
    /\ ~WithSaver => saver = "none"
    /\ pc["owner"] = "done" => pc["srv"] = "done"
    /\ pc["srv"] \in SdLabels \cup {"done"} => runtime \in {"stopped", "crashed"}
    /\ pc["srv"] \in AfterClear => ~ready
    /\ pc["srv"] \in AfterHandlers => handlers = "stopped"
    /\ pc["srv"] \in AfterDhtJoin => dhtH \in {"none", "stopped"}
    /\ pc["srv"] \in AfterSaverJoin => saver \in {"none", "stopped"}
    /\ pc["srv"] \in AfterDht => dht = "down"

OrderlyInv == TypeOK /\ OrderlyCore

=============================================================================

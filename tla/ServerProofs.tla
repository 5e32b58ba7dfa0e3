---------------------------- MODULE ServerProofs ----------------------------
(***************************************************************************)
(* Proofs about the Server lifecycle of Server.tla, for either value of    *)
(* WithSaver and HasExperts: the type invariant, and that once the owner's *)
(* shutdown() and join() returned the whole server has stopped.            *)
(***************************************************************************)
EXTENDS Server, TLAPS

Labels == {"start", "await", "serving", "join", "done", "new", "run", "runtime"} \cup SdLabels

(* A thread moving to a label keeps pc a function from threads to labels. *)
LEMMA GotoType ==
    ASSUME pc \in [Threads -> Labels], NEW t \in Threads, NEW l \in Labels, Goto(t, l)
    PROVE  pc' \in [Threads -> Labels]
BY DEF Goto

(* Every step of the server's threads keeps the variables well typed.      *)
LEMMA TypeNext == TypeOK /\ [ServerNext]_serverVars => TypeOK'
<1> SUFFICES ASSUME TypeOK, [ServerNext]_serverVars PROVE TypeOK'
  OBVIOUS
<1>0. pc \in [Threads -> Labels]
  BY DEF TypeOK, DataTypeOK, Labels
<1> DEFINE Rest == /\ ready \in BOOLEAN
                   /\ runtime \in {"idle", "starting", "serving", "stopped", "crashed"}
                   /\ runtimeStop \in BOOLEAN
                   /\ dhtH \in {"none", "new", "running", "stopped"}
                   /\ dhtStop \in BOOLEAN
                   /\ saver \in {"none", "new", "running", "stopped"}
                   /\ saverStop \in BOOLEAN
                   /\ handlers \in {"new", "running", "stopped"}
                   /\ dht \in {"new", "up", "down"}
                   /\ calls \in Nat
<1>r. Rest
  BY DEF TypeOK, DataTypeOK
<1>1. pc' \in [Threads -> Labels]
  <2>1. ASSUME NEW t \in Threads, ShutdownStep(t) PROVE pc' \in [Threads -> Labels]
    BY <2>1, <1>0, GotoType, ServerAssumption
    DEF ShutdownStep, ShutdownClear, ShutdownHandlers, ShutdownDhtStop,
        ShutdownDhtJoin, ShutdownSaverStop, ShutdownSaverJoin, ShutdownDht,
        ShutdownRuntime, AfterShutdown, Labels, SdLabels
  <2>2. CASE SrvRun \/ SrvFinally \/ OwnerReady \/ OwnerShutdown \/ OwnerJoin
    BY <2>2, <1>0, GotoType DEF SrvRun, SrvFinally, OwnerReady, OwnerShutdown,
       OwnerJoin, Threads, Labels, SdLabels
  <2>3. CASE OwnerStart
    BY <2>3, <1>0 DEF OwnerStart, Threads, Labels
  <2>4. CASE RuntimeReady \/ RuntimeExit \/ RuntimeCrash \/ DhtHandlerExit \/ SaverExit
        \/ UNCHANGED serverVars
    BY <2>4, <1>0 DEF RuntimeReady, RuntimeExit, RuntimeCrash, DhtHandlerExit,
       SaverExit, serverVars
  <2>5. QED
    BY <2>1, <2>2, <2>3, <2>4 DEF ServerNext, ThreadsNext, SrvStep, OwnerStep, Threads
<1>2. Rest'
  <2>1. ASSUME NEW t \in Threads, ShutdownStep(t) PROVE Rest'
    BY <2>1, <1>r DEF ShutdownStep, ShutdownClear, ShutdownHandlers, ShutdownDhtStop,
        ShutdownDhtJoin, ShutdownSaverStop, ShutdownSaverJoin, ShutdownDht,
        ShutdownRuntime
  <2>2. CASE SrvRun \/ SrvFinally \/ OwnerStart \/ OwnerReady \/ OwnerShutdown \/ OwnerJoin
    BY <2>2, <1>r, ServerAssumption DEF SrvRun, SrvFinally, OwnerStart, OwnerReady,
       OwnerShutdown, OwnerJoin
  <2>3. CASE RuntimeReady \/ RuntimeExit \/ RuntimeCrash \/ DhtHandlerExit \/ SaverExit
        \/ UNCHANGED serverVars
    BY <2>3, <1>r DEF RuntimeReady, RuntimeExit, RuntimeCrash, DhtHandlerExit,
       SaverExit, serverVars
  <2>4. QED
    BY <2>1, <2>2, <2>3 DEF ServerNext, ThreadsNext, SrvStep, OwnerStep, Threads
<1>3. QED
  BY <1>1, <1>2 DEF TypeOK, DataTypeOK, Labels

(* The initial state is well typed.                                       *)
LEMMA ServerInitType == ServerInit => TypeOK
<1> SUFFICES ASSUME ServerInit PROVE TypeOK
  OBVIOUS
<1>1. pc \in [Threads -> Labels]
  BY DEF ServerInit, Threads, Labels
<1>2. dhtH \in {"none", "new", "running", "stopped"} /\ saver \in {"none", "new", "running", "stopped"}
  BY DEF ServerInit
<1>3. QED
  BY <1>1, <1>2 DEF ServerInit, TypeOK, DataTypeOK, Labels

(* The variables of the server stay well typed in every reachable state.  *)
THEOREM ServerTypeCorrect == ServerSpec => []TypeOK
BY ServerInitType, TypeNext, PTL DEF ServerSpec

-----------------------------------------------------------------------------
(* OrderlyInv holds when the server object has just been constructed.    *)
LEMMA OrderlyInit == ServerInit => OrderlyInv
<1> SUFFICES ASSUME ServerInit PROVE OrderlyInv
  OBVIOUS
<1>1. TypeOK
  BY ServerInitType
<1>2. QED
  BY <1>1 DEF ServerInit, OrderlyInv, OrderlyCore, Threads, SdLabels, AfterClear, AfterHandlers,
     AfterDhtJoin, AfterSaverJoin, AfterDht

(* Every step of the server's threads preserves OrderlyInv.                *)
LEMMA OrderlyNext == OrderlyInv /\ [ServerNext]_serverVars => OrderlyInv'
<1> SUFFICES ASSUME OrderlyInv, [ServerNext]_serverVars PROVE OrderlyInv'
  OBVIOUS
<1>0. TypeOK'
  BY TypeNext DEF OrderlyInv
<1> USE <1>0, ServerAssumption DEF OrderlyInv, OrderlyCore, TypeOK, DataTypeOK, Goto, Threads, SdLabels, AfterClear,
        AfterHandlers, AfterDhtJoin, AfterSaverJoin, AfterDht
<1>1. ASSUME NEW t \in Threads, ShutdownClear(t) PROVE OrderlyInv'
  BY <1>1 DEF ShutdownClear
<1>2. ASSUME NEW t \in Threads, ShutdownHandlers(t) PROVE OrderlyInv'
  BY <1>2 DEF ShutdownHandlers
<1>3. ASSUME NEW t \in Threads, ShutdownDhtStop(t) PROVE OrderlyInv'
  BY <1>3 DEF ShutdownDhtStop
<1>4. ASSUME NEW t \in Threads, ShutdownDhtJoin(t) PROVE OrderlyInv'
  BY <1>4 DEF ShutdownDhtJoin
<1>5. ASSUME NEW t \in Threads, ShutdownSaverStop(t) PROVE OrderlyInv'
  BY <1>5 DEF ShutdownSaverStop
<1>6. ASSUME NEW t \in Threads, ShutdownSaverJoin(t) PROVE OrderlyInv'
  BY <1>6 DEF ShutdownSaverJoin
<1>7. ASSUME NEW t \in Threads, ShutdownDht(t) PROVE OrderlyInv'
  BY <1>7 DEF ShutdownDht
<1>8. ASSUME NEW t \in Threads, ShutdownRuntime(t) PROVE OrderlyInv'
  BY <1>8 DEF ShutdownRuntime, AfterShutdown
<1>9. CASE SrvRun
  BY <1>9 DEF SrvRun
<1>10. CASE SrvFinally
  BY <1>10 DEF SrvFinally
<1>11. CASE RuntimeReady \/ RuntimeExit \/ RuntimeCrash
  BY <1>11 DEF RuntimeReady, RuntimeExit, RuntimeCrash
<1>12. CASE DhtHandlerExit \/ SaverExit
  BY <1>12 DEF DhtHandlerExit, SaverExit
<1>13. CASE OwnerStart \/ OwnerReady \/ OwnerShutdown
  BY <1>13 DEF OwnerStart, OwnerReady, OwnerShutdown
<1>14. CASE OwnerJoin
  BY <1>14 DEF OwnerJoin
<1>15. CASE UNCHANGED serverVars
  BY <1>15 DEF serverVars
<1>16. QED
  BY <1>1, <1>2, <1>3, <1>4, <1>5, <1>6, <1>7, <1>8, <1>9, <1>10, <1>11, <1>12,
     <1>13, <1>14, <1>15
  DEF ServerNext, ThreadsNext, SrvStep, OwnerStep, ShutdownStep

(* The inductive invariant holds in every reachable state: whatever the   *)
(* interleaving of the two shutdown() calls, what the server thread's own *)
(* shutdown has passed is stopped, it runs only after the runtime         *)
(* returned, and the owner is done only after the server thread.          *)
THEOREM OrderlyInvariant == ServerSpec => []OrderlyInv
BY OrderlyInit, OrderlyNext, PTL DEF ServerSpec

(* When the owner's shutdown() and join() have returned, everything the    *)
(* server started has stopped and ready is clear, for either value of the  *)
(* constants (Server.shutdown, Server.run, _server_runner).               *)
THEOREM OwnerDoneOrderlyThm == ServerSpec => []OwnerDoneOrderly
<1>1. OrderlyInv => OwnerDoneOrderly
  BY DEF OrderlyInv, OrderlyCore, OwnerDoneOrderly, AllStopped, TypeOK, DataTypeOK, AfterClear, AfterHandlers,
     AfterDhtJoin, AfterSaverJoin, AfterDht, SdLabels
<1>2. QED
  BY <1>1, OrderlyInit, OrderlyNext, PTL DEF ServerSpec
-----------------------------------------------------------------------------
(* REFINEMENT of ServerLifecycle (safety part)                             *)

(* The server thread is new exactly until the owner starts it (OwnerStart),*)
(* and while it is new the runtime is idle, ready is clear and no handler  *)
(* has started.                                                            *)
LifecycleInv ==
    /\ TypeOK
    /\ pc["owner"] = "start" => pc["srv"] = "new"
    /\ pc["srv"] = "new" =>
         /\ pc["owner"] = "start"
         /\ runtime = "idle"
         /\ ~ready
         /\ handlers = "new"

(* LifecycleInv holds when the server object has just been constructed.  *)
LEMMA LifecycleInvInit == ServerInit => LifecycleInv
BY ServerInitType DEF ServerInit, LifecycleInv, Threads

(* Every step of the owner and the server threads keeps LifecycleInv.     *)
LEMMA LifecycleInvNext == LifecycleInv /\ [ServerNext]_serverVars => LifecycleInv'
<1> SUFFICES ASSUME LifecycleInv, [ServerNext]_serverVars PROVE LifecycleInv'
  OBVIOUS
<1>1. TypeOK'
  BY TypeNext DEF LifecycleInv
<1> USE <1>1, ServerAssumption DEF LifecycleInv, TypeOK, DataTypeOK, Goto, Threads, SdLabels
<1>2. ASSUME NEW t \in Threads, ShutdownStep(t) PROVE LifecycleInv'
  BY <1>2 DEF ShutdownStep, ShutdownClear, ShutdownHandlers, ShutdownDhtStop,
     ShutdownDhtJoin, ShutdownSaverStop, ShutdownSaverJoin, ShutdownDht, ShutdownRuntime,
     AfterShutdown
<1>3. CASE SrvRun \/ SrvFinally \/ OwnerStart \/ OwnerReady \/ OwnerShutdown \/ OwnerJoin
  BY <1>3 DEF SrvRun, SrvFinally, OwnerStart, OwnerReady, OwnerShutdown, OwnerJoin
<1>4. CASE RuntimeReady \/ RuntimeExit \/ RuntimeCrash \/ DhtHandlerExit \/ SaverExit
  BY <1>4 DEF RuntimeReady, RuntimeExit, RuntimeCrash, DhtHandlerExit, SaverExit
<1>5. CASE UNCHANGED serverVars
  BY <1>5 DEF serverVars
<1>6. QED
  BY <1>2, <1>3, <1>4, <1>5 DEF ServerNext, ThreadsNext, SrvStep, OwnerStep

(* The facts about one step that decide how Phase may move: what is       *)
(* stopped stays stopped, a begun shutdown stays begun, ready is only      *)
(* cleared by a shutdown, the server thread never becomes new again, it   *)
(* only ends inside a shutdown it already began, and nothing becomes ready *)
(* or shuts down in the step that starts it.                               *)
LEMMA PhaseFacts ==
    ASSUME LifecycleInv, LifecycleInv', [ServerNext]_serverVars
    PROVE  /\ AllStopped => ShutdownBegun
           /\ AllStopped' => ShutdownBegun'
           /\ AllStopped => AllStopped'
           /\ ShutdownBegun => ShutdownBegun'
           /\ ~ShutdownBegun /\ ready => ready'
           /\ pc["srv"] # "new" => pc'["srv"] # "new"
           /\ pc["srv"] = "new" => ~ready /\ ~ShutdownBegun
           /\ pc'["srv"] = "new" => ~ready' /\ ~ShutdownBegun'
           /\ AllStopped' => ShutdownBegun
           /\ pc["srv"] = "new" => ~ready' /\ ~ShutdownBegun'
<1> USE ServerAssumption DEF LifecycleInv, TypeOK, DataTypeOK, Goto, Threads, SdLabels
<1>1. AllStopped => ShutdownBegun
  BY DEF AllStopped, ShutdownBegun
<1>2. AllStopped' => ShutdownBegun'
  BY DEF AllStopped, ShutdownBegun
<1>3. pc["srv"] = "new" => ~ready /\ ~ShutdownBegun
  BY DEF ShutdownBegun
<1>4. pc'["srv"] = "new" => ~ready' /\ ~ShutdownBegun'
  BY DEF ShutdownBegun
<1>5. ASSUME NEW t \in Threads, ShutdownStep(t)
      PROVE  /\ AllStopped => AllStopped'
             /\ ShutdownBegun => ShutdownBegun'
             /\ ~ShutdownBegun /\ ready => ready'
             /\ pc["srv"] # "new" => pc'["srv"] # "new"
             /\ AllStopped' => ShutdownBegun
             /\ pc["srv"] = "new" => ~ready' /\ ~ShutdownBegun'
  <2>1. ShutdownBegun /\ ShutdownBegun'
    BY <1>5 DEF ShutdownStep, ShutdownClear, ShutdownHandlers, ShutdownDhtStop,
       ShutdownDhtJoin, ShutdownSaverStop, ShutdownSaverJoin, ShutdownDht, ShutdownRuntime,
       AfterShutdown, ShutdownBegun
  <2>2. AllStopped => AllStopped'
    BY <1>5 DEF ShutdownStep, ShutdownClear, ShutdownHandlers, ShutdownDhtStop,
       ShutdownDhtJoin, ShutdownSaverStop, ShutdownSaverJoin, ShutdownDht, ShutdownRuntime,
       AfterShutdown, AllStopped
  <2>3. pc["srv"] # "new" => pc'["srv"] # "new"
    BY <1>5 DEF ShutdownStep, ShutdownClear, ShutdownHandlers, ShutdownDhtStop,
       ShutdownDhtJoin, ShutdownSaverStop, ShutdownSaverJoin, ShutdownDht, ShutdownRuntime,
       AfterShutdown
  <2>4. pc["srv"] # "new"
    BY <2>1 DEF ShutdownBegun
  <2>5. QED
    BY <2>1, <2>2, <2>3, <2>4
<1>6. ASSUME ~ShutdownStep("owner"), ~ShutdownStep("srv")
      PROVE  /\ AllStopped => AllStopped'
             /\ ShutdownBegun => ShutdownBegun'
             /\ ~ShutdownBegun /\ ready => ready'
             /\ pc["srv"] # "new" => pc'["srv"] # "new"
             /\ AllStopped' => ShutdownBegun
             /\ pc["srv"] = "new" => ~ready' /\ ~ShutdownBegun'
  <2>1. CASE SrvRun
    BY <2>1 DEF SrvRun, AllStopped, ShutdownBegun
  <2>2. CASE OwnerStart
    BY <2>2 DEF OwnerStart, AllStopped, ShutdownBegun
  <2>3. CASE OwnerReady
    BY <2>3 DEF OwnerReady, AllStopped, ShutdownBegun
  <2>4. CASE SrvFinally
    BY <2>4 DEF SrvFinally, AllStopped, ShutdownBegun
  <2>5. CASE OwnerShutdown
    BY <2>5 DEF OwnerShutdown, AllStopped, ShutdownBegun
  <2>6. CASE OwnerJoin
    BY <2>6 DEF OwnerJoin, AllStopped, ShutdownBegun
  <2>7. CASE RuntimeReady
    BY <2>7 DEF RuntimeReady, AllStopped, ShutdownBegun
  <2>8. CASE RuntimeExit
    BY <2>8 DEF RuntimeExit, AllStopped, ShutdownBegun
  <2>9. CASE RuntimeCrash
    BY <2>9 DEF RuntimeCrash, AllStopped, ShutdownBegun
  <2>10. CASE DhtHandlerExit
    BY <2>10 DEF DhtHandlerExit, AllStopped, ShutdownBegun
  <2>11. CASE SaverExit
    BY <2>11 DEF SaverExit, AllStopped, ShutdownBegun
  <2>12. CASE UNCHANGED serverVars
    BY <2>12 DEF serverVars, AllStopped, ShutdownBegun
  <2>13. QED
    BY <1>6, <2>1, <2>2, <2>3, <2>4, <2>5, <2>6, <2>7, <2>8, <2>9, <2>10, <2>11, <2>12
       DEF ServerNext, ThreadsNext, SrvStep, OwnerStep
<1>7. QED
  BY <1>1, <1>2, <1>3, <1>4, <1>5, <1>6

(* The server implements the lifecycle of the spec's section 4.6: it      *)
(* starts constructed and every step of its threads is a step of the      *)
(* lifecycle under the mapping Phase, or leaves the phase as it is.       *)
THEOREM ServerRefinesLifecycle == ServerSpec => Lifecycle!Spec
<1>1. ServerInit => Lifecycle!Init
  BY DEF ServerInit, Lifecycle!Init, Phase, AllStopped, ShutdownBegun, Threads, SdLabels
<1>2. LifecycleInv /\ LifecycleInv' /\ [ServerNext]_serverVars => [Lifecycle!Next]_Phase
  <2> SUFFICES ASSUME LifecycleInv, LifecycleInv', [ServerNext]_serverVars
               PROVE  [Lifecycle!Next]_Phase
    OBVIOUS
  <2> USE PhaseFacts DEF Lifecycle!Next, Lifecycle!Start, Lifecycle!BecomeReady,
          Lifecycle!BeginShutdown, Lifecycle!Finish, Phase
  <2>1. CASE AllStopped
    BY <2>1
  <2>2. CASE ~AllStopped /\ ShutdownBegun
    BY <2>2
  <2>3. CASE ~ShutdownBegun /\ ready
    BY <2>3
  <2>4. CASE ~ShutdownBegun /\ ~ready /\ pc["srv"] = "new"
    BY <2>4
  <2>5. CASE ~ShutdownBegun /\ ~ready /\ pc["srv"] # "new"
    BY <2>5
  <2>6. QED
    BY <2>1, <2>2, <2>3, <2>4, <2>5
<1>3. QED
  BY <1>1, <1>2, LifecycleInvInit, LifecycleInvNext, PTL DEF ServerSpec, Lifecycle!Spec
=============================================================================

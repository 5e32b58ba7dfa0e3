------------------------ MODULE BackgroundServerProofs ------------------------
(***************************************************************************)
(* Proofs about background_server and _server_runner (BackgroundServer.tla) *)
(* for every value of HasExperts and CheckpointDirGiven: the types, that  *)
(* a child process that exits on its own leaves nothing running, and that *)
(* the child's server goes through the lifecycle of ServerLifecycle.tla.  *)
(***************************************************************************)
EXTENDS BackgroundServer, TLAPS

BGLabels == {"create", "await", "serving", "recv", "returned", "join",
             "done", "new", "run", "runtime"} \cup SdLabels

(* A thread of the child moving to a label keeps pc well typed.           *)
LEMMA BGGotoType ==
    ASSUME pc \in [Threads -> BGLabels], NEW t \in Threads, NEW l \in BGLabels, Goto(t, l)
    PROVE  pc' \in [Threads -> BGLabels]
BY DEF Goto

(* BGInv holds when background_server is entered, before runner.start(). *)
LEMMA BGInitInv == BGInit => BGInv
<1> SUFFICES ASSUME BGInit PROVE BGInv
  OBVIOUS
<1>1. pc \in [Threads -> BGLabels]
  BY DEF BGInit, Threads, BGLabels
<1>2. QED
  BY <1>1, ServerAssumption, BackgroundAssumption
  DEF BGInit, BGInv, BGTypeOK, BGLabels, DataTypeOK, OrderlyCore, NoMsg, Threads, SdLabels,
      AfterClear, AfterHandlers, AfterDhtJoin, AfterSaverJoin, AfterDht

(* The conjuncts of BGInv apart from the types, for the steps below.       *)
BGCore ==
    /\ pc["owner"] = "create" => pc["srv"] = "new"
    /\ proc = "exited" => pc["srv"] \in {"new", "done"}

(* A step of the parent changes none of the child's variables.            *)
LEMMA ParentStepInv == BGInv /\ ParentStep => BGInv'
<1> SUFFICES ASSUME BGTypeOK, DataTypeOK, OrderlyCore, BGCore, ParentStep
             PROVE  BGTypeOK' /\ DataTypeOK' /\ OrderlyCore' /\ BGCore'
  BY DEF BGInv, BGCore
<1> DEFINE Steps == ParentStart \/ ParentRecv \/ ParentBodyExit \/ ParentBodyRaise
                    \/ ParentJoined \/ ParentKill
<1>0. Steps /\ UNCHANGED serverVars
  BY DEF ParentStep, ParentStart, ParentRecv, ParentBodyExit, ParentBodyRaise,
         ParentJoined, ParentKill
<1>1. BGTypeOK'
  BY <1>0 DEF BGTypeOK, NoMsg, CreateErrors, serverVars, Threads, SdLabels, ParentStart,
     ParentRecv, ParentBodyExit, ParentBodyRaise, ParentJoined, ParentKill
<1>2. DataTypeOK' /\ OrderlyCore'
  BY <1>0 DEF DataTypeOK, OrderlyCore, serverVars
<1>3. BGCore'
  BY <1>0 DEF BGCore, serverVars, ParentStart, ParentRecv, ParentBodyExit,
     ParentBodyRaise, ParentJoined, ParentKill
<1>4. QED
  BY <1>1, <1>2, <1>3

(* A step of the child's main thread outside shutdown().                   *)
LEMMA ChildStepInv == BGInv /\ Alive(ChildStep) => BGInv'
<1> SUFFICES ASSUME BGTypeOK, DataTypeOK, OrderlyCore, BGCore, proc = "alive", ChildStep
             PROVE  BGTypeOK' /\ DataTypeOK' /\ OrderlyCore' /\ BGCore'
  BY DEF BGInv, BGCore, Alive
<1> USE ServerAssumption, BackgroundAssumption DEF Goto, Threads, SdLabels, AfterClear,
        AfterHandlers, AfterDhtJoin, AfterSaverJoin, AfterDht
<1> DEFINE Rest == DataTypeOK /\ OrderlyCore /\ BGCore
<1> USE DEF Rest
<1>0. pc \in [Threads -> BGLabels]
  BY DEF BGTypeOK, BGLabels
<1> USE <1>0
<1>1. CASE ChildCreateFail
  <2>1. BGTypeOK'
    BY <1>1 DEF ChildCreateFail, BGTypeOK, NoMsg, CreateErrors
  <2>2. Rest'
    <3>1. DataTypeOK'
      BY <1>1 DEF ChildCreateFail, DataTypeOK
    <3>2. OrderlyCore'
      BY <1>1 DEF ChildCreateFail, OrderlyCore, BGCore
    <3>3. BGCore'
      BY <1>1 DEF ChildCreateFail, BGCore
    <3>4. QED
      BY <3>1, <3>2, <3>3
  <2>3. QED
    BY <2>1, <2>2
<1>2. CASE ChildCreateOk
  <2>1. BGTypeOK'
    BY <1>2 DEF ChildCreateOk, BGTypeOK
  <2>2. Rest'
    <3>1. DataTypeOK'
      BY <1>2 DEF ChildCreateOk, DataTypeOK
    <3>2. OrderlyCore'
      BY <1>2 DEF ChildCreateOk, OrderlyCore, BGCore
    <3>3. BGCore'
      BY <1>2 DEF ChildCreateOk, BGCore
    <3>4. QED
      BY <3>1, <3>2, <3>3
  <2>3. QED
    BY <2>1, <2>2
<1>3. CASE ChildSendOk
  <2>1. BGTypeOK'
    BY <1>3 DEF ChildSendOk, BGTypeOK, NoMsg, CreateErrors
  <2>2. Rest'
    <3>1. DataTypeOK'
      BY <1>3 DEF ChildSendOk, DataTypeOK
    <3>2. OrderlyCore'
      BY <1>3 DEF ChildSendOk, OrderlyCore, BGCore
    <3>3. BGCore'
      BY <1>3 DEF ChildSendOk, BGCore
    <3>4. QED
      BY <3>1, <3>2, <3>3
  <2>3. QED
    BY <2>1, <2>2
<1>4. CASE ChildRecvShutdown
  <2>1. BGTypeOK'
    BY <1>4 DEF ChildRecvShutdown, BGTypeOK
  <2>2. Rest'
    <3>1. DataTypeOK'
      BY <1>4 DEF ChildRecvShutdown, DataTypeOK
    <3>2. OrderlyCore'
      BY <1>4 DEF ChildRecvShutdown, OrderlyCore, BGCore
    <3>3. BGCore'
      BY <1>4 DEF ChildRecvShutdown, BGCore
    <3>4. QED
      BY <3>1, <3>2, <3>3
  <2>3. QED
    BY <2>1, <2>2
<1>5. CASE ChildExit
  <2>1. BGTypeOK'
    BY <1>5 DEF ChildExit, serverVars, BGTypeOK
  <2>2. Rest'
    <3>1. DataTypeOK'
      BY <1>5 DEF ChildExit, serverVars, DataTypeOK
    <3>2. OrderlyCore'
      BY <1>5 DEF ChildExit, serverVars, OrderlyCore, BGCore
    <3>3. BGCore'
      BY <1>5 DEF ChildExit, serverVars, BGCore
    <3>4. QED
      BY <3>1, <3>2, <3>3
  <2>3. QED
    BY <2>1, <2>2
<1>6. QED
  BY <1>1, <1>2, <1>3, <1>4, <1>5 DEF ChildStep

(* A step of the server's threads inside the live child.                   *)
LEMMA ThreadsStepInv == BGInv /\ InChild(ThreadsNext) => BGInv'
<1> SUFFICES ASSUME BGTypeOK, DataTypeOK, OrderlyCore, BGCore, proc = "alive", ThreadsNext,
                    UNCHANGED <<parent, proc, toParent, toChild>>
             PROVE  BGTypeOK' /\ DataTypeOK' /\ OrderlyCore' /\ BGCore'
  BY DEF BGInv, BGCore, InChild, Alive
<1> USE ServerAssumption, BackgroundAssumption DEF Goto, Threads, SdLabels, AfterClear,
        AfterHandlers, AfterDhtJoin, AfterSaverJoin, AfterDht
<1> DEFINE Rest == DataTypeOK /\ OrderlyCore /\ BGCore
<1> USE DEF Rest
<1>0. pc \in [Threads -> BGLabels]
  BY DEF BGTypeOK, BGLabels
<1> USE <1>0
<1>1. ASSUME NEW t \in Threads, ShutdownClear(t)
      PROVE  BGTypeOK' /\ Rest'
  <2>1. BGTypeOK'
    BY <1>1 DEF ShutdownClear, BGTypeOK, BGLabels, NoMsg, CreateErrors
  <2>2. Rest'
    <3>1. DataTypeOK'
      BY <1>1 DEF ShutdownClear, DataTypeOK
    <3>2. OrderlyCore'
      BY <1>1 DEF ShutdownClear, OrderlyCore, BGCore
    <3>3. BGCore'
      BY <1>1 DEF ShutdownClear, BGCore
    <3>4. QED
      BY <3>1, <3>2, <3>3
  <2>3. QED
    BY <2>1, <2>2
<1>2. ASSUME NEW t \in Threads, ShutdownHandlers(t)
      PROVE  BGTypeOK' /\ Rest'
  <2>1. BGTypeOK'
    BY <1>2 DEF ShutdownHandlers, BGTypeOK, BGLabels, NoMsg, CreateErrors
  <2>2. Rest'
    <3>1. DataTypeOK'
      BY <1>2 DEF ShutdownHandlers, DataTypeOK
    <3>2. OrderlyCore'
      BY <1>2 DEF ShutdownHandlers, OrderlyCore, BGCore
    <3>3. BGCore'
      BY <1>2 DEF ShutdownHandlers, BGCore
    <3>4. QED
      BY <3>1, <3>2, <3>3
  <2>3. QED
    BY <2>1, <2>2
<1>3. ASSUME NEW t \in Threads, ShutdownDhtStop(t)
      PROVE  BGTypeOK' /\ Rest'
  <2>1. BGTypeOK'
    BY <1>3 DEF ShutdownDhtStop, BGTypeOK, BGLabels, NoMsg, CreateErrors
  <2>2. Rest'
    <3>1. DataTypeOK'
      BY <1>3 DEF ShutdownDhtStop, DataTypeOK
    <3>2. OrderlyCore'
      BY <1>3 DEF ShutdownDhtStop, OrderlyCore, BGCore
    <3>3. BGCore'
      BY <1>3 DEF ShutdownDhtStop, BGCore
    <3>4. QED
      BY <3>1, <3>2, <3>3
  <2>3. QED
    BY <2>1, <2>2
<1>4. ASSUME NEW t \in Threads, ShutdownDhtJoin(t)
      PROVE  BGTypeOK' /\ Rest'
  <2>1. BGTypeOK'
    BY <1>4 DEF ShutdownDhtJoin, BGTypeOK, BGLabels, NoMsg, CreateErrors
  <2>2. Rest'
    <3>1. DataTypeOK'
      BY <1>4 DEF ShutdownDhtJoin, DataTypeOK
    <3>2. OrderlyCore'
      BY <1>4 DEF ShutdownDhtJoin, OrderlyCore, BGCore
    <3>3. BGCore'
      BY <1>4 DEF ShutdownDhtJoin, BGCore
    <3>4. QED
      BY <3>1, <3>2, <3>3
  <2>3. QED
    BY <2>1, <2>2
<1>5. ASSUME NEW t \in Threads, ShutdownSaverStop(t)
      PROVE  BGTypeOK' /\ Rest'
  <2>1. BGTypeOK'
    BY <1>5 DEF ShutdownSaverStop, BGTypeOK, BGLabels, NoMsg, CreateErrors
  <2>2. Rest'
    <3>1. DataTypeOK'
      BY <1>5 DEF ShutdownSaverStop, DataTypeOK
    <3>2. OrderlyCore'
      BY <1>5 DEF ShutdownSaverStop, OrderlyCore, BGCore
    <3>3. BGCore'
      BY <1>5 DEF ShutdownSaverStop, BGCore
    <3>4. QED
      BY <3>1, <3>2, <3>3
  <2>3. QED
    BY <2>1, <2>2
<1>6. ASSUME NEW t \in Threads, ShutdownSaverJoin(t)
      PROVE  BGTypeOK' /\ Rest'
  <2>1. BGTypeOK'
    BY <1>6 DEF ShutdownSaverJoin, BGTypeOK, BGLabels, NoMsg, CreateErrors
  <2>2. Rest'
    <3>1. DataTypeOK'
      BY <1>6 DEF ShutdownSaverJoin, DataTypeOK
    <3>2. OrderlyCore'
      BY <1>6 DEF ShutdownSaverJoin, OrderlyCore, BGCore
    <3>3. BGCore'
      BY <1>6 DEF ShutdownSaverJoin, BGCore
    <3>4. QED
      BY <3>1, <3>2, <3>3
  <2>3. QED
    BY <2>1, <2>2
<1>7. ASSUME NEW t \in Threads, ShutdownDht(t)
      PROVE  BGTypeOK' /\ Rest'
  <2>1. BGTypeOK'
    BY <1>7 DEF ShutdownDht, BGTypeOK, BGLabels, NoMsg, CreateErrors
  <2>2. Rest'
    <3>1. DataTypeOK'
      BY <1>7 DEF ShutdownDht, DataTypeOK
    <3>2. OrderlyCore'
      BY <1>7 DEF ShutdownDht, OrderlyCore, BGCore
    <3>3. BGCore'
      BY <1>7 DEF ShutdownDht, BGCore
    <3>4. QED
      BY <3>1, <3>2, <3>3
  <2>3. QED
    BY <2>1, <2>2
<1>8. ASSUME NEW t \in Threads, ShutdownRuntime(t)
      PROVE  BGTypeOK' /\ Rest'
  <2>1. BGTypeOK'
    BY <1>8 DEF ShutdownRuntime, AfterShutdown, BGTypeOK, BGLabels, NoMsg, CreateErrors
  <2>2. Rest'
    <3>1. DataTypeOK'
      BY <1>8 DEF ShutdownRuntime, AfterShutdown, DataTypeOK
    <3>2. OrderlyCore'
      BY <1>8 DEF ShutdownRuntime, AfterShutdown, OrderlyCore, BGCore
    <3>3. BGCore'
      BY <1>8 DEF ShutdownRuntime, AfterShutdown, BGCore
    <3>4. QED
      BY <3>1, <3>2, <3>3
  <2>3. QED
    BY <2>1, <2>2
<1>9. CASE SrvRun
  <2>1. BGTypeOK'
    BY <1>9 DEF SrvRun, BGTypeOK, BGLabels, NoMsg, CreateErrors
  <2>2. Rest'
    <3>1. DataTypeOK'
      BY <1>9 DEF SrvRun, DataTypeOK
    <3>2. OrderlyCore'
      BY <1>9 DEF SrvRun, OrderlyCore, BGCore
    <3>3. BGCore'
      BY <1>9 DEF SrvRun, BGCore
    <3>4. QED
      BY <3>1, <3>2, <3>3
  <2>3. QED
    BY <2>1, <2>2
<1>10. CASE SrvFinally
  <2>1. BGTypeOK'
    BY <1>10 DEF SrvFinally, BGTypeOK, BGLabels, NoMsg, CreateErrors
  <2>2. Rest'
    <3>1. DataTypeOK'
      BY <1>10 DEF SrvFinally, DataTypeOK
    <3>2. OrderlyCore'
      BY <1>10 DEF SrvFinally, OrderlyCore, BGCore
    <3>3. BGCore'
      BY <1>10 DEF SrvFinally, BGCore
    <3>4. QED
      BY <3>1, <3>2, <3>3
  <2>3. QED
    BY <2>1, <2>2
<1>11. CASE OwnerReady
  <2>1. BGTypeOK'
    BY <1>11 DEF OwnerReady, BGTypeOK, BGLabels, NoMsg, CreateErrors
  <2>2. DataTypeOK'
    BY <1>11 DEF OwnerReady, DataTypeOK
  <2>3. OrderlyCore'
    BY <1>11 DEF OwnerReady, OrderlyCore, BGCore
  <2>4. BGCore'
    BY <1>11 DEF OwnerReady, BGCore
  <2>5. QED
    BY <2>1, <2>2, <2>3, <2>4
<1>12. CASE OwnerJoin
  <2>1. BGTypeOK'
    BY <1>12 DEF OwnerJoin, BGTypeOK, BGLabels, NoMsg, CreateErrors
  <2>2. DataTypeOK'
    BY <1>12 DEF OwnerJoin, DataTypeOK
  <2>3. OrderlyCore'
    BY <1>12 DEF OwnerJoin, OrderlyCore, BGCore
  <2>4. BGCore'
    BY <1>12 DEF OwnerJoin, BGCore
  <2>5. QED
    BY <2>1, <2>2, <2>3, <2>4
<1>13. CASE RuntimeReady
  <2>1. BGTypeOK'
    BY <1>13 DEF RuntimeReady, BGTypeOK, BGLabels, NoMsg, CreateErrors
  <2>2. DataTypeOK'
    BY <1>13 DEF RuntimeReady, DataTypeOK
  <2>3. OrderlyCore'
    BY <1>13 DEF RuntimeReady, OrderlyCore, BGCore
  <2>4. BGCore'
    BY <1>13 DEF RuntimeReady, BGCore
  <2>5. QED
    BY <2>1, <2>2, <2>3, <2>4
<1>14. CASE RuntimeExit
  <2>1. BGTypeOK'
    BY <1>14 DEF RuntimeExit, BGTypeOK, BGLabels, NoMsg, CreateErrors
  <2>2. DataTypeOK'
    BY <1>14 DEF RuntimeExit, DataTypeOK
  <2>3. OrderlyCore'
    BY <1>14 DEF RuntimeExit, OrderlyCore, BGCore
  <2>4. BGCore'
    BY <1>14 DEF RuntimeExit, BGCore
  <2>5. QED
    BY <2>1, <2>2, <2>3, <2>4
<1>15. CASE RuntimeCrash
  <2>1. BGTypeOK'
    BY <1>15 DEF RuntimeCrash, BGTypeOK, BGLabels, NoMsg, CreateErrors
  <2>2. DataTypeOK'
    BY <1>15 DEF RuntimeCrash, DataTypeOK
  <2>3. OrderlyCore'
    BY <1>15 DEF RuntimeCrash, OrderlyCore, BGCore
  <2>4. BGCore'
    BY <1>15 DEF RuntimeCrash, BGCore
  <2>5. QED
    BY <2>1, <2>2, <2>3, <2>4
<1>16. CASE DhtHandlerExit
  <2>1. BGTypeOK'
    BY <1>16 DEF DhtHandlerExit, BGTypeOK, BGLabels, NoMsg, CreateErrors
  <2>2. DataTypeOK'
    BY <1>16 DEF DhtHandlerExit, DataTypeOK
  <2>3. OrderlyCore'
    BY <1>16 DEF DhtHandlerExit, OrderlyCore, BGCore
  <2>4. BGCore'
    BY <1>16 DEF DhtHandlerExit, BGCore
  <2>5. QED
    BY <2>1, <2>2, <2>3, <2>4
<1>17. CASE SaverExit
  <2>1. BGTypeOK'
    BY <1>17 DEF SaverExit, BGTypeOK, BGLabels, NoMsg, CreateErrors
  <2>2. DataTypeOK'
    BY <1>17 DEF SaverExit, DataTypeOK
  <2>3. OrderlyCore'
    BY <1>17 DEF SaverExit, OrderlyCore, BGCore
  <2>4. BGCore'
    BY <1>17 DEF SaverExit, BGCore
  <2>5. QED
    BY <2>1, <2>2, <2>3, <2>4
<1>18. QED
  BY <1>1, <1>2, <1>3, <1>4, <1>5, <1>6, <1>7, <1>8, <1>9, <1>10, <1>11, <1>12, <1>13, <1>14, <1>15, <1>16, <1>17
  DEF ThreadsNext, SrvStep, OwnerStep, ShutdownStep

(* Every step of the parent, of the child and of its server threads keeps *)
(* BGInv: the inductive step.                                            *)
LEMMA BGNextInv == BGInv /\ [BGNext]_bgVars => BGInv'
<1> SUFFICES ASSUME BGInv, [BGNext]_bgVars PROVE BGInv'
  OBVIOUS
<1>1. CASE UNCHANGED bgVars
  <2>1. BGTypeOK'
    BY <1>1 DEF BGInv, bgVars, serverVars, BGTypeOK, NoMsg, CreateErrors, Threads, SdLabels
  <2>2. (DataTypeOK /\ OrderlyCore /\ BGCore)'
    BY <1>1 DEF BGInv, bgVars, serverVars, DataTypeOK, OrderlyCore, BGCore, Threads,
       SdLabels, AfterClear, AfterHandlers, AfterDhtJoin, AfterSaverJoin, AfterDht
  <2>3. QED
    BY <2>1, <2>2 DEF BGInv, BGCore
<1>2. QED
  BY <1>1, ParentStepInv, ChildStepInv, ThreadsStepInv DEF BGNext

(* BGInv holds in every state of the two processes.                       *)
THEOREM BGInvariant == BGSpec => []BGInv
BY BGInitInv, BGNextInv, PTL DEF BGSpec

(* The parent, the child, the pipe and the child's server threads stay    *)
(* well typed: the pipe carries only the messages _server_runner sends.    *)
THEOREM BGTypeCorrect == BGSpec => []BGTypeOK
<1>1. BGInv => BGTypeOK
  BY DEF BGInv
<1>2. QED
  BY <1>1, BGInvariant, PTL

(* A child process that exits on its own after starting its server leaves *)
(* nothing running, for either value of HasExperts and CheckpointDirGiven *)
(* (_server_runner's finally, Server.shutdown, Server.run).               *)
THEOREM OrderlyExitThm == BGSpec => []OrderlyExit
<1>1. BGInv => OrderlyExit
  BY BackgroundAssumption
  DEF BGInv, OrderlyExit, OrderlyCore, AllStopped, DataTypeOK, SdLabels, AfterClear,
      AfterHandlers, AfterDhtJoin, AfterSaverJoin, AfterDht
<1>2. QED
  BY <1>1, BGInvariant, PTL

-----------------------------------------------------------------------------
(* The child's server goes through the lifecycle of the spec's section    *)
(* 4.6 under the same mapping Phase as a server that is started directly. *)

(* While the server thread has not been started, the child's main thread  *)
(* is still in create() or has returned from it by an exception, the       *)
(* runtime has not run, ready is clear and the handlers are new           *)
(* (_server_runner lines 336-343, Server.__init__ and run_in_background).  *)
BGLifeCore ==
    pc["srv"] = "new" =>
        /\ pc["owner"] \in {"create", "returned"}
        /\ runtime = "idle" /\ ~ready /\ handlers = "new"

BGLifeInv == BGInv /\ BGLifeCore

(* BGLifeCore holds when background_server is entered.                    *)
LEMMA BGLifeInit == BGInit => BGLifeInv
BY BGInitInv DEF BGLifeInv, BGLifeCore, BGInit, Threads

(* A step of a shutdown() in the child leaves the server thread started.  *)
LEMMA ShutdownSrvStarted ==
    ASSUME BGInv, BGLifeCore, NEW t \in Threads, ShutdownStep(t)
    PROVE  pc'["srv"] # "new" /\ pc["srv"] # "new"
<1>1. pc[t] \in SdLabels
  BY DEF ShutdownStep, ShutdownClear, ShutdownHandlers, ShutdownDhtStop, ShutdownDhtJoin,
     ShutdownSaverStop, ShutdownSaverJoin, ShutdownDht, ShutdownRuntime, SdLabels
<1>2. \E l \in SdLabels \cup {"join", "done"} : Goto(t, l)
  BY DEF ShutdownStep, ShutdownClear, ShutdownHandlers, ShutdownDhtStop, ShutdownDhtJoin,
     ShutdownSaverStop, ShutdownSaverJoin, ShutdownDht, ShutdownRuntime, AfterShutdown,
     SdLabels
<1>3. pc["srv"] # "new"
  BY <1>1 DEF BGLifeCore, SdLabels, Threads
<1>4. QED
  BY <1>2, <1>3 DEF BGInv, BGTypeOK, Threads, Goto, SdLabels

(* Every step of either process keeps BGLifeCore.                         *)
LEMMA BGLifeCoreNext ==
    ASSUME BGInv, BGLifeCore, [BGNext]_bgVars
    PROVE  BGLifeCore'
<1> USE DEF BGLifeCore
<1> pc \in [Threads -> BGLabels]
  BY DEF BGInv, BGTypeOK, BGLabels
<1>1. CASE UNCHANGED serverVars
  BY <1>1 DEF serverVars
<1>2. CASE Alive(ChildCreateFail)
  BY <1>2 DEF Alive, ChildCreateFail, Goto, Threads
<1>3. CASE Alive(ChildCreateOk)
  BY <1>3 DEF Alive, ChildCreateOk, Threads
<1>4. CASE Alive(ChildSendOk)
  BY <1>4 DEF Alive, ChildSendOk, Goto, Threads
<1>5. CASE Alive(ChildRecvShutdown)
  BY <1>5 DEF Alive, ChildRecvShutdown, Goto, Threads
<1>6. ASSUME NEW t \in Threads, ShutdownStep(t)
      PROVE  BGLifeCore'
  BY <1>6, ShutdownSrvStarted
<1>7. CASE SrvRun \/ SrvFinally
  BY <1>7 DEF SrvRun, SrvFinally, Goto, Threads
<1>8. CASE OwnerReady \/ OwnerJoin
  BY <1>8 DEF OwnerReady, OwnerJoin, Goto, Threads
<1>9. CASE RuntimeReady \/ RuntimeExit \/ RuntimeCrash
  BY <1>9 DEF RuntimeReady, RuntimeExit, RuntimeCrash
<1>10. CASE DhtHandlerExit \/ SaverExit
  BY <1>10 DEF DhtHandlerExit, SaverExit
<1>11. ParentStep => UNCHANGED serverVars
  BY DEF ParentStep, ParentStart, ParentRecv, ParentBodyExit, ParentBodyRaise,
     ParentJoined, ParentKill
<1>12. CASE Alive(ChildStep)
  BY <1>1, <1>2, <1>3, <1>4, <1>5, <1>12 DEF ChildStep, ChildExit, Alive
<1>13. CASE ThreadsNext
  <2>1. ShutdownStep("srv") \/ ShutdownStep("owner") => BGLifeCore'
    BY <1>6 DEF Threads
  <2>2. QED
    BY <1>7, <1>8, <1>9, <1>10, <1>13, <2>1, Zenon DEF ThreadsNext, SrvStep, OwnerStep
<1>14. CASE UNCHANGED bgVars
  BY <1>1, <1>14 DEF bgVars
<1>15. QED
  BY <1>1, <1>11, <1>12, <1>13, <1>14, Zenon DEF BGNext, InChild, Alive

(* BGLifeInv holds in every state of the two processes.                   *)
LEMMA BGLifeInvariant == BGSpec => []BGLifeInv
<1>1. BGLifeInv /\ [BGNext]_bgVars => BGLifeInv'
  BY BGNextInv, BGLifeCoreNext DEF BGLifeInv
<1>2. QED
  BY <1>1, BGLifeInit, PTL DEF BGSpec

(* What a step of either process does to the predicates that Phase is     *)
(* computed from: a shutdown, once begun, stays begun; everything stopped *)
(* stays stopped and was preceded by a shutdown; ready is cleared only by *)
(* a shutdown; the server thread, once started, stays started.            *)
LEMMA BGPhaseFacts ==
    ASSUME BGLifeInv, BGLifeInv', [BGNext]_bgVars
    PROVE  /\ AllStopped => ShutdownBegun
           /\ AllStopped' => ShutdownBegun'
           /\ AllStopped => AllStopped'
           /\ ShutdownBegun => ShutdownBegun'
           /\ ~ShutdownBegun /\ ready => ready'
           /\ pc["srv"] # "new" => pc'["srv"] # "new"
           /\ pc["srv"] = "new" => ~ready /\ ~ShutdownBegun
           /\ pc'["srv"] = "new" => ~ready' /\ ~ShutdownBegun'
           /\ AllStopped' => ShutdownBegun
           /\ pc["srv"] = "new" => ~ready' /\ ~ShutdownBegun'
<1> USE DEF BGLifeInv, BGInv, BGTypeOK, BGLifeCore, Goto, Threads, SdLabels
<1>1. AllStopped => ShutdownBegun
  BY DEF AllStopped, ShutdownBegun
<1>2. AllStopped' => ShutdownBegun'
  BY DEF AllStopped, ShutdownBegun
<1>3. pc["srv"] = "new" => ~ready /\ ~ShutdownBegun
  BY DEF ShutdownBegun
<1>4. pc'["srv"] = "new" => ~ready' /\ ~ShutdownBegun'
  BY DEF ShutdownBegun
<1> DEFINE StepFacts ==
      /\ AllStopped => AllStopped'
      /\ ShutdownBegun => ShutdownBegun'
      /\ ~ShutdownBegun /\ ready => ready'
      /\ pc["srv"] # "new" => pc'["srv"] # "new"
      /\ AllStopped' => ShutdownBegun
      /\ pc["srv"] = "new" => ~ready' /\ ~ShutdownBegun'
<1>5. ASSUME NEW t \in Threads, ShutdownStep(t)
      PROVE  StepFacts
  <2>1. ShutdownBegun /\ ShutdownBegun'
    BY <1>5 DEF ShutdownStep, ShutdownClear, ShutdownHandlers, ShutdownDhtStop,
       ShutdownDhtJoin, ShutdownSaverStop, ShutdownSaverJoin, ShutdownDht, ShutdownRuntime,
       AfterShutdown, ShutdownBegun
  <2>2. AllStopped => AllStopped'
    BY <1>5 DEF ShutdownStep, ShutdownClear, ShutdownHandlers, ShutdownDhtStop,
       ShutdownDhtJoin, ShutdownSaverStop, ShutdownSaverJoin, ShutdownDht, ShutdownRuntime,
       AfterShutdown, AllStopped
  <2>3. pc["srv"] # "new" /\ pc'["srv"] # "new"
    BY <1>5, ShutdownSrvStarted
  <2>4. QED
    BY <2>1, <2>2, <2>3
<1>6. CASE UNCHANGED serverVars
  BY <1>6 DEF serverVars, AllStopped, ShutdownBegun
<1>7. CASE Alive(ChildCreateFail)
  BY <1>7 DEF Alive, ChildCreateFail, AllStopped, ShutdownBegun
<1>8. CASE Alive(ChildCreateOk)
  BY <1>8 DEF Alive, ChildCreateOk, AllStopped, ShutdownBegun
<1>9. CASE Alive(ChildSendOk)
  BY <1>9 DEF Alive, ChildSendOk, AllStopped, ShutdownBegun
<1>10. CASE Alive(ChildRecvShutdown)
  BY <1>10 DEF Alive, ChildRecvShutdown, AllStopped, ShutdownBegun
<1>11. CASE SrvRun
  BY <1>11 DEF SrvRun, AllStopped, ShutdownBegun
<1>12. CASE SrvFinally
  BY <1>12 DEF SrvFinally, AllStopped, ShutdownBegun
<1>13. CASE OwnerReady
  BY <1>13 DEF OwnerReady, AllStopped, ShutdownBegun
<1>14. CASE OwnerJoin
  BY <1>14 DEF OwnerJoin, AllStopped, ShutdownBegun
<1>15. CASE RuntimeReady
  BY <1>15 DEF RuntimeReady, AllStopped, ShutdownBegun
<1>16. CASE RuntimeExit \/ RuntimeCrash
  BY <1>16 DEF RuntimeExit, RuntimeCrash, AllStopped, ShutdownBegun
<1>17. CASE DhtHandlerExit \/ SaverExit
  BY <1>17 DEF DhtHandlerExit, SaverExit, AllStopped, ShutdownBegun
<1>18. ParentStep => UNCHANGED serverVars
  BY DEF ParentStep, ParentStart, ParentRecv, ParentBodyExit, ParentBodyRaise,
     ParentJoined, ParentKill
<1>19. CASE Alive(ChildStep)
  BY <1>6, <1>7, <1>8, <1>9, <1>10, <1>19 DEF ChildStep, ChildExit, Alive
<1>20. CASE ThreadsNext
  <2>1. ShutdownStep("srv") \/ ShutdownStep("owner") => StepFacts
    BY <1>5
  <2>2. QED
    BY <1>11, <1>12, <1>13, <1>14, <1>15, <1>16, <1>17, <1>20, <2>1, Zenon
    DEF ThreadsNext, SrvStep, OwnerStep
<1>21. CASE UNCHANGED bgVars
  BY <1>6, <1>21 DEF bgVars
<1>22. StepFacts
  BY <1>6, <1>18, <1>19, <1>20, <1>21, Zenon DEF BGNext, InChild, Alive
<1>23. QED
  BY <1>1, <1>2, <1>3, <1>4, <1>22

(* The child's server implements the lifecycle of the spec's section 4.6: *)
(* background_server enters it constructed, and every step of the parent, *)
(* of the child's main thread and of the server's threads is a step of    *)
(* the lifecycle under the mapping Phase, or leaves the phase as it is.   *)
THEOREM BGRefinesLifecycle == BGSpec => Lifecycle!Spec
<1>1. BGInit => Lifecycle!Init
  BY DEF BGInit, Lifecycle!Init, Phase, AllStopped, ShutdownBegun, Threads, SdLabels
<1>2. BGLifeInv /\ BGLifeInv' /\ [BGNext]_bgVars => [Lifecycle!Next]_Phase
  <2> SUFFICES ASSUME BGLifeInv, BGLifeInv', [BGNext]_bgVars
               PROVE  [Lifecycle!Next]_Phase
    OBVIOUS
  <2> USE BGPhaseFacts DEF Lifecycle!Next, Lifecycle!Start, Lifecycle!BecomeReady,
          Lifecycle!BeginShutdown, Lifecycle!Finish, Phase
  <2>1. CASE AllStopped
    BY <2>1
  <2>2. CASE ~AllStopped /\ ShutdownBegun
    BY <2>2
  <2>3. CASE ~ShutdownBegun /\ ready
    BY <2>3
  <2>4. CASE ~ShutdownBegun /\ ~ready /\ pc["srv"] = "new"
    BY <2>4
  <2>5. CASE ~ShutdownBegun /\ ~ready /\ pc["srv"] # "new"
    BY <2>5
  <2>6. QED
    BY <2>1, <2>2, <2>3, <2>4, <2>5
<1>3. QED
  BY <1>1, <1>2, BGLifeInvariant, PTL DEF BGSpec, Lifecycle!Spec
=============================================================================

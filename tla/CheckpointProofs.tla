-------------------------- MODULE CheckpointProofs --------------------------
(***************************************************************************)
(* Proofs about the checkpoint saver of Checkpoint.tla, for every set of   *)
(* experts and every bound: the type invariant, the inductive invariant    *)
(* IInv, and from it that a completed store cycle leaves both stable names *)
(* of every expert equal to that cycle's snapshots.                        *)
(***************************************************************************)
EXTENDS Checkpoint, FiniteSetTheorems, TLAPS

(* The file names of the staging tree are file names, distinct from each   *)
(* other and from NoFile.                                                  *)
LEMMA NamesFacts ==
    ASSUME NEW t \in Times
    PROVE  /\ StagedNames(t) \subseteq FileName
           /\ NoFile \notin FileName
           /\ ModFile(t) # CkptFile(t) /\ ModFile(t) # StableMod
           /\ ModFile(t) # StableCkpt /\ CkptFile(t) # StableMod
           /\ CkptFile(t) # StableCkpt /\ StableMod # StableCkpt
BY DEF StagedNames, FileName, NoFile, ModFile, CkptFile, StableMod, StableCkpt

(* What store_experts stages for one expert: two snapshots of cycle t and  *)
(* two symlinks to them, so that following a link gives a snapshot.        *)
LEMMA StagedDirFacts ==
    ASSUME NEW t \in Times, NEW v \in 0..MaxVersion
    PROVE  /\ DOMAIN StagedDir(t, v) = StagedNames(t)
           /\ StagedDir(t, v) \in [StagedNames(t) -> Snapshot \cup Link]
           /\ \A f \in StagedNames(t) : Resolve(StagedDir(t, v), f) \in Snapshot
           /\ Resolve(StagedDir(t, v), ModFile(t)) = [kind |-> "module", ver |-> v, ts |-> t]
           /\ Resolve(StagedDir(t, v), StableMod) = [kind |-> "module", ver |-> v, ts |-> t]
           /\ Resolve(StagedDir(t, v), CkptFile(t)) = [kind |-> "checkpoint", ver |-> v, ts |-> t]
           /\ Resolve(StagedDir(t, v), StableCkpt) = [kind |-> "checkpoint", ver |-> v, ts |-> t]
<1> USE NamesFacts
<1>1. DOMAIN StagedDir(t, v) = StagedNames(t)
  BY DEF StagedDir, StagedNames
<1>2. StagedDir(t, v) \in [StagedNames(t) -> Snapshot \cup Link]
  BY DEF StagedDir, StagedNames, Snapshot, Link
<1>3. Resolve(StagedDir(t, v), ModFile(t)) = [kind |-> "module", ver |-> v, ts |-> t]
  BY DEF StagedDir, StagedNames, Resolve
<1>4. Resolve(StagedDir(t, v), StableMod) = [kind |-> "module", ver |-> v, ts |-> t]
  BY DEF StagedDir, StagedNames, Resolve
<1>5. Resolve(StagedDir(t, v), CkptFile(t)) = [kind |-> "checkpoint", ver |-> v, ts |-> t]
  BY DEF StagedDir, StagedNames, Resolve
<1>6. Resolve(StagedDir(t, v), StableCkpt) = [kind |-> "checkpoint", ver |-> v, ts |-> t]
  BY DEF StagedDir, StagedNames, Resolve
<1>7. \A f \in StagedNames(t) : Resolve(StagedDir(t, v), f) \in Snapshot
  BY <1>3, <1>4, <1>5, <1>6 DEF StagedNames, Snapshot
<1>8. QED
  BY <1>1, <1>2, <1>3, <1>4, <1>5, <1>6, <1>7

(* The initial state of CheckpointSaver.__init__ satisfies IInv.           *)
LEMMA InitIInv == Init => IInv
<1> SUFFICES ASSUME Init PROVE IInv
  OBVIOUS
<1> USE CheckpointAssumption DEF Init
<1>a. weights \in [Experts -> 0..MaxVersion] OBVIOUS
<1>b. ts \in Times BY DEF Times
<1>c. DOMAIN tmp \subseteq Experts BY DEF NoDir
<1>d. \A e \in DOMAIN tmp : tmp[e] \in [DOMAIN tmp[e] -> Snapshot \cup Link] BY DEF NoDir
<1>e. DOMAIN dst = Experts OBVIOUS
<1>f. \A e \in Experts : /\ DOMAIN dst[e] \subseteq FileName
                          /\ dst[e] \in [DOMAIN dst[e] -> Snapshot \cup {Torn}] OBVIOUS
<1>g. open \in FileName \cup {NoFile} BY DEF NoFile
<1>h. restored \in [Experts -> LoadResult] BY DEF NoLoad, LoadResult
<1>i. stored \in Nat /\ lastDone \in 0..MaxStores /\ crashes \in 0..MaxCrashes OBVIOUS
<1>1. TypeOK
  BY <1>a, <1>b, <1>c, <1>d, <1>e, <1>f, <1>g, <1>h, <1>i DEF TypeOK
<1>2. StagingInv
  BY DEF StagingInv, NoDir
<1>3. IdleInv /\ CopyingInv /\ OpenInv /\ WaitInv
  BY DEF IdleInv, CopyingInv, OpenInv, WaitInv
<1>4. QED
  BY <1>1, <1>2, <1>3 DEF IInv

-----------------------------------------------------------------------------
(* One lemma per action of Next: each preserves IInv.                      *)

(* stop.wait() times out and a new cycle begins with a fresh timestamp.    *)
LEMMA SaverWaitTimeoutIInv == IInv /\ SaverWaitTimeout => IInv'
<1> SUFFICES ASSUME IInv, SaverWaitTimeout PROVE IInv'
  OBVIOUS
<1> USE CheckpointAssumption DEF SaverWaitTimeout, copyVars, envVars
<1>1. TypeOK'
  BY DEF IInv, TypeOK, Times, NoDir
<1>2. StagingInv'
  BY DEF StagingInv, NoDir
<1>3. (IdleInv /\ CopyingInv /\ OpenInv /\ WaitInv)'
  BY DEF IInv, OpenInv, IdleInv, CopyingInv, WaitInv
<1>4. QED
  BY <1>1, <1>2, <1>3 DEF IInv

(* stop.wait() returns True and run() ends.                                *)
LEMMA SaverWaitStoppedIInv == IInv /\ SaverWaitStopped => IInv'
<1> SUFFICES ASSUME IInv, SaverWaitStopped PROVE IInv'
  OBVIOUS
<1> USE DEF SaverWaitStopped, copyVars, envVars
<1>1. TypeOK'
  BY DEF IInv, TypeOK
<1>2. StagingInv'
  BY DEF IInv, StagingInv
<1>3. (IdleInv /\ CopyingInv /\ OpenInv /\ WaitInv)'
  BY DEF IInv, OpenInv, IdleInv, CopyingInv, WaitInv
<1>4. QED
  BY <1>1, <1>2, <1>3 DEF IInv

(* A store cycle raises: the staging tree is gone, the thread is dead.     *)
LEMMA StoreFailIInv == IInv /\ StoreFail => IInv'
<1> SUFFICES ASSUME IInv, StoreFail PROVE IInv'
  OBVIOUS
<1> USE DEF StoreFail, envVars
<1>1. TypeOK'
  BY DEF IInv, TypeOK, NoDir, NoFile
<1>2. StagingInv'
  BY DEF StagingInv, NoDir
<1>3. (IdleInv /\ CopyingInv /\ OpenInv /\ WaitInv)'
  BY DEF OpenInv, IdleInv, CopyingInv, WaitInv, NoDir
<1>4. QED
  BY <1>1, <1>2, <1>3 DEF IInv

(* The server process is killed.                                           *)
LEMMA CrashIInv == IInv /\ Crash => IInv'
<1> SUFFICES ASSUME IInv, Crash PROVE IInv'
  OBVIOUS
<1> USE DEF Crash
<1>1. TypeOK'
  BY CheckpointAssumption DEF IInv, TypeOK, NoDir, NoFile
<1>2. StagingInv'
  BY DEF StagingInv, NoDir
<1>3. (IdleInv /\ CopyingInv /\ OpenInv /\ WaitInv)'
  BY DEF OpenInv, IdleInv, CopyingInv, WaitInv, NoDir
<1>4. QED
  BY <1>1, <1>2, <1>3 DEF IInv

(* Server.shutdown sets the stop event.                                    *)
LEMMA RequestStopIInv == IInv /\ RequestStop => IInv'
<1> SUFFICES ASSUME IInv, RequestStop PROVE IInv'
  OBVIOUS
<1> USE DEF RequestStop, copyVars, envVars
<1>1. TypeOK'
  BY DEF IInv, TypeOK
<1>2. QED
  BY <1>1 DEF IInv, StagingInv, OpenInv, IdleInv, CopyingInv, WaitInv, CopyInv,
             CommittedInv, CopiedFrom

(* A training step of one expert.                                          *)
LEMMA TrainIInv ==
    ASSUME NEW e \in Experts, IInv, Train(e) PROVE IInv'
<1> USE DEF Train, copyVars
<1>0. weights' \in [Experts -> 0..MaxVersion]
  BY CheckpointAssumption DEF IInv, TypeOK
<1>1. TypeOK'
  BY <1>0 DEF IInv, TypeOK
<1>2. QED
  BY <1>1 DEF IInv, StagingInv, OpenInv, IdleInv, CopyingInv, WaitInv, CopyInv,
             CommittedInv, CopiedFrom

(* What load_expert returns is a LoadResult.                               *)
LEMMA LoadedType ==
    ASSUME TypeOK, NEW e \in Experts PROVE Loaded(e) \in LoadResult
<1>1. CASE StableMod \notin DOMAIN dst[e]
  BY <1>1 DEF Loaded, LoadResult
<1>2. CASE StableMod \in DOMAIN dst[e] /\ dst[e][StableMod] = Torn
  BY <1>2 DEF Loaded, LoadResult
<1>3. CASE StableMod \in DOMAIN dst[e] /\ dst[e][StableMod] # Torn
  <2>1. dst[e][StableMod] \in Snapshot
    BY <1>3 DEF TypeOK
  <2>2. dst[e][StableMod].ver \in 0..MaxVersion
    BY <2>1 DEF Snapshot
  <2>3. QED
    BY <1>3, <2>2 DEF Loaded, LoadResult
<1>4. QED
  BY <1>1, <1>2, <1>3

(* A reader process calls load_expert.                                     *)
LEMMA LoadExpertIInv ==
    ASSUME NEW e \in Experts, IInv, LoadExpert(e) PROVE IInv'
<1> USE DEF LoadExpert, copyVars
<1>0. restored' \in [Experts -> LoadResult]
  BY LoadedType DEF IInv, TypeOK
<1>1. TypeOK'
  BY <1>0 DEF IInv, TypeOK
<1>2. QED
  BY <1>1 DEF IInv, StagingInv, OpenInv, IdleInv, CopyingInv, WaitInv, CopyInv,
             CommittedInv, CopiedFrom

(* The process is started again and restores its experts.                  *)
LEMMA RestartIInv == IInv /\ Restart => IInv'
<1> SUFFICES ASSUME IInv, Restart PROVE IInv'
  OBVIOUS
<1> USE DEF Restart, copyVars
<1>0. weights' \in [Experts -> 0..MaxVersion]
  <2> SUFFICES ASSUME NEW e \in Experts PROVE Loaded(e).ver \in 0..MaxVersion
    OBVIOUS
  <2>1. Loaded(e) \in LoadResult
    BY LoadedType DEF IInv
  <2>2. QED
    BY <2>1, CheckpointAssumption DEF LoadResult
<1>a. ts' \in Times
  BY CheckpointAssumption DEF IInv, TypeOK, Times
<1>1. TypeOK'
  BY <1>0, <1>a DEF IInv, TypeOK
<1>2. StagingInv'
  BY DEF IInv, IdleInv, StagingInv
<1>3. (IdleInv /\ CopyingInv /\ OpenInv /\ WaitInv)'
  BY DEF IInv, OpenInv, IdleInv, CopyingInv, WaitInv
<1>4. QED
  BY <1>1, <1>2, <1>3 DEF IInv

(* store_experts stages the directory of one expert.                       *)
LEMMA StageExpertIInv ==
    ASSUME NEW e \in Experts, IInv, StageExpert(e) PROVE IInv'
<1> USE DEF StageExpert, copyVars, envVars
<1>0. StagedDir(ts, weights[e]) \in [DOMAIN StagedDir(ts, weights[e]) -> Snapshot \cup Link]
  BY StagedDirFacts DEF IInv, TypeOK
<1>1. TypeOK'
  <2>1. DOMAIN tmp' \subseteq Experts
    BY DEF IInv, TypeOK
  <2>2. \A x \in DOMAIN tmp' : tmp'[x] \in [DOMAIN tmp'[x] -> Snapshot \cup Link]
    BY <1>0 DEF IInv, TypeOK
  <2>3. QED
    BY <2>1, <2>2 DEF IInv, TypeOK
<1>2. StagingInv'
  BY DEF IInv, TypeOK, StagingInv
<1>3. (IdleInv /\ CopyingInv /\ OpenInv /\ WaitInv)'
  BY DEF IInv, OpenInv, IdleInv, CopyingInv, WaitInv
<1>4. QED
  BY <1>1, <1>2, <1>3 DEF IInv

(* copy_tree starts over the staging tree.                                 *)
LEMMA CopyTreeBeginIInv == IInv /\ CopyTreeBegin => IInv'
<1> SUFFICES ASSUME IInv, CopyTreeBegin PROVE IInv'
  OBVIOUS
<1> USE DEF CopyTreeBegin, envVars
<1>1. TypeOK'
  BY DEF IInv, TypeOK
<1>2. StagingInv'
  BY DEF IInv, StagingInv
<1>3. CopyInv'
  <2>1. open = NoFile
    BY DEF IInv, OpenInv
  <2>2. cur \in expLeft'
    BY DEF IInv, TypeOK
  <2>3. QED
    BY <2>1, <2>2 DEF CopyInv
<1>4. (IdleInv /\ CopyingInv /\ OpenInv /\ WaitInv)'
  BY <1>3 DEF IdleInv, CopyingInv, OpenInv, WaitInv
<1>5. QED
  BY <1>1, <1>2, <1>4 DEF IInv

(* When copy_tree has copied every file, the checkpoint directory holds    *)
(* the whole staged cycle.                                                 *)
LEMMA CopyDoneCommitted ==
    ASSUME IInv, pc = "copy", expLeft = {}, fileLeft = {}, open = NoFile
    PROVE  CommittedInv(ts)
<1> SUFFICES ASSUME NEW e \in Experts
             PROVE  \E v \in 0..MaxVersion : CopiedFrom(e, StagedDir(ts, v), StagedNames(ts))
  BY DEF CommittedInv
<1>0. CopyInv
  BY DEF IInv, CopyingInv
<1>1. PICK v \in 0..MaxVersion : tmp[e] = StagedDir(ts, v)
  BY <1>0 DEF IInv, StagingInv, CopyInv
<1>2. DOMAIN tmp[e] = StagedNames(ts) /\ NoFile \notin StagedNames(ts)
  BY <1>1, StagedDirFacts, NamesFacts DEF IInv, TypeOK
<1>3. CopiedFrom(e, tmp[e], DOMAIN tmp[e])
  <2>1. CASE e = cur
    <3>1. CopiedFrom(cur, tmp[cur], DOMAIN tmp[cur] \ ({} \cup {NoFile}))
      BY <1>0 DEF CopyInv
    <3>2. DOMAIN tmp[cur] \ ({} \cup {NoFile}) = DOMAIN tmp[cur]
      BY <1>2, <2>1
    <3>3. QED
      BY <2>1, <3>1, <3>2
  <2>2. CASE e # cur
    BY <1>0, <2>2 DEF CopyInv
  <2>3. QED
    BY <2>1, <2>2
<1>4. QED
  BY <1>1, <1>2, <1>3

(* copy_tree returns and the staging tree is removed.                      *)
LEMMA StoreFinishIInv == IInv /\ StoreFinish => IInv'
<1> SUFFICES ASSUME IInv, StoreFinish PROVE IInv'
  OBVIOUS
<1> USE DEF StoreFinish, copyVars, envVars
<1>a. stored' \in Nat /\ lastDone' \in 0..MaxStores
  BY DEF IInv, TypeOK, Times
<1>1. TypeOK'
  BY <1>a DEF IInv, TypeOK, NoDir
<1>2. StagingInv'
  BY DEF StagingInv, NoDir
<1>3. CommittedInv(ts)
  BY CopyDoneCommitted
<1>4. WaitInv'
  BY <1>3 DEF WaitInv, CommittedInv, CopiedFrom
<1>5. (IdleInv /\ CopyingInv /\ OpenInv)'
  BY DEF IdleInv, CopyingInv, OpenInv, NoDir
<1>6. QED
  BY <1>1, <1>2, <1>4, <1>5 DEF IInv

(* The staged directory of every expert, while copying, is one of the      *)
(* current cycle, whose names are file names other than NoFile.            *)
LEMMA CopyDirFacts ==
    ASSUME IInv, pc = "copy", NEW x \in Experts
    PROVE  /\ DOMAIN tmp[x] = StagedNames(ts)
           /\ DOMAIN tmp[x] \subseteq FileName
           /\ NoFile \notin DOMAIN tmp[x]
           /\ \A f \in DOMAIN tmp[x] : Resolve(tmp[x], f) \in Snapshot
<1>1. DOMAIN tmp = Experts
  BY DEF IInv, CopyingInv, CopyInv
<1>2. PICK v \in 0..MaxVersion : tmp[x] = StagedDir(ts, v)
  BY <1>1 DEF IInv, StagingInv
<1>3. ts \in Times
  BY DEF IInv, TypeOK
<1>4. DOMAIN tmp[x] = StagedNames(ts)
  BY <1>2, <1>3, StagedDirFacts
<1>5. \A f \in DOMAIN tmp[x] : Resolve(tmp[x], f) \in Snapshot
  BY <1>2, <1>3, <1>4, StagedDirFacts
<1>6. QED
  BY <1>3, <1>4, <1>5, NamesFacts

(* copy_tree enters the staged directory of expert e.                      *)
LEMMA CopyTreeEnterIInv ==
    ASSUME NEW e \in Experts, IInv, CopyTreeEnter(e) PROVE IInv'
<1> USE DEF CopyTreeEnter, envVars
<1>0. CopyInv
  BY DEF IInv, CopyingInv
<1>a. /\ DOMAIN tmp[e] = StagedNames(ts)
      /\ DOMAIN tmp[e] \subseteq FileName
      /\ NoFile \notin DOMAIN tmp[e]
  BY CopyDirFacts
<1>1. TypeOK'
  BY <1>a DEF IInv, TypeOK
<1>2. StagingInv'
  BY DEF IInv, StagingInv
<1>3. CopyInv'
  <2>1. DOMAIN tmp' = Experts
    BY <1>0 DEF CopyInv
  <2>2. ASSUME NEW x \in Experts \ (expLeft' \cup {cur'})
        PROVE  CopiedFrom(x, tmp[x], DOMAIN tmp[x])
    <3>1. x \notin expLeft
      BY <2>2
    <3>2. CASE x = cur
      <4>1. CopiedFrom(cur, tmp[cur], DOMAIN tmp[cur] \ ({} \cup {NoFile}))
        BY <1>0, <3>1, <3>2 DEF CopyInv
      <4>2. NoFile \notin DOMAIN tmp[cur]
        BY CopyDirFacts, <3>2
      <4>3. DOMAIN tmp[cur] \ ({} \cup {NoFile}) = DOMAIN tmp[cur]
        BY <4>2
      <4>4. QED
        BY <3>2, <4>1, <4>3
    <3>3. CASE x # cur
      BY <1>0, <3>1, <3>3 DEF CopyInv
    <3>4. QED
      BY <3>2, <3>3
  <2>3. \A x \in Experts \ (expLeft' \cup {cur'}) : CopiedFrom(x, tmp[x], DOMAIN tmp[x])'
    BY <2>2 DEF CopiedFrom
  <2>4. CopiedFrom(e, tmp[e], DOMAIN tmp[e] \ (DOMAIN tmp[e] \cup {NoFile}))'
    BY DEF CopiedFrom
  <2>5. QED
    BY <1>a, <2>1, <2>3, <2>4 DEF CopyInv
<1>4. (IdleInv /\ CopyingInv /\ OpenInv /\ WaitInv)'
  BY <1>3 DEF IdleInv, CopyingInv, OpenInv, WaitInv
<1>5. QED
  BY <1>1, <1>2, <1>4 DEF IInv

(* copy2 opens file f of the current directory: it becomes truncated.      *)
LEMMA Copy2OpenIInv ==
    ASSUME NEW f \in FileName, IInv, Copy2Open(f) PROVE IInv'
<1> USE DEF Copy2Open, envVars
<1>0. CopyInv
  BY DEF IInv, CopyingInv
<1>a. cur \notin expLeft
  BY <1>0 DEF CopyInv
<1>b. f \in DOMAIN tmp[cur]
  BY <1>0, <1>a DEF CopyInv
<1>c. /\ DOMAIN dst' = Experts
      /\ DOMAIN dst'[cur] = DOMAIN dst[cur] \cup {f}
      /\ dst'[cur][f] = Torn
      /\ \A g \in DOMAIN dst[cur] \ {f} : dst'[cur][g] = dst[cur][g]
      /\ \A y \in Experts \ {cur} : dst'[y] = dst[y]
  BY DEF IInv, TypeOK
<1>1. TypeOK'
  <2>1. \A y \in Experts : /\ DOMAIN dst'[y] \subseteq FileName
                           /\ dst'[y] \in [DOMAIN dst'[y] -> Snapshot \cup {Torn}]
    BY <1>c DEF IInv, TypeOK
  <2>2. QED
    BY <1>c, <2>1 DEF IInv, TypeOK
<1>2. StagingInv'
  BY DEF IInv, StagingInv
<1>3. CopyInv'
  <2>1. \A x \in Experts \ (expLeft \cup {cur}) : CopiedFrom(x, tmp[x], DOMAIN tmp[x])'
    BY <1>0, <1>c DEF CopyInv, CopiedFrom
  <2>2. CopiedFrom(cur, tmp[cur], DOMAIN tmp[cur] \ ((fileLeft \ {f}) \cup {f}))'
    <3> SUFFICES ASSUME NEW g \in DOMAIN tmp[cur] \ ((fileLeft \ {f}) \cup {f})
                 PROVE  g \in DOMAIN dst'[cur] /\ dst'[cur][g] = Resolve(tmp[cur], g)
      BY DEF CopiedFrom
    <3>0. g \in DOMAIN tmp[cur] \ (fileLeft \cup {open}) /\ g # f
      BY CopyDirFacts DEF IInv, TypeOK
    <3>1. g \in DOMAIN dst[cur] /\ dst[cur][g] = Resolve(tmp[cur], g)
      BY <3>0, <1>0, <1>a DEF CopyInv, CopiedFrom
    <3>2. QED
      BY <3>0, <3>1, <1>c
  <2>3. QED
    BY <1>0, <1>a, <1>b, <1>c, <2>1, <2>2 DEF CopyInv
<1>4. (IdleInv /\ CopyingInv /\ OpenInv /\ WaitInv)'
  BY <1>3 DEF IdleInv, CopyingInv, OpenInv, WaitInv
<1>5. QED
  BY <1>1, <1>2, <1>4 DEF IInv

(* copy2 finishes writing the open file with the content it resolves to.   *)
LEMMA Copy2WriteIInv == IInv /\ Copy2Write => IInv'
<1> SUFFICES ASSUME IInv, Copy2Write PROVE IInv'
  OBVIOUS
<1> USE DEF Copy2Write, envVars
<1>0. CopyInv
  BY DEF IInv, CopyingInv
<1>a. cur \notin expLeft /\ open \in DOMAIN tmp[cur] /\ open \in DOMAIN dst[cur]
  BY <1>0 DEF CopyInv
<1>b. Resolve(tmp[cur], open) \in Snapshot
  BY <1>a, CopyDirFacts DEF IInv, TypeOK
<1>c. /\ DOMAIN dst' = Experts
      /\ DOMAIN dst'[cur] = DOMAIN dst[cur]
      /\ dst'[cur][open] = Resolve(tmp[cur], open)
      /\ \A g \in DOMAIN dst[cur] \ {open} : dst'[cur][g] = dst[cur][g]
      /\ \A y \in Experts \ {cur} : dst'[y] = dst[y]
  BY <1>a DEF IInv, TypeOK
<1>1. TypeOK'
  <2>1. \A y \in Experts : /\ DOMAIN dst'[y] \subseteq FileName
                           /\ dst'[y] \in [DOMAIN dst'[y] -> Snapshot \cup {Torn}]
    BY <1>b, <1>c DEF IInv, TypeOK
  <2>2. QED
    BY <1>c, <2>1 DEF IInv, TypeOK, NoFile
<1>2. StagingInv'
  BY DEF IInv, StagingInv
<1>3. CopyInv'
  <2>1. \A x \in Experts \ (expLeft \cup {cur}) : CopiedFrom(x, tmp[x], DOMAIN tmp[x])'
    BY <1>0, <1>c DEF CopyInv, CopiedFrom
  <2>2. CopiedFrom(cur, tmp[cur], DOMAIN tmp[cur] \ (fileLeft \cup {NoFile}))'
    <3> SUFFICES ASSUME NEW g \in DOMAIN tmp[cur] \ (fileLeft \cup {NoFile})
                 PROVE  g \in DOMAIN dst'[cur] /\ dst'[cur][g] = Resolve(tmp[cur], g)
      BY DEF CopiedFrom
    <3>1. CASE g = open
      BY <3>1, <1>a, <1>c
    <3>2. CASE g # open
      <4>1. g \in DOMAIN dst[cur] /\ dst[cur][g] = Resolve(tmp[cur], g)
        BY <3>2, <1>0, <1>a DEF CopyInv, CopiedFrom
      <4>2. QED
        BY <4>1, <3>2, <1>c
    <3>3. QED
      BY <3>1, <3>2
  <2>3. NoFile \notin fileLeft
    BY NamesFacts DEF IInv, TypeOK
  <2>4. QED
    BY <1>0, <1>a, <2>1, <2>2, <2>3 DEF CopyInv
<1>4. (IdleInv /\ CopyingInv /\ OpenInv /\ WaitInv)'
  BY <1>3 DEF IdleInv, CopyingInv, OpenInv, WaitInv
<1>5. QED
  BY <1>1, <1>2, <1>4 DEF IInv

-----------------------------------------------------------------------------
(* IInv is inductive.                                                      *)
LEMMA NextIInv == IInv /\ [Next]_vars => IInv'
<1> SUFFICES ASSUME IInv, [Next]_vars PROVE IInv'
  OBVIOUS
<1>1. CASE SaverStep
  BY <1>1, SaverWaitTimeoutIInv, SaverWaitStoppedIInv, StageExpertIInv,
     CopyTreeBeginIInv, CopyTreeEnterIInv, Copy2OpenIInv, Copy2WriteIInv,
     StoreFinishIInv DEF SaverStep
<1>2. CASE StoreFail
  BY <1>2, StoreFailIInv
<1>3. CASE Crash
  BY <1>3, CrashIInv
<1>4. CASE Restart
  BY <1>4, RestartIInv
<1>5. CASE \E e \in Experts : LoadExpert(e)
  BY <1>5, LoadExpertIInv
<1>6. CASE \E e \in Experts : Train(e)
  BY <1>6, TrainIInv
<1>7. CASE RequestStop
  BY <1>7, RequestStopIInv
<1>8. CASE UNCHANGED vars
  BY <1>8 DEF vars, IInv, TypeOK, StagingInv, IdleInv, CopyingInv, OpenInv,
             WaitInv, CopyInv, CommittedInv, CopiedFrom
<1>9. QED
  BY <1>1, <1>2, <1>3, <1>4, <1>5, <1>6, <1>7, <1>8 DEF Next

(* IInv holds in every reachable state of the checkpoint saver.           *)
THEOREM IInvariant == Spec => []IInv
BY InitIInv, NextIInv, PTL DEF Spec

(* Every state of the saver, the reader and the restarting process is      *)
(* well typed: in particular the checkpoint directory only ever holds      *)
(* snapshots or files copy2 is writing, and load_expert returns a result.  *)
THEOREM TypeCorrect == Spec => []TypeOK
<1>1. IInv => TypeOK
  BY DEF IInv
<1>2. QED
  BY IInvariant, <1>1, PTL

(* A completed cycle leaves the two stable names equal to its snapshots.   *)
LEMMA IInvStable == IInv => CommittedStableIsLatest
<1> SUFFICES ASSUME IInv, pc = "wait", NEW e \in Experts
             PROVE  /\ {StableMod, StableCkpt, ModFile(ts), CkptFile(ts)} \subseteq DOMAIN dst[e]
                    /\ dst[e][ModFile(ts)].kind = "module"
                    /\ dst[e][CkptFile(ts)].kind = "checkpoint"
                    /\ dst[e][StableMod] = dst[e][ModFile(ts)]
                    /\ dst[e][StableCkpt] = dst[e][CkptFile(ts)]
                    /\ dst[e][StableMod].ver = dst[e][StableCkpt].ver
  BY DEF CommittedStableIsLatest
<1>1. PICK v \in 0..MaxVersion : CopiedFrom(e, StagedDir(ts, v), StagedNames(ts))
  BY DEF IInv, WaitInv, CommittedInv
<1>2. ts \in Times
  BY DEF IInv, TypeOK
<1>3. /\ {StableMod, StableCkpt, ModFile(ts), CkptFile(ts)} \subseteq DOMAIN dst[e]
      /\ dst[e][ModFile(ts)] = Resolve(StagedDir(ts, v), ModFile(ts))
      /\ dst[e][CkptFile(ts)] = Resolve(StagedDir(ts, v), CkptFile(ts))
      /\ dst[e][StableMod] = Resolve(StagedDir(ts, v), StableMod)
      /\ dst[e][StableCkpt] = Resolve(StagedDir(ts, v), StableCkpt)
  BY <1>1 DEF CopiedFrom, StagedNames
<1>4. QED
  BY <1>2, <1>3, StagedDirFacts

(* Whenever the saver waits after a store cycle, every expert's            *)
(* module.safetensors and checkpoint_last.safetensors are that cycle's     *)
(* snapshots, for every set of experts and every bound (store_experts).    *)
THEOREM StableIsLatest == Spec => []CommittedStableIsLatest
BY IInvariant, IInvStable, PTL
-----------------------------------------------------------------------------
(* STABLE NAMES NEVER GO BACK IN TIME                                      *)

(* StableNotOlderThanCommitted is not inductive by itself: a new cycle     *)
(* writes module.safetensors with the current timestamp, which must not be *)
(* below the last committed one.  Timestamps only grow, so lastDone never  *)
(* exceeds ts.                                                             *)
StampInv == lastDone <= ts /\ StableNotOlderThanCommitted

(* The fresh checkpoint directory holds no module.safetensors.             *)
LEMMA StampInit == Init => StampInv
BY DEF Init, StampInv, StableNotOlderThanCommitted, Readable

(* A step that leaves the directory and lastDone alone and does not move   *)
(* the clock back keeps StampInv.                                          *)
LEMMA StampFrame ==
    ASSUME IInv, StampInv, UNCHANGED <<dst, lastDone>>, ts' \in Nat, ts <= ts'
    PROVE  StampInv'
<1>1. lastDone \in Nat /\ ts \in Nat
  BY DEF IInv, TypeOK, Times
<1>2. QED
  BY <1>1 DEF StampInv, StableNotOlderThanCommitted, Readable

(* copy2 truncating a file only hides module.safetensors, never changes it.*)
LEMMA StampCopy2Open ==
    ASSUME IInv, StampInv, NEW f \in FileName, Copy2Open(f)
    PROVE  StampInv'
<1> USE DEF Copy2Open, envVars
<1>1. SUFFICES ASSUME NEW e \in Experts, Readable(e)'
               PROVE  dst'[e][StableMod].ts >= lastDone
  BY DEF StampInv, StableNotOlderThanCommitted
<1>2. DOMAIN dst = Experts /\ cur \in Experts
  BY DEF IInv, TypeOK
<1>3. CASE e = cur
  <2>1. StableMod # f /\ StableMod \in DOMAIN dst[cur]
    BY <1>1, <1>2, <1>3 DEF Readable, Torn
  <2>2. dst'[e][StableMod] = dst[e][StableMod] /\ Readable(e)
    BY <1>1, <2>1, <1>2, <1>3 DEF Readable
  <2>3. QED
    BY <2>2 DEF StampInv, StableNotOlderThanCommitted
<1>4. CASE e # cur
  BY <1>2, <1>4, <1>1 DEF Readable, StampInv, StableNotOlderThanCommitted
<1>5. QED
  BY <1>3, <1>4

(* copy2 finishing module.safetensors writes the module snapshot of the    *)
(* current cycle, whose timestamp is at least the last committed one.      *)
LEMMA StampCopy2Write ==
    ASSUME IInv, StampInv, Copy2Write
    PROVE  StampInv'
<1>0. lastDone' <= ts'
  BY DEF Copy2Write, StampInv
<1> USE DEF Copy2Write, envVars
<1>1. SUFFICES ASSUME NEW e \in Experts, Readable(e)'
               PROVE  dst'[e][StableMod].ts >= lastDone
  BY <1>0 DEF StampInv, StableNotOlderThanCommitted
<1>2. DOMAIN dst = Experts /\ cur \in Experts /\ ts \in Times /\ lastDone \in Nat
  BY DEF IInv, TypeOK
<1>3. CASE e = cur /\ open = StableMod /\ StableMod \in DOMAIN dst[cur]
  <2>1. DOMAIN tmp = Experts
    BY DEF IInv, CopyingInv, CopyInv
  <2>2. PICK v \in 0..MaxVersion : tmp[cur] = StagedDir(ts, v)
    BY <1>2, <2>1 DEF IInv, StagingInv
  <2>3. dst'[e][StableMod] = Resolve(StagedDir(ts, v), StableMod)
    BY <1>2, <1>3, <2>2
  <2>4. QED
    BY <1>2, <2>3, StagedDirFacts DEF StampInv, Times
<1>4. CASE ~(e = cur /\ open = StableMod /\ StableMod \in DOMAIN dst[cur])
  <2>1. dst'[e][StableMod] = dst[e][StableMod] /\ Readable(e)
    BY <1>1, <1>2, <1>4 DEF Readable
  <2>2. QED
    BY <2>1 DEF StampInv, StableNotOlderThanCommitted
<1>5. QED
  BY <1>3, <1>4

(* copy_tree returning commits the cycle: module.safetensors of every      *)
(* expert is that cycle's snapshot, so the new lastDone is its timestamp.  *)
LEMMA StampStoreFinish ==
    ASSUME IInv, StampInv, StoreFinish
    PROVE  StampInv'
<1> USE DEF StoreFinish, copyVars, envVars
<1>0. lastDone' <= ts'
  BY DEF IInv, TypeOK, Times
<1>1. SUFFICES ASSUME NEW e \in Experts, Readable(e)'
               PROVE  dst'[e][StableMod].ts >= lastDone'
  BY <1>0 DEF StampInv, StableNotOlderThanCommitted
<1>2. ts \in Times
  BY DEF IInv, TypeOK
<1>3. PICK v \in 0..MaxVersion : CopiedFrom(e, StagedDir(ts, v), StagedNames(ts))
  BY CopyDoneCommitted DEF CommittedInv
<1>4. dst[e][StableMod] = Resolve(StagedDir(ts, v), StableMod)
  BY <1>3 DEF CopiedFrom, StagedNames
<1>5. QED
  BY <1>2, <1>4, StagedDirFacts DEF Times

(* StampInv is kept by every step, given IInv.                             *)
LEMMA StampNext == IInv /\ StampInv /\ [Next]_vars => StampInv'
<1> SUFFICES ASSUME IInv, StampInv, [Next]_vars PROVE StampInv'
  OBVIOUS
<1>0. ts \in Nat
  BY DEF IInv, TypeOK, Times
<1>1. CASE \E f \in FileName : Copy2Open(f)
  BY <1>1, StampCopy2Open
<1>2. CASE Copy2Write
  BY <1>2, StampCopy2Write
<1>3. CASE StoreFinish
  BY <1>3, StampStoreFinish
<1>4. CASE SaverWaitTimeout \/ Restart
  BY <1>0, <1>4, StampFrame DEF SaverWaitTimeout, Restart
<1>5. CASE SaverWaitStopped \/ CopyTreeBegin \/ StoreFail \/ Crash \/ RequestStop
  BY <1>0, <1>5, StampFrame DEF SaverWaitStopped, CopyTreeBegin, StoreFail, Crash,
     RequestStop, envVars, copyVars
<1>8. ASSUME NEW e \in Experts,
             StageExpert(e) \/ CopyTreeEnter(e) \/ LoadExpert(e) \/ Train(e)
      PROVE  StampInv'
  BY <1>0, <1>8, StampFrame DEF StageExpert, CopyTreeEnter, LoadExpert, Train, envVars,
     copyVars
<1>6. CASE UNCHANGED vars
  BY <1>0, <1>6, StampFrame DEF vars
<1>7. QED
  BY <1>1, <1>2, <1>3, <1>4, <1>5, <1>6, <1>8 DEF Next, SaverStep

(* Whenever module.safetensors of an expert can be read, it is a snapshot  *)
(* no older than the last store_experts that returned, through later       *)
(* partial copies, failures, crashes and restarts, for every set of        *)
(* experts and every bound (store_experts, copy_tree, Server restart).     *)
THEOREM StableNotOlder == Spec => []StableNotOlderThanCommitted
<1>1. Init => IInv /\ StampInv
  BY InitIInv, StampInit
<1>2. IInv /\ StampInv /\ [Next]_vars => (IInv /\ StampInv)'
  BY NextIInv, StampNext
<1>3. QED
  BY <1>1, <1>2, PTL DEF Spec, StampInv
-----------------------------------------------------------------------------
(* THE ENTRY COUNT OF AN EXPERT DIRECTORY                                  *)

(* The names store_experts has created in an expert directory after the   *)
(* cycles 1..n: two timestamped files per cycle and the two stable names.  *)
Names(n) == {ModFile(t) : t \in 1..n} \cup {CkptFile(t) : t \in 1..n} \cup {StableMod, StableCkpt}

(* Without crashes the timestamps count the cycles: a cycle in progress    *)
(* has the timestamp stored + 1, a waiting saver the one of its last       *)
(* cycle; every expert directory holds the names of the completed cycles   *)
(* and at most those of the current one.  The cardinality of the names of *)
(* the completed cycles is carried along, one cycle at a time.             *)
CountInv ==
    /\ pc # "down"
    /\ pc \in {"stage", "copy"} => ts = stored + 1
    /\ pc = "wait" => ts = stored
    /\ \A e \in Experts : /\ stored > 0 => Names(stored) \subseteq DOMAIN dst[e]
                          /\ DOMAIN dst[e] \subseteq Names(ts)
    /\ IsFiniteSet(Names(stored)) /\ Cardinality(Names(stored)) = 2 * stored + 2

(* Before any cycle only the two stable names are counted.                 *)
LEMMA NamesZero == IsFiniteSet(Names(0)) /\ Cardinality(Names(0)) = 2
<1>1. Names(0) = {StableMod} \cup {StableCkpt}
  BY DEF Names
<1>2. StableCkpt \notin {StableMod}
  BY DEF StableMod, StableCkpt
<1>3. IsFiniteSet({StableMod}) /\ Cardinality({StableMod}) = 1
  BY FS_Singleton
<1>4. QED
  BY <1>1, <1>2, <1>3, FS_AddElement

(* One more cycle adds its two timestamped names, which are new.           *)
LEMMA NamesStep ==
    ASSUME NEW n \in Nat, IsFiniteSet(Names(n)), Cardinality(Names(n)) = 2 * n + 2
    PROVE  IsFiniteSet(Names(n + 1)) /\ Cardinality(Names(n + 1)) = 2 * (n + 1) + 2
<1>1. Names(n + 1) = (Names(n) \cup {ModFile(n + 1)}) \cup {CkptFile(n + 1)}
  BY DEF Names
<1>2. ModFile(n + 1) \notin Names(n)
  BY DEF Names, ModFile, CkptFile, StableMod, StableCkpt
<1>3. CkptFile(n + 1) \notin Names(n) \cup {ModFile(n + 1)}
  BY DEF Names, ModFile, CkptFile, StableMod, StableCkpt
<1>4. IsFiniteSet(Names(n) \cup {ModFile(n + 1)})
      /\ Cardinality(Names(n) \cup {ModFile(n + 1)}) = 2 * n + 3
  BY <1>2, FS_AddElement
<1>5. QED
  BY <1>1, <1>3, <1>4, FS_AddElement

(* The staged names of a cycle are among the names up to it.               *)
LEMMA StagedInNames ==
    ASSUME NEW t \in Times
    PROVE  /\ StagedNames(t) \subseteq Names(t)
           /\ Names(t) = Names(t - 1) \cup StagedNames(t)
BY DEF Times, StagedNames, Names

(* The fresh checkpoint directory is empty and no cycle has completed.     *)
LEMMA CountInit == Init => CountInv
BY NamesZero DEF Init, CountInv

(* A step that leaves the directory, the clock and the count alone, and   *)
(* neither starts a cycle nor completes one, keeps CountInv.               *)
LEMMA CountFrame ==
    ASSUME CountInv, UNCHANGED <<dst, ts, stored>>, pc' # "down",
           pc' \in {"stage", "copy"} => pc \in {"stage", "copy"},
           pc' = "wait" => pc = "wait"
    PROVE  CountInv'
BY DEF CountInv

(* copy2 opening a file creates one of the current cycle's staged names.   *)
LEMMA CountCopy2Open ==
    ASSUME IInv, CountInv, NEW f \in FileName, Copy2Open(f)
    PROVE  CountInv'
<1> USE DEF Copy2Open, envVars
<1>1. ts \in Times /\ DOMAIN dst = Experts /\ cur \in Experts
  BY DEF IInv, TypeOK
<1>2. f \in StagedNames(ts)
  <2>1. CopyInv
    BY DEF IInv, CopyingInv
  <2>2. cur \notin expLeft /\ f \in DOMAIN tmp[cur]
    BY <2>1 DEF CopyInv
  <2>3. PICK v \in 0..MaxVersion : tmp[cur] = StagedDir(ts, v)
    BY <1>1, <2>1, <2>2 DEF IInv, StagingInv, CopyInv
  <2>4. QED
    BY <1>1, <2>2, <2>3, StagedDirFacts
<1>3. f \in Names(ts)
  BY <1>1, <1>2, StagedInNames
<1>4. QED
  BY <1>1, <1>3 DEF CountInv

(* copy2 finishing a file leaves the names of the directory as they are.   *)
LEMMA CountCopy2Write ==
    ASSUME IInv, CountInv, Copy2Write
    PROVE  CountInv'
<1>1. DOMAIN dst = Experts /\ cur \in Experts
  BY DEF IInv, TypeOK
<1>2. \A e \in Experts : DOMAIN dst'[e] = DOMAIN dst[e]
  BY <1>1 DEF Copy2Write
<1>3. QED
  BY <1>2 DEF Copy2Write, envVars, CountInv

(* copy_tree returning: every expert directory now holds the names of the *)
(* cycle just completed, which is counted.                                 *)
LEMMA CountStoreFinish ==
    ASSUME IInv, CountInv, StoreFinish
    PROVE  CountInv'
<1> USE DEF StoreFinish, copyVars, envVars
<1>1. ts \in Times /\ stored \in Nat /\ ts = stored + 1
  BY DEF IInv, TypeOK, CountInv
<1>2. \A e \in Experts : StagedNames(ts) \subseteq DOMAIN dst[e]
  <2>1. CommittedInv(ts)
    BY CopyDoneCommitted
  <2>2. QED
    BY <2>1 DEF CommittedInv, CopiedFrom
<1>3. \A e \in Experts : Names(ts) \subseteq DOMAIN dst[e]
  <2>1. Names(ts) = Names(stored) \cup StagedNames(ts)
    BY <1>1, StagedInNames
  <2>2. \A e \in Experts : stored > 0 => Names(stored) \subseteq DOMAIN dst[e]
    BY DEF CountInv
  <2>3. Names(0) \subseteq StagedNames(1)
    BY DEF Names, StagedNames
  <2>4. QED
    BY <1>1, <1>2, <2>1, <2>2, <2>3
<1>4. IsFiniteSet(Names(ts)) /\ Cardinality(Names(ts)) = 2 * ts + 2
  BY <1>1, NamesStep DEF CountInv
<1>5. QED
  BY <1>1, <1>3, <1>4 DEF CountInv

(* Without crashes, CountInv is kept by every step, given IInv.            *)
LEMMA CountNext ==
    ASSUME MaxCrashes = 0
    PROVE  IInv /\ CountInv /\ [Next]_vars => CountInv'
<1> SUFFICES ASSUME IInv, CountInv, [Next]_vars PROVE CountInv'
  OBVIOUS
<1>0. pc # "down"
  BY DEF CountInv
<1>1. CASE \E f \in FileName : Copy2Open(f)
  BY <1>1, CountCopy2Open
<1>2. CASE Copy2Write
  BY <1>2, CountCopy2Write
<1>3. CASE StoreFinish
  BY <1>3, CountStoreFinish
<1>4. CASE SaverWaitTimeout
  <2>1. ts \in Times /\ Names(ts) \subseteq Names(ts + 1)
    BY DEF IInv, TypeOK, Times, Names
  <2>2. QED
    BY <1>4, <2>1 DEF SaverWaitTimeout, CountInv
<1>5. CASE SaverWaitStopped
  BY <1>0, <1>5, CountFrame DEF SaverWaitStopped, copyVars, envVars
<1>10. CASE CopyTreeBegin
  BY <1>0, <1>10, CountFrame DEF CopyTreeBegin, envVars
<1>11. CASE StoreFail
  BY <1>0, <1>11, CountFrame DEF StoreFail, envVars
<1>12. CASE RequestStop
  BY <1>0, <1>12, CountFrame DEF RequestStop, copyVars, envVars
<1>6. ASSUME NEW e \in Experts,
             StageExpert(e) \/ CopyTreeEnter(e) \/ LoadExpert(e) \/ Train(e)
      PROVE  CountInv'
  <2>1. CASE StageExpert(e)
    BY <1>0, <2>1, CountFrame DEF StageExpert, envVars, copyVars
  <2>2. CASE CopyTreeEnter(e)
    BY <1>0, <2>2, CountFrame DEF CopyTreeEnter, envVars
  <2>3. CASE LoadExpert(e)
    BY <1>0, <2>3, CountFrame DEF LoadExpert, copyVars
  <2>4. CASE Train(e)
    BY <1>0, <2>4, CountFrame DEF Train, copyVars
  <2>5. QED
    BY <1>6, <2>1, <2>2, <2>3, <2>4
<1>7. CASE Crash \/ Restart
  BY <1>7 DEF Crash, Restart, IInv, TypeOK, CountInv
<1>8. CASE UNCHANGED vars
  BY <1>0, <1>8, CountFrame DEF vars
<1>9. QED
  BY <1>1, <1>2, <1>3, <1>4, <1>5, <1>6, <1>7, <1>8, <1>10, <1>11, <1>12
  DEF Next, SaverStep

(* A waiting saver's directory holds exactly the names of its cycles.      *)
LEMMA CountInvEntries == IInv /\ CountInv => CheckpointEntryCount
<1> SUFFICES ASSUME IInv, CountInv, pc = "wait", NEW e \in Experts
             PROVE  Cardinality(DOMAIN dst[e]) = 2 * stored + 2
  BY DEF CheckpointEntryCount
<1>1. ts = stored /\ ts \in Times
  BY DEF CountInv, IInv, TypeOK
<1>2. DOMAIN dst[e] = Names(stored)
  BY <1>1 DEF CountInv, Times
<1>3. QED
  BY <1>2 DEF CountInv

(* A server whose process never crashes has, whenever its saver waits for  *)
(* the next cycle after N completed store_experts calls, exactly 2N + 2   *)
(* entries in every expert directory, for every set of experts and every  *)
(* bound (store_experts, copy_tree; spec testable property 1).             *)
THEOREM EntryCount ==
    ASSUME MaxCrashes = 0
    PROVE  Spec => []CheckpointEntryCount
<1>1. Init => IInv /\ CountInv
  BY InitIInv, CountInit
<1>2. IInv /\ CountInv /\ [Next]_vars => (IInv /\ CountInv)'
  BY NextIInv, CountNext
<1>3. QED
  BY <1>1, <1>2, CountInvEntries, PTL DEF Spec

-----------------------------------------------------------------------------
(* Completed timestamped snapshots are never rewritten (SnapshotsKept).    *)

(* The two timestamped names of cycle t.                                   *)
StampedNames(t) == {ModFile(t), CkptFile(t)}

(* No timestamped file is newer than the clock; a cycle that stages finds *)
(* none of its own names in the directory; while it copies, the experts    *)
(* not yet entered hold none, the current one holds none of the names left *)
(* to copy, and the file copy2 has open is the truncated one it opened.    *)
FreshInv ==
    /\ \A e \in Experts : \A t \in Times :
          StampedNames(t) \cap DOMAIN dst[e] # {} => t <= ts
    /\ pc = "stage" => \A e \in Experts : StampedNames(ts) \cap DOMAIN dst[e] = {}
    /\ pc = "copy" =>
          /\ \A e \in expLeft : StampedNames(ts) \cap DOMAIN dst[e] = {}
          /\ fileLeft \cap StampedNames(ts) \cap DOMAIN dst[cur] = {}
          /\ open # NoFile => dst[cur][open] = Torn

(* The names of the staging tree other than the stable ones are the       *)
(* timestamped names of the cycle.                                         *)
LEMMA StagedStamped ==
    ASSUME NEW t \in Times, NEW f \in StagedNames(t), f \notin {StableMod, StableCkpt}
    PROVE  f \in StampedNames(t)
BY DEF StagedNames, StampedNames

(* A timestamped name has one timestamp.                                   *)
LEMMA StampedApart ==
    ASSUME NEW t \in Times, NEW u \in Times, NEW f \in StampedNames(t) \cap StampedNames(u)
    PROVE  t = u
BY DEF StampedNames, ModFile, CkptFile

LEMMA FreshInit == Init => FreshInv
BY DEF Init, FreshInv

(* A step that changes none of pc, dst, ts and the copy state keeps        *)
(* FreshInv.                                                               *)
LEMMA FreshFrame ==
    ASSUME FreshInv, dst' = dst, ts' = ts, pc' = pc,
           UNCHANGED <<expLeft, cur, fileLeft, open>>
    PROVE  FreshInv'
BY DEF FreshInv

(* Leaving stage and copy (the cycle returns, fails, or the process dies) *)
(* without writing keeps FreshInv.                                         *)
LEMMA FreshLeave ==
    ASSUME FreshInv, dst' = dst, ts' = ts, pc' \notin {"stage", "copy"}
    PROVE  FreshInv'
BY DEF FreshInv

(* A new cycle (the saver's next timeout, or a restarted process) takes    *)
(* the next timestamp, which no file carries yet.                          *)
LEMMA FreshNewCycle ==
    ASSUME IInv, FreshInv, pc' = "stage", ts' = ts + 1, ts' \in Times, dst' = dst
    PROVE  FreshInv'
<1>0. ts \in Nat
  BY DEF IInv, TypeOK, Times
<1>1. \A e \in Experts : \A t \in Times :
          StampedNames(t) \cap DOMAIN dst'[e] # {} => t <= ts'
  BY <1>0 DEF FreshInv, Times
<1>2. \A e \in Experts : StampedNames(ts') \cap DOMAIN dst'[e] = {}
  BY <1>0 DEF FreshInv
<1>3. QED
  BY <1>1, <1>2 DEF FreshInv

(* copy_tree starts: nothing of this cycle has been copied.                *)
LEMMA FreshCopyTreeBegin ==
    ASSUME IInv, FreshInv, CopyTreeBegin
    PROVE  FreshInv'
<1>1. open = NoFile
  BY DEF IInv, OpenInv, CopyTreeBegin
<1>2. QED
  BY <1>1 DEF FreshInv, CopyTreeBegin

(* copy_tree enters the directory of e, which holds nothing of the cycle. *)
LEMMA FreshCopyTreeEnter ==
    ASSUME NEW e \in Experts, IInv, FreshInv, CopyTreeEnter(e)
    PROVE  FreshInv'
<1> USE DEF CopyTreeEnter
<1>1. DOMAIN tmp[e] = StagedNames(ts)
  BY CopyDirFacts
<1>2. StampedNames(ts) \cap DOMAIN dst[e] = {}
  BY DEF FreshInv
<1>3. (fileLeft \cap StampedNames(ts) \cap DOMAIN dst[cur] = {})'
  BY <1>1, <1>2
<1>4. QED
  BY <1>3 DEF FreshInv, NoFile

(* copy2 opens a name of the cycle that the current directory lacks.      *)
LEMMA FreshCopy2Open ==
    ASSUME NEW f \in FileName, IInv, FreshInv, Copy2Open(f)
    PROVE  FreshInv' /\ f \notin (DOMAIN dst[cur] \ {StableMod, StableCkpt})
<1> USE DEF Copy2Open
<1>0. CopyInv
  BY DEF IInv, CopyingInv
<1>a. cur \notin expLeft /\ f \in DOMAIN tmp[cur]
  BY <1>0 DEF CopyInv
<1>b. f \in StagedNames(ts) /\ ts \in Times
  BY <1>a, CopyDirFacts DEF IInv, TypeOK
<1>c. /\ DOMAIN dst'[cur] = DOMAIN dst[cur] \cup {f}
      /\ dst'[cur][f] = Torn
      /\ \A y \in Experts \ {cur} : dst'[y] = dst[y]
  BY DEF IInv, TypeOK
<1>d. f \notin {StableMod, StableCkpt} => f \in StampedNames(ts)
  BY <1>b, StagedStamped
<1>e. f \notin (DOMAIN dst[cur] \ {StableMod, StableCkpt})
  BY <1>d DEF FreshInv
<1>1. \A e \in Experts : \A t \in Times :
          StampedNames(t) \cap DOMAIN dst'[e] # {} => t <= ts'
  <2> SUFFICES ASSUME NEW e \in Experts, NEW t \in Times,
                      NEW g \in StampedNames(t) \cap DOMAIN dst'[e]
               PROVE  t <= ts
    OBVIOUS
  <2>1. CASE e = cur /\ g = f
    <3>1. g \notin {StableMod, StableCkpt}
      BY DEF StampedNames, ModFile, CkptFile, StableMod, StableCkpt
    <3>2. g \in StampedNames(ts)
      BY <2>1, <3>1, <1>d
    <3>3. QED
      BY <3>2, <1>b, StampedApart DEF Times
  <2>2. CASE ~(e = cur /\ g = f)
    <3>1. g \in DOMAIN dst[e]
      BY <2>2, <1>c
    <3>2. QED
      BY <3>1 DEF FreshInv
  <2>3. QED
    BY <2>1, <2>2
<1>2. (\A e \in expLeft : StampedNames(ts) \cap DOMAIN dst[e] = {})'
  BY <1>a, <1>c DEF FreshInv, IInv, TypeOK
<1>3. (fileLeft \cap StampedNames(ts) \cap DOMAIN dst[cur] = {})'
  BY <1>c DEF FreshInv
<1>4. (open # NoFile => dst[cur][open] = Torn)'
  BY <1>c
<1>5. QED
  BY <1>e, <1>1, <1>2, <1>3, <1>4 DEF FreshInv

(* copy2 finishes the open file: it leaves the copy state consistent.     *)
LEMMA FreshCopy2Write ==
    ASSUME IInv, FreshInv, Copy2Write
    PROVE  FreshInv'
<1> USE DEF Copy2Write
<1>0. CopyInv
  BY DEF IInv, CopyingInv
<1>a. cur \notin expLeft /\ open \in DOMAIN dst[cur]
  BY <1>0 DEF CopyInv
<1>c. /\ DOMAIN dst'[cur] = DOMAIN dst[cur]
      /\ \A y \in Experts \ {cur} : dst'[y] = dst[y]
  BY <1>a DEF IInv, TypeOK
<1>1. QED
  BY <1>a, <1>c DEF FreshInv, IInv, TypeOK

(* FreshInv is inductive, together with IInv.                              *)
LEMMA FreshNext == IInv /\ FreshInv /\ [Next]_vars => FreshInv'
<1> SUFFICES ASSUME IInv, FreshInv, [Next]_vars PROVE FreshInv'
  OBVIOUS
<1>1. CASE \E f \in FileName : Copy2Open(f)
  BY <1>1, FreshCopy2Open
<1>2. CASE Copy2Write
  BY <1>2, FreshCopy2Write
<1>3. CASE CopyTreeBegin
  BY <1>3, FreshCopyTreeBegin
<1>4. CASE \E e \in Experts : CopyTreeEnter(e)
  BY <1>4, FreshCopyTreeEnter
<1>5. CASE SaverWaitTimeout \/ Restart
  <2>0. ts \in Times
    BY DEF IInv, TypeOK
  <2>a. ts < MaxStores
    BY <1>5 DEF SaverWaitTimeout, Restart
  <2>1. ts + 1 \in Times
    BY <2>a, <2>0, CheckpointAssumption DEF Times
  <2>2. QED
    BY <1>5, <2>1, FreshNewCycle DEF SaverWaitTimeout, Restart
<1>6. CASE SaverWaitStopped \/ StoreFinish \/ StoreFail \/ Crash
  BY <1>6, FreshLeave DEF SaverWaitStopped, StoreFinish, StoreFail, Crash
<1>10. CASE RequestStop
  BY <1>10, FreshFrame DEF RequestStop, copyVars
<1>7. ASSUME NEW e \in Experts, StageExpert(e) \/ LoadExpert(e) \/ Train(e)
      PROVE  FreshInv'
  BY <1>7, FreshFrame DEF StageExpert, LoadExpert, Train, copyVars
<1>8. CASE UNCHANGED vars
  BY <1>8, FreshFrame DEF vars
<1>9. QED
  BY <1>1, <1>2, <1>3, <1>4, <1>5, <1>6, <1>7, <1>8, <1>10 DEF Next, SaverStep

(* Only copy2 writes into the checkpoint directory, and what it opens or  *)
(* finishes is never a completed timestamped snapshot.                     *)
LEMMA FreshKept == IInv /\ FreshInv /\ [Next]_vars => [SnapshotKeptStep]_vars
<1> SUFFICES ASSUME IInv, FreshInv, [Next]_vars PROVE SnapshotKeptStep
  BY DEF SnapshotKeptStep
<1>1. CASE \E f \in FileName : Copy2Open(f)
  <2> PICK f \in FileName : Copy2Open(f)
    BY <1>1
  <2>1. f \notin (DOMAIN dst[cur] \ {StableMod, StableCkpt})
    BY FreshCopy2Open
  <2>2. /\ \A g \in DOMAIN dst[cur] \ {f} : g \in DOMAIN dst'[cur] /\ dst'[cur][g] = dst[cur][g]
        /\ \A y \in Experts \ {cur} : dst'[y] = dst[y]
    BY DEF Copy2Open, IInv, TypeOK
  <2>3. QED
    BY <2>1, <2>2 DEF SnapshotKeptStep, IInv, TypeOK
<1>2. CASE Copy2Write
  <2>1. pc = "copy" /\ open # NoFile /\ dst[cur][open] = Torn
    BY <1>2 DEF Copy2Write, FreshInv
  <2>2. open \in DOMAIN dst[cur]
    BY <2>1 DEF IInv, CopyingInv, CopyInv
  <2>3. /\ \A g \in DOMAIN dst[cur] \ {open} : g \in DOMAIN dst'[cur] /\ dst'[cur][g] = dst[cur][g]
        /\ \A y \in Experts \ {cur} : dst'[y] = dst[y]
    BY <1>2, <2>2 DEF Copy2Write, IInv, TypeOK
  <2>4. QED
    BY <2>1, <2>3 DEF SnapshotKeptStep, IInv, TypeOK
<1>3. CASE dst' = dst
  BY <1>3 DEF SnapshotKeptStep
<1>4. QED
  <2>1. ~(\E f \in FileName : Copy2Open(f)) /\ ~Copy2Write => dst' = dst
    BY DEF Next, SaverStep, vars, SaverWaitTimeout, SaverWaitStopped, StageExpert,
           CopyTreeBegin, CopyTreeEnter, StoreFinish, StoreFail, Crash, Restart,
           LoadExpert, Train, RequestStop
  <2>2. QED
    BY <1>1, <1>2, <1>3, <2>1

(* A completed module_<ts> or checkpoint_<ts> file is never truncated or   *)
(* rewritten, whatever store cycles fail, crash and restart, for every set *)
(* of experts and every bound: store_experts takes a fresh timestamp per   *)
(* cycle and copy_tree copies each staged file once (checkpoints.py,       *)
(* store_experts and copy_tree).                                           *)
THEOREM SnapshotsNeverRewritten == Spec => SnapshotsKept
<1>1. Init => IInv /\ FreshInv
  BY InitIInv, FreshInit
<1>2. IInv /\ FreshInv /\ [Next]_vars => (IInv /\ FreshInv)'
  BY NextIInv, FreshNext
<1>3. IInv /\ FreshInv /\ [Next]_vars => [SnapshotKeptStep]_vars
  BY FreshKept
<1>4. QED
  BY <1>1, <1>2, <1>3, PTL DEF Spec, SnapshotsKept
=============================================================================

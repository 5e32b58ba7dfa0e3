----------------------------- MODULE Checkpoint -----------------------------
(***************************************************************************)
(* Checkpoint persistence of hivemind/moe/server/checkpoints.py.           *)
(*                                                                         *)
(* One server process hosts the experts `Experts` and runs a               *)
(* CheckpointSaver thread.  Every store cycle (store_experts) stages, in a *)
(* fresh TemporaryDirectory, per expert a module snapshot, a backend       *)
(* snapshot and two symlinks to them, then merges the staging tree into    *)
(* the checkpoint directory with copy_tree, one copy2 per file.  copy2     *)
(* follows symlinks and rewrites the destination file in place, so a file  *)
(* being copied is observable truncated.  Another process may call         *)
(* load_expert on the same directory at any time; the server process may   *)
(* crash (be killed) and be started again, restoring its experts from the  *)
(* directory and constructing a new CheckpointSaver.                       *)
(*                                                                         *)
(* Data is abstracted: an expert's module and optimizer state is the       *)
(* number of training steps taken (`weights`), and datetime.now() is the   *)
(* counter `ts` of store cycles begun, one timestamp per cycle.            *)
(***************************************************************************)
EXTENDS Naturals, FiniteSets

CONSTANTS
    Experts,      \* the keys of module_backends (expert uids)
    MaxVersion,   \* bound on the training steps of one expert
    MaxStores,    \* bound on the store cycles (the timestamps 1..MaxStores)
    MaxCrashes,   \* bound on the crashes of the server process
    MaxLoads      \* bound on the load_expert calls of the reader process

ASSUME CheckpointAssumption ==
    /\ IsFiniteSet(Experts)
    /\ MaxVersion \in Nat
    /\ MaxStores \in Nat \ {0}
    /\ MaxCrashes \in Nat
    /\ MaxLoads \in Nat

-----------------------------------------------------------------------------
(* File names of one expert directory: the timestamped snapshots and the   *)
(* two stable names of store_experts.                                      *)
ModFile(t)  == <<"module", t>>
CkptFile(t) == <<"checkpoint", t>>
StableMod   == <<"module.safetensors", 0>>
StableCkpt  == <<"checkpoint_last.safetensors", 0>>
Times       == 1..MaxStores
FileName    == {ModFile(t) : t \in Times} \cup {CkptFile(t) : t \in Times}
                 \cup {StableMod, StableCkpt}

(* Contents: a safetensors file holding a snapshot taken at cycle `ts` of  *)
(* an expert at training step `ver`, a symlink, or a file that copy2 has   *)
(* opened for writing and not finished (truncated or partly written).      *)
Snapshot == [kind : {"module", "checkpoint"}, ver : 0..MaxVersion, ts : Times]
Link     == [kind : {"link"}, target : FileName]
Torn     == [kind |-> "torn"]

(* What load_expert obtained: nothing yet, the warning of a missing file,  *)
(* an exception from a file it could not parse, or the weights loaded.     *)
LoadResult == [status : {"none", "missing", "error"}, ver : {0}]
                \cup [status : {"ok"}, ver : 0..MaxVersion]
NoLoad == [status |-> "none", ver |-> 0]

VARIABLES
    weights,   \* weights[e]: training steps of expert e in the server's memory
    pc,        \* the CheckpointSaver thread / the server process
    stop,      \* CheckpointSaver.stop, the threading.Event set by shutdown
    ts,        \* timestamp of the current (or last) store cycle
    stored,    \* number of store_experts calls that returned
    lastDone,  \* timestamp of the last store_experts call that returned
    tmp,       \* the TemporaryDirectory: tmp[e] is the staged directory of e
    dst,       \* the checkpoint directory: dst[e] maps file names to contents
    expLeft,   \* copy_tree: expert directories of tmp not yet entered
    cur,       \* copy_tree: the expert directory being copied
    fileLeft,  \* copy_tree: files of tmp[cur] not yet copied
    open,      \* copy2: the file of dst[cur] being written, or NoFile
    crashes,   \* number of crashes so far
    restored   \* restored[e]: result of the load_expert of e by a reader

copyVars == <<expLeft, cur, fileLeft, open>>
envVars  == <<weights, crashes, restored>>
vars == <<weights, pc, stop, ts, stored, lastDone, tmp, dst, expLeft, cur, fileLeft,
          open, crashes, restored>>

NoFile == <<"none", 0>>
NoDir  == [e \in {} |-> {}]

(* Mutant of StagedDir: the two os.symlink calls with their targets        *)
(* swapped.                                                                *)
StagedDirSwapped(t, v) ==
    [f \in {ModFile(t), CkptFile(t), StableMod, StableCkpt} |->
        IF f = ModFile(t) THEN [kind |-> "module", ver |-> v, ts |-> t]
        ELSE IF f = CkptFile(t) THEN [kind |-> "checkpoint", ver |-> v, ts |-> t]
        ELSE IF f = StableMod THEN [kind |-> "link", target |-> CkptFile(t)]
        ELSE [kind |-> "link", target |-> ModFile(t)]]

(* The directory an expert gets in the staging tree at cycle t when its    *)
(* state_dict() is at training step v.                                     *)
StagedDir(t, v) ==
    [f \in {ModFile(t), CkptFile(t), StableMod, StableCkpt} |->
        IF f = ModFile(t) THEN [kind |-> "module", ver |-> v, ts |-> t]
        ELSE IF f = CkptFile(t) THEN [kind |-> "checkpoint", ver |-> v, ts |-> t]
        ELSE IF f = StableMod THEN [kind |-> "link", target |-> ModFile(t)]
        ELSE [kind |-> "link", target |-> CkptFile(t)]]

(* copy2(src, dst) with follow_symlinks=True writes the target's content.  *)
Resolve(dir, f) == IF dir[f].kind = "link" THEN dir[dir[f].target] ELSE dir[f]

TypeOK ==
    /\ weights \in [Experts -> 0..MaxVersion]
    /\ pc \in {"stage", "copy", "wait", "exited", "failed", "down"}
    /\ stop \in BOOLEAN
    /\ ts \in Times
    /\ stored \in Nat
    /\ lastDone \in 0..MaxStores
    /\ DOMAIN tmp \subseteq Experts
    /\ \A e \in DOMAIN tmp : tmp[e] \in [DOMAIN tmp[e] -> Snapshot \cup Link]
    /\ DOMAIN dst = Experts
    /\ \A e \in Experts : /\ DOMAIN dst[e] \subseteq FileName
                          /\ dst[e] \in [DOMAIN dst[e] -> Snapshot \cup {Torn}]
    /\ expLeft \subseteq Experts
    /\ cur \in Experts
    /\ fileLeft \subseteq FileName
    /\ open \in FileName \cup {NoFile}
    /\ crashes \in 0..MaxCrashes
    /\ restored \in [Experts -> LoadResult]

-----------------------------------------------------------------------------
(* CheckpointSaver.__init__ constructs the saver over an existing, empty   *)
(* checkpoint directory and immediately runs one store cycle.              *)
Init ==
    /\ weights = [e \in Experts |-> 0]
    /\ pc = "stage"
    /\ stop = FALSE
    /\ ts = 1
    /\ stored = 0
    /\ lastDone = 0
    /\ tmp = NoDir
    /\ dst = [e \in Experts |-> [f \in {} |-> Torn]]
    /\ expLeft = {}
    /\ cur \in Experts
    /\ fileLeft = {}
    /\ open = NoFile
    /\ crashes = 0
    /\ restored = [e \in Experts |-> NoLoad]

(* Mutant of SaverWaitTimeout: the timestamp does not advance between two  *)
(* cycles (a clock coarser than the update period).                        *)
SaverWaitTimeoutSameStamp ==
    /\ pc = "wait"
    /\ ~stop
    /\ ts < MaxStores
    /\ pc' = "stage"
    /\ tmp' = NoDir
    /\ UNCHANGED <<stop, ts, stored, lastDone, dst, copyVars, envVars>>

(* The run loop `while not self.stop.wait(update_period)`: the wait       *)
(* returns True when stop is set, ending the thread, and otherwise times   *)
(* out and starts store_experts with a fresh timestamp and a new           *)
(* TemporaryDirectory.                                                     *)
SaverWaitTimeout ==
    /\ pc = "wait"
    /\ ~stop
    /\ ts < MaxStores
    /\ pc' = "stage"
    /\ ts' = ts + 1
    /\ tmp' = NoDir
    /\ UNCHANGED <<stop, stored, lastDone, dst, copyVars, envVars>>

(* Mutant of SaverWaitStopped: the loop ignores what stop.wait() returns.  *)
SaverWaitStoppedIgnored ==
    /\ pc = "wait"
    /\ stop
    /\ ts < MaxStores
    /\ pc' = "stage"
    /\ ts' = ts + 1
    /\ tmp' = NoDir
    /\ UNCHANGED <<stop, stored, lastDone, dst, copyVars, envVars>>

SaverWaitStopped ==
    /\ pc = "wait"
    /\ stop
    /\ pc' = "exited"
    /\ UNCHANGED <<stop, ts, stored, lastDone, tmp, dst, copyVars, envVars>>

(* One iteration of the loop over experts.items() in store_experts: mkdir, *)
(* state_dict(), two save_safetensor calls and two os.symlink calls, all   *)
(* inside the private staging directory.                                   *)
StageExpert(e) ==
    /\ pc = "stage"
    /\ e \notin DOMAIN tmp
    /\ tmp' = [x \in DOMAIN tmp \cup {e} |->
                 IF x = e THEN StagedDir(ts, weights[e]) ELSE tmp[x]]
    /\ UNCHANGED <<pc, stop, ts, stored, lastDone, dst, copyVars, envVars>>

(* After the loop: copy_tree(tmpdirname, checkpoint_dir) lists the staged  *)
(* expert directories.                                                     *)
CopyTreeBegin ==
    /\ pc = "stage"
    /\ DOMAIN tmp = Experts
    /\ pc' = "copy"
    /\ expLeft' = Experts
    /\ fileLeft' = {}
    /\ UNCHANGED <<stop, ts, stored, lastDone, tmp, dst, cur, open, envVars>>

(* The recursive copy_tree call for the directory of e (os.listdir order   *)
(* is arbitrary), once the previous directory is done.                     *)
CopyTreeEnter(e) ==
    /\ pc = "copy"
    /\ fileLeft = {}
    /\ open = NoFile
    /\ e \in expLeft
    /\ expLeft' = expLeft \ {e}
    /\ cur' = e
    /\ fileLeft' = DOMAIN tmp[e]
    /\ UNCHANGED <<pc, stop, ts, stored, lastDone, tmp, dst, open, envVars>>

(* copy2 opens the destination for writing: an existing file is truncated *)
(* in place, a new one is created empty.                                   *)
Copy2Open(f) ==
    /\ pc = "copy"
    /\ open = NoFile
    /\ f \in fileLeft
    /\ dst' = [dst EXCEPT ![cur] = [x \in DOMAIN dst[cur] \cup {f} |->
                                       IF x = f THEN Torn ELSE dst[cur][x]]]
    /\ open' = f
    /\ fileLeft' = fileLeft \ {f}
    /\ UNCHANGED <<pc, stop, ts, stored, lastDone, tmp, expLeft, cur, envVars>>

(* Mutant of Copy2Write: the symlink itself is copied (follow_symlinks=    *)
(* False), not the file it points to.                                      *)
Copy2WriteNoFollow ==
    /\ pc = "copy"
    /\ open # NoFile
    /\ dst' = [dst EXCEPT ![cur][open] = tmp[cur][open]]
    /\ open' = NoFile
    /\ UNCHANGED <<pc, stop, ts, stored, lastDone, tmp, expLeft, cur, fileLeft, envVars>>

(* copy2 finishes writing the content of the symlink's target.            *)
Copy2Write ==
    /\ pc = "copy"
    /\ open # NoFile
    /\ dst' = [dst EXCEPT ![cur][open] = Resolve(tmp[cur], open)]
    /\ open' = NoFile
    /\ UNCHANGED <<pc, stop, ts, stored, lastDone, tmp, expLeft, cur, fileLeft, envVars>>

(* copy_tree returns; leaving the `with TemporaryDirectory()` block        *)
(* removes the staging tree and the thread goes back to its wait.          *)
StoreFinish ==
    /\ pc = "copy"
    /\ expLeft = {}
    /\ fileLeft = {}
    /\ open = NoFile
    /\ pc' = "wait"
    /\ stored' = stored + 1
    /\ lastDone' = ts
    /\ tmp' = NoDir
    /\ UNCHANGED <<stop, ts, dst, copyVars, envVars>>

(* An exception inside store_experts (a failed write, a full disk): the    *)
(* staging tree is removed, the exception leaves run() and the thread      *)
(* dies; whatever copy_tree already wrote stays, a file being written      *)
(* stays truncated.                                                        *)
StoreFail ==
    /\ pc \in {"stage", "copy"}
    /\ pc' = "failed"
    /\ tmp' = NoDir
    /\ expLeft' = {}
    /\ fileLeft' = {}
    /\ open' = NoFile
    /\ UNCHANGED <<stop, ts, stored, lastDone, dst, cur, envVars>>

(* The server process is killed at any point; the disk keeps its state.   *)
Crash ==
    /\ pc # "down"
    /\ crashes < MaxCrashes
    /\ pc' = "down"
    /\ crashes' = crashes + 1
    /\ tmp' = NoDir
    /\ expLeft' = {}
    /\ fileLeft' = {}
    /\ open' = NoFile
    /\ UNCHANGED <<weights, stop, ts, stored, lastDone, dst, cur, restored>>

(* load_expert(expert, expert_name, checkpoint_dir) of checkpoints.py: the *)
(* weights of module.safetensors if it exists, else a warning.             *)
Loaded(e) ==
    IF StableMod \notin DOMAIN dst[e]
    THEN [status |-> "missing", ver |-> 0]
    ELSE IF dst[e][StableMod] = Torn THEN [status |-> "error", ver |-> 0]
    ELSE [status |-> "ok", ver |-> dst[e][StableMod].ver]

(* A reader process loads each expert at most once, MaxLoads in all.      *)
LoadExpert(e) ==
    /\ restored[e] = NoLoad
    /\ Cardinality({x \in Experts : restored[x] # NoLoad}) < MaxLoads
    /\ restored' = [restored EXCEPT ![e] = Loaded(e)]
    /\ UNCHANGED <<weights, pc, stop, ts, stored, lastDone, tmp, dst, copyVars, crashes>>

(* Mutant of Restart: the new process numbers its cycles from 1 again.    *)
RestartClockReset ==
    /\ pc = "down"
    /\ ts < MaxStores
    /\ \A e \in Experts : Loaded(e).status # "error"
    /\ weights' = [e \in Experts |-> Loaded(e).ver]
    /\ pc' = "stage"
    /\ stop' = FALSE
    /\ ts' = 1
    /\ UNCHANGED <<stored, lastDone, tmp, dst, copyVars, crashes, restored>>

(* The process is started again: every freshly built expert is restored   *)
(* with load_expert (a missing file leaves the fresh weights), then a new  *)
(* CheckpointSaver is constructed, which runs its first store cycle.  If   *)
(* a module.safetensors cannot be parsed, the start raises and nothing     *)
(* changes.                                                                *)
Restart ==
    /\ pc = "down"
    /\ ts < MaxStores
    /\ \A e \in Experts : Loaded(e).status # "error"
    /\ weights' = [e \in Experts |-> Loaded(e).ver]
    /\ pc' = "stage"
    /\ stop' = FALSE
    /\ ts' = ts + 1
    /\ UNCHANGED <<stored, lastDone, tmp, dst, copyVars, crashes, restored>>

(* The Runtime applies a backward pass to expert e (outside this module's  *)
(* code; it only changes what the next state_dict() returns).              *)
Train(e) ==
    /\ pc # "down"
    /\ weights[e] < MaxVersion
    /\ weights' = [weights EXCEPT ![e] = weights[e] + 1]
    /\ UNCHANGED <<pc, stop, ts, stored, lastDone, tmp, dst, copyVars, crashes, restored>>

(* Server.shutdown sets checkpoint_saver.stop (and then joins the thread). *)
RequestStop ==
    /\ pc # "down"
    /\ ~stop
    /\ stop' = TRUE
    /\ UNCHANGED <<pc, ts, stored, lastDone, tmp, dst, copyVars, envVars>>

(* The steps of the saver thread itself, which the scheduler keeps running. *)
SaverStep ==
    \/ SaverWaitTimeout
    \/ SaverWaitStopped
    \/ \E e \in Experts : StageExpert(e)
    \/ CopyTreeBegin
    \/ \E e \in Experts : CopyTreeEnter(e)
    \/ \E f \in FileName : Copy2Open(f)
    \/ Copy2Write
    \/ StoreFinish

Next ==
    \/ SaverStep
    \/ StoreFail
    \/ Crash
    \/ Restart
    \/ \E e \in Experts : LoadExpert(e)
    \/ \E e \in Experts : Train(e)
    \/ RequestStop

Spec == Init /\ [][Next]_vars

(* The saver thread is scheduled whenever it can run, and stop.wait()      *)
(* returns once stop is set; failures and crashes are never forced.        *)
FairSpec == Spec /\ WF_vars(SaverStep)

-----------------------------------------------------------------------------
(* PROPERTIES                                                              *)

(* Whenever the saver is back in its wait after a successful store cycle,  *)
(* every expert's module.safetensors and checkpoint_last.safetensors hold  *)
(* exactly the snapshots of that cycle's timestamped files (copy_tree and  *)
(* copy2's symlink following in store_experts).                            *)
CommittedStableIsLatest ==
    pc = "wait" =>
        \A e \in Experts :
            /\ {StableMod, StableCkpt, ModFile(ts), CkptFile(ts)} \subseteq DOMAIN dst[e]
            /\ dst[e][ModFile(ts)].kind = "module"
            /\ dst[e][CkptFile(ts)].kind = "checkpoint"
            /\ dst[e][StableMod] = dst[e][ModFile(ts)]
            /\ dst[e][StableCkpt] = dst[e][CkptFile(ts)]
            /\ dst[e][StableMod].ver = dst[e][StableCkpt].ver

(* module.safetensors, whenever it is readable, is never older than the   *)
(* last store cycle that completed, across later partial copies,           *)
(* failures, crashes and restarts: store_experts names and fills it from   *)
(* the timestamp of datetime.now(), and copy_tree only overwrites it.      *)
Readable(e) == StableMod \in DOMAIN dst[e] /\ dst[e][StableMod] # Torn

StableNotOlderThanCommitted ==
    \A e \in Experts : Readable(e) => dst[e][StableMod].ts >= lastDone

(* Once shutdown sets stop, the saver thread ends (the join in             *)
(* Server.shutdown returns): CheckpointSaver.run.                          *)
SaverStopsWhenAsked == stop ~> (pc \in {"exited", "failed", "down"})

(* After N successful store cycles an expert directory holds N module     *)
(* files, N backend files and the two stable names: the count of the      *)
(* spec's testable property 1 for store_experts when no cycle failed.      *)
CheckpointEntryCount ==
    pc = "wait" => \A e \in Experts : Cardinality(DOMAIN dst[e]) = 2 * stored + 2

(* After N store_experts calls an expert directory holds N + 1 entries:    *)
(* the assertion of test_save_checkpoints (tests/test_expert_backend.py,   *)
(* line 57, "include checkpoint_last.pt") after three calls.               *)
TestedEntryCount ==
    pc = "wait" => \A e \in Experts : Cardinality(DOMAIN dst[e]) = stored + 1

(* A load_expert never reads a partially written module.safetensors: the  *)
(* spec (section 3) says the staged checkpoint is merged atomically so     *)
(* that partially written checkpoints are never observed.                  *)
NoTornRead == \A e \in Experts : restored[e].status # "error"

(* A completed timestamped snapshot (module_<ts> or checkpoint_<ts>) is    *)
(* never truncated or rewritten by a later step: every store_experts names *)
(* its files with a fresh datetime.now() timestamp, across failures,       *)
(* crashes and restarts, so copy2 only ever opens new timestamped names.   *)
SnapshotKeptStep ==
    \A e \in Experts : \A f \in DOMAIN dst[e] \ {StableMod, StableCkpt} :
        dst[e][f] # Torn => f \in DOMAIN dst'[e] /\ dst'[e][f] = dst[e][f]

SnapshotsKept == [][SnapshotKeptStep]_vars

-----------------------------------------------------------------------------
(* INDUCTIVE INVARIANT                                                     *)
(* CommittedStableIsLatest alone is not inductive: it says nothing while a *)
(* cycle is staging or copying.  IInv adds what the staging tree holds and *)
(* which files copy_tree has already written.                              *)

StagedNames(t) == {ModFile(t), CkptFile(t), StableMod, StableCkpt}

(* Expert e's directory holds, for the files F, what copy2 writes from the *)
(* staged directory dir.                                                   *)
CopiedFrom(e, dir, F) ==
    \A f \in F : f \in DOMAIN dst[e] /\ dst[e][f] = Resolve(dir, f)

(* Every staged directory is the one of the current cycle.                 *)
StagingInv ==
    \A e \in DOMAIN tmp : \E v \in 0..MaxVersion : tmp[e] = StagedDir(ts, v)

(* While copying: all experts are staged, the experts done are copied, the *)
(* current one for the files it has finished.                              *)
CopyInv ==
    /\ DOMAIN tmp = Experts
    /\ \A e \in Experts \ (expLeft \cup {cur}) : CopiedFrom(e, tmp[e], DOMAIN tmp[e])
    /\ cur \notin expLeft =>
         /\ fileLeft \subseteq DOMAIN tmp[cur]
         /\ open \in DOMAIN tmp[cur] \cup {NoFile}
         /\ open \notin fileLeft
         /\ open # NoFile => open \in DOMAIN dst[cur]
         /\ CopiedFrom(cur, tmp[cur], DOMAIN tmp[cur] \ (fileLeft \cup {open}))
    /\ cur \in expLeft => fileLeft = {} /\ open = NoFile

(* After a completed cycle t, every expert directory holds that cycle.     *)
CommittedInv(t) ==
    \A e \in Experts : \E v \in 0..MaxVersion :
        CopiedFrom(e, StagedDir(t, v), StagedNames(t))

IdleInv    == pc \in {"wait", "exited", "failed", "down"} => DOMAIN tmp = {}
CopyingInv == pc = "copy" => CopyInv
OpenInv    == pc # "copy" => open = NoFile
WaitInv    == pc = "wait" => CommittedInv(ts)

IInv == TypeOK /\ StagingInv /\ IdleInv /\ CopyingInv /\ OpenInv /\ WaitInv

=============================================================================

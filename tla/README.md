# TLA+ models of the hivemind MoE server

This directory holds TLA+ specifications of `src/hivemind/moe/server`, the
TLC configurations that model-check them, and TLAPS proofs of their main
invariants. `PROJECT.json` lists the following, in machine-readable form:

- the components;
- the runs;
- the mutants that show each property can fail;
- the map from every definition to the source lines it models;
- the findings;
- the hazards;
- the theorems.

## 1. Inventory of the system

| Part | Source | State | Operations | Concurrency |
|------|--------|-------|------------|-------------|
| Checkpoint persistence | `checkpoints.py` | checkpoint directory (one subdirectory per expert with timestamped `module_*`/`checkpoint_*` files and the two stable names `module.safetensors`, `checkpoint_last.safetensors`); the saver's `stop` event | `CheckpointSaver.__init__` (runs a first store), `run` (wait `update_period` or stop, then store), `store_experts` (stage in a `TemporaryDirectory`, symlink, `copy_tree`), `copy_tree`/`copy2`, `load_expert` | the saver thread vs. the runtime training the experts, a reader process calling `load_expert`, process crash and restart |
| Server lifecycle | `server.py` 60-309 | `ready` event, runtime, connection handlers, DHT handler thread, checkpoint saver, DHT | `__init__`, `run`, `run_in_background`, `ready`, `shutdown` | the owner thread and the server thread both call `shutdown()` (the owner explicitly, the server thread in `run`'s `finally`) |
| Background server | `server.py` 312-352 | the parent's position in the context manager, the child process, the duplex pipe | `background_server` (start, recv, yield, send `SHUTDOWN`, timed join, kill), `_server_runner` (create, send result, recv, shutdown, join) | two processes over a pipe, plus the child's server threads |
| Server factory | `server.py` 95-233 | DHT, experts dict | `create`, `_make_expert`, `_load_expert_weights` | sequential; talks to the DHT |
| Uid generation | `server.py` 355-393, 167-202 | the generated list, the experts dict, the DHT's uid directory | `_generate_uids` (pattern expansion, DHT lookup of taken uids) | races with other servers through the DHT |
| Quantization | `bnb_quantization.py` | module tree, the shared `current_key_name` list | `quantization`, `replace_with_bnb_layers`, recursive `_replace_with_bnb_layers` | none |
| HF loader, module wrapper | `hf_loader.py`, `module_wrapper.py` | — | download/read weights; wrap a module | none |

What is hard here, and what a unit test rarely reaches:

- Checkpoints:
  - `copy_tree` overwrites live files in place, one `copy2` at a time, and `copy2` follows the staged symlinks.
  - A reader, or a process restarted after a crash, can meet a stable name half-written.
- Server:
  - `shutdown()` runs twice and concurrently, once from the owner and once from `run()`'s `finally`, interleaved step by step.
  - Its `join`s wait on threads that stop only when their events are set.
- Background server:
  - A blocking `ready.wait()` and a blocking `pipe.recv()` have no timeout.
  - The shutdown token is sent outside the `finally`.
  - A `kill` ends the child before its orderly shutdown.
- Uids: the DHT is checked long before the uids are declared. Indices are concatenated in decimal.
- Quantization: one key list is shared by the whole recursion. Exclusion is decided by substring tests.

## 2. Modules

### `Checkpoint.tla` (checkpoints.py)

The data is abstracted:

- an expert's state is the number of training steps it has taken (`weights`);
- `datetime.now()` is a cycle counter `ts`;
- a file is a snapshot record, a link, or `Torn` (opened by `copy2` and not finished).

The variables are:

- `dst`: the checkpoint directory;
- `tmp`: the staging tree;
- `pc`, `stop`: the saver's control;
- `cur`, `expLeft`, `fileLeft`, `open`: the loop of `copy_tree`;
- `crashes`: the crash count;
- `restored`: the reader's `load_expert` results;
- `stored`, `lastDone`: the count of completed cycles and the timestamp of the last one.

The actions are these:

- `SaverWaitTimeout` and `SaverWaitStopped` model the two outcomes of `stop.wait` (run, 56-58).
- `StageExpert(e)` models one iteration of the staging loop (66-75).
- `CopyTreeBegin`, `CopyTreeEnter(e)`, `Copy2Open(f)` and `Copy2Write` model `copy_tree` (32-41), with `copy2` split into opening (truncating) and completing the write.
- `StoreFinish` and `StoreFail` model the end of a store and an exception that ends the saver thread.
- `Crash` and `Restart` model the process being killed, restarted, restoring each expert with `load_expert`, and building a new `CheckpointSaver` (44-54).
- `LoadExpert(e)` models a reader calling `load_expert`; `Loaded(e)` is what that call returns (79-85).
- `RequestStop` models `Server.shutdown` setting `stop`.
- `Train(e)` models the runtime's backward pass. It is outside this code and not in the map.

Every state change of `checkpoints.py` is an action.

### `Server.tla` (server.py, Server class)

The variables are:

- `pc` of two threads: `owner`, the caller of `run_in_background`, and `srv`, the thread running `run()`;
- `ready`;
- `runtime`, `runtimeStop`;
- `dhtH`, `dhtStop`: the DHT handler thread;
- `saver`, `saverStop`;
- `handlers`;
- `dht`;
- `calls`: the number of `shutdown()` calls.

`shutdown()` has one action per statement, parameterised by the calling thread:

| Action | Line |
|--------|------|
| `ShutdownClear` | 290 |
| `ShutdownHandlers` | 292 |
| `ShutdownDhtStop` | 297 |
| `ShutdownDhtJoin` | 298 |
| `ShutdownSaverStop` | 301 |
| `ShutdownSaverJoin` | 302 |
| `ShutdownDht` | 304 |
| `ShutdownRuntime` | 307 |

A `join` is a guard that waits until the thread has exited.

The other actions model the rest of the lifecycle:

- `SrvRun` and `SrvFinally` model `run()`.
- `OwnerStart` and `OwnerReady` model `run_in_background` with `await_ready`.
- `OwnerShutdown` and `OwnerJoin` model the owner's explicit shutdown and join, as `_server_runner` does them.

The external threads are modelled by their contract:

- `RuntimeReady`, `RuntimeExit` and `RuntimeCrash` for the `Runtime`;
- `DhtHandlerExit` for the `DHTHandlerThread`;
- `SaverExit` for the saver's `run` loop leaving once `stop` is set.

The constants `WithSaver` and `HasExperts` select the two `if`s of `__init__` and `shutdown`.

### `BackgroundServer.tla` (server.py 312-352)

This module extends `Server`. The child's main thread is `Server`'s owner. The module adds these variables:

- `parent`: the parent's place in the context manager;
- `proc`: the child process, one of new, alive, exited or killed;
- `toParent` and `toChild`: the pipe's two directions.

The child's actions are:

- `ChildCreateFail` and `ChildCreateOk`: `create()` raising after the DHT has started, or returning a started server;
- `ChildSendOk`;
- `ChildRecvShutdown`;
- `ChildExit`.

The parent's actions are:

- `ParentStart`;
- `ParentRecv`;
- `ParentBodyExit` and `ParentBodyRaise`: the with-block ending normally or by an exception;
- `ParentJoined` and `ParentKill`: the timed join in `finally`.

The length of the join timeout is not modelled. `ParentKill` may happen at any time while the child is alive. The properties are stated so that this looseness cannot make them fail: `KillOnlyAfterToken` is about a child that waits for the token, which only the kill can end.

The server's threads step only while the child is alive (`InChild`).

`create()` is abstracted to its outcomes:

- It raises `NameError` when a generated uid is taken (line 392).
- It raises `TypeError` when `checkpoint_dir` is given (line 231 against checkpoints.py:79).
- Otherwise it returns a server.

`create()` never passes `checkpoint_dir` to `Server`, so `WithSaver = FALSE` here. This is the assumption `BackgroundAssumption`.

### `ServerLifecycle.tla` and the refinement (spec section 4.6)

`ServerLifecycle` is the abstract state machine the spec describes. Its one variable `phase` moves through these phases:

- constructed, then running;
- running to ready, or to stopping when the runtime ends first;
- ready to stopping;
- stopping to stopped.

Its `FairSpec` adds weak fairness of `Finish`, so a begun shutdown ends stopped.

`Server.tla` maps its state to a phase with `Phase`:

- stopped when `AllStopped` holds;
- otherwise stopping once some thread has entered `shutdown()` (`ShutdownBegun`);
- otherwise ready when `ready` is set;
- otherwise constructed while the server thread is `new`;
- otherwise running.

`Lifecycle == INSTANCE ServerLifecycle WITH phase <- Phase`, and `LifecycleRefined == Lifecycle!FairSpec` is checked as a PROPERTY.

### `Uids.tla` (server.py 362-393, 167-202)

This module covers several servers sharing one DHT, each running `_generate_uids` and then `create()`'s expert loop:

- A pattern is a sequence of tokens: the two placeholders and literal characters.
- `Render` is `str.format`, with `Decimal` writing an index in base 10, so a uid is a character sequence.
- `SampleUid` and `NextLayer` are the two loops, one iteration per step.
- `SampleDone` ends the loops.
- `CheckDht` is the one `get_experts` call: it fails when any generated uid is already in the DHT.
- `BuildExperts` fills the experts dict, where the last `ExpertUID` with a given uid wins (`LastWith`).
- `Declare` is the DHT handler of the started server declaring its uids, where the latest declaration of a uid wins. The handler is external, so it is modelled from the spec.

### `Quantization.tla` (bnb_quantization.py)

A module tree is a function from paths (sequences of names) to a kind: `Linear`, `Linear4bit`, `Other` or `Container`. Names and keys are character sequences, because the exclusion test works on substrings of the dotted path (`Dotted`, `Occurs`).

`ReplaceChildren` is `_replace_with_bnb_layers`, recursive over the children in `named_children` order, with the shared `current_key_name` threaded through as a value:

1. It pushes the child's name.
2. It replaces a convertible `Linear` (`Converts`, `KeyExcluded`).
3. It recurses into the original child.
4. It pops the name.
5. It ORs in the subtree's flag.

`Quantize` is `quantization()`. The dtype cast loop discards its result and so changes nothing. The inputs are every tree of depth at most two over the names `a` and `ba`.

### MC modules

`MCCheckpoint`, `MCServer`, `MCBackgroundServer`, `MCUids` and `MCQuantization` extend the modules above. `MCUids` gives servers as model values and the patterns as token sequences. `MCQuantization` gives the names and the exclusion lists. `MCCheckpoint` gives the experts as model values `e1` and `e2`.

## 3. Runs

| Run | Result | What it shows |
|-----|--------|---------------|
| `checkpoint_crash` | pass, ~1.8M states | With one expert, 3 store cycles, 2 crashes at any step and one `load_expert` by a reader at any point, the following hold: the stable names equal the latest committed timestamped files (`CommittedStableIsLatest`); a readable `module.safetensors` is never older than the last committed cycle (`StableNotOlderThanCommitted`); no step truncates or rewrites a completed `module_<ts>` or `checkpoint_<ts>` file (`SnapshotsKept`, an action property); the saver ends when asked (`SaverStopsWhenAsked`, under fairness); and `IInv` and `TypeOK` hold. |
| `checkpoint_count` | violation | `TestedEntryCount` is the assertion of `test_save_checkpoints` (line 57): `N+1` entries per expert directory after `N` calls of `store_experts`. TLC finds it violated at the first completed store: the directory holds `module_<ts>`, `checkpoint_<ts>` and the two stable names, 4 entries, not 2. The count the code does keep, `2N+2`, is proved by `EntryCount` (section 5). |
| `checkpoint_torn` | violation | `load_expert` reads a half-written `module.safetensors`. |
| `server_shutdown` | pass | With saver and experts, the two concurrent `shutdown()` calls always complete (`ShutdownCompletes`). When the owner is done, everything is stopped (`OwnerDoneOrderly`). `OrderlyInv` holds. The server implements `ServerLifecycle` under `Phase`, liveness included (`LifecycleRefined`). |
| `server_once` | violation | `shutdown()` is called twice. |
| `bg_lifecycle` | pass | A with-block that got a server always ends with the child exited or killed (`NoOrphanChild`). A child that exits by itself leaves nothing running (`OrderlyExit`). The pipe carries only the messages `_server_runner` sends (`BGTypeOK`), and the inductive invariant `BGInv` holds. |
| `bg_hang` | violation | The parent can block forever (`ParentReturns`). In the counterexample the runtime raises before it is ready. The server thread's `finally` shuts the server down, but `ready` is never set, so `_server_runner` stays in `ready.wait(None)` (line 268). The child never sends to the pipe, and the parent stays in `pipe.recv()`. |
| `bg_kill` | violation | `KillOnlyAfterToken`: a child that reported a started server is killed only after it was sent the token. In the counterexample the with-block raises, line 324 is skipped, and the child waits in `pipe.recv()` (line 346) until the parent's timed join gives up and kills it. A child that reported a failure is not covered: it gets no token and exits on its own. |
| `uids_alloc` | pass | Two servers with the pattern `x.{layer_id}.{expert_id}` and two layers × two experts: each hosts one expert per generated uid (`HostsEveryGeneratedUid`), the inductive invariant `UidsInv` holds, and some server always gets to serve (`SomeServerServes`, under fairness). |
| `uids_plain` | violation | With `{layer_id}{expert_id}` and 12 layers × 11 experts, (1,10) and (11,0) both render as `110`, so one expert is lost. |
| `quantization` | pass | Every tree of depth at most two, and every subset of the keys `a`, `b` and `ba.a`, the empty list that `create()` passes included, give these results: only `Linear` layers change, a `Linear` that no key occurs in becomes `Linear4bit`, and one the spec's rule excludes is kept (`QuantizedUnlessExcluded`); and the returned flag is exact (`ReplacedFlagExact`). |
| `quant_excl` | violation | With key `a`, the nested `ba.a` is kept, which spec section 4.2 would convert (`QuantizedAsSpecified`). |

**Bounds.**

- One expert with three cycles and two crashes puts a crash in every position of a copy (before, between and inside `copy2`s, twice in a row). It also puts a restart after a torn file.
- Two experts show the loop over experts, and which files are copied first.
- `MaxVersion = 1` is enough to tell an old snapshot from a new one.
- Uids: two servers are the fewest that can race. Two layers × two experts give distinct uids under the dotted pattern. The plain pattern needs 12 layers × 11 experts to reach its first two-digit collision.
- Quantization: depth two is the least depth with a recursion and a nested dotted path. The names `a` and `ba` are the least pair where one name is a substring of another.

**Deadlock.** Each Checkpoint and background cfg sets `CHECK_DEADLOCK FALSE` because the modelled behaviours end:

- the saver exits after `stop`;
- stores, crashes and loads are bounded;
- both processes terminate.

The Quantization cfgs set it because `quantization()` returns after one step. `uids_alloc` checks deadlock, because a serving server keeps re-declaring its uids.

**Mutants.** Every property of a passing run is broken by a mutant of the code it is about:

- staging the wrong directory;
- a clock reset on restart;
- ignoring `stop`;
- `copy2` not following the link;
- equal timestamps;
- skipping `join`;
- never setting the saver's `stop`;
- a missing `kill`;
- skipping the DHT handler's `join`;
- an untupled error message;
- a missing `ready.clear()`;
- an inclusive `range`;
- swapped keyword arguments of `ExpertUID`;
- a dropped layer placeholder;
- an error on every `get_experts` answer;
- `setattr` with the dotted path;
- no recursion;
- a dropped subtree flag;
- a dropped equality test.

## 4. Fairness

- **Checkpoint:** weak fairness of the saver thread's own steps. A runnable thread is eventually scheduled, and `stop.wait` returns once `stop` is set. Training, crashes, loads and the stop request are not forced.
- **Server and BackgroundServer:**
  - weak fairness of each thread's steps: the parent, the child's main thread, the server thread, the DHT handler;
  - the runtime leaving `run()` after `shutdown()` asked it to, which is the runtime's contract.

  In `BackgroundServer`, a started `runtime.run()` also eventually becomes ready or raises (`WF` of `RuntimeReady \/ RuntimeCrash`). So a hang that TLC reports is not just a runtime that never gets going. Which of the two happens is not forced, and neither is the way the with-block ends. `bg_hang` finds the hang through a crash before ready. `Server`'s runs keep the runtime's start unforced; their properties hold without this assumption.
- **Uids:** weak fairness of each server's own steps. Each server is a process of its own, and its DHT handler re-declares every `update_period`.

## 5. Proofs (TLAPS)

**`CheckpointProofs.tla`**

`CommittedStableIsLatest` is not inductive: it says nothing while a cycle stages or copies. The strengthening `IInv` adds:

- the staging tree holds only directories of the current cycle (`StagingInv`);
- outside a store, nothing is staged and no file is open (`IdleInv`, `OpenInv`);
- while copying (`CopyInv`):
  - the experts already done are copied exactly from the staging tree;
  - the current expert is copied for the files it has finished;
  - an open file is in the destination;
- in the wait state, the destination holds the whole committed cycle (`CommittedInv`).

The proof proceeds as follows:

1. `Init => IInv`.
2. One lemma per action shows that it preserves `IInv`, with one step per conjunct the action can change.
3. `NextIInv` combines them.
4. The theorems follow by PTL:
   - `IInvariant` (`Spec => []IInv`);
   - `TypeCorrect`;
   - `StableIsLatest` (`Spec => []CommittedStableIsLatest`).

The only assumption is `CheckpointAssumption`: a finite set of experts and natural bounds. The theorems hold for any number of experts and any bounds.

**`ServerProofs.tla`**

- `ServerTypeCorrect` proves `ServerSpec => []TypeOK`.
- `OwnerDoneOrderlyThm` proves `ServerSpec => []OwnerDoneOrderly`, through the inductive invariant `OrderlyInv`. `OrderlyInv` says:
  - once the server thread has entered `shutdown()`, the runtime has stopped;
  - past each shutdown step, the thing it stops is stopped (or `ready` is clear);
  - the owner is done only after the server thread.

  These proofs hold for both values of `WithSaver` and `HasExperts`, over every interleaving of the two callers.
- `ServerRefinesLifecycle` proves `ServerSpec => Lifecycle!Spec`, the safety part of the refinement. It rests on the invariant `LifecycleInv`: before `OwnerStart` the owner is at `start`, the runtime is idle, `ready` is clear and no handler has started. The lemma `PhaseFacts` states what one step can do to the four tests that `Phase` is built from:
  - `AllStopped` implies that shutdown has begun, and it stays true;
  - a begun shutdown stays begun;
  - `ready` is cleared only after shutdown has begun;
  - the server thread never becomes `new` again;
  - `AllStopped` after a step means that shutdown had already begun before it.

  From these facts, the step's effect on `Phase` is a step of `ServerLifecycle!Next`, or a stutter, by propositional reasoning alone.

**`CheckpointProofs.tla`, continued.**

- `StableNotOlder` proves `Spec => []StableNotOlderThanCommitted`, crashes and restarts included. The property alone is not inductive, because a crash can leave a partly copied cycle behind. The proof uses `StampInv`, which adds that the last committed timestamp is never ahead of the clock `ts`, so a file stamped later than it is never older.
- `EntryCount` proves `Spec => []CheckpointEntryCount` under the hypothesis `MaxCrashes = 0`. This is the property's own condition ("when no cycle failed"), and it is the setting of `test_save_checkpoints`, whose different count `checkpoint_count` refutes. With crashes allowed, an interrupted cycle leaves extra entries, so the count fails and the theorem is not stated for that case. The inductive invariant is `CountInv`. It ties `ts` to the number of stored cycles (`ts = stored + 1` while staging or copying, `ts = stored` while waiting). It also bounds each directory between `Names(stored)` and `Names(ts)`, the `2N+2` names of `N` cycles. Then `Cardinality(Names(N)) = 2N+2` follows from `FS_AddElement` one cycle at a time (`NamesStep`).

- `SnapshotsNeverRewritten` proves `Spec => SnapshotsKept`, the action property that no step truncates or rewrites a completed timestamped snapshot, failures, crashes and restarts included. It rests on `IInv` and on the inductive invariant `FreshInv`, which says:
  - no timestamped file is newer than the clock `ts`;
  - a staging cycle finds none of its own names in any directory;
  - while copying, the experts not yet entered hold none of them, the current expert holds none of the names left to copy, and the file copy2 has open is the truncated one it opened.

  From these facts, `Copy2Open` only ever opens a name that is stable or not yet present, and `Copy2Write` only finishes the file it truncated. A clock that repeats a timestamp breaks this, and the `SaverWaitTimeoutSameStamp` mutant shows it.

**`BackgroundServerProofs.tla`**

`BGInv` is the conjunction of `BGTypeOK`, `DataTypeOK`, `OrderlyCore` (the server's shutdown order) and `BGCore`, where `BGCore` says:

- the child's main thread is at `create` only while the server thread is `new`;
- an exited child left its server thread `new` or `done`, never halfway.

There is one lemma each for the parent's steps, the child's steps and the server threads' steps. `BGInvariant`, `BGTypeCorrect` and `OrderlyExitThm` (`Spec => []OrderlyExit`) follow. They hold for both values of `HasExperts` and `CheckpointDirGiven`.

`BGRefinesLifecycle` proves `BGSpec => Lifecycle!Spec`: the server inside the child process goes through the lifecycle of spec section 4.6 under the same mapping `Phase` as a server started directly. `background_server` enters it `constructed`. `create()` returning is `Start`. The shutdown token received at line 346 is `BeginShutdown`. The parent's steps and the child's exit leave the phase as it is, and so does `create()` raising. The proof mirrors `ServerRefinesLifecycle`:

- The invariant `BGLifeInv` adds `BGLifeCore` to `BGInv`. `BGLifeCore` says that while the server thread is `new`, the child's main thread is in `create()` or has returned from it by an exception. It also says that the runtime is idle, `ready` is clear and the handlers are new.
- Without `BGLifeCore`, a state where the token arrives while the server is still `new` would map `constructed` to `stopping`, which the lifecycle forbids. `BGLifeCoreNext` shows that no step reaches such a state.
- `BGPhaseFacts` is `PhaseFacts` for the two processes, with one case per action of the parent, of the child and of the server's threads.

Only the safety part is claimed. `Lifecycle!FairSpec` does not hold of `BGSpec`: after `ParentKill`, a child that was shutting down stays `stopping` forever. That is the orphan question that `bg_kill` asks.

**`UidsProofs.tla`**

`UidsInv` is `TypeOK` and, for every server, `GenInv`:

- each generated uid is `Render` of its own pair;
- the pairs come in the loops' order (`Before`, lexicographic) and all precede the loops' current pair;
- once `create()` has built the experts dict, it is keyed by exactly the generated uids.

`TypeOK` is stated with `GenUid(s)`, the records server `s` can generate. One lemma per action shows that `UidsInv` is preserved; the `SampleUid` lemma is the one with content (the appended pair is the current one, then the current pair moves on). The theorems are:

- `UidsInvariant` proves `Spec => []UidsInv`.
- `UidsTypeCorrect` proves `Spec => []TypeOK`.
- `HostsEveryUid` proves `Spec => []HostsEveryGeneratedUid`, under the hypothesis that every server's pattern renders distinct pairs of its ranges apart (`RendersApart`). The hypothesis is needed, and `uids_plain` shows what happens without it. The argument goes like this:
  - the pairs are pairwise distinct because of the ordering;
  - so the uids are distinct (`UidsDistinct`);
  - so `i |-> uid` is a bijection from `1..Len(newUids[s])` onto the uid set (`UidsCount`, via `FS_Surjection`).

  Whether a given pattern renders apart is a fact about `Decimal` for every index. That needs induction over data, so it is not proved. For the dotted pattern it is checked by `uids_alloc` on its ranges.

`Declare` writes the DHT update as an explicit function over the union of the two domains. This is what `@@` computes; the explicit form is used because the prover cannot expand `@@`.

**Left to TLC.** These stay model-checked only:

- The liveness properties, because TLAPS cannot prove liveness under fairness or reason about ENABLED: `ShutdownCompletes`, `SaverStopsWhenAsked`, `NoOrphanChild`, `SomeServerServes`, and the fairness part of `LifecycleRefined`. The fairness part of the background server's refinement is not claimed at all (see `BGRefinesLifecycle`).
- `CheckpointEntryCount` with crashes, which does not hold in that case (see above).
- That a particular pattern renders apart, which needs induction over `Decimal`.
- The Quantization properties, because `ReplaceChildren` is a RECURSIVE operator and a module that reaches one cannot carry theorems.

## 6. Not modelled

- **`hf_loader.py`:** pure I/O. It downloads a repository index and safetensors files, and copies three tensors by fixed key. It has no state of its own, no branching beyond the calls, and nothing runs concurrently.
- **`module_wrapper.py`:** not used by the server. It stores its arguments and delegates to the module, so there is no control to model.
- **External, modelled only by their contracts:** the Runtime, ConnectionHandler, DHT and DHTHandlerThread internals (`Declare` in `Uids`).
- **Wall-clock timestamps:** `datetime.now().isoformat()` (checkpoints.py:64) is abstracted to the counter `ts`, which grows by one per cycle and across restarts. Two cycles with the same microsecond, or a clock set back, cannot be expressed. Nothing in the code orders files by name, so only a collision would matter, and it needs two cycles in the same microsecond.
- **`run_in_background` with a finite timeout:** not modelled. Every caller in the repository passes `None`.
- **Observations with no run:**
  - `create()` with `checkpoint_dir` always raises `TypeError`. `_load_expert_weights` passes three arguments, but `load_expert` takes four (server.py:231 against checkpoints.py:79). `BackgroundServer` models this outcome (`CheckpointDirGiven`), but no run sets it.
  - Two servers with the same pattern and sizes generate identical uids. Both serve them when both check the DHT before either declares. The docstring of `_generate_uids` already admits that concurrent servers can pick duplicate uids. `Uids` models the race, but no property claims its absence.
- **The dtype cast of `quantization()` (lines 40-42):** it discards its result. `create()` passes an fp16 model, so the missing cast has no effect on any reachable input.
- **Tensor contents and shapes:** weights, biases and schemas are abstracted away. No property of the control depends on them.

## 7. Plan for later work

1. A refinement of `Checkpoint` onto an abstract atomic store, in which a stable name jumps from one complete snapshot to the next, together with the conditions under which it holds. The torn copy shows that it does not hold in general.
2. More TLAPS work: a machine-checked version of the fairness part of the refinements, if a later TLAPS gains ENABLED reasoning. Lemmas about `Decimal` stated without induction where possible.
3. Composition of `Uids` with `BackgroundServer`, replacing the abstract `NameError` outcome of `create()`.

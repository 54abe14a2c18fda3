# Verification of the OpenBao profile store and its neighbours

This directory holds TLA+ models of parts of the repository (`src/`), the TLC
configurations that check them on small instances, and TLAPS proofs that
establish the main safety properties for every instance.

## 1. The system, and what is modelled

| Part | Source | State and operations | Module | Status |
|---|---|---|---|---|
| ProfileStore | `vault/profile_store.go` | one `sync.RWMutex`; entries in a barrier view; `Get`, `Set` (CAS), `Delete`, `List`, `Execute` | `ProfileStore`, `ProfileAPI` (`List`) | partly (no parsing) |
| Profile handlers | `vault/logical_system_profiles.go` | stateless; one store call each | `ProfileAPI` (one atomic step per request), `ProfileStore` (as callers and as the nested requests of a profile) | modelled |
| Profile engine | `helper/profiles/profiles.go`, `config.go` | per-evaluation history; walk of outer blocks and requests; `allow_failure`; cancellation | `ProfileEngine`, abstract `EngineAbstract` | modelled |
| Sources | `helper/profiles/*_source.go` | field resolution against input and history | inside `ProfileEngine` (`Resolves`) | partly (rendering and CEL left out) |
| KV upgrade | `builtin/logical/kv/upgrade.go`, `passthrough.go` | `upgrading` flag; the primary's upgrade goroutine; the secondary's polling goroutine; storage with errors and crashes | `KVUpgrade` | partly (request gating and the v1 handlers left out) |
| Plugin gRPC server | `sdk/plugin/grpc_backend_server.go` | `instances` map under `instancesLock`; `Setup`, `Cleanup` and the ten RPCs that call into a backend | `PluginServer` | modelled (`IsCrossPlugin` only reads) |
| Barrier view, forwarding, CLI, helpers, generated code, tests | various | wrappers, pure conversions, tables | — | not modelled (no concurrent state worth a model) |

### How the parts interact

The HTTP handlers of `sys/profiles/*` call the store. `Execute` takes the read
lock, loads and parses the profile, builds a `ProfileEngine`, and evaluates it
**while still holding the read lock**. Every request the profile dispatches goes
through `core.HandleRequest`, which can route it back into the handlers and so
into the store. The store then sees a nested call from a goroutine that already
holds its read lock.

## 2. The ProfileStore model (`ProfileStore.tla`)

**State.**

| Variable | Meaning |
|---|---|
| `store` | path → entry or `NoEntry`: the barrier view |
| `rcount`, `rblocked`, `writer`, `wstate` | the `RWMutex`: the read locks each goroutine holds; the readers asleep behind a writer; the holder of the writer mutex; whether that writer is `"pending"` (draining readers) or `"held"` |
| `pc`, `loc` | the place of each goroutine in the store operation it runs, and its local variables: the arguments, the Execute it is evaluating (`xpath`, `xentry`), the requests dispatched so far, and the entry Set checked (`snap`) |
| `crashed` | some Set has panicked |

An entry keeps what the properties tell apart: `Version`, `CASRequired` and
`AllowUnauthenticated`. The document text is abstracted; whether it parses is a
nondeterministic choice of `ExeLoad`.

**Actions.**

- The lock, following Go's `RWMutex`:
  - `RLock`: the reader sleeps if a writer is pending or holds the lock.
  - `Lock` takes the writer mutex and announces the writer; `LockDrain` lets
    it in once the readers have drained.
  - `UnlockTo` admits every sleeping reader. `RUnlockTo` releases a read lock.
- `Call`: a client calls into the store.
- `GetRead`: Get's read, then its deferred RUnlock.
- `SetCheck` (lines 149-166): the CAS rules, as `CasOutcome`, including the nil
  dereference at line 163.
- `SetPut`: the Put, which may fail, then Unlock.
- `DelDo`: the Delete, then Unlock.
- `ExeLoad` (lines 242-295):
  - the permission check;
  - `nil, nil` for a missing profile;
  - a parse or NewEngine failure;
  - or the start of an evaluation.
- `ExeDispatch`: one dispatched request. It goes elsewhere, or re-enters the
  store as a nested Get (`NGetRead`) or a nested Set. A nested Set carries the
  nil cas the update handler always passes (`logical_system_profiles.go:315`).
- `ExeFinish`: the evaluation returns, then RUnlock.

Every early return runs the deferred unlock, exactly as the `defer`s do.

**Runs** (`MC_ProfileStore.tla` gives the small sets).

| Run | Instance | Checks | Result |
|---|---|---|---|
| `store_safety` | 3 goroutines, 1 path, nested Get and Set | `TypeOK`, `ExecuteSeesStableProfile`, `CasCheckFresh`, `IInv` | ~153k states; pass |
| `store_liveness` | 2 goroutines, 2 paths, no re-entry, `FairSpec` | `OpsComplete` | ~356k states; pass |
| `store_reentrant_deadlock` | 2 goroutines, 1 path, nested Get | `OpsComplete` | **violated** |

- The `store_safety` run says `CHECK_DEADLOCK FALSE`, because with
  re-entrant profiles the store really can stop: that is the finding of the
  deadlock run. Deadlock freedom without re-entry is part of
  `OpsComplete`.
- `SetMaintainsEntry` (spec: Set advances the version and keeps
  `cas_required` sticky) is not one of the runs, but
  `tlc -config ProfileStore_set_entry.cfg MC_ProfileStore` finds it violated
  after one Set over an existing profile: `Set` writes the caller's entry as
  given (line 168), so the version stays and `cas_required` can be cleared
  (line 154).
- `SetCheck` keeps the nil dereference of `existing.Version` (line 163):
  a numeric cas on a missing profile sets `crashed`. No run asks about it,
  because no caller in the tree passes a numeric cas: the update handler
  always passes nil (section 9, `api_cas_ignored`).
- In the deadlock run:
  1. Execute holds the read lock.
  2. A Set calls `Lock` and becomes pending.
  3. The profile's request reads `sys/profiles/manage/<p>`.
  4. Its recursive `RLock` sleeps behind the pending writer, which waits for
     Execute's read lock forever.

  A nested Set is worse: its `Lock` waits for its own goroutine's read lock.

**Bounds.**

- Three goroutines are enough for every pair of roles (reader, writer, second
  writer) to meet with a third goroutine interleaving.
- One path makes every operation conflict. Two paths show that unrelated paths
  do not interfere.
- `MaxDispatch = 1` lets each Execute make one nested call, which is enough for
  the deadlock.
- Versions are `{0}`, because the handler always builds entries with `Version`
  0. Cas values are `{-1, 0}`, which reaches every branch of `CasOutcome`.
- Symmetry over goroutines is sound, because goroutines are interchangeable.

**Fairness.**

- Every goroutine inside the store keeps running: `WF` on its steps, since Go's
  scheduler is preemptive.
- Taking the writer mutex is strongly fair: `SF` on `Lock`. `sync.Mutex`
  switches to starvation mode and hands the mutex to a waiter after 1 ms.
- Clients need never call.

**Mutants.** Each property of a passing run is shown to catch a plausible slip:

| Mutant | Slip | Breaks |
|---|---|---|
| `GetReadDoubleUnlock` | a second RUnlock | `TypeOK` |
| `ReadersDrainedEarly` | a writer that does not wait for readers | `ExecuteSeesStableProfile`, `IInv` |
| `LockShared` | a Lock that does not exclude a second writer | `CasCheckFresh` |
| `UnlockToLostWakeup` | an Unlock that loses the wakeup of the sleeping readers | `OpsComplete` |

## 3. The profile engine model (`ProfileEngine.tla`, `EngineAbstract.tla`)

One evaluation of one profile, from `NewEngine` to the return of `Evaluate`
or `EvaluateResponse`.

**State.**

| Variable | Meaning |
|---|---|
| `prof` | the engine's options: outer block name, the outer blocks with their requests, the output |
| `phase` | `"new"` (before `validate`), `"seek"` (in the loops of `evaluateHistory`), `"call"` (request built, handler not yet called), `"output"` (in `evaluateOutput`), `"done"` |
| `oi`, `ri` | `outerIndex`, `requestIndex` of `evaluateHistory` (1-based) |
| `calls` | every request handed to the handler: key, the responses its fields read, `allow_failure`, outcome (`ok`, error, error response), whether the context was already cancelled |
| `hreq`, `hresp` | the keys `(outerBlock.Type, requestBlock.Type)` in the history's requests and responses |
| `result` | `"none"`, `"invalid"` (NewEngine failed), `"ok"`, `"error"` |
| `cancelled` | the caller's context is cancelled |

A request keeps what decides the control flow: its name, the responses its
fields read through the response and template sources, the value
`allow_failure` resolves to, and one typed field. A field (`Fields`) is what
`maybeEvaluateTypedField` and `evaluateTypedField` look at:
- whether `eval_source` and `eval_type` are present (`Paired`, `Literal`);
- the source it names (`Registered`: request, response, template, and input
  only when the profile has an input block, as `WithInputSource` does);
- whether that source's `Validate` accepts the other keys (`SourceValidate`);
- the type name (`KnownTypes`, the cases of `convertToType`);
- whether `Evaluate` and the conversion succeed (`SourceEvaluate`).

`StaticOK` is what could be known before any request runs, and `FieldOK` adds
the evaluation. An input block that `ParseInputConfig` rejects makes
`validate` fail (`Valid`).

**Actions.** `Construct` is `NewEngine` with `validate` (the rule that more
than one block needs an outer block name, the uniqueness checks, the naming
regex). `NextBlock` and `EndWalk` are the loop control of `evaluateHistory`,
and `EndWalk` picks `Evaluate` or `EvaluateResponse` as `Execute` does.
`BuildRequest` is `buildRequest`: it fails when a field fails on its own
(`FieldOK`). A field that reads a response missing from the history does
not fail: the template source's `Validate` reports no reads, and `Evaluate`
renders a missing entry of `eh.Responses` as `<no value>` (`Resolves`).
`CallHandler` is the rest of `evaluateRequest`: the
handler's outcome is free; `isFailure` counts error responses; a failure
without `allow_failure` aborts when `err != nil` (`ReturnsErr`: an error
response whose `Error()` is nil, outcome `errnil`, continues); otherwise `AddRequest`, and `AddResponse` when
it succeeded. `EvaluateOutput` resolves the output. `Cancel` is the caller.

**Abstract specification.** `EngineAbstract` is what the spec promises
(sections 5 and 8): a flat sequence of requests dispatched one at a time in
declared order. Unlike spec S4, a request that reads a missing response
does not abort it, since the code renders the read as `<no value>`; that
divergence is the `engine_missing_read` run. `ProfileEngine` implements it
(`ImplementsAbstract`):
- the refinement mapping flattens the blocks (`Flat`);
- it maps `(oi, ri)` to the index in the flat order (`AbsN`);
- a successful `BuildRequest`, `NextBlock`, and `EndWalk` into the output
  phase are stutters.

**Runs** (`MC_ProfileEngine.tla`: names `a`, `b` valid, `u` the empty name,
`x` invalid; 610 profiles).

| Run | Checks | Result |
|---|---|---|
| `engine_safety` | `TypeOK`, `HistoryMatchesCalls`, `CallsFollowDeclaration`, `EInv` and `DInv` (the proofs' invariants), `ImplementsAbstract` | 10,734 states; pass |
| `engine_cancel` | `CancellationSurfaced` (spec section 5) | **violated**: nothing reads `ctx`; after `Cancel`, a handler that answers ok lets the evaluation succeed even with `allow_failure` false (`profiles.go:343`); with it, a cancellation error would be swallowed too (line 349) |
| `engine_late_config_error` | `ConfigCaughtAtValidate` (spec section 9, invariants I5/I6) | **violated**: `validate` lets through an output field with `eval_source` and no `eval_type`; both requests are sent before the field fails (`profiles.go:138`, `profiles.go:485`) |
| `engine_missing_read` | `DispatchSeesDeps` (spec S4, section 9) | **violated**: request `a` fails with an error response carrying no error, so it is recorded without its response and the walk goes on; `b`, whose template reads `a`'s response, is built and dispatched (`template_source.go:104`, `profiles.go:349-351`) |

**Unchecked observation.** `CreateOuterConfig` (`config.go:127-133`) builds the
single outer block of a profile system without named blocks with type `""`,
and `validate` applies the naming regex to every outer block name
(`profiles.go:162`), so `NewEngine` would reject such an engine. The
comments at `profiles.go:91-92` and `template_source.go:98-109` say this
mode is supported. Nothing in the tree calls `CreateOuterConfig`, so no run
asks it; the profile family still includes that block, and the engine's runs
see it rejected.

**Bounds.** Two requests per block and two blocks are enough for every
interaction the code has:
- a reference to an earlier response, a missing one, and a request's own;
- an allowed failure before a reader;
- the move between blocks with the index reset;
- every outcome of the handler and of the output.

The profile family enumerates these combinations rather than sampling them.

**Mutants.**

| Mutant | Slip | Breaks |
|---|---|---|
| `NextBlockZeroIndex` | the next block restarts at Go's index 0 | `TypeOK` |
| `IsFailureNoErrResp` | an error response is not a failure | `HistoryMatchesCalls`, `EInv` |
| `NextBlockKeepIndex` | the request index is not reset | `CallsFollowDeclaration`, `DInv` |
| `EvaluateOutputLenient` | output errors are dropped | `ImplementsAbstract` |

## 4. What is proved about the store (`ProfileStoreProofs.tla`)

TLAPS proves, for every set of goroutines, paths, versions and cas values, every
bound on dispatched requests, and with or without re-entrant profiles:

- `Safety`: `Spec => []IInv`.
- The corollaries `StableProfile` (`[]ExecuteSeesStableProfile`), `FreshCas`
  (`[]CasCheckFresh`) and `TypeCorrect` (`[]TypeOK`).

Neither safety property is inductive by itself. The inductive invariant `IInv`
adds the shape of the lock:

- `LockShape`: the writer mutex is taken exactly when a writer is announced; a
  held write lock means no read locks; sleeping readers sleep behind a writer.
- `WriterPlace`: the holder of the write lock is the one goroutine inside a
  write-locked section.
- `ReaderCount`: each goroutine's read-lock count is 1 while it reads or
  evaluates, plus 1 in a nested Get; an evaluation holds a read lock.

The argument runs as follows:

1. A goroutine that writes (`SetPut`, `DelDo`) holds the write lock. So no
   goroutine holds a read lock (`WriterExclusive`), and therefore none is
   evaluating. So no evaluation can see its write.
2. Only one goroutine is in a write-locked section, so the entry Set checked is
   still in place when it Puts.

The proof has `InitIInv` and `NextIInv`:

- `NextIInv` has one lemma per action.
- Shared lemmas cover the rest: `UnlockIdle` for every way out of a
  write-locked section, `ReaderLocalStep` for the steps of a reader that touch
  only its own state, and `RemainsReaderCount`.
- The temporal step is `PTL`.

TLC checks `IInv` itself in `store_safety`.

**Only model-checked.**

- Liveness (`OpsComplete`) and the deadlock are beyond TLAPS's reach: fairness
  and ENABLED are not supported.
- The violations are counterexamples found by TLC.

## 5. What is proved about the engine (`ProfileEngineProofs.tla`, `EngineOrderProofs.tla`)

For every set of names and every set of profiles:

- `EngineSafety`: `Spec => []EInv`;
- `HistoryMatches`: `[]HistoryMatchesCalls`;
- `EngineTypeSafe`: `[]TypeOK`.

`EInv` is `TypeOK /\ HistoryMatchesCalls /\ CallReady`.
`HistoryMatchesCalls` says the history's request keys are those of the
non-fatal calls and its response keys those of the successful ones. It is
not inductive alone: the handler step appends a call at `Req` and needs the
call phase to sit at a request whose fields resolve (`CallReady`), so that
`Calls` is well typed after it. The lemma `AppendKeys` says what appending one call
does to the recorded keys of every prefix; each action has a lemma, and the
steps that do not touch the history share `HistoryFrame`. The
`engine_safety` run checks `EInv` as an invariant too.

**Declared order and refinement** (`EngineOrderProofs.tla`, on the lemmas of
`FlattenLemmas.tla`). For every set of names and every set of profiles:

- `EngineOrderInv`: `Spec => [](EInv /\ DInv)`;
- `DeclaredOrder`: `Spec => []CallsFollowDeclaration` (spec I7);
- `EngineRefinement`: `Spec => ImplementsAbstract`, the engine implements
  `EngineAbstract`.

`CallsFollowDeclaration` is not inductive: a step of the walk must know where
the walk is in the declared order. `DInv` (in `ProfileEngine.tla`, checked by
`engine_safety`) says so, in seven named parts:
- `WalkPosition`: while the walk runs, the number of calls is `AbsN - 1`.
  The request index stays within its block, and once the block is done it is
  one past the block's last request.
- `CallsArePrefix`: the keys called so far are a prefix of `Declared`.
- `OnlyLastFatal`: only the call that ended the evaluation may be fatal.
- `OkComplete`: a successful evaluation made every declared call.
- `NewAtStart`, `PendingResult` and `OutputAtEnd` pin the phases.

The handler step needs one fact about the flat order: the request at
`(oi, ri)` is the declared request at index `AbsN`. `NextBlock` needs another:
the index one past a block's last request equals the first index of the next
block. `EndWalk` and `EvaluateOutput` need a third: past the last block,
`AbsN` is one past the last declared request.

All three rest on `FlattenSeq`, a recursive function. The proofs never
induct over sequences with an operator parameter. Instead,
`FlattenLemmas` proves that the function `FlattenSeq` builds is the unique
solution of its defining equation. That proof is by least counterexample
(`WFMin` on `Nat`, a set the provers handle). It then derives what prefixes
of a flattening are (`FlatPreStep`, `FlatAt`). `EngineOrderProofs` links
`FlatBlocks` to these rows (`FlatBlocksPre`), and from them proves
`AbsAtReq`, `AbsAtBlockEnd` and `AbsAtEnd`.

**The refinement.** Every engine step maps to one abstract step, or to a
stutter:

| Engine step | Abstract step |
|---|---|
| `Construct` | `Accept` |
| `CallHandler` | `Dispatch` |
| a failed `BuildRequest` | `Abort` |
| `EndWalk` without output, `EvaluateOutput` | `Finish` |
| `Cancel` | `Cancel` |
| a successful `BuildRequest`, `NextBlock`, `EndWalk` into the output phase | stutter |

The refinement uses one assumption, in `ProfilesAssumption`: `NoOutput`,
the nil output block, is not the abstract image of an output block. This
is what tells `Finish` a profile without output from one whose output fails.
TLC evaluates this assumption on every engine run.

**What stays with TLC.** `ConfigCaughtAtValidate` and `CancellationSurfaced`
are violated, and their counterexamples are TLC's.

## 6. The KV upgrade model (`KVUpgrade.tla`)

`builtin/logical/kv/upgrade.go` moves a KV mount from unversioned (v1)
entries to versioned (v2) ones.

- `Upgrade` sets `b.upgrading` with a compare-and-swap and starts a goroutine.
- On the primary, the goroutine does the following, in order:
  - writes the `upgrading` canary;
  - collects the keys;
  - runs `upgradeKey` on each key: read the old entry, write version 1,
    write the metadata, delete the old entry, then commit when the storage is
    transactional;
  - writes the canary again with `Done` set;
  - clears the flag.
- While the flag is set, `upgradeCheck` rejects every request.
- On a performance secondary, `Upgrade` starts a goroutine instead that polls
  the canary until it reads done or its context is cancelled, then clears the
  flag.

**State.**
- `transactional`, `faulty`: whether the storage is a
  `logical.TransactionalStorage` and whether its operations can fail. Both
  are chosen in `Init` and never change (`Fixed`), so one run covers every
  kind of storage.
- `upgrading`: the primary's flag.
- The goroutine's position:
  - `pc`;
  - `todo`: the collected keys not yet done;
  - `cur`: the key in hand;
  - `txn`: the open transaction's buffered version write and delete, and
    the read-only error it copied from the view when it began.
- Storage, by key:
  - `old`: keys with an unversioned entry;
  - `ver`: keys with version 1;
  - `meta`: keys with metadata;
  - `canary`.
- `crashes`.
- `called`: whether the first `Upgrade` after a start has happened.
- The secondary: `supgrading`, `spc`, `sctx`.
- The mount (`ViewVars`): `version` (1 for the passthrough backend, 2 after
  the tune), `ro` (the barrier view's read-only error is set), `stored` (the
  keys the mount holds data for, whatever their form).

A value is not tracked. Every write of the upgrade copies the key's own data,
so presence is what the properties tell apart.

**Actions.**
- There is one action per storage operation of the goroutine:
  `WriteCanary`, `CollectKeys`, `NextKey`, `KeyRead`, `KeyPut`, `KeyMeta`,
  `KeyDelete`, `KeyCommit` and `Finish`.
- With `faulty`, each operation either succeeds or fails:
  - a failure is `Fail`: the goroutine returns, the deferred `Rollback`
    drops the transaction, and the flag stays set;
  - `Finish` only logs a failed done write and clears the flag all the same.
- `KeyRead` covers everything before the first write: `BeginTx`, `Get` and
  `getVersionKey`. `BeginTx` (`view.go`) gives the transaction its own copy
  of the view's read-only error.
- Every write draws its outcome from `WriteResults`: the read-only error of
  the view or transaction it goes through, if there is one, and otherwise
  success or, with `faulty`, an error. The transaction's `Put`, `Delete` and
  `Commit` check the copy (`TxnWritable`), not the view.
- `KeyPut` and `KeyDelete` go to the transaction when `transactional`, and
  to storage otherwise. `KeyMeta` always goes to storage, because
  `writeKeyMetadata` is given `s`.
- The retry of the canary write on `ErrSetupReadOnly` changes nothing, so it
  is a stutter.
- The mount's own steps (`Mount`):
  - `PassWrite` and `PassDelete` are `handleWrite` and `handleDelete` of the
    v1 passthrough backend (`passthrough.go`). They go through the view, so
    they need `ViewWritable` (`view.Put`/`view.Delete` return the read-only
    error first). A failed write changes nothing and is a stutter.
  - `Tune` switches the mount to v2 and leaves the view read-only. The mount
    table code that does it is not in the source tree, so it is
    spec-modelled.
  - `SetupDone` is `SetReadOnlyErr(nil)` once the factory has run, that is,
    once `Upgrade` was called or the canary was already done.
- `GateOpen` is `upgradeCheck` on the primary: a request reaches the
  versioned handler when the setup has ended and the flag reads 0.
- `Crash` loses the flag, the goroutine and the transaction, and keeps
  storage.
- The caller of `Upgrade`, the backend's start-up, is not in the source tree.
  It is modelled from its contract: it calls `Upgrade` while the canary is not
  done, and further calls only meet the compare-and-swap. `Init`, `Crash` and
  `SecCancel` are the spec-modelled definitions.

**Fairness** (`FairSpec`) is weak fairness on the following:
- the goroutine's steps, since Go schedules runnable goroutines;
- the first call of `Upgrade` after a start (`Upgrade /\ ~called`);
- the secondary's `SecUpgrade` and `SecPoll`;
- `SetupDone`, because the mount's setup finishes once the factory returns.

Crashes, later calls and the secondary's shutdown are not forced.

**Runs** (`MC_KVUpgrade.tla`: two keys).

| Run | Storage, errors, crashes | Checks | Result |
|---|---|---|---|
| `kv_upgrade` | both kinds, with and without errors, 2 | `TypeOK`, `DataNeverLost`, `DoneMeansUpgraded`, `ServedSeesUpgraded`, `WritesNotReadOnly`, `KInv`, `UpgradeCompletes` | 10,682 states; pass |
| `kv_primary_stuck` | both kinds, with and without errors, 0 | `PrimaryResumes` | **violated**: an error return leaves the flag set (`upgrade.go:251`; also 232, 240) |
| `kv_secondary_stuck` | both kinds, with and without errors, 0 | `SecondaryResumes` | **violated**: the done write fails, the primary resumes, the secondary waits (`upgrade.go:276`) |

Every run starts on a v1 mount with nothing stored, so the keys the upgrade
meets are written by `PassWrite` first, and some are deleted again.

`ServedSeesUpgraded` says that a request let through `upgradeCheck` finds
every stored key versioned, with metadata, and no old entry. This holds
because an error return leaves the flag set (the very behaviour
`kv_primary_stuck` reports as a liveness problem): the flag is the only thing
between a half-done upgrade and the handlers.

`WritesNotReadOnly` says that once the canary is written, the view and any
transaction the goroutine opens are writable until the goroutine ends. This
is what `READONLY_LOOP` is for: `Tune` and a restart leave the view
read-only until the setup ends, and the factory's `Upgrade` starts the
goroutine during the setup. Without the loop, the first key would fail with
`ErrSetupReadOnly` and leave the flag set.

`UpgradeCompletes` is stated as `~faulty /\ <>(version = 2) => <>[](...)`,
so it constrains only the behaviours without storage errors that are tuned
to v2. No symmetry is declared, because the
run checks a liveness property.

There is one more divergence, which no run checks. `upgradeKey` opens a
transaction so that a key moves as a whole, but it passes `s`, not the
transaction, to `writeKeyMetadata` (`upgrade.go:191`). `KeyMeta` models that
write. When the delete or the commit then fails, the metadata of version 1
stays while the version is rolled back. The next run of the upgrade rewrites
both, and the mount stays blocked until then, so `DataNeverLost` and
`DoneMeansUpgraded` hold all the same.

**Bounds.** The bounds are small, but they reach every case:
- Two keys are enough for an error or crash at one key while the other is
  done or still to do.
- Two crashes let the restarted upgrade crash again over the state the first
  crash left.

`CHECK_DEADLOCK FALSE` is set because the upgrade really ends: once the
canary is done and the secondary has exited, no step is enabled.

**Mutants.**

| Mutant | Slip | Breaks |
|---|---|---|
| `UpgradeNoCAS` | the flag is incremented instead of swapped | `TypeOK` |
| `KeyDeleteDirect` | the delete goes to `s`, like the metadata | `DataNeverLost` |
| `KeyReadSkip` | an error of `upgradeKey` is logged and the loop goes on | `DoneMeansUpgraded` |
| `KeyMetaSkip` | the metadata write is left out | `KInv` |
| `FailClearsFlag` | an error return clears the flag, as a deferred reset would | `ServedSeesUpgraded` |
| `WriteCanaryIgnoresRO` | `READONLY_LOOP` breaks on the read-only error as on success | `WritesNotReadOnly` |
| `FinishKeepsFlag` | the flag is not cleared at the end | `UpgradeCompletes` |

## 7. What is proved about the KV upgrade (`KVUpgradeProofs.tla`)

The proofs hold for every set of keys, both kinds of storage, with and without
errors, and for any crash bound (`KVAssumption` only says that `NoKey` is
not a key and that the crash bound is a natural number):

- `KVSafety`: `Spec => []KInv`;
- `DataSafe`: `[]DataNeverLost`;
- `DoneSafe`: `[]DoneMeansUpgraded`;
- `ServedSafe`: `[]ServedSeesUpgraded`, from `KVSafety` and the lemma
  `KInvServed` (`KInv => ServedSeesUpgraded`);
- `WritesSafe`: `[]WritesNotReadOnly`;
- `KVTypeSafe`: `[]TypeOK`.

No property is inductive alone, so `KInv` adds seven conjuncts:
- `KeyProgress` says what `upgradeKey` has written for `cur` at each step.
  For example, at the delete, the version is in storage or in the
  transaction, and the metadata is in storage.
- `LoopCovers`: every old entry is still to do.
- `Upgraded`: a key without its old entry has its version and metadata.
- `DoneFinal`: after the done canary, no goroutine runs.
- `Within`: the upgrade's entries and keys are among the stored keys.
- `V1Mount`: on a v1 mount every stored key has only its old entry and no
  upgrade has started. This is what lets the passthrough's writes and deletes
  keep `Upgraded`.
- `FlagCovers`: while the goroutine runs, the flag is set and `Upgrade` was
  called; once the flag is cleared after a call, no old entry is left; and an
  open gate means `Upgrade` was called or the canary is done. With
  `DoneMeansUpgraded` and `Upgraded` this gives `ServedSeesUpgraded`.

`Finish` then finds `old = {}`, so every key is upgraded when the done canary
is written.

`KInv` also holds `WritesNotReadOnly` and `TxnScoped` (a transaction is open
only inside `upgradeKey` on transactional storage, so the `txn` left behind
carries no read-only copy). The proof is layered: the lemmas above prove
the first ten conjuncts (`KCore`) inductive, and `NextRO` proves the two
read-only conjuncts (`RO`) from `KCore`. The argument of `NextRO`:
- the goroutine reaches `collect` only through a canary write that found the
  view writable;
- only `Tune` and `Crash` make the view read-only, and they happen only when
  the goroutine is idle or end it;
- `BeginTx` runs while the view is writable, so its copy is clear.

Each action has a lemma, split by invariant group. Every error return goes
through the shared `FailStep`, and the goroutine steps that do not end it
share `GoroutineFrame` for `V1Mount` and `FlagCovers`. The liveness properties (`UpgradeCompletes`
and the two violations) are model-checked only.

## 8. The plugin backend server model (`PluginServer.tla`)

A backend plugin runs as its own process and serves the host's calls over
gRPC (`sdk/plugin/grpc_backend_server.go`). With multiplexing, one process
serves several mounts. Each mount's backend instance lives in `instances`,
a map from multiplex ID to instance, guarded by `instancesLock`. Without
multiplexing, the single instance lives under `singleImplementationID`.

**State.**

| Variable | Code |
|---|---|
| `mux`, `meta`, `cross` | `multiplexingSupport`, `pluginutil.InMetadataMode()`, whether the factory's backends implement `logical.CrossPluginBackend` (fixed per process) |
| `instances` | `b.instances`, slot to backend number, `NoBackend` for no entry |
| `owner` | the ID each backend the factory returned was set up for (its storage) |
| `cleaned` | the backends whose `backend.Cleanup` has run |
| `setup` | the IDs the host has called `Setup` for |
| `pc`, `rid`, `rb` | each RPC goroutine's place, the ID it works for, the backend in hand |

**Actions.**
- `SetupBegin` is `Setup` up to the factory's return (lines 76-115). The ID
  comes from the context (`SetupId`); the dial, the storage client or the
  factory may fail, and the RPC then returns an error with the map
  unchanged.
- `SetupStore` is the store under the write lock (lines 117-126).
- `Lookup` is `getBackendAndBrokeredClientInternal`. With multiplexing a
  context without an ID is an error; an ID without an entry falls back to
  the single instance.
- The ten RPCs that call into a backend (`HandleRequest` ... 
  `HandleInternalExistenceCheck`) share `Enter`: look up under the read lock,
  release it, refuse in metadata mode or for a backend that is not
  cross-plugin where the code does, then call. `Return` ends the call.
- `Cleanup` runs wholly under the write lock: the lookup, `backend.Cleanup`,
  the close of the brokered client, and the delete of the ID's entry (with
  multiplexing) or of the single instance.

The host calls `Setup` once per mount before anything else of that mount,
and the model keeps that contract (`setup`). There is no fairness: the
properties are all safety.

**Run** (`MC_PluginServer.tla`: IDs `i1`, `i2`, two RPC goroutines, both
values of `mux`, `meta` and `cross`).

| Run | Checks | Result |
|---|---|---|
| `plugin_instances` | `TypeOK`, `InstancesLive`, `TenantIsolation`, `NoBackendLost`, `PInv` (the proof's invariant) | 1,532 states; pass |

- `InstancesLive`: the map never holds a backend that has been cleaned up,
  in either mode. This needs `Cleanup` to delete the single instance too.
- `TenantIsolation`: with multiplexing, every call runs in the backend set
  up for its own ID. The fallback to the single instance must never serve a
  mount, which holds only because `Setup` never stores under
  `singleImplementationID` in that mode.
- `NoBackendLost`: every backend the factory returned is stored, about to
  be stored, or cleaned up.

`CHECK_DEADLOCK` is off: once every ID has been set up and cleaned up, no
RPC can do anything, and the process really does sit idle.

Two RPCs and two IDs are enough: a `Cleanup` of one ID can race a `Setup`
and a call of the other, and a call can be in flight while its own ID is
cleaned up.

**Mutants.**

| Mutant | Slip | Breaks |
|---|---|---|
| `SetupBeginOffByOne` | the new backend is numbered one too far | `TypeOK` |
| `CleanupMuxOnly` | the single instance is not deleted | `InstancesLive` |
| `SetupIdIgnoresMux` | `Setup` always stores under `singleImplementationID` | `TenantIsolation`, `PInv` |
| `CleanupSkipsBackend` | the entry is deleted without `backend.Cleanup` | `NoBackendLost` |

**Proved** (`PluginServerProofs.tla`). `PluginSafety` proves
`Spec => []PInv` for every set of IDs and goroutines, with `Ids`, `NoId` and
`Single` distinct (`PluginAssumption`). `InstancesLiveSafe`,
`TenantIsolationSafe`, `NoBackendLostSafe` and `PluginTypeSafe` (`[]TypeOK`)
follow from it.

None of the three properties is inductive alone. `PInv` adds:
- `Owned`: a stored backend sits under its owner's slot, and the host has
  set that slot up. A backend is therefore under at most one slot, so
  `Cleanup` removes every copy of what it cleans.
- `MuxNoSingle`: with multiplexing, the single-implementation entry stays
  empty. So a lookup that hits reads the context's own entry.
- `StoreOK` and `StoreUnique`: a goroutine between the factory and the store
  holds a fresh, uncleaned backend for a set-up ID whose entry is still
  empty, and no two such goroutines share an ID. So the store overwrites
  nothing.
- `CallOK`: a call holds a backend the factory returned, and with
  multiplexing its own ID's.

`LookupFact` states what a successful lookup returns. There is one lemma per
action (`SetupBeginPInv`, `SetupStorePInv`, `EnterPInv`, `ReturnPInv`,
`CleanupPInv`), and `ServeIsEnter` folds the ten RPCs into `Enter`.
`PInv` is also checked by the run.

**Not covered.** A call takes its backend under the read lock and uses it
after the unlock (line 148). A `Cleanup` can therefore clean the backend up
while the call runs. The model explores that order, but what the backend
does then is outside the tree.

A second `Setup` for the same ID would overwrite its entry and leak the
first backend (line 120). The model excludes it by the host's contract.

## 9. The profile API model (`ProfileAPI.tla`)

The handlers of `sys/profiles/*` (`vault/logical_system_profiles.go`) each
make one call into the store, and the store makes that call under its
RWMutex. So a request is one atomic step: the handler's code, the store
call, and the response it builds. `ProfileStore.tla` models how the same
calls interleave under the lock. The step records the request and its answer
in `last`.

**State.** `store` maps each path to its entry, or `NoEntry`. A path is one or
two segments (storage keys `s` and `s/u`), and segments are numbers ordered as
the keys sort.

**Actions.**
- `ListRoot` is LIST or SCAN on `manage/`. It calls the store's `List`
  (`ListResults`), then the handler builds a `key_info` entry from every
  result, dereferencing it.
  - A single-level listing (`ListPage`, with `after` and `limit`) shows a
    directory as `s/`. `List` then calls `getLocked("s/")` on the root of the
    profile view (`GetLocked`), which reads nil.
  - A scan lists full paths and reads every entry.
- `ListUnder` is LIST or SCAN on `manage/<path>`. The route has a `path`
  field, so the handler asks for `parent`, which the route does not declare,
  and `FieldData.Get` panics.
- `Read` calls `Get`. It panics on a missing profile
  (`createProfileDataResponse(nil)`).
- `Update` builds the entry with `Version` 0 and calls `Set` with
  `HandlerCas(c)`. `SetDecision` is `Set`'s check, and `view.Put` may fail.
- `Delete` and `Execute` (permission denied for an unauthenticated caller on
  a missing or non-public profile, nil for a missing one) complete the API.

`ListPage`'s order, `after` and `limit` come from the storage layer, which is
outside the tree. They are modelled from spec section 4.4.

**Run.**

| Run | Checks | Result |
|---|---|---|
| `api_cas_ignored` | `UpdateHonoursCas` (spec 4.4 and 6: a cas in the body must hold against the stored profile) | **violated** in one step: `cas 0` on a missing profile is accepted (`logical_system_profiles.go:315`) |

`cas := new(int)` inside the `if` declares a new variable, so the handler
passes a nil cas to `Set`. This has three consequences:
- two clients that read the same version can both overwrite the profile;
- a profile with `cas_required` can never be created, because `Set` then
  demands a cas;
- the store's numeric-cas branches, including its nil dereference at
  `profile_store.go:163`, are unreachable from the API.

**Not stated as properties.** The model answers `panic` in two places:
- a `Read` of a missing profile (`:302`);
- a `LIST` whose page holds a directory key (`profile_store.go:224`, then
  the handler's dereference).

The spec's answers (not found, and fully populated entries) are listed as
hazards in `PROJECT.json`.

Two segments give both a profile `s` and a directory `s/` at the top level.
Cas values `{-1, 0}` and limits `{0, 1}` reach every branch of the handlers.

## 10. Not modelled, and why

- The route table of `profilePaths` (`logical_system_profiles.go:15-245`)
  is a schema. Of its content the model uses one fact: the `manage/<path>`
  route has a `path` field and no `parent` field.
- In the plugin server, `IsCrossPlugin` only reads, and what a backend does
  when it is called after its `Cleanup` depends on the backend and on the
  host's cancellation of in-flight calls, which is outside the tree.
- In the KV mount, the v1 reads, lists and scans of `passthrough.go` change
  nothing and are left out. The versioned handlers behind `upgradeCheck` are
  not in the source tree, so a request through the gate is the state
  predicate `GateOpen`. `BeginReadOnlyTx` is not used by the upgrade. Two upgrade goroutines on
  one storage are also left out (see the `stale_state` hazard); they need a
  plugin reload, which is outside the tree.
- In the engine, template rendering, CEL and type conversion are pure
  conversions. A field is abstracted to its markers, its source, the
  verdicts of the source's `Validate` and `Evaluate`, its type name and the
  responses it reads.
- The barrier view is an abstract map whose writes may fail. Forwarding, the
  CLI, generated code and helpers are pure conversions or tables.

------------------------------ MODULE KVUpgrade ------------------------------
(***************************************************************************)
(* The upgrade of a KV mount from unversioned (v1) to versioned (v2) data, *)
(* builtin/logical/kv/upgrade.go.                                          *)
(*                                                                         *)
(* Upgrade sets the upgrading flag with a compare-and-swap and starts a    *)
(* goroutine that writes the "upgrading" canary, collects the keys and     *)
(* upgrades each: read the old entry, write version 1 of it, write its     *)
(* metadata, delete the old entry, all in a transaction when the storage   *)
(* offers one.  It then marks the canary done and clears the flag.  While *)
(* the flag is set, upgradeCheck turns every request away.  On a          *)
(* performance secondary, Upgrade instead starts a goroutine that polls    *)
(* the canary written by the primary and clears the flag once it is done.*)
(*                                                                         *)
(* Before the upgrade the mount is a v1 mount, served by the passthrough  *)
(* backend (passthrough.go), whose writes and deletes make the data that  *)
(* the upgrade later moves.  Tuning the mount to v2 sets up the versioned *)
(* backend, whose factory calls Upgrade while the barrier view            *)
(* (vault/barrier/view.go) is still read-only for the setup.              *)
(*                                                                         *)
(* Storage operations may fail; the process may crash and restart, which  *)
(* loses the flag, the goroutines and any open transaction.               *)
(***************************************************************************)
EXTENDS Naturals, FiniteSets

CONSTANTS
    Keys,           \* the unversioned keys of the mount
    NoKey,          \* no key is being upgraded
    MaxCrashes      \* bound on crashes and restarts

ASSUME KVAssumption ==
    /\ NoKey \notin Keys
    /\ MaxCrashes \in Nat

VARIABLES
    transactional, \* the storage is a logical.transactionalStorage
    faulty,        \* its operations may fail
    upgrading,   \* b.upgrading on the primary (0 or 1)
    pc,          \* where the primary's upgrade goroutine is
    todo,        \* the collected keys not yet upgraded
    cur,         \* the key upgradeKey is working on
    txn,         \* the open transaction's buffered writes
    old,         \* the unversioned entries in storage
    ver,         \* the keys whose version 1 is in storage
    meta,        \* the keys whose metadata is in storage
    canary,      \* the "upgrading" entry: "none", "started" or "done"
    crashes,     \* crashes so far
    called,      \* the primary's Upgrade has been called since it started
    supgrading,  \* b.upgrading on the performance secondary
    spc,         \* "idle", "wait" (polling) or "exit"
    sctx,        \* the secondary's context is cancelled
    version,     \* the mount's KV version, 1 (passthrough) or 2 (versioned)
    ro,          \* the barrier view's readOnlyErr is ErrSetupReadOnly
    stored       \* the keys clients have written and not deleted

vars == <<transactional, faulty, upgrading, pc, todo, cur, txn, old, ver, meta,
          canary, crashes, called, supgrading, spc, sctx, version, ro, stored>>

\* The steps of upgradeKey.
KeyPCs == {"k_read", "k_put", "k_meta", "k_del", "k_commit"}
PCs == {"idle", "canary", "collect", "loop", "failed"} \cup KeyPCs

\* No open transaction: nothing buffered, no read-only error.
NoTxn == [ver |-> FALSE, del |-> FALSE, ro |-> FALSE]

\* The outcomes of a storage operation.
Results == IF faulty THEN {"ok", "err"} ELSE {"ok"}

Init ==
    /\ transactional \in BOOLEAN
    /\ faulty \in BOOLEAN
    /\ upgrading = 0
    /\ pc = "idle"
    /\ todo = {}
    /\ cur = NoKey
    /\ txn = NoTxn
    /\ old = {}
    /\ ver = {}
    /\ meta = {}
    /\ canary = "none"
    /\ crashes = 0
    /\ called = FALSE
    /\ supgrading = 0
    /\ spc = "idle"
    /\ sctx = FALSE
    /\ version = 1
    /\ ro = FALSE
    /\ stored = {}

SecVars == <<called, supgrading, spc, sctx>>

\* What no step changes: the kind of storage and whether it fails.
Fixed == <<transactional, faulty>>

\* The mount and its view, which the upgrade's own steps leave alone.
ViewVars == <<version, ro, stored>>

\* view.Put and view.Delete return the view's read-only error, if it has
\* one, before they reach storage.
ViewWritable == ~ro

\* BeginTx of the transactional view: the transaction is a view of its own
\* that copies the view's read-only error when it begins.
BeginTx == [ver |-> FALSE, del |-> FALSE, ro |-> ro]

\* The transaction's Put and Delete (view.Put and view.Delete on the copy)
\* and its Commit (begun writable, so wasReadOnly is false) return the
\* copied read-only error.
TxnWritable == ~txn.ro

\* upgradeKey puts the version and deletes the old entry through the
\* transaction when there is one, through the view otherwise.
KeyWritable == IF transactional THEN TxnWritable ELSE ViewWritable

\* The outcomes of a write through a view: its read-only error, if it has
\* one, else what storage returns.
WriteResults(w) == IF w THEN Results ELSE {"ro"}

\* upgradeDone: the canary entry records a finished upgrade.
UpgradeDone == canary = "done"

\* Mutant: an error return clears the flag (a deferred StoreUint32(0)).
FailClearsFlag ==
    /\ pc' = "failed"
    /\ txn' = NoTxn
    /\ cur' = NoKey
    /\ upgrading' = 0
    /\ UNCHANGED <<todo, old, ver, meta, canary>>

\* The goroutine returns on an error without clearing the flag; the
\* deferred Rollback drops the open transaction.
Fail ==
    /\ pc' = "failed"
    /\ txn' = NoTxn
    /\ cur' = NoKey
    /\ UNCHANGED <<upgrading, todo, old, ver, meta, canary>>

\* Mutant: the flag is incremented instead of swapped from 0 to 1.
UpgradeNoCAS ==
    /\ version = 2
    /\ canary # "done"
    /\ called' = TRUE
    /\ upgrading' = upgrading + 1
    /\ pc' = "canary"
    /\ UNCHANGED <<todo, cur, txn, old, ver, meta, canary, crashes,
                   supgrading, spc, sctx, Fixed, ViewVars>>

\* Upgrade on the primary, called while the canary is not done; the
\* compare-and-swap of the flag lets only one call start the goroutine (a
\* failed swap returns an error and changes nothing).
Upgrade ==
    /\ version = 2
    /\ ~UpgradeDone
    /\ called' = TRUE
    /\ upgrading = 0
    /\ upgrading' = 1
    /\ pc' = "canary"
    /\ UNCHANGED <<todo, cur, txn, old, ver, meta, canary, crashes,
                   supgrading, spc, sctx, Fixed, ViewVars>>

\* Mutant: a read-only error ends READONLY_LOOP as a success would.
WriteCanaryIgnoresRO ==
    /\ pc = "canary"
    /\ \/ /\ canary' = IF ViewWritable THEN "started" ELSE canary
          /\ pc' = "collect"
          /\ UNCHANGED <<upgrading, todo, cur, txn, old, ver, meta>>
       \/ /\ faulty
          /\ Fail
    /\ UNCHANGED <<crashes, SecVars, Fixed, ViewVars>>

\* READONLY_LOOP: write the canary; retry while the view is read-only during
\* setup (a step that changes nothing), give up on any other error.
WriteCanary ==
    /\ pc = "canary"
    /\ \/ /\ ViewWritable
          /\ canary' = "started"
          /\ pc' = "collect"
          /\ UNCHANGED <<upgrading, todo, cur, txn, old, ver, meta>>
       \/ /\ faulty
          /\ Fail
    /\ UNCHANGED <<crashes, SecVars, Fixed, ViewVars>>

\* logical.CollectKeys.
CollectKeys ==
    /\ pc = "collect"
    /\ \/ /\ todo' = old
          /\ pc' = "loop"
          /\ UNCHANGED <<upgrading, cur, txn, old, ver, meta, canary>>
       \/ /\ faulty
          /\ Fail
    /\ UNCHANGED <<crashes, SecVars, Fixed, ViewVars>>

\* The loop over the collected keys; keys under the storage prefix are
\* skipped by upgradeKey and are not among Keys.
NextKey ==
    /\ pc = "loop"
    /\ \E k \in todo :
         /\ cur' = k
         /\ todo' = todo \ {k}
         /\ pc' = "k_read"
    /\ UNCHANGED <<upgrading, txn, old, ver, meta, canary, crashes, SecVars, Fixed, ViewVars>>

\* Mutant: an error of upgradeKey is logged and the loop goes on.
KeyReadSkip ==
    /\ pc = "k_read"
    /\ \E r \in Results :
         IF r = "ok"
           THEN /\ pc' = "k_put"
                /\ txn' = IF transactional THEN BeginTx ELSE txn
                /\ UNCHANGED <<upgrading, todo, cur, old, ver, meta, canary>>
           ELSE /\ pc' = "loop"
                /\ cur' = NoKey
                /\ UNCHANGED <<upgrading, todo, txn, old, ver, meta, canary>>
    /\ UNCHANGED <<crashes, SecVars, Fixed, ViewVars>>

\* upgradeKey up to the first write: BeginTx, the read of the old entry and
\* getVersionKey; each may fail.
KeyRead ==
    /\ pc = "k_read"
    /\ \E r \in Results :
         IF r = "ok"
           THEN /\ pc' = "k_put"
                /\ txn' = IF transactional THEN BeginTx ELSE txn
                /\ UNCHANGED <<upgrading, todo, cur, old, ver, meta, canary>>
           ELSE Fail
    /\ UNCHANGED <<crashes, SecVars, Fixed, ViewVars>>

\* Put of version 1, into the transaction when there is one.
KeyPut ==
    /\ pc = "k_put"
    /\ \E r \in WriteResults(KeyWritable) :
         IF r = "ok"
           THEN /\ pc' = "k_meta"
                /\ IF transactional
                     THEN txn' = [txn EXCEPT !.ver = TRUE] /\ UNCHANGED ver
                     ELSE ver' = ver \cup {cur} /\ UNCHANGED txn
                /\ UNCHANGED <<upgrading, todo, cur, old, meta, canary>>
           ELSE Fail
    /\ UNCHANGED <<crashes, SecVars, Fixed, ViewVars>>

\* Mutant: the metadata write is left out.
KeyMetaSkip ==
    /\ pc = "k_meta"
    /\ \E r \in Results :
         IF r = "ok"
           THEN /\ pc' = "k_del"
                /\ UNCHANGED <<upgrading, todo, cur, txn, old, ver, meta, canary>>
           ELSE Fail
    /\ UNCHANGED <<crashes, SecVars, Fixed, ViewVars>>

\* writeKeyMetadata, given the storage s itself, not the transaction.
KeyMeta ==
    /\ pc = "k_meta"
    /\ \E r \in WriteResults(ViewWritable) :
         IF r = "ok"
           THEN /\ pc' = "k_del"
                /\ meta' = meta \cup {cur}
                /\ UNCHANGED <<upgrading, todo, cur, txn, old, ver, canary>>
           ELSE Fail
    /\ UNCHANGED <<crashes, SecVars, Fixed, ViewVars>>

\* Mutant: the old entry is deleted through s, outside the transaction.
KeyDeleteDirect ==
    /\ pc = "k_del"
    /\ \E r \in WriteResults(ViewWritable) :
         IF r = "ok"
           THEN /\ pc' = IF transactional THEN "k_commit" ELSE "loop"
                /\ old' = old \ {cur}
                /\ cur' = IF transactional THEN cur ELSE NoKey
                /\ UNCHANGED <<upgrading, todo, txn, ver, meta, canary>>
           ELSE Fail
    /\ UNCHANGED <<crashes, SecVars, Fixed, ViewVars>>

\* Delete of the old entry, into the transaction when there is one;
\* without one upgradeKey returns here.
KeyDelete ==
    /\ pc = "k_del"
    /\ \E r \in WriteResults(KeyWritable) :
         IF r = "ok"
           THEN IF transactional
                  THEN /\ pc' = "k_commit"
                       /\ txn' = [txn EXCEPT !.del = TRUE]
                       /\ UNCHANGED <<upgrading, todo, cur, old, ver, meta, canary>>
                  ELSE /\ pc' = "loop"
                       /\ old' = old \ {cur}
                       /\ cur' = NoKey
                       /\ UNCHANGED <<upgrading, todo, txn, ver, meta, canary>>
           ELSE Fail
    /\ UNCHANGED <<crashes, SecVars, Fixed, ViewVars>>

\* Commit of the transaction.
KeyCommit ==
    /\ pc = "k_commit"
    /\ \E r \in WriteResults(TxnWritable) :
         IF r = "ok"
           THEN /\ pc' = "loop"
                /\ ver' = IF txn.ver THEN ver \cup {cur} ELSE ver
                /\ old' = IF txn.del THEN old \ {cur} ELSE old
                /\ txn' = NoTxn
                /\ cur' = NoKey
                /\ UNCHANGED <<upgrading, todo, meta, canary>>
           ELSE Fail
    /\ UNCHANGED <<crashes, SecVars, Fixed, ViewVars>>

\* Mutant: the flag is not cleared after the done canary.
FinishKeepsFlag ==
    /\ pc = "loop"
    /\ todo = {}
    /\ \E r \in Results : canary' = IF r = "ok" THEN "done" ELSE canary
    /\ pc' = "idle"
    /\ UNCHANGED <<upgrading, todo, cur, txn, old, ver, meta, crashes, SecVars, Fixed, ViewVars>>

\* After the loop: the policy check (its error is only logged), the write
\* of the done canary (its error is only logged), then the flag is cleared.
Finish ==
    /\ pc = "loop"
    /\ todo = {}
    /\ \E r \in Results : canary' = IF r = "ok" THEN "done" ELSE canary
    /\ upgrading' = 0
    /\ pc' = "idle"
    /\ UNCHANGED <<todo, cur, txn, old, ver, meta, crashes, SecVars, Fixed, ViewVars>>

\* The primary crashes and restarts: the flag, the goroutine and the open
\* transaction are lost; storage survives, and the mount is set up again
\* behind a read-only view.
Crash ==
    /\ crashes < MaxCrashes
    /\ crashes' = crashes + 1
    /\ upgrading' = 0
    /\ pc' = "idle"
    /\ todo' = {}
    /\ cur' = NoKey
    /\ txn' = NoTxn
    /\ called' = FALSE
    /\ ro' = TRUE
    /\ UNCHANGED <<old, ver, meta, canary, supgrading, spc, sctx, Fixed,
                   version, stored>>

-----------------------------------------------------------------------------
(* The performance secondary (lines 88-119).                              *)

\* Upgrade on the secondary: the compare-and-swap, then the polling
\* goroutine.
SecUpgrade ==
    /\ version = 2
    /\ spc = "idle"
    /\ ~UpgradeDone
    /\ supgrading = 0
    /\ supgrading' = 1
    /\ spc' = "wait"
    /\ UNCHANGED <<sctx, upgrading, pc, todo, cur, txn, old, ver, meta,
                   canary, crashes, called, Fixed, ViewVars>>

\* One round of the polling loop: a closed context clears the flag and
\* ends the goroutine; so does a done canary; a read error is logged.
SecPoll ==
    /\ spc = "wait"
    /\ \/ sctx
       \/ UpgradeDone
    /\ supgrading' = 0
    /\ spc' = "exit"
    /\ UNCHANGED <<sctx, upgrading, pc, todo, cur, txn, old, ver, meta,
                   canary, crashes, called, Fixed, ViewVars>>

\* The secondary shuts down and its context is cancelled.
SecCancel ==
    /\ ~sctx
    /\ sctx' = TRUE
    /\ UNCHANGED <<supgrading, spc, upgrading, pc, todo, cur, txn, old, ver,
                   meta, canary, crashes, called, Fixed, ViewVars>>

-----------------------------------------------------------------------------
(* The mount around the upgrade: the v1 passthrough backend, the tune to   *)
(* v2 and the end of the setup.                                           *)

\* handleWrite of the passthrough backend: a request with a path and data
\* puts its entry through the view (a failed put, or one refused by the
\* read-only view, returns an error and changes nothing).
PassWrite ==
    /\ version = 1
    /\ ViewWritable
    /\ \E k \in Keys :
         /\ old' = old \cup {k}
         /\ stored' = stored \cup {k}
    /\ UNCHANGED <<upgrading, pc, todo, cur, txn, ver, meta, canary, crashes,
                   SecVars, Fixed, version, ro>>

\* handleDelete of the passthrough backend.
PassDelete ==
    /\ version = 1
    /\ ViewWritable
    /\ \E k \in old :
         /\ old' = old \ {k}
         /\ stored' = stored \ {k}
    /\ UNCHANGED <<upgrading, pc, todo, cur, txn, ver, meta, canary, crashes,
                   SecVars, Fixed, version, ro>>

\* The mount is tuned to version 2: the versioned backend is set up behind
\* a view that is read-only until the setup ends.
Tune ==
    /\ version = 1
    /\ version' = 2
    /\ ro' = TRUE
    /\ UNCHANGED <<upgrading, pc, todo, cur, txn, old, ver, meta, canary,
                   crashes, SecVars, Fixed, stored>>

\* The setup ends, after the backend's factory has run (and called Upgrade
\* unless the canary was done): SetReadOnlyErr(nil) on the view.
SetupDone ==
    /\ ro
    /\ version = 2 => called \/ UpgradeDone
    /\ ro' = FALSE
    /\ UNCHANGED <<upgrading, pc, todo, cur, txn, old, ver, meta, canary,
                   crashes, SecVars, Fixed, version, stored>>

\* upgradeCheck on the primary: a request reaches the versioned handler
\* when either of its two reads of the flag, 15ms apart, sees 0; requests
\* arrive once the setup has ended.
GateOpen == version = 2 /\ ~ro /\ upgrading = 0

\* The steps of the primary's upgrade goroutine.
Worker ==
    \/ WriteCanary \/ CollectKeys \/ NextKey \/ KeyRead \/ KeyPut \/ KeyMeta
    \/ KeyDelete \/ KeyCommit \/ Finish

\* The mount's own steps.
Mount == PassWrite \/ PassDelete \/ Tune \/ SetupDone

Next == Mount \/ Upgrade \/ Worker \/ Crash \/ SecUpgrade \/ SecPoll \/ SecCancel

Spec == Init /\ [][Next]_vars

\* Goroutines are scheduled, the setup of a mount ends, and a started
\* backend makes its first call of Upgrade while the canary is not done;
\* client requests, the tune, later calls, crashes and the secondary's
\* shutdown are not bound to happen.
FairSpec ==
    /\ Spec
    /\ WF_vars(SetupDone)
    /\ WF_vars(Upgrade /\ ~called)
    /\ WF_vars(Worker)
    /\ WF_vars(SecUpgrade)
    /\ WF_vars(SecPoll)

-----------------------------------------------------------------------------
(* Properties.                                                            *)

TypeOK ==
    /\ transactional \in BOOLEAN
    /\ faulty \in BOOLEAN
    /\ upgrading \in {0, 1}
    /\ pc \in PCs
    /\ todo \subseteq Keys
    /\ cur \in Keys \cup {NoKey}
    /\ txn \in [ver : BOOLEAN, del : BOOLEAN, ro : BOOLEAN]
    /\ old \subseteq Keys
    /\ ver \subseteq Keys
    /\ meta \subseteq Keys
    /\ canary \in {"none", "started", "done"}
    /\ crashes \in 0..MaxCrashes
    /\ called \in BOOLEAN
    /\ supgrading \in {0, 1}
    /\ spc \in {"idle", "wait", "exit"}
    /\ sctx \in BOOLEAN
    /\ version \in {1, 2}
    /\ ro \in BOOLEAN
    /\ stored \subseteq Keys

\* The data of every unversioned key stays in storage, as the old entry or
\* as its version 1, whatever storage operation fails and wherever the
\* process crashes (upgradeKey writes the version before it deletes).
DataNeverLost == \A k \in stored : k \in old \/ k \in ver

\* Once the canary says done, which unblocks the secondaries and every
\* later start, no unversioned entry is left and every stored key has its
\* version and metadata.
DoneMeansUpgraded ==
    canary = "done" => old = {} /\ ver = stored /\ meta = stored

\* A request that upgradeCheck lets through to the versioned handlers of
\* the primary finds every key upgraded: the flag stays set while any old
\* entry is left, also when the upgrade goroutine gives up on an error.
ServedSeesUpgraded == GateOpen => old = {} /\ stored \subseteq ver \cap meta

\* Once the canary is written, no write of the upgrade goroutine meets the
\* read-only error of a mount's setup: the view stays writable while the
\* goroutine runs, and so does every transaction it begins.  Otherwise a
\* key would fail with ErrSetupReadOnly and leave the flag set.
WritesNotReadOnly ==
    pc \in {"collect", "loop"} \cup KeyPCs => ViewWritable /\ TxnWritable

\* On storage without errors the upgrade completes despite crashes: the
\* canary ends done and both nodes serve requests again.
UpgradeCompletes ==
    ~faulty /\ <>(version = 2) =>
        <>[](canary = "done" /\ upgrading = 0 /\ supgrading = 0)

\* upgradeCheck tells clients that the primary "will resume service
\* shortly": the flag is cleared again.
PrimaryResumes == upgrading = 1 ~> upgrading = 0

\* The secondary "will resume service when the primary is finished": once
\* the primary's goroutine has cleared its flag, so does the secondary.
SecondaryResumes == (supgrading = 1 /\ called /\ upgrading = 0) ~> supgrading = 0

-----------------------------------------------------------------------------
(* The inductive invariant behind the safety properties above.           *)

\* Where upgradeKey stands for the key it works on: what it has written,
\* directly or into the transaction.
KeyProgress ==
    /\ pc \in KeyPCs => cur \in Keys
    /\ pc \in {"k_meta", "k_del", "k_commit"} =>
         IF transactional THEN txn.ver ELSE cur \in ver
    /\ pc \in {"k_del", "k_commit"} => cur \in meta
    /\ pc = "k_commit" => transactional /\ txn.del

\* Every old entry the loop has not reached yet is still to do.
LoopCovers ==
    /\ pc = "loop" => old \subseteq todo
    /\ pc \in KeyPCs => old \subseteq todo \cup {cur}

\* A stored key whose old entry is gone has its version and metadata.
Upgraded == \A k \in stored \ old : k \in ver /\ k \in meta

\* The upgrade only moves stored keys.
Within ==
    /\ old \subseteq stored
    /\ ver \subseteq stored
    /\ meta \subseteq stored
    /\ todo \subseteq stored
    /\ pc \in KeyPCs => cur \in stored

\* A v1 mount has only its old entries and no upgrade.
V1Mount ==
    version = 1 =>
        /\ old = stored /\ ver = {} /\ meta = {} /\ canary = "none"
        /\ pc = "idle" /\ todo = {} /\ upgrading = 0 /\ ~called
        /\ spc = "idle" /\ supgrading = 0

\* The flag is set while the goroutine runs and after it gave up; once it
\* is cleared after a call, no old entry is left; and a v2 mount whose
\* setup ended has called Upgrade or found the canary done.
FlagCovers ==
    /\ pc # "idle" => upgrading = 1 /\ called
    /\ called /\ upgrading = 0 => old = {}
    /\ GateOpen => called \/ UpgradeDone

\* A transaction is open only inside upgradeKey, on transactional storage.
TxnScoped == pc \notin KeyPCs \/ ~transactional => txn = NoTxn

\* After the done canary nothing runs that writes storage.
DoneFinal == canary = "done" => pc = "idle"

KInv ==
    /\ TypeOK
    /\ KeyProgress
    /\ LoopCovers
    /\ Upgraded
    /\ DataNeverLost
    /\ DoneMeansUpgraded
    /\ DoneFinal
    /\ Within
    /\ V1Mount
    /\ FlagCovers
    /\ TxnScoped
    /\ WritesNotReadOnly

=============================================================================

--------------------------- MODULE KVUpgradeProofs ---------------------------
(***************************************************************************)
(* Proofs about KVUpgrade, for every set of keys, either kind of storage, *)
(* with or without storage errors and for every bound on crashes: no      *)
(* stored key's data is ever lost, the done canary is written only once   *)
(* every key is upgraded, and a request that the primary's upgradeCheck   *)
(* lets through finds every key upgraded.                                 *)
(***************************************************************************)
EXTENDS KVUpgrade, TLAPS

\* The conjuncts of KInv about storage, the flag and the mount; the two
\* about the read-only view rest on them and are proved after.
KCore ==
    /\ TypeOK
    /\ KeyProgress
    /\ LoopCovers
    /\ Upgraded
    /\ DataNeverLost
    /\ DoneMeansUpgraded
    /\ DoneFinal
    /\ Within
    /\ V1Mount
    /\ FlagCovers

\* The parts of the type invariant that the upgrade goroutine's steps touch.
LEMMA TxnType ==
  /\ NoTxn \in [ver : BOOLEAN, del : BOOLEAN, ro : BOOLEAN]
  /\ ro \in BOOLEAN => BeginTx \in [ver : BOOLEAN, del : BOOLEAN, ro : BOOLEAN]
  /\ \A t \in [ver : BOOLEAN, del : BOOLEAN, ro : BOOLEAN] :
       /\ [t EXCEPT !.ver = TRUE] \in [ver : BOOLEAN, del : BOOLEAN, ro : BOOLEAN]
       /\ [t EXCEPT !.del = TRUE] \in [ver : BOOLEAN, del : BOOLEAN, ro : BOOLEAN]
  BY DEF NoTxn, BeginTx

\* While the goroutine runs, the flag is set, Upgrade was called and the
\* mount is a v2 mount; a step of the goroutine that does not end it keeps
\* it so, whatever it writes.
LEMMA GoroutineFrame ==
  ASSUME KCore, pc # "idle", pc' # "idle",
         UNCHANGED <<upgrading, called, version>>
  PROVE  V1Mount' /\ FlagCovers'
  <1>1. upgrading = 1 /\ called
    BY DEF KCore, FlagCovers
  <1>2. version = 2
    BY DEF KCore, TypeOK, V1Mount
  <1>3. QED
    BY <1>1, <1>2 DEF V1Mount, FlagCovers, GateOpen

\* A step that ends the goroutine on an error writes nothing to storage,
\* so it keeps KCore.
LEMMA FailStep ==
  KCore /\ pc # "idle" /\ Fail /\ UNCHANGED <<crashes, SecVars, Fixed, ViewVars>>
    => KCore'
  <1> SUFFICES ASSUME KCore, pc # "idle", Fail,
                      UNCHANGED <<crashes, SecVars, Fixed, ViewVars>>
               PROVE  KCore'
    OBVIOUS
  <1>1. TypeOK'
    BY TxnType DEF KCore, TypeOK, Fail, SecVars, Fixed, ViewVars, PCs
  <1>2. KeyProgress' /\ LoopCovers' /\ DoneFinal'
    BY DEF KCore, Fail, KeyProgress, LoopCovers, DoneFinal, KeyPCs
  <1>3. Upgraded' /\ DataNeverLost' /\ DoneMeansUpgraded'
    BY DEF KCore, Fail, Upgraded, DataNeverLost, DoneMeansUpgraded, ViewVars
  <1>4. Within'
    BY DEF KCore, Fail, Within, ViewVars, KeyPCs
  <1>5. V1Mount' /\ FlagCovers'
    BY GoroutineFrame DEF Fail, SecVars, ViewVars
  <1>6. QED
    BY <1>1, <1>2, <1>3, <1>4, <1>5 DEF KCore

LEMMA InitKCore == Init => KCore
  <1> SUFFICES ASSUME Init PROVE KCore
    OBVIOUS
  <1>1. TypeOK
    <2>1. NoTxn \in [ver : BOOLEAN, del : BOOLEAN, ro : BOOLEAN]
      BY DEF NoTxn
    <2>2. crashes \in 0..MaxCrashes
      BY KVAssumption DEF Init
    <2>3. pc \in PCs /\ cur \in Keys \cup {NoKey}
      BY DEF Init, PCs
    <2>4. QED
      BY <2>1, <2>2, <2>3 DEF Init, TypeOK
  <1>2. KeyProgress /\ LoopCovers /\ DoneFinal
    BY DEF Init, KeyProgress, LoopCovers, DoneFinal, KeyPCs
  <1>3. Upgraded /\ DataNeverLost /\ DoneMeansUpgraded
    BY DEF Init, Upgraded, DataNeverLost, DoneMeansUpgraded
  <1>4. Within /\ V1Mount /\ FlagCovers
    BY DEF Init, Within, V1Mount, FlagCovers, GateOpen, KeyPCs
  <1>5. QED
    BY <1>1, <1>2, <1>3, <1>4 DEF KCore

\* Upgrade only starts the goroutine: the flag was clear, so no goroutine
\* was running, and the canary is not done, so DoneFinal holds after it.
LEMMA UpgradeStep == KCore /\ Upgrade => KCore'
  <1> SUFFICES ASSUME KCore, Upgrade PROVE KCore'
    OBVIOUS
  <1>1. TypeOK'
    BY DEF KCore, TypeOK, Upgrade, PCs, Fixed, ViewVars
  <1>2. KeyProgress' /\ LoopCovers' /\ DoneFinal'
    BY DEF KCore, Upgrade, UpgradeDone, KeyProgress, LoopCovers, DoneFinal,
           KeyPCs
  <1>3. Upgraded' /\ DataNeverLost' /\ DoneMeansUpgraded'
    BY DEF KCore, Upgrade, Upgraded, DataNeverLost, DoneMeansUpgraded, ViewVars
  <1>4. Within' /\ V1Mount' /\ FlagCovers'
    BY DEF KCore, Upgrade, Within, V1Mount, FlagCovers, GateOpen, ViewVars,
           KeyPCs
  <1>5. QED
    BY <1>1, <1>2, <1>3, <1>4 DEF KCore

LEMMA WriteCanaryStep == KCore /\ WriteCanary => KCore'
  <1> SUFFICES ASSUME KCore, WriteCanary PROVE KCore'
    OBVIOUS
  <1>1. CASE canary' = "started" /\ pc' = "collect"
            /\ UNCHANGED <<upgrading, todo, cur, txn, old, ver, meta>>
    <2>1. TypeOK'
      BY <1>1 DEF KCore, TypeOK, WriteCanary, PCs, SecVars, Fixed, ViewVars
    <2>2. KeyProgress' /\ LoopCovers' /\ DoneFinal'
      BY <1>1 DEF KCore, KeyProgress, LoopCovers, DoneFinal, KeyPCs
    <2>3. Upgraded' /\ DataNeverLost' /\ DoneMeansUpgraded'
      BY <1>1 DEF KCore, Upgraded, DataNeverLost, DoneMeansUpgraded,
                  WriteCanary, ViewVars
    <2>4. Within'
      BY <1>1 DEF KCore, Within, WriteCanary, ViewVars, KeyPCs
    <2>5. V1Mount' /\ FlagCovers'
      BY <1>1, GoroutineFrame DEF WriteCanary, SecVars, ViewVars
    <2>6. QED
      BY <2>1, <2>2, <2>3, <2>4, <2>5 DEF KCore
  <1>2. CASE Fail
    BY <1>2, FailStep DEF WriteCanary
  <1>3. QED
    BY <1>1, <1>2 DEF WriteCanary

\* CollectKeys puts every old entry among the keys to do.
LEMMA CollectKeysStep == KCore /\ CollectKeys => KCore'
  <1> SUFFICES ASSUME KCore, CollectKeys PROVE KCore'
    OBVIOUS
  <1>1. CASE todo' = old /\ pc' = "loop"
            /\ UNCHANGED <<upgrading, cur, txn, old, ver, meta, canary>>
    <2>1. TypeOK'
      BY <1>1 DEF KCore, TypeOK, CollectKeys, PCs, SecVars, Fixed, ViewVars
    <2>2. KeyProgress' /\ LoopCovers' /\ DoneFinal'
      BY <1>1 DEF KCore, CollectKeys, KeyProgress, LoopCovers, DoneFinal,
                  KeyPCs
    <2>3. Upgraded' /\ DataNeverLost' /\ DoneMeansUpgraded'
      BY <1>1 DEF KCore, Upgraded, DataNeverLost, DoneMeansUpgraded,
                  CollectKeys, ViewVars
    <2>4. Within'
      BY <1>1 DEF KCore, Within, CollectKeys, ViewVars, KeyPCs
    <2>5. V1Mount' /\ FlagCovers'
      BY <1>1, GoroutineFrame DEF CollectKeys, SecVars, ViewVars
    <2>6. QED
      BY <2>1, <2>2, <2>3, <2>4, <2>5 DEF KCore
  <1>2. CASE Fail
    BY <1>2, FailStep DEF CollectKeys
  <1>3. QED
    BY <1>1, <1>2 DEF CollectKeys

\* NextKey takes a key that is still to do.
LEMMA NextKeyStep == KCore /\ NextKey => KCore'
  <1> SUFFICES ASSUME KCore, NextKey PROVE KCore'
    OBVIOUS
  <1>1. PICK k \in todo : cur' = k /\ todo' = todo \ {k} /\ pc' = "k_read"
    BY DEF NextKey
  <1>2. TypeOK'
    <2>1. k \in Keys /\ todo \ {k} \subseteq Keys
      BY DEF KCore, TypeOK
    <2>2. "k_read" \in PCs
      BY DEF PCs, KeyPCs
    <2>3. QED
      BY <1>1, <2>1, <2>2 DEF KCore, TypeOK, NextKey, SecVars, Fixed, ViewVars
  <1>3. KeyProgress'
    BY <1>1 DEF KCore, TypeOK, KeyProgress, KeyPCs
  <1>4. LoopCovers'
    <2>1. old \subseteq todo
      BY DEF KCore, LoopCovers, NextKey
    <2>2. QED
      BY <1>1, <2>1 DEF NextKey, LoopCovers, KeyPCs
  <1>5. Upgraded' /\ DataNeverLost' /\ DoneMeansUpgraded'
    BY DEF KCore, NextKey, Upgraded, DataNeverLost, DoneMeansUpgraded, ViewVars
  <1>6. DoneFinal'
    BY <1>1 DEF KCore, DoneFinal, NextKey
  <1>7. Within'
    BY <1>1 DEF KCore, Within, NextKey, ViewVars
  <1>8. V1Mount' /\ FlagCovers'
    BY <1>1, GoroutineFrame DEF NextKey, SecVars, ViewVars
  <1>9. QED
    BY <1>2, <1>3, <1>4, <1>5, <1>6, <1>7, <1>8 DEF KCore

\* The key steps.  Each carries out one storage operation or ends the
\* goroutine; the error case is FailStep.
LEMMA KeyReadStep == KCore /\ KeyRead => KCore'
  <1> SUFFICES ASSUME KCore, KeyRead PROVE KCore'
    OBVIOUS
  <1>1. CASE /\ pc' = "k_put"
             /\ txn' = IF transactional THEN BeginTx ELSE txn
             /\ UNCHANGED <<upgrading, todo, cur, old, ver, meta, canary>>
    <2>1. TypeOK'
      <3>1. "k_put" \in PCs
        BY DEF PCs, KeyPCs
      <3>2. txn' \in [ver : BOOLEAN, del : BOOLEAN, ro : BOOLEAN]
        BY <1>1, TxnType DEF KCore, TypeOK
      <3>3. QED
        BY <1>1, <3>1, <3>2 DEF KCore, TypeOK, KeyRead, SecVars, Fixed, ViewVars
    <2>2. KeyProgress' /\ LoopCovers' /\ DoneFinal'
      BY <1>1 DEF KCore, KeyRead, KeyProgress, LoopCovers, DoneFinal, KeyPCs
    <2>3. Upgraded' /\ DataNeverLost' /\ DoneMeansUpgraded'
      BY <1>1 DEF KCore, Upgraded, DataNeverLost, DoneMeansUpgraded, KeyRead,
                  ViewVars
    <2>4. Within'
      BY <1>1 DEF KCore, Within, KeyRead, ViewVars, KeyPCs
    <2>5. V1Mount' /\ FlagCovers'
      BY <1>1, GoroutineFrame DEF KeyRead, SecVars, ViewVars
    <2>6. QED
      BY <2>1, <2>2, <2>3, <2>4, <2>5 DEF KCore
  <1>2. CASE Fail
    BY <1>2, FailStep DEF KeyRead
  <1>3. QED
    BY <1>1, <1>2 DEF KeyRead

\* The version goes into the transaction, or straight to storage.
LEMMA KeyPutStep == KCore /\ KeyPut => KCore'
  <1> SUFFICES ASSUME KCore, KeyPut PROVE KCore'
    OBVIOUS
  <1>1. CASE /\ pc' = "k_meta"
             /\ IF transactional
                  THEN txn' = [txn EXCEPT !.ver = TRUE] /\ UNCHANGED ver
                  ELSE ver' = ver \cup {cur} /\ UNCHANGED txn
             /\ UNCHANGED <<upgrading, todo, cur, old, meta, canary>>
    <2>1. cur \in Keys /\ cur \in stored
      BY DEF KCore, KeyProgress, Within, KeyPut, KeyPCs
    <2>2. TypeOK'
      <3>1. "k_meta" \in PCs /\ ver \cup {cur} \subseteq Keys
        BY <2>1 DEF KCore, TypeOK, PCs, KeyPCs
      <3>2. txn' \in [ver : BOOLEAN, del : BOOLEAN, ro : BOOLEAN] /\ ver' \subseteq Keys
        <4>1. CASE transactional
          <5>1. [txn EXCEPT !.ver = TRUE] \in [ver : BOOLEAN, del : BOOLEAN, ro : BOOLEAN]
            BY TxnType DEF KCore, TypeOK
          <5>2. txn' = [txn EXCEPT !.ver = TRUE] /\ ver' = ver
            BY <1>1, <4>1
          <5>3. QED
            BY <5>1, <5>2 DEF KCore, TypeOK
        <4>2. CASE ~transactional
          BY <1>1, <3>1, <4>2 DEF KCore, TypeOK
        <4>3. QED
          BY <4>1, <4>2
      <3>3. QED
        BY <1>1, <3>1, <3>2 DEF KCore, TypeOK, KeyPut, SecVars, Fixed, ViewVars
    <2>3. KeyProgress'
      <3>1. CASE transactional
        BY <1>1, <2>1, <3>1 DEF KCore, TypeOK, KeyProgress, KeyPCs, KeyPut, Fixed
      <3>2. CASE ~transactional
        BY <1>1, <2>1, <3>2 DEF KeyProgress, KeyPCs, KeyPut, Fixed
      <3>3. QED
        BY <3>1, <3>2
    <2>4. LoopCovers' /\ DoneFinal'
      BY <1>1 DEF KCore, KeyPut, LoopCovers, DoneFinal, KeyPCs
    <2>5. Upgraded' /\ DataNeverLost' /\ DoneMeansUpgraded'
      BY <1>1, <2>1 DEF KCore, KeyPut, Upgraded, DataNeverLost,
                        DoneMeansUpgraded, DoneFinal, ViewVars
    <2>6. Within'
      BY <1>1, <2>1 DEF KCore, Within, KeyPut, ViewVars, KeyPCs
    <2>7. V1Mount' /\ FlagCovers'
      BY <1>1, GoroutineFrame DEF KeyPut, SecVars, ViewVars
    <2>8. QED
      BY <2>2, <2>3, <2>4, <2>5, <2>6, <2>7 DEF KCore
  <1>2. CASE Fail
    BY <1>2, FailStep DEF KeyPut
  <1>3. QED
    BY <1>1, <1>2 DEF KeyPut

\* The metadata goes straight to storage.
LEMMA KeyMetaStep == KCore /\ KeyMeta => KCore'
  <1> SUFFICES ASSUME KCore, KeyMeta PROVE KCore'
    OBVIOUS
  <1>1. CASE /\ pc' = "k_del"
             /\ meta' = meta \cup {cur}
             /\ UNCHANGED <<upgrading, todo, cur, txn, old, ver, canary>>
    <2>1. cur \in Keys /\ cur \in stored
      BY DEF KCore, KeyProgress, Within, KeyMeta, KeyPCs
    <2>2. TypeOK'
      <3>1. "k_del" \in PCs /\ meta \cup {cur} \subseteq Keys
        BY <2>1 DEF KCore, TypeOK, PCs, KeyPCs
      <3>2. QED
        BY <1>1, <3>1 DEF KCore, TypeOK, KeyMeta, SecVars, Fixed, ViewVars
    <2>3. KeyProgress' /\ LoopCovers' /\ DoneFinal'
      BY <1>1, <2>1 DEF KCore, KeyMeta, KeyProgress, LoopCovers, DoneFinal, Fixed,
                        KeyPCs
    <2>4. Upgraded' /\ DataNeverLost' /\ DoneMeansUpgraded'
      BY <1>1 DEF KCore, KeyMeta, Upgraded, DataNeverLost, DoneMeansUpgraded,
                  DoneFinal, ViewVars
    <2>5. Within'
      BY <1>1, <2>1 DEF KCore, Within, KeyMeta, ViewVars, KeyPCs
    <2>6. V1Mount' /\ FlagCovers'
      BY <1>1, GoroutineFrame DEF KeyMeta, SecVars, ViewVars
    <2>7. QED
      BY <2>2, <2>3, <2>4, <2>5, <2>6 DEF KCore
  <1>2. CASE Fail
    BY <1>2, FailStep DEF KeyMeta
  <1>3. QED
    BY <1>1, <1>2 DEF KeyMeta

\* With a transaction the delete is only buffered.
LEMMA KeyDeleteTxn ==
  ASSUME KCore, KeyDelete, transactional,
         pc' = "k_commit", txn' = [txn EXCEPT !.del = TRUE],
         UNCHANGED <<upgrading, todo, cur, old, ver, meta, canary>>
  PROVE  KCore'
  <1>1. cur \in Keys /\ txn.ver
    BY DEF KCore, KeyProgress, KeyDelete, KeyPCs
  <1>2. TypeOK'
    <2>1. "k_commit" \in PCs
      BY DEF PCs, KeyPCs
    <2>2. QED
      BY <2>1, TxnType DEF KCore, TypeOK, KeyDelete, SecVars, Fixed, ViewVars
  <1>3. KeyProgress'
    <2>1. txn'.ver /\ txn'.del
      BY <1>1 DEF KCore, TypeOK
    <2>2. cur \in meta
      BY DEF KCore, KeyProgress, KeyDelete
    <2>3. QED
      BY <1>1, <2>1, <2>2 DEF KeyProgress, KeyPCs, KeyDelete, Fixed
  <1>4. LoopCovers' /\ DoneFinal'
    BY DEF KCore, KeyDelete, LoopCovers, DoneFinal, KeyPCs
  <1>5. Upgraded' /\ DataNeverLost' /\ DoneMeansUpgraded'
    BY DEF KCore, Upgraded, DataNeverLost, DoneMeansUpgraded, KeyDelete, ViewVars
  <1>6. Within'
    BY DEF KCore, Within, KeyDelete, ViewVars, KeyPCs
  <1>7. V1Mount' /\ FlagCovers'
    BY GoroutineFrame DEF KeyDelete, SecVars, ViewVars
  <1>8. QED
    BY <1>2, <1>3, <1>4, <1>5, <1>6, <1>7 DEF KCore

\* Without a transaction the delete comes after the version and the
\* metadata were written.
LEMMA KeyDeletePlain ==
  ASSUME KCore, KeyDelete, ~transactional,
         pc' = "loop", old' = old \ {cur}, cur' = NoKey,
         UNCHANGED <<upgrading, todo, txn, ver, meta, canary>>
  PROVE  KCore'
  <1>1. /\ cur \in Keys
        /\ cur \in ver
        /\ cur \in meta
        /\ old \subseteq todo \cup {cur}
    BY DEF KCore, KeyProgress, LoopCovers, KeyDelete, KeyPCs
  <1>2. TypeOK'
    <2>1. "loop" \in PCs /\ old \ {cur} \subseteq Keys
      BY DEF KCore, TypeOK, PCs
    <2>2. QED
      BY <2>1 DEF KCore, TypeOK, KeyDelete, SecVars, Fixed, ViewVars
  <1>3. KeyProgress' /\ LoopCovers' /\ DoneFinal'
    BY <1>1 DEF KCore, KeyDelete, KeyProgress, LoopCovers, DoneFinal, KeyPCs
  <1>4. Upgraded'
    BY <1>1 DEF KCore, Upgraded, KeyDelete, ViewVars
  <1>5. DataNeverLost'
    BY <1>1 DEF KCore, DataNeverLost, KeyDelete, ViewVars
  <1>6. DoneMeansUpgraded'
    BY DEF KCore, KeyDelete, DoneMeansUpgraded, DoneFinal
  <1>7. Within'
    BY DEF KCore, Within, KeyDelete, ViewVars, KeyPCs
  <1>8. V1Mount' /\ FlagCovers'
    BY GoroutineFrame DEF KeyDelete, SecVars, ViewVars
  <1>9. QED
    BY <1>2, <1>3, <1>4, <1>5, <1>6, <1>7, <1>8 DEF KCore

LEMMA KeyDeleteStep == KCore /\ KeyDelete => KCore'
  <1> SUFFICES ASSUME KCore, KeyDelete PROVE KCore'
    OBVIOUS
  <1>1. CASE Fail
    BY <1>1, FailStep DEF KeyDelete
  <1>2. CASE ~Fail
    <2>1. PICK r \in WriteResults(KeyWritable) : r = "ok"
      BY <1>2 DEF KeyDelete
    <2>2. CASE transactional
      BY <1>2, <2>2, KeyDeleteTxn DEF KeyDelete
    <2>3. CASE ~transactional
      BY <1>2, <2>3, KeyDeletePlain DEF KeyDelete
    <2>4. QED
      BY <2>2, <2>3
  <1>3. QED
    BY <1>1, <1>2

\* The commit applies the buffered version and delete together; the
\* metadata was written before it.
LEMMA KeyCommitStep == KCore /\ KeyCommit => KCore'
  <1> SUFFICES ASSUME KCore, KeyCommit PROVE KCore'
    OBVIOUS
  <1>1. CASE /\ pc' = "loop"
             /\ ver' = IF txn.ver THEN ver \cup {cur} ELSE ver
             /\ old' = IF txn.del THEN old \ {cur} ELSE old
             /\ txn' = NoTxn
             /\ cur' = NoKey
             /\ UNCHANGED <<upgrading, todo, meta, canary>>
    <2>1. /\ txn.ver
          /\ txn.del
          /\ cur \in Keys
          /\ cur \in stored
          /\ cur \in meta
          /\ old \subseteq todo \cup {cur}
      BY DEF KCore, KeyProgress, LoopCovers, Within, KeyCommit, KeyPCs
    <2>2. ver' = ver \cup {cur} /\ old' = old \ {cur}
      BY <1>1, <2>1
    <2>3. TypeOK'
      <3>1. "loop" \in PCs /\ ver \cup {cur} \subseteq Keys
            /\ old \ {cur} \subseteq Keys
        BY <2>1 DEF KCore, TypeOK, PCs
      <3>2. QED
        BY <1>1, <2>2, <3>1, TxnType DEF KCore, TypeOK, KeyCommit, SecVars,
                                         Fixed, ViewVars
    <2>4. KeyProgress' /\ LoopCovers' /\ DoneFinal'
      BY <1>1, <2>1, <2>2 DEF KCore, KeyCommit, KeyProgress, LoopCovers,
                              DoneFinal, KeyPCs
    <2>5. Upgraded' /\ DataNeverLost'
      BY <1>1, <2>1, <2>2 DEF KCore, Upgraded, DataNeverLost, KeyCommit,
                              ViewVars
    <2>6. DoneMeansUpgraded'
      BY <1>1 DEF KCore, KeyCommit, DoneMeansUpgraded, DoneFinal
    <2>7. Within'
      BY <1>1, <2>1, <2>2 DEF KCore, Within, KeyCommit, ViewVars, KeyPCs
    <2>8. V1Mount' /\ FlagCovers'
      BY <1>1, GoroutineFrame DEF KeyCommit, SecVars, ViewVars
    <2>9. QED
      BY <2>3, <2>4, <2>5, <2>6, <2>7, <2>8 DEF KCore
  <1>2. CASE Fail
    BY <1>2, FailStep DEF KeyCommit
  <1>3. QED
    BY <1>1, <1>2 DEF KeyCommit

\* At the end of the loop no old entry is left, so every stored key has
\* its version and metadata when the done canary is written and when the
\* flag is cleared.
LEMMA FinishStep == KCore /\ Finish => KCore'
  <1> SUFFICES ASSUME KCore, Finish PROVE KCore'
    OBVIOUS
  <1>1. old = {}
    BY DEF Finish, KCore, LoopCovers
  <1>2. ver = stored /\ meta = stored
    BY <1>1 DEF KCore, Upgraded, Within
  <1>3. canary' \in {"none", "started", "done"}
    BY DEF Finish, KCore, TypeOK
  <1>4. TypeOK'
    <2>1. "idle" \in PCs
      BY DEF PCs
    <2>2. QED
      BY <1>3, <2>1 DEF Finish, KCore, TypeOK, SecVars, Fixed, ViewVars
  <1>5. KeyProgress' /\ LoopCovers' /\ DoneFinal'
    BY DEF Finish, KeyProgress, LoopCovers, DoneFinal, KeyPCs
  <1>6. Upgraded' /\ DataNeverLost' /\ DoneMeansUpgraded'
    BY <1>1, <1>2 DEF Finish, Upgraded, DataNeverLost, DoneMeansUpgraded,
                      ViewVars
  <1>7. Within'
    BY DEF KCore, Within, Finish, ViewVars, KeyPCs
  <1>8. called /\ version = 2
    BY DEF KCore, TypeOK, FlagCovers, V1Mount, Finish
  <1>9. V1Mount' /\ FlagCovers'
    BY <1>1, <1>8 DEF Finish, V1Mount, FlagCovers, SecVars, ViewVars
  <1>10. QED
    BY <1>4, <1>5, <1>6, <1>7, <1>9 DEF KCore

\* A crash loses the goroutine and the open transaction, not storage, and
\* leaves the view read-only until the mount is set up again.
LEMMA CrashStep == KCore /\ Crash => KCore'
  <1> SUFFICES ASSUME KCore, Crash PROVE KCore'
    OBVIOUS
  <1>1. TypeOK'
    <2>1. crashes + 1 \in 0..MaxCrashes
      BY KVAssumption DEF Crash, KCore, TypeOK
    <2>2. "idle" \in PCs /\ NoTxn \in [ver : BOOLEAN, del : BOOLEAN, ro : BOOLEAN]
      BY DEF PCs, NoTxn
    <2>3. QED
      BY <2>1, <2>2 DEF Crash, KCore, TypeOK, Fixed
  <1>2. KeyProgress' /\ LoopCovers' /\ DoneFinal'
    BY DEF Crash, KeyProgress, LoopCovers, DoneFinal, KeyPCs
  <1>3. Upgraded' /\ DataNeverLost' /\ DoneMeansUpgraded'
    BY DEF Crash, KCore, Upgraded, DataNeverLost, DoneMeansUpgraded
  <1>4. Within'
    BY DEF Crash, KCore, Within, KeyPCs
  <1>5. V1Mount' /\ FlagCovers'
    BY DEF Crash, KCore, V1Mount, FlagCovers, GateOpen
  <1>6. QED
    BY <1>1, <1>2, <1>3, <1>4, <1>5 DEF KCore

\* The secondary's steps leave the primary and storage alone; on a v1
\* mount the secondary has not started.
LEMMA SecondaryStep == KCore /\ (SecUpgrade \/ SecPoll \/ SecCancel) => KCore'
  <1> SUFFICES ASSUME KCore, SecUpgrade \/ SecPoll \/ SecCancel PROVE KCore'
    OBVIOUS
  <1>1. TypeOK'
    <2>1. CASE SecUpgrade
      BY <2>1 DEF SecUpgrade, KCore, TypeOK, Fixed, ViewVars
    <2>2. CASE SecPoll
      BY <2>2 DEF SecPoll, KCore, TypeOK, Fixed, ViewVars
    <2>3. CASE SecCancel
      BY <2>3 DEF SecCancel, KCore, TypeOK, Fixed, ViewVars
    <2>4. QED
      BY <2>1, <2>2, <2>3
  <1>2. KeyProgress' /\ LoopCovers' /\ DoneFinal'
    BY DEF SecUpgrade, SecPoll, SecCancel, KCore, KeyProgress, LoopCovers,
           DoneFinal, Fixed
  <1>3. Upgraded' /\ DataNeverLost' /\ DoneMeansUpgraded'
    BY DEF SecUpgrade, SecPoll, SecCancel, KCore, Upgraded, DataNeverLost,
           DoneMeansUpgraded, ViewVars
  <1>4. Within'
    BY DEF SecUpgrade, SecPoll, SecCancel, KCore, Within, ViewVars
  <1>5. V1Mount' /\ FlagCovers'
    BY DEF SecUpgrade, SecPoll, SecCancel, KCore, V1Mount, FlagCovers,
           GateOpen, UpgradeDone, ViewVars
  <1>6. QED
    BY <1>1, <1>2, <1>3, <1>4, <1>5 DEF KCore

-----------------------------------------------------------------------------
(* The mount's steps.                                                      *)

\* On a v1 mount the old entries are exactly the stored keys, so a write
\* or a delete of the passthrough backend keeps every invariant.
LEMMA PassStep == KCore /\ (PassWrite \/ PassDelete) => KCore'
  <1> SUFFICES ASSUME KCore, PassWrite \/ PassDelete PROVE KCore'
    OBVIOUS
  <1>1. version = 1 /\ old = stored /\ ver = {} /\ meta = {} /\ pc = "idle"
        /\ todo = {} /\ canary = "none" /\ upgrading = 0 /\ ~called
        /\ spc = "idle" /\ supgrading = 0
    BY DEF KCore, V1Mount, PassWrite, PassDelete
  <1>2. old' = stored' /\ old' \subseteq Keys
        /\ UNCHANGED <<upgrading, pc, todo, cur, txn, ver, meta, canary,
                       crashes, SecVars, Fixed, version, ro>>
    BY <1>1 DEF KCore, TypeOK, PassWrite, PassDelete
  <1>3. TypeOK'
    BY <1>2 DEF KCore, TypeOK, SecVars, Fixed
  <1>4. KeyProgress' /\ LoopCovers' /\ DoneFinal'
    BY <1>1, <1>2 DEF KeyProgress, LoopCovers, DoneFinal, KeyPCs
  <1>5. Upgraded' /\ DataNeverLost' /\ DoneMeansUpgraded'
    BY <1>1, <1>2 DEF Upgraded, DataNeverLost, DoneMeansUpgraded
  <1>6. Within' /\ V1Mount' /\ FlagCovers'
    BY <1>1, <1>2 DEF KCore, Within, V1Mount, FlagCovers, GateOpen, SecVars,
                      KeyPCs
  <1>7. QED
    BY <1>3, <1>4, <1>5, <1>6 DEF KCore

\* The tune and the end of the setup change only the mount's version and
\* its view; the setup ends only once Upgrade was called or the canary
\* found done.
LEMMA SetupStep == KCore /\ (Tune \/ SetupDone) => KCore'
  <1> SUFFICES ASSUME KCore, Tune \/ SetupDone PROVE KCore'
    OBVIOUS
  <1>1. TypeOK'
    BY DEF Tune, SetupDone, KCore, TypeOK, SecVars, Fixed
  <1>2. KeyProgress' /\ LoopCovers' /\ DoneFinal'
    BY DEF Tune, SetupDone, KCore, KeyProgress, LoopCovers, DoneFinal,
           SecVars, Fixed
  <1>3. Upgraded' /\ DataNeverLost' /\ DoneMeansUpgraded'
    BY DEF Tune, SetupDone, KCore, Upgraded, DataNeverLost, DoneMeansUpgraded
  <1>4. Within'
    BY DEF Tune, SetupDone, KCore, Within
  <1>5. V1Mount' /\ FlagCovers'
    BY DEF Tune, SetupDone, KCore, V1Mount, FlagCovers, GateOpen, UpgradeDone,
           SecVars
  <1>6. QED
    BY <1>1, <1>2, <1>3, <1>4, <1>5 DEF KCore

-----------------------------------------------------------------------------
(* KCore is inductive.                                                     *)
LEMMA NextKCore == KCore /\ [Next]_vars => KCore'
  <1> SUFFICES ASSUME KCore, [Next]_vars PROVE KCore'
    OBVIOUS
  <1>1. CASE UNCHANGED vars
    BY <1>1 DEF vars, KCore, TypeOK, KeyProgress, LoopCovers, Upgraded,
                DataNeverLost, DoneMeansUpgraded, DoneFinal, Within, V1Mount,
                FlagCovers, GateOpen, UpgradeDone
  <1>2. QED
    BY <1>1, PassStep, SetupStep, UpgradeStep, WriteCanaryStep,
       CollectKeysStep, NextKeyStep, KeyReadStep, KeyPutStep, KeyMetaStep,
       KeyDeleteStep, KeyCommitStep, FinishStep, CrashStep, SecondaryStep
       DEF Next, Mount, Worker

-----------------------------------------------------------------------------
(* The read-only view.  The goroutine runs only after the canary write got *)
(* through the view, no step but a crash makes the view read-only again,  *)
(* and a crash ends the goroutine; a transaction begun while the view is  *)
(* writable copies no read-only error.                                   *)

RO == TxnScoped /\ WritesNotReadOnly

LEMMA InitRO == Init => RO
  BY DEF Init, RO, TxnScoped, WritesNotReadOnly, KeyPCs

\* Steps that start from the idle goroutine and leave it idle or waiting
\* for the canary: no transaction is open before or after.
LEMMA IdleRO ==
  ASSUME KCore, RO, pc = "idle", pc' \in {"idle", "canary"},
         txn' = txn, transactional' = transactional
  PROVE  RO'
  <1>1. txn = NoTxn
    BY DEF RO, TxnScoped, KeyPCs
  <1>2. QED
    BY <1>1 DEF RO, TxnScoped, WritesNotReadOnly, KeyPCs

\* A step that leaves the goroutine's place, the storage kind, the view's
\* read-only error and the transaction alone keeps RO.
LEMMA FrameRO ==
  ASSUME RO, UNCHANGED <<pc, transactional, ro, txn>>
  PROVE  RO'
  BY DEF RO, TxnScoped, WritesNotReadOnly, ViewWritable, TxnWritable

\* Fail ends the goroutine and drops the transaction.
LEMMA FailRO == Fail /\ transactional' = transactional => RO'
  BY DEF Fail, RO, TxnScoped, WritesNotReadOnly, KeyPCs

LEMMA NextRO == KCore /\ RO /\ [Next]_vars => RO'
  <1> SUFFICES ASSUME KCore, RO, [Next]_vars PROVE RO'
    OBVIOUS
  <1>1. CASE UNCHANGED vars
    BY <1>1, FrameRO DEF vars
  <1>2. CASE PassWrite \/ PassDelete \/ Tune
    <2>1. pc = "idle"
      BY <1>2 DEF KCore, V1Mount, PassWrite, PassDelete, Tune
    <2>2. QED
      BY <1>2, <2>1, IdleRO DEF PassWrite, PassDelete, Tune, Fixed
  <1>3. CASE SetupDone
    BY <1>3 DEF SetupDone, Fixed, RO, TxnScoped, WritesNotReadOnly,
                ViewWritable, TxnWritable
  <1>4. CASE Upgrade
    <2>1. pc = "idle"
      BY <1>4 DEF KCore, FlagCovers, Upgrade
    <2>2. QED
      BY <1>4, <2>1, IdleRO DEF Upgrade, Fixed
  <1>5. CASE SecUpgrade \/ SecPoll \/ SecCancel
    BY <1>5, FrameRO DEF SecUpgrade, SecPoll, SecCancel, Fixed, ViewVars
  <1>6. CASE Crash
    BY <1>6 DEF Crash, Fixed, RO, TxnScoped, WritesNotReadOnly, KeyPCs
  <1>7. CASE Worker
    <2> USE DEF Fixed, ViewVars
    <2>1. CASE WriteCanary
      <3>1. txn = NoTxn /\ ~NoTxn.ro
        BY <2>1 DEF WriteCanary, RO, TxnScoped, KeyPCs, NoTxn
      <3>2. QED
        BY <2>1, <3>1, FailRO DEF WriteCanary, RO, TxnScoped,
           WritesNotReadOnly, ViewWritable, TxnWritable, KeyPCs
    <2>2. CASE CollectKeys \/ NextKey
      BY <2>2, FailRO DEF CollectKeys, NextKey, RO, TxnScoped,
         WritesNotReadOnly, ViewWritable, TxnWritable, KeyPCs
    <2>3. CASE KeyRead
      <3>1. ~ro /\ ~BeginTx.ro
        BY <2>3 DEF KeyRead, RO, WritesNotReadOnly, ViewWritable, KeyPCs,
                    BeginTx
      <3>2. QED
        BY <2>3, <3>1, FailRO DEF KeyRead, RO, TxnScoped, WritesNotReadOnly,
           ViewWritable, TxnWritable, KeyPCs
    <2>4. CASE KeyPut \/ KeyDelete
      <3>1. txn \in [ver : BOOLEAN, del : BOOLEAN, ro : BOOLEAN]
        BY DEF KCore, TypeOK
      <3>2. /\ [txn EXCEPT !.ver = TRUE].ro = txn.ro
            /\ [txn EXCEPT !.del = TRUE].ro = txn.ro
        BY <3>1
      <3>3. CASE KeyPut
        BY <3>2, <3>3, FailRO DEF KeyPut, RO, TxnScoped, WritesNotReadOnly,
           ViewWritable, TxnWritable, KeyPCs
      <3>4. CASE KeyDelete
        BY <3>2, <3>4, FailRO DEF KeyDelete, RO, TxnScoped, WritesNotReadOnly,
           ViewWritable, TxnWritable, KeyPCs
      <3>5. QED
        BY <2>4, <3>3, <3>4
    <2>5. CASE KeyMeta \/ KeyCommit
      <3>1. ~NoTxn.ro
        BY DEF NoTxn
      <3>2. QED
        BY <2>5, <3>1, FailRO DEF KeyMeta, KeyCommit, RO, TxnScoped,
           WritesNotReadOnly, ViewWritable, TxnWritable, KeyPCs
    <2>6. CASE Finish
      BY <2>6 DEF Finish, RO, TxnScoped, WritesNotReadOnly, KeyPCs
    <2>7. QED
      BY <1>7, <2>1, <2>2, <2>3, <2>4, <2>5, <2>6 DEF Worker
  <1>8. QED
    BY <1>1, <1>2, <1>3, <1>4, <1>5, <1>6, <1>7 DEF Next, Mount

-----------------------------------------------------------------------------
(* KInv is inductive.                                                      *)
LEMMA InitKInv == Init => KInv
  BY InitKCore, InitRO DEF KInv, KCore, RO

LEMMA NextKInv == KInv /\ [Next]_vars => KInv'
  BY NextKCore, NextRO DEF KInv, KCore, RO

\* Through upgradeCheck a request sees no old entry: either this start of
\* the backend called Upgrade and its goroutine has cleared the flag, which
\* it does only after the last key, or the canary was already done.
LEMMA KInvServed == KInv => ServedSeesUpgraded
  <1> SUFFICES ASSUME KInv, GateOpen
               PROVE  old = {} /\ stored \subseteq ver \cap meta
    BY DEF ServedSeesUpgraded
  <1>1. old = {}
    BY DEF KInv, FlagCovers, GateOpen, DoneMeansUpgraded, UpgradeDone
  <1>2. QED
    BY <1>1 DEF KInv, Upgraded

\* The upgrade of upgrade.go, on any storage and under any storage errors
\* and crashes, after any v1 history of the mount, keeps KInv in every
\* state.
THEOREM KVSafety == Spec => []KInv
  BY InitKInv, NextKInv, PTL DEF Spec

\* No stored key's data is lost by upgradeKey, whichever storage operation
\* fails and wherever the process crashes.
THEOREM DataSafe == Spec => []DataNeverLost
  BY KVSafety, PTL DEF KInv

\* The done canary, which releases the secondaries, is written only once
\* every stored key has its version and metadata and no old entry is left.
THEOREM DoneSafe == Spec => []DoneMeansUpgraded
  BY KVSafety, PTL DEF KInv

\* upgradeCheck lets a request through to the primary's versioned handlers
\* only when every stored key is upgraded, also after an error ended the
\* upgrade goroutine.
THEOREM ServedSafe == Spec => []ServedSeesUpgraded
  BY KVSafety, KInvServed, PTL

\* Once the upgrade goroutine has written its canary, none of its writes,
\* direct or through a transaction, is refused with the read-only error of
\* a mount's setup (READONLY_LOOP, view.Put and viewTransaction.Commit).
THEOREM WritesSafe == Spec => []WritesNotReadOnly
  BY KVSafety, PTL DEF KInv

\* Every reachable state of the KV upgrade has the types TypeOK gives the
\* upgrade's flags and cursor, the stored key sets, the crash count and
\* the serving goroutine.
THEOREM KVTypeSafe == Spec => []TypeOK
  BY KVSafety, PTL DEF KInv

=============================================================================

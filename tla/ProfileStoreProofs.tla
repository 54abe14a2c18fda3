------------------------- MODULE ProfileStoreProofs -------------------------
(***************************************************************************)
(* Proofs about ProfileStore, for every number of goroutines and paths,   *)
(* every set of cas values and every bound on dispatched requests,         *)
(* whether or not profiles call back into the store.                       *)
(***************************************************************************)
EXTENDS ProfileStore, TLAPS

\* The local state of a goroutine outside any call is well typed.
LEMMA IdleLocalsType == IdleLocals \in Locals
  BY StoreAssumption DEF IdleLocals, Locals

-----------------------------------------------------------------------------
(* The initial state satisfies the inductive invariant: no lock is held,   *)
(* every goroutine is idle and the store is empty.                         *)
THEOREM InitIInv == Init => IInv
  <1> SUFFICES ASSUME Init PROVE IInv
    OBVIOUS
  <1>1. TypeOK
    BY IdleLocalsType DEF Init, TypeOK, PCs
  <1>2. LockShape /\ WriterPlace
    BY StoreAssumption DEF Init, LockShape, WriterPlace, WriterPCs, LockPCs
  <1>3. ReaderCount
    <2> SUFFICES ASSUME NEW t \in Threads
                 PROVE  /\ rcount[t] = (IF pc[t] \in {"get_read", "exe_load"}
                                           \/ Evaluating(t) THEN 1 ELSE 0)
                                       + (IF pc[t] = "nget_read" THEN 1 ELSE 0)
                        /\ Evaluating(t) => pc[t] \in EvalPCs
                        /\ pc[t] \in {"exe_run", "nget_rlock", "nget_read"}
                             => Evaluating(t)
      BY DEF ReaderCount
    <2>1. rcount[t] = 0 /\ pc[t] = "idle"
      BY DEF Init
    <2>2. ~Evaluating(t)
      BY StoreAssumption DEF Init, Evaluating, IdleLocals
    <2>3. QED
      BY <2>1, <2>2
  <1>4. ExecuteSeesStableProfile /\ CasCheckFresh
    BY DEF Init, ExecuteSeesStableProfile, CasCheckFresh, Evaluating,
           IdleLocals
  <1>5. QED
    BY <1>1, <1>2, <1>3, <1>4 DEF IInv

-----------------------------------------------------------------------------
(* A goroutine in a write-locked section of Set or Delete excludes every   *)
(* reader: no goroutine holds a read lock, none is evaluating a profile    *)
(* (an evaluation holds a read lock), and the readers asleep behind the    *)
(* writer are client Gets and Executes, never a profile's nested Get.      *)
LEMMA WriterExclusive ==
  ASSUME IInv, NEW t \in Threads, pc[t] \in WriterPCs
  PROVE  /\ writer = t
         /\ wstate = "held"
         /\ \A u \in Threads : rcount[u] = 0 /\ ~Evaluating(u)
         /\ \A u \in Threads \ {t} : pc[u] \notin WriterPCs
         /\ \A u \in rblocked : pc[u] \in {"get_rlock", "exe_rlock"}
  <1>1. writer = t /\ wstate = "held"
    BY DEF IInv, WriterPlace
  <1>2. \A u \in Threads : rcount[u] = 0
    BY <1>1 DEF IInv, LockShape, ReadersDrained
  <1>3. \A u \in Threads : ~Evaluating(u)
    <2> SUFFICES ASSUME NEW u \in Threads, Evaluating(u) PROVE FALSE
      OBVIOUS
    <2>1. rcount[u] = 1 + (IF pc[u] = "nget_read" THEN 1 ELSE 0)
      BY DEF IInv, ReaderCount
    <2>. QED
      BY <1>2, <2>1
  <1>4. \A u \in Threads \ {t} : pc[u] \notin WriterPCs
    BY <1>1 DEF IInv, WriterPlace
  <1>5. \A u \in rblocked : pc[u] \in {"get_rlock", "exe_rlock"}
    <2> SUFFICES ASSUME NEW u \in rblocked
                 PROVE  pc[u] \in {"get_rlock", "exe_rlock"}
      OBVIOUS
    <2>1. u \in Threads /\ pc[u] \in RLockPCs
      BY DEF IInv, TypeOK, LockShape
    <2>2. pc[u] # "nget_rlock"
      BY <1>3, <2>1 DEF IInv, ReaderCount
    <2>. QED
      BY <2>1, <2>2 DEF RLockPCs
  <1>. QED
    BY <1>1, <1>2, <1>3, <1>4, <1>5

-----------------------------------------------------------------------------
(* Every way out of a write-locked section (a failed check or panic in    *)
(* Set, Set's Put, Delete) unlocks and returns the goroutine to its        *)
(* client; whatever it wrote, the invariant is restored, because nobody    *)
(* was evaluating a profile and the readers it wakes start afresh.         *)
LEMMA UnlockIdle ==
  ASSUME IInv, NEW t \in Threads, pc[t] \in WriterPCs,
         UnlockTo(t, "idle"), loc' = [loc EXCEPT ![t] = IdleLocals],
         crashed' \in BOOLEAN, store' \in [Paths -> Entries \cup {NoEntry}]
  PROVE  IInv'
  <1>1. /\ writer = t
        /\ wstate = "held"
        /\ \A u \in Threads : rcount[u] = 0 /\ ~Evaluating(u)
        /\ \A u \in Threads \ {t} : pc[u] \notin WriterPCs
        /\ \A u \in rblocked : pc[u] \in {"get_rlock", "exe_rlock"}
    BY WriterExclusive
  <1>2. t \notin rblocked
    BY <1>1 DEF WriterPCs
  <1>3. \A u \in Threads : ~Evaluating(u)'
    BY <1>1, IdleLocalsType, StoreAssumption, NoEntryAssumption
       DEF Evaluating, IdleLocals, IInv, TypeOK
  <1>4. \A u \in Threads :
          pc'[u] = IF u = t THEN "idle"
                   ELSE IF u \in rblocked THEN AfterRLock(pc[u]) ELSE pc[u]
    BY DEF UnlockTo
  <1>5. \A u \in rblocked : AfterRLock(pc[u]) \in {"get_read", "exe_load"}
    BY <1>1 DEF AfterRLock
  <1>6. TypeOK'
    <2>1. rcount' \in [Threads -> Nat]
      BY <1>1 DEF UnlockTo
    <2>2. pc' \in [Threads -> PCs]
      BY <1>4, <1>5 DEF UnlockTo, IInv, TypeOK, PCs
    <2>3. loc' \in [Threads -> Locals]
      BY IdleLocalsType DEF IInv, TypeOK
    <2>. QED
      BY <2>1, <2>2, <2>3, StoreAssumption DEF UnlockTo, TypeOK
  <1>7. LockShape'
    BY DEF UnlockTo, LockShape
  <1>8. WriterPlace'
    <2>1. \A u \in Threads : pc'[u] \notin WriterPCs
      BY <1>1, <1>4, <1>5 DEF WriterPCs
    <2>. QED
      BY <2>1, StoreAssumption DEF UnlockTo, WriterPlace
  <1>9. ReaderCount'
    <2> SUFFICES ASSUME NEW u \in Threads
                 PROVE  /\ rcount'[u] =
                             (IF pc'[u] \in {"get_read", "exe_load"}
                                THEN 1 ELSE 0)
                             + (IF pc'[u] = "nget_read" THEN 1 ELSE 0)
                        /\ pc'[u] \notin {"exe_run", "nget_rlock", "nget_read"}
      BY <1>3 DEF ReaderCount
    <2>1. rcount'[u] = IF u \in rblocked THEN 1 ELSE 0
      BY <1>1 DEF UnlockTo
    <2>2. u # t /\ u \notin rblocked =>
            pc[u] \notin {"get_read", "exe_load", "nget_read", "exe_run",
                          "nget_rlock"}
      BY <1>1 DEF IInv, ReaderCount
    <2>. QED
      BY <1>2, <1>4, <1>5, <2>1, <2>2
  <1>10. ExecuteSeesStableProfile' /\ CasCheckFresh'
    <2>1. \A u \in Threads : pc'[u] # "set_put"
      BY <1>1, <1>4, <1>5 DEF WriterPCs
    <2>. QED
      BY <1>3, <2>1 DEF ExecuteSeesStableProfile, CasCheckFresh
  <1>. QED
    BY <1>6, <1>7, <1>8, <1>9, <1>10 DEF IInv

-----------------------------------------------------------------------------
(* ReaderCount is a statement per goroutine: it survives a step that      *)
(* leaves every other goroutine alone and puts t in a state it accepts.    *)
LEMMA RemainsReaderCount ==
  ASSUME ReaderCount, NEW t \in Threads,
         \A u \in Threads \ {t} : /\ pc'[u] = pc[u]
                                  /\ rcount'[u] = rcount[u]
                                  /\ loc'[u] = loc[u],
         rcount'[t] = (IF pc'[t] \in {"get_read", "exe_load"}
                          \/ Evaluating(t)' THEN 1 ELSE 0)
                      + (IF pc'[t] = "nget_read" THEN 1 ELSE 0),
         Evaluating(t)' => pc'[t] \in EvalPCs,
         pc'[t] \in {"exe_run", "nget_rlock", "nget_read"} => Evaluating(t)'
  PROVE  ReaderCount'
  <1> SUFFICES ASSUME NEW u \in Threads
               PROVE  /\ rcount'[u] =
                           (IF pc'[u] \in {"get_read", "exe_load"}
                               \/ Evaluating(u)' THEN 1 ELSE 0)
                           + (IF pc'[u] = "nget_read" THEN 1 ELSE 0)
                      /\ Evaluating(u)' => pc'[u] \in EvalPCs
                      /\ pc'[u] \in {"exe_run", "nget_rlock", "nget_read"}
                           => Evaluating(u)'
    BY DEF ReaderCount
  <1>1. CASE u = t
    BY <1>1
  <1>2. CASE u # t
    BY <1>2 DEF ReaderCount, Evaluating
  <1>. QED
    BY <1>1, <1>2

-----------------------------------------------------------------------------
(* A goroutine leaving Get or Execute drops its one read lock and goes     *)
(* back to its client.                                                     *)
LEMMA RUnlockIdle ==
  ASSUME IInv, NEW t \in Threads,
         pc[t] \in {"get_read", "exe_load", "exe_run"},
         RUnlockTo(t, "idle"), loc' = [loc EXCEPT ![t] = IdleLocals],
         UNCHANGED <<store, rblocked, writer, wstate, crashed>>
  PROVE  IInv'
  <1>1. rcount[t] = 1
    BY DEF IInv, ReaderCount, EvalPCs
  <1>2. t \notin rblocked /\ writer # t /\ wstate # "held"
    BY <1>1 DEF IInv, TypeOK, LockShape, WriterPlace, ReadersDrained,
                RLockPCs, LockPCs, WriterPCs
  <1>3. ~Evaluating(t)'
    BY IdleLocalsType DEF IInv, TypeOK, Evaluating, IdleLocals
  <1>4. /\ \A u \in Threads \ {t} : /\ pc'[u] = pc[u]
                                     /\ rcount'[u] = rcount[u]
                                     /\ loc'[u] = loc[u]
        /\ pc'[t] = "idle" /\ rcount'[t] = 0
    BY <1>1 DEF RUnlockTo, IInv, TypeOK
  <1>. ReaderCount
    BY DEF IInv
  <1>5. TypeOK'
    BY <1>1, <1>4, IdleLocalsType DEF RUnlockTo, IInv, TypeOK, PCs
  <1>6. LockShape'
    <2>1. \A u \in rblocked : pc'[u] = pc[u]
      BY <1>2, <1>4 DEF IInv, TypeOK
    <2>. QED
      BY <1>2, <2>1 DEF IInv, LockShape
  <1>7. WriterPlace'
    BY <1>2, <1>4 DEF IInv, WriterPlace, WriterPCs
  <1>8. ReaderCount'
    BY <1>3, <1>4, RemainsReaderCount
  <1>9. ExecuteSeesStableProfile' /\ CasCheckFresh'
    BY <1>3, <1>4 DEF IInv, ExecuteSeesStableProfile, CasCheckFresh,
                      Evaluating
  <1>. QED
    BY <1>5, <1>6, <1>7, <1>8, <1>9 DEF IInv

-----------------------------------------------------------------------------
(* A client call starts from an idle goroutine, which holds no lock and   *)
(* evaluates nothing; the call's arguments do not touch the lock.          *)
LEMMA CallStep ==
  ASSUME IInv, NEW t \in Threads,
         NEW l \in {"get_rlock", "set_lock", "del_lock", "exe_rlock"},
         NEW p \in Paths, NEW e \in Entries \cup {NoEntry},
         NEW c \in CasValues \cup {NoCas}, NEW b \in BOOLEAN,
         Call(t, l, p, e, c, b)
  PROVE  IInv'
  <1>1. ~Evaluating(t) /\ rcount[t] = 0
    BY DEF Call, IInv, ReaderCount, EvalPCs
  <1>2. t \notin rblocked /\ writer # t
    BY DEF Call, IInv, LockShape, WriterPlace, RLockPCs, LockPCs, WriterPCs
  <1>3. loc'[t] \in Locals /\ ~Evaluating(t)'
    BY IdleLocalsType, NoEntryAssumption DEF Call, IInv, TypeOK, Locals,
       Evaluating, IdleLocals
  <1>4. /\ \A u \in Threads \ {t} : /\ pc'[u] = pc[u]
                                     /\ rcount'[u] = rcount[u]
                                     /\ loc'[u] = loc[u]
        /\ pc'[t] = l /\ rcount'[t] = 0
    BY <1>1 DEF Call, IInv, TypeOK
  <1>5. TypeOK'
    BY <1>3, <1>4 DEF Call, IInv, TypeOK, PCs
  <1>6. LockShape'
    <2>1. \A u \in rblocked : pc'[u] = pc[u]
      BY <1>2, <1>4 DEF IInv, TypeOK
    <2>. QED
      BY <2>1 DEF Call, IInv, LockShape, ReadersDrained
  <1>7. WriterPlace'
    BY <1>2, <1>4 DEF Call, IInv, WriterPlace, WriterPCs
  <1>8. ReaderCount'
    <2>. ReaderCount
      BY DEF IInv
    <2>. QED
      BY <1>3, <1>4, RemainsReaderCount DEF EvalPCs
  <1>9. ExecuteSeesStableProfile' /\ CasCheckFresh'
    BY <1>3, <1>4 DEF Call, IInv, ExecuteSeesStableProfile, CasCheckFresh,
                      Evaluating
  <1>. QED
    BY <1>5, <1>6, <1>7, <1>8, <1>9 DEF IInv

-----------------------------------------------------------------------------
(* Taking the writer mutex only announces the writer: the mutex was free, *)
(* so nobody was in a write-locked section, and nobody is now.             *)
LEMMA LockStep ==
  ASSUME IInv, NEW t \in Threads, Lock(t)
  PROVE  IInv'
  <1>1. \A u \in Threads : pc[u] \notin WriterPCs
    BY StoreAssumption DEF Lock, IInv, WriterPlace
  <1>2. TypeOK'
    BY DEF Lock, IInv, TypeOK
  <1>3. LockShape'
    BY StoreAssumption DEF Lock, IInv, TypeOK, LockShape
  <1>4. WriterPlace'
    BY <1>1 DEF Lock, WriterPlace
  <1>5. ReaderCount'
    BY DEF Lock, IInv, ReaderCount, Evaluating
  <1>6. ExecuteSeesStableProfile' /\ CasCheckFresh'
    BY DEF Lock, IInv, ExecuteSeesStableProfile, CasCheckFresh, Evaluating
  <1>. QED
    BY <1>2, <1>3, <1>4, <1>5, <1>6 DEF IInv

-----------------------------------------------------------------------------
(* RLock either admits the reader, with no writer around, or puts it to   *)
(* sleep behind the writer.                                                *)
LEMMA RLockStep ==
  ASSUME IInv, NEW t \in Threads, RLock(t)
  PROVE  IInv'
  <1>1. writer # t /\ pc[t] \notin WriterPCs
    BY DEF RLock, IInv, WriterPlace, RLockPCs, LockPCs, WriterPCs
  <1>2. CASE wstate = "none"
    <2>1. writer = NoThread /\ wstate' = "none" /\ rblocked' = rblocked
      BY <1>2 DEF RLock, IInv, LockShape
    <2>2. rcount[t] = IF pc[t] = "nget_rlock" THEN 1 ELSE 0
      BY DEF RLock, IInv, ReaderCount, RLockPCs, EvalPCs
    <2>3. /\ \A u \in Threads \ {t} : /\ pc'[u] = pc[u]
                                       /\ rcount'[u] = rcount[u]
                                       /\ loc'[u] = loc[u]
          /\ pc'[t] = AfterRLock(pc[t])
          /\ pc'[t] \in {"get_read", "exe_load", "nget_read"}
          /\ rcount'[t] = rcount[t] + 1
      BY <1>2 DEF RLock, IInv, TypeOK, RLockPCs, AfterRLock
    <2>4. TypeOK'
      BY <2>2, <2>3 DEF RLock, IInv, TypeOK, PCs
    <2>5. LockShape'
      BY <2>1, <2>3 DEF RLock, IInv, TypeOK, LockShape
    <2>6. WriterPlace'
      BY <1>1, <2>1, <2>3 DEF RLock, IInv, WriterPlace, WriterPCs
    <2>7. ReaderCount'
      <3>. ReaderCount
        BY DEF IInv
      <3>1. Evaluating(t)' = Evaluating(t)
        BY DEF RLock, Evaluating
      <3>2. Evaluating(t) <=> pc[t] = "nget_rlock"
        BY DEF RLock, ReaderCount, RLockPCs, EvalPCs
      <3>3. pc[t] = "nget_rlock" <=> pc'[t] = "nget_read"
        BY <2>3 DEF RLock, RLockPCs, AfterRLock
      <3>. QED
        BY <2>2, <2>3, <3>1, <3>2, <3>3, RemainsReaderCount DEF EvalPCs
    <2>8. ExecuteSeesStableProfile' /\ CasCheckFresh'
      BY <1>1, <2>3 DEF RLock, IInv, ExecuteSeesStableProfile, CasCheckFresh,
                        Evaluating, WriterPCs
    <2>. QED
      BY <2>4, <2>5, <2>6, <2>7, <2>8 DEF IInv
  <1>3. CASE wstate # "none"
    <2>1. rblocked' = rblocked \cup {t}
          /\ UNCHANGED <<rcount, pc, store, writer, wstate, loc, crashed>>
      BY <1>3 DEF RLock
    <2>. QED
      BY <1>3, <2>1 DEF RLock, IInv, TypeOK, LockShape, WriterPlace,
         ReaderCount, ExecuteSeesStableProfile, CasCheckFresh, Evaluating,
         ReadersDrained
  <1>. QED
    BY <1>2, <1>3

-----------------------------------------------------------------------------
(* The pending writer enters its section once no reader is left; it held  *)
(* no read lock itself, so it evaluates nothing.                           *)
LEMMA LockDrainStep ==
  ASSUME IInv, NEW t \in Threads, LockDrain(t)
  PROVE  IInv'
  <1>1. pc[t] \in LockPCs
    BY DEF LockDrain, IInv, WriterPlace, WriterPCs
  <1>2. \A u \in Threads : rcount[u] = 0 /\ ~Evaluating(u)
    <2> SUFFICES ASSUME NEW u \in Threads PROVE rcount[u] = 0 /\ ~Evaluating(u)
      OBVIOUS
    <2>1. rcount[u] = 0
      BY DEF LockDrain, ReadersDrained
    <2>2. Evaluating(u) => rcount[u] >= 1
      BY DEF IInv, ReaderCount
    <2>. QED
      BY <2>1, <2>2
  <1>3. /\ \A u \in Threads \ {t} : /\ pc'[u] = pc[u]
                                     /\ rcount'[u] = rcount[u]
                                     /\ loc'[u] = loc[u]
        /\ pc'[t] = AfterLock(pc[t])
        /\ pc'[t] \in {"set_check", "del_do"}
        /\ rcount'[t] = 0
    BY <1>1, <1>2 DEF LockDrain, IInv, TypeOK, LockPCs, AfterLock
  <1>4. t \notin rblocked
    BY <1>1 DEF IInv, LockShape, RLockPCs, LockPCs
  <1>5. TypeOK'
    BY <1>3 DEF LockDrain, IInv, TypeOK, PCs
  <1>6. LockShape'
    <2>1. \A u \in rblocked : pc'[u] = pc[u]
      BY <1>3, <1>4 DEF IInv, TypeOK
    <2>. QED
      BY <1>2, <2>1 DEF LockDrain, IInv, LockShape, ReadersDrained
  <1>7. WriterPlace'
    BY <1>1, <1>3 DEF LockDrain, IInv, WriterPlace, WriterPCs, LockPCs
  <1>8. ReaderCount'
    <2>. ReaderCount
      BY DEF IInv
    <2>1. ~Evaluating(t)'
      BY <1>2 DEF LockDrain, Evaluating
    <2>. QED
      BY <1>3, <2>1, RemainsReaderCount
  <1>9. ExecuteSeesStableProfile' /\ CasCheckFresh'
    BY <1>2, <1>3 DEF LockDrain, IInv, ExecuteSeesStableProfile,
                      CasCheckFresh, Evaluating
  <1>. QED
    BY <1>5, <1>6, <1>7, <1>8, <1>9 DEF IInv

-----------------------------------------------------------------------------
(* A writer returns to its client, never to a profile: a profile being    *)
(* evaluated holds a read lock, and the writer got the lock only once the  *)
(* readers drained.                                                        *)
LEMMA WriterReturns ==
  ASSUME IInv, NEW t \in Threads, pc[t] \in WriterPCs
  PROVE  Return(t) = "idle" /\ ReturnLocals(t) = IdleLocals
  BY WriterExclusive DEF Return, ReturnLocals

(* Set's checks either pass, and it goes on to the Put with the entry it  *)
(* checked, or fail (or panic) and it unlocks.                             *)
LEMMA SetCheckStep ==
  ASSUME IInv, NEW t \in Threads, SetCheck(t)
  PROVE  IInv'
  <1>. DEFINE existing == store[loc[t].path]
              outcome == CasOutcome(existing, loc[t].entry, loc[t].cas)
  <1>1. pc[t] \in WriterPCs
    BY DEF SetCheck, WriterPCs
  <1>2. /\ writer = t
        /\ wstate = "held"
        /\ \A u \in Threads : rcount[u] = 0 /\ ~Evaluating(u)
        /\ \A u \in Threads \ {t} : pc[u] \notin WriterPCs
    BY <1>1, WriterExclusive
  <1>3. CASE outcome = "ok"
    <2>1. /\ pc' = [pc EXCEPT ![t] = "set_put"]
          /\ loc' = [loc EXCEPT ![t].snap = existing]
          /\ UNCHANGED <<store, rcount, rblocked, writer, wstate, crashed>>
      BY <1>3 DEF SetCheck
    <2>2. existing \in Entries \cup {NoEntry} /\ loc[t] \in Locals
      BY DEF IInv, TypeOK, Locals
    <2>3. loc'[t] \in Locals /\ loc'[t].xentry = loc[t].xentry
      BY <2>1, <2>2 DEF IInv, TypeOK, Locals
    <2>4. t \notin rblocked
      BY DEF SetCheck, IInv, LockShape, RLockPCs
    <2>5. TypeOK'
      BY <2>1, <2>3 DEF IInv, TypeOK, PCs
    <2>6. LockShape'
      BY <2>1, <2>4 DEF IInv, TypeOK, LockShape, ReadersDrained
    <2>7. WriterPlace'
      BY <1>2, <2>1 DEF IInv, TypeOK, WriterPlace, WriterPCs
    <2>8. ReaderCount'
      <3>. ReaderCount
        BY DEF IInv
      <3>1. \A u \in Threads \ {t} : /\ pc'[u] = pc[u]
                                      /\ rcount'[u] = rcount[u]
                                      /\ loc'[u] = loc[u]
        BY <2>1 DEF IInv, TypeOK
      <3>2. ~Evaluating(t)' /\ pc'[t] = "set_put" /\ rcount'[t] = 0
        BY <1>2, <2>1, <2>3 DEF IInv, TypeOK, Evaluating
      <3>. QED
        BY <3>1, <3>2, RemainsReaderCount
    <2>9. ExecuteSeesStableProfile'
      BY <1>2, <2>1 DEF IInv, TypeOK, ExecuteSeesStableProfile, Evaluating
    <2>10. CasCheckFresh'
      BY <1>2, <2>1, <2>2 DEF IInv, TypeOK, CasCheckFresh, WriterPCs
    <2>. QED
      BY <2>5, <2>6, <2>7, <2>8, <2>9, <2>10 DEF IInv
  <1>4. CASE outcome # "ok"
    <2>1. /\ UnlockTo(t, "idle")
          /\ loc' = [loc EXCEPT ![t] = IdleLocals]
          /\ crashed' \in BOOLEAN
          /\ store' = store
      BY <1>1, <1>4, WriterReturns DEF SetCheck
    <2>. QED
      BY <1>1, <2>1, UnlockIdle DEF IInv, TypeOK
  <1>. QED
    BY <1>3, <1>4

(* Set's Put, whether it writes or fails, and Delete end in Unlock.       *)
LEMMA SetPutStep ==
  ASSUME IInv, NEW t \in Threads, SetPut(t)
  PROVE  IInv'
  <1>1. pc[t] \in WriterPCs
    BY DEF SetPut, WriterPCs
  <1>2. loc[t].path \in Paths /\ loc[t].entry \in Entries \cup {NoEntry}
    BY DEF IInv, TypeOK, Locals
  <1>3. store' \in [Paths -> Entries \cup {NoEntry}]
    BY <1>2 DEF SetPut, IInv, TypeOK
  <1>. QED
    BY <1>1, <1>3, WriterReturns, UnlockIdle DEF SetPut, IInv, TypeOK

LEMMA DelDoStep ==
  ASSUME IInv, NEW t \in Threads, DelDo(t)
  PROVE  IInv'
  <1>1. pc[t] \in WriterPCs
    BY DEF DelDo, WriterPCs
  <1>2. loc[t].path \in Paths
    BY DEF IInv, TypeOK, Locals
  <1>3. store' \in [Paths -> Entries \cup {NoEntry}]
    BY <1>2 DEF DelDo, IInv, TypeOK
  <1>. QED
    BY <1>1, <1>3, UnlockIdle DEF DelDo, IInv, TypeOK

-----------------------------------------------------------------------------
(* A step of a reader that neither locks nor unlocks the writer side and  *)
(* touches only its own state keeps the invariant, provided its own new    *)
(* state is one the invariant accepts and its read locks do not grow.      *)
LEMMA ReaderLocalStep ==
  ASSUME IInv, NEW t \in Threads,
         pc[t] \notin LockPCs \cup WriterPCs \cup RLockPCs,
         UNCHANGED <<store, rblocked, writer, wstate, crashed>>,
         \A u \in Threads \ {t} : /\ pc'[u] = pc[u]
                                  /\ rcount'[u] = rcount[u]
                                  /\ loc'[u] = loc[u],
         pc' \in [Threads -> PCs], rcount' \in [Threads -> Nat],
         loc' \in [Threads -> Locals],
         pc'[t] \notin WriterPCs,
         rcount'[t] <= rcount[t],
         rcount'[t] = (IF pc'[t] \in {"get_read", "exe_load"}
                          \/ Evaluating(t)' THEN 1 ELSE 0)
                      + (IF pc'[t] = "nget_read" THEN 1 ELSE 0),
         Evaluating(t)' => pc'[t] \in EvalPCs,
         pc'[t] \in {"exe_run", "nget_rlock", "nget_read"} => Evaluating(t)',
         Evaluating(t)' => store[loc'[t].xpath] = loc'[t].xentry
  PROVE  IInv'
  <1>1. t \notin rblocked /\ writer # t
    BY DEF IInv, LockShape, WriterPlace
  <1>2. TypeOK'
    BY DEF IInv, TypeOK
  <1>3. LockShape'
    <2>1. \A u \in rblocked : pc'[u] = pc[u]
      BY <1>1 DEF IInv, TypeOK
    <2>2. wstate = "held" => ReadersDrained'
      BY DEF IInv, TypeOK, LockShape, ReadersDrained
    <2>. QED
      BY <2>1, <2>2 DEF IInv, LockShape
  <1>4. WriterPlace'
    BY <1>1 DEF IInv, WriterPlace
  <1>5. ReaderCount'
    BY RemainsReaderCount DEF IInv
  <1>6. ExecuteSeesStableProfile'
    BY DEF IInv, ExecuteSeesStableProfile, Evaluating
  <1>7. CasCheckFresh'
    <2>1. pc'[t] # "set_put"
      BY DEF WriterPCs
    <2>. QED
      BY <2>1 DEF IInv, CasCheckFresh
  <1>. QED
    BY <1>2, <1>3, <1>4, <1>5, <1>6, <1>7 DEF IInv

(* Execute, having loaded its profile, returns early or starts evaluating *)
(* the entry that is stored at its path.                                   *)
LEMMA ExeLoadStep ==
  ASSUME IInv, NEW t \in Threads, ExeLoad(t)
  PROVE  IInv'
  <1>. DEFINE e == store[loc[t].path]
              runnable == IF loc[t].unauthed THEN UnauthedAllowed(e)
                                             ELSE e # NoEntry
  <1>1. CASE RUnlockTo(t, "idle") /\ loc' = [loc EXCEPT ![t] = IdleLocals]
    BY <1>1, RUnlockIdle DEF ExeLoad
  <1>2. CASE /\ runnable
             /\ pc' = [pc EXCEPT ![t] = "exe_run"]
             /\ loc' = [loc EXCEPT ![t] = [IdleLocals EXCEPT
                                             !.xpath = loc[t].path,
                                             !.xentry = e]]
             /\ UNCHANGED rcount
    <2>1. e # NoEntry /\ e \in Entries /\ loc[t].path \in Paths
      BY <1>2 DEF UnauthedAllowed, IInv, TypeOK, Locals
    <2>2. loc'[t] \in Locals /\ loc'[t].xentry = e
          /\ loc'[t].xpath = loc[t].path
      BY <1>2, <2>1, IdleLocalsType DEF IInv, TypeOK, Locals
    <2>3. rcount[t] = 1
      BY DEF ExeLoad, IInv, ReaderCount, EvalPCs
    <2>. QED
      BY <1>2, <2>1, <2>2, <2>3, ReaderLocalStep
         DEF ExeLoad, IInv, TypeOK, PCs, Evaluating, EvalPCs, WriterPCs,
             LockPCs, RLockPCs
  <1>. QED
    BY <1>1, <1>2 DEF ExeLoad

(* A profile dispatches a request; one that re-enters the store does so   *)
(* in the same goroutine, still evaluating, still holding its read lock.   *)
LEMMA ExeDispatchStep ==
  ASSUME IInv, NEW t \in Threads, ExeDispatch(t)
  PROVE  IInv'
  <1>. DEFINE l == [loc[t] EXCEPT !.ndisp = loc[t].ndisp + 1]
  <1>0. /\ pc[t] = "exe_run" /\ loc[t].ndisp < MaxDispatch
        /\ UNCHANGED <<store, rcount, rblocked, writer, wstate, crashed>>
    BY DEF ExeDispatch
  <1>1. l \in Locals /\ l.xpath = loc[t].xpath /\ l.xentry = loc[t].xentry
    <2>1. loc[t] \in Locals
      BY DEF IInv, TypeOK
    <2>2. loc[t].ndisp + 1 \in 0..MaxDispatch
      BY <1>0, <2>1, StoreAssumption DEF Locals
    <2>. QED
      BY <2>1, <2>2 DEF Locals
  <1>2. Evaluating(t) /\ rcount[t] = 1
    BY <1>0 DEF IInv, ReaderCount
  <1>3. /\ loc'[t] \in Locals
        /\ loc'[t].xpath = loc[t].xpath /\ loc'[t].xentry = loc[t].xentry
        /\ pc'[t] \in {"exe_run", "nget_rlock", "set_lock"}
        /\ \A u \in Threads \ {t} : pc'[u] = pc[u] /\ loc'[u] = loc[u]
        /\ pc' \in [Threads -> PCs] /\ loc' \in [Threads -> Locals]
    <2>1. pc \in [Threads -> PCs] /\ loc \in [Threads -> Locals]
      BY DEF IInv, TypeOK
    <2>2. CASE loc' = [loc EXCEPT ![t] = l] /\ UNCHANGED pc
      BY <1>0, <1>1, <2>1, <2>2
    <2>3. CASE /\ \E p \in Paths : loc' = [loc EXCEPT ![t] = [l EXCEPT !.path = p]]
               /\ pc' = [pc EXCEPT ![t] = "nget_rlock"]
      <3>1. PICK p \in Paths : loc' = [loc EXCEPT ![t] = [l EXCEPT !.path = p]]
        BY <2>3
      <3>2. [l EXCEPT !.path = p] \in Locals
        BY <1>1 DEF Locals
      <3>. QED
        BY <1>1, <2>1, <2>3, <3>1, <3>2 DEF PCs
    <2>4. CASE /\ \E p \in Paths, e \in Entries :
                    loc' = [loc EXCEPT ![t] = [l EXCEPT !.path = p, !.entry = e,
                                                        !.cas = NoCas]]
               /\ pc' = [pc EXCEPT ![t] = "set_lock"]
      <3>1. PICK p \in Paths, e \in Entries :
                 loc' = [loc EXCEPT ![t] = [l EXCEPT !.path = p, !.entry = e,
                                                     !.cas = NoCas]]
        BY <2>4
      <3>2. [l EXCEPT !.path = p, !.entry = e, !.cas = NoCas] \in Locals
        BY <1>1 DEF Locals
      <3>. QED
        BY <1>1, <2>1, <2>4, <3>1, <3>2 DEF PCs
    <2>. QED
      BY <2>2, <2>3, <2>4 DEF ExeDispatch
  <1>. QED
    BY <1>0, <1>2, <1>3, ReaderLocalStep
       DEF IInv, TypeOK, Evaluating, EvalPCs, WriterPCs,
           LockPCs, RLockPCs, ExecuteSeesStableProfile

(* A profile's nested Get drops its second read lock and returns to the   *)
(* evaluation.                                                             *)
LEMMA NGetReadStep ==
  ASSUME IInv, NEW t \in Threads, NGetRead(t)
  PROVE  IInv'
  <1>1. Evaluating(t) /\ rcount[t] = 2
    BY DEF NGetRead, IInv, ReaderCount
  <1>2. /\ loc'[t] \in Locals
        /\ loc'[t].xpath = loc[t].xpath /\ loc'[t].xentry = loc[t].xentry
    BY <1>1, IdleLocalsType DEF NGetRead, ReturnLocals, IInv, TypeOK, Locals
  <1>. QED
    BY <1>1, <1>2, ReaderLocalStep
       DEF NGetRead, RUnlockTo, IInv, TypeOK, PCs, Evaluating, EvalPCs,
           WriterPCs, LockPCs, RLockPCs, ExecuteSeesStableProfile

-----------------------------------------------------------------------------
(* Every step of every goroutine keeps the inductive invariant.           *)
THEOREM NextIInv == IInv /\ [Next]_vars => IInv'
  <1> SUFFICES ASSUME IInv, [Next]_vars PROVE IInv'
    OBVIOUS
  <1>1. CASE UNCHANGED vars
    BY <1>1 DEF vars, IInv, TypeOK, LockShape, ReadersDrained, WriterPlace,
                ReaderCount, Evaluating, ExecuteSeesStableProfile,
                CasCheckFresh
  <1>2. ASSUME NEW t \in Threads, Begin(t) PROVE IInv'
    <2>1. CASE \E p \in Paths : Call(t, "get_rlock", p, NoEntry, NoCas, FALSE)
      BY <2>1, CallStep
    <2>2. CASE \E p \in Paths, e \in Entries, c \in CasValues \cup {NoCas} :
                 Call(t, "set_lock", p, e, c, FALSE)
      BY <2>2, CallStep
    <2>3. CASE \E p \in Paths : Call(t, "del_lock", p, NoEntry, NoCas, FALSE)
      BY <2>3, CallStep
    <2>4. CASE \E p \in Paths, u \in BOOLEAN :
                 Call(t, "exe_rlock", p, NoEntry, NoCas, u)
      BY <2>4, CallStep
    <2>. QED
      BY <1>2, <2>1, <2>2, <2>3, <2>4 DEF Begin
  <1>3. ASSUME NEW t \in Threads, Lock(t) PROVE IInv'
    BY <1>3, LockStep
  <1>4. ASSUME NEW t \in Threads, Step(t) PROVE IInv'
    <2>1. CASE GetRead(t) \/ ExeFinish(t)
      BY <2>1, RUnlockIdle DEF GetRead, ExeFinish
    <2>. QED
      BY <1>4, <2>1, RLockStep, LockDrainStep, SetCheckStep, SetPutStep,
         DelDoStep, ExeLoadStep, ExeDispatchStep, NGetReadStep DEF Step
  <1>. QED
    BY <1>1, <1>2, <1>3, <1>4 DEF Next

(* The store's safety: in every reachable state the inductive invariant, *)
(* hence the type invariant, ExecuteSeesStableProfile (an evaluation sees  *)
(* the profile it loaded) and CasCheckFresh (Set's check is not stale when *)
(* it writes), holds, for any number of goroutines and paths and any      *)
(* profile that re-enters the store.                                       *)
THEOREM Safety == Spec => []IInv
  BY InitIInv, NextIInv, PTL DEF Spec

\* The profile an Execute evaluates is never changed under it.
THEOREM StableProfile == Spec => []ExecuteSeesStableProfile
  BY Safety, PTL DEF IInv

\* Set writes over exactly the entry its check-and-set examined.
THEOREM FreshCas == Spec => []CasCheckFresh
  BY Safety, PTL DEF IInv

\* The store's variables stay well typed.
THEOREM TypeCorrect == Spec => []TypeOK
  BY Safety, PTL DEF IInv

=============================================================================

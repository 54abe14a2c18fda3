---------------------------- MODULE ProfileStore ----------------------------
(***************************************************************************)
(* The ProfileStore of vault/profile_store.go: persisted profile entries   *)
(* keyed by (sanitized) path, guarded by one sync.RWMutex, and driven by   *)
(* concurrent client goroutines calling Get, Set, Delete and Execute.     *)
(*                                                                         *)
(* Execute holds the read lock for the whole profile evaluation, and the   *)
(* requests the profile dispatches go through core.HandleRequest, which    *)
(* may route them back into this store (sys/profiles/manage/...).  Such a  *)
(* nested call is the same goroutine entering a store operation while it   *)
(* still holds its read lock.                                              *)
(*                                                                         *)
(* The RWMutex has Go's semantics: a writer first takes the writer mutex   *)
(* and announces itself ("pending"), which blocks every new RLock; it then *)
(* waits for the active readers to drain ("held").  Readers that blocked   *)
(* behind a writer are admitted all at once by its Unlock.                 *)
(***************************************************************************)
EXTENDS Integers

CONSTANTS
    Threads,        \* client goroutines calling into the store
    Paths,          \* sanitized profile paths
    EntryVersions,  \* the Version field callers put in a ProfileEntry
    CasValues,      \* the cas values a caller may pass to Set
    NestedOps,      \* store operations a profile's request re-enters with
    MaxDispatch,    \* bound on the requests one Execute dispatches
    NoEntry,        \* an absent storage entry (nil *ProfileEntry)
    NoCas,          \* a nil cas pointer
    NoThread        \* no goroutine holds the writer mutex

ASSUME StoreAssumption ==
    /\ Paths # {}
    /\ EntryVersions \subseteq Int
    /\ CasValues \subseteq Int
    /\ NestedOps \subseteq {"get", "set"}
    /\ MaxDispatch \in Nat
    /\ NoThread \notin Threads
    /\ NoCas \notin CasValues

\* A persisted ProfileEntry (profile_store.go:24-31).  The key is its Path;
\* the document text and description are abstracted away (whether the
\* document parses is a choice Execute makes).
Entries == [version : EntryVersions, casRequired : BOOLEAN,
            allowUnauth : BOOLEAN]

ASSUME NoEntryAssumption == NoEntry \notin Entries

\* The goroutine-local state of a thread: the arguments of the store call
\* it is in, the Execute it runs (xentry # NoEntry while its profile is
\* being evaluated), the requests that Execute has dispatched, and the
\* entry its Set checked.
Locals == [path : Paths, entry : Entries \cup {NoEntry},
           cas : CasValues \cup {NoCas}, unauthed : BOOLEAN,
           xpath : Paths, xentry : Entries \cup {NoEntry},
           ndisp : 0..MaxDispatch, snap : Entries \cup {NoEntry}]

IdleLocals == [path |-> CHOOSE p \in Paths : TRUE, entry |-> NoEntry,
               cas |-> NoCas, unauthed |-> FALSE,
               xpath |-> CHOOSE p \in Paths : TRUE, xentry |-> NoEntry,
               ndisp |-> 0, snap |-> NoEntry]

VARIABLES
    store,     \* path -> entry in the barrier view, or NoEntry
    rcount,    \* thread -> number of read locks it holds
    rblocked,  \* threads asleep in RLock behind a writer
    writer,    \* thread holding the RWMutex's writer mutex, or NoThread
    wstate,    \* "none", "pending" (draining readers) or "held"
    pc,        \* thread -> its place in the operation it runs
    loc,       \* thread -> its goroutine-local state (Locals)
    crashed    \* some Set has panicked

vars == <<store, rcount, rblocked, writer, wstate, pc, loc, crashed>>

PCs == {"idle", "get_rlock", "get_read", "set_lock", "set_check", "set_put",
        "del_lock", "del_do", "exe_rlock", "exe_load", "exe_run",
        "nget_rlock", "nget_read"}

RLockPCs == {"get_rlock", "exe_rlock", "nget_rlock"}
LockPCs  == {"set_lock", "del_lock"}

\* Where a thread goes once its RLock / Lock is granted.
AfterRLock(l) == CASE l = "get_rlock"  -> "get_read"
                   [] l = "exe_rlock"  -> "exe_load"
                   [] l = "nget_rlock" -> "nget_read"

AfterLock(l) == CASE l = "set_lock" -> "set_check"
                  [] l = "del_lock" -> "del_do"

\* Thread t is inside the evaluation of a profile it loaded under RLock.
Evaluating(t) == loc[t].xentry # NoEntry

\* Where a store call returns to: the client, or the profile that issued
\* it; the goroutine-local state of the call is dropped.
Return(t) == IF Evaluating(t) THEN "exe_run" ELSE "idle"

ReturnLocals(t) ==
    IF Evaluating(t)
      THEN [IdleLocals EXCEPT !.xpath = loc[t].xpath,
                              !.xentry = loc[t].xentry,
                              !.ndisp = loc[t].ndisp]
      ELSE IdleLocals

Init ==
    /\ store = [p \in Paths |-> NoEntry]
    /\ rcount = [t \in Threads |-> 0]
    /\ rblocked = {}
    /\ writer = NoThread
    /\ wstate = "none"
    /\ pc = [t \in Threads |-> "idle"]
    /\ loc = [t \in Threads |-> IdleLocals]
    /\ crashed = FALSE

-----------------------------------------------------------------------------
(* sync.RWMutex                                                            *)

\* RLock: granted at once unless a writer is pending or holds the lock, in
\* which case the goroutine sleeps until that writer's Unlock.
RLock(t) ==
    /\ pc[t] \in RLockPCs
    /\ t \notin rblocked
    /\ IF wstate = "none"
         THEN /\ rcount' = [rcount EXCEPT ![t] = @ + 1]
              /\ pc' = [pc EXCEPT ![t] = AfterRLock(pc[t])]
              /\ UNCHANGED rblocked
         ELSE /\ rblocked' = rblocked \cup {t}
              /\ UNCHANGED <<rcount, pc>>
    /\ UNCHANGED <<store, writer, wstate, loc, crashed>>

\* Slip: a Lock that does not exclude a second writer.
LockShared(t) ==
    /\ pc[t] \in LockPCs
    /\ writer' = t
    /\ wstate' = "pending"
    /\ UNCHANGED <<store, rcount, rblocked, pc, loc, crashed>>

\* Lock, first half: take the writer mutex and announce a pending writer.
Lock(t) ==
    /\ pc[t] \in LockPCs
    /\ writer = NoThread
    /\ writer' = t
    /\ wstate' = "pending"
    /\ UNCHANGED <<store, rcount, rblocked, pc, loc, crashed>>

\* Slip: a writer that does not wait for the active readers (Set and
\* Delete taking a lock readers do not share).
ReadersDrainedEarly == TRUE

\* The readers active when the writer announced itself are all gone (no
\* reader can have become active since).
ReadersDrained == \A u \in Threads : rcount[u] = 0

\* Lock, second half: the pending writer wakes once the readers drained.
LockDrain(t) ==
    /\ writer = t
    /\ wstate = "pending"
    /\ ReadersDrained
    /\ wstate' = "held"
    /\ pc' = [pc EXCEPT ![t] = AfterLock(pc[t])]
    /\ UNCHANGED <<store, rcount, rblocked, writer, loc, crashed>>

\* Slip: an Unlock that releases the writer but loses the wakeup of the
\* readers asleep behind it.
UnlockToLostWakeup(t, l) ==
    /\ wstate' = "none"
    /\ writer' = NoThread
    /\ pc' = [pc EXCEPT ![t] = l]
    /\ UNCHANGED <<rcount, rblocked>>

\* Unlock by t, which moves to l: admit every reader that slept behind
\* this writer, then release the writer mutex.
UnlockTo(t, l) ==
    /\ wstate' = "none"
    /\ writer' = NoThread
    /\ rcount' = [u \in Threads |->
                    IF u \in rblocked THEN rcount[u] + 1 ELSE rcount[u]]
    /\ pc' = [u \in Threads |->
                IF u = t THEN l
                ELSE IF u \in rblocked THEN AfterRLock(pc[u]) ELSE pc[u]]
    /\ rblocked' = {}

\* RUnlock by t, which moves to l.
RUnlockTo(t, l) ==
    /\ rcount' = [rcount EXCEPT ![t] = @ - 1]
    /\ pc' = [pc EXCEPT ![t] = l]

-----------------------------------------------------------------------------
(* Get, Set, Delete                                                        *)

\* A client goroutine calls the store operation that starts at l.
Call(t, l, p, e, c, u) ==
    /\ pc[t] = "idle"
    /\ pc' = [pc EXCEPT ![t] = l]
    /\ loc' = [loc EXCEPT ![t] = [IdleLocals EXCEPT !.path = p, !.entry = e,
                                                    !.cas = c,
                                                    !.unauthed = u]]
    /\ UNCHANGED <<store, rcount, rblocked, writer, wstate, crashed>>

\* Slip: Get releasing its read lock explicitly as well as by its defer.
GetReadDoubleUnlock(t) ==
    /\ pc[t] = "get_read"
    /\ rcount' = [rcount EXCEPT ![t] = @ - 2]
    /\ pc' = [pc EXCEPT ![t] = "idle"]
    /\ loc' = [loc EXCEPT ![t] = IdleLocals]
    /\ UNCHANGED <<store, rblocked, writer, wstate, crashed>>

\* Get after RLock: getLocked reads and decodes the entry, then the
\* deferred RUnlock.
GetRead(t) ==
    /\ pc[t] = "get_read"
    /\ RUnlockTo(t, "idle")
    /\ loc' = [loc EXCEPT ![t] = IdleLocals]
    /\ UNCHANGED <<store, rblocked, writer, wstate, crashed>>

\* The check-and-set decision of Set on the entry getLocked returned;
\* "panic" is the nil dereference of existing.Version.
CasOutcome(existing, e, c) ==
    LET required == (existing # NoEntry /\ existing.casRequired)
                    \/ e.casRequired
    IN  CASE c = NoCas /\ required        -> "required"
          [] c = NoCas                    -> "ok"
          [] c = -1 /\ existing # NoEntry -> "exists"
          [] c = -1                       -> "ok"
          [] existing = NoEntry           -> "panic"
          [] c # existing.version         -> "mismatch"
          [] OTHER                        -> "ok"

\* Set under the write lock: getLocked, then the CAS checks.  A failed
\* check returns an error, and a panic unwinds; both run the deferred
\* Unlock.
SetCheck(t) ==
    /\ pc[t] = "set_check"
    /\ LET existing == store[loc[t].path]
           outcome  == CasOutcome(existing, loc[t].entry, loc[t].cas)
       IN  IF outcome = "ok"
             THEN /\ pc' = [pc EXCEPT ![t] = "set_put"]
                  /\ loc' = [loc EXCEPT ![t].snap = existing]
                  /\ UNCHANGED <<rcount, rblocked, writer, wstate, crashed>>
             ELSE /\ UnlockTo(t, Return(t))
                  /\ loc' = [loc EXCEPT ![t] = ReturnLocals(t)]
                  /\ crashed' = (crashed \/ outcome = "panic")
    /\ UNCHANGED store

\* Set after its checks: StorageEntryJSON and view.Put of the caller's
\* entry as it is, which may fail (the barrier's read-only error); then the
\* deferred Unlock.
SetPut(t) ==
    /\ pc[t] = "set_put"
    /\ \/ store' = [store EXCEPT ![loc[t].path] = loc[t].entry]
       \/ UNCHANGED store
    /\ UnlockTo(t, Return(t))
    /\ loc' = [loc EXCEPT ![t] = ReturnLocals(t)]
    /\ UNCHANGED crashed

\* Delete under the write lock: an unconditional view.Delete, which may
\* fail, then the deferred Unlock.
DelDo(t) ==
    /\ pc[t] = "del_do"
    /\ \/ store' = [store EXCEPT ![loc[t].path] = NoEntry]
       \/ UNCHANGED store
    /\ UnlockTo(t, "idle")
    /\ loc' = [loc EXCEPT ![t] = IdleLocals]
    /\ UNCHANGED crashed

-----------------------------------------------------------------------------
(* Execute                                                                 *)

\* Whether the unauthenticated endpoint may run entry e.
UnauthedAllowed(e) == e # NoEntry /\ e.allowUnauth

\* Execute after RLock: getLocked, the permission check (permission denied
\* for a missing profile too), the nil return for a missing profile, then
\* Parse and NewEngine, either of which may fail.  Every early return runs
\* the deferred RUnlock.
ExeLoad(t) ==
    /\ pc[t] = "exe_load"
    /\ LET e == store[loc[t].path]
           runnable == IF loc[t].unauthed THEN UnauthedAllowed(e)
                                          ELSE e # NoEntry
           return   == /\ RUnlockTo(t, "idle")
                       /\ loc' = [loc EXCEPT ![t] = IdleLocals]
       IN  \/ /\ ~runnable                  \* denied, or nil, nil
              /\ return
           \/ /\ runnable                   \* Parse or NewEngine fails
              /\ return
           \/ /\ runnable
              /\ pc' = [pc EXCEPT ![t] = "exe_run"]
              /\ loc' = [loc EXCEPT ![t] = [IdleLocals EXCEPT
                                              !.xpath = loc[t].path,
                                              !.xentry = e]]
              /\ UNCHANGED rcount
    /\ UNCHANGED <<store, rblocked, writer, wstate, crashed>>

\* The engine dispatches one request of the profile through
\* core.HandleRequest, still under the read lock.  The request goes
\* elsewhere, or back into this store: a read of sys/profiles/manage/<p>
\* (Get), or a write to it (Set, with the nil cas the update handler
\* always passes).
ExeDispatch(t) ==
    /\ pc[t] = "exe_run"
    /\ loc[t].ndisp < MaxDispatch
    /\ LET l == [loc[t] EXCEPT !.ndisp = @ + 1] IN
       \/ /\ loc' = [loc EXCEPT ![t] = l]
          /\ UNCHANGED pc
       \/ /\ "get" \in NestedOps
          /\ \E p \in Paths : loc' = [loc EXCEPT ![t] = [l EXCEPT !.path = p]]
          /\ pc' = [pc EXCEPT ![t] = "nget_rlock"]
       \/ /\ "set" \in NestedOps
          /\ \E p \in Paths, e \in Entries :
               loc' = [loc EXCEPT ![t] = [l EXCEPT !.path = p, !.entry = e,
                                                   !.cas = NoCas]]
          /\ pc' = [pc EXCEPT ![t] = "set_lock"]
    /\ UNCHANGED <<store, rcount, rblocked, writer, wstate, crashed>>

\* A nested Get from the profile, after its recursive RLock: read, then
\* RUnlock, back to the profile.
NGetRead(t) ==
    /\ pc[t] = "nget_read"
    /\ RUnlockTo(t, "exe_run")
    /\ loc' = [loc EXCEPT ![t] = ReturnLocals(t)]
    /\ UNCHANGED <<store, rblocked, writer, wstate, crashed>>

\* Evaluate / EvaluateResponse returns, with its response or the error of
\* a failed request, and Execute's deferred RUnlock runs.
ExeFinish(t) ==
    /\ pc[t] = "exe_run"
    /\ RUnlockTo(t, "idle")
    /\ loc' = [loc EXCEPT ![t] = IdleLocals]
    /\ UNCHANGED <<store, rblocked, writer, wstate, crashed>>

-----------------------------------------------------------------------------

\* A client goroutine calls into the store (the handlers of
\* logical_system_profiles.go, or any other caller of the store).
Begin(t) ==
    \/ \E p \in Paths : Call(t, "get_rlock", p, NoEntry, NoCas, FALSE)
    \/ \E p \in Paths, e \in Entries, c \in CasValues \cup {NoCas} :
         Call(t, "set_lock", p, e, c, FALSE)
    \/ \E p \in Paths : Call(t, "del_lock", p, NoEntry, NoCas, FALSE)
    \/ \E p \in Paths, u \in BOOLEAN :
         Call(t, "exe_rlock", p, NoEntry, NoCas, u)

\* Every step of a call in progress, except taking the writer mutex.
Step(t) ==
    \/ RLock(t) \/ LockDrain(t)
    \/ GetRead(t) \/ SetCheck(t) \/ SetPut(t) \/ DelDo(t)
    \/ ExeLoad(t) \/ ExeDispatch(t) \/ NGetRead(t) \/ ExeFinish(t)

Next == \E t \in Threads : Begin(t) \/ Lock(t) \/ Step(t)

Spec == Init /\ [][Next]_vars

\* A goroutine in the store keeps running (weak fairness).  The writer
\* mutex is a sync.Mutex, whose starvation mode hands it to a waiter that
\* keeps asking for it (strong fairness).  Clients need never call.
FairSpec == Spec /\ \A t \in Threads : WF_vars(Step(t)) /\ SF_vars(Lock(t))

-----------------------------------------------------------------------------
(* Properties                                                              *)

TypeOK ==
    /\ store \in [Paths -> Entries \cup {NoEntry}]
    /\ rcount \in [Threads -> Nat]
    /\ rblocked \subseteq Threads
    /\ writer \in Threads \cup {NoThread}
    /\ wstate \in {"none", "pending", "held"}
    /\ pc \in [Threads -> PCs]
    /\ loc \in [Threads -> Locals]
    /\ crashed \in BOOLEAN

\* Execute runs the profile it loaded: for as long as its evaluation lasts
\* (requests dispatched, nested store calls included), the stored entry at
\* its path is still the one it parsed.  Concurrent Set and Delete calls
\* must wait for the read lock Execute holds.
ExecuteSeesStableProfile ==
    \A t \in Threads : Evaluating(t) => store[loc[t].xpath] = loc[t].xentry

\* Set's check-and-set decision is not stale when it writes: between
\* getLocked and view.Put the entry at the path is still the one it
\* checked, whatever the other goroutines do.
CasCheckFresh ==
    \A t \in Threads : pc[t] = "set_put" => store[loc[t].path] = loc[t].snap

\* Every store call that starts returns: no deadlock between Execute's
\* read lock, its profile's own requests and concurrent writers, and no
\* starvation of readers or writers.
OpsComplete == \A t \in Threads : pc[t] # "idle" ~> pc[t] = "idle"

\* Spec 4.5 / 8.4 and I8 / 8.5: a successful Set over an existing profile
\* writes the entry the store maintains, not the caller's as given: its
\* version advances by one, so that a second Set with the same cas fails,
\* and a cas_required flag that was set stays set.
SetMaintainsEntry ==
    [][\A t \in Threads :
         (pc[t] = "set_put" /\ pc'[t] # "set_put" /\ loc[t].snap # NoEntry
          /\ store'[loc[t].path] # store[loc[t].path])
           => /\ store'[loc[t].path].version = loc[t].snap.version + 1
              /\ loc[t].snap.casRequired => store'[loc[t].path].casRequired]_vars

-----------------------------------------------------------------------------
(* The inductive invariant behind ExecuteSeesStableProfile and            *)
(* CasCheckFresh: how the RWMutex's state matches what the goroutines are  *)
(* doing.                                                                  *)

\* Where a writer's critical section runs, and where an evaluation may be.
WriterPCs == {"set_check", "set_put", "del_do"}
EvalPCs == {"exe_run", "nget_rlock", "nget_read",
            "set_lock", "set_check", "set_put"}

\* The writer side: the writer mutex is taken exactly when a writer is
\* announced; a writer holds the lock only with no active reader; sleeping
\* readers sleep behind a writer.
LockShape ==
    /\ (wstate = "none") <=> (writer = NoThread)
    /\ wstate = "held" => ReadersDrained
    /\ rblocked # {} => wstate # "none"
    /\ \A t \in rblocked : pc[t] \in RLockPCs

\* The writer is the one goroutine in a write-locked section, or waiting in
\* Lock for the readers to drain.
WriterPlace ==
    \A t \in Threads :
        /\ pc[t] \in WriterPCs <=> (writer = t /\ wstate = "held")
        /\ writer = t => pc[t] \in LockPCs \cup WriterPCs

\* A goroutine holds one read lock while it reads in Get or Execute or
\* evaluates a profile, and a second one in a nested Get.
ReaderCount ==
    \A t \in Threads :
        /\ rcount[t] = (IF pc[t] \in {"get_read", "exe_load"} \/ Evaluating(t)
                          THEN 1 ELSE 0)
                       + (IF pc[t] = "nget_read" THEN 1 ELSE 0)
        /\ Evaluating(t) => pc[t] \in EvalPCs
        /\ pc[t] \in {"exe_run", "nget_rlock", "nget_read"} => Evaluating(t)

IInv ==
    /\ TypeOK
    /\ LockShape
    /\ WriterPlace
    /\ ReaderCount
    /\ ExecuteSeesStableProfile
    /\ CasCheckFresh

=============================================================================

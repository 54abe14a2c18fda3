------------------------- MODULE PluginServerProofs -------------------------
(***************************************************************************)
(* Proofs about PluginServer, for every set of multiplex IDs and of RPC    *)
(* goroutines, in both multiplexing modes: the instance map never holds a  *)
(* cleaned-up backend, a multiplexed call runs only in its own mount's     *)
(* backend, and no backend the factory returned is dropped.                *)
(***************************************************************************)
EXTENDS PluginServer, TLAPS

USE PluginAssumption

\* Init establishes the inductive invariant: the map is empty and no
\* factory has returned.
LEMMA InitPInv == Init => PInv
  <1> SUFFICES ASSUME Init PROVE PInv
    OBVIOUS
  <1>1. TypeOK
    BY DEF Init, TypeOK, Backends, Slots, Ctxs, NoBackend
  <1>2. InstancesLive /\ NoBackendLost /\ Owned /\ MuxNoSingle
    BY DEF Init, InstancesLive, NoBackendLost, Owned, MuxNoSingle, Backends,
           Slots
  <1>3. StoreOK /\ StoreUnique /\ CallOK
    BY DEF Init, StoreOK, StoreUnique, CallOK
  <1>4. QED
    BY <1>1, <1>2, <1>3 DEF PInv

\* A successful lookup of a context returns the backend stored under the
\* slot it reads (the context's ID with multiplexing, the single instance
\* otherwise), which is a backend the factory returned for that slot.
LEMMA LookupFact ==
  ASSUME PInv, NEW c \in Ctxs, Lookup(c) # NoBackend
  PROVE  LET x == IF mux THEN c ELSE Single
         IN  /\ x \in Slots
             /\ Lookup(c) = instances[x]
             /\ Lookup(c) \in Backends
             /\ owner[Lookup(c)] = x
  <1> DEFINE x == IF mux THEN c ELSE Single
  <1>1. x \in Slots /\ Lookup(c) = instances[x]
    <2>1. CASE mux
      <3>1. c # NoId
        BY <2>1 DEF Lookup, NoBackend
      <3>2. instances[Single] = NoBackend
        BY <2>1 DEF PInv, MuxNoSingle
      <3>3. QED
        BY <2>1, <3>1, <3>2 DEF Lookup, Ctxs, Slots
    <2>2. CASE ~mux
      BY <2>2 DEF Lookup, Slots
    <2>3. QED
      BY <2>1, <2>2
  <1>2. Lookup(c) \in Backends
    BY <1>1 DEF PInv, TypeOK, NoBackend
  <1>3. owner[Lookup(c)] = x
    BY <1>1 DEF PInv, Owned
  <1>4. QED
    BY <1>1, <1>2, <1>3

\* An RPC that enters a call takes the backend its lookup returns, which
\* with multiplexing is its own ID's; it leaves the map alone.
LEMMA EnterPInv ==
  ASSUME PInv, NEW t \in Rpcs, NEW c \in Ctxs, NEW a, Enter(t, c, a)
  PROVE  PInv'
  <1>1. Lookup(c) \in Backends /\ (mux => owner[Lookup(c)] = c)
    BY LookupFact DEF Enter
  <1>2. TypeOK'
    BY <1>1 DEF Enter, PInv, TypeOK, Backends
  <1>3. InstancesLive' /\ Owned' /\ MuxNoSingle'
    BY DEF Enter, PInv, InstancesLive, Owned, MuxNoSingle
  <1>4. NoBackendLost'
    BY DEF Enter, PInv, TypeOK, NoBackendLost, Backends
  <1>5. StoreOK' /\ StoreUnique'
    BY DEF Enter, PInv, TypeOK, StoreOK, StoreUnique, Backends
  <1>6. CallOK'
    BY <1>1 DEF Enter, PInv, TypeOK, CallOK, Backends
  <1>7. QED
    BY <1>2, <1>3, <1>4, <1>5, <1>6 DEF PInv

\* A call that returns drops the backend it held and nothing else.
LEMMA ReturnPInv ==
  ASSUME PInv, NEW t \in Rpcs, Return(t)
  PROVE  PInv'
  <1>1. TypeOK'
    BY DEF Return, PInv, TypeOK, Backends, NoBackend
  <1>2. InstancesLive' /\ Owned' /\ MuxNoSingle'
    BY DEF Return, PInv, InstancesLive, Owned, MuxNoSingle
  <1>3. NoBackendLost'
    BY DEF Return, PInv, TypeOK, NoBackendLost, Backends
  <1>4. StoreOK' /\ StoreUnique' /\ CallOK'
    BY DEF Return, PInv, TypeOK, StoreOK, StoreUnique, CallOK, Backends
  <1>5. QED
    BY <1>1, <1>2, <1>3, <1>4 DEF PInv

\* Cleanup cleans up exactly the backend it deletes from the map; since a
\* backend sits under one slot only (its owner), no other entry holds it,
\* and no goroutine about to store holds it either.
LEMMA CleanupPInv ==
  ASSUME PInv, NEW t \in Rpcs, NEW c \in Ctxs, Cleanup(t, c)
  PROVE  PInv'
  <1> DEFINE x == IF mux THEN c ELSE Single
             b == Lookup(c)
  <1>1. x \in Slots /\ b = instances[x] /\ b \in Backends /\ owner[b] = x
    BY LookupFact DEF Cleanup
  <1>2. instances' = [instances EXCEPT ![x] = NoBackend]
        /\ cleaned' = cleaned \cup {b}
    BY DEF Cleanup
  <1>3. UNCHANGED <<mux, meta, cross, owner, setup, pc, rid, rb>>
    BY DEF Cleanup
  <1>4. \A s \in Slots \ {x} : instances[s] # NoBackend => instances[s] # b
    BY <1>1 DEF PInv, Owned
  <1>5. TypeOK'
    BY <1>1, <1>2, <1>3 DEF PInv, TypeOK, Backends, NoBackend
  <1>6. InstancesLive'
    BY <1>2, <1>4 DEF PInv, TypeOK, InstancesLive
  <1>7. NoBackendLost'
    <2> SUFFICES ASSUME NEW bb \in Backends, bb \notin cleaned',
                        ~\E u \in Rpcs : pc[u] = "store" /\ rb[u] = bb
                 PROVE  bb \in Range(instances')
      BY <1>3 DEF NoBackendLost, Backends
    <2>1. PICK s \in Slots : instances[s] = bb
      BY <1>2 DEF PInv, NoBackendLost, TypeOK, Range
    <2>2. s # x
      BY <1>1, <1>2, <2>1
    <2>3. instances'[s] = bb
      BY <1>2, <2>1, <2>2 DEF PInv, TypeOK
    <2>4. QED
      BY <1>2, <2>3 DEF PInv, TypeOK, Range
  <1>8. Owned' /\ MuxNoSingle'
    BY <1>2, <1>3 DEF PInv, TypeOK, Owned, MuxNoSingle
  <1>9. StoreOK'
    <2> SUFFICES ASSUME NEW u \in Rpcs, pc[u] = "store"
                 PROVE  /\ rb[u] # b
                        /\ instances'[rid[u]] = NoBackend
      BY <1>2, <1>3 DEF PInv, StoreOK, Backends
    <2>1. rid[u] # x
      BY <1>1 DEF PInv, StoreOK, NoBackend, Backends
    <2>2. QED
      BY <1>1, <1>2, <2>1 DEF PInv, StoreOK, TypeOK
  <1>10. StoreUnique' /\ CallOK'
    BY <1>3 DEF PInv, StoreUnique, CallOK, Backends
  <1>11. QED
    BY <1>5, <1>6, <1>7, <1>8, <1>9, <1>10 DEF PInv

\* Setup's first half: the ID is one the host has not set up yet, so its
\* entry is empty and no goroutine stores under it; a backend the factory
\* returns is fresh, numbered past every earlier one.
LEMMA SetupBeginPInv ==
  ASSUME PInv, NEW t \in Rpcs, NEW c \in Ctxs, SetupBegin(t, c)
  PROVE  PInv'
  <1> DEFINE id == SetupId(c)
  <1>1. id \in Slots /\ id \notin setup /\ (mux => id \in Ids)
    BY DEF SetupBegin, SetupId, Slots, Ctxs
  <1>2. instances[id] = NoBackend
    BY <1>1 DEF PInv, Owned
  <1>3. \A u \in Rpcs : pc[u] = "store" => rid[u] # id
    BY <1>1 DEF PInv, StoreOK
  <1>4. setup' = setup \cup {id}
        /\ UNCHANGED <<mux, meta, cross, instances, cleaned>>
    BY DEF SetupBegin
  <1>5. CASE UNCHANGED <<owner, pc, rid, rb>>
    <2>1. TypeOK'
      BY <1>1, <1>4, <1>5 DEF PInv, TypeOK, Backends
    <2>2. InstancesLive' /\ NoBackendLost' /\ MuxNoSingle'
      BY <1>4, <1>5 DEF PInv, InstancesLive, NoBackendLost, MuxNoSingle,
                        Backends
    <2>3. Owned' /\ StoreOK'
      BY <1>4, <1>5 DEF PInv, Owned, StoreOK, Backends
    <2>4. StoreUnique' /\ CallOK'
      BY <1>4, <1>5 DEF PInv, StoreUnique, CallOK, Backends
    <2>5. QED
      BY <2>1, <2>2, <2>3, <2>4 DEF PInv
  <1>6. CASE /\ owner' = Append(owner, id)
             /\ pc' = [pc EXCEPT ![t] = "store"]
             /\ rid' = [rid EXCEPT ![t] = id]
             /\ rb' = [rb EXCEPT ![t] = Len(owner) + 1]
    <2> DEFINE nb == Len(owner) + 1
    <2>1. owner \in Seq(Slots) /\ pc[t] = "idle"
      BY DEF PInv, TypeOK, SetupBegin
    <2>2. /\ owner' \in Seq(Slots)
          /\ Backends' = Backends \cup {nb}
          /\ nb \notin Backends
          /\ owner'[nb] = id
          /\ \A i \in Backends : owner'[i] = owner[i]
      BY <1>1, <1>6, <2>1 DEF Backends
    <2>3. TypeOK'
      BY <1>1, <1>4, <1>6, <2>2 DEF PInv, TypeOK, Slots, Ctxs
    <2>4. InstancesLive' /\ MuxNoSingle'
      BY <1>4 DEF PInv, InstancesLive, MuxNoSingle
    <2>5. NoBackendLost'
      <3> SUFFICES ASSUME NEW bb \in Backends'
                   PROVE  \/ bb \in cleaned
                          \/ bb \in Range(instances)
                          \/ \E u \in Rpcs : pc'[u] = "store" /\ rb'[u] = bb
        BY <1>4 DEF NoBackendLost
      <3>1. CASE bb = nb
        BY <1>6, <3>1 DEF PInv, TypeOK
      <3>2. CASE bb \in Backends
        BY <1>6, <2>1, <3>2 DEF PInv, TypeOK, NoBackendLost
      <3>3. QED
        BY <2>2, <3>1, <3>2
    <2>6. Owned'
      BY <1>4, <2>2 DEF PInv, Owned, TypeOK, Backends, NoBackend
    <2>7. StoreOK'
      <3> SUFFICES ASSUME NEW u \in Rpcs, pc'[u] = "store"
                   PROVE  /\ rid'[u] \in setup'
                          /\ mux => rid'[u] \in Ids
                          /\ rb'[u] \in Backends' \ cleaned
                          /\ owner'[rb'[u]] = rid'[u]
                          /\ instances[rid'[u]] = NoBackend
        BY <1>4 DEF StoreOK
      <3>1. CASE u = t
        BY <1>1, <1>2, <1>4, <1>6, <2>2, <3>1 DEF PInv, TypeOK
      <3>2. CASE u # t
        BY <1>4, <1>6, <2>2, <3>2 DEF PInv, TypeOK, StoreOK
      <3>3. QED
        BY <3>1, <3>2
    <2>8. StoreUnique'
      BY <1>3, <1>6, <2>1 DEF PInv, TypeOK, StoreUnique
    <2>9. CallOK'
      BY <1>4, <1>6, <2>2 DEF PInv, TypeOK, CallOK
    <2>10. QED
      BY <2>3, <2>4, <2>5, <2>6, <2>7, <2>8, <2>9 DEF PInv
  <1>7. QED
    BY <1>5, <1>6 DEF SetupBegin

\* Setup's second half: the goroutine stores its backend under an entry
\* that is still empty, so no backend in the map is overwritten.
LEMMA SetupStorePInv ==
  ASSUME PInv, NEW t \in Rpcs, SetupStore(t)
  PROVE  PInv'
  <1> DEFINE id == rid[t]
             nb == rb[t]
  <1>1. /\ id \in setup /\ (mux => id \in Ids)
        /\ nb \in Backends \ cleaned /\ owner[nb] = id
        /\ instances[id] = NoBackend
    BY DEF SetupStore, PInv, StoreOK
  <1>2. id \in Slots
    BY <1>1 DEF PInv, TypeOK
  <1>3. /\ instances' = [instances EXCEPT ![id] = nb]
        /\ pc' = [pc EXCEPT ![t] = "idle"]
        /\ rb' = [rb EXCEPT ![t] = NoBackend]
        /\ UNCHANGED <<mux, meta, cross, owner, cleaned, setup, rid>>
    BY DEF SetupStore
  <1>4. TypeOK'
    BY <1>1, <1>2, <1>3 DEF PInv, TypeOK, Backends, NoBackend
  <1>5. InstancesLive' /\ Owned'
    BY <1>1, <1>2, <1>3 DEF PInv, TypeOK, InstancesLive, Owned, Backends
  <1>6. MuxNoSingle'
    BY <1>1, <1>3, PluginAssumption DEF PInv, TypeOK, MuxNoSingle
  <1>7. NoBackendLost'
    <2> SUFFICES ASSUME NEW bb \in Backends, bb \notin cleaned
                 PROVE  \/ bb \in Range(instances')
                        \/ \E u \in Rpcs : pc'[u] = "store" /\ rb'[u] = bb
      BY <1>3 DEF NoBackendLost, Backends
    <2>1. CASE bb = nb
      BY <1>2, <1>3, <2>1 DEF PInv, TypeOK, Range
    <2>2. CASE bb # nb /\ bb \in Range(instances)
      <3>1. PICK s \in Slots : instances[s] = bb
        BY <2>2 DEF PInv, TypeOK, Range
      <3>2. s # id
        BY <1>1, <3>1 DEF Backends, NoBackend
      <3>3. QED
        BY <1>3, <3>1, <3>2 DEF PInv, TypeOK, Range
    <2>3. CASE bb # nb /\ bb \notin Range(instances)
      <3>1. PICK u \in Rpcs : pc[u] = "store" /\ rb[u] = bb
        BY <2>3 DEF PInv, NoBackendLost
      <3>2. u # t
        BY <2>3, <3>1
      <3>3. QED
        BY <1>3, <3>1, <3>2 DEF PInv, TypeOK
    <2>4. QED
      BY <2>1, <2>2, <2>3
  <1>8. StoreOK'
    <2> SUFFICES ASSUME NEW u \in Rpcs, pc'[u] = "store"
                 PROVE  /\ rid'[u] \in setup'
                        /\ mux' => rid'[u] \in Ids
                        /\ rb'[u] \in Backends' \ cleaned'
                        /\ owner'[rb'[u]] = rid'[u]
                        /\ instances'[rid'[u]] = NoBackend
      BY DEF StoreOK
    <2>1. u # t /\ pc[u] = "store" /\ rb'[u] = rb[u]
      BY <1>3 DEF PInv, TypeOK
    <2>2. rid[u] # id
      BY <2>1 DEF SetupStore, PInv, StoreUnique
    <2>3. QED
      BY <1>3, <2>1, <2>2 DEF PInv, TypeOK, StoreOK, Backends
  <1>9. StoreUnique' /\ CallOK'
    BY <1>3 DEF PInv, TypeOK, StoreUnique, CallOK, Backends
  <1>10. QED
    BY <1>4, <1>5, <1>6, <1>7, <1>8, <1>9 DEF PInv

\* Each of the ten RPCs that call into a backend is an Enter.
LEMMA ServeIsEnter ==
  ASSUME NEW t, NEW c, Serve(t, c)
  PROVE  \E a : Enter(t, c, a)
  BY DEF Serve, HandleRequest, Initialize, SpecialPaths, HandleExistenceCheck,
         InvalidateKey, Type, Version, HandleInternalRequest,
         InternalSpecialPaths, HandleInternalExistenceCheck

\* Every step of the server keeps the inductive invariant.
LEMMA NextPInv == PInv /\ [Next]_vars => PInv'
  <1> SUFFICES ASSUME PInv, [Next]_vars PROVE PInv'
    OBVIOUS
  <1>1. CASE \E t \in Rpcs : SetupStore(t)
    BY <1>1, SetupStorePInv
  <1>2. CASE \E t \in Rpcs : Return(t)
    BY <1>2, ReturnPInv
  <1>3. CASE \E t \in Rpcs, c \in Ctxs : SetupBegin(t, c)
    BY <1>3, SetupBeginPInv
  <1>4. CASE \E t \in Rpcs, c \in Ctxs : Serve(t, c)
    BY <1>4, ServeIsEnter, EnterPInv
  <1>5. CASE \E t \in Rpcs, c \in Ctxs : Cleanup(t, c)
    BY <1>5, CleanupPInv
  <1>6. CASE UNCHANGED vars
    BY <1>6 DEF vars, PInv, TypeOK, InstancesLive, NoBackendLost, Owned,
               MuxNoSingle, StoreOK, StoreUnique, CallOK, Backends
  <1>7. QED
    BY <1>1, <1>2, <1>3, <1>4, <1>5, <1>6 DEF Next

\* The server's whole behaviour keeps the inductive invariant.
THEOREM PluginSafety == Spec => []PInv
  BY InitPInv, NextPInv, PTL DEF Spec

\* Cleanup deletes the entry of the backend it cleans up, in both modes, so
\* no RPC ever looks up a cleaned-up backend.
THEOREM InstancesLiveSafe == Spec => []InstancesLive
  BY PluginSafety, PTL DEF PInv

\* With multiplexing, every call into a backend (HandleRequest and the
\* other RPCs) runs in the backend Setup made for the call's own mount ID.
THEOREM TenantIsolationSafe == Spec => []TenantIsolation
  <1>1. PInv => TenantIsolation
    BY DEF PInv, CallOK, TenantIsolation
  <1>2. QED
    BY <1>1, PluginSafety, PTL

\* Every backend the factory returned in Setup is stored, about to be
\* stored, or cleaned up by Cleanup: none is dropped.
THEOREM NoBackendLostSafe == Spec => []NoBackendLost
  BY PluginSafety, PTL DEF PInv

\* Every reachable state of the plugin server has the types TypeOK gives
\* its setup flags, the slot owners, the instance table and the state of
\* each RPC.
THEOREM PluginTypeSafe == Spec => []TypeOK
  BY PluginSafety, PTL DEF PInv

====

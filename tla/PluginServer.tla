---------------------------- MODULE PluginServer ----------------------------
(***************************************************************************)
(* The server side of a backend plugin, sdk/plugin/grpc_backend_server.go. *)
(*                                                                         *)
(* The plugin process keeps its backend instances in a map from multiplex  *)
(* ID to instance, guarded by an RWMutex.  Setup runs the backend factory  *)
(* outside the lock and then stores the new instance under the ID of its   *)
(* context (or under singleImplementationID when the plugin does not       *)
(* multiplex).  Every other RPC looks its instance up under the read lock  *)
(* (falling back to the single instance when its ID has none), releases    *)
(* the lock, and calls into the backend.  Cleanup looks the instance up    *)
(* under the write lock, cleans the backend up, closes its broker client   *)
(* and deletes the map entry.                                              *)
(*                                                                         *)
(* RPCs run concurrently, one goroutine each.  A backend is a number; the  *)
(* ID it was set up for, which decides the storage it was given, is its    *)
(* owner.                                                                  *)
(***************************************************************************)
EXTENDS Naturals, Sequences, Functions

CONSTANTS
    Ids,      \* the multiplex IDs an RPC's context may carry
    NoId,     \* a context without a multiplex ID
    Single,   \* singleImplementationID
    Rpcs      \* the RPC goroutines

ASSUME PluginAssumption ==
    /\ Single \notin Ids
    /\ NoId \notin Ids \cup {Single}

\* The keys of the instance map.
Slots == Ids \cup {Single}

\* What an RPC's context carries.
Ctxs == Ids \cup {NoId}

\* No instance (the map has no entry), no backend in hand.
NoBackend == 0

VARIABLES
    mux,        \* multiplexingSupport
    meta,       \* pluginutil.InMetadataMode()
    cross,      \* the factory's backends implement logical.CrossPluginBackend
    instances,  \* slot -> backend, or NoBackend
    owner,      \* backend b was set up for slot owner[b]
    cleaned,    \* the backends whose Cleanup has run
    setup,      \* the slots a Setup has been called for
    pc,         \* RPC -> "idle", "store" (factory returned) or "call"
    rid,        \* RPC -> the slot or context ID it works for
    rb          \* RPC -> the backend in hand

vars == <<mux, meta, cross, instances, owner, cleaned, setup, pc, rid, rb>>

\* The backends the factory has returned.
Backends == 1..Len(owner)

Init ==
    /\ mux \in BOOLEAN
    /\ meta \in BOOLEAN
    /\ cross \in BOOLEAN
    /\ instances = [s \in Slots |-> NoBackend]
    /\ owner = <<>>
    /\ cleaned = {}
    /\ setup = {}
    /\ pc = [t \in Rpcs |-> "idle"]
    /\ rid = [t \in Rpcs |-> NoId]
    /\ rb = [t \in Rpcs |-> NoBackend]

\* getBackendAndBrokeredClientInternal: with multiplexing, the instance of
\* the context's ID (an error when the context has none); otherwise, or
\* when that ID has no instance, the single instance; NoBackend is the
\* "no backend instance found" error.
Lookup(c) ==
    IF mux /\ c = NoId THEN NoBackend
    ELSE IF mux /\ instances[c] # NoBackend THEN instances[c]
    ELSE instances[Single]

\* Mutant: Setup keeps singleImplementationID whatever the mode.
SetupIdIgnoresMux(c) == Single

\* The key Setup stores its instance under.
SetupId(c) == IF mux THEN c ELSE Single

\* Mutant: the goroutine numbers its new backend one past the next.
SetupBeginOffByOne(t, c) ==
    /\ pc[t] = "idle"
    /\ SetupId(c) # NoId
    /\ SetupId(c) \notin setup
    /\ setup' = setup \cup {SetupId(c)}
    /\ \/ /\ owner' = Append(owner, SetupId(c))
          /\ pc' = [pc EXCEPT ![t] = "store"]
          /\ rid' = [rid EXCEPT ![t] = SetupId(c)]
          /\ rb' = [rb EXCEPT ![t] = Len(owner) + 2]
       \/ UNCHANGED <<owner, pc, rid, rb>>
    /\ UNCHANGED <<mux, meta, cross, instances, cleaned>>

\* Setup up to the return of the factory: the multiplex ID, the dial of the
\* broker, the storage client, the factory.  Any of them may fail, and the
\* RPC returns an error; otherwise the goroutine holds a new backend.  The
\* client sets each instance up once.
SetupBegin(t, c) ==
    /\ pc[t] = "idle"
    /\ SetupId(c) # NoId
    /\ SetupId(c) \notin setup
    /\ setup' = setup \cup {SetupId(c)}
    /\ \/ /\ owner' = Append(owner, SetupId(c))
          /\ pc' = [pc EXCEPT ![t] = "store"]
          /\ rid' = [rid EXCEPT ![t] = SetupId(c)]
          /\ rb' = [rb EXCEPT ![t] = Len(owner) + 1]
       \/ UNCHANGED <<owner, pc, rid, rb>>
    /\ UNCHANGED <<mux, meta, cross, instances, cleaned>>

\* The rest of Setup, under the write lock: the instance is stored.
SetupStore(t) ==
    /\ pc[t] = "store"
    /\ instances' = [instances EXCEPT ![rid[t]] = rb[t]]
    /\ pc' = [pc EXCEPT ![t] = "idle"]
    /\ rb' = [rb EXCEPT ![t] = NoBackend]
    /\ UNCHANGED <<mux, meta, cross, owner, cleaned, setup, rid>>

\* An RPC that looks its instance up under the read lock, returns an error
\* when there is none or when admitted is false, and otherwise calls into
\* the backend after the lock is released.
Enter(t, c, admitted) ==
    /\ pc[t] = "idle"
    /\ Lookup(c) # NoBackend
    /\ admitted
    /\ pc' = [pc EXCEPT ![t] = "call"]
    /\ rid' = [rid EXCEPT ![t] = c]
    /\ rb' = [rb EXCEPT ![t] = Lookup(c)]
    /\ UNCHANGED <<mux, meta, cross, instances, owner, cleaned, setup>>

\* The RPCs that call into the backend.  Those that run a request refuse
\* in metadata mode; the internal ones need a cross-plugin backend.
HandleRequest(t, c) == Enter(t, c, ~meta)
Initialize(t, c) == Enter(t, c, ~meta)
SpecialPaths(t, c) == Enter(t, c, TRUE)
HandleExistenceCheck(t, c) == Enter(t, c, ~meta)
InvalidateKey(t, c) == Enter(t, c, ~meta)
Type(t, c) == Enter(t, c, TRUE)
Version(t, c) == Enter(t, c, TRUE)
HandleInternalRequest(t, c) == Enter(t, c, cross /\ ~meta)
InternalSpecialPaths(t, c) == Enter(t, c, cross)
HandleInternalExistenceCheck(t, c) == Enter(t, c, cross /\ ~meta)

\* The backend's method returns and the RPC replies.
Return(t) ==
    /\ pc[t] = "call"
    /\ pc' = [pc EXCEPT ![t] = "idle"]
    /\ rb' = [rb EXCEPT ![t] = NoBackend]
    /\ UNCHANGED <<mux, meta, cross, instances, owner, cleaned, setup, rid>>

\* Mutant: the delete of the single instance is left out.
CleanupMuxOnly(t, c) ==
    /\ pc[t] = "idle"
    /\ Lookup(c) # NoBackend
    /\ cleaned' = cleaned \cup {Lookup(c)}
    /\ instances' = IF mux THEN [instances EXCEPT ![c] = NoBackend]
                           ELSE instances
    /\ UNCHANGED <<mux, meta, cross, owner, setup, pc, rid, rb>>

\* Mutant: the entry is deleted without backend.Cleanup.
CleanupSkipsBackend(t, c) ==
    /\ pc[t] = "idle"
    /\ Lookup(c) # NoBackend
    /\ instances' = IF mux THEN [instances EXCEPT ![c] = NoBackend]
                           ELSE [instances EXCEPT ![Single] = NoBackend]
    /\ UNCHANGED <<mux, meta, cross, owner, cleaned, setup, pc, rid, rb>>

\* Cleanup, all under the write lock: the lookup, backend.Cleanup, the close
\* of the broker client, and the delete of the context's entry (with
\* multiplexing) or of the single instance.
Cleanup(t, c) ==
    /\ pc[t] = "idle"
    /\ Lookup(c) # NoBackend
    /\ cleaned' = cleaned \cup {Lookup(c)}
    /\ instances' = IF mux THEN [instances EXCEPT ![c] = NoBackend]
                           ELSE [instances EXCEPT ![Single] = NoBackend]
    /\ UNCHANGED <<mux, meta, cross, owner, setup, pc, rid, rb>>

\* The RPCs a goroutine may serve.
Serve(t, c) ==
    \/ HandleRequest(t, c) \/ Initialize(t, c) \/ SpecialPaths(t, c)
    \/ HandleExistenceCheck(t, c) \/ InvalidateKey(t, c) \/ Type(t, c)
    \/ Version(t, c) \/ HandleInternalRequest(t, c)
    \/ InternalSpecialPaths(t, c) \/ HandleInternalExistenceCheck(t, c)

Next ==
    \E t \in Rpcs :
        \/ SetupStore(t)
        \/ Return(t)
        \/ \E c \in Ctxs : SetupBegin(t, c) \/ Serve(t, c) \/ Cleanup(t, c)

Spec == Init /\ [][Next]_vars

-----------------------------------------------------------------------------
(* Properties.                                                            *)

TypeOK ==
    /\ mux \in BOOLEAN
    /\ meta \in BOOLEAN
    /\ cross \in BOOLEAN
    /\ owner \in Seq(Slots)
    /\ instances \in [Slots -> Backends \cup {NoBackend}]
    /\ cleaned \subseteq Backends
    /\ setup \subseteq Slots
    /\ pc \in [Rpcs -> {"idle", "store", "call"}]
    /\ rid \in [Rpcs -> Slots \cup Ctxs]
    /\ rb \in [Rpcs -> Backends \cup {NoBackend}]

\* The instance map never hands out a backend that has been cleaned up:
\* Cleanup deletes the entry of the backend it cleaned, in both modes.
InstancesLive ==
    \A s \in Slots : instances[s] # NoBackend => instances[s] \notin cleaned

\* With multiplexing, an RPC calls only into the backend that was set up
\* for its own multiplex ID, with that mount's storage: the fallback to
\* the single instance never serves another mount.
TenantIsolation ==
    mux => \A t \in Rpcs : pc[t] = "call" => owner[rb[t]] = rid[t]

\* Every backend the factory returned is in the map, about to be stored,
\* or cleaned up: none is dropped with its goroutines still running.
NoBackendLost ==
    \A b \in Backends :
        \/ b \in cleaned
        \/ b \in Range(instances)
        \/ \E t \in Rpcs : pc[t] = "store" /\ rb[t] = b

\* The invariant the proofs in PluginServerProofs rest on.  A backend in the
\* map sits under the ID it was set up for, which the host has set up, and
\* with multiplexing the single instance is never filled.  A goroutine about
\* to store holds a fresh backend for a set-up ID whose entry is still
\* empty, and no two goroutines store under one ID.  A goroutine in a call
\* holds a backend the factory returned, its own with multiplexing.
Owned ==
    \A s \in Slots :
        instances[s] # NoBackend => owner[instances[s]] = s /\ s \in setup

MuxNoSingle == mux => instances[Single] = NoBackend

StoreOK ==
    \A t \in Rpcs : pc[t] = "store" =>
        /\ rid[t] \in setup
        /\ mux => rid[t] \in Ids
        /\ rb[t] \in Backends \ cleaned
        /\ owner[rb[t]] = rid[t]
        /\ instances[rid[t]] = NoBackend

StoreUnique ==
    \A t1, t2 \in Rpcs :
        t1 # t2 /\ pc[t1] = "store" /\ pc[t2] = "store" => rid[t1] # rid[t2]

CallOK ==
    \A t \in Rpcs : pc[t] = "call" =>
        /\ rb[t] \in Backends
        /\ mux => owner[rb[t]] = rid[t]

PInv ==
    /\ TypeOK
    /\ InstancesLive
    /\ NoBackendLost
    /\ Owned
    /\ MuxNoSingle
    /\ StoreOK
    /\ StoreUnique
    /\ CallOK

=============================================================================

----------------------------- MODULE ProfileAPI -----------------------------
(***************************************************************************)
(* The sys/profiles endpoints of vault/logical_system_profiles.go over the *)
(* profile store of vault/profile_store.go.                                *)
(*                                                                         *)
(* Every handler makes one store call, and the store runs each call under  *)
(* its RWMutex (ProfileStore.tla), so a request is one atomic step here:   *)
(* the handler's own code, the store call, and the response it builds.     *)
(* The step records the request and its answer in last.                    *)
(*                                                                         *)
(* A profile path is a sequence of one or two segments (storage keys       *)
(* "s" and "s/u"); segments are numbers, ordered as the keys sort.  The    *)
(* requests a profile dispatches while it is executed are the subject of   *)
(* ProfileStore.tla and are left out here.                                  *)
(***************************************************************************)
EXTENDS Naturals, Integers, Sequences, FiniteSets

CONSTANTS
    Segs,        \* path segments
    CasValues,   \* the cas values a request body may carry
    Limits,      \* the limit values a list request may carry
    NoEntry,     \* no profile (a nil *ProfileEntry)
    NoCas,       \* a request without cas
    NoKey,       \* a list request without after
    NoPath       \* a request that names no profile

\* Segs and Limits are sets of naturals, CasValues a set of integers that
\* does not contain NoCas.

\* The sanitized storage paths of profiles.
Paths == {<<s>> : s \in Segs} \cup {<<s, u>> : s, u \in Segs}

\* A ProfileEntry; its text and description are left out.
Entries == [version : Int, casRequired : BOOLEAN, allowUnauth : BOOLEAN]

\* The keys a single-level listing returns: "s" for a profile, "s/" for a
\* directory.
ListKeys == [seg : Segs, dir : BOOLEAN]

Outcomes == {"ok", "error", "panic", "denied", "none", "required",
             "exists", "mismatch"}

VARIABLES
    store,   \* path -> entry in the profile view, or NoEntry
    last     \* the last request handled and its outcome

vars == <<store, last>>

Init ==
    /\ store = [p \in Paths |-> NoEntry]
    /\ last = [op |-> "none", path |-> NoPath, cas |-> NoCas, outcome |-> "ok"]

\* The request the step handles, and what it answered.
Respond(op, p, c, o) == last' = [op |-> op, path |-> p, cas |-> c, outcome |-> o]

-----------------------------------------------------------------------------
(* List and Scan                                                           *)

Stored == {p \in Paths : store[p] # NoEntry}

\* The key a single-level listing of the profile view shows for path p.
TopKey(p) == [seg |-> p[1], dir |-> Len(p) > 1]

\* Storage keys sort as strings: "s" < "s/" < "t".
KeyBefore(k, l) == k.seg < l.seg \/ (k.seg = l.seg /\ ~k.dir /\ l.dir)

\* view.ListPage(ctx, "", after, limit) on the profile view: the keys after
\* after, the first limit of them when limit is positive.
ListPage(after, limit) ==
    LET above == {k \in {TopKey(p) : p \in Stored} :
                    after = NoKey \/ KeyBefore(after, k)}
    IN  IF limit = 0 THEN above
        ELSE {k \in above : Cardinality({l \in above : KeyBefore(l, k)}) < limit}

\* getLocked(ctx, key) for a listed key, read from the root of the profile
\* view: a directory key "s/" names no storage entry, so it reads nil.
GetLocked(k) == IF k.dir THEN NoEntry ELSE store[<<k.seg>>]

\* List: the page of keys, then one getLocked per key; Scan: every stored
\* path (ScanView), one getLocked each.  The handler then builds a
\* key_info entry from every result, dereferencing it.
ListResults(scan, after, limit) ==
    IF scan THEN {store[p] : p \in Stored}
    ELSE {GetLocked(k) : k \in ListPage(after, limit)}

\* LIST or SCAN on sys/profiles/manage/: parent is "", after and limit
\* come from the request.  The listing may fail with a storage error.
ListRoot(scan, after, limit) ==
    /\ \/ Respond(IF scan THEN "scan" ELSE "list", NoPath, NoCas,
                  IF NoEntry \in ListResults(scan, after, limit)
                    THEN "panic" ELSE "ok")
       \/ Respond(IF scan THEN "scan" ELSE "list", NoPath, NoCas, "error")
    /\ UNCHANGED store

\* LIST or SCAN on sys/profiles/manage/<path>: the path's schema has a
\* "path" field, so the handler asks the request for "parent", a field the
\* schema does not declare, and FieldData.Get panics.
ListUnder(scan, p) ==
    /\ Respond(IF scan THEN "scan" ELSE "list", p, NoCas, "panic")
    /\ UNCHANGED store

-----------------------------------------------------------------------------
(* Read, Update, Delete, Execute                                          *)

\* GET sys/profiles/manage/<path>: Get, then createProfileDataResponse of
\* what it returned, which dereferences nil for a missing profile.
Read(p) ==
    /\ \/ Respond("read", p, NoCas,
                  IF store[p] = NoEntry THEN "panic" ELSE "ok")
       \/ Respond("read", p, NoCas, "error")
    /\ UNCHANGED store

\* The cas the update handler passes to Set: the "cas := new(int)" inside
\* the if declares a new variable, so the outer cas stays nil.
HandlerCas(c) == NoCas

\* Set's check-and-set decision on the entry getLocked returned; "panic"
\* is the nil dereference of existing.Version.
SetDecision(existing, e, c) ==
    LET required == (existing # NoEntry /\ existing.casRequired)
                    \/ e.casRequired
    IN  CASE c = NoCas /\ required        -> "required"
          [] c = NoCas                    -> "ok"
          [] c = -1 /\ existing # NoEntry -> "exists"
          [] c = -1                       -> "ok"
          [] existing = NoEntry           -> "panic"
          [] c # existing.version         -> "mismatch"
          [] OTHER                        -> "ok"

\* PUT sys/profiles/manage/<path>: the handler builds the entry from the
\* body (Version 0), and Set checks it under the write lock and writes it
\* as given; view.Put may fail.
Update(p, c, cr, au) ==
    LET e == [version |-> 0, casRequired |-> cr, allowUnauth |-> au]
        d == SetDecision(store[p], e, HandlerCas(c))
    IN  \/ /\ d # "ok"
           /\ Respond("update", p, c, d)
           /\ UNCHANGED store
        \/ /\ d = "ok"
           /\ store' = [store EXCEPT ![p] = e]
           /\ Respond("update", p, c, "ok")
        \/ /\ d = "ok"
           /\ Respond("update", p, c, "error")
           /\ UNCHANGED store

\* DELETE sys/profiles/manage/<path>: an unconditional view.Delete, which
\* may fail.
Delete(p) ==
    \/ /\ store' = [store EXCEPT ![p] = NoEntry]
       /\ Respond("delete", p, NoCas, "ok")
    \/ /\ Respond("delete", p, NoCas, "error")
       /\ UNCHANGED store

\* PUT sys/profiles/execute/<path> and unauthed-execute/<path>: Execute
\* denies an unauthenticated caller a missing or non-public profile,
\* answers nil for a missing one, and otherwise parses and runs it, which
\* may fail.
Execute(p, unauthed) ==
    LET e == store[p]
    IN  /\ \/ /\ unauthed /\ (e = NoEntry \/ ~e.allowUnauth)
              /\ Respond("execute", p, NoCas, "denied")
           \/ /\ ~unauthed /\ e = NoEntry
              /\ Respond("execute", p, NoCas, "none")
           \/ /\ e # NoEntry /\ (unauthed => e.allowUnauth)
              /\ \E o \in {"ok", "error"} : Respond("execute", p, NoCas, o)
        /\ UNCHANGED store

Next ==
    \/ \E scan \in BOOLEAN, after \in ListKeys \cup {NoKey}, limit \in Limits :
         ListRoot(scan, after, limit)
    \/ \E scan \in BOOLEAN, p \in Paths : ListUnder(scan, p)
    \/ \E p \in Paths : Read(p) \/ Delete(p)
    \/ \E p \in Paths, c \in CasValues \cup {NoCas}, cr, au \in BOOLEAN :
         Update(p, c, cr, au)
    \/ \E p \in Paths, u \in BOOLEAN : Execute(p, u)

Spec == Init /\ [][Next]_vars

-----------------------------------------------------------------------------
(* Properties                                                              *)

TypeOK ==
    /\ store \in [Paths -> Entries \cup {NoEntry}]
    /\ last \in [op : {"none", "list", "scan", "read", "update", "delete",
                       "execute"},
                 path : Paths \cup {NoPath}, cas : CasValues \cup {NoCas},
                 outcome : Outcomes]

\* Whether cas c lets a write over entry existing through (spec 4.4): -1
\* when there is no profile, the stored version otherwise.
CasHolds(existing, c) ==
    IF c = -1 THEN existing = NoEntry
    ELSE existing # NoEntry /\ c = existing.version

\* Spec 4.4 and 6, for PUT sys/profiles/manage/<path> with a cas in its
\* body: the update is accepted only when the cas holds against the stored
\* profile; a stale cas is refused, so two writers that read the same
\* version cannot both succeed.
UpdateHonoursCas ==
    [][(last'.op = "update" /\ last'.outcome = "ok" /\ last'.cas # NoCas)
         => CasHolds(store[last'.path], last'.cas)]_vars

=============================================================================

--------------------------- MODULE EngineAbstract ---------------------------
(***************************************************************************)
(* What one profile evaluation promises (spec sections 5 and 8): once the *)
(* profile is accepted, its requests are dispatched one at a time in       *)
(* declared order; a request whose fields fail to resolve aborts the      *)
(* evaluation; a failure not allowed by allow_failure aborts it when the   *)
(* handler reports an error; the history records every dispatched request *)
(* and the responses of the successful ones; after the last request the   *)
(* output is resolved.  The outer blocks are gone: a program is the flat   *)
(* sequence of its requests.  Unlike spec S4, a field that reads a        *)
(* response missing from the history does not abort: the code renders it *)
(* as "<no value>" (the deps of a request are kept only to say what it     *)
(* reads).                                                                 *)
(***************************************************************************)
EXTENDS Integers, Sequences

CONSTANTS
    Keys,      \* history keys
    Programs,  \* [decl: Seq of requests, valid: BOOLEAN, output]
    NoOutput   \* a program without an output

VARIABLES
    prog,      \* the program being evaluated
    n,         \* the index of the next request in prog.decl
    stage,     \* "new", "run" or "done"
    calls,     \* the requests dispatched, in order, with their outcomes
    hreq,      \* the keys of the requests in the history
    hresp,     \* the keys of the responses in the history
    result,    \* "none", "invalid", "ok" or "error"
    cancelled  \* the caller's context has been cancelled

avars == <<prog, n, stage, calls, hreq, hresp, result, cancelled>>

Init ==
    /\ prog \in Programs
    /\ n = 1
    /\ stage = "new"
    /\ calls = <<>>
    /\ hreq = {}
    /\ hresp = {}
    /\ result = "none"
    /\ cancelled = FALSE

\* The field resolves on its own.
Ready(x) == ~x.bad

Cur == prog.decl[n]

Accept ==
    /\ stage = "new"
    /\ IF prog.valid THEN stage' = "run" /\ UNCHANGED result
                     ELSE stage' = "done" /\ result' = "invalid"
    /\ UNCHANGED <<prog, n, calls, hreq, hresp, cancelled>>

Dispatch ==
    /\ stage = "run"
    /\ n <= Len(prog.decl)
    /\ Ready(Cur)
    /\ \E out \in {"ok", "err", "errresp", "errnil"} :
         /\ calls' = Append(calls, [key |-> Cur.key, deps |-> Cur.deps,
                                    allow |-> Cur.allow, out |-> out,
                                    cancelled |-> cancelled])
         /\ IF out \in {"err", "errresp"} /\ ~Cur.allow
              THEN stage' = "done" /\ result' = "error"
                   /\ UNCHANGED <<n, hreq, hresp>>
              ELSE /\ hreq' = hreq \cup {Cur.key}
                   /\ hresp' = IF out = "ok" THEN hresp \cup {Cur.key}
                                             ELSE hresp
                   /\ n' = n + 1
                   /\ UNCHANGED <<stage, result>>
    /\ UNCHANGED <<prog, cancelled>>

Abort ==
    /\ stage = "run"
    /\ n <= Len(prog.decl)
    /\ ~Ready(Cur)
    /\ stage' = "done"
    /\ result' = "error"
    /\ UNCHANGED <<prog, n, calls, hreq, hresp, cancelled>>

Finish ==
    /\ stage = "run"
    /\ n > Len(prog.decl)
    /\ stage' = "done"
    /\ result' = IF prog.output = NoOutput \/ Ready(prog.output)
                   THEN "ok" ELSE "error"
    /\ UNCHANGED <<prog, n, calls, hreq, hresp, cancelled>>

Cancel ==
    /\ stage # "done"
    /\ ~cancelled
    /\ cancelled' = TRUE
    /\ UNCHANGED <<prog, n, stage, calls, hreq, hresp, result>>

Next == Accept \/ Dispatch \/ Abort \/ Finish \/ Cancel

Spec == Init /\ [][Next]_avars

=============================================================================

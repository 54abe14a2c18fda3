---------------------------- MODULE ProfileEngine ----------------------------
(***************************************************************************)
(* One evaluation by the ProfileEngine of helper/profiles/profiles.go:     *)
(* NewEngine's validation, then evaluateHistory's walk of the outer blocks *)
(* and, inside each, of the requests in declared order.  For each request  *)
(* buildRequest resolves its fields (which may read the responses of      *)
(* earlier requests), the request handler is called, and the request and, *)
(* on success, the response are added to the evaluation history.  A       *)
(* failure aborts the evaluation, unless the request allows failure or    *)
(* the handler's error response carries no error value.  With an output   *)
(* block, EvaluateResponse then resolves the output fields.                *)
(*                                                                         *)
(* The caller's context may be cancelled at any moment.  The engine never *)
(* looks at it; the request handler (core.HandleRequest, not in this      *)
(* model) may fail with it or ignore it, so its outcome stays free.        *)
(*                                                                         *)
(* Field values are abstracted to what decides the control flow: the      *)
(* responses a field reads through the response/template sources, and the *)
(* eval_source/eval_type markers of its typed field, with whether the     *)
(* source's Validate accepts its arguments and whether its value renders  *)
(* and converts.                                                           *)
(***************************************************************************)
EXTENDS Integers, Sequences, SequencesExt

CONSTANTS
    Names,       \* outer-block and request names
    ValidNames,  \* the names matching ^[A-Za-z_][A-Za-z0-9_-]*$
    Unnamed,     \* the empty name ""
    Profiles,    \* the parsed profiles an evaluation may be given
    NoOutput     \* a profile without an output block

ASSUME EngineAssumption ==
    /\ ValidNames \subseteq Names
    /\ Unnamed \in Names \ ValidNames

\* The key of a request in the evaluation history:
\* (outerBlock.Type, requestBlock.Type).
Keys == Names \X Names

\* The map of a field as maybeEvaluateTypedField sees it: whether it has
\* eval_source and eval_type and their values, whether the source's
\* Validate accepts the other keys (template: a string template and a map
\* of data; input: a string field_name in the request schema; cel: a
\* well-formed expression and variables), and whether Evaluate and the
\* conversion to eval_type succeed on the value it produces.
Fields == [hasSrc : BOOLEAN, src : STRING, hasType : BOOLEAN, type : STRING,
           args : BOOLEAN, value : BOOLEAN]

\* A RequestConfig: the history entries its fields read, its dynamic
\* field, and the value allow_failure resolves to.
Requests == [type : Names, deps : SUBSET Keys, field : Fields,
             allow : BOOLEAN]

\* An OuterConfig, and an OutputConfig (the responses its fields read).
Blocks == [type : Names, reqs : Seq(Requests)]
Outputs == [deps : SUBSET Keys, field : Fields]

\* The engine options Execute passes: the outer block name, the parsed
\* profile, the output configuration and the input binding: no input
\* block, or one whose fields and the request's data pass validate's
\* step 6, or one that fails it (a field already in the request schema,
\* schema validation, a missing required field).
Engines == [outerName : Names, blocks : Seq(Blocks),
            output : Outputs \cup {NoOutput}, input : {"none", "ok", "bad"}]

\* NoOutput stands for the nil output block: it is no output
\* configuration, neither as parsed nor as the flat evaluation sees it.
ASSUME ProfilesAssumption ==
    /\ Profiles \subseteq Engines
    /\ NoOutput \notin Outputs
    /\ NoOutput \notin [deps : SUBSET Keys, bad : BOOLEAN]

\* validateNameConvention
NameOK(n) == n \in ValidNames

\* The names in a sequence of named things are distinct.
Distinct(s) == \A i, j \in DOMAIN s : i # j => s[i].type # s[j].type

\* ProfileEngine.validate, with validateOuterBlockUniqueness,
\* validateRequestNameUniqueness and validateNameConvention.  Engines
\* built by Execute always have a request handler and input parameters.
Valid(e) ==
    /\ Len(e.blocks) > 1 => e.outerName # Unnamed
    /\ Len(e.blocks) > 1 =>
         /\ \A i \in DOMAIN e.blocks : e.blocks[i].type # Unnamed
         /\ Distinct(e.blocks)
    /\ \A i \in DOMAIN e.blocks :
         /\ \A j \in DOMAIN e.blocks[i].reqs :
              e.blocks[i].reqs[j].type # Unnamed
         /\ Distinct(e.blocks[i].reqs)
    /\ \A i \in DOMAIN e.blocks :
         /\ NameOK(e.blocks[i].type)
         /\ \A j \in DOMAIN e.blocks[i].reqs : NameOK(e.blocks[i].reqs[j].type)
    /\ e.input # "bad"

\* The source builders of an engine built by Execute: WithRequestSource,
\* WithResponseSource, WithTemplateSource, and WithInputSource, which
\* registers the input source only for a profile with an input block.
Registered(e) ==
    {"request", "response", "template"} \cup
        (IF e.input = "none" THEN {} ELSE {"input"})

\* The eval_type values convertToType accepts.
KnownTypes == {"", "string", "int", "float64", "bool", "[]string", "map",
               "map[string]interface{}", "any", "interface{}"}

\* The two markers are both present or both absent.
Paired(f) == f.hasSrc = f.hasType

\* A map without markers is returned as resolved.
Literal(f) == ~f.hasSrc /\ ~f.hasType

\* The source's Validate accepts the field's other keys.
SourceValidate(f) == f.args

\* The source's Evaluate produces a value, and convertToType converts it.
SourceEvaluate(f) == f.value

\* What can be known of a field before any request runs: its markers are
\* paired, and a typed field names a registered source whose Validate
\* accepts it and a type convertToType knows.
StaticOK(f, e) ==
    /\ Paired(f)
    /\ \/ Literal(f)
       \/ f.src \in Registered(e) /\ SourceValidate(f) /\ f.type \in KnownTypes

\* maybeEvaluateTypedField and evaluateTypedField succeed on the field.
FieldOK(f, e) == StaticOK(f, e) /\ (Literal(f) \/ SourceEvaluate(f))

VARIABLES
    prof,       \* the engine's configuration
    phase,      \* "new", "seek", "call", "output" or "done"
    oi, ri,     \* outerIndex, requestIndex (1-based)
    calls,      \* the requests handed to the request handler, in order
    hreq,       \* the keys of the requests in the evaluation history
    hresp,      \* the keys of the responses in the evaluation history
    result,     \* "none", "invalid" (NewEngine failed), "ok" or "error"
    cancelled   \* the caller's context has been cancelled

vars == <<prof, phase, oi, ri, calls, hreq, hresp, result, cancelled>>

\* A call of the request handler: the request's key, what its fields read,
\* its allow_failure, the outcome ("ok"; "err": an error; "errresp": an
\* error response whose Error() is an error; "errnil": an error response
\* whose "error" is neither a string nor an error, so Error() is nil) and
\* whether the context was already cancelled.
Outcomes == {"ok", "err", "errresp", "errnil"}
Calls == [key : Keys, deps : SUBSET Keys, allow : BOOLEAN,
          out : Outcomes, cancelled : BOOLEAN]

\* The block and the request evaluateHistory is at.
Block == prof.blocks[oi]
Req == Block.reqs[ri]
KeyOf == <<Block.type, Req.type>>

\* Mutant: an error response (resp.IsError()) not counted as a failure.
IsFailureNoErrResp(out) == out = "err"

\* The handler's result is a failure: err != nil || resp.IsError().
IsFailure(out) == out # "ok"

\* After err = resp.Error() for an error response, err != nil.
ReturnsErr(out) == out \in {"err", "errresp"}

Init ==
    /\ prof \in Profiles
    /\ phase = "new"
    /\ oi = 1
    /\ ri = 1
    /\ calls = <<>>
    /\ hreq = {}
    /\ hresp = {}
    /\ result = "none"
    /\ cancelled = FALSE

\* NewEngine: apply the options, then validate.
Construct ==
    /\ phase = "new"
    /\ IF Valid(prof)
         THEN phase' = "seek" /\ UNCHANGED result
         ELSE phase' = "done" /\ result' = "invalid"
    /\ UNCHANGED <<prof, oi, ri, calls, hreq, hresp, cancelled>>

\* Mutants: the request index carried over into the next block, and reset
\* to Go's 0-based first index.
NextBlockKeepIndex ==
    /\ phase = "seek"
    /\ oi <= Len(prof.blocks)
    /\ ri > Len(Block.reqs)
    /\ oi' = oi + 1
    /\ UNCHANGED <<prof, phase, ri, calls, hreq, hresp, result, cancelled>>

NextBlockZeroIndex ==
    /\ phase = "seek"
    /\ oi <= Len(prof.blocks)
    /\ ri > Len(Block.reqs)
    /\ oi' = oi + 1
    /\ ri' = 0
    /\ UNCHANGED <<prof, phase, calls, hreq, hresp, result, cancelled>>

\* The request loop of an outer block is exhausted: the next outer block.
NextBlock ==
    /\ phase = "seek"
    /\ oi <= Len(prof.blocks)
    /\ ri > Len(Block.reqs)
    /\ oi' = oi + 1
    /\ ri' = 1
    /\ UNCHANGED <<prof, phase, calls, hreq, hresp, result, cancelled>>

\* The outer loop is exhausted: Evaluate returns, or EvaluateResponse
\* goes on to evaluateOutput.
EndWalk ==
    /\ phase = "seek"
    /\ oi > Len(prof.blocks)
    /\ IF prof.output = NoOutput
         THEN phase' = "done" /\ result' = "ok"
         ELSE phase' = "output" /\ UNCHANGED result
    /\ UNCHANGED <<prof, oi, ri, calls, hreq, hresp, cancelled>>

\* A field resolves.  Whether the responses it reads are in the history
\* does not matter: the template source's Validate reports no reads, and
\* text/template renders a missing entry of eh.Responses as "<no value>".
Resolves(x) == FieldOK(x.field, prof)

\* buildRequest: resolve operation, path, token, data and allow_failure; a
\* failure returns an error, which evaluateRequest and evaluateHistory
\* return.
BuildRequest ==
    /\ phase = "seek"
    /\ oi <= Len(prof.blocks)
    /\ ri <= Len(Block.reqs)
    /\ IF Resolves(Req)
         THEN phase' = "call" /\ UNCHANGED result
         ELSE phase' = "done" /\ result' = "error"
    /\ UNCHANGED <<prof, oi, ri, calls, hreq, hresp, cancelled>>

\* evaluateRequest after buildRequest: call the handler; a failure of a
\* request not allowed to fail is returned when err != nil; otherwise
\* AddRequest, and AddResponse unless it failed.
CallHandler ==
    /\ phase = "call"
    /\ \E out \in Outcomes :
         /\ calls' = Append(calls, [key |-> KeyOf, deps |-> Req.deps,
                                    allow |-> Req.allow, out |-> out,
                                    cancelled |-> cancelled])
         /\ IF ~Req.allow /\ IsFailure(out) /\ ReturnsErr(out)
              THEN /\ phase' = "done"
                   /\ result' = "error"
                   /\ UNCHANGED <<ri, hreq, hresp>>
              ELSE /\ hreq' = hreq \cup {KeyOf}
                   /\ hresp' = IF IsFailure(out) THEN hresp
                                                 ELSE hresp \cup {KeyOf}
                   /\ ri' = ri + 1
                   /\ phase' = "seek"
                   /\ UNCHANGED result
    /\ UNCHANGED <<prof, oi, cancelled>>

\* Mutant: an output whose field errors are dropped.
EvaluateOutputLenient ==
    /\ phase = "output"
    /\ phase' = "done"
    /\ result' = "ok"
    /\ UNCHANGED <<prof, oi, ri, calls, hreq, hresp, cancelled>>

\* evaluateOutput: resolve the output data and headers.
EvaluateOutput ==
    /\ phase = "output"
    /\ phase' = "done"
    /\ result' = IF Resolves(prof.output) THEN "ok" ELSE "error"
    /\ UNCHANGED <<prof, oi, ri, calls, hreq, hresp, cancelled>>

\* The caller cancels the context of the request that runs the profile.
Cancel ==
    /\ phase # "done"
    /\ ~cancelled
    /\ cancelled' = TRUE
    /\ UNCHANGED <<prof, phase, oi, ri, calls, hreq, hresp, result>>

Next ==
    \/ Construct \/ NextBlock \/ EndWalk \/ BuildRequest \/ CallHandler
    \/ EvaluateOutput \/ Cancel

\* An evaluation ends; it then does nothing more.
Spec == Init /\ [][Next]_vars

-----------------------------------------------------------------------------
(* The declared order: the requests of all outer blocks, block by block.  *)

\* The requests of a sequence of outer blocks of engine e, flattened in
\* order, each with whether its field fails on its own.
FlatBlocks(bs, e) ==
    FlattenSeq([i \in DOMAIN bs |->
                  [j \in DOMAIN bs[i].reqs |->
                     [key |-> <<bs[i].type, bs[i].reqs[j].type>>,
                      deps |-> bs[i].reqs[j].deps,
                      allow |-> bs[i].reqs[j].allow,
                      field |-> bs[i].reqs[j].field,
                      bad |-> ~FieldOK(bs[i].reqs[j].field, e)]]])

Flat(e) == FlatBlocks(e.blocks, e)

Declared == [k \in DOMAIN Flat(prof) |-> Flat(prof)[k].key]
CallKeys == [i \in DOMAIN calls |-> calls[i].key]

\* A failure evaluateRequest returns, ending the evaluation.
Fatal(c) == ~c.allow /\ c.out \in {"err", "errresp"}

\* The keys of the requests among the first n calls that the history
\* records, and of those whose response it records.
RecordedKeys(n) == {calls[i].key : i \in {j \in 1..n : ~Fatal(calls[j])}}
AnsweredKeys(n) == {calls[i].key : i \in {j \in 1..n : calls[j].out = "ok"}}

TypeOK ==
    /\ prof \in Profiles
    /\ phase \in {"new", "seek", "call", "output", "done"}
    /\ oi \in 1..Len(prof.blocks) + 1
    /\ ri \in Nat \ {0}
    /\ calls \in Seq(Calls)
    /\ hreq \subseteq Keys
    /\ hresp \subseteq Keys
    /\ result \in {"none", "invalid", "ok", "error"}
    /\ cancelled \in BOOLEAN

\* Spec 8.2 (history monotonicity), for evaluateRequest's AddRequest and
\* AddResponse: the history holds the request of every call that did not
\* abort the evaluation, and the response of exactly the calls that
\* succeeded; a failure that does not abort (allowed, or an error response
\* whose Error() is nil) leaves a request without its response.
HistoryMatchesCalls ==
    /\ hreq = RecordedKeys(Len(calls))
    /\ hresp = AnsweredKeys(Len(calls))

\* Spec I7, for evaluateHistory's nested loops: the handler sees the
\* requests in declared order, each once, and an evaluation that returns
\* success has dispatched every declared request without a fatal failure.
CallsFollowDeclaration ==
    /\ IsPrefix(CallKeys, Declared)
    /\ result = "ok" =>
         /\ CallKeys = Declared
         /\ \A i \in DOMAIN calls : ~Fatal(calls[i])

\* Spec S4 and section 9 (forward references), for buildRequest and the
\* template source: a request is handed to the handler only once every
\* response its fields read was recorded by an earlier successful call;
\* a read of the response of an allowed failure, or of a later request,
\* fails the evaluation instead.
DispatchSeesDeps ==
    \A i \in DOMAIN calls : calls[i].deps \subseteq AnsweredKeys(i - 1)

\* Between buildRequest and the handler call, the engine is at a request
\* of the profile whose fields resolve.
CallReady ==
    phase = "call" =>
        /\ oi \in 1..Len(prof.blocks)
        /\ ri \in 1..Len(Block.reqs)
        /\ Resolves(Req)

\* The inductive invariant behind HistoryMatchesCalls.
EInv == TypeOK /\ HistoryMatchesCalls /\ CallReady

\* Spec section 5 (cancellation), for evaluateHistory: once the caller's
\* context is cancelled, no request dispatched after it lets the
\* evaluation return success, even with allow_failure.
CancellationSurfaced ==
    result = "ok" => \A i \in DOMAIN calls : ~calls[i].cancelled

\* The profile reads a response no earlier declared request produces.
HasForwardRef(e) ==
    \E k \in DOMAIN Flat(e) :
        ~(Flat(e)[k].deps \subseteq {Flat(e)[j].key : j \in 1..k - 1})

\* The profile has an error that needs no request to run: a forward
\* reference, or a field that is not StaticOK, in a request or the output.
HasConfigError(e) ==
    \/ HasForwardRef(e)
    \/ \E k \in DOMAIN Flat(e) : ~StaticOK(Flat(e)[k].field, e)
    \/ e.output # NoOutput /\ ~StaticOK(e.output.field, e)

\* Spec sections 4.3 and 9, for validate and evaluateTypedField: NewEngine
\* checks invariants I5 (every eval_source is registered) and I6 (the
\* markers are paired), and forward references; an error of the profile
\* itself is caught before any request is dispatched.
ConfigCaughtAtValidate ==
    HasConfigError(prof) => calls = <<>>


-----------------------------------------------------------------------------
(* Refinement: one evaluation implements EngineAbstract.  The position    *)
(* (oi, ri) maps to the index of the request in the flat declared order;  *)
(* the moves between blocks and a successful buildRequest are stutters.    *)

Program(e) ==
    [decl |-> Flat(e), valid |-> Valid(e),
     output |-> IF e.output = NoOutput THEN NoOutput
                ELSE [deps |-> e.output.deps,
                      bad |-> ~FieldOK(e.output.field, e)]]

AbsN == Len(FlatBlocks(SubSeq(prof.blocks, 1, oi - 1), prof)) + ri

AbsStage ==
    CASE phase = "new" -> "new"
      [] phase = "done" -> "done"
      [] OTHER -> "run"

\* Before NewEngine the walk is at its start and nothing was called.
NewAtStart == phase = "new" => oi = 1 /\ ri = 1 /\ calls = <<>>

\* Only the step that ends an evaluation sets its result.
PendingResult == phase # "done" => result = "none"

\* While the walk runs, the calls made are the requests before the one at
\* (oi, ri), and the request index stays within its block (one past its
\* last request once the block is done).
WalkPosition ==
    phase \in {"seek", "call", "output"} =>
        /\ Len(calls) = AbsN - 1
        /\ IF oi <= Len(prof.blocks) THEN ri <= Len(Block.reqs) + 1
                                     ELSE ri = 1

\* The output is evaluated only after the last outer block.
OutputAtEnd ==
    phase = "output" => oi = Len(prof.blocks) + 1 /\ prof.output # NoOutput

\* The keys called so far are a prefix of the declared order.
CallsArePrefix ==
    /\ Len(calls) <= Len(Declared)
    /\ CallKeys = SubSeq(Declared, 1, Len(calls))

\* Only the call that ended the evaluation may be fatal.
OnlyLastFatal ==
    \A i \in DOMAIN calls : Fatal(calls[i]) => i = Len(calls) /\ result = "error"

\* A successful evaluation made every declared call.
OkComplete == result = "ok" => Len(calls) = Len(Declared)

\* The inductive invariant behind CallsFollowDeclaration and the
\* refinement.
DInv ==
    /\ NewAtStart
    /\ PendingResult
    /\ WalkPosition
    /\ OutputAtEnd
    /\ CallsArePrefix
    /\ OnlyLastFatal
    /\ OkComplete

Abs == INSTANCE EngineAbstract
         WITH Programs <- {Program(e) : e \in Profiles},
              prog <- Program(prof), n <- AbsN, stage <- AbsStage

\* The engine's walk of outer blocks and requests dispatches, aborts and
\* finishes exactly as the flat sequential evaluation of the spec does.
ImplementsAbstract == Abs!Spec

=============================================================================

------------------------- MODULE ProfileEngineProofs -------------------------
(***************************************************************************)
(* Proofs about ProfileEngine, for every set of names and every set of    *)
(* profiles: the evaluation history always matches the calls made, and   *)
(* a request reaches the handler only from a position of the profile      *)
(* whose fields resolved.                                                  *)
(***************************************************************************)
EXTENDS ProfileEngine, TLAPS

\* A call of the handler is well typed when the engine is at a request of
\* the profile.
LEMMA CallType ==
  ASSUME TypeOK, CallReady, phase = "call", NEW out \in Outcomes
  PROVE  [key |-> KeyOf, deps |-> Req.deps, allow |-> Req.allow, out |-> out,
          cancelled |-> cancelled] \in Calls
  <1>1. prof \in Engines
    BY ProfilesAssumption DEF TypeOK
  <1>2. Block \in Blocks
    BY <1>1 DEF CallReady, Block, Engines
  <1>3. Req \in Requests
    BY <1>2 DEF CallReady, Req, Blocks
  <1>4. QED
    BY <1>2, <1>3 DEF TypeOK, KeyOf, Calls, Keys, Blocks, Requests

\* Appending a call leaves the keys recorded for earlier prefixes alone and
\* adds the new call's key to the request keys unless it is fatal, and to
\* the response keys when it succeeded.
LEMMA AppendKeys ==
  ASSUME calls \in Seq(Calls), NEW c \in Calls, calls' = Append(calls, c),
         NEW L \in Nat, Len(calls) = L
  PROVE  /\ \A n \in 0..L : /\ RecordedKeys(n)' = RecordedKeys(n)
                            /\ AnsweredKeys(n)' = AnsweredKeys(n)
         /\ RecordedKeys(L + 1)' =
              RecordedKeys(L) \cup (IF Fatal(c) THEN {} ELSE {c.key})
         /\ AnsweredKeys(L + 1)' =
              AnsweredKeys(L) \cup (IF c.out = "ok" THEN {c.key} ELSE {})
  <1>1. /\ Len(calls') = L + 1
        /\ \A i \in 1..L : calls'[i] = calls[i]
        /\ calls'[L + 1] = c
    OBVIOUS
  <1>2. \A n \in 0..L : /\ RecordedKeys(n)' = RecordedKeys(n)
                        /\ AnsweredKeys(n)' = AnsweredKeys(n)
    <2> SUFFICES ASSUME NEW n \in 0..L
                 PROVE  /\ RecordedKeys(n)' = RecordedKeys(n)
                        /\ AnsweredKeys(n)' = AnsweredKeys(n)
      OBVIOUS
    <2>1. \A i \in 1..n : calls'[i] = calls[i]
      BY <1>1
    <2>2. QED
      BY <2>1 DEF RecordedKeys, AnsweredKeys
  <1>3. RecordedKeys(L + 1)' =
          RecordedKeys(L) \cup (IF Fatal(c) THEN {} ELSE {c.key})
    <2>1. RecordedKeys(L)' = RecordedKeys(L)
      <3>1. L \in 0..L
        OBVIOUS
      <3>2. QED
        BY <3>1, <1>2
    <2> DEFINE S(m) == {j \in 1..m : ~Fatal(calls'[j])}
               K(X) == {calls'[i].key : i \in X}
    <2>2. S(L + 1) =
            S(L) \cup (IF Fatal(c) THEN {} ELSE {L + 1})
      BY <1>1
    <2>3. /\ RecordedKeys(L + 1)' = K(S(L + 1))
          /\ RecordedKeys(L)' = K(S(L))
      BY DEF RecordedKeys
    <2>4. K(S(L) \cup (IF Fatal(c) THEN {} ELSE {L + 1}))
            = K(S(L)) \cup (IF Fatal(c) THEN {} ELSE {c.key})
      BY <1>1
    <2>5. RecordedKeys(L + 1)' =
            RecordedKeys(L)' \cup (IF Fatal(c) THEN {} ELSE {c.key})
      BY <2>2, <2>3, <2>4
    <2>6. QED
      BY <2>1, <2>5
  <1>4. AnsweredKeys(L + 1)' =
          AnsweredKeys(L) \cup (IF c.out = "ok" THEN {c.key} ELSE {})
    <2>1. AnsweredKeys(L)' = AnsweredKeys(L)
      <3>1. L \in 0..L
        OBVIOUS
      <3>2. QED
        BY <3>1, <1>2
    <2> DEFINE S(m) == {j \in 1..m : calls'[j].out = "ok"}
               K(X) == {calls'[i].key : i \in X}
    <2>2. S(L + 1) =
            S(L) \cup (IF c.out = "ok" THEN {L + 1} ELSE {})
      BY <1>1
    <2>3. /\ AnsweredKeys(L + 1)' = K(S(L + 1))
          /\ AnsweredKeys(L)' = K(S(L))
      BY DEF AnsweredKeys
    <2>4. K(S(L) \cup (IF c.out = "ok" THEN {L + 1} ELSE {}))
            = K(S(L)) \cup (IF c.out = "ok" THEN {c.key} ELSE {})
      BY <1>1
    <2>5. AnsweredKeys(L + 1)' =
            AnsweredKeys(L)' \cup (IF c.out = "ok" THEN {c.key} ELSE {})
      BY <2>2, <2>3, <2>4
    <2>6. QED
      BY <2>1, <2>5
  <1>5. QED
    BY <1>2, <1>3, <1>4

\* A step that leaves the calls and the history alone preserves the
\* history properties.
LEMMA HistoryFrame ==
  ASSUME HistoryMatchesCalls, UNCHANGED <<calls, hreq, hresp>>
  PROVE  HistoryMatchesCalls'
  BY DEF HistoryMatchesCalls, RecordedKeys, AnsweredKeys, Fatal

-----------------------------------------------------------------------------
(* Initially nothing has been called and the history is empty.            *)
LEMMA InitEInv == Init => EInv
  <1> SUFFICES ASSUME Init PROVE EInv
    OBVIOUS
  <1>1. prof \in Engines
    BY ProfilesAssumption DEF Init
  <1>2. TypeOK
    <2>1. Len(prof.blocks) \in Nat
      BY <1>1 DEF Engines
    <2>2. oi \in 1..Len(prof.blocks) + 1 /\ ri \in Nat \ {0}
      BY <2>1 DEF Init
    <2>3. calls \in Seq(Calls) /\ hreq \subseteq Keys /\ hresp \subseteq Keys
      BY DEF Init
    <2>4. QED
      BY <2>2, <2>3 DEF Init, TypeOK
  <1>3. HistoryMatchesCalls /\ CallReady
    BY DEF Init, HistoryMatchesCalls, CallReady, RecordedKeys, AnsweredKeys
  <1>4. QED
    BY <1>2, <1>3 DEF EInv

-----------------------------------------------------------------------------
(* The steps that do not call the handler.  None of them touches the calls *)
(* or the history, and only buildRequest enters the "call" phase, from a  *)
(* request whose fields resolve.                                           *)

LEMMA ConstructStep == EInv /\ Construct => EInv'
  <1> SUFFICES ASSUME EInv, Construct PROVE EInv'
    OBVIOUS
  <1>1. HistoryMatchesCalls'
    BY HistoryFrame DEF EInv, Construct
  <1>2. TypeOK' /\ CallReady'
    BY DEF EInv, TypeOK, CallReady, Construct
  <1>3. QED
    BY <1>1, <1>2 DEF EInv

LEMMA NextBlockStep == EInv /\ NextBlock => EInv'
  <1> SUFFICES ASSUME EInv, NextBlock PROVE EInv'
    OBVIOUS
  <1>1. HistoryMatchesCalls'
    BY HistoryFrame DEF EInv, NextBlock
  <1>2. Len(prof.blocks) \in Nat
    BY ProfilesAssumption DEF EInv, TypeOK, Engines
  <1>3. TypeOK' /\ CallReady'
    BY <1>2 DEF EInv, TypeOK, CallReady, NextBlock
  <1>4. QED
    BY <1>1, <1>3 DEF EInv

LEMMA EndWalkStep == EInv /\ EndWalk => EInv'
  <1> SUFFICES ASSUME EInv, EndWalk PROVE EInv'
    OBVIOUS
  <1>1. HistoryMatchesCalls'
    BY HistoryFrame DEF EInv, EndWalk
  <1>2. TypeOK' /\ CallReady'
    BY DEF EInv, TypeOK, CallReady, EndWalk
  <1>3. QED
    BY <1>1, <1>2 DEF EInv

LEMMA BuildRequestStep == EInv /\ BuildRequest => EInv'
  <1> SUFFICES ASSUME EInv, BuildRequest PROVE EInv'
    OBVIOUS
  <1>1. HistoryMatchesCalls'
    BY HistoryFrame DEF EInv, BuildRequest
  <1>2. TypeOK'
    BY DEF EInv, TypeOK, BuildRequest
  <1>3. CallReady'
    <2> SUFFICES ASSUME phase' = "call" PROVE CallReady'
      BY DEF CallReady
    <2>1. Resolves(Req) /\ oi \in 1..Len(prof.blocks)
                        /\ ri \in 1..Len(Block.reqs)
      BY DEF BuildRequest, EInv, TypeOK
    <2>2. QED
      BY <2>1 DEF BuildRequest, CallReady, Resolves, Req, Block
  <1>4. QED
    BY <1>1, <1>2, <1>3 DEF EInv

LEMMA EvaluateOutputStep == EInv /\ EvaluateOutput => EInv'
  <1> SUFFICES ASSUME EInv, EvaluateOutput PROVE EInv'
    OBVIOUS
  <1>1. HistoryMatchesCalls'
    BY HistoryFrame DEF EInv, EvaluateOutput
  <1>2. TypeOK' /\ CallReady'
    BY DEF EInv, TypeOK, CallReady, EvaluateOutput
  <1>3. QED
    BY <1>1, <1>2 DEF EInv

LEMMA CancelStep == EInv /\ Cancel => EInv'
  <1> SUFFICES ASSUME EInv, Cancel PROVE EInv'
    OBVIOUS
  <1>1. HistoryMatchesCalls'
    BY HistoryFrame DEF EInv, Cancel
  <1>2. TypeOK' /\ CallReady'
    BY DEF EInv, TypeOK, CallReady, Cancel, Resolves, Req, Block
  <1>3. QED
    BY <1>1, <1>2 DEF EInv

-----------------------------------------------------------------------------
(* The handler call.  It appends one call; the history gains its request  *)
(* unless it is fatal and its response when it succeeded, exactly as the  *)
(* appended call adds to RecordedKeys and AnsweredKeys.                   *)
LEMMA CallHandlerStep == EInv /\ CallHandler => EInv'
  <1> SUFFICES ASSUME EInv, CallHandler PROVE EInv'
    OBVIOUS
  <1>0. PICK L \in Nat : L = Len(calls)
    BY DEF EInv, TypeOK
  <1>1. PICK out \in Outcomes :
          /\ calls' = Append(calls, [key |-> KeyOf, deps |-> Req.deps,
                                     allow |-> Req.allow, out |-> out,
                                     cancelled |-> cancelled])
          /\ IF ~Req.allow /\ IsFailure(out) /\ ReturnsErr(out)
               THEN /\ phase' = "done"
                    /\ result' = "error"
                    /\ UNCHANGED <<ri, hreq, hresp>>
               ELSE /\ hreq' = hreq \cup {KeyOf}
                    /\ hresp' = IF IsFailure(out) THEN hresp
                                                  ELSE hresp \cup {KeyOf}
                    /\ ri' = ri + 1
                    /\ phase' = "seek"
                    /\ UNCHANGED result
    BY DEF CallHandler
  <1> DEFINE c == [key |-> KeyOf, deps |-> Req.deps, allow |-> Req.allow,
                   out |-> out, cancelled |-> cancelled]
  <1>2. c \in Calls
    BY CallType DEF EInv, CallHandler
  <1>3. /\ calls \in Seq(Calls)
        /\ calls' = Append(calls, c)
        /\ Len(calls') = L + 1
    BY <1>0, <1>1 DEF EInv, TypeOK
  <1>4. /\ \A n \in 0..L : /\ RecordedKeys(n)' = RecordedKeys(n)
                          /\ AnsweredKeys(n)' = AnsweredKeys(n)
        /\ RecordedKeys(L + 1)' =
             RecordedKeys(L) \cup (IF Fatal(c) THEN {} ELSE {c.key})
        /\ AnsweredKeys(L + 1)' =
             AnsweredKeys(L) \cup (IF c.out = "ok" THEN {c.key} ELSE {})
    BY <1>0, <1>2, <1>3, AppendKeys
  <1>5. Fatal(c) <=> ~Req.allow /\ IsFailure(out) /\ ReturnsErr(out)
    BY DEF Fatal, IsFailure, ReturnsErr
  <1>6. HistoryMatchesCalls'
    <2>1. hreq' = RecordedKeys(L + 1)'
      <3>1. CASE ~Req.allow /\ IsFailure(out) /\ ReturnsErr(out)
        BY <1>0, <1>1, <1>4, <1>5, <3>1 DEF EInv, HistoryMatchesCalls
      <3>2. CASE ~(~Req.allow /\ IsFailure(out) /\ ReturnsErr(out))
        BY <1>0, <1>1, <1>4, <1>5, <3>2 DEF EInv, HistoryMatchesCalls
      <3>3. QED
        BY <3>1, <3>2
    <2>2. hresp' = AnsweredKeys(L + 1)'
      <3>1. CASE ~Req.allow /\ IsFailure(out) /\ ReturnsErr(out)
        BY <1>0, <1>1, <1>4, <3>1 DEF EInv, HistoryMatchesCalls, IsFailure
      <3>2. CASE ~(~Req.allow /\ IsFailure(out) /\ ReturnsErr(out))
        BY <1>0, <1>1, <1>4, <3>2 DEF EInv, HistoryMatchesCalls, IsFailure
      <3>3. QED
        BY <3>1, <3>2
    <2>3. QED
      BY <1>0, <1>3, <2>1, <2>2 DEF HistoryMatchesCalls
  <1>8. TypeOK'
    <2>1. KeyOf \in Keys
      BY <1>2 DEF Calls
    <2>2. QED
      BY <1>0, <1>1, <1>2, <1>3, <2>1 DEF EInv, TypeOK, CallHandler
  <1>9. CallReady'
    BY <1>1 DEF CallReady
  <1>10. QED
    BY <1>6, <1>8, <1>9 DEF EInv

-----------------------------------------------------------------------------
(* EInv is inductive.                                                      *)
LEMMA NextEInv == EInv /\ [Next]_vars => EInv'
  <1> SUFFICES ASSUME EInv, [Next]_vars PROVE EInv'
    OBVIOUS
  <1>1. CASE UNCHANGED vars
    BY <1>1 DEF vars, EInv, TypeOK, HistoryMatchesCalls, CallReady,
                RecordedKeys, AnsweredKeys, Fatal, Resolves, Req, Block
  <1>2. QED
    BY <1>1, ConstructStep, NextBlockStep, EndWalkStep, BuildRequestStep,
       CallHandlerStep, EvaluateOutputStep, CancelStep DEF Next

\* Spec 8.2 for every profile: in every evaluation the history is exactly
\* what the handler calls so far left in it (evaluateRequest's AddRequest
\* and AddResponse: the request of every call evaluateRequest did not
\* return from with an error, the response of every successful one), and
\* the handler is called only at a request of the profile whose fields
\* resolved in buildRequest.
THEOREM EngineSafety == Spec => []EInv
  BY InitEInv, NextEInv, PTL DEF Spec

\* HistoryMatchesCalls holds in every state of every evaluation.
THEOREM HistoryMatches == Spec => []HistoryMatchesCalls
  BY EngineSafety, PTL DEF EInv

\* Every reachable state of a profile evaluation has the types TypeOK gives
\* its phase, block and request indices, call list, history and result.
THEOREM EngineTypeSafe == Spec => []TypeOK
  BY EngineSafety, PTL DEF EInv

=============================================================================

-------------------------- MODULE EngineOrderProofs --------------------------
(***************************************************************************)
(* Proofs that evaluateHistory's nested walk of outer blocks and requests *)
(* dispatches the requests in declared order (CallsFollowDeclaration), and *)
(* that the engine implements the flat evaluation of EngineAbstract       *)
(* (ImplementsAbstract), for every set of names and profiles.             *)
(*                                                                         *)
(* The declared order is FlattenSeq of one row of requests per outer      *)
(* block.  The position (oi, ri) of the walk maps to the number of        *)
(* requests in the blocks before oi plus ri; FlattenLemmas says where     *)
(* that position lies in the flat sequence.                                *)
(***************************************************************************)
EXTENDS ProfileEngineProofs, FlattenLemmas

\* The flat records of the requests of outer block b of engine e, as
\* FlatBlocks builds them.
Row(b, e) ==
    [j \in DOMAIN b.reqs |->
       [key |-> <<b.type, b.reqs[j].type>>, deps |-> b.reqs[j].deps,
        allow |-> b.reqs[j].allow, field |-> b.reqs[j].field,
        bad |-> ~FieldOK(b.reqs[j].field, e)]]

\* One row per outer block.
Rows(e) == [i \in DOMAIN e.blocks |-> Row(e.blocks[i], e)]

FlatRecs == [key : Keys, deps : SUBSET Keys, allow : BOOLEAN, field : Fields,
             bad : BOOLEAN]

\* The abstract index of position (o, r) of the walk over engine e.
AbsAt(e, o, r) == Len(FlatBlocks(SubSeq(e.blocks, 1, o - 1), e)) + r

\* The rows are sequences of flat records, one per request.
LEMMA RowsType ==
  ASSUME NEW e \in Engines
  PROVE  /\ Rows(e) \in Seq(Seq(FlatRecs))
         /\ Len(Rows(e)) = Len(e.blocks)
         /\ \A i \in 1..Len(e.blocks) : Len(Rows(e)[i]) = Len(e.blocks[i].reqs)
  <1>1. e.blocks \in Seq(Blocks)
    BY DEF Engines
  <1>2. \A i \in 1..Len(e.blocks) : Row(e.blocks[i], e) \in Seq(FlatRecs)
    <2> SUFFICES ASSUME NEW i \in 1..Len(e.blocks)
                 PROVE  Row(e.blocks[i], e) \in Seq(FlatRecs)
      OBVIOUS
    <2>1. e.blocks[i] \in Blocks
      BY <1>1
    <2>2. e.blocks[i].reqs \in Seq(Requests) /\ e.blocks[i].type \in Names
      BY <2>1 DEF Blocks
    <2> DEFINE b == e.blocks[i]
    <2>3. \A j \in 1..Len(b.reqs) : Row(b, e)[j] \in FlatRecs
      <3> SUFFICES ASSUME NEW j \in 1..Len(b.reqs)
                   PROVE  Row(b, e)[j] \in FlatRecs
        OBVIOUS
      <3>1. b.reqs[j] \in Requests
        BY <2>2
      <3>2. <<b.type, b.reqs[j].type>> \in Keys
        BY <2>2, <3>1 DEF Requests, Keys
      <3>3. QED
        BY <3>1, <3>2 DEF Row, FlatRecs, Requests
    <2>4. Row(b, e) = [j \in 1..Len(b.reqs) |-> Row(b, e)[j]]
      BY <2>2 DEF Row
    <2>4a. Row(b, e) \in [1..Len(b.reqs) -> FlatRecs]
      BY <2>3, <2>4, Zenon
    <2>5. QED
      BY <2>2, <2>4a
  <1>3. QED
    BY <1>1, <1>2 DEF Rows, Row

\* The flat sequence of a prefix of the blocks is FlatPre of the rows.
LEMMA FlatBlocksPre ==
  ASSUME NEW e \in Engines, NEW k \in 0..Len(e.blocks)
  PROVE  FlatBlocks(SubSeq(e.blocks, 1, k), e) = FlatPre(Rows(e), k)
  <1>1. e.blocks \in Seq(Blocks)
    BY DEF Engines
  <1>2. [i \in DOMAIN SubSeq(e.blocks, 1, k) |->
           Row(SubSeq(e.blocks, 1, k)[i], e)] = SubSeq(Rows(e), 1, k)
    BY <1>1 DEF Rows
  <1>3. FlatBlocks(SubSeq(e.blocks, 1, k), e) =
          FlattenSeq([i \in DOMAIN SubSeq(e.blocks, 1, k) |->
                        Row(SubSeq(e.blocks, 1, k)[i], e)])
    BY DEF FlatBlocks, Row
  <1>4. QED
    BY <1>2, <1>3 DEF FlatPre

\* The declared order is FlattenSeq of the rows.
LEMMA FlatIsRows ==
  ASSUME NEW e \in Engines
  PROVE  /\ Flat(e) = FlattenSeq(Rows(e))
         /\ Flat(e) \in Seq(FlatRecs)
  <1>1. Flat(e) = FlattenSeq(Rows(e))
    BY DEF Flat, FlatBlocks, Rows, Row
  <1>2. Rows(e) \in Seq(Seq(FlatRecs))
    BY RowsType
  <1>3. FlatPre(Rows(e), Len(Rows(e))) = FlattenSeq(Rows(e))
    BY <1>2, FlatPreEnds, Zenon
  <1>4. FlatPre(Rows(e), Len(Rows(e))) \in Seq(FlatRecs)
    <2>1. Len(Rows(e)) \in 0..Len(Rows(e))
      BY <1>2
    <2>2. QED
      BY <1>2, <2>1, FlatPreType, Zenon
  <1>5. QED
    BY <1>1, <1>3, <1>4
\* The requests before outer block o are a sequence of flat records, as
\* many as FlatPre of the rows has.
LEMMA BeforeBlock ==
  ASSUME NEW e \in Engines, NEW o \in 1..Len(e.blocks) + 1
  PROVE  /\ FlatBlocks(SubSeq(e.blocks, 1, o - 1), e) = FlatPre(Rows(e), o - 1)
         /\ FlatPre(Rows(e), o - 1) \in Seq(FlatRecs)
         /\ Len(FlatBlocks(SubSeq(e.blocks, 1, o - 1), e)) \in Nat
  <1>1. o - 1 \in 0..Len(e.blocks)
    OBVIOUS
  <1>2. FlatBlocks(SubSeq(e.blocks, 1, o - 1), e) = FlatPre(Rows(e), o - 1)
    BY <1>1, FlatBlocksPre, Zenon
  <1>3. Rows(e) \in Seq(Seq(FlatRecs)) /\ Len(Rows(e)) = Len(e.blocks)
    BY RowsType
  <1>4. FlatPre(Rows(e), o - 1) \in Seq(FlatRecs)
    <2>1. o - 1 \in 0..Len(Rows(e))
      BY <1>1, <1>3
    <2>2. QED
      BY <1>3, <2>1, FlatPreType, Zenon
  <1>5. QED
    BY <1>2, <1>4

\* Concatenation adds lengths.
LEMMA ConcatLen ==
  ASSUME NEW T, NEW a \in Seq(T), NEW c \in Seq(T)
  PROVE  Len(a \o c) = Len(a) + Len(c)
  OBVIOUS

\* The walk starts at the first request of the declared order.
LEMMA AbsAtStart ==
  ASSUME NEW e \in Engines
  PROVE  AbsAt(e, 1, 1) = 1
  <1>1. FlatBlocks(SubSeq(e.blocks, 1, 0), e) = FlatPre(Rows(e), 0)
    <2>1. 0 \in 0..Len(e.blocks)
      BY DEF Engines
    <2>2. QED
      BY <2>1, FlatBlocksPre, Zenon
  <1>2. FlatPre(Rows(e), 0) = <<>>
    BY RowsType, FlatPreEnds, Zenon
  <1>3. QED
    BY <1>1, <1>2 DEF AbsAt

\* Request r of outer block o is at position AbsAt(e, o, r) of the declared
\* order.
LEMMA AbsAtReq ==
  ASSUME NEW e \in Engines, NEW o \in 1..Len(e.blocks),
         NEW r \in 1..Len(e.blocks[o].reqs)
  PROVE  /\ AbsAt(e, o, r) \in 1..Len(Flat(e))
         /\ Flat(e)[AbsAt(e, o, r)] = Row(e.blocks[o], e)[r]
  <1>1. /\ Rows(e) \in Seq(Seq(FlatRecs))
        /\ Len(Rows(e)) = Len(e.blocks)
        /\ Len(Rows(e)[o]) = Len(e.blocks[o].reqs)
    BY RowsType
  <1>2. o \in 1..Len(Rows(e)) /\ r \in 1..Len(Rows(e)[o])
    BY <1>1
  <1>3. /\ Len(FlatPre(Rows(e), o - 1)) + r <= Len(FlattenSeq(Rows(e)))
        /\ FlattenSeq(Rows(e))[Len(FlatPre(Rows(e), o - 1)) + r] = Rows(e)[o][r]
    BY <1>1, <1>2, FlatAt, Zenon
  <1>4. /\ FlatBlocks(SubSeq(e.blocks, 1, o - 1), e) = FlatPre(Rows(e), o - 1)
        /\ FlatPre(Rows(e), o - 1) \in Seq(FlatRecs)
    <2>1. o \in 1..Len(e.blocks) + 1
      OBVIOUS
    <2>2. QED
      BY <2>1, BeforeBlock, Zenon
  <1>5. AbsAt(e, o, r) = Len(FlatPre(Rows(e), o - 1)) + r
    BY <1>4 DEF AbsAt
  <1>6. Flat(e) = FlattenSeq(Rows(e))
    BY FlatIsRows
  <1>7. Rows(e)[o] = Row(e.blocks[o], e)
    BY DEF Rows
  <1>8. QED
    BY <1>3, <1>4, <1>5, <1>6, <1>7

\* The position one past the last request of block o is the first of
\* block o + 1.
LEMMA AbsAtBlockEnd ==
  ASSUME NEW e \in Engines, NEW o \in 1..Len(e.blocks)
  PROVE  AbsAt(e, o + 1, 1) = AbsAt(e, o, Len(e.blocks[o].reqs) + 1)
  <1>1. /\ Rows(e) \in Seq(Seq(FlatRecs))
        /\ Len(Rows(e)) = Len(e.blocks)
        /\ Len(Rows(e)[o]) = Len(e.blocks[o].reqs)
    BY RowsType
  <1>2. FlatPre(Rows(e), (o - 1) + 1) = FlatPre(Rows(e), o - 1) \o Rows(e)[(o - 1) + 1]
    <2>1. o - 1 \in 0..Len(Rows(e)) - 1
      BY <1>1
    <2>2. QED
      BY <1>1, <2>1, FlatPreStep, Zenon
  <1>2a. (o - 1) + 1 = o
    BY DEF Engines
  <1>3. FlatPre(Rows(e), o) = FlatPre(Rows(e), o - 1) \o Rows(e)[o]
    BY <1>2, <1>2a, Zenon
  <1>4. /\ FlatBlocks(SubSeq(e.blocks, 1, o - 1), e) = FlatPre(Rows(e), o - 1)
        /\ FlatPre(Rows(e), o - 1) \in Seq(FlatRecs)
    <2>1. o \in 1..Len(e.blocks) + 1
      OBVIOUS
    <2>2. QED
      BY <2>1, BeforeBlock, Zenon
  <1>5. FlatBlocks(SubSeq(e.blocks, 1, (o + 1) - 1), e) = FlatPre(Rows(e), (o + 1) - 1)
    <2>1. o + 1 \in 1..Len(e.blocks) + 1
      OBVIOUS
    <2>2. QED
      BY <2>1, BeforeBlock, Zenon
  <1>5a. (o + 1) - 1 = o
    BY DEF Engines
  <1>6. FlatBlocks(SubSeq(e.blocks, 1, o), e) = FlatPre(Rows(e), o)
    BY <1>5, <1>5a, Zenon
  <1>7. Rows(e)[o] \in Seq(FlatRecs)
    BY <1>1
  <1>8. Len(FlatPre(Rows(e), o)) = Len(FlatPre(Rows(e), o - 1)) + Len(e.blocks[o].reqs)
    <2>1. Len(FlatPre(Rows(e), o - 1) \o Rows(e)[o])
            = Len(FlatPre(Rows(e), o - 1)) + Len(Rows(e)[o])
      BY <1>4, <1>7, ConcatLen, Zenon
    <2>2. QED
      BY <1>1, <1>3, <2>1
  <1>9. QED
    <2>1. /\ Len(FlatPre(Rows(e), o - 1)) \in Nat
          /\ Len(e.blocks[o].reqs) \in Nat
      BY <1>1, <1>4
    <2>2. PICK C \in Nat, D \in Nat :
            C = Len(FlatPre(Rows(e), o - 1)) /\ D = Len(e.blocks[o].reqs)
      BY <2>1
    <2>3. AbsAt(e, o + 1, 1) = (C + D) + 1
      BY <1>6, <1>5a, <1>8, <2>2, Zenon DEF AbsAt
    <2>4. AbsAt(e, o, Len(e.blocks[o].reqs) + 1) = C + (D + 1)
      BY <1>4, <2>2, Zenon DEF AbsAt
    <2>5. (C + D) + 1 = C + (D + 1)
      OBVIOUS
    <2>6. QED
      BY <2>3, <2>4, <2>5, Zenon

\* Past the last block, the walk is one past the last declared request.
LEMMA AbsAtEnd ==
  ASSUME NEW e \in Engines
  PROVE  AbsAt(e, Len(e.blocks) + 1, 1) = Len(Flat(e)) + 1
  <1>1. FlatBlocks(SubSeq(e.blocks, 1, (Len(e.blocks) + 1) - 1), e)
          = FlatPre(Rows(e), (Len(e.blocks) + 1) - 1)
    <2>1. Len(e.blocks) + 1 \in 1..Len(e.blocks) + 1
      BY DEF Engines
    <2>2. QED
      BY <2>1, BeforeBlock, Zenon
  <1>2. (Len(e.blocks) + 1) - 1 = Len(e.blocks)
    BY DEF Engines
  <1>3. Rows(e) \in Seq(Seq(FlatRecs)) /\ Len(Rows(e)) = Len(e.blocks)
    BY RowsType
  <1>4. FlatPre(Rows(e), Len(Rows(e))) = FlattenSeq(Rows(e))
    BY <1>3, FlatPreEnds, Zenon
  <1>5. Flat(e) = FlattenSeq(Rows(e))
    BY FlatIsRows
  <1>6. QED
    BY <1>1, <1>2, <1>3, <1>4, <1>5 DEF AbsAt
-----------------------------------------------------------------------------
(* The declared order as the state sees it.                               *)

\* The abstract index of the walk's position.
LEMMA AbsNIsAbsAt == AbsN = AbsAt(prof, oi, ri)
  BY DEF AbsN, AbsAt

\* The keys of a sequence of records with keys form a sequence as long.
LEMMA KeySeq ==
  ASSUME NEW S, NEW s \in Seq(S), \A x \in S : x.key \in Keys
  PROVE  /\ [i \in DOMAIN s |-> s[i].key] \in Seq(Keys)
         /\ Len([i \in DOMAIN s |-> s[i].key]) = Len(s)
  <1>1. DOMAIN s = 1..Len(s) /\ \A i \in 1..Len(s) : s[i] \in S
    OBVIOUS
  <1>2. [i \in DOMAIN s |-> s[i].key] \in [1..Len(s) -> Keys]
    BY <1>1, Zenon
  <1>3. QED
    BY <1>1, <1>2

\* Declared is the sequence of the keys of the declared order.
LEMMA DeclaredType ==
  ASSUME TypeOK
  PROVE  /\ prof \in Engines
         /\ Declared \in Seq(Keys)
         /\ Len(Declared) = Len(Flat(prof))
         /\ \A k \in 1..Len(Flat(prof)) : Declared[k] = Flat(prof)[k].key
  <1>1. prof \in Engines
    BY ProfilesAssumption DEF TypeOK
  <1>2. Flat(prof) \in Seq(FlatRecs)
    BY <1>1, FlatIsRows
  <1>3. \A x \in FlatRecs : x.key \in Keys
    BY DEF FlatRecs
  <1>4. Declared \in Seq(Keys) /\ Len(Declared) = Len(Flat(prof))
    BY <1>2, <1>3, KeySeq, Zenon DEF Declared
  <1>5. QED
    BY <1>1, <1>2, <1>4 DEF Declared

\* CallKeys is a sequence of keys as long as calls.
LEMMA CallKeysType ==
  ASSUME TypeOK
  PROVE  CallKeys \in Seq(Keys) /\ Len(CallKeys) = Len(calls)
  <1>1. calls \in Seq(Calls) /\ \A x \in Calls : x.key \in Keys
    BY DEF TypeOK, Calls
  <1>2. QED
    BY <1>1, KeySeq, Zenon DEF CallKeys

\* Extending a prefix by one element.
LEMMA SubSeqAppend ==
  ASSUME NEW T, NEW s \in Seq(T), NEW n \in 0..Len(s) - 1
  PROVE  SubSeq(s, 1, n + 1) = Append(SubSeq(s, 1, n), s[n + 1])
  OBVIOUS

\* The initial state satisfies the order invariant.
LEMMA InitDInv == Init => DInv
  <1> SUFFICES ASSUME Init PROVE DInv
    OBVIOUS
  <1>1. prof \in Engines
    BY ProfilesAssumption DEF Init
  <1>2. Flat(prof) \in Seq(FlatRecs)
    BY <1>1, FlatIsRows
  <1>3. Declared \in Seq(Keys)
    <2>1. TypeOK
      BY InitEInv DEF EInv
    <2>2. QED
      BY <2>1, DeclaredType
  <1>4. CallKeys = <<>> /\ SubSeq(Declared, 1, 0) = <<>>
    BY <1>3 DEF Init, CallKeys
  <1>5. QED
    BY <1>3, <1>4 DEF Init, DInv, NewAtStart, PendingResult, WalkPosition,
                      OutputAtEnd, CallsArePrefix, OnlyLastFatal, OkComplete

\* Before the result is set, no call was fatal.
LEMMA NoFatalPending ==
  ASSUME OnlyLastFatal, result = "none"
  PROVE  \A i \in DOMAIN calls : ~Fatal(calls[i])
  BY DEF OnlyLastFatal

\* At the end of the walk every declared request has been called.
LEMMA WalkEnd ==
  ASSUME TypeOK, WalkPosition, phase \in {"seek", "call", "output"},
         oi = Len(prof.blocks) + 1
  PROVE  Len(calls) = Len(Declared)
  <1>1. prof \in Engines /\ Len(Declared) = Len(Flat(prof))
    BY DeclaredType
  <1>2. ri = 1
    <2>1. Len(prof.blocks) \in Nat
      BY <1>1 DEF Engines
    <2>2. ~(oi <= Len(prof.blocks))
      BY <2>1
    <2>3. QED
      BY <2>2 DEF WalkPosition
  <1>3. AbsN = Len(Flat(prof)) + 1
    BY <1>1, <1>2, AbsNIsAbsAt, AbsAtEnd
  <1>4. Len(calls) = AbsN - 1
    BY DEF WalkPosition
  <1>5. Len(Flat(prof)) \in Nat
    BY <1>1, FlatIsRows
  <1>6. QED
    BY <1>1, <1>3, <1>4, <1>5

\* A step that leaves the profile and the calls alone keeps them a prefix
\* of the declared order.
LEMMA PrefixFrame ==
  ASSUME CallsArePrefix, UNCHANGED <<prof, calls>>
  PROVE  CallsArePrefix'
  BY DEF CallsArePrefix, Declared, CallKeys

-----------------------------------------------------------------------------
(* The steps that do not call the handler.                                *)

LEMMA ConstructDInv == TypeOK /\ DInv /\ Construct => DInv'
  <1> SUFFICES ASSUME TypeOK, DInv, Construct PROVE DInv'
    OBVIOUS
  <1>1. prof \in Engines /\ phase = "new" /\ oi = 1 /\ ri = 1 /\ calls = <<>>
    BY ProfilesAssumption DEF TypeOK, DInv, NewAtStart, Construct
  <1>2. NewAtStart' /\ PendingResult' /\ OutputAtEnd' /\ OkComplete'
    BY <1>1 DEF DInv, PendingResult, Construct, NewAtStart, OutputAtEnd,
                OkComplete
  <1>3. WalkPosition'
    <2>1. AbsN = 1
      BY <1>1, AbsNIsAbsAt, AbsAtStart
    <2>2. oi <= Len(prof.blocks) => ri <= Len(Block.reqs) + 1
      <3>1. ASSUME oi <= Len(prof.blocks) PROVE Block \in Blocks
        BY <1>1, <3>1 DEF Engines, Block
      <3>2. QED
        BY <1>1, <3>1 DEF Blocks
    <2>3. QED
      BY <1>1, <2>1, <2>2 DEF WalkPosition, Construct, AbsN, Block
  <1>4. CallsArePrefix'
    BY PrefixFrame DEF DInv, Construct
  <1>5. OnlyLastFatal'
    BY <1>1 DEF OnlyLastFatal, Construct
  <1>6. QED
    BY <1>2, <1>3, <1>4, <1>5 DEF DInv

\* Moving to the next outer block does not move the abstract index: the
\* request index was one past the block's last request.
LEMMA NextBlockAbsN == TypeOK /\ DInv /\ NextBlock => AbsN' = AbsN
  <1> SUFFICES ASSUME TypeOK, DInv, NextBlock PROVE AbsN' = AbsN
    OBVIOUS
  <1>1. prof \in Engines /\ oi \in 1..Len(prof.blocks)
    BY ProfilesAssumption DEF TypeOK, NextBlock
  <1>2. ri = Len(Block.reqs) + 1
    <2>1. Len(Block.reqs) \in Nat
      BY <1>1 DEF Engines, Blocks, Block
    <2>2. QED
      BY <1>1, <2>1 DEF DInv, WalkPosition, NextBlock, TypeOK
  <1>3. AbsN' = AbsAt(prof, oi + 1, 1)
    BY DEF NextBlock, AbsN, AbsAt
  <1>4. AbsAt(prof, oi + 1, 1) = AbsAt(prof, oi, Len(Block.reqs) + 1)
    BY <1>1, AbsAtBlockEnd DEF Block
  <1>5. QED
    BY <1>2, <1>3, <1>4, AbsNIsAbsAt

LEMMA NextBlockDInv == TypeOK /\ DInv /\ NextBlock => DInv'
  <1> SUFFICES ASSUME TypeOK, DInv, NextBlock PROVE DInv'
    OBVIOUS
  <1>1. prof \in Engines /\ oi \in 1..Len(prof.blocks)
    BY ProfilesAssumption DEF TypeOK, NextBlock
  <1>2. AbsN' = AbsN
    BY NextBlockAbsN
  <1>3. WalkPosition'
    <2>1. oi + 1 <= Len(prof.blocks) => ri' <= Len(Block'.reqs) + 1
      <3>1. ASSUME oi + 1 <= Len(prof.blocks) PROVE Block' \in Blocks
        BY <1>1, <3>1 DEF Engines, Block, NextBlock
      <3>2. QED
        BY <3>1 DEF Blocks, NextBlock
    <2>2. QED
      BY <1>2, <2>1 DEF DInv, WalkPosition, NextBlock
  <1>4. CallsArePrefix'
    BY PrefixFrame DEF DInv, NextBlock
  <1>5. QED
    BY <1>3, <1>4 DEF DInv, NextBlock, NewAtStart, PendingResult,
                      OutputAtEnd, OnlyLastFatal, OkComplete

LEMMA EndWalkDInv == TypeOK /\ DInv /\ EndWalk => DInv'
  <1> SUFFICES ASSUME TypeOK, DInv, EndWalk PROVE DInv'
    OBVIOUS
  <1>1. oi = Len(prof.blocks) + 1 /\ result = "none"
    BY DEF TypeOK, EndWalk, DInv, PendingResult
  <1>2. Len(calls) = Len(Declared)
    BY <1>1, WalkEnd DEF DInv, EndWalk
  <1>3. \A i \in DOMAIN calls : ~Fatal(calls[i])
    BY <1>1, NoFatalPending DEF DInv
  <1>4. CallsArePrefix'
    BY PrefixFrame DEF DInv, EndWalk
  <1>5. OkComplete' /\ OnlyLastFatal'
    BY <1>2, <1>3 DEF EndWalk, OkComplete, OnlyLastFatal, Declared
  <1>6. NewAtStart' /\ PendingResult' /\ WalkPosition' /\ OutputAtEnd'
    BY <1>1 DEF DInv, EndWalk, NewAtStart, PendingResult, WalkPosition,
                OutputAtEnd, AbsN, Block
  <1>7. QED
    BY <1>4, <1>5, <1>6 DEF DInv

LEMMA BuildRequestDInv == TypeOK /\ DInv /\ BuildRequest => DInv'
  <1> SUFFICES ASSUME TypeOK, DInv, BuildRequest PROVE DInv'
    OBVIOUS
  <1>1. result = "none" /\ result' \in {"none", "error"}
    BY DEF BuildRequest, DInv, PendingResult
  <1>2. \A i \in DOMAIN calls : ~Fatal(calls[i])
    BY <1>1, NoFatalPending DEF DInv
  <1>3. CallsArePrefix'
    BY PrefixFrame DEF DInv, BuildRequest
  <1>4. OkComplete' /\ OnlyLastFatal'
    BY <1>1, <1>2 DEF BuildRequest, OkComplete, OnlyLastFatal
  <1>5. NewAtStart' /\ PendingResult' /\ WalkPosition' /\ OutputAtEnd'
    BY DEF DInv, BuildRequest, NewAtStart, PendingResult, WalkPosition,
           OutputAtEnd, AbsN, Block
  <1>6. QED
    BY <1>3, <1>4, <1>5 DEF DInv

LEMMA EvaluateOutputDInv == TypeOK /\ DInv /\ EvaluateOutput => DInv'
  <1> SUFFICES ASSUME TypeOK, DInv, EvaluateOutput PROVE DInv'
    OBVIOUS
  <1>1. oi = Len(prof.blocks) + 1 /\ result = "none"
    BY DEF EvaluateOutput, DInv, PendingResult, OutputAtEnd
  <1>2. Len(calls) = Len(Declared)
    BY <1>1, WalkEnd DEF DInv, EvaluateOutput
  <1>3. \A i \in DOMAIN calls : ~Fatal(calls[i])
    BY <1>1, NoFatalPending DEF DInv
  <1>4. CallsArePrefix'
    BY PrefixFrame DEF DInv, EvaluateOutput
  <1>5. OkComplete' /\ OnlyLastFatal'
    BY <1>2, <1>3 DEF EvaluateOutput, OkComplete, OnlyLastFatal, Declared
  <1>6. NewAtStart' /\ PendingResult' /\ WalkPosition' /\ OutputAtEnd'
    BY DEF EvaluateOutput, NewAtStart, PendingResult, WalkPosition,
           OutputAtEnd
  <1>7. QED
    BY <1>4, <1>5, <1>6 DEF DInv

LEMMA CancelDInv == TypeOK /\ DInv /\ Cancel => DInv'
  <1> SUFFICES ASSUME TypeOK, DInv, Cancel PROVE DInv'
    OBVIOUS
  <1>1. CallsArePrefix'
    BY PrefixFrame DEF DInv, Cancel
  <1>2. QED
    BY <1>1 DEF DInv, Cancel, NewAtStart, PendingResult, WalkPosition,
                OutputAtEnd, OnlyLastFatal, OkComplete, AbsN, Block, Declared

-----------------------------------------------------------------------------
(* The handler call.  The request at (oi, ri) is the declared request at  *)
(* index AbsN, one past the calls made so far, so appending its key keeps *)
(* the calls a prefix of the declared order; a call that is not fatal     *)
(* moves the walk to the next request, a fatal one ends the evaluation.   *)

\* The keys of the calls after one more call.
LEMMA CallKeysAppend ==
  ASSUME NEW c \in Calls, calls \in Seq(Calls), calls' = Append(calls, c)
  PROVE  CallKeys' = Append(CallKeys, c.key)
  BY DEF CallKeys

LEMMA CallHandlerDInv == EInv /\ DInv /\ CallHandler => DInv'
  <1> SUFFICES ASSUME EInv, DInv, CallHandler PROVE DInv'
    OBVIOUS
  <1>1. /\ prof \in Engines
        /\ oi \in 1..Len(prof.blocks)
        /\ ri \in 1..Len(Block.reqs)
        /\ phase = "call"
        /\ result = "none"
    BY ProfilesAssumption DEF EInv, TypeOK, CallReady, CallHandler, DInv,
                              PendingResult
  <1>2. PICK L \in Nat : L = Len(calls)
    BY DEF EInv, TypeOK
  <1>3. PICK out \in Outcomes :
          /\ calls' = Append(calls, [key |-> KeyOf, deps |-> Req.deps,
                                     allow |-> Req.allow, out |-> out,
                                     cancelled |-> cancelled])
          /\ IF ~Req.allow /\ IsFailure(out) /\ ReturnsErr(out)
               THEN /\ phase' = "done"
                    /\ result' = "error"
                    /\ UNCHANGED <<ri, hreq, hresp>>
               ELSE /\ hreq' = hreq \cup {KeyOf}
                    /\ hresp' = IF IsFailure(out) THEN hresp
                                                  ELSE hresp \cup {KeyOf}
                    /\ ri' = ri + 1
                    /\ phase' = "seek"
                    /\ UNCHANGED result
    BY DEF CallHandler
  <1> DEFINE c == [key |-> KeyOf, deps |-> Req.deps, allow |-> Req.allow,
                   out |-> out, cancelled |-> cancelled]
  <1>4. c \in Calls /\ calls \in Seq(Calls) /\ calls' = Append(calls, c)
        /\ Len(calls') = L + 1
    BY <1>2, <1>3, CallType DEF EInv, TypeOK, CallHandler
  <1>6. AbsN \in 1..Len(Flat(prof)) /\ Flat(prof)[AbsN].key = KeyOf
    <2>1. AbsAt(prof, oi, ri) \in 1..Len(Flat(prof))
          /\ Flat(prof)[AbsAt(prof, oi, ri)] = Row(Block, prof)[ri]
      BY <1>1, AbsAtReq DEF Block
    <2>2. Row(Block, prof)[ri].key = KeyOf
      BY <1>1 DEF Row, KeyOf, Req
    <2>3. QED
      BY <2>1, <2>2, AbsNIsAbsAt
  <1>5. AbsN = L + 1
    <2>1. Len(calls) = AbsN - 1
      BY <1>1 DEF DInv, WalkPosition
    <2>2. QED
      BY <1>2, <1>6, <2>1
  <1>7. Declared \in Seq(Keys) /\ Len(Declared) = Len(Flat(prof))
        /\ Declared[L + 1] = KeyOf
    BY <1>5, <1>6, DeclaredType DEF EInv
  <1>8. CallsArePrefix'
    <2>1. CallKeys = SubSeq(Declared, 1, L) /\ L \in 0..Len(Declared) - 1
      BY <1>2, <1>5, <1>6, <1>7 DEF DInv, CallsArePrefix
    <2>2. CallKeys' = Append(SubSeq(Declared, 1, L), KeyOf)
      BY <1>4, <2>1, CallKeysAppend
    <2>3. SubSeq(Declared, 1, L + 1) = Append(SubSeq(Declared, 1, L), KeyOf)
      BY <1>7, <2>1, SubSeqAppend
    <2>4. Declared' = Declared
      BY DEF CallHandler, Declared
    <2>5. QED
      BY <1>4, <1>5, <1>6, <1>7, <2>2, <2>3, <2>4 DEF CallsArePrefix
  <1>9. \A i \in 1..L : calls'[i] = calls[i] /\ ~Fatal(calls[i])
    <2>1. \A i \in DOMAIN calls : ~Fatal(calls[i])
      BY <1>1, NoFatalPending DEF DInv
    <2>2. \A i \in 1..L : calls'[i] = calls[i]
      BY <1>2, <1>4
    <2>3. QED
      BY <1>2, <1>4, <2>1, <2>2
  <1>10. CASE ~Req.allow /\ IsFailure(out) /\ ReturnsErr(out)
    <2>1. phase' = "done" /\ result' = "error"
      BY <1>3, <1>10
    <2>2. OnlyLastFatal'
      BY <1>4, <1>9, <2>1 DEF OnlyLastFatal
    <2>3. QED
      BY <1>8, <2>1, <2>2 DEF DInv, NewAtStart, PendingResult, WalkPosition,
                              OutputAtEnd, OkComplete
  <1>11. CASE ~(~Req.allow /\ IsFailure(out) /\ ReturnsErr(out))
    <2>1. phase' = "seek" /\ result' = "none" /\ ri' = ri + 1
          /\ UNCHANGED <<prof, oi>>
      BY <1>1, <1>3, <1>11 DEF CallHandler
    <2>2. ~Fatal(c)
      BY <1>11 DEF Fatal, IsFailure, ReturnsErr
    <2>3. OnlyLastFatal'
      BY <1>4, <1>9, <2>2 DEF OnlyLastFatal
    <2>4. AbsN' = AbsN + 1
      <3>1. Len(FlatBlocks(SubSeq(prof.blocks, 1, oi - 1), prof)) \in Nat
        BY <1>1, BeforeBlock
      <3>2. ri \in Nat
        BY <1>1
      <3>3. QED
        BY <2>1, <3>1, <3>2 DEF AbsN
    <2>5. WalkPosition'
      BY <1>1, <1>4, <1>5, <2>1, <2>4 DEF WalkPosition, Block
    <2>6. QED
      BY <1>8, <2>1, <2>3, <2>5 DEF DInv, NewAtStart, PendingResult,
                                    OutputAtEnd, OkComplete
  <1>12. QED
    BY <1>10, <1>11

-----------------------------------------------------------------------------
(* DInv is inductive, together with EInv, and gives the declared order.   *)

\* Every step keeps the walk's order invariant.
LEMMA NextDInv == EInv /\ DInv /\ [Next]_vars => DInv'
  <1> SUFFICES ASSUME EInv, DInv, [Next]_vars PROVE DInv'
    OBVIOUS
  <1>1. TypeOK
    BY DEF EInv
  <1>2. CASE UNCHANGED vars
    <2>1. CallsArePrefix'
      BY <1>2, PrefixFrame DEF DInv, vars
    <2>2. QED
      BY <1>2, <2>1 DEF vars, DInv, NewAtStart, PendingResult, WalkPosition,
                        OutputAtEnd, OnlyLastFatal, OkComplete, AbsN, Block,
                        Declared
  <1>3. QED
    BY <1>1, <1>2, ConstructDInv, NextBlockDInv, EndWalkDInv,
       BuildRequestDInv, CallHandlerDInv, EvaluateOutputDInv, CancelDInv
    DEF Next

\* The order invariant implies the declared-order property.
LEMMA DInvFollows == TypeOK /\ DInv => CallsFollowDeclaration
  <1> SUFFICES ASSUME TypeOK, DInv PROVE CallsFollowDeclaration
    OBVIOUS
  <1>1. /\ CallKeys \in Seq(Keys) /\ Len(CallKeys) = Len(calls)
        /\ Declared \in Seq(Keys)
    BY CallKeysType, DeclaredType
  <1>2. Len(CallKeys) <= Len(Declared)
        /\ CallKeys = SubSeq(Declared, 1, Len(CallKeys))
    BY <1>1 DEF DInv, CallsArePrefix
  <1>3. IsPrefix(CallKeys, Declared)
    <2>1. SubSeq(CallKeys, 1, Len(CallKeys)) = CallKeys
      BY <1>1
    <2>2. QED
      BY <1>2, <2>1 DEF IsPrefix
  <1>4. ASSUME result = "ok"
        PROVE  /\ CallKeys = Declared
               /\ \A i \in DOMAIN calls : ~Fatal(calls[i])
    <2>1. Len(CallKeys) = Len(Declared)
      BY <1>1, <1>4 DEF DInv, OkComplete
    <2>2. SubSeq(Declared, 1, Len(Declared)) = Declared
      BY <1>1
    <2>3. \A i \in DOMAIN calls : ~Fatal(calls[i])
      BY <1>4 DEF DInv, OnlyLastFatal
    <2>4. QED
      BY <1>2, <2>1, <2>2, <2>3
  <1>5. QED
    BY <1>3, <1>4 DEF CallsFollowDeclaration

\* The engine's invariants hold in every reachable state.
THEOREM EngineOrderInv == Spec => [](EInv /\ DInv)
  <1>1. Init => EInv /\ DInv
    BY InitEInv, InitDInv
  <1>2. EInv /\ DInv /\ [Next]_vars => EInv' /\ DInv'
    BY NextEInv, NextDInv
  <1>3. QED
    BY <1>1, <1>2, PTL DEF Spec

\* Spec I7 for every profile: evaluateHistory's nested loops hand the
\* request handler the declared requests in declared order, each once, and
\* an evaluation that returns success has dispatched all of them without a
\* fatal failure.
THEOREM DeclaredOrder == Spec => []CallsFollowDeclaration
  <1>1. EInv /\ DInv => CallsFollowDeclaration
    BY DInvFollows DEF EInv
  <1>2. QED
    BY <1>1, EngineOrderInv, PTL

-----------------------------------------------------------------------------
(* Refinement.  Program(prof).decl is Flat(prof): at (oi, ri) inside a    *)
(* block the abstract current request is the request the engine is at,   *)
(* and past the last block the abstract index is past the last request.   *)

\* The abstract current request is the engine's request.
LEMMA CurIsReq ==
  ASSUME prof \in Engines, oi \in 1..Len(prof.blocks),
         ri \in 1..Len(Block.reqs)
  PROVE  /\ AbsN \in 1..Len(Program(prof).decl)
         /\ Program(prof).decl[AbsN] =
              [key |-> KeyOf, deps |-> Req.deps, allow |-> Req.allow,
               field |-> Req.field, bad |-> ~FieldOK(Req.field, prof)]
  <1>1. AbsAt(prof, oi, ri) \in 1..Len(Flat(prof))
        /\ Flat(prof)[AbsAt(prof, oi, ri)] = Row(Block, prof)[ri]
    BY AbsAtReq DEF Block
  <1>2. Row(Block, prof)[ri] =
          [key |-> KeyOf, deps |-> Req.deps, allow |-> Req.allow,
           field |-> Req.field, bad |-> ~FieldOK(Req.field, prof)]
    BY DEF Row, KeyOf, Req
  <1>3. Program(prof).decl = Flat(prof)
    BY DEF Program
  <1>4. QED
    BY <1>1, <1>2, <1>3, AbsNIsAbsAt

\* Past the last block the abstract index is past the last request.
LEMMA AbsNAtEnd ==
  ASSUME TypeOK, WalkPosition, phase \in {"seek", "call", "output"},
         oi = Len(prof.blocks) + 1
  PROVE  AbsN = Len(Program(prof).decl) + 1
  <1>1. prof \in Engines /\ Len(Declared) = Len(Flat(prof))
    BY DeclaredType
  <1>2. Len(calls) = Len(Declared) /\ Len(calls) = AbsN - 1
    BY WalkEnd DEF WalkPosition
  <1>3. Len(Flat(prof)) \in Nat /\ AbsN \in Int
    <2>1. Len(Flat(prof)) \in Nat
      BY <1>1, FlatIsRows
    <2>2. ri \in Nat
      BY DEF TypeOK
    <2>3. Len(FlatBlocks(SubSeq(prof.blocks, 1, oi - 1), prof)) \in Nat
      <3>1. oi \in 1..Len(prof.blocks) + 1
        BY DEF TypeOK
      <3>2. QED
        BY <1>1, <3>1, BeforeBlock
    <2>4. QED
      BY <2>1, <2>2, <2>3 DEF AbsN
  <1>4. Program(prof).decl = Flat(prof)
    BY DEF Program
  <1>5. AbsN = Len(Flat(prof)) + 1
    <2>1. PICK a \in Int, f \in Nat : a = AbsN /\ f = Len(Flat(prof))
      BY <1>3
    <2>2. a - 1 = f
      BY <1>1, <1>2, <2>1
    <2>3. a = f + 1
      BY <2>2
    <2>4. QED
      BY <2>1, <2>3, Zenon
  <1>6. QED
    BY <1>4, <1>5

\* The engine starts where the flat evaluation starts.
LEMMA InitRefines == Init => Abs!Init
  <1> SUFFICES ASSUME Init PROVE Abs!Init
    OBVIOUS
  <1>1. prof \in Engines
    BY ProfilesAssumption DEF Init
  <1>2. AbsN = 1
    BY <1>1, AbsNIsAbsAt, AbsAtStart DEF Init
  <1>3. Program(prof) \in {Program(e) : e \in Profiles}
    BY DEF Init
  <1>4. QED
    BY <1>2, <1>3 DEF Init, Abs!Init, AbsStage

\* A step that moves none of the mapped state is an abstract stutter.
LEMMA MappedStutter ==
  ASSUME UNCHANGED <<prof, oi, ri, calls, hreq, hresp, result, cancelled>>,
         AbsStage' = AbsStage
  PROVE  UNCHANGED Abs!avars
  BY DEF Abs!avars, AbsN

\* NewEngine is the abstract acceptance check.
LEMMA ConstructRefines == Construct => Abs!Accept
  <1> SUFFICES ASSUME Construct PROVE Abs!Accept
    OBVIOUS
  <1>1. Program(prof).valid = Valid(prof)
    BY DEF Program
  <1>2. AbsN' = AbsN /\ Program(prof)' = Program(prof)
    BY DEF Construct, AbsN
  <1>3. QED
    BY <1>1, <1>2 DEF Construct, Abs!Accept, AbsStage

\* A failed buildRequest is the abstract abort.
LEMMA BuildRequestFailRefines ==
  ASSUME EInv, DInv, BuildRequest, ~Resolves(Req)
  PROVE  Abs!Abort
  <1>1. prof \in Engines /\ oi \in 1..Len(prof.blocks)
        /\ ri \in 1..Len(Block.reqs)
    BY ProfilesAssumption DEF EInv, TypeOK, BuildRequest
  <1>2. AbsN \in 1..Len(Program(prof).decl)
        /\ Program(prof).decl[AbsN].deps = Req.deps
        /\ Program(prof).decl[AbsN].bad = ~FieldOK(Req.field, prof)
    BY <1>1, CurIsReq
  <1>3. ~Abs!Ready(Abs!Cur)
    BY <1>2 DEF Abs!Ready, Abs!Cur, Resolves
  <1>4. AbsN' = AbsN /\ Program(prof)' = Program(prof)
    BY DEF BuildRequest, AbsN
  <1>5. QED
    BY <1>2, <1>3, <1>4 DEF BuildRequest, Abs!Abort, AbsStage

\* A successful buildRequest and the move to the next outer block are
\* abstract stutters.
LEMMA WalkStepsStutter ==
  ASSUME TypeOK, DInv,
         \/ BuildRequest /\ Resolves(Req)
         \/ NextBlock
  PROVE  UNCHANGED Abs!avars
  <1>1. CASE BuildRequest /\ Resolves(Req)
    BY <1>1, MappedStutter DEF BuildRequest, AbsStage
  <1>2. CASE NextBlock
    <2>1. AbsN' = AbsN
      BY <1>2, NextBlockAbsN
    <2>2. QED
      BY <1>2, <2>1 DEF NextBlock, Abs!avars, AbsStage
  <1>3. QED
    BY <1>1, <1>2

\* The abstract output of the profile: none exactly when it has none, and
\* otherwise ready exactly when evaluateOutput resolves it.
LEMMA OutputMaps ==
  ASSUME prof \in Engines
  PROVE  /\ prof.output = NoOutput => Program(prof).output = NoOutput
         /\ prof.output # NoOutput =>
              /\ Program(prof).output # NoOutput
              /\ Abs!Ready(Program(prof).output) <=> Resolves(prof.output)
  <1>1. ASSUME prof.output # NoOutput
        PROVE  Program(prof).output =
                 [deps |-> prof.output.deps,
                  bad |-> ~FieldOK(prof.output.field, prof)]
    BY <1>1 DEF Program
  <1>2. ASSUME prof.output # NoOutput
        PROVE  Program(prof).output \in [deps : SUBSET Keys, bad : BOOLEAN]
    <2>1. prof.output \in Outputs
      BY <1>2 DEF Engines
    <2>2. prof.output.deps \in SUBSET Keys
      BY <2>1 DEF Outputs
    <2>3. (~FieldOK(prof.output.field, prof)) \in BOOLEAN
      OBVIOUS
    <2>4. [deps |-> prof.output.deps, bad |-> ~FieldOK(prof.output.field, prof)]
            \in [deps : SUBSET Keys, bad : BOOLEAN]
      BY <2>2, <2>3
    <2>5. QED
      BY <1>1, <1>2, <2>4
  <1>3. QED
    BY <1>1, <1>2, ProfilesAssumption DEF Program, Abs!Ready, Resolves

\* The walk ending without an output block finishes the abstract
\* evaluation with success; with an output block it is a stutter.
LEMMA EndWalkRefines ==
  ASSUME TypeOK, DInv, EndWalk
  PROVE  Abs!Finish \/ UNCHANGED Abs!avars
  <1>1. prof \in Engines /\ oi = Len(prof.blocks) + 1
    BY ProfilesAssumption DEF TypeOK, EndWalk
  <1>2. AbsN = Len(Program(prof).decl) + 1
    BY <1>1, AbsNAtEnd DEF DInv, EndWalk
  <1>3. Len(Program(prof).decl) \in Nat
    BY <1>1, FlatIsRows DEF Program
  <1>4. CASE prof.output = NoOutput
    <2>1. Program(prof).output = NoOutput
      BY <1>1, <1>4, OutputMaps
    <2>2. QED
      BY <1>2, <1>3, <1>4, <2>1 DEF EndWalk, Abs!Finish, AbsStage, AbsN
  <1>5. CASE prof.output # NoOutput
    BY <1>5, MappedStutter DEF EndWalk, AbsStage
  <1>6. QED
    BY <1>4, <1>5

\* evaluateOutput finishes the abstract evaluation.
LEMMA EvaluateOutputRefines ==
  ASSUME TypeOK, DInv, EvaluateOutput
  PROVE  Abs!Finish
  <1>1. prof \in Engines /\ oi = Len(prof.blocks) + 1 /\ prof.output # NoOutput
    BY ProfilesAssumption DEF TypeOK, EvaluateOutput, DInv, OutputAtEnd
  <1>2. AbsN = Len(Program(prof).decl) + 1
    BY <1>1, AbsNAtEnd DEF DInv, EvaluateOutput
  <1>3. Len(Program(prof).decl) \in Nat
    BY <1>1, FlatIsRows DEF Program
  <1>4. Program(prof).output # NoOutput
        /\ (Abs!Ready(Program(prof).output) <=> Resolves(prof.output))
    BY <1>1, OutputMaps
  <1>5. QED
    BY <1>2, <1>3, <1>4 DEF EvaluateOutput, Abs!Finish, AbsStage, AbsN

\* The caller's cancellation is the abstract one.
LEMMA CancelRefines == Cancel => Abs!Cancel
  BY DEF Cancel, Abs!Cancel, AbsStage, AbsN

\* The handler call is the abstract dispatch of the current request.
LEMMA CallHandlerRefines ==
  ASSUME EInv, DInv, CallHandler
  PROVE  Abs!Dispatch
  <1>1. /\ prof \in Engines
        /\ oi \in 1..Len(prof.blocks)
        /\ ri \in 1..Len(Block.reqs)
        /\ phase = "call"
        /\ Resolves(Req)
    BY ProfilesAssumption DEF EInv, TypeOK, CallReady, CallHandler
  <1>2. /\ AbsN \in 1..Len(Program(prof).decl)
        /\ Program(prof).decl[AbsN] =
             [key |-> KeyOf, deps |-> Req.deps, allow |-> Req.allow,
              field |-> Req.field, bad |-> ~FieldOK(Req.field, prof)]
    BY <1>1, CurIsReq
  <1> DEFINE cur == Program(prof).decl[AbsN]
  <1>3. cur.key = KeyOf /\ cur.deps = Req.deps /\ cur.allow = Req.allow
        /\ Abs!Ready(cur)
    <2>1. cur.key = KeyOf /\ cur.deps = Req.deps /\ cur.allow = Req.allow
          /\ cur.bad = ~FieldOK(Req.field, prof)
      BY <1>2
    <2>2. FieldOK(Req.field, prof)
      BY <1>1 DEF Resolves
    <2>3. QED
      BY <2>1, <2>2 DEF Abs!Ready
  <1>4. PICK out \in Outcomes :
          /\ calls' = Append(calls, [key |-> KeyOf, deps |-> Req.deps,
                                     allow |-> Req.allow, out |-> out,
                                     cancelled |-> cancelled])
          /\ IF ~Req.allow /\ IsFailure(out) /\ ReturnsErr(out)
               THEN /\ phase' = "done"
                    /\ result' = "error"
                    /\ UNCHANGED <<ri, hreq, hresp>>
               ELSE /\ hreq' = hreq \cup {KeyOf}
                    /\ hresp' = IF IsFailure(out) THEN hresp
                                                  ELSE hresp \cup {KeyOf}
                    /\ ri' = ri + 1
                    /\ phase' = "seek"
                    /\ UNCHANGED result
    BY DEF CallHandler
  <1>5. UNCHANGED <<prof, oi, cancelled>> /\ Program(prof)' = Program(prof)
    BY DEF CallHandler
  <1>6. Len(FlatBlocks(SubSeq(prof.blocks, 1, oi - 1), prof)) \in Nat
    BY <1>1, BeforeBlock
  <1>7. CASE ~Req.allow /\ IsFailure(out) /\ ReturnsErr(out)
    <2>1. AbsN' = AbsN /\ AbsStage' = "done"
      BY <1>4, <1>5, <1>7 DEF AbsN, AbsStage
    <2>2. out \in {"err", "errresp"} /\ ~cur.allow
      BY <1>3, <1>7 DEF ReturnsErr
    <2>3. QED
      BY <1>1, <1>2, <1>3, <1>4, <1>5, <1>7, <2>1, <2>2
      DEF Abs!Dispatch, Abs!Cur, AbsStage, Outcomes
  <1>8. CASE ~(~Req.allow /\ IsFailure(out) /\ ReturnsErr(out))
    <2>1. AbsN' = AbsN + 1 /\ AbsStage' = AbsStage
      <3>1. ri \in Nat
        BY <1>1
      <3>2. ri' = ri + 1 /\ phase' = "seek"
        BY <1>4, <1>8
      <3>3. AbsN' = AbsN + 1
        BY <1>5, <1>6, <3>1, <3>2 DEF AbsN
      <3>4. AbsStage' = AbsStage
        BY <1>1, <3>2 DEF AbsStage
      <3>5. QED
        BY <3>3, <3>4
    <2>2. ~(out \in {"err", "errresp"} /\ ~cur.allow)
          /\ (IsFailure(out) <=> out # "ok")
      BY <1>3, <1>8 DEF IsFailure, ReturnsErr
    <2>3. QED
      BY <1>1, <1>2, <1>3, <1>4, <1>5, <1>8, <2>1, <2>2
      DEF Abs!Dispatch, Abs!Cur, AbsStage, Outcomes
  <1>9. QED
    BY <1>7, <1>8

\* Every engine step is an abstract step or an abstract stutter.
LEMMA NextRefines == EInv /\ DInv /\ [Next]_vars => [Abs!Next]_Abs!avars
  <1> SUFFICES ASSUME EInv, DInv, [Next]_vars PROVE [Abs!Next]_Abs!avars
    OBVIOUS
  <1>1. TypeOK
    BY DEF EInv
  <1>2. CASE Construct
    BY <1>2, ConstructRefines DEF Abs!Next
  <1>3. CASE NextBlock
    BY <1>1, <1>3, WalkStepsStutter
  <1>4. CASE EndWalk
    BY <1>1, <1>4, EndWalkRefines DEF Abs!Next
  <1>5. CASE BuildRequest
    <2>1. CASE Resolves(Req)
      BY <1>1, <1>5, <2>1, WalkStepsStutter
    <2>2. CASE ~Resolves(Req)
      BY <1>5, <2>2, BuildRequestFailRefines DEF Abs!Next
    <2>3. QED
      BY <2>1, <2>2
  <1>6. CASE CallHandler
    BY <1>6, CallHandlerRefines DEF Abs!Next
  <1>7. CASE EvaluateOutput
    BY <1>1, <1>7, EvaluateOutputRefines DEF Abs!Next
  <1>8. CASE Cancel
    BY <1>8, CancelRefines DEF Abs!Next
  <1>9. CASE UNCHANGED vars
    BY <1>9, MappedStutter DEF vars, AbsStage
  <1>10. QED
    BY <1>2, <1>3, <1>4, <1>5, <1>6, <1>7, <1>8, <1>9 DEF Next

\* For every profile, evaluateHistory's walk of outer blocks and requests,
\* with buildRequest, the handler call and evaluateOutput, implements the
\* flat sequential evaluation of spec sections 5 and 8 (EngineAbstract):
\* one dispatch per declared request in order, an abort on a request that
\* cannot be built, a fatal failure ending the evaluation, and the output
\* resolved after the last request.
THEOREM EngineRefinement == Spec => ImplementsAbstract
  <1>1. Init => Abs!Init
    BY InitRefines
  <1>2. EInv /\ DInv /\ [Next]_vars => [Abs!Next]_Abs!avars
    BY NextRefines
  <1>3. QED
    BY <1>1, <1>2, EngineOrderInv, PTL DEF Spec, ImplementsAbstract, Abs!Spec
=============================================================================

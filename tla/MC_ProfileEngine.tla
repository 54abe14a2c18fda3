-------------------------- MODULE MC_ProfileEngine --------------------------
(***************************************************************************)
(* Small instances of ProfileEngine: names a and b are valid, u is the    *)
(* empty name and x a name the naming regex rejects.  The profiles cover  *)
(* one and two outer blocks, empty blocks, allowed and fatal failures,    *)
(* references to earlier, missing and later responses, fields that fail  *)
(* to render, name a source Execute does not register, carry one marker  *)
(* only, fail their source's Validate or name an unknown type, input      *)
(* fields with and without an input block, outputs, duplicate and invalid *)
(* names, and the single unnamed block of CreateOuterConfig.              *)
(***************************************************************************)
EXTENDS ProfileEngine

CONSTANTS a, b, u, x, NoOut

MCNames == {a, b, u, x}
MCValidNames == {a, b}

\* Typed fields: source, type, Validate's verdict, Evaluate's.
Typed(s, t, ar, v) ==
    [hasSrc |-> TRUE, src |-> s, hasType |-> TRUE, type |-> t, args |-> ar,
     value |-> v]
Lit == [hasSrc |-> FALSE, src |-> "", hasType |-> FALSE, type |-> "",
        args |-> TRUE, value |-> TRUE]
Tpl(v) == Typed("template", "string", TRUE, v)
Unpaired == [Tpl(TRUE) EXCEPT !.hasType = FALSE]

\* The fields a first request may carry: fine, failing to render, a CEL
\* source, a lone eval_source, a template without its template key, an
\* unknown eval_type, an input field.
FirstFields ==
    {Lit, Tpl(FALSE), Typed("cel", "string", TRUE, TRUE), Unpaired,
     Typed("template", "string", FALSE, TRUE), [Tpl(TRUE) EXCEPT !.type = "strng"],
     Typed("input", "string", TRUE, TRUE)}

Rq(t, d, al, f) == [type |-> t, deps |-> d, field |-> f, allow |-> al]
Blk(t, rs) == [type |-> t, reqs |-> rs]
Eng(n, bs, o) == [outerName |-> n, blocks |-> bs, output |-> o, input |-> "none"]
Out(d, f) == [deps |-> d, field |-> f]

\* One block named a holding two requests: the first may carry any of the
\* fields above or be allowed to fail, the second may read the first's
\* response through a template.
OneBlock ==
    {Eng(a, <<Blk(a, <<r1, r2>>)>>, o) :
        r1 \in {Rq(a, {}, al, f) : al \in BOOLEAN, f \in FirstFields},
        r2 \in {Rq(n, d, al, IF d = {} THEN Lit ELSE Tpl(TRUE)) :
                  n \in {a, b}, d \in {{}, {<<a, a>>}}, al \in BOOLEAN},
        o \in {NoOut, Out({}, Lit), Out({<<a, b>>}, Tpl(TRUE)),
               Out({}, Tpl(FALSE)), Out({}, Unpaired)}}

\* Two blocks of one request each, with or without an outer block name;
\* the second request reads nothing, the first response, or itself.
TwoBlocks ==
    UNION {{Eng(n, <<Blk(t[1], <<Rq(a, {}, al, Lit)>>),
                     Blk(t[2], <<Rq(a, d, TRUE, Lit)>>)>>, NoOut) :
               n \in {a, u}, al \in BOOLEAN,
               d \in {{}, {<<t[1], a>>}, {<<t[2], a>>}}} :
           t \in {<<a, b>>, <<a, a>>, <<b, x>>, <<u, a>>}}

\* A profile whose input block is bound (its input field then resolves)
\* or fails validate's step 6.
WithInput(i) ==
    [Eng(a, <<Blk(a, <<Rq(a, {}, FALSE, Typed("input", "string", TRUE, TRUE))>>)>>,
         NoOut) EXCEPT !.input = i]

Special ==
    { Eng(a, <<>>, NoOut),
      Eng(a, <<Blk(a, <<>>), Blk(b, <<Rq(a, {}, FALSE, Lit)>>)>>, NoOut),
      Eng(u, <<Blk(u, <<Rq(a, {}, FALSE, Lit)>>)>>, NoOut),
      Eng(a, <<Blk(a, <<Rq(u, {}, FALSE, Lit)>>)>>, NoOut),
      WithInput("ok"), WithInput("bad") }

MCProfiles == OneBlock \cup TwoBlocks \cup Special

=============================================================================

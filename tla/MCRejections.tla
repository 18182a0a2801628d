---------------------------- MODULE MCRejections ----------------------------
(***************************************************************************)
(* Instances of Rejections for TLC.                                        *)
(***************************************************************************)
EXTENDS Rejections

CONSTANTS f1, f2, l1, k1, h1, a, b, ab

AllTexts == {a, b, ab, Blank, Star}
As(text) == [text |-> text, padded |-> FALSE]
Padded(text) == [text |-> text, padded |-> TRUE]
Ask(family, kind, spans, contract, sha) ==
  [family |-> family, lens |-> l1, kind |-> kind, spans |-> spans, contract |-> contract, sha |-> sha]

(* ab is the span "a,b": the commas of a join cannot be told from its own. *)
JoinedByCommas(spans) == (spans \ {ab}) \union (IF ab \in spans THEN {a, b} ELSE {})
Line == [parts \in {l1} \X {k1} \X (SUBSET AllTexts) \X Spelling |->
           <<parts[1], parts[2], JoinedByCommas(parts[3]), parts[4]>>]

(* One family under two spellings, the first without a sha; another one    *)
(* that prints like it (a comma in its span, a star for its contract); and *)
(* a question that is too broad.                                           *)
SomeAsks == {Ask(f1, k1, <<As(b), Padded(a)>>, None, None),
             Ask(f1, k1, <<Padded(a), As(b), As(Blank), As(b)>>, As(Blank), h1),
             Ask(f2, k1, <<As(ab)>>, As(Star), h1),
             Ask(f2, k1, <<Padded(Blank)>>, Padded(Blank), h1)}
=============================================================================

------------------------------ MODULE SignalFlow ------------------------------
(***************************************************************************)
(* When two detectors are the same                                         *)
(* (skills/splunk-configure/scripts/validate_configure_output.py): the     *)
(* canonical text of a data(...) call and of the aggregations behind it.   *)
(* A program is a sequence of tokens; brackets are a token that holds the  *)
(* sequence inside them.                                                   *)
(***************************************************************************)
EXTENDS Integers, Sequences, SequencesExt, TLC

\* Tokens are numbers, so that texts can be ordered; a filter or another name
\* is any number from 6 on.
AndOp == 3
NotOp == 4
OrOp  == 5
Tok(t)   == [group |-> FALSE, t |-> t, inner |-> <<>>]
Grp(seq) == [group |-> TRUE, t |-> 0, inner |-> seq]

\* _split_top_level_operator
SplitAt(seq, op) ==
  FoldLeft(LAMBDA acc, tok : IF tok = Tok(op) THEN Append(acc, <<>>)
                             ELSE [acc EXCEPT ![Len(acc)] = Append(@, tok)], <<<<>>>>, seq)

\* _top_level_operators
TopOps(seq) == {op \in {AndOp, OrOp} : \E n \in DOMAIN seq : seq[n] = Tok(op)}

\* _unwrap_redundant_parens: only around a whole expression.
RECURSIVE Unwrap(_)
Unwrap(seq) == IF Len(seq) = 1 /\ seq[1].group THEN Unwrap(seq[1].inner) ELSE seq

\* _collect_operands: an operand in brackets joins the chain if its operators are
\* all the chain's.
RECURSIVE Operands(_, _)
Operands(seq, op) ==
  LET raw == SplitAt(seq, op)
      joined(x) == IF Len(x) = 1 /\ x[1].group /\ TopOps(Unwrap(x)) = {op} THEN Operands(Unwrap(x), op) ELSE <<x>>
  IN IF Len(raw) = 1 THEN raw ELSE FlattenSeq([n \in DOMAIN raw |-> joined(raw[n])])

\* The order that sorts the texts of operands.
RECURSIVE Text(_)
Text(seq) == FlattenSeq([n \in DOMAIN seq |->
               IF seq[n].group THEN <<1>> \o Text(seq[n].inner) \o <<2>> ELSE <<seq[n].t>>])
Before(a, b) ==
  LET s == Text(a)
      t == Text(b)
  IN \E n \in 0 .. Len(s) :
       /\ n <= Len(t) /\ SubSeq(s, 1, n) = SubSeq(t, 1, n)
       /\ n < Len(t) /\ (n = Len(s) \/ s[n + 1] < t[n + 1])

Join(seqs, op) == FoldLeft(LAMBDA acc, s : IF acc = <<>> THEN s ELSE acc \o <<Tok(op)>> \o s, <<>>, seqs)

RECURSIVE Canonical(_)
\* Mutation: every bracket goes.
OperandBare(seq, parent) == Canonical(seq).text

\* _render_operand: brackets stay only around an "or" inside an "and".
Operand(seq, parent) ==
  LET r == Canonical(seq) IN IF parent = AndOp /\ r.top = OrOp THEN <<Grp(r.text)>> ELSE r.text

Chain(seq, op) ==
  LET parts == Operands(seq, op)
  IN [text |-> Join(SortSeq([n \in DOMAIN parts |-> Operand(parts[n], op)], Before), op), top |-> op]

\* _canonical_boolean: "or" is split first; what has neither keeps its brackets.
Canonical(seq) ==
  LET u == Unwrap(seq)
  IN CASE Len(Operands(u, OrOp)) > 1  -> Chain(u, OrOp)
       [] Len(Operands(u, OrOp)) = 1 /\ Len(Operands(u, AndOp)) > 1 -> Chain(u, AndOp)
       [] OTHER -> [text |-> [n \in DOMAIN u |-> IF u[n].group THEN Grp(Canonical(u[n].inner).text) ELSE u[n]],
                    top |-> 0]

----------------------------------------------------------------------------
\* An argument has a key or not ("") and a value: an expression, or a list of them.
\* _canonical_bracket: lists are sorted, and a list of one is its element.
Value(arg) ==
  LET texts == SortSeq([n \in DOMAIN arg.members |-> Canonical(arg.members[n]).text], Before)
  IN [wrapped |-> arg.list /\ Len(texts) /= 1, texts |-> texts]

\* _canonical_group: positional arguments in order, keyword arguments as a set.
Arguments(args) ==
  LET positional == SelectSeq(args, LAMBDA a : a.key = "")
  IN [positional |-> [n \in DOMAIN positional |-> Value(positional[n])],
      keyword    |-> {[key |-> args[n].key, value |-> Value(args[n])] :
                        n \in {m \in DOMAIN args : args[m].key /= ""}}]

\* aggregation_signature: the methods in their order.
Aggregation(calls) == [n \in DOMAIN calls |-> [method |-> calls[n].method, args |-> Arguments(calls[n].args)]]

\* data_call_signature with the metric and the aggregation: what makes two
\* detectors duplicates.
Signature(d) == [metric |-> d.metric, data |-> Arguments(d.args), aggregation |-> Aggregation(d.calls)]
=============================================================================

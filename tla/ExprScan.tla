------------------------------ MODULE ExprScan ------------------------------
(***************************************************************************)
(* scan() and getvalue() of expr.c: from what is written to code.  What is *)
(* written is a sequence of items, each an operand with the operator       *)
(* before it (COPY for the first, and after a comma), the signs before it  *)
(* in the order they are written, and the variable it is assigned to with  *)
(* "->", or NULL.  An operand is a number, the input, a variable, a        *)
(* sequence of items in parentheses, abs() of one, if(a,b,c) or don(a,b).  *)
(* Meaning is what is written means, without any code: the value of the    *)
(* operands from left to right, then the operators by their precedence.    *)
(***************************************************************************)
EXTENDS ExprPasses

Item(op, signs, operand) == [op |-> op, signs |-> signs, operand |-> operand, to |-> NULL]
Number(v) == [kind |-> "number", value |-> v, address |-> NULL, parts |-> <<>>]
Input == [kind |-> "input", value |-> NoValue, address |-> NULL, parts |-> <<>>]
Variable(a) == [kind |-> "variable", value |-> NoValue, address |-> a, parts |-> <<>>]
Of(kind, parts) == [kind |-> kind, value |-> NoValue, address |-> NULL, parts |-> parts]

(* --------------------------------- scan --------------------------------- *)

\* The operators that bind the same, the tightest first (SETPREC1 .. 6).
Precedence == << {"MUL", "DIV", "MOD"}, {"ADD", "SUB"}, {"SHL", "SHR"}, Orders, Equals,
                 {"ANDL"}, {"XORL"}, {"ORL"} >>

NewVar(ep) == [ep EXCEPT !.mem = Append(@, Undefined)]
LastVar(ep) == Len(ep.mem)
Emit(ep, ip) == [ep EXCEPT !.code = Append(@, ip)]

\* do_unary(): the innermost signs of every operand, as long as they are
\* of the kind whose turn it is; "done" says whether there was one.
RECURSIVE Unary(_, _)
Unary(s, kinds) ==      \* s: [ep, node, done]
    IF s.node.signs = <<>> \/ s.node.signs[Len(s.node.signs)] \notin kinds THEN s
    ELSE Unary([ep |-> Emit(s.ep, Inst(s.node.signs[Len(s.node.signs)], s.node.v)),
                node |-> [s.node EXCEPT !.signs = SubSeq(@, 1, Len(@) - 1)], done |-> TRUE], kinds)
WithNode(nodes, u) == [ep |-> u.ep, nodes |-> Append(nodes, u.node), done |-> u.done]
DoUnary(s, kinds) ==    \* s: [ep, nodes, done]
    Along(LAMBDA t, node : WithNode(t.nodes, Unary([ep |-> t.ep, node |-> node, done |-> t.done], kinds)),
             [ep |-> s.ep, nodes |-> <<>>, done |-> FALSE], s.nodes)
Not == {"NOTL"}
Minus == {"NEG"}
RECURSIVE UnaryRest(_, _)
UnaryRest(s, kinds) ==  \* whose turn it is; for as long as there is one
    IF ~s.done THEN s ELSE UnaryRest(DoUnary(s, kinds), IF kinds = Not THEN Minus ELSE Not)

\* SETPREC: every node whose operator is one of these goes into the node
\* before it (vnunion), and is freed.
Union(s, ops) ==
    Along(LAMBDA t, node :
                 IF t.nodes # <<>> /\ node.op \in ops
                 THEN [t EXCEPT !.ep = Emit(@, SrcInst(node.op, t.nodes[Len(t.nodes)].v, node.v))]
                 ELSE [t EXCEPT !.nodes = Append(@, node)],
             [s EXCEPT !.nodes = <<>>], s.nodes)
\* Mutant: every sign binds tighter than an operator.
Operators_Signs(s) == Along(Union, Union(UnaryRest(DoUnary(s, Not), Minus), {"POW"}), Precedence)
\* The order of scan(): !, **, -, and what signs are left, then the others.
Operators(s) ==
    Along(Union, UnaryRest(DoUnary(DoUnary(Union(DoUnary(s, Not), {"POW"}), Minus), Not), Minus), Precedence)

RECURSIVE Scan(_, _), GetValue(_, _), Expression(_)

Absolute(a) == [a EXCEPT !.ep = Emit(@, [Inst("BL", a.v) EXCEPT !.injection = TRUE])]

\* getvalue(): [ep, v], v the variable with the value.
GetValue(ep, x) ==
    LET n == NewVar(ep)  v == LastVar(n)
    IN  CASE x.kind = "number" -> [ep |-> Emit(n, ConstInst(v, x.value)), v |-> v]
          [] x.kind = "input" -> [ep |-> Emit(n, Inst("INPUT", v)), v |-> v]
          [] x.kind = "variable" -> [ep |-> Emit(n, SrcInst("COPY", v, x.address)), v |-> v]
          [] x.kind = "group" -> Scan(ep, x.parts[1])
          [] x.kind = "abs" -> Absolute(Scan(ep, x.parts[1]))
          [] x.kind = "if" -> [ep |-> Emit(n, SubInst("IF", v, [i \in 1..3 |-> Expression(x.parts[i])])), v |-> v]
          [] x.kind = "don" ->
               [ep |-> Emit(ep, SubInst("DON", VOID, [i \in 1..2 |-> Expression(x.parts[i])])), v |-> VOID]

Scanned(s) == [ep |-> s.ep, v |-> s.nodes[Len(s.nodes)].v]
WithValue(t, it, g) ==
    [ep |-> IF it.to = NULL THEN g.ep ELSE Emit(g.ep, SrcInst("COPY", it.to, g.v)),
     nodes |-> Append(t.nodes, [v |-> g.v, op |-> it.op, signs |-> it.signs]), done |-> FALSE]
Scan(ep, items) ==
    Scanned(Operators(Along(LAMBDA t, it : WithValue(t, it, GetValue(t.ep, it.operand)),
                            [ep |-> ep, nodes |-> <<>>, done |-> FALSE], items)))

Ended(r) ==
    IF r.v # VOID THEN Emit(r.ep, Inst("END", r.v))
    ELSE LET n == NewVar(r.ep) IN Emit([n EXCEPT !.mem[LastVar(n)] = Whole(0)], Inst("END", LastVar(n)))
Compile(items) == Ended(Scan([code |-> <<>>, mem |-> <<>>], items))
Expression(items) == Optimized(Compile(items))

(* ------------------------------- meaning ------------------------------- *)

\* The value of items whose operands have these values: the comma, the
\* loosest operator that is written, from the left, and last the signs.
Looser(op) == IF op = "COPY" THEN 0 ELSE IF op = "POW" THEN Len(Precedence) + 1
              ELSE Len(Precedence) + 1 - (CHOOSE i \in 1..Len(Precedence) : op \in Precedence[i])
Signed(signs, v) == FoldRight(LAMBDA s, a : Op1(s, a), signs, v)
\* What of the signs binds looser than **: all from the last minus on.
Outer1(signs) == IF "NEG" \notin Range(signs) THEN 0
                 ELSE CHOOSE i \in 1..Len(signs) : signs[i] = "NEG" /\ \A j \in (i + 1)..Len(signs) : signs[j] # "NEG"

RECURSIVE Value(_, _), MeaningOf(_, _, _), Operand(_, _, _), Times_(_, _, _, _)
Value(items, vs) ==
    IF Len(items) = 1 THEN Signed(items[1].signs, vs[1])
    ELSE LET lv == {Looser(items[i].op) : i \in 2..Len(items)}
             lo == CHOOSE l \in lv : \A k \in lv : l <= k
             at == CHOOSE i \in 2..Len(items) : /\ Looser(items[i].op) = lo
                                                /\ \A j \in (i + 1)..Len(items) : Looser(items[j].op) > lo
             right == Value(SubSeq(items, at, Len(items)), SubSeq(vs, at, Len(vs)))
             outer == Outer1(items[1].signs)
             inner == [items EXCEPT ![1].signs = SubSeq(@, outer + 1, Len(@))]
         IN  IF lo = 0 THEN right
             ELSE IF lo > Len(Precedence)
             THEN Signed(SubSeq(items[1].signs, 1, outer),
                         Op2("POW", Value(SubSeq(inner, 1, at - 1), SubSeq(vs, 1, at - 1)), right))
             ELSE Op2(items[at].op, Value(SubSeq(items, 1, at - 1), SubSeq(vs, 1, at - 1)), right)

MeaningOf(items, out, input) ==     \* [value, out]
    LET s == Along(LAMBDA t, it :
                 LET o == Operand(it.operand, t.out, input)
                 IN  [vs |-> Append(t.vs, o.value),
                      out |-> IF it.to = NULL THEN o.out ELSE [o.out EXCEPT ![it.to] = o.value]],
                 [vs |-> <<>>, out |-> out], items)
    IN  [value |-> Value(items, s.vs), out |-> s.out]
Operand(x, out, input) ==
    LET a == MeaningOf(x.parts[1], out, input)
    IN  CASE x.kind = "number" -> [value |-> x.value, out |-> out]
          [] x.kind = "input" -> [value |-> input, out |-> out]
          [] x.kind = "variable" -> [value |-> out[x.address], out |-> out]
          [] x.kind = "group" -> a
          [] x.kind = "abs" -> [a EXCEPT !.value = Op1("BL", @)]
          [] x.kind = "if" -> MeaningOf(x.parts[IF Holds(a.value) THEN 2 ELSE 3], a.out, input)
          [] x.kind = "don" -> [value |-> Undefined, out |-> Times_(x.parts[2], a.out, input, Times(a.value))]
Times_(items, out, input, n) ==
    IF n <= 0 THEN out ELSE Times_(items, MeaningOf(items, out, input).out, input, n - 1)
=============================================================================

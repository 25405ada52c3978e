-------------------------- MODULE MCExprOptimizer --------------------------
(* What may be written, in the run ExprOptimizer.cfg. *)
EXTENDS ExprOptimizer

MCOuter == {-1, -2}
MCInputs == {Whole(2), <<-3, 2>>}
MCOuts == {[a \in MCOuter |-> IF a = -1 THEN v ELSE Whole(7)] : v \in {Whole(1), Whole(3)}}
X == -1
Y == -2

N(i) == Number(Whole(<<5, 2, 1, 3>>[i]))
Two(i) == {N(i), Variable(X)}
It(op, os) == Item(op, <<>>, os)
Add_(items, i, signs) == [items EXCEPT ![i].signs = signs]
Written2(op) == {<<It("COPY", a), It(op, b)>> : a \in Two(1), b \in Two(2)}

\* Chains of operators that bind the same, and any two operators.
Chains == UNION {[1..3 -> g] : g \in {{"ADD", "SUB"}, {"MUL", "DIV"}, {"SHL", "SHR"}, {"LT"}, {"SGE", "GT"},
                                     {"SEQ"}, {"ANDL"}, {"ORL", "XORL"}, {"POW"}, {"MOD"}}}
Operators_ == SrcCases
Longer == {[i \in 1..4 |-> It(IF i = 1 THEN "COPY" ELSE ops[i - 1], os[i])] :
             ops \in Chains, os \in {o \in [1..4 -> UNION {Two(i) : i \in 1..4}] : \A i \in 1..4 : o[i] \in Two(i)}}
Mixed == {<<It("COPY", Variable(X)), It(o1, N(2)), It(o2, Input)>> : o1 \in Operators_, o2 \in Operators_}
\* Signs before one operand.
Signs == {<<"NEG">>, <<"NOTL">>, <<"NEG", "NOTL">>, <<"NOTL", "NEG">>, <<"NOTL", "NOTL">>, <<"NEG", "NEG">>,
          <<"NOTL", "NEG", "NOTL">>, <<"NOTL", "NEG", "NOTL", "NOTL">>}
WithSigns == {Add_(w, i, s) : w \in UNION {Written2(op) : op \in Operators_}, i \in 1..2, s \in Signs}
\* An assignment, what is assigned read after a comma.
Assigning == {[i \in 1..4 |-> [It(<<"COPY", o1, o2, "COPY">>[i], IF i = 4 THEN Variable(Y) ELSE os[i])
                               EXCEPT !.to = IF i = t THEN Y ELSE NULL]] :
                o1 \in {"ADD", "SUB", "MUL", "COPY"}, o2 \in {"SUB", "DIV", "COPY"}, t \in 1..3,
                os \in {o \in [1..3 -> UNION {Two(i) : i \in 1..3}] : \A i \in 1..3 : o[i] \in Two(i)}}
\* Expressions inside expressions.
Small == Written2("SUB") \cup Written2("SLE")
Nested ==
    {<<It("COPY", Of("group", <<a>>)), It(op, Of("abs", <<b>>))>> : a \in Small, b \in Small, op \in {"SUB", "MUL", "COPY"}}
    \cup {<<It("COPY", Of("if", <<a, b, c>>)), It("ADD", N(2))>> : a \in Small, b \in Written2("SUB"), c \in Written2("MUL")}
    \cup {<<It("COPY", Of("don", << <<It("COPY", n)>>, <<[It("COPY", Of("group", <<a>>)) EXCEPT !.to = X]>> >>)), It("COPY", Variable(X))>> :
            n \in {N(1), N(2), N(3), Variable(X), Number(Whole(0))}, a \in Small}
    \cup {Add_(<<It("COPY", Of("group", <<a>>)), It("SUB", N(3))>>, 1, s) : a \in Small, s \in Signs}
\* A constant with a sign, and one that is folded after it.
Chain(op, o) == Of("group", << <<It("COPY", o[1]), It(op, o[2])>> >>)
Constants_ ==
    {<<It("COPY", Variable(X)), Item(o1, <<"NEG">>, N(2)), It(o2, Chain(o3, <<N(1), N(4)>>))>> :
       o1 \in {"ADD", "SUB", "MUL", "DIV"}, o2 \in {"ADD", "DIV"}, o3 \in {"SUB", "MUL", "MOD", "LT"}}
    \cup {<<It("COPY", Of("group", << <<It("COPY", Variable(X)), Item(op, <<"NEG">>, N(1)), It(op, N(2))>> >>)),
            It("SUB", Chain(op, <<N(1), N(4)>>))>> : op \in {"MUL", "DIV"}}
\* Chains of one operator that go on behind another, which has a constant
\* (inside them, or after an operator that binds looser), or behind an
\* assignment; and counts of which only the whole part is shifted by.
Nought == Number(Whole(0))
Half == Number(<<1, 2>>)
Interrupted ==
    UNION {{<<It("COPY", Chain(op, x)), It(op, Chain(op, o)), It(op, b)>>,
            <<It("COPY", Chain(op, x)), It(op, b), It(o2, Chain(op, o))>>,
            <<It("COPY", Chain(op, o)), It(op, Chain(op, x)), It(op, b)>>,
            <<[It("COPY", Chain(op, x)) EXCEPT !.to = Y], It(op, b), It("COPY", Variable(Y))>>} :
              op \in SrcCases \ {"COPY"}, o2 \in {"ADD", "ORL", "COPY"}, x \in {<<Variable(X), N(3)>>},
              o \in {<<N(4), N(1)>>, <<Variable(X), N(1)>>, <<Nought, Nought>>}, b \in {N(2), Nought}}
    \cup {<<It("COPY", Variable(X)), It(op, a), It(o2, b)>> :
            op \in {"SHL", "SHR"}, o2 \in {"SHL", "SHR"}, a \in {Half, N(2)}, b \in {Half, N(2)}}
MCWritten == Longer \cup Mixed \cup WithSigns \cup Assigning \cup Nested \cup Constants_
             \cup Interrupted
=============================================================================

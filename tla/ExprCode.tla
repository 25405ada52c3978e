------------------------------ MODULE ExprCode ------------------------------
(***************************************************************************)
(* The code an expression is compiled to (expr.c, expr.h), and what it     *)
(* means to evaluate it.                                                   *)
(*                                                                         *)
(* An address is an integer: the variables of one expression are 1, 2, ... *)
(* the variables of the program around it (the symbol set's) are negative, *)
(* and 0 is NULL.  A number is a fraction: rounding is left out, and so    *)
(* are the operations on the bits of a double (&, |, ^, ~, #, ##) and the  *)
(* comparisons with a tolerance.  Undefined stands for what is no number.  *)
(* An expression is [code, mem]: its instructions, of which only the last  *)
(* is EXPR_END, and its own variables, which outlive an evaluation.        *)
(***************************************************************************)
EXTENDS Integers, SequencesExt

CONSTANT Outer      \* the addresses of the variables of the program around
ASSUME OuterAssumption == Outer \subseteq {i \in Int : i < 0}

NULL == 0
VOID == 1000                \* the value of an instruction that has none

\* FoldLeft, in a form whose steps TLC evaluates one after the other.
Along(Op(_, _), base, s) ==
    LET f[i \in 0..Len(s)] ==
            IF i = 0 THEN base ELSE CHOOSE r \in {Op(p, s[i]) : p \in {f[i - 1]}} : TRUE
    IN  f[Len(s)]

(* ------------------------------- numbers ------------------------------- *)

Undefined == <<0, 0>>
Whole(i) == <<i, 1>>
AbsOf(i) == IF i < 0 THEN -i ELSE i

RECURSIVE Gcd(_, _)
Gcd(a, b) == IF b = 0 THEN a ELSE Gcd(b, a % b)

Fraction(n, d) ==
    IF d = 0 THEN Undefined
    ELSE LET g == Gcd(AbsOf(n), AbsOf(d))  s == IF d < 0 THEN -1 ELSE 1
         IN  <<(s * n) \div g, (s * d) \div g>>

Bool(b) == IF b THEN Whole(1) ELSE Whole(0)
True(a) == a[1] # 0
Truncated(a) == IF a[1] < 0 THEN -((-a[1]) \div a[2]) ELSE a[1] \div a[2]
Add(a, b) == Fraction(a[1] * b[2] + b[1] * a[2], a[2] * b[2])
Mul(a, b) == Fraction(a[1] * b[1], a[2] * b[2])
Neg(a) == <<-a[1], a[2]>>
Div(a, b) == Fraction(a[1] * b[2], a[2] * b[1])
Less(a, b) == a[1] * b[2] < b[1] * a[2]

MaxExponent == 4
MaxShift == 12
Power(a, b) ==
    IF b[2] # 1 \/ AbsOf(b[1]) > MaxExponent \/ AbsOf(a[1]) > 9 \/ a[2] > 9 THEN Undefined
    ELSE IF b[1] = 0 THEN Whole(1)
    ELSE IF b[1] < 0 THEN Fraction(a[2] ^ (-b[1]), a[1] ^ (-b[1]))
    ELSE Fraction(a[1] ^ b[1], a[2] ^ b[1])
\* The exponent field of a double is added to: that is no shift of 0.
Shifted(a, n) ==
    IF a[1] = 0 \/ AbsOf(n) > MaxShift THEN Undefined
    ELSE IF n < 0 THEN Fraction(a[1], a[2] * 2 ^ (-n)) ELSE Fraction(a[1] * 2 ^ n, a[2])

(* ----------------------------- instructions ----------------------------- *)

Orders == {"LT", "GT", "SLE", "SGE"}
Equals == {"SEQ", "SNE"}
SrcCases == {"COPY", "ADD", "SUB", "MUL", "DIV", "MOD", "POW", "SHL", "SHR",
             "ANDL", "ORL", "XORL"} \cup Orders \cup Equals
BranchCases == {"IF", "DON"}

Op2(op, a, b) ==
    IF a = Undefined \/ b = Undefined THEN IF op = "COPY" THEN b ELSE Undefined
    ELSE CASE op = "COPY" -> b
           [] op = "ADD" -> Add(a, b)
           [] op = "SUB" -> Add(a, Neg(b))
           [] op = "MUL" -> Mul(a, b)
           [] op = "DIV" -> Div(a, b)
           [] op = "MOD" -> IF True(b) THEN Add(a, Neg(Mul(b, Whole(Truncated(Div(a, b)))))) ELSE Undefined
           [] op = "POW" -> Power(a, b)
           [] op = "SHL" -> Shifted(a, Truncated(b))
           [] op = "SHR" -> Shifted(a, -Truncated(b))
           [] op = "LT" -> Bool(Less(a, b))
           [] op = "GT" -> Bool(Less(b, a))
           [] op = "SLE" -> Bool(~Less(b, a))
           [] op = "SGE" -> Bool(~Less(a, b))
           [] op = "SEQ" -> Bool(a = b)
           [] op = "SNE" -> Bool(a # b)
           [] op = "ANDL" -> Bool(True(a) /\ True(b))
           [] op = "ORL" -> Bool(True(a) \/ True(b))
           [] op = "XORL" -> Bool(True(a) # True(b))

Op1(op, a) ==
    IF a = Undefined THEN Undefined
    ELSE CASE op = "NEG" -> Neg(a)
           [] op = "NOTL" -> Bool(~True(a))
           [] op = "TSTL" -> Bool(True(a))
           [] op = "BL" -> <<AbsOf(a[1]), a[2]>>          \* fabs, the one function there is

NoValue == Whole(0)
Inst(op, dst) == [op |-> op, dst |-> dst, src |-> NULL, value |-> NoValue, injection |-> FALSE, eps |-> <<>>]
SrcInst(op, dst, src) == [Inst(op, dst) EXCEPT !.src = src]
ConstInst(dst, v) == [Inst("CONST", dst) EXCEPT !.value = v]
SubInst(op, dst, eps) == [Inst(op, dst) EXCEPT !.eps = eps]
\* An expression that is one number (init_expr_const).
ConstExpression(v) == [code |-> <<Inst("END", 1)>>, mem |-> <<v>>]

(* ------------------------------ evaluation ------------------------------ *)

\* The state of an evaluation: the expression's code, in which are the
\* expressions inside it, its own variables, which like theirs last beyond
\* the evaluation, and the variables around it.
Get(st, a) == IF a < 0 THEN st.out[a] ELSE st.mem[a]
Put(st, a, v) ==
    IF a < 0 THEN [st EXCEPT !.out[a] = v]
    ELSE IF a = NULL THEN st ELSE [st EXCEPT !.mem[a] = v]

Holds(c) == c = Undefined \/ True(c)              \* NAN is not 0 either
\* A negative number converted to size_t is undefined: no count is negative.
Times(c) == IF c = Undefined THEN 0 ELSE Truncated(c)

RECURSIVE Eval(_, _, _), Repeat(_, _, _, _)

\* What is evaluated inside instruction i: it is the k-th of the two or three.
Within(st, i, k, e) == [st EXCEPT !.out = e.out, !.code[i].eps[k] = e.ep]

\* One instruction.
EvalStep(st, i, input) ==
    LET ip == st.code[i]
        inner(s, k) == Eval(ip.eps[k], s.out, input)
    IN  CASE ip.dst = NULL \/ ip.op = "END" -> st      \* NULL: what a pass has deleted
          [] ip.op = "INPUT" -> Put(st, ip.dst, input)
          [] ip.op = "CONST" -> Put(st, ip.dst, ip.value)
          [] ip.op \in SrcCases -> Put(st, ip.dst, Op2(ip.op, Get(st, ip.dst), Get(st, ip.src)))
          [] ip.op \in {"NEG", "NOTL", "TSTL", "BL"} -> Put(st, ip.dst, Op1(ip.op, Get(st, ip.dst)))
          [] ip.op = "IF" ->
               LET c == inner(st, 1)
                   k == IF Holds(c.value) THEN 2 ELSE 3
                   v == inner(c, k)
               IN  Put(Within(Within(st, i, 1, c), i, k, v), ip.dst, v.value)
          [] ip.op = "DON" ->
               LET c == inner(st, 1)
                   r == Repeat(ip.eps[2], c.out, input, Times(c.value))
               IN  Within(Within(st, i, 1, c), i, 2, r)
          [] ip.op = "DO1" -> Within(st, i, 1, inner(st, 1))
          [] ip.op = "EP" -> LET v == inner(st, 1) IN Put(Within(st, i, 1, v), ip.dst, v.value)

Eval(ep, out, input) ==     \* [value, out, ep]
    LET st == Along(LAMBDA s, i : EvalStep(s, i, input),
                    [code |-> ep.code, mem |-> ep.mem, out |-> out], [i \in DOMAIN ep.code |-> i])
    IN  [value |-> Get(st, ep.code[Len(ep.code)].dst), out |-> st.out,
         ep |-> [code |-> st.code, mem |-> st.mem]]

Repeat(ep, out, input, n) ==
    IF n <= 0 THEN [ep |-> ep, out |-> out]
    ELSE LET e == Eval(ep, out, input) IN Repeat(e.ep, e.out, input, n - 1)
=============================================================================

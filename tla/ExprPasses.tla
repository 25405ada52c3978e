----------------------------- MODULE ExprPasses -----------------------------
(***************************************************************************)
(* The passes of expr_optimize() (expr.c).  Each takes an expression to an *)
(* expression and says whether it asks for another round.  A pass goes     *)
(* over the code with an index and changes it in place: an instruction is  *)
(* deleted by making its destination NULL, and taken out at the end.       *)
(***************************************************************************)
EXTENDS ExprCode

Last0(ep) == Len(ep.code)               \* where EXPR_END is
IsVar(ep, a) == a \in {NULL, VOID} \/ a \in 1..Len(ep.mem)     \* expr_varofep
\* expr_override
OverrideOps == {"COPY", "INPUT", "CONST", "EP"} \cup BranchCases
Override(op) == op \in OverrideOps
UseSrc(op) == op \in SrcCases
Side(op) == op \notin SrcCases \cup {"INPUT", "CONST", "NEG", "NOTL", "TSTL"}

Deleted(ep, i) == [ep EXCEPT !.code[i].dst = NULL]
Completed(ep) == [ep EXCEPT !.code = SelectSeq(@, LAMBDA ip : ip.dst # NULL)]
WriteConsts(ep) ==
    Along(LAMBDA p, ip : IF ip.op = "CONST" /\ ip.dst \in 1..Len(p.mem)
                            THEN [p EXCEPT !.mem[ip.dst] = ip.value] ELSE p,
             ep, ep.code)
Modified(ep, v) ==
    \/ ~IsVar(ep, v)
    \/ \E i \in 1..(Last0(ep) - 1) : ep.code[i].dst = v /\ ep.code[i].op # "CONST"

\* The pass: step over every index before the end.
Over(ep, Step(_, _)) == Along(LAMBDA p, i : Step(p, i), ep, [i \in 1..(Last0(ep) - 1) |-> i])
\* The nearest constant the destination of i was given, or 0.
FindConst(ep, i) ==
    LET s == ep.code[i].dst
        at == {j \in 1..(i - 1) : ep.code[j].dst = s \/ (UseSrc(ep.code[j].op) /\ ep.code[j].src = s)}
        j == Max(at)
    IN  IF at = {} THEN 0
        ELSE IF (UseSrc(ep.code[j].op) /\ ep.code[j].src = s) \/ ep.code[j].op # "CONST" THEN 0 ELSE j
\* From i on, what is done to the destination of i with these operators
\* and something constant, up to the first that is done with another.
Run(ep, from, i, ops) ==
    LET same == {j \in from..(Last0(ep) - 1) : ep.code[j].dst = ep.code[i].dst}
        upto == {j \in same : ep.code[j].op \notin ops}
    IN  SelectSeq([k \in 1..(Last0(ep) - 1) |-> k],
                  LAMBDA j : /\ j \in same /\ \A k \in upto : j < k
                             /\ ~Modified(ep, ep.code[j].src))
DeletedAll(ep, is) == Along(Deleted, ep, is)

(* ------------------------------- the passes ------------------------------- *)

\* Mutant: also what is a constant only at first.
Const_All(ep) ==
    Completed(Over(ep, LAMBDA p, i : IF p.code[i].op = "CONST" THEN Deleted(p, i) ELSE p))

\* expr_optimize_const: what is a constant all the time is in memory.
Const(ep) ==
    Completed(Over(ep, LAMBDA p, i :
        IF p.code[i].op = "CONST" /\ ~Modified(p, p.code[i].dst) /\ ~p.code[i].injection
        THEN Deleted(p, i) ELSE p))

\* expr_optimize_constneg
ConstNeg(ep) ==
    Completed(Over(ep, LAMBDA p, i :
        LET ip == p.code[i]
            at == {j \in 1..(i - 1) : p.code[j].dst = ip.dst}
            j == Max(at)
        IN  IF ip.op \notin {"NEG", "NOTL", "TSTL"} \/ at = {} THEN p
            ELSE IF p.code[j].op # "CONST" THEN p
            ELSE Deleted(WriteConsts([p EXCEPT !.code[j].value = Op1(ip.op, @)]), i)))

\* expr_optimize_contneg: signs that follow each other.
RECURSIVE ContNegFrom(_, _)
ContNegFrom(ep, i) ==
    IF i >= Last0(ep) THEN ep
    ELSE LET op(k) == ep.code[i + k].op
             same(k) == i + k <= Last0(ep) /\ ep.code[i + k].dst = ep.code[i].dst
             tests == {"NOTL", "TSTL"}
         IN  CASE ~same(1) -> ContNegFrom(ep, i + 1)
               [] op(0) = "NEG" /\ op(1) = "NEG" -> ContNegFrom(Deleted(Deleted(ep, i), i + 1), i + 2)
               [] op(0) = "TSTL" /\ op(1) \in tests -> ContNegFrom(Deleted(ep, i), i + 2)
               [] op(0) = "NOTL" /\ op(1) = "NOTL" ->
                    ContNegFrom(Deleted([ep EXCEPT !.code[i].op = "TSTL"], i + 1), i + 2)
               [] op(0) = "NOTL" /\ op(1) = "TSTL" -> ContNegFrom(Deleted(ep, i + 1), i + 2)
               [] op(0) \in tests /\ op(1) = "NEG" /\ same(2) /\ op(2) \in tests ->
                    ContNegFrom(Deleted(ep, i + 1), i + 2)
               [] OTHER -> ContNegFrom(ep, i + 1)
ContNeg(ep) == Completed(ContNegFrom(ep, 1))

\* expr_optimize_strongorder_and_notl: the negation of a comparison.
\* Mutant: the comparison from the other side.
Opposite_Turned == [LT |-> "GT", GT |-> "LT", SLE |-> "SGE", SGE |-> "SLE", SEQ |-> "SNE", SNE |-> "SEQ"]
Opposite == [LT |-> "SGE", GT |-> "SLE", SLE |-> "GT", SGE |-> "LT", SEQ |-> "SNE", SNE |-> "SEQ"]
RECURSIVE StrongOrderFrom(_, _)
StrongOrderFrom(ep, i) ==
    IF i >= Last0(ep) THEN ep
    ELSE LET a == ep.code[i]  b == ep.code[i + 1]
         IN  IF a.dst # b.dst \/ b.op \notin {"NOTL", "TSTL"} THEN StrongOrderFrom(ep, i + 1)
             ELSE IF a.op \notin DOMAIN Opposite THEN StrongOrderFrom(ep, i + 2)
             ELSE StrongOrderFrom(Deleted(IF b.op = "NOTL" THEN [ep EXCEPT !.code[i].op = Opposite[a.op]] ELSE ep,
                                          i + 1), i + 2)
StrongOrder(ep) == Completed(StrongOrderFrom(ep, 1))

\* expr_vused, expr_vcheck_ep: whether v is used from i on.
VUsed(ep, i, v) ==
    LET at == {j \in i..Last0(ep) : ep.code[j].dst = v \/ (UseSrc(ep.code[j].op) /\ ep.code[j].src = v)}
        ip == ep.code[Min(at)]
    IN  at # {} /\ ((UseSrc(ip.op) /\ ip.src = v) \/ ~Override(ip.op))
VCheck(ep, i, v) == VUsed(ep, i, v) \/ ep.code[Last0(ep)].dst = v

\* expr_optimize_injection: a pure function of a constant.
Injected(ep) ==
    LET at(p, i) == Max({0} \cup {j \in 1..(i - 1) : p.code[j].dst = p.code[i].dst})
        folds(p, i) == p.code[i].op = "BL" /\ p.code[i].injection /\ at(p, i) # 0
        step(p, i) ==
            LET j == at(p, i)
            IN  IF ~folds(p, i) THEN p
                ELSE IF p.code[j].op = "CONST"
                THEN Deleted(WriteConsts([p EXCEPT !.code[j].value = Op1("BL", @)]), i)
                ELSE IF p.code[j].op = "INPUT" /\ ~VCheck(p, i + 1, p.code[i].dst) THEN Deleted(p, i) ELSE p
    IN  Completed(Over(ep, step))

\* expr_optimize_contadd and expr_optimize_contsh: op1 and its inverse op2.
Cont(ep, op1, op2) ==
    LET step(p, i) ==
            LET ip == p.code[i]
                rest == Run(p, i + 1, i, {op1, op2})
                signed(k) == IF p.code[k].op = op1 THEN Get(p, p.code[k].src) ELSE Neg(Get(p, p.code[k].src))
                sum == Along(LAMBDA s, k : Add(s, signed(k)), signed(i), rest)
                q == DeletedAll(p, rest)
                c == FindConst(q, i)
            IN  IF ip.op \notin {op1, op2} \/ ~Modified(p, ip.dst) \/ Modified(p, ip.src) THEN p
                ELSE IF c # 0 THEN WriteConsts(Deleted([q EXCEPT !.code[c].value = Op2(op1, @, sum)], i))
                ELSE [q EXCEPT !.mem[ip.src] = sum, !.code[i].op = op1]
    IN  Completed(Over(ep, step))

\* expr_optimize_contmul: a chain of one operator.  After a constant its
\* first instruction goes into the constant, and with it all that this pass
\* has deleted behind it: they have one destination by then, which is NULL.
NeedsConst == {"POW", "MOD"} \cup Orders \cup Equals
ContMul(ep, op) ==
    LET step(p, i) ==
            LET ip == p.code[i]
                c == FindConst(p, i)
                fold(by, s, run) == Along(LAMBDA t, k : Op2(by, t, p.mem[p.code[k].src]), s, run)
                rest == Run(p, i + 1, i, {op})
                q == Deleted(p, i)
                gone == Run(q, i + 1, i, {op})
            IN  IF ip.dst = NULL \/ ip.op # op \/ ~Modified(p, ip.dst) \/ Modified(p, ip.src) THEN p
                ELSE IF c # 0
                THEN WriteConsts([q EXCEPT !.code[c].value = fold(op, @, <<i>> \o gone)])
                ELSE IF op \in NeedsConst THEN p
                ELSE [DeletedAll(p, rest) EXCEPT
                        !.mem[ip.src] = fold(IF op = "DIV" THEN "MUL" ELSE op, @, rest)]
    IN  Completed(Over(ep, step))

\* expr_optimize_zero: an operand that changes nothing, by expr_zero_element.
ZeroElement(op) ==
    CASE op \in {"ADD", "SUB", "SHL", "SHR"} -> <<Whole(0)>>
      [] op \in {"MUL", "DIV", "MOD", "POW"} -> <<Whole(1)>>
      [] OTHER -> <<>>
Zero(ep) ==
    Over(ep, LAMBDA p, i :
        LET ip == p.code[i]
            decided == ip.op \in {"ANDL", "ORL"} /\ ~Modified(p, ip.dst) /\ True(p.mem[ip.src]) = (ip.op = "ORL")
        IN  IF decided THEN WriteConsts([p EXCEPT !.code[i] = ConstInst(ip.dst, Bool(ip.op = "ORL"))])
            ELSE IF ZeroElement(ip.op) # <<>> /\ ~Modified(p, ip.src) /\ ZeroElement(ip.op) = <<p.mem[ip.src]>>
            THEN Deleted(p, i) ELSE p)

\* expr_optimize_copyadd: a copy that is used once.
CopyAdd(ep) ==
    Completed(Over(ep, LAMBDA p, i :
        LET ip == p.code[i]
            after == (i + 1)..(Last0(p) - 1)
            uses == {j \in after : UseSrc(p.code[j].op) /\ p.code[j].src = ip.dst}
        IN  IF /\ ip.op = "COPY" /\ IsVar(p, ip.dst) /\ ~VCheck(p, i + 1, ip.dst)
               /\ Cardinality(uses) = 1 /\ \A j \in after : p.code[j].dst # ip.dst
            THEN Deleted([p EXCEPT !.code[Max(uses)].src = ip.src], i) ELSE p))

\* expr_optimize_unused
Unused(ep) ==
    Completed(Over(ep, LAMBDA p, i :
        LET ip == p.code[i]
        IN  IF IsVar(p, ip.dst) /\ ~Side(ip.op) /\ ~VCheck(p, i + 1, ip.dst) THEN Deleted(p, i) ELSE p))

\* expr_constexpr: whether an expression is a constant.
IsConst(ep) ==
    /\ \A i \in DOMAIN ep.code : IsVar(ep, ep.code[i].dst)
    /\ \A i \in 1..(Last0(ep) - 1) :
         LET ip == ep.code[i]
         IN  /\ ip.op \notin {"INPUT", "EP", "DO1"} \cup BranchCases
             /\ ip.op = "BL" => ip.injection
             /\ UseSrc(ip.op) => IsVar(ep, ip.src)

\* expr_optimize_constexpr: branches on constants, constants inside.
ConstValue(ep) == Eval(ep, [a \in Outer |-> Undefined], Whole(0)).value
Inside(p, i, op, e) == [p EXCEPT !.code[i] = SubInst(op, @.dst, <<e>>)]
AsConst(p, i) ==            \* what an EP becomes when it is one
    IF p.code[i].op = "EP" /\ IsConst(p.code[i].eps[1])
    THEN WriteConsts([p EXCEPT !.code[i] = ConstInst(@.dst, ConstValue(p.code[i].eps[1]))]) ELSE p
ConstExprAt(p, i) ==
    LET ip == p.code[i]  times == Times(ConstValue(ip.eps[1]))
    IN  CASE ip.op = "IF" /\ IsConst(ip.eps[1]) ->
               AsConst(Inside(p, i, "EP", ip.eps[IF Holds(ConstValue(ip.eps[1])) THEN 2 ELSE 3]), i)
          [] ip.op = "DON" /\ IsConst(ip.eps[2]) -> Deleted(p, i)
          [] ip.op = "DON" /\ IsConst(ip.eps[1]) /\ times <= 0 -> Deleted(p, i)
          [] ip.op = "DON" /\ IsConst(ip.eps[1]) /\ times = 1 -> Inside(p, i, "DO1", ip.eps[2])
          [] ip.op = "DO1" /\ IsConst(ip.eps[1]) -> Deleted(p, i)
          [] OTHER -> AsConst(p, i)
ConstExpr(ep) == Over(ep, ConstExprAt)

\* expr_optimize_copyend: the last copy is the result.
CopyEnd(ep) ==
    LET z == Last0(ep)  lip == ep.code[z - 1]
    IN  Completed(IF z > 1 /\ lip.op = "COPY" /\ lip.dst = ep.code[z].dst /\ IsVar(ep, lip.dst)
                  THEN Deleted([ep EXCEPT !.code[z].dst = lip.src], z - 1) ELSE ep)

(* ------------------------------ expr_optimize ------------------------------ *)

\* A round, in the order of expr_optimize_once().
Passes == << "const", "constneg", "contneg", "strongorder", "injection", "POW", "MUL", "DIV", "MOD",
             "contadd", "contsh", "LT", "GT", "SLE", "SGE", "SEQ", "SNE", "ANDL", "XORL", "ORL",
             "zero", "copyadd", "unused", "constexpr", "copyend" >>
Pass(name, ep) ==
    CASE name = "const" -> Const(ep)
      [] name = "constneg" -> ConstNeg(ep)
      [] name = "contneg" -> ContNeg(ep)
      [] name = "strongorder" -> StrongOrder(ep)
      [] name = "injection" -> Injected(ep)
      [] name = "contadd" -> Cont(ep, "ADD", "SUB")
      [] name = "contsh" -> Cont(ep, "SHL", "SHR")
      [] name = "zero" -> Zero(ep)
      [] name = "copyadd" -> CopyAdd(ep)
      [] name = "unused" -> Unused(ep)
      [] name = "constexpr" -> ConstExpr(ep)
      [] name = "copyend" -> CopyEnd(ep)
      [] OTHER -> ContMul(ep, name)
\* The passes that ask for another round when they did something; for
\* constexpr that is more than to delete an instruction.
Asks(name, old, new) ==
    \/ name \in {"injection", "zero"} /\ new.code # old.code
    \/ name = "constexpr" /\ \E i \in DOMAIN old.code : old.code[i] # new.code[i] /\ new.code[i].dst # NULL
\* Whether there is one, by the code left and what the passes asked for.
Again(ep, size, asked) == (Len(ep.code) < size \/ asked) /\ Len(ep.code) > 1

After(name, s, new) == [ep |-> new, r |-> s.r \/ Asks(name, s.ep, new)]
Round(ep) ==    \* [ep, r]
    Along(LAMBDA s, name : After(name, s, Pass(name, s.ep)), [ep |-> ep, r |-> FALSE], Passes)
RECURSIVE Rounds(_, _)
Rounds(t, s) == IF Again(t.ep, s, t.r) THEN Rounds(Round(t.ep), Len(t.ep.code)) ELSE t.ep
Optimizing(ep, s) == Rounds(Round(ep), s)

\* What init_expr8() makes of code: optimized, and a number when it is one.
AsNumber(ep) == IF IsConst(ep) THEN ConstExpression(ConstValue(ep)) ELSE ep
Optimized(ep) == AsNumber(Optimizing(WriteConsts(ep), Len(ep.code)))
=============================================================================

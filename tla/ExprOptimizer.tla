--------------------------- MODULE ExprOptimizer ---------------------------
(***************************************************************************)
(* How an expression is made: it is compiled, optimized pass by pass until *)
(* a round neither made it shorter nor asked for another, and becomes a    *)
(* number when it is one (init_expr8, expr_optimize of expr.c).            *)
(***************************************************************************)
EXTENDS ExprScan

CONSTANTS
    Written,    \* what may be written: sequences of items
    Inputs,     \* numbers an expression may be evaluated at
    Outs        \* values the variables of the program around have

VARIABLES
    src,        \* what was written
    ep,         \* the expression
    at,         \* the pass that is next, Len(Passes) + 1 after a round, 0 when it is made
    size,       \* the length of the code when the round began
    asked       \* whether a pass of this round asked for another
vars == <<src, ep, at, size, asked>>

Init == /\ src \in Written
        /\ ep = WriteConsts(Compile(src))
        /\ at = 1 /\ size = Len(ep.code) /\ asked = FALSE

Optimize ==
    /\ at \in DOMAIN Passes
    /\ \E new \in {Pass(Passes[at], ep)} :
         ep' = new /\ asked' = (asked \/ Asks(Passes[at], ep, new))
    /\ at' = at + 1
    /\ UNCHANGED <<src, size>>

(* Mutant: another round whatever the last one did. *)
NextRound_Always ==
    /\ at = Len(Passes) + 1
    /\ at' = 1 /\ size' = Len(ep.code) /\ asked' = FALSE
    /\ UNCHANGED <<src, ep>>

NextRound ==
    /\ at = Len(Passes) + 1 /\ Again(ep, size, asked)
    /\ at' = 1 /\ size' = Len(ep.code) /\ asked' = FALSE
    /\ UNCHANGED <<src, ep>>

Made ==
    /\ at = Len(Passes) + 1 /\ ~Again(ep, size, asked)
    /\ at' = 0 /\ ep' = AsNumber(ep)
    /\ UNCHANGED <<src, size, asked>>

Next == Optimize \/ NextRound \/ Made
\* The passes are a loop of one function, so Next is weakly fair.  This is
\* WF_vars(Next), with its ENABLED written out: TLC would run the pass again.
Unfinished == at # 0
Spec == Init /\ [][Next]_vars /\ ([]<>~Unfinished \/ []<><<Next>>_vars)

-----------------------------------------------------------------------------
(* Properties, and what the code is known to get wrong.                     *)

RECURSIVE Parts(_)
Parts(items) == {items} \cup UNION {UNION {Parts(p) : p \in Range(it.operand.parts)} : it \in Range(items)}

\* do_unary() comes to a minus when the right operand of ** is freed: 2**-1 is 2.
NoMinusInExponent ==
    \A items \in Parts(src) : \A it \in Range(items) : it.op = "POW" => "NEG" \notin Range(it.signs)

\* expr_zero_element() says 1 leaves a number as it is for % too: x%1 is x.
RemainderByOne ==
    /\ at \in DOMAIN Passes /\ Passes[at] = "zero"
    /\ \E ip \in Range(ep.code) : ip.op = "MOD" /\ ~Modified(ep, ip.src) /\ Get(ep, ip.src) = Whole(1)

\* The operators that a pass folds when they follow each other; that it
\* folds the one of k into that of h; and that of k into a constant.
Folded ==
    CASE at \notin DOMAIN Passes -> {}
      [] Passes[at] = "contadd" -> {"ADD", "SUB"}
      [] Passes[at] = "contsh" -> {"SHL", "SHR"}
      [] OTHER -> {Passes[at]} \ NeedsConst
Folds(h, k) ==
    /\ h < k /\ ep.code[h].dst = ep.code[k].dst
    /\ \A n \in {h, k} : ep.code[n].op \in Folded /\ ~Modified(ep, ep.code[n].src)
FoldsIntoConst(k) == ep.code[k].op \in Folded /\ FindConst(ep, k) # 0

\* What is assigned is the variable that operators and signs after it go on
\* with, and they are folded into a constant or into the operators before:
\* x*2->y*3 makes y 6, (x*2)->y*3 makes it x*6.
Lends ==
    \E i \in DOMAIN ep.code :
        LET v == ep.code[i].src
            uses(ip) == (UseSrc(ip.op) /\ ip.src = v) \/ (ip.dst = v /\ ip.op \notin {"CONST", "END"})
            constant == ~Modified(ep, v) \/ \E ip \in Range(ep.code) : ip.op = "CONST" /\ ip.dst = v
        IN  /\ ep.code[i].op = "COPY" /\ ep.code[i].dst < 0 /\ v > 0
            /\ \/ constant /\ \E j \in DOMAIN ep.code : j # i /\ uses(ep.code[j])
               \/ \E h \in 1..(i - 1), k \in (i + 1)..Last0(ep) : ep.code[h].dst = v /\ Folds(h, k)

\* expr_optimize_contmul() compares with the destination it has just made
\* NULL: into a constant goes what another chain has been deleted of.
\* (x*2)*(5*7)*3 is x*630, (x*2)*3+(5*7) is x*6+105.
FoldsTwice ==
    \E h, l, k \in DOMAIN ep.code :
        /\ h < l /\ l < k /\ Folds(h, k) /\ FindConst(ep, h) = 0 /\ FoldsIntoConst(l)
        /\ Passes[at] \notin {"contadd", "contsh"}

\* A pass that folds into a constant writes all of them again, also one
\* that another operator has been folded into: x- -2+(1<3) is x-2+1.
WritesBack ==
    \E ip \in Range(ep.code) :
        /\ ip.op = "CONST" /\ ~Modified(ep, ip.dst)
        /\ \/ Get(ep, ip.dst) # ip.value
           \/ \E h, k, l \in DOMAIN ep.code : ep.code[h].src = ip.dst /\ Folds(h, k) /\ h < l /\ FoldsIntoConst(l)

\* expr_optimize_contsh() adds counts, of which a shift takes the whole part
\* only: x<<0.5<<0.5 is x<<1.
ShiftsInParts ==
    /\ at \in DOMAIN Passes /\ Passes[at] = "contsh"
    /\ \E h, k \in DOMAIN ep.code : Folds(h, k) /\ \E n \in {h, k} : Get(ep, ep.code[n].src)[2] # 1

\* Between the passes it is the memory that has the value of a constant:
\* the instruction goes with the next round.
Settled(e, pass) == IF pass = 0 THEN e ELSE Const(e)
Outcome(e, out, input) == LET r == Eval(e, out, input) IN <<r.value, r.out>>

(* Types; the code ends with its first EXPR_END, and every address is a    *)
(* variable there is.                                                      *)
TypeOK ==
    /\ at \in 0..(Len(Passes) + 1) /\ size \in Nat /\ asked \in BOOLEAN
    /\ \A i \in DOMAIN ep.code :
         /\ ep.code[i].op = "END" <=> i = Last0(ep)
         /\ {ep.code[i].dst, ep.code[i].src} \subseteq Outer \cup {NULL, VOID} \cup (1..Len(ep.mem))

(* The code scan() makes, evaluated, gives the value and the assignments   *)
(* of what was written: operands from left to right, ! and - on the side   *)
(* of ** they belong to, then the operators by precedence.  What is inside *)
(* a branch or a loop is optimized by then: this is for Written in which   *)
(* the faults above are not met there.                                     *)
ScannedAsWritten ==
    at = 1 /\ ep = WriteConsts(Compile(src)) /\ NoMinusInExponent =>
        \A out \in Outs, x \in Inputs :
            LET m == MeaningOf(src, out, x)
            IN  m.value # Undefined => Outcome(ep, out, x) = <<m.value, m.out>>

(* No pass of expr_optimize(), and not the step that makes a number of an  *)
(* expression, changes what an expression evaluates to or assigns, but in  *)
(* the five ways above.                                                    *)
KeepsItsValue ==
    [][\/ ep' = ep /\ at' # 0
       \/ RemainderByOne \/ Lends \/ FoldsTwice \/ WritesBack \/ ShiftsInParts
       \/ \E old \in {Settled(ep, at)}, new \in {Settled(ep', at')} :
            \A out \in Outs, x \in Inputs :
              LET a == Outcome(old, out, x) IN a[1] # Undefined => Outcome(new, out, x) = a]_vars

(* An expression has its variables in one place for all its evaluations,   *)
(* and so have those inside it, which a loop evaluates more than once:     *)
(* what one evaluation leaves there does not reach the next.               *)
EvaluatedAgain ==
    at \in {0, 1} => \A out \in Outs, x \in Inputs, y \in Inputs :
        LET a == Eval(ep, out, x)
        IN  Outcome(a.ep, out, y) = Outcome(ep, out, y)

(* What expr_constexpr() takes for a constant has one value, whatever the  *)
(* input and the variables around, and assigns nothing.                    *)
ConstantsDepend ==
    IsConst(ep) => \A out \in Outs, x \in Inputs : Outcome(ep, out, x) = <<ConstValue(ep), out>>

(* Every sign has an instruction before it that gave its variable a value: *)
(* expr_optimize_constneg() looks for it backwards without an end.         *)
SignsFollowAValue ==
    \A i \in DOMAIN ep.code : ep.code[i].op \in {"NEG", "NOTL", "TSTL"} =>
        \E j \in 1..(i - 1) : ep.code[j].dst = ep.code[i].dst

(* The rounds come to an end, and with them init_expr8().                  *)
EndsWithAnExpression == <>(at = 0)

(* At every moment the code is code that can be evaluated, again and again,*)
(* and what looks like a constant is one.                                  *)
CodeIsSound == TypeOK /\ EvaluatedAgain /\ ConstantsDepend /\ SignsFollowAValue
=============================================================================

----------------------------- MODULE MCFrontEnd -----------------------------
(***************************************************************************)
(* Programs for FrontEnd.  Mod, Binomial, Primes and Hanoi are             *)
(* test/phase3/test/test_3_r0{1,2,3,6}.spl (with smaller numbers), the     *)
(* others are families of small programs that vary one construct.          *)
(***************************************************************************)
EXTENDS FrontEnd

(* The syntax tree.                                                        *)
I(n) == [e |-> "INT", n |-> n]
X(x) == [e |-> "ID", x |-> Named(x)]
Op(op, l, r) == [e |-> op, of |-> <<l, r>>]
LP(e) == [e |-> "LP", of |-> <<e>>]
Neg(e) == [e |-> "NEG", of |-> <<e>>]
NotE(e) == [e |-> "NOT", of |-> <<e>>]
Ap(f, args) == [e |-> "CALL", f |-> Named(f), of |-> args]
Do1(e) == [s |-> "Exp", exp |-> e]
Let(x, e) == Do1(Op("ASSIGN", X(x), e))
Ret(e) == [s |-> "RETURN", exp |-> e]
Put(e) == Do1(Ap("write", <<e>>))
Comp(defs, stmts) == [s |-> "CompSt", defs |-> defs, stmts |-> stmts]
IfElse(c, s, t) == [s |-> "IF", exp |-> c, then |-> s, else |-> <<t>>]
IfThen(c, s) == [s |-> "IF", exp |-> c, then |-> s, else |-> <<>>]
Loop(c, s) == [s |-> "WHILE", exp |-> c, body |-> s]
At(a, k) == [e |-> "LB", of |-> <<a, k>>]
Set(l, e) == Do1(Op("ASSIGN", l, e))
Declare(x) == [s |-> "Def", x |-> Named(x), dims |-> <<>>, init |-> <<>>]
DeclareIs(x, e) == [s |-> "Def", x |-> Named(x), dims |-> <<>>, init |-> <<e>>]
Array(x, dims) == [s |-> "Def", x |-> Named(x), dims |-> dims, init |-> <<>>]
Ints(xs) == [k \in DOMAIN xs |-> Declare(xs[k])]
Vars(decs) == [kind |-> "vars", decs |-> decs]
FnOf(f, params, defs, stmts) == [kind |-> "fun", f |-> Named(f), params |-> params, body |-> Comp(defs, stmts)]
Fn(f, params, defs, stmts) == FnOf(f, Ints(params), defs, stmts)

(* int main() { int a = read(); int b = read(); defs stmts return 0; }     *)
Main(defs, stmts) ==
    Fn("main", <<>>, <<DeclareIs("a", Ap("read", <<>>)), DeclareIs("b", Ap("read", <<>>))>> \o defs,
       stmts \o <<Ret(I(0))>>)

Leaves == {X("a"), I(1), I(2)}
Simple == {Op(o, l, r) : o \in {"PLUS", "MINUS", "MUL"}, l \in Leaves, r \in Leaves}
            \cup {Op("DIV", l, r) : l \in Leaves, r \in {I(1), I(2)}}

(* write((l o r) o b), write(b o -(l o r))                                 *)
Expressions ==
    {<<Main(<<>>, <<Put(Op(o, LP(e), X("b"))), Put(Op(o, X("b"), Neg(LP(e))))>>)>> :
        o \in {"PLUS", "MINUS", "MUL"}, e \in Simple}

(* Assignments whose right sides share variables and temporaries.          *)
Assignments ==
    {<<Main(<<DeclareIs("x", I(1)), Declare("y")>>,
            <<Let("y", Op(o, X("a"), X("x"))), Let("x", e), Let("y", Op(p, X("x"), X("y"))),
              Put(X("y")), Put(X("x"))>>)>> :
        o \in {"PLUS", "MUL"}, p \in {"MINUS", "MUL"},
        e \in {Op("PLUS", X("b"), X("y")), Neg(X("a")), I(2), X("a"),
               Op("MUL", X("a"), I(1)), Ap("read", <<>>), Op("MINUS", LP(Op("PLUS", X("y"), X("b"))), X("b"))}}

Tests ==
    {Op(o, X("a"), r) : o \in RelOps, r \in {X("b"), I(1), Op("PLUS", X("b"), I(1))}}
      \cup {Op(o, I(1), I(2)) : o \in {"GT", "NE", "LT"}}
      \cup {NotE(LP(Op(o, X("a"), X("b")))) : o \in {"EQ", "NE"}}
      \cup {Op(o, LP(Op("LT", X("a"), X("b"))), LP(Op("LT", X("a"), X("b")))) : o \in {"AND", "OR"}}

P(n) == Put(I(n))

(* What a condition can control.                                           *)
Conditionals ==
    UNION {{<<Main(<<>>, <<IfThen(c, P(1)), P(9)>>)>>,
            <<Main(<<>>, <<IfElse(c, P(1), P(2)), P(9)>>)>>,
            <<Main(<<>>, <<IfElse(c, Comp(<<DeclareIs("x", X("a"))>>, <<Put(X("x"))>>),
                                     Comp(<<DeclareIs("x", X("b"))>>, <<Put(X("x"))>>)), Put(X("a"))>>)>>,
            <<Main(<<>>, <<IfElse(Op("GT", X("a"), I(1)), P(1),
                             IfElse(c, P(2), IfThen(Op("EQ", X("b"), I(0)), P(3)))), P(9)>>)>>,
            <<Main(<<>>, <<IfElse(Op("GT", X("a"), I(1)), IfElse(c, P(1), P(2)), P(3)), P(9)>>)>>,
            <<Main(<<>>, <<Loop(Op("GT", X("a"), I(0)),
                             Comp(<<>>, <<IfElse(c, P(1), P(2)), Let("a", Op("MINUS", X("a"), I(1)))>>))>>)>>,
            <<Fn("f", <<"p", "q">>, <<>>,
                 <<IfThen(Op("EQ", X("p"), X("q")), Ret(I(5))), Ret(X("q"))>>),
              Main(<<>>, <<IfElse(c, Ret(I(1)), Put(Ap("f", <<X("a"), X("b")>>))),
                           Put(Ap("f", <<X("b"), Ap("f", <<X("a"), I(2)>>)>>))>>)>> } : c \in Tests}

(* while (c) { a = a - 1; b = b + 1; } for conditions that a makes false.  *)
Loops ==
    {<<Main(<<DeclareIs("n", I(0))>>,
            <<Loop(c, Comp(<<>>, <<Let("a", Op("MINUS", X("a"), I(1))), Let("n", Op("PLUS", X("n"), X("b")))>>)),
              Put(X("n")), Put(X("a"))>>)>> :
        c \in {Op("GT", X("a"), I(0)), Op("GE", X("a"), X("b")), Op("GT", Op("PLUS", X("a"), X("b")), I(0)),
               Op("AND", Op("GT", X("a"), I(0)), Op("GT", X("a"), I(0)))}}

Mod == <<
    Fn("mod", <<"x", "n">>, <<>>, <<Ret(Op("MINUS", X("x"), Op("MUL", LP(Op("DIV", X("x"), X("n"))), X("n"))))>>),
    Fn("isPalindrome", <<"num">>,
       <<DeclareIs("reversed", I(0)), DeclareIs("original", X("num")), DeclareIs("digit", I(0))>>,
       <<Loop(Op("NE", X("num"), I(0)),
              Comp(<<>>, <<Let("digit", Ap("mod", <<X("num"), I(2)>>)),
                            Let("reversed", Op("PLUS", Op("MUL", X("reversed"), I(2)), X("digit"))),
                            Let("num", Op("DIV", X("num"), I(2)))>>)),
         IfElse(Op("EQ", X("reversed"), X("original")), Comp(<<>>, <<Ret(I(1))>>), Comp(<<>>, <<Ret(I(0))>>))>>),
    Fn("main", <<>>, <<Declare("number")>>,
       <<Let("number", Ap("read", <<>>)),
         IfElse(Op("EQ", Ap("isPalindrome", <<X("number")>>), I(1)),
                Comp(<<>>, <<P(1)>>), Comp(<<>>, <<Put(Neg(I(1)))>>)),
         Ret(I(0))>>) >>

Binomial == <<
    Fn("binomial", <<"row", "col">>, <<DeclareIs("c", I(1)), DeclareIs("i", I(0))>>,
       <<IfThen(Op("LT", X("row"), X("col")), Comp(<<>>, <<Ret(I(0))>>)),
         IfThen(Op("GT", X("col"), Op("MINUS", X("row"), X("col"))),
                Comp(<<>>, <<Let("col", Op("MINUS", X("row"), X("col")))>>)),
         Loop(Op("LT", X("i"), X("col")),
              Comp(<<>>, <<Let("c", Op("MUL", X("c"), LP(Op("MINUS", X("row"), X("i"))))),
                            Let("c", Op("DIV", X("c"), LP(Op("PLUS", X("i"), I(1))))),
                            Let("i", Op("PLUS", X("i"), I(1)))>>)),
         Ret(X("c"))>>),
    Fn("main", <<>>, <<Declare("r"), Declare("c2"), Declare("coe")>>,
       <<Let("r", Ap("read", <<>>)), Let("c2", Ap("read", <<>>)),
         Let("coe", Ap("binomial", <<X("r"), X("c2")>>)), Put(X("coe")), Ret(I(0))>>) >>

Primes == <<
    Fn("main", <<>>, <<DeclareIs("N", I(5)), DeclareIs("num", I(0)), DeclareIs("i", I(1)), DeclareIs("k", I(1))>>,
       <<Loop(Op("LE", X("k"), X("N")),
              Comp(<<>>,
                <<Loop(Op("LE", X("i"), X("k")),
                       Comp(<<>>, <<IfThen(Op("EQ", X("k"), LP(Op("MUL", Op("DIV", X("k"), X("i")), X("i")))),
                                            Let("num", Op("PLUS", X("num"), I(1)))),
                                     Let("i", Op("PLUS", X("i"), I(1)))>>)),
                  IfThen(Op("EQ", X("num"), I(2)), Put(X("k"))),
                  Let("i", I(1)), Let("num", I(0)), Let("k", Op("PLUS", X("k"), I(1)))>>)),
         Ret(I(0))>>) >>

Hanoi == <<
    Fn("hanoi", <<"n", "p1", "p2", "p3">>, <<>>,
       <<IfElse(Op("EQ", X("n"), I(1)),
           Comp(<<>>, <<Put(Op("PLUS", Op("MUL", X("p1"), I(10)), X("p3")))>>),
           Comp(<<>>, <<Do1(Ap("hanoi", <<Op("MINUS", X("n"), I(1)), X("p1"), X("p3"), X("p2")>>)),
                         Put(Op("PLUS", Op("MUL", X("p1"), I(10)), X("p3"))),
                         Do1(Ap("hanoi", <<Op("MINUS", X("n"), I(1)), X("p2"), X("p1"), X("p3")>>))>>)),
         Ret(I(0))>>),
    Fn("main", <<>>, <<DeclareIs("sum", I(2))>>,
       <<Do1(Ap("hanoi", <<X("sum"), I(1), I(2), I(3)>>)), Ret(I(0))>>) >>

(* A call that makes no code, a second definition that is passed over, and *)
(* a parameter whose name an earlier function has used in its body.        *)
Definitions == <<
    Fn("noop", <<>>, <<DeclareIs("p", I(1))>>, <<Ret(X("p"))>>),
    Fn("double", <<"p">>, <<>>, <<Ret(Op("PLUS", X("p"), X("p")))>>),
    Main(<<>>, <<Do1(Ap("noop", <<>>)), Put(Ap("double", <<X("a")>>))>>),
    Fn("double", <<"r">>, <<>>, <<Ret(X("r"))>>) >>

(* A declaration that hides another is an error, and the variable it       *)
(* declares is of no use; the one around it is as it was.                  *)
Hiding == <<
    Main(<<>>, <<IfThen(Op("GT", X("a"), I(0)), Comp(<<Declare("b")>>, <<P(4)>>)), Put(X("b"))>>) >>

(* Variables outside the functions: one that main uses, an array that is   *)
(* declared where no function runs, a type alone.                          *)
Outside == <<
    Vars(<<Declare("n"), Array("w", <<2>>)>>),
    Fn("double", <<"p">>, <<>>, <<Ret(Op("PLUS", X("p"), X("p")))>>),
    Vars(<<>>),
    Vars(<<Array("m", <<2, 3>>), Declare("k")>>),
    Main(<<>>, <<Let("n", Ap("double", <<X("a")>>)), Let("k", Op("PLUS", X("n"), X("b"))),
                 IfThen(Op("GT", X("k"), X("n")), Put(X("k"))), Put(X("n"))>>) >>

(* Arrays.  What directly follows their declarations is the value of k.    *)
WithArrays(stmts) ==
    Main(<<Array("x", <<3>>), Array("m", <<2, 3>>), DeclareIs("k", I(1))>>, stmts)

Xs(k) == At(X("x"), k)
Ms(j, k) == At(At(X("m"), j), k)
Elements == {Xs(k) : k \in {I(0), I(1), I(2), X("k")}}
              \cup {Ms(j, k) : j \in {I(0), I(1), X("k")}, k \in {I(0), I(2), X("k")}}

Stores ==
    {<<WithArrays(<<Set(l, X("a")), Set(r, Op("PLUS", X("b"), l)), Put(l), Put(r)>>)>> :
        l \in Elements, r \in {Xs(I(1)), Xs(X("k")), Ms(I(1), I(0)), Ms(X("k"), X("k"))}}

Moves ==
    {<<WithArrays(<<Set(l, X("a")), Set(r, X("b")), Let("k", l), Set(l, r), Set(r, X("k")), Put(Op("MINUS", l, r))>>)>> :
        l \in {Xs(I(0)), Ms(I(1), I(2))}, r \in {Xs(I(2)), Ms(I(1), I(1)), Ms(I(0), I(2))}}

(* f stores in the array of its caller, and the arrays of a recursive g    *)
(* are its own.                                                            *)
Passing ==
    {<<FnOf("f", <<Array("p", <<3>>), Declare("q")>>, <<>>,
         <<Set(At(X("p"), k), Op("PLUS", At(X("p"), I(0)), X("q"))), Ret(At(X("p"), X("q")))>>),
       WithArrays(<<Set(Xs(I(0)), X("a")), Set(Xs(I(1)), I(4)), Set(Xs(I(2)), I(5)),
                    Put(Ap("f", <<X("x"), X("b")>>)), Put(Xs(I(0))), Put(Xs(I(1))), Put(Xs(I(2)))>>)>> :
        k \in {I(0), I(1), I(2), X("q")}}
  \cup
    {<<Fn("g", <<"n">>, <<Array("w", <<2>>), DeclareIs("r", I(0))>>,
         <<Set(At(X("w"), k), X("n")), Set(At(X("w"), I(1)), I(3)),
           IfThen(Op("GT", X("n"), I(0)), Let("r", Ap("g", <<Op("MINUS", X("n"), I(1))>>))),
           Ret(Op("PLUS", At(X("w"), k), X("r")))>>),
       Main(<<>>, <<Put(Ap("g", <<X("a")>>))>>)>> : k \in {I(0), X("r")}}

(* x[k] = k * a for every k, then their sum.                               *)
Filling == <<
    WithArrays(<<Let("k", I(0)),
        Loop(Op("LT", X("k"), I(3)),
             Comp(<<>>, <<Set(Xs(X("k")), Op("MUL", X("k"), X("a"))), Let("k", Op("PLUS", X("k"), I(1)))>>)),
        Let("k", I(0)),
        Loop(Op("LT", X("k"), I(3)),
             Comp(<<>>, <<Let("b", Op("PLUS", X("b"), Xs(X("k")))), Let("k", Op("PLUS", X("k"), I(1)))>>)),
        Put(X("b"))>>) >>

Corpus == Expressions \cup Assignments \cup Conditionals \cup Loops
            \cup Stores \cup Moves \cup Passing
            \cup {Mod, Binomial, Primes, Hanoi, Definitions, Hiding, Outside, Filling}

-----------------------------------------------------------------------------
(* Programs the translator gets wrong.                                     *)

(* The eleventh variable is compared.                                      *)
ManyVariables == {<<
    Main([k \in 1..8 |-> Declare(<<"c", "i", "k", "n", "p", "q", "r", "x">>[k])] \o <<DeclareIs("y", X("a"))>>,
         <<IfThen(Op("GT", X("y"), I(1)), P(1))>>) >>}

(* test/phase3/test/test_3_r05.spl, without its loop.                      *)
EitherOne == {<<
    Fn("main", <<>>, <<Declare("m")>>,
       <<Let("m", Ap("read", <<>>)),
         IfElse(Op("LT", X("m"), I(1)), P(0),
           IfElse(Op("OR", Op("EQ", X("m"), I(1)), Op("EQ", X("m"), I(2))), P(1),
             IfThen(Op("GT", X("m"), I(2)), P(2)))),
         Ret(I(0))>>) >>}

-----------------------------------------------------------------------------
(* The expressions, declarations and statements of a set of programs.      *)

AllOf(seqs(_), set) == UNION {Range(seqs(x)) : x \in set}
Ended == {"INT", "ID"}

RECURSIVE SubExps(_), SubStmts(_)
SubExps(set) ==
    IF set = {} THEN {} ELSE set \cup SubExps(AllOf(LAMBDA e : e.of, {e \in set : e.e \notin Ended}))
SubStmts(set) ==
    IF set = {} THEN {}
    ELSE set \cup SubStmts(AllOf(LAMBDA s : s.stmts, {s \in set : s.s = "CompSt"})
                             \cup UNION {{s.then} \cup Range(s.else) : s \in {t \in set : t.s = "IF"}}
                             \cup {s.body : s \in {t \in set : t.s = "WHILE"}})

DefsOf(sources, kind) == {d \in UNION {Range(p) : p \in sources} : d.kind = kind}
StmtsOf(sources) == SubStmts({f.body : f \in DefsOf(sources, "fun")})
DecsOf(sources) ==
    AllOf(LAMBDA f : f.params, DefsOf(sources, "fun")) \cup AllOf(LAMBDA d : d.decs, DefsOf(sources, "vars"))
      \cup AllOf(LAMBDA s : s.defs, {s \in StmtsOf(sources) : s.s = "CompSt"})
ExpsOf(sources) ==
    SubExps({s.exp : s \in {t \in StmtsOf(sources) : t.s # "CompSt"}}
              \cup AllOf(LAMBDA d : d.init, DecsOf(sources)))

(* What the configuration names is evaluated at each use; the sets above   *)
(* are not.                                                                *)
AllPrograms == Corpus \cup ManyVariables \cup EitherOne
AllExps == ExpsOf(AllPrograms)
AllDecs == DecsOf(AllPrograms)
AllStmts == StmtsOf(AllPrograms)
MCExps == AllExps
MCDecs == AllDecs
MCStmts == AllStmts

MCInputs == {<<m, n, 3>> : m \in 0..2, n \in 0..2}
MCName == {Named(f) : f \in {"read", "write", "main", "a", "b", "n", "x", "y", "p", "q", "r", "f", "mod", "num", "isPalindrome",
            "reversed", "original", "digit", "number", "binomial", "row", "col", "c", "i", "c2", "coe",
            "N", "k", "hanoi", "p1", "p2", "p3", "sum", "noop", "double", "m", "g", "w"}}
MCDecl == {NULL} \cup {generateV(n) : n \in 0..11} \cup {FunctionTag(n) : n \in 0..4}
            \cup {ArrayOf(PlaceOf(n), dims) : n \in 0..5, dims \in {<<2>>, <<3>>, <<2, 3>>}}
            \cup {ArrayOf(generateV(0), <<3>>)}
MCNoDecl == [sort |-> "undefined", n |-> 0]
-----------------------------------------------------------------------------
(* What the expressions of a program give.                                 *)
RECURSIVE KindIn(_, _)
KindIn(decs, e) ==
    CASE e.e = "ID" -> Len((CHOOSE d \in decs : d.x = e.x).dims)
      [] e.e = "LP" -> KindIn(decs, e.of[1])
      [] e.e = "LB" -> KindIn(decs, e.of[1]) - 1
      [] e.e \in {"AND", "OR"} -> Judgement
      [] e.e = "CALL" -> IF Calls(e) THEN 0 ELSE Nothing
      [] e.e \notin {"ID", "LP", "LB", "AND", "OR", "CALL"} -> 0

Kinds == [p \in Corpus |-> [e \in ExpsOf({p}) |-> KindIn(DecsOf({p}), e)]]

(* Every program of the corpus is one that Typing describes.               *)
ASSUME CorpusTyped == \A p \in Corpus : Typing(Kinds[p], ExpsOf({p}), DecsOf({p}), StmtsOf({p}))

(* When a name is evaluated the scopes give it the declaration it has in    *)
(* the source, whatever has been pushed, inserted and popped until then.    *)
NamesKnown == NamesResolve(Kinds[source])
=============================================================================

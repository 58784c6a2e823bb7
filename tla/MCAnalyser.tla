----------------------------- MODULE MCAnalyser -----------------------------
(***************************************************************************)
(* Programs for Analyser: the fifteen of test/phase2/test with what        *)
(* test/phase2/test_result_v records of them, and families of small ones.  *)
(* The functions under test are all called main.                           *)
(***************************************************************************)
EXTENDS Analyser

(* The syntax tree.                                                        *)
I == [e |-> "INT"]
F == [e |-> "FLOAT"]
C == [e |-> "CHAR"]
X(x) == [e |-> "ID", x |-> x]
Op(op, l, r) == [e |-> op, of |-> <<l, r>>]
Plus(l, r) == Op("PLUS", l, r)
LP(e) == [e |-> "LP", of |-> <<e>>]
Neg(e) == [e |-> "NEG", of |-> <<e>>]
NotE(e) == [e |-> "NOT", of |-> <<e>>]
At(a, k) == [e |-> "LB", of |-> <<a, k>>]
Dot(s, x) == [e |-> "DOT", of |-> <<s>>, x |-> x]
Ap(f, args) == [e |-> "CALL", f |-> f, args |-> args]

E(ln, e) == [s |-> "Exp", exp |-> e, ln |-> ln]
Let(ln, l, e) == E(ln, Op("ASSIGN", l, e))
Ret(ln, e) == [s |-> "RETURN", exp |-> e, ln |-> ln]
Comp(ln, defs, stmts) == [s |-> "CompSt", defs |-> defs, stmts |-> stmts, ln |-> ln]
IfElse(ln, c, s, t) == [s |-> "IF", exp |-> c, then |-> s, else |-> <<t>>, ln |-> ln]
IfThen(ln, c, s) == [s |-> "IF", exp |-> c, then |-> s, else |-> <<>>, ln |-> ln]
Loop(ln, c, s) == [s |-> "WHILE", exp |-> c, body |-> s, ln |-> ln]

Type(p) == [spec |-> "TYPE", type |-> p]
Struct(x, defs) == [spec |-> "STRUCT", x |-> x, defs |-> defs]
OfStruct(x) == [spec |-> "NAMED", x |-> x]

Var(x) == [x |-> x, dims |-> <<>>, init |-> <<>>]
Array(x, dims) == [x |-> x, dims |-> dims, init |-> <<>>]
VarIs(x, e) == [x |-> x, dims |-> <<>>, init |-> <<e>>]
D(ln, spec, decs) == [spec |-> spec, decs |-> decs, ln |-> ln]
Ints(ln, xs) == D(ln, Type("int"), [k \in DOMAIN xs |-> Var(xs[k])])
IntIs(ln, x, e) == D(ln, Type("int"), <<VarIs(x, e)>>)
FloatIs(ln, x, e) == D(ln, Type("float"), <<VarIs(x, e)>>)
Floats(ln, xs) == D(ln, Type("float"), [k \in DOMAIN xs |-> Var(xs[k])])

Fn(ln, type, f, params, defs, stmts) ==
    [kind |-> "fun", spec |-> Type(type), f |-> f, ln |-> ln,
     params |-> [k \in DOMAIN params |-> D(ln, Type("int"), <<Var(params[k])>>)],
     body |-> Comp(ln, defs, stmts)]
StructIs(ln, x, defs) == [kind |-> "semi", spec |-> Struct(x, defs), ln |-> ln]
Global(ln, spec, decs) == [kind |-> "vars", spec |-> spec, decs |-> decs, ln |-> ln]
Main(ln, defs, stmts) == Fn(ln, "int", "main", <<>>, defs, stmts)

-----------------------------------------------------------------------------
(* test/phase2/test/test_2_r01.spl to test_2_r15.spl                       *)

Sum(ln, type, defs) == Fn(ln, type, "sum", <<"x", "y">>, defs, <<Ret(ln + 3, X("res"))>>)
Res(ln, e) == IntIs(ln, "res", e)
XY == Plus(X("x"), X("y"))
AppleIs(ln, x, y, fields) ==
    StructIs(ln, "Apple", <<Ints(ln + 2, <<x>>), Floats(ln + 3, <<y>>)>> \o fields)
Apple == AppleIs(1, "weight", "round", <<>>)
anApple(ln) == D(ln, OfStruct("Apple"), <<Var("aa")>>)
aa(x) == Dot(X("aa"), x)

R01 == <<Sum(1, "int", <<Res(3, Plus(XY, X("z")))>>),
         Main(6, <<IntIs(8, "a1", I), IntIs(9, "b", Plus(X("a1"), X("a"))),
                   IntIs(10, "b", Ap("sum", <<X("a"), X("b")>>))>>, <<Ret(11, I)>>)>>
R02 == <<Sum(1, "int", <<Res(3, XY)>>),
         Main(6, <<Ints(8, <<"a1", "a2">>), FloatIs(9, "b", Ap("diff", <<X("a1"), X("a2")>>))>>,
              <<Ret(10, X("b"))>>)>>
R03 == <<StructIs(1, "Student", <<Ints(3, <<"weight">>), Floats(4, <<"weight">>)>>),
         Main(6, <<D(8, OfStruct("Student"), <<Var("amy")>>), Ints(9, <<"age">>), Floats(10, <<"age">>)>>,
              <<Ret(11, I)>>)>>
R04 == <<Sum(1, "int", <<Res(3, XY)>>), Sum(6, "float", <<Res(8, XY)>>),
         Main(11, <<Ints(13, <<"a1", "a2">>), IntIs(14, "b", Ap("sum", <<X("a"), X("b")>>))>>, <<Ret(15, I)>>)>>
R05 == <<Apple, Main(6, <<Ints(8, <<"w1">>), FloatIs(9, "w2", F), anApple(10)>>,
                     <<Let(11, aa("weight"), Plus(X("w1"), X("w2"))), Let(12, aa("round"), C), Ret(13, I)>>)>>
R06 == <<Apple, Main(6, <<anApple(8)>>, <<Let(9, aa("weight"), F), Let(10, F, aa("round")), Ret(11, I)>>)>>
R07 == <<Apple, Main(6, <<Ints(8, <<"w">>), FloatIs(9, "r", F), anApple(10)>>,
                     <<Let(11, aa("weight"), Plus(X("w"), F)), Let(12, aa("round"), Plus(X("r"), X("aa"))),
                       Ret(13, I)>>)>>
R08 == <<Fn(1, "int", "test1", <<>>, <<>>, <<Ret(3, I)>>),
         Fn(6, "float", "test2", <<>>, <<>>, <<Ret(8, F)>>),
         Fn(11, "int", "main", <<"a", "b">>, <<>>,
            <<IfElse(13, Op("GT", X("a"), X("b")), Comp(14, <<>>, <<Ret(15, Ap("test1", <<>>))>>),
                                                   Comp(18, <<>>, <<Ret(19, Ap("test2", <<>>))>>))>>)>>
R09 == <<Fn(1, "int", "compare", <<"x", "y">>, <<>>,
            <<IfElse(3, Op("GT", X("x"), X("y")), Comp(3, <<>>, <<Ret(3, I)>>),
                IfElse(4, Op("GT", X("y"), X("x")), Comp(4, <<>>, <<Ret(4, I)>>), Comp(5, <<>>, <<Ret(5, I)>>)))>>),
         Main(7, <<IntIs(9, "a", I), IntIs(10, "b", I), IntIs(11, "c", I)>>,
              <<Ret(12, Ap("compare", <<X("a"), X("b"), X("c")>>)), Ret(13, Ap("compare", <<X("a"), X("b")>>)),
                Ret(14, Ap("compare", <<X("a")>>)), Ret(15, Ap("compare", <<>>))>>)>>
a2(k) == At(At(X("a"), k), k)
R10 == <<Main(1, <<D(3, Type("int"), <<Array("a", <<2, 4, 6, 8>>)>>), D(4, Type("int"), <<Array("b", <<4, 6, 8>>)>>),
                   D(5, Type("int"), <<Array("c", <<6, 8>>)>>), D(6, Type("int"), <<Array("d", <<8>>)>>),
                   Ints(7, <<"e">>)>>,
              <<Let(8, At(X("a"), I), X("b")), Let(9, a2(I), X("c")), Let(10, At(a2(I), I), X("d")),
                Let(11, At(At(a2(I), I), I), X("e")),
                Ret(12, At(At(At(a2(X("e")), X("e")), X("e")), X("e")))>>)>>
R11 == <<Main(1, <<Ints(3, <<"abc">>), D(4, Type("int"), <<Array("a", <<1, 5>>)>>)>>,
              <<Let(5, a2(I), Ap("abc", <<>>)), Ret(6, a2(X("abc")))>>)>>
R12 == <<Main(1, <<D(3, Type("int"), <<Array("a", <<3>>)>>), D(4, Type("float"), <<Array("b", <<4>>)>>)>>,
              <<Let(5, At(X("a"), I), At(X("a"), At(X("a"), I))), Let(6, At(X("b"), I), At(X("b"), At(X("a"), I))),
                Let(7, At(X("a"), I), At(X("a"), At(X("b"), I))), Ret(8, I)>>)>>
father(x) == Dot(X("father"), x)
mother(x) == Dot(X("mother"), x)
R13 == <<StructIs(1, "Child", <<Ints(3, <<"name">>), Ints(4, <<"age">>)>>),
         StructIs(6, "Parent", <<D(8, OfStruct("Child"), <<Var("c")>>), Ints(9, <<"cc">>)>>),
         Main(11, <<D(13, OfStruct("Parent"), <<Var("father")>>), D(14, OfStruct("Parent"), <<Var("mother")>>)>>,
              <<Let(15, Dot(father("c"), "name"), I), Let(16, Dot(father("c"), "age"), I), Let(17, father("cc"), I),
                Let(18, Dot(mother("c"), "name"), Dot(father("c"), "name")),
                Let(19, Dot(mother("cc"), "age"), Dot(father("cc"), "age")),
                Let(20, mother("cc"), father("cc")), Ret(21, I)>>)>>
R14 == <<StructIs(1, "test", <<Ints(3, <<"a">>), Floats(4, <<"b">>)>>),
         Main(6, <<D(8, OfStruct("test"), <<Var("t")>>)>>,
              <<Let(9, Dot(X("t"), "a"), I), Let(10, Dot(X("t"), "b"), F), Let(11, Dot(X("t"), "c"), Dot(X("t"), "a")),
                Ret(12, I)>>)>>
R15 == <<AppleIs(1, "weight", "round", <<Floats(5, <<"price">>)>>),
         StructIs(7, "Apple", <<Ints(9, <<"round">>), Floats(10, <<"weight">>), Floats(11, <<"price">>)>>),
         Main(13, <<anApple(15)>>, <<Let(16, aa("price"), I), Ret(17, I)>>)>>

(* The reports test/phase2/test_result_v records.                          *)
RecordedReports ==
    {[program |-> p[1], reports |-> p[2]] : p \in {
        <<R01, << <<1, 3>>, <<1, 9>>, <<3, 10>>, <<9, 10>> >> >>,
        <<R02, << <<1, 9>>, <<5, 9>>, <<8, 10>> >> >>,
        <<R03, << <<3, 4>>, <<3, 10>> >> >>,
        <<R04, << <<3, 6>>, <<3, 6>>, <<4, 6>>, <<9, 14>> >> >>,
        <<R05, << <<7, 11>>, <<5, 12>> >> >>,
        <<R06, << <<5, 9>>, <<6, 10>> >> >>,
        <<R07, << <<7, 11>>, <<7, 12>>, <<5, 12>> >> >>,
        <<R08, << <<8, 19>> >> >>,
        <<R09, << <<9, 12>>, <<9, 13>>, <<9, 14>> >> >>,
        <<R10, << <<10, 12>> >> >>,
        <<R11, << <<11, 5>> >> >>,
        <<R12, << <<12, 7>> >> >>,
        <<R13, << <<13, 19>>, <<13, 19>> >> >>,
        <<R14, << <<14, 11>> >> >>,
        <<R15, << <<15, 7>>, <<5, 16>> >> >>}}

Tests == {r.program : r \in RecordedReports}

(* A legal program: a block declares y again, and f is called with its     *)
(* argument.                                                               *)
Shadows ==
    {<<Fn(1, "int", "f", <<"x">>, <<>>, <<Ret(1, X("x"))>>),
       Main(2, <<IntIs(2, "y", I)>>,
            <<Comp(3, <<IntIs(3, "y", I)>>, <<E(3, X("y"))>>), Ret(4, Ap("f", <<X("y")>>))>>)>>}

-----------------------------------------------------------------------------
(* struct S { int p; float q; };  int f() { return 1; }                    *)
(* int main() { int i; float r; char c; int a[2]; struct S s; ... }        *)
Around(defs, stmts) ==
    <<StructIs(1, "S", <<Ints(1, <<"p">>), Floats(1, <<"q">>)>>),
      Fn(2, "int", "f", <<>>, <<>>, <<Ret(2, I)>>),
      Main(3, <<Ints(3, <<"i">>), Floats(3, <<"r">>), D(3, Type("char"), <<Var("c")>>),
                D(3, Type("int"), <<Array("a", <<2>>)>>), D(3, OfStruct("S"), <<Var("s")>>)>> \o defs,
           stmts)>>

Leaves == {X("i"), X("r"), X("c"), X("a"), X("s"), X("u"), X("f"), I, F,
           Dot(X("s"), "q"), Dot(X("s"), "z"), Ap("f", <<>>), Ap("i", <<>>)}
Numbers == {X("i"), X("r"), X("u"), F, At(X("a"), I), Ap("f", <<>>)}

Expressions ==
    {Op(o, l, r) : o \in {"ASSIGN", "LB"}, l \in Leaves, r \in Leaves}
      \cup {Op("PLUS", l, r) : l \in Numbers, r \in Leaves} \cup {Op("LT", X("i"), r) : r \in Leaves}
      \cup {Op("OR", l, r) : l \in {X("i"), X("u"), Ap("f", <<>>)}, r \in {I, X("u")}}
      \cup {Neg(o) : o \in Numbers \cup {X("a"), X("s")}} \cup {NotE(o) : o \in Leaves}
      \cup {LP(o) : o \in Leaves} \cup {Op("ASSIGN", LP(X("i")), I)}
      \cup {Dot(o, "p") : o \in Leaves}
      \cup {Neg(LP(e)) : e \in {Dot(X("i"), "p"), Dot(X("s"), "z"), At(X("i"), I), Plus(X("i"), F),
                                 Op("ASSIGN", I, I), X("u"), NotE(X("r"))}}

(* A call that is an error has no type, and something asks for it.         *)
Faulting ==
    {Op(o, Ap("i", <<>>), r) : o \in {"PLUS", "OR", "LB"}, r \in {I, X("a")}}
      \cup {At(X("a"), Ap("i", <<>>)), Neg(Ap("u", <<>>)), NotE(Ap("u", <<>>)), Dot(Ap("u", <<>>), "p")}

(* Statements before and after which n and w are not declared.             *)
Contexts(e) ==
    {<< <<IntIs(4, "n", e)>>, <<E(5, X("w"))>> >>,
     << <<>>, <<Ret(4, e), Ret(5, X("w"))>> >>,
     << <<>>, <<IfElse(4, e, E(5, X("w")), E(6, X("u")))>> >>,
     << <<>>, <<Loop(4, e, Comp(5, <<Ints(6, <<"n">>)>>, <<Let(7, X("n"), I)>>)), E(8, X("n"))>> >>}

Each1(set) == {Around(c[1], c[2]) : c \in UNION {Contexts(e) : e \in set}}

(* Blocks that declare m, around each other and after each other, and m    *)
(* used in and behind them.                                                *)
Inner(ln, body) == Comp(ln, <<Ints(ln, <<"m">>)>>, body)
Use(ln) == E(ln, X("m"))
Controls(ln, s) == {s, IfThen(ln, I, s), IfElse(ln, I, s, Use(ln + 1)), IfElse(ln, I, E(ln, I), s), Loop(ln, I, s)}
Scoping ==
    {<<Main(1, <<>>, <<s, t>>)>> :
        s \in Controls(2, Inner(2, <<Use(2)>>)) \cup Controls(2, Comp(2, <<>>, <<Inner(2, <<Use(2)>>), E(3, I)>>)),
        t \in Controls(5, Inner(5, <<Use(5)>>)) \cup {Use(6)}}

(* Functions and structures: redefined, used as each other, declared in    *)
(* another function.                                                       *)
Whole ==
    {<<Fn(1, "int", "f", <<"x">>, <<Ints(2, <<"n">>)>>, <<Let(3, X("n"), X("x")), Ret(4, X("n"))>>),
       Fn(5, t, f, <<>>, <<D(6, Type(t), <<Var("n")>>)>>, <<Ret(7, X("n"))>>),
       Main(8, <<D(9, Type(u), <<VarIs("n", Ap(f, <<>>))>>)>>, <<E(10, X("m"))>>)>> :
       f \in {"f", "g"}, t \in {"int", "float"}, u \in {"int", "float"}}
    \cup
    {<<StructIs(1, "S", <<Ints(2, <<"p">>), Floats(2, <<"q">>)>>),
       g, Main(5, <<d>>, <<Let(7, Dot(X("s"), "p"), e), Ret(8, I)>>)>> :
       g \in {StructIs(3, "S", <<Ints(4, <<"r">>)>>), StructIs(3, "T", <<Ints(4, <<"p">>)>>),
               StructIs(3, "T", <<D(4, OfStruct("S"), <<Var("r")>>)>>),
               Global(3, Type("int"), <<Var("a"), Array("b", <<2>>)>>), Fn(3, "int", "f", <<"n">>, <<>>, <<Ret(4, X("n"))>>)},
       d \in {D(6, OfStruct("S"), <<Var("s")>>), D(6, Struct("U", <<Ints(6, <<"y">>)>>), <<Var("s")>>)},
       e \in {I, F, X("a"), Dot(Dot(X("t"), "r"), "p")}}

LegalOrNot == Each1(Expressions) \cup Scoping \cup Whole

Faults ==
    Each1(Faulting)
      \cup {<<Main(1, <<D(2, OfStruct(x), <<Var("s")>>)>>, <<Ret(3, I)>>)>> : x \in {"main", "S"}}
      \cup {<<StructIs(1, "S", <<Ints(1, <<"p">>)>>), Main(2, <<D(3, Struct("S", <<>>), <<Var("s")>>)>>, <<E(4, e)>>)>> :
               e \in {Neg(X("s")), Ap("s", <<>>), X("s")}}

Programs == Tests \cup LegalOrNot \cup Faults

MCName == {"main", "S", "p", "q", "i", "r", "c", "a", "s", "u", "f", "w", "n",
           "sum", "x", "y", "z", "res", "a1", "b", "a2", "diff", "Student", "weight", "amy", "age",
           "Apple", "round", "aa", "w1", "w2", "test1", "test2", "compare", "d", "e", "abc",
           "Child", "Parent", "g", "T", "U", "m", "name", "cc", "father", "mother", "test", "t", "price"}

Prims == {Primitive(p) : p \in {"int", "float", "char"}}
Fields(x, s, y, t) == Structure(<<[name |-> x, type |-> s], [name |-> y, type |-> t]>>)
Float1 == Primitive("float")
Functions == {Function(f, t) : f \in {"main", "f", "g", "sum", "test1", "test2", "compare"}, t \in {TYPE_INT, Float1}}
Arrays == {ArrayOf(8, TYPE_INT), ArrayOf(6, ArrayOf(8, TYPE_INT)), ArrayOf(4, ArrayOf(6, ArrayOf(8, TYPE_INT))),
           ArrayOf(2, ArrayOf(4, ArrayOf(6, ArrayOf(8, TYPE_INT)))),
           ArrayOf(5, TYPE_INT), ArrayOf(1, ArrayOf(5, TYPE_INT)), ArrayOf(3, TYPE_INT), ArrayOf(2, TYPE_INT),
           ArrayOf(4, Float1)}
ChildType == Fields("name", TYPE_INT, "age", TYPE_INT)
Structures == {ChildType, Fields("c", ChildType, "cc", TYPE_INT), Fields("a", TYPE_INT, "b", Float1),
               Fields("weight", TYPE_INT, "round", Float1), Fields("weight", TYPE_INT, "price", Float1),
               Fields("p", TYPE_INT, "q", Float1), Fields("weight", TYPE_INT, "weight", Float1),
               Structure(<<[name |-> "p", type |-> TYPE_INT]>>), Structure(<<[name |-> "y", type |-> TYPE_INT]>>),
               Structure(<<[name |-> "r", type |-> Fields("p", TYPE_INT, "q", Float1)]>>)}

DeclaredTypes == {NoType} \cup Prims \cup Functions \cup Arrays \cup Structures
MCNoDecl == [category |-> "none"]

(* What stands in the programs.                                            *)
Longest == 9
AllOf(seqs(_), set) ==
    {seqs(p[1])[p[2]] : p \in {q \in set \X (1..Longest) : q[2] \in DOMAIN seqs(q[1])}}

RECURSIVE SubExps(_), SubStmts(_), SubDefs(_)
SubExps(set) ==
    IF set = {} THEN {}
    ELSE set \cup SubExps(AllOf(LAMBDA e : e.of, {e \in set : e.e \notin Literals \cup {"ID", "CALL"}}))
SubStmts(set) ==
    IF set = {} THEN {}
    ELSE set \cup SubStmts(AllOf(LAMBDA s : s.stmts, {s \in set : s.s = "CompSt"})
                             \cup AllOf(LAMBDA s : <<s.then>> \o s.else, {s \in set : s.s = "IF"})
                             \cup {s.body : s \in {t \in set : t.s = "WHILE"}})
Fields1(set) == AllOf(LAMBDA d : d.spec.defs, {d \in set : d.spec.spec = "STRUCT"})
SubDefs(set) == IF set = {} THEN {} ELSE set \cup SubDefs(Fields1(set))

ExtDefs == AllOf(LAMBDA p : p, Programs \cup Shadows)
Definers == {d \in ExtDefs : d.kind = "fun"}
AllStmts == SubStmts({d.body : d \in Definers})
AllDefs ==
    SubDefs(Fields1(ExtDefs) \cup AllOf(LAMBDA d : d.params, Definers)
              \cup AllOf(LAMBDA s : s.defs, {s \in AllStmts : s.s = "CompSt"}))
AllDecs == AllOf(LAMBDA d : d.decs, AllDefs \cup {d \in ExtDefs : d.kind = "vars"})
AllExps ==
    SubExps({s.exp : s \in {t \in AllStmts : t.s # "CompSt"}} \cup AllOf(LAMBDA d : d.init, AllDecs))

(* What the configuration names is evaluated at each use; the sets above   *)
(* are not.                                                                *)
MCTrees == Programs
MCExps == AllExps
MCDecs == AllDecs
MCDefs == AllDefs
MCStmts == AllStmts
MCJudged == LegalOrNot
MCRecorded == RecordedReports
MCDecl == DeclaredTypes
=============================================================================

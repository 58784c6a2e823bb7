------------------------------ MODULE SplRules ------------------------------
(***************************************************************************)
(* Which SPL programs are legal: the errors of doc/requirements.txt, types *)
(* 1 to 15, under the assumptions of doc/semanticAssumptions.txt (without  *)
(* the sixth, which report/12112123-phase2.md withdraws).  Types of        *)
(* structures are equivalent by name.  A judgement returns the violations  *)
(* it found, as pairs of error and line; what is wrong has the type Bad,   *)
(* which fits everywhere, so that an error has no consequences.            *)
(*                                                                         *)
(* An environment is a sequence of scopes, the innermost last; a scope     *)
(* maps names to meanings.  The trees are those of Semantic.               *)
(***************************************************************************)
EXTENDS Integers, Sequences

Simple(p) == [t |-> p]
IntType == Simple("int")
Bad == Simple("bad")
ArrayType(n, t) == [t |-> "array", size |-> n, of |-> t]
StructType(x, fields) == [t |-> "struct", x |-> x, fields |-> fields]
FunType(params, type) == [t |-> "function", params |-> params, type |-> type]

(* The fields of a structure are part of what its name means, not of its   *)
(* identity: two structures are the same when their names are.             *)
RECURSIVE Fits(_, _)
Fits(a, b) ==
    \/ Bad \in {a, b}
    \/ /\ a.t = b.t
       /\ a.t = "array" => a.size = b.size /\ Fits(a.of, b.of)
       /\ a.t = "struct" => a.x = b.x

IsType(a, set) == a.t \in set \cup {"bad"}

Visible(env, x) == {k \in DOMAIN env : x \in DOMAIN env[k]}
Meaning(env, x) ==
    env[CHOOSE k \in Visible(env, x) : \A j \in Visible(env, x) : j <= k][x]

Current(env) == env[Len(env)]
Declare(env, x, type) ==
    [env EXCEPT ![Len(env)] = [y \in DOMAIN @ \cup {x} |-> IF y = x THEN type ELSE @[y]]]

Wrong(cond, e, ln) == IF cond THEN {<<e, ln>>} ELSE {}

(* The result of a judgement about an expression, and about what declares. *)
Typed(type, errs) == [type |-> type, errs |-> errs]
Scope(env, errs) == [env |-> env, errs |-> errs]

-----------------------------------------------------------------------------
LValue(e) == e.e \in {"ID", "DOT", "LB"}

RECURSIVE Exp(_, _, _)
Exp(env, e, ln) ==
    LET Sub(k) == Exp(env, e.of[k], ln)
        (* wrong decides from the types of the operands *)
        Judge1(wrong(_), err, type(_)) ==
            LET a == Sub(1)
                bad == a.type # Bad /\ wrong(a.type)
            IN  Typed(IF bad \/ a.type = Bad THEN Bad ELSE type(a.type), a.errs \cup Wrong(bad, err, ln))
        Judge2(wrong(_, _), err) ==
            LET a == Sub(1)  b == Sub(2)
                bad == Bad \notin {a.type, b.type} /\ wrong(a.type, b.type)
            IN  Typed(IF bad \/ Bad \in {a.type, b.type} THEN Bad ELSE a.type,
                      a.errs \cup b.errs \cup Wrong(bad, err, ln))
        FieldsNamed(t) == {k \in DOMAIN t.fields : t.fields[k].name = e.x}
    IN
    CASE e.e = "INT" -> Typed(Simple("int"), {})
      [] e.e = "FLOAT" -> Typed(Simple("float"), {})
      [] e.e = "CHAR" -> Typed(Simple("char"), {})
      [] e.e = "ID" ->
           IF Visible(env, e.x) = {} THEN Typed(Bad, {<<1, ln>>}) ELSE Typed(Meaning(env, e.x), {})
      [] e.e = "LP" -> Sub(1)
      [] e.e = "CALL" ->
           LET args == [k \in DOMAIN e.args |-> Exp(env, e.args[k], ln)]
               inner == UNION {args[k].errs : k \in DOMAIN args}
               f == Meaning(env, e.f)
           IN  IF Visible(env, e.f) = {} THEN Typed(Bad, inner \cup {<<2, ln>>})
               ELSE IF ~IsType(f, {"function"}) THEN Typed(Bad, inner \cup {<<11, ln>>})
               ELSE IF f = Bad THEN Typed(Bad, inner)
               ELSE Typed(f.type, inner \cup
                          Wrong(\/ Len(args) # Len(f.params)
                                \/ \E k \in DOMAIN args \cap DOMAIN f.params :
                                      ~Fits(args[k].type, f.params[k]), 9, ln))
      [] e.e = "ASSIGN" ->
           IF ~LValue(e.of[1]) THEN Typed(Bad, Sub(1).errs \cup Sub(2).errs \cup {<<6, ln>>})
           ELSE Judge2(LAMBDA a, b : ~Fits(a, b), 5)
      [] e.e \in {"AND", "OR"} ->
           Judge2(LAMBDA a, b : a # IntType \/ b # IntType, 7)
      [] e.e \in {"LT", "LE", "GT", "GE", "NE", "EQ", "PLUS", "MINUS", "MUL", "DIV"} ->
           Judge2(LAMBDA a, b : a.t \notin {"int", "float"} \/ a # b, 7)
      [] e.e = "NEG" -> Judge1(LAMBDA a : a.t \notin {"int", "float"}, 7, LAMBDA a : a)
      [] e.e = "NOT" -> Judge1(LAMBDA a : a # IntType, 7, LAMBDA a : a)
      [] e.e = "LB" ->
           LET a == Sub(1)  b == Sub(2) IN
             Typed(IF a.type.t = "array" THEN a.type.of ELSE Bad,
                   a.errs \cup b.errs \cup Wrong(~IsType(a.type, {"array"}), 10, ln)
                          \cup Wrong(~IsType(b.type, {"int"}), 12, ln))
      [] e.e = "DOT" ->
           LET a == Sub(1) IN
             IF ~IsType(a.type, {"struct"}) THEN Typed(Bad, a.errs \cup {<<13, ln>>})
             ELSE IF a.type = Bad THEN a
             ELSE IF FieldsNamed(a.type) = {} THEN Typed(Bad, a.errs \cup {<<14, ln>>})
             ELSE Typed(a.type.fields[CHOOSE k \in FieldsNamed(a.type) : TRUE].type, a.errs)

-----------------------------------------------------------------------------
(* Declarations.  Spec returns the type as well as the environment.        *)

RECURSIVE Dims(_, _)
Dims(type, dims) == IF dims = <<>> THEN type ELSE ArrayType(Head(dims), Dims(type, Tail(dims)))

(* A declarator in an environment that has its name; v is its initialiser.  *)
Initialised(full, v, ln) == v.errs \cup Wrong(~Fits(full, v.type), 5, ln)
Declarator(r, env, d, full, ln) ==
    Scope(env, r.errs \cup Wrong(d.x \in DOMAIN Current(r.env), 3, ln)
                      \cup (IF d.init = <<>> THEN {} ELSE Initialised(full, Exp(env, d.init[1], ln), ln)))
Declared(r, d, full, ln) == Declarator(r, Declare(r.env, d.x, full), d, full, ln)

RECURSIVE DeclareAll(_, _, _, _)
DeclareAll(r, type, decs, ln) ==
    IF decs = <<>> THEN r
    ELSE DeclareAll(Declared(r, Head(decs), Dims(type, Head(decs).dims), ln), type, Tail(decs), ln)

NewStruct(x, type, r) == [type |-> type, env |-> Declare(r.env, x, type), errs |-> r.errs]

RECURSIVE Specifier(_, _, _), OfDefs(_, _), FieldsOf(_, _)
Specifier(env, s, ln) ==
    CASE s.spec = "TYPE" -> [type |-> Simple(s.type), env |-> env, errs |-> {}]
      [] s.spec = "STRUCT" ->
           IF Visible(env, s.x) # {} THEN [type |-> Bad, env |-> env, errs |-> {<<15, ln>>}]
           ELSE NewStruct(s.x, StructType(s.x, FieldsOf(env, s.defs)), OfDefs(Scope(env, {}), s.defs))
      [] s.spec = "NAMED" ->
           [type |-> IF Visible(env, s.x) = {} THEN Bad ELSE Meaning(env, s.x),
            env |-> env,
            errs |-> IF Visible(env, s.x) = {} THEN {<<17, ln>>}
                     ELSE Wrong(~IsType(Meaning(env, s.x), {"struct"}), 16, ln)]

OfSpecifier(r, s, d) == DeclareAll(Scope(s.env, r.errs \cup s.errs), s.type, d.decs, d.ln)
OfDefs(r, defs) ==
    IF defs = <<>> THEN r
    ELSE OfDefs(OfSpecifier(r, Specifier(r.env, Head(defs).spec, Head(defs).ln), Head(defs)), Tail(defs))

(* Every declarator of every definition is a field.                        *)
Members(d, type) == [k \in DOMAIN d.decs |-> [name |-> d.decs[k].x, type |-> Dims(type, d.decs[k].dims)]]
FieldsOf(env, defs) ==
    IF defs = <<>> THEN <<>>
    ELSE LET s == Specifier(env, Head(defs).spec, Head(defs).ln) IN
           Members(Head(defs), s.type) \o FieldsOf(s.env, Tail(defs))

-----------------------------------------------------------------------------
(* Statements, in a function that returns type.                            *)

RECURSIVE OfStmts(_, _, _), Comp(_, _, _)
Stmt(env, s, type, e) ==
    CASE s.s = "Exp" -> e.errs
      [] s.s = "RETURN" -> e.errs \cup Wrong(~Fits(type, e.type), 8, s.ln)
      [] s.s = "IF" -> e.errs \cup Wrong(~IsType(e.type, {"int"}), 7, s.ln)
                         \cup OfStmts(env, <<s.then>> \o s.else, type)
      [] s.s = "WHILE" -> e.errs \cup Wrong(~IsType(e.type, {"int"}), 7, s.ln)
                            \cup OfStmts(env, <<s.body>>, type)
      [] s.s = "CompSt" -> Comp(Append(env, <<>>), s, type)

OfStmts(env, stmts, type) ==
    IF stmts = <<>> THEN {}
    ELSE Stmt(env, Head(stmts), type, Exp(env, Head(stmts).exp, Head(stmts).ln))
           \cup OfStmts(env, Tail(stmts), type)

Rest(r, c, type) == r.errs \cup OfStmts(r.env, c.stmts, type)
Comp(env, c, type) == Rest(OfDefs(Scope(env, {}), c.defs), c, type)

(* Parameters belong to the function, whose scope r is.                    *)
InFunction(r, d, type, known) ==
    r.errs \cup (IF known THEN {} ELSE Comp(r.env, d.body, type))
FunDef(s, d, env, known) ==
    Scope(env, s.errs \cup Wrong(known, 4, d.ln)
                 \cup InFunction(OfDefs(Scope(Append(env, <<>>), {}), d.params), d, s.type, known))
Signature(fields, type) == FunType([k \in DOMAIN fields |-> fields[k].type], type)

ExtDef(s, d) ==
    CASE d.kind = "vars" -> DeclareAll(Scope(s.env, s.errs), s.type, d.decs, d.ln)
      [] d.kind = "semi" -> Scope(s.env, s.errs)
      [] d.kind = "fun" ->
           IF Visible(s.env, d.f) # {} THEN FunDef(s, d, s.env, TRUE)
           ELSE FunDef(s, d, Declare(s.env, d.f, Signature(FieldsOf(s.env, d.params), s.type)), FALSE)

RECURSIVE ExtDefs(_, _)
After(r, s) == Scope(s.env, r.errs \cup s.errs)
ExtDefs(r, list) ==
    IF list = <<>> THEN r.errs
    ELSE ExtDefs(After(r, ExtDef(Specifier(r.env, Head(list).spec, Head(list).ln), Head(list))), Tail(list))

Violations(program) == ExtDefs(Scope(<< <<>> >>, {}), program)

(* The violations on the first line that has one.                          *)
Earliest(errs) == {v \in errs : \A w \in errs : v[2] <= w[2]}
=============================================================================

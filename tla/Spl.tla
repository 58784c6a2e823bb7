-------------------------------- MODULE Spl --------------------------------
(***************************************************************************)
(* What a program of the source language means, without the translator: a  *)
(* big-step interpreter of the trees Translate walks.  A state st has the  *)
(* variables of the activation, the words of all arrays, the numbers still *)
(* to be read, the numbers written, the value of the last expression, and  *)
(* whether the function has returned.  The value of an array is the place  *)
(* of its first element, with its dimensions.  A comparison is 1 or 0, &&  *)
(* and || stop at the first operand that decides, operands are evaluated   *)
(* from left to right, of an assignment the right side first.              *)
(***************************************************************************)
EXTENDS Integers, Sequences

LOCAL INSTANCE TLC   \* :> and @@

LOCAL Truth(b) == IF b THEN 1 ELSE 0

LOCAL Quotient(a, b) ==
    LET mag(n) == IF n < 0 THEN -n ELSE n
        q == mag(a) \div mag(b)
    IN  IF (a < 0) = (b < 0) THEN q ELSE -q

Compute(op, a, b) ==
    CASE op = "PLUS" -> a + b
      [] op = "MINUS" -> a - b
      [] op = "MUL" -> a * b
      [] op = "DIV" -> Quotient(a, b)
      [] op = "LT" -> Truth(a < b)
      [] op = "LE" -> Truth(a <= b)
      [] op = "GT" -> Truth(a > b)
      [] op = "GE" -> Truth(a >= b)
      [] op = "NE" -> Truth(a # b)
      [] op = "EQ" -> Truth(a = b)

RECURSIVE Volume(_)
Volume(dims) == IF dims = <<>> THEN 1 ELSE Head(dims) * Volume(Tail(dims))

RECURSIVE Eval(_, _, _), Element(_, _, _), EvalAll(_, _, _), Exec(_, _, _), ExecAll(_, _, _), Invoke(_, _, _, _)

EvalAll(p, es, st) ==
    IF es = <<>> THEN [st |-> st, vals |-> <<>>]
    ELSE LET one == Eval(p, Head(es), st)
             rest == EvalAll(p, Tail(es), one)
         IN  [st |-> rest.st, vals |-> <<one.val>> \o rest.vals]

Eval(p, e, st) ==
    CASE e.e = "INT" -> [st EXCEPT !.val = e.n]
      [] e.e = "ID" -> [st EXCEPT !.val = st.env[e.x]]
      [] e.e = "LP" -> Eval(p, e.of[1], st)
      [] e.e = "LB" ->
            LET r == Element(p, e, st) IN
            IF r.val.dims = <<>> THEN [r EXCEPT !.val = r.mem[r.val.at]] ELSE r
      [] e.e = "ASSIGN" ->
            LET r == Eval(p, e.of[2], st)
                l == Element(p, e.of[1], r)
            IN  IF e.of[1].e = "ID" THEN [r EXCEPT !.env = (e.of[1].x :> r.val) @@ @]
                ELSE [l EXCEPT !.mem[l.val.at] = r.val, !.val = r.val]
      [] e.e \in {"AND", "OR"} ->
            LET l == Eval(p, e.of[1], st) IN
            IF (l.val # 0) = (e.e = "OR") THEN [l EXCEPT !.val = Truth(e.e = "OR")]
            ELSE LET r == Eval(p, e.of[2], l) IN [r EXCEPT !.val = Truth(@ # 0)]
      [] e.e = "NEG" -> LET r == Eval(p, e.of[1], st) IN [r EXCEPT !.val = -@]
      [] e.e = "NOT" -> LET r == Eval(p, e.of[1], st) IN [r EXCEPT !.val = Truth(@ = 0)]
      [] e.e = "CALL" -> LET r == EvalAll(p, e.of, st) IN Invoke(p, e.f.sort, r.vals, r.st)
      [] OTHER -> LET r == EvalAll(p, e.of, st) IN
                  [r.st EXCEPT !.val = Compute(e.e, r.vals[1], r.vals[2])]

(* Where a[k] is.                                                          *)
Element(p, e, st) ==
    LET a == Eval(p, e.of[1], st)
        k == Eval(p, e.of[2], a)
        rest == Tail(a.val.dims)
    IN  [k EXCEPT !.val = [at |-> a.val.at + k.val * Volume(rest), dims |-> rest]]

Invoke(p, f, args, st) ==
    CASE f = "read" -> [st EXCEPT !.val = Head(st.in), !.in = Tail(@)]
      [] f = "write" -> [st EXCEPT !.out = Append(@, args[1])]
      [] OTHER ->
            LET fn == p[CHOOSE k \in DOMAIN p : p[k].kind = "fun" /\ p[k].f.sort = f]
                env == [x \in {fn.params[k].x : k \in DOMAIN fn.params} |->
                          args[CHOOSE k \in DOMAIN args : fn.params[k].x = x]]
                r == Exec(p, fn.body, [st EXCEPT !.env = env])
            IN  [r EXCEPT !.env = st.env, !.returned = FALSE]

ExecAll(p, ss, st) ==
    IF ss = <<>> \/ st.returned THEN st ELSE ExecAll(p, Tail(ss), Exec(p, Head(ss), st))

Exec(p, s, st) ==
    CASE s.s = "Exp" -> Eval(p, s.exp, st)
      [] s.s = "RETURN" -> [Eval(p, s.exp, st) EXCEPT !.returned = TRUE]
      [] s.s = "CompSt" -> ExecAll(p, s.stmts, ExecAll(p, s.defs, st))
      [] s.s = "Def" ->
            IF s.dims # <<>>
            THEN [st EXCEPT !.env = (s.x :> [at |-> Len(st.mem) + 1, dims |-> s.dims]) @@ @,
                            !.mem = @ \o [k \in 1..Volume(s.dims) |-> 0]]
            ELSE IF s.init = <<>> THEN st
            ELSE LET r == Eval(p, s.init[1], st) IN [r EXCEPT !.env = (s.x :> r.val) @@ @]
      [] s.s = "IF" ->
            LET c == Eval(p, s.exp, st) IN
            IF c.val # 0 THEN Exec(p, s.then, c)
            ELSE ExecAll(p, s.else, c)
      [] s.s = "WHILE" ->
            LET c == Eval(p, s.exp, st)
                body == Exec(p, s.body, c)
            IN  IF c.val = 0 THEN c ELSE IF body.returned THEN body ELSE Exec(p, s, body)

(* What the program writes when it reads the given numbers.                *)
Meaning(p, in) ==
    Invoke(p, "main", <<>>, [env |-> <<>>, mem |-> <<>>, in |-> in, out |-> <<>>, val |-> 0, returned |-> FALSE]).out
=============================================================================

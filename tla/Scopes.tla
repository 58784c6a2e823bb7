------------------------------- MODULE Scopes -------------------------------
(***************************************************************************)
(* What block structure promises: what each name means, in every scope     *)
(* that is open.  A scope starts with the meanings of the one around it,   *)
(* a declaration changes the meaning of its name in the current scope, and *)
(* leaving a scope brings back the meanings of the one around it.          *)
(***************************************************************************)
EXTENDS Integers, Sequences

CONSTANTS Name, Decl, NoDecl

VARIABLE env     \* a function from names to meanings per open scope, the outermost first

Nothing == [n \in Name |-> NoDecl]

Current == IF env = <<>> THEN Nothing ELSE env[Len(env)]

Init == env = <<>>

Open == env' = Append(env, Current)

Close == env # <<>> /\ env' = SubSeq(env, 1, Len(env) - 1)

Declare(n, s) ==
    /\ env # <<>>
    /\ env' = [env EXCEPT ![Len(env)] = [@ EXCEPT ![n] = s]]

Next == Open \/ Close \/ \E n \in Name, s \in Decl : Declare(n, s)

Spec == Init /\ [][Next]_env
=============================================================================

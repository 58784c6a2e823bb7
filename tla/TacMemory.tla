----------------------------- MODULE TacMemory -----------------------------
(***************************************************************************)
(* TacMachine with the memory of arrays.  DEC x n reserves n bytes, words  *)
(* of four, for the activation that executes it; &x is their first address *)
(* and *p the word at p.  A word has a value when one has been stored in   *)
(* it, and what lies outside the reserved words is not defined to be read  *)
(* or written.                                                             *)
(***************************************************************************)
EXTENDS TacMachine

VARIABLE words      \* address -> <<>> or <<value>>

LOCAL INSTANCE TLC   \* :> and @@

Reserve(a) ==
    /\ Is({"DEC"})
    /\ LET new == {a + 4 * k : k \in 0..(Cur.size \div 4) - 1} IN
         /\ new \cap DOMAIN words = {}
         /\ words' = [w \in new |-> <<>>] @@ words
    /\ loc' = With(loc, Cur.var.char_val, a)
    /\ Next1
    /\ UNCHANGED <<env, actuals, pending, frames, wrote>>

InWords(o) == Defined(o) /\ Value(o) \in DOMAIN words

LoadWord ==
    /\ Is({"FETCH"}) /\ InWords(Cur.raddr) /\ words[Value(Cur.raddr)] # <<>>
    /\ Bind(Cur.left, words[Value(Cur.raddr)][1])
    /\ Next1
    /\ UNCHANGED <<words, actuals, pending, frames, loc, wrote>>

StoreWord ==
    /\ Is({"DEREF"}) /\ InWords(Cur.laddr) /\ Defined(Cur.right)
    /\ words' = [words EXCEPT ![Value(Cur.laddr)] = <<Value(Cur.right)>>]
    /\ Next1
    /\ UNCHANGED <<env, actuals, pending, frames, loc, wrote>>

OnWord ==
    \/ Is({"FETCH"}) /\ InWords(Cur.raddr)
    \/ Is({"DEREF"}) /\ InWords(Cur.laddr)

(* n and a: as in Run; a is also the place a DEC is given.                 *)
RunMemory(n, a) ==
    \/ (Reserve(a) \/ LoadWord \/ StoreWord) /\ UNCHANGED prog
    \/ ~Is({"DEC"}) /\ ~OnWord /\ Run(n, a) /\ UNCHANGED words
=============================================================================

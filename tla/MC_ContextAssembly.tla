-------------------------- MODULE MC_ContextAssembly --------------------------
(***************************************************************************)
(* ContextAssembly for TLC: small limits and lengths in the proportions of *)
(* the code's, rows that are short, that just fit and that do not.         *)
(***************************************************************************)
EXTENDS ContextAssembly

Ask1(op, limit, max) == [op |-> op, limit |-> limit, max |-> max]

SomeRows == {[content |-> "a", size |-> 4, trail |-> 2],
             [content |-> "b", size |-> 4, trail |-> 2],
             [content |-> "b", size |-> 7, trail |-> 3]}

SomeQueries ==
  {Ask1("search", limit, 0) : limit \in {-1, 0, 2}} \cup
  {Ask1("build", limit, 0) : limit \in {-1, 0, 1}} \cup
  {Ask1("runtime", 0, 0)} \cup
  {Ask1("bootstrap", 0, max) : max \in {-1, 0, 5}}
=============================================================================

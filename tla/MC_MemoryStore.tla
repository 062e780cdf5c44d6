---------------------------- MODULE MC_MemoryStore ----------------------------
(***************************************************************************)
(* MemoryStore for TLC: requests of every stored type, for a plain title   *)
(* and one with a backslash, and a push of two commits, one of them of a   *)
(* type without a table.                                                   *)
(***************************************************************************)
EXTENDS MemoryStore

CONSTANTS plain, slashed

E(type, title) == [type |-> type, title |-> title]
ByApi(e) == [by |-> "api", first |-> e, rest |-> <<>>]

ApiAndPush ==
  { ByApi(E("pdr", plain)), ByApi(E("pdr", slashed)), ByApi(E("pref", plain)),
    ByApi(E("adr", plain)),
    [by |-> "webhook", first |-> E("adr", plain), rest |-> <<E("mistake", plain)>>] }
=============================================================================

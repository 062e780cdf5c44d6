----------------------------- MODULE AuditPromise -----------------------------
(***************************************************************************)
(* What the audit loops promise, without tickers, scripts and files: while *)
(* it lives, a loop takes each finding on once, deals with it before it    *)
(* goes looking for more or remembers anything, and has at most one at     *)
(* the executor, once; what it remembers for a later life has been dealt   *)
(* with.                                                                   *)
(***************************************************************************)
EXTENDS Naturals

CONSTANTS
  Workers,   \* the loops that run the executor
  Findings,
  Low,       \* the findings that may run by themselves
  Nothing    \* what is at the executor when no finding is

VARIABLES alive,     \* which loops are up
          known,     \* what each has taken on
          pending,   \* ... and not dealt with yet
          trying,    \* the one that is at the executor
          tried,     \* what has been there in this life
          strays,    \* how many tries have outlived the loop that made them
          handled,   \* what has been dealt with by anybody
          applied,   \* what the executor has recorded as applied
          memory     \* what a loop that comes up may be told it knows

worker == <<alive, known, pending, trying, tried>>
vars   == <<worker, strays, handled, applied, memory>>

Init ==
  /\ alive   = [w \in Workers |-> TRUE]
  /\ known   = [w \in Workers |-> {}]
  /\ pending = [w \in Workers |-> {}]
  /\ trying  = [w \in Workers |-> Nothing]
  /\ tried   = [w \in Workers |-> {}]
  /\ strays = 0 /\ handled = {} /\ applied = {} /\ memory = {}

TakeOn(w) ==
  /\ alive[w]
  /\ pending[w] = {}
  /\ \E S \in SUBSET (Findings \ known[w]) :
       /\ known'   = [known EXCEPT ![w] = @ \cup S]
       /\ pending' = [pending EXCEPT ![w] = S]
  /\ UNCHANGED <<alive, trying, tried, handled, applied, memory, strays>>

DealtWith(w, f) ==
  /\ pending' = [pending EXCEPT ![w] = @ \ {f}]
  /\ handled' = handled \cup {f}

\* What may not run by itself is reported, and that is all.
Report(w) ==
  /\ alive[w]
  /\ \E f \in pending[w] \ Low : DealtWith(w, f)
  /\ UNCHANGED <<alive, known, trying, tried, applied, memory, strays>>

Try(w) ==
  /\ alive[w]
  /\ trying[w] = Nothing
  /\ \E f \in (pending[w] \cap Low) \ tried[w] :
       /\ trying' = [trying EXCEPT ![w] = f]
       /\ tried'  = [tried EXCEPT ![w] = @ \cup {f}]
  /\ UNCHANGED <<alive, known, pending, handled, applied, memory, strays>>

\* The try is over, whatever came of it: the executor may have applied this
\* finding, or another one that may run by itself, or none.
Settle(w) ==
  /\ alive[w]
  /\ trying[w] \in pending[w] \cap tried[w]
  /\ DealtWith(w, trying[w])
  /\ trying' = [trying EXCEPT ![w] = Nothing]
  /\ UNCHANGED applied \/ \E g \in Low : applied' = applied \cup {g}
  /\ UNCHANGED <<alive, known, tried, memory, strays>>

Remember(w) ==
  /\ alive[w]
  /\ pending[w] = {}
  /\ memory' = known[w]
  /\ UNCHANGED <<worker, handled, applied, strays>>

\* Nothing that can be read is left, or nothing that a loop would look for.
Forget ==
  /\ memory' = {}
  /\ UNCHANGED <<worker, handled, applied, strays>>

\* A try may outlive its loop.
GoDown(w) ==
  /\ alive[w]
  /\ alive'   = [alive EXCEPT ![w] = FALSE]
  /\ known'   = [known EXCEPT ![w] = {}]
  /\ pending' = [pending EXCEPT ![w] = {}]
  /\ trying'  = [trying EXCEPT ![w] = Nothing]
  /\ tried'   = [tried EXCEPT ![w] = {}]
  /\ strays' = strays \/ (trying[w] # Nothing /\ strays' = strays + 1)
  /\ UNCHANGED <<handled, applied, memory>>

Stray ==
  /\ strays > 0
  /\ strays' = strays - 1
  /\ UNCHANGED applied \/ \E g \in Low : applied' = applied \cup {g}
  /\ UNCHANGED <<worker, handled, memory>>

\* A loop that comes up knows what is remembered, or nothing.
ComeUp(w) ==
  /\ ~alive[w]
  /\ alive' = [alive EXCEPT ![w] = TRUE]
  /\ \E S \in {{}, memory} : known' = [known EXCEPT ![w] = S]
  /\ UNCHANGED <<pending, trying, tried, handled, applied, memory, strays>>

Next ==
  \/ \E w \in Workers : \/ TakeOn(w) \/ Report(w) \/ Try(w) \/ Settle(w)
                        \/ Remember(w) \/ GoDown(w) \/ ComeUp(w)
  \/ Forget \/ Stray

Spec == Init /\ [][Next]_vars
=============================================================================

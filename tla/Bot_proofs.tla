------------------------------ MODULE Bot_proofs ------------------------------
(***************************************************************************)
(* What the bot's use of the lifecycle keeps to, for any main loop and any *)
(* messages.                                                               *)
(***************************************************************************)
EXTENDS Bot, ExecutionLifecycle_proofs, SequenceTheorems

-----------------------------------------------------------------------------
(* The history.                                                            *)

Other(role) == IF role = "user" THEN "assistant" ELSE "user"

\* Roles take turns, the last entry being of the given role.
Alternates(h, last) ==
  \A i \in 1..Len(h) : h[i] = IF (Len(h) - i) % 2 = 0 THEN last ELSE Other(last)

\* Whole exchanges; and an exchange of which the answer is still to come, when
\* the oldest entry may be an answer whose question has been dropped.
Whole(h) == Alternates(h, "assistant") /\ Len(h) % 2 = 0 /\ Len(h) <= HistoryMax

Open(h) == /\ Alternates(h, "user")
           /\ (Len(h) % 2 = 1 /\ Len(h) < HistoryMax) \/ Len(h) = HistoryMax

HistoryInv ==
  /\ history \in Seq({"user", "assistant"})
  /\ \A c \in Callers : IF pc[c] = "assistant" THEN Open(history) ELSE Whole(history)

\* Neighbours have different parity.
LEMMA Parity ==
  ASSUME NEW n \in Nat
  PROVE  n % 2 \in {0, 1} /\ ((n + 1) % 2 = 0 <=> n % 2 = 1)
PROOF OBVIOUS

\* An entry of the other role prolongs the alternation.
LEMMA AppendAlternates ==
  ASSUME NEW h \in Seq({"user", "assistant"}), NEW role \in {"user", "assistant"},
         Alternates(h, Other(role))
  PROVE  Alternates(Append(h, role), role)
PROOF
<1>1. /\ Len(Append(h, role)) = Len(h) + 1 /\ Len(h) \in Nat
      /\ Append(h, role)[Len(h) + 1] = role
      /\ \A i \in 1..Len(h) : Append(h, role)[i] = h[i]
  BY AppendProperties
<1>2. Other(Other(role)) = role
  BY DEF Other
<1>3. ASSUME NEW i \in 1..Len(h)
      PROVE  Append(h, role)[i] =
               IF (Len(h) + 1 - i) % 2 = 0 THEN role ELSE Other(role)
  <2>1. Len(h) - i \in Nat /\ Len(h) + 1 - i = (Len(h) - i) + 1
    BY <1>1
  <2>2. /\ (Len(h) + 1 - i) % 2 = 0 <=> (Len(h) - i) % 2 = 1
        /\ (Len(h) - i) % 2 \in {0, 1}
    BY <2>1, Parity
  <2>3. h[i] = IF (Len(h) - i) % 2 = 0 THEN Other(role) ELSE role
    BY <1>2 DEF Alternates
  <2> QED BY <1>1, <2>2, <2>3
<1>4. (Len(h) + 1 - (Len(h) + 1)) % 2 = 0
  BY <1>1
<1>5. \A i \in 1..(Len(h) + 1) : i \in 1..Len(h) \/ i = Len(h) + 1
  BY <1>1
<1> QED BY <1>1, <1>3, <1>4, <1>5 DEF Alternates

\* Dropping old entries keeps it.
LEMMA BoundedAlternates ==
  ASSUME NEW h \in Seq({"user", "assistant"}), NEW role \in {"user", "assistant"},
         Alternates(h, role)
  PROVE  /\ Bounded(h) \in Seq({"user", "assistant"})
         /\ Alternates(Bounded(h), role)
         /\ Len(Bounded(h)) = IF Len(h) > HistoryMax THEN HistoryMax ELSE Len(h)
PROOF
<1>1. HistoryMax \in Nat \ {0} /\ Len(h) \in Nat
  BY LifecycleAssumption
<1>2. CASE Len(h) > HistoryMax
  <2> DEFINE m == Len(h) - HistoryMax + 1
             g == SubSeq(h, m, Len(h))
  <2>1. m \in Int /\ \A i \in m..Len(h) : h[i] \in {"user", "assistant"}
    BY <1>1, <1>2
  <2>2. /\ g \in Seq({"user", "assistant"}) /\ Len(g) = HistoryMax
        /\ \A i \in 1..HistoryMax : g[i] = h[m + i - 1]
    BY <1>1, <1>2, <2>1, SubSeqProperties
  <2>3. ASSUME NEW i \in 1..HistoryMax
        PROVE  g[i] = IF (HistoryMax - i) % 2 = 0 THEN role ELSE Other(role)
    <3>1. m + i - 1 \in 1..Len(h) /\ Len(h) - (m + i - 1) = HistoryMax - i
      BY <1>1, <1>2
    <3> QED BY <2>2, <3>1 DEF Alternates
  <2>4. Bounded(h) = g
    BY <1>2 DEF Bounded
  <2> HIDE DEF g
  <2> QED BY <1>2, <2>2, <2>3, <2>4 DEF Alternates
<1>3. CASE ~(Len(h) > HistoryMax)
  BY <1>3 DEF Bounded
<1> QED BY <1>2, <1>3

\* The length that a question brings an even history to.
LEMMA OpenLength ==
  ASSUME NEW n \in Nat, NEW max \in Nat, n <= max, (n + 1) % 2 = 1,
         NEW k, k = IF n + 1 > max THEN max ELSE n + 1
  PROVE  (k % 2 = 1 /\ k < max) \/ k = max
PROOF
<1>1. CASE n + 1 > max
  BY <1>1
<1>2. CASE n + 1 = max
  BY <1>2
<1>3. CASE n + 1 < max
  <2>1. k = n + 1
    BY <1>3
  <2> QED BY <1>3, <2>1
<1> QED BY <1>1, <1>2, <1>3

\* A question opens an exchange and an answer closes it.
LEMMA QuestionOpens ==
  ASSUME NEW h \in Seq({"user", "assistant"}), Whole(h)
  PROVE  /\ Bounded(Append(h, "user")) \in Seq({"user", "assistant"})
         /\ Open(Bounded(Append(h, "user")))
PROOF
<1> DEFINE g == Append(h, "user")
<1>1. g \in Seq({"user", "assistant"}) /\ Len(g) = Len(h) + 1 /\ Len(h) \in Nat
  BY AppendProperties
<1>2. Alternates(g, "user")
  BY AppendAlternates DEF Whole, Other
<1> HIDE DEF g
<1>3. /\ Bounded(g) \in Seq({"user", "assistant"}) /\ Alternates(Bounded(g), "user")
      /\ Len(Bounded(g)) = IF Len(g) > HistoryMax THEN HistoryMax ELSE Len(g)
  BY <1>1, <1>2, BoundedAlternates
<1>4. (Len(h) + 1) % 2 = 1
  BY <1>1, Parity DEF Whole
<1>5. HistoryMax \in Nat
  BY LifecycleAssumption
<1>6. (Len(Bounded(g)) % 2 = 1 /\ Len(Bounded(g)) < HistoryMax)
        \/ Len(Bounded(g)) = HistoryMax
  BY <1>1, <1>3, <1>4, <1>5, OpenLength DEF Whole
<1>7. Open(Bounded(g))
  BY <1>3, <1>6 DEF Open
<1> QED BY <1>3, <1>7 DEF g

LEMMA AnswerCloses ==
  ASSUME NEW h \in Seq({"user", "assistant"}), Open(h)
  PROVE  /\ Bounded(Append(h, "assistant")) \in Seq({"user", "assistant"})
         /\ Whole(Bounded(Append(h, "assistant")))
PROOF
<1> DEFINE g == Append(h, "assistant")
<1>1. g \in Seq({"user", "assistant"}) /\ Len(g) = Len(h) + 1 /\ Len(h) \in Nat
  BY AppendProperties
<1>2. Alternates(g, "assistant")
  BY AppendAlternates DEF Open, Other
<1> HIDE DEF g
<1>3. /\ Bounded(g) \in Seq({"user", "assistant"})
      /\ Alternates(Bounded(g), "assistant")
      /\ Len(Bounded(g)) = IF Len(g) > HistoryMax THEN HistoryMax ELSE Len(g)
  BY <1>1, <1>2, BoundedAlternates
<1>4. Len(h) % 2 = 1 => (Len(h) + 1) % 2 = 0
  BY <1>1, Parity
<1>5. HistoryMax \in Nat /\ HistoryMax % 2 = 0
  BY LifecycleAssumption, BotAssumption
<1>6. Len(Bounded(g)) % 2 = 0 /\ Len(Bounded(g)) <= HistoryMax
  <2>1. CASE Len(h) + 1 > HistoryMax
    BY <1>1, <1>3, <1>5, <2>1
  <2>2. CASE ~(Len(h) + 1 > HistoryMax)
    <3>1. Len(Bounded(g)) = Len(h) + 1
      BY <1>1, <1>3, <2>2
    <3>2. Len(h) % 2 = 1
      BY <1>1, <1>5, <2>2 DEF Open
    <3> QED BY <1>1, <1>4, <1>5, <2>2, <3>1, <3>2
  <2> QED BY <2>1, <2>2
<1>7. Whole(Bounded(g))
  BY <1>3, <1>6 DEF Whole
<1> QED BY <1>3, <1>7 DEF g

\* Only the Router's calls of AddToHistory lead to or from "assistant".
LEMMA HistoryNext == LifecycleInv /\ HistoryInv /\ [Next]_vars => HistoryInv'
PROOF
<1> SUFFICES ASSUME LifecycleInv, HistoryInv, [Next]_vars PROVE HistoryInv'
  OBVIOUS
<1>1. TypeOK
  BY DEF LifecycleInv
<1>2. ASSUME NEW c \in Callers, pc[c] # "assistant", UNCHANGED history,
             NEW l, l # "assistant", pc' = [pc EXCEPT ![c] = l]
      PROVE  HistoryInv'
  BY <1>1, <1>2 DEF HistoryInv, Whole, Open, Alternates, TypeOK, CallTypeOK
<1>3. ASSUME UNCHANGED <<pc, history>> PROVE HistoryInv'
  BY <1>3 DEF HistoryInv, Whole, Open, Alternates
<1>4. ASSUME NEW c \in Callers, NEW a, pc[c] # "assistant", Return(c, a),
             UNCHANGED history
      PROVE  HistoryInv'
  <2>1. AfterReturn(req[c]) # "assistant"
    BY DEF AfterReturn
  <2> QED BY <1>2, <1>4, <2>1 DEF Return
<1>5. ASSUME NEW c \in Callers, Call(c) \/ RouteRefuses(c) PROVE HistoryInv'
  BY <1>2, <1>3, <1>5 DEF Call, RouteRefuses
<1>6. ASSUME NEW c \in Callers, StopExecution(c) \/ handleBlocking(c) \/ handleText(c)
               \/ executionUnconfigured(c) \/ executionBusy(c)
      PROVE  HistoryInv'
  BY <1>4, <1>6 DEF StopExecution, handleBlocking, handleText, executionUnconfigured,
     executionBusy, Executing, Entering
<1>7. ASSUME NEW c \in Callers, handleExecution(c) \/ handleInvestigation(c)
      PROVE  HistoryInv'
  BY <1>2, <1>7 DEF handleExecution, handleInvestigation, BeginDispatch, Executing,
     Entering
<1>8. ASSUME NEW c \in Callers, AddToHistory(c, "user", "assistant") PROVE HistoryInv'
  <2>1. \A d \in Callers : d = c
    BY BotAssumption
  <2>2. Whole(history) /\ history \in Seq({"user", "assistant"})
    BY <1>8 DEF AddToHistory, HistoryInv
  <2>3. history' \in Seq({"user", "assistant"}) /\ Open(history')
    BY <1>8, <2>2, QuestionOpens DEF AddToHistory
  <2>4. pc'[c] = "assistant"
    BY <1>1, <1>8 DEF AddToHistory, TypeOK, CallTypeOK
  <2> QED BY <2>1, <2>3, <2>4 DEF HistoryInv, Open, Alternates
<1>9. ASSUME NEW c \in Callers, AddToHistory(c, "assistant", "idle") PROVE HistoryInv'
  <2>1. \A d \in Callers : d = c
    BY BotAssumption
  <2>2. Open(history) /\ history \in Seq({"user", "assistant"})
    BY <1>9 DEF AddToHistory, HistoryInv
  <2>3. history' \in Seq({"user", "assistant"}) /\ Whole(history')
    BY <1>9, <2>2, AnswerCloses DEF AddToHistory
  <2>4. pc'[c] = "idle"
    BY <1>1, <1>9 DEF AddToHistory, TypeOK, CallTypeOK
  <2> QED BY <2>1, <2>3, <2>4 DEF HistoryInv, Whole, Alternates
<1>10. ASSUME NEW c \in Callers, NEW r, pc[c] # "assistant",
              Settle(c, r) \/ FinishDispatch(c, r)
       PROVE  HistoryInv'
  BY <1>2, <1>4, <1>10 DEF Settle, FinishDispatch
<1>11. ASSUME NEW c \in Callers, DispatchStep(c) PROVE HistoryInv'
  <2>1. CASE StartExecution(c)
    BY <1>2, <2>1 DEF StartExecution
  <2>2. CASE StartFails(c) \/ PollFails(c)
    BY <1>4, <2>2 DEF StartFails, PollFails, FailDispatch
  <2>3. CASE PollTask(c)
    BY <1>2, <1>10, <2>3 DEF PollTask
  <2>4. CASE PollEmpty(c) \/ FetchConversation(c) \/ Deadline(c)
    BY <1>10, <2>4 DEF PollEmpty, FetchConversation, Deadline
  <2> QED BY <1>11, <2>1, <2>2, <2>3, <2>4 DEF DispatchStep
<1>12. CASE Service \/ UNCHANGED vars
  BY <1>3, <1>12 DEF Service, vars
<1> QED BY <1>5, <1>6, <1>7, <1>8, <1>9, <1>11, <1>12 DEF Next, Acquire

\* However long the bot runs and however often AddToHistory drops old entries,
\* between two messages the history consists of whole exchanges.
THEOREM HistoryIsWhole == BotSpec => []WholeExchanges
PROOF
<1>1. Init => LifecycleInv /\ HistoryInv
  <2> SUFFICES ASSUME Init PROVE LifecycleInv /\ HistoryInv
    OBVIOUS
  <2>1. LifecycleInv
    BY InvInit
  <2>2. HistoryInv
    BY LifecycleAssumption DEF Init, HistoryInv, Whole, Alternates
  <2> QED BY <2>1, <2>2
<1>2. LifecycleInv /\ HistoryInv /\ [Next]_vars => (LifecycleInv /\ HistoryInv)'
  BY InvNext, HistoryNext
<1>3. HistoryInv => WholeExchanges
  <2> SUFFICES ASSUME HistoryInv, \A c \in Callers : pc[c] = "idle"
               PROVE  /\ Len(history) % 2 = 0
                      /\ \A i \in 1..Len(history) :
                           history[i] = IF i % 2 = 1 THEN "user" ELSE "assistant"
    BY DEF WholeExchanges
  <2>1. Whole(history) /\ Len(history) \in Nat
    BY BotAssumption DEF HistoryInv
  <2>2. ASSUME NEW i \in 1..Len(history)
        PROVE  (Len(history) - i) % 2 = 0 <=> ~(i % 2 = 1)
    BY <2>1 DEF Whole
  <2> QED BY <2>1, <2>2 DEF Whole, Alternates, Other
<1>4. Spec => []WholeExchanges
  BY <1>1, <1>2, <1>3, PTL DEF Spec
<1>5. BotSpec => Spec
  BY DEF BotSpec, FairSpec
<1> QED BY <1>4, <1>5
-----------------------------------------------------------------------------
(* The promise.                                                            *)

\* What ExecutionLifecycle promises, the bot keeps.
THEOREM BotKeepsPromise == BotSpec => KeepsPromise
PROOF
<1>1. BotSpec => Spec
  BY DEF BotSpec, FairSpec
<1> QED BY <1>1, ImplementsPromise
===============================================================================

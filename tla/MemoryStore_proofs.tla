-------------------------- MODULE MemoryStore_proofs --------------------------
(***************************************************************************)
(* Type correctness of MemoryStore, the bound on the memories of one title *)
(* and that what the API has acknowledged is there, for any number of      *)
(* handlers, titles and requests.                                          *)
(***************************************************************************)
EXTENDS MemoryStore, FiniteSetTheorems, TLAPS

StoreInv == StoreTypeOK /\ TwinsAccounted /\ AckedIsKept

(* Types.                                                                  *)

\* The entry that an idle handler is given is one.
LEMMA NoEntryIsEntry == NoEntry \in Entry
<1>1. PICK t \in Titles : TRUE
  BY TitlesAssumption
<1>2. [type |-> "pdr", title |-> t] \in Entry
  BY DEF Entry, Types, Stored
<1>3. QED
  BY <1>2 DEF NoEntry

\* Dealing with an entry keeps the types of what it changes.
LEMMA DoneTypes ==
  ASSUME StoreTypeOK, NEW h \in Handlers, NEW ok \in BOOLEAN, Done(h, ok)
  PROVE  /\ pc' \in [Handlers -> {"idle", "pdrs", "adrs", "insert"}]
         /\ by' \in [Handlers -> {"api", "webhook"}]
         /\ entry' \in [Handlers -> Entry]
         /\ rest' \in [Handlers -> Seq(Entry)]
         /\ acked' \in SUBSET Entry
<1>1. entry[h] \in Entry /\ acked' \in SUBSET Entry
  BY DEF StoreTypeOK, Done
<1>2. CASE rest[h] = <<>>
  BY <1>1, <1>2, NoEntryIsEntry DEF StoreTypeOK, Done
<1>3. CASE rest[h] # <<>>
  <2>1. Head(rest[h]) \in Entry /\ Tail(rest[h]) \in Seq(Entry)
    BY <1>3 DEF StoreTypeOK
  <2>2. QED
    BY <1>1, <1>3, <2>1 DEF StoreTypeOK, Done
<1>4. QED
  BY <1>2, <1>3

\* Inserting an entry keeps the types of the tables.
LEMMA InsertTypes ==
  ASSUME StoreTypeOK, NEW e \in Entry, Insert(e)
  PROVE  /\ pdr_documents' \in [Titles -> Nat] /\ coding_preferences' \in SUBSET Titles
         /\ architecture_decisions' \in SUBSET Titles /\ nulls' \in SUBSET Titles
<1>1. e.title \in Titles
  BY DEF Entry
<1>2. QED
  BY <1>1 DEF StoreTypeOK, Insert, RuleOf

LEMMA TypeStep == StoreTypeOK /\ [StoreNext]_storeVars => StoreTypeOK'
<1> SUFFICES ASSUME StoreTypeOK, [StoreNext]_storeVars PROVE StoreTypeOK'
  OBVIOUS
<1>1. CASE OthersInsertADR
  BY <1>1 DEF StoreTypeOK, OthersInsertADR
<1>2. ASSUME NEW h \in Handlers, Request(h) PROVE StoreTypeOK'
  <2>1. PICK r \in Requests :
          /\ by' = [by EXCEPT ![h] = r.by]
          /\ entry' = [entry EXCEPT ![h] = r.first]
          /\ rest' = [rest EXCEPT ![h] = r.rest]
    BY <1>2 DEF Request
  <2>2. r.by \in {"api", "webhook"} /\ r.first \in Entry /\ r.rest \in Seq(Entry)
    BY RequestsAssumption
  <2>3. by' \in [Handlers -> {"api", "webhook"}]
    BY <2>1, <2>2 DEF StoreTypeOK
  <2>4. entry' \in [Handlers -> Entry] /\ rest' \in [Handlers -> Seq(Entry)]
    BY <2>1, <2>2 DEF StoreTypeOK
  <2>5. QED
    BY <1>2, <2>3, <2>4 DEF StoreTypeOK, Request, tables
<1>3. ASSUME NEW h \in Handlers, CheckPDRs(h) \/ CheckADRs(h) PROVE StoreTypeOK'
  BY <1>3 DEF StoreTypeOK, CheckPDRs, CheckADRs, tables
<1>4. ASSUME NEW h \in Handlers, CheckPDRsFails(h) PROVE StoreTypeOK'
  BY <1>4, BoundsAssumption DEF StoreTypeOK, CheckPDRsFails, tables
<1>5. ASSUME NEW h \in Handlers, Duplicate(h) PROVE StoreTypeOK'
  BY <1>5, DoneTypes DEF StoreTypeOK, Duplicate, tables
<1>6. ASSUME NEW h \in Handlers, StoreFails(h) PROVE StoreTypeOK'
  BY <1>6, DoneTypes DEF StoreTypeOK, StoreFails, Answer, tables
<1>7. ASSUME NEW h \in Handlers, Store(h) PROVE StoreTypeOK'
  <2>1. PICK ok \in BOOLEAN : Done(h, ok)
    BY <1>7 DEF Store
  <2>2. entry[h] \in Entry /\ Insert(entry[h]) /\ blind' = blind
    BY <1>7 DEF Store, StoreTypeOK
  <2>3. QED
    BY <2>1, <2>2, DoneTypes, InsertTypes DEF StoreTypeOK
<1>8. CASE UNCHANGED storeVars
  BY <1>8 DEF StoreTypeOK, storeVars, tables
<1>9. QED
  BY <1>1, <1>2, <1>3, <1>4, <1>5, <1>6, <1>7, <1>8 DEF StoreNext, Step

-----------------------------------------------------------------------------
(* Counting handlers.                                                      *)

\* The handlers that are past the check are finitely many, at most all.
LEMMA HandlersCount ==
  ASSUME NEW S \in SUBSET Handlers
  PROVE  /\ IsFiniteSet(S)
         /\ Cardinality(S) \in Nat /\ Cardinality(Handlers) \in Nat
         /\ Cardinality(S) <= Cardinality(Handlers)
BY HandlersAssumption, FS_Subset, FS_CardinalityType

LEMMA PastCount ==
  ASSUME NEW t
  PROVE  /\ Past(t) \subseteq Handlers
         /\ IsFiniteSet(Past(t)) /\ Cardinality(Past(t)) \in Nat
         /\ Cardinality(Handlers) \in Nat
         /\ Cardinality(Past(t)) <= Cardinality(Handlers)
<1>1. Past(t) \subseteq Handlers
  BY DEF Past
<1>2. QED
  BY <1>1, HandlersCount

\* Fewer handlers count for less, and one more for one more at most.
LEMMA CountShrinks ==
  ASSUME NEW S \in SUBSET Handlers, NEW T \in SUBSET S
  PROVE  Cardinality(T) <= Cardinality(S)
BY HandlersCount, FS_Subset

LEMMA CountGrows ==
  ASSUME NEW S \in SUBSET Handlers, NEW h \in Handlers, NEW T \in SUBSET (S \cup {h})
  PROVE  Cardinality(T) <= Cardinality(S) + 1
<1>1. S \cup {h} \in SUBSET Handlers /\ Cardinality(S) \in Nat /\ IsFiniteSet(S)
  BY HandlersCount
<1>2. Cardinality(S \cup {h}) <= Cardinality(S) + 1
  BY <1>1, FS_AddElement
<1>3. Cardinality(T) <= Cardinality(S \cup {h})
  BY <1>1, CountShrinks
<1>4. Cardinality(T) \in Nat /\ Cardinality(S \cup {h}) \in Nat
  BY <1>1, HandlersCount
<1>5. QED
  BY <1>1, <1>2, <1>3, <1>4

LEMMA CountDrops ==
  ASSUME NEW S \in SUBSET Handlers, NEW h \in S, NEW T \in SUBSET (S \ {h})
  PROVE  Cardinality(T) + 1 <= Cardinality(S)
<1>1. IsFiniteSet(S) /\ Cardinality(S) \in Nat
  BY HandlersCount
<1>2. Cardinality(S \ {h}) = Cardinality(S) - 1
  BY <1>1, FS_RemoveElement
<1>3. S \ {h} \in SUBSET Handlers
  OBVIOUS
<1>4. Cardinality(T) <= Cardinality(S \ {h}) /\ Cardinality(T) \in Nat
  BY <1>3, CountShrinks, HandlersCount
<1>5. QED
  BY <1>1, <1>2, <1>4

-----------------------------------------------------------------------------
(* The bound.                                                              *)

\* What is left of the bound for the title t, once it is stored.
Bounded(t) == pdr_documents[t] = 0 \/ pdr_documents[t] + Cardinality(Past(t)) <= Cardinality(Handlers) + blind

\* A step that inserts nothing and takes nobody past the check keeps the bound.
LEMMA QuietStep ==
  ASSUME StoreTypeOK, NEW t \in Titles, Bounded(t), pdr_documents' = pdr_documents, blind' = blind,
         Past(t)' \subseteq Past(t)
  PROVE  Bounded(t)'
<1>1. Cardinality(Past(t)') <= Cardinality(Past(t))
  BY PastCount, CountShrinks
<1>2. Cardinality(Past(t)') \in Nat /\ Cardinality(Past(t)) \in Nat
      /\ Cardinality(Handlers) \in Nat
  BY PastCount, HandlersCount
<1>3. pdr_documents[t] \in Nat /\ blind \in Nat
  BY BoundsAssumption DEF StoreTypeOK
<1>4. QED
  BY <1>1, <1>2, <1>3 DEF Bounded

\* A handler that has dealt with its entry is past no check.
LEMMA DoneLeaves ==
  ASSUME StoreTypeOK, NEW h \in Handlers, NEW ok \in BOOLEAN, Done(h, ok), NEW t
  PROVE  Past(t)' \subseteq Past(t) \ {h}
<1>1. pc'[h] \in {"idle", "pdrs"}
  BY DEF StoreTypeOK, Done
<1>2. ASSUME NEW g \in Handlers \ {h} PROVE pc'[g] = pc[g] /\ entry'[g] = entry[g]
  BY DEF StoreTypeOK, Done
<1>3. QED
  BY <1>1, <1>2 DEF Past

LEMMA TwinStep == StoreTypeOK /\ TwinsAccounted /\ [StoreNext]_storeVars => TwinsAccounted'
<1> SUFFICES ASSUME StoreTypeOK, [StoreNext]_storeVars, NEW t \in Titles, t \notin Escaped, Bounded(t)
             PROVE  Bounded(t)'
  BY DEF TwinsAccounted, Bounded
<1>1. CASE OthersInsertADR
  BY <1>1, QuietStep DEF OthersInsertADR, Past
<1>2. ASSUME NEW h \in Handlers, Request(h) PROVE Bounded(t)'
  <2>1. Past(t)' \subseteq Past(t)
    BY <1>2 DEF Request, Past, StoreTypeOK
  <2>2. QED
    BY <1>2, <2>1, QuietStep DEF Request, tables
<1>3. ASSUME NEW h \in Handlers, CheckPDRs(h) PROVE Bounded(t)'
  <2>1. CASE entry[h] = [type |-> "pdr", title |-> t]
    <3>1. pdr_documents[t] = 0
      BY <1>3, <2>1 DEF CheckPDRs, AmongPDRs, StoreTypeOK
    <3>2. QED
      BY <1>3, <3>1 DEF CheckPDRs, tables, Bounded
  <2>2. CASE entry[h] # [type |-> "pdr", title |-> t]
    <3>1. Past(t)' \subseteq Past(t)
      BY <1>3, <2>2 DEF CheckPDRs, Past, StoreTypeOK
    <3>2. QED
      BY <1>3, <3>1, QuietStep DEF CheckPDRs, tables
  <2>3. QED
    BY <2>1, <2>2
<1>4. ASSUME NEW h \in Handlers, CheckPDRsFails(h) PROVE Bounded(t)'
  <2>1. Past(t)' \subseteq Past(t) \cup {h}
    BY <1>4 DEF CheckPDRsFails, Past, StoreTypeOK
  <2>2. Cardinality(Past(t)') <= Cardinality(Past(t)) + 1
    BY <2>1, PastCount, CountGrows
  <2>3. Cardinality(Past(t)') \in Nat /\ Cardinality(Past(t)) \in Nat
        /\ Cardinality(Handlers) \in Nat
    <3>1. Past(t)' \in SUBSET Handlers
      BY <2>1, PastCount
    <3>2. QED
      BY <3>1, PastCount, HandlersCount
  <2>4. pdr_documents[t] \in Nat /\ blind \in Nat /\ pdr_documents' = pdr_documents /\ blind' = blind + 1
    BY <1>4, BoundsAssumption DEF StoreTypeOK, CheckPDRsFails, tables
  <2>5. QED
    BY <2>2, <2>3, <2>4 DEF Bounded
<1>5. ASSUME NEW h \in Handlers, CheckADRs(h) PROVE Bounded(t)'
  <2>1. Past(t)' \subseteq Past(t)
    BY <1>5 DEF CheckADRs, Past, StoreTypeOK
  <2>2. QED
    BY <1>5, <2>1, QuietStep DEF CheckADRs, tables
<1>6. ASSUME NEW h \in Handlers, Duplicate(h) \/ StoreFails(h) PROVE Bounded(t)'
  <2>1. PICK ok \in BOOLEAN : Done(h, ok)
    BY <1>6 DEF Duplicate, StoreFails, Answer
  <2>2. Past(t)' \subseteq Past(t)
    BY <2>1, DoneLeaves
  <2>3. QED
    BY <1>6, <2>2, QuietStep DEF Duplicate, StoreFails, tables
<1>7. ASSUME NEW h \in Handlers, Store(h) PROVE Bounded(t)'
  <2>1. PICK ok \in BOOLEAN : Done(h, ok)
    BY <1>7 DEF Store
  <2>2. Past(t)' \subseteq Past(t) \ {h}
    BY <2>1, DoneLeaves
  <2>3. CASE entry[h] = [type |-> "pdr", title |-> t]
    <3>1. h \in Past(t)
      BY <1>7, <2>3 DEF Store, Past
    <3>2. Cardinality(Past(t)') + 1 <= Cardinality(Past(t))
      BY <2>2, <3>1, PastCount, CountDrops
    <3>3. pdr_documents'[t] = pdr_documents[t] + 1 /\ blind' = blind
      BY <1>7, <2>3 DEF Store, Insert, StoreTypeOK
    <3>4. /\ pdr_documents[t] \in Nat /\ blind \in Nat
          /\ Cardinality(Past(t)) \in Nat /\ Cardinality(Handlers) \in Nat
          /\ Cardinality(Past(t)) <= Cardinality(Handlers)
      BY PastCount, BoundsAssumption DEF StoreTypeOK
    <3>5. Cardinality(Past(t)') \in Nat
      <4>1. Past(t)' \in SUBSET Handlers
        BY <2>2, PastCount
      <4>2. QED
        BY <4>1, HandlersCount
    <3>6. QED
      BY <3>2, <3>3, <3>4, <3>5 DEF Bounded
  <2>4. CASE entry[h] # [type |-> "pdr", title |-> t]
    <3>1. entry[h] \in Entry
      BY DEF StoreTypeOK
    <3>2. pdr_documents'[t] = pdr_documents[t] /\ blind' = blind
      BY <1>7, <2>4, <3>1 DEF Store, Insert, StoreTypeOK, Entry
    <3>3. Cardinality(Past(t)') <= Cardinality(Past(t))
      BY <2>2, PastCount, CountShrinks
    <3>4. Past(t)' \in SUBSET Handlers
      BY <2>2, PastCount
    <3>5. /\ Cardinality(Past(t)') \in Nat /\ Cardinality(Past(t)) \in Nat
          /\ Cardinality(Handlers) \in Nat /\ pdr_documents[t] \in Nat /\ blind \in Nat
      BY <3>4, PastCount, HandlersCount, BoundsAssumption DEF StoreTypeOK
    <3>6. QED
      BY <3>2, <3>3, <3>5 DEF Bounded
  <2>5. QED
    BY <2>3, <2>4
<1>8. CASE UNCHANGED storeVars
  <2>1. Past(t)' \subseteq Past(t)
    BY <1>8 DEF storeVars, Past
  <2>2. QED
    BY <1>8, <2>1, QuietStep DEF storeVars, tables
<1>9. QED
  BY <1>1, <1>2, <1>3, <1>4, <1>5, <1>6, <1>7, <1>8 DEF StoreNext, Step

-----------------------------------------------------------------------------
(* What was acknowledged.                                                  *)

\* Nothing is ever deleted.
LEMMA RowsStay ==
  ASSUME StoreTypeOK, [StoreNext]_storeVars
  PROVE  /\ \A t \in Titles : pdr_documents[t] > 0 => pdr_documents'[t] > 0
         /\ coding_preferences \subseteq coding_preferences'
<1>1. ASSUME NEW h \in Handlers, Store(h)
      PROVE  /\ \A t \in Titles : pdr_documents[t] > 0 => pdr_documents'[t] > 0
             /\ coding_preferences \subseteq coding_preferences'
  <2>1. entry[h] \in Entry /\ Insert(entry[h])
    BY <1>1 DEF Store, StoreTypeOK
  <2>2. QED
    BY <2>1 DEF Insert, StoreTypeOK, Entry
<1>2. \/ UNCHANGED <<pdr_documents, coding_preferences>>
      \/ \E h \in Handlers : Store(h)
  BY DEF StoreNext, Step, storeVars, tables, OthersInsertADR, Request, CheckPDRs,
         CheckPDRsFails, CheckADRs, Duplicate, StoreFails
<1>3. QED
  BY <1>1, <1>2

\* Only an insertion adds to what is acknowledged, and only its own entry.
LEMMA AckedGrows ==
  ASSUME StoreTypeOK, [StoreNext]_storeVars, acked' # acked
  PROVE  \E h \in Handlers : Store(h) /\ acked' = acked \cup {entry[h]}
BY DEF StoreNext, Step, storeVars, OthersInsertADR, Request, CheckPDRs, CheckPDRsFails,
       CheckADRs, Duplicate, StoreFails, Store, Done, Answer

LEMMA AckedStep == StoreTypeOK /\ AckedIsKept /\ [StoreNext]_storeVars => AckedIsKept'
<1> SUFFICES ASSUME StoreTypeOK, AckedIsKept, [StoreNext]_storeVars, NEW e \in acked'
             PROVE  \/ e.type = "pdr" /\ pdr_documents'[e.title] > 0
                    \/ e.type = "pref" /\ e.title \in coding_preferences'
  BY DEF AckedIsKept
<1>1. CASE e \in acked
  <2>1. e.title \in Titles
    BY <1>1 DEF StoreTypeOK, Entry
  <2>2. QED
    BY <1>1, <2>1, RowsStay DEF AckedIsKept
<1>2. CASE e \notin acked
  <2>1. PICK h \in Handlers : Store(h) /\ acked' = acked \cup {entry[h]}
    BY <1>2, AckedGrows
  <2>2. e = entry[h] /\ e \in Entry
    BY <1>2, <2>1 DEF StoreTypeOK
  <2>3. Insertable(e) /\ Insert(e)
    BY <2>1, <2>2 DEF Store
  <2>4. QED
    BY <2>2, <2>3 DEF Insertable, Insert, RuleOf, StoreTypeOK, Entry
<1>3. QED
  BY <1>1, <1>2

-----------------------------------------------------------------------------

\* The three parts hold in every reachable state of the memory store.
THEOREM StoreInvariant == StoreSpec => []StoreInv
<1>1. StoreInit => StoreInv
  <2> SUFFICES ASSUME StoreInit PROVE StoreInv
    OBVIOUS
  <2>1. StoreTypeOK
    BY NoEntryIsEntry, BoundsAssumption DEF StoreInit, StoreTypeOK
  <2>2. TwinsAccounted
    BY TitlesAssumption DEF StoreInit, TwinsAccounted
  <2>3. AckedIsKept
    BY DEF StoreInit, AckedIsKept
  <2>4. QED
    BY <2>1, <2>2, <2>3 DEF StoreInv
<1>2. StoreInv /\ [StoreNext]_storeVars => StoreInv'
  BY TypeStep, TwinStep, AckedStep DEF StoreInv
<1>3. QED
  BY <1>1, <1>2, PTL DEF StoreSpec

\* Every variable of the memory store keeps its type.
THEOREM StoreTypes == StoreSpec => []StoreTypeOK
<1>1. StoreInv => StoreTypeOK
  BY DEF StoreInv
<1>2. QED
  BY <1>1, StoreInvariant, PTL

\* A title is stored at most once for every handler and every failed search,
\* however the check and the insertion of CreateMemory interleave.
THEOREM TwinsAreBounded == StoreSpec => []TwinBound
<1>1. StoreInv => TwinBound
  <2> SUFFICES ASSUME StoreInv, NEW t \in Titles \ Escaped
               PROVE  pdr_documents[t] <= Cardinality(Handlers) + blind
    BY DEF TwinBound
  <2>1. pdr_documents[t] \in Nat /\ blind \in Nat /\ Cardinality(Handlers) \in Nat
        /\ Cardinality(Past(t)) \in Nat
    BY PastCount, BoundsAssumption DEF StoreInv, StoreTypeOK
  <2>2. pdr_documents[t] = 0 \/ pdr_documents[t] + Cardinality(Past(t)) <= Cardinality(Handlers) + blind
    BY DEF StoreInv, TwinsAccounted
  <2>3. QED
    BY <2>1, <2>2
<1>2. QED
  BY <1>1, StoreInvariant, PTL

\* What the memory API has answered to have stored stays in its table.
THEOREM NothingAckedIsLost == StoreSpec => []AckedIsKept
<1>1. StoreInv => AckedIsKept
  BY DEF StoreInv
<1>2. QED
  BY <1>1, StoreInvariant, PTL
=============================================================================

------------------------------ MODULE MemoryStore ------------------------------
(***************************************************************************)
(* What the memory API (cmd/api/handlers.go) stores through CreateMemory   *)
(* (internal/memory/postgres.go): a look for the title among the PDRs, one *)
(* among the ADRs and an insertion, three statements in no transaction and *)
(* with no unique index, made by the handlers of concurrent requests.      *)
(*                                                                         *)
(* Titles are compared without case by Postgres and by Go alike, so a      *)
(* title stands for its spellings.  Contents, embeddings and scores decide *)
(* nothing here and are left out, and so are requests that are refused     *)
(* before they reach the store.                                            *)
(***************************************************************************)
EXTENDS Naturals, Sequences, FiniteSets

CONSTANTS
  Handlers,   \* goroutines that serve requests
  Titles,     \* titles of memories
  Escaped,    \* titles with a backslash, which ILIKE takes for an escape
  Requests,   \* requests that are made: who asks, and for which entries
  MaxTwins,   \* bound: PDRs of one title at which no more are asked for
  MaxFaults   \* bound: searches of the PDRs that fail

Stored   == {"pdr", "adr", "pref"}
Types    == Stored \cup {"mistake", "sprint", "operational"}
Entry    == [type : Types, title : Titles]

\* Types that classifyMessage and the pull request and issue events give.
WebhookTypes == {"adr", "mistake", "sprint", "operational"}

ASSUME HandlersAssumption == IsFiniteSet(Handlers)

ASSUME RequestsAssumption ==
  \A r \in Requests :
    /\ r.by \in {"api", "webhook"}
    /\ r.first \in Entry
    /\ r.rest \in Seq(Entry)
    /\ r.by = "api" => r.rest = <<>>
    /\ r.by = "webhook" => r.first.type \in WebhookTypes

ASSUME TitlesAssumption == Titles # {} /\ Escaped \subseteq Titles

ASSUME BoundsAssumption == MaxTwins \in Nat /\ MaxFaults \in Nat

VARIABLES
  pdr_documents,            \* how many rows there are of each title
  coding_preferences,       \* the rules there are
  architecture_decisions,   \* the titles there are
  nulls,   \* titles that find an ADR which cannot be scanned
  pc, by, entry, rest,   \* of each handler: its place, its request, the entry
                         \* it stores and the commits it has still to store
  acked,   \* history: what the API has answered to have stored
  blind    \* history: searches of the PDRs that failed

tables    == <<pdr_documents, coding_preferences, architecture_decisions, nulls>>
storeVars == <<tables, pc, by, entry, rest, acked, blind>>

StoreTypeOK ==
  /\ pdr_documents \in [Titles -> Nat]
  /\ coding_preferences \in SUBSET Titles
  /\ architecture_decisions \in SUBSET Titles /\ nulls \in SUBSET Titles
  /\ pc \in [Handlers -> {"idle", "pdrs", "adrs", "insert"}]
  /\ by \in [Handlers -> {"api", "webhook"}]
  /\ entry \in [Handlers -> Entry]
  /\ rest \in [Handlers -> Seq(Entry)]
  /\ acked \in SUBSET Entry
  /\ blind \in 0..MaxFaults

NoEntry == CHOOSE e \in Entry : TRUE

StoreInit ==
  /\ pdr_documents = [t \in Titles |-> 0]
  /\ coding_preferences = {} /\ architecture_decisions = {} /\ nulls = {}
  /\ pc = [h \in Handlers |-> "idle"]
  /\ by = [h \in Handlers |-> "api"]
  /\ entry = [h \in Handlers |-> NoEntry]
  /\ rest = [h \in Handlers |-> <<>>]
  /\ acked = {}
  /\ blind = 0

-----------------------------------------------------------------------------

\* Rows that others put into the table.  Consequences may be NULL there, which
\* cannot be scanned into a string.
OthersInsertADR ==
  /\ \E t \in Titles :
       /\ architecture_decisions' = architecture_decisions \cup {t}
       /\ nulls' \in {nulls, nulls \cup {t}}
  /\ UNCHANGED <<pdr_documents, coding_preferences>>
  /\ UNCHANGED <<pc, by, entry, rest, acked, blind>>

\* handleCreateMemory, handleIngestMemory or handleGitHubWebhook.
Request(h) ==
  /\ pc[h] = "idle"
  /\ \E r \in Requests :
       /\ pdr_documents[r.first.title] < MaxTwins
       /\ by' = [by EXCEPT ![h] = r.by]
       /\ entry' = [entry EXCEPT ![h] = r.first]
       /\ rest' = [rest EXCEPT ![h] = r.rest]
  /\ pc' = [pc EXCEPT ![h] = "pdrs"]
  /\ UNCHANGED <<tables, acked, blind>>

\* The entry is dealt with.  A webhook ignores how and goes on to its next
\* commit; the API answers what it stored, or an error.
Done(h, ok) ==
  /\ IF rest[h] = <<>>
       THEN /\ pc' = [pc EXCEPT ![h] = "idle"]
            /\ by' = [by EXCEPT ![h] = "api"]
            /\ entry' = [entry EXCEPT ![h] = NoEntry]
            /\ UNCHANGED rest
       ELSE /\ pc' = [pc EXCEPT ![h] = "pdrs"]
            /\ entry' = [entry EXCEPT ![h] = Head(rest[h])]
            /\ rest' = [rest EXCEPT ![h] = Tail(@)]
            /\ UNCHANGED by
  /\ acked' = IF ok /\ by[h] = "api" THEN acked \cup {entry[h]} ELSE acked

\* isDuplicate, first half.
AmongPDRs_never(t) == FALSE   \* variant: only the ADRs are searched

AmongPDRs(t) == pdr_documents[t] > 0 /\ t \notin Escaped

CheckPDRs(h) ==
  /\ pc[h] = "pdrs"
  /\ ~AmongPDRs(entry[h].title)
  /\ pc' = [pc EXCEPT ![h] = "adrs"]
  /\ UNCHANGED <<tables, by, entry, rest, acked, blind>>

\* The error is ignored, as if nothing had been found.
CheckPDRsFails(h) ==
  /\ pc[h] = "pdrs"
  /\ blind < MaxFaults
  /\ blind' = blind + 1
  /\ pc' = [pc EXCEPT ![h] = "adrs"]
  /\ UNCHANGED <<tables, by, entry, rest, acked>>

\* isDuplicate, second half: a row that cannot be scanned fails the search.
AmongADRs(t) == t \in architecture_decisions /\ t \notin nulls \cup Escaped

\* Nothing is found, or the search fails, which is ignored as well.
CheckADRs(h) ==
  /\ pc[h] = "adrs"
  /\ pc' = [pc EXCEPT ![h] = "insert"]
  /\ UNCHANGED <<tables, by, entry, rest, acked, blind>>

Duplicate(h) ==
  /\ \/ pc[h] = "pdrs" /\ AmongPDRs(entry[h].title)
     \/ pc[h] = "adrs" /\ AmongADRs(entry[h].title)
  /\ Done(h, FALSE)
  /\ UNCHANGED <<tables, blind>>

\* StoreADR sends "" for a TEXT[], which Postgres refuses; the other types have
\* no table.
Insertable(e) == e.type \in {"pdr", "pref"}

RuleOf_type(e) == e.type   \* variant: the fields of the preference mixed up

RuleOf(e) == e.title

Insert(e) ==
  /\ pdr_documents' = [t \in Titles |->
                         pdr_documents[t] + IF e = [type |-> "pdr", title |-> t] THEN 1 ELSE 0]
  /\ coding_preferences' =
       coding_preferences \cup IF e.type = "pref" THEN {RuleOf(e)} ELSE {}
  /\ UNCHANGED <<architecture_decisions, nulls>>

\* The insertion is answered, or its answer is lost on the way.
Store(h) ==
  /\ pc[h] = "insert"
  /\ Insertable(entry[h])
  /\ Insert(entry[h])
  /\ \E ok \in BOOLEAN : Done(h, ok)
  /\ UNCHANGED blind

Answer_stored == TRUE   \* variant: the error is not returned

Answer == FALSE

\* The insertion fails; that of an ADR, or of a type without a table, always.
StoreFails(h) ==
  /\ pc[h] = "insert"
  /\ Done(h, Answer)
  /\ UNCHANGED <<tables, blind>>

-----------------------------------------------------------------------------

Step(h) ==
  \/ CheckPDRs(h) \/ CheckPDRsFails(h) \/ CheckADRs(h) \/ Duplicate(h)
  \/ Store(h) \/ StoreFails(h)

StoreNext == OthersInsertADR \/ \E h \in Handlers : Request(h) \/ Step(h)

StoreSpec == StoreInit /\ [][StoreNext]_storeVars

-----------------------------------------------------------------------------
(* Properties.                                                             *)

\* The check of CreateMemory and its insertion are not one step, so titles can
\* be stored twice, but not often: one for every handler that was past the
\* check when the first was stored, and one for every failed search.
TwinBound ==
  \A t \in Titles \ Escaped : pdr_documents[t] <= Cardinality(Handlers) + blind

\* What makes it inductive: the handlers that are past the check count too,
\* from the first PDR of that title on.
Past(t) ==
  {h \in Handlers : pc[h] \in {"adrs", "insert"} /\ entry[h] = [type |-> "pdr", title |-> t]}

TwinsAccounted ==
  \A t \in Titles \ Escaped :
    \/ pdr_documents[t] = 0
    \/ pdr_documents[t] + Cardinality(Past(t)) <= Cardinality(Handlers) + blind

\* What the API has answered to have stored is in its table.
AckedIsKept ==
  \A e \in acked :
    \/ e.type = "pdr" /\ pdr_documents[e.title] > 0
    \/ e.type = "pref" /\ e.title \in coding_preferences
=============================================================================

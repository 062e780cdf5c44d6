---------------------------- MODULE ContextAssembly ----------------------------
(***************************************************************************)
(* How the API makes a context out of stored memories: SearchMemory of     *)
(* internal/memory/postgres.go, and handleSearch, handleBuildContext,      *)
(* handleAgentRuntime and handleBootstrap of cmd/api/handlers.go.  One     *)
(* request at a time is followed; other requests store rows between its    *)
(* two queries.                                                            *)
(*                                                                         *)
(* Only the lengths of texts matter.  A row that matches the query is      *)
(* rendered as "[type: title]\n content \n\n": size characters, of which   *)
(* the last trail are white space.                                         *)
(***************************************************************************)
EXTENDS Integers, Sequences, FiniteSets

CONSTANTS Contents,          \* texts of rows, of which duplicates are dropped
          Rows,              \* the rows that may be stored, a set of Row
          Queries,           \* the requests that are made, a set of Query
          MaxRows,           \* bound: rows of each table
          BuildLimit,        \* 10, handleBuildContext
          RuntimeLimit,      \* 10, handleAgentRuntime
          BootstrapLimit,    \* 15, handleBootstrap
          maxContextLength,  \* 8000
          BootstrapLength    \* 6000, handleBootstrap

Row == [content : Contents, size : Nat, trail : Nat]

\* limit and max are 0 when a body does not give them; the limit of a search is
\* the parsed one, 5 when the query string has none.
Query == [op : {"search", "build", "runtime", "bootstrap"}, limit : Int, max : Int]

ASSUME ContextAssumption ==
  /\ Rows \subseteq Row
  /\ \A row \in Rows : row.trail < row.size   \* a rendered row has its "["
  /\ Queries \subseteq Query
  /\ MaxRows \in Nat
  /\ {BuildLimit, RuntimeLimit, BootstrapLimit,
      maxContextLength, BootstrapLength} \subseteq Nat

VARIABLES pdrs, adrs,  \* the matching rows of both tables, newest first
          at,          \* where the request is
          query,       \* the request
          found,       \* SearchMemory's results, each with its type
          next,        \* the next result the loop looks at
          sources,     \* what the response lists
          length,      \* ctx.Len()
          answer       \* the length of the context returned and whether it was cut

contextVars == <<pdrs, adrs, at, query, found, next, sources, length, answer>>
assembly    == <<next, sources, length, answer>>

-----------------------------------------------------------------------------

NoQuery  == [op |-> "search", limit |-> 0, max |-> 0]
NoAnswer == [length |-> 0, cut |-> FALSE]
Typed(type, rows) == [i \in 1..Len(rows) |-> [type |-> type, row |-> rows[i]]]

ContextInit ==
  /\ pdrs = << >> /\ adrs = << >>
  /\ at = "idle"
  /\ query = NoQuery
  /\ found = << >>
  /\ next = 1 /\ sources = << >> /\ length = 0 /\ answer = NoAnswer

Limit(q) ==
  CASE q.op = "search"    -> q.limit
    [] q.op = "build"     -> IF q.limit = 0 THEN BuildLimit ELSE q.limit
    [] q.op = "runtime"   -> RuntimeLimit
    [] q.op = "bootstrap" -> BootstrapLimit

MaxLength(q) ==
  CASE q.op = "bootstrap" /\ q.max # 0 -> q.max
    [] q.op = "bootstrap" /\ q.max = 0 -> BootstrapLength
    [] OTHER                           -> maxContextLength

Bounded(q) == q.op \in {"runtime", "bootstrap"}   \* the two that bound and dedup

-----------------------------------------------------------------------------
(* Rows are stored by other requests: ORDER BY created_at DESC.            *)

StoreRow ==
  /\ \E row \in Rows :
       \/ Len(pdrs) < MaxRows /\ pdrs' = <<row>> \o pdrs /\ UNCHANGED adrs
       \/ Len(adrs) < MaxRows /\ adrs' = <<row>> \o adrs /\ UNCHANGED pdrs
  /\ UNCHANGED <<at, query, found, assembly>>

Ask ==
  /\ at = "idle"
  /\ query' \in Queries
  /\ at' = "pdrs"
  /\ UNCHANGED <<pdrs, adrs, found, assembly>>

\* SearchMemory: a query that fails counts as one that finds nothing.
SearchPDRs ==
  /\ at = "pdrs"
  /\ found' \in {<< >>, Typed("pdr", pdrs)}
  /\ at' = "adrs"
  /\ UNCHANGED <<pdrs, adrs, query, assembly>>

SearchADRs ==
  /\ at = "adrs"
  /\ found' \in {found, found \o Typed("adr", adrs)}
  /\ at' = "limit"
  /\ UNCHANGED <<pdrs, adrs, query, assembly>>

\* A search is answered with the results, the others make a context of them.
Found == IF query.op = "search" THEN "done" ELSE "assemble"

LimitResults_always ==   \* variant: results[:limit] without looking at the length
  /\ at = "limit"
  /\ IF Limit(query) \in 0..Len(found)
       THEN found' = SubSeq(found, 1, Limit(query)) /\ at' = Found
       ELSE at' = "panicked" /\ UNCHANGED found
  /\ UNCHANGED <<pdrs, adrs, query, assembly>>

\* results[:limit] panics on a negative limit, whatever was found.
LimitResults ==
  /\ at = "limit"
  /\ IF Len(found) > Limit(query)
       THEN IF Limit(query) < 0
              THEN at' = "panicked" /\ UNCHANGED found
              ELSE at' = Found /\ found' = SubSeq(found, 1, Limit(query))
       ELSE at' = Found /\ UNCHANGED found
  /\ UNCHANGED <<pdrs, adrs, query, assembly>>

-----------------------------------------------------------------------------
(* The loop over the results.                                              *)

Listed_last(content) ==   \* variant: compared with the last source only
  sources # << >> /\ sources[Len(sources)].row.content = content

Listed(content) == \E i \in 1..Len(sources) : sources[i].row.content = content

More == at = "assemble" /\ next <= Len(found)

\* if seen[res.Content] { continue }
SkipSeen ==
  /\ More /\ Bounded(query) /\ Listed(found[next].row.content)
  /\ next' = next + 1
  /\ UNCHANGED <<pdrs, adrs, at, query, found, sources, length, answer>>

Write_unbounded ==   \* variant: no break
  /\ More /\ (Bounded(query) => ~Listed(found[next].row.content))
  /\ sources' = Append(sources, found[next])
  /\ length' = length + found[next].row.size
  /\ next' = next + 1
  /\ UNCHANGED <<pdrs, adrs, at, query, found, answer>>

Write_early ==   \* variant: break at half the length
  /\ More /\ (Bounded(query) => ~Listed(found[next].row.content))
  /\ sources' = Append(sources, found[next])
  /\ length' = length + found[next].row.size
  /\ next' = next + 1
  /\ at' = IF Bounded(query) /\ 2 * length' > MaxLength(query) THEN "trim" ELSE at
  /\ UNCHANGED <<pdrs, adrs, query, found, answer>>

\* Append the result and break when the text has become too long.
Write ==
  /\ More /\ (Bounded(query) => ~Listed(found[next].row.content))
  /\ sources' = Append(sources, found[next])
  /\ length' = length + found[next].row.size
  /\ next' = next + 1
  /\ at' = IF Bounded(query) /\ length' > MaxLength(query) THEN "trim" ELSE at
  /\ UNCHANGED <<pdrs, adrs, query, found, answer>>

EndOfLoop ==
  /\ at = "assemble" /\ next > Len(found)
  /\ at' = "trim"
  /\ UNCHANGED <<pdrs, adrs, query, found, assembly>>

\* strings.TrimSpace
Trimmed == IF sources = << >> THEN 0
           ELSE length - sources[Len(sources)].row.trail

Respond_unchecked ==   \* variant: a cut at a negative place
  /\ at = "trim"
  /\ at' = "done"
  /\ answer' = IF Bounded(query) /\ Trimmed > MaxLength(query)
                 THEN [length |-> MaxLength(query), cut |-> TRUE]
                 ELSE [length |-> Trimmed, cut |-> FALSE]
  /\ UNCHANGED <<pdrs, adrs, query, found, next, sources, length>>

\* Cut to the maximum, a slice that panics when that is negative.
Respond ==
  /\ at = "trim"
  /\ IF Bounded(query) /\ Trimmed > MaxLength(query)
       THEN IF MaxLength(query) < 0
              THEN at' = "panicked" /\ UNCHANGED answer
              ELSE at' = "done" /\ answer' = [length |-> MaxLength(query), cut |-> TRUE]
       ELSE at' = "done" /\ answer' = [length |-> Trimmed, cut |-> FALSE]
  /\ UNCHANGED <<pdrs, adrs, query, found, next, sources, length>>

\* The response is sent, or the server has caught the panic and closed the
\* connection without one.
EndRequest ==
  /\ at \in {"done", "panicked"}
  /\ at' = "idle"
  /\ query' = NoQuery
  /\ found' = << >>
  /\ next' = 1 /\ sources' = << >> /\ length' = 0 /\ answer' = NoAnswer
  /\ UNCHANGED <<pdrs, adrs>>

ContextNext ==
  \/ StoreRow \/ Ask \/ SearchPDRs \/ SearchADRs \/ LimitResults
  \/ SkipSeen \/ Write \/ EndOfLoop \/ Respond \/ EndRequest

ContextSpec == ContextInit /\ [][ContextNext]_contextVars

-----------------------------------------------------------------------------
(* Properties.                                                             *)

Result == [type : {"pdr", "adr"}, row : Rows]

ContextTypeOK ==
  /\ pdrs \in Seq(Rows) /\ adrs \in Seq(Rows)
  /\ at \in {"idle", "pdrs", "adrs", "limit", "assemble", "trim", "done", "panicked"}
  /\ query \in Query
  /\ found \in Seq(Result)
  /\ next \in 1..(Len(found) + 1)
  /\ sources \in Seq(Result)
  /\ length \in Nat
  /\ answer \in [length : Nat, cut : BOOLEAN]

\* The end of the last source but one in the text.
Before == IF sources = << >> THEN 0 ELSE length - sources[Len(sources)].row.size

\* A cut context still holds every source that the response lists in full,
\* except the last: the loop breaks at the first result that goes past the
\* maximum.
OnlyLastIsCut == at = "done" => answer.length >= Before

\* As long as the text fits, nothing that was found is missing: a result is
\* left out only if one with the same content is listed.
NothingFitsIsMissing ==
  /\ at = "done" /\ query.op # "search"
  /\ Bounded(query) => length <= MaxLength(query)
  =>
    \A i \in 1..Len(found) : Listed(found[i].row.content)

\* No content is listed twice where the handler drops duplicates.
ListedOnce ==
  Bounded(query) =>
    \A i, j \in 1..Len(sources) :
      sources[i].row.content = sources[j].row.content => i = j

\* A panic takes a negative number in the request: what the code sets itself
\* never makes a slice go out of range.
PanicNeedsNegative ==
  at = "panicked" => \/ query.op \in {"search", "build"} /\ query.limit < 0
                     \/ query.op = "bootstrap" /\ query.max < 0

\* Decisions come last: the limit drops all of them before it drops one
\* product document.
DecisionsComeLast ==
  \A i, j \in 1..Len(found) :
    found[i].type = "adr" /\ found[j].type = "pdr" => j < i
=============================================================================

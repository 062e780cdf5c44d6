------------------------ MODULE ContextAssembly_proofs ------------------------
(***************************************************************************)
(* What a context holds, for any rows, requests and limits.                *)
(***************************************************************************)
EXTENDS ContextAssembly, SequenceTheorems, TLAPS

\* Before the loop nothing has been written, and before the searches nothing
\* has been found.
NothingYet ==
  /\ at \in {"idle", "pdrs", "adrs", "limit"} \/ query.op = "search" =>
       sources = << >> /\ length = 0 /\ next = 1 /\ answer = NoAnswer
  /\ at \in {"idle", "pdrs"} => found = << >>
  /\ at = "adrs" => \A i \in 1..Len(found) : found[i].type = "pdr"
  /\ at \in {"assemble", "trim"} => query.op # "search"

\* The text is at least its last source, and fitted before that was written.
LengthInv ==
  /\ sources = << >> => length = 0
  /\ Before >= 0
  /\ Bounded(query) => Before <= MaxLength(query) \/ Before = 0
  /\ Bounded(query) /\ at = "assemble" => length <= MaxLength(query) \/ length = 0

\* What the loop has passed is listed, and it stops before the end only when
\* the text is too long.
LoopPassed ==
  /\ \A i \in 1..Len(found) : i < next => Listed(found[i].row.content)
  /\ /\ at \in {"trim", "done"} /\ query.op # "search"
     /\ Bounded(query) => length <= MaxLength(query)
     => next = Len(found) + 1

ContextInv ==
  /\ ContextTypeOK /\ NothingYet /\ LengthInv /\ LoopPassed
  /\ OnlyLastIsCut /\ ListedOnce /\ PanicNeedsNegative /\ DecisionsComeLast

-----------------------------------------------------------------------------
(* Types.                                                                  *)

\* The rows of a query, with the type of their table, are results.
LEMMA TypedIsResults ==
  ASSUME NEW rows \in Seq(Rows), NEW type \in {"pdr", "adr"}
  PROVE  /\ Typed(type, rows) \in Seq(Result)
         /\ \A i \in 1..Len(Typed(type, rows)) : Typed(type, rows)[i].type = type
<1>1. \A i \in 1..Len(rows) : [type |-> type, row |-> rows[i]] \in Result
  BY DEF Result
<1>2. QED
  BY <1>1 DEF Typed

\* The maximum is an integer, and negative only if the request said so; so is
\* the limit.
LEMMA LimitTypes ==
  ASSUME NEW q \in Query
  PROVE  /\ Limit(q) \in Int /\ MaxLength(q) \in Int
         /\ Limit(q) < 0 => q.op \in {"search", "build"} /\ q.limit < 0
         /\ Bounded(q) /\ MaxLength(q) < 0 => q.op = "bootstrap" /\ q.max < 0
BY ContextAssumption DEF Query, Limit, MaxLength, Bounded

\* A row has a size, and white space at its end that is shorter.
LEMMA RowTypes ==
  ASSUME NEW result \in Result
  PROVE  /\ result.row.size \in Nat /\ result.row.trail \in Nat
         /\ result.row.trail < result.row.size
BY ContextAssumption DEF Result, Row

\* The limit keeps the first results as they are.
LEMMA LimitedFound ==
  ASSUME ContextTypeOK, LimitResults
  PROVE  /\ found' \in Seq(Result) /\ Len(found') <= Len(found)
         /\ \A i \in 1..Len(found') : found'[i] = found[i]
<1>1. Limit(query) \in Int /\ found \in Seq(Result)
  BY LimitTypes DEF ContextTypeOK
<1>2. CASE Len(found) > Limit(query) /\ Limit(query) >= 0
  <2>1. found' = SubSeq(found, 1, Limit(query))
    BY <1>1, <1>2 DEF LimitResults
  <2>2. \A i \in 1..Limit(query) : found[i] \in Result
    BY <1>1, <1>2
  <2>3. QED
    BY <1>1, <1>2, <2>1, <2>2, SubSeqProperties
<1>3. CASE ~(Len(found) > Limit(query) /\ Limit(query) >= 0)
  BY <1>1, <1>3 DEF LimitResults
<1>4. QED
  BY <1>2, <1>3

LEMMA TypeStep ==
  ContextTypeOK /\ NothingYet /\ LengthInv /\ [ContextNext]_contextVars => ContextTypeOK'
<1> SUFFICES ASSUME ContextTypeOK, NothingYet, LengthInv, [ContextNext]_contextVars
             PROVE  ContextTypeOK'
  OBVIOUS
<1> USE DEF ContextTypeOK
<1>1. CASE StoreRow
  <2>1. pdrs' \in Seq(Rows) /\ adrs' \in Seq(Rows)
    <3>1. \A row \in Rows : <<row>> \o pdrs \in Seq(Rows) /\ <<row>> \o adrs \in Seq(Rows)
      BY ConcatProperties
    <3>2. QED
      BY <1>1, <3>1 DEF StoreRow
  <2>2. QED
    BY <1>1, <2>1 DEF StoreRow, assembly
<1>2. CASE Ask
  BY <1>2, ContextAssumption DEF Ask, assembly
<1>3. CASE SearchPDRs
  <2>1. found' \in Seq(Result)
    <3>1. << >> \in Seq(Result) /\ Typed("pdr", pdrs) \in Seq(Result)
      BY TypedIsResults
    <3>2. QED
      BY <1>3, <3>1 DEF SearchPDRs
  <2>2. next' = 1
    BY <1>3 DEF SearchPDRs, NothingYet, assembly
  <2>3. QED
    BY <1>3, <2>1, <2>2 DEF SearchPDRs, assembly
<1>4. CASE SearchADRs
  <2>1. found' \in Seq(Result)
    <3>1. Typed("adr", adrs) \in Seq(Result)
      BY TypedIsResults
    <3>2. found \o Typed("adr", adrs) \in Seq(Result)
      BY <3>1, ConcatProperties
    <3>3. QED
      BY <1>4, <3>2 DEF SearchADRs
  <2>2. next' = 1
    BY <1>4 DEF SearchADRs, NothingYet, assembly
  <2>3. QED
    BY <1>4, <2>1, <2>2 DEF SearchADRs, assembly
<1>5. CASE LimitResults
  <2>1. found' \in Seq(Result)
    BY <1>5, LimitedFound
  <2>2. next' = 1
    BY <1>5 DEF LimitResults, NothingYet, assembly
  <2>3. QED
    BY <1>5, <2>1, <2>2 DEF LimitResults, Found, assembly
<1>6. CASE SkipSeen
  BY <1>6 DEF SkipSeen, More
<1>7. CASE Write
  <2>1. found[next] \in Result
    BY <1>7 DEF Write, More
  <2>2. found[next].row.size \in Nat
    BY <2>1, RowTypes
  <2>3. length' \in Nat /\ next' \in 1..(Len(found) + 1)
    <3>1. /\ next' = next + 1 /\ length' = length + found[next].row.size
          /\ next <= Len(found)
      BY <1>7 DEF Write, More
    <3>2. length \in Nat /\ Len(found) \in Nat /\ next \in 1..(Len(found) + 1)
      OBVIOUS
    <3> HIDE DEF ContextTypeOK
    <3>3. QED
      BY <2>2, <3>1, <3>2
  <2>4. sources' \in Seq(Result)
    BY <1>7, <2>1, AppendProperties DEF Write
  <2>5. QED
    BY <1>7, <2>3, <2>4 DEF Write, More
<1>8. CASE EndOfLoop
  BY <1>8 DEF EndOfLoop, assembly
<1>9. CASE Respond
  <2>1. Trimmed \in Nat
    <3>1. CASE sources = << >>
      BY <3>1 DEF Trimmed
    <3>2. CASE sources # << >>
      <4>1. sources[Len(sources)] \in Result
        BY <3>2
      <4>2. QED
        <5>1. /\ length \in Nat
              /\ length - sources[Len(sources)].row.size >= 0
          BY <3>2 DEF LengthInv, Before
        <5>2. /\ sources[Len(sources)].row.size \in Nat
              /\ sources[Len(sources)].row.trail \in Nat
              /\ sources[Len(sources)].row.trail < sources[Len(sources)].row.size
          BY <4>1, RowTypes
        <5>3. Trimmed = length - sources[Len(sources)].row.trail
          BY <3>2 DEF Trimmed
        <5>4. ASSUME NEW l \in Nat, NEW n \in Nat, NEW t \in Nat, l - n >= 0, t < n
              PROVE  l - t \in Nat
          BY <5>4
        <5>5. QED
          BY <5>1, <5>2, <5>3, <5>4
    <3>3. QED
      BY <3>1, <3>2
  <2>2. MaxLength(query) \in Int
    BY LimitTypes
  <2>3. answer' \in [length : Nat, cut : BOOLEAN]
    <3>1. answer' \in {answer, [length |-> Trimmed, cut |-> FALSE]}
          \/ (MaxLength(query) >= 0 /\ answer' = [length |-> MaxLength(query), cut |-> TRUE])
      BY <1>9, <2>2 DEF Respond
    <3>2. [length |-> Trimmed, cut |-> FALSE] \in [length : Nat, cut : BOOLEAN]
      BY <2>1
    <3>3. MaxLength(query) >= 0 =>
            [length |-> MaxLength(query), cut |-> TRUE] \in [length : Nat, cut : BOOLEAN]
      BY <2>2
    <3>4. QED
      BY <3>1, <3>2, <3>3
  <2>4. QED
    BY <1>9, <2>3 DEF Respond
<1>10. CASE EndRequest
  <2>1. NoQuery \in Query /\ NoAnswer \in [length : Nat, cut : BOOLEAN]
    BY DEF NoQuery, NoAnswer, Query
  <2>2. QED
    BY <1>10, <2>1 DEF EndRequest
<1>11. CASE UNCHANGED contextVars
  BY <1>11 DEF contextVars
<1>12. QED
  BY <1>1, <1>2, <1>3, <1>4, <1>5, <1>6, <1>7, <1>8, <1>9, <1>10, <1>11 DEF ContextNext

LEMMA NothingYetStep ==
  ContextTypeOK /\ NothingYet /\ [ContextNext]_contextVars => NothingYet'
<1> SUFFICES ASSUME ContextTypeOK, NothingYet, [ContextNext]_contextVars
             PROVE  NothingYet'
  OBVIOUS
<1> USE DEF NothingYet
<1>1. CASE StoreRow
  BY <1>1 DEF StoreRow, assembly
<1>2. CASE Ask
  BY <1>2 DEF Ask, assembly
<1>3. CASE SearchPDRs
  <2>1. \A i \in 1..Len(found') : found'[i].type = "pdr"
    BY <1>3, TypedIsResults DEF SearchPDRs, ContextTypeOK
  <2>2. QED
    BY <1>3, <2>1 DEF SearchPDRs, assembly
<1>4. CASE SearchADRs
  BY <1>4 DEF SearchADRs, assembly
<1>5. CASE LimitResults
  BY <1>5 DEF LimitResults, Found, assembly
<1>6. CASE SkipSeen
  BY <1>6 DEF SkipSeen, More
<1>7. CASE Write
  BY <1>7 DEF Write, More
<1>8. CASE EndOfLoop
  BY <1>8 DEF EndOfLoop, assembly
<1>9. CASE Respond
  BY <1>9 DEF Respond
<1>10. CASE EndRequest
  BY <1>10 DEF EndRequest
<1>11. CASE UNCHANGED contextVars
  BY <1>11 DEF contextVars
<1>12. QED
  BY <1>1, <1>2, <1>3, <1>4, <1>5, <1>6, <1>7, <1>8, <1>9, <1>10, <1>11 DEF ContextNext
-----------------------------------------------------------------------------
(* The loop.                                                               *)

\* Writing a result puts it at the end of the sources and adds its size.
LEMMA WriteEffect ==
  ASSUME ContextTypeOK, LengthInv, Write
  PROVE  /\ at = "assemble" /\ query' = query /\ found' = found
         /\ next \in 1..Len(found) /\ next' = next + 1
         /\ found[next] \in Result
         /\ sources' = Append(sources, found[next]) /\ sources' # << >>
         /\ sources'[Len(sources')] = found[next]
         /\ length' = length + found[next].row.size
         /\ length \in Nat /\ length' \in Nat /\ MaxLength(query) \in Int
         /\ Before' = length
         /\ \A content : Listed(content)' <=>
                Listed(content) \/ content = found[next].row.content
<1>1. /\ found \in Seq(Result) /\ sources \in Seq(Result) /\ length \in Nat
      /\ next \in 1..(Len(found) + 1) /\ query \in Query
  BY DEF ContextTypeOK
<1>2. at = "assemble" /\ query' = query /\ found' = found /\ next' = next + 1
  BY DEF Write, More
<1>3. next \in 1..Len(found)
  BY <1>1 DEF Write, More
<1>4. found[next] \in Result
  BY <1>1, <1>3
<1>5. sources' = Append(sources, found[next]) /\ length' = length + found[next].row.size
  BY DEF Write
<1>6. found[next].row.size \in Nat /\ length' \in Nat
  BY SMTT(20), <1>1, <1>4, <1>5, RowTypes
<1>7. /\ Len(sources') = Len(sources) + 1 /\ sources' # << >>
      /\ sources'[Len(sources')] = found[next]
      /\ \A i \in 1..Len(sources) : sources'[i] = sources[i]
  BY <1>1, <1>4, <1>5, AppendProperties
<1>8. Before' = length
  <2>1. Before' = length' - found[next].row.size
    BY <1>7 DEF Before
  <2>2. ASSUME NEW l \in Nat, NEW n \in Nat, NEW m, m = l + n PROVE m - n = l
    BY <2>2
  <2>3. QED
    BY <1>1, <1>5, <1>6, <2>1, <2>2
<1>9. \A content : Listed(content)' <=>
                Listed(content) \/ content = found[next].row.content
  BY SMTT(20), <1>1, <1>7 DEF Listed
<1>10. MaxLength(query) \in Int
  BY <1>1, LimitTypes
<1>11. QED
  BY <1>1, <1>2, <1>3, <1>4, <1>5, <1>6, <1>7, <1>8, <1>9, <1>10

LEMMA LengthStep ==
  ContextTypeOK /\ NothingYet /\ LengthInv /\ [ContextNext]_contextVars => LengthInv'
<1> SUFFICES ASSUME ContextTypeOK, NothingYet, LengthInv, [ContextNext]_contextVars
             PROVE  LengthInv'
  OBVIOUS
<1> USE DEF LengthInv
<1>1. CASE StoreRow
  BY <1>1 DEF StoreRow, assembly, Before
<1>2. CASE Ask \/ SearchPDRs \/ SearchADRs \/ LimitResults
  <2>1. sources' = << >> /\ length' = 0
    BY <1>2 DEF NothingYet, Ask, SearchPDRs, SearchADRs, LimitResults, assembly
  <2>2. QED
    BY <2>1 DEF Before
<1>3. CASE SkipSeen
  BY <1>3 DEF SkipSeen, More, Before
<1>4. CASE Write
  <2>1. /\ sources' # << >> /\ Before' = length /\ length' \in Nat /\ length \in Nat
        /\ query' = query /\ at = "assemble" /\ MaxLength(query) \in Int
    BY <1>4, WriteEffect
  <2>2. at' = "assemble" /\ Bounded(query) => length' <= MaxLength(query)
    BY <1>4, <2>1 DEF Write
  <2>3. QED
    BY <2>1, <2>2
<1>5. CASE EndOfLoop
  BY <1>5 DEF EndOfLoop, assembly, Before
<1>6. CASE Respond
  BY <1>6 DEF Respond, Before
<1>7. CASE EndRequest
  BY <1>7 DEF EndRequest, Before
<1>8. CASE UNCHANGED contextVars
  BY <1>8 DEF contextVars, Before
<1>9. QED
  BY <1>1, <1>2, <1>3, <1>4, <1>5, <1>6, <1>7, <1>8 DEF ContextNext

LEMMA LoopStep ==
  ContextTypeOK /\ NothingYet /\ LengthInv /\ LoopPassed /\ [ContextNext]_contextVars
    => LoopPassed'
<1> SUFFICES ASSUME ContextTypeOK, NothingYet, LengthInv, LoopPassed,
                    [ContextNext]_contextVars
             PROVE  LoopPassed'
  OBVIOUS
<1> USE DEF LoopPassed
<1>1. CASE StoreRow
  BY <1>1 DEF StoreRow, assembly, Listed
<1>2. CASE Ask \/ SearchPDRs \/ SearchADRs \/ LimitResults
  <2>1. next' = 1 /\ at' \notin {"trim"} /\ (at' = "done" => query'.op = "search")
    BY <1>2 DEF NothingYet, Ask, SearchPDRs, SearchADRs, LimitResults, Found, assembly
  <2>2. QED
    BY <2>1
<1>3. CASE SkipSeen
  <2>1. /\ found' = found /\ sources' = sources /\ next' = next + 1
        /\ at' = "assemble" /\ Listed(found[next].row.content)
    BY <1>3 DEF SkipSeen, More
  <2>2. \A content : Listed(content)' <=> Listed(content)
    BY <2>1 DEF Listed
  <2>3. ASSUME NEW i \in 1..Len(found), i < next + 1
        PROVE  Listed(found[i].row.content)
    <3>1. i < next \/ i = next
      BY <2>3 DEF ContextTypeOK
    <3>2. QED
      BY <2>1, <3>1
  <2>4. QED
    BY <2>1, <2>2, <2>3
<1>4. CASE Write
  <2>1. /\ \A content : Listed(content)' <=>
              Listed(content) \/ content = found[next].row.content
        /\ found' = found /\ next' = next + 1 /\ query' = query /\ at = "assemble"
        /\ MaxLength(query) \in Int /\ length' \in Int
    BY <1>4, WriteEffect
  <2>2. (\A i \in 1..Len(found) : i < next => Listed(found[i].row.content))'
    <3>1. SUFFICES ASSUME NEW i \in 1..Len(found), i < next + 1
                   PROVE  Listed(found[i].row.content)'
      BY <2>1
    <3>2. i < next \/ i = next
      BY <3>1 DEF ContextTypeOK
    <3>3. Listed(found[i].row.content) \/ found[i].row.content = found[next].row.content
      BY <3>2
    <3>4. \E j \in 1..Len(sources') : sources'[j].row.content = found[i].row.content
      BY <2>1, <3>3 DEF Listed
    <3>5. QED
      BY <2>1, <3>4 DEF Listed
  <2>3. at' \in {"trim", "done"} => Bounded(query') /\ ~(length' <= MaxLength(query'))
    BY <1>4, <2>1 DEF Write
  <2>4. QED
    <3> HIDE DEF LoopPassed
    <3>1. at' \in {"trim", "done"} /\ query'.op # "search"
            => ~(Bounded(query') => length' <= MaxLength(query'))
      BY <2>3
    <3>2. QED
      BY <2>2, <3>1 DEF LoopPassed
<1>5. CASE EndOfLoop
  BY <1>5 DEF EndOfLoop, assembly, Listed, ContextTypeOK
<1>6. CASE Respond
  BY <1>6 DEF Respond, Listed
<1>7. CASE EndRequest
  BY <1>7 DEF EndRequest
<1>8. CASE UNCHANGED contextVars
  BY <1>8 DEF contextVars, Listed
<1>9. QED
  BY <1>1, <1>2, <1>3, <1>4, <1>5, <1>6, <1>7, <1>8 DEF ContextNext
-----------------------------------------------------------------------------
(* What the response and the results are.                                  *)

LEMMA OnlyLastIsCutStep ==
  ContextTypeOK /\ NothingYet /\ LengthInv /\ OnlyLastIsCut /\ [ContextNext]_contextVars
    => OnlyLastIsCut'
<1> SUFFICES ASSUME ContextTypeOK, NothingYet, LengthInv, OnlyLastIsCut,
                    [ContextNext]_contextVars, at' = "done"
             PROVE  answer'.length >= Before'
  BY DEF OnlyLastIsCut
<1>1. CASE LimitResults
  BY <1>1 DEF LimitResults, NothingYet, NoAnswer, Before, assembly
<1>2. CASE Respond
  <2>1. Before' = Before /\ MaxLength(query) \in Int
    BY <1>2, LimitTypes DEF Respond, Before, ContextTypeOK
  <2>2. Trimmed >= Before
    <3>1. CASE sources = << >>
      BY <3>1 DEF Trimmed, Before
    <3>2. CASE sources # << >>
      <4>1. sources[Len(sources)] \in Result
        BY <3>2 DEF ContextTypeOK
      <4>2. QED
        BY <3>2, <4>1, RowTypes DEF Trimmed, Before, ContextTypeOK
    <3>3. QED
      BY <3>1, <3>2
  <2>3. CASE answer' = [length |-> Trimmed, cut |-> FALSE]
    BY <2>1, <2>2, <2>3
  <2>4. CASE answer' # [length |-> Trimmed, cut |-> FALSE]
    <3>1. /\ answer' = [length |-> MaxLength(query), cut |-> TRUE]
          /\ Bounded(query) /\ ~(MaxLength(query) < 0)
      BY <1>2, <2>4 DEF Respond
    <3>2. QED
      BY <2>1, <3>1 DEF LengthInv
  <2>5. QED
    BY <2>3, <2>4
<1>3. CASE StoreRow
  BY <1>3 DEF StoreRow, OnlyLastIsCut, Before, assembly
<1>4. CASE SkipSeen \/ Write
  BY <1>4 DEF SkipSeen, Write, More
<1>5. CASE UNCHANGED contextVars
  BY <1>5 DEF contextVars, OnlyLastIsCut, Before
<1>6. QED
  BY <1>1, <1>2, <1>3, <1>4, <1>5 DEF ContextNext, Ask, SearchPDRs, SearchADRs,
     EndOfLoop, EndRequest

LEMMA ListedOnceStep ==
  ContextTypeOK /\ NothingYet /\ LengthInv /\ ListedOnce /\ [ContextNext]_contextVars
    => ListedOnce'
<1> SUFFICES ASSUME ContextTypeOK, NothingYet, LengthInv, ListedOnce,
                    [ContextNext]_contextVars
             PROVE  ListedOnce'
  OBVIOUS
<1>1. CASE Write
  <2>1. /\ found[next] \in Result
        /\ sources' = Append(sources, found[next]) /\ query' = query
    BY <1>1, WriteEffect DEF Write
  <2>2. /\ Len(sources') = Len(sources) + 1
        /\ sources'[Len(sources) + 1] = found[next]
        /\ \A i \in 1..Len(sources) : sources'[i] = sources[i]
    BY <2>1, AppendProperties DEF ContextTypeOK
  <2>3. Bounded(query) =>
          \A i \in 1..Len(sources) : sources[i].row.content # found[next].row.content
    BY <1>1 DEF Write, Listed
  <2>4. ASSUME Bounded(query), NEW i \in 1..Len(sources'), NEW j \in 1..Len(sources'),
               sources'[i].row.content = sources'[j].row.content
        PROVE  i = j
    <3>1. /\ i \in 1..Len(sources) \/ i = Len(sources) + 1
          /\ j \in 1..Len(sources) \/ j = Len(sources) + 1
      BY <2>2 DEF ContextTypeOK
    <3>2. CASE i \in 1..Len(sources) /\ j \in 1..Len(sources)
      BY <2>2, <2>4, <3>2 DEF ListedOnce
    <3>3. CASE i = Len(sources) + 1 \/ j = Len(sources) + 1
      BY <2>2, <2>3, <2>4, <3>1, <3>3
    <3>4. QED
      BY <3>1, <3>2, <3>3
  <2>5. QED
    BY <2>1, <2>4 DEF ListedOnce
<1>2. CASE Ask
  BY <1>2 DEF Ask, NothingYet, ListedOnce, assembly
<1>3. CASE EndRequest
  BY <1>3 DEF EndRequest, ListedOnce
<1>4. CASE UNCHANGED <<sources, query>>
  BY <1>4 DEF ListedOnce
<1>5. QED
  BY <1>1, <1>2, <1>3, <1>4 DEF ContextNext, StoreRow, SearchPDRs, SearchADRs,
     LimitResults, SkipSeen, EndOfLoop, Respond, assembly, contextVars

LEMMA PanicStep ==
  ContextTypeOK /\ PanicNeedsNegative /\ [ContextNext]_contextVars => PanicNeedsNegative'
<1> SUFFICES ASSUME ContextTypeOK, PanicNeedsNegative, [ContextNext]_contextVars,
                    at' = "panicked"
             PROVE  \/ query'.op \in {"search", "build"} /\ query'.limit < 0
                    \/ query'.op = "bootstrap" /\ query'.max < 0
  BY DEF PanicNeedsNegative
<1>1. CASE LimitResults
  BY <1>1, LimitTypes DEF LimitResults, Found, ContextTypeOK
<1>2. CASE Respond
  BY <1>2, LimitTypes DEF Respond, ContextTypeOK
<1>3. CASE StoreRow \/ UNCHANGED contextVars
  BY <1>3 DEF StoreRow, contextVars, PanicNeedsNegative
<1>4. CASE SkipSeen \/ Write
  BY <1>4 DEF SkipSeen, Write, More
<1>5. QED
  BY <1>1, <1>2, <1>3, <1>4 DEF ContextNext, Ask, SearchPDRs, SearchADRs, EndOfLoop,
     EndRequest

LEMMA DecisionsStep ==
  ContextTypeOK /\ NothingYet /\ DecisionsComeLast /\ [ContextNext]_contextVars
    => DecisionsComeLast'
<1> SUFFICES ASSUME ContextTypeOK, NothingYet, DecisionsComeLast,
                    [ContextNext]_contextVars,
                    NEW i \in 1..Len(found'), NEW j \in 1..Len(found'),
                    found'[i].type = "adr", found'[j].type = "pdr"
             PROVE  j < i
  BY DEF DecisionsComeLast
<1>1. CASE SearchPDRs
  <2>1. \A k \in 1..Len(found') : found'[k].type = "pdr"
    BY SMTT(20), <1>1, TypedIsResults DEF SearchPDRs, ContextTypeOK
  <2>2. QED
    BY <2>1
<1>2. CASE SearchADRs
  <2> DEFINE more == Typed("adr", adrs)
  <2>1. /\ more \in Seq(Result)
        /\ \A k \in 1..Len(more) : more[k].type = "adr"
    BY TypedIsResults DEF ContextTypeOK
  <2>2. found \in Seq(Result) /\ \A k \in 1..Len(found) : found[k].type = "pdr"
    BY <1>2 DEF SearchADRs, NothingYet, ContextTypeOK
  <2>3. found' = found \/ found' = found \o more
    BY <1>2 DEF SearchADRs
  <2> HIDE DEF more
  <2>4. CASE found' = found
    BY <2>2, <2>4
  <2>5. CASE found' = found \o more
    <3>1. /\ Len(found') = Len(found) + Len(more)
          /\ \A k \in 1..Len(found) + Len(more) :
               found'[k] = IF k <= Len(found) THEN found[k] ELSE more[k - Len(found)]
      BY <2>1, <2>2, <2>5, ConcatProperties
    <3>2. ~(i <= Len(found))
      BY <2>2, <3>1
    <3>3. j <= Len(found)
      <4>1. SUFFICES ASSUME ~(j <= Len(found)) PROVE FALSE
        OBVIOUS
      <4>2. j - Len(found) \in 1..Len(more) /\ found'[j] = more[j - Len(found)]
        BY <2>1, <2>2, <3>1, <4>1
      <4>3. QED
        BY <2>1, <4>2
    <3>4. QED
      BY <2>2, <3>2, <3>3
  <2>6. QED
    BY <2>3, <2>4, <2>5
<1>3. CASE LimitResults
  BY SMTT(20), <1>3, LimitedFound DEF DecisionsComeLast, ContextTypeOK
<1>4. CASE EndRequest
  BY <1>4 DEF EndRequest
<1>5. CASE UNCHANGED found
  BY <1>5 DEF DecisionsComeLast
<1>6. QED
  BY <1>1, <1>2, <1>3, <1>4, <1>5 DEF ContextNext, StoreRow, Ask, SkipSeen, Write,
     EndOfLoop, Respond, contextVars

-----------------------------------------------------------------------------

LEMMA InitContextInv == ContextInit => ContextInv
<1> SUFFICES ASSUME ContextInit PROVE ContextInv
  OBVIOUS
<1>1. ContextTypeOK
  BY DEF ContextInit, ContextTypeOK, NoQuery, NoAnswer, Query
<1>2. NothingYet /\ LengthInv /\ LoopPassed
  BY DEF ContextInit, NothingYet, LengthInv, LoopPassed, Before, Bounded, NoQuery
<1>3. OnlyLastIsCut /\ ListedOnce /\ PanicNeedsNegative /\ DecisionsComeLast
  BY DEF ContextInit, OnlyLastIsCut, ListedOnce, PanicNeedsNegative, DecisionsComeLast
<1>4. QED
  BY <1>1, <1>2, <1>3 DEF ContextInv

\* The inductive invariant: what has been written, how long it is and what it
\* leaves out agree at every point of a request.
THEOREM ContextInvariant == ContextSpec => []ContextInv
<1>1. ContextInit => ContextInv
  BY InitContextInv
<1>2. ContextInv /\ [ContextNext]_contextVars => ContextInv'
  BY TypeStep, NothingYetStep, LengthStep, LoopStep, OnlyLastIsCutStep, ListedOnceStep,
     PanicStep, DecisionsStep DEF ContextInv
<1>3. QED
  BY <1>1, <1>2, PTL DEF ContextSpec

\* Every variable of the assembly of contexts keeps its type.
THEOREM ContextTypes == ContextSpec => []ContextTypeOK
<1>1. ContextInv => ContextTypeOK
  BY DEF ContextInv
<1>2. QED
  BY <1>1, ContextInvariant, PTL

\* handleAgentRuntime and handleBootstrap cut into the last listed source only.
THEOREM CutsReachOnlyLast == ContextSpec => []OnlyLastIsCut
<1>1. ContextInv => OnlyLastIsCut
  BY DEF ContextInv
<1>2. QED
  BY <1>1, ContextInvariant, PTL

\* What was found is listed as long as the text fits.
THEOREM NothingIsMissing == ContextSpec => []NothingFitsIsMissing
<1>1. ContextInv => NothingFitsIsMissing
  BY DEF ContextInv, ContextTypeOK, LoopPassed, NothingFitsIsMissing
<1>2. QED
  BY <1>1, ContextInvariant, PTL

\* The handlers that drop duplicates list no content twice.
THEOREM NothingListedTwice == ContextSpec => []ListedOnce
<1>1. ContextInv => ListedOnce
  BY DEF ContextInv
<1>2. QED
  BY <1>1, ContextInvariant, PTL

\* The slices of SearchMemory, handleAgentRuntime and handleBootstrap panic only
\* on a negative number that a request brought.
THEOREM PanicsAreAskedFor == ContextSpec => []PanicNeedsNegative
<1>1. ContextInv => PanicNeedsNegative
  BY DEF ContextInv
<1>2. QED
  BY <1>1, ContextInvariant, PTL

\* SearchMemory's limit drops every decision before any product document.
THEOREM DecisionsGoFirst == ContextSpec => []DecisionsComeLast
<1>1. ContextInv => DecisionsComeLast
  BY DEF ContextInv
<1>2. QED
  BY <1>1, ContextInvariant, PTL
=============================================================================

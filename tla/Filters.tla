------------------------------- MODULE Filters -------------------------------
(***************************************************************************)
(* How the query string of a listing or of the report becomes SQL          *)
(* (utils/common/wrapper.go, lib/validator.go, modules/transaction):       *)
(* ParseQueryParams reads it, the dates are validated, BuildMappingField   *)
(* replaces the names of the client by columns, in place, and              *)
(* BuildFilterQuery and BuildCountQuery turn the result into the query for *)
(* the page and the query for its count.                                   *)
(*                                                                         *)
(* A query is modelled by its conditions, its named arguments, its order   *)
(* and its page; the text around them is left out, but for the word WHERE  *)
(* and the alias t, which with the order decide whether Postgres prepares  *)
(* it.  What it makes of the values of the arguments is left out.          *)
(***************************************************************************)
EXTENDS SequencesExt, Integers

CONSTANTS
  QueryStrings,   \* what clients send, see Parameters
  Atoi,           \* the numerals among the strings, and their numbers
  Days,           \* the dates YYYY-MM-DD among the strings, and their days
  Sorts           \* the pairs of a field and an order that Postgres sorts the rows by

\* The empty string: what is read of a parameter that is not there.
Missing == ""

Optional(S) == {s \in Seq(S) : Len(s) <= 1}

\* c.Queries(): an optional parameter is a sequence of at most one string.
\* sort, searchKey and searchValue are given split at the commas.  A date may be
\* there twice, as startDate and in another spelling such as StartDate.
Parameters == [kind : {"staff", "history", "report"},
               page : Optional(STRING), size : Optional(STRING), sort : Optional(Seq(STRING)),
               searchKey : Seq(STRING), searchValue : Seq(STRING), noPaginate : BOOLEAN,
               startDate : Optional(STRING), otherStartDate : Optional(STRING),
               endDate : Optional(STRING), otherEndDate : Optional(STRING)]

ASSUME FiltersAssumption ==
  /\ QueryStrings \subseteq Parameters
  /\ DOMAIN Atoi \subseteq STRING /\ \A n \in DOMAIN Atoi : Atoi[n] \in Int
  /\ DOMAIN Days \subseteq STRING \ {Missing} /\ \A d \in DOMAIN Days : Days[d] \in Nat
  /\ <<"id", "DESC">> \in Sorts

VARIABLES
  pc,       \* "parse", "dates", "map", "filter", "count", "report", "done",
            \* "badRequest" or "serverError"
  request,  \* the query string
  params,   \* ParamsListRequest
  dates,    \* DateOrder
  list,     \* the query for the page, or for the report
  count     \* the query for the number of rows

vars == <<pc, request, params, dates, list, count>>

\* constant.go
mappingFields ==
  [id |-> "t.id", orderStatus |-> "t.order_status", orderFor |-> "t.order_for"]
mappingFieldType == [column \in {"t.id", "t.order_status", "t.order_for"} |->
                       IF column = "t.order_for" THEN "string" ELSE "int"]

NoParams == [page |-> 0, size |-> 0, sort |-> <<>>, fields |-> <<>>, values |-> <<>>,
             noPaginate |-> FALSE]
NoDates  == [startDate |-> Missing, endDate |-> Missing]
NoQuery  == [conditions |-> {}, wheres |-> 0, args |-> <<>>, order |-> <<>>,
             limited |-> FALSE, alias |-> TRUE]

Init ==
  /\ request \in QueryStrings
  /\ pc = IF request.kind = "report" THEN "dates" ELSE "parse"
  /\ params = NoParams /\ dates = NoDates
  /\ list = NoQuery /\ count = NoQuery

-------------------------------------------------------------------------------
(* ParseQueryParams                                                        *)

Readable(number) == \A i \in DOMAIN number : number[i] \in DOMAIN Atoi

NumberOr(number, default) == IF number = <<>> THEN default ELSE Atoi[number[1]]

\* Absent: by id, newest first.  Present but not of the form "field,order": no
\* order at all.
SortOf(sort) ==
  IF sort = <<>> THEN <<"id", "DESC">>
  ELSE IF Len(sort[1]) = 2 THEN sort[1] ELSE <<Missing, Missing>>

ParseQueryParams ==
  /\ pc = "parse" /\ pc' = IF request.kind = "staff" THEN "dates" ELSE "map"
  /\ Readable(request.page) /\ Readable(request.size)
  /\ params' = [page |-> NumberOr(request.page, 1), size |-> NumberOr(request.size, 10),
                sort |-> SortOf(request.sort),
                fields |-> request.searchKey, values |-> request.searchValue,
                noPaginate |-> request.noPaginate]
  /\ UNCHANGED <<request, dates, list, count>>

\* "Invalid page parameter", "Invalid size parameter"
ParseFails ==
  /\ pc = "parse" /\ pc' = "badRequest"
  /\ ~ (Readable(request.page) /\ Readable(request.size))
  /\ UNCHANGED <<request, params, dates, list, count>>

-------------------------------------------------------------------------------
(* The dates are read twice: by their names, for a listing, and by         *)
(* c.QueryParser, which takes a name in any spelling and keeps whichever   *)
(* comes last out of a map, for ValidateRequest with ValidateDateOrder.    *)

ByName(date) == IF date = <<>> THEN Missing ELSE date[1]

Named == [startDate |-> ByName(request.startDate), endDate |-> ByName(request.endDate)]

InAnySpelling(date, other) ==
  IF date \o other = <<>> THEN {Missing} ELSE Range(date \o other)

QueryParser ==
  [startDate : InAnySpelling(request.startDate, request.otherStartDate),
   endDate   : InAnySpelling(request.endDate, request.otherEndDate)]

\* A listing with one of the dates is a listing without.
HasRange == Named.startDate # Missing /\ Named.endDate # Missing

InOrder(range) ==
  /\ range.startDate \in DOMAIN Days /\ range.endDate \in DOMAIN Days
  /\ Days[range.startDate] <= Days[range.endDate]

AfterDates == pc' = IF request.kind = "report" THEN "report" ELSE "map"

SkipDates ==
  /\ pc = "dates" /\ AfterDates
  /\ request.kind # "report" /\ ~ HasRange
  /\ UNCHANGED <<request, params, dates, list, count>>

\* Mutant: only the format of the dates is looked at.
ValidateDatesUnordered ==
  /\ pc = "dates" /\ AfterDates
  /\ request.kind = "report" \/ HasRange
  /\ dates' \in {range \in QueryParser :
                 {range.startDate, range.endDate} \subseteq DOMAIN Days}
  /\ UNCHANGED <<request, params, list, count>>

ValidateDates ==
  /\ pc = "dates" /\ AfterDates
  /\ request.kind = "report" \/ HasRange
  /\ dates' \in {range \in QueryParser : InOrder(range)}
  /\ UNCHANGED <<request, params, list, count>>

DatesRefused ==
  /\ pc = "dates" /\ pc' = "badRequest"
  /\ request.kind = "report" \/ HasRange
  /\ dates' \in {range \in QueryParser : ~ InOrder(range)}
  /\ UNCHANGED <<request, params, list, count>>

\* CAST(t.created_at AS DATE) BETWEEN start_date AND end_date
Between ==
  {[column |-> "t.created_at", op |-> ">=", arg |-> <<"start_date", 0>>],
   [column |-> "t.created_at", op |-> "<=", arg |-> <<"end_date", 0>>]}

RangeArgs(range) ==
  [a \in {<<"start_date", 0>>, <<"end_date", 0>>} |->
     IF a[1] = "start_date" THEN range.startDate ELSE range.endDate]

OnColumns(query) ==
  {c \in query.conditions : c.column \in DOMAIN mappingFieldType}

\* Postgres prepares the query: it has a WHERE if it has a condition, and never
\* two; every placeholder has its argument; every alias is that of a table; the
\* order is one of rows of this kind.
Executable(query) ==
  /\ query.wheres \in IF query.conditions = {} THEN {0, 1} ELSE {1}
  /\ {c.arg : c \in query.conditions}
       \cup (IF query.limited THEN {<<"size", 0>>, <<"offset", 0>>} ELSE {})
     \subseteq DOMAIN query.args
  /\ OnColumns(query) # {} => query.alias
  /\ query.order = <<>> \/ query.order \in Sorts

\* NamedQuery or PrepareNamed: what it cannot run is answered with a 500.
Query(query, next) == pc' = IF Executable(query) THEN next ELSE "serverError"

\* The report is one query over the days of the range that was validated.
Report ==
  /\ pc = "report"
  /\ list' = [NoQuery EXCEPT !.conditions = Between, !.wheres = 1, !.args = RangeArgs(dates)]
  /\ Query(list', "done")
  /\ UNCHANGED <<request, params, dates, count>>

-------------------------------------------------------------------------------
(* BuildMappingField                                                       *)

Mapped(fields) ==
  [i \in DOMAIN fields |->
     IF fields[i] \in DOMAIN mappingFields THEN mappingFields[fields[i]] ELSE Missing]

\* The slice of the caller is overwritten, though params is passed by value.
BuildMappingField ==
  /\ pc = "map" /\ pc' = "filter"
  /\ params' = [params EXCEPT !.fields = Mapped(@)]
  /\ UNCHANGED <<request, dates, list, count>>

-------------------------------------------------------------------------------
(* The conditions.  The query for the page and the query for its count are *)
(* built apart from each other, each from a text of its own and by a loop  *)
(* of its own: that they select the same rows is up to whoever edits one.  *)

Filtered(fields) ==
  FoldLeft(LAMBDA kept, field : IF field # Missing THEN Append(kept, field) ELSE kept, <<>>, fields)

\* The value of an int column that Atoi does not read is skipped.
Usable(column, value) ==
  /\ value # Missing
  /\ column \in DOMAIN mappingFieldType
  /\ mappingFieldType[column] = "int" => value \in DOMAIN Atoi

\* WHERE user_id = :user_id, and WHERE with the range.
OfUser ==
  [NoQuery EXCEPT !.conditions = {[column |-> "user_id", op |-> "=", arg |-> <<"user_id", 0>>]},
                  !.wheres = 1, !.args = [a \in {<<"user_id", 0>>} |-> "user"]]
InRange == [NoQuery EXCEPT !.conditions = Between, !.wheres = 1, !.args = RangeArgs(Named)]

\* Without a WHERE; the dates are arguments nevertheless.
Unrestricted == [NoQuery EXCEPT !.args = RangeArgs(Named)]

\* What the page of a history or of a listing of the staff begins with.
Base ==
  CASE request.kind = "history" -> OfUser
    [] request.kind = "staff" /\ HasRange -> InRange
    [] OTHER -> Unrestricted

\* Mutant: the range is added to the query for the page only.
CountBaseUnranged ==
  IF request.kind = "history" THEN [OfUser EXCEPT !.alias = FALSE] ELSE Unrestricted

\* What their counts begin with: that of a history has no alias.
CountBase ==
  CASE request.kind = "history" -> [OfUser EXCEPT !.alias = FALSE]
    [] request.kind = "staff" /\ HasRange -> InRange
    [] OTHER -> Unrestricted

Operator(column) == IF mappingFieldType[column] = "int" THEN "=" ELSE "ILIKE"

\* "WHERE 1=1", unless the query has a WHERE already.
OneWhere(query) == IF query.wheres = 0 THEN [query EXCEPT !.wheres = 1] ELSE query

\* A condition and an argument for each column of used, beside those of query.
Compared(columns, values, used, query) ==
  [OneWhere(query) EXCEPT
     !.conditions = @ \cup {[column |-> columns[i], op |-> Operator(columns[i]),
                             arg |-> <<"searchValue", i>>] : i \in used},
     !.args = [a \in DOMAIN @ \cup {<<"searchValue", i>> : i \in used} |->
                 IF a[1] = "searchValue" THEN values[a[2]] ELSE @[a]]]

\* Mutant: the number of fields is not compared with the number of values.
WhereUncompared(fields, values, query) ==
  LET columns == Filtered(fields)
      used == {i \in DOMAIN columns \cap DOMAIN values : Usable(columns[i], values[i])}
  IN IF columns # <<>> THEN Compared(columns, values, used, query) ELSE query

\* Mutant: a value that Atoi does not read loses its argument, not its condition.
WhereUnbound(fields, values, query) ==
  LET columns == Filtered(fields)
      used == {i \in DOMAIN columns : Usable(columns[i], values[i])}
      given == {i \in DOMAIN columns : values[i] # Missing}
  IN IF columns # <<>> /\ Len(columns) = Len(values)
     THEN [Compared(columns, values, given, query) EXCEPT
             !.args = [a \in DOMAIN @ \ {<<"searchValue", i>> : i \in given \ used} |-> @[a]]]
     ELSE query

\* The loop of BuildFilterQuery.  The fields that are left after mapping meet the
\* values by position; when their numbers differ, the whole filter is dropped.
Where(fields, values, query) ==
  LET columns == Filtered(fields)
      used == {i \in DOMAIN columns : Usable(columns[i], values[i])}
  IN IF columns # <<>> /\ Len(columns) = Len(values)
     THEN Compared(columns, values, used, query) ELSE query

\* The loop of BuildCountQuery, a copy of the other.
CountWhere(fields, values, query) ==
  LET columns == Filtered(fields)
      used == {i \in DOMAIN columns : Usable(columns[i], values[i])}
  IN IF columns # <<>> /\ Len(columns) = Len(values)
     THEN Compared(columns, values, used, query) ELSE query

Ordered(sort, query) ==
  IF sort[1] # Missing /\ sort[2] # Missing THEN [query EXCEPT !.order = sort] ELSE query

Limited(query) ==
  IF params.size > 0 /\ params.page > 0 /\ ~ params.noPaginate
  THEN [query EXCEPT !.limited = TRUE,
                     !.args = [a \in DOMAIN @ \cup {<<"size", 0>>, <<"offset", 0>>} |->
                                 CASE a[1] = "size"   -> params.size
                                   [] a[1] = "offset" -> (params.page - 1) * params.size
                                   [] OTHER -> @[a]]]
  ELSE query

BuildFilterQuery ==
  /\ pc = "filter"
  /\ list' = Limited(Ordered(params.sort, Where(params.fields, params.values, Base)))
  /\ Query(list', IF request.kind = "staff" /\ params.noPaginate THEN "done" ELSE "count")
  /\ UNCHANGED <<request, params, dates, count>>

BuildCountQuery ==
  /\ pc = "count"
  /\ count' = CountWhere(params.fields, params.values, CountBase)
  /\ Query(count', "done")
  /\ UNCHANGED <<request, params, dates, list>>

Terminating == pc \in {"done", "badRequest", "serverError"} /\ UNCHANGED vars

Next ==
  \/ ParseQueryParams \/ ParseFails
  \/ SkipDates \/ ValidateDates \/ DatesRefused \/ Report
  \/ BuildMappingField
  \/ BuildFilterQuery \/ BuildCountQuery
  \/ Terminating

Spec == Init /\ [][Next]_vars

-------------------------------------------------------------------------------
(* Properties.                                                             *)

ArgOf(query, c) == IF c.arg \in DOMAIN query.args THEN query.args[c.arg] ELSE Missing

ConditionsOf(query) == {<<c.column, c.op, ArgOf(query, c)>> : c \in query.conditions}

\* The query for the page or for the report has been sent.
Sent == pc \in {"count", "done", "serverError"}

\* What a client means that sends one value for each field.
Asked ==
  {<<mappingFields[request.searchKey[i]], request.searchValue[i]>> :
     i \in {j \in DOMAIN request.searchKey :
              /\ request.searchKey[j] \in DOMAIN mappingFields
              /\ Usable(mappingFields[request.searchKey[j]], request.searchValue[j])}}

\* A client that sends one value for each field gets the filter it asked for, or,
\* if it named a field that does not exist, none: no field is ever compared with
\* the value of another, though the code pairs them after it dropped the unknown.
FilterIsTheRequest ==
  /\ Sent /\ request.kind # "report"
  /\ Len(request.searchKey) = Len(request.searchValue)
  =>
  {<<c.column, ArgOf(list, c)>> : c \in OnColumns(list)} =
    IF Range(request.searchKey) \subseteq DOMAIN mappingFields THEN Asked ELSE {}

\* Page and count select by the same conditions with the same values, by user and
\* by range too, though they are put together in different places: the count
\* belongs to the rows.
CountMatchesList ==
  count # NoQuery => ConditionsOf(count) = ConditionsOf(list)

\* The client's sort is spliced into the query as it is.
SortRefused ==
  /\ request.kind # "report" /\ Missing \notin Range(SortOf(request.sort))
  /\ SortOf(request.sort) \notin Sorts

\* Whatever is combined in the query string, Postgres prepares the queries but for
\* two kinds: those with a sort that it does not know, and the count of a history
\* that is filtered by a column, for want of an alias.  These are answered with
\* a 500, and no others because of their text.
StatementsExecutable ==
  /\ pc = "serverError" =>
       SortRefused \/ (request.kind = "history" /\ OnColumns(list) # {})
  /\ pc = "done" =>
       ~ SortRefused /\ (request.kind = "history" => OnColumns(list) = {})

\* The range of a report is one of two dates in order.  That of a listing is the
\* one that the client gave under the names the code reads, and in order, too,
\* as long as the client spelled no date in another way besides: the dates that
\* are validated need not be those that are sent then.  A listing that was given
\* only one date has no range.
RangeIsValidated ==
  Sent =>
    LET range == {<<c.op, ArgOf(list, c)>> : c \in {d \in list.conditions : d.column = "t.created_at"}}
        IsRange(r) == range = {<<">=", r.startDate>>, <<"<=", r.endDate>>}
    IN CASE request.kind = "report" -> IsRange(dates) /\ InOrder(dates) /\ dates \in QueryParser
         [] request.kind = "staff" /\ HasRange ->
              /\ IsRange(Named)
              /\ request.otherStartDate \o request.otherEndDate = <<>> => InOrder(Named)
         [] OTHER -> range = {}
===============================================================================

------------------------------ MODULE MCFilters ------------------------------
(***************************************************************************)
(* Small instance of Filters: up to two fields, known, unknown or empty,   *)
(* and up to two values, a numeral, a text or none; a sort that Postgres   *)
(* takes and one that it does not; two dates, a text or none at either end *)
(* of a range, in one spelling or two, beside fewer other parameters.      *)
(***************************************************************************)
EXTENDS Filters

MCAtoi == [n \in {"0", "1", "2"} |-> CASE n = "0" -> 0 [] n = "1" -> 1 [] OTHER -> 2]
MCDays == [d \in {"2025-10-09", "2025-10-10"} |-> IF d = "2025-10-09" THEN 9 ELSE 10]

Perhaps(S) == {<<>>} \cup {<<s>> : s \in S}

MCSorts == {<<"id", "DESC">>, <<"id", "asc">>}

MCWithoutDates ==
  [kind : {"staff", "history"},
   page : Perhaps({"0", "2", "x"}), size : Perhaps({"2", "x"}),
   sort : Perhaps({<<"id">>, <<"id", "asc">>, <<"foo", "bar">>}),
   searchKey : BoundedSeq({"id", "orderFor", "table", ""}, 2),
   searchValue : BoundedSeq({"1", "x", ""}, 2),
   noPaginate : BOOLEAN,
   startDate : {<<>>}, otherStartDate : {<<>>}, endDate : {<<>>}, otherEndDate : {<<>>}]

Dates == Perhaps(DOMAIN MCDays \cup {"x", ""})

MCWithDates ==
  [kind : {"staff", "history", "report"},
   page : {<<>>}, size : {<<>>}, sort : {<<>>},
   searchKey : BoundedSeq({"id", ""}, 2), searchValue : BoundedSeq({"1"}, 2),
   noPaginate : BOOLEAN,
   startDate : Dates, otherStartDate : {<<>>}, endDate : Dates, otherEndDate : {<<>>}]

MCWithTwoSpellings ==
  [kind : {"staff", "report"},
   page : {<<>>}, size : {<<>>}, sort : {<<>>},
   searchKey : {<<>>}, searchValue : {<<>>}, noPaginate : {FALSE},
   startDate : Dates, otherStartDate : Dates, endDate : Dates, otherEndDate : Dates]

MCQueryStrings == MCWithoutDates \cup MCWithDates \cup MCWithTwoSpellings
===============================================================================

------------------------------ MODULE MCListing ------------------------------
(***************************************************************************)
(* Small instance of Listing: two users, two days, an order without lines, *)
(* listings of the staff and histories, pages of every kind.               *)
(***************************************************************************)
EXTENDS Listing

OrderOf(user, orderFor, lines, day, status) ==
  [user |-> user, orderFor |-> orderFor, lines |-> lines, total |-> 3 * lines,
   day |-> day, status |-> status]

MCNewOrders == {OrderOf(1, TRUE, 1, 1, 1), OrderOf(2, FALSE, 2, 2, 2), OrderOf(1, TRUE, 0, 1, 2)}

MCFewOrders == {OrderOf(1, TRUE, 1, 1, 0), OrderOf(1, TRUE, 0, 1, 0)}

QueryFor(user, filter, newestFirst, page, size, noPaginate) ==
  [user |-> user, filter |-> filter, days |-> IF filter = "days" THEN {1} ELSE {},
   newestFirst |-> newestFirst, page |-> page, size |-> size, noPaginate |-> noPaginate]

MCQueries ==
  {QueryFor(user, "none", TRUE, 1, size, FALSE) : user \in {0, 1}, size \in {1, 2}}
  \cup {QueryFor(0, filter, TRUE, 1, 1, FALSE) : filter \in {"orderFor", "orderStatus", "days"}}
  \cup {[QueryFor(0, "days", TRUE, 1, 2, FALSE) EXCEPT !.days = {1, 2}]}
  \cup {QueryFor(1, "orderFor", TRUE, 1, 1, FALSE), QueryFor(0, "none", FALSE, 1, 1, FALSE),
        QueryFor(0, "none", TRUE, 0, 2, FALSE), QueryFor(0, "none", TRUE, 1, -1, FALSE)}
  \cup {QueryFor(user, "none", TRUE, 1, 1, TRUE) : user \in {0, 1}}

\* A reader of pages, one of a filter that orders leave, one whose size is 0.
MCMixedQueries ==
  {QueryFor(0, "none", TRUE, 1, 1, FALSE), QueryFor(0, "orderStatus", TRUE, 1, 1, FALSE),
   QueryFor(1, "none", TRUE, 1, 0, FALSE)}
===============================================================================

------------------------------- MODULE Pricing -------------------------------
(***************************************************************************)
(* How a basket is priced: the answer of the master-data service, and      *)
(* calculateTotalPriceMenu (modules/transaction/service.go), which writes  *)
(* the price of each line into the request and returns the total.          *)
(*                                                                         *)
(* The answer is a set of [id, price] records.  Its order does not matter  *)
(* to the code, and master data returns a menu once however often its id   *)
(* is asked for.  What is computed here is rounded only when it is stored. *)
(***************************************************************************)
EXTENDS Money, Functions, FiniteSets, Sequences, Naturals

CONSTANTS
  MenuIds,   \* ids a client may name; 0 is the zero value that "required" refuses
  Prices     \* prices master data may quote, in tenths of a cent

ASSUME PricingAssumption == MenuIds \subseteq Nat /\ Prices \subseteq Nat

\* dto.go Data: a client may fill in price and total as well.
Data == [menuId : MenuIds, qty : Nat, price : Nat, total : Nat]
Menu == [id : MenuIds, price : Prices]

IdsOf(datas) == {datas[i].menuId : i \in DOMAIN datas}

\* Any of the menus asked for may be available, each at any price.
MenuAnswers(datas) ==
  UNION {{{[id |-> m, price |-> quote[m]] : m \in known} : quote \in [known -> Prices]} :
           known \in SUBSET IdsOf(datas)}

\* The pairs of a menu and a line that the two nested loops find equal.
Matches(menus, datas) ==
  {p \in menus \X DOMAIN datas : p[1].id = datas[p[2]].menuId}

\* Mutant: the quantity is left out of the total.
TotalPriceWithoutQty(menus, datas) ==
  SumFunction([p \in Matches(menus, datas) |-> p[1].price])

TotalPrice(menus, datas) ==
  SumFunction([p \in Matches(menus, datas) |-> p[1].price * datas[p[2]].qty])

\* A line no menu matches keeps the price and the total the client sent.
PricedLine(menus, line) ==
  LET found == {m \in menus : m.id = line.menuId} IN
  IF found = {}
  THEN line
  ELSE LET menu == CHOOSE m \in found : TRUE
       IN [line EXCEPT !.price = menu.price, !.total = menu.price * line.qty]

PricedLines(menus, datas) ==
  [i \in DOMAIN datas |-> PricedLine(menus, datas[i])]
==============================================================================

------------------------------ MODULE MCCheckout ------------------------------
(***************************************************************************)
(* Small instance of Checkout: the baskets below cover the empty list, one *)
(* item, two items, the same menu twice, and a price filled in by the      *)
(* client.  One price is half a cent, so that header and lines are rounded *)
(* apart; the other is whole cents.                                        *)
(***************************************************************************)
EXTENDS Checkout

MCMenuIds == {1, 2}
MCPrices == {5, 20}
MCOnePrice == {20}

Item(menuId, qty, price) == [menuId |-> menuId, qty |-> qty, price |-> price, total |-> price]

MCBaskets == {
  <<>>,
  <<Item(1, 2, 90)>>,
  <<Item(1, 1, 0), Item(2, 2, 90)>>,
  <<Item(1, 1, 90), Item(1, 1, 0)>>}

MCOneBasket == {<<Item(1, 2, 90)>>}
===============================================================================

------------------------------- MODULE MCService -------------------------------
(* Small instance of Service: one basket of one item at one price.            *)
EXTENDS Service

MCMenuIds == {1}
MCPrices == {20}
MCBaskets == {<<[menuId |-> 1, qty |-> 1, price |-> 90, total |-> 90]>>}
===============================================================================

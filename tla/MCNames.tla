------------------------------- MODULE MCNames -------------------------------
(***************************************************************************)
(* Small instance of Names: pages of up to two orders, whose ids are       *)
(* digits of one another in one order or the other.                        *)
(***************************************************************************)
EXTENDS Names

MCRows == [table : {1, 12}, user : {2, 12},
           menus : {<<1>>, <<12, 1>>, <<2, 12>>, <<121, 12>>}]

MCPages == BoundedSeq(MCRows, 2)
===============================================================================

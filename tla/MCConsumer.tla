------------------------------ MODULE MCConsumer ------------------------------
(* Small instance of Consumer: two consumers, and a message that always comes  *)
(* back beside one that may be handled.                                        *)
EXTENDS Consumer
===============================================================================

------------------------------- MODULE MCHealth -------------------------------
(* Small instance of Health: two probes, one loss.                         *)
EXTENDS Health
===============================================================================

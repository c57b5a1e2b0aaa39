-------------------------------- MODULE Money --------------------------------
(***************************************************************************)
(* Amounts are computed as float64 and stored as DECIMAL(10,2): every      *)
(* column is rounded to whole cents by itself, when its row is written.    *)
(*                                                                         *)
(* An amount that is computed, or on its way to the wallet, counts tenths  *)
(* of a cent; one that is stored counts cents.  float64 is off by far less *)
(* than a tenth of a cent as long as the column can hold the amount, so    *)
(* that the error decides at most which way half a cent goes.              *)
(***************************************************************************)
EXTENDS Naturals

\* The whole cents nearest to an amount.
Cents(amount) ==
  {c \in (amount \div 10)..(amount \div 10 + 1) :
     10 * c <= amount + 5 /\ amount <= 10 * c + 5}
==============================================================================

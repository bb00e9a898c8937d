------------------------------ MODULE MCDesktop ------------------------------
(* A small instance of Desktop for TLC. *)
EXTENDS Desktop

(* Columns that are empty, full, too full, and full of one process.         *)
SmallTables ==
  {[r \in Resources |-> IF r = 1 THEN a ELSE b] :
     a, b \in {<<0, 0, 0, 0, 0>>, <<1, 0, 1, 0, 0>>, <<2, 2, 1, 2, 2>>, <<0, 2, 0, 0, 0>>}}

(* All bars as low as they go, and deviations of every sign.                *)
SmallDraws == {[i \in Rows |-> -110], <<110, -40, 0, 110, -110>>}
=============================================================================

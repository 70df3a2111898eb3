------------------------------ MODULE MC_Layout ------------------------------
(* Layout with inputs up to three columns wide and up to two join columns. *)
EXTENDS Layout

MCMaxW == 4
MCMaxK == 3
=============================================================================

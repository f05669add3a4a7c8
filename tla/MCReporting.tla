---------------------------- MODULE MCReporting ----------------------------
(* Small instances of Reporting.                                           *)
EXTENDS Reporting

MCSizes == [i \in Items |-> IF i = "long" THEN 2 ELSE IF i = "short" THEN 1 ELSE 0]
=============================================================================

----------------------------- MODULE MCReportPool -----------------------------
(* ReportPool for TLC: connections are interchangeable, and so are threads, as   *)
(* long as no property of a run is a temporal one.                               *)
EXTENDS ReportPool, TLC

Symmetry == Permutations(Conns) \cup Permutations(Threads)
===============================================================================

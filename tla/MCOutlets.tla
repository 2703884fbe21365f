------------------------------ MODULE MCOutlets -------------------------------
EXTENDS Outlets
CONSTANTS c1, c2, c3, h1, h2

(* Records with and without a database, and dashboards: the two share       *)
(* nothing but the records they are handed.                                 *)
DatabaseOrDashboards ==
  {[database |-> TRUE, clients |-> {}, places |-> {}, records |-> MaxRecords],
   [database |-> FALSE, clients |-> {}, places |-> {}, records |-> MaxRecords],
   [database |-> FALSE, clients |-> Client, places |-> Neighborhood, records |-> 0]}
=============================================================================

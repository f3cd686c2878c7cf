---------------------------- MODULE MC_AlertCycle ----------------------------
(* AlertCycle for TLC.  A tick is five minutes: CRITICAL waits one tick and
   WARNING two, as in the default settings; the windows of 15 minutes, one hour
   and six hours are scaled down in the .cfg files. *)
EXTENDS AlertCycle

MCSeverityMinutes == [s \in Severities |-> IF s = "CRITICAL" THEN 1 ELSE 2]
MCNoMinutes == [s \in {} |-> 0]
(* An absorption alert has a window of its own, longer than its severity's. *)
MCTypeMinutes == [k \in {"abs"} |-> 3]
(* The digest stands for every other indicator decision of its pass. *)
MCRivals == [k \in Keys |-> IF k = "dig" THEN IndicatorKeys \ {"dig"} ELSE {"dig"} \intersect Keys]
=============================================================================

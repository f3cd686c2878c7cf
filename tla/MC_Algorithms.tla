----------------------------- MODULE MC_Algorithms -----------------------------
(* The pure algorithms for TLC: the rules and their aggregation over the slices of
   MC_LiveAggregation, and oi_change_sample over every table of open interest rows
   within the bounds.  They share no state: a behaviour runs one of the two. *)
EXTENDS MC_LiveAggregation, OiSample

CONSTANTS MaxTs, MaxRows, Interests    \* bounds: ts and number of rows, and their values

MCAnswers ==
  {NewestFirst(table) : table \in UNION {[times -> Interests] :
                          times \in {T \in SUBSET (0..MaxTs) : Cardinality(T) \in 1..MaxRows}}}

MCInit ==
  \/ Init /\ rows = <<>> /\ i = 1 /\ j = 2 /\ changes = <<>>
  \/ OiInit /\ latest = [s \in Symbols |-> Calm] /\ minuteOf = [s \in Symbols |-> 0]
MCNext ==
  \/ rows = <<>> /\ Next /\ UNCHANGED oiVars
  \/ OiNext /\ UNCHANGED vars
MCSpec == MCInit /\ [][MCNext]_<<vars, oiVars>>
=============================================================================

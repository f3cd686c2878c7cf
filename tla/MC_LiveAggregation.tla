--------------------------- MODULE MC_LiveAggregation ---------------------------
(* LiveAggregation for TLC: snapshots at, just below and just above the default
   thresholds, each slice varying the values one rule compares while the others
   are held where the rule would fire.  priceNorm is in tenths. *)
EXTENDS LiveAggregation

Calm == [btcRel |-> 0, marketRel |-> 0, volPct |-> 50, volZ |-> 0, ratio |-> 50,
         body |-> 20, range |-> 100, oiZ |-> 0, priceNorm |-> 10, oiNorm |-> 0,
         oiChange |-> 0, flatScore |-> 0]
Loud == [Calm EXCEPT !.volPct = 99, !.volZ = 6]
Warmup == [f \in DOMAIN Calm |-> Null]

Moves == {-36, -35, -10, -9, 9, 10, 35, 36}
ImpulseSlice ==
  {[Loud EXCEPT !.btcRel = b, !.marketRel = m, !.ratio = r, !.oiZ = 2] :
     b \in {-36, 35, 36, Null}, m \in {-36, 36, Null}, r \in {25, 75}}
AbsorptionSlice ==
  {[Loud EXCEPT !.btcRel = b, !.marketRel = b, !.ratio = r, !.volZ = z] :
     b \in Moves, r \in {25, 75}, z \in {5, 6}}
VolumeSlice ==
  {[Loud EXCEPT !.btcRel = 40, !.marketRel = 40, !.ratio = 75, !.volPct = p, !.volZ = z] :
     p \in {98, 99, Null}, z \in {3, 4, Null}}
FlatSlice ==
  {[Loud EXCEPT !.priceNorm = f, !.oiNorm = n, !.oiChange = c, !.volPct = p, !.btcRel = b,
                !.marketRel = b, !.ratio = 75, !.oiZ = n, !.flatScore = 9] :
     n \in {1, 2}, c \in {-1, 149, 150, Null}, p \in {89, 90}, f \in {5, 6}, b \in {-1, 50}}
MCSnapshots == {Calm, Warmup} \union ImpulseSlice \union AbsorptionSlice
               \union VolumeSlice \union FlatSlice
=============================================================================

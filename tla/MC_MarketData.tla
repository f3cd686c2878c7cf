----------------------------- MODULE MC_MarketData -----------------------------
(* MarketData for TLC: prices and volumes that tell the minutes apart, and the
   windows of days scaled down to minutes. *)
EXTENDS MarketData

Prices == <<100, 103, 101, 106, 102, 109, 104, 112>>
MCClose == [s \in Symbols |-> [m \in Minutes |-> IF s = Btc THEN Prices[m + 1] ELSE 3 * Prices[7 - m] + m]]
MCVolume == [s \in Symbols |-> [m \in Minutes |-> (7 * m + 3) % 11]]
(* The application has synced both symbols; settings.symbols lists only BTC. *)
MCUniverse == [p \in Processes |-> IF p = "app" THEN Symbols ELSE {Btc}]
=============================================================================

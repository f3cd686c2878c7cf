-------------------------------- MODULE MC_Ingest --------------------------------
(* Ingest for TLC: two symbols that share a kline connection, as any universe
   below ws_kline_stream_chunk_size does. *)
EXTENDS Ingest
MCFeedOf == [s \in Symbols |-> "c1"]
=============================================================================

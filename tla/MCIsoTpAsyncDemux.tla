------------------------- MODULE MCIsoTpAsyncDemux -------------------------
(* The async demultiplexer with two slots and three stations. *)
EXTENDS IsoTpAsyncDemux, DemuxTraffic
=============================================================================

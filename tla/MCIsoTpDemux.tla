---------------------------- MODULE MCIsoTpDemux ----------------------------
(* The polling demultiplexer with two slots and three stations. *)
EXTENDS IsoTpDemux, DemuxTraffic
=============================================================================

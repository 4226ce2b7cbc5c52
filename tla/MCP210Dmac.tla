---------------------------- MODULE MCP210Dmac ----------------------------
(* P210Dmac on small instances.  A frame of three channels is 6 bytes, so  *)
(* it does not divide a chunk of 8.                                        *)
EXTENDS P210Dmac

MCLengths == {1, 20}
MCScans   == {0, 3}
=============================================================================

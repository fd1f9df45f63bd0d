-------------------------- MODULE MCChannelHistory --------------------------
(* Small instances of ChannelHistory: a history of at most six rows, which *)
(* two turns with tool rows overflow, and a compaction that keeps four, so *)
(* that it can cut a finished turn in its middle.                          *)
EXTENDS ChannelHistory

CONSTANTS t1, t2
=============================================================================

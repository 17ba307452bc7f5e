----------------------------- MODULE MCLogWriter -----------------------------
(* Instances of the log writer: small rings, the full log and mission log.  *)
EXTENDS LogWriter

MCSize == [mission |-> 2, full |-> 4]
MCMinChunk == [mission |-> 1, full |-> 2]
=============================================================================

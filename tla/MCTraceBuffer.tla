---------------------------- MODULE MCTraceBuffer ----------------------------
(* Packets of k bytes take between 1 and k + 2 bytes.                      *)
EXTENDS TraceBuffer

MCSizes == [k \in 1 .. BufferSize |-> {1, k + 2}]

=============================================================================

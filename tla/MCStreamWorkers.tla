--------------------------- MODULE MCStreamWorkers ---------------------------
(* Small instances of StreamWorkers for TLC.                               *)
EXTENDS StreamWorkers

CONSTANTS p1, p2

\* Stream 0 may start a connection while its predecessor lingers, stream 1
\* may not.
MCConns == {<<0, p1>>, <<0, p2>>, <<1, p1>>}

MCConnsOfOne == {<<0, p1>>, <<0, p2>>}
=============================================================================

---------------------------- MODULE MCMirrorLoop ----------------------------
EXTENDS MirrorLoop
CONSTANTS h1, h2
\* The files of even number come from a second host.
MCHostOf == [f \in 1..MaxLinks |-> IF f % 2 = 0 THEN h2 ELSE h1]
=============================================================================

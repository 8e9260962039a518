------------------------------ MODULE MCLoader ------------------------------
(* Numbers of four bits stand for int64.                                   *)
EXTENDS Loader

MCLimits == {-1, 0, 1, 2}
\* The largest limit that -max-bytes takes.
MCWrapLimits == {7}
MCTimeouts == {-1, 0, 1}
=============================================================================

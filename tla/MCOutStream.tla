---------------------------- MODULE MCOutStream ----------------------------
(* Values that tell a shifted, a reversed and an inverted field apart.     *)
EXTENDS OutStream
MCValues == {{0, 1, 3}, {2, 4}}
=============================================================================

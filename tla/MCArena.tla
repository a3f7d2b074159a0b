------------------------------ MODULE MCArena ------------------------------
(* Small arenas.  The unit of size is three words, so Header is 1.         *)
EXTENDS Arena

(* Asked-for block sizes below and above the minimum of two headers.       *)
MCInitSize == {1, 3}

(* Nothing; a word; what a block of 3 has room for beside its header and a  *)
(* block of 2 has not; and a request that gets a pool of its own.           *)
MCSize == {0, 1, 2, 4}
=============================================================================

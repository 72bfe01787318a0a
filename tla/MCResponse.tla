----------------------------- MODULE MCResponse -----------------------------
(* Small instances of Response: files of every length up to four caches, a *)
(* buffer one byte larger than the cache, as 16384 and 16383 in the code.  *)
EXTENDS Response

Lengths == -1 .. 12
=============================================================================

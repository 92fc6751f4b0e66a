---------------------------- MODULE MCBlockIndexer ----------------------------
(* BlockIndexer with a buffer of 8: files up to six buffers long, all block   *)
(* sizes up to twice the buffer, and one that does not divide it.             *)
EXTENDS BlockIndexer

Files == 0..48
UpToTwice == 1..16
NotDividing == {3}
=============================================================================

------------------------------ MODULE MCCandles ------------------------------
(* Three minutes, the first two of which make a bucket; a page holds two     *)
(* candles, so a backfill of all three takes two pages.                      *)
EXTENDS Candles

MCWindows == {<<0, 3>>}
=============================================================================

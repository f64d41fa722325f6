------------------------- MODULE MCPeriodicTimeTag -------------------------
(* A second of four samples and slots of three, so that seconds are carried *)
(* over inside and between calls.                                           *)
EXTENDS PeriodicTimeTag

Chunks == {1, 2, 5}
Times  == {<<0, 3>>, <<2, 1>>}
=============================================================================

--------------------------- MODULE MCSocketChannel ---------------------------
(* The writes of the checked instance: an empty one, one of a single buffer *)
(* and one of two.                                                          *)
EXTENDS SocketChannel

SomeVecs == {<<>>, <<1>>, <<1, 2>>}
=============================================================================

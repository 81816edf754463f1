------------------------------ MODULE MCPrograms ------------------------------
(* A small instance of Programs for TLC: messages shorter than a pointer, as *)
(* long as one, and longer.                                                  *)
EXTENDS Programs

MCMessages == {<<"a">>, <<"a", "b">>, <<"a", "b", "c">>, <<"a", "b", "c", "d">>}
================================================================================

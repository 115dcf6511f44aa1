---------------------------- MODULE MCFakeArdopc ----------------------------
(* A small instance of FakeArdopc for TLC. *)
EXTENDS FakeArdopc

CONSTANTS A, B

OnlyASends == [s \in Stations |-> IF s = A THEN 2 ELSE 0]

\* The ways to run the modem in which one thread at a time writes to a client: with
\* station A alone and a fault, or with B as a listener.
Plain == [echo |-> FALSE, broadcast |-> TRUE, fake_ogm |-> FALSE, drop |-> FALSE,
          delay |-> {FALSE}, on |-> {A}, faults |-> 1]
Echo  == [Plain EXCEPT !.broadcast = FALSE, !.echo = TRUE]
Ogms  == [Plain EXCEPT !.broadcast = FALSE, !.fake_ogm = TRUE]
Late(o) == [o EXCEPT !.drop = TRUE, !.delay = {TRUE}]
Calm(o) == [o EXCEPT !.faults = 0]
SingleWriter == {Plain, Echo, Late(Plain), Calm(Late(Echo)), Calm(Ogms),
                 [Calm(Plain) EXCEPT !.on = {A, B}]}
=============================================================================

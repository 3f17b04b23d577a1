--------------------------- MODULE MCReservaciones ----------------------------
(* Small instances of Reservaciones for TLC.                               *)
EXTENDS Reservaciones, TLC

\* Requests are interchangeable, and so are the rows a table can hold.
Intercambiables == Permutations(Solicitudes) \cup Permutations(Reservas)
===============================================================================

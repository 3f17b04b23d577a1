-------------------------------- MODULE MCCaja ---------------------------------
(* Small instances of Caja for TLC.                                        *)
EXTENDS Caja, TLC

\* Requests, rows and cashiers are interchangeable.
Intercambiables ==
    Permutations(Solicitudes) \cup Permutations(Sesiones) \cup Permutations(Usuarios)
===============================================================================

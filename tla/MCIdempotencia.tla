---------------------------- MODULE MCIdempotencia -----------------------------
(* Small instances of Idempotencia for TLC.                                *)
EXTENDS Idempotencia, TLC

\* Requests, keys, bodies and contexts are interchangeable.
Intercambiables ==
    Permutations(Solicitudes) \cup Permutations(Claves)
        \cup Permutations(Cuerpos) \cup Permutations(Contextos)
===============================================================================

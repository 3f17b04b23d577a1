------------------------------- MODULE MCSesiones -------------------------------
(* Sesiones on small instances: requests are interchangeable. *)
EXTENDS Sesiones, TLC

Simetria == Permutations(Solicitudes)
===============================================================================

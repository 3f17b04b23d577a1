\* Three overlapping requests on two keys, with failures and crashes.
SPECIFICATION Spec
CONSTANTS
    Claves = {k1, k2}
    Cuerpos = {b1, b2}
    Ninguno = Ninguno
    Contextos = {c1, c2}
    Solicitudes = {p1, p2, p3}
    MaxEjecuciones = 2
SYMMETRY Intercambiables
INVARIANTS ClavesCoherentes AuditoriaFiel
PROPERTIES AbandonoPorMuerte ImplementaPromesa
CHECK_DEADLOCK FALSE

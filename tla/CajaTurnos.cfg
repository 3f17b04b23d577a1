\* Two cashiers, two overlapping requests, two sessions.
SPECIFICATION Spec
CONSTANTS
    Sesiones = {s1, s2}
    SinSesion = SinSesion
    Usuarios = {u1, u2}
    SinUsuario = SinUsuario
    Solicitudes = {p1, p2}
    Nadie = Nadie
    Fondos = {0, 2}
    Importes = {1}
    Conteos = {0, 1}
    MaxMovimientos = 2
SYMMETRY Intercambiables
INVARIANTS CajaCoherente CierreCuadra
PROPERTY PagoEnCajaAbierta
CHECK_DEADLOCK FALSE

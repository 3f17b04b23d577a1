\* One founder, one more user, two overlapping requests, three sessions, limit 1.
SPECIFICATION Spec
CONSTANTS
    Usuarios = {ana, beto}
    Fundadores = {ana}
    Nadie = Nadie
    Solicitudes = {p, q}
    MaxPorUsuario = 1
    Duracion = 2
    MaxSesiones = 3
    MaxCambios = 1
    MaxReloj = 2
SYMMETRY Simetria
INVARIANTS CandadoCoherente LimitePorUsuario
PROPERTY CambioRevocaTodo
\* Two administrators may deactivate each other; past the last tick nothing is left to do.
CHECK_DEADLOCK FALSE

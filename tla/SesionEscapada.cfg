\* One administrator, two overlapping requests, two sessions.
SPECIFICATION Spec
CONSTANTS
    Usuarios = {ana}
    Fundadores = {ana}
    Nadie = Nadie
    Solicitudes = {p, q}
    MaxPorUsuario = 2
    Duracion = 2
    MaxSesiones = 2
    MaxCambios = 1
    MaxReloj = 2
SYMMETRY Simetria
INVARIANT SinSesionAnterior

\* Two lodging reservations of one unit over three days.
SPECIFICATION Spec
CONSTANTS
    Reservas = {r1, r2}
    SinReserva = SinReserva
    Solicitudes = {p1, p2}
    Nadie = Nadie
    Unidades = {u1}
    SinUnidad = SinUnidad
    Dias = {1, 2, 3}
    Tipos = {"hospedaje"}
    Totales = {1}
    Importes = {}
    MaxPagos = 3
SYMMETRY Intercambiables
INVARIANT SinDobleReserva
PROPERTY EstanciaInvalidaSoloPorCarrera
CHECK_DEADLOCK FALSE

\* Two requests on one reservation: a terminal state overwritten.
SPECIFICATION Spec
CONSTANTS
    Reservas = {r1}
    SinReserva = SinReserva
    Solicitudes = {p1, p2}
    Nadie = Nadie
    Unidades = {}
    SinUnidad = SinUnidad
    Dias = {1}
    Tipos = {"entrada"}
    Totales = {1}
    Importes = {1}
    MaxPagos = 3
PROPERTY TerminalesFijos
CHECK_DEADLOCK FALSE

\* One day visit, two overlapping requests, up to three payments: every race
\* between edits, changes of state, payments, check-in and check-out.
SPECIFICATION Spec
CONSTANTS
    Reservas = {r1}
    SinReserva = SinReserva
    Solicitudes = {p1, p2}
    Nadie = Nadie
    Unidades = {}
    SinUnidad = SinUnidad
    Dias = {1}
    Tipos = {"entrada"}
    Totales = {1, 2}
    Importes = {1, 2}
    MaxPagos = 3
INVARIANTS Coherencia SaldoConservado
PROPERTIES CobroLegitimo VisitaEnOrden ImplementaCicloConcurrente
CHECK_DEADLOCK FALSE

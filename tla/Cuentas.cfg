\* Three rates and a stay of three nights; two reservations, two clients, two
\* services and four rows on three days of two months and of one week.
SPECIFICATION SpecCuentas
CONSTANTS
    Reglas <- MCReglas
    Ediciones <- MCEdiciones
    SinValor = SinValor
    Visitas <- MCVisitas
    Cabanas = {"cabana"}
    PrecioEntrada = 3
    PrecioCamping = 4
    PrecioCabana = 7
    Personas = 1
    IdsTarifa = {9, 10, 11}
    AntesEnTexto <- MCAntesEnTexto
    MaxFecha = 3
    Ventas = {v1, v2}
    ServiciosVenta = {"tour", "cueva"}
    ClientesVenta = {ana, beto}
    MetodosPago = {efectivo, tarjeta}
    Vacia = Vacia
    Capacidad <- MCCapacidad
    PrecioPersona = 1
    MaxPersonas = 2
    Semana = 3
    Primeros = {0, 1, 4}
    Eneros = {0}
    DiaInicial = 3
    UltimoDia = 5
    PartesPorUnidad = 1
    MaxFilas = 4
SYMMETRY MCSimetria
INVARIANTS
    DesgloseCuadra
    SimuladorPredice
    PrecioVigente
    ReportesCuadran
    IngresosCuadran
    TableroFiel
PROPERTY CorteCerrado
CHECK_DEADLOCK FALSE

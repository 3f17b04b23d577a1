\* One key of each limiter, two threads, two calls in a window of three ticks, and a
\* clock that outlives the second penalty;
\* two units, two requests, one block and one stay on three days; a status and a draft
\* with deadlines of 4 and 8 ticks; two requests and a window of three answers.
SPECIFICATION SpecRechazos
CONSTANTS
    Simples = {login}
    Conexiones = {ip}
    Contactos = {contacto}
    Hilos = {h1, h2}
    SinClave = SinClave
    MaxLlamadas = 2
    Ventana = 3
    Inicial = 2
    Maxima = 4
    Demora = 1
    MaxPeticiones = 7
    MaxInstante = 6
    Unidades = {cabana, tipi}
    Parque = Parque
    Solicitantes = {p, q}
    TiposVisita = {"entrada", "hospedaje"}
    CamposEditables = {{"llegada"}, {"salida"}}
    MaxDia = 2
    MaxEventos = 1
    MaxEstancias = 1
    SinLlamada = SinLlamada
    PlazoEstado = 4
    PlazoBorrador = 8
    EsperaInicial = 1
    EsperaMaxima = 3
    IntentoMinimo = 2
    IntentoMaximo = 3
    EsperaDespertar = 1
    Atendidas = {a1, a2}
    MaxMuestras = 3
    CodigosHttp = {200, 404}
    Duraciones = {1, 3}
    LatenciaObjetivo = 2
    MaxVida = 4
SYMMETRY MCSimetria
INVARIANTS
    VentanaRespetada
    EsperaFiel
    ReincidenciaEnVentana
    CalendarioFiel
    BloqueoRespetado
    PlazoRespetado
    MetricasFieles
CHECK_DEADLOCK FALSE

\* Two forms, two overlapping requests, two attempts, both modes.
SPECIFICATION SpecJusta
CONSTANTS
    Huellas = {1, 2, 3, 4, 5, 6}
    Nonces = {2, 4}
    SinHuella = SinHuella
    Formularios <- Visitantes
    Solicitudes = {p, q}
    Nadie = Nadie
    LimiteIp = 1
    LimiteContacto = 1
    LimiteCliente = 1
    Hora = 1
    Dia = 2
    EsperaMinima = 1
    Vigencia = 1
    MaxIntentos = 2
    MaxRotas = 1
    MaxReloj = 2
INVARIANTS CuotaPorVentana UnaPorDesafio CupoJustificado EsperaReal
PROPERTY TodaSolicitudTermina
CHECK_DEADLOCK FALSE

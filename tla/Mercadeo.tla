-------------------------------- MODULE Mercadeo --------------------------------
(***************************************************************************)
(* The client of the marketing service of MH-Core, which sleeps when       *)
(* nobody uses it: a wake-up call, then one request with retries up to a   *)
(* deadline, then the reading of its body outside of the retries.          *)
(*                                                                         *)
(* Time is counted in ticks.  An attempt that fails takes at most the      *)
(* timeout it was given: urlopen applies it to each operation of the       *)
(* socket, and the rest of them are taken as instantaneous.                *)
(***************************************************************************)
EXTENDS Integers, Sequences, FiniteSetsExt

CONSTANTS
    SinLlamada,       \* no operation, no error or no result
    PlazoEstado,      \* _STATUS_TOTAL_TIMEOUT_SECONDS
    PlazoBorrador,    \* MH_CORE_MARKETING_TIMEOUT_SECONDS
    EsperaInicial, EsperaMaxima,     \* the delay between attempts
    IntentoMinimo, IntentoMaximo,    \* the timeout of an attempt
    EsperaDespertar   \* _WAKE_TIMEOUT_SECONDS

ASSUME ConstantesDeMercadeo ==
    /\ {PlazoEstado, PlazoBorrador, EsperaInicial, EsperaMaxima} \subseteq Nat \ {0}
    /\ {IntentoMinimo, IntentoMaximo} \subseteq Nat \ {0} /\ IntentoMinimo <= IntentoMaximo
    /\ EsperaDespertar \in Nat

VARIABLES
    llamada,      \* the request in hand
    cronometro,   \* time.monotonic() since it began
    intentos,     \* history: when each attempt began
    borradores    \* drafts that MH-Core made for it (external)

varsMercadeo == <<llamada, cronometro, intentos, borradores>>

-------------------------------------------------------------------------------
\* Errors of urlopen: HTTPError by its code; URLError and TimeoutError; or a connection
\* closed instead of an answer, which is neither of them.
Temporales == {"502", "503", "504"}
Errores == Temporales \cup {"401", "422", "500", "red", "corte"}

Reintentables == Temporales \cup {"red"}

\* What the caller receives: an object, the status of an HTTPException (503 for a
\* credential that is refused, another for a service that is not there), or 500.
Resultados == {"objeto", "no_configurado", "no_autorizado", "422", "502_temporal", "502_otro",
               "503_temporal", "inesperada", "no_controlado"}

ASSUME SinLlamadaEsNula == SinLlamada \notin Errores \cup Resultados

Llamada == [op : {"estado", "borrador", SinLlamada},
            paso : {"libre", "despertar", "intentar", "dormir", "leer", "fin"},
            limite : Nat, espera : Nat, error : Errores \cup {SinLlamada},
            resultado : Resultados \cup {SinLlamada}]

SinPeticion == [op |-> SinLlamada, paso |-> "libre", limite |-> 0, espera |-> EsperaInicial,
                error |-> SinLlamada, resultado |-> SinLlamada]

Plazo(op) == IF op = "estado" THEN Min({PlazoEstado, PlazoBorrador}) ELSE PlazoBorrador

Restante == llamada.limite - cronometro

\* The answer of _request for an error.
Traduccion(error) ==
    CASE error = "401" -> "no_autorizado"
      [] error = "422" -> "422"
      [] error = "red" -> "503_temporal"
      [] error \in Temporales -> "502_temporal"
      [] error = "500" -> "502_otro"
      [] error = "corte" -> "no_controlado"

Termina(resultado) == [llamada EXCEPT !.paso = "fin", !.resultado = resultado]

\* The deadline passed: the last error, or TimeoutError when there was none.
Agotada ==
    Termina(IF llamada.error = SinLlamada THEN "503_temporal" ELSE Traduccion(llamada.error))

-------------------------------------------------------------------------------
InitMercadeo ==
    /\ llamada = SinPeticion
    /\ cronometro = 0
    /\ intentos = <<>>
    /\ borradores = 0

\* obtener_estado and crear_borrador; without a credential nothing is sent.
Pedir ==
    \E op \in {"estado", "borrador"}, configurado \in BOOLEAN :
        /\ llamada.paso = "libre"
        /\ llamada' =
              IF ~configurado
              THEN [SinPeticion EXCEPT !.op = op, !.paso = "fin", !.resultado = "no_configurado"]
              ELSE IF op = "estado" THEN [SinPeticion EXCEPT !.op = op, !.paso = "despertar"]
              ELSE [SinPeticion EXCEPT !.op = op, !.paso = "intentar", !.limite = Plazo(op)]
        /\ cronometro' = 0 /\ intentos' = <<>> /\ borradores' = 0

\* _despertar_servicio: answers and errors are ignored, a closed connection is not.
\* The deadline begins after it.
Despertar ==
    \E d \in 0..EsperaDespertar, corte \in BOOLEAN :
        /\ llamada.paso = "despertar"
        /\ cronometro' = d
        /\ llamada' = IF corte THEN Termina(Traduccion("corte"))
                      ELSE [llamada EXCEPT !.paso = "intentar", !.limite = d + Plazo(llamada.op)]
        /\ UNCHANGED <<intentos, borradores>>

TiempoDeIntento == Max({IntentoMinimo, Min({IntentoMaximo, Restante})})

\* An attempt.  MH-Core may have made the draft although the answer is lost, comes
\* late, or is an error of the proxy in front of it.
Intentar ==
    \E d \in 0..TiempoDeIntento, error \in Errores \cup {SinLlamada}, hecho \in BOOLEAN :
        /\ llamada.paso = "intentar" /\ Restante > 0
        /\ hecho => llamada.op = "borrador" /\ error \notin {"401", "422"}
        /\ error = SinLlamada /\ llamada.op = "borrador" => hecho
        /\ cronometro' = cronometro + d
        /\ intentos' = Append(intentos, cronometro)
        /\ borradores' = borradores + (IF hecho THEN 1 ELSE 0)
        /\ llamada' =
              IF error = SinLlamada THEN [llamada EXCEPT !.paso = "leer"]
              ELSE IF error \in Reintentables THEN [llamada EXCEPT !.paso = "dormir", !.error = error]
              ELSE Termina(Traduccion(error))

\* The variant sleeps its whole delay.
SinRecorte(restante) == llamada.espera
Pausa(restante) == Min({llamada.espera, restante})

Siguiente(espera) == Min({2 * espera, EsperaMaxima})

\* What n doublings make of the first delay.
Doblada[n \in Nat] == IF n = 0 THEN EsperaInicial ELSE 2 * Doblada[n - 1]

Dormir ==
    /\ llamada.paso = "dormir" /\ Restante > 0
    /\ cronometro' = cronometro + Pausa(Restante)
    /\ llamada' = [llamada EXCEPT !.paso = "intentar", !.espera = Siguiente(@)]
    /\ UNCHANGED <<intentos, borradores>>

Agotar ==
    /\ llamada.paso \in {"intentar", "dormir"} /\ Restante <= 0
    /\ llamada' = Agotada
    /\ UNCHANGED <<cronometro, intentos, borradores>>

\* response.read(), json.loads and the validation of the campaign, with the timeout
\* of the last attempt on the socket; a connection cut in the middle is not caught.
Leer ==
    \E d \in 0..IntentoMaximo,
       resultado \in {"objeto", "inesperada", "503_temporal", "no_controlado"} :
        /\ llamada.paso = "leer"
        /\ cronometro' = cronometro + d
        /\ llamada' = Termina(resultado)
        /\ UNCHANGED <<intentos, borradores>>

\* The answer leaves; obtener_estado turns the exceptions into a state.
Contestar ==
    /\ llamada.paso = "fin"
    /\ llamada' = SinPeticion
    /\ cronometro' = 0 /\ intentos' = <<>> /\ borradores' = 0

NextMercadeo ==
    \/ Pedir \/ Despertar \/ Intentar \/ Dormir \/ Agotar \/ Leer \/ Contestar

SpecMercadeo == InitMercadeo /\ [][NextMercadeo]_varsMercadeo

-------------------------------------------------------------------------------
\* _es_arranque_temporal: the panel says that marketing is waking up.
Despertando == llamada.op = "estado" /\ llamada.resultado \in {"502_temporal", "503_temporal"}

\* The call and its counters have their types.
TypeMercadeo ==
    /\ llamada \in Llamada
    /\ cronometro \in Nat /\ borradores \in Nat
    /\ intentos \in Seq(Nat)

\* The retries neither pass their deadline nor press a service that is waking up: an
\* attempt begins before the deadline, each waits twice as long as the former one up
\* to the limit, and the call is over, but for the reading of the body, within less
\* than the least attempt after the deadline.  Only a POST repeated after an error taken
\* as temporary leaves more than one draft; and the panel says that marketing is waking
\* up only when MH-Core was tried (mh_core_marketing_service.py:46-76, 168-205).
PlazoRespetado ==
    /\ \A i \in DOMAIN intentos :
          /\ intentos[i] < llamada.limite
          /\ i > 1 => intentos[i] - intentos[i - 1] >= Min({Doblada[i - 2], EsperaMaxima})
    /\ llamada.paso \in {"intentar", "dormir"} => cronometro < llamada.limite + IntentoMinimo
    /\ borradores > 1 => llamada.op = "borrador" /\ llamada.error \in Reintentables
    /\ Despertando => intentos # <<>>
===============================================================================

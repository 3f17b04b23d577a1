--------------------------------- MODULE Tablero ---------------------------------
(***************************************************************************)
(* The summary of the dashboard: one request that asks for twelve reports  *)
(* and the cash cut of the day, one after another.  Each report asks the   *)
(* clock again; the dates of the comparisons were fixed at the beginning.  *)
(***************************************************************************)
EXTENDS Reportes, Redondeos

CONSTANT PartesPorUnidad   \* a percentage keeps hundredths: 100 * 100 in the code

ASSUME ConstanteDelTablero == PartesPorUnidad \in Nat \ {0}

VARIABLE tablero   \* the request under way

varsTablero == <<ventas, cobros, altas, deVenta, hoy, tablero>>

\* respuestas: the day and the range of each answer, in the order of resumen.
SinTablero == [fecha |-> Vacia, respuestas |-> << >>]

-------------------------------------------------------------------------------
\* _rango_mes_anterior.  The variant steps back thirty days, here two.
TreintaDias(dia) == PrimeroDe(Primeros, dia - 2)..(PrimeroDe(Primeros, dia) - 1)

RangoMesAnterior(dia) ==
    LET ultimo == PrimeroDe(Primeros, dia) - 1
    IN  PrimeroDe(Primeros, ultimo)..ultimo

Periodo(p) == [periodo |-> p, rango |-> Vacia]
Fijo(r) == [periodo |-> Vacia, rango |-> r]

\* The calls of resumen, in order: income, by state, next visits, debts,
\* cancellations, occupation, cash and new clients.
Llamadas(fecha) ==
    LET ayer == Fijo((fecha - 1)..(fecha - 1))
        anterior == Fijo(RangoMesAnterior(fecha))
    IN  <<Periodo("hoy"), ayer, Periodo("mes"), anterior, Periodo("anio"), Periodo("hoy"),
          Periodo("hoy"), Periodo("mes"), anterior, Periodo("mes"), Periodo("hoy"),
          Periodo("mes"), anterior>>

\* The two halves of the cards that compare, as positions of Llamadas.
Comparaciones == {<<1, 2>>, <<3, 4>>, <<8, 9>>, <<12, 13>>}

\* _tarjeta: the percentage as a whole number of parts, or Vacia, and the tendency.
Variacion(valor, anterior) == PartesPorUnidad * (valor - anterior)

Flecha(valor, anterior) ==
    IF valor > anterior THEN "up" ELSE IF valor < anterior THEN "down" ELSE "neutral"

\* The variant divides by the previous value with its sign.
ConSigno(valor, anterior) ==
    LET partes == RedondeoPar(Variacion(valor, anterior), Magnitud(anterior))
    IN  [porcentaje |-> IF anterior = 0 THEN Vacia ELSE IF anterior < 0 THEN -partes ELSE partes,
         tendencia |-> Flecha(valor, anterior)]

Tarjeta(valor, anterior) ==
    [porcentaje |-> IF anterior = 0 THEN Vacia
                    ELSE RedondeoPar(Variacion(valor, anterior), Magnitud(anterior)),
     tendencia |-> Flecha(valor, anterior)]

-------------------------------------------------------------------------------
InitTablero == InitReportes /\ tablero = SinTablero

AbrirTablero ==
    /\ tablero = SinTablero
    /\ tablero' = [tablero EXCEPT !.fecha = hoy]
    /\ UNCHANGED varsReportes

\* The next call, with the clock of its own moment.
Consultar ==
    LET n == Len(tablero.respuestas) + 1
        llamada == Llamadas(tablero.fecha)[n]
    IN  /\ tablero.fecha # Vacia /\ n <= 13
        /\ tablero' = [tablero EXCEPT !.respuestas = Append(@,
               [dia |-> hoy,
                rango |-> IF llamada.rango = Vacia THEN Rango(llamada.periodo, Vacia, Vacia)
                          ELSE llamada.rango])]
        /\ UNCHANGED varsReportes

Completo == Len(tablero.respuestas) = 13

Responder ==
    /\ Completo
    /\ tablero' = SinTablero
    /\ UNCHANGED varsReportes

NextTablero ==
    \/ NextReportes /\ UNCHANGED tablero
    \/ AbrirTablero \/ Consultar \/ Responder

SpecTablero == InitTablero /\ [][NextTablero]_varsTablero

-------------------------------------------------------------------------------
\* The request has its type.
TypeTablero ==
    /\ TypeReportes
    /\ tablero.fecha \in DiasReporte \cup {Vacia}
    /\ \A i \in DOMAIN tablero.respuestas :
          tablero.respuestas[i].dia \in DiasReporte /\ tablero.respuestas[i].rango \subseteq Int

\* With a midnight in the middle or without it: no day is counted in the two halves
\* of a card, each half has days, the current one ends the day it was asked, and a
\* previous one begins a month when the current one does; no day lies between them,
\* and the day is in its month and the month in its year, as long as the current
\* range still has the day of "fecha".  A month that ends between the first call and
\* another is in neither half (dashboard_service.py:66-69, reporte_service.py:41).
TableroConsecutivo ==
    Completo =>
        LET r(i) == tablero.respuestas[i].rango
            vigente(i) == tablero.fecha \in r(i)
        IN  /\ \A c \in Comparaciones :
                  /\ r(c[1]) # {} /\ r(c[2]) # {}
                  /\ Max(r(c[2])) < Min(r(c[1]))
                  /\ Max(r(c[1])) = tablero.respuestas[c[1]].dia
                  /\ vigente(c[1]) => Max(r(c[2])) + 1 = Min(r(c[1]))
            /\ \A c \in Comparaciones \ {<<1, 2>>} : {Min(r(c[1])), Min(r(c[2]))} \subseteq Primeros
            /\ vigente(3) => r(1) \subseteq r(3)
            /\ vigente(5) => r(3) \subseteq r(5)

\* A percentage never contradicts its arrow, where the previous value is negative
\* too, as after a day of refunds only.  It may be 0 beside an arrow: for a change
\* below half of the last digit it keeps, and no other.  It is missing only over
\* zero (dashboard_service.py:45-55).
TarjetaCoherente ==
    LET netos == {Neto(CobrosDe(r, Vacia, Vacia)) : r \in Rangos}
    IN  \A actual, anterior \in netos :
        LET t == Tarjeta(actual, anterior)
        IN  IF anterior = 0 THEN t.porcentaje = Vacia
            ELSE /\ t.porcentaje > 0 => t.tendencia = "up"
                 /\ t.porcentaje < 0 => t.tendencia = "down"
                 /\ t.porcentaje = 0 =>
                       2 * Magnitud(Variacion(actual, anterior)) <= Magnitud(anterior)

\* What the dashboard compares touches, and the cards say of it what it is.
TableroFiel == TableroConsecutivo /\ TarjetaCoherente
===============================================================================

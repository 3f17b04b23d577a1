--------------------------------- MODULE Tarifas ---------------------------------
(***************************************************************************)
(* The price of a visit under the special rates, and the simulator that    *)
(* tells the administrator what a rate would change.                       *)
(*                                                                         *)
(* A price is worked out day by day, with one SELECT for each day; at READ *)
(* COMMITTED a rate may be created, edited or deleted between two of them. *)
(* The session keeps the object of a rate it has charged, with the values  *)
(* it had then: a later SELECT returns that object.                        *)
(***************************************************************************)
EXTENDS Integers, FiniteSets, FiniteSetsExt

CONSTANTS
    Reglas,         \* rates an administrator may create
    Ediciones,      \* bodies of an edit; a field may be SinValor
    SinValor,       \* NULL or not sent
    Visitas,        \* [tipo, llegada, salida, unidad]
    Cabanas,        \* lodging units
    PrecioEntrada, PrecioCamping, PrecioCabana, Personas,  \* in cents
    IdsTarifa,      \* ids the sequence hands out, as numbers
    AntesEnTexto,   \* pairs <<i, j>> with str(i) < str(j)
    MaxFecha        \* bound on the dates

Fechas == 0..MaxFecha

ASSUME ConstantesDeTarifas ==
    /\ SinValor \notin Cabanas
    /\ IdsTarifa \subseteq Nat \ {0} /\ IsFiniteSet(IdsTarifa)
    /\ AntesEnTexto \subseteq IdsTarifa \X IdsTarifa
    /\ {PrecioEntrada, PrecioCamping, PrecioCabana, Personas, MaxFecha} \subseteq Nat
    /\ Visitas # {}
    /\ \A v \in Visitas :
        /\ v.tipo \in {"entrada", "camping", "hospedaje"}
        /\ v.llegada \in Fechas /\ v.salida \in Fechas
        /\ IF v.tipo = "entrada" THEN v.salida = v.llegada ELSE v.salida > v.llegada
        /\ v.tipo = "hospedaje" <=> v.unidad \in Cabanas

VARIABLES
    tarifas,       \* table tarifas_especiales
    ultimaTarifa,  \* last id handed out
    cuenta,        \* the price being worked out
    movida         \* history: a rate changed since that began

varsTarifas == <<tarifas, ultimaTarifa, cuenta, movida>>

-------------------------------------------------------------------------------
\* dias is a set of weekdays; the empty one, like NULL, means every day.  An edit
\* does not check that they are weekdays.
Tarifa == [activa : BOOLEAN, inicio : Fechas, fin : Fechas, porcentaje : -100..500,
           aplica : {"todos", "entrada", "camping", "hospedaje"},
           dias : {SinValor} \cup SUBSET Int, prioridad : -1000..1000,
           unidad : {SinValor} \cup Cabanas]

\* TarifaEspecialUpdate
Edicion == [activa : {SinValor} \cup BOOLEAN, inicio : {SinValor} \cup Fechas,
            fin : {SinValor} \cup Fechas, porcentaje : {SinValor} \cup -100..500,
            aplica : {SinValor, "todos", "entrada", "camping", "hospedaje"},
            dias : {SinValor} \cup SUBSET Int, prioridad : {SinValor} \cup -1000..1000,
            unidad : {SinValor} \cup Cabanas]

ASSUME ReglasTipadas ==
    Reglas \subseteq Tarifa /\ Ediciones \subseteq Edicion /\ SinValor \notin Tarifa

Cuenta == [paso : {"libre", "dia"}, visita : Visitas, base : Nat, fecha : Nat,
           total : Int,
           lineas : [IdsTarifa -> [regla : Tarifa \cup {SinValor}, dias : Nat, subtotal : Int]]]

\* acumulado has no item for the rate yet.
SinLinea == [regla |-> SinValor, dias |-> 0, subtotal |-> 0]

SinCuenta == [paso |-> "libre", visita |-> CHOOSE v \in Visitas : TRUE, base |-> 0,
              fecha |-> 0, total |-> 0, lineas |-> [i \in IdsTarifa |-> SinLinea]]

DiaSemana(fecha) == fecha % 7

\* The days charged: the nights of a stay, or the day of the visit.
Noches(v) == IF v.tipo = "entrada" THEN {v.llegada} ELSE v.llegada..(v.salida - 1)

\* _calcular_base, and the same sums in _validar_y_calcular.
Base(v) ==
    LET dias == IF v.tipo = "entrada" THEN 1 ELSE v.salida - v.llegada
    IN  CASE v.tipo = "entrada"   -> PrecioEntrada * Personas
          [] v.tipo = "camping"   -> (PrecioEntrada + PrecioCamping) * Personas * dias
          [] v.tipo = "hospedaje" -> PrecioEntrada * Personas * dias + PrecioCabana * dias

BaseDiaria(v) == Base(v) \div Cardinality(Noches(v))

\* quantize(0.01, ROUND_HALF_UP): halves go away from zero.
Redondeo(n, d) == IF n >= 0 THEN (2 * n + d) \div (2 * d) ELSE -((d - 2 * n) \div (2 * d))

Ajuste(base, porcentaje) == Redondeo(base * porcentaje, 100)

\* The WHERE of _reglas_para_fecha, for one rate.
Alcanza(t, fecha, v) ==
    /\ t.inicio <= fecha /\ t.fin >= fecha
    /\ t.aplica \in {"todos", v.tipo}
    /\ t.unidad \in {SinValor, v.unidad}

\* _aplica_dia
AplicaDia(t, fecha) == t.dias \in {SinValor, {}} \/ DiaSemana(fecha) \in t.dias

Existentes == {i \in IdsTarifa : tarifas[i] # SinValor}

\* The rates of table T that apply on a day.
ReglasParaFecha(T, fecha, v) ==
    {i \in IdsTarifa : /\ T[i] # SinValor
                       /\ T[i].activa /\ Alcanza(T[i], fecha, v) /\ AplicaDia(T[i], fecha)}

\* ORDER BY prioridad DESC, id DESC: i is charged rather than j.  The variant
\* sorts the ids the other way.
MasAntigua(T, i, j) ==
    \/ T[i].prioridad > T[j].prioridad
    \/ T[i].prioridad = T[j].prioridad /\ i < j

Precede(T, i, j) ==
    \/ T[i].prioridad > T[j].prioridad
    \/ T[i].prioridad = T[j].prioridad /\ i > j

\* _regla_para_fecha: the one charged, of those that apply.
Ganadora(T, S) == CHOOSE i \in S : \A j \in S \ {i} : Precede(T, i, j)

\* The price under a table that does not change meanwhile.
Precio(T, v) ==
    Base(v) + MapThenSumSet(
        LAMBDA f : LET S == ReglasParaFecha(T, f, v) IN
                   IF S = {} THEN 0 ELSE Ajuste(BaseDiaria(v), T[Ganadora(T, S)].porcentaje),
        Noches(v))

\* simular: max by priority, then the candidate, then str(id).
GanadoraEnTexto(S) ==
    CHOOSE i \in S : \A j \in S \ {i} :
        \/ tarifas[i].prioridad > tarifas[j].prioridad
        \/ tarifas[i].prioridad = tarifas[j].prioridad /\ <<j, i>> \in AntesEnTexto

\* The percentage of one day with the candidate c among the rates; the variant
\* lets the stored rate win a tie.
CandidataPierde(c, fecha, v) ==
    LET S == ReglasParaFecha(tarifas, fecha, v)
        g == GanadoraEnTexto(S)
    IN  IF Alcanza(c, fecha, v) /\ AplicaDia(c, fecha) /\ (S = {} \/ c.prioridad > tarifas[g].prioridad)
        THEN c.porcentaje
        ELSE IF S = {} THEN 0 ELSE tarifas[g].porcentaje

PorcentajeSimulado(c, fecha, v) ==
    LET S == ReglasParaFecha(tarifas, fecha, v)
        g == GanadoraEnTexto(S)
    IN  IF Alcanza(c, fecha, v) /\ AplicaDia(c, fecha) /\ (S = {} \/ c.prioridad >= tarifas[g].prioridad)
        THEN c.porcentaje
        ELSE IF S = {} THEN 0 ELSE tarifas[g].porcentaje

TotalSimulado(c, v) ==
    Base(v) + MapThenSumSet(LAMBDA f : Ajuste(BaseDiaria(v), PorcentajeSimulado(c, f, v)),
                            Noches(v))

-------------------------------------------------------------------------------
InitTarifas ==
    /\ tarifas = [i \in IdsTarifa |-> SinValor]
    /\ ultimaTarifa = 0
    /\ cuenta = SinCuenta
    /\ movida = FALSE

CrearTarifa ==
    \E i \in IdsTarifa, t \in Reglas :
        /\ i > ultimaTarifa
        /\ \A j \in IdsTarifa : j > ultimaTarifa => i <= j
        /\ t.fin >= t.inicio
        /\ t.unidad # SinValor => t.aplica \in {"todos", "hospedaje"}
        /\ tarifas' = [tarifas EXCEPT ![i] = t]
        /\ ultimaTarifa' = i
        /\ movida' = TRUE
        /\ UNCHANGED cuenta

\* {k: v for k, v in cambios.items() if v is not None}: what is not sent stays,
\* and NULL cannot be sent.
Actualizada(t, c) == [k \in DOMAIN t |-> IF c[k] = SinValor THEN t[k] ELSE c[k]]

ActualizarTarifa ==
    \E i \in Existentes, c \in Ediciones :
        LET t == Actualizada(tarifas[i], c) IN
        /\ t.fin >= t.inicio
        /\ tarifas' = [tarifas EXCEPT ![i] = t]
        /\ movida' = TRUE
        /\ UNCHANGED <<ultimaTarifa, cuenta>>

EliminarTarifa ==
    \E i \in Existentes :
        /\ tarifas' = [tarifas EXCEPT ![i] = SinValor]
        /\ movida' = TRUE
        /\ UNCHANGED <<ultimaTarifa, cuenta>>

\* cotizar, crear or actualizar: the base, and calcular_ajustes begins.
EmpezarPrecio ==
    \E v \in Visitas :
        /\ cuenta.paso = "libre"
        /\ cuenta' = [SinCuenta EXCEPT !.paso = "dia", !.visita = v, !.base = BaseDiaria(v),
                                       !.fecha = v.llegada, !.total = Base(v)]
        /\ movida' = FALSE
        /\ UNCHANGED <<tarifas, ultimaTarifa>>

\* The object of a rate already charged keeps the values it had; the variant
\* reads them again.
Relee(i) == tarifas[i]

Vista(i) == IF cuenta.lineas[i].dias = 0 THEN tarifas[i] ELSE cuenta.lineas[i].regla

\* The query of one day: the row decides, but for the weekday, which is asked to
\* the object.
ReglasVistas ==
    {i \in Existentes : /\ tarifas[i].activa
                        /\ Alcanza(tarifas[i], cuenta.fecha, cuenta.visita)
                        /\ AplicaDia(Vista(i), cuenta.fecha)}

\* One day of the loop: setdefault, then its days and its subtotal.
CobrarDia ==
    LET g == Ganadora(tarifas, ReglasVistas)
        linea == cuenta.lineas[g]
        ajuste == Ajuste(cuenta.base, Vista(g).porcentaje)
    IN  /\ cuenta.paso = "dia"
        /\ cuenta.fecha \in Noches(cuenta.visita)
        /\ cuenta' =
              IF ReglasVistas = {} THEN [cuenta EXCEPT !.fecha = @ + 1]
              ELSE [cuenta EXCEPT
                        !.fecha = @ + 1, !.total = @ + ajuste,
                        !.lineas[g] = [regla |-> IF linea.dias = 0 THEN tarifas[g] ELSE @.regla,
                                       dias |-> @.dias + 1, subtotal |-> @.subtotal + ajuste]]
        /\ UNCHANGED <<tarifas, ultimaTarifa, movida>>

\* The price is answered or stored.
TerminarPrecio ==
    /\ cuenta.paso = "dia"
    /\ cuenta.fecha \notin Noches(cuenta.visita)
    /\ cuenta' = SinCuenta
    /\ UNCHANGED <<tarifas, ultimaTarifa, movida>>

NextTarifas ==
    \/ CrearTarifa \/ ActualizarTarifa \/ EliminarTarifa
    \/ EmpezarPrecio \/ CobrarDia \/ TerminarPrecio

SpecTarifas == InitTarifas /\ [][NextTarifas]_varsTarifas

-------------------------------------------------------------------------------
\* Rates and the account have their types.
TypeTarifas ==
    /\ tarifas \in [IdsTarifa -> Tarifa \cup {SinValor}]
    /\ ultimaTarifa \in IdsTarifa \cup {0}
    /\ cuenta \in Cuenta
    /\ movida \in BOOLEAN

Listo == cuenta.paso = "dia" /\ cuenta.fecha \notin Noches(cuenta.visita)

\* Whatever is edited, deleted or created while a price is worked out, its lines
\* explain it: they add up to the total, and each is its days at one percentage.
\* No discount takes it below zero (tarifa_especial_service.py:84, ck_reservaciones_total_positivo).
DesgloseCuadra ==
    Listo =>
        /\ cuenta.total >= 0
        /\ cuenta.total = Base(cuenta.visita)
             + MapThenSumSet(LAMBDA i : cuenta.lineas[i].subtotal, IdsTarifa)
        /\ \A i \in IdsTarifa :
              cuenta.lineas[i].dias > 0 =>
                cuenta.lineas[i].subtotal
                  = cuenta.lineas[i].dias * Ajuste(cuenta.base, cuenta.lineas[i].regla.porcentaje)
        /\ MapThenSumSet(LAMBDA i : cuenta.lineas[i].dias, IdsTarifa)
             <= Cardinality(Noches(cuenta.visita))

\* The simulator predicts the price: what it announces for a candidate is what the
\* visit costs once that rate is stored and nothing else changes.  Two stored
\* rates that tie on a day are excepted: the simulator compares str(id), the
\* charge the number (tarifa_especial_service.py:73, 148).
SimuladorPredice ==
    \A v \in Visitas, c \in Reglas, nueva \in IdsTarifa :
        LET empate == \E f \in Noches(v) : \E i, j \in ReglasParaFecha(tarifas, f, v) :
                          i # j /\ tarifas[i].prioridad = tarifas[j].prioridad
            guardada == [c EXCEPT !.activa = TRUE]
        IN  (nueva > ultimaTarifa /\ ~empate) =>
                TotalSimulado(c, v) = Precio([tarifas EXCEPT ![nueva] = guardada], v)

\* A price worked out while no rate changed is the sum of its nights, each at the
\* rate of highest priority and, of those, the youngest
\* (tarifa_especial_service.py:73, 81).
PrecioVigente ==
    (Listo /\ ~movida) =>
        LET v == cuenta.visita
            mejores(f) == {i \in ReglasParaFecha(tarifas, f, v) :
                              \A j \in ReglasParaFecha(tarifas, f, v) :
                                  \/ tarifas[j].prioridad < tarifas[i].prioridad
                                  \/ tarifas[j].prioridad = tarifas[i].prioridad /\ j <= i}
            noche(f) == MapThenSumSet(
                            LAMBDA i : Ajuste(BaseDiaria(v), tarifas[i].porcentaje), mejores(f))
        IN  cuenta.total = Base(v) + MapThenSumSet(noche, v.llegada..Max({v.llegada, v.salida - 1}))
===============================================================================

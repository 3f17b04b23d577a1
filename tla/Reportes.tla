-------------------------------- MODULE Reportes --------------------------------
(***************************************************************************)
(* The reports of the administrator.  Each one reads a table whole and     *)
(* filters and adds up in Python, by the date of the payment, of the       *)
(* creation or of the visit; none shares its filter with another one.      *)
(*                                                                         *)
(* The operations that fill the tables are atomic here: Reservaciones      *)
(* models how they overlap.  A payment is dated by the beginning of its    *)
(* transaction, which may have been before the last midnight.  Totals      *)
(* follow the number of people; averages are kept as a sum and a count,    *)
(* without their rounding to two decimals.                                 *)
(***************************************************************************)
EXTENDS Integers, Sequences, FiniteSets, FiniteSetsExt

CONSTANTS
    Ventas,          \* ids of reservations
    ServiciosVenta, ClientesVenta, MetodosPago,
    Vacia,           \* no row, NULL or parameter not sent
    Capacidad,       \* capacidad_maxima of each service, or Vacia
    PrecioPersona,
    MaxPersonas,     \* bound on the people of a visit
    Semana,          \* days of a week; day 0 is a Monday
    Primeros,        \* first days of the months
    Eneros,          \* those that begin a year
    DiaInicial, UltimoDia,  \* the clock goes from one to the other
    MaxFilas         \* bound on the rows of the three tables together

DiasReporte == 0..UltimoDia
EstadosVenta == {"pendiente", "confirmada", "en_curso", "completada", "cancelada"}

ASSUME ConstantesDeReportes ==
    /\ 0 \in Eneros /\ Eneros \subseteq Primeros /\ Primeros \subseteq Nat
    /\ Semana \in Nat \ {0} /\ PrecioPersona \in Nat /\ MaxPersonas \in Nat \ {0}
    /\ DiaInicial \in DiasReporte /\ UltimoDia \in Nat /\ MaxFilas \in Nat
    /\ Capacidad \in [ServiciosVenta -> (Nat \ {0}) \cup {Vacia}]
    /\ IsFiniteSet(Ventas) /\ IsFiniteSet(ServiciosVenta)
    /\ IsFiniteSet(ClientesVenta) /\ IsFiniteSet(MetodosPago)
    /\ Vacia \notin Int /\ \A dias \in SUBSET DiasReporte : dias # Vacia
    /\ Vacia \notin ServiciosVenta /\ Vacia \notin MetodosPago
    /\ Vacia \notin {"hoy", "semana", "mes", "anio"} \cup EstadosVenta
    /\ \E p \in Primeros : 0 < p /\ p <= DiaInicial   \* a month ended before the first day

VARIABLES
    ventas,    \* table reservaciones
    cobros,    \* table pagos, in the order of their commits
    altas,     \* table clientes: the day each one was created
    deVenta,   \* services with activo
    hoy        \* datetime.now(utc).date()

varsReportes == <<ventas, cobros, altas, deVenta, hoy>>

-------------------------------------------------------------------------------
EstadosCobrables == {"pendiente", "confirmada", "en_curso"}

\* ESTADOS_NO_CANCELADOS; the variant forgets the visits that are in the park.
SinEnCurso == {"pendiente", "confirmada", "completada"}

NoCancelados == EstadosVenta \ {"cancelada"}

Venta == [estado : EstadosVenta, servicio : ServiciosVenta, cliente : ClientesVenta,
          personas : 1..MaxPersonas, total : Nat, pagado : Nat,
          creada : DiasReporte, visita : DiasReporte]

ASSUME VaciaNoEsVenta == Vacia \notin Venta

Cobro == [venta : Ventas, tipo : {"pago", "reembolso"}, metodo : MetodosPago,
          monto : Nat, fecha : DiasReporte]

Registradas == {v \in Ventas : ventas[v] # Vacia}
Filas == Cardinality(Registradas) + Len(cobros) + Cardinality({c \in ClientesVenta : altas[c] # Vacia})

Saldo(v) == ventas[v].total - ventas[v].pagado
SumaDe(op(_), S) == MapThenSumSet(op, S)

\* _resolver_rango: the days from the first to the last, or Vacia for the 400.
PrimeroDe(inicios, dia) == Max({p \in inicios : p <= dia})
Lunes(dia) == dia - (dia % Semana)

Rango(periodo, desde, hasta) ==
    LET d == IF desde = Vacia THEN PrimeroDe(Primeros, hoy) ELSE desde
        h == IF hasta = Vacia THEN hoy ELSE hasta
    IN  CASE periodo = "hoy"    -> hoy..hoy
          [] periodo = "semana" -> Lunes(hoy)..hoy
          [] periodo = "mes"    -> PrimeroDe(Primeros, hoy)..hoy
          [] periodo = "anio"   -> PrimeroDe(Eneros, hoy)..hoy
          [] periodo = Vacia    -> IF d > h THEN Vacia ELSE d..h

\* _bucket
Grupo(dia, agrupar) ==
    CASE agrupar = "semana" -> Lunes(dia)
      [] agrupar = "mes"    -> PrimeroDe(Primeros, dia)
      [] agrupar = "dia"    -> dia

\* obtener_pagos, and the range; the service is the one the visit has now.
CobrosDe(rango, metodo, servicio) ==
    {i \in DOMAIN cobros :
        /\ metodo \in {Vacia, cobros[i].metodo}
        /\ servicio \in {Vacia, ventas[cobros[i].venta].servicio}
        /\ cobros[i].fecha \in rango}

Ingresado(S, tipo) == SumaDe(LAMBDA i : cobros[i].monto, {i \in S : cobros[i].tipo = tipo})

\* The variant forgets the refunds.
SinReembolsos(S) == Ingresado(S, "pago")

Neto(S) == Ingresado(S, "pago") - Ingresado(S, "reembolso")

\* reporte_ingresos: its serie is a function from the keys that occur.
ReporteIngresos(rango, agrupar, metodo, servicio) ==
    LET S == CobrosDe(rango, metodo, servicio)
        clave(i) == IF agrupar = "metodo_pago" THEN cobros[i].metodo
                    ELSE Grupo(cobros[i].fecha, agrupar)
        de(k) == {i \in S : clave(i) = k}
    IN  [ingresos |-> Ingresado(S, "pago"), reembolsos |-> Ingresado(S, "reembolso"),
         neto |-> Neto(S), numero |-> Cardinality(S),
         serie |-> [k \in {clave(i) : i \in S} |->
                       [ingresos |-> Ingresado(de(k), "pago"),
                        reembolsos |-> Ingresado(de(k), "reembolso"), neto |-> Neto(de(k))]]]

\* reporte_cuentas_por_cobrar
PorCobrar(antiguedad) ==
    {v \in Registradas : /\ ventas[v].estado \in EstadosCobrables
                         /\ Saldo(v) > 0
                         /\ antiguedad # Vacia => hoy - ventas[v].creada >= antiguedad}

TotalPendiente(antiguedad) == SumaDe(Saldo, PorCobrar(antiguedad))

\* relevantes, by creation and by visit.
Creadas(rango) == {v \in Registradas : ventas[v].creada \in rango}
Vendidas(rango) == {v \in Creadas(rango) : ventas[v].estado \in NoCancelados}
DeVisita(rango) == {v \in Registradas : ventas[v].visita \in rango}

\* reporte_ocupacion: one item for each service on sale.
ReporteOcupacion(rango) ==
    [s \in deVenta |->
        LET S == {v \in DeVisita(rango) : /\ ventas[v].estado \in NoCancelados
                                          /\ ventas[v].servicio = s}
        IN  [numero |-> Cardinality(S),
             personas |-> SumaDe(LAMBDA v : ventas[v].personas, S),
             porcentajes |-> IF Capacidad[s] = Vacia \/ S = {} THEN Vacia
                             ELSE SumaDe(LAMBDA v : (100 * ventas[v].personas) \div Capacidad[s], S)]]

Agregado(S, campo) ==
    [k \in {ventas[v][campo] : v \in S} |->
        LET de == {v \in S : ventas[v][campo] = k}
        IN  [numero |-> Cardinality(de), importe |-> SumaDe(LAMBDA v : ventas[v].total, de)]]

\* reporte_servicios_mas_vendidos and reporte_clientes_frecuentes, before the limit.
MasVendidos(rango) == Agregado(Vendidas(rango), "servicio")

Frecuentes(rango, minimo) ==
    LET todos == Agregado(Vendidas(rango), "cliente")
    IN  [c \in {c \in DOMAIN todos : todos[c].numero >= minimo} |-> todos[c]]

\* sorted(..., reverse=True)[:limit]: the keys that may be listed.
Listados(agregado, limite) ==
    {K \in SUBSET DOMAIN agregado :
        /\ Cardinality(K) = Min({limite, Cardinality(DOMAIN agregado)})
        /\ \A k \in K, otra \in DOMAIN agregado \ K : agregado[k].numero >= agregado[otra].numero}

\* reporte_reservaciones_por_estado
PorEstado(rango) ==
    [e \in EstadosVenta |-> Cardinality({v \in Creadas(rango) : ventas[v].estado = e})]

\* reporte_cancelaciones
ReporteCancelaciones(rango) ==
    LET canceladas == {v \in Creadas(rango) : ventas[v].estado = "cancelada"}
    IN  [total |-> Cardinality(Creadas(rango)), canceladas |-> Cardinality(canceladas),
         desglose |-> Agregado(canceladas, "servicio")]

\* reporte_tendencia_reservaciones and reporte_clientes_nuevos: their serie.
Serie(S, dia(_), agrupar) ==
    [k \in {Grupo(dia(x), agrupar) : x \in S} |->
        Cardinality({x \in S : Grupo(dia(x), agrupar) = k})]

Tendencia(rango, agrupar, estado) ==
    Serie({v \in Creadas(rango) : estado \in {Vacia, ventas[v].estado}},
          LAMBDA v : ventas[v].creada, agrupar)

ClientesNuevos(rango) == {c \in ClientesVenta : altas[c] # Vacia /\ altas[c] \in rango}

SerieClientes(rango, agrupar) == Serie(ClientesNuevos(rango), LAMBDA c : altas[c], agrupar)

\* reporte_proximas_reservaciones
Proximas(dias, estado) ==
    {v \in DeVisita(hoy..(hoy + dias)) : estado \in {Vacia, ventas[v].estado}}

-------------------------------------------------------------------------------
InitReportes ==
    /\ ventas = [v \in Ventas |-> Vacia]
    /\ cobros = << >>
    /\ altas = [c \in ClientesVenta |-> Vacia]
    /\ deVenta = ServiciosVenta
    /\ hoy = DiaInicial

\* The service is on sale and takes that many people.
Ofrece(s, personas) ==
    s \in deVenta /\ (Capacidad[s] # Vacia => personas <= Capacidad[s])

AltaCliente ==
    \E c \in ClientesVenta :
        /\ altas[c] = Vacia /\ Filas < MaxFilas
        /\ altas' = [altas EXCEPT ![c] = hoy]
        /\ UNCHANGED <<ventas, cobros, deVenta, hoy>>

\* desactivar: the API offers no way back.
DesactivarServicio ==
    \E s \in deVenta :
        /\ \A v \in Registradas : ventas[v].servicio = s => ventas[v].estado \notin EstadosCobrables
        /\ deVenta' = deVenta \ {s}
        /\ UNCHANGED <<ventas, cobros, altas, hoy>>

Vender ==
    \E v \in Ventas, c \in ClientesVenta, s \in ServiciosVenta,
       n \in 1..MaxPersonas, dia \in hoy..UltimoDia :
        /\ Filas < MaxFilas
        /\ ventas[v] = Vacia /\ altas[c] # Vacia /\ Ofrece(s, n)
        /\ ventas' = [ventas EXCEPT ![v] =
               [estado |-> "pendiente", servicio |-> s, cliente |-> c, personas |-> n,
                total |-> PrecioPersona * n, pagado |-> 0, creada |-> hoy, visita |-> dia]]
        /\ UNCHANGED <<cobros, altas, deVenta, hoy>>

\* actualizar: a total below what is paid is refused.
Editar ==
    \E v \in Registradas, s \in ServiciosVenta, n \in 1..MaxPersonas :
        /\ ventas[v].estado \in EstadosCobrables /\ Ofrece(s, n)
        /\ PrecioPersona * n >= ventas[v].pagado
        /\ ventas' = [ventas EXCEPT ![v].servicio = s, ![v].personas = n,
                                    ![v].total = PrecioPersona * n]
        /\ UNCHANGED <<cobros, altas, deVenta, hoy>>

\* cambiar_estado, check-in and check-out.
Mover ==
    \E v \in Registradas, nuevo \in EstadosVenta :
        /\ \/ ventas[v].estado = "pendiente" /\ nuevo = "confirmada"
           \/ ventas[v].estado \in {"pendiente", "confirmada"} /\ nuevo = "cancelada"
           \/ ventas[v].estado = "confirmada" /\ nuevo = "en_curso"
           \/ ventas[v].estado = "en_curso" /\ nuevo = "completada" /\ Saldo(v) <= 0
        /\ ventas' = [ventas EXCEPT ![v].estado = nuevo]
        /\ UNCHANGED <<cobros, altas, deVenta, hoy>>

\* func.now() is the beginning of the transaction, which lasts less than a day; the
\* variant dates a payment by the visit.
FechaDeVisita(v) == {ventas[v].visita}
FechaPago(v) == {hoy, hoy - 1} \cap DiaInicial..UltimoDia

\* registrar_pago
Cobrar ==
    \E v \in Registradas, m \in MetodosPago, monto \in 1..(PrecioPersona * MaxPersonas) :
        LET pagado == ventas[v].pagado + monto IN
        /\ Filas < MaxFilas
        /\ ventas[v].estado # "cancelada" /\ monto <= Saldo(v)
        /\ \E fecha \in FechaPago(v) :
              cobros' = Append(cobros, [venta |-> v, tipo |-> "pago", metodo |-> m,
                                        monto |-> monto, fecha |-> fecha])
        /\ ventas' = [ventas EXCEPT
               ![v].pagado = pagado,
               ![v].estado = IF @ = "pendiente" /\ pagado >= ventas[v].total THEN "confirmada" ELSE @]
        /\ UNCHANGED <<altas, deVenta, hoy>>

Reembolsar ==
    \E v \in Registradas, m \in MetodosPago, monto \in 1..(PrecioPersona * MaxPersonas) :
        /\ Filas < MaxFilas
        /\ monto <= ventas[v].pagado
        /\ \E fecha \in FechaPago(v) :
              cobros' = Append(cobros, [venta |-> v, tipo |-> "reembolso", metodo |-> m,
                                        monto |-> monto, fecha |-> fecha])
        /\ ventas' = [ventas EXCEPT ![v].pagado = @ - monto]
        /\ UNCHANGED <<altas, deVenta, hoy>>

Amanece ==
    /\ hoy < UltimoDia
    /\ hoy' = hoy + 1
    /\ UNCHANGED <<ventas, cobros, altas, deVenta>>

NextReportes ==
    \/ AltaCliente \/ DesactivarServicio \/ Vender \/ Editar \/ Mover
    \/ Cobrar \/ Reembolsar \/ Amanece

SpecReportes == InitReportes /\ [][NextReportes]_varsReportes

-------------------------------------------------------------------------------
\* Tables have their types.
TypeReportes ==
    /\ ventas \in [Ventas -> Venta \cup {Vacia}]
    /\ cobros \in Seq(Cobro)
    /\ altas \in [ClientesVenta -> DiasReporte \cup {Vacia}]
    /\ deVenta \subseteq ServiciosVenta
    /\ hoy \in DiasReporte

\* Before DiaInicial there is no row.
Rangos == {d..h : d \in DiaInicial..UltimoDia, h \in DiaInicial..UltimoDia}

\* The reports of reservations, each with its own filter, tell one story for every
\* range: each state of the count is the trend of that state; what sold by service,
\* what sold by client and the cancellations add up to the trend; the next visits
\* that are not cancelled are those the occupation counts, but for the services
\* withdrawn from sale (reporte_service.py:186-511).
ReportesCuadran ==
    /\ \A r \in Rangos :
        LET estados == PorEstado(r)
            bajas == ReporteCancelaciones(r)
            vendido == MasVendidos(r)
            frecuentes == Frecuentes(r, 1)
            total(f) == SumaDe(LAMBDA k : f[k], DOMAIN f)
            numero(a, K) == SumaDe(LAMBDA k : a[k].numero, K)
            importe(a, K) == SumaDe(LAMBDA k : a[k].importe, K)
        IN  /\ \A e \in EstadosVenta : total(Tendencia(r, "mes", e)) = estados[e]
            /\ total(Tendencia(r, "semana", Vacia)) = total(estados)
            /\ bajas.total = total(estados)
            /\ numero(bajas.desglose, DOMAIN bajas.desglose) = estados["cancelada"]
            /\ numero(vendido, DOMAIN vendido) + bajas.canceladas = bajas.total
            /\ \A K \in Listados(frecuentes, Cardinality(ClientesVenta)) :
                  /\ numero(frecuentes, K) = numero(vendido, DOMAIN vendido)
                  /\ importe(frecuentes, K) = importe(vendido, DOMAIN vendido)
            /\ total(SerieClientes(r, "semana")) = total(SerieClientes(r, "mes"))
            /\ DiaInicial \in r => DOMAIN frecuentes \subseteq ClientesNuevos(r)
    /\ \A dias \in {1, UltimoDia} :
        LET ocupacion == ReporteOcupacion(hoy..(hoy + dias))
        IN  SumaDe(LAMBDA s : ocupacion[s].numero, deVenta)
              = Cardinality({v \in Proximas(dias, Vacia) \ Proximas(dias, "cancelada") :
                                ventas[v].servicio \in deVenta})

\* The income adds up however it is cut, by week, month, method and service;
\* the key of each month is the report of that month; and over all the time the
\* net income is what the visits have as paid, so that what is owed is what was
\* sold less what came in (reporte_service.py:78-184).
IngresosCuadran ==
    LET siempre == ReporteIngresos(DiasReporte, "mes", Vacia, Vacia)
        mes(k) == {d \in DiasReporte : PrimeroDe(Primeros, d) = k}
    IN  /\ \A r \in Rangos :
            LET neto == Neto(CobrosDe(r, Vacia, Vacia))
            IN  /\ \A g \in {"semana", "metodo_pago"} :
                      LET rep == ReporteIngresos(r, g, Vacia, Vacia)
                      IN  neto = SumaDe(LAMBDA k : rep.serie[k].ingresos - rep.serie[k].reembolsos,
                                        DOMAIN rep.serie)
                /\ neto = SumaDe(LAMBDA s : ReporteIngresos(r, "dia", Vacia, s).neto, ServiciosVenta)
                /\ neto = SumaDe(LAMBDA m : ReporteIngresos(r, "dia", m, Vacia).neto, MetodosPago)
        /\ \A k \in DOMAIN siempre.serie :
              siempre.serie[k].neto = ReporteIngresos(mes(k), "dia", Vacia, Vacia).neto
        /\ siempre.neto = SumaDe(LAMBDA v : ventas[v].pagado, Registradas)
        /\ TotalPendiente(Vacia) + siempre.neto
              = SumaDe(LAMBDA v : ventas[v].total, {v \in Registradas : v \in PorCobrar(Vacia)})
                + SumaDe(LAMBDA v : ventas[v].pagado, Registradas \ PorCobrar(Vacia))

\* A day is closed when the next one has ended: no later payment, refund, edit or
\* cancellation changes the income reported for it.  The day that follows is left out
\* because a payment begun before midnight enters, when it commits, the cut of the
\* day before (pago.py, fecha_pago is now() of the server; reporte_service.py:96).
CorteCerrado ==
    [][\A r \in Rangos :
          (\A d \in r : d < hoy - 1) =>
              Neto(CobrosDe(r, Vacia, Vacia))' = Neto(CobrosDe(r, Vacia, Vacia))]_varsReportes
===============================================================================

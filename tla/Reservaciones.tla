---------------------------- MODULE Reservaciones -----------------------------
(***************************************************************************)
(* Reservations, their payments and the steps of the visit, as concurrent  *)
(* requests over PostgreSQL at READ COMMITTED.                             *)
(*                                                                         *)
(* A request is one SQLAlchemy session.  Its first step loads the row,     *)
(* makes every check of the handler on what it loaded and prepares the row *)
(* it wants; its second step flushes and commits.  Between the two any     *)
(* other request may commit.  Three handlers load the row with SELECT ...  *)
(* FOR UPDATE and so exclude every writer of that row until they commit.   *)
(* An UPDATE carries only the columns whose value changed in the session.  *)
(***************************************************************************)
EXTENDS Integers, FiniteSets, FiniteSetsExt

CONSTANTS
    Reservas,      \* identifiers the sequence of the table can hand out
    SinReserva,    \* no reservation
    Solicitudes,   \* requests in flight at the same time
    Nadie,         \* holder of a free row lock
    Unidades,      \* lodging units
    SinUnidad,     \* unidad_hospedaje_id IS NULL
    Dias,          \* calendar days
    Tipos,         \* the types of reservation in play
    Totales,       \* totals the price calculation may return
    Importes,      \* amounts of a payment
    MaxPagos       \* bound on the rows of table pagos

ASSUME ConstantesDeReservas ==
    /\ SinReserva \notin Reservas
    /\ Nadie \notin Solicitudes
    /\ SinUnidad \notin Unidades
    /\ Dias \subseteq Nat
    /\ Tipos \subseteq {"entrada", "camping", "hospedaje"}
    /\ Totales \subseteq Nat
    /\ Importes \subseteq Nat \ {0}
    /\ MaxPagos \in Nat

VARIABLES
    reservas,      \* table reservaciones
    pagos,         \* table pagos: [id, reserva, monto], refunds negative
    outbox,        \* unique event keys in outbox_events: <<type, aggregate>>
    candado,       \* holder of the row lock of each reservation
    sol            \* what each request has in hand

vars == <<reservas, pagos, outbox, candado, sol>>

-------------------------------------------------------------------------------
Activos    == {"pendiente", "confirmada", "en_curso"}
Terminales == {"completada", "cancelada"}
Estados    == Activos \cup Terminales

\* Changes PATCH /reservaciones/{id}/estado may make from each state.
TransicionesManuales ==
    [ausente |-> {}, pendiente |-> {"confirmada", "cancelada"},
     confirmada |-> {"cancelada"}, en_curso |-> {}, completada |-> {},
     cancelada |-> {}]

Hitos == {"reservation.created", "reservation.confirmed",
          "reservation.cancelled", "visit.completed"}

Claves == (Hitos \X Reservas) \cup ({"payment.recorded"} \X (1..MaxPagos))

Fila == [tipo : Tipos \cup {"ninguno"}, estado : Estados \cup {"ausente"},
         unidad : Unidades \cup {SinUnidad}, llegada : Nat, salida : Nat,
         total : Nat, pagado : Int]

Ausente == [tipo |-> "ninguno", estado |-> "ausente", unidad |-> SinUnidad,
            llegada |-> 0, salida |-> 0, total |-> 0, pagado |-> 0]

\* The handlers that load the row with FOR UPDATE.
Bloqueantes == {"pago", "check_in", "check_out"}

Peticion == [op : {"libre", "crear", "estado", "editar"} \cup Bloqueantes,
             id : Reservas \cup {SinReserva}, leida : Fila, nueva : Fila,
             hitos : SUBSET Hitos, monto : Int]

Libre == [op |-> "libre", id |-> SinReserva, leida |-> Ausente,
          nueva |-> Ausente, hitos |-> {}, monto |-> 0]

Existe(r) == reservas[r].estado # "ausente"

SaldoPendiente(f) == f.total - f.pagado

PagoCompleto(f) == SaldoPendiente(f) <= 0

\* Half-open ranges: the day one guest leaves another may arrive.
SeTraslapan(a1, s1, a2, s2) == a1 < s2 /\ a2 < s1

\* The friendly SELECT made before writing; `excluir` is the row being edited.
ExisteTraslape(unidad, llegada, salida, excluir) ==
    \E r \in Reservas \ {excluir} :
        /\ reservas[r].unidad = unidad
        /\ reservas[r].estado \in Activos
        /\ SeTraslapan(reservas[r].llegada, reservas[r].salida, llegada, salida)

\* A day visit ends the day it starts, anything else lasts a night at least.  The
\* variant lets it last none.
FechasLaxas(tipo, llegada, salida) ==
    IF tipo = "entrada" THEN llegada = salida ELSE llegada <= salida

FechasValidas(tipo, llegada, salida) ==
    IF tipo = "entrada" THEN llegada = salida ELSE llegada < salida

\* Only lodging has a unit, and only lodging looks for overlaps.
UnidadValida(tipo, unidad, llegada, salida, excluir) ==
    IF tipo = "hospedaje"
    THEN unidad \in Unidades /\ ~ExisteTraslape(unidad, llegada, salida, excluir)
    ELSE unidad = SinUnidad

-------------------------------------------------------------------------------
Init ==
    /\ reservas = [r \in Reservas |-> Ausente]
    /\ pagos = {}
    /\ outbox = {}
    /\ candado = [r \in Reservas |-> Nadie]
    /\ sol = [p \in Solicitudes |-> Libre]

\* SELECT ... FOR UPDATE: waits for the lock and keeps it until the end of the
\* transaction.  The faulty variant forgets FOR UPDATE.
SinForUpdate(p, r) == UNCHANGED candado

TomaCandado(p, r) ==
    /\ candado[r] = Nadie
    /\ candado' = [candado EXCEPT ![r] = p]

Suelta(p) == candado' = [r \in Reservas |-> IF candado[r] = p THEN Nadie ELSE candado[r]]

\* The request keeps what it read and what it is going to write.
Prepara(p, op, r, nueva, hitos, monto) ==
    /\ sol[p] = Libre
    /\ sol' = [sol EXCEPT ![p] =
                  [op |-> op, id |-> r,
                   leida |-> IF r = SinReserva THEN Ausente ELSE reservas[r],
                   nueva |-> nueva, hitos |-> hitos, monto |-> monto]]
    /\ UNCHANGED <<reservas, pagos, outbox>>

\* ReservacionService.crear up to the INSERT.
Crear(p) ==
    \E tipo \in Tipos, unidad \in Unidades \cup {SinUnidad},
       llegada \in Dias, salida \in Dias, total \in Totales :
        /\ FechasValidas(tipo, llegada, salida)
        /\ UnidadValida(tipo, unidad, llegada, salida, SinReserva)
        /\ Prepara(p, "crear", SinReserva,
                   [tipo |-> tipo, estado |-> "pendiente", unidad |-> unidad,
                    llegada |-> llegada, salida |-> salida, total |-> total,
                    pagado |-> 0],
                   {"reservation.created"}, 0)
        /\ UNCHANGED candado

\* ReservacionService.cambiar_estado: the row is read without a lock.
CambiarEstado(p) ==
    \E r \in Reservas :
        \E nuevo \in TransicionesManuales[reservas[r].estado] :
            /\ Prepara(p, "estado", r, [reservas[r] EXCEPT !.estado = nuevo],
                       IF nuevo = "confirmada" THEN {"reservation.confirmed"}
                                               ELSE {"reservation.cancelled"}, 0)
            /\ UNCHANGED candado

\* ReservacionService.actualizar: the row is read without a lock too.  An edit
\* that changes nothing issues no UPDATE and is left out.
Actualizar(p) ==
    \E r \in Reservas, unidad \in Unidades \cup {SinUnidad},
       llegada \in Dias, salida \in Dias, total \in Totales :
        LET f == reservas[r]
            n == [f EXCEPT !.unidad = unidad, !.llegada = llegada,
                           !.salida = salida, !.total = total]
        IN  /\ f.estado \in Activos
            /\ FechasValidas(f.tipo, llegada, salida)
            /\ UnidadValida(f.tipo, unidad, llegada, salida, r)
            /\ total >= f.pagado
            /\ n # f
            /\ Prepara(p, "editar", r, n, {}, 0)
            /\ UNCHANGED candado

\* What PagoService.registrar_pago makes of the row it has locked.  The sign
\* of monto tells payments from refunds.
ConPago(f, monto) ==
    [f EXCEPT !.pagado = f.pagado + monto,
              !.estado = IF f.estado = "pendiente" /\ f.pagado + monto >= f.total
                         THEN "confirmada" ELSE f.estado]

RegistrarPago(p) ==
    \E r \in Reservas, importe \in Importes, tipo \in {"abono", "reembolso"} :
        LET f == reservas[r]
            monto == IF tipo = "reembolso" THEN -importe ELSE importe
            n == ConPago(f, monto)
        IN  /\ Existe(r)
            /\ f.estado = "cancelada" => tipo = "reembolso"
            /\ IF tipo = "reembolso" THEN importe <= f.pagado
                                     ELSE importe <= SaldoPendiente(f)
            /\ TomaCandado(p, r)
            /\ Prepara(p, "pago", r, n,
                       IF n.estado # f.estado THEN {"reservation.confirmed"} ELSE {},
                       monto)

\* FlujoVisitaService.check_in: no domain event.
CheckIn(p) ==
    \E r \in Reservas :
        /\ reservas[r].estado = "confirmada"
        /\ TomaCandado(p, r)
        /\ Prepara(p, "check_in", r, [reservas[r] EXCEPT !.estado = "en_curso"], {}, 0)

\* FlujoVisitaService.check_out.
CheckOut(p) ==
    \E r \in Reservas :
        /\ reservas[r].estado = "en_curso"
        /\ PagoCompleto(reservas[r])
        /\ TomaCandado(p, r)
        /\ Prepara(p, "check_out", r, [reservas[r] EXCEPT !.estado = "completada"],
                   {"visit.completed"}, 0)

-------------------------------------------------------------------------------
\* One column of an UPDATE: written only if the session changed it.  The
\* faulty variant writes every column it loaded.
EscribeTodo(actual, leida, nueva) == nueva

Escribe(actual, leida, nueva) == IF nueva # leida THEN nueva ELSE actual

Fusiona(a, l, n) ==
    [tipo    |-> a.tipo,
     estado  |-> Escribe(a.estado, l.estado, n.estado),
     unidad  |-> Escribe(a.unidad, l.unidad, n.unidad),
     llegada |-> Escribe(a.llegada, l.llegada, n.llegada),
     salida  |-> Escribe(a.salida, l.salida, n.salida),
     total   |-> Escribe(a.total, l.total, n.total),
     pagado  |-> Escribe(a.pagado, l.pagado, n.pagado)]

\* EXCLUDE USING gist of table reservaciones: row f, stored under r, overlaps
\* no other active row of its unit.  An empty range overlaps nothing, and
\* daterange rejects bounds in the wrong order.
SinExclusion(r, f) == TRUE

RespetaExclusion(r, f) ==
    (f.unidad # SinUnidad /\ f.estado \in Activos)
    => /\ f.llegada <= f.salida
       /\ \A q \in Reservas \ {r} :
             ~ /\ reservas[q].unidad = f.unidad
               /\ reservas[q].estado \in Activos
               /\ reservas[q].llegada < reservas[q].salida
               /\ f.llegada < f.salida
               /\ SeTraslapan(reservas[q].llegada, reservas[q].salida,
                              f.llegada, f.salida)

\* UNIQUE(event_key).
SinUnicidad(r, hitos) == TRUE

ClavesNuevas(r, hitos) == (hitos \X {r}) \cap outbox = {}

\* flush and commit of the INSERT made by crear.
Insertar(p) ==
    \E r \in Reservas :
        LET s == sol[p] IN
        /\ s.op = "crear"
        /\ ~Existe(r)
        /\ RespetaExclusion(r, s.nueva)
        /\ ClavesNuevas(r, s.hitos)
        /\ reservas' = [reservas EXCEPT ![r] = s.nueva]
        /\ outbox' = outbox \cup (s.hitos \X {r})
        /\ sol' = [sol EXCEPT ![p] = Libre]
        /\ UNCHANGED <<pagos, candado>>

\* flush and commit of the UPDATE made by any other handler, with the payment
\* and the events it adds.  The UPDATE waits while another session holds the
\* row.
Confirmar(p) ==
    LET s == sol[p]
        r == s.id
        f == Fusiona(reservas[r], s.leida, s.nueva)
        n == Cardinality(pagos) + 1
    IN  /\ s.op \notin {"libre", "crear"}
        /\ candado[r] \in {Nadie, p}
        /\ RespetaExclusion(r, f)
        /\ f.pagado >= 0
        /\ ClavesNuevas(r, s.hitos)
        /\ s.op = "pago" => n <= MaxPagos
        /\ reservas' = [reservas EXCEPT ![r] = f]
        /\ pagos' = pagos \cup (IF s.op = "pago"
                                THEN {[id |-> n, reserva |-> r, monto |-> s.monto]}
                                ELSE {})
        /\ outbox' = outbox \cup (s.hitos \X {r})
                            \cup (IF s.op = "pago" THEN {<<"payment.recorded", n>>} ELSE {})
        /\ Suelta(p)
        /\ sol' = [sol EXCEPT ![p] = Libre]

\* The request ends without effect: a constraint refused it, an exception, or
\* the process died.  The database drops its transaction and its lock.
Revertir(p) ==
    /\ sol[p].op # "libre"
    /\ Suelta(p)
    /\ sol' = [sol EXCEPT ![p] = Libre]
    /\ UNCHANGED <<reservas, pagos, outbox>>

Next ==
    \E p \in Solicitudes :
        \/ Crear(p) \/ CambiarEstado(p) \/ Actualizar(p) \/ RegistrarPago(p)
        \/ CheckIn(p) \/ CheckOut(p)
        \/ Insertar(p) \/ Confirmar(p) \/ Revertir(p)

Spec == Init /\ [][Next]_vars

-------------------------------------------------------------------------------
\* The rows, keys, locks and requests have their types.
TypeOK ==
    /\ reservas \in [Reservas -> Fila]
    /\ pagos \subseteq [id : 1..MaxPagos, reserva : Reservas, monto : Int]
    /\ IsFiniteSet(pagos)
    /\ outbox \subseteq Claves
    /\ candado \in [Reservas -> Solicitudes \cup {Nadie}]
    /\ sol \in [Solicitudes -> Peticion]

\* No unit is given twice on the same night: two active reservations of one
\* unit never overlap, whatever requests create, edit, confirm or revive rows
\* at the same time.
SinDobleReserva ==
    \A r, q \in Reservas :
        (/\ r # q
         /\ reservas[r].unidad = reservas[q].unidad
         /\ reservas[r].unidad # SinUnidad
         /\ reservas[r].estado \in Activos
         /\ reservas[q].estado \in Activos
         /\ reservas[r].llegada < reservas[r].salida
         /\ reservas[q].llegada < reservas[q].salida)
        => ~SeTraslapan(reservas[r].llegada, reservas[r].salida,
                        reservas[q].llegada, reservas[q].salida)

\* The money of a reservation is the sum of its payments minus its refunds: no
\* edit or change of state that read the row earlier undoes a payment.
SaldoConservado ==
    \A r \in Reservas :
        reservas[r].pagado =
            MapThenSumSet(LAMBDA x : x.monto, {x \in pagos : x.reserva = r})

\* A payment is accepted only on a reservation that is not cancelled at the
\* moment it commits, and never raises what was paid above the total of that
\* moment; a refund never returns more than was paid.
CobroDebido(r) ==
    Existe(r)
    => /\ reservas'[r].pagado > reservas[r].pagado
          => /\ reservas[r].estado # "cancelada"
             /\ reservas'[r].pagado <= reservas'[r].total
       /\ reservas'[r].pagado < reservas[r].pagado
          => reservas'[r].pagado >= 0

\* What was paid passes the total only at the commit of an edit that had read less
\* as paid than there is by then (reservacion_service.py:382).
SobrepagoSoloPorEdicion(r) ==
    (reservas[r].pagado <= reservas[r].total /\ reservas'[r].pagado > reservas'[r].total)
    => \E p \in Solicitudes :
          /\ sol[p].op = "editar" /\ sol[p].id = r /\ sol'[p] = Libre
          /\ sol[p].leida.pagado < reservas[r].pagado

\* Payments and refunds of any interleaving respect the state, the total and the
\* balance that hold when they commit, and only a stale edit leaves a reservation
\* for which more was paid than it costs (registrar_pago, actualizar).
CobroLegitimo ==
    [][\A r \in Reservas : CobroDebido(r) /\ SobrepagoSoloPorEdicion(r)]_vars

\* Check-out happens only to a visitor who is in the park and owes nothing at
\* that moment; check-in only to a confirmed reservation.
VisitaEnOrden ==
    [][\A r \in Reservas :
          reservas'[r].estado # reservas[r].estado
          => /\ reservas'[r].estado = "en_curso" => reservas[r].estado = "confirmada"
             /\ reservas'[r].estado = "completada"
                => reservas[r].estado = "en_curso" /\ PagoCompleto(reservas[r])]_vars

\* The documented rule that completada and cancelada never change; requests
\* that overlap break it.
TerminalesFijos ==
    [][\A r \in Reservas :
          reservas[r].estado \in Terminales
          => reservas'[r].estado = reservas[r].estado]_vars

\* The rule behind the 409 of actualizar: a total is never below what was
\* already paid; a payment that overlaps an edit breaks it.
TotalCubrePagado == \A r \in Reservas : reservas[r].pagado <= reservas[r].total

\* The rule behind the 400 of actualizar: camping and lodging last at least a
\* night, a day visit ends the day it starts; two edits that overlap break it.
EstanciaDe(f) ==
    f.estado # "ausente" => IF f.tipo = "entrada" THEN f.llegada = f.salida
                                                  ELSE f.llegada < f.salida

EstanciaValida == \A r \in Reservas : EstanciaDe(reservas[r])

\* The dates of a stay stop being valid only at the commit of an edit that had
\* read others than there are by then: each edit writes the columns that it
\* changed, and alone it leaves a valid pair (reservacion_service.py:355).
EstanciaInvalidaSoloPorCarrera ==
    [][\A r \in Reservas :
          EstanciaDe(reservas[r]) /\ ~EstanciaDe(reservas'[r])
          => \E p \in Solicitudes :
                /\ sol[p].op = "editar" /\ sol[p].id = r /\ sol'[p] = Libre
                /\ \/ sol[p].leida.llegada # reservas[r].llegada
                   \/ sol[p].leida.salida # reservas[r].salida]_vars

\* A handler that locked its row still sees the row it read.
LecturaVigente ==
    \A p \in Solicitudes :
        sol[p].op \in Bloqueantes
        => /\ sol[p].id \in Reservas
           /\ candado[sol[p].id] = p
           /\ sol[p].leida = reservas[sol[p].id]

\* What a handler is about to write follows from what it read.
Coherente(s) ==
    LET l == s.leida  n == s.nueva IN
    /\ s.op = "crear" =>
          /\ n.estado = "pendiente" /\ n.pagado = 0
          /\ s.hitos = {"reservation.created"}
    /\ s.op \notin {"libre", "crear"} => l.estado # "ausente"
    /\ s.op = "estado" =>
          /\ n.estado \in TransicionesManuales[l.estado]
          /\ n.pagado = l.pagado
          /\ s.hitos = IF n.estado = "confirmada" THEN {"reservation.confirmed"}
                                                  ELSE {"reservation.cancelled"}
    /\ s.op = "editar" =>
          n.estado = l.estado /\ n.pagado = l.pagado /\ s.hitos = {}
    /\ s.op = "pago" =>
          /\ n = ConPago(l, s.monto)
          /\ s.monto > 0 => l.estado # "cancelada" /\ s.monto <= SaldoPendiente(l)
          /\ s.hitos = IF n.estado # l.estado THEN {"reservation.confirmed"} ELSE {}
    /\ s.op = "check_in" =>
          /\ l.estado = "confirmada" /\ n.estado = "en_curso"
          /\ n.pagado = l.pagado /\ s.hitos = {}
    /\ s.op = "check_out" =>
          /\ l.estado = "en_curso" /\ PagoCompleto(l)
          /\ n.estado = "completada" /\ n.pagado = l.pagado
          /\ s.hitos = {"visit.completed"}

PeticionCoherente ==
    \A p \in Solicitudes :
        /\ Coherente(sol[p])
        /\ sol[p].op \notin {"libre", "crear"} => sol[p].id \in Reservas /\ Existe(sol[p].id)

\* A reservation that is in a state has announced the way to it.
HitosRegistrados ==
    \A r \in Reservas :
        /\ Existe(r) => <<"reservation.created", r>> \in outbox
        /\ reservas[r].estado \in {"confirmada", "en_curso", "completada"}
              => <<"reservation.confirmed", r>> \in outbox
        /\ reservas[r].estado = "cancelada" => <<"reservation.cancelled", r>> \in outbox

\* The inductive invariant behind the theorems of ReservacionesProofs: what a
\* request in flight knows is still true, and states and events agree.
Coherencia == TypeOK /\ LecturaVigente /\ PeticionCoherente /\ HitosRegistrados

\* What the life of a reservation looks like from outside (CicloReserva).
Avisos == outbox \cap (Hitos \X Reservas)

\* The changes of state that are only possible because cambiar_estado writes
\* on the strength of an earlier read.
CarrerasDeEstado ==
    { <<"en_curso", "cancelada">>, <<"completada", "cancelada">>,
      <<"cancelada", "confirmada">> }

CicloConcurrente == INSTANCE CicloReserva
    WITH Anomalias <- CarrerasDeEstado,
         estado <- [r \in Reservas |-> reservas[r].estado], avisos <- Avisos

\* With any interleaving of requests a reservation leaves the documented life
\* cycle only by the three stale changes, and still announces each milestone
\* in the same commit and at most once.
ImplementaCicloConcurrente == CicloConcurrente!CicloSpec
===============================================================================

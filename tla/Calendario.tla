-------------------------------- MODULE Calendario --------------------------------
(***************************************************************************)
(* Operational blocks of the park and of its units, the stays they must    *)
(* keep away, and the calendar and availability the portal shows.          *)
(*                                                                         *)
(* The routes that create or edit a reservation look for a block first and *)
(* write later, in another statement of the same request; no constraint    *)
(* joins the two tables.  Only other stays of the unit are excluded by the *)
(* database.                                                               *)
(***************************************************************************)
EXTENDS Integers, FiniteSets, FiniteSetsExt

CONSTANTS
    Unidades,       \* lodging units
    Parque,         \* unidad_hospedaje_id NULL: the whole park, or no unit
    Solicitantes,   \* requests in flight at the same time
    TiposVisita,    \* of "entrada", "camping", "hospedaje"
    CamposEditables,  \* sets of columns one edit may send
    MaxDia,         \* bound on the dates
    MaxEventos,     \* bound on the rows ever inserted in eventos_calendario
    MaxEstancias    \* bound on the rows of reservaciones

ASSUME ConstantesDelCalendario ==
    /\ Parque \notin Unidades
    /\ TiposVisita \subseteq {"entrada", "camping", "hospedaje"}
    /\ CamposEditables \subseteq SUBSET {"llegada", "salida", "unidad"}
    /\ {MaxDia, MaxEventos, MaxEstancias} \subseteq Nat

VARIABLES
    eventos,        \* table eventos_calendario, by id
    ultimoEvento,   \* last id handed out
    estancias,      \* table reservaciones
    tramite         \* what each request has in hand

varsCalendario == <<eventos, ultimoEvento, estancias, tramite>>

-------------------------------------------------------------------------------
Dias == 0..MaxDia

Eventos == 1..MaxEventos

Estancias == 1..MaxEstancias

\* mantenimiento, recordatorio and campana stay out of every query: "nota".
Evento == [existe : BOOLEAN, tipo : {"bloqueo", "nota"}, inicio : Dias, fin : Dias,
           unidad : Unidades \cup {Parque}]

SinEvento == [existe |-> FALSE, tipo |-> "nota", inicio |-> 0, fin |-> 0,
              unidad |-> Parque]

\* activa: estado in ESTADOS_ACTIVOS.  visto is a history variable: the last block
\* that the check of these dates could see, -1 if no check saw them together.
Estancia == [existe : BOOLEAN, activa : BOOLEAN,
             tipo : {"entrada", "camping", "hospedaje"}, llegada : Dias,
             salida : Dias, unidad : Unidades \cup {Parque}, visto : -1..MaxEventos]

SinEstancia == [existe |-> FALSE, activa |-> FALSE, tipo |-> "entrada", llegada |-> 0,
                salida |-> 0, unidad |-> Parque, visto |-> 0]

Tramite == [op : {"libre", "crear", "editar"}, id : Estancias \cup {0},
            leida : Estancia, fila : Estancia]

SinTramite == [op |-> "libre", id |-> 0, leida |-> SinEstancia, fila |-> SinEstancia]

\* fechas_y_unidad_consistentes
Consistente(e) ==
    /\ IF e.tipo = "entrada" THEN e.salida = e.llegada ELSE e.salida > e.llegada
    /\ e.tipo = "hospedaje" <=> e.unidad # Parque

\* The nights that a block takes, against the nights of a stay: the day of
\* departure is free, the day of arrival is not.
Choca(b, e) ==
    IF e.tipo = "entrada" THEN b.inicio <= e.llegada /\ b.fin >= e.llegada
    ELSE b.inicio < e.salida /\ b.fin >= e.llegada

\* buscar_traslape: the blocks it may return.
BuscarTraslape(e) ==
    {i \in Eventos :
        /\ eventos[i].existe /\ eventos[i].tipo = "bloqueo"
        /\ eventos[i].unidad \in {Parque, e.unidad}
        /\ Choca(eventos[i], e)}

\* existe_traslape_unidad_hospedaje
Ocupada(e, menos) ==
    /\ e.unidad # Parque
    /\ \E r \in Estancias \ {menos} :
        /\ estancias[r].existe /\ estancias[r].activa
        /\ estancias[r].unidad = e.unidad
        /\ estancias[r].llegada < e.salida /\ e.llegada < estancias[r].salida

\* EXCLUDE over daterange, which is empty between equal dates and refuses them in
\* the wrong order.
RespetaRangos(e, menos) ==
    (e.activa /\ e.unidad # Parque) =>
        /\ e.llegada <= e.salida
        /\ e.llegada < e.salida =>
              ~\E r \in Estancias \ {menos} :
                  /\ estancias[r].existe /\ estancias[r].activa
                  /\ estancias[r].unidad = e.unidad
                  /\ Max({estancias[r].llegada, e.llegada}) < Min({estancias[r].salida, e.salida})

\* GET /disponibilidad, of a stay [a, b) in unit u.
Disponible(u, a, b) ==
    LET e == [SinEstancia EXCEPT !.tipo = "hospedaje", !.llegada = a, !.salida = b,
                                 !.unidad = u]
    IN  BuscarTraslape(e) = {} /\ ~Ocupada(e, 0)

\* Last night of a stay: the day before its departure.  The variant shows the
\* day of departure as taken.
ConSalida(r) == estancias[r].salida

UltimaNoche(r) == estancias[r].salida - 1

\* listar_periodos_no_disponibles
Periodos(u, desde, hasta) ==
    LET ocupados ==
            {r \in Estancias :
                /\ estancias[r].existe /\ estancias[r].activa /\ estancias[r].unidad = u
                /\ estancias[r].llegada <= hasta /\ estancias[r].salida > desde
                /\ Max({estancias[r].llegada, desde}) <= Min({UltimaNoche(r), hasta})}
        bloqueos ==
            {i \in Eventos :
                /\ eventos[i].existe /\ eventos[i].tipo = "bloqueo"
                /\ eventos[i].inicio <= hasta /\ eventos[i].fin >= desde
                /\ eventos[i].unidad \in {Parque, u}}
    IN  {[inicio |-> Max({estancias[r].llegada, desde}),
          fin |-> Min({UltimaNoche(r), hasta})] : r \in ocupados}
        \cup {[inicio |-> Max({eventos[i].inicio, desde}),
               fin |-> Min({eventos[i].fin, hasta})] : i \in bloqueos}

-------------------------------------------------------------------------------
InitCalendario ==
    /\ eventos = [i \in Eventos |-> SinEvento]
    /\ ultimoEvento = 0
    /\ estancias = [r \in Estancias |-> SinEstancia]
    /\ tramite = [p \in Solicitantes |-> SinTramite]

CrearEvento ==
    \E tipo \in {"bloqueo", "nota"}, inicio, fin \in Dias, u \in Unidades \cup {Parque} :
        /\ ultimoEvento < MaxEventos
        /\ fin >= inicio
        /\ u # Parque => tipo = "bloqueo"
        /\ ultimoEvento' = ultimoEvento + 1
        /\ eventos' = [eventos EXCEPT ![ultimoEvento'] =
              [existe |-> TRUE, tipo |-> tipo, inicio |-> inicio, fin |-> fin, unidad |-> u]]
        /\ UNCHANGED <<estancias, tramite>>

EliminarEvento ==
    \E i \in Eventos :
        /\ eventos[i].existe
        /\ eventos' = [eventos EXCEPT ![i] = SinEvento]
        /\ UNCHANGED <<ultimoEvento, estancias, tramite>>

\* validar_disponibilidad, and the check of occupation of the service.  The variant
\* asks for blocks only when a reservation is created.
SoloAlCrear(e, menos) == (menos = 0 => BuscarTraslape(e) = {}) /\ ~Ocupada(e, menos)

SinConflicto(e, menos) == BuscarTraslape(e) = {} /\ ~Ocupada(e, menos)

\* POST /reservaciones, of the back office and of the portal, up to the INSERT.
PedirEstancia(p) ==
    \E tipo \in TiposVisita, a, b \in Dias, u \in Unidades \cup {Parque} :
        LET e == [existe |-> TRUE, activa |-> TRUE, tipo |-> tipo, llegada |-> a,
                  salida |-> b, unidad |-> u, visto |-> ultimoEvento]
        IN  /\ tramite[p].op = "libre"
            /\ Consistente(e)
            /\ SinConflicto(e, 0)
            /\ tramite' = [tramite EXCEPT ![p] = [SinTramite EXCEPT !.op = "crear",
                                                                    !.fila = e]]
            /\ UNCHANGED <<eventos, ultimoEvento, estancias>>

GuardarEstancia(p) ==
    \E r \in Estancias :
        /\ tramite[p].op = "crear"
        /\ ~estancias[r].existe
        /\ \A s \in 1..(r - 1) : estancias[s].existe
        /\ RespetaRangos(tramite[p].fila, 0)
        /\ estancias' = [estancias EXCEPT ![r] = tramite[p].fila]
        /\ tramite' = [tramite EXCEPT ![p] = SinTramite]
        /\ UNCHANGED <<eventos, ultimoEvento>>

\* PUT /reservaciones/{id} up to the UPDATE: the row is read once, without a lock.
PedirEdicion(p) ==
    \E r \in Estancias, campos \in CamposEditables, a, b \in Dias, u \in Unidades :
        LET leida == estancias[r]
            fila == [leida EXCEPT
                        !.llegada = IF "llegada" \in campos THEN a ELSE @,
                        !.salida = IF "salida" \in campos THEN b ELSE @,
                        !.unidad = IF "unidad" \in campos THEN u ELSE @,
                        !.visto = ultimoEvento]
        IN  /\ tramite[p].op = "libre"
            /\ leida.existe /\ leida.activa
            /\ Consistente(fila)
            /\ SinConflicto(fila, r)
            /\ tramite' = [tramite EXCEPT ![p] = [op |-> "editar", id |-> r,
                                                  leida |-> leida, fila |-> fila]]
            /\ UNCHANGED <<eventos, ultimoEvento, estancias>>

\* The columns that changed go over the row as it is now.
Mezcla(p) ==
    LET r == estancias[tramite[p].id]
        leida == tramite[p].leida
        fila == tramite[p].fila
    IN  [r EXCEPT
            !.llegada = IF fila.llegada # leida.llegada THEN fila.llegada ELSE @,
            !.salida = IF fila.salida # leida.salida THEN fila.salida ELSE @,
            !.unidad = IF fila.unidad # leida.unidad THEN fila.unidad ELSE @,
            !.visto = IF r = leida THEN fila.visto ELSE -1]

\* One UPDATE under the constraint of the table.
GuardarEdicion(p) ==
    LET fila == Mezcla(p) IN
    /\ tramite[p].op = "editar"
    /\ RespetaRangos(fila, tramite[p].id)
    /\ estancias' = [estancias EXCEPT ![tramite[p].id] = fila]
    /\ tramite' = [tramite EXCEPT ![p] = SinTramite]
    /\ UNCHANGED <<eventos, ultimoEvento>>

\* A cancellation or a check-out frees the dates.
TerminarEstancia ==
    \E r \in Estancias :
        /\ estancias[r].existe /\ estancias[r].activa
        /\ estancias' = [estancias EXCEPT ![r].activa = FALSE]
        /\ UNCHANGED <<eventos, ultimoEvento, tramite>>

\* A refusal, an error or a crash before the commit.
Abandonar(p) ==
    /\ tramite[p].op # "libre"
    /\ tramite' = [tramite EXCEPT ![p] = SinTramite]
    /\ UNCHANGED <<eventos, ultimoEvento, estancias>>

NextCalendario ==
    \/ CrearEvento \/ EliminarEvento \/ TerminarEstancia
    \/ \E p \in Solicitantes :
        \/ PedirEstancia(p) \/ GuardarEstancia(p)
        \/ PedirEdicion(p) \/ GuardarEdicion(p) \/ Abandonar(p)

SpecCalendario == InitCalendario /\ [][NextCalendario]_varsCalendario

-------------------------------------------------------------------------------
\* Rows and requests have their types, and blocks never end before they begin.
TypeCalendario ==
    /\ eventos \in [Eventos -> Evento]
    /\ ultimoEvento \in 0..MaxEventos
    /\ estancias \in [Estancias -> Estancia]
    /\ tramite \in [Solicitantes -> Tramite]
    /\ \A i \in Eventos : eventos[i].inicio <= eventos[i].fin

\* The two answers of the portal agree, although they are computed apart, one
\* with open intervals in SQL and the other with days cut to the visible month:
\* a stay within the range is available exactly when it touches no shown period
\* (publico_service.py:51, bloqueo_operativo_service.py:31).  A stay left without
\* nights by two overlapping edits is excepted: it shows no period and still
\* refuses whoever sleeps over it.
CalendarioFiel ==
    (\A r \in Estancias : estancias[r].unidad # Parque => UltimaNoche(r) >= estancias[r].llegada) =>
    \A u \in Unidades, desde, hasta, a, b \in Dias :
        (desde <= a /\ a < b /\ b - 1 <= hasta) =>
            (Disponible(u, a, b)
                <=> \A d \in Periodos(u, desde, hasta) : d.fin < a \/ d.inicio >= b)

\* Stays created or edited while blocks come and go lie on a block only if it is
\* younger than the check of their dates.  Rows that mix the columns of two
\* overlapping edits are excepted: no check saw their dates together
\* (reservacion_routes.py:32, 108, publico_routes.py:112).
BloqueoRespetado ==
    \A r \in Estancias :
        (estancias[r].existe /\ estancias[r].activa /\ estancias[r].visto # -1) =>
            \A i \in BuscarTraslape(estancias[r]) : i > estancias[r].visto
===============================================================================

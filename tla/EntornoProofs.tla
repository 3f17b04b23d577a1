---- MODULE EntornoProofs ----
(***************************************************************************)
(* Theorems about the modules around the reservation: the calendar of      *)
(* operational blocks (Calendario), the reports (Reportes), the dashboard  *)
(* (Tablero), the prices (Tarifas), the rate limiters (Limitadores), the   *)
(* marketing client (Mercadeo) and the metrics (Metricas).  Each section   *)
(* opens with what its invariant adds to the property it is for.           *)
(***************************************************************************)
EXTENDS Calendario, Tablero, Tarifas, Limitadores, Mercadeo, Metricas, Sumas,
        SequenceTheorems

-------------------------------------------------------------------------------
\* The calendar.

\* What a block can hit in a stay; the rest of the row does not matter to it.
MismoLugar(e, d) ==
    e.tipo = d.tipo /\ e.llegada = d.llegada /\ e.salida = d.salida /\ e.unidad = d.unidad

\* No block of the table that the check of a stay could see hits it.
Comprobada(e) ==
    /\ e.visto <= ultimoEvento
    /\ e.visto # -1 => \A i \in Eventos : i \in BuscarTraslape(e) => i > e.visto

\* Ids are handed out in order; what a request will write was checked, and an edit
\* keeps the kind of the visit.
EnTramite ==
    /\ \A i \in Eventos : eventos[i].existe => i <= ultimoEvento
    /\ \A p \in Solicitantes :
          /\ tramite[p].op # "libre" => Comprobada(tramite[p].fila)
          /\ tramite[p].op = "editar" =>
                tramite[p].id \in Estancias /\ tramite[p].fila.tipo = tramite[p].leida.tipo

Estadias == \A r \in Estancias : Comprobada(estancias[r])

InvCalendario == TypeCalendario /\ EnTramite /\ Estadias

LEMMA ConstantesCalendario ==
    /\ MaxDia \in Nat /\ MaxEventos \in Nat /\ MaxEstancias \in Nat
    /\ Parque \notin Unidades
    /\ 0 \in Dias /\ Dias \subseteq Nat /\ Eventos \subseteq Nat
    /\ 0 \in -1..MaxEventos /\ -1 \in -1..MaxEventos
  BY ConstantesDelCalendario DEF Dias, Eventos

LEMMA VaciosCalendario ==
    SinEvento \in Evento /\ SinEstancia \in Estancia /\ SinTramite \in Tramite
  <1>1. SinEvento \in Evento /\ SinEstancia \in Estancia
    BY ConstantesCalendario DEF SinEvento, Evento, SinEstancia, Estancia
  <1>2. QED
    BY <1>1 DEF SinTramite, Tramite


\* A block appears with an id that no check has seen.
BloquesNuevos ==
    /\ ultimoEvento' \in Nat /\ ultimoEvento <= ultimoEvento'
    /\ \A i \in Eventos : eventos'[i].existe =>
          /\ i <= ultimoEvento'
          /\ eventos'[i] = eventos[i] \/ i > ultimoEvento

\* What was checked stays checked.
LEMMA ComprobadaQueda ==
    ASSUME TypeCalendario, EnTramite, BloquesNuevos, NEW e, e.visto \in Int, Comprobada(e)
    PROVE  Comprobada(e)'
  <1>1. ultimoEvento \in Nat /\ \A i \in Eventos : i \in Int
    BY ConstantesCalendario DEF TypeCalendario
  <1>2. e.visto <= ultimoEvento'
    BY <1>1 DEF Comprobada, BloquesNuevos
  <1>3. ASSUME e.visto # -1, NEW i \in Eventos, i \in BuscarTraslape(e)'
        PROVE  i > e.visto
    <2>1. eventos'[i].existe
      BY <1>3 DEF BuscarTraslape
    <2>2. CASE eventos'[i] = eventos[i]
      BY <1>3, <2>2 DEF BuscarTraslape, Choca, Comprobada
    <2>3. CASE i > ultimoEvento
      BY <1>1, <2>3 DEF Comprobada
    <2>4. QED
      BY <2>1, <2>2, <2>3 DEF BloquesNuevos
  <1>4. QED
    BY <1>2, <1>3 DEF Comprobada

LEMMA SinBloquesNuevos ==
    ASSUME TypeCalendario, EnTramite, UNCHANGED <<eventos, ultimoEvento>>
    PROVE  BloquesNuevos
  BY ConstantesCalendario DEF TypeCalendario, EnTramite, BloquesNuevos

\* A step keeps the invariant when the rows and the requests it leaves were
\* there before, or were checked.
LEMMA CalendarioPaso ==
    ASSUME InvCalendario, TypeCalendario', BloquesNuevos,
           \A r \in Estancias : \/ estancias'[r] = estancias[r]
                                \/ \E e \in Estancia : Comprobada(e) /\ estancias'[r].visto = e.visto
                                                       /\ MismoLugar(estancias'[r], e)
                                \/ estancias'[r].visto = -1,
           \A p \in Solicitantes :
              \/ tramite'[p] = tramite[p]
              \/ tramite'[p].op = "libre"
              \/ /\ Comprobada(tramite'[p].fila)
                 /\ tramite'[p].op = "editar" =>
                      tramite'[p].id \in Estancias /\ tramite'[p].fila.tipo = tramite'[p].leida.tipo
    PROVE  InvCalendario'
  <1>1. \A i \in Eventos : eventos'[i].existe => i <= ultimoEvento'
    BY DEF BloquesNuevos
  <1>2. ASSUME NEW e, e.visto \in Int, Comprobada(e)
        PROVE  /\ e.visto <= ultimoEvento'
               /\ e.visto # -1 => \A i \in Eventos : i \in BuscarTraslape(e)' => i > e.visto
    BY <1>2, ComprobadaQueda DEF InvCalendario, Comprobada
  <1>3. ASSUME NEW r \in Estancias PROVE Comprobada(estancias[r])'
    <2>1. PICK d : d = estancias'[r]
      OBVIOUS
    <2>2. d \in Estancia
      BY <2>1 DEF TypeCalendario
    <2>3. d.visto \in -1..MaxEventos /\ -1 <= ultimoEvento' 
      BY <2>2, ConstantesCalendario DEF Estancia, BloquesNuevos
    <2>4. /\ d.visto <= ultimoEvento'
          /\ d.visto # -1 => \A i \in Eventos : i \in BuscarTraslape(d)' => i > d.visto
      <3>1. CASE d = estancias[r]
        <4>1. Comprobada(d)
          BY <3>1 DEF InvCalendario, Estadias
        <4>2. QED
          BY <1>2, <2>3, <4>1
      <3>2. CASE \E e \in Estancia : Comprobada(e) /\ d.visto = e.visto /\ MismoLugar(d, e)
        <4>1. PICK e \in Estancia : Comprobada(e) /\ d.visto = e.visto /\ MismoLugar(d, e)
          BY <3>2
        <4>2. /\ e.visto <= ultimoEvento'
              /\ e.visto # -1 => \A i \in Eventos : i \in BuscarTraslape(e)' => i > e.visto
          BY <1>2, <2>3, <4>1
        <4>3. BuscarTraslape(d)' = BuscarTraslape(e)'
          BY <4>1 DEF MismoLugar, BuscarTraslape, Choca
        <4>4. QED
          BY <4>1, <4>2, <4>3
      <3>3. CASE d.visto = -1
        BY <2>3, <3>3
      <3>4. QED
        BY <2>1, <3>1, <3>2, <3>3
    <2>5. QED
      BY <2>1, <2>4 DEF Comprobada, BuscarTraslape, Choca
  <1>4. ASSUME NEW p \in Solicitantes, tramite'[p].op # "libre"
        PROVE  /\ Comprobada(tramite[p].fila)'
               /\ tramite'[p].op = "editar" =>
                     tramite'[p].id \in Estancias /\ tramite'[p].fila.tipo = tramite'[p].leida.tipo
    <2>1. PICK d : d = tramite'[p].fila
      OBVIOUS
    <2>2. d \in Estancia /\ d.visto \in Int
      BY <2>1, ConstantesCalendario DEF TypeCalendario, Tramite, Estancia
    <2>3. Comprobada(d)
      BY <1>4, <2>1 DEF InvCalendario, EnTramite
    <2>4. /\ d.visto <= ultimoEvento'
          /\ d.visto # -1 => \A i \in Eventos : i \in BuscarTraslape(d)' => i > d.visto
      BY <1>2, <2>2, <2>3
    <2>5. Comprobada(tramite[p].fila)'
      BY <2>1, <2>4 DEF Comprobada, BuscarTraslape, Choca
    <2>6. QED
      BY <1>4, <2>5 DEF InvCalendario, EnTramite
  <1>5. QED
    BY <1>1, <1>3, <1>4 DEF InvCalendario, EnTramite, Estadias

LEMMA CrearEventoPaso == ASSUME InvCalendario, CrearEvento PROVE InvCalendario'
  <1>1. PICK tipo \in {"bloqueo", "nota"}, inicio \in Dias, fin \in Dias, u \in Unidades \cup {Parque} :
           /\ ultimoEvento < MaxEventos /\ fin >= inicio
           /\ ultimoEvento' = ultimoEvento + 1
           /\ eventos' = [eventos EXCEPT ![ultimoEvento'] =
                 [existe |-> TRUE, tipo |-> tipo, inicio |-> inicio, fin |-> fin, unidad |-> u]]
           /\ estancias' = estancias /\ tramite' = tramite
    BY DEF CrearEvento
  <1> DEFINE b == [existe |-> TRUE, tipo |-> tipo, inicio |-> inicio, fin |-> fin, unidad |-> u]
  <1>2. b \in Evento /\ b.inicio <= b.fin
    BY <1>1, ConstantesCalendario DEF Evento
  <1>3. ultimoEvento \in Nat /\ ultimoEvento' \in Eventos /\ ultimoEvento' \in 0..MaxEventos
    BY <1>1, ConstantesCalendario DEF InvCalendario, TypeCalendario, Eventos
  <1> HIDE DEF b
  <1>4. /\ eventos' \in [Eventos -> Evento] /\ eventos'[ultimoEvento'] = b
        /\ \A i \in Eventos : i # ultimoEvento' => eventos'[i] = eventos[i]
    BY <1>1, <1>2, <1>3 DEF InvCalendario, TypeCalendario, b
  <1>5. TypeCalendario'
    BY <1>1, <1>2, <1>3, <1>4 DEF InvCalendario, TypeCalendario
  <1>6. BloquesNuevos
    BY <1>1, <1>3, <1>4, ConstantesCalendario DEF InvCalendario, EnTramite, BloquesNuevos
  <1>7. QED
    BY <1>1, <1>5, <1>6, CalendarioPaso

LEMMA EliminarEventoPaso == ASSUME InvCalendario, EliminarEvento PROVE InvCalendario'
  <1>1. PICK j \in Eventos : eventos' = [eventos EXCEPT ![j] = SinEvento]
    BY DEF EliminarEvento
  <1>2. ultimoEvento' = ultimoEvento /\ estancias' = estancias /\ tramite' = tramite
    BY DEF EliminarEvento
  <1>3. ~SinEvento.existe /\ SinEvento.inicio <= SinEvento.fin
    BY DEF SinEvento
  <1>4. TypeCalendario'
    BY <1>1, <1>2, <1>3, VaciosCalendario DEF InvCalendario, TypeCalendario
  <1>5. BloquesNuevos
    <2>1. ultimoEvento \in Nat
      BY ConstantesCalendario DEF InvCalendario, TypeCalendario
    <2>2. \A i \in Eventos : eventos'[i].existe => eventos'[i] = eventos[i]
      BY <1>1, <1>3 DEF InvCalendario, TypeCalendario
    <2>3. QED
      BY <1>2, <2>1, <2>2 DEF InvCalendario, EnTramite, BloquesNuevos
  <1>6. QED
    BY <1>2, <1>4, <1>5, CalendarioPaso

\* The request that saw no block has a row that was checked.
LEMMA SinBloqueo ==
    ASSUME TypeCalendario, NEW e, NEW menos, SinConflicto(e, menos), e.visto = ultimoEvento
    PROVE  Comprobada(e)
  <1>1. BuscarTraslape(e) = {} /\ ultimoEvento \in Nat
    BY ConstantesCalendario DEF TypeCalendario, SinConflicto
  <1>2. QED
    BY <1>1 DEF Comprobada

LEMMA PedirEstanciaPaso ==
    ASSUME InvCalendario, NEW p \in Solicitantes, PedirEstancia(p) PROVE InvCalendario'
  <1>1. PICK tipo \in TiposVisita, a \in Dias, b \in Dias, u \in Unidades \cup {Parque} :
           LET f == [existe |-> TRUE, activa |-> TRUE, tipo |-> tipo, llegada |-> a,
                     salida |-> b, unidad |-> u, visto |-> ultimoEvento]
           IN  /\ SinConflicto(f, 0)
               /\ tramite' = [tramite EXCEPT ![p] = [SinTramite EXCEPT !.op = "crear", !.fila = f]]
    BY DEF PedirEstancia
  <1> DEFINE e == [existe |-> TRUE, activa |-> TRUE, tipo |-> tipo, llegada |-> a,
                   salida |-> b, unidad |-> u, visto |-> ultimoEvento]
  <1>2. UNCHANGED <<eventos, ultimoEvento, estancias>>
    BY DEF PedirEstancia
  <1>3. /\ e \in Estancia /\ e.visto = ultimoEvento /\ SinConflicto(e, 0)
        /\ tramite' = [tramite EXCEPT ![p] = [SinTramite EXCEPT !.op = "crear", !.fila = e]]
    BY <1>1, ConstantesDelCalendario, ConstantesCalendario DEF Estancia, InvCalendario, TypeCalendario
  <1> HIDE DEF e
  <1> DEFINE t == [SinTramite EXCEPT !.op = "crear", !.fila = e]
  <1>4. t \in Tramite /\ t.op = "crear" /\ t.fila = e
    BY <1>3, VaciosCalendario DEF Tramite, SinTramite
  <1> HIDE DEF t
  <1>5. /\ tramite' \in [Solicitantes -> Tramite] /\ tramite'[p] = t
        /\ \A q \in Solicitantes : q # p => tramite'[q] = tramite[q]
    BY <1>3, <1>4 DEF InvCalendario, TypeCalendario, t
  <1>6. TypeCalendario' /\ Comprobada(e)
    BY <1>2, <1>3, <1>5, SinBloqueo DEF InvCalendario, TypeCalendario
  <1>7. QED
    BY <1>2, <1>4, <1>5, <1>6, CalendarioPaso, SinBloquesNuevos DEF InvCalendario

LEMMA GuardarEstanciaPaso ==
    ASSUME InvCalendario, NEW p \in Solicitantes, GuardarEstancia(p) PROVE InvCalendario'
  <1>1. PICK r \in Estancias :
           /\ tramite[p].op = "crear"
           /\ estancias' = [estancias EXCEPT ![r] = tramite[p].fila]
           /\ tramite' = [tramite EXCEPT ![p] = SinTramite]
    BY DEF GuardarEstancia
  <1>2. UNCHANGED <<eventos, ultimoEvento>>
    BY DEF GuardarEstancia
  <1>3. PICK e \in Estancia : e = tramite[p].fila
    BY DEF InvCalendario, TypeCalendario, Tramite
  <1>4. Comprobada(e)
    BY <1>1, <1>3 DEF InvCalendario, EnTramite
  <1>5. /\ estancias' \in [Estancias -> Estancia] /\ estancias'[r] = e
        /\ \A s \in Estancias : s # r => estancias'[s] = estancias[s]
        /\ tramite' \in [Solicitantes -> Tramite] /\ tramite'[p] = SinTramite
        /\ \A q \in Solicitantes : q # p => tramite'[q] = tramite[q]
    BY <1>1, <1>3, VaciosCalendario DEF InvCalendario, TypeCalendario
  <1>6. SinTramite.op = "libre" /\ MismoLugar(e, e)
    BY DEF SinTramite, MismoLugar
  <1>7. TypeCalendario'
    BY <1>2, <1>5 DEF InvCalendario, TypeCalendario
  <1>8. \A s \in Estancias : \/ estancias'[s] = estancias[s]
                             \/ \E d \in Estancia : Comprobada(d) /\ estancias'[s].visto = d.visto
                                                    /\ MismoLugar(estancias'[s], d)
    <2>1. ASSUME NEW s \in Estancias, s = r
          PROVE  \E d \in Estancia : Comprobada(d) /\ estancias'[s].visto = d.visto
                                     /\ MismoLugar(estancias'[s], d)
      <3>1. Comprobada(e) /\ estancias'[s].visto = e.visto /\ MismoLugar(estancias'[s], e)
        BY <1>4, <1>5, <2>1 DEF MismoLugar
      <3>2. QED
        BY <3>1
    <2>2. QED
      BY <1>5, <2>1
  <1>9. QED
    BY <1>2, <1>5, <1>6, <1>7, <1>8, CalendarioPaso, SinBloquesNuevos DEF InvCalendario

LEMMA PedirEdicionPaso ==
    ASSUME InvCalendario, NEW p \in Solicitantes, PedirEdicion(p) PROVE InvCalendario'
  <1>1. PICK r \in Estancias, campos \in CamposEditables, a \in Dias, b \in Dias, u \in Unidades :
           LET leida == estancias[r]
               fila == [leida EXCEPT
                           !.llegada = IF "llegada" \in campos THEN a ELSE @,
                           !.salida = IF "salida" \in campos THEN b ELSE @,
                           !.unidad = IF "unidad" \in campos THEN u ELSE @,
                           !.visto = ultimoEvento]
           IN  /\ tramite[p].op = "libre"
               /\ leida.existe /\ leida.activa
               /\ Consistente(fila)
               /\ SinConflicto(fila, r)
               /\ tramite' = [tramite EXCEPT ![p] = [op |-> "editar", id |-> r,
                                                     leida |-> leida, fila |-> fila]]
               /\ UNCHANGED <<eventos, ultimoEvento, estancias>>
    BY Zenon DEF PedirEdicion
  <1> DEFINE f == [estancias[r] EXCEPT
                     !.llegada = IF "llegada" \in campos THEN a ELSE @,
                     !.salida = IF "salida" \in campos THEN b ELSE @,
                     !.unidad = IF "unidad" \in campos THEN u ELSE @,
                     !.visto = ultimoEvento]
             t == [op |-> "editar", id |-> r, leida |-> estancias[r], fila |-> f]
  <1>2. UNCHANGED <<eventos, ultimoEvento, estancias>>
    BY <1>1
  <1>3. SinConflicto(f, r) /\ tramite' = [tramite EXCEPT ![p] = t]
    BY <1>1
  <1>4. estancias[r] \in Estancia /\ ultimoEvento \in -1..MaxEventos
    BY ConstantesCalendario DEF InvCalendario, TypeCalendario
  <1>5. f \in Estancia /\ f.visto = ultimoEvento /\ f.tipo = estancias[r].tipo
    BY <1>4 DEF Estancia
  <1> HIDE DEF f
  <1>6. /\ t \in Tramite /\ t.fila = f
        /\ t.op = "editar" => t.id \in Estancias /\ t.fila.tipo = t.leida.tipo
    BY <1>4, <1>5 DEF Tramite
  <1> HIDE DEF t
  <1>7. /\ tramite' \in [Solicitantes -> Tramite] /\ tramite'[p] = t
        /\ \A q \in Solicitantes : q # p => tramite'[q] = tramite[q]
    BY <1>3, <1>6 DEF InvCalendario, TypeCalendario
  <1>8. TypeCalendario' /\ Comprobada(f)
    BY <1>2, <1>3, <1>5, <1>7, SinBloqueo DEF InvCalendario, TypeCalendario
  <1>9. QED
    BY <1>2, <1>6, <1>7, <1>8, CalendarioPaso, SinBloquesNuevos DEF InvCalendario

\* The UPDATE of an edit: over the row it read, the dates that were checked; over
\* any other, a mixture that no check saw.
LEMMA GuardarEdicionPaso ==
    ASSUME InvCalendario, NEW p \in Solicitantes, GuardarEdicion(p) PROVE InvCalendario'
  <1> DEFINE r == tramite[p].id
             leida == tramite[p].leida
             fila == tramite[p].fila
             m == Mezcla(p)
  <1>1. /\ tramite[p].op = "editar"
        /\ estancias' = [estancias EXCEPT ![r] = m]
        /\ tramite' = [tramite EXCEPT ![p] = SinTramite]
        /\ UNCHANGED <<eventos, ultimoEvento>>
    BY DEF GuardarEdicion
  <1>2. /\ r \in Estancias /\ leida \in Estancia /\ fila \in Estancia
        /\ estancias[r] \in Estancia /\ fila.tipo = leida.tipo /\ Comprobada(fila)
    BY <1>1 DEF InvCalendario, TypeCalendario, EnTramite, Tramite
  <1>3. m \in Estancia
    BY <1>2, ConstantesCalendario DEF Mezcla, Estancia
  <1>4. /\ estancias[r] = leida => MismoLugar(m, fila) /\ m.visto = fila.visto
        /\ estancias[r] # leida => m.visto = -1
    BY <1>2 DEF Mezcla, Estancia, MismoLugar
  <1> HIDE DEF m
  <1>5. /\ estancias' \in [Estancias -> Estancia] /\ estancias'[r] = m
        /\ \A s \in Estancias : s # r => estancias'[s] = estancias[s]
        /\ tramite' \in [Solicitantes -> Tramite] /\ tramite'[p] = SinTramite
        /\ \A q \in Solicitantes : q # p => tramite'[q] = tramite[q]
    BY <1>1, <1>2, <1>3, VaciosCalendario DEF InvCalendario, TypeCalendario
  <1>6. SinTramite.op = "libre"
    BY DEF SinTramite
  <1>7. TypeCalendario'
    BY <1>1, <1>5 DEF InvCalendario, TypeCalendario
  <1>8. ASSUME NEW s \in Estancias
        PROVE  \/ estancias'[s] = estancias[s]
               \/ \E d \in Estancia : Comprobada(d) /\ estancias'[s].visto = d.visto
                                      /\ MismoLugar(estancias'[s], d)
               \/ estancias'[s].visto = -1
    <2>1. CASE s = r /\ estancias[r] = leida
      <3>1. Comprobada(fila) /\ estancias'[s].visto = fila.visto /\ MismoLugar(estancias'[s], fila)
        BY <1>2, <1>4, <1>5, <2>1 DEF MismoLugar
      <3>2. QED
        BY <1>2, <3>1
    <2>2. CASE s = r /\ estancias[r] # leida
      BY <1>4, <1>5, <2>2
    <2>3. CASE s # r
      BY <1>5, <2>3
    <2>4. QED
      BY <2>1, <2>2, <2>3
  <1>9. QED
    BY <1>1, <1>5, <1>6, <1>7, <1>8, CalendarioPaso, SinBloquesNuevos DEF InvCalendario

LEMMA TerminarEstanciaPaso == ASSUME InvCalendario, TerminarEstancia PROVE InvCalendario'
  <1>1. PICK r \in Estancias : estancias' = [estancias EXCEPT ![r].activa = FALSE]
    BY DEF TerminarEstancia
  <1> DEFINE m == [estancias[r] EXCEPT !.activa = FALSE]
  <1>2. UNCHANGED <<eventos, ultimoEvento, tramite>>
    BY DEF TerminarEstancia
  <1>3. estancias[r] \in Estancia /\ Comprobada(estancias[r])
    BY DEF InvCalendario, TypeCalendario, Estadias
  <1>4. m \in Estancia /\ MismoLugar(m, estancias[r]) /\ m.visto = estancias[r].visto
    BY <1>3 DEF Estancia, MismoLugar
  <1>5. estancias' = [estancias EXCEPT ![r] = m]
    BY <1>1
  <1> HIDE DEF m
  <1>6. /\ estancias' \in [Estancias -> Estancia] /\ estancias'[r] = m
        /\ \A s \in Estancias : s # r => estancias'[s] = estancias[s]
    BY <1>4, <1>5 DEF InvCalendario, TypeCalendario
  <1>7. TypeCalendario'
    BY <1>2, <1>6 DEF InvCalendario, TypeCalendario
  <1>8. ASSUME NEW s \in Estancias
        PROVE  \/ estancias'[s] = estancias[s]
               \/ \E d \in Estancia : Comprobada(d) /\ estancias'[s].visto = d.visto
                                      /\ MismoLugar(estancias'[s], d)
    <2>1. CASE s = r
      <3>1. /\ Comprobada(estancias[r]) /\ estancias'[s].visto = estancias[r].visto
            /\ MismoLugar(estancias'[s], estancias[r])
        BY <1>3, <1>4, <1>6, <2>1 DEF MismoLugar
      <3>2. QED
        BY <1>3, <3>1
    <2>2. QED
      BY <1>6, <2>1
  <1>9. QED
    BY <1>2, <1>7, <1>8, CalendarioPaso, SinBloquesNuevos DEF InvCalendario

LEMMA AbandonarPaso ==
    ASSUME InvCalendario, NEW p \in Solicitantes, Abandonar(p) PROVE InvCalendario'
  <1>1. /\ UNCHANGED <<eventos, ultimoEvento, estancias>>
        /\ tramite' \in [Solicitantes -> Tramite] /\ tramite'[p] = SinTramite
        /\ \A q \in Solicitantes : q # p => tramite'[q] = tramite[q]
    BY VaciosCalendario DEF Abandonar, InvCalendario, TypeCalendario
  <1>2. SinTramite.op = "libre"
    BY DEF SinTramite
  <1>3. TypeCalendario'
    BY <1>1 DEF InvCalendario, TypeCalendario
  <1>4. QED
    BY <1>1, <1>2, <1>3, CalendarioPaso, SinBloquesNuevos DEF InvCalendario

LEMMA CalendarioSiempre == SpecCalendario => []InvCalendario
  <1>1. InitCalendario => InvCalendario
    <2> SUFFICES ASSUME InitCalendario PROVE InvCalendario
      OBVIOUS
    <2>1. /\ ~SinEvento.existe /\ SinEvento.inicio <= SinEvento.fin /\ SinTramite.op = "libre"
          /\ SinEstancia.visto = 0
      BY DEF SinEvento, SinTramite, SinEstancia
    <2>2. TypeCalendario
      BY <2>1, VaciosCalendario, ConstantesCalendario DEF InitCalendario, TypeCalendario
    <2>3. EnTramite
      BY <2>1 DEF InitCalendario, EnTramite
    <2>4. Estadias
      BY <2>1 DEF InitCalendario, Estadias, Comprobada, BuscarTraslape
    <2>5. QED
      BY <2>2, <2>3, <2>4 DEF InvCalendario
  <1>2. InvCalendario /\ [NextCalendario]_varsCalendario => InvCalendario'
    <2> SUFFICES ASSUME InvCalendario, [NextCalendario]_varsCalendario PROVE InvCalendario'
      OBVIOUS
    <2>1. CASE CrearEvento \/ EliminarEvento \/ TerminarEstancia
      BY <2>1, CrearEventoPaso, EliminarEventoPaso, TerminarEstanciaPaso
    <2>2. ASSUME NEW p \in Solicitantes,
                 \/ PedirEstancia(p) \/ GuardarEstancia(p)
                 \/ PedirEdicion(p) \/ GuardarEdicion(p) \/ Abandonar(p)
          PROVE  InvCalendario'
      BY <2>2, PedirEstanciaPaso, GuardarEstanciaPaso, PedirEdicionPaso, GuardarEdicionPaso,
         AbandonarPaso
    <2>3. CASE UNCHANGED varsCalendario
      <3>1. UNCHANGED <<eventos, ultimoEvento, estancias, tramite>>
        BY <2>3 DEF varsCalendario
      <3>2. TypeCalendario'
        BY <3>1 DEF InvCalendario, TypeCalendario
      <3>3. QED
        BY <3>1, <3>2, CalendarioPaso, SinBloquesNuevos DEF InvCalendario
    <2>4. QED
      BY <2>1, <2>2, <2>3 DEF NextCalendario
  <1>3. QED
    BY <1>1, <1>2, PTL DEF SpecCalendario

\* A stay lies on a block only if the block is younger than the check of its dates,
\* whatever requests and blocks come and go in between
\* (reservacion_routes.py:32, 108, publico_routes.py:112).
THEOREM ElBloqueoSeRespeta == SpecCalendario => []BloqueoRespetado
  <1>1. InvCalendario => BloqueoRespetado
    BY DEF InvCalendario, Estadias, Comprobada, BloqueoRespetado, BuscarTraslape
  <1>2. QED
    BY <1>1, CalendarioSiempre, PTL

\* A stay [a, b) that the answers of the portal are about.
LEMMA FielEnRango ==
    ASSUME TypeCalendario,
           \A r \in Estancias : estancias[r].unidad # Parque => UltimaNoche(r) >= estancias[r].llegada,
           NEW u \in Unidades, NEW desde \in Dias, NEW hasta \in Dias, NEW a \in Dias, NEW b \in Dias,
           desde <= a, a < b, b - 1 <= hasta
    PROVE  Disponible(u, a, b)
              <=> \A d \in Periodos(u, desde, hasta) : d.fin < a \/ d.inicio >= b
  <1> DEFINE e == [SinEstancia EXCEPT !.tipo = "hospedaje", !.llegada = a, !.salida = b, !.unidad = u]
             Bloquea(i) == /\ eventos[i].existe /\ eventos[i].tipo = "bloqueo"
                           /\ eventos[i].unidad \in {Parque, u}
             Ocupa(r) == /\ estancias[r].existe /\ estancias[r].activa /\ estancias[r].unidad = u
             DeEstancia(r) == [inicio |-> Max({estancias[r].llegada, desde}),
                               fin |-> Min({UltimaNoche(r), hasta})]
             DeBloqueo(i) == [inicio |-> Max({eventos[i].inicio, desde}),
                              fin |-> Min({eventos[i].fin, hasta})]
  <1>1. a \in Nat /\ b \in Nat /\ desde \in Nat /\ hasta \in Nat /\ u # Parque
    BY ConstantesCalendario
  <1>2. /\ e.tipo = "hospedaje" /\ e.llegada = a /\ e.salida = b /\ e.unidad = u
    BY DEF SinEstancia
  <1>3. ASSUME NEW r \in Estancias
        PROVE  /\ estancias[r].llegada \in Nat /\ estancias[r].salida \in Nat
               /\ UltimaNoche(r) = estancias[r].salida - 1
               /\ (r # 0) /\ (Ocupa(r) => estancias[r].llegada <= estancias[r].salida - 1)
    <2>1. estancias[r] \in Estancia
      BY DEF TypeCalendario
    <2>2. estancias[r].llegada \in Dias /\ estancias[r].salida \in Dias
      BY <2>1 DEF Estancia
    <2>3. estancias[r].llegada \in Nat /\ estancias[r].salida \in Nat
      BY <2>2, ConstantesCalendario
    <2>4. UltimaNoche(r) = estancias[r].salida - 1
      BY DEF UltimaNoche
    <2>5. r # 0
      BY ConstantesCalendario DEF Estancias
    <2>6. Ocupa(r) => UltimaNoche(r) >= estancias[r].llegada
      BY <1>1
    <2> HIDE DEF Ocupa
    <2>7. QED
      BY <2>3, <2>4, <2>5, <2>6
  <1>4. \A i \in Eventos : eventos[i].inicio \in Nat /\ eventos[i].fin \in Nat
    BY ConstantesCalendario DEF TypeCalendario, Evento
  <1>5. Disponible(u, a, b) <=>
           /\ \A i \in Eventos : Bloquea(i) => ~(eventos[i].inicio < b /\ eventos[i].fin >= a)
           /\ \A r \in Estancias : Ocupa(r) => ~(estancias[r].llegada < b /\ a < estancias[r].salida)
    <2>1. Disponible(u, a, b) <=> BuscarTraslape(e) = {} /\ ~Ocupada(e, 0)
      BY DEF Disponible
    <2> HIDE DEF e
    <2>2. BuscarTraslape(e) = {} <=>
             \A i \in Eventos : Bloquea(i) => ~(eventos[i].inicio < b /\ eventos[i].fin >= a)
      BY <1>2 DEF BuscarTraslape, Choca
    <2>3. Ocupada(e, 0) <=>
             \E r \in Estancias : Ocupa(r) /\ estancias[r].llegada < b /\ a < estancias[r].salida
      BY <1>1, <1>2, <1>3 DEF Ocupada
    <2>4. QED
      BY <2>1, <2>2, <2>3
  <1>7. \A d : d \in Periodos(u, desde, hasta) <=>
           \/ \E r \in Estancias : /\ Ocupa(r)
                                   /\ estancias[r].llegada <= hasta /\ estancias[r].salida > desde
                                   /\ DeEstancia(r).inicio <= DeEstancia(r).fin
                                   /\ d = DeEstancia(r)
           \/ \E i \in Eventos : /\ Bloquea(i)
                                 /\ eventos[i].inicio <= hasta /\ eventos[i].fin >= desde
                                 /\ d = DeBloqueo(i)
    BY DEF Periodos
  <1>8. ASSUME NEW r \in Estancias
        PROVE  /\ DeEstancia(r).inicio = IF estancias[r].llegada >= desde THEN estancias[r].llegada ELSE desde
               /\ DeEstancia(r).fin = IF estancias[r].salida - 1 <= hasta THEN estancias[r].salida - 1 ELSE hasta
    <2>1. DeEstancia(r).inicio = Max({estancias[r].llegada, desde})
          /\ DeEstancia(r).fin = Min({estancias[r].salida - 1, hasta})
      BY <1>3
    <2> DEFINE x == estancias[r].llegada
               y == estancias[r].salida - 1
    <2>2. x \in Int /\ y \in Int /\ desde \in Int /\ hasta \in Int
      BY <1>1, <1>3
    <2>3. DeEstancia(r).inicio = Max({x, desde}) /\ DeEstancia(r).fin = Min({y, hasta})
      BY <2>1
    <2> HIDE DEF x, y, DeEstancia
    <2>4. /\ Max({x, desde}) = IF x >= desde THEN x ELSE desde
          /\ Min({y, hasta}) = IF y <= hasta THEN y ELSE hasta
      BY <2>2, MaxDos
    <2>5. QED
      BY <2>3, <2>4 DEF x, y
  <1>9. ASSUME NEW i \in Eventos
        PROVE  /\ DeBloqueo(i).inicio = IF eventos[i].inicio >= desde THEN eventos[i].inicio ELSE desde
               /\ DeBloqueo(i).fin = IF eventos[i].fin <= hasta THEN eventos[i].fin ELSE hasta
    <2> DEFINE x == eventos[i].inicio
               y == eventos[i].fin
    <2>1. x \in Int /\ y \in Int /\ desde \in Int /\ hasta \in Int
      BY <1>1, <1>4
    <2>2. DeBloqueo(i).inicio = Max({x, desde}) /\ DeBloqueo(i).fin = Min({y, hasta})
      OBVIOUS
    <2> HIDE DEF x, y, DeBloqueo
    <2>3. /\ Max({x, desde}) = IF x >= desde THEN x ELSE desde
          /\ Min({y, hasta}) = IF y <= hasta THEN y ELSE hasta
      BY <2>1, MaxDos
    <2>4. QED
      BY <2>2, <2>3 DEF x, y
  <1> HIDE DEF DeEstancia, DeBloqueo, Ocupa, Bloquea, e
  <1>10. ASSUME Disponible(u, a, b), NEW d \in Periodos(u, desde, hasta)
         PROVE  d.fin < a \/ d.inicio >= b
    <2>1. CASE \E r \in Estancias : Ocupa(r) /\ d = DeEstancia(r)
      <3>1. PICK r \in Estancias : Ocupa(r) /\ d = DeEstancia(r)
        BY <2>1
      <3>2. ~(estancias[r].llegada < b /\ a < estancias[r].salida)
        BY <1>5, <1>10, <3>1
      <3>3. QED
        BY <1>1, <1>3, <1>8, <3>1, <3>2
    <2>2. CASE \E i \in Eventos : Bloquea(i) /\ d = DeBloqueo(i)
      <3>1. PICK i \in Eventos : Bloquea(i) /\ d = DeBloqueo(i)
        BY <2>2
      <3>2. ~(eventos[i].inicio < b /\ eventos[i].fin >= a)
        BY <1>5, <1>10, <3>1
      <3>3. QED
        BY <1>1, <1>4, <1>9, <3>1, <3>2
    <2>3. QED
      BY <1>7, <1>10, <2>1, <2>2
  <1>11. ASSUME \A d \in Periodos(u, desde, hasta) : d.fin < a \/ d.inicio >= b
         PROVE  Disponible(u, a, b)
    <2>1. ASSUME NEW r \in Estancias, Ocupa(r), estancias[r].llegada < b, a < estancias[r].salida
          PROVE  FALSE
      <3>1. /\ estancias[r].llegada <= hasta /\ estancias[r].salida > desde
            /\ DeEstancia(r).inicio <= DeEstancia(r).fin
        BY <1>1, <1>3, <1>8, <2>1
      <3>2. DeEstancia(r) \in Periodos(u, desde, hasta)
        BY <1>7, <2>1, <3>1
      <3>3. DeEstancia(r).fin < a \/ DeEstancia(r).inicio >= b
        BY <1>11, <3>2
      <3>4. QED
        BY <1>1, <1>3, <1>8, <2>1, <3>3
    <2>2. ASSUME NEW i \in Eventos, Bloquea(i), eventos[i].inicio < b, eventos[i].fin >= a
          PROVE  FALSE
      <3>1. eventos[i].inicio <= hasta /\ eventos[i].fin >= desde
        BY <1>1, <1>4, <2>2
      <3>2. DeBloqueo(i) \in Periodos(u, desde, hasta)
        BY <1>7, <2>2, <3>1
      <3>3. DeBloqueo(i).fin < a \/ DeBloqueo(i).inicio >= b
        BY <1>11, <3>2
      <3>4. QED
        BY <1>1, <1>4, <1>9, <2>2, <3>3
    <2>3. QED
      BY <1>5, <2>1, <2>2
  <1>12. QED
    BY <1>10, <1>11

\* Whatever rows the two tables hold, the availability of a stay and the periods
\* shown in the month give the same answer
\* (publico_service.py:51, bloqueo_operativo_service.py:31).
THEOREM ElCalendarioEsFiel == SpecCalendario => []CalendarioFiel
  <1>1. InvCalendario => CalendarioFiel
    BY FielEnRango DEF InvCalendario, CalendarioFiel
  <1>2. QED
    BY <1>1, CalendarioSiempre, PTL

-------------------------------------------------------------------------------
(* Reports and dashboard.                                                  *)

LEMMA MaxMinIntervalo ==
    ASSUME NEW a \in Int, NEW b \in Int, a <= b
    PROVE  Max(a..b) = b /\ Min(a..b) = a
  <1> DEFINE S == a..b
  <1>1. S \in SUBSET Int /\ S # {} /\ a \in S /\ b \in S
        /\ \A x \in S : x \in Int /\ a <= x /\ x <= b
    OBVIOUS
  <1>2. IsFiniteSet(S)
    BY FS_Interval
  <1> HIDE DEF S
  <1>3. /\ Max(S) \in S /\ Max(S) >= b
        /\ Min(S) \in S /\ Min(S) <= a
    BY <1>1, <1>2, MaxDef, MinDef
  <1> DEFINE m == Max(S)
             n == Min(S)
  <1>4. m \in Int /\ m <= b /\ m >= b /\ n \in Int /\ a <= n /\ n <= a
    BY <1>1, <1>3
  <1> HIDE DEF m, n
  <1>5. m = b /\ n = a
    BY <1>4
  <1>6. QED
    BY <1>5 DEF m, n, S

LEMMA ConstantesReportes ==
    /\ DiasReporte \subseteq Nat /\ DiaInicial \in DiasReporte /\ UltimoDia \in Nat
    /\ Primeros \subseteq Nat /\ Eneros \subseteq Primeros /\ 0 \in Eneros
    /\ PrecioPersona \in Nat /\ MaxPersonas \in Nat /\ MaxPersonas # 0
    /\ Semana \in Nat /\ Semana # 0
    /\ Vacia \notin Int /\ \A dias \in SUBSET DiasReporte : dias # Vacia
    /\ Vacia # "hoy" /\ Vacia # "semana" /\ Vacia # "mes" /\ Vacia # "anio"
  BY ConstantesDeReportes DEF DiasReporte

\* A payment with its sign.
ConSignoDe(c) == IF c.tipo = "pago" THEN c.monto ELSE 0 - c.monto

\* What a step does to the visits and to the payments: nothing, a new visit with
\* nothing paid, another state of a visit, or a payment and its visit together.
LEMMA VentasPaso ==
    ASSUME TypeReportes, [NextReportes]_varsReportes
    PROVE  \/ UNCHANGED <<ventas, cobros>>
           \/ \E v \in Ventas \ Registradas, e \in Venta :
                 /\ ventas' = [ventas EXCEPT ![v] = e] /\ UNCHANGED cobros
                 /\ e.pagado = 0 /\ e.creada = hoy /\ altas[e.cliente] # Vacia
           \/ \E v \in Registradas, e \in Venta :
                 /\ ventas' = [ventas EXCEPT ![v] = e] /\ UNCHANGED cobros
                 /\ e.pagado = ventas[v].pagado
                 /\ e.creada = ventas[v].creada /\ e.cliente = ventas[v].cliente
           \/ \E v \in Registradas, e \in Venta, c \in Cobro :
                 /\ ventas' = [ventas EXCEPT ![v] = e] /\ cobros' = Append(cobros, c)
                 /\ e.pagado = ventas[v].pagado + ConSignoDe(c)
                 /\ e.creada = ventas[v].creada /\ e.cliente = ventas[v].cliente
                 /\ c.venta = v /\ c.fecha \in {hoy, hoy - 1}
  <1>1. \A n \in 1..MaxPersonas : n \in Nat /\ PrecioPersona * n \in Nat
    BY ConstantesReportes
  <1>2. \A v \in Registradas : v \in Ventas /\ ventas[v] \in Venta
    BY DEF Registradas, TypeReportes
  <1>3. DOMAIN ventas = Ventas /\ hoy \in DiasReporte
    BY DEF TypeReportes
  <1>4. \A d \in {hoy, hoy - 1} \cap DiaInicial..UltimoDia : d \in DiasReporte
    BY ConstantesReportes DEF DiasReporte
  <1>5. \A v \in Registradas :
           /\ ventas[v].estado \in EstadosVenta
           /\ ventas[v].total \in Nat /\ ventas[v].pagado \in Nat
    BY <1>2 DEF Venta
  <1>6. CASE Vender
    <2>1. PICK v \in Ventas, c \in ClientesVenta, s \in ServiciosVenta,
               n \in 1..MaxPersonas, dia \in hoy..UltimoDia :
            /\ ventas[v] = Vacia /\ altas[c] # Vacia
            /\ ventas' = [ventas EXCEPT ![v] =
                 [estado |-> "pendiente", servicio |-> s, cliente |-> c, personas |-> n,
                  total |-> PrecioPersona * n, pagado |-> 0, creada |-> hoy, visita |-> dia]]
            /\ UNCHANGED <<cobros, altas, deVenta, hoy>>
      BY <1>6 DEF Vender
    <2> DEFINE e == [estado |-> "pendiente", servicio |-> s, cliente |-> c, personas |-> n,
                     total |-> PrecioPersona * n, pagado |-> 0, creada |-> hoy, visita |-> dia]
    <2>2. dia \in DiasReporte
      BY <1>3, ConstantesReportes DEF DiasReporte
    <2>3. e \in Venta /\ e.pagado = 0 /\ e.creada = hoy /\ e.cliente = c
      BY <1>1, <1>3, <2>2 DEF Venta, EstadosVenta
    <2>4. v \in Ventas \ Registradas
      BY <2>1 DEF Registradas
    <2> HIDE DEF e
    <2>5. ventas' = [ventas EXCEPT ![v] = e] /\ UNCHANGED cobros
      BY <2>1 DEF e
    <2>6. altas[e.cliente] # Vacia
      BY <2>1, <2>3
    <2>7. QED
      BY <2>3, <2>4, <2>5, <2>6
  <1>7. CASE Editar
    <2>1. PICK v \in Registradas, s \in ServiciosVenta, n \in 1..MaxPersonas :
            /\ ventas' = [ventas EXCEPT ![v].servicio = s, ![v].personas = n,
                                        ![v].total = PrecioPersona * n]
            /\ UNCHANGED <<cobros, altas, deVenta, hoy>>
      BY <1>7 DEF Editar
    <2> DEFINE e == [ventas[v] EXCEPT !.servicio = s, !.personas = n, !.total = PrecioPersona * n]
    <2>2. /\ e \in Venta /\ e.pagado = ventas[v].pagado
          /\ e.creada = ventas[v].creada /\ e.cliente = ventas[v].cliente
      BY <1>1, <1>2 DEF Venta
    <2>3. ventas' = [ventas EXCEPT ![v] = e] /\ UNCHANGED cobros
      BY <1>2, <1>3, <2>1
    <2> HIDE DEF e
    <2>4. QED
      BY <2>2, <2>3
  <1>8. CASE Mover
    <2>1. PICK v \in Registradas, nuevo \in EstadosVenta :
            /\ ventas' = [ventas EXCEPT ![v].estado = nuevo]
            /\ UNCHANGED <<cobros, altas, deVenta, hoy>>
      BY <1>8 DEF Mover
    <2> DEFINE e == [ventas[v] EXCEPT !.estado = nuevo]
    <2>2. /\ e \in Venta /\ e.pagado = ventas[v].pagado
          /\ e.creada = ventas[v].creada /\ e.cliente = ventas[v].cliente
      BY <1>2 DEF Venta
    <2>3. ventas' = [ventas EXCEPT ![v] = e] /\ UNCHANGED cobros
      BY <1>2, <1>3, <2>1
    <2> HIDE DEF e
    <2>4. QED
      BY <2>2, <2>3
  <1>9. CASE Cobrar
    <2>1. PICK v \in Registradas, m \in MetodosPago, monto \in 1..(PrecioPersona * MaxPersonas) :
            /\ \E fecha \in FechaPago(v) :
                  cobros' = Append(cobros, [venta |-> v, tipo |-> "pago", metodo |-> m,
                                            monto |-> monto, fecha |-> fecha])
            /\ ventas' = [ventas EXCEPT
                   ![v].pagado = ventas[v].pagado + monto,
                   ![v].estado = IF @ = "pendiente" /\ ventas[v].pagado + monto >= ventas[v].total
                                 THEN "confirmada" ELSE @]
            /\ UNCHANGED <<altas, deVenta, hoy>>
      BY <1>9 DEF Cobrar
    <2>2. PICK fecha \in FechaPago(v) :
              cobros' = Append(cobros, [venta |-> v, tipo |-> "pago", metodo |-> m,
                                        monto |-> monto, fecha |-> fecha])
      BY <2>1
    <2> DEFINE est == IF ventas[v].estado = "pendiente" /\ ventas[v].pagado + monto >= ventas[v].total
                      THEN "confirmada" ELSE ventas[v].estado
               suma == ventas[v].pagado + monto
               e == [ventas[v] EXCEPT !.pagado = suma, !.estado = est]
               c == [venta |-> v, tipo |-> "pago", metodo |-> m, monto |-> monto, fecha |-> fecha]
    <2>3. monto \in Nat
      OBVIOUS
    <2>4. est \in EstadosVenta /\ suma \in Nat
      BY <1>5, <2>3 DEF EstadosVenta
    <2>5. ventas' = [ventas EXCEPT ![v] = e] /\ cobros' = Append(cobros, c)
      BY <1>2, <1>3, <2>1, <2>2
    <2>6. c \in Cobro /\ c.venta = v /\ c.fecha \in {hoy, hoy - 1} /\ ConSignoDe(c) = monto
      BY <1>2, <1>4, <2>2, <2>3 DEF Cobro, FechaPago, ConSignoDe
    <2> HIDE DEF est, c
    <2>7. /\ e \in Venta /\ e.pagado = suma
          /\ e.creada = ventas[v].creada /\ e.cliente = ventas[v].cliente
      <3> HIDE DEF suma
      <3>1. QED
        BY <1>2, <2>4 DEF Venta
    <2> HIDE DEF e
    <2>8. e.pagado = ventas[v].pagado + ConSignoDe(c)
      BY <2>6, <2>7
    <2>9. QED
      BY <2>5, <2>6, <2>7, <2>8
  <1>10. CASE Reembolsar
    <2>1. PICK v \in Registradas, m \in MetodosPago, monto \in 1..(PrecioPersona * MaxPersonas) :
            /\ monto <= ventas[v].pagado
            /\ \E fecha \in FechaPago(v) :
                  cobros' = Append(cobros, [venta |-> v, tipo |-> "reembolso", metodo |-> m,
                                            monto |-> monto, fecha |-> fecha])
            /\ ventas' = [ventas EXCEPT ![v].pagado = @ - monto]
            /\ UNCHANGED <<altas, deVenta, hoy>>
      BY <1>10 DEF Reembolsar
    <2>2. PICK fecha \in FechaPago(v) :
              cobros' = Append(cobros, [venta |-> v, tipo |-> "reembolso", metodo |-> m,
                                        monto |-> monto, fecha |-> fecha])
      BY <2>1
    <2> DEFINE resta == ventas[v].pagado - monto
               e == [ventas[v] EXCEPT !.pagado = resta]
               c == [venta |-> v, tipo |-> "reembolso", metodo |-> m, monto |-> monto, fecha |-> fecha]
    <2>3. monto \in Nat
      OBVIOUS
    <2>4. resta \in Nat
      BY <1>5, <2>1, <2>3
    <2>5. ventas' = [ventas EXCEPT ![v] = e] /\ cobros' = Append(cobros, c)
      BY <1>2, <1>3, <2>1, <2>2
    <2>6. c \in Cobro /\ c.venta = v /\ c.fecha \in {hoy, hoy - 1} /\ ConSignoDe(c) = 0 - monto
      BY <1>2, <1>4, <2>2, <2>3 DEF Cobro, FechaPago, ConSignoDe
    <2> HIDE DEF c
    <2>7. /\ e \in Venta /\ e.pagado = resta
          /\ e.creada = ventas[v].creada /\ e.cliente = ventas[v].cliente
      <3> HIDE DEF resta
      <3>1. QED
        BY <1>2, <2>4 DEF Venta
    <2> HIDE DEF e
    <2>8. e.pagado = ventas[v].pagado + ConSignoDe(c)
      BY <1>5, <2>3, <2>6, <2>7
    <2>9. QED
      BY <2>5, <2>6, <2>7, <2>8
  <1>11. CASE AltaCliente \/ DesactivarServicio \/ Amanece \/ UNCHANGED varsReportes
    <2>1. UNCHANGED <<ventas, cobros>>
      BY <1>11 DEF AltaCliente, DesactivarServicio, Amanece, varsReportes
    <2>2. QED
      BY <2>1
  <1>12. QED
    BY <1>6, <1>7, <1>8, <1>9, <1>10, <1>11 DEF NextReportes

\* A row of the table of visits is written whole.
LEMMA FilaEscrita ==
    ASSUME TypeReportes, NEW v \in Ventas, NEW e \in Venta, ventas' = [ventas EXCEPT ![v] = e]
    PROVE  /\ ventas' \in [Ventas -> Venta \cup {Vacia}]
           /\ Registradas' = Registradas \cup {v}
           /\ ventas'[v] = e /\ \A w \in Ventas : w # v => ventas'[w] = ventas[w]
  <1> DEFINE T == Venta \cup {Vacia}
  <1>1. ventas \in [Ventas -> T] /\ e \in T /\ e # Vacia
    BY VaciaNoEsVenta DEF TypeReportes
  <1> HIDE DEF T
  <1>2. /\ ventas' \in [Ventas -> T]
        /\ ventas'[v] = e /\ \A w \in Ventas : w # v => ventas'[w] = ventas[w]
    BY <1>1
  <1>3. QED
    BY <1>1, <1>2 DEF T, Registradas

LEMMA TypeReportesPaso ==
    ASSUME TypeReportes, [NextReportes]_varsReportes
    PROVE  TypeReportes'
  <1>1. /\ altas' \in [ClientesVenta -> DiasReporte \cup {Vacia}]
        /\ deVenta' \subseteq ServiciosVenta
        /\ hoy' \in DiasReporte
    <2>1. hoy \in DiasReporte /\ UltimoDia \in Nat
      BY ConstantesReportes DEF TypeReportes
    <2>2. CASE AltaCliente
      BY <2>1, <2>2 DEF AltaCliente, TypeReportes
    <2>3. CASE DesactivarServicio
      BY <2>3 DEF DesactivarServicio, TypeReportes
    <2>4. CASE Amanece
      BY <2>1, <2>4 DEF Amanece, TypeReportes, DiasReporte
    <2>5. CASE Vender \/ Editar \/ Mover \/ Cobrar \/ Reembolsar \/ UNCHANGED varsReportes
      <3>1. UNCHANGED <<altas, deVenta, hoy>>
        BY <2>5 DEF Vender, Editar, Mover, Cobrar, Reembolsar, varsReportes
      <3>2. QED
        BY <3>1 DEF TypeReportes
    <2>6. QED
      BY <2>2, <2>3, <2>4, <2>5 DEF NextReportes
  <1>2. CASE UNCHANGED <<ventas, cobros>>
    BY <1>1, <1>2 DEF TypeReportes
  <1>3. ASSUME NEW v \in Ventas, NEW e \in Venta, ventas' = [ventas EXCEPT ![v] = e],
               cobros' \in Seq(Cobro)
        PROVE  TypeReportes'
    BY <1>1, <1>3, FilaEscrita DEF TypeReportes
  <1>4. cobros \in Seq(Cobro) /\ \A c \in Cobro : Append(cobros, c) \in Seq(Cobro)
    BY DEF TypeReportes
  <1>5. Registradas \in SUBSET Ventas
    BY DEF Registradas
  <1>6. QED
    BY <1>2, <1>3, <1>4, <1>5, VentasPaso

LEMMA TypeReportesInicial ==
    ASSUME InitReportes
    PROVE  TypeReportes
  BY ConstantesReportes DEF InitReportes, TypeReportes

LEMMA PrimeroDeDef ==
    ASSUME NEW I \in SUBSET Primeros, NEW dia \in Nat, \E p \in I : p <= dia
    PROVE  /\ PrimeroDe(I, dia) \in I /\ PrimeroDe(I, dia) <= dia /\ PrimeroDe(I, dia) \in Nat
           /\ \A p \in I : p <= dia => p <= PrimeroDe(I, dia)
  <1> DEFINE S == {p \in I : p <= dia}
  <1>0. \A p \in I : p \in Nat
    BY ConstantesReportes
  <1>1. S \in SUBSET Int /\ S # {} /\ S \in SUBSET (0..dia) /\ I \in SUBSET Nat
    BY <1>0
  <1>2. IsFiniteSet(0..dia)
    BY FS_Interval
  <1>3. PrimeroDe(I, dia) = Max(S)
    BY DEF PrimeroDe
  <1> HIDE DEF S
  <1>4. Max(S) \in S /\ \A y \in S : Max(S) >= y
    BY <1>1, <1>2, FS_Subset, MaxDef
  <1>5. QED
    BY <1>1, <1>3, <1>4 DEF S

\* The answer to a call made on a day.
RangoEn(pregunta, dia) ==
    IF pregunta.rango # Vacia THEN pregunta.rango
    ELSE IF pregunta.periodo = "hoy" THEN dia..dia
    ELSE IF pregunta.periodo = "mes" THEN PrimeroDe(Primeros, dia)..dia
    ELSE PrimeroDe(Eneros, dia)..dia

\* Every answer is the one its place asked for, on the day it was asked.
Pedido ==
    /\ hoy \in DiaInicial..UltimoDia
    /\ tablero = [fecha |-> tablero.fecha, respuestas |-> tablero.respuestas]
    /\ tablero.fecha \in (DiaInicial..UltimoDia) \cup {Vacia}
    /\ tablero.respuestas \in Seq([dia : DiasReporte, rango : SUBSET Int])
    /\ tablero.fecha = Vacia => tablero.respuestas = << >>
    /\ Len(tablero.respuestas) <= 13
    /\ \A i \in 1..Len(tablero.respuestas) :
          tablero.respuestas[i].rango
             = RangoEn(Llamadas(tablero.fecha)[i], tablero.respuestas[i].dia)

InvTablero == TypeReportes /\ Pedido

LEMMA LlamadasSon ==
    ASSUME NEW fecha \in Nat
    PROVE  /\ \A i \in {1, 6, 7, 11} : Llamadas(fecha)[i] = Periodo("hoy")
           /\ \A i \in {3, 8, 10, 12} : Llamadas(fecha)[i] = Periodo("mes")
           /\ Llamadas(fecha)[5] = Periodo("anio")
           /\ Llamadas(fecha)[2] = Fijo((fecha - 1)..(fecha - 1))
           /\ \A i \in {4, 9, 13} : Llamadas(fecha)[i] = Fijo(RangoMesAnterior(fecha))
  BY DEF Llamadas

\* The month of a day, its year, and the month before.
LEMMA Meses ==
    ASSUME NEW dia \in Nat
    PROVE  /\ PrimeroDe(Primeros, dia) \in Nat /\ PrimeroDe(Primeros, dia) \in Primeros
           /\ PrimeroDe(Primeros, dia) <= dia
           /\ PrimeroDe(Eneros, dia) \in Nat /\ PrimeroDe(Eneros, dia) <= PrimeroDe(Primeros, dia)
           /\ dia >= DiaInicial =>
                /\ PrimeroDe(Primeros, dia) - 1 \in Nat
                /\ PrimeroDe(Primeros, PrimeroDe(Primeros, dia) - 1) \in Nat
                /\ PrimeroDe(Primeros, PrimeroDe(Primeros, dia) - 1) \in Primeros
                /\ PrimeroDe(Primeros, PrimeroDe(Primeros, dia) - 1) <= PrimeroDe(Primeros, dia) - 1
  <1>1. Primeros \in SUBSET Primeros /\ Eneros \in SUBSET Primeros /\ 0 \in Primeros /\ 0 \in Eneros
    BY ConstantesReportes
  <1> DEFINE P == PrimeroDe(Primeros, dia)
             E == PrimeroDe(Eneros, dia)
  <1>2. P \in Primeros /\ P <= dia /\ P \in Nat /\ \A p \in Primeros : p <= dia => p <= P
    BY <1>1, PrimeroDeDef
  <1>3. E \in Eneros /\ E <= dia /\ E \in Nat
    BY <1>1, PrimeroDeDef
  <1> HIDE DEF P, E
  <1>4. E <= P
    BY <1>1, <1>2, <1>3
  <1>5. ASSUME dia >= DiaInicial
        PROVE  /\ P - 1 \in Nat
               /\ PrimeroDe(Primeros, P - 1) \in Nat /\ PrimeroDe(Primeros, P - 1) \in Primeros
               /\ PrimeroDe(Primeros, P - 1) <= P - 1
    <2>1. PICK p \in Primeros : 0 < p /\ p <= DiaInicial
      BY ConstantesDeReportes
    <2>2. p \in Nat /\ DiaInicial \in Nat
      BY ConstantesReportes
    <2>3. P >= p
      BY <1>2, <1>5, <2>1, <2>2
    <2>4. P - 1 \in Nat
      BY <1>2, <2>1, <2>2, <2>3
    <2> DEFINE u == P - 1
    <2>5. u \in Nat /\ 0 <= u
      BY <2>4
    <2> HIDE DEF u
    <2>6. PrimeroDe(Primeros, u) \in Nat /\ PrimeroDe(Primeros, u) \in Primeros
          /\ PrimeroDe(Primeros, u) <= u
      BY <1>1, <2>5, PrimeroDeDef
    <2>7. QED
      BY <2>4, <2>6 DEF u
  <1>6. QED
    BY <1>2, <1>3, <1>4, <1>5 DEF P, E

\* Yesterday and last month are days the clock has had.
LEMMA RangosFijos ==
    ASSUME NEW dia \in DiaInicial..UltimoDia
    PROVE  /\ dia \in Nat /\ dia >= DiaInicial
           /\ (dia - 1)..(dia - 1) \in SUBSET DiasReporte
           /\ PrimeroDe(Primeros, PrimeroDe(Primeros, dia) - 1)..(PrimeroDe(Primeros, dia) - 1)
                 \in SUBSET DiasReporte
  <1>1. dia \in Nat /\ dia >= DiaInicial /\ dia <= UltimoDia /\ UltimoDia \in Nat
    BY ConstantesReportes
  <1> DEFINE P == PrimeroDe(Primeros, dia)
             Q == PrimeroDe(Primeros, P - 1)
  <1>2. P \in Nat /\ P <= dia /\ P - 1 \in Nat /\ Q \in Nat
    BY <1>1, Meses
  <1> HIDE DEF P, Q
  <1>3. (dia - 1)..(dia - 1) \in SUBSET DiasReporte /\ Q..(P - 1) \in SUBSET DiasReporte
    BY <1>1, <1>2 DEF DiasReporte
  <1>4. QED
    BY <1>1, <1>3 DEF P, Q

LEMMA RangoAhora ==
    ASSUME NEW fecha \in DiaInicial..UltimoDia, NEW i \in 1..13, hoy \in Nat
    PROVE  /\ RangoEn(Llamadas(fecha)[i], hoy) \in SUBSET Int
           /\ (IF Llamadas(fecha)[i].rango = Vacia THEN Rango(Llamadas(fecha)[i].periodo, Vacia, Vacia)
               ELSE Llamadas(fecha)[i].rango)
              = RangoEn(Llamadas(fecha)[i], hoy)
  <1> DEFINE x == Llamadas(fecha)[i]
             ayer == (fecha - 1)..(fecha - 1)
             anterior == RangoMesAnterior(fecha)
  <1>1. \/ x = Periodo("hoy") \/ x = Periodo("mes") \/ x = Periodo("anio")
        \/ x = Fijo(ayer) \/ x = Fijo(anterior)
    <2>1. i \in {1, 6, 7, 11} \/ i \in {3, 8, 10, 12} \/ i = 5 \/ i = 2 \/ i \in {4, 9, 13}
      OBVIOUS
    <2>2. QED
      BY <2>1, RangosFijos, LlamadasSon
  <1>2. ayer \in SUBSET DiasReporte /\ anterior \in SUBSET DiasReporte
    BY RangosFijos DEF RangoMesAnterior
  <1>3. ayer # Vacia /\ anterior # Vacia
    BY <1>2, ConstantesReportes
  <1>4. hoy..hoy \in SUBSET Int /\ PrimeroDe(Primeros, hoy)..hoy \in SUBSET Int
        /\ PrimeroDe(Eneros, hoy)..hoy \in SUBSET Int
    BY Meses
  <1>5. /\ Rango("hoy", Vacia, Vacia) = hoy..hoy
        /\ Rango("mes", Vacia, Vacia) = PrimeroDe(Primeros, hoy)..hoy
        /\ Rango("anio", Vacia, Vacia) = PrimeroDe(Eneros, hoy)..hoy
    BY ConstantesReportes DEF Rango
  <1> HIDE DEF x, ayer, anterior
  <1>6. SUFFICES /\ RangoEn(x, hoy) \in SUBSET Int
                 /\ (IF x.rango = Vacia THEN Rango(x.periodo, Vacia, Vacia) ELSE x.rango)
                       = RangoEn(x, hoy)
    BY DEF x
  <1>7. ASSUME NEW p \in {"hoy", "mes", "anio"}, x = Periodo(p)
        PROVE  /\ RangoEn(x, hoy) \in SUBSET Int
               /\ (IF x.rango = Vacia THEN Rango(x.periodo, Vacia, Vacia) ELSE x.rango)
                     = RangoEn(x, hoy)
    <2>1. x.rango = Vacia /\ x.periodo = p
      BY <1>7 DEF Periodo
    <2>2. RangoEn(x, hoy) = Rango(p, Vacia, Vacia)
      BY <1>5, <2>1 DEF RangoEn
    <2>3. Rango(p, Vacia, Vacia) \in SUBSET Int
      BY <1>4, <1>5
    <2>4. QED
      BY <2>1, <2>2, <2>3, Zenon
  <1>8. ASSUME NEW r \in {ayer, anterior}, x = Fijo(r)
        PROVE  /\ RangoEn(x, hoy) \in SUBSET Int
               /\ (IF x.rango = Vacia THEN Rango(x.periodo, Vacia, Vacia) ELSE x.rango)
                     = RangoEn(x, hoy)
    <2>1. x.rango = r /\ r # Vacia /\ r \in SUBSET Int
      BY <1>2, <1>3, <1>8, ConstantesReportes DEF Fijo
    <2>2. RangoEn(x, hoy) = r
      BY <2>1 DEF RangoEn
    <2>3. QED
      BY <2>1, <2>2, Zenon
  <1>9. QED
    BY <1>1, <1>7, <1>8

LEMMA InvTableroInicial ==
    ASSUME InitTablero
    PROVE  InvTablero
  <1>1. TypeReportes
    BY TypeReportesInicial DEF InitTablero
  <1>2. tablero.fecha = Vacia /\ tablero.respuestas = << >> /\ hoy = DiaInicial
    BY DEF InitTablero, SinTablero, InitReportes
  <1>3. Pedido
    BY <1>2, ConstantesReportes DEF Pedido, InitTablero, SinTablero, DiasReporte
  <1>4. QED
    BY <1>1, <1>3 DEF InvTablero

LEMMA InvTableroPaso ==
    ASSUME InvTablero, [NextTablero]_varsTablero
    PROVE  InvTablero'
  <1>1. hoy \in Nat /\ hoy \in DiaInicial..UltimoDia /\ DiaInicial \in Nat /\ UltimoDia \in Nat
    BY ConstantesReportes DEF InvTablero, Pedido
  <1>2. CASE NextReportes /\ UNCHANGED tablero
    <2>1. TypeReportes'
      BY <1>2, TypeReportesPaso DEF InvTablero
    <2>2. hoy' = hoy \/ (hoy < UltimoDia /\ hoy' = hoy + 1)
      BY <1>2 DEF NextReportes, AltaCliente, DesactivarServicio, Vender, Editar, Mover, Cobrar,
                  Reembolsar, Amanece
    <2>3. hoy' \in DiaInicial..UltimoDia
      BY <1>1, <2>2
    <2>4. QED
      BY <1>2, <2>1, <2>3 DEF InvTablero, Pedido
  <1>3. CASE AbrirTablero
    <2>1. /\ UNCHANGED <<ventas, cobros, altas, deVenta, hoy>>
          /\ tablero.respuestas = << >> /\ tablero'.respuestas = << >> /\ tablero'.fecha = hoy
          /\ tablero' = [fecha |-> tablero'.fecha, respuestas |-> tablero'.respuestas]
      BY <1>3 DEF AbrirTablero, varsReportes, SinTablero, InvTablero, Pedido
    <2>2. hoy # Vacia
      BY <1>1, ConstantesReportes
    <2>3. TypeReportes'
      BY <2>1 DEF InvTablero, TypeReportes
    <2>4. QED
      BY <1>1, <2>1, <2>2, <2>3 DEF InvTablero, Pedido
  <1>4. CASE Consultar
    <2> DEFINE n == Len(tablero.respuestas) + 1
               x == Llamadas(tablero.fecha)[n]
               dada == [dia |-> hoy, rango |-> RangoEn(x, hoy)]
               Respuesta == [dia : DiasReporte, rango : SUBSET Int]
    <2>1. /\ tablero.fecha # Vacia /\ n <= 13
          /\ UNCHANGED <<ventas, cobros, altas, deVenta, hoy>>
          /\ tablero' = [tablero EXCEPT !.respuestas = Append(@,
               [dia |-> hoy, rango |-> IF x.rango = Vacia THEN Rango(x.periodo, Vacia, Vacia)
                                       ELSE x.rango])]
      BY <1>4 DEF Consultar, varsReportes
    <2>2. n \in 1..13 /\ tablero.respuestas \in Seq(Respuesta) /\ n - 1 = Len(tablero.respuestas)
      BY <2>1 DEF InvTablero, Pedido
    <2>3. tablero.fecha \in Nat /\ tablero.fecha >= DiaInicial
          /\ tablero.fecha \in DiaInicial..UltimoDia
      BY <1>1, <2>1 DEF InvTablero, Pedido
    <2>4. /\ RangoEn(x, hoy) \in SUBSET Int
          /\ (IF x.rango = Vacia THEN Rango(x.periodo, Vacia, Vacia) ELSE x.rango) = RangoEn(x, hoy)
      <3> HIDE DEF n
      <3>1. QED
        BY <1>1, <2>2, <2>3, RangoAhora
    <2>5. /\ tablero' = [fecha |-> tablero.fecha, respuestas |-> Append(tablero.respuestas, dada)]
      <3> HIDE DEF x, n
      <3>1. QED
        BY <2>1, <2>4 DEF InvTablero, Pedido
    <2>6. dada \in Respuesta
      BY <2>4 DEF InvTablero, TypeReportes
    <2>7. /\ tablero'.fecha = tablero.fecha /\ tablero'.respuestas = Append(tablero.respuestas, dada)
          /\ tablero' = [fecha |-> tablero'.fecha, respuestas |-> tablero'.respuestas]
      BY <2>5
    <2>8. dada.dia = hoy /\ dada.rango = RangoEn(Llamadas(tablero.fecha)[n], hoy)
      OBVIOUS
    <2>9. TypeReportes'
      BY <2>1 DEF InvTablero, TypeReportes
    <2>10. Pedido'
      <3> HIDE DEF dada, x
      <3>1. /\ Append(tablero.respuestas, dada) \in Seq(Respuesta)
            /\ Len(Append(tablero.respuestas, dada)) = n
            /\ Append(tablero.respuestas, dada)[n] = dada
            /\ \A i \in 1..(n - 1) : Append(tablero.respuestas, dada)[i] = tablero.respuestas[i]
        <4> HIDE DEF Respuesta
        <4>1. QED
          BY <2>2, <2>6
      <3>2. \A i \in 1..n : Append(tablero.respuestas, dada)[i].rango
               = RangoEn(Llamadas(tablero.fecha)[i], Append(tablero.respuestas, dada)[i].dia)
        <4>1. ASSUME NEW i \in 1..n
              PROVE  Append(tablero.respuestas, dada)[i].rango
                       = RangoEn(Llamadas(tablero.fecha)[i], Append(tablero.respuestas, dada)[i].dia)
          <5>1. CASE i = n
            BY <2>8, <3>1, <5>1
          <5>2. CASE i # n
            <6>1. i \in 1..(n - 1) /\ i \in 1..Len(tablero.respuestas)
              BY <2>2, <5>2
            <6>2. tablero.respuestas[i].rango
                    = RangoEn(Llamadas(tablero.fecha)[i], tablero.respuestas[i].dia)
              BY <6>1 DEF InvTablero, Pedido
            <6>3. QED
              BY <3>1, <6>1, <6>2
          <5>3. QED
            BY <5>1, <5>2
        <4>2. QED
          BY <4>1
      <3>3. hoy' = hoy
        BY <2>1
      <3> HIDE DEF n, Respuesta
      <3>4. QED
        BY <1>1, <2>1, <2>2, <2>3, <2>7, <3>1, <3>2, <3>3 DEF Pedido, Respuesta
    <2>11. QED
      BY <2>9, <2>10 DEF InvTablero
  <1>5. CASE Responder
    <2>1. /\ UNCHANGED <<ventas, cobros, altas, deVenta, hoy>>
          /\ tablero'.respuestas = << >> /\ tablero'.fecha = Vacia
          /\ tablero' = [fecha |-> tablero'.fecha, respuestas |-> tablero'.respuestas]
      BY <1>5 DEF Responder, varsReportes, SinTablero
    <2>2. TypeReportes'
      BY <2>1 DEF InvTablero, TypeReportes
    <2>3. QED
      BY <1>1, <2>1, <2>2 DEF InvTablero, Pedido
  <1>6. CASE UNCHANGED varsTablero
    <2>1. UNCHANGED <<ventas, cobros, altas, deVenta, hoy, tablero>>
      BY <1>6 DEF varsTablero
    <2>2. TypeReportes'
      BY <2>1 DEF InvTablero, TypeReportes
    <2>3. QED
      BY <2>1, <2>2 DEF InvTablero, Pedido
  <1>7. QED
    BY <1>2, <1>3, <1>4, <1>5, <1>6 DEF NextTablero

LEMMA TableroSiempre == SpecTablero => []InvTablero
  BY InvTableroInicial, InvTableroPaso, PTL DEF SpecTablero

\* The clock never goes back: each answer is of the day of the one before it or of a
\* later one, from the day of the response to today.
EnOrdenDeReloj ==
    /\ tablero.fecha # Vacia => tablero.fecha <= hoy
    /\ \A i \in 1..Len(tablero.respuestas) :
          tablero.fecha <= tablero.respuestas[i].dia /\ tablero.respuestas[i].dia <= hoy
    /\ \A j \in 1..Len(tablero.respuestas) : \A i \in 1..j :
          tablero.respuestas[i].dia <= tablero.respuestas[j].dia

LEMMA DiaDeRespuesta ==
    ASSUME NEW s \in Seq([dia : DiasReporte, rango : SUBSET Int]), NEW i \in 1..Len(s)
    PROVE  s[i].dia \in Nat
  <1> DEFINE R == [dia : DiasReporte, rango : SUBSET Int]
  <1>1. s[i] \in R
    <2>1. s \in Seq(R)
      OBVIOUS
    <2> HIDE DEF R
    <2>2. QED
      BY <2>1
  <1>2. DiasReporte \in SUBSET Nat
    BY ConstantesReportes DEF DiasReporte
  <1>3. QED
    BY <1>1, <1>2

\* Two intervals, the second one after the first.
LEMMA DosIntervalos ==
    ASSUME NEW a \in Int, NEW b \in Int, NEW x \in Int, NEW y \in Int,
           a <= b, x <= y, b < x
    PROVE  /\ x..y # {} /\ a..b # {}
           /\ Max(a..b) = b /\ Min(a..b) = a /\ Max(x..y) = y /\ Min(x..y) = x
           /\ Max(a..b) < Min(x..y)
  <1>1. Max(a..b) = b /\ Min(a..b) = a
    BY MaxMinIntervalo
  <1>2. Max(x..y) = y /\ Min(x..y) = x
    BY MaxMinIntervalo
  <1>3. x \in x..y /\ a \in a..b
    OBVIOUS
  <1>4. QED
    BY <1>1, <1>2, <1>3

LEMMA RelojPaso ==
    ASSUME InvTablero, EnOrdenDeReloj, [NextTablero]_varsTablero
    PROVE  EnOrdenDeReloj'
  <1>1. /\ hoy \in Nat /\ tablero.fecha \in Nat \cup {Vacia}
        /\ tablero.respuestas \in Seq([dia : DiasReporte, rango : SUBSET Int])
        /\ tablero.fecha = Vacia => tablero.respuestas = << >>
    BY ConstantesReportes DEF InvTablero, Pedido
  <1>2. \A i \in 1..Len(tablero.respuestas) : tablero.respuestas[i].dia \in Nat
    BY <1>1, DiaDeRespuesta
  <1>3. Len(tablero.respuestas) > 0 => tablero.fecha \in Nat
    BY <1>1
  <1>4. CASE tablero' = tablero /\ hoy' \in Nat /\ hoy' >= hoy
    <2>1. tablero.fecha # Vacia => tablero.fecha <= hoy'
      BY <1>1, <1>4 DEF EnOrdenDeReloj
    <2>2. \A i \in 1..Len(tablero.respuestas) : tablero.respuestas[i].dia <= hoy'
      BY <1>1, <1>2, <1>4 DEF EnOrdenDeReloj
    <2>3. QED
      BY <1>4, <2>1, <2>2 DEF EnOrdenDeReloj
  <1>5. CASE AbrirTablero
    <2>1. hoy' = hoy /\ tablero.respuestas = << >> /\ tablero'.respuestas = << >>
          /\ tablero'.fecha = hoy
      BY <1>5 DEF AbrirTablero, varsReportes, SinTablero, InvTablero, Pedido
    <2>2. Len(tablero'.respuestas) = 0
      BY <2>1
    <2>3. QED
      BY <1>1, <2>1, <2>2 DEF EnOrdenDeReloj
  <1>6. CASE Consultar
    <2>1. PICK x : /\ tablero'.respuestas = Append(tablero.respuestas, x) /\ x.dia = hoy
                   /\ tablero'.fecha = tablero.fecha /\ hoy' = hoy /\ tablero.fecha # Vacia
      BY <1>6 DEF Consultar, varsReportes, InvTablero, Pedido
    <2> DEFINE s == tablero.respuestas
               t == Append(s, x)
               n == Len(s)
    <2>2. /\ Len(t) = n + 1 /\ n \in Nat /\ t[n + 1].dia = hoy
          /\ \A i \in 1..n : t[i] = s[i]
      BY <1>1, <2>1
    <2>3. \A i \in 1..(n + 1) : i \in 1..n \/ i = n + 1
      BY <2>2
    <2>4. tablero.fecha \in Nat /\ tablero.fecha <= hoy
      BY <1>1, <2>1 DEF EnOrdenDeReloj
    <2>5. \A i \in 1..n : /\ tablero.fecha <= s[i].dia /\ s[i].dia <= hoy
                          /\ \A k \in 1..i : s[k].dia <= s[i].dia
      BY DEF EnOrdenDeReloj
    <2> HIDE DEF s, t, n
    <2>6. \A i \in 1..(n + 1) : tablero.fecha <= t[i].dia /\ t[i].dia <= hoy
      BY <1>1, <2>2, <2>3, <2>4, <2>5
    <2>7. ASSUME NEW j \in 1..(n + 1), NEW i \in 1..j PROVE t[i].dia <= t[j].dia
      <3>1. CASE j = n + 1
        BY <2>2, <2>6, <3>1
      <3>2. CASE j \in 1..n
        <4>1. i \in 1..n /\ t[i] = s[i] /\ t[j] = s[j]
          BY <2>2, <3>2
        <4>2. QED
          BY <2>5, <3>2, <4>1
      <3>3. QED
        BY <2>3, <3>1, <3>2
    <2>8. QED
      BY <2>1, <2>2, <2>4, <2>6, <2>7 DEF EnOrdenDeReloj, t, s, n
  <1>7. CASE Responder
    <2>1. tablero'.respuestas = << >> /\ tablero'.fecha = Vacia
      BY <1>7 DEF Responder, SinTablero
    <2>2. Len(tablero'.respuestas) = 0
      BY <2>1
    <2>3. QED
      BY <2>1, <2>2 DEF EnOrdenDeReloj
  <1>8. ASSUME NextReportes, UNCHANGED tablero
        PROVE  tablero' = tablero /\ hoy' \in Nat /\ hoy' >= hoy
    <2>1. hoy' = hoy \/ (hoy < UltimoDia /\ hoy' = hoy + 1)
      BY <1>8 DEF NextReportes, AltaCliente, DesactivarServicio, Vender, Editar, Mover, Cobrar,
                  Reembolsar, Amanece
    <2>2. QED
      BY <1>1, <1>8, <2>1
  <1>9. ASSUME UNCHANGED varsTablero
        PROVE  tablero' = tablero /\ hoy' \in Nat /\ hoy' >= hoy
    BY <1>1, <1>9 DEF varsTablero
  <1>10. QED
    BY <1>4, <1>5, <1>6, <1>7, <1>8, <1>9 DEF NextTablero

LEMMA RelojSiempre == SpecTablero => []EnOrdenDeReloj
  <1>1. InitTablero => EnOrdenDeReloj
    <2>1. ASSUME InitTablero PROVE tablero.respuestas = << >> /\ tablero.fecha = Vacia
      BY <2>1 DEF InitTablero, SinTablero
    <2>2. Len(<< >>) = 0
      OBVIOUS
    <2>3. QED
      BY <2>1, <2>2 DEF EnOrdenDeReloj
  <1>2. InvTablero /\ EnOrdenDeReloj /\ [NextTablero]_varsTablero => EnOrdenDeReloj'
    BY RelojPaso
  <1>3. QED
    BY <1>1, <1>2, TableroSiempre, PTL DEF SpecTablero

\* A year, a month and a day, each asked on its own day, and the month and the day
\* before the first one of all: apart for any midnights between, and next to each
\* other when none has passed that ends a month, or the day
\* (dashboard_service.py:66-69, reporte_service.py:41).
THEOREM ElTableroComparaConsecutivos == SpecTablero => []TableroConsecutivo
  <1>1. ASSUME InvTablero, EnOrdenDeReloj PROVE TableroConsecutivo
    <2> SUFFICES ASSUME Completo PROVE TableroConsecutivo
      BY DEF TableroConsecutivo
    <2> DEFINE f == tablero.fecha
               r(i) == tablero.respuestas[i].rango
               d(i) == tablero.respuestas[i].dia
               M(i) == PrimeroDe(Primeros, d(i))
               A(i) == PrimeroDe(Eneros, d(i))
               P == PrimeroDe(Primeros, f)
               Q == PrimeroDe(Primeros, P - 1)
    <2>1. Len(tablero.respuestas) = 13
      BY DEF Completo
    <2>2. f \in Nat /\ f >= DiaInicial /\ f \in DiaInicial..UltimoDia
      <3>1. f # Vacia
        BY <1>1, <2>1 DEF InvTablero, Pedido
      <3>2. QED
        BY <1>1, <3>1, ConstantesReportes DEF InvTablero, Pedido
    <2>3. \A i \in 1..13 : r(i) = RangoEn(Llamadas(f)[i], d(i))
      BY <1>1, <2>1 DEF InvTablero, Pedido
    <2>4. \A i \in 1..13 : d(i) \in Nat /\ f <= d(i) /\ \A j \in 1..i : d(j) <= d(i)
      <3>1. tablero.respuestas \in Seq([dia : DiasReporte, rango : SUBSET Int])
        BY <1>1 DEF InvTablero, Pedido
      <3>2. \A i \in 1..13 : d(i) \in Nat
        BY <2>1, <3>1, DiaDeRespuesta
      <3>3. \A i \in 1..13 : f <= d(i) /\ \A j \in 1..i : d(j) <= d(i)
        BY <1>1, <2>1 DEF EnOrdenDeReloj
      <3>4. QED
        BY <3>2, <3>3
    <2>5. /\ P \in Nat /\ P \in Primeros /\ P <= f
          /\ P - 1 \in Nat /\ Q \in Nat /\ Q \in Primeros /\ Q <= P - 1
      BY <2>2, Meses
    <2>6. \A i \in 1..13 :
             /\ M(i) \in Nat /\ M(i) \in Primeros /\ M(i) <= d(i) /\ P <= M(i)
             /\ A(i) \in Nat /\ A(i) <= M(i)
             /\ M(i) <= f => M(i) = P
      <3>1. SUFFICES ASSUME NEW i \in 1..13
                     PROVE  /\ M(i) \in Nat /\ M(i) \in Primeros /\ M(i) <= d(i) /\ P <= M(i)
                            /\ A(i) \in Nat /\ A(i) <= M(i)
                            /\ M(i) <= f => M(i) = P
        OBVIOUS
      <3>2. /\ M(i) \in Nat /\ M(i) \in Primeros /\ M(i) <= d(i)
            /\ A(i) \in Nat /\ A(i) <= M(i)
        BY <2>4, Meses
      <3>3. Primeros \in SUBSET Primeros /\ 0 \in Primeros
        BY ConstantesReportes
      <3>4. \A p \in Primeros : p <= d(i) => p <= M(i)
        BY <2>4, <3>3, PrimeroDeDef
      <3>5. \A p \in Primeros : p <= f => p <= P
        BY <2>2, <3>3, PrimeroDeDef
      <3> HIDE DEF f, d, M, A, P, Q
      <3>6. P <= M(i)
        BY <2>2, <2>4, <2>5, <3>4
      <3>7. M(i) <= f => M(i) = P
        BY <2>5, <3>2, <3>5, <3>6
      <3>8. QED
        BY <3>2, <3>6, <3>7
    <2>7. RangoMesAnterior(f) = Q..(P - 1)
      BY DEF RangoMesAnterior
    <2> HIDE DEF f, P, Q
    <2>8. /\ Llamadas(f)[1] = Periodo("hoy") /\ Llamadas(f)[2] = Fijo((f - 1)..(f - 1))
          /\ Llamadas(f)[5] = Periodo("anio")
          /\ \A i \in {3, 8, 12} : Llamadas(f)[i] = Periodo("mes")
          /\ \A i \in {4, 9, 13} : Llamadas(f)[i] = Fijo(Q..(P - 1))
      BY <2>2, <2>7, LlamadasSon
    <2>9. \A i \in 1..13 : /\ RangoEn(Periodo("hoy"), d(i)) = d(i)..d(i)
                           /\ RangoEn(Periodo("mes"), d(i)) = M(i)..d(i)
                           /\ RangoEn(Periodo("anio"), d(i)) = A(i)..d(i)
      BY DEF RangoEn, Periodo
    <2>10. (f - 1)..(f - 1) \in SUBSET DiasReporte /\ Q..(P - 1) \in SUBSET DiasReporte
      BY <2>2, RangosFijos DEF P, Q
    <2>11. ASSUME NEW dia
           PROVE  /\ RangoEn(Fijo((f - 1)..(f - 1)), dia) = (f - 1)..(f - 1)
                  /\ RangoEn(Fijo(Q..(P - 1)), dia) = Q..(P - 1)
      BY <2>10, ConstantesReportes DEF RangoEn, Fijo
    <2> HIDE DEF r, d, M, A
    <2>12. /\ r(1) = d(1)..d(1) /\ r(2) = (f - 1)..(f - 1) /\ r(5) = A(5)..d(5)
           /\ \A i \in {3, 8, 12} : r(i) = M(i)..d(i)
           /\ \A i \in {4, 9, 13} : r(i) = Q..(P - 1)
      <3>1. r(1) = d(1)..d(1)
        BY <2>3, <2>8, <2>9
      <3>2. r(2) = (f - 1)..(f - 1)
        <4>1. r(2) = RangoEn(Llamadas(f)[2], d(2))
          BY <2>3
        <4>2. QED
          BY <2>8, <2>11, <4>1, Zenon
      <3>3. r(5) = A(5)..d(5)
        BY <2>3, <2>8, <2>9
      <3>4. \A i \in {3, 8, 12} : r(i) = M(i)..d(i)
        BY <2>3, <2>8, <2>9
      <3>5. \A i \in {4, 9, 13} : r(i) = Q..(P - 1)
        <4>1. \A i \in {4, 9, 13} : i \in 1..13
          OBVIOUS
        <4>2. QED
          BY <2>3, <2>8, <2>11, <4>1
      <3>6. QED
        BY <3>1, <3>2, <3>3, <3>4, <3>5
    <2>13. ASSUME NEW c \in Comparaciones
           PROVE  /\ r(c[1]) # {} /\ r(c[2]) # {}
                  /\ Max(r(c[2])) < Min(r(c[1]))
                  /\ Max(r(c[1])) = d(c[1])
                  /\ f \in r(c[1]) => Max(r(c[2])) + 1 = Min(r(c[1]))
                  /\ c # <<1, 2>> => {Min(r(c[1])), Min(r(c[2]))} \subseteq Primeros
      <3>1. CASE c = <<1, 2>>
        <4>1. c[1] = 1 /\ c[2] = 2 /\ r(1) = d(1)..d(1) /\ r(2) = (f - 1)..(f - 1)
          BY <2>12, <3>1
        <4>2. d(1) \in Int /\ f - 1 \in Int /\ f - 1 < d(1) /\ (f \in d(1)..d(1) => (f - 1) + 1 = d(1))
          BY <2>2, <2>4
        <4> DEFINE x == d(1)
                   y == f - 1
        <4>3. x \in Int /\ y \in Int /\ x <= x /\ y <= y /\ y < x
          BY <4>2
        <4> HIDE DEF x, y
        <4>4. /\ x..x # {} /\ y..y # {} /\ Max(y..y) = y /\ Max(x..x) = x /\ Min(x..x) = x
              /\ Max(y..y) < Min(x..x)
          <5>1. Max(y..y) = y
            BY <4>3, MaxMinIntervalo
          <5>2. Max(x..x) = x /\ Min(x..x) = x
            BY <4>3, MaxMinIntervalo
          <5>3. x \in x..x /\ y \in y..y
            BY <4>3
          <5>4. QED
            BY <4>3, <5>1, <5>2, <5>3
        <4>5. r(1) = x..x /\ r(2) = y..y /\ x = d(1) /\ (f \in x..x => y + 1 = x)
          BY <4>1, <4>2 DEF x, y
        <4>6. QED
          BY <3>1, <4>1, <4>4, <4>5
      <3>2. CASE c \in {<<3, 4>>, <<8, 9>>, <<12, 13>>}
        <4>1. PICK i \in 1..13 : c[1] = i /\ r(i) = M(i)..d(i) /\ r(c[2]) = Q..(P - 1)
          <5>1. c[1] \in {3, 8, 12} /\ c[2] \in {4, 9, 13}
            BY <3>2
          <5>2. QED
            BY <2>12, <5>1
        <4>2. /\ M(i) \in Int /\ d(i) \in Int /\ Q \in Int /\ P - 1 \in Int
              /\ M(i) <= d(i) /\ Q <= P - 1 /\ P - 1 < M(i)
              /\ M(i) \in Primeros /\ Q \in Primeros
              /\ f \in M(i)..d(i) => (P - 1) + 1 = M(i)
          BY <2>2, <2>4, <2>5, <2>6
        <4> DEFINE x == M(i)
                   y == d(i)
                   z == P - 1
        <4>3. /\ x \in Int /\ y \in Int /\ z \in Int /\ Q \in Int
              /\ x <= y /\ Q <= z /\ z < x
          BY <4>2
        <4>4. /\ r(c[1]) = x..y /\ r(c[2]) = Q..z /\ y = d(c[1])
              /\ (f \in x..y => z + 1 = x) /\ x \in Primeros
          BY <4>1, <4>2
        <4> HIDE DEF x, y, z
        <4>5. /\ x..y # {} /\ Q..z # {}
              /\ Max(Q..z) = z /\ Min(Q..z) = Q /\ Max(x..y) = y /\ Min(x..y) = x
              /\ Max(Q..z) < Min(x..y)
          BY <4>3, DosIntervalos
        <4>6. QED
          BY <4>2, <4>4, <4>5
      <3>3. QED
        BY <3>1, <3>2 DEF Comparaciones
    <2>14. f \in r(3) => r(1) \subseteq r(3)
      <3>1. r(1) = d(1)..d(1) /\ r(3) = M(3)..d(3)
        BY <2>12
      <3>2. d(1) \in Nat /\ d(3) \in Nat /\ M(3) \in Nat /\ f <= d(1) /\ d(1) <= d(3)
        BY <2>4, <2>6
      <3>3. QED
        BY <2>2, <3>1, <3>2
    <2>15. f \in r(5) => r(3) \subseteq r(5)
      <3>1. r(3) = M(3)..d(3) /\ r(5) = A(5)..d(5)
        BY <2>12
      <3>2. /\ d(3) \in Nat /\ d(5) \in Nat /\ M(3) \in Nat /\ A(5) \in Nat /\ d(3) <= d(5)
            /\ P <= M(3)
        BY <2>4, <2>6
      <3>3. A(5) <= f => A(5) <= P
        <4>1. Eneros \in SUBSET Primeros /\ Primeros \in SUBSET Primeros /\ 0 \in Primeros /\ 0 \in Eneros
          BY ConstantesReportes
        <4>2. \A p \in Primeros : p <= f => p <= P
          BY <2>2, <4>1, PrimeroDeDef DEF P
        <4>3. A(5) \in Primeros
          <5>1. d(5) \in Nat /\ 0 <= d(5)
            BY <2>4
          <5>2. QED
            BY <4>1, <5>1, PrimeroDeDef DEF A
        <4>4. QED
          BY <4>2, <4>3
      <3>4. QED
        BY <2>2, <2>5, <3>1, <3>2, <3>3
    <2>16. QED
      BY <2>13, <2>14, <2>15 DEF TableroConsecutivo, f, r, d
  <1>2. QED
    BY <1>1, TableroSiempre, RelojSiempre, PTL

-------------------------------------------------------------------------------
\* The rows of a table of payments with their sign, and their sum.
Firmado(c) == [i \in DOMAIN c |-> IF c[i].tipo = "pago" THEN c[i].monto ELSE 0 - c[i].monto]

NetoDe(c, S) ==
    MapThenSumSet(LAMBDA i : c[i].monto, {i \in S : c[i].tipo = "pago"})
       - MapThenSumSet(LAMBDA i : c[i].monto, {i \in S : c[i].tipo = "reembolso"})

LEMMA ColumnaTotal ==
    ASSUME NEW c, NEW A
    PROVE  MapThenSumSet(LAMBDA i : c[i].monto, A) = Total([i \in A |-> c[i].monto], A)
  BY DEF MapThenSumSet, MapThenFoldSet, Total, Acumula, Elige

LEMMA NetoTotal ==
    ASSUME NEW c \in Seq(Cobro), NEW S \in SUBSET DOMAIN c
    PROVE  /\ NetoDe(c, S) = Total(Firmado(c), S)
           /\ IsFiniteSet(S)
           /\ \A i \in S : Firmado(c)[i] \in Int
           /\ NetoDe(c, S) \in Int
  <1> DEFINE A == {i \in S : c[i].tipo = "pago"}
             B == {i \in S : c[i].tipo = "reembolso"}
             F == Firmado(c)
             fa == [i \in A |-> c[i].monto]
             fb == [i \in B |-> c[i].monto]
             cero == [i \in B |-> 0]
  <1>1. IsFiniteSet(DOMAIN c)
    <2>1. DOMAIN c = 1..Len(c) /\ Len(c) \in Nat
      OBVIOUS
    <2>2. QED
      BY <2>1, FS_Interval
  <1>2. IsFiniteSet(S)
    BY <1>1, FS_Subset
  <1>3. ASSUME NEW i \in S
        PROVE  /\ c[i].monto \in Nat /\ c[i].tipo \in {"pago", "reembolso"}
               /\ F[i] = IF c[i].tipo = "pago" THEN c[i].monto ELSE 0 - c[i].monto
    <2>1. c[i] \in Cobro
      OBVIOUS
    <2>2. c[i].monto \in Nat /\ c[i].tipo \in {"pago", "reembolso"}
      BY <2>1 DEF Cobro
    <2>3. QED
      BY <2>2 DEF Firmado
  <1>4. NetoDe(c, S) = Total(fa, A) - Total(fb, B)
    <2>1. MapThenSumSet(LAMBDA i : c[i].monto, A) = Total(fa, A)
      BY ColumnaTotal
    <2>2. MapThenSumSet(LAMBDA i : c[i].monto, B) = Total(fb, B)
      BY ColumnaTotal
    <2>3. NetoDe(c, S) = MapThenSumSet(LAMBDA i : c[i].monto, A)
                           - MapThenSumSet(LAMBDA i : c[i].monto, B)
      BY DEF NetoDe
    <2>4. QED
      BY <2>1, <2>2, <2>3
  <1>5. \A i \in S : F[i] \in Int
    BY <1>3
  <1>6. /\ \A i \in A : fa[i] \in Int /\ F[i] = fa[i]
        /\ \A i \in B : fb[i] \in Int /\ cero[i] = 0 /\ F[i] = cero[i] - fb[i]
    BY <1>3
  <1>7. A \in SUBSET S /\ B \in SUBSET S /\ S \ A = B
    BY <1>3
  <1>8. IsFiniteSet(A) /\ IsFiniteSet(B)
    <2> HIDE DEF A, B
    <2>1. QED
      BY <1>2, <1>7, FS_Subset
  <1> HIDE DEF A, B, F, fa, fb, cero
  <1>9. Total(fa, A) = Total(F, A)
    BY <1>6, <1>8, TotalIgual
  <1>10. Total(F, B) = Total(cero, B) - Total(fb, B) /\ Total(cero, B) = 0
    <2>1. \A i \in B : cero[i] \in Int /\ fb[i] \in Int /\ F[i] = cero[i] - fb[i] /\ cero[i] = 0
      BY <1>6
    <2>2. QED
      BY <1>8, <2>1, TotalResta, TotalCero
  <1>11. Total(F, S) = Total(F, A) + Total(F, B)
    BY <1>2, <1>5, <1>7, TotalPartes
  <1>12. Total(fa, A) \in Int /\ Total(fb, B) \in Int
    BY <1>6, <1>8, TotalTipo
  <1>13. NetoDe(c, S) = Total(F, S) /\ NetoDe(c, S) \in Int
    BY <1>4, <1>9, <1>10, <1>11, <1>12
  <1>14. QED
    BY <1>2, <1>5, <1>13 DEF F

\* The variables in the notation of the lemma.
LEMMA NetoEs ==
    ASSUME TypeReportes, NEW S \in SUBSET DOMAIN cobros
    PROVE  /\ Neto(S) = NetoDe(cobros, S) /\ Neto(S) = Total(Firmado(cobros), S)
           /\ Neto(S) \in Int
           /\ IsFiniteSet(S)
           /\ \A i \in S : Firmado(cobros)[i] \in Int
  <1>1. cobros \in Seq(Cobro)
    BY DEF TypeReportes
  <1>2. Neto(S) = NetoDe(cobros, S)
    BY DEF Neto, Ingresado, SumaDe, NetoDe
  <1>3. QED
    BY <1>1, <1>2, NetoTotal

LEMMA ReportesSiempre == SpecReportes => []TypeReportes
  <1>1. TypeReportes /\ [NextReportes]_varsReportes => TypeReportes'
    BY TypeReportesPaso
  <1>2. QED
    BY <1>1, TypeReportesInicial, PTL DEF SpecReportes

\* A product by a natural keeps away from zero as its other factor does.
LEMMA ProductoSigno ==
    ASSUME NEW d \in Nat, NEW e \in Int
    PROVE  /\ d * e \in Int
           /\ e >= 1 => d * e >= d
           /\ e <= -1 => d * e <= -d
  <1>1. d * e \in Int
    OBVIOUS
  <1>2. ASSUME e >= 1 PROVE d * e >= d
    <2>1. e - 1 \in Nat /\ d * (e - 1) \in Nat
      BY <1>2
    <2>2. d * e = d * (e - 1) + d
      OBVIOUS
    <2>3. QED
      BY <2>1, <2>2
  <1>3. ASSUME e <= -1 PROVE d * e <= -d
    <2>1. -1 - e \in Nat /\ d * (-1 - e) \in Nat
      BY <1>3
    <2>2. d * e = -(d * (-1 - e)) - d
      OBVIOUS
    <2>3. QED
      BY <2>1, <2>2
  <1>4. QED
    BY <1>1, <1>2, <1>3

\* A quotient rounded to the even neighbour has the sign of its dividend, and is zero
\* for a dividend of at most half the divisor.
LEMMA RedondeoCerca ==
    ASSUME NEW n \in Int, NEW d \in Nat \ {0}
    PROVE  /\ RedondeoPar(n, d) \in Int
           /\ RedondeoPar(n, d) > 0 => n > 0
           /\ RedondeoPar(n, d) < 0 => n < 0
           /\ RedondeoPar(n, d) = 0 => 2 * Magnitud(n) <= d
  <1> DEFINE e == n \div d
             m == n % d
             q == RedondeoPar(n, d)
  <1>1. e \in Int /\ m \in 0..(d - 1) /\ n = d * e + m
    OBVIOUS
  <1>2. q = IF 2 * m > d \/ (2 * m = d /\ e % 2 = 1) THEN e + 1 ELSE e
    BY DEF RedondeoPar
  <1> HIDE DEF e, m, q
  <1>3. (q = e + 1 /\ 2 * m >= d) \/ (q = e /\ 2 * m <= d)
    BY <1>1, <1>2
  <1>4. e >= 1 => d * e >= d
    BY <1>1, ProductoSigno
  <1>5. e <= -1 => d * e <= -d
    BY <1>1, ProductoSigno
  <1> DEFINE p == d * e
  <1>6. p \in Int /\ n = p + m /\ (e >= 1 => p >= d) /\ (e <= -1 => p <= -d) /\ (e = 0 => p = 0)
        /\ (e = -1 => p = -d)
    BY <1>1, <1>4, <1>5
  <1> HIDE DEF p
  <1>7. q \in Int
    BY <1>1, <1>3
  <1>8. q > 0 => n > 0
    BY <1>1, <1>3, <1>6
  <1>9. q < 0 => n < 0
    BY <1>1, <1>3, <1>6
  <1>10. q = 0 => 2 * Magnitud(n) <= d
    BY <1>1, <1>3, <1>6 DEF Magnitud
  <1>11. QED
    BY <1>7, <1>8, <1>9, <1>10 DEF q
\* A card between any two incomes, negative ones too: neither the division by the
\* magnitude nor the rounding turns the percentage against the arrow, and only a
\* change below half of the last digit is shown as 0 (dashboard_service.py:45-55).
THEOREM LaTarjetaEsCoherente == SpecTablero => []TarjetaCoherente
  <1>1. ASSUME InvTablero PROVE TarjetaCoherente
    <2> SUFFICES ASSUME NEW r \in Rangos, NEW s \in Rangos
                 PROVE  LET a == Neto(CobrosDe(r, Vacia, Vacia))
                            b == Neto(CobrosDe(s, Vacia, Vacia))
                            t == Tarjeta(a, b)
                        IN  IF b = 0 THEN t.porcentaje = Vacia
                            ELSE /\ t.porcentaje > 0 => t.tendencia = "up"
                                 /\ t.porcentaje < 0 => t.tendencia = "down"
                                 /\ t.porcentaje = 0 =>
                                       2 * Magnitud(Variacion(a, b)) <= Magnitud(b)
      BY Zenon DEF TarjetaCoherente
    <2> DEFINE a == Neto(CobrosDe(r, Vacia, Vacia))
               b == Neto(CobrosDe(s, Vacia, Vacia))
    <2>1. a \in Int /\ b \in Int
      <3>1. CobrosDe(r, Vacia, Vacia) \in SUBSET DOMAIN cobros
            /\ CobrosDe(s, Vacia, Vacia) \in SUBSET DOMAIN cobros
        BY DEF CobrosDe
      <3>2. QED
        BY <1>1, <3>1, NetoEs DEF InvTablero
    <2> HIDE DEF a, b
    <2>2. b = 0 => Tarjeta(a, b).porcentaje = Vacia
      BY DEF Tarjeta
    <2>3. ASSUME b # 0
          PROVE  /\ Tarjeta(a, b).porcentaje > 0 => Tarjeta(a, b).tendencia = "up"
                 /\ Tarjeta(a, b).porcentaje < 0 => Tarjeta(a, b).tendencia = "down"
                 /\ Tarjeta(a, b).porcentaje = 0 =>
                       2 * Magnitud(Variacion(a, b)) <= Magnitud(b)
      <3> DEFINE n == Variacion(a, b)
                 q == RedondeoPar(n, Magnitud(b))
      <3>1. PartesPorUnidad \in Nat \ {0} /\ Magnitud(b) \in Nat \ {0}
        BY <2>1, <2>3, ConstanteDelTablero DEF Magnitud
      <3>2. n \in Int /\ (n > 0 => a > b) /\ (n < 0 => a < b)
        <4> DEFINE e == a - b
        <4>1. e \in Int /\ n = PartesPorUnidad * e
          BY <2>1 DEF Variacion
        <4> HIDE DEF e, n
        <4>2. /\ n \in Int
              /\ e >= 1 => n >= PartesPorUnidad
              /\ e <= -1 => n <= -PartesPorUnidad
              /\ e = 0 => n = 0
          BY <3>1, <4>1, ProductoSigno
        <4>3. n \in Int /\ (n > 0 => e > 0) /\ (n < 0 => e < 0)
          BY <3>1, <4>1, <4>2
        <4>4. QED
          BY <2>1, <4>3 DEF e
      <3> HIDE DEF n
      <3>3. /\ q \in Int /\ (q > 0 => n > 0) /\ (q < 0 => n < 0)
            /\ q = 0 => 2 * Magnitud(n) <= Magnitud(b)
        BY <3>1, <3>2, RedondeoCerca
      <3>4. /\ Tarjeta(a, b).porcentaje = q
            /\ Tarjeta(a, b).tendencia = Flecha(a, b)
        BY <2>3 DEF Tarjeta, n
      <3> HIDE DEF q
      <3>5. (a > b => Flecha(a, b) = "up") /\ (a < b => Flecha(a, b) = "down")
        BY <2>1 DEF Flecha
      <3>6. QED
        BY <3>2, <3>3, <3>4, <3>5 DEF n
    <2>4. QED
      BY <2>2, <2>3 DEF a, b
  <1>2. QED
    BY <1>1, TableroSiempre, PTL

\* The dashboard compares periods that touch, and its cards say what their figures
\* are, for any calendar and any activity of the park (dashboard_service.py).
THEOREM ElTableroEsFiel == SpecTablero => []TableroFiel
  <1>1. TableroConsecutivo /\ TarjetaCoherente => TableroFiel
    BY DEF TableroFiel
  <1>2. QED
    BY <1>1, ElTableroComparaConsecutivos, LaTarjetaEsCoherente, PTL

\* No later step changes the income of a day before yesterday: a payment is dated
\* when its transaction begins, today or yesterday, and the rest of the operations
\* leave the payments alone (pago.py, reporte_service.py:96).
THEOREM ElCorteNoCambia == SpecReportes => CorteCerrado
  <1>1. ASSUME TypeReportes, TypeReportes', [NextReportes]_varsReportes,
               NEW r \in Rangos, \A d \in r : d < hoy - 1
        PROVE  Neto(CobrosDe(r, Vacia, Vacia))' = Neto(CobrosDe(r, Vacia, Vacia))
    <2> DEFINE S == {i \in DOMAIN cobros : cobros[i].fecha \in r}
               T == {i \in DOMAIN cobros' : cobros'[i].fecha \in r}
    <2>1. CobrosDe(r, Vacia, Vacia) = S /\ CobrosDe(r, Vacia, Vacia)' = T
      BY DEF CobrosDe
    <2>2. Neto(CobrosDe(r, Vacia, Vacia)) = NetoDe(cobros, S)
          /\ Neto(CobrosDe(r, Vacia, Vacia))' = NetoDe(cobros', T)
      <3>1. Neto(CobrosDe(r, Vacia, Vacia)) = NetoDe(cobros, CobrosDe(r, Vacia, Vacia))
        BY DEF Neto, Ingresado, SumaDe, NetoDe
      <3>2. Neto(CobrosDe(r, Vacia, Vacia))' = NetoDe(cobros', CobrosDe(r, Vacia, Vacia)')
        BY DEF Neto, Ingresado, SumaDe, NetoDe, MapThenSumSet, MapThenFoldSet
      <3>3. QED
        BY <2>1, <3>1, <3>2
    <2>3. CASE UNCHANGED cobros
      BY <2>2, <2>3
    <2>4. CASE \E c \in Cobro : c.fecha \in {hoy, hoy - 1} /\ cobros' = Append(cobros, c)
      <3>1. PICK c \in Cobro : c.fecha \in {hoy, hoy - 1} /\ cobros' = Append(cobros, c)
        BY <2>4
      <3>2. cobros \in Seq(Cobro) /\ cobros' \in Seq(Cobro) /\ hoy \in Nat
        BY <1>1, ConstantesReportes DEF TypeReportes
      <3> DEFINE n == Len(cobros)
      <3>3. /\ n \in Nat /\ DOMAIN cobros = 1..n /\ DOMAIN cobros' = 1..(n + 1)
            /\ cobros'[n + 1] = c
            /\ \A i \in 1..n : cobros'[i] = cobros[i]
        BY <3>1, <3>2
      <3>4. c.fecha \notin r
        <4>1. ~(hoy < hoy - 1) /\ ~(hoy - 1 < hoy - 1)
          BY <3>2
        <4>2. QED
          BY <1>1, <3>1, <4>1
      <3> HIDE DEF n
      <3>5. T = S
        BY <3>3, <3>4
      <3>6. S \in SUBSET DOMAIN cobros /\ S \in SUBSET DOMAIN cobros'
        BY <3>3
      <3>7. \A i \in S : Firmado(cobros')[i] = Firmado(cobros)[i]
        BY <3>3, <3>6 DEF Firmado
      <3> HIDE DEF S, T
      <3>8. /\ NetoDe(cobros, S) = Total(Firmado(cobros), S) /\ IsFiniteSet(S)
            /\ \A i \in S : Firmado(cobros)[i] \in Int
        BY <3>2, <3>6, NetoTotal
      <3>9. NetoDe(cobros', S) = Total(Firmado(cobros'), S)
        BY <3>2, <3>6, NetoTotal
      <3>10. Total(Firmado(cobros), S) = Total(Firmado(cobros'), S)
        BY <3>7, <3>8, TotalIgual
      <3>11. QED
        BY <2>2, <3>5, <3>8, <3>9, <3>10
    <2>5. UNCHANGED cobros \/ \E c \in Cobro : c.fecha \in {hoy, hoy - 1} /\ cobros' = Append(cobros, c)
      BY <1>1, VentasPaso
    <2>6. QED
      BY <2>3, <2>4, <2>5
  <1>2. TypeReportes /\ TypeReportes' /\ [NextReportes]_varsReportes =>
           [\A r \in Rangos :
               (\A d \in r : d < hoy - 1) =>
                   Neto(CobrosDe(r, Vacia, Vacia))' = Neto(CobrosDe(r, Vacia, Vacia))]_varsReportes
    BY <1>1
  <1>3. QED
    BY <1>2, ReportesSiempre, PTL DEF SpecReportes, CorteCerrado

\* The payments of a visit.
DeLaVenta(c, v) == {i \in DOMAIN c : c[i].venta = v}

LEMMA NetoAgrega ==
    ASSUME NEW c \in Seq(Cobro), NEW x \in Cobro, NEW v
    PROVE  NetoDe(Append(c, x), DeLaVenta(Append(c, x), v))
             = NetoDe(c, DeLaVenta(c, v)) + (IF x.venta = v THEN ConSignoDe(x) ELSE 0)
  <1> DEFINE d == Append(c, x)
             n == Len(c)
             S == DeLaVenta(c, v)
             T == DeLaVenta(d, v)
  <1>1. /\ n \in Nat /\ d \in Seq(Cobro) /\ DOMAIN c = 1..n /\ DOMAIN d = 1..(n + 1)
        /\ d[n + 1] = x /\ \A i \in 1..n : d[i] = c[i]
    OBVIOUS
  <1> HIDE DEF d, n
  <1>2. n + 1 \in 1..(n + 1) /\ n + 1 \notin 1..n /\ \A i \in 1..(n + 1) : i \in 1..n \/ i = n + 1
    BY <1>1
  <1>3. /\ S \in SUBSET DOMAIN c /\ S \in SUBSET DOMAIN d /\ n + 1 \notin S
        /\ T = (IF x.venta = v THEN S \cup {n + 1} ELSE S)
    BY <1>1, <1>2 DEF DeLaVenta
  <1>4. T \in SUBSET DOMAIN d
    BY DEF DeLaVenta
  <1> DEFINE k == n + 1
  <1> HIDE DEF S, T
  <1>5. /\ \A i \in S : Firmado(d)[i] = Firmado(c)[i]
        /\ Firmado(d)[k] = ConSignoDe(x)
    BY <1>1, <1>2, <1>3 DEF Firmado, ConSignoDe
  <1>6. /\ NetoDe(c, S) = Total(Firmado(c), S) /\ IsFiniteSet(S) /\ NetoDe(c, S) \in Int
        /\ \A i \in S : Firmado(c)[i] \in Int
    BY <1>3, NetoTotal
  <1>7. NetoDe(d, T) = Total(Firmado(d), T) /\ \A i \in T : Firmado(d)[i] \in Int
    BY <1>1, <1>4, NetoTotal
  <1>8. Total(Firmado(c), S) = Total(Firmado(d), S) /\ \A i \in S : Firmado(d)[i] \in Int
    BY <1>5, <1>6, TotalIgual
  <1>9. CASE x.venta = v
    <2>1. T = S \cup {k} /\ k \notin S /\ k \in T
      BY <1>3, <1>9
    <2> HIDE DEF k
    <2>2. Firmado(d)[k] \in Int
      BY <1>7, <2>1
    <2>3. Total(Firmado(d), S \cup {k}) = Firmado(d)[k] + Total(Firmado(d), S)
      BY <1>6, <1>8, <2>1, <2>2, TotalAgrega
    <2>4. NetoDe(d, T) = NetoDe(c, S) + ConSignoDe(x)
      BY <1>5, <1>6, <1>7, <1>8, <2>1, <2>2, <2>3
    <2>5. QED
      BY <1>9, <2>4 DEF S, T, d
  <1>10. CASE x.venta # v
    <2>1. NetoDe(d, T) = NetoDe(c, S)
      BY <1>3, <1>6, <1>7, <1>8, <1>10
    <2>2. NetoDe(d, T) = NetoDe(c, S) + 0
      BY <1>6, <2>1
    <2>3. QED
      BY <1>10, <2>2 DEF S, T, d
  <1>11. QED
    BY <1>9, <1>10

\* The paid amount of each visit is the sum of its payments.
PagadoCuadra ==
    /\ \A i \in DOMAIN cobros : cobros[i].venta \in Registradas
    /\ \A v \in Registradas : ventas[v].pagado = NetoDe(cobros, DeLaVenta(cobros, v))

LEMMA PagadoCuadraInicial ==
    ASSUME InitReportes
    PROVE  PagadoCuadra
  <1>1. DOMAIN cobros = {} /\ Registradas = {}
    BY DEF InitReportes, Registradas
  <1>2. QED
    BY <1>1 DEF PagadoCuadra

LEMMA PagadoCuadraPaso ==
    ASSUME TypeReportes, PagadoCuadra, [NextReportes]_varsReportes
    PROVE  PagadoCuadra'
  <1>0. cobros \in Seq(Cobro) /\ Registradas \in SUBSET Ventas
    BY DEF TypeReportes, Registradas
  <1>1. CASE UNCHANGED <<ventas, cobros>>
    BY <1>1 DEF PagadoCuadra, Registradas
  <1>2. CASE \E v \in Ventas \ Registradas, e \in Venta :
                 /\ ventas' = [ventas EXCEPT ![v] = e] /\ UNCHANGED cobros
                 /\ e.pagado = 0
    <2>1. PICK v \in Ventas \ Registradas, e \in Venta :
                 /\ ventas' = [ventas EXCEPT ![v] = e] /\ UNCHANGED cobros
                 /\ e.pagado = 0
      BY <1>2
    <2>2. /\ Registradas' = Registradas \cup {v}
          /\ ventas'[v] = e /\ \A w \in Registradas : ventas'[w] = ventas[w]
      BY <1>0, <2>1, FilaEscrita
    <2>3. DeLaVenta(cobros, v) = {}
      BY DEF PagadoCuadra, DeLaVenta
    <2>4. NetoDe(cobros, {}) = 0
      <3>1. {} \in SUBSET DOMAIN cobros
        OBVIOUS
      <3>2. QED
        BY <1>0, <3>1, NetoTotal, TotalVacio
    <2>5. \A w \in Registradas' : ventas'[w].pagado = NetoDe(cobros, DeLaVenta(cobros, w))
      BY <2>1, <2>2, <2>3, <2>4 DEF PagadoCuadra
    <2>6. \A i \in DOMAIN cobros : cobros[i].venta \in Registradas'
      BY <2>2 DEF PagadoCuadra
    <2>7. QED
      BY <2>1, <2>5, <2>6 DEF PagadoCuadra
  <1>3. CASE \E v \in Registradas, e \in Venta :
                 /\ ventas' = [ventas EXCEPT ![v] = e] /\ UNCHANGED cobros
                 /\ e.pagado = ventas[v].pagado
    <2>1. PICK v \in Registradas, e \in Venta :
                 /\ ventas' = [ventas EXCEPT ![v] = e] /\ UNCHANGED cobros
                 /\ e.pagado = ventas[v].pagado
      BY <1>3
    <2>2. /\ Registradas' = Registradas \cup {v}
          /\ ventas'[v] = e /\ \A w \in Ventas : w # v => ventas'[w] = ventas[w]
      BY <1>0, <2>1, FilaEscrita
    <2>3. Registradas' = Registradas
      BY <2>2
    <2>4. \A w \in Registradas : ventas'[w].pagado = ventas[w].pagado
      BY <1>0, <2>1, <2>2
    <2>5. \A w \in Registradas' : ventas'[w].pagado = NetoDe(cobros, DeLaVenta(cobros, w))
      BY <2>3, <2>4 DEF PagadoCuadra
    <2>6. \A i \in DOMAIN cobros : cobros[i].venta \in Registradas'
      BY <2>3 DEF PagadoCuadra
    <2>7. QED
      BY <2>1, <2>5, <2>6 DEF PagadoCuadra
  <1>4. CASE \E v \in Registradas, e \in Venta, c \in Cobro :
                 /\ ventas' = [ventas EXCEPT ![v] = e] /\ cobros' = Append(cobros, c)
                 /\ e.pagado = ventas[v].pagado + ConSignoDe(c)
                 /\ c.venta = v /\ c.fecha \in {hoy, hoy - 1}
    <2>1. PICK v \in Registradas, e \in Venta, c \in Cobro :
                 /\ ventas' = [ventas EXCEPT ![v] = e] /\ cobros' = Append(cobros, c)
                 /\ e.pagado = ventas[v].pagado + ConSignoDe(c)
                 /\ c.venta = v
      BY <1>4
    <2>2. /\ Registradas' = Registradas \cup {v}
          /\ ventas'[v] = e /\ \A w \in Ventas : w # v => ventas'[w] = ventas[w]
      BY <1>0, <2>1, FilaEscrita
    <2>3. Registradas' = Registradas
      BY <2>2
    <2>4. ASSUME NEW w \in Registradas
          PROVE  ventas'[w].pagado
                   = NetoDe(Append(cobros, c), DeLaVenta(Append(cobros, c), w))
      <3>1. NetoDe(Append(cobros, c), DeLaVenta(Append(cobros, c), w))
              = NetoDe(cobros, DeLaVenta(cobros, w)) + (IF c.venta = w THEN ConSignoDe(c) ELSE 0)
        BY <1>0, NetoAgrega
      <3>2. ventas[w].pagado = NetoDe(cobros, DeLaVenta(cobros, w)) /\ ventas[w].pagado \in Int
        <4>1. ventas[w] \in Venta
          BY DEF TypeReportes, Registradas
        <4>2. QED
          BY <4>1 DEF PagadoCuadra, Venta
      <3>3. CASE w = v
        BY <2>1, <2>2, <3>1, <3>2, <3>3
      <3>4. CASE w # v
        <4>1. ventas'[w].pagado = ventas[w].pagado
          BY <1>0, <2>2, <3>4
        <4>2. NetoDe(Append(cobros, c), DeLaVenta(Append(cobros, c), w)) = ventas[w].pagado + 0
          BY <2>1, <3>1, <3>2, <3>4
        <4>3. QED
          BY <3>2, <4>1, <4>2
      <3>5. QED
        BY <3>3, <3>4
    <2>5. \A w \in Registradas' : ventas'[w].pagado = NetoDe(cobros', DeLaVenta(cobros', w))
      BY <2>1, <2>3, <2>4
    <2>6. \A i \in DOMAIN cobros' : cobros'[i].venta \in Registradas'
      <3>1. /\ DOMAIN cobros = 1..Len(cobros) /\ DOMAIN Append(cobros, c) = 1..(Len(cobros) + 1)
            /\ Append(cobros, c)[Len(cobros) + 1] = c /\ Len(cobros) \in Nat
            /\ \A i \in 1..Len(cobros) : Append(cobros, c)[i] = cobros[i]
        BY <1>0
      <3>2. \A i \in 1..(Len(cobros) + 1) : i \in 1..Len(cobros) \/ i = Len(cobros) + 1
        BY <3>1
      <3>3. \A i \in DOMAIN Append(cobros, c) : Append(cobros, c)[i].venta \in Registradas
        BY <2>1, <3>1, <3>2 DEF PagadoCuadra
      <3>4. QED
        BY <2>1, <2>3, <3>3
    <2>7. QED
      BY <2>5, <2>6 DEF PagadoCuadra
  <1>5. QED
    BY <1>1, <1>2, <1>3, <1>4, VentasPaso

LEMMA PagadoSiempre == SpecReportes => [](TypeReportes /\ PagadoCuadra)
  BY TypeReportesInicial, TypeReportesPaso, PagadoCuadraInicial, PagadoCuadraPaso, PTL DEF SpecReportes

\* The group of a payment in a series.
Clave(i, agrupar) ==
    IF agrupar = "metodo_pago" THEN cobros[i].metodo ELSE Grupo(cobros[i].fecha, agrupar)

\* The payments of a set in one group.
DelGrupo(S, c, k) == {i \in S : c[i] = k}

Claves(r, agrupar) == [i \in CobrosDe(r, Vacia, Vacia) |-> Clave(i, agrupar)]

LEMMA SerieDe ==
    ASSUME NEW r, NEW g
    PROVE  LET S == CobrosDe(r, Vacia, Vacia)
               serie == ReporteIngresos(r, g, Vacia, Vacia).serie
           IN  /\ DOMAIN serie = {Claves(r, g)[i] : i \in S}
               /\ \A k \in DOMAIN serie :
                     /\ serie[k].ingresos - serie[k].reembolsos = Neto(DelGrupo(S, Claves(r, g), k))
                     /\ serie[k].neto = Neto(DelGrupo(S, Claves(r, g), k))
  <1> DEFINE S == CobrosDe(r, Vacia, Vacia)
             c == Claves(r, g)
             serie == ReporteIngresos(r, g, Vacia, Vacia).serie
             fila(X) == [ingresos |-> Ingresado(X, "pago"),
                         reembolsos |-> Ingresado(X, "reembolso"), neto |-> Neto(X)]
             D == {Clave(i, g) : i \in S}
  <1>1. serie = [k \in D |-> fila({i \in S : Clave(i, g) = k})]
    BY DEF ReporteIngresos, Clave
  <1>2. \A X : Neto(X) = Ingresado(X, "pago") - Ingresado(X, "reembolso")
    BY DEF Neto
  <1>3. \A X : fila(X).ingresos - fila(X).reembolsos = Neto(X) /\ fila(X).neto = Neto(X)
    BY <1>2
  <1>4. D = {c[i] : i \in S}
    BY DEF Claves
  <1>5. ASSUME NEW k PROVE {i \in S : Clave(i, g) = k} = DelGrupo(S, c, k)
    BY DEF Claves, DelGrupo
  <1>6. DOMAIN serie = D
    BY <1>1
  <1>7. ASSUME NEW k \in D
        PROVE  serie[k].ingresos - serie[k].reembolsos = Neto(DelGrupo(S, c, k))
               /\ serie[k].neto = Neto(DelGrupo(S, c, k))
    <2> HIDE DEF serie, fila, D
    <2>1. serie[k] = fila({i \in S : Clave(i, g) = k})
      BY <1>1
    <2>2. serie[k] = fila(DelGrupo(S, c, k))
      BY <1>5, <2>1, Zenon
    <2>3. QED
      BY <1>3, <2>2
  <1> HIDE DEF S, c, serie, D
  <1>8. QED
    BY <1>4, <1>6, <1>7 DEF S, c, serie

LEMMA NetoReporte ==
    \A r, g, m, s : ReporteIngresos(r, g, m, s).neto = Neto(CobrosDe(r, m, s))
  BY DEF ReporteIngresos

\* However a set of payments is grouped, the groups add up to it.
LEMMA NetoPorGrupos ==
    ASSUME TypeReportes, NEW S \in SUBSET DOMAIN cobros, NEW K, IsFiniteSet(K),
           NEW c, \A i \in S : c[i] \in K,
           NEW g, \A k \in K : g[k] = Neto(DelGrupo(S, c, k))
    PROVE  Total(g, K) = Neto(S)
  <1>1. /\ Neto(S) = Total(Firmado(cobros), S) /\ IsFiniteSet(S)
        /\ \A i \in S : Firmado(cobros)[i] \in Int
    BY NetoEs
  <1>2. ASSUME NEW k \in K PROVE g[k] = Total(Firmado(cobros), {i \in S : c[i] = k})
    <2> DEFINE X == DelGrupo(S, c, k)
    <2>1. X \in SUBSET DOMAIN cobros /\ g[k] = Neto(X)
      BY DEF DelGrupo
    <2> HIDE DEF X
    <2>2. Neto(X) = Total(Firmado(cobros), X)
      BY <2>1, NetoEs
    <2>3. QED
      BY <2>1, <2>2 DEF X, DelGrupo
  <1>3. Total(g, K) = Total(Firmado(cobros), S)
    BY <1>1, <1>2, TotalFibras
  <1>4. QED
    BY <1>1, <1>3

LEMMA IngresosPorSerie ==
    ASSUME TypeReportes, NEW r, NEW g \in {"semana", "metodo_pago"}
    PROVE  LET rep == ReporteIngresos(r, g, Vacia, Vacia)
           IN  Neto(CobrosDe(r, Vacia, Vacia))
                 = SumaDe(LAMBDA k : rep.serie[k].ingresos - rep.serie[k].reembolsos,
                          DOMAIN rep.serie)
  <1> DEFINE S == CobrosDe(r, Vacia, Vacia)
             c == Claves(r, g)
             serie == ReporteIngresos(r, g, Vacia, Vacia).serie
             D == DOMAIN serie
             f == [k \in D |-> serie[k].ingresos - serie[k].reembolsos]
  <1>1. /\ D = {c[i] : i \in S}
        /\ \A k \in D : serie[k].ingresos - serie[k].reembolsos = Neto(DelGrupo(S, c, k))
    BY SerieDe
  <1>2. S \in SUBSET DOMAIN cobros
    BY DEF CobrosDe
  <1>3. IsFiniteSet(S)
    <2> HIDE DEF S
    <2>1. QED
      BY <1>2, NetoEs
  <1>4. c \in [S -> {c[i] : i \in S}]
    BY DEF Claves
  <1> HIDE DEF S, c, serie
  <1>5. IsFiniteSet(D) /\ \A i \in S : c[i] \in D
    <2> DEFINE R == {c[i] : i \in S}
    <2>1. c \in [S -> R]
      BY <1>4
    <2>2. IsFiniteSet({c[i] : i \in S})
      <3> HIDE DEF R
      <3>1. QED
        BY <1>3, <2>1, ImagenFinita
    <2>3. \A i \in S : c[i] \in D
      BY <1>1
    <2> HIDE DEF D
    <2>4. QED
      BY <1>1, <2>2, <2>3
  <1>6. \A k \in D : f[k] = Neto(DelGrupo(S, c, k))
    BY <1>1
  <1>7. SumaDe(LAMBDA k : serie[k].ingresos - serie[k].reembolsos, D) = Total(f, D)
    <2> HIDE DEF D
    <2>1. QED
      BY DEF SumaDe, MapThenSumSet, MapThenFoldSet, Total, Acumula, Elige
  <1>8. Total(f, D) = Neto(S)
    <2> HIDE DEF f, D
    <2>1. QED
      BY <1>2, <1>5, <1>6, NetoPorGrupos
  <1>9. QED
    BY <1>7, <1>8 DEF S, serie

PorServicio(r) == SumaDe(LAMBDA s : ReporteIngresos(r, "dia", Vacia, s).neto, ServiciosVenta)

LEMMA IngresosPorServicio ==
    ASSUME TypeReportes, PagadoCuadra, NEW r
    PROVE  Neto(CobrosDe(r, Vacia, Vacia)) = PorServicio(r)
  <1> DEFINE S == CobrosDe(r, Vacia, Vacia)
             c == [i \in S |-> ventas[cobros[i].venta].servicio]
             f == [s \in ServiciosVenta |-> ReporteIngresos(r, "dia", Vacia, s).neto]
  <1>1. S \in SUBSET DOMAIN cobros
    BY DEF CobrosDe
  <1>2. \A i \in S : c[i] \in ServiciosVenta
    <2>1. ASSUME NEW i \in S PROVE ventas[cobros[i].venta] \in Venta
      BY <1>1 DEF PagadoCuadra, TypeReportes, Registradas
    <2>2. QED
      BY <2>1 DEF Venta
  <1>3. ASSUME NEW s \in ServiciosVenta PROVE f[s] = Neto(DelGrupo(S, c, s))
    <2>1. Vacia # s
      BY ConstantesDeReportes
    <2>2. CobrosDe(r, Vacia, s) = DelGrupo(S, c, s)
      BY <2>1 DEF CobrosDe, DelGrupo
    <2>3. f[s] = Neto(CobrosDe(r, Vacia, s))
      BY NetoReporte
    <2> HIDE DEF S, c, f
    <2>4. QED
      BY <2>2, <2>3
  <1>4. PorServicio(r) = Total(f, ServiciosVenta)
    BY DEF PorServicio, SumaDe, MapThenSumSet, MapThenFoldSet, Total, Acumula, Elige
  <1>5. IsFiniteSet(ServiciosVenta)
    BY ConstantesDeReportes
  <1> HIDE DEF S, c, f
  <1>6. Total(f, ServiciosVenta) = Neto(S)
    BY <1>1, <1>2, <1>3, <1>5, NetoPorGrupos
  <1>7. QED
    BY <1>4, <1>6 DEF S

PorMetodo(r) == SumaDe(LAMBDA m : ReporteIngresos(r, "dia", m, Vacia).neto, MetodosPago)

LEMMA IngresosPorMetodo ==
    ASSUME TypeReportes, NEW r
    PROVE  Neto(CobrosDe(r, Vacia, Vacia)) = PorMetodo(r)
  <1> DEFINE S == CobrosDe(r, Vacia, Vacia)
             c == [i \in S |-> cobros[i].metodo]
             f == [m \in MetodosPago |-> ReporteIngresos(r, "dia", m, Vacia).neto]
  <1>1. S \in SUBSET DOMAIN cobros
    BY DEF CobrosDe
  <1>2. \A i \in S : c[i] \in MetodosPago
    <2>1. ASSUME NEW i \in S PROVE cobros[i] \in Cobro
      BY <1>1 DEF TypeReportes
    <2>2. QED
      BY <2>1 DEF Cobro
  <1>3. ASSUME NEW m \in MetodosPago PROVE f[m] = Neto(DelGrupo(S, c, m))
    <2>1. Vacia # m
      BY ConstantesDeReportes
    <2>2. CobrosDe(r, m, Vacia) = DelGrupo(S, c, m)
      BY <2>1 DEF CobrosDe, DelGrupo
    <2>3. f[m] = Neto(CobrosDe(r, m, Vacia))
      BY NetoReporte
    <2> HIDE DEF S, c, f
    <2>4. QED
      BY <2>2, <2>3
  <1>4. PorMetodo(r) = Total(f, MetodosPago)
    BY DEF PorMetodo, SumaDe, MapThenSumSet, MapThenFoldSet, Total, Acumula, Elige
  <1>5. IsFiniteSet(MetodosPago)
    BY ConstantesDeReportes
  <1> HIDE DEF S, c, f
  <1>6. Total(f, MetodosPago) = Neto(S)
    BY <1>1, <1>2, <1>3, <1>5, NetoPorGrupos
  <1>7. QED
    BY <1>4, <1>6 DEF S

LEMMA IngresosPorMes ==
    ASSUME TypeReportes, NEW k \in DOMAIN ReporteIngresos(DiasReporte, "mes", Vacia, Vacia).serie
    PROVE  ReporteIngresos(DiasReporte, "mes", Vacia, Vacia).serie[k].neto
             = ReporteIngresos({d \in DiasReporte : PrimeroDe(Primeros, d) = k}, "dia", Vacia, Vacia).neto
  <1> DEFINE S == CobrosDe(DiasReporte, Vacia, Vacia)
             M == {d \in DiasReporte : PrimeroDe(Primeros, d) = k}
  <1>1. ReporteIngresos(DiasReporte, "mes", Vacia, Vacia).serie[k].neto
          = Neto(DelGrupo(S, Claves(DiasReporte, "mes"), k))
    BY SerieDe
  <1>2. \A i \in S : Claves(DiasReporte, "mes")[i] = PrimeroDe(Primeros, cobros[i].fecha)
    BY DEF Claves, Clave, Grupo
  <1>3. DelGrupo(S, Claves(DiasReporte, "mes"), k) = CobrosDe(M, Vacia, Vacia)
    BY <1>2 DEF CobrosDe, DelGrupo
  <1>4. ReporteIngresos(M, "dia", Vacia, Vacia).neto = Neto(CobrosDe(M, Vacia, Vacia))
    BY NetoReporte
  <1> HIDE DEF S, M
  <1>5. QED
    BY <1>1, <1>3, <1>4 DEF M

\* All the visits and all the payments.
LEMMA IngresosDeSiempre ==
    ASSUME TypeReportes, PagadoCuadra
    PROVE  /\ ReporteIngresos(DiasReporte, "mes", Vacia, Vacia).neto
                 = SumaDe(LAMBDA v : ventas[v].pagado, Registradas)
           /\ TotalPendiente(Vacia) + ReporteIngresos(DiasReporte, "mes", Vacia, Vacia).neto
                 = SumaDe(LAMBDA v : ventas[v].total, {v \in Registradas : v \in PorCobrar(Vacia)})
                     + SumaDe(LAMBDA v : ventas[v].pagado, Registradas \ PorCobrar(Vacia))
  <1> DEFINE N == ReporteIngresos(DiasReporte, "mes", Vacia, Vacia).neto
             R == Registradas
             P == PorCobrar(Vacia)
             Q == {v \in Registradas : v \in PorCobrar(Vacia)}
             D == DOMAIN cobros
             c == [i \in D |-> cobros[i].venta]
             pag == [v \in R |-> ventas[v].pagado]
             tot == [v \in R |-> ventas[v].total]
             sal == [v \in R |-> Saldo(v)]
  <1>1. \A v \in R : /\ ventas[v].pagado \in Int /\ ventas[v].total \in Int
                     /\ Saldo(v) = ventas[v].total - ventas[v].pagado
    <2>1. \A v \in R : ventas[v] \in Venta
      BY DEF Registradas, TypeReportes
    <2>2. QED
      BY <2>1 DEF Venta, Saldo
  <1>2. IsFiniteSet(R)
    <2>1. R \in SUBSET Ventas /\ IsFiniteSet(Ventas)
      BY ConstantesDeReportes DEF Registradas
    <2>2. QED
      BY <2>1, FS_Subset
  <1>3. P \in SUBSET R /\ Q = P
    BY DEF PorCobrar
  <1>4. N = Neto(D)
    <2>1. ASSUME NEW i \in D PROVE cobros[i].fecha \in DiasReporte
      <3>1. cobros[i] \in Cobro
        BY DEF TypeReportes
      <3>2. QED
        BY <3>1 DEF Cobro
    <2>2. CobrosDe(DiasReporte, Vacia, Vacia) = D
      BY <2>1 DEF CobrosDe
    <2>3. QED
      BY <2>2, NetoReporte
  <1>5. Total(pag, R) = Neto(D)
    <2>1. D \in SUBSET DOMAIN cobros /\ \A i \in D : c[i] \in R
      BY DEF PagadoCuadra
    <2>2. ASSUME NEW v \in R PROVE pag[v] = Neto(DelGrupo(D, c, v))
      <3> DEFINE X == DeLaVenta(cobros, v)
      <3>1. X = DelGrupo(D, c, v) /\ X \in SUBSET DOMAIN cobros
        BY DEF DeLaVenta, DelGrupo
      <3>2. pag[v] = NetoDe(cobros, X)
        BY DEF PagadoCuadra
      <3> HIDE DEF X
      <3>3. Neto(X) = NetoDe(cobros, X)
        BY <3>1, NetoEs
      <3>4. QED
        BY <3>1, <3>2, <3>3
    <2> HIDE DEF D, c, pag, R
    <2>3. QED
      BY <1>2, <2>1, <2>2, NetoPorGrupos
  <1>6. SumaDe(LAMBDA v : ventas[v].pagado, R) = Total(pag, R)
    <2> HIDE DEF R
    <2>1. QED
      BY DEF SumaDe, MapThenSumSet, MapThenFoldSet, Total, Acumula, Elige
  <1>7. ASSUME NEW T \in SUBSET R
        PROVE  /\ SumaDe(LAMBDA v : ventas[v].pagado, T) = Total(pag, T)
               /\ SumaDe(LAMBDA v : ventas[v].total, T) = Total(tot, T)
               /\ SumaDe(Saldo, T) = Total(sal, T)
    <2> DEFINE pagT == [v \in T |-> ventas[v].pagado]
               totT == [v \in T |-> ventas[v].total]
               salT == [v \in T |-> Saldo(v)]
    <2>1. /\ \A v \in T : pag[v] = pagT[v] /\ tot[v] = totT[v] /\ sal[v] = salT[v]
          /\ \A v \in T : pag[v] \in Int /\ tot[v] \in Int /\ sal[v] \in Int
      BY <1>1
    <2>2. IsFiniteSet(T)
      <3> HIDE DEF R
      <3>1. QED
        BY <1>2, FS_Subset
    <2>3. SumaDe(LAMBDA v : ventas[v].pagado, T) = Total(pagT, T)
      BY DEF SumaDe, MapThenSumSet, MapThenFoldSet, Total, Acumula, Elige
    <2>4. SumaDe(LAMBDA v : ventas[v].total, T) = Total(totT, T)
      BY DEF SumaDe, MapThenSumSet, MapThenFoldSet, Total, Acumula, Elige
    <2>5. SumaDe(Saldo, T) = Total(salT, T)
      BY DEF SumaDe, MapThenSumSet, MapThenFoldSet, Total, Acumula, Elige
    <2> HIDE DEF pag, tot, sal, pagT, totT, salT
    <2>6. Total(pag, T) = Total(pagT, T) /\ Total(tot, T) = Total(totT, T)
          /\ Total(sal, T) = Total(salT, T)
      BY <2>1, <2>2, TotalIgual
    <2>7. QED
      BY <2>3, <2>4, <2>5, <2>6
  <1>8. /\ SumaDe(LAMBDA v : ventas[v].pagado, R \ P) = Total(pag, R \ P)
        /\ SumaDe(LAMBDA v : ventas[v].total, Q) = Total(tot, P)
        /\ TotalPendiente(Vacia) = Total(sal, P)
    <2>1. R \ P \in SUBSET R /\ P \in SUBSET R /\ Q = P
      BY <1>3
    <2>2. SumaDe(LAMBDA v : ventas[v].pagado, R \ P) = Total(pag, R \ P)
      BY <1>7, <2>1
    <2>3. SumaDe(LAMBDA v : ventas[v].total, P) = Total(tot, P)
      BY <1>7, <2>1
    <2>4. TotalPendiente(Vacia) = Total(sal, P)
      BY <1>7, <2>1 DEF TotalPendiente
    <2>5. SumaDe(LAMBDA v : ventas[v].total, Q) = SumaDe(LAMBDA v : ventas[v].total, P)
      BY <2>1
    <2>6. QED
      BY <2>2, <2>3, <2>4, <2>5
  <1>9. /\ IsFiniteSet(P) /\ IsFiniteSet(R \ P)
        /\ \A v \in R : pag[v] \in Int /\ tot[v] \in Int /\ sal[v] = tot[v] - pag[v]
    <2>1. \A v \in R : pag[v] \in Int /\ tot[v] \in Int /\ sal[v] = tot[v] - pag[v]
      BY <1>1
    <2>2. R \ P \in SUBSET R
      OBVIOUS
    <2> HIDE DEF R, P
    <2>3. IsFiniteSet(P) /\ IsFiniteSet(R \ P)
      BY <1>2, <1>3, <2>2, FS_Subset
    <2>4. QED
      BY <2>1, <2>3
  <1> HIDE DEF N, R, P, Q, D, c, pag, tot, sal
  <1>10. Total(sal, P) = Total(tot, P) - Total(pag, P)
    <2>1. \A v \in P : tot[v] \in Int /\ pag[v] \in Int /\ sal[v] = tot[v] - pag[v]
      BY <1>3, <1>9
    <2>2. QED
      BY <1>9, <2>1, TotalResta
  <1>11. Total(pag, R) = Total(pag, P) + Total(pag, R \ P)
    BY <1>2, <1>3, <1>9, TotalPartes
  <1>12. Total(tot, P) \in Int /\ Total(pag, P) \in Int /\ Total(pag, R \ P) \in Int
    <2>1. (\A v \in P : tot[v] \in Int /\ pag[v] \in Int) /\ \A v \in R \ P : pag[v] \in Int
      BY <1>3, <1>9
    <2>2. Total(tot, P) \in Int /\ Total(pag, P) \in Int
      BY <1>9, <2>1, TotalTipo
    <2>3. Total(pag, R \ P) \in Int
      BY <1>9, <2>1, TotalTipo
    <2>4. QED
      BY <2>2, <2>3
  <1>13. TotalPendiente(Vacia) + N = Total(tot, P) + Total(pag, R \ P)
    BY <1>4, <1>5, <1>8, <1>10, <1>11, <1>12
  <1>14. N = SumaDe(LAMBDA v : ventas[v].pagado, R)
    BY <1>4, <1>5, <1>6
  <1>15. TotalPendiente(Vacia) + N
           = SumaDe(LAMBDA v : ventas[v].total, Q) + SumaDe(LAMBDA v : ventas[v].pagado, R \ P)
    BY <1>8, <1>13
  <1>16. QED
    BY <1>14, <1>15 DEF N, R, P, Q

\* After any sequence of sales, edits, payments, refunds and midnights the reports
\* of income add up however they are cut, and to what the visits have as paid
\* (reporte_service.py:78-184).
THEOREM LosIngresosCuadran == SpecReportes => []IngresosCuadran
  <1>1. ASSUME TypeReportes, PagadoCuadra PROVE IngresosCuadran
    <2>1. \A r \in Rangos, g \in {"semana", "metodo_pago"} :
             Neto(CobrosDe(r, Vacia, Vacia))
               = SumaDe(LAMBDA k : ReporteIngresos(r, g, Vacia, Vacia).serie[k].ingresos
                                     - ReporteIngresos(r, g, Vacia, Vacia).serie[k].reembolsos,
                        DOMAIN ReporteIngresos(r, g, Vacia, Vacia).serie)
      BY <1>1, IngresosPorSerie
    <2>2. \A r \in Rangos : Neto(CobrosDe(r, Vacia, Vacia)) = PorServicio(r)
      BY <1>1, IngresosPorServicio
    <2>3. \A r \in Rangos : Neto(CobrosDe(r, Vacia, Vacia)) = PorMetodo(r)
      BY <1>1, IngresosPorMetodo
    <2>4. \A k \in DOMAIN ReporteIngresos(DiasReporte, "mes", Vacia, Vacia).serie :
             ReporteIngresos(DiasReporte, "mes", Vacia, Vacia).serie[k].neto
               = ReporteIngresos({d \in DiasReporte : PrimeroDe(Primeros, d) = k},
                                 "dia", Vacia, Vacia).neto
      BY <1>1, IngresosPorMes
    <2>5. QED
      BY <1>1, <2>1, <2>2, <2>3, <2>4, IngresosDeSiempre DEF IngresosCuadran, PorServicio, PorMetodo
  <1>2. QED
    BY <1>1, PagadoSiempre, PTL

-------------------------------------------------------------------------------
\* The column sums of a report, as the property writes them.
SumaSerie(f) == SumaDe(LAMBDA k : f[k], DOMAIN f)

Numeros(a, K) == SumaDe(LAMBDA k : a[k].numero, K)

Importes(a, K) == SumaDe(LAMBDA k : a[k].importe, K)

LEMMA ColumnasSon ==
    ASSUME NEW a, NEW K
    PROVE  /\ Numeros(a, K) = Total([k \in K |-> a[k].numero], K)
           /\ Importes(a, K) = Total([k \in K |-> a[k].importe], K)
           /\ SumaSerie(a) = Total([k \in DOMAIN a |-> a[k]], DOMAIN a)
  <1>1. Numeros(a, K) = Total([k \in K |-> a[k].numero], K)
    BY DEF Numeros, SumaDe, MapThenSumSet, MapThenFoldSet, Total, Acumula, Elige
  <1>2. Importes(a, K) = Total([k \in K |-> a[k].importe], K)
    BY DEF Importes, SumaDe, MapThenSumSet, MapThenFoldSet, Total, Acumula, Elige
  <1>3. SumaSerie(a) = Total([k \in DOMAIN a |-> a[k]], DOMAIN a)
    BY DEF SumaSerie, SumaDe, MapThenSumSet, MapThenFoldSet, Total, Acumula, Elige
  <1>4. QED
    BY <1>1, <1>2, <1>3

\* However a set is grouped, the counts of the groups add up to it.
LEMMA ConteoPorGrupos ==
    ASSUME NEW S, IsFiniteSet(S), NEW K, IsFiniteSet(K), NEW c, \A x \in S : c[x] \in K,
           NEW g, \A k \in K : g[k] = Cardinality(DelGrupo(S, c, k))
    PROVE  Total(g, K) = Cardinality(S)
  <1> DEFINE f == [x \in S |-> 1]
  <1>1. \A x \in S : f[x] = 1 /\ f[x] \in Int
    OBVIOUS
  <1> HIDE DEF f
  <1>2. ASSUME NEW k \in K PROVE g[k] = Total(f, {x \in S : c[x] = k})
    <2> DEFINE X == DelGrupo(S, c, k)
    <2>1. X \in SUBSET S /\ \A x \in X : f[x] = 1
      BY <1>1 DEF DelGrupo
    <2>2. g[k] = Cardinality(X)
      OBVIOUS
    <2> HIDE DEF X
    <2>3. IsFiniteSet(X)
      BY <2>1, FS_Subset
    <2>4. Total(f, X) = Cardinality(X)
      BY <2>1, <2>3, TotalUnos
    <2>5. QED
      BY <2>2, <2>4 DEF X, DelGrupo
  <1>3. Total(g, K) = Total(f, S)
    BY <1>1, <1>2, TotalFibras
  <1>4. Total(f, S) = Cardinality(S)
    BY <1>1, TotalUnos
  <1>5. QED
    BY <1>3, <1>4

LEMMA ClavesFinitas ==
    ASSUME NEW S, IsFiniteSet(S), NEW c, c = [x \in S |-> c[x]]
    PROVE  IsFiniteSet({c[x] : x \in S})
  <1> DEFINE R == {c[x] : x \in S}
  <1>1. c \in [S -> R]
    OBVIOUS
  <1> HIDE DEF R
  <1>2. QED
    BY <1>1, ImagenFinita

\* A series: a count for each key that occurs.
LEMMA SerieCuenta ==
    ASSUME NEW S, IsFiniteSet(S), NEW c, c = [x \in S |-> c[x]], NEW f,
           f = [k \in {c[x] : x \in S} |-> Cardinality(DelGrupo(S, c, k))]
    PROVE  SumaSerie(f) = Cardinality(S)
  <1> DEFINE D == {c[x] : x \in S}
             g == [k \in DOMAIN f |-> f[k]]
  <1>1. DOMAIN f = D /\ \A k \in D : g[k] = Cardinality(DelGrupo(S, c, k))
    OBVIOUS
  <1>2. IsFiniteSet(D) /\ \A x \in S : c[x] \in D
    BY ClavesFinitas
  <1>3. SumaSerie(f) = Total(g, DOMAIN f)
    BY ColumnasSon
  <1> HIDE DEF D, g
  <1>4. Total(g, D) = Cardinality(S)
    BY <1>1, <1>2, ConteoPorGrupos
  <1>5. QED
    BY <1>1, <1>3, <1>4

LEMMA RegistradasFinitas ==
    IsFiniteSet(Registradas) /\ \A S \in SUBSET Registradas : IsFiniteSet(S)
  <1>1. Registradas \in SUBSET Ventas /\ IsFiniteSet(Ventas)
    BY ConstantesDeReportes DEF Registradas
  <1>2. QED
    BY <1>1, FS_Subset

\* The trend of a state counts the reservations of that state.
LEMMA TendenciaCuenta ==
    ASSUME NEW r, NEW g, NEW e
    PROVE  SumaSerie(Tendencia(r, g, e))
             = Cardinality({v \in Creadas(r) : e \in {Vacia, ventas[v].estado}})
  <1> DEFINE S == {v \in Creadas(r) : e \in {Vacia, ventas[v].estado}}
             c == [v \in S |-> Grupo(ventas[v].creada, g)]
             f == Tendencia(r, g, e)
  <1>1. f = [k \in {Grupo(ventas[v].creada, g) : v \in S} |->
               Cardinality({v \in S : Grupo(ventas[v].creada, g) = k})]
    BY DEF Tendencia, Serie
  <1>2. S \in SUBSET Registradas
    BY DEF Creadas
  <1>3. IsFiniteSet(S)
    <2> HIDE DEF S
    <2>1. QED
      BY <1>2, RegistradasFinitas
  <1> HIDE DEF S, f
  <1>4. /\ {Grupo(ventas[v].creada, g) : v \in S} = {c[v] : v \in S}
        /\ \A k : {v \in S : Grupo(ventas[v].creada, g) = k} = DelGrupo(S, c, k)
        /\ c = [v \in S |-> c[v]]
    BY DEF DelGrupo
  <1> HIDE DEF c
  <1>5. f = [k \in {c[v] : v \in S} |-> Cardinality(DelGrupo(S, c, k))]
    BY <1>1, <1>4
  <1>6. SumaSerie(f) = Cardinality(S)
    BY <1>3, <1>4, <1>5, SerieCuenta
  <1>7. QED
    BY <1>6 DEF S, f

LEMMA SerieClientesCuenta ==
    ASSUME NEW r, NEW g
    PROVE  SumaSerie(SerieClientes(r, g)) = Cardinality(ClientesNuevos(r))
  <1> DEFINE S == ClientesNuevos(r)
             c == [x \in S |-> Grupo(altas[x], g)]
             f == SerieClientes(r, g)
  <1>1. f = [k \in {Grupo(altas[x], g) : x \in S} |->
               Cardinality({x \in S : Grupo(altas[x], g) = k})]
    BY DEF SerieClientes, Serie
  <1>2. IsFiniteSet(S)
    <2>1. S \in SUBSET ClientesVenta /\ IsFiniteSet(ClientesVenta)
      BY ConstantesDeReportes DEF ClientesNuevos
    <2> HIDE DEF S
    <2>2. QED
      BY <2>1, FS_Subset
  <1> HIDE DEF S, f
  <1>3. /\ {Grupo(altas[x], g) : x \in S} = {c[x] : x \in S}
        /\ \A k : {x \in S : Grupo(altas[x], g) = k} = DelGrupo(S, c, k)
        /\ c = [x \in S |-> c[x]]
    BY DEF DelGrupo
  <1> HIDE DEF c
  <1>4. f = [k \in {c[x] : x \in S} |-> Cardinality(DelGrupo(S, c, k))]
    BY <1>1, <1>3
  <1>5. SumaSerie(f) = Cardinality(S)
    BY <1>2, <1>3, <1>4, SerieCuenta
  <1>6. QED
    BY <1>5 DEF S, f

LEMMA EstadosFinitos == IsFiniteSet(EstadosVenta)
  <1>1. IsFiniteSet({})
    BY FS_EmptySet
  <1>2. \A T, x : IsFiniteSet(T) => IsFiniteSet(T \cup {x})
    BY FS_AddElement
  <1>3. EstadosVenta = (((({} \cup {"pendiente"}) \cup {"confirmada"}) \cup {"en_curso"})
                           \cup {"completada"}) \cup {"cancelada"}
    BY DEF EstadosVenta
  <1>4. QED
    BY <1>1, <1>2, <1>3

\* The states of the reservations created in a range.
LEMMA EstadosCuentan ==
    ASSUME TypeReportes, NEW r
    PROVE  SumaSerie(PorEstado(r)) = Cardinality(Creadas(r))
  <1> DEFINE S == Creadas(r)
             c == [v \in S |-> ventas[v].estado]
             f == PorEstado(r)
             g == [k \in DOMAIN f |-> f[k]]
  <1>1. S \in SUBSET Registradas
    BY DEF Creadas
  <1>2. IsFiniteSet(S)
    <2> HIDE DEF S
    <2>1. QED
      BY <1>1, RegistradasFinitas
  <1>3. \A v \in S : c[v] \in EstadosVenta
    <2>1. \A v \in S : ventas[v] \in Venta
      BY <1>1 DEF Registradas, TypeReportes
    <2>2. QED
      BY <2>1 DEF Venta
  <1>4. DOMAIN f = EstadosVenta /\ \A k \in EstadosVenta : f[k] = Cardinality(DelGrupo(S, c, k))
    <2>1. \A k : DelGrupo(S, c, k) = {v \in S : ventas[v].estado = k}
      BY DEF DelGrupo
    <2> HIDE DEF S, c
    <2>2. QED
      BY <2>1 DEF PorEstado, S
  <1>5. \A k \in EstadosVenta : g[k] = Cardinality(DelGrupo(S, c, k))
    BY <1>4
  <1>6. IsFiniteSet(EstadosVenta)
    BY EstadosFinitos
  <1>7. SumaSerie(f) = Total(g, DOMAIN f)
    BY ColumnasSon
  <1> HIDE DEF S, c, f, g
  <1>8. Total(g, EstadosVenta) = Cardinality(S)
    BY <1>2, <1>3, <1>5, <1>6, ConteoPorGrupos
  <1>9. QED
    BY <1>4, <1>7, <1>8 DEF S, f

\* The totals of a set of visits.
Totales(S) == [v \in S |-> ventas[v].total]

ClavesDe(S, campo) == [v \in S |-> ventas[v][campo]]

\* An aggregate: each key has visits, and its rows add up to the set.
LEMMA AgregadoCuenta ==
    ASSUME TypeReportes, NEW S \in SUBSET Registradas, NEW campo
    PROVE  LET a == Agregado(S, campo)
           IN  /\ DOMAIN a = {ClavesDe(S, campo)[v] : v \in S}
               /\ IsFiniteSet(DOMAIN a)
               /\ \A k \in DOMAIN a : a[k].numero \in Nat /\ a[k].numero >= 1
               /\ Numeros(a, DOMAIN a) = Cardinality(S)
               /\ Importes(a, DOMAIN a) = Total(Totales(S), S)
  <1> DEFINE a == Agregado(S, campo)
             c == ClavesDe(S, campo)
             D == {c[v] : v \in S}
             t == Totales(S)
             fila(X) == [numero |-> Cardinality(X), importe |-> SumaDe(LAMBDA v : ventas[v].total, X)]
             gn == [k \in D |-> a[k].numero]
             gi == [k \in D |-> a[k].importe]
  <1>1. IsFiniteSet(S)
    BY RegistradasFinitas
  <1>2. a = [k \in {ventas[v][campo] : v \in S} |-> fila({v \in S : ventas[v][campo] = k})]
    BY DEF Agregado
  <1>3. /\ {ventas[v][campo] : v \in S} = D
        /\ \A k : {v \in S : ventas[v][campo] = k} = DelGrupo(S, c, k)
        /\ c = [v \in S |-> c[v]]
    BY DEF ClavesDe, DelGrupo
  <1>4. \A X : fila(X).numero = Cardinality(X) /\ fila(X).importe = SumaDe(LAMBDA v : ventas[v].total, X)
    OBVIOUS
  <1>5. \A v \in S : t[v] \in Int /\ t[v] = ventas[v].total
    <2>1. \A v \in S : ventas[v] \in Venta
      BY DEF Registradas, TypeReportes
    <2>2. QED
      BY <2>1 DEF Venta, Totales
  <1>6. ASSUME NEW X \in SUBSET S
        PROVE  IsFiniteSet(X) /\ SumaDe(LAMBDA v : ventas[v].total, X) = Total(t, X)
    <2> DEFINE u == [v \in X |-> ventas[v].total]
    <2>1. SumaDe(LAMBDA v : ventas[v].total, X) = Total(u, X)
      BY DEF SumaDe, MapThenSumSet, MapThenFoldSet, Total, Acumula, Elige
    <2>2. IsFiniteSet(X)
      BY <1>1, FS_Subset
    <2>3. \A v \in X : u[v] \in Int /\ t[v] = u[v]
      BY <1>5
    <2> HIDE DEF u, t
    <2>4. Total(u, X) = Total(t, X)
      BY <2>2, <2>3, TotalIgual
    <2>5. QED
      BY <2>1, <2>2, <2>4
  <1> HIDE DEF a, fila
  <1>7. DOMAIN a = D
    BY <1>2, <1>3
  <1> HIDE DEF c, t
  <1>8. ASSUME NEW k \in D
        PROVE  /\ a[k].numero = Cardinality(DelGrupo(S, c, k))
               /\ a[k].importe = Total(t, DelGrupo(S, c, k))
               /\ DelGrupo(S, c, k) \in SUBSET S /\ DelGrupo(S, c, k) # {}
    <2>1. a[k] = fila({v \in S : ventas[v][campo] = k})
      BY <1>2, <1>3
    <2>2. a[k] = fila(DelGrupo(S, c, k))
      BY <1>3, <2>1, Zenon
    <2>3. DelGrupo(S, c, k) \in SUBSET S /\ DelGrupo(S, c, k) # {}
      BY DEF DelGrupo
    <2>4. SumaDe(LAMBDA v : ventas[v].total, DelGrupo(S, c, k)) = Total(t, DelGrupo(S, c, k))
      BY <1>6, <2>3
    <2>5. a[k].importe = SumaDe(LAMBDA v : ventas[v].total, DelGrupo(S, c, k))
      BY <1>4, <2>2
    <2>6. a[k].numero = Cardinality(DelGrupo(S, c, k))
      BY <1>4, <2>2
    <2>7. QED
      BY <2>3, <2>4, <2>5, <2>6
  <1>9. IsFiniteSet(D) /\ \A v \in S : c[v] \in D
    <2>1. IsFiniteSet(D)
      BY <1>1, <1>3, ClavesFinitas
    <2>2. QED
      BY <2>1
  <1> HIDE DEF D
  <1>10. ASSUME NEW k \in D PROVE a[k].numero \in Nat /\ a[k].numero >= 1
    <2> DEFINE X == DelGrupo(S, c, k)
    <2>1. X \in SUBSET S /\ X # {} /\ a[k].numero = Cardinality(X)
      BY <1>8
    <2> HIDE DEF X
    <2>2. IsFiniteSet(X)
      BY <1>6, <2>1
    <2>3. Cardinality(X) \in Nat /\ Cardinality(X) # 0
      BY <2>1, <2>2, FS_CardinalityType, FS_EmptySet
    <2>4. QED
      BY <2>1, <2>3
  <1>11. \A k \in D : gn[k] = Cardinality(DelGrupo(S, c, k)) /\ gi[k] = Total(t, {v \in S : c[v] = k})
    <2>1. \A k : DelGrupo(S, c, k) = {v \in S : c[v] = k}
      BY DEF DelGrupo
    <2>2. QED
      BY <1>8, <2>1
  <1>12. Numeros(a, D) = Total(gn, D) /\ Importes(a, D) = Total(gi, D)
    BY ColumnasSon
  <1> HIDE DEF gn, gi
  <1>13. Total(gn, D) = Cardinality(S)
    <2>1. \A k \in D : gn[k] = Cardinality(DelGrupo(S, c, k))
      BY <1>11
    <2>2. QED
      BY <1>1, <1>9, <2>1, ConteoPorGrupos
  <1>14. Total(gi, D) = Total(t, S)
    <2>1. \A v \in S : t[v] \in Int
      BY <1>5
    <2>2. QED
      BY <1>1, <1>9, <1>11, <2>1, TotalFibras
  <1>15. QED
    BY <1>7, <1>9, <1>10, <1>12, <1>13, <1>14 DEF a, c, t, D

\* The list of frequent clients leaves nobody out: as many places as clients.
LEMMA FrecuentesTodos ==
    ASSUME TypeReportes, NEW r
    PROVE  LET todos == Agregado(Vendidas(r), "cliente")
               f == Frecuentes(r, 1)
           IN  /\ DOMAIN f = DOMAIN todos /\ DOMAIN f \in SUBSET ClientesVenta
               /\ \A k \in DOMAIN f : f[k] = todos[k]
               /\ \A K \in Listados(f, Cardinality(ClientesVenta)) : K = DOMAIN f
  <1> DEFINE S == Vendidas(r)
             c == ClavesDe(S, "cliente")
             todos == Agregado(S, "cliente")
             f == Frecuentes(r, 1)
             D == DOMAIN todos
             m == Cardinality(ClientesVenta)
  <1>1. S \in SUBSET Registradas
    BY DEF Vendidas, Creadas
  <1>2. \A v \in S : ventas[v].cliente \in ClientesVenta
    <2>1. \A v \in S : ventas[v] \in Venta
      BY <1>1 DEF Registradas, TypeReportes
    <2>2. QED
      BY <2>1 DEF Venta
  <1>3. D = {c[v] : v \in S} /\ \A k \in D : todos[k].numero \in Nat /\ todos[k].numero >= 1
    <2> HIDE DEF S
    <2>1. QED
      BY <1>1, AgregadoCuenta
  <1>4. \A v \in S : c[v] = ventas[v].cliente
    BY DEF ClavesDe
  <1>5. D \in SUBSET ClientesVenta
    <2> HIDE DEF S, c, D
    <2>1. QED
      BY <1>2, <1>3, <1>4
  <1>6. f = [k \in {k \in D : todos[k].numero >= 1} |-> todos[k]]
    BY DEF Frecuentes
  <1> HIDE DEF todos, f
  <1>7. {k \in D : todos[k].numero >= 1} = D
    BY <1>3
  <1>8. DOMAIN f = D /\ \A k \in D : f[k] = todos[k]
    <2>1. f = [k \in D |-> todos[k]]
      BY <1>6, <1>7, Zenon
    <2> HIDE DEF D
    <2>2. QED
      BY <2>1
  <1>9. ASSUME NEW K \in Listados(f, m)
        PROVE  K = D
    <2> HIDE DEF D, S, c
    <2>1. K \in SUBSET D /\ Cardinality(K) = Min({m, Cardinality(D)})
      BY <1>8, <1>9 DEF Listados
    <2>2. IsFiniteSet(ClientesVenta)
      BY ConstantesDeReportes
    <2>3. IsFiniteSet(D) /\ Cardinality(D) <= m /\ m \in Nat /\ Cardinality(D) \in Nat
      BY <1>5, <2>2, FS_Subset, FS_CardinalityType
    <2> DEFINE n == Cardinality(D)
    <2>4. n <= m /\ m \in Int /\ n \in Int
      BY <2>3
    <2>5. Min({m, n}) = n
      <3> HIDE DEF m, n
      <3>1. Min({m, n}) = IF m <= n THEN m ELSE n
        BY <2>4, MaxDos
      <3>2. QED
        BY <2>4, <3>1
    <2>6. Cardinality(K) = Cardinality(D)
      BY <2>1, <2>5
    <2>7. QED
      BY <2>1, <2>3, <2>6, FS_Subset
  <1>10. QED
    BY <1>5, <1>8, <1>9 DEF todos, f

\* Sold and cancelled are what was created.
LEMMA CreadasSeParten ==
    ASSUME TypeReportes, NEW r
    PROVE  LET canceladas == {v \in Creadas(r) : ventas[v].estado = "cancelada"}
           IN  /\ canceladas \in SUBSET Registradas /\ Vendidas(r) \in SUBSET Registradas
               /\ Cardinality(Vendidas(r)) + Cardinality(canceladas) = Cardinality(Creadas(r))
  <1> DEFINE C == Creadas(r)
             B == {v \in C : ventas[v].estado = "cancelada"}
             A == Vendidas(r)
  <1>1. C \in SUBSET Registradas
    BY DEF Creadas
  <1>2. \A v \in C : ventas[v].estado \in EstadosVenta
    <2>1. \A v \in C : ventas[v] \in Venta
      BY <1>1 DEF Registradas, TypeReportes
    <2>2. QED
      BY <2>1 DEF Venta
  <1>3. A \in SUBSET C /\ B \in SUBSET C /\ C \ B = A
    BY <1>2 DEF Vendidas, NoCancelados
  <1> HIDE DEF A, B, C
  <1>4. IsFiniteSet(C)
    BY <1>1, RegistradasFinitas
  <1>5. IsFiniteSet(A) /\ IsFiniteSet(B)
    BY <1>3, <1>4, FS_Subset
  <1>6. A \cap B = {} /\ A \cup B = C
    BY <1>3
  <1>7. Cardinality(A \cup B) = Cardinality(A) + Cardinality(B) - Cardinality(A \cap B)
    BY <1>5, FS_Union
  <1>8. Cardinality({}) = 0 /\ Cardinality(A) \in Nat /\ Cardinality(B) \in Nat
    BY <1>5, FS_EmptySet, FS_CardinalityType
  <1>9. Cardinality(A) + Cardinality(B) = Cardinality(C)
    <2> DEFINE a == Cardinality(A)
               b == Cardinality(B)
               d == Cardinality(A \cap B)
               e == Cardinality(A \cup B)
    <2>1. d = 0 /\ e = Cardinality(C) /\ a \in Nat /\ b \in Nat /\ e = a + b - d
      BY <1>6, <1>7, <1>8
    <2> HIDE DEF a, b, d, e
    <2>2. a + b = Cardinality(C)
      BY <2>1
    <2>3. QED
      BY <2>2 DEF a, b
  <1>10. QED
    BY <1>1, <1>3, <1>9 DEF A, B, C

\* The visits the occupation counts.
LEMMA OcupacionCuenta ==
    ASSUME TypeReportes, NEW dias
    PROVE  LET ocupacion == ReporteOcupacion(hoy..(hoy + dias))
           IN  Numeros(ocupacion, deVenta)
                 = Cardinality({v \in Proximas(dias, Vacia) \ Proximas(dias, "cancelada") :
                                   ventas[v].servicio \in deVenta})
  <1> DEFINE R == hoy..(hoy + dias)
             o == ReporteOcupacion(R)
             S == {v \in DeVisita(R) : ventas[v].estado \in NoCancelados /\ ventas[v].servicio \in deVenta}
             c == [v \in S |-> ventas[v].servicio]
             g == [s \in deVenta |-> o[s].numero]
  <1>1. S \in SUBSET Registradas
    BY DEF DeVisita
  <1>2. IsFiniteSet(S)
    <2> HIDE DEF S
    <2>1. QED
      BY <1>1, RegistradasFinitas
  <1>3. IsFiniteSet(deVenta)
    <2>1. deVenta \in SUBSET ServiciosVenta /\ IsFiniteSet(ServiciosVenta)
      BY ConstantesDeReportes DEF TypeReportes
    <2>2. QED
      BY <2>1, FS_Subset
  <1>4. \A v \in S : c[v] \in deVenta
    OBVIOUS
  <1>5. ASSUME NEW s \in deVenta
        PROVE  g[s] = Cardinality(DelGrupo(S, c, s))
    <2> DEFINE X == {v \in DeVisita(R) : ventas[v].estado \in NoCancelados /\ ventas[v].servicio = s}
    <2>1. o[s].numero = Cardinality(X)
      BY DEF ReporteOcupacion
    <2>2. X = DelGrupo(S, c, s)
      BY DEF DelGrupo
    <2> HIDE DEF X, S, c, o
    <2>3. QED
      BY <2>1, <2>2
  <1>6. {v \in Proximas(dias, Vacia) \ Proximas(dias, "cancelada") : ventas[v].servicio \in deVenta} = S
    <2>1. \A v \in DeVisita(R) : ventas[v].estado \in EstadosVenta
      <3>1. \A v \in DeVisita(R) : ventas[v] \in Venta
        BY DEF DeVisita, Registradas, TypeReportes
      <3>2. QED
        BY <3>1 DEF Venta
    <2>2. Vacia # "cancelada"
      BY ConstantesDeReportes DEF EstadosVenta
    <2>3. QED
      BY <2>1, <2>2 DEF Proximas, NoCancelados
  <1>7. Numeros(o, deVenta) = Total(g, deVenta)
    BY ColumnasSon
  <1> HIDE DEF S, c, g, o
  <1>8. Total(g, deVenta) = Cardinality(S)
    BY <1>2, <1>3, <1>4, <1>5, ConteoPorGrupos
  <1>9. QED
    BY <1>6, <1>7, <1>8 DEF o

\* Nobody buys before being a client, and nothing happens before the first day.
FechasCuadran ==
    /\ DiaInicial <= hoy
    /\ \A c \in ClientesVenta : altas[c] # Vacia => DiaInicial <= altas[c] /\ altas[c] <= hoy
    /\ \A v \in Registradas : /\ altas[ventas[v].cliente] # Vacia
                              /\ altas[ventas[v].cliente] <= ventas[v].creada
                              /\ ventas[v].creada <= hoy

LEMMA FechasCuadranInicial ==
    ASSUME InitReportes
    PROVE  FechasCuadran
  <1>1. Registradas = {} /\ \A c \in ClientesVenta : altas[c] = Vacia
    BY DEF InitReportes, Registradas
  <1>2. DiaInicial <= hoy
    BY ConstantesReportes DEF InitReportes
  <1>3. QED
    BY <1>1, <1>2 DEF FechasCuadran

LEMMA FechasCuadranPaso ==
    ASSUME TypeReportes, FechasCuadran, [NextReportes]_varsReportes
    PROVE  FechasCuadran'
  <1>1. hoy \in Nat /\ DiaInicial \in Nat /\ Registradas \in SUBSET Ventas
    BY ConstantesReportes DEF TypeReportes, Registradas
  <1>2. \A c \in ClientesVenta : altas[c] # Vacia => altas[c] \in Nat
    BY ConstantesReportes DEF TypeReportes
  <1>3. \A v \in Ventas, e \in Venta : e.cliente \in ClientesVenta /\ e.creada \in Nat
    BY ConstantesReportes DEF Venta
  <1>4. \A v \in Registradas : ventas[v] \in Venta
    BY DEF Registradas, TypeReportes
  \* the clock goes on and nobody stops being a client
  <1>5. /\ hoy' = hoy \/ hoy' = hoy + 1
        /\ \A c \in ClientesVenta : \/ altas'[c] = altas[c]
                                    \/ altas[c] = Vacia /\ altas'[c] = hoy /\ hoy' = hoy
    <2>1. CASE AltaCliente
      BY <2>1 DEF AltaCliente, TypeReportes
    <2>2. CASE Amanece
      BY <2>2 DEF Amanece
    <2>3. CASE Vender \/ Editar \/ Mover \/ Cobrar \/ Reembolsar \/ DesactivarServicio
                 \/ UNCHANGED varsReportes
      <3>1. UNCHANGED <<altas, hoy>>
        BY <2>3 DEF Vender, Editar, Mover, Cobrar, Reembolsar, DesactivarServicio, varsReportes
      <3>2. QED
        BY <3>1
    <2>4. QED
      BY <2>1, <2>2, <2>3 DEF NextReportes
  <1>6. /\ hoy' \in Nat /\ hoy <= hoy' /\ DiaInicial <= hoy'
    BY <1>1, <1>5 DEF FechasCuadran
  <1>7. \A c \in ClientesVenta : altas'[c] # Vacia => DiaInicial <= altas'[c] /\ altas'[c] <= hoy'
    BY <1>1, <1>2, <1>5, <1>6 DEF FechasCuadran
  <1>8. \A c \in ClientesVenta : altas[c] # Vacia => altas'[c] = altas[c]
    BY <1>5
  \* each visit keeps its client and the day it was created, or is new
  <1>9. \A v \in Registradas' :
           /\ altas[ventas'[v].cliente] # Vacia
           /\ altas[ventas'[v].cliente] <= ventas'[v].creada
           /\ ventas'[v].creada <= hoy /\ ventas'[v] \in Venta
    <2>1. CASE UNCHANGED <<ventas, cobros>>
      BY <1>4, <2>1 DEF FechasCuadran, Registradas
    <2>2. ASSUME NEW v \in Ventas, NEW e \in Venta, ventas' = [ventas EXCEPT ![v] = e],
                 altas[e.cliente] # Vacia, altas[e.cliente] <= e.creada, e.creada <= hoy
          PROVE  \A w \in Registradas' :
                    /\ altas[ventas'[w].cliente] # Vacia
                    /\ altas[ventas'[w].cliente] <= ventas'[w].creada
                    /\ ventas'[w].creada <= hoy /\ ventas'[w] \in Venta
      <3>1. /\ Registradas' = Registradas \cup {v}
            /\ ventas'[v] = e /\ \A w \in Ventas : w # v => ventas'[w] = ventas[w]
        BY <2>2, FilaEscrita
      <3>2. ASSUME NEW w \in Registradas'
            PROVE  /\ altas[ventas'[w].cliente] # Vacia
                   /\ altas[ventas'[w].cliente] <= ventas'[w].creada
                   /\ ventas'[w].creada <= hoy /\ ventas'[w] \in Venta
        <4>1. CASE w = v
          BY <2>2, <3>1, <4>1
        <4>2. CASE w # v
          <5>1. w \in Registradas /\ ventas'[w] = ventas[w] /\ ventas[w] \in Venta
            BY <1>1, <1>4, <3>1, <4>2
          <5>2. QED
            BY <5>1 DEF FechasCuadran
        <4>3. QED
          BY <4>1, <4>2
      <3>3. QED
        BY <3>2
    <2>3. CASE \E v \in Ventas \ Registradas, e \in Venta :
                 /\ ventas' = [ventas EXCEPT ![v] = e] /\ UNCHANGED cobros
                 /\ e.pagado = 0 /\ e.creada = hoy /\ altas[e.cliente] # Vacia
      <3>1. PICK v \in Ventas, e \in Venta :
                 /\ ventas' = [ventas EXCEPT ![v] = e]
                 /\ e.creada = hoy /\ altas[e.cliente] # Vacia
        BY <2>3
      <3>2. altas[e.cliente] <= e.creada /\ e.creada <= hoy
        BY <1>1, <1>3, <3>1 DEF FechasCuadran
      <3>3. QED
        BY <2>2, <3>1, <3>2
    <2>4. ASSUME NEW v \in Registradas, NEW e \in Venta, ventas' = [ventas EXCEPT ![v] = e],
                 e.creada = ventas[v].creada, e.cliente = ventas[v].cliente
          PROVE  \A w \in Registradas' :
                    /\ altas[ventas'[w].cliente] # Vacia
                    /\ altas[ventas'[w].cliente] <= ventas'[w].creada
                    /\ ventas'[w].creada <= hoy /\ ventas'[w] \in Venta
      <3>1. altas[e.cliente] # Vacia /\ altas[e.cliente] <= e.creada /\ e.creada <= hoy /\ v \in Ventas
        BY <1>1, <2>4 DEF FechasCuadran
      <3>2. QED
        BY <2>2, <2>4, <3>1
    <2>5. QED
      BY <2>1, <2>3, <2>4, VentasPaso
  <1>10. \A v \in Registradas' :
           /\ altas'[ventas'[v].cliente] # Vacia
           /\ altas'[ventas'[v].cliente] <= ventas'[v].creada
           /\ ventas'[v].creada <= hoy'
    <2>1. SUFFICES ASSUME NEW v \in Registradas'
                   PROVE  /\ altas'[ventas'[v].cliente] # Vacia
                          /\ altas'[ventas'[v].cliente] <= ventas'[v].creada
                          /\ ventas'[v].creada <= hoy'
      OBVIOUS
    <2> DEFINE x == ventas'[v]
    <2>2. /\ altas[x.cliente] # Vacia /\ altas[x.cliente] <= x.creada /\ x.creada <= hoy /\ x \in Venta
      BY <1>9
    <2> HIDE DEF x
    <2>3. x.cliente \in ClientesVenta /\ x.creada \in Nat
      BY <2>2, ConstantesReportes DEF Venta
    <2>4. altas'[x.cliente] = altas[x.cliente]
      BY <1>8, <2>2, <2>3
    <2>5. x.creada <= hoy'
      BY <1>1, <1>6, <2>2, <2>3
    <2>6. QED
      BY <2>2, <2>4, <2>5 DEF x
  <1>11. QED
    BY <1>6, <1>7, <1>10 DEF FechasCuadran

LEMMA FechasSiempre == SpecReportes => [](TypeReportes /\ FechasCuadran)
  BY TypeReportesInicial, TypeReportesPaso, FechasCuadranInicial, FechasCuadranPaso, PTL
  DEF SpecReportes

\* Who bought in a range that begins with the first day came in that range.
LEMMA FrecuentesSonNuevos ==
    ASSUME TypeReportes, FechasCuadran, NEW r \in Rangos, DiaInicial \in r
    PROVE  DOMAIN Frecuentes(r, 1) \subseteq ClientesNuevos(r)
  <1> DEFINE S == Vendidas(r)
             c == ClavesDe(S, "cliente")
  <1>1. S \in SUBSET Registradas /\ \A v \in S : ventas[v].creada \in r
    BY DEF Vendidas, Creadas
  <1>2. DOMAIN Frecuentes(r, 1) = {c[v] : v \in S} /\ DOMAIN Frecuentes(r, 1) \in SUBSET ClientesVenta
    <2>1. DOMAIN Frecuentes(r, 1) = DOMAIN Agregado(S, "cliente")
          /\ DOMAIN Frecuentes(r, 1) \in SUBSET ClientesVenta
      BY FrecuentesTodos
    <2> HIDE DEF S
    <2>2. DOMAIN Agregado(S, "cliente") = {c[v] : v \in S}
      BY <1>1, AgregadoCuenta
    <2>3. QED
      BY <2>1, <2>2
  <1>3. \A v \in S : c[v] = ventas[v].cliente
    BY DEF ClavesDe
  <1>4. PICK d \in DiaInicial..UltimoDia, h \in DiaInicial..UltimoDia : r = d..h
    BY DEF Rangos
  <1>5. DiaInicial \in Nat /\ UltimoDia \in Nat
    BY ConstantesReportes
  <1>6. d = DiaInicial /\ h \in Nat
    BY <1>4, <1>5
  <1> HIDE DEF S, c
  <1>7. ASSUME NEW v \in S PROVE ventas[v].cliente \in ClientesVenta => c[v] \in ClientesNuevos(r)
    <2>1. /\ altas[ventas[v].cliente] # Vacia
          /\ altas[ventas[v].cliente] <= ventas[v].creada
      BY <1>1 DEF FechasCuadran
    <2>2. ventas[v].creada \in DiaInicial..h
      BY <1>1, <1>4, <1>6
    <2>3. SUFFICES ASSUME ventas[v].cliente \in ClientesVenta PROVE c[v] \in ClientesNuevos(r)
      OBVIOUS
    <2>4. altas[ventas[v].cliente] \in Nat /\ DiaInicial <= altas[ventas[v].cliente]
      BY <2>1, <2>3, ConstantesReportes DEF TypeReportes, FechasCuadran
    <2>5. altas[ventas[v].cliente] \in r
      BY <1>4, <1>5, <1>6, <2>1, <2>2, <2>4
    <2>6. QED
      BY <1>3, <2>1, <2>3, <2>5 DEF ClientesNuevos
  <1>8. QED
    BY <1>2, <1>3, <1>7

\* The reports of a range, one by one.
LEMMA ReportesDelRango ==
    ASSUME TypeReportes, NEW r
    PROVE  /\ \A e \in EstadosVenta : SumaSerie(Tendencia(r, "mes", e)) = PorEstado(r)[e]
           /\ SumaSerie(Tendencia(r, "semana", Vacia)) = SumaSerie(PorEstado(r))
           /\ ReporteCancelaciones(r).total = SumaSerie(PorEstado(r))
           /\ Numeros(ReporteCancelaciones(r).desglose, DOMAIN ReporteCancelaciones(r).desglose)
                 = PorEstado(r)["cancelada"]
           /\ Numeros(MasVendidos(r), DOMAIN MasVendidos(r)) + ReporteCancelaciones(r).canceladas
                 = ReporteCancelaciones(r).total
           /\ \A K \in Listados(Frecuentes(r, 1), Cardinality(ClientesVenta)) :
                 /\ Numeros(Frecuentes(r, 1), K) = Numeros(MasVendidos(r), DOMAIN MasVendidos(r))
                 /\ Importes(Frecuentes(r, 1), K) = Importes(MasVendidos(r), DOMAIN MasVendidos(r))
           /\ SumaSerie(SerieClientes(r, "semana")) = SumaSerie(SerieClientes(r, "mes"))
  <1> DEFINE C == Creadas(r)
             B == {v \in Creadas(r) : ventas[v].estado = "cancelada"}
             A == Vendidas(r)
             todos == Agregado(Vendidas(r), "cliente")
  <1>1. \A e \in EstadosVenta : PorEstado(r)[e] = Cardinality({v \in C : ventas[v].estado = e})
    BY DEF PorEstado
  <1>2. ASSUME NEW e \in EstadosVenta
        PROVE  SumaSerie(Tendencia(r, "mes", e)) = PorEstado(r)[e]
    <2>1. Vacia # e
      BY ConstantesDeReportes
    <2>2. {v \in C : e \in {Vacia, ventas[v].estado}} = {v \in C : ventas[v].estado = e}
      BY <2>1
    <2>3. SumaSerie(Tendencia(r, "mes", e))
            = Cardinality({v \in C : e \in {Vacia, ventas[v].estado}})
      BY TendenciaCuenta
    <2>4. QED
      BY <1>1, <2>2, <2>3
  <1>3. SumaSerie(Tendencia(r, "semana", Vacia)) = SumaSerie(PorEstado(r))
    <2>1. {v \in C : Vacia \in {Vacia, ventas[v].estado}} = C
      OBVIOUS
    <2>2. SumaSerie(Tendencia(r, "semana", Vacia))
            = Cardinality({v \in C : Vacia \in {Vacia, ventas[v].estado}})
      BY TendenciaCuenta
    <2>3. QED
      BY <2>1, <2>2, EstadosCuentan
  <1>4. /\ ReporteCancelaciones(r).total = Cardinality(C)
        /\ ReporteCancelaciones(r).canceladas = Cardinality(B)
        /\ ReporteCancelaciones(r).desglose = Agregado(B, "servicio")
    BY DEF ReporteCancelaciones
  <1>5. ReporteCancelaciones(r).total = SumaSerie(PorEstado(r))
    BY <1>4, EstadosCuentan
  <1>6. /\ B \in SUBSET Registradas /\ A \in SUBSET Registradas
        /\ Cardinality(A) + Cardinality(B) = Cardinality(C)
    BY CreadasSeParten
  <1>7. PorEstado(r)["cancelada"] = Cardinality(B)
    BY <1>1 DEF EstadosVenta
  <1>8. MasVendidos(r) = Agregado(A, "servicio")
    BY DEF MasVendidos
  <1> HIDE DEF A, B, C
  <1>9. Numeros(ReporteCancelaciones(r).desglose, DOMAIN ReporteCancelaciones(r).desglose)
          = PorEstado(r)["cancelada"]
    <2>1. Numeros(Agregado(B, "servicio"), DOMAIN Agregado(B, "servicio")) = Cardinality(B)
      BY <1>6, AgregadoCuenta
    <2>2. QED
      BY <1>4, <1>7, <2>1
  <1>10. /\ Numeros(MasVendidos(r), DOMAIN MasVendidos(r)) = Cardinality(A)
         /\ Importes(MasVendidos(r), DOMAIN MasVendidos(r)) = Total(Totales(A), A)
    <2>1. /\ Numeros(Agregado(A, "servicio"), DOMAIN Agregado(A, "servicio")) = Cardinality(A)
          /\ Importes(Agregado(A, "servicio"), DOMAIN Agregado(A, "servicio")) = Total(Totales(A), A)
      BY <1>6, AgregadoCuenta
    <2>2. QED
      BY <1>8, <2>1
  <1>11. ASSUME NEW K \in Listados(Frecuentes(r, 1), Cardinality(ClientesVenta))
         PROVE  /\ Numeros(Frecuentes(r, 1), K) = Cardinality(A)
                /\ Importes(Frecuentes(r, 1), K) = Total(Totales(A), A)
    <2> DEFINE f == Frecuentes(r, 1)
    <2>1. /\ DOMAIN f = DOMAIN todos /\ K = DOMAIN todos
          /\ \A k \in DOMAIN todos : f[k] = todos[k]
      BY FrecuentesTodos
    <2>2. todos = Agregado(A, "cliente")
      BY DEF A
    <2> HIDE DEF f, todos
    <2>3. /\ Numeros(todos, DOMAIN todos) = Cardinality(A)
          /\ Importes(todos, DOMAIN todos) = Total(Totales(A), A)
      BY <1>6, <2>2, AgregadoCuenta
    <2>4. /\ [k \in K |-> f[k].numero] = [k \in K |-> todos[k].numero]
          /\ [k \in K |-> f[k].importe] = [k \in K |-> todos[k].importe]
      BY <2>1
    <2>5. /\ Numeros(f, K) = Total([k \in K |-> f[k].numero], K)
          /\ Numeros(todos, K) = Total([k \in K |-> todos[k].numero], K)
          /\ Importes(f, K) = Total([k \in K |-> f[k].importe], K)
          /\ Importes(todos, K) = Total([k \in K |-> todos[k].importe], K)
      BY ColumnasSon
    <2>6. Numeros(f, K) = Numeros(todos, K) /\ Importes(f, K) = Importes(todos, K)
      BY <2>4, <2>5
    <2>7. QED
      BY <2>1, <2>3, <2>6 DEF f
  <1>12. SumaSerie(SerieClientes(r, "semana")) = SumaSerie(SerieClientes(r, "mes"))
    BY SerieClientesCuenta
  <1>13. Numeros(MasVendidos(r), DOMAIN MasVendidos(r)) + ReporteCancelaciones(r).canceladas
           = ReporteCancelaciones(r).total
    BY <1>4, <1>6, <1>10
  <1>14. QED
    BY <1>2, <1>3, <1>5, <1>9, <1>10, <1>11, <1>12, <1>13

\* Whatever was sold, edited, cancelled and withdrawn from sale, the reports of
\* reservations tell one story, each through its own filter
\* (reporte_service.py:186-511).
THEOREM LosReportesCuadran == SpecReportes => []ReportesCuadran
  <1>1. ASSUME TypeReportes, FechasCuadran PROVE ReportesCuadran
    <2>1. \A r \in Rangos :
             /\ \A e \in EstadosVenta : SumaSerie(Tendencia(r, "mes", e)) = PorEstado(r)[e]
             /\ SumaSerie(Tendencia(r, "semana", Vacia)) = SumaSerie(PorEstado(r))
             /\ ReporteCancelaciones(r).total = SumaSerie(PorEstado(r))
             /\ Numeros(ReporteCancelaciones(r).desglose, DOMAIN ReporteCancelaciones(r).desglose)
                   = PorEstado(r)["cancelada"]
             /\ Numeros(MasVendidos(r), DOMAIN MasVendidos(r)) + ReporteCancelaciones(r).canceladas
                   = ReporteCancelaciones(r).total
             /\ \A K \in Listados(Frecuentes(r, 1), Cardinality(ClientesVenta)) :
                   /\ Numeros(Frecuentes(r, 1), K) = Numeros(MasVendidos(r), DOMAIN MasVendidos(r))
                   /\ Importes(Frecuentes(r, 1), K) = Importes(MasVendidos(r), DOMAIN MasVendidos(r))
             /\ SumaSerie(SerieClientes(r, "semana")) = SumaSerie(SerieClientes(r, "mes"))
      BY <1>1, ReportesDelRango
    <2>2. \A r \in Rangos : DiaInicial \in r => DOMAIN Frecuentes(r, 1) \subseteq ClientesNuevos(r)
      BY <1>1, FrecuentesSonNuevos
    <2>3. \A dias \in {1, UltimoDia} :
             Numeros(ReporteOcupacion(hoy..(hoy + dias)), deVenta)
               = Cardinality({v \in Proximas(dias, Vacia) \ Proximas(dias, "cancelada") :
                                 ventas[v].servicio \in deVenta})
      BY <1>1, OcupacionCuenta
    <2>4. QED
      BY <2>1, <2>2, <2>3 DEF ReportesCuadran, SumaSerie, Numeros, Importes
  <1>2. QED
    BY <1>1, FechasSiempre, PTL

-------------------------------------------------------------------------------
\* Prices.

\* The day after the last one charged.
Salida(v) == IF v.tipo = "entrada" THEN v.llegada + 1 ELSE v.salida

LEMMA ConstantesTarifas ==
    /\ \A n \in {PrecioEntrada, PrecioCamping, PrecioCabana, Personas, MaxFecha} : n \in Nat
    /\ IdsTarifa \in SUBSET Int /\ IsFiniteSet(IdsTarifa) /\ 0 \notin IdsTarifa
    /\ \A v \in Visitas :
          /\ v.tipo \in {"entrada", "camping", "hospedaje"}
          /\ v.llegada \in Nat /\ v.salida \in Nat
          /\ v.tipo = "entrada" => v.salida = v.llegada
          /\ v.tipo # "entrada" => v.salida > v.llegada
  BY ConstantesDeTarifas DEF Fechas

LEMMA Producto ==
    ASSUME NEW a \in Nat, NEW b \in Nat
    PROVE  a * b \in Nat
  OBVIOUS

LEMMA Cociente ==
    ASSUME NEW a \in Nat, NEW n \in Nat \ {0}
    PROVE  a \div n \in Nat /\ n * (a \div n) <= a
  OBVIOUS

LEMMA NochesSon ==
    ASSUME NEW v \in Visitas
    PROVE  /\ v.llegada \in Nat /\ Salida(v) \in Nat /\ v.llegada < Salida(v)
           /\ Noches(v) = v.llegada..(Salida(v) - 1)
           /\ Noches(v) = v.llegada..Max({v.llegada, v.salida - 1})
           /\ IsFiniteSet(Noches(v)) /\ Cardinality(Noches(v)) = Salida(v) - v.llegada
  <1> DEFINE a == v.llegada
             b == Salida(v)
  <1>1. a \in Nat /\ v.salida \in Nat /\ b \in Nat /\ a < b
    BY ConstantesTarifas DEF Salida
  <1>2. Noches(v) = a..(b - 1)
    <2>1. CASE v.tipo = "entrada"
      <3>1. b - 1 = a /\ a..a = {a}
        BY <1>1, <2>1 DEF Salida
      <3>2. QED
        BY <2>1, <3>1 DEF Noches
    <2>2. CASE v.tipo # "entrada"
      BY <2>2 DEF Noches, Salida
    <2>3. QED
      BY <2>1, <2>2
  <1>3. Max({v.llegada, v.salida - 1}) = b - 1
    <2>1. v.salida - 1 \in Int
      BY <1>1
    <2>2. Max({v.llegada, v.salida - 1})
             = IF v.llegada >= v.salida - 1 THEN v.llegada ELSE v.salida - 1
      BY <1>1, <2>1, MaxDos
    <2>3. QED
      BY <1>1, <2>2, ConstantesTarifas DEF Salida
  <1> HIDE DEF a, b
  <1>4. IsFiniteSet(a..(b - 1)) /\ Cardinality(a..(b - 1)) = b - a
    BY <1>1, FS_Interval
  <1>5. QED
    BY <1>1, <1>2, <1>3, <1>4 DEF a, b

LEMMA BaseTipo ==
    ASSUME NEW v \in Visitas
    PROVE  /\ Base(v) \in Nat /\ BaseDiaria(v) \in Nat
           /\ (Salida(v) - v.llegada) * BaseDiaria(v) <= Base(v)
  <1> DEFINE n == Salida(v) - v.llegada
             d == IF v.tipo = "entrada" THEN 1 ELSE v.salida - v.llegada
  <1>1. n \in Nat \ {0} /\ Cardinality(Noches(v)) = n
    <2>1. /\ v.llegada \in Nat /\ Salida(v) \in Nat /\ v.llegada < Salida(v)
          /\ Cardinality(Noches(v)) = Salida(v) - v.llegada
      BY NochesSon
    <2>2. QED
      BY <2>1
  <1>2. d \in Nat
    BY ConstantesTarifas
  <1>3. /\ PrecioEntrada * Personas \in Nat
        /\ (PrecioEntrada + PrecioCamping) * Personas \in Nat
        /\ PrecioEntrada + PrecioCamping \in Nat
    BY ConstantesTarifas, Producto
  <1> HIDE DEF n, d
  <1>4. /\ (PrecioEntrada + PrecioCamping) * Personas * d \in Nat
        /\ PrecioEntrada * Personas * d \in Nat
        /\ PrecioCabana * d \in Nat
    BY <1>2, <1>3, ConstantesTarifas, Producto
  <1>5. \/ v.tipo = "entrada" /\ Base(v) = PrecioEntrada * Personas
        \/ v.tipo = "camping" /\ Base(v) = (PrecioEntrada + PrecioCamping) * Personas * d
        \/ v.tipo = "hospedaje" /\ Base(v) = PrecioEntrada * Personas * d + PrecioCabana * d
    BY ConstantesTarifas DEF Base, d
  <1>6. Base(v) \in Nat
    BY <1>3, <1>4, <1>5
  <1>7. BaseDiaria(v) = Base(v) \div n
    BY <1>1 DEF BaseDiaria
  <1>8. QED
    BY <1>1, <1>6, <1>7, Cociente DEF n

LEMMA AjusteTipo ==
    ASSUME NEW base \in Nat, NEW p \in -100..500
    PROVE  Ajuste(base, p) \in Int /\ Ajuste(base, p) >= -base
  <1> DEFINE n == base * p
  <1>1. n \in Int
    OBVIOUS
  <1>2. n >= -100 * base
    <2>1. p + 100 \in Nat
      OBVIOUS
    <2>2. base * (p + 100) \in Nat
      BY <2>1, Producto
    <2>3. base * (p + 100) = base * p + 100 * base
      OBVIOUS
    <2>4. QED
      BY <1>1, <2>2, <2>3
  <1> HIDE DEF n
  <1>3. Ajuste(base, p) = IF n >= 0 THEN (2 * n + 100) \div 200 ELSE -((100 - 2 * n) \div 200)
    BY <1>1 DEF Ajuste, Redondeo, n
  <1>4. QED
    BY <1>1, <1>2, <1>3

LEMMA SinAjuste == ASSUME NEW base \in Nat PROVE Ajuste(base, 0) = 0
  <1>1. base * 0 = 0
    OBVIOUS
  <1>2. QED
    BY <1>1 DEF Ajuste, Redondeo

-------------------------------------------------------------------------------
\* The rate charged exists: priorities first, then ids, are a total order.
LEMMA GanadoraDef ==
    ASSUME NEW T, NEW S \in SUBSET IdsTarifa, S # {}, \A i \in S : T[i].prioridad \in Int
    PROVE  Ganadora(T, S) \in S /\ \A j \in S \ {Ganadora(T, S)} : Precede(T, Ganadora(T, S), j)
  <1> DEFINE f == [i \in S |-> T[i].prioridad]
             R == {f[i] : i \in S}
             m == Max(R)
             B == {i \in S : f[i] = m}
             k == Max(B)
             P(i) == i \in S /\ \A j \in S \ {i} : Precede(T, i, j)
  <1>1. S \in SUBSET Int /\ IsFiniteSet(S)
    BY ConstantesTarifas, FS_Subset
  <1>2. f \in [S -> Int] /\ R \in SUBSET Int /\ R # {}
    OBVIOUS
  <1>3. IsFiniteSet(R)
    <2> HIDE DEF f
    <2>1. QED
      BY <1>1, <1>2, ImagenFinita
  <1>4. m \in R /\ \A i \in S : m >= f[i]
    <2> HIDE DEF R
    <2>1. m \in R /\ \A y \in R : m >= y
      BY <1>2, <1>3, MaxDef
    <2>2. QED
      BY <2>1 DEF R
  <1> HIDE DEF m
  <1>5. B \in SUBSET S /\ B # {} /\ B \in SUBSET Int
    BY <1>1, <1>4
  <1>6. IsFiniteSet(B)
    BY <1>1, <1>5, FS_Subset
  <1>7. k \in B /\ \A i \in B : k >= i
    <2> HIDE DEF B
    <2>1. QED
      BY <1>5, <1>6, MaxDef
  <1> HIDE DEF k
  <1>8. ASSUME NEW j \in S \ {k} PROVE Precede(T, k, j)
    <2>1. f[j] <= m /\ f[k] = m /\ f[j] \in Int /\ m \in Int /\ k \in Int /\ j \in Int
      BY <1>1, <1>2, <1>4, <1>5, <1>7
    <2>2. f[j] = m => k >= j
      BY <1>7
    <2>3. T[j].prioridad = f[j] /\ T[k].prioridad = f[k]
      BY <1>5, <1>7
    <2> HIDE DEF f
    <2>4. QED
      BY <2>1, <2>2, <2>3 DEF Precede
  <1>9. P(k)
    BY <1>5, <1>7, <1>8
  <1>10. Ganadora(T, S) = CHOOSE i \in S : \A j \in S \ {i} : Precede(T, i, j)
    BY DEF Ganadora
  <1> HIDE DEF B
  <1>11. QED
    BY <1>9, <1>10

\* and is the only one.
LEMMA GanadoraUnica ==
    ASSUME NEW T, NEW S \in SUBSET IdsTarifa, \A i \in S : T[i].prioridad \in Int,
           NEW i \in S, \A j \in S \ {i} : Precede(T, i, j)
    PROVE  Ganadora(T, S) = i
  <1> DEFINE g == Ganadora(T, S)
  <1>1. S # {}
    OBVIOUS
  <1>2. g \in S /\ \A j \in S \ {g} : Precede(T, g, j)
    BY <1>1, GanadoraDef
  <1> HIDE DEF g
  <1>3. g \in Int /\ i \in Int /\ T[g].prioridad \in Int /\ T[i].prioridad \in Int
    BY <1>2, ConstantesTarifas
  <1>4. ASSUME g # i PROVE FALSE
    <2>1. Precede(T, g, i) /\ Precede(T, i, g)
      BY <1>2, <1>4
    <2>2. QED
      BY <1>3, <2>1 DEF Precede
  <1>5. QED
    BY <1>4 DEF g

\* What a day adds to a price.
Cargo(T, f, v) ==
    LET S == ReglasParaFecha(T, f, v)
    IN  IF S = {} THEN 0 ELSE Ajuste(BaseDiaria(v), T[Ganadora(T, S)].porcentaje)

Cargos(T, v) == [f \in Noches(v) |-> Cargo(T, f, v)]

LEMMA ReglasParaFechaSon ==
    ASSUME NEW T \in [IdsTarifa -> Tarifa \cup {SinValor}], NEW f, NEW v
    PROVE  /\ ReglasParaFecha(T, f, v) \in SUBSET IdsTarifa
           /\ \A i \in ReglasParaFecha(T, f, v) :
                 T[i] \in Tarifa /\ T[i].prioridad \in Int /\ T[i].porcentaje \in -100..500
  <1>1. \A i \in ReglasParaFecha(T, f, v) : i \in IdsTarifa /\ T[i] # SinValor
    BY DEF ReglasParaFecha
  <1>2. \A i \in ReglasParaFecha(T, f, v) : T[i] \in Tarifa
    BY <1>1
  <1>3. \A t \in Tarifa : t.prioridad \in Int /\ t.porcentaje \in -100..500
    BY DEF Tarifa
  <1>4. QED
    BY <1>1, <1>2, <1>3

LEMMA CargoTipo ==
    ASSUME NEW T \in [IdsTarifa -> Tarifa \cup {SinValor}], NEW f, NEW v \in Visitas
    PROVE  Cargo(T, f, v) \in Int
  <1> DEFINE S == ReglasParaFecha(T, f, v)
  <1>1. CASE S = {}
    BY <1>1 DEF Cargo
  <1>2. CASE S # {}
    <2>1. Ganadora(T, S) \in S /\ \A i \in S : T[i].porcentaje \in -100..500
      BY <1>2, ReglasParaFechaSon, GanadoraDef
    <2>2. QED
      BY <1>2, <2>1, BaseTipo, AjusteTipo DEF Cargo
  <1>3. QED
    BY <1>1, <1>2

LEMMA PrecioEsSuma ==
    ASSUME NEW T, NEW v
    PROVE  Precio(T, v) = Base(v) + Total(Cargos(T, v), Noches(v))
  <1> DEFINE S == Noches(v)
             F(f) == LET R == ReglasParaFecha(T, f, v) IN
                     IF R = {} THEN 0 ELSE Ajuste(BaseDiaria(v), T[Ganadora(T, R)].porcentaje)
             g == [f \in S |-> F(f)]
  <1>1. Cargos(T, v) = g
    BY DEF Cargos, Cargo
  <1>2. Precio(T, v) = Base(v) + MapThenSumSet(F, S)
    BY DEF Precio
  <1> HIDE DEF S
  <1>3. MapThenSumSet(F, S) = Total(g, S)
    BY DEF MapThenSumSet, MapThenFoldSet, Total, Acumula, Elige
  <1>4. QED
    BY <1>1, <1>2, <1>3 DEF S

\* A total in which one term grows by k.
LEMMA TotalSube ==
    ASSUME NEW S, IsFiniteSet(S), NEW f, NEW g, NEW a \in S, NEW k \in Int,
           \A x \in S : f[x] \in Int /\ (x # a => g[x] = f[x]), g[a] = f[a] + k
    PROVE  Total(g, S) = Total(f, S) + k /\ Total(f, S) \in Int
  <1> DEFINE T == S \ {a}
  <1>1. IsFiniteSet(T) /\ \A x \in S : g[x] \in Int
    BY FS_RemoveElement
  <1>2. Total(f, S) = f[a] + Total(f, T) /\ Total(g, S) = g[a] + Total(g, T)
    BY <1>1, TotalQuita
  <1>3. \A x \in T : f[x] \in Int /\ g[x] = f[x]
    OBVIOUS
  <1> HIDE DEF T
  <1>4. Total(f, T) = Total(g, T) /\ Total(f, T) \in Int
    BY <1>1, <1>3, TotalIgual, TotalTipo
  <1>5. f[a] \in Int /\ Total(f, S) = f[a] + Total(f, T) /\ Total(g, S) = (f[a] + k) + Total(g, T)
    BY <1>2
  <1>6. QED
    BY <1>4, <1>5

-------------------------------------------------------------------------------
\* Ids are handed out in order.
Conocidas == \A i \in IdsTarifa : tarifas[i] # SinValor => i <= ultimaTarifa

Linea == [regla : Tarifa \cup {SinValor}, dias : Nat, subtotal : Int]

Subtotales(lineas) == [i \in IdsTarifa |-> lineas[i].subtotal]
DiasCobrados(lineas) == [i \in IdsTarifa |-> lineas[i].dias]

\* What is charged so far, and that no day took more than the price of a day.
Desglose(c) ==
    c.paso = "dia" =>
        /\ c.base = BaseDiaria(c.visita)
        /\ c.visita.llegada <= c.fecha /\ c.fecha <= Salida(c.visita)
        /\ c.total = Base(c.visita) + Total(Subtotales(c.lineas), IdsTarifa)
        /\ c.total + (c.fecha - c.visita.llegada) * c.base >= Base(c.visita)
        /\ Total(DiasCobrados(c.lineas), IdsTarifa) <= c.fecha - c.visita.llegada
        /\ \A i \in IdsTarifa :
              /\ c.lineas[i].dias = 0 => c.lineas[i].subtotal = 0
              /\ c.lineas[i].dias > 0 =>
                    /\ c.lineas[i].regla \in Tarifa
                    /\ c.lineas[i].subtotal
                          = c.lineas[i].dias * Ajuste(c.base, c.lineas[i].regla.porcentaje)

\* While no rate changes, the objects kept are the rows, and the days charged are
\* those of the price.
Vigente(c, T, m) ==
    (c.paso = "dia" /\ ~m) =>
        /\ \A i \in IdsTarifa : c.lineas[i].dias > 0 => c.lineas[i].regla = T[i]
        /\ c.total = Base(c.visita) + Total(Cargos(T, c.visita), c.visita.llegada..(c.fecha - 1))

InvTarifas ==
    /\ TypeTarifas /\ Conocidas
    /\ Desglose(cuenta) /\ Vigente(cuenta, tarifas, movida)

LEMMA SinCuentaTipo ==
    /\ SinLinea \in Linea /\ SinCuenta \in Cuenta
    /\ SinCuenta.paso = "libre"
    /\ SinCuenta = [SinCuenta EXCEPT !.paso = "libre"]
    /\ SinCuenta.lineas = [i \in IdsTarifa |-> SinLinea]
  <1>1. SinLinea \in Linea
    BY DEF SinLinea, Linea
  <1>2. (CHOOSE v \in Visitas : TRUE) \in Visitas
    BY ConstantesDeTarifas
  <1>3. [i \in IdsTarifa |-> SinLinea] \in [IdsTarifa -> Linea]
    BY <1>1
  <1>4. SinCuenta \in Cuenta
    BY <1>2, <1>3 DEF SinCuenta, Cuenta, Linea
  <1>5. QED
    BY <1>1, <1>4 DEF SinCuenta

LEMMA InvTarifasInicial ==
    ASSUME InitTarifas
    PROVE  InvTarifas
  <1>1. TypeTarifas
    BY SinCuentaTipo DEF InitTarifas, TypeTarifas
  <1>2. Conocidas
    BY DEF InitTarifas, Conocidas
  <1>3. cuenta.paso # "dia"
    BY SinCuentaTipo DEF InitTarifas
  <1>4. QED
    BY <1>1, <1>2, <1>3 DEF InvTarifas, Desglose, Vigente

\* Creating, editing or deleting a rate.
LEMMA TarifasCambian ==
    ASSUME InvTarifas, CrearTarifa \/ ActualizarTarifa \/ EliminarTarifa
    PROVE  InvTarifas'
  <1>1. UNCHANGED cuenta /\ movida' = TRUE
    BY DEF CrearTarifa, ActualizarTarifa, EliminarTarifa
  <1>2. tarifas \in [IdsTarifa -> Tarifa \cup {SinValor}] /\ ultimaTarifa \in IdsTarifa \cup {0}
    BY DEF InvTarifas, TypeTarifas
  <1>3. IdsTarifa \in SUBSET Int
    BY ConstantesTarifas
  <1>4. /\ tarifas' \in [IdsTarifa -> Tarifa \cup {SinValor}]
        /\ ultimaTarifa' \in IdsTarifa \cup {0} /\ Conocidas'
    <2>1. CASE CrearTarifa
      <3>1. PICK i \in IdsTarifa, t \in Reglas :
               /\ i > ultimaTarifa /\ tarifas' = [tarifas EXCEPT ![i] = t] /\ ultimaTarifa' = i
        BY <2>1 DEF CrearTarifa
      <3>2. t \in Tarifa
        BY ReglasTipadas
      <3>3. Conocidas'
        <4>1. ASSUME NEW j \in IdsTarifa, tarifas'[j] # SinValor PROVE j <= ultimaTarifa'
          <5>1. j # i => j <= ultimaTarifa
            BY <1>2, <3>1, <4>1 DEF InvTarifas, Conocidas
          <5>2. QED
            BY <1>2, <1>3, <3>1, <5>1, ConstantesTarifas
        <4>2. QED
          BY <4>1 DEF Conocidas
      <3>4. QED
        BY <1>2, <3>1, <3>2, <3>3
    <2>2. CASE ActualizarTarifa
      <3>1. PICK i \in Existentes, c \in Ediciones :
               /\ tarifas' = [tarifas EXCEPT ![i] = Actualizada(tarifas[i], c)]
               /\ UNCHANGED ultimaTarifa
        BY <2>2 DEF ActualizarTarifa
      <3>2. i \in IdsTarifa /\ tarifas[i] # SinValor /\ tarifas[i] \in Tarifa
        BY <1>2 DEF Existentes
      <3>3. c \in Edicion
        BY ReglasTipadas
      <3>4. Actualizada(tarifas[i], c) \in Tarifa
        <4> DEFINE t == tarifas[i]
        <4>1. t \in Tarifa
          BY <3>2
        <4> HIDE DEF t
        <4> DEFINE e == [k \in DOMAIN t |-> IF c[k] = SinValor THEN t[k] ELSE c[k]]
        <4>2. /\ DOMAIN t = {"activa", "inicio", "fin", "porcentaje", "aplica", "dias",
                              "prioridad", "unidad"}
              /\ t.activa \in BOOLEAN /\ t.inicio \in Fechas /\ t.fin \in Fechas
              /\ t.porcentaje \in -100..500 /\ t.prioridad \in -1000..1000
              /\ t.aplica \in {"todos", "entrada", "camping", "hospedaje"}
              /\ t.dias \in {SinValor} \cup SUBSET Int /\ t.unidad \in {SinValor} \cup Cabanas
          BY <4>1 DEF Tarifa
        <4>3. /\ c.activa = SinValor \/ c.activa \in BOOLEAN
              /\ c.inicio = SinValor \/ c.inicio \in Fechas
              /\ c.fin = SinValor \/ c.fin \in Fechas
              /\ c.porcentaje = SinValor \/ c.porcentaje \in -100..500
              /\ c.prioridad = SinValor \/ c.prioridad \in -1000..1000
              /\ c.aplica = SinValor \/ c.aplica \in {"todos", "entrada", "camping", "hospedaje"}
              /\ c.dias \in {SinValor} \cup SUBSET Int /\ c.unidad \in {SinValor} \cup Cabanas
          BY <3>3 DEF Edicion
        <4>4. /\ e.activa \in BOOLEAN /\ e.inicio \in Fechas /\ e.fin \in Fechas
              /\ e.porcentaje \in -100..500 /\ e.prioridad \in -1000..1000
              /\ e.aplica \in {"todos", "entrada", "camping", "hospedaje"}
              /\ e.dias \in {SinValor} \cup SUBSET Int /\ e.unidad \in {SinValor} \cup Cabanas
          BY <4>2, <4>3
        <4>5. e = [activa |-> e.activa, inicio |-> e.inicio, fin |-> e.fin,
                   porcentaje |-> e.porcentaje, aplica |-> e.aplica, dias |-> e.dias,
                   prioridad |-> e.prioridad, unidad |-> e.unidad]
          BY <4>2
        <4>6. Actualizada(t, c) = e
          BY DEF Actualizada
        <4> HIDE DEF e
        <4>7. QED
          BY <4>4, <4>5, <4>6 DEF Tarifa, t
      <3>5. Conocidas'
        BY <1>2, <3>1, <3>2 DEF InvTarifas, Conocidas
      <3>6. QED
        BY <1>2, <3>1, <3>4, <3>5
    <2>3. CASE EliminarTarifa
      <3>1. PICK i \in Existentes :
               tarifas' = [tarifas EXCEPT ![i] = SinValor] /\ UNCHANGED ultimaTarifa
        BY <2>3 DEF EliminarTarifa
      <3>2. Conocidas'
        BY <1>2, <3>1 DEF InvTarifas, Conocidas, Existentes
      <3>3. QED
        BY <1>2, <3>1, <3>2
    <2>4. QED
      BY <2>1, <2>2, <2>3
  <1>5. Desglose(cuenta)' /\ Vigente(cuenta, tarifas, movida)'
    BY <1>1 DEF InvTarifas, Desglose, Vigente
  <1>6. QED
    BY <1>1, <1>4, <1>5 DEF InvTarifas, TypeTarifas

LEMMA PrecioEmpieza ==
    ASSUME InvTarifas, EmpezarPrecio
    PROVE  InvTarifas'
  <1>1. PICK v \in Visitas :
           cuenta' = [SinCuenta EXCEPT !.paso = "dia", !.visita = v, !.base = BaseDiaria(v),
                                       !.fecha = v.llegada, !.total = Base(v)]
    BY DEF EmpezarPrecio
  <1>2. movida' = FALSE /\ UNCHANGED <<tarifas, ultimaTarifa>>
    BY DEF EmpezarPrecio
  <1> DEFINE e == [SinCuenta EXCEPT !.paso = "dia", !.visita = v, !.base = BaseDiaria(v),
                                    !.fecha = v.llegada, !.total = Base(v)]
  <1>3. Base(v) \in Nat /\ BaseDiaria(v) \in Nat /\ v.llegada \in Nat
        /\ v.llegada <= Salida(v) /\ IsFiniteSet(IdsTarifa)
    <2>1. v.llegada \in Nat /\ Salida(v) \in Nat /\ v.llegada < Salida(v)
      BY NochesSon
    <2>2. Base(v) \in Nat /\ BaseDiaria(v) \in Nat
      BY BaseTipo
    <2>3. QED
      BY <2>1, <2>2, ConstantesTarifas
  <1>4. /\ e.paso = "dia" /\ e.visita = v /\ e.base = BaseDiaria(v)
        /\ e.fecha = v.llegada /\ e.total = Base(v)
        /\ e.lineas = [i \in IdsTarifa |-> SinLinea]
    BY DEF SinCuenta
  <1>5. e \in Cuenta
    <2> DEFINE L == [IdsTarifa -> [regla : Tarifa \cup {SinValor}, dias : Nat, subtotal : Int]]
    <2>1. SinCuenta \in [paso : {"libre", "dia"}, visita : Visitas, base : Nat, fecha : Nat,
                         total : Int, lineas : L]
      BY SinCuentaTipo DEF Cuenta
    <2>2. Base(v) \in Int
      BY <1>3
    <2> HIDE DEF L
    <2>3. e \in [paso : {"libre", "dia"}, visita : Visitas, base : Nat, fecha : Nat,
                 total : Int, lineas : L]
      BY <1>3, <2>1, <2>2
    <2>4. QED
      BY <2>3 DEF Cuenta, L
  <1>6. \A i \in IdsTarifa : e.lineas[i].dias = 0 /\ e.lineas[i].subtotal = 0
    BY <1>4 DEF SinLinea
  <1>7. Total(Subtotales(e.lineas), IdsTarifa) = 0 /\ Total(DiasCobrados(e.lineas), IdsTarifa) = 0
    <2>1. \A i \in IdsTarifa : Subtotales(e.lineas)[i] = 0 /\ DiasCobrados(e.lineas)[i] = 0
      BY <1>6 DEF Subtotales, DiasCobrados
    <2>2. QED
      BY <1>3, <2>1, TotalCero
  <1> HIDE DEF e
  <1>8. v.llegada..(v.llegada - 1) = {} /\ Total(Cargos(tarifas, v), {}) = 0
    BY <1>3, TotalVacio
  <1>9. Desglose(e)
    BY <1>3, <1>4, <1>6, <1>7 DEF Desglose
  <1>10. Vigente(e, tarifas, FALSE)
    BY <1>3, <1>4, <1>6, <1>8 DEF Vigente
  <1>11. cuenta' = e
    BY <1>1 DEF e
  <1>12. TypeTarifas' /\ Conocidas'
    BY <1>2, <1>5, <1>11 DEF InvTarifas, TypeTarifas, Conocidas
  <1>13. Desglose(cuenta') /\ Vigente(cuenta', tarifas', movida')
    BY <1>2, <1>9, <1>10, <1>11
  <1>14. QED
    BY <1>12, <1>13 DEF InvTarifas

LEMMA PrecioTermina ==
    ASSUME InvTarifas, TerminarPrecio
    PROVE  InvTarifas'
  <1>1. cuenta' = SinCuenta /\ UNCHANGED <<tarifas, ultimaTarifa, movida>>
    BY DEF TerminarPrecio
  <1>2. TypeTarifas' /\ Conocidas'
    BY <1>1, SinCuentaTipo DEF InvTarifas, TypeTarifas, Conocidas
  <1>3. cuenta'.paso # "dia"
    BY <1>1, SinCuentaTipo
  <1>4. Desglose(cuenta') /\ Vigente(cuenta', tarifas', movida')
    BY <1>3 DEF Desglose, Vigente
  <1>5. QED
    BY <1>2, <1>4 DEF InvTarifas

\* A day at the rate g, or at none, added to an account.
Cobrada(c, g, regla, ajuste) ==
    [c EXCEPT !.fecha = @ + 1, !.total = @ + ajuste,
              !.lineas[g] = [regla |-> regla, dias |-> @.dias + 1, subtotal |-> @.subtotal + ajuste]]

LEMMA CuentaTiene ==
    ASSUME NEW c \in Cuenta
    PROVE  /\ c.visita \in Visitas /\ c.base \in Nat /\ c.fecha \in Nat /\ c.total \in Int
           /\ c.lineas \in [IdsTarifa -> Linea]
           /\ \A i \in IdsTarifa :
                 /\ c.lineas[i].dias \in Nat /\ c.lineas[i].subtotal \in Int
                 /\ c.lineas[i].regla \in Tarifa \cup {SinValor}
  <1>1. c.visita \in Visitas /\ c.base \in Nat /\ c.fecha \in Nat /\ c.total \in Int
        /\ c.lineas \in [IdsTarifa -> Linea]
    BY DEF Cuenta, Linea
  <1>2. \A i \in IdsTarifa : c.lineas[i] \in Linea
    BY <1>1
  <1>3. \A l \in Linea : l.dias \in Nat /\ l.subtotal \in Int /\ l.regla \in Tarifa \cup {SinValor}
    BY DEF Linea
  <1>4. QED
    BY <1>1, <1>2, <1>3

LEMMA CobradaTiene ==
    ASSUME NEW c \in Cuenta, NEW g \in IdsTarifa, NEW regla \in Tarifa, NEW ajuste \in Int
    PROVE  LET e == Cobrada(c, g, regla, ajuste) IN
           /\ e \in Cuenta
           /\ e.paso = c.paso /\ e.visita = c.visita /\ e.base = c.base
           /\ e.fecha = c.fecha + 1 /\ e.total = c.total + ajuste
           /\ \A i \in IdsTarifa \ {g} : e.lineas[i] = c.lineas[i]
           /\ e.lineas[g].regla = regla /\ e.lineas[g].dias = c.lineas[g].dias + 1
           /\ e.lineas[g].subtotal = c.lineas[g].subtotal + ajuste
  <1> DEFINE l == [regla |-> regla, dias |-> c.lineas[g].dias + 1,
                   subtotal |-> c.lineas[g].subtotal + ajuste]
             m == [c.lineas EXCEPT ![g] = l]
             L == [IdsTarifa -> Linea]
             e == [c EXCEPT !.fecha = c.fecha + 1, !.total = c.total + ajuste, !.lineas = m]
  <1>1. c.fecha + 1 \in Nat /\ c.total + ajuste \in Int /\ c.lineas \in L
    BY CuentaTiene
  <1>2. l \in Linea
    BY CuentaTiene DEF Linea
  <1>3. m \in L /\ m[g] = l /\ \A i \in IdsTarifa \ {g} : m[i] = c.lineas[i]
    <2> HIDE DEF l
    <2>1. QED
      BY <1>1, <1>2
  <1>4. l.regla = regla /\ l.dias = c.lineas[g].dias + 1 /\ l.subtotal = c.lineas[g].subtotal + ajuste
    OBVIOUS
  <1>5. c \in [paso : {"libre", "dia"}, visita : Visitas, base : Nat, fecha : Nat,
              total : Int, lineas : L]
    BY DEF Cuenta, Linea
  <1>6. Cobrada(c, g, regla, ajuste) = e
    <2>1. DOMAIN c = {"paso", "visita", "base", "fecha", "total", "lineas"}
      BY DEF Cuenta
    <2>2. QED
      BY <2>1 DEF Cobrada
  <1> HIDE DEF l, m, L
  <1>7. /\ e \in [paso : {"libre", "dia"}, visita : Visitas, base : Nat, fecha : Nat,
                  total : Int, lineas : L]
        /\ e.paso = c.paso /\ e.visita = c.visita /\ e.base = c.base
        /\ e.fecha = c.fecha + 1 /\ e.total = c.total + ajuste /\ e.lineas = m
    BY <1>1, <1>3, <1>5
  <1> HIDE DEF e
  <1>8. e \in Cuenta
    BY <1>7 DEF Cuenta, L, Linea
  <1>9. QED
    BY <1>3, <1>4, <1>6, <1>7, <1>8

LEMMA DesgloseCobra ==
    ASSUME NEW c \in Cuenta, Desglose(c), c.paso = "dia", c.fecha \in Noches(c.visita),
           NEW g \in IdsTarifa, NEW regla \in Tarifa,
           c.lineas[g].dias > 0 => c.lineas[g].regla = regla
    PROVE  /\ Ajuste(c.base, regla.porcentaje) \in Int
           /\ Desglose(Cobrada(c, g, regla, Ajuste(c.base, regla.porcentaje)))
  <1> DEFINE a == Ajuste(c.base, regla.porcentaje)
             e == Cobrada(c, g, regla, a)
             v == c.visita
             x == Subtotales(c.lineas)
             y == Subtotales(e.lineas)
             m == DiasCobrados(c.lineas)
             n == DiasCobrados(e.lineas)
  <1>1. c.base \in Nat /\ v \in Visitas /\ c.fecha \in Nat /\ c.total \in Int
        /\ \A i \in IdsTarifa : c.lineas[i].dias \in Nat /\ c.lineas[i].subtotal \in Int
    BY CuentaTiene
  <1>2. regla.porcentaje \in -100..500
    BY DEF Tarifa
  <1>3. a \in Int /\ a >= -c.base
    BY <1>1, <1>2, AjusteTipo
  <1> HIDE DEF a
  <1>4. /\ e.paso = c.paso /\ e.visita = v /\ e.base = c.base
        /\ e.fecha = c.fecha + 1 /\ e.total = c.total + a
        /\ \A i \in IdsTarifa \ {g} : e.lineas[i] = c.lineas[i]
        /\ e.lineas[g].regla = regla /\ e.lineas[g].dias = c.lineas[g].dias + 1
        /\ e.lineas[g].subtotal = c.lineas[g].subtotal + a
    BY <1>3, CobradaTiene
  <1> HIDE DEF e
  <1>5. v.llegada \in Nat /\ Salida(v) \in Nat /\ Noches(v) = v.llegada..(Salida(v) - 1)
    BY <1>1, NochesSon
  <1>6. v.llegada <= c.fecha /\ c.fecha + 1 <= Salida(v)
    BY <1>1, <1>5
  <1>7. IsFiniteSet(IdsTarifa)
    BY ConstantesTarifas
  <1>8. Total(y, IdsTarifa) = Total(x, IdsTarifa) + a /\ Total(x, IdsTarifa) \in Int
    <2>1. /\ \A i \in IdsTarifa : x[i] \in Int /\ (i # g => y[i] = x[i])
          /\ y[g] = x[g] + a /\ a \in Int
      BY <1>1, <1>3, <1>4 DEF Subtotales
    <2> HIDE DEF x, y
    <2>2. QED
      BY <1>7, <2>1, TotalSube
  <1>9. Total(n, IdsTarifa) = Total(m, IdsTarifa) + 1 /\ Total(m, IdsTarifa) \in Int
    <2>1. /\ \A i \in IdsTarifa : m[i] \in Int /\ (i # g => n[i] = m[i])
          /\ n[g] = m[g] + 1 /\ 1 \in Int
      BY <1>1, <1>3, <1>4 DEF DiasCobrados
    <2> HIDE DEF m, n
    <2>2. QED
      BY <1>7, <2>1, TotalSube
  <1>10. /\ c.base = BaseDiaria(v)
         /\ c.total = Base(v) + Total(x, IdsTarifa)
         /\ c.total + (c.fecha - v.llegada) * c.base >= Base(v)
         /\ Total(m, IdsTarifa) <= c.fecha - v.llegada
         /\ \A i \in IdsTarifa :
               /\ c.lineas[i].dias = 0 => c.lineas[i].subtotal = 0
               /\ c.lineas[i].dias > 0 =>
                     /\ c.lineas[i].regla \in Tarifa
                     /\ c.lineas[i].subtotal
                           = c.lineas[i].dias * Ajuste(c.base, c.lineas[i].regla.porcentaje)
    BY DEF Desglose
  <1>11. Base(v) \in Nat
    BY <1>1, BaseTipo
  <1>12. e.total = Base(v) + Total(y, IdsTarifa)
    <2> HIDE DEF x, y
    <2>1. QED
      BY <1>3, <1>4, <1>8, <1>10, <1>11
  <1>13. Total(n, IdsTarifa) <= e.fecha - v.llegada
    <2> HIDE DEF m, n
    <2>1. QED
      BY <1>1, <1>4, <1>5, <1>9, <1>10
  <1>14. e.total + (e.fecha - v.llegada) * e.base >= Base(v)
    <2> DEFINE k == c.fecha - v.llegada
               t == k * c.base
    <2>1. k \in Int /\ e.fecha - v.llegada = k + 1
      BY <1>1, <1>4, <1>5
    <2> HIDE DEF k
    <2>2. (k + 1) * c.base = t + c.base /\ t \in Int
      BY <1>1, <2>1
    <2> HIDE DEF t
    <2>3. c.total + t >= Base(v)
      BY <1>10 DEF t, k
    <2>4. e.total + (e.fecha - v.llegada) * e.base = (c.total + a) + (t + c.base)
      BY <1>4, <2>1, <2>2
    <2>5. QED
      BY <1>1, <1>3, <1>11, <2>2, <2>3, <2>4
  <1>15. ASSUME NEW i \in IdsTarifa
         PROVE  /\ e.lineas[i].dias = 0 => e.lineas[i].subtotal = 0
                /\ e.lineas[i].dias > 0 =>
                      /\ e.lineas[i].regla \in Tarifa
                      /\ e.lineas[i].subtotal
                            = e.lineas[i].dias * Ajuste(e.base, e.lineas[i].regla.porcentaje)
    <2>1. CASE i # g
      BY <1>4, <1>10, <2>1
    <2>2. CASE i = g
      <3> DEFINE d == c.lineas[g].dias
      <3>1. d \in Nat
        BY <1>1
      <3>2. c.lineas[g].subtotal = d * a
        <4>1. CASE d = 0
          BY <1>3, <1>10, <4>1
        <4>2. CASE d > 0
          BY <1>10, <4>2 DEF a
        <4>3. QED
          BY <3>1, <4>1, <4>2
      <3> HIDE DEF d
      <3>3. (d + 1) * a = d * a + a
        BY <1>3, <3>1
      <3>4. e.lineas[g].subtotal = (d + 1) * a /\ e.lineas[g].dias = d + 1
        BY <1>4, <3>2, <3>3 DEF d
      <3>5. a = Ajuste(e.base, e.lineas[g].regla.porcentaje)
        BY <1>4 DEF a
      <3>6. QED
        BY <1>4, <2>2, <3>1, <3>4, <3>5
    <2>3. QED
      BY <2>1, <2>2
  <1>16. Desglose(e)
    <2> HIDE DEF v, y, n
    <2>1. Subtotales(e.lineas) = y /\ DiasCobrados(e.lineas) = n
      BY DEF y, n
    <2>2. QED
      BY <1>1, <1>4, <1>5, <1>6, <1>10, <1>12, <1>13, <1>14, <1>15, <2>1 DEF Desglose
  <1>17. QED
    BY <1>3, <1>16 DEF e, a

LEMMA DesgloseAvanza ==
    ASSUME NEW c \in Cuenta, Desglose(c), c.paso = "dia", c.fecha \in Noches(c.visita)
    PROVE  /\ [c EXCEPT !.fecha = @ + 1] \in Cuenta
           /\ Desglose([c EXCEPT !.fecha = @ + 1])
  <1> DEFINE e == [c EXCEPT !.fecha = @ + 1]
             L == [IdsTarifa -> [regla : Tarifa \cup {SinValor}, dias : Nat, subtotal : Int]]
             v == c.visita
  <1>1. c.base \in Nat /\ v \in Visitas /\ c.fecha \in Nat /\ c.total \in Int
        /\ \A i \in IdsTarifa : c.lineas[i].dias \in Nat /\ c.lineas[i].subtotal \in Int
    BY CuentaTiene
  <1>2. c \in [paso : {"libre", "dia"}, visita : Visitas, base : Nat, fecha : Nat,
              total : Int, lineas : L]
    BY DEF Cuenta
  <1> HIDE DEF L
  <1>3. /\ e \in [paso : {"libre", "dia"}, visita : Visitas, base : Nat, fecha : Nat,
                  total : Int, lineas : L]
        /\ e.paso = c.paso /\ e.visita = v /\ e.base = c.base /\ e.total = c.total
        /\ e.fecha = c.fecha + 1 /\ e.lineas = c.lineas
    BY <1>1, <1>2
  <1>4. e \in Cuenta
    BY <1>3 DEF Cuenta, L
  <1> HIDE DEF e
  <1>5. v.llegada \in Nat /\ Salida(v) \in Nat /\ Noches(v) = v.llegada..(Salida(v) - 1)
    BY <1>1, NochesSon
  <1>6. v.llegada <= c.fecha /\ c.fecha + 1 <= Salida(v)
    BY <1>1, <1>5
  <1>7. \A i \in IdsTarifa : DiasCobrados(c.lineas)[i] \in Int
    BY <1>1 DEF DiasCobrados
  <1>8. Total(DiasCobrados(c.lineas), IdsTarifa) \in Int /\ Base(v) \in Nat
    BY <1>1, <1>7, ConstantesTarifas, TotalTipo, BaseTipo
  <1>9. e.total + (e.fecha - v.llegada) * e.base >= Base(v)
    <2> DEFINE k == c.fecha - v.llegada
               t == k * c.base
    <2>1. k \in Int /\ e.fecha - v.llegada = k + 1
      BY <1>1, <1>3, <1>5
    <2> HIDE DEF k
    <2>2. (k + 1) * c.base = t + c.base /\ t \in Int
      BY <1>1, <2>1
    <2> HIDE DEF t
    <2>3. c.total + t >= Base(v)
      BY DEF Desglose, t, k
    <2>4. QED
      BY <1>1, <1>3, <1>8, <2>1, <2>2, <2>3
  <1>10. Desglose(e)
    <2> HIDE DEF v
    <2>1. v = c.visita
      BY DEF v
    <2>2. QED
      BY <1>1, <1>3, <1>5, <1>6, <1>8, <1>9, <2>1 DEF Desglose
  <1>11. QED
    BY <1>4, <1>10 DEF e

\* One day more of the price.
LEMMA CargosSuman ==
    ASSUME NEW T \in [IdsTarifa -> Tarifa \cup {SinValor}], NEW v \in Visitas,
           NEW f \in Noches(v)
    PROVE  /\ Total(Cargos(T, v), v.llegada..f)
                = Total(Cargos(T, v), v.llegada..(f - 1)) + Cargo(T, f, v)
           /\ Total(Cargos(T, v), v.llegada..(f - 1)) \in Int
  <1> DEFINE a == v.llegada
             S == a..(f - 1)
             h == Cargos(T, v)
  <1>1. a \in Nat /\ Salida(v) \in Nat /\ Noches(v) = a..(Salida(v) - 1)
    BY NochesSon
  <1>2. f \in Int /\ a <= f /\ f <= Salida(v) - 1
    BY <1>1
  <1>3. S \cup {f} = a..f /\ f \notin S /\ S \cup {f} \subseteq Noches(v)
    BY <1>1, <1>2
  <1>4. \A x \in Noches(v) : h[x] = Cargo(T, x, v) /\ h[x] \in Int
    BY CargoTipo DEF Cargos
  <1>5. IsFiniteSet(S)
    <2> DEFINE b == f - 1
    <2>1. a \in Int /\ b \in Int
      BY <1>1, <1>2
    <2> HIDE DEF a, b
    <2>2. IsFiniteSet(a..b)
      BY <2>1, FS_Interval
    <2>3. QED
      BY <2>2 DEF b
  <1> HIDE DEF S, h
  <1>6. Total(h, S \cup {f}) = h[f] + Total(h, S) /\ Total(h, S) \in Int
    BY <1>3, <1>4, <1>5, TotalAgrega, TotalTipo
  <1>7. h[f] \in Int /\ h[f] = Cargo(T, f, v)
    BY <1>4
  <1>8. Total(h, a..f) = Total(h, S) + Cargo(T, f, v)
    <2> DEFINE t == Total(h, S)
               u == Total(h, a..f)
    <2>1. t \in Int /\ u = h[f] + t
      BY <1>3, <1>6
    <2> HIDE DEF t, u
    <2>2. u = t + Cargo(T, f, v)
      BY <1>7, <2>1
    <2>3. QED
      BY <2>2 DEF t, u
  <1>9. QED
    BY <1>6, <1>8 DEF S, h

LEMMA DiaCobrado ==
    ASSUME InvTarifas, CobrarDia
    PROVE  InvTarifas'
  <1> DEFINE c == cuenta
             v == cuenta.visita
             f == cuenta.fecha
             R == ReglasVistas
             g == Ganadora(tarifas, R)
  <1>1. /\ c \in Cuenta /\ tarifas \in [IdsTarifa -> Tarifa \cup {SinValor}]
        /\ Desglose(c) /\ Vigente(c, tarifas, movida)
    BY DEF InvTarifas, TypeTarifas
  <1>2. c.paso = "dia" /\ f \in Noches(v) /\ UNCHANGED <<tarifas, ultimaTarifa, movida>>
    BY DEF CobrarDia
  <1>3. /\ v \in Visitas /\ c.base \in Nat /\ f \in Nat /\ c.total \in Int
        /\ \A i \in IdsTarifa : c.lineas[i].dias \in Nat
    BY <1>1, CuentaTiene
  <1>4. R \in SUBSET IdsTarifa /\ \A i \in R : tarifas[i] \in Tarifa /\ tarifas[i] # SinValor
    BY <1>1 DEF ReglasVistas, Existentes
  <1>5. \A i \in R : tarifas[i].prioridad \in Int
    <2>1. \A t \in Tarifa : t.prioridad \in Int
      BY DEF Tarifa
    <2>2. QED
      BY <1>4, <2>1
  <1>6. \A i \in IdsTarifa : Vista(i) = IF c.lineas[i].dias = 0 THEN tarifas[i] ELSE c.lineas[i].regla
    BY DEF Vista
  <1>7. \A i \in R : Vista(i) \in Tarifa /\ (c.lineas[i].dias > 0 => c.lineas[i].regla = Vista(i))
    BY <1>1, <1>2, <1>3, <1>4, <1>6 DEF Desglose
  <1>8. ASSUME ~movida
        PROVE  /\ \A i \in IdsTarifa : Vista(i) = tarifas[i]
               /\ R = ReglasParaFecha(tarifas, f, v)
               /\ c.total = Base(v) + Total(Cargos(tarifas, v), v.llegada..(f - 1))
    <2>1. /\ \A i \in IdsTarifa : c.lineas[i].dias > 0 => c.lineas[i].regla = tarifas[i]
          /\ c.total = Base(v) + Total(Cargos(tarifas, v), v.llegada..(f - 1))
      BY <1>1, <1>2, <1>8 DEF Vigente
    <2>2. \A i \in IdsTarifa : Vista(i) = tarifas[i]
      BY <1>3, <1>6, <2>1
    <2>3. R = ReglasParaFecha(tarifas, f, v)
      BY <2>2 DEF ReglasVistas, ReglasParaFecha, Existentes
    <2>4. QED
      BY <2>1, <2>2, <2>3
  <1>9. /\ Total(Cargos(tarifas, v), v.llegada..f)
             = Total(Cargos(tarifas, v), v.llegada..(f - 1)) + Cargo(tarifas, f, v)
        /\ Total(Cargos(tarifas, v), v.llegada..(f - 1)) \in Int
        /\ Base(v) \in Nat /\ Cargo(tarifas, f, v) \in Int /\ (f + 1) - 1 = f
    BY <1>1, <1>2, <1>3, CargosSuman, BaseTipo, CargoTipo
  <1>10. SUFFICES cuenta' \in Cuenta /\ Desglose(cuenta') /\ Vigente(cuenta', tarifas', movida')
    BY <1>1, <1>2 DEF InvTarifas, TypeTarifas, Conocidas
  <1>11. CASE R = {}
    <2> DEFINE e == [c EXCEPT !.fecha = @ + 1]
    <2>1. cuenta' = e
      BY <1>11 DEF CobrarDia
    <2>2. e \in Cuenta /\ Desglose(e)
      BY <1>1, <1>2, DesgloseAvanza
    <2>3. e.visita = v /\ e.fecha = f + 1 /\ e.total = c.total /\ e.lineas = c.lineas
      BY <1>1 DEF Cuenta
    <2> HIDE DEF e
    <2>4. ASSUME ~movida
          PROVE  /\ \A i \in IdsTarifa : e.lineas[i].dias > 0 => e.lineas[i].regla = tarifas[i]
                 /\ e.total = Base(v) + Total(Cargos(tarifas, v), v.llegada..(e.fecha - 1))
      <3>1. Cargo(tarifas, f, v) = 0
        BY <1>8, <1>11, <2>4 DEF Cargo
      <3>2. \A i \in IdsTarifa : e.lineas[i].dias > 0 => e.lineas[i].regla = tarifas[i]
        BY <1>1, <1>2, <2>3, <2>4 DEF Vigente
      <3>3. c.total = Base(v) + Total(Cargos(tarifas, v), v.llegada..(f - 1))
        BY <1>8, <2>4
      <3>4. QED
        BY <1>9, <2>3, <3>1, <3>2, <3>3
    <2>5. Vigente(e, tarifas, movida)
      BY <2>3, <2>4 DEF Vigente
    <2>6. QED
      BY <1>2, <2>1, <2>2, <2>5
  <1>12. CASE R # {}
    <2> DEFINE a == Ajuste(c.base, Vista(g).porcentaje)
               regla == Vista(g)
               e == Cobrada(c, g, regla, a)
    <2>1. g \in R /\ g \in IdsTarifa
      BY <1>4, <1>5, <1>12, GanadoraDef
    <2>2. regla \in Tarifa /\ (c.lineas[g].dias > 0 => c.lineas[g].regla = regla)
      BY <1>7, <2>1
    <2>3. a \in Int /\ Desglose(e)
      <3> HIDE DEF c, g, regla
      <3>1. Vista(g) = regla
        BY DEF regla
      <3>2. QED
        BY <1>1, <1>2, <2>1, <2>2, <3>1, DesgloseCobra DEF c
    <2>4. cuenta' = e
      <3>1. cuenta' = [cuenta EXCEPT
                 !.fecha = @ + 1, !.total = @ + a,
                 !.lineas[g] = [regla |-> IF cuenta.lineas[g].dias = 0 THEN tarifas[g] ELSE @.regla,
                                dias |-> @.dias + 1, subtotal |-> @.subtotal + a]]
        BY <1>12 DEF CobrarDia
      <3>2. regla = IF cuenta.lineas[g].dias = 0 THEN tarifas[g] ELSE cuenta.lineas[g].regla
        BY <1>6, <2>1
      <3> HIDE DEF a, g, regla
      <3>3. QED
        BY <3>1, <3>2 DEF Cobrada
    <2>5. /\ e \in Cuenta /\ e.visita = v /\ e.fecha = f + 1 /\ e.total = c.total + a
          /\ \A i \in IdsTarifa \ {g} : e.lineas[i] = c.lineas[i]
          /\ e.lineas[g].regla = regla
      <3> HIDE DEF a, g, regla
      <3>1. QED
        BY <1>1, <2>1, <2>2, <2>3, CobradaTiene
    <2>6. ASSUME ~movida
          PROVE  /\ \A i \in IdsTarifa : e.lineas[i].dias > 0 => e.lineas[i].regla = tarifas[i]
                 /\ e.total = Base(v) + Total(Cargos(tarifas, v), v.llegada..(e.fecha - 1))
      <3>1. /\ regla = tarifas[g] /\ R = ReglasParaFecha(tarifas, f, v)
            /\ c.total = Base(v) + Total(Cargos(tarifas, v), v.llegada..(f - 1))
        BY <1>8, <2>1, <2>6
      <3>2. c.base = BaseDiaria(v)
        BY <1>1, <1>2 DEF Desglose
      <3>3. Cargo(tarifas, f, v) = a
        BY <1>12, <3>1, <3>2 DEF Cargo
      <3>4. \A i \in IdsTarifa : c.lineas[i].dias > 0 => c.lineas[i].regla = tarifas[i]
        BY <1>1, <1>2, <2>6 DEF Vigente
      <3> HIDE DEF a, g, regla, e
      <3>5. \A i \in IdsTarifa : e.lineas[i].dias > 0 => e.lineas[i].regla = tarifas[i]
        BY <2>5, <3>1, <3>4
      <3>6. QED
        BY <1>3, <1>9, <2>3, <2>5, <3>1, <3>3, <3>5
    <2>7. Vigente(e, tarifas, movida)
      <3> HIDE DEF e
      <3>1. QED
        BY <2>5, <2>6 DEF Vigente
    <2>8. QED
      <3> HIDE DEF e
      <3>1. QED
        BY <1>2, <2>3, <2>4, <2>5, <2>7
  <1>13. QED
    BY <1>11, <1>12

LEMMA InvTarifasPaso ==
    ASSUME InvTarifas, [NextTarifas]_varsTarifas
    PROVE  InvTarifas'
  <1>1. CASE CrearTarifa \/ ActualizarTarifa \/ EliminarTarifa
    BY <1>1, TarifasCambian
  <1>2. CASE EmpezarPrecio
    BY <1>2, PrecioEmpieza
  <1>3. CASE CobrarDia
    BY <1>3, DiaCobrado
  <1>4. CASE TerminarPrecio
    BY <1>4, PrecioTermina
  <1>5. CASE UNCHANGED varsTarifas
    BY <1>5 DEF varsTarifas, InvTarifas, TypeTarifas, Conocidas, Desglose, Vigente
  <1>6. QED
    BY <1>1, <1>2, <1>3, <1>4, <1>5 DEF NextTarifas

LEMMA TarifasSiempre == SpecTarifas => []InvTarifas
  BY InvTarifasInicial, InvTarifasPaso, PTL DEF SpecTarifas

LEMMA PrecioListo ==
    ASSUME InvTarifas, Listo
    PROVE  /\ cuenta \in Cuenta /\ cuenta.paso = "dia" /\ cuenta.visita \in Visitas
           /\ cuenta.fecha = Salida(cuenta.visita)
  <1> DEFINE v == cuenta.visita
  <1>1. cuenta \in Cuenta /\ cuenta.paso = "dia" /\ cuenta.fecha \notin Noches(v)
        /\ v.llegada <= cuenta.fecha /\ cuenta.fecha <= Salida(v)
    BY DEF InvTarifas, TypeTarifas, Listo, Desglose
  <1>2. v \in Visitas /\ cuenta.fecha \in Nat
    BY <1>1, CuentaTiene
  <1>3. v.llegada \in Nat /\ Salida(v) \in Nat /\ Noches(v) = v.llegada..(Salida(v) - 1)
    BY <1>2, NochesSon
  <1>4. QED
    BY <1>1, <1>2, <1>3

\* Whatever is edited, deleted or created while a price is worked out, its lines add
\* up to the total, each is its days at one percentage, and no discount takes the
\* total below zero (tarifa_especial_service.py:84).
THEOREM ElDesgloseCuadra == SpecTarifas => []DesgloseCuadra
  <1>1. ASSUME InvTarifas PROVE DesgloseCuadra
    <2> SUFFICES ASSUME Listo
                 PROVE  /\ cuenta.total >= 0
                        /\ cuenta.total = Base(cuenta.visita)
                             + MapThenSumSet(LAMBDA i : cuenta.lineas[i].subtotal, IdsTarifa)
                        /\ \A i \in IdsTarifa :
                              cuenta.lineas[i].dias > 0 =>
                                cuenta.lineas[i].subtotal
                                  = cuenta.lineas[i].dias
                                      * Ajuste(cuenta.base, cuenta.lineas[i].regla.porcentaje)
                        /\ MapThenSumSet(LAMBDA i : cuenta.lineas[i].dias, IdsTarifa)
                             <= Cardinality(Noches(cuenta.visita))
      BY DEF DesgloseCuadra
    <2> DEFINE c == cuenta
               v == c.visita
               n == Salida(v) - v.llegada
    <2>1. c \in Cuenta /\ c.paso = "dia" /\ v \in Visitas /\ c.fecha = Salida(v)
      BY <1>1, PrecioListo
    <2>2. /\ c.base = BaseDiaria(v)
          /\ c.total = Base(v) + Total(Subtotales(c.lineas), IdsTarifa)
          /\ c.total + n * c.base >= Base(v)
          /\ Total(DiasCobrados(c.lineas), IdsTarifa) <= n
          /\ \A i \in IdsTarifa :
                c.lineas[i].dias > 0 =>
                  c.lineas[i].subtotal
                    = c.lineas[i].dias * Ajuste(c.base, c.lineas[i].regla.porcentaje)
      BY <1>1, <2>1 DEF InvTarifas, Desglose
    <2>3. Cardinality(Noches(v)) = n /\ n \in Int
      <3>1. v.llegada \in Nat /\ Salida(v) \in Nat
            /\ Cardinality(Noches(v)) = Salida(v) - v.llegada
        BY <2>1, NochesSon
      <3>2. QED
        BY <3>1
    <2>4. c.total >= 0
      <3> DEFINE t == n * c.base
      <3>1. Base(v) \in Nat /\ c.base \in Nat /\ c.total \in Int /\ t <= Base(v)
        BY <2>1, <2>2, BaseTipo, CuentaTiene
      <3>2. t \in Int
        BY <2>3, <3>1
      <3>3. c.total + t >= Base(v)
        BY <2>2
      <3> HIDE DEF t, c
      <3>4. QED
        BY <3>1, <3>2, <3>3
    <2>5. MapThenSumSet(LAMBDA i : cuenta.lineas[i].subtotal, IdsTarifa)
            = Total(Subtotales(c.lineas), IdsTarifa)
      BY DEF Subtotales, MapThenSumSet, MapThenFoldSet, Total, Acumula, Elige
    <2>6. MapThenSumSet(LAMBDA i : cuenta.lineas[i].dias, IdsTarifa)
            = Total(DiasCobrados(c.lineas), IdsTarifa)
      BY DEF DiasCobrados, MapThenSumSet, MapThenFoldSet, Total, Acumula, Elige
    <2>7. QED
      BY <2>2, <2>3, <2>4, <2>5, <2>6
  <1>2. QED
    BY <1>1, TarifasSiempre, PTL

\* The rates of highest priority and, of those, the youngest.
Mejores(T, f, v) ==
    {i \in ReglasParaFecha(T, f, v) :
        \A j \in ReglasParaFecha(T, f, v) :
            \/ T[j].prioridad < T[i].prioridad
            \/ T[j].prioridad = T[i].prioridad /\ j <= i}

Noche(T, f, v) ==
    MapThenSumSet(LAMBDA i : Ajuste(BaseDiaria(v), T[i].porcentaje), Mejores(T, f, v))

LEMMA NocheEsCargo ==
    ASSUME NEW T \in [IdsTarifa -> Tarifa \cup {SinValor}], NEW f, NEW v \in Visitas
    PROVE  Noche(T, f, v) = Cargo(T, f, v)
  <1> DEFINE S == ReglasParaFecha(T, f, v)
             M == Mejores(T, f, v)
             g == Ganadora(T, S)
             h == [i \in M |-> Ajuste(BaseDiaria(v), T[i].porcentaje)]
  <1>1. S \in SUBSET IdsTarifa
        /\ \A i \in S : T[i].prioridad \in Int /\ T[i].porcentaje \in -100..500 /\ i \in Int
    BY ReglasParaFechaSon, ConstantesTarifas
  <1>2. Noche(T, f, v) = Total(h, M)
    <2> HIDE DEF M
    <2>1. QED
      BY DEF Noche, M, MapThenSumSet, MapThenFoldSet, Total, Acumula, Elige
  <1>3. CASE S = {}
    <2>1. M = {}
      BY <1>3 DEF Mejores
    <2>2. QED
      BY <1>2, <1>3, <2>1, TotalVacio DEF Cargo
  <1>4. CASE S # {}
    <2>1. g \in S /\ \A j \in S \ {g} : Precede(T, g, j)
      BY <1>1, <1>4, GanadoraDef
    <2>2. M = {i \in S :
                 \A j \in S :
                    \/ T[j].prioridad < T[i].prioridad
                    \/ T[j].prioridad = T[i].prioridad /\ j <= i}
      BY DEF Mejores
    <2> HIDE DEF S, g
    <2>3. M = {g}
      <3>1. \A j \in S :
               \/ T[j].prioridad < T[g].prioridad
               \/ T[j].prioridad = T[g].prioridad /\ j <= g
        BY <1>1, <2>1 DEF Precede
      <3>2. ASSUME NEW i \in M PROVE i = g
        <4>1. i \in S /\ (T[g].prioridad < T[i].prioridad \/ (T[g].prioridad = T[i].prioridad /\ g <= i))
          BY <2>1, <2>2
        <4>2. T[i].prioridad < T[g].prioridad \/ (T[i].prioridad = T[g].prioridad /\ i <= g)
          BY <3>1, <4>1
        <4>3. T[i].prioridad \in Int /\ T[g].prioridad \in Int /\ i \in Int /\ g \in Int
          BY <1>1, <2>1, <4>1
        <4>4. QED
          BY <4>1, <4>2, <4>3
      <3>3. g \in M
        BY <2>1, <2>2, <3>1
      <3>4. QED
        BY <3>2, <3>3
    <2>4. h[g] = Ajuste(BaseDiaria(v), T[g].porcentaje) /\ h[g] \in Int
      <3>1. T[g].porcentaje \in -100..500 /\ BaseDiaria(v) \in Nat
        BY <1>1, <2>1, BaseTipo
      <3>2. QED
        BY <2>3, <3>1, AjusteTipo
    <2> HIDE DEF h, M
    <2>5. Total(h, {} \cup {g}) = h[g] + Total(h, {})
      BY <2>4, FS_EmptySet, TotalAgrega
    <2>6. Total(h, M) = h[g]
      BY <2>3, <2>4, <2>5, TotalVacio
    <2>7. Cargo(T, f, v) = Ajuste(BaseDiaria(v), T[g].porcentaje)
      BY <1>4 DEF Cargo, S, g
    <2>8. QED
      BY <1>2, <2>4, <2>6, <2>7
  <1>5. QED
    BY <1>3, <1>4

\* A price worked out while no rate changed is the sum of its nights, each at the
\* rate of highest priority and, of those, the youngest
\* (tarifa_especial_service.py:73, 81).
THEOREM ElPrecioEsElVigente == SpecTarifas => []PrecioVigente
  <1>1. ASSUME InvTarifas PROVE PrecioVigente
    <2> SUFFICES ASSUME Listo, ~movida
                 PROVE  cuenta.total = Base(cuenta.visita)
                          + MapThenSumSet(LAMBDA f : Noche(tarifas, f, cuenta.visita),
                               cuenta.visita.llegada..Max({cuenta.visita.llegada,
                                                           cuenta.visita.salida - 1}))
      BY DEF PrecioVigente, Noche, Mejores, MapThenSumSet, MapThenFoldSet
    <2> DEFINE v == cuenta.visita
               S == Noches(v)
               h == [f \in S |-> Noche(tarifas, f, v)]
    <2>1. cuenta.paso = "dia" /\ v \in Visitas /\ cuenta.fecha = Salida(v)
          /\ tarifas \in [IdsTarifa -> Tarifa \cup {SinValor}]
      BY <1>1, PrecioListo DEF InvTarifas, TypeTarifas
    <2>2. /\ S = v.llegada..(Salida(v) - 1) /\ S = v.llegada..Max({v.llegada, v.salida - 1})
          /\ IsFiniteSet(S)
      BY <2>1, NochesSon
    <2>3. cuenta.total = Base(v) + Total(Cargos(tarifas, v), S)
      BY <1>1, <2>1, <2>2 DEF InvTarifas, Vigente
    <2>4. \A f \in S : Cargos(tarifas, v)[f] \in Int /\ h[f] = Cargos(tarifas, v)[f]
      BY <2>1, CargoTipo, NocheEsCargo DEF Cargos
    <2>5. MapThenSumSet(LAMBDA f : Noche(tarifas, f, v), S) = Total(h, S)
      <3> HIDE DEF S, v
      <3>1. QED
        BY DEF MapThenSumSet, MapThenFoldSet, Total, Acumula, Elige
    <2> HIDE DEF h, S
    <2>6. Total(Cargos(tarifas, v), S) = Total(h, S)
      BY <2>2, <2>4, TotalIgual
    <2>7. QED
      BY <2>2, <2>3, <2>5, <2>6
  <1>2. QED
    BY <1>1, TarifasSiempre, PTL

\* With no two priorities equal, the order of the texts chooses as the order of the
\* numbers.
LEMMA MismaGanadora ==
    ASSUME NEW S \in SUBSET IdsTarifa, S # {}, \A i \in S : tarifas[i].prioridad \in Int,
           \A i, j \in S : i # j => tarifas[i].prioridad # tarifas[j].prioridad
    PROVE  /\ GanadoraEnTexto(S) = Ganadora(tarifas, S) /\ Ganadora(tarifas, S) \in S
           /\ \A j \in S \ {Ganadora(tarifas, S)} :
                 tarifas[Ganadora(tarifas, S)].prioridad > tarifas[j].prioridad
  <1> DEFINE g == Ganadora(tarifas, S)
             P(i) == i \in S /\ \A j \in S \ {i} :
                        \/ tarifas[i].prioridad > tarifas[j].prioridad
                        \/ tarifas[i].prioridad = tarifas[j].prioridad /\ <<j, i>> \in AntesEnTexto
  <1>1. g \in S /\ \A j \in S \ {g} : Precede(tarifas, g, j)
    BY GanadoraDef
  <1>2. GanadoraEnTexto(S) = CHOOSE i \in S : \A j \in S \ {i} :
            \/ tarifas[i].prioridad > tarifas[j].prioridad
            \/ tarifas[i].prioridad = tarifas[j].prioridad /\ <<j, i>> \in AntesEnTexto
    BY DEF GanadoraEnTexto
  <1> DEFINE t == GanadoraEnTexto(S)
  <1> HIDE DEF g
  <1>3. \A j \in S \ {g} : tarifas[g].prioridad > tarifas[j].prioridad
    BY <1>1 DEF Precede
  <1>4. P(g)
    BY <1>1, <1>3
  <1>5. P(t)
    BY <1>2, <1>4
  <1> HIDE DEF t
  <1>6. ASSUME t # g PROVE FALSE
    <2>1. tarifas[t].prioridad > tarifas[g].prioridad
      BY <1>1, <1>5, <1>6
    <2>2. tarifas[g].prioridad > tarifas[t].prioridad
      BY <1>3, <1>5, <1>6
    <2>3. tarifas[g].prioridad \in Int /\ tarifas[t].prioridad \in Int
      BY <1>1, <1>5
    <2>4. QED
      BY <2>1, <2>2, <2>3
  <1>7. QED
    BY <1>1, <1>3, <1>6 DEF g, t

LEMMA GuardadaEsTarifa ==
    ASSUME NEW c \in Tarifa
    PROVE  LET e == [c EXCEPT !.activa = TRUE] IN
           /\ e \in Tarifa /\ e.activa = TRUE /\ e.inicio = c.inicio /\ e.fin = c.fin
           /\ e.aplica = c.aplica /\ e.unidad = c.unidad /\ e.dias = c.dias
           /\ e.prioridad = c.prioridad /\ e.porcentaje = c.porcentaje
           /\ c.prioridad \in Int
  <1> DEFINE e == [c EXCEPT !.activa = TRUE]
             P == -100..500
             A == {"todos", "entrada", "camping", "hospedaje"}
             D == {SinValor} \cup SUBSET Int
             R == -1000..1000
             U == {SinValor} \cup Cabanas
             T == [activa : BOOLEAN, inicio : Fechas, fin : Fechas, porcentaje : P,
                   aplica : A, dias : D, prioridad : R, unidad : U]
  <1>1. c \in T /\ Tarifa = T
    BY DEF Tarifa
  <1>2. c.prioridad \in Int
    BY <1>1
  <1> HIDE DEF P, A, D, R, U
  <1>3. /\ e \in T /\ e.activa = TRUE /\ e.inicio = c.inicio /\ e.fin = c.fin
        /\ e.aplica = c.aplica /\ e.unidad = c.unidad /\ e.dias = c.dias
        /\ e.prioridad = c.prioridad /\ e.porcentaje = c.porcentaje
    BY <1>1
  <1> HIDE DEF T, e
  <1>4. QED
    BY <1>1, <1>2, <1>3 DEF e

\* What the simulator takes for a day is what the day costs once the candidate c is
\* stored with a new id.
LEMMA PrediceDia ==
    ASSUME tarifas \in [IdsTarifa -> Tarifa \cup {SinValor}], Conocidas, ultimaTarifa \in Int,
           NEW v \in Visitas, NEW c \in Tarifa, NEW nueva \in IdsTarifa, nueva > ultimaTarifa,
           NEW f,
           \A i, j \in ReglasParaFecha(tarifas, f, v) :
               i # j => tarifas[i].prioridad # tarifas[j].prioridad
    PROVE  Ajuste(BaseDiaria(v), PorcentajeSimulado(c, f, v))
             = Cargo([tarifas EXCEPT ![nueva] = [c EXCEPT !.activa = TRUE]], f, v)
  <1> DEFINE e == [c EXCEPT !.activa = TRUE]
             T == [tarifas EXCEPT ![nueva] = e]
             S == ReglasParaFecha(tarifas, f, v)
             S2 == ReglasParaFecha(T, f, v)
             b == BaseDiaria(v)
             g == Ganadora(tarifas, S)
             aplica == Alcanza(c, f, v) /\ AplicaDia(c, f)
  <1>1. /\ e \in Tarifa /\ e.activa = TRUE /\ e.inicio = c.inicio /\ e.fin = c.fin
        /\ e.aplica = c.aplica /\ e.unidad = c.unidad /\ e.dias = c.dias
        /\ e.prioridad = c.prioridad /\ e.porcentaje = c.porcentaje
        /\ c.prioridad \in Int /\ e # SinValor
    BY GuardadaEsTarifa, ReglasTipadas
  <1> HIDE DEF e
  <1>2. /\ T \in [IdsTarifa -> Tarifa \cup {SinValor}] /\ T[nueva] = e
        /\ \A i \in IdsTarifa : i # nueva => T[i] = tarifas[i]
    BY <1>1
  <1> HIDE DEF T
  <1>3. nueva \in Int /\ \A i \in IdsTarifa : i \in Int
    BY ConstantesTarifas
  <1>4. tarifas[nueva] = SinValor /\ \A i \in S : i < nueva
    <2>1. \A i \in IdsTarifa : tarifas[i] # SinValor => i <= ultimaTarifa
      BY DEF Conocidas
    <2>2. \A i \in S : i \in IdsTarifa /\ tarifas[i] # SinValor
      BY DEF ReglasParaFecha
    <2>3. ~(nueva <= ultimaTarifa)
      BY <1>3
    <2>4. tarifas[nueva] = SinValor
      BY <2>1, <2>3
    <2> HIDE DEF S
    <2>5. ASSUME NEW i \in S PROVE i < nueva
      <3>1. i \in Int /\ i <= ultimaTarifa
        BY <1>3, <2>1, <2>2
      <3>2. QED
        BY <1>3, <3>1
    <2>6. QED
      BY <2>4, <2>5
  <1>5. S \in SUBSET IdsTarifa /\ nueva \notin S
        /\ \A i \in S : tarifas[i].prioridad \in Int /\ T[i] = tarifas[i]
    <2>1. S \in SUBSET IdsTarifa /\ \A i \in S : tarifas[i].prioridad \in Int
      BY ReglasParaFechaSon
    <2> HIDE DEF S
    <2>2. \A i \in S : i # nueva
      BY <1>3, <1>4, <2>1
    <2>3. QED
      BY <1>2, <2>1, <2>2
  <1>6. S2 \in SUBSET IdsTarifa /\ \A i \in S2 : T[i].prioridad \in Int
    BY <1>2, ReglasParaFechaSon
  <1>7. S2 = IF aplica THEN S \cup {nueva} ELSE S
    <2>1. \A i \in IdsTarifa : i # nueva => (i \in S2 <=> i \in S)
      BY <1>2 DEF ReglasParaFecha
    <2>2. nueva \in S2 <=> aplica
      BY <1>1, <1>2 DEF ReglasParaFecha, Alcanza, AplicaDia
    <2> HIDE DEF S, S2, aplica
    <2>3. QED
      BY <1>5, <1>6, <2>1, <2>2
  <1>8. \A i, j \in S : i # j => tarifas[i].prioridad # tarifas[j].prioridad
    OBVIOUS
  <1>9. S # {} => /\ GanadoraEnTexto(S) = g /\ g \in S
                 /\ \A j \in S \ {g} : tarifas[g].prioridad > tarifas[j].prioridad
    <2> HIDE DEF S
    <2>1. QED
      BY <1>5, <1>8, MismaGanadora
  <1>10. PorcentajeSimulado(c, f, v)
           = IF aplica /\ (S = {} \/ c.prioridad >= tarifas[GanadoraEnTexto(S)].prioridad)
             THEN c.porcentaje
             ELSE IF S = {} THEN 0 ELSE tarifas[GanadoraEnTexto(S)].porcentaje
    BY DEF PorcentajeSimulado
  <1>11. Cargo(T, f, v) = IF S2 = {} THEN 0 ELSE Ajuste(b, T[Ganadora(T, S2)].porcentaje)
    BY DEF Cargo
  <1>12. Ajuste(b, 0) = 0
    BY BaseTipo, SinAjuste
  <1>13. SUFFICES Ajuste(b, PorcentajeSimulado(c, f, v)) = Cargo(T, f, v)
    BY DEF T, e
  <1> HIDE DEF S, S2, g, b, aplica
  <1>14. CASE aplica /\ (S = {} \/ c.prioridad >= tarifas[g].prioridad)
    <2>1. ASSUME NEW j \in S2 \ {nueva} PROVE Precede(T, nueva, j)
      <3>1. j \in S /\ S # {} /\ j < nueva /\ j \in Int
        BY <1>3, <1>4, <1>5, <1>7, <1>14
      <3>2. tarifas[j].prioridad <= tarifas[g].prioridad /\ tarifas[j].prioridad \in Int
            /\ g \in S /\ tarifas[g].prioridad \in Int
        <4>1. /\ tarifas[j].prioridad \in Int /\ g \in S /\ tarifas[g].prioridad \in Int
              /\ j # g => tarifas[g].prioridad > tarifas[j].prioridad
          BY <1>5, <1>9, <3>1
        <4>2. QED
          BY <4>1
      <3>3. T[nueva].prioridad >= T[j].prioridad
        <4>1. c.prioridad >= tarifas[g].prioridad /\ c.prioridad \in Int
              /\ T[nueva].prioridad = c.prioridad /\ T[j].prioridad = tarifas[j].prioridad
          BY <1>1, <1>2, <1>5, <1>14, <3>1
        <4>2. QED
          BY <3>2, <4>1
      <3>4. T[nueva].prioridad \in Int /\ T[j].prioridad \in Int
        BY <1>1, <1>2, <1>5, <3>1
      <3>5. QED
        BY <1>3, <3>1, <3>3, <3>4 DEF Precede
    <2>2. nueva \in S2
      BY <1>7, <1>14
    <2>3. Ganadora(T, S2) = nueva
      BY <1>6, <2>1, <2>2, GanadoraUnica
    <2>4. PorcentajeSimulado(c, f, v) = c.porcentaje
      BY <1>9, <1>10, <1>14
    <2>5. QED
      BY <1>1, <1>2, <1>11, <2>2, <2>3, <2>4
  <1>15. CASE ~(aplica /\ (S = {} \/ c.prioridad >= tarifas[g].prioridad)) /\ S = {}
    BY <1>7, <1>10, <1>11, <1>12, <1>15
  <1>16. CASE ~(aplica /\ (S = {} \/ c.prioridad >= tarifas[g].prioridad)) /\ S # {}
    <2>1. ASSUME NEW j \in S2 \ {g} PROVE Precede(T, g, j)
      <3>1. CASE j = nueva
        <4>1. aplica
          BY <1>5, <1>7, <3>1
        <4>2. tarifas[g].prioridad > c.prioridad
          BY <1>1, <1>5, <1>9, <1>16, <4>1
        <4>3. QED
          BY <1>1, <1>2, <1>5, <1>9, <1>16, <3>1, <4>2 DEF Precede
      <3>2. CASE j # nueva
        <4>1. j \in S
          BY <1>7, <3>2
        <4>2. QED
          BY <1>5, <1>9, <1>16, <4>1 DEF Precede
      <3>3. QED
        BY <3>1, <3>2
    <2>2. g \in S2
      BY <1>7, <1>9, <1>16
    <2>3. Ganadora(T, S2) = g
      BY <1>6, <2>1, <2>2, GanadoraUnica
    <2>4. PorcentajeSimulado(c, f, v) = tarifas[g].porcentaje
      BY <1>9, <1>10, <1>16
    <2>5. QED
      BY <1>5, <1>9, <1>11, <1>16, <2>2, <2>3, <2>4
  <1>17. QED
    BY <1>14, <1>15, <1>16

\* The simulator predicts the price: what it announces for a candidate is what the
\* visit costs once that rate is stored, but for two stored rates that tie
\* (tarifa_especial_service.py:73, 148).
THEOREM ElSimuladorPredice == SpecTarifas => []SimuladorPredice
  <1>1. ASSUME InvTarifas PROVE SimuladorPredice
    <2>1. ASSUME NEW v \in Visitas, NEW c \in Reglas, NEW nueva \in IdsTarifa,
                 nueva > ultimaTarifa,
                 ~ \E f \in Noches(v) : \E i, j \in ReglasParaFecha(tarifas, f, v) :
                       i # j /\ tarifas[i].prioridad = tarifas[j].prioridad
          PROVE  TotalSimulado(c, v)
                   = Precio([tarifas EXCEPT ![nueva] = [c EXCEPT !.activa = TRUE]], v)
      <3> DEFINE T == [tarifas EXCEPT ![nueva] = [c EXCEPT !.activa = TRUE]]
                 S == Noches(v)
                 h == [f \in S |-> Ajuste(BaseDiaria(v), PorcentajeSimulado(c, f, v))]
      <3>1. /\ tarifas \in [IdsTarifa -> Tarifa \cup {SinValor}] /\ Conocidas /\ ultimaTarifa \in Int
            /\ c \in Tarifa
        BY <1>1, ReglasTipadas, ConstantesTarifas DEF InvTarifas, TypeTarifas
      <3>2. T \in [IdsTarifa -> Tarifa \cup {SinValor}]
        <4>1. [c EXCEPT !.activa = TRUE] \in Tarifa
          BY <3>1, GuardadaEsTarifa
        <4>2. QED
          BY <3>1, <4>1
      <3>3. \A f \in S : Cargos(T, v)[f] \in Int /\ Cargos(T, v)[f] = Cargo(T, f, v)
        <4> HIDE DEF T
        <4>1. QED
          BY <3>2, CargoTipo DEF Cargos
      <3>4. \A f \in S : h[f] = Cargo(T, f, v)
        BY <2>1, <3>1, PrediceDia
      <3>5. IsFiniteSet(S)
        BY NochesSon
      <3>6. TotalSimulado(c, v) = Base(v) + Total(h, S)
        <4>1. TotalSimulado(c, v) = Base(v)
                 + MapThenSumSet(LAMBDA f : Ajuste(BaseDiaria(v), PorcentajeSimulado(c, f, v)), S)
          BY DEF TotalSimulado
        <4> HIDE DEF S
        <4>2. MapThenSumSet(LAMBDA f : Ajuste(BaseDiaria(v), PorcentajeSimulado(c, f, v)), S)
                = Total(h, S)
          BY DEF MapThenSumSet, MapThenFoldSet, Total, Acumula, Elige
        <4>3. QED
          BY <4>1, <4>2
      <3>7. Precio(T, v) = Base(v) + Total(Cargos(T, v), S)
        BY PrecioEsSuma
      <3> HIDE DEF T, S, h
      <3>8. Total(Cargos(T, v), S) = Total(h, S)
        BY <3>3, <3>4, <3>5, TotalIgual
      <3>9. QED
        BY <3>6, <3>7, <3>8 DEF T
    <2>2. QED
      BY <2>1 DEF SimuladorPredice
  <1>2. QED
    BY <1>1, TarifasSiempre, PTL

-------------------------------------------------------------------------------
\* The rate limiters.  A call that was admitted in the window of the clock of whoever
\* decides is still in the list, for who dropped it read a clock no later than now; so
\* the list that is counted holds every admission of the stretch.

Registro == [llamada : Anotada, decidida : Nat]

\* Of a list, the calls in the window of a reading.
Frescas(lista, ahora) == {c \in lista : ahora - c.hora < Ventana}

\* A list fits its limit and was written by threads that read the clock before now.
Puesta(lista, n, ya) ==
    /\ IsFiniteSet(lista) /\ Cardinality(lista) <= MaxLlamadas
    /\ \A c \in lista : c.hora <= ya /\ c.turno <= n

\* Each admission remembered is in the list or has left the window.
Memoria(historia, lista, n, ya) ==
    /\ IsFiniteSet(historia)
    /\ \A a \in historia :
          /\ a.decidida <= ya /\ a.llamada.turno <= n
          /\ a.llamada.hora <= a.decidida /\ a.decidida <= a.llamada.hora + Demora
          /\ a.llamada \in lista \/ ya - a.llamada.hora >= Ventana
    /\ \A a, b \in historia : a.llamada = b.llamada => a = b

\* The admissions of a stretch.
Tramo(historia, t) == {a \in historia : a.decidida \in t..(t + Ventana - Demora - 1)}

\* The history that is kept when one is admitted.
Quedan(historia, ya) == {a \in historia : a.decidida > ya - Ventana}

Cupo(historia, ya) == \A t \in 0..ya : Cardinality(Tramo(historia, t)) <= MaxLlamadas

\* The block of a key is shorter than the window, or nothing was admitted since it began;
\* the one before it was.
Castigada(lista, n, hasta) ==
    /\ n >= 1 => \/ Penalizacion(n) < Ventana + Demora
                 \/ \A c \in lista : c.hora <= (hasta - Penalizacion(n)) + Demora
    /\ n >= 2 => Penalizacion(n - 1) < Ventana + Demora

\* A thread decides with a reading of the clock no older than the delay.
EnHora(h) ==
    /\ hilo[h].paso = "decidir" =>
          /\ hilo[h].clave \in ClavesLimitadas
          /\ hilo[h].ahora <= instante /\ instante <= hilo[h].ahora + Demora
    /\ hilo[h].paso = "sigue" => hilo[h].luego \in Contactos

DeClave(k) ==
    /\ Puesta(llamadas[k], turnos[k], instante)
    /\ Memoria(admitidas[k], llamadas[k], turnos[k], instante)
    /\ Cupo(admitidas[k], instante)
    /\ Castigada(llamadas[k], infracciones[k], bloqueado[k])

InvLimites ==
    TypeLimites /\ (\A k \in ClavesLimitadas : DeClave(k)) /\ \A h \in Hilos : EnHora(h)

LEMMA ConstantesLimites ==
    /\ MaxLlamadas \in Nat \ {0} /\ Ventana \in Nat \ {0} /\ Inicial \in Nat \ {0}
    /\ Maxima \in Nat /\ MaxPeticiones \in Nat /\ MaxInstante \in Nat
    /\ Demora \in Nat /\ Demora < Ventana
    /\ SinClave \notin ClavesLimitadas
  BY ConstantesDeLimites DEF ClavesLimitadas, Adaptativas

LEMMA PenalizacionTipo == \A n \in Int : Penalizacion(n) \in Int
  <1> SUFFICES ASSUME NEW n \in Int PROVE Penalizacion(n) \in Int
    OBVIOUS
  <1> DEFINE p == 2 ^ (n - 1)
             m == Inicial * p
  <1>1. p \in Int
    BY SMT
  <1> HIDE DEF p
  <1>2. m \in Int /\ Maxima \in Int
    BY <1>1, ConstantesLimites
  <1> HIDE DEF m
  <1>3. Min({m, Maxima}) = IF m <= Maxima THEN m ELSE Maxima
    BY <1>2, MaxDos
  <1>4. Penalizacion(n) = Min({m, Maxima})
    BY DEF Penalizacion, m, p
  <1>5. QED
    BY <1>2, <1>3, <1>4

LEMMA FrescasDe ==
    ASSUME NEW lista, IsFiniteSet(lista), NEW ahora
    PROVE  /\ Frescas(lista, ahora) \subseteq lista
           /\ IsFiniteSet(Frescas(lista, ahora))
           /\ Cardinality(Frescas(lista, ahora)) <= Cardinality(lista)
           /\ Cardinality(Frescas(lista, ahora)) \in Nat /\ Cardinality(lista) \in Nat
           /\ Frescas(lista, ahora) = {} <=> Cardinality(Frescas(lista, ahora)) = 0
  <1>1. Frescas(lista, ahora) \subseteq lista
    BY DEF Frescas
  <1> DEFINE F == Frescas(lista, ahora)
  <1> HIDE DEF F
  <1>2. IsFiniteSet(F) /\ Cardinality(F) <= Cardinality(lista)
    BY <1>1, FS_Subset DEF F
  <1>3. Cardinality(F) \in Nat /\ Cardinality(lista) \in Nat
    BY <1>2, FS_CardinalityType
  <1>4. F = {} <=> Cardinality(F) = 0
    BY <1>2, FS_EmptySet
  <1>5. QED
    BY <1>1, <1>2, <1>3, <1>4 DEF F

LEMMA AlguienFresco ==
    ASSUME NEW lista, IsFiniteSet(lista), NEW ahora, Frescas(lista, ahora) # {}
    PROVE  \E c \in lista : ahora - c.hora < Ventana
  BY DEF Frescas

\* What a refusal drops has left the window.
LEMMA PodarConserva ==
    ASSUME NEW lista \in SUBSET Anotada, NEW historia \in SUBSET Registro,
           NEW n \in Nat, NEW ya \in Nat, NEW ahora \in Nat, ahora <= ya,
           Puesta(lista, n, ya), Memoria(historia, lista, n, ya)
    PROVE  /\ Frescas(lista, ahora) \in SUBSET Anotada
           /\ Puesta(Frescas(lista, ahora), n, ya)
           /\ Memoria(historia, Frescas(lista, ahora), n, ya)
  <1> DEFINE F == Frescas(lista, ahora)
  <1>1. /\ IsFiniteSet(lista) /\ Cardinality(lista) <= MaxLlamadas
        /\ \A c \in lista : c.hora <= ya /\ c.turno <= n
    BY DEF Puesta
  <1>2. /\ F \subseteq lista /\ IsFiniteSet(F) /\ Cardinality(F) <= Cardinality(lista)
        /\ Cardinality(F) \in Nat /\ Cardinality(lista) \in Nat
    BY <1>1, FrescasDe
  <1>3. Cardinality(F) <= MaxLlamadas
    BY <1>1, <1>2, ConstantesLimites
  <1>4. Puesta(F, n, ya)
    BY <1>1, <1>2, <1>3 DEF Puesta
  <1>5. ASSUME NEW a \in historia, a.llamada \in lista, a.llamada \notin F
        PROVE  ya - a.llamada.hora >= Ventana
    <2> DEFINE x == a.llamada.hora
    <2>1. x \in Nat
      BY DEF Registro, Anotada
    <2>2. ~(ahora - x < Ventana)
      BY <1>5 DEF Frescas
    <2> HIDE DEF x
    <2>3. ya - x >= Ventana
      BY <2>1, <2>2, ConstantesLimites
    <2>4. QED
      BY <2>3 DEF x
  <1>6. Memoria(historia, F, n, ya)
    <2> HIDE DEF F
    <2>1. QED
      BY <1>5 DEF Memoria
  <1>7. QED
    BY <1>2, <1>4, <1>6

\* The clock moves.
LEMMA ElRelojConserva ==
    ASSUME NEW lista \in SUBSET Anotada, NEW historia \in SUBSET Registro,
           NEW n \in Nat, NEW ya \in Nat,
           Puesta(lista, n, ya), Memoria(historia, lista, n, ya), Cupo(historia, ya)
    PROVE  /\ Puesta(lista, n, ya + 1)
           /\ Memoria(historia, lista, n, ya + 1)
           /\ Cupo(historia, ya + 1)
  <1>1. \A c \in lista : c.hora \in Nat
    BY DEF Anotada
  <1>2. \A a \in historia : a.decidida \in Nat /\ a.llamada.hora \in Nat
    BY DEF Registro, Anotada
  <1>3. Puesta(lista, n, ya + 1)
    BY <1>1 DEF Puesta
  <1>4. Memoria(historia, lista, n, ya + 1)
    <2>1. ASSUME NEW a \in historia
          PROVE  /\ a.decidida <= ya + 1
                 /\ a.llamada \in lista \/ (ya + 1) - a.llamada.hora >= Ventana
      <3>1. a.decidida <= ya /\ (a.llamada \in lista \/ ya - a.llamada.hora >= Ventana)
        BY DEF Memoria
      <3> DEFINE x == a.llamada.hora
                 d == a.decidida
      <3>2. x \in Nat /\ d \in Nat
        BY <1>2
      <3> HIDE DEF x, d
      <3>3. ya - x >= Ventana => (ya + 1) - x >= Ventana
        BY <3>2, ConstantesLimites
      <3>4. d <= ya => d <= ya + 1
        BY <3>2
      <3>5. QED
        BY <3>1, <3>3, <3>4 DEF x, d
    <2>2. QED
      BY <2>1 DEF Memoria
  <1>5. Cupo(historia, ya + 1)
    <2> SUFFICES ASSUME NEW t \in 0..(ya + 1)
                 PROVE  Cardinality(Tramo(historia, t)) <= MaxLlamadas
      BY DEF Cupo
    <2>1. CASE t \in 0..ya
      BY <2>1 DEF Cupo
    <2>2. CASE t = ya + 1
      <3>1. \A a \in historia : a.decidida <= ya
        BY DEF Memoria
      <3>2. Tramo(historia, t) = {}
        BY <1>2, <2>2, <3>1 DEF Tramo
      <3>3. QED
        BY <3>2, FS_EmptySet, ConstantesLimites
    <2>3. QED
      BY <2>1, <2>2
  <1>6. QED
    BY <1>3, <1>4, <1>5

\* A decision that admits, at the reading ahora and taken at ya.
Admisible(lista, historia, n, ya, ahora) ==
    /\ lista \in SUBSET Anotada /\ historia \in SUBSET Registro
    /\ n \in Nat /\ ya \in Nat /\ ahora \in Nat /\ ahora <= ya /\ ya <= ahora + Demora
    /\ Puesta(lista, n, ya) /\ Memoria(historia, lista, n, ya) /\ Cupo(historia, ya)
    /\ Cardinality(Frescas(lista, ahora)) < MaxLlamadas

Nueva(n, ahora) == [turno |-> n + 1, hora |-> ahora]

ListaTras(lista, n, ahora) == Frescas(lista, ahora) \cup {Nueva(n, ahora)}

HistoriaTras(historia, n, ya, ahora) ==
    Quedan(historia, ya) \cup {[llamada |-> Nueva(n, ahora), decidida |-> ya]}

\* An admission: those of its stretch are all in the list it counted.
LEMMA AdmitirConserva ==
    ASSUME NEW lista, NEW historia, NEW n, NEW ya, NEW ahora,
           Admisible(lista, historia, n, ya, ahora)
    PROVE  /\ ListaTras(lista, n, ahora) \in SUBSET Anotada
           /\ HistoriaTras(historia, n, ya, ahora) \in SUBSET Registro
           /\ Puesta(ListaTras(lista, n, ahora), n + 1, ya)
           /\ Memoria(HistoriaTras(historia, n, ya, ahora), ListaTras(lista, n, ahora), n + 1, ya)
           /\ Cupo(HistoriaTras(historia, n, ya, ahora), ya)
  <1> DEFINE nueva == Nueva(n, ahora)
             entrada == [llamada |-> nueva, decidida |-> ya]
             queda == Quedan(historia, ya)
  <1>0. /\ lista \in SUBSET Anotada /\ historia \in SUBSET Registro
        /\ n \in Nat /\ ya \in Nat /\ ahora \in Nat /\ ahora <= ya /\ ya <= ahora + Demora
        /\ Puesta(lista, n, ya) /\ Memoria(historia, lista, n, ya) /\ Cupo(historia, ya)
        /\ Cardinality(Frescas(lista, ahora)) < MaxLlamadas
    BY DEF Admisible
  <1>a. /\ nueva = [turno |-> n + 1, hora |-> ahora]
        /\ entrada = [llamada |-> nueva, decidida |-> ya]
        /\ queda = Quedan(historia, ya)
        /\ ListaTras(lista, n, ahora) = Frescas(lista, ahora) \cup {nueva}
        /\ HistoriaTras(historia, n, ya, ahora) = queda \cup {entrada}
    BY DEF Nueva, ListaTras, HistoriaTras
  <1> HIDE DEF nueva, entrada, queda
  <1> USE <1>0, <1>a
  <1> DEFINE F == Frescas(lista, ahora)
  <1>1. /\ F \in SUBSET Anotada /\ Puesta(F, n, ya) /\ Memoria(historia, F, n, ya)
    BY PodarConserva
  <1>2. nueva \in Anotada /\ entrada \in Registro
    BY DEF Anotada, Registro
  <1>3. nueva \notin F
    <2>1. \A c \in F : c.turno <= n /\ c.turno \in Nat
      BY <1>1 DEF Puesta, Anotada
    <2>2. nueva.turno = n + 1
      OBVIOUS
    <2>3. QED
      BY <2>1, <2>2
  <1>4. /\ IsFiniteSet(F) /\ IsFiniteSet(F \cup {nueva})
        /\ Cardinality(F) \in Nat /\ Cardinality(F \cup {nueva}) = Cardinality(F) + 1
    <2>1. IsFiniteSet(F)
      BY <1>1 DEF Puesta
    <2> HIDE DEF F
    <2>2. /\ IsFiniteSet(F \cup {nueva})
          /\ Cardinality(F \cup {nueva}) = IF nueva \in F THEN Cardinality(F) ELSE Cardinality(F) + 1
      BY <2>1, FS_AddElement
    <2>3. Cardinality(F) \in Nat
      BY <2>1, FS_CardinalityType
    <2>4. QED
      BY <1>3, <2>1, <2>2, <2>3
  <1>5. Cardinality(F \cup {nueva}) <= MaxLlamadas
    BY <1>4, ConstantesLimites
  <1>6. Puesta(F \cup {nueva}, n + 1, ya)
    <2>1. \A c \in F : c.hora <= ya /\ c.turno <= n + 1
      BY <1>1 DEF Puesta, Anotada
    <2>2. nueva.hora <= ya /\ nueva.turno <= n + 1
      OBVIOUS
    <2> HIDE DEF F
    <2>3. QED
      BY <1>4, <1>5, <2>1, <2>2 DEF Puesta
  <1>7. queda \in SUBSET historia /\ queda \cup {entrada} \in SUBSET Registro
    BY <1>2 DEF Quedan
  <1>8. IsFiniteSet(queda) /\ IsFiniteSet(queda \cup {entrada})
    BY <1>7, FS_Subset, FS_AddElement DEF Memoria
  <1>9. Memoria(queda \cup {entrada}, F \cup {nueva}, n + 1, ya)
    <2>1. ASSUME NEW a \in queda
          PROVE  /\ a.decidida <= ya /\ a.llamada.turno <= n /\ a.llamada.turno \in Nat
                 /\ a.llamada.hora <= a.decidida /\ a.decidida <= a.llamada.hora + Demora
                 /\ a.llamada \in F \/ ya - a.llamada.hora >= Ventana
      BY <1>1, <1>7 DEF Memoria, Registro, Anotada
    <2>2. /\ entrada.decidida = ya /\ entrada.llamada = nueva
          /\ nueva.turno = n + 1 /\ nueva.hora = ahora
      OBVIOUS
    <2>3. \A a \in queda : a.llamada # nueva
      BY <2>1, <2>2
    <2>4. \A a, b \in queda : a.llamada = b.llamada => a = b
      BY <1>7 DEF Memoria
    <2>5. \A a, b \in queda \cup {entrada} : a.llamada = b.llamada => a = b
      BY <2>2, <2>3, <2>4
    <2>6. \A a \in queda \cup {entrada} : a.decidida <= ya /\ a.llamada.turno <= n + 1
      BY <2>1, <2>2
    <2>7. \A a \in queda \cup {entrada} :
             a.llamada.hora <= a.decidida /\ a.decidida <= a.llamada.hora + Demora
      BY <2>1, <2>2
    <2>8. \A a \in queda \cup {entrada} :
             a.llamada \in F \cup {nueva} \/ ya - a.llamada.hora >= Ventana
      BY <2>1, <2>2
    <2> HIDE DEF F
    <2>9. QED
      BY <1>8, <2>5, <2>6, <2>7, <2>8 DEF Memoria
  <1>10. Cupo(queda \cup {entrada}, ya)
    <2> SUFFICES ASSUME NEW t \in 0..ya
                 PROVE  Cardinality(Tramo(queda \cup {entrada}, t)) <= MaxLlamadas
      BY DEF Cupo
    <2> DEFINE T == Tramo(queda, t)
    <2>1. T \in SUBSET queda /\ IsFiniteSet(T) /\ Cardinality(T) \in Nat
      BY <1>8, FS_Subset, FS_CardinalityType DEF Tramo
    <2>2. CASE ya \notin t..(t + Ventana - Demora - 1)
      <3>1. Tramo(queda \cup {entrada}, t) = T
        BY <2>2 DEF Tramo
      <3>2. T \subseteq Tramo(historia, t) /\ IsFiniteSet(Tramo(historia, t))
        <4>1. T \subseteq Tramo(historia, t) /\ Tramo(historia, t) \subseteq historia
          BY <1>7 DEF Tramo
        <4>2. QED
          BY <4>1, FS_Subset DEF Memoria
      <3>3. /\ Cardinality(T) <= Cardinality(Tramo(historia, t))
            /\ Cardinality(Tramo(historia, t)) \in Nat
        BY <3>2, FS_Subset, FS_CardinalityType
      <3>4. Cardinality(Tramo(historia, t)) <= MaxLlamadas
        BY DEF Cupo
      <3>5. QED
        BY <2>1, <3>1, <3>3, <3>4, ConstantesLimites
    <2>3. CASE ya \in t..(t + Ventana - Demora - 1)
      <3>1. ASSUME NEW a \in T PROVE a.llamada \in F
        <4> DEFINE x == a.llamada.hora
                   d == a.decidida
        <4>1. /\ x \in Nat /\ d \in Nat /\ x <= d /\ d <= x + Demora
              /\ a.llamada \in F \/ ya - x >= Ventana
          BY <2>1, <1>1, <1>7 DEF Memoria, Registro, Anotada
        <4>2. d >= t
          BY <4>1 DEF Tramo
        <4> HIDE DEF x, d
        <4>3. ya <= ((t + Ventana) - Demora) - 1
          BY <2>3, ConstantesLimites
        <4>4. ~(ya - x >= Ventana)
          BY <4>1, <4>2, <4>3, ConstantesLimites
        <4>5. QED
          BY <4>1, <4>4
      <3>2. Cardinality(T) <= Cardinality(F)
        <4> DEFINE g == [a \in T |-> a.llamada]
        <4>1. g \in Injection(T, F)
          <5>1. g \in [T -> F]
            BY <3>1
          <5>2. \A a, b \in T : g[a] = g[b] => a = b
            BY <2>1, <1>7 DEF Memoria
          <5>3. QED
            BY <5>1, <5>2 DEF Injection, IsInjective
        <4> HIDE DEF F, g, T
        <4>2. QED
          BY <1>4, <4>1, FS_Injection
      <3>3. Tramo(queda \cup {entrada}, t) \subseteq T \cup {entrada}
        BY DEF Tramo
      <3>4. IsFiniteSet(T \cup {entrada}) /\ Cardinality(T \cup {entrada}) <= Cardinality(T) + 1
        <4>1. IsFiniteSet(T) /\ Cardinality(T) \in Nat
          BY <2>1
        <4> HIDE DEF T
        <4>2. IsFiniteSet(T \cup {entrada})
          BY <4>1, FS_AddElement
        <4>3. \/ Cardinality(T \cup {entrada}) = Cardinality(T)
              \/ Cardinality(T \cup {entrada}) = Cardinality(T) + 1
          BY <4>1, FS_AddElement
        <4>4. QED
          BY <4>1, <4>2, <4>3
      <3>5. /\ Cardinality(Tramo(queda \cup {entrada}, t)) <= Cardinality(T \cup {entrada})
            /\ Cardinality(Tramo(queda \cup {entrada}, t)) \in Nat
            /\ Cardinality(T \cup {entrada}) \in Nat
        BY <3>3, <3>4, FS_Subset, FS_CardinalityType
      <3>6. Cardinality(F) < MaxLlamadas
        OBVIOUS
      <3> HIDE DEF T, F
      <3>7. QED
        BY <1>4, <2>1, <3>2, <3>4, <3>5, <3>6, ConstantesLimites
    <2>4. QED
      BY <2>2, <2>3
  <1>11. QED
    BY <1>1, <1>2, <1>6, <1>7, <1>9, <1>10

\* A block that lets a call in the window of its list through was shorter than it.
LEMMA ElCastigoFueCorto ==
    ASSUME NEW lista \in SUBSET Anotada, NEW n \in Nat, NEW hasta \in Int, NEW ahora \in Nat,
           Castigada(lista, n, hasta), hasta <= ahora, n >= 1,
           NEW c \in lista, ahora - c.hora < Ventana
    PROVE  Penalizacion(n) < Ventana + Demora
  <1> DEFINE x == c.hora
             p == Penalizacion(n)
  <1>1. x \in Nat /\ p \in Int
    BY PenalizacionTipo DEF Anotada
  <1>2. p < Ventana + Demora \/ x <= (hasta - p) + Demora
    BY DEF Castigada
  <1>3. ahora - x < Ventana
    OBVIOUS
  <1> HIDE DEF x, p
  <1>4. p < Ventana + Demora
    BY <1>1, <1>2, <1>3, ConstantesLimites
  <1>5. QED
    BY <1>4 DEF p

LEMMA InicioLimites == InitLimites => InvLimites
  <1> SUFFICES ASSUME InitLimites PROVE InvLimites
    OBVIOUS
  <1>1. TypeLimites
    BY DEF InitLimites, TypeLimites, HiloLibre, Hilo, Anotada
  <1>2. ASSUME NEW k \in ClavesLimitadas PROVE DeClave(k)
    <2>1. /\ llamadas[k] = {} /\ admitidas[k] = {} /\ infracciones[k] = 0 /\ turnos[k] = 0
          /\ instante = 0
      BY DEF InitLimites
    <2>2. IsFiniteSet({}) /\ Cardinality({}) = 0
      BY FS_EmptySet
    <2>3. Puesta({}, 0, 0)
      BY <2>2, ConstantesLimites DEF Puesta
    <2>4. Memoria({}, {}, 0, 0)
      BY <2>2 DEF Memoria
    <2>5. Cupo({}, 0)
      <3>1. \A t : Tramo({}, t) = {}
        BY DEF Tramo
      <3>2. QED
        BY <3>1, <2>2, ConstantesLimites DEF Cupo
    <2>6. Castigada({}, 0, bloqueado[k])
      BY DEF Castigada
    <2>7. QED
      BY <2>1, <2>3, <2>4, <2>5, <2>6 DEF DeClave
  <1>3. \A h \in Hilos : EnHora(h)
    BY DEF InitLimites, EnHora, HiloLibre
  <1>4. QED
    BY <1>1, <1>2, <1>3 DEF InvLimites

LEMMA TiposDe ==
    ASSUME TypeLimites
    PROVE  /\ \A k \in ClavesLimitadas :
                 /\ llamadas[k] \in SUBSET Anotada /\ turnos[k] \in Nat
                 /\ admitidas[k] \in SUBSET Registro
                 /\ bloqueado[k] \in Int /\ infracciones[k] \in Nat
           /\ \A h \in Hilos : hilo[h] \in Hilo /\ hilo[h].ahora \in Nat
           /\ peticiones \in Nat /\ instante \in Nat
  BY DEF TypeLimites, Registro, Hilo

LEMMA HilosTipados ==
    /\ HiloLibre \in Hilo
    /\ \A c \in Contactos : [HiloLibre EXCEPT !.paso = "sigue", !.luego = c] \in Hilo
    /\ \A k \in ClavesLimitadas, c \in Contactos \cup {SinClave}, i \in Nat :
          [paso |-> "decidir", clave |-> k, luego |-> c, ahora |-> i] \in Hilo
  BY DEF HiloLibre, Hilo

\* A step that keeps the tables and moves a thread.
LEMMA SoloUnHilo ==
    ASSUME InvLimites, NEW h \in Hilos, NEW f \in Hilo, hilo' = [hilo EXCEPT ![h] = f],
           UNCHANGED <<llamadas, turnos, bloqueado, infracciones, admitidas, instante>>,
           peticiones' \in Nat,
           f.paso = "decidir" =>
               f.clave \in ClavesLimitadas /\ f.ahora <= instante /\ instante <= f.ahora + Demora,
           f.paso = "sigue" => f.luego \in Contactos
    PROVE  InvLimites'
  <1>1. hilo \in [Hilos -> Hilo]
    BY DEF InvLimites, TypeLimites
  <1>2. hilo' \in [Hilos -> Hilo]
    BY <1>1
  <1>3. TypeLimites'
    <2>1. instante' \in Nat
      BY DEF InvLimites, TypeLimites
    <2>2. QED
      BY <1>2, <2>1 DEF InvLimites, TypeLimites
  <1>4. ASSUME NEW k \in ClavesLimitadas PROVE DeClave(k)'
    <2>1. DeClave(k)
      BY DEF InvLimites
    <2>2. QED
      BY <2>1 DEF DeClave, Puesta, Memoria, Cupo, Tramo, Castigada, Penalizacion
  <1>5. ASSUME NEW g \in Hilos PROVE EnHora(g)'
    <2>1. CASE g = h
      <3>1. hilo'[g] = f /\ instante' = instante
        BY <2>1, <1>1
      <3>2. QED
        BY <3>1 DEF EnHora
    <2>2. CASE g # h
      <3>1. hilo'[g] = hilo[g] /\ instante' = instante
        BY <2>2, <1>1
      <3>2. EnHora(g)
        BY DEF InvLimites
      <3>3. QED
        BY <3>1, <3>2 DEF EnHora
    <2>3. QED
      BY <2>1, <2>2
  <1>6. QED
    BY <1>3, <1>4, <1>5 DEF InvLimites

LEMMA PasoLlega ==
    ASSUME InvLimites, NEW h \in Hilos, Llega(h) PROVE InvLimites'
  <1>1. PICK k \in ClavesLimitadas, c \in Contactos \cup {SinClave} :
           hilo' = [hilo EXCEPT ![h] = Empieza(k, c)]
    BY DEF Llega, ClavesLimitadas, Adaptativas
  <1>2. peticiones \in Nat /\ instante \in Nat
    BY TiposDe DEF InvLimites
  <1>3. peticiones' \in Nat
    BY <1>2 DEF Llega
  <1>4. Empieza(k, c) \in Hilo
    BY <1>2, HilosTipados DEF Empieza
  <1>5. /\ Empieza(k, c).paso = "decidir" /\ Empieza(k, c).clave = k
        /\ Empieza(k, c).ahora = instante
    BY DEF Empieza
  <1>6. instante <= instante /\ instante <= instante + Demora
    BY <1>2, ConstantesLimites
  <1>7. UNCHANGED <<llamadas, turnos, bloqueado, infracciones, admitidas, instante>>
    BY DEF Llega
  <1> DEFINE f == Empieza(k, c)
  <1> HIDE DEF f
  <1>8. QED
    BY <1>1, <1>3, <1>4, <1>5, <1>6, <1>7, SoloUnHilo DEF f

LEMMA PasoSigue ==
    ASSUME InvLimites, NEW h \in Hilos, Sigue(h) PROVE InvLimites'
  <1> DEFINE k == hilo[h].luego
             f == Empieza(k, SinClave)
  <1>1. hilo' = [hilo EXCEPT ![h] = f]
    BY DEF Sigue
  <1>2. k \in Contactos /\ k \in ClavesLimitadas
    BY DEF Sigue, InvLimites, EnHora, ClavesLimitadas, Adaptativas
  <1>3. peticiones \in Nat /\ instante \in Nat
    BY TiposDe DEF InvLimites
  <1>4. f \in Hilo
    BY <1>2, <1>3, HilosTipados DEF Empieza
  <1>5. f.paso = "decidir" /\ f.clave = k /\ f.ahora = instante
    BY DEF Empieza
  <1>6. instante <= instante /\ instante <= instante + Demora
    BY <1>3, ConstantesLimites
  <1>7. /\ UNCHANGED <<llamadas, turnos, bloqueado, infracciones, admitidas, instante>>
        /\ peticiones' \in Nat
    BY <1>3 DEF Sigue
  <1> HIDE DEF f
  <1>8. QED
    BY <1>1, <1>2, <1>4, <1>5, <1>6, <1>7, SoloUnHilo

LEMMA PasoBloqueado ==
    ASSUME InvLimites, NEW h \in Hilos, Bloqueado(h) PROVE InvLimites'
  <1>1. /\ hilo' = [hilo EXCEPT ![h] = HiloLibre]
        /\ UNCHANGED <<llamadas, turnos, bloqueado, infracciones, admitidas, instante>>
        /\ peticiones' = peticiones
    BY DEF Bloqueado
  <1>2. peticiones' \in Nat
    BY <1>1, TiposDe DEF InvLimites
  <1>3. HiloLibre \in Hilo /\ HiloLibre.paso = "libre"
    BY HilosTipados DEF HiloLibre
  <1>4. QED
    BY <1>1, <1>2, <1>3, SoloUnHilo

LEMMA PasoPasa ==
    ASSUME InvLimites, Pasa PROVE InvLimites'
  <1>1. /\ \A h \in Hilos : hilo[h].paso = "decidir" => instante < hilo[h].ahora + Demora
        /\ instante' = instante + 1
        /\ UNCHANGED <<llamadas, turnos, bloqueado, infracciones, hilo, admitidas, peticiones>>
    BY DEF Pasa
  <1>2. TypeLimites /\ instante \in Nat
    BY TiposDe DEF InvLimites
  <1>3. TypeLimites'
    BY <1>1, <1>2 DEF TypeLimites
  <1>4. ASSUME NEW k \in ClavesLimitadas PROVE DeClave(k)'
    <2>1. DeClave(k)
      BY DEF InvLimites
    <2>2. /\ llamadas[k] \in SUBSET Anotada /\ turnos[k] \in Nat
          /\ admitidas[k] \in SUBSET Registro
      BY <1>2, TiposDe
    <2> DEFINE l == llamadas[k]
               a == admitidas[k]
               n == turnos[k]
    <2>3. Puesta(l, n, instante) /\ Memoria(a, l, n, instante) /\ Cupo(a, instante)
      BY <2>1 DEF DeClave
    <2>4. /\ Castigada(llamadas[k], infracciones[k], bloqueado[k])
      BY <2>1 DEF DeClave
    <2>5. /\ Puesta(l, n, instante + 1) /\ Memoria(a, l, n, instante + 1)
          /\ Cupo(a, instante + 1)
      <3> HIDE DEF l, a, n
      <3>1. l \in SUBSET Anotada /\ a \in SUBSET Registro /\ n \in Nat
        BY <2>2 DEF l, a, n
      <3>2. QED
        BY <3>1, <2>3, <1>2, ElRelojConserva
    <2>6. QED
      BY <1>1, <2>4, <2>5 DEF DeClave, Puesta, Memoria, Cupo, Tramo, Castigada, Penalizacion
  <1>5. ASSUME NEW h \in Hilos PROVE EnHora(h)'
    <2>1. EnHora(h) /\ hilo[h].ahora \in Nat
      BY <1>2, TiposDe DEF InvLimites
    <2> DEFINE x == hilo[h].ahora
    <2>2. hilo[h].paso = "decidir" => x <= instante /\ instante < x + Demora
      BY <1>1, <2>1 DEF EnHora
    <2>3. x \in Nat
      BY <2>1
    <2> HIDE DEF x
    <2>4. hilo[h].paso = "decidir" => x <= instante + 1 /\ instante + 1 <= x + Demora
      BY <2>2, <2>3, <1>2, ConstantesLimites
    <2>5. QED
      BY <1>1, <2>1, <2>4 DEF EnHora, x
  <1>6. QED
    BY <1>3, <1>4, <1>5 DEF InvLimites

\* The other keys and threads after a decision of one thread on one key.
LEMMA SoloUnaClave ==
    ASSUME InvLimites, NEW k \in ClavesLimitadas, NEW h \in Hilos, NEW f \in Hilo,
           f.paso \in {"libre", "sigue"}, f.paso = "sigue" => f.luego \in Contactos,
           hilo' = [hilo EXCEPT ![h] = f],
           \A j \in ClavesLimitadas : j # k =>
               /\ llamadas'[j] = llamadas[j] /\ turnos'[j] = turnos[j]
               /\ admitidas'[j] = admitidas[j]
               /\ bloqueado'[j] = bloqueado[j] /\ infracciones'[j] = infracciones[j],
           TypeLimites', DeClave(k)', instante' = instante
    PROVE  InvLimites'
  <1>1. hilo \in [Hilos -> Hilo]
    BY DEF InvLimites, TypeLimites
  <1>2. ASSUME NEW j \in ClavesLimitadas PROVE DeClave(j)'
    <2>1. CASE j = k
      BY <2>1
    <2>2. CASE j # k
      <3>1. DeClave(j)
        BY DEF InvLimites
      <3>2. QED
        BY <2>2, <3>1 DEF DeClave, Puesta, Memoria, Cupo, Tramo, Castigada, Penalizacion
    <2>3. QED
      BY <2>1, <2>2
  <1>3. ASSUME NEW g \in Hilos PROVE EnHora(g)'
    <2>1. CASE g = h
      <3>1. hilo'[g] = f
        BY <2>1, <1>1
      <3>2. QED
        BY <3>1 DEF EnHora
    <2>2. CASE g # h
      <3>1. hilo'[g] = hilo[g]
        BY <2>2, <1>1
      <3>2. EnHora(g)
        BY DEF InvLimites
      <3>3. QED
        BY <3>1, <3>2 DEF EnHora
    <2>3. QED
      BY <2>1, <2>2
  <1>4. QED
    BY <1>2, <1>3 DEF InvLimites

LEMMA PasoRechazar ==
    ASSUME InvLimites, NEW h \in Hilos, Rechazar(h) PROVE InvLimites'
  <1> DEFINE k == hilo[h].clave
             ahora == hilo[h].ahora
             l == llamadas[k]
             n == infracciones[k]
             b == bloqueado[k]
             F == Frescas(l, ahora)
             m == IF k \in Adaptativas THEN n + 1 ELSE n
             c == IF k \in Adaptativas THEN ahora + Penalizacion(n + 1) ELSE b
  <1>1. /\ hilo[h].paso = "decidir" /\ b <= ahora
        /\ Cardinality(F) >= MaxLlamadas
        /\ llamadas' = [llamadas EXCEPT ![k] = F]
        /\ infracciones' = [infracciones EXCEPT ![k] = m]
        /\ bloqueado' = [bloqueado EXCEPT ![k] = c]
        /\ hilo' = [hilo EXCEPT ![h] = HiloLibre]
        /\ UNCHANGED <<turnos, admitidas, peticiones, instante>>
    <2>1. F = Recientes(k, ahora)
      BY DEF Frescas, Recientes
    <2>2. infracciones = [infracciones EXCEPT ![k] = n] /\ bloqueado = [bloqueado EXCEPT ![k] = b]
      BY DEF InvLimites, TypeLimites
    <2> HIDE DEF F
    <2>3. QED
      BY <2>1, <2>2 DEF Rechazar
  <1>2. TypeLimites /\ k \in ClavesLimitadas /\ ahora <= instante /\ instante <= ahora + Demora
    BY <1>1 DEF InvLimites, EnHora
  <1>3. /\ l \in SUBSET Anotada /\ turnos[k] \in Nat /\ admitidas[k] \in SUBSET Registro
        /\ b \in Int /\ n \in Nat /\ ahora \in Nat /\ instante \in Nat
    BY <1>2, TiposDe
  <1>4. /\ Puesta(l, turnos[k], instante) /\ Memoria(admitidas[k], l, turnos[k], instante)
        /\ Cupo(admitidas[k], instante) /\ Castigada(l, n, b)
    BY <1>2 DEF InvLimites, DeClave
  <1>5. /\ F \in SUBSET Anotada /\ Puesta(F, turnos[k], instante)
        /\ Memoria(admitidas[k], F, turnos[k], instante)
    <2> DEFINE t == turnos[k]
               a == admitidas[k]
    <2>1. l \in SUBSET Anotada /\ a \in SUBSET Registro /\ t \in Nat /\ ahora \in Nat
          /\ instante \in Nat /\ ahora <= instante
          /\ Puesta(l, t, instante) /\ Memoria(a, l, t, instante)
      BY <1>2, <1>3, <1>4
    <2> HIDE DEF t, a, l, ahora
    <2>2. /\ Frescas(l, ahora) \in SUBSET Anotada /\ Puesta(Frescas(l, ahora), t, instante)
          /\ Memoria(a, Frescas(l, ahora), t, instante)
      BY <2>1, PodarConserva
    <2>3. QED
      BY <2>2 DEF t, a
  <1>6. Castigada(F, m, c) /\ m \in Nat /\ c \in Int
    <2>1. \A i \in F : i \in l /\ ahora - i.hora < Ventana
      BY DEF Frescas
    <2>2. CASE k \notin Adaptativas
      <3>1. m = n /\ c = b
        BY <2>2
      <3>2. QED
        BY <1>3, <1>4, <2>1, <3>1 DEF Castigada
    <2>3. CASE k \in Adaptativas
      <3>1. m = n + 1 /\ c = ahora + Penalizacion(n + 1) /\ Penalizacion(n + 1) \in Int
        BY <2>3, <1>3, PenalizacionTipo
      <3>2. PICK i \in F : TRUE
        <4>1. IsFiniteSet(l)
          BY <1>4 DEF Puesta
        <4>2. Cardinality(F) # 0
          BY <1>1, <4>1, <1>3, FrescasDe, ConstantesLimites
        <4>3. F # {}
          BY <4>2, FS_EmptySet
        <4>4. QED
          BY <4>3
      <3>3. n >= 1 => Penalizacion(n) < Ventana + Demora
        <4>1. i \in l /\ ahora - i.hora < Ventana
          BY <2>1, <3>2
        <4> HIDE DEF l, n, b, ahora
        <4>2. QED
          BY <4>1, <1>1, <1>3, <1>4, ElCastigoFueCorto
      <3>4. ASSUME NEW j \in F PROVE j.hora <= (c - Penalizacion(m)) + Demora
        <4> DEFINE p == Penalizacion(m)
                   x == j.hora
        <4>1. x \in Nat /\ x <= instante
          BY <1>5 DEF Puesta, Anotada
        <4>2. p \in Int /\ c = ahora + p
          BY <3>1
        <4> HIDE DEF p, x, c, ahora
        <4>3. x <= (c - p) + Demora
          BY <4>1, <4>2, <1>2, <1>3, ConstantesLimites
        <4>4. QED
          BY <4>3 DEF p, x
      <3>5. m - 1 = n /\ m \in Nat /\ c \in Int /\ (m >= 2 => n >= 1)
        <4> HIDE DEF n, ahora
        <4>1. QED
          BY <3>1, <1>3
      <3> HIDE DEF F, m, c
      <3>6. QED
        BY <3>3, <3>4, <3>5 DEF Castigada
    <2>4. QED
      BY <2>2, <2>3
  <1> HIDE DEF F, m, c
  <1>7. TypeLimites'
    <2>1. /\ llamadas' \in [ClavesLimitadas -> SUBSET Anotada]
          /\ infracciones' \in [ClavesLimitadas -> Nat]
          /\ bloqueado' \in [ClavesLimitadas -> Int]
          /\ hilo' \in [Hilos -> Hilo]
      BY <1>1, <1>2, <1>5, <1>6, HilosTipados DEF TypeLimites
    <2>2. QED
      BY <2>1, <1>1, <1>2 DEF TypeLimites
  <1>8. /\ llamadas'[k] = F /\ infracciones'[k] = m /\ bloqueado'[k] = c
        /\ turnos'[k] = turnos[k] /\ admitidas'[k] = admitidas[k] /\ instante' = instante
        /\ \A j \in ClavesLimitadas : j # k =>
               /\ llamadas'[j] = llamadas[j] /\ turnos'[j] = turnos[j]
               /\ admitidas'[j] = admitidas[j]
               /\ bloqueado'[j] = bloqueado[j] /\ infracciones'[j] = infracciones[j]
    BY <1>1, <1>2 DEF TypeLimites
  <1>9. PICK kk \in ClavesLimitadas : kk = k
    BY <1>2
  <1>10. DeClave(kk)'
    <2>1. /\ Puesta(llamadas'[kk], turnos'[kk], instante')
          /\ Memoria(admitidas'[kk], llamadas'[kk], turnos'[kk], instante')
          /\ Cupo(admitidas'[kk], instante')
          /\ Castigada(llamadas'[kk], infracciones'[kk], bloqueado'[kk])
      BY <1>4, <1>5, <1>6, <1>8, <1>9
    <2>2. QED
      BY <2>1 DEF DeClave, Puesta, Memoria, Cupo, Tramo, Castigada, Penalizacion
  <1>11. HiloLibre \in Hilo /\ HiloLibre.paso = "libre"
    BY HilosTipados DEF HiloLibre
  <1>12. hilo' = [hilo EXCEPT ![h] = HiloLibre]
    BY <1>1
  <1> HIDE DEF k
  <1>13. QED
    BY <1>7, <1>8, <1>9, <1>10, <1>11, <1>12, SoloUnaClave

LEMMA PasoAdmitir ==
    ASSUME InvLimites, NEW h \in Hilos, Admitir(h) PROVE InvLimites'
  <1> DEFINE k == hilo[h].clave
             ahora == hilo[h].ahora
             l == llamadas[k]
             a == admitidas[k]
             t == turnos[k]
             n == infracciones[k]
             b == bloqueado[k]
             F == Frescas(l, ahora)
             nueva == [turno |-> t + 1, hora |-> ahora]
             entrada == [llamada |-> nueva, decidida |-> instante]
             queda == Quedan(a, instante)
             m == IF F = {} THEN 0 ELSE n
             c == IF F = {} THEN 0 ELSE b
             f == IF hilo[h].luego = SinClave THEN HiloLibre
                  ELSE [HiloLibre EXCEPT !.paso = "sigue", !.luego = hilo[h].luego]
  <1>1. /\ hilo[h].paso = "decidir" /\ b <= ahora
        /\ Cardinality(F) < MaxLlamadas
        /\ turnos' = [turnos EXCEPT ![k] = t + 1]
        /\ llamadas' = [llamadas EXCEPT ![k] = F \cup {nueva}]
        /\ admitidas' = [admitidas EXCEPT ![k] = queda \cup {entrada}]
        /\ infracciones' = [infracciones EXCEPT ![k] = m]
        /\ bloqueado' = [bloqueado EXCEPT ![k] = c]
        /\ hilo' = [hilo EXCEPT ![h] = f]
        /\ UNCHANGED <<peticiones, instante>>
    <2>1. F = Recientes(k, ahora)
      BY DEF Frescas, Recientes
    <2>2. infracciones = [infracciones EXCEPT ![k] = n] /\ bloqueado = [bloqueado EXCEPT ![k] = b]
      BY DEF InvLimites, TypeLimites
    <2>3. /\ hilo[h].paso = "decidir" /\ b <= ahora /\ Cardinality(F) < MaxLlamadas
      <3> HIDE DEF F
      <3>1. QED
        BY <2>1 DEF Admitir, Admite, Olvida
    <2>4. /\ llamadas' = [llamadas EXCEPT ![k] = F \cup {nueva}]
          /\ turnos' = [turnos EXCEPT ![k] = t + 1]
      <3> HIDE DEF F
      <3>1. QED
        BY <2>1 DEF Admitir, Olvida
    <2>5. admitidas' = [admitidas EXCEPT ![k] = queda \cup {entrada}]
      BY DEF Admitir, Quedan, Olvida
    <2>6. /\ infracciones' = [infracciones EXCEPT ![k] = m]
          /\ bloqueado' = [bloqueado EXCEPT ![k] = c]
      <3> HIDE DEF F
      <3>1. IF F = {} THEN /\ infracciones' = [infracciones EXCEPT ![k] = 0]
                           /\ bloqueado' = [bloqueado EXCEPT ![k] = 0]
                      ELSE infracciones' = infracciones /\ bloqueado' = bloqueado
        BY <2>1 DEF Admitir, Olvida
      <3>2. QED
        BY <2>2, <3>1
    <2>7. hilo' = [hilo EXCEPT ![h] = f] /\ UNCHANGED <<peticiones, instante>>
      BY DEF Admitir, Olvida
    <2>8. QED
      BY <2>3, <2>4, <2>5, <2>6, <2>7
  <1>2. TypeLimites /\ k \in ClavesLimitadas /\ ahora <= instante /\ instante <= ahora + Demora
    BY <1>1 DEF InvLimites, EnHora
  <1>3. /\ l \in SUBSET Anotada /\ t \in Nat /\ a \in SUBSET Registro
        /\ b \in Int /\ n \in Nat /\ ahora \in Nat /\ instante \in Nat
    BY <1>2, TiposDe
  <1>4. /\ Puesta(l, t, instante) /\ Memoria(a, l, t, instante)
        /\ Cupo(a, instante) /\ Castigada(l, n, b)
    BY <1>2 DEF InvLimites, DeClave
  <1>5. /\ F \cup {nueva} \in SUBSET Anotada
        /\ queda \cup {entrada} \in SUBSET Registro
        /\ Puesta(F \cup {nueva}, t + 1, instante)
        /\ Memoria(queda \cup {entrada}, F \cup {nueva}, t + 1, instante)
        /\ Cupo(queda \cup {entrada}, instante)
    <2>1. Admisible(l, a, t, instante, ahora)
      BY <1>1, <1>2, <1>3, <1>4 DEF Admisible
    <2>2. /\ F \cup {nueva} = ListaTras(l, t, ahora)
          /\ queda \cup {entrada} = HistoriaTras(a, t, instante, ahora)
      BY DEF ListaTras, HistoriaTras, Nueva
    <2> HIDE DEF t, a, l, ahora, F, nueva, entrada, queda
    <2>3. QED
      BY <2>1, <2>2, AdmitirConserva
  <1>6. Castigada(F \cup {nueva}, m, c) /\ m \in Nat /\ c \in Int
    <2>1. CASE F = {}
      <3>1. m = 0 /\ c = 0
        BY <2>1
      <3> HIDE DEF F, m, c
      <3>2. QED
        BY <3>1 DEF Castigada
    <2>2. CASE F # {}
      <3>1. m = n /\ c = b
        BY <2>2
      <3>2. PICK i \in l : ahora - i.hora < Ventana
        BY <2>2 DEF Frescas
      <3>3. n >= 1 => Penalizacion(n) < Ventana + Demora
        <4> HIDE DEF l, n, b, ahora
        <4>1. QED
          BY <3>2, <1>1, <1>3, <1>4, ElCastigoFueCorto
      <3>4. n >= 2 => Penalizacion(n - 1) < Ventana + Demora
        BY <1>4 DEF Castigada
      <3> HIDE DEF F, m, c, n
      <3>5. QED
        BY <3>1, <3>3, <3>4, <1>3 DEF Castigada
    <2>3. QED
      BY <2>1, <2>2
  <1>7. f \in Hilo /\ f.paso \in {"libre", "sigue"} /\ (f.paso = "sigue" => f.luego \in Contactos)
    <2>1. CASE hilo[h].luego = SinClave
      BY <2>1, HilosTipados DEF HiloLibre
    <2>2. CASE hilo[h].luego # SinClave
      <3>1. hilo[h].luego \in Contactos
        BY <1>2, <2>2, TiposDe DEF Hilo
      <3>2. QED
        BY <2>2, <3>1, HilosTipados DEF HiloLibre
    <2>3. QED
      BY <2>1, <2>2
  <1> DEFINE l2 == F \cup {nueva}
             a2 == queda \cup {entrada}
             t2 == t + 1
  <1>8. /\ turnos' = [turnos EXCEPT ![k] = t2] /\ llamadas' = [llamadas EXCEPT ![k] = l2]
        /\ admitidas' = [admitidas EXCEPT ![k] = a2]
        /\ infracciones' = [infracciones EXCEPT ![k] = m]
        /\ bloqueado' = [bloqueado EXCEPT ![k] = c]
        /\ hilo' = [hilo EXCEPT ![h] = f]
        /\ peticiones' = peticiones /\ instante' = instante
    BY <1>1
  <1>9. /\ l2 \in SUBSET Anotada /\ a2 \in SUBSET Registro /\ t2 \in Nat
        /\ Puesta(l2, t2, instante) /\ Memoria(a2, l2, t2, instante)
        /\ Cupo(a2, instante) /\ Castigada(l2, m, c)
    BY <1>3, <1>5, <1>6
  <1>10. k \in ClavesLimitadas
    BY <1>2
  <1> HIDE DEF l2, a2, t2, m, c, f, k
  <1>11. TypeLimites'
    <2>1. /\ llamadas' \in [ClavesLimitadas -> SUBSET Anotada]
          /\ admitidas' \in [ClavesLimitadas -> SUBSET Registro]
          /\ turnos' \in [ClavesLimitadas -> Nat]
          /\ infracciones' \in [ClavesLimitadas -> Nat]
          /\ bloqueado' \in [ClavesLimitadas -> Int]
          /\ hilo' \in [Hilos -> Hilo]
      BY <1>2, <1>6, <1>7, <1>8, <1>9 DEF TypeLimites, Registro
    <2>2. QED
      BY <2>1, <1>2, <1>8 DEF TypeLimites, Registro
  <1>12. /\ llamadas'[k] = l2 /\ infracciones'[k] = m /\ bloqueado'[k] = c
         /\ turnos'[k] = t2 /\ admitidas'[k] = a2
         /\ \A j \in ClavesLimitadas : j # k =>
                /\ llamadas'[j] = llamadas[j] /\ turnos'[j] = turnos[j]
                /\ admitidas'[j] = admitidas[j]
                /\ bloqueado'[j] = bloqueado[j] /\ infracciones'[j] = infracciones[j]
    BY <1>2, <1>8, <1>10 DEF TypeLimites
  <1>13. PICK kk \in ClavesLimitadas : kk = k
    BY <1>10
  <1>14. DeClave(kk)'
    <2>1. /\ Puesta(llamadas'[kk], turnos'[kk], instante')
          /\ Memoria(admitidas'[kk], llamadas'[kk], turnos'[kk], instante')
          /\ Cupo(admitidas'[kk], instante')
          /\ Castigada(llamadas'[kk], infracciones'[kk], bloqueado'[kk])
      BY <1>8, <1>9, <1>12, <1>13
    <2>2. QED
      BY <2>1 DEF DeClave, Puesta, Memoria, Cupo, Tramo, Castigada, Penalizacion
  <1>15. QED
    BY <1>7, <1>8, <1>11, <1>12, <1>13, <1>14, SoloUnaClave

\* Lists, threads and counters keep their types, and each key the invariant.
THEOREM LimitesSiempre == SpecLimites => []InvLimites
  <1>1. ASSUME InvLimites, [NextLimites]_varsLimites PROVE InvLimites'
    <2>1. CASE UNCHANGED varsLimites
      BY <1>1, <2>1 DEF varsLimites, InvLimites, TypeLimites, DeClave, EnHora, Puesta, Memoria,
                        Cupo, Tramo, Castigada, Penalizacion
    <2>2. ASSUME NEW h \in Hilos,
                 Llega(h) \/ Sigue(h) \/ Admitir(h) \/ Bloqueado(h) \/ Rechazar(h)
          PROVE  InvLimites'
      BY <1>1, <2>2, PasoLlega, PasoSigue, PasoAdmitir, PasoBloqueado, PasoRechazar
    <2>3. CASE Pasa
      BY <1>1, <2>3, PasoPasa
    <2>4. QED
      BY <1>1, <2>1, <2>2, <2>3 DEF NextLimites
  <1>2. QED
    BY InicioLimites, <1>1, PTL DEF SpecLimites

\* However the threads interleave between their reading of the clock and the lock, no
\* stretch of the window less that delay holds more admissions than the limit
\* (rate_limiter.py:46, 100).
THEOREM LaVentanaSeRespeta == SpecLimites => []VentanaRespetada
  <1>1. InvLimites => VentanaRespetada
    <2> SUFFICES ASSUME InvLimites PROVE VentanaRespetada
      OBVIOUS
    <2>1. \A k \in ClavesLimitadas : Cupo(admitidas[k], instante)
      BY DEF InvLimites, DeClave
    <2>2. QED
      BY <2>1 DEF VentanaRespetada, Cupo, Tramo
  <1>2. QED
    BY <1>1, LimitesSiempre, PTL

\* An offence counts as repeated only if the former block was shorter than the window
\* and the delay (rate_limiter.py:112, 194).
THEOREM LaReincidenciaEsEnVentana == SpecLimites => []ReincidenciaEnVentana
  <1>1. InvLimites => ReincidenciaEnVentana
    BY DEF InvLimites, DeClave, Castigada, ReincidenciaEnVentana, ClavesLimitadas, Adaptativas
  <1>2. QED
    BY <1>1, LimitesSiempre, PTL

\* Retry-After is the least wait: before it a key is refused, and when no penalty runs it
\* is admitted then (rate_limiter.py:61, 131).
THEOREM LaEsperaDelLimiteEsFiel == SpecLimites => []EsperaFiel
  <1>1. ASSUME InvLimites, NEW k \in ClavesLimitadas
        PROVE  LET s == Segundos(k, instante)
               IN  /\ \A u \in 0..(s - 1) : ~Admite(k, instante + u)
                   /\ bloqueado[k] <= instante => Admite(k, instante + s)
    <2> DEFINE l == llamadas[k]
               b == bloqueado[k]
               F(x) == Frescas(l, x)
               s == Segundos(k, instante)
    <2>1. /\ l \in SUBSET Anotada /\ b \in Int /\ instante \in Nat
          /\ IsFiniteSet(l) /\ Cardinality(l) <= MaxLlamadas
      BY <1>1, TiposDe DEF InvLimites, DeClave, Puesta
    <2>2. \A x : Recientes(k, x) = F(x)
      BY DEF Recientes, Frescas
    <2>3. \A x : Admite(k, x) <=> b <= x /\ Cardinality(F(x)) < MaxLlamadas
      BY <2>2 DEF Admite
    <2>4. \A x : /\ F(x) \subseteq l /\ IsFiniteSet(F(x)) /\ Cardinality(F(x)) <= Cardinality(l)
                 /\ Cardinality(F(x)) \in Nat
      BY <2>1, FrescasDe
    <2>5. CASE b > instante
      <3>1. s = b - instante
        BY <2>5 DEF Segundos
      <3>2. \A u \in 0..(s - 1) : ~(b <= instante + u)
        <4> HIDE DEF s, b
        <4>1. QED
          BY <3>1, <2>1, <2>5
      <3>3. ~(b <= instante)
        BY <2>1, <2>5
      <3>4. QED
        BY <2>3, <3>2, <3>3
    <2>6. CASE ~(b > instante) /\ Cardinality(F(instante)) < MaxLlamadas
      <3>1. s = 0
        BY <2>2, <2>6 DEF Segundos
      <3>2. 0..(s - 1) = {} /\ instante + s = instante /\ b <= instante
        BY <3>1, <2>1, <2>6
      <3>3. Admite(k, instante + s)
        BY <3>2, <2>3, <2>6
      <3>4. QED
        BY <3>2, <3>3
    <2>7. CASE ~(b > instante) /\ ~(Cardinality(F(instante)) < MaxLlamadas)
      <3> DEFINE G == F(instante)
                 H == {c.hora : c \in G}
                 v == Min(H)
                 w == Ventana - (instante - v)
      <3>1. s = Max({0, w})
        BY <2>2, <2>7 DEF Segundos, MasVieja
      <3>2. G # {} /\ IsFiniteSet(G)
        <4>1. Cardinality(G) # 0
          BY <2>7, ConstantesLimites
        <4>2. QED
          BY <4>1, <2>4, FS_EmptySet
      <3>3. H \in SUBSET Int /\ H # {} /\ IsFiniteSet(H)
        <4>1. \A c \in G : c.hora \in Int
          BY <2>1, <2>4 DEF Anotada
        <4> DEFINE g == [c \in G |-> c.hora]
        <4>2. g \in [G -> Int] /\ H = {g[c] : c \in G}
          BY <4>1
        <4> HIDE DEF G, g, H
        <4>3. IsFiniteSet({g[c] : c \in G})
          BY <3>2, <4>2, ImagenFinita
        <4>4. QED
          BY <3>2, <4>1, <4>2, <4>3 DEF H
      <3>4. v \in H /\ \A y \in H : v <= y
        <4> HIDE DEF H
        <4>1. QED
          BY <3>3, MinDef
      <3>5. PICK c \in G : c.hora = v
        BY <3>4
      <3>6. v \in Int /\ instante - v < Ventana
        BY <3>3, <3>4, <3>5 DEF Frescas
      <3>7. w \in Int /\ w > 0
        <4> HIDE DEF v
        <4>1. QED
          BY <3>6, <2>1, ConstantesLimites
      <3>8. s = w
        <4> HIDE DEF w, s
        <4>1. 0 \in Int /\ Max({0, w}) = IF 0 >= w THEN 0 ELSE w
          BY <3>7, MaxDos
        <4>2. QED
          BY <3>1, <3>7, <4>1
      <3>9. ASSUME NEW u \in 0..(s - 1) PROVE ~Admite(k, instante + u)
        <4>1. ASSUME NEW x \in G PROVE x \in F(instante + u)
          <5> DEFINE i == x.hora
          <5>1. i \in Int /\ v <= i /\ x \in l
            BY <3>3, <3>4, <2>4
          <5>2. u \in Int /\ u <= s - 1
            <6> HIDE DEF s, w
            <6>1. QED
              BY <3>7, <3>8, <3>9
          <5> HIDE DEF i, v, s
          <5>3. (instante + u) - i < Ventana
            BY <5>1, <5>2, <3>6, <3>8, <2>1, ConstantesLimites
          <5>4. QED
            BY <5>1, <5>3 DEF Frescas, i
        <4>2. G \subseteq F(instante + u)
          BY <4>1
        <4>3. Cardinality(G) <= Cardinality(F(instante + u))
          <5> DEFINE E == F(instante + u)
          <5>1. IsFiniteSet(E) /\ G \subseteq E
            BY <2>4, <4>2
          <5> HIDE DEF E, G
          <5>2. Cardinality(G) <= Cardinality(E)
            BY <5>1, FS_Subset
          <5>3. QED
            BY <5>2 DEF E
        <4>4. Cardinality(G) \in Nat /\ Cardinality(F(instante + u)) \in Nat
          BY <2>4
        <4>5. ~(Cardinality(F(instante + u)) < MaxLlamadas)
          BY <2>7, <4>3, <4>4, ConstantesLimites
        <4>6. QED
          BY <2>3, <4>5
      <3>10. Admite(k, instante + s)
        <4> DEFINE E == F(instante + s)
        <4>1. E \subseteq l /\ c \in l /\ IsFiniteSet(E)
          BY <2>4
        <4>2. c \notin E
          <5>1. instante + s = v + Ventana
            <6> HIDE DEF v, s
            <6>1. QED
              BY <3>6, <3>8, <2>1, ConstantesLimites
          <5>2. ~((instante + s) - c.hora < Ventana)
            <6> HIDE DEF v, s
            <6>1. QED
              BY <5>1, <3>5, <3>6, ConstantesLimites
          <5>3. QED
            BY <5>2 DEF Frescas
        <4>3. Cardinality(E) < Cardinality(l) /\ Cardinality(l) \in Nat /\ Cardinality(E) \in Nat
          <5> HIDE DEF E, l
          <5>1. E \subseteq l \ {c} /\ IsFiniteSet(l \ {c})
            BY <4>1, <4>2, <2>1, FS_RemoveElement
          <5>2. Cardinality(l \ {c}) = Cardinality(l) - 1
            BY <4>1, <2>1, FS_RemoveElement
          <5>3. Cardinality(E) <= Cardinality(l \ {c})
            BY <5>1, FS_Subset
          <5>4. Cardinality(l) \in Nat /\ Cardinality(E) \in Nat
            BY <2>1, <4>1, FS_CardinalityType
          <5>5. QED
            BY <5>2, <5>3, <5>4
        <4>4. Cardinality(E) < MaxLlamadas
          BY <4>3, <2>1, ConstantesLimites
        <4>5. b <= instante + s
          <5> HIDE DEF s, b, w
          <5>1. QED
            BY <2>1, <2>7, <3>7, <3>8
        <4>6. QED
          BY <2>3, <4>4, <4>5
      <3>11. QED
        BY <3>9, <3>10
    <2>8. QED
      BY <2>5, <2>6, <2>7
  <1>2. InvLimites => EsperaFiel
    BY <1>1 DEF EsperaFiel
  <1>3. QED
    BY <1>2, LimitesSiempre, PTL

-------------------------------------------------------------------------------
\* The retries against MH-Core.  The invariant counts the attempts: a call that sleeps
\* waits by what that many failures have doubled, and one that wakes up has waited
\* so, or its deadline has passed.

LEMMA ConstantesMercadeo ==
    /\ PlazoEstado \in Nat \ {0} /\ PlazoBorrador \in Nat \ {0}
    /\ EsperaInicial \in Nat \ {0} /\ EsperaMaxima \in Nat \ {0}
    /\ IntentoMinimo \in Nat \ {0} /\ IntentoMaximo \in Nat \ {0}
    /\ IntentoMinimo <= IntentoMaximo /\ EsperaDespertar \in Nat
  BY ConstantesDeMercadeo

\* n doublings, for the n of a set.
Doblando(g, S) ==
    \A n \in S : g[n] = IF n = 0 THEN EsperaInicial ELSE 2 * g[n - 1]

LEMMA DobladaParcial == \A m \in Nat : \E g \in [0..m -> Nat] : Doblando(g, 0..m)
  <1> DEFINE S == {m \in Nat : \E g \in [0..m -> Nat] : Doblando(g, 0..m)}
  <1>1. 0 \in S
    <2> DEFINE g == [n \in 0..0 |-> EsperaInicial]
    <2>1. g \in [0..0 -> Nat]
      BY ConstantesMercadeo
    <2>2. Doblando(g, 0..0)
      BY DEF Doblando
    <2>3. QED
      BY <2>1, <2>2
  <1>2. ASSUME NEW m \in S PROVE m + 1 \in S
    <2>1. PICK g \in [0..m -> Nat] : Doblando(g, 0..m)
      OBVIOUS
    <2>2. m \in Nat
      OBVIOUS
    <2> DEFINE h == [n \in 0..(m + 1) |-> IF n = m + 1 THEN 2 * g[m] ELSE g[n]]
    <2>3. m \in 0..m /\ g[m] \in Nat
      BY <2>1, <2>2
    <2>4. \A n \in 0..(m + 1) : n # m + 1 => n \in 0..m /\ g[n] \in Nat
      BY <2>1, <2>2
    <2>5. h \in [0..(m + 1) -> Nat]
      BY <2>3, <2>4
    <2>6. ASSUME NEW n \in 0..(m + 1)
          PROVE  h[n] = IF n = 0 THEN EsperaInicial ELSE 2 * h[n - 1]
      <3>1. CASE n = m + 1
        <4>1. n - 1 = m /\ m \in 0..(m + 1) /\ m # m + 1 /\ n # 0
          BY <3>1, <2>2
        <4>2. h[n] = 2 * g[m] /\ h[n - 1] = g[m]
          BY <3>1, <4>1
        <4>3. QED
          BY <4>1, <4>2
      <3>2. CASE n # m + 1
        <4>1. n \in 0..m /\ h[n] = g[n]
          BY <3>2, <2>2
        <4>2. g[n] = IF n = 0 THEN EsperaInicial ELSE 2 * g[n - 1]
          BY <4>1, <2>1 DEF Doblando
        <4>3. n # 0 => n - 1 \in 0..(m + 1) /\ n - 1 # m + 1
          BY <4>1, <2>2
        <4>4. n # 0 => h[n - 1] = g[n - 1]
          BY <4>3
        <4>5. QED
          BY <4>1, <4>2, <4>4
      <3>3. QED
        BY <3>1, <3>2
    <2>7. Doblando(h, 0..(m + 1))
      BY <2>6 DEF Doblando
    <2>8. QED
      BY <2>2, <2>5, <2>7
  <1>3. S \in SUBSET Nat
    OBVIOUS
  <1> HIDE DEF S
  <1>4. \A m \in Nat : m \in S
    BY <1>1, <1>2, <1>3, InduccionNat
  <1>5. QED
    BY <1>4 DEF S

\* Two of them agree where both are defined.
LEMMA DobladaUnica ==
    ASSUME NEW m \in Nat, NEW k \in Nat, k <= m,
           NEW g \in [0..m -> Nat], Doblando(g, 0..m),
           NEW h \in [0..k -> Nat], Doblando(h, 0..k)
    PROVE  \A n \in 0..k : g[n] = h[n]
  <1> DEFINE S == {n \in Nat : n <= k => g[n] = h[n]}
  <1>1. 0 \in S
    BY DEF Doblando
  <1>2. ASSUME NEW n \in S PROVE n + 1 \in S
    <2>1. n \in Nat /\ (n <= k => g[n] = h[n])
      OBVIOUS
    <2>2. CASE n + 1 <= k
      <3>1. n + 1 \in 0..m /\ n + 1 \in 0..k /\ n + 1 # 0 /\ (n + 1) - 1 = n /\ n <= k
        BY <2>1, <2>2
      <3>2. g[n + 1] = 2 * g[(n + 1) - 1] /\ h[n + 1] = 2 * h[(n + 1) - 1]
        BY <3>1 DEF Doblando
      <3>3. QED
        BY <2>1, <3>1, <3>2
    <2>3. QED
      BY <2>1, <2>2
  <1>3. S \in SUBSET Nat
    OBVIOUS
  <1> HIDE DEF S
  <1>4. \A n \in Nat : n \in S
    BY <1>1, <1>2, <1>3, InduccionNat
  <1>5. QED
    BY <1>4 DEF S

LEMMA DobladaExiste ==
    \E g \in [Nat -> Nat] :
        g = [n \in Nat |-> IF n = 0 THEN EsperaInicial ELSE 2 * g[n - 1]]
  <1> DEFINE F(m) == CHOOSE g \in [0..m -> Nat] : Doblando(g, 0..m)
             f == [n \in Nat |-> F(n)[n]]
  <1>1. \A m \in Nat : F(m) \in [0..m -> Nat] /\ Doblando(F(m), 0..m)
    BY DobladaParcial
  <1> HIDE DEF F
  <1>2. f \in [Nat -> Nat]
    <2>1. \A n \in Nat : n \in 0..n
      OBVIOUS
    <2>2. QED
      BY <1>1, <2>1
  <1>3. ASSUME NEW n \in Nat
        PROVE  f[n] = IF n = 0 THEN EsperaInicial ELSE 2 * f[n - 1]
    <2>1. F(n)[n] = IF n = 0 THEN EsperaInicial ELSE 2 * F(n)[n - 1]
      BY <1>1 DEF Doblando
    <2>2. ASSUME n # 0 PROVE F(n)[n - 1] = F(n - 1)[n - 1]
      <3>1. n - 1 \in Nat /\ n - 1 <= n /\ n - 1 \in 0..(n - 1)
        BY <2>2
      <3>2. /\ F(n) \in [0..n -> Nat] /\ Doblando(F(n), 0..n)
            /\ F(n - 1) \in [0..(n - 1) -> Nat] /\ Doblando(F(n - 1), 0..(n - 1))
        BY <1>1, <3>1
      <3> DEFINE g == F(n)
                 h == F(n - 1)
                 k == n - 1
      <3> HIDE DEF g, h, k
      <3>3. \A i \in 0..k : g[i] = h[i]
        BY <3>1, <3>2, DobladaUnica DEF g, h, k
      <3>4. QED
        BY <3>1, <3>3 DEF g, h, k
    <2>3. n # 0 => n - 1 \in Nat
      OBVIOUS
    <2>4. QED
      BY <2>1, <2>2, <2>3
  <1>4. f = [n \in Nat |-> IF n = 0 THEN EsperaInicial ELSE 2 * f[n - 1]]
    BY <1>2, <1>3
  <1>5. QED
    BY <1>2, <1>4

LEMMA DobladaDef ==
    /\ \A n \in Nat : Doblada[n] \in Nat \ {0}
    /\ Doblada[0] = EsperaInicial
    /\ \A n \in Nat : Doblada[n + 1] = 2 * Doblada[n]
  <1> DEFINE P(g) == g = [n \in Nat |-> IF n = 0 THEN EsperaInicial ELSE 2 * g[n - 1]]
  <1>1. P(Doblada)
    <2>1. Doblada = CHOOSE g : P(g)
      BY DEF Doblada
    <2>2. \E g : P(g)
      BY DobladaExiste
    <2> HIDE DEF P
    <2>3. QED
      BY <2>1, <2>2
  <1>2. \A n \in Nat : Doblada[n] = IF n = 0 THEN EsperaInicial ELSE 2 * Doblada[n - 1]
    BY <1>1
  <1>3. Doblada[0] = EsperaInicial
    BY <1>2
  <1>4. \A n \in Nat : n + 1 \in Nat /\ n + 1 # 0 /\ (n + 1) - 1 = n
    OBVIOUS
  <1>5. \A n \in Nat : Doblada[n + 1] = 2 * Doblada[n]
    BY <1>2, <1>4
  <1> DEFINE S == {n \in Nat : Doblada[n] \in Nat \ {0}}
  <1>6. 0 \in S
    BY <1>3, ConstantesMercadeo
  <1>7. \A n \in S : n + 1 \in S
    BY <1>5
  <1>8. S \in SUBSET Nat
    OBVIOUS
  <1> HIDE DEF S
  <1>9. \A n \in Nat : n \in S
    BY <1>6, <1>7, <1>8, InduccionNat
  <1>10. QED
    BY <1>3, <1>5, <1>9 DEF S

-------------------------------------------------------------------------------
\* What is due of the wait before an attempt that n others preceded.
Debida(n) == Min({Doblada[n], EsperaMaxima})

\* Each attempt waited; what is in hand has waited, is about to, or is over.
Ritmo(n) ==
    /\ \A i \in 1..n :
          /\ intentos[i] < llamada.limite
          /\ i > 1 => intentos[i] - intentos[i - 1] >= Debida(i - 2)
    /\ llamada.paso \in {"libre", "despertar"} => n = 0
    /\ llamada.paso \in {"despertar", "intentar"} => llamada.espera >= Debida(n)
    /\ llamada.paso = "intentar" =>
          /\ n = 0 => cronometro < llamada.limite
          /\ n > 0 => \/ cronometro >= llamada.limite
                      \/ cronometro - intentos[n] >= Debida(n - 1)
    /\ llamada.paso = "dormir" =>
          n > 0 /\ llamada.espera >= Debida(n - 1) /\ cronometro >= intentos[n]
    /\ llamada.paso = "leer" => n > 0

\* A draft more than one was paid by an error taken as temporary.
Copias ==
    /\ llamada.paso \in {"libre", "despertar"} => borradores = 0
    /\ borradores > 0 => llamada.op = "borrador"
    /\ borradores > 0 /\ llamada.paso \in {"intentar", "dormir"} => llamada.error \in Reintentables
    /\ borradores > 1 => llamada.error \in Reintentables

\* The result of a call that is not over is empty.
Cierre(n) ==
    /\ llamada.paso # "fin" => llamada.resultado = SinLlamada
    /\ llamada.resultado \in {"502_temporal", "503_temporal"} => n > 0

Aplazada ==
    llamada.paso \in {"intentar", "dormir"} => cronometro < llamada.limite + IntentoMinimo

InvMercadeo ==
    TypeMercadeo /\ Ritmo(Len(intentos)) /\ Copias /\ Cierre(Len(intentos)) /\ Aplazada

LEMMA DebidaTipo ==
    /\ \A n \in Nat : Debida(n) \in Nat \ {0} /\ Debida(n) <= EsperaMaxima /\ Debida(n) <= Doblada[n]
    /\ \A n \in Nat, e \in Nat : e >= Debida(n) =>
          Siguiente(e) >= Debida(n + 1) /\ Siguiente(e) \in Nat /\ Siguiente(e) <= EsperaMaxima
  <1>1. ASSUME NEW n \in Nat
        PROVE  /\ Debida(n) = IF Doblada[n] <= EsperaMaxima THEN Doblada[n] ELSE EsperaMaxima
               /\ Doblada[n] \in Nat \ {0}
    <2>1. Doblada[n] \in Nat \ {0}
      BY DobladaDef
    <2> DEFINE a == Doblada[n]
    <2> HIDE DEF a
    <2>2. a \in Int /\ EsperaMaxima \in Int
      BY <2>1, ConstantesMercadeo DEF a
    <2>3. Min({a, EsperaMaxima}) = IF a <= EsperaMaxima THEN a ELSE EsperaMaxima
      BY <2>2, MaxDos
    <2>4. QED
      BY <2>1, <2>3 DEF a, Debida
  <1>2. \A n \in Nat :
           Debida(n) \in Nat \ {0} /\ Debida(n) <= EsperaMaxima /\ Debida(n) <= Doblada[n]
    BY <1>1, ConstantesMercadeo
  <1>3. ASSUME NEW n \in Nat, NEW e \in Nat, e >= Debida(n)
        PROVE  Siguiente(e) >= Debida(n + 1) /\ Siguiente(e) \in Nat /\ Siguiente(e) <= EsperaMaxima
    <2> DEFINE d == 2 * e
    <2>1. d \in Int /\ d >= 0 /\ EsperaMaxima \in Int
      BY ConstantesMercadeo
    <2> HIDE DEF d
    <2>2. Min({d, EsperaMaxima}) = IF d <= EsperaMaxima THEN d ELSE EsperaMaxima
      BY <2>1, MaxDos
    <2>3. Siguiente(e) = IF d <= EsperaMaxima THEN d ELSE EsperaMaxima
      BY <2>2 DEF d, Siguiente
    <2>4. n + 1 \in Nat /\ Doblada[n + 1] = 2 * Doblada[n]
      BY DobladaDef
    <2>5. /\ Debida(n) = IF Doblada[n] <= EsperaMaxima THEN Doblada[n] ELSE EsperaMaxima
          /\ Debida(n + 1)
               = IF Doblada[n + 1] <= EsperaMaxima THEN Doblada[n + 1] ELSE EsperaMaxima
          /\ Doblada[n] \in Nat /\ Doblada[n + 1] \in Nat
      BY <1>1, <2>4
    <2> DEFINE p == Debida(n)
               q == Debida(n + 1)
               x == Doblada[n]
               y == Doblada[n + 1]
               s == Siguiente(e)
    <2> HIDE DEF p, q, x, y, s
    <2>6. /\ e >= p /\ e \in Nat /\ x \in Nat /\ y = 2 * x /\ EsperaMaxima \in Nat
          /\ s = IF d <= EsperaMaxima THEN d ELSE EsperaMaxima
          /\ p = IF x <= EsperaMaxima THEN x ELSE EsperaMaxima
          /\ q = IF y <= EsperaMaxima THEN y ELSE EsperaMaxima
      BY <1>3, <2>3, <2>4, <2>5, ConstantesMercadeo DEF p, q, x, y, s
    <2>7. d = 2 * e
      BY DEF d
    <2>8. s >= q /\ s \in Nat /\ s <= EsperaMaxima
      BY <2>1, <2>6, <2>7
    <2>9. QED
      BY <2>8 DEF s, q
  <1>4. QED
    BY <1>2, <1>3

LEMMA PlazoTipo == \A op : Plazo(op) \in Nat \ {0}
  <1>1. PlazoEstado \in Int /\ PlazoBorrador \in Int
    BY ConstantesMercadeo
  <1>2. Min({PlazoEstado, PlazoBorrador})
          = IF PlazoEstado <= PlazoBorrador THEN PlazoEstado ELSE PlazoBorrador
    BY <1>1, MaxDos
  <1>3. QED
    BY <1>2, ConstantesMercadeo DEF Plazo

\* The timeout of an attempt.
LEMMA TiempoTipo ==
    ASSUME Restante \in Int, Restante > 0
    PROVE  /\ TiempoDeIntento \in Nat
           /\ TiempoDeIntento <= Restante \/ TiempoDeIntento <= IntentoMinimo
  <1> DEFINE r == Restante
  <1>1. r \in Int
    OBVIOUS
  <1> HIDE DEF r
  <1> DEFINE m == IF IntentoMaximo <= r THEN IntentoMaximo ELSE r
  <1>2. Min({IntentoMaximo, r}) = m
    BY <1>1, ConstantesMercadeo, MaxDos
  <1>3. m \in Int /\ m <= r /\ IntentoMinimo \in Int
    BY <1>1, ConstantesMercadeo
  <1> HIDE DEF m
  <1>4. Max({IntentoMinimo, m}) = IF IntentoMinimo >= m THEN IntentoMinimo ELSE m
    BY <1>3, MaxDos
  <1>5. TiempoDeIntento = Max({IntentoMinimo, m})
    BY <1>2 DEF TiempoDeIntento, r
  <1>6. IntentoMinimo \in Nat
    BY ConstantesMercadeo
  <1>7. QED
    BY <1>3, <1>4, <1>5, <1>6 DEF r

LEMMA InicioMercadeo == InitMercadeo => InvMercadeo
  <1> SUFFICES ASSUME InitMercadeo PROVE InvMercadeo
    OBVIOUS
  <1>1. TypeMercadeo
    BY ConstantesMercadeo DEF InitMercadeo, TypeMercadeo, SinPeticion, Llamada
  <1>2. Len(intentos) = 0 /\ llamada = SinPeticion /\ borradores = 0
    BY DEF InitMercadeo
  <1>3. Ritmo(0)
    BY <1>2 DEF Ritmo, SinPeticion
  <1>4. Copias /\ Cierre(0) /\ Aplazada
    BY <1>2, SinLlamadaEsNula DEF Copias, Cierre, Aplazada, SinPeticion, Resultados
  <1>5. QED
    BY <1>1, <1>2, <1>3, <1>4 DEF InvMercadeo

LEMMA LlamadaConserva ==
    ASSUME NEW c \in Llamada
    PROVE  /\ c.limite \in Nat /\ c.espera \in Nat
           /\ c.error \in Errores \cup {SinLlamada}
           /\ \A op \in {"estado", "borrador", SinLlamada} : [c EXCEPT !.op = op] \in Llamada
           /\ \A p \in {"libre", "despertar", "intentar", "dormir", "leer", "fin"} :
                 [c EXCEPT !.paso = p] \in Llamada
           /\ \A l \in Nat : [c EXCEPT !.limite = l] \in Llamada
           /\ \A e \in Nat : [c EXCEPT !.espera = e] \in Llamada
           /\ \A e \in Errores : [c EXCEPT !.error = e] \in Llamada
           /\ \A r \in Resultados : [c EXCEPT !.resultado = r] \in Llamada
  <1> DEFINE Ops == {"estado", "borrador", SinLlamada}
             Pasos == {"libre", "despertar", "intentar", "dormir", "leer", "fin"}
             Ers == Errores \cup {SinLlamada}
             Res == Resultados \cup {SinLlamada}
             Ll == [op : Ops, paso : Pasos, limite : Nat, espera : Nat, error : Ers, resultado : Res]
  <1>1. Llamada = Ll
    BY DEF Llamada
  <1>2. Errores \subseteq Ers /\ Resultados \subseteq Res
    OBVIOUS
  <1> HIDE DEF Ops, Pasos, Ers, Res
  <1>3. c \in Ll
    BY <1>1
  <1>4. /\ \A op \in Ops : [c EXCEPT !.op = op] \in Ll
        /\ \A p \in Pasos : [c EXCEPT !.paso = p] \in Ll
    BY <1>3
  <1>5. /\ \A l \in Nat : [c EXCEPT !.limite = l] \in Ll
        /\ \A e \in Nat : [c EXCEPT !.espera = e] \in Ll
    BY <1>3
  <1>6. /\ \A e \in Ers : [c EXCEPT !.error = e] \in Ll
        /\ \A r \in Res : [c EXCEPT !.resultado = r] \in Ll
    BY <1>3
  <1>7. c.limite \in Nat /\ c.espera \in Nat /\ c.error \in Ers
    BY <1>3
  <1> HIDE DEF Ll
  <1>8. /\ \A e \in Errores : [c EXCEPT !.error = e] \in Ll
        /\ \A r \in Resultados : [c EXCEPT !.resultado = r] \in Ll
    BY <1>2, <1>6
  <1>9. QED
    BY <1>1, <1>4, <1>5, <1>7, <1>8 DEF Ops, Pasos, Ers

\* Two fields at once are two updates.
LEMMA LlamadaConservaDos ==
    ASSUME NEW c \in Llamada
    PROVE  /\ \A r \in Resultados : [c EXCEPT !.paso = "fin", !.resultado = r] \in Llamada
           /\ \A l \in Nat : [c EXCEPT !.paso = "intentar", !.limite = l] \in Llamada
           /\ \A e \in Errores : [c EXCEPT !.paso = "dormir", !.error = e] \in Llamada
           /\ \A e \in Nat : [c EXCEPT !.paso = "intentar", !.espera = e] \in Llamada
           /\ [c EXCEPT !.paso = "leer"] \in Llamada
  <1>1. \A p \in {"libre", "despertar", "intentar", "dormir", "leer", "fin"} :
           [c EXCEPT !.paso = p] \in Llamada
    BY LlamadaConserva
  <1>2. /\ [c EXCEPT !.paso = "fin"] \in Llamada /\ [c EXCEPT !.paso = "intentar"] \in Llamada
        /\ [c EXCEPT !.paso = "dormir"] \in Llamada /\ [c EXCEPT !.paso = "leer"] \in Llamada
    BY <1>1
  <1> DEFINE f == [c EXCEPT !.paso = "fin"]
             i == [c EXCEPT !.paso = "intentar"]
             d == [c EXCEPT !.paso = "dormir"]
  <1>3. \A r \in Resultados : [f EXCEPT !.resultado = r] \in Llamada
    BY <1>2, LlamadaConserva
  <1>4. \A l \in Nat : [i EXCEPT !.limite = l] \in Llamada
    BY <1>2, LlamadaConserva
  <1>5. \A l \in Nat : [i EXCEPT !.espera = l] \in Llamada
    BY <1>2, LlamadaConserva
  <1>6. \A e \in Errores : [d EXCEPT !.error = e] \in Llamada
    BY <1>2, LlamadaConserva
  <1>7. QED
    BY <1>2, <1>3, <1>4, <1>5, <1>6

LEMMA PeticionTipada ==
    /\ SinPeticion \in Llamada
    /\ \A op \in {"estado", "borrador"} : [SinPeticion EXCEPT !.op = op] \in Llamada
  <1>1. SinPeticion \in Llamada
    BY ConstantesMercadeo DEF SinPeticion, Llamada
  <1>2. QED
    BY <1>1, LlamadaConserva

\* A new call.
LEMMA PasoPedir ==
    ASSUME InvMercadeo, Pedir PROVE InvMercadeo'
  <1>1. PICK op \in {"estado", "borrador"}, configurado \in BOOLEAN :
           /\ llamada.paso = "libre"
           /\ llamada' =
                 IF ~configurado
                 THEN [SinPeticion EXCEPT !.op = op, !.paso = "fin", !.resultado = "no_configurado"]
                 ELSE IF op = "estado" THEN [SinPeticion EXCEPT !.op = op, !.paso = "despertar"]
                 ELSE [SinPeticion EXCEPT !.op = op, !.paso = "intentar", !.limite = Plazo(op)]
           /\ cronometro' = 0 /\ intentos' = <<>> /\ borradores' = 0
    BY DEF Pedir
  <1>2. Plazo(op) \in Nat \ {0}
    BY PlazoTipo
  <1>3. llamada' \in Llamada
    <2> DEFINE c == [SinPeticion EXCEPT !.op = op]
    <2>1. c \in Llamada
      BY PeticionTipada
    <2>2. /\ \A r \in Resultados : [c EXCEPT !.paso = "fin", !.resultado = r] \in Llamada
          /\ \A l \in Nat : [c EXCEPT !.paso = "intentar", !.limite = l] \in Llamada
      BY <2>1, LlamadaConservaDos
    <2>3. [c EXCEPT !.paso = "despertar"] \in Llamada
      BY <2>1, LlamadaConserva
    <2>4. "no_configurado" \in Resultados
      BY DEF Resultados
    <2>5. \/ llamada' = [c EXCEPT !.paso = "fin", !.resultado = "no_configurado"]
          \/ llamada' = [c EXCEPT !.paso = "despertar"]
          \/ llamada' = [c EXCEPT !.paso = "intentar", !.limite = Plazo(op)]
      BY <1>1 DEF SinPeticion
    <2> HIDE DEF c
    <2>6. QED
      BY <1>2, <2>2, <2>3, <2>4, <2>5
  <1>4. TypeMercadeo'
    BY <1>1, <1>3 DEF TypeMercadeo
  <1>5. Len(intentos') = 0
    BY <1>1
  <1>6. Debida(0) <= EsperaInicial
    BY DebidaTipo, DobladaDef
  <1>7. Debida(0) \in Nat /\ EsperaInicial \in Nat
    BY DebidaTipo, ConstantesMercadeo
  <1>8. Ritmo(0)'
    BY <1>1, <1>2, <1>6, <1>7 DEF Ritmo, SinPeticion, Debida
  <1>9. (Copias /\ Cierre(0) /\ Aplazada)'
    BY <1>1, <1>2, SinLlamadaEsNula, ConstantesMercadeo
       DEF Copias, Cierre, Aplazada, SinPeticion, Resultados
  <1>10. QED
    BY <1>4, <1>5, <1>8, <1>9 DEF InvMercadeo

LEMMA PasoDespertar ==
    ASSUME InvMercadeo, Despertar PROVE InvMercadeo'
  <1>1. PICK d \in 0..EsperaDespertar, corte \in BOOLEAN :
           /\ llamada.paso = "despertar"
           /\ cronometro' = d
           /\ llamada' = IF corte THEN Termina(Traduccion("corte"))
                         ELSE [llamada EXCEPT !.paso = "intentar",
                                              !.limite = d + Plazo(llamada.op)]
           /\ UNCHANGED <<intentos, borradores>>
    BY DEF Despertar
  <1>2. Plazo(llamada.op) \in Nat \ {0} /\ d \in Nat
    BY PlazoTipo, ConstantesMercadeo
  <1>3. Traduccion("corte") = "no_controlado"
    BY DEF Traduccion, Temporales
  <1>4. TypeMercadeo /\ Ritmo(Len(intentos)) /\ Copias /\ Cierre(Len(intentos))
    BY DEF InvMercadeo
  <1>5. Len(intentos) = 0 /\ Len(intentos') = 0 /\ borradores = 0
    BY <1>1, <1>4 DEF Ritmo, Copias
  <1> DEFINE l == d + Plazo(llamada.op)
  <1>6. llamada' = [llamada EXCEPT !.paso = "fin", !.resultado = "no_controlado"]
        \/ llamada' = [llamada EXCEPT !.paso = "intentar", !.limite = l]
    BY <1>1, <1>3 DEF Termina
  <1>7. l \in Nat /\ cronometro' < l
    BY <1>1, <1>2
  <1> HIDE DEF l
  <1>8. llamada' \in Llamada
    <2>1. llamada \in Llamada /\ "no_controlado" \in Resultados
      BY <1>4 DEF TypeMercadeo, Resultados
    <2>2. QED
      BY <2>1, <1>6, <1>7, LlamadaConservaDos
  <1>9. TypeMercadeo'
    BY <1>1, <1>2, <1>4, <1>8 DEF TypeMercadeo
  <1>10. llamada \in [op : {"estado", "borrador", SinLlamada},
            paso : {"libre", "despertar", "intentar", "dormir", "leer", "fin"},
            limite : Nat, espera : Nat, error : Errores \cup {SinLlamada},
            resultado : Resultados \cup {SinLlamada}]
    BY <1>4 DEF TypeMercadeo, Llamada
  <1>11. /\ llamada'.espera = llamada.espera /\ llamada'.op = llamada.op
         /\ llamada'.error = llamada.error
         /\ \/ llamada'.paso = "fin" /\ llamada'.resultado = "no_controlado"
            \/ /\ llamada'.paso = "intentar" /\ llamada'.resultado = llamada.resultado
               /\ llamada'.limite = l
    BY <1>6, <1>10
  <1>12. Ritmo(0)'
    BY <1>1, <1>4, <1>5, <1>7, <1>11 DEF Ritmo, Debida
  <1>13. (Copias /\ Cierre(0))'
    BY <1>1, <1>4, <1>5, <1>11, SinLlamadaEsNula DEF Copias, Cierre, Resultados
  <1>14. Aplazada'
    <2>1. cronometro' \in Nat /\ IntentoMinimo \in Nat
      BY <1>1, <1>2, ConstantesMercadeo
    <2>2. QED
      BY <2>1, <1>7, <1>11 DEF Aplazada
  <1>15. QED
    BY <1>5, <1>9, <1>12, <1>13, <1>14 DEF InvMercadeo

\* The fields of a call after an update, and what the steps keep.
LEMMA CamposDe ==
    ASSUME NEW c \in Llamada
    PROVE  /\ \A r : LET f == [c EXCEPT !.paso = "fin", !.resultado = r]
                     IN  /\ f.op = c.op /\ f.paso = "fin" /\ f.limite = c.limite
                         /\ f.espera = c.espera /\ f.error = c.error /\ f.resultado = r
           /\ \A e : LET f == [c EXCEPT !.paso = "dormir", !.error = e]
                     IN  /\ f.op = c.op /\ f.paso = "dormir" /\ f.limite = c.limite
                         /\ f.espera = c.espera /\ f.error = e /\ f.resultado = c.resultado
           /\ \A e : LET f == [c EXCEPT !.paso = "intentar", !.espera = e]
                     IN  /\ f.op = c.op /\ f.paso = "intentar" /\ f.limite = c.limite
                         /\ f.espera = e /\ f.error = c.error /\ f.resultado = c.resultado
           /\ LET f == [c EXCEPT !.paso = "leer"]
              IN  /\ f.op = c.op /\ f.paso = "leer" /\ f.limite = c.limite
                  /\ f.espera = c.espera /\ f.error = c.error /\ f.resultado = c.resultado
  <1> DEFINE Ops == {"estado", "borrador", SinLlamada}
             Pasos == {"libre", "despertar", "intentar", "dormir", "leer", "fin"}
             Ers == Errores \cup {SinLlamada}
             Res == Resultados \cup {SinLlamada}
  <1>1. c \in [op : Ops, paso : Pasos, limite : Nat, espera : Nat, error : Ers, resultado : Res]
    BY DEF Llamada
  <1> HIDE DEF Ops, Pasos, Ers, Res
  <1>2. QED
    BY <1>1

LEMMA Traducciones ==
    \A e \in Errores :
        /\ Traduccion(e) \in Resultados
        /\ Traduccion(e) \in {"502_temporal", "503_temporal"} => e \in Reintentables
  BY DEF Traduccion, Errores, Temporales, Resultados, Reintentables

LEMMA PasoIntentar ==
    ASSUME InvMercadeo, Intentar PROVE InvMercadeo'
  <1>1. PICK d \in 0..TiempoDeIntento, error \in Errores \cup {SinLlamada}, hecho \in BOOLEAN :
           /\ llamada.paso = "intentar" /\ Restante > 0
           /\ hecho => llamada.op = "borrador" /\ error \notin {"401", "422"}
           /\ error = SinLlamada /\ llamada.op = "borrador" => hecho
           /\ cronometro' = cronometro + d
           /\ intentos' = Append(intentos, cronometro)
           /\ borradores' = borradores + (IF hecho THEN 1 ELSE 0)
           /\ llamada' =
                 IF error = SinLlamada THEN [llamada EXCEPT !.paso = "leer"]
                 ELSE IF error \in Reintentables
                 THEN [llamada EXCEPT !.paso = "dormir", !.error = error]
                 ELSE Termina(Traduccion(error))
    BY DEF Intentar
  <1> DEFINE n == Len(intentos)
             l == llamada.limite
  <1>2. TypeMercadeo /\ Ritmo(n) /\ Copias /\ Cierre(n) /\ Aplazada
    BY DEF InvMercadeo
  <1>3. /\ llamada \in Llamada /\ cronometro \in Nat /\ borradores \in Nat
        /\ intentos \in Seq(Nat) /\ n \in Nat
    BY <1>2 DEF TypeMercadeo
  <1>4. l \in Nat /\ llamada.error \in Errores \cup {SinLlamada}
    BY <1>3, LlamadaConserva
  <1>5. cronometro < l /\ Restante \in Int /\ Restante = l - cronometro
    BY <1>1, <1>3, <1>4 DEF Restante
  <1>6. d \in Nat /\ (cronometro + d <= l \/ d <= IntentoMinimo)
    <2>1. TiempoDeIntento \in Nat
          /\ (TiempoDeIntento <= Restante \/ TiempoDeIntento <= IntentoMinimo)
      BY <1>1, <1>5, TiempoTipo
    <2> DEFINE t == TiempoDeIntento
    <2> HIDE DEF t
    <2>2. t \in Nat /\ (t <= l - cronometro \/ t <= IntentoMinimo) /\ d \in 0..t
      BY <2>1, <1>5, <1>1 DEF t
    <2>3. IntentoMinimo \in Nat
      BY ConstantesMercadeo
    <2> HIDE DEF l
    <2>4. QED
      BY <2>2, <2>3, <1>3, <1>4
  <1>7. cronometro' \in Nat /\ cronometro' >= cronometro /\ cronometro' < l + IntentoMinimo
    <2>1. IntentoMinimo \in Nat \ {0}
      BY ConstantesMercadeo
    <2> HIDE DEF l
    <2>2. QED
      BY <2>1, <1>1, <1>3, <1>4, <1>5, <1>6
  <1>8. /\ intentos' \in Seq(Nat) /\ Len(intentos') = n + 1
        /\ intentos'[n + 1] = cronometro
        /\ \A i \in 1..n : intentos'[i] = intentos[i] /\ intentos[i] \in Nat
    BY <1>1, <1>3
  <1>9. \/ llamada' = [llamada EXCEPT !.paso = "leer"] /\ error = SinLlamada
        \/ llamada' = [llamada EXCEPT !.paso = "dormir", !.error = error] /\ error \in Errores
             /\ error \in Reintentables
        \/ /\ llamada' = [llamada EXCEPT !.paso = "fin", !.resultado = Traduccion(error)]
           /\ error \in Errores /\ error \notin Reintentables
    BY <1>1 DEF Termina
  <1>10. llamada' \in Llamada
    <2>1. CASE llamada' = [llamada EXCEPT !.paso = "leer"]
      BY <2>1, <1>3, LlamadaConservaDos
    <2>2. CASE llamada' = [llamada EXCEPT !.paso = "dormir", !.error = error] /\ error \in Errores
      BY <2>2, <1>3, LlamadaConservaDos
    <2>3. CASE /\ llamada' = [llamada EXCEPT !.paso = "fin", !.resultado = Traduccion(error)]
               /\ error \in Errores
      <3>1. Traduccion(error) \in Resultados
        BY <2>3, Traducciones
      <3> DEFINE r == Traduccion(error)
      <3> HIDE DEF r
      <3>2. [llamada EXCEPT !.paso = "fin", !.resultado = r] \in Llamada
        BY <3>1, <1>3, LlamadaConservaDos DEF r
      <3>3. QED
        BY <3>2, <2>3 DEF r
    <2>4. QED
      BY <1>9, <2>1, <2>2, <2>3
  <1>11. /\ llamada'.limite = l /\ llamada'.op = llamada.op /\ llamada'.espera = llamada.espera
         /\ \/ llamada'.paso = "leer" /\ llamada'.error = llamada.error
                 /\ llamada'.resultado = llamada.resultado
            \/ /\ llamada'.paso = "dormir" /\ llamada'.error = error /\ error \in Reintentables
               /\ llamada'.resultado = llamada.resultado
            \/ /\ llamada'.paso = "fin" /\ llamada'.error = llamada.error
               /\ llamada'.resultado = Traduccion(error) /\ error \in Errores
    <2> DEFINE r == Traduccion(error)
               a == [llamada EXCEPT !.paso = "leer"]
               b == [llamada EXCEPT !.paso = "dormir", !.error = error]
               c == [llamada EXCEPT !.paso = "fin", !.resultado = r]
    <2>1. /\ a.op = llamada.op /\ a.paso = "leer" /\ a.limite = l
          /\ a.espera = llamada.espera /\ a.error = llamada.error
          /\ a.resultado = llamada.resultado
      BY <1>3, CamposDe
    <2>2. /\ b.op = llamada.op /\ b.paso = "dormir" /\ b.limite = l
          /\ b.espera = llamada.espera /\ b.error = error
          /\ b.resultado = llamada.resultado
      BY <1>3, CamposDe
    <2> HIDE DEF r
    <2>3. /\ c.op = llamada.op /\ c.paso = "fin" /\ c.limite = l
          /\ c.espera = llamada.espera /\ c.error = llamada.error
          /\ c.resultado = r
      BY <1>3, CamposDe
    <2>4. \/ llamada' = a
          \/ llamada' = b /\ error \in Reintentables
          \/ llamada' = c /\ error \in Errores
      BY <1>9 DEF r
    <2> HIDE DEF a, b, c, l
    <2>5. CASE llamada' = a
      BY <2>5, <2>1
    <2>6. CASE llamada' = b /\ error \in Reintentables
      BY <2>6, <2>2
    <2>7. CASE llamada' = c /\ error \in Errores
      BY <2>7, <2>3 DEF r
    <2>8. QED
      BY <2>4, <2>5, <2>6, <2>7
  <1>12. borradores' \in Nat /\ (borradores' > borradores => llamada.op = "borrador")
           /\ borradores' <= borradores + 1
    BY <1>1, <1>3
  <1>13. TypeMercadeo'
    BY <1>7, <1>8, <1>10, <1>12 DEF TypeMercadeo
  <1>14. Ritmo(Len(intentos))'
    <2>1. \A i \in 1..n : intentos[i] < l
             /\ (i > 1 => intentos[i] - intentos[i - 1] >= Debida(i - 2))
      BY <1>2 DEF Ritmo
    <2>2. n > 0 => cronometro - intentos[n] >= Debida(n - 1)
      <3>1. n > 0 => cronometro >= l \/ cronometro - intentos[n] >= Debida(n - 1)
        BY <1>1, <1>2 DEF Ritmo
      <3>2. ~(cronometro >= l)
        BY <1>3, <1>4, <1>5
      <3>3. QED
        BY <3>1, <3>2
    <2>3. llamada.espera >= Debida(n)
      BY <1>1, <1>2 DEF Ritmo
    <2>4. ASSUME NEW i \in 1..(n + 1)
          PROVE  /\ intentos'[i] < l
                 /\ i > 1 => intentos'[i] - intentos'[i - 1] >= Debida(i - 2)
      <3>1. CASE i \in 1..n
        <4>1. i > 1 => i - 1 \in 1..n
          BY <3>1, <1>3
        <4>2. QED
          BY <3>1, <4>1, <2>1, <1>8
      <3>2. CASE i = n + 1
        <4>1. intentos'[i] < l
          BY <3>2, <1>8, <1>5
        <4>2. ASSUME i > 1 PROVE intentos'[i] - intentos'[i - 1] >= Debida(i - 2)
          <5>1. i - 1 = n /\ n > 0 /\ n \in 1..n /\ i - 2 = n - 1
            BY <3>2, <4>2, <1>3
          <5>2. intentos'[i - 1] = intentos[n]
            BY <5>1, <1>8
          <5>3. QED
            BY <5>1, <5>2, <3>2, <1>8, <2>2
        <4>3. QED
          BY <4>1, <4>2
      <3>3. QED
        BY <3>1, <3>2, <1>3
    <2>5. (n + 1) - 1 = n /\ n + 1 > 0 /\ n + 1 # 0
      BY <1>3
    <2>6. /\ llamada'.limite = l /\ llamada'.espera = llamada.espera
          /\ llamada'.paso \in {"leer", "dormir", "fin"}
      BY <1>11
    <2>7. cronometro' >= intentos'[n + 1]
      BY <1>7, <1>8
    <2> DEFINE m == n + 1
    <2> HIDE DEF n, l
    <2>8. \A i \in 1..(n + 1) :
             /\ intentos'[i] < llamada'.limite
             /\ i > 1 => intentos'[i] - intentos'[i - 1] >= Debida(i - 2)
      BY <2>4, <2>6
    <2>9. llamada'.paso = "dormir" =>
             n + 1 > 0 /\ llamada'.espera >= Debida((n + 1) - 1) /\ cronometro' >= intentos'[n + 1]
      BY <2>3, <2>5, <2>6, <2>7
    <2>10. m # 0 /\ m > 0
      BY <2>5
    <2>11. /\ \A i \in 1..m :
                /\ intentos'[i] < llamada'.limite
                /\ i > 1 => intentos'[i] - intentos'[i - 1] >= Debida(i - 2)
           /\ llamada'.paso = "dormir" =>
                m > 0 /\ llamada'.espera >= Debida(m - 1) /\ cronometro' >= intentos'[m]
      BY <2>8, <2>9
    <2>12. Len(intentos') = m
      BY <1>8 DEF n
    <2> HIDE DEF m
    <2>13. QED
      BY <2>6, <2>10, <2>11, <2>12 DEF Ritmo, Debida
  <1>15. Copias'
    <2>1. /\ borradores > 0 => llamada.op = "borrador" /\ llamada.error \in Reintentables
          /\ borradores > 1 => llamada.error \in Reintentables
      BY <1>1, <1>2 DEF Copias
    <2>2. borradores' > 1 => borradores > 0
      BY <1>3, <1>12
    <2>3. borradores' > 0 => llamada'.op = "borrador"
      BY <2>1, <1>3, <1>11, <1>12
    <2>4. llamada'.paso \notin {"libre", "despertar", "intentar"}
      BY <1>11
    <2>5. llamada'.paso = "dormir" => llamada'.error \in Reintentables
      BY <1>11
    <2>6. borradores' > 1 => llamada'.error \in Reintentables
      BY <2>1, <2>2, <1>11
    <2>7. QED
      BY <2>3, <2>4, <2>5, <2>6 DEF Copias, Reintentables, Temporales
  <1>16. Cierre(Len(intentos))'
    <2>1. llamada.resultado = SinLlamada
      BY <1>1, <1>2 DEF Cierre
    <2>2. n + 1 > 0
      BY <1>3
    <2>3. llamada'.paso # "fin" => llamada'.resultado = SinLlamada
      BY <2>1, <1>11
    <2>4. Len(intentos') > 0
      BY <2>2, <1>8
    <2>5. QED
      BY <2>3, <2>4 DEF Cierre
  <1>17. Aplazada'
    BY <1>7, <1>11 DEF Aplazada
  <1>18. QED
    BY <1>8, <1>13, <1>14, <1>15, <1>16, <1>17 DEF InvMercadeo

LEMMA PasoDormir ==
    ASSUME InvMercadeo, Dormir PROVE InvMercadeo'
  <1> DEFINE n == Len(intentos)
             l == llamada.limite
             e == llamada.espera
             p == Pausa(Restante)
  <1>1. /\ llamada.paso = "dormir" /\ Restante > 0
        /\ cronometro' = cronometro + p
        /\ llamada' = [llamada EXCEPT !.paso = "intentar", !.espera = Siguiente(e)]
        /\ UNCHANGED <<intentos, borradores>>
    BY DEF Dormir
  <1>2. TypeMercadeo /\ Ritmo(n) /\ Copias /\ Cierre(n) /\ Aplazada
    BY DEF InvMercadeo
  <1>3. /\ llamada \in Llamada /\ cronometro \in Nat /\ borradores \in Nat
        /\ intentos \in Seq(Nat) /\ n \in Nat
    BY <1>2 DEF TypeMercadeo
  <1>4. l \in Nat /\ e \in Nat
    BY <1>3, LlamadaConserva
  <1>5. Restante = l - cronometro
    BY DEF Restante
  <1>6. /\ n > 0 /\ e >= Debida(n - 1) /\ cronometro >= intentos[n]
        /\ \A i \in 1..n :
              /\ intentos[i] < l
              /\ i > 1 => intentos[i] - intentos[i - 1] >= Debida(i - 2)
    BY <1>1, <1>2 DEF Ritmo
  <1>7. n - 1 \in Nat /\ intentos[n] \in Nat /\ (n - 1) + 1 = n
    BY <1>3, <1>6
  <1>8. /\ Siguiente(e) >= Debida(n) /\ Siguiente(e) \in Nat
        /\ Debida(n - 1) \in Nat /\ Debida(n - 1) <= EsperaMaxima
    <2> DEFINE m == n - 1
    <2>1. m \in Nat /\ e >= Debida(m)
      BY <1>6, <1>7
    <2> HIDE DEF m, e
    <2>2. Siguiente(e) >= Debida(m + 1) /\ Siguiente(e) \in Nat
      BY <2>1, <1>4, DebidaTipo
    <2>3. Debida(m) \in Nat /\ Debida(m) <= EsperaMaxima
      BY <2>1, DebidaTipo
    <2>4. QED
      BY <2>2, <2>3, <1>7 DEF m
  <1>9. p = IF e <= l - cronometro THEN e ELSE l - cronometro
    <2> DEFINE r == l - cronometro
    <2>1. r \in Int
      BY <1>3, <1>4
    <2> HIDE DEF r, e
    <2>2. Min({e, r}) = IF e <= r THEN e ELSE r
      BY <2>1, <1>4, MaxDos
    <2>3. p = Min({e, r})
      BY <1>5 DEF p, Pausa, r, e
    <2>4. QED
      BY <2>2, <2>3 DEF r
  <1>10. /\ p \in Nat /\ cronometro' \in Nat
         /\ cronometro' >= l \/ cronometro' - intentos[n] >= Debida(n - 1)
         /\ cronometro' <= l
    <2> DEFINE x == intentos[n]
               q == Debida(n - 1)
    <2>1. x \in Nat /\ q \in Nat /\ e >= q /\ cronometro >= x /\ l - cronometro > 0
      BY <1>1, <1>5, <1>6, <1>7, <1>8
    <2>2. cronometro' = cronometro + p
      BY <1>1
    <2> HIDE DEF x, q, p, e, l
    <2>3. /\ p \in Nat /\ cronometro' \in Nat /\ cronometro' <= l
          /\ cronometro' >= l \/ cronometro' - x >= q
      BY <2>1, <2>2, <1>3, <1>4, <1>9
    <2>4. QED
      BY <2>3 DEF x, q
  <1>11. llamada' \in Llamada
    BY <1>1, <1>3, <1>8, LlamadaConservaDos
  <1>12. /\ llamada'.limite = l /\ llamada'.op = llamada.op /\ llamada'.espera = Siguiente(e)
         /\ llamada'.paso = "intentar" /\ llamada'.error = llamada.error
         /\ llamada'.resultado = llamada.resultado
    BY <1>1, <1>3, CamposDe
  <1>13. TypeMercadeo'
    BY <1>1, <1>2, <1>10, <1>11 DEF TypeMercadeo
  <1>14. intentos' = intentos /\ borradores' = borradores
    BY <1>1
  <1> HIDE DEF n, l, e, p
  <1>15. Ritmo(n)'
    <2>1. n # 0
      BY <1>3, <1>6
    <2>2. /\ llamada'.paso = "intentar" /\ llamada'.limite = l /\ llamada'.espera >= Debida(n)
          /\ intentos' = intentos /\ n' = n
          /\ cronometro' >= l \/ cronometro' - intentos[n] >= Debida(n - 1)
      BY <1>8, <1>10, <1>12, <1>14 DEF n
    <2>3. QED
      BY <2>1, <2>2, <1>6 DEF Ritmo, Debida
  <1>16. Copias' /\ Cierre(n)'
    <2>1. n' = n
      BY <1>14 DEF n
    <2>2. QED
      BY <2>1, <1>1, <1>2, <1>12, <1>14 DEF Copias, Cierre
  <1>17. Aplazada'
    <2>1. IntentoMinimo \in Nat \ {0}
      BY ConstantesMercadeo
    <2>2. cronometro' < l + IntentoMinimo
      BY <2>1, <1>4, <1>10
    <2>3. QED
      BY <2>2, <1>12 DEF Aplazada
  <1>18. QED
    BY <1>13, <1>14, <1>15, <1>16, <1>17 DEF InvMercadeo, n

\* The deadline passed; an attempt was made, for the first one is always in time.
LEMMA PasoAgotar ==
    ASSUME InvMercadeo, Agotar PROVE InvMercadeo'
  <1> DEFINE n == Len(intentos)
             r == IF llamada.error = SinLlamada THEN "503_temporal" ELSE Traduccion(llamada.error)
  <1>1. /\ llamada.paso \in {"intentar", "dormir"} /\ Restante <= 0
        /\ llamada' = [llamada EXCEPT !.paso = "fin", !.resultado = r]
        /\ UNCHANGED <<cronometro, intentos, borradores>>
    BY DEF Agotar, Agotada, Termina
  <1>2. TypeMercadeo /\ Ritmo(n) /\ Copias /\ Cierre(n) /\ Aplazada
    BY DEF InvMercadeo
  <1>3. llamada \in Llamada /\ cronometro \in Nat /\ intentos \in Seq(Nat) /\ n \in Nat
    BY <1>2 DEF TypeMercadeo
  <1>4. llamada.limite \in Nat /\ llamada.error \in Errores \cup {SinLlamada}
    BY <1>3, LlamadaConserva
  <1>5. ~(cronometro < llamada.limite)
    BY <1>1, <1>3, <1>4 DEF Restante
  <1>6. n > 0
    <2>1. n # 0
      BY <1>1, <1>2, <1>5 DEF Ritmo
    <2>2. QED
      BY <2>1, <1>3
  <1>7. r \in Resultados
    <2>1. CASE llamada.error = SinLlamada
      BY <2>1 DEF Resultados
    <2>2. CASE llamada.error # SinLlamada
      BY <2>2, <1>4, Traducciones
    <2>3. QED
      BY <2>1, <2>2
  <1> HIDE DEF r
  <1>8. llamada' \in Llamada
    BY <1>1, <1>3, <1>7, LlamadaConservaDos
  <1>9. /\ llamada'.limite = llamada.limite /\ llamada'.op = llamada.op
        /\ llamada'.paso = "fin" /\ llamada'.error = llamada.error
    BY <1>1, <1>3, CamposDe
  <1>10. intentos' = intentos /\ borradores' = borradores /\ cronometro' = cronometro
    BY <1>1
  <1>11. TypeMercadeo'
    BY <1>2, <1>8, <1>10 DEF TypeMercadeo
  <1>12. Ritmo(Len(intentos))'
    BY <1>2, <1>9, <1>10 DEF Ritmo, Debida
  <1>13. Copias'
    BY <1>2, <1>9, <1>10 DEF Copias, Reintentables, Temporales
  <1>14. Cierre(Len(intentos))'
    BY <1>6, <1>9, <1>10 DEF Cierre
  <1>15. Aplazada'
    BY <1>9 DEF Aplazada
  <1>16. QED
    BY <1>11, <1>12, <1>13, <1>14, <1>15 DEF InvMercadeo

LEMMA PasoLeer ==
    ASSUME InvMercadeo, Leer PROVE InvMercadeo'
  <1> DEFINE n == Len(intentos)
  <1>1. PICK d \in 0..IntentoMaximo,
             r \in {"objeto", "inesperada", "503_temporal", "no_controlado"} :
           /\ llamada.paso = "leer"
           /\ cronometro' = cronometro + d
           /\ llamada' = [llamada EXCEPT !.paso = "fin", !.resultado = r]
           /\ UNCHANGED <<intentos, borradores>>
    BY DEF Leer, Termina
  <1>2. TypeMercadeo /\ Ritmo(n) /\ Copias /\ Cierre(n) /\ Aplazada
    BY DEF InvMercadeo
  <1>3. llamada \in Llamada /\ cronometro \in Nat /\ d \in Nat
    BY <1>1, <1>2, ConstantesMercadeo DEF TypeMercadeo
  <1>4. n > 0
    BY <1>1, <1>2 DEF Ritmo
  <1>5. r \in Resultados
    BY DEF Resultados
  <1>6. llamada' \in Llamada
    BY <1>1, <1>3, <1>5, LlamadaConservaDos
  <1>7. /\ llamada'.limite = llamada.limite /\ llamada'.op = llamada.op
        /\ llamada'.paso = "fin" /\ llamada'.error = llamada.error
    BY <1>1, <1>3, CamposDe
  <1>8. intentos' = intentos /\ borradores' = borradores
    BY <1>1
  <1>9. TypeMercadeo'
    BY <1>1, <1>2, <1>3, <1>6, <1>8 DEF TypeMercadeo
  <1>10. Ritmo(Len(intentos))'
    BY <1>2, <1>7, <1>8 DEF Ritmo, Debida
  <1>11. Copias'
    BY <1>2, <1>7, <1>8 DEF Copias, Reintentables, Temporales
  <1>12. Cierre(Len(intentos))'
    BY <1>4, <1>7, <1>8 DEF Cierre
  <1>13. Aplazada'
    BY <1>7 DEF Aplazada
  <1>14. QED
    BY <1>9, <1>10, <1>11, <1>12, <1>13 DEF InvMercadeo

LEMMA PasoContestar ==
    ASSUME InvMercadeo, Contestar PROVE InvMercadeo'
  <1>1. /\ llamada' = SinPeticion /\ cronometro' = 0 /\ intentos' = <<>> /\ borradores' = 0
        /\ Len(intentos') = 0
    BY DEF Contestar
  <1>2. TypeMercadeo'
    BY <1>1, PeticionTipada DEF TypeMercadeo
  <1>3. Ritmo(0)'
    BY <1>1 DEF Ritmo, SinPeticion
  <1>4. (Copias /\ Cierre(0) /\ Aplazada)'
    BY <1>1, SinLlamadaEsNula DEF Copias, Cierre, Aplazada, SinPeticion, Resultados
  <1>5. QED
    BY <1>1, <1>2, <1>3, <1>4 DEF InvMercadeo

LEMMA PasoQuietoMercadeo ==
    ASSUME InvMercadeo, UNCHANGED varsMercadeo PROVE InvMercadeo'
  BY DEF InvMercadeo, varsMercadeo, TypeMercadeo, Ritmo, Copias, Cierre, Aplazada, Debida,
         Reintentables, Temporales

\* The call and its counters keep their types, and each call the invariant.
THEOREM MercadeoSiempre == SpecMercadeo => []InvMercadeo
  <1>1. InvMercadeo /\ [NextMercadeo]_varsMercadeo => InvMercadeo'
    BY PasoPedir, PasoDespertar, PasoIntentar, PasoDormir, PasoAgotar, PasoLeer,
       PasoContestar, PasoQuietoMercadeo DEF NextMercadeo
  <1>2. QED
    BY InicioMercadeo, <1>1, PTL DEF SpecMercadeo

\* Whatever MH-Core answers and however long it takes, the retries respect their deadline
\* and their growing waits, and only an error taken as temporary leaves a second draft
\* (mh_core_marketing_service.py:46-76, 168-205).
THEOREM ElPlazoSeRespeta == SpecMercadeo => []PlazoRespetado
  <1>1. InvMercadeo => PlazoRespetado
    <2> SUFFICES ASSUME InvMercadeo PROVE PlazoRespetado
      OBVIOUS
    <2>1. /\ intentos \in Seq(Nat) /\ DOMAIN intentos = 1..Len(intentos)
          /\ Ritmo(Len(intentos)) /\ Copias /\ Cierre(Len(intentos)) /\ Aplazada
      BY DEF InvMercadeo, TypeMercadeo
    <2>2. \A i \in DOMAIN intentos :
             /\ intentos[i] < llamada.limite
             /\ i > 1 => intentos[i] - intentos[i - 1] >= Min({Doblada[i - 2], EsperaMaxima})
      BY <2>1 DEF Ritmo, Debida
    <2>3. llamada.paso \in {"intentar", "dormir"} => cronometro < llamada.limite + IntentoMinimo
      BY <2>1 DEF Aplazada
    <2>4. borradores > 1 => llamada.op = "borrador" /\ llamada.error \in Reintentables
      <3>1. borradores \in Nat
        BY DEF InvMercadeo, TypeMercadeo
      <3>2. borradores > 1 => borradores > 0
        BY <3>1
      <3>3. QED
        BY <2>1, <3>2 DEF Copias
    <2>5. Despertando => intentos # <<>>
      <3>1. Despertando => Len(intentos) > 0
        BY <2>1 DEF Cierre, Despertando
      <3>2. QED
        BY <2>1, <3>1
    <2>6. QED
      BY <2>2, <2>3, <2>4, <2>5 DEF PlazoRespetado
  <1>2. QED
    BY <1>1, MercadeoSiempre, PTL

-------------------------------------------------------------------------------
\* The metrics.  The window is the end of the history, and the last failure the last of
\* the history that is one.

LEMMA ConstantesMetricas ==
    /\ MaxMuestras \in Nat \ {0} /\ LatenciaObjetivo \in Nat /\ MaxVida \in Nat
    /\ CodigosHttp \subseteq Nat /\ Duraciones \subseteq Nat
  BY ConstantesDeMetricas

LEMMA MuestraTipo == \A m \in Muestra : m.estado \in Nat /\ m.ms \in Nat
  <1>1. \A c \in CodigosHttp \cup {500} : c \in Nat
    BY ConstantesMetricas
  <1>2. \A d \in Duraciones : d \in Nat
    BY ConstantesMetricas
  <1> DEFINE C == CodigosHttp \cup {500}
  <1> HIDE DEF C
  <1>3. \A m \in [estado : C, ms : Duraciones] : m.estado \in C /\ m.ms \in Duraciones
    OBVIOUS
  <1>4. QED
    BY <1>1, <1>2, <1>3 DEF Muestra, C

\* The counter in course exceeds the requests by those cancelled.
Contadas ==
    IsFiniteSet(enCurso) /\ activas = Cardinality(enCurso) + perdidas /\ vida = Len(todas)

Cola ==
    /\ Len(muestras) = IF vida <= MaxMuestras THEN vida ELSE MaxMuestras
    /\ \A i \in 1..Len(muestras) : muestras[i] = todas[(vida - Len(muestras)) + i]

UltimoFallo ==
    /\ ultimoFallo <= vida
    /\ ultimoFallo > 0 => Fallo(todas[ultimoFallo])
    /\ \A i \in 1..vida : Fallo(todas[i]) => i <= ultimoFallo

InvMetricas == TypeMetricas /\ Contadas /\ Cola /\ UltimoFallo

LEMMA InicioMetricas == InitMetricas => InvMetricas
  <1> SUFFICES ASSUME InitMetricas PROVE InvMetricas
    OBVIOUS
  <1>1. IsFiniteSet({}) /\ Cardinality({}) = 0
    BY FS_EmptySet
  <1>2. TypeMetricas
    BY DEF InitMetricas, TypeMetricas
  <1>3. Contadas
    BY <1>1 DEF InitMetricas, Contadas
  <1>4. Cola
    BY ConstantesMetricas DEF InitMetricas, Cola
  <1>5. UltimoFallo
    BY DEF InitMetricas, UltimoFallo
  <1>6. QED
    BY <1>2, <1>3, <1>4, <1>5 DEF InvMetricas

LEMMA TiposMetricas ==
    ASSUME InvMetricas
    PROVE  /\ enCurso \subseteq Atendidas /\ IsFiniteSet(enCurso) /\ Cardinality(enCurso) \in Nat
           /\ activas \in Nat /\ vida \in Nat /\ ultimoFallo \in Nat /\ perdidas \in Nat
           /\ muestras \in Seq(Muestra) /\ todas \in Seq(Muestra)
           /\ Len(muestras) \in Nat /\ vida = Len(todas)
           /\ activas = Cardinality(enCurso) + perdidas
  BY FS_CardinalityType DEF InvMetricas, TypeMetricas, Contadas

LEMMA PasoComenzar == ASSUME InvMetricas, Comenzar PROVE InvMetricas'
  <1>1. PICK p \in Atendidas \ enCurso :
           /\ enCurso' = enCurso \cup {p} /\ activas' = activas + 1
           /\ UNCHANGED <<muestras, vida, ultimoFallo, perdidas, todas>>
    BY DEF Comenzar
  <1>2. IsFiniteSet(enCurso \cup {p}) /\ Cardinality(enCurso \cup {p}) = Cardinality(enCurso) + 1
    BY <1>1, TiposMetricas, FS_AddElement
  <1>3. TypeMetricas'
    BY <1>1, TiposMetricas DEF TypeMetricas
  <1>4. Contadas'
    <2>1. activas + 1 = (Cardinality(enCurso) + 1) + perdidas
      BY TiposMetricas
    <2>2. QED
      BY <1>1, <1>2, <2>1, TiposMetricas DEF Contadas
  <1>5. Cola' /\ UltimoFallo'
    BY <1>1 DEF InvMetricas, Cola, UltimoFallo, Fallo
  <1>6. QED
    BY <1>3, <1>4, <1>5 DEF InvMetricas

LEMMA PasoCancelar == ASSUME InvMetricas, Cancelar PROVE InvMetricas'
  <1>1. PICK p \in enCurso :
           /\ enCurso' = enCurso \ {p} /\ perdidas' = perdidas + 1
           /\ UNCHANGED <<activas, muestras, vida, ultimoFallo, todas>>
    BY DEF Cancelar
  <1>2. IsFiniteSet(enCurso \ {p}) /\ Cardinality(enCurso \ {p}) = Cardinality(enCurso) - 1
    BY <1>1, TiposMetricas, FS_RemoveElement
  <1>3. TypeMetricas'
    BY <1>1, TiposMetricas DEF TypeMetricas
  <1>4. Contadas'
    <2>1. activas = (Cardinality(enCurso) - 1) + (perdidas + 1)
      BY TiposMetricas
    <2>2. QED
      BY <1>1, <1>2, <2>1, TiposMetricas DEF Contadas
  <1>5. Cola' /\ UltimoFallo'
    BY <1>1 DEF InvMetricas, Cola, UltimoFallo, Fallo
  <1>6. QED
    BY <1>3, <1>4, <1>5 DEF InvMetricas

LEMMA AnotaDef ==
    ASSUME NEW s \in Seq(Muestra), NEW m \in Muestra, Len(s) <= MaxMuestras
    PROVE  /\ Anota(s, m) \in Seq(Muestra)
           /\ Len(s) < MaxMuestras =>
                 /\ Len(Anota(s, m)) = Len(s) + 1
                 /\ \A i \in 1..Len(s) : Anota(s, m)[i] = s[i]
                 /\ Anota(s, m)[Len(s) + 1] = m
           /\ Len(s) = MaxMuestras =>
                 /\ Len(Anota(s, m)) = Len(s)
                 /\ \A i \in 1..(Len(s) - 1) : Anota(s, m)[i] = s[i + 1]
                 /\ Anota(s, m)[Len(s)] = m
  <1> DEFINE t == Append(s, m)
             n == Len(s)
  <1>1. /\ t \in Seq(Muestra) /\ Len(t) = n + 1 /\ n \in Nat /\ t[n + 1] = m
        /\ \A i \in 1..n : t[i] = s[i]
    OBVIOUS
  <1>2. Anota(s, m) = IF Len(t) > MaxMuestras THEN Tail(t) ELSE t
    BY DEF Anota
  <1>3. CASE n < MaxMuestras
    <2>1. Anota(s, m) = t
      BY <1>1, <1>2, <1>3, ConstantesMetricas
    <2> HIDE DEF t
    <2>2. QED
      BY <1>1, <1>3, <2>1, ConstantesMetricas
  <1>4. CASE n = MaxMuestras
    <2>1. Anota(s, m) = Tail(t)
      BY <1>1, <1>2, <1>4, ConstantesMetricas
    <2> HIDE DEF t
    <2>2. t # << >>
      BY <1>1
    <2>3. /\ Tail(t) \in Seq(Muestra) /\ Len(Tail(t)) = Len(t) - 1
          /\ \A i \in 1..(Len(t) - 1) : Tail(t)[i] = t[i + 1]
      BY <1>1, <2>2, HeadTailProperties
    <2>4. n \in 1..n /\ n >= 1
      BY <1>1, <1>4, ConstantesMetricas
    <2>5. Len(Tail(t)) = n /\ \A i \in 1..n : Tail(t)[i] = t[i + 1]
      BY <1>1, <2>3
    <2>6. Tail(t)[n] = m
      BY <1>1, <2>4, <2>5
    <2>7. \A i \in 1..(n - 1) : Tail(t)[i] = s[i + 1]
      <3>1. \A i \in 1..(n - 1) : i \in 1..n /\ i + 1 \in 1..n
        BY <1>1
      <3>2. QED
        BY <3>1, <1>1, <2>5
    <2>8. /\ Anota(s, m) \in Seq(Muestra) /\ Len(Anota(s, m)) = n
          /\ \A i \in 1..(n - 1) : Anota(s, m)[i] = s[i + 1]
          /\ Anota(s, m)[n] = m
      BY <2>1, <2>3, <2>5, <2>6, <2>7
    <2>9. ~(n < MaxMuestras)
      BY <1>4, ConstantesMetricas
    <2>10. QED
      BY <2>8, <2>9
  <1>5. QED
    BY <1>1, <1>3, <1>4, ConstantesMetricas

LEMMA PasoAcabar == ASSUME InvMetricas, Acabar PROVE InvMetricas'
  <1>1. PICK p \in enCurso, m \in Muestra :
           /\ enCurso' = enCurso \ {p} /\ activas' = Max({0, activas - 1})
           /\ vida' = vida + 1 /\ muestras' = Anota(muestras, m)
           /\ ultimoFallo' = IF Fallo(m) THEN vida + 1 ELSE ultimoFallo
           /\ todas' = Append(todas, m)
           /\ perdidas' = perdidas
    BY DEF Acabar
  <1> DEFINE n == Len(muestras)
  <1>2. /\ enCurso \subseteq Atendidas /\ IsFiniteSet(enCurso) /\ Cardinality(enCurso) \in Nat
        /\ activas \in Nat /\ vida \in Nat /\ ultimoFallo \in Nat /\ perdidas \in Nat
        /\ muestras \in Seq(Muestra) /\ todas \in Seq(Muestra)
        /\ n \in Nat /\ vida = Len(todas)
        /\ activas = Cardinality(enCurso) + perdidas
    BY TiposMetricas
  <1>3. /\ IsFiniteSet(enCurso \ {p}) /\ Cardinality(enCurso \ {p}) = Cardinality(enCurso) - 1
        /\ Cardinality(enCurso \ {p}) \in Nat
    BY <1>1, <1>2, FS_RemoveElement, FS_CardinalityType
  <1>4. activas' = activas - 1 /\ activas' \in Nat
    <2> DEFINE a == activas - 1
    <2>1. a \in Nat
      BY <1>2, <1>3
    <2> HIDE DEF a
    <2>2. 0 \in Int /\ a \in Int /\ Max({0, a}) = IF 0 >= a THEN 0 ELSE a
      BY <2>1, MaxDos
    <2>3. Max({0, a}) = a
      BY <2>1, <2>2
    <2>4. QED
      BY <1>1, <2>1, <2>3 DEF a
  <1>5. /\ n = IF vida <= MaxMuestras THEN vida ELSE MaxMuestras
        /\ \A i \in 1..n : muestras[i] = todas[(vida - n) + i]
    BY DEF InvMetricas, Cola
  <1>6. n <= MaxMuestras /\ n <= vida
    BY <1>2, <1>5, ConstantesMetricas
  <1>7. /\ muestras' \in Seq(Muestra)
        /\ n < MaxMuestras =>
              /\ Len(muestras') = n + 1
              /\ \A i \in 1..n : muestras'[i] = muestras[i]
              /\ muestras'[n + 1] = m
        /\ n = MaxMuestras =>
              /\ Len(muestras') = n
              /\ \A i \in 1..(n - 1) : muestras'[i] = muestras[i + 1]
              /\ muestras'[n] = m
    <2> DEFINE s == muestras
    <2>1. s \in Seq(Muestra) /\ Len(s) <= MaxMuestras /\ muestras' = Anota(s, m)
      BY <1>1, <1>2, <1>6
    <2> HIDE DEF s
    <2>2. /\ Anota(s, m) \in Seq(Muestra)
          /\ Len(s) < MaxMuestras =>
                 /\ Len(Anota(s, m)) = Len(s) + 1
                 /\ \A i \in 1..Len(s) : Anota(s, m)[i] = s[i]
                 /\ Anota(s, m)[Len(s) + 1] = m
          /\ Len(s) = MaxMuestras =>
                 /\ Len(Anota(s, m)) = Len(s)
                 /\ \A i \in 1..(Len(s) - 1) : Anota(s, m)[i] = s[i + 1]
                 /\ Anota(s, m)[Len(s)] = m
      BY <2>1, AnotaDef
    <2>3. QED
      BY <2>1, <2>2 DEF s
  <1>8. /\ todas' \in Seq(Muestra) /\ Len(todas') = vida + 1 /\ todas'[vida + 1] = m
        /\ \A i \in 1..vida : todas'[i] = todas[i]
    BY <1>1, <1>2
  <1>9. TypeMetricas'
    <2>1. enCurso' \subseteq Atendidas /\ vida' \in Nat /\ ultimoFallo' \in Nat
          /\ perdidas' \in Nat
      BY <1>1, <1>2
    <2>2. QED
      BY <2>1, <1>4, <1>7, <1>8 DEF TypeMetricas
  <1>10. Contadas'
    <2>1. activas - 1 = (Cardinality(enCurso) - 1) + perdidas
      BY <1>2
    <2>2. QED
      BY <1>1, <1>3, <1>4, <1>8, <2>1 DEF Contadas
  <1>11. Cola'
    <2> DEFINE v == vida + 1
               k == Len(muestras')
    <2>1. CASE n < MaxMuestras
      <3>1. n = vida /\ k = n + 1 /\ v <= MaxMuestras /\ v - k = 0
        BY <2>1, <1>2, <1>5, <1>7, ConstantesMetricas
      <3>2. ASSUME NEW i \in 1..k PROVE muestras'[i] = todas'[(v - k) + i]
        <4>1. (v - k) + i = i /\ i \in Int
          BY <3>1, <1>2
        <4>2. CASE i \in 1..n
          <5>1. muestras[i] = todas[i]
            BY <4>2, <1>2, <1>5, <3>1
          <5>2. QED
            BY <4>1, <4>2, <5>1, <1>7, <1>8, <2>1, <3>1
        <4>3. CASE i = n + 1
          BY <4>1, <4>3, <1>7, <1>8, <2>1, <3>1
        <4>4. QED
          BY <3>1, <4>2, <4>3, <1>2
      <3>3. QED
        BY <3>1, <3>2, <1>1 DEF Cola
    <2>2. CASE n = MaxMuestras
      <3>1. k = n /\ n >= 1 /\ ~(v <= MaxMuestras) /\ v - k = (vida - n) + 1 /\ v - k \in Int
        <4>1. k = n
          BY <2>2, <1>7
        <4> HIDE DEF n, k
        <4>2. n \in Nat /\ vida \in Nat /\ n = MaxMuestras /\ n <= vida /\ MaxMuestras >= 1
          BY <2>2, <1>2, <1>6, ConstantesMetricas
        <4>3. QED
          BY <4>1, <4>2
      <3>2. ASSUME NEW i \in 1..k PROVE muestras'[i] = todas'[(v - k) + i]
        <4>1. CASE i \in 1..(n - 1)
          <5>1. i + 1 \in 1..n /\ (vida - n) + (i + 1) = (v - k) + i
                /\ (vida - n) + (i + 1) \in 1..vida
            BY <4>1, <3>1, <1>2, <1>6
          <5>2. muestras[i + 1] = todas[(vida - n) + (i + 1)]
            BY <5>1, <1>5
          <5>3. muestras'[i] = muestras[i + 1]
            BY <4>1, <1>7, <2>2
          <5>4. QED
            BY <5>1, <5>2, <5>3, <1>8
        <4>2. CASE i = n
          <5>1. (v - k) + i = vida + 1
            BY <4>2, <3>1, <1>2
          <5>2. QED
            BY <4>2, <5>1, <1>7, <1>8, <2>2
        <4>3. QED
          BY <3>1, <4>1, <4>2, <1>2
      <3>3. QED
        BY <2>2, <3>1, <3>2, <1>1 DEF Cola
    <2>3. QED
      BY <2>1, <2>2, <1>2, <1>6, ConstantesMetricas
  <1>12. UltimoFallo'
    <2>1. /\ ultimoFallo <= vida /\ (ultimoFallo > 0 => Fallo(todas[ultimoFallo]))
          /\ \A i \in 1..vida : Fallo(todas[i]) => i <= ultimoFallo
      BY DEF InvMetricas, UltimoFallo
    <2>2. CASE Fallo(m)
      <3>1. ultimoFallo' = vida + 1 /\ vida' = vida + 1
        BY <1>1, <2>2
      <3>2. Fallo(todas'[vida + 1])
        BY <1>8, <2>2
      <3>3. \A i \in 1..(vida + 1) : i <= vida + 1
        OBVIOUS
      <3>4. vida + 1 <= vida + 1
        BY <1>2
      <3>5. QED
        BY <3>1, <3>2, <3>3, <3>4 DEF UltimoFallo, Fallo
    <2>3. CASE ~Fallo(m)
      <3>1. ultimoFallo' = ultimoFallo /\ vida' = vida + 1 /\ ultimoFallo <= vida + 1
        BY <1>1, <1>2, <2>1, <2>3
      <3>2. ultimoFallo > 0 => Fallo(todas'[ultimoFallo])
        <4>1. ultimoFallo > 0 => ultimoFallo \in 1..vida
          BY <1>2, <2>1
        <4>2. QED
          BY <4>1, <2>1, <1>8
      <3>3. ASSUME NEW i \in 1..(vida + 1), Fallo(todas'[i]) PROVE i <= ultimoFallo
        <4>1. i # vida + 1
          BY <1>8, <2>3, <3>3
        <4>2. i \in 1..vida
          BY <4>1, <1>2
        <4>3. QED
          BY <4>2, <3>3, <2>1, <1>8
      <3>4. QED
        BY <3>1, <3>2, <3>3 DEF UltimoFallo, Fallo
    <2>4. QED
      BY <2>2, <2>3
  <1>13. QED
    BY <1>9, <1>10, <1>11, <1>12 DEF InvMetricas

\* Counters and window keep their types, and the invariant.
THEOREM MetricasSiempre == SpecMetricas => []InvMetricas
  <1>1. ASSUME InvMetricas, UNCHANGED varsMetricas PROVE InvMetricas'
    BY <1>1 DEF InvMetricas, varsMetricas, TypeMetricas, Contadas, Cola, UltimoFallo, Fallo
  <1>2. InvMetricas /\ [NextMetricas]_varsMetricas => InvMetricas'
    BY <1>1, PasoComenzar, PasoAcabar, PasoCancelar DEF NextMetricas
  <1>3. QED
    BY InicioMetricas, <1>2, PTL DEF SpecMetricas

LEMMA RedondeoDef ==
    ASSUME NEW a \in Nat
    PROVE  \E q \in Nat, r \in 0..99 :
              /\ a = 100 * q + r
              /\ RedondeoPar(a, 100) \in {q, q + 1}
              /\ RedondeoPar(a, 100) = q + 1 <=> 2 * r > 100 \/ (2 * r = 100 /\ q % 2 = 1)
  <1> DEFINE q == a \div 100
             r == a % 100
  <1>1. q \in Nat /\ r \in 0..99 /\ a = 100 * q + r
    BY SMT
  <1>2. RedondeoPar(a, 100)
          = IF 2 * r > 100 \/ (2 * r = 100 /\ q % 2 = 1) THEN q + 1 ELSE q
    BY DEF RedondeoPar
  <1> HIDE DEF q, r
  <1>3. QED
    BY <1>1, <1>2

LEMMA RedondeoAcota ==
    ASSUME NEW a \in Nat
    PROVE  /\ RedondeoPar(a, 100) \in Nat
           /\ 100 * RedondeoPar(a, 100) + 50 >= a
  <1>1. PICK q \in Nat, r \in 0..99 :
              /\ a = 100 * q + r
              /\ RedondeoPar(a, 100) \in {q, q + 1}
              /\ RedondeoPar(a, 100) = q + 1 <=> 2 * r > 100 \/ (2 * r = 100 /\ q % 2 = 1)
    BY RedondeoDef
  <1> DEFINE x == RedondeoPar(a, 100)
  <1>2. x \in {q, q + 1} /\ (2 * r > 100 => x = q + 1)
    BY <1>1
  <1> HIDE DEF x
  <1>3. x \in Nat /\ 100 * x + 50 >= a
    BY <1>1, <1>2
  <1>4. QED
    BY <1>3 DEF x

LEMMA RedondeoCrece ==
    ASSUME NEW a \in Nat, NEW b \in Nat, a <= b
    PROVE  RedondeoPar(a, 100) <= RedondeoPar(b, 100)
  <1>1. PICK q \in Nat, r \in 0..99 :
              /\ a = 100 * q + r
              /\ RedondeoPar(a, 100) \in {q, q + 1}
              /\ RedondeoPar(a, 100) = q + 1 <=> 2 * r > 100 \/ (2 * r = 100 /\ q % 2 = 1)
    BY RedondeoDef
  <1>2. PICK p \in Nat, s \in 0..99 :
              /\ b = 100 * p + s
              /\ RedondeoPar(b, 100) \in {p, p + 1}
              /\ RedondeoPar(b, 100) = p + 1 <=> 2 * s > 100 \/ (2 * s = 100 /\ p % 2 = 1)
    BY RedondeoDef
  <1> DEFINE x == RedondeoPar(a, 100)
             y == RedondeoPar(b, 100)
  <1> HIDE DEF x, y
  <1>3. q < p \/ (q = p /\ r <= s)
    BY <1>1, <1>2
  <1>4. x \in {q, q + 1} /\ y \in {p, p + 1}
    BY <1>1, <1>2 DEF x, y
  <1>5. q < p => x <= y
    BY <1>4
  <1>6. ASSUME q = p, r <= s PROVE x <= y
    <2>1. x = q + 1 => y = p + 1
      <3>1. (2 * r > 100 \/ (2 * r = 100 /\ q % 2 = 1)) => (2 * s > 100 \/ (2 * s = 100 /\ p % 2 = 1))
        BY <1>6
      <3>2. QED
        BY <3>1, <1>1, <1>2 DEF x, y
    <2>2. QED
      BY <1>4, <1>6, <2>1
  <1>7. x <= y
    BY <1>3, <1>5, <1>6
  <1>8. QED
    BY <1>7 DEF x, y

\* sorted(values)[k] exists: as many values are before it and not after it as must be.
LEMMA EnOrdenDef ==
    ASSUME NEW n \in Nat \ {0}, NEW f \in [1..n -> Int], NEW k \in 0..(n - 1)
    PROVE  /\ EnOrden(f, k) \in Range(f) /\ EnOrden(f, k) \in Int
           /\ Cardinality({i \in 1..n : f[i] < EnOrden(f, k)}) <= k
           /\ Cardinality({i \in 1..n : f[i] <= EnOrden(f, k)}) > k
  <1> DEFINE S == 1..n
             Menos(v) == {i \in S : f[i] < v}
             Hasta(v) == {i \in S : f[i] <= v}
             Desde(v) == {i \in S : f[i] >= v}
             Tras(v) == {i \in S : f[i] > v}
             P(v) == v \in Range(f) /\ Cardinality(Menos(v)) <= k /\ Cardinality(Hasta(v)) > k
  <1>1. IsFiniteSet(S) /\ Cardinality(S) = n
    BY FS_Interval
  <1>2. n - k \in Nat \ {0} /\ Cardinality(S) >= n - k
    BY <1>1
  <1>3. Range(f) = {f[x] : x \in S} /\ Range(f) \subseteq Int
    BY DEF Range
  <1>4. PICK t \in {f[x] : x \in S} :
           Cardinality(Desde(t)) >= n - k /\ Cardinality(Tras(t)) < n - k
    <2> DEFINE c == n - k
    <2>1. c \in Nat \ {0} /\ Cardinality(S) >= c /\ f \in [S -> Int]
      BY <1>2
    <2>2. \E t \in {f[x] : x \in S} : /\ Cardinality({x \in S : f[x] >= t}) >= c
                                      /\ Cardinality({x \in S : f[x] > t}) < c
      <3>1. IsFiniteSet(S) /\ f \in [S -> Int] /\ c \in Nat \ {0} /\ Cardinality(S) >= c
        BY <1>1, <2>1
      <3> HIDE DEF c, S
      <3>2. QED
        BY <3>1, Umbral, Zenon
    <2>3. \A t : {x \in S : f[x] >= t} = Desde(t) /\ {x \in S : f[x] > t} = Tras(t)
      OBVIOUS
    <2> HIDE DEF c, S, Desde, Tras
    <2>4. \E t \in {f[x] : x \in S} : Cardinality(Desde(t)) >= c /\ Cardinality(Tras(t)) < c
      BY <2>2, <2>3
    <2>5. QED
      BY <2>4 DEF c
  <1>5. t \in Int /\ t \in Range(f)
    BY <1>3, <1>4
  <1>6. Menos(t) = S \ Desde(t) /\ Hasta(t) = S \ Tras(t)
    BY <1>5
  <1>7. S \cap Desde(t) = Desde(t) /\ S \cap Tras(t) = Tras(t)
    OBVIOUS
  <1>8. /\ Cardinality(Menos(t)) = n - Cardinality(Desde(t))
        /\ Cardinality(Hasta(t)) = n - Cardinality(Tras(t))
    <2> HIDE DEF S, Desde, Tras, Menos, Hasta
    <2>1. Cardinality(S \ Desde(t)) = Cardinality(S) - Cardinality(S \cap Desde(t))
      BY <1>1, FS_Difference
    <2>2. Cardinality(S \ Tras(t)) = Cardinality(S) - Cardinality(S \cap Tras(t))
      BY <1>1, FS_Difference
    <2>3. QED
      BY <1>1, <1>6, <1>7, <2>1, <2>2
  <1>9. Cardinality(Desde(t)) \in Nat /\ Cardinality(Tras(t)) \in Nat
    <2>1. Desde(t) \subseteq S /\ Tras(t) \subseteq S
      OBVIOUS
    <2> HIDE DEF S, Desde, Tras
    <2>2. QED
      BY <1>1, <2>1, FS_Subset, FS_CardinalityType
  <1>10. P(t)
    BY <1>4, <1>5, <1>8, <1>9
  <1>11. EnOrden(f, k) = CHOOSE v : P(v)
    <2>1. DOMAIN f = S
      OBVIOUS
    <2>2. EnOrden(f, k) = CHOOSE v \in Range(f) : Cardinality(Menos(v)) <= k /\ Cardinality(Hasta(v)) > k
      BY <2>1 DEF EnOrden
    <2> HIDE DEF Menos, Hasta
    <2>3. QED
      BY <2>2
  <1> HIDE DEF P
  <1>12. P(EnOrden(f, k))
    BY <1>10, <1>11
  <1>13. QED
    BY <1>3, <1>12 DEF P

LEMMA EnOrdenCrece ==
    ASSUME NEW n \in Nat \ {0}, NEW f \in [1..n -> Int],
           NEW k \in 0..(n - 1), NEW j \in 0..(n - 1), k <= j
    PROVE  EnOrden(f, k) <= EnOrden(f, j)
  <1> DEFINE v == EnOrden(f, k)
             w == EnOrden(f, j)
  <1>1. v \in Int /\ Cardinality({i \in 1..n : f[i] < v}) <= k
    BY EnOrdenDef
  <1>2. w \in Int /\ Cardinality({i \in 1..n : f[i] <= w}) > j
    BY EnOrdenDef
  <1> HIDE DEF v, w
  <1>3. ASSUME w < v PROVE FALSE
    <2> DEFINE A == {i \in 1..n : f[i] <= w}
               B == {i \in 1..n : f[i] < v}
    <2>1. A \subseteq B /\ B \subseteq 1..n
      BY <1>1, <1>2, <1>3
    <2>2. Cardinality(B) <= k /\ Cardinality(A) > j
      BY <1>1, <1>2
    <2>3. IsFiniteSet(1..n)
      BY FS_Interval
    <2> HIDE DEF A, B
    <2>4. IsFiniteSet(B) /\ Cardinality(A) <= Cardinality(B) /\ Cardinality(B) \in Nat
          /\ Cardinality(A) \in Nat
      BY <2>1, <2>3, FS_Subset, FS_CardinalityType
    <2>5. QED
      BY <2>2, <2>4
  <1>4. v <= w
    BY <1>1, <1>2, <1>3
  <1>5. QED
    BY <1>4 DEF v, w

LEMMA EnOrdenDeja ==
    ASSUME NEW n \in Nat \ {0}, NEW f \in [1..n -> Int], NEW k \in 0..(n - 1)
    PROVE  /\ Cardinality({i \in 1..n : f[i] > EnOrden(f, k)}) \in Nat
           /\ Cardinality({i \in 1..n : f[i] > EnOrden(f, k)}) <= (n - 1) - k
  <1> DEFINE v == EnOrden(f, k)
             S == 1..n
             A == {i \in S : f[i] <= v}
             B == {i \in S : f[i] > v}
  <1>1. v \in Int /\ Cardinality(A) > k
    BY EnOrdenDef
  <1>2. IsFiniteSet(S) /\ Cardinality(S) = n
    BY FS_Interval
  <1> HIDE DEF v
  <1>3. B = S \ A /\ S \cap A = A
    BY <1>1
  <1> HIDE DEF A, B, S
  <1>4. Cardinality(B) = Cardinality(S) - Cardinality(S \cap A) /\ IsFiniteSet(B)
    BY <1>2, <1>3, FS_Difference
  <1>5. Cardinality(B) \in Nat /\ IsFiniteSet(A) /\ Cardinality(A) \in Nat
    <2>1. A \subseteq S
      BY <1>3
    <2>2. QED
      BY <1>2, <1>4, <2>1, FS_Subset, FS_CardinalityType
  <1>6. Cardinality(B) <= (n - 1) - k
    <2> DEFINE a == Cardinality(A)
               b == Cardinality(B)
    <2>1. a \in Nat /\ b \in Nat /\ a > k
      BY <1>1, <1>5
    <2>2. b = n - a
      BY <1>2, <1>3, <1>4
    <2> HIDE DEF a, b
    <2>3. b <= (n - 1) - k
      BY <2>1, <2>2
    <2>4. QED
      BY <2>3 DEF b
  <1>7. QED
    BY <1>5, <1>6 DEF B, S, v

\* The index of a percentile.
Indice(n, p) == Min({n - 1, RedondeoPar((n - 1) * p, 100)})

LEMMA IndiceDef ==
    ASSUME NEW n \in Nat \ {0}
    PROVE  /\ Indice(n, 50) \in 0..(n - 1) /\ Indice(n, 95) \in 0..(n - 1)
           /\ Indice(n, 50) <= Indice(n, 95)
           /\ 100 * Indice(n, 95) + 50 >= 95 * (n - 1)
  <1> DEFINE m == n - 1
             x == RedondeoPar(m * 50, 100)
             y == RedondeoPar(m * 95, 100)
  <1>1. m \in Nat
    OBVIOUS
  <1> HIDE DEF m
  <1>2. m * 50 \in Nat /\ m * 95 \in Nat /\ m * 50 <= m * 95
    BY <1>1
  <1>3. x \in Nat /\ y \in Nat /\ x <= y
    BY <1>2, RedondeoAcota, RedondeoCrece
  <1>4. 100 * y + 50 >= m * 95
    BY <1>2, RedondeoAcota
  <1> HIDE DEF x, y
  <1>5. /\ Min({m, x}) = IF m <= x THEN m ELSE x
        /\ Min({m, y}) = IF m <= y THEN m ELSE y
    <2>1. m \in Int /\ x \in Int /\ y \in Int
      BY <1>1, <1>3
    <2>2. Min({m, x}) = IF m <= x THEN m ELSE x
      BY <2>1, MaxDos
    <2>3. Min({m, y}) = IF m <= y THEN m ELSE y
      BY <2>1, MaxDos
    <2>4. QED
      BY <2>2, <2>3
  <1> DEFINE i == Min({m, x})
             j == Min({m, y})
  <1> HIDE DEF i, j
  <1>6. /\ i = IF m <= x THEN m ELSE x
        /\ j = IF m <= y THEN m ELSE y
    BY <1>5 DEF i, j
  <1>7. i \in 0..m /\ j \in 0..m /\ i <= j /\ 100 * j + 50 >= 95 * m
    BY <1>1, <1>3, <1>4, <1>6
  <1>8. Indice(n, 50) = i /\ Indice(n, 95) = j
    BY DEF Indice, i, j, x, y, m
  <1>9. QED
    BY <1>7, <1>8 DEF m
LEMMA DisjuntosSuman ==
    ASSUME NEW A, NEW B, IsFiniteSet(A), IsFiniteSet(B), A \cap B = {}
    PROVE  /\ IsFiniteSet(A \cup B)
           /\ Cardinality(A \cup B) = Cardinality(A) + Cardinality(B)
           /\ Cardinality(A) \in Nat /\ Cardinality(B) \in Nat
  <1>1. Cardinality(A) \in Nat /\ Cardinality(B) \in Nat
    BY FS_CardinalityType
  <1>2. IsFiniteSet(A \cup B)
        /\ Cardinality(A \cup B) = Cardinality(A) + Cardinality(B) - Cardinality(A \cap B)
    BY FS_Union
  <1>3. Cardinality(A \cap B) = 0
    BY FS_EmptySet
  <1>4. QED
    BY <1>1, <1>2, <1>3

LEMMA ResumenDef ==
    /\ Resumen.total = Len(muestras)
    /\ Resumen.porGrupo = [g \in 1..5 |-> Cardinality(EnGrupo(g))]
    /\ Resumen.p50 = Percentil([i \in DOMAIN muestras |-> muestras[i].ms], 50)
    /\ Resumen.p95 = Percentil([i \in DOMAIN muestras |-> muestras[i].ms], 95)
    /\ Resumen.maximo = LET ms == [i \in DOMAIN muestras |-> muestras[i].ms]
                        IN  IF ms = << >> THEN 0 ELSE Max(Range(ms))
    /\ Resumen.disponibilidad
          <=> 1000 * (Len(muestras) - Cardinality(Fallidas)) >= 995 * Len(muestras)
    /\ Resumen.errores <=> 100 * Cardinality(Fallidas) <= Len(muestras)
  <1>1. /\ Resumen.total = Len(muestras)
        /\ Resumen.porGrupo = [g \in 1..5 |-> Cardinality(EnGrupo(g))]
    BY DEF Resumen
  <1>2. /\ Resumen.p50 = Percentil([i \in DOMAIN muestras |-> muestras[i].ms], 50)
        /\ Resumen.p95 = Percentil([i \in DOMAIN muestras |-> muestras[i].ms], 95)
    BY DEF Resumen
  <1>3. Resumen.maximo = LET ms == [i \in DOMAIN muestras |-> muestras[i].ms]
                         IN  IF ms = << >> THEN 0 ELSE Max(Range(ms))
    BY DEF Resumen
  <1>4. Resumen.disponibilidad
          <=> 1000 * (Len(muestras) - Cardinality(Fallidas)) >= 995 * Len(muestras)
    BY DEF Resumen
  <1>5. Resumen.errores <=> 100 * Cardinality(Fallidas) <= Len(muestras)
    BY DEF Resumen
  <1>6. QED
    BY <1>1, <1>2, <1>3, <1>4, <1>5

\* The window has what the lifetime allows, and is the end of the history.
LEMMA VentanaFiel ==
    ASSUME InvMetricas
    PROVE  /\ Len(muestras) = Min({vida, MaxMuestras})
           /\ muestras = SubSeq(todas, vida - Len(muestras) + 1, vida)
  <1> DEFINE n == Len(muestras)
             d == (vida - n) + 1
  <1>1. /\ n \in Nat /\ vida \in Nat /\ vida = Len(todas)
        /\ muestras \in Seq(Muestra) /\ todas \in Seq(Muestra)
    BY TiposMetricas
  <1>2. /\ n = IF vida <= MaxMuestras THEN vida ELSE MaxMuestras
        /\ \A i \in 1..n : muestras[i] = todas[(vida - n) + i]
    BY DEF InvMetricas, Cola
  <1>3. MaxMuestras \in Nat /\ MaxMuestras \in Int /\ vida \in Int
    BY <1>1, ConstantesMetricas
  <1>4. n = Min({vida, MaxMuestras})
    BY <1>2, <1>3, MaxDos
  <1>5. muestras = SubSeq(todas, d, vida)
    <2> DEFINE t == SubSeq(todas, d, vida)
    <2>1. d \in 1..(vida + 1) /\ n <= vida
      <3>1. n <= vida
        BY <1>1, <1>2, <1>3
      <3> HIDE DEF n
      <3>2. QED
        BY <1>1, <3>1
    <2>2. t \in Seq(Muestra) /\ Len(t) = n /\ \A i \in 1..n : t[i] = todas[(vida - n) + i]
      <3>1. d \in Int /\ d >= 1 /\ d <= vida + 1
        BY <1>1, <2>1
      <3>2. (vida - d) + 1 = n /\ \A i \in 1..n : (d + i) - 1 = (vida - n) + i /\ (i + d) - 1 = (vida - n) + i
        BY <1>1
      <3>3. /\ t \in Seq(Muestra)
            /\ Len(t) = IF d <= vida THEN (vida - d) + 1 ELSE 0
            /\ \A i \in 1..((vida - d) + 1) : t[i] = todas[(d + i) - 1]
        <4>1. \A i \in d..vida : todas[i] \in Muestra
          BY <1>1, <3>1
        <4>2. d \in Int /\ vida \in Int
          BY <1>1, <3>1
        <4> HIDE DEF d
        <4>3. QED
          BY <4>1, <4>2, SubSeqProperties
      <3>4. Len(t) = n
        <4>1. d > vida => n = 0
          BY <1>1, <2>1
        <4>2. QED
          BY <1>1, <2>1, <3>2, <3>3, <4>1
      <3>5. QED
        BY <3>2, <3>3, <3>4
    <2> HIDE DEF t, d
    <2>3. t = muestras
      BY <1>1, <1>2, <2>2, SeqEqual
    <2>4. QED
      BY <2>3 DEF t
  <1>6. QED
    BY <1>4, <1>5

LEMMA GrupoDef ==
    ASSUME NEW m \in Muestra
    PROVE  Grupo100(m) \in 1..5 /\ (Grupo100(m) = 5 <=> Fallo(m))
  <1> DEFINE e == m.estado
             c == e \div 100
  <1>1. e \in Nat
    BY MuestraTipo
  <1> HIDE DEF e
  <1>2. c \in Nat /\ (c >= 5 <=> e >= 500)
    BY <1>1
  <1> HIDE DEF c
  <1>3. Min({5, c}) = IF 5 <= c THEN 5 ELSE c
    BY <1>2, MaxDos
  <1> DEFINE k == Min({5, c})
  <1>4. k \in Nat /\ k <= 5 /\ (k = 5 <=> c >= 5)
    BY <1>2, <1>3
  <1> HIDE DEF k
  <1>5. Max({1, k}) = IF 1 >= k THEN 1 ELSE k
    BY <1>4, MaxDos
  <1>6. Max({1, k}) \in 1..5 /\ (Max({1, k}) = 5 <=> k = 5)
    BY <1>4, <1>5
  <1>7. Grupo100(m) = Max({1, k})
    BY DEF Grupo100, k, c, e
  <1>8. QED
    BY <1>2, <1>4, <1>6, <1>7 DEF Fallo, e

\* The five groups are a partition of the window, and the fifth is the failures.
LEMMA GruposSuman ==
    ASSUME InvMetricas
    PROVE  /\ \A g \in 1..5 : IsFiniteSet(EnGrupo(g)) /\ Cardinality(EnGrupo(g)) \in Nat
           /\ Cardinality(EnGrupo(1)) + Cardinality(EnGrupo(2)) + Cardinality(EnGrupo(3))
                 + Cardinality(EnGrupo(4)) + Cardinality(EnGrupo(5)) = Len(muestras)
           /\ EnGrupo(5) = Fallidas
  <1> DEFINE n == Len(muestras)
             S == 1..n
  <1>1. n \in Nat /\ DOMAIN muestras = S /\ \A i \in S : muestras[i] \in Muestra
    BY TiposMetricas
  <1>2. IsFiniteSet(S) /\ Cardinality(S) = n
    BY <1>1, FS_Interval
  <1>3. \A i \in S : Grupo100(muestras[i]) \in 1..5
                     /\ (Grupo100(muestras[i]) = 5 <=> Fallo(muestras[i]))
    BY <1>1, GrupoDef
  <1>4. \A g : EnGrupo(g) = {i \in S : Grupo100(muestras[i]) = g}
    BY <1>1 DEF EnGrupo
  <1>5. EnGrupo(5) = Fallidas
    BY <1>1, <1>3 DEF EnGrupo, Fallidas
  <1> HIDE DEF n, S
  <1>6. /\ \A g : EnGrupo(g) \subseteq S
        /\ \A g, h : g # h => EnGrupo(g) \cap EnGrupo(h) = {}
    BY <1>4
  <1>7. S = (((EnGrupo(1) \cup EnGrupo(2)) \cup EnGrupo(3)) \cup EnGrupo(4)) \cup EnGrupo(5)
    <2>1. \A x \in 1..5 : x = 1 \/ x = 2 \/ x = 3 \/ x = 4 \/ x = 5
      OBVIOUS
    <2>2. QED
      BY <1>3, <1>4, <2>1
  <1>8. \A g : IsFiniteSet(EnGrupo(g)) /\ Cardinality(EnGrupo(g)) \in Nat
    BY <1>2, <1>6, FS_Subset, FS_CardinalityType
  <1> DEFINE A == EnGrupo(1)
             B == EnGrupo(2)
             C == EnGrupo(3)
             D == EnGrupo(4)
             E == EnGrupo(5)
  <1>9. /\ A \cap B = {} /\ (A \cup B) \cap C = {} /\ ((A \cup B) \cup C) \cap D = {}
        /\ (((A \cup B) \cup C) \cup D) \cap E = {}
    <2>1. /\ A \cap B = {} /\ A \cap C = {} /\ A \cap D = {} /\ A \cap E = {}
          /\ B \cap C = {} /\ B \cap D = {} /\ B \cap E = {}
          /\ C \cap D = {} /\ C \cap E = {} /\ D \cap E = {}
      BY <1>6
    <2> HIDE DEF A, B, C, D, E
    <2>2. QED
      BY <2>1
  <1>10. /\ IsFiniteSet(A) /\ IsFiniteSet(B) /\ IsFiniteSet(C) /\ IsFiniteSet(D) /\ IsFiniteSet(E)
         /\ Cardinality(A) \in Nat /\ Cardinality(B) \in Nat /\ Cardinality(C) \in Nat
         /\ Cardinality(D) \in Nat /\ Cardinality(E) \in Nat
    BY <1>8
  <1>11. S = (((A \cup B) \cup C) \cup D) \cup E
    BY <1>7
  <1> HIDE DEF A, B, C, D, E
  <1>12. IsFiniteSet(A \cup B) /\ Cardinality(A \cup B) = Cardinality(A) + Cardinality(B)
    BY <1>9, <1>10, DisjuntosSuman
  <1>13. /\ IsFiniteSet((A \cup B) \cup C)
         /\ Cardinality((A \cup B) \cup C) = Cardinality(A \cup B) + Cardinality(C)
    BY <1>9, <1>10, <1>12, DisjuntosSuman
  <1>14. /\ IsFiniteSet(((A \cup B) \cup C) \cup D)
         /\ Cardinality(((A \cup B) \cup C) \cup D) = Cardinality((A \cup B) \cup C) + Cardinality(D)
    BY <1>9, <1>10, <1>13, DisjuntosSuman
  <1>15. Cardinality((((A \cup B) \cup C) \cup D) \cup E)
           = Cardinality(((A \cup B) \cup C) \cup D) + Cardinality(E)
    BY <1>9, <1>10, <1>14, DisjuntosSuman
  <1>16. Cardinality(A) + Cardinality(B) + Cardinality(C) + Cardinality(D) + Cardinality(E) = n
    BY <1>2, <1>11, <1>12, <1>13, <1>14, <1>15
  <1>17. QED
    BY <1>5, <1>8, <1>16 DEF A, B, C, D, E, n

\* There is a failure in the window exactly when the last one is in it.
LEMMA FalloReciente ==
    ASSUME InvMetricas
    PROVE  Fallidas # {} <=> ultimoFallo > 0 /\ vida - ultimoFallo < Len(muestras)
  <1> DEFINE n == Len(muestras)
  <1>1. /\ n \in Nat /\ vida \in Nat /\ ultimoFallo \in Nat
        /\ DOMAIN muestras = 1..n
    BY TiposMetricas
  <1>2. /\ n <= vida
        /\ \A i \in 1..n : muestras[i] = todas[(vida - n) + i]
    BY <1>1, ConstantesMetricas DEF InvMetricas, Cola
  <1>3. /\ ultimoFallo <= vida
        /\ ultimoFallo > 0 => Fallo(todas[ultimoFallo])
        /\ \A i \in 1..vida : Fallo(todas[i]) => i <= ultimoFallo
    BY DEF InvMetricas, UltimoFallo
  <1>4. Fallidas = {i \in 1..n : Fallo(muestras[i])}
    BY <1>1 DEF Fallidas
  <1> HIDE DEF n
  <1>5. ASSUME NEW i \in 1..n, Fallo(muestras[i])
        PROVE  ultimoFallo > 0 /\ vida - ultimoFallo < n
    <2>1. (vida - n) + i \in 1..vida
      BY <1>1, <1>2
    <2>2. (vida - n) + i <= ultimoFallo
      BY <2>1, <1>2, <1>3, <1>5
    <2>3. QED
      BY <1>1, <1>2, <2>1, <2>2
  <1>6. ASSUME ultimoFallo > 0, vida - ultimoFallo < n
        PROVE  \E i \in 1..n : Fallo(muestras[i])
    <2> DEFINE i == ultimoFallo - (vida - n)
    <2>1. i \in 1..n /\ (vida - n) + i = ultimoFallo
      BY <1>1, <1>2, <1>3, <1>6
    <2> HIDE DEF i
    <2>2. Fallo(muestras[i])
      BY <2>1, <1>2, <1>3, <1>6
    <2>3. QED
      BY <2>1, <2>2
  <1>7. QED
    BY <1>4, <1>5, <1>6 DEF n

\* The percentiles are in order, below the maximum, and leave few above.
LEMMA PercentilesFieles ==
    ASSUME InvMetricas
    PROVE  /\ Resumen.p50 <= Resumen.p95 /\ Resumen.p95 <= Resumen.maximo
           /\ Resumen.total > 0 =>
                 100 * Cardinality({i \in DOMAIN muestras : muestras[i].ms > Resumen.p95})
                     <= 5 * (Resumen.total - 1) + 50
  <1> DEFINE n == Len(muestras)
             ms == [i \in DOMAIN muestras |-> muestras[i].ms]
  <1>1. n \in Nat /\ DOMAIN muestras = 1..n /\ \A i \in 1..n : muestras[i] \in Muestra
    BY TiposMetricas
  <1>2. ms \in [1..n -> Int] /\ DOMAIN ms = 1..n /\ \A i \in 1..n : ms[i] = muestras[i].ms
    <2>1. \A i \in 1..n : muestras[i].ms \in Int
      BY <1>1, MuestraTipo
    <2>2. QED
      BY <1>1, <2>1
  <1>3. /\ Resumen.p50 = Percentil(ms, 50) /\ Resumen.p95 = Percentil(ms, 95)
        /\ Resumen.maximo = IF ms = << >> THEN 0 ELSE Max(Range(ms))
        /\ Resumen.total = n
    BY ResumenDef
  <1> HIDE DEF n, ms
  <1>4. ms \in Seq(Int) /\ Len(ms) = n
    <2>1. ms \in Seq(Int)
      BY <1>1, <1>2
    <2>2. QED
      BY <1>1, <1>2, <2>1
  <1>5. \A p : Percentil(ms, p) = IF n = 0 THEN 0 ELSE EnOrden(ms, Indice(n, p))
    BY <1>4 DEF Percentil, Indice
  <1>6. {i \in DOMAIN muestras : muestras[i].ms > Resumen.p95} = {i \in 1..n : ms[i] > Resumen.p95}
    BY <1>1, <1>2
  <1>7. CASE n = 0
    <2>1. ms = << >>
      BY <1>4, <1>7
    <2>2. Resumen.p50 = 0 /\ Resumen.p95 = 0 /\ Resumen.maximo = 0
      BY <1>3, <1>5, <1>7, <2>1
    <2>3. QED
      BY <1>3, <1>7, <2>2
  <1>8. CASE n # 0
    <2> DEFINE k == Indice(n, 50)
               j == Indice(n, 95)
               v == EnOrden(ms, j)
               Tras == {i \in 1..n : ms[i] > v}
    <2>0. n \in Nat \ {0}
      BY <1>1, <1>8
    <2>1. k \in 0..(n - 1) /\ j \in 0..(n - 1) /\ k <= j /\ 100 * j + 50 >= 95 * (n - 1)
      BY <2>0, IndiceDef
    <2>2. Resumen.p50 = EnOrden(ms, k) /\ Resumen.p95 = v
      BY <1>3, <1>5, <1>8
    <2> HIDE DEF k, j
    <2>3. EnOrden(ms, k) <= v
      BY <2>0, <2>1, <1>2, EnOrdenCrece
    <2>4. v \in Range(ms) /\ v \in Int
      BY <2>0, <2>1, <1>2, EnOrdenDef
    <2>5. Cardinality(Tras) \in Nat /\ Cardinality(Tras) <= (n - 1) - j
      BY <2>0, <2>1, <1>2, EnOrdenDeja
    <2>6. v <= Resumen.maximo
      <3> HIDE DEF v
      <3>1. Range(ms) = {ms[x] : x \in 1..n} /\ Range(ms) \in SUBSET Int
        BY <1>2 DEF Range
      <3>2. IsFiniteSet(1..n)
        BY <1>1, FS_Interval
      <3>3. IsFiniteSet({ms[x] : x \in 1..n})
        BY <1>2, <3>2, ImagenFinita, Zenon
      <3>4. IsFiniteSet(Range(ms)) /\ Range(ms) # {}
        BY <2>4, <3>1, <3>3
      <3>5. Max(Range(ms)) >= v /\ Max(Range(ms)) \in Int
        BY <2>4, <3>1, <3>4, MaxDef
      <3>6. ms # << >>
        BY <1>4, <2>0
      <3>7. QED
        BY <1>3, <2>4, <3>5, <3>6
    <2>7. 100 * Cardinality(Tras) <= 5 * (n - 1) + 50
      <3> DEFINE c == Cardinality(Tras)
      <3>1. c \in Nat /\ c <= (n - 1) - j
        BY <2>5
      <3> HIDE DEF c
      <3>2. 100 * c <= 5 * (n - 1) + 50
        BY <2>0, <2>1, <3>1
      <3>3. QED
        BY <3>2 DEF c
    <2>8. {i \in DOMAIN muestras : muestras[i].ms > Resumen.p95} = Tras
      BY <1>6, <2>2
    <2>9. Resumen.p50 <= Resumen.p95
      BY <2>2, <2>3
    <2>10. Resumen.p95 <= Resumen.maximo
      BY <2>2, <2>6
    <2>11. QED
      BY <1>3, <2>7, <2>8, <2>9, <2>10
  <1>9. QED
    BY <1>7, <1>8

\* Who misses the objective of errors misses that of availability.
LEMMA ObjetivosFieles ==
    ASSUME InvMetricas
    PROVE  /\ Resumen.disponibilidad => Resumen.errores
           /\ Saludable => Cardinality(Fallidas) = 0 \/ Len(muestras) >= 200
  <1> DEFINE n == Len(muestras)
             f == Cardinality(Fallidas)
  <1>1. n \in Nat
    BY TiposMetricas
  <1>2. f \in Nat
    BY GruposSuman
  <1>3. /\ Resumen.disponibilidad <=> 1000 * (n - f) >= 995 * n
        /\ Resumen.errores <=> 100 * f <= n
    BY ResumenDef
  <1> HIDE DEF n, f
  <1>4. 1000 * (n - f) >= 995 * n => 200 * f <= n
    BY <1>1, <1>2
  <1>5. 200 * f <= n => 100 * f <= n /\ (f = 0 \/ n >= 200)
    BY <1>1, <1>2
  <1>6. Saludable => Resumen.disponibilidad
    BY DEF Saludable
  <1>7. QED
    BY <1>3, <1>4, <1>5, <1>6 DEF n, f

LEMMA MetricasDelInvariante == InvMetricas => MetricasFieles
  <1> SUFFICES ASSUME InvMetricas PROVE MetricasFieles
    OBVIOUS
  <1>1. activas = Cardinality(enCurso) + perdidas /\ vida = Len(todas)
    BY TiposMetricas
  <1>2. Resumen.total = Len(muestras)
    BY ResumenDef
  <1>3. \A g \in 1..5 : Resumen.porGrupo[g] = Cardinality(EnGrupo(g))
    BY ResumenDef
  <1>4. Resumen.total = Min({vida, MaxMuestras})
        /\ muestras = SubSeq(todas, vida - Resumen.total + 1, vida)
    BY <1>2, VentanaFiel
  <1>5. Resumen.porGrupo[1] + Resumen.porGrupo[2] + Resumen.porGrupo[3]
           + Resumen.porGrupo[4] + Resumen.porGrupo[5] = Resumen.total
    <2>1. 1 \in 1..5 /\ 2 \in 1..5 /\ 3 \in 1..5 /\ 4 \in 1..5 /\ 5 \in 1..5
      OBVIOUS
    <2>2. QED
      BY <1>2, <1>3, <2>1, GruposSuman
  <1>6. Resumen.porGrupo[5] = Cardinality(Fallidas) /\ IsFiniteSet(Fallidas)
        /\ Cardinality(Fallidas) \in Nat
    BY <1>3, GruposSuman
  <1>7. Resumen.porGrupo[5] > 0 <=> ultimoFallo > 0 /\ vida - ultimoFallo < Resumen.total
    <2>1. Cardinality(Fallidas) > 0 <=> Fallidas # {}
      BY <1>6, FS_EmptySet
    <2>2. QED
      BY <1>2, <1>6, <2>1, FalloReciente
  <1>8. Saludable => Resumen.porGrupo[5] = 0 \/ Resumen.total >= 200
    BY <1>2, <1>6, ObjetivosFieles
  <1>9. Resumen.disponibilidad => Resumen.errores
    BY ObjetivosFieles
  <1>10. QED
    BY <1>1, <1>4, <1>5, <1>7, <1>8, <1>9, PercentilesFieles DEF MetricasFieles

\* The summary tells the truth of the last requests: the window, its groups, its last
\* failure, the order of its percentiles and what its objectives imply.
THEOREM LasMetricasSonFieles == SpecMetricas => []MetricasFieles
  BY MetricasSiempre, MetricasDelInvariante, PTL
=============================================================================

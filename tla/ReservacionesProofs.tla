------------------------- MODULE ReservacionesProofs --------------------------
(***************************************************************************)
(* Theorems of Reservaciones, for any sets of reservations, requests,      *)
(* units, days, prices and amounts.  The argument: Coherencia is           *)
(* inductive; what a request in flight knows and the agreement of states   *)
(* with events then give each property one step at a time.                 *)
(***************************************************************************)
EXTENDS Reservaciones, Sumas, FiniteSetTheorems, TLAPS

\* The merge of columns yields a row.
LEMMA FusionaTipo ==
    ASSUME NEW a \in Fila, NEW l \in Fila, NEW n \in Fila
    PROVE  Fusiona(a, l, n) \in Fila
  BY DEF Fusiona, Escribe, Fila

\* A request whose snapshot is still current writes the state and the money it
\* prepared.
LEMMA FusionaVigente ==
    ASSUME NEW a \in Fila, NEW n \in Fila
    PROVE  /\ Fusiona(a, a, n).estado = n.estado
           /\ Fusiona(a, a, n).pagado = n.pagado
           /\ Fusiona(a, a, n).total = n.total
  BY DEF Fusiona, Escribe, Fila

\* A request that did not touch a column leaves it as it finds it.
LEMMA FusionaIntacta ==
    ASSUME NEW a \in Fila, NEW l \in Fila, NEW n \in Fila
    PROVE  /\ l.estado = n.estado => Fusiona(a, l, n).estado = a.estado
           /\ l.pagado = n.pagado => Fusiona(a, l, n).pagado = a.pagado
           /\ l.estado # n.estado => Fusiona(a, l, n).estado = n.estado
  BY DEF Fusiona, Escribe, Fila

LEMMA FilasConocidas ==
    /\ Ausente \in Fila
    /\ Libre \in Peticion
  BY ConstantesDeReservas DEF Ausente, Fila, Libre, Peticion, Hitos, Estados, Terminales, Activos, Bloqueantes

\* Payments only touch the money and, at most, confirm.
LEMMA ConPagoTipo ==
    ASSUME NEW f \in Fila, NEW monto \in Int
    PROVE  /\ ConPago(f, monto) \in Fila
           /\ ConPago(f, monto).pagado = f.pagado + monto
           /\ ConPago(f, monto).total = f.total
           /\ ConPago(f, monto).estado # f.estado
              => f.estado = "pendiente" /\ ConPago(f, monto).estado = "confirmada"
  <1> DEFINE e == IF f.estado = "pendiente" /\ f.pagado + monto >= f.total
                 THEN "confirmada" ELSE f.estado
             g == [f EXCEPT !.pagado = f.pagado + monto, !.estado = e]
  <1>1. e \in Estados \cup {"ausente"} /\ f.pagado + monto \in Int
    BY DEF Fila, Estados, Activos, Terminales
  <1> HIDE DEF e
  <1>2. g \in Fila /\ g.pagado = f.pagado + monto /\ g.total = f.total /\ g.estado = e
    BY <1>1 DEF Fila
  <1>3. ConPago(f, monto) = g
    BY DEF ConPago, e
  <1>4. e # f.estado => f.estado = "pendiente" /\ e = "confirmada"
    BY DEF e
  <1>5. QED
    BY <1>2, <1>3, <1>4

-------------------------------------------------------------------------------
\* The table of a request after Prepara has its type.
LEMMA PreparaTipo ==
    ASSUME TypeOK, NEW p \in Solicitudes,
           NEW op \in {"crear", "estado", "editar"} \cup Bloqueantes,
           NEW r \in Reservas \cup {SinReserva}, NEW n \in Fila,
           NEW h \in SUBSET Hitos, NEW m \in Int,
           Prepara(p, op, r, n, h, m)
    PROVE  sol' \in [Solicitudes -> Peticion]
  <1>1. (IF r = SinReserva THEN Ausente ELSE reservas[r]) \in Fila
    BY FilasConocidas DEF TypeOK
  <1>2. [op |-> op, id |-> r, leida |-> IF r = SinReserva THEN Ausente ELSE reservas[r],
         nueva |-> n, hitos |-> h, monto |-> m] \in Peticion
    BY <1>1 DEF Peticion
  <1>3. QED
    BY <1>2 DEF Prepara, TypeOK

LEMMA CandadoTipo ==
    ASSUME TypeOK, NEW p \in Solicitudes, NEW r \in Reservas
    PROVE  /\ TomaCandado(p, r) => candado' \in [Reservas -> Solicitudes \cup {Nadie}]
           /\ Suelta(p) => candado' \in [Reservas -> Solicitudes \cup {Nadie}]
  BY DEF TypeOK, TomaCandado, Suelta

\* A step that only prepares a request and perhaps takes a lock keeps the types.
LEMMA PreparaTypeOK ==
    ASSUME TypeOK, NEW p \in Solicitudes,
           NEW op \in {"crear", "estado", "editar"} \cup Bloqueantes,
           NEW r \in Reservas \cup {SinReserva}, NEW n \in Fila,
           NEW h \in SUBSET Hitos, NEW m \in Int,
           Prepara(p, op, r, n, h, m),
           candado' \in [Reservas -> Solicitudes \cup {Nadie}]
    PROVE  TypeOK'
  <1>1. sol' \in [Solicitudes -> Peticion]
    BY PreparaTipo
  <1>2. QED
    BY <1>1 DEF TypeOK, Prepara

LEMMA CrearTipo ==
    ASSUME TypeOK, NEW p \in Solicitudes, Crear(p)
    PROVE  TypeOK'
  <1>1. PICK tipo \in Tipos, unidad \in Unidades \cup {SinUnidad},
             llegada \in Dias, salida \in Dias, total \in Totales :
          /\ Prepara(p, "crear", SinReserva,
                     [tipo |-> tipo, estado |-> "pendiente", unidad |-> unidad,
                      llegada |-> llegada, salida |-> salida, total |-> total,
                      pagado |-> 0],
                     {"reservation.created"}, 0)
          /\ UNCHANGED candado
    BY DEF Crear
  <1>2. [tipo |-> tipo, estado |-> "pendiente", unidad |-> unidad,
         llegada |-> llegada, salida |-> salida, total |-> total, pagado |-> 0] \in Fila
    BY ConstantesDeReservas DEF Fila, Estados, Activos
  <1>3. {"reservation.created"} \in SUBSET Hitos
    BY DEF Hitos
  <1>4. candado' \in [Reservas -> Solicitudes \cup {Nadie}]
    BY <1>1 DEF TypeOK
  <1>5. QED
    BY <1>1, <1>2, <1>3, <1>4, PreparaTypeOK

LEMMA CambiarEstadoTipo ==
    ASSUME TypeOK, NEW p \in Solicitudes, CambiarEstado(p)
    PROVE  TypeOK'
  <1>1. PICK r \in Reservas : \E nuevo \in TransicionesManuales[reservas[r].estado] :
            /\ Prepara(p, "estado", r, [reservas[r] EXCEPT !.estado = nuevo],
                       IF nuevo = "confirmada" THEN {"reservation.confirmed"}
                                               ELSE {"reservation.cancelled"}, 0)
            /\ UNCHANGED candado
    BY DEF CambiarEstado
  <1>2. PICK nuevo \in TransicionesManuales[reservas[r].estado] :
            /\ Prepara(p, "estado", r, [reservas[r] EXCEPT !.estado = nuevo],
                       IF nuevo = "confirmada" THEN {"reservation.confirmed"}
                                               ELSE {"reservation.cancelled"}, 0)
            /\ UNCHANGED candado
    BY <1>1
  <1>3. reservas[r] \in Fila
    BY DEF TypeOK
  <1>4. nuevo \in {"confirmada", "cancelada"}
    BY <1>3 DEF TransicionesManuales, Fila, Estados, Activos, Terminales
  <1>5. [reservas[r] EXCEPT !.estado = nuevo] \in Fila
    BY <1>3, <1>4 DEF Fila, Estados, Activos, Terminales
  <1>6. (IF nuevo = "confirmada" THEN {"reservation.confirmed"}
                                 ELSE {"reservation.cancelled"}) \in SUBSET Hitos
    BY DEF Hitos
  <1>7. candado' \in [Reservas -> Solicitudes \cup {Nadie}]
    BY <1>2 DEF TypeOK
  <1>8. QED
    BY <1>2, <1>5, <1>6, <1>7, PreparaTypeOK

LEMMA ActualizarTipo ==
    ASSUME TypeOK, NEW p \in Solicitudes, Actualizar(p)
    PROVE  TypeOK'
  <1>1. PICK r \in Reservas, unidad \in Unidades \cup {SinUnidad},
             llegada \in Dias, salida \in Dias, total \in Totales :
          /\ Prepara(p, "editar", r,
                     [reservas[r] EXCEPT !.unidad = unidad, !.llegada = llegada,
                                         !.salida = salida, !.total = total], {}, 0)
          /\ UNCHANGED candado
    BY DEF Actualizar
  <1>2. [reservas[r] EXCEPT !.unidad = unidad, !.llegada = llegada,
                            !.salida = salida, !.total = total] \in Fila
    BY ConstantesDeReservas DEF TypeOK, Fila
  <1>3. candado' \in [Reservas -> Solicitudes \cup {Nadie}]
    BY <1>1 DEF TypeOK
  <1>4. QED
    BY <1>1, <1>2, <1>3, PreparaTypeOK

LEMMA RegistrarPagoTipo ==
    ASSUME TypeOK, NEW p \in Solicitudes, RegistrarPago(p)
    PROVE  TypeOK'
  <1>1. PICK r \in Reservas, importe \in Importes, tipo \in {"abono", "reembolso"} :
          LET monto == IF tipo = "reembolso" THEN -importe ELSE importe
              n == ConPago(reservas[r], monto)
          IN  /\ TomaCandado(p, r)
              /\ Prepara(p, "pago", r, n,
                         IF n.estado # reservas[r].estado
                         THEN {"reservation.confirmed"} ELSE {}, monto)
    BY DEF RegistrarPago
  <1> DEFINE monto == IF tipo = "reembolso" THEN -importe ELSE importe
             n == ConPago(reservas[r], monto)
             h == IF n.estado # reservas[r].estado THEN {"reservation.confirmed"} ELSE {}
  <1>2. monto \in Int /\ reservas[r] \in Fila
    BY ConstantesDeReservas DEF TypeOK
  <1>3. TomaCandado(p, r) /\ Prepara(p, "pago", r, n, h, monto)
    BY <1>1
  <1> HIDE DEF monto
  <1>4. n \in Fila
    BY <1>2, ConPagoTipo
  <1>5. h \in SUBSET Hitos
    BY DEF Hitos
  <1>6. candado' \in [Reservas -> Solicitudes \cup {Nadie}]
    BY <1>3, CandadoTipo
  <1> HIDE DEF n, h
  <1>7. QED
    BY <1>2, <1>3, <1>4, <1>5, <1>6, PreparaTypeOK DEF Bloqueantes

LEMMA VisitaTipo ==
    ASSUME TypeOK, NEW p \in Solicitudes, CheckIn(p) \/ CheckOut(p)
    PROVE  TypeOK'
  <1>1. CASE CheckIn(p)
    <2>1. PICK r \in Reservas :
            /\ TomaCandado(p, r)
            /\ Prepara(p, "check_in", r, [reservas[r] EXCEPT !.estado = "en_curso"], {}, 0)
      BY <1>1 DEF CheckIn
    <2>2. [reservas[r] EXCEPT !.estado = "en_curso"] \in Fila
      BY DEF TypeOK, Fila, Estados, Activos
    <2>3. candado' \in [Reservas -> Solicitudes \cup {Nadie}]
      BY <2>1, CandadoTipo
    <2>4. QED
      BY <2>1, <2>2, <2>3, PreparaTypeOK DEF Bloqueantes
  <1>2. CASE CheckOut(p)
    <2>1. PICK r \in Reservas :
            /\ TomaCandado(p, r)
            /\ Prepara(p, "check_out", r, [reservas[r] EXCEPT !.estado = "completada"],
                       {"visit.completed"}, 0)
      BY <1>2 DEF CheckOut
    <2>2. [reservas[r] EXCEPT !.estado = "completada"] \in Fila
      BY DEF TypeOK, Fila, Estados, Terminales
    <2>3. candado' \in [Reservas -> Solicitudes \cup {Nadie}]
      BY <2>1, CandadoTipo
    <2>4. {"visit.completed"} \in SUBSET Hitos
      BY DEF Hitos
    <2>5. QED
      BY <2>1, <2>2, <2>3, <2>4, PreparaTypeOK DEF Bloqueantes
  <1>3. QED
    BY <1>1, <1>2

LEMMA InsertarTipo ==
    ASSUME TypeOK, NEW p \in Solicitudes, Insertar(p)
    PROVE  TypeOK'
  <1>1. PICK r \in Reservas :
          /\ reservas' = [reservas EXCEPT ![r] = sol[p].nueva]
          /\ outbox' = outbox \cup (sol[p].hitos \X {r})
          /\ sol' = [sol EXCEPT ![p] = Libre]
          /\ UNCHANGED <<pagos, candado>>
    BY DEF Insertar
  <1>2. sol[p].nueva \in Fila /\ sol[p].hitos \in SUBSET Hitos
    BY DEF TypeOK, Peticion
  <1>3. reservas' \in [Reservas -> Fila]
    BY <1>1, <1>2 DEF TypeOK
  <1>4. outbox' \subseteq Claves
    BY <1>1, <1>2 DEF TypeOK, Claves
  <1>5. sol' \in [Solicitudes -> Peticion]
    BY <1>1, FilasConocidas DEF TypeOK
  <1>6. QED
    BY <1>1, <1>3, <1>4, <1>5 DEF TypeOK

\* A request that is going to update knows which row.
LEMMA ConfirmarTipo ==
    ASSUME TypeOK, PeticionCoherente, NEW p \in Solicitudes, Confirmar(p)
    PROVE  TypeOK'
  <1> DEFINE s == sol[p]
             r == s.id
             f == Fusiona(reservas[r], s.leida, s.nueva)
             n == Cardinality(pagos) + 1
  <1>1. r \in Reservas
    BY DEF Confirmar, PeticionCoherente
  <1>2. /\ s \in Peticion
        /\ s.leida \in Fila /\ s.nueva \in Fila /\ s.hitos \in SUBSET Hitos
        /\ s.monto \in Int
    BY DEF TypeOK, Peticion
  <1>3. f \in Fila
    BY <1>1, <1>2, FusionaTipo DEF TypeOK
  <1>4. reservas' \in [Reservas -> Fila]
    BY <1>3 DEF Confirmar, TypeOK
  <1>5. n \in Nat \ {0}
    BY FS_CardinalityType DEF TypeOK
  <1>6. s.op = "pago" => n \in 1..MaxPagos
    BY <1>5, ConstantesDeReservas DEF Confirmar
  <1>7. pagos' \subseteq [id : 1..MaxPagos, reserva : Reservas, monto : Int]
        /\ IsFiniteSet(pagos')
    <2>1. CASE s.op = "pago"
      <3>1. pagos' = pagos \cup {[id |-> n, reserva |-> r, monto |-> s.monto]}
        BY <2>1 DEF Confirmar
      <3>2. IsFiniteSet(pagos')
        BY <3>1, FS_AddElement DEF TypeOK
      <3>3. [id |-> n, reserva |-> r, monto |-> s.monto]
              \in [id : 1..MaxPagos, reserva : Reservas, monto : Int]
        BY <2>1, <1>1, <1>2, <1>6
      <3>4. QED
        BY <3>1, <3>2, <3>3 DEF TypeOK
    <2>2. CASE s.op # "pago"
      <3>1. pagos' = pagos
        BY <2>2 DEF Confirmar
      <3>2. QED
        BY <3>1 DEF TypeOK
    <2>3. QED
      BY <2>1, <2>2
  <1>8. outbox' \subseteq Claves
    <2>1. outbox' = outbox \cup (s.hitos \X {r})
                          \cup (IF s.op = "pago" THEN {<<"payment.recorded", n>>} ELSE {})
      BY DEF Confirmar
    <2>2. QED
      BY <2>1, <1>1, <1>2, <1>6 DEF TypeOK, Claves
  <1>9. candado' \in [Reservas -> Solicitudes \cup {Nadie}]
    BY <1>1, CandadoTipo DEF Confirmar
  <1>10. sol' \in [Solicitudes -> Peticion]
    BY FilasConocidas DEF Confirmar, TypeOK
  <1>11. QED
    BY <1>4, <1>7, <1>8, <1>9, <1>10 DEF TypeOK

LEMMA RevertirTipo ==
    ASSUME TypeOK, NEW p \in Solicitudes, Revertir(p)
    PROVE  TypeOK'
  BY FilasConocidas DEF TypeOK, Revertir, Suelta

-------------------------------------------------------------------------------
\* The requests that have not finished are the ones in Peticion; every step
\* changes the record of one request only.
LEMMA PreparaVigente ==
    ASSUME TypeOK, LecturaVigente, NEW p \in Solicitudes, NEW op,
           NEW r \in Reservas \cup {SinReserva}, NEW n, NEW h, NEW m,
           Prepara(p, op, r, n, h, m),
           \/ op \notin Bloqueantes /\ UNCHANGED candado
           \/ r \in Reservas /\ TomaCandado(p, r)
    PROVE  LecturaVigente'
  <1> SUFFICES ASSUME NEW q \in Solicitudes, sol'[q].op \in Bloqueantes
               PROVE  /\ sol'[q].id \in Reservas
                      /\ candado'[sol'[q].id] = q
                      /\ sol'[q].leida = reservas'[sol'[q].id]
    BY DEF LecturaVigente
  <1>1. reservas' = reservas
    BY DEF Prepara
  <1>2. CASE q = p
    <2>1. sol'[p].op = op /\ sol'[p].id = r
          /\ sol'[p].leida = IF r = SinReserva THEN Ausente ELSE reservas[r]
      BY DEF Prepara, TypeOK
    <2>2. r \in Reservas /\ TomaCandado(p, r)
      BY <1>2, <2>1
    <2>3. r # SinReserva
      BY <2>2, ConstantesDeReservas
    <2>4. QED
      BY <1>1, <1>2, <2>1, <2>2, <2>3 DEF TomaCandado, TypeOK
  <1>3. CASE q # p
    <2>1. sol'[q] = sol[q]
      BY <1>3 DEF Prepara, TypeOK
    <2>2. /\ sol[q].id \in Reservas
          /\ candado[sol[q].id] = q
          /\ sol[q].leida = reservas[sol[q].id]
      BY <2>1 DEF LecturaVigente
    <2>3. candado'[sol[q].id] = q
      <3>1. CASE UNCHANGED candado
        BY <3>1, <2>2
      <3>2. CASE r \in Reservas /\ TomaCandado(p, r)
        <4>1. r # sol[q].id
          BY <3>2, <2>2, ConstantesDeReservas DEF TomaCandado
        <4>2. QED
          BY <3>2, <4>1, <2>2 DEF TomaCandado, TypeOK
      <3>3. QED
        BY <3>1, <3>2
    <2>4. QED
      BY <1>1, <2>1, <2>2, <2>3
  <1>4. QED
    BY <1>2, <1>3

\* Every handler prepares exactly one request, and takes the lock of its row
\* if it is one of the three that must.
LEMMA Manejadores ==
    ASSUME TypeOK, NEW p \in Solicitudes,
           \/ Crear(p) \/ CambiarEstado(p) \/ Actualizar(p)
           \/ RegistrarPago(p) \/ CheckIn(p) \/ CheckOut(p)
    PROVE  \E op \in {"crear", "estado", "editar"} \cup Bloqueantes,
              r \in Reservas \cup {SinReserva} : \E n, h, m :
              /\ Prepara(p, op, r, n, h, m)
              /\ \/ op \notin Bloqueantes /\ UNCHANGED candado
                 \/ r \in Reservas /\ TomaCandado(p, r)
  <1>1. CASE Crear(p)
    BY <1>1 DEF Crear, Bloqueantes
  <1>2. CASE CambiarEstado(p)
    <2>1. PICK r \in Reservas : \E nuevo \in TransicionesManuales[reservas[r].estado] :
            /\ Prepara(p, "estado", r, [reservas[r] EXCEPT !.estado = nuevo],
                       IF nuevo = "confirmada" THEN {"reservation.confirmed"}
                                               ELSE {"reservation.cancelled"}, 0)
            /\ UNCHANGED candado
      BY <1>2 DEF CambiarEstado
    <2>2. \E n, h : Prepara(p, "estado", r, n, h, 0) /\ UNCHANGED candado
      BY <2>1
    <2>3. QED
      BY <2>2 DEF Bloqueantes
  <1>3. CASE Actualizar(p)
    <2>1. PICK r \in Reservas, unidad \in Unidades \cup {SinUnidad},
               llegada \in Dias, salida \in Dias, total \in Totales :
            /\ Prepara(p, "editar", r,
                       [reservas[r] EXCEPT !.unidad = unidad, !.llegada = llegada,
                                           !.salida = salida, !.total = total], {}, 0)
            /\ UNCHANGED candado
      BY <1>3 DEF Actualizar
    <2>2. \E n : Prepara(p, "editar", r, n, {}, 0) /\ UNCHANGED candado
      BY <2>1
    <2>3. QED
      BY <2>2 DEF Bloqueantes
  <1>4. CASE RegistrarPago(p)
    BY <1>4 DEF RegistrarPago, Bloqueantes
  <1>5. CASE CheckIn(p)
    <2>1. PICK r \in Reservas :
            /\ TomaCandado(p, r)
            /\ Prepara(p, "check_in", r, [reservas[r] EXCEPT !.estado = "en_curso"], {}, 0)
      BY <1>5 DEF CheckIn
    <2> DEFINE n == [reservas[r] EXCEPT !.estado = "en_curso"]
    <2>2. TomaCandado(p, r) /\ Prepara(p, "check_in", r, n, {}, 0)
      BY <2>1
    <2> HIDE DEF n
    <2>3. QED
      BY <2>2 DEF Bloqueantes
  <1>6. CASE CheckOut(p)
    <2>1. PICK r \in Reservas :
            /\ TomaCandado(p, r)
            /\ Prepara(p, "check_out", r, [reservas[r] EXCEPT !.estado = "completada"],
                       {"visit.completed"}, 0)
      BY <1>6 DEF CheckOut
    <2> DEFINE n == [reservas[r] EXCEPT !.estado = "completada"]
    <2>2. TomaCandado(p, r) /\ Prepara(p, "check_out", r, n, {"visit.completed"}, 0)
      BY <2>1
    <2> HIDE DEF n
    <2>3. QED
      BY <2>2 DEF Bloqueantes
  <1>7. QED
    BY <1>1, <1>2, <1>3, <1>4, <1>5, <1>6

\* A commit or a rollback of p leaves the rows locked by others alone.
LEMMA CierreVigente ==
    ASSUME TypeOK, LecturaVigente, PeticionCoherente, NEW p \in Solicitudes,
           Insertar(p) \/ Confirmar(p) \/ Revertir(p)
    PROVE  LecturaVigente'
  <1> SUFFICES ASSUME NEW q \in Solicitudes, sol'[q].op \in Bloqueantes
               PROVE  /\ sol'[q].id \in Reservas
                      /\ candado'[sol'[q].id] = q
                      /\ sol'[q].leida = reservas'[sol'[q].id]
    BY DEF LecturaVigente
  <1>1. sol' = [sol EXCEPT ![p] = Libre]
    BY DEF Insertar, Confirmar, Revertir
  <1>2. q # p
    BY <1>1 DEF TypeOK, Libre, Bloqueantes
  <1>3. sol'[q] = sol[q]
    BY <1>1, <1>2 DEF TypeOK
  <1>4. /\ sol[q].id \in Reservas
        /\ candado[sol[q].id] = q
        /\ sol[q].leida = reservas[sol[q].id]
    BY <1>3 DEF LecturaVigente
  <1>5. candado'[sol[q].id] = q
    <2>1. CASE UNCHANGED candado
      BY <2>1, <1>4
    <2>2. CASE Suelta(p)
      BY <2>2, <1>2, <1>4 DEF Suelta, TypeOK
    <2>3. QED
      BY <2>1, <2>2 DEF Insertar, Confirmar, Revertir
  <1>6. reservas'[sol[q].id] = reservas[sol[q].id]
    <2>1. CASE Insertar(p)
      <3>1. PICK r \in Reservas : ~Existe(r) /\ reservas' = [reservas EXCEPT ![r] = sol[p].nueva]
        BY <2>1 DEF Insertar
      <3>2. Existe(sol[q].id)
        BY <1>3 DEF PeticionCoherente, Bloqueantes
      <3>3. r # sol[q].id
        BY <3>1, <3>2
      <3>4. QED
        BY <3>1, <3>3, <1>4 DEF TypeOK
    <2>2. CASE Confirmar(p)
      <3>1. candado[sol[p].id] \in {Nadie, p}
        BY <2>2 DEF Confirmar
      <3>2. sol[p].id # sol[q].id
        BY <3>1, <1>2, <1>4, ConstantesDeReservas
      <3>3. reservas' = [reservas EXCEPT ![sol[p].id] =
                            Fusiona(reservas[sol[p].id], sol[p].leida, sol[p].nueva)]
        BY <2>2 DEF Confirmar
      <3>4. QED
        BY <3>2, <3>3, <1>4 DEF TypeOK
    <2>3. CASE Revertir(p)
      BY <2>3 DEF Revertir
    <2>4. QED
      BY <2>1, <2>2, <2>3
  <1>7. QED
    BY <1>3, <1>4, <1>5, <1>6

-------------------------------------------------------------------------------
\* The record a handler leaves in hand.
Lleva(op, r, n, h, m) ==
    [op |-> op, id |-> r, leida |-> IF r = SinReserva THEN Ausente ELSE reservas[r],
     nueva |-> n, hitos |-> h, monto |-> m]

LEMMA PreparaCoherente ==
    ASSUME TypeOK, PeticionCoherente, NEW p \in Solicitudes, NEW op,
           NEW r, NEW n, NEW h, NEW m,
           Prepara(p, op, r, n, h, m),
           op # "crear" => r \in Reservas /\ Existe(r),
           Coherente(Lleva(op, r, n, h, m))
    PROVE  PeticionCoherente'
  <1>1. reservas' = reservas /\ sol' = [sol EXCEPT ![p] = Lleva(op, r, n, h, m)]
    BY DEF Prepara, Lleva
  <1> SUFFICES ASSUME NEW q \in Solicitudes
               PROVE  /\ Coherente(sol'[q])
                      /\ sol'[q].op \notin {"libre", "crear"}
                         => sol'[q].id \in Reservas /\ reservas'[sol'[q].id].estado # "ausente"
    <2>1. ASSUME NEW q \in Solicitudes
          PROVE  Coherente(sol[q])' <=> Coherente(sol'[q])
      BY DEF Coherente
    <2>2. QED
      BY <2>1 DEF PeticionCoherente, Existe
  <1>2. CASE q = p
    <2>1. sol'[q] = Lleva(op, r, n, h, m)
      BY <1>1, <1>2 DEF TypeOK
    <2>2. sol'[q].op = op /\ sol'[q].id = r
      BY <2>1 DEF Lleva
    <2>3. QED
      BY <1>1, <2>1, <2>2 DEF Existe
  <1>3. CASE q # p
    <2>1. sol'[q] = sol[q]
      BY <1>1, <1>3 DEF TypeOK
    <2>2. QED
      BY <1>1, <2>1 DEF PeticionCoherente, Existe
  <1>4. QED
    BY <1>2, <1>3

LEMMA CrearCoherente ==
    ASSUME TypeOK, PeticionCoherente, NEW p \in Solicitudes, Crear(p)
    PROVE  PeticionCoherente'
  <1>1. PICK tipo \in Tipos, unidad \in Unidades \cup {SinUnidad},
             llegada \in Dias, salida \in Dias, total \in Totales :
          Prepara(p, "crear", SinReserva,
                  [tipo |-> tipo, estado |-> "pendiente", unidad |-> unidad,
                   llegada |-> llegada, salida |-> salida, total |-> total,
                   pagado |-> 0],
                  {"reservation.created"}, 0)
    BY DEF Crear
  <1> DEFINE n == [tipo |-> tipo, estado |-> "pendiente", unidad |-> unidad,
                   llegada |-> llegada, salida |-> salida, total |-> total,
                   pagado |-> 0]
  <1>2. n.estado = "pendiente" /\ n.pagado = 0
    OBVIOUS
  <1> HIDE DEF n
  <1>3. Coherente(Lleva("crear", SinReserva, n, {"reservation.created"}, 0))
    BY <1>2 DEF Coherente, Lleva
  <1>4. QED
    BY <1>1, <1>3, PreparaCoherente DEF n

LEMMA CambiarEstadoCoherente ==
    ASSUME TypeOK, PeticionCoherente, NEW p \in Solicitudes, CambiarEstado(p)
    PROVE  PeticionCoherente'
  <1>1. PICK r \in Reservas : \E nuevo \in TransicionesManuales[reservas[r].estado] :
            Prepara(p, "estado", r, [reservas[r] EXCEPT !.estado = nuevo],
                    IF nuevo = "confirmada" THEN {"reservation.confirmed"}
                                            ELSE {"reservation.cancelled"}, 0)
    BY DEF CambiarEstado
  <1>2. PICK nuevo \in TransicionesManuales[reservas[r].estado] :
            Prepara(p, "estado", r, [reservas[r] EXCEPT !.estado = nuevo],
                    IF nuevo = "confirmada" THEN {"reservation.confirmed"}
                                            ELSE {"reservation.cancelled"}, 0)
    BY <1>1
  <1> DEFINE n == [reservas[r] EXCEPT !.estado = nuevo]
             h == IF nuevo = "confirmada" THEN {"reservation.confirmed"}
                                          ELSE {"reservation.cancelled"}
  <1>3. reservas[r] \in Fila
    BY DEF TypeOK
  <1>4. n.estado = nuevo /\ n.pagado = reservas[r].pagado
    BY <1>3 DEF Fila
  <1>5. reservas[r].estado # "ausente"
    <2>1. TransicionesManuales["ausente"] = {}
      BY DEF TransicionesManuales
    <2>2. QED
      BY <2>1
  <1>6. r # SinReserva
    BY ConstantesDeReservas
  <1> HIDE DEF n
  <1>7. Coherente(Lleva("estado", r, n, h, 0))
    <2>1. n.estado \in TransicionesManuales[reservas[r].estado]
      BY <1>4
    <2> DEFINE s == Lleva("estado", r, n, h, 0)
    <2>2. /\ s.op = "estado" /\ s.leida = reservas[r] /\ s.nueva = n
          /\ s.hitos = h
      BY <1>6 DEF Lleva
    <2>3. h = IF n.estado = "confirmada" THEN {"reservation.confirmed"}
                                         ELSE {"reservation.cancelled"}
      BY <1>4
    <2> HIDE DEF s, h
    <2>4. Coherente(s)
      BY <1>4, <1>5, <2>1, <2>2, <2>3 DEF Coherente
    <2>5. QED
      BY <2>4 DEF s
  <1> HIDE DEF h
  <1>8. Prepara(p, "estado", r, n, h, 0)
    BY <1>2 DEF n, h
  <1>9. QED
    BY <1>5, <1>7, <1>8, PreparaCoherente DEF Existe

LEMMA ActualizarCoherente ==
    ASSUME TypeOK, PeticionCoherente, NEW p \in Solicitudes, Actualizar(p)
    PROVE  PeticionCoherente'
  <1>1. PICK r \in Reservas, unidad \in Unidades \cup {SinUnidad},
             llegada \in Dias, salida \in Dias, total \in Totales :
          /\ reservas[r].estado \in Activos
          /\ Prepara(p, "editar", r,
                     [reservas[r] EXCEPT !.unidad = unidad, !.llegada = llegada,
                                         !.salida = salida, !.total = total], {}, 0)
    BY DEF Actualizar
  <1> DEFINE n == [reservas[r] EXCEPT !.unidad = unidad, !.llegada = llegada,
                                      !.salida = salida, !.total = total]
  <1>2. reservas[r] \in Fila
    BY DEF TypeOK
  <1>3. n.estado = reservas[r].estado /\ n.pagado = reservas[r].pagado
    BY <1>2 DEF Fila
  <1>4. reservas[r].estado # "ausente"
    BY <1>1 DEF Activos
  <1>5. r # SinReserva
    BY ConstantesDeReservas
  <1> HIDE DEF n
  <1>6. Coherente(Lleva("editar", r, n, {}, 0))
    BY <1>3, <1>4, <1>5 DEF Coherente, Lleva
  <1>7. QED
    BY <1>1, <1>4, <1>6, PreparaCoherente DEF n, Existe

LEMMA RegistrarPagoCoherente ==
    ASSUME TypeOK, PeticionCoherente, NEW p \in Solicitudes, RegistrarPago(p)
    PROVE  PeticionCoherente'
  <1>1. PICK r \in Reservas, importe \in Importes, tipo \in {"abono", "reembolso"} :
          LET f == reservas[r]
              monto == IF tipo = "reembolso" THEN -importe ELSE importe
              n == ConPago(f, monto)
          IN  /\ Existe(r)
              /\ f.estado = "cancelada" => tipo = "reembolso"
              /\ IF tipo = "reembolso" THEN importe <= f.pagado
                                       ELSE importe <= SaldoPendiente(f)
              /\ Prepara(p, "pago", r, n,
                         IF n.estado # f.estado
                         THEN {"reservation.confirmed"} ELSE {}, monto)
    BY DEF RegistrarPago
  <1> DEFINE monto == IF tipo = "reembolso" THEN -importe ELSE importe
             n == ConPago(reservas[r], monto)
             h == IF n.estado # reservas[r].estado THEN {"reservation.confirmed"} ELSE {}
  <1>2. importe \in Nat \ {0}
    BY ConstantesDeReservas
  <1>3. monto > 0 => /\ reservas[r].estado # "cancelada"
                     /\ monto <= SaldoPendiente(reservas[r])
    BY <1>1, <1>2
  <1>4. Prepara(p, "pago", r, n, h, monto) /\ Existe(r)
    BY <1>1
  <1>5. r # SinReserva
    BY ConstantesDeReservas
  <1> HIDE DEF monto
  <1>6. Coherente(Lleva("pago", r, n, h, monto))
    BY <1>3, <1>4, <1>5 DEF Coherente, Lleva, Existe
  <1> HIDE DEF n, h
  <1>7. QED
    BY <1>4, <1>6, PreparaCoherente

LEMMA VisitaCoherente ==
    ASSUME TypeOK, PeticionCoherente, NEW p \in Solicitudes, CheckIn(p) \/ CheckOut(p)
    PROVE  PeticionCoherente'
  <1>1. CASE CheckIn(p)
    <2>1. PICK r \in Reservas :
            /\ reservas[r].estado = "confirmada"
            /\ Prepara(p, "check_in", r, [reservas[r] EXCEPT !.estado = "en_curso"], {}, 0)
      BY <1>1 DEF CheckIn
    <2> DEFINE n == [reservas[r] EXCEPT !.estado = "en_curso"]
    <2>2. n.estado = "en_curso" /\ n.pagado = reservas[r].pagado
      BY DEF TypeOK, Fila
    <2>3. r # SinReserva
      BY ConstantesDeReservas
    <2> HIDE DEF n
    <2>4. Coherente(Lleva("check_in", r, n, {}, 0))
      BY <2>1, <2>2, <2>3 DEF Coherente, Lleva
    <2>5. QED
      BY <2>1, <2>4, PreparaCoherente DEF n, Existe
  <1>2. CASE CheckOut(p)
    <2>1. PICK r \in Reservas :
            /\ reservas[r].estado = "en_curso"
            /\ PagoCompleto(reservas[r])
            /\ Prepara(p, "check_out", r, [reservas[r] EXCEPT !.estado = "completada"],
                       {"visit.completed"}, 0)
      BY <1>2 DEF CheckOut
    <2> DEFINE n == [reservas[r] EXCEPT !.estado = "completada"]
    <2>2. n.estado = "completada" /\ n.pagado = reservas[r].pagado
      BY DEF TypeOK, Fila
    <2>3. r # SinReserva
      BY ConstantesDeReservas
    <2> HIDE DEF n
    <2>4. Coherente(Lleva("check_out", r, n, {"visit.completed"}, 0))
      BY <2>1, <2>2, <2>3 DEF Coherente, Lleva
    <2>5. QED
      BY <2>1, <2>4, PreparaCoherente DEF n, Existe
  <1>3. QED
    BY <1>1, <1>2

\* No update makes a row disappear.
LEMMA NuncaBorra ==
    ASSUME NEW s \in Peticion, Coherente(s), s.op \notin {"libre", "crear"}
    PROVE  s.nueva.estado # "ausente"
  <1>1. s.leida \in Fila /\ s.monto \in Int /\ s.leida.estado # "ausente"
    BY DEF Peticion, Coherente
  <1>2. CASE s.op = "estado"
    BY <1>1, <1>2 DEF Coherente, TransicionesManuales, Fila, Estados, Activos, Terminales
  <1>3. CASE s.op = "editar"
    BY <1>1, <1>3 DEF Coherente
  <1>4. CASE s.op = "pago"
    BY <1>1, <1>4, ConPagoTipo DEF Coherente
  <1>5. CASE s.op \in {"check_in", "check_out"}
    BY <1>5 DEF Coherente
  <1>6. QED
    BY <1>2, <1>3, <1>4, <1>5 DEF Peticion, Bloqueantes

\* Rows that exist go on existing.
LEMMA FilasQuedan ==
    ASSUME TypeOK, PeticionCoherente, NEW p \in Solicitudes,
           Insertar(p) \/ Confirmar(p) \/ Revertir(p)
    PROVE  \A r \in Reservas : Existe(r) => Existe(r)'
  <1>1. CASE Insertar(p)
    BY <1>1 DEF Insertar, Existe, TypeOK
  <1>2. CASE Confirmar(p)
    <2> DEFINE s == sol[p]
               f == Fusiona(reservas[s.id], s.leida, s.nueva)
    <2>1. s \in Peticion /\ s.id \in Reservas /\ Existe(s.id) /\ Coherente(s)
          /\ s.op \notin {"libre", "crear"}
      BY <1>2 DEF Confirmar, PeticionCoherente, TypeOK
    <2>2. f.estado \in {reservas[s.id].estado, s.nueva.estado}
      BY DEF Fusiona, Escribe
    <2>3. f.estado # "ausente"
      BY <2>1, <2>2, NuncaBorra DEF Existe
    <2>4. reservas' = [reservas EXCEPT ![s.id] = f]
      BY <1>2 DEF Confirmar
    <2>5. QED
      BY <2>1, <2>3, <2>4 DEF Existe, TypeOK
  <1>3. CASE Revertir(p)
    BY <1>3 DEF Revertir, Existe
  <1>4. QED
    BY <1>1, <1>2, <1>3

LEMMA CierreCoherente ==
    ASSUME TypeOK, PeticionCoherente, NEW p \in Solicitudes,
           Insertar(p) \/ Confirmar(p) \/ Revertir(p)
    PROVE  PeticionCoherente'
  <1>1. sol' = [sol EXCEPT ![p] = Libre]
    BY DEF Insertar, Confirmar, Revertir
  <1>2. \A r \in Reservas : Existe(r) => Existe(r)'
    BY FilasQuedan
  <1>3. Coherente(Libre) /\ Libre.op = "libre"
    BY DEF Coherente, Libre
  <1>4. QED
    BY <1>1, <1>2, <1>3 DEF PeticionCoherente, TypeOK

-------------------------------------------------------------------------------
\* What the commit of an UPDATE does to the state of its row: nothing, and no
\* milestone; or one of the changes CicloReserva tolerates, with its milestone.
\* A second confirmation or cancellation would repeat a key of the outbox.
Cambio(a, e, s) ==
    \/ e.estado = a.estado /\ s.hitos = {}
    \/ /\ <<a.estado, e.estado>> \in CicloConcurrente!Documentadas \cup CarrerasDeEstado
       /\ s.hitos = CicloConcurrente!Hito(e.estado)
       /\ e.estado = "completada" => PagoCompleto(a)

LEMMA CambioManual ==
    ASSUME TypeOK, PeticionCoherente, HitosRegistrados, NEW p \in Solicitudes,
           sol[p].op = "estado", Existe(sol[p].id), sol[p].id \in Reservas,
           ClavesNuevas(sol[p].id, sol[p].hitos)
    PROVE  Cambio(reservas[sol[p].id],
                  Fusiona(reservas[sol[p].id], sol[p].leida, sol[p].nueva), sol[p])
  <1> DEFINE s == sol[p]
             a == reservas[s.id]
             f == Fusiona(a, s.leida, s.nueva)
  <1>1. /\ s.leida \in Fila /\ a \in Fila /\ s.leida.estado # "ausente"
        /\ s.nueva.estado \in TransicionesManuales[s.leida.estado]
        /\ s.hitos = IF s.nueva.estado = "confirmada" THEN {"reservation.confirmed"}
                                                      ELSE {"reservation.cancelled"}
    BY DEF TypeOK, Peticion, PeticionCoherente, Coherente
  <1>2. s.nueva.estado \in {"confirmada", "cancelada"} /\ s.nueva.estado # s.leida.estado
    BY <1>1 DEF TransicionesManuales, Fila, Estados, Activos, Terminales
  <1>3. f.estado = s.nueva.estado
    BY <1>2 DEF Fusiona, Escribe
  <1>4. a.estado \in {"pendiente", "confirmada", "en_curso", "completada", "cancelada"}
    BY <1>1 DEF Fila, Estados, Activos, Terminales, Existe
  <1>5. \A h \in s.hitos : <<h, s.id>> \notin outbox
    BY DEF ClavesNuevas
  <1>6. CASE s.nueva.estado = "confirmada"
    <2>1. a.estado \in {"pendiente", "cancelada"}
      BY <1>1, <1>4, <1>5, <1>6 DEF HitosRegistrados
    <2>2. QED
      BY <1>1, <1>3, <1>6, <2>1
         DEF Cambio, CicloConcurrente!Documentadas, CarrerasDeEstado, CicloConcurrente!Hito
  <1>7. CASE s.nueva.estado = "cancelada"
    <2>1. a.estado # "cancelada"
      BY <1>1, <1>5, <1>7 DEF HitosRegistrados
    <2>2. QED
      BY <1>1, <1>3, <1>4, <1>7, <2>1
         DEF Cambio, CicloConcurrente!Documentadas, CarrerasDeEstado, CicloConcurrente!Hito
  <1>8. QED
    BY <1>2, <1>6, <1>7

LEMMA CambioAlConfirmar ==
    ASSUME TypeOK, LecturaVigente, PeticionCoherente, HitosRegistrados,
           NEW p \in Solicitudes, Confirmar(p)
    PROVE  /\ sol[p].id \in Reservas /\ Existe(sol[p].id)
           /\ reservas' = [reservas EXCEPT ![sol[p].id] =
                              Fusiona(reservas[sol[p].id], sol[p].leida, sol[p].nueva)]
           /\ Cambio(reservas[sol[p].id],
                     Fusiona(reservas[sol[p].id], sol[p].leida, sol[p].nueva), sol[p])
  <1> DEFINE s == sol[p]
             a == reservas[s.id]
             f == Fusiona(a, s.leida, s.nueva)
  <1>1. /\ s \in Peticion /\ s.op \notin {"libre", "crear"} /\ Coherente(s)
        /\ s.id \in Reservas /\ Existe(s.id) /\ a \in Fila
    BY DEF Confirmar, TypeOK, PeticionCoherente
  <1>2. ClavesNuevas(s.id, s.hitos) /\ reservas' = [reservas EXCEPT ![s.id] = f]
    BY DEF Confirmar
  <1>3. CASE s.op = "estado"
    BY <1>1, <1>2, <1>3, CambioManual
  <1>4. CASE s.op = "editar"
    <2>1. f.estado = a.estado
      BY <1>1, <1>4 DEF Fusiona, Escribe, Coherente
    <2>2. QED
      BY <1>1, <1>2, <1>4, <2>1 DEF Cambio, Coherente
  <1>5. CASE s.op \in Bloqueantes
    <2>1. s.leida = a
      BY <1>5 DEF LecturaVigente
    <2>2. f.estado = s.nueva.estado
      BY <2>1 DEF Fusiona, Escribe
    <2>3. CASE s.op = "pago"
      <3>1. s.nueva = ConPago(a, s.monto) /\ s.monto \in Int
        BY <1>1, <2>1, <2>3 DEF Coherente, Peticion
      <3>2. s.nueva.estado = a.estado \/ (a.estado = "pendiente" /\ s.nueva.estado = "confirmada")
        BY <1>1, <3>1 DEF ConPago, Fila
      <3>3. s.hitos = IF s.nueva.estado # a.estado THEN {"reservation.confirmed"} ELSE {}
        BY <1>1, <2>1, <2>3 DEF Coherente
      <3>4. QED
        BY <1>1, <1>2, <2>2, <3>2, <3>3
           DEF Cambio, CicloConcurrente!Documentadas, CicloConcurrente!Hito
    <2>4. CASE s.op = "check_in"
      BY <1>1, <1>2, <2>1, <2>2, <2>4
         DEF Coherente, Cambio, CicloConcurrente!Documentadas, CicloConcurrente!Hito
    <2>5. CASE s.op = "check_out"
      BY <1>1, <1>2, <2>1, <2>2, <2>5
         DEF Coherente, Cambio, CicloConcurrente!Documentadas, CicloConcurrente!Hito
    <2>6. QED
      BY <1>5, <2>3, <2>4, <2>5 DEF Bloqueantes
  <1>6. QED
    BY <1>1, <1>3, <1>4, <1>5 DEF Peticion

\* The keys a commit adds to the outbox.
LEMMA OutboxCrece ==
    ASSUME TypeOK, PeticionCoherente, NEW p \in Solicitudes, Confirmar(p)
    PROVE  /\ outbox \subseteq outbox'
           /\ (sol[p].hitos \X {sol[p].id}) \subseteq outbox'
           /\ Avisos' = Avisos \cup (sol[p].hitos \X {sol[p].id})
  <1>1. PICK k : /\ outbox' = outbox \cup (sol[p].hitos \X {sol[p].id}) \cup k
                 /\ k \subseteq {"payment.recorded"} \X Nat
    <2> DEFINE n == Cardinality(pagos) + 1
               k == IF sol[p].op = "pago" THEN {<<"payment.recorded", n>>} ELSE {}
    <2>1. outbox' = outbox \cup (sol[p].hitos \X {sol[p].id}) \cup k
      BY DEF Confirmar
    <2>2. n \in Nat
      BY FS_CardinalityType DEF TypeOK
    <2>3. k \subseteq {"payment.recorded"} \X Nat
      BY <2>2
    <2>4. QED
      BY <2>1, <2>3
  <1>2. (sol[p].hitos \X {sol[p].id}) \subseteq Hitos \X Reservas
    BY DEF TypeOK, Peticion, Confirmar, PeticionCoherente
  <1>3. k \cap (Hitos \X Reservas) = {}
    BY <1>1 DEF Hitos
  <1>4. QED
    BY <1>1, <1>2, <1>3 DEF Avisos

\* The first step of a request.
Lee(p) == \/ Crear(p) \/ CambiarEstado(p) \/ Actualizar(p)
          \/ RegistrarPago(p) \/ CheckIn(p) \/ CheckOut(p)

LEMMA LeeNoEscribe ==
    ASSUME TypeOK, NEW p \in Solicitudes, Lee(p)
    PROVE  UNCHANGED <<reservas, pagos, outbox>>
  <1>1. PICK op, r, n, h, m : Prepara(p, op, r, n, h, m)
    BY Manejadores DEF Lee
  <1>2. QED
    BY <1>1 DEF Prepara

LEMMA Pasos ==
    ASSUME [Next]_vars
    PROVE  \/ UNCHANGED vars
           \/ \E p \in Solicitudes : Lee(p) \/ Insertar(p) \/ Confirmar(p) \/ Revertir(p)
  BY DEF Next, Lee

LEMMA PasoHitos ==
    ASSUME TypeOK, LecturaVigente, PeticionCoherente, HitosRegistrados, [Next]_vars
    PROVE  HitosRegistrados'
  <1>1. CASE UNCHANGED <<reservas, outbox>>
    BY <1>1 DEF HitosRegistrados, Existe
  <1>2. ASSUME NEW p \in Solicitudes, Insertar(p)
        PROVE  HitosRegistrados'
    <2>1. PICK r \in Reservas :
            /\ reservas' = [reservas EXCEPT ![r] = sol[p].nueva]
            /\ outbox' = outbox \cup (sol[p].hitos \X {r})
            /\ sol[p].op = "crear"
      BY <1>2 DEF Insertar
    <2>2. sol[p].nueva.estado = "pendiente" /\ sol[p].hitos = {"reservation.created"}
      BY <2>1 DEF PeticionCoherente, Coherente
    <2>3. /\ \A q \in Reservas : reservas'[q] = IF q = r THEN sol[p].nueva ELSE reservas[q]
          /\ outbox \subseteq outbox' /\ <<"reservation.created", r>> \in outbox'
      BY <2>1, <2>2 DEF TypeOK
    <2>4. QED
      BY <2>2, <2>3 DEF HitosRegistrados, Existe
  <1>3. ASSUME NEW p \in Solicitudes, Confirmar(p)
        PROVE  HitosRegistrados'
    <2> DEFINE s == sol[p]
               a == reservas[s.id]
               f == Fusiona(a, s.leida, s.nueva)
    <2>1. /\ s.id \in Reservas /\ Existe(s.id) /\ Cambio(a, f, s)
          /\ \A q \in Reservas : reservas'[q] = IF q = s.id THEN f ELSE reservas[q]
      BY <1>3, CambioAlConfirmar DEF TypeOK
    <2>2. outbox \subseteq outbox' /\ (s.hitos \X {s.id}) \subseteq outbox'
      BY <1>3, OutboxCrece
    <2> HIDE DEF f
    <2>3. /\ <<"reservation.created", s.id>> \in outbox'
          /\ f.estado \in {"confirmada", "en_curso", "completada"}
                => <<"reservation.confirmed", s.id>> \in outbox'
          /\ f.estado = "cancelada" => <<"reservation.cancelled", s.id>> \in outbox'
      <3>1. CASE f.estado = a.estado
        BY <2>1, <2>2, <3>1 DEF HitosRegistrados
      <3>2. CASE /\ <<a.estado, f.estado>> \in CicloConcurrente!Documentadas \cup CarrerasDeEstado
                 /\ s.hitos = CicloConcurrente!Hito(f.estado)
        <4>1. CASE f.estado = "confirmada"
          BY <2>1, <2>2, <3>2, <4>1 DEF CicloConcurrente!Hito, HitosRegistrados
        <4>2. CASE f.estado = "cancelada"
          BY <2>1, <2>2, <3>2, <4>2 DEF CicloConcurrente!Hito, HitosRegistrados
        <4>3. CASE f.estado \notin {"confirmada", "cancelada"}
          <5>1. f.estado \in {"en_curso", "completada"} => a.estado \in {"confirmada", "en_curso"}
            BY <3>2, <4>3 DEF CicloConcurrente!Documentadas, CarrerasDeEstado
          <5>2. QED
            BY <2>1, <2>2, <4>3, <5>1 DEF HitosRegistrados
        <4>4. QED
          BY <4>1, <4>2, <4>3
      <3>3. QED
        BY <2>1, <3>1, <3>2 DEF Cambio
    <2>4. QED
      BY <2>1, <2>2, <2>3 DEF HitosRegistrados, Existe
  <1>4. CASE UNCHANGED vars
    BY <1>1, <1>4 DEF vars
  <1>5. ASSUME NEW p \in Solicitudes, Lee(p)
        PROVE  HitosRegistrados'
    BY <1>1, <1>5, LeeNoEscribe
  <1>6. ASSUME NEW p \in Solicitudes, Revertir(p)
        PROVE  HitosRegistrados'
    BY <1>1, <1>6 DEF Revertir
  <1>7. QED
    BY <1>2, <1>3, <1>4, <1>5, <1>6, Pasos

-------------------------------------------------------------------------------
LEMMA InicioCoherente == Init => Coherencia
  <1> SUFFICES ASSUME Init PROVE Coherencia
    OBVIOUS
  <1>1. TypeOK
    <2>1. Ausente \in Fila /\ Libre \in Peticion
      BY DEF Ausente, Fila, Libre, Peticion
    <2>2. IsFiniteSet(pagos)
      BY FS_EmptySet DEF Init
    <2>3. QED
      BY <2>1, <2>2 DEF Init, TypeOK
  <1>2. \A p \in Solicitudes : sol[p] = Libre
    BY DEF Init
  <1>3. LecturaVigente
    BY <1>2 DEF LecturaVigente, Libre, Bloqueantes
  <1>4. PeticionCoherente
    <2>1. Coherente(Libre) /\ Libre.op = "libre"
      BY DEF Coherente, Libre
    <2>2. QED
      BY <1>2, <2>1 DEF PeticionCoherente
  <1>5. HitosRegistrados
    BY DEF Init, HitosRegistrados, Existe, Ausente
  <1>6. QED
    BY <1>1, <1>3, <1>4, <1>5 DEF Coherencia

LEMMA PasoCoherente == Coherencia /\ [Next]_vars => Coherencia'
  <1> SUFFICES ASSUME TypeOK, LecturaVigente, PeticionCoherente, HitosRegistrados,
                      [Next]_vars
               PROVE  TypeOK' /\ LecturaVigente' /\ PeticionCoherente' /\ HitosRegistrados'
    BY DEF Coherencia
  <1>1. HitosRegistrados'
    BY PasoHitos
  <1>2. CASE UNCHANGED vars
    <2>1. TypeOK' /\ LecturaVigente'
      BY <1>2 DEF vars, TypeOK, LecturaVigente
    <2>2. \A p \in Solicitudes : Coherente(sol[p])' <=> Coherente(sol[p])
      BY <1>2 DEF vars, Coherente
    <2>3. PeticionCoherente'
      BY <1>2, <2>2 DEF vars, PeticionCoherente, Existe
    <2>4. QED
      BY <1>1, <2>1, <2>3
  <1>3. ASSUME NEW p \in Solicitudes, Lee(p)
        PROVE  TypeOK' /\ LecturaVigente' /\ PeticionCoherente'
    <2>1. TypeOK'
      BY <1>3, CrearTipo, CambiarEstadoTipo, ActualizarTipo, RegistrarPagoTipo, VisitaTipo
         DEF Lee
    <2>2. LecturaVigente'
      <3>1. PICK op \in {"crear", "estado", "editar"} \cup Bloqueantes,
                 r \in Reservas \cup {SinReserva} : \E n, h, m :
              /\ Prepara(p, op, r, n, h, m)
              /\ \/ op \notin Bloqueantes /\ UNCHANGED candado
                 \/ r \in Reservas /\ TomaCandado(p, r)
        BY <1>3, Manejadores DEF Lee
      <3>2. PICK n, h, m :
              /\ Prepara(p, op, r, n, h, m)
              /\ \/ op \notin Bloqueantes /\ UNCHANGED candado
                 \/ r \in Reservas /\ TomaCandado(p, r)
        BY <3>1
      <3>3. QED
        BY <3>2, PreparaVigente
    <2>3. PeticionCoherente'
      BY <1>3, CrearCoherente, CambiarEstadoCoherente, ActualizarCoherente,
         RegistrarPagoCoherente, VisitaCoherente DEF Lee
    <2>4. QED
      BY <2>1, <2>2, <2>3
  <1>4. ASSUME NEW p \in Solicitudes, Insertar(p) \/ Confirmar(p) \/ Revertir(p)
        PROVE  TypeOK' /\ LecturaVigente' /\ PeticionCoherente'
    BY <1>4, InsertarTipo, ConfirmarTipo, RevertirTipo, CierreVigente, CierreCoherente
  <1>5. QED
    BY <1>1, <1>2, <1>3, <1>4, Pasos

-------------------------------------------------------------------------------
\* What a request in flight knows stays true until it commits, and every state
\* of a reservation has its milestone in the outbox, for any number of rows,
\* requests, units, days and amounts.
THEOREM CoherenciaInvariante == Spec => []Coherencia
  <1>1. Init => Coherencia
    BY InicioCoherente
  <1>2. Coherencia /\ [Next]_vars => Coherencia'
    BY PasoCoherente
  <1>3. QED
    BY <1>1, <1>2, PTL DEF Spec

\* Rows, payments, outbox keys, locks and requests always have their types.
THEOREM TipoCorrecto == Spec => []TypeOK
  <1>1. Coherencia => TypeOK
    BY DEF Coherencia
  <1>2. QED
    BY <1>1, CoherenciaInvariante, PTL

\* The exclusion constraint of PostgreSQL, checked at each INSERT and UPDATE,
\* keeps every pair of active reservations of a unit apart, although no
\* handler locks the calendar of the unit between its SELECT and its write.
THEOREM UnidadNuncaDoble == Spec => []SinDobleReserva
  <1>1. Init => SinDobleReserva
    BY DEF Init, SinDobleReserva, Ausente
  <1>2. TypeOK /\ SinDobleReserva /\ [Next]_vars => SinDobleReserva'
    <2> SUFFICES ASSUME TypeOK, SinDobleReserva, [Next]_vars
                 PROVE  SinDobleReserva'
      OBVIOUS
    <2>1. CASE UNCHANGED reservas
      BY <2>1 DEF SinDobleReserva
    <2>2. ASSUME NEW r \in Reservas, NEW f, RespetaExclusion(r, f),
                 reservas' = [reservas EXCEPT ![r] = f]
          PROVE  SinDobleReserva'
      <3>1. \A q \in Reservas : reservas'[q] = IF q = r THEN f ELSE reservas[q]
        BY <2>2 DEF TypeOK
      <3>2. ASSUME NEW q \in Reservas \ {r}, f.unidad = reservas[q].unidad,
                   f.unidad # SinUnidad, f.estado \in Activos, reservas[q].estado \in Activos,
                   f.llegada < f.salida, reservas[q].llegada < reservas[q].salida
            PROVE  /\ ~SeTraslapan(f.llegada, f.salida, reservas[q].llegada, reservas[q].salida)
                   /\ ~SeTraslapan(reservas[q].llegada, reservas[q].salida, f.llegada, f.salida)
        BY <2>2, <3>2 DEF RespetaExclusion, SeTraslapan
      <3>3. QED
        BY <3>1, <3>2 DEF SinDobleReserva
    <2>3. ASSUME NEW p \in Solicitudes, Lee(p)
          PROVE  SinDobleReserva'
      BY <2>1, <2>3, LeeNoEscribe
    <2>4. ASSUME NEW p \in Solicitudes, Insertar(p)
          PROVE  SinDobleReserva'
      BY <2>2, <2>4 DEF Insertar
    <2>5. ASSUME NEW p \in Solicitudes, Confirmar(p)
          PROVE  SinDobleReserva'
      <3>1. CASE sol[p].id \in Reservas
        BY <2>2, <2>5, <3>1 DEF Confirmar
      <3>2. CASE sol[p].id \notin Reservas
        <4>1. reservas' = reservas
          BY <2>5, <3>2 DEF Confirmar, TypeOK
        <4>2. QED
          BY <2>1, <4>1
      <3>3. QED
        BY <3>1, <3>2
    <2>6. QED
      BY <2>1, <2>3, <2>4, <2>5, Pasos DEF vars, Revertir
  <1>3. QED
    BY <1>1, <1>2, TipoCorrecto, PTL DEF Spec

\* The commit of an UPDATE is the only step that touches a row that exists.
LEMMA SoloConfirmarCambia ==
    ASSUME TypeOK, LecturaVigente, PeticionCoherente, HitosRegistrados, [Next]_vars,
           NEW r \in Reservas, Existe(r), reservas'[r] # reservas[r]
    PROVE  \E p \in Solicitudes :
              /\ Confirmar(p) /\ sol[p].id = r
              /\ reservas'[r] = Fusiona(reservas[r], sol[p].leida, sol[p].nueva)
              /\ Cambio(reservas[r], reservas'[r], sol[p])
  <1>1. ASSUME NEW p \in Solicitudes, Insertar(p)
        PROVE  FALSE
    BY <1>1 DEF Insertar, TypeOK
  <1>2. PICK p \in Solicitudes : Confirmar(p)
    BY <1>1, LeeNoEscribe, Pasos DEF vars, Revertir
  <1> DEFINE i == sol[p].id
             f == Fusiona(reservas[i], sol[p].leida, sol[p].nueva)
  <1>3. i \in Reservas /\ reservas' = [reservas EXCEPT ![i] = f] /\ Cambio(reservas[i], f, sol[p])
    BY <1>2, CambioAlConfirmar
  <1> HIDE DEF f
  <1>4. i = r /\ reservas'[r] = f
    BY <1>3 DEF TypeOK
  <1>5. QED
    BY <1>2, <1>3, <1>4 DEF f

\* Nobody checks in without a confirmation in force, and nobody checks out
\* owing money or without being in the park, at the moment of the commit.
THEOREM VisitaSiempreEnOrden == Spec => VisitaEnOrden
  <1>1. ASSUME TypeOK, LecturaVigente, PeticionCoherente, HitosRegistrados, [Next]_vars,
               NEW r \in Reservas, reservas'[r].estado # reservas[r].estado
        PROVE  /\ reservas'[r].estado = "en_curso" => reservas[r].estado = "confirmada"
               /\ reservas'[r].estado = "completada"
                  => reservas[r].estado = "en_curso" /\ PagoCompleto(reservas[r])
    <2>1. CASE Existe(r)
      <3>1. PICK p \in Solicitudes : Cambio(reservas[r], reservas'[r], sol[p])
        BY <1>1, <2>1, SoloConfirmarCambia
      <3>2. QED
        BY <1>1, <3>1 DEF Cambio, CicloConcurrente!Documentadas, CarrerasDeEstado
    <2>2. CASE ~Existe(r)
      <3>1. PICK p \in Solicitudes : Insertar(p) \/ Confirmar(p)
        BY <1>1, LeeNoEscribe, Pasos DEF vars, Revertir
      <3>2. CASE Confirmar(p)
        BY <1>1, <2>2, <3>2, CambioAlConfirmar DEF TypeOK
      <3>3. CASE Insertar(p)
        <4>1. reservas'[r] = sol[p].nueva /\ sol[p].op = "crear"
          BY <1>1, <3>3 DEF Insertar, TypeOK
        <4>2. sol[p].nueva.estado = "pendiente"
          BY <1>1, <4>1 DEF PeticionCoherente, Coherente
        <4>3. QED
          BY <4>1, <4>2
      <3>4. QED
        BY <3>1, <3>2, <3>3
    <2>3. QED
      BY <2>1, <2>2
  <1>2. Coherencia /\ [Next]_vars
        => [\A r \in Reservas :
              reservas'[r].estado # reservas[r].estado
              => /\ reservas'[r].estado = "en_curso" => reservas[r].estado = "confirmada"
                 /\ reservas'[r].estado = "completada"
                    => reservas[r].estado = "en_curso" /\ PagoCompleto(reservas[r])]_vars
    BY <1>1 DEF Coherencia
  <1>3. QED
    BY <1>2, CoherenciaInvariante, PTL DEF VisitaEnOrden, Spec

\* Whatever the requests interleave, seen from outside each reservation runs
\* the life cycle of CicloReserva with its three tolerated stale changes, and
\* every milestone is announced once, in the commit that reaches it.
THEOREM ImplementaElCiclo == Spec => ImplementaCicloConcurrente
  <1> DEFINE est == [r \in Reservas |-> reservas[r].estado]
  <1>1. Init => CicloConcurrente!CicloInit
    BY DEF Init, CicloConcurrente!CicloInit, Ausente, Avisos
  <1>2. ASSUME TypeOK, LecturaVigente, PeticionCoherente, HitosRegistrados, [Next]_vars
        PROVE  [CicloConcurrente!CicloNext]_(CicloConcurrente!cicloVars)
    <2>1. CASE UNCHANGED <<reservas, outbox>>
      BY <2>1 DEF CicloConcurrente!cicloVars, Avisos
    <2>2. ASSUME NEW r \in Reservas, NEW e \in Estados,
                 <<est[r], e>> \in CicloConcurrente!Documentadas \cup CarrerasDeEstado,
                 (CicloConcurrente!Hito(e) \X {r}) \cap Avisos = {},
                 est' = [est EXCEPT ![r] = e],
                 Avisos' = Avisos \cup (CicloConcurrente!Hito(e) \X {r})
          PROVE  CicloConcurrente!CicloNext
      BY <2>2 DEF CicloConcurrente!CicloNext, CicloConcurrente!Avanza,
                  Estados, Activos, Terminales
    <2>3. ASSUME NEW p \in Solicitudes, Insertar(p)
          PROVE  CicloConcurrente!CicloNext
      <3>1. PICK r \in Reservas :
              /\ sol[p].op = "crear" /\ ~Existe(r)
              /\ ClavesNuevas(r, sol[p].hitos)
              /\ reservas' = [reservas EXCEPT ![r] = sol[p].nueva]
              /\ outbox' = outbox \cup (sol[p].hitos \X {r})
        BY <2>3 DEF Insertar
      <3>2. /\ sol[p].nueva.estado = "pendiente"
            /\ sol[p].hitos = CicloConcurrente!Hito("pendiente")
            /\ sol[p].hitos \in SUBSET Hitos
        BY <1>2, <3>1 DEF PeticionCoherente, Coherente, CicloConcurrente!Hito, Hitos
      <3>3. est' = [est EXCEPT ![r] = "pendiente"]
        BY <1>2, <3>1, <3>2 DEF TypeOK
      <3>4. Avisos' = Avisos \cup (sol[p].hitos \X {r})
        BY <3>1, <3>2 DEF Avisos
      <3>5. (sol[p].hitos \X {r}) \cap Avisos = {}
        BY <3>1 DEF ClavesNuevas, Avisos
      <3>6. <<est[r], "pendiente">> \in CicloConcurrente!Documentadas
        BY <3>1 DEF Existe, CicloConcurrente!Documentadas
      <3>7. "pendiente" \in Estados
        BY DEF Estados, Activos
      <3> HIDE DEF est
      <3>8. QED
        BY <2>2, <3>2, <3>3, <3>4, <3>5, <3>6, <3>7
    <2>4. ASSUME NEW p \in Solicitudes, Confirmar(p)
          PROVE  [CicloConcurrente!CicloNext]_(CicloConcurrente!cicloVars)
      <3> DEFINE s == sol[p]
                 r == s.id
                 f == Fusiona(reservas[r], s.leida, s.nueva)
      <3>1. r \in Reservas /\ reservas' = [reservas EXCEPT ![r] = f]
            /\ Cambio(reservas[r], f, s)
        BY <1>2, <2>4, CambioAlConfirmar
      <3>2. Avisos' = Avisos \cup (s.hitos \X {r})
        BY <1>2, <2>4, OutboxCrece
      <3>3. (s.hitos \X {r}) \cap Avisos = {}
        BY <2>4 DEF Confirmar, ClavesNuevas, Avisos
      <3> HIDE DEF f
      <3>4. est' = [est EXCEPT ![r] = f.estado]
        BY <1>2, <3>1 DEF TypeOK
      <3>5. CASE f.estado = reservas[r].estado /\ s.hitos = {}
        <4>1. est' = est
          BY <3>1, <3>4, <3>5
        <4>2. Avisos' = Avisos
          BY <3>2, <3>5
        <4>3. QED
          BY <4>1, <4>2 DEF CicloConcurrente!cicloVars
      <3>6. CASE /\ <<reservas[r].estado, f.estado>>
                       \in CicloConcurrente!Documentadas \cup CarrerasDeEstado
                 /\ s.hitos = CicloConcurrente!Hito(f.estado)
        <4>1. f.estado \in Estados
          BY <3>6 DEF CicloConcurrente!Documentadas, CarrerasDeEstado, Estados,
                      Activos, Terminales
        <4>2. est[r] = reservas[r].estado
          BY <3>1
        <4> HIDE DEF est
        <4>3. QED
          BY <2>2, <3>1, <3>2, <3>3, <3>4, <3>6, <4>1, <4>2
      <3>7. QED
        BY <3>1, <3>5, <3>6 DEF Cambio
    <2>5. QED
      BY <1>2, <2>1, <2>3, <2>4, LeeNoEscribe, Pasos DEF vars, Revertir
  <1>3. Coherencia /\ [Next]_vars
        => [CicloConcurrente!CicloNext]_(CicloConcurrente!cicloVars)
    BY <1>2 DEF Coherencia
  <1>4. QED
    BY <1>1, <1>3, CoherenciaInvariante, PTL
       DEF Spec, ImplementaCicloConcurrente, CicloConcurrente!CicloSpec

-------------------------------------------------------------------------------
\* Payments are numbered as they commit and belong to a row that exists.
PagosNumerados == \A x \in pagos : x.id <= Cardinality(pagos) /\ Existe(x.reserva)

\* The payments of a reservation.
Cobros(r) == {x \in pagos : x.reserva = r}

Cobrado(r) == reservas[r].pagado = SumaMontos(Cobros(r))

\* What the money of the rows needs, beside Coherencia, to be inductive.
Contabilidad == PagosNumerados /\ \A r \in Reservas : Cobrado(r)

LEMMA ContabilidadConserva == Contabilidad => SaldoConservado
  BY DEF Contabilidad, Cobrado, Cobros, SumaMontos, SaldoConservado

LEMMA CobrosTipo ==
    ASSUME TypeOK, NEW r
    PROVE  IsFiniteSet(Cobros(r)) /\ \A x \in Cobros(r) : x.monto \in Int
  <1>1. Cobros(r) \subseteq pagos
    BY DEF Cobros
  <1>2. QED
    BY <1>1, FS_Subset DEF TypeOK

\* The row a payment writes is the one it read: the commit adds its amount to
\* what was paid.  No other UPDATE writes that column.
LEMMA PagadoAlConfirmar ==
    ASSUME TypeOK, LecturaVigente, PeticionCoherente, NEW p \in Solicitudes, Confirmar(p)
    PROVE  LET s == sol[p]
               a == reservas[s.id]
           IN  Fusiona(a, s.leida, s.nueva).pagado
                 = IF s.op = "pago" THEN a.pagado + s.monto ELSE a.pagado
  <1> DEFINE s == sol[p]
             a == reservas[s.id]
  <1>1. /\ s \in Peticion /\ s.op \notin {"libre", "crear"} /\ Coherente(s)
        /\ s.id \in Reservas /\ a \in Fila
        /\ s.leida \in Fila /\ s.nueva \in Fila /\ s.monto \in Int
    BY DEF Confirmar, TypeOK, PeticionCoherente, Peticion
  <1>2. CASE s.op = "pago"
    <2>1. s.leida = a
      BY <1>2 DEF LecturaVigente, Bloqueantes
    <2>2. s.nueva = ConPago(a, s.monto)
      BY <1>1, <1>2, <2>1 DEF Coherente
    <2>3. s.nueva.pagado = a.pagado + s.monto
      BY <1>1, <2>2, ConPagoTipo
    <2>4. QED
      BY <1>1, <1>2, <2>1, <2>3, FusionaVigente
  <1>3. CASE s.op # "pago"
    <2>1. s.leida.pagado = s.nueva.pagado
      BY <1>1, <1>3 DEF Coherente, Peticion, Bloqueantes
    <2>2. QED
      BY <1>1, <1>3, <2>1, FusionaIntacta
  <1>4. QED
    BY <1>2, <1>3

\* A new row has no payments, and its amount paid starts at zero.
LEMMA InsertarContabilidad ==
    ASSUME TypeOK, PeticionCoherente, Contabilidad, NEW p \in Solicitudes, Insertar(p)
    PROVE  Contabilidad'
  <1>1. PICK r \in Reservas :
          /\ ~Existe(r) /\ sol[p].op = "crear"
          /\ reservas' = [reservas EXCEPT ![r] = sol[p].nueva]
          /\ pagos' = pagos
    BY DEF Insertar
  <1>2. sol[p].nueva.pagado = 0
    BY <1>1 DEF PeticionCoherente, Coherente
  <1>3. \A q \in Reservas : reservas'[q] = IF q = r THEN sol[p].nueva ELSE reservas[q]
    BY <1>1 DEF TypeOK
  <1>4. \A q \in Reservas : Cobros(q)' = Cobros(q)
    BY <1>1 DEF Cobros
  <1>5. Cobros(r) = {}
    BY <1>1 DEF Contabilidad, PagosNumerados, Cobros
  <1>6. ASSUME NEW q \in Reservas PROVE Cobrado(q)'
    <2>1. CASE q = r
      BY <1>2, <1>3, <1>4, <1>5, <2>1, MontosVacio DEF Cobrado
    <2>2. CASE q # r
      BY <1>3, <1>4, <2>2 DEF Cobrado, Contabilidad
    <2>3. QED
      BY <2>1, <2>2
  <1>7. PagosNumerados'
    <2>1. \A x \in pagos : x.reserva \in Reservas
      BY DEF TypeOK
    <2>2. \A x \in pagos : Existe(x.reserva)'
      BY <2>1, FilasQuedan DEF Contabilidad, PagosNumerados
    <2>3. QED
      BY <1>1, <2>2 DEF Contabilidad, PagosNumerados, Existe
  <1>8. QED
    BY <1>6, <1>7 DEF Contabilidad

\* A commit moves the amount paid and the table of payments together.
LEMMA ConfirmarContabilidad ==
    ASSUME TypeOK, LecturaVigente, PeticionCoherente, HitosRegistrados, Contabilidad,
           NEW p \in Solicitudes, Confirmar(p)
    PROVE  Contabilidad'
  <1> DEFINE s == sol[p]
             r == s.id
             f == Fusiona(reservas[r], s.leida, s.nueva)
             n == Cardinality(pagos) + 1
             x == [id |-> n, reserva |-> r, monto |-> s.monto]
  <1>1. /\ r \in Reservas /\ Existe(r) /\ s.monto \in Int
        /\ reservas' = [reservas EXCEPT ![r] = f]
    BY CambioAlConfirmar DEF TypeOK, Peticion
  <1>2. f.pagado = IF s.op = "pago" THEN reservas[r].pagado + s.monto
                                    ELSE reservas[r].pagado
    BY PagadoAlConfirmar
  <1>3. pagos' = IF s.op = "pago" THEN pagos \cup {x} ELSE pagos
    BY DEF Confirmar
  <1>4. Cardinality(pagos) \in Nat /\ \A y \in pagos : y.id \in Nat /\ y.reserva \in Reservas
    BY FS_CardinalityType DEF TypeOK
  <1> HIDE DEF f
  <1>5. \A q \in Reservas : reservas'[q] = IF q = r THEN f ELSE reservas[q]
    BY <1>1 DEF TypeOK
  <1>6. x.id = n /\ x.reserva = r /\ x.monto = s.monto
    OBVIOUS
  <1>7. x \notin pagos
    BY <1>4, <1>6 DEF Contabilidad, PagosNumerados
  <1> HIDE DEF x
  <1>8. \A y \in pagos : Existe(y.reserva)'
    BY <1>4, FilasQuedan DEF Contabilidad, PagosNumerados
  <1>9. CASE s.op = "pago"
    <2>1. pagos' = pagos \cup {x}
      BY <1>3, <1>9
    <2>2. Cardinality(pagos') = n
      BY <1>7, <2>1, FS_AddElement DEF TypeOK
    <2>3. PagosNumerados'
      <3>1. \A q \in Reservas : Existe(q) => reservas'[q].estado # "ausente"
        BY FilasQuedan DEF Existe
      <3>2. \A y \in pagos' : y.id <= n /\ reservas'[y.reserva].estado # "ausente"
        BY <1>1, <1>4, <1>6, <2>1, <3>1 DEF Contabilidad, PagosNumerados
      <3>3. QED
        BY <2>2, <3>2 DEF PagosNumerados, Existe
    <2>4. ASSUME NEW q \in Reservas PROVE Cobrado(q)'
      <3>1. CASE q = r
        <4>1. Cobros(q)' = Cobros(q) \cup {x} /\ x \notin Cobros(q)
          BY <1>6, <1>7, <2>1, <3>1 DEF Cobros
        <4>2. SumaMontos(Cobros(q) \cup {x}) = x.monto + SumaMontos(Cobros(q))
          BY <1>1, <1>6, <4>1, CobrosTipo, MontosAgrega
        <4>3. reservas'[q].pagado = reservas[q].pagado + s.monto
          BY <1>2, <1>5, <1>9, <3>1
        <4>4. reservas[q].pagado = SumaMontos(Cobros(q)) /\ reservas[q].pagado \in Int
          BY DEF Contabilidad, Cobrado, TypeOK, Fila
        <4>5. QED
          BY <1>1, <1>6, <4>1, <4>2, <4>3, <4>4 DEF Cobrado
      <3>2. CASE q # r
        <4>1. Cobros(q)' = Cobros(q)
          BY <1>6, <2>1, <3>2 DEF Cobros
        <4>2. QED
          BY <1>5, <3>2, <4>1 DEF Contabilidad, Cobrado
      <3>3. QED
        BY <3>1, <3>2
    <2>5. QED
      BY <2>3, <2>4 DEF Contabilidad
  <1>10. CASE s.op # "pago"
    <2>1. pagos' = pagos
      BY <1>3, <1>10
    <2>2. PagosNumerados'
      BY <1>8, <2>1 DEF Contabilidad, PagosNumerados, Existe
    <2>3. \A q \in Reservas : reservas'[q].pagado = reservas[q].pagado
      BY <1>2, <1>5, <1>10
    <2>4. \A q \in Reservas : Cobrado(q)'
      BY <2>1, <2>3 DEF Contabilidad, Cobrado, Cobros
    <2>5. QED
      BY <2>2, <2>4 DEF Contabilidad
  <1>11. QED
    BY <1>9, <1>10

LEMMA PasoContabilidad == Coherencia /\ Contabilidad /\ [Next]_vars => Contabilidad'
  <1> SUFFICES ASSUME TypeOK, LecturaVigente, PeticionCoherente, HitosRegistrados,
                      Contabilidad, [Next]_vars
               PROVE  Contabilidad'
    BY DEF Coherencia
  <1>1. CASE UNCHANGED <<reservas, pagos>>
    BY <1>1 DEF Contabilidad, PagosNumerados, Existe, Cobrado, Cobros
  <1>2. ASSUME NEW p \in Solicitudes, Lee(p) PROVE Contabilidad'
    BY <1>1, <1>2, LeeNoEscribe
  <1>3. ASSUME NEW p \in Solicitudes, Revertir(p) PROVE Contabilidad'
    BY <1>1, <1>3 DEF Revertir
  <1>4. CASE UNCHANGED vars
    BY <1>1, <1>4 DEF vars
  <1>5. QED
    BY <1>2, <1>3, <1>4, Pasos, InsertarContabilidad, ConfirmarContabilidad

\* What a reservation has paid is the sum of its rows in pagos, refunds
\* negative, although edits and changes of state write the row on the strength
\* of an earlier read: registrar_pago holds the row from its read to its
\* commit, and an UPDATE carries only the columns its session changed.
THEOREM SaldoSiempreConservado == Spec => []SaldoConservado
  <1>1. Init => Contabilidad
    <2> SUFFICES ASSUME Init PROVE Contabilidad
      OBVIOUS
    <2>1. \A r \in Reservas : Cobros(r) = {} /\ reservas[r].pagado = 0
      BY DEF Init, Cobros, Ausente
    <2>2. QED
      BY <2>1, MontosVacio DEF Init, Contabilidad, PagosNumerados, Cobrado
  <1>2. QED
    BY <1>1, PasoContabilidad, CoherenciaInvariante, ContabilidadConserva, PTL DEF Spec

-------------------------------------------------------------------------------
\* What a request in flight knows of dates and totals.
Prudente(s) ==
    LET l == s.leida  n == s.nueva IN
    /\ s.op = "crear" => FechasValidas(n.tipo, n.llegada, n.salida)
    /\ s.op = "editar" =>
          l.pagado <= n.total /\ FechasValidas(l.tipo, n.llegada, n.salida)
    /\ s.op \notin {"libre", "crear", "editar"} =>
          n.total = l.total /\ n.llegada = l.llegada /\ n.salida = l.salida

TipoLeido(s) == s.op \notin {"libre", "crear"} => s.leida.tipo = reservas[s.id].tipo

\* Of what it read, only the type of the row is sure to be still true.
Prudencia == \A p \in Solicitudes : Prudente(sol[p]) /\ TipoLeido(sol[p])

LEMMA PreparaPrudencia ==
    ASSUME TypeOK, Prudencia, NEW p \in Solicitudes, NEW op,
           NEW r, NEW n, NEW h, NEW m,
           Prepara(p, op, r, n, h, m),
           op # "crear" => r \in Reservas,
           Prudente(Lleva(op, r, n, h, m))
    PROVE  Prudencia'
  <1>1. reservas' = reservas /\ sol' = [sol EXCEPT ![p] = Lleva(op, r, n, h, m)]
    BY DEF Prepara, Lleva
  <1> SUFFICES ASSUME NEW q \in Solicitudes
               PROVE  /\ Prudente(sol'[q])
                      /\ sol'[q].op \notin {"libre", "crear"}
                         => sol'[q].leida.tipo = reservas'[sol'[q].id].tipo
    <2>1. ASSUME NEW q \in Solicitudes
          PROVE  Prudente(sol[q])' <=> Prudente(sol'[q])
      BY DEF Prudente, FechasValidas
    <2>2. QED
      BY <2>1 DEF Prudencia, TipoLeido
  <1>2. CASE q = p
    <2>1. sol'[q] = Lleva(op, r, n, h, m)
      BY <1>1, <1>2 DEF TypeOK
    <2>2. /\ sol'[q].op = op /\ sol'[q].id = r
          /\ sol'[q].leida = IF r = SinReserva THEN Ausente ELSE reservas[r]
      BY <2>1 DEF Lleva
    <2>3. QED
      BY <1>1, <2>1, <2>2, ConstantesDeReservas
  <1>3. CASE q # p
    <2>1. sol'[q] = sol[q]
      BY <1>1, <1>3 DEF TypeOK
    <2>2. QED
      BY <1>1, <2>1 DEF Prudencia, TipoLeido
  <1>4. QED
    BY <1>2, <1>3

LEMMA CrearPrudencia ==
    ASSUME TypeOK, Prudencia, NEW p \in Solicitudes, Crear(p)
    PROVE  Prudencia'
  <1>1. PICK tipo \in Tipos, unidad \in Unidades \cup {SinUnidad},
             llegada \in Dias, salida \in Dias, total \in Totales :
          /\ FechasValidas(tipo, llegada, salida)
          /\ Prepara(p, "crear", SinReserva,
                     [tipo |-> tipo, estado |-> "pendiente", unidad |-> unidad,
                      llegada |-> llegada, salida |-> salida, total |-> total,
                      pagado |-> 0],
                     {"reservation.created"}, 0)
    BY DEF Crear
  <1> DEFINE n == [tipo |-> tipo, estado |-> "pendiente", unidad |-> unidad,
                   llegada |-> llegada, salida |-> salida, total |-> total,
                   pagado |-> 0]
  <1>2. FechasValidas(n.tipo, n.llegada, n.salida)
    BY <1>1
  <1> HIDE DEF n
  <1>3. Prudente(Lleva("crear", SinReserva, n, {"reservation.created"}, 0))
    BY <1>2 DEF Prudente, Lleva
  <1>4. QED
    BY <1>1, <1>3, PreparaPrudencia DEF n

LEMMA CambiarEstadoPrudencia ==
    ASSUME TypeOK, Prudencia, NEW p \in Solicitudes, CambiarEstado(p)
    PROVE  Prudencia'
  <1>1. PICK r \in Reservas : \E nuevo \in TransicionesManuales[reservas[r].estado] :
            Prepara(p, "estado", r, [reservas[r] EXCEPT !.estado = nuevo],
                    IF nuevo = "confirmada" THEN {"reservation.confirmed"}
                                            ELSE {"reservation.cancelled"}, 0)
    BY DEF CambiarEstado
  <1>2. PICK nuevo \in TransicionesManuales[reservas[r].estado] :
            Prepara(p, "estado", r, [reservas[r] EXCEPT !.estado = nuevo],
                    IF nuevo = "confirmada" THEN {"reservation.confirmed"}
                                            ELSE {"reservation.cancelled"}, 0)
    BY <1>1
  <1> DEFINE n == [reservas[r] EXCEPT !.estado = nuevo]
             h == IF nuevo = "confirmada" THEN {"reservation.confirmed"}
                                          ELSE {"reservation.cancelled"}
  <1>3. reservas[r] \in Fila
    BY DEF TypeOK
  <1>4. /\ n.total = reservas[r].total /\ n.llegada = reservas[r].llegada
        /\ n.salida = reservas[r].salida
    BY <1>3 DEF Fila
  <1>5. r # SinReserva
    BY ConstantesDeReservas
  <1>6. Prepara(p, "estado", r, n, h, 0)
    BY <1>2
  <1> HIDE DEF n, h
  <1>7. Prudente(Lleva("estado", r, n, h, 0))
    BY <1>4, <1>5 DEF Prudente, Lleva
  <1>8. QED
    BY <1>6, <1>7, PreparaPrudencia

LEMMA ActualizarPrudencia ==
    ASSUME TypeOK, Prudencia, NEW p \in Solicitudes, Actualizar(p)
    PROVE  Prudencia'
  <1>1. PICK r \in Reservas, unidad \in Unidades \cup {SinUnidad},
             llegada \in Dias, salida \in Dias, total \in Totales :
          /\ FechasValidas(reservas[r].tipo, llegada, salida)
          /\ total >= reservas[r].pagado
          /\ Prepara(p, "editar", r,
                     [reservas[r] EXCEPT !.unidad = unidad, !.llegada = llegada,
                                         !.salida = salida, !.total = total], {}, 0)
    BY DEF Actualizar
  <1> DEFINE n == [reservas[r] EXCEPT !.unidad = unidad, !.llegada = llegada,
                                      !.salida = salida, !.total = total]
  <1>2. reservas[r] \in Fila /\ total \in Nat
    BY ConstantesDeReservas DEF TypeOK
  <1>3. n.total = total /\ n.llegada = llegada /\ n.salida = salida
    BY <1>2 DEF Fila
  <1>4. r # SinReserva
    BY ConstantesDeReservas
  <1>5. reservas[r].pagado <= total
    BY <1>1, <1>2 DEF Fila
  <1> HIDE DEF n
  <1>6. Prudente(Lleva("editar", r, n, {}, 0))
    BY <1>1, <1>3, <1>4, <1>5 DEF Prudente, Lleva
  <1>7. QED
    BY <1>1, <1>6, PreparaPrudencia DEF n

LEMMA RegistrarPagoPrudencia ==
    ASSUME TypeOK, Prudencia, NEW p \in Solicitudes, RegistrarPago(p)
    PROVE  Prudencia'
  <1>1. PICK r \in Reservas : \E monto, h :
          Prepara(p, "pago", r, ConPago(reservas[r], monto), h, monto)
    BY DEF RegistrarPago
  <1>2. PICK monto, h : Prepara(p, "pago", r, ConPago(reservas[r], monto), h, monto)
    BY <1>1
  <1> DEFINE n == ConPago(reservas[r], monto)
  <1>3. reservas[r] \in Fila
    BY DEF TypeOK
  <1>4. /\ n.total = reservas[r].total /\ n.llegada = reservas[r].llegada
        /\ n.salida = reservas[r].salida
    BY <1>3 DEF Fila, ConPago
  <1>5. r # SinReserva
    BY ConstantesDeReservas
  <1> HIDE DEF n
  <1>6. Prudente(Lleva("pago", r, n, h, monto))
    BY <1>4, <1>5 DEF Prudente, Lleva
  <1>7. QED
    BY <1>2, <1>6, PreparaPrudencia DEF n

LEMMA VisitaPrudencia ==
    ASSUME TypeOK, Prudencia, NEW p \in Solicitudes, CheckIn(p) \/ CheckOut(p)
    PROVE  Prudencia'
  <1>1. PICK r \in Reservas, op \in {"check_in", "check_out"} : \E e, h :
          Prepara(p, op, r, [reservas[r] EXCEPT !.estado = e], h, 0)
    BY DEF CheckIn, CheckOut
  <1>2. PICK e, h : Prepara(p, op, r, [reservas[r] EXCEPT !.estado = e], h, 0)
    BY <1>1
  <1> DEFINE n == [reservas[r] EXCEPT !.estado = e]
  <1>3. reservas[r] \in Fila
    BY DEF TypeOK
  <1>4. /\ n.total = reservas[r].total /\ n.llegada = reservas[r].llegada
        /\ n.salida = reservas[r].salida
    BY <1>3 DEF Fila
  <1>5. r # SinReserva
    BY ConstantesDeReservas
  <1> HIDE DEF n
  <1>6. Prudente(Lleva(op, r, n, h, 0))
    BY <1>4, <1>5 DEF Prudente, Lleva
  <1>7. QED
    BY <1>2, <1>6, PreparaPrudencia DEF n

\* The type of a row that exists never changes.
LEMMA TipoFijo ==
    ASSUME TypeOK, PeticionCoherente, NEW p \in Solicitudes,
           Insertar(p) \/ Confirmar(p) \/ Revertir(p),
           NEW r \in Reservas, Existe(r)
    PROVE  reservas'[r].tipo = reservas[r].tipo
  <1>1. CASE Insertar(p)
    BY <1>1 DEF Insertar, TypeOK
  <1>2. CASE Confirmar(p)
    <2> DEFINE f == Fusiona(reservas[sol[p].id], sol[p].leida, sol[p].nueva)
    <2>1. reservas' = [reservas EXCEPT ![sol[p].id] = f]
      BY <1>2 DEF Confirmar
    <2>2. f.tipo = reservas[sol[p].id].tipo
      BY DEF Fusiona
    <2> HIDE DEF f
    <2>3. QED
      BY <2>1, <2>2 DEF TypeOK
  <1>3. CASE Revertir(p)
    BY <1>3 DEF Revertir
  <1>4. QED
    BY <1>1, <1>2, <1>3

LEMMA CierrePrudencia ==
    ASSUME TypeOK, PeticionCoherente, Prudencia, NEW p \in Solicitudes,
           Insertar(p) \/ Confirmar(p) \/ Revertir(p)
    PROVE  Prudencia'
  <1>1. sol' = [sol EXCEPT ![p] = Libre]
    BY DEF Insertar, Confirmar, Revertir
  <1> SUFFICES ASSUME NEW q \in Solicitudes
               PROVE  /\ Prudente(sol'[q])
                      /\ sol'[q].op \notin {"libre", "crear"}
                         => sol'[q].leida.tipo = reservas'[sol'[q].id].tipo
    <2>1. ASSUME NEW q \in Solicitudes
          PROVE  Prudente(sol[q])' <=> Prudente(sol'[q])
      BY DEF Prudente, FechasValidas
    <2>2. QED
      BY <2>1 DEF Prudencia, TipoLeido
  <1>2. CASE q = p
    <2>1. sol'[q] = Libre
      BY <1>1, <1>2 DEF TypeOK
    <2>2. QED
      BY <2>1 DEF Prudente, Libre
  <1>3. CASE q # p
    <2>1. sol'[q] = sol[q]
      BY <1>1, <1>3 DEF TypeOK
    <2>2. sol[q].op \notin {"libre", "crear"} => sol[q].id \in Reservas /\ Existe(sol[q].id)
      BY DEF PeticionCoherente
    <2>3. QED
      BY <2>1, <2>2, TipoFijo DEF Prudencia, TipoLeido
  <1>4. QED
    BY <1>2, <1>3

THEOREM PrudenciaInvariante == Spec => []Prudencia
  <1>1. Init => Prudencia
    BY DEF Init, Prudencia, Prudente, TipoLeido, Libre
  <1>2. Coherencia /\ Prudencia /\ [Next]_vars => Prudencia'
    <2> SUFFICES ASSUME TypeOK, PeticionCoherente, Prudencia, [Next]_vars
                 PROVE  Prudencia'
      BY DEF Coherencia
    <2>1. CASE UNCHANGED vars
      <3>1. \A p \in Solicitudes : Prudente(sol[p])' <=> Prudente(sol[p])
        BY <2>1 DEF vars, Prudente, FechasValidas
      <3>2. QED
        BY <2>1, <3>1 DEF vars, Prudencia, TipoLeido
    <2>2. ASSUME NEW p \in Solicitudes, Lee(p)
          PROVE  Prudencia'
      BY <2>2, CrearPrudencia, CambiarEstadoPrudencia, ActualizarPrudencia,
         RegistrarPagoPrudencia, VisitaPrudencia DEF Lee
    <2>3. QED
      BY <2>1, <2>2, CierrePrudencia, Pasos
  <1>3. QED
    BY <1>1, <1>2, CoherenciaInvariante, PTL DEF Spec

\* What a commit over row r does to its dates, its total and what was paid.
LEMMA CorreAlConfirmar ==
    ASSUME TypeOK, LecturaVigente, PeticionCoherente, Prudencia,
           NEW p \in Solicitudes, Confirmar(p), sol[p].id \in Reservas,
           reservas'[sol[p].id] =
               Fusiona(reservas[sol[p].id], sol[p].leida, sol[p].nueva)
    PROVE  LET s == sol[p]  a == reservas[s.id]  d == reservas'[s.id] IN
           /\ s.op = "editar" =>
                 /\ d.pagado = a.pagado /\ (d.total = a.total \/ d.total >= s.leida.pagado)
                 /\ (s.leida.llegada = a.llegada /\ s.leida.salida = a.salida)
                    => FechasValidas(d.tipo, d.llegada, d.salida)
           /\ s.op # "editar" =>
                 /\ d.tipo = a.tipo /\ d.llegada = a.llegada /\ d.salida = a.salida
                 /\ d.total = a.total
                 /\ d.pagado <= a.pagado \/ d.pagado <= d.total
  <1> DEFINE s == sol[p]
             a == reservas[s.id]
             d == reservas'[s.id]
  <1>1. /\ s \in Peticion /\ s.leida \in Fila /\ s.nueva \in Fila /\ s.monto \in Int
        /\ a \in Fila /\ s.op \notin {"libre", "crear"}
        /\ Coherente(s) /\ Prudente(s) /\ s.leida.tipo = a.tipo
    BY DEF TypeOK, Peticion, PeticionCoherente, Prudencia, TipoLeido, Confirmar
  <1>2. /\ d.tipo = a.tipo
        /\ d.llegada = Escribe(a.llegada, s.leida.llegada, s.nueva.llegada)
        /\ d.salida = Escribe(a.salida, s.leida.salida, s.nueva.salida)
        /\ d.total = Escribe(a.total, s.leida.total, s.nueva.total)
        /\ d.pagado = Escribe(a.pagado, s.leida.pagado, s.nueva.pagado)
    BY DEF Fusiona
  <1>3. /\ a.pagado \in Int /\ a.total \in Nat /\ s.nueva.total \in Nat
        /\ s.leida.pagado \in Int
    BY <1>1 DEF Fila
  <1>4. s.op = "pago" => s.leida = a
    BY DEF LecturaVigente, Bloqueantes
  <1> HIDE DEF s, a, d
  <1>5. CASE s.op = "editar"
    <2>1. /\ s.nueva.pagado = s.leida.pagado /\ s.leida.pagado <= s.nueva.total
          /\ FechasValidas(s.leida.tipo, s.nueva.llegada, s.nueva.salida)
      BY <1>1, <1>5 DEF Coherente, Prudente
    <2>2. d.pagado = a.pagado /\ (d.total = a.total \/ d.total >= s.leida.pagado)
      BY <1>2, <1>3, <2>1 DEF Escribe
    <2>3. ASSUME s.leida.llegada = a.llegada, s.leida.salida = a.salida
          PROVE  d.llegada = s.nueva.llegada /\ d.salida = s.nueva.salida
      BY <1>2, <2>3 DEF Escribe
    <2>4. QED
      BY <1>1, <1>2, <1>5, <2>1, <2>2, <2>3 DEF s, a, d
  <1>6. CASE s.op # "editar"
    <2>1. /\ s.nueva.total = s.leida.total /\ s.nueva.llegada = s.leida.llegada
          /\ s.nueva.salida = s.leida.salida
      BY <1>1, <1>6 DEF Prudente
    <2>2. d.llegada = a.llegada /\ d.salida = a.salida /\ d.total = a.total
      BY <1>2, <2>1 DEF Escribe
    <2>3. d.pagado <= a.pagado \/ d.pagado <= d.total
      <3>1. CASE s.op = "pago"
        <4>1. /\ s.nueva.pagado = a.pagado + s.monto
              /\ s.monto > 0 => s.monto <= a.total - a.pagado
          BY <1>1, <1>4, <3>1, ConPagoTipo DEF Coherente, SaldoPendiente
        <4>2. QED
          BY <1>1, <1>2, <1>3, <2>2, <4>1 DEF Escribe
      <3>2. CASE s.op # "pago"
        <4>1. s.nueva.pagado = s.leida.pagado
          BY <1>1, <1>6, <3>2 DEF Coherente, Peticion, Bloqueantes
        <4>2. QED
          BY <1>2, <1>3, <4>1 DEF Escribe
      <3>3. QED
        BY <3>1, <3>2
    <2>4. QED
      BY <1>2, <1>6, <2>2, <2>3 DEF s, a, d
  <1>7. QED
    BY <1>5, <1>6

\* A row that appears is prudent.
LEMMA NacePrudente ==
    ASSUME TypeOK, PeticionCoherente, Prudencia, HitosRegistrados, [Next]_vars,
           NEW r \in Reservas, ~Existe(r), reservas'[r] # reservas[r]
    PROVE  /\ reservas'[r].pagado <= reservas'[r].total
           /\ EstanciaDe(reservas'[r])
  <1>1. ASSUME NEW p \in Solicitudes, Confirmar(p)
        PROVE  FALSE
    <2>1. sol[p].id \in Reservas /\ Existe(sol[p].id)
      BY <1>1 DEF Confirmar, PeticionCoherente
    <2>2. reservas' = [reservas EXCEPT ![sol[p].id] =
                          Fusiona(reservas[sol[p].id], sol[p].leida, sol[p].nueva)]
      BY <1>1 DEF Confirmar
    <2>3. QED
      BY <2>1, <2>2 DEF TypeOK
  <1>2. PICK p \in Solicitudes : Insertar(p)
    BY <1>1, LeeNoEscribe, Pasos DEF vars, Revertir
  <1>3. sol[p].op = "crear" /\ reservas'[r] = sol[p].nueva
    BY <1>2 DEF Insertar, TypeOK
  <1>4. sol[p].nueva.pagado = 0 /\ sol[p].nueva.total \in Nat
    BY <1>3 DEF PeticionCoherente, Coherente, TypeOK, Peticion, Fila
  <1>5. FechasValidas(sol[p].nueva.tipo, sol[p].nueva.llegada, sol[p].nueva.salida)
    BY <1>3 DEF Prudencia, Prudente
  <1>6. QED
    BY <1>3, <1>4, <1>5 DEF EstanciaDe, FechasValidas

\* Money enters a reservation only when, at the moment of the commit, it is not
\* cancelled and its total covers it, and leaves it only down to zero:
\* registrar_pago decides on a row that nobody can change before it commits.
LEMMA ElCobroEsDebido ==
    ASSUME TypeOK, LecturaVigente, PeticionCoherente, HitosRegistrados, [Next]_vars,
           NEW r \in Reservas
    PROVE  CobroDebido(r)
  <1> SUFFICES ASSUME Existe(r)
               PROVE  /\ reservas'[r].pagado > reservas[r].pagado
                         => /\ reservas[r].estado # "cancelada"
                            /\ reservas'[r].pagado <= reservas'[r].total
                      /\ reservas'[r].pagado < reservas[r].pagado
                         => reservas'[r].pagado >= 0
    BY DEF CobroDebido
  <1> DEFINE a == reservas[r]
             d == reservas'[r]
  <1>1. a \in Fila
    BY DEF TypeOK
  <1>2. CASE d.pagado = a.pagado
    BY <1>1, <1>2 DEF Fila
  <1>3. CASE d.pagado # a.pagado
    <2>1. PICK p \in Solicitudes :
            /\ Confirmar(p) /\ sol[p].id = r
            /\ d = Fusiona(a, sol[p].leida, sol[p].nueva)
      BY <1>3, SoloConfirmarCambia
    <2>2. d.pagado >= 0
      BY <2>1 DEF Confirmar
    <2>3. sol[p].nueva.pagado # sol[p].leida.pagado
      BY <1>3, <2>1 DEF Fusiona, Escribe
    <2>4. sol[p] \in Peticion /\ Coherente(sol[p]) /\ sol[p].op \notin {"libre", "crear"}
      BY <2>1 DEF TypeOK, PeticionCoherente, Confirmar
    <2>5. sol[p].op = "pago"
      BY <2>3, <2>4 DEF Coherente, Peticion, Bloqueantes
    <2>6. sol[p].leida = a
      BY <2>1, <2>5 DEF LecturaVigente, Bloqueantes
    <2>7. /\ sol[p].nueva = ConPago(a, sol[p].monto) /\ sol[p].monto \in Int
          /\ sol[p].monto > 0 => a.estado # "cancelada" /\ sol[p].monto <= SaldoPendiente(a)
      BY <2>4, <2>5, <2>6 DEF Coherente, Peticion
    <2>8. d.pagado = a.pagado + sol[p].monto /\ d.total = a.total
      BY <1>1, <2>1, <2>3, <2>6, <2>7 DEF Fusiona, Escribe, ConPago, Fila
    <2>9. a.pagado \in Int /\ a.total \in Nat
      BY <1>1 DEF Fila
    <2>10. QED
      BY <2>2, <2>7, <2>8, <2>9 DEF SaldoPendiente
  <1>4. QED
    BY <1>2, <1>3

\* What was paid passes the total of a reservation only when an edit commits that
\* had read less as paid: payments, refunds and the steps of the visit never do it,
\* because they decide on a locked row.
LEMMA ElSobrepagoEsCarrera ==
    ASSUME TypeOK, LecturaVigente, PeticionCoherente, HitosRegistrados, Prudencia,
           [Next]_vars, NEW r \in Reservas
    PROVE  SobrepagoSoloPorEdicion(r)
  <1> SUFFICES ASSUME reservas[r].pagado <= reservas[r].total,
                      reservas'[r].pagado > reservas'[r].total
               PROVE  \E p \in Solicitudes :
                         /\ sol[p].op = "editar" /\ sol[p].id = r /\ sol'[p] = Libre
                         /\ sol[p].leida.pagado < reservas[r].pagado
    BY DEF SobrepagoSoloPorEdicion
  <1> DEFINE a == reservas[r]
             d == reservas'[r]
  <1>1. a \in Fila /\ d \in Fila
    <2>1. TypeOK'
      BY PasoCoherente DEF Coherencia
    <2>2. QED
      BY <2>1 DEF TypeOK
  <1>2. a.pagado \in Int /\ a.total \in Nat /\ d.pagado \in Int /\ d.total \in Nat
    BY <1>1 DEF Fila
  <1>3. a # d
    BY <1>2
  <1>4. Existe(r)
    BY <1>2, <1>3, NacePrudente
  <1>5. PICK p \in Solicitudes :
          /\ Confirmar(p) /\ sol[p].id = r
          /\ d = Fusiona(a, sol[p].leida, sol[p].nueva)
    BY <1>3, <1>4, SoloConfirmarCambia
  <1>6. sol'[p] = Libre /\ sol[p].leida.pagado \in Int
    BY <1>5 DEF Confirmar, TypeOK, Peticion, Fila
  <1>7. /\ sol[p].op = "editar" =>
              d.pagado = a.pagado /\ (d.total = a.total \/ d.total >= sol[p].leida.pagado)
        /\ sol[p].op # "editar" =>
              d.total = a.total /\ (d.pagado <= a.pagado \/ d.pagado <= d.total)
    BY <1>5, CorreAlConfirmar
  <1>8. sol[p].op = "editar" /\ sol[p].leida.pagado < a.pagado
    BY <1>2, <1>6, <1>7
  <1>9. QED
    BY <1>5, <1>6, <1>8

\* However requests overlap, money enters a reservation only if it is not cancelled
\* and its total covers it at the commit, and only an edit that had read less as
\* paid leaves one for which more was paid than it costs.
THEOREM CobroSiempreLegitimo == Spec => CobroLegitimo
  <1>1. Coherencia /\ Prudencia /\ [Next]_vars
        => [\A r \in Reservas : CobroDebido(r) /\ SobrepagoSoloPorEdicion(r)]_vars
    BY ElCobroEsDebido, ElSobrepagoEsCarrera DEF Coherencia
  <1>2. QED
    BY <1>1, CoherenciaInvariante, PrudenciaInvariante, PTL DEF CobroLegitimo, Spec

\* The dates of a stay become invalid only when an edit commits over dates that it
\* had not read: whoever edits, confirms, cancels or collects alone keeps them.
THEOREM LaEstanciaInvalidaEsCarrera == Spec => EstanciaInvalidaSoloPorCarrera
  <1>1. ASSUME TypeOK, LecturaVigente, PeticionCoherente, HitosRegistrados, Prudencia,
               [Next]_vars, NEW r \in Reservas,
               EstanciaDe(reservas[r]), ~EstanciaDe(reservas'[r])
        PROVE  \E p \in Solicitudes :
                  /\ sol[p].op = "editar" /\ sol[p].id = r /\ sol'[p] = Libre
                  /\ \/ sol[p].leida.llegada # reservas[r].llegada
                     \/ sol[p].leida.salida # reservas[r].salida
    <2> DEFINE a == reservas[r]
               d == reservas'[r]
    <2>1. a # d
      BY <1>1
    <2>2. Existe(r)
      BY <1>1, <2>1, NacePrudente
    <2>3. PICK p \in Solicitudes :
            /\ Confirmar(p) /\ sol[p].id = r
            /\ d = Fusiona(a, sol[p].leida, sol[p].nueva)
      BY <1>1, <2>1, <2>2, SoloConfirmarCambia
    <2>4. sol'[p] = Libre
      BY <1>1, <2>3 DEF Confirmar, TypeOK
    <2>5. /\ (sol[p].op = "editar" /\ sol[p].leida.llegada = a.llegada
              /\ sol[p].leida.salida = a.salida)
             => FechasValidas(d.tipo, d.llegada, d.salida)
          /\ sol[p].op # "editar" =>
                d.tipo = a.tipo /\ d.llegada = a.llegada /\ d.salida = a.salida
      BY <1>1, <2>3, CorreAlConfirmar
    <2>6. ~FechasValidas(d.tipo, d.llegada, d.salida)
      BY <1>1 DEF EstanciaDe, FechasValidas
    <2>7. FechasValidas(a.tipo, a.llegada, a.salida)
      BY <1>1, <2>2 DEF EstanciaDe, FechasValidas, Existe
    <2>8. QED
      BY <2>3, <2>4, <2>5, <2>6, <2>7
  <1>2. Coherencia /\ Prudencia /\ [Next]_vars
        => [\A r \in Reservas :
              EstanciaDe(reservas[r]) /\ ~EstanciaDe(reservas'[r])
              => \E p \in Solicitudes :
                    /\ sol[p].op = "editar" /\ sol[p].id = r /\ sol'[p] = Libre
                    /\ \/ sol[p].leida.llegada # reservas[r].llegada
                       \/ sol[p].leida.salida # reservas[r].salida]_vars
    BY <1>1 DEF Coherencia
  <1>3. QED
    BY <1>2, CoherenciaInvariante, PrudenciaInvariante, PTL
       DEF EstanciaInvalidaSoloPorCarrera, Spec
===============================================================================

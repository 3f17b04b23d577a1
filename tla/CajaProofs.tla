------------------------------ MODULE CajaProofs -------------------------------
(***************************************************************************)
(* Theorems of Caja, for any sets of sessions, cashiers, requests and      *)
(* amounts.  The argument: a payment in flight holds the row lock of a     *)
(* session that is open and of its cashier; the only steps that write that *)
(* row wait for the lock.  Movements are numbered as they commit, so a     *)
(* balance taken at one moment stays a sum of movements that can be named. *)
(***************************************************************************)
EXTENDS Caja, Sumas, FiniteSetTheorems, TLAPS

\* The part of TypeOK that says who writes what; Libros is the other one.
Estructura ==
    /\ sesiones \in [Sesiones -> Sesion]
    /\ candado \in [Sesiones -> Solicitudes \cup {Nadie}]
    /\ sol \in [Solicitudes -> Peticion]
    /\ \A p \in Solicitudes :
          sol[p].op \in {"movimiento", "pago", "cerrar", "guardar"}
          => sol[p].sesion \in Sesiones
    /\ \A p \in Solicitudes : sol[p].op = "abrir" =>
          sol[p].usuario \in Usuarios /\ sol[p].monto \in Nat

\* Movements are numbered in the order they commit.
Numerados ==
    /\ IsFiniteSet(movimientos)
    /\ \A m \in movimientos : m.id \in 1..Cardinality(movimientos)

\* A closing request works on a session that exists, and the sum it has in hand
\* was the balance of that session.
CierreEnCurso ==
    \A p \in Solicitudes :
        /\ sol[p].op \in {"cerrar", "guardar"} => sesiones[sol[p].sesion].estado # "ausente"
        /\ sol[p].op = "guardar" => FueSaldo(sol[p].sesion, calculo[p])

\* The two tables are functions.
Calculos ==
    /\ calculo = [p \in Solicitudes |-> calculo[p]]
    /\ cierre = [s \in Sesiones |-> cierre[s]]

Cuentas == Calculos /\ Numerados /\ CierreEnCurso /\ CierreCuadra

\* Who may write each row.
Turnos == Estructura /\ UnaAbiertaPorUsuario /\ PagoConCajaAbierta

LEMMA LibreTipo == Libre \in Peticion
  BY DEF Libre, Peticion

LEMMA ConSignoEntero == ConSigno \subseteq Int
  <1>1. \A i \in Importes : i \in Int /\ -i \in Int
    BY ConstantesDeCaja
  <1>2. QED
    BY <1>1 DEF ConSigno

LEMMA InicialTurnos == Init => Turnos
  <1> SUFFICES ASSUME Init PROVE Turnos
    OBVIOUS
  <1>1. Ausente \in Sesion
    BY DEF Ausente, Sesion
  <1>2. Estructura
    BY <1>1, LibreTipo DEF Init, Estructura, Libre
  <1>3. UnaAbiertaPorUsuario
    BY DEF Init, UnaAbiertaPorUsuario, Ausente
  <1>4. PagoConCajaAbierta
    BY DEF Init, PagoConCajaAbierta, Libre
  <1>5. QED
    BY <1>2, <1>3, <1>4 DEF Turnos

\* A step that only makes a request remember what it read, with no lock.
LEMMA RecuerdaSinCandado ==
    ASSUME Turnos, NEW p \in Solicitudes,
           NEW op \in {"abrir", "movimiento", "cerrar"},
           NEW s \in Sesiones \cup {SinSesion},
           NEW u \in Usuarios \cup {SinUsuario}, NEW monto \in Int,
           op # "abrir" => s \in Sesiones,
           op = "abrir" => u \in Usuarios /\ monto \in Nat,
           Recuerda(p, op, s, u, monto), UNCHANGED candado
    PROVE  Turnos'
  <1> DEFINE n == [op |-> op, sesion |-> s, usuario |-> u, monto |-> monto]
  <1>1. n \in Peticion /\ n.op = op /\ n.sesion = s /\ n.usuario = u /\ n.monto = monto
    BY DEF Peticion
  <1>2. sol' = [sol EXCEPT ![p] = n]
    BY DEF Recuerda
  <1> HIDE DEF n
  <1>3. UNCHANGED <<sesiones, cierre>>
    BY DEF Recuerda
  <1>4. Estructura'
    BY <1>1, <1>2, <1>3 DEF Turnos, Estructura
  <1>5. PagoConCajaAbierta'
    BY <1>1, <1>2, <1>3 DEF Turnos, Estructura, PagoConCajaAbierta
  <1>6. QED
    BY <1>3, <1>4, <1>5 DEF Turnos, UnaAbiertaPorUsuario

\* A request that ends keeps everything the others know.
LEMMA Termina ==
    ASSUME Turnos, NEW p \in Solicitudes,
           sol' = [sol EXCEPT ![p] = Libre],
           \/ UNCHANGED candado
           \/ Suelta(p)
    PROVE  /\ candado' \in [Sesiones -> Solicitudes \cup {Nadie}]
           /\ sol' \in [Solicitudes -> Peticion]
           /\ \A q \in Solicitudes :
                 sol'[q].op # "libre"
                 => /\ q # p /\ sol'[q] = sol[q]
                    /\ \A s \in Sesiones : candado[s] = q => candado'[s] = q
  <1>1. candado' \in [Sesiones -> Solicitudes \cup {Nadie}]
    BY DEF Turnos, Estructura, Suelta
  <1>2. sol' \in [Solicitudes -> Peticion]
    BY LibreTipo DEF Turnos, Estructura
  <1>3. ASSUME NEW q \in Solicitudes, sol'[q].op # "libre"
        PROVE  /\ q # p /\ sol'[q] = sol[q]
               /\ \A s \in Sesiones : candado[s] = q => candado'[s] = q
    BY <1>3 DEF Turnos, Estructura, Suelta, Libre
  <1>4. QED
    BY <1>1, <1>2, <1>3

\* If the step leaves the open rows that payments hold as they are, the
\* payments in flight keep what they know.
LEMMA TerminaRespetandoPagos ==
    ASSUME Turnos, NEW p \in Solicitudes,
           sol' = [sol EXCEPT ![p] = Libre],
           UNCHANGED candado,
           \A s \in Sesiones :
              (candado[s] # Nadie /\ sesiones[s].estado = "abierta")
              => sesiones'[s] = sesiones[s]
    PROVE  PagoConCajaAbierta'
  <1> SUFFICES ASSUME NEW q \in Solicitudes, sol'[q].op = "pago"
               PROVE  /\ candado'[sol'[q].sesion] = q
                      /\ sesiones'[sol'[q].sesion].estado = "abierta"
                      /\ sesiones'[sol'[q].sesion].usuario = sol'[q].usuario
    BY DEF PagoConCajaAbierta
  <1>1. q # p /\ sol'[q] = sol[q]
    BY DEF Turnos, Estructura, Libre
  <1>2. /\ candado[sol[q].sesion] = q
        /\ sesiones[sol[q].sesion].estado = "abierta"
        /\ sesiones[sol[q].sesion].usuario = sol[q].usuario
        /\ sol[q].sesion \in Sesiones
    BY <1>1 DEF Turnos, Estructura, PagoConCajaAbierta
  <1>3. sesiones'[sol[q].sesion] = sesiones[sol[q].sesion]
    BY <1>2, ConstantesDeCaja
  <1>4. QED
    BY <1>1, <1>2, <1>3

LEMMA TerminaSinEscribir ==
    ASSUME Turnos, NEW p \in Solicitudes,
           sol' = [sol EXCEPT ![p] = Libre],
           UNCHANGED <<sesiones, cierre>>,
           \/ UNCHANGED candado
           \/ Suelta(p)
    PROVE  Turnos'
  <1>1. Estructura'
    BY Termina DEF Turnos, Estructura, Peticion
  <1>2. PagoConCajaAbierta'
    BY Termina DEF Turnos, Estructura, PagoConCajaAbierta
  <1>3. QED
    BY <1>1, <1>2 DEF Turnos, UnaAbiertaPorUsuario

-------------------------------------------------------------------------------
LEMMA PasoInsertarSesion ==
    ASSUME Turnos, NEW p \in Solicitudes, InsertarSesion(p)
    PROVE  Turnos'
  <1>1. PICK s \in Sesiones :
          /\ sol[p].op = "abrir"
          /\ sesiones[s].estado = "ausente"
          /\ UnicaAbierta(sol[p].usuario)
          /\ sesiones' = [sesiones EXCEPT ![s] =
                             [estado |-> "abierta", usuario |-> sol[p].usuario,
                              apertura |-> sol[p].monto]]
          /\ sol' = [sol EXCEPT ![p] = Libre]
          /\ UNCHANGED <<cierre, movimientos, candado, calculo>>
    BY DEF InsertarSesion
  <1> DEFINE n == [estado |-> "abierta", usuario |-> sol[p].usuario,
                   apertura |-> sol[p].monto]
  <1>2. n \in Sesion /\ n.estado = "abierta" /\ n.usuario = sol[p].usuario
    BY <1>1 DEF Turnos, Estructura, Sesion
  <1>3. sesiones' = [sesiones EXCEPT ![s] = n]
    BY <1>1
  <1> HIDE DEF n
  <1>4. sesiones' \in [Sesiones -> Sesion]
    BY <1>2, <1>3 DEF Turnos, Estructura
  <1>5. Estructura'
    BY <1>1, <1>4, Termina DEF Turnos, Estructura, Peticion
  <1>6. UnaAbiertaPorUsuario'
    BY <1>1, <1>2, <1>3
    DEF Turnos, Estructura, UnaAbiertaPorUsuario, UnicaAbierta, Abierta
  <1>7. PagoConCajaAbierta'
    <2>1. \A q \in Sesiones : sesiones[q].estado = "abierta" => sesiones'[q] = sesiones[q]
      BY <1>1, <1>3 DEF Turnos, Estructura
    <2>2. QED
      BY <1>1, <2>1, TerminaRespetandoPagos
  <1>8. QED
    BY <1>5, <1>6, <1>7 DEF Turnos

\* The row a payment locks is open and stays its own.
LEMMA PasoPagar ==
    ASSUME Turnos, NEW p \in Solicitudes, PagarEnEfectivo(p)
    PROVE  Turnos'
  <1>1. PICK s \in Sesiones, monto \in ConSigno :
          /\ Abierta(s)
          /\ TomaCandado(p, s)
          /\ Recuerda(p, "pago", s, sesiones[s].usuario, monto)
    BY DEF PagarEnEfectivo
  <1> DEFINE n == [op |-> "pago", sesion |-> s, usuario |-> sesiones[s].usuario,
                   monto |-> monto]
  <1>2. /\ n \in Peticion /\ n.op = "pago" /\ n.sesion = s
        /\ n.usuario = sesiones[s].usuario
    <2>1. monto \in Int
      BY ConSignoEntero
    <2>2. sesiones[s].usuario \in Usuarios \cup {SinUsuario}
      BY DEF Turnos, Estructura, Sesion
    <2>3. QED
      BY <2>1, <2>2 DEF Peticion
  <1>3. sol' = [sol EXCEPT ![p] = n]
    BY <1>1 DEF Recuerda
  <1> HIDE DEF n
  <1>4. UNCHANGED <<sesiones, cierre>>
    BY <1>1 DEF Recuerda
  <1>5. candado[s] = Nadie /\ candado' = [candado EXCEPT ![s] = p]
    BY <1>1 DEF TomaCandado
  <1>6. Estructura'
    BY <1>2, <1>3, <1>4, <1>5 DEF Turnos, Estructura
  <1>7. PagoConCajaAbierta'
    <2> SUFFICES ASSUME NEW q \in Solicitudes, sol'[q].op = "pago"
                 PROVE  /\ candado'[sol'[q].sesion] = q
                        /\ sesiones'[sol'[q].sesion].estado = "abierta"
                        /\ sesiones'[sol'[q].sesion].usuario = sol'[q].usuario
      BY DEF PagoConCajaAbierta
    <2>1. CASE q = p
      BY <2>1, <1>1, <1>2, <1>3, <1>4, <1>5 DEF Turnos, Estructura, Abierta
    <2>2. CASE q # p
      BY <2>2, <1>3, <1>4, <1>5, ConstantesDeCaja DEF Turnos, Estructura, PagoConCajaAbierta
    <2>3. QED
      BY <2>1, <2>2
  <1>8. QED
    BY <1>4, <1>6, <1>7 DEF Turnos, UnaAbiertaPorUsuario

LEMMA PasoSumar ==
    ASSUME Turnos, NEW p \in Solicitudes, SumarMovimientos(p)
    PROVE  Turnos'
  <1> DEFINE n == [op |-> "guardar", sesion |-> sol[p].sesion,
                   usuario |-> sol[p].usuario, monto |-> sol[p].monto]
  <1>1. /\ n \in Peticion /\ n.op = "guardar" /\ n.sesion = sol[p].sesion
        /\ n.sesion \in Sesiones
    BY DEF Turnos, Estructura, Peticion, SumarMovimientos
  <1>2. sol' = [sol EXCEPT ![p] = n] /\ UNCHANGED <<sesiones, cierre, candado>>
    BY DEF SumarMovimientos
  <1> HIDE DEF n
  <1>3. Estructura'
    BY <1>1, <1>2 DEF Turnos, Estructura
  <1>4. PagoConCajaAbierta'
    BY <1>1, <1>2 DEF Turnos, Estructura, PagoConCajaAbierta
  <1>5. QED
    BY <1>2, <1>3, <1>4 DEF Turnos, UnaAbiertaPorUsuario

\* A close only writes a row nobody has locked.
LEMMA PasoGuardar ==
    ASSUME Turnos, NEW p \in Solicitudes, GuardarCierre(p)
    PROVE  Turnos'
  <1> DEFINE s == sol[p].sesion
             f == [sesiones[s] EXCEPT !.estado = "cerrada"]
  <1>1. /\ s \in Sesiones /\ candado[s] = Nadie
        /\ sol' = [sol EXCEPT ![p] = Libre]
        /\ UNCHANGED candado
    BY DEF GuardarCierre, Turnos, Estructura
  <1>2. f \in Sesion /\ f.estado = "cerrada"
    BY <1>1 DEF Turnos, Estructura, Sesion
  <1>3. sesiones' = [sesiones EXCEPT ![s] = f] /\ UNCHANGED candado
    BY DEF GuardarCierre
  <1> HIDE DEF s, f
  <1>5. Estructura'
    BY <1>1, <1>2, <1>3, Termina DEF Turnos, Estructura, Peticion
  <1>6. UnaAbiertaPorUsuario'
    BY <1>1, <1>2, <1>3 DEF Turnos, Estructura, UnaAbiertaPorUsuario
  <1>7. PagoConCajaAbierta'
    <2>1. \A q \in Sesiones : candado[q] # Nadie => sesiones'[q] = sesiones[q]
      BY <1>1, <1>3 DEF Turnos, Estructura
    <2>2. QED
      BY <1>1, <2>1, TerminaRespetandoPagos
  <1>8. QED
    BY <1>5, <1>6, <1>7 DEF Turnos

LEMMA PasoTurnos == Turnos /\ [Next]_vars => Turnos'
  <1> SUFFICES ASSUME Turnos, [Next]_vars PROVE Turnos'
    OBVIOUS
  <1>1. CASE UNCHANGED vars
    BY <1>1 DEF vars, Turnos, Estructura, UnaAbiertaPorUsuario,
                PagoConCajaAbierta
  <1>2. ASSUME NEW p \in Solicitudes, Abrir(p) PROVE Turnos'
    <2>1. PICK u \in Usuarios, fondo \in Fondos :
              Recuerda(p, "abrir", SinSesion, u, fondo) /\ UNCHANGED candado
      BY <1>2 DEF Abrir
    <2>2. fondo \in Nat /\ fondo \in Int
      BY ConstantesDeCaja
    <2>3. QED
      BY <2>1, <2>2, RecuerdaSinCandado
  <1>3. ASSUME NEW p \in Solicitudes, RegistrarMovimiento(p) PROVE Turnos'
    <2>1. PICK s \in Sesiones, monto \in ConSigno :
              Recuerda(p, "movimiento", s, SinUsuario, monto) /\ UNCHANGED candado
      BY <1>3 DEF RegistrarMovimiento
    <2>2. monto \in Int
      BY ConSignoEntero
    <2>3. QED
      BY <2>1, <2>2, RecuerdaSinCandado
  <1>4. ASSUME NEW p \in Solicitudes, Cerrar(p) PROVE Turnos'
    <2>1. PICK s \in Sesiones, conteo \in Conteos :
              Recuerda(p, "cerrar", s, SinUsuario, conteo) /\ UNCHANGED candado
      BY <1>4 DEF Cerrar
    <2>2. conteo \in Int
      BY ConstantesDeCaja
    <2>3. QED
      BY <2>1, <2>2, RecuerdaSinCandado
  <1>5. ASSUME NEW p \in Solicitudes, InsertarMovimiento(p) PROVE Turnos'
    BY <1>5, TerminaSinEscribir DEF InsertarMovimiento
  <1>6. ASSUME NEW p \in Solicitudes, ConfirmarPago(p) PROVE Turnos'
    BY <1>6, TerminaSinEscribir DEF ConfirmarPago
  <1>7. ASSUME NEW p \in Solicitudes, Revertir(p) PROVE Turnos'
    BY <1>7, TerminaSinEscribir DEF Revertir
  <1>8. QED
    BY <1>1, <1>2, <1>3, <1>4, <1>5, <1>6, <1>7,
       PasoInsertarSesion, PasoPagar, PasoSumar, PasoGuardar DEF Next

-------------------------------------------------------------------------------
\* A movement that commits gets the next number and so changes no balance of
\* an earlier moment.
LEMMA Prefijo ==
    ASSUME NEW M, IsFiniteSet(M), \A m \in M : m.id \in 1..Cardinality(M),
           NEW x, x.id = Cardinality(M) + 1
    PROVE  /\ IsFiniteSet(M \cup {x})
           /\ Cardinality(M) \in Nat
           /\ Cardinality(M \cup {x}) = Cardinality(M) + 1
           /\ \A m \in M \cup {x} : m.id \in 1..Cardinality(M \cup {x})
           /\ \A n \in 0..Cardinality(M) :
                 /\ n \in 0..Cardinality(M \cup {x})
                 /\ \A s \in Sesiones :
                       {m \in M \cup {x} : m.sesion = s /\ m.id <= n}
                          = {m \in M : m.sesion = s /\ m.id <= n}
  <1>1. Cardinality(M) \in Nat
    BY FS_CardinalityType
  <1>2. x \notin M
    BY <1>1
  <1>3. IsFiniteSet(M \cup {x}) /\ Cardinality(M \cup {x}) = Cardinality(M) + 1
    BY <1>2, FS_AddElement
  <1>4. \A m \in M \cup {x} : m.id \in 1..Cardinality(M \cup {x})
    BY <1>1, <1>3
  <1>5. ASSUME NEW n \in 0..Cardinality(M)
        PROVE  /\ n \in 0..Cardinality(M \cup {x})
               /\ \A s \in Sesiones :
                     {m \in M \cup {x} : m.sesion = s /\ m.id <= n}
                        = {m \in M : m.sesion = s /\ m.id <= n}
    BY <1>1, <1>3
  <1>6. QED
    BY <1>1, <1>3, <1>4, <1>5

LEMMA InicialCuentas == Init => Cuentas
  <1> SUFFICES ASSUME Init PROVE Cuentas
    OBVIOUS
  <1>1. Numerados
    BY FS_EmptySet DEF Init, Numerados
  <1>2. CierreEnCurso /\ CierreCuadra
    BY DEF Init, CierreEnCurso, CierreCuadra, Libre, Ausente
  <1>3. Calculos
    BY DEF Init, Calculos
  <1>4. QED
    BY <1>1, <1>2, <1>3 DEF Cuentas

\* A step that writes no row: what the other requests have in hand is still
\* true, so only the request that moves has to be looked at.
LEMMA CuentasSinEscribir ==
    ASSUME Turnos, Cuentas, NEW p \in Solicitudes,
           UNCHANGED <<sesiones, cierre, movimientos>>, Calculos',
           \A q \in Solicitudes : q # p => sol'[q] = sol[q] /\ calculo'[q] = calculo[q],
           sol'[p].op \in {"cerrar", "guardar"} => sesiones[sol'[p].sesion].estado # "ausente",
           sol'[p].op = "guardar" => FueSaldo(sol'[p].sesion, calculo'[p])
    PROVE  Cuentas'
  <1>1. Numerados' /\ CierreCuadra'
    BY DEF Cuentas, Numerados, CierreCuadra, FueSaldo
  <1>2. CierreEnCurso'
    <2> SUFFICES ASSUME NEW q \in Solicitudes
                 PROVE  /\ sol'[q].op \in {"cerrar", "guardar"}
                           => sesiones'[sol'[q].sesion].estado # "ausente"
                        /\ sol'[q].op = "guardar" => FueSaldo(sol[q].sesion, calculo[q])'
      BY DEF CierreEnCurso
    <2>1. CASE q = p
      BY <2>1 DEF FueSaldo
    <2>2. CASE q # p
      <3>1. sol'[q] = sol[q] /\ calculo'[q] = calculo[q]
        BY <2>2
      <3>2. /\ sol[q].op \in {"cerrar", "guardar"} => sesiones[sol[q].sesion].estado # "ausente"
            /\ sol[q].op = "guardar" => FueSaldo(sol[q].sesion, calculo[q])
        BY DEF Cuentas, CierreEnCurso
      <3>3. QED
        BY <3>1, <3>2 DEF FueSaldo
    <2>3. QED
      BY <2>1, <2>2
  <1>3. QED
    BY <1>1, <1>2 DEF Cuentas

LEMMA CuentasRecuerda ==
    ASSUME Turnos, Cuentas, NEW p \in Solicitudes, NEW op, NEW s, NEW u, NEW monto,
           Recuerda(p, op, s, u, monto), op # "guardar",
           op = "cerrar" => s \in Sesiones /\ Abierta(s)
    PROVE  Cuentas'
  <1>1. /\ sol' = [sol EXCEPT ![p] = [op |-> op, sesion |-> s, usuario |-> u,
                                      monto |-> monto]]
        /\ UNCHANGED <<sesiones, cierre, movimientos, calculo>>
    BY DEF Recuerda
  <1>2. \A q \in Solicitudes : q # p => sol'[q] = sol[q] /\ calculo'[q] = calculo[q]
    BY <1>1 DEF Turnos, Estructura
  <1>3. sol'[p].op = op /\ sol'[p].sesion = s
    BY <1>1 DEF Turnos, Estructura
  <1>4. op \in {"cerrar", "guardar"} => sesiones[s].estado # "ausente"
    BY DEF Abierta
  <1>5. Calculos'
    BY <1>1 DEF Cuentas, Calculos
  <1>6. QED
    BY <1>5, <1>1, <1>2, <1>3, <1>4, CuentasSinEscribir

\* A request that ends has nothing in hand.
LEMMA CuentasLibre ==
    ASSUME Turnos, Cuentas, NEW p \in Solicitudes, sol' = [sol EXCEPT ![p] = Libre],
           UNCHANGED <<sesiones, cierre, movimientos>>, Calculos',
           \A q \in Solicitudes : q # p => calculo'[q] = calculo[q]
    PROVE  Cuentas'
  <1>1. /\ \A q \in Solicitudes : q # p => sol'[q] = sol[q]
        /\ sol'[p].op = "libre"
    BY DEF Turnos, Estructura, Libre
  <1>2. QED
    BY <1>1, CuentasSinEscribir

\* A movement enters: every earlier balance remains one.
LEMMA CuentasAgrega ==
    ASSUME Turnos, Cuentas, NEW p \in Solicitudes, NEW pago, sol[p].sesion \in Sesiones,
           Agrega(sol[p].sesion, sol[p].monto, pago),
           sol' = [sol EXCEPT ![p] = Libre],
           UNCHANGED <<sesiones, cierre, calculo>>
    PROVE  Cuentas'
  <1>1. PICK x : x.id = Cardinality(movimientos) + 1 /\ movimientos' = movimientos \cup {x}
    BY DEF Agrega
  <1>2. IsFiniteSet(movimientos) /\ \A m \in movimientos : m.id \in 1..Cardinality(movimientos)
    BY DEF Cuentas, Numerados
  <1>3. Numerados'
    BY <1>1, <1>2, Prefijo DEF Numerados
  <1>4. \A n \in 0..Cardinality(movimientos) :
           /\ n \in 0..Cardinality(movimientos')
           /\ \A s \in Sesiones :
                 {m \in movimientos' : m.sesion = s /\ m.id <= n}
                    = {m \in movimientos : m.sesion = s /\ m.id <= n}
    BY <1>1, <1>2, Prefijo
  <1>5. \A q \in Solicitudes : q # p => sol'[q] = sol[q]
    BY DEF Turnos, Estructura
  <1>6. sol'[p].op = "libre"
    BY DEF Turnos, Estructura, Libre
  <1>7. CierreEnCurso'
    <2> SUFFICES ASSUME NEW q \in Solicitudes, sol'[q].op \in {"cerrar", "guardar"}
                 PROVE  /\ sesiones'[sol'[q].sesion].estado # "ausente"
                        /\ sol'[q].op = "guardar" => FueSaldo(sol[q].sesion, calculo[q])'
      BY <1>5, <1>6 DEF CierreEnCurso
    <2>1. q # p /\ sol'[q] = sol[q] /\ sol[q].sesion \in Sesiones
      BY <1>5, <1>6 DEF Turnos, Estructura
    <2>2. sesiones[sol[q].sesion].estado # "ausente"
      BY <2>1 DEF Cuentas, CierreEnCurso
    <2>3. ASSUME sol[q].op = "guardar" PROVE FueSaldo(sol[q].sesion, calculo[q])'
      <3>1. PICK n \in 0..Cardinality(movimientos) :
               calculo[q] = sesiones[sol[q].sesion].apertura
                 + Suma({m \in movimientos : m.sesion = sol[q].sesion /\ m.id <= n})
        BY <2>3 DEF Cuentas, CierreEnCurso, FueSaldo
      <3>2. n \in 0..Cardinality(movimientos')
        BY <1>4
      <3>3. calculo'[q] = sesiones'[sol'[q].sesion].apertura
                 + Suma({m \in movimientos' : m.sesion = sol'[q].sesion /\ m.id <= n})
        BY <1>4, <2>1, <3>1
      <3>4. QED
        BY <3>2, <3>3 DEF FueSaldo
    <2>4. QED
      BY <2>1, <2>2, <2>3
  <1>8. CierreCuadra'
    <2> SUFFICES ASSUME NEW s \in Sesiones, sesiones'[s].estado = "cerrada"
                 PROVE  /\ FueSaldo(s, cierre[s].esperado)'
                        /\ cierre'[s].diferencia = cierre'[s].real - cierre'[s].esperado
      BY DEF CierreCuadra
    <2>1. PICK n \in 0..Cardinality(movimientos) :
             cierre[s].esperado = sesiones[s].apertura
               + Suma({m \in movimientos : m.sesion = s /\ m.id <= n})
      BY DEF Cuentas, CierreCuadra, FueSaldo
    <2>2. n \in 0..Cardinality(movimientos')
      BY <1>4
    <2>3. cierre'[s].esperado = sesiones'[s].apertura
               + Suma({m \in movimientos' : m.sesion = s /\ m.id <= n})
      BY <1>4, <2>1
    <2>4. QED
      BY <2>2, <2>3 DEF FueSaldo, Cuentas, CierreCuadra
  <1>9. Calculos'
    BY DEF Cuentas, Calculos
  <1>10. QED
    BY <1>9, <1>3, <1>7, <1>8 DEF Cuentas

\* The sum of a close is the balance of the moment it is taken.
LEMMA CuentasSumar ==
    ASSUME Turnos, Cuentas, NEW p \in Solicitudes, SumarMovimientos(p)
    PROVE  Cuentas'
  <1> DEFINE s == sol[p].sesion
  <1>1. /\ s \in Sesiones
        /\ sol'[p].op = "guardar" /\ sol'[p].sesion = s
        /\ \A q \in Solicitudes : q # p => sol'[q] = sol[q]
        /\ UNCHANGED <<sesiones, cierre, movimientos>>
        /\ sesiones[s].estado # "ausente"
    BY DEF SumarMovimientos, Turnos, Estructura, Cuentas, CierreEnCurso
  <1>2. Cardinality(movimientos) \in Nat
    BY FS_CardinalityType DEF Cuentas, Numerados
  <1>3. {m \in movimientos : m.sesion = s}
          = {m \in movimientos : m.sesion = s /\ m.id <= Cardinality(movimientos)}
    BY <1>2 DEF Cuentas, Numerados
  <1>4. FueSaldo(s, Saldo(s))
    <2>1. Cardinality(movimientos) \in 0..Cardinality(movimientos)
      BY <1>2
    <2>2. QED
      BY <1>3, <2>1 DEF FueSaldo, Saldo
  <1>5. calculo' = [calculo EXCEPT ![p] = Saldo(s)]
    BY DEF SumarMovimientos
  <1> HIDE DEF s
  <1>6. Numerados' /\ CierreCuadra'
    BY <1>1 DEF Cuentas, Numerados, CierreCuadra, FueSaldo
  <1>7. Calculos'
    BY <1>1, <1>5 DEF Cuentas, Calculos
  <1>8. QED
    BY <1>7, <1>1, <1>4, <1>5, CuentasSinEscribir DEF Turnos, Estructura, Cuentas, Calculos

\* A new session is nobody's business yet.
LEMMA CuentasInsertar ==
    ASSUME Turnos, Cuentas, NEW p \in Solicitudes, InsertarSesion(p)
    PROVE  Cuentas'
  <1>1. PICK s \in Sesiones :
          /\ sesiones[s].estado = "ausente"
          /\ sesiones' = [sesiones EXCEPT ![s] =
                             [estado |-> "abierta", usuario |-> sol[p].usuario,
                              apertura |-> sol[p].monto]]
          /\ sol' = [sol EXCEPT ![p] = Libre]
          /\ UNCHANGED <<cierre, movimientos, candado, calculo>>
    BY DEF InsertarSesion
  <1>2. /\ \A q \in Solicitudes : q # p => sol'[q] = sol[q]
        /\ sol'[p].op = "libre"
        /\ sesiones'[s].estado = "abierta"
        /\ \A t \in Sesiones : t # s => sesiones'[t] = sesiones[t]
    BY <1>1 DEF Turnos, Estructura, Libre
  <1>3. Numerados'
    BY <1>1 DEF Cuentas, Numerados
  <1>4. CierreEnCurso'
    <2> SUFFICES ASSUME NEW q \in Solicitudes, sol'[q].op \in {"cerrar", "guardar"}
                 PROVE  /\ sesiones'[sol'[q].sesion].estado # "ausente"
                        /\ sol'[q].op = "guardar" => FueSaldo(sol[q].sesion, calculo[q])'
      BY <1>2 DEF CierreEnCurso
    <2>1. q # p /\ sol'[q] = sol[q] /\ sol[q].sesion \in Sesiones
      BY <1>2 DEF Turnos, Estructura
    <2>2. sesiones[sol[q].sesion].estado # "ausente"
      BY <2>1 DEF Cuentas, CierreEnCurso
    <2>3. sesiones'[sol[q].sesion] = sesiones[sol[q].sesion]
      BY <1>1, <1>2, <2>1, <2>2
    <2>4. sol[q].op = "guardar" => FueSaldo(sol[q].sesion, calculo[q])
      BY DEF Cuentas, CierreEnCurso
    <2>5. QED
      BY <1>1, <2>1, <2>2, <2>3, <2>4 DEF FueSaldo
  <1>5. CierreCuadra'
    <2> SUFFICES ASSUME NEW t \in Sesiones, sesiones'[t].estado = "cerrada"
                 PROVE  /\ FueSaldo(t, cierre[t].esperado)'
                        /\ cierre'[t].diferencia = cierre'[t].real - cierre'[t].esperado
      BY DEF CierreCuadra
    <2>1. sesiones'[t] = sesiones[t]
      BY <1>2
    <2>2. QED
      BY <1>1, <2>1 DEF FueSaldo, Cuentas, CierreCuadra
  <1>6. Calculos'
    BY <1>1 DEF Cuentas, Calculos
  <1>7. QED
    BY <1>6, <1>3, <1>4, <1>5 DEF Cuentas

\* The close stores the balance it had in hand.
LEMMA CuentasGuardar ==
    ASSUME Turnos, Cuentas, NEW p \in Solicitudes, GuardarCierre(p)
    PROVE  Cuentas'
  <1> DEFINE s == sol[p].sesion
             c == Cierre(s, calculo[p], sol[p].monto)
  <1>1. s \in Sesiones /\ sesiones[s].estado # "ausente" /\ FueSaldo(s, calculo[p])
    BY DEF GuardarCierre, Turnos, Estructura, Cuentas, CierreEnCurso
  <1>2. c.esperado = calculo[p] /\ c.diferencia = c.real - c.esperado
    BY DEF Cierre
  <1>3. /\ sesiones' = [sesiones EXCEPT ![s].estado = "cerrada"]
        /\ cierre' = [cierre EXCEPT ![s] = c]
        /\ sol' = [sol EXCEPT ![p] = Libre]
        /\ calculo' = [calculo EXCEPT ![p] = 0]
        /\ UNCHANGED movimientos
    BY DEF GuardarCierre
  <1> HIDE DEF s, c
  <1>4. /\ \A q \in Solicitudes : q # p => sol'[q] = sol[q] /\ calculo'[q] = calculo[q]
        /\ sol'[p].op = "libre"
        /\ cierre'[s] = c
        /\ \A t \in Sesiones : t # s => sesiones'[t] = sesiones[t] /\ cierre'[t] = cierre[t]
    BY <1>1, <1>3 DEF Turnos, Estructura, Libre, Cuentas, Calculos
  <1>5. /\ \A t \in Sesiones : sesiones'[t].apertura = sesiones[t].apertura
        /\ sesiones'[s].estado = "cerrada"
    BY <1>1, <1>3 DEF Turnos, Estructura, Sesion
  <1>6. Numerados'
    BY <1>3 DEF Cuentas, Numerados
  <1>7. CierreEnCurso'
    <2> SUFFICES ASSUME NEW q \in Solicitudes, sol'[q].op \in {"cerrar", "guardar"}
                 PROVE  /\ sesiones'[sol'[q].sesion].estado # "ausente"
                        /\ sol'[q].op = "guardar" => FueSaldo(sol[q].sesion, calculo[q])'
      BY <1>4 DEF CierreEnCurso
    <2>1. q # p /\ sol'[q] = sol[q] /\ calculo'[q] = calculo[q] /\ sol[q].sesion \in Sesiones
      BY <1>4 DEF Turnos, Estructura
    <2>2. sesiones'[sol[q].sesion].estado # "ausente"
      BY <1>4, <1>5, <2>1 DEF Cuentas, CierreEnCurso
    <2>3. sol[q].op = "guardar" => FueSaldo(sol[q].sesion, calculo[q])
      BY DEF Cuentas, CierreEnCurso
    <2>4. QED
      BY <1>3, <1>5, <2>1, <2>2, <2>3 DEF FueSaldo
  <1>8. CierreCuadra'
    <2> SUFFICES ASSUME NEW t \in Sesiones, sesiones'[t].estado = "cerrada"
                 PROVE  /\ FueSaldo(t, cierre[t].esperado)'
                        /\ cierre'[t].diferencia = cierre'[t].real - cierre'[t].esperado
      BY DEF CierreCuadra
    <2>1. CASE t = s
      <3>1. /\ cierre'[t].esperado = calculo[p]
            /\ cierre'[t].diferencia = cierre'[t].real - cierre'[t].esperado
            /\ sesiones'[t].apertura = sesiones[t].apertura
            /\ FueSaldo(t, calculo[p])
        BY <1>1, <1>2, <1>4, <1>5, <2>1
      <3>2. PICK n \in 0..Cardinality(movimientos) :
               calculo[p] = sesiones[t].apertura
                 + Suma({m \in movimientos : m.sesion = t /\ m.id <= n})
        BY <3>1 DEF FueSaldo
      <3>3. n \in 0..Cardinality(movimientos')
        BY <1>3
      <3>4. cierre'[t].esperado = sesiones'[t].apertura
                 + Suma({m \in movimientos' : m.sesion = t /\ m.id <= n})
        BY <1>3, <3>1, <3>2
      <3>5. QED
        BY <3>1, <3>3, <3>4 DEF FueSaldo
    <2>2. CASE t # s
      BY <1>3, <1>4, <1>5, <2>2 DEF FueSaldo, Cuentas, CierreCuadra
    <2>3. QED
      BY <2>1, <2>2
  <1>9. Calculos'
    BY <1>3 DEF Cuentas, Calculos
  <1>10. QED
    BY <1>9, <1>6, <1>7, <1>8 DEF Cuentas

LEMMA PasoCuentas == Turnos /\ Cuentas /\ [Next]_vars => Cuentas'
  <1> SUFFICES ASSUME Turnos, Cuentas, [Next]_vars PROVE Cuentas'
    OBVIOUS
  <1>1. CASE UNCHANGED vars
    BY <1>1 DEF vars, Cuentas, Calculos, Numerados, CierreEnCurso, CierreCuadra, FueSaldo
  <1>2. ASSUME NEW p \in Solicitudes,
               Abrir(p) \/ RegistrarMovimiento(p) \/ PagarEnEfectivo(p)
        PROVE  Cuentas'
    <2>1. PICK op \in {"abrir", "movimiento", "pago"} :
             \E s, u, monto : Recuerda(p, op, s, u, monto)
      BY <1>2 DEF Abrir, RegistrarMovimiento, PagarEnEfectivo
    <2>2. QED
      BY <2>1, CuentasRecuerda
  <1>3. ASSUME NEW p \in Solicitudes, Cerrar(p) PROVE Cuentas'
    <2>1. PICK s \in Sesiones, conteo \in Conteos :
              Abierta(s) /\ Recuerda(p, "cerrar", s, SinUsuario, conteo)
      BY <1>3 DEF Cerrar
    <2>2. QED
      BY <2>1, CuentasRecuerda
  <1>4. ASSUME NEW p \in Solicitudes, InsertarMovimiento(p) \/ ConfirmarPago(p) PROVE Cuentas'
    <2>1. sol[p].sesion \in Sesiones
      BY <1>4 DEF InsertarMovimiento, ConfirmarPago, Turnos, Estructura
    <2>2. QED
      BY <1>4, <2>1, CuentasAgrega DEF InsertarMovimiento, ConfirmarPago
  <1>5. ASSUME NEW p \in Solicitudes, Revertir(p) PROVE Cuentas'
    <2>1. Calculos' /\ \A q \in Solicitudes : q # p => calculo'[q] = calculo[q]
      BY <1>5 DEF Revertir, Cuentas, Calculos
    <2>2. QED
      BY <1>5, <2>1, CuentasLibre DEF Revertir
  <1>6. QED
    BY <1>1, <1>2, <1>3, <1>4, <1>5, CuentasInsertar, CuentasSumar, CuentasGuardar DEF Next

-------------------------------------------------------------------------------
\* The amounts: the rest of TypeOK, and that a close counts money.
Libros ==
    /\ movimientos \subseteq Movimiento
    /\ cierre \in [Sesiones -> [esperado : Int, real : Nat, diferencia : Int]]
    /\ calculo \in [Solicitudes -> Int]
    /\ \A p \in Solicitudes :
          sol[p].op \in {"cerrar", "guardar"} => sol[p].monto \in Nat

\* A balance is an amount: a finite sum of amounts on top of the opening one.
LEMMA SaldoEntero ==
    ASSUME Turnos, Numerados, Libros, NEW s \in Sesiones
    PROVE  Saldo(s) \in Int
  <1> DEFINE M == {m \in movimientos : m.sesion = s}
  <1>1. IsFiniteSet(M) /\ \A m \in M : m.monto \in Int
    <2>1. M \subseteq movimientos /\ IsFiniteSet(movimientos)
      BY DEF Numerados
    <2>2. IsFiniteSet(M)
      BY <2>1, FS_Subset
    <2>3. QED
      BY <2>2 DEF Libros, Movimiento
  <1>2. Suma(M) = SumaMontos(M)
    BY DEF Suma, SumaMontos
  <1> HIDE DEF M
  <1>3. SumaMontos(M) \in Int
    BY <1>1, MontosTipo
  <1>4. sesiones[s].apertura \in Nat
    BY DEF Turnos, Estructura, Sesion
  <1>5. QED
    BY <1>2, <1>3, <1>4 DEF Saldo, M

\* A step that writes no movement, close or balance keeps the books if the
\* request it changes is not a close, or counts money.
LEMMA LibrosSinEscribir ==
    ASSUME Turnos, Libros, NEW p \in Solicitudes,
           UNCHANGED <<movimientos, cierre>>, calculo' \in [Solicitudes -> Int],
           \A q \in Solicitudes : q # p => sol'[q] = sol[q],
           sol'[p].op \in {"cerrar", "guardar"} => sol'[p].monto \in Nat
    PROVE  Libros'
  BY DEF Libros, Movimiento

LEMMA LibrosRecuerda ==
    ASSUME Turnos, Libros, NEW p \in Solicitudes, NEW op, NEW s, NEW u, NEW monto,
           Recuerda(p, op, s, u, monto),
           op \in {"cerrar", "guardar"} => monto \in Nat
    PROVE  Libros'
  <1>1. /\ sol'[p].op = op /\ sol'[p].monto = monto
        /\ \A q \in Solicitudes : q # p => sol'[q] = sol[q]
        /\ UNCHANGED <<movimientos, cierre>>
        /\ calculo' \in [Solicitudes -> Int]
    BY DEF Recuerda, Turnos, Estructura, Libros
  <1>2. QED
    BY <1>1, LibrosSinEscribir

LEMMA LibrosLibre ==
    ASSUME Turnos, Libros, NEW p \in Solicitudes, sol' = [sol EXCEPT ![p] = Libre]
    PROVE  /\ \A q \in Solicitudes : q # p => sol'[q] = sol[q]
           /\ sol'[p].op = "libre"
  BY DEF Turnos, Estructura, Libre

LEMMA LibrosAgrega ==
    ASSUME Turnos, Numerados, Libros, NEW p \in Solicitudes, NEW pago \in BOOLEAN,
           sol[p].sesion \in Sesiones, Agrega(sol[p].sesion, sol[p].monto, pago),
           sol' = [sol EXCEPT ![p] = Libre], UNCHANGED <<cierre, calculo>>
    PROVE  Libros'
  <1> DEFINE n == Cardinality(movimientos) + 1
             x == [id |-> n, sesion |-> sol[p].sesion, monto |-> sol[p].monto, pago |-> pago]
  <1>1. n \in 1..MaxMovimientos
    BY FS_CardinalityType, ConstantesDeCaja DEF Numerados, Agrega
  <1>2. sol[p].monto \in Int
    BY DEF Turnos, Estructura, Peticion
  <1>3. x \in Movimiento
    BY <1>1, <1>2 DEF Movimiento
  <1>4. movimientos' = movimientos \cup {x}
    BY DEF Agrega
  <1> HIDE DEF x
  <1>5. movimientos' \subseteq Movimiento
    BY <1>3, <1>4 DEF Libros
  <1>6. QED
    BY <1>5, LibrosLibre DEF Libros, Movimiento

LEMMA LibrosGuardar ==
    ASSUME Turnos, Libros, NEW p \in Solicitudes, GuardarCierre(p)
    PROVE  Libros'
  <1> DEFINE c == Cierre(sol[p].sesion, calculo[p], sol[p].monto)
  <1>1. calculo[p] \in Int /\ sol[p].monto \in Nat
    BY DEF GuardarCierre, Libros
  <1>2. c \in [esperado : Int, real : Nat, diferencia : Int]
    BY <1>1 DEF Cierre
  <1>3. /\ cierre' = [cierre EXCEPT ![sol[p].sesion] = c]
        /\ sol' = [sol EXCEPT ![p] = Libre]
        /\ calculo' = [calculo EXCEPT ![p] = 0]
        /\ UNCHANGED movimientos
    BY DEF GuardarCierre
  <1> DEFINE R == [esperado : Int, real : Nat, diferencia : Int]
  <1> HIDE DEF c
  <1>4. cierre' \in [Sesiones -> R]
    <2>1. c \in R /\ cierre \in [Sesiones -> R]
      BY <1>2 DEF Libros
    <2> HIDE DEF R
    <2>2. QED
      BY <1>3, <2>1
  <1>5. calculo' \in [Solicitudes -> Int]
    BY <1>3 DEF Libros
  <1>6. QED
    BY <1>3, <1>4, <1>5, LibrosLibre DEF Libros, Movimiento

LEMMA PasoLibros == Turnos /\ Cuentas /\ Libros /\ [Next]_vars => Libros'
  <1> SUFFICES ASSUME Turnos, Cuentas, Libros, [Next]_vars PROVE Libros'
    OBVIOUS
  <1> Numerados
    BY DEF Cuentas
  <1>1. CASE UNCHANGED vars
    BY <1>1 DEF vars, Libros, Movimiento
  <1>2. ASSUME NEW p \in Solicitudes,
               Abrir(p) \/ RegistrarMovimiento(p) \/ PagarEnEfectivo(p)
        PROVE  Libros'
    <2>1. PICK op \in {"abrir", "movimiento", "pago"} :
             \E s, u, monto : Recuerda(p, op, s, u, monto)
      BY <1>2 DEF Abrir, RegistrarMovimiento, PagarEnEfectivo
    <2>2. QED
      BY <2>1, LibrosRecuerda
  <1>3. ASSUME NEW p \in Solicitudes, Cerrar(p) PROVE Libros'
    <2>1. PICK s \in Sesiones, conteo \in Conteos : Recuerda(p, "cerrar", s, SinUsuario, conteo)
      BY <1>3 DEF Cerrar
    <2>2. conteo \in Nat
      BY ConstantesDeCaja
    <2>3. QED
      BY <2>1, <2>2, LibrosRecuerda
  <1>4. ASSUME NEW p \in Solicitudes, InsertarMovimiento(p) \/ ConfirmarPago(p) PROVE Libros'
    <2>1. sol[p].sesion \in Sesiones
      BY <1>4 DEF InsertarMovimiento, ConfirmarPago, Turnos, Estructura
    <2>2. QED
      BY <1>4, <2>1, LibrosAgrega DEF InsertarMovimiento, ConfirmarPago
  <1>5. ASSUME NEW p \in Solicitudes, SumarMovimientos(p) PROVE Libros'
    <2>1. sol[p].sesion \in Sesiones /\ sol[p].monto \in Nat
      BY <1>5 DEF SumarMovimientos, Turnos, Estructura, Libros
    <2>2. Saldo(sol[p].sesion) \in Int
      BY <2>1, SaldoEntero
    <2>3. calculo' \in [Solicitudes -> Int]
      BY <1>5, <2>2 DEF SumarMovimientos, Libros
    <2>4. sol'[p].monto = sol[p].monto /\ \A q \in Solicitudes : q # p => sol'[q] = sol[q]
      BY <1>5 DEF SumarMovimientos, Turnos, Estructura
    <2>5. QED
      BY <1>5, <2>1, <2>3, <2>4, LibrosSinEscribir DEF SumarMovimientos
  <1>6. ASSUME NEW p \in Solicitudes, InsertarSesion(p) \/ Revertir(p) PROVE Libros'
    <2>1. /\ sol' = [sol EXCEPT ![p] = Libre]
          /\ UNCHANGED <<movimientos, cierre>>
          /\ calculo' \in [Solicitudes -> Int]
      BY <1>6 DEF InsertarSesion, Revertir, Libros
    <2>2. QED
      BY <2>1, LibrosLibre, LibrosSinEscribir
  <1>7. QED
    BY <1>1, <1>2, <1>3, <1>4, <1>5, <1>6, LibrosGuardar DEF Next

\* The inductive invariant of the theorems.
Invariante == Turnos /\ Cuentas /\ Libros

LEMMA InicialLibros == Init => Libros
  BY DEF Init, Libros, SinCierre, Libre

LEMMA Siempre == Spec => []Invariante
  BY InicialTurnos, InicialCuentas, InicialLibros, PasoTurnos, PasoCuentas, PasoLibros, PTL
     DEF Spec, Invariante

-------------------------------------------------------------------------------
\* No cashier ever has two open sessions: the partial unique index decides
\* between requests that open at the same time (abrir_sesion).
THEOREM UnaSolaAbierta == Spec => []UnaAbiertaPorUsuario
  <1>1. Invariante => UnaAbiertaPorUsuario
    BY DEF Invariante, Turnos, Cuentas
  <1>2. QED
    BY <1>1, Siempre, PTL

\* The amount a close expects is a balance its session had at one moment, and
\* the difference is the one of the same close (cerrar_sesion).
THEOREM ElCierreCuadra == Spec => []CierreCuadra
  <1>1. Invariante => CierreCuadra
    BY DEF Invariante, Turnos, Cuentas
  <1>2. QED
    BY <1>1, Siempre, PTL

\* The money of a payment only enters an open session (registrar_pago).
THEOREM PagoSiempreEnCajaAbierta == Spec => PagoEnCajaAbierta
  <1> DEFINE P == \A m \in movimientos' \ movimientos :
                     m.pago => sesiones[m.sesion].estado = "abierta"
  <1>1. Invariante /\ [Next]_vars => [P]_vars
    <2> SUFFICES ASSUME Invariante, [Next]_vars PROVE [P]_vars
      OBVIOUS
    <2>1. CASE UNCHANGED vars
      BY <2>1
    <2>2. CASE Next
      <3> SUFFICES ASSUME NEW m \in movimientos' \ movimientos, m.pago
                   PROVE  sesiones[m.sesion].estado = "abierta"
        OBVIOUS
      <3>1. PICK p \in Solicitudes : InsertarMovimiento(p) \/ ConfirmarPago(p)
        BY <2>2 DEF Next, Abrir, InsertarSesion, RegistrarMovimiento, PagarEnEfectivo,
                    Cerrar, SumarMovimientos, GuardarCierre, Revertir, Recuerda
      <3>2. CASE InsertarMovimiento(p)
        BY <3>2 DEF InsertarMovimiento, Agrega
      <3>3. CASE ConfirmarPago(p)
        <4>1. m.sesion = sol[p].sesion /\ sol[p].op = "pago"
          BY <3>3 DEF ConfirmarPago, Agrega
        <4>2. QED
          BY <4>1 DEF Invariante, Turnos, PagoConCajaAbierta
      <3>4. QED
        BY <3>1, <3>2, <3>3
    <2>3. QED
      BY <2>1, <2>2
  <1>2. QED
    BY <1>1, Siempre, PTL DEF Spec, PagoEnCajaAbierta

\* The tables keep their types, balances computed from sums of movements
\* included, and a payment in flight holds the lock of a session that is open
\* and of its cashier, for any number of cashiers, sessions and requests.
THEOREM CajaSiempreCoherente == Spec => []CajaCoherente
  <1>1. Invariante => CajaCoherente
    <2> SUFFICES ASSUME Invariante PROVE TypeOK /\ UnaAbiertaPorUsuario /\ PagoConCajaAbierta
      BY DEF CajaCoherente
    <2>1. Turnos /\ Numerados /\ Libros
      BY DEF Invariante, Cuentas
    <2>2. QED
      BY <2>1 DEF Turnos, Estructura, Numerados, Libros, TypeOK
  <1>2. QED
    BY <1>1, Siempre, PTL
===============================================================================

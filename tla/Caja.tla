--------------------------------- MODULE Caja ----------------------------------
(***************************************************************************)
(* Cash sessions: a cashier opens one, movements and cash payments go into *)
(* it, and it is closed against the money counted.                         *)
(*                                                                         *)
(* Requests overlap, each one a transaction at READ COMMITTED.  Opening,   *)
(* manual movements and closing check first and write later, without a     *)
(* lock.  A cash payment locks the session with SELECT ... FOR UPDATE; the *)
(* foreign key of a new movement and the UPDATE that closes wait for it.   *)
(***************************************************************************)
EXTENDS Integers, FiniteSets, FiniteSetsExt

CONSTANTS
    Sesiones,       \* rows the table caja_sesiones can hold
    SinSesion,      \* no session
    Usuarios,       \* cashiers
    SinUsuario,     \* no user
    Solicitudes,    \* requests in flight at the same time
    Nadie,          \* holder of a free row lock
    Fondos,         \* opening amounts
    Importes,       \* amounts of a movement
    Conteos,        \* money counted when closing
    MaxMovimientos  \* bound on the rows of caja_movimientos

ASSUME ConstantesDeCaja ==
    /\ SinSesion \notin Sesiones
    /\ SinUsuario \notin Usuarios
    /\ Nadie \notin Solicitudes
    /\ Fondos \subseteq Nat
    /\ Importes \subseteq Nat \ {0}
    /\ Conteos \subseteq Nat
    /\ MaxMovimientos \in Nat

VARIABLES
    sesiones,     \* table caja_sesiones: state, cashier and opening amount
    cierre,       \* the columns of caja_sesiones that a close fills
    movimientos,  \* table caja_movimientos: [id, sesion, monto, pago], egresos negative
    candado,      \* holder of the row lock of each session
    sol,          \* what each request has in hand
    calculo       \* the balance a closing request computed

vars == <<sesiones, cierre, movimientos, candado, sol, calculo>>

-------------------------------------------------------------------------------
Sesion == [estado : {"ausente", "abierta", "cerrada"},
           usuario : Usuarios \cup {SinUsuario}, apertura : Nat]

Ausente == [estado |-> "ausente", usuario |-> SinUsuario, apertura |-> 0]

SinCierre == [esperado |-> 0, real |-> 0, diferencia |-> 0]

Movimiento == [id : 1..MaxMovimientos, sesion : Sesiones, monto : Int, pago : BOOLEAN]

Peticion == [op : {"libre", "abrir", "movimiento", "pago", "cerrar", "guardar"},
             sesion : Sesiones \cup {SinSesion},
             usuario : Usuarios \cup {SinUsuario}, monto : Int]

Libre == [op |-> "libre", sesion |-> SinSesion, usuario |-> SinUsuario, monto |-> 0]

Abierta(s) == sesiones[s].estado = "abierta"

\* tipo "egreso" takes money out.
ConSigno == Importes \cup {-i : i \in Importes}

Suma(M) == MapThenSumSet(LAMBDA m : m.monto, M)

\* saldo_actual: the opening amount plus income minus expense.
Saldo(s) == sesiones[s].apertura + Suma({m \in movimientos : m.sesion = s})

-------------------------------------------------------------------------------
Init ==
    /\ sesiones = [s \in Sesiones |-> Ausente]
    /\ cierre = [s \in Sesiones |-> SinCierre]
    /\ movimientos = {}
    /\ candado = [s \in Sesiones |-> Nadie]
    /\ sol = [p \in Solicitudes |-> Libre]
    /\ calculo = [p \in Solicitudes |-> 0]

Recuerda(p, op, s, u, monto) ==
    /\ sol[p].op = "libre"
    /\ sol' = [sol EXCEPT ![p] = [op |-> op, sesion |-> s, usuario |-> u,
                                  monto |-> monto]]
    /\ UNCHANGED <<sesiones, cierre, movimientos, calculo>>

\* abrir_sesion up to the INSERT: the friendly check.
Abrir(p) ==
    \E u \in Usuarios, fondo \in Fondos :
        /\ \A s \in Sesiones : ~(Abierta(s) /\ sesiones[s].usuario = u)
        /\ Recuerda(p, "abrir", SinSesion, u, fondo)
        /\ UNCHANGED candado

\* ux_caja_sesion_abierta_por_usuario; the variant is a table without it.
SinIndice(u) == TRUE

UnicaAbierta(u) == \A s \in Sesiones : ~(Abierta(s) /\ sesiones[s].usuario = u)

InsertarSesion(p) ==
    \E s \in Sesiones :
        /\ sol[p].op = "abrir"
        /\ sesiones[s].estado = "ausente"
        /\ UnicaAbierta(sol[p].usuario)
        /\ sesiones' = [sesiones EXCEPT ![s] =
                           [estado |-> "abierta", usuario |-> sol[p].usuario,
                            apertura |-> sol[p].monto]]
        /\ sol' = [sol EXCEPT ![p] = Libre]
        /\ UNCHANGED <<cierre, movimientos, candado, calculo>>

\* registrar_movimiento up to the INSERT.  Any cashier may write in any session.
RegistrarMovimiento(p) ==
    \E s \in Sesiones, monto \in ConSigno :
        /\ Abierta(s)
        /\ Recuerda(p, "movimiento", s, SinUsuario, monto)
        /\ UNCHANGED candado

Agrega(s, monto, pago) ==
    LET n == Cardinality(movimientos) + 1
    IN  /\ n <= MaxMovimientos
        /\ movimientos' = movimientos
                \cup {[id |-> n, sesion |-> s, monto |-> monto, pago |-> pago]}

InsertarMovimiento(p) ==
    /\ sol[p].op = "movimiento"
    /\ candado[sol[p].sesion] = Nadie
    /\ Agrega(sol[p].sesion, sol[p].monto, FALSE)
    /\ sol' = [sol EXCEPT ![p] = Libre]
    /\ UNCHANGED <<sesiones, cierre, candado, calculo>>

\* The lock a cash payment takes on the session; the variant forgets FOR UPDATE.
SinForUpdate(p, s) == UNCHANGED candado

TomaCandado(p, s) ==
    /\ candado[s] = Nadie
    /\ candado' = [candado EXCEPT ![s] = p]

\* registrar_pago in cash: the open session of the cashier, or no payment.
PagarEnEfectivo(p) ==
    \E s \in Sesiones, monto \in ConSigno :
        /\ Abierta(s)
        /\ TomaCandado(p, s)
        /\ Recuerda(p, "pago", s, sesiones[s].usuario, monto)

Suelta(p) ==
    candado' = [s \in Sesiones |-> IF candado[s] = p THEN Nadie ELSE candado[s]]

\* The payment commits together with its movement.
ConfirmarPago(p) ==
    /\ sol[p].op = "pago"
    /\ Agrega(sol[p].sesion, sol[p].monto, TRUE)
    /\ Suelta(p)
    /\ sol' = [sol EXCEPT ![p] = Libre]
    /\ UNCHANGED <<sesiones, cierre, calculo>>

\* cerrar_sesion loads the session, then its movements, then writes.
Cerrar(p) ==
    \E s \in Sesiones, conteo \in Conteos :
        /\ Abierta(s)
        /\ Recuerda(p, "cerrar", s, SinUsuario, conteo)
        /\ UNCHANGED candado

SumarMovimientos(p) ==
    /\ sol[p].op = "cerrar"
    /\ calculo' = [calculo EXCEPT ![p] = Saldo(sol[p].sesion)]
    /\ sol' = [sol EXCEPT ![p] = [op |-> "guardar", sesion |-> sol[p].sesion,
                                  usuario |-> sol[p].usuario, monto |-> sol[p].monto]]
    /\ UNCHANGED <<sesiones, cierre, movimientos, candado>>

\* What the UPDATE of a close stores.  The faulty variant keeps the amount
\* expected by an earlier close.
ConservaEsperado(s, esperado, conteo) ==
    [esperado |-> IF Abierta(s) THEN esperado ELSE cierre[s].esperado,
     real |-> conteo, diferencia |-> conteo - esperado]

Cierre(s, esperado, conteo) ==
    [esperado |-> esperado, real |-> conteo, diferencia |-> conteo - esperado]

GuardarCierre(p) ==
    LET s == sol[p].sesion IN
    /\ sol[p].op = "guardar"
    /\ candado[s] = Nadie
    /\ sesiones' = [sesiones EXCEPT ![s].estado = "cerrada"]
    /\ cierre' = [cierre EXCEPT ![s] = Cierre(s, calculo[p], sol[p].monto)]
    /\ sol' = [sol EXCEPT ![p] = Libre]
    /\ calculo' = [calculo EXCEPT ![p] = 0]
    /\ UNCHANGED <<movimientos, candado>>

\* The request ends without effect: an error, a refusal or a crash.
Revertir(p) ==
    /\ sol[p].op # "libre"
    /\ Suelta(p)
    /\ sol' = [sol EXCEPT ![p] = Libre]
    /\ calculo' = [calculo EXCEPT ![p] = 0]
    /\ UNCHANGED <<sesiones, cierre, movimientos>>

Next ==
    \E p \in Solicitudes :
        \/ Abrir(p) \/ InsertarSesion(p)
        \/ RegistrarMovimiento(p) \/ InsertarMovimiento(p)
        \/ PagarEnEfectivo(p) \/ ConfirmarPago(p)
        \/ Cerrar(p) \/ SumarMovimientos(p) \/ GuardarCierre(p)
        \/ Revertir(p)

Spec == Init /\ [][Next]_vars

-------------------------------------------------------------------------------
\* The rows, locks and requests have their types.
TypeOK ==
    /\ sesiones \in [Sesiones -> Sesion]
    /\ cierre \in [Sesiones -> [esperado : Int, real : Nat, diferencia : Int]]
    /\ movimientos \subseteq Movimiento
    /\ IsFiniteSet(movimientos)
    /\ candado \in [Sesiones -> Solicitudes \cup {Nadie}]
    /\ sol \in [Solicitudes -> Peticion]
    /\ calculo \in [Solicitudes -> Int]

\* Whoever clicks twice on "open", or opens from two machines, ends up with a
\* single open session (ux_caja_sesion_abierta_por_usuario).
UnaAbiertaPorUsuario ==
    \A s, q \in Sesiones :
        (/\ sesiones[s].estado = "abierta"
         /\ sesiones[q].estado = "abierta"
         /\ sesiones[s].usuario = sesiones[q].usuario)
        => s = q

\* A payment holds its session open: from the moment it locked the row until
\* it commits nobody else writes it, and it is the session of its cashier.
PagoConCajaAbierta ==
    \A p \in Solicitudes :
        sol[p].op = "pago"
        => /\ candado[sol[p].sesion] = p
           /\ sesiones[sol[p].sesion].estado = "abierta"
           /\ sesiones[sol[p].sesion].usuario = sol[p].usuario

\* The state of the cash module is well formed while requests overlap.
CajaCoherente == TypeOK /\ UnaAbiertaPorUsuario /\ PagoConCajaAbierta

\* The money of a payment never enters a session that is closed at the moment
\* of its commit, whoever closes at the same time (registrar_pago).
PagoEnCajaAbierta ==
    [][\A m \in movimientos' \ movimientos :
          m.pago => sesiones[m.sesion].estado = "abierta"]_vars

\* x is what the session had at some moment: its opening amount and the
\* movements committed until then.
FueSaldo(s, x) ==
    \E n \in 0..Cardinality(movimientos) :
        x = sesiones[s].apertura
              + Suma({m \in movimientos : m.sesion = s /\ m.id <= n})

\* However requests overlap, what a close expects is an amount the session
\* really had at one moment, never part of a transaction in flight, and the
\* difference is the one between that amount and the money counted by the same
\* close, even when two closings write the row (cerrar_sesion).
CierreCuadra ==
    \A s \in Sesiones :
        sesiones[s].estado = "cerrada"
        => /\ FueSaldo(s, cierre[s].esperado)
           /\ cierre[s].diferencia = cierre[s].real - cierre[s].esperado

\* Documented rule: a closed session is not closed again; two closings that
\* overlap break it.
CierreUnico ==
    [][\A s \in Sesiones :
          sesiones[s].estado = "cerrada"
          => sesiones'[s] = sesiones[s] /\ cierre'[s] = cierre[s]]_vars

\* Documented rules: what a close expects is the balance at that moment, and no
\* movement enters afterwards, so it stays the balance of the session.  A
\* movement that overlaps a close breaks it, in either order.
CierreVigente ==
    \A s \in Sesiones :
        sesiones[s].estado = "cerrada" => cierre[s].esperado = Saldo(s)
===============================================================================

-------------------------------- MODULE Sesiones --------------------------------
(***************************************************************************)
(* Revocable sessions of the back office and the changes of users that     *)
(* must end them.                                                          *)
(*                                                                         *)
(* Every request is a transaction at READ COMMITTED.  A login validates    *)
(* the password on an unlocked read; storing its session locks the user    *)
(* with SELECT ... FOR UPDATE, counts the sessions and revokes those over  *)
(* the limit.  A deactivation, a change of role and a password reset read  *)
(* the user without a lock, flush their UPDATE (which takes the row lock), *)
(* and only then select the sessions they revoke.                          *)
(***************************************************************************)
EXTENDS Integers, FiniteSets

CONSTANTS
    Usuarios,         \* rows the table usuarios can hold, by email
    Fundadores,       \* administrators that exist from the start
    Nadie,            \* no user, and the holder of a free row lock
    Solicitudes,      \* requests in flight at the same time
    MaxPorUsuario,    \* AUTH_SESSION_MAX_PER_USER
    Duracion,         \* JWT_EXPIRE_MINUTES, in ticks
    MaxSesiones,      \* bound on the rows of auth_sessions
    MaxCambios,       \* bound on the sensitive changes of one user
    MaxReloj          \* bound on the clock

ASSUME ConstantesDeSesiones ==
    /\ Fundadores \subseteq Usuarios
    /\ Nadie \notin Usuarios \cup Solicitudes
    /\ MaxPorUsuario \in Nat \ {0}
    /\ Duracion \in Nat \ {0}
    /\ MaxSesiones \in Nat
    /\ MaxCambios \in Nat
    /\ MaxReloj \in Nat

VARIABLES
    usuarios,   \* table usuarios: existe, activo, admin
    cambios,    \* history: sensitive changes committed on each user
    sesiones,   \* table auth_sessions, by id; an id without a row has no user
    candado,    \* holder of the row lock of each user
    sol,        \* what each request has in hand
    elegidas,   \* sessions a transaction is about to revoke
    reloj       \* datetime.now(utc)

vars == <<usuarios, cambios, sesiones, candado, sol, elegidas, reloj>>

-------------------------------------------------------------------------------
Ids == 1..MaxSesiones

Usuario == [existe : BOOLEAN, activo : BOOLEAN, admin : BOOLEAN]

\* cambios is the history variable seen by the login that made the session.
Sesion == [usuario : Usuarios \cup {Nadie}, emitida : Nat, revocada : BOOLEAN,
           cambios : Nat]

SinSesion == [usuario |-> Nadie, emitida |-> 0, revocada |-> FALSE, cambios |-> 0]

\* The changes that revoke (a change between two other roles acts as clave);
\* reactivar and alta do not.
Sensibles == {"desactivar", "degradar", "ascender", "clave"}

Operaciones == Sensibles \cup {"reactivar", "alta"}

Peticion == [op : Operaciones \cup {"libre", "login", "salir"},
             paso : {"inicio", "leido", "escrito"},
             usuario : Usuarios \cup {Nadie}, emitida : Nat, cambios : Nat]

Libre == [op |-> "libre", paso |-> "inicio", usuario |-> Nadie, emitida |-> 0,
          cambios |-> 0]

De(u) == {s \in Ids : sesiones[s].usuario = u}

\* expires_at > momento
Expira(s) == sesiones[s].emitida + Duracion

\* obtener_vigente: neither revoked nor expired.
Vigente(s, momento) ==
    /\ sesiones[s].usuario # Nadie
    /\ ~sesiones[s].revocada
    /\ Expira(s) > momento

\* contar_admins_activos
AdminsActivos == {u \in Usuarios : usuarios[u].admin /\ usuarios[u].activo}

-------------------------------------------------------------------------------
Init ==
    /\ usuarios = [u \in Usuarios |-> [existe |-> u \in Fundadores,
                                       activo |-> u \in Fundadores,
                                       admin |-> u \in Fundadores]]
    /\ cambios = [u \in Usuarios |-> 0]
    /\ sesiones = [s \in Ids |-> SinSesion]
    /\ candado = [u \in Usuarios |-> Nadie]
    /\ sol = [p \in Solicitudes |-> Libre]
    /\ elegidas = [p \in Solicitudes |-> {}]
    /\ reloj = 0

Suelta(p) ==
    candado' = [u \in Usuarios |-> IF candado[u] = p THEN Nadie ELSE candado[u]]

\* The transaction ends, with or without effect.
Termina(p) ==
    /\ Suelta(p)
    /\ sol' = [sol EXCEPT ![p] = Libre]
    /\ elegidas' = [elegidas EXCEPT ![p] = {}]

\* _validar_usuario and the time of issue.
Validar(p) ==
    \E u \in Usuarios :
        /\ sol[p].op = "libre"
        /\ usuarios[u].existe /\ usuarios[u].activo
        /\ sol' = [sol EXCEPT ![p] = [op |-> "login", paso |-> "inicio",
                        usuario |-> u, emitida |-> reloj, cambios |-> cambios[u]]]
        /\ UNCHANGED <<usuarios, cambios, sesiones, candado, elegidas, reloj>>

\* SELECT ... FOR UPDATE on the user; the variant counts without it.
SinForUpdate(p, u) == UNCHANGED candado

BloqueaUsuario(p, u) ==
    /\ candado[u] = Nadie
    /\ candado' = [candado EXCEPT ![u] = p]

\* The row just flushed: it has the highest id of all.
Nueva == MaxSesiones + 1

Emitida(s, ahora) == IF s = Nueva THEN ahora ELSE sesiones[s].emitida

\* ORDER BY issued_at DESC, id DESC: t comes before s.
MasReciente(t, s, ahora) ==
    \/ Emitida(t, ahora) > Emitida(s, ahora)
    \/ Emitida(t, ahora) = Emitida(s, ahora) /\ t > s

\* activas[MAX:], where activas holds the new row and those in force when it was
\* issued.  The session of a slow login, issued before others, may be among them.
Sobrantes(u, ahora) ==
    LET activas == {s \in De(u) : Vigente(s, ahora)} \cup {Nueva}
    IN  {s \in activas :
            Cardinality({t \in activas : MasReciente(t, s, ahora)}) >= MaxPorUsuario}

\* AuthSessionRepository.crear up to the commit.
ContarSesiones(p) ==
    LET u == sol[p].usuario IN
    /\ sol[p].op = "login" /\ sol[p].paso = "inicio"
    /\ BloqueaUsuario(p, u)
    /\ elegidas' = [elegidas EXCEPT ![p] = Sobrantes(u, sol[p].emitida)]
    /\ sol' = [sol EXCEPT ![p].paso = "escrito"]
    /\ UNCHANGED <<usuarios, cambios, sesiones, reloj>>

Revocadas(S) ==
    [s \in Ids |-> IF s \in S THEN [sesiones[s] EXCEPT !.revocada = TRUE] ELSE sesiones[s]]

GuardarSesion(p) ==
    LET u == sol[p].usuario IN
    \E n \in Ids :
        /\ sol[p].op = "login" /\ sol[p].paso = "escrito"
        /\ \A m \in Ids : sesiones[m].usuario = Nadie <=> m >= n
        /\ sesiones' = [Revocadas(elegidas[p]) EXCEPT ![n] =
                [usuario |-> u, emitida |-> sol[p].emitida,
                 revocada |-> Nueva \in elegidas[p],
                 cambios |-> sol[p].cambios]]
        /\ Termina(p)
        /\ UNCHANGED <<usuarios, cambios, reloj>>

-------------------------------------------------------------------------------
\* get_current_user: a session in force of an active user.
Entra(s) == Vigente(s, reloj) /\ usuarios[sesiones[s].usuario].activo

\* Logout: the session that authorises the request is the one it revokes.
PedirSalida(p) ==
    \E s \in Ids :
        /\ sol[p].op = "libre"
        /\ Entra(s)
        /\ sol' = [sol EXCEPT ![p] = [op |-> "salir", paso |-> "inicio",
                        usuario |-> sesiones[s].usuario, emitida |-> 0, cambios |-> 0]]
        /\ elegidas' = [elegidas EXCEPT ![p] = {s}]
        /\ UNCHANGED <<usuarios, cambios, sesiones, candado, reloj>>

Salir(p) ==
    /\ sol[p].op = "salir"
    /\ sesiones' = Revocadas(elegidas[p])
    /\ Termina(p)
    /\ UNCHANGED <<usuarios, cambios, reloj>>

\* require_roles("admin") on the session of the actor; the operation has not
\* read its user yet.
Autorizar(p) ==
    \E s \in Ids, op \in Operaciones, u \in Usuarios :
        /\ sol[p].op = "libre"
        /\ Entra(s) /\ usuarios[sesiones[s].usuario].admin
        /\ sol' = [sol EXCEPT ![p] = [op |-> op, paso |-> "inicio", usuario |-> u,
                                      emitida |-> 0, cambios |-> 0]]
        /\ UNCHANGED <<usuarios, cambios, sesiones, candado, elegidas, reloj>>

\* Not the only active administrator.
QuedaOtro(u) == usuarios[u].admin => Cardinality(AdminsActivos) > 1

\* What each operation demands of the row it reads.
Admite(op, u) ==
    CASE op = "alta"       -> ~usuarios[u].existe
      [] op = "reactivar"  -> usuarios[u].existe /\ ~usuarios[u].activo
      [] op = "desactivar" -> usuarios[u].activo /\ QuedaOtro(u)
      [] op = "degradar"   -> /\ usuarios[u].existe /\ usuarios[u].admin
                              /\ usuarios[u].activo => QuedaOtro(u)
      [] op = "ascender"   -> usuarios[u].existe /\ ~usuarios[u].admin
      [] op = "clave"      -> usuarios[u].existe

\* obtener and the checks of the service, on an unlocked read.
Leer(p) ==
    /\ sol[p].op \in Operaciones /\ sol[p].paso = "inicio"
    /\ Admite(sol[p].op, sol[p].usuario)
    /\ sol' = [sol EXCEPT ![p].paso = "leido"]
    /\ UNCHANGED <<usuarios, cambios, sesiones, candado, elegidas, reloj>>

\* The UPDATE is flushed, its row lock is held, and revocar_usuario selects the
\* sessions that other transactions have committed.
EscribirCambio(p) ==
    LET u == sol[p].usuario IN
    /\ sol[p].op \in Sensibles /\ sol[p].paso = "leido"
    /\ cambios[u] < MaxCambios
    /\ candado[u] = Nadie
    /\ candado' = [candado EXCEPT ![u] = p]
    /\ elegidas' = [elegidas EXCEPT ![p] = {s \in De(u) : ~sesiones[s].revocada}]
    /\ sol' = [sol EXCEPT ![p].paso = "escrito"]
    /\ UNCHANGED <<usuarios, cambios, sesiones, reloj>>

\* The row with the one column that the UPDATE carries, or the new row, of any role.
Cambiado(u, op, admin) ==
    CASE op = "desactivar" -> [usuarios[u] EXCEPT !.activo = FALSE]
      [] op = "reactivar"  -> [usuarios[u] EXCEPT !.activo = TRUE]
      [] op = "degradar"   -> [usuarios[u] EXCEPT !.admin = FALSE]
      [] op = "ascender"   -> [usuarios[u] EXCEPT !.admin = TRUE]
      [] op = "clave"      -> usuarios[u]
      [] op = "alta"       -> [existe |-> TRUE, activo |-> TRUE, admin |-> admin]

\* _confirmar_cambio_sensible: the change and the revocations commit together.
ConfirmarCambio(p) ==
    LET u == sol[p].usuario IN
    /\ sol[p].op \in Sensibles /\ sol[p].paso = "escrito"
    /\ usuarios' = [usuarios EXCEPT ![u] = Cambiado(u, sol[p].op, usuarios[u].admin)]
    /\ cambios' = [cambios EXCEPT ![u] = @ + 1]
    /\ sesiones' = Revocadas(elegidas[p])
    /\ Termina(p)
    /\ UNCHANGED reloj

\* reactivar, and crear_usuario under the UNIQUE email.
Guardar(p) ==
    LET u == sol[p].usuario IN
    /\ sol[p].op \in {"reactivar", "alta"} /\ sol[p].paso = "leido"
    /\ candado[u] = Nadie
    /\ sol[p].op = "alta" => ~usuarios[u].existe
    /\ \E admin \in BOOLEAN :
          usuarios' = [usuarios EXCEPT ![u] = Cambiado(u, sol[p].op, admin)]
    /\ Termina(p)
    /\ UNCHANGED <<cambios, sesiones, reloj>>

\* An error, a refusal or a crash: the transaction leaves nothing.
Revertir(p) ==
    /\ sol[p].op # "libre"
    /\ Termina(p)
    /\ UNCHANGED <<usuarios, cambios, sesiones, reloj>>

Tic ==
    /\ reloj < MaxReloj
    /\ reloj' = reloj + 1
    /\ UNCHANGED <<usuarios, cambios, sesiones, candado, sol, elegidas>>

Next ==
    \/ \E p \in Solicitudes :
        \/ Validar(p) \/ ContarSesiones(p) \/ GuardarSesion(p)
        \/ PedirSalida(p) \/ Salir(p)
        \/ Autorizar(p) \/ Leer(p) \/ EscribirCambio(p) \/ ConfirmarCambio(p)
        \/ Guardar(p) \/ Revertir(p)
    \/ Tic

Spec == Init /\ [][Next]_vars

-------------------------------------------------------------------------------
\* Rows, locks and requests have their types.
TypeOK ==
    /\ usuarios \in [Usuarios -> Usuario]
    /\ cambios \in [Usuarios -> Nat]
    /\ sesiones \in [Ids -> Sesion]
    /\ candado \in [Usuarios -> Solicitudes \cup {Nadie}]
    /\ sol \in [Solicitudes -> Peticion]
    /\ elegidas \in [Solicitudes -> SUBSET (Ids \cup {Nueva})]
    /\ reloj \in Nat

\* What the row lock of the user is for: whoever is between the lock and the
\* commit holds it, and a sensitive change has selected every session of its user
\* that is not revoked (auth_session_repository.py:23, usuario_service.py:51).
CandadoCoherente ==
    \A p \in Solicitudes :
        LET u == sol[p].usuario IN
        sol[p].paso = "escrito" =>
            /\ candado[u] = p
            /\ sol[p].op \in Sensibles \cup {"login"}
            /\ sol[p].op \in Sensibles => \A s \in De(u) : sesiones[s].revocada \/ s \in elegidas[p]

\* However many logins of one user overlap, and however late a slow one stores
\* its session, no more than AUTH_SESSION_MAX_PER_USER are in force.
LimitePorUsuario ==
    \A u \in Usuarios : Cardinality({s \in De(u) : Vigente(s, reloj)}) <= MaxPorUsuario

\* When a deactivation, a change of role or a password reset commits, every
\* session stored before it is dead: no login slips in between the SELECT of
\* the sessions and the commit.
CambioRevocaTodo ==
    [][\A u \in Usuarios :
          cambios'[u] # cambios[u] => \A s \in De(u) : sesiones'[s].revocada]_vars

\* "Ambas operaciones revocan inmediatamente todas sus sesiones activas"
\* (SESIONES_REVOCABLES.md:25): no session in force was opened with what the
\* user was before its last sensitive change.
SinSesionAnterior ==
    \A u \in Usuarios : \A s \in De(u) :
        Vigente(s, reloj) => sesiones[s].cambios = cambios[u]

\* "es el unico administrador activo del sistema": whoever administers is never
\* the last to go (usuario_service.py:45).
QuedaAdministrador == AdminsActivos # {}
===============================================================================

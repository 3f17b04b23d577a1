------------------------------ MODULE PortalPublico ------------------------------
(***************************************************************************)
(* A booking request of the public portal: the durable guard (signed       *)
(* challenge, nonce, quotas by address, contact and browser), the search   *)
(* or creation of the client, the reservation, and the release of the      *)
(* attempt when the work fails.                                            *)
(*                                                                         *)
(* The guard counts and inserts in one transaction under advisory locks of *)
(* PostgreSQL, one per pseudonym, taken in the order of the pseudonyms.    *)
(* The locks end with that transaction; client and reservation are later   *)
(* commits, and a request may die between any two.                         *)
(***************************************************************************)
EXTENDS Integers, FiniteSets, FiniteSetsExt

CONSTANTS
    Huellas,          \* pseudonyms (HMAC), ordered as their strings are
    Nonces,           \* the pseudonyms that stand for challenges
    SinHuella,        \* a value the visitor did not send
    Formularios,      \* [ip, contacto, cliente, nonce : Huellas, trampa : BOOLEAN]
    Solicitudes,      \* requests in flight at the same time
    Nadie,            \* holder of a free lock
    LimiteIp, LimiteContacto, LimiteCliente,
    Hora, Dia,        \* windows of the quotas
    EsperaMinima, Vigencia,  \* of a challenge
    MaxIntentos,      \* bound on the rows of public_submission_attempts
    MaxRotas,         \* bound on the bookings of a form that raise after their commit
    MaxReloj          \* bound on the clock

ASSUME ConstantesDelPortal ==
    /\ Huellas \subseteq Nat /\ IsFiniteSet(Huellas)
    /\ Nonces \subseteq Huellas
    /\ SinHuella \notin Huellas
    /\ Formularios \subseteq [ip : Huellas \ Nonces, contacto : Huellas \ Nonces,
                              cliente : (Huellas \ Nonces) \cup {SinHuella},
                              nonce : Nonces \cup {SinHuella}, trampa : BOOLEAN]
    /\ Formularios # {}
    /\ Nadie \notin Solicitudes
    /\ {LimiteIp, LimiteContacto, LimiteCliente} \subseteq Nat \ {0}
    /\ {Hora, Dia, Vigencia, MaxIntentos, MaxRotas, MaxReloj, EsperaMinima}
          \subseteq Nat

VARIABLES
    modo,       \* PUBLIC_ANTI_ABUSE_MODE of the deployment
    emitido,    \* when each challenge was issued; -1 before
    intentos,   \* table public_submission_attempts
    candado,    \* holder of the advisory lock of each pseudonym
    clientes,   \* contacts that some row of clientes carries
    hechas,     \* reservations made with each form
    rotas,      \* history: those whose request raised after their commit
    sol,        \* what each request has in hand
    reloj

vars == <<modo, emitido, intentos, candado, clientes, hechas, rotas, sol, reloj>>

-------------------------------------------------------------------------------
Ids == 1..MaxIntentos

Motivos == {"ok", "challenge_missing", "challenge_too_fast", "challenge_expired",
            "honeypot_filled", "challenge_reused", "ip_limit", "contact_limit",
            "client_limit"}

\* uso is a history variable: what became of the request that got the row.
Intento == [existe : BOOLEAN, form : Formularios, nonce : Nonces \cup {SinHuella},
            permitido : BOOLEAN, creado : Nat, uso : {"curso", "hecho", "roto", "caido"}]

SinIntento == [existe |-> FALSE, form |-> CHOOSE f \in Formularios : TRUE,
               nonce |-> SinHuella, permitido |-> FALSE, creado |-> 0, uso |-> "caido"]

Peticion == [paso : {"libre", "bloquear", "guardar", "repetir", "operar", "alta",
                     "reservar", "avisar", "liberar"},
             form : Formularios, motivo : Motivos, ahora : Nat, id : Nat]

Libre == [paso |-> "libre", form |-> CHOOSE f \in Formularios : TRUE, motivo |-> "ok",
          ahora |-> 0, id |-> 0]

Claves(f) == {f.ip, f.contacto, f.cliente, f.nonce} \ {SinHuella}

\* DesafioFormulario.validar; a forged challenge has no nonce.
Desafio(n, ahora) ==
    IF n = SinHuella THEN "challenge_missing"
    ELSE IF ahora < emitido[n] + EsperaMinima THEN "challenge_too_fast"
    ELSE IF ahora > emitido[n] + Vigencia THEN "challenge_expired"
    ELSE "ok"

\* Allowed rows of one pseudonym that its quota counts: created_at >= now - window.
Contadas(campo, valor, ahora, ventana) ==
    {i \in Ids : /\ intentos[i].existe /\ intentos[i].permitido
                 /\ intentos[i].form[campo] = valor
                 /\ intentos[i].creado >= ahora - ventana}

Excedida(campo, valor, ahora, ventana, limite) ==
    /\ valor # SinHuella
    /\ Cardinality(Contadas(campo, valor, ahora, ventana)) >= limite

NonceUsado(n) == n # SinHuella /\ \E i \in Ids : intentos[i].existe /\ intentos[i].nonce = n

\* The checks in the order of the code; the first reason stands.
Motivo(f, inicial, ahora) ==
    IF inicial # "ok" THEN inicial
    ELSE IF NonceUsado(f.nonce) THEN "challenge_reused"
    ELSE IF Excedida("ip", f.ip, ahora, Hora, LimiteIp) THEN "ip_limit"
    ELSE IF Excedida("contacto", f.contacto, ahora, Dia, LimiteContacto) THEN "contact_limit"
    ELSE IF Excedida("cliente", f.cliente, ahora, Hora, LimiteCliente) THEN "client_limit"
    ELSE "ok"

Permite(motivo) == motivo = "ok" \/ (modo = "monitor" /\ motivo # "honeypot_filled")

\* Retry-After of a quota: the row whose expiry takes the count below the limit
\* is the one with exactly limite rows from it on.  The variant takes the oldest.
EsperaPrimera(campo, valor, ahora, ventana, limite) ==
    Max({1, Min({intentos[i].creado : i \in Contadas(campo, valor, ahora, ventana)}) + ventana - ahora})

Espera(campo, valor, ahora, ventana, limite) ==
    LET filas == Contadas(campo, valor, ahora, ventana)
        umbral == CHOOSE t \in {intentos[i].creado : i \in filas} :
                      /\ Cardinality({i \in filas : intentos[i].creado >= t}) >= limite
                      /\ Cardinality({i \in filas : intentos[i].creado > t}) < limite
    IN  Max({1, umbral + ventana - ahora})

-------------------------------------------------------------------------------
Init ==
    /\ modo \in {"monitor", "enforce"}
    /\ emitido = [n \in Nonces |-> -1]
    /\ intentos = [i \in Ids |-> SinIntento]
    /\ candado = [k \in Huellas |-> Nadie]
    /\ clientes = {}
    /\ hechas = [f \in Formularios |-> 0]
    /\ rotas = [f \in Formularios |-> 0]
    /\ sol = [p \in Solicitudes |-> Libre]
    /\ reloj = 0

Avanza(p, paso) == sol' = [sol EXCEPT ![p].paso = paso]

Suelta(p) ==
    candado' = [k \in Huellas |-> IF candado[k] = p THEN Nadie ELSE candado[k]]

\* GET /form-challenge
PedirDesafio ==
    \E n \in Nonces :
        /\ emitido[n] = -1
        /\ emitido' = [emitido EXCEPT ![n] = reloj]
        /\ UNCHANGED <<modo, intentos, candado, clientes, hechas, rotas, sol, reloj>>

\* Every request in flight finds a free row (bound MaxIntentos).
Cabe ==
    Cardinality({i \in Ids : intentos[i].existe})
        + Cardinality({q \in Solicitudes : sol[q].paso \in {"bloquear", "guardar", "repetir"}}) < MaxIntentos

\* POST /reservaciones up to the first lock: the challenge and now().
Enviar(p) ==
    \E f \in Formularios :
        /\ sol[p].paso = "libre"
        /\ f.nonce # SinHuella => emitido[f.nonce] # -1
        /\ Cabe
        /\ sol' = [sol EXCEPT ![p] =
              [paso |-> "bloquear", form |-> f, ahora |-> reloj, id |-> 0,
               motivo |-> IF f.trampa THEN "honeypot_filled" ELSE Desafio(f.nonce, reloj)]]
        /\ UNCHANGED <<modo, emitido, intentos, candado, clientes, hechas, rotas, reloj>>

Tiene(p) == {k \in Huellas : candado[k] = p}

\* The values that _bloquear receives; the variant forgets the contact.
SoloConexion(f) == {f.ip, f.cliente, f.nonce} \ {SinHuella}

Bloqueadas(f) == Claves(f)

Faltan(p) == Bloqueadas(sol[p].form) \ Tiene(p)

\* sorted(): the next lock is the least; the variant takes the set as it comes.
SinOrdenar(p, k) == k \in Faltan(p)

EnOrden(p, k) == k = Min(Faltan(p))

Bloquear(p) ==
    /\ sol[p].paso = "bloquear"
    /\ Faltan(p) # {}
    /\ \E k \in Huellas :
        /\ EnOrden(p, k)
        /\ candado[k] = Nadie
        /\ candado' = [candado EXCEPT ![k] = p]
    /\ UNCHANGED <<modo, emitido, intentos, clientes, hechas, rotas, sol, reloj>>

\* With every lock: the nonce and the quotas.
Contar(p) ==
    /\ sol[p].paso = "bloquear"
    /\ Faltan(p) = {}
    /\ sol' = [sol EXCEPT ![p].paso = "guardar",
                          ![p].motivo = Motivo(sol[p].form, sol[p].motivo, sol[p].ahora)]
    /\ UNCHANGED <<modo, emitido, intentos, candado, clientes, hechas, rotas, reloj>>

\* A challenge answered too fast, or one already used, is not stored again.
NonceGuardado(f, motivo) ==
    IF motivo \in {"challenge_reused", "challenge_too_fast"} THEN SinHuella ELSE f.nonce

\* The row of an attempt, in the first free id; created_at is the beginning of
\* its transaction.
Inserta(p, nonce, permitido, creado) ==
    \E i \in Ids :
        /\ ~intentos[i].existe
        /\ \A j \in 1..(i - 1) : intentos[j].existe
        /\ intentos' = [intentos EXCEPT ![i] =
              [existe |-> TRUE, form |-> sol[p].form, nonce |-> nonce,
               permitido |-> permitido, creado |-> creado, uso |-> "curso"]]
        /\ sol' = IF permitido THEN [sol EXCEPT ![p].paso = "operar", ![p].id = i]
                               ELSE [sol EXCEPT ![p] = Libre]

\* The attempt commits and the locks end.
Guardar(p) ==
    LET nonce == NonceGuardado(sol[p].form, sol[p].motivo) IN
    /\ sol[p].paso = "guardar"
    /\ ~NonceUsado(nonce)
    /\ Inserta(p, nonce, Permite(sol[p].motivo), sol[p].ahora)
    /\ Suelta(p)
    /\ UNCHANGED <<modo, emitido, clientes, hechas, rotas, reloj>>

\* uq_public_submission_attempt_nonce: a form refused for another reason was not
\* asked whether its challenge is stored.  The rollback ends the locks.
Chocar(p) ==
    /\ sol[p].paso = "guardar"
    /\ NonceUsado(NonceGuardado(sol[p].form, sol[p].motivo))
    /\ Avanza(p, "repetir")
    /\ Suelta(p)
    /\ UNCHANGED <<modo, emitido, intentos, clientes, hechas, rotas, reloj>>

\* allowed in the second try: by the mode alone.  The variant forgets the mode.
PermiteSiempre == TRUE

PermiteReusado == modo = "monitor"

\* The second try, without nonce; or the error goes on, if the row was released.
Repetir(p) ==
    /\ sol[p].paso = "repetir"
    /\ \/ NonceUsado(sol[p].form.nonce) /\ Inserta(p, SinHuella, PermiteReusado, reloj)
       \/ /\ ~NonceUsado(sol[p].form.nonce)
          /\ sol' = [sol EXCEPT ![p] = Libre]
          /\ UNCHANGED intentos
    /\ UNCHANGED <<modo, emitido, candado, clientes, hechas, rotas, reloj>>

\* _buscar_o_crear_cliente: the search, and a commit of its own for the new client.
BuscarCliente(p) ==
    /\ sol[p].paso = "operar"
    /\ Avanza(p, IF sol[p].form.contacto \in clientes THEN "reservar" ELSE "alta")
    /\ UNCHANGED <<modo, emitido, intentos, candado, clientes, hechas, rotas, reloj>>

CrearCliente(p) ==
    /\ sol[p].paso = "alta"
    /\ clientes' = clientes \cup {sol[p].form.contacto}
    /\ Avanza(p, "reservar")
    /\ UNCHANGED <<modo, emitido, intentos, candado, hechas, rotas, reloj>>

\* ReservacionService.crear commits.
Reservar(p) ==
    /\ sol[p].paso = "reservar"
    /\ hechas' = [hechas EXCEPT ![sol[p].form] = @ + 1]
    /\ intentos' = [intentos EXCEPT ![sol[p].id].uso = "hecho"]
    /\ Avanza(p, "avisar")
    /\ UNCHANGED <<modo, emitido, candado, clientes, rotas, reloj>>

\* The refresh of the booking, the client loaded for the text of the mail, and
\* the mail, whose own failure is swallowed.
Avisar(p) ==
    /\ sol[p].paso = "avisar"
    /\ sol' = [sol EXCEPT ![p] = Libre]
    /\ UNCHANGED <<modo, emitido, intentos, candado, clientes, hechas, rotas, reloj>>

\* A block, an occupied unit, the catalogue, a constraint: any exception before
\* that commit.
Trabajando == {"operar", "alta", "reservar"}

Fallar(p) ==
    /\ sol[p].paso \in Trabajando
    /\ Avanza(p, "liberar")
    /\ UNCHANGED <<modo, emitido, intentos, candado, clientes, hechas, rotas, reloj>>

\* The refresh or the load raises after that commit: the booking stays, and the
\* error takes the same way (bound MaxRotas).
FallarTarde(p) ==
    /\ sol[p].paso = "avisar"
    /\ rotas[sol[p].form] < MaxRotas
    /\ rotas' = [rotas EXCEPT ![sol[p].form] = @ + 1]
    /\ intentos' = [intentos EXCEPT ![sol[p].id].uso = "roto"]
    /\ Avanza(p, "liberar")
    /\ UNCHANGED <<modo, emitido, candado, clientes, hechas, reloj>>

\* liberar deletes the row; the variant leaves it.
SinBorrar(i) == intentos[i]

Borrado(i) == SinIntento

Liberar(p) ==
    /\ sol[p].paso = "liberar"
    /\ intentos' = [intentos EXCEPT ![sol[p].id] = Borrado(sol[p].id)]
    /\ sol' = [sol EXCEPT ![p] = Libre]
    /\ UNCHANGED <<modo, emitido, candado, clientes, hechas, rotas, reloj>>

\* The request ends and nobody cleans up: its locks go with its connection, its
\* committed rows stay.
Abandona(p) ==
    /\ Suelta(p)
    /\ intentos' = [i \in Ids |-> IF i = sol[p].id /\ intentos[i].uso # "hecho"
                                  THEN [intentos[i] EXCEPT !.uso = "caido"] ELSE intentos[i]]
    /\ sol' = [sol EXCEPT ![p] = Libre]
    /\ UNCHANGED <<modo, emitido, clientes, hechas, rotas, reloj>>

\* The audit of an attempt that the monitor let pass raises, before the try that
\* releases it.
FallarAuditoria(p) ==
    /\ sol[p].paso = "operar" /\ sol[p].motivo # "ok"
    /\ Abandona(p)

\* The process dies, or the release itself raises.
Caer(p) ==
    /\ sol[p].paso # "libre"
    /\ Abandona(p)

Tic ==
    /\ reloj < MaxReloj
    /\ reloj' = reloj + 1
    /\ UNCHANGED <<modo, emitido, intentos, candado, clientes, hechas, rotas, sol>>

Avance(p) ==
    \/ Bloquear(p) \/ Contar(p) \/ Guardar(p) \/ Chocar(p) \/ Repetir(p)
    \/ BuscarCliente(p) \/ CrearCliente(p) \/ Reservar(p) \/ Avisar(p)
    \/ Fallar(p) \/ FallarTarde(p) \/ FallarAuditoria(p) \/ Liberar(p)

Next ==
    \/ \E p \in Solicitudes : Enviar(p) \/ Avance(p) \/ Caer(p)
    \/ PedirDesafio \/ Tic

Spec == Init /\ [][Next]_vars

\* A request that does not die goes on; PostgreSQL hands a lock to those who
\* wait for it in the order they came, hence strong fairness.
Equidad == \A p \in Solicitudes : SF_vars(Avance(p))

SpecJusta == Spec /\ Equidad

-------------------------------------------------------------------------------
\* Rows, locks and requests have their types.
TypeOK ==
    /\ modo \in {"monitor", "enforce"}
    /\ emitido \in [Nonces -> Nat \cup {-1}]
    /\ intentos \in [Ids -> Intento]
    /\ candado \in [Huellas -> Solicitudes \cup {Nadie}]
    /\ clientes \subseteq Huellas
    /\ hechas \in [Formularios -> Nat]
    /\ rotas \in [Formularios -> Nat]
    /\ sol \in [Solicitudes -> Peticion]
    /\ reloj \in Nat

\* Several addresses of one contact, or several contacts of one address, at the
\* same time: in no window do more attempts pass than the quota allows
\* (intento_publico_repository.py:73, advisory locks around count and insert).
CuotaPorVentana ==
    modo = "enforce" =>
        \A f \in Formularios, t \in 0..reloj :
            LET De(campo, ventana) ==
                    {i \in Ids : /\ intentos[i].existe /\ intentos[i].permitido
                                 /\ intentos[i].form[campo] = f[campo]
                                 /\ intentos[i].creado \in t..(t + ventana)}
            IN  /\ Cardinality(De("ip", Hora)) <= LimiteIp
                /\ Cardinality(De("contacto", Dia)) <= LimiteContacto
                /\ f.cliente # SinHuella => Cardinality(De("cliente", Hora)) <= LimiteCliente

\* The reservations of each form whose request did not raise after their commit.
Firmes == [f \in Formularios |-> hechas[f] - rotas[f]]

\* While the guard is enforced a challenge gives one reservation, and another only
\* after the request of the first raised with the booking committed, when the
\* release gives the challenge back (publico_routes.py:129,
\* intento_publico_repository.py:123); neither a failure before that commit nor a
\* second try, whose row does not store the challenge, gives a second one.
UnaPorDesafio ==
    modo = "enforce" =>
        \A n \in Nonces :
            MapThenSumSet(LAMBDA f : Firmes[f], {f \in Formularios : f.nonce = n}) <= 1

\* "nonce de un solo uso" (PROTECCION_PORTAL_DURABLE.md:7).  Not so after
\* FallarTarde: the challenge is free again with its booking made.
DesafioDeUnSoloUso ==
    modo = "enforce" =>
        \A n \in Nonces :
            MapThenSumSet(LAMBDA f : hechas[f], {f \in Formularios : f.nonce = n}) <= 1

\* The steps of a request that owns the row of its attempt.
ConFila == Trabajando \cup {"avisar", "liberar"}

\* Whoever failed does not pay: an allowed row whose request is over belongs to a
\* reservation, or to a request that ended without its clean-up: its process died,
\* or its audit or its release raised (publico_routes.py:129, formulario_guard_service.py:63).
CupoJustificado ==
    \A i \in Ids :
        (intentos[i].existe /\ intentos[i].uso \in {"curso", "roto"} /\ intentos[i].permitido)
          => \E p \in Solicitudes : sol[p].id = i /\ sol[p].paso \in ConFila

\* Retry-After is the real window: up to the announced second the quota refuses,
\* past it the rows of now let the visitor in (intento_publico_repository.py:54).
EsperaReal ==
    \A f \in Formularios :
        LET Exacta(campo, ventana, limite) ==
                Excedida(campo, f[campo], reloj, ventana, limite) =>
                    LET s == Espera(campo, f[campo], reloj, ventana, limite)
                    IN  /\ \A u \in 0..(s - 1) :
                              Excedida(campo, f[campo], reloj + u, ventana, limite)
                        /\ ~Excedida(campo, f[campo], reloj + s + 1, ventana, limite)
        IN  /\ Exacta("ip", Hora, LimiteIp)
            /\ Exacta("contacto", Dia, LimiteContacto)
            /\ Exacta("cliente", Hora, LimiteCliente)

\* "un honeypot lleno es una senal explicita y siempre debe bloquearse"
\* (intento_publico_repository.py:94), in both modes.
TrampaBloqueada == \A f \in Formularios : f.trampa => hechas[f] = 0

\* Requests that share address, contact and browser in any combination never
\* wait for each other for ever: each one ends.
TodaSolicitudTermina ==
    \A p \in Solicitudes : sol[p].paso # "libre" ~> sol[p].paso = "libre"
===============================================================================

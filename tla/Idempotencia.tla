----------------------------- MODULE Idempotencia ------------------------------
(***************************************************************************)
(* ejecutar_con_idempotencia and the audit that follows it.                *)
(*                                                                         *)
(* A request with a key reserves the key, runs the operation, stores the   *)
(* answer, records the audit event and answers: each one is a transaction  *)
(* of its own, and the process or its connection may die between any two.  *)
(* A request that finds the key taken answers 409 or repeats the stored    *)
(* answer.  A key stands for the pair (clave, endpoint).                   *)
(***************************************************************************)
EXTENDS Integers, FiniteSets

CONSTANTS
    Claves,         \* idempotency keys
    Cuerpos,        \* request bodies, told apart by their hash
    Ninguno,        \* no key, no body, no context
    Contextos,      \* what the operation takes from outside the body: user, path
    Solicitudes,    \* requests in flight at the same time
    MaxEjecuciones  \* bound on the operations done

ASSUME ConstantesDeIdempotencia ==
    /\ Ninguno \notin Claves \cup Cuerpos \cup Contextos
    /\ MaxEjecuciones \in Nat

VARIABLES
    claves,       \* table idempotency_keys; respuesta 0 is response_body NULL
    ejecuciones,  \* operations committed: [id, clave, cuerpo, contexto]
    rotas,        \* history: ids of the operations that raised after their commit
    auditoria,    \* table audit_events: [clave, ejecucion, contexto]
    respuestas,   \* successful answers: [clave, cuerpo, contexto, ejecucion]
    sol           \* the requests in flight

vars == <<claves, ejecuciones, rotas, auditoria, respuestas, sol>>

-------------------------------------------------------------------------------
Ids == 1..MaxEjecuciones

Fila == [hash : Cuerpos \cup {Ninguno}, respuesta : Ids \cup {0}]

SinFila == [hash |-> Ninguno, respuesta |-> 0]

EnCurso == {"operar", "liberar", "guardar"}

Peticion == [pc : {"libre", "leer", "auditar", "contestar"} \cup EnCurso,
             clave : Claves \cup {Ninguno}, cuerpo : Cuerpos \cup {Ninguno},
             contexto : Contextos \cup {Ninguno}, ejecucion : Ids \cup {0}]

Libre == [pc |-> "libre", clave |-> Ninguno, cuerpo |-> Ninguno,
          contexto |-> Ninguno, ejecucion |-> 0]

Reservada(k) == claves[k] # SinFila

\* At step pc with the rest of what the request carries.
En(p, pc, e) == sol' = [sol EXCEPT ![p] = [pc |-> pc, clave |-> sol[p].clave,
                                           cuerpo |-> sol[p].cuerpo,
                                           contexto |-> sol[p].contexto,
                                           ejecucion |-> e]]

Termina(p) == sol' = [sol EXCEPT ![p] = Libre]

Init ==
    /\ claves = [k \in Claves |-> SinFila]
    /\ ejecuciones = {}
    /\ rotas = {}
    /\ auditoria = {}
    /\ respuestas = {}
    /\ sol = [p \in Solicitudes |-> Libre]

-------------------------------------------------------------------------------
Llega(p, k, b, c, pc) ==
    /\ sol[p].pc = "libre"
    /\ sol' = [sol EXCEPT ![p] = [pc |-> pc, clave |-> k, cuerpo |-> b,
                                  contexto |-> c, ejecucion |-> 0]]
    /\ UNCHANGED <<ejecuciones, rotas, auditoria, respuestas>>

\* UNIQUE(clave, endpoint).  The variant asks whether the work is finished
\* instead of whether the row is there.
SinTerminar(k) == claves[k].respuesta = 0

Disponible(k) == ~Reservada(k)

\* The INSERT of the key commits.
Reservar(p) ==
    \E k \in Claves, b \in Cuerpos, c \in Contextos :
        /\ Disponible(k)
        /\ Llega(p, k, b, c, "operar")
        /\ claves' = [claves EXCEPT ![k] = [hash |-> b, respuesta |-> 0]]

\* The INSERT meets the row of somebody else.
Chocar(p) ==
    \E k \in Claves, b \in Cuerpos, c \in Contextos :
        /\ Reservada(k)
        /\ Llega(p, k, b, c, "leer")
        /\ UNCHANGED claves

\* The stored answer is for these data; the variant does not compare hashes.
SinComparar(p) == claves[sol[p].clave].respuesta # 0

PuedeRepetir(p) ==
    /\ claves[sol[p].clave].hash = sol[p].cuerpo
    /\ claves[sol[p].clave].respuesta # 0

Repetir(p) ==
    /\ sol[p].pc = "leer"
    /\ PuedeRepetir(p)
    /\ En(p, "auditar", claves[sol[p].clave].respuesta)
    /\ UNCHANGED <<claves, ejecuciones, rotas, auditoria, respuestas>>

\* 409 for other data or for work in progress, 500 when the row is gone again.
Rechazar(p) ==
    /\ sol[p].pc = "leer"
    /\ ~PuedeRepetir(p)
    /\ Termina(p)
    /\ UNCHANGED <<claves, ejecuciones, rotas, auditoria, respuestas>>

\* The operation commits.
Operar(p) ==
    LET n == Cardinality(ejecuciones) + 1 IN
    /\ sol[p].pc = "operar"
    /\ n <= MaxEjecuciones
    /\ ejecuciones' = ejecuciones \cup
          {[id |-> n, clave |-> sol[p].clave, cuerpo |-> sol[p].cuerpo,
            contexto |-> sol[p].contexto]}
    /\ En(p, "guardar", n)
    /\ UNCHANGED <<claves, rotas, auditoria, respuestas>>

\* The operation refuses, and its transaction is still usable.
Fallar(p) ==
    /\ sol[p].pc = "operar"
    /\ En(p, "liberar", 0)
    /\ UNCHANGED <<claves, ejecuciones, rotas, auditoria, respuestas>>

\* The operation raises after its own commit, in the refresh of what it
\* created: the work stays and the error takes the same way.
FallarTarde(p) ==
    /\ sol[p].pc = "guardar"
    /\ rotas' = rotas \cup {sol[p].ejecucion}
    /\ En(p, "liberar", 0)
    /\ UNCHANGED <<claves, ejecuciones, auditoria, respuestas>>

\* The key is deleted and the error goes up.
Liberar(p) ==
    /\ sol[p].pc = "liberar"
    /\ claves' = [claves EXCEPT ![sol[p].clave] = SinFila]
    /\ Termina(p)
    /\ UNCHANGED <<ejecuciones, rotas, auditoria, respuestas>>

\* UPDATE ... WHERE clave: an absent row stays absent.
Guardar(p) ==
    LET k == sol[p].clave IN
    /\ sol[p].pc = "guardar"
    /\ claves' = IF Reservada(k)
                 THEN [claves EXCEPT ![k].respuesta = sol[p].ejecucion]
                 ELSE claves
    /\ En(p, "auditar", sol[p].ejecucion)
    /\ UNCHANGED <<ejecuciones, rotas, auditoria, respuestas>>

\* UNIQUE(event_key) of audit_events, whose key holds the idempotency key.  The
\* variant records an event for each request.
SinEventKey(k) == TRUE

SinAuditar(k) == \A a \in auditoria : a.clave # k

\* AuditService.registrar: an event that is already there is left as it is.
Auditar(p) ==
    /\ sol[p].pc = "auditar"
    /\ auditoria' = IF SinAuditar(sol[p].clave)
                    THEN auditoria \cup
                         {[clave |-> sol[p].clave, ejecucion |-> sol[p].ejecucion,
                           contexto |-> sol[p].contexto]}
                    ELSE auditoria
    /\ En(p, "contestar", sol[p].ejecucion)
    /\ UNCHANGED <<claves, ejecuciones, rotas, respuestas>>

Contestar(p) ==
    /\ sol[p].pc = "contestar"
    /\ respuestas' = respuestas \cup
          {[clave |-> sol[p].clave, cuerpo |-> sol[p].cuerpo,
            contexto |-> sol[p].contexto, ejecucion |-> sol[p].ejecucion]}
    /\ Termina(p)
    /\ UNCHANGED <<claves, ejecuciones, rotas, auditoria>>

\* The process dies, the connection breaks or the transaction is aborted: the
\* clean-up of the key fails as well, and what was committed stays.
Morir(p) ==
    /\ sol[p].pc # "libre"
    /\ Termina(p)
    /\ UNCHANGED <<claves, ejecuciones, rotas, auditoria, respuestas>>

Next ==
    \E p \in Solicitudes :
        \/ Reservar(p) \/ Chocar(p) \/ Repetir(p) \/ Rechazar(p)
        \/ Operar(p) \/ Fallar(p) \/ FallarTarde(p) \/ Liberar(p) \/ Guardar(p)
        \/ Auditar(p) \/ Contestar(p) \/ Morir(p)

Spec == Init /\ [][Next]_vars

-------------------------------------------------------------------------------
\* The rows and the requests have their types.
TypeOK ==
    /\ claves \in [Claves -> Fila]
    /\ ejecuciones \subseteq
          [id : Ids, clave : Claves, cuerpo : Cuerpos, contexto : Contextos]
    /\ IsFiniteSet(ejecuciones)
    /\ rotas \subseteq Ids
    /\ auditoria \subseteq [clave : Claves, ejecucion : Ids, contexto : Contextos]
    /\ respuestas \subseteq
          [clave : Claves, cuerpo : Cuerpos, contexto : Contextos, ejecucion : Ids]
    /\ sol \in [Solicitudes -> Peticion]
    /\ \A p \in Solicitudes :
          sol[p].pc # "libre"
          => sol[p].clave \in Claves /\ sol[p].cuerpo \in Cuerpos
                                    /\ sol[p].contexto \in Contextos

\* Execution e was done for key k and body b, and did not raise.
HechaPara(e, k, b) ==
    /\ e \notin rotas
    /\ \E x \in ejecuciones : x.id = e /\ x.clave = k /\ x.cuerpo = b

\* A key has one owner at most, and its row says whose data it holds.
UnDuenno ==
    /\ \A p, q \in Solicitudes :
          (sol[p].pc \in EnCurso /\ sol[q].pc \in EnCurso /\ sol[p].clave = sol[q].clave)
          => p = q
    /\ \A p \in Solicitudes :
          sol[p].pc \in EnCurso
          => claves[sol[p].clave] = [hash |-> sol[p].cuerpo, respuesta |-> 0]

\* A key is worked once, but for work whose own request raised after committing
\* it (idempotency.py:89, pago_service.py:157): the key is then free with the
\* work done.  What is stored or carried towards an answer was done for that key
\* and data and did not raise, and until the answer goes out it is the stored one.
TrabajoConocido ==
    /\ \A x, y \in ejecuciones : x.id = y.id => x = y
    /\ \A x \in ejecuciones : x.id \in 1..Cardinality(ejecuciones)
    /\ rotas \subseteq 1..Cardinality(ejecuciones)
    /\ \A x, y \in ejecuciones :
          (x.clave = y.clave /\ x.id \notin rotas /\ y.id \notin rotas) => x = y
    /\ \A x \in ejecuciones : x.id \notin rotas => Reservada(x.clave)
    /\ \A p \in Solicitudes :
          sol[p].pc \in {"operar", "liberar"}
          => \A x \in ejecuciones : x.clave = sol[p].clave => x.id \in rotas
    /\ \A k \in Claves :
          claves[k].respuesta # 0 => HechaPara(claves[k].respuesta, k, claves[k].hash)
    /\ \A p \in Solicitudes :
          sol[p].pc \in {"guardar", "auditar", "contestar"}
          => HechaPara(sol[p].ejecucion, sol[p].clave, sol[p].cuerpo)
    /\ \A p \in Solicitudes :
          sol[p].pc \in {"auditar", "contestar"}
          => claves[sol[p].clave].respuesta = sol[p].ejecucion

\* What was audited or answered for a key is what its row repeats for ever.
LoDichoQueda ==
    /\ \A a \in auditoria : claves[a.clave].respuesta = a.ejecucion
    /\ \A r \in respuestas : claves[r.clave].respuesta = r.ejecucion

\* The inductive invariant: with any interleaving of retries, failures and
\* crashes a key is not worked again unless its work raised after its commit,
\* never answers for other data, and never answers with work that raised.
ClavesCoherentes == TypeOK /\ UnDuenno /\ TrabajoConocido /\ LoDichoQueda

\* A key leaves one audit event at most, about what was really done for it, and
\* no success is answered without it, even when the request that did the work
\* died before its audit and a retry answers instead (AuditService.registrar).
AuditoriaFiel ==
    /\ \A a, b \in auditoria : a.clave = b.clave => a = b
    /\ \A a \in auditoria :
          \E x \in ejecuciones : x.id = a.ejecucion /\ x.clave = a.clave
    /\ \A r \in respuestas :
          \E a \in auditoria : a.clave = r.clave /\ a.ejecucion = r.ejecucion

\* A key whose request is no longer there and that answers nobody.
Abandonada(k) ==
    /\ Reservada(k) /\ claves[k].respuesta = 0
    /\ \A p \in Solicitudes : sol[p].pc \in EnCurso => sol[p].clave # k

\* A key is left in course only by the death of the request that owns it, after
\* a failure that was being cleaned up too; and from then on nobody works it,
\* answers it or frees it: retries meet 409 for ever (idempotency.py:84, :95).
AbandonoPorMuerte ==
    [][\A k \in Claves :
          /\ Abandonada(k) =>
                /\ Abandonada(k)'
                /\ \A e \in ejecuciones' \ ejecuciones : e.clave # k
          /\ (~Abandonada(k) /\ Abandonada(k)') =>
                \E p \in Solicitudes :
                   /\ sol[p].pc \in EnCurso /\ sol[p].clave = k
                   /\ sol'[p] = Libre /\ claves'[k] = claves[k]]_vars

Promesa == INSTANCE PromesaUnica
               WITH hecho <- ejecuciones, roto <- rotas, contestado <- respuestas

\* The two-phase protocol keeps the promise made to the client.
ImplementaPromesa == Promesa!PromesaSpec

\* Comment of the module (idempotency.py:78-79): a second real execution is never
\* risked.  Not so after FallarTarde, whose clean-up frees a key already worked.
NuncaDosVeces ==
    \A x, y \in ejecuciones : x.clave = y.clave => x = y

\* Comment of the model: while response_body is NULL the operation is running.
EnCursoDeVerdad ==
    \A k \in Claves :
        (Reservada(k) /\ claves[k].respuesta = 0)
        => \E p \in Solicitudes : sol[p].clave = k /\ sol[p].pc \in EnCurso

\* Test module: a key reused with different data is rejected, the data that do
\* not travel in the body included.
RespuestaPropia ==
    \A r \in respuestas :
        \E x \in ejecuciones : x.id = r.ejecucion /\ x.contexto = r.contexto
===============================================================================

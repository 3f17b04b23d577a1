----------------------------- MODULE PromesaUnica ------------------------------
(***************************************************************************)
(* What Idempotency-Key promises to a client: the operation of a key is    *)
(* done again only if what was done broke before anybody was told of it,   *)
(* and every successful answer to that key describes one work that did not *)
(* break, done for the very data the client sent.                          *)
(***************************************************************************)
CONSTANTS Claves,      \* idempotency keys
          Cuerpos,     \* request bodies
          Contextos,   \* what the operation takes from outside the body
          Ids          \* identifiers of what is done

VARIABLES hecho,       \* what was done: [id, clave, cuerpo, contexto]
          roto,        \* ids of what was done by a request that then broke
          contestado   \* successful answers: [clave, cuerpo, contexto, ejecucion]

promesaVars == <<hecho, roto, contestado>>

Trabajos == [id : Ids, clave : Claves, cuerpo : Cuerpos, contexto : Contextos]

Contestaciones ==
    [clave : Claves, cuerpo : Cuerpos, contexto : Contextos, ejecucion : Ids]

PromesaInit == hecho = {} /\ roto = {} /\ contestado = {}

\* The operation of a key is done: it was not yet, or what was done broke.
Hacer(e) ==
    /\ e.id \notin roto
    /\ \A h \in hecho : h.id # e.id /\ (h.clave = e.clave => h.id \in roto)
    /\ hecho' = hecho \cup {e}
    /\ UNCHANGED <<roto, contestado>>

\* The request breaks after doing the work, of which nobody was told.
Romper(h) ==
    /\ \A r \in contestado : r.ejecucion # h.id
    /\ roto' = roto \cup {h.id}
    /\ UNCHANGED <<hecho, contestado>>

\* A client is told what was done for its key and its data.
Responder(r) ==
    /\ r.ejecucion \notin roto
    /\ \E h \in hecho : h.id = r.ejecucion /\ h.clave = r.clave /\ h.cuerpo = r.cuerpo
    /\ contestado' = contestado \cup {r}
    /\ UNCHANGED <<hecho, roto>>

PromesaNext ==
    \/ \E e \in Trabajos : Hacer(e)
    \/ \E h \in hecho : Romper(h)
    \/ \E r \in Contestaciones : Responder(r)

PromesaSpec == PromesaInit /\ [][PromesaNext]_promesaVars
===============================================================================

-------------------------- MODULE IdempotenciaProofs ---------------------------
(***************************************************************************)
(* Theorems of Idempotencia, for any sets of keys, bodies, contexts and    *)
(* requests.  The argument: ClavesCoherentes is inductive.  The row of a   *)
(* key gives it one owner; only the owner works, and it deletes the row    *)
(* only if nothing was done or what it did raised after its commit, when   *)
(* nothing was stored, audited or answered for the key.                    *)
(***************************************************************************)
EXTENDS Idempotencia, FiniteSetTheorems, TLAPS

LEMMA LibreTipo == Libre \in Peticion /\ SinFila \in Fila
  BY DEF Libre, Peticion, SinFila, Fila

LEMMA Inicial == Init => ClavesCoherentes
  <1> SUFFICES ASSUME Init PROVE ClavesCoherentes
    OBVIOUS
  <1>1. TypeOK
    BY LibreTipo, FS_EmptySet DEF Init, TypeOK, Libre
  <1>2. UnDuenno
    BY DEF Init, UnDuenno, Libre, EnCurso
  <1>3. TrabajoConocido
    BY DEF Init, TrabajoConocido, Libre, SinFila
  <1>4. LoDichoQueda
    BY DEF Init, LoDichoQueda
  <1>5. QED
    BY <1>1, <1>2, <1>3, <1>4 DEF ClavesCoherentes

\* What a step that touches neither keys nor work may do to a request.
Avance(p, n) ==
    /\ sol' = [sol EXCEPT ![p] = n]
    /\ n \in Peticion
    /\ n.pc # "libre" => n.clave \in Claves /\ n.cuerpo \in Cuerpos /\ n.contexto \in Contextos
    /\ n.pc \in EnCurso =>
          sol[p].pc \in EnCurso /\ n.clave = sol[p].clave /\ n.cuerpo = sol[p].cuerpo
    /\ n.pc \in {"operar", "liberar"} => sol[p].pc \in {"operar", "liberar"}
    /\ n.pc \in {"guardar", "auditar", "contestar"}
          => HechaPara(n.ejecucion, n.clave, n.cuerpo)
    /\ n.pc \in {"auditar", "contestar"} => claves[n.clave].respuesta = n.ejecucion

\* The types of the requests after one of them is replaced.
LEMMA SolTipo ==
    ASSUME TypeOK, NEW p \in Solicitudes, NEW n \in Peticion,
           sol' = [sol EXCEPT ![p] = n],
           n.pc # "libre" => n.clave \in Claves /\ n.cuerpo \in Cuerpos
                                               /\ n.contexto \in Contextos
    PROVE  /\ sol' \in [Solicitudes -> Peticion]
           /\ \A q \in Solicitudes :
                 sol'[q].pc # "libre"
                 => sol'[q].clave \in Claves /\ sol'[q].cuerpo \in Cuerpos
                                            /\ sol'[q].contexto \in Contextos
  BY DEF TypeOK

LEMMA AvanceCoherente ==
    ASSUME ClavesCoherentes, NEW p \in Solicitudes, NEW n, Avance(p, n),
           UNCHANGED <<claves, ejecuciones, rotas>>
    PROVE  UnDuenno' /\ TrabajoConocido'
  <1>1. UnDuenno'
    BY DEF ClavesCoherentes, TypeOK, UnDuenno, Avance
  <1>2. \A q \in Solicitudes : sol'[q] = IF q = p THEN n ELSE sol[q]
    BY DEF ClavesCoherentes, TypeOK, Avance
  <1>3. \A q \in Solicitudes :
           sol'[q].pc \in {"operar", "liberar"}
           => \A x \in ejecuciones : x.clave = sol'[q].clave => x.id \in rotas
    BY <1>2 DEF ClavesCoherentes, TrabajoConocido, Avance, EnCurso
  <1>4. \A q \in Solicitudes :
           sol'[q].pc \in {"guardar", "auditar", "contestar"}
           => HechaPara(sol'[q].ejecucion, sol'[q].clave, sol'[q].cuerpo)
    BY <1>2 DEF ClavesCoherentes, TrabajoConocido, Avance
  <1>5. \A q \in Solicitudes :
           sol'[q].pc \in {"auditar", "contestar"}
           => claves[sol'[q].clave].respuesta = sol'[q].ejecucion
    BY <1>2 DEF ClavesCoherentes, TrabajoConocido, Avance
  <1>6. TrabajoConocido'
    BY <1>3, <1>4, <1>5 DEF ClavesCoherentes, TrabajoConocido, HechaPara, Reservada
  <1>7. QED
    BY <1>1, <1>6

\* A step of that kind that also leaves the audit and the answers well typed and
\* about what is stored.
LEMMA AvanceCompleto ==
    ASSUME ClavesCoherentes, NEW p \in Solicitudes, NEW n, Avance(p, n),
           UNCHANGED <<claves, ejecuciones, rotas>>,
           auditoria' \subseteq [clave : Claves, ejecucion : Ids, contexto : Contextos],
           respuestas' \subseteq
              [clave : Claves, cuerpo : Cuerpos, contexto : Contextos, ejecucion : Ids],
           \A a \in auditoria' :
              a \in auditoria \/ claves[a.clave].respuesta = a.ejecucion,
           \A r \in respuestas' :
              r \in respuestas \/ claves[r.clave].respuesta = r.ejecucion
    PROVE  ClavesCoherentes'
  <1>1. /\ sol' \in [Solicitudes -> Peticion]
        /\ \A q \in Solicitudes :
              sol'[q].pc # "libre"
              => sol'[q].clave \in Claves /\ sol'[q].cuerpo \in Cuerpos
                                         /\ sol'[q].contexto \in Contextos
    BY SolTipo DEF Avance, ClavesCoherentes
  <1>2. TypeOK'
    BY <1>1 DEF TypeOK, ClavesCoherentes
  <1>3. LoDichoQueda'
    BY DEF LoDichoQueda, ClavesCoherentes
  <1>4. QED
    BY <1>2, <1>3, AvanceCoherente DEF ClavesCoherentes

LEMMA FinAvanza ==
    ASSUME NEW p \in Solicitudes, Termina(p)
    PROVE  Avance(p, Libre)
  BY LibreTipo DEF Termina, Avance, Libre, EnCurso

\* A record for the request of p that has moved to another step.
LEMMA EnTipo ==
    ASSUME TypeOK, NEW p \in Solicitudes, sol[p].pc # "libre",
           NEW pc \in {"auditar", "contestar", "liberar", "guardar"},
           NEW e \in Ids \cup {0}, En(p, pc, e)
    PROVE  \E n \in Peticion :
              /\ sol' = [sol EXCEPT ![p] = n]
              /\ n.pc = pc /\ n.ejecucion = e
              /\ n.clave = sol[p].clave /\ n.cuerpo = sol[p].cuerpo
              /\ n.contexto = sol[p].contexto
              /\ n.clave \in Claves /\ n.cuerpo \in Cuerpos /\ n.contexto \in Contextos
  <1> DEFINE n == [pc |-> pc, clave |-> sol[p].clave, cuerpo |-> sol[p].cuerpo,
                   contexto |-> sol[p].contexto, ejecucion |-> e]
  <1>1. n \in Peticion
    BY DEF TypeOK, Peticion, EnCurso
  <1>2. sol' = [sol EXCEPT ![p] = n]
    BY DEF En
  <1>3. n.clave \in Claves /\ n.cuerpo \in Cuerpos /\ n.contexto \in Contextos
    BY DEF TypeOK
  <1>4. QED
    BY <1>1, <1>2, <1>3

\* What was done has an identifier.
LEMMA HechaTiene ==
    ASSUME TypeOK, NEW e, NEW k, NEW b, HechaPara(e, k, b)
    PROVE  e \in Ids /\ e # 0
  BY DEF TypeOK, HechaPara, Ids

\* What was audited or answered has an identifier, so its key has its answer.
LEMMA DichoContestado ==
    ASSUME ClavesCoherentes
    PROVE  /\ \A a \in auditoria : claves[a.clave].respuesta # 0
           /\ \A r \in respuestas : claves[r.clave].respuesta # 0
  BY DEF ClavesCoherentes, TypeOK, LoDichoQueda, Ids

\* A step that changes only rows without an answer leaves what was said.
LEMMA DichoIntacto ==
    ASSUME ClavesCoherentes, NEW k \in Claves, claves[k].respuesta = 0,
           \A c \in Claves : c # k => claves'[c] = claves[c],
           UNCHANGED <<auditoria, respuestas>>
    PROVE  LoDichoQueda'
  <1>1. /\ \A a \in auditoria : a.clave \in Claves /\ a.clave # k
        /\ \A r \in respuestas : r.clave \in Claves /\ r.clave # k
    BY DichoContestado DEF ClavesCoherentes, TypeOK
  <1>2. QED
    BY <1>1 DEF ClavesCoherentes, LoDichoQueda

\* The row of a key that is being worked is there.
LEMMA FilaDelDuenno ==
    ASSUME ClavesCoherentes, NEW p \in Solicitudes, sol[p].pc \in EnCurso
    PROVE  claves[sol[p].clave] # SinFila
  <1>1. sol[p].cuerpo \in Cuerpos
    BY DEF ClavesCoherentes, TypeOK, EnCurso
  <1>2. claves[sol[p].clave].hash = sol[p].cuerpo
    <2>1. claves[sol[p].clave] = [hash |-> sol[p].cuerpo, respuesta |-> 0]
      BY Zenon DEF ClavesCoherentes, UnDuenno
    <2>2. QED
      BY <2>1
  <1>3. SinFila.hash = Ninguno
    BY DEF SinFila
  <1>4. QED
    BY <1>1, <1>2, <1>3, ConstantesDeIdempotencia

-------------------------------------------------------------------------------
\* The key was free, so nobody else owns it and nothing was done for it.
LEMMA PasoReservar ==
    ASSUME ClavesCoherentes, NEW p \in Solicitudes, Reservar(p)
    PROVE  ClavesCoherentes'
  <1>1. PICK k \in Claves, b \in Cuerpos, c \in Contextos :
          /\ Disponible(k)
          /\ Llega(p, k, b, c, "operar")
          /\ claves' = [claves EXCEPT ![k] = [hash |-> b, respuesta |-> 0]]
    BY DEF Reservar
  <1> DEFINE n == [pc |-> "operar", clave |-> k, cuerpo |-> b,
                   contexto |-> c, ejecucion |-> 0]
             f == [hash |-> b, respuesta |-> 0]
  <1>2. /\ n \in Peticion /\ n.pc = "operar" /\ n.clave = k /\ n.cuerpo = b
        /\ n.contexto = c
    BY DEF Peticion, EnCurso
  <1>3. f \in Fila /\ f.hash = b /\ f.respuesta = 0 /\ f # SinFila
    BY ConstantesDeIdempotencia DEF Fila, SinFila
  <1>4. /\ sol' = [sol EXCEPT ![p] = n]
        /\ claves' = [claves EXCEPT ![k] = f]
        /\ claves[k] = SinFila /\ sol[p].pc = "libre"
        /\ UNCHANGED <<ejecuciones, rotas, auditoria, respuestas>>
    BY <1>1 DEF Llega, Disponible, Reservada
  <1>5. f = [hash |-> b, respuesta |-> 0]
    OBVIOUS
  <1> HIDE DEF n, f
  <1>6. TypeOK'
    BY <1>2, <1>3, <1>4, SolTipo DEF ClavesCoherentes, TypeOK
  <1>7. \A q \in Solicitudes : sol[q].pc \in EnCurso => sol[q].clave # k
    BY <1>4, FilaDelDuenno
  <1>8. UnDuenno'
    BY <1>2, <1>4, <1>5, <1>7 DEF ClavesCoherentes, TypeOK, UnDuenno, EnCurso
  <1>9. \A x \in ejecuciones : x.clave = k => x.id \in rotas
    BY <1>4 DEF ClavesCoherentes, TrabajoConocido, Reservada
  <1>10. claves[k].respuesta = 0
    BY <1>4 DEF SinFila
  <1>11. TrabajoConocido'
    <2>1. \A q \in Solicitudes :
             sol[q].pc \in {"auditar", "contestar"} => sol[q].clave # k
      BY <1>10, HechaTiene DEF ClavesCoherentes, TrabajoConocido
    <2>2. \A q \in Solicitudes : sol'[q] = IF q = p THEN n ELSE sol[q]
      BY <1>4 DEF ClavesCoherentes, TypeOK
    <2>3. \A q \in Claves : claves'[q] = IF q = k THEN f ELSE claves[q]
      BY <1>4 DEF ClavesCoherentes, TypeOK
    <2>4. \A q \in Solicitudes :
             sol'[q].pc \in {"operar", "liberar"}
             => \A x \in ejecuciones' : x.clave = sol'[q].clave => x.id \in rotas'
      BY <1>2, <1>4, <1>9, <2>2 DEF ClavesCoherentes, TrabajoConocido
    <2>5. \A q \in Claves :
             claves'[q].respuesta # 0
             => (HechaPara(claves'[q].respuesta, q, claves'[q].hash))
      BY <1>3, <2>3 DEF ClavesCoherentes, TrabajoConocido
    <2>6. \A q \in Solicitudes :
             sol'[q].pc \in {"guardar", "auditar", "contestar"}
             => HechaPara(sol'[q].ejecucion, sol'[q].clave, sol'[q].cuerpo)
      BY <1>2, <2>2 DEF ClavesCoherentes, TrabajoConocido
    <2>7. \A q \in Solicitudes :
             sol'[q].pc \in {"auditar", "contestar"}
             => claves'[sol'[q].clave].respuesta = sol'[q].ejecucion
      BY <1>2, <2>1, <2>2, <2>3 DEF ClavesCoherentes, TypeOK, TrabajoConocido
    <2>8. \A x \in ejecuciones' : x.id \notin rotas' => claves'[x.clave] # SinFila
      BY <1>3, <1>4, <2>3 DEF ClavesCoherentes, TypeOK, TrabajoConocido, Reservada
    <2>9. /\ \A x, y \in ejecuciones' : x.id = y.id => x = y
          /\ \A x \in ejecuciones' : x.id \in 1..Cardinality(ejecuciones')
          /\ rotas' \subseteq 1..Cardinality(ejecuciones')
          /\ \A x, y \in ejecuciones' :
                (x.clave = y.clave /\ x.id \notin rotas' /\ y.id \notin rotas') => x = y
      BY <1>4 DEF ClavesCoherentes, TrabajoConocido
    <2>10. QED
      BY <1>4, <2>4, <2>5, <2>6, <2>7, <2>8, <2>9 DEF TrabajoConocido, HechaPara, Reservada
  <1>12. LoDichoQueda'
    BY <1>4, <1>10, DichoIntacto DEF ClavesCoherentes, TypeOK
  <1>13. QED
    BY <1>6, <1>8, <1>11, <1>12 DEF ClavesCoherentes

\* The work is new: what its key had raised, and its identifier is the next one.
LEMMA TrabajoNuevo ==
    ASSUME ClavesCoherentes, NEW p \in Solicitudes, Operar(p)
    PROVE  \E e \in [id : Ids, clave : Claves, cuerpo : Cuerpos, contexto : Contextos] :
              /\ ejecuciones' = ejecuciones \cup {e}
              /\ e.id = Cardinality(ejecuciones) + 1
              /\ e.clave = sol[p].clave /\ e.cuerpo = sol[p].cuerpo
              /\ \A x \in ejecuciones : x.id # e.id /\ (x.clave = e.clave => x.id \in rotas)
              /\ e.id \notin rotas
              /\ IsFiniteSet(ejecuciones')
              /\ Cardinality(ejecuciones') = Cardinality(ejecuciones) + 1
              /\ En(p, "guardar", e.id)
  <1> DEFINE m == Cardinality(ejecuciones) + 1
             e == [id |-> m, clave |-> sol[p].clave, cuerpo |-> sol[p].cuerpo,
                   contexto |-> sol[p].contexto]
  <1>1. Cardinality(ejecuciones) \in Nat /\ IsFiniteSet(ejecuciones)
    BY FS_CardinalityType DEF ClavesCoherentes, TypeOK
  <1>2. m \in Ids
    BY <1>1, ConstantesDeIdempotencia DEF Operar, Ids
  <1>3. e \in [id : Ids, clave : Claves, cuerpo : Cuerpos, contexto : Contextos]
    BY <1>2 DEF Operar, ClavesCoherentes, TypeOK
  <1>4. \A x \in ejecuciones : x.id # e.id /\ (x.clave = e.clave => x.id \in rotas)
    BY <1>1 DEF Operar, ClavesCoherentes, TrabajoConocido
  <1>5. e.id \notin rotas
    BY <1>1 DEF ClavesCoherentes, TrabajoConocido
  <1>6. ejecuciones' = ejecuciones \cup {e} /\ En(p, "guardar", m)
    BY DEF Operar
  <1>7. e \notin ejecuciones
    BY <1>4
  <1>8. /\ IsFiniteSet(ejecuciones')
        /\ Cardinality(ejecuciones') = Cardinality(ejecuciones) + 1
    BY <1>1, <1>6, <1>7, FS_AddElement
  <1>9. QED
    BY <1>3, <1>4, <1>5, <1>6, <1>8

LEMMA PasoOperar ==
    ASSUME ClavesCoherentes, NEW p \in Solicitudes, Operar(p)
    PROVE  ClavesCoherentes'
  <1>1. PICK e \in [id : Ids, clave : Claves, cuerpo : Cuerpos, contexto : Contextos] :
              /\ ejecuciones' = ejecuciones \cup {e}
              /\ e.id = Cardinality(ejecuciones) + 1
              /\ e.clave = sol[p].clave /\ e.cuerpo = sol[p].cuerpo
              /\ \A x \in ejecuciones : x.id # e.id /\ (x.clave = e.clave => x.id \in rotas)
              /\ e.id \notin rotas
              /\ IsFiniteSet(ejecuciones')
              /\ Cardinality(ejecuciones') = Cardinality(ejecuciones) + 1
              /\ En(p, "guardar", e.id)
    BY TrabajoNuevo
  <1>2. sol[p].pc = "operar" /\ UNCHANGED <<claves, rotas, auditoria, respuestas>>
    BY DEF Operar
  <1>3. PICK n \in Peticion :
              /\ sol' = [sol EXCEPT ![p] = n]
              /\ n.pc = "guardar" /\ n.ejecucion = e.id
              /\ n.clave = sol[p].clave /\ n.cuerpo = sol[p].cuerpo
              /\ n.contexto = sol[p].contexto
              /\ n.clave \in Claves /\ n.cuerpo \in Cuerpos /\ n.contexto \in Contextos
    BY <1>1, <1>2, EnTipo DEF ClavesCoherentes
  <1>4. TypeOK'
    BY <1>1, <1>2, <1>3, SolTipo DEF ClavesCoherentes, TypeOK
  <1>5. UnDuenno'
    BY <1>2, <1>3 DEF ClavesCoherentes, TypeOK, UnDuenno, EnCurso
  <1>6. \A q \in Solicitudes : sol'[q] = IF q = p THEN n ELSE sol[q]
    BY <1>3 DEF ClavesCoherentes, TypeOK
  <1>7. /\ \A x, y \in ejecuciones' : x.id = y.id => x = y
        /\ \A x, y \in ejecuciones' :
              (x.clave = y.clave /\ x.id \notin rotas' /\ y.id \notin rotas') => x = y
    BY <1>1, <1>2 DEF ClavesCoherentes, TrabajoConocido
  <1>8. /\ \A x \in ejecuciones' : x.id \in 1..Cardinality(ejecuciones')
        /\ rotas' \subseteq 1..Cardinality(ejecuciones')
    <2>1. Cardinality(ejecuciones) \in Nat
      BY FS_CardinalityType DEF ClavesCoherentes, TypeOK
    <2>2. \A x \in ejecuciones' : x.id \in 1..Cardinality(ejecuciones')
      BY <1>1, <2>1 DEF ClavesCoherentes, TrabajoConocido
    <2>3. \A i \in rotas : i \in 1..Cardinality(ejecuciones)
      BY DEF ClavesCoherentes, TrabajoConocido
    <2>4. \A i \in rotas : i \in 1..(Cardinality(ejecuciones) + 1)
      BY <2>1, <2>3
    <2>5. QED
      BY <1>1, <1>2, <2>2, <2>4
  <1>9. \A x \in ejecuciones' : x.id \notin rotas' => claves'[x.clave] # SinFila
    <2>1. claves[sol[p].clave] # SinFila
      BY <1>2, FilaDelDuenno DEF EnCurso
    <2>2. QED
      BY <1>1, <1>2, <2>1 DEF ClavesCoherentes, TrabajoConocido, Reservada
  <1>10. \A q \in Solicitudes :
           sol'[q].pc \in {"operar", "liberar"}
           => \A x \in ejecuciones' : x.clave = sol'[q].clave => x.id \in rotas'
    <2> SUFFICES ASSUME NEW q \in Solicitudes, sol'[q].pc \in {"operar", "liberar"}
                 PROVE  \A x \in ejecuciones' : x.clave = sol'[q].clave => x.id \in rotas'
      OBVIOUS
    <2>1. q # p /\ sol'[q] = sol[q]
      BY <1>3, <1>6
    <2>2. sol[q].clave # e.clave
      BY <1>1, <1>2, <2>1 DEF ClavesCoherentes, UnDuenno, EnCurso
    <2>3. QED
      BY <1>1, <1>2, <2>1, <2>2 DEF ClavesCoherentes, TrabajoConocido
  <1>11. \A k \in Claves :
           claves'[k].respuesta # 0
           => /\ claves'[k].respuesta \notin rotas'
              /\ \E x \in ejecuciones' :
                    x.id = claves'[k].respuesta /\ x.clave = k /\ x.cuerpo = claves'[k].hash
    BY <1>1, <1>2 DEF ClavesCoherentes, TrabajoConocido, HechaPara
  <1>12. \A q \in Solicitudes :
           sol'[q].pc \in {"guardar", "auditar", "contestar"}
           => /\ sol'[q].ejecucion \notin rotas'
              /\ \E x \in ejecuciones' :
                    /\ x.id = sol'[q].ejecucion
                    /\ x.clave = sol'[q].clave /\ x.cuerpo = sol'[q].cuerpo
    <2> SUFFICES ASSUME NEW q \in Solicitudes,
                        sol'[q].pc \in {"guardar", "auditar", "contestar"}
                 PROVE  /\ sol'[q].ejecucion \notin rotas'
                        /\ \E x \in ejecuciones' :
                              /\ x.id = sol'[q].ejecucion
                              /\ x.clave = sol'[q].clave /\ x.cuerpo = sol'[q].cuerpo
      OBVIOUS
    <2>1. CASE q = p
      BY <2>1, <1>1, <1>2, <1>3, <1>6
    <2>2. CASE q # p
      BY <2>2, <1>1, <1>2, <1>6 DEF ClavesCoherentes, TrabajoConocido, HechaPara
    <2>3. QED
      BY <2>1, <2>2
  <1>13. \A q \in Solicitudes :
           sol'[q].pc \in {"auditar", "contestar"}
           => claves'[sol'[q].clave].respuesta = sol'[q].ejecucion
    BY <1>2, <1>3, <1>6 DEF ClavesCoherentes, TrabajoConocido
  <1>14. TrabajoConocido'
    BY <1>7, <1>8, <1>9, <1>10, <1>11, <1>12, <1>13
    DEF TrabajoConocido, HechaPara, Reservada
  <1>15. LoDichoQueda'
    BY <1>2 DEF ClavesCoherentes, LoDichoQueda
  <1>16. QED
    BY <1>4, <1>5, <1>14, <1>15 DEF ClavesCoherentes

\* Whoever holds work that stands for the key of its owner p is p itself, before
\* the answer is stored: nobody stored it, audits it or answers it.
LEMMA SoloElDuenno ==
    ASSUME ClavesCoherentes, NEW p \in Solicitudes, sol[p].pc \in EnCurso
    PROVE  /\ claves[sol[p].clave].respuesta = 0
           /\ \A q \in Solicitudes :
                 sol[q].pc \in {"auditar", "contestar"} => sol[q].clave # sol[p].clave
           /\ \A q \in Solicitudes :
                 (sol[q].pc = "guardar" /\ sol[q].clave = sol[p].clave) => q = p
  <1>1. claves[sol[p].clave] = [hash |-> sol[p].cuerpo, respuesta |-> 0]
    BY DEF ClavesCoherentes, UnDuenno
  <1>2. claves[sol[p].clave].respuesta = 0
    BY <1>1
  <1>3. \A q \in Solicitudes :
           sol[q].pc \in {"auditar", "contestar"} => sol[q].clave # sol[p].clave
    BY <1>2, HechaTiene DEF ClavesCoherentes, TrabajoConocido
  <1>4. \A q \in Solicitudes :
           (sol[q].pc = "guardar" /\ sol[q].clave = sol[p].clave) => q = p
    BY DEF ClavesCoherentes, UnDuenno, EnCurso
  <1>5. QED
    BY <1>2, <1>3, <1>4

\* Work that raises after its commit was only in the hands of its request.
LEMMA PasoFallarTarde ==
    ASSUME ClavesCoherentes, NEW p \in Solicitudes, FallarTarde(p)
    PROVE  ClavesCoherentes'
  <1> DEFINE e == sol[p].ejecucion
             c == sol[p].clave
  <1>1. /\ sol[p].pc = "guardar" /\ En(p, "liberar", 0) /\ rotas' = rotas \cup {e}
        /\ UNCHANGED <<claves, ejecuciones, auditoria, respuestas>>
    BY DEF FallarTarde
  <1>2. PICK n \in Peticion :
              /\ sol' = [sol EXCEPT ![p] = n]
              /\ n.pc = "liberar" /\ n.ejecucion = 0
              /\ n.clave = c /\ n.cuerpo = sol[p].cuerpo
              /\ n.contexto = sol[p].contexto
              /\ n.clave \in Claves /\ n.cuerpo \in Cuerpos /\ n.contexto \in Contextos
    BY <1>1, EnTipo DEF ClavesCoherentes
  <1>3. HechaPara(e, c, sol[p].cuerpo)
    BY <1>1 DEF ClavesCoherentes, TrabajoConocido
  <1>4. e \in Ids
    BY <1>3, HechaTiene DEF ClavesCoherentes
  <1>5. TypeOK'
    BY <1>1, <1>2, <1>4, SolTipo DEF ClavesCoherentes, TypeOK
  <1>6. UnDuenno'
    BY <1>1, <1>2 DEF ClavesCoherentes, TypeOK, UnDuenno, EnCurso
  <1>7. \A q \in Solicitudes : sol'[q] = IF q = p THEN n ELSE sol[q]
    BY <1>2 DEF ClavesCoherentes, TypeOK
  <1>8. \A k, ee, b : (HechaPara(ee, k, b) /\ k # c) => ee # e
    BY <1>3 DEF ClavesCoherentes, TrabajoConocido, HechaPara
  <1>9. rotas' \subseteq 1..Cardinality(ejecuciones')
    <2>1. e \in 1..Cardinality(ejecuciones)
      BY <1>3 DEF ClavesCoherentes, TrabajoConocido, HechaPara
    <2>2. \A i \in rotas : i \in 1..Cardinality(ejecuciones)
      BY DEF ClavesCoherentes, TrabajoConocido
    <2>3. QED
      BY <1>1, <2>1, <2>2
  <1>10. /\ \A x \in ejecuciones : x.id \notin rotas' => claves[x.clave] # SinFila
         /\ \A x, y \in ejecuciones :
               (x.clave = y.clave /\ x.id \notin rotas' /\ y.id \notin rotas') => x = y
    BY <1>1 DEF ClavesCoherentes, TrabajoConocido, Reservada
  <1>11. \A x \in ejecuciones : x.clave = c => x.id \in rotas'
    BY <1>1, <1>3 DEF ClavesCoherentes, TrabajoConocido, HechaPara
  <1>12. \A q \in Solicitudes :
            sol'[q].pc \in {"operar", "liberar"}
            => \A x \in ejecuciones : x.clave = sol'[q].clave => x.id \in rotas'
    BY <1>1, <1>2, <1>7, <1>11 DEF ClavesCoherentes, TrabajoConocido
  <1>13. \A k \in Claves :
            claves[k].respuesta # 0
            => /\ claves[k].respuesta \notin rotas'
               /\ \E x \in ejecuciones :
                     x.id = claves[k].respuesta /\ x.clave = k /\ x.cuerpo = claves[k].hash
    <2> SUFFICES ASSUME NEW k \in Claves, claves[k].respuesta # 0
                 PROVE  /\ claves[k].respuesta \notin rotas'
                        /\ \E x \in ejecuciones :
                              /\ x.id = claves[k].respuesta
                              /\ x.clave = k /\ x.cuerpo = claves[k].hash
      OBVIOUS
    <2>1. HechaPara(claves[k].respuesta, k, claves[k].hash)
      BY DEF ClavesCoherentes, TrabajoConocido
    <2>2. k # c
      BY <1>1, SoloElDuenno DEF EnCurso
    <2>3. QED
      BY <1>1, <1>8, <2>1, <2>2 DEF HechaPara
  <1>14. \A q \in Solicitudes :
            sol'[q].pc \in {"guardar", "auditar", "contestar"}
            => /\ sol'[q].ejecucion \notin rotas'
               /\ \E x \in ejecuciones :
                     /\ x.id = sol'[q].ejecucion
                     /\ x.clave = sol'[q].clave /\ x.cuerpo = sol'[q].cuerpo
    <2> SUFFICES ASSUME NEW q \in Solicitudes,
                        sol'[q].pc \in {"guardar", "auditar", "contestar"}
                 PROVE  /\ sol[q].ejecucion \notin rotas'
                        /\ \E x \in ejecuciones :
                              /\ x.id = sol[q].ejecucion
                              /\ x.clave = sol[q].clave /\ x.cuerpo = sol[q].cuerpo
      BY <1>2, <1>7
    <2>1. q # p /\ sol'[q] = sol[q]
      BY <1>2, <1>7
    <2>2. HechaPara(sol[q].ejecucion, sol[q].clave, sol[q].cuerpo)
      BY <2>1 DEF ClavesCoherentes, TrabajoConocido
    <2>3. sol[q].clave # c
      BY <1>1, <2>1, SoloElDuenno DEF EnCurso
    <2>4. QED
      BY <1>1, <1>8, <2>2, <2>3 DEF HechaPara
  <1>15. \A q \in Solicitudes :
            sol'[q].pc \in {"auditar", "contestar"}
            => claves[sol'[q].clave].respuesta = sol'[q].ejecucion
    BY <1>2, <1>7 DEF ClavesCoherentes, TrabajoConocido
  <1>16. /\ \A x, y \in ejecuciones : x.id = y.id => x = y
         /\ \A x \in ejecuciones : x.id \in 1..Cardinality(ejecuciones)
    BY DEF ClavesCoherentes, TrabajoConocido
  <1>17. TrabajoConocido'
    BY <1>1, <1>9, <1>10, <1>12, <1>13, <1>14, <1>15, <1>16
    DEF TrabajoConocido, HechaPara, Reservada
  <1>18. LoDichoQueda'
    BY <1>1 DEF ClavesCoherentes, LoDichoQueda
  <1>19. QED
    BY <1>5, <1>6, <1>17, <1>18 DEF ClavesCoherentes

\* The owner deletes a key for which nothing was done, or nothing that stands.
LEMMA PasoLiberar ==
    ASSUME ClavesCoherentes, NEW p \in Solicitudes, Liberar(p)
    PROVE  ClavesCoherentes'
  <1> DEFINE k == sol[p].clave
  <1>1. /\ sol[p].pc = "liberar" /\ k \in Claves
        /\ claves' = [claves EXCEPT ![k] = SinFila]
        /\ sol' = [sol EXCEPT ![p] = Libre]
        /\ UNCHANGED <<ejecuciones, rotas, auditoria, respuestas>>
    BY DEF Liberar, Termina, ClavesCoherentes, TypeOK
  <1>2. Libre \in Peticion /\ Libre.pc = "libre" /\ SinFila \in Fila /\ SinFila.respuesta = 0
    BY LibreTipo DEF Libre, SinFila
  <1>3. TypeOK'
    BY <1>1, <1>2, SolTipo DEF ClavesCoherentes, TypeOK
  <1>4. UnDuenno'
    BY <1>1, <1>2 DEF ClavesCoherentes, TypeOK, UnDuenno, EnCurso
  <1>5. \A x \in ejecuciones : x.clave = k => x.id \in rotas
    BY <1>1 DEF ClavesCoherentes, TrabajoConocido
  <1>6. /\ claves[k].respuesta = 0
        /\ \A q \in Solicitudes :
              sol[q].pc \in {"auditar", "contestar"} => sol[q].clave # k
    BY <1>1, SoloElDuenno DEF EnCurso
  <1>7. /\ \A q \in Solicitudes : sol'[q] = IF q = p THEN Libre ELSE sol[q]
        /\ \A q \in Claves : claves'[q] = IF q = k THEN SinFila ELSE claves[q]
    BY <1>1 DEF ClavesCoherentes, TypeOK
  <1>8. TrabajoConocido'
    <2>1. \A x \in ejecuciones : x.id \notin rotas => claves'[x.clave] # SinFila
      BY <1>5, <1>7 DEF ClavesCoherentes, TypeOK, TrabajoConocido, Reservada
    <2>2. \A q \in Claves :
             claves'[q].respuesta # 0 => HechaPara(claves'[q].respuesta, q, claves'[q].hash)
      BY <1>2, <1>7 DEF ClavesCoherentes, TrabajoConocido
    <2>3. \A q \in Solicitudes :
             sol'[q].pc \in {"guardar", "auditar", "contestar"}
             => HechaPara(sol'[q].ejecucion, sol'[q].clave, sol'[q].cuerpo)
      BY <1>2, <1>7 DEF ClavesCoherentes, TrabajoConocido
    <2>4. \A q \in Solicitudes :
             sol'[q].pc \in {"auditar", "contestar"}
             => claves'[sol'[q].clave].respuesta = sol'[q].ejecucion
      BY <1>2, <1>6, <1>7 DEF ClavesCoherentes, TypeOK, TrabajoConocido
    <2>5. \A q \in Solicitudes :
             sol'[q].pc \in {"operar", "liberar"}
             => \A x \in ejecuciones : x.clave = sol'[q].clave => x.id \in rotas
      BY <1>2, <1>7 DEF ClavesCoherentes, TrabajoConocido
    <2>6. QED
      BY <1>1, <2>1, <2>2, <2>3, <2>4, <2>5
      DEF ClavesCoherentes, TrabajoConocido, HechaPara, Reservada
  <1>9. LoDichoQueda'
    BY <1>1, <1>6, <1>7, DichoIntacto
  <1>10. QED
    BY <1>3, <1>4, <1>8, <1>9 DEF ClavesCoherentes

\* The owner stores the answer in its own row.
LEMMA PasoGuardar ==
    ASSUME ClavesCoherentes, NEW p \in Solicitudes, Guardar(p)
    PROVE  ClavesCoherentes'
  <1> DEFINE k == sol[p].clave
             f == [claves[k] EXCEPT !.respuesta = sol[p].ejecucion]
  <1>1. /\ sol[p].pc = "guardar" /\ k \in Claves /\ sol[p].cuerpo \in Cuerpos
        /\ sol[p].ejecucion \in Ids \cup {0}
        /\ UNCHANGED <<ejecuciones, rotas, auditoria, respuestas>>
    BY DEF Guardar, ClavesCoherentes, TypeOK, Peticion
  <1>2. claves[k] = [hash |-> sol[p].cuerpo, respuesta |-> 0]
    BY <1>1 DEF ClavesCoherentes, UnDuenno, EnCurso
  <1>3. claves' = [claves EXCEPT ![k] = f]
    <2>1. Reservada(k)
      BY <1>1, <1>2, ConstantesDeIdempotencia DEF Reservada, SinFila
    <2>2. QED
      BY <2>1 DEF Guardar
  <1>4. /\ f \in Fila /\ f.hash = sol[p].cuerpo /\ f.respuesta = sol[p].ejecucion
        /\ f # SinFila
    BY <1>1, <1>2, ConstantesDeIdempotencia DEF Fila, SinFila
  <1>5. PICK n \in Peticion :
              /\ sol' = [sol EXCEPT ![p] = n]
              /\ n.pc = "auditar" /\ n.ejecucion = sol[p].ejecucion
              /\ n.clave = k /\ n.cuerpo = sol[p].cuerpo
              /\ n.contexto = sol[p].contexto
              /\ n.clave \in Claves /\ n.cuerpo \in Cuerpos /\ n.contexto \in Contextos
    BY <1>1, EnTipo DEF Guardar, ClavesCoherentes
  <1>6. HechaPara(sol[p].ejecucion, k, sol[p].cuerpo)
    BY <1>1 DEF ClavesCoherentes, TrabajoConocido
  <1>7. \A q \in Solicitudes :
           sol[q].pc \in {"auditar", "contestar"} => sol[q].clave # k
    BY <1>1, SoloElDuenno DEF EnCurso
  <1> HIDE DEF f
  <1>8. /\ \A q \in Solicitudes : sol'[q] = IF q = p THEN n ELSE sol[q]
        /\ \A q \in Claves : claves'[q] = IF q = k THEN f ELSE claves[q]
    BY <1>3, <1>5 DEF ClavesCoherentes, TypeOK
  <1>9. TypeOK'
    BY <1>1, <1>3, <1>4, <1>5, SolTipo DEF ClavesCoherentes, TypeOK
  <1>10. UnDuenno'
    BY <1>1, <1>3, <1>5 DEF ClavesCoherentes, TypeOK, UnDuenno, EnCurso
  <1>11. \A q \in Claves :
            claves'[q].respuesta # 0 => HechaPara(claves'[q].respuesta, q, claves'[q].hash)
    BY <1>4, <1>6, <1>8 DEF ClavesCoherentes, TrabajoConocido
  <1>12. \A x \in ejecuciones : x.id \notin rotas => claves'[x.clave] # SinFila
    BY <1>4, <1>8 DEF ClavesCoherentes, TypeOK, TrabajoConocido, Reservada
  <1>13. \A q \in Solicitudes :
           sol'[q].pc \in {"guardar", "auditar", "contestar"}
           => HechaPara(sol'[q].ejecucion, sol'[q].clave, sol'[q].cuerpo)
    BY <1>5, <1>6, <1>8 DEF ClavesCoherentes, TrabajoConocido
  <1>14. \A q \in Solicitudes :
           sol'[q].pc \in {"auditar", "contestar"}
           => claves'[sol'[q].clave].respuesta = sol'[q].ejecucion
    BY <1>4, <1>5, <1>7, <1>8 DEF ClavesCoherentes, TypeOK, TrabajoConocido
  <1>15. \A q \in Solicitudes :
           sol'[q].pc \in {"operar", "liberar"}
           => \A x \in ejecuciones : x.clave = sol'[q].clave => x.id \in rotas
    BY <1>5, <1>8 DEF ClavesCoherentes, TrabajoConocido
  <1>16. TrabajoConocido'
    BY <1>1, <1>11, <1>12, <1>13, <1>14, <1>15
    DEF ClavesCoherentes, TrabajoConocido, HechaPara, Reservada
  <1>17. LoDichoQueda'
    <2>1. claves[k].respuesta = 0
      BY <1>2
    <2>2. QED
      BY <1>1, <1>8, <2>1, DichoIntacto
  <1>18. QED
    BY <1>9, <1>10, <1>16, <1>17 DEF ClavesCoherentes

-------------------------------------------------------------------------------
\* The steps that touch neither the keys nor the work: each one leaves its
\* request where Avance allows.
LEMMA PasoChocar ==
    ASSUME ClavesCoherentes, NEW p \in Solicitudes, Chocar(p)
    PROVE  ClavesCoherentes'
  <1>1. PICK k \in Claves, b \in Cuerpos, c \in Contextos :
          Llega(p, k, b, c, "leer") /\ UNCHANGED claves
    BY DEF Chocar
  <1> DEFINE n == [pc |-> "leer", clave |-> k, cuerpo |-> b,
                   contexto |-> c, ejecucion |-> 0]
  <1>2. Avance(p, n)
    BY <1>1 DEF Llega, Avance, Peticion, EnCurso
  <1>3. UNCHANGED <<claves, ejecuciones, rotas, auditoria, respuestas>>
    BY <1>1 DEF Llega
  <1>4. QED
    BY <1>2, <1>3, AvanceCompleto DEF ClavesCoherentes, TypeOK

\* The request ends, whatever it carried.
LEMMA PasoFinal ==
    ASSUME ClavesCoherentes, NEW p \in Solicitudes,
           Rechazar(p) \/ Morir(p)
    PROVE  ClavesCoherentes'
  <1>1. Avance(p, Libre) /\ UNCHANGED <<claves, ejecuciones, rotas, auditoria, respuestas>>
    BY FinAvanza DEF Rechazar, Morir
  <1>2. QED
    BY <1>1, AvanceCompleto DEF ClavesCoherentes, TypeOK

\* A stored answer was done for the key and, the hashes being equal, for the
\* body of the request that repeats it.
LEMMA RepetidaHecha ==
    ASSUME ClavesCoherentes, NEW p \in Solicitudes, Repetir(p)
    PROVE  HechaPara(claves[sol[p].clave].respuesta, sol[p].clave, sol[p].cuerpo)
  <1>1. sol[p].clave \in Claves
    BY DEF ClavesCoherentes, TypeOK, Repetir
  <1>2. QED
    BY <1>1 DEF ClavesCoherentes, TrabajoConocido, Repetir, PuedeRepetir

\* A request of pc goes on to another step with work e, known to be its own.
LEMMA AvanzaConTrabajo ==
    ASSUME ClavesCoherentes, NEW p \in Solicitudes, sol[p].pc # "libre",
           NEW pc \in {"auditar", "contestar"}, NEW e, En(p, pc, e),
           HechaPara(e, sol[p].clave, sol[p].cuerpo),
           claves[sol[p].clave].respuesta = e
    PROVE  \E n : Avance(p, n)
  <1>1. e \in Ids \cup {0}
    BY HechaTiene DEF ClavesCoherentes
  <1>2. PICK n \in Peticion :
              /\ sol' = [sol EXCEPT ![p] = n]
              /\ n.pc = pc /\ n.ejecucion = e
              /\ n.clave = sol[p].clave /\ n.cuerpo = sol[p].cuerpo
              /\ n.contexto = sol[p].contexto
              /\ n.clave \in Claves /\ n.cuerpo \in Cuerpos /\ n.contexto \in Contextos
    BY <1>1, EnTipo DEF ClavesCoherentes
  <1>3. Avance(p, n)
    BY <1>2 DEF Avance, EnCurso
  <1>4. QED
    BY <1>3

LEMMA PasoRepetir ==
    ASSUME ClavesCoherentes, NEW p \in Solicitudes, Repetir(p)
    PROVE  ClavesCoherentes'
  <1>1. /\ sol[p].pc = "leer"
        /\ En(p, "auditar", claves[sol[p].clave].respuesta)
        /\ UNCHANGED <<claves, ejecuciones, rotas, auditoria, respuestas>>
    BY DEF Repetir
  <1>2. PICK n : Avance(p, n)
    BY <1>1, RepetidaHecha, AvanzaConTrabajo
  <1>3. QED
    BY <1>1, <1>2, AvanceCompleto DEF ClavesCoherentes, TypeOK

LEMMA PasoFallar ==
    ASSUME ClavesCoherentes, NEW p \in Solicitudes, Fallar(p)
    PROVE  ClavesCoherentes'
  <1>1. /\ sol[p].pc = "operar" /\ En(p, "liberar", 0)
        /\ UNCHANGED <<claves, ejecuciones, rotas, auditoria, respuestas>>
    BY DEF Fallar
  <1>2. PICK n \in Peticion :
              /\ sol' = [sol EXCEPT ![p] = n]
              /\ n.pc = "liberar" /\ n.ejecucion = 0
              /\ n.clave = sol[p].clave /\ n.cuerpo = sol[p].cuerpo
              /\ n.contexto = sol[p].contexto
              /\ n.clave \in Claves /\ n.cuerpo \in Cuerpos /\ n.contexto \in Contextos
    BY <1>1, EnTipo DEF ClavesCoherentes
  <1>3. Avance(p, n)
    BY <1>1, <1>2 DEF Avance, EnCurso
  <1>4. QED
    BY <1>1, <1>3, AvanceCompleto DEF ClavesCoherentes, TypeOK

\* What the request carries to its audit or to its answer was done for it.
LEMMA LlevaLoHecho ==
    ASSUME ClavesCoherentes, NEW p \in Solicitudes,
           sol[p].pc \in {"auditar", "contestar"}
    PROVE  /\ HechaPara(sol[p].ejecucion, sol[p].clave, sol[p].cuerpo)
           /\ sol[p].ejecucion \in Ids /\ sol[p].clave \in Claves
           /\ sol[p].cuerpo \in Cuerpos /\ sol[p].contexto \in Contextos
           /\ claves[sol[p].clave].respuesta = sol[p].ejecucion
  <1>1. HechaPara(sol[p].ejecucion, sol[p].clave, sol[p].cuerpo)
    BY DEF ClavesCoherentes, TrabajoConocido
  <1>2. sol[p].ejecucion \in Ids
    BY <1>1, HechaTiene DEF ClavesCoherentes
  <1>3. claves[sol[p].clave].respuesta = sol[p].ejecucion
    BY DEF ClavesCoherentes, TrabajoConocido
  <1>4. QED
    BY <1>1, <1>2, <1>3 DEF ClavesCoherentes, TypeOK

LEMMA PasoAuditar ==
    ASSUME ClavesCoherentes, NEW p \in Solicitudes, Auditar(p)
    PROVE  ClavesCoherentes'
  <1>1. /\ sol[p].pc = "auditar" /\ En(p, "contestar", sol[p].ejecucion)
        /\ UNCHANGED <<claves, ejecuciones, rotas, respuestas>>
    BY DEF Auditar
  <1>2. PICK n : Avance(p, n)
    BY <1>1, LlevaLoHecho, AvanzaConTrabajo
  <1>3. auditoria' \subseteq [clave : Claves, ejecucion : Ids, contexto : Contextos]
    BY <1>1, LlevaLoHecho DEF Auditar, ClavesCoherentes, TypeOK
  <1>4. \A a \in auditoria' :
           a \in auditoria \/ claves[a.clave].respuesta = a.ejecucion
    BY <1>1, LlevaLoHecho DEF Auditar
  <1>5. QED
    BY <1>1, <1>2, <1>3, <1>4, AvanceCompleto DEF ClavesCoherentes, TypeOK

LEMMA PasoContestar ==
    ASSUME ClavesCoherentes, NEW p \in Solicitudes, Contestar(p)
    PROVE  ClavesCoherentes'
  <1>1. sol[p].pc = "contestar" /\ UNCHANGED <<claves, ejecuciones, rotas, auditoria>>
    BY DEF Contestar
  <1>2. Avance(p, Libre)
    BY FinAvanza DEF Contestar
  <1>3. respuestas' \subseteq
           [clave : Claves, cuerpo : Cuerpos, contexto : Contextos, ejecucion : Ids]
    BY <1>1, LlevaLoHecho DEF Contestar, ClavesCoherentes, TypeOK
  <1>4. \A r \in respuestas' :
           r \in respuestas \/ claves[r.clave].respuesta = r.ejecucion
    BY <1>1, LlevaLoHecho DEF Contestar
  <1>5. QED
    BY <1>1, <1>2, <1>3, <1>4, AvanceCompleto DEF ClavesCoherentes, TypeOK

-------------------------------------------------------------------------------
\* Every step of the service preserves the invariant.
LEMMA Paso ==
    ASSUME ClavesCoherentes, [Next]_vars
    PROVE  ClavesCoherentes'
  <1>1. CASE UNCHANGED vars
    BY <1>1 DEF vars, ClavesCoherentes, TypeOK, UnDuenno, TrabajoConocido,
                LoDichoQueda, HechaPara, Reservada
  <1>2. ASSUME NEW p \in Solicitudes,
               \/ Reservar(p) \/ Chocar(p) \/ Repetir(p) \/ Rechazar(p)
               \/ Operar(p) \/ Fallar(p) \/ FallarTarde(p) \/ Liberar(p)
               \/ Guardar(p) \/ Auditar(p) \/ Contestar(p) \/ Morir(p)
        PROVE  ClavesCoherentes'
    BY <1>2, PasoReservar, PasoChocar, PasoRepetir, PasoFinal, PasoOperar,
       PasoFallar, PasoFallarTarde, PasoLiberar, PasoGuardar, PasoAuditar, PasoContestar
  <1>3. QED
    BY <1>1, <1>2 DEF Next

\* At no moment is a key worked again unless its work raised after its commit,
\* nor is its stored answer about other data or about work that raised, with any
\* number of requests, retries, errors and crashes in ejecutar_con_idempotencia.
THEOREM UnaVezPorClave == Spec => []ClavesCoherentes
  <1>1. Init => ClavesCoherentes
    BY Inicial
  <1>2. ClavesCoherentes /\ [Next]_vars => ClavesCoherentes'
    BY Paso
  <1>3. QED
    BY <1>1, <1>2, PTL DEF Spec

-------------------------------------------------------------------------------
\* What the audit needs besides: an event is there before the answer goes out.
Auditada(k, e) == \E a \in auditoria : a.clave = k /\ a.ejecucion = e

IInvAuditoria ==
    /\ ClavesCoherentes
    /\ AuditoriaFiel
    /\ \A p \in Solicitudes :
          sol[p].pc = "contestar" => Auditada(sol[p].clave, sol[p].ejecucion)

\* An event about a key is about the work its row repeats, and so is the work a
\* request carries to its audit.
LEMMA EventoDelTrabajo ==
    ASSUME ClavesCoherentes, NEW a \in auditoria,
           NEW p \in Solicitudes, sol[p].pc = "auditar", a.clave = sol[p].clave
    PROVE  a.ejecucion = sol[p].ejecucion
  BY DEF ClavesCoherentes, TrabajoConocido, LoDichoQueda

\* Steps that leave the audit as it is and send nobody to answer.
LEMMA SinAuditoria ==
    ASSUME IInvAuditoria, [Next]_vars, ~\E p \in Solicitudes : Auditar(p)
    PROVE  AuditoriaFiel'
  <1>1. auditoria' = auditoria
    BY DEF Next, vars, Reservar, Chocar, Llega, Repetir, Rechazar, Operar, Fallar,
           FallarTarde, Liberar, Guardar, Contestar, Morir
  <1>2. \A x \in ejecuciones : x \in ejecuciones'
    BY DEF Next, vars, Reservar, Chocar, Llega, Repetir, Rechazar, Operar, Fallar,
           FallarTarde, Liberar, Guardar, Contestar, Morir
  <1>3. \A r \in respuestas' :
           \/ r \in respuestas
           \/ \E p \in Solicitudes :
                 /\ sol[p].pc = "contestar"
                 /\ r.clave = sol[p].clave /\ r.ejecucion = sol[p].ejecucion
    <2>1. ASSUME NEW p \in Solicitudes, Contestar(p), NEW r \in respuestas', r \notin respuestas
          PROVE  /\ sol[p].pc = "contestar"
                 /\ r.clave = sol[p].clave /\ r.ejecucion = sol[p].ejecucion
      BY <2>1 DEF Contestar
    <2>2. CASE ~\E p \in Solicitudes : Contestar(p)
      <3>1. respuestas' = respuestas
        BY <2>2 DEF Next, vars, Reservar, Chocar, Llega, Repetir, Rechazar, Operar,
                    Fallar, FallarTarde, Liberar, Guardar, Morir
      <3>2. QED
        BY <3>1
    <2>3. CASE \E p \in Solicitudes : Contestar(p)
      <3>1. PICK p \in Solicitudes : Contestar(p)
        BY <2>3
      <3>2. QED
        BY <2>1, <3>1
    <2>4. QED
      BY <2>2, <2>3
  <1>4. \A r \in respuestas' :
           \E a \in auditoria : a.clave = r.clave /\ a.ejecucion = r.ejecucion
    BY <1>3 DEF IInvAuditoria, AuditoriaFiel, Auditada
  <1>5. QED
    BY <1>1, <1>2, <1>4 DEF IInvAuditoria, AuditoriaFiel

\* Nobody else arrives at the answer, and who is there carries what it carried.
LEMMA SiguenContestando ==
    ASSUME TypeOK, [Next]_vars, ~\E p \in Solicitudes : Auditar(p),
           NEW q \in Solicitudes, sol'[q].pc = "contestar"
    PROVE  sol[q] = sol'[q]
  <1>1. CASE UNCHANGED vars
    BY <1>1 DEF vars
  <1>2. ASSUME NEW p \in Solicitudes, NEW n, sol' = [sol EXCEPT ![p] = n],
               n.pc # "contestar"
        PROVE  sol[q] = sol'[q]
    BY <1>2 DEF TypeOK
  <1>3. ASSUME NEW p \in Solicitudes, Reservar(p) \/ Chocar(p)
        PROVE  sol[q] = sol'[q]
    <2>1. PICK k \in Claves, b \in Cuerpos, c \in Contextos, pc \in {"operar", "leer"} :
            Llega(p, k, b, c, pc)
      BY <1>3 DEF Reservar, Chocar
    <2>2. QED
      BY <2>1, <1>2 DEF Llega
  <1>4. ASSUME NEW p \in Solicitudes,
               Rechazar(p) \/ Liberar(p) \/ Contestar(p) \/ Morir(p)
        PROVE  sol[q] = sol'[q]
    <2>1. Termina(p)
      BY <1>4 DEF Rechazar, Liberar, Contestar, Morir
    <2>2. QED
      BY <2>1, <1>2 DEF Termina, Libre
  <1>5. ASSUME NEW p \in Solicitudes,
               Repetir(p) \/ Operar(p) \/ Fallar(p) \/ FallarTarde(p) \/ Guardar(p)
        PROVE  sol[q] = sol'[q]
    <2>1. PICK pc \in {"auditar", "guardar", "liberar"} : \E e : En(p, pc, e)
      BY <1>5 DEF Repetir, Operar, Fallar, FallarTarde, Guardar
    <2>2. QED
      BY <2>1, <1>2 DEF En
  <1>6. QED
    BY <1>1, <1>3, <1>4, <1>5 DEF Next

\* The step that audits: an event that is there already is about this work.
LEMMA PasoAuditoria ==
    ASSUME IInvAuditoria, NEW p \in Solicitudes, Auditar(p)
    PROVE  /\ AuditoriaFiel'
           /\ \E a \in auditoria' :
                 a.clave = sol[p].clave /\ a.ejecucion = sol[p].ejecucion
           /\ \A a \in auditoria : a \in auditoria'
  <1> DEFINE k == sol[p].clave
             v == [clave |-> k, ejecucion |-> sol[p].ejecucion,
                   contexto |-> sol[p].contexto]
  <1>1. /\ sol[p].pc = "auditar" /\ UNCHANGED <<ejecuciones, rotas, respuestas>>
        /\ auditoria' = IF SinAuditar(k) THEN auditoria \cup {v} ELSE auditoria
    BY DEF Auditar
  <1>2. PICK x \in ejecuciones : x.id = sol[p].ejecucion /\ x.clave = k
    BY <1>1, LlevaLoHecho DEF IInvAuditoria, HechaPara
  <1>3. v.clave = k /\ v.ejecucion = sol[p].ejecucion
    OBVIOUS
  <1> HIDE DEF v
  <1>4. CASE SinAuditar(k)
    BY <1>1, <1>2, <1>3, <1>4 DEF SinAuditar, IInvAuditoria, AuditoriaFiel
  <1>5. CASE ~SinAuditar(k)
    <2>1. PICK a \in auditoria : a.clave = k
      BY <1>5 DEF SinAuditar
    <2>2. a.ejecucion = sol[p].ejecucion
      BY <1>1, <2>1, EventoDelTrabajo DEF IInvAuditoria
    <2>3. QED
      BY <1>1, <1>5, <2>1, <2>2 DEF IInvAuditoria, AuditoriaFiel
  <1>6. QED
    BY <1>4, <1>5

\* A key leaves one audit event, about what was really done, and no success goes
\* out before it (AuditService.registrar after every replay as well).
THEOREM AuditoriaSiempreFiel == Spec => []AuditoriaFiel
  <1>1. Init => IInvAuditoria
    BY Inicial DEF Init, IInvAuditoria, AuditoriaFiel, Libre
  <1>2. IInvAuditoria /\ [Next]_vars => IInvAuditoria'
    <2> SUFFICES ASSUME IInvAuditoria, [Next]_vars
                 PROVE  IInvAuditoria'
      OBVIOUS
    <2>1. ClavesCoherentes'
      BY Paso DEF IInvAuditoria
    <2>2. CASE \E p \in Solicitudes : Auditar(p)
      <3>1. PICK p \in Solicitudes : Auditar(p)
        BY <2>2
      <3>2. /\ sol' = [sol EXCEPT ![p] = sol'[p]]
            /\ sol'[p].clave = sol[p].clave /\ sol'[p].ejecucion = sol[p].ejecucion
        BY <3>1 DEF Auditar, En, IInvAuditoria, ClavesCoherentes, TypeOK
      <3>3. \A q \in Solicitudes : sol'[q].pc = "contestar"
               => \E a \in auditoria' :
                     a.clave = sol'[q].clave /\ a.ejecucion = sol'[q].ejecucion
        <4> SUFFICES ASSUME NEW q \in Solicitudes, sol'[q].pc = "contestar"
                     PROVE  \E a \in auditoria' : /\ a.clave = sol'[q].clave
                                                  /\ a.ejecucion = sol'[q].ejecucion
          OBVIOUS
        <4>1. CASE q = p
          BY <4>1, <3>1, <3>2, PasoAuditoria
        <4>2. CASE q # p
          <5>1. sol'[q] = sol[q]
            BY <4>2, <3>2 DEF IInvAuditoria, ClavesCoherentes, TypeOK
          <5>2. QED
            BY <5>1, <3>1, PasoAuditoria DEF IInvAuditoria, Auditada
        <4>3. QED
          BY <4>1, <4>2
      <3>4. QED
        BY <2>1, <3>1, <3>3, PasoAuditoria DEF IInvAuditoria, Auditada
    <2>3. CASE ~\E p \in Solicitudes : Auditar(p)
      <3>1. auditoria' = auditoria
        BY <2>3 DEF Next, vars, Reservar, Chocar, Llega, Repetir, Rechazar, Operar,
                    Fallar, FallarTarde, Liberar, Guardar, Contestar, Morir
      <3>2. \A q \in Solicitudes : sol'[q].pc = "contestar"
               => \E a \in auditoria' :
                     a.clave = sol'[q].clave /\ a.ejecucion = sol'[q].ejecucion
        BY <2>3, <3>1, SiguenContestando DEF IInvAuditoria, ClavesCoherentes, Auditada
      <3>3. QED
        BY <2>1, <2>3, <3>2, SinAuditoria DEF IInvAuditoria, Auditada
    <2>4. QED
      BY <2>2, <2>3
  <1>3. IInvAuditoria => AuditoriaFiel
    BY DEF IInvAuditoria
  <1>4. QED
    BY <1>1, <1>2, <1>3, PTL DEF Spec

-------------------------------------------------------------------------------
\* Work whose answer is not stored yet was told to nobody.
LEMMA TrabajoEnMano ==
    ASSUME ClavesCoherentes, NEW p \in Solicitudes, sol[p].pc = "guardar",
           NEW r \in respuestas
    PROVE  r.ejecucion # sol[p].ejecucion
  <1> SUFFICES ASSUME r.ejecucion = sol[p].ejecucion
               PROVE  FALSE
    OBVIOUS
  <1>1. r.clave \in Claves /\ claves[r.clave].respuesta = r.ejecucion
    BY DEF ClavesCoherentes, TypeOK, LoDichoQueda
  <1>2. claves[r.clave].respuesta # 0
    BY DichoContestado
  <1>3. HechaPara(r.ejecucion, r.clave, claves[r.clave].hash)
    BY <1>1, <1>2 DEF ClavesCoherentes, TrabajoConocido
  <1>4. HechaPara(r.ejecucion, sol[p].clave, sol[p].cuerpo)
    BY DEF ClavesCoherentes, TrabajoConocido
  <1>5. r.clave = sol[p].clave
    BY <1>3, <1>4 DEF ClavesCoherentes, TrabajoConocido, HechaPara
  <1>6. QED
    BY <1>2, <1>5, SoloElDuenno DEF EnCurso

\* The two-phase protocol keeps the promise of PromesaUnica: work is done for a
\* key that had none or whose work raised, work raises only before anybody is told
\* of it, and an answer tells what was done for its key and data and stands.
THEOREM CumpleLaPromesa == Spec => ImplementaPromesa
  <1>1. Init => Promesa!PromesaInit
    BY DEF Init, Promesa!PromesaInit
  <1>2. ASSUME ClavesCoherentes, [Next]_vars
        PROVE  [Promesa!PromesaNext]_(Promesa!promesaVars)
    <2>1. ASSUME NEW p \in Solicitudes, Operar(p)
          PROVE  Promesa!PromesaNext
      <3>1. PICK e \in Promesa!Trabajos :
              /\ ejecuciones' = ejecuciones \cup {e}
              /\ e.id \notin rotas
              /\ \A x \in ejecuciones :
                    x.id # e.id /\ (x.clave = e.clave => x.id \in rotas)
        BY <1>2, <2>1, TrabajoNuevo DEF Promesa!Trabajos
      <3>2. UNCHANGED <<rotas, respuestas>>
        BY <2>1 DEF Operar
      <3>3. QED
        BY <3>1, <3>2 DEF Promesa!PromesaNext, Promesa!Hacer
    <2>2. ASSUME NEW p \in Solicitudes, Contestar(p)
          PROVE  Promesa!PromesaNext
      <3> DEFINE r == [clave |-> sol[p].clave, cuerpo |-> sol[p].cuerpo,
                       contexto |-> sol[p].contexto, ejecucion |-> sol[p].ejecucion]
      <3>1. /\ sol[p].pc = "contestar" /\ UNCHANGED <<ejecuciones, rotas>>
            /\ respuestas' = respuestas \cup {r}
        BY <2>2 DEF Contestar
      <3>2. r \in Promesa!Contestaciones
        BY <3>1, <1>2, LlevaLoHecho DEF Promesa!Contestaciones
      <3>3. /\ r.ejecucion \notin rotas
            /\ \E h \in ejecuciones :
                  h.id = r.ejecucion /\ h.clave = r.clave /\ h.cuerpo = r.cuerpo
        BY <3>1, <1>2, LlevaLoHecho DEF HechaPara
      <3>4. Promesa!Responder(r)
        BY <3>1, <3>3 DEF Promesa!Responder
      <3>5. QED
        BY <3>2, <3>4 DEF Promesa!PromesaNext
    <2>3. ASSUME NEW p \in Solicitudes,
                 \/ Reservar(p) \/ Chocar(p) \/ Repetir(p) \/ Rechazar(p)
                 \/ Fallar(p) \/ Liberar(p) \/ Guardar(p) \/ Auditar(p) \/ Morir(p)
          PROVE  UNCHANGED <<ejecuciones, rotas, respuestas>>
      BY <2>3 DEF Reservar, Chocar, Llega, Repetir, Rechazar, Fallar, Liberar,
                  Guardar, Auditar, Morir
    <2>4. ASSUME NEW p \in Solicitudes, FallarTarde(p)
          PROVE  Promesa!PromesaNext
      <3>1. PICK h \in ejecuciones : h.id = sol[p].ejecucion /\ h.clave = sol[p].clave
        BY <1>2, <2>4 DEF FallarTarde, ClavesCoherentes, TrabajoConocido, HechaPara
      <3>2. \A r \in respuestas : r.ejecucion # h.id
        BY <1>2, <2>4, <3>1, TrabajoEnMano DEF FallarTarde
      <3>3. /\ rotas' = rotas \cup {h.id}
            /\ UNCHANGED <<ejecuciones, respuestas>>
        BY <2>4, <3>1 DEF FallarTarde
      <3>4. Promesa!Romper(h)
        BY <3>2, <3>3 DEF Promesa!Romper
      <3>5. QED
        BY <3>4 DEF Promesa!PromesaNext
    <2>5. CASE UNCHANGED vars
      BY <2>5 DEF vars, Promesa!promesaVars
    <2>6. QED
      BY <1>2, <2>1, <2>2, <2>3, <2>4, <2>5 DEF Next, Promesa!promesaVars
  <1>3. QED
    BY <1>1, <1>2, UnaVezPorClave, PTL DEF Spec, ImplementaPromesa, Promesa!PromesaSpec

-------------------------------------------------------------------------------
\* Request p owns key k.
Duenno(p, k) == sol[p].pc \in EnCurso /\ sol[p].clave = k

\* A step of p that leaves the row of k, and whether p owns k, as they were.
LEMMA Aparte ==
    ASSUME TypeOK, NEW k \in Claves, NEW p \in Solicitudes, NEW s,
           sol' = [sol EXCEPT ![p] = s], claves'[k] = claves[k],
           (s.pc \in EnCurso /\ s.clave = k) <=> Duenno(p, k)
    PROVE  Abandonada(k)' <=> Abandonada(k)
  <1>1. \A q \in Solicitudes : sol'[q] = IF q = p THEN s ELSE sol[q]
    BY DEF TypeOK
  <1>2. \A q \in Solicitudes :
           (sol'[q].pc \in EnCurso /\ sol'[q].clave = k)
           <=> (sol[q].pc \in EnCurso /\ sol[q].clave = k)
    BY <1>1 DEF Duenno
  <1>3. QED
    BY <1>2 DEF Abandonada, Reservada

LEMMA ReservarAbandona ==
    ASSUME TypeOK, NEW k \in Claves, NEW p \in Solicitudes, Reservar(p)
    PROVE  (Abandonada(k) => Abandonada(k)') /\ (Abandonada(k)' => Abandonada(k))
  <1>1. PICK c \in Claves, b \in Cuerpos, x \in Contextos :
          /\ ~Reservada(c) /\ sol[p].pc = "libre"
          /\ sol' = [sol EXCEPT ![p] = [pc |-> "operar", clave |-> c, cuerpo |-> b,
                                        contexto |-> x, ejecucion |-> 0]]
          /\ claves' = [claves EXCEPT ![c] = [hash |-> b, respuesta |-> 0]]
    BY DEF Reservar, Llega, Disponible
  <1>2. CASE c = k
    <2>1. ~Abandonada(k)
      BY <1>1, <1>2 DEF Abandonada
    <2>2. sol'[p].pc \in EnCurso /\ sol'[p].clave = k
      BY <1>1, <1>2 DEF TypeOK, EnCurso
    <2>3. ~Abandonada(k)'
      BY <2>2 DEF Abandonada
    <2>4. QED
      BY <2>1, <2>3
  <1>3. CASE c # k
    <2>1. claves'[k] = claves[k]
      BY <1>1, <1>3 DEF TypeOK
    <2>2. ~Duenno(p, k)
      BY <1>1 DEF Duenno, EnCurso
    <2>3. Abandonada(k)' <=> Abandonada(k)
      BY <1>1, <1>3, <2>1, <2>2, Aparte
    <2>4. QED
      BY <2>3
  <1>4. QED
    BY <1>2, <1>3

\* The steps that neither touch the row nor change who owns it.
LEMMA AvanceAbandona ==
    ASSUME TypeOK, NEW k \in Claves, NEW p \in Solicitudes,
           \/ Chocar(p) \/ Repetir(p) \/ Rechazar(p) \/ Operar(p) \/ Fallar(p)
           \/ FallarTarde(p) \/ Auditar(p) \/ Contestar(p)
    PROVE  Abandonada(k)' <=> Abandonada(k)
  <1>1. claves'[k] = claves[k]
    BY DEF Chocar, Repetir, Rechazar, Operar, Fallar, FallarTarde, Auditar, Contestar
  <1>2. CASE Chocar(p)
    <2>1. PICK c, b, x : /\ sol[p].pc = "libre"
                         /\ sol' = [sol EXCEPT ![p] = [pc |-> "leer", clave |-> c,
                                        cuerpo |-> b, contexto |-> x, ejecucion |-> 0]]
      BY <1>2 DEF Chocar, Llega
    <2>2. QED
      BY <1>1, <2>1, Aparte DEF Duenno, EnCurso
  <1>3. CASE Rechazar(p) \/ Contestar(p)
    <2>1. sol' = [sol EXCEPT ![p] = Libre] /\ sol[p].pc \in {"leer", "contestar"}
      BY <1>3 DEF Rechazar, Contestar, Termina
    <2>2. QED
      BY <1>1, <2>1, Aparte DEF Duenno, EnCurso, Libre
  <1>4. CASE Repetir(p) \/ Operar(p) \/ Fallar(p) \/ FallarTarde(p) \/ Auditar(p)
    <2>1. \E pc, e :
             /\ En(p, pc, e)
             /\ pc \in EnCurso <=> sol[p].pc \in EnCurso
      BY <1>4 DEF Repetir, Operar, Fallar, FallarTarde, Auditar, EnCurso
    <2>2. PICK pc, e : En(p, pc, e) /\ (pc \in EnCurso <=> sol[p].pc \in EnCurso)
      BY <2>1
    <2>3. QED
      BY <1>1, <2>2, Aparte DEF En, Duenno
  <1>5. QED
    BY <1>2, <1>3, <1>4

\* The owner that frees its key or stores its answer does not leave it.
LEMMA CierreAbandona ==
    ASSUME ClavesCoherentes, NEW k \in Claves, NEW p \in Solicitudes,
           Liberar(p) \/ Guardar(p)
    PROVE  Abandonada(k)' <=> Abandonada(k)
  <1> DEFINE c == sol[p].clave
  <1>1. TypeOK /\ sol[p].pc \in EnCurso /\ c \in Claves
    BY DEF ClavesCoherentes, TypeOK, Liberar, Guardar, EnCurso
  <1>2. CASE c = k
    <2>1. ~Abandonada(k)
      BY <1>1, <1>2 DEF Abandonada
    <2>2. CASE Liberar(p)
      <3>1. claves'[k] = SinFila
        BY <1>1, <1>2, <2>2 DEF Liberar, TypeOK
      <3>2. ~Abandonada(k)'
        BY <3>1 DEF Abandonada, Reservada
      <3>3. QED
        BY <2>1, <3>2
    <2>3. CASE Guardar(p)
      <3>1. Reservada(k)
        BY <1>1, <1>2, FilaDelDuenno DEF Reservada
      <3>2. sol[p].ejecucion # 0
        <4>1. HechaPara(sol[p].ejecucion, sol[p].clave, sol[p].cuerpo)
          BY <2>3 DEF ClavesCoherentes, TrabajoConocido, Guardar
        <4>2. QED
          BY <1>1, <4>1, HechaTiene
      <3>3. claves'[k].respuesta = sol[p].ejecucion
        BY <1>1, <1>2, <2>3, <3>1 DEF Guardar, TypeOK, Fila
      <3>4. ~Abandonada(k)'
        BY <3>2, <3>3 DEF Abandonada
      <3>5. QED
        BY <2>1, <3>4
    <2>4. QED
      BY <2>2, <2>3
  <1>3. CASE c # k
    <2>1. claves'[k] = claves[k]
      BY <1>1, <1>3 DEF Liberar, Guardar, TypeOK
    <2>2. ~Duenno(p, k)
      BY <1>3 DEF Duenno
    <2>3. CASE Liberar(p)
      BY <1>1, <2>1, <2>2, <2>3, Aparte DEF Liberar, Termina, Libre, EnCurso
    <2>4. CASE Guardar(p)
      BY <1>1, <1>3, <2>1, <2>2, <2>4, Aparte DEF Guardar, En
    <2>5. QED
      BY <2>3, <2>4
  <1>4. QED
    BY <1>2, <1>3

LEMMA MorirAbandona ==
    ASSUME TypeOK, NEW k \in Claves, NEW p \in Solicitudes, Morir(p)
    PROVE  /\ Abandonada(k) => Abandonada(k)'
           /\ (~Abandonada(k) /\ Abandonada(k)')
              => Duenno(p, k) /\ sol'[p] = Libre /\ claves'[k] = claves[k]
  <1>1. sol' = [sol EXCEPT ![p] = Libre] /\ claves' = claves
    BY DEF Morir, Termina
  <1>2. CASE Duenno(p, k)
    BY <1>1, <1>2 DEF Abandonada, Duenno, TypeOK
  <1>3. CASE ~Duenno(p, k)
    <2>1. Abandonada(k)' <=> Abandonada(k)
      BY <1>1, <1>3, Aparte DEF Libre, EnCurso
    <2>2. QED
      BY <2>1
  <1>4. QED
    BY <1>2, <1>3

\* A key stays in course without an owner only after the death of its owner, and
\* is never worked again, for any number of keys, requests and retries.
THEOREM SoloLaMuerteAbandona == Spec => AbandonoPorMuerte
  <1>1. ASSUME ClavesCoherentes, [Next]_vars, NEW k \in Claves
        PROVE  /\ Abandonada(k) =>
                     /\ Abandonada(k)'
                     /\ \A e \in ejecuciones' \ ejecuciones : e.clave # k
               /\ (~Abandonada(k) /\ Abandonada(k)') =>
                     \E p \in Solicitudes :
                        /\ sol[p].pc \in EnCurso /\ sol[p].clave = k
                        /\ sol'[p] = Libre /\ claves'[k] = claves[k]
    <2>1. TypeOK
      BY <1>1 DEF ClavesCoherentes
    <2>2. CASE UNCHANGED vars
      BY <2>2 DEF vars, Abandonada, Reservada
    <2>3. ASSUME NEW p \in Solicitudes, Operar(p), Abandonada(k)
          PROVE  \A e \in ejecuciones' \ ejecuciones : e.clave # k
      <3>1. sol[p].clave # k
        BY <2>3 DEF Operar, Abandonada, EnCurso
      <3>2. QED
        BY <2>3, <3>1 DEF Operar
    <2>4. ASSUME NEW p \in Solicitudes, Operar(p)
          PROVE  Abandonada(k)' <=> Abandonada(k)
      BY <2>1, <2>4, AvanceAbandona
    <2>5. ASSUME NEW p \in Solicitudes,
                 \/ Reservar(p) \/ Chocar(p) \/ Repetir(p) \/ Rechazar(p) \/ Fallar(p)
                 \/ FallarTarde(p) \/ Auditar(p) \/ Contestar(p) \/ Liberar(p)
                 \/ Guardar(p)
          PROVE  (Abandonada(k)' <=> Abandonada(k)) /\ ejecuciones' = ejecuciones
      <3>1. ejecuciones' = ejecuciones
        BY <2>5 DEF Reservar, Chocar, Llega, Repetir, Rechazar, Fallar, FallarTarde,
                    Auditar, Contestar, Liberar, Guardar
      <3>2. QED
        BY <1>1, <2>1, <2>5, <3>1, ReservarAbandona, AvanceAbandona, CierreAbandona
    <2>6. ASSUME NEW p \in Solicitudes, Morir(p)
          PROVE  /\ ejecuciones' = ejecuciones
                 /\ Abandonada(k) => Abandonada(k)'
                 /\ (~Abandonada(k) /\ Abandonada(k)')
                    => Duenno(p, k) /\ sol'[p] = Libre /\ claves'[k] = claves[k]
      BY <2>1, <2>6, MorirAbandona DEF Morir
    <2>7. CASE \E p \in Solicitudes : Morir(p)
      BY <2>6, <2>7 DEF Duenno
    <2>8. CASE \E p \in Solicitudes : Operar(p)
      BY <2>3, <2>4, <2>8
    <2>9. CASE ~(\E p \in Solicitudes : Morir(p) \/ Operar(p)) /\ Next
      BY <2>5, <2>9 DEF Next
    <2>10. QED
      BY <1>1, <2>2, <2>7, <2>8, <2>9
  <1>2. ClavesCoherentes /\ [Next]_vars
        => [\A k \in Claves :
              /\ Abandonada(k) =>
                    /\ Abandonada(k)'
                    /\ \A e \in ejecuciones' \ ejecuciones : e.clave # k
              /\ (~Abandonada(k) /\ Abandonada(k)') =>
                    \E p \in Solicitudes :
                       /\ sol[p].pc \in EnCurso /\ sol[p].clave = k
                       /\ sol'[p] = Libre /\ claves'[k] = claves[k]]_vars
    BY <1>1
  <1>3. QED
    BY <1>2, UnaVezPorClave, PTL DEF AbandonoPorMuerte, Spec
===============================================================================

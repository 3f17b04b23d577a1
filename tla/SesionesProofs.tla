---------------------------- MODULE SesionesProofs -----------------------------
(***************************************************************************)
(* Theorems of Sesiones, for any sets of users and requests, any limit of  *)
(* sessions and any duration.  The argument: rows of auth_sessions are     *)
(* added only under the row lock of their user, and elsewhere are only     *)
(* revoked.  So what a transaction selected under that lock still covers   *)
(* what it must revoke when it commits, and a login that revokes those     *)
(* over the limit leaves, with its own, no more than the limit.            *)
(***************************************************************************)
EXTENDS Sesiones, FiniteSetTheorems, TLAPS

\* A request works on a user, and with an instant that is not in the future.
Solicitante ==
    \A p \in Solicitudes :
        /\ sol[p].op # "libre" => sol[p].usuario \in Usuarios
        /\ sol[p].emitida <= reloj

\* A login past its count has selected every session that is still over the limit.
SobrantesElegidas ==
    \A p \in Solicitudes, u \in Usuarios, e \in Nat :
        /\ sol[p].op = "login" /\ sol[p].paso = "escrito"
        /\ sol[p].usuario = u /\ sol[p].emitida = e
        => Sobrantes(u, e) \subseteq elegidas[p]

Candados == TypeOK /\ Solicitante /\ CandadoCoherente

Invariante == Candados /\ SobrantesElegidas /\ LimitePorUsuario

-------------------------------------------------------------------------------
\* The order in which the sessions over the limit are chosen.

\* Those that come before s when newer ones, and of two alike the last row, go first.
Antes(A, e, s) == {t \in A : e[t] > e[s] \/ (e[t] = e[s] /\ t > s)}

\* Who comes before another has fewer before it.
LEMMA MenosDelante ==
    ASSUME NEW A \in SUBSET Int, IsFiniteSet(A), NEW e \in [A -> Int],
           NEW s \in A, NEW t \in Antes(A, e, s)
    PROVE  Cardinality(Antes(A, e, t)) < Cardinality(Antes(A, e, s))
  <1>1. t \in A /\ (e[t] > e[s] \/ (e[t] = e[s] /\ t > s))
    BY DEF Antes
  <1>2. e[s] \in Int /\ e[t] \in Int /\ s \in Int /\ t \in Int
    BY <1>1
  <1>3. ASSUME NEW x \in Antes(A, e, t) PROVE x \in Antes(A, e, s)
    <2>1. x \in A /\ (e[x] > e[t] \/ (e[x] = e[t] /\ x > t)) /\ e[x] \in Int /\ x \in Int
      BY DEF Antes
    <2>2. e[x] > e[s] \/ (e[x] = e[s] /\ x > s)
      BY <1>1, <1>2, <2>1
    <2>3. QED
      BY <2>1, <2>2 DEF Antes
  <1>4. t \notin Antes(A, e, t)
    BY <1>2 DEF Antes
  <1>5. /\ IsFiniteSet(Antes(A, e, s)) /\ IsFiniteSet(Antes(A, e, t))
    <2>1. Antes(A, e, s) \in SUBSET A /\ Antes(A, e, t) \in SUBSET A
      BY DEF Antes
    <2>2. QED
      BY <2>1, FS_Subset
  <1>6. Antes(A, e, t) \in SUBSET Antes(A, e, s) /\ Antes(A, e, t) # Antes(A, e, s)
    BY <1>3, <1>4
  <1>7. /\ Cardinality(Antes(A, e, t)) <= Cardinality(Antes(A, e, s))
        /\ Cardinality(Antes(A, e, t)) # Cardinality(Antes(A, e, s))
    BY <1>5, <1>6, FS_Subset
  <1>8. Cardinality(Antes(A, e, t)) \in Nat /\ Cardinality(Antes(A, e, s)) \in Nat
    BY <1>5, FS_CardinalityType
  <1>9. QED
    BY <1>7, <1>8

\* The cut activas[MAX:] keeps no more than MAX.
LEMMA CorteGuardaPocas ==
    ASSUME NEW A \in SUBSET Int, IsFiniteSet(A), NEW e \in [A -> Int], NEW k \in Nat
    PROVE  LET K == {s \in A : Cardinality(Antes(A, e, s)) < k}
           IN  IsFiniteSet(K) /\ Cardinality(K) <= k
  <1> DEFINE K == {s \in A : Cardinality(Antes(A, e, s)) < k}
             f == [s \in K |-> Cardinality(Antes(A, e, s))]
  <1>1. ASSUME NEW s \in A PROVE Cardinality(Antes(A, e, s)) \in Nat
    <2>1. Antes(A, e, s) \in SUBSET A
      BY DEF Antes
    <2>2. QED
      BY <2>1, FS_Subset, FS_CardinalityType
  <1>2. f \in [K -> 0..(k - 1)]
    <2>1. ASSUME NEW s \in K PROVE Cardinality(Antes(A, e, s)) \in 0..(k - 1)
      <3>1. s \in A /\ Cardinality(Antes(A, e, s)) < k
        OBVIOUS
      <3>2. QED
        BY <3>1, <1>1
    <2>2. QED
      BY <2>1, Zenon
  <1>3. ASSUME NEW s \in K, NEW t \in K, s # t PROVE f[s] # f[t]
    <2>1. s \in A /\ t \in A /\ e[s] \in Int /\ e[t] \in Int /\ s \in Int /\ t \in Int
      OBVIOUS
    <2>2. t \in Antes(A, e, s) \/ s \in Antes(A, e, t)
      BY <1>3, <2>1 DEF Antes
    <2>3. CASE t \in Antes(A, e, s)
      BY <2>3, <2>1, <1>1, MenosDelante
    <2>4. CASE s \in Antes(A, e, t)
      BY <2>4, <2>1, <1>1, MenosDelante
    <2>5. QED
      BY <2>2, <2>3, <2>4
  <1>4. f \in Injection(K, 0..(k - 1))
    BY <1>2, <1>3 DEF Injection, IsInjective
  <1>5. IsFiniteSet(0..(k - 1)) /\ Cardinality(0..(k - 1)) = k
    BY FS_Interval
  <1>6. QED
    BY <1>4, <1>5, FS_Injection

-------------------------------------------------------------------------------
\* What a step may do to the sessions of a user.

\* The sessions of u stay the same rows, and what is revoked stays revoked.
Fija(u) ==
    \A s \in Ids :
        /\ sesiones'[s].usuario = u <=> sesiones[s].usuario = u
        /\ sesiones[s].usuario = u =>
              /\ sesiones'[s].emitida = sesiones[s].emitida
              /\ sesiones[s].revocada => sesiones'[s].revocada

LEMMA IdsFinitos ==
    IsFiniteSet(Ids) /\ Ids \in SUBSET Nat /\ Nueva \in Nat /\ Nueva \notin Ids
  BY FS_Interval, ConstantesDeSesiones DEF Ids, Nueva

\* Activas is finite, and the cut counts in the order of Antes.
Activas(u, ahora) == {s \in De(u) : Vigente(s, ahora)} \cup {Nueva}

LEMMA ActivasFinitas ==
    ASSUME NEW u, NEW ahora
    PROVE  IsFiniteSet(Activas(u, ahora)) /\ Activas(u, ahora) \in SUBSET (Ids \cup {Nueva})
  <1>1. {s \in De(u) : Vigente(s, ahora)} \in SUBSET Ids
    BY DEF De
  <1>2. IsFiniteSet({s \in De(u) : Vigente(s, ahora)})
    BY <1>1, IdsFinitos, FS_Subset
  <1>3. QED
    BY <1>1, <1>2, FS_AddElement DEF Activas

\* While the sessions of u are only revoked, none becomes one too many.
LEMMA SobrantesDecrece ==
    ASSUME TypeOK, NEW u \in Usuarios, NEW ahora \in Nat, Fija(u)
    PROVE  Sobrantes(u, ahora)' \subseteq Sobrantes(u, ahora)
  <1> DEFINE A == Activas(u, ahora)
             B == Activas(u, ahora)'
             delante(s) == {t \in A : MasReciente(t, s, ahora)}
             detras(s) == {t \in B : MasReciente(t, s, ahora)'}
  <1>0. u # Nadie /\ \A s \in Ids : s # Nueva
    BY ConstantesDeSesiones, IdsFinitos
  <1>1. ASSUME NEW s \in B PROVE s \in A /\ Emitida(s, ahora)' = Emitida(s, ahora)
    <2>1. CASE s = Nueva
      BY <2>1 DEF Activas, Emitida, Nueva
    <2>2. CASE s # Nueva
      <3>1. s \in De(u)' /\ Vigente(s, ahora)'
        BY <2>2, <1>1 DEF Activas, Nueva
      <3>2. s \in Ids /\ sesiones'[s].usuario = u
        BY <3>1 DEF De, Ids
      <3>3. /\ sesiones[s].usuario = u /\ sesiones'[s].emitida = sesiones[s].emitida
            /\ sesiones[s].revocada => sesiones'[s].revocada
        BY <3>2 DEF Fija
      <3>4. Vigente(s, ahora)
        BY <1>0, <3>1, <3>3 DEF Vigente, Expira
      <3>5. QED
        BY <2>2, <3>2, <3>3, <3>4 DEF Activas, De, Emitida, Nueva
    <2>3. QED
      BY <2>1, <2>2
  <1>2. ASSUME NEW s \in B PROVE detras(s) \subseteq delante(s)
    BY <1>1, <1>2 DEF MasReciente
  <1>3. ASSUME NEW s \in B
        PROVE  /\ Cardinality(detras(s)) \in Nat /\ Cardinality(delante(s)) \in Nat
               /\ Cardinality(detras(s)) <= Cardinality(delante(s))
    <2>1. IsFiniteSet(A) /\ delante(s) \in SUBSET A
      BY ActivasFinitas
    <2>2. IsFiniteSet(delante(s))
      BY <2>1, FS_Subset
    <2>3. IsFiniteSet(detras(s)) /\ Cardinality(detras(s)) <= Cardinality(delante(s))
      BY <2>2, <1>2, <1>3, FS_Subset
    <2>4. QED
      BY <2>2, <2>3, FS_CardinalityType
  <1>4. Sobrantes(u, ahora) = {s \in A : Cardinality(delante(s)) >= MaxPorUsuario}
    BY DEF Sobrantes, Activas
  <1>5. Sobrantes(u, ahora)' = {s \in B : Cardinality(detras(s)) >= MaxPorUsuario}
    BY DEF Sobrantes, Activas
  <1> HIDE DEF A, B, delante, detras
  <1>6. ASSUME NEW s \in Sobrantes(u, ahora)' PROVE s \in Sobrantes(u, ahora)
    <2>1. s \in B /\ Cardinality(detras(s)) >= MaxPorUsuario
      BY <1>5, <1>6
    <2>2. s \in A /\ Cardinality(delante(s)) >= MaxPorUsuario
      BY <2>1, <1>1, <1>3, ConstantesDeSesiones
    <2>3. QED
      BY <2>2, <1>4
  <1>7. QED
    BY <1>6

\* Nor does the number of those in force grow.
LEMMA VigentesDecrecen ==
    ASSUME TypeOK, NEW u \in Usuarios, Fija(u), reloj' \in Nat, reloj' >= reloj,
           Cardinality({s \in De(u) : Vigente(s, reloj)}) <= MaxPorUsuario
    PROVE  Cardinality({s \in De(u) : Vigente(s, reloj)}') <= MaxPorUsuario
  <1> DEFINE A == {s \in De(u) : Vigente(s, reloj)}
             B == {s \in De(u) : Vigente(s, reloj)}'
  <1>0. u # Nadie
    BY ConstantesDeSesiones
  <1>1. ASSUME NEW s \in B PROVE s \in A
    <2>1. s \in Ids /\ sesiones'[s].usuario = u /\ Vigente(s, reloj)'
      BY <1>1 DEF De, Ids
    <2>2. /\ sesiones[s].usuario = u /\ sesiones'[s].emitida = sesiones[s].emitida
          /\ sesiones[s].revocada => sesiones'[s].revocada
      BY <2>1 DEF Fija
    <2>3. sesiones[s].emitida \in Nat
      BY <2>1 DEF TypeOK, Sesion
    <2>4. reloj \in Nat /\ Duracion \in Nat
      BY ConstantesDeSesiones DEF TypeOK
    <2>5. Vigente(s, reloj)
      BY <1>0, <2>1, <2>2, <2>3, <2>4 DEF Vigente, Expira
    <2>6. QED
      BY <2>1, <2>2, <2>5 DEF De
  <1>2. A \in SUBSET Ids
    BY DEF De
  <1>3. IsFiniteSet(A)
    BY <1>2, IdsFinitos, FS_Subset
  <1>4. IsFiniteSet(B) /\ Cardinality(B) <= Cardinality(A)
    BY <1>1, <1>3, FS_Subset
  <1>5. Cardinality(A) \in Nat /\ Cardinality(B) \in Nat
    BY <1>3, <1>4, FS_CardinalityType
  <1> HIDE DEF A, B
  <1>6. QED
    BY <1>4, <1>5, ConstantesDeSesiones DEF A, B

-------------------------------------------------------------------------------
\* Types and locks.

LEMMA LibreTipo == Libre \in Peticion
  BY DEF Libre, Peticion

\* A step that gives request p a new record of a known user, and no lock.
LEMMA EmpiezaPeticion ==
    ASSUME Candados, NEW p \in Solicitudes, NEW op \in Operaciones \cup {"login", "salir"},
           NEW u \in Usuarios, NEW e \in Nat, NEW c \in Nat, e <= reloj,
           sol[p].op = "libre",
           sol' = [sol EXCEPT ![p] = [op |-> op, paso |-> "inicio", usuario |-> u,
                                      emitida |-> e, cambios |-> c]],
           elegidas' \in [Solicitudes -> SUBSET (Ids \cup {Nueva})],
           \A q \in Solicitudes : q # p => elegidas'[q] = elegidas[q],
           UNCHANGED <<usuarios, cambios, sesiones, candado, reloj>>
    PROVE  Candados'
  <1> DEFINE n == [op |-> op, paso |-> "inicio", usuario |-> u, emitida |-> e, cambios |-> c]
  <1>1. n \in Peticion /\ n.op = op /\ n.paso = "inicio" /\ n.usuario = u /\ n.emitida = e
    BY DEF Peticion
  <1>2. sol' = [sol EXCEPT ![p] = n]
    OBVIOUS
  <1> HIDE DEF n
  <1>3. sol' \in [Solicitudes -> Peticion] /\ sol'[p] = n
        /\ \A q \in Solicitudes : q # p => sol'[q] = sol[q]
    BY <1>1, <1>2 DEF Candados, TypeOK
  <1>4. TypeOK'
    BY <1>3 DEF Candados, TypeOK, Ids
  <1>5. Solicitante'
    BY <1>1, <1>3 DEF Candados, Solicitante
  <1>6. CandadoCoherente'
    BY <1>1, <1>3 DEF Candados, CandadoCoherente, De, Ids
  <1>7. QED
    BY <1>4, <1>5, <1>6 DEF Candados

\* Whoever reads or ends keeps the types and the locks of the others.
LEMMA TerminaConserva ==
    ASSUME Candados, NEW p \in Solicitudes, Termina(p),
           usuarios' \in [Usuarios -> Usuario], cambios' \in [Usuarios -> Nat],
           sesiones' \in [Ids -> Sesion], UNCHANGED reloj,
           \A q \in Solicitudes : q # p /\ sol[q].paso = "escrito" => Fija(sol[q].usuario)
    PROVE  Candados'
  <1>1. /\ sol' \in [Solicitudes -> Peticion] /\ sol'[p] = Libre
        /\ \A q \in Solicitudes : q # p => sol'[q] = sol[q]
    BY LibreTipo DEF Candados, TypeOK, Termina
  <1>2. /\ elegidas' \in [Solicitudes -> SUBSET (Ids \cup {Nueva})]
        /\ \A q \in Solicitudes : q # p => elegidas'[q] = elegidas[q]
    BY DEF Candados, TypeOK, Termina
  <1>3. /\ candado' \in [Usuarios -> Solicitudes \cup {Nadie}]
        /\ \A u \in Usuarios : candado[u] # p => candado'[u] = candado[u]
    BY DEF Candados, TypeOK, Termina, Suelta
  <1>4. TypeOK'
    BY <1>1, <1>2, <1>3 DEF Candados, TypeOK, Ids, Nueva
  <1>5. Solicitante'
    BY <1>1 DEF Candados, TypeOK, Solicitante, Libre
  <1>6. ASSUME NEW q \in Solicitudes, sol'[q].paso = "escrito"
        PROVE  /\ candado'[sol'[q].usuario] = q
               /\ sol'[q].op \in Sensibles \cup {"login"}
               /\ sol'[q].op \in Sensibles =>
                     \A s \in Ids : sesiones'[s].usuario = sol'[q].usuario =>
                         sesiones'[s].revocada \/ s \in elegidas'[q]
    <2>1. q # p /\ sol'[q] = sol[q]
      BY <1>1, <1>6 DEF Libre
    <2>2. /\ candado[sol[q].usuario] = q /\ sol[q].op \in Sensibles \cup {"login"}
          /\ sol[q].op \in Sensibles =>
                \A s \in Ids : sesiones[s].usuario = sol[q].usuario =>
                    sesiones[s].revocada \/ s \in elegidas[q]
      BY <2>1, <1>6 DEF Candados, CandadoCoherente, De
    <2>3. sol[q].usuario \in Usuarios
      BY <2>2 DEF Candados, Solicitante, Sensibles
    <2>4. Fija(sol[q].usuario)
      BY <2>1, <1>6
    <2>5. QED
      BY <2>1, <2>2, <2>3, <2>4, <1>2, <1>3 DEF Fija
  <1>7. CandadoCoherente'
    BY <1>6 DEF CandadoCoherente, De, Ids
  <1>8. QED
    BY <1>4, <1>5, <1>7 DEF Candados

\* The lock is taken and the sessions to revoke are selected, in one step.
LEMMA BloqueaConserva ==
    ASSUME Candados, NEW p \in Solicitudes, sol[p].op \in Sensibles \cup {"login"},
           candado[sol[p].usuario] = Nadie,
           candado' = [candado EXCEPT ![sol[p].usuario] = p],
           sol' = [sol EXCEPT ![p].paso = "escrito"],
           NEW S \in SUBSET (Ids \cup {Nueva}), elegidas' = [elegidas EXCEPT ![p] = S],
           sol[p].op \in Sensibles =>
               \A s \in Ids : sesiones[s].usuario = sol[p].usuario =>
                   sesiones[s].revocada \/ s \in S,
           UNCHANGED <<usuarios, cambios, sesiones, reloj>>
    PROVE  Candados'
  <1> DEFINE u == sol[p].usuario
  <1>1. u \in Usuarios
    BY DEF Candados, Solicitante, Sensibles
  <1>2. /\ sol' \in [Solicitudes -> Peticion]
        /\ \A q \in Solicitudes : /\ sol'[q].op = sol[q].op
                                  /\ sol'[q].usuario = sol[q].usuario
                                  /\ sol'[q].emitida = sol[q].emitida
                                  /\ q # p => sol'[q] = sol[q]
    <2>1. sol[p] \in Peticion
      BY DEF Candados, TypeOK
    <2>2. [sol[p] EXCEPT !.paso = "escrito"] \in Peticion
      BY <2>1 DEF Peticion
    <2>3. QED
      BY <2>1, <2>2 DEF Candados, TypeOK, Peticion
  <1>3. /\ elegidas' \in [Solicitudes -> SUBSET (Ids \cup {Nueva})] /\ elegidas'[p] = S
        /\ \A q \in Solicitudes : q # p => elegidas'[q] = elegidas[q]
    BY DEF Candados, TypeOK
  <1>4. /\ candado' \in [Usuarios -> Solicitudes \cup {Nadie}] /\ candado'[u] = p
        /\ \A v \in Usuarios : v # u => candado'[v] = candado[v]
    BY <1>1 DEF Candados, TypeOK
  <1>5. TypeOK'
    BY <1>2, <1>3, <1>4 DEF Candados, TypeOK, Ids, Nueva
  <1>6. Solicitante'
    BY <1>2 DEF Candados, Solicitante
  <1>7. ASSUME NEW q \in Solicitudes, sol'[q].paso = "escrito"
        PROVE  /\ candado'[sol'[q].usuario] = q
               /\ sol'[q].op \in Sensibles \cup {"login"}
               /\ sol'[q].op \in Sensibles =>
                     \A s \in Ids : sesiones'[s].usuario = sol'[q].usuario =>
                         sesiones'[s].revocada \/ s \in elegidas'[q]
    <2>1. CASE q = p
      BY <2>1, <1>2, <1>3, <1>4
    <2>2. CASE q # p
      <3>1. /\ candado[sol[q].usuario] = q /\ sol[q].op \in Sensibles \cup {"login"}
            /\ sol[q].op \in Sensibles =>
                  \A s \in Ids : sesiones[s].usuario = sol[q].usuario =>
                      sesiones[s].revocada \/ s \in elegidas[q]
        BY <2>2, <1>2, <1>7 DEF Candados, CandadoCoherente, De
      <3>2. sol[q].usuario \in Usuarios /\ sol[q].usuario # u
        BY <3>1, ConstantesDeSesiones DEF Candados, Solicitante, Sensibles
      <3>3. QED
        BY <2>2, <3>1, <3>2, <1>2, <1>3, <1>4
    <2>3. QED
      BY <2>1, <2>2
  <1>8. CandadoCoherente'
    BY <1>7 DEF CandadoCoherente, De, Ids
  <1>9. QED
    BY <1>5, <1>6, <1>8 DEF Candados

-------------------------------------------------------------------------------
\* What each action does to the sessions.

\* Revocations keep the rows of every user.
LEMMA RevocarConserva ==
    ASSUME TypeOK, NEW S, sesiones' = Revocadas(S)
    PROVE  sesiones' \in [Ids -> Sesion] /\ \A u : Fija(u)
  <1>1. ASSUME NEW s \in Ids
        PROVE  /\ sesiones'[s] \in Sesion /\ sesiones'[s].usuario = sesiones[s].usuario
               /\ sesiones'[s].emitida = sesiones[s].emitida
               /\ sesiones[s].revocada => sesiones'[s].revocada
    <2>1. sesiones[s] \in Sesion
      BY DEF TypeOK
    <2>2. sesiones'[s] = IF s \in S THEN [sesiones[s] EXCEPT !.revocada = TRUE] ELSE sesiones[s]
      BY DEF Revocadas
    <2>3. CASE s \in S
      BY <2>1, <2>2, <2>3 DEF Sesion
    <2>4. CASE s \notin S
      BY <2>1, <2>2, <2>4
    <2>5. QED
      BY <2>3, <2>4
  <1>2. sesiones' \in [Ids -> Sesion]
    BY <1>1 DEF Revocadas
  <1>3. QED
    BY <1>1, <1>2 DEF Fija

\* A stored session is one more row of its user, and no row of another.
LEMMA GuardarConserva ==
    ASSUME Candados, NEW p \in Solicitudes, NEW n \in Ids,
           sol[p].op = "login", sesiones[n].usuario = Nadie,
           sesiones' = [Revocadas(elegidas[p]) EXCEPT ![n] =
                [usuario |-> sol[p].usuario, emitida |-> sol[p].emitida,
                 revocada |-> Nueva \in elegidas[p], cambios |-> sol[p].cambios]]
    PROVE  /\ sesiones' \in [Ids -> Sesion]
           /\ \A u \in Usuarios : u # sol[p].usuario => Fija(u)
           /\ sesiones'[n].usuario = sol[p].usuario
           /\ sesiones'[n].revocada <=> Nueva \in elegidas[p]
           /\ \A s \in Ids : s # n =>
                 /\ sesiones'[s].usuario = sesiones[s].usuario
                 /\ sesiones'[s].emitida = sesiones[s].emitida
                 /\ ~sesiones'[s].revocada => ~sesiones[s].revocada /\ s \notin elegidas[p]
  <1> DEFINE R == Revocadas(elegidas[p])
             x == [usuario |-> sol[p].usuario, emitida |-> sol[p].emitida,
                   revocada |-> Nueva \in elegidas[p], cambios |-> sol[p].cambios]
  <1>1. sol[p] \in Peticion
    BY DEF Candados, TypeOK
  <1>2. x \in Sesion /\ x.usuario = sol[p].usuario /\ (x.revocada <=> Nueva \in elegidas[p])
    <2>1. (Nueva \in elegidas[p]) \in BOOLEAN
      OBVIOUS
    <2>2. QED
      BY <1>1, <2>1 DEF Peticion, Sesion
  <1> HIDE DEF x
  <1>3. ASSUME NEW s \in Ids
        PROVE  /\ R[s] \in Sesion /\ R[s].usuario = sesiones[s].usuario
               /\ R[s].emitida = sesiones[s].emitida
               /\ sesiones[s].revocada => R[s].revocada
               /\ ~R[s].revocada => ~sesiones[s].revocada /\ s \notin elegidas[p]
    <2>1. sesiones[s] \in Sesion
      BY DEF Candados, TypeOK
    <2>2. R[s] = IF s \in elegidas[p] THEN [sesiones[s] EXCEPT !.revocada = TRUE] ELSE sesiones[s]
      BY DEF Revocadas
    <2>3. CASE s \in elegidas[p]
      BY <2>1, <2>2, <2>3 DEF Sesion
    <2>4. CASE s \notin elegidas[p]
      BY <2>1, <2>2, <2>4
    <2>5. QED
      BY <2>3, <2>4
  <1>4. R \in [Ids -> Sesion]
    BY <1>3 DEF Revocadas
  <1>5. sesiones' = [R EXCEPT ![n] = x]
    BY DEF x
  <1> HIDE DEF R
  <1>6. sesiones' \in [Ids -> Sesion] /\ sesiones'[n] = x
        /\ \A s \in Ids : s # n => sesiones'[s] = R[s]
    BY <1>2, <1>4, <1>5
  <1>7. ASSUME NEW u \in Usuarios, u # sol[p].usuario PROVE Fija(u)
    BY <1>2, <1>3, <1>6, <1>7, ConstantesDeSesiones DEF Fija
  <1>8. QED
    BY <1>2, <1>3, <1>6, <1>7

\* Two requests never are between the lock and the commit for one user.
LEMMA UnSoloEscritor ==
    ASSUME Candados, NEW p \in Solicitudes, NEW q \in Solicitudes, p # q,
           sol[p].paso = "escrito", sol[q].paso = "escrito"
    PROVE  sol[q].usuario \in Usuarios /\ sol[q].usuario # sol[p].usuario
  BY DEF Candados, CandadoCoherente, Solicitante, Sensibles

\* Every step but the storing of a session keeps the rows of every user, and
\* that one keeps those of every other.
LEMMA PasoDeCandados ==
    ASSUME Candados, [Next]_vars
    PROVE  Candados'
  <1>1. ASSUME NEW p \in Solicitudes, Validar(p) PROVE Candados'
    <2>1. PICK u \in Usuarios :
            /\ sol[p].op = "libre"
            /\ sol' = [sol EXCEPT ![p] = [op |-> "login", paso |-> "inicio",
                          usuario |-> u, emitida |-> reloj, cambios |-> cambios[u]]]
            /\ UNCHANGED <<usuarios, cambios, sesiones, candado, elegidas, reloj>>
      BY <1>1 DEF Validar
    <2>2. reloj \in Nat /\ cambios[u] \in Nat /\ reloj <= reloj
          /\ elegidas' \in [Solicitudes -> SUBSET (Ids \cup {Nueva})]
      BY <2>1 DEF Candados, TypeOK
    <2>3. QED
      BY <2>1, <2>2, EmpiezaPeticion
  <1>2. ASSUME NEW p \in Solicitudes, ContarSesiones(p) PROVE Candados'
    <2>1. Sobrantes(sol[p].usuario, sol[p].emitida) \in SUBSET (Ids \cup {Nueva})
      BY DEF Sobrantes, De
    <2>2. "login" \notin Sensibles
      BY DEF Sensibles
    <2>3. QED
      BY <1>2, <2>1, <2>2, BloqueaConserva DEF ContarSesiones, BloqueaUsuario
  <1>3. ASSUME NEW p \in Solicitudes, GuardarSesion(p) PROVE Candados'
    <2>1. PICK n \in Ids :
            /\ sol[p].op = "login" /\ sol[p].paso = "escrito"
            /\ \A m \in Ids : sesiones[m].usuario = Nadie <=> m >= n
            /\ sesiones' = [Revocadas(elegidas[p]) EXCEPT ![n] =
                  [usuario |-> sol[p].usuario, emitida |-> sol[p].emitida,
                   revocada |-> Nueva \in elegidas[p], cambios |-> sol[p].cambios]]
            /\ Termina(p) /\ UNCHANGED <<usuarios, cambios, reloj>>
      BY <1>3 DEF GuardarSesion
    <2>2. sesiones[n].usuario = Nadie
      BY <2>1 DEF Ids
    <2>3. sesiones' \in [Ids -> Sesion] /\ \A u \in Usuarios : u # sol[p].usuario => Fija(u)
      BY <2>1, <2>2, GuardarConserva
    <2>4. \A q \in Solicitudes : q # p /\ sol[q].paso = "escrito" => Fija(sol[q].usuario)
      BY <2>1, <2>3, UnSoloEscritor
    <2>5. usuarios' \in [Usuarios -> Usuario] /\ cambios' \in [Usuarios -> Nat]
      BY <2>1 DEF Candados, TypeOK
    <2>6. QED
      BY <2>1, <2>3, <2>4, <2>5, TerminaConserva
  <1>4. ASSUME NEW p \in Solicitudes, PedirSalida(p) PROVE Candados'
    <2>1. PICK s \in Ids :
            /\ sol[p].op = "libre" /\ Entra(s)
            /\ sol' = [sol EXCEPT ![p] = [op |-> "salir", paso |-> "inicio",
                          usuario |-> sesiones[s].usuario, emitida |-> 0, cambios |-> 0]]
            /\ elegidas' = [elegidas EXCEPT ![p] = {s}]
            /\ UNCHANGED <<usuarios, cambios, sesiones, candado, reloj>>
      BY <1>4 DEF PedirSalida
    <2>2. sesiones[s].usuario \in Usuarios
      BY <2>1 DEF Entra, Vigente, Candados, TypeOK, Sesion
    <2>3. /\ elegidas' \in [Solicitudes -> SUBSET (Ids \cup {Nueva})]
          /\ \A q \in Solicitudes : q # p => elegidas'[q] = elegidas[q]
          /\ 0 <= reloj
      BY <2>1 DEF Candados, TypeOK
    <2>4. QED
      BY <2>1, <2>2, <2>3, EmpiezaPeticion
  <1>5. ASSUME NEW p \in Solicitudes, Salir(p) PROVE Candados'
    <2>1. sesiones' \in [Ids -> Sesion] /\ \A u : Fija(u)
      BY <1>5, RevocarConserva DEF Salir, Candados
    <2>2. usuarios' \in [Usuarios -> Usuario] /\ cambios' \in [Usuarios -> Nat]
      BY <1>5 DEF Salir, Candados, TypeOK
    <2>3. QED
      BY <1>5, <2>1, <2>2, TerminaConserva DEF Salir
  <1>6. ASSUME NEW p \in Solicitudes, Autorizar(p) PROVE Candados'
    <2>1. PICK op \in Operaciones, u \in Usuarios :
            /\ sol[p].op = "libre"
            /\ sol' = [sol EXCEPT ![p] = [op |-> op, paso |-> "inicio", usuario |-> u,
                                          emitida |-> 0, cambios |-> 0]]
            /\ UNCHANGED <<usuarios, cambios, sesiones, candado, elegidas, reloj>>
      BY <1>6 DEF Autorizar
    <2>2. 0 <= reloj /\ elegidas' \in [Solicitudes -> SUBSET (Ids \cup {Nueva})]
      BY <2>1 DEF Candados, TypeOK
    <2>3. QED
      BY <2>1, <2>2, EmpiezaPeticion
  <1>7. ASSUME NEW p \in Solicitudes, Leer(p) PROVE Candados'
    <2>1. sol[p] \in Peticion
      BY DEF Candados, TypeOK
    <2>2. /\ sol' \in [Solicitudes -> Peticion] /\ sol'[p].paso = "leido"
          /\ \A q \in Solicitudes : /\ sol'[q].op = sol[q].op
                                    /\ sol'[q].usuario = sol[q].usuario
                                    /\ sol'[q].emitida = sol[q].emitida
                                    /\ q # p => sol'[q] = sol[q]
      BY <1>7, <2>1 DEF Leer, Candados, TypeOK, Peticion
    <2>3. TypeOK'
      BY <1>7, <2>2 DEF Leer, Candados, TypeOK, Ids, Nueva
    <2>4. Solicitante'
      BY <1>7, <2>2 DEF Leer, Candados, Solicitante
    <2>5. CandadoCoherente'
      BY <1>7, <2>2 DEF Leer, Candados, CandadoCoherente, De, Ids
    <2>6. QED
      BY <2>3, <2>4, <2>5 DEF Candados
  <1>8. ASSUME NEW p \in Solicitudes, EscribirCambio(p) PROVE Candados'
    <2>1. {s \in De(sol[p].usuario) : ~sesiones[s].revocada} \in SUBSET (Ids \cup {Nueva})
      BY DEF De
    <2>2. \A s \in Ids : sesiones[s].usuario = sol[p].usuario =>
              sesiones[s].revocada \/ s \in {t \in De(sol[p].usuario) : ~sesiones[t].revocada}
      BY DEF De
    <2>3. QED
      BY <1>8, <2>1, <2>2, BloqueaConserva DEF EscribirCambio
  <1>9. ASSUME NEW p \in Solicitudes, ConfirmarCambio(p) PROVE Candados'
    <2>1. sesiones' \in [Ids -> Sesion] /\ \A u : Fija(u)
      BY <1>9, RevocarConserva DEF ConfirmarCambio, Candados
    <2>2. usuarios' \in [Usuarios -> Usuario] /\ cambios' \in [Usuarios -> Nat]
      <3>1. sol[p].usuario \in Usuarios /\ sol[p].op \in Sensibles
        BY <1>9 DEF ConfirmarCambio, Candados, Solicitante, Sensibles
      <3>2. usuarios[sol[p].usuario] \in Usuario
        BY <3>1 DEF Candados, TypeOK
      <3>3. Cambiado(sol[p].usuario, sol[p].op, usuarios[sol[p].usuario].admin) \in Usuario
        BY <3>1, <3>2 DEF Cambiado, Usuario, Sensibles
      <3>4. QED
        BY <1>9, <3>1, <3>3 DEF ConfirmarCambio, Candados, TypeOK
    <2>3. QED
      BY <1>9, <2>1, <2>2, TerminaConserva DEF ConfirmarCambio
  <1>10. ASSUME NEW p \in Solicitudes, Guardar(p) PROVE Candados'
    <2>1. usuarios' \in [Usuarios -> Usuario]
      <3>1. sol[p].usuario \in Usuarios /\ sol[p].op \in {"reactivar", "alta"}
        BY <1>10 DEF Guardar, Candados, Solicitante
      <3>2. usuarios[sol[p].usuario] \in Usuario
        BY <3>1 DEF Candados, TypeOK
      <3>3. \A admin \in BOOLEAN : Cambiado(sol[p].usuario, sol[p].op, admin) \in Usuario
        BY <3>1, <3>2 DEF Cambiado, Usuario
      <3>4. QED
        BY <1>10, <3>3 DEF Guardar, Candados, TypeOK
    <2>2. cambios' \in [Usuarios -> Nat] /\ sesiones' \in [Ids -> Sesion] /\ \A u : Fija(u)
      BY <1>10 DEF Guardar, Candados, TypeOK, Fija
    <2>3. QED
      BY <1>10, <2>1, <2>2, TerminaConserva DEF Guardar
  <1>11. ASSUME NEW p \in Solicitudes, Revertir(p) PROVE Candados'
    <2>1. /\ usuarios' \in [Usuarios -> Usuario] /\ cambios' \in [Usuarios -> Nat]
          /\ sesiones' \in [Ids -> Sesion] /\ \A u : Fija(u)
      BY <1>11 DEF Revertir, Candados, TypeOK, Fija
    <2>2. QED
      BY <1>11, <2>1, TerminaConserva DEF Revertir
  <1>12. ASSUME Tic PROVE Candados'
    <2>1. TypeOK'
      BY <1>12 DEF Tic, Candados, TypeOK, Ids, Nueva
    <2>2. Solicitante'
      BY <1>12 DEF Tic, Candados, TypeOK, Solicitante, Peticion
    <2>3. CandadoCoherente'
      BY <1>12 DEF Tic, Candados, CandadoCoherente, De, Ids
    <2>4. QED
      BY <2>1, <2>2, <2>3 DEF Candados
  <1>13. ASSUME UNCHANGED vars PROVE Candados'
    BY <1>13 DEF vars, Candados, TypeOK, Solicitante, CandadoCoherente, De, Ids, Nueva
  <1>14. QED
    BY <1>1, <1>2, <1>3, <1>4, <1>5, <1>6, <1>7, <1>8, <1>9, <1>10, <1>11, <1>12,
       <1>13 DEF Next

-------------------------------------------------------------------------------
\* The limit of sessions.

\* A step that keeps the rows of u keeps the selection of a login of u that it
\* does not touch, or that it makes now.
LEMMA SeleccionConserva ==
    ASSUME Candados, NEW u \in Usuarios, NEW e \in Nat, NEW q \in Solicitudes, Fija(u),
           Sobrantes(u, e) \subseteq elegidas'[q]
    PROVE  Sobrantes(u, e)' \subseteq elegidas'[q]
  BY SobrantesDecrece DEF Candados

\* A step that stores no session.
LEMMA SinAltaConserva ==
    ASSUME Invariante, Candados', \A u : Fija(u), reloj' >= reloj,
           \A q \in Solicitudes : sol'[q].op = "login" /\ sol'[q].paso = "escrito" =>
               /\ sol'[q].usuario = sol[q].usuario /\ sol'[q].emitida = sol[q].emitida
               /\ \/ sol'[q] = sol[q] /\ elegidas'[q] = elegidas[q]
                  \/ elegidas'[q] = Sobrantes(sol[q].usuario, sol[q].emitida)
    PROVE  SobrantesElegidas' /\ LimitePorUsuario'
  <1>1. ASSUME NEW q \in Solicitudes, NEW u \in Usuarios, NEW e \in Nat,
               sol'[q].op = "login", sol'[q].paso = "escrito",
               sol'[q].usuario = u, sol'[q].emitida = e
        PROVE  Sobrantes(u, e)' \subseteq elegidas'[q]
    <2>1. sol[q].usuario = u /\ sol[q].emitida = e
      BY <1>1
    <2>2. CASE sol'[q] = sol[q] /\ elegidas'[q] = elegidas[q]
      <3>1. Sobrantes(u, e) \subseteq elegidas[q]
        BY <1>1, <2>1, <2>2 DEF Invariante, SobrantesElegidas
      <3>2. QED
        BY <2>2, <3>1, SeleccionConserva DEF Invariante
    <2>3. CASE elegidas'[q] = Sobrantes(sol[q].usuario, sol[q].emitida)
      <3>1. Sobrantes(u, e) \subseteq elegidas'[q]
        BY <2>1, <2>3
      <3>2. QED
        BY <3>1, SeleccionConserva DEF Invariante
    <2>4. QED
      BY <1>1, <2>2, <2>3
  <1>2. SobrantesElegidas'
    BY <1>1 DEF SobrantesElegidas
  <1>3. ASSUME NEW u \in Usuarios
        PROVE  Cardinality({s \in De(u) : Vigente(s, reloj)}') <= MaxPorUsuario
    <2>1. Cardinality({s \in De(u) : Vigente(s, reloj)}) <= MaxPorUsuario
      BY DEF Invariante, LimitePorUsuario
    <2>2. reloj' \in Nat
      BY DEF Candados, TypeOK
    <2>3. QED
      BY <2>1, <2>2, VigentesDecrecen DEF Invariante, Candados
  <1>4. LimitePorUsuario'
    BY <1>3 DEF LimitePorUsuario
  <1>5. QED
    BY <1>2, <1>4

\* Of the sessions in force when the login was issued and its own, those not over
\* the limit are no more than the limit.
LEMMA QuedanPocas ==
    ASSUME TypeOK, NEW u \in Usuarios, NEW ahora \in Nat
    PROVE  LET K == Activas(u, ahora) \ Sobrantes(u, ahora)
           IN  IsFiniteSet(K) /\ Cardinality(K) <= MaxPorUsuario
  <1> DEFINE A == Activas(u, ahora)
             e == [s \in A |-> Emitida(s, ahora)]
  <1>1. IsFiniteSet(A) /\ A \in SUBSET (Ids \cup {Nueva})
    BY ActivasFinitas
  <1>2. A \in SUBSET Int
    <2>1. \A s \in Ids \cup {Nueva} : s \in Int
      BY IdsFinitos
    <2>2. \A s \in A : s \in Ids \cup {Nueva}
      BY <1>1
    <2>3. QED
      BY <2>1, <2>2
  <1>3. ASSUME NEW s \in A PROVE Emitida(s, ahora) \in Int
    <2>1. CASE s = Nueva
      BY <2>1 DEF Emitida
    <2>2. CASE s # Nueva
      <3>1. s \in Ids
        BY <1>1, <2>2
      <3>2. QED
        BY <2>2, <3>1 DEF Emitida, TypeOK, Sesion
    <2>3. QED
      BY <2>1, <2>2
  <1>4. e \in [A -> Int] /\ \A s \in A : e[s] = Emitida(s, ahora)
    BY <1>3
  <1>5. Sobrantes(u, ahora) =
            {s \in A : Cardinality({t \in A : MasReciente(t, s, ahora)}) >= MaxPorUsuario}
    BY DEF Sobrantes, Activas
  <1> HIDE DEF A, e
  <1>6. ASSUME NEW s \in A PROVE {t \in A : MasReciente(t, s, ahora)} = Antes(A, e, s)
    BY <1>4 DEF MasReciente, Antes
  <1>7. ASSUME NEW s \in A PROVE Cardinality(Antes(A, e, s)) \in Nat
    <2>1. Antes(A, e, s) \in SUBSET A
      BY DEF Antes
    <2>2. QED
      BY <1>1, <2>1, FS_Subset, FS_CardinalityType
  <1>8. A \ Sobrantes(u, ahora) = {s \in A : Cardinality(Antes(A, e, s)) < MaxPorUsuario}
    <2>1. ASSUME NEW s \in A
          PROVE  s \in Sobrantes(u, ahora) <=> ~(Cardinality(Antes(A, e, s)) < MaxPorUsuario)
      BY <1>5, <1>6, <1>7, ConstantesDeSesiones
    <2>2. QED
      BY <2>1
  <1>9. MaxPorUsuario \in Nat
    BY ConstantesDeSesiones
  <1>10. LET K == {s \in A : Cardinality(Antes(A, e, s)) < MaxPorUsuario}
         IN  IsFiniteSet(K) /\ Cardinality(K) <= MaxPorUsuario
    BY <1>1, <1>2, <1>4, <1>9, CorteGuardaPocas
  <1>11. IsFiniteSet(A \ Sobrantes(u, ahora)) /\ Cardinality(A \ Sobrantes(u, ahora)) <= MaxPorUsuario
    BY <1>8, <1>10
  <1>12. QED
    BY <1>11 DEF A

\* The storing of a session: those of its user that are in force then, with the
\* new one in the place of Nueva, are among those the count decided to keep.
LEMMA AltaConserva ==
    ASSUME Invariante, Candados', NEW p \in Solicitudes, GuardarSesion(p)
    PROVE  SobrantesElegidas' /\ LimitePorUsuario'
  <1>0. /\ sol[p].op = "login" /\ sol[p].paso = "escrito" /\ Termina(p)
        /\ reloj' = reloj /\ reloj \in Nat
    BY DEF GuardarSesion, Invariante, Candados, TypeOK
  <1>4. PICK u \in Usuarios, e \in Nat :
            sol[p].usuario = u /\ sol[p].emitida = e /\ e <= reloj
    BY <1>0 DEF Invariante, Candados, Solicitante, TypeOK, Peticion
  <1>1. PICK n \in Ids :
          /\ \A m \in Ids : sesiones[m].usuario = Nadie <=> m >= n
          /\ sesiones' = [Revocadas(elegidas[p]) EXCEPT ![n] =
                [usuario |-> sol[p].usuario, emitida |-> sol[p].emitida,
                 revocada |-> Nueva \in elegidas[p], cambios |-> sol[p].cambios]]
    BY DEF GuardarSesion
  <1>2. sesiones[n].usuario = Nadie
    BY <1>1 DEF Ids
  <1>3. /\ \A v \in Usuarios : v # u => Fija(v)
        /\ sesiones'[n].usuario = u
        /\ sesiones'[n].revocada <=> Nueva \in elegidas[p]
        /\ \A s \in Ids : s # n =>
              /\ sesiones'[s].usuario = sesiones[s].usuario
              /\ sesiones'[s].emitida = sesiones[s].emitida
              /\ ~sesiones'[s].revocada => ~sesiones[s].revocada /\ s \notin elegidas[p]
    BY <1>0, <1>1, <1>2, <1>4, GuardarConserva DEF Invariante
  <1>5. /\ sol'[p] = Libre
        /\ \A q \in Solicitudes : q # p => sol'[q] = sol[q] /\ elegidas'[q] = elegidas[q]
    BY <1>0 DEF Termina, Invariante, Candados, TypeOK
  <1>6. ASSUME NEW q \in Solicitudes, NEW v \in Usuarios, NEW a \in Nat,
               sol'[q].op = "login", sol'[q].paso = "escrito",
               sol'[q].usuario = v, sol'[q].emitida = a
        PROVE  Sobrantes(v, a)' \subseteq elegidas'[q]
    <2>1. q # p /\ sol'[q] = sol[q] /\ elegidas'[q] = elegidas[q]
      BY <1>5, <1>6 DEF Libre
    <2>2. v # u
      BY <1>0, <1>4, <1>6, <2>1, UnSoloEscritor DEF Invariante
    <2>3. Sobrantes(v, a) \subseteq elegidas'[q]
      BY <1>6, <2>1 DEF Invariante, SobrantesElegidas
    <2>4. QED
      BY <1>3, <2>2, <2>3, SeleccionConserva DEF Invariante
  <1>7. SobrantesElegidas'
    BY <1>6 DEF SobrantesElegidas
  <1>8. Cardinality({s \in De(u) : Vigente(s, reloj)}') <= MaxPorUsuario
    <2> DEFINE K == Activas(u, e) \ Sobrantes(u, e)
               B == {s \in Ids : sesiones'[s].usuario = u /\ Vigente(s, reloj)'}
               f == [s \in B |-> IF s = n THEN Nueva ELSE s]
    <2>1. IsFiniteSet(K) /\ Cardinality(K) <= MaxPorUsuario
      BY <1>4, QuedanPocas DEF Invariante, Candados
    <2>2. Sobrantes(u, e) \subseteq elegidas[p]
      BY <1>0, <1>4 DEF Invariante, SobrantesElegidas
    <2>3. ASSUME NEW s \in B PROVE (IF s = n THEN Nueva ELSE s) \in K
      <3>1. s \in Ids /\ sesiones'[s].usuario = u /\ ~sesiones'[s].revocada
            /\ sesiones'[s].emitida + Duracion > reloj
        BY <1>0, <2>3 DEF Vigente, Expira
      <3>2. CASE s = n
        <4>1. Nueva \notin elegidas[p]
          BY <1>3, <3>1, <3>2
        <4>2. QED
          BY <2>2, <3>2, <4>1 DEF Activas
      <3>3. CASE s # n
        <4>1. /\ sesiones[s].usuario = u /\ ~sesiones[s].revocada /\ s \notin elegidas[p]
              /\ sesiones[s].emitida + Duracion > reloj
          BY <1>3, <3>1, <3>3
        <4>2. sesiones[s].emitida \in Nat /\ Duracion \in Nat
          BY <3>1, ConstantesDeSesiones DEF Invariante, Candados, TypeOK, Sesion
        <4>3. u # Nadie
          BY <1>4, ConstantesDeSesiones
        <4>4. Vigente(s, e)
          BY <1>0, <1>4, <4>1, <4>2, <4>3 DEF Vigente, Expira
        <4>5. s \in Activas(u, e)
          BY <3>1, <4>1, <4>4 DEF Activas, De
        <4>6. QED
          BY <2>2, <3>3, <4>1, <4>5
      <3>4. QED
        BY <3>2, <3>3
    <2>4. f \in [B -> K]
      BY <2>3
    <2>5. ASSUME NEW s \in B, NEW t \in B, f[s] = f[t] PROVE s = t
      <3>1. s \in Ids /\ t \in Ids /\ s # Nueva /\ t # Nueva
        BY IdsFinitos
      <3>2. QED
        BY <2>5, <3>1
    <2>6. f \in Injection(B, K)
      BY <2>4, <2>5 DEF Injection, IsInjective
    <2>7. IsFiniteSet(B) /\ Cardinality(B) <= Cardinality(K)
      BY <2>1, <2>6, FS_Injection
    <2>8. Cardinality(B) \in Nat /\ Cardinality(K) \in Nat
      BY <2>1, <2>7, FS_CardinalityType
    <2>9. {s \in De(u) : Vigente(s, reloj)}' = B
      BY DEF De, Ids
    <2>10. QED
      BY <2>1, <2>7, <2>8, <2>9, ConstantesDeSesiones
  <1>9. ASSUME NEW v \in Usuarios, v # u
        PROVE  Cardinality({s \in De(v) : Vigente(s, reloj)}') <= MaxPorUsuario
    <2>1. Cardinality({s \in De(v) : Vigente(s, reloj)}) <= MaxPorUsuario
      BY DEF Invariante, LimitePorUsuario
    <2>2. Fija(v) /\ reloj' \in Nat /\ reloj' >= reloj
      BY <1>0, <1>3, <1>9
    <2>3. QED
      BY <2>1, <2>2, VigentesDecrecen DEF Invariante, Candados
  <1>10. LimitePorUsuario'
    BY <1>8, <1>9 DEF LimitePorUsuario
  <1>11. QED
    BY <1>7, <1>10

-------------------------------------------------------------------------------
LEMMA Inicial == Init => Invariante
  <1> SUFFICES ASSUME Init PROVE Invariante
    OBVIOUS
  <1>1. SinSesion \in Sesion /\ SinSesion.usuario = Nadie
    BY DEF SinSesion, Sesion
  <1>2. TypeOK
    BY <1>1, LibreTipo DEF Init, TypeOK, Usuario
  <1>3. Solicitante
    BY DEF Init, Solicitante, Libre
  <1>4. CandadoCoherente
    BY DEF Init, CandadoCoherente, Libre
  <1>5. SobrantesElegidas
    BY DEF Init, SobrantesElegidas, Libre
  <1>6. ASSUME NEW u \in Usuarios
        PROVE  Cardinality({s \in De(u) : Vigente(s, reloj)}) <= MaxPorUsuario
    <2>1. \A s \in Ids : sesiones[s].usuario # u
      BY <1>1, ConstantesDeSesiones DEF Init
    <2>2. {s \in De(u) : Vigente(s, reloj)} = {}
      BY <2>1 DEF De
    <2>3. QED
      BY <2>2, FS_EmptySet, ConstantesDeSesiones
  <1>7. QED
    BY <1>2, <1>3, <1>4, <1>5, <1>6 DEF Invariante, Candados, LimitePorUsuario

LEMMA Paso == Invariante /\ [Next]_vars => Invariante'
  <1> SUFFICES ASSUME Invariante, [Next]_vars PROVE Invariante'
    OBVIOUS
  <1>1. Candados'
    BY PasoDeCandados DEF Invariante
  <1>2. TypeOK /\ reloj \in Nat
    BY DEF Invariante, Candados, TypeOK
  \* A step of p after which it is no login past its count.
  <1>3. ASSUME NEW p \in Solicitudes, \A u : Fija(u), reloj' = reloj,
               sol'[p].op # "login" \/ sol'[p].paso = "inicio",
               \A q \in Solicitudes : q # p => sol'[q] = sol[q] /\ elegidas'[q] = elegidas[q]
        PROVE  SobrantesElegidas' /\ LimitePorUsuario'
    BY <1>1, <1>2, <1>3, SinAltaConserva
  <1>4. ASSUME UNCHANGED sesiones PROVE \A u : Fija(u)
    BY <1>4 DEF Fija
  <1>5. ASSUME NEW p \in Solicitudes, Termina(p), reloj' = reloj, \A u : Fija(u)
        PROVE  SobrantesElegidas' /\ LimitePorUsuario'
    <2>1. /\ sol'[p] = Libre
          /\ \A q \in Solicitudes : q # p => sol'[q] = sol[q] /\ elegidas'[q] = elegidas[q]
      BY <1>2, <1>5 DEF Termina, TypeOK
    <2>2. sol'[p].op # "login"
      BY <2>1 DEF Libre
    <2>3. QED
      BY <1>3, <1>5, <2>1, <2>2
  <1>6. ASSUME NEW p \in Solicitudes, Validar(p) \/ PedirSalida(p) \/ Autorizar(p)
        PROVE  SobrantesElegidas' /\ LimitePorUsuario'
    <2>1. sol'[p].paso = "inicio"
      BY <1>2, <1>6 DEF Validar, PedirSalida, Autorizar, TypeOK
    <2>2. /\ sesiones' = sesiones /\ reloj' = reloj
          /\ \A q \in Solicitudes : q # p => sol'[q] = sol[q] /\ elegidas'[q] = elegidas[q]
      BY <1>2, <1>6 DEF Validar, PedirSalida, Autorizar, TypeOK
    <2>3. QED
      BY <1>3, <1>4, <2>1, <2>2
  <1>7. ASSUME NEW p \in Solicitudes, Leer(p) \/ EscribirCambio(p)
        PROVE  SobrantesElegidas' /\ LimitePorUsuario'
    <2>1. sol[p].op # "login" /\ sol'[p].op = sol[p].op
      BY <1>2, <1>7 DEF Leer, EscribirCambio, TypeOK, Peticion, Operaciones, Sensibles
    <2>2. /\ sesiones' = sesiones /\ reloj' = reloj
          /\ \A q \in Solicitudes : q # p => sol'[q] = sol[q] /\ elegidas'[q] = elegidas[q]
      BY <1>2, <1>7 DEF Leer, EscribirCambio, TypeOK
    <2>3. QED
      BY <1>3, <1>4, <2>1, <2>2
  <1>8. ASSUME NEW p \in Solicitudes, ContarSesiones(p)
        PROVE  SobrantesElegidas' /\ LimitePorUsuario'
    <2>1. /\ sol'[p].usuario = sol[p].usuario /\ sol'[p].emitida = sol[p].emitida
          /\ elegidas'[p] = Sobrantes(sol[p].usuario, sol[p].emitida)
      BY <1>2, <1>8 DEF ContarSesiones, TypeOK, Peticion
    <2>2. /\ sesiones' = sesiones /\ reloj' = reloj
          /\ \A q \in Solicitudes : q # p => sol'[q] = sol[q] /\ elegidas'[q] = elegidas[q]
      BY <1>2, <1>8 DEF ContarSesiones, TypeOK
    <2>3. QED
      BY <1>1, <1>2, <1>4, <2>1, <2>2, SinAltaConserva
  <1>9. ASSUME NEW p \in Solicitudes, GuardarSesion(p)
        PROVE  SobrantesElegidas' /\ LimitePorUsuario'
    BY <1>1, <1>9, AltaConserva
  <1>10. ASSUME NEW p \in Solicitudes, Salir(p) \/ ConfirmarCambio(p)
         PROVE  SobrantesElegidas' /\ LimitePorUsuario'
    <2>1. \A u : Fija(u)
      BY <1>2, <1>10, RevocarConserva DEF Salir, ConfirmarCambio
    <2>2. QED
      BY <1>5, <1>10, <2>1 DEF Salir, ConfirmarCambio
  <1>11. ASSUME NEW p \in Solicitudes, Guardar(p) \/ Revertir(p)
         PROVE  SobrantesElegidas' /\ LimitePorUsuario'
    <2>1. sesiones' = sesiones /\ reloj' = reloj /\ Termina(p)
      BY <1>11 DEF Guardar, Revertir
    <2>2. QED
      BY <1>4, <1>5, <2>1
  <1>12. ASSUME Tic \/ UNCHANGED vars
         PROVE  SobrantesElegidas' /\ LimitePorUsuario'
    <2>1. sesiones' = sesiones /\ sol' = sol /\ elegidas' = elegidas /\ reloj' >= reloj
      BY <1>2, <1>12 DEF Tic, vars
    <2>2. \A u : Fija(u)
      BY <1>4, <2>1
    <2>3. QED
      BY <1>1, <2>1, <2>2, SinAltaConserva
  <1>13. SobrantesElegidas' /\ LimitePorUsuario'
    BY <1>6, <1>7, <1>8, <1>9, <1>10, <1>11, <1>12 DEF Next
  <1>14. QED
    BY <1>1, <1>13 DEF Invariante

LEMMA Siempre == Spec => []Invariante
  BY Inicial, Paso, PTL DEF Spec

-------------------------------------------------------------------------------
\* Rows, locks and requests always have their types.
THEOREM SesionesTipadas == Spec => []TypeOK
  <1>1. Invariante => TypeOK
    BY DEF Invariante, Candados
  <1>2. QED
    BY <1>1, Siempre, PTL

\* Between the lock and the commit a request holds the row of its user, and a
\* sensitive change has every session of that user that is still alive.
THEOREM ElCandadoCubre == Spec => []CandadoCoherente
  <1>1. Invariante => CandadoCoherente
    BY DEF Invariante, Candados
  <1>2. QED
    BY <1>1, Siempre, PTL

\* No overlap of logins, changes and logouts leaves a user with more sessions in
\* force than AUTH_SESSION_MAX_PER_USER.
THEOREM NuncaMasDelLimite == Spec => []LimitePorUsuario
  <1>1. Invariante => LimitePorUsuario
    BY DEF Invariante
  <1>2. QED
    BY <1>1, Siempre, PTL

\* The commit of a sensitive change leaves no session stored before it alive.
THEOREM ElCambioLasRevoca == Spec => CambioRevocaTodo
  <1> DEFINE Revoca == \A u \in Usuarios :
                          cambios'[u] # cambios[u] => \A s \in De(u) : sesiones'[s].revocada
  <1>1. ASSUME Invariante, [Next]_vars PROVE [Revoca]_vars
    <2>1. TypeOK
      BY <1>1 DEF Invariante, Candados
    <2>2. ASSUME NEW p \in Solicitudes, ConfirmarCambio(p) PROVE Revoca
      <3>1. ASSUME NEW u \in Usuarios, cambios'[u] # cambios[u], NEW s \in De(u)
            PROVE  sesiones'[s].revocada
        <4>1. u = sol[p].usuario
          BY <2>1, <2>2, <3>1 DEF ConfirmarCambio, TypeOK
        <4>2. s \in Ids /\ (sesiones[s].revocada \/ s \in elegidas[p])
          BY <1>1, <2>2, <3>1, <4>1
             DEF ConfirmarCambio, Invariante, Candados, CandadoCoherente, De
        <4>3. sesiones[s] \in Sesion
          BY <2>1, <4>2 DEF TypeOK
        <4>4. sesiones'[s] = IF s \in elegidas[p] THEN [sesiones[s] EXCEPT !.revocada = TRUE]
                                                  ELSE sesiones[s]
          BY <2>2, <4>2 DEF ConfirmarCambio, Revocadas
        <4>5. QED
          BY <4>2, <4>3, <4>4 DEF Sesion
      <3>2. QED
        BY <3>1
    <2>3. ASSUME cambios' = cambios PROVE Revoca
      BY <2>3
    <2> HIDE DEF Revoca
    <2>4. QED
      BY <1>1, <2>2, <2>3 DEF Next, vars, Validar, ContarSesiones, GuardarSesion,
         PedirSalida, Salir, Autorizar, Leer, EscribirCambio, Guardar, Revertir, Tic
  <1>2. QED
    BY <1>1, Siempre, PTL DEF Spec, CambioRevocaTodo

===============================================================================

-------------------------- MODULE PortalPublicoProofs ---------------------------
(***************************************************************************)
(* Theorems of PortalPublico, for any forms, pseudonyms, requests, limits  *)
(* and windows.  The argument: whoever is about to store an attempt holds  *)
(* the advisory lock of each of its pseudonyms since before it counted, so *)
(* the rows it counted can only have been released, and one more still     *)
(* fits.  A row with an owner has one owner; a booking whose request did   *)
(* not raise after it has a row that keeps its nonce.  A wait ends when    *)
(* the row that makes the quota leaves its window.                         *)
(***************************************************************************)
EXTENDS PortalPublico, Sumas, FiniteSetTheorems, TLAPS

\* Between the count and the insert a request holds every lock of its form.
ConCandados ==
    \A p \in Solicitudes : sol[p].paso = "guardar" => Claves(sol[p].form) \subseteq Tiene(p)

\* A request at work has the row of its attempt, which is nobody else's.
Propias ==
    /\ \A p \in Solicitudes :
          IF sol[p].paso \in ConFila THEN sol[p].id \in Ids /\ intentos[sol[p].id].existe
                                    ELSE sol[p].id = 0
    /\ \A p, q \in Solicitudes :
          p # q /\ sol[p].paso \in ConFila => sol[p].id # sol[q].id

\* The booking of a request that still has its mail to send is in its row.
Avisadas ==
    \A p \in Solicitudes : sol[p].paso = "avisar" => intentos[sol[p].id].uso = "hecho"

\* Allowed rows of one pseudonym in a window.
Usadas(campo, valor, ventana, t) ==
    {i \in Ids : /\ intentos[i].existe /\ intentos[i].permitido
                 /\ intentos[i].form[campo] = valor
                 /\ intentos[i].creado \in t..(t + ventana)}

Cuota(campo, ventana, limite) ==
    \A f \in Formularios, t \in Nat :
        f[campo] # SinHuella => Cardinality(Usadas(campo, f[campo], ventana, t)) <= limite

\* What was counted below the limit is still below it.
Hueco(campo, ventana, limite) ==
    \A p \in Solicitudes, f \in Formularios, ahora \in Nat :
        /\ sol[p].paso = "guardar" /\ sol[p].motivo = "ok"
        /\ sol[p].form = f /\ sol[p].ahora = ahora
        /\ f[campo] # SinHuella
        => Cardinality(Contadas(campo, f[campo], ahora, ventana)) < limite

Guardia(campo, ventana, limite) ==
    modo = "enforce" => Cuota(campo, ventana, limite) /\ Hueco(campo, ventana, limite)

Base == TypeOK /\ ConCandados /\ Propias /\ Avisadas /\ CupoJustificado

Guardias ==
    /\ Guardia("ip", Hora, LimiteIp)
    /\ Guardia("contacto", Dia, LimiteContacto)
    /\ Guardia("cliente", Hora, LimiteCliente)

Invariante == Base /\ Guardias

-------------------------------------------------------------------------------
LEMMA Constantes ==
    /\ MaxIntentos \in Nat /\ Hora \in Nat /\ Dia \in Nat
    /\ LimiteIp \in Nat \ {0} /\ LimiteContacto \in Nat \ {0} /\ LimiteCliente \in Nat \ {0}
  BY ConstantesDelPortal

LEMMA IdsFinitos == IsFiniteSet(Ids) /\ Ids \in SUBSET Nat /\ 0 \notin Ids
  BY FS_Interval, Constantes DEF Ids

LEMMA LibreTipo == Libre \in Peticion /\ SinIntento \in Intento
  <1>1. (CHOOSE f \in Formularios : TRUE) \in Formularios
    BY ConstantesDelPortal
  <1>2. ASSUME NEW g \in Formularios
        PROVE  /\ [paso |-> "libre", form |-> g, motivo |-> "ok", ahora |-> 0, id |-> 0] \in Peticion
               /\ [existe |-> FALSE, form |-> g, nonce |-> SinHuella, permitido |-> FALSE,
                   creado |-> 0, uso |-> "caido"] \in Intento
    BY DEF Peticion, Motivos, Intento
  <1>3. QED
    BY <1>1, <1>2, Zenon DEF Libre, SinIntento

\* The step of request p: its record and its locks, the rows, and nothing of others.
Otros(p) ==
    /\ \A q \in Solicitudes : q # p => sol'[q] = sol[q]
    /\ \A q \in Solicitudes, k \in Huellas : q # p /\ candado[k] = q => candado'[k] = q

\* A step that changes no row: of its request, the step stays among those that own
\* a row or those that do not.
LEMMA SinFilasConserva ==
    ASSUME Base, NEW p \in Solicitudes, Otros(p), TypeOK', intentos' = intentos,
           sol'[p].id = sol[p].id, sol'[p].paso \in ConFila <=> sol[p].paso \in ConFila,
           sol'[p].paso = "avisar" => sol[p].paso = "avisar",
           sol'[p].paso = "guardar" => Claves(sol'[p].form) \subseteq {k \in Huellas : candado'[k] = p}
    PROVE  Base'
  <1>1. ConCandados'
    <2>1. ASSUME NEW q \in Solicitudes, sol'[q].paso = "guardar"
          PROVE  Claves(sol'[q].form) \subseteq {k \in Huellas : candado'[k] = q}
      <3>1. CASE q = p
        BY <2>1, <3>1
      <3>2. CASE q # p
        <4>1. sol'[q] = sol[q] /\ Claves(sol[q].form) \subseteq Tiene(q)
          BY <2>1, <3>2 DEF Otros, Base, ConCandados
        <4>2. QED
          BY <3>2, <4>1 DEF Otros, Tiene
      <3>3. QED
        BY <3>1, <3>2
    <2>2. QED
      BY <2>1 DEF ConCandados, Tiene, Claves
  <1>2. \A q \in Solicitudes : sol'[q].id = sol[q].id
                               /\ (sol'[q].paso \in ConFila <=> sol[q].paso \in ConFila)
    BY DEF Otros
  <1>3. Propias'
    BY <1>2 DEF Base, Propias, Ids
  <1>4. CupoJustificado'
    BY <1>2 DEF Base, CupoJustificado, ConFila, Ids
  <1>5. Avisadas'
    BY <1>2 DEF Base, Avisadas, Otros
  <1>6. QED
    BY <1>1, <1>3, <1>4, <1>5 DEF Base

\* A step in which the request ends, and its row is no longer at work.
LEMMA FilaCierra ==
    ASSUME Base, NEW p \in Solicitudes, Otros(p), TypeOK', sol'[p] = Libre,
           \A i \in Ids : i # sol[p].id => intentos'[i] = intentos[i],
           \A i \in Ids : i = sol[p].id => intentos'[i].uso \notin {"curso", "roto"}
    PROVE  Base'
  <1>1. ASSUME NEW q \in Solicitudes, sol'[q].paso # "libre"
        PROVE  q # p /\ sol'[q] = sol[q]
    BY <1>1 DEF Otros, Libre
  <1>2. ConCandados'
    <2>1. ASSUME NEW q \in Solicitudes, sol'[q].paso = "guardar"
          PROVE  Claves(sol'[q].form) \subseteq {k \in Huellas : candado'[k] = q}
      <3>1. q # p /\ sol'[q] = sol[q] /\ Claves(sol[q].form) \subseteq Tiene(q)
        BY <1>1, <2>1 DEF Base, ConCandados
      <3>2. QED
        BY <3>1 DEF Otros, Tiene
    <2>2. QED
      BY <2>1 DEF ConCandados, Tiene, Claves
  <1>3. Propias'
    <2>1. ASSUME NEW q \in Solicitudes
          PROVE  IF sol'[q].paso \in ConFila THEN sol'[q].id \in Ids /\ intentos'[sol'[q].id].existe
                                            ELSE sol'[q].id = 0
      <3>1. CASE q = p
        BY <3>1 DEF Libre, ConFila, Trabajando
      <3>2. CASE q # p
        <4>1. sol'[q] = sol[q] /\ (sol[q].paso \in ConFila => sol[q].id # sol[p].id)
          BY <3>2 DEF Otros, Base, Propias
        <4>2. QED
          BY <4>1 DEF Base, Propias
      <3>3. QED
        BY <3>1, <3>2
    <2>2. ASSUME NEW q \in Solicitudes, NEW r \in Solicitudes, q # r, sol'[q].paso \in ConFila
          PROVE  sol'[q].id # sol'[r].id
      <3>1. q # p /\ sol'[q] = sol[q] /\ sol[q].id \in Ids
        BY <1>1, <2>2 DEF ConFila, Trabajando, Base, Propias
      <3>2. CASE r = p
        BY <3>1, <3>2, IdsFinitos DEF Libre
      <3>3. CASE r # p
        BY <2>2, <3>1, <3>3 DEF Otros, Base, Propias
      <3>4. QED
        BY <3>2, <3>3
    <2>3. QED
      BY <2>1, <2>2 DEF Propias, Ids
  <1>4. CupoJustificado'
    <2>1. ASSUME NEW i \in Ids, intentos'[i].existe, intentos'[i].uso \in {"curso", "roto"},
                 intentos'[i].permitido
          PROVE  \E q \in Solicitudes : sol'[q].id = i /\ sol'[q].paso \in ConFila
      <3>1. i # sol[p].id /\ intentos'[i] = intentos[i]
        BY <2>1
      <3>2. PICK q \in Solicitudes : sol[q].id = i /\ sol[q].paso \in ConFila
        BY <2>1, <3>1 DEF Base, CupoJustificado
      <3>3. QED
        BY <3>1, <3>2 DEF Otros
    <2>2. QED
      BY <2>1 DEF CupoJustificado, Ids
  <1>5. Avisadas'
    <2>1. ASSUME NEW q \in Solicitudes, sol'[q].paso = "avisar"
          PROVE  intentos'[sol'[q].id].uso = "hecho"
      <3>1. q # p /\ sol'[q] = sol[q] /\ sol[q].id \in Ids
        BY <1>1, <2>1 DEF Base, Propias, ConFila
      <3>2. sol[q].id # sol[p].id /\ intentos'[sol[q].id] = intentos[sol[q].id]
        BY <2>1, <3>1 DEF Base, Propias, ConFila
      <3>3. QED
        BY <2>1, <3>1, <3>2 DEF Base, Avisadas
    <2>2. QED
      BY <2>1 DEF Avisadas
  <1>6. QED
    BY <1>2, <1>3, <1>4, <1>5 DEF Base

\* A step that marks the row of its request, which keeps it.
LEMMA FilaMarcada ==
    ASSUME Base, NEW p \in Solicitudes, Otros(p), TypeOK',
           sol[p].paso \in ConFila, sol'[p].paso \in ConFila, sol'[p].id = sol[p].id,
           intentos'[sol[p].id].existe,
           \A i \in Ids : i # sol[p].id => intentos'[i] = intentos[i],
           sol'[p].paso = "avisar" => intentos'[sol[p].id].uso = "hecho"
    PROVE  Base'
  <1>1. ConCandados'
    <2>1. ASSUME NEW q \in Solicitudes, sol'[q].paso = "guardar"
          PROVE  Claves(sol'[q].form) \subseteq {k \in Huellas : candado'[k] = q}
      <3>1. q # p /\ sol'[q] = sol[q] /\ Claves(sol[q].form) \subseteq Tiene(q)
        BY <2>1 DEF Base, ConCandados, Otros, ConFila, Trabajando
      <3>2. QED
        BY <3>1 DEF Otros, Tiene
    <2>2. QED
      BY <2>1 DEF ConCandados, Tiene, Claves
  <1>2. \A q \in Solicitudes : sol'[q].id = sol[q].id
                               /\ (sol'[q].paso \in ConFila <=> sol[q].paso \in ConFila)
    BY DEF Otros
  <1>3. Propias'
    <2>1. ASSUME NEW q \in Solicitudes, sol[q].paso \in ConFila
          PROVE  sol[q].id \in Ids /\ intentos'[sol[q].id].existe
      BY <2>1 DEF Base, Propias
    <2>2. QED
      BY <1>2, <2>1 DEF Base, Propias, Ids
  <1>4. Avisadas'
    <2>1. ASSUME NEW q \in Solicitudes, sol'[q].paso = "avisar"
          PROVE  intentos'[sol'[q].id].uso = "hecho"
      <3>1. CASE q = p
        BY <2>1, <3>1
      <3>2. CASE q # p
        <4>1. sol'[q] = sol[q] /\ sol[q].id \in Ids /\ sol[q].id # sol[p].id
          BY <2>1, <3>2 DEF Base, Propias, Otros, ConFila
        <4>2. QED
          BY <2>1, <4>1 DEF Base, Avisadas
      <3>3. QED
        BY <3>1, <3>2
    <2>2. QED
      BY <2>1 DEF Avisadas
  <1>5. CupoJustificado'
    <2>1. ASSUME NEW i \in Ids, intentos'[i].existe, intentos'[i].uso \in {"curso", "roto"},
                 intentos'[i].permitido
          PROVE  \E q \in Solicitudes : sol'[q].id = i /\ sol'[q].paso \in ConFila
      <3>1. CASE i = sol[p].id
        BY <3>1
      <3>2. CASE i # sol[p].id
        BY <1>2, <2>1, <3>2 DEF Base, CupoJustificado
      <3>3. QED
        BY <3>1, <3>2
    <2>2. QED
      BY <2>1 DEF CupoJustificado, Ids
  <1>6. QED
    BY <1>1, <1>3, <1>4, <1>5 DEF Base

\* A step that stores the attempt of a request that had none.
LEMMA FilaNueva ==
    ASSUME Base, NEW p \in Solicitudes, Otros(p), TypeOK', sol[p].paso \notin ConFila,
           NEW i \in Ids, ~intentos[i].existe, intentos'[i].existe,
           \A j \in Ids : j # i => intentos'[j] = intentos[j],
           IF intentos'[i].permitido THEN sol'[p].paso = "operar" /\ sol'[p].id = i
                                     ELSE sol'[p] = Libre
    PROVE  Base'
  <1>1. /\ sol'[p].paso # "guardar"
        /\ sol'[p].paso \in ConFila => sol'[p].id = i
        /\ sol'[p].paso \notin ConFila => sol'[p].id = 0
    BY DEF Libre, ConFila, Trabajando
  <1>2. ConCandados'
    <2>1. ASSUME NEW q \in Solicitudes, sol'[q].paso = "guardar"
          PROVE  Claves(sol'[q].form) \subseteq {k \in Huellas : candado'[k] = q}
      <3>1. q # p /\ sol'[q] = sol[q] /\ Claves(sol[q].form) \subseteq Tiene(q)
        BY <1>1, <2>1 DEF Base, ConCandados, Otros
      <3>2. QED
        BY <3>1 DEF Otros, Tiene
    <2>2. QED
      BY <2>1 DEF ConCandados, Tiene, Claves
  <1>3. \A q \in Solicitudes : q # p => sol'[q] = sol[q] /\ sol[q].id # i
    BY IdsFinitos DEF Otros, Base, Propias
  <1>4. Propias'
    <2>1. ASSUME NEW q \in Solicitudes
          PROVE  IF sol'[q].paso \in ConFila THEN sol'[q].id \in Ids /\ intentos'[sol'[q].id].existe
                                            ELSE sol'[q].id = 0
      BY <1>1, <1>3 DEF Base, Propias
    <2>2. ASSUME NEW q \in Solicitudes, NEW r \in Solicitudes, q # r, sol'[q].paso \in ConFila
          PROVE  sol'[q].id # sol'[r].id
      <3>1. CASE q = p
        BY <1>1, <1>3, <2>2, <3>1
      <3>2. CASE r = p
        <4>1. sol'[q] = sol[q] /\ sol[q].id # i /\ sol[q].id \in Ids
          BY <1>3, <2>2, <3>2 DEF Base, Propias
        <4>2. QED
          BY <1>1, <3>2, <4>1, IdsFinitos
      <3>3. CASE q # p /\ r # p
        BY <1>3, <2>2, <3>3 DEF Base, Propias
      <3>4. QED
        BY <3>1, <3>2, <3>3
    <2>3. QED
      BY <2>1, <2>2 DEF Propias, Ids
  <1>5. CupoJustificado'
    <2>1. ASSUME NEW j \in Ids, intentos'[j].existe, intentos'[j].uso \in {"curso", "roto"},
                 intentos'[j].permitido
          PROVE  \E q \in Solicitudes : sol'[q].id = j /\ sol'[q].paso \in ConFila
      <3>1. CASE j = i
        BY <2>1, <3>1 DEF ConFila, Trabajando
      <3>2. CASE j # i
        <4>1. PICK q \in Solicitudes : sol[q].id = j /\ sol[q].paso \in ConFila
          BY <2>1, <3>2 DEF Base, CupoJustificado
        <4>2. q # p
          BY <4>1 DEF ConFila
        <4>3. QED
          BY <1>3, <4>1, <4>2
      <3>3. QED
        BY <3>1, <3>2
    <2>2. QED
      BY <2>1 DEF CupoJustificado, Ids
  <1>6. Avisadas'
    <2>1. ASSUME NEW q \in Solicitudes, sol'[q].paso = "avisar"
          PROVE  intentos'[sol'[q].id].uso = "hecho"
      <3>1. q # p
        BY <2>1 DEF Libre
      <3>2. sol'[q] = sol[q] /\ sol[q].id \in Ids /\ sol[q].id # i
        BY <1>3, <2>1, <3>1 DEF Base, Propias, ConFila
      <3>3. QED
        BY <2>1, <3>2 DEF Base, Avisadas
    <2>2. QED
      BY <2>1 DEF Avisadas
  <1>7. QED
    BY <1>2, <1>4, <1>5, <1>6 DEF Base

-------------------------------------------------------------------------------
\* The quotas.

\* Counting is over finite sets, and fewer rows are no more.
LEMMA MenosFilas ==
    ASSUME NEW A \in SUBSET Ids, NEW B \in SUBSET A
    PROVE  /\ IsFiniteSet(A) /\ Cardinality(A) \in Nat /\ Cardinality(B) \in Nat
           /\ Cardinality(B) <= Cardinality(A)
  <1>1. IsFiniteSet(A)
    BY IdsFinitos, FS_Subset
  <1>2. IsFiniteSet(B) /\ Cardinality(B) <= Cardinality(A)
    BY <1>1, FS_Subset
  <1>3. QED
    BY <1>1, <1>2, FS_CardinalityType

\* No allowed row appears.
Encoge ==
    \A i \in Ids : intentos'[i].existe /\ intentos'[i].permitido =>
        /\ intentos[i].existe /\ intentos[i].permitido
        /\ intentos'[i].form = intentos[i].form /\ intentos'[i].creado = intentos[i].creado

\* A request that stands between count and insert has counted now or before.
ContoAntes(campo, ventana, limite) ==
    \A q \in Solicitudes :
        sol'[q].paso = "guardar" /\ sol'[q].motivo = "ok" =>
            /\ sol'[q].form = sol[q].form /\ sol'[q].ahora = sol[q].ahora
            /\ \/ sol[q].paso = "guardar" /\ sol[q].motivo = "ok"
               \/ sol[q].form[campo] = SinHuella
               \/ Cardinality(Contadas(campo, sol[q].form[campo], sol[q].ahora, ventana)) < limite

LEMMA GuardiaEncoge ==
    ASSUME NEW campo, NEW ventana \in Nat, NEW limite \in Nat,
           Guardia(campo, ventana, limite), modo' = modo, Encoge,
           modo = "enforce" => ContoAntes(campo, ventana, limite)
    PROVE  Guardia(campo, ventana, limite)'
  <1> SUFFICES ASSUME modo = "enforce"
               PROVE  Cuota(campo, ventana, limite)' /\ Hueco(campo, ventana, limite)'
    BY DEF Guardia
  <1>1. Cuota(campo, ventana, limite) /\ Hueco(campo, ventana, limite)
    BY DEF Guardia
  <1>2. ASSUME NEW f \in Formularios, NEW t \in Nat, f[campo] # SinHuella
        PROVE  Cardinality(Usadas(campo, f[campo], ventana, t)') <= limite
    <2> DEFINE A == Usadas(campo, f[campo], ventana, t)
               B == Usadas(campo, f[campo], ventana, t)'
    <2>1. A \in SUBSET Ids /\ B \in SUBSET A
      BY DEF Usadas, Encoge, Ids
    <2>2. Cardinality(A) <= limite
      BY <1>1, <1>2 DEF Cuota
    <2> HIDE DEF A, B
    <2>3. Cardinality(B) <= limite
      BY <2>1, <2>2, MenosFilas
    <2>4. QED
      BY <2>3 DEF B
  <1>3. ASSUME NEW q \in Solicitudes, NEW f \in Formularios, NEW ahora \in Nat,
               sol'[q].paso = "guardar", sol'[q].motivo = "ok", sol'[q].form = f,
               sol'[q].ahora = ahora, f[campo] # SinHuella
        PROVE  Cardinality(Contadas(campo, f[campo], ahora, ventana)') < limite
    <2> DEFINE A == Contadas(campo, f[campo], ahora, ventana)
               B == Contadas(campo, f[campo], ahora, ventana)'
    <2>1. A \in SUBSET Ids /\ B \in SUBSET A
      BY DEF Contadas, Encoge, Ids
    <2>2. sol[q].form = f /\ sol[q].ahora = ahora
      BY <1>3 DEF ContoAntes
    <2>3. Cardinality(A) < limite
      BY <1>1, <1>3, <2>2 DEF ContoAntes, Hueco
    <2> HIDE DEF A, B
    <2>4. Cardinality(B) < limite
      BY <2>1, <2>3, MenosFilas
    <2>5. QED
      BY <2>4 DEF B
  <1>4. Cuota(campo, ventana, limite)'
    BY <1>2 DEF Cuota
  <1>5. Hueco(campo, ventana, limite)'
    BY <1>3 DEF Hueco
  <1>6. QED
    BY <1>4, <1>5

\* The insert of a row that was counted as one that fits, under the locks of its
\* pseudonyms.
LEMMA GuardiaAlta ==
    ASSUME Base, NEW campo, NEW ventana \in Nat, NEW limite \in Nat,
           Guardia(campo, ventana, limite), modo' = modo,
           NEW p \in Solicitudes, Otros(p), sol'[p].paso # "guardar",
           NEW i \in Ids, ~intentos[i].existe,
           \A j \in Ids : j # i => intentos'[j] = intentos[j],
           intentos'[i].form = sol[p].form,
           modo = "enforce" /\ intentos'[i].permitido =>
               /\ sol[p].paso = "guardar" /\ sol[p].motivo = "ok"
               /\ intentos'[i].creado = sol[p].ahora,
           \A f \in Formularios : f[campo] # SinHuella => f[campo] \in Claves(f)
    PROVE  Guardia(campo, ventana, limite)'
  <1> SUFFICES ASSUME modo = "enforce"
               PROVE  Cuota(campo, ventana, limite)' /\ Hueco(campo, ventana, limite)'
    BY DEF Guardia
  <1>1. Cuota(campo, ventana, limite) /\ Hueco(campo, ventana, limite)
    BY DEF Guardia
  <1>2. /\ sol[p].form \in Formularios /\ sol[p].ahora \in Nat
        /\ \A j \in Ids : intentos[j].creado \in Nat
    BY DEF Base, TypeOK, Peticion, Intento
  <1>3. ASSUME NEW f \in Formularios, NEW t \in Nat, f[campo] # SinHuella
        PROVE  Cardinality(Usadas(campo, f[campo], ventana, t)') <= limite
    <2> DEFINE A == Usadas(campo, f[campo], ventana, t)
               B == Usadas(campo, f[campo], ventana, t)'
               C == Contadas(campo, f[campo], sol[p].ahora, ventana)
    <2>1. A \in SUBSET Ids /\ Cardinality(A) <= limite
      BY <1>1, <1>3 DEF Cuota, Usadas
    <2>2. B \in SUBSET (A \cup {i})
      BY DEF Usadas, Ids
    <2>3. CASE i \notin B
      <3>1. B \in SUBSET A
        BY <2>2, <2>3
      <3> HIDE DEF A, B
      <3>2. Cardinality(B) <= limite
        BY <2>1, <3>1, MenosFilas
      <3>3. QED
        BY <3>2 DEF B
    <2>4. CASE i \in B
      <3>1. /\ intentos'[i].permitido /\ sol[p].form[campo] = f[campo]
            /\ sol[p].ahora \in t..(t + ventana)
        BY <2>4 DEF Usadas
      <3>2. Cardinality(C) < limite
        BY <1>1, <1>2, <1>3, <3>1 DEF Hueco
      <3>3. A \in SUBSET C /\ C \in SUBSET Ids
        BY <1>2, <3>1 DEF Usadas, Contadas
      <3>4. i \notin A
        BY DEF Usadas
      <3> HIDE DEF A, B, C
      <3>5. IsFiniteSet(A) /\ Cardinality(A) \in Nat /\ Cardinality(A) <= Cardinality(C)
            /\ Cardinality(C) \in Nat
        BY <2>1, <3>3, MenosFilas
      <3>6. IsFiniteSet(A \cup {i}) /\ Cardinality(A \cup {i}) = Cardinality(A) + 1
        BY <3>4, <3>5, FS_AddElement
      <3>7. (A \cup {i}) \in SUBSET Ids
        BY <2>1
      <3>8. Cardinality(B) <= Cardinality(A \cup {i}) /\ Cardinality(B) \in Nat
        BY <2>2, <3>7, MenosFilas
      <3>9. Cardinality(B) <= limite
        BY <3>2, <3>5, <3>6, <3>8
      <3>10. QED
        BY <3>9 DEF B
    <2>5. QED
      BY <2>3, <2>4
  <1>4. ASSUME NEW q \in Solicitudes, NEW f \in Formularios, NEW ahora \in Nat,
               sol'[q].paso = "guardar", sol'[q].motivo = "ok", sol'[q].form = f,
               sol'[q].ahora = ahora, f[campo] # SinHuella
        PROVE  Cardinality(Contadas(campo, f[campo], ahora, ventana)') < limite
    <2> DEFINE A == Contadas(campo, f[campo], ahora, ventana)
               B == Contadas(campo, f[campo], ahora, ventana)'
    <2>1. q # p /\ sol'[q] = sol[q]
      BY <1>4 DEF Otros
    <2>2. A \in SUBSET Ids /\ Cardinality(A) < limite
      BY <1>1, <1>4, <2>1 DEF Hueco, Contadas
    <2>3. f[campo] \in Huellas /\ candado[f[campo]] = q
      BY <1>4, <2>1 DEF Base, ConCandados, Tiene
    <2>4. i \notin B
      <3>1. SUFFICES ASSUME i \in B PROVE FALSE
        OBVIOUS
      <3>2. sol[p].form[campo] = f[campo] /\ sol[p].paso = "guardar"
        BY <3>1 DEF Contadas
      <3>3. candado[f[campo]] = p
        BY <1>2, <1>4, <3>2 DEF Base, ConCandados, Tiene
      <3>4. QED
        BY <2>1, <2>3, <3>3
    <2>5. B \in SUBSET A
      BY <2>4 DEF Contadas, Ids
    <2> HIDE DEF A, B
    <2>6. Cardinality(B) < limite
      BY <2>2, <2>5, MenosFilas
    <2>7. QED
      BY <2>6 DEF B
  <1>5. Cuota(campo, ventana, limite)'
    BY <1>3 DEF Cuota
  <1>6. Hueco(campo, ventana, limite)'
    BY <1>4 DEF Hueco
  <1>7. QED
    BY <1>5, <1>6

\* The three quotas are of fields whose pseudonyms are locked.
LEMMA CamposConClave ==
    \A f \in Formularios :
        /\ f["ip"] # SinHuella => f["ip"] \in Claves(f)
        /\ f["contacto"] # SinHuella => f["contacto"] \in Claves(f)
        /\ f["cliente"] # SinHuella => f["cliente"] \in Claves(f)
  BY DEF Claves

-------------------------------------------------------------------------------
\* The records of the requests.

Pasos == {"libre", "bloquear", "guardar", "repetir", "operar", "alta", "reservar",
          "avisar", "liberar"}

\* A request whose record is replaced.
LEMMA CambiaSol ==
    ASSUME TypeOK, NEW p \in Solicitudes, NEW x \in Peticion, sol' = [sol EXCEPT ![p] = x]
    PROVE  /\ sol' \in [Solicitudes -> Peticion] /\ sol'[p] = x
           /\ \A q \in Solicitudes : q # p => sol'[q] = sol[q]
  BY DEF TypeOK

\* A request that only moves to another step.
LEMMA CambiaPaso ==
    ASSUME TypeOK, NEW p \in Solicitudes, NEW paso \in Pasos, Avanza(p, paso)
    PROVE  /\ sol' \in [Solicitudes -> Peticion]
           /\ sol'[p].paso = paso /\ sol'[p].id = sol[p].id
           /\ sol'[p].form = sol[p].form /\ sol'[p].ahora = sol[p].ahora
           /\ sol'[p].motivo = sol[p].motivo
           /\ \A q \in Solicitudes : q # p => sol'[q] = sol[q]
  <1> DEFINE x == [sol[p] EXCEPT !.paso = paso]
  <1>1. sol[p] \in Peticion
    BY DEF TypeOK
  <1>2. x \in Peticion
    BY <1>1 DEF Peticion, Pasos
  <1>3. /\ x.paso = paso /\ x.id = sol[p].id /\ x.form = sol[p].form
        /\ x.ahora = sol[p].ahora /\ x.motivo = sol[p].motivo
    BY <1>1 DEF Peticion
  <1>4. sol' = [sol EXCEPT ![p] = x]
    BY DEF Avanza
  <1> HIDE DEF x
  <1>5. QED
    BY <1>2, <1>3, <1>4, CambiaSol

\* Freeing the locks of a request leaves those of the others.
LEMMA SueltaConserva ==
    ASSUME TypeOK, NEW p \in Solicitudes, Suelta(p)
    PROVE  /\ candado' \in [Huellas -> Solicitudes \cup {Nadie}]
           /\ \A q \in Solicitudes, k \in Huellas : q # p /\ candado[k] = q => candado'[k] = q
  BY DEF TypeOK, Suelta

-------------------------------------------------------------------------------
\* The base of the invariant.

LEMMA Inicial == Init => Invariante
  <1> SUFFICES ASSUME Init PROVE Invariante
    OBVIOUS
  <1>1. /\ \A p \in Solicitudes : sol[p] = Libre
        /\ \A i \in Ids : intentos[i] = SinIntento
    BY DEF Init
  <1>2. Libre.paso = "libre" /\ Libre.id = 0 /\ ~SinIntento.existe
    BY DEF Libre, SinIntento
  <1>3. TypeOK
    BY LibreTipo DEF Init, TypeOK
  <1>4. Base
    BY <1>1, <1>2, <1>3 DEF Base, ConCandados, Propias, Avisadas, CupoJustificado, ConFila, Trabajando
  <1>5. ASSUME NEW campo, NEW ventana \in Nat, NEW limite \in Nat \ {0}
        PROVE  Guardia(campo, ventana, limite)
    <2>1. ASSUME NEW v, NEW t
          PROVE  Usadas(campo, v, ventana, t) = {}
      BY <1>1, <1>2 DEF Usadas
    <2>2. \A v, t : Cardinality(Usadas(campo, v, ventana, t)) = 0
      BY <2>1, FS_EmptySet
    <2>3. Cuota(campo, ventana, limite)
      BY <2>2 DEF Cuota
    <2>4. Hueco(campo, ventana, limite)
      BY <1>1, <1>2 DEF Hueco
    <2>5. QED
      BY <2>3, <2>4 DEF Guardia
  <1>6. QED
    BY <1>4, <1>5, Constantes DEF Invariante, Guardias

\* What each step of a request keeps of the base.
LEMMA EnviarBase == ASSUME Base, NEW p \in Solicitudes, Enviar(p) PROVE Base'
  <1>1. PICK f \in Formularios :
           /\ sol[p].paso = "libre"
           /\ sol' = [sol EXCEPT ![p] =
                 [paso |-> "bloquear", form |-> f, ahora |-> reloj, id |-> 0,
                  motivo |-> IF f.trampa THEN "honeypot_filled" ELSE Desafio(f.nonce, reloj)]]
           /\ UNCHANGED <<modo, emitido, intentos, candado, clientes, hechas, rotas, reloj>>
    BY DEF Enviar
  <1> DEFINE m == IF f.trampa THEN "honeypot_filled" ELSE Desafio(f.nonce, reloj)
             x == [paso |-> "bloquear", form |-> f, ahora |-> reloj, id |-> 0, motivo |-> m]
  <1>2. m \in Motivos
    BY DEF Desafio, Motivos
  <1>3. sol' = [sol EXCEPT ![p] = x]
    BY <1>1
  <1> HIDE DEF m
  <1>4. x \in Peticion /\ x.paso = "bloquear" /\ x.id = 0
    BY <1>2 DEF Peticion, Base, TypeOK
  <1> HIDE DEF x
  <1>5. /\ sol' \in [Solicitudes -> Peticion] /\ sol'[p] = x
        /\ \A q \in Solicitudes : q # p => sol'[q] = sol[q]
    BY <1>3, <1>4, CambiaSol DEF Base
  <1>6. TypeOK'
    BY <1>1, <1>5 DEF Base, TypeOK
  <1>7. Otros(p) /\ sol[p].id = 0
    BY <1>1, <1>5 DEF Otros, Base, Propias, ConFila, Trabajando
  <1>8. QED
    BY <1>1, <1>4, <1>5, <1>6, <1>7, SinFilasConserva DEF ConFila, Trabajando

LEMMA BloquearBase == ASSUME Base, NEW p \in Solicitudes, Bloquear(p) PROVE Base'
  <1>1. PICK k \in Huellas :
           /\ candado[k] = Nadie /\ candado' = [candado EXCEPT ![k] = p]
           /\ sol[p].paso = "bloquear"
           /\ UNCHANGED <<modo, emitido, intentos, clientes, hechas, rotas, sol, reloj>>
    BY DEF Bloquear
  <1>2. TypeOK'
    BY <1>1 DEF Base, TypeOK
  <1>3. Otros(p)
    BY <1>1, ConstantesDelPortal DEF Otros, Base, TypeOK
  <1>4. QED
    BY <1>1, <1>2, <1>3, SinFilasConserva

\* The reason of a count is one of the nine.
LEMMA MotivoTipo ==
    ASSUME NEW f, NEW m \in Motivos, NEW ahora
    PROVE  Motivo(f, m, ahora) \in Motivos
  BY DEF Motivo, Motivos

\* The record that a count leaves.
LEMMA Conto ==
    ASSUME TypeOK, NEW p \in Solicitudes, Contar(p)
    PROVE  /\ sol' \in [Solicitudes -> Peticion]
           /\ sol'[p].paso = "guardar" /\ sol'[p].id = sol[p].id
           /\ sol'[p].form = sol[p].form /\ sol'[p].ahora = sol[p].ahora
           /\ sol'[p].motivo = Motivo(sol[p].form, sol[p].motivo, sol[p].ahora)
           /\ \A q \in Solicitudes : q # p => sol'[q] = sol[q]
  <1> DEFINE m == Motivo(sol[p].form, sol[p].motivo, sol[p].ahora)
             x == [sol[p] EXCEPT !.paso = "guardar", !.motivo = m]
  <1>1. sol[p] \in Peticion
    BY DEF TypeOK
  <1>2. m \in Motivos
    BY <1>1, MotivoTipo DEF Peticion
  <1>3. sol' = [sol EXCEPT ![p] = x]
    BY DEF Contar
  <1> HIDE DEF m
  <1>4. x \in Peticion
    BY <1>1, <1>2 DEF Peticion
  <1>5. /\ x.paso = "guardar" /\ x.id = sol[p].id /\ x.form = sol[p].form
        /\ x.ahora = sol[p].ahora /\ x.motivo = m
    BY <1>1 DEF Peticion
  <1> HIDE DEF x
  <1>6. QED
    BY <1>3, <1>4, <1>5, CambiaSol DEF m

LEMMA ContarBase == ASSUME Base, NEW p \in Solicitudes, Contar(p) PROVE Base'
  <1>1. /\ sol' \in [Solicitudes -> Peticion]
        /\ sol'[p].paso = "guardar" /\ sol'[p].id = sol[p].id /\ sol'[p].form = sol[p].form
        /\ \A q \in Solicitudes : q # p => sol'[q] = sol[q]
    BY Conto DEF Base
  <1>2. sol[p].paso = "bloquear" /\ Claves(sol[p].form) \subseteq Tiene(p)
    BY DEF Contar, Faltan, Bloqueadas
  <1>3. TypeOK'
    BY <1>1 DEF Base, TypeOK, Contar
  <1>4. Otros(p) /\ intentos' = intentos
    BY <1>1 DEF Otros, Contar
  <1>5. Claves(sol'[p].form) \subseteq {k \in Huellas : candado'[k] = p}
    BY <1>1, <1>2 DEF Contar, Tiene
  <1>6. QED
    BY <1>1, <1>2, <1>3, <1>4, <1>5, SinFilasConserva DEF ConFila, Trabajando

\* The steps that change no row, nor whether the request owns one.
LEMMA AvanzaBase ==
    ASSUME Base, NEW p \in Solicitudes, NEW paso \in Pasos, Avanza(p, paso),
           paso \notin {"guardar", "avisar"}, paso \in ConFila <=> sol[p].paso \in ConFila,
           UNCHANGED <<modo, emitido, intentos, hechas, rotas, reloj>>,
           candado' \in [Huellas -> Solicitudes \cup {Nadie}],
           \A q \in Solicitudes, k \in Huellas : q # p /\ candado[k] = q => candado'[k] = q,
           clientes' \subseteq Huellas
    PROVE  Base'
  <1>1. /\ sol' \in [Solicitudes -> Peticion]
        /\ sol'[p].paso = paso /\ sol'[p].id = sol[p].id
        /\ \A q \in Solicitudes : q # p => sol'[q] = sol[q]
    BY CambiaPaso DEF Base
  <1>2. TypeOK'
    BY <1>1 DEF Base, TypeOK
  <1>3. Otros(p)
    BY <1>1 DEF Otros
  <1>4. QED
    BY <1>1, <1>2, <1>3, SinFilasConserva

LEMMA ChocarBase == ASSUME Base, NEW p \in Solicitudes, Chocar(p) PROVE Base'
  BY AvanzaBase, SueltaConserva DEF Chocar, Pasos, ConFila, Trabajando, Base, TypeOK

LEMMA BuscarBase == ASSUME Base, NEW p \in Solicitudes, BuscarCliente(p) PROVE Base'
  BY AvanzaBase DEF BuscarCliente, Pasos, ConFila, Trabajando, Base, TypeOK

LEMMA CrearBase == ASSUME Base, NEW p \in Solicitudes, CrearCliente(p) PROVE Base'
  <1>1. clientes' \subseteq Huellas
    BY ConstantesDelPortal DEF CrearCliente, Base, TypeOK, Peticion
  <1>2. QED
    BY <1>1, AvanzaBase DEF CrearCliente, Pasos, ConFila, Trabajando, Base, TypeOK

LEMMA FallarBase == ASSUME Base, NEW p \in Solicitudes, Fallar(p) PROVE Base'
  BY AvanzaBase DEF Fallar, Pasos, ConFila, Trabajando, Base, TypeOK

\* What an insert leaves: one new row of the request, which owns it when allowed.
Alta(p, i, nonce, permitido, creado) ==
    /\ ~intentos[i].existe /\ intentos'[i].existe
    /\ intentos'[i].permitido = permitido
    /\ intentos'[i].nonce = nonce /\ intentos'[i].uso = "curso"
    /\ intentos'[i].form = sol[p].form /\ intentos'[i].creado = creado
    /\ \A j \in Ids : j # i => intentos'[j] = intentos[j]
    /\ intentos' \in [Ids -> Intento] /\ sol' \in [Solicitudes -> Peticion]
    /\ \A q \in Solicitudes : q # p => sol'[q] = sol[q]
    /\ IF permitido THEN sol'[p].paso = "operar" /\ sol'[p].id = i /\ sol'[p].form = sol[p].form
                    ELSE sol'[p] = Libre

LEMMA InsertaAlta ==
    ASSUME TypeOK, NEW p \in Solicitudes, NEW nonce \in Nonces \cup {SinHuella},
           NEW permitido \in BOOLEAN, NEW creado \in Nat, Inserta(p, nonce, permitido, creado)
    PROVE  \E i \in Ids : Alta(p, i, nonce, permitido, creado)
  <1> DEFINE r == [existe |-> TRUE, form |-> sol[p].form, nonce |-> nonce,
                   permitido |-> permitido, creado |-> creado, uso |-> "curso"]
  <1>1. PICK i \in Ids :
           /\ ~intentos[i].existe
           /\ intentos' = [intentos EXCEPT ![i] = r]
           /\ sol' = IF permitido THEN [sol EXCEPT ![p].paso = "operar", ![p].id = i]
                                  ELSE [sol EXCEPT ![p] = Libre]
    BY DEF Inserta
  <1>2. sol[p] \in Peticion
    BY DEF TypeOK
  <1>3. /\ r \in Intento /\ r.existe /\ r.permitido = permitido
        /\ r.form = sol[p].form /\ r.creado = creado
        /\ r.nonce = nonce /\ r.uso = "curso"
    BY <1>2 DEF Peticion, Intento
  <1> HIDE DEF r
  <1>4. /\ intentos' \in [Ids -> Intento] /\ intentos'[i] = r
        /\ \A j \in Ids : j # i => intentos'[j] = intentos[j]
    BY <1>1, <1>3 DEF TypeOK
  <1> DEFINE x == IF permitido THEN [sol[p] EXCEPT !.paso = "operar", !.id = i] ELSE Libre
  <1>5. x \in Peticion
    BY <1>2, LibreTipo, IdsFinitos DEF Peticion
  <1>6. IF permitido THEN x.paso = "operar" /\ x.id = i /\ x.form = sol[p].form ELSE x = Libre
    BY <1>2 DEF Peticion
  <1>7. sol' = [sol EXCEPT ![p] = x]
    BY <1>1
  <1> HIDE DEF x
  <1>8. /\ sol' \in [Solicitudes -> Peticion] /\ sol'[p] = x
        /\ \A q \in Solicitudes : q # p => sol'[q] = sol[q]
    BY <1>5, <1>7, CambiaSol
  <1>9. Alta(p, i, nonce, permitido, creado)
    BY <1>1, <1>3, <1>4, <1>6, <1>8 DEF Alta
  <1>10. QED
    BY <1>9

LEMMA GuardarDa ==
    ASSUME Base, NEW p \in Solicitudes, Guardar(p)
    PROVE  /\ Otros(p) /\ candado' \in [Huellas -> Solicitudes \cup {Nadie}]
           /\ \E i \in Ids : Alta(p, i, NonceGuardado(sol[p].form, sol[p].motivo), Permite(sol[p].motivo), sol[p].ahora)
  <1>1. sol[p].form.nonce \in Nonces \cup {SinHuella}
    BY ConstantesDelPortal DEF Base, TypeOK, Peticion
  <1>2. /\ NonceGuardado(sol[p].form, sol[p].motivo) \in Nonces \cup {SinHuella}
        /\ Permite(sol[p].motivo) \in BOOLEAN
        /\ TypeOK /\ sol[p].ahora \in Nat
    BY <1>1 DEF NonceGuardado, Permite, Base, TypeOK, Peticion
  <1>3. Inserta(p, NonceGuardado(sol[p].form, sol[p].motivo), Permite(sol[p].motivo), sol[p].ahora)
    BY DEF Guardar
  <1>4. PICK i \in Ids : Alta(p, i, NonceGuardado(sol[p].form, sol[p].motivo), Permite(sol[p].motivo), sol[p].ahora)
    BY <1>2, <1>3, InsertaAlta
  <1>5. QED
    BY <1>2, <1>4, SueltaConserva DEF Guardar, Otros, Alta

LEMMA RepetirDa ==
    ASSUME Base, NEW p \in Solicitudes, Repetir(p)
    PROVE  /\ Otros(p)
           /\ \/ \E i \in Ids : Alta(p, i, SinHuella, PermiteReusado, reloj)
              \/ intentos' = intentos /\ sol' = [sol EXCEPT ![p] = Libre]
  <1>1. CASE Inserta(p, SinHuella, PermiteReusado, reloj)
    <2>1. PICK i \in Ids : Alta(p, i, SinHuella, PermiteReusado, reloj)
      BY <1>1, InsertaAlta DEF PermiteReusado, Base, TypeOK
    <2>2. QED
      BY <2>1 DEF Repetir, Otros, Alta
  <1>2. CASE sol' = [sol EXCEPT ![p] = Libre] /\ intentos' = intentos
    BY <1>2, LibreTipo, CambiaSol DEF Repetir, Otros, Base
  <1>3. QED
    BY <1>1, <1>2 DEF Repetir

LEMMA AltaBase ==
    ASSUME Base, NEW p \in Solicitudes, NEW i \in Ids, NEW nonce, NEW permitido \in BOOLEAN,
           NEW creado, Alta(p, i, nonce, permitido, creado), Otros(p), sol[p].paso \notin ConFila,
           UNCHANGED <<modo, emitido, clientes, hechas, rotas, reloj>>,
           candado' \in [Huellas -> Solicitudes \cup {Nadie}]
    PROVE  Base'
  <1>1. TypeOK'
    BY DEF Base, TypeOK, Alta
  <1>2. QED
    BY <1>1, FilaNueva DEF Alta

LEMMA GuardarBase == ASSUME Base, NEW p \in Solicitudes, Guardar(p) PROVE Base'
  <1>1. PICK i \in Ids : Alta(p, i, NonceGuardado(sol[p].form, sol[p].motivo), Permite(sol[p].motivo), sol[p].ahora)
    BY GuardarDa
  <1>2. Permite(sol[p].motivo) \in BOOLEAN
    BY DEF Permite
  <1>3. sol[p].paso \notin ConFila /\ UNCHANGED <<modo, emitido, clientes, hechas, rotas, reloj>>
    BY DEF Guardar, ConFila, Trabajando
  <1>4. QED
    BY <1>1, <1>2, <1>3, GuardarDa, AltaBase

LEMMA RepetirBase == ASSUME Base, NEW p \in Solicitudes, Repetir(p) PROVE Base'
  <1>1. /\ sol[p].paso \notin ConFila /\ sol[p].paso = "repetir"
        /\ UNCHANGED <<modo, emitido, candado, clientes, hechas, rotas, reloj>>
        /\ candado' \in [Huellas -> Solicitudes \cup {Nadie}]
    BY DEF Repetir, ConFila, Trabajando, Base, TypeOK
  <1>2. CASE \E i \in Ids : Alta(p, i, SinHuella, PermiteReusado, reloj)
    <2>1. PermiteReusado \in BOOLEAN
      BY DEF PermiteReusado
    <2>2. QED
      BY <1>1, <1>2, <2>1, RepetirDa, AltaBase
  <1>3. CASE intentos' = intentos /\ sol' = [sol EXCEPT ![p] = Libre]
    <2>1. sol' \in [Solicitudes -> Peticion] /\ sol'[p] = Libre
      BY <1>3, LibreTipo, CambiaSol DEF Base
    <2>2. TypeOK'
      BY <1>1, <1>3, <2>1 DEF Base, TypeOK
    <2>3. /\ sol[p].id = 0 /\ Libre.id = 0 /\ Libre.paso \notin ConFila
          /\ Libre.paso # "guardar" /\ Libre.paso # "avisar"
      BY <1>1 DEF Base, Propias, Libre, ConFila, Trabajando
    <2>4. QED
      BY <1>1, <1>3, <2>1, <2>2, <2>3, RepetirDa, SinFilasConserva
  <1>4. QED
    BY <1>2, <1>3, RepetirDa

\* What a mark leaves in the row of the request.
LEMMA Marca ==
    ASSUME Base, NEW p \in Solicitudes, sol[p].paso \in ConFila,
           NEW u \in {"curso", "hecho", "roto", "caido"},
           intentos' = [intentos EXCEPT ![sol[p].id].uso = u]
    PROVE  /\ sol[p].id \in Ids /\ intentos' \in [Ids -> Intento]
           /\ intentos'[sol[p].id].uso = u
           /\ intentos'[sol[p].id].existe = intentos[sol[p].id].existe
           /\ intentos'[sol[p].id].permitido = intentos[sol[p].id].permitido
           /\ intentos'[sol[p].id].nonce = intentos[sol[p].id].nonce
           /\ intentos'[sol[p].id].form = intentos[sol[p].id].form
           /\ intentos'[sol[p].id].creado = intentos[sol[p].id].creado
           /\ intentos[sol[p].id].existe
           /\ \A i \in Ids : i # sol[p].id => intentos'[i] = intentos[i]
  <1> DEFINE i == sol[p].id
             r == [intentos[i] EXCEPT !.uso = u]
  <1>1. i \in Ids /\ intentos[i].existe /\ intentos[i] \in Intento
    BY DEF Base, TypeOK, Propias
  <1>2. /\ r \in Intento /\ r.uso = u /\ r.existe = intentos[i].existe
        /\ r.permitido = intentos[i].permitido /\ r.nonce = intentos[i].nonce
        /\ r.form = intentos[i].form /\ r.creado = intentos[i].creado
    BY <1>1 DEF Intento
  <1>3. intentos' = [intentos EXCEPT ![i] = r]
    OBVIOUS
  <1> HIDE DEF r
  <1>4. /\ intentos' \in [Ids -> Intento] /\ intentos'[i] = r
        /\ \A j \in Ids : j # i => intentos'[j] = intentos[j]
    BY <1>1, <1>2, <1>3 DEF Base, TypeOK
  <1>5. QED
    BY <1>1, <1>2, <1>4

\* The request that works has a row, and one that does not has none.
LEMMA ReservarBase == ASSUME Base, NEW p \in Solicitudes, Reservar(p) PROVE Base'
  <1>1. sol[p].paso \in ConFila /\ sol[p].form \in Formularios
    BY DEF Reservar, ConFila, Trabajando, Base, TypeOK, Peticion
  <1>2. /\ intentos' \in [Ids -> Intento] /\ intentos'[sol[p].id].uso = "hecho"
        /\ intentos'[sol[p].id].existe
        /\ \A i \in Ids : i # sol[p].id => intentos'[i] = intentos[i]
    BY <1>1, Marca DEF Reservar
  <1>3. hechas' \in [Formularios -> Nat]
    BY <1>1 DEF Reservar, Base, TypeOK
  <1>4. /\ sol' \in [Solicitudes -> Peticion]
        /\ sol'[p].paso = "avisar" /\ sol'[p].id = sol[p].id
        /\ \A q \in Solicitudes : q # p => sol'[q] = sol[q]
    BY CambiaPaso DEF Reservar, Base, Pasos
  <1>5. TypeOK' /\ Otros(p)
    BY <1>2, <1>3, <1>4 DEF Base, TypeOK, Reservar, Otros
  <1>6. QED
    BY <1>1, <1>2, <1>4, <1>5, FilaMarcada DEF ConFila

LEMMA FallarTardeBase == ASSUME Base, NEW p \in Solicitudes, FallarTarde(p) PROVE Base'
  <1>1. sol[p].paso \in ConFila /\ sol[p].form \in Formularios
    BY DEF FallarTarde, ConFila, Base, TypeOK, Peticion
  <1>2. /\ intentos' \in [Ids -> Intento] /\ intentos'[sol[p].id].existe
        /\ \A i \in Ids : i # sol[p].id => intentos'[i] = intentos[i]
    BY <1>1, Marca DEF FallarTarde
  <1>3. rotas' \in [Formularios -> Nat]
    BY <1>1 DEF FallarTarde, Base, TypeOK
  <1>4. /\ sol' \in [Solicitudes -> Peticion]
        /\ sol'[p].paso = "liberar" /\ sol'[p].id = sol[p].id
        /\ \A q \in Solicitudes : q # p => sol'[q] = sol[q]
    BY CambiaPaso DEF FallarTarde, Base, Pasos
  <1>5. TypeOK' /\ Otros(p)
    BY <1>2, <1>3, <1>4 DEF Base, TypeOK, FallarTarde, Otros
  <1>6. QED
    BY <1>1, <1>2, <1>4, <1>5, FilaMarcada DEF ConFila

LEMMA AvisarBase == ASSUME Base, NEW p \in Solicitudes, Avisar(p) PROVE Base'
  <1>1. /\ sol' \in [Solicitudes -> Peticion] /\ sol'[p] = Libre
        /\ \A q \in Solicitudes : q # p => sol'[q] = sol[q]
    BY LibreTipo, CambiaSol DEF Base, Avisar
  <1>2. TypeOK' /\ Otros(p)
    BY <1>1 DEF Base, TypeOK, Avisar, Otros
  <1>3. intentos' = intentos /\ intentos[sol[p].id].uso = "hecho"
    BY DEF Avisar, Base, Avisadas
  <1>4. QED
    BY <1>1, <1>2, <1>3, FilaCierra

LEMMA LiberarBase == ASSUME Base, NEW p \in Solicitudes, Liberar(p) PROVE Base'
  <1> DEFINE i == sol[p].id
  <1>1. i \in Ids
    BY DEF Liberar, Base, Propias, ConFila
  <1>2. SinIntento \in Intento /\ SinIntento.uso \notin {"curso", "roto"}
    BY LibreTipo DEF SinIntento
  <1>3. intentos' = [intentos EXCEPT ![i] = SinIntento] /\ sol' = [sol EXCEPT ![p] = Libre]
    BY DEF Liberar, Borrado
  <1>4. /\ sol' \in [Solicitudes -> Peticion] /\ sol'[p] = Libre
        /\ \A q \in Solicitudes : q # p => sol'[q] = sol[q]
    BY <1>3, LibreTipo, CambiaSol DEF Base
  <1>5. /\ intentos' \in [Ids -> Intento] /\ intentos'[i] = SinIntento
        /\ \A j \in Ids : j # i => intentos'[j] = intentos[j]
    BY <1>1, <1>2, <1>3 DEF Base, TypeOK
  <1>6. TypeOK' /\ Otros(p)
    BY <1>4, <1>5 DEF Base, TypeOK, Liberar, Otros
  <1>7. QED
    BY <1>2, <1>4, <1>5, <1>6, FilaCierra

\* Each row after a request that leaves its own to nobody.
LEMMA Abandonada ==
    ASSUME Base, NEW p \in Solicitudes, Abandona(p), NEW i \in Ids
    PROVE  /\ intentos'[i] \in Intento
           /\ intentos'[i].existe = intentos[i].existe
           /\ intentos'[i].permitido = intentos[i].permitido
           /\ intentos'[i].nonce = intentos[i].nonce
           /\ intentos'[i].form = intentos[i].form
           /\ intentos'[i].creado = intentos[i].creado
           /\ intentos'[i].uso = "hecho" <=> intentos[i].uso = "hecho"
           /\ i = sol[p].id => intentos'[i].uso \in {"hecho", "caido"}
           /\ i # sol[p].id => intentos'[i] = intentos[i]
  <1> DEFINE r == intentos[i]
  <1>1. r \in Intento
    BY DEF Base, TypeOK
  <1>2. intentos'[i] = IF i = sol[p].id /\ r.uso # "hecho" THEN [r EXCEPT !.uso = "caido"]
                                                          ELSE r
    BY DEF Abandona
  <1> HIDE DEF r
  <1>3. /\ [r EXCEPT !.uso = "caido"] \in Intento
        /\ [r EXCEPT !.uso = "caido"].existe = r.existe
        /\ [r EXCEPT !.uso = "caido"].permitido = r.permitido
        /\ [r EXCEPT !.uso = "caido"].nonce = r.nonce
        /\ [r EXCEPT !.uso = "caido"].form = r.form
        /\ [r EXCEPT !.uso = "caido"].creado = r.creado
        /\ [r EXCEPT !.uso = "caido"].uso = "caido"
    BY <1>1 DEF Intento
  <1>4. CASE i = sol[p].id /\ r.uso # "hecho"
    BY <1>2, <1>3, <1>4 DEF r
  <1>5. CASE ~(i = sol[p].id /\ r.uso # "hecho")
    BY <1>1, <1>2, <1>5 DEF r
  <1>6. QED
    BY <1>4, <1>5

LEMMA AbandonaBase == ASSUME Base, NEW p \in Solicitudes, Abandona(p) PROVE Base'
  <1>1. \A i \in Ids : /\ intentos'[i] \in Intento
                       /\ i = sol[p].id => intentos'[i].uso \notin {"curso", "roto"}
                       /\ i # sol[p].id => intentos'[i] = intentos[i]
    BY Abandonada
  <1>2. intentos' \in [Ids -> Intento]
    BY <1>1 DEF Abandona
  <1>3. /\ sol' \in [Solicitudes -> Peticion] /\ sol'[p] = Libre
        /\ \A q \in Solicitudes : q # p => sol'[q] = sol[q]
    BY LibreTipo, CambiaSol DEF Base, Abandona
  <1>4. /\ candado' \in [Huellas -> Solicitudes \cup {Nadie}]
        /\ \A q \in Solicitudes, k \in Huellas : q # p /\ candado[k] = q => candado'[k] = q
    BY SueltaConserva DEF Abandona, Base
  <1>5. TypeOK' /\ Otros(p)
    BY <1>2, <1>3, <1>4 DEF Base, TypeOK, Abandona, Otros
  <1>6. QED
    BY <1>1, <1>3, <1>5, FilaCierra

-------------------------------------------------------------------------------
\* The quotas in every step.

\* A step in which nobody starts to insert.
LEMMA SinConteo ==
    ASSUME Guardias, modo' = modo, Encoge,
           \A q \in Solicitudes : sol'[q].paso = "guardar" => sol'[q] = sol[q]
    PROVE  Guardias'
  <1>1. ASSUME NEW campo, NEW ventana, NEW limite
        PROVE  ContoAntes(campo, ventana, limite)
    BY DEF ContoAntes
  <1>2. QED
    BY <1>1, GuardiaEncoge, Constantes DEF Guardias

\* The other requests, and one that does not stay to insert.
LEMMA SinGuardar ==
    ASSUME Guardias, modo' = modo, intentos' = intentos, NEW p \in Solicitudes,
           sol'[p].paso # "guardar", \A q \in Solicitudes : q # p => sol'[q] = sol[q]
    PROVE  Guardias'
  <1>1. Encoge
    BY DEF Encoge
  <1>2. QED
    BY <1>1, SinConteo

LEMMA ContarGuardias ==
    ASSUME Base, Guardias, NEW p \in Solicitudes, Contar(p)
    PROVE  Guardias'
  <1> DEFINE f == sol[p].form
             ahora == sol[p].ahora
  <1>1. /\ sol'[p].form = f /\ sol'[p].ahora = ahora
        /\ sol'[p].motivo = Motivo(f, sol[p].motivo, ahora)
        /\ \A q \in Solicitudes : q # p => sol'[q] = sol[q]
    BY Conto DEF Base
  <1>2. Encoge /\ modo' = modo
    BY DEF Contar, Encoge
  <1>3. Motivo(f, sol[p].motivo, ahora) = "ok" =>
           /\ ~Excedida("ip", f.ip, ahora, Hora, LimiteIp)
           /\ ~Excedida("contacto", f.contacto, ahora, Dia, LimiteContacto)
           /\ ~Excedida("cliente", f.cliente, ahora, Hora, LimiteCliente)
    BY DEF Motivo
  <1>4. ASSUME NEW campo, NEW valor, NEW ventana, NEW limite \in Nat,
               ~Excedida(campo, valor, ahora, ventana, limite)
        PROVE  valor = SinHuella \/ Cardinality(Contadas(campo, valor, ahora, ventana)) < limite
    <2>1. Cardinality(Contadas(campo, valor, ahora, ventana)) \in Nat
      <3> DEFINE A == Contadas(campo, valor, ahora, ventana)
      <3>1. A \in SUBSET Ids
        BY DEF Contadas
      <3> HIDE DEF A
      <3>2. Cardinality(A) \in Nat
        BY <3>1, MenosFilas
      <3>3. QED
        BY <3>2 DEF A
    <2>2. QED
      BY <1>4, <2>1 DEF Excedida
  <1>5. ASSUME NEW campo, NEW ventana, NEW limite \in Nat,
               sol'[p].motivo = "ok" => ~Excedida(campo, f[campo], ahora, ventana, limite)
        PROVE  ContoAntes(campo, ventana, limite)
    BY <1>1, <1>4, <1>5 DEF ContoAntes
  <1>6. /\ ContoAntes("ip", Hora, LimiteIp)
        /\ ContoAntes("contacto", Dia, LimiteContacto)
        /\ ContoAntes("cliente", Hora, LimiteCliente)
    BY <1>1, <1>3, <1>5, Constantes
  <1>7. QED
    BY <1>2, <1>6, GuardiaEncoge, Constantes DEF Guardias

\* An insert that the guard allows was counted; any other does not count.
LEMMA AltaGuardias ==
    ASSUME Base, Guardias, NEW p \in Solicitudes, Otros(p), modo' = modo,
           NEW i \in Ids, NEW nonce, NEW permitido \in BOOLEAN, NEW creado,
           Alta(p, i, nonce, permitido, creado),
           modo = "enforce" /\ permitido =>
               sol[p].paso = "guardar" /\ sol[p].motivo = "ok" /\ creado = sol[p].ahora
    PROVE  Guardias'
  <1>1. sol'[p].paso # "guardar"
    BY DEF Alta, Libre
  <1>2. /\ ~intentos[i].existe
        /\ \A j \in Ids : j # i => intentos'[j] = intentos[j]
        /\ intentos'[i].form = sol[p].form
        /\ modo = "enforce" /\ intentos'[i].permitido =>
               /\ sol[p].paso = "guardar" /\ sol[p].motivo = "ok"
               /\ intentos'[i].creado = sol[p].ahora
    BY DEF Alta
  <1>3. Guardia("ip", Hora, LimiteIp)'
    BY <1>1, <1>2, GuardiaAlta, CamposConClave, Constantes DEF Guardias
  <1>4. Guardia("contacto", Dia, LimiteContacto)'
    BY <1>1, <1>2, GuardiaAlta, CamposConClave, Constantes DEF Guardias
  <1>5. Guardia("cliente", Hora, LimiteCliente)'
    BY <1>1, <1>2, GuardiaAlta, CamposConClave, Constantes DEF Guardias
  <1>6. QED
    BY <1>3, <1>4, <1>5 DEF Guardias

LEMMA GuardarGuardias ==
    ASSUME Base, Guardias, NEW p \in Solicitudes, Guardar(p)
    PROVE  Guardias'
  <1>1. PICK i \in Ids : Alta(p, i, NonceGuardado(sol[p].form, sol[p].motivo), Permite(sol[p].motivo), sol[p].ahora)
    BY GuardarDa
  <1>2. /\ Permite(sol[p].motivo) \in BOOLEAN
        /\ modo = "enforce" /\ Permite(sol[p].motivo) => sol[p].motivo = "ok"
    BY DEF Permite
  <1>3. modo' = modo /\ sol[p].paso = "guardar" /\ Otros(p)
    BY GuardarDa DEF Guardar
  <1>4. QED
    BY <1>1, <1>2, <1>3, AltaGuardias

LEMMA RepetirGuardias ==
    ASSUME Base, Guardias, NEW p \in Solicitudes, Repetir(p)
    PROVE  Guardias'
  <1>1. modo' = modo /\ Otros(p)
    BY RepetirDa DEF Repetir
  <1>2. CASE \E i \in Ids : Alta(p, i, SinHuella, PermiteReusado, reloj)
    <2>1. PICK i \in Ids : Alta(p, i, SinHuella, PermiteReusado, reloj)
      BY <1>2
    <2>2. PermiteReusado \in BOOLEAN /\ (modo = "enforce" => ~PermiteReusado)
      BY DEF PermiteReusado
    <2>3. QED
      BY <1>1, <2>1, <2>2, AltaGuardias
  <1>3. CASE intentos' = intentos /\ sol' = [sol EXCEPT ![p] = Libre]
    <2>1. sol'[p] = Libre
      BY <1>3 DEF Base, TypeOK
    <2>2. sol'[p].paso # "guardar"
      BY <2>1 DEF Libre
    <2>3. QED
      BY <1>1, <1>3, <2>2, SinGuardar DEF Otros
  <1>4. QED
    BY <1>2, <1>3, RepetirDa

\* The other steps of a request.
LEMMA AvanzaGuardias ==
    ASSUME Base, Guardias, NEW p \in Solicitudes, NEW paso \in Pasos, paso # "guardar",
           Avanza(p, paso), modo' = modo, intentos' = intentos
    PROVE  Guardias'
  BY CambiaPaso, SinGuardar DEF Base

\* A row that closes, is marked or goes away.
LEMMA CierraGuardias ==
    ASSUME Base, Guardias, NEW p \in Solicitudes,
           \/ Reservar(p) \/ FallarTarde(p) \/ Avisar(p) \/ Liberar(p) \/ Abandona(p)
    PROVE  Guardias'
  <1>1. modo' = modo /\ \A q \in Solicitudes : q # p => sol'[q] = sol[q]
    <2>1. CASE Reservar(p) \/ FallarTarde(p)
      BY <2>1, CambiaPaso DEF Reservar, FallarTarde, Base, Pasos
    <2>2. CASE Avisar(p) \/ Liberar(p) \/ Abandona(p)
      BY <2>2 DEF Avisar, Liberar, Abandona, Base, TypeOK
    <2>3. QED
      BY <2>1, <2>2
  <1>2. sol'[p].paso # "guardar"
    <2>1. CASE Reservar(p) \/ FallarTarde(p)
      BY <2>1, CambiaPaso DEF Reservar, FallarTarde, Base, Pasos
    <2>2. CASE Avisar(p) \/ Liberar(p) \/ Abandona(p)
      BY <2>2 DEF Avisar, Liberar, Abandona, Base, TypeOK, Libre
    <2>3. QED
      BY <2>1, <2>2
  <1>3. \A q \in Solicitudes : sol'[q].paso = "guardar" => sol'[q] = sol[q]
    BY <1>1, <1>2
  <1>4. Encoge
    <2>1. CASE Reservar(p)
      <3>1. sol[p].paso \in ConFila
        BY <2>1 DEF Reservar, ConFila, Trabajando
      <3>2. QED
        BY <2>1, <3>1, Marca DEF Reservar, Encoge
    <2>2. CASE FallarTarde(p)
      <3>1. sol[p].paso \in ConFila
        BY <2>2 DEF FallarTarde, ConFila
      <3>2. QED
        BY <2>2, <3>1, Marca DEF FallarTarde, Encoge
    <2>3. CASE Avisar(p)
      BY <2>3 DEF Avisar, Encoge
    <2>4. CASE Liberar(p)
      <3>1. \A i \in Ids : intentos'[i] = intentos[i] \/ intentos'[i] = SinIntento
        BY <2>4 DEF Liberar, Borrado, Base, TypeOK
      <3>2. ~SinIntento.existe
        BY DEF SinIntento
      <3>3. QED
        BY <3>1, <3>2 DEF Encoge
    <2>5. CASE Abandona(p)
      BY <2>5, Abandonada DEF Encoge
    <2>6. QED
      BY <2>1, <2>2, <2>3, <2>4, <2>5
  <1>5. QED
    BY <1>1, <1>3, <1>4, SinConteo

-------------------------------------------------------------------------------
\* One reservation per challenge.

\* A stored challenge is in one row.
NoncesUnicos ==
    \A i, j \in Ids :
        (/\ intentos[i].existe /\ intentos[j].existe
         /\ intentos[i].nonce = intentos[j].nonce /\ intentos[i].nonce # SinHuella)
        => i = j

\* The row of a request carries its form, and says how far its booking went.
FilasEnCurso ==
    \A p \in Solicitudes :
        /\ sol[p].paso \in ConFila =>
              intentos[sol[p].id].permitido /\ intentos[sol[p].id].form = sol[p].form
        /\ sol[p].paso \in Trabajando => intentos[sol[p].id].uso = "curso"
        /\ sol[p].paso = "liberar" => intentos[sol[p].id].uso \in {"curso", "roto"}

\* A row that became a reservation with form g.
Gastada(i, g) ==
    /\ intentos[i].existe /\ intentos[i].permitido /\ intentos[i].uso = "hecho"
    /\ intentos[i].form = g

\* While the guard is enforced an allowed row stores the challenge of its form.
Guardados ==
    modo = "enforce" =>
        \A i \in Ids : intentos[i].existe /\ intentos[i].permitido
            => intentos[i].nonce = intentos[i].form.nonce

\* A form with a challenge has one reservation more than those that raised when a
\* row that nobody deletes witnesses it, and no other.
Testigos ==
    modo = "enforce" =>
        \A g \in Formularios : g.nonce # SinHuella =>
            IF \E i \in Ids : Gastada(i, g) THEN hechas[g] = rotas[g] + 1
                                            ELSE hechas[g] = rotas[g]

Desafios == NoncesUnicos /\ FilasEnCurso /\ Guardados /\ Testigos

\* The rows that witness a challenge are one.
LEMMA MismaFila ==
    ASSUME Desafios, modo = "enforce", NEW i \in Ids, NEW j \in Ids,
           intentos[i].existe, intentos[i].permitido,
           intentos[j].existe, intentos[j].permitido,
           intentos[i].form.nonce = intentos[j].form.nonce,
           intentos[i].form.nonce # SinHuella
    PROVE  i = j
  <1>1. intentos[i].nonce = intentos[i].form.nonce /\ intentos[j].nonce = intentos[j].form.nonce
    BY DEF Desafios, Guardados
  <1>2. QED
    BY <1>1 DEF Desafios, NoncesUnicos

\* Two firm reservations of one challenge have one witness.
LEMMA MismoTestigo ==
    ASSUME Base, Desafios, modo = "enforce", NEW g \in Formularios, NEW h \in Formularios,
           g.nonce = h.nonce, g.nonce # SinHuella,
           hechas[g] # rotas[g], hechas[h] # rotas[h]
    PROVE  g = h
  <1>1. PICK i \in Ids : Gastada(i, g)
    BY DEF Desafios, Testigos
  <1>2. PICK j \in Ids : Gastada(j, h)
    BY DEF Desafios, Testigos
  <1>3. i = j
    BY <1>1, <1>2, MismaFila DEF Gastada
  <1>4. QED
    BY <1>1, <1>2, <1>3 DEF Gastada

\* A step that changes neither rows nor reservations, nor hands a row over.
LEMMA DesafiosSinFilas ==
    ASSUME Desafios, modo' = modo, intentos' = intentos, hechas' = hechas, rotas' = rotas,
           \A q \in Solicitudes : sol'[q].paso \in ConFila =>
               /\ sol[q].paso \in ConFila /\ sol'[q].id = sol[q].id
               /\ sol'[q].form = sol[q].form
               /\ sol'[q].paso \in Trabajando => sol[q].paso \in Trabajando
               /\ sol'[q].paso = "liberar" => sol[q].paso \in Trabajando \/ sol[q].paso = "liberar"
    PROVE  Desafios'
  <1>1. NoncesUnicos' /\ Guardados'
    BY DEF Desafios, NoncesUnicos, Guardados, Ids
  <1>2. Testigos'
    BY DEF Desafios, Testigos, Gastada, Ids
  <1>3. FilasEnCurso'
    <2>1. ASSUME NEW q \in Solicitudes
          PROVE  /\ sol'[q].paso \in ConFila =>
                       /\ intentos[sol'[q].id].permitido
                       /\ intentos[sol'[q].id].form = sol'[q].form
                 /\ sol'[q].paso \in Trabajando => intentos[sol'[q].id].uso = "curso"
                 /\ sol'[q].paso = "liberar" => intentos[sol'[q].id].uso \in {"curso", "roto"}
      <3>1. CASE sol'[q].paso \in ConFila
        BY <3>1 DEF Desafios, FilasEnCurso
      <3>2. CASE sol'[q].paso \notin ConFila
        BY <3>2 DEF ConFila
      <3>3. QED
        BY <3>1, <3>2
    <2>2. QED
      BY <2>1 DEF FilasEnCurso
  <1>4. QED
    BY <1>1, <1>2, <1>3 DEF Desafios

\* The rows of the other requests are not touched by a step of p that touches
\* only its own.
LEMMA FilasDeOtros ==
    ASSUME Base, Desafios, NEW p \in Solicitudes, NEW q \in Solicitudes, q # p,
           sol'[q] = sol[q], \A j \in Ids : j # sol[p].id => intentos'[j] = intentos[j]
    PROVE  /\ sol'[q].paso \in ConFila =>
                 intentos'[sol'[q].id].permitido /\ intentos'[sol'[q].id].form = sol'[q].form
           /\ sol'[q].paso \in Trabajando => intentos'[sol'[q].id].uso = "curso"
           /\ sol'[q].paso = "liberar" => intentos'[sol'[q].id].uso \in {"curso", "roto"}
  <1>1. CASE sol[q].paso \in ConFila
    <2>1. sol[q].id \in Ids /\ sol[q].id # sol[p].id
      BY <1>1 DEF Base, Propias
    <2>2. intentos'[sol'[q].id] = intentos[sol[q].id]
      BY <2>1
    <2>3. QED
      BY <2>2 DEF Desafios, FilasEnCurso
  <1>2. CASE sol[q].paso \notin ConFila
    BY <1>2 DEF ConFila
  <1>3. QED
    BY <1>1, <1>2

\* A new row, of a challenge that no row has.
LEMMA DesafiosAlta ==
    ASSUME Base, Desafios, NEW p \in Solicitudes,
           modo' = modo, hechas' = hechas, rotas' = rotas,
           NEW i \in Ids, NEW nonce, NEW permitido \in BOOLEAN, NEW creado,
           Alta(p, i, nonce, permitido, creado),
           ~NonceUsado(nonce), sol[p].paso \notin ConFila,
           modo = "enforce" /\ permitido => nonce = sol[p].form.nonce
    PROVE  Desafios'
  <1>1. /\ ~intentos[i].existe /\ intentos'[i].existe
        /\ intentos'[i].permitido = permitido
        /\ intentos'[i].nonce = nonce /\ intentos'[i].uso = "curso"
        /\ intentos'[i].form = sol[p].form
        /\ \A j \in Ids : j # i => intentos'[j] = intentos[j]
        /\ \A q \in Solicitudes : q # p => sol'[q] = sol[q]
        /\ IF permitido THEN sol'[p].paso = "operar" /\ sol'[p].id = i /\ sol'[p].form = sol[p].form
                        ELSE sol'[p] = Libre
    BY DEF Alta
  <1>2. nonce # SinHuella => \A j \in Ids : intentos[j].existe => intentos[j].nonce # nonce
    BY DEF NonceUsado
  <1>3. NoncesUnicos'
    <2>1. ASSUME NEW j \in Ids, NEW k \in Ids, intentos'[j].existe, intentos'[k].existe,
                 intentos'[j].nonce = intentos'[k].nonce, intentos'[j].nonce # SinHuella
          PROVE  j = k
      BY <1>1, <1>2, <2>1 DEF Desafios, NoncesUnicos
    <2>2. QED
      BY <2>1 DEF NoncesUnicos, Ids
  <1>4. FilasEnCurso'
    <2>1. ASSUME NEW q \in Solicitudes
          PROVE  /\ sol'[q].paso \in ConFila =>
                       intentos'[sol'[q].id].permitido /\ intentos'[sol'[q].id].form = sol'[q].form
                 /\ sol'[q].paso \in Trabajando => intentos'[sol'[q].id].uso = "curso"
                 /\ sol'[q].paso = "liberar" => intentos'[sol'[q].id].uso \in {"curso", "roto"}
      <3>1. CASE q = p /\ permitido
        BY <1>1, <3>1
      <3>2. CASE q = p /\ ~permitido
        BY <1>1, <3>2 DEF Libre, ConFila, Trabajando
      <3>3. CASE q # p
        <4>1. sol'[q] = sol[q] /\ (sol[q].paso \in ConFila =>
                 sol[q].id \in Ids /\ intentos[sol[q].id].existe)
          BY <1>1, <3>3 DEF Base, Propias
        <4>2. sol[q].paso \in ConFila => intentos'[sol[q].id] = intentos[sol[q].id]
          BY <1>1, <4>1
        <4>3. CASE sol[q].paso \in ConFila
          BY <4>1, <4>2, <4>3 DEF Desafios, FilasEnCurso
        <4>4. CASE sol[q].paso \notin ConFila
          BY <4>1, <4>4 DEF ConFila
        <4>5. QED
          BY <4>3, <4>4
      <3>4. QED
        BY <3>1, <3>2, <3>3
    <2>2. QED
      BY <2>1 DEF FilasEnCurso
  <1>5. Guardados'
    <2>1. ASSUME modo = "enforce", NEW j \in Ids, intentos'[j].existe, intentos'[j].permitido
          PROVE  intentos'[j].nonce = intentos'[j].form.nonce
      BY <1>1, <2>1 DEF Desafios, Guardados
    <2>2. QED
      BY <2>1 DEF Guardados, Ids
  <1>6. \A j \in Ids, g \in Formularios : Gastada(j, g)' <=> Gastada(j, g)
    BY <1>1 DEF Gastada
  <1>7. Testigos'
    BY <1>6 DEF Desafios, Testigos, Ids
  <1>8. QED
    BY <1>3, <1>4, <1>5, <1>7 DEF Desafios

\* A step of p that keeps challenge, form and permission of the rows it leaves,
\* and marks or deletes only its own.
LEMMA DesafiosCambia ==
    ASSUME Base, Desafios, NEW p \in Solicitudes, modo' = modo,
           \A q \in Solicitudes : q # p => sol'[q] = sol[q],
           \A j \in Ids : j # sol[p].id => intentos'[j] = intentos[j],
           \A j \in Ids : intentos'[j].existe =>
               /\ intentos[j].existe /\ intentos'[j].permitido = intentos[j].permitido
               /\ intentos'[j].nonce = intentos[j].nonce
               /\ intentos'[j].form = intentos[j].form,
           sol'[p].paso \in ConFila =>
               /\ sol[p].paso \in ConFila /\ sol'[p].id = sol[p].id
               /\ sol'[p].form = sol[p].form /\ intentos'[sol[p].id].existe,
           sol'[p].paso \notin Trabajando,
           sol'[p].paso = "liberar" => intentos'[sol'[p].id].uso \in {"curso", "roto"}
    PROVE  NoncesUnicos' /\ FilasEnCurso' /\ Guardados'
  <1>1. NoncesUnicos'
    BY DEF Desafios, NoncesUnicos, Ids
  <1>2. Guardados'
    BY DEF Desafios, Guardados, Ids
  <1>3. FilasEnCurso'
    <2>1. ASSUME NEW q \in Solicitudes
          PROVE  /\ sol'[q].paso \in ConFila =>
                       intentos'[sol'[q].id].permitido /\ intentos'[sol'[q].id].form = sol'[q].form
                 /\ sol'[q].paso \in Trabajando => intentos'[sol'[q].id].uso = "curso"
                 /\ sol'[q].paso = "liberar" => intentos'[sol'[q].id].uso \in {"curso", "roto"}
      <3>1. CASE q # p
        BY <3>1, FilasDeOtros
      <3>2. CASE q = p
        <4>1. sol'[p].paso \in ConFila =>
                 /\ sol[p].id \in Ids /\ intentos[sol[p].id].permitido
                 /\ intentos[sol[p].id].form = sol[p].form
          BY DEF Base, Propias, Desafios, FilasEnCurso
        <4>2. QED
          BY <3>2, <4>1
      <3>3. QED
        BY <3>1, <3>2
    <2>2. QED
      BY <2>1 DEF FilasEnCurso
  <1>4. QED
    BY <1>1, <1>2, <1>3

\* The request that reserves spends its row, and the challenge of that row was
\* spent by nobody else.
LEMMA DesafiosReservar ==
    ASSUME Base, Desafios, NEW p \in Solicitudes, Reservar(p)
    PROVE  Desafios'
  <1>0. PICK i \in Ids, f \in Formularios : i = sol[p].id /\ f = sol[p].form
    BY DEF Reservar, Base, TypeOK, Peticion, Propias, ConFila, Trabajando
  <1>1. /\ sol[p].paso \in ConFila /\ sol[p].paso \in Trabajando
        /\ i \in Ids /\ intentos[i].existe /\ intentos[i].permitido
        /\ intentos[i].uso = "curso" /\ intentos[i].form = f /\ f \in Formularios
    BY <1>0 DEF Reservar, Base, TypeOK, Peticion, Propias, Desafios, FilasEnCurso, ConFila, Trabajando
  <1>2. /\ intentos'[i].existe /\ intentos'[i].permitido
        /\ intentos'[i].permitido = intentos[i].permitido /\ intentos'[i].uso = "hecho"
        /\ intentos'[i].form = f /\ intentos'[i].nonce = intentos[i].nonce
        /\ \A j \in Ids : j # i => intentos'[j] = intentos[j]
    BY <1>0, <1>1, Marca DEF Reservar
  <1>3. /\ sol'[p].paso = "avisar" /\ sol'[p].id = i /\ sol'[p].form = f
        /\ \A q \in Solicitudes : q # p => sol'[q] = sol[q]
    BY <1>0, CambiaPaso DEF Reservar, Base, Pasos
  <1>4. modo' = modo /\ rotas' = rotas
    BY DEF Reservar
  <1>5. NoncesUnicos' /\ FilasEnCurso' /\ Guardados'
    BY <1>0, <1>1, <1>2, <1>3, <1>4, DesafiosCambia DEF Trabajando
  <1>6. ASSUME modo = "enforce", NEW g \in Formularios, g.nonce # SinHuella
        PROVE  IF \E j \in Ids : Gastada(j, g)' THEN hechas'[g] = rotas[g] + 1
                                                ELSE hechas'[g] = rotas[g]
    <2>1. CASE g = f
      <3>1. \A j \in Ids : ~Gastada(j, f)
        BY <1>1, <1>6, <2>1, MismaFila DEF Gastada
      <3>2. hechas[f] = rotas[f]
        BY <1>1, <1>6, <2>1, <3>1 DEF Desafios, Testigos
      <3>3. hechas'[f] = rotas[f] + 1
        BY <1>0, <3>2 DEF Reservar, Base, TypeOK
      <3>4. Gastada(i, f)'
        BY <1>2 DEF Gastada
      <3>5. \E j \in Ids : Gastada(j, f)'
        BY <1>1, <3>4
      <3>6. QED
        BY <2>1, <3>3, <3>5
    <2>2. CASE g # f
      <3>1. \A j \in Ids : Gastada(j, g)' <=> Gastada(j, g)
        BY <1>1, <1>2, <2>2 DEF Gastada
      <3>2. hechas'[g] = hechas[g]
        BY <1>0, <2>2 DEF Reservar, Base, TypeOK
      <3>3. QED
        BY <1>6, <3>1, <3>2 DEF Desafios, Testigos
    <2>3. QED
      BY <2>1, <2>2
  <1>7. Testigos'
    BY <1>4, <1>6 DEF Testigos, Ids
  <1>8. QED
    BY <1>5, <1>7 DEF Desafios

\* The request that raises with its booking made counts it as broken, and its row
\* is no witness any more.
LEMMA DesafiosTarde ==
    ASSUME Base, Desafios, NEW p \in Solicitudes, FallarTarde(p)
    PROVE  Desafios'
  <1>0. PICK i \in Ids, f \in Formularios : i = sol[p].id /\ f = sol[p].form
    BY DEF FallarTarde, Base, TypeOK, Peticion, Propias, ConFila, Trabajando
  <1>1. /\ sol[p].paso \in ConFila /\ sol[p].paso = "avisar"
        /\ i \in Ids /\ intentos[i].existe /\ intentos[i].permitido
        /\ intentos[i].uso = "hecho" /\ intentos[i].form = f /\ f \in Formularios
    BY <1>0 DEF FallarTarde, Base, TypeOK, Peticion, Propias, Avisadas, Desafios, FilasEnCurso, ConFila
  <1>2. /\ intentos'[i].existe /\ intentos'[i].permitido = intentos[i].permitido
        /\ intentos'[i].uso = "roto"
        /\ intentos'[i].form = f /\ intentos'[i].nonce = intentos[i].nonce
        /\ \A j \in Ids : j # i => intentos'[j] = intentos[j]
    BY <1>0, <1>1, Marca DEF FallarTarde
  <1>3. /\ sol'[p].paso = "liberar" /\ sol'[p].id = i /\ sol'[p].form = f
        /\ \A q \in Solicitudes : q # p => sol'[q] = sol[q]
    BY <1>0, CambiaPaso DEF FallarTarde, Base, Pasos
  <1>4. modo' = modo /\ hechas' = hechas
    BY DEF FallarTarde
  <1>5. NoncesUnicos' /\ FilasEnCurso' /\ Guardados'
    BY <1>0, <1>1, <1>2, <1>3, <1>4, DesafiosCambia DEF Trabajando
  <1>6. ASSUME modo = "enforce", NEW g \in Formularios, g.nonce # SinHuella
        PROVE  IF \E j \in Ids : Gastada(j, g)' THEN hechas[g] = rotas'[g] + 1
                                                ELSE hechas[g] = rotas'[g]
    <2>1. CASE g = f
      <3>1. Gastada(i, f)
        BY <1>1 DEF Gastada
      <3>2. hechas[f] = rotas[f] + 1
        BY <1>1, <1>6, <2>1, <3>1 DEF Desafios, Testigos
      <3>3. \A j \in Ids : Gastada(j, f) => j = i
        BY <1>1, <1>6, <2>1, MismaFila DEF Gastada
      <3>4. \A j \in Ids : ~Gastada(j, f)'
        BY <1>2, <3>3 DEF Gastada
      <3>5. rotas'[f] = rotas[f] + 1
        BY <1>0 DEF FallarTarde, Base, TypeOK
      <3>6. QED
        BY <2>1, <3>2, <3>4, <3>5
    <2>2. CASE g # f
      <3>1. \A j \in Ids : Gastada(j, g)' <=> Gastada(j, g)
        BY <1>1, <1>2, <2>2 DEF Gastada
      <3>2. rotas'[g] = rotas[g]
        BY <1>0, <2>2 DEF FallarTarde, Base, TypeOK
      <3>3. QED
        BY <1>6, <3>1, <3>2 DEF Desafios, Testigos
    <2>3. QED
      BY <2>1, <2>2
  <1>7. Testigos'
    BY <1>4, <1>6 DEF Testigos, Ids
  <1>8. QED
    BY <1>5, <1>7 DEF Desafios

\* A request that ends gives its row back or leaves it; the rows that witness a
\* reservation stay as they are.
LEMMA DesafiosCierra ==
    ASSUME Base, Desafios, NEW p \in Solicitudes, Avisar(p) \/ Liberar(p) \/ Abandona(p)
    PROVE  Desafios'
  <1>1. modo' = modo /\ hechas' = hechas /\ rotas' = rotas /\ sol' = [sol EXCEPT ![p] = Libre]
    BY DEF Avisar, Liberar, Abandona
  <1>2. /\ \A q \in Solicitudes : q # p => sol'[q] = sol[q]
        /\ sol'[p].paso \notin ConFila /\ sol'[p].paso \notin Trabajando
        /\ sol'[p].paso # "liberar"
    BY <1>1 DEF Base, TypeOK, Libre, ConFila, Trabajando
  <1>3. /\ \A j \in Ids : j # sol[p].id => intentos'[j] = intentos[j]
        /\ \A j \in Ids : intentos'[j].existe =>
              /\ intentos[j].existe /\ intentos'[j].permitido = intentos[j].permitido
              /\ intentos'[j].nonce = intentos[j].nonce
              /\ intentos'[j].form = intentos[j].form
        /\ \A j \in Ids : (intentos'[j].existe /\ intentos'[j].uso = "hecho")
                            <=> (intentos[j].existe /\ intentos[j].uso = "hecho")
    <2>1. CASE Avisar(p)
      BY <2>1 DEF Avisar
    <2>2. CASE Liberar(p)
      <3>1. /\ sol[p].id \in Ids /\ intentos[sol[p].id].uso # "hecho"
            /\ intentos'[sol[p].id] = SinIntento /\ ~SinIntento.existe
            /\ \A j \in Ids : j # sol[p].id => intentos'[j] = intentos[j]
        BY <2>2 DEF Liberar, Borrado, Base, TypeOK, Propias, ConFila, Desafios, FilasEnCurso,
                    SinIntento
      <3>2. QED
        BY <3>1
    <2>3. CASE Abandona(p)
      BY <2>3, Abandonada
    <2>4. QED
      BY <2>1, <2>2, <2>3
  <1>4. NoncesUnicos' /\ FilasEnCurso' /\ Guardados'
    BY <1>1, <1>2, <1>3, DesafiosCambia
  <1>5. \A j \in Ids, g \in Formularios : Gastada(j, g)' <=> Gastada(j, g)
    BY <1>3 DEF Gastada
  <1>6. Testigos'
    BY <1>1, <1>5 DEF Desafios, Testigos, Ids
  <1>7. QED
    BY <1>4, <1>6 DEF Desafios

\* The insert after the count: an allowed row of the enforced guard stores the
\* challenge of its form, which no row has.
LEMMA DesafiosGuardar ==
    ASSUME Base, Desafios, NEW p \in Solicitudes, Guardar(p)
    PROVE  Desafios'
  <1> DEFINE nonce == NonceGuardado(sol[p].form, sol[p].motivo)
             permitido == Permite(sol[p].motivo)
  <1>1. PICK i \in Ids : Alta(p, i, nonce, permitido, sol[p].ahora)
    BY GuardarDa
  <1>2. permitido \in BOOLEAN /\ (modo = "enforce" /\ permitido => nonce = sol[p].form.nonce)
    BY DEF Permite, NonceGuardado
  <1>3. /\ modo' = modo /\ hechas' = hechas /\ rotas' = rotas /\ ~NonceUsado(nonce)
        /\ sol[p].paso \notin ConFila
    BY DEF Guardar, ConFila, Trabajando
  <1> HIDE DEF nonce, permitido
  <1>4. QED
    BY <1>1, <1>2, <1>3, DesafiosAlta

\* The second try of a challenge that is stored: allowed by the monitor alone.
LEMMA DesafiosRepetir ==
    ASSUME Base, Desafios, NEW p \in Solicitudes, Repetir(p)
    PROVE  Desafios'
  <1>1. /\ modo' = modo /\ hechas' = hechas /\ rotas' = rotas /\ Otros(p)
        /\ sol[p].paso \notin ConFila
    BY RepetirDa DEF Repetir, ConFila, Trabajando
  <1>2. CASE \E i \in Ids : Alta(p, i, SinHuella, PermiteReusado, reloj)
    <2>1. PICK i \in Ids : Alta(p, i, SinHuella, PermiteReusado, reloj)
      BY <1>2
    <2>2. PermiteReusado \in BOOLEAN /\ (modo = "enforce" => ~PermiteReusado)
      BY DEF PermiteReusado
    <2>3. ~NonceUsado(SinHuella)
      BY DEF NonceUsado
    <2>4. QED
      BY <1>1, <2>1, <2>2, <2>3, DesafiosAlta
  <1>3. CASE intentos' = intentos /\ sol' = [sol EXCEPT ![p] = Libre]
    <2>1. sol'[p].paso \notin ConFila
      BY <1>3 DEF Base, TypeOK, Libre, ConFila, Trabajando
    <2>2. \A q \in Solicitudes : sol'[q].paso \in ConFila => sol'[q] = sol[q]
      BY <1>1, <2>1 DEF Otros
    <2>3. QED
      BY <1>1, <1>3, <2>2, DesafiosSinFilas
  <1>4. QED
    BY <1>2, <1>3, RepetirDa

\* A request that only moves on, keeping its row or still without one.
LEMMA DesafiosAvanza ==
    ASSUME Base, Desafios, NEW p \in Solicitudes, NEW paso \in Pasos, Avanza(p, paso),
           paso \in ConFila => paso # "avisar" /\ sol[p].paso \in Trabajando,
           modo' = modo, intentos' = intentos, hechas' = hechas, rotas' = rotas
    PROVE  Desafios'
  <1>1. /\ sol'[p].paso = paso /\ sol'[p].id = sol[p].id /\ sol'[p].form = sol[p].form
        /\ \A q \in Solicitudes : q # p => sol'[q] = sol[q]
    BY CambiaPaso DEF Base
  <1>2. \A q \in Solicitudes : sol'[q].paso \in ConFila =>
           /\ sol[q].paso \in ConFila /\ sol'[q].id = sol[q].id /\ sol'[q].form = sol[q].form
           /\ sol'[q].paso \in Trabajando => sol[q].paso \in Trabajando
           /\ sol'[q].paso = "liberar" => sol[q].paso \in Trabajando \/ sol[q].paso = "liberar"
    BY <1>1 DEF ConFila
  <1>3. QED
    BY <1>2, DesafiosSinFilas

-------------------------------------------------------------------------------
\* Every step keeps the invariant.
LEMMA Paso == Invariante /\ [Next]_vars => Invariante'
  <1> SUFFICES ASSUME Invariante, [Next]_vars PROVE Base' /\ Guardias'
    BY DEF Invariante
  <1>0. Base /\ Guardias
    BY DEF Invariante
  <1>1. ASSUME NEW p \in Solicitudes, Enviar(p) PROVE Base' /\ Guardias'
    <2>1. /\ modo' = modo /\ intentos' = intentos
          /\ \A q \in Solicitudes : q # p => sol'[q] = sol[q]
          /\ sol'[p].paso # "guardar"
      BY <1>0, <1>1 DEF Enviar, Base, TypeOK
    <2>2. QED
      BY <1>0, <1>1, <2>1, EnviarBase, SinGuardar
  <1>2. ASSUME NEW p \in Solicitudes, Bloquear(p) PROVE Base' /\ Guardias'
    <2>1. modo' = modo /\ intentos' = intentos /\ sol' = sol
      BY <1>2 DEF Bloquear
    <2>2. QED
      BY <1>0, <1>2, <2>1, BloquearBase, SinConteo DEF Encoge
  <1>3. ASSUME NEW p \in Solicitudes, Contar(p) PROVE Base' /\ Guardias'
    BY <1>0, <1>3, ContarBase, ContarGuardias
  <1>4. ASSUME NEW p \in Solicitudes, Guardar(p) PROVE Base' /\ Guardias'
    BY <1>0, <1>4, GuardarBase, GuardarGuardias
  <1>5. ASSUME NEW p \in Solicitudes, Chocar(p) PROVE Base' /\ Guardias'
    BY <1>0, <1>5, ChocarBase, AvanzaGuardias DEF Chocar, Pasos
  <1>6. ASSUME NEW p \in Solicitudes, Repetir(p) PROVE Base' /\ Guardias'
    BY <1>0, <1>6, RepetirBase, RepetirGuardias
  <1>7. ASSUME NEW p \in Solicitudes, BuscarCliente(p) PROVE Base' /\ Guardias'
    BY <1>0, <1>7, BuscarBase, AvanzaGuardias DEF BuscarCliente, Pasos
  <1>8. ASSUME NEW p \in Solicitudes, CrearCliente(p) PROVE Base' /\ Guardias'
    BY <1>0, <1>8, CrearBase, AvanzaGuardias DEF CrearCliente, Pasos
  <1>9. ASSUME NEW p \in Solicitudes, Fallar(p) PROVE Base' /\ Guardias'
    BY <1>0, <1>9, FallarBase, AvanzaGuardias DEF Fallar, Pasos
  <1>10. ASSUME NEW p \in Solicitudes,
                \/ Reservar(p) \/ FallarTarde(p) \/ Avisar(p) \/ Liberar(p) \/ Abandona(p)
         PROVE  Base' /\ Guardias'
    BY <1>0, <1>10, ReservarBase, FallarTardeBase, AvisarBase, LiberarBase, AbandonaBase,
       CierraGuardias
  <1>11. ASSUME PedirDesafio \/ Tic \/ UNCHANGED vars PROVE Base' /\ Guardias'
    <2>1. UNCHANGED <<modo, intentos, candado, clientes, hechas, rotas, sol>>
      BY <1>11 DEF PedirDesafio, Tic, vars
    <2>2. emitido' \in [Nonces -> Nat \cup {-1}] /\ reloj' \in Nat
      BY <1>0, <1>11 DEF PedirDesafio, Tic, vars, Base, TypeOK
    <2>3. TypeOK'
      BY <1>0, <2>1, <2>2 DEF Base, TypeOK
    <2>4. ConCandados' /\ Propias' /\ Avisadas' /\ CupoJustificado'
      BY <1>0, <2>1 DEF Base, ConCandados, Propias, Avisadas, CupoJustificado, Tiene, Claves, Ids
    <2>5. Guardias'
      BY <1>0, <2>1, SinConteo DEF Encoge
    <2>6. QED
      BY <2>3, <2>4, <2>5 DEF Base
  <1>12. QED
    BY <1>1, <1>2, <1>3, <1>4, <1>5, <1>6, <1>7, <1>8, <1>9, <1>10, <1>11
    DEF Next, Avance, FallarAuditoria, Caer

LEMMA Siempre == Spec => []Invariante
  <1>1. QED
    BY Inicial, Paso, PTL DEF Spec

\* The challenges in every step.
LEMMA PasoDesafios == Base /\ Desafios /\ [Next]_vars => Desafios'
  <1> SUFFICES ASSUME Base, Desafios, [Next]_vars PROVE Desafios'
    OBVIOUS
  <1>1. ASSUME NEW p \in Solicitudes, Enviar(p) PROVE Desafios'
    <2>1. /\ modo' = modo /\ intentos' = intentos /\ hechas' = hechas /\ rotas' = rotas
          /\ \A q \in Solicitudes : q # p => sol'[q] = sol[q]
          /\ sol'[p].paso \notin ConFila
      BY <1>1 DEF Enviar, Base, TypeOK, ConFila, Trabajando
    <2>2. \A q \in Solicitudes : sol'[q].paso \in ConFila => sol'[q] = sol[q]
      BY <2>1
    <2>3. QED
      BY <2>1, <2>2, DesafiosSinFilas
  <1>2. ASSUME NEW p \in Solicitudes, Bloquear(p) PROVE Desafios'
    BY <1>2, DesafiosSinFilas DEF Bloquear
  <1>3. ASSUME NEW p \in Solicitudes, Contar(p) PROVE Desafios'
    <2>1. /\ modo' = modo /\ intentos' = intentos /\ hechas' = hechas /\ rotas' = rotas
          /\ \A q \in Solicitudes : q # p => sol'[q] = sol[q]
          /\ sol'[p].paso \notin ConFila
      BY <1>3, Conto DEF Contar, Base, ConFila, Trabajando
    <2>2. \A q \in Solicitudes : sol'[q].paso \in ConFila => sol'[q] = sol[q]
      BY <2>1
    <2>3. QED
      BY <2>1, <2>2, DesafiosSinFilas
  <1>4. ASSUME NEW p \in Solicitudes, Chocar(p) PROVE Desafios'
    BY <1>4, DesafiosAvanza DEF Chocar, Pasos, ConFila, Trabajando
  <1>5. ASSUME NEW p \in Solicitudes, BuscarCliente(p) PROVE Desafios'
    BY <1>5, DesafiosAvanza DEF BuscarCliente, Pasos, ConFila, Trabajando
  <1>6. ASSUME NEW p \in Solicitudes, CrearCliente(p) PROVE Desafios'
    BY <1>6, DesafiosAvanza DEF CrearCliente, Pasos, ConFila, Trabajando
  <1>7. ASSUME NEW p \in Solicitudes, Fallar(p) PROVE Desafios'
    BY <1>7, DesafiosAvanza DEF Fallar, Pasos, ConFila, Trabajando
  <1>8. ASSUME NEW p \in Solicitudes,
               \/ Guardar(p) \/ Repetir(p) \/ Reservar(p) \/ FallarTarde(p)
               \/ Avisar(p) \/ Liberar(p) \/ Abandona(p)
        PROVE  Desafios'
    BY <1>8, DesafiosGuardar, DesafiosRepetir, DesafiosReservar, DesafiosTarde, DesafiosCierra
  <1>9. ASSUME PedirDesafio \/ Tic \/ UNCHANGED vars PROVE Desafios'
    BY <1>9, DesafiosSinFilas DEF PedirDesafio, Tic, vars
  <1>10. QED
    BY <1>1, <1>2, <1>3, <1>4, <1>5, <1>6, <1>7, <1>8, <1>9
    DEF Next, Avance, FallarAuditoria, Caer

LEMMA InicialDesafios == Init => Desafios
  <1> SUFFICES ASSUME Init PROVE Desafios
    OBVIOUS
  <1>1. \A i \in Ids : intentos[i] = SinIntento
    BY DEF Init
  <1>2. ~SinIntento.existe
    BY DEF SinIntento
  <1>3. \A p \in Solicitudes : sol[p].paso \notin ConFila
    BY DEF Init, Libre, ConFila, Trabajando
  <1>4. \A g \in Formularios : hechas[g] = rotas[g] /\ \A i \in Ids : ~Gastada(i, g)
    BY <1>1, <1>2 DEF Init, Gastada
  <1>5. NoncesUnicos /\ Guardados
    BY <1>1, <1>2 DEF NoncesUnicos, Guardados
  <1>6. FilasEnCurso
    BY <1>3 DEF FilasEnCurso, ConFila
  <1>7. Testigos
    BY <1>4 DEF Testigos
  <1>8. QED
    BY <1>5, <1>6, <1>7 DEF Desafios

LEMMA SiempreDesafios == Spec => [](Base /\ Desafios)
  <1>1. Invariante => Base
    BY DEF Invariante
  <1>2. QED
    BY <1>1, InicialDesafios, PasoDesafios, Siempre, PTL DEF Spec

-------------------------------------------------------------------------------
\* Rows, locks and requests have their types (intento_publico_repository.py:86).
THEOREM PortalTipado == Spec => []TypeOK
  <1>1. Invariante => TypeOK
    BY DEF Invariante, Base
  <1>2. QED
    BY <1>1, Siempre, PTL

\* A quota is consumed by a reservation, by a request in flight, or by one that ended
\* without its clean-up, never by one that failed (publico_routes.py:129).
THEOREM ElCupoSeJustifica == Spec => []CupoJustificado
  <1>1. Invariante => CupoJustificado
    BY DEF Invariante, Base
  <1>2. QED
    BY <1>1, Siempre, PTL

\* However the requests of one address, contact or browser interleave, no window
\* holds more allowed attempts than the quota (intento_publico_repository.py:73).
THEOREM LaCuotaSeRespeta == Spec => []CuotaPorVentana
  <1>1. ASSUME Invariante, modo = "enforce", NEW f \in Formularios, NEW t \in 0..reloj
        PROVE  /\ Cardinality({i \in Ids : /\ intentos[i].existe /\ intentos[i].permitido
                                           /\ intentos[i].form["ip"] = f["ip"]
                                           /\ intentos[i].creado \in t..(t + Hora)}) <= LimiteIp
               /\ Cardinality({i \in Ids : /\ intentos[i].existe /\ intentos[i].permitido
                                           /\ intentos[i].form["contacto"] = f["contacto"]
                                           /\ intentos[i].creado \in t..(t + Dia)}) <= LimiteContacto
               /\ f.cliente # SinHuella =>
                  Cardinality({i \in Ids : /\ intentos[i].existe /\ intentos[i].permitido
                                           /\ intentos[i].form["cliente"] = f["cliente"]
                                           /\ intentos[i].creado \in t..(t + Hora)}) <= LimiteCliente
    <2>1. t \in Nat /\ f["ip"] # SinHuella /\ f["contacto"] # SinHuella
      BY <1>1, ConstantesDelPortal DEF Invariante, Base, TypeOK
    <2>2. /\ Cuota("ip", Hora, LimiteIp) /\ Cuota("contacto", Dia, LimiteContacto)
          /\ Cuota("cliente", Hora, LimiteCliente)
      BY <1>1 DEF Invariante, Guardias, Guardia
    <2>3. QED
      BY <2>1, <2>2 DEF Cuota, Usadas
  <1>2. Invariante => CuotaPorVentana
    BY <1>1 DEF CuotaPorVentana
  <1>3. QED
    BY <1>2, Siempre, PTL

\* The forms are finitely many: each is told by its five values.
LEMMA FormulariosFinitos == IsFiniteSet(Formularios)
  <1> DEFINE H == Huellas \cup {SinHuella}
             B == BOOLEAN
             P1 == H \X B
             P2 == H \X P1
             P3 == H \X P2
             P4 == H \X P3
             g == [f \in Formularios |-> <<f.ip, <<f.contacto, <<f.cliente, <<f.nonce, f.trampa>>>>>>>>]
  <1>1. IsFiniteSet(H)
    BY ConstantesDelPortal, FS_AddElement
  <1>2. IsFiniteSet(B)
    <2>1. IsFiniteSet({TRUE}) /\ B = {TRUE} \cup {FALSE}
      BY FS_Singleton
    <2>2. QED
      BY <2>1, FS_AddElement
  <1>3. \A f \in Formularios :
           /\ f \in [ip : H, contacto : H, cliente : H, nonce : H, trampa : B]
           /\ <<f.ip, <<f.contacto, <<f.cliente, <<f.nonce, f.trampa>>>>>>>> \in P4
    BY ConstantesDelPortal
  <1>4. g \in Injection(Formularios, P4)
    <2>1. g \in [Formularios -> P4]
      BY <1>3
    <2>2. ASSUME NEW x \in Formularios, NEW y \in Formularios, g[x] = g[y]
          PROVE  x = y
      <3>1. /\ x.ip = y.ip /\ x.contacto = y.contacto /\ x.cliente = y.cliente
            /\ x.nonce = y.nonce /\ x.trampa = y.trampa
        BY <2>2
      <3>2. \A r \in [ip : H, contacto : H, cliente : H, nonce : H, trampa : B] :
               r = [ip |-> r.ip, contacto |-> r.contacto, cliente |-> r.cliente,
                    nonce |-> r.nonce, trampa |-> r.trampa]
        OBVIOUS
      <3>3. /\ x = [ip |-> x.ip, contacto |-> x.contacto, cliente |-> x.cliente,
                    nonce |-> x.nonce, trampa |-> x.trampa]
            /\ y = [ip |-> y.ip, contacto |-> y.contacto, cliente |-> y.cliente,
                    nonce |-> y.nonce, trampa |-> y.trampa]
        BY <1>3, <3>2, Zenon
      <3>4. QED
        BY <3>1, <3>3, Zenon
    <2>3. QED
      BY <2>1, <2>2 DEF Injection, IsInjective
  <1> HIDE DEF H, B
  <1>5. IsFiniteSet(P1)
    BY <1>1, <1>2, FS_Product
  <1> HIDE DEF P1
  <1>6. IsFiniteSet(P2)
    BY <1>1, <1>5, FS_Product
  <1> HIDE DEF P2
  <1>7. IsFiniteSet(P3)
    BY <1>1, <1>6, FS_Product
  <1> HIDE DEF P3
  <1>8. IsFiniteSet(P4)
    BY <1>1, <1>7, FS_Product
  <1> HIDE DEF P4, g
  <1>9. QED
    BY <1>4, <1>8, FS_Injection

\* Requests that carry one challenge, retries, releases, second tries and errors
\* after the commit, in any order: the enforced guard lets one reservation come from
\* it besides those whose request raised with the booking made
\* (intento_publico_repository.py:123, publico_routes.py:129).
THEOREM ElDesafioSeGastaUnaVez == Spec => []UnaPorDesafio
  <1>1. ASSUME Base, Desafios, modo = "enforce", NEW n \in Nonces
        PROVE  MapThenSumSet(LAMBDA f : Firmes[f], {f \in Formularios : f.nonce = n}) <= 1
    <2> DEFINE S == {f \in Formularios : f.nonce = n}
    <2>1. MapThenSumSet(LAMBDA f : Firmes[f], S) = Total(Firmes, S)
      BY DEF MapThenSumSet, MapThenFoldSet, Total, Acumula, Elige
    <2>2. n # SinHuella
      BY ConstantesDelPortal
    <2>3. S \in SUBSET Formularios /\ \A f \in S : f.nonce = n
      OBVIOUS
    <2> HIDE DEF S
    <2>4. IsFiniteSet(S)
      BY <2>3, FormulariosFinitos, FS_Subset
    <2>5. \A f \in S : /\ f \in Formularios /\ f.nonce # SinHuella
                       /\ hechas[f] \in Nat /\ rotas[f] \in Nat
      BY <1>1, <2>2, <2>3 DEF Base, TypeOK
    <2>6. \A f \in S : hechas[f] = rotas[f] \/ hechas[f] = rotas[f] + 1
      BY <1>1, <2>5 DEF Desafios, Testigos
    <2>7. \A f \in S : Firmes[f] = hechas[f] - rotas[f]
      BY <2>5 DEF Firmes
    <2>8. \A f \in S : Firmes[f] \in {0, 1} /\ (Firmes[f] = 1 => hechas[f] # rotas[f])
      BY <2>5, <2>6, <2>7
    <2>9. \A f, g \in S : Firmes[f] = 1 /\ Firmes[g] = 1 => f = g
      BY <1>1, <2>2, <2>3, <2>8, MismoTestigo
    <2> HIDE DEF Firmes
    <2>10. Total(Firmes, S) <= 1
      BY <2>4, <2>8, <2>9, TotalUno
    <2>11. QED
      BY <2>1, <2>10 DEF S
  <1>2. Base /\ Desafios => UnaPorDesafio
    BY <1>1 DEF UnaPorDesafio
  <1>3. QED
    BY <1>2, SiempreDesafios, PTL

-------------------------------------------------------------------------------
\* Retry-After.

LEMMA EnContadas ==
    ASSUME NEW campo, NEW valor, NEW ahora, NEW ventana, NEW i
    PROVE  i \in Contadas(campo, valor, ahora, ventana) <=>
              /\ i \in Ids /\ intentos[i].existe /\ intentos[i].permitido
              /\ intentos[i].form[campo] = valor
              /\ intentos[i].creado >= ahora - ventana
  BY Zenon DEF Contadas

\* A full quota stays full to the announced second and has room past it.
LEMMA EsperaExacta ==
    ASSUME TypeOK, NEW campo, NEW valor, NEW ventana \in Nat, NEW limite \in Nat \ {0},
           Excedida(campo, valor, reloj, ventana, limite)
    PROVE  /\ \A u \in 0..(Espera(campo, valor, reloj, ventana, limite) - 1) :
                  Excedida(campo, valor, reloj + u, ventana, limite)
           /\ ~Excedida(campo, valor,
                        reloj + Espera(campo, valor, reloj, ventana, limite) + 1, ventana, limite)
  <1> DEFINE F == Contadas(campo, valor, reloj, ventana)
             c == [i \in F |-> intentos[i].creado]
             Desde(t) == {i \in F : intentos[i].creado >= t}
             Tras(t) == {i \in F : intentos[i].creado > t}
             T == {intentos[i].creado : i \in F}
             P(t) == t \in T /\ Cardinality(Desde(t)) >= limite /\ Cardinality(Tras(t)) < limite
             t0 == CHOOSE t : P(t)
             s == Espera(campo, valor, reloj, ventana, limite)
  <1>1. /\ F \in SUBSET Ids /\ reloj \in Nat
        /\ \A i \in Ids : intentos[i].creado \in Nat
        /\ \A i \in F : intentos[i].creado \in Nat /\ intentos[i].creado >= reloj - ventana
    BY DEF TypeOK, Intento, Contadas
  <1>2. Cardinality(F) >= limite /\ valor # SinHuella
    BY DEF Excedida
  <1>3. \A ahora : Contadas(campo, valor, ahora, ventana) \in SUBSET Ids
    BY DEF Contadas
  <1>4. \E t : P(t)
    <2>1. IsFiniteSet(F)
      BY <1>1, MenosFilas
    <2>2. c \in [F -> Int] /\ \A i \in F : c[i] = intentos[i].creado
      BY <1>1
    <2>3. \E t \in {c[i] : i \in F} : /\ Cardinality({i \in F : c[i] >= t}) >= limite
                                     /\ Cardinality({i \in F : c[i] > t}) < limite
      <3> HIDE DEF F, c
      <3>1. QED
        BY <1>2, <2>1, <2>2, Umbral
    <2>4. /\ {c[i] : i \in F} = T
          /\ \A t : {i \in F : c[i] >= t} = Desde(t) /\ {i \in F : c[i] > t} = Tras(t)
      BY <2>2
    <2> HIDE DEF F, c, T, Desde, Tras
    <2>5. QED
      BY <2>3, <2>4
  <1>5. s = Max({1, t0 + ventana - reloj})
    BY DEF Espera
  <1>6. P(t0)
    <2> HIDE DEF P
    <2>1. QED
      BY <1>4, Zenon
  <1>7. t0 \in Nat /\ t0 >= reloj - ventana
    <2> HIDE DEF t0, F
    <2>1. t0 \in T
      BY <1>6
    <2>2. QED
      BY <1>1, <2>1
  <1> HIDE DEF P, t0
  <1>8. s \in Nat \ {0} /\ s >= t0 + ventana - reloj /\ (s = 1 \/ s = t0 + ventana - reloj)
    <2>1. t0 + ventana - reloj \in Int
      BY <1>1, <1>7
    <2>2. s = IF 1 >= t0 + ventana - reloj THEN 1 ELSE t0 + ventana - reloj
      BY <1>5, <2>1, MaxDos
    <2>3. QED
      BY <2>1, <2>2
  <1> HIDE DEF s
  <1>9. ASSUME NEW u \in 0..(s - 1)
         PROVE  Excedida(campo, valor, reloj + u, ventana, limite)
    <2>1. CASE u = 0
      BY <1>1, <2>1
    <2>2. CASE u # 0
      <3> DEFINE G == Contadas(campo, valor, reloj + u, ventana)
                 D == Desde(t0)
      <3>1. s = t0 + ventana - reloj /\ reloj + u \in Int /\ t0 >= (reloj + u) - ventana
        BY <1>1, <1>7, <1>8, <2>2
      <3>2. D \in SUBSET G
        <4>1. ASSUME NEW i \in D PROVE i \in G
          <5>1. /\ i \in Ids /\ intentos[i].existe /\ intentos[i].permitido
                /\ intentos[i].form[campo] = valor /\ intentos[i].creado >= t0
                /\ intentos[i].creado \in Nat
            BY <1>1, <4>1 DEF Contadas
          <5>2. intentos[i].creado >= (reloj + u) - ventana
            BY <1>1, <1>7, <3>1, <5>1
          <5>3. QED
            BY <5>1, <5>2, EnContadas, Zenon
        <4>2. QED
          BY <4>1
      <3>3. Cardinality(D) >= limite
        BY <1>6 DEF P
      <3>4. G \in SUBSET Ids
        BY <1>3
      <3> HIDE DEF G, D
      <3>5. Cardinality(G) >= limite
        BY <3>2, <3>3, <3>4, MenosFilas
      <3>6. QED
        BY <1>2, <3>5 DEF Excedida, G
    <2>3. QED
      BY <2>1, <2>2
  <1>10. ~Excedida(campo, valor, reloj + s + 1, ventana, limite)
    <2> DEFINE G == Contadas(campo, valor, reloj + s + 1, ventana)
               D == Tras(t0)
    <2>1. reloj + s + 1 \in Int
      BY <1>1, <1>8
    <2>2. G \in SUBSET D
      <3>1. ASSUME NEW i \in G PROVE i \in D
        <4>1. /\ i \in Ids /\ intentos[i].existe /\ intentos[i].permitido
              /\ intentos[i].form[campo] = valor
              /\ intentos[i].creado >= (reloj + s + 1) - ventana
          <5>1. i \in Contadas(campo, valor, reloj + s + 1, ventana)
            BY <3>1
          <5>2. i \in Contadas(campo, valor, reloj + s + 1, ventana) <=>
                   /\ i \in Ids /\ intentos[i].existe /\ intentos[i].permitido
                   /\ intentos[i].form[campo] = valor
                   /\ intentos[i].creado >= (reloj + s + 1) - ventana
            BY EnContadas
          <5>3. QED
            BY <5>1, <5>2, Zenon
        <4>2. intentos[i].creado >= reloj - ventana /\ intentos[i].creado > t0
          BY <1>1, <1>7, <1>8, <4>1
        <4>3. i \in F
          BY <1>1, <4>1, <4>2 DEF Contadas
        <4>4. QED
          BY <4>2, <4>3
      <3>2. QED
        BY <3>1
    <2>3. Cardinality(D) < limite /\ D \in SUBSET Ids
      BY <1>1, <1>6 DEF P
    <2> HIDE DEF G, D
    <2>4. Cardinality(G) <= Cardinality(D) /\ Cardinality(G) \in Nat /\ Cardinality(D) \in Nat
      BY <2>2, <2>3, MenosFilas
    <2>5. ~(Cardinality(G) >= limite)
      BY <2>3, <2>4
    <2>6. QED
      BY <2>5 DEF Excedida, G
  <1>11. QED
    BY <1>9, <1>10 DEF s

\* The announced wait is the exact one, whatever rows the releases have deleted
\* (intento_publico_repository.py:54).
THEOREM LaEsperaEsReal == Spec => []EsperaReal
  <1>1. ASSUME TypeOK, NEW f \in Formularios, NEW campo, NEW ventana \in Nat,
               NEW limite \in Nat \ {0}, Excedida(campo, f[campo], reloj, ventana, limite)
        PROVE  LET s == Espera(campo, f[campo], reloj, ventana, limite)
               IN  /\ \A u \in 0..(s - 1) :
                         Excedida(campo, f[campo], reloj + u, ventana, limite)
                   /\ ~Excedida(campo, f[campo], reloj + s + 1, ventana, limite)
    BY <1>1, EsperaExacta
  <1>2. TypeOK => EsperaReal
    BY <1>1, Constantes DEF EsperaReal
  <1>3. QED
    BY <1>2, PortalTipado, PTL

===============================================================================

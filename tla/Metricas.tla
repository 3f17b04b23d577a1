-------------------------------- MODULE Metricas --------------------------------
(***************************************************************************)
(* The metrics of a process: the requests in course, a window of the last  *)
(* answers, and the verdict on the objectives.  The middleware counts a    *)
(* request when it begins and when it ends, also if it raises; the         *)
(* cancellation of its task is no Exception, and is not counted as an end. *)
(*                                                                         *)
(* Each count is a step: the middleware runs in the event loop, and the    *)
(* lock keeps apart from it the thread that asks for a summary.            *)
(***************************************************************************)
EXTENDS Integers, Sequences, FiniteSets, FiniteSetsExt, Redondeos

CONSTANTS
    Atendidas,       \* requests
    MaxMuestras,     \* sample_limit
    CodigosHttp,     \* statuses that the application answers
    Duraciones,      \* milliseconds, after max(0, duration_ms)
    LatenciaObjetivo,   \* latency_p95_ms
    MaxVida          \* bound on the requests that end

ASSUME ConstantesDeMetricas ==
    /\ MaxMuestras \in Nat \ {0}
    /\ CodigosHttp \subseteq Nat /\ Duraciones \subseteq Nat
    /\ LatenciaObjetivo \in Nat /\ MaxVida \in Nat

VARIABLES
    enCurso,       \* requests between begin and finish
    activas,       \* _active
    muestras,      \* _samples
    vida,          \* _requests_lifetime
    ultimoFallo,   \* _last_server_error_at, as the lifetime count of that request
    perdidas,      \* history: requests cancelled
    todas          \* history: every sample

varsMetricas == <<enCurso, activas, muestras, vida, ultimoFallo, perdidas, todas>>

-------------------------------------------------------------------------------
Muestra == [estado : CodigosHttp \cup {500}, ms : Duraciones]

\* deque(maxlen); the variant forgets to drop.
SinLimite(s, m) == Append(s, m)

Anota(s, m) == LET t == Append(s, m)
               IN  IF Len(t) > MaxMuestras THEN Tail(t) ELSE t

\* status_code // 100 between 1 and 5
Grupo100(m) == Max({1, Min({5, m.estado \div 100})})

Fallo(m) == m.estado >= 500

\* sorted(values)[indice], by the values before it and those not after.
EnOrden(ms, indice) ==
    CHOOSE v \in Range(ms) :
        /\ Cardinality({i \in DOMAIN ms : ms[i] < v}) <= indice
        /\ Cardinality({i \in DOMAIN ms : ms[i] <= v}) > indice

\* _percentile
Percentil(ms, porcentaje) ==
    LET n == Len(ms)
    IN  IF n = 0 THEN 0
        ELSE EnOrden(ms, Min({n - 1, RedondeoPar((n - 1) * porcentaje, 100)}))

EnGrupo(g) == {i \in DOMAIN muestras : Grupo100(muestras[i]) = g}

Fallidas == {i \in DOMAIN muestras : Fallo(muestras[i])}

\* snapshot; the two rates are compared without their division by the total.
Resumen ==
    LET total == Len(muestras)
        fallos == Cardinality(Fallidas)
        ms == [i \in DOMAIN muestras |-> muestras[i].ms]
    IN  [total |-> total,
         porGrupo |-> [g \in 1..5 |-> Cardinality(EnGrupo(g))],
         p50 |-> Percentil(ms, 50), p95 |-> Percentil(ms, 95),
         maximo |-> IF ms = <<>> THEN 0 ELSE Max(Range(ms)),
         disponibilidad |-> 1000 * (total - fallos) >= 995 * total,
         errores |-> 100 * fallos <= total,
         latencia |-> Percentil(ms, 95) <= LatenciaObjetivo]

Saludable == Resumen.disponibilidad /\ Resumen.errores /\ Resumen.latencia

-------------------------------------------------------------------------------
InitMetricas ==
    /\ enCurso = {}
    /\ activas = 0 /\ vida = 0 /\ ultimoFallo = 0 /\ perdidas = 0
    /\ muestras = <<>> /\ todas = <<>>

Comenzar ==
    \E p \in Atendidas \ enCurso :
        /\ vida + perdidas < MaxVida
        /\ enCurso' = enCurso \cup {p}
        /\ activas' = activas + 1
        /\ UNCHANGED <<muestras, vida, ultimoFallo, perdidas, todas>>

\* finish: the status of the answer, or 500 if the application raised or never began
\* to answer.
Acabar ==
    \E p \in enCurso, m \in Muestra :
        /\ enCurso' = enCurso \ {p}
        /\ activas' = Max({0, activas - 1})
        /\ vida' = vida + 1
        /\ muestras' = Anota(muestras, m)
        /\ ultimoFallo' = IF Fallo(m) THEN vida + 1 ELSE ultimoFallo
        /\ todas' = Append(todas, m)
        /\ UNCHANGED perdidas

\* CancelledError passes by "except Exception".
Cancelar ==
    \E p \in enCurso :
        /\ enCurso' = enCurso \ {p}
        /\ perdidas' = perdidas + 1
        /\ UNCHANGED <<activas, muestras, vida, ultimoFallo, todas>>

NextMetricas == Comenzar \/ Acabar \/ Cancelar

SpecMetricas == InitMetricas /\ [][NextMetricas]_varsMetricas

-------------------------------------------------------------------------------
\* Counters and window have their types.
TypeMetricas ==
    /\ enCurso \subseteq Atendidas
    /\ {activas, vida, ultimoFallo, perdidas} \subseteq Nat
    /\ muestras \in Seq(Muestra) /\ todas \in Seq(Muestra)

\* The summary tells the truth of the last requests: the counter in course is never
\* below those that are, and exceeds them by the cancelled ones, for ever; the window
\* is the last answers and its groups add up to it; it holds a failure exactly when
\* the last one is that recent; no more than a twentieth of the samples, and half of
\* one by the rounding, are slower than p95; and a process that misses the objective
\* of errors misses that of availability too (metrics.py:37-121, observability.py:66).
MetricasFieles ==
    LET r == Resumen
        lentas == Cardinality({i \in DOMAIN muestras : muestras[i].ms > r.p95})
    IN  /\ activas = Cardinality(enCurso) + perdidas
        /\ vida = Len(todas) /\ r.total = Min({vida, MaxMuestras})
        /\ muestras = SubSeq(todas, vida - r.total + 1, vida)
        /\ r.porGrupo[1] + r.porGrupo[2] + r.porGrupo[3] + r.porGrupo[4] + r.porGrupo[5] = r.total
        /\ r.porGrupo[5] > 0 <=> ultimoFallo > 0 /\ vida - ultimoFallo < r.total
        /\ r.p50 <= r.p95 /\ r.p95 <= r.maximo
        /\ r.total > 0 => 100 * lentas <= 5 * (r.total - 1) + 50
        /\ r.disponibilidad => r.errores
        /\ Saludable => r.porGrupo[5] = 0 \/ r.total >= 200
===============================================================================

------------------------------- MODULE Limitadores -------------------------------
(***************************************************************************)
(* The rate limiters in memory: a sliding window by key, and the adaptive  *)
(* one, which blocks a key that comes back before its window is free for   *)
(* twice as long each time.                                                *)
(*                                                                         *)
(* Threads share them.  Each reads the clock before it takes the lock, so  *)
(* a decision may be recorded a little earlier than it is taken, and       *)
(* decisions may be recorded out of order.                                 *)
(***************************************************************************)
EXTENDS Integers, FiniteSets, FiniteSetsExt

CONSTANTS
    Simples,        \* keys of RateLimiter (login and reads of the portal)
    Conexiones,     \* keys of AdaptiveRateLimiter by address
    Contactos,      \* keys of AdaptiveRateLimiter by contact
    Hilos,          \* threads
    SinClave,       \* a thread without request
    MaxLlamadas,    \* calls a window admits
    Ventana,        \* length of the window
    Inicial, Maxima,  \* penalty of the first offence, and its limit
    Demora,         \* bound on the time between a reading of the clock and its lock
    MaxPeticiones,  \* bound on the requests
    MaxInstante     \* bound on the clock

ASSUME ConstantesDeLimites ==
    /\ SinClave \notin Simples \cup Conexiones \cup Contactos
    /\ {MaxLlamadas, Ventana, Inicial} \subseteq Nat \ {0}
    /\ {Maxima, MaxPeticiones, MaxInstante} \subseteq Nat
    /\ Demora \in 0..(Ventana - 1)

VARIABLES
    llamadas,      \* _llamadas: the admitted calls still kept
    turnos,        \* the admissions of each key so far, which number its calls
    bloqueado,     \* _bloqueado_hasta
    infracciones,  \* _infracciones
    hilo,          \* what each thread has in hand
    admitidas,     \* history: when each admission of the last window was decided
    peticiones,    \* requests so far
    instante       \* time.time()

varsLimites == <<llamadas, turnos, bloqueado, infracciones, hilo, admitidas, peticiones, instante>>

-------------------------------------------------------------------------------
Adaptativas == Conexiones \cup Contactos

ClavesLimitadas == Simples \cup Adaptativas

\* An element of the list of a key, by its place in it and the reading of the clock.
Anotada == [turno : Nat, hora : Nat]

\* A booking has its contact to pass after its address.  A refused call ends in
\* its decision: the wait that exigir_limite then announces is Segundos, whenever
\* it is asked.
Hilo == [paso : {"libre", "decidir", "sigue"},
         clave : ClavesLimitadas \cup {SinClave},
         luego : Contactos \cup {SinClave}, ahora : Nat]

HiloLibre == [paso |-> "libre", clave |-> SinClave, luego |-> SinClave, ahora |-> 0]

\* recientes; the variant forgets the calls stamped later than its own clock.
SoloPasadas(k, ahora) == {c \in llamadas[k] : ahora - c.hora \in 0..(Ventana - 1)}

Recientes(k, ahora) == {c \in llamadas[k] : ahora - c.hora < Ventana}

\* A key without recent calls starts again; the variant never forgets.
SinOlvido(k, ahora) == FALSE

Olvida(k, ahora) == Recientes(k, ahora) = {}

Penalizacion(n) == Min({Inicial * 2 ^ (n - 1), Maxima})

Admite(k, ahora) ==
    /\ bloqueado[k] <= ahora
    /\ Cardinality(Recientes(k, ahora)) < MaxLlamadas

\* min(llamadas); the variant trusts the order of the list.
Primera(k, ahora) ==
    LET c == CHOOSE c \in Recientes(k, ahora) :
                \A d \in Recientes(k, ahora) : c.turno <= d.turno
    IN  c.hora

MasVieja(k, ahora) == Min({c.hora : c \in Recientes(k, ahora)})

\* segundos_para_reintentar
Segundos(k, ahora) ==
    IF bloqueado[k] > ahora THEN bloqueado[k] - ahora
    ELSE IF Cardinality(Recientes(k, ahora)) < MaxLlamadas THEN 0
    ELSE Max({0, Ventana - (ahora - MasVieja(k, ahora))})

-------------------------------------------------------------------------------
InitLimites ==
    /\ llamadas = [k \in ClavesLimitadas |-> {}]
    /\ turnos = [k \in ClavesLimitadas |-> 0]
    /\ bloqueado = [k \in ClavesLimitadas |-> 0]
    /\ infracciones = [k \in ClavesLimitadas |-> 0]
    /\ hilo = [h \in Hilos |-> HiloLibre]
    /\ admitidas = [k \in ClavesLimitadas |-> {}]
    /\ peticiones = 0
    /\ instante = 0

\* permitido begins: ahora = self._reloj(), before the lock.
Empieza(k, luego) ==
    [paso |-> "decidir", clave |-> k, luego |-> luego, ahora |-> instante]

\* limitar_login and limitar_publico ask for one key, limitar_reservacion_publica
\* for two.
Llega(h) ==
    /\ hilo[h].paso = "libre"
    /\ peticiones < MaxPeticiones
    /\ peticiones' = peticiones + 1
    /\ \/ \E k \in Simples : hilo' = [hilo EXCEPT ![h] = Empieza(k, SinClave)]
       \/ \E k \in Conexiones, c \in Contactos : hilo' = [hilo EXCEPT ![h] = Empieza(k, c)]
    /\ UNCHANGED <<llamadas, turnos, bloqueado, infracciones, admitidas, instante>>

\* The second call of limitar_reservacion_publica.
Sigue(h) ==
    /\ hilo[h].paso = "sigue"
    /\ hilo' = [hilo EXCEPT ![h] = Empieza(hilo[h].luego, SinClave)]
    /\ UNCHANGED <<llamadas, turnos, bloqueado, infracciones, admitidas, peticiones, instante>>

\* permitido, under the lock: admitted.
Admitir(h) ==
    LET k == hilo[h].clave
        ahora == hilo[h].ahora
        nueva == [turno |-> turnos[k] + 1, hora |-> ahora]
    IN  /\ hilo[h].paso = "decidir"
        /\ Admite(k, ahora)
        /\ turnos' = [turnos EXCEPT ![k] = @ + 1]
        /\ llamadas' = [llamadas EXCEPT ![k] = Recientes(k, ahora) \cup {nueva}]
        /\ admitidas' = [admitidas EXCEPT ![k] =
              {a \in @ : a.decidida > instante - Ventana}
                \cup {[llamada |-> nueva, decidida |-> instante]}]
        /\ IF Olvida(k, ahora)
           THEN /\ infracciones' = [infracciones EXCEPT ![k] = 0]
                /\ bloqueado' = [bloqueado EXCEPT ![k] = 0]
           ELSE UNCHANGED <<infracciones, bloqueado>>
        /\ hilo' = [hilo EXCEPT ![h] =
              IF hilo[h].luego = SinClave THEN HiloLibre
              ELSE [HiloLibre EXCEPT !.paso = "sigue", !.luego = hilo[h].luego]]
        /\ UNCHANGED <<peticiones, instante>>

\* permitido, under the lock: still blocked, nothing is touched.
Bloqueado(h) ==
    /\ hilo[h].paso = "decidir"
    /\ bloqueado[hilo[h].clave] > hilo[h].ahora
    /\ hilo' = [hilo EXCEPT ![h] = HiloLibre]
    /\ UNCHANGED <<llamadas, turnos, bloqueado, infracciones, admitidas, peticiones, instante>>

\* permitido, under the lock: the window is full; the adaptive one punishes.
Rechazar(h) ==
    LET k == hilo[h].clave
        ahora == hilo[h].ahora
    IN  /\ hilo[h].paso = "decidir"
        /\ bloqueado[k] <= ahora
        /\ Cardinality(Recientes(k, ahora)) >= MaxLlamadas
        /\ llamadas' = [llamadas EXCEPT ![k] = Recientes(k, ahora)]
        /\ IF k \in Adaptativas
           THEN /\ infracciones' = [infracciones EXCEPT ![k] = @ + 1]
                /\ bloqueado' = [bloqueado EXCEPT ![k] = ahora + Penalizacion(infracciones[k] + 1)]
           ELSE UNCHANGED <<infracciones, bloqueado>>
        /\ hilo' = [hilo EXCEPT ![h] = HiloLibre]
        /\ UNCHANGED <<turnos, admitidas, peticiones, instante>>

\* The clock; no thread sits longer than Demora between its reading and the lock.
Pasa ==
    /\ instante < MaxInstante
    /\ \A h \in Hilos : hilo[h].paso = "decidir" => instante < hilo[h].ahora + Demora
    /\ instante' = instante + 1
    /\ UNCHANGED <<llamadas, turnos, bloqueado, infracciones, hilo, admitidas, peticiones>>

NextLimites ==
    \/ \E h \in Hilos :
        Llega(h) \/ Sigue(h) \/ Admitir(h) \/ Bloqueado(h) \/ Rechazar(h)
    \/ Pasa

SpecLimites == InitLimites /\ [][NextLimites]_varsLimites

-------------------------------------------------------------------------------
\* Counters and threads have their types.
TypeLimites ==
    /\ llamadas \in [ClavesLimitadas -> SUBSET Anotada]
    /\ turnos \in [ClavesLimitadas -> Nat]
    /\ admitidas \in [ClavesLimitadas -> SUBSET [llamada : Anotada, decidida : Nat]]
    /\ bloqueado \in [ClavesLimitadas -> Int]
    /\ infracciones \in [ClavesLimitadas -> Nat]
    /\ hilo \in [Hilos -> Hilo]
    /\ {peticiones, instante} \subseteq Nat

\* Threads that read the clock in one order and decide in another do not open
\* the window: in any stretch of it, less the delay between reading and lock,
\* no more than MaxLlamadas are admitted (rate_limiter.py:46, 100).
VentanaRespetada ==
    \A k \in ClavesLimitadas, t \in 0..instante :
        Cardinality({a \in admitidas[k] : a.decidida \in t..(t + Ventana - Demora - 1)})
            <= MaxLlamadas

\* Retry-After is the least wait: before it the key is refused, and when no
\* penalty runs it is admitted then.  After a penalty it may be refused again:
\* the window is longer (rate_limiter.py:61, 131).
EsperaFiel ==
    \A k \in ClavesLimitadas :
        LET s == Segundos(k, instante)
        IN  /\ \A u \in 0..(s - 1) : ~Admite(k, instante + u)
            /\ bloqueado[k] <= instante => Admite(k, instante + s)

\* An offence counts as repeated only if the former block was shorter than the
\* window (and the delay): a longer one outlives every recent call and wipes the
\* record.  With 900, 3600 and 14400 no block of an address passes 3600
\* (rate_limiter.py:112, 194).
ReincidenciaEnVentana ==
    \A k \in Adaptativas :
        infracciones[k] >= 2 => Penalizacion(infracciones[k] - 1) < Ventana + Demora
===============================================================================

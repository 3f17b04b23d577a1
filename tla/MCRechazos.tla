------------------------------- MODULE MCRechazos -------------------------------
(***************************************************************************)
(* The edges of the process: what may refuse a booking before it is priced *)
(* (the rate limiters, the calendar with its blocks), the retries against  *)
(* a service that is asleep and the metrics of the requests.  They share   *)
(* no state: a behaviour works one of them and the rest stay as they       *)
(* began, so that the run visits the sum of their states.  For the same    *)
(* reason a behaviour of the limiters asks for keys of one kind: the       *)
(* limiter of the login shares nothing with those of the bookings.         *)
(***************************************************************************)
EXTENDS Limitadores, Calendario, Mercadeo, Metricas, TLC

VARIABLE area   \* the component at work

varsRechazos == <<varsLimites, varsCalendario, varsMercadeo, varsMetricas, area>>

MCSimetria == Permutations(Hilos) \cup Permutations(Solicitantes) \cup Permutations(Atendidas)

InitRechazos ==
    /\ InitLimites /\ InitCalendario /\ InitMercadeo /\ InitMetricas
    /\ area \in {"entradas", "reservas", "calendario", "mercadeo", "metricas"}

PideSolo(claves) == \A h \in Hilos : hilo'[h].clave \in claves \cup {SinClave}

NextRechazos ==
    /\ UNCHANGED area
    /\ \/ /\ NextLimites /\ UNCHANGED <<varsCalendario, varsMercadeo, varsMetricas>>
          /\ \/ area = "entradas" /\ PideSolo(Simples)
             \/ area = "reservas" /\ PideSolo(Adaptativas)
       \/ area = "calendario" /\ NextCalendario /\ UNCHANGED <<varsLimites, varsMercadeo, varsMetricas>>
       \/ area = "mercadeo" /\ NextMercadeo /\ UNCHANGED <<varsLimites, varsCalendario, varsMetricas>>
       \/ area = "metricas" /\ NextMetricas /\ UNCHANGED <<varsLimites, varsCalendario, varsMercadeo>>

SpecRechazos == InitRechazos /\ [][NextRechazos]_varsRechazos
===============================================================================

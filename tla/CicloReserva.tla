----------------------------- MODULE CicloReserva -----------------------------
(***************************************************************************)
(* What a reservation promises to the rest of the business: the states it  *)
(* goes through and the domain events (milestones) announced on the way.   *)
(* Nothing is said here of requests, transactions, locks or money.         *)
(*                                                                         *)
(* Anomalias is the set of <<from, to>> changes tolerated besides the      *)
(* documented ones.  With {} this is the documented life cycle; with the   *)
(* three pairs a stale read can produce it is what the code guarantees     *)
(* when requests run concurrently.                                         *)
(***************************************************************************)
CONSTANTS Reservas,    \* the reservations
          Anomalias    \* tolerated changes of state, a set of pairs

VARIABLES estado,      \* estado[r]: "ausente" before it is created
          avisos       \* the set of <<milestone, reservation>> announced

cicloVars == <<estado, avisos>>

\* TRANSICIONES_MANUALES plus the two steps of the visit.
Documentadas ==
    { <<"ausente", "pendiente">>,
      <<"pendiente", "confirmada">>, <<"pendiente", "cancelada">>,
      <<"confirmada", "cancelada">>, <<"confirmada", "en_curso">>,
      <<"en_curso", "completada">> }

\* The event that announces the arrival to a state; check-in has none.
Hito(e) ==
    CASE e = "pendiente"  -> {"reservation.created"}
      [] e = "confirmada" -> {"reservation.confirmed"}
      [] e = "cancelada"  -> {"reservation.cancelled"}
      [] e = "completada" -> {"visit.completed"}
      [] OTHER            -> {}

CicloInit ==
    /\ estado = [r \in Reservas |-> "ausente"]
    /\ avisos = {}

\* r moves to state e and announces it, which happens at most once.
Avanza(r, e) ==
    LET nuevos == Hito(e) \X {r}
    IN  /\ <<estado[r], e>> \in Documentadas \cup Anomalias
        /\ nuevos \cap avisos = {}
        /\ estado' = [estado EXCEPT ![r] = e]
        /\ avisos' = avisos \cup nuevos

CicloNext ==
    \E r \in Reservas :
        \E e \in {"pendiente", "confirmada", "en_curso", "completada", "cancelada"} :
            Avanza(r, e)

CicloSpec == CicloInit /\ [][CicloNext]_cicloVars
===============================================================================

-------------------------------- MODULE MCCuentas --------------------------------
(***************************************************************************)
(* The figures the administrator works with: special rates with their      *)
(* simulator, reports, dashboard.  They share no state: a behaviour works  *)
(* one of them and the rest stay as they began, so that the run visits the *)
(* sum of their states.  The ranges of the dashboard depend on the clock   *)
(* alone, and its behaviours have no reservation.                          *)
(***************************************************************************)
EXTENDS Tarifas, Tablero, TLC

VARIABLE area   \* the component at work

varsCuentas == <<varsTarifas, varsTablero, area>>

MCSimetria == Permutations(Ventas) \cup Permutations(ClientesVenta) \cup Permutations(MetodosPago)

\* A rate: first and last day, percentage, tipo, weekdays, priority and unit.
MCRegla(inicio, fin, porcentaje, aplica, dias, prioridad, unidad) ==
    [activa |-> TRUE, inicio |-> inicio, fin |-> fin, porcentaje |-> porcentaje,
     aplica |-> aplica, dias |-> dias, prioridad |-> prioridad, unidad |-> unidad]

\* Free for three days, dearer on Tuesdays, and a cabin with priority.
MCReglas ==
    {MCRegla(0, 2, -100, "todos", SinValor, 0, SinValor),
     MCRegla(1, 2, 15, "todos", {1}, 0, SinValor),
     MCRegla(0, 1, 33, "hospedaje", SinValor, 1, "cabana")}

\* Switched off; moved, lowered and put first, every day of the week.
MCEdiciones ==
    {[MCRegla(SinValor, SinValor, SinValor, SinValor, SinValor, SinValor, SinValor)
        EXCEPT !.activa = FALSE],
     [MCRegla(1, SinValor, -50, SinValor, {}, 1, SinValor) EXCEPT !.activa = SinValor]}

MCVisitas ==
    {[tipo |-> "entrada", llegada |-> 1, salida |-> 1, unidad |-> SinValor],
     [tipo |-> "camping", llegada |-> 0, salida |-> 2, unidad |-> SinValor],
     [tipo |-> "hospedaje", llegada |-> 0, salida |-> 3, unidad |-> "cabana"]}

\* "10" < "11" < "9"
MCAntesEnTexto == {<<10, 11>>, <<10, 9>>, <<11, 9>>}

MCCapacidad == [s \in ServiciosVenta |-> IF s = "tour" THEN 1 ELSE Vacia]

-------------------------------------------------------------------------------
InitCuentas == InitTarifas /\ InitTablero /\ area \in {"tarifas", "reportes", "tablero"}

NextCuentas ==
    /\ UNCHANGED area
    /\ \/ area = "tarifas" /\ NextTarifas /\ UNCHANGED varsTablero
       \/ area = "reportes" /\ NextReportes /\ UNCHANGED <<tablero, varsTarifas>>
       \/ /\ area = "tablero"
          /\ AbrirTablero \/ Consultar \/ Responder \/ (Amanece /\ UNCHANGED tablero)
          /\ UNCHANGED varsTarifas

SpecCuentas == InitCuentas /\ [][NextCuentas]_varsCuentas
===============================================================================

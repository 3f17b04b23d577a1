------------------------------- MODULE Redondeos -------------------------------
(***************************************************************************)
(* The arithmetic of Python that several components use.                   *)
(***************************************************************************)
EXTENDS Integers

\* abs()
Magnitud(n) == IF n < 0 THEN -n ELSE n

\* round() of a / b, with b > 0: halves go to the even one.
RedondeoPar(a, b) ==
    LET entero == a \div b
        resto == 2 * (a % b)
    IN  IF resto > b \/ (resto = b /\ entero % 2 = 1) THEN entero + 1 ELSE entero
===============================================================================

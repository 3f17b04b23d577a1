----------------------------- MODULE MCPortalPublico -----------------------------
(* PortalPublico on a small instance.  The visitors share the contact; the order *)
(* of the pseudonyms is not that of the columns.                                 *)
EXTENDS PortalPublico

Form(ip, contacto, cliente, nonce, trampa) ==
    [ip |-> ip, contacto |-> contacto, cliente |-> cliente, nonce |-> nonce,
     trampa |-> trampa]

Visitantes ==
    {Form(1, 5, 3, 4, FALSE),           \* the ordinary visitor
     Form(6, 5, SinHuella, 2, FALSE)}   \* the same contact from elsewhere

ConTrampa ==
    {Form(1, 5, 3, 4, TRUE)}            \* the hidden field is filled
===============================================================================

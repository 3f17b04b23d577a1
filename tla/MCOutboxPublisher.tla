-------------------------- MODULE MCOutboxPublisher ---------------------------
(* Small instances of OutboxPublisher for TLC.                             *)
EXTENDS OutboxPublisher, TLC

\* Workers are interchangeable, and so are events.
Interchangeable == Permutations(Workers) \cup Permutations(Events)
===============================================================================

-------------------------------- MODULE MCSem --------------------------------
(* Constants for checking Sem. *)
EXTENDS Sem

\* A semaphore that signals an event.
MCSizes == {<<0, 1>>}
=============================================================================

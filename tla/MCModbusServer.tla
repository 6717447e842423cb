-------------------------- MODULE MCModbusServer ----------------------------
(* Three coils, two registers, requests of two items over either's end.     *)
EXTENDS ModbusServer

MCWords == {0, 1}
=============================================================================

---------------------------- MODULE MCLogonBytes ----------------------------
(* Values of the constants of LogonBytes for TLC. *)
EXTENDS LogonBytes

MCModulus == <<1, 1, 1>>
MCGenerator == <<1>>
=============================================================================

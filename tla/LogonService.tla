---------------------------- MODULE LogonService ----------------------------
(***************************************************************************)
(* What a logon server promises its clients.  A client connects, claims a  *)
(* name with a password, and is refused when the password is not that      *)
(* name's and accepted when it is, unless the numbers drawn for this logon *)
(* are unlucky ones: then the right password is accepted or refused.       *)
(* Salts, proofs, tables and processes do not appear.                      *)
(***************************************************************************)
CONSTANTS Conns, Names, Passwords, PasswordOf

VARIABLES
  stage,  \* where the client of each connection is
  claim   \* the <<name, password, lucky>> it claims, <<>> while it claims nothing

svars == <<stage, claim>>

SInit ==
  /\ stage = [c \in Conns |-> "away"]
  /\ claim = [c \in Conns |-> <<>>]

Arrive(c) ==
  /\ stage[c] = "away"
  /\ stage' = [stage EXCEPT ![c] = "connected"]
  /\ UNCHANGED claim

MakeClaim(c, n, pw, lucky) ==
  /\ stage[c] = "connected"
  /\ stage' = [stage EXCEPT ![c] = "claimed"]
  /\ claim' = [claim EXCEPT ![c] = <<n, pw, lucky>>]

Right(c) == claim[c][2] = PasswordOf[claim[c][1]]

\* The verdict.
Decide(c) ==
  /\ stage[c] = "claimed"
  /\ \/ Right(c) /\ stage' = [stage EXCEPT ![c] = "accepted"]
     \/ ~(Right(c) /\ claim[c][3]) /\ stage' = [stage EXCEPT ![c] = "refused"]
  /\ UNCHANGED claim

\* A client may start again on its connection.
StartAgain(c) ==
  /\ stage[c] \in {"accepted", "refused"}
  /\ stage' = [stage EXCEPT ![c] = "connected"]
  /\ claim' = [claim EXCEPT ![c] = <<>>]

Depart(c) ==
  /\ stage[c] # "away"
  /\ stage' = [stage EXCEPT ![c] = "away"]
  /\ claim' = [claim EXCEPT ![c] = <<>>]

SNext ==
  \E c \in Conns :
    \/ Arrive(c) \/ Decide(c) \/ StartAgain(c) \/ Depart(c)
    \/ \E n \in Names, pw \in Passwords, lucky \in BOOLEAN : MakeClaim(c, n, pw, lucky)

Spec == SInit /\ [][SNext]_svars
=============================================================================

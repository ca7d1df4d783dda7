----------------------------- MODULE MCTelnetd -----------------------------
(* Telnetd in every environment, and in those where only logins make trouble. *)
EXTENDS Telnetd

MCSetup == {{}, Trouble} \cup {{t} : t \in Trouble}
MCImpatient == {{"impatient"}}
=============================================================================

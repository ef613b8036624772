-------------------------- MODULE MCPollScheduling --------------------------
(* One X account and one email account; connecting the X account registers  *)
(* its driver again, connecting the email account does not.                 *)
EXTENDS PollScheduling

MCAccounts == {"x1", "e1"}
MCPlatforms == {"X", "Email"}
MCPlatformOf == [a \in MCAccounts |-> IF a = "x1" THEN "X" ELSE "Email"]
MCRegisters == {"X"}
MCSessions == {<<"u1", "X">>, <<"u1", "Email">>}
MCSessionOf == [a \in MCAccounts |-> <<"u1", MCPlatformOf[a]>>]
=============================================================================

---------------------------- MODULE BoardValues ----------------------------
(* Users and messages for small instances of the message board.            *)
EXTENDS TLC

(* One client, one user.                                                   *)
OneId      == "c1" :> "TestUser"
OneMessage == "c1" :> "Test Message"
BadMessage == "c1" :> "Test*Message"

(* Two clients of the same user, one of them with a forbidden message.     *)
SharedId    == "c1" :> "TestUser" @@ "c2" :> "TestUser"
TwoMessages == "c1" :> "Test Message" @@ "c2" :> "Test*Message"
=============================================================================

----------------------------- MODULE MC_Tunnels -----------------------------
(* Constants of the runs of Tunnels.                                       *)
EXTENDS Tunnels, TLC
CONSTANTS ann, bob, b1, b2
MCHandle == ann :> "@p" @@ bob :> NoAccount     \* bob has no username
MCFullName == ann :> "P" @@ bob :> "P"          \* both are called alike
MCBots == {b1, b2}
MCAllow == b1 :> "guest" @@ b2 :> "member"
MCFile == <<b1, "slack", "mail", b2, "discord">>
MCAccounts == {"@p", bob}
=============================================================================

--------------------------- MODULE MC_MailIssues ---------------------------
(* Three mails that arrive, the last of which cannot be downloaded, two put *)
(* into the store by hand, one that replies to the second and one that is   *)
(* like the first, and a configuration with two issues.                     *)
EXTENDS MailIssues

MCMailIdOf == [u \in Uids |-> CASE u = 3 -> "reply" [] u = 2 -> "other" [] OTHER -> "mail"]
MCReplyOf == [u \in Uids |-> IF u = 3 THEN "other" ELSE Absent]
MCConfigs == {<<"local", "spider", "local">>}
MCRootConfig == [p \in {<<>>, <<1>>} |-> "root"]

=============================================================================

---------------------------- MODULE MCMailSources ----------------------------
(* A small instance of MailSources: a message below the lower bound, within *)
(* the second by which the Gmail listing reaches below it, and one on it.   *)
EXTENDS MailSources, TLC

CONSTANTS m1, m2

MCReceived == m1 :> 0 @@ m2 :> 1
MCFolders == {1, 2}
MCLowers == {1}
=============================================================================

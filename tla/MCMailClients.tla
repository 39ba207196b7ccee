---------------------------- MODULE MCMailClients ----------------------------
(***************************************************************************)
(* Bounds for TLC: bodies below, at and above each of the limits, read in  *)
(* chunks of at most three, by an attempt of three requests that can fill  *)
(* its budget exactly or overflow it with the second or the third.         *)
(***************************************************************************)
EXTENDS MailClients

MCBodySizes == {0, 1, 2, 3, 4, 5, 6}
=============================================================================

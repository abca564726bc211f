----------------------------- MODULE MCSMTPDaemon -----------------------------
(***************************************************************************)
(* A conversation long enough for two mails and the commands in between.   *)
(***************************************************************************)
EXTENDS SMTPDaemon
=============================================================================

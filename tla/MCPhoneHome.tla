----------------------------- MODULE MCPhoneHome -----------------------------
(* PhoneHome on a small instance: see phone_home.cfg.                      *)
EXTENDS PhoneHome

=============================================================================

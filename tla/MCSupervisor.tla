----------------------------- MODULE MCSupervisor -----------------------------
(***************************************************************************)
(* A supervisor with typical command lines and sets of daemons.            *)
(***************************************************************************)
EXTENDS Supervisor

CommandLines ==
  { <<Flag("other"), Flag("config"), Value, Flag("daemons"), Value>>,
    <<Flag("config"), Value, Flag("other"), Value, Flag("daemons"), Value>>,
    <<FlagIs("supervisor"), FlagIs("other"), FlagIs("config"), FlagIs("daemons")>>,
    <<Flag("daemons"), Value, FlagIs("other"), Flag("config"), Value, Flag("supervisor")>>,
    <<Flag("--config"), Value, FlagIs("other"), Flag("daemons"), Value>> }

DaemonSets ==
  { {"httpd"},
    {"autounlock"},
    {"httpd", "maintenance"},
    {"httpd", "maintenance", "smtpd", "telegram"},
    {"autounlock", "dnsd", "httpd", "snmpd"} }

CulpritSets == {{}, {"maintenance"}, {"httpd"}, {"smtpd", "dnsd"}, {"autounlock"}}
=============================================================================

-------------------------- MODULE MCCommandProcessor --------------------------
(***************************************************************************)
(* Two app commands at a time: the first of every kind, the second of a    *)
(* few kinds that may disturb it.                                          *)
(***************************************************************************)
EXTENDS CommandProcessor

(* Command lines: with a PIN, a shortcut, a one-time password or none of   *)
(* them; with good and bad limits of length and time; for apps that exist  *)
(* and that do not.                                                        *)
PLT(k, b, m, t) == [kind |-> k, begin |-> b, max |-> m, timeout |-> t]
Body(plt, app, arg, len, blank) ==
  [plt |-> plt, app |-> app, arg |-> arg, len |-> len, blank |-> blank]
Line(auth, code, body) == [auth |-> auth, code |-> code, body |-> body]
OneLine(l) == [lines |-> <<l>>, long |-> FALSE, report |-> FALSE]

NoCode == <<0, 0>>
Joke == Body(NoPLT, "joke", "none", 0, FALSE)
Shell == Body(NoPLT, "shell", "none", 3, FALSE)
Pin(b) == Line("pin", NoCode, b)
Env(arg, len) == OneLine(Pin(Body(NoPLT, "env", arg, len, FALSE)))

MCShortcut == Body(NoPLT, "alpha", "none", 2, TRUE)
MCSequences == [alpha |-> "joke"]

AllInputs ==
  { OneLine(Line("none", NoCode, Shell)),
    OneLine(Line("shortcut", NoCode, Shell)),
    OneLine(Line("totp", <<0, 1>>, Joke)),
    OneLine(Line("totp", <<0, 1>>, [Joke EXCEPT !.app = "nosuch"])),
    OneLine(Pin(Body(PLT("ok", 1, 1, 1), "joke", "none", 3, FALSE))),
    OneLine(Pin(Body(PLT("ok", 9, 1, 0), "shell", "none", 3, FALSE))),
    OneLine(Pin(Body(PLT("bad", 0, 0, 0), "shell", "none", 3, FALSE))),
    OneLine(Pin(Body(NoPLT, "none", "none", 0, FALSE))),
    OneLine(Pin(Body(PLT("ok", 0, 1, 1), "none", "none", 0, FALSE))),
    Env("lock", 1), Env("stop", 1), Env("info", 7), Env("none", 7),
    [lines |-> <<Line("none", NoCode, Shell), Pin(Joke)>>, long |-> FALSE, report |-> TRUE],
    [lines |-> <<Pin(Shell)>>, long |-> TRUE, report |-> FALSE] }

(* What a second request does beside any of them.                          *)
FewInputs ==
  { OneLine(Line("shortcut", NoCode, Shell)),
    OneLine(Line("totp", <<0, 1>>, Joke)),
    OneLine(Pin(Body(PLT("ok", 1, 1, 1), "shell", "none", 3, FALSE))),
    Env("lock", 1) }

MCInputs == [r \in {1, 2} |-> IF r = 1 THEN AllInputs ELSE FewInputs]

Spec == CPSpec
=============================================================================

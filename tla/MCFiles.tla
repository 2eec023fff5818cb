------------------------------- MODULE MCFiles -------------------------------
(* What the patch does to files, each part on its own: the migration of every   *)
(* settings file of up to three lines, the installer on a few of them, and the *)
(* rotation of the log.                                                        *)
EXTENDS Installer, LogRotation

VARIABLE part

vars == <<installVars, logVars, part>>

MCValues == {Value("false", {}), Value("false", {0}), TrueWord, Value("neither", {}),
             Value("neither", {70000})}
MCBlankFalse == Padded(Setting("ResetRestartFallback", Value("false", {}), FALSE), "around")
MCLines ==
    {Section("Recovery", FALSE), Section("Recovery", TRUE), Section("Bootstrap", FALSE), Other}
    \cup {Setting("ResetRestartFallback", v, FALSE) : v \in MCValues}
    \cup {Setting("ResetRestartFallback", Value("false", {}), TRUE),
          Setting("RecoveryCooldownMs", Value("neither", {70000}), FALSE),
          Padded(Section("Recovery", FALSE), "around"), Padded(Section("Recovery", FALSE), "within"),
          Padded(Section("Bootstrap", FALSE), "around"), MCBlankFalse}
MCInis == UNION {[1 .. n -> MCLines] : n \in 1 .. 3}
MCFirst == {f \in MCInis : Len(f) = 2 /\ f[1] = Section("Recovery", FALSE)
                           /\ f[2] \in {Setting("ResetRestartFallback", v, FALSE) : v \in MCValues}
                                       \cup {MCBlankFalse}}
MCPackaged == <<Section("Recovery", FALSE), Setting("ResetRestartFallback", TrueWord, FALSE)>>

Init ==
    /\ LogInit /\ InstallInit
    /\ \/ part = "installer" /\ ini \in MCFirst \cup {Absent}
       \/ part = "settings" /\ ini # Absent /\ dir["loader"] = "absent"
       \/ part = "log" /\ ini = Absent /\ dir["loader"] = "absent"

Next == \/ part = "installer" /\ InstallNext /\ UNCHANGED <<logVars, part>>
        \/ part = "log" /\ LogNext /\ UNCHANGED <<installVars, part>>

Spec == Init /\ [][Next]_vars

(* EnableResetRestartFallback on the settings there are.                       *)
MigrationsSound == ini \notin {Absent, Torn} => MigrationSound(ini)
=============================================================================

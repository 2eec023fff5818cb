------------------------------ MODULE Installer ------------------------------
(* src/installer/installer.cpp: what one run after another of the installer    *)
(* leaves in the game's folder and in the bottle's registry. A run is a        *)
(* sequence of system calls; each may fail and the process may end between     *)
(* two. The user's answers are free.                                           *)
EXTENDS Settings, FiniteSets

CONSTANTS
    Inis,      \* the settings files that may be there before the patch is
    Packaged,  \* the settings file of the package
    Attempts   \* the temporary names WriteTextFileAtomically tries: 100 in the code

ASSUME InstallerAssumption == /\ Inis \subseteq Seq(Lines) /\ Packaged \in Seq(Lines)
                              /\ LoadConfig(Packaged).ResetRestartFallback
                              /\ Attempts \in Nat

VARIABLES
    dir,       \* the patch's other files: "absent", "ours", "foreign", or "torn"
    ini,       \* the settings file: Absent, Torn, or its lines
    override,  \* the winmm override is set
    temps,     \* how many of the temporary names are taken
    run,       \* the call the run has got to
    answer,    \* what the user chose: whether to replace, and whether to remove
    before,    \* history: ini when the run began
    missed,    \* history: the files of which IsRegularFile, failing, said in this run
               \* that they are not there
    exit       \* what it reported: "installed", "uninstalled", "failed", "nothing"
               \* done, or "cut off"

installVars == <<dir, ini, override, temps, run, answer, before, missed, exit>>

Absent == <<[kind |-> "absent"]>>
Torn == <<[kind |-> "torn"]>>
Files == {"asi", "loader", "runtime"}

InstallInit ==
    /\ dir \in [Files -> {"absent"}] \cup {[[f \in Files |-> "absent"] EXCEPT !.loader = "foreign"]}
    /\ ini \in Inis \cup {Absent}
    /\ override = FALSE /\ temps = 0
    /\ run = "none" /\ answer = [replace |-> TRUE, remove |-> {}, failed |-> FALSE]
    /\ before = Absent /\ missed = {} /\ exit = "nothing"

Ends(how) == run' = "none" /\ exit' = how
Goes(next) == run' = next /\ exit' = "nothing"

(* WinMain: the package is checked, the user chooses, the game is found. If    *)
(* the loader there is not the package's, or cannot be compared, the user      *)
(* says what to do with it; if it is not seen, it is replaced. InstallPatch    *)
(* asks once whether the settings file is there, and takes an error for no.    *)
WinMain ==
    /\ run = "none"
    /\ before' = ini
    /\ \/ UNCHANGED answer /\ missed' = {} /\ Ends("nothing")
       \/ /\ answer' \in [replace : IF dir["loader"] = "absent" THEN {TRUE} ELSE BOOLEAN,
                          remove : {{}}, failed : {FALSE}]
          /\ missed' \in SUBSET (IF ini = Absent THEN {} ELSE {"ini"})
          /\ Goes("asi")
       \/ /\ answer' \in [replace : {TRUE}, remove : SUBSET {"runtime", "loader", "override"},
                          failed : {FALSE}]
          /\ missed' = {}
          /\ Goes("uninstall")
    /\ UNCHANGED <<dir, ini, override, temps>>

-----------------------------------------------------------------------------
(* InstallPatch                                                                *)

(* existing_ini *)
ExistingIni == before # Absent /\ "ini" \notin missed

Skipped(file) == \/ file = "ini" /\ ExistingIni
                 \/ file = "loader" /\ ~answer.replace
After(file) == CASE file = "asi" -> "ini" [] file = "ini" -> "loader"
                 [] file = "loader" -> "runtime" [] OTHER -> "migrate"

(* As CopyPayloadFile, with the existing settings not spared.                  *)
CopyPayloadFileAlways(file) ==
    /\ run = file /\ run \in Files \cup {"ini"}
    /\ IF file = "ini" THEN ini' = Packaged /\ UNCHANGED dir
       ELSE dir' = [dir EXCEPT ![file] = "ours"] /\ UNCHANGED ini
    /\ Goes(After(file))
    /\ UNCHANGED <<override, temps, answer, before, missed>>

(* One round of the loop: a file is copied, or skipped; a copy that fails ends *)
(* the run, one that is cut off leaves part of the file.                       *)
CopyPayloadFile(file) ==
    /\ run = file /\ run \in Files \cup {"ini"}
    /\ \/ Skipped(file) /\ Goes(After(file)) /\ UNCHANGED <<dir, ini>>
       \/ /\ ~Skipped(file) /\ Ends("failed") /\ UNCHANGED ini
          /\ \/ UNCHANGED dir
             \/ file # "ini" /\ dir' = [dir EXCEPT ![file] = "absent"]
       \/ /\ ~Skipped(file)
          /\ \E whole \in BOOLEAN :
               /\ IF file = "ini" THEN ini' = (IF whole THEN Packaged ELSE Torn) /\ UNCHANGED dir
                  ELSE dir' = [dir EXCEPT ![file] = IF whole THEN "ours" ELSE "torn"] /\ UNCHANGED ini
               /\ IF whole THEN Goes(After(file)) ELSE run' = "none" /\ exit' = "cut off"
    /\ UNCHANGED <<override, temps, answer, before, missed>>

(* UpgradeExistingIni: the text is read, and written anew if it has to change. *)
UpgradeExistingIni ==
    /\ run = "migrate"
    /\ \/ ~ExistingIni /\ Goes("override")
       \/ ExistingIni /\ Ends("failed")
       \/ /\ ExistingIni
          /\ Goes(IF Replaced(ini) # {} THEN "temporary" ELSE "override")
    /\ UNCHANGED <<dir, ini, override, temps, answer, before, missed>>

(* WriteTextFileAtomically: a new file under the first name not taken, ...     *)
WriteTemporary ==
    /\ run = "temporary"
    /\ \/ Ends("failed") /\ UNCHANGED temps
       \/ temps < Attempts /\ temps' = temps + 1 /\ Goes("replace")
    /\ UNCHANGED <<dir, ini, override, answer, before, missed>>

(* ... which takes the place of the old one in one call. If it cannot be       *)
(* completed or moved it is deleted, which may fail too.                       *)
ReplaceIni ==
    /\ run = "replace"
    /\ \/ ini' = EnableResetRestartFallback(ini) /\ temps' = temps - 1 /\ Goes("override")
       \/ UNCHANGED ini /\ temps' \in {temps - 1, temps} /\ Ends("failed")
    /\ UNCHANGED <<dir, override, answer, before, missed>>

(* As SetWineOverride, with its failure not looked at.                         *)
SetWineOverrideUnasked ==
    /\ run = "override"
    /\ override' \in {override, TRUE} /\ Ends("installed")
    /\ UNCHANGED <<dir, ini, temps, answer, before, missed>>

SetWineOverride ==
    /\ run = "override"
    /\ \/ override' = TRUE /\ Ends("installed")
       \/ UNCHANGED override /\ Ends("failed")
    /\ UNCHANGED <<dir, ini, temps, answer, before, missed>>

-----------------------------------------------------------------------------
(* UninstallPatch: the two files of the patch, then what the user agreed to    *)
(* remove. A failure is noted and the run goes on; but a file IsRegularFile    *)
(* fails to see is passed over, and nothing is noted.                          *)
Removes(what) == what \in {"asi", "ini"} \/ what \in answer.remove

Gone(what) == CASE what = "ini" -> ini = Absent
                [] what = "override" -> ~override
                [] OTHER -> dir[what] = "absent"

Delete(what) ==
    CASE what = "ini" -> ini' = Absent /\ UNCHANGED <<dir, override>>
      [] what = "override" -> override' = FALSE /\ UNCHANGED <<dir, ini>>
      [] OTHER -> dir' = [dir EXCEPT ![what] = "absent"] /\ UNCHANGED <<ini, override>>

DeleteIfPresent(what, next) ==
    /\ \/ /\ Removes(what) /\ (what = "override" \/ ~Gone(what))
          /\ \/ Delete(what) /\ UNCHANGED <<answer, missed>>
             \/ /\ answer' = [answer EXCEPT !.failed = TRUE]
                /\ UNCHANGED <<dir, ini, override, missed>>
             \/ /\ what # "override" /\ missed' = missed \cup {what}
                /\ UNCHANGED <<dir, ini, override, answer>>
       \/ /\ ~Removes(what) \/ (what # "override" /\ Gone(what))
          /\ UNCHANGED <<dir, ini, override, answer, missed>>
    /\ Goes(next)
    /\ UNCHANGED <<temps, before>>

UninstallPatch ==
    \/ run = "uninstall" /\ DeleteIfPresent("asi", "uninstall ini")
    \/ run = "uninstall ini" /\ DeleteIfPresent("ini", "uninstall runtime")
    \/ run = "uninstall runtime" /\ DeleteIfPresent("runtime", "uninstall loader")
    \/ run = "uninstall loader" /\ DeleteIfPresent("loader", "uninstall override")
    \/ run = "uninstall override" /\ DeleteIfPresent("override", "report")
    \/ /\ run = "report"
       /\ Ends(IF answer.failed THEN "failed" ELSE "uninstalled")
       /\ UNCHANGED <<dir, ini, override, temps, answer, before, missed>>

(* The process ends anywhere.                                                  *)
Killed == /\ run # "none" /\ run' = "none" /\ exit' = "cut off"
          /\ UNCHANGED <<dir, ini, override, temps, answer, before, missed>>

InstallNext == \/ WinMain
               \/ \E file \in Files \cup {"ini"} : CopyPayloadFile(file)
               \/ UpgradeExistingIni \/ WriteTemporary \/ ReplaceIni \/ SetWineOverride
               \/ UninstallPatch \/ Killed

-----------------------------------------------------------------------------
(* Properties                                                                  *)

(* "It preserves an existing MetaphorCompleteAudioPatch.ini" (README.md): over *)
(* failures and runs cut off anywhere, settings once there change only by the  *)
(* migration, in one step, or go when the patch is uninstalled; or the package *)
(* is copied over them, in a run that could not see them.                      *)
SettingsPreserved ==
    [][ini' # ini => \/ ini = Absent
                     \/ ini' = EnableResetRestartFallback(ini)
                     \/ run = "uninstall ini"
                     \/ run = "ini" /\ "ini" \in missed]_installVars

(* A run that reports success has done all of it, whatever runs before it were *)
(* cut off or failed: every file is the package's, but a loader the user kept, *)
(* and the patch will load its fallback enabled. The exceptions are what the   *)
(* code cannot tell: a settings file an earlier copy was cut off in counts as  *)
(* the user's (existing_ini), the migration does not recognize every line      *)
(* LoadConfig does (MigrationSound), and a file that was not seen was not      *)
(* removed.                                                                    *)
ExitTruthful ==
    /\ exit = "installed" =>
         /\ override /\ dir["asi"] = "ours" /\ dir["runtime"] = "ours"
         /\ dir["loader"] # "absent" /\ (answer.replace => dir["loader"] = "ours")
         /\ IF ExistingIni /\ before = Torn THEN ini = Torn
            ELSE /\ ini \notin {Absent, Torn}
                 /\ Plain(ini) => LoadConfig(ini).ResetRestartFallback
    /\ exit = "uninstalled" => \A what \in ({"asi", "ini"} \cup answer.remove) \ missed : Gone(what)

(* "Your existing patch settings were preserved and already use the current    *)
(* recovery behavior", or had it "enabled automatically": so says an           *)
(* installation that succeeds over existing settings (InstallPatch).           *)
RecoveryEnabled ==
    exit = "installed" /\ before \notin {Absent, Torn} => LoadConfig(ini).ResetRestartFallback

(* "It preserves an existing MetaphorCompleteAudioPatch.ini" (README.md), of   *)
(* an installation that succeeds.                                              *)
ExistingIniKept ==
    exit = "installed" /\ before \notin {Absent, Torn} =>
        ini \in {before, EnableResetRestartFallback(before)}
=============================================================================

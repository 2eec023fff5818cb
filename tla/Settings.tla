------------------------------- MODULE Settings -------------------------------
(* What a settings file means: src/config.cpp's LoadConfig, and                *)
(* installer/ini_migration.cpp's EnableResetRestartFallback, which edits an    *)
(* existing file line by line with a parser of its own. A line is a section    *)
(* header, a setting, or anything else; comments are off, and so are the       *)
(* spaces and tabs and the one carriage return that both parsers trim.         *)
(* What only one of them trims stays: "pad" says where a line has other blanks *)
(* (a second carriage return, a form feed, a vertical tab), which LoadConfig's *)
(* isspace takes off. "bom" is a byte order mark before the line.              *)
EXTENDS Integers, Sequences, SequencesExt

(* A value by what the parsers tell apart: a word for true, a word for false,  *)
(* or neither, and the number std::stoi finds, if any.                         *)
Value(bool, int) == [bool |-> bool, int |-> int]
TrueWord == Value("true", {})
Section(name, bom) == [kind |-> "section", name |-> name, bom |-> bom, pad |-> "none"]
Setting(key, value, bom) ==
    [kind |-> "setting", key |-> key, value |-> value, bom |-> bom, pad |-> "none"]
Other == [kind |-> "other", bom |-> FALSE, pad |-> "none"]

(* Blanks around a header's brackets or within them; anywhere beside the key   *)
(* or the value of a setting.                                                  *)
Pads == {"none", "around", "within"}
Padded(line, pad) == [line EXCEPT !.pad = pad]

Values == [bool : {"true", "false", "neither"}, int : SUBSET Int]
Lines == [kind : {"section"}, name : STRING, bom : BOOLEAN, pad : Pads]
         \cup [kind : {"setting"}, key : STRING, value : Values, bom : BOOLEAN, pad : Pads]
         \cup {Other}

(* The settings the other modules depend on, each with its section; a number   *)
(* has the limits LoadConfig clamps it to.                                     *)
Switches == [Enabled |-> "Recovery", AdaptiveBufferRetry |-> "Recovery",
             ResetRestartFallback |-> "Recovery"]
Limits == [MaximumRecoveriesPerWindow |-> <<1, 100>>, RecoveryWindowMs |-> <<1000, 600000>>,
           RecoveryCooldownMs |-> <<0, 60000>>, ModulePollTimeoutMs |-> <<0, 2147483647>>,
           ModulePollIntervalMs |-> <<50, 2147483647>>]
SectionOf(key) == IF key \in DOMAIN Switches THEN Switches[key]
                  ELSE IF key \in {"ModulePollTimeoutMs", "ModulePollIntervalMs"} THEN "Bootstrap"
                  ELSE "Recovery"

DefaultConfig ==
    [Enabled |-> TRUE, AdaptiveBufferRetry |-> TRUE, ResetRestartFallback |-> TRUE,
     MaximumRecoveriesPerWindow |-> 3, RecoveryWindowMs |-> 30000, RecoveryCooldownMs |-> 1000,
     ModulePollTimeoutMs |-> 120000, ModulePollIntervalMs |-> 250]

ParseBool(value, fallback) == IF value.bool = "neither" THEN fallback ELSE value.bool = "true"
ParseInt(value, fallback) == IF value.int = {} THEN fallback ELSE CHOOSE n \in value.int : TRUE
Clamp(n, limit) == IF n < limit[1] THEN limit[1] ELSE IF n > limit[2] THEN limit[2] ELSE n

(* One line of LoadConfig, which trims whatever pad there is. A line that      *)
(* begins with a byte order mark is none it knows.                             *)
Load(state, line) ==
    CASE line.bom \/ line.kind = "other" -> state
      [] ~line.bom /\ line.kind = "section" -> [state EXCEPT !.section = line.name]
      [] OTHER ->
           IF line.key \in DOMAIN DefaultConfig /\ SectionOf(line.key) = state.section
           THEN [state EXCEPT !.config[line.key] =
                   IF line.key \in DOMAIN Switches THEN ParseBool(line.value, @)
                   ELSE ParseInt(line.value, @)]
           ELSE state

(* What LoadConfig starts from: no section yet.                                *)
Unread == [section |-> "", config |-> DefaultConfig]

LoadConfig(file) ==
    LET read == FoldLeft(Load, Unread, file).config
    IN [key \in DOMAIN read |->
          IF key \in DOMAIN Limits THEN Clamp(read[key], Limits[key]) ELSE read[key]]

-----------------------------------------------------------------------------
(* As IsFalseValue, for the word alone.                                        *)
IsFalseWord(value) == value.bool = "false" /\ value.int = {}
IsFalseValue(value) == value.bool = "false"

(* The section EnableResetRestartFallback believes line n to be in. It skips a *)
(* byte order mark on the first line. A header with blanks it does not trim    *)
(* outside its brackets is none, one with such blanks inside names a section   *)
(* of its own.                                                                 *)
Headers(file, n) == {m \in 1 .. n : /\ file[m].kind = "section" /\ (m = 1 \/ ~file[m].bom)
                                    /\ file[m].pad # "around"}
InRecoverySection(file, n) ==
    \E m \in Headers(file, n) : /\ file[m].name = "Recovery" /\ file[m].pad # "within"
                                /\ \A k \in Headers(file, n) : k <= m

(* Blanks it does not trim make another key, or a value that is not false.     *)
Replaced(file) == {n \in DOMAIN file : /\ file[n].kind = "setting" /\ (n = 1 \/ ~file[n].bom)
                                       /\ file[n].pad = "none"
                                       /\ file[n].key = "ResetRestartFallback"
                                       /\ InRecoverySection(file, n)
                                       /\ IsFalseValue(file[n].value)}

EnableResetRestartFallback(file) ==
    [n \in DOMAIN file |-> IF n \in Replaced(file)
                           THEN [file[n] EXCEPT !.value = TrueWord] ELSE file[n]]

(* Both parsers trim every line of the file alike.                             *)
Plain(file) == \A n \in DOMAIN file : file[n].pad = "none"

(* "preserves ... every custom setting, but automatically enables the stable   *)
(* full-buffer recovery if an older release left it disabled" (README.md).     *)
(* Whatever is in the file, the patch loads every other setting of a migrated  *)
(* file as before, and a second migration finds nothing to do. The fallback is *)
(* never turned off; and it is on if the two parsers trim alike. Otherwise it  *)
(* may stay off: a header or a value the migration does not recognize is one   *)
(* to LoadConfig.                                                              *)
MigrationSound(file) ==
    LET migrated == EnableResetRestartFallback(file)
        was == LoadConfig(file)
        is == LoadConfig(migrated)
    IN /\ \A key \in DOMAIN was \ {"ResetRestartFallback"} : is[key] = was[key]
       /\ was.ResetRestartFallback \/ Plain(file) => is.ResetRestartFallback
       /\ Replaced(migrated) = {}
=============================================================================

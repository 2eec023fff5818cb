----------------------------- MODULE FilesProofs -----------------------------
(* Proofs about the settings file, the installer and the rotation of the log.  *)
EXTENDS MCFiles, SequenceTheorems, WellFoundedInduction, TLAPS

(* Induction over the natural numbers, with a set in the predicate's place.    *)
LEMMA Induction ==
    ASSUME NEW P, 0 \in P, \A n \in Nat : n \in P => n + 1 \in P
    PROVE  \A n \in Nat : n \in P
<1> DEFINE T == Nat \ P
<1>1. SUFFICES ASSUME T # {} PROVE FALSE
  OBVIOUS
<1>2. PICK n \in T : \A m \in T : ~ (<<m, n>> \in OpToRel(<, Nat))
  BY <1>1, NatLessThanWellFounded, WFMin, T \subseteq Nat
<1>3. n \in Nat /\ n # 0
  OBVIOUS
<1>4. n - 1 \in Nat
  BY <1>3
<1>5. n - 1 \in T
  BY <1>3, <1>4
<1>6. <<n - 1, n>> \in OpToRel(<, Nat)
  BY <1>3, <1>4 DEF OpToRel
<1> QED
  BY <1>2, <1>5, <1>6

(* The same up to a bound.                                                     *)
LEMMA InductionUpTo ==
    ASSUME NEW P, NEW b \in Nat, 0 \in P, \A n \in 0 .. b : n \in P /\ n < b => n + 1 \in P
    PROVE  \A n \in 0 .. b : n \in P
<1> DEFINE Q == {n \in Nat : n <= b => n \in P}
<1>1. 0 \in Q
  OBVIOUS
<1>2. \A n \in Nat : n \in Q => n + 1 \in Q
  OBVIOUS
<1> HIDE DEF Q
<1>3. \A n \in Nat : n \in Q
  BY <1>1, <1>2, Induction
<1> QED
  BY <1>3 DEF Q

LEMMA GreatestOfInterval ==
    ASSUME NEW k \in Nat, NEW s, s \subseteq 1 .. k, k \in s
    PROVE  Max(s) = k
<1>1. \A y \in s : k >= y
  OBVIOUS
<1>2. \A x \in s : (\A y \in s : x >= y) => x = k
  OBVIOUS
<1> QED
  BY <1>1, <1>2 DEF Max

-----------------------------------------------------------------------------
(* LoadConfig reads line after line                                            *)

(* The recursion that FoldLeft stands for has a solution.                      *)
LoadsAll(iter, base, file, n) ==
    iter = [s \in SUBSET (1 .. n) |-> IF s = {} THEN base
                                     ELSE Load(iter[s \ {Max(s)}], file[Max(s)])]

LEMMA LoadRecursion ==
    ASSUME NEW base, NEW file, NEW n \in Nat
    PROVE  \E iter : LoadsAll(iter, base, file, n)
<1> DEFINE Solves(iter, k) == LoadsAll(iter, base, file, k)
           P == {k \in Nat : \E iter : Solves(iter, k)}
<1> USE DEF LoadsAll
<1>1. 0 \in P
  <2> DEFINE g == [s \in SUBSET (1 .. 0) |-> base]
  <2>1. \A s \in SUBSET (1 .. 0) : s = {}
    OBVIOUS
  <2>2. Solves(g, 0)
    BY <2>1
  <2> QED
    BY <2>2
<1>2. ASSUME NEW k \in Nat, k \in P  PROVE k + 1 \in P
  <2>1. PICK g : Solves(g, k)
    BY <1>2
  <2> DEFINE h == [s \in SUBSET (1 .. k + 1) |->
                     IF k + 1 \in s THEN Load(g[s \ {k + 1}], file[k + 1]) ELSE g[s]]
             Next1(s) == IF s = {} THEN base ELSE Load(h[s \ {Max(s)}], file[Max(s)])
  <2>2. ASSUME NEW s \in SUBSET (1 .. k + 1)  PROVE h[s] = Next1(s)
    <3>1. CASE k + 1 \in s
      <4>1. Max(s) = k + 1
        BY <3>1, k + 1 \in Nat, GreatestOfInterval
      <4>2. s \ {k + 1} \in SUBSET (1 .. k + 1) /\ k + 1 \notin s \ {k + 1}
        OBVIOUS
      <4>3. h[s \ {k + 1}] = g[s \ {k + 1}]
        BY <4>2
      <4>4. s # {} /\ h[s] = Load(g[s \ {k + 1}], file[k + 1])
        BY <3>1
      <4> QED
        BY <4>1, <4>3, <4>4
    <3>2. CASE k + 1 \notin s
      <4>1. s \in SUBSET (1 .. k)
        BY <3>2
      <4>2. h[s] = g[s]
        BY <3>2
      <4>3. s \ {Max(s)} \in SUBSET (1 .. k + 1) /\ k + 1 \notin s \ {Max(s)}
        BY <3>2
      <4>4. h[s \ {Max(s)}] = g[s \ {Max(s)}]
        BY <4>3
      <4>5. g[s] = IF s = {} THEN base ELSE Load(g[s \ {Max(s)}], file[Max(s)])
        BY <2>1, <4>1
      <4> QED
        BY <4>2, <4>4, <4>5
    <3> QED
      BY <3>1, <3>2
  <2>3. h = [s \in SUBSET (1 .. k + 1) |-> Next1(s)]
    BY <2>2
  <2>4. Solves(h, k + 1)
    BY <2>3
  <2> HIDE DEF h, LoadsAll
  <2>5. \E iter : Solves(iter, k + 1)
    BY <2>4
  <2> QED
    BY <2>5
<1> HIDE DEF P, LoadsAll
<1>3. n \in P
  BY <1>1, <1>2, Induction
<1> QED
  BY <1>3 DEF P

(* The states between the lines.                                               *)
Reads(states, base, file, n) == /\ states[0] = base
                                /\ \A k \in 1 .. n : states[k] = Load(states[k - 1], file[k])
                                /\ FoldLeft(Load, base, file) = states[n]

LEMMA LoadStates ==
    ASSUME NEW base, NEW file, NEW n \in Nat, DOMAIN file = 1 .. n
    PROVE  \E states : Reads(states, base, file, n)
<1> DEFINE iter == CHOOSE g : LoadsAll(g, base, file, n)
           states == [k \in 0 .. n |-> iter[1 .. k]]
<1>1. FoldLeft(Load, base, file) = iter[1 .. n]
  BY DEF FoldLeft, MapThenFoldSet, LoadsAll
<1>2. LoadsAll(iter, base, file, n)
  BY LoadRecursion
<1> HIDE DEF iter
<1>3. states[0] = base
  <2>1. 1 .. 0 = {} /\ {} \in SUBSET (1 .. n)
    OBVIOUS
  <2> QED
    BY <1>2, <2>1 DEF LoadsAll
<1>4. ASSUME NEW k \in 1 .. n  PROVE states[k] = Load(states[k - 1], file[k])
  <2>1. Max(1 .. k) = k
    BY GreatestOfInterval
  <2>2. (1 .. k) \ {k} = 1 .. (k - 1) /\ 1 .. k \in SUBSET (1 .. n) /\ 1 .. k # {}
    OBVIOUS
  <2>3. iter[1 .. k] = Load(iter[1 .. (k - 1)], file[k])
    BY <1>2, <2>1, <2>2 DEF LoadsAll
  <2>4. k \in 0 .. n /\ k - 1 \in 0 .. n
    OBVIOUS
  <2> QED
    BY <2>3, <2>4
<1>5. states[n] = iter[1 .. n]
  OBVIOUS
<1> HIDE DEF states
<1>6. Reads(states, base, file, n)
  BY <1>1, <1>3, <1>4, <1>5 DEF Reads
<1> QED
  BY <1>6

-----------------------------------------------------------------------------
(* A line at a time                                                            *)

Keys == DOMAIN DefaultConfig
Fallback == "ResetRestartFallback"

(* What LoadConfig has in hand: a section, and a value for each setting.       *)
IsState(state) == /\ state = [section |-> state.section, config |-> state.config]
                  /\ state.config = [key \in Keys |-> state.config[key]]

Sets(state, line) == /\ ~line.bom /\ line.kind = "setting"
                     /\ line.key \in Keys /\ SectionOf(line.key) = state.section
Parsed(line, old) == IF line.key \in DOMAIN Switches THEN ParseBool(line.value, old)
                     ELSE ParseInt(line.value, old)

LEMMA KeyFacts ==
    /\ Keys = {"Enabled", "AdaptiveBufferRetry", "ResetRestartFallback", "MaximumRecoveriesPerWindow",
               "RecoveryWindowMs", "RecoveryCooldownMs", "ModulePollTimeoutMs", "ModulePollIntervalMs"}
    /\ Fallback \in Keys /\ Fallback \in DOMAIN Switches /\ Fallback \notin DOMAIN Limits
    /\ SectionOf(Fallback) = "Recovery"
<1>1. Keys = {"Enabled", "AdaptiveBufferRetry", "ResetRestartFallback", "MaximumRecoveriesPerWindow",
              "RecoveryWindowMs", "RecoveryCooldownMs", "ModulePollTimeoutMs", "ModulePollIntervalMs"}
  BY DEF Keys, DefaultConfig
<1>2. DOMAIN Switches = {"Enabled", "AdaptiveBufferRetry", "ResetRestartFallback"}
  BY DEF Switches
<1>3. \A key \in DOMAIN Switches : Switches[key] = "Recovery"
  BY DEF Switches
<1>4. DOMAIN Limits = {"MaximumRecoveriesPerWindow", "RecoveryWindowMs", "RecoveryCooldownMs",
                       "ModulePollTimeoutMs", "ModulePollIntervalMs"}
  BY DEF Limits
<1> QED
  BY <1>1, <1>2, <1>3, <1>4 DEF Fallback, SectionOf

LEMMA LineFacts ==
    ASSUME NEW line \in Lines
    PROVE  /\ line.bom \in BOOLEAN
           /\ line.kind \in {"section", "setting", "other"}
           /\ line.kind = "setting" => line.value \in Values
<1>1. CASE line \in [kind : {"section"}, name : STRING, bom : BOOLEAN, pad : Pads]
  BY <1>1
<1>2. CASE line \in [kind : {"setting"}, key : STRING, value : Values, bom : BOOLEAN, pad : Pads]
  BY <1>2
<1>3. CASE line = Other
  BY <1>3 DEF Other
<1> QED
  BY <1>1, <1>2, <1>3 DEF Lines

LEMMA LineMigrated ==
    ASSUME NEW line \in Lines, line.kind = "setting"
    PROVE  LET new == [line EXCEPT !.value = TrueWord] IN
           /\ new \in Lines
           /\ new.kind = line.kind /\ new.bom = line.bom /\ new.pad = line.pad
           /\ new.key = line.key
           /\ new.value = TrueWord
<1>1. line \in [kind : {"setting"}, key : STRING, value : Values, bom : BOOLEAN, pad : Pads]
  BY DEF Lines, Other
<1>2. TrueWord \in Values
  BY DEF TrueWord, Value, Values
<1> QED
  BY <1>1, <1>2 DEF Lines

LEMMA LoadCases ==
    ASSUME NEW state, NEW line \in Lines
    PROVE  Load(state, line) =
             IF ~line.bom /\ line.kind = "section" THEN [state EXCEPT !.section = line.name]
             ELSE IF Sets(state, line)
             THEN [state EXCEPT !.config[line.key] = Parsed(line, state.config[line.key])]
             ELSE state
<1>1. CASE line.bom \/ line.kind = "other"
  BY <1>1, LineFacts DEF Load, Sets
<1>2. CASE ~line.bom /\ line.kind = "section"
  BY <1>2, LineFacts DEF Load, Sets
<1>3. CASE ~line.bom /\ line.kind = "setting"
  BY <1>3, LineFacts DEF Load, Sets, Parsed, Keys
<1> QED
  BY <1>1, <1>2, <1>3, LineFacts

LEMMA LoadKeeps ==
    ASSUME NEW state, IsState(state), NEW line \in Lines
    PROVE  LET next == Load(state, line) IN
           /\ IsState(next)
           /\ next.section = IF ~line.bom /\ line.kind = "section" THEN line.name ELSE state.section
           /\ \A key \in Keys : next.config[key] =
                IF Sets(state, line) /\ line.key = key THEN Parsed(line, state.config[key])
                ELSE state.config[key]
<1> DEFINE next == Load(state, line)
           Shown(st) ==
             /\ IsState(st)
             /\ st.section = IF ~line.bom /\ line.kind = "section" THEN line.name ELSE state.section
             /\ \A key \in Keys : st.config[key] =
                  IF Sets(state, line) /\ line.key = key THEN Parsed(line, state.config[key])
                  ELSE state.config[key]
<1> SUFFICES Shown(next)
  OBVIOUS
<1>1. CASE ~line.bom /\ line.kind = "section"
  <2>1. next = [state EXCEPT !.section = line.name]
    BY <1>1, LoadCases
  <2>2. next = [section |-> line.name, config |-> state.config]
    BY <2>1 DEF IsState
  <2>3. ~Sets(state, line)
    BY <1>1 DEF Sets
  <2> HIDE DEF next
  <2> QED
    BY <1>1, <2>2, <2>3 DEF IsState
<1>2. CASE Sets(state, line)
  <2> DEFINE config == [state.config EXCEPT ![line.key] = Parsed(line, state.config[line.key])]
  <2>1. ~(~line.bom /\ line.kind = "section") /\ line.key \in Keys
    BY <1>2 DEF Sets
  <2>2. next = [state EXCEPT !.config[line.key] = Parsed(line, state.config[line.key])]
    BY <1>2, <2>1, LoadCases
  <2>3. next = [section |-> state.section, config |-> config]
    BY <2>2 DEF IsState
  <2>4. config = [key \in Keys |-> IF key = line.key THEN Parsed(line, state.config[line.key])
                                   ELSE state.config[key]]
    BY <2>1 DEF IsState
  <2> HIDE DEF next, config
  <2> QED
    BY <1>2, <2>1, <2>3, <2>4 DEF IsState
<1>3. CASE ~(~line.bom /\ line.kind = "section") /\ ~Sets(state, line)
  <2>1. next = state
    BY <1>3, LoadCases
  <2> QED
    BY <1>3, <2>1
<1> QED
  BY <1>1, <1>2, <1>3

-----------------------------------------------------------------------------
(* A settings file and its migration, read in step                             *)

(* "plain" is whether both parsers trim every line of the file alike.          *)
Agree(plain, a, b) == /\ IsState(a) /\ IsState(b) /\ b.section = a.section
                      /\ a.config[Fallback] = TRUE \/ plain => b.config[Fallback] = TRUE
                      /\ \A key \in Keys \ {Fallback} : b.config[key] = a.config[key]

(* A line that turns the fallback off.                                         *)
Disables(state, line) == /\ Sets(state, line) /\ line.key = Fallback
                         /\ IsFalseValue(line.value)

LEMMA SameLineAgrees ==
    ASSUME NEW plain \in BOOLEAN, NEW a, NEW b, Agree(plain, a, b), NEW line \in Lines,
           plain => ~Disables(a, line)
    PROVE  Agree(plain, Load(a, line), Load(b, line))
<1> DEFINE a1 == Load(a, line)
           b1 == Load(b, line)
<1>1. IsState(a) /\ IsState(b) /\ b.section = a.section
  BY DEF Agree
<1>2. /\ IsState(a1) /\ IsState(b1)
      /\ a1.section = IF ~line.bom /\ line.kind = "section" THEN line.name ELSE a.section
      /\ b1.section = IF ~line.bom /\ line.kind = "section" THEN line.name ELSE b.section
  BY <1>1, LoadKeeps
<1>3. \A key \in Keys :
        /\ a1.config[key] = IF Sets(a, line) /\ line.key = key THEN Parsed(line, a.config[key])
                            ELSE a.config[key]
        /\ b1.config[key] = IF Sets(b, line) /\ line.key = key THEN Parsed(line, b.config[key])
                            ELSE b.config[key]
  BY <1>1, LoadKeeps
<1>4. Sets(b, line) <=> Sets(a, line)
  BY <1>1 DEF Sets
<1> HIDE DEF a1, b1
<1>5. \A key \in Keys \ {Fallback} : b1.config[key] = a1.config[key]
  BY <1>3, <1>4 DEF Agree
<1>6. a1.config[Fallback] = TRUE \/ plain => b1.config[Fallback] = TRUE
  <2>1. CASE Sets(a, line) /\ line.key = Fallback
    <3>1. /\ a1.config[Fallback] = Parsed(line, a.config[Fallback])
          /\ b1.config[Fallback] = Parsed(line, b.config[Fallback])
      BY <1>3, <1>4, <2>1, KeyFacts
    <3>2. \A old : Parsed(line, old) = IF line.value.bool = "neither" THEN old
                                       ELSE line.value.bool = "true"
      BY <2>1, KeyFacts DEF Parsed, ParseBool
    <3>3. plain => line.value.bool # "false"
      BY <2>1 DEF Disables, IsFalseValue
    <3>4. line.value.bool \in {"true", "false", "neither"}
      BY <2>1, LineFacts DEF Sets, Values
    <3>5. a.config[Fallback] = TRUE \/ plain => b.config[Fallback] = TRUE
      BY DEF Agree
    <3>6. CASE line.value.bool = "neither"
      BY <3>1, <3>2, <3>5, <3>6
    <3>7. CASE line.value.bool = "true"
      <4>1. Parsed(line, b.config[Fallback]) = TRUE
        BY <3>2, <3>7
      <4> QED
        BY <3>1, <4>1
    <3>8. CASE line.value.bool = "false"
      <4>1. Parsed(line, a.config[Fallback]) = FALSE
        BY <3>2, <3>8
      <4> QED
        BY <3>1, <3>3, <3>8, <4>1
    <3> QED
      BY <3>4, <3>6, <3>7, <3>8
  <2>2. CASE ~(Sets(a, line) /\ line.key = Fallback)
    BY <1>3, <1>4, <2>2, KeyFacts DEF Agree
  <2> QED
    BY <2>1, <2>2
<1>7. Agree(plain, a1, b1)
  BY <1>1, <1>2, <1>5, <1>6 DEF Agree
<1> QED
  BY <1>7 DEF a1, b1

LEMMA MigratedLineAgrees ==
    ASSUME NEW plain \in BOOLEAN, NEW a, NEW b, Agree(plain, a, b),
           NEW line \in Lines, line.kind = "setting", line.key = Fallback
    PROVE  Agree(plain, Load(a, line), Load(b, [line EXCEPT !.value = TrueWord]))
<1> DEFINE new == [line EXCEPT !.value = TrueWord]
           a1 == Load(a, line)
           b1 == Load(b, new)
<1>1. IsState(a) /\ IsState(b) /\ b.section = a.section
  BY DEF Agree
<1>2. /\ new \in Lines /\ new.kind = "setting" /\ new.bom = line.bom
      /\ new.key = Fallback /\ new.value = TrueWord
  BY LineMigrated
<1> HIDE DEF new
<1>3. IsState(a1) /\ a1.section = a.section
  BY <1>1, LoadKeeps
<1>4. IsState(b1) /\ b1.section = b.section
  BY <1>1, <1>2, LoadKeeps
<1>5. \A key \in Keys :
        a1.config[key] = IF Sets(a, line) /\ line.key = key THEN Parsed(line, a.config[key])
                         ELSE a.config[key]
  BY <1>1, LoadKeeps
<1>6. \A key \in Keys :
        b1.config[key] = IF Sets(b, new) /\ new.key = key THEN Parsed(new, b.config[key])
                         ELSE b.config[key]
  BY <1>1, <1>2, LoadKeeps
<1>7. \A old : Parsed(new, old) = TRUE
  <2>1. new.value.bool = "true"
    BY <1>2 DEF TrueWord, Value
  <2> QED
    BY <1>2, <2>1, KeyFacts DEF Parsed, ParseBool
<1> HIDE DEF a1, b1
<1>8. \A key \in Keys \ {Fallback} : b1.config[key] = a1.config[key]
  BY <1>2, <1>5, <1>6 DEF Agree
<1>9. a1.config[Fallback] = TRUE \/ plain => b1.config[Fallback] = TRUE
  <2>1. Sets(b, new) <=> Sets(a, line)
    BY <1>1, <1>2 DEF Sets
  <2>2. CASE Sets(a, line)
    BY <1>2, <1>6, <1>7, <2>1, <2>2, KeyFacts
  <2>3. CASE ~Sets(a, line)
    <3>1. a1.config[Fallback] = a.config[Fallback] /\ b1.config[Fallback] = b.config[Fallback]
      BY <1>5, <1>6, <2>1, <2>3, KeyFacts
    <3> QED
      BY <3>1 DEF Agree
  <2> QED
    BY <2>2, <2>3
<1>10. Agree(plain, a1, b1)
  BY <1>1, <1>3, <1>4, <1>8, <1>9 DEF Agree
<1> QED
  BY <1>10 DEF a1, b1, new

(* Where LoadConfig is in the recovery section, so is the migration, in a file *)
(* that both trim alike.                                                       *)
InSection(file, k, state) == state.section = "Recovery" => InRecoverySection(file, k)

LEMMA SectionFollowed ==
    ASSUME NEW file \in Seq(Lines), Plain(file), NEW k \in 0 .. Len(file), k < Len(file),
           NEW state, IsState(state), InSection(file, k, state),
           k = 0 => state.section # "Recovery"
    PROVE  InSection(file, k + 1, Load(state, file[k + 1]))
<1> DEFINE line == file[k + 1]
<1>0. Len(file) \in Nat /\ k \in Nat
  BY LenProperties
<1>1. k + 1 \in 1 .. Len(file) /\ line \in Lines
  <2>1. k + 1 \in 1 .. Len(file)
    BY <1>0
  <2> QED
    BY <2>1, ElementOfSeq
<1>p. line.pad = "none"
  BY <1>1, LenProperties DEF Plain
<1>2. Load(state, line).section =
        IF ~line.bom /\ line.kind = "section" THEN line.name ELSE state.section
  BY <1>1, LoadKeeps
<1>3. CASE ~line.bom /\ line.kind = "section"
  <2>1. k + 1 \in Headers(file, k + 1)
    BY <1>0, <1>3, <1>p DEF Headers
  <2>2. \A j \in Headers(file, k + 1) : j <= k + 1
    BY <1>0 DEF Headers
  <2> QED
    BY <1>2, <1>3, <1>p, <2>1, <2>2 DEF InSection, InRecoverySection
<1>4. CASE ~(~line.bom /\ line.kind = "section")
  <2>1. CASE k = 0
    BY <1>2, <1>4, <2>1 DEF InSection
  <2>2. CASE k # 0
    <3>1. Headers(file, k + 1) = Headers(file, k)
      BY <1>0, <1>4, <2>2, <1>1, LineFacts DEF Headers
    <3> QED
      BY <1>2, <1>4, <3>1 DEF InSection, InRecoverySection
  <2> QED
    BY <2>1, <2>2
<1> QED
  BY <1>3, <1>4

(* So it replaces every line that would turn the fallback off.                 *)
LEMMA DisablingReplaced ==
    ASSUME NEW file \in Seq(Lines), Plain(file), NEW k \in 1 .. Len(file),
           NEW state, InSection(file, k - 1, state), Disables(state, file[k])
    PROVE  k \in Replaced(file)
<1>1. file[k] \in Lines /\ k \in DOMAIN file /\ file[k].pad = "none"
  <2>1. file[k] \in Lines /\ k \in DOMAIN file
    OBVIOUS
  <2> QED
    BY <2>1 DEF Plain
<1>2. file[k].kind = "setting" /\ ~file[k].bom /\ file[k].key = Fallback
      /\ IsFalseValue(file[k].value) /\ state.section = "Recovery"
  BY <1>1, KeyFacts DEF Disables, Sets
<1>3. InRecoverySection(file, k - 1)
  BY <1>2 DEF InSection
<1>4. Headers(file, k) = Headers(file, k - 1)
  BY <1>2 DEF Headers
<1>5. InRecoverySection(file, k)
  BY <1>3, <1>4 DEF InRecoverySection
<1> QED
  BY <1>1, <1>2, <1>5 DEF Replaced, Fallback

LEMMA UnreadFacts == /\ IsState(Unread) /\ Unread.section # "Recovery"
                     /\ \A plain \in BOOLEAN : Agree(plain, Unread, Unread)
<1>1. Unread.section # "Recovery"
  BY Zenon DEF Unread
<1>2. Unread.config = DefaultConfig /\ Unread = [section |-> Unread.section, config |-> Unread.config]
  BY Zenon DEF Unread
<1>3. DefaultConfig = [key \in Keys |-> DefaultConfig[key]] /\ DefaultConfig[Fallback] = TRUE
  BY DEF DefaultConfig, Keys, Fallback
<1> QED
  BY <1>1, <1>2, <1>3 DEF IsState, Agree

LEMMA MigratedFile ==
    ASSUME NEW file \in Seq(Lines)
    PROVE  LET new == EnableResetRestartFallback(file) IN
           /\ new \in Seq(Lines) /\ Len(new) = Len(file)
           /\ \A n \in 1 .. Len(file) : n \in Replaced(file) =>
                /\ file[n].kind = "setting" /\ file[n].key = Fallback
                /\ new[n] = [file[n] EXCEPT !.value = TrueWord]
           /\ \A n \in 1 .. Len(file) : n \notin Replaced(file) => new[n] = file[n]
<1> DEFINE new == EnableResetRestartFallback(file)
<1>1. DOMAIN file = 1 .. Len(file) /\ Len(file) \in Nat /\ \A n \in 1 .. Len(file) : file[n] \in Lines
  BY LenProperties, ElementOfSeq
<1>2. new = [n \in 1 .. Len(file) |-> IF n \in Replaced(file)
                                      THEN [file[n] EXCEPT !.value = TrueWord] ELSE file[n]]
  BY <1>1 DEF EnableResetRestartFallback
<1>3. \A n \in Replaced(file) : file[n].kind = "setting" /\ file[n].key = Fallback
  BY DEF Replaced, Fallback
<1> HIDE DEF new
<1>4. \A n \in 1 .. Len(file) : new[n] \in Lines
  BY <1>1, <1>2, <1>3, LineMigrated
<1>5. new \in Seq(Lines)
  BY <1>1, <1>2, <1>4, IsASeq
<1>6. Len(new) = Len(file)
  BY <1>1, <1>2, <1>5
<1> QED
  BY <1>2, <1>3, <1>5, <1>6 DEF new

Final(key, value) == IF key \in DOMAIN Limits THEN Clamp(value, Limits[key]) ELSE value

LEMMA LoadConfigOf ==
    ASSUME NEW file, NEW state, IsState(state), FoldLeft(Load, Unread, file) = state
    PROVE  LoadConfig(file) = [key \in Keys |-> Final(key, state.config[key])]
<1>1. DOMAIN state.config = Keys
  BY DEF IsState
<1> QED
  BY <1>1, Zenon DEF LoadConfig, Final

LEMMA MigrationLoads ==
    ASSUME NEW file \in Seq(Lines)
    PROVE  LET was == LoadConfig(file)
               is == LoadConfig(EnableResetRestartFallback(file))
           IN /\ DOMAIN was = Keys
              /\ \A key \in Keys \ {Fallback} : is[key] = was[key]
              /\ was[Fallback] = TRUE \/ Plain(file) => is[Fallback] = TRUE
<1> DEFINE new == EnableResetRestartFallback(file)
           n == Len(file)
           plain == Plain(file)
<1>0. plain \in BOOLEAN
  BY DEF Plain
<1>1. /\ n \in Nat /\ DOMAIN file = 1 .. n
      /\ \A k \in 1 .. n : file[k] \in Lines
  BY LenProperties, ElementOfSeq
<1>2. new \in Seq(Lines) /\ Len(new) = n
  BY MigratedFile
<1>3. DOMAIN new = 1 .. n
  BY <1>2, LenProperties
<1>4. PICK a : Reads(a, Unread, file, n)
  BY <1>1, LoadStates
<1> HIDE DEF new
<1>5. PICK b : Reads(b, Unread, new, n)
  BY <1>1, <1>3, LoadStates
<1> HIDE DEF n, plain
<1> DEFINE Read(k) == /\ Agree(plain, a[k], b[k]) /\ (plain => InSection(file, k, a[k]))
                      /\ k = 0 => a[k].section # "Recovery"
           P == {k \in 0 .. n : Read(k)}
<1>6. 0 \in P
  BY <1>0, <1>1, <1>4, <1>5, UnreadFacts DEF InSection, Reads
<1>7. ASSUME NEW k \in 0 .. n, k \in P, k < n  PROVE k + 1 \in P
  <2>1. k + 1 \in 1 .. n /\ (k + 1) - 1 = k /\ k + 1 \in 0 .. n /\ k + 1 # 0
    BY <1>1, <1>7
  <2>2. Read(k) /\ file[k + 1] \in Lines
    BY <1>1, <1>7, <2>1
  <2>3. a[k + 1] = Load(a[k], file[k + 1]) /\ b[k + 1] = Load(b[k], new[k + 1])
    BY <1>4, <1>5, <2>1 DEF Reads
  <2>4. plain => InSection(file, k + 1, a[k + 1])
    BY <1>7, <2>2, <2>3, SectionFollowed DEF Agree, n, plain
  <2>5. Agree(plain, a[k + 1], b[k + 1])
    <3>1. CASE k + 1 \in Replaced(file)
      <4>1. file[k + 1].kind = "setting" /\ file[k + 1].key = Fallback
            /\ new[k + 1] = [file[k + 1] EXCEPT !.value = TrueWord]
        BY <2>1, <3>1, MigratedFile DEF new, n
      <4> QED
        BY <1>0, <2>2, <2>3, <4>1, MigratedLineAgrees
    <3>2. CASE k + 1 \notin Replaced(file)
      <4>1. new[k + 1] = file[k + 1]
        BY <2>1, <3>2, MigratedFile DEF new, n
      <4>2. plain => ~Disables(a[k], file[k + 1])
        BY <2>1, <2>2, <3>2, DisablingReplaced DEF n, plain
      <4> QED
        BY <1>0, <2>2, <2>3, <4>1, <4>2, SameLineAgrees
    <3> QED
      BY <3>1, <3>2
  <2> QED
    BY <2>1, <2>4, <2>5
<1> HIDE DEF P
<1>8. n \in P
  BY <1>1, <1>6, <1>7, InductionUpTo
<1>9. Agree(plain, a[n], b[n])
  BY <1>8 DEF P
<1>10. LoadConfig(file) = [key \in Keys |-> Final(key, a[n].config[key])]
  BY <1>4, <1>9, LoadConfigOf DEF Agree, Reads
<1>11. LoadConfig(new) = [key \in Keys |-> Final(key, b[n].config[key])]
  BY <1>5, <1>9, LoadConfigOf DEF Agree, Reads
<1>12. \A key \in Keys \ {Fallback} : LoadConfig(new)[key] = LoadConfig(file)[key]
  BY <1>9, <1>10, <1>11 DEF Agree
<1>13. LoadConfig(file)[Fallback] = TRUE \/ plain => LoadConfig(new)[Fallback] = TRUE
  <2>1. LoadConfig(new)[Fallback] = b[n].config[Fallback]
        /\ LoadConfig(file)[Fallback] = a[n].config[Fallback]
    BY <1>10, <1>11, KeyFacts DEF Final
  <2> QED
    BY <1>9, <2>1 DEF Agree
<1> QED
  BY <1>10, <1>12, <1>13 DEF new, plain

(* The state LoadConfig ends in keeps the fallback a Boolean.                  *)
LEMMA FallbackIsBoolean ==
    ASSUME NEW file \in Seq(Lines)
    PROVE  LoadConfig(file)[Fallback] \in BOOLEAN
<1> DEFINE n == Len(file)
<1>1. /\ n \in Nat /\ DOMAIN file = 1 .. n
      /\ \A k \in 1 .. n : file[k] \in Lines
  BY LenProperties, ElementOfSeq
<1>2. PICK a : Reads(a, Unread, file, n)
  BY <1>1, LoadStates
<1> HIDE DEF n
<1> DEFINE Typed(k) == IsState(a[k]) /\ a[k].config[Fallback] \in BOOLEAN
           P == {k \in 0 .. n : Typed(k)}
<1>3. 0 \in P
  <2>1. IsState(Unread) /\ Agree(TRUE, Unread, Unread)
    BY UnreadFacts
  <2>2. Unread.config[Fallback] = TRUE
    BY <2>1 DEF Agree
  <2>3. a[0] = Unread
    BY <1>2 DEF Reads
  <2>4. Typed(0)
    BY Zenon, <2>1, <2>2, <2>3
  <2>5. 0 \in 0 .. n
    BY <1>1
  <2> QED
    BY <2>4, <2>5
<1>4. ASSUME NEW k \in 0 .. n, k \in P, k < n  PROVE k + 1 \in P
  <2>1. k + 1 \in 1 .. n /\ (k + 1) - 1 = k /\ k + 1 \in 0 .. n
    BY <1>1, <1>4
  <2> DEFINE line == file[k + 1]
  <2>2. a[k + 1] = Load(a[k], line) /\ line \in Lines /\ Typed(k)
    BY <1>1, <1>2, <1>4, <2>1 DEF Reads
  <2>3. /\ IsState(a[k + 1])
        /\ \A key \in Keys : a[k + 1].config[key] =
             IF Sets(a[k], line) /\ line.key = key THEN Parsed(line, a[k].config[key])
             ELSE a[k].config[key]
    <3>1. IsState(a[k]) /\ line \in Lines
      BY <2>2
    <3> HIDE DEF line
    <3> QED
      BY <2>2, <3>1, LoadKeeps
  <2>4. ASSUME line.key = Fallback  PROVE Parsed(line, a[k].config[Fallback]) \in BOOLEAN
    BY <2>2, <2>4, KeyFacts DEF Parsed, ParseBool
  <2> HIDE DEF line
  <2>5. Typed(k + 1)
    BY <2>2, <2>3, <2>4, KeyFacts
  <2> QED
    BY <2>1, <2>5
<1> HIDE DEF P
<1>5. n \in P
  <2>1. \A k \in 0 .. n : k \in P /\ k < n => k + 1 \in P
    BY <1>4
  <2> QED
    BY <1>1, <1>3, <2>1, InductionUpTo
<1>6. IsState(a[n]) /\ a[n].config[Fallback] \in BOOLEAN
  BY <1>5 DEF P
<1>7. LoadConfig(file) = [key \in Keys |-> Final(key, a[n].config[key])]
  BY <1>2, <1>6, LoadConfigOf DEF Reads
<1> QED
  BY <1>6, <1>7, KeyFacts DEF Final

LEMMA MigrationSettles ==
    ASSUME NEW file \in Seq(Lines)
    PROVE  Replaced(EnableResetRestartFallback(file)) = {}
<1> DEFINE new == EnableResetRestartFallback(file)
<1>1. /\ Len(file) \in Nat /\ DOMAIN file = 1 .. Len(file)
      /\ \A n \in 1 .. Len(file) : file[n] \in Lines
  BY LenProperties, ElementOfSeq
<1>2. new \in Seq(Lines) /\ Len(new) = Len(file)
  BY MigratedFile
<1>3. DOMAIN new = 1 .. Len(file)
  BY <1>2, LenProperties
<1>4. /\ \A n \in 1 .. Len(file) : n \in Replaced(file) =>
           new[n] = [file[n] EXCEPT !.value = TrueWord] /\ file[n].kind = "setting"
      /\ \A n \in 1 .. Len(file) : n \notin Replaced(file) => new[n] = file[n]
  BY MigratedFile
<1> HIDE DEF new
<1>5. ASSUME NEW n \in 1 .. Len(file), n \in Replaced(file)
      PROVE  /\ new[n].kind = "setting" /\ new[n].bom = file[n].bom /\ new[n].pad = file[n].pad
             /\ new[n].value = TrueWord
  <2>1. /\ file[n] \in Lines /\ file[n].kind = "setting"
        /\ new[n] = [file[n] EXCEPT !.value = TrueWord]
    BY <1>1, <1>4, <1>5
  <2> QED
    BY <2>1, LineMigrated
<1>6. \A n \in 1 .. Len(file) :
        /\ new[n].kind = file[n].kind /\ new[n].bom = file[n].bom /\ new[n].pad = file[n].pad
        /\ file[n].kind = "section" => new[n] = file[n]
  BY <1>4, <1>5
<1>7. \A n \in 1 .. Len(file) : Headers(new, n) = Headers(file, n)
  BY <1>1, <1>6 DEF Headers
<1>8. \A n \in 1 .. Len(file) : InRecoverySection(new, n) <=> InRecoverySection(file, n)
  <2>1. \A n \in 1 .. Len(file) : \A m \in Headers(file, n) : new[m] = file[m]
    BY <1>1, <1>6 DEF Headers
  <2> QED
    BY <1>7, <2>1 DEF InRecoverySection
<1>9. ASSUME NEW n \in Replaced(new)  PROVE FALSE
  <2>1. /\ n \in 1 .. Len(file) /\ new[n].kind = "setting" /\ (n = 1 \/ ~new[n].bom)
        /\ new[n].pad = "none"
        /\ new[n].key = Fallback /\ InRecoverySection(new, n) /\ IsFalseValue(new[n].value)
    BY <1>3 DEF Replaced, Fallback
  <2>2. n \in Replaced(file)
    BY <1>1, <1>4, <1>8, <2>1 DEF Replaced, Fallback
  <2>3. new[n].value.bool = "true"
    BY <1>5, <2>1, <2>2 DEF TrueWord, Value
  <2> QED
    BY <2>1, <2>3 DEF IsFalseValue
<1> QED
  BY <1>9 DEF new

LEMMA MigrationIsSound ==
    ASSUME NEW file \in Seq(Lines)
    PROVE  MigrationSound(file)
<1> DEFINE was == LoadConfig(file)
           is == LoadConfig(EnableResetRestartFallback(file))
<1>1. /\ DOMAIN was = Keys
      /\ \A key \in Keys \ {Fallback} : is[key] = was[key]
      /\ was[Fallback] = TRUE \/ Plain(file) => is[Fallback] = TRUE
  BY MigrationLoads
<1>2. Replaced(EnableResetRestartFallback(file)) = {}
  BY MigrationSettles
<1>3. was[Fallback] \in BOOLEAN
  BY FallbackIsBoolean
<1> HIDE DEF was, is
<1>4. /\ \A key \in DOMAIN was \ {"ResetRestartFallback"} : is[key] = was[key]
      /\ was.ResetRestartFallback \/ Plain(file) => is.ResetRestartFallback
  BY <1>1, <1>3 DEF Fallback
<1> QED
  BY <1>2, <1>4 DEF MigrationSound, was, is

(* A file both trim alike that the migration has nothing to do in loads the    *)
(* fallback enabled, and so does one it has edited.                            *)
LEMMA MigratedEnables ==
    ASSUME NEW file \in Seq(Lines)
    PROVE  /\ EnableResetRestartFallback(file) \in Seq(Lines)
           /\ Plain(EnableResetRestartFallback(file)) =>
                LoadConfig(EnableResetRestartFallback(file)).ResetRestartFallback
           /\ Plain(file) /\ Replaced(file) = {} => LoadConfig(file).ResetRestartFallback
<1> DEFINE new == EnableResetRestartFallback(file)
<1>1. new \in Seq(Lines)
  BY MigratedFile
<1>2. Plain(file) => LoadConfig(new)[Fallback] = TRUE
  BY MigrationLoads
<1>3. Plain(new) => Plain(file)
  <2>1. /\ DOMAIN file = 1 .. Len(file) /\ DOMAIN new = DOMAIN file
        /\ \A n \in 1 .. Len(file) : file[n] \in Lines
    BY LenProperties, ElementOfSeq DEF EnableResetRestartFallback
  <2>2. ASSUME NEW n \in DOMAIN file  PROVE new[n].pad = file[n].pad
    <3>1. file[n] \in Lines
      BY <2>1
    <3>2. CASE n \in Replaced(file)
      <4>1. /\ file[n].kind = "setting" /\ new[n] = [file[n] EXCEPT !.value = TrueWord]
        BY <2>1, <3>2, MigratedFile
      <4> QED
        BY <3>1, <4>1, LineMigrated
    <3>3. CASE n \notin Replaced(file)
      <4>1. new[n] = file[n]
        BY <2>1, <3>3, MigratedFile
      <4> QED
        BY <4>1
    <3> QED
      BY <3>2, <3>3
  <2> HIDE DEF new
  <2> QED
    BY <2>1, <2>2 DEF Plain
<1>4. ASSUME Replaced(file) = {}  PROVE new = file
  <2>1. new = [n \in DOMAIN file |-> file[n]]
    BY <1>4 DEF EnableResetRestartFallback
  <2>2. file = [n \in DOMAIN file |-> file[n]]
    BY LenProperties
  <2> QED
    BY <2>1, <2>2
<1> HIDE DEF new
<1>5. /\ Plain(new) => LoadConfig(new).ResetRestartFallback
      /\ Plain(file) /\ Replaced(file) = {} => LoadConfig(file).ResetRestartFallback
  BY <1>2, <1>3, <1>4 DEF Fallback
<1> QED
  BY <1>1, <1>5 DEF new

-----------------------------------------------------------------------------
(* The installer                                                               *)

IniFiles == Seq(Lines)

LEMMA IniFacts == /\ Absent \notin IniFiles /\ Torn \notin IniFiles /\ Absent # Torn
                  /\ Replaced(Torn) = {}
<1>1. Absent[1].kind = "absent" /\ Torn[1].kind = "torn" /\ DOMAIN Torn = {1} /\ Len(Absent) = 1
      /\ Len(Torn) = 1
  BY DEF Absent, Torn
<1>2. \A file \in IniFiles : Len(file) = 1 => file[1] \in Lines
  BY ElementOfSeq DEF IniFiles
<1>3. Absent \notin IniFiles /\ Torn \notin IniFiles
  BY <1>1, <1>2, LineFacts
<1>4. Replaced(Torn) = {}
  BY <1>1 DEF Replaced
<1> QED
  BY <1>1, <1>3, <1>4

Contents == {"absent", "ours", "foreign", "torn"}
Copied == {"migrate", "temporary", "replace", "override"}
Installing == {"asi", "ini", "loader", "runtime"} \cup Copied

InstallTypes ==
    /\ ini \in IniFiles \cup {Absent, Torn} /\ before \in IniFiles \cup {Absent, Torn}
    /\ dir \in [Files -> Contents]
    /\ answer \in [replace : BOOLEAN, remove : SUBSET {"runtime", "loader", "override"},
                   failed : BOOLEAN]

LoadsFallback == IF ExistingIni /\ before = Torn THEN ini = Torn
                 ELSE ini \in IniFiles /\ (Plain(ini) => LoadConfig(ini).ResetRestartFallback)

(* What a run has done when it gets to a call.                                 *)
IniProgress ==
    /\ run \in {"asi", "ini"} => ini = before
    /\ run \in {"loader", "runtime", "migrate", "temporary", "replace"} =>
         ini = IF ExistingIni THEN before ELSE Packaged
    /\ run \in {"temporary", "replace"} => ExistingIni /\ Replaced(ini) # {}
    /\ run = "override" => LoadsFallback
CopyProgress ==
    /\ run \in Installing => answer.replace \/ dir["loader"] # "absent"
    /\ run \in Installing \ {"asi"} => dir["asi"] = "ours"
    /\ run \in Copied \cup {"runtime"} =>
         dir["loader"] # "absent" /\ (answer.replace => dir["loader"] = "ours")
    /\ run \in Copied => dir["runtime"] = "ours"
DeleteProgress ==
    ~answer.failed =>
      /\ run \in {"uninstall ini", "uninstall runtime", "uninstall loader", "uninstall override",
                 "report"} => "asi" \in missed \/ Gone("asi")
      /\ run \in {"uninstall runtime", "uninstall loader", "uninstall override", "report"} =>
           "ini" \in missed \/ Gone("ini")
      /\ run \in {"uninstall loader", "uninstall override", "report"} =>
           ("runtime" \in answer.remove => "runtime" \in missed \/ Gone("runtime"))
      /\ run \in {"uninstall override", "report"} =>
           ("loader" \in answer.remove => "loader" \in missed \/ Gone("loader"))
      /\ run = "report" =>
           ("override" \in answer.remove => "override" \in missed \/ Gone("override"))
Reported == exit \in {"installed", "uninstalled"} => run = "none"
InstallInv == /\ InstallTypes /\ IniProgress /\ CopyProgress /\ DeleteProgress
              /\ Reported /\ ExitTruthful

(* Each step keeps it.                                                         *)
LEMMA WinMainKeeps == InstallInv /\ WinMain => InstallInv'
<1> SUFFICES ASSUME InstallInv, WinMain  PROVE InstallInv'
  OBVIOUS
<1>1. InstallTypes'
  BY DEF InstallInv, WinMain, Ends, Goes, InstallTypes
<1>2. IniProgress'
  BY DEF InstallInv, WinMain, Ends, Goes, InstallTypes, IniProgress, LoadsFallback, ExistingIni, Copied,
    Installing
<1>3. CopyProgress'
  BY DEF InstallInv, WinMain, Ends, Goes, InstallTypes, CopyProgress, Copied, Installing, Files
<1>4. DeleteProgress'
  BY DEF InstallInv, WinMain, Ends, Goes, InstallTypes, DeleteProgress, Gone, Files
<1>5. Reported'
  BY DEF InstallInv, WinMain, Ends, Goes, Reported
<1>6. ExitTruthful'
  BY DEF InstallInv, WinMain, Ends, Goes, Reported, ExitTruthful, ExistingIni, Gone
<1> QED
  BY <1>1, <1>2, <1>3, <1>4, <1>5, <1>6 DEF InstallInv

LEMMA UpgradeKeeps == InstallInv /\ UpgradeExistingIni => InstallInv'
<1> SUFFICES ASSUME InstallInv, UpgradeExistingIni  PROVE InstallInv'
  OBVIOUS
<1>1. InstallTypes'
  BY DEF InstallInv, UpgradeExistingIni, ExistingIni, Ends, Goes, InstallTypes
<1>2. IniProgress'
  BY IniFacts, MigratedEnables, InstallerAssumption DEF InstallInv, UpgradeExistingIni, ExistingIni, Ends,
    Goes, IniFiles, InstallTypes, IniProgress, LoadsFallback, ExistingIni, Copied, Installing
<1>3. CopyProgress'
  BY DEF InstallInv, UpgradeExistingIni, ExistingIni, Ends, Goes, InstallTypes, CopyProgress, Copied,
    Installing, Files
<1>4. DeleteProgress'
  BY DEF InstallInv, UpgradeExistingIni, ExistingIni, Ends, Goes, InstallTypes, DeleteProgress, Gone, Files
<1>5. Reported'
  BY DEF InstallInv, UpgradeExistingIni, ExistingIni, Ends, Goes, Reported
<1>6. ExitTruthful'
  BY DEF InstallInv, UpgradeExistingIni, ExistingIni, Ends, Goes, Reported, ExitTruthful, ExistingIni, Gone
<1> QED
  BY <1>1, <1>2, <1>3, <1>4, <1>5, <1>6 DEF InstallInv

LEMMA TemporaryKeeps == InstallInv /\ WriteTemporary => InstallInv'
<1> SUFFICES ASSUME InstallInv, WriteTemporary  PROVE InstallInv'
  OBVIOUS
<1>1. InstallTypes'
  BY DEF InstallInv, WriteTemporary, Ends, Goes, InstallTypes
<1>2. IniProgress'
  BY DEF InstallInv, WriteTemporary, Ends, Goes, InstallTypes, IniProgress, LoadsFallback, ExistingIni,
    Copied, Installing
<1>3. CopyProgress'
  BY DEF InstallInv, WriteTemporary, Ends, Goes, InstallTypes, CopyProgress, Copied, Installing,
    Files
<1>4. DeleteProgress'
  BY DEF InstallInv, WriteTemporary, Ends, Goes, InstallTypes, DeleteProgress, Gone, Files
<1>5. Reported'
  BY DEF InstallInv, WriteTemporary, Ends, Goes, Reported
<1>6. ExitTruthful'
  BY DEF InstallInv, WriteTemporary, Ends, Goes, Reported, ExitTruthful, ExistingIni, Gone
<1> QED
  BY <1>1, <1>2, <1>3, <1>4, <1>5, <1>6 DEF InstallInv

LEMMA ReplaceKeeps == InstallInv /\ ReplaceIni => InstallInv'
<1> SUFFICES ASSUME InstallInv, ReplaceIni  PROVE InstallInv'
  OBVIOUS
<1>1. InstallTypes'
  <2>1. ini \in IniFiles
    BY IniFacts DEF InstallInv, ReplaceIni, IniProgress, ExistingIni, InstallTypes
  <2>2. ini' \in IniFiles /\ UNCHANGED <<dir, before, answer>>
    BY <2>1, MigratedEnables DEF ReplaceIni, IniFiles
  <2> QED
    BY <2>2 DEF InstallInv, InstallTypes
<1>2. IniProgress'
  BY IniFacts, MigratedEnables DEF InstallInv, ReplaceIni, Ends, Goes, IniFiles, InstallTypes,
    IniProgress, LoadsFallback, ExistingIni, Copied, Installing
<1>3. CopyProgress'
  BY DEF InstallInv, ReplaceIni, Ends, Goes, InstallTypes, CopyProgress, Copied, Installing, Files
<1>4. DeleteProgress'
  BY DEF InstallInv, ReplaceIni, Ends, Goes, InstallTypes, DeleteProgress, Gone, Files
<1>5. Reported'
  BY DEF InstallInv, ReplaceIni, Ends, Goes, Reported
<1>6. ExitTruthful'
  BY DEF InstallInv, ReplaceIni, Ends, Goes, Reported, ExitTruthful, ExistingIni, Gone
<1> QED
  BY <1>1, <1>2, <1>3, <1>4, <1>5, <1>6 DEF InstallInv

LEMMA OverrideKeeps == InstallInv /\ SetWineOverride => InstallInv'
<1> SUFFICES ASSUME InstallInv, SetWineOverride  PROVE InstallInv'
  OBVIOUS
<1>1. InstallTypes'
  BY DEF InstallInv, SetWineOverride, Ends, Goes, InstallTypes
<1>2. IniProgress'
  BY DEF InstallInv, SetWineOverride, Ends, Goes, InstallTypes, IniProgress, LoadsFallback, ExistingIni,
    Copied, Installing
<1>3. CopyProgress'
  BY DEF InstallInv, SetWineOverride, Ends, Goes, InstallTypes, CopyProgress, Copied,
    Installing, Files
<1>4. DeleteProgress'
  BY DEF InstallInv, SetWineOverride, Ends, Goes, InstallTypes, DeleteProgress, Gone, Files
<1>5. Reported'
  BY DEF InstallInv, SetWineOverride, Ends, Goes, Reported
<1>6. ExitTruthful'
  BY IniFacts DEF InstallInv, SetWineOverride, Ends, Goes, InstallTypes, IniProgress,
    CopyProgress, LoadsFallback, ExistingIni, Copied, Installing, Reported, ExitTruthful, ExistingIni, Gone
<1> QED
  BY <1>1, <1>2, <1>3, <1>4, <1>5, <1>6 DEF InstallInv

LEMMA KilledKeeps == InstallInv /\ Killed => InstallInv'
<1> SUFFICES ASSUME InstallInv, Killed  PROVE InstallInv'
  OBVIOUS
<1>1. InstallTypes'
  BY DEF InstallInv, Killed, InstallTypes
<1>2. IniProgress'
  BY DEF InstallInv, Killed, InstallTypes, IniProgress, LoadsFallback, ExistingIni, Copied, Installing
<1>3. CopyProgress'
  BY DEF InstallInv, Killed, InstallTypes, CopyProgress, Copied, Installing, Files
<1>4. DeleteProgress'
  BY DEF InstallInv, Killed, InstallTypes, DeleteProgress, Gone, Files
<1>5. Reported'
  BY DEF InstallInv, Killed, Reported
<1>6. ExitTruthful'
  BY DEF InstallInv, Killed, Reported, ExitTruthful, ExistingIni, Gone
<1> QED
  BY <1>1, <1>2, <1>3, <1>4, <1>5, <1>6 DEF InstallInv

LEMMA CopyAsiKeeps == InstallInv /\ CopyPayloadFile("asi") => InstallInv'
<1> SUFFICES ASSUME InstallInv, CopyPayloadFile("asi")  PROVE InstallInv'
  OBVIOUS
<1>1. InstallTypes'
  <2>1. dir \in [Files -> Contents] /\ "asi" \in Files
    BY DEF InstallInv, InstallTypes, Files
  <2>2. \/ dir' = dir
        \/ \E how \in {"ours", "absent", "torn"} : dir' = [dir EXCEPT !["asi"] = how]
    BY DEF CopyPayloadFile
  <2>3. dir' \in [Files -> Contents]
    BY <2>1, <2>2 DEF Contents
  <2>4. UNCHANGED <<ini, before, answer>>
    BY DEF CopyPayloadFile, Files
  <2> QED
    BY <2>3, <2>4 DEF InstallInv, InstallTypes
<1>2. IniProgress'
  BY IniFacts, InstallerAssumption DEF InstallInv, CopyPayloadFile, Skipped, ExistingIni, After, Ends, Goes,
    Files, IniFiles, InstallTypes, IniProgress, LoadsFallback, ExistingIni, Copied, Installing
<1>3. CopyProgress'
  BY DEF InstallInv, CopyPayloadFile, Skipped, ExistingIni, After, Ends, Goes, InstallTypes, CopyProgress,
    Copied, Installing, Files
<1>4. DeleteProgress'
  BY DEF InstallInv, CopyPayloadFile, Skipped, ExistingIni, After, Ends, Goes, InstallTypes, DeleteProgress,
    Gone, Files
<1>5. Reported'
  BY DEF InstallInv, CopyPayloadFile, Skipped, ExistingIni, After, Ends, Goes, Files, Reported
<1>6. ExitTruthful'
  BY DEF InstallInv, CopyPayloadFile, Skipped, ExistingIni, After, Ends, Goes, Files, Reported, ExitTruthful, ExistingIni, Gone
<1> QED
  BY <1>1, <1>2, <1>3, <1>4, <1>5, <1>6 DEF InstallInv

LEMMA CopyIniKeeps == InstallInv /\ CopyPayloadFile("ini") => InstallInv'
<1> SUFFICES ASSUME InstallInv, CopyPayloadFile("ini")  PROVE InstallInv'
  OBVIOUS
<1>1. InstallTypes'
  BY InstallerAssumption DEF InstallInv, CopyPayloadFile, Skipped, ExistingIni, After, Ends, Goes, Files,
    IniFiles, InstallTypes
<1>2. IniProgress'
  BY IniFacts, InstallerAssumption DEF InstallInv, CopyPayloadFile, Skipped, ExistingIni, After, Ends, Goes,
    Files, IniFiles, InstallTypes, IniProgress, LoadsFallback, ExistingIni, Copied, Installing
<1>3. CopyProgress'
  BY DEF InstallInv, CopyPayloadFile, Skipped, ExistingIni, After, Ends, Goes, InstallTypes, CopyProgress,
    Copied, Installing, Files
<1>4. DeleteProgress'
  BY DEF InstallInv, CopyPayloadFile, Skipped, ExistingIni, After, Ends, Goes, InstallTypes, DeleteProgress,
    Gone, Files
<1>5. Reported'
  BY DEF InstallInv, CopyPayloadFile, Skipped, ExistingIni, After, Ends, Goes, Files, Reported
<1>6. ExitTruthful'
  BY DEF InstallInv, CopyPayloadFile, Skipped, ExistingIni, After, Ends, Goes, Files, Reported, ExitTruthful, ExistingIni, Gone
<1> QED
  BY <1>1, <1>2, <1>3, <1>4, <1>5, <1>6 DEF InstallInv

LEMMA CopyLoaderKeeps == InstallInv /\ CopyPayloadFile("loader") => InstallInv'
<1> SUFFICES ASSUME InstallInv, CopyPayloadFile("loader")  PROVE InstallInv'
  OBVIOUS
<1>1. InstallTypes'
  <2>1. dir \in [Files -> Contents] /\ "loader" \in Files
    BY DEF InstallInv, InstallTypes, Files
  <2>2. \/ dir' = dir
        \/ \E how \in {"ours", "absent", "torn"} : dir' = [dir EXCEPT !["loader"] = how]
    BY DEF CopyPayloadFile
  <2>3. dir' \in [Files -> Contents]
    BY <2>1, <2>2 DEF Contents
  <2>4. UNCHANGED <<ini, before, answer>>
    BY DEF CopyPayloadFile, Files
  <2> QED
    BY <2>3, <2>4 DEF InstallInv, InstallTypes
<1>2. IniProgress'
  BY IniFacts, InstallerAssumption DEF InstallInv, CopyPayloadFile, Skipped, ExistingIni, After, Ends, Goes,
    Files, IniFiles, InstallTypes, IniProgress, LoadsFallback, ExistingIni, Copied, Installing
<1>3. CopyProgress'
  BY DEF InstallInv, CopyPayloadFile, Skipped, ExistingIni, After, Ends, Goes, InstallTypes, CopyProgress,
    Copied, Installing, Files
<1>4. DeleteProgress'
  BY DEF InstallInv, CopyPayloadFile, Skipped, ExistingIni, After, Ends, Goes, InstallTypes, DeleteProgress,
    Gone, Files
<1>5. Reported'
  BY DEF InstallInv, CopyPayloadFile, Skipped, ExistingIni, After, Ends, Goes, Files, Reported
<1>6. ExitTruthful'
  BY DEF InstallInv, CopyPayloadFile, Skipped, ExistingIni, After, Ends, Goes, Files, Reported, ExitTruthful, ExistingIni, Gone
<1> QED
  BY <1>1, <1>2, <1>3, <1>4, <1>5, <1>6 DEF InstallInv

LEMMA CopyRuntimeKeeps == InstallInv /\ CopyPayloadFile("runtime") => InstallInv'
<1> SUFFICES ASSUME InstallInv, CopyPayloadFile("runtime")  PROVE InstallInv'
  OBVIOUS
<1>1. InstallTypes'
  <2>1. dir \in [Files -> Contents] /\ "runtime" \in Files
    BY DEF InstallInv, InstallTypes, Files
  <2>2. \/ dir' = dir
        \/ \E how \in {"ours", "absent", "torn"} : dir' = [dir EXCEPT !["runtime"] = how]
    BY DEF CopyPayloadFile
  <2>3. dir' \in [Files -> Contents]
    BY <2>1, <2>2 DEF Contents
  <2>4. UNCHANGED <<ini, before, answer>>
    BY DEF CopyPayloadFile, Files
  <2> QED
    BY <2>3, <2>4 DEF InstallInv, InstallTypes
<1>2. IniProgress'
  BY IniFacts, InstallerAssumption DEF InstallInv, CopyPayloadFile, Skipped, ExistingIni, After, Ends, Goes,
    Files, IniFiles, InstallTypes, IniProgress, LoadsFallback, ExistingIni, Copied, Installing
<1>3. CopyProgress'
  BY DEF InstallInv, CopyPayloadFile, Skipped, ExistingIni, After, Ends, Goes, InstallTypes, CopyProgress,
    Copied, Installing, Files
<1>4. DeleteProgress'
  BY DEF InstallInv, CopyPayloadFile, Skipped, ExistingIni, After, Ends, Goes, InstallTypes, DeleteProgress,
    Gone, Files
<1>5. Reported'
  BY DEF InstallInv, CopyPayloadFile, Skipped, ExistingIni, After, Ends, Goes, Files, Reported
<1>6. ExitTruthful'
  BY DEF InstallInv, CopyPayloadFile, Skipped, ExistingIni, After, Ends, Goes, Files, Reported, ExitTruthful, ExistingIni, Gone
<1> QED
  BY <1>1, <1>2, <1>3, <1>4, <1>5, <1>6 DEF InstallInv

(* One file or the override is removed, or the failure noted, or it is missed. *)
LEMMA Deletes ==
    ASSUME NEW what \in Files \cup {"ini", "override"}, NEW next, DeleteIfPresent(what, next),
           dir \in [Files -> Contents]
    PROVE  /\ dir' \in [Files -> Contents]
           /\ answer' = answer \/ answer' = [answer EXCEPT !.failed = TRUE]
           /\ (ini' = ini \/ ini' = Absent) /\ before' = before
           /\ missed \subseteq missed'
           /\ \A other \in Files \cup {"ini", "override"} : Gone(other) => Gone(other)'
           /\ Removes(what) => Gone(what)' \/ what \in missed' \/ answer' = [answer EXCEPT !.failed = TRUE]
<1>1. CASE Delete(what) /\ UNCHANGED <<answer, missed, before>>
  <2>1. CASE what = "ini"
    BY <1>1, <2>1 DEF Delete, Gone, Files
  <2>2. CASE what = "override"
    BY <1>1, <2>2 DEF Delete, Gone, Files
  <2>3. CASE what \in Files
    <3>1. dir' = [dir EXCEPT ![what] = "absent"] /\ UNCHANGED <<ini, override>>
      BY <1>1, <2>3 DEF Delete, Files
    <3>2. dir' \in [Files -> Contents]
      BY <2>3, <3>1 DEF Contents
    <3>3. \A f \in Files : dir'[f] = IF f = what THEN "absent" ELSE dir[f]
      BY <2>3, <3>1
    <3> QED
      BY <1>1, <2>3, <3>1, <3>2, <3>3 DEF Gone, Files
  <2> QED
    BY <2>1, <2>2, <2>3
<1>2. CASE /\ UNCHANGED <<dir, ini, override, before>>
           /\ \/ answer' = [answer EXCEPT !.failed = TRUE] /\ UNCHANGED missed
              \/ missed' = missed \cup {what} /\ UNCHANGED answer
              \/ (~Removes(what) \/ Gone(what)) /\ UNCHANGED <<answer, missed>>
  BY <1>2 DEF Gone
<1> QED
  BY <1>1, <1>2 DEF DeleteIfPresent

(* What one call of an uninstallation does for the file it is about.           *)
Settled(what) == what \in missed \/ Gone(what)
Deleted(what, from, to) ==
    /\ \A other \in Files \cup {"ini", "override"} : Settled(other) => Settled(other)'
    /\ Removes(what) /\ ~answer'.failed => Settled(what)'
    /\ ~answer'.failed => ~answer.failed
    /\ answer'.remove = answer.remove
    /\ run = from /\ run' = to

LEMMA DeleteStep ==
    ASSUME DeleteProgress,
           \/ Deleted("asi", "uninstall", "uninstall ini")
           \/ Deleted("ini", "uninstall ini", "uninstall runtime")
           \/ Deleted("runtime", "uninstall runtime", "uninstall loader")
           \/ Deleted("loader", "uninstall loader", "uninstall override")
           \/ Deleted("override", "uninstall override", "report")
    PROVE  DeleteProgress'
<1>1. /\ Settled("asi") => Settled("asi")'
      /\ Settled("ini") => Settled("ini")'
      /\ Settled("runtime") => Settled("runtime")'
      /\ Settled("loader") => Settled("loader")'
      /\ Settled("override") => Settled("override")'
  BY DEF Deleted, Files
<1> SUFFICES ASSUME ~answer'.failed  PROVE DeleteProgress'
  BY DEF DeleteProgress
<1>2. ~answer.failed /\ answer'.remove = answer.remove
  BY DEF Deleted
<1>3. CASE Deleted("asi", "uninstall", "uninstall ini")
  BY <1>1, <1>2, <1>3 DEF DeleteProgress, Deleted, Removes, Settled
<1>4. CASE Deleted("ini", "uninstall ini", "uninstall runtime")
  BY <1>1, <1>2, <1>4 DEF DeleteProgress, Deleted, Removes, Settled
<1>5. CASE Deleted("runtime", "uninstall runtime", "uninstall loader")
  BY <1>1, <1>2, <1>5 DEF DeleteProgress, Deleted, Removes, Settled
<1>6. CASE Deleted("loader", "uninstall loader", "uninstall override")
  BY <1>1, <1>2, <1>6 DEF DeleteProgress, Deleted, Removes, Settled
<1>7. CASE Deleted("override", "uninstall override", "report")
  BY <1>1, <1>2, <1>7 DEF DeleteProgress, Deleted, Removes, Settled
<1> QED
  BY <1>3, <1>4, <1>5, <1>6, <1>7

LEMMA UninstallKeeps == InstallInv /\ UninstallPatch => InstallInv'
<1> SUFFICES ASSUME InstallInv, UninstallPatch  PROVE InstallInv'
  OBVIOUS
<1> DEFINE Whats == Files \cup {"ini", "override"}
           Step(what, from, to) == run = from /\ DeleteIfPresent(what, to)
<1>0. dir \in [Files -> Contents] /\ InstallTypes
  BY DEF InstallInv, InstallTypes
<1>1. \/ Step("asi", "uninstall", "uninstall ini")
      \/ Step("ini", "uninstall ini", "uninstall runtime")
      \/ Step("runtime", "uninstall runtime", "uninstall loader")
      \/ Step("loader", "uninstall loader", "uninstall override")
      \/ Step("override", "uninstall override", "report")
      \/ run = "report" /\ UNCHANGED <<dir, ini, override, answer, before, missed>>
         /\ run' = "none" /\ exit' = IF answer.failed THEN "failed" ELSE "uninstalled"
  BY DEF UninstallPatch, Ends
<1>2. CASE run = "report"
  <2>1. /\ UNCHANGED <<dir, ini, override, answer, before, missed>>
        /\ run' = "none" /\ exit' = IF answer.failed THEN "failed" ELSE "uninstalled"
    BY <1>1, <1>2
  <2>2. InstallTypes' /\ IniProgress' /\ CopyProgress' /\ DeleteProgress' /\ Reported'
    BY <1>0, <2>1 DEF InstallTypes, IniProgress, CopyProgress, DeleteProgress, Reported, Copied, Installing
  <2>3. ExitTruthful'
    <3>1. answer.remove \subseteq {"runtime", "loader", "override"}
      BY <1>0 DEF InstallTypes
    <3>2. exit' = "uninstalled" => ~answer.failed
      BY <2>1
    <3>3. exit' # "installed"
      BY <2>1
    <3>4. ~answer.failed => \A what \in ({"asi", "ini"} \cup answer.remove) \ missed : Gone(what)
      BY <1>2, <3>1 DEF InstallInv, DeleteProgress
    <3>5. \A what : Gone(what)' <=> Gone(what)
      BY <2>1 DEF Gone
    <3> QED
      BY <2>1, <3>2, <3>3, <3>4, <3>5 DEF ExitTruthful
  <2> QED
    BY <2>2, <2>3 DEF InstallInv
<1>3. ASSUME NEW what \in Whats, NEW from, NEW to, Step(what, from, to),
             to \in {"uninstall ini", "uninstall runtime", "uninstall loader", "uninstall override",
                     "report"},
             DeleteProgress'
      PROVE  InstallInv'
  <2>1. InstallTypes'
    BY <1>0, <1>3, Deletes DEF InstallTypes
  <2>2. run' = to /\ exit' = "nothing"
    BY <1>3 DEF DeleteIfPresent, Goes
  <2>3. IniProgress' /\ CopyProgress' /\ Reported' /\ ExitTruthful'
    BY <1>3, <2>2 DEF IniProgress, CopyProgress, Reported, ExitTruthful, Copied, Installing
  <2> QED
    BY <1>3, <2>1, <2>3 DEF InstallInv
<1>4. ASSUME NEW what \in Whats, NEW from, NEW to, Step(what, from, to)
      PROVE  Deleted(what, from, to)
  <2>1. DeleteIfPresent(what, to)
    BY <1>4
  <2>2. answer' = [answer EXCEPT !.failed = TRUE] => answer'.failed /\ answer'.remove = answer.remove
    BY <1>0 DEF InstallTypes
  <2>3. run = from /\ run' = to
    BY <1>4 DEF DeleteIfPresent, Goes
  <2> QED
    BY <1>0, <2>1, <2>2, <2>3, Deletes DEF Deleted, Settled
<1>5. DeleteProgress
  BY DEF InstallInv
<1> HIDE DEF Step
<1>6. CASE Step("asi", "uninstall", "uninstall ini")
  <2>1. "asi" \in Whats
    BY DEF Files
  <2>2. Deleted("asi", "uninstall", "uninstall ini")
    BY <1>4, <1>6, <2>1
  <2>3. DeleteProgress'
    BY <1>5, <2>2, DeleteStep
  <2> QED
    BY <1>3, <1>6, <2>1, <2>3
<1>7. CASE Step("ini", "uninstall ini", "uninstall runtime")
  <2>1. "ini" \in Whats
    BY DEF Files
  <2>2. Deleted("ini", "uninstall ini", "uninstall runtime")
    BY <1>4, <1>7, <2>1
  <2>3. DeleteProgress'
    BY <1>5, <2>2, DeleteStep
  <2> QED
    BY <1>3, <1>7, <2>1, <2>3
<1>8. CASE Step("runtime", "uninstall runtime", "uninstall loader")
  <2>1. "runtime" \in Whats
    BY DEF Files
  <2>2. Deleted("runtime", "uninstall runtime", "uninstall loader")
    BY <1>4, <1>8, <2>1
  <2>3. DeleteProgress'
    BY <1>5, <2>2, DeleteStep
  <2> QED
    BY <1>3, <1>8, <2>1, <2>3
<1>9. CASE Step("loader", "uninstall loader", "uninstall override")
  <2>1. "loader" \in Whats
    BY DEF Files
  <2>2. Deleted("loader", "uninstall loader", "uninstall override")
    BY <1>4, <1>9, <2>1
  <2>3. DeleteProgress'
    BY <1>5, <2>2, DeleteStep
  <2> QED
    BY <1>3, <1>9, <2>1, <2>3
<1>10. CASE Step("override", "uninstall override", "report")
  <2>1. "override" \in Whats
    BY DEF Files
  <2>2. Deleted("override", "uninstall override", "report")
    BY <1>4, <1>10, <2>1
  <2>3. DeleteProgress'
    BY <1>5, <2>2, DeleteStep
  <2> QED
    BY <1>3, <1>10, <2>1, <2>3
<1> QED
  BY <1>1, <1>2, <1>6, <1>7, <1>8, <1>9, <1>10

LEMMA InstallStarts == InstallInit => InstallInv
<1> SUFFICES ASSUME InstallInit  PROVE InstallInv
  OBVIOUS
<1>1. dir \in [Files -> Contents]
  <2>1. \/ dir = [f \in Files |-> "absent"]
        \/ dir = [[f \in Files |-> "absent"] EXCEPT !.loader = "foreign"]
    BY DEF InstallInit
  <2> QED
    BY <2>1 DEF Contents
<1>2. InstallTypes
  BY <1>1, InstallerAssumption DEF InstallInit, InstallTypes, IniFiles
<1>3. run = "none" /\ exit = "nothing"
  BY DEF InstallInit
<1> QED
  BY <1>2, <1>3 DEF InstallInv, IniProgress, CopyProgress, DeleteProgress, Reported, ExitTruthful,
    Copied, Installing

LEMMA InstallNextKeeps == InstallInv /\ [InstallNext]_installVars => InstallInv'
<1> SUFFICES ASSUME InstallInv, [InstallNext]_installVars  PROVE InstallInv'
  OBVIOUS
<1>1. CASE UNCHANGED installVars
  <2> USE <1>1 DEF installVars
  <2>1. InstallTypes' /\ IniProgress' /\ Reported'
    BY DEF InstallInv, InstallTypes, IniProgress, Reported, LoadsFallback, ExistingIni
  <2>2. CopyProgress' /\ DeleteProgress'
    BY DEF InstallInv, CopyProgress, DeleteProgress, Gone
  <2>3. ExitTruthful'
    BY DEF InstallInv, ExitTruthful, ExistingIni, Gone
  <2> QED
    BY <2>1, <2>2, <2>3 DEF InstallInv
<1>2. ASSUME NEW file \in Files \cup {"ini"}, CopyPayloadFile(file)  PROVE InstallInv'
  BY <1>2, CopyAsiKeeps, CopyIniKeeps, CopyLoaderKeeps, CopyRuntimeKeeps DEF CopyPayloadFile, Files
<1> QED
  BY <1>1, <1>2, WinMainKeeps, UpgradeKeeps, TemporaryKeeps, ReplaceKeeps, OverrideKeeps,
    UninstallKeeps, KilledKeeps DEF InstallNext

LEMMA SpecInstalls == Spec => []InstallInv
<1>1. Init => InstallInv
  BY InstallStarts DEF Init
<1>2. [Next]_vars => [InstallNext]_installVars
  BY DEF Next, vars, installVars
<1> QED
  BY <1>1, <1>2, InstallNextKeeps, PTL DEF Spec

(* An installer that reports success has done all of it, but for what it could *)
(* not see, and the fallback is loaded enabled from a file both parsers trim   *)
(* alike (WinMain, InstallPatch, UninstallPatch), for any settings files and   *)
(* any package that loads the fallback enabled.                                *)
THEOREM ReportsTruthful == Spec => []ExitTruthful
<1>1. InstallInv => ExitTruthful
  BY DEF InstallInv
<1> QED
  BY <1>1, SpecInstalls, PTL

(* The migration of whatever settings file is there, of any length and with    *)
(* any blanks, is sound: LoadConfig loads of it what it did before, the        *)
(* fallback is never turned off, and it is turned on where LoadConfig and      *)
(* EnableResetRestartFallback trim alike.                                      *)
THEOREM MigrationsAreSound == Spec => []MigrationsSound
<1>1. InstallInv => MigrationsSound
  BY MigrationIsSound DEF InstallInv, InstallTypes, MigrationsSound, IniFiles
<1> QED
  BY <1>1, SpecInstalls, PTL

(* Settings once there change only by the migration, or go with the patch, or  *)
(* are copied over by a run that could not see them (CopyPayloadFile,          *)
(* WriteTextFileAtomically, UninstallPatch).                                   *)
THEOREM SettingsArePreserved == Spec => SettingsPreserved
<1> DEFINE Kept == ini' # ini => \/ ini = Absent
                                 \/ ini' = EnableResetRestartFallback(ini)
                                 \/ run = "uninstall ini"
                                 \/ run = "ini" /\ "ini" \in missed
<1>1. InstallInv /\ [Next]_vars => [Kept]_installVars
  <2> SUFFICES ASSUME InstallInv, [Next]_vars, ini' # ini  PROVE Kept
    OBVIOUS
  <2>1. InstallNext
    BY DEF Next, vars, installVars
  <2>2. ASSUME NEW file \in Files \cup {"ini"}, CopyPayloadFile(file)
        PROVE ini = Absent \/ (run = "ini" /\ "ini" \in missed)
    BY <2>2 DEF CopyPayloadFile, Skipped, ExistingIni, InstallInv, IniProgress, Files
  <2>3. CASE ReplaceIni
    BY <2>3 DEF ReplaceIni
  <2>4. CASE UninstallPatch
    BY <2>4 DEF UninstallPatch, DeleteIfPresent, Delete
  <2> QED
    BY <2>1, <2>2, <2>3, <2>4 DEF InstallNext, WinMain, UpgradeExistingIni, WriteTemporary,
      SetWineOverride, Killed
<1> QED
  BY <1>1, SpecInstalls, PTL DEF Spec, SettingsPreserved

-----------------------------------------------------------------------------
(* The size of a file                                                          *)

(* As for LoadConfig, for the sum that a file's size is.                       *)
SumsAll(iter, file, n) ==
    iter = [s \in SUBSET (1 .. n) |-> IF s = {} THEN 0
                                     ELSE iter[s \ {Max(s)}] + file[Max(s)].size]

LEMMA SumRecursion ==
    ASSUME NEW file, NEW n \in Nat
    PROVE  \E iter : SumsAll(iter, file, n)
<1> DEFINE Solves(iter, k) == SumsAll(iter, file, k)
           P == {k \in Nat : \E iter : Solves(iter, k)}
<1> USE DEF SumsAll
<1>1. 0 \in P
  <2> DEFINE g == [s \in SUBSET (1 .. 0) |-> 0]
  <2>1. \A s \in SUBSET (1 .. 0) : s = {}
    OBVIOUS
  <2>2. Solves(g, 0)
    BY <2>1
  <2> QED
    BY <2>2
<1>2. ASSUME NEW k \in Nat, k \in P  PROVE k + 1 \in P
  <2>1. PICK g : Solves(g, k)
    BY <1>2
  <2> DEFINE h == [s \in SUBSET (1 .. k + 1) |->
                     IF k + 1 \in s THEN g[s \ {k + 1}] + file[k + 1].size ELSE g[s]]
             Next1(s) == IF s = {} THEN 0 ELSE h[s \ {Max(s)}] + file[Max(s)].size
  <2>2. ASSUME NEW s \in SUBSET (1 .. k + 1)  PROVE h[s] = Next1(s)
    <3>1. CASE k + 1 \in s
      <4>1. Max(s) = k + 1
        BY <3>1, k + 1 \in Nat, GreatestOfInterval
      <4>2. s \ {k + 1} \in SUBSET (1 .. k + 1) /\ k + 1 \notin s \ {k + 1}
        OBVIOUS
      <4>3. h[s \ {k + 1}] = g[s \ {k + 1}]
        BY <4>2
      <4>4. s # {} /\ h[s] = g[s \ {k + 1}] + file[k + 1].size
        BY <3>1
      <4> QED
        BY <4>1, <4>3, <4>4
    <3>2. CASE k + 1 \notin s
      <4>1. s \in SUBSET (1 .. k)
        BY <3>2
      <4>2. h[s] = g[s]
        BY <3>2
      <4>3. s \ {Max(s)} \in SUBSET (1 .. k + 1) /\ k + 1 \notin s \ {Max(s)}
        BY <3>2
      <4>4. h[s \ {Max(s)}] = g[s \ {Max(s)}]
        BY <4>3
      <4>5. g[s] = IF s = {} THEN 0 ELSE g[s \ {Max(s)}] + file[Max(s)].size
        BY <2>1, <4>1
      <4> QED
        BY <4>2, <4>4, <4>5
    <3> QED
      BY <3>1, <3>2
  <2>3. h = [s \in SUBSET (1 .. k + 1) |-> Next1(s)]
    BY <2>2
  <2>4. Solves(h, k + 1)
    BY <2>3
  <2> HIDE DEF h, SumsAll
  <2>5. \E iter : Solves(iter, k + 1)
    BY <2>4
  <2> QED
    BY <2>5
<1> HIDE DEF P, SumsAll
<1>3. n \in P
  BY <1>1, <1>2, Induction
<1> QED
  BY <1>3 DEF P

(* The sums after each record.                                                 *)
SumsUp(sums, file, n) == /\ sums[0] = 0
                         /\ \A k \in 1 .. n : sums[k] = sums[k - 1] + file[k].size
                         /\ Total(file) = sums[n]

LEMMA TotalSums ==
    ASSUME NEW file, NEW n \in Nat, DOMAIN file = 1 .. n
    PROVE  \E sums : SumsUp(sums, file, n)
<1> DEFINE iter == CHOOSE g : SumsAll(g, file, n)
           sums == [k \in 0 .. n |-> iter[1 .. k]]
<1>1. Total(file) = iter[1 .. n]
  BY DEF Total, FoldLeft, MapThenFoldSet, SumsAll
<1>2. SumsAll(iter, file, n)
  BY SumRecursion
<1> HIDE DEF iter
<1>3. sums[0] = 0
  <2>1. 1 .. 0 = {} /\ {} \in SUBSET (1 .. n)
    OBVIOUS
  <2> QED
    BY <1>2, <2>1 DEF SumsAll
<1>4. ASSUME NEW k \in 1 .. n  PROVE sums[k] = sums[k - 1] + file[k].size
  <2>1. Max(1 .. k) = k
    BY GreatestOfInterval
  <2>2. (1 .. k) \ {k} = 1 .. (k - 1) /\ 1 .. k \in SUBSET (1 .. n) /\ 1 .. k # {}
    OBVIOUS
  <2>3. iter[1 .. k] = iter[1 .. (k - 1)] + file[k].size
    BY <1>2, <2>1, <2>2 DEF SumsAll
  <2>4. k \in 0 .. n /\ k - 1 \in 0 .. n
    OBVIOUS
  <2> QED
    BY <2>3, <2>4
<1>5. sums[n] = iter[1 .. n]
  OBVIOUS
<1> HIDE DEF sums
<1>6. SumsUp(sums, file, n)
  BY <1>1, <1>3, <1>4, <1>5 DEF SumsUp
<1> QED
  BY <1>6

LogRecord == [n : Nat, size : Nat]

LEMMA SumsTyped ==
    ASSUME NEW file \in Seq(LogRecord), NEW sums, SumsUp(sums, file, Len(file))
    PROVE  \A k \in 0 .. Len(file) : sums[k] \in Nat
<1> DEFINE n == Len(file)
           P == {k \in 0 .. n : sums[k] \in Nat}
<1>1. n \in Nat
  BY LenProperties
<1>2. 0 \in P
  BY <1>1 DEF SumsUp
<1>3. ASSUME NEW k \in 0 .. n, k \in P, k < n  PROVE k + 1 \in P
  <2>1. k + 1 \in 1 .. n /\ (k + 1) - 1 = k /\ k + 1 \in 0 .. n
    BY <1>1, <1>3
  <2>2. sums[k + 1] = sums[k] + file[k + 1].size
    BY <2>1 DEF SumsUp
  <2>3. file[k + 1].size \in Nat
    <3>1. file[k + 1] \in LogRecord
      BY <2>1, ElementOfSeq
    <3> QED
      BY <3>1 DEF LogRecord
  <2> QED
    BY <1>3, <2>1, <2>2, <2>3
<1> HIDE DEF n, P
<1>4. \A k \in 0 .. n : k \in P
  <2>1. \A k \in 0 .. n : k \in P /\ k < n => k + 1 \in P
    BY <1>3
  <2> QED
    BY <1>1, <1>2, <2>1, InductionUpTo
<1> QED
  BY <1>4 DEF n, P

LEMMA TotalIs ==
    /\ Total(<<>>) = 0
    /\ \A file \in Seq(LogRecord), r \in LogRecord :
         Total(file) \in Nat /\ Total(Append(file, r)) = Total(file) + r.size
<1>1. Total(<<>>) = 0
  <2>1. DOMAIN <<>> = 1 .. 0
    OBVIOUS
  <2>2. PICK sums : SumsUp(sums, <<>>, 0)
    BY <2>1, TotalSums
  <2> QED
    BY <2>2 DEF SumsUp
<1>2. ASSUME NEW file \in Seq(LogRecord), NEW r \in LogRecord
      PROVE  Total(file) \in Nat /\ Total(Append(file, r)) = Total(file) + r.size
  <2> DEFINE n == Len(file)
             new == Append(file, r)
  <2>1. n \in Nat /\ DOMAIN file = 1 .. n
    BY LenProperties
  <2>2. new \in Seq(LogRecord) /\ Len(new) = n + 1 /\ DOMAIN new = 1 .. n + 1
        /\ new[n + 1] = r /\ \A k \in 1 .. n : new[k] = file[k]
    BY <2>1
  <2>3. PICK a : SumsUp(a, file, n)
    BY <2>1, TotalSums
  <2> HIDE DEF new
  <2>4. PICK b : SumsUp(b, new, n + 1)
    <3>1. n + 1 \in Nat
      BY <2>1
    <3> QED
      BY <3>1, <2>2, TotalSums
  <2>5. \A k \in 0 .. n : a[k] \in Nat
    BY <2>3, SumsTyped
  <2> HIDE DEF n
  <2> DEFINE P == {k \in 0 .. n : b[k] = a[k]}
  <2>6. 0 \in P
    BY <2>1, <2>3, <2>4 DEF SumsUp
  <2>7. \A k \in 0 .. n : k \in P /\ k < n => k + 1 \in P
    <3> SUFFICES ASSUME NEW k \in 0 .. n, k \in P, k < n  PROVE k + 1 \in P
      OBVIOUS
    <3>1. k + 1 \in 1 .. n /\ k + 1 \in 1 .. n + 1 /\ (k + 1) - 1 = k /\ k + 1 \in 0 .. n
      BY <2>1
    <3>2. a[k + 1] = a[k] + file[k + 1].size /\ b[k + 1] = b[k] + new[k + 1].size
      BY <2>3, <2>4, <3>1 DEF SumsUp
    <3> QED
      BY <2>2, <3>1, <3>2
  <2> HIDE DEF P
  <2>8. b[n] = a[n] /\ a[n] \in Nat
    <3>1. n \in P
      BY <2>1, <2>6, <2>7, InductionUpTo
    <3> QED
      BY <2>1, <2>5, <3>1 DEF P
  <2>9. b[n + 1] = b[n] + r.size
    <3>1. n + 1 \in 1 .. n + 1 /\ (n + 1) - 1 = n
      BY <2>1
    <3> QED
      BY <2>2, <2>4, <3>1 DEF SumsUp
  <2>10. Total(file) = a[n] /\ Total(new) = b[n + 1]
    BY <2>3, <2>4 DEF SumsUp
  <2> QED
    BY <2>8, <2>9, <2>10 DEF new
<1> QED
  BY <1>1, <1>2

-----------------------------------------------------------------------------
(* The files read one after the other                                          *)

Flattens(flat, seqs, n) ==
    flat = [i \in 1 .. n |-> IF i = 1 THEN seqs[i] ELSE flat[i - 1] \o seqs[i]]

LEMMA FlattenRecursion ==
    ASSUME NEW seqs, NEW n \in Nat
    PROVE  \E flat : Flattens(flat, seqs, n)
<1> DEFINE Solves(flat, k) == Flattens(flat, seqs, k)
           P == {k \in Nat : \E flat : Solves(flat, k)}
<1> USE DEF Flattens
<1>1. 0 \in P
  <2> DEFINE g == [i \in 1 .. 0 |-> 0]
  <2>1. Solves(g, 0)
    OBVIOUS
  <2> QED
    BY <2>1
<1>2. ASSUME NEW k \in Nat, k \in P  PROVE k + 1 \in P
  <2>1. PICK g : Solves(g, k)
    BY <1>2
  <2> DEFINE h == [i \in 1 .. k + 1 |-> IF i <= k THEN g[i]
                                        ELSE IF i = 1 THEN seqs[i] ELSE g[i - 1] \o seqs[i]]
             Next1(i) == IF i = 1 THEN seqs[i] ELSE h[i - 1] \o seqs[i]
  <2>2. ASSUME NEW i \in 1 .. k + 1  PROVE h[i] = Next1(i)
    <3>1. i # 1 => h[i - 1] = g[i - 1]
      OBVIOUS
    <3>2. i <= k => g[i] = IF i = 1 THEN seqs[i] ELSE g[i - 1] \o seqs[i]
      <4>1. \A j \in 1 .. k : g[j] = IF j = 1 THEN seqs[j] ELSE g[j - 1] \o seqs[j]
        BY <2>1, Zenon
      <4> HIDE DEF Flattens
      <4> QED
        BY <4>1
    <3>3. h[i] = IF i <= k THEN g[i] ELSE IF i = 1 THEN seqs[i] ELSE g[i - 1] \o seqs[i]
      OBVIOUS
    <3> HIDE DEF h
    <3> QED
      BY <3>1, <3>2, <3>3
  <2>3. h = [i \in 1 .. k + 1 |-> Next1(i)]
    BY <2>2
  <2>4. Solves(h, k + 1)
    BY <2>3
  <2> HIDE DEF h, Flattens
  <2>5. \E flat : Solves(flat, k + 1)
    BY <2>4
  <2> QED
    BY <2>5
<1> HIDE DEF P, Flattens
<1>3. n \in P
  BY <1>1, <1>2, Induction
<1> QED
  BY <1>3 DEF P

LEMMA FlattenSteps ==
    ASSUME NEW seqs, Len(seqs) \in Nat \ {0}
    PROVE  \E flat : /\ flat[1] = seqs[1]
                     /\ \A i \in 2 .. Len(seqs) : flat[i] = flat[i - 1] \o seqs[i]
                     /\ FlattenSeq(seqs) = flat[Len(seqs)]
<1> DEFINE n == Len(seqs)
           flat == CHOOSE f : Flattens(f, seqs, n)
<1>1. FlattenSeq(seqs) = flat[n]
  BY DEF FlattenSeq, Flattens
<1>2. Flattens(flat, seqs, n)
  BY FlattenRecursion
<1> HIDE DEF flat
<1>3. flat[1] = seqs[1] /\ \A i \in 2 .. n : flat[i] = flat[i - 1] \o seqs[i]
  <2>1. \A i \in 1 .. n : flat[i] = IF i = 1 THEN seqs[i] ELSE flat[i - 1] \o seqs[i]
    BY <1>2, Zenon DEF Flattens
  <2>2. 1 \in 1 .. n /\ 2 .. n \subseteq 1 .. n /\ 1 \notin 2 .. n
    OBVIOUS
  <2> HIDE DEF n
  <2> QED
    BY <2>1, <2>2
<1> QED
  BY <1>1, <1>3

LEMMA SuffixOf ==
    ASSUME NEW w \in Seq(LogRecord), NEW a \in Nat, a <= Len(w)
    PROVE  IsSuffix(SubSeq(w, a + 1, Len(w)), w)
<1> DEFINE s == SubSeq(w, a + 1, Len(w))
           n == Len(w)
           rs == Reverse(s)
           rw == Reverse(w)
<1>1. n \in Nat /\ \A i \in 1 .. n : w[i] \in LogRecord
  BY LenProperties, ElementOfSeq
<1>2. s \in Seq(LogRecord) /\ Len(s) = n - a /\ \A i \in 1 .. n - a : s[i] = w[a + i]
  <2>1. \A i \in a + 1 .. n : w[i] \in LogRecord
    BY <1>1
  <2>2. /\ s \in Seq(LogRecord)
        /\ Len(s) = IF a + 1 <= n THEN n - (a + 1) + 1 ELSE 0
        /\ \A i \in 1 .. n - (a + 1) + 1 : s[i] = w[(a + 1) + i - 1]
    BY <1>1, <2>1, SubSeqProperties
  <2> HIDE DEF s, n
  <2> QED
    BY <1>1, <2>2 DEF n
<1> HIDE DEF s
<1>3. rs = [i \in 1 .. n - a |-> s[n - a - i + 1]] /\ rw = [i \in 1 .. n |-> w[n - i + 1]]
  BY <1>2 DEF Reverse
<1>4. n - a \in Nat
  BY <1>1
<1>5. rs \in Seq(LogRecord) /\ rw \in Seq(LogRecord)
  <2>1. \A i \in 1 .. n - a : s[n - a - i + 1] \in LogRecord
    <3>1. \A i \in 1 .. n - a : n - a - i + 1 \in 1 .. n - a
      BY <1>4
    <3> QED
      BY <1>2, <3>1, ElementOfSeq
  <2>2. \A i \in 1 .. n : w[n - i + 1] \in LogRecord
    BY <1>1
  <2> HIDE DEF rs, rw, n
  <2>3. rs \in [1 .. n - a -> LogRecord] /\ rw \in [1 .. n -> LogRecord]
    BY <1>3, <2>1, <2>2
  <2> QED
    BY <1>1, <1>4, <2>3, SeqDef
<1> HIDE DEF rs, rw, n
<1>6. Len(rs) = n - a /\ Len(rw) = n
  BY <1>1, <1>3, <1>4, <1>5, LenProperties
<1>7. \A i \in 1 .. n - a : rs[i] = rw[i]
  <2> TAKE i \in 1 .. n - a
  <2>1. n - a - i + 1 \in 1 .. n - a /\ i \in 1 .. n
    BY <1>1, <1>4
  <2>2. rs[i] = s[n - a - i + 1] /\ rw[i] = w[n - i + 1]
    BY <1>3, <2>1
  <2>3. s[n - a - i + 1] = w[a + (n - a - i + 1)]
    BY <1>2, <2>1
  <2>4. a + (n - a - i + 1) = n - i + 1
    BY <1>1
  <2> QED
    BY <2>2, <2>3, <2>4
<1>8. SubSeq(rs, 1, n - a) = SubSeq(rw, 1, n - a)
  <2> DEFINE x == SubSeq(rs, 1, n - a)
             y == SubSeq(rw, 1, n - a)
  <2>1. \A i \in 1 .. n - a : rs[i] \in LogRecord /\ rw[i] \in LogRecord
    BY <1>5, <1>6, <1>7, ElementOfSeq
  <2>2. /\ x \in Seq(LogRecord) /\ Len(x) = IF 1 <= n - a THEN n - a - 1 + 1 ELSE 0
        /\ \A i \in 1 .. n - a - 1 + 1 : x[i] = rs[1 + i - 1]
    BY <1>4, <2>1, SubSeqProperties
  <2>3. /\ y \in Seq(LogRecord) /\ Len(y) = IF 1 <= n - a THEN n - a - 1 + 1 ELSE 0
        /\ \A i \in 1 .. n - a - 1 + 1 : y[i] = rw[1 + i - 1]
    BY <1>4, <2>1, SubSeqProperties
  <2> HIDE DEF x, y
  <2>4. Len(x) = n - a /\ Len(y) = n - a /\ \A i \in 1 .. n - a : x[i] = rs[i] /\ y[i] = rw[i]
    BY <1>1, <1>4, <2>2, <2>3
  <2>5. x = y
    BY <1>7, <2>2, <2>3, <2>4, SeqEqual
  <2> QED
    BY <2>5 DEF x, y
<1>9. IsPrefix(rs, rw)
  BY <1>1, <1>6, <1>8 DEF IsPrefix
<1> QED
  BY <1>9 DEF IsSuffix, rs, rw, s, n

-----------------------------------------------------------------------------
(* What the rotation keeps                                                     *)

(* Records are older in a file of a higher number, and none is newer than m.   *)
Ordered(fs, m) ==
    /\ \A i, j \in Numbers : \A p \in 1 .. Len(fs[i]), q \in 1 .. Len(fs[j]) :
         i > j \/ (i = j /\ p < q) => fs[i][p].n < fs[j][q].n
    /\ \A i \in Numbers : \A p \in 1 .. Len(fs[i]) : fs[i][p].n <= m

(* Each file is a part of what was written, and adjoins the next.              *)
Whole(fs, w, cut) ==
    /\ cut \in [0 .. MaxFiles + 1 -> 0 .. Len(w)] /\ cut[0] = Len(w)
    /\ \A i \in Numbers : cut[i + 1] <= cut[i] /\ fs[i] = SubSeq(w, cut[i + 1] + 1, cut[i])

FilesType == [Numbers -> Seq(LogRecord)]

LEMMA OrderDelete ==
    ASSUME NEW fs \in FilesType, NEW m \in Nat, Ordered(fs, m), NEW k \in Numbers
    PROVE  Ordered([fs EXCEPT ![k] = <<>>], m)
<1> DEFINE new == [fs EXCEPT ![k] = <<>>]
<1>1. Len(<<>>) = 0 /\ \A i \in Numbers : new[i] = IF i = k THEN <<>> ELSE fs[i]
  BY DEF FilesType
<1> HIDE DEF new
<1>2. \A i \in Numbers : \A p \in 1 .. Len(new[i]) : new[i] = fs[i]
  BY <1>1
<1>3. Ordered(new, m)
  BY <1>2 DEF Ordered
<1> QED
  BY <1>3 DEF new

LEMMA OrderMove ==
    ASSUME NEW fs \in FilesType, NEW m \in Nat, Ordered(fs, m), NEW k \in 0 .. MaxFiles - 1
    PROVE  Ordered([fs EXCEPT ![k + 1] = fs[k], ![k] = <<>>], m)
<1> DEFINE new == [fs EXCEPT ![k + 1] = fs[k], ![k] = <<>>]
           from(i) == IF i = k + 1 THEN k ELSE i
<1>0. k \in Numbers /\ k + 1 \in Numbers /\ MaxFiles \in Nat
  BY RotationAssumption DEF Numbers
<1>1. \A i \in Numbers : new[i] = IF i = k THEN <<>> ELSE IF i = k + 1 THEN fs[k] ELSE fs[i]
  BY <1>0 DEF FilesType, Numbers
<1> HIDE DEF new
<1>2. \A i \in Numbers : \A p \in 1 .. Len(new[i]) : i # k /\ new[i] = fs[from(i)] /\ from(i) \in Numbers
  BY <1>0, <1>1, Len(<<>>) = 0
<1>3. \A i, j \in Numbers : i # k /\ j # k /\ i > j => from(i) > from(j)
  BY <1>0 DEF Numbers
<1> HIDE DEF from
<1>4. \A i, j \in Numbers : \A p \in 1 .. Len(new[i]), q \in 1 .. Len(new[j]) :
        i > j \/ (i = j /\ p < q) => new[i][p].n < new[j][q].n
  BY <1>2, <1>3 DEF Ordered
<1>5. \A i \in Numbers : \A p \in 1 .. Len(new[i]) : new[i][p].n <= m
  BY <1>2 DEF Ordered
<1>6. Ordered(new, m)
  BY <1>4, <1>5 DEF Ordered
<1> QED
  BY <1>6 DEF new

LEMMA OrderAppend ==
    ASSUME NEW fs \in FilesType, NEW m \in Nat, Ordered(fs, m),
           NEW r \in LogRecord, r.n = m + 1
    PROVE  Ordered([fs EXCEPT ![0] = Append(@, r)], m + 1)
<1> DEFINE new == [fs EXCEPT ![0] = Append(@, r)]
<1>0. 0 \in Numbers /\ MaxFiles \in Nat
  BY RotationAssumption DEF Numbers
<1>1. \A i \in Numbers : new[i] = IF i = 0 THEN Append(fs[0], r) ELSE fs[i]
  BY <1>0 DEF FilesType
<1>2. \A i \in Numbers : fs[i] \in Seq(LogRecord) /\ Len(fs[i]) \in Nat
  BY LenProperties DEF FilesType
<1>3. Len(new[0]) = Len(fs[0]) + 1 /\ new[0][Len(fs[0]) + 1] = r
      /\ \A p \in 1 .. Len(fs[0]) : new[0][p] = fs[0][p]
  <2>1. new[0] = Append(fs[0], r) /\ fs[0] \in Seq(LogRecord)
    BY <1>0, <1>1, <1>2
  <2> HIDE DEF new
  <2> QED
    BY <2>1
<1> HIDE DEF new
<1>4. \A i \in Numbers : \A p \in 1 .. Len(new[i]) :
        \/ p \in 1 .. Len(fs[i]) /\ new[i][p] = fs[i][p]
        \/ i = 0 /\ p = Len(fs[0]) + 1 /\ new[i][p] = r
  BY <1>0, <1>1, <1>2, <1>3
<1>5. \A i \in Numbers : \A p \in 1 .. Len(fs[i]) : fs[i][p].n \in Nat /\ fs[i][p].n <= m
  <2>1. \A i \in Numbers : \A p \in 1 .. Len(fs[i]) : fs[i][p] \in LogRecord
    BY <1>2, ElementOfSeq
  <2> QED
    BY <2>1 DEF Ordered, LogRecord
<1>6. \A i \in Numbers : \A p \in 1 .. Len(new[i]) : new[i][p].n <= m + 1
  <2> TAKE i \in Numbers
  <2> TAKE p \in 1 .. Len(new[i])
  <2>1. CASE p \in 1 .. Len(fs[i]) /\ new[i][p] = fs[i][p]
    <3>1. fs[i][p].n \in Nat /\ fs[i][p].n <= m
      BY <1>5, <2>1
    <3>2. new[i][p].n = fs[i][p].n
      BY <2>1
    <3> QED
      BY <3>1, <3>2
  <2>2. CASE new[i][p] = r
    BY <2>2
  <2> QED
    BY <1>4, <2>1, <2>2
<1>7. ASSUME NEW i \in Numbers, NEW j \in Numbers, NEW p \in 1 .. Len(new[i]),
             NEW q \in 1 .. Len(new[j]), i > j \/ (i = j /\ p < q)
      PROVE  new[i][p].n < new[j][q].n
  <2>1. CASE p \in 1 .. Len(fs[i]) /\ new[i][p] = fs[i][p] /\ q \in 1 .. Len(fs[j])
             /\ new[j][q] = fs[j][q]
    BY <1>7, <2>1 DEF Ordered
  <2>2. CASE i = 0 /\ p = Len(fs[0]) + 1
    BY <1>2, <1>3, <1>7, <2>2, <1>0 DEF Numbers
  <2>3. CASE j = 0 /\ new[j][q] = r /\ p \in 1 .. Len(fs[i]) /\ new[i][p] = fs[i][p]
    <3>1. fs[i][p].n \in Nat /\ fs[i][p].n <= m
      BY <1>5, <2>3
    <3>2. new[i][p].n = fs[i][p].n /\ new[j][q].n = m + 1
      BY <2>3
    <3> QED
      BY <3>1, <3>2
  <2> QED
    BY <1>4, <2>1, <2>2, <2>3
<1>8. Ordered(new, m + 1)
  BY <1>6, <1>7 DEF Ordered
<1> QED
  BY <1>8 DEF new

LEMMA SliceFacts ==
    ASSUME NEW w \in Seq(LogRecord), NEW a \in 0 .. Len(w), NEW b \in a .. Len(w)
    PROVE  /\ SubSeq(w, a + 1, b) \in Seq(LogRecord)
           /\ Len(SubSeq(w, a + 1, b)) = b - a
           /\ \A i \in 1 .. b - a : SubSeq(w, a + 1, b)[i] = w[a + i]
<1> DEFINE s == SubSeq(w, a + 1, b)
<1>1. Len(w) \in Nat /\ a \in Nat /\ b \in Nat /\ a <= b /\ b <= Len(w)
  BY LenProperties
<1>2. \A i \in a + 1 .. b : w[i] \in LogRecord
  BY <1>1, ElementOfSeq
<1>3. /\ s \in Seq(LogRecord)
      /\ Len(s) = IF a + 1 <= b THEN b - (a + 1) + 1 ELSE 0
      /\ \A i \in 1 .. b - (a + 1) + 1 : s[i] = w[(a + 1) + i - 1]
  BY <1>1, <1>2, SubSeqProperties
<1> HIDE DEF s
<1>4. Len(s) = b - a
  BY <1>1, <1>3
<1>5. \A i \in 1 .. b - a : s[i] = w[a + i]
  BY <1>1, <1>3
<1> QED
  BY <1>3, <1>4, <1>5 DEF s

LEMMA WholeDelete ==
    ASSUME NEW fs \in FilesType, NEW w \in Seq(LogRecord), NEW cut, Whole(fs, w, cut)
    PROVE  \E new : Whole([fs EXCEPT ![MaxFiles] = <<>>], w, new)
<1> DEFINE gs == [fs EXCEPT ![MaxFiles] = <<>>]
           new == [cut EXCEPT ![MaxFiles + 1] = cut[MaxFiles]]
<1>0. MaxFiles \in Nat \ {0} /\ Numbers = 0 .. MaxFiles /\ Len(w) \in Nat
  BY RotationAssumption, LenProperties DEF Numbers
<1>1. \A i \in Numbers : gs[i] = IF i = MaxFiles THEN <<>> ELSE fs[i]
  BY <1>0 DEF FilesType
<1>2. /\ new \in [0 .. MaxFiles + 1 -> 0 .. Len(w)]
      /\ \A i \in 0 .. MaxFiles + 1 : new[i] = IF i = MaxFiles + 1 THEN cut[MaxFiles] ELSE cut[i]
  BY <1>0 DEF Whole
<1>3. \A i \in 0 .. MaxFiles + 1 : new[i] \in Nat
  BY <1>0, <1>2
<1> HIDE DEF gs, new
<1>4. SubSeq(w, new[MaxFiles + 1] + 1, new[MaxFiles]) = <<>> /\ new[MaxFiles + 1] <= new[MaxFiles]
  <2>1. new[MaxFiles + 1] = new[MaxFiles] /\ new[MaxFiles] \in Nat
    BY <1>0, <1>2, <1>3
  <2> QED
    BY <2>1, SubSeqEmpty
<1>5. \A i \in Numbers : i # MaxFiles => new[i] = cut[i] /\ new[i + 1] = cut[i + 1]
  BY <1>0, <1>2
<1>6. \A i \in Numbers : new[i + 1] <= new[i] /\ gs[i] = SubSeq(w, new[i + 1] + 1, new[i])
  BY <1>1, <1>4, <1>5 DEF Whole
<1>7. new[0] = Len(w)
  BY <1>0, <1>2 DEF Whole
<1>8. Whole(gs, w, new)
  BY <1>2, <1>6, <1>7 DEF Whole
<1> QED
  BY <1>8 DEF gs

LEMMA WholeMove ==
    ASSUME NEW fs \in FilesType, NEW w \in Seq(LogRecord), NEW cut, Whole(fs, w, cut),
           NEW k \in 0 .. MaxFiles - 1, fs[k + 1] = <<>>
    PROVE  \E new : Whole([fs EXCEPT ![k + 1] = fs[k], ![k] = <<>>], w, new)
<1> DEFINE gs == [fs EXCEPT ![k + 1] = fs[k], ![k] = <<>>]
           new == [cut EXCEPT ![k + 1] = cut[k]]
<1>0. /\ MaxFiles \in Nat \ {0} /\ Numbers = 0 .. MaxFiles /\ Len(w) \in Nat
      /\ k \in Nat /\ k \in Numbers /\ k + 1 \in Numbers /\ (k + 1) + 1 = k + 2
      /\ k + 2 \in 0 .. MaxFiles + 1 /\ k \in 0 .. MaxFiles + 1 /\ k + 1 \in 0 .. MaxFiles + 1
  BY RotationAssumption, LenProperties DEF Numbers
<1>1. \A i \in Numbers : gs[i] = IF i = k THEN <<>> ELSE IF i = k + 1 THEN fs[k] ELSE fs[i]
  BY <1>0 DEF FilesType
<1>2. /\ new \in [0 .. MaxFiles + 1 -> 0 .. Len(w)]
      /\ \A i \in 0 .. MaxFiles + 1 : new[i] = IF i = k + 1 THEN cut[k] ELSE cut[i]
  BY <1>0 DEF Whole
<1>3. \A i \in 0 .. MaxFiles + 1 : new[i] \in Nat /\ cut[i] \in 0 .. Len(w)
  <2> TAKE i \in 0 .. MaxFiles + 1
  <2>1. cut[i] \in 0 .. Len(w)
    BY DEF Whole
  <2>2. new[i] \in 0 .. Len(w)
    BY <1>2
  <2> HIDE DEF new
  <2> QED
    BY <1>0, <2>1, <2>2
<1> HIDE DEF gs, new
<1>4. cut[k + 2] = cut[k + 1]
  <2>1. cut[k + 2] <= cut[k + 1] /\ SubSeq(w, cut[k + 2] + 1, cut[k + 1]) = <<>>
    BY <1>0 DEF Whole
  <2>2. cut[k + 1] \in cut[k + 2] .. Len(w)
    BY <1>0, <1>3, <2>1
  <2>3. Len(SubSeq(w, cut[k + 2] + 1, cut[k + 1])) = cut[k + 1] - cut[k + 2]
    BY <1>0, <1>3, <2>2, SliceFacts
  <2>4. cut[k + 1] - cut[k + 2] = 0
    BY <2>1, <2>3, Len(<<>>) = 0
  <2>5. cut[k + 1] \in Nat /\ cut[k + 2] \in Nat
    BY <1>0, <1>3
  <2> QED
    BY <2>4, <2>5
<1>5. ASSUME NEW i \in Numbers
      PROVE  new[i + 1] <= new[i] /\ gs[i] = SubSeq(w, new[i + 1] + 1, new[i])
  <2>0. i \in Nat /\ i \in 0 .. MaxFiles + 1 /\ i + 1 \in 0 .. MaxFiles + 1
    BY <1>0
  <2>1. CASE i = k
    <3>1. new[i + 1] = cut[k] /\ new[i] = cut[k] /\ cut[k] \in Nat
      BY <1>0, <1>2, <1>3, <2>0, <2>1
    <3>2. SubSeq(w, cut[k] + 1, cut[k]) = <<>>
      BY <3>1, SubSeqEmpty
    <3>3. gs[i] = <<>> /\ cut[k] <= cut[k]
      BY <1>1, <2>1, <3>1
    <3> QED
      BY <3>1, <3>2, <3>3
  <2>2. CASE i = k + 1
    <3>1. new[i + 1] = cut[k + 1] /\ new[i] = cut[k]
      BY <1>0, <1>2, <1>4, <2>0, <2>2
    <3>2. cut[k + 1] <= cut[k] /\ fs[k] = SubSeq(w, cut[k + 1] + 1, cut[k]) /\ gs[i] = fs[k]
      BY <1>0, <1>1, <2>2 DEF Whole
    <3> QED
      BY <3>1, <3>2
  <2>3. CASE i # k /\ i # k + 1
    <3>1. new[i + 1] = cut[i + 1] /\ new[i] = cut[i] /\ gs[i] = fs[i]
      BY <1>0, <1>1, <1>2, <2>0, <2>3
    <3> QED
      BY <3>1 DEF Whole
  <2> QED
    BY <2>1, <2>2, <2>3
<1>6. new[0] = Len(w)
  <2>1. 0 \in 0 .. MaxFiles + 1 /\ 0 # k + 1
    BY <1>0
  <2>2. new[0] = cut[0]
    BY <1>2, <2>1
  <2> QED
    BY <2>2 DEF Whole
<1>7. Whole(gs, w, new)
  BY <1>2, <1>5, <1>6 DEF Whole
<1> QED
  BY <1>7 DEF gs

LEMMA WholeAppend ==
    ASSUME NEW fs \in FilesType, NEW w \in Seq(LogRecord), NEW cut, Whole(fs, w, cut),
           NEW r \in LogRecord
    PROVE  \E new : Whole([fs EXCEPT ![0] = Append(@, r)], Append(w, r), new)
<1> DEFINE gs == [fs EXCEPT ![0] = Append(@, r)]
           v == Append(w, r)
           n == Len(w)
           new == [cut EXCEPT ![0] = n + 1]
<1>0. MaxFiles \in Nat \ {0} /\ Numbers = 0 .. MaxFiles /\ n \in Nat
  BY RotationAssumption, LenProperties DEF Numbers
<1>1. \A i \in Numbers : gs[i] = IF i = 0 THEN Append(fs[0], r) ELSE fs[i]
  BY <1>0 DEF FilesType
<1>2. v \in Seq(LogRecord) /\ Len(v) = n + 1 /\ v[n + 1] = r /\ \A i \in 1 .. n : v[i] = w[i]
  BY <1>0
<1>3. cut \in [0 .. MaxFiles + 1 -> 0 .. n] /\ cut[0] = n
      /\ \A i \in Numbers : cut[i + 1] <= cut[i] /\ fs[i] = SubSeq(w, cut[i + 1] + 1, cut[i])
  BY DEF Whole
<1> HIDE DEF n, v
<1>4. /\ new \in [0 .. MaxFiles + 1 -> 0 .. n + 1]
      /\ \A i \in 0 .. MaxFiles + 1 : new[i] = IF i = 0 THEN n + 1 ELSE cut[i]
  <2>1. 0 \in 0 .. MaxFiles + 1 /\ 0 .. n \subseteq 0 .. n + 1 /\ n + 1 \in 0 .. n + 1
    BY <1>0
  <2>2. cut \in [0 .. MaxFiles + 1 -> 0 .. n + 1]
    BY <1>3, <2>1
  <2> QED
    BY <2>1, <2>2
<1> HIDE DEF gs, new
<1>5. ASSUME NEW i \in Numbers
      PROVE  new[i + 1] <= new[i] /\ gs[i] = SubSeq(v, new[i + 1] + 1, new[i])
  <2>0. /\ i \in Nat /\ i \in 0 .. MaxFiles + 1 /\ i + 1 \in 0 .. MaxFiles + 1 /\ i + 1 # 0
        /\ cut[i] \in 0 .. n /\ cut[i + 1] \in 0 .. n /\ cut[i] \in cut[i + 1] .. n
    <3>1. i \in Nat /\ i \in 0 .. MaxFiles + 1 /\ i + 1 \in 0 .. MaxFiles + 1 /\ i + 1 # 0
      BY <1>0
    <3>2. cut[i] \in 0 .. n /\ cut[i + 1] \in 0 .. n /\ cut[i + 1] <= cut[i]
      BY <1>3, <3>1
    <3> QED
      BY <1>0, <3>1, <3>2
  <2> DEFINE a == cut[i + 1]
             b == cut[i]
             s == SubSeq(w, a + 1, b)
             t == SubSeq(v, a + 1, new[i])
  <2>1. a \in 0 .. n /\ b \in a .. n /\ new[i + 1] = a /\ fs[i] = s
    BY <1>3, <1>4, <2>0
  <2>2. s \in Seq(LogRecord) /\ Len(s) = b - a /\ \A j \in 1 .. b - a : s[j] = w[a + j]
    BY <2>1, SliceFacts DEF n
  <2>3. CASE i = 0
    <3>1. b = n /\ new[i] = n + 1 /\ a \in 0 .. n + 1 /\ n + 1 \in a .. n + 1
      BY <1>0, <1>3, <1>4, <2>0, <2>1, <2>3
    <3> HIDE DEF a, b, s
    <3>2. t \in Seq(LogRecord) /\ Len(t) = (n + 1) - a /\ \A j \in 1 .. (n + 1) - a : t[j] = v[a + j]
      <4>1. a \in 0 .. Len(v) /\ n + 1 \in a .. Len(v)
        BY <1>2, <3>1
      <4> QED
        BY <1>2, <3>1, <4>1, SliceFacts
    <3> DEFINE u == Append(s, r)
    <3>3. u \in Seq(LogRecord) /\ Len(u) = (n - a) + 1 /\ u[(n - a) + 1] = r
          /\ \A j \in 1 .. n - a : u[j] = s[j]
      BY <2>2, <3>1
    <3> HIDE DEF t, u
    <3>4. \A j \in 1 .. (n + 1) - a : u[j] = t[j]
      <4> TAKE j \in 1 .. (n + 1) - a
      <4>1. CASE j = (n - a) + 1
        <5>1. a + j = n + 1
          BY <1>0, <2>1, <4>1
        <5> QED
          BY <1>2, <3>2, <3>3, <4>1, <5>1
      <4>2. CASE j # (n - a) + 1
        <5>1. j \in 1 .. n - a /\ a + j \in 1 .. n
          BY <1>0, <2>1, <4>2
        <5> QED
          BY <1>2, <2>2, <3>1, <3>2, <3>3, <5>1
      <4> QED
        BY <4>1, <4>2
    <3>5. u = t
      <4>1. Len(u) = Len(t) /\ Len(u) = (n + 1) - a
        BY <1>0, <2>1, <3>2, <3>3
      <4> QED
        BY <3>2, <3>3, <3>4, <4>1, SeqEqual
    <3>6. gs[i] = u
      BY <1>1, <2>1, <2>3 DEF u
    <3> QED
      BY <1>0, <2>1, <3>1, <3>5, <3>6 DEF t
  <2>4. CASE i # 0
    <3>1. new[i] = b /\ a \in 0 .. n + 1 /\ b \in a .. n + 1
      BY <1>0, <1>4, <2>0, <2>1, <2>4
    <3> HIDE DEF a, b, s
    <3>2. t \in Seq(LogRecord) /\ Len(t) = b - a /\ \A j \in 1 .. b - a : t[j] = v[a + j]
      BY <1>2, <3>1, SliceFacts
    <3> HIDE DEF t
    <3>3. \A j \in 1 .. b - a : s[j] = t[j]
      <4> TAKE j \in 1 .. b - a
      <4>1. a + j \in 1 .. n
        BY <1>0, <2>1
      <4> QED
        BY <1>2, <2>2, <3>2, <4>1
    <3>4. s = t
      BY <2>2, <3>2, <3>3, SeqEqual
    <3>5. gs[i] = fs[i] /\ a <= b
      BY <1>0, <1>1, <2>1, <2>4
    <3> QED
      BY <2>1, <3>1, <3>4, <3>5 DEF t
  <2> QED
    BY <2>3, <2>4
<1>6. new[0] = n + 1
  BY <1>0, <1>4
<1>7. Whole(gs, v, new)
  BY <1>2, <1>4, <1>5, <1>6 DEF Whole
<1> QED
  BY <1>7 DEF gs, v

Fits(fs) == \A i \in Numbers : Total(fs[i]) <= MaxBytes

LEMMA FitsDelete ==
    ASSUME NEW fs \in FilesType, NEW k \in Numbers
    PROVE  /\ [fs EXCEPT ![k] = <<>>] \in FilesType
           /\ Fits(fs) => Fits([fs EXCEPT ![k] = <<>>])
<1> DEFINE new == [fs EXCEPT ![k] = <<>>]
<1>1. new \in FilesType /\ \A i \in Numbers : new[i] = IF i = k THEN <<>> ELSE fs[i]
  BY DEF FilesType
<1>2. Total(<<>>) <= MaxBytes
  BY TotalIs, RotationAssumption
<1> HIDE DEF new
<1>3. Fits(fs) => Fits(new)
  BY <1>1, <1>2 DEF Fits
<1> QED
  BY <1>1, <1>3 DEF new

LEMMA FitsMove ==
    ASSUME NEW fs \in FilesType, NEW k \in 0 .. MaxFiles - 1
    PROVE  LET new == [fs EXCEPT ![k + 1] = fs[k], ![k] = <<>>] IN
           new \in FilesType /\ new[k] = <<>> /\ (Fits(fs) => Fits(new))
<1> DEFINE new == [fs EXCEPT ![k + 1] = fs[k], ![k] = <<>>]
<1>0. k \in Numbers /\ k + 1 \in Numbers /\ k # k + 1
  BY RotationAssumption DEF Numbers
<1>1. new \in FilesType
      /\ \A i \in Numbers : new[i] = IF i = k THEN <<>> ELSE IF i = k + 1 THEN fs[k] ELSE fs[i]
  BY <1>0 DEF FilesType
<1>2. Total(<<>>) <= MaxBytes
  BY TotalIs, RotationAssumption
<1> HIDE DEF new
<1>3. Fits(fs) => Fits(new)
  BY <1>0, <1>1, <1>2 DEF Fits
<1> QED
  BY <1>0, <1>1, <1>3 DEF new

LEMMA FitsAppend ==
    ASSUME NEW fs \in FilesType, NEW r \in LogRecord
    PROVE  LET new == [fs EXCEPT ![0] = Append(@, r)] IN
           /\ new \in FilesType
           /\ Fits(fs) /\ Total(fs[0]) + r.size <= MaxBytes => Fits(new)
<1> DEFINE new == [fs EXCEPT ![0] = Append(@, r)]
<1>0. 0 \in Numbers /\ fs[0] \in Seq(LogRecord)
  BY RotationAssumption DEF Numbers, FilesType
<1>1. Append(fs[0], r) \in Seq(LogRecord)
  BY <1>0
<1>2. new \in FilesType /\ \A i \in Numbers : new[i] = IF i = 0 THEN Append(fs[0], r) ELSE fs[i]
  BY <1>0, <1>1 DEF FilesType
<1>3. Total(Append(fs[0], r)) = Total(fs[0]) + r.size
  BY <1>0, TotalIs
<1> HIDE DEF new
<1>4. Fits(fs) /\ Total(fs[0]) + r.size <= MaxBytes => Fits(new)
  BY <1>0, <1>2, <1>3 DEF Fits
<1> QED
  BY <1>2, <1>4 DEF new

-----------------------------------------------------------------------------
(* The steps of the writer                                                     *)

Calls == {Resting, At("delete", MaxFiles), At("reopen", 0)} \cup {At("move", i) : i \in 0 .. MaxFiles - 1}

LogTypes == /\ files \in FilesType /\ written \in Seq(LogRecord) /\ refused \in BOOLEAN
            /\ step \in Calls
            /\ step # Resting => /\ pending \in LogRecord /\ pending.size <= MaxBytes
                                 /\ pending.n = Len(written) + 1

(* As long as nothing was refused: what the next call moves a file to is empty.*)
Healthy == /\ Fits(files) /\ \E cut : Whole(files, written, cut)
           /\ step.call = "move" => files[step.index + 1] = <<>>
           /\ step.call = "reopen" => files[0] = <<>>

LogInv == /\ LogTypes /\ Ordered(files, Len(written))
          /\ ~refused => Healthy

LEMMA CallFacts ==
    /\ Resting.call = "none" /\ At("delete", MaxFiles).call = "delete" /\ At("reopen", 0).call = "reopen"
    /\ \A i : At("move", i).call = "move" /\ At("move", i).index = i
    /\ \A c \in Calls : /\ c.call = "none" <=> c = Resting
                        /\ c.call = "move" => c.index \in 0 .. MaxFiles - 1
<1>1. /\ Resting.call = "none" /\ At("delete", MaxFiles).call = "delete" /\ At("reopen", 0).call = "reopen"
      /\ \A i : At("move", i).call = "move" /\ At("move", i).index = i
  BY DEF Resting, At
<1>2. ASSUME NEW c \in Calls
      PROVE  (c.call = "none" <=> c = Resting) /\ (c.call = "move" => c.index \in 0 .. MaxFiles - 1)
  BY <1>1, <1>2 DEF Calls
<1> QED
  BY <1>1, <1>2

(* A record is appended, or nothing is, and the writer rests.                  *)
LEMMA AppendKeeps ==
    ASSUME LogInv, NEW r \in LogRecord, r.n = Len(written) + 1, Append1(r), step' = Resting,
           refused' \in BOOLEAN, ~refused' => ~refused /\ Total(files[0]) + r.size <= MaxBytes
    PROVE  LogInv'
<1>1. step'.call = "none" /\ step' \in Calls
  BY CallFacts DEF Calls
<1>2. CASE UNCHANGED <<files, written>>
  BY <1>1, <1>2 DEF LogInv, LogTypes, Healthy, Fits, Ordered, Whole
<1>3. CASE files' = [files EXCEPT ![0] = Append(@, r)] /\ written' = Append(written, r)
  <2>1. files \in FilesType /\ written \in Seq(LogRecord) /\ Len(written) \in Nat
        /\ Ordered(files, Len(written))
    BY LenProperties DEF LogInv, LogTypes
  <2>2. written' \in Seq(LogRecord) /\ Len(written') = Len(written) + 1
    BY <1>3, <2>1
  <2>3. files' \in FilesType
    BY <1>3, <2>1, FitsAppend
  <2>4. Ordered(files', Len(written'))
    BY <1>3, <2>1, <2>2, OrderAppend
  <2>5. ASSUME ~refused'  PROVE Fits(files') /\ \E cut : Whole(files', written', cut)
    <3>1. Fits(files) /\ Total(files[0]) + r.size <= MaxBytes
      BY <2>5 DEF LogInv, Healthy
    <3>2. PICK cut : Whole(files, written, cut)
      BY <2>5 DEF LogInv, Healthy
    <3>3. Fits(files')
      BY <1>3, <2>1, <3>1, FitsAppend
    <3>4. \E new : Whole(files', written', new)
      BY <1>3, <2>1, <3>2, WholeAppend
    <3> QED
      BY <3>3, <3>4
  <2>6. LogTypes'
    BY <1>1, <2>2, <2>3 DEF LogTypes
  <2>7. ~refused' => Healthy'
    BY <1>1, <2>5 DEF Healthy
  <2> QED
    BY <2>4, <2>6, <2>7 DEF LogInv
<1> QED
  BY <1>2, <1>3 DEF Append1

LEMMA WriteEntryKeeps == LogInv /\ (\E size \in Sizes : WriteEntry(size)) => LogInv'
<1> SUFFICES ASSUME LogInv, NEW size \in Sizes, WriteEntry(size)  PROVE LogInv'
  OBVIOUS
<1> DEFINE r == [n |-> Len(written) + 1, size |-> size]
<1>1. /\ files \in FilesType /\ written \in Seq(LogRecord) /\ Len(written) \in Nat
      /\ refused \in BOOLEAN /\ step = Resting
  BY LenProperties DEF LogInv, LogTypes, WriteEntry
<1>2. size \in Nat /\ size <= MaxBytes /\ r \in LogRecord /\ r.n = Len(written) + 1 /\ r.size = size
  BY <1>1, RotationAssumption DEF LogRecord
<1>3. Total(files[0]) \in Nat /\ MaxBytes \in Nat
  <2>1. files[0] \in Seq(LogRecord)
    BY <1>1, RotationAssumption DEF FilesType, Numbers
  <2>2. Total(files[0]) \in Nat
    BY <1>2, <2>1, TotalIs
  <2> QED
    BY <2>2, RotationAssumption
<1> HIDE DEF r
<1>4. CASE UNCHANGED logVars
  BY <1>4 DEF logVars, LogInv, LogTypes, Healthy, Fits, Ordered, Whole
<1>5. CASE /\ step' = At("delete", MaxFiles) /\ pending' = r
           /\ UNCHANGED <<files, written, refused>>
  <2>1. step'.call = "delete" /\ step' \in Calls
    BY <1>5, CallFacts DEF Calls
  <2>2. LogTypes'
    BY <1>1, <1>2, <1>5, <2>1 DEF LogTypes
  <2>3. Ordered(files', Len(written'))
    BY <1>5 DEF LogInv
  <2>4. ~refused' => Healthy'
    BY <1>5, <2>1 DEF LogInv, Healthy
  <2> QED
    BY <2>2, <2>3, <2>4 DEF LogInv
<1>6. CASE /\ refused' = (refused \/ Total(files[0]) + size > MaxBytes)
           /\ Append1(r) /\ UNCHANGED <<step, pending>>
  <2>1. refused' \in BOOLEAN /\ step' = Resting
    BY <1>1, <1>6
  <2>2. ~refused' => ~refused /\ Total(files[0]) + r.size <= MaxBytes
    <3>1. ~refused' => ~refused /\ ~(Total(files[0]) + size > MaxBytes)
      BY <1>6, Zenon
    <3> QED
      BY <1>2, <1>3, <3>1
  <2> QED
    BY <1>2, <1>6, <2>1, <2>2, AppendKeeps
<1> QED
  BY <1>4, <1>5, <1>6 DEF WriteEntry, CurrentFileSize, r

LEMMA DeleteKeeps == LogInv /\ DeleteOldest => LogInv'
<1> SUFFICES ASSUME LogInv, DeleteOldest  PROVE LogInv'
  OBVIOUS
<1>1. /\ files \in FilesType /\ written \in Seq(LogRecord) /\ Len(written) \in Nat
      /\ refused \in BOOLEAN /\ step # Resting /\ UNCHANGED <<pending, written>>
  BY LenProperties, CallFacts DEF LogInv, LogTypes, DeleteOldest
<1>2. step' = At("move", MaxFiles - 1)
  BY DEF DeleteOldest
<1>3. MaxFiles \in Nat \ {0} /\ MaxFiles - 1 \in 0 .. MaxFiles - 1 /\ MaxFiles \in Numbers
      /\ (MaxFiles - 1) + 1 = MaxFiles
  BY RotationAssumption DEF Numbers
<1>4. step' \in Calls /\ step'.call = "move" /\ step'.index + 1 = MaxFiles
  BY <1>2, <1>3, CallFacts DEF Calls
<1>5. CASE files' = [files EXCEPT ![MaxFiles] = <<>>] /\ UNCHANGED refused
  <2>1. files' \in FilesType /\ Ordered(files', Len(written'))
    <3>1. Ordered(files, Len(written))
      BY DEF LogInv
    <3> QED
      BY <1>1, <1>3, <1>5, <3>1, OrderDelete, FitsDelete
  <2>2. LogTypes'
    BY <1>1, <1>4, <1>5, <2>1 DEF LogInv, LogTypes
  <2>3. ASSUME ~refused'  PROVE Healthy'
    <3>1. Healthy
      BY <1>5, <2>3 DEF LogInv
    <3>2. Fits(files')
      BY <1>1, <1>3, <1>5, <3>1, FitsDelete DEF Healthy
    <3>3. \E cut : Whole(files', written', cut)
      BY <1>1, <1>5, <3>1, WholeDelete DEF Healthy
    <3>4. files'[MaxFiles] = <<>>
      BY <1>1, <1>3, <1>5 DEF FilesType
    <3> QED
      BY <1>4, <3>2, <3>3, <3>4 DEF Healthy
  <2> QED
    BY <2>1, <2>2, <2>3 DEF LogInv
<1>6. CASE refused' = TRUE /\ UNCHANGED files
  BY <1>1, <1>4, <1>6 DEF LogInv, LogTypes
<1> QED
  BY <1>5, <1>6 DEF DeleteOldest

LEMMA MoveKeeps == LogInv /\ MoveNext => LogInv'
<1> SUFFICES ASSUME LogInv, MoveNext  PROVE LogInv'
  OBVIOUS
<1> DEFINE i == step.index
           moved == [files EXCEPT ![i + 1] = files[i], ![i] = <<>>]
<1>1. /\ files \in FilesType /\ written \in Seq(LogRecord) /\ Len(written) \in Nat
      /\ refused \in BOOLEAN /\ step \in Calls /\ step.call = "move"
      /\ UNCHANGED <<pending, written>>
  BY LenProperties DEF LogInv, LogTypes, MoveNext
<1>2. i \in 0 .. MaxFiles - 1 /\ step # Resting /\ MaxFiles \in Nat \ {0}
  BY <1>1, CallFacts, RotationAssumption
<1>3. step' = IF i = 0 THEN At("reopen", 0) ELSE At("move", i - 1)
  BY DEF MoveNext
<1>4. \/ files' = moved /\ UNCHANGED refused
      \/ files[i] = <<>> /\ UNCHANGED <<files, refused>>
      \/ refused' = TRUE /\ UNCHANGED files
  BY DEF MoveNext
<1> HIDE DEF i, moved
<1>5. /\ step' \in Calls /\ step' # Resting
      /\ step'.call = "move" => step'.index + 1 = i
      /\ step'.call = "reopen" => i = 0
  <2>1. CASE i = 0
    BY <1>3, <2>1, CallFacts DEF Calls
  <2>2. CASE i # 0
    <3>1. i - 1 \in 0 .. MaxFiles - 1 /\ (i - 1) + 1 = i
      BY <1>2, <2>2
    <3>2. step' = At("move", i - 1)
      BY <1>3, <2>2
    <3>3. At("move", i - 1) \in Calls
      BY <3>1 DEF Calls
    <3>4. At("move", i - 1).call = "move" /\ At("move", i - 1).index = i - 1
      BY CallFacts
    <3> QED
      BY <3>1, <3>2, <3>3, <3>4, CallFacts
  <2> QED
    BY <2>1, <2>2
<1>6. /\ moved \in FilesType /\ moved[i] = <<>> /\ (Fits(files) => Fits(moved))
      /\ Ordered(moved, Len(written))
  BY <1>1, <1>2, FitsMove, OrderMove DEF LogInv, moved
<1>7. files' \in FilesType /\ Ordered(files', Len(written'))
  BY <1>1, <1>4, <1>6 DEF LogInv
<1>8. LogTypes'
  BY <1>1, <1>2, <1>4, <1>5, <1>7 DEF LogInv, LogTypes
<1>9. ASSUME ~refused'  PROVE Healthy'
  <2>1. Healthy /\ files'[i] = <<>> /\ (files' = moved \/ files' = files)
    BY <1>4, <1>6, <1>9 DEF LogInv
  <2>2. Fits(files')
    BY <1>6, <2>1 DEF Healthy
  <2>3. \E cut : Whole(files', written', cut)
    <3>1. PICK cut : Whole(files, written, cut)
      BY <2>1 DEF Healthy
    <3>2. files[i + 1] = <<>>
      BY <1>1, <2>1 DEF Healthy, i
    <3>3. \E new : Whole(moved, written, new)
      BY <1>1, <1>2, <3>1, <3>2, WholeMove DEF moved
    <3> QED
      BY <1>1, <2>1, <3>1, <3>3
  <2> QED
    BY <1>5, <2>1, <2>2, <2>3 DEF Healthy
<1> QED
  BY <1>7, <1>8, <1>9 DEF LogInv

LEMMA ReopenKeeps == LogInv /\ Reopen => LogInv'
<1> SUFFICES ASSUME LogInv, Reopen  PROVE LogInv'
  OBVIOUS
<1>1. /\ pending \in LogRecord /\ pending.size <= MaxBytes /\ pending.n = Len(written) + 1
      /\ refused \in BOOLEAN /\ step.call = "reopen"
  BY CallFacts DEF LogInv, LogTypes, Reopen
<1>2. ~refused => Total(files[0]) + pending.size <= MaxBytes
  <2>1. ASSUME ~refused  PROVE files[0] = <<>>
    BY <1>1, <2>1 DEF LogInv, Healthy
  <2>2. pending.size \in Nat
    BY <1>1 DEF LogRecord
  <2> QED
    BY <1>1, <2>1, <2>2, TotalIs
<1>3. Append1(pending) /\ step' = Resting /\ UNCHANGED refused
  BY DEF Reopen, Append1
<1> QED
  BY <1>1, <1>2, <1>3, AppendKeeps

LEMMA WriterEndsKeeps == LogInv /\ WriterEnds => LogInv'
<1> SUFFICES ASSUME LogInv, WriterEnds  PROVE LogInv'
  OBVIOUS
<1>1. step' = Resting /\ UNCHANGED <<files, written, refused>>
  BY DEF WriterEnds
<1>2. step' \in Calls /\ step'.call = "none"
  BY <1>1, CallFacts DEF Calls
<1>3. LogTypes'
  BY <1>1, <1>2 DEF LogInv, LogTypes
<1>4. Ordered(files', Len(written')) /\ (~refused' => Healthy')
  BY <1>1, <1>2 DEF LogInv, Healthy
<1> QED
  BY <1>3, <1>4 DEF LogInv

LEMMA LogStarts == LogInit => LogInv
<1> SUFFICES ASSUME LogInit  PROVE LogInv
  OBVIOUS
<1>1. files = [i \in Numbers |-> <<>>] /\ written = <<>> /\ refused = FALSE /\ step = Resting
  BY DEF LogInit
<1>2. files \in FilesType /\ written \in Seq(LogRecord) /\ Len(<<>>) = 0
  BY <1>1 DEF FilesType
<1>3. step \in Calls /\ step.call = "none"
  BY <1>1, CallFacts DEF Calls
<1>4. Ordered(files, Len(written))
  BY <1>1, <1>2 DEF Ordered
<1>5. Fits(files)
  BY <1>1, TotalIs, RotationAssumption DEF Fits
<1>6. \E cut : Whole(files, written, cut)
  <2> DEFINE cut == [i \in 0 .. MaxFiles + 1 |-> 0]
  <2>0. MaxFiles \in Nat /\ Numbers = 0 .. MaxFiles
    BY RotationAssumption DEF Numbers
  <2>1. cut \in [0 .. MaxFiles + 1 -> 0 .. Len(written)] /\ cut[0] = Len(written)
    BY <1>1, <1>2, <2>0
  <2>2. \A i \in Numbers : cut[i] = 0 /\ cut[i + 1] = 0
    BY <2>0
  <2>3. SubSeq(written, 0 + 1, 0) = <<>>
    BY SubSeqEmpty
  <2> HIDE DEF cut
  <2>4. Whole(files, written, cut)
    BY <1>1, <2>1, <2>2, <2>3 DEF Whole
  <2> QED
    BY <2>4
<1> QED
  BY <1>1, <1>2, <1>3, <1>4, <1>5, <1>6 DEF LogInv, LogTypes, Healthy

LEMMA LogNextKeeps == LogInv /\ [LogNext]_logVars => LogInv'
<1>1. LogInv /\ UNCHANGED logVars => LogInv'
  BY DEF logVars, LogInv, LogTypes, Healthy, Fits, Ordered, Whole
<1> QED
  BY <1>1, WriteEntryKeeps, DeleteKeeps, MoveKeeps, ReopenKeeps, WriterEndsKeeps DEF LogNext

LEMMA SpecLogs == Spec => []LogInv
<1>1. Init => LogInv
  BY LogStarts DEF Init
<1>2. [Next]_vars => [LogNext]_logVars
  BY DEF Next, vars, logVars
<1> QED
  BY <1>1, <1>2, LogNextKeeps, PTL DEF Spec

-----------------------------------------------------------------------------
(* The log as it is read                                                       *)

(* The files from the oldest on, put together one by one.                      *)
LEMMA RetainedSteps ==
    \E flat : /\ flat[1] = files[MaxFiles]
              /\ \A i \in 1 .. MaxFiles : flat[i + 1] = flat[i] \o files[MaxFiles - i]
              /\ Retained = flat[MaxFiles + 1]
<1> DEFINE seqs == [i \in 1 .. MaxFiles + 1 |-> files[MaxFiles + 1 - i]]
           n == MaxFiles + 1
<1>1. MaxFiles \in Nat \ {0}
  BY RotationAssumption
<1>2. Len(seqs) = n /\ n \in Nat \ {0}
  BY <1>1
<1>3. seqs[1] = files[MaxFiles] /\ \A i \in 1 .. MaxFiles : seqs[i + 1] = files[MaxFiles - i]
  <2>1. 1 \in 1 .. MaxFiles + 1 /\ MaxFiles + 1 - 1 = MaxFiles
    BY <1>1
  <2>2. \A i \in 1 .. MaxFiles : i + 1 \in 1 .. MaxFiles + 1 /\ MaxFiles + 1 - (i + 1) = MaxFiles - i
    BY <1>1
  <2> QED
    BY <2>1, <2>2
<1>4. Retained = FlattenSeq(seqs)
  BY DEF Retained
<1> HIDE DEF seqs
<1>5. PICK flat : /\ flat[1] = seqs[1]
                  /\ \A i \in 2 .. n : flat[i] = flat[i - 1] \o seqs[i]
                  /\ FlattenSeq(seqs) = flat[n]
  BY <1>2, FlattenSteps
<1>6. \A i \in 1 .. MaxFiles : flat[i + 1] = flat[i] \o files[MaxFiles - i]
  <2> TAKE i \in 1 .. MaxFiles
  <2>1. i + 1 \in 2 .. n /\ (i + 1) - 1 = i
    BY <1>1
  <2> HIDE DEF n
  <2>2. flat[i + 1] = flat[i] \o seqs[i + 1]
    BY <1>5, <2>1
  <2> QED
    BY <1>3, <2>2
<1> QED
  BY <1>3, <1>4, <1>5, <1>6

LEMMA RetainedOrdered ==
    ASSUME files \in FilesType, Ordered(files, Len(written))
    PROVE  \A i, j \in DOMAIN Retained : i < j => Retained[i].n < Retained[j].n
<1>1. MaxFiles \in Nat \ {0} /\ Numbers = 0 .. MaxFiles
      /\ \A i \in Numbers : files[i] \in Seq(LogRecord) /\ Len(files[i]) \in Nat
  BY RotationAssumption, LenProperties DEF FilesType, Numbers
<1>2. PICK flat : /\ flat[1] = files[MaxFiles]
                  /\ \A i \in 1 .. MaxFiles : flat[i + 1] = flat[i] \o files[MaxFiles - i]
                  /\ Retained = flat[MaxFiles + 1]
  BY RetainedSteps
<1> DEFINE Good(s, k) ==
             /\ s \in Seq(LogRecord)
             /\ \A i, j \in 1 .. Len(s) : i < j => s[i].n < s[j].n
             /\ \A i \in 1 .. Len(s), f \in Numbers : f < MaxFiles - k =>
                  \A q \in 1 .. Len(files[f]) : s[i].n < files[f][q].n
           P == {k \in 0 .. MaxFiles : Good(flat[k + 1], k)}
<1>3. 0 \in P
  <2> DEFINE s == flat[0 + 1]
  <2>1. 0 \in 0 .. MaxFiles /\ MaxFiles \in Numbers /\ MaxFiles - 0 = MaxFiles
        /\ \A f \in Numbers : f < MaxFiles => MaxFiles > f
    BY <1>1
  <2>2. s = files[MaxFiles] /\ s \in Seq(LogRecord)
    BY <1>1, <1>2, <2>1
  <2> HIDE DEF s
  <2>3. \A i, j \in 1 .. Len(s) : i < j => s[i].n < s[j].n
    BY <2>1, <2>2 DEF Ordered
  <2>4. \A i \in 1 .. Len(s), f \in Numbers : f < MaxFiles - 0 =>
          \A q \in 1 .. Len(files[f]) : s[i].n < files[f][q].n
    BY <2>1, <2>2 DEF Ordered
  <2>5. Good(s, 0)
    BY <2>2, <2>3, <2>4
  <2> HIDE DEF Good
  <2> QED
    BY <2>1, <2>5 DEF s
<1>4. \A k \in 0 .. MaxFiles : k \in P /\ k < MaxFiles => k + 1 \in P
  <2> SUFFICES ASSUME NEW k \in 0 .. MaxFiles, k \in P, k < MaxFiles  PROVE k + 1 \in P
    OBVIOUS
  <2> DEFINE s == flat[k + 1]
             g == MaxFiles - (k + 1)
             t == files[g]
             u == flat[(k + 1) + 1]
  <2>1. k + 1 \in 1 .. MaxFiles /\ k + 1 \in 0 .. MaxFiles /\ g \in Numbers /\ g < MaxFiles - k
        /\ \A f \in Numbers : f < MaxFiles - (k + 1) => f < MaxFiles - k /\ g > f
    BY <1>1
  <2>2. u = s \o t
    BY <1>2, <2>1
  <2>3. Good(s, k) /\ t \in Seq(LogRecord)
    BY <1>1, <2>1
  <2>4. /\ u \in Seq(LogRecord) /\ Len(u) = Len(s) + Len(t)
        /\ \A i \in 1 .. Len(s) + Len(t) : u[i] = IF i <= Len(s) THEN s[i] ELSE t[i - Len(s)]
    <3>1. s \in Seq(LogRecord) /\ t \in Seq(LogRecord)
      BY <2>3
    <3> HIDE DEF s, t, u, Good
    <3> QED
      BY <2>2, <3>1, ConcatProperties
  <2>5. Len(s) \in Nat /\ Len(t) \in Nat
    BY <2>3, LenProperties
  <2>6. \A p, q \in 1 .. Len(t) : p < q => t[p].n < t[q].n
    BY <2>1 DEF Ordered
  <2>7. \A i \in 1 .. Len(s), q \in 1 .. Len(t) : s[i].n < t[q].n
    BY <2>1, <2>3
  <2>8. \A f \in Numbers : f < MaxFiles - (k + 1) =>
          /\ \A i \in 1 .. Len(s), q \in 1 .. Len(files[f]) : s[i].n < files[f][q].n
          /\ \A p \in 1 .. Len(t), q \in 1 .. Len(files[f]) : t[p].n < files[f][q].n
    BY <2>1, <2>3 DEF Ordered
  <2> HIDE DEF s, t, u, g
  <2>9. \A i \in 1 .. Len(u) : \/ i \in 1 .. Len(s) /\ u[i] = s[i]
                               \/ i > Len(s) /\ i - Len(s) \in 1 .. Len(t) /\ u[i] = t[i - Len(s)]
    BY <2>4, <2>5
  <2>10. \A i, j \in 1 .. Len(u) : i < j => u[i].n < u[j].n
    <3> SUFFICES ASSUME NEW i \in 1 .. Len(u), NEW j \in 1 .. Len(u), i < j  PROVE u[i].n < u[j].n
      OBVIOUS
    <3>1. CASE i \in 1 .. Len(s) /\ u[i] = s[i] /\ j \in 1 .. Len(s) /\ u[j] = s[j]
      BY <2>3, <3>1
    <3>2. CASE i \in 1 .. Len(s) /\ u[i] = s[i] /\ j - Len(s) \in 1 .. Len(t) /\ u[j] = t[j - Len(s)]
      BY <2>7, <3>2
    <3>3. CASE /\ i - Len(s) \in 1 .. Len(t) /\ u[i] = t[i - Len(s)]
               /\ j - Len(s) \in 1 .. Len(t) /\ u[j] = t[j - Len(s)]
      <4>1. i - Len(s) < j - Len(s)
        BY <2>4, <2>5
      <4> QED
        BY <2>6, <3>3, <4>1
    <3> QED
      BY <2>4, <2>5, <2>9, <3>1, <3>2, <3>3
  <2>11. \A i \in 1 .. Len(u), f \in Numbers : f < MaxFiles - (k + 1) =>
           \A q \in 1 .. Len(files[f]) : u[i].n < files[f][q].n
    BY <2>8, <2>9
  <2>12. Good(u, k + 1)
    BY <2>4, <2>10, <2>11
  <2> QED
    BY <2>1, <2>12 DEF u
<1> HIDE DEF P
<1>5. MaxFiles \in P
  <2> HIDE DEF Good
  <2>1. \A k \in 0 .. MaxFiles : k \in P
    BY <1>1, <1>3, <1>4, InductionUpTo
  <2> QED
    BY <1>1, <2>1
<1>6. Good(Retained, MaxFiles)
  BY <1>2, <1>5 DEF P
<1> QED
  BY <1>6, LenProperties

LEMMA RetainedWhole ==
    ASSUME written \in Seq(LogRecord), NEW cut, Whole(files, written, cut)
    PROVE  IsSuffix(Retained, written)
<1> DEFINE w == written
           a == cut[MaxFiles + 1]
<1>1. MaxFiles \in Nat \ {0} /\ Numbers = 0 .. MaxFiles /\ Len(w) \in Nat
  BY RotationAssumption, LenProperties DEF Numbers
<1>2. /\ \A i \in 0 .. MaxFiles + 1 : cut[i] \in 0 .. Len(w)
      /\ cut[0] = Len(w)
      /\ \A i \in 0 .. MaxFiles : cut[i + 1] <= cut[i] /\ files[i] = SubSeq(w, cut[i + 1] + 1, cut[i])
  BY <1>1 DEF Whole
<1>3. PICK flat : /\ flat[1] = files[MaxFiles]
                  /\ \A i \in 1 .. MaxFiles : flat[i + 1] = flat[i] \o files[MaxFiles - i]
                  /\ Retained = flat[MaxFiles + 1]
  BY RetainedSteps
<1> HIDE DEF w
<1> DEFINE P == {k \in 0 .. MaxFiles : /\ a <= cut[MaxFiles - k]
                                       /\ flat[k + 1] = SubSeq(w, a + 1, cut[MaxFiles - k])}
<1>4. 0 \in P
  <2>1. 0 \in 0 .. MaxFiles /\ MaxFiles \in 0 .. MaxFiles /\ MaxFiles - 0 = MaxFiles /\ 0 + 1 = 1
    BY <1>1
  <2>2. a <= cut[MaxFiles] /\ files[MaxFiles] = SubSeq(w, a + 1, cut[MaxFiles])
    BY <1>2, <2>1
  <2> HIDE DEF a
  <2> QED
    BY <1>3, <2>1, <2>2
<1>5. \A k \in 0 .. MaxFiles : k \in P /\ k < MaxFiles => k + 1 \in P
  <2> SUFFICES ASSUME NEW k \in 0 .. MaxFiles, k \in P, k < MaxFiles  PROVE k + 1 \in P
    OBVIOUS
  <2> DEFINE b == cut[MaxFiles - k]
             c == cut[MaxFiles - (k + 1)]
  <2>1. /\ k + 1 \in 1 .. MaxFiles /\ k + 1 \in 0 .. MaxFiles /\ MaxFiles - (k + 1) \in 0 .. MaxFiles
        /\ (MaxFiles - (k + 1)) + 1 = MaxFiles - k /\ MaxFiles - k \in 0 .. MaxFiles + 1
        /\ MaxFiles + 1 \in 0 .. MaxFiles + 1 /\ MaxFiles - (k + 1) \in 0 .. MaxFiles + 1
    BY <1>1
  <2>2. a \in 0 .. Len(w) /\ b \in 0 .. Len(w) /\ c \in 0 .. Len(w) /\ a <= b /\ b <= c
        /\ files[MaxFiles - (k + 1)] = SubSeq(w, b + 1, c) /\ flat[k + 1] = SubSeq(w, a + 1, b)
    BY <1>2, <2>1
  <2>3. flat[(k + 1) + 1] = SubSeq(w, a + 1, b) \o SubSeq(w, b + 1, c)
    BY <1>3, <2>1, <2>2
  <2> HIDE DEF a, b, c
  <2>4. SubSeq(w, a + 1, b) \o SubSeq(w, b + 1, c) = SubSeq(w, a + 1, c)
    <3>1. a + 1 \in 1 .. Len(w) + 1 /\ b \in (a + 1) - 1 .. Len(w) /\ c \in b .. Len(w)
      BY <1>1, <2>2
    <3>2. w \in Seq(LogRecord)
      BY DEF w
    <3> QED
      BY <3>1, <3>2, ConcatAdjacentSubSeq
  <2>5. a <= c
    BY <1>1, <2>2
  <2> QED
    BY <2>1, <2>3, <2>4, <2>5 DEF c
<1> HIDE DEF P
<1>6. MaxFiles \in P
  <2> HIDE DEF a
  <2>1. \A k \in 0 .. MaxFiles : k \in P
    BY <1>1, <1>4, <1>5, InductionUpTo
  <2> QED
    BY <1>1, <2>1
<1>7. Retained = SubSeq(w, a + 1, Len(w))
  <2>1. MaxFiles - MaxFiles = 0
    BY <1>1
  <2> QED
    BY <1>2, <1>3, <1>6, <2>1 DEF P
<1>8. a \in Nat /\ a <= Len(w)
  BY <1>1, <1>2
<1> QED
  BY <1>7, <1>8, SuffixOf DEF w

(* Whatever fails and whenever the writer ends, the files read in their order  *)
(* are in the order of writing; and as long as no call failed they are the     *)
(* end of what was written, in files within the limit (RotateFiles,            *)
(* WriteEntry), for any limits and sizes.                                      *)
THEOREM LogIsKept == Spec => []LogKept
<1>1. LogInv => LogKept
  <2> SUFFICES ASSUME LogInv  PROVE LogKept
    OBVIOUS
  <2>1. \A i, j \in DOMAIN Retained : i < j => Retained[i].n < Retained[j].n
    BY RetainedOrdered DEF LogInv, LogTypes
  <2>2. ~refused => IsSuffix(Retained, written)
    BY RetainedWhole DEF LogInv, LogTypes, Healthy
  <2>3. ~refused => \A i \in Numbers : Total(files[i]) <= MaxBytes
    BY DEF LogInv, Healthy, Fits
  <2> QED
    BY <2>1, <2>2, <2>3 DEF LogKept
<1> QED
  BY <1>1, SpecLogs, PTL
=============================================================================

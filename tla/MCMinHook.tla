------------------------------ MODULE MCMinHook ------------------------------
(* A program that uses the whole of MinHook's API while its threads call the   *)
(* hooked functions.                                                           *)
EXTENDS MinHook

VARIABLES
    original,   \* the pointers MH_CreateHook filled in
    unwritable  \* VirtualProtect has failed once

vars == <<hookVars, original, unwritable>>

CONSTANT SingleDisable   \* the program also calls MH_DisableHook for one target

MCReach == [t \in Targets |-> IF t \in Above THEN {CHOOSE b \in Blocks : TRUE} ELSE Blocks]

Statuses == {"OK", "ALREADY_INITIALIZED", "NOT_INITIALIZED", "ALREADY_CREATED", "NOT_CREATED",
             "ENABLED", "DISABLED", "MEMORY_ALLOC", "MEMORY_PROTECT", "UNSUPPORTED_FUNCTION"}

(* What a program owes the library before it frees a trampoline: no thread is  *)
(* on its way through the detour, where the library cannot see it, and none is *)
(* in a trampoline that RemoveHook or Uninitialize would not look at.          *)
Quiet(t) == \A th \in Threads :
               ip[th] # Idle /\ ip[th].fn = t =>
                   /\ ip[th].at # "detour"
                   /\ ip[th].at = "tramp" => \E n \in FindHookEntry(t) : hooks[n].enabled

Init == HookInit /\ original = [t \in Targets |-> NoSlot] /\ unwritable = FALSE

Program(st) ==
    \/ Initialize(st) /\ UNCHANGED original
    \/ (\A t \in Targets : Quiet(t)) /\ Uninitialize(st) /\ UNCHANGED original
    \/ \E t \in Targets :
         \/ \E slot \in Addresses \cup {NoSlot} :
              /\ CreateHook(t, st, slot)
              /\ original' = IF st = "OK" THEN [original EXCEPT ![t] = slot] ELSE original
         \/ Quiet(t) /\ RemoveHook(t, st) /\ UNCHANGED original
         \/ EnableHook(t, TRUE, st) /\ UNCHANGED original
         \/ SingleDisable /\ EnableHook(t, FALSE, st) /\ UNCHANGED original
    \/ \E e \in BOOLEAN :
         \/ EnableAllHooks(e, st) /\ UNCHANGED original
         \/ \E ts \in {{t} : t \in Targets} \cup {Targets} : QueueHook(ts, e, st) /\ UNCHANGED original
    \/ ApplyQueued(st) /\ UNCHANGED original

Step(th) == /\ \/ \E t \in Targets : Call(th, t)
               \/ ip[th] # Idle /\ Run(th, original[ip[th].fn])
            /\ UNCHANGED <<original, unwritable>>

Next == (\E st \in Statuses : Program(st) /\ unwritable' = (unwritable \/ st = "MEMORY_PROTECT")) \/ (\E th \in Threads : Step(th))
Spec == Init /\ [][Next]_vars

(* "If the thread suspended in the overwritten area, move IP to the proper     *)
(* address" (hook.c:201) holds of the threads that can be suspended, while     *)
(* pages can be made writable: threads are moved before VirtualProtect is      *)
(* asked, and not moved back if it refuses.                                    *)
MovedProperly == unwritable \/ NobodyLost
=============================================================================

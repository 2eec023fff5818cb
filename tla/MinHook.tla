------------------------------- MODULE MinHook -------------------------------
(* The hooking library the patch links, external-minhook/src/hook.c and        *)
(* buffer.c: the table of hooks, the memory blocks their trampolines live in,  *)
(* the code bytes it overwrites, and the threads that run through that code    *)
(* meanwhile. A call of the API holds the spin lock and suspends the other     *)
(* threads around its writes, so it is one action.                             *)
EXTENDS Integers, Sequences, FiniteSets

CONSTANTS
    Targets,   \* the functions that can be hooked
    Above,     \* the ones so short that the long jump goes above them (patchAbove)
    Blocks,    \* the addresses a memory block may get
    Reach,     \* Reach[t]: the blocks within 512 MB of t
    Slots,     \* the slots of one block
    Threads,   \* the threads of the process
    Shielded,  \* the threads that cannot always be opened, suspended and read
    MayFail    \* the calls into the system that may fail: "memory", "function",
               \* "entry", "threads", "protect"

ASSUME HookAssumption == /\ Above \subseteq Targets
                         /\ Reach \in [Targets -> SUBSET Blocks]
                         /\ Shielded \subseteq Threads

VARIABLES
    heap,      \* g_hHeap # NULL
    hooks,     \* g_hooks
    blocks,    \* g_pMemoryBlocks: each block in the list with its free slots
    patched,   \* patched[t]: NoSlot for the original bytes of t, or where its jump leads
    ip         \* where each thread is

tableVars == <<heap, hooks, blocks, patched>>
hookVars == <<heap, hooks, blocks, patched, ip>>

(* A slot's address is its block and its place in it: MEMORY_SLOT.             *)
Addresses == Blocks \X Slots
NoSlot == <<>>

(* HOOK_ENTRY. The prologue saved in backup is always the original one.        *)
Entries == [target: Targets, tramp: Addresses, enabled: BOOLEAN, queued: BOOLEAN]

(* Places a thread can be in, as far as the library tells them apart: the two  *)
(* instruction boundaries of a target's overwritten area (i = 0 is its entry), *)
(* the jump above it, the relay and the boundaries of a trampoline, the detour *)
(* before and after its call of the original; "lost" is a place that holds no  *)
(* instruction of any function, "null" a call through a null pointer. "ret" is *)
(* who called: the program, or a detour calling the original function.         *)
Place(at, fn, i, slot, ret) == [at |-> at, fn |-> fn, i |-> i, slot |-> slot, ret |-> ret]
Idle == [at |-> "idle"]
Places == {Idle} \cup
          [at: {"target", "above", "relay", "tramp", "detour", "after", "lost", "null"},
           fn: Targets, i: {0, 1}, slot: Addresses \cup {NoSlot}, ret: {"program", "detour"}]

HookInit == /\ heap = FALSE
            /\ hooks = <<>>
            /\ blocks = <<>>
            /\ patched = [t \in Targets |-> NoSlot]
            /\ ip = [th \in Threads |-> Idle]

-----------------------------------------------------------------------------
(* buffer.c                                                                   *)

(* Where a walk along a list stops that looks for one of the places S.         *)
First(S) == CHOOSE n \in S : \A m \in S : n <= m

(* GetMemoryBlock's first choice, the first block in the list near enough and  *)
(* with a free slot; without one a new block, put in front.                    *)
Usable(t) == {n \in DOMAIN blocks : blocks[n].id \in Reach[t] /\ blocks[n].free # {}}
Fresh(t) == Reach[t] \ {blocks[n].id : n \in DOMAIN blocks}

(* AllocateBuffer: the lists that can result, with the slot taken. An empty    *)
(* set is an allocation that cannot succeed.                                   *)
AllocateBuffer(t) ==
    IF Usable(t) # {}
    THEN LET n == First(Usable(t))
         IN {[list |-> [blocks EXCEPT ![n].free = @ \ {s}, ![n].used = @ + 1],
              slot |-> <<blocks[n].id, s>>] : s \in blocks[n].free}
    ELSE {[list |-> <<[id |-> b, free |-> Slots \ {s}, used |-> 1]>> \o blocks,
           slot |-> <<b, s>>] : b \in Fresh(t), s \in Slots}

(* As FreeBuffer, with the uses of the block not counted down.                 *)
FreeBufferUncounted(list, slot) ==
    [n \in DOMAIN list |-> IF list[n].id = slot[1]
                           THEN [list[n] EXCEPT !.free = @ \cup {slot[2]}] ELSE list[n]]

(* FreeBuffer: the slot goes back to its block, and a block whose last slot    *)
(* comes back is taken out of the list and returned to the system.             *)
Without(list, n) == [m \in 1 .. Len(list) - 1 |-> list[IF m < n THEN m ELSE m + 1]]

FreeBuffer(list, slot) ==
    LET of == {n \in DOMAIN list : list[n].id = slot[1]}
        back == [list EXCEPT ![First(of)].free = @ \cup {slot[2]}, ![First(of)].used = @ - 1]
    IN IF of = {} THEN list
       ELSE IF list[First(of)].used = 1 THEN Without(list, First(of)) ELSE back

-----------------------------------------------------------------------------
(* The table                                                                  *)

FindHookEntry(t) == {n \in DOMAIN hooks : hooks[n].target = t}

(* As DeleteHookEntry, with the last entry not moved to the place.             *)
DeleteHookEntryLast(n) == SubSeq(hooks, 1, Len(hooks) - 1)

(* DeleteHookEntry: the last entry takes the place of the deleted one.         *)
DeleteHookEntry(n) == LET moved == [hooks EXCEPT ![n] = hooks[Len(hooks)]]
                      IN SubSeq(moved, 1, Len(hooks) - 1)

-----------------------------------------------------------------------------
(* Moving threads out of code that is about to be overwritten                 *)

(* As FindOldIP, with the jump above the target forgotten.                     *)
FindOldIPFromTrampoline(e, p) ==
    IF p.at \in {"tramp", "relay"} /\ p.slot = e.tramp
    THEN [p EXCEPT !.at = "target", !.slot = NoSlot] ELSE p

(* FindOldIP: from the trampoline, its relay or the jump above, to the target. *)
FindOldIP(e, p) ==
    CASE p.at = "above" /\ p.fn = e.target /\ e.target \in Above -> [p EXCEPT !.at = "target"]
      [] p.at = "tramp" /\ p.slot = e.tramp -> [p EXCEPT !.at = "target", !.slot = NoSlot]
      [] p.at = "relay" /\ p.slot = e.tramp -> [p EXCEPT !.at = "target", !.slot = NoSlot]
      [] OTHER -> p

(* FindNewIP: from the target to the trampoline.                               *)
FindNewIP(e, p) == IF p.at = "target" /\ p.fn = e.target
                   THEN [p EXCEPT !.at = "tramp", !.slot = e.tramp] ELSE p

(* ProcessThreadIPs for the entries at `which`: `wants` says what each is to   *)
(* become. An entry that is so already is passed over.                         *)
ProcessThreadIPs(p, which, wants) ==
    LET todo == {n \in which : hooks[n].enabled # wants[n]}
        Moved(n) == IF wants[n] THEN FindNewIP(hooks[n], p) ELSE FindOldIP(hooks[n], p)
    IN IF p # Idle /\ \E n \in todo : Moved(n) # p
       THEN Moved(CHOOSE n \in todo : Moved(n) # p) ELSE p

(* Freeze passes over a thread that it fails to open or to suspend, or whose   *)
(* context it cannot get, and tells nobody.                                    *)
Freeze(which, wants) ==
    \E left \in SUBSET Shielded :
        ip' = [th \in Threads |-> IF th \in left THEN ip[th] ELSE ProcessThreadIPs(ip[th], which, wants)]

(* EnableHookLL on the entries of `done`: the jump is written or the prologue  *)
(* restored, and both flags follow.                                            *)
EnableHookLL(done, wants) ==
    /\ patched' = [t \in Targets |->
                     IF \E n \in done : hooks[n].target = t
                     THEN LET n == CHOOSE n \in done : hooks[n].target = t
                          IN IF wants[n] THEN hooks[n].tramp ELSE NoSlot
                     ELSE patched[t]]
    /\ hooks' = [n \in DOMAIN hooks |->
                   IF n \in done THEN [hooks[n] EXCEPT !.enabled = wants[n], !.queued = wants[n]]
                   ELSE hooks[n]]

(* The loop of EnableAllHooksLL and MH_ApplyQueued over the entries that are   *)
(* not as wanted: it stops at the first page it cannot make writable.          *)
WriteAll(wants, st) ==
    LET todo == {n \in DOMAIN hooks : hooks[n].enabled # wants[n]} IN
    \/ /\ todo = {}
       /\ st = "OK"
       /\ UNCHANGED <<hooks, patched, ip>>
    \/ /\ todo # {} /\ "threads" \in MayFail
       /\ st = "MEMORY_ALLOC"
       /\ UNCHANGED <<hooks, patched, ip>>
    \/ /\ todo # {}
       /\ Freeze(DOMAIN hooks, wants)
       /\ \/ st = "OK" /\ EnableHookLL(todo, wants)
          \/ /\ st = "MEMORY_PROTECT" /\ "protect" \in MayFail
             /\ \E last \in todo : EnableHookLL({n \in todo : n < last}, wants)

EnableAllHooksLL(enable, st) == WriteAll([n \in DOMAIN hooks |-> enable], st)

-----------------------------------------------------------------------------
(* The API. `st` is the status a call returns.                                *)

Refused(st) == ~heap /\ st = "NOT_INITIALIZED" /\ UNCHANGED hookVars

Initialize(st) ==
    \/ heap /\ st = "ALREADY_INITIALIZED" /\ UNCHANGED hookVars
    \/ ~heap /\ st = "MEMORY_ALLOC" /\ "memory" \in MayFail /\ UNCHANGED hookVars
    \/ ~heap /\ st = "OK" /\ heap' = TRUE /\ UNCHANGED <<hooks, blocks, patched, ip>>

(* MH_Uninitialize: blocks, table and heap go only if every hook could be      *)
(* disabled. Nobody is moved if none is enabled any more.                      *)
Uninitialize(st) ==
    \/ Refused(st)
    \/ heap /\ st # "OK" /\ EnableAllHooksLL(FALSE, st) /\ UNCHANGED <<heap, blocks>>
    \/ /\ heap /\ st = "OK"
       /\ Freeze(DOMAIN hooks, [n \in DOMAIN hooks |-> FALSE])
       /\ patched' = [t \in Targets |-> IF FindHookEntry(t) # {} THEN NoSlot ELSE patched[t]]
       /\ heap' = FALSE /\ hooks' = <<>> /\ blocks' = <<>>

(* MH_CreateHook. The slot is given back if the trampoline cannot be built or  *)
(* the table cannot grow.                                                      *)
CreateHook(t, st, slot) ==
    \/ Refused(st) /\ slot = NoSlot
    \/ /\ heap /\ FindHookEntry(t) # {}
       /\ st = "ALREADY_CREATED" /\ slot = NoSlot /\ UNCHANGED hookVars
    \/ /\ heap /\ FindHookEntry(t) = {} /\ (AllocateBuffer(t) = {} \/ "memory" \in MayFail)
       /\ st = "MEMORY_ALLOC" /\ slot = NoSlot /\ UNCHANGED hookVars
    \/ /\ heap /\ FindHookEntry(t) = {}
       /\ \E a \in AllocateBuffer(t) :
            \/ /\ st = "OK" /\ slot = a.slot
               /\ blocks' = a.list
               /\ hooks' = Append(hooks, [target |-> t, tramp |-> a.slot,
                                          enabled |-> FALSE, queued |-> FALSE])
            \/ /\ \/ st = "UNSUPPORTED_FUNCTION" /\ "function" \in MayFail
                  \/ st = "MEMORY_ALLOC" /\ "entry" \in MayFail
               /\ slot = NoSlot
               /\ blocks' = FreeBuffer(a.list, a.slot)
               /\ hooks' = hooks
       /\ UNCHANGED <<heap, patched, ip>>

(* The middle of MH_RemoveHook and EnableHook: threads are moved as for        *)
(* `action`, then the bytes of entry n are written.                            *)
WriteOne(n, action, enable, st) ==
    \/ /\ st = "MEMORY_ALLOC" /\ "threads" \in MayFail
       /\ UNCHANGED <<hooks, patched, ip>>
    \/ /\ Freeze({n}, [m \in {n} |-> action])
       /\ \/ st = "OK" /\ EnableHookLL({n}, [m \in {n} |-> enable])
          \/ st = "MEMORY_PROTECT" /\ "protect" \in MayFail /\ UNCHANGED <<hooks, patched>>

(* MH_RemoveHook moves threads only if the hook is enabled.                    *)
RemoveHook(t, st) ==
    \/ Refused(st)
    \/ heap /\ FindHookEntry(t) = {} /\ st = "NOT_CREATED" /\ UNCHANGED hookVars
    \/ /\ heap /\ st # "OK"
       /\ \E n \in FindHookEntry(t) : hooks[n].enabled /\ WriteOne(n, FALSE, FALSE, st)
       /\ UNCHANGED <<heap, blocks>>
    \/ /\ heap /\ st = "OK"
       /\ \E n \in FindHookEntry(t) :
            /\ blocks' = FreeBuffer(blocks, hooks[n].tramp)
            /\ hooks' = DeleteHookEntry(n)
            /\ IF hooks[n].enabled
               THEN Freeze({n}, [m \in {n} |-> FALSE]) /\ patched' = [patched EXCEPT ![t] = NoSlot]
               ELSE UNCHANGED <<patched, ip>>
       /\ UNCHANGED heap

(* EnableHook for one target: MH_EnableHook and MH_DisableHook. Both tell      *)
(* Freeze to move threads as for ACTION_ENABLE.                                *)
EnableHook(t, enable, st) ==
    \/ Refused(st)
    \/ heap /\ FindHookEntry(t) = {} /\ st = "NOT_CREATED" /\ UNCHANGED hookVars
    \/ /\ heap
       /\ \E n \in FindHookEntry(t) :
            \/ /\ hooks[n].enabled = enable
               /\ st = IF enable THEN "ENABLED" ELSE "DISABLED"
               /\ UNCHANGED <<hooks, patched, ip>>
            \/ hooks[n].enabled # enable /\ WriteOne(n, TRUE, enable, st)
       /\ UNCHANGED <<heap, blocks>>

(* EnableHook for MH_ALL_HOOKS.                                                *)
EnableAllHooks(enable, st) ==
    Refused(st) \/ (heap /\ EnableAllHooksLL(enable, st) /\ UNCHANGED <<heap, blocks>>)

(* QueueHook, for one target or for all.                                       *)
QueueHook(ts, queue, st) ==
    \/ Refused(st)
    \/ /\ heap
       /\ st = IF ts # Targets /\ \A t \in ts : FindHookEntry(t) = {} THEN "NOT_CREATED" ELSE "OK"
       /\ hooks' = [n \in DOMAIN hooks |->
                      IF hooks[n].target \in ts THEN [hooks[n] EXCEPT !.queued = queue] ELSE hooks[n]]
       /\ UNCHANGED <<heap, blocks, patched, ip>>

ApplyQueued(st) ==
    \/ Refused(st)
    \/ /\ heap /\ WriteAll([n \in DOMAIN hooks |-> hooks[n].queued], st)
       /\ UNCHANGED <<heap, blocks>>

-----------------------------------------------------------------------------
(* The threads                                                                *)

(* The trampoline or relay at a slot is code of t's hook.                      *)
Live(slot, t) == \E n \in DOMAIN hooks : hooks[n].tramp = slot /\ hooks[n].target = t

Lost(p) == [p EXCEPT !.at = "lost", !.i = 0, !.slot = NoSlot]

(* The function has run: back to the program, or to the detour that called it. *)
Returned(p) == IF p.ret = "program" THEN Idle ELSE Place("after", p.fn, 0, NoSlot, "program")

(* One step of a thread through a function and its hook. `original` is the     *)
(* pointer the detour calls through.                                           *)
NextPlace(p, original) ==
    CASE p.at = "target" /\ p.i = 0 -> {IF patched[p.fn] = NoSlot THEN [p EXCEPT !.i = 1]
                                        ELSE IF p.fn \in Above THEN [p EXCEPT !.at = "above"]
                                        ELSE [p EXCEPT !.at = "relay", !.slot = patched[p.fn]]}
      [] p.at = "target" /\ p.i = 1 -> {IF patched[p.fn] = NoSlot THEN Returned(p) ELSE Lost(p)}
      [] p.at = "above" -> {IF patched[p.fn] = NoSlot THEN Lost(p)
                            ELSE [p EXCEPT !.at = "relay", !.slot = patched[p.fn]]}
      [] p.at = "relay" -> {IF Live(p.slot, p.fn) THEN Place("detour", p.fn, 0, NoSlot, p.ret)
                            ELSE Lost(p)}
      [] p.at = "tramp" -> {IF ~Live(p.slot, p.fn) THEN Lost(p)
                            ELSE IF p.i = 0 THEN [p EXCEPT !.i = 1] ELSE Returned(p)}
      [] p.at = "detour" -> {Idle,
                             IF original = NoSlot THEN Place("null", p.fn, 0, NoSlot, p.ret)
                             ELSE Place("tramp", p.fn, 0, original, "detour")}
      [] p.at = "after" -> {Idle}
      [] OTHER -> {}

Call(th, t) == /\ ip[th] = Idle
               /\ ip' = [ip EXCEPT ![th] = Place("target", t, 0, NoSlot, "program")]
               /\ UNCHANGED tableVars

Run(th, original) == /\ \E p \in NextPlace(ip[th], original) : ip' = [ip EXCEPT ![th] = p]
                     /\ UNCHANGED tableVars

-----------------------------------------------------------------------------
(* Properties                                                                 *)

HookTypeOK ==
    /\ heap \in BOOLEAN
    /\ hooks \in Seq(Entries)
    /\ \A n \in DOMAIN blocks : /\ blocks[n].id \in Blocks
                               /\ blocks[n].free \subseteq Slots
                               /\ blocks[n].used \in Nat
    /\ patched \in [Targets -> Addresses \cup {NoSlot}]
    /\ ip \in [Threads -> Places]

(* Every hook has a slot of its own near its target, in a block of the list;   *)
(* a block counts the hooks in it, and no slot is at once free and used. A     *)
(* block nobody uses is not kept (buffer.c, MH_CreateHook's failures).         *)
SlotsAccounted ==
    /\ \A m, n \in DOMAIN hooks : m # n => /\ hooks[m].tramp # hooks[n].tramp
                                           /\ hooks[m].target # hooks[n].target
    /\ \A n \in DOMAIN hooks : hooks[n].tramp[1] \in Reach[hooks[n].target]
    /\ \A n \in DOMAIN blocks :
         LET users == {m \in DOMAIN hooks : hooks[m].tramp[1] = blocks[n].id}
         IN /\ blocks[n].used = Cardinality(users) /\ users # {}
            /\ blocks[n].free = Slots \ {hooks[m].tramp[2] : m \in users}
    /\ \A n \in DOMAIN hooks : \E m \in DOMAIN blocks : blocks[m].id = hooks[n].tramp[1]

(* The bytes in memory say what the table says, over partial failures: a       *)
(* target is patched exactly while an entry for it is enabled, and the jump    *)
(* leads to that entry's slot (EnableHookLL, MH_Uninitialize).                 *)
CodeMatchesTable ==
    \A t \in Targets :
        patched[t] = IF \E n \in FindHookEntry(t) : hooks[n].enabled
                     THEN hooks[CHOOSE n \in FindHookEntry(t) : TRUE].tramp ELSE NoSlot

(* "If the thread suspended in the overwritten area, move IP to the proper     *)
(* address" (hook.c): no thread that can be suspended is left where its        *)
(* instruction was replaced or its trampoline freed.                           *)
NobodyLost == \A th \in Threads \ Shielded : ip[th].at # "lost"
=============================================================================

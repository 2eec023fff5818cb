----------------------------- MODULE RuntimeProofs -----------------------------
(* For any number of threads, hooks, rounds and requests: what the teardown     *)
(* of Runtime owns it gives up, the flags of the hooks are true, and a thread   *)
(* comes back from a hooked call unless the teardown overtook it.               *)
EXTENDS Runtime, SequenceTheorems, TLAPS

Early == {"start", "aborted", "initialize"}
Late == {"unregister", "disable", "uninitialize", "close", "closing", "exited"}
Gone == {"close", "closing", "exited"}

(* The inductive invariant, in parts: first the shape of the variables.        *)
HookEntries(S) == [target: Targets, tramp: S, enabled: BOOLEAN, queued: BOOLEAN]
Tramps == {hooks[n].tramp : n \in DOMAIN hooks}

Shaped ==
    /\ hooks \in Seq(HookEntries(Tramps))
    /\ original = [t \in Targets |-> original[t]]
    /\ job = [a \in Actors |-> job[a]]
    /\ ip = [th \in Threads |-> ip[th]]
    /\ stream = [th \in Threads |-> stream[th]]
    /\ request = [r \in Requesters |-> request[r]]

(* One entry for a target, with a trampoline, which the detour of the target    *)
(* calls through from the entry's creation on, or from its publication if the   *)
(* function is an export; nothing is patched without an entry.                  *)
HooksOK ==
    /\ heap \in BOOLEAN
    /\ \A n \in DOMAIN hooks :
         /\ hooks[n].tramp # NoSlot
         /\ hooks[n].target \in Exports \/ original[hooks[n].target] = hooks[n].tramp
    /\ \A m, n \in DOMAIN hooks : hooks[m].target = hooks[n].target => m = n
    /\ \A t \in Targets : patched[t] # NoSlot => FindHookEntry(t) # {}
    /\ ~heap => hooks = <<>>
    /\ \A t \in Targets : original[t] # NoSlot => ~heap \/ Live(original[t], t)

(* An installation under way has its slot.                                     *)
JobsOK ==
    \A a \in Actors :
        /\ job[a].at \in {"create", "enable", "publish"} => job[a].t \in Targets
        /\ job[a].at \in {"enable", "publish"} =>
             /\ job[a] = [at |-> job[a].at, t |-> job[a].t, slot |-> job[a].slot]
             /\ job[a].slot # NoSlot
             /\ ~heap \/ Live(job[a].slot, job[a].t)

(* The entry of t is enabled, and its trampoline is at slot.                   *)
Works(t, slot) == \E n \in DOMAIN hooks : /\ hooks[n].target = t /\ hooks[n].tramp = slot
                                          /\ hooks[n].enabled

(* Until the teardown disables them, the code bytes say what the entries say,   *)
(* and what is published works.                                                *)
FlagsOK ==
    main \notin {"uninitialize"} \cup Gone =>
        /\ \A n \in DOMAIN hooks :
             patched[hooks[n].target] = IF hooks[n].enabled THEN hooks[n].tramp ELSE NoSlot
        /\ \A t \in hooked : t \in Targets /\ Works(t, original[t])
        /\ \A a \in Actors : job[a].at = "publish" => Works(job[a].t, job[a].slot)

(* Where a thread can be, and that its next step finds what it needs.          *)
PlaceOK(p) ==
    p # Idle =>
        /\ p = Place(p.at, p.fn, p.i, p.slot, p.ret)
        /\ p.at \in {"target", "tramp", "detour", "after", "lost", "null"}
        /\ p.fn \in Targets
        /\ p.at = "detour" => p.fn \in Exports \/ original[p.fn] # NoSlot
        /\ p.at = "tramp" => ~heap \/ Live(p.slot, p.fn)
        /\ p.at = "null" => p.fn \in Exports
        /\ p.at = "lost" => ~heap

PlacesOK == \A th \in Threads : PlaceOK(ip[th])

(* Before the library is initialized nobody is in it.                          *)
EarlyOK ==
    main \in Early =>
        /\ ~heap /\ hooked = {}
        /\ \A th \in Threads : ip[th] = Idle
        /\ \A t \in Targets : original[t] = NoSlot
        /\ \A a \in Actors : job[a] = NoJob

(* The flag is set before the event, by a request that is accepted with it, and *)
(* the event before the teardown.                                              *)
RequestsOK ==
    /\ event \in {"set", "closed"} => requested /\ \E r \in Requesters : request[r] = "accepted"
    /\ \A r \in Requesters : request[r] = "signal" => requested
    /\ main \in {"streams", "endpoint"} \cup Late => event \in {"set", "closed"}

(* Who holds the lock is registering; a registration has an owner, and the      *)
(* teardown leaves none.                                                       *)
EndpointsOK ==
    /\ \A th \in Threads : job[th].at \in {"call", "retain"} <=> epLock = th
    /\ epLock \in Threads \cup {"free"}
    /\ registered => \/ retained \/ main = "unregister"
                     \/ \E th \in Threads : epLock = th /\ job[th].at = "retain"
    /\ main \in Late => epLock = "free" /\ ~retained
    /\ main \in Late \ {"unregister"} => ~registered

(* After the teardown, who was not inside keeps out of the patch.              *)
InsideOK ==
    main \in Gone =>
        \A th \in Threads \ inside :
            stream[th] = "none" /\ ip[th].at # "lost" /\ (heap \/ ip[th] = Idle)

IInv == /\ Shaped /\ HooksOK /\ JobsOK /\ FlagsOK /\ PlacesOK /\ EarlyOK
        /\ RequestsOK /\ EndpointsOK /\ InsideOK

-----------------------------------------------------------------------------
(* The library: what a call does to entries, code bytes and threads.           *)

(* Entries keep their targets and trampolines.                                 *)
SameEntries ==
    /\ heap' = heap
    /\ hooks' \in Seq(HookEntries(Tramps'))
    /\ DOMAIN hooks' = DOMAIN hooks
    /\ \A n \in DOMAIN hooks : /\ hooks'[n].target = hooks[n].target
                               /\ hooks'[n].tramp = hooks[n].tramp

(* Threads are moved, if at all, to places the invariant allows.               *)
ThreadsMoved ==
    /\ ip' = [th \in Threads |-> ip'[th]]
    /\ \A th \in Threads : /\ PlaceOK(ip'[th])
                           /\ ip[th] = Idle => ip'[th] = Idle
                           /\ ip'[th].at = "lost" => ip[th].at = "lost"

LEMMA SequenceOf ==
    ASSUME NEW h, NEW N \in Nat, NEW S, h = [n \in 1 .. N |-> h[n]],
           \A n \in 1 .. N : h[n] \in S
    PROVE  h \in Seq(S)
<1>1. h \in [1 .. N -> S]
    OBVIOUS
<1> QED
    BY <1>1, SeqDef

LEMMA Entry ==
    ASSUME Shaped
    PROVE  /\ Len(hooks) \in Nat /\ DOMAIN hooks = 1 .. Len(hooks)
           /\ hooks = [n \in 1 .. Len(hooks) |-> hooks[n]]
           /\ \A n \in DOMAIN hooks : hooks[n] \in HookEntries(Tramps)
BY LenProperties DEF Shaped

LEMMA Fields ==
    ASSUME NEW at, NEW fn, NEW i, NEW slot, NEW ret, NEW p, p = Place(at, fn, i, slot, ret)
    PROVE  /\ p.at = at /\ p.fn = fn /\ p.i = i /\ p.slot = slot /\ p.ret = ret
           /\ at # "idle" => p # Idle
BY DEF Place, Idle

LEMMA Changed ==
    ASSUME NEW p, p = Place(p.at, p.fn, p.i, p.slot, p.ret), NEW at, NEW slot,
           NEW q, q = [p EXCEPT !.at = at, !.slot = slot]
    PROVE  q = Place(at, p.fn, p.i, slot, p.ret)
BY DEF Place

(* AllocateBuffer never gives the null address.                                *)
LEMMA SlotAllocated ==
    ASSUME NEW t, NEW a \in AllocateBuffer(t)
    PROVE  a.slot # NoSlot
<1>1. \A b, s : <<b, s>> # NoSlot
    BY DEF NoSlot
<1>2. CASE Usable(t) # {}
  <2> DEFINE n == First(Usable(t))
             Result(s) == [list |-> [blocks EXCEPT ![n].free = @ \ {s}, ![n].used = @ + 1],
                           slot |-> <<blocks[n].id, s>>]
  <2>1. AllocateBuffer(t) = {Result(s) : s \in blocks[n].free}
      BY <1>2 DEF AllocateBuffer
  <2>2. \A s : Result(s).slot = <<blocks[n].id, s>>
      OBVIOUS
  <2> HIDE DEF Result
  <2>3. \E s : a = Result(s)
      BY <2>1
  <2> QED
      BY <1>1, <2>2, <2>3
<1>3. CASE Usable(t) = {}
  <2> DEFINE Result(b, s) == [list |-> <<[id |-> b, free |-> Slots \ {s}, used |-> 1]>> \o blocks,
                              slot |-> <<b, s>>]
  <2>1. AllocateBuffer(t) = {Result(b, s) : b \in Fresh(t), s \in Slots}
      BY <1>3 DEF AllocateBuffer
  <2>2. \A b, s : Result(b, s).slot = <<b, s>>
      OBVIOUS
  <2> HIDE DEF Result
  <2>3. \E b, s : a = Result(b, s)
      BY <2>1
  <2> QED
      BY <1>1, <2>2, <2>3
<1> QED
    BY <1>2, <1>3

LEMMA Created ==
    ASSUME Shaped, NEW t \in Targets, NEW slot, CreateHook(t, "OK", slot)
    PROVE  /\ heap /\ heap' = heap /\ UNCHANGED <<patched, ip>>
           /\ slot # NoSlot /\ FindHookEntry(t) = {}
           /\ hooks' \in Seq(HookEntries(Tramps'))
           /\ DOMAIN hooks' = DOMAIN hooks \cup {Len(hooks) + 1}
           /\ Len(hooks) + 1 \notin DOMAIN hooks
           /\ \A n \in DOMAIN hooks : hooks'[n] = hooks[n]
           /\ hooks'[Len(hooks) + 1] = [target |-> t, tramp |-> slot,
                                        enabled |-> FALSE, queued |-> FALSE]
<1> DEFINE e == [target |-> t, tramp |-> slot, enabled |-> FALSE, queued |-> FALSE]
<1>1. /\ heap /\ heap' = heap /\ UNCHANGED <<patched, ip>> /\ FindHookEntry(t) = {}
      /\ slot # NoSlot /\ hooks' = Append(hooks, e)
    BY SlotAllocated DEF CreateHook, Refused
<1>2. /\ DOMAIN hooks' = 1 .. Len(hooks) + 1
      /\ \A n \in DOMAIN hooks : hooks'[n] = hooks[n]
      /\ hooks'[Len(hooks) + 1] = e
      /\ hooks' = [n \in 1 .. Len(hooks) + 1 |-> hooks'[n]]
    BY <1>1, Entry DEF Shaped
<1>3. Len(hooks) + 1 \notin DOMAIN hooks /\ DOMAIN hooks' = DOMAIN hooks \cup {Len(hooks) + 1}
    BY <1>2, Entry
<1>4. e \in HookEntries({slot}) /\ e.tramp = slot
    BY DEF HookEntries
<1> HIDE DEF e
<1>5. \A n \in DOMAIN hooks' : hooks'[n].tramp \in Tramps'
    BY DEF Tramps
<1>6. \A n \in DOMAIN hooks' : hooks'[n] \in HookEntries(Tramps')
  <2>1. \A n \in DOMAIN hooks : hooks'[n] \in HookEntries(Tramps')
      BY <1>2, <1>3, <1>5, Entry DEF HookEntries
  <2>2. e \in HookEntries(Tramps')
      BY <1>2, <1>3, <1>4, <1>5 DEF HookEntries
  <2> QED
      BY <1>2, <1>3, <2>1, <2>2
<1>7. hooks' \in Seq(HookEntries(Tramps'))
    BY <1>2, <1>6, Entry, SequenceOf
<1> QED
    BY <1>1, <1>2, <1>3, <1>7 DEF e

LEMMA NotCreated ==
    ASSUME NEW t, NEW slot, NEW st, st # "OK", CreateHook(t, st, slot)
    PROVE  UNCHANGED <<heap, hooks, patched, ip>>
BY DEF CreateHook, Refused, hookVars

(* FindOldIP and FindNewIP lead to where the entry's code is.                   *)
LEMMA Moved ==
    ASSUME Shaped, NEW p, PlaceOK(p), NEW which \in SUBSET DOMAIN hooks, NEW wants
    PROVE  /\ PlaceOK(ProcessThreadIPs(p, which, wants))
           /\ p = Idle => ProcessThreadIPs(p, which, wants) = Idle
           /\ ProcessThreadIPs(p, which, wants).at = "lost" => p.at = "lost"
<1> DEFINE Good(q) == PlaceOK(q) /\ (p = Idle => q = Idle) /\ (q.at = "lost" => p.at = "lost")
<1>1. \A n \in DOMAIN hooks : p # Idle => Good(FindOldIP(hooks[n], p))
  <2> SUFFICES ASSUME NEW n \in DOMAIN hooks, p # Idle PROVE Good(FindOldIP(hooks[n], p))
      OBVIOUS
  <2> DEFINE q == [p EXCEPT !.at = "target", !.slot = NoSlot]
  <2>1. /\ p = Place(p.at, p.fn, p.i, p.slot, p.ret) /\ p.fn \in Targets
        /\ p.at \in {"target", "tramp", "detour", "after", "lost", "null"}
      BY DEF PlaceOK
  <2>2. q = Place("target", p.fn, p.i, NoSlot, p.ret)
      BY <2>1, Changed
  <2>3. FindOldIP(hooks[n], p) \in {p, q}
      BY <2>1 DEF FindOldIP
  <2>4. Good(q)
      BY <2>1, <2>2, Fields DEF PlaceOK
  <2> QED
      BY <2>3, <2>4
<1>2. \A n \in DOMAIN hooks : p # Idle => Good(FindNewIP(hooks[n], p))
  <2> SUFFICES ASSUME NEW n \in DOMAIN hooks, p # Idle PROVE Good(FindNewIP(hooks[n], p))
      OBVIOUS
  <2> DEFINE q == [p EXCEPT !.at = "tramp", !.slot = hooks[n].tramp]
  <2>1. /\ p = Place(p.at, p.fn, p.i, p.slot, p.ret) /\ p.fn \in Targets
      BY DEF PlaceOK
  <2>2. q = Place("tramp", p.fn, p.i, hooks[n].tramp, p.ret)
      BY <2>1, Changed
  <2>3. FindNewIP(hooks[n], p) = p \/ (p.fn = hooks[n].target /\ FindNewIP(hooks[n], p) = q)
      BY DEF FindNewIP
  <2>4. p.fn = hooks[n].target => Good(q)
      BY <2>1, <2>2, Fields DEF PlaceOK, Live
  <2> QED
      BY <2>3, <2>4
<1> DEFINE todo == {n \in which : hooks[n].enabled # wants[n]}
           To(n) == IF wants[n] THEN FindNewIP(hooks[n], p) ELSE FindOldIP(hooks[n], p)
           c == CHOOSE n \in todo : To(n) # p
<1>3. ProcessThreadIPs(p, which, wants) =
          IF p # Idle /\ \E n \in todo : To(n) # p THEN To(c) ELSE p
    BY DEF ProcessThreadIPs
<1>4. (\E n \in todo : To(n) # p) => c \in todo
    OBVIOUS
<1>5. c \in todo => c \in DOMAIN hooks
    OBVIOUS
<1>6. \A n \in DOMAIN hooks : p # Idle => Good(To(n))
    BY <1>1, <1>2
<1>7. Good(p)
    OBVIOUS
<1> HIDE DEF Good, To, c, todo
<1>8. Good(ProcessThreadIPs(p, which, wants))
    BY <1>3, <1>4, <1>5, <1>6, <1>7
<1> QED
    BY <1>8 DEF Good

LEMMA Frozen ==
    ASSUME Shaped, PlacesOK, NEW which \in SUBSET DOMAIN hooks, NEW wants, Freeze(which, wants)
    PROVE  ThreadsMoved
<1>0. ip' = [th \in Threads |-> ProcessThreadIPs(ip[th], which, wants)]
    BY RuntimeAssumption DEF Freeze
<1>1. \A th \in Threads : ip'[th] = ProcessThreadIPs(ip[th], which, wants)
    BY <1>0
<1>2. ip' = [th \in Threads |-> ip'[th]]
    BY <1>0
<1> QED
    BY <1>1, <1>2, Moved DEF ThreadsMoved, PlacesOK

LEMMA NotMoved ==
    ASSUME Shaped, PlacesOK, UNCHANGED ip
    PROVE  ThreadsMoved
BY DEF Shaped, PlacesOK, ThreadsMoved

LEMMA Unwritten ==
    ASSUME Shaped, UNCHANGED <<heap, hooks>>
    PROVE  SameEntries
BY DEF Shaped, SameEntries, Tramps

(* EnableHookLL writes the bytes of its entries and sets their flags.           *)
LEMMA Written ==
    ASSUME Shaped, HooksOK, NEW done \in SUBSET DOMAIN hooks, NEW wants,
           \A n \in done : wants[n] \in BOOLEAN, \A n \in DOMAIN hooks : hooks[n].target \in Targets,
           UNCHANGED heap, EnableHookLL(done, wants)
    PROVE  /\ SameEntries
           /\ \A n \in DOMAIN hooks : hooks'[n].enabled = IF n \in done THEN wants[n] ELSE hooks[n].enabled
           /\ \A t \in Targets : (\A n \in done : hooks[n].target # t) => patched'[t] = patched[t]
           /\ \A n \in done : patched'[hooks[n].target] = IF wants[n] THEN hooks[n].tramp ELSE NoSlot
<1>1. \A n \in DOMAIN hooks : hooks[n] \in HookEntries(Tramps)
    BY Entry
<1>2. /\ DOMAIN hooks' = DOMAIN hooks
      /\ hooks' = [n \in 1 .. Len(hooks) |-> hooks'[n]]
      /\ \A n \in DOMAIN hooks :
           hooks'[n] = IF n \in done THEN [hooks[n] EXCEPT !.enabled = wants[n], !.queued = wants[n]]
                       ELSE hooks[n]
    BY Entry DEF EnableHookLL
<1>3. ASSUME NEW n \in DOMAIN hooks
      PROVE  /\ hooks'[n].target = hooks[n].target /\ hooks'[n].tramp = hooks[n].tramp
             /\ hooks'[n].enabled = IF n \in done THEN wants[n] ELSE hooks[n].enabled
             /\ hooks'[n] \in HookEntries(Tramps)
  <2>1. CASE n \in done
      BY <1>1, <1>2, <2>1 DEF HookEntries
  <2>2. CASE n \notin done
      BY <1>1, <1>2, <2>2 DEF HookEntries
  <2> QED
      BY <2>1, <2>2
<1>4. Tramps' = Tramps
  <2> HIDE DEF Shaped, HooksOK, EnableHookLL
  <2>1. DOMAIN hooks' = DOMAIN hooks
      BY <1>2
  <2> QED
      BY <1>3, <2>1 DEF Tramps
<1>5. SameEntries
    BY <1>2, <1>3, <1>4, Entry, SequenceOf DEF SameEntries
<1>6. \A t \in Targets : (\A n \in done : hooks[n].target # t) => patched'[t] = patched[t]
    BY DEF EnableHookLL
<1>7. ASSUME NEW n \in done
      PROVE  patched'[hooks[n].target] = IF wants[n] THEN hooks[n].tramp ELSE NoSlot
  <2>1. (CHOOSE m \in done : hooks[m].target = hooks[n].target) = n
      BY DEF HooksOK
  <2> QED
      BY <2>1 DEF EnableHookLL
<1> QED
    BY <1>3, <1>5, <1>6, <1>7

LEMMA EntryTargets ==
    ASSUME Shaped
    PROVE  \A n \in DOMAIN hooks : hooks[n].target \in Targets /\ hooks[n].enabled \in BOOLEAN
BY Entry DEF HookEntries

(* MH_EnableHook: the entry of t, and it alone, may become enabled; then its    *)
(* target leads to its trampoline. It is if the call says so.                   *)
LEMMA Enabled ==
    ASSUME Shaped, HooksOK, PlacesOK, NEW t \in Targets, NEW st, EnableHook(t, TRUE, st)
    PROVE  /\ SameEntries /\ ThreadsMoved
           /\ \A n \in DOMAIN hooks :
                \/ hooks'[n].enabled = hooks[n].enabled /\ patched'[hooks[n].target] = patched[hooks[n].target]
                \/ /\ hooks[n].target = t
                   /\ hooks'[n].enabled /\ patched'[hooks[n].target] = hooks[n].tramp
           /\ \A x \in Targets : patched'[x] = patched[x] \/ FindHookEntry(x) # {}
           /\ st \in {"OK", "ENABLED"} => \E n \in DOMAIN hooks : hooks[n].target = t /\ hooks'[n].enabled
<1>1. CASE UNCHANGED hookVars /\ st \notin {"OK", "ENABLED"}
    BY <1>1, Unwritten, NotMoved DEF hookVars
<1>2. CASE heap /\ \E n \in FindHookEntry(t) : hooks[n].enabled = TRUE /\ UNCHANGED <<heap, hooks, patched, ip>>
    BY <1>2, Unwritten, NotMoved DEF FindHookEntry
<1>3. ASSUME NEW n \in FindHookEntry(t), hooks[n].enabled # TRUE, WriteOne(n, TRUE, TRUE, st), UNCHANGED heap
      PROVE  /\ SameEntries /\ ThreadsMoved
             /\ \A m \in DOMAIN hooks :
                  \/ hooks'[m].enabled = hooks[m].enabled /\ patched'[hooks[m].target] = patched[hooks[m].target]
                  \/ /\ hooks[m].target = t
                     /\ hooks'[m].enabled /\ patched'[hooks[m].target] = hooks[m].tramp
             /\ \A x \in Targets : patched'[x] = patched[x] \/ FindHookEntry(x) # {}
             /\ st \in {"OK", "ENABLED"} => \E m \in DOMAIN hooks : hooks[m].target = t /\ hooks'[m].enabled
  <2>1. n \in DOMAIN hooks /\ hooks[n].target = t /\ {n} \in SUBSET DOMAIN hooks
      BY <1>3 DEF FindHookEntry
  <2>2. ThreadsMoved
      BY <1>3, <2>1, Frozen, NotMoved DEF WriteOne
  <2>3. CASE UNCHANGED <<hooks, patched>> /\ st # "OK"
      BY <1>3, <2>2, <2>3, Unwritten DEF WriteOne
  <2>4. CASE st = "OK" /\ EnableHookLL({n}, [m \in {n} |-> TRUE])
    <3> DEFINE wants == [m \in {n} |-> TRUE]
    <3>1. wants[n] = TRUE /\ \A m \in {n} : wants[m] \in BOOLEAN
        OBVIOUS
    <3> HIDE DEF wants
    <3>2. EnableHookLL({n}, wants)
        BY <2>4 DEF wants
    <3>3. /\ SameEntries
          /\ \A m \in DOMAIN hooks : hooks'[m].enabled = IF m \in {n} THEN wants[m] ELSE hooks[m].enabled
          /\ \A x \in Targets : (\A m \in {n} : hooks[m].target # x) => patched'[x] = patched[x]
          /\ \A m \in {n} : patched'[hooks[m].target] = IF wants[m] THEN hooks[m].tramp ELSE NoSlot
        BY <1>3, <2>1, <3>1, <3>2, Written, EntryTargets
    <3>4. \A m \in DOMAIN hooks : m # n => hooks[m].target # t
        BY <2>1 DEF HooksOK
    <3>5. \A x \in Targets : patched'[x] = patched[x] \/ FindHookEntry(x) # {}
        BY <1>3, <2>1, <3>3 DEF FindHookEntry
    <3>6. \A m \in DOMAIN hooks :
            \/ hooks'[m].enabled = hooks[m].enabled /\ patched'[hooks[m].target] = patched[hooks[m].target]
            \/ /\ hooks[m].target = t
               /\ hooks'[m].enabled /\ patched'[hooks[m].target] = hooks[m].tramp
        BY <2>1, <3>1, <3>3, <3>4, EntryTargets
    <3> QED
        BY <2>1, <2>2, <3>1, <3>3, <3>5, <3>6
  <2> QED
      BY <1>3, <2>3, <2>4 DEF WriteOne
<1> QED
    BY <1>1, <1>2, <1>3 DEF EnableHook, Refused, hookVars

(* EnableAllHooksLL with FALSE patches nothing.                                *)
LEMMA AllDisabled ==
    ASSUME Shaped, HooksOK, PlacesOK, NEW st, EnableAllHooksLL(FALSE, st), UNCHANGED heap
    PROVE  /\ SameEntries /\ ThreadsMoved
           /\ \A x \in Targets : patched'[x] # NoSlot => patched[x] # NoSlot
<1> DEFINE wants == [n \in DOMAIN hooks |-> FALSE]
           todo == {n \in DOMAIN hooks : hooks[n].enabled # wants[n]}
<1>1. CASE UNCHANGED <<hooks, patched, ip>>
    BY <1>1, Unwritten, NotMoved
<1>2. ASSUME Freeze(DOMAIN hooks, wants), NEW done \in SUBSET DOMAIN hooks, EnableHookLL(done, wants)
      PROVE  /\ SameEntries /\ ThreadsMoved
             /\ \A x \in Targets : patched'[x] # NoSlot => patched[x] # NoSlot
  <2>1. \A n \in done : wants[n] = FALSE /\ wants[n] \in BOOLEAN
      OBVIOUS
  <2> HIDE DEF wants
  <2>2. ThreadsMoved
      BY <1>2, Frozen
  <2>3. /\ SameEntries
        /\ \A x \in Targets : (\A n \in done : hooks[n].target # x) => patched'[x] = patched[x]
        /\ \A n \in done : patched'[hooks[n].target] = IF wants[n] THEN hooks[n].tramp ELSE NoSlot
      BY <1>2, <2>1, Written, EntryTargets
  <2> QED
      BY <2>1, <2>2, <2>3
<1>3. todo \in SUBSET DOMAIN hooks /\ \A last : {n \in todo : n < last} \in SUBSET DOMAIN hooks
    OBVIOUS
<1>4. WriteAll(wants, st)
    BY DEF EnableAllHooksLL
<1> HIDE DEF wants
<1>5. \/ UNCHANGED <<hooks, patched, ip>>
      \/ Freeze(DOMAIN hooks, wants) /\ \E done \in SUBSET DOMAIN hooks : EnableHookLL(done, wants)
    BY <1>3, <1>4 DEF WriteAll
<1> QED
    BY <1>1, <1>2, <1>5

(* MH_Uninitialize either disables what it can or takes everything away.       *)
LEMMA Uninitialized ==
    ASSUME Shaped, HooksOK, PlacesOK, NEW st, Uninitialize(st)
    PROVE  \/ /\ SameEntries /\ ThreadsMoved
              /\ \A x \in Targets : patched'[x] # NoSlot => patched[x] # NoSlot
           \/ /\ heap /\ heap' = FALSE /\ hooks' = <<>> /\ ThreadsMoved
              /\ \A x \in Targets : patched'[x] = NoSlot
<1>1. CASE Refused(st)
    BY <1>1, Unwritten, NotMoved DEF Refused, hookVars
<1>2. CASE heap /\ st # "OK" /\ EnableAllHooksLL(FALSE, st) /\ UNCHANGED <<heap, blocks>>
    BY <1>2, AllDisabled
<1>3. CASE /\ heap /\ st = "OK"
           /\ Freeze(DOMAIN hooks, [n \in DOMAIN hooks |-> FALSE])
           /\ patched' = [t \in Targets |-> IF FindHookEntry(t) # {} THEN NoSlot ELSE patched[t]]
           /\ heap' = FALSE /\ hooks' = <<>> /\ blocks' = <<>>
  <2>1. ThreadsMoved
      BY <1>3, Frozen
  <2>2. \A x \in Targets : patched'[x] = NoSlot
      BY <1>3 DEF HooksOK
  <2> QED
      BY <1>3, <2>1, <2>2
<1> QED
    BY <1>1, <1>2, <1>3 DEF Uninitialize

LEMMA Empty ==
    ASSUME Shaped
    PROVE  hooks = <<>> <=> DOMAIN hooks = {}
BY Entry, EmptySeq DEF Shaped

(* A step through a hook leads to a place the invariant allows.                *)
LEMMA StepsRight ==
    ASSUME HooksOK, NEW q, PlaceOK(q), q # Idle, NEW p \in RunsTo(q)
    PROVE  PlaceOK(p) /\ (p.at = "lost" => ~heap)
<1>1. /\ q = Place(q.at, q.fn, q.i, q.slot, q.ret)
      /\ q.at \in {"target", "tramp", "detour", "after", "lost", "null"}
      /\ q.fn \in Targets
    BY DEF PlaceOK
<1>2. Returned(q) = Idle \/ Returned(q) = Place("after", q.fn, 0, NoSlot, "program")
    BY DEF Returned
<1>3. PlaceOK(Returned(q)) /\ Returned(q).at # "lost"
    BY <1>1, <1>2, Fields DEF PlaceOK, Idle
<1>4. CASE q.at = "detour"
  <2>1. \/ p = Idle
        \/ original[q.fn] = NoSlot /\ p = Place("null", q.fn, 0, NoSlot, q.ret)
        \/ original[q.fn] # NoSlot /\ p = Place("tramp", q.fn, 0, original[q.fn], "detour")
      BY <1>4 DEF RunsTo, NextPlace
  <2> QED
      BY <1>1, <1>4, <2>1, Fields DEF PlaceOK, HooksOK, Idle
<1>5. CASE q.at = "tramp"
  <2>1. p = IF Live(q.slot, q.fn) THEN Returned(q) ELSE Lost(q)
      BY <1>5 DEF RunsTo
  <2>2. CASE Live(q.slot, q.fn)
      BY <1>3, <2>1, <2>2
  <2>3. CASE ~Live(q.slot, q.fn)
    <3>1. ~heap /\ p = Lost(q)
        BY <1>5, <2>1, <2>3 DEF PlaceOK
    <3>2. p = Place("lost", q.fn, 0, NoSlot, q.ret)
        BY <1>1, <3>1 DEF Lost, Place
    <3> QED
        BY <1>1, <3>1, <3>2, Fields DEF PlaceOK
  <2> QED
      BY <2>2, <2>3
<1>6. CASE q.at = "target"
  <2>1. p = IF patched[q.fn] = NoSlot THEN Returned(q) ELSE Place("detour", q.fn, 0, NoSlot, q.ret)
      BY <1>6 DEF RunsTo
  <2>2. patched[q.fn] # NoSlot => q.fn \in Exports \/ original[q.fn] # NoSlot
      BY <1>1 DEF HooksOK, FindHookEntry
  <2> QED
      BY <1>1, <1>3, <2>1, <2>2, Fields DEF PlaceOK
<1>7. CASE q.at \in {"after", "lost", "null"}
    BY <1>7 DEF RunsTo
<1> QED
    BY <1>1, <1>4, <1>5, <1>6, <1>7

-----------------------------------------------------------------------------
(* What a thread's place needs stays there while the library does.              *)
LEMMA PlacesStay ==
    ASSUME heap' => heap /\ \A slot, t : Live(slot, t) => Live(slot, t)',
           \A t \in Targets : original[t] # NoSlot => original'[t] # NoSlot,
           NEW p, PlaceOK(p)
    PROVE  PlaceOK(p)'
BY DEF PlaceOK

LEMMA LiveStays ==
    ASSUME SameEntries
    PROVE  \A slot, t : Live(slot, t)' <=> Live(slot, t)
BY DEF SameEntries, Live

THEOREM Initially == Init => IInv
<1> SUFFICES ASSUME Init PROVE IInv
    OBVIOUS
<1> USE DEF Init, HookInit
<1>1. Shaped
    BY EmptySeq DEF Shaped
<1>2. HooksOK /\ FlagsOK
    BY <1>1, Empty DEF HooksOK, FlagsOK, NoJob
<1>3. JobsOK
    BY DEF JobsOK, NoJob
<1>4. PlacesOK
    BY DEF PlacesOK, PlaceOK
<1>5. EarlyOK /\ RequestsOK /\ InsideOK
    BY DEF EarlyOK, RequestsOK, InsideOK, Late, Gone
<1>6. EndpointsOK
    BY RuntimeAssumption DEF EndpointsOK, Late, NoJob, Actors
<1> QED
    BY <1>1, <1>2, <1>3, <1>4, <1>5, <1>6 DEF IInv

LEMMA MainStartsKeeps ==
    ASSUME IInv, MainStarts
    PROVE  IInv'
<1> USE DEF IInv, MainStarts, hookVars, tableVars, requestVars, gameVars, endpointVars, mainVars
<1>1. Shaped' /\ HooksOK' /\ JobsOK' /\ PlacesOK'
    BY DEF Shaped, Tramps, HooksOK, Live, FindHookEntry, JobsOK, PlacesOK, PlaceOK
<1>2. FlagsOK'
    BY DEF FlagsOK, Works, Gone
<1>3. EarlyOK'
    BY DEF EarlyOK, Early
<1>4. RequestsOK'
    BY DEF RequestsOK, Late, Early
<1>5. EndpointsOK'
    BY DEF EndpointsOK, Late
<1>6. InsideOK'
    BY DEF InsideOK, Gone
<1> QED
    BY <1>1, <1>2, <1>3, <1>4, <1>5, <1>6

LEMMA MainPollsKeeps ==
    ASSUME IInv, MainPolls
    PROVE  IInv'
<1> USE DEF IInv, MainPolls, hookVars, tableVars, requestVars, gameVars, endpointVars, mainVars
<1>a. Main \in Actors /\ job' = [x \in Actors |-> job'[x]]
    BY DEF Actors, Shaped
<1>b. /\ \A x \in Actors : x # Main => job'[x] = job[x]
      /\ job[Main].at = "none" /\ job'[Main].at \in {"none", "create"}
      /\ job'[Main].at = "create" => job'[Main].t \in Targets
    BY <1>a, RuntimeAssumption, LenProperties DEF Shaped, NoJob
<1>c. UNCHANGED <<heap, hooks, patched, hooked, original, main, epLock, registered, retained>>
    OBVIOUS
<1>1. HooksOK' /\ PlacesOK' /\ RequestsOK' /\ InsideOK'
    BY DEF HooksOK, Live, FindHookEntry, PlacesOK, PlaceOK, RequestsOK, Late, InsideOK, Gone
<1>2. Shaped'
    BY <1>a DEF Shaped, Tramps
<1>3. JobsOK'
  <2> HIDE DEF MainPolls
  <2> QED
      BY <1>b, <1>c DEF JobsOK, Live
<1>4. FlagsOK'
  <2> HIDE DEF MainPolls
  <2> QED
      BY <1>b, <1>c DEF FlagsOK, Works, Gone
<1>5. EarlyOK'
    BY DEF EarlyOK, Early
<1>6. EndpointsOK'
    BY <1>a, <1>b, <1>c, RuntimeAssumption DEF EndpointsOK, Actors, Late
<1> QED
    BY <1>1, <1>2, <1>3, <1>4, <1>5, <1>6

LEMMA MainRoundsKeeps ==
    ASSUME IInv, MainRounds
    PROVE  IInv'
<1> USE DEF IInv, MainRounds, hookVars, tableVars, requestVars, gameVars, endpointVars, mainVars
<1>1. Shaped' /\ HooksOK' /\ JobsOK' /\ PlacesOK'
    BY DEF Shaped, Tramps, HooksOK, Live, FindHookEntry, JobsOK, PlacesOK, PlaceOK
<1>2. FlagsOK'
    BY DEF FlagsOK, Works, Gone
<1>3. EarlyOK'
    BY DEF EarlyOK, Early
<1>4. RequestsOK'
    BY DEF RequestsOK, Late
<1>5. EndpointsOK'
    BY DEF EndpointsOK, Late
<1>6. InsideOK'
    BY DEF InsideOK, Gone
<1> QED
    BY <1>1, <1>2, <1>3, <1>4, <1>5, <1>6

LEMMA MainWakesKeeps ==
    ASSUME IInv, MainWakes
    PROVE  IInv'
<1> USE DEF IInv, MainWakes, MainGoes, hookVars, tableVars, requestVars, gameVars, endpointVars, mainVars
<1>1. Shaped' /\ HooksOK' /\ JobsOK' /\ PlacesOK'
    BY DEF Shaped, Tramps, HooksOK, Live, FindHookEntry, JobsOK, PlacesOK, PlaceOK
<1>2. FlagsOK'
    BY DEF FlagsOK, Works, Gone
<1>3. EarlyOK'
    BY DEF EarlyOK, Early
<1>4. RequestsOK'
    BY DEF RequestsOK, Late
<1>5. EndpointsOK'
    BY DEF EndpointsOK, Late
<1>6. InsideOK'
    BY DEF InsideOK, Gone
<1> QED
    BY <1>1, <1>2, <1>3, <1>4, <1>5, <1>6

LEMMA MainSeesNoStreamKeeps ==
    ASSUME IInv, MainSeesNoStream
    PROVE  IInv'
<1> USE DEF IInv, MainSeesNoStream, MainGoes, hookVars, tableVars, requestVars, gameVars, endpointVars, mainVars
<1>1. Shaped' /\ HooksOK' /\ JobsOK' /\ PlacesOK'
    BY DEF Shaped, Tramps, HooksOK, Live, FindHookEntry, JobsOK, PlacesOK, PlaceOK
<1>2. FlagsOK'
    BY DEF FlagsOK, Works, Gone
<1>3. EarlyOK'
    BY DEF EarlyOK, Early
<1>4. RequestsOK'
    BY DEF RequestsOK, Late
<1>5. EndpointsOK'
    BY DEF EndpointsOK, Late
<1>6. InsideOK'
    BY DEF InsideOK, Gone
<1> QED
    BY <1>1, <1>2, <1>3, <1>4, <1>5, <1>6

LEMMA MainTakesEndpointKeeps ==
    ASSUME IInv, MainTakesEndpoint
    PROVE  IInv'
<1> USE DEF IInv, MainTakesEndpoint, MainGoes, hookVars, tableVars, requestVars, gameVars, endpointVars, mainVars
<1>1. Shaped' /\ HooksOK' /\ JobsOK' /\ PlacesOK'
    BY DEF Shaped, Tramps, HooksOK, Live, FindHookEntry, JobsOK, PlacesOK, PlaceOK
<1>2. FlagsOK'
    BY DEF FlagsOK, Works, Gone
<1>3. EarlyOK'
    BY DEF EarlyOK, Early
<1>4. RequestsOK'
    BY DEF RequestsOK, Late
<1>5. EndpointsOK'
    BY RuntimeAssumption DEF EndpointsOK, Late
<1>6. InsideOK'
    BY DEF InsideOK, Gone
<1> QED
    BY <1>1, <1>2, <1>3, <1>4, <1>5, <1>6

LEMMA MainUnregistersKeeps ==
    ASSUME IInv, MainUnregisters
    PROVE  IInv'
<1> USE DEF IInv, MainUnregisters, MainGoes, hookVars, tableVars, requestVars, gameVars, endpointVars, mainVars
<1>1. Shaped' /\ HooksOK' /\ JobsOK' /\ PlacesOK'
    BY DEF Shaped, Tramps, HooksOK, Live, FindHookEntry, JobsOK, PlacesOK, PlaceOK
<1>2. FlagsOK'
    BY DEF FlagsOK, Works, Gone
<1>3. EarlyOK'
    BY DEF EarlyOK, Early
<1>4. RequestsOK'
    BY DEF RequestsOK, Late
<1>5. EndpointsOK'
    BY DEF EndpointsOK, Late
<1>6. InsideOK'
    BY DEF InsideOK, Gone
<1> QED
    BY <1>1, <1>2, <1>3, <1>4, <1>5, <1>6

LEMMA MainTakesEventKeeps ==
    ASSUME IInv, MainTakesEvent
    PROVE  IInv'
<1> USE DEF IInv, MainTakesEvent, MainGoes, hookVars, tableVars, requestVars, gameVars, endpointVars, mainVars
<1>1. Shaped' /\ HooksOK' /\ JobsOK' /\ PlacesOK'
    BY DEF Shaped, Tramps, HooksOK, Live, FindHookEntry, JobsOK, PlacesOK, PlaceOK
<1>2. FlagsOK'
    BY DEF FlagsOK, Works, Gone
<1>3. EarlyOK'
    BY DEF EarlyOK, Early
<1>4. RequestsOK'
    BY DEF RequestsOK, Late
<1>5. EndpointsOK'
    BY DEF EndpointsOK, Late
<1>6. InsideOK'
    BY DEF InsideOK, Gone
<1> QED
    BY <1>1, <1>2, <1>3, <1>4, <1>5, <1>6

LEMMA MainExitsKeeps ==
    ASSUME IInv, MainExits
    PROVE  IInv'
<1> USE DEF IInv, MainExits, MainGoes, hookVars, tableVars, requestVars, gameVars, endpointVars, mainVars
<1>1. Shaped' /\ HooksOK' /\ JobsOK' /\ PlacesOK'
    BY DEF Shaped, Tramps, HooksOK, Live, FindHookEntry, JobsOK, PlacesOK, PlaceOK
<1>2. FlagsOK'
    BY DEF FlagsOK, Works, Gone
<1>3. EarlyOK'
    BY DEF EarlyOK, Early
<1>4. RequestsOK'
    BY DEF RequestsOK, Late
<1>5. EndpointsOK'
    BY DEF EndpointsOK, Late
<1>6. InsideOK'
    BY DEF InsideOK, Gone
<1> QED
    BY <1>1, <1>2, <1>3, <1>4, <1>5, <1>6

LEMMA MainInitializesKeeps ==
    ASSUME IInv, MainInitializes
    PROVE  IInv'
<1> USE DEF IInv, MainInitializes, hookVars, tableVars, requestVars, gameVars, endpointVars, mainVars
<1> DEFINE early == /\ ~heap /\ hooks = <<>> /\ hooked = {}
                    /\ \A th \in Threads : ip[th] = Idle
                    /\ \A t \in Targets : original[t] = NoSlot
                    /\ \A a \in Actors : job[a] = NoJob
<1>a. early /\ main = "initialize" /\ main' \in {"poll", "wait"}
    BY DEF EarlyOK, Early, HooksOK
<1>b. heap' \in BOOLEAN /\ UNCHANGED <<hooks, patched, ip>>
    BY <1>a DEF Initialize, HooksOK
<1>1. Shaped'
    BY <1>b DEF Shaped, Tramps
<1>2. HooksOK'
    BY <1>a, <1>b DEF HooksOK, Live, FindHookEntry
<1>3. JobsOK'
    BY <1>a, <1>b DEF JobsOK, NoJob
<1>4. FlagsOK'
    BY <1>a, <1>b DEF FlagsOK, NoJob, Gone
<1>5. PlacesOK'
    BY <1>a, <1>b DEF PlacesOK, PlaceOK
<1>6. EarlyOK'
    BY <1>a, <1>b DEF EarlyOK, Early
<1>7. RequestsOK'
    BY <1>a, <1>b DEF RequestsOK, Late
<1>8. EndpointsOK'
    BY <1>a, <1>b DEF EndpointsOK, Late
<1>9. InsideOK'
    BY <1>a, <1>b DEF InsideOK, Gone
<1> QED
    BY <1>1, <1>2, <1>3, <1>4, <1>5, <1>6, <1>7, <1>8, <1>9

LEMMA MainDisablesKeeps ==
    ASSUME IInv, MainDisables
    PROVE  IInv'
<1> USE DEF IInv, MainDisables, MainGoes, endpointVars, requestVars, gameVars
<1>a. /\ SameEntries /\ ThreadsMoved
      /\ \A x \in Targets : patched'[x] # NoSlot => patched[x] # NoSlot
  <2>1. PICK st : EnableAllHooks(FALSE, st)
      OBVIOUS
  <2>2. CASE Refused(st)
      BY <2>2, Unwritten, NotMoved DEF Refused, hookVars
  <2> QED
      BY <2>1, <2>2, AllDisabled DEF EnableAllHooks
<1>b. \A slot, t : Live(slot, t)' <=> Live(slot, t)
    BY <1>a, LiveStays
<1>1. Shaped'
    BY <1>a DEF Shaped, SameEntries, ThreadsMoved
<1>2. HooksOK'
    BY <1>a, <1>b, Empty DEF HooksOK, SameEntries, FindHookEntry
<1>3. JobsOK'
    BY <1>a, <1>b DEF JobsOK, SameEntries
<1>4. FlagsOK'
    BY DEF FlagsOK
<1>5. PlacesOK'
    BY <1>a, <1>b, PlacesStay DEF PlacesOK, SameEntries, ThreadsMoved
<1>6. EarlyOK'
    BY <1>a DEF EarlyOK, Early
<1>7. RequestsOK'
    BY DEF RequestsOK, Late
<1>8. EndpointsOK'
    BY DEF EndpointsOK, Late
<1>9. InsideOK'
    BY DEF InsideOK, Gone
<1> QED
    BY <1>1, <1>2, <1>3, <1>4, <1>5, <1>6, <1>7, <1>8, <1>9

LEMMA MainUninitializesKeeps ==
    ASSUME IInv, MainUninitializes
    PROVE  IInv'
<1> USE DEF IInv, MainUninitializes, MainGoes, endpointVars, requestVars, gameVars
<1>a. \/ /\ SameEntries /\ ThreadsMoved
         /\ \A x \in Targets : patched'[x] # NoSlot => patched[x] # NoSlot
      \/ /\ heap /\ heap' = FALSE /\ hooks' = <<>> /\ ThreadsMoved
         /\ \A x \in Targets : patched'[x] = NoSlot
    BY Uninitialized
<1>b. SameEntries => \A slot, t : Live(slot, t)' <=> Live(slot, t)
    BY LiveStays
<1>c. hooks' = <<>> => DOMAIN hooks' = {} /\ hooks' \in Seq(HookEntries(Tramps'))
    BY EmptySeq
<1>1. Shaped'
    BY <1>a, <1>c DEF Shaped, SameEntries, ThreadsMoved
<1>2. HooksOK'
  <2>1. CASE SameEntries /\ \A x \in Targets : patched'[x] # NoSlot => patched[x] # NoSlot
      BY <1>b, <2>1, Empty DEF HooksOK, SameEntries, FindHookEntry
  <2>2. CASE heap' = FALSE /\ hooks' = <<>> /\ \A x \in Targets : patched'[x] = NoSlot
      BY <1>a, <1>c, <2>2 DEF HooksOK, SameEntries
  <2> QED
      BY <1>a, <2>1, <2>2
<1>3. JobsOK'
    BY <1>a, <1>b DEF JobsOK, SameEntries
<1>4. FlagsOK'
    BY DEF FlagsOK, Gone
<1>5. PlacesOK'
    BY <1>a, <1>b, PlacesStay DEF PlacesOK, SameEntries, ThreadsMoved
<1>6. EarlyOK'
    BY DEF EarlyOK, Early
<1>7. RequestsOK'
    BY DEF RequestsOK, Late
<1>8. EndpointsOK'
    BY DEF EndpointsOK, Late
<1>9. InsideOK'
  <2>1. \A th \in Threads \ inside' : ip[th] = Idle /\ stream[th] = "none"
      OBVIOUS
  <2>2. \A th \in Threads \ inside' : ip'[th] = Idle
      BY <1>a, <2>1 DEF ThreadsMoved
  <2> QED
      BY <2>1, <2>2 DEF InsideOK, Idle
<1> QED
    BY <1>1, <1>2, <1>3, <1>4, <1>5, <1>6, <1>7, <1>8, <1>9

LEMMA CreateKeeps ==
    ASSUME IInv, NEW a \in Actors, Create(a), UNCHANGED <<loaded, requestVars, gameVars, endpointVars, inside>>
    PROVE  IInv'
<1> USE DEF IInv, Create, Goto, hookVars, tableVars, requestVars, gameVars, endpointVars, mainVars
<1>a. PICK t \in Targets : t = job[a].t /\ job[a].at = "create"
    BY DEF JobsOK
<1>b. PICK st, slot : /\ CreateHook(t, st, slot)
                      /\ job' = [job EXCEPT ![a] = IF st = "OK" THEN [at |-> "enable", t |-> t, slot |-> slot]
                                                  ELSE [at |-> "finish"]]
                      /\ original' = IF st = "OK" /\ t \notin Exports
                                     THEN [original EXCEPT ![t] = slot] ELSE original
    BY <1>a
<1>c. UNCHANGED <<heap, patched, ip, hooked, main, stream, request, registered, retained, epLock, inside>>
  <2>1. UNCHANGED <<heap, patched, ip>>
    <3> HIDE DEF Create
    <3>1. CASE st = "OK"
        BY <1>a, <1>b, <3>1, Created
    <3>2. CASE st # "OK"
        BY <1>b, <3>2, NotCreated
    <3> QED
        BY <3>1, <3>2
  <2> QED
      BY <2>1
<1>d. st # "OK" => UNCHANGED hooks
    BY <1>b, NotCreated
<1> DEFINE new == Len(hooks) + 1
<1>e. st = "OK" => /\ heap /\ slot # NoSlot /\ FindHookEntry(t) = {}
                   /\ hooks' \in Seq(HookEntries(Tramps'))
                   /\ DOMAIN hooks' = DOMAIN hooks \cup {new} /\ new \notin DOMAIN hooks
                   /\ \A n \in DOMAIN hooks : hooks'[n] = hooks[n]
                   /\ hooks'[new].target = t /\ hooks'[new].tramp = slot /\ hooks'[new].enabled = FALSE
  <2> SUFFICES ASSUME st = "OK"
               PROVE  /\ heap /\ slot # NoSlot /\ FindHookEntry(t) = {}
                      /\ hooks' \in Seq(HookEntries(Tramps'))
                      /\ DOMAIN hooks' = DOMAIN hooks \cup {new} /\ new \notin DOMAIN hooks
                      /\ \A n \in DOMAIN hooks : hooks'[n] = hooks[n]
                      /\ hooks'[new].target = t /\ hooks'[new].tramp = slot /\ hooks'[new].enabled = FALSE
      OBVIOUS
  <2>1. CreateHook(t, "OK", slot)
      BY <1>b
  <2> HIDE DEF Create, IInv
  <2>2. hooks'[new] = [target |-> t, tramp |-> slot, enabled |-> FALSE, queued |-> FALSE]
      BY <2>1, Created DEF IInv
  <2>3. hooks'[new].target = t /\ hooks'[new].tramp = slot /\ hooks'[new].enabled = FALSE
      BY <2>2
  <2> QED
      BY <2>1, <2>3, Created DEF IInv
<1> HIDE DEF new, Create
<1>f. \A s, x : Live(s, x) => Live(s, x)'
    BY <1>d, <1>e DEF Live
<1>g. st = "OK" => Live(slot, t)'
    BY <1>e DEF Live
<1>h. /\ original' = [x \in Targets |-> original'[x]]
      /\ \A x \in Targets : original'[x] = IF st = "OK" /\ x = t /\ t \notin Exports THEN slot ELSE original[x]
    BY <1>b DEF Shaped
<1>i. /\ job' = [x \in Actors |-> job'[x]]
      /\ \A x \in Actors : x # a => job'[x] = job[x]
      /\ st = "OK" => job'[a] = [at |-> "enable", t |-> t, slot |-> slot]
      /\ st # "OK" => job'[a] = [at |-> "finish"]
    BY <1>b DEF Shaped
<1>j. /\ job'[a].at \in {"enable", "finish"}
      /\ st = "OK" => job'[a].at = "enable" /\ job'[a].t = t /\ job'[a].slot = slot
    BY <1>i
<1>k. st = "OK" => \A n \in DOMAIN hooks : hooks[n].target # t
    BY <1>e DEF FindHookEntry
<1>1. Shaped'
    BY <1>c, <1>d, <1>e, <1>h, <1>i DEF Shaped, Tramps
<1>2. HooksOK'
  <2>1. CASE st # "OK"
      BY <1>c, <1>d, <1>h, <2>1, EntryTargets DEF HooksOK, Live, FindHookEntry
  <2>2. CASE st = "OK"
    <3>1. \A n \in DOMAIN hooks' :
            /\ hooks'[n].tramp # NoSlot
            /\ hooks'[n].target \in Exports \/ original'[hooks'[n].target] = hooks'[n].tramp
        BY <1>a, <1>e, <1>h, <1>k, <2>2, EntryTargets DEF HooksOK
    <3>2. \A m, n \in DOMAIN hooks' : hooks'[m].target = hooks'[n].target => m = n
        BY <1>e, <1>k, <2>2 DEF HooksOK
    <3>3. \A x \in Targets : patched'[x] # NoSlot => FindHookEntry(x)' # {}
        BY <1>c, <1>e, <2>2 DEF HooksOK, FindHookEntry
    <3>4. \A x \in Targets : original'[x] # NoSlot => (~heap \/ Live(original[x], x))'
        BY <1>c, <1>f, <1>g, <1>h, <2>2 DEF HooksOK, Live
    <3> QED
        BY <1>c, <1>e, <2>2, <3>1, <3>2, <3>3, <3>4 DEF HooksOK
  <2> QED
      BY <2>1, <2>2
<1>3. JobsOK'
  <2>1. \A x \in Actors : x # a /\ job[x].at \in {"enable", "publish"} =>
            ~heap' \/ Live(job[x].slot, job[x].t)'
      BY <1>c, <1>i, <1>f DEF JobsOK
  <2>2. job'[a].at = "enable" =>
            /\ job'[a] = [at |-> "enable", t |-> job'[a].t, slot |-> job'[a].slot]
            /\ job'[a].t \in Targets /\ job'[a].slot # NoSlot
            /\ Live(job[a].slot, job[a].t)'
      BY <1>a, <1>e, <1>g, <1>i, <1>j
  <2> QED
      BY <1>i, <1>j, <2>1, <2>2 DEF JobsOK
<1>4. FlagsOK'
  <2>1. \A x, s : Works(x, s) => Works(x, s)'
      BY <1>d, <1>e DEF Works
  <2>2. CASE st # "OK"
      BY <1>c, <1>d, <1>h, <1>i, <1>j, <2>1, <2>2 DEF FlagsOK
  <2>3. CASE st = "OK"
    <3>1. patched[t] = NoSlot
        BY <1>a, <1>e, <2>3 DEF HooksOK
    <3>2. main \notin {"uninitialize"} \cup Gone => \A x \in hooked : x # t
        BY <1>k, <2>3 DEF FlagsOK, Works
    <3> QED
        BY <1>c, <1>e, <1>h, <1>i, <1>j, <2>1, <2>3, <3>1, <3>2 DEF FlagsOK
  <2> QED
      BY <2>2, <2>3
<1>5. PlacesOK'
  <2>1. \A x \in Targets : original[x] # NoSlot => original'[x] # NoSlot
      BY <1>e, <1>h
  <2> QED
      BY <1>c, <1>f, <2>1, PlacesStay DEF PlacesOK
<1>6. EarlyOK'
    BY <1>a, <1>c DEF EarlyOK, NoJob
<1>7. RequestsOK'
    BY <1>c DEF RequestsOK
<1>8. EndpointsOK'
    BY <1>a, <1>c, <1>i, <1>j DEF EndpointsOK, Actors
<1>9. InsideOK'
    BY <1>c DEF InsideOK
<1> QED
    BY <1>1, <1>2, <1>3, <1>4, <1>5, <1>6, <1>7, <1>8, <1>9

LEMMA EnableKeeps ==
    ASSUME IInv, NEW a \in Actors, Enable(a), UNCHANGED <<loaded, requestVars, gameVars, endpointVars, inside>>
    PROVE  IInv'
<1> USE DEF IInv, Enable, Goto, hookVars, tableVars, requestVars, gameVars, endpointVars, mainVars
<1>a. PICK t, slot :
        /\ t \in Targets /\ job[a].at = "enable" /\ job[a] = [at |-> "enable", t |-> t, slot |-> slot]
        /\ t = job[a].t /\ slot # NoSlot /\ (~heap \/ Live(slot, t))
    BY DEF JobsOK
<1>b. PICK st : /\ EnableHook(t, TRUE, st)
                /\ job' = [job EXCEPT ![a] = IF st \in {"OK", "ENABLED"} THEN [job[a] EXCEPT !.at = "publish"]
                                            ELSE [at |-> "finish"]]
    BY <1>a
<1>c. /\ SameEntries /\ ThreadsMoved
      /\ \A n \in DOMAIN hooks :
           \/ hooks'[n].enabled = hooks[n].enabled /\ patched'[hooks[n].target] = patched[hooks[n].target]
           \/ /\ hooks[n].target = t
              /\ hooks'[n].enabled /\ patched'[hooks[n].target] = hooks[n].tramp
      /\ \A x \in Targets : patched'[x] = patched[x] \/ FindHookEntry(x) # {}
      /\ st \in {"OK", "ENABLED"} => \E n \in DOMAIN hooks : hooks[n].target = t /\ hooks'[n].enabled
    BY <1>a, <1>b, Enabled
<1>d. \A s, x : Live(s, x)' <=> Live(s, x)
    BY <1>c, LiveStays
<1>e. /\ heap' = heap /\ DOMAIN hooks' = DOMAIN hooks
      /\ \A n \in DOMAIN hooks : hooks'[n].target = hooks[n].target /\ hooks'[n].tramp = hooks[n].tramp
    BY <1>c DEF SameEntries
<1>f. /\ job' = [x \in Actors |-> job'[x]]
      /\ \A x \in Actors : x # a => job'[x] = job[x]
      /\ \/ /\ st \in {"OK", "ENABLED"} /\ job'[a] = [at |-> "publish", t |-> t, slot |-> slot]
            /\ job'[a].at = "publish" /\ job'[a].t = t /\ job'[a].slot = slot
         \/ job'[a].at = "finish"
  <2>1. [job[a] EXCEPT !.at = "publish"] = [at |-> "publish", t |-> t, slot |-> slot]
      BY <1>a
  <2> QED
      BY <1>b, <2>1 DEF Shaped
<1> HIDE DEF Enable
<1>g. UNCHANGED <<original, hooked, main>>
    BY DEF Enable
<1>1. Shaped'
    BY <1>c, <1>f, <1>g DEF Shaped, SameEntries, ThreadsMoved
<1>2. HooksOK'
    BY <1>c, <1>d, <1>e, <1>g, Empty DEF HooksOK, FindHookEntry, SameEntries
<1>3. JobsOK'
    BY <1>a, <1>d, <1>e, <1>f DEF JobsOK
<1>4. FlagsOK'
  <2>1. \A x, s : Works(x, s) => Works(x, s)'
      BY <1>c, <1>e DEF Works
  <2>2. main \notin {"uninitialize"} \cup Gone =>
          \A n \in DOMAIN hooks' :
            patched'[hooks'[n].target] = IF hooks'[n].enabled THEN hooks'[n].tramp ELSE NoSlot
      BY <1>c, <1>e DEF FlagsOK
  <2>3. job'[a].at = "publish" => Works(job[a].t, job[a].slot)'
    <3> SUFFICES ASSUME job'[a].at = "publish" PROVE Works(t, slot)'
        BY <1>f
    <3>1. PICK n \in DOMAIN hooks : hooks[n].target = t /\ hooks'[n].enabled
        BY <1>c, <1>f
    <3>2. hooks # <<>>
        BY <3>1, Empty
    <3>3. PICK m \in DOMAIN hooks : hooks[m].tramp = slot /\ hooks[m].target = t
        BY <1>a, <3>2 DEF Live, HooksOK
    <3>4. m = n
        BY <3>1, <3>3 DEF HooksOK
    <3> QED
        BY <1>e, <3>1, <3>3, <3>4 DEF Works
  <2> QED
      BY <1>f, <1>g, <2>1, <2>2, <2>3 DEF FlagsOK
<1>5. PlacesOK'
    BY <1>c, <1>d, <1>e, <1>g, PlacesStay DEF PlacesOK, ThreadsMoved
<1>6. EarlyOK'
    BY <1>a, <1>g DEF EarlyOK, NoJob
<1>7. RequestsOK'
    BY <1>g DEF RequestsOK
<1>8. EndpointsOK'
    BY <1>a, <1>f, <1>g DEF EndpointsOK, Actors
<1>9. InsideOK'
    BY <1>c, <1>e, <1>g DEF InsideOK, ThreadsMoved, Idle
<1> QED
    BY <1>1, <1>2, <1>3, <1>4, <1>5, <1>6, <1>7, <1>8, <1>9

LEMMA PublishKeeps ==
    ASSUME IInv, NEW a \in Actors, Publish(a), UNCHANGED <<loaded, requestVars, gameVars, endpointVars, inside>>
    PROVE  IInv'
<1> USE DEF IInv, Publish, Goto, hookVars, tableVars, requestVars, gameVars, endpointVars, mainVars
<1> DEFINE t == job[a].t
<1>a. /\ t \in Targets /\ job[a].at = "publish" /\ job[a].slot # NoSlot
      /\ ~heap \/ Live(job[a].slot, t)
    BY DEF JobsOK
<1>b. /\ original' = [x \in Targets |-> original'[x]]
      /\ \A x \in Targets : original'[x] = IF x = t /\ t \in Exports THEN job[a].slot ELSE original[x]
    BY DEF Shaped
<1>c. /\ job' = [x \in Actors |-> job'[x]] /\ job'[a].at = "finish"
      /\ \A x \in Actors : x # a => job'[x] = job[x]
    BY DEF Shaped
<1>1. RequestsOK' /\ InsideOK'
    BY DEF RequestsOK, Late, InsideOK, Gone
<1>2. Shaped'
    BY <1>b, <1>c DEF Shaped, Tramps
<1>3. HooksOK'
    BY <1>a, <1>b, EntryTargets DEF HooksOK, Live, FindHookEntry
<1>4. JobsOK'
    BY <1>c DEF JobsOK, Live
<1>5. FlagsOK'
  <2> SUFFICES ASSUME main \notin {"uninitialize"} \cup Gone
               PROVE  /\ \A x \in hooked' : x \in Targets /\ Works(x, original'[x])
                      /\ \A x \in Actors : job'[x].at = "publish" => Works(job'[x].t, job'[x].slot)
      BY DEF FlagsOK, Works, Gone
  <2>1. Works(t, job[a].slot)
      BY <1>a DEF FlagsOK
  <2>2. PICK n \in DOMAIN hooks : /\ hooks[n].target = t /\ hooks[n].tramp = job[a].slot
                                 /\ hooks[n].enabled
      BY <2>1 DEF Works
  <2>3. original'[t] = job[a].slot
      BY <1>a, <1>b, <2>2 DEF HooksOK
  <2> QED
      BY <1>a, <1>b, <1>c, <2>1, <2>3 DEF FlagsOK
<1>6. PlacesOK'
    BY <1>a, <1>b, PlacesStay DEF PlacesOK, Live
<1>7. EarlyOK'
    BY <1>a DEF EarlyOK, NoJob
<1>8. EndpointsOK'
    BY <1>a, <1>c DEF EndpointsOK, Actors
<1> QED
    BY <1>1, <1>2, <1>3, <1>4, <1>5, <1>6, <1>7, <1>8

LEMMA DoneKeeps ==
    ASSUME IInv, NEW a \in Actors, Done(a), UNCHANGED <<loaded, requestVars, gameVars, endpointVars, inside>>
    PROVE  IInv'
<1> USE DEF IInv, Done, Finish, hookVars, tableVars, requestVars, gameVars, endpointVars, mainVars
<1>a. job[a].at = "finish" /\ UNCHANGED main
    OBVIOUS
<1>b. /\ job' = [x \in Actors |-> job'[x]] /\ job'[a].at \in {"none", "register"}
      /\ \A x \in Actors : x # a => job'[x] = job[x]
    BY DEF Shaped, NoJob
<1>c. /\ ip' = [th \in Threads |-> ip'[th]]
      /\ \A th \in Threads : ip'[th] \in {ip[th], Idle}
    BY RuntimeAssumption DEF Shaped, Actors
<1> HIDE DEF Finish
<1>1. HooksOK'
    BY DEF HooksOK, Live, FindHookEntry
<1>2. Shaped'
    BY <1>b, <1>c DEF Shaped, Tramps
<1>3. JobsOK'
  <2>1. UNCHANGED <<heap, hooks>>
      OBVIOUS
  <2> HIDE DEF Done
  <2>2. \A slot, t : Live(slot, t)' <=> Live(slot, t)
      BY <2>1 DEF Live
  <2> QED
      BY <1>b, <2>1, <2>2 DEF JobsOK
<1>4. FlagsOK'
    BY <1>a, <1>b DEF FlagsOK, Works, Gone
<1>5. PlacesOK'
    BY <1>c DEF PlacesOK, PlaceOK, Live
<1>6. EarlyOK'
    BY <1>a DEF EarlyOK, NoJob
<1>7. RequestsOK'
    BY <1>a DEF RequestsOK
<1>8. EndpointsOK'
    BY <1>a, <1>b DEF EndpointsOK, Actors
<1>9. InsideOK'
    BY <1>a, <1>c DEF InsideOK, Idle
<1> QED
    BY <1>1, <1>2, <1>3, <1>4, <1>5, <1>6, <1>7, <1>8, <1>9

LEMMA RequestStepKeeps ==
    ASSUME IInv, NEW r \in Requesters, RequestStep(r)
    PROVE  IInv'
<1> USE DEF IInv, RequestStep, hookVars, tableVars, requestVars, gameVars, endpointVars, mainVars
<1>a. /\ request' = [x \in Requesters |-> request'[x]]
      /\ \A x \in Requesters : x # r => request'[x] = request[x]
      /\ request'[r] = "signal" => requested'
      /\ requested => requested'
      /\ event' # event => event' = "set" /\ request[r] = "signal"
      /\ event' # event => request'[r] = "accepted"
      /\ request[r] = "accepted" => request'[r] = "accepted"
    BY DEF Shaped
<1>b. UNCHANGED main
    OBVIOUS
<1>1. HooksOK' /\ JobsOK' /\ FlagsOK' /\ PlacesOK' /\ EarlyOK'
    BY DEF HooksOK, Live, FindHookEntry, JobsOK, FlagsOK, Works, Gone, PlacesOK, PlaceOK, EarlyOK, Early
<1>2. EndpointsOK'
    BY DEF EndpointsOK, Late
<1>3. Shaped'
    BY <1>a DEF Shaped, Tramps
<1>4. RequestsOK'
    BY <1>a, <1>b DEF RequestsOK, Late
<1>5. InsideOK'
    BY DEF InsideOK, Gone
<1> QED
    BY <1>1, <1>2, <1>3, <1>4, <1>5

LEMMA GameCallsKeeps ==
    ASSUME IInv, NEW th \in Threads, NEW t \in Targets, GameCalls(th, t)
    PROVE  IInv'
<1> USE DEF IInv, GameCalls, hookVars, tableVars, requestVars, gameVars, endpointVars, mainVars
<1>a. /\ ip' = [u \in Threads |-> ip'[u]]
      /\ \A u \in Threads : u # th => ip'[u] = ip[u]
    BY DEF Shaped
<1>b. ip'[th] = Place("detour", t, 0, NoSlot, "program")
    BY DEF Shaped, Entering
<1>c. FindHookEntry(t) # {} /\ heap
    BY Empty DEF HooksOK, FindHookEntry
<1>d. t \in Exports \/ original[t] # NoSlot
    BY <1>c DEF HooksOK, FindHookEntry
<1>1. HooksOK' /\ JobsOK' /\ FlagsOK' /\ RequestsOK' /\ EndpointsOK'
    BY DEF HooksOK, Live, FindHookEntry, JobsOK, FlagsOK, Works, Gone, RequestsOK, Late, EndpointsOK
<1>2. Shaped'
    BY <1>a DEF Shaped, Tramps
<1>3. PlacesOK'
    BY <1>a, <1>b, <1>d, Fields DEF PlacesOK, PlaceOK, Live
<1>4. EarlyOK'
    BY <1>c DEF EarlyOK
<1>5. InsideOK'
    BY <1>a, <1>b, <1>c, Fields DEF InsideOK
<1> QED
    BY <1>1, <1>2, <1>3, <1>4, <1>5

LEMMA GameRunsKeeps ==
    ASSUME IInv, NEW th \in Threads, GameRuns(th)
    PROVE  IInv'
<1> USE DEF IInv, GameRuns, hookVars, tableVars, requestVars, gameVars, endpointVars, mainVars
<1>a. /\ ip' = [u \in Threads |-> ip'[u]]
      /\ \A u \in Threads : u # th => ip'[u] = ip[u]
    BY DEF Shaped
<1>b. PICK p \in RunsTo(ip[th]) : ip'[th] = p
    BY DEF Shaped
<1>c. PlaceOK(p) /\ (p.at = "lost" => ~heap)
    BY <1>b, StepsRight DEF PlacesOK
<1>1. HooksOK' /\ JobsOK' /\ FlagsOK' /\ RequestsOK' /\ EndpointsOK'
    BY DEF HooksOK, Live, FindHookEntry, JobsOK, FlagsOK, Works, Gone, RequestsOK, Late, EndpointsOK
<1>2. Shaped'
    BY <1>a DEF Shaped, Tramps
<1>3. PlacesOK'
    BY <1>a, <1>b, <1>c DEF PlacesOK, PlaceOK, Live
<1>4. EarlyOK'
    BY DEF EarlyOK
<1>5. InsideOK'
    BY <1>a, <1>b, <1>c DEF InsideOK
<1> QED
    BY <1>1, <1>2, <1>3, <1>4, <1>5

LEMMA GameFollowsUpKeeps ==
    ASSUME IInv, NEW th \in Threads, GameFollowsUp(th)
    PROVE  IInv'
<1> USE DEF IInv, GameFollowsUp, hookVars, tableVars, requestVars, gameVars, endpointVars, mainVars
<1>a. /\ job' = [x \in Actors |-> job'[x]]
      /\ \A x \in Actors : x # th => job'[x] = job[x]
    BY DEF Shaped
<1>b. /\ job[th].at = "none"
      /\ job'[th].at \in {"finish", "create"}
      /\ job'[th].at = "create" => job'[th].t \in Targets
    BY RuntimeAssumption DEF Shaped, Actors, NoJob, PlacesOK, PlaceOK
<1>c. UNCHANGED <<heap, hooks, patched, hooked, original, main>>
    OBVIOUS
<1>1. HooksOK' /\ PlacesOK' /\ RequestsOK' /\ InsideOK'
    BY DEF HooksOK, Live, FindHookEntry, PlacesOK, PlaceOK, RequestsOK, Late, InsideOK, Gone
<1>2. Shaped'
    BY <1>a DEF Shaped, Tramps
<1>3. JobsOK'
  <2> HIDE DEF GameFollowsUp
  <2> QED
      BY <1>a, <1>b, <1>c DEF JobsOK, Live
<1>4. FlagsOK'
    BY <1>a, <1>b DEF FlagsOK, Works, Gone
<1>5. EarlyOK'
    BY DEF EarlyOK
<1>6. EndpointsOK'
    BY <1>a, <1>b DEF EndpointsOK, Actors
<1> QED
    BY <1>1, <1>2, <1>3, <1>4, <1>5, <1>6

LEMMA RegisterChecksKeeps ==
    ASSUME IInv, NEW th \in Threads, RegisterChecks(th),
           UNCHANGED <<tableVars, original, hooked, mainVars, loaded, requestVars, gameVars, inside>>
    PROVE  IInv'
<1> USE DEF IInv, RegisterChecks, GameLeaves, hookVars, tableVars, requestVars, gameVars, endpointVars, mainVars
<1>a. /\ job' = [x \in Actors |-> job'[x]]
      /\ \A x \in Actors : x # th => job'[x] = job[x]
    BY DEF Shaped
<1>b. /\ ip' = [u \in Threads |-> ip'[u]]
      /\ \A u \in Threads : ip'[u] \in {ip[u], Idle}
    BY DEF Shaped
<1>c. th \in Actors
    BY DEF Actors
<1>d. job'[th].at \in {"none", "lock"}
    BY <1>c DEF Shaped, NoJob
<1>1. HooksOK' /\ RequestsOK'
    BY DEF HooksOK, Live, FindHookEntry, RequestsOK, Late
<1>2. Shaped'
    BY <1>a, <1>b DEF Shaped, Tramps
<1>3. JobsOK'
  <2>1. UNCHANGED <<heap, hooks>>
      OBVIOUS
  <2> HIDE DEF RegisterChecks, GameLeaves
  <2>2. \A slot, t : Live(slot, t)' <=> Live(slot, t)
      BY <2>1 DEF Live
  <2>3. \A x \in Actors : job'[x] = job[x] \/ job'[x].at \notin {"create", "enable", "publish"}
      BY <1>a, <1>d
  <2> QED
      BY <2>1, <2>2, <2>3 DEF JobsOK
<1>4. FlagsOK'
    BY <1>a, <1>d DEF FlagsOK, Works, Gone
<1>5. PlacesOK'
    BY <1>b DEF PlacesOK, PlaceOK, Live
<1>6. EarlyOK'
    BY <1>c DEF EarlyOK, NoJob
<1>7. EndpointsOK'
    BY <1>a, <1>c, <1>d DEF EndpointsOK, Actors
<1>8. InsideOK'
    BY <1>b DEF InsideOK, Idle
<1> QED
    BY <1>1, <1>2, <1>3, <1>4, <1>5, <1>6, <1>7, <1>8

LEMMA RegisterClaimsKeeps ==
    ASSUME IInv, NEW th \in Threads, RegisterClaims(th),
           UNCHANGED <<tableVars, original, hooked, mainVars, loaded, requestVars, gameVars, inside>>
    PROVE  IInv'
<1> USE DEF IInv, RegisterClaims, GameLeaves, hookVars, tableVars, requestVars, gameVars, endpointVars, mainVars
<1>a. /\ job' = [x \in Actors |-> job'[x]]
      /\ \A x \in Actors : x # th => job'[x] = job[x]
    BY DEF Shaped
<1>b. /\ ip' = [u \in Threads |-> ip'[u]]
      /\ \A u \in Threads : ip'[u] \in {ip[u], Idle}
    BY DEF Shaped
<1>c. th \in Actors
    BY DEF Actors
<1>d. job'[th].at \in {"none", "call"}
    BY <1>c DEF Shaped, NoJob
<1>e. \/ job'[th].at = "call" /\ epLock' = th /\ ~requested
      \/ job'[th].at = "none" /\ UNCHANGED endpointVars
    BY <1>c DEF Shaped, NoJob
<1>f. UNCHANGED <<registered, retained, main, requested>>
    OBVIOUS
<1>1. HooksOK' /\ RequestsOK'
    BY DEF HooksOK, Live, FindHookEntry, RequestsOK, Late
<1>2. Shaped'
    BY <1>a, <1>b DEF Shaped, Tramps
<1>3. JobsOK'
  <2>1. UNCHANGED <<heap, hooks>>
      OBVIOUS
  <2> HIDE DEF RegisterClaims, GameLeaves
  <2>2. \A slot, t : Live(slot, t)' <=> Live(slot, t)
      BY <2>1 DEF Live
  <2>3. \A x \in Actors : job'[x] = job[x] \/ job'[x].at \notin {"create", "enable", "publish"}
      BY <1>a, <1>d
  <2> QED
      BY <2>1, <2>2, <2>3 DEF JobsOK
<1>4. FlagsOK'
    BY <1>a, <1>d DEF FlagsOK, Works, Gone
<1>5. PlacesOK'
    BY <1>b DEF PlacesOK, PlaceOK, Live
<1>6. EarlyOK'
    BY <1>c DEF EarlyOK, NoJob
<1>7. EndpointsOK'
    BY <1>a, <1>c, <1>e, <1>f, RuntimeAssumption DEF EndpointsOK, RequestsOK, Actors, Late
<1>8. InsideOK'
    BY <1>b DEF InsideOK, Idle
<1> QED
    BY <1>1, <1>2, <1>3, <1>4, <1>5, <1>6, <1>7, <1>8

LEMMA RegisterCallsKeeps ==
    ASSUME IInv, NEW th \in Threads, RegisterCalls(th),
           UNCHANGED <<tableVars, original, hooked, mainVars, loaded, requestVars, gameVars, inside>>
    PROVE  IInv'
<1> USE DEF IInv, RegisterCalls, GameLeaves, hookVars, tableVars, requestVars, gameVars, endpointVars, mainVars
<1>a. /\ job' = [x \in Actors |-> job'[x]]
      /\ \A x \in Actors : x # th => job'[x] = job[x]
    BY DEF Shaped
<1>b. /\ ip' = [u \in Threads |-> ip'[u]]
      /\ \A u \in Threads : ip'[u] \in {ip[u], Idle}
    BY DEF Shaped
<1>c. th \in Actors
    BY DEF Actors
<1>d. job'[th].at \in {"none", "retain"}
    BY <1>c DEF Shaped, NoJob
<1>e. \/ job'[th].at = "retain" /\ UNCHANGED epLock
      \/ job'[th].at = "none" /\ UNCHANGED registered /\ epLock' = "free"
    BY <1>c DEF Shaped, NoJob
<1>f. UNCHANGED <<retained, main>> /\ job[th].at = "call"
    OBVIOUS
<1>1. HooksOK' /\ RequestsOK'
    BY DEF HooksOK, Live, FindHookEntry, RequestsOK, Late
<1>2. Shaped'
    BY <1>a, <1>b DEF Shaped, Tramps
<1>3. JobsOK'
  <2>1. UNCHANGED <<heap, hooks>>
      OBVIOUS
  <2> HIDE DEF RegisterCalls, GameLeaves
  <2>2. \A slot, t : Live(slot, t)' <=> Live(slot, t)
      BY <2>1 DEF Live
  <2>3. \A x \in Actors : job'[x] = job[x] \/ job'[x].at \notin {"create", "enable", "publish"}
      BY <1>a, <1>d
  <2> QED
      BY <2>1, <2>2, <2>3 DEF JobsOK
<1>4. FlagsOK'
    BY <1>a, <1>d DEF FlagsOK, Works, Gone
<1>5. PlacesOK'
    BY <1>b DEF PlacesOK, PlaceOK, Live
<1>6. EarlyOK'
    BY <1>c DEF EarlyOK, NoJob
<1>7. EndpointsOK'
    BY <1>a, <1>c, <1>e, <1>f, RuntimeAssumption DEF EndpointsOK, Actors, Late
<1>8. InsideOK'
    BY <1>b DEF InsideOK, Idle
<1> QED
    BY <1>1, <1>2, <1>3, <1>4, <1>5, <1>6, <1>7, <1>8

LEMMA RegisterRetainsKeeps ==
    ASSUME IInv, NEW th \in Threads, RegisterRetains(th),
           UNCHANGED <<tableVars, original, hooked, mainVars, loaded, requestVars, gameVars, inside>>
    PROVE  IInv'
<1> USE DEF IInv, RegisterRetains, GameLeaves, hookVars, tableVars, requestVars, gameVars, endpointVars, mainVars
<1>a. /\ job' = [x \in Actors |-> job'[x]]
      /\ \A x \in Actors : x # th => job'[x] = job[x]
    BY DEF Shaped
<1>b. /\ ip' = [u \in Threads |-> ip'[u]]
      /\ \A u \in Threads : ip'[u] \in {ip[u], Idle}
    BY DEF Shaped
<1>c. th \in Actors
    BY DEF Actors
<1>d. job'[th].at = "none"
    BY <1>c DEF Shaped, NoJob
<1>1. HooksOK' /\ RequestsOK'
    BY DEF HooksOK, Live, FindHookEntry, RequestsOK, Late
<1>2. Shaped'
    BY <1>a, <1>b DEF Shaped, Tramps
<1>3. JobsOK'
  <2>1. UNCHANGED <<heap, hooks>>
      OBVIOUS
  <2> HIDE DEF RegisterRetains, GameLeaves
  <2>2. \A slot, t : Live(slot, t)' <=> Live(slot, t)
      BY <2>1 DEF Live
  <2>3. \A x \in Actors : job'[x] = job[x] \/ job'[x].at \notin {"create", "enable", "publish"}
      BY <1>a, <1>d
  <2> QED
      BY <2>1, <2>2, <2>3 DEF JobsOK
<1>4. FlagsOK'
    BY <1>a, <1>d DEF FlagsOK, Works, Gone
<1>5. PlacesOK'
    BY <1>b DEF PlacesOK, PlaceOK, Live
<1>6. EarlyOK'
    BY <1>c DEF EarlyOK, NoJob
<1>7. EndpointsOK'
    BY <1>a, <1>c, <1>d, RuntimeAssumption DEF EndpointsOK, Actors, Late
<1>8. InsideOK'
    BY <1>b DEF InsideOK, Idle
<1> QED
    BY <1>1, <1>2, <1>3, <1>4, <1>5, <1>6, <1>7, <1>8

LEMMA GameStreamsKeeps ==
    ASSUME IInv, NEW th \in Threads, GameStreams(th)
    PROVE  IInv'
<1> USE DEF IInv, GameStreams, hookVars, tableVars, requestVars, gameVars, endpointVars, mainVars
<1>a. /\ stream' = [u \in Threads |-> stream'[u]]
      /\ \A u \in Threads : u # th => stream'[u] = stream[u]
      /\ stream[th] = "none" => stream'[th] = "none" \/ ~requested
      /\ ip' = [u \in Threads |-> ip'[u]]
      /\ \A u \in Threads : u # th => ip'[u] = ip[u]
    BY DEF Shaped, ActivateChecks, ActivateCounts, ActivateOpens, ActivateReturns, StreamDestroyed
<1>b. \/ ip'[th] = Idle
      \/ /\ ip'[th] = Place("tramp", Activate, 0, original[Activate], "program")
         /\ original[Activate] # NoSlot /\ stream[th] # "none"
    BY DEF Shaped, ActivateChecks, ActivateCounts, ActivateOpens, ActivateReturns, StreamDestroyed
<1>1. HooksOK' /\ JobsOK' /\ FlagsOK' /\ RequestsOK' /\ EndpointsOK'
    BY DEF HooksOK, Live, FindHookEntry, JobsOK, FlagsOK, Works, Gone, RequestsOK, Late, EndpointsOK
<1>2. Shaped'
    BY <1>a DEF Shaped, Tramps
<1>3. PlacesOK'
    BY <1>a, <1>b, Fields, RuntimeAssumption DEF PlacesOK, PlaceOK, HooksOK, Live
<1>4. EarlyOK'
    BY <1>a, <1>b, RuntimeAssumption DEF EarlyOK
<1>5. InsideOK'
    BY <1>a, <1>b DEF InsideOK, RequestsOK, Gone, Late, Idle
<1> QED
    BY <1>1, <1>2, <1>3, <1>4, <1>5

LEMMA GameLoadsKeeps ==
    ASSUME IInv, NEW t \in Exports, GameLoads(t)
    PROVE  IInv'
<1> USE DEF IInv, GameLoads, hookVars, tableVars, requestVars, gameVars, endpointVars, mainVars
<1>1. Shaped' /\ HooksOK' /\ JobsOK' /\ FlagsOK' /\ PlacesOK'
    BY DEF Shaped, Tramps, HooksOK, Live, FindHookEntry, JobsOK, FlagsOK, Works, Gone, PlacesOK, PlaceOK
<1>2. EarlyOK' /\ RequestsOK' /\ EndpointsOK' /\ InsideOK'
    BY DEF EarlyOK, Early, RequestsOK, Late, EndpointsOK, InsideOK, Gone
<1> QED
    BY <1>1, <1>2

LEMMA StutterKeeps ==
    ASSUME IInv, UNCHANGED vars
    PROVE  IInv'
<1> USE DEF IInv, vars, hookVars, tableVars, requestVars, gameVars, endpointVars, mainVars
<1>1. Shaped' /\ HooksOK' /\ JobsOK' /\ FlagsOK' /\ PlacesOK'
    BY DEF Shaped, Tramps, HooksOK, Live, FindHookEntry, JobsOK, FlagsOK, Works, Gone, PlacesOK, PlaceOK
<1>2. EarlyOK' /\ RequestsOK' /\ EndpointsOK' /\ InsideOK'
    BY DEF EarlyOK, Early, RequestsOK, Late, EndpointsOK, InsideOK, Gone
<1> QED
    BY <1>1, <1>2

(* Every step of the coordinator, of a request and of a game thread keeps the   *)
(* invariant.                                                                  *)
LEMMA InstallKeeps ==
    ASSUME IInv, NEW a \in Actors, Install(a)
    PROVE  IInv'
BY CreateKeeps, EnableKeeps, PublishKeeps, DoneKeeps DEF Install

LEMMA MainKeeps ==
    ASSUME IInv, MainStep
    PROVE  IInv'
<1>1. CASE Install(Main)
    BY <1>1, InstallKeeps DEF Actors
<1> QED
    BY <1>1, MainStartsKeeps, MainInitializesKeeps, MainPollsKeeps, MainRoundsKeeps, MainWakesKeeps,
       MainSeesNoStreamKeeps, MainTakesEndpointKeeps, MainUnregistersKeeps, MainDisablesKeeps,
       MainUninitializesKeeps, MainTakesEventKeeps, MainExitsKeeps DEF MainStep

LEMMA GameKeeps ==
    ASSUME IInv, NEW th \in Threads, GameStep(th)
    PROVE  IInv'
<1>1. CASE GameRegisters(th)
    BY <1>1, RegisterChecksKeeps, RegisterClaimsKeeps, RegisterCallsKeeps, RegisterRetainsKeeps
       DEF GameRegisters
<1>2. CASE Install(th)
    BY <1>2, InstallKeeps DEF Actors
<1> QED
    BY <1>1, <1>2, GameCallsKeeps, GameRunsKeeps, GameFollowsUpKeeps, GameStreamsKeeps
       DEF GameStep, InPatch

THEOREM EveryStep == IInv /\ [Next]_vars => IInv'
<1> SUFFICES ASSUME IInv, [Next]_vars PROVE IInv'
    OBVIOUS
<1> QED
    BY MainKeeps, RequestStepKeeps, GameLoadsKeeps, GameKeeps, StutterKeeps DEF Next

(* The invariant holds throughout, for any number of threads, hooks, rounds     *)
(* and requests, whatever the library's calls fail at.                         *)
THEOREM Invariance == Spec => []IInv
<1> QED
    BY Initially, EveryStep, PTL DEF Spec

-----------------------------------------------------------------------------
(* The teardown leaves no endpoint registration behind, however many threads    *)
(* register meanwhile (dllmain.cpp, RegisterEndpointNotificationsFrom...).      *)
THEOREM NoRegistrationLeft == Spec => []RegistrationOwned
<1>1. IInv => RegistrationOwned
    BY DEF IInv, EndpointsOK, RegistrationOwned, Late
<1> QED
    BY <1>1, Invariance, PTL

(* A g_hooked_... flag tells the truth until the teardown disables the hooks,   *)
(* whoever installs which of them at the same time.                            *)
THEOREM FlagsTrue == Spec => []FlagsTruthful
<1>1. IInv => FlagsTruthful
  <2> SUFFICES ASSUME IInv, main \notin {"uninitialize", "close", "closing", "exited"}, NEW t \in hooked
               PROVE  patched[t] # NoSlot /\ original[t] = patched[t]
      BY DEF FlagsTruthful
  <2>1. PICK n \in DOMAIN hooks : /\ hooks[n].target = t /\ hooks[n].tramp = original[t]
                                 /\ hooks[n].enabled
      BY DEF IInv, FlagsOK, Gone, Works
  <2> QED
      BY <2>1 DEF IInv, FlagsOK, Gone, HooksOK
<1> QED
    BY <1>1, Invariance, PTL

(* As long as the library is there a hooked call comes back: only the detour of *)
(* an export can meet a null pointer, and a trampoline is lost only with the    *)
(* whole library (dllmain.cpp, the detours; hook.c, MH_Uninitialize).           *)
THEOREM HookedCallsReturn == Spec => []HookedCallsSafe
<1>1. IInv => HookedCallsSafe
    BY DEF IInv, PlacesOK, PlaceOK, HookedCallsSafe, Idle
<1> QED
    BY <1>1, Invariance, PTL

(* Who is lost to the teardown was inside the patch when it took the library    *)
(* away (ControlledRuntimeTeardown).                                           *)
THEOREM OnlyInsidersLost == Spec => []LossesWereInside
<1>1. IInv => LossesWereInside
    BY DEF IInv, InsideOK, LossesWereInside, Gone
<1> QED
    BY <1>1, Invariance, PTL

(* A shutdown request that meets the closed event comes after one that was      *)
(* accepted, so no request is lost (RequestMetaphorCompleteAudioPatch...).      *)
THEOREM NoRequestLost == Spec => []StaleRequestIsLate
<1>1. IInv => StaleRequestIsLate
    BY DEF IInv, RequestsOK, StaleRequestIsLate
<1> QED
    BY <1>1, Invariance, PTL
=============================================================================

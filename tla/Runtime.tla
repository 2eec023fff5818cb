------------------------------- MODULE Runtime -------------------------------
(* The life of the patch in the process, src/dllmain.cpp: the runtime          *)
(* coordinator (MainThread) that installs hooks, waits for a shutdown request   *)
(* and tears everything down; game threads that run through the hooked          *)
(* functions, install further hooks from them, register for endpoint            *)
(* notifications, and keep spatial streams; and callers of the exported         *)
(* shutdown request. The hooks are those of MinHook.                            *)
EXTENDS MinHook

CONSTANTS
    Polled,     \* the targets MainThread's loop hooks, in its order
    Exports,    \* XAudio2Create: published after the hook is enabled
    Installs,   \* Installs[t]: the targets the detour of t hooks
    Registrar,  \* CoCreateInstance, whose detour registers for notifications
    Activate,   \* IMMDevice::Activate, through which streams open their output
    MaxPolls,   \* module_poll_timeout_ms in rounds of the loop; 0: no timeout
    Requesters  \* calls of the exported shutdown request

Main == "main"
Actors == Threads \cup {Main}
NoJob == [at |-> "none"]

ASSUME RuntimeAssumption ==
    /\ Main \notin Threads /\ "free" \notin Threads
    /\ Shielded = {}
    /\ Polled \in Seq(Targets)
    /\ Exports \subseteq Targets
    /\ Installs \in [Targets -> SUBSET Targets]
    /\ Registrar \in Targets /\ Activate \in Targets
    /\ MaxPolls \in Nat

VARIABLES
    original,   \* the pointers the detours call through
    hooked,     \* the g_hooked_... flags that are set
    job,        \* what an actor is installing, or its place in the registration
    main,       \* where MainThread is
    nth,        \* its place in Polled
    polls,      \* rounds of its loop so far
    loaded,     \* the modules of XAudio2 that are loaded
    event,      \* the shutdown event: "none", "unset", "set", "closed"
    handle,     \* g_runtime_shutdown_event is not null
    requested,  \* g_teardown_requested
    request,    \* where each call of the export is
    stream,     \* each thread's activation of a stream, or its stream
    wrapper,    \* the game has a spatial wrapper
    claimed, retained, epLock,   \* endpoint notifications
    registered, \* a callback is registered and nobody has unregistered it; an
                \* unregistration that fails is only logged, and counts as done
    inside      \* history: who was inside the patch when the hooks went

mainVars == <<main, nth, polls>>
endpointVars == <<claimed, retained, registered, epLock>>
requestVars == <<event, handle, requested, request>>
gameVars == <<stream, wrapper>>
vars == <<hookVars, original, hooked, job, mainVars, loaded, requestVars, gameVars,
          endpointVars, inside>>

Init ==
    /\ HookInit
    /\ original = [t \in Targets |-> NoSlot]
    /\ hooked = {}
    /\ job = [a \in Actors |-> NoJob]
    /\ main = "start" /\ nth = 1 /\ polls = 0
    /\ loaded = {}
    /\ event = "none" /\ handle = FALSE /\ requested = FALSE
    /\ request = [r \in Requesters |-> "idle"]
    /\ stream = [th \in Threads |-> "none"] /\ wrapper = FALSE
    /\ claimed = FALSE /\ retained = FALSE /\ registered = FALSE /\ epLock = "free"
    /\ inside = {}

Active == {th \in Threads : stream[th] \in {"counted", "opening", "live"}}

-----------------------------------------------------------------------------
(* Installing one hook: HookCoCreateInstance, HookXAudio2Export and the other   *)
(* Hook... functions differ in one thing, when they publish the original.       *)

(* What comes after an installation: MainThread goes on in its round, a detour  *)
(* returns, that of CoCreateInstance after trying to register.                  *)
Finish(a) ==
    IF a = Main
    THEN /\ nth' = nth + 1
         /\ job' = [job EXCEPT ![a] = NoJob]
         /\ UNCHANGED <<ip, main, polls>>
    ELSE /\ UNCHANGED mainVars
         /\ IF ip[a].fn = Registrar
            THEN job' = [job EXCEPT ![a] = [at |-> "register"]] /\ UNCHANGED ip
            ELSE job' = [job EXCEPT ![a] = NoJob] /\ ip' = [ip EXCEPT ![a] = Idle]

Goto(a, j) == job' = [job EXCEPT ![a] = j] /\ UNCHANGED mainVars

(* As Create, with the original left for later.                                *)
CreateUnpublished(a) ==
    /\ job[a].at = "create"
    /\ LET t == job[a].t IN
       \E st \in {"OK", "ALREADY_CREATED", "NOT_INITIALIZED", "MEMORY_ALLOC", "UNSUPPORTED_FUNCTION"} :
       \E slot \in Addresses \cup {NoSlot} :
         /\ CreateHook(t, st, slot)
         /\ Goto(a, IF st = "OK" THEN [at |-> "enable", t |-> t, slot |-> slot] ELSE [at |-> "finish"])
    /\ UNCHANGED <<original, hooked>>

Create(a) ==
    /\ job[a].at = "create"
    /\ LET t == job[a].t IN
       \E st \in {"OK", "ALREADY_CREATED", "NOT_INITIALIZED", "MEMORY_ALLOC", "UNSUPPORTED_FUNCTION"} :
       \E slot \in Addresses \cup {NoSlot} :
         IF st = "OK"
         THEN /\ CreateHook(t, st, slot)
              /\ Goto(a, [at |-> "enable", t |-> t, slot |-> slot])
              /\ original' = IF t \in Exports THEN original ELSE [original EXCEPT ![t] = slot]
         ELSE /\ CreateHook(t, st, slot) /\ UNCHANGED original
              /\ Goto(a, [at |-> "finish"])
    /\ UNCHANGED hooked

(* As Enable, with the status ignored.                                         *)
EnableUnasked(a) ==
    /\ job[a].at = "enable"
    /\ \E st \in {"OK", "ENABLED", "NOT_CREATED", "NOT_INITIALIZED", "MEMORY_ALLOC", "MEMORY_PROTECT"} :
         EnableHook(job[a].t, TRUE, st)
    /\ Goto(a, [job[a] EXCEPT !.at = "publish"])
    /\ UNCHANGED <<original, hooked>>

Enable(a) ==
    /\ job[a].at = "enable"
    /\ \E st \in {"OK", "ENABLED", "NOT_CREATED", "NOT_INITIALIZED", "MEMORY_ALLOC", "MEMORY_PROTECT"} :
         /\ EnableHook(job[a].t, TRUE, st)
         /\ Goto(a, IF st \in {"OK", "ENABLED"} THEN [job[a] EXCEPT !.at = "publish"]
                    ELSE [at |-> "finish"])
    /\ UNCHANGED <<original, hooked>>

Publish(a) ==
    /\ job[a].at = "publish"
    /\ hooked' = hooked \cup {job[a].t}
    /\ original' = IF job[a].t \in Exports THEN [original EXCEPT ![job[a].t] = job[a].slot] ELSE original
    /\ Goto(a, [at |-> "finish"])
    /\ UNCHANGED hookVars

Done(a) == /\ job[a].at = "finish"
           /\ Finish(a)
           /\ UNCHANGED <<tableVars, original, hooked>>

Install(a) == /\ Create(a) \/ Enable(a) \/ Publish(a) \/ Done(a)
              /\ UNCHANGED <<loaded, requestVars, gameVars, endpointVars, inside>>

-----------------------------------------------------------------------------
(* MainThread                                                                  *)

(* The self-reference and the event; without either the patch does nothing.     *)
MainStarts ==
    /\ main = "start"
    /\ \/ main' = "aborted" /\ UNCHANGED <<event, handle>>
       \/ main' = "initialize" /\ event' = "unset" /\ handle' = TRUE
    /\ UNCHANGED <<hookVars, original, hooked, job, nth, polls, loaded, requested, request,
                   gameVars, endpointVars, inside>>

MainInitializes ==
    /\ main = "initialize"
    /\ \E st \in {"OK", "MEMORY_ALLOC"} :
         Initialize(st) /\ main' = IF st = "OK" THEN "poll" ELSE "wait"
    /\ UNCHANGED <<original, hooked, job, nth, polls, loaded, requestVars, gameVars,
                   endpointVars, inside>>

(* One function of a round: nothing if the hook is there or the module is not.  *)
MainPolls ==
    /\ main = "poll" /\ job[Main] = NoJob /\ nth \in DOMAIN Polled
    /\ LET t == Polled[nth] IN
       IF t \in hooked \/ (t \in Exports /\ t \notin loaded)
       THEN nth' = nth + 1 /\ UNCHANGED job
       ELSE job' = [job EXCEPT ![Main] = [at |-> "create", t |-> t]] /\ UNCHANGED nth
    /\ UNCHANGED <<hookVars, original, hooked, main, polls, loaded, requestVars, gameVars,
                   endpointVars, inside>>

(* As MainRounds, with the timeout ignored.                                    *)
MainRoundsUntimed ==
    /\ main = "poll" /\ job[Main] = NoJob /\ nth = Len(Polled) + 1
    /\ nth' = 1 /\ polls' = 0
    /\ main' = IF hooked \cap Exports # {} THEN "wait" ELSE "poll"
    /\ UNCHANGED <<hookVars, original, hooked, job, loaded, requestVars, gameVars,
                   endpointVars, inside>>

(* The end of a round: the loop ends with an XAudio2 hook or its timeout.       *)
MainRounds ==
    /\ main = "poll" /\ job[Main] = NoJob /\ nth = Len(Polled) + 1
    /\ nth' = 1
    /\ polls' = IF MaxPolls = 0 THEN 0 ELSE polls + 1
    /\ main' = IF hooked \cap Exports # {} \/ (MaxPolls > 0 /\ polls + 1 >= MaxPolls)
               THEN "wait" ELSE "poll"
    /\ UNCHANGED <<hookVars, original, hooked, job, loaded, requestVars, gameVars,
                   endpointVars, inside>>

MainGoes(from, to) == main = from /\ main' = to /\ UNCHANGED <<nth, polls>>

MainWakes == /\ event = "set" /\ MainGoes("wait", "streams")
             /\ UNCHANGED <<hookVars, original, hooked, job, loaded, requestVars, gameVars,
                            endpointVars, inside>>

(* ControlledRuntimeTeardown, first: the loop over the count of streams.        *)
MainSeesNoStream ==
    /\ Active = {}
    /\ MainGoes("streams", "endpoint")
    /\ UNCHANGED <<hookVars, original, hooked, job, loaded, requestVars, gameVars,
                   endpointVars, inside>>

(* UnregisterEndpointNotifications: the ownership is taken under the lock, the  *)
(* call is made after it.                                                      *)
MainTakesEndpoint ==
    /\ epLock = "free"
    /\ MainGoes("endpoint", IF retained THEN "unregister" ELSE "disable")
    /\ retained' = FALSE /\ claimed' = FALSE
    /\ UNCHANGED <<hookVars, original, hooked, job, loaded, requestVars, gameVars, registered,
                   epLock, inside>>

MainUnregisters ==
    /\ MainGoes("unregister", "disable")
    /\ registered' = FALSE
    /\ UNCHANGED <<hookVars, original, hooked, job, loaded, requestVars, gameVars, claimed,
                   retained, epLock, inside>>

MainDisables ==
    /\ MainGoes("disable", "uninitialize")
    /\ \E st \in {"OK", "NOT_INITIALIZED", "MEMORY_ALLOC", "MEMORY_PROTECT"} : EnableAllHooks(FALSE, st)
    /\ UNCHANGED <<original, hooked, job, loaded, requestVars, gameVars, endpointVars, inside>>

MainUninitializes ==
    /\ MainGoes("uninitialize", "close")
    /\ \E st \in {"OK", "NOT_INITIALIZED", "MEMORY_ALLOC", "MEMORY_PROTECT"} : Uninitialize(st)
    /\ inside' = {th \in Threads : ip[th] # Idle \/ stream[th] # "none"}
    /\ UNCHANGED <<original, hooked, job, loaded, requestVars, gameVars, endpointVars>>

(* After the logger has stopped: the pointer is exchanged, then the handle      *)
(* closed.                                                                     *)
MainTakesEvent ==
    /\ MainGoes("close", "closing")
    /\ handle' = FALSE
    /\ UNCHANGED <<hookVars, original, hooked, job, loaded, event, requested, request, gameVars,
                   endpointVars, inside>>

MainExits ==
    /\ MainGoes("closing", "exited")
    /\ event' = "closed"
    /\ UNCHANGED <<hookVars, original, hooked, job, loaded, handle, requested, request, gameVars,
                   endpointVars, inside>>

MainStep == \/ MainStarts \/ MainInitializes \/ MainPolls \/ MainRounds \/ MainWakes
            \/ MainSeesNoStream \/ MainTakesEndpoint \/ MainUnregisters \/ MainDisables
            \/ MainUninitializes \/ MainTakesEvent \/ MainExits \/ Install(Main)

-----------------------------------------------------------------------------
(* RequestMetaphorCompleteAudioPatchDiagnosticShutdown                          *)

RequestStep(r) ==
    /\ \/ /\ request[r] = "idle"
          /\ request' = [request EXCEPT ![r] = IF handle THEN "loaded" ELSE "refused"]
          /\ UNCHANGED <<event, requested>>
       \/ /\ request[r] = "loaded"
          /\ requested' = TRUE
          /\ request' = [request EXCEPT ![r] = "signal"]
          /\ UNCHANGED event
       \/ /\ request[r] = "signal"
          /\ event' = IF event = "closed" THEN "closed" ELSE "set"
          /\ request' = [request EXCEPT ![r] = IF event = "closed" THEN "stale" ELSE "accepted"]
          /\ UNCHANGED requested
    /\ UNCHANGED <<hookVars, original, hooked, job, mainVars, loaded, handle, gameVars,
                   endpointVars, inside>>

-----------------------------------------------------------------------------
(* Game threads                                                                *)

Entering(t) == Place("detour", t, 0, NoSlot, "program")

(* A call of a function that is hooked; what unhooked functions do is not the   *)
(* patch's. A thread inside an activation does not call others.                 *)
GameCalls(th, t) ==
    /\ ip[th] = Idle /\ stream[th] \in {"none", "live"}
    /\ patched[t] # NoSlot
    /\ ip' = [ip EXCEPT ![th] = Entering(t)]
    /\ UNCHANGED <<tableVars, original, hooked, job, mainVars, loaded, requestVars, gameVars,
                   endpointVars, inside>>

(* From the detour through the trampoline and back, or back at once where the   *)
(* detour refuses the call. MinHook's places without the boundaries in between: *)
(* a thread the library has moved to the target starts that anew.               *)
RunsTo(p) ==
    CASE p.at = "detour" -> NextPlace(p, original[p.fn])
      [] p.at = "tramp" -> {IF Live(p.slot, p.fn) THEN Returned(p) ELSE Lost(p)}
      [] p.at = "target" -> {IF patched[p.fn] = NoSlot THEN Returned(p)
                             ELSE Place("detour", p.fn, 0, NoSlot, p.ret)}
      [] OTHER -> {}

GameRuns(th) ==
    /\ ip[th] # Idle
    /\ \E p \in RunsTo(ip[th]) : ip' = [ip EXCEPT ![th] = p]
    /\ UNCHANGED <<tableVars, original, hooked, job, mainVars, loaded, requestVars, gameVars,
                   endpointVars, inside>>

(* The second half of a detour: what it got may lead to further hooks.          *)
GameFollowsUp(th) ==
    /\ ip[th] # Idle /\ ip[th].at = "after" /\ job[th] = NoJob
    /\ \/ job' = [job EXCEPT ![th] = [at |-> "finish"]]
       \/ \E t \in Installs[ip[th].fn] \ hooked : job' = [job EXCEPT ![th] = [at |-> "create", t |-> t]]
    /\ wrapper' = (wrapper \/ ip[th].fn = Activate)
    /\ UNCHANGED <<hookVars, original, hooked, mainVars, loaded, requestVars, stream,
                   endpointVars, inside>>

GameLeaves(th) == job' = [job EXCEPT ![th] = NoJob] /\ ip' = [ip EXCEPT ![th] = Idle]

(* RegisterEndpointNotificationsFromReturnedInterface after its hooks: the flag *)
(* is read before the lock and again under it.                                  *)
RegisterChecks(th) ==
    /\ job[th].at = "register"
    /\ IF requested THEN GameLeaves(th)
       ELSE job' = [job EXCEPT ![th] = [at |-> "lock"]] /\ UNCHANGED ip
    /\ UNCHANGED endpointVars

(* As RegisterClaims, with the flag not read again.                            *)
RegisterClaimsUnchecked(th) ==
    /\ job[th].at = "lock" /\ epLock = "free"
    /\ IF claimed
       THEN GameLeaves(th) /\ UNCHANGED endpointVars
       ELSE /\ epLock' = th /\ claimed' = TRUE
            /\ job' = [job EXCEPT ![th] = [at |-> "call"]]
            /\ UNCHANGED <<ip, retained, registered>>

RegisterClaims(th) ==
    /\ job[th].at = "lock" /\ epLock = "free"
    /\ IF claimed \/ requested
       THEN GameLeaves(th) /\ UNCHANGED endpointVars
       ELSE /\ epLock' = th /\ claimed' = TRUE
            /\ job' = [job EXCEPT ![th] = [at |-> "call"]]
            /\ UNCHANGED <<ip, retained, registered>>

RegisterCalls(th) ==
    /\ job[th].at = "call"
    /\ \/ registered' = TRUE /\ job' = [job EXCEPT ![th] = [at |-> "retain"]] /\ UNCHANGED <<claimed, epLock, ip>>
       \/ claimed' = FALSE /\ epLock' = "free" /\ GameLeaves(th) /\ UNCHANGED registered
    /\ UNCHANGED retained

RegisterRetains(th) ==
    /\ job[th].at = "retain"
    /\ retained' = TRUE /\ epLock' = "free"
    /\ GameLeaves(th)
    /\ UNCHANGED <<claimed, registered>>

GameRegisters(th) ==
    /\ RegisterChecks(th) \/ RegisterClaims(th) \/ RegisterCalls(th) \/ RegisterRetains(th)
    /\ UNCHANGED <<tableVars, original, hooked, mainVars, loaded, requestVars, gameVars, inside>>

(* As ActivateChecks, without the check.                                       *)
ActivateUnchecked(th) ==
    /\ wrapper /\ stream[th] = "none"
    /\ stream' = [stream EXCEPT ![th] = "checked"]
    /\ UNCHANGED ip

(* SpatialAudioWrapper::ActivateSpatialAudioStream: the flag, then the stream's *)
(* constructor that counts it, then ActivateOutput, which calls the original    *)
(* IMMDevice::Activate and may fail; and the stream's destructor.               *)
ActivateChecks(th) ==
    /\ wrapper /\ stream[th] = "none"
    /\ stream' = [stream EXCEPT ![th] = IF requested THEN "none" ELSE "checked"]
    /\ UNCHANGED ip

ActivateCounts(th) ==
    /\ stream[th] = "checked"
    /\ stream' = [stream EXCEPT ![th] = "counted"]
    /\ UNCHANGED ip

ActivateOpens(th) ==
    /\ stream[th] = "counted"
    /\ IF original[Activate] = NoSlot
       THEN stream' = [stream EXCEPT ![th] = "none"] /\ UNCHANGED ip
       ELSE /\ stream' = [stream EXCEPT ![th] = "opening"]
            /\ ip' = [ip EXCEPT ![th] = Place("tramp", Activate, 0, original[Activate], "program")]

ActivateReturns(th) ==
    /\ stream[th] = "opening"
    /\ \E s \in {"live", "none"} : stream' = [stream EXCEPT ![th] = s]
    /\ UNCHANGED ip

StreamDestroyed(th) ==
    /\ stream[th] = "live"
    /\ stream' = [stream EXCEPT ![th] = "none"]
    /\ UNCHANGED ip

GameStreams(th) ==
    /\ ip[th] = Idle
    /\ \/ ActivateChecks(th) \/ ActivateCounts(th) \/ ActivateOpens(th)
       \/ ActivateReturns(th) \/ StreamDestroyed(th)
    /\ UNCHANGED <<tableVars, original, hooked, job, mainVars, loaded, requestVars, wrapper,
                   endpointVars, inside>>

GameLoads(t) ==
    /\ t \notin loaded /\ loaded' = loaded \cup {t}
    /\ UNCHANGED <<hookVars, original, hooked, job, mainVars, requestVars, gameVars,
                   endpointVars, inside>>

(* The steps a thread makes without the game's doing once it is inside.         *)
InPatch(th) == \/ /\ ip[th] # Idle
                  /\ GameRuns(th) \/ GameFollowsUp(th) \/ GameRegisters(th) \/ Install(th)
               \/ (stream[th] \in {"checked", "counted", "opening"} /\ GameStreams(th))

GameStep(th) == \/ \E t \in Targets : GameCalls(th, t)
                \/ InPatch(th) \/ GameStreams(th)

Next == \/ MainStep
        \/ \E r \in Requesters : RequestStep(r)
        \/ \E t \in Exports : GameLoads(t)
        \/ \E th \in Threads : GameStep(th)

Spec == Init /\ [][Next]_vars

(* MainThread runs, and a thread inside the patch or a hooked function goes on; *)
(* whether the game calls, loads, or releases a stream is its own affair.       *)
FairSpec == /\ Spec
            /\ WF_<<mainVars, job[Main]>>(MainStep)
            /\ \A th \in Threads : WF_<<ip[th], job[th], stream[th]>>(InPatch(th))
            /\ \A r \in Requesters : WF_request(request[r] # "idle" /\ RequestStep(r))

-----------------------------------------------------------------------------
(* Properties                                                                  *)

RuntimeTypeOK ==
    /\ HookTypeOK
    /\ original \in [Targets -> Addresses \cup {NoSlot}]
    /\ hooked \subseteq Targets
    /\ main \in {"start", "aborted", "initialize", "poll", "wait", "streams", "endpoint", "unregister",
                 "disable", "uninitialize", "close", "closing", "exited"}
    /\ nth \in 1 .. Len(Polled) + 1 /\ polls \in Nat
    /\ event \in {"none", "unset", "set", "closed"} /\ handle \in BOOLEAN /\ requested \in BOOLEAN
    /\ request \in [Requesters -> {"idle", "loaded", "signal", "accepted", "refused", "stale"}]
    /\ stream \in [Threads -> {"none", "checked", "counted", "opening", "live"}]
    /\ epLock \in Threads \cup {"free"}

(* While the patch is installed a thread that runs through a hook comes back:   *)
(* detours find their original published, trampolines stay. The one exception   *)
(* in the code is XAudio2Create, whose hook is enabled before g_xaudio2_create_ *)
(* is set (dllmain.cpp:508).                                                    *)
HookedCallsSafe ==
    \A th \in Threads :
        /\ ip[th].at = "null" => ip[th].fn \in Exports
        /\ ip[th].at = "lost" => ~heap

(* A thread that ends in freed trampoline code was inside the patch when        *)
(* MH_Uninitialize ran: in a hooked call, or in an activation that had passed   *)
(* the check of g_teardown_requested. Nothing that begins later gets there, and *)
(* no stream is made later either (ControlledRuntimeTeardown).                  *)
LossesWereInside ==
    main \in {"close", "closing", "exited"} =>
        \A th \in Threads :
            ip[th].at = "lost" \/ stream[th] # "none" => th \in inside

(* A registration never outlives the reference that owns it, and the teardown   *)
(* leaves none behind, however a late registration interleaves with it.         *)
RegistrationOwned ==
    /\ registered => \/ retained
                     \/ main = "unregister"
                     \/ \E th \in Threads : epLock = th /\ job[th].at = "retain"
    /\ main \in {"disable", "uninitialize", "close", "closing", "exited"} =>
           ~registered /\ ~retained /\ epLock = "free"

(* A flag g_hooked_... is set only for a hook that works: enabled, with its     *)
(* original published, until the teardown disables it.                          *)
FlagsTruthful ==
    main \notin {"uninitialize", "close", "closing", "exited"} =>
        \A t \in hooked : patched[t] # NoSlot /\ original[t] = patched[t]

(* A request that meets a closed event is not the first: another one was        *)
(* accepted and has been carried out.                                           *)
StaleRequestIsLate ==
    event = "closed" => \E r \in Requesters : request[r] = "accepted"

(* An accepted shutdown request is carried out if the game lets go of its       *)
(* streams, whatever else it does: it is not left unserved for good with no     *)
(* stream there (MainThread, ControlledRuntimeTeardown).                        *)
RequestServed ==
    \A r \in Requesters : []<>(request[r] = "accepted" => main = "exited" \/ Active # {})
=============================================================================

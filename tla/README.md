# Verification of the Metaphor: ReFantazio Complete Audio Patch

The patch is an ASI plugin that gives the game a spatial-audio endpoint of its
own: it answers the activation of `ISpatialAudioClient` with a wrapper, mixes the
game's spatial objects to stereo, and writes them to an ordinary WASAPI render
client. On Wine that client sometimes refuses a buffer that should fit
(`AUDCLNT_E_BUFFER_TOO_LARGE`); most of the patch's own logic deals with that
failure, and with observing it without disturbing the audio threads.

This directory holds TLA+ modules translated from that code, the TLC
configurations that check them on small instances, and proofs, checked by TLAPS,
for instances of any size. Paths are relative to the repository.

## 1. Inventory

| component | state it keeps | operations | shares with |
|---|---|---|---|
| Recovery coordinator, `src/buffer_recovery.hpp` | gate, array of 100 timestamps, injection latch | `ShouldInject`, `Acquire` | the stream's lock and started flag, the client |
| Render client and its adapter, `AudioClientRecoveryBackend` in `src/dllmain.cpp` | WASAPI's queue, running or not, the buffer handed out; `started_` | GetBuffer, ReleaseBuffer, GetCurrentPadding, Start, Stop, Reset | the audio engine, which plays at any time |
| `SpatialRenderStream`, `src/dllmain.cpp` | `lock_`, `recovery_in_progress_`, `update_frames_`, counters, the list of objects, activity stamps | Start, Stop, Reset, Begin/EndUpdatingAudioObjects, ActivateSpatialAudioObject | game threads, watchdog, objects |
| `SpatialRenderObject` | its sample buffer, a reference to the stream, counts | GetBuffer, SetEndOfStream, SetPosition, SetVolume, Release | the stream's lock |
| Watchdog and `StallDetector` | monitor state, its stop event, detector state | `StartWatchdog`, `WatchdogLoop`, `Observe`, `StopWatchdog` | stamps of the stream, `TryEnterCriticalSection` on `lock_` |
| Logger, `src/log.cpp` | two SRW locks, ring of records, three flags, event, thread, file | `Init`, `Enqueue`, `WriterThread`, `Shutdown` | every other thread |
| Log rotation, `src/log.cpp` | the files on disk | `RotateFiles`, `OpenLogFile` | the writer only |
| Bootstrap and teardown, `src/dllmain.cpp` | the teardown flags, the count of streams, the shutdown event, hooks | `MainThread`, `ControlledRuntimeTeardown`, the shutdown export | game threads in hooks and activations |
| Hooks, `src/dllmain.cpp` | trampolines, original function pointers | installation; the hooked functions | loader, COM |
| Endpoint notifications | the registration and its lock | register, unregister, callbacks | teardown |
| Configuration, `src/config.cpp` | the settings, read once | `Load` | the runtime thread |
| Installer, `src/installer` | the game's folder, the bottle's registry | install, migrate the settings, uninstall | the settings file, which `Load` reads |
| MinHook, `src/external-minhook` | table of hooks, blocks of trampolines, the patched bytes | initialize, create, enable, disable, queue, remove | every thread that runs through hooked code |

What is hard here: several game threads, the watchdog, the log writer and the
runtime thread run together; a client call can fail at each of eight places of one
pass; the engine empties the queue between any two of them; a client call may call
back on the same thread, which a recursive critical section lets in; the breaker
compares unsigned times at exact distances; the shutdown must join a thread that
may be late while producers keep logging. `PROJECT.json` lists these hazards at
their lines.

What makes each component correct:

- *coordinator*: one recovery at a time, and the gate is given back on every path;
  a buffer handed out is never lost; the limit and the cooldown hold over the whole
  history although only a pruned array is kept; the outcome says what happened;
- *stream*: ReleaseBuffer gets exactly what GetBuffer gave; nobody interferes with a
  recovery; `started_` is the client's state; a Stop that met a recovery wins; every
  Begin leaves the lock, and on a healthy device gets its buffer;
- *logger*: no handle is closed under a user or left behind; records are never reordered; what
  was dropped is counted once until the writer takes the count; shutdown and initialisation return;
- *watchdog*: what it reports is what the observations deserve, whatever was skipped,
  stopped or reset in between; a report of starvation has an explanation;
- *bootstrap and teardown*: a hook is used only with its original published; a thread that
  comes after the teardown never reaches freed code; no registration is left behind; an
  accepted request is carried out;
- *MinHook*: memory says what the table says, slots and blocks are accounted for, and
  the threads it can suspend are moved out of what is overwritten, over calls that fail half-way;
- *objects*: counts are exact, nobody runs in freed memory, the watchdog included, what is
  released goes;
- *rotation*: records stay in order and none is lost but the oldest, over failures
  and restarts;
- *installer, settings*: the user's settings survive, a reported success is true, and the
  migration changes nothing the loader reads but the setting it is for. Section 4 says where the
  code falls short of this.

## 2. Modules

| module | models | builds on |
|---|---|---|
| `AudioClient` | the external render client: per call, the set of its answers | |
| `BufferRecovery` | `Coordinator::Acquire` with its backend, for any set of threads | `AudioClient` |
| `CircuitBreaker` | what the breaker promises, over the whole history of starts | |
| `SpatialStream` | the five methods of the stream that use the client | `BufferRecovery` |
| `Logger` | `Init`, `Enqueue`, `WriterThread`, `Shutdown` | |
| `StallDetector` | `StallDetector::Observe` as a function, and its verdict over a series of observations | |
| `Watchdog` | the poll, the stamps of the passes | `StallDetector` |
| `MinHook` | MinHook's table, blocks and patching, and the threads in hooked code | |
| `Runtime` | bootstrap, hook installation, endpoint registration, activations, the shutdown request, the teardown | `MinHook` |
| `SpatialObjects` | wrapper, stream, its watchdog's thread and objects: counts, lock, construction and destruction | |
| `LogRotation` | the writer's files | |
| `Settings` | `LoadConfig` and the migration, as functions of a file | |
| `Installer` | one run of the installer after another | `Settings` |
| `MC...` | small instances of each | |
| `BufferRecoveryProofs` | theorems about `BufferRecovery`, and that it implements `CircuitBreaker` | |
| `SpatialObjectsProofs` | theorems about `SpatialObjects` | |
| `RuntimeProofs` | theorems about `Runtime` | |
| `LoggerProofs` | theorems about `Logger` | |
| `SpatialStreamProofs` | theorems about `SpatialStream` | `BufferRecoveryProofs` |
| `WatchdogProofs` | theorems about `Watchdog` and the detector in it | |
| `MinHookProofs` | theorems about a program that uses MinHook (`MCMinHook`) | |
| `FilesProofs` | theorems about `Settings`, `Installer` and `LogRotation` | |

### AudioClient

A client is a record of whether its endpoint is there, whether it runs, how many
frames are queued and how many are handed out. A call is the *set* of answers it may
give; `Faults` says which misbehaviour the set includes: a TOO_LARGE for a request
that fits, a call that fails and does nothing, a padding above the capacity, a lost
endpoint. HRESULTs are classed as the patch classes them: success, TOO_LARGE, other.
The answers that are not faults follow WASAPI's rules, of which the patch depends on
two: Reset and Start want a stopped client, and one buffer is out at a time.

### BufferRecovery

A thread's `pc` is its position in `Acquire`; each action is one call into the
client or one step on shared state (the test-and-set of the gate, the reading of the
clock with the pruning, the clearing of the gate), so the other threads, the engine
and the clock run in between. `recovery_timestamps_` is the set of numbers of the
recoveries whose times the array still holds; `starts` is the history of all times,
so entry `i` of the history is what the array would hold. `outcome` keeps the fields
the caller and the tests tell apart; the copies of HRESULTs that only the log reads,
and elapsed times, are left out. A padding that is not consistent gives no retry
frames, as in the code, where `available_frames` stays 0.

The coordinator is modelled without the stream's lock here: it has a gate of its own,
and its properties hold for threads that meet in it. `SpatialStream` adds the lock.

### SpatialStream

A game thread asks for a method (`Request`), enters the lock, and leaves. Start, Stop,
Reset and End hold the lock over at most one client call, so they are one action: the client
call, and the store of `started_` or `update_frames_` that follows it. What lies between the two
could only be seen by a call of the same thread, from within the game's own Start, Stop,
Reset or ReleaseBuffer. Such a callback is not modelled, and the properties say nothing of it; the code
does not guard against it either, for it marks recoveries only (`recovery_in_progress_`).
Begin is split around `Acquire`, whose steps are those of `BufferRecovery`. `Nested`
is a client call that calls back on the thread that holds the lock: it may enter any
method at each client call of `Acquire`. `update_frames_` is 0 where the code has ~0u. The
activity stamps and counters are left out: only the watchdog and the log read them.
`OtherStreamInjects` is another stream of the process reaching its injection.

### Logger

Producers, the writer and one coordinator. An action is what a thread does between
two points where another can tell. `SRWLOCK`s are a holder or a set of holders;
`TryAcquireSRWLockShared` may fail while an exclusive acquisition waits. The writer's
wait ends on the event or after its 250 ms timeout, so `Wake` needs no signal.
`enabled` is one set for three flags: they are stored one by one, but a producer
that sees a mixture reads them again inside the gate, where they are settled.
Formatting, timestamps and levels are left out, and of the files only `WriteEntry`'s
answer is here: the line is written, or it is gone, because no file could be opened or the
write was refused. A warning of drops is such a line too, and its count has been taken out of `dropped`
before: `reported` has the drops whose warning was written, `unreported` those whose
warning is gone. `LogRotation` has the rest.

### StallDetector and Watchdog

`Observe` is a pure function of the detector's record and one observation. `Deserved` is
the same verdict read off the whole series of observations that show one position:
"active at some observation of the series" stands for the latch, the first observation
for the fields kept at the last progress. What a transition reports (once, or "cleared")
follows from the condition before and after, and is not kept.

`Watchdog` runs it beside the threads that make passes (`Passers`; any of them may end a pass that
is `open`, whichever began it) and one that calls Start, Stop and Reset. The watchdog's steps are
the reads of shared state in the order of the loop: the clock, then the lock it only tries, then
`started_`, the two stamps and the count, each for itself. The other threads' steps are their
stores in order: in Begin the forgetting of both stamps after a reset and then the stamp, in End
the stamps after the lock has been left. What happens under `lock_` and shows in none of these is
one step with the entry. A stamp's clock is read in an earlier step than it is stored. When the
measurement has failed or the stream is stopped the detector resets whatever the stamps are, so
they are not loaded. The audio clock is the device's, which starts again after a reset:
`GetPosition` may report any position. `latest`, the newest time stored as a stamp whether or not
it was forgotten, `overtaken`, that the stamp stored last is older, and `series` are history. How
the watchdog's thread ends is in `SpatialObjects`.

### MinHook

A call of the API holds MinHook's spin lock and has the other threads suspended around its writes,
so a call is one action; `st` is the status it returns, and the calls into the system that may
fail are named by `MayFail`. What is kept of machine code is where it leads: `patched[t]` is the
original bytes or a jump to a slot. A thread's place is what `FindOldIP` and `FindNewIP` tell
apart: the instruction boundaries of the overwritten area, the jump above a short function
(`Above`, `patchAbove`), the relay and the boundaries of the trampoline, and the detour. The
instruction it stands at may have been replaced or freed: it is then `lost`. `Freeze` passes over
a thread it cannot open, suspend or read; `Shielded` are the threads this may happen to, any of
them at any time. `Runtime` assumes there are none: game threads in their own process. The CPU is
external; it runs what the bytes say. Building the trampoline (`trampoline.c` and the decoders)
succeeds or not.

### Runtime

The coordinator's `main` is its place in `MainThread` and then in
`ControlledRuntimeTeardown`. An actor that installs a hook (`job`) creates it, enables it and
publishes the original, with every other thread running in between; `HookXAudio2Export`
publishes after enabling (`Exports`), the others have MinHook fill in the pointer. One
target stands for a chain of hooks that the code installs from one another in the same
way: `Installs` says which detour installs which. The places of game threads are MinHook's, in coarser
steps: detour, trampoline, and what follows the call of the original. `stream` is a
thread's activation: `checked` is past the test of `g_teardown_requested`, `counted` past the
constructor. `inside` records who was in a detour or an activation when the hooks were
removed. The polls are counted in place of milliseconds; `MaxPolls` 0 is no timeout.
`Log::Shutdown` inside the teardown is left to `Logger`: it always returns there
(`CallsReturn`), and the teardown repeats it until it has.

### SpatialObjects

The game follows COM: a thread calls what it holds a reference of (`wrapperOf`, `streamOf`,
`objectOf`), may give another thread one, and may release in any order. A method that takes the
stream's lock and walks over memory others could free is two steps, entry and exit; the rest is
one. The stream's destructor runs on the thread whose `Release` was last, which may be inside an
object's destructor itself (`call[th].obj`): it sets the watchdog's event, waits for the thread,
stops the client, empties the list, and gives back what the stream has `taken`, one release after
the other in the code's order (`Turn`). The watchdog is a thread of its own without a reference:
it tries the lock (`Poller`), reads the client and the clock, looks at the stream, and ends where
its wait finds the event set. `memory` says of each object's memory whether it is allocated, and
how far its destructor has got.

### LogRotation, Settings, Installer

`LogRotation` has a system call a step. A record is its number and its size. `Settings` is two
pure functions of a file's lines, one for each parser. Blanks both parsers trim are off; `pad`
says where a line has others (a second carriage return, a form feed, a vertical tab), which
`LoadConfig` trims and the migration does not: around a header's brackets, so that it is no
header, within them, so that the section is another, or beside a key or value. `Installer` runs
again and again on the same folder; a run is a sequence of calls, each of which may fail, and may
be cut off anywhere. A file is `absent`, the package's (`ours`), somebody else's, or `torn` by a
copy that was cut off. The settings file is its lines, so that what the patch would load from it
can be asked. A temporary file's name stays taken if the run ends before it is renamed; `Attempts`
stands for the 100 names that are tried. `IsRegularFile` discards its error and says that a file
is not there; `missed` are the files it said so of in the present run although they were.

## 3. What is checked

`MaxTime`, `MaxCycles`, `MaxRecords`, `MaxSessions`, `MaxPosition`, `MaxPasses`, `Attempts`, and
`MaxRecords` again in `LogRotation`, are the bounds; each is a
constant used in a guard (or, for `MaxCycles`, where the counter stops growing).

| run | what it shows |
|---|---|
| `recovery_faults` | with two threads and every fault: types, the gate's discipline, no lost buffer, truthful outcomes |
| `recovery_breaker` | breakers with limits below, at and above the capacity: `Acquire` implements `CircuitBreaker`, and refuses only what it refuses |
| `stream_faults` | two game threads, every fault, nested calls, injection, for the five safety properties of the stream |
| `stream_healthy` | a device without faults: a pass fails only for its configuration or the breaker, and Begin ends |
| `logger_safety` | two producers, two records each, queue of two: contention, drops and order |
| `logger_sessions` | two sessions and every failure: categories, handles, the counts of drops; Init and Shutdown return, records reach the writer |
| `logger_drain` | a record can stay behind a successful Shutdown (finding) |
| `watchdog_polls` | two threads' passes, one of which may stamp over the other's newer stamp: the detector against `Deserved` under every interleaving, starvation explained |
| `minhook_calls` | the table, the blocks, the bytes and a running thread over any calls of the API, each of which may fail |
| `runtime_teardown` | two game threads, the coordinator and a request: what a late thread meets, who owns the registration, that the request is served |
| `objects_lifetime` | two threads, two objects, the watchdog: exact counts, no use of freed memory, what is released goes |
| `files` | migration of every file of up to three lines, blanks included; repeated, failing and cut-off installations; rotation with failing calls |

**Bounds.** Two threads are enough for the gate and for the lock, which know "held by me", "held
by another" and "free"; the proofs remove this bound, and those of the other modules but the
files, for the properties they are about. Capacity 3 or 4 with period 2 or 3 has a request that
fits, one that fits shortened, and one that does not fit at all. The breaker's array has 3 entries
in place of 100 so that a limit of 4 is above it, and the clock runs to two windows, so recoveries
leave the window at exactly, before and after its end; one breaker has a cooldown longer than its
window. Two records per producer show a reordering (`logger_safety`), and a queue of one or two is
full. Two sessions suffice for a producer that carries a decision of one session into the next.
The watchdog's clock has four ticks with a timeout of two and
windows of one: a position can stand for the timeout, activity can lapse before it and come
back after it, and one poll more can clear the report. One pass that gets a buffer, beside
any number that fail, gives the detector a count that grows. With two threads one can be between its
clock and its stamp while the other stores a newer one; without the overtaken stamp
`StarvationExplained` is violated in `watchdog_polls`.
`maximum_attempts_per_failure` is 1 in every run because `config.cpp` stores nothing else; the
proofs cover every value.

MinHook has two targets, one of them with its jump above, which share blocks
of two slots, so that a slot is reused, a block is emptied, and the table's last entry moves. One thread
suffices, since threads only meet in the table, which one API call at a time
changes. A second thread, that may be passed over by `Freeze`, is in `MinHook_shielded.cfg`,
a configuration beside the runs: `MovedProperly` holds there with blocks of one slot and calls that do
not fail. It is proved of any threads, slots and failures.
The runtime has CoCreateInstance, one XAudio2 export and IMMDevice::Activate, which
are the three ways a hook is reached: from the loop always, from the loop once its module
is loaded, and from another detour; each is in a block of its own, as system modules are.
Two game threads make one that is late beside one that registers or activates.
Two objects of two types let one be activated while the other is destroyed. A log of four files
and seven records rotates more than once at each number. Files of three lines have a header, a
setting and a line before, between or after them.

**Fairness.** `StreamFairSpec`: weak fairness of a thread's steps inside
`BeginUpdatingAudioObjects`, which is a running thread under the system's scheduler whose client
calls return; no game thread has to call anything. `Logger!FairSpec`: weak fairness of each
producer inside `Enqueue`, of the writer, and of the coordinator inside Init and Shutdown. Weak
fairness suffices for the exclusive acquisition of the gate since a producer that comes while the
coordinator waits finds the flags off and turns back, which is how the code keeps it from
starving. Nothing is assumed of the join's timeout or of the number of messages.
`Runtime!FairSpec`: weak fairness of the coordinator, of each call of the export that has begun,
and of a thread inside a detour or an activation; whether the game calls, releases its streams or
loads a module is its own affair, and `RequestServed` assumes only that the game's streams go,
which is what the teardown waits for. `SpatialObjects!FairSpec`: weak fairness of a call that has
begun. Calls that wait for the lock before they begin are not assumed to get it, but a
destructor's `RemoveObject` is such a call in the middle. It has strong fairness: a thread that
finds the lock free time and again gets it. With the last references being given up only the
watchdog competes for it, which tries it once after each wait of at least 50 ms (`config.cpp:197`)
and holds it over two or three queries. The watchdog's steps have weak fairness but for
`WatchdogPolls`: it need not poll, and does end once its event is set.

**Deadlock** is checked in every run but those of systems that really stop: a clock at its bound
(`Watchdog`), a process whose threads are lost or whose coordinator has exited (`MinHook`,
`Runtime`), a game that has released everything (`SpatialObjects`), and a settings file that is only read
(`files`).

**Mutants.** An operator named after a definition with a suffix (`BreakerOpenTooLate`,
`SignalStopUnset`) is that definition with a plausible bug. No specification uses it;
`PROJECT.json` pairs each checked property with a mutant that breaks it.

## 4. Findings

*Drain* (`logger_drain`). The writer finds the queue empty, a producer that was already
inside the gate pushes a record, Shutdown sets `stopping`, the writer reads it
and ends. The record stays in the ring; a later session would write it.
`docs/ARCHITECTURE.md:19` says that Shutdown drains the writer.

Five more disagreements have a definition and a configuration here, but no place among the
runs. `tlc -config <cfg> <module>` shows each:

| configuration | module | property | what it shows |
|---|---|---|---|
| `BufferRecovery_cooldown.cfg` | `MCBufferRecovery` | `CooldownRespected` | The array forgets a start once the window is over, and the cooldown with it. `config.cpp` clamps window and cooldown separately, so a window of 1 s with a cooldown of 60 s is legal and gives a cooldown of 1 s. `SpacingRespected` is what is kept. |
| `SpatialStream_stop.cfg` | `MCSpatialStream` | `StopAuthoritative` | A full buffer starts the client whether or not the game had started it: a Begin after a successful Stop can leave it running. `StopSupersedesRecovery` does hold: a Stop that waited for a recovery has the last word until the game starts the stream or a later recovery begins. |
| `Watchdog_starvation.cfg` | `MCWatchdog` | `StarvationGenuine` | A pass that stamps between the poll's reading of its clock and its load of the stamp leaves a stamp newer than that clock; `IsRecent` takes it for "not recent", so a stream that stands while its passes go on is reported as starved. With two threads the end of a pass may also store its stamp, outside the lock, over the other's newer one. `StarvationExplained` says that a report which is not genuine is due to one of these two. |
| `Files_blanks.cfg` | `MCFiles` | `RecoveryEnabled` | An older release's settings disable the fallback in a line with blanks that only `LoadConfig` trims (`config.cpp:6`), as a second carriage return. The migration (`ini_migration.cpp:8-11`, 74) does not see the header, or the false value, and changes nothing; the installer says the settings "already use the current recovery behavior" (`installer.cpp:556`), and the patch loads the fallback disabled. `README.md:50-52` says the installer enables it. |
| `Files_unseen.cfg` | `MCFiles` | `ExistingIniKept` | `existing_ini` is what `IsRegularFile` says, which takes any error for no (`installer.cpp:76-80`, 529). If the query fails, the package's settings are copied over the user's and the installation succeeds. `README.md:46` says it preserves them. |

What the properties had to except, because the code does so:

- `HookedCallsSafe`: XAudio2Create is enabled before its original is published
  (`dllmain.cpp:508`), so a call in between goes through a null pointer.
- `LossesWereInside`: the teardown waits for streams and not for threads in detours. A thread
  that was in one when `MH_Uninitialize` ran returns into freed memory. The property says that this is
  the only way.
- `RequestServed` holds for a finite poll timeout. With `ModulePollTimeoutMs` 0, to which
  negative values are clamped, the loop ends only with an XAudio2 hook and a request
  waits for that.
- `RecordsAccounted`: the writer takes the count of drops (`log.cpp:169`) before it writes the
  warning, and `WriteEntry` returns without a word when no file can be opened (119-121, 147-149).
  Those drops are reported nowhere; the property counts them as `unreported`.
- `MovedProperly`: a thread that cannot be opened, suspended or read is not moved
  (`hook.c:344-361`), and the property is about the others. Threads are moved before
  `VirtualProtect` is asked and not moved back if it refuses. And `EnableHook` tells `Freeze` to
  move threads as for `ACTION_ENABLE` when it disables one hook (`hook.c:742`), so none is moved:
  with `SingleDisable = TRUE` in `MinHook_calls.cfg` a thread in the jump above the function is
  lost, against `hook.c:201-202`. The patch never disables a single hook.
- `ExitTruthful`: a settings file torn by a copy that was cut off counts as the user's at the next
  run; a file with blanks the two parsers trim differently may keep its fallback disabled; a file that
  was not seen is not removed, and "Uninstall completed" all the same (`installer.cpp:568`).
- `MigrationsSound` asks for the enabled fallback of files both parsers trim alike (`Plain`); of the
  others, that nothing else changes and nothing is disabled.
- `SettingsPreserved`: but by a run that did not see them.
- `LogKept`: after a rename or deletion failed the active log grows past its limit.

## 5. What is proved

The theorems hold for every set of threads, capacity, period, fault set and set of configurations.
The assumptions are the named ones of the modules: capacity and period are positive, `NoThread` is
no thread, the configurations are of type `Config`, the runtime's polled and installed functions
are among the targets, the blocks in reach of a target are blocks, the watchdog's bound on time
and its stall timeout are positive, settings files are sequences of lines, the settings file of
the package loads the fallback enabled (`MetaphorCompleteAudioPatch.ini:44`), a record fits into a
log file (`config.cpp` allows no limit below a megabyte). No passing thread has the name of a
holder of the lock that is none, `Shielded` threads are threads and the runtime has none, and the
watchdog is no game thread. `HealthyPassesSucceed` and `ThreadsMovedProperly` have a hypothesis of
their own.

`BufferRecoveryProofs`:

- `TypeCorrect`. `TypeOK` alone is not inductive: that a retry asks for a positive number of
  frames and that calls stay within three depends on where the thread is. `CallProgress`
  says for each position of `Acquire` what the outcome may be, and `IInv` is both.
  Each action has a lemma; `NextIInv` collects them.
- `GateExclusive`. `GateDiscipline` is inductive relative to `IInv`.
- `NothingLeaks`. Relative to `IInv`, with `OneOwes` (two threads never both hold a
  buffer), which the client's rule of one buffer at a time preserves. A step takes a buffer,
  releases one, or is quiet (`LeakTakes`, `LeakReleases`, `LeakQuiet`).
- `OutcomesAreTruthful`. `OutcomeTruthful` is about calls that have ended. What makes it hold is
  which flags an outcome can have at each step of `Acquire` on the way there: `FlagsOK`, from
  which `Truthful` follows at the last step.
- `StartedIsRunning`. Of the coordinator alone; inductive relative to `IInv`.

`SpatialStreamProofs`, about the stream with the coordinator in it. The steps of `Acquire` are
those of the lemmas above, so the invariant of the coordinator is used, not proved again;
the theorems hold for any reentry at any client call:

- `StreamTypeCorrect`. `SInv` adds `LockInv` to the types: exactly the thread inside Begin holds the
  lock, it has marked the stream, and it met no open pass. From it `OneInside`: no two
  threads are in `Acquire` at once, which the other theorems need.
- `PassesMatch`. `PassInv` accounts for the client's buffer between calls as well: it is the
  outcome's of the thread that owes one, or else the open pass. `ReleaseMatchesAcquire` says it of
  the open pass only.
- `StopSupersedes`. `SupersedeInv` adds that a recovery under way is a later start than the game's last
  command saw, as no command gets the lock while one is under way.
- `RecoveriesUndisturbed`. An action property: by `OneInside` and the mark, a step of another thread or
  of a nested call during a recovery is turned away.
- `HealthyPassesSucceed` is for `Faults = {}`, as its run is. `HealthyInv` says what each step of
  `Acquire` finds: a stopped client before Reset and Start, an empty queue after Reset, room for
  the retry.
- `InjectsOnce`, `StreamStartedIsRunning`: by `InjectInv`, and relative to `SInv`.

`WatchdogProofs`, about any clock, windows, timeout, passes and positions, and any number of threads
that make passes:

- `TypeCorrect`. `TypeOK` is inductive by itself, since it says who holds the lock at each step.
- `ConditionsDeserved`. `Tracks` relates the detector's five fields to the series of observations
  they stand for: the first observation of the series is the last progress, and "was active since"
  is "some observation was active". `ObserveTracks` says of one call of `Observe`, whatever the
  observation, that it keeps this, and that its verdict is `Deserved`.
- `StarvationsExplained`. `StampedInOrder`: a stamp that is neither cleared nor overtaken is the
  newest there was, and none is ahead of the clock. `LoadsAwake`: a poll that saw a recent pass
  when it read the clock will load a stamp at least as recent, or an overtaken one, or one that a
  reset has cleared, which the detector does not take for a starvation.

`MinHookProofs`, about any targets, blocks, slots, threads and failing calls:

- `HookTypesCorrect`, `SlotsStayAccounted`, `CodeFollowsTable` follow from `IInv`. It has three
  parts. `TableOK`: entries have targets and slots of their own, and a detour calls through its
  entry's slot. `CodeOK`: a target is patched as its entry says. `Accounts`, a fact about a list
  of blocks and a set of slots: each block counts the slots of the set in it and has the others
  free, and none is empty. What AllocateBuffer and FreeBuffer do to it is `AllocateAccounts` and
  `FreeAccounts`, with sequences and cardinalities confined to those lemmas and the ones before
  them.
- `ThreadsMovedProperly`. `PlacesOK` says of every thread that the code its next step needs is
  there. It is inductive only together with `IInv`: `MovedTo` shows that a thread is moved by the
  entry of its own function alone, `QuietMoved` that no thread depends on a trampoline that is
  freed. The theorem assumes `~SingleDisable`, as the run does; the patch calls `MH_DisableHook`
  for all hooks only (`dllmain.cpp:2536`). Section 4 says what happens otherwise.

The breaker, in the same module, for any limit, window, cooldown and capacity of the array:

- `BreakerInvariant`. Times never decrease, none is in the future, and a start missing from
  the array is out of the window.
- `AcquireImplementsBreaker`. By the invariant, what is retained is the window
  (`RetainedIsWindow`), which is a suffix of the history (`WindowIsSuffix`), so the newest
  retained start is the newest start; `CheckIsAdmits` concludes that the code's test
  is the abstract breaker's. Every other step is a stutter or the clock.
- `BreakerRefusesOnlyWhenDue`. The other direction of `CheckIsAdmits`.
- `WindowKept`. A start that would be the limit's successor inside a window would find
  `limit` starts retained, the cardinality of an interval of the history.
- `SpacingKept`. A start within both the cooldown and the window of the newest
  retained start is refused, and older starts are further away.

`SpatialObjectsProofs`, about any finite sets of threads and objects and any types:

- `Invariance`. `IInv` says who may be where: one thread makes or destroys the stream
  (`OneMaker`), the lock's holder is in a section under it and holds something that keeps the stream
  (`LockHeld`), an object in its destructor has one destroyer and nobody else (`OneDestroyer`), and
  each count is the cardinality of a set (`WrapperCounted`, `StreamCounted`,
  `ObjectsCounted`). The stream's count covers the objects that have not yet dropped it, which
  is why an object's last steps find it there: with one such object the count is
  positive, and only a count of one leads to the destructor. Each action has a lemma; `EveryStep`
  collects them.
- The watchdog's thread has a part of its own (`WatchdogJoined`): it runs only in a stream that is
  live or whose destructor waits for it, so that nothing the destructor gives back is in its use.
- `CountsExact` and `AliveWhenUsed` follow from `IInv` state by state.

`RuntimeProofs`, about any number of threads, targets, rounds and requests, any relation of detours
to the hooks they install, and whatever MinHook's calls fail at:

- Lemmas first say what a call of MinHook does to entries, code bytes and threads (`Created`,
  `Enabled`, `AllDisabled`, `Uninitialized`): entries keep target and trampoline, a byte
  changes only with its entry, a thread is moved only to where its code is (`Moved`).
- `Invariance`. `IInv` ties what the actors have in hand to the table: every entry's trampoline is
  what its detour calls through, from creation on, or from publication for an export
  (`HooksOK`); an installation under way holds a slot that is still there (`JobsOK`); flags and bytes
  agree until the hooks are disabled (`FlagsOK`); a thread's next step finds what it needs
  (`PlacesOK`). `EarlyOK` is what makes the initialization sound, the only step that brings the
  library (back): nobody is in a hook yet. `EndpointsOK` needs `RequestsOK`, that the flag is set
  before the teardown, so that no thread claims the registration after it was given up.
- `NoRegistrationLeft`, `FlagsTrue`, `HookedCallsReturn`, `OnlyInsidersLost` and `NoRequestLost`
  (a shutdown request that meets the closed event comes after one that was accepted; no run
  checks this one) follow from `IInv` state by state. The types of `Runtime`'s variables
  (`RuntimeTypeOK`) are not proved.

`LoggerProofs`, about any number of producers, capacity, records and sessions, and any failures:

- `Invariance`. `SessionKept` ties the coordinator's step to what of a session exists: flags are on
  only between the end of `Init` and the next `Shutdown`, a thread has an event, and a producer past
  the gate has either flags that are on or a `Shutdown` that waits for it. `OrderInv` is about
  pairs: of one producer's records the number grows within `written`, `entry` and `queue` and from
  each to the next, what was lost is older than what is still to be written, and a record not yet
  queued is newer than all (`Old`). `OrderKept` alone is not inductive, for it does not say that the
  record in a producer's hand is newer than those in the queue. The numbers of lost records are
  needed for `RecordsAccounted`, which counts `lost` as a set: a record that is lost was not there.
- That the two locks exclude is a part of the invariant.
- `HandlesOutlive`, `RecordsInOrder` and `RecordsCounted` follow state by state,
  `CategoriesHonoured` step by step.

`FilesProofs`, about any settings files, number of log files, limit and sizes of records:

- What a recursive function does to a sequence of any length needs induction and that the function
  exists. `Induction` takes a set in the predicate's place, so that it follows from the library's
  `WFMin`; `LoadRecursion`, `SumRecursion` and `FlattenRecursion` build the functions the folds
  stand for. `LoadStates`, `TotalSums` and `FlattenSteps` are what the other proofs use: the
  states, sums and sequences after each line, record and file.
- `MigrationsAreSound`. A file and its migration are read in step: after each line the two states
  agree on the section and on all but the fallback, which is enabled in the second if it is in the
  first, and in any case if both parsers trim the file alike (`Agree`). Of such a file, a line
  that disables the fallback is one the migration replaced (`DisablingReplaced`), because the
  loader is in the section only where the migration sees it too (`InSection`). Both readings start
  with the fallback enabled (`config.hpp`), so a file without such a line loads it too. In other
  files the lines that are replaced are still settings of the fallback, and can only enable it.
- `ReportsTruthful`, by `InstallInv`: what is done at each step of an installation, and, as long as
  nothing was noted as failed, of a removal: each file is gone or was not seen (`Settled`), and stays so
  (`Deleted`). Needs `MigratedEnables`, of every file both parsers trim alike.
- `SettingsArePreserved`. Step by step, relative to the same invariant.
- `LogIsKept`. `LogInv` says of all records that those of a higher-numbered file are older, also
  in the middle of a rotation. Without failures (`Healthy`) each file is a piece of what was
  written, from one cut to the next (`Whole`), where an empty file is two equal cuts: deleting,
  moving and appending each move one cut. `RetainedOrdered` and `RetainedWhole` carry both over to
  the files read one after another.

Only model-checked: liveness (`CallsReturn`, `QueueDrains`, `RequestServed`, `LockReleased`,
`ReleasedStreamGoes`), which the prover does not reach.

## 6. Not modelled, and what is left

Not modelled: `trampoline.c` and the two instruction decoders of MinHook, a pure function of a
target's machine code whose outcome `MinHook` takes as free; the mixing of samples; message
formatting; the argument rewriting of the hooked XAudio2 and audio client functions and the
callbacks of the endpoint notifications, which keep no state; the installer's search for the
game's folder, and an installation from the game's own folder; callbacks from within the game's
own Start, Stop, Reset and ReleaseBuffer (section 2); log files beyond `MaxLogFiles` left by a
larger setting; a `WriteFile` that writes part of a record; the ASI loader, of which there is no
source; build and release scripts.

Left to do:

1. `Watchdog`: a liveness run on a smaller instance.
2. Proofs: the types of `Runtime` (`RuntimeTypeOK`).
3. A composition of `SpatialObjects` with the steps of `SpatialStream`, so that a release meets a pass
   at each of its client calls; in `SpatialObjects` a pass is two steps.

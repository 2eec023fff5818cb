--------------------------- MODULE SpatialObjects ---------------------------
(* The lifetime of what the patch gives the game, src/dllmain.cpp: the spatial *)
(* audio wrapper, a render stream made through it, and the stream's objects.   *)
(* Each counts its references; a stream keeps the wrapper, an object keeps the *)
(* stream, and the stream lists its objects under its lock. Its watchdog holds *)
(* no reference: the destructor ends it. The game follows COM's rule: a thread *)
(* calls what it holds a reference of.                                         *)
EXTENDS Naturals, FiniteSets

CONSTANTS
    Threads,   \* the game's threads
    Objects,   \* the memory of an object
    Types,     \* the static object types
    Poller,    \* the watchdog as a holder of lock_
    NoOne      \* no thread, no object

ASSUME ObjectsAssumption == /\ IsFiniteSet(Threads) /\ IsFiniteSet(Objects)
                            /\ NoOne \notin Threads \cup Objects
                            /\ Poller \notin Threads \cup {NoOne}

VARIABLES
    wrapperRef,  \* SpatialAudioWrapper::ref_; 0 once it is deleted
    wrapperOf,   \* the threads that hold a reference of it
    stream,      \* "none", "opening", "live" or "dying"
    streamRef,   \* SpatialRenderStream::ref_
    streamOf,    \* the threads that hold a reference of it
    taken,       \* what the stream has acquired and has to give back
    pass,        \* update_frames_ is not ~0: a buffer of the client is out
    watchdog,    \* its thread: "none", "wait", "poll" under the lock, "observe", "exited"
    stop_event,  \* watchdog_stop_event_ is set
    lock,        \* lock_
    objects,     \* objects_
    type,        \* each object's type_
    memory,      \* each object: "free", "live", or in its destructor
    objectRef,   \* SpatialRenderObject::ref_
    objectOf,    \* the threads that hold a reference of each
    call         \* each thread's call into the patch, and the object it destroys

wrapperVars == <<wrapperRef, wrapperOf>>
watchdogVars == <<watchdog, stop_event>>
streamVars == <<stream, streamRef, streamOf, taken, pass, watchdogVars>>
objectVars == <<objects, type, memory, objectRef, objectOf>>
vars == <<wrapperVars, streamVars, lock, objectVars, call>>

At(at, o) == [at |-> at, obj |-> o]
Idle == At("idle", NoOne)
Attached == {o \in Objects : memory[o] \in {"live", "removing", "removed"}}

Init ==
    /\ wrapperRef = 1 /\ \E th \in Threads : wrapperOf = {th}
    /\ stream = "none" /\ streamRef = 0 /\ streamOf = {} /\ taken = {} /\ pass = FALSE
    /\ watchdog = "none" /\ stop_event = FALSE
    /\ lock = NoOne
    /\ objects = {} /\ type \in [Objects -> {CHOOSE t \in Types : TRUE}]
    /\ memory = [o \in Objects |-> "free"]
    /\ objectRef = [o \in Objects |-> 0] /\ objectOf = [o \in Objects |-> {}]
    /\ call = [th \in Threads |-> Idle]

Goes(th, at, o) == call' = [call EXCEPT ![th] = At(at, o)]

-----------------------------------------------------------------------------
(* The wrapper                                                                 *)

(* AddRef, and QueryInterface, for another thread.                             *)
WrapperAddRef(th, to) ==
    /\ call[th] = Idle /\ th \in wrapperOf /\ to \notin wrapperOf
    /\ wrapperRef' = wrapperRef + 1 /\ wrapperOf' = wrapperOf \cup {to}
    /\ UNCHANGED <<streamVars, lock, objectVars, call>>

WrapperRelease(th) ==
    /\ call[th] = Idle /\ th \in wrapperOf
    /\ wrapperRef' = wrapperRef - 1 /\ wrapperOf' = wrapperOf \ {th}
    /\ UNCHANGED <<streamVars, lock, objectVars, call>>

(* ActivateSpatialAudioStream up to the stream's constructor.                  *)
ActivateSpatialAudioStream(th) ==
    /\ call[th] = Idle /\ th \in wrapperOf /\ stream = "none"
    /\ stream' = "opening" /\ streamRef' = 1
    /\ taken' \in {{"owner"}, {"owner", "notify"}} /\ wrapperRef' = wrapperRef + 1
    /\ Goes(th, "client", NoOne)
    /\ UNCHANGED <<wrapperOf, streamOf, pass, watchdogVars, lock, objectVars>>

(* ActivateOutput, a resource at a time. Without the client or the render      *)
(* client the stream is deleted; it can do without the clock and the watchdog, *)
(* which may be off, or fail to start.                                         *)
ActivateOutput(th) ==
    /\ \/ /\ call[th].at = "client"
          /\ \/ taken' = taken \cup {"client"} /\ Goes(th, "render", NoOne) /\ UNCHANGED stream
             \/ stream' = "dying" /\ Goes(th, "join", NoOne) /\ UNCHANGED taken
          /\ UNCHANGED <<streamOf, watchdog>>
       \/ /\ call[th].at = "render"
          /\ \/ taken' = taken \cup {"render"} /\ Goes(th, "clock", NoOne) /\ UNCHANGED stream
             \/ stream' = "dying" /\ Goes(th, "join", NoOne) /\ UNCHANGED taken
          /\ UNCHANGED <<streamOf, watchdog>>
       \/ /\ call[th].at = "clock"
          /\ taken' \in {taken, taken \cup {"clock"}}
          /\ Goes(th, "watchdog", NoOne)
          /\ UNCHANGED <<stream, streamOf, watchdog>>
       \/ /\ call[th].at = "watchdog"
          /\ watchdog' \in {"none", "wait"}
          /\ stream' = "live" /\ streamOf' = {th}
          /\ Goes(th, "idle", NoOne)
          /\ UNCHANGED taken
    /\ UNCHANGED <<wrapperVars, streamRef, pass, stop_event, lock, objectVars>>

-----------------------------------------------------------------------------
(* The stream                                                                  *)

StreamAddRef(th, to) ==
    /\ call[th] = Idle /\ th \in streamOf /\ to \notin streamOf
    /\ streamRef' = streamRef + 1 /\ streamOf' = streamOf \cup {to}
    /\ UNCHANGED <<wrapperVars, stream, taken, pass, watchdogVars, lock, objectVars, call>>

(* The last reference deletes the stream, on the thread that gives it up.      *)
DropStream(th, o) ==
    /\ streamRef' = streamRef - 1
    /\ IF streamRef = 1
       THEN stream' = "dying" /\ Goes(th, "join", o)
       ELSE UNCHANGED stream /\ Goes(th, IF o = NoOne THEN "idle" ELSE "free", o)

StreamRelease(th) ==
    /\ call[th] = Idle /\ th \in streamOf
    /\ streamOf' = streamOf \ {th}
    /\ DropStream(th, NoOne)
    /\ UNCHANGED <<wrapperVars, taken, pass, watchdogVars, lock, objectVars>>

(* As StopWatchdog, with the event not set.                                    *)
StopWatchdogUnsignalled(th) ==
    \/ /\ call[th].at = "join"
       /\ Goes(th, IF watchdog = "none" THEN "stop" ELSE "joining", call[th].obj)
       /\ UNCHANGED <<wrapperVars, streamVars, lock, objectVars>>
    \/ /\ call[th].at = "joining" /\ watchdog = "exited"
       /\ watchdog' = "none" /\ stop_event' = FALSE
       /\ Goes(th, "stop", call[th].obj)
       /\ UNCHANGED <<wrapperVars, stream, streamRef, streamOf, taken, pass, lock, objectVars>>

(* The destructor. StopWatchdog sets the event and waits, without limit, for   *)
(* the thread to end; then it closes both handles.                             *)
StopWatchdog(th) ==
    \/ /\ call[th].at = "join"
       /\ stop_event' = (watchdog # "none")
       /\ Goes(th, IF watchdog = "none" THEN "stop" ELSE "joining", call[th].obj)
       /\ UNCHANGED <<wrapperVars, stream, streamRef, streamOf, taken, pass, watchdog, lock, objectVars>>
    \/ /\ call[th].at = "joining" /\ watchdog = "exited"
       /\ watchdog' = "none" /\ stop_event' = FALSE
       /\ Goes(th, "stop", call[th].obj)
       /\ UNCHANGED <<wrapperVars, stream, streamRef, streamOf, taken, pass, lock, objectVars>>

(* The client is stopped, and a pending buffer given back.                     *)
StopClient(th) ==
    /\ call[th].at = "stop"
    /\ pass' = FALSE
    /\ Goes(th, "detach", call[th].obj)
    /\ UNCHANGED <<wrapperVars, stream, streamRef, streamOf, taken, watchdogVars, lock, objectVars>>

(* Its loop: objects still listed are detached and deleted.                    *)
DetachObjects(th) ==
    /\ call[th].at = "detach"
    /\ objects' = {}
    /\ memory' = [o \in Objects |-> IF o \in objects THEN "free" ELSE memory[o]]
    /\ Goes(th, "release", call[th].obj)
    /\ UNCHANGED <<wrapperVars, streamVars, lock, type, objectRef, objectOf>>

(* The order of the destructor's releases.                                     *)
Turn == [notify |-> 1, render |-> 2, clock |-> 3, client |-> 4, owner |-> 5]

(* As ReleaseNext, with the wrapper's reference kept.                          *)
ReleaseNextKept(th) ==
    /\ call[th].at = "release"
    /\ \E what \in taken :
         /\ \A other \in taken : Turn[what] <= Turn[other]
         /\ taken' = taken \ {what}
    /\ UNCHANGED <<wrapperVars, stream, streamRef, streamOf, pass, watchdogVars, lock, objectVars, call>>

(* What the stream holds is released, one after the other.                     *)
ReleaseNext(th) ==
    /\ call[th].at = "release"
    /\ \E what \in taken :
         /\ \A other \in taken : Turn[what] <= Turn[other]
         /\ taken' = taken \ {what}
         /\ wrapperRef' = IF what = "owner" THEN wrapperRef - 1 ELSE wrapperRef
    /\ UNCHANGED <<wrapperOf, stream, streamRef, streamOf, pass, watchdogVars, lock, objectVars, call>>

(* Its lock and its memory go last.                                            *)
FreeStream(th) ==
    /\ call[th].at = "release" /\ taken = {}
    /\ stream' = "none" /\ streamRef' = 0
    /\ Goes(th, IF call[th].obj = NoOne THEN "idle" ELSE "free", call[th].obj)
    /\ UNCHANGED <<wrapperVars, streamOf, taken, pass, watchdogVars, lock, objectVars>>

(* BeginUpdatingAudioObjects, Reset and the rest hold the lock throughout;     *)
(* SpatialStream has them step by step.                                        *)
BeginUpdatingAudioObjects(th) ==
    /\ call[th] = Idle /\ th \in streamOf /\ lock = NoOne
    /\ pass' = TRUE
    /\ UNCHANGED <<wrapperVars, stream, streamRef, streamOf, taken, watchdogVars, lock, objectVars, call>>

(* EndUpdatingAudioObjects: MixToStereo walks the list under the lock.         *)
EndUpdatingAudioObjects(th) ==
    \/ /\ call[th] = Idle /\ th \in streamOf /\ pass /\ lock = NoOne
       /\ lock' = th
       /\ Goes(th, "mix", NoOne)
       /\ UNCHANGED <<wrapperVars, streamVars, objectVars>>
    \/ /\ call[th].at = "mix"
       /\ pass' = FALSE /\ lock' = NoOne
       /\ Goes(th, "idle", NoOne)
       /\ UNCHANGED <<wrapperVars, stream, streamRef, streamOf, taken, watchdogVars, objectVars>>

(* ActivateSpatialAudioObject: the lock, then one look at the list. There is   *)
(* one object of a type; an allocation may fail.                               *)
LookForObject(th) ==
    /\ call[th] = Idle /\ th \in streamOf /\ lock = NoOne
    /\ lock' = th
    /\ Goes(th, "look", NoOne)
    /\ UNCHANGED <<wrapperVars, streamVars, objectVars>>

AddObject(th, t) ==
    /\ call[th].at = "look"
    /\ lock' = NoOne
    /\ Goes(th, "idle", NoOne)
    /\ \/ UNCHANGED <<streamRef, objectVars>>
       \/ /\ \A o \in objects : type[o] # t
          /\ \E o \in Objects :
               /\ memory[o] = "free"
               /\ memory' = [memory EXCEPT ![o] = "live"]
               /\ type' = [type EXCEPT ![o] = t]
               /\ objectRef' = [objectRef EXCEPT ![o] = 1]
               /\ objectOf' = [objectOf EXCEPT ![o] = {th}]
               /\ objects' = objects \cup {o}
          /\ streamRef' = streamRef + 1
    /\ UNCHANGED <<wrapperVars, stream, streamOf, taken, pass, watchdogVars>>

-----------------------------------------------------------------------------
(* The objects                                                                 *)

ObjectAddRef(th, to, o) ==
    /\ call[th] = Idle /\ th \in objectOf[o] /\ to \notin objectOf[o]
    /\ objectRef' = [objectRef EXCEPT ![o] = @ + 1]
    /\ objectOf' = [objectOf EXCEPT ![o] = @ \cup {to}]
    /\ UNCHANGED <<wrapperVars, streamVars, lock, objects, type, memory, call>>

(* As ObjectRelease, with a destructor that leaves the list alone.             *)
ObjectReleaseListed(th, o) ==
    /\ call[th] = Idle /\ th \in objectOf[o]
    /\ objectRef' = [objectRef EXCEPT ![o] = @ - 1]
    /\ objectOf' = [objectOf EXCEPT ![o] = @ \ {th}]
    /\ IF objectRef[o] = 1
       THEN Goes(th, "drop", o) /\ memory' = [memory EXCEPT ![o] = "removed"]
       ELSE UNCHANGED <<call, memory>>
    /\ UNCHANGED <<wrapperVars, streamVars, lock, objects, type>>

(* Release: the count, and the destructor at zero.                             *)
ObjectRelease(th, o) ==
    /\ call[th] = Idle /\ th \in objectOf[o]
    /\ objectRef' = [objectRef EXCEPT ![o] = @ - 1]
    /\ objectOf' = [objectOf EXCEPT ![o] = @ \ {th}]
    /\ IF objectRef[o] = 1
       THEN Goes(th, "remove", o) /\ memory' = [memory EXCEPT ![o] = "removing"]
       ELSE UNCHANGED <<call, memory>>
    /\ UNCHANGED <<wrapperVars, streamVars, lock, objects, type>>

(* RemoveObject takes the lock and gives it back.                              *)
RemoveObject(th) ==
    /\ call[th].at = "remove" /\ lock = NoOne
    /\ objects' = objects \ {call[th].obj}
    /\ memory' = [memory EXCEPT ![call[th].obj] = "removed"]
    /\ Goes(th, "drop", call[th].obj)
    /\ UNCHANGED <<wrapperVars, streamVars, lock, type, objectRef, objectOf>>

(* The object's reference of the stream goes, maybe the stream with it.        *)
ObjectDropsStream(th) ==
    /\ call[th].at = "drop"
    /\ memory' = [memory EXCEPT ![call[th].obj] = "alone"]
    /\ DropStream(th, call[th].obj)
    /\ UNCHANGED <<wrapperVars, streamOf, taken, pass, watchdogVars, lock, objects, type, objectRef,
                   objectOf>>

FreeObject(th) ==
    /\ call[th].at = "free"
    /\ memory' = [memory EXCEPT ![call[th].obj] = "free"]
    /\ Goes(th, "idle", NoOne)
    /\ UNCHANGED <<wrapperVars, streamVars, lock, objects, type, objectRef, objectOf>>

(* GetBuffer goes through the object to the stream's lock.                     *)
ObjectGetBuffer(th, o) ==
    \/ /\ call[th] = Idle /\ th \in objectOf[o] /\ lock = NoOne
       /\ lock' = th
       /\ Goes(th, "buffer", o)
       /\ UNCHANGED <<wrapperVars, streamVars, objectVars>>
    \/ /\ call[th] = At("buffer", o)
       /\ lock' = NoOne
       /\ Goes(th, "idle", NoOne)
       /\ UNCHANGED <<wrapperVars, streamVars, objectVars>>

-----------------------------------------------------------------------------
(* The watchdog: a wait that times out, a poll of the client and the clock if  *)
(* the lock can be had at once, and a look at the stream's own counters.       *)
WatchdogPolls ==
    /\ watchdog = "wait" /\ ~stop_event /\ lock = NoOne
    /\ watchdog' = "poll" /\ lock' = Poller
    /\ UNCHANGED <<wrapperVars, stream, streamRef, streamOf, taken, pass, stop_event, objectVars, call>>

WatchdogGoesOn ==
    /\ \/ watchdog = "poll" /\ watchdog' = "observe" /\ lock' = NoOne
       \/ watchdog = "observe" /\ watchdog' = "wait" /\ UNCHANGED lock
       \/ watchdog = "wait" /\ stop_event /\ watchdog' = "exited" /\ UNCHANGED lock
    /\ UNCHANGED <<wrapperVars, stream, streamRef, streamOf, taken, pass, stop_event, objectVars, call>>

-----------------------------------------------------------------------------
(* The steps of a call that has begun.                                         *)
Continue(th) ==
    /\ call[th] # Idle
    /\ \/ ActivateOutput(th) \/ StopWatchdog(th) \/ StopClient(th) \/ DetachObjects(th)
       \/ ReleaseNext(th) \/ FreeStream(th)
       \/ EndUpdatingAudioObjects(th) \/ (\E t \in Types : AddObject(th, t))
       \/ RemoveObject(th) \/ ObjectDropsStream(th) \/ FreeObject(th)
       \/ \E o \in Objects : ObjectGetBuffer(th, o)

Begin(th) ==
    \/ \E to \in Threads : WrapperAddRef(th, to) \/ StreamAddRef(th, to)
    \/ WrapperRelease(th) \/ ActivateSpatialAudioStream(th) \/ StreamRelease(th)
    \/ BeginUpdatingAudioObjects(th) \/ EndUpdatingAudioObjects(th) \/ LookForObject(th)
    \/ \E o \in Objects : \/ ObjectRelease(th, o) \/ ObjectGetBuffer(th, o)
                          \/ \E to \in Threads : ObjectAddRef(th, to, o)

Next == WatchdogPolls \/ WatchdogGoesOn \/ \E th \in Threads : Begin(th) \/ Continue(th)
Spec == Init /\ [][Next]_vars

(* A call that has begun goes on, and so does a poll. A thread that waits for  *)
(* lock_ gets it if it is free time and again: with all references given up,   *)
(* only the watchdog contends, and it waits out its interval between polls.    *)
FairSpec == Spec /\ WF_vars(WatchdogGoesOn)
                 /\ \A th \in Threads : WF_vars(Continue(th)) /\ SF_vars(RemoveObject(th))

-----------------------------------------------------------------------------
(* Properties                                                                  *)

(* The counts are exact: the wrapper is held by threads and the stream, the    *)
(* stream by threads and by the objects not yet through their destructor, and  *)
(* an object by threads (AddRef, Release and the constructors).                *)
ReferencesCounted ==
    /\ wrapperRef = Cardinality(wrapperOf) + (IF "owner" \in taken THEN 1 ELSE 0)
    /\ stream = "live" => streamRef = Cardinality(streamOf) + Cardinality(Attached)
    /\ \A o \in Objects : objectRef[o] = Cardinality(objectOf[o])

(* Nobody runs in what is deleted: a call into the stream finds it there, the  *)
(* mixer walks over intact objects, an object's call finds both, and an object *)
(* never outlives the stream it is attached to; the destructor's loop over     *)
(* objects_ finds none. The watchdog has ended before the destructor gives     *)
(* back any of what it uses.                                                   *)
UsedWhileAlive ==
    /\ \A th \in Threads :
         /\ call[th].at \in {"mix", "look", "buffer", "remove", "drop"} => stream = "live"
         /\ call[th].at \in {"buffer", "remove", "drop", "free"} => memory[call[th].obj] # "free"
         /\ call[th].at = "client" => wrapperRef > 0
    /\ objects \subseteq Attached
    /\ Attached # {} => stream = "live"
    /\ lock \in Threads => stream = "live"
    /\ stream = "dying" => objects = {}
    /\ watchdog \in {"wait", "poll", "observe"} =>
         stream \in {"live", "dying"} /\ {"render", "client", "owner"} \subseteq taken

(* A stream that nobody holds is destroyed, whatever calls were under way and  *)
(* wherever its watchdog has got to, and everything it had acquired is given   *)
(* back.                                                                       *)
ReleasedStreamGoes ==
    (stream = "live" /\ streamOf = {} /\ \A o \in Objects : objectOf[o] = {})
        ~> (stream = "none" /\ taken = {} /\ ~pass /\ watchdog = "none")
=============================================================================

------------------------- MODULE SpatialObjectsProofs -------------------------
(* For any number of threads, objects and types: the reference counts of       *)
(* SpatialObjects are exact, and nobody runs in what is deleted.               *)
EXTENDS SpatialObjects, FiniteSetTheorems, TLAPS

Output == {"client", "render", "clock", "watchdog"}
Destructor == {"join", "joining", "stop", "detach", "release"}
Locking == {"mix", "look", "buffer"}
Destroying == {"remove", "drop", "free"} \cup Destructor

(* The inductive invariant, in parts.                                          *)
ObjectsTypeOK ==
    /\ wrapperRef \in Int /\ wrapperOf \in SUBSET Threads
    /\ stream \in {"none", "opening", "live", "dying"}
    /\ streamRef \in Int /\ streamOf \in SUBSET Threads
    /\ lock \in Threads \cup {Poller, NoOne}
    /\ watchdog \in {"none", "wait", "poll", "observe", "exited"} /\ stop_event \in BOOLEAN
    /\ objects \in SUBSET Objects
    /\ memory \in [Objects -> {"free", "live", "removing", "removed", "alone"}]
    /\ objectRef \in [Objects -> Int] /\ objectOf \in [Objects -> SUBSET Threads]
    /\ call \in [Threads -> [at : {"idle"} \cup Output \cup Locking \cup Destroying,
                             obj : Objects \cup {NoOne}]]

(* The wrapper is held by threads, and by the stream from its constructor on   *)
(* and until its destructor releases it.                                       *)
WrapperCounted ==
    /\ wrapperRef = Cardinality(wrapperOf) + (IF "owner" \in taken THEN 1 ELSE 0)
    /\ stream \in {"opening", "live"} => "owner" \in taken
    /\ stream = "none" => "owner" \notin taken

(* Only a live stream has holders or objects; its count is theirs.             *)
StreamCounted ==
    /\ stream = "live" => /\ streamRef = Cardinality(streamOf) + Cardinality(Attached)
                          /\ streamRef # 0
    /\ stream # "live" => streamOf = {} /\ Attached = {}
    /\ stream = "none" => streamRef = 0
    /\ stream = "opening" => streamRef = 1

(* One thread makes or destroys the stream.                                    *)
OneMaker ==
    /\ \A th \in Threads : /\ call[th].at \in Output => stream = "opening"
                           /\ call[th].at \in Destructor => stream = "dying"
    /\ \A th, u \in Threads :
           {call[th].at, call[u].at} \subseteq Output \cup Destructor => th = u
    /\ stream = "dying" => \E th \in Threads : call[th].at \in Destructor

(* The lock's holder, and what it calls through.                               *)
LockHeld ==
    \A th \in Threads :
        /\ call[th].at \in Locking <=> lock = th
        /\ call[th].at \in {"mix", "look"} => th \in streamOf
        /\ call[th].at = "buffer" => /\ call[th].obj \in Objects
                                     /\ th \in objectOf[call[th].obj]

(* An object lives as long as it is held; then one thread destroys it.         *)
ObjectsCounted ==
    /\ \A o \in Objects : /\ objectRef[o] = Cardinality(objectOf[o])
                          /\ memory[o] = "live" <=> objectOf[o] # {}
    /\ \A o \in objects : memory[o] \in {"live", "removing"}

Doomed(th) == call[th].obj \in Objects /\ memory[call[th].obj] = "alone"
OneDestroyer ==
    /\ \A th \in Threads :
         /\ call[th].at = "remove" => call[th].obj \in Objects /\ memory[call[th].obj] = "removing"
         /\ call[th].at = "drop" => call[th].obj \in Objects /\ memory[call[th].obj] = "removed"
         /\ call[th].at = "free" => Doomed(th)
         /\ call[th].at \in Destructor => call[th].obj = NoOne \/ Doomed(th)
    /\ \A th, u \in Threads :
         {call[th].at, call[u].at} \subseteq Destroying
           /\ call[th].obj = call[u].obj /\ call[th].obj # NoOne => th = u

(* The watchdog runs while there is a stream whose destructor has not got past *)
(* the join, and what it uses was acquired before it and is released after.    *)
WatchdogJoined ==
    /\ watchdog = "poll" <=> lock = Poller
    /\ watchdog # "none" =>
         /\ stream \in {"live", "dying"} /\ {"render", "client", "owner"} \subseteq taken
         /\ \A th \in Threads : call[th].at \notin {"stop", "detach", "release"}
    /\ \A th \in Threads : /\ call[th].at = "render" => "client" \in taken
                           /\ call[th].at \in {"clock", "watchdog"} => {"client", "render"} \subseteq taken

IInv == /\ ObjectsTypeOK /\ WrapperCounted /\ StreamCounted /\ OneMaker
        /\ LockHeld /\ ObjectsCounted /\ OneDestroyer /\ WatchdogJoined

-----------------------------------------------------------------------------
(* Counting finite sets.                                                       *)

LEMMA Counting ==
    ASSUME NEW S, IsFiniteSet(S)
    PROVE  /\ Cardinality(S) \in Nat
           /\ Cardinality(S) = 0 <=> S = {}
           /\ \A x : x \notin S => Cardinality(S \cup {x}) = Cardinality(S) + 1
           /\ \A x : x \in S => Cardinality(S \ {x}) = Cardinality(S) - 1
BY FS_CardinalityType, FS_EmptySet, FS_AddElement, FS_RemoveElement

LEMMA Finite ==
    ASSUME ObjectsTypeOK
    PROVE  /\ IsFiniteSet(wrapperOf) /\ IsFiniteSet(streamOf) /\ IsFiniteSet(Attached)
           /\ \A o \in Objects : IsFiniteSet(objectOf[o])
BY ObjectsAssumption, FS_Subset DEF ObjectsTypeOK, Attached

(* A step of a thread whose call is outside the watchdog's business.           *)
LEMMA Uninvolved ==
    ASSUME ObjectsTypeOK, WatchdogJoined, NEW th \in Threads, NEW at, NEW o, Goes(th, at, o),
           at \notin {"stop", "detach", "release", "render", "clock", "watchdog"},
           watchdog' = watchdog, taken \subseteq taken', lock' = Poller <=> lock = Poller,
           watchdog # "none" => stream' \in {"live", "dying"}
    PROVE  WatchdogJoined'
<1>1. call'[th].at = at /\ \A u \in Threads : u # th => call'[u] = call[u]
  BY DEF ObjectsTypeOK, Goes, At
<1> HIDE DEF Goes
<1> QED
  BY <1>1 DEF WatchdogJoined

THEOREM Initially == Init => IInv
<1> SUFFICES ASSUME Init PROVE IInv
    OBVIOUS
<1>0. Attached = {}
    BY DEF Init, Attached
<1>1. Cardinality(wrapperOf) = 1 /\ Cardinality({}) = 0
    BY FS_Singleton, FS_EmptySet DEF Init
<1>2. ObjectsTypeOK
  <2>1. call \in [Threads -> [at : {"idle"}, obj : {NoOne}]]
      BY DEF Init, Idle, At
  <2>2. /\ objectRef \in [Objects -> Int] /\ objectOf \in [Objects -> SUBSET Threads]
        /\ memory \in [Objects -> {"free"}]
      BY DEF Init
  <2>3. wrapperRef \in Int /\ wrapperOf \in SUBSET Threads
      BY DEF Init
  <2>4. call \in [Threads -> [at : {"idle"} \cup Output \cup Locking \cup Destroying,
                             obj : Objects \cup {NoOne}]]
      BY <2>1
  <2>5. memory \in [Objects -> {"free", "live", "removing", "removed", "alone"}]
      BY <2>2
  <2>6. /\ stream = "none" /\ streamRef = 0 /\ streamOf = {} /\ lock = NoOne /\ objects = {}
        /\ watchdog = "none"
      BY DEF Init
  <2>7. stop_event \in BOOLEAN
      BY DEF Init
  <2> QED
      BY <2>2, <2>3, <2>4, <2>5, <2>6, <2>7 DEF ObjectsTypeOK
<1>3. WrapperCounted
    BY <1>1 DEF Init, WrapperCounted
<1>4. StreamCounted
    BY <1>0 DEF Init, StreamCounted
<1>8. OneMaker
    BY DEF Init, OneMaker, Idle, At, Output, Destructor
<1>5. LockHeld
    BY ObjectsAssumption DEF Init, LockHeld, Idle, At, Locking
<1>6. ObjectsCounted
    BY <1>1 DEF Init, ObjectsCounted
<1>7. OneDestroyer
    BY DEF Init, OneDestroyer, Idle, At, Destroying, Destructor
<1>9. WatchdogJoined
    BY ObjectsAssumption DEF Init, WatchdogJoined, Idle, At
<1> QED
    BY <1>2, <1>3, <1>4, <1>5, <1>6, <1>7, <1>8, <1>9 DEF IInv

LEMMA WrapperAddRefKeeps ==
    ASSUME IInv, NEW th \in Threads, NEW to \in Threads, WrapperAddRef(th, to)
    PROVE  IInv'
<1> USE DEF IInv, WrapperAddRef, streamVars, objectVars, watchdogVars
<1>0. Attached' = Attached
    BY DEF Attached
<1>1. ObjectsTypeOK'
    BY DEF ObjectsTypeOK
<1>2. WrapperCounted'
  <2>1. IsFiniteSet(wrapperOf) /\ to \notin wrapperOf
      BY Finite
  <2>2. Cardinality(wrapperOf') = Cardinality(wrapperOf) + 1 /\ Cardinality(wrapperOf) \in Nat
      BY <2>1, Counting
  <2> QED
      BY <2>2 DEF WrapperCounted
<1>3. StreamCounted'
    BY <1>0 DEF StreamCounted
<1>4. OneMaker'
    BY DEF OneMaker
<1>5. LockHeld'
    BY DEF LockHeld
<1>6. ObjectsCounted'
    BY DEF ObjectsCounted
<1>7. OneDestroyer'
    BY DEF OneDestroyer, Doomed
<1>8. WatchdogJoined'
    BY ObjectsAssumption DEF WatchdogJoined, ObjectsTypeOK
<1> QED
    BY <1>1, <1>2, <1>3, <1>4, <1>5, <1>6, <1>7, <1>8

LEMMA WrapperReleaseKeeps ==
    ASSUME IInv, NEW th \in Threads, WrapperRelease(th)
    PROVE  IInv'
<1> USE DEF IInv, WrapperRelease, streamVars, objectVars, watchdogVars
<1>0. Attached' = Attached
    BY DEF Attached
<1>1. ObjectsTypeOK'
    BY DEF ObjectsTypeOK
<1>2. WrapperCounted'
    BY Finite, Counting DEF WrapperCounted, ObjectsTypeOK
<1>3. StreamCounted'
    BY <1>0 DEF StreamCounted
<1>4. OneMaker'
    BY DEF OneMaker
<1>5. LockHeld'
    BY DEF LockHeld
<1>6. ObjectsCounted'
    BY DEF ObjectsCounted
<1>7. OneDestroyer'
    BY DEF OneDestroyer, Doomed
<1>8. WatchdogJoined'
    BY ObjectsAssumption DEF WatchdogJoined, ObjectsTypeOK
<1> QED
    BY <1>1, <1>2, <1>3, <1>4, <1>5, <1>6, <1>7, <1>8

LEMMA ActivateStreamKeeps ==
    ASSUME IInv, NEW th \in Threads, ActivateSpatialAudioStream(th)
    PROVE  IInv'
<1> USE DEF IInv, ActivateSpatialAudioStream, objectVars, Goes, At, Idle, watchdogVars
<1>0. Attached' = Attached
    BY DEF Attached
<1>1. ObjectsTypeOK'
    BY DEF ObjectsTypeOK, Output, Locking, Destroying, Destructor
<1>2. WrapperCounted'
    BY Finite, Counting DEF WrapperCounted, ObjectsTypeOK
<1>3. StreamCounted'
    BY <1>0 DEF StreamCounted
<1>4. OneMaker'
    BY DEF OneMaker, ObjectsTypeOK, Output, Destructor
<1>5. LockHeld'
    BY ObjectsAssumption DEF LockHeld, Locking, ObjectsTypeOK, Output, Destroying, Destructor
<1>6. ObjectsCounted'
    BY DEF ObjectsCounted
<1>7. OneDestroyer'
    BY DEF OneDestroyer, Doomed, Destroying, Destructor, ObjectsTypeOK
<1>8. WatchdogJoined'
  <2>1. watchdog = "none" /\ lock' = lock /\ watchdog' = watchdog
      BY DEF WatchdogJoined
  <2>2. call'[th].at = "client" /\ \A u \in Threads : u # th => call'[u] = call[u]
      BY DEF ObjectsTypeOK
  <2>3. \A u \in Threads : call[u].at \notin Output
      BY DEF OneMaker
  <2> QED
      BY <2>1, <2>2, <2>3 DEF WatchdogJoined, Output
<1> QED
    BY <1>1, <1>2, <1>3, <1>4, <1>5, <1>6, <1>7, <1>8

LEMMA ActivateOutputKeeps ==
    ASSUME IInv, NEW th \in Threads, ActivateOutput(th)
    PROVE  IInv'
<1> USE DEF IInv, ActivateOutput, wrapperVars, objectVars, Goes, At, Idle, watchdogVars
<1>a. stream = "opening" /\ call[th].at \in Output
    BY DEF OneMaker, Output
<1>b. stream' # "none" /\ ("owner" \in taken' <=> "owner" \in taken)
    BY <1>a
<1>c. streamOf = {} /\ Attached = {}
    BY <1>a DEF StreamCounted
<1>d. lock # th /\ call'[th].at \notin Locking
    BY <1>a DEF LockHeld, Locking, Output, ObjectsTypeOK
<1>0. Attached' = Attached
    BY DEF Attached
<1>1. ObjectsTypeOK'
    BY DEF ObjectsTypeOK, Output, Locking, Destroying, Destructor
<1>2. WrapperCounted'
    BY <1>a, <1>b DEF WrapperCounted
<1>3. StreamCounted'
    <2>1. Cardinality({th}) = 1 /\ Cardinality({}) = 0
      BY FS_Singleton, FS_EmptySet
    <2>2. streamRef' = 1 /\ Attached' = {} /\ stream' # "none"
      BY <1>0, <1>a, <1>b, <1>c DEF StreamCounted
    <2>3. stream' = "live" => streamOf' = {th}
      BY <1>a
    <2>4. stream' # "live" => streamOf' = {}
      BY <1>a, <1>c
    <2> QED
      BY <2>1, <2>2, <2>3, <2>4 DEF StreamCounted
<1>4. OneMaker'
    BY DEF OneMaker, ObjectsTypeOK, Output, Destructor
<1>5. LockHeld'
    BY <1>a, <1>c, <1>d DEF LockHeld, Locking, ObjectsTypeOK
<1>6. ObjectsCounted'
    BY DEF ObjectsCounted
<1>7. OneDestroyer'
    BY DEF OneDestroyer, Doomed, Destroying, Destructor, ObjectsTypeOK
<1>8. WatchdogJoined'
  <2>1. /\ watchdog = "none" /\ lock' = lock /\ lock # Poller /\ taken \subseteq taken'
        /\ "owner" \in taken
      BY <1>a DEF WatchdogJoined, WrapperCounted
  <2>2. \A u \in Threads : u # th => call'[u] = call[u] /\ call[u].at \notin Output \cup Destructor
      BY <1>a DEF OneMaker, ObjectsTypeOK
  <2>3. /\ call'[th].at = "render" => "client" \in taken'
        /\ call'[th].at \in {"clock", "watchdog"} => {"client", "render"} \subseteq taken'
        /\ call'[th].at \notin {"stop", "detach", "release"}
      BY DEF WatchdogJoined, ObjectsTypeOK
  <2>4. watchdog' # "none" => stream' = "live" /\ {"render", "client", "owner"} \subseteq taken'
                             /\ watchdog' = "wait"
      BY <2>1 DEF WatchdogJoined
  <2> QED
      BY <2>1, <2>2, <2>3, <2>4 DEF WatchdogJoined, Output, Destructor
<1> QED
    BY <1>1, <1>2, <1>3, <1>4, <1>5, <1>6, <1>7, <1>8

LEMMA StreamAddRefKeeps ==
    ASSUME IInv, NEW th \in Threads, NEW to \in Threads, StreamAddRef(th, to)
    PROVE  IInv'
<1> USE DEF IInv, StreamAddRef, wrapperVars, objectVars, watchdogVars
<1>0. Attached' = Attached
    BY DEF Attached
<1>1. ObjectsTypeOK'
    BY DEF ObjectsTypeOK
<1>2. WrapperCounted'
    BY DEF WrapperCounted
<1>3. StreamCounted'
    BY <1>0, Finite, Counting DEF StreamCounted, ObjectsTypeOK
<1>4. OneMaker'
    BY DEF OneMaker
<1>5. LockHeld'
    BY DEF LockHeld
<1>6. ObjectsCounted'
    BY DEF ObjectsCounted
<1>7. OneDestroyer'
    BY DEF OneDestroyer, Doomed
<1>8. WatchdogJoined'
    BY ObjectsAssumption DEF WatchdogJoined, ObjectsTypeOK
<1> QED
    BY <1>1, <1>2, <1>3, <1>4, <1>5, <1>6, <1>7, <1>8

LEMMA StreamReleaseKeeps ==
    ASSUME IInv, NEW th \in Threads, StreamRelease(th)
    PROVE  IInv'
<1> USE DEF IInv, StreamRelease, DropStream, wrapperVars, objectVars, Goes, At, Idle, watchdogVars
<1>a. stream = "live" /\ stream' # "none"
    BY DEF StreamCounted
<1>b. streamRef = 1 <=> streamOf' = {} /\ Attached = {}
  <2>1. th \in streamOf /\ streamOf' = streamOf \ {th} /\ IsFiniteSet(streamOf)
        /\ IsFiniteSet(streamOf') /\ IsFiniteSet(Attached)
      BY Finite, FS_RemoveElement
  <2>2. streamRef = Cardinality(streamOf) + Cardinality(Attached)
      BY <1>a DEF StreamCounted
  <2>3. /\ Cardinality(streamOf') = Cardinality(streamOf) - 1 /\ Cardinality(streamOf') \in Nat
        /\ (Cardinality(streamOf') = 0 <=> streamOf' = {})
      BY <2>1, Counting
  <2>4. Cardinality(Attached) \in Nat /\ (Cardinality(Attached) = 0 <=> Attached = {})
      BY <2>1, Counting
  <2>5. Cardinality(streamOf) \in Nat
      BY <2>1, Counting
  <2> QED
      BY <2>2, <2>3, <2>4, <2>5
<1>c. \A u \in Threads : call[u].at \notin Output \cup Destructor
    BY <1>a DEF OneMaker
<1>0. Attached' = Attached
    BY DEF Attached
<1>1. ObjectsTypeOK'
    BY DEF ObjectsTypeOK, Output, Locking, Destroying, Destructor
<1>2. WrapperCounted'
    BY <1>a DEF WrapperCounted
<1>3. StreamCounted'
    BY <1>0, <1>a, <1>b, Finite, Counting DEF StreamCounted, ObjectsTypeOK
<1>4. OneMaker'
    BY <1>a, <1>c DEF OneMaker, ObjectsTypeOK, Output, Destructor
<1>5. LockHeld'
    BY ObjectsAssumption DEF LockHeld, Locking, ObjectsTypeOK, Output, Destroying, Destructor
<1>6. ObjectsCounted'
    BY DEF ObjectsCounted
<1>7. OneDestroyer'
    BY ObjectsAssumption DEF OneDestroyer, Doomed, Destroying, Destructor, ObjectsTypeOK
<1>8. WatchdogJoined'
    BY ObjectsAssumption DEF WatchdogJoined, ObjectsTypeOK
<1> QED
    BY <1>1, <1>2, <1>3, <1>4, <1>5, <1>6, <1>7, <1>8

LEMMA StopWatchdogKeeps ==
    ASSUME IInv, NEW th \in Threads, StopWatchdog(th)
    PROVE  IInv'
<1> USE DEF IInv, StopWatchdog, wrapperVars, streamVars, objectVars, Goes, At, Idle, watchdogVars
<1>0. Attached' = Attached
    BY DEF Attached
<1>1. ObjectsTypeOK'
  <2>1. stop_event' \in BOOLEAN /\ watchdog' \in {watchdog, "none"}
      BY DEF ObjectsTypeOK
  <2>2. PICK at \in {"joining", "stop"} : call' = [call EXCEPT ![th] = [at |-> at, obj |-> call[th].obj]]
      BY DEF ObjectsTypeOK
  <2>3. call' \in [Threads -> [at : {"idle"} \cup Output \cup Locking \cup Destroying,
                              obj : Objects \cup {NoOne}]]
      BY <2>2 DEF ObjectsTypeOK, Destroying, Destructor
  <2>4. UNCHANGED <<wrapperVars, stream, streamRef, streamOf, lock, objectVars>>
      OBVIOUS
  <2> QED
      BY <2>1, <2>3, <2>4 DEF ObjectsTypeOK
<1>2. WrapperCounted'
    BY DEF WrapperCounted
<1>3. StreamCounted'
    BY <1>0 DEF StreamCounted
<1>4. OneMaker'
    BY DEF OneMaker, ObjectsTypeOK, Output, Destructor
<1>5. LockHeld'
    BY ObjectsAssumption DEF LockHeld, Locking, ObjectsTypeOK, Output, Destroying, Destructor
<1>6. ObjectsCounted'
    BY DEF ObjectsCounted
<1>7. OneDestroyer'
    BY DEF OneDestroyer, Doomed, Destroying, Destructor, ObjectsTypeOK
<1>8. WatchdogJoined'
    BY ObjectsAssumption DEF WatchdogJoined, ObjectsTypeOK
<1> QED
    BY <1>1, <1>2, <1>3, <1>4, <1>5, <1>6, <1>7, <1>8

LEMMA StopClientKeeps ==
    ASSUME IInv, NEW th \in Threads, StopClient(th)
    PROVE  IInv'
<1> USE DEF IInv, StopClient, wrapperVars, objectVars, Goes, At, Idle, watchdogVars
<1>0. Attached' = Attached
    BY DEF Attached
<1>1. ObjectsTypeOK'
    BY DEF ObjectsTypeOK, Output, Locking, Destroying, Destructor
<1>2. WrapperCounted'
    BY DEF WrapperCounted
<1>3. StreamCounted'
    BY <1>0 DEF StreamCounted
<1>4. OneMaker'
    BY DEF OneMaker, ObjectsTypeOK, Output, Destructor
<1>5. LockHeld'
    BY ObjectsAssumption DEF LockHeld, Locking, ObjectsTypeOK, Output, Destroying, Destructor
<1>6. ObjectsCounted'
    BY DEF ObjectsCounted
<1>7. OneDestroyer'
    BY DEF OneDestroyer, Doomed, Destroying, Destructor, ObjectsTypeOK
<1>8. WatchdogJoined'
    BY ObjectsAssumption DEF WatchdogJoined, ObjectsTypeOK
<1> QED
    BY <1>1, <1>2, <1>3, <1>4, <1>5, <1>6, <1>7, <1>8

LEMMA DetachObjectsKeeps ==
    ASSUME IInv, NEW th \in Threads, DetachObjects(th)
    PROVE  IInv'
<1> USE DEF IInv, DetachObjects, wrapperVars, streamVars, Goes, At, Idle, watchdogVars
<1>a. Attached = {}
    BY DEF OneMaker, StreamCounted, Destructor
<1>b. objects = {}
    BY <1>a DEF ObjectsCounted, ObjectsTypeOK, Attached
<1>c. memory' = memory
    BY <1>b DEF ObjectsTypeOK
<1>0. Attached' = Attached
    BY <1>c DEF Attached
<1>1. ObjectsTypeOK'
    BY DEF ObjectsTypeOK, Output, Locking, Destroying, Destructor
<1>2. WrapperCounted'
    BY DEF WrapperCounted
<1>3. StreamCounted'
    BY <1>0 DEF StreamCounted
<1>4. OneMaker'
    BY DEF OneMaker, ObjectsTypeOK, Output, Destructor
<1>5. LockHeld'
    BY ObjectsAssumption DEF LockHeld, Locking, ObjectsTypeOK, Output, Destroying, Destructor
<1>6. ObjectsCounted'
    BY <1>c DEF ObjectsCounted
<1>7. OneDestroyer'
    BY <1>c DEF OneDestroyer, Doomed, Destroying, Destructor, ObjectsTypeOK
<1>8. WatchdogJoined'
    BY ObjectsAssumption DEF WatchdogJoined, ObjectsTypeOK
<1> QED
    BY <1>1, <1>2, <1>3, <1>4, <1>5, <1>6, <1>7, <1>8

LEMMA ReleaseNextKeeps ==
    ASSUME IInv, NEW th \in Threads, ReleaseNext(th)
    PROVE  IInv'
<1> USE DEF IInv, ReleaseNext, objectVars, watchdogVars
<1>a. stream = "dying" /\ watchdog = "none"
    BY DEF OneMaker, Destructor, WatchdogJoined
<1>b. /\ "owner" \in taken' => "owner" \in taken /\ wrapperRef' = wrapperRef
      /\ "owner" \notin taken' => wrapperRef' = IF "owner" \in taken THEN wrapperRef - 1 ELSE wrapperRef
    OBVIOUS
<1>0. Attached' = Attached
    BY DEF Attached
<1>1. ObjectsTypeOK'
    BY <1>b DEF ObjectsTypeOK
<1>2. WrapperCounted'
    BY <1>a, <1>b, Finite, Counting DEF WrapperCounted, ObjectsTypeOK
<1>3. StreamCounted'
    BY <1>0 DEF StreamCounted
<1>4. OneMaker'
    BY DEF OneMaker, ObjectsTypeOK, Output, Destructor
<1>5. LockHeld'
    BY ObjectsAssumption DEF LockHeld, Locking, ObjectsTypeOK, Output, Destroying, Destructor
<1>6. ObjectsCounted'
    BY DEF ObjectsCounted
<1>7. OneDestroyer'
    BY DEF OneDestroyer, Doomed, Destroying, Destructor, ObjectsTypeOK
<1>8. WatchdogJoined'
    BY <1>a DEF WatchdogJoined, OneMaker, Output
<1> QED
    BY <1>1, <1>2, <1>3, <1>4, <1>5, <1>6, <1>7, <1>8

LEMMA FreeStreamKeeps ==
    ASSUME IInv, NEW th \in Threads, FreeStream(th)
    PROVE  IInv'
<1> USE DEF IInv, FreeStream, wrapperVars, objectVars, Goes, At, Idle, watchdogVars
<1>a. stream = "dying" /\ watchdog = "none"
    BY DEF OneMaker, Destructor, WatchdogJoined
<1>0. Attached' = Attached
    BY DEF Attached
<1>1. ObjectsTypeOK'
    BY DEF ObjectsTypeOK, Output, Locking, Destroying, Destructor
<1>2. WrapperCounted'
    BY DEF WrapperCounted
<1>3. StreamCounted'
    BY <1>0, <1>a DEF StreamCounted
<1>4. OneMaker'
    BY DEF OneMaker, ObjectsTypeOK, Output, Destructor
<1>5. LockHeld'
    BY ObjectsAssumption DEF LockHeld, Locking, ObjectsTypeOK, Output, Destroying, Destructor
<1>6. ObjectsCounted'
    BY DEF ObjectsCounted
<1>7. OneDestroyer'
    BY DEF OneDestroyer, Doomed, Destroying, Destructor, ObjectsTypeOK
<1>8. WatchdogJoined'
    BY <1>a, ObjectsAssumption DEF WatchdogJoined, ObjectsTypeOK
<1> QED
    BY <1>1, <1>2, <1>3, <1>4, <1>5, <1>6, <1>7, <1>8

LEMMA BeginUpdatingKeeps ==
    ASSUME IInv, NEW th \in Threads, BeginUpdatingAudioObjects(th)
    PROVE  IInv'
<1> USE DEF IInv, BeginUpdatingAudioObjects, wrapperVars, objectVars, watchdogVars
<1>0. Attached' = Attached
    BY DEF Attached
<1>1. ObjectsTypeOK'
    BY DEF ObjectsTypeOK
<1>2. WrapperCounted'
    BY DEF WrapperCounted
<1>3. StreamCounted'
    BY <1>0 DEF StreamCounted
<1>4. OneMaker'
    BY DEF OneMaker
<1>5. LockHeld'
    BY DEF LockHeld
<1>6. ObjectsCounted'
    BY DEF ObjectsCounted
<1>7. OneDestroyer'
    BY DEF OneDestroyer, Doomed
<1>8. WatchdogJoined'
    BY ObjectsAssumption DEF WatchdogJoined, ObjectsTypeOK
<1> QED
    BY <1>1, <1>2, <1>3, <1>4, <1>5, <1>6, <1>7, <1>8

LEMMA EndUpdatingKeeps ==
    ASSUME IInv, NEW th \in Threads, EndUpdatingAudioObjects(th)
    PROVE  IInv'
<1> USE DEF IInv, EndUpdatingAudioObjects, wrapperVars, streamVars, objectVars, Goes, At, Idle, watchdogVars
<1>a. {call[th].at, call'[th].at} \subseteq {"idle", "mix"}
    BY DEF ObjectsTypeOK
<1>b. streamOf' = streamOf /\ stream' = stream /\ memory' = memory /\ objectOf' = objectOf
    OBVIOUS
<1>c. \A u \in Threads : u # th => call'[u] = call[u]
    BY DEF ObjectsTypeOK
<1>d. call[th] = Idle => lock = NoOne /\ lock' = th /\ call'[th].at = "mix" /\ th \in streamOf
    BY DEF ObjectsTypeOK
<1>e. call[th] # Idle => lock = th /\ lock' = NoOne /\ call'[th].at = "idle"
    BY DEF ObjectsTypeOK, LockHeld, Locking
<1>0. Attached' = Attached
    BY DEF Attached
<1>1. ObjectsTypeOK'
    BY DEF ObjectsTypeOK, Output, Locking, Destroying, Destructor
<1>2. WrapperCounted'
    BY DEF WrapperCounted
<1>3. StreamCounted'
    BY <1>0 DEF StreamCounted
<1>4. OneMaker'
    BY <1>a, <1>b, <1>c DEF OneMaker, Output, Destructor
<1>5. LockHeld'
    BY <1>a, <1>b, <1>c, <1>d, <1>e, ObjectsAssumption DEF LockHeld, Locking
<1>6. ObjectsCounted'
    BY DEF ObjectsCounted
<1>7. OneDestroyer'
    BY <1>a, <1>b, <1>c DEF OneDestroyer, Doomed, Destroying, Destructor
<1>8. WatchdogJoined'
  <2>1. watchdog' = watchdog /\ taken' = taken /\ (lock' = Poller <=> lock = Poller)
      BY <1>d, <1>e, ObjectsAssumption
  <2> QED
      BY <1>a, <1>b, <1>c, <2>1 DEF WatchdogJoined
<1> QED
    BY <1>1, <1>2, <1>3, <1>4, <1>5, <1>6, <1>7, <1>8

LEMMA LookForObjectKeeps ==
    ASSUME IInv, NEW th \in Threads, LookForObject(th)
    PROVE  IInv'
<1> USE DEF IInv, LookForObject, wrapperVars, streamVars, objectVars, Goes, At, Idle, watchdogVars
<1>0. Attached' = Attached
    BY DEF Attached
<1>1. ObjectsTypeOK'
    BY DEF ObjectsTypeOK, Output, Locking, Destroying, Destructor
<1>2. WrapperCounted'
    BY DEF WrapperCounted
<1>3. StreamCounted'
    BY <1>0 DEF StreamCounted
<1>4. OneMaker'
    BY DEF OneMaker, ObjectsTypeOK, Output, Destructor
<1>5. LockHeld'
    BY ObjectsAssumption DEF LockHeld, Locking, ObjectsTypeOK, Output, Destroying, Destructor
<1>6. ObjectsCounted'
    BY DEF ObjectsCounted
<1>7. OneDestroyer'
    BY DEF OneDestroyer, Doomed, Destroying, Destructor, ObjectsTypeOK
<1>8. WatchdogJoined'
    BY ObjectsAssumption DEF WatchdogJoined, ObjectsTypeOK
<1> QED
    BY <1>1, <1>2, <1>3, <1>4, <1>5, <1>6, <1>7, <1>8

LEMMA AddObjectKeeps ==
    ASSUME IInv, NEW th \in Threads, NEW t \in Types, AddObject(th, t)
    PROVE  IInv'
<1> USE DEF IInv, AddObject, wrapperVars, objectVars, Goes, At, Idle, watchdogVars
<1>a. lock = th /\ stream = "live" /\ th \in streamOf
    BY DEF LockHeld, Locking, StreamCounted
<1>b. \A u \in Threads : u # th => call[u].at \notin Locking
    BY <1>a DEF LockHeld
<1>0. /\ Cardinality(Attached') = Cardinality(Attached) + (streamRef' - streamRef)
     /\ streamRef' \in {streamRef, streamRef + 1}
  <2>1. CASE UNCHANGED <<streamRef, objectVars>>
    <3>1. Attached' = Attached
      BY <2>1 DEF Attached
    <3> QED
      BY <2>1, <3>1, Finite, Counting DEF ObjectsTypeOK
  <2>2. CASE ~UNCHANGED <<streamRef, objectVars>>
    <3>1. PICK o \in Objects : memory[o] = "free" /\ memory' = [memory EXCEPT ![o] = "live"]
      BY <2>2
    <3>2. o \notin Attached /\ Attached' = Attached \cup {o}
      BY <3>1 DEF Attached, ObjectsTypeOK
    <3> QED
      BY <2>2, <3>2, Finite, Counting DEF ObjectsTypeOK
  <2> QED
    BY <2>1, <2>2
<1>1. ObjectsTypeOK'
    BY DEF ObjectsTypeOK, Output, Locking, Destroying, Destructor
<1>2. WrapperCounted'
    BY DEF WrapperCounted
<1>3. StreamCounted'
    <2>1. streamRef = Cardinality(streamOf) + Cardinality(Attached) /\ streamRef # 0
      BY <1>a DEF StreamCounted
    <2>2. Cardinality(streamOf) \in Nat /\ Cardinality(Attached) \in Nat
      BY Finite, Counting
    <2>3. stream' = "live" /\ streamOf' = streamOf
      BY <1>a
    <2>4. streamRef' = Cardinality(streamOf) + Cardinality(Attached') /\ streamRef' # 0
      BY <1>0, <2>1, <2>2
    <2> QED
      BY <2>3, <2>4 DEF StreamCounted
<1>4. OneMaker'
    BY DEF OneMaker, ObjectsTypeOK, Output, Destructor
<1>5. LockHeld'
    BY <1>a, <1>b, ObjectsAssumption DEF LockHeld, Locking, ObjectsTypeOK
<1>6. ObjectsCounted'
    <2>1. CASE UNCHANGED objectVars
      BY <2>1 DEF ObjectsCounted
    <2>2. CASE ~UNCHANGED objectVars
      <3>1. PICK o \in Objects : /\ memory[o] = "free" /\ memory' = [memory EXCEPT ![o] = "live"]
                                /\ objectRef' = [objectRef EXCEPT ![o] = 1]
                                /\ objectOf' = [objectOf EXCEPT ![o] = {th}]
                                /\ objects' = objects \cup {o}
        BY <2>2
      <3>2. Cardinality({th}) = 1
        BY FS_Singleton
      <3>3. objectRef'[o] = 1 /\ objectOf'[o] = {th} /\ memory'[o] = "live"
        BY <3>1 DEF ObjectsTypeOK
      <3>4. \A p \in Objects : p # o => /\ objectRef'[p] = objectRef[p] /\ objectOf'[p] = objectOf[p]
                                      /\ memory'[p] = memory[p]
        BY <3>1 DEF ObjectsTypeOK
      <3> QED
        BY <3>1, <3>2, <3>3, <3>4 DEF ObjectsCounted, ObjectsTypeOK
    <2> QED
      BY <2>1, <2>2
<1>7. OneDestroyer'
    BY DEF OneDestroyer, Doomed, Destroying, Destructor, ObjectsTypeOK
<1>8. WatchdogJoined'
  <2>1. lock = th /\ lock' = NoOne /\ Goes(th, "idle", NoOne) /\ UNCHANGED <<watchdog, taken, stream>>
      BY DEF LockHeld, Locking
  <2> QED
      BY <2>1, Uninvolved, ObjectsAssumption DEF WatchdogJoined
<1> QED
    BY <1>1, <1>2, <1>3, <1>4, <1>5, <1>6, <1>7, <1>8

LEMMA ObjectAddRefKeeps ==
    ASSUME IInv, NEW th \in Threads, NEW to \in Threads, NEW o \in Objects, ObjectAddRef(th, to, o)
    PROVE  IInv'
<1> USE DEF IInv, ObjectAddRef, wrapperVars, streamVars, watchdogVars
<1>0. Attached' = Attached
    BY DEF Attached
<1>1. ObjectsTypeOK'
    BY DEF ObjectsTypeOK
<1>2. WrapperCounted'
    BY DEF WrapperCounted
<1>3. StreamCounted'
    BY <1>0 DEF StreamCounted
<1>4. OneMaker'
    BY DEF OneMaker
<1>5. LockHeld'
    BY DEF LockHeld
<1>6. ObjectsCounted'
  <2>1. IsFiniteSet(objectOf[o]) /\ to \notin objectOf[o] /\ objectOf[o] # {}
      BY Finite
  <2>2. Cardinality(objectOf[o] \cup {to}) = Cardinality(objectOf[o]) + 1
      BY <2>1, Counting
  <2>3. objectRef'[o] = objectRef[o] + 1 /\ objectOf'[o] = objectOf[o] \cup {to}
      BY DEF ObjectsTypeOK
  <2>4. \A p \in Objects : p # o => objectRef'[p] = objectRef[p] /\ objectOf'[p] = objectOf[p]
      BY DEF ObjectsTypeOK
  <2>5. objects' = objects /\ memory' = memory
      OBVIOUS
  <2> QED
      BY <2>1, <2>2, <2>3, <2>4, <2>5 DEF ObjectsCounted
<1>7. OneDestroyer'
    BY DEF OneDestroyer, Doomed
<1>8. WatchdogJoined'
    BY ObjectsAssumption DEF WatchdogJoined, ObjectsTypeOK
<1> QED
    BY <1>1, <1>2, <1>3, <1>4, <1>5, <1>6, <1>7, <1>8

LEMMA ObjectReleaseKeeps ==
    ASSUME IInv, NEW th \in Threads, NEW o \in Objects, ObjectRelease(th, o)
    PROVE  IInv'
<1> USE DEF IInv, ObjectRelease, wrapperVars, streamVars, Goes, At, Idle, watchdogVars
<1>a. memory[o] = "live" /\ objectRef[o] = Cardinality(objectOf[o])
    BY DEF ObjectsCounted
<1>e. objectOf'[o] = objectOf[o] \ {th} /\ IsFiniteSet(objectOf[o]) /\ IsFiniteSet(objectOf[o] \ {th})
    BY Finite, FS_RemoveElement DEF ObjectsTypeOK
<1>b. /\ Cardinality(objectOf'[o]) = objectRef'[o]
      /\ objectRef[o] = 1 <=> objectOf'[o] = {}
    <2> DEFINE S == objectOf[o]
  <2>1. th \in S /\ IsFiniteSet(S) /\ IsFiniteSet(S \ {th})
    BY <1>e
  <2>2. Cardinality(S \ {th}) = Cardinality(S) - 1
    BY <2>1, Counting
  <2>3. Cardinality(S \ {th}) = 0 <=> S \ {th} = {}
    BY <2>1, Counting
  <2>4. objectRef'[o] = Cardinality(S) - 1 /\ Cardinality(S) \in Nat
    BY <1>a, <2>1, Counting DEF ObjectsTypeOK
  <2>5. objectOf'[o] = S \ {th}
    BY <1>e
  <2>6. Cardinality(objectOf'[o]) = Cardinality(S) - 1 /\ (Cardinality(S) - 1 = 0 <=> objectOf'[o] = {})
    BY <2>2, <2>3, <2>5
  <2>7. objectRef[o] = Cardinality(S)
    BY <1>a
  <2> HIDE DEF S
  <2> QED
    BY <2>4, <2>6, <2>7
<1>c. \A u \in Threads : call[u].at \in Destroying => call[u].obj # o
    BY <1>a, ObjectsAssumption DEF OneDestroyer, Destroying, Doomed
<1>d. \A u \in Threads : u # th => call'[u] = call[u]
    BY DEF ObjectsTypeOK
<1>0. Attached' = Attached
    BY <1>a DEF Attached, ObjectsTypeOK
<1>1. ObjectsTypeOK'
    BY DEF ObjectsTypeOK, Output, Locking, Destroying, Destructor
<1>2. WrapperCounted'
    BY DEF WrapperCounted
<1>3. StreamCounted'
    BY <1>0 DEF StreamCounted
<1>4. OneMaker'
  <2>1. call[th].at = "idle" /\ call'[th].at \in {"idle", "remove"} /\ stream' = stream
      BY DEF ObjectsTypeOK
  <2> QED
      BY <1>d, <2>1 DEF OneMaker, Output, Destructor
<1>5. LockHeld'
    BY ObjectsAssumption DEF LockHeld, Locking, ObjectsTypeOK, Output, Destroying, Destructor
<1>6. ObjectsCounted'
    <2>1. \A p \in Objects : p # o => objectOf'[p] = objectOf[p] /\ objectRef'[p] = objectRef[p] /\ memory'[p] = memory[p]
      BY DEF ObjectsTypeOK
    <2>2. memory'[o] = IF objectRef[o] = 1 THEN "removing" ELSE "live"
      BY <1>a DEF ObjectsTypeOK
    <2> QED
      BY <1>a, <1>b, <2>1, <2>2 DEF ObjectsCounted, ObjectsTypeOK
<1>7. OneDestroyer'
    BY <1>a, <1>c, <1>d DEF OneDestroyer, Doomed, Destroying, Destructor, ObjectsTypeOK
<1>8. WatchdogJoined'
  <2>1. call'[th].at \in {"idle", "remove"} /\ UNCHANGED <<watchdog, taken, stream, lock>>
      BY DEF ObjectsTypeOK
  <2> QED
      BY <1>d, <2>1 DEF WatchdogJoined
<1> QED
    BY <1>1, <1>2, <1>3, <1>4, <1>5, <1>6, <1>7, <1>8

LEMMA RemoveObjectKeeps ==
    ASSUME IInv, NEW th \in Threads, RemoveObject(th)
    PROVE  IInv'
<1> USE DEF IInv, RemoveObject, wrapperVars, streamVars, Goes, At, Idle, watchdogVars
<1>a. call[th].obj \in Objects /\ memory[call[th].obj] = "removing"
    BY DEF OneDestroyer, Doomed
<1>b. \A u \in Threads : u # th /\ call[u].at \in Destroying => call[u].obj # call[th].obj
    BY <1>a, ObjectsAssumption DEF OneDestroyer, Destroying
<1>0. Attached' = Attached
    BY <1>a DEF Attached, ObjectsTypeOK
<1>1. ObjectsTypeOK'
    BY DEF ObjectsTypeOK, Output, Locking, Destroying, Destructor
<1>2. WrapperCounted'
    BY DEF WrapperCounted
<1>3. StreamCounted'
    BY <1>0 DEF StreamCounted
<1>4. OneMaker'
    BY DEF OneMaker, ObjectsTypeOK, Output, Destructor
<1>5. LockHeld'
    BY ObjectsAssumption DEF LockHeld, Locking, ObjectsTypeOK, Output, Destroying, Destructor
<1>6. ObjectsCounted'
    BY <1>a DEF ObjectsCounted, ObjectsTypeOK
<1>7. OneDestroyer'
    BY <1>a, <1>b DEF OneDestroyer, Doomed, Destroying, Destructor, ObjectsTypeOK
<1>8. WatchdogJoined'
    BY ObjectsAssumption DEF WatchdogJoined, ObjectsTypeOK
<1> QED
    BY <1>1, <1>2, <1>3, <1>4, <1>5, <1>6, <1>7, <1>8

LEMMA ObjectDropsStreamKeeps ==
    ASSUME IInv, NEW th \in Threads, ObjectDropsStream(th)
    PROVE  IInv'
<1> USE DEF IInv, ObjectDropsStream, DropStream, wrapperVars, Goes, At, Idle, watchdogVars
<1>a. call[th].obj \in Objects /\ memory[call[th].obj] = "removed"
    BY DEF OneDestroyer, Doomed
<1>b. call[th].obj \in Attached /\ stream = "live" /\ stream' # "none"
    BY <1>a DEF StreamCounted, Attached
<1>c. \A u \in Threads : u # th /\ call[u].at \in Destroying => call[u].obj # call[th].obj
    BY <1>a, ObjectsAssumption DEF OneDestroyer, Destroying
<1>e. \A u \in Threads : call[u].at \notin Output \cup Destructor
    BY <1>b DEF OneMaker
<1>f. memory' = [memory EXCEPT ![call[th].obj] = "alone"] /\ streamOf' = streamOf /\ objectOf' = objectOf
       /\ objects' = objects /\ lock' = lock /\ wrapperRef' = wrapperRef /\ wrapperOf' = wrapperOf
       /\ taken' = taken /\ objectRef' = objectRef /\ streamRef' = streamRef - 1
    OBVIOUS
<1>g. \E at \in {"join", "free"} : call' = [call EXCEPT ![th] = [at |-> at, obj |-> call[th].obj]]
         /\ (at = "join" => streamRef = 1 /\ stream' = "dying") /\ (at = "free" => streamRef # 1 /\ stream' = stream)
    BY <1>a, ObjectsAssumption
<1>0. Attached' = Attached \ {call[th].obj}
    BY <1>a, <1>f DEF Attached, ObjectsTypeOK
<1>i. IsFiniteSet(Attached) /\ IsFiniteSet(Attached') /\ IsFiniteSet(streamOf)
    BY <1>0, <1>b, Finite, FS_RemoveElement
<1>j. /\ Cardinality(Attached') = Cardinality(Attached) - 1
      /\ Cardinality(Attached) \in Nat /\ Cardinality(Attached') \in Nat /\ (Cardinality(Attached') = 0 <=> Attached' = {})
      /\ Cardinality(streamOf) \in Nat /\ (Cardinality(streamOf) = 0 <=> streamOf = {})
    BY <1>0, <1>b, <1>i, Counting
<1>k. streamRef = Cardinality(streamOf) + Cardinality(Attached)
    BY <1>b DEF StreamCounted
<1>h. streamRef = 1 <=> streamOf = {} /\ Attached' = {}
    BY <1>j, <1>k DEF ObjectsTypeOK
<1>1. ObjectsTypeOK'
    BY <1>a, <1>b, <1>f, <1>g DEF ObjectsTypeOK, Destroying, Destructor
<1>2. WrapperCounted'
    BY <1>b, <1>f DEF WrapperCounted
<1>3. StreamCounted'
    BY <1>b, <1>f, <1>g, <1>h, <1>j, <1>k DEF StreamCounted, ObjectsTypeOK
<1>4. OneMaker'
    BY <1>b, <1>e, <1>g DEF OneMaker, ObjectsTypeOK, Output, Destructor
<1>5. LockHeld'
    BY <1>f, <1>g DEF LockHeld, Locking, ObjectsTypeOK
<1>6. ObjectsCounted'
    BY <1>a, <1>f DEF ObjectsCounted, ObjectsTypeOK
<1>7. OneDestroyer'
    BY <1>a, <1>c, <1>f, <1>g DEF OneDestroyer, Doomed, Destroying, Destructor, ObjectsTypeOK
<1>8. WatchdogJoined'
    BY ObjectsAssumption DEF WatchdogJoined, ObjectsTypeOK
<1> QED
    BY <1>1, <1>2, <1>3, <1>4, <1>5, <1>6, <1>7, <1>8

LEMMA FreeObjectKeeps ==
    ASSUME IInv, NEW th \in Threads, FreeObject(th)
    PROVE  IInv'
<1> USE DEF IInv, FreeObject, wrapperVars, streamVars, Goes, At, Idle, watchdogVars
<1>a. call[th].obj \in Objects /\ memory[call[th].obj] = "alone"
    BY DEF OneDestroyer, Doomed
<1>b. \A u \in Threads : u # th /\ call[u].at \in Destroying => call[u].obj # call[th].obj
    BY <1>a, ObjectsAssumption DEF OneDestroyer, Destroying
<1>0. Attached' = Attached
    BY <1>a DEF Attached, ObjectsTypeOK
<1>1. ObjectsTypeOK'
    BY DEF ObjectsTypeOK, Output, Locking, Destroying, Destructor
<1>2. WrapperCounted'
    BY DEF WrapperCounted
<1>3. StreamCounted'
    BY <1>0 DEF StreamCounted
<1>4. OneMaker'
    BY DEF OneMaker, ObjectsTypeOK, Output, Destructor
<1>5. LockHeld'
    BY ObjectsAssumption DEF LockHeld, Locking, ObjectsTypeOK, Output, Destroying, Destructor
<1>6. ObjectsCounted'
    BY <1>a DEF ObjectsCounted, ObjectsTypeOK
<1>7. OneDestroyer'
    BY <1>a, <1>b, ObjectsAssumption DEF OneDestroyer, Doomed, Destroying, Destructor, ObjectsTypeOK
<1>8. WatchdogJoined'
    BY ObjectsAssumption DEF WatchdogJoined, ObjectsTypeOK
<1> QED
    BY <1>1, <1>2, <1>3, <1>4, <1>5, <1>6, <1>7, <1>8

LEMMA ObjectGetBufferKeeps ==
    ASSUME IInv, NEW th \in Threads, NEW o \in Objects, ObjectGetBuffer(th, o)
    PROVE  IInv'
<1> USE DEF IInv, ObjectGetBuffer, wrapperVars, streamVars, objectVars, Goes, At, Idle, watchdogVars
<1>0. Attached' = Attached
    BY DEF Attached
<1>1. ObjectsTypeOK'
    BY DEF ObjectsTypeOK, Output, Locking, Destroying, Destructor
<1>2. WrapperCounted'
    BY DEF WrapperCounted
<1>3. StreamCounted'
    BY <1>0 DEF StreamCounted
<1>4. OneMaker'
  <2>1. call[th].at \in {"idle", "buffer"} /\ call'[th].at \in {"idle", "buffer"}
      BY DEF ObjectsTypeOK
  <2>2. \A u \in Threads : u # th => call'[u] = call[u]
      BY DEF ObjectsTypeOK
  <2>3. stream' = stream
      OBVIOUS
  <2> QED
      BY <2>1, <2>2, <2>3 DEF OneMaker, Output, Destructor
<1>5. LockHeld'
    BY ObjectsAssumption DEF LockHeld, Locking, ObjectsTypeOK, Output, Destroying, Destructor
<1>6. ObjectsCounted'
    BY DEF ObjectsCounted
<1>7. OneDestroyer'
  <2>1. call[th].at \in {"idle", "buffer"} /\ call'[th].at \in {"idle", "buffer"}
      BY DEF ObjectsTypeOK
  <2>2. \A u \in Threads : u # th => call'[u] = call[u]
      BY DEF ObjectsTypeOK
  <2>3. memory' = memory
      OBVIOUS
  <2> QED
      BY <2>1, <2>2, <2>3 DEF OneDestroyer, Doomed, Destroying, Destructor
<1>8. WatchdogJoined'
  <2>1. CASE call[th] = Idle /\ lock = NoOne /\ lock' = th /\ Goes(th, "buffer", o)
      BY <2>1, Uninvolved, ObjectsAssumption DEF WatchdogJoined
  <2>2. CASE call[th] = At("buffer", o) /\ lock' = NoOne /\ Goes(th, "idle", NoOne)
    <3>1. lock = th
        BY <2>2 DEF LockHeld, Locking
    <3> QED
        BY <2>2, <3>1, Uninvolved, ObjectsAssumption DEF WatchdogJoined
  <2> QED
      BY <2>1, <2>2
<1> QED
    BY <1>1, <1>2, <1>3, <1>4, <1>5, <1>6, <1>7, <1>8

LEMMA WatchdogPollsKeeps ==
    ASSUME IInv, WatchdogPolls
    PROVE  IInv'
<1> USE DEF IInv, WatchdogPolls, wrapperVars, objectVars
<1>0. Attached' = Attached
    BY DEF Attached
<1>1. ObjectsTypeOK'
    BY DEF ObjectsTypeOK, Output, Locking, Destroying, Destructor
<1>2. WrapperCounted'
    BY DEF WrapperCounted
<1>3. StreamCounted'
    BY <1>0 DEF StreamCounted
<1>4. OneMaker'
    BY DEF OneMaker, ObjectsTypeOK, Output, Destructor
<1>5. LockHeld'
    BY ObjectsAssumption DEF LockHeld, Locking, ObjectsTypeOK, Output, Destroying, Destructor
<1>6. ObjectsCounted'
    BY DEF ObjectsCounted
<1>7. OneDestroyer'
    BY DEF OneDestroyer, Doomed, Destroying, Destructor, ObjectsTypeOK
<1>8. WatchdogJoined'
    BY ObjectsAssumption DEF WatchdogJoined, ObjectsTypeOK
<1> QED
    BY <1>1, <1>2, <1>3, <1>4, <1>5, <1>6, <1>7, <1>8

LEMMA WatchdogGoesOnKeeps ==
    ASSUME IInv, WatchdogGoesOn
    PROVE  IInv'
<1> USE DEF IInv, WatchdogGoesOn, wrapperVars, objectVars
<1>0. Attached' = Attached
    BY DEF Attached
<1>1. ObjectsTypeOK'
    BY DEF ObjectsTypeOK, Output, Locking, Destroying, Destructor
<1>2. WrapperCounted'
    BY DEF WrapperCounted
<1>3. StreamCounted'
    BY <1>0 DEF StreamCounted
<1>4. OneMaker'
    BY DEF OneMaker, ObjectsTypeOK, Output, Destructor
<1>5. LockHeld'
  <2>1. lock' = lock \/ (lock = Poller /\ lock' = NoOne)
      BY DEF WatchdogJoined
  <2>2. \A th \in Threads : lock' = th <=> lock = th
      BY <2>1, ObjectsAssumption
  <2> QED
      BY <2>2 DEF LockHeld
<1>6. ObjectsCounted'
    BY DEF ObjectsCounted
<1>7. OneDestroyer'
    BY DEF OneDestroyer, Doomed, Destroying, Destructor, ObjectsTypeOK
<1>8. WatchdogJoined'
    BY ObjectsAssumption DEF WatchdogJoined, ObjectsTypeOK
<1> QED
    BY <1>1, <1>2, <1>3, <1>4, <1>5, <1>6, <1>7, <1>8

LEMMA StutterKeeps ==
    ASSUME IInv, UNCHANGED vars
    PROVE  IInv'
<1> USE DEF IInv, vars, wrapperVars, streamVars, objectVars, watchdogVars
<1>0. Attached' = Attached
    BY DEF Attached
<1>1. ObjectsTypeOK' /\ WrapperCounted' /\ ObjectsCounted'
    BY DEF ObjectsTypeOK, WrapperCounted, ObjectsCounted
<1>2. StreamCounted' /\ OneMaker'
    BY <1>0 DEF StreamCounted, OneMaker
<1>3. LockHeld' /\ OneDestroyer' /\ WatchdogJoined'
    BY DEF LockHeld, OneDestroyer, Doomed, WatchdogJoined
<1> QED
    BY <1>1, <1>2, <1>3

(* Every step of the game's threads, and of the destructors they run, keeps    *)
(* the invariant.                                                              *)
THEOREM EveryStep == IInv /\ [Next]_vars => IInv'
<1> SUFFICES ASSUME IInv, [Next]_vars PROVE IInv'
    OBVIOUS
<1>1. CASE UNCHANGED vars
    BY <1>1, StutterKeeps
<1>2. CASE Next
  <2>1. CASE WatchdogPolls \/ WatchdogGoesOn
      BY <2>1, WatchdogPollsKeeps, WatchdogGoesOnKeeps
  <2>2. ASSUME NEW th \in Threads, Begin(th) PROVE IInv'
      BY <2>2, WrapperAddRefKeeps, WrapperReleaseKeeps, ActivateStreamKeeps, StreamAddRefKeeps,
         StreamReleaseKeeps, BeginUpdatingKeeps, EndUpdatingKeeps, LookForObjectKeeps,
         ObjectAddRefKeeps, ObjectReleaseKeeps, ObjectGetBufferKeeps DEF Begin
  <2>3. ASSUME NEW th \in Threads, Continue(th) PROVE IInv'
      BY <2>3, ActivateOutputKeeps, StopWatchdogKeeps, StopClientKeeps, DetachObjectsKeeps,
         ReleaseNextKeeps, FreeStreamKeeps,
         EndUpdatingKeeps, AddObjectKeeps, RemoveObjectKeeps, ObjectDropsStreamKeeps,
         FreeObjectKeeps, ObjectGetBufferKeeps DEF Continue
  <2> QED
      BY <1>2, <2>1, <2>2, <2>3 DEF Next
<1> QED
    BY <1>1, <1>2 DEF vars

(* The invariant holds throughout, for any number of threads, objects, types.  *)
THEOREM Invariance == Spec => []IInv
<1> QED
    BY Initially, EveryStep, PTL DEF Spec

-----------------------------------------------------------------------------
(* The counts are exact: AddRef, Release, the constructors and destructors     *)
(* never leave a reference over or short (src/dllmain.cpp).                    *)
THEOREM CountsExact == Spec => []ReferencesCounted
<1>1. IInv => ReferencesCounted
  BY DEF IInv, ReferencesCounted, WrapperCounted, StreamCounted, ObjectsCounted
<1> QED
    BY <1>1, Invariance, PTL

(* Nobody runs in what is deleted, and an object never outlives the stream it  *)
(* is attached to (src/dllmain.cpp: the destructors and RemoveObject).         *)
THEOREM AliveWhenUsed == Spec => []UsedWhileAlive
<1>1. IInv => UsedWhileAlive
  <2> SUFFICES ASSUME IInv PROVE UsedWhileAlive
      OBVIOUS
  <2>1. objects \subseteq Attached
      BY DEF IInv, ObjectsTypeOK, ObjectsCounted, Attached
  <2>2. Attached # {} => stream = "live"
      BY DEF IInv, StreamCounted
  <2>3. \A th \in Threads : call[th].at \in {"mix", "look"} => stream = "live"
      BY DEF IInv, LockHeld, StreamCounted
  <2>4. \A th \in Threads : call[th].at = "buffer" => /\ memory[call[th].obj] = "live"
                                                    /\ call[th].obj \in Attached
      BY DEF IInv, LockHeld, ObjectsCounted, Attached
  <2>5. \A th \in Threads : call[th].at \in {"remove", "drop"} =>
            call[th].obj \in Attached /\ memory[call[th].obj] # "free"
      BY DEF IInv, OneDestroyer, Attached
  <2>6. \A th \in Threads : call[th].at = "free" => memory[call[th].obj] # "free"
      BY DEF IInv, OneDestroyer, Doomed
  <2>7. \A th \in Threads : call[th].at = "client" => wrapperRef > 0
      BY Finite, Counting DEF IInv, OneMaker, Output, WrapperCounted, ObjectsTypeOK
  <2>8. lock \in Threads => stream = "live"
      BY <2>2, <2>3, <2>4 DEF IInv, LockHeld, Locking, ObjectsTypeOK
  <2>9. stream = "dying" => objects = {}
      BY <2>1, <2>2
  <2>10. watchdog \in {"wait", "poll", "observe"} =>
             stream \in {"live", "dying"} /\ {"render", "client", "owner"} \subseteq taken
      BY DEF IInv, WatchdogJoined
  <2> QED
      BY <2>1, <2>2, <2>3, <2>4, <2>5, <2>6, <2>7, <2>8, <2>9, <2>10 DEF UsedWhileAlive
<1> QED
    BY <1>1, Invariance, PTL
=============================================================================

-------------------------------- MODULE Logger --------------------------------
(***************************************************************************)
(* The logger of log.cpp: producers that never block put records in a      *)
(* bounded queue, a writer thread takes them out and writes them, and one  *)
(* coordinator thread opens and shuts down sessions (Init, Shutdown).      *)
(*                                                                         *)
(* The slim reader/writer lock producer_gate is held shared by a producer  *)
(* inside Enqueue and exclusively by the coordinator; queue_lock is held   *)
(* exclusively by a producer or by the writer.  Each action is what one    *)
(* thread does between two of the places where another can tell.           *)
(***************************************************************************)
EXTENDS Naturals, Sequences, FiniteSets

CONSTANTS
    Producers,      \* threads that log
    NoOne,          \* no holder of queue_lock
    QueueCapacity,  \* kQueueCapacity
    MaxRecords,     \* bound: calls of Enqueue by each producer
    MaxSessions,    \* bound: calls of Init
    MayFail         \* what may fail: a subset of {"event", "thread", "file", "timeout"}

Writer == "writer"
Categories == {"diagnostics", "recovery"}

ASSUME LoggerAssumption ==
    /\ NoOne \notin Producers \cup {Writer} /\ Writer \notin Producers
    /\ QueueCapacity \in Nat \ {0}
    /\ MaxRecords \in Nat /\ MaxSessions \in Nat
    /\ MayFail \subseteq {"event", "thread", "file", "timeout"}

VARIABLES
    enabled,            \* the categories that are on; {} is enabled = false (one set
                        \* for three flags: those a producer sees split between two
                        \* sessions it reads again inside the gate)
    stopping,
    writer_terminated,
    dropped,            \* the drops not yet reported
    gate_exclusive,     \* producer_gate, held by the coordinator
    gate_shared,        \* producer_gate, held by producers
    queue_lock,
    queue,              \* the entries from head to tail
    wake_event,         \* "null", "reset" or "set"
    thread,             \* "null", "running" or "exited"
    file,               \* "closed" or "open"
    ppc, record,        \* each producer's step and record
    wpc,                \* the writer's step
    entry, reporting,   \* the entry and the count of drops it has in hand
    cpc, infinite,      \* the coordinator's step, and whether it waits for ever
    sessions, configured,   \* Init calls made, and the categories of the last session
    completed,          \* what the last Shutdown returned
    accepted, written, lost,    \* records queued, written, and not writable (history)
    refused,                    \* records dropped (history)
    reported, unreported        \* drops whose warning was written, and was not (history)

flagVars == <<enabled, stopping, writer_terminated>>
gateVars == <<gate_exclusive, gate_shared>>
queueVars == <<queue_lock, queue>>
handleVars == <<wake_event, thread>>
producerVars == <<ppc, record>>
writerVars == <<wpc, entry, reporting, file>>
coordinatorVars == <<cpc, infinite, sessions, configured, completed>>
fileHistory == <<written, lost, reported, unreported>>
vars == <<enabled, stopping, writer_terminated, dropped, gate_exclusive, gate_shared, queue_lock,
          queue, wake_event, thread, file, ppc, record, wpc, entry, reporting, cpc, infinite, sessions,
          configured, completed, accepted, written, lost, refused, reported, unreported>>

Records == [by: Producers, number: 1..MaxRecords, category: Categories]
NoRecord(p) == [by |-> p, number |-> 0, category |-> "diagnostics"]
NoEntry == <<>>

ProducerSteps == {"idle", "gate", "recheck", "queue", "push", "signal", "drop", "leave"}
WriterSteps == {"none", "wait", "pop", "popping", "write", "dropped", "warn", "check", "close", "terminate"}
CoordinatorSteps == {"idle", "init", "enable", "cross", "stop", "join", "close"}

Init ==
    /\ enabled = {} /\ stopping = FALSE /\ writer_terminated = FALSE
    /\ dropped = 0
    /\ gate_exclusive = FALSE /\ gate_shared = {}
    /\ queue_lock = NoOne /\ queue = <<>>
    /\ wake_event = "null" /\ thread = "null" /\ file = "closed"
    /\ ppc = [p \in Producers |-> "idle"] /\ record = [p \in Producers |-> NoRecord(p)]
    /\ wpc = "none" /\ entry = NoEntry /\ reporting = 0
    /\ cpc = "idle" /\ infinite = FALSE
    /\ sessions = 0 /\ configured = {} /\ completed = "none"
    /\ accepted = 0 /\ written = <<>> /\ lost = {}
    /\ refused = 0 /\ reported = 0 /\ unreported = 0

------------------------------------------------------------------------------
(* Enqueue.                                                                *)
ProducerGoto(p, step) == ppc' = [ppc EXCEPT ![p] = step]

CountDrop == dropped' = dropped + 1 /\ refused' = refused + 1

Enqueue(p, category) ==
    /\ ppc[p] = "idle"
    /\ record[p].number < MaxRecords
    /\ record' = [record EXCEPT ![p].number = @ + 1, ![p].category = category]
    /\ ProducerGoto(p, IF category \in enabled THEN "gate" ELSE "idle")
    /\ UNCHANGED <<flagVars, dropped, gateVars, queueVars, handleVars, writerVars, coordinatorVars,
                   accepted, fileHistory, refused>>

(* TryAcquireSRWLockShared: it fails under an exclusive holder, and may    *)
(* fail while one waits.                                                   *)
EnterGate(p) ==
    /\ ppc[p] = "gate"
    /\ ~gate_exclusive
    /\ gate_shared' = gate_shared \cup {p}
    /\ ProducerGoto(p, "recheck")
    /\ UNCHANGED <<flagVars, dropped, gate_exclusive, queueVars, handleVars, record, writerVars,
                   coordinatorVars, accepted, fileHistory, refused>>

MissGate(p) ==
    /\ ppc[p] = "gate"
    /\ gate_exclusive \/ cpc \in {"init", "cross"}
    /\ CountDrop
    /\ ProducerGoto(p, "idle")
    /\ UNCHANGED <<flagVars, gateVars, queueVars, handleVars, record, writerVars, coordinatorVars,
                   accepted, fileHistory>>

(* Mutant: the category is not looked at again inside the gate.            *)
RecheckSkipped(p) ==
    /\ ppc[p] = "recheck"
    /\ ProducerGoto(p, "queue")
    /\ UNCHANGED <<flagVars, dropped, gateVars, queueVars, handleVars, record, writerVars,
                   coordinatorVars, accepted, fileHistory, refused>>

Recheck(p) ==
    /\ ppc[p] = "recheck"
    /\ ProducerGoto(p, IF record[p].category \in enabled THEN "queue" ELSE "leave")
    /\ UNCHANGED <<flagVars, dropped, gateVars, queueVars, handleVars, record, writerVars,
                   coordinatorVars, accepted, fileHistory, refused>>

LockQueue(p) ==
    /\ ppc[p] = "queue"
    /\ queue_lock = NoOne
    /\ queue_lock' = p
    /\ ProducerGoto(p, "push")
    /\ UNCHANGED <<flagVars, dropped, gateVars, queue, handleVars, record, writerVars,
                   coordinatorVars, accepted, fileHistory, refused>>

MissQueue(p) ==
    /\ ppc[p] = "queue"
    /\ queue_lock # NoOne
    /\ CountDrop
    /\ ProducerGoto(p, "leave")
    /\ UNCHANGED <<flagVars, gateVars, queueVars, handleVars, record, writerVars, coordinatorVars,
                   accepted, fileHistory>>

(* Mutant: the lock is kept.                                              *)
PushHoldingLock(p) ==
    /\ ppc[p] = "push"
    /\ IF Len(queue) = QueueCapacity
       THEN ProducerGoto(p, "drop") /\ UNCHANGED <<queue, accepted>>
       ELSE /\ queue' = Append(queue, record[p])
            /\ accepted' = accepted + 1
            /\ ProducerGoto(p, "signal")
    /\ UNCHANGED <<flagVars, dropped, gateVars, queue_lock, handleVars, record, writerVars,
                   coordinatorVars, fileHistory, refused>>

(* A full queue drops the record, after the lock is given back.            *)
Push(p) ==
    /\ ppc[p] = "push"
    /\ queue_lock' = NoOne
    /\ IF Len(queue) = QueueCapacity
       THEN ProducerGoto(p, "drop") /\ UNCHANGED <<queue, accepted>>
       ELSE /\ queue' = Append(queue, record[p])
            /\ accepted' = accepted + 1
            /\ ProducerGoto(p, "signal")
    /\ UNCHANGED <<flagVars, dropped, gateVars, handleVars, record, writerVars, coordinatorVars,
                   fileHistory, refused>>

DropFull(p) ==
    /\ ppc[p] = "drop"
    /\ CountDrop
    /\ ProducerGoto(p, "leave")
    /\ UNCHANGED <<flagVars, gateVars, queueVars, handleVars, record, writerVars, coordinatorVars,
                   accepted, fileHistory>>

SignalWriter(p) ==
    /\ ppc[p] = "signal"
    /\ wake_event' = IF wake_event = "null" THEN "null" ELSE "set"
    /\ ProducerGoto(p, "leave")
    /\ UNCHANGED <<flagVars, dropped, gateVars, queueVars, thread, record, writerVars,
                   coordinatorVars, accepted, fileHistory, refused>>

LeaveGate(p) ==
    /\ ppc[p] = "leave"
    /\ gate_shared' = gate_shared \ {p}
    /\ ProducerGoto(p, "idle")
    /\ UNCHANGED <<flagVars, dropped, gate_exclusive, queueVars, handleVars, record, writerVars,
                   coordinatorVars, accepted, fileHistory, refused>>

ProducerStep(p) ==
    \/ EnterGate(p) \/ MissGate(p) \/ Recheck(p) \/ LockQueue(p) \/ MissQueue(p)
    \/ Push(p) \/ DropFull(p) \/ SignalWriter(p) \/ LeaveGate(p)

------------------------------------------------------------------------------
(* WriterThread.                                                           *)
WriterGoto(step) == wpc' = step

(* The wait ends on the auto-reset event or after 250 ms.                  *)
Wake ==
    /\ wpc = "wait"
    /\ wake_event' = IF wake_event = "set" THEN "reset" ELSE wake_event
    /\ WriterGoto("pop")
    /\ UNCHANGED <<flagVars, dropped, gateVars, queueVars, thread, file, entry, reporting, producerVars,
                   coordinatorVars, accepted, fileHistory, refused>>

LockToPop ==
    /\ wpc = "pop"
    /\ queue_lock = NoOne
    /\ queue_lock' = Writer
    /\ WriterGoto("popping")
    /\ UNCHANGED <<flagVars, dropped, gateVars, queue, handleVars, file, entry, reporting, producerVars,
                   coordinatorVars, accepted, fileHistory, refused>>

(* Mutants: the newest entry is taken for the oldest; the entry stays.     *)
PopNewest ==
    /\ wpc = "popping"
    /\ queue_lock' = NoOne
    /\ IF queue = <<>>
       THEN WriterGoto("dropped") /\ UNCHANGED <<queue, entry>>
       ELSE /\ entry' = <<queue[Len(queue)]>>
            /\ queue' = SubSeq(queue, 1, Len(queue) - 1)
            /\ WriterGoto("write")
    /\ UNCHANGED <<flagVars, dropped, gateVars, handleVars, file, reporting, producerVars, coordinatorVars,
                   accepted, fileHistory, refused>>

PopEntryKept ==
    /\ wpc = "popping"
    /\ queue_lock' = NoOne
    /\ IF queue = <<>>
       THEN WriterGoto("dropped") /\ UNCHANGED entry
       ELSE entry' = <<Head(queue)>> /\ WriterGoto("write")
    /\ UNCHANGED <<flagVars, dropped, gateVars, queue, handleVars, file, reporting, producerVars,
                   coordinatorVars, accepted, fileHistory, refused>>

PopEntry ==
    /\ wpc = "popping"
    /\ queue_lock' = NoOne
    /\ IF queue = <<>>
       THEN WriterGoto("dropped") /\ UNCHANGED <<queue, entry>>
       ELSE /\ entry' = <<Head(queue)>>
            /\ queue' = Tail(queue)
            /\ WriterGoto("write")
    /\ UNCHANGED <<flagVars, dropped, gateVars, handleVars, file, reporting, producerVars, coordinatorVars,
                   accepted, fileHistory, refused>>

(* A line is written, opening or rotating the file as needed, or it is     *)
(* gone: the file cannot be opened, or the system's write is refused.      *)
WriteEntry ==
    /\ wpc = "write"
    /\ \/ /\ file' = "open"
          /\ written' = written \o entry
          /\ UNCHANGED lost
       \/ /\ "file" \in MayFail
          /\ file' \in {"closed", "open"}
          /\ lost' = lost \cup {entry[1]}
          /\ UNCHANGED written
    /\ entry' = NoEntry
    /\ WriterGoto("pop")
    /\ UNCHANGED <<flagVars, dropped, gateVars, queueVars, handleVars, reporting, producerVars,
                   coordinatorVars, accepted, reported, unreported, refused>>

TakeDropped ==
    /\ wpc = "dropped"
    /\ dropped' = 0
    /\ reporting' = dropped
    /\ WriterGoto(IF dropped > 0 THEN "warn" ELSE "check")
    /\ UNCHANGED <<flagVars, gateVars, queueVars, handleVars, file, entry, producerVars, coordinatorVars,
                   accepted, fileHistory, refused>>

(* The warning is an entry as any other, and the count has been taken: if  *)
(* it cannot be written, its drops are never reported.                     *)
WriteWarning ==
    /\ wpc = "warn"
    /\ \/ /\ file' = "open"
          /\ reported' = reported + reporting
          /\ UNCHANGED unreported
       \/ /\ "file" \in MayFail
          /\ file' \in {"closed", "open"}
          /\ unreported' = unreported + reporting
          /\ UNCHANGED reported
    /\ reporting' = 0
    /\ WriterGoto("check")
    /\ UNCHANGED <<flagVars, dropped, gateVars, queueVars, handleVars, entry, producerVars,
                   coordinatorVars, accepted, written, lost, refused>>

CheckStopping ==
    /\ wpc = "check"
    /\ WriterGoto(IF stopping THEN "close" ELSE "wait")
    /\ UNCHANGED <<flagVars, dropped, gateVars, queueVars, handleVars, file, entry, reporting, producerVars,
                   coordinatorVars, accepted, fileHistory, refused>>

CloseFile ==
    /\ wpc = "close"
    /\ file' = "closed"
    /\ WriterGoto("terminate")
    /\ UNCHANGED <<flagVars, dropped, gateVars, queueVars, handleVars, entry, reporting, producerVars,
                   coordinatorVars, accepted, fileHistory, refused>>

Terminate ==
    /\ wpc = "terminate"
    /\ writer_terminated' = TRUE
    /\ thread' = "exited"
    /\ WriterGoto("none")
    /\ UNCHANGED <<enabled, stopping, dropped, gateVars, queueVars, wake_event, file, entry, reporting,
                   producerVars, coordinatorVars, accepted, fileHistory, refused>>

WriterStep ==
    \/ Wake \/ LockToPop \/ PopEntry \/ WriteEntry \/ TakeDropped \/ WriteWarning
    \/ CheckStopping \/ CloseFile \/ Terminate

------------------------------------------------------------------------------
(* Init and Shutdown, called by the coordinator.                           *)
CallInit ==
    /\ cpc = "idle"
    /\ sessions < MaxSessions
    /\ sessions' = sessions + 1
    /\ completed' = "none"
    /\ cpc' = "init"
    /\ UNCHANGED <<flagVars, dropped, gateVars, queueVars, handleVars, producerVars, writerVars,
                   infinite, configured, accepted, fileHistory, refused>>

(* A session that is on, or whose writer is still there, stays as it is.   *)
InitAgain ==
    /\ cpc = "init"
    /\ gate_shared = {}
    /\ enabled # {} \/ thread # "null"
    /\ cpc' = "idle"
    /\ UNCHANGED <<flagVars, dropped, gateVars, queueVars, handleVars, producerVars, writerVars,
                   infinite, sessions, configured, completed, accepted, fileHistory, refused>>

(* The event or the thread cannot be had: no session, no handle kept.      *)
InitFails ==
    /\ cpc = "init"
    /\ gate_shared = {}
    /\ enabled = {} /\ thread = "null"
    /\ MayFail \cap {"event", "thread"} # {}
    /\ stopping' = FALSE /\ writer_terminated' = FALSE
    /\ wake_event' = "null"
    /\ cpc' = "idle"
    /\ UNCHANGED <<enabled, dropped, gateVars, queueVars, thread, producerVars, writerVars,
                   infinite, sessions, configured, completed, accepted, fileHistory, refused>>

InitCreates(categories) ==
    /\ cpc = "init"
    /\ gate_shared = {}
    /\ enabled = {} /\ thread = "null"
    /\ gate_exclusive' = TRUE
    /\ stopping' = FALSE /\ writer_terminated' = FALSE
    /\ wake_event' = "reset" /\ thread' = "running"
    /\ wpc' = "wait"
    /\ configured' = categories
    /\ cpc' = "enable"
    /\ UNCHANGED <<enabled, dropped, gate_shared, queueVars, producerVars, file, entry, reporting,
                   infinite, sessions, completed, accepted, fileHistory, refused>>

InitEnables ==
    /\ cpc = "enable"
    /\ enabled' = configured
    /\ gate_exclusive' = FALSE
    /\ cpc' = "idle"
    /\ UNCHANGED <<stopping, writer_terminated, dropped, gate_shared, queueVars, handleVars,
                   producerVars, writerVars, infinite, sessions, configured, completed, accepted,
                   fileHistory, refused>>

ShutdownComplete(event) == thread = "null" /\ event = "null" /\ file = "closed"

Result(complete) == IF complete THEN "complete" ELSE "refused"

(* Shutdown turns producers away; with nothing running it is done.         *)
CallShutdown(forever) ==
    /\ cpc = "idle"
    /\ enabled' = {}
    /\ infinite' = forever
    /\ IF enabled = {} /\ thread = "null"
       THEN cpc' = "idle" /\ completed' = Result(ShutdownComplete(wake_event))
       ELSE cpc' = "cross" /\ completed' = "none"
    /\ UNCHANGED <<stopping, writer_terminated, dropped, gateVars, queueVars, handleVars,
                   producerVars, writerVars, sessions, configured, accepted, fileHistory, refused>>

(* It crosses the gate once every producer inside has left.                *)
CrossGate ==
    /\ cpc = "cross"
    /\ gate_shared = {}
    /\ gate_exclusive' = TRUE
    /\ cpc' = "stop"
    /\ UNCHANGED <<flagVars, dropped, gate_shared, queueVars, handleVars, producerVars, writerVars,
                   infinite, sessions, configured, completed, accepted, fileHistory, refused>>

(* Mutant: the writer is not told.                                        *)
SignalStopUnset ==
    /\ cpc = "stop"
    /\ wake_event' = IF wake_event = "null" THEN "null" ELSE "set"
    /\ gate_exclusive' = FALSE
    /\ cpc' = IF thread = "null" THEN "close" ELSE "join"
    /\ UNCHANGED <<flagVars, dropped, gate_shared, queueVars, thread, producerVars, writerVars,
                   infinite, sessions, configured, completed, accepted, fileHistory, refused>>

SignalStop ==
    /\ cpc = "stop"
    /\ stopping' = TRUE
    /\ wake_event' = IF wake_event = "null" THEN "null" ELSE "set"
    /\ gate_exclusive' = FALSE
    /\ cpc' = IF thread = "null" THEN "close" ELSE "join"
    /\ UNCHANGED <<enabled, writer_terminated, dropped, gate_shared, queueVars, thread,
                   producerVars, writerVars, infinite, sessions, configured, completed, accepted,
                   fileHistory, refused>>

JoinWriter ==
    /\ cpc = "join"
    /\ thread = "exited" /\ writer_terminated
    /\ thread' = "null"
    /\ cpc' = "close"
    /\ UNCHANGED <<flagVars, dropped, gateVars, queueVars, wake_event, producerVars, writerVars,
                   infinite, sessions, configured, completed, accepted, fileHistory, refused>>

(* Mutant: they are closed.                                                *)
JoinTimesOutAndCloses ==
    /\ cpc = "join"
    /\ "timeout" \in MayFail /\ ~infinite
    /\ cpc' = "close"
    /\ UNCHANGED <<flagVars, dropped, gateVars, queueVars, handleVars, producerVars, writerVars,
                   infinite, sessions, configured, completed, accepted, fileHistory, refused>>

(* A finite wait may end first: the handles stay.                          *)
JoinTimesOut ==
    /\ cpc = "join"
    /\ "timeout" \in MayFail /\ ~infinite
    /\ completed' = "refused"
    /\ cpc' = "idle"
    /\ UNCHANGED <<flagVars, dropped, gateVars, queueVars, handleVars, producerVars, writerVars,
                   infinite, sessions, configured, accepted, fileHistory, refused>>

CloseEvent ==
    /\ cpc = "close"
    /\ wake_event' = "null"
    /\ completed' = Result(ShutdownComplete("null"))
    /\ cpc' = "idle"
    /\ UNCHANGED <<flagVars, dropped, gateVars, queueVars, thread, producerVars, writerVars,
                   infinite, sessions, configured, accepted, fileHistory, refused>>

CoordinatorStep ==
    \/ InitAgain \/ InitFails \/ InitEnables
    \/ \E categories \in SUBSET Categories \ {{}} : InitCreates(categories)
    \/ CrossGate \/ SignalStop \/ JoinWriter \/ JoinTimesOut \/ CloseEvent

CoordinatorCall ==
    \/ CallInit
    \/ \E forever \in BOOLEAN : CallShutdown(forever)

Next ==
    \/ \E p \in Producers, category \in Categories : Enqueue(p, category)
    \/ \E p \in Producers : ProducerStep(p)
    \/ WriterStep
    \/ CoordinatorCall
    \/ CoordinatorStep

Spec == Init /\ [][Next]_vars

(* Threads inside a function go on; nobody has to call one.                *)
FairSpec ==
    /\ Spec
    /\ \A p \in Producers : WF_ppc(ProducerStep(p))
    /\ WF_wpc(WriterStep)
    /\ WF_cpc(CoordinatorStep)

------------------------------------------------------------------------------
TypeOK ==
    /\ enabled \subseteq Categories
    /\ stopping \in BOOLEAN /\ writer_terminated \in BOOLEAN
    /\ dropped \in Nat
    /\ gate_exclusive \in BOOLEAN /\ gate_shared \subseteq Producers
    /\ queue_lock \in Producers \cup {NoOne, Writer}
    /\ queue \in Seq(Records) /\ Len(queue) <= QueueCapacity
    /\ wake_event \in {"null", "reset", "set"}
    /\ thread \in {"null", "running", "exited"}
    /\ file \in {"closed", "open"}
    /\ ppc \in [Producers -> ProducerSteps]
    /\ record \in [Producers -> [by: Producers, number: 0..MaxRecords, category: Categories]]
    /\ wpc \in WriterSteps /\ entry \in Seq(Records) /\ reporting \in Nat
    /\ cpc \in CoordinatorSteps /\ infinite \in BOOLEAN
    /\ sessions \in 0..MaxSessions /\ configured \subseteq Categories
    /\ completed \in {"none", "complete", "refused"}
    /\ accepted \in Nat /\ refused \in Nat /\ reported \in Nat /\ unreported \in Nat
    /\ written \in Seq(Records) /\ lost \subseteq Records

(* Nobody touches the event or the file after Shutdown closed them: a      *)
(* producer past the gate and a writer that has not ended both find the    *)
(* event open, and a Shutdown that reported success left nothing running.  *)
(* Nor is an event left without a writer, by an Init that failed half-way  *)
(* or by a Shutdown that timed out and was repeated.                       *)
UsesEvent(p) == ppc[p] \in {"queue", "push", "signal"}
HandlesOutliveUsers ==
    /\ wake_event = "null" => wpc = "none" /\ \A p \in Producers : ~UsesEvent(p)
    /\ completed = "complete" => wpc = "none" /\ thread = "null" /\ file = "closed"
    /\ cpc = "idle" /\ thread = "null" => wake_event = "null"

(* Each producer's records reach the file in the order it logged them and  *)
(* at most once, through contended locks, full queues and drops.           *)
OrderKept ==
    LET all == written \o entry \o queue IN
    \A i, j \in DOMAIN all :
        i < j /\ all[i].by = all[j].by => all[i].number < all[j].number

(* A record Enqueue accepted is in exactly one place, and one it turned    *)
(* away is in exactly one count: still to be taken by the writer, in its   *)
(* hand, or in one warning, written or not. None is counted twice or       *)
(* slips between the producers' additions and the writer's exchange.       *)
RecordsAccounted ==
    /\ accepted = Len(written) + Cardinality(lost) + Len(entry) + Len(queue)
    /\ refused = dropped + reporting + reported + unreported

(* A record goes into the queue only while its category is on in the       *)
(* session of that moment, or while the shutdown of that session waits     *)
(* for the gate: a producer that found an earlier session on is turned     *)
(* away.                                                                   *)
CategoryHonoured ==
    [][\A p \in Producers : ppc[p] = "push" /\ Len(queue') > Len(queue) =>
        record[p].category \in configured]_vars

(* A Shutdown that waits as long as it takes returns, however many         *)
(* producers keep logging; and so does Init.                               *)
CallsReturn == cpc # "idle" ~> cpc = "idle"

(* A record in the queue of a running writer gets to it, unless a shutdown  *)
(* came first.                                                             *)
Waiting(p, n) == \E i \in DOMAIN queue : queue[i].by = p /\ queue[i].number = n
QueueDrains ==
    \A p \in Producers, n \in 1..MaxRecords :
        thread = "running" /\ Waiting(p, n) ~> stopping \/ ~Waiting(p, n)

(* Shutdown "drains the writer" (ARCHITECTURE.md): a Shutdown that reports *)
(* success leaves no accepted record in the queue.                         *)
DrainedAtShutdown == completed = "complete" => queue = <<>>

==============================================================================

----------------------------- MODULE LogRotation -----------------------------
(* The files of the logger's writer, src/log.cpp: the active file and its      *)
(* numbered predecessors, rotated a system call at a time. Each call may fail, *)
(* which the code does not look at, and the process may end between two.       *)
EXTENDS Naturals, Sequences, SequencesExt

CONSTANTS
    MaxFiles,    \* max_files, at least 1
    MaxBytes,    \* max_bytes, in the unit of Sizes
    Sizes,       \* the sizes of a record, none above MaxBytes
    MaxRecords   \* bound: records written in all

ASSUME RotationAssumption == /\ MaxFiles \in Nat \ {0} /\ MaxBytes \in Nat
                             /\ Sizes \subseteq 1 .. MaxBytes

VARIABLES
    files,    \* the file at each number, 0 the active one; <<>> if there is none
    open,     \* file # INVALID_HANDLE_VALUE
    step,     \* the call a rotation has got to
    pending,  \* the record that waits for the rotation
    written,  \* history: the records WriteFile has accepted
    refused   \* history: a deletion, a rename or a reading of the size has failed

logVars == <<files, open, step, pending, written, refused>>

Numbers == 0 .. MaxFiles
NoRecord == [n |-> 0, size |-> 0]
At(call, index) == [call |-> call, index |-> index]
Resting == At("none", 0)

LogInit == /\ files = [i \in Numbers |-> <<>>]
           /\ open = FALSE /\ step = Resting /\ pending = NoRecord
           /\ written = <<>> /\ refused = FALSE

Total(file) == FoldLeft(LAMBDA sum, r : sum + r.size, 0, file)
CurrentFileSize == Total(files[0])

(* WriteFile: the record is at the end of the active file, or nowhere.         *)
Append1(r) == \/ /\ files' = [files EXCEPT ![0] = Append(@, r)]
                 /\ written' = Append(written, r)
              \/ UNCHANGED <<files, written>>

(* WriteEntry up to the rotation, or to its end if there is none. A size that  *)
(* cannot be read counts as zero.                                              *)
WriteEntry(size) ==
    /\ step = Resting /\ Len(written) < MaxRecords
    /\ LET r == [n |-> Len(written) + 1, size |-> size] IN
       \/ ~open /\ UNCHANGED logVars
       \/ /\ CurrentFileSize + size > MaxBytes
          /\ step' = At("delete", MaxFiles) /\ open' = FALSE /\ pending' = r
          /\ UNCHANGED <<files, written, refused>>
       \/ /\ refused' = (refused \/ CurrentFileSize + size > MaxBytes)
          /\ open' = TRUE
          /\ Append1(r)
          /\ UNCHANGED <<step, pending>>

(* RotateFiles: the oldest file is deleted, each is moved to the next number   *)
(* from the oldest on, replacing what is there, and last the active one.       *)
DeleteOldest ==
    /\ step.call = "delete"
    /\ \/ files' = [files EXCEPT ![MaxFiles] = <<>>] /\ UNCHANGED refused
       \/ files[MaxFiles] # <<>> /\ refused' = TRUE /\ UNCHANGED files
    /\ step' = At("move", MaxFiles - 1)
    /\ UNCHANGED <<open, pending, written>>

(* As MoveNext, from the newest on.                                            *)
MoveNextUpwards ==
    /\ step.call = "move"
    /\ LET i == MaxFiles - 1 - step.index IN
       files' = IF files[i] = <<>> THEN files
                ELSE [files EXCEPT ![i + 1] = files[i], ![i] = <<>>]
    /\ step' = IF step.index = 0 THEN At("reopen", 0) ELSE At("move", step.index - 1)
    /\ UNCHANGED <<open, pending, written, refused>>

MoveNext ==
    /\ step.call = "move"
    /\ LET i == step.index IN
       \/ /\ files' = IF files[i] = <<>> THEN files
                      ELSE [files EXCEPT ![i + 1] = files[i], ![i] = <<>>]
          /\ UNCHANGED refused
       \/ files[i] # <<>> /\ refused' = TRUE /\ UNCHANGED files
    /\ step' = IF step.index = 0 THEN At("reopen", 0) ELSE At("move", step.index - 1)
    /\ UNCHANGED <<open, pending, written>>

(* The rest of WriteEntry: OpenLogFile may fail, and the record is lost.       *)
Reopen ==
    /\ step.call = "reopen"
    /\ step' = Resting /\ pending' = NoRecord
    /\ \/ open' = FALSE /\ UNCHANGED <<files, written>>
       \/ open' = TRUE /\ Append1(pending)
    /\ UNCHANGED refused

(* The writer ends, or the process does, wherever it is.                       *)
WriterEnds == /\ open \/ step # Resting
              /\ open' = FALSE /\ step' = Resting /\ pending' = NoRecord
              /\ UNCHANGED <<files, written, refused>>

LogNext == \/ \E size \in Sizes : WriteEntry(size)
           \/ DeleteOldest \/ MoveNext \/ Reopen \/ WriterEnds

-----------------------------------------------------------------------------
(* Properties                                                                  *)

(* The files from the oldest number to the active one.                         *)
Retained == FlattenSeq([i \in 1 .. MaxFiles + 1 |-> files[MaxFiles + 1 - i]])

(* Read from the highest number down, the records are in the order they were   *)
(* written in, whatever failed and whenever the process ended; and as long as  *)
(* no call failed they are the last ones written, without a gap, in files that *)
(* keep the limit (RotateFiles, "asynchronous bounded log rotation").          *)
LogKept ==
    /\ \A i, j \in DOMAIN Retained : i < j => Retained[i].n < Retained[j].n
    /\ ~refused =>
         /\ IsSuffix(Retained, written)
         /\ \A i \in Numbers : Total(files[i]) <= MaxBytes
=============================================================================

------------------------------- MODULE Logger -------------------------------
(***************************************************************************)
(* The log that all three processes write (lib/GlobalModules/Logger): a    *)
(* queue that is written out when it is full, into files that are changed  *)
(* before they grow past a limit.  Opening and writing a file may fail,    *)
(* and files may be removed from outside.                                  *)
(***************************************************************************)
EXTENDS Naturals, Sequences, SequencesExt

CONSTANTS MaxFileSize,      \* MAX_FILESIZE
          DeltaFileSize,    \* __DELTA_FILESIZE
          MaxQueueSize,     \* __max_queue_size
          Sizes,            \* the sizes of messages
          MaxMessages, MaxFaults    \* bounds of the instance

ASSUME LoggerAssumption ==
    /\ {MaxFileSize, DeltaFileSize, MaxMessages, MaxFaults} \subseteq Nat
    /\ DeltaFileSize <= MaxFileSize
    /\ MaxQueueSize \in Nat \ {0} /\ Sizes \subseteq Nat \ {0}

VARIABLES queue,    \* __message_log_queue: the numbers of the messages
          files,    \* every file the log has had, oldest first
          named,    \* whether __filename is that of Last(files), or of no file
          size,     \* history: the sizes of the messages logged so far
          lost,     \* history: the messages a failed write has swallowed
          failed,   \* history: whether the last attempt wrote nothing
          faults    \* how many faults there have been

vars == <<queue, files, named, size, lost, failed, faults>>

(* late: history, it was written to after an attempt that wrote nothing. *)
File == [text : Seq(Nat), exists : BOOLEAN, late : BOOLEAN]
NewFile == [text |-> <<>>, exists |-> TRUE, late |-> FALSE]

(* The bytes of a text, by the sizes of all messages.                       *)
Bytes(sizes, text) ==
    LET upTo[i \in 0..Len(text)] == IF i = 0 THEN 0 ELSE upTo[i - 1] + sizes[text[i]]
    IN  upTo[Len(text)]

(* Logger::init opens the first file, or ends the process. *)
Init ==
    /\ queue = <<>>
    /\ files = <<NewFile>>
    /\ named = TRUE
    /\ size = <<>>
    /\ lost = {}
    /\ failed = FALSE
    /\ faults = 0

Fault == faults < MaxFaults /\ faults' = faults + 1

Missing == ~ named \/ ~ Last(files).exists
Full == Bytes(size, Last(files).text) > MaxFileSize - DeltaFileSize

(* An attempt that ends before anything is written: CHECK_FILESIZE, or      *)
(* FILE_NOT_OPEN, after which __filename may be that of a file which was    *)
(* never made.                                                              *)
NothingWritten(waiting) ==
    /\ queue' = waiting
    /\ failed' = TRUE
    /\ UNCHANGED <<files, lost>>
    /\ \/ /\ Missing
          /\ UNCHANGED <<named, faults>>
       \/ /\ ~ Missing /\ Fault
          /\ named' \in (IF Full THEN BOOLEAN ELSE {TRUE})

(* Mutants of Written: the queue is written out backwards; the size of the *)
(* file is not looked at.                                                   *)
WrittenBackwards(waiting) ==
    /\ ~ Missing
    /\ queue' = <<>> /\ failed' = FALSE
    /\ files' = Append(files, [NewFile EXCEPT !.text = Reverse(waiting)])
    /\ UNCHANGED <<named, lost, faults>>

WrittenWithoutRotation(waiting) ==
    /\ ~ Missing
    /\ queue' = <<>> /\ failed' = FALSE
    /\ files' = [files EXCEPT ![Len(files)].text = @ \o waiting]
    /\ UNCHANGED <<named, lost, faults>>

(* The file is open: what is written before the stream fails is there, the *)
(* rest leaves the queue all the same.  A new name is the old one again     *)
(* when it is made within the same millisecond.                             *)
Written(waiting) ==
    /\ ~ Missing
    /\ queue' = <<>>
    /\ failed' = FALSE
    /\ \E kept \in 0..Len(waiting), renamed \in (IF Full THEN BOOLEAN ELSE {FALSE}) :
        LET more == IF renamed THEN Append(files, NewFile) ELSE files
        IN  /\ files' = [more EXCEPT ![Len(more)] =
                            [Last(more) EXCEPT !.text = @ \o SubSeq(waiting, 1, kept),
                                               !.late = @ \/ failed \/ (Full /\ ~ renamed)]]
            /\ lost' = lost \cup {waiting[i] : i \in (kept + 1)..Len(waiting)}
            /\ IF kept < Len(waiting) THEN Fault ELSE UNCHANGED faults
    /\ UNCHANGED named

(* Mutant of WriteLog: the queue is written when it is past its limit. *)
WriteLogLate ==
    /\ Len(size) < MaxMessages
    /\ \E n \in Sizes : size' = Append(size, n)
    /\ LET waiting == Append(queue, Len(size) + 1)
       IN  IF Len(waiting) > MaxQueueSize
           THEN NothingWritten(waiting) \/ Written(waiting)
           ELSE queue' = waiting /\ UNCHANGED <<files, named, lost, failed, faults>>

(* Logger::writeLog with __writeLogQueue. *)
WriteLog ==
    /\ Len(size) < MaxMessages
    /\ \E n \in Sizes : size' = Append(size, n)
    /\ LET waiting == Append(queue, Len(size) + 1)
       IN  IF Len(waiting) >= MaxQueueSize
           THEN NothingWritten(waiting) \/ Written(waiting)
           ELSE queue' = waiting /\ UNCHANGED <<files, named, lost, failed, faults>>

(* Someone removes the file that is in use. *)
Removed ==
    /\ ~ Missing /\ Fault
    /\ files' = [files EXCEPT ![Len(files)].exists = FALSE]
    /\ UNCHANGED <<queue, named, size, lost, failed>>

Next == WriteLog \/ Removed

Spec == Init /\ [][Next]_vars

-----------------------------------------------------------------------------
(* Properties. *)

(* Every variable has its type, and the queue reaches its limit only while  *)
(* attempts to write it fail.                                               *)
TypeOK ==
    /\ queue \in Seq(Nat) /\ (Len(queue) >= MaxQueueSize => failed)
    /\ files \in Seq(File) /\ files # <<>>
    /\ named \in BOOLEAN /\ failed \in BOOLEAN
    /\ size \in Seq(Sizes)
    /\ lost \subseteq DOMAIN size
    /\ faults \in 0..MaxFaults

(* The log is the messages in the order in which they were logged, in the   *)
(* files from the oldest on and then in the queue, without those that a     *)
(* failed write has swallowed: no rotation and no failed attempt loses,     *)
(* doubles or reorders one.                                                 *)
Logged == FlattenSeq([i \in DOMAIN files |-> files[i].text]) \o queue
LogInOrder ==
    /\ \A i, j \in DOMAIN Logged : i < j => Logged[i] < Logged[j]
    /\ Range(Logged) = DOMAIN size \ lost

(* A file is not larger than MAX_FILESIZE as long as what is written at one *)
(* time is not larger than __DELTA_FILESIZE: but for long messages, for     *)
(* what has waited for an attempt to succeed, and for a rotation that gave  *)
(* the same name again.                                                     *)
FileWithinLimit ==
    \A i \in DOMAIN files :
        \/ files[i].late
        \/ \E k \in DOMAIN files[i].text : size[files[i].text[k]] * MaxQueueSize > DeltaFileSize
        \/ Bytes(size, files[i].text) <= MaxFileSize
=============================================================================

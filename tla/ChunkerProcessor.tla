--------------------------- MODULE ChunkerProcessor ---------------------------
(***************************************************************************)
(* The processes that run one background operational command (class        *)
(* ChunkerProcessor, chunker2_processor.cc).  start_new forks a reader,    *)
(* the reader forks a writer, the writer executes opc with its output in a *)
(* pipe, and the reader moves what it finds in the pipe to the data file   *)
(* of the command's token.  At end of file it writes a second file, the      *)
(* end file, which tells everybody else that the data                      *)
(* file is complete.                                                       *)
(*                                                                         *)
(* Bytes are abstracted to counts: the output of a command is the sequence *)
(* of positions 1..emitted, and a file is the length of the prefix that it *)
(* holds.                                                                  *)
(***************************************************************************)
EXTENDS Integers, Sequences

CONSTANTS
    Tokens,      \* the tokens Rest::generate_token can return
    ChunkSize,   \* _chunk_size: most bytes one read of the pipe takes
    PipeSize,    \* capacity of the kernel's pipe
    MaxOutput,   \* bound: bytes one command writes
    Faults,      \* the system calls that may fail
    Stubborn     \* the tokens whose command survives SIGTERM

FaultNames == {"fork", "pipe", "loginuid", "pidfile", "execve", "fopen"}

ASSUME SizesAssumption ==
    /\ ChunkSize \in Nat \ {0}
    /\ PipeSize \in Nat \ {0}
    /\ MaxOutput \in Nat

ASSUME FaultsAssumption == Faults \subseteq FaultNames

VARIABLES
    writer,      \* writer[t]: where the process that becomes opc is
    reader,      \* reader[t]: where the process that drains the pipe is
    emitted,     \* emitted[t]: bytes the command has written so far
    taken,       \* taken[t]: bytes the reader has taken from the pipe
    data,        \* data[t]: length of the data file, or NoFile
    endf,        \* endf[t]: the end file exists
    pidf         \* pidf[t]: the pid file exists and holds the group's pid

procVars == <<writer, reader, emitted, taken, data, endf, pidf>>

NoFile == -1

(***************************************************************************)
(* "setup": after fork, before the pid file.  "pid": after the pid file,   *)
(* before execve.  "run": opc is executing.                                *)
(***************************************************************************)
WriterStates == {"none", "setup", "pid", "run", "dead"}

(***************************************************************************)
(* "setup": between the two forks.  "read": in the read loop.  "end":      *)
(* between the data file and the end file of process_chunk_end.            *)
(***************************************************************************)
ReaderStates == {"none", "setup", "read", "end", "gone"}

ProcTypeOK ==
    /\ writer \in [Tokens -> WriterStates]
    /\ reader \in [Tokens -> ReaderStates]
    /\ emitted \in [Tokens -> Nat]
    /\ taken \in [Tokens -> Nat]
    /\ data \in [Tokens -> Nat \cup {NoFile}]
    /\ endf \in [Tokens -> BOOLEAN]
    /\ pidf \in [Tokens -> BOOLEAN]

ProcInit ==
    /\ writer = [t \in Tokens |-> "none"]
    /\ reader = [t \in Tokens |-> "none"]
    /\ emitted = [t \in Tokens |-> 0]
    /\ taken = [t \in Tokens |-> 0]
    /\ data = [t \in Tokens |-> NoFile]
    /\ endf = [t \in Tokens |-> FALSE]
    /\ pidf = [t \in Tokens |-> FALSE]

-----------------------------------------------------------------------------
Least(a, b) == IF a <= b THEN a ELSE b

\* The outcomes of a system call: it fails only where the model lets it.
Succeeds(call) == IF call \in Faults THEN BOOLEAN ELSE {TRUE}

\* Bytes in the pipe.
InPipe(t) == emitted[t] - taken[t]

\* A file that is opened for appending exists afterwards.
Opened(size) == IF size = NoFile THEN 0 ELSE size

(***************************************************************************)
(* start_new, the manager's side: it returns true whatever fork returns,   *)
(* and the child goes on by itself.                                        *)
(***************************************************************************)
start_new(t) ==
    /\ \E forked \in Succeeds("fork") :
          reader' = IF forked THEN [reader EXCEPT ![t] = "setup"] ELSE reader
    /\ UNCHANGED <<writer, emitted, taken, data, endf, pidf>>

\* The child makes the pipe and forks the writer.  Without a writer the pipe
\* has no writing end and the reader meets end of file at once.
Detach(t) ==
    /\ reader[t] = "setup"
    /\ \E piped \in Succeeds("pipe"), forked \in Succeeds("fork") :
          /\ reader' = [reader EXCEPT ![t] = IF piped THEN "read" ELSE "gone"]
          /\ writer' = [writer EXCEPT ![t] = IF piped /\ forked THEN "setup"
                                                               ELSE "dead"]
    /\ UNCHANGED <<emitted, taken, data, endf, pidf>>

(***************************************************************************)
(* The writer writes the number of its process group to the pid file and   *)
(* goes on also when it cannot; with no login uid it exits before that.    *)
(***************************************************************************)
pid_output(t) ==
    /\ writer[t] = "setup"
    /\ \E isUser \in Succeeds("loginuid"), written \in Succeeds("pidfile") :
          /\ writer' = [writer EXCEPT ![t] = IF isUser THEN "pid" ELSE "dead"]
          /\ pidf' = [pidf EXCEPT ![t] = isUser /\ written]
    /\ UNCHANGED <<reader, emitted, taken, data, endf>>

\* The writer becomes opc, or exits.
Execve(t) ==
    /\ writer[t] = "pid"
    /\ \E done \in Succeeds("execve") :
          writer' = [writer EXCEPT ![t] = IF done THEN "run" ELSE "dead"]
    /\ UNCHANGED <<reader, emitted, taken, data, endf, pidf>>

(***************************************************************************)
(* opc (not part of this repository): it writes to the pipe when there is  *)
(* room, is killed by SIGPIPE when nobody can read, and exits when done.   *)
(***************************************************************************)
OpcWrite(t) ==
    /\ writer[t] = "run"
    /\ emitted[t] < MaxOutput
    /\ InPipe(t) < PipeSize
    /\ IF reader[t] = "gone"
       THEN /\ writer' = [writer EXCEPT ![t] = "dead"]
            /\ UNCHANGED emitted
       ELSE /\ emitted' = [emitted EXCEPT ![t] = @ + 1]
            /\ UNCHANGED writer
    /\ UNCHANGED <<reader, taken, data, endf, pidf>>

OpcExit(t) ==
    /\ writer[t] = "run"
    /\ writer' = [writer EXCEPT ![t] = "dead"]
    /\ UNCHANGED <<reader, emitted, taken, data, endf, pidf>>

\* One turn of the reader's loop: a chunk leaves the pipe and is appended to
\* the data file.  A chunk whose file cannot be opened is dropped.
process_chunk(t) ==
    /\ reader[t] = "read"
    /\ InPipe(t) > 0
    /\ LET n == Least(ChunkSize, InPipe(t)) IN
          /\ taken' = [taken EXCEPT ![t] = @ + n]
          /\ \E opened \in Succeeds("fopen") :
                data' = IF opened
                        THEN [data EXCEPT ![t] = Opened(@) + n]
                        ELSE data
    /\ UNCHANGED <<writer, reader, emitted, endf, pidf>>

\* Mutant: the writer's death taken for the end, whatever the pipe holds.
process_chunk_end_early(t) ==
    /\ reader[t] = "read"
    /\ writer[t] = "dead"
    /\ reader' = [reader EXCEPT ![t] = "end"]
    /\ \E opened \in Succeeds("fopen") :
          data' = IF opened THEN [data EXCEPT ![t] = Opened(@)] ELSE data
    /\ UNCHANGED <<writer, emitted, taken, endf, pidf>>

\* End of file: the pipe is empty and nobody can write to it.  The remainder
\* is always empty (process_chunk returns ""), so this creates the data file
\* at most.
process_chunk_end(t) ==
    /\ reader[t] = "read"
    /\ InPipe(t) = 0
    /\ writer[t] = "dead"
    /\ reader' = [reader EXCEPT ![t] = "end"]
    /\ \E opened \in Succeeds("fopen") :
          data' = IF opened THEN [data EXCEPT ![t] = Opened(@)] ELSE data
    /\ UNCHANGED <<writer, emitted, taken, endf, pidf>>

\* Mutant: no end file for a command without output.
WriteEndFile_nonempty(t) ==
    /\ reader[t] = "end"
    /\ reader' = [reader EXCEPT ![t] = "gone"]
    /\ endf' = [endf EXCEPT ![t] = taken[t] > 0]
    /\ UNCHANGED <<writer, emitted, taken, data, pidf>>

\* The end file is written, and the reader exits: its child is dead.
WriteEndFile(t) ==
    /\ reader[t] = "end"
    /\ reader' = [reader EXCEPT ![t] = "gone"]
    /\ \E opened \in Succeeds("fopen") : endf' = [endf EXCEPT ![t] = opened]
    /\ UNCHANGED <<writer, emitted, taken, data, pidf>>

ProcessorStep(t) ==
    \/ Detach(t)
    \/ pid_output(t)
    \/ Execve(t)
    \/ process_chunk(t)
    \/ process_chunk_end(t)
    \/ WriteEndFile(t)

OpcStep(t) == OpcWrite(t) \/ OpcExit(t)

-----------------------------------------------------------------------------
(***************************************************************************)
(* Signals to the process group.  The reader, and the writer until execve  *)
(* resets it, keep the handler sig_end of the manager's main: SIGTERM only *)
(* sets g_shutdown there, which neither of them reads.                     *)
(***************************************************************************)
AfterTerm(t) ==
    IF writer[t] = "run" /\ t \notin Stubborn THEN "dead" ELSE writer[t]

\* "kill -15 -<group>"
SignalTerm(t) ==
    /\ writer' = [writer EXCEPT ![t] = AfterTerm(t)]
    /\ UNCHANGED reader

\* "kill -9 -<group>"
SignalKill(t) ==
    /\ writer' = [writer EXCEPT ![t] = "dead"]
    /\ reader' = [reader EXCEPT ![t] = "gone"]

\* The leader of the group is the reader.
LeaderExists(t) == reader[t] \notin {"none", "gone"}

=============================================================================

---------------------------- MODULE ChunkerManager ----------------------------
(***************************************************************************)
(* The chunker2 daemon's main process (class ChunkerManager,               *)
(* chunker2_manager.cc, and the loop of chunker2_main.cc).  It accepts one *)
(* connection at a time, reads one message from it, handles the message,   *)
(* answers some of them, and closes the connection.  Its table says which  *)
(* commands it has started, for whom, and how far their output has been    *)
(* handed out.                                                             *)
(***************************************************************************)
EXTENDS ChunkerProcessor

CONSTANTS
    Users,
    Backlog,       \* connections that wait in the listen queue
    UnsignedMod,   \* 2^32: "(unsigned)s.st_size" keeps the size modulo this
    KillAttempts   \* SIGTERMs kill_process means to send

ASSUME ManagerAssumption ==
    /\ Backlog \in Nat \ {0}
    /\ UnsignedMod \in Nat \ {0}
    /\ KillAttempts \in Nat \ {0}

VARIABLES
    status,   \* status[t]: NoEntry, or the entry's _status
    offset,   \* offset[t]: the entry's _read_offset
    owner,    \* owner[t]: the entry's _user (NoUser before there is one)
    conns,    \* the connections not yet accepted, each with its message
    mpc,      \* what the manager is doing
    mtok,     \* the token of the message in hand
    mresp,    \* the offset the answer to <next> will carry
    mct,      \* kill_process: attempts left
    reply     \* what the connected client can read

tableVars == <<status, offset, owner>>
serverVars == <<conns, mpc, mtok, mresp, mct, reply>>
mgrVars == <<tableVars, serverVars>>

NoEntry == "absent"
K_RUNNING == "running"
K_DEAD == "dead"
NoUser == "nobody"
NoToken == "123456"
DeadOffset == -1

Ops == {"command", "process", "details", "next", "delete"}
Messages ==
    [op : {"process"}, tok : {NoToken}, user : Users, stmt : BOOLEAN]
        \cup [op : Ops \ {"process"}, tok : Tokens, user : Users, stmt : BOOLEAN]

(***************************************************************************)
(* Answers: nothing yet; no text (an empty answer, blanks, or a connection *)
(* that was reset); the details of an entry; the offset for the next       *)
(* chunk; the tokens of a user's entries.                                  *)
(***************************************************************************)
ReplyKinds == {"none", "empty", "details", "offset", "list"}
Replies == [kind : ReplyKinds, off : Int, toks : SUBSET Tokens]
NoReply == [kind |-> "none", off |-> 0, toks |-> {}]
EmptyReply == [kind |-> "empty", off |-> 0, toks |-> {}]
DetailsReply == [kind |-> "details", off |-> 0, toks |-> {}]
OffsetReply(n) == [kind |-> "offset", off |-> n, toks |-> {}]
ListReply(ts) == [kind |-> "list", off |-> 0, toks |-> ts]

MgrTypeOK ==
    /\ status \in [Tokens -> {NoEntry, K_RUNNING, K_DEAD}]
    /\ offset \in [Tokens -> Int]
    /\ owner \in [Tokens -> Users \cup {NoUser}]
    /\ conns \in Seq(Messages)
    /\ mpc \in {"down", "idle", "endstat", "term", "procstat"}
    /\ mtok \in Tokens \cup {NoToken}
    /\ mpc \in {"endstat", "term", "procstat"} => mtok \in Tokens
    /\ mresp \in Int
    /\ mct \in Nat
    /\ reply \in Replies

MgrInit ==
    /\ status = [t \in Tokens |-> NoEntry]
    /\ offset = [t \in Tokens |-> 0]
    /\ owner = [t \in Tokens |-> NoUser]
    /\ conns = <<>>
    /\ mpc = "idle"
    /\ mtok = NoToken
    /\ mresp = 0
    /\ mct = 0
    /\ reply = NoReply

-----------------------------------------------------------------------------
(***************************************************************************)
(* read(): accept the oldest connection.                                   *)
(***************************************************************************)
Accept(op) ==
    /\ mpc = "idle"
    /\ conns # <<>>
    /\ Head(conns).op = op
    /\ conns' = Tail(conns)

\* Done with the message: back to the loop of main.
Finish ==
    /\ mpc' = "idle"
    /\ mtok' = NoToken
    /\ mresp' = 0
    /\ mct' = 0

\* Mutant: everybody's entries.
Entries_all(u) == {t \in Tokens : status[t] # NoEntry}

Entries(u) == {t \in Tokens : status[t] # NoEntry /\ owner[t] = u}

(***************************************************************************)
(* <command>: without a statement start_new refuses, and there is no       *)
(* entry.  Tokens are new, so the entry never exists already.              *)
(***************************************************************************)
HandleCommand ==
    /\ Accept("command")
    /\ LET t == Head(conns).tok IN
       IF Head(conns).stmt
       THEN /\ start_new(t)
            /\ status' = [status EXCEPT ![t] = K_RUNNING]
            /\ offset' = [offset EXCEPT ![t] = 0]
            /\ owner' = [owner EXCEPT ![t] = Head(conns).user]
       ELSE UNCHANGED <<procVars, tableVars>>
    /\ UNCHANGED <<mpc, mtok, mresp, mct, reply>>

\* <process>: the user's entries.
HandleProcess ==
    /\ Accept("process")
    /\ reply' = ListReply(Entries(Head(conns).user))
    /\ UNCHANGED <<procVars, tableVars, mpc, mtok, mresp, mct>>

\* Mutant: an unknown token is not answered.
HandleDetails_found ==
    /\ Accept("details")
    /\ reply' = IF Head(conns).tok \in Entries(Head(conns).user)
                THEN DetailsReply ELSE reply
    /\ UNCHANGED <<procVars, tableVars, mpc, mtok, mresp, mct>>

\* <details>: the user's entry for the token, or nothing.
HandleDetails ==
    /\ Accept("details")
    /\ reply' = IF Head(conns).tok \in Entries(Head(conns).user)
                THEN DetailsReply ELSE EmptyReply
    /\ UNCHANGED <<procVars, tableVars, mpc, mtok, mresp, mct>>

Unsigned(n) == n % UnsignedMod

\* The offset an entry shows: a dead one is reset to -1 before it is read.
ShownOffset(t) == IF status[t] = K_DEAD THEN DeadOffset ELSE offset[t]

\* Mutant: any byte beyond n counts as a chunk.
ChunkAvailable_byte(t, n) == Unsigned(data[t]) > n

\* A full chunk lies beyond offset n of t's data file.
ChunkAvailable(t, n) == Unsigned(data[t]) > n + ChunkSize

(***************************************************************************)
(* <next>: the answer carries the offset as it is now; then the offset is  *)
(* moved by a chunk, or to the file's end when there is less than that.    *)
(* In the second case the end file is looked for afterwards, in a separate *)
(* system call: NextEndStat.                                               *)
(***************************************************************************)
HandleNext ==
    /\ Accept("next")
    /\ LET t == Head(conns).tok
           n == ShownOffset(t)
       IN  IF t \notin Entries(Head(conns).user)
           THEN /\ reply' = EmptyReply
                /\ UNCHANGED <<tableVars, mpc, mtok, mresp>>
           ELSE /\ \/ /\ data[t] = NoFile
                      /\ offset' = [offset EXCEPT ![t] = n]
                      /\ reply' = OffsetReply(n)
                      /\ UNCHANGED <<mpc, mtok, mresp>>
                   \/ /\ data[t] # NoFile
                      /\ ChunkAvailable(t, n)
                      /\ offset' = [offset EXCEPT ![t] = n + ChunkSize]
                      /\ reply' = OffsetReply(n)
                      /\ UNCHANGED <<mpc, mtok, mresp>>
                   \/ /\ data[t] # NoFile
                      /\ ~ChunkAvailable(t, n)
                      /\ offset' = [offset EXCEPT ![t] = data[t]]
                      /\ mpc' = "endstat"
                      /\ mtok' = t
                      /\ mresp' = n
                      /\ UNCHANGED reply
                /\ UNCHANGED <<status, owner>>
    /\ UNCHANGED <<procVars, mct>>

\* Mutant: an entry read to the file's end is dead, end file or not.
NextEndStat_blind ==
    /\ mpc = "endstat"
    /\ status' = [status EXCEPT ![mtok] = K_DEAD]
    /\ reply' = OffsetReply(mresp)
    /\ Finish
    /\ UNCHANGED <<procVars, offset, owner, conns>>

NextEndStat ==
    /\ mpc = "endstat"
    /\ status' = IF endf[mtok] THEN [status EXCEPT ![mtok] = K_DEAD] ELSE status
    /\ reply' = OffsetReply(mresp)
    /\ Finish
    /\ UNCHANGED <<procVars, offset, owner, conns>>

(***************************************************************************)
(* <delete>: kill_process.  Without a readable pid file it returns at      *)
(* once.  The user in the message is not looked at.                        *)
(***************************************************************************)
HandleDelete ==
    /\ Accept("delete")
    /\ LET t == Head(conns).tok IN
       IF pidf[t]
       THEN /\ pidf' = [pidf EXCEPT ![t] = FALSE]
            /\ mpc' = "term"
            /\ mtok' = t
            /\ mct' = KillAttempts
       ELSE UNCHANGED <<pidf, mpc, mtok, mct>>
    /\ UNCHANGED <<tableVars, mresp, reply>>
    /\ UNCHANGED <<writer, reader, emitted, taken, data, endf>>

KillTerm ==
    /\ mpc = "term"
    /\ SignalTerm(mtok)
    /\ mpc' = "procstat"
    /\ UNCHANGED <<emitted, taken, data, endf, pidf>>
    /\ UNCHANGED <<tableVars, conns, mtok, mresp, mct, reply>>

\* pid_output ends the number with a newline.
PidHasNewline == TRUE

\* stat("/proc/" + pid + "/stat"), with pid as it was read from the pid file:
\* no path with a newline in it exists.
ProcStatFound(t) == ~PidHasNewline /\ LeaderExists(t)

(***************************************************************************)
(* A second after the signal.  Leader still there: try again, and after    *)
(* the last attempt send SIGKILL.  The entry goes in the end.              *)
(***************************************************************************)
KillCheck ==
    /\ mpc = "procstat"
    /\ IF ProcStatFound(mtok) /\ mct > 1
       THEN /\ mpc' = "term"
            /\ mct' = mct - 1
            /\ UNCHANGED <<writer, reader, status, mtok, mresp>>
       ELSE /\ IF ProcStatFound(mtok) THEN SignalKill(mtok)
                                      ELSE UNCHANGED <<writer, reader>>
            /\ status' = [status EXCEPT ![mtok] = NoEntry]
            /\ Finish
    /\ UNCHANGED <<emitted, taken, data, endf, pidf>>
    /\ UNCHANGED <<offset, owner, conns, reply>>

ManagerStep ==
    \/ HandleCommand
    \/ HandleProcess
    \/ HandleDetails
    \/ HandleNext
    \/ NextEndStat
    \/ HandleDelete
    \/ KillTerm
    \/ KillCheck

-----------------------------------------------------------------------------
(***************************************************************************)
(* "pkill -9 chunker2" of the service script's stop: the manager, every    *)
(* reader and every writer that is not yet opc die.  Connections in the    *)
(* queue are reset; a client that waits for an answer reads nothing.       *)
(***************************************************************************)
Stop(waiting) ==
    /\ mpc # "down"
    /\ mpc' = "down"
    /\ reader' = [t \in Tokens |-> IF LeaderExists(t) THEN "gone" ELSE reader[t]]
    /\ writer' = [t \in Tokens |-> IF writer[t] \in {"setup", "pid"}
                                   THEN "dead" ELSE writer[t]]
    /\ status' = [t \in Tokens |-> NoEntry]
    /\ conns' = <<>>
    /\ mtok' = NoToken
    /\ mresp' = 0
    /\ mct' = 0
    /\ reply' = IF waiting /\ reply = NoReply THEN EmptyReply ELSE reply
    /\ UNCHANGED <<emitted, taken, data, endf, pidf, offset, owner>>

\* start: init() removes every file of the output directory and listens.
init ==
    /\ mpc = "down"
    /\ mpc' = "idle"
    /\ data' = [t \in Tokens |-> NoFile]
    /\ endf' = [t \in Tokens |-> FALSE]
    /\ UNCHANGED <<writer, reader, emitted, taken, pidf>>
    /\ UNCHANGED <<tableVars, conns, mtok, mresp, mct, reply>>

-----------------------------------------------------------------------------
(***************************************************************************)
(* The client's end (MultiResponseCommand): init() connects, and a message *)
(* is written at once.  connect() is refused when nobody listens, and      *)
(* waits while the listen queue is full.                                   *)
(***************************************************************************)
CanConnect == mpc # "down" /\ Len(conns) < Backlog

Message(op, t, u, s) == [op |-> op, tok |-> t, user |-> u, stmt |-> s]

\* Mutant: the newest connection is accepted first.
Send_first(op, t, u) ==
    /\ CanConnect
    /\ conns' = <<Message(op, t, u, FALSE)>> \o conns

Send(op, t, u) ==
    /\ CanConnect
    /\ conns' = Append(conns, Message(op, t, u, FALSE))

Refused == mpc = "down"

=============================================================================

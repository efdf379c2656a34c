-------------------------------- MODULE OpMode --------------------------------
(***************************************************************************)
(* Operational mode of the REST server (class OpMode, opmode.cc, with      *)
(* MultiResponseCommand, multirespcmd.cc) on top of the chunker daemon.    *)
(* One worker process serves one HTTP request at a time.  A client posts a *)
(* command, gets a token, and asks for the next chunk of its output until  *)
(* the answer is 410; it may also list its commands and delete one.        *)
(*                                                                         *)
(* The worker runs beside the manager and beside the readers and writers   *)
(* of all commands: every system call that looks at their files or sockets *)
(* is a step of its own.                                                   *)
(***************************************************************************)
EXTENDS ChunkerManager

CONSTANTS
    ReadSize,     \* CHUNKER_READ_SIZE: most bytes one answer carries
    EndTexts,     \* positions where the output is the text "END" and no more
    StaleErrno    \* errno may hold an old EINVAL when get_chunk tests it

ASSUME OpModeAssumption ==
    /\ ReadSize \in Nat \ {0}
    /\ EndTexts \subseteq Nat
    /\ StaleErrno \in BOOLEAN

VARIABLES
    rpc,      \* where the worker is in the request it serves
    ruser,    \* the user of that request
    rtok,     \* the token of that request
    roff,     \* chunk_pos of get_chunk
    used,     \* the tokens handed out
    got,      \* got[t]: the client has the output up to this position
    gone      \* the <<user, token>> that were answered 410

workerVars == <<rpc, ruser, rtok, roff>>
clientVars == <<used, got, gone>>
restVars == <<workerVars, clientVars>>
vars == <<procVars, mgrVars, restVars>>

RestTypeOK ==
    /\ rpc \in {"idle", "list", "details", "found", "next", "stat", "endstat", "kill"}
    /\ ruser \in Users \cup {NoUser}
    /\ rtok \in Tokens \cup {NoToken}
    /\ rpc # "idle" => ruser \in Users
    /\ rpc \notin {"idle", "list"} => rtok \in Tokens
    /\ roff \in Int
    /\ used \subseteq Tokens
    /\ got \in [Tokens -> Nat]
    /\ gone \subseteq Users \X Tokens

TypeOK == ProcTypeOK /\ MgrTypeOK /\ RestTypeOK

Init ==
    /\ ProcInit
    /\ MgrInit
    /\ rpc = "idle"
    /\ ruser = NoUser
    /\ rtok = NoToken
    /\ roff = 0
    /\ used = {}
    /\ got = [t \in Tokens |-> 0]
    /\ gone = {}

-----------------------------------------------------------------------------
\* The worker begins a request that has to wait for an answer.
Begin(pc, u, t) ==
    /\ rpc = "idle"
    /\ rpc' = pc
    /\ ruser' = u
    /\ rtok' = t
    /\ UNCHANGED roff

\* The request is answered.
Answered ==
    /\ rpc' = "idle"
    /\ ruser' = NoUser
    /\ rtok' = NoToken
    /\ roff' = 0

GoTo(pc) ==
    /\ rpc' = pc
    /\ UNCHANGED <<ruser, rtok, roff>>

AnswerGone == Answered /\ gone' = gone \cup {<<ruser, rtok>>}

(***************************************************************************)
(* POST: the message goes out and the client is told 201, whatever the     *)
(* manager will make of it.  500 when the manager is down.                 *)
(***************************************************************************)
Post(u, t, s) ==
    /\ rpc = "idle"
    /\ t \notin used
    /\ CanConnect
    /\ conns' = Append(conns, Message("command", t, u, s))
    /\ used' = used \cup {t}
    /\ UNCHANGED <<procVars, tableVars, mpc, mtok, mresp, mct, reply>>
    /\ UNCHANGED <<workerVars, got, gone>>

\* GET of the list of background processes.
GetList(u) ==
    /\ Begin("list", u, NoToken)
    /\ Send("process", NoToken, u)
    /\ UNCHANGED <<procVars, tableVars, mpc, mtok, mresp, mct, reply, clientVars>>

\* Mutant: the list answered like a token that is gone.
ListAnswer_gone ==
    /\ rpc = "list"
    /\ reply # NoReply
    /\ reply' = NoReply
    /\ AnswerGone
    /\ UNCHANGED <<procVars, tableVars, conns, mpc, mtok, mresp, mct, used, got>>

ListAnswer ==
    /\ rpc = "list"
    /\ reply # NoReply
    /\ reply' = NoReply
    /\ Answered
    /\ UNCHANGED <<procVars, tableVars, conns, mpc, mtok, mresp, mct, clientVars>>

\* GET of the next chunk: first the details, to see whether the user has
\* such a process.
GetChunk(u, t) ==
    /\ t \in used
    /\ Begin("details", u, t)
    /\ Send("details", t, u)
    /\ UNCHANGED <<procVars, tableVars, mpc, mtok, mresp, mct, reply, clientVars>>

\* No details: 410.
DetailsAnswer ==
    /\ rpc = "details"
    /\ reply # NoReply
    /\ reply' = NoReply
    /\ IF reply.kind = "details"
       THEN GoTo("found") /\ UNCHANGED gone
       ELSE AnswerGone
    /\ UNCHANGED <<procVars, tableVars, conns, mpc, mtok, mresp, mct, used, got>>

\* A second connection, for the chunk.  500 when it is refused.
AskNext ==
    /\ rpc = "found"
    /\ \/ Send("next", rtok, ruser) /\ GoTo("next")
       \/ Refused /\ Answered /\ UNCHANGED conns
    /\ UNCHANGED <<procVars, tableVars, mpc, mtok, mresp, mct, reply, clientVars>>

(***************************************************************************)
(* get_chunk has the manager's answer.  No offset in it: 202.  The test    *)
(* for EINVAL reads whatever errno was left by an earlier call.            *)
(***************************************************************************)
NextAnswer ==
    /\ rpc = "next"
    /\ reply # NoReply
    /\ reply' = NoReply
    /\ \/ /\ reply.kind # "offset"
          /\ Answered
       \/ /\ reply.kind = "offset"
          /\ rpc' = "stat"
          /\ roff' = reply.off
          /\ UNCHANGED <<ruser, rtok>>
       \/ /\ StaleErrno
          /\ reply.kind = "offset"
          /\ reply.off = 0
          /\ Answered
    /\ UNCHANGED <<procVars, tableVars, conns, mpc, mtok, mresp, mct, clientVars>>

\* Mutant: the buffer's size, whatever the file holds.
ReadEnd_full(t, n) == n + ReadSize

\* Where the data file is read up to.
ReadEnd(t, n) == IF data[t] <= n THEN n ELSE Least(data[t], n + ReadSize)

\* The text read is "END", the word that get_chunk uses for the end.
TextIsEnd(n, m) == m = n + 1 /\ m \in EndTexts

(***************************************************************************)
(* get_chunk reads the data file from the offset it was given.  Text: 200. *)
(* No text: 202.  No data file, or offset -1: look for the end file next.  *)
(***************************************************************************)
ReadChunk ==
    /\ rpc = "stat"
    /\ LET m == ReadEnd(rtok, roff) IN
       IF data[rtok] # NoFile /\ roff >= 0
       THEN IF TextIsEnd(roff, m)
            THEN GoTo("kill") /\ UNCHANGED got
            ELSE /\ got' = [got EXCEPT ![rtok] = IF @ < m THEN m ELSE @]
                 /\ Answered
       ELSE GoTo("endstat") /\ UNCHANGED got
    /\ UNCHANGED <<procVars, mgrVars, used, gone>>

\* Mutant: no look at the end file.
EndStat_blind ==
    /\ rpc = "endstat"
    /\ endf' = [endf EXCEPT ![rtok] = FALSE]
    /\ data' = [data EXCEPT ![rtok] = NoFile]
    /\ GoTo("kill")
    /\ UNCHANGED <<writer, reader, emitted, taken, pidf, mgrVars, clientVars>>

\* The end file exists: both files are removed and the result is "END".
\* Otherwise 202.
EndStat ==
    /\ rpc = "endstat"
    /\ IF endf[rtok]
       THEN /\ endf' = [endf EXCEPT ![rtok] = FALSE]
            /\ data' = [data EXCEPT ![rtok] = NoFile]
            /\ GoTo("kill")
       ELSE Answered /\ UNCHANGED <<endf, data>>
    /\ UNCHANGED <<writer, reader, emitted, taken, pidf, mgrVars, clientVars>>

\* Mutant: the manager is not told.
EndAnswer_silent ==
    /\ rpc = "kill"
    /\ AnswerGone
    /\ UNCHANGED <<procVars, mgrVars, used, got>>

\* "END": 410, and the manager is told to delete the process.
EndAnswer ==
    /\ rpc = "kill"
    /\ \/ Send("delete", rtok, ruser) /\ AnswerGone
       \/ Refused /\ Answered /\ UNCHANGED <<conns, gone>>
    /\ UNCHANGED <<procVars, tableVars, mpc, mtok, mresp, mct, reply, used, got>>

\* DELETE: 200 as soon as the message is out.
Delete(u, t) ==
    /\ rpc = "idle"
    /\ t \in used
    /\ Send("delete", t, u)
    /\ UNCHANGED <<procVars, tableVars, mpc, mtok, mresp, mct, reply, restVars>>

WorkerStep ==
    \/ ListAnswer
    \/ DetailsAnswer
    \/ AskNext
    \/ NextAnswer
    \/ ReadChunk
    \/ EndStat
    \/ EndAnswer

Request ==
    \E u \in Users :
        \/ GetList(u)
        \/ \E t \in Tokens :
              \/ \E s \in BOOLEAN : Post(u, t, s)
              \/ GetChunk(u, t)
              \/ Delete(u, t)

(***************************************************************************)
(* The service script: stop kills the daemon, then the worker; start comes *)
(* after both.                                                             *)
(***************************************************************************)
StopDaemon ==
    /\ Stop(rpc \in {"list", "details", "next"})
    /\ UNCHANGED restVars

StopWorker ==
    /\ mpc = "down"
    /\ rpc # "idle"
    /\ Answered
    /\ reply' = NoReply
    /\ UNCHANGED <<procVars, tableVars, conns, mpc, mtok, mresp, mct, clientVars>>

StartDaemon ==
    /\ rpc = "idle"
    /\ init
    /\ UNCHANGED restVars

Next ==
    \/ \E t \in Tokens : ProcessorStep(t) /\ UNCHANGED <<mgrVars, restVars>>
    \/ \E t \in Tokens : OpcStep(t) /\ UNCHANGED <<mgrVars, restVars>>
    \/ ManagerStep /\ UNCHANGED restVars
    \/ WorkerStep
    \/ Request
    \/ StopDaemon
    \/ StopWorker
    \/ StartDaemon

Spec == Init /\ [][Next]_vars

-----------------------------------------------------------------------------
(***************************************************************************)
(* Safety.                                                                 *)
(***************************************************************************)

\* The end file, which the reader writes after the last chunk and which the
\* manager and get_chunk take as "no more will come" (chunker2_manager.cc:285,
\* multirespcmd.cc:256), exists only when the command has stopped and all it
\* wrote is in the data file.
EndFileMeansComplete ==
    \A t \in Tokens :
        endf[t] => /\ writer[t] = "dead"
                   /\ data[t] = emitted[t]

\* The chunk an answer to GET carries (get_chunk reading at chunk_pos) never
\* starts beyond what the client already has: the manager's _read_offset, moved
\* before the worker has read anything, does not make output disappear.
NoSkip == rpc = "stat" => roff <= got[rtok]

\* A pair of user and token that was answered 410 (OPMODE_PROCESS_FINISHED)
\* never gets as far as a chunk again, and is not listed again.
GoneIsForever ==
    /\ rpc \in {"found", "next", "stat", "endstat", "kill"}
          => <<ruser, rtok>> \notin gone
    /\ \A t \in reply.toks : <<ruser, t>> \notin gone

\* 201 is sent before the manager has seen the command.  No GET overtakes it:
\* while the command waits in the listen queue, nobody has been told 410.
PostedNotGone ==
    \A i \in DOMAIN conns :
        conns[i].op = "command" =>
            \A u \in Users : <<u, conns[i].tok>> \notin gone

\* get_chunk reads the files of a token only for the user whose command it is,
\* although the files outlive the entry that the check was made against.
OwnerOnly == rpc \in {"stat", "endstat", "kill"} => owner[rtok] = ruser

\* "END" comes out of get_chunk only when the command has stopped.
EndIsTrue == rpc = "kill" => writer[rtok] = "dead"

\* Offset -1 "denotes a terminated process that has been completely read"
\* (chunker2_manager.cc:270): the client has everything.
DeadIsComplete ==
    rpc \in {"stat", "endstat"} /\ roff = DeadOffset
        => got[rtok] = emitted[rtok]

\* When get_chunk says "END" and removes the files (multirespcmd.cc:253-262),
\* the client has everything.
EndIsComplete == rpc = "kill" => got[rtok] = emitted[rtok]

\* A chunk is "next" (multirespcmd.cc:178): it starts where the last one ended.
NoDup == rpc = "stat" /\ roff >= 0 => roff = got[rtok]

(***************************************************************************)
(* What a step may never do.                                               *)
(***************************************************************************)

\* DELETE "kills background process" (opmode.cc:292): a delete that the manager
\* takes for a token that it knows leads to the signals.
DeleteKills ==
    [][ \A t \in Tokens :
          /\ conns # <<>>
          /\ Head(conns).op = "delete"
          /\ Head(conns).tok = t
          /\ conns' = Tail(conns)
          /\ status[t] # NoEntry
          => mpc' = "term" ]_vars

\* kill_process uses the "big hammer" (chunker2_manager.cc:383) on what
\* survives SIGTERM: when it removes an entry, the command does not run.
KillIsFinal ==
    [][ \A t \in Tokens :
          /\ status[t] # NoEntry
          /\ status'[t] = NoEntry
          /\ mpc' # "down"
          => writer'[t] = "dead" ]_vars

-----------------------------------------------------------------------------
(***************************************************************************)
(* Liveness.  The manager's loop, the worker and the processes of a        *)
(* command are always scheduled again; the service script starts what it   *)
(* stopped; nothing is assumed of opc.                                     *)
(***************************************************************************)
Fairness ==
    /\ WF_vars(ManagerStep /\ UNCHANGED restVars)
    /\ WF_vars(WorkerStep)
    /\ WF_vars(StartDaemon)
    /\ \A t \in Tokens :
          WF_vars(ProcessorStep(t) /\ UNCHANGED <<mgrVars, restVars>>)

\* The client of RestClient.pm: it asks again until the answer is 410.
Polling ==
    \A u \in Users, t \in Tokens :
        SF_vars(GetChunk(u, t) /\ <<u, t>> \notin gone)

FairSpec == Spec /\ Fairness
PollingSpec == FairSpec /\ Polling

\* Every HTTP request is answered: neither a full listen queue nor the seconds
\* kill_process sleeps nor a restart leaves the worker waiting for the manager.
RequestAnswered == rpc # "idle" ~> rpc = "idle"

\* A client that keeps asking is told 410 once its command has ended, provided
\* the daemon is not restarted forever.
EventuallyGone ==
    <>[](mpc # "down") =>
        \A t \in Tokens :
            (writer[t] = "dead" /\ owner[t] # NoUser) ~> <<owner[t], t>> \in gone

-----------------------------------------------------------------------------
(***************************************************************************)
(* The stream a client sees.                                               *)
(***************************************************************************)
Stream == INSTANCE OutputStream WITH
    produced <- emitted,
    received <- got,
    finished <- {t \in Tokens : <<owner[t], t>> \in gone}

\* The requests of opmode.cc, the daemon and its processes together implement
\* the stream that a client is promised.
ImplementsStream == Stream!StreamSpec

-----------------------------------------------------------------------------
(***************************************************************************)
(* What makes NoSkip inductive (see OpModeProofs).                         *)
(***************************************************************************)
Questions == {"process", "details", "next"}

Waiting(op) ==
    IF op = "process" THEN "list" ELSE IF op = "details" THEN "details" ELSE "next"

\* The files hold what went through the pipe, and that is less than 2^32.
SizeInv ==
    \A t \in Tokens : /\ data[t] <= taken[t]
                      /\ taken[t] <= emitted[t]
                      /\ emitted[t] <= MaxOutput

\* Of the messages that are answered at most one is under way, it is the last
\* in the queue, and the worker waits for its answer.
QueueInv ==
    \A i \in DOMAIN conns :
        conns[i].op \in Questions =>
            /\ i = Len(conns)
            /\ rpc = Waiting(conns[i].op)
            /\ reply = NoReply
            /\ mpc # "endstat"
            /\ conns[i].op # "process" => conns[i].tok = rtok /\ conns[i].user = ruser

ReplyInv ==
    /\ reply # NoReply => rpc \in {"list", "details", "next"}
    /\ reply.kind = "offset" => rpc = "next"
    /\ mpc = "endstat" => rpc = "next" /\ mtok = rtok /\ reply = NoReply

\* A manager that is down has no table and no connections.
DownInv ==
    mpc = "down" => conns = <<>> /\ \A t \in Tokens : status[t] = NoEntry

\* The worker is about to read from an offset that it has, or will be given.
Pending(t) ==
    /\ rtok = t
    /\ mpc = "endstat" \/ reply.kind = "offset" \/ rpc = "stat"

PendingOff ==
    IF mpc = "endstat" THEN mresp
    ELSE IF reply.kind = "offset" THEN reply.off ELSE roff

\* The client has the output up to the manager's offset, or gets it with the
\* chunk that is about to be read.
OffsetInv ==
    \A t \in Tokens :
        /\ Pending(t) => PendingOff <= got[t]
        /\ status[t] = K_RUNNING =>
              /\ offset[t] >= 0
              /\ \/ offset[t] <= got[t]
                 \/ /\ Pending(t)
                    /\ PendingOff >= 0
                    /\ offset[t] <= data[t]
                    /\ offset[t] <= PendingOff + ReadSize

NoSkipInv == SizeInv /\ QueueInv /\ ReplyInv /\ DownInv /\ OffsetInv
=============================================================================

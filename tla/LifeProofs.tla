------------------------------ MODULE LifeProofs ------------------------------
(***************************************************************************)
(* The life of a command, from the message in the listen queue to the end  *)
(* file: who may read its output, when it is gone, and what its files say. *)
(***************************************************************************)
EXTENDS OpModeProofs

-----------------------------------------------------------------------------
(***************************************************************************)
(* The queue of connections again.                                         *)
(***************************************************************************)

LEMMA Talking == Spec => []TalkInv
<1>1. Init => TalkInv
  BY InitNoSkipInv DEF NoSkipInv, TalkInv
<1>2. QED
  BY <1>1, TalkStep, TypeCorrect, PTL DEF Spec

\* No command waits in the listen queue.
NoCommand == \A i \in DOMAIN conns : conns[i].op # "command"

\* The worker has found the process and is about to hand out a chunk.
Serving == {"found", "next", "stat", "endstat", "kill"}

\* A command is accepted before the answer to any later question: the queue is
\* first in, first out, and the worker posts nothing while it waits.
QuietInv ==
    /\ rpc \in Serving \/ reply # NoReply => NoCommand
    /\ \A i \in DOMAIN conns : conns[i].op = "process" => conns[i].user = ruser

LEMMA TailNoCommand ==
    ASSUME TypeOK, conns # <<>>, conns' = Tail(conns)
    PROVE  /\ NoCommand => NoCommand'
           /\ \A i \in DOMAIN conns' : \E j \in DOMAIN conns : conns'[i] = conns[j]
<1>1. conns \in Seq(Messages)
  BY DEF TypeOK, MgrTypeOK
<1>2. \A i \in DOMAIN conns' : i + 1 \in DOMAIN conns /\ conns'[i] = conns[i + 1]
  BY <1>1, TailQueue
<1>3. QED
  BY <1>2 DEF NoCommand

LEMMA TailIndex ==
    ASSUME conns \in Seq(Messages), conns # <<>>
    PROVE  \A i \in DOMAIN Tail(conns) : i \in Nat \ {0}
<1>1. Tail(conns) \in Seq(Messages)
  BY HeadTailProperties
<1>2. QED
  BY <1>1, LenProperties

LEMMA AppendNoCommand ==
    ASSUME TypeOK, NEW m \in Messages, conns' = Append(conns, m)
    PROVE  /\ NoCommand /\ m.op # "command" => NoCommand'
           /\ \A i \in DOMAIN conns' :
                 conns'[i] = m \/ \E j \in DOMAIN conns : conns'[i] = conns[j]
<1>1. conns \in Seq(Messages)
  BY DEF TypeOK, MgrTypeOK
<1>2. \A i \in DOMAIN conns' : conns'[i] = m \/ (i \in DOMAIN conns /\ conns'[i] = conns[i])
  BY <1>1, AppendQueue
<1>3. QED
  BY <1>2 DEF NoCommand

LEMMA SentIsMessage ==
    ASSUME NEW op \in Ops \ {"process"}, NEW t \in Tokens, NEW u \in Users, NEW s \in BOOLEAN
    PROVE  Message(op, t, u, s) \in Messages
BY DEF Message, Messages

LEMMA QuietManager ==
    ASSUME TypeOK, TalkInv, QuietInv, ManagerStep, UNCHANGED restVars
    PROVE  QuietInv'
<1> USE DEF QuietInv
<1>0. UNCHANGED <<rpc, ruser>>
  BY DEF restVars, workerVars
<1>1. CASE HandleCommand \/ HandleDelete
  <2>1. conns # <<>> /\ conns' = Tail(conns) /\ reply' = reply
    BY <1>1 DEF HandleCommand, HandleDelete, Accept
  <2>2. QED
    BY <1>0, <2>1, TailNoCommand
<1>2. CASE HandleProcess \/ HandleDetails \/ HandleNext
  <2>1. conns # <<>> /\ conns' = Tail(conns) /\ Head(conns).op \in Questions
    BY <1>2 DEF HandleProcess, HandleDetails, HandleNext, Accept, Questions
  <2>2. conns' = <<>>
    BY <2>1, QuestionTaken DEF TalkInv
  <2>3. QED
    BY <2>2 DEF NoCommand
<1>3. CASE NextEndStat
  <2>1. rpc = "next" /\ conns' = conns
    BY <1>3 DEF NextEndStat, TalkInv, ReplyInv
  <2>2. QED
    BY <1>0, <2>1 DEF NoCommand, Serving
<1>4. CASE KillTerm \/ KillCheck
  <2>1. UNCHANGED <<conns, reply>>
    BY <1>4 DEF KillTerm, KillCheck
  <2>2. QED
    BY <1>0, <2>1 DEF NoCommand
<1>5. QED
  BY <1>1, <1>2, <1>3, <1>4 DEF ManagerStep

LEMMA QuietWorker ==
    ASSUME TypeOK, TalkInv, QuietInv, WorkerStep
    PROVE  QuietInv'
<1> USE DEF QuietInv
<1>1. NoCommand /\ \A i \in DOMAIN conns : conns[i].op \notin Questions
  <2>1. \/ reply # NoReply
        \/ rpc \in {"found", "stat", "endstat", "kill"}
    BY DEF WorkerStep, ListAnswer, DetailsAnswer, AskNext, NextAnswer, ReadChunk,
           EndStat, EndAnswer
  <2>2. QED
    BY <2>1, Quiet DEF TalkInv, Serving
<1>2. CASE conns' = conns
  BY <1>1, <1>2 DEF NoCommand, Questions
<1>3. CASE (AskNext /\ Send("next", rtok, ruser)) \/ (EndAnswer /\ Send("delete", rtok, ruser))
  <2>1. rtok \in Tokens /\ ruser \in Users
    BY <1>3 DEF AskNext, EndAnswer, TypeOK, RestTypeOK
  <2>2. PICK op \in {"next", "delete"} : conns' = Append(conns, Message(op, rtok, ruser, FALSE))
    BY <1>3, Zenon DEF Send
  <2>3. PICK m \in Messages : m = Message(op, rtok, ruser, FALSE)
    BY <2>1, SentIsMessage, Zenon DEF Ops
  <2>4. m.op \notin {"command", "process"}
    BY <2>3 DEF Message
  <2>5. QED
    BY <1>1, <2>2, <2>3, <2>4, AppendNoCommand, Zenon DEF Questions
<1>4. QED
  BY <1>2, <1>3 DEF WorkerStep, ListAnswer, DetailsAnswer, AskNext, NextAnswer, ReadChunk,
                    EndStat, EndAnswer, mgrVars, serverVars

LEMMA QuietRequest ==
    ASSUME TypeOK, TalkInv, QuietInv, Request
    PROVE  QuietInv'
<1> USE DEF QuietInv
<1>1. rpc = "idle" /\ reply' = reply
  BY DEF Request, GetList, Post, GetChunk, Delete, Begin
<1>2. reply = NoReply /\ \A i \in DOMAIN conns : conns[i].op \notin Questions
  BY <1>1, Quiet DEF TalkInv, ReplyInv
<1>3. rpc' \notin Serving
  BY <1>1 DEF Request, GetList, Post, GetChunk, Delete, Begin, Serving, workerVars, restVars
<1>4. PICK m \in Messages : /\ conns' = Append(conns, m)
                            /\ m.op = "process" => m.user = ruser'
  <2>1. ASSUME NEW u \in Users, GetList(u)
        PROVE  \E m \in Messages : /\ conns' = Append(conns, m)
                                   /\ m.op = "process" => m.user = ruser'
    <3>1. Message("process", NoToken, u, FALSE) \in Messages
      BY DEF Message, Messages
    <3>2. QED
      BY <2>1, <3>1 DEF GetList, Begin, Send, Message
  <2>2. ASSUME NEW u \in Users, NEW t \in Tokens, NEW s \in BOOLEAN, Post(u, t, s)
        PROVE  \E m \in Messages : /\ conns' = Append(conns, m)
                                   /\ m.op = "process" => m.user = ruser'
    <3>1. Message("command", t, u, s) \in Messages
      BY SentIsMessage DEF Ops
    <3>2. QED
      BY <2>2, <3>1 DEF Post, Message
  <2>3. ASSUME NEW u \in Users, NEW t \in Tokens, GetChunk(u, t) \/ Delete(u, t)
        PROVE  \E m \in Messages : /\ conns' = Append(conns, m)
                                   /\ m.op = "process" => m.user = ruser'
    <3>1. /\ Message("details", t, u, FALSE) \in Messages
          /\ Message("delete", t, u, FALSE) \in Messages
      BY SentIsMessage, Zenon DEF Ops
    <3>2. QED
      BY <2>3, <3>1 DEF GetChunk, Delete, Send, Message
  <2>4. QED
    BY <2>1, <2>2, <2>3 DEF Request
<1>5. QED
  BY <1>1, <1>2, <1>3, <1>4, AppendNoCommand DEF Questions

LEMMA QuietStep == TypeOK /\ TalkInv /\ QuietInv /\ [Next]_vars => QuietInv'
<1> SUFFICES ASSUME TypeOK, TalkInv, QuietInv, [Next]_vars
             PROVE  QuietInv'
  OBVIOUS
<1>1. CASE UNCHANGED <<mgrVars, restVars>>
  BY <1>1 DEF QuietInv, NoCommand, mgrVars, serverVars, restVars, workerVars
<1>2. CASE StopDaemon
  <2>1. conns' = <<>>
    BY <1>2 DEF StopDaemon, Stop
  <2>2. QED
    BY <2>1 DEF QuietInv, NoCommand
<1>3. CASE StopWorker
  <2>1. mpc = "down" /\ conns' = conns
    BY <1>3 DEF StopWorker
  <2>2. QED
    BY <2>1 DEF TalkInv, DownInv, QuietInv, NoCommand
<1>4. CASE StartDaemon
  <2>1. UNCHANGED <<conns, reply, rpc, ruser>>
    BY <1>4 DEF StartDaemon, init, restVars, workerVars
  <2>2. QED
    BY <2>1 DEF QuietInv, NoCommand
<1>5. CASE UNCHANGED vars
  BY <1>1, <1>5 DEF vars
<1>6. QED
  BY <1>1, <1>2, <1>3, <1>4, <1>5, QuietManager, QuietWorker, QuietRequest DEF Next

LEMMA InitQuiet == Init => QuietInv
BY DEF Init, MgrInit, QuietInv, NoCommand, Serving

-----------------------------------------------------------------------------
(***************************************************************************)
(* Whose files get_chunk reads.                                            *)
(***************************************************************************)

\* The answers of the manager.
LEMMA AnswerFields ==
    /\ EmptyReply.kind = "empty" /\ EmptyReply.toks = {}
    /\ DetailsReply.kind = "details" /\ DetailsReply.toks = {}
    /\ \A n : OffsetReply(n).kind = "offset" /\ OffsetReply(n).off = n /\ OffsetReply(n).toks = {}
    /\ \A ts : ListReply(ts).kind = "list" /\ ListReply(ts).toks = ts
BY DEF EmptyReply, DetailsReply, OffsetReply, ListReply

LEMMA NextReplies ==
    ASSUME HandleNext
    PROVE  \/ reply' = reply
           \/ reply' = EmptyReply
           \/ reply' = OffsetReply(ShownOffset(Head(conns).tok))
BY DEF HandleNext

\* From the answer with the details on, the token is one of the user's.
OwnerInv ==
    /\ rpc \in Serving => owner[rtok] = ruser
    /\ reply.kind = "details" => rpc = "details" /\ owner[rtok] = ruser

LEMMA OwnerManager ==
    ASSUME TypeOK, TalkInv, QuietInv, OwnerInv, ManagerStep, UNCHANGED restVars
    PROVE  OwnerInv'
<1>0. UNCHANGED <<rpc, ruser, rtok>>
  BY DEF restVars, workerVars
<1>1. CASE HandleCommand
  <2>1. Head(conns).op = "command" /\ conns # <<>> /\ reply' = reply
    BY <1>1 DEF HandleCommand, Accept
  <2>2. ~NoCommand
    BY <2>1, TailQueue DEF NoCommand, TypeOK, MgrTypeOK
  <2>3. rpc \notin Serving /\ reply.kind # "details"
    BY <2>2 DEF QuietInv, NoReply
  <2>4. QED
    BY <1>0, <2>1, <2>3 DEF OwnerInv
<1>2. CASE HandleDetails
  <2>1. /\ conns # <<>> /\ Head(conns).op = "details" /\ owner' = owner
        /\ reply'.kind = "details" => Head(conns).tok \in Entries(Head(conns).user)
    BY <1>2 DEF HandleDetails, Accept, DetailsReply, EmptyReply, tableVars
  <2>2. rpc = "details" /\ Head(conns).tok = rtok /\ Head(conns).user = ruser
    BY <2>1, QuestionTaken DEF TalkInv, Questions, Waiting
  <2>3. QED
    BY <1>0, <2>1, <2>2 DEF OwnerInv, Entries
<1>3. CASE ~HandleCommand /\ ~HandleDetails
  <2>1. owner' = owner
    BY <1>3 DEF ManagerStep, HandleProcess, HandleNext, NextEndStat, HandleDelete, KillTerm,
                KillCheck, tableVars
  <2>2. reply' = reply \/ reply'.kind # "details"
    <3>1. CASE HandleProcess
      BY <3>1, AnswerFields DEF HandleProcess
    <3>2. CASE HandleNext
      BY <3>2, AnswerFields, NextReplies
    <3>3. CASE NextEndStat
      BY <3>3, AnswerFields DEF NextEndStat
    <3>4. CASE HandleDelete \/ KillTerm \/ KillCheck
      BY <3>4 DEF HandleDelete, KillTerm, KillCheck
    <3>5. QED
      BY <1>3, <3>1, <3>2, <3>3, <3>4 DEF ManagerStep
  <2>3. QED
    BY <1>0, <2>1, <2>2 DEF OwnerInv
<1>4. QED
  BY <1>1, <1>2, <1>3

LEMMA OwnerWorker ==
    ASSUME TypeOK, OwnerInv, WorkerStep
    PROVE  OwnerInv'
<1>1. owner' = owner
  BY DEF WorkerStep, ListAnswer, DetailsAnswer, AskNext, NextAnswer, ReadChunk, EndStat,
         EndAnswer, tableVars, mgrVars
<1>2. CASE DetailsAnswer
  <2>1. /\ rpc = "details" /\ reply' = NoReply
        /\ \/ reply.kind = "details" /\ UNCHANGED <<rtok, ruser>>
           \/ rpc' = "idle"
    BY <1>2 DEF DetailsAnswer, GoTo, AnswerGone, Answered
  <2>2. QED
    BY <1>1, <2>1 DEF OwnerInv, NoReply, Serving
<1>3. CASE ListAnswer \/ NextAnswer
  <2>1. /\ reply' = NoReply
        /\ \/ rpc = "next" /\ UNCHANGED <<rtok, ruser>>
           \/ rpc' = "idle"
    BY <1>3 DEF ListAnswer, NextAnswer, Answered
  <2>2. QED
    BY <1>1, <2>1 DEF OwnerInv, NoReply, Serving
<1>4. CASE AskNext \/ ReadChunk \/ EndStat \/ EndAnswer
  <2>1. /\ reply' = reply /\ rpc \in Serving /\ rpc # "details"
        /\ \/ UNCHANGED <<rtok, ruser>>
           \/ rpc' = "idle"
    BY <1>4 DEF AskNext, ReadChunk, EndStat, EndAnswer, GoTo, AnswerGone, Answered, Serving,
                mgrVars, serverVars
  <2>2. QED
    BY <1>1, <2>1 DEF OwnerInv, Serving
<1>5. QED
  BY <1>2, <1>3, <1>4 DEF WorkerStep

LEMMA OwnerStep == TypeOK /\ TalkInv /\ QuietInv /\ OwnerInv /\ [Next]_vars => OwnerInv'
<1> SUFFICES ASSUME TypeOK, TalkInv, QuietInv, OwnerInv, [Next]_vars
             PROVE  OwnerInv'
  OBVIOUS
<1>1. CASE UNCHANGED <<mgrVars, restVars>>
  BY <1>1 DEF OwnerInv, mgrVars, tableVars, serverVars, restVars, workerVars
<1>2. CASE Request
  <2>1. rpc = "idle" /\ rpc' \notin Serving /\ reply' = reply
    BY <1>2 DEF Request, GetList, Post, GetChunk, Delete, Begin, Serving, workerVars, restVars
  <2>2. QED
    BY <2>1 DEF OwnerInv
<1>3. CASE StopDaemon \/ StartDaemon
  <2>1. /\ UNCHANGED <<rpc, rtok, ruser, owner>>
        /\ reply' = reply \/ reply' = EmptyReply
    BY <1>3 DEF StopDaemon, Stop, StartDaemon, init, restVars, workerVars, tableVars
  <2>2. QED
    BY <2>1 DEF OwnerInv, EmptyReply
<1>4. CASE StopWorker
  <2>1. rpc' = "idle" /\ reply' = NoReply
    BY <1>4 DEF StopWorker, Answered
  <2>2. QED
    BY <2>1 DEF OwnerInv, NoReply, Serving
<1>5. CASE UNCHANGED vars
  BY <1>1, <1>5 DEF vars
<1>6. QED
  BY <1>1, <1>2, <1>3, <1>4, <1>5, OwnerManager, OwnerWorker DEF Next

\* The check of the user that get_chunk relies on is the manager's answer to
\* <details>, which comes two messages earlier; no command, delete or restart
\* in between gives the token another owner.
THEOREM OnlyTheOwner == Spec => []OwnerOnly
<1>1. Init => OwnerInv
  BY DEF Init, MgrInit, OwnerInv, NoReply, Serving
<1>2. OwnerInv => OwnerOnly
  BY DEF OwnerInv, OwnerOnly, Serving
<1>3. QED
  BY <1>1, <1>2, OwnerStep, InitQuiet, QuietStep, Talking, TypeCorrect, PTL DEF Spec

-----------------------------------------------------------------------------
(***************************************************************************)
(* A command that waits in the queue.                                      *)
(***************************************************************************)

\* No process has been started for t and nothing is known of it.
Fresh(t) ==
    /\ writer[t] = "none"
    /\ reader[t] = "none"
    /\ emitted[t] = 0
    /\ taken[t] = 0
    /\ data[t] = NoFile
    /\ ~endf[t]
    /\ ~pidf[t]
    /\ status[t] = NoEntry

\* Tokens are handed out once, so that the manager starts each command once.
FreshInv ==
    /\ \A t \in Tokens : t \notin used => Fresh(t)
    /\ \A i \in DOMAIN conns : conns[i].op = "command" =>
          /\ conns[i].tok \in used
          /\ Fresh(conns[i].tok)
          /\ \A j \in DOMAIN conns :
                conns[j].op = "command" /\ conns[j].tok = conns[i].tok => j = i
    /\ rpc \notin {"idle", "list"} => rtok \in used
    /\ \A u \in Users, t \in Tokens : <<u, t>> \in gone => t \in used

LEMMA FreshProcess ==
    ASSUME TypeOK, NEW t \in Tokens, Fresh(t), NEW s \in Tokens,
           ProcessorStep(s) \/ OpcStep(s), UNCHANGED mgrVars
    PROVE  Fresh(t)'
<1>0. status' = status
  BY DEF mgrVars, tableVars
<1>1. s # t
  BY DEF Fresh, ProcessorStep, Detach, pid_output, Execve, process_chunk,
         process_chunk_end, WriteEndFile, OpcStep, OpcWrite, OpcExit
<1>2. /\ writer'[t] = writer[t] /\ reader'[t] = reader[t]
      /\ emitted'[t] = emitted[t] /\ taken'[t] = taken[t]
  BY <1>1 DEF ProcessorStep, Detach, pid_output, Execve, process_chunk,
         process_chunk_end, WriteEndFile, OpcStep, OpcWrite, OpcExit, TypeOK, ProcTypeOK
<1>3. data'[t] = data[t] /\ endf'[t] = endf[t] /\ pidf'[t] = pidf[t]
  BY <1>1 DEF ProcessorStep, Detach, pid_output, Execve, process_chunk,
         process_chunk_end, WriteEndFile, OpcStep, OpcWrite, OpcExit, TypeOK, ProcTypeOK
<1>4. QED
  BY <1>0, <1>2, <1>3 DEF Fresh

LEMMA FreshManager ==
    ASSUME TypeOK, NEW t \in Tokens, Fresh(t), ManagerStep,
           ~(HandleCommand /\ Head(conns).tok = t)
    PROVE  Fresh(t)'
<1>1. CASE HandleCommand
  <2>1. Head(conns).tok # t
    BY <1>1
  <2>2. /\ UNCHANGED <<writer, emitted, taken, data, endf, pidf>>
        /\ reader'[t] = reader[t] /\ status'[t] = status[t]
    BY <1>1, <2>1 DEF HandleCommand, start_new, procVars, tableVars, TypeOK, ProcTypeOK, MgrTypeOK
  <2>3. QED
    BY <2>2 DEF Fresh
<1>2. CASE HandleProcess \/ HandleDetails \/ HandleNext
  <2>1. UNCHANGED <<writer, reader, emitted, taken, data, endf, pidf, status>>
    BY <1>2 DEF HandleProcess, HandleDetails, HandleNext, procVars, tableVars
  <2>2. QED
    BY <2>1 DEF Fresh
<1>3. CASE NextEndStat
  <2>1. /\ UNCHANGED <<writer, reader, emitted, taken, data, endf, pidf>>
        /\ endf[t] \/ status'[t] = status[t]
    BY <1>3 DEF NextEndStat, procVars
  <2>2. QED
    BY <2>1, Zenon DEF Fresh
<1>4. CASE HandleDelete
  <2>1. /\ UNCHANGED <<writer, reader, emitted, taken, data, endf, status>>
        /\ pidf'[t] = FALSE \/ pidf'[t] = pidf[t]
    BY <1>4 DEF HandleDelete, tableVars, TypeOK, ProcTypeOK, MgrTypeOK
  <2>2. QED
    BY <2>1 DEF Fresh
<1>5. CASE KillTerm
  <2>1. /\ UNCHANGED <<reader, emitted, taken, data, endf, pidf, status>>
        /\ writer'[t] = writer[t] \/ writer[t] = "run"
    BY <1>5 DEF KillTerm, SignalTerm, AfterTerm, tableVars
  <2>2. QED
    BY <2>1 DEF Fresh
<1>6. CASE KillCheck
  <2>1. /\ UNCHANGED <<writer, reader, emitted, taken, data, endf, pidf>>
        /\ status'[t] = NoEntry \/ status'[t] = status[t]
    BY <1>6 DEF KillCheck, ProcStatFound, PidHasNewline, TypeOK, ProcTypeOK, MgrTypeOK
  <2>2. QED
    BY <2>1, Zenon DEF Fresh
<1>7. QED
  BY <1>1, <1>2, <1>3, <1>4, <1>5, <1>6 DEF ManagerStep

\* Only the manager that takes the command itself ends that.
LEMMA FreshKept ==
    ASSUME TypeOK, NEW t \in Tokens, Fresh(t), [Next]_vars,
           ~(HandleCommand /\ Head(conns).tok = t)
    PROVE  Fresh(t)'
<1>1. CASE WorkerStep
  <2>1. CASE EndStat
    <3>1. /\ UNCHANGED <<writer, reader, emitted, taken, pidf, status>>
          /\ data'[t] = NoFile \/ data'[t] = data[t]
          /\ endf'[t] = FALSE \/ endf'[t] = endf[t]
      BY <2>1 DEF EndStat, mgrVars, tableVars, TypeOK, ProcTypeOK, MgrTypeOK
    <3>2. QED
      BY <3>1, Zenon DEF Fresh
  <2>2. CASE ~EndStat
    <3>1. UNCHANGED <<writer, reader, emitted, taken, data, endf, pidf, status>>
      BY <1>1, <2>2 DEF WorkerStep, ListAnswer, DetailsAnswer, AskNext, NextAnswer,
                        ReadChunk, EndAnswer, procVars, mgrVars, tableVars
    <3>2. QED
      BY <3>1 DEF Fresh
  <2>3. QED
    BY <2>1, <2>2
<1>2. CASE Request \/ StopWorker \/ UNCHANGED vars
  <2>1. UNCHANGED <<writer, reader, emitted, taken, data, endf, pidf, status>>
    BY <1>2 DEF Request, GetList, Post, GetChunk, Delete, StopWorker, vars, procVars,
                mgrVars, tableVars
  <2>2. QED
    BY <2>1 DEF Fresh
<1>3. CASE StopDaemon
  <2>1. /\ UNCHANGED <<emitted, taken, data, endf, pidf>>
        /\ reader'[t] = IF LeaderExists(t) THEN "gone" ELSE reader[t]
        /\ writer'[t] = IF writer[t] \in {"setup", "pid"} THEN "dead" ELSE writer[t]
        /\ status'[t] = NoEntry
    BY <1>3 DEF StopDaemon, Stop
  <2>2. QED
    BY <2>1, Zenon DEF Fresh, LeaderExists
<1>4. CASE StartDaemon
  <2>1. /\ UNCHANGED <<writer, reader, emitted, taken, pidf, status>>
        /\ data'[t] = NoFile /\ endf'[t] = FALSE
    BY <1>4 DEF StartDaemon, init, tableVars
  <2>2. QED
    BY <2>1, Zenon DEF Fresh
<1>5. QED
  BY <1>1, <1>2, <1>3, <1>4, FreshProcess, FreshManager, Zenon DEF Next

\* Who changes the queue.
LEMMA QueueChange ==
    ASSUME TypeOK, [Next]_vars, ~HandleCommand,
           ~(\E u \in Users, t \in Tokens, s \in BOOLEAN : Post(u, t, s))
    PROVE  /\ used' = used
           /\ \/ conns' = conns
              \/ conns' = <<>>
              \/ conns # <<>> /\ conns' = Tail(conns)
              \/ \E m \in Messages : conns' = Append(conns, m) /\ m.op # "command"
<1>1. CASE ManagerStep /\ UNCHANGED restVars
  <2>1. used' = used
    BY <1>1 DEF restVars, clientVars
  <2>2. conns' = conns \/ (conns # <<>> /\ conns' = Tail(conns))
    BY <1>1, Zenon DEF ManagerStep, HandleProcess, HandleDetails, HandleNext, NextEndStat,
                HandleDelete, KillTerm, KillCheck, Accept
  <2>3. QED
    BY <2>1, <2>2
<1>2. CASE WorkerStep
  <2>1. used' = used
    BY <1>2 DEF WorkerStep, ListAnswer, DetailsAnswer, AskNext, NextAnswer, ReadChunk,
                EndStat, EndAnswer, clientVars
  <2>2. CASE AskNext \/ EndAnswer
    <3>1. rtok \in Tokens /\ ruser \in Users
      BY <2>2 DEF AskNext, EndAnswer, TypeOK, RestTypeOK
    <3>2. \/ conns' = conns
          \/ \E op \in {"next", "delete"} :
                conns' = Append(conns, Message(op, rtok, ruser, FALSE))
      BY <2>2, Zenon DEF AskNext, EndAnswer, Send
    <3>3. \A op \in {"next", "delete"} : /\ Message(op, rtok, ruser, FALSE) \in Messages
                                         /\ Message(op, rtok, ruser, FALSE).op # "command"
      BY <3>1, SentIsMessage, Zenon DEF Ops, Message
    <3>4. QED
      BY <2>1, <3>2, <3>3, Zenon
  <2>3. CASE ~AskNext /\ ~EndAnswer
    BY <1>2, <2>1, <2>3 DEF WorkerStep, ListAnswer, DetailsAnswer, NextAnswer, ReadChunk,
                            EndStat, mgrVars, serverVars
  <2>4. QED
    BY <2>2, <2>3
<1>3. CASE Request
  <2>1. PICK u \in Users : GetList(u) \/ \E t \in Tokens : GetChunk(u, t) \/ Delete(u, t)
    BY <1>3 DEF Request
  <2>2. CASE GetList(u)
    <3>1. /\ Message("process", NoToken, u, FALSE) \in Messages
          /\ Message("process", NoToken, u, FALSE).op # "command"
      BY DEF Message, Messages
    <3>2. QED
      BY <2>2, <3>1, Zenon DEF GetList, Send, clientVars
  <2>3. ASSUME NEW t \in Tokens, GetChunk(u, t) \/ Delete(u, t)
        PROVE  used' = used /\ \E m \in Messages : conns' = Append(conns, m) /\ m.op # "command"
    <3>1. PICK op \in {"details", "delete"} : conns' = Append(conns, Message(op, t, u, FALSE))
      BY <2>3, Zenon DEF GetChunk, Delete, Send
    <3>2. /\ Message(op, t, u, FALSE) \in Messages
          /\ Message(op, t, u, FALSE).op # "command"
      BY SentIsMessage, Zenon DEF Ops, Message
    <3>3. QED
      BY <2>3, <3>1, <3>2, Zenon DEF GetChunk, Delete, restVars, clientVars
  <2>4. QED
    BY <2>1, <2>2, <2>3
<1>4. CASE \/ UNCHANGED <<mgrVars, restVars>> \/ StopDaemon \/ StopWorker \/ StartDaemon
           \/ UNCHANGED vars
  BY <1>4 DEF StopDaemon, Stop, StopWorker, StartDaemon, init, vars, mgrVars, serverVars,
              restVars, clientVars
<1>5. QED
  BY <1>1, <1>2, <1>3, <1>4 DEF Next

LEMMA UsedChange ==
    ASSUME [Next]_vars, ~(\E u \in Users, t \in Tokens, s \in BOOLEAN : Post(u, t, s))
    PROVE  used' = used
<1>1. CASE WorkerStep
  BY <1>1 DEF WorkerStep, ListAnswer, DetailsAnswer, AskNext, NextAnswer, ReadChunk,
              EndStat, EndAnswer, clientVars
<1>2. CASE Request
  BY <1>2 DEF Request, GetList, GetChunk, Delete, restVars, clientVars
<1>3. CASE ~WorkerStep /\ ~Request
  BY <1>3 DEF Next, StopDaemon, StopWorker, StartDaemon, vars, restVars, clientVars
<1>4. QED
  BY <1>1, <1>2, <1>3

\* The tokens of the commands in the queue.
LEMMA CommandTokens ==
    ASSUME TypeOK
    PROVE  /\ conns \in Seq(Messages)
           /\ \A i \in DOMAIN conns : conns[i].op = "command" => conns[i].tok \in Tokens
<1>1. conns \in Seq(Messages)
  BY DEF TypeOK, MgrTypeOK
<1>2. \A i \in DOMAIN conns : conns[i] \in Messages
  BY <1>1, ElementOfSeq, LenProperties
<1>3. QED
  BY <1>1, <1>2 DEF Messages

\* Each of them has not been started, and is there once.
Queued(i) ==
    /\ conns[i].tok \in used
    /\ Fresh(conns[i].tok)
    /\ \A j \in DOMAIN conns :
          conns[j].op = "command" /\ conns[j].tok = conns[i].tok => j = i

LEMMA FreshQueue ==
    ASSUME TypeOK, FreshInv, [Next]_vars
    PROVE  /\ \A t \in Tokens : t \notin used' => Fresh(t)'
           /\ \A i \in DOMAIN conns' : conns'[i].op = "command" => Queued(i)'
<1>0. \A i \in DOMAIN conns : conns[i].op = "command" => Queued(i) /\ conns[i].tok \in Tokens
  BY CommandTokens DEF FreshInv, Queued
<1>1. ASSUME NEW u \in Users, NEW t \in Tokens, NEW s \in BOOLEAN, Post(u, t, s)
      PROVE  /\ \A x \in Tokens : x \notin used' => Fresh(x)'
             /\ \A i \in DOMAIN conns' : conns'[i].op = "command" => Queued(i)'
  <2>1. /\ t \notin used /\ used' = used \cup {t}
        /\ conns' = Append(conns, Message("command", t, u, s))
    BY <1>1 DEF Post
  <2>2. \A x \in Tokens : Fresh(x) => Fresh(x)'
    BY <1>1 DEF Post, procVars, tableVars, Fresh
  <2>3. PICK m \in Messages : m = Message("command", t, u, s) /\ m.tok = t
    <3>1. Message("command", t, u, s) \in Messages
      BY SentIsMessage DEF Ops
    <3>2. Message("command", t, u, s).tok = t
      BY DEF Message
    <3>3. QED
      BY <3>1, <3>2
  <2>4. /\ Len(conns') = Len(conns) + 1 /\ Len(conns) \in Nat
        /\ \A i \in DOMAIN conns' : \/ i \in DOMAIN conns /\ conns'[i] = conns[i]
                                    \/ i = Len(conns') /\ conns'[i] = m
    BY <2>1, <2>3, CommandTokens, AppendQueue, LenProperties
  <2>5. Fresh(t)'
    BY <2>1, <2>2 DEF FreshInv
  <2>6. ASSUME NEW i \in DOMAIN conns', conns'[i].op = "command"
        PROVE  Queued(i)'
    <3>1. CASE i \in DOMAIN conns /\ conns'[i] = conns[i]
      <4>1. Queued(i) /\ conns[i].tok # t
        BY <1>0, <2>1, <2>6, <3>1 DEF Queued
      <4>2. QED
        BY <1>0, <2>1, <2>2, <2>3, <2>4, <2>6, <3>1, <4>1 DEF Queued
    <3>2. CASE i = Len(conns') /\ conns'[i] = m
      <4>1. ASSUME NEW j \in DOMAIN conns', conns'[j].op = "command", conns'[j].tok = t
            PROVE  j = i
        BY <1>0, <2>1, <2>4, <3>2, <4>1 DEF Queued
      <4>2. QED
        BY <2>1, <2>3, <2>5, <3>2, <4>1 DEF Queued
    <3>3. QED
      BY <2>4, <2>6, <3>1, <3>2
  <2>7. QED
    BY <2>1, <2>2, <2>6 DEF FreshInv
<1>2. CASE HandleCommand /\ ~(\E u \in Users, t \in Tokens, s \in BOOLEAN : Post(u, t, s))
  <2>1. /\ conns # <<>> /\ conns' = Tail(conns) /\ Head(conns).op = "command"
        /\ used' = used
    BY <1>2, UsedChange DEF HandleCommand, Accept
  <2>2. /\ 1 \in DOMAIN conns /\ Head(conns) = conns[1]
        /\ \A i \in DOMAIN conns' : /\ i \in Nat \ {0} /\ i + 1 \in DOMAIN conns
                                    /\ conns'[i] = conns[i + 1]
    BY <2>1, CommandTokens, TailQueue, TailIndex
  <2>3. ASSUME NEW x \in Tokens, x \notin used
        PROVE  Fresh(x)'
    BY <1>0, <2>1, <2>2, <2>3, FreshKept DEF FreshInv, Queued
  <2>4. ASSUME NEW i \in DOMAIN conns', conns'[i].op = "command"
        PROVE  Queued(i)'
    <3>1. /\ i + 1 \in DOMAIN conns /\ i + 1 # 1
          /\ conns'[i] = conns[i + 1]
      BY <2>2
    <3>2. Queued(i + 1) /\ conns[i + 1].tok \in Tokens
      BY <1>0, <2>4, <3>1
    <3>3. Head(conns).tok # conns[i + 1].tok
      BY <2>1, <2>2, <3>1, <3>2 DEF Queued
    <3>4. Fresh(conns[i].tok)'
      <4>1. PICK x \in Tokens : x = conns[i + 1].tok
        BY <3>2
      <4>2. Fresh(x)'
        BY <3>2, <3>3, <4>1, FreshKept DEF Queued
      <4>3. QED
        BY <4>1, <4>2, <3>1
    <3>5. QED
      BY <2>1, <2>2, <2>4, <3>1, <3>2, <3>4, SMTT(30) DEF Queued
  <2>5. QED
    BY <2>1, <2>3, <2>4
<1>3. CASE /\ ~HandleCommand
           /\ ~(\E u \in Users, t \in Tokens, s \in BOOLEAN : Post(u, t, s))
  <2>1. \A x \in Tokens : Fresh(x) => Fresh(x)'
    BY <1>3, FreshKept
  <2>2. used' = used
    BY <1>3, UsedChange
  <2>3. CASE conns' = conns
    BY <1>0, <2>1, <2>2, <2>3 DEF FreshInv, Queued
  <2>4. CASE conns' = <<>>
    BY <2>1, <2>2, <2>4, SMTT(30) DEF FreshInv
  <2>5. CASE conns # <<>> /\ conns' = Tail(conns)
    <3>1. \A i \in DOMAIN conns' : /\ i \in Nat /\ i + 1 \in DOMAIN conns
                                   /\ conns'[i] = conns[i + 1]
      BY <2>5, CommandTokens, TailQueue
    <3>2. ASSUME NEW i \in DOMAIN conns', conns'[i].op = "command"
          PROVE  Queued(i)'
      BY <1>0, <2>1, <2>2, <3>1, <3>2, SMTT(30) DEF Queued
    <3>3. QED
      BY <2>1, <2>2, <3>2 DEF FreshInv
  <2>6. ASSUME NEW m \in Messages, conns' = Append(conns, m), m.op # "command"
        PROVE  \A i \in DOMAIN conns' : conns'[i].op = "command" => Queued(i)'
    <3>1. \A i \in DOMAIN conns' : \/ i \in DOMAIN conns /\ conns'[i] = conns[i]
                                   \/ conns'[i] = m
      BY <2>6, CommandTokens, AppendQueue
    <3>2. QED
      BY <1>0, <2>1, <2>2, <2>6, <3>1, SMTT(30) DEF Queued
  <2>7. QED
    BY <1>3, <2>1, <2>2, <2>3, <2>4, <2>5, <2>6, QueueChange DEF FreshInv
<1>4. QED
  BY <1>1, <1>2, <1>3

\* 410 is only ever answered for a token that was handed out, when no command
\* waits in the queue.
LEMMA GoneChange ==
    ASSUME TypeOK, TalkInv, QuietInv, FreshInv, [Next]_vars
    PROVE  \/ gone' = gone
           \/ /\ gone' = gone \cup {<<ruser, rtok>>}
              /\ rpc \in {"details", "kill"}
              /\ rtok \in used
              /\ NoCommand'
<1>1. CASE DetailsAnswer \/ EndAnswer
  <2>1. CASE gone' = gone
    BY <2>1
  <2>2. CASE gone' # gone
    <3>1. gone' = gone \cup {<<ruser, rtok>>} /\ rpc \in {"details", "kill"}
      BY <1>1, <2>2 DEF DetailsAnswer, EndAnswer, AnswerGone
    <3>2. rtok \in used
      BY <3>1 DEF FreshInv
    <3>3. NoCommand
      BY <1>1 DEF DetailsAnswer, EndAnswer, QuietInv, Serving
    <3>4. NoCommand'
      <4>1. CASE DetailsAnswer
        BY <3>3, <4>1 DEF DetailsAnswer, NoCommand
      <4>2. CASE EndAnswer
        <5>1. conns' = Append(conns, Message("delete", rtok, ruser, FALSE))
          BY <2>2, <4>2, Zenon DEF EndAnswer, Send
        <5>2. PICK m \in Messages : m = Message("delete", rtok, ruser, FALSE)
          BY <4>2, SentIsMessage, Zenon DEF EndAnswer, TypeOK, RestTypeOK, Ops
        <5>3. QED
          BY <3>3, <5>1, <5>2, AppendNoCommand DEF Message
      <4>3. QED
        BY <1>1, <4>1, <4>2
    <3>5. QED
      BY <3>1, <3>2, <3>4
  <2>3. QED
    BY <2>1, <2>2
<1>2. CASE ~DetailsAnswer /\ ~EndAnswer
  <2>1. CASE WorkerStep
    BY <1>2, <2>1 DEF WorkerStep, ListAnswer, AskNext, NextAnswer, ReadChunk, EndStat,
                      clientVars
  <2>2. CASE Request
    BY <2>2 DEF Request, GetList, Post, GetChunk, Delete, restVars, clientVars
  <2>3. CASE ~WorkerStep /\ ~Request
    BY <2>3 DEF Next, StopDaemon, StopWorker, StartDaemon, vars, restVars, clientVars
  <2>4. QED
    BY <2>1, <2>2, <2>3
<1>3. QED
  BY <1>1, <1>2

LEMMA FreshStep ==
    TypeOK /\ TalkInv /\ QuietInv /\ FreshInv /\ PostedNotGone /\ [Next]_vars
        => FreshInv' /\ PostedNotGone'
<1> SUFFICES ASSUME TypeOK, TalkInv, QuietInv, FreshInv, PostedNotGone, [Next]_vars
             PROVE  FreshInv' /\ PostedNotGone'
  OBVIOUS
<1>1. used \subseteq used'
  <2>1. CASE \E u \in Users, t \in Tokens, s \in BOOLEAN : Post(u, t, s)
    BY <2>1 DEF Post
  <2>2. QED
    BY <2>1, UsedChange
<1>2. rpc' \notin {"idle", "list"} => rtok' \in used'
  <2>1. CASE WorkerStep
    BY <1>1, <2>1 DEF WorkerStep, ListAnswer, DetailsAnswer, AskNext, NextAnswer, ReadChunk,
                EndStat, EndAnswer, GoTo, Answered, AnswerGone, FreshInv
  <2>2. CASE Request
    BY <2>2, Zenon DEF Request, GetList, Post, GetChunk, Delete, Begin, restVars, workerVars,
                clientVars, FreshInv
  <2>3. CASE StopWorker
    BY <2>3 DEF StopWorker, Answered
  <2>4. CASE ~WorkerStep /\ ~Request /\ ~StopWorker
    BY <1>1, <2>4 DEF Next, StopDaemon, StartDaemon, vars, restVars, workerVars, FreshInv
  <2>5. QED
    BY <2>1, <2>2, <2>3, <2>4
<1>3. \A u \in Users, t \in Tokens : <<u, t>> \in gone' => t \in used'
  BY <1>1, GoneChange DEF FreshInv
<1>4. FreshInv'
  BY <1>2, <1>3, FreshQueue DEF FreshInv, Queued
<1>5. PostedNotGone'
  <2>1. CASE NoCommand'
    BY <2>1 DEF NoCommand, PostedNotGone
  <2>2. CASE gone' = gone
    <3>1. ASSUME NEW u \in Users, NEW t \in Tokens, NEW s \in BOOLEAN, Post(u, t, s)
          PROVE  PostedNotGone'
      <4>1. /\ t \notin used /\ conns' = Append(conns, Message("command", t, u, s))
        BY <3>1 DEF Post
      <4>2. PICK m \in Messages : m = Message("command", t, u, s) /\ m.tok = t
        <5>1. Message("command", t, u, s) \in Messages
          BY SentIsMessage DEF Ops
        <5>2. Message("command", t, u, s).tok = t
          BY DEF Message
        <5>3. QED
          BY <5>1, <5>2
      <4>3. \A i \in DOMAIN conns' :
               conns'[i] = m \/ \E j \in DOMAIN conns : conns'[i] = conns[j]
        BY <4>1, <4>2, AppendNoCommand
      <4>4. \A v \in Users : <<v, t>> \notin gone
        BY <4>1 DEF FreshInv
      <4>5. QED
        BY <2>2, <4>2, <4>3, <4>4 DEF PostedNotGone
    <3>2. CASE ~(\E u \in Users, t \in Tokens, s \in BOOLEAN : Post(u, t, s))
      <4>1. \A i \in DOMAIN conns' : conns'[i].op = "command" =>
               \E j \in DOMAIN conns : conns'[i] = conns[j]
        <5>1. CASE HandleCommand
          BY <5>1, TailNoCommand DEF HandleCommand, Accept
        <5>2. CASE ~HandleCommand
          BY <3>2, <5>2, QueueChange, TailNoCommand, AppendNoCommand
        <5>3. QED
          BY <5>1, <5>2
      <4>2. QED
        BY <2>2, <4>1 DEF PostedNotGone
    <3>3. QED
      BY <3>1, <3>2
  <2>3. QED
    BY <2>1, <2>2, GoneChange
<1>6. QED
  BY <1>4, <1>5

\* At the start there is no command, no message and no token.
LEMMA InitFresh == Init => FreshInv /\ PostedNotGone
<1> SUFFICES ASSUME Init PROVE FreshInv /\ PostedNotGone
  OBVIOUS
<1>1. conns = <<>> /\ used = {} /\ gone = {} /\ rpc = "idle"
  BY Zenon DEF Init, MgrInit
<1>2. \A i : i \notin DOMAIN conns
  BY <1>1
<1>3. ASSUME NEW t \in Tokens PROVE Fresh(t)
  <2>1. /\ writer[t] = "none" /\ reader[t] = "none" /\ emitted[t] = 0 /\ taken[t] = 0
        /\ data[t] = NoFile /\ endf[t] = FALSE /\ pidf[t] = FALSE
    BY Zenon DEF Init, ProcInit
  <2>2. status[t] = NoEntry
    BY Zenon DEF Init, MgrInit
  <2>3. QED
    BY <2>1, <2>2, Zenon DEF Fresh
<1>4. FreshInv
  BY <1>1, <1>2, <1>3, Zenon DEF FreshInv
<1>5. PostedNotGone
  BY <1>2, Zenon DEF PostedNotGone
<1>6. QED
  BY <1>4, <1>5

LEMMA QueueInOrder == Spec => [](QuietInv /\ FreshInv /\ PostedNotGone)
BY InitQuiet, QuietStep, InitFresh, FreshStep, Talking, TypeCorrect, PTL DEF Spec

\* POST is answered 201 before the manager has the command; a GET that follows
\* is answered only after it, so that no client is told 410 too early.
THEOREM NotGoneBeforeStarted == Spec => []PostedNotGone
BY QueueInOrder, PTL

-----------------------------------------------------------------------------
(***************************************************************************)
(* The processes and the files of a command.                               *)
(***************************************************************************)
SameFiles(t) ==
    /\ emitted'[t] = emitted[t]
    /\ taken'[t] = taken[t]
    /\ data'[t] = data[t]
    /\ endf'[t] = endf[t]

Same(t) == writer'[t] = writer[t] /\ reader'[t] = reader[t] /\ SameFiles(t)

\* start_new: a reader, or none when fork fails.
Started(t) ==
    /\ Fresh(t)
    /\ reader'[t] \in {"none", "setup"}
    /\ writer'[t] = writer[t]
    /\ SameFiles(t)

\* SIGTERM reaches opc.
Terminated(t) ==
    /\ writer[t] = "run"
    /\ writer'[t] = "dead"
    /\ reader'[t] = reader[t]
    /\ SameFiles(t)

\* get_chunk removes both files.
Removed(t) ==
    /\ rpc = "endstat" /\ rtok = t
    /\ endf[t] /\ ~endf'[t]
    /\ data'[t] = NoFile
    /\ writer'[t] = writer[t] /\ reader'[t] = reader[t]
    /\ emitted'[t] = emitted[t] /\ taken'[t] = taken[t]

\* "pkill -9 chunker2".
Stopped(t) ==
    /\ reader'[t] = IF LeaderExists(t) THEN "gone" ELSE reader[t]
    /\ writer'[t] = IF writer[t] \in {"setup", "pid"} THEN "dead" ELSE writer[t]
    /\ SameFiles(t)

\* init() of the manager removes all files.
Cleared(t) ==
    /\ mpc = "down"
    /\ data'[t] = NoFile /\ ~endf'[t]
    /\ writer'[t] = writer[t] /\ reader'[t] = reader[t]
    /\ emitted'[t] = emitted[t] /\ taken'[t] = taken[t]

\* What can happen to a command in one step.
LEMMA TokenStep ==
    ASSUME TypeOK, FreshInv, NEW t \in Tokens, [Next]_vars
    PROVE  \/ Same(t) /\ (mpc' = "down" => mpc = "down")
           \/ (ProcessorStep(t) \/ OpcStep(t)) /\ mpc' = mpc
           \/ Started(t) /\ mpc' # "down"
           \/ Terminated(t) /\ mpc' # "down"
           \/ Removed(t) /\ mpc' = mpc
           \/ Stopped(t) /\ mpc' = "down"
           \/ Cleared(t) /\ mpc' # "down"
<1>1. ASSUME NEW s \in Tokens, ProcessorStep(s) \/ OpcStep(s), UNCHANGED mgrVars, s # t
      PROVE  Same(t) /\ mpc' = mpc
  <2>1. mpc' = mpc
    BY <1>1 DEF mgrVars, serverVars
  <2>2. /\ writer'[t] = writer[t] /\ reader'[t] = reader[t]
        /\ emitted'[t] = emitted[t] /\ taken'[t] = taken[t]
    BY <1>1 DEF ProcessorStep, Detach, pid_output, Execve, process_chunk,
           process_chunk_end, WriteEndFile, OpcStep, OpcWrite, OpcExit, TypeOK, ProcTypeOK
  <2>3. data'[t] = data[t] /\ endf'[t] = endf[t]
    BY <1>1, Zenon DEF ProcessorStep, Detach, pid_output, Execve, process_chunk,
           process_chunk_end, WriteEndFile, OpcStep, OpcWrite, OpcExit, TypeOK, ProcTypeOK
  <2>4. QED
    BY <2>1, <2>2, <2>3, Zenon DEF Same, SameFiles
<1>2. ASSUME NEW s \in Tokens, ProcessorStep(s) \/ OpcStep(s), UNCHANGED mgrVars, s = t
      PROVE  (ProcessorStep(t) \/ OpcStep(t)) /\ mpc' = mpc
  BY <1>2 DEF mgrVars, serverVars
<1>3. CASE HandleCommand
  <2>1. /\ UNCHANGED <<writer, emitted, taken, data, endf>>
        /\ mpc = "idle" /\ mpc' = "idle"
    BY <1>3 DEF HandleCommand, Accept, start_new, procVars
  <2>2. CASE reader'[t] = reader[t]
    BY <2>1, <2>2 DEF Same, SameFiles
  <2>3. CASE reader'[t] # reader[t]
    <3>1. Head(conns).tok = t /\ reader'[t] = "setup"
      BY <1>3, <2>3 DEF HandleCommand, start_new, procVars, TypeOK, ProcTypeOK
    <3>2. Head(conns).op = "command" /\ conns # <<>>
      BY <1>3 DEF HandleCommand, Accept
    <3>3. Fresh(t)
      BY <3>1, <3>2, CommandTokens, TailQueue DEF FreshInv
    <3>4. QED
      BY <2>1, <3>1, <3>3 DEF Started, SameFiles
  <2>4. QED
    BY <2>2, <2>3
<1>4. CASE KillTerm
  <2>1. /\ UNCHANGED <<reader, emitted, taken, data, endf>>
        /\ writer' = [writer EXCEPT ![mtok] = AfterTerm(mtok)]
        /\ mpc' = "procstat"
    BY <1>4 DEF KillTerm, SignalTerm
  <2>2. \/ writer'[t] = writer[t]
        \/ writer[t] = "run" /\ writer'[t] = "dead"
    BY <2>1 DEF AfterTerm
  <2>3. QED
    BY <2>1, <2>2 DEF Same, SameFiles, Terminated
<1>5. CASE ManagerStep /\ ~HandleCommand /\ ~KillTerm
  <2>1. UNCHANGED <<writer, reader, emitted, taken, data, endf>>
    BY <1>5 DEF ManagerStep, HandleProcess, HandleDetails, HandleNext, NextEndStat,
                HandleDelete, KillCheck, ProcStatFound, PidHasNewline, procVars
  <2>2. mpc' # "down"
    BY <1>5, Zenon DEF ManagerStep, HandleProcess, HandleDetails, HandleNext, NextEndStat,
                HandleDelete, KillCheck, Accept, Finish
  <2>3. QED
    BY <2>1, <2>2 DEF Same, SameFiles
<1>6. CASE EndStat
  <2>1. UNCHANGED <<writer, reader, emitted, taken, mpc>> /\ rpc = "endstat"
    BY <1>6 DEF EndStat, mgrVars, serverVars
  <2>2. CASE rtok = t /\ endf[rtok]
    <3>1. endf' = [endf EXCEPT ![t] = FALSE] /\ data' = [data EXCEPT ![t] = NoFile]
      BY <1>6, <2>2 DEF EndStat
    <3>2. ~endf'[t] /\ data'[t] = NoFile
      BY <3>1 DEF TypeOK, ProcTypeOK
    <3>3. QED
      BY <2>1, <2>2, <3>2, Zenon DEF Removed
  <2>3. CASE ~(rtok = t /\ endf[rtok])
    <3>1. endf'[t] = endf[t] /\ data'[t] = data[t]
      BY <1>6, <2>3 DEF EndStat, TypeOK, ProcTypeOK
    <3>2. QED
      BY <2>1, <3>1, Zenon DEF Same, SameFiles
  <2>4. QED
    BY <2>2, <2>3
<1>7. CASE StopDaemon
  BY <1>7 DEF StopDaemon, Stop, Stopped, SameFiles
<1>8. CASE StartDaemon
  BY <1>8 DEF StartDaemon, init, Cleared
<1>9. CASE (WorkerStep /\ ~EndStat) \/ Request \/ StopWorker \/ UNCHANGED vars
  <2>1. UNCHANGED <<writer, reader, emitted, taken, data, endf, mpc>>
    BY <1>9 DEF WorkerStep, ListAnswer, DetailsAnswer, AskNext, NextAnswer, ReadChunk,
                EndAnswer, Request, GetList, Post, GetChunk, Delete, StopWorker, vars,
                procVars, mgrVars, serverVars
  <2>2. QED
    BY <2>1 DEF Same, SameFiles
<1>10. QED
  BY <1>1, <1>2, <1>3, <1>4, <1>5, <1>6, <1>7, <1>8, <1>9, Zenon DEF Next

\* A writer comes after its reader and is dead before the reader leaves its loop
\* (the pipe has no end before); the end file comes after both.
Orderly(t) ==
    /\ reader[t] \in {"none", "setup"} =>
          writer[t] = "none" /\ emitted[t] = 0 /\ taken[t] = 0 /\ data[t] = NoFile
    /\ reader[t] = "end" => writer[t] = "dead" /\ taken[t] = emitted[t]
    /\ endf[t] => reader[t] = "gone" /\ writer[t] = "dead"

LifeInv ==
    \A t \in Tokens : /\ Orderly(t)
                      /\ mpc = "down" => reader[t] \in {"none", "gone"}

\* Arithmetic of the pipe: an empty pipe holds nothing untaken, and a chunk is a
\* natural number of bytes.
LEMMA Drained == \A e, k \in Nat : e - k = 0 => k = e
OBVIOUS

LEMMA ChunkNat == \A e, k \in Nat : e - k > 0 => Least(ChunkSize, e - k) \in Nat
BY SizesAssumption DEF Least

\* Opening the data file in append mode finds what was taken, also when there was
\* no file because nothing was.
LEMMA OpenedTaken ==
    \A d : \A k \in Nat : d = k \/ (d = NoFile /\ k = 0) => Opened(d) = k
BY DEF Opened, NoFile

LEMMA LifeProcess ==
    ASSUME TypeOK, NEW t \in Tokens, Orderly(t), ProcessorStep(t) \/ OpcStep(t)
    PROVE  /\ Orderly(t)'
           /\ reader[t] \in {"none", "gone"} => reader'[t] = reader[t]
<1>1. CASE Detach(t)
  <2>1. /\ reader[t] = "setup" /\ reader'[t] \in {"read", "gone"}
        /\ SameFiles(t)
    BY <1>1 DEF Detach, SameFiles, TypeOK, ProcTypeOK, Orderly
  <2>2. QED
    BY <2>1, Zenon DEF SameFiles, TypeOK, ProcTypeOK, Orderly
<1>2. CASE pid_output(t) \/ Execve(t) \/ OpcExit(t)
  <2>1. /\ writer[t] \in {"setup", "pid", "run"}
        /\ reader' = reader /\ SameFiles(t)
    BY <1>2 DEF pid_output, Execve, OpcExit, SameFiles
  <2>2. QED
    BY <2>1, Zenon DEF SameFiles, TypeOK, ProcTypeOK, Orderly
<1>3. CASE OpcWrite(t)
  <2>1. /\ writer[t] = "run" /\ reader' = reader /\ endf' = endf
    BY <1>3 DEF OpcWrite
  <2>2. QED
    BY <2>1 DEF TypeOK, ProcTypeOK, Orderly
<1>4. CASE process_chunk(t)
  <2>1. /\ reader[t] = "read" /\ UNCHANGED <<writer, reader, endf>>
    BY <1>4 DEF process_chunk
  <2>2. QED
    BY <2>1, Zenon DEF TypeOK, ProcTypeOK, Orderly
<1>5. CASE process_chunk_end(t)
  <2>1. /\ reader[t] = "read" /\ reader'[t] = "end" /\ writer[t] = "dead"
        /\ InPipe(t) = 0 /\ UNCHANGED <<writer, emitted, taken, endf>>
    BY <1>5 DEF process_chunk_end, TypeOK, ProcTypeOK, Orderly
  <2>2. taken[t] = emitted[t]
    <3>1. emitted[t] \in Nat /\ taken[t] \in Nat
      BY DEF TypeOK, ProcTypeOK
    <3>2. QED
      BY <2>1, <3>1, Drained, Zenon DEF InPipe
  <2>3. QED
    BY <2>1, <2>2, Zenon DEF TypeOK, ProcTypeOK, Orderly
<1>6. CASE WriteEndFile(t)
  <2>1. /\ reader[t] = "end" /\ reader'[t] = "gone" /\ UNCHANGED writer
    BY <1>6 DEF WriteEndFile, TypeOK, ProcTypeOK, Orderly
  <2>2. QED
    BY <2>1, Zenon DEF TypeOK, ProcTypeOK, Orderly
<1>7. QED
  BY <1>1, <1>2, <1>3, <1>4, <1>5, <1>6 DEF ProcessorStep, OpcStep

LEMMA LifeStep == TypeOK /\ FreshInv /\ LifeInv /\ [Next]_vars => LifeInv'
<1> SUFFICES ASSUME TypeOK, FreshInv, LifeInv, [Next]_vars, NEW t \in Tokens
             PROVE  Orderly(t)' /\ (mpc' = "down" => reader'[t] \in {"none", "gone"})
  BY DEF LifeInv
<1>0. Orderly(t) /\ (mpc = "down" => reader[t] \in {"none", "gone"})
  BY DEF LifeInv
<1>1. CASE Same(t) /\ (mpc' = "down" => mpc = "down")
  BY <1>0, <1>1 DEF Same, SameFiles, Orderly
<1>2. CASE (ProcessorStep(t) \/ OpcStep(t)) /\ mpc' = mpc
  BY <1>0, <1>2, LifeProcess
<1>3. CASE Started(t) /\ mpc' # "down"
  BY <1>0, <1>3, Zenon DEF Started, SameFiles, Orderly, Fresh
<1>4. CASE Terminated(t) /\ mpc' # "down"
  BY <1>0, <1>4 DEF Terminated, SameFiles, Orderly
<1>5. CASE Removed(t) /\ mpc' = mpc
  BY <1>0, <1>5 DEF Removed, Orderly
<1>6. CASE Stopped(t) /\ mpc' = "down"
  BY <1>0, <1>6 DEF Stopped, SameFiles, Orderly, LeaderExists
<1>7. CASE Cleared(t) /\ mpc' # "down"
  BY <1>0, <1>7 DEF Cleared, Orderly
<1>8. QED
  BY <1>1, <1>2, <1>3, <1>4, <1>5, <1>6, <1>7, TokenStep

LEMMA Living == Spec => []LifeInv
<1>1. Init => LifeInv
  BY Zenon DEF Init, ProcInit, MgrInit, LifeInv, Orderly
<1>2. QED
  BY <1>1, LifeStep, QueueInOrder, TypeCorrect, PTL DEF Spec

\* The data file holds what the reader has taken from the pipe.
Kept(t) ==
    /\ reader[t] = "read" =>
          data[t] = taken[t] \/ (data[t] = NoFile /\ taken[t] = 0)
    /\ reader[t] = "end" => data[t] = taken[t]
    /\ endf[t] => data[t] = emitted[t]

KeptInv == \A t \in Tokens : Kept(t)

LEMMA KeptProcess ==
    ASSUME "fopen" \notin Faults, TypeOK, NEW t \in Tokens, Orderly(t), Kept(t),
           ProcessorStep(t) \/ OpcStep(t)
    PROVE  Kept(t)'
<1>1. CASE Detach(t)
  <2>1. /\ reader[t] = "setup" /\ reader'[t] \in {"read", "gone"} /\ SameFiles(t)
    BY <1>1 DEF Detach, SameFiles, TypeOK, ProcTypeOK
  <2>2. QED
    BY <2>1, Zenon DEF SameFiles, Orderly, Kept
<1>2. CASE pid_output(t) \/ Execve(t) \/ OpcExit(t)
  <2>1. reader' = reader /\ SameFiles(t)
    BY <1>2 DEF pid_output, Execve, OpcExit, SameFiles
  <2>2. QED
    BY <2>1, Zenon DEF SameFiles, Kept
<1>3. CASE OpcWrite(t)
  <2>1. /\ writer[t] = "run" /\ UNCHANGED <<reader, endf, taken, data>>
    BY <1>3 DEF OpcWrite
  <2>2. QED
    BY <2>1 DEF Orderly, Kept
<1>4. CASE process_chunk(t)
  <2>1. PICK n \in Nat : n = Least(ChunkSize, InPipe(t))
    <3>1. emitted[t] \in Nat /\ taken[t] \in Nat /\ InPipe(t) > 0
      BY <1>4 DEF process_chunk, TypeOK, ProcTypeOK
    <3>2. QED
      BY <3>1, ChunkNat, Zenon DEF InPipe
  <2>2. /\ reader[t] = "read" /\ UNCHANGED <<reader, endf>>
        /\ taken' = [taken EXCEPT ![t] = @ + n]
        /\ data' = [data EXCEPT ![t] = Opened(@) + n]
    BY <1>4, <2>1 DEF process_chunk, Succeeds
  <2>3. taken'[t] = taken[t] + n /\ data'[t] = Opened(data[t]) + n
    BY <2>2 DEF TypeOK, ProcTypeOK
  <2>4. data'[t] = taken'[t]
    <3>1. taken[t] \in Nat
      BY DEF TypeOK, ProcTypeOK
    <3>2. data[t] = taken[t] \/ (data[t] = NoFile /\ taken[t] = 0)
      BY <2>2, Zenon DEF Kept
    <3>3. Opened(data[t]) = taken[t]
      BY <3>1, <3>2, OpenedTaken, Zenon
    <3>4. QED
      BY <2>3, <3>3, Zenon
  <2>5. QED
    BY <2>2, <2>4 DEF Orderly, Kept
<1>5. CASE process_chunk_end(t)
  <2>1. /\ reader[t] = "read" /\ reader'[t] = "end" /\ UNCHANGED <<emitted, taken, endf>>
        /\ data'[t] = Opened(data[t])
    BY <1>5 DEF process_chunk_end, Succeeds, TypeOK, ProcTypeOK
  <2>2. data'[t] = taken[t]
    <3>1. taken[t] \in Nat
      BY DEF TypeOK, ProcTypeOK
    <3>2. data[t] = taken[t] \/ (data[t] = NoFile /\ taken[t] = 0)
      BY <2>1, Zenon DEF Kept
    <3>3. QED
      BY <2>1, <3>1, <3>2, OpenedTaken, Zenon
  <2>3. QED
    BY <2>1, <2>2, Zenon DEF Orderly, Kept
<1>6. CASE WriteEndFile(t)
  <2>1. /\ reader[t] = "end" /\ reader'[t] = "gone" /\ UNCHANGED <<emitted, taken, data>>
    BY <1>6 DEF WriteEndFile, TypeOK, ProcTypeOK
  <2>2. QED
    BY <2>1, Zenon DEF Orderly, Kept
<1>7. QED
  BY <1>1, <1>2, <1>3, <1>4, <1>5, <1>6 DEF ProcessorStep, OpcStep

LEMMA KeptStep ==
    ASSUME "fopen" \notin Faults
    PROVE  TypeOK /\ FreshInv /\ LifeInv /\ KeptInv /\ [Next]_vars => KeptInv'
<1> SUFFICES ASSUME TypeOK, FreshInv, LifeInv, KeptInv, [Next]_vars, NEW t \in Tokens
             PROVE  Kept(t)'
  BY DEF KeptInv
<1>0. Orderly(t) /\ Kept(t) /\ (mpc = "down" => reader[t] \in {"none", "gone"})
  BY DEF LifeInv, KeptInv
<1>1. CASE Same(t)
  BY <1>0, <1>1 DEF Same, SameFiles, Kept
<1>2. CASE ProcessorStep(t) \/ OpcStep(t)
  BY <1>0, <1>2, KeptProcess
<1>3. CASE Started(t)
  BY <1>0, <1>3 DEF Started, SameFiles, Kept, Fresh
<1>4. CASE Terminated(t)
  BY <1>0, <1>4 DEF Terminated, SameFiles, Kept
<1>5. CASE Removed(t)
  BY <1>0, <1>5 DEF Removed, Kept, Orderly
<1>6. CASE Stopped(t)
  BY <1>0, <1>6 DEF Stopped, SameFiles, Kept, LeaderExists
<1>7. CASE Cleared(t)
  BY <1>0, <1>7, Zenon DEF Cleared, Kept
<1>8. QED
  BY <1>1, <1>2, <1>3, <1>4, <1>5, <1>6, <1>7, TokenStep

LEMMA Keeping ==
    ASSUME "fopen" \notin Faults
    PROVE  Spec => []KeptInv
<1>1. Init => KeptInv
  BY Zenon DEF Init, ProcInit, KeptInv, Kept
<1>2. QED
  BY <1>1, KeptStep, Living, QueueInOrder, TypeCorrect, PTL DEF Spec

\* process_chunk_end writes the end file after the last chunk, and whatever
\* kills, restarts and reads come between, the manager and get_chunk see it only
\* beside a complete data file of a command that has stopped.  A chunk whose file
\* cannot be opened would be missing from it.
THEOREM EndFileIsTrue ==
    ASSUME "fopen" \notin Faults
    PROVE  Spec => []EndFileMeansComplete
<1>1. LifeInv /\ KeptInv => EndFileMeansComplete
  BY DEF LifeInv, Orderly, KeptInv, Kept, EndFileMeansComplete
<1>2. QED
  BY <1>1, Living, Keeping, PTL

\* What get_chunk concludes from the end file is still so when it acts on it: a
\* writer that is dead stays dead.
LEMMA DeadStays ==
    ASSUME TypeOK, FreshInv, LifeInv, [Next]_vars, NEW t \in Tokens, writer[t] = "dead"
    PROVE  writer'[t] = "dead" /\ emitted'[t] = emitted[t]
<1>0. Orderly(t)
  BY DEF LifeInv
<1>1. CASE ProcessorStep(t) \/ OpcStep(t)
  <2>1. reader[t] # "setup"
    BY <1>0 DEF Orderly
  <2>2. UNCHANGED <<writer, emitted>>
    BY <1>1, <2>1 DEF ProcessorStep, Detach, pid_output, Execve, process_chunk,
                      process_chunk_end, WriteEndFile, OpcStep, OpcWrite, OpcExit
  <2>3. QED
    BY <2>2
<1>2. CASE ~(ProcessorStep(t) \/ OpcStep(t))
  BY <1>2, TokenStep, Zenon DEF Same, SameFiles, Started, Fresh, Terminated, Removed, Stopped, Cleared
<1>3. QED
  BY <1>1, <1>2, Zenon

LEMMA KillStep ==
    ASSUME EndTexts = {}
    PROVE  TypeOK /\ FreshInv /\ LifeInv /\ EndIsTrue /\ [Next]_vars => EndIsTrue'
<1> SUFFICES ASSUME TypeOK, FreshInv, LifeInv, EndIsTrue, [Next]_vars, rpc' = "kill"
             PROVE  writer'[rtok'] = "dead"
  BY DEF EndIsTrue
<1>1. CASE rpc = "kill" /\ rtok' = rtok
  <2>1. rtok \in Tokens /\ writer[rtok] = "dead"
    BY <1>1 DEF TypeOK, RestTypeOK, EndIsTrue
  <2>2. QED
    BY <1>1, <2>1, DeadStays
<1>2. CASE EndStat
  <2>1. /\ rpc = "endstat" /\ endf[rtok] /\ rtok' = rtok /\ writer' = writer
    BY <1>2 DEF EndStat, GoTo, Answered
  <2>2. rtok \in Tokens
    BY <2>1 DEF TypeOK, RestTypeOK
  <2>3. QED
    BY <2>1, <2>2 DEF LifeInv, Orderly
<1>3. CASE WorkerStep /\ ~EndStat
  BY <1>3 DEF WorkerStep, ListAnswer, DetailsAnswer, AskNext, NextAnswer, ReadChunk,
              EndAnswer, GoTo, Answered, AnswerGone, TextIsEnd
<1>4. CASE Request
  BY <1>1, <1>4, Zenon DEF Request, GetList, Post, GetChunk, Delete, Begin, restVars, workerVars
<1>5. CASE ~WorkerStep /\ ~Request
  <2>1. rpc = "kill" /\ rtok' = rtok
    BY <1>5 DEF Next, StopDaemon, StopWorker, StartDaemon, Answered, vars, restVars,
                workerVars
  <2>2. QED
    BY <1>1, <2>1
<1>6. QED
  BY <1>2, <1>3, <1>4, <1>5

\* get_chunk says "END", and has the process deleted, only for a command that
\* has stopped; provided no output is just that word.
THEOREM EndOnlyWhenDead ==
    ASSUME EndTexts = {}
    PROVE  Spec => []EndIsTrue
<1>1. Init => EndIsTrue
  BY DEF Init, EndIsTrue
<1>2. QED
  BY <1>1, KillStep, Living, QueueInOrder, TypeCorrect, PTL DEF Spec
=============================================================================

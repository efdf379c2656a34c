----------------------------- MODULE OpModeProofs -----------------------------
(***************************************************************************)
(* Theorems about OpMode, for every set of tokens and users, all sizes and *)
(* any number of restarts.                                                 *)
(***************************************************************************)
EXTENDS OpMode, SequenceTheorems, TLAPS

-----------------------------------------------------------------------------
(***************************************************************************)
(* The listen queue.                                                       *)
(***************************************************************************)

\* The connection that read() accepts carries a well-formed message, and what
\* stays in the queue is well-formed.
LEMMA QueueHead ==
    ASSUME conns \in Seq(Messages), conns # <<>>
    PROVE  /\ Head(conns) \in Messages
           /\ Tail(conns) \in Seq(Messages)
           /\ Head(conns).op \in Ops
           /\ Head(conns).user \in Users
           /\ Head(conns).stmt \in BOOLEAN
           /\ Head(conns).op # "process" => Head(conns).tok \in Tokens
<1>1. Head(conns) \in Messages /\ Tail(conns) \in Seq(Messages)
  BY HeadTailProperties
<1>2. QED
  BY <1>1 DEF Messages, Ops

\* A message that the worker sends keeps the queue well-formed.
LEMMA QueueAppend ==
    ASSUME conns \in Seq(Messages),
           NEW op \in Ops \ {"process"}, NEW t \in Tokens, NEW u \in Users,
           NEW s \in BOOLEAN
    PROVE  /\ Append(conns, Message(op, t, u, s)) \in Seq(Messages)
           /\ Append(conns, Message("process", NoToken, u, s)) \in Seq(Messages)
<1>1. Message(op, t, u, s) \in Messages
  BY DEF Message, Messages
<1>2. Message("process", NoToken, u, s) \in Messages
  BY DEF Message, Messages
<1>3. QED
  BY <1>1, <1>2, AppendProperties

\* The answers of the manager are answers.
LEMMA RepliesOK ==
    /\ NoReply \in Replies /\ EmptyReply \in Replies /\ DetailsReply \in Replies
    /\ \A n \in Int : OffsetReply(n) \in Replies
    /\ \A ts \in SUBSET Tokens : ListReply(ts) \in Replies
BY DEF NoReply, EmptyReply, DetailsReply, OffsetReply, ListReply, Replies, ReplyKinds

-----------------------------------------------------------------------------
(***************************************************************************)
(* Type correctness.                                                       *)
(***************************************************************************)

LEMMA InitType == Init => TypeOK
BY RepliesOK, EmptySeq
   DEF Init, ProcInit, MgrInit, TypeOK, ProcTypeOK, MgrTypeOK, RestTypeOK,
       WriterStates, ReaderStates, NoFile, NoEntry, NoReply

\* The steps of the processes of a command.
LEMMA ProcessorType ==
    ASSUME ProcTypeOK, NEW t \in Tokens, ProcessorStep(t) \/ OpcStep(t)
    PROVE  ProcTypeOK'
<1> USE SizesAssumption DEF ProcTypeOK, WriterStates, ReaderStates, Succeeds, NoFile
<1>1. CASE Detach(t)
  BY <1>1 DEF Detach
<1>2. CASE pid_output(t)
  BY <1>2 DEF pid_output
<1>3. CASE Execve(t)
  BY <1>3 DEF Execve
<1>4. CASE process_chunk(t)
  BY <1>4 DEF process_chunk, Least, InPipe, Opened
<1>5. CASE process_chunk_end(t)
  BY <1>5 DEF process_chunk_end, Opened
<1>6. CASE WriteEndFile(t)
  BY <1>6, Zenon DEF WriteEndFile
<1>7. CASE OpcWrite(t)
  BY <1>7 DEF OpcWrite
<1>8. CASE OpcExit(t)
  BY <1>8 DEF OpcExit
<1>9. QED
  BY <1>1, <1>2, <1>3, <1>4, <1>5, <1>6, <1>7, <1>8 DEF ProcessorStep, OpcStep

\* The steps of the manager.
LEMMA ManagerType ==
    ASSUME TypeOK, ManagerStep, UNCHANGED restVars
    PROVE  TypeOK'
<1> USE DEF TypeOK, RestTypeOK, restVars, workerVars, clientVars
<1>1. CASE HandleCommand
  <2>1. Head(conns).tok \in Tokens /\ Head(conns).user \in Users
        /\ Tail(conns) \in Seq(Messages)
    BY <1>1, QueueHead DEF HandleCommand, Accept, MgrTypeOK
  <2>2. ProcTypeOK'
    BY <1>1, <2>1, Zenon DEF HandleCommand, start_new, Succeeds, ProcTypeOK, ReaderStates,
                      procVars
  <2>3. MgrTypeOK'
    <3>1. /\ status' \in [Tokens -> {NoEntry, K_RUNNING, K_DEAD}]
          /\ offset' \in [Tokens -> Int]
          /\ owner' \in [Tokens -> Users \cup {NoUser}]
      <4>1. PICK t \in Tokens, u \in Users :
               \/ /\ status' = [status EXCEPT ![t] = K_RUNNING]
                  /\ offset' = [offset EXCEPT ![t] = 0]
                  /\ owner' = [owner EXCEPT ![t] = u]
               \/ UNCHANGED tableVars
        BY <1>1, <2>1 DEF HandleCommand
      <4>2. status' \in [Tokens -> {NoEntry, K_RUNNING, K_DEAD}]
        BY <4>1, Zenon DEF MgrTypeOK, tableVars
      <4>3. offset' \in [Tokens -> Int]
        BY <4>1 DEF MgrTypeOK, tableVars
      <4>4. owner' \in [Tokens -> Users \cup {NoUser}]
        BY <4>1, Zenon DEF MgrTypeOK, tableVars
      <4>5. QED
        BY <4>2, <4>3, <4>4
    <3>2. QED
      BY <1>1, <2>1, <3>1 DEF HandleCommand, Accept, MgrTypeOK
  <2>4. QED
    BY <2>2, <2>3
<1>2. CASE HandleProcess
  BY <1>2, QueueHead, RepliesOK, Zenon
     DEF HandleProcess, Accept, Entries, MgrTypeOK, ProcTypeOK, procVars, tableVars
<1>3. CASE HandleDetails
  BY <1>3, QueueHead, RepliesOK, Zenon
     DEF HandleDetails, Accept, MgrTypeOK, ProcTypeOK, procVars, tableVars
<1>4. CASE HandleNext
  <2>1. Head(conns).tok \in Tokens /\ Tail(conns) \in Seq(Messages)
    BY <1>4, QueueHead DEF HandleNext, Accept, MgrTypeOK
  <2>2. /\ ShownOffset(Head(conns).tok) \in Int
        /\ data[Head(conns).tok] \in Int
    BY <2>1, SMTT(30) DEF ShownOffset, DeadOffset, MgrTypeOK, ProcTypeOK, NoFile
  <2>3. ProcTypeOK'
    BY <1>4 DEF HandleNext, ProcTypeOK, procVars
  <2>4. MgrTypeOK'
    <3>1. offset' \in [Tokens -> Int]
      BY <1>4, <2>1, <2>2, SizesAssumption, SMTT(30) DEF HandleNext, MgrTypeOK, tableVars
    <3>2. reply' \in Replies /\ mresp' \in Int
      BY <1>4, <2>2, RepliesOK DEF HandleNext, MgrTypeOK
    <3>3. QED
      BY <1>4, <2>1, <3>1, <3>2 DEF HandleNext, Accept, MgrTypeOK, tableVars
  <2>5. QED
    BY <2>3, <2>4
<1>5. CASE NextEndStat
  <2>1. ProcTypeOK'
    BY <1>5 DEF NextEndStat, ProcTypeOK, procVars
  <2>2. MgrTypeOK'
    BY <1>5, RepliesOK DEF NextEndStat, Finish, MgrTypeOK
  <2>3. QED
    BY <2>1, <2>2
<1>6. CASE HandleDelete
  <2>1. Head(conns).tok \in Tokens /\ Tail(conns) \in Seq(Messages)
    BY <1>6, QueueHead DEF HandleDelete, Accept, MgrTypeOK
  <2>2. ProcTypeOK'
    BY <1>6, <2>1, Zenon DEF HandleDelete, ProcTypeOK
  <2>3. MgrTypeOK'
    BY <1>6, <2>1, ManagerAssumption DEF HandleDelete, Accept, MgrTypeOK, tableVars
  <2>4. QED
    BY <2>2, <2>3
<1>7. CASE KillTerm
  BY <1>7 DEF KillTerm, SignalTerm, AfterTerm, MgrTypeOK, ProcTypeOK, tableVars,
              WriterStates
<1>8. CASE KillCheck
  <2>1. mtok \in Tokens
    BY <1>8 DEF KillCheck, MgrTypeOK
  <2>2. ProcTypeOK'
    BY <1>8, <2>1 DEF KillCheck, SignalKill, ProcTypeOK, WriterStates, ReaderStates
  <2>3. MgrTypeOK'
    <3>1. status' \in [Tokens -> {NoEntry, K_RUNNING, K_DEAD}]
      BY <1>8, <2>1, Zenon DEF KillCheck, MgrTypeOK
    <3>2. QED
      BY <1>8, <3>1 DEF KillCheck, Finish, MgrTypeOK
  <2>4. QED
    BY <2>2, <2>3
<1>9. QED
  BY <1>1, <1>2, <1>3, <1>4, <1>5, <1>6, <1>7, <1>8 DEF ManagerStep

\* The steps of the worker inside a request.
LEMMA WorkerType ==
    ASSUME TypeOK, WorkerStep
    PROVE  TypeOK'
<1> USE DEF TypeOK, RestTypeOK, procVars, tableVars, clientVars, Answered, GoTo
<1>1. CASE ListAnswer
  <2>1. ProcTypeOK'
    BY <1>1 DEF ListAnswer, ProcTypeOK
  <2>2. MgrTypeOK'
    BY <1>1, RepliesOK DEF ListAnswer, MgrTypeOK
  <2>3. QED
    BY <1>1, <2>1, <2>2 DEF ListAnswer
<1>2. CASE DetailsAnswer
  <2>1. MgrTypeOK' /\ ProcTypeOK'
    BY <1>2, RepliesOK DEF DetailsAnswer, MgrTypeOK, ProcTypeOK
  <2>2. RestTypeOK'
    BY <1>2 DEF DetailsAnswer, AnswerGone
  <2>3. QED
    BY <2>1, <2>2
<1>3. CASE AskNext
  <2>1. rtok \in Tokens /\ ruser \in Users
    BY <1>3 DEF AskNext
  <2>2. conns' \in Seq(Messages)
    <3>1. Append(conns, Message("next", rtok, ruser, FALSE)) \in Seq(Messages)
      BY <2>1, QueueAppend, Zenon DEF Ops, MgrTypeOK
    <3>2. QED
      BY <1>3, <3>1, Zenon DEF AskNext, Send, MgrTypeOK
  <2>3. MgrTypeOK' /\ ProcTypeOK'
    BY <1>3, <2>2, Zenon DEF AskNext, MgrTypeOK, ProcTypeOK
  <2>4. RestTypeOK'
    BY <1>3, <2>1 DEF AskNext
  <2>5. QED
    BY <2>3, <2>4
<1>4. CASE NextAnswer
  <2>1. MgrTypeOK' /\ ProcTypeOK'
    BY <1>4, RepliesOK DEF NextAnswer, MgrTypeOK, ProcTypeOK
  <2>2. reply.off \in Int
    BY DEF MgrTypeOK, Replies
  <2>3. RestTypeOK'
    BY <1>4, <2>2 DEF NextAnswer
  <2>4. QED
    BY <2>1, <2>3
<1>5. CASE ReadChunk
  <2>1. rtok \in Tokens
    BY <1>5 DEF ReadChunk
  <2>2. ASSUME roff >= 0, data[rtok] # NoFile
        PROVE  ReadEnd(rtok, roff) \in Nat
    BY <2>1, <2>2, OpModeAssumption DEF ReadEnd, Least, ProcTypeOK
  <2>3. got' \in [Tokens -> Nat]
    BY <1>5, <2>1, <2>2 DEF ReadChunk
  <2>4. MgrTypeOK' /\ ProcTypeOK'
    BY <1>5 DEF ReadChunk, mgrVars, serverVars, MgrTypeOK, ProcTypeOK
  <2>5. RestTypeOK'
    BY <1>5, <2>3 DEF ReadChunk
  <2>6. QED
    BY <2>4, <2>5
<1>6. CASE EndStat
  <2>1. MgrTypeOK'
    BY <1>6 DEF EndStat, mgrVars, serverVars, MgrTypeOK
  <2>2. ProcTypeOK'
    BY <1>6, Zenon DEF EndStat, ProcTypeOK
  <2>3. RestTypeOK'
    BY <1>6 DEF EndStat
  <2>4. QED
    BY <2>1, <2>2, <2>3
<1>7. CASE EndAnswer
  <2>1. rtok \in Tokens /\ ruser \in Users
    BY <1>7 DEF EndAnswer
  <2>2. conns' \in Seq(Messages)
    <3>1. Append(conns, Message("delete", rtok, ruser, FALSE)) \in Seq(Messages)
      BY <2>1, QueueAppend, Zenon DEF Ops, MgrTypeOK
    <3>2. QED
      BY <1>7, <3>1, Zenon DEF EndAnswer, Send, MgrTypeOK
  <2>3. MgrTypeOK' /\ ProcTypeOK'
    BY <1>7, <2>2 DEF EndAnswer, MgrTypeOK, ProcTypeOK
  <2>4. RestTypeOK'
    BY <1>7, <2>1 DEF EndAnswer, AnswerGone
  <2>5. QED
    BY <2>3, <2>4
<1>8. QED
  BY <1>1, <1>2, <1>3, <1>4, <1>5, <1>6, <1>7 DEF WorkerStep

\* The steps that begin a request.
LEMMA RequestType ==
    ASSUME TypeOK, Request
    PROVE  TypeOK'
<1> USE DEF TypeOK, RestTypeOK, procVars, tableVars, clientVars, Begin, Send
<1> PICK u \in Users :
        \/ GetList(u)
        \/ \E t \in Tokens :
              \/ \E s \in BOOLEAN : Post(u, t, s)
              \/ GetChunk(u, t)
              \/ Delete(u, t)
  BY DEF Request
<1>1. CASE GetList(u)
  <2>1. Append(conns, Message("process", NoToken, u, FALSE)) \in Seq(Messages)
    <3>1. Message("process", NoToken, u, FALSE) \in Messages
      BY DEF Message, Messages
    <3>2. QED
      BY <3>1, AppendProperties, Zenon DEF MgrTypeOK
  <2>2. QED
    BY <1>1, <2>1, Zenon DEF GetList, MgrTypeOK, ProcTypeOK
<1>2. ASSUME NEW t \in Tokens, NEW s \in BOOLEAN, Post(u, t, s)
      PROVE  TypeOK'
  <2>1. conns' \in Seq(Messages)
    BY <1>2, QueueAppend DEF Post, Ops, MgrTypeOK
  <2>2. QED
    BY <1>2, <2>1, Zenon DEF Post, workerVars, MgrTypeOK, ProcTypeOK
<1>3. ASSUME NEW t \in Tokens, GetChunk(u, t)
      PROVE  TypeOK'
  <2>1. conns' \in Seq(Messages)
    BY <1>3, QueueAppend, Zenon DEF GetChunk, Ops, MgrTypeOK
  <2>2. QED
    BY <1>3, <2>1, Zenon DEF GetChunk, MgrTypeOK, ProcTypeOK
<1>4. ASSUME NEW t \in Tokens, Delete(u, t)
      PROVE  TypeOK'
  <2>1. conns' \in Seq(Messages)
    BY <1>4, QueueAppend, Zenon DEF Delete, Ops, MgrTypeOK
  <2>2. QED
    BY <1>4, <2>1, Zenon DEF Delete, restVars, workerVars, MgrTypeOK, ProcTypeOK
<1>5. QED
  BY <1>1, <1>2, <1>3, <1>4

\* The steps of the service script.
LEMMA ServiceType ==
    ASSUME TypeOK, StopDaemon \/ StopWorker \/ StartDaemon
    PROVE  TypeOK'
<1> USE RepliesOK DEF TypeOK, RestTypeOK, restVars, workerVars, clientVars, tableVars
<1>1. CASE StopDaemon
  <2>1. conns' \in Seq(Messages)
    BY <1>1, EmptySeq, Zenon DEF StopDaemon, Stop
  <2>2. ProcTypeOK'
    <3>1. writer' \in [Tokens -> WriterStates]
      BY <1>1 DEF StopDaemon, Stop, ProcTypeOK, WriterStates
    <3>2. reader' \in [Tokens -> ReaderStates]
      BY <1>1 DEF StopDaemon, Stop, ProcTypeOK, ReaderStates
    <3>3. QED
      BY <1>1, <3>1, <3>2 DEF StopDaemon, Stop, ProcTypeOK
  <2>3. MgrTypeOK'
    <3>1. status' \in [Tokens -> {NoEntry, K_RUNNING, K_DEAD}]
      BY <1>1, Zenon DEF StopDaemon, Stop
    <3>2. reply' = reply \/ reply' = EmptyReply
      BY <1>1 DEF StopDaemon, Stop
    <3>3. /\ mpc' = "down" /\ mtok' = NoToken /\ mresp' = 0 /\ mct' = 0
          /\ UNCHANGED <<offset, owner>>
      BY <1>1 DEF StopDaemon, Stop
    <3>4. QED
      BY <2>1, <3>1, <3>2, <3>3 DEF MgrTypeOK
  <2>4. QED
    BY <1>1, <2>2, <2>3 DEF StopDaemon
<1>2. CASE StopWorker
  <2>1. ProcTypeOK'
    BY <1>2 DEF StopWorker, procVars, ProcTypeOK
  <2>2. MgrTypeOK'
    BY <1>2 DEF StopWorker, MgrTypeOK
  <2>3. QED
    BY <1>2, <2>1, <2>2 DEF StopWorker, Answered
<1>3. CASE StartDaemon
  BY <1>3 DEF StartDaemon, init, MgrTypeOK, ProcTypeOK, NoFile
<1>4. QED
  BY <1>1, <1>2, <1>3

LEMMA NextType == TypeOK /\ [Next]_vars => TypeOK'
<1> SUFFICES ASSUME TypeOK, [Next]_vars
             PROVE  TypeOK'
  OBVIOUS
<1>1. ASSUME NEW t \in Tokens, ProcessorStep(t) \/ OpcStep(t),
             UNCHANGED <<mgrVars, restVars>>
      PROVE  TypeOK'
  <2>1. ProcTypeOK'
    BY <1>1, ProcessorType DEF TypeOK
  <2>2. QED
    BY <1>1, <2>1 DEF TypeOK, MgrTypeOK, RestTypeOK, mgrVars, tableVars, serverVars,
                      restVars, workerVars, clientVars
<1>2. CASE UNCHANGED vars
  BY <1>2 DEF TypeOK, ProcTypeOK, MgrTypeOK, RestTypeOK, vars, procVars, mgrVars,
              tableVars, serverVars, restVars, workerVars, clientVars
<1>3. QED
  BY <1>1, <1>2, ManagerType, WorkerType, RequestType, ServiceType DEF Next

\* Every variable keeps its type, and while the worker or the manager is busy
\* with a token, it is a token that was handed out as one.
THEOREM TypeCorrect == Spec => []TypeOK
<1>1. QED
  BY InitType, NextType, PTL DEF Spec

-----------------------------------------------------------------------------
(***************************************************************************)
(* No output is skipped: NoSkip, for every set of tokens and users, all    *)
(* sizes, any failing system calls and any number of restarts.             *)
(***************************************************************************)
\* What the argument needs of the constants: an answer carries at least as much
\* as the manager moves its offset by, no file reaches 2^32 bytes, errno is not
\* stale, and no output is just the word "END".
Regular ==
    /\ ReadSize >= ChunkSize
    /\ MaxOutput < UnsignedMod
    /\ ~StaleErrno
    /\ EndTexts = {}

-----------------------------------------------------------------------------
(***************************************************************************)
(* The files.                                                              *)
(***************************************************************************)
LEMMA SizeStep == TypeOK /\ SizeInv /\ [Next]_vars => SizeInv'
<1> SUFFICES ASSUME TypeOK, SizeInv, [Next]_vars
             PROVE  SizeInv'
  OBVIOUS
<1> USE SizesAssumption DEF SizeInv, TypeOK, ProcTypeOK, NoFile
<1>1. ASSUME NEW t \in Tokens, ProcessorStep(t)
      PROVE  SizeInv'
  <2>1. CASE process_chunk(t)
    <3> DEFINE n == Least(ChunkSize, InPipe(t))
    <3>1. n \in Nat /\ n <= InPipe(t)
      BY <2>1 DEF process_chunk, Least, InPipe
    <3>2. /\ taken' = [taken EXCEPT ![t] = @ + n]
          /\ data' = data \/ data' = [data EXCEPT ![t] = Opened(@) + n]
          /\ emitted' = emitted
      BY <2>1 DEF process_chunk
    <3> HIDE DEF n
    <3>3. QED
      BY <3>1, <3>2 DEF InPipe, Opened
  <2>2. CASE process_chunk_end(t)
    BY <2>2 DEF process_chunk_end, Opened
  <2>3. CASE ~process_chunk(t) /\ ~process_chunk_end(t)
    BY <1>1, <2>3 DEF ProcessorStep, Detach, pid_output, Execve, WriteEndFile
  <2>4. QED
    BY <2>1, <2>2, <2>3, Zenon
<1>2. ASSUME NEW t \in Tokens, OpcStep(t)
      PROVE  SizeInv'
  BY <1>2 DEF OpcStep, OpcWrite, OpcExit
<1>3. CASE ManagerStep
  <2>1. UNCHANGED <<emitted, taken, data>>
    BY <1>3, Zenon DEF ManagerStep, HandleCommand, start_new, HandleProcess, HandleDetails,
                HandleNext, NextEndStat, HandleDelete, KillTerm, KillCheck, procVars
  <2>2. QED
    BY <2>1
<1>4. CASE WorkerStep
  <2>1. CASE EndStat
    BY <2>1 DEF EndStat
  <2>2. CASE ~EndStat
    <3>1. UNCHANGED <<emitted, taken, data>>
      BY <1>4, <2>2 DEF WorkerStep, ListAnswer, DetailsAnswer, AskNext, NextAnswer,
                        ReadChunk, EndAnswer, procVars
    <3>2. QED
      BY <3>1
  <2>3. QED
    BY <2>1, <2>2
<1>5. CASE Request \/ StopDaemon \/ StopWorker \/ UNCHANGED vars
  <2>1. UNCHANGED <<emitted, taken, data>>
    BY <1>5, Zenon DEF Request, GetList, Post, GetChunk, Delete, StopDaemon, Stop,
                StopWorker, vars, procVars
  <2>2. QED
    BY <2>1
<1>6. CASE StartDaemon
  BY <1>6 DEF StartDaemon, init
<1>7. QED
  BY <1>1, <1>2, <1>3, <1>4, <1>5, <1>6, Zenon DEF Next

-----------------------------------------------------------------------------
(***************************************************************************)
(* The queue.                                                              *)
(***************************************************************************)

\* read() takes the first connection; the others move up.
LEMMA TailQueue ==
    ASSUME conns \in Seq(Messages), conns # <<>>
    PROVE  /\ 1 \in DOMAIN conns
           /\ Head(conns) = conns[1]
           /\ Len(conns) \in Nat
           /\ Len(Tail(conns)) = Len(conns) - 1
           /\ \A i \in DOMAIN Tail(conns) :
                 /\ i \in Nat
                 /\ i + 1 \in DOMAIN conns
                 /\ Tail(conns)[i] = conns[i + 1]
<1>1. /\ Len(conns) \in Nat \ {0}
      /\ DOMAIN conns = 1 .. Len(conns)
  BY EmptySeq, LenProperties
<1>2. /\ Tail(conns) \in Seq(Messages)
      /\ Len(Tail(conns)) = Len(conns) - 1
      /\ \A i \in 1 .. Len(Tail(conns)) : Tail(conns)[i] = conns[i + 1]
  BY HeadTailProperties
<1>3. DOMAIN Tail(conns) = 1 .. Len(Tail(conns))
  BY <1>2, LenProperties
<1>4. Head(conns) = conns[1]
  BY <1>1
<1>5. QED
  BY <1>1, <1>2, <1>3, <1>4

\* A new connection goes to the end.
LEMMA AppendQueue ==
    ASSUME conns \in Seq(Messages), NEW m \in Messages
    PROVE  LET new == Append(conns, m) IN
           /\ new # <<>>
           /\ Len(new) = Len(conns) + 1
           /\ \A i \in DOMAIN new :
                 \/ i \in DOMAIN conns /\ new[i] = conns[i]
                 \/ i = Len(new) /\ new[i] = m
<1> DEFINE new == Append(conns, m)
<1>1. /\ new \in Seq(Messages) /\ new # <<>>
      /\ Len(new) = Len(conns) + 1
      /\ \A i \in 1 .. Len(conns) : new[i] = conns[i]
      /\ new[Len(conns) + 1] = m
  BY AppendProperties
<1>2. /\ Len(conns) \in Nat
      /\ DOMAIN conns = 1 .. Len(conns)
      /\ DOMAIN new = 1 .. Len(new)
  BY <1>1, LenProperties
<1> HIDE DEF new
<1>3. QED
  BY <1>1, <1>2 DEF new

TalkInv == QueueInv /\ ReplyInv /\ DownInv

\* A question that read() accepts is the one the worker waits for, and the queue
\* is empty then.
LEMMA QuestionTaken ==
    ASSUME TypeOK, QueueInv, conns # <<>>, Head(conns).op \in Questions
    PROVE  /\ Tail(conns) = <<>>
           /\ rpc = Waiting(Head(conns).op)
           /\ reply = NoReply
           /\ mpc # "endstat"
           /\ Head(conns).op # "process" => Head(conns).tok = rtok /\ Head(conns).user = ruser
<1>0. conns \in Seq(Messages)
  BY DEF TypeOK, MgrTypeOK
<1>1. /\ 1 = Len(conns)
      /\ rpc = Waiting(Head(conns).op)
      /\ reply = NoReply
      /\ mpc # "endstat"
      /\ Head(conns).op # "process" => Head(conns).tok = rtok /\ Head(conns).user = ruser
  BY <1>0, TailQueue DEF QueueInv
<1>2. Tail(conns) \in Seq(Messages) /\ Len(Tail(conns)) = 0
  BY <1>0, <1>1, HeadTailProperties
<1>3. Tail(conns) = <<>>
  BY <1>2, EmptySeq, Zenon
<1>4. QED
  BY <1>1, <1>3

\* Taking a connection that is not a question leaves the queue in order.
LEMMA OtherTaken ==
    ASSUME TypeOK, QueueInv, conns # <<>>, conns' = Tail(conns),
           UNCHANGED <<rpc, rtok, ruser, reply>>, mpc' # "endstat"
    PROVE  QueueInv'
<1>0. conns \in Seq(Messages)
  BY DEF TypeOK, MgrTypeOK
<1>1. ASSUME NEW i \in DOMAIN conns', conns'[i].op \in Questions
      PROVE  /\ i = Len(conns')
             /\ rpc = Waiting(conns'[i].op)
             /\ reply = NoReply
             /\ conns'[i].op # "process" => conns'[i].tok = rtok /\ conns'[i].user = ruser
  <2>1. /\ i \in Nat /\ i + 1 \in DOMAIN conns
        /\ conns'[i] = conns[i + 1]
        /\ Len(conns') = Len(conns) - 1
        /\ Len(conns) \in Nat
    BY <1>0, TailQueue
  <2>2. QED
    BY <1>1, <2>1 DEF QueueInv
<1>2. QED
  BY <1>1 DEF QueueInv

\* So does a new connection, when it is no question or the queue held none.
LEMMA QueueGrows ==
    ASSUME TypeOK, NEW m \in Messages, conns' = Append(conns, m),
           \A i \in DOMAIN conns : conns[i].op \notin Questions,
           m.op \in Questions =>
               /\ rpc' = Waiting(m.op)
               /\ reply' = NoReply
               /\ mpc' # "endstat"
               /\ m.op # "process" => m.tok = rtok' /\ m.user = ruser'
    PROVE  QueueInv'
<1>0. conns \in Seq(Messages)
  BY DEF TypeOK, MgrTypeOK
<1>1. \A i \in DOMAIN conns' : conns'[i].op \in Questions =>
          i = Len(conns') /\ conns'[i] = m
  BY <1>0, AppendQueue
<1>2. QED
  BY <1>1 DEF QueueInv

\* A worker that waits for nothing, or has its answer, has no question under way.
LEMMA Quiet ==
    ASSUME QueueInv, ReplyInv,
           rpc \notin {"list", "details", "next"} \/ reply # NoReply
    PROVE  /\ \A i \in DOMAIN conns : conns[i].op \notin Questions
           /\ mpc # "endstat"
BY DEF QueueInv, ReplyInv, Questions, Waiting

\* With the same queue and no questions in it.
LEMMA StillQuiet ==
    ASSUME \A i \in DOMAIN conns : conns[i].op \notin Questions, conns' = conns
    PROVE  QueueInv'
BY DEF QueueInv

LEMMA TalkManager ==
    ASSUME TypeOK, TalkInv, ManagerStep, UNCHANGED restVars
    PROVE  TalkInv'
<1> USE DEF TalkInv
<1>0. UNCHANGED <<rpc, rtok, ruser>>
  BY DEF restVars, workerVars
<1>1. CASE HandleCommand \/ HandleDelete
  <2>1. /\ conns # <<>> /\ conns' = Tail(conns) /\ reply' = reply
        /\ mpc = "idle" /\ mpc' \in {"idle", "term"}
    BY <1>1 DEF HandleCommand, HandleDelete, Accept
  <2>2. QueueInv'
    BY <1>0, <2>1, OtherTaken
  <2>3. QED
    BY <1>0, <2>1, <2>2 DEF ReplyInv, DownInv
<1>2. CASE HandleProcess \/ HandleDetails
  <2>1. /\ conns # <<>> /\ conns' = Tail(conns)
        /\ Head(conns).op \in {"process", "details"}
        /\ mpc = "idle" /\ mpc' = "idle"
        /\ reply'.kind # "offset"
    BY <1>2 DEF HandleProcess, HandleDetails, Accept, ListReply, DetailsReply, EmptyReply
  <2>2. conns' = <<>> /\ rpc = Waiting(Head(conns).op)
    BY <2>1, QuestionTaken DEF Questions
  <2>3. rpc \in {"list", "details"}
    BY <2>1, <2>2 DEF Waiting
  <2>4. QED
    BY <1>0, <2>1, <2>2, <2>3 DEF QueueInv, ReplyInv, DownInv
<1>3. CASE HandleNext
  <2>1. /\ conns # <<>> /\ conns' = Tail(conns) /\ Head(conns).op = "next"
        /\ mpc = "idle"
    BY <1>3, Zenon DEF HandleNext, Accept
  <2>2. /\ conns' = <<>> /\ rpc = "next" /\ reply = NoReply
        /\ Head(conns).tok = rtok
    BY <2>1, QuestionTaken DEF Questions, Waiting
  <2>3. \/ mpc' = "idle"
        \/ mpc' = "endstat" /\ mtok' = Head(conns).tok /\ reply' = reply
    BY <1>3, <2>1, Zenon DEF HandleNext
  <2>4. QED
    BY <1>0, <2>2, <2>3 DEF QueueInv, ReplyInv, DownInv
<1>4. CASE NextEndStat
  <2>1. /\ mpc = "endstat" /\ mpc' = "idle" /\ conns' = conns
    BY <1>4 DEF NextEndStat, Finish
  <2>2. \A i \in DOMAIN conns : conns[i].op \notin Questions
    BY <2>1 DEF QueueInv
  <2>3. rpc = "next"
    BY <2>1 DEF ReplyInv
  <2>4. QED
    BY <1>0, <2>1, <2>2, <2>3, StillQuiet DEF ReplyInv, DownInv
<1>5. CASE KillTerm \/ KillCheck
  <2>1. /\ mpc \notin {"down", "endstat"} /\ mpc' \notin {"down", "endstat"}
        /\ conns' = conns /\ reply' = reply
    BY <1>5 DEF KillTerm, KillCheck, Finish
  <2>2. QED
    BY <1>0, <2>1 DEF QueueInv, ReplyInv, DownInv
<1>6. QED
  BY <1>1, <1>2, <1>3, <1>4, <1>5 DEF ManagerStep

LEMMA TalkWorker ==
    ASSUME TypeOK, TalkInv, WorkerStep
    PROVE  TalkInv'
<1> USE DEF TalkInv
<1>0. DownInv'
  <2>1. mpc' = mpc /\ status' = status
    BY DEF WorkerStep, ListAnswer, DetailsAnswer, AskNext, NextAnswer, ReadChunk,
           EndStat, EndAnswer, tableVars, mgrVars, serverVars
  <2>2. mpc = "down" => conns' = conns
    BY DEF WorkerStep, ListAnswer, DetailsAnswer, AskNext, NextAnswer, ReadChunk,
           EndStat, EndAnswer, Send, CanConnect, mgrVars, serverVars
  <2>3. QED
    BY <2>1, <2>2 DEF DownInv
<1>1. CASE ListAnswer \/ DetailsAnswer \/ NextAnswer
  <2>1. /\ reply # NoReply /\ reply' = NoReply
        /\ conns' = conns /\ mpc' = mpc
    BY <1>1 DEF ListAnswer, DetailsAnswer, NextAnswer
  <2>2. QueueInv' /\ mpc # "endstat"
    BY <2>1, Quiet, StillQuiet
  <2>3. QED
    BY <1>0, <2>1, <2>2, Zenon DEF ReplyInv, NoReply
<1>2. CASE AskNext \/ EndAnswer
  <2>1. rpc \in {"found", "kill"} /\ reply' = reply /\ mpc' = mpc
    BY <1>2 DEF AskNext, EndAnswer
  <2>2. /\ \A i \in DOMAIN conns : conns[i].op \notin Questions
        /\ mpc # "endstat" /\ reply = NoReply
    BY <2>1, Quiet DEF ReplyInv
  <2>3. rtok \in Tokens /\ ruser \in Users
    BY <2>1 DEF TypeOK, RestTypeOK
  <2>4. QueueInv'
    <3>1. CASE AskNext /\ Send("next", rtok, ruser) /\ GoTo("next")
      <4>1. Message("next", rtok, ruser, FALSE) \in Messages
        BY <2>3 DEF Message, Messages, Ops
      <4>2. QED
        BY <2>1, <2>2, <3>1, <4>1, QueueGrows DEF Send, GoTo, Message, Waiting
    <3>2. CASE EndAnswer /\ Send("delete", rtok, ruser)
      <4>1. Message("delete", rtok, ruser, FALSE) \in Messages
        BY <2>3 DEF Message, Messages, Ops
      <4>2. QED
        BY <3>2, <2>2, <4>1, QueueGrows DEF Send, Message, Questions
    <3>3. CASE conns' = conns
      BY <2>2, <3>3, StillQuiet
    <3>4. QED
      BY <1>2, <3>1, <3>2, <3>3 DEF AskNext, EndAnswer
  <2>5. QED
    BY <1>0, <2>1, <2>2, <2>4 DEF ReplyInv, NoReply
<1>3. CASE ReadChunk \/ EndStat
  <2>1. /\ rpc \in {"stat", "endstat"} /\ conns' = conns /\ reply' = reply /\ mpc' = mpc
    BY <1>3 DEF ReadChunk, EndStat, mgrVars, serverVars
  <2>2. /\ QueueInv' /\ mpc # "endstat" /\ reply = NoReply
    BY <2>1, Quiet, StillQuiet DEF ReplyInv
  <2>3. QED
    BY <1>0, <2>1, <2>2 DEF ReplyInv, NoReply
<1>4. QED
  BY <1>1, <1>2, <1>3 DEF WorkerStep

LEMMA TalkRequest ==
    ASSUME TypeOK, TalkInv, Request
    PROVE  TalkInv'
<1> USE DEF TalkInv
<1>0. /\ rpc = "idle" /\ CanConnect
      /\ UNCHANGED <<mpc, status, reply>>
  BY Zenon DEF Request, GetList, Post, GetChunk, Delete, Begin, Send, tableVars
<1>1. /\ \A i \in DOMAIN conns : conns[i].op \notin Questions
      /\ mpc # "endstat" /\ reply = NoReply
  BY <1>0, Quiet DEF ReplyInv
<1>2. ReplyInv' /\ DownInv'
  BY <1>0, <1>1, Zenon DEF ReplyInv, DownInv, NoReply, CanConnect
<1>3. ASSUME NEW u \in Users, GetList(u)
      PROVE  QueueInv'
  <2>1. Message("process", NoToken, u, FALSE) \in Messages
    BY DEF Message, Messages
  <2>2. QED
    BY <1>0, <1>1, <1>3, <2>1, QueueGrows, Zenon DEF GetList, Begin, Send, Message, Waiting
<1>4. ASSUME NEW u \in Users, NEW t \in Tokens, NEW s \in BOOLEAN, Post(u, t, s)
      PROVE  QueueInv'
  <2>1. Message("command", t, u, s) \in Messages
    BY DEF Message, Messages, Ops
  <2>2. QED
    BY <1>1, <1>4, <2>1, QueueGrows DEF Post, Message, Questions
<1>5. ASSUME NEW u \in Users, NEW t \in Tokens, GetChunk(u, t)
      PROVE  QueueInv'
  <2>1. Message("details", t, u, FALSE) \in Messages
    BY DEF Message, Messages, Ops
  <2>2. QED
    BY <1>0, <1>1, <1>5, <2>1, QueueGrows DEF GetChunk, Begin, Send, Message, Waiting
<1>6. ASSUME NEW u \in Users, NEW t \in Tokens, Delete(u, t)
      PROVE  QueueInv'
  <2>1. Message("delete", t, u, FALSE) \in Messages
    BY DEF Message, Messages, Ops
  <2>2. QED
    BY <1>1, <1>6, <2>1, QueueGrows DEF Delete, Send, Message, Questions
<1>7. QED
  BY <1>2, <1>3, <1>4, <1>5, <1>6 DEF Request

LEMMA TalkStep == TypeOK /\ TalkInv /\ [Next]_vars => TalkInv'
<1> SUFFICES ASSUME TypeOK, TalkInv, [Next]_vars
             PROVE  TalkInv'
  OBVIOUS
<1>1. CASE UNCHANGED <<mgrVars, restVars>>
  BY <1>1 DEF TalkInv, QueueInv, ReplyInv, DownInv, mgrVars, tableVars, serverVars,
              restVars, workerVars
<1>2. CASE StopDaemon
  <2>1. /\ mpc' = "down" /\ conns' = <<>>
        /\ status' = [t \in Tokens |-> NoEntry]
        /\ UNCHANGED rpc
        /\ IF rpc \in {"list", "details", "next"} /\ reply = NoReply
           THEN reply' = EmptyReply ELSE reply' = reply
    BY <1>2, Zenon DEF StopDaemon, Stop, restVars, workerVars
  <2>2. QED
    BY <2>1 DEF TalkInv, QueueInv, ReplyInv, DownInv, EmptyReply
<1>3. CASE StopWorker
  <2>1. mpc = "down" /\ UNCHANGED <<mpc, conns, status>> /\ reply' = NoReply
    BY <1>3 DEF StopWorker, tableVars
  <2>2. QED
    BY <2>1 DEF TalkInv, QueueInv, ReplyInv, DownInv, NoReply
<1>4. CASE StartDaemon
  <2>1. /\ mpc = "down" /\ mpc' = "idle"
        /\ UNCHANGED <<conns, reply, rpc>>
    BY <1>4 DEF StartDaemon, init, restVars, workerVars
  <2>2. QED
    BY <2>1 DEF TalkInv, QueueInv, ReplyInv, DownInv
<1>5. CASE UNCHANGED vars
  BY <1>1, <1>5 DEF vars
<1>6. QED
  BY <1>1, <1>2, <1>3, <1>4, <1>5, TalkManager, TalkWorker, TalkRequest DEF Next

-----------------------------------------------------------------------------
(***************************************************************************)
(* The offsets.                                                            *)
(***************************************************************************)

\* The condition of OffsetInv for an entry that is not dead.
Covered(t) ==
    /\ offset[t] >= 0
    /\ \/ offset[t] <= got[t]
       \/ /\ Pending(t)
          /\ PendingOff >= 0
          /\ offset[t] <= data[t]
          /\ offset[t] <= PendingOff + ReadSize

\* The numbers of a token.
LEMMA TokenNumbers ==
    ASSUME TypeOK, NEW t \in Tokens
    PROVE  offset[t] \in Int /\ got[t] \in Nat /\ data[t] \in Int
<1>1. offset[t] \in Int
  BY DEF TypeOK, MgrTypeOK
<1>2. got[t] \in Nat
  BY DEF TypeOK, RestTypeOK
<1>3. data[t] \in Int
  BY DEF TypeOK, ProcTypeOK, NoFile
<1>4. QED
  BY <1>1, <1>2, <1>3

\* No data file gets shorter.
Grown == \A t \in Tokens : data'[t] \in Int /\ data'[t] >= data[t]

LEMMA SameGrown ==
    ASSUME TypeOK, data' = data
    PROVE  Grown
BY TokenNumbers DEF Grown

LEMMA LongerGrown ==
    ASSUME TypeOK, NEW t \in Tokens, NEW m \in Int, m >= data[t],
           data' = [data EXCEPT ![t] = m]
    PROVE  Grown
<1>1. data \in [Tokens -> Int]
  BY DEF TypeOK, ProcTypeOK, NoFile
<1>2. data'[t] = m
  BY <1>1
<1>3. ASSUME NEW s \in Tokens, s # t
      PROVE  data'[s] = data[s]
  BY <1>1, <1>3
<1>4. ASSUME NEW s \in Tokens
      PROVE  data'[s] \in Int /\ data'[s] >= data[s]
  <2>1. CASE s = t
    BY <1>2, <2>1
  <2>2. CASE s # t
    BY <1>3, <2>2, TokenNumbers
  <2>3. QED
    BY <2>1, <2>2
<1>5. QED
  BY <1>4 DEF Grown

\* What the manager's offsets and the pending read have to do with each other
\* is kept by steps that change neither.
LEMMA OffsetFrame ==
    ASSUME TypeOK, OffsetInv, got' = got,
           \A t \in Tokens :
               /\ Pending(t)' <=> Pending(t)
               /\ Pending(t) => /\ PendingOff' = PendingOff
                                /\ data'[t] \in Int /\ data'[t] >= data[t]
               /\ status'[t] = K_RUNNING =>
                     \/ status[t] = K_RUNNING /\ offset'[t] = offset[t]
                     \/ offset'[t] = 0
    PROVE  OffsetInv'
<1> SUFFICES ASSUME NEW t \in Tokens
             PROVE  /\ Pending(t)' => PendingOff' <= got[t]
                    /\ status'[t] = K_RUNNING => Covered(t)'
  BY DEF OffsetInv, Covered
<1>1. Pending(t)' => PendingOff' <= got[t]
  BY DEF OffsetInv
<1>2. CASE status[t] = K_RUNNING /\ offset'[t] = offset[t]
  <2>1. CASE offset[t] <= got[t]
    BY <1>2, <2>1 DEF OffsetInv, Covered
  <2>2. CASE ~(offset[t] <= got[t])
    <3>1. /\ Pending(t) /\ PendingOff >= 0 /\ offset[t] <= data[t]
          /\ offset[t] <= PendingOff + ReadSize
      BY <1>2, <2>2 DEF OffsetInv
    <3>2. /\ offset[t] \in Int /\ data[t] \in Int /\ data'[t] \in Int
          /\ data'[t] >= data[t]
      BY <3>1, TokenNumbers
    <3>3. offset'[t] <= data'[t]
      BY <1>2, <3>1, <3>2, SMTT(30)
    <3>4. QED
      BY <1>2, <3>1, <3>3 DEF OffsetInv, Covered
  <2>3. QED
    BY <2>1, <2>2
<1>3. CASE offset'[t] = 0
  <2>1. got[t] \in Nat
    BY TokenNumbers
  <2>2. offset'[t] >= 0 /\ offset'[t] <= got'[t]
    BY <1>3, <2>1
  <2>3. QED
    BY <1>1, <2>2 DEF Covered
<1>4. QED
  BY <1>1, <1>2, <1>3

LEMMA OffsetManager ==
    ASSUME Regular, TypeOK, SizeInv, TalkInv, OffsetInv, ManagerStep, UNCHANGED restVars
    PROVE  OffsetInv'
<1> USE OpModeAssumption, ManagerAssumption, SizesAssumption DEF TypeOK, Regular
<1>0. UNCHANGED <<rpc, rtok, roff, got>>
  BY DEF restVars, workerVars, clientVars
<1>1. CASE HandleNext
  <2>1. /\ conns # <<>> /\ Head(conns).op = "next" /\ mpc = "idle"
        /\ data' = data
    BY <1>1 DEF HandleNext, Accept, procVars
  <2>2. rpc = "next" /\ reply = NoReply /\ Head(conns).tok = rtok
    BY <2>1, QuestionTaken DEF Questions, Waiting, TalkInv
  <2>3. PICK t \in Tokens : t = Head(conns).tok
    BY <2>2 DEF RestTypeOK
  <2>4. PICK n \in Int : n = ShownOffset(t)
    BY <2>3, TokenNumbers DEF ShownOffset, DeadOffset
  <2>5. rpc = "next" /\ reply = NoReply /\ t = rtok
    BY <2>2, <2>3
  <2>6. \A x \in Tokens : ~Pending(x)
    BY <2>1, <2>5 DEF Pending, NoReply
  <2>7. \A x \in Tokens : status[x] = K_RUNNING => 0 <= offset[x] /\ offset[x] <= got[x]
    BY <2>6 DEF OffsetInv
  <2>8. CASE t \notin Entries(Head(conns).user)
    <3>1. UNCHANGED <<status, offset, mpc>> /\ reply' = EmptyReply
      BY <1>1, <2>3, <2>8, Zenon DEF HandleNext, tableVars
    <3>2. \A x \in Tokens : ~Pending(x)'
      BY <1>0, <2>1, <2>5, <3>1 DEF Pending, EmptyReply
    <3>3. QED
      BY <1>0, <2>7, <3>1, <3>2 DEF OffsetInv
  <2>9. CASE t \in Entries(Head(conns).user)
    <3>1. /\ \/ mpc' = mpc /\ reply' = OffsetReply(n)
             \/ mpc' = "endstat" /\ mresp' = n
          /\ status' = status
          /\ \/ data[t] = NoFile /\ offset' = [offset EXCEPT ![t] = n]
             \/ /\ data[t] # NoFile /\ ChunkAvailable(t, n)
                /\ offset' = [offset EXCEPT ![t] = n + ChunkSize]
             \/ /\ data[t] # NoFile /\ ~ChunkAvailable(t, n)
                /\ offset' = [offset EXCEPT ![t] = data[t]]
      BY <1>1, <2>4, <2>3, <2>9, Zenon DEF HandleNext
    <3>2. PendingOff' = n /\ Pending(t)'
      BY <1>0, <2>1, <2>5, <3>1, SMTT(30) DEF Pending, PendingOff, OffsetReply
    <3>3. \A x \in Tokens : Pending(x)' => x = t
      BY <1>0, <2>5 DEF Pending
    <3>4. /\ n \in Int /\ n <= got[t]
          /\ status[t] = K_RUNNING => n = offset[t] /\ n >= 0
      <4>1. got[t] \in Nat /\ offset[t] \in Int
        BY <2>3 DEF RestTypeOK, MgrTypeOK
      <4>2. status[t] \in {K_RUNNING, K_DEAD}
        BY <2>3, <2>9 DEF Entries, MgrTypeOK
      <4>3. QED
        BY <2>4, <2>7, <4>1, <4>2 DEF ShownOffset, DeadOffset, K_RUNNING, K_DEAD
    <3>5. data[t] # NoFile => Unsigned(data[t]) = data[t] /\ data[t] \in Nat
      <4>1. /\ data[t] \in Nat \cup {NoFile} /\ taken[t] \in Nat /\ emitted[t] \in Nat
            /\ data[t] <= MaxOutput
        BY <2>3 DEF ProcTypeOK, SizeInv, NoFile
      <4>2. QED
        BY <4>1 DEF Unsigned, NoFile
    <3>6. status[t] = K_RUNNING => Covered(t)'
      <4>0. ASSUME status[t] = K_RUNNING PROVE offset'[t] >= 0
        <5>1. offset \in [Tokens -> Int] /\ n >= 0 /\ n + ChunkSize >= 0
          BY <3>4, <4>0, SizesAssumption DEF MgrTypeOK
        <5>2. CASE offset' = [offset EXCEPT ![t] = n]
          BY <2>3, <5>1, <5>2
        <5>3. CASE offset' = [offset EXCEPT ![t] = n + ChunkSize]
          BY <2>3, <5>1, <5>3
        <5>4. CASE data[t] # NoFile /\ offset' = [offset EXCEPT ![t] = data[t]]
          BY <2>3, <3>5, <5>1, <5>4, SMTT(30)
        <5>5. QED
          BY <3>1, <5>2, <5>3, <5>4
      <4>1. ASSUME status[t] = K_RUNNING, data[t] = NoFile, offset' = [offset EXCEPT ![t] = n]
            PROVE  offset'[t] <= got[t]
        BY <2>3, <3>4, <4>1 DEF MgrTypeOK
      <4>2. ASSUME status[t] = K_RUNNING, data[t] # NoFile, ChunkAvailable(t, n),
                   offset' = [offset EXCEPT ![t] = n + ChunkSize]
            PROVE  offset'[t] <= data[t] /\ offset'[t] <= n + ReadSize
        <5>1. offset'[t] = n + ChunkSize
          BY <2>3, <4>2 DEF MgrTypeOK
        <5>2. data[t] \in Nat /\ data[t] > n + ChunkSize
          BY <3>5, <4>2 DEF ChunkAvailable
        <5>3. QED
          BY <3>4, <5>1, <5>2
      <4>3. ASSUME status[t] = K_RUNNING, data[t] # NoFile, ~ChunkAvailable(t, n),
                   offset' = [offset EXCEPT ![t] = data[t]]
            PROVE  offset'[t] <= data[t] /\ offset'[t] <= n + ReadSize
        <5>1. offset'[t] = data[t]
          BY <2>3, <4>3 DEF MgrTypeOK
        <5>2. data[t] \in Nat /\ ~(data[t] > n + ChunkSize)
          BY <3>5, <4>3 DEF ChunkAvailable
        <5>3. QED
          BY <3>4, <5>1, <5>2
      <4>4. QED
        BY <1>0, <2>1, <2>3, <3>1, <3>2, <3>4, <4>0, <4>1, <4>2, <4>3, Zenon DEF Covered
    <3>7. ASSUME NEW x \in Tokens, x # t, status[x] = K_RUNNING
          PROVE  Covered(x)'
      <4>1. offset'[x] = offset[x]
        BY <2>3, <3>1, <3>7, Zenon DEF MgrTypeOK
      <4>2. QED
        BY <1>0, <2>7, <3>7, <4>1 DEF Covered
    <3>8. QED
      BY <1>0, <3>1, <3>2, <3>3, <3>4, <3>6, <3>7 DEF OffsetInv, Covered
  <2>10. QED
    BY <2>8, <2>9
<1>2. CASE NextEndStat
  <2>1. /\ mpc = "endstat" /\ mpc' = "idle" /\ reply' = OffsetReply(mresp)
        /\ UNCHANGED <<data, offset>>
        /\ \A x \in Tokens : status'[x] = K_RUNNING => status[x] = K_RUNNING
    BY <1>2 DEF NextEndStat, Finish, procVars, MgrTypeOK, K_RUNNING, K_DEAD
  <2>2. PendingOff' = PendingOff /\ \A x \in Tokens : Pending(x)' <=> Pending(x)
    BY <1>0, <2>1 DEF Pending, PendingOff, OffsetReply
  <2>3. QED
    BY <1>0, <2>1, <2>2, SameGrown, OffsetFrame DEF Grown
<1>3. CASE HandleCommand
  <2>1. UNCHANGED <<data, mpc, mresp, reply>>
    BY <1>3 DEF HandleCommand, start_new, procVars
  <2>2. PICK t \in Tokens :
            \/ /\ status' = [status EXCEPT ![t] = K_RUNNING]
               /\ offset' = [offset EXCEPT ![t] = 0]
            \/ UNCHANGED tableVars
    <3>1. Head(conns).tok \in Tokens
      BY <1>3, QueueHead, Zenon DEF HandleCommand, Accept, MgrTypeOK
    <3>2. QED
      BY <1>3, <3>1 DEF HandleCommand
  <2>3. \A x \in Tokens : status'[x] = K_RUNNING =>
            \/ status[x] = K_RUNNING /\ offset'[x] = offset[x]
            \/ offset'[x] = 0
    BY <2>2 DEF MgrTypeOK, tableVars
  <2>4. PendingOff' = PendingOff /\ \A x \in Tokens : Pending(x)' <=> Pending(x)
    BY <1>0, <2>1 DEF Pending, PendingOff
  <2>5. QED
    BY <1>0, <2>1, <2>3, <2>4, SameGrown, OffsetFrame DEF Grown
<1>4. CASE HandleProcess \/ HandleDetails
  <2>1. /\ conns # <<>> /\ Head(conns).op \in {"process", "details"}
        /\ mpc = "idle" /\ UNCHANGED <<mpc, data, status, offset>>
        /\ reply'.kind # "offset"
    <3>1. \A T : ListReply(T).kind # "offset"
      BY DEF ListReply
    <3>2. DetailsReply.kind # "offset"
      BY DEF DetailsReply
    <3>3. EmptyReply.kind # "offset"
      BY DEF EmptyReply
    <3>4. CASE HandleProcess
      BY <3>1, <3>3, <3>4 DEF HandleProcess, Accept, procVars, tableVars
    <3>5. CASE HandleDetails
      BY <3>2, <3>3, <3>5 DEF HandleDetails, Accept, procVars, tableVars
    <3>6. QED
      BY <1>4, <3>4, <3>5, Zenon
  <2>2. rpc = Waiting(Head(conns).op) /\ reply = NoReply
    BY <2>1, QuestionTaken DEF Questions, TalkInv
  <2>3. \A x \in Tokens : ~Pending(x) /\ ~Pending(x)'
    BY <1>0, <2>1, <2>2 DEF Pending, Waiting, NoReply
  <2>4. QED
    BY <1>0, <2>1, <2>3, OffsetFrame
<1>5. CASE HandleDelete \/ KillTerm \/ KillCheck
  <2>1. /\ mpc # "endstat" /\ mpc' # "endstat" /\ UNCHANGED <<reply, data, offset>>
        /\ \A x \in Tokens : status'[x] = K_RUNNING => status[x] = K_RUNNING
    BY <1>5 DEF HandleDelete, Accept, KillTerm, KillCheck, Finish, tableVars,
                MgrTypeOK, K_RUNNING, NoEntry
  <2>2. PendingOff' = PendingOff /\ \A x \in Tokens : Pending(x)' <=> Pending(x)
    BY <1>0, <2>1 DEF Pending, PendingOff
  <2>3. QED
    BY <1>0, <2>1, <2>2, SameGrown, OffsetFrame DEF Grown
<1>6. QED
  BY <1>1, <1>2, <1>3, <1>4, <1>5 DEF ManagerStep

\* A read that starts at p takes in everything up to o.
LEMMA ReadCovers ==
    ASSUME NEW o \in Int, NEW d \in Int, NEW p \in Int, NEW s \in Nat, o <= d, o <= p + s
    PROVE  o <= IF d <= p THEN p ELSE Least(d, p + s)
BY DEF Least

\* Arithmetic of a read: it ends at an integer, and a count raised to two others
\* is no less than what was at most one of them.
LEMMA ReadInt ==
    \A d, p \in Int : (IF d <= p THEN p ELSE Least(d, p + ReadSize)) \in Int
BY OpModeAssumption DEF Least

LEMMA AtMostBoth ==
    \A o, m, g, h \in Int : h >= m /\ h >= g /\ (o <= m \/ o <= g) => o <= h
OBVIOUS

LEMMA LargerOfTwo ==
    \A g, m, h \in Int : h = (IF g < m THEN m ELSE g) => h >= m /\ h >= g
OBVIOUS

\* Appending to the data file, or opening it to append, does not shorten it.
LEMMA AppendGrows ==
    \A d \in Int : /\ Opened(d) \in Int /\ Opened(d) >= d
                   /\ \A n \in Nat : Opened(d) + n \in Int /\ Opened(d) + n >= d
BY DEF Opened, NoFile

LEMMA OffsetWorker ==
    ASSUME Regular, TypeOK, TypeOK', TalkInv, OffsetInv, WorkerStep
    PROVE  OffsetInv'
<1>0. UNCHANGED <<status, offset, mpc, mresp>>
  BY DEF WorkerStep, ListAnswer, DetailsAnswer, AskNext, NextAnswer, ReadChunk,
         EndStat, EndAnswer, tableVars, mgrVars, serverVars
<1>2. CASE NextAnswer /\ reply.kind = "offset"
  <2>1. rpc = "next" /\ mpc # "endstat"
    BY <1>2, Quiet DEF NextAnswer, TalkInv
  <2>2. /\ rpc' = "stat" /\ roff' = reply.off /\ reply' = NoReply
        /\ UNCHANGED <<rtok, got, data>>
    BY <1>2 DEF NextAnswer, procVars, clientVars, Regular
  <2>3. \A t \in Tokens : /\ Pending(t)' <=> Pending(t)
                          /\ PendingOff' = PendingOff
    BY <1>0, <1>2, <2>1, <2>2 DEF Pending, PendingOff, NoReply
  <2>4. Grown
    BY <2>2, SameGrown
  <2>5. QED
    BY <1>0, <2>2, <2>3, <2>4, OffsetFrame, Zenon DEF Grown
<1>3. CASE \/ ListAnswer \/ DetailsAnswer \/ AskNext \/ EndStat \/ EndAnswer
           \/ NextAnswer /\ reply.kind # "offset"
  <2>1. /\ rpc # "stat" /\ rpc' # "stat" /\ reply.kind # "offset" /\ got' = got
        /\ mpc # "endstat"
        /\ reply' = reply \/ reply' = NoReply
    <3>1. rpc # "stat" /\ rpc' # "stat" /\ got' = got
      BY <1>3, Zenon DEF ListAnswer, DetailsAnswer, AskNext, EndStat, EndAnswer, NextAnswer,
                  GoTo, Answered, AnswerGone, clientVars
    <3>2. reply.kind # "offset"
      BY <1>3 DEF ListAnswer, DetailsAnswer, AskNext, EndStat, EndAnswer, TalkInv,
                  ReplyInv
    <3>3. mpc # "endstat"
      BY <1>3, Quiet DEF ListAnswer, DetailsAnswer, AskNext, EndStat, EndAnswer,
                         NextAnswer, TalkInv
    <3>4. reply' = reply \/ reply' = NoReply
      BY <1>3 DEF ListAnswer, DetailsAnswer, AskNext, EndStat, EndAnswer, NextAnswer,
                  mgrVars, serverVars
    <3>5. QED
      BY <3>1, <3>2, <3>3, <3>4
  <2>2. \A t \in Tokens : ~Pending(t) /\ ~Pending(t)'
    BY <1>0, <2>1 DEF Pending, NoReply
  <2>3. QED
    BY <1>0, <2>1, <2>2, OffsetFrame, Zenon
<1>4. CASE ReadChunk
  <2>1. /\ rpc = "stat" /\ rtok \in Tokens /\ reply = NoReply /\ mpc # "endstat"
        /\ UNCHANGED <<reply, data>>
    BY <1>4, Quiet DEF ReadChunk, RestTypeOK, TalkInv, ReplyInv, mgrVars, serverVars,
                       procVars, TypeOK
  <2>2. rpc' # "stat"
    BY <1>4 DEF ReadChunk, GoTo, Answered
  <2>3. \A t \in Tokens : ~Pending(t)'
    BY <1>0, <2>1, <2>2 DEF Pending, NoReply
  <2>4. PICK r \in Tokens : r = rtok
    BY <2>1
  <2>5. /\ PendingOff = roff /\ Pending(r)
        /\ \A t \in Tokens : t # r => ~Pending(t)
    BY <2>1, <2>4 DEF Pending, PendingOff, NoReply
  <2>6. /\ roff \in Int /\ roff <= got[r] /\ got[r] \in Nat /\ got'[r] \in Nat
        /\ offset[r] \in Int /\ data[r] \in Int
    <3>1. roff \in Int /\ got'[r] \in Nat
      BY DEF RestTypeOK, TypeOK
    <3>2. roff <= got[r]
      BY <2>5 DEF OffsetInv
    <3>3. QED
      BY <3>1, <3>2, TokenNumbers
  <2>7. ASSUME NEW t \in Tokens, t # r, status[t] = K_RUNNING
        PROVE  offset[t] >= 0 /\ offset[t] <= got'[t]
    <3>1. offset[t] >= 0 /\ offset[t] <= got[t]
      BY <2>5, <2>7 DEF OffsetInv
    <3>2. got'[t] = got[t]
      BY <1>4, <2>4, <2>7 DEF ReadChunk, RestTypeOK, TypeOK
    <3>3. QED
      BY <3>1, <3>2
  <2>8. ASSUME status[r] = K_RUNNING
        PROVE  offset[r] >= 0 /\ offset[r] <= got'[r]
    <3>1. /\ offset[r] >= 0
          /\ \/ offset[r] <= got[r]
             \/ roff >= 0 /\ offset[r] <= data[r] /\ offset[r] <= roff + ReadSize
      BY <2>5, <2>8, Zenon DEF OffsetInv, Covered
    <3>2. CASE data[r] # NoFile /\ roff >= 0
      <4>1. PICK m \in Int : m = ReadEnd(r, roff)
        BY <2>6, ReadInt, Zenon DEF ReadEnd
      <4>2. got' = [got EXCEPT ![r] = IF @ < m THEN m ELSE @]
        BY <1>4, <2>4, <3>2, <4>1 DEF ReadChunk, TextIsEnd, Regular
      <4>3. got'[r] >= m /\ got'[r] >= got[r]
        <5>1. got'[r] = IF got[r] < m THEN m ELSE got[r]
          BY <4>2 DEF RestTypeOK, TypeOK
        <5>2. got[r] \in Int /\ got'[r] \in Int
          BY <2>6
        <5>3. QED
          BY <4>1, <5>1, <5>2, LargerOfTwo, Zenon
      <4>4. offset[r] <= m \/ offset[r] <= got[r]
        <5>1. ReadSize \in Nat
          BY OpModeAssumption
        <5>2. CASE offset[r] <= data[r] /\ offset[r] <= roff + ReadSize
          BY <2>6, <4>1, <5>1, <5>2, ReadCovers, Zenon DEF ReadEnd
        <5>3. QED
          BY <3>1, <5>2
      <4>5. got[r] \in Int /\ got'[r] \in Int
        BY <2>6
      <4>6. QED
        BY <2>6, <3>1, <4>1, <4>3, <4>4, <4>5, AtMostBoth, Zenon
    <3>3. CASE ~(data[r] # NoFile /\ roff >= 0)
      <4>1. got' = got
        BY <1>4, <2>4, <3>3 DEF ReadChunk
      <4>2. offset[r] >= 0 /\ offset[r] <= got[r]
        <5>1. CASE data[r] = NoFile
          <6>1. ~(offset[r] >= 0 /\ offset[r] <= data[r])
            BY <2>6, <5>1 DEF NoFile
          <6>2. QED
            BY <3>1, <6>1
        <5>2. CASE ~(roff >= 0)
          BY <3>1, <5>2
        <5>3. QED
          BY <3>3, <5>1, <5>2
      <4>3. QED
        BY <4>1, <4>2
    <3>4. QED
      BY <3>2, <3>3, Zenon
  <2>9. QED
    BY <1>0, <2>3, <2>7, <2>8 DEF OffsetInv
<1>5. QED
  BY <1>2, <1>3, <1>4 DEF WorkerStep

LEMMA OffsetStep ==
    ASSUME Regular, TypeOK, TypeOK', SizeInv, TalkInv, OffsetInv, [Next]_vars
    PROVE  OffsetInv'
<1>1. ASSUME NEW t \in Tokens, ProcessorStep(t) \/ OpcStep(t),
             UNCHANGED <<mgrVars, restVars>>
      PROVE  OffsetInv'
  <2>1. Grown
    <3>1. CASE process_chunk(t)
      <4>0. InPipe(t) \in Nat
        <5>1. emitted[t] \in Nat /\ taken[t] \in Nat
          BY DEF ProcTypeOK, TypeOK
        <5>2. InPipe(t) > 0
          BY <3>1 DEF process_chunk
        <5>3. QED
          BY <5>1, <5>2 DEF InPipe
      <4>1. PICK n \in Nat : n = Least(ChunkSize, InPipe(t))
        BY <4>0, SizesAssumption DEF Least
      <4>2. data' = data \/ data' = [data EXCEPT ![t] = Opened(data[t]) + n]
        BY <3>1, <4>1 DEF process_chunk
      <4>3. Opened(data[t]) + n \in Int /\ Opened(data[t]) + n >= data[t]
        BY TokenNumbers, AppendGrows, Zenon
      <4>4. CASE data' = [data EXCEPT ![t] = Opened(data[t]) + n]
        BY <4>3, <4>4, LongerGrown, Zenon
      <4>5. QED
        BY <4>2, <4>4, SameGrown
    <3>2. CASE process_chunk_end(t)
      <4>1. data' = data \/ data' = [data EXCEPT ![t] = Opened(data[t])]
        BY <3>2 DEF process_chunk_end
      <4>2. Opened(data[t]) \in Int /\ Opened(data[t]) >= data[t]
        BY TokenNumbers, AppendGrows, Zenon
      <4>3. CASE data' = [data EXCEPT ![t] = Opened(data[t])]
        BY <4>2, <4>3, LongerGrown, Zenon
      <4>4. QED
        BY <4>1, <4>3, SameGrown
    <3>3. CASE data' = data
      BY <3>3, SameGrown
    <3>4. QED
      BY <1>1, <3>1, <3>2, <3>3 DEF ProcessorStep, Detach, pid_output, Execve,
                                    WriteEndFile, OpcStep, OpcWrite, OpcExit
  <2>2. UNCHANGED <<mpc, mresp, reply, status, offset, rpc, rtok, roff, got>>
    BY <1>1 DEF mgrVars, tableVars, serverVars, restVars, workerVars, clientVars
  <2>3. PendingOff' = PendingOff /\ \A x \in Tokens : Pending(x)' <=> Pending(x)
    BY <2>2 DEF Pending, PendingOff
  <2>4. QED
    BY <2>1, <2>2, <2>3, OffsetFrame DEF Grown
<1>2. CASE Request
  <2>1. /\ rpc = "idle" /\ rpc' # "stat"
        /\ UNCHANGED <<mpc, mresp, reply, status, offset, got>>
    BY <1>2 DEF Request, GetList, Post, GetChunk, Delete, Begin, tableVars, clientVars,
                restVars, workerVars
  <2>2. mpc # "endstat" /\ reply.kind # "offset"
    BY <2>1, Quiet, Zenon DEF TalkInv, ReplyInv, NoReply
  <2>3. \A x \in Tokens : ~Pending(x) /\ ~Pending(x)'
    BY <2>1, <2>2 DEF Pending
  <2>4. QED
    BY <2>1, <2>3, OffsetFrame, Zenon
<1>3. CASE StopDaemon
  <2>1. /\ mpc' = "down" /\ UNCHANGED <<rpc, rtok, roff, got>>
        /\ \A x \in Tokens : status'[x] = NoEntry
        /\ reply' = reply \/ reply' = EmptyReply
    BY <1>3 DEF StopDaemon, Stop, restVars, workerVars, clientVars
  <2>2. \A x \in Tokens : Pending(x)' => Pending(x) /\ PendingOff' = PendingOff
    <3>1. reply'.kind = "offset" => reply' = reply
      BY <2>1 DEF EmptyReply
    <3>2. reply.kind = "offset" \/ rpc = "stat" => mpc # "endstat"
      BY Quiet, SMTT(30) DEF TalkInv, ReplyInv, NoReply
    <3>3. rpc = "stat" => reply.kind # "offset"
      BY DEF TalkInv, ReplyInv
    <3>4. QED
      BY <2>1, <3>1, <3>2, <3>3 DEF Pending, PendingOff
  <2>3. QED
    BY <2>1, <2>2, Zenon DEF OffsetInv, NoEntry, K_RUNNING
<1>4. CASE StopWorker \/ StartDaemon
  <2>1. /\ rpc' = "idle" /\ mpc = "down" /\ mpc' \in {"down", "idle"}
        /\ status' = status
    BY <1>4 DEF StopWorker, Answered, StartDaemon, init, tableVars, restVars, workerVars
  <2>2. reply'.kind # "offset"
    <3>1. CASE StopWorker
      BY <3>1 DEF StopWorker, NoReply
    <3>2. CASE StartDaemon
      <4>1. rpc = "idle" /\ reply' = reply
        BY <3>2 DEF StartDaemon, init
      <4>2. QED
        BY <4>1 DEF TalkInv, ReplyInv
    <3>3. QED
      BY <1>4, <3>1, <3>2
  <2>3. \A x \in Tokens : ~Pending(x)' /\ status'[x] = NoEntry
    BY <2>1, <2>2 DEF Pending, TalkInv, DownInv
  <2>4. QED
    BY <2>3, Zenon DEF OffsetInv, NoEntry, K_RUNNING
<1>5. CASE UNCHANGED vars
  BY <1>5, Zenon DEF OffsetInv, Pending, PendingOff, vars, procVars, mgrVars, tableVars,
              serverVars, restVars, workerVars, clientVars
<1>6. QED
  BY <1>1, <1>2, <1>3, <1>4, <1>5, OffsetManager, OffsetWorker DEF Next

-----------------------------------------------------------------------------
LEMMA InitNoSkipInv == Init => NoSkipInv
<1> SUFFICES ASSUME Init
             PROVE  NoSkipInv
  OBVIOUS
<1>1. SizeInv
  <2> SUFFICES ASSUME NEW t \in Tokens
               PROVE  data[t] <= taken[t] /\ taken[t] <= emitted[t] /\ emitted[t] <= MaxOutput
    BY Zenon DEF SizeInv
  <2>1. data[t] = -1 /\ taken[t] = 0 /\ emitted[t] = 0
    BY DEF Init, ProcInit, NoFile
  <2>2. QED
    BY <2>1, SizesAssumption
<1>2. QueueInv /\ ReplyInv /\ DownInv
  <2>1. conns = <<>> /\ mpc = "idle" /\ reply = NoReply
    BY DEF Init, MgrInit
  <2>2. QueueInv
    BY <2>1 DEF QueueInv
  <2>3. ReplyInv
    BY <2>1, Zenon DEF ReplyInv, NoReply
  <2>4. DownInv
    BY <2>1 DEF DownInv
  <2>5. QED
    BY <2>2, <2>3, <2>4
<1>3. OffsetInv
  BY Zenon DEF Init, MgrInit, OffsetInv, Pending, NoReply, NoEntry, K_RUNNING
<1>4. QED
  BY <1>1, <1>2, <1>3 DEF NoSkipInv

\* The queue of chunker2 and the one-request-at-a-time loop of the worker keep
\* the offset that the manager advances in HandleNext within reach of the chunk
\* that get_chunk is about to read; this holds through kills and restarts.
THEOREM OffsetsCovered ==
    ASSUME Regular
    PROVE  Spec => []NoSkipInv
<1>1. Init => NoSkipInv
  BY InitNoSkipInv
<1>2. TypeOK /\ TypeOK' /\ NoSkipInv /\ [Next]_vars => NoSkipInv'
  BY SizeStep, TalkStep, OffsetStep DEF NoSkipInv, TalkInv
<1>3. QED
  BY <1>1, <1>2, TypeCorrect, PTL DEF Spec

\* No chunk that get_chunk reads for a GET starts beyond what the client already
\* has, although the manager moves _read_offset before anything is read.
THEOREM NothingSkipped ==
    ASSUME Regular
    PROVE  Spec => []NoSkip
<1>1. TypeOK /\ NoSkipInv => NoSkip
  <2> SUFFICES ASSUME TypeOK, NoSkipInv, rpc = "stat"
               PROVE  roff <= got[rtok]
    BY DEF NoSkip
  <2>1. rtok \in Tokens
    BY DEF TypeOK, RestTypeOK
  <2>2. Pending(rtok) /\ PendingOff = roff
    BY DEF Pending, PendingOff, NoSkipInv, ReplyInv, NoReply
  <2>3. QED
    BY <2>1, <2>2 DEF NoSkipInv, OffsetInv
<1>2. QED
  BY <1>1, TypeCorrect, OffsetsCovered, PTL
=============================================================================

# TLA+ specifications of vyatta-rest

These modules specify the REST server of this repository: operational mode with
its chunker daemon, the session file and its lock, configuration sessions with the
client library, the life of a request in the worker, and the text conversions.
They are checked with TLC on small instances, and the results that matter most are
proved with TLAPS for all values of the constants.

Source paths are relative to the repository root; `server/` is `src/server/`.

## 1. The system

| Part | Code | State | Modules |
| --- | --- | --- | --- |
| Worker | `server/main.cc`, `process.cc`, `http.cc` | ids, groups, request, response | `RestServer` |
| Authentication | `authenticate.cc`, `authbasic.cc` | ids, groups, login uid | `RestServer` |
| Session file | `authsession.cc`, `lib/Vyatta/WebGUI2/SessionKey.pm` | session, lock and temporary file | `SessionLock` |
| Operational mode | `opmode.cc`, `multirespcmd.cc` | token files, the daemon's table | `OpMode` |
| Chunker daemon | `chunker2_main.cc`, `chunker2_manager.cc` | table of commands, listen queue | `ChunkerManager` |
| Command processes | `chunker2_processor.cc` | pipe, data file, end file, pid file | `ChunkerProcessor` |
| Configuration mode | `confmode.cc`, `common.cc` | modify files, configd's sessions | `ConfSession` |
| Configuration tree | `configuration.cc` | none (reads configd, opd) | `ConfSession`, `Template` |
| Application and service mode | `appmode.cc`, `servicemode.cc`, `mode.cc` | input file, child processes | `RestServer` |
| Permissions | `permissions.cc` | none | `RestServer` |
| Client library | `lib/Vyatta/RestClient.pm` | location of the session, count of edits | `ConfSession`, fairness of `OpMode` |
| Strings | `rl_str_proc.cc`, `common.cc` | none | `Strings`, `CommandLine`, `Text` |
| Service script | `scripts/vyatta-webgui-chunker-aux` | none | start and stop in `ChunkerManager`, `SessionLock` |

How they interact. `rest` is one process and serves one request at a time.
`chunker2` is another. They talk over a Unix socket, one message per connection:
`<command>` and `<delete>` are not answered, `<process>`, `<details>` and `<next>`
are. Every background command has two more processes: a *reader*, and a *writer*
that becomes `opc`. The reader, the manager and the worker share three files per
token: the data file `multi_<tok>`, the end file `multi_<tok>_end` and the pid file
`/tmp/<tok>`. No lock protects them. The worker shares the session file with login
scripts, under a lock file that either side may take from the other after a number
of attempts. It runs as root, takes on the effective ids of each request's user,
and goes back. Configuration sessions are in two places, modify files and configd,
which each request changes one after the other.

The behaviours that are hard to test are listed line by line in `PROJECT.json`
under `hazards`: two `lstat` calls with a writer in between, offsets that move
before the bytes are read, a DELETE that overtakes the pid file, `kill -9` in the
middle of everything, locks that are taken away, a call that fails between two
others, and answers that say success after a failure.

## 2. Modules

| Module | Models |
| --- | --- |
| `ChunkerProcessor` | the processes of one command |
| `ChunkerManager` | the daemon: queue, table, messages, kill, start and stop; EXTENDS `ChunkerProcessor` |
| `OpMode` | requests of the worker on top of both |
| `OutputStream` | abstract: a stream received in order, with a final end |
| `SessionLock` | the worker and the login scripts on the session file |
| `ConfSession` | `/rest/conf`, modify files, configd and `RestClient.pm` |
| `ConfStore` | abstract: open sessions with owners and pending edits |
| `RestServer` | a request from accept to the restoring of the ids, with programs |
| `Strings` | conversions of strings (`StrProc`, `mass_replace`, headers, JSON messages), with reference definitions |
| `CommandLine` | the path of a URL as a command line, and this as the arguments of `opc` |
| `Text` | lists of values in the syntax of a template |
| `Template` | the reading of templates |
| `MCOpMode`, `MCSessionLock`, `MCConfSession`, `MCRestServer`, `MCReading` | instances for TLC |
| `OpModeProofs`, `LifeProofs`, `StreamProofs` | proofs about `OpMode`, each on top of the one before |
| `ConfProofs` | proofs about `ConfSession` and `Template` |
| `SessionLockProofs`, `RestServerProofs`, `StringsProofs`, `CommandLineProofs` | proofs about the other components |

`PROJECT.json` maps every definition to the lines it stands for. Definitions have
the name of the function where they stand for one (`start_new`, `process_chunk`,
`discard_session`, `system_out`, `mass_replace`). A definition whose comment starts
with *Mutant* is not used by the specification: it is a plausible wrong version of
the definition after it, kept to show that a property notices the difference.

### Operational mode (`ChunkerProcessor`, `ChunkerManager`, `OpMode`)

* **Files.** Output is counted, not spelled: byte *i* of a command's output is
  position *i*, `data[t]` is the length of the data file or `NoFile`, `endf` and
  `pidf` say whether the other two files exist. Output is text without NUL bytes
  (`process_chunk` makes a C string of each chunk).
* **Processes.** `writer[t]` and `reader[t]` are program counters, cut where another
  process can see a difference. The append of one chunk is one step.
* **Daemon.** `status`, `offset`, `owner` are the fields of an entry of `_proc_coll`
  that decide anything; `conns` is the listen queue. `mpc` cuts handlers where the
  code makes a second system call.
* **Worker and client.** `rpc` is where the request is, `roff` is `chunk_pos`. `used`,
  `got`, `gone` are history: tokens handed out, output received, 410 answers.
* A request that finds the daemon down is answered 500 and changes nothing. It is
  left out where it is the whole request, and modelled where it ends one.
* The pid file holds the number and a newline. `ProcStatFound` is what the code's
  `stat` of `/proc/<pid>\n/stat` returns.
* `SIGTERM` kills only a writer that is past `execve`; before that, and in the
  reader, the handler `sig_end` of the daemon is in place.
* The comparison of sizes is made modulo `UnsignedMod`, the assignment is not, as in
  the code. `StaleErrno` says whether `errno` may still be `EINVAL` when `get_chunk`
  tests it.
* `opc` is external: it writes, exits, may survive `SIGTERM` (`Stubborn`), and gets
  `SIGPIPE` when the reader is gone. Tokens are new (`/dev/urandom`).

### Session file (`SessionLock`)

* `names` are the files that exist, `sess` and `tmp` their records. `out[p]` follows
  the file that a process has open: a rename or a removal by somebody else makes it
  the session file, or a file without a name.
* Both programs buffer. The session file is read at once after it is opened, and
  the copy is written when it is closed: a write at the start of the file, which
  leaves what is beyond it (`Overwrite`), because `get_key` does not truncate.
* `GiveUp` is the end of the attempts to get the lock. `get_key` removes the lock file
  and exits; the worker goes on without the lock, as the code does.
* Time is counted in halves of the session timeout and does not pass within a
  request. `idle` is the client's view: how long ago a key was handed out or used.
* `orderly` is history: nothing has failed since the files were removed.

### Configuration sessions (`ConfSession`)

* A request is one step, since the worker serves one at a time and no other process
  writes modify files. Each call that a request makes may fail (`Works`), and what
  follows is what the code does then: `ok` is whether the answer has no error
  status, `fine` whether no call failed.
* configd is external: a session holds what it adds and removes, a commit applies
  that to the running configuration, a restart forgets all sessions.
* The configuration is one node with several values, and its parent: enough to tell
  the three computations of a node's state apart.
* Each user has one `RestClient` (`loc`, `unc`) and makes other requests beside it.
  These do not use the session of the user's own client object; requests of other
  users may try. `by` is whose request was served last.

### The life of a request (`RestServer`)

* `uid` and `gid` have a real, an effective and a saved part, and the calls change
  them as POSIX says. `todo` holds the calls that `authorized` has yet to make, in
  the order of the code; each may fail, and nothing is undone then.
* A body that is too large is an error, but the request is dispatched all the same,
  without authentication, and is answered 401 or 400 by the mode.
* The child of `system_out` is a shell that opens the input file and a program that
  may write, close its output, and leave a process behind that has the pipe.
  After a failed `fork` the worker goes on, and `wait` leaves the status undefined.
* Operational and configuration mode are one answer here; they have their own
  modules. Service users have no account and keep the ids of the worker.

### Text and templates (`Strings`, `CommandLine`, `Text`, `Template`)

* A text is a sequence of characters; an escape such as `%2F` is one character.
  Each conversion is written as the code computes it and compared with a reference
  definition of what it is for.
* A template is a map that comes in any order. Each entry is a step, so that all
  orders are looked at, and the result is compared with one formula.

## 3. What TLC checks

### Runs that pass

| Run | Instance | Properties | Distinct states |
| --- | --- | --- | --- |
| `OpModeStream` | 1 command, output 5, chunk 2, pipe 3, fairness and polling | `TypeOK`, `EndFileMeansComplete`, `NoSkip`, `EndIsTrue`, `ImplementsStream`, `EventuallyGone` | 42 372 |
| `OpModeTwoCommands` | 2 commands (symmetric), output, chunk, answer and pipe 2 | `GoneIsForever`, `DeadIsComplete` | 2 421 202 |
| `OpModeFaults` | 2 users, every modelled call may fail, stale errno, END in the output, command survives SIGTERM, fairness | `OwnerOnly`, `PostedNotGone`, `RequestAnswered` | 120 314 |
| `SessionLock` | worker, 2 logins, 2 keys (symmetric), 2 people; kills of the worker, failing key generation | `TypeOK`, `OneHolder`, `OrderlyKept`, `AnswerRight`, `OneSessionEach` | 265 576 |
| `SessionLockFaults` | worker, 1 login, all five faults, fairness | `Ends` | 64 164 |
| `ConfSession` | 2 users, 2 sessions, 2 values (all symmetric), 1 description, all eight faults | `TypeOK`, `UniqueTags`, `SameSessions`, `CountRight`, `ViewsAgree`, `StoreSpec` | 37 323 |
| `RestServer` | 2 users, one in vyattacfg, 2 bodies, 1 service, all five faults, fairness | `TypeOK`, `ActsAsUser`, `ProgramIsUsers`, `Restored`, `InputRemoved`, `OutputWhole`, `Answered` | 57 205 |
| `Reading` | all texts of up to 5 of 13 characters, all templates over 8 keys | `FieldsKept`, `LinesKept`, `ArgumentsArrive`, `MessageExact`, `EnumRight`, `OrderFree`, `EndIsLeaf` | 552 643 |

Deadlock is checked everywhere but in `Reading`, where a text of full length is the
end. The operational runs include DELETE at any moment, the list, posts without a
statement, and stops and starts of the daemon at any moment.

What they show:

* `EndFileMeansComplete`: the end file exists only when the command is dead and the
  data file holds all it wrote. `EndIsTrue`: END comes only when the command has
  stopped. `NoSkip`: the chunk about to be read never starts beyond what the client
  has, although the manager moves the offset first. `DeadIsComplete`: offset -1 is
  given only to a client that has everything, if one answer carries the output.
* `GoneIsForever`: after 410 a token is never served or listed again. `PostedNotGone`:
  no GET overtakes the POST that the client was already told of. `OwnerOnly`: files
  are read for the owner only, also when they outlive the entry.
* `ImplementsStream`: with `produced <- emitted`, `received <- got` and `finished` the
  tokens whose owner was told 410, every step is a step of `OutputStream` or leaves
  it alone.
* `RequestAnswered`, `EventuallyGone`: worker and manager never wait for each other
  for good, and a client that polls until 410 gets there.
* `OneHolder`, `OrderlyKept`, `AnswerRight`, `OneSessionEach`: as long as locks are
  obtained, the lock has one holder, sessions that last are in the file, exactly
  those are accepted, and a user at an address has one. `Ends`: whatever fails, and
  whoever left the lock behind, requests and logins end.
* `StoreSpec`: `ConfSession` implements `ConfStore`, whatever fails. `SameSessions` and
  `CountRight`: until something fails, modify files and configd have the same
  sessions and the client's count is right. `UniqueTags`: descriptions are unique
  per user. `ViewsAgree`: the list, a node and its parent say the same.
* `ActsAsUser`, `Restored`: a request is handled with the ids, groups and login uid
  of its user; between requests the worker is itself. The groups are not set back
  and need not be, as every request of an account sets them. `ProgramIsUsers`,
  `InputRemoved`: a program has the ids and the body of its request.
  `OutputWhole`: the answer waits for everything that holds the pipe. So the comment
  in `App/MsgSimple.pm` that a response is returned before the save does not hold:
  the forked child keeps the pipe. `Answered`: every request ends.
* The properties of `Reading` say that what one place writes the other reads:
  session records, headers, arguments of `opc`, JSON messages, values of a template;
  and that a template means the same in any order.

### Runs that end in a violation

Each checks what a comment of the code or a message of the client says, and TLC
shows a behaviour of the code that contradicts it. `PROJECT.json` quotes the lines
under `findings`.

| Run | Property | What happens |
| --- | --- | --- |
| `OutputLost` | `EndIsComplete` | both files appear between the worker's two `lstat` calls and are removed unread |
| `NoBigHammer` | `KillIsFinal` | the newline after the pid: one SIGTERM, never SIGKILL |
| `SessionsLost` | `SessionKept` | a worker without the lock empties and renames the holder's temporary file |
| `CommitUnnoticed` | `CommitDone` | a commit that cannot reach configd is answered as a success |

### Conditions under which properties hold

The passing runs fix some constants. TLC finds the property violated when they are
changed as follows, on otherwise the same instance unless one is given:

| Property | Condition | Without it |
| --- | --- | --- |
| `NoSkip` | an answer carries a chunk | `-s` above `CHUNKER_READ_SIZE` skips the difference |
| `NoSkip` | outputs below 2^32 | the comparison of sizes is cut to 32 bits |
| `NoSkip` | `errno` is clean | a first chunk is dropped |
| `NoSkip` | no END in the output, or a pid file that is written | a command that counts as ended is served on |
| `EndIsTrue` | no chunk is the word END | it ends a running command |
| `DeadIsComplete` | output fits in one answer (violated with output 5, chunk 2) | the tail arrives between the manager's two `lstat` calls |
| `GoneIsForever` | `audit_setloginuid` succeeds | no pid file: the entry stays and the token is served again |
| `UniqueTags` | no description is a session's id (violated with three sessions) | the sessions of another user are looked at |
| `Answered` | every service has a template | the loop over services does not advance |

Two more statements are defined in `OpMode` and hold on no interesting instance;
no run checks them. `NoDup`: a chunk starts where the last one ended (the file grows
between the manager's `lstat` and the worker's read, and bytes are repeated).
`DeleteKills`: a DELETE of a known token leads to signals (before the pid file is
written it does nothing).

### Bounds

* `MaxOutput` in `OpMode`: 5 with chunks of 2 is a first, a middle and a partial last
  chunk. `PipeSize` above `ChunkSize` lets a read leave something in the pipe.
  `Backlog` 2 is enough for a full queue and for one message behind another.
  `UnsignedMod` 100 is never reached. `KillAttempts` is the code's 3. Restarts are
  not bounded.
* `MaxRecords` in `SessionLock`: logins start while the two files together hold at
  most 2 records (1 with all faults); two keys are enough for one session to be
  lost beside another that is used.
* `ConfSession` has two sessions, for one to be changed by a request for the other.
* `RestServer`: two pieces of output of which one fits a body, so that answers that
  are too large occur; two users and two bodies for a wrong one to be noticed.
* `Reading`: five characters are two separators with three fields around them. The
  eight keys are those that two parts of `get_template_node` look at, and an unknown
  one.

### Fairness

* `OpMode`: the manager, the worker and the processes of each command are scheduled
  again when they can go on (weak fairness: each is a loop of its own process and
  nothing can disable its next step but itself), and a stopped daemon is started by
  the service script. Nothing is assumed of `opc`. `Polling`, in `OpModeStream` only,
  is the loop of `_read_op_output` in `RestClient.pm`, which asks until 410. It is
  strong fairness, because other requests may be served in between.
  `EventuallyGone` also requires that the daemon is not restarted for ever.
* `SessionLock`: every process is scheduled (the attempts to get the lock are a
  bounded loop), and a killed worker is started again.
* `RestServer`: the worker is scheduled, and programs and what they leave behind end.
  The last is an assumption on programs, and the code needs it: it has no timeout.

## 4. What is proved

Assumptions on the constants are the named `ASSUME`s of the modules: sizes are
natural numbers, faults are known names, special values differ from the others.
Sets of tokens, users, keys, logins, sessions and values are arbitrary.

| Theorem | Statement | Hypothesis |
| --- | --- | --- |
| `TypeCorrect` (`OpModeProofs`) | `Spec => []TypeOK` | |
| `OffsetsCovered`, `NothingSkipped` | `Spec => []NoSkipInv`, `Spec => []NoSkip` | `Regular` |
| `OnlyTheOwner` (`LifeProofs`) | `Spec => []OwnerOnly` | |
| `NotGoneBeforeStarted` | `Spec => []PostedNotGone` | |
| `EndFileIsTrue` | `Spec => []EndFileMeansComplete` | the data file can be opened |
| `EndOnlyWhenDead` | `Spec => []EndIsTrue` | no chunk is the word END |
| `GoneForever` (`StreamProofs`) | `Spec => []GoneIsForever` | `PidKnown` |
| `StreamImplemented` | `Spec => ImplementsStream` | `Regular`, `PidKnown` |
| `DeadMeansRead` | `Spec => []DeadIsComplete` | `Regular`, `OneAnswer` |
| `LockHasOneHolder` (`SessionLockProofs`) | `Spec => []OneHolder` | |
| `SessionTypeCorrect` | `Spec => []TypeOK` | |
| `SessionsKept` | `Spec => []OrderlyKept` | |
| `AnswersAreRight` | `Spec => []AnswerRight` | |
| `OneSessionPerUser` | `Spec => []OneSessionEach` | |
| `ConfTypeCorrect` (`ConfProofs`) | `Spec => []TypeOK` | |
| `StoreImplemented` | `Spec => StoreSpec` | |
| `SessionsAgree` | `Spec => []SameSessions` | |
| `DescriptionsUnique` | `Spec => []UniqueTags` | no description is an id |
| `CountsRight` | `Spec => []CountRight` | |
| `ViewsTellTheSame` | `Spec => []ViewsAgree` | |
| `IdentityRestored` (`RestServerProofs`) | `Spec => []Restored` | |
| `ActsAsItsUser` | `Spec => []ActsAsUser` | |
| `WorkerTypeCorrect` | `Spec => []TypeOK` | |
| `ProgramOfTheUser` | `Spec => []ProgramIsUsers` | |
| `NoInputLeft` | `Spec => []InputRemoved` | |
| `OutputCollected` | `Spec => []OutputWhole` | |
| `EntriesCommute` (`ConfProofs`) | `TmplSpec => []OrderFree` | |
| `EndsAreLeaves` | `TmplSpec => []EndIsLeaf` | |
| `MessagesExact` (`StringsProofs`) | `TextSpec => []MessageExact` | |
| `RecordsReadBack` | `TextSpec => []FieldsKept` | |
| `HeadersReadBack` | `TextSpec => []LinesKept` | |
| `ArgumentsReach` (`CommandLineProofs`) | `TextSpec => []ArgumentsArrive` | |

The hypotheses on operational mode are conditions on the instance, not on states:

* `Regular`: an answer carries at least a chunk, outputs are shorter than 2^32,
  `errno` is not stale, and no chunk is the word END.
* `PidKnown`: every command gets its pid file (no failing `fork`, `loginuid` or pid
  file), and no chunk is the word END. Without a pid file the manager cannot delete
  an entry.
* `OneAnswer`: the data file can be opened and an answer carries all output. With a
  longer output the tail can arrive between the manager's two `lstat` calls.

**Offsets.** No part of `Regular` can be dropped (see the conditions above). `NoSkip`
speaks of the moment of the read, but the offset was fixed several steps before, by
another process. `NoSkipInv` follows it:

1. `SizeInv`: the data file never holds more than was taken from the pipe, nor that
   more than was written. So the cut to 32 bits changes nothing.
2. `QueueInv`, `ReplyInv`: of the messages that get an answer at most one is under
   way; it is the last in the queue, and the worker waits for exactly this answer.
   So an offset that the manager gives out reaches the request that asked for it,
   and no second one is given out before the read.
3. `DownInv`: a restart leaves no entry behind whose offset could be ahead.
4. `OffsetInv`: the offset of a running entry is at most what the client has, or
   the chunk about to be read closes the gap: it starts at `PendingOff`, the file
   is that long, and the gap is at most one answer.

`OpModeProofs` proves 1-3 (`SizeStep`, `TalkStep`) and then 4 (`OffsetStep`) action
by action. `NoSkip` is the case of 4 in which the worker holds the offset.

**Life of a command.** `LifeProofs` reduces a step of the system to what it does to one
command: it is started, terminated, stopped with the daemon, its files are removed
or cleared, one of its processes moves, or nothing.

* `QuietInv`: no command waits in the queue once a later question is answered, so
  that from the answer with the details on the owner of the token stays
  (`OwnerInv`), and 410 is answered for started commands only.
* `FreshInv`: a token that was not handed out, or whose command is in the queue, has
  no process, file or entry, and is in the queue once. A command is started once.
* `LifeInv`: the writer comes after the reader, is dead before the reader leaves its
  loop, and the end file comes after both. With `KeptInv` (the data file is what the
  reader has taken) this is `EndFileMeansComplete`.

**410.** The worker does not wait for the delete that goes with 410. `PidInv`: a command
that can be at its end has a pid file as long as it has an entry. `GoneInv`: an entry
that is gone for its client is being deleted, or its delete is in the queue, ahead of
any later question, and will find the pid file; the answer to the question under way
was given in knowledge of it.

**Stream.** The mapping is the one in `OpMode`: output written, output received, and the
tokens of which the owner was told 410. Each step is a step of `OutputStream` or
leaves it alone: what is read extends what the client has (`NoSkipInv`) and is within
what was written (`GotInv`); after 410 nothing is read (`GoneInv`).

**Dead.** `DeadInv`: an entry marked dead, and an offset below zero on its way, belong to
a command of which the client has everything, or will have with the read under way.

**Lock.** `OneHolder` alone is not inductive: a process could create a lock file that
is missing although another holds the lock. `LockInv` adds that the lock file is
there while somebody holds the lock, and that the worker is not on its way without
the lock, whose end would remove the file of the holder. Both fail only after
somebody gave up, when `orderly` is false. A worker that starts makes it true again
only if no login is under way.

**Session file.** `SessInv` says which of the three places (session file, copy, buffer)
tells the truth, by how far the holder of the lock is. To tell the truth (`Tells`)
is: one record for each user, every session that lasts has a record that is no older
than its last use, and every record that has not timed out is of such a session, but
for the one whose time the holder has just set and whose client does not know yet
(`Renewed`). `AnswerRight` needs both directions. A worker that was killed leaves the
lock file and perhaps a time that was set for nobody; so of a locked file without a
holder only the first two parts are claimed. What the loop of `authorized` copies
(`Lasting`, a recursive function) is proved by induction over the records: `Least`
(every set of numbers has a least element) follows from the library's
`NatLessThanWellFounded` and `WFMin`, and `Reached` (what holds of 0 and is handed on
holds up to *n*) from it. Neither has an operator as a parameter. `LoopEnds` shows that
the recursion has a solution, `LastingKept` what it is.

**Configuration sessions.** Every request is reduced to one of a few moves
(`Opened`, `Edited`, `Emptied`, `Committed`, `Ended`, or nothing; lemma `StepMoves`),
which say what changes and that the session is one that the user of the request may
use (`OwnIsOpen`). The theorems are then proved by move and not by request. For
`CountRight` the invariant `CountInv` adds that a client's session is its own
(`ClientsOwn`): it has no description and its modify file names the user, so no
other request reaches it. `ViewsAgree` needs what the conversions of edits to views
give for any edit, and no invariant beyond the types.

**Identity.** `IdInv`: requests change effective ids only, the real and saved ones
stay root's, so that `setuid` and `setgid` lead back from any point of failure.
`ActsInv`: during authentication, what has been achieved can be read off the calls
that are left (`CallsInv`), so that when none is left all four identities are the
user's.

**Programs.** `RunInv`: a child is there only while the worker reads or waits, has the
effective ids of the worker and the body of the request; the input file is the
request's while the worker is busy and gone afterwards; the worker leaves its read
only when neither the program nor what it started holds the pipe.

**Templates.** `TmplInv`: while the map is read, each parameter is a function of the set
of entries that were read (`Reads`), which says that the order does not matter; the
corrections behind the loop are then evaluated once (`Told`).

**Strings.** The theorems hold for any set of characters and any `MaxText`. The loops of
the code are recursive functions over the length of what is left; each is shown to
have a solution (`RestSolves`, `PieceRestSolves`, `SplitAfterSolves` and so on) by the
induction of *Session file*; `Least` is proved here from the pigeonhole principle of
`FunctionTheorems`, whose context is smaller. The code reads a text from the left and the recursion
unfolds from there, but a text grows at its end, so that for each conversion there is
a lemma on what one more character does to the result:

* `ReplaceAppend`: `mass_replace` puts the character, or its replacement, behind what
  it made of the text before. `JsonAppend`, `SplitAppend`: the same for the JSON
  reader and the reference.
* `PieceAppend`: for `StrProc`, a separator changes no piece, and any other character
  makes the last piece longer or begins a new one, by whether it follows a separator.

`MessageExact` follows from `ExecuteGrows`: through the five replacements each character
becomes itself or a pair that the reader takes back, since backslashes are replaced
first and no later replacement touches a pair. `FieldsKept` and `LinesKept` follow from
`FieldsInv`: the pieces are the fields that are not empty, and the last piece is the
last field unless this is empty (`Matched`). `NewlineOff` and `NewlinesStay` say what
`StrProc` does to newlines, and `EndIsFound` that the end of the headers is found where
it was written even if the headers end in part of it.

**Command lines.** `ArgumentsArrive` relates three conversions that cut a text at different
places: `translate_rest_to_cli` at slashes, `tokenizeOpCmd` at quotes and spaces, and the
JSON array between daemon and `opc` at its own quotes. A character at the end of the
URL can change a word that was begun long before, so that the result does not grow with
the text. The proof goes by components:

* the two loops look at the rest of the text only (`PathSuffix`, `TokSuffix`). On a path
  that begins with a whole component, `Words` gives the quoted component, then what it
  gives on the rest (`WordsMore`); on a command line that begins with a whole word,
  `tokenizeOpCmd` gives the word, then the words of the rest (`TokPlain`, `TokQuoted`,
  `TokLast`).
* `ArgsInv`: the text is a first component, or components that a slash has closed and
  one that is still open (`Parts`). The closed ones become the beginning of a command
  line, and this their arguments, whatever follows (`Takes`); a slash closes one more
  component (`TakesMore`), any other character only makes the open one longer.
* the JSON reader leaves a word alone that has nothing to escape (`JsonPlain`).

`CommandLineProofs` states again the lemmas of `StringsProofs` that it uses instead of
extending it: with all the lemmas of both at hand the prover takes about twice as long.
The lemmas on `tokenizeOpCmd` are about command lines that end in a quote, as those of
the worker do: after a quote that is not closed the code starts again with the first
word, and the recursion has no solution.

Only model-checked:

* `EnumRight` of `Text`. It is about values put together by `FlattenSeq`, a fold of the
  library whose recursion the prover cannot unfold;
* liveness under fairness (`EventuallyGone`, `RequestAnswered`, `Ends`, `Answered`);
* what holds only with a hypothesis above, on instances without it: the runs with
  all faults show which properties survive there.

## 5. Not modelled

* The failures of `getpwnam`, `getgrouplist`, `setgroups`, `setgid` and `setuid` in
  `start_new`: the forked child returns to the loop of the daemon and is a second
  manager with a copy of the table. The models have one manager.
* The orderly end of the daemon on SIGTERM (`shutdown`, `kill_all`). `accept` is
  restarted after the signal, so that it begins only when another message arrives,
  and the script sends `kill -9` without waiting; the models have the second.
* Reuse of process numbers; a failed `read` of a message; wording, logging, the
  layout of headers and JSON where no property is about it.
* `generate_token`, but for the fact that tokens are new.
* `App/MsgSimple.pm` and the parameter types: a framework for programs that the server
  starts, driven by maps that the programs bring. `RestServer` has such a program
  with what it may do to its pipe and its processes.
* The interactive shell, set-up scripts, examples, packaging and YANG files.

## 6. Plan

1. A proof of `EnumRight`, with the fold in `Text` written as a recursive function.
2. `ForkedManager`: two loops on one socket after a failed `setuid`.

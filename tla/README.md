# A TLA+ model of or3-node

or3-node is the agent a host runs so that a control plane can execute commands,
PTYs and services on it. This directory models the agent, checks the models with
TLC on small instances and proves theorems about its core with TLAPS. Paths
are relative to the repository; `service.ts:196` is a line of a file named
below.

    tlc -workers 2 -config HostExec.cfg HostExec.tla
    tlapm HostExecProofs.tla

## The system and its hard parts

| Component | State | Operations | What is hard about it |
|---|---|---|---|
| `HostControlService`, `src/host-control/service.ts` | `activeExecs` (slots), `completedExecs`, per run: phase, timer, output | `exec`, `handle.abort`, `getExec`, `listExecs` | exit, error, timeout, abort and data callbacks in any order; a slot is freed in a `finally`; `onResult` may reject |
| `appendBounded`, `truncateUtf8`, `src/utils/utf8.ts` | the kept head of an output | append a chunk | byte caps against characters of 1 to 4 bytes |
| `NodeAgentLoop` requests, `src/transport/agent-loop.ts` | `activeExecs` (job table) | `execute`, `session_exec`, `abort` | state read before an `await` and changed after it; replies to a socket that has closed |
| `NodeAgentLoop` connection | `currentSocket`, backoff delay, reported state | `start`, `connectOnce`, abort signal | error and close events of an old socket while a new one is opening; shutdown at any moment |
| `HostPtyService`, `src/host-control/pty.ts`, and the `pty_*` requests | `sessions`, `ptyRequestIds` | open, close, closeAll, data and exit callbacks | callbacks that come after a reconnect, after a close, after the exit |
| Runtime sessions | per session: retained log, `nextCursor` | create, destroy, append, `get_logs` | eviction between two pages of a reader; output of an exec that outlives its session |
| `launch` and `reset`, `src/cli/index.ts` | `identity.json`, `config.json`, `state.json`, `credentials.json` | the two commands | kills between (and within) file writes; credentials that expire at any moment; what the control plane saw |
| `HostServiceManager`, `src/host-control/services.ts` | `services` | launch, stop, stopAll, the child's listeners | a place is free before its process has ended; an exit, an error and a stop of one service in any order |
| `HostFileService`, `src/host-control/files.ts` | the host's files | read, write, delete, browse | check-then-act with several requests in flight; a kill within a write |
| `HostExecHistoryStore`, `src/host-control/history.ts` | `exec-history.json` | append, list | read, modify, write by two runs; a kill or a failure within a write; the hook rejects a run that completed |
| connection state file, `src/info/connection-state.ts` | `connection-state.json` | save, load | writes that nobody awaits |
| `info`, `status`, `doctor` | none | reads | what they tell of the connection may be old |
| manifest, policies, paths, logger | none | pure functions | - |

A request frame reaches `NodeAgentLoop.handleRequest`, which calls the services
and answers on the socket the frame came on. The services call back into the
loop (`onStdout`, `onOutput`, `onExit`), which appends to session logs and sends
events. The connection closes all PTYs when it ends; running commands go on.
`launch` prepares the credential that the loop connects with. All of it is one
JavaScript thread: the unit of interleaving is a callback with the promise
continuations that run before the next callback, and, between processes and
files, one file operation.

What makes each part correct, in a sentence: the slot cap holds and each run has
one honest, final result; truncation keeps the head; an abort reaches its job
and every request is answered; there is one live socket, the reported state is
the truth and the agent keeps connecting until it is told to stop; PTY events go
to the connection that opened the PTY and end with its exit; a reader of a log
sees every retained entry once; a node keeps its identity and its credential
through crashes and an approved node gets to run; no service is forgotten and
each is reported gone; a file request that nothing overlaps is atomic; the
history lists the latest runs, those of earlier agents included, for as long as
no append was disturbed.

## The modules

| Module | Models | Composed of |
|---|---|---|
| `ExecContract` | what `HostControlService` promises: admission under the cap, one outcome per run, the slot given back | - |
| `HostExec` | `HostControlService` | implements `ExecContract` |
| `OutputBuffer` | `appendBounded`, `truncateUtf8` | - |
| `AgentExec` | `execute`, `session_exec`, `abort` | EXTENDS `HostExec` |
| `AgentHistory` | `HostExecHistoryStore` as the `onResult` hook | EXTENDS `AgentExec` |
| `Connection` | `start()`, `connectOnce()` | - |
| `AgentPty` | `HostPtyService` and the PTY requests and events | EXTENDS `Connection` |
| `StatusFile` | `saveConnectionState` and what its readers are told | EXTENDS `Connection` |
| `LogContract` | what `get_logs` promises a reader: the run of cursors that are retained and unread, oldest first, and whether more are left | - |
| `SessionLog` | sessions, logs, `get_logs` | implements `LogContract` |
| `Launch` | `launch`, `reset`, the files, the control plane's redemption | - |
| `ServiceManager` | `HostServiceManager`, `service_launch`, `service_stop` | - |
| `FileService` | `HostFileService` and the `file_*` requests | - |
| `HostExecProofs`, `AgentHistoryProofs` | theorems of the command service; of the agent loop over it and of both with the history | each EXTENDS its module, the second also the first |
| `AgentPtyProofs` | theorems of the connection, and of PTYs over it | EXTENDS `AgentPty`, which extends `Connection` |
| `OutputBufferProofs`, `SessionLogProofs`, `LaunchProofs`, `ServiceManagerProofs`, `FileServiceProofs` | theorems of these parts | each EXTENDS its module |
| `MCAgentHistory` | the instance of `AgentHistory` | |

Each component's module has a type invariant, which says what its variables hold:
`TypeOK`, or `AgentTypeOK`, `HistoryTypeOK` and `ConnTypeOK` in the modules that
others extend. All are proved except that of `StatusFile`, which TLC checks. The run
of `HostExec` checks its own; every other configuration accepts it as a further
INVARIANT.

Some definitions stand beside the ones they vary (`HasSlotOffByOne` beside
`HasSlot`): they are plausible mistakes, put in place of the
original one at a time to see that a property notices. No specification uses
them.

**HostExec.** A run is a model value. `phase` is where its `runProcess` stands:
`awaiting` the terminal promise, `persisting` (in `onResult`), `settled` or
`rejected`. `child`, `sigterm` and `written` belong to the operating system.
`Exec` is everything `exec()` and the synchronous head of `runProcess` do;
`ErrorEvent` and `ExitEvent` are the two listeners with every continuation up to
the `finally` that frees the slot (service.ts:108); `Kill` is `child.kill`, which
sends SIGTERM, does nothing to an ended process, and emits `error` at once for a
process the agent may not signal (`Privileged`, a setuid child). Output is counted
in equal chunks here; `OutputBuffer` has the bytes.

**AgentExec.** A request that runs a command is identified with its run. `jobs`
is the job table. When a run settles, its handler answers in the same turn
(`Answers`, `Deleted`); `via` is the socket the request came on and `Sent` tells
whether a reply still arrives. A `session_exec` has no entry in `jobs`.
The output events a running command sends are left out.

**AgentHistory.** `append` is three steps, one for each await that another run
can come between: `ReadHistory`, `OpenHistory` (which truncates), `WriteHistory`.
The last, and a read that throws, is also the step in which the hook ends, the
run settles or rejects, and the request is answered: `HookEnds` takes it from
`AgentExec`. `FailHistory` is a file operation that throws, in any of the three.
The file outlives the agent: a behaviour is one agent process, a kill is the end
of a behaviour (every prefix of one is a behaviour), and `Leftovers` is what the
ones before it may have left: no file, a list of their runs (`Earlier`), or a file
that a kill or a failed write left empty or cut (`torn`). `HistoryTypeOK` and the
first part of `HistoryTellsRuns` show that the file is at any moment again one of
these, with more earlier runs. An agent that starts with a torn file never
repairs it: each append throws in its read (history.ts:15), and each command that ran
is answered with an error. `overlapped` and `failed` remember that two appends
were in progress at a time and that a file operation threw; `appended` is the list
a reader would expect.

**Connection.** Sockets are numbered by attempt. An error fires `onerror` and
then `onclose`, with only promise continuations between them: `closeDue` is the
close that must come next. `FinishClosed` is the guarded part of `finishClosed`
with the turn of `start()` it releases, which is where the next socket is made.
`wait` keeps the delay that `applyJitter` gave, for the smallest, a middle and
the largest value of `random()`.

**AgentPty.** `wire` holds the events sent by the last step. A request id is
represented by the connection it came on, which is what the properties tell
apart. `ConnectionStep` takes any step of `Connection`, and with it what
`finishClosed` does to PTYs.

**StatusFile.** Each state that `Connection` reports starts a save, which opens
the file in one step and writes it in another; saves are in the order of
their calls. `Told` is what `loadConnectionState` makes of the file.

**SessionLog.** A log entry is its cursor, whether it is output or a warning,
and the exec it comes from. The reader pages with the cursor of the last chunk it
was given and starts again when it creates the session again.

**Launch.** Each await is a step, and a write is two: `OpenFile` truncates,
`Fill...` writes. `loadConfig` and `loadState` read their three files in any
order, as they run together; the four parts of `reset` run together too. The
identity is its key; `config.json` is whether it holds a token. `Redeem` is an
answer of the control plane, `RedeemFails` a request that may or may not have
been seen. `age` of a credential steps from fresh to near (within the five
minutes of `shouldRedeemBootstrap`) to expired. Files that a reset also removes
and nobody else modelled here reads (`connection-state.json`,
`exec-history.json`) are left out.

**ServiceManager.** A service id is never used twice, so a service is a model
value. `StopAllOf` is `handle.stop()`, for one service or, from `stopAll`, for all:
SIGTERM, and the place is free at once. A child that may not be signalled emits
its error within `kill`, so `onExit` is called then and again at its exit
(`Kill`). Output is passed to a callback and changes nothing.

**FileService.** One file in one directory, and requests of any kind on them.
`stage` is the await a request is in, one step for each that the outcome depends
on; a request answers in the step that ends it. `inode` tells a file from another
one of the same name created later, for a write that still has the first one open
(`held`). `Kill` ends the agent and all requests with it. `start` and `crowded`
only serve the properties.

`StatusFile` starts without a file. In `AgentHistory`, `StatusFile` and
`FileService` a write that was opened while another has the file open may leave
either text, or a mixture (`Garbled`).

## The runs

| Run | Configuration | Shows | Distinct states |
|---|---|---|---|
| `host_exec` | `HostExec.cfg`: 3 runs, one of them privileged, cap 1, `onResult` set, 1 chunk | cap, honest and final results, the contract with its liveness | 517,653 |
| `agent_history` | `AgentHistory.cfg`: an `execute`, a privileged `session_exec`, cap 2, a history of 2 entries, 1 earlier run, 2 aborts, 2 sockets; the agent finds no file, a list or a torn file | aborts, job table, replies against slots, every request answered, what the history tells and when an error may be wrong | 1,845,148 |
| `output_buffer` | `OutputBuffer.cfg`: widths 1 to 4, 6 characters, events of up to 3, cap 9 bytes | `truncateUtf8` against its reference definition; what the buffer holds | 7,747 |
| `agent_pty` | `AgentPty.cfg`: 4 attempts, 2 PTYs, room for 1, delays 3 up to 10 with 25% jitter | connection and PTY properties, safety and liveness | 53,129 |
| `session_log` | `SessionLog.cfg`: 1 session, 2 execs, 3 entries kept, cursors to 6, pages of 1 or 2 | logs, cursors, readers, the contract of `get_logs` | 27,211 |
| `launch` | `Launch.cfg`: 3 keys, 4 credentials, 2 kills also within writes, 1 reset | identity, credential and reset under crashes; an approved node whose files are whole gets to run | 199,978 |
| `services` | `ServiceManager.cfg`: 4 services, 2 places, 1 service privileged | no process is forgotten, each service is reported gone once | 9,163 |
| `files` | `FileService.cfg`: 3 requests of any kind, 1 kill | atomicity of requests that nothing overlaps, `overwrite=false`, torn files | 1,522,944 |

Four runs find what the code does against a statement of the repository:

| Run | The code | The statement |
|---|---|---|
| `host_exec_lost_output` | a result is built on `exit` (service.ts:196), before the pipe is drained | docs/release-validation.md:106 "stdout matches the command output" |
| `output_buffer_gap` | after a truncation a smaller chunk still fits and is appended (service.ts:347) | tests/host-control.test.ts:162 "truncates stdout on UTF-8 character boundaries", which expects the head |
| `connection_no_backoff` | after a connection that opened, `start()` makes the next socket at once (agent-loop.ts:225) | docs/operations.md:47 "disconnects are retried with jittered backoff" |
| `status_file` | a save is not awaited (agent-loop.ts:216), and the close after an error reports `recentError` null (agent-loop.ts:168): once all saves have ended the file may be garbled, tell an older state, or have lost the error | docs/release-gates.md:125 "connection-state persistence is sane", tests/cli.test.ts:367 "info surfaces the persisted recent transport error" |

### Why the bounds are enough

*Runs and cap.* With cap 1 two runs already compete for one slot and a third
shows a slot used again; with more runs the third merely has company, and the
theorems cover every number. One chunk with `MaxStdout = 0` is the smallest
truncated output, and one child that writes is enough, as
output never crosses runs. Both passing runs set `onResult`, which the CLI does not: a run
without the hook is one whose hook takes no time (a violation run and the theorems
also have the other value). `host_exec` has a hook that may reject at any time,
`agent_history` the one that history.ts is. *History.* Two runs that may append
together, into a list that an earlier run and one of them already fill, cut, overlap,
garble, fail and reject; `HistoryTells` is proved for every number. Output is left to
`host_exec` there (`MaxWrites = 0`). *Aborts and sockets.* Two aborts give the repeated abort, two
sockets the reply to a closed one. *Attempts.* Four attempts give a series of
failures up to the capped delay (3, 6, 10), a success that resets it, and an old
close beside a new attempt; the last attempt is where behaviours end, so
`KeepsConnecting` is stated for the ones before it. *Logs.* Six cursors over
three places evict entries while a page is read; the session may be created
again. *Services.* Two places and four services
allow two that were stopped and still run beside two new ones. *Files.* Two
requests overlap in every way, and a third one, alone, finds what they left; one
kill leaves a torn file behind for requests of the next agent. *Launch.* Two kills are enough for a kill in the recovery from a kill.
Three keys are the first one, one after a kill and one after a reset. Time only moves a
credential while the process that redeemed it has finished saving it: a
credential that expires during the milliseconds of its own launch is not
modelled.

`CHECK_DEADLOCK FALSE` stands in every configuration: each model stops when its
bounded supply of runs, attempts, cursors or crashes is used up, and the service
itself may be idle.

### Fairness

- `LoopFairness` (HostExec): the event loop runs every callback that is due, and
  an `onResult` hook settles. `ObeysSigterm`: a child that was sent SIGTERM ends;
  one that ignores it keeps its slot for good, as the timeout sends SIGTERM once
  (service.ts:190). Nothing makes a child end by itself.
- `HistoryFairSpec` (AgentHistory): for each run, what `Progress` lists goes on: its
  due callbacks, the file operations of its append, and the end of a child that was
  sent SIGTERM. A client need not ask, abort or reconnect.
- `ConnFairness`: timers fire, an attempt either opens or fails, the close that
  follows an error comes. Nothing makes an open connection end, so the part of
  `KeepsConnecting` about an aborted `start()` allows one that stays open:
  `start()` does not close it.
- `PtyFairness`: a process whose terminal was closed is hung up and ends, and its
  exit is reported.
- SessionLog: the control plane keeps calling `get_logs` for a session it has.
- Launch: `launch` is started again and again (`Restart=always`,
  docs/service-management.md:48), with a token time and again (strong, because
  commands may fail in between); a running command goes on; the control plane
  answers time and again and not every ready launch is interrupted before its
  loop starts (strong); credentials age. No approval and no reset is assumed to
  happen.
- ServiceManager: the listeners run, a process that was sent SIGTERM ends.
- FileService, OutputBuffer and StatusFile: none, their properties are about
  safety.

### Assumptions about the environment

- Job ids are unique among execute requests (`UniqueJobs`); two handles under one
  id replace each other in the job table.
- WebSocket delivers `error` before `close` without another callback between, as
  the implementations and the test doubles of `tests/agent-loop.test.ts` do.
- One command at a time works on the files (`Procs` has one member in the runs).
  Two first launches at once may generate two keys and lose the enrolled one, and
  a launch beside a reset may write files back after it; the code has no lock, and
  no document of the repository promises otherwise.
- A kill may come between the truncation and the writing of a file (`CrashTears`).
  An empty `config.json` or `state.json` that a kill left makes every later launch
  fail, so `ApprovedNodeConnects` is stated for behaviours in which the two are,
  from some time on, not torn.
- A write that fails half way (a full disk) is modelled in `AgentHistory` only. In
  the other models of files it would leave what a kill leaves, with an error as
  answer.
- Nothing but the agent writes `exec-history.json` while it runs. `reset` removes it
  with one `rm`, by a command of its own; the next agent then starts without it.

## What is proved

All of it for every set of runs, every cap and every value of the other
constants, from the named assumptions on the constants only, and where a theorem
says so from one more: `UniqueJobs`, one slot, or `OneProcess`.

`HostExecProofs`:

- `TypeCorrect`: `Spec => []TypeOK`.
- `SlotsCorrect`, and from it `LiveChildrenHold` and `ConcurrencyBounded`. The
  bound on live processes is not inductive: a step of an unrelated run says
  nothing about whether a process has a slot. `SlotInv` adds that the slots are
  exactly the runs in flight, that there are finitely many, and that a process
  which can be signalled is alive only in a run that still awaits it;
  `SettleKeepsSlots` is the one way out of a slot, shared by three actions.
- `RunsCoherent`, and from it `ResultsFinal` and `StatusHonest`. `RunInv` ties
  phase, timer, process and record of a run together. It is what excludes a
  second event on a recorded run: `ResultsFinal` needs that only an `awaiting` run
  can take the error path, also when a kill meets a process that may not be
  signalled (`KillOfRunningIsAwaiting`, from `SlotInv`). `StatusHonest` needs that
  no timer is armed once the run is recorded.
- `ContractImplemented`: `Spec => Contract!Safety`. Under the refinement mapping
  (slots are the active runs, the recorded status is the outcome) every step is an
  Admit, Refuse, Report or Release, or a stutter.

`AgentHistoryProofs`, of the agent loop:

- `AgentUsesService`: the composition takes only steps of `HostExec`, so each
  theorem above holds under the agent loop; `AgentConcurrencyBounded` is one.
- `ReplyMeansSlotFree`: a request is unanswered exactly while its run holds a
  slot. The step lemma needs the type of the replies, `SlotInv` (a run that settles
  held its slot) and the type of the job table (an abort acts on a run).
- `JobTableCorrect` and `AbortsReachRuns`, both under `UniqueJobs`. The job table
  alone is not enough for the second: an abort deletes the entry, and a second
  abort finds nothing. `KnownOrSignalled` says that a process which can be
  signalled is in the table or has been sent SIGTERM; it is kept because a run in
  flight loses its entry only by its own end or by an abort
  (`DeletedKeepsJobs`), and an abort that finds it in the table finds it in a slot
  (`SlotInv`).

- `AgentTypesHold`: the types; that a request has a socket exactly if it has a reply
  needs `ReplyMeansSlotFree`, for a run that settles answers a request that is pending.

`AgentHistoryProofs`, of the history:

- `HistoryUsesAgent`: with history.ts as the hook the agent takes only steps of
  `AgentExec`, so every theorem above holds with it.
- `HistoryTells`: `OnlyRecorded`, `TornStays` and `AloneTells` are the invariant. The
  third says of the only append in progress, while nothing disturbed one, what it has
  read and what it will write; `NextListTells` is the step, that cutting the list
  before a run is put in front loses nothing that stays. It holds at the start for
  any list an earlier agent left (`HistoryStart`, `LatestOfShort`). The first holds
  also after a disturbance: a run is in the file, or in the list of another append,
  only once its own append ended, so the one append that adds it adds it once.
- `ErrorsMeanNotRun`: an error reply to a command that did run takes a hook that
  rejected, which takes a file operation that threw or a file that was unreadable
  while nobody else had it open; `AloneTells` excludes the second unless the agent
  found the file torn or appends overlapped. It is not a promise that an error means
  "not run": a kill between truncation and write makes all later agents answer so.
- `OneRunNeverOverlaps`: if `maxConcurrentExecs` is 1 appends never overlap, and so
  the history lists the latest runs and an error does mean "not run" (`Reliable`), in
  an agent that did not find the file torn and for as long as file operations succeed.
  The default cap is 2 (service.ts:23), and with that two runs that end together may
  lose an entry or leave a file that makes every later append reject.
- `HistoryTypesHold`: the types, and that the file is one the next agent may find.

`ServiceManagerProofs`:

- `ServicesTyped`, `ServicesBounded`, `ExitIsToldOnce`: the services nobody tries to
  stop stay within the cap although a stop frees its place early, and `onExit` is
  called once for each service that is gone. The cap is inductive only together with what
  is in the map: a running service that is not in it was sent SIGTERM or cannot be.

`AgentPtyProofs`, of the connection:

- `LiveSocketUnique`, `ReportIsTrue` and `AbortIsFinal`. `ConnInv` relates the five
  things that events change separately: only the latest socket is live
  (`LiveIsLatest`), what `start()` awaits is what that socket does (`LoopFollows`),
  what `opened` and `finished` say of a socket (`OpenedThenFinished`), and what holds
  while the close that follows an error is due (`CloseFollows`). Without the last one
  that close could find the next socket already open, and report it disconnected.
- `BackoffDoubles`: after n failures in a row the delay is base * 2^(n-1), capped,
  and what `applyJitter` makes of it is within its percentage. `BackoffInv` keeps
  that the delay is the n-th doubling as long as that is below the cap;
  `JitterLaw` is the rounding, once for every delay and every `random()`. It holds
  of the delay that is waited, which the next attempt may have doubled already.
- `ConnTypesHold`: the types, with a delay that never exceeds its cap.

`AgentPtyProofs`, of PTYs:

- `UsesConnection`: PTY steps leave the connection alone or are steps of it, so the
  theorems above hold with PTYs.
- `PtysEnd`, `SessionsWithinCap`: every step that ends an open socket runs
  `finishClosed`, and with it `closeAll`. That no socket is open when the next one
  is made comes from `ConnInv`.
- `EventsStayHome`, `ExitIsLast`: a PTY that still has a request id is of the open
  connection, and one whose exit was reported has none (`ReapedIsForgotten`).
- `PtyTypesHold`: the types, from those of the connection.

`SessionLogProofs`:

- `LogKeepsTail` is an invariant by itself once it is stated of every session, also
  of the reset of one (`TailUpTo`). `CursorNamesEntry` follows from it: what an
  append adds has a cursor the log never held (`Adds`), and what it keeps is told
  apart by its cursor.
- `ReaderGetsAllOnce` and `EndTellsTruth`. As cursors are consecutive, what is after a
  cursor is an interval of the log, so a page is one too (`FilterInterval`,
  `PageProperties`). `ReaderInv` says that the reader has been given nothing beyond
  its position, and everything kept up to it; appends only add beyond every position,
  and an eviction only removes. `EndInv` adds what the last response says.
- `LogContractImplemented`: `Spec => LogPromise!Spec`. The contract has no log, only
  the next cursor of each session; the entries, the cut, the filter and the page are
  hidden by the refinement mapping. `GivesWhatIsPromised` is the step: the page begins
  at the oldest cursor that is retained and unread (`PageProperties`, `ReaderInv`), and
  `next_cursor` is there exactly if the page is shorter than what is unread.
- `SessionTypesHold`: the types.

`OutputBufferProofs`:

- `LongestHeadTaken`: the loop of `truncateUtf8` takes the longest head that fits,
  for every text and every cap. It is an induction over the turns of the loop
  (`LoopHead`: after n turns a head is kept, which is all n characters or as many as
  fit) and over the characters (`SumLaws`: byte lengths of heads grow). A wide
  character that is skipped for a later narrow one would break the first.
- `BufferIsSound`, from `BufferInv`: what is kept is an increasing list of written
  characters within the cap, whole exactly while the flag is down. That the list
  increases is also what shows that a buffer that was cut once never is the whole
  output again (`CutLaws`), although it need not be the head of it.
- `BufferTypesHold`: the types, with at most `MaxBytes` bytes kept.

`LaunchProofs`:

- `LoopGetsWholeCredential`, for any number of processes that launch and reset
  together, killed anywhere. No law of the files would do, as they may be of two
  redemptions at any time; `LocalsInv` says stage by stage what a process holds:
  what it read, merged or was told, and that only a whole credential passes
  `shouldRedeemBootstrap`.
- `KeyOutlivesCrashes` and `ResetLeavesNothing`, under `OneProcess`: there is no lock,
  and with two processes both are false. `KeyInv` says that a key is on disk from
  before it is sent until a reset removes it, and that a process works with the key on
  disk; `WipeInv` which removals of a reset are done, and that none is undone.
- `LaunchTypesHold`: the types, for any number of processes.

`FileServiceProofs`:

- `AloneIsAtomic`: `ProgressInv` says of a request that nothing overlaps how far it
  has come with the disk it found, await by await; `Alone` makes every step of
  another request one that crowds it.
- `TornFilesHadWriters`, for finitely many requests: `TornInv` adds that a writer
  which has the file open and finds content in it overlapped another one that has it
  open (`Overlap`). `Alone` excludes that it wrote it itself.
- `NoOverwriteOfOld`: `SpareInv` says the same of a write with `overwrite=false`
  between its check and its open, in terms of which file has the name.
- `FileTypesHold`, for finitely many requests: the types. A file is created at most once
  for each request, which `OpensInv` counts by the requests that are past their open.

Beside the numbers, these assume of the constants that the markers for what a
file holds are distinct, and not requests, contents or lists (`FileAssumption`,
`NoneAssumption`, `HistoryAssumption`, `MarkerAssumption`), and that the runs of an
agent are not those of earlier ones (`HistoryAssumption`; `createId` makes the ids).

Induction over numbers is stated of sets here: `Induction` and `Recursion` (that a
recursive definition over the numbers has a solution) follow from the least number
of a set, as `OutputBufferProofs` and `AgentPtyProofs` show. The theorems of the
library take an operator, which the provers cannot instantiate. Recursive
definitions of the modules that are proved about are recursive functions.

Only model-checked: every liveness property and the fairness part of the contract,
which are beyond the prover.

## Not modelled

- The manifest, path and environment policies, logging, argument checks: pure
  functions, which in the models are refusals that change nothing. Links and
  several roots in `HostFileService` belong to the path policy.
- What `info`, `status` and `doctor` print of identity and credentials: a function
  of the files that `Launch` has.
- Heartbeat frames, `get_session`, `pty_input`, `pty_resize`, `getExec`, `listExecs`,
  `list` of services: they change no state of the agent.
- The output events of a running command: they use the socket of their request and
  are lost with it; `SessionLog` has the log entries they also make.
- `reset` while an agent runs: `Launch` has one command at a time, and no lock exists
  for more.
- The unbounded growth of `completedExecs` is visible in `HostExec` but no property
  is about it.
- `scripts/release-gates.ts` and `scripts/real-machine-smoke.ts`: sequences of checks
  run by a developer, not part of the agent.

## Plan

Done, in this order: the command service and its contract, its composition with
the agent loop, the output buffer, the connection, PTYs over it, session logs,
launch and reset; the history as hook of the service, the service manager, the
files, the status file behind the connection; the proofs of every safety
property that a run checks and expects to hold.

Next, models:

1. Output events of a running command in `AgentExec`, against the reply and the
   socket they go to.
2. `AgentPty` and `AgentExec` over one `Connection`, for the events of both on one
   socket.

An abstract specification is worth stating for the connection (a link that is up or
down and a truthful report of it) and for the services (a set of at most the cap from
which each is reported gone once).

# MyStudio in TLA+

A formal model of the concurrent core of MyStudio, a C/C++ library
(`src/Common`) with the programs built on it. The library gives its users a
`select()` reactor with callbacks, semaphores, threads with message queues, and
on top of these a telnet console and a peer-to-peer file transfer. The models
follow the POSIX branches of the sources (`#else` of `_WIN32`).

- [The system](#the-system): components, state, operations, interaction
- [The modules](#the-modules) and how they correspond to the code
- [The runs](#the-runs), bounds and fairness
- [Where the code and its comments disagree](#where-the-code-and-its-comments-disagree)
- [The proofs](#the-proofs)
- [What is only model-checked, and what is not modelled](#what-is-only-model-checked)
- [What the plan has left](#what-the-plan-has-left)

To check a module: `tlc -config MCSem.cfg MCLmnSemaphore`; to check its proofs:
`tlapm LmnSemaphoreProofs.tla`.

## The system

```
   FileShare          Telnetd        SOCKS5 dialogue      HttpStack, redis client
       |  callbacks       |                 |                     |
       v                  v                 v                     v
   selix reactor: nodes, slots, selixSelect             seli reactor (one table)
       |                        \                         /
   selix manager: m_Lock, list of nodes             CFuncLock, lists, heaps
   
   Lmx threads with message queues --- LmnSem semaphores --- pthread wrappers
```

| component | source | state | operations |
|---|---|---|---|
| selix reactor node | `LmnSeli.cpp` 2077-3250 | a table of slots: descriptor, masks of wanted events, state, id, exception flag; the copy `selixSelect` works on | `lixOpen`, `lixConnect`, `lixListen`, `lixAccept`, `lixTcpRecv`, `lixShutdown`, `lixClose`, `selixSelect` |
| selix manager | `LmnSeli.cpp` 1560-2075 | `m_bInited`, `m_nInitCnt`, the total limit, the list of nodes, the id counter, `m_Lock` | `selixInit`, `selixEnd`, `selixCreateNode`, `selixDestroyNode`, the look-ups of every other function |
| semaphore | `LmnMisc.cpp` 1030-1215 | a `sem_t`, `m_dwCurCnt`, `m_dwMaxCnt`, a lock | `LmnSemTake`, `LmnSemTakeByTime`, `LmnSemGive` |
| message thread | `LmnMisc.cpp` 1890-2346 | `bRun`, the list of messages, the sorted list of delayed messages, a lock | `LmxPostMessage`, `LmxPostDelayMessage`, `LmxDestroyThread`, the loop `_LmxThread` |
| file share session | `FileShare/fileshare.cpp` | `eState`, `eSubState`, the descriptors, two buffers, the stream, progress; `s_fss`, `s_fss_lock`, `s_thrd_flag` | the callback `OnSocketEvent_`, `SendData_`, `RecvData_`, `CheckTimeout_`, the worker `fssThread_`; `fssInit`, `fssDeinit`, `fssCreateSession`, `fssListen`, `fssConnect`, `fssCloseListen`, `fssDestroySession` |
| telnet console | `LmnTelnetd.cpp` | `s_pTelnet`: the server thread and its flag, the node, the list of prints, the list of clients to close; per client a `TSocketParam_` and a message thread; `hListenThrd`; `s_lock_telnet`, `lock_QueryCloseClients` | `LmnStartTelnetd`, `LmnStopTelnetd`, `LmnTelPrintf0`, the server thread `TelnetdThrd` with `OnTelnet`, `OnClientMessage` |
| hash table | `LmnContainer.cpp` 1360-2045 | the array of lists, its size and limit, the counts of nodes and of used lists | `InitHashtable`, `DeinitHashtable`, `Add2Hashtable`, `SetHashtable`, `GetHashtableValue`, `EraseHashtable`, `EraseHashtableByKey`, `ClearHashtable`, the walk |
| seli reactor | `LmnSeli.cpp` 1-1560 | one global table, `s_seliLock` | `seliSelect` and the `li` functions |
| SOCKS5 dialogue | `LmnSeli.cpp` (`liConnectSock5`, `lixConnectSock5`) | a step counter and buffers per connection | the callbacks of the dialogue |
| other containers | `LmnContainer.cpp` | list, array, AVL tree, thread-safe variants | insert, erase, find, traverse |
| files, strings, configuration, XML | `LmnFileUtil.cpp`, `LmnString.cpp`, `XmlElement` | | sequential functions |
| other programs | `Misc`, `Work`, `Tools`, `Toolkit`, `Windows` | | clients, diagnosis tools, user interfaces, vendored code |

**How they interact.** A program calls `selixInit`, creates nodes, and runs
`selixSelect` on each in a loop of its own thread. All lix functions and the
walk of `selixSelect` run under one recursive lock, `m_Lock`, which is released
only for `select()` itself. Events reach the application as callbacks made
under that lock; a callback may call lix functions on its own socket or on
others. `fileshare.cpp` is such an application: one thread selects and looks
for time-outs, the callback runs the protocol under a second lock,
`s_fss_lock`, and API calls of the user take `s_fss_lock` and then lix
functions. The telnet console is another: its server thread selects, gives what
is typed to one message thread (`Lmx`) per client, works off two queues that
other threads fill, and leaves the ending of a client's thread to one more
message thread, `hListenThrd`, because the end of a thread must be waited for.
`LmxThread` is independent of the reactor: any thread posts, one loop hands
out. Semaphores are shared between any threads. Hash tables and lists are
sequential, their users lock.

**What is hard.** (a) What `selixSelect` copied before `select()` is used after
it, when other threads have opened and closed sockets, and fields of the copy
are written back after callbacks that did the same. (b) Whole nodes are created
and destroyed during `select()`, and their handles are addresses. (c) A
semaphore counts twice, in two steps. (d) Delayed messages are sorted by
modular tick arithmetic, and the tick of a post is taken before its lock. (e) A
transfer is cut anywhere by partial sends and receives, resumes at a position
chosen by the receiver, and a sender whose socket is full is woken only by the
receiver's reports. (f) Sessions are destroyed, cleared and timed out by a
worker, its callbacks and the application's threads under two locks taken in both
orders. (g) Telnet clients are named by a slot that the next client gets, while
the thread and the parameters of the last one are still in use. (h) A hash table
grows in the middle of an addition. `PROJECT.json` lists each of these hazards at its line with
the property that watches it.

**What makes each part correct.** Reactor: each open descriptor is in one slot,
no event is delivered for a socket that has gone, events mean what
`LmnCommon.h` says, nothing ready is forgotten, registrations stay. Manager:
the limit holds, a node that is walked is the node that was copied, nothing is
leaked. Semaphore: it is a counting semaphore. Message thread: it is a mailbox.
File transfer: the receiver's file is a prefix of the sender's, and completion
means all of it. Sessions: descriptors and sessions agree, nothing freed is
used, each attempt has one end. Telnet: the parameters of a client outlive
their users and go once, a text reaches its client or nobody. Hash table: it is a
finite map, and a walk sees every key once.

## The modules

Every action stands for a whole function, or for the part of one between two
points where a lock is free or a call returns; its comment says which. Names
are those of the source. `PROJECT.json` maps every definition to its lines.

**`SelixReactor`** — one node. Variables `node` (the table), `copy`
(`tCopySelixNode`), `pc`, `idx`, `nNum`, `rd`, `wr` (locals of `selixSelect`),
`ev` and `cbLeft` (the callback in progress), `maxId`, the kernel's `sk`, and
the history `told`. Each lix function is one action, since it holds `m_Lock`
throughout. `selixSelect` is `SelectBegin` (copy, unlock), `SelectReturn`,
`Relock`, one `Scan...` action per slot and branch, `CallbackReturn` with the
write-back of four fields, `SelectEnd`. The two asserts of the walk (2284, 2333) are in
`ScanWritable` and `EndAsserts`: an assert that fails ends the program (`pc` is `"aborted"`),
as the makefiles, which define no `NDEBUG`, build it; the Windows project files do define it. `MayCall` is the lock: other threads
call while the select thread is outside or inside `select()`; during the walk
only its callback does. The constants `OwnerCalls`, `AppCalls`, `CbCalls` say
which functions which caller uses, so that an instance can be one program or
all of them. Kernel actions (external): connections complete or fail, peers
connect, send and close, time-outs expire.

**`SelixManager`** — all nodes. Blocks of memory are model values; the
allocator may return a freed address at any time. Two
threads create, destroy and select; `SelectReturn` is the check of line 2197,
with reads through the pointer taken before `select()`. A callback may destroy any node, the one
whose walk called it too; that walk goes on in freed memory (`"orphaned"`). Composition with
`SelixReactor` is by interface: what the manager promises about the walked node
is what `SelixReactor` takes for granted (one table, alive, the one copied), and where
the manager cannot promise it (`WalkedNodeIsCopied`, below), neither can the reactor.

**`CountingSemaphore`, `LmnSemaphore`** — the promise and the implementation
with its two counters. `LmnSemTake` enters, `SemWaitReturns` is the kernel
lowering the `sem_t`, `Decrement` is the second half under `m_lock`;
`TimedWaitFails` and `WaitInterrupted` are the ways in which a wait fails.
`LmnSemGive` is one action (it holds the lock from the comparison to
`sem_post`). The deadline is computed in the code's own arithmetic, from any
phase of the clock's second (`StartNsecs`).

**`LmxMailbox`, `LmxThread`** — the promise and the thread. The loop is
`LoopTop` (reads `bRun` and the tick without the lock), `Collect` (under it),
one `Deliver` or `DeliverLast` per callback, `FreeThread`. A delayed post is
two steps, tick and insertion. Ticks are numbers modulo `TickMod`; the POSIX
`LmnGetTickCount` is modelled by what it computes (`Clk`).

**`TransferService`, `FileTransfer`** — the promise to the two users and the
protocol: both sessions, their handlers step by step (one `lixTcpSend` or
`lixTcpRecv` each), the connection as two bounded byte pipes with a part that
has been sent and a part that has arrived. The sender is `SndPos`,
`SndProgress`, `SndFlush` (what is left in `pSendBuf`), `SndFill`; the receiver
`RcvType`, `RcvBlock`, `RcvChunk`, `RcvEnd`, `RcvComplete`. A stream is a
sequence of units that are content of files or structure of folders, because
`WriteFileStream` counts only the former and only what is counted is reported.

**`FileShareSession`** — what surrounds a transfer: `sess` (the sessions),
`slot` (the selix node as they see it), `lock` (`s_fss_lock`), `worker`
(`fssThread_`), `call` (the fss function each application thread is in), and the
history `events`. A handler of `OnSocketEvent_` is one action up to the point at
which it calls the application (`Tell`); `Callback` is what the application does
there, `ReturnFromCallback` and `GoOn` what the handler does afterwards, so that a
callback which destroys its session, as `s_fss_lock` allows, is seen. Of `eSubState` a
session keeps whether it is in the middle of a message (`sub`). The manager's
lock is `InWalk`: while the worker is in the walk no other thread gets through a
lix call. `fssConnect` is one action per address tried. The exchange within a
transfer is the choice of its outcomes here and module `FileTransfer` there.

**`Telnetd`** — the console: `tel` (the server thread: `Select`, the handlers of
`OnTelnet`, `CloseListed`, `OnQueryPrintf`, `ClearPrintfList`), `thr` and `reaper`
(message threads, by the interface `LmxThread` shows: `Post`, `Take`, `Done`,
`End`), `param` (the `TSocketParam_`), `closeList`, `prt` (what became of each
text), `app` (start and stop). `LmnTelPrintf0` is two actions, its test of the flag
and its insertion under `s_lock_telnet`; `LmnStopTelnetd` is four, at the points
at which it waits. `lixClose` is two: the handler of `liEvDestroy`, which purges the list of
prints (`CloseSlot`), and the freeing of the slot (`FreeSlot`), since an insertion may come
between. `stuck` says whose `lixTcpCompleteSend` is waiting for a client to read, with
`m_Lock` in its hands. `LmnTelPrintf`, which sends at once instead of queueing, is no action
of its own: it is a send of the thread that calls it.

**`Dictionary`, `HashTable`** — the promise, a finite map, and the table: an array
of sequences with its counts. `Place` is where a key's node is on its list.
`Rehashed` puts every node, in the order of a walk (`InOrder`), into a new array, as
the code does; both are recursive functions. `NewNode` is the common part of `Add2Hashtable` and
`SetHashtable` with its two allocations that may fail. The variables `cursor`,
`walked` and `owed` are a caller's walk and its history.

The `MC*` modules hold values for the constants; the `*Proofs` modules the
theorems. Operators named `X_Something` before `X` are *mutants*: a plausible
bug in `X` with which the property named in `PROJECT.json` must fail.

## The runs

Each run checks the instance in its `.cfg`. `CHECK_DEADLOCK FALSE` is set
throughout: every behaviour may end, because sockets, messages, nodes and time
are bounded and nobody is forced to call anything.

| run | properties | what it shows |
|---|---|---|
| `selix_single` | `SocketsOwned` `CloseMeansPeer` `ConnectMeansEstablished` `AssertsOnlyShutDown` `AllReadySeen` `StaysRegistered` | a single-threaded program whose callbacks act on their own socket and whose servers wait for their clients: no descriptor leaks, `liEvClose` means what it says and `liEvConnect` too as long as no `liEvClose` came before, the assert of the branch for `liEvConnect` fails only at a socket that was shut down, `assert(0 == nNum)` holds, no registration is lost |
| `selix_threads` | `IdsUnique` `NoStaleDispatch` | other threads and callbacks open, connect, listen and close anything during `select()` (no `lixAccept`): the id test is enough |
| `selix_live` | `ReadDelivered` | the walk starts at slot 0 each time and starves nobody |
| `manager` | `LimitKept` `NodesDistinct` `NothingLeaked` `NoOtherNodeWalked` | nodes come and go during `select()`, in callbacks, across `selixInit`/`selixEnd`, with addresses that are handed out again: the limit holds, no block is lost, and under one manager a walk comes to no node that lives where its own did |
| `sem` | `CountsAgree` `ImplementsCounting` `WaitsWholeSeconds` `TimedTakeReturns` | the two counters make one counting semaphore; a timed take of 1500 ms waits at least its whole second, or is refused because of its half, and returns |
| `lmx_mailbox` | `PostedOnce` `ImplementsMailbox` `MessageDelivered` `DestroyReturns` | no message is lost, doubled or early, across the wrap of the tick; accepted messages are delivered; `LmxDestroyThread` comes back |
| `fs_transfer` | `PrefixWritten` `ProgressAgrees` `ImplementsService` `TransferCompletes` | the transfer under partial sends and receives, resumption, breaks, time-outs and stream errors |
| `fs_session` | `FdsAccurate` `FailedMeansAll` `EventAssertsHold` `OneOutcome` `DeinitReleases` `ClearedBeforeTold` | two sessions from creation to `fssDeinit`: racing connections, failing calls, time-outs, destruction by the application and by the callback of any event; at which events the worker does nothing more with the session |
| `telnetd` | `ParamsLive` `ReapedOnce` `QueuedForOne` `LeaversReaped` `StopReturns` | clients that follow each other in one slot, from the start to the stop of the server, and may stop reading; if every send ends, who has left is forgotten and `LmnStopTelnetd` returns |
| `hash` | `CountsTrue` `WalkComplete` `WalkOnce` `ImplementsDictionary` | the table is a map and can be walked, through growth and failing allocations |
| `selix_stale` | `NoStaleDispatch` violated | see below |
| `fs_reused` | `SubStateAssertHolds` violated | see below |

Every module states its `TypeOK`, which TLAPS proves (below); no run spends a property on it,
and `INVARIANT TypeOK` can be added to any configuration.

**Bounds, and why they are enough.** Two slots and three sockets: a slot is
reused while another one is live, the table is full for `lixAccept`, and a walk
has a slot behind the one that called back. One call per callback in the passing
runs, two for `selix_stale` (close, then accept). Slots and sockets are
interchangeable apart from slot order, so sockets are a symmetry set where no
liveness is checked. Manager: two threads, three nodes and three calls of
`selixInit`, so that a destroyed node can be followed by another while a thread
still waits, and a second life cycle follows the first; four blocks are two for each of two nodes
alive at a time, so that the third node has addresses that were used before.
Semaphore: three threads and two units let a third thread find the counter
between the two steps of both others; `WordSize` 8 stands for 2^32, any value
above the maximum shows the wrap; clock steps of half a second over three
seconds cover waits of 0 and 1.5 s, from the beginning of a second and from 500 ns before its end,
where the half carries. Message thread: two normal and
two delayed messages, delays 0 and 2, ticks modulo 13 starting at 11, so that
triggers and the tick wrap within the horizon; `MaxCheck` and `MaxPost` 3 stand
for the code's 86400000, which both constants are, with the code's relation to the modulus.
Transfer: six units with folders among them, blocks of three (a block and its
header fill the connection of four), receive buffer of two (pieces and a
residue), every resume position: partial first sends, partial flushes and
partial receives all occur, and the sender must stop and be woken. Sessions: two,
one of them a sender, over three slots and at most two addresses each: an address
wins while another is refused in the same walk, `lixAccept` finds no slot, and an
event of one session stands behind one that closes its slot; one application thread,
because the tests of `eState` outside the lock are wrong with two (below). `fs_reused` has one session, for what one handler does with its own. Telnet:
two clients, one slot (the second gets what the first has left, or is refused while
the first is there), one command each and one text, which is enough for a text to
be queued for a client that leaves. `TelnetdProofs` covers every number of each.
Hash table: four keys, two of them with the same hash, sizes 2 and 4, so that a
list splits, a list holds two nodes, and the largest size is reached and exceeded.

**Fairness.** `selix_live`: the select thread runs (a program loops over
`selixSelect`), `select()` returns (it has a time-out), callbacks return, the clock
advances; peers and users owe nothing. `sem`: the kernel wakes a waiter of a
positive `sem_t` (strong fairness: waiters compete), a woken thread goes on, time
passes. `lmx_mailbox`: the loop runs, time passes, a post that was begun gets the
lock. `fs_transfer`: both worker threads run and what was sent arrives; faults owe
nothing. `telnetd`: weak fairness of each thread: the server thread (its `select()`
has a time-out), each client's thread and `hListenThrd`, `LmnStartTelnetd` and
`LmnStopTelnetd` once begun, and an insertion that waits for a lock that is free;
commands return; clients owe nothing, not even that they read. A send to one that does not
read never ends (`SendGoesOn` has no fairness), so its two liveness properties are stated for behaviours in which
sends stall no more from some time on (`SendsGoOn`). No fairness is put on any call of a user.

**Instances chosen so that a property holds** — the constants say for whom:
`selix_single` has `PeerSpeaksFirst = FALSE` and one thread, `selix_threads` has
no `lixAccept`, `lmx_mailbox` has `Clk = 1` (a `DWORD` of 64 bits, or Windows),
`fs_transfer` has content in every stretch of the stream that fills the
connection, `fs_session` has one application thread, callbacks that destroy
sessions but start nothing (after one that destroys where the worker goes on, the run ends
where the worker would use freed memory), no `fssCloseListen` on a session
that listens, and messages that arrive whole (`SubStates`; that they do not is what `fs_reused` and
`FileTransfer` are about), and `telnetd` has an application that prints, commands that do not,
and a start that is over before the first `select()` returns. The next section says what happens otherwise.

## Where the code and its comments disagree

Found by the violation runs; the trace of each run is the explanation.

1. `selix_stale` (`LmnSeli.cpp:2218`). The walk skips a slot "如果原socket改变" by
   comparing `dwId`, "唯一编号". `lixAccept` never sets `dwId`, so every accepted
   socket has id 0. A callback (or another thread) closes one accepted socket and
   accepts another into its slot, and the old descriptor's event is delivered
   to the new socket's handler. Without `lixAccept` the test is sufficient, which
   is the theorem `NoStaleDispatchWithoutAccept`.
2. `fs_reused` (`fileshare.cpp:923`). `assert( pSesseion->eSubState == SUB_STATE_NONE )` on
   the acknowledgement. `liEvClose` sets `eState` alone (1240); a session whose connection broke in
   the middle of a message is accepted by `fssConnect` with the old `eSubState`.

The same modules show more. These instances have no configuration of their own here; each is
one of the configurations above with the constants named, and the property named in place of
the ones checked there. The first six contradict a comment or an assert of the code:

| instance | what fails | cause |
|---|---|---|
| `MCSelixReactor` as in `selix_single` | `ConnectFindsConnecting` | `assert( ... liState == liStConnecting )` stands in the branch that tells `liEvConnect` (`LmnSeli.cpp:2284`). `lixShutdown` sets `liStShutdowned` on a socket whatever is under way and leaves its masks: one that is shut down after it was connected and before the application was told fails the assert in the next walk. `AssertsOnlyShutDown` says that this is the only way |
| `MCSelixManager` as in `manager` | `WalkedNodeIsCopied` | the test of line 2197 is to return "如果环境已经改变", if the environment has already changed. It looks the handle up by address and reads `m_dwId` through the pointer it has from before `select()`: a node created where the destroyed one's list node was, with its descriptor elsewhere, passes, and the walk works on freed memory; after `selixEnd` and `selixInit` the ids start again, too. What the test does achieve is `NoOtherNodeWalked`: under one manager the walk never comes to another *live* node in its place |
| `MCLmnSemaphore` as in `sem` | `WaitsItsTime` | "加上等待时间纳秒数", add the nanoseconds of the wait (`LmnMisc.cpp:1150`), but the milliseconds times 1000 are microseconds, and nothing carries into `tv_sec`: a take for 1500 ms gives up after one second, or at once, when `tv_nsec` comes out too large and `sem_timedwait` refuses it. What is left is `WaitsWholeSeconds` |
| `MCHashTable`, `Keys <- MCKeys7`, `HashOf <- MCHash7`, `MinSize = 4`, `MaxSize = 16`, `MayFail = FALSE`, `MaxClears = 0` | `UsedWithinLimit` | `assert( pHt_->dwUsedListCnt <= pHt_->dwListLimit )` stands at the head of every addition, and the table grows when the two are `==` (`LmnContainer.cpp:1706`). If every used list splits in a growth, the new array is at its limit at once, and the node that made the table grow opens one list more (1748). The assert fails at the next addition; with `NDEBUG` the table stops growing, unless erasures bring the count back to the limit |
| `MCSelixReactor`, two slots, two sockets, `OwnerCalls <- OpenConnect`, `CbCalls <- CbSelf`, `FairSpec` | `ConnectAnswered` | "连接超时也认为异常" (`LmnSeli.cpp:2238`), but the time-out is looked at only if `select()` returned 0, and then for the first live slot alone: behind another slot, or in a node where something is always ready, a connection that never completes is never reported |
| `MCSelixManager`, `Requests = {2}`, `MaxInits = 2`, `MaxNodes = 1` | `InitedWhileUsed` | `seliEnd` tears down "如果引用的模块个数到0" (`LmnSeli.cpp:305`); `selixInit` counts only the calls after the first, so the first `selixEnd` of two users tears the manager down under the other |
| `MCFileTransfer`, `Faults = {}`, `Spec` | `NeverFailsToReceive` | a block whose remaining length is a multiple of 8192 ends in a receive of 0 bytes, which `lixTcpRecv` refuses: "error to recv" for a stream of exactly 8192 bytes (`fileshare.cpp:604`) |
| `MCSelixReactor` as in `selix_single` | `ConnectMeansEstablished` without its clause for `liEvClose` | a refused connect whose callback leaves the slot open: the error has been read out of the socket, the next `select()` finds it writable, and `liEvConnect` is told (2277) |
| `MCSelixReactor`, three slots, `OwnerCalls <- ServerCalls` | `IdsUnique` | `lixAccept` sets no id (the root of 1) |
| one slot, `OwnerCalls <- ClientCalls`, `AppCalls <- JustRecv` | `CloseMeansPeer` | FIONREAD is asked after another thread may have read the bytes: a live connection is reported closed (`LmnSeli.cpp:2250`) |
| one slot, `ClientCalls`, `PeerSpeaksFirst = TRUE` | `AllReadySeen` | a connecting socket with data is counted twice by `select()`, once by the walk; the assert of line 2333 fails |
| one slot, one socket, `OpenConnect`, `PeerSpeaksFirst = TRUE`, `FairSpec` | `ConnectAnswered` | the read branch has nothing to say and hides the write branch: no `liEvConnect` ever |
| two slots, `TcpCalls`, `AppCalls <- OpenListen` | `StaysRegistered` | the write-back undoes a `lixListen` made during `select()` (line 2322) |
| one slot, `OpenConnect`, `CbCalls <- CbReopen`, `MaxCbCalls = 3` | `StaysRegistered` | a callback reopens its slot; the write-back gives the new socket the old masks |
| one slot, `ClientCalls`, `PeerSpeaksFirst = FALSE`, `FairSpec` | nothing: `ConnectAnswered` holds | the time-out works for the only slot of a node |
| `MCSelixManager`, `Requests = {2, 5}` | `CreatorKnowsSize` | `pdwMaxSocketCnt` is `INOUT` and never written |
| `MCLmxThread`, `NoNormal`, `TickMod = 26`, `Clk = 2`, `Horizon = 5`, `FairSpec` | `MessageDelivered` | with a 32-bit `DWORD` the POSIX tick wraps at 2^32 / `_CLK_TCK`, the triggers at 2^32 (`LmnMisc.cpp:1899`) |
| `MCFileTransfer`, `Stream <- EmptyFiles` | `TransferCompletes` | folders are not counted, so nothing wakes the sender when they fill the connection (`fileshare.cpp:1171`) |
| `MCFileShareSession`, `Sessions <- MCOneSession`, two slots, `CbDestroys <- NoEvents`, `FairSpec` | `ConnectReturns` | deadlock: the worker is in the walk under `m_Lock` and its handler waits for `s_fss_lock`; `fssConnect` has `s_fss_lock` and waits in `lixOpen` for `m_Lock` (`fileshare.cpp:691`) |
| `MCFileShareSession`, `Sessions <- MCOneSession`, `CbDestroys <- SafeToDestroy` or two threads | `TestedIsLive` | `eState` is tested before `s_fss_lock` is taken, and the session may be destroyed in between (1438, 1548) |
| `MCFileShareSession`, `ClosesListen = TRUE` | `FdsAccurate` | `fssCloseListen` closes with `liClose`, in the wrong table (1516) |
| `MCFileShareSession`, `CbListens` the ends of an attempt | `FdsAccurate` | the test of `eState` again: `fssConnect` overwrites what a callback's `fssListen` has made |
| `MCTelnetd`, `StarterWins = FALSE` | `ListsReady` | the server thread is started before its lists and locks exist (`LmnTelnetd.cpp:1591`) |
| `MCTelnetd` | `NoPrintLost` | `ClearPrintfList` frees what was inserted since the walk ended (1374) |
| `MCTelnetd` | `ByeClosesOwn` | "bye" names a slot, which may be the next client's by the time it is closed (1101) |
| `MCTelnetd` | `NoThreadLeft` | `hListenThrd` is ended after at most one more message; the threads of the other clients stay, with a context that is freed |
| `MCTelnetd` | `ListenParamLive` | `selixDestroyNode` frees the parameters of the listening socket, which are the context of `hListenThrd`, before `hListenThrd` is ended (1632) |
| `MCTelnetd`, `FairSpec` | `StopReturnsAnyway`, `LeaversReapedAnyway` | without `SendsGoOn`: a client that does not read keeps `lixTcpCompleteSend` in its loop under `m_Lock` (`LmnSeli.cpp:3013`), and with it the server thread |
| `MCTelnetd` | `PrintToOwner` | a text given for one client is queued after it has left and goes to the next one: the test of the flag and the insertion are two steps, and so are the purge and the freeing of the slot. The code says so itself: "快速关闭telnet窗口，有可能回调函数的Printf会输出到下一个telnet窗口" (`LmnCommon.h:1256`), which is why this is no finding |
| `MCTelnetd`, `Printers <- MCCommandsPrint` | `StopReturns` | `LmnStopTelnetd` holds `s_lock_telnet` while it waits for threads whose commands wait for it in `LmnTelPrintf0` (1626) |
| `MCHashTable`, `Keys <- MCKeys4` | `SizeTrue` | `_ClearHashtable` does not reset `dwNodeCnt`, which `GetHashtableSize`, "获取Hashtable当前有多少个节点" (`LmnCommon.h:645`), returns |
| `MCHashTable`, `Keys <- MCKeys4` | `HandleStays` | a growth makes every node anew; handles dangle though their keys are there (`LmnContainer.cpp:1741`) |

What a callback of `fileshare.cpp` may do with its session can be read off `ClearedBeforeTold`
(`fs_session`). The worker goes on with the session after `FSS_ON_START` (told at 891 and 927), after a
sender's `FSS_ON_PROGRESS` (1093), after `FSS_ON_COMPLETE` (1051 and 1189, each followed by `Clear`),
after `FSS_ON_FAILED_TO_ESTABLISH_CONNECTION` with 0 (1233), and after `FSS_ON_ERROR` with
`FSS_ERROR_CONNECTION_CLOSED` (1239 and 1261): a callback that destroys it there leaves the worker with freed
memory. `FSS_ON_ERROR` as a whole is therefore not safe; with the other codes, and after
`FSS_ERROR_SOCKET_LIMIT`, it is. Nothing in `fileshare.h` tells the application so.

## The proofs

TLAPS proves for every value of the constants what the runs show for one. The
only assumptions are the named `ASSUME`s of the modules on their constants and, where
a theorem says so, one named hypothesis on them. Each of these stands for a way to use
or to build the code in which a hazard above does not arise, and is needed: the violated runs and
the table above show what goes wrong without it (`TicksSteady`: a message that is never delivered).
The run that checks the same property has constants that meet it, `fs_session` but for its callbacks:
TLC finds the five properties true with callbacks that destroy anywhere as well, up to the step that would
use freed memory.

| hypothesis | says | theorems |
|---|---|---|
| `NothingAccepted` | no caller uses `lixAccept` | two of `SelixReactorProofs` |
| `OneThread` | one thread, TCP only, callbacks stay with their slot | four of `SelixReactorProofs` |
| `TicksSteady` | the product of tick and `_CLK_TCK` does not wrap | `LmxImplementsMailbox` |
| `Disciplined` | one application thread that destroys where it is safe | `FileShareSessionProofs`, but for `SessionClearedBeforeTold` |

**`SelixReactorProofs`**, for any number of slots, sockets and callers:
- `TypeCorrect`: `TypeOK` is inductive. One lemma per group of steps (`CallType`,
  `KernelType`, `ScanType`, `SelectStepType`); `nNum` is an integer because the
  walk can subtract more than `select()` counted.
- `Ownership`: `Spec => []SocketsOwned`. Inductive together with `TypeOK`: only
  open, accept and close change which slot holds what (`OwnershipOpen`,
  `OwnershipCall`), all else is a frame (`OwnershipFrame`), the write-back
  included, because it writes none of the fields ownership is about.
- `NoStaleDispatchWithoutAccept`: if no caller uses `lixAccept`, a callback is
  only told about the socket in its slot. `NoStaleDispatch` alone is not
  inductive: whether the test succeeds rightly depends on the copy. The
  invariant `DispatchInv` adds that ids in the table are unique
  (`IdsUnique`), that no id in table or copy is above the counter
  (`IdsBounded`), and that a slot of the copy with the same id as the table
  holds the same socket (`SameIdSameSock`). A new socket gets an id above all
  (`DispatchOpen`), so it can never agree with the copy.
- `IdsUniqueWithoutAccept`: the first conjunct of `DispatchInv`; both theorems come
  from the lemma that it is inductive (`DispatchInvariance`).
- `AssertsOnlyAtShutDown`: `AssertsOnlyShutDown`, with no hypothesis: whatever other threads and
  callbacks do, a slot that waits for `liEvConnect` is connecting or was shut down, in the table and in
  the copy (`AllWaiting`), because the masks and the state are set together and written back together.
- `CloseMeansPeerOneThread`, `ConnectMeansEstablishedOneThread`, `AllReadySeenOneThread`,
  `StaysRegisteredOneThread`: four properties of the run `selix_single`, under
  `OneThread`: no other thread calls, no UDP socket, a callback accepts, receives on or
  closes only its own slot, and a peer sends nothing before `liEvConnect` is told. A callback
  may leave a socket open after `liEvClose`, and a socket may be shut down at any time, with the
  assert of line 2284 that this can fail (`AbortOneThread`). None is inductive; they follow together from `OneThreadInv`:
  `Registered` (a slot in the table is registered for what its socket is: nothing yet, a
  connection asked for, accepting or reading, `Fits`; one that was told `liEvClose` and is still
  open, `Over` and `Ended`, owes nothing more), `CopyTrue` (the slots still
  to be walked are in the copy as in the table: only a slot's own callback changes it),
  `StillReady` (what `select()` answered for them is still so: the kernel takes back neither
  data nor a completed connection, and nobody else reads), `Counted` (`nNum` is the number of
  descriptors not yet seen), `InCallback` (what the callback in progress is about to write back
  fits the slot, unless the event was `liEvClose`) and `FreeUntold` (a socket that was
  not opened was told nothing).

**`SelixManagerProofs`**, for any threads, blocks, limits and requests:
- `ManagerNodesDistinct`: `NodesDistinct`, for any allocator. It is inductive with
  the shape of the variables, with the list being empty while the manager is not
  inited (`EmptyIfNotInited`), and with a walk keeping the manager up
  (`WalkerInited`: `m_Lock` is held throughout).
- `ManagerWalksNoOtherNode`: `NoOtherNodeWalked`, for any allocator. The test of line 2197 reads
  `m_dwId` through an address read before `select()`, where by then another node may live. The
  invariant speaks of every selecting thread: ids grow, so no node made after the copy has the copied
  node's id (`past` tells the ids of ended managers apart), and if a node lives at
  the address with that id it is the copied one.
- `ManagerLimitKept`: `LimitKept`. The code adds and subtracts `dwMaxSocketCnt` where
  the model counts the places of all tables, a set of pairs (`Slots`): a new table brings
  places that were in no other and as many as its size, a destroyed one takes its own away.
- `ManagerNothingLeaked`: `NothingLeaked`, for any allocator. A manager that is not inited has neither
  nodes nor a limit; the blocks in use and the blocks given back are `2 * made` together
  (`Accounted`): every creation takes two that were not in use, and every way a node goes
  (`selixDestroyNode`, a callback, `selixEnd`) gives back the two blocks it had.

**`LmnSemaphoreProofs`**, for any number of threads, any counts and any width:
- `SemaphoreTypeCorrect`, `CountersAgree`: `cur = sem + |threads past sem_wait|`, and
  `cur <= MaxCnt`. It is inductive with `TypeOK`; finite-set facts give that the
  second half of a take finds `cur > 0`, so the `DWORD` never wraps.
- `Refinement`: `Spec => ImplementsCounting`. The linearisation point of a take
  is `Decrement`, not the return of `sem_wait`; with `CountersAgree` every step
  is a step of `CountingSemaphore` or a stutter.
- `TimedTakesWait`: `WaitsWholeSeconds`, for any waits, whole seconds or not, and any start of the
  clock. `TimeInv` says that deadline, clock and time waited stay in step: the deadline lies
  ahead of the call by what the code counted of the wait (`Counted`, whole seconds and a thousandth of
  the rest). `RefusedFraction` says that only a wait with a fraction of a second makes a deadline
  that `sem_timedwait` refuses; for all others the order of the pairs is the order of
  the times.

**`LmxThreadProofs`**, for any messages, delays, start and width of the tick:
- `LmxTypeCorrect`: `TypeOK` is inductive. The positions `InsertAfter` and
  `ExpiredCount` compute are inside the delayed list whatever the ticks are, and a
  tick stays a `DWORD` (`TickType`).
- `LmxPostedOnce`: `PostedOnce`. It speaks of the three lists behind one another; the
  invariant says of each list that no message is in it twice, of the batch that it
  shares none with the others (`ListsOnce`), that there is a batch only where it is
  handed out (`BatchInHand`: `Collect` may overwrite it), and that posts waiting
  for the lock are for different messages (`PostingOnce`). What appending, inserting,
  cutting and taking the head do to the contents of a list is stated at the head of the
  module, what they do to the messages in it (`Named`) after that.
- `LmxImplementsMailbox`: `Spec => ImplementsMailbox`, under `TicksSteady`: the ticks count
  milliseconds (`Clk = 1`) and may wrap, or they are scaled by `_CLK_TCK` and the product does not
  wrap during the run. A delivery must never be early and delayed messages must come in the
  order of their times, though the code compares ticks modulo `TickMod`. `MailInv` ties
  ticks to times: a trigger is the tick of the time at which its message is due
  (`PostsTimed`, `ListTimed`), the list ascends in those times, the expired
  messages of a batch are due (`BatchTimed`), and the tick the loop has read is one of a time
  not after now (`LoopKnows`). As all times in play lie within half of `TickMod`,
  which `ThreadAssumption` asks for, the signed difference of two triggers has the sign of the
  difference of their times; an insertion at `InsertAfter` keeps the list ascending and
  `ExpiredCount` cuts it where it stops being due.

**`TelnetdProofs`**, for any number of clients, slots, texts and commands:
- `TelnetTypeCorrect`: `TypeOK` is inductive with two facts it needs: a client that
  was never accepted has no thread (`Fresh`), and a client with a thread knows a slot
  (`FdKnown`, for the list of slots to close).
- `TelnetQueuedForOne`: a text that was queued while a client had its slot is for that client
  (`ForAll` adds that a text for everybody is for nobody in particular). A slot changes hands only
  after its texts were taken away, and what is queued between that and the freeing of
  the slot was queued when nobody had it.
- `TelnetParamsLive`, `TelnetReapedOnce`: both follow from `PlaceInv`, which says
  where a client is: in at most one slot (`SlotOnce`), at most once in the queue of
  `hListenThrd` (`QueueOnce`), in one of slot, queue and hands only (`OnePlace`);
  whoever is in one has live parameters (`SlotLive`, `QueueLive`, `MsgLive`); live
  parameters are in one of them (`Somewhere`); a thread that runs has live
  parameters (`ThreadLive`). `Down` adds that nothing is accepted before the start.
  Neither property is inductive alone: that parameters are freed once needs to know
  that the client is in no slot and not queued again.

**General facts** about numbers, finite sets and sequences stand at the head of the module
that uses them, where the library has none: a set of positions that is not
empty has a first one, a bounded one a last one; quotient and residue; what
concatenating, cutting, appending, inserting and taking the head do to the contents
of a list. Where induction over a sequence would be the usual way, these go by least
counterexample: the set of positions at which a claim fails has a first element, which
contradicts it.

**`FileTransferProofs`**, for every stream, block size, receive buffer, capacity of the
connection and choice of faults (`TransferAssumption` asks that the connection
holds more than two messages, which the validation string and the position need):
- `TransferTypeCorrect`: `TypeOK`, and no pipe holds more than `Cap`.
- `TransferWritesPrefix`: `PrefixWritten`. The property says nothing of the bytes that
  are in the connection, so the invariant follows them (`FlowInv`): what has arrived
  at the receiver, what is on the wire and what is left in `pSendBuf`, read behind one
  another, leads from the receiver's position and the rest of its block to the sender's
  position. `Flow` joins and cuts wherever the list does (`FlowConcat`, `FlowCut`), and
  a partial `lixTcpSend`, a delivery and a partial `lixTcpRecv` only move the cuts.
  `PosInv` says that before the sender knows the position (`SET_FILE_POS`) nothing of the stream
  is anywhere; `NetInv` what can be in the connection during the validation;
  `BlockInv` that `dwRecvBlockCnt` and the residue are those of the rest of the
  block, which is where the division at `fileshare.cpp:603` comes in; `StageInv`
  orders the steps of a handler.
- `TransferProgressAgrees`: `ProgressAgrees`. What the receiver has counted is what the sender
  has counted and what the progress messages on their way add up to; what it has
  counted and not reported makes it the content in what it has written.
- `TransferImplementsService`: `Spec => ImplementsService`: every step of a handler is one
  step of `TransferService` as the two users see it, or none.

These proofs found that the arms of a `CASE` in `OnRead` overlapped (a sender that is
still in the handshake matched two): TLC takes the first that is true, the semantics of
TLA+ leaves open which. The code tests in an order, and `OnRead` now says which; the same
was put right in `ReadEvent` and `WriteEvent` of `SelixReactor` and in the mapping of `LmxThread`.

**`FileShareSessionProofs`**, for any number of sessions, slots and addresses, under
`Disciplined`: one application thread, no `fssCloseListen` on a session that listens, a
callback that destroys its session only at `FSS_ERROR_SOCKET_LIMIT` and at `FSS_ON_ERROR` with a code
other than `FSS_ERROR_CONNECTION_CLOSED`, and starts none there. Each part excludes one hazard listed in `PROJECT.json`, and the table
above shows the property fail without it: two threads both pass the test of `eState`
(`fileshare.cpp:1548`); `fssCloseListen` closes in the wrong table (1516); a session
destroyed at other events is used afterwards (1051); a session restarted in
the callback is overwritten by an `fssConnect` that had tested before.
- `SessionInvariant`: `Spec => []IInv`. Beside `TypeOK`: who holds `s_fss_lock` is told by
  where the threads are (`LockInv`); a thread in a call may rely on the state of its
  session (`CallOK`: what it tested before the lock is still so); slots and
  records say the same (`DescInv`: a slot in use is on record in the field for its
  kind, and a session's state says which of its fields are set); `dwConnectingLeftCnt`
  counts the attempts under way except during `fssConnect` (`LeftOK`); what is told goes
  with the state of the session and with what the handler does next (`TellInv`, with
  `Fits`); the sessions `CheckTimeout_` has still to tell stay timed out and live
  (`DueInv`); histories grow only while they are open (`HistoryOK`); and
  without `s_inited` there is nothing (`QuietInv`).
  A step works for one session: `OnlyHere` proves once that it leaves the others'
  records and slots in agreement, and `Tells`, `Goes`, `AppDoes` and `WorkerOnly` the four ways
  in which a step may leave the rest of the invariant.
- `SessionTypeCorrect`, `SessionFdsAccurate`, `SessionFailedMeansAll`, `SessionEventAssertsHold`,
  `SessionOneOutcome`, `SessionDeinitReleases`: `TypeOK` and the five
  invariants of `fs_session`. `FdsAccurate` alone is not inductive: that `liEvConnect`
  closes the right descriptors needs to know that a connecting session's records are
  those below `dwCount`, each once. The assert of line 923 is not among those of
  `EventAssertsHold`: it fails (`fs_reused`).
- `SessionClearedBeforeTold`: `ClearedBeforeTold`, without `Disciplined`: for any callbacks, any number of
  threads and any split of the messages. `DoneWith` says what the handler does after each event it can be
  telling.

**`HashTableProofs`**, for any keys and data, any hash function, any sizes between
`MinSize` and `MaxSize` and any calls of the caller; no hypothesis beside `HashAssumption`:
- `HashTypeCorrect`, `HashCountsTrue`, `HashWalkComplete`, `HashWalkOnce` and
  `HashImplementsDictionary`: `TypeOK` and the four properties of the run `hash`.
  `HashInv` is the inductive invariant; TLC checked it on the run's instance.
  `Good` says that every node is on the list its hash falls on (`Placed`) and that no
  list has two nodes with one key (`OneNode`), which is what makes a lookup on one list
  enough. `CountInv` says that the counts are true until the table is cleared (`Counted`)
  and that they are never too low (`Enough`): `_ClearHashtable` leaves them too high,
  but every erasure still finds them above zero, and a walk that believes
  `dwNodeCnt` does not stop before a node. `WalkInv` says that the keys a walk owes are
  ahead of the handle and those it has been on are behind, in the order of the lists
  (`Before`).
- One lemma (`ReplaceList`) says what a table holds when one of its lists is
  replaced by another; `InsertIs`, `WithoutIs` and `UpdatedIs` are its three uses. `NextIs`
  and `FirstIs` say that `_GetNextHashtableNode` finds the least key behind the handle, which
  is why an addition before or behind it, an update and an erasure elsewhere leave the walk
  complete.
- `RehashedIs` is about growth. `InOrder` and `Rehashed` are functions defined by
  recursion on a position; that such a function exists (`RunExists`) and what it
  returns (`InOrderIs`: each node once; `MoveNext`: the first `i` nodes are stored with
  their data and counted) is proved by least counterexample. So growth loses no key, doubles
  none and sets both counts right, even after `ClearHashtable`.

For the proofs the general failure of `Dictionary` was dropped: a call fails for the
key it is given or, if it has to make a node, for lack of memory, so that the refinement
says more than it did.

## What is only model-checked

Liveness (`ReadDelivered`, `MessageDelivered`, `DestroyReturns`,
`TimedTakeReturns`, `TransferCompletes`, `LeaversReaped`, `StopReturns`) rests on
fairness and `ENABLED`, which the prover does not handle. Every safety property of a
passing run, invariant, action property or refinement, is stated by a theorem. The
prover has no induction over data either; where a definition is recursive (`InOrder`,
`Rehashed`) or a claim is about every position of a sequence, the argument is the least
counterexample, for which the library's well-founded orders are enough. No module declares
a `RECURSIVE` operator.

**Abstractions.** Each module names its own at the top. The main ones:
descriptors are never reused by the kernel; socket contents are one bit in
`SelixReactor` and units in `FileTransfer`; `close()` and allocation do not
fail; `selixInit` and `selixEnd` do not race with other calls
(`SerialLifecycle`); a message of a few bytes is one unit (its pieces are kept
in `pDataBuf` until they are complete); a write of the receiver's stream is
whole or fails; nobody uses a message thread that has freed itself.

In `FileShareSession` a destroyed session's address is not used again and a
failing `SureSend_` does not block; in `Telnetd` the command line is one message,
an insertion into a list is whole, and a message is dealt with in
one step or stalls in a send; in `HashTable` there is
one walk at a time and failed asserts do not stop the program.

**Not modelled**, with the reason in `PROJECT.json`:
- the seli reactor: the older copy of selix with one table. What differs is that
  `seliSelect` holds `s_seliLock` across `select()` (`LmnSeli.cpp:365`), so that every
  `li` call of another thread waits for it, and its time-out loop;
- the SOCKS5 dialogue: a step counter in the callbacks of both reactors;
- lists, arrays, the AVL tree and the thread-safe containers: sequential, no
  protocol between calls beside what the hash table shows;
- the login and the line editing of the telnet console, strings, files,
  configuration and XML: sequential text processing, where a model would be as
  long as the code;
- the HTTP stack and the redis client (clients of `seli`), lock diagnosis, tools,
  user interfaces; libjingle, curl, expat, OpenSSL and the other vendored packages,
  which are most of the repository's lines.

Exposures seen while reading, beside the hazards of `PROJECT.json`: a `close()`
that fails leaves its slot valid and is ignored by `selixDestroyNode`
(`LmnSeli.cpp:2587`); a callback that posts itself for ever starves normal messages
behind delayed ones (`LmnMisc.cpp:2008`); `LmxCreateThread` writes into a thread
that may have freed itself (`LmnMisc.cpp:2182`); a SOCKS5 answer is refused only if
both its length and its version are wrong (`LmnSeli.cpp:1760`); when the first
connect of `lixConnectSock5` fails, the context is freed by the callback of the
close and again (`LmnSeli.cpp:3252`); `WriteFileStream` may write less than it was
given and return 0 (`fileshare.cpp:644`); `fssConnect` with more than 16 addresses
writes beyond `ConnectingFds` (`fileshare.cpp:1559`). The hash table's code, with its
limit, is copied in `Tools/TelSvrLib` and `Windows/MFC/MergeFolder`.

## What the plan has left

1. `seliSelect` where it differs from selix; the SOCKS5 dialogue over the reactor's
   interface, for both reactors.
2. The AVL tree against a sorted set; the HTTP stack and the redis client, which are
   request queues over `seli`; the lock diagnosis.

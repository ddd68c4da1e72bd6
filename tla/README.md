# Verification of the Cumulocity SmartREST C++ SDK

A TLA+ development kept beside the SDK. It models the parts of the library that
run concurrently, keep state over failures, or read bytes that come in pieces,
and of the vendored libraries those the SDK stands on (the MQTT packets and
clients of paho, LuaBridge). TLC checks the models on small instances, and TLAPS
proves some of the results for every value of the constants. `PROJECT.json` lists
the runs, the mutants that show that a property can fail, and which lines of the
source each definition stands for.

Contents: 1 the system, 2 the modules, 3 the runs, 4 fairness, 5 the proofs,
6 where the code and its documentation disagree, 7 what is left out, 8 the plan.

## 1. The system

An application links the library, gets credentials with an `SrBootstrap`, registers
timers and message handlers with an `SrAgent`, and starts an `SrReporter`
(outgoing) and perhaps an `SrDevicePush` (incoming). Each of the three is a
thread; two queues connect them. Handlers may be plugins in Lua.

```
 application callbacks                     other threads
  plugins in Lua |  send()                      | sleep() resume() subscribe() setCapacity()
        v        v                              v
   +---------+  egress: SrQueue<SrNews>   +------------+  post/publish  +--------+
   | SrAgent | -------------------------> | SrReporter | <------------> |        |
   |  loop() |                            | pager+file |   HTTP, MQTT   | server |
   | timers  | <-----------+------------- +------------+                |   or   |
   | handlers|   ingress: SrQueue<SrOpBatch>                            | broker |
   +---------+ <-----------+------------- +--------------+  long poll   |        |
        ^                                 | SrDevicePush | <----------> |        |
   SrBootstrap, integrate() (before loop) +--------------+ -----------> +--------+
   SrWatchdogTimer --- shared memory ---> srwatchdogd (its own process)
```

| component | state | operations | interacts with | what is hard | what makes it correct |
|---|---|---|---|---|---|
| `SrQueue` (`include/srqueue.h`) | a `std::queue`, a mutex, a semaphore | `put`, `get`, `get(millisec)` | every thread | tokens and elements part company: `sem_post` after the unlock, an unlocked `empty()`, a failing trylock | first in first out, `get()` returns an element, nothing stranded |
| `SrReporter` (`src/srreporter.cc`) | pager, prefetched chunk, template of the aggregate, retry counter | the round of `func()`; `sleep`, `resume`, `setCapacity` | egress, ingress, pager, transport | state read before `aggregate()` and used after it, eviction, retries of what may have been served | nothing buffered is lost but by eviction, every request keeps its template, order, no resend after an answer |
| memory pager `_MemPager` | a deque of lines, a capacity | `front`, `pop_front`, `emplace_back`, `clear` | the reporter | header lines that stand for the lines behind them | the header stays in front of its lines |
| file pager `_BFPager` | a list of pages, flags, a page file, an index file | the same, and opening | the reporter, the file system | two files, the order of their writes, failing writes, eviction inside an operation, kills | pages hold what was buffered, none is given out twice, a restart finds it |
| `SrDevicePush` (`src/srdevicepush.cc`) | Bayeux state, templates, batch number | the thread; `sleep`, `resume`, `subscribe`, `unsubscribe` | notification server, ingress | two threads write the state without a lock, a post is canceled, answers are discarded | an acknowledged operation was queued, all operations arrive, batches are whole |
| `SrAgent` + `SrTimer` (`src/sragent.cc`, `include/srtimer.h`) | list of timers, handlers, template of the current line | `loop`, `addTimer`, `addMsgHandler`, `addXMsgHandler`, `start`, `stop`, `setInterval` | ingress, callbacks | callbacks that change the timers the loop is at; arithmetic of timespec; a template announced once for many lines | timers fire neither early nor late, a line goes to the handler of its template |
| bootstrap and integration (`src/srbootstrap.cc`, `src/srutils.cc`, `examples/ex-05-template`) | credentials and their file, XID, ID | `bootstrap`, `integrate`, `registerSrTemplate` | server, file system, agent | lost answers, files cut short, full disks, kills between two posts | credentials of one answer, a device registered once, and it comes up |
| HTTP (`src/srnethttp.cc`) | response, two times of the progress meter | `post`, `cancel`, `clear` | reporter, device push | bytes compared with seconds, times reset by another thread | a silent transfer ends, a canceled one as well |
| binary HTTP (`src/srnetbinhttp.cc`) | a libcurl handle and its options | `post`, `postf`, `get`, `getf` | server | options of the last transfer that point to what is gone | a transfer has its own options |
| MQTT (`src/srnetmqtt.cc`, `src/srnetsocket.cc`) | receive buffer, keep-alive clock, settings, handlers | `connect`, `subscribe`, `publish`, `ping`, `yield`, setters | broker, reporter's thread | a byte stream cut anywhere, five callers of `recv()`, ignored return values, reconnects | no message lost, doubled or garbled, the subscription comes back |
| lexer and parser (`src/smartrest.cc`) | a text, two positions | `next`, `reset` | agent, push, reporter | quotes, ends of lines in quotes, the end of the text | what a writer wrote in records is read back |
| base64 (`src/srutils.cc`) | — | `b64Encode`, `b64Decode` | HTTP | the last group and its padding | decoding undoes encoding |
| `SrLogger` (`src/srlogger.cc`) | stream, quota, level, three files | `setDest`, `setQuota`, `setLevel`, `log`, `rotate` | every thread, the file system | kills and failures inside a rotation | the last lines are in one of the files |
| `SrLuaPluginManager` (`src/srluapluginmanager.cc`) | a Lua state per plugin, maps of callbacks | `load`, bindings, dispatch, destructor | agent, LuaBridge | a load that fails after it has registered callbacks | a callback's Lua state is open and that of its plugin |
| LuaBridge (`ext/LuaBridge`) | tables in the Lua state, userdata, counts, references | registration chains, access from scripts, casts, counted pointers, `LuaRef` | Lua, plugin manager | temporaries that own the Lua stack, walks up the parents, order of release and read | the stack is balanced, members and casts follow the classes, nothing freed early or twice |
| MQTT packets (`ext/pahomqtt/MQTTPacket`) | state of a reader | a writer and a reader per packet | `SrNetMqtt`, paho clients | lengths at boundaries, pieces | what is read is what was written |
| blocking MQTT clients (`ext/pahomqtt/MQTTClient`, `MQTTClient-C`) | session, ids, handlers | `connect`, `publish`, `subscribe`, `unsubscribe`, `yield`, `disconnect` | broker, network | answers after the timeout, sessions over reconnects | what `publish()` reports as sent has arrived |
| watchdog (`src/watchdog/srwatchdogd.cc`, `include/srwatchdogtimer.h`) | shared memory of two bytes, shadow, clock | daemon; timer's constructor and `kick` | a child process | a counter that wraps and survives a restart, clocks read at different times | a healthy program is never killed, a hung one is in time |
| examples, tests, tools, documents | — | — | — | — | — |

## 2. The modules

| module | models | uses |
|---|---|---|
| `SrChannel` | what a queue promises: an atomic channel | |
| `SrQueue` | the pthread implementation, one action per library call | `SrChannel` as refinement |
| `SrMemPager` | the memory pager, operators on the deque of lines | |
| `SrReporter` | the reporter's thread over HTTP with its agent, network and server | `SrMemPager` |
| `SrFilePager` | the file pager and its two files | |
| `SrDevicePush` | the push thread, its callers and the notification server | |
| `SrTimer`, `SrAgent` | timespec arithmetic; the loop, timers, callbacks, dispatch | |
| `SrStartup` | bootstrap, the agent's start, integration, the server | |
| `SrNetHttp`, `SrNetBinHttp` | the two HTTP transports | |
| `SrNetMqtt` | the reporter's thread over MQTT, socket and broker | |
| `SrLexer`, `SrBase64` | texts of records, and base64, against reference definitions | |
| `SrLogger` | the log and its rotation | |
| `SrWatchdog` | daemon, timer, watched program | |
| `SrLuaPluginManager` | plugins, their callbacks, the agent's maps | |
| `LuaClass`, `LuaRefCounted`, `LuaRef` | LuaBridge: registration and access, counted pointers, references | |
| `MqttPacket`, `SrMqttCodec` | packets byte by byte; packets on a stream | |
| `PahoTopic`, `PahoClient` | topic filters; the blocking clients with network and broker | |
| `MCStores`, `MCReporter`, `MCThreads`, `MCParts`, `MCLua` | the instances TLC checks | all of them |
| `SeqInduction` | induction in the form the provers take, and what `FlattenSeq` computes | |
| `SrQueueProof`, `SrReporterProof` | theorems about the module of the name | the module |
| `MCStoresProof`, `MCReporterProof`, `MCThreadsProof`, `MCPartsProof`, `MCLuaProof` | theorems about the parts of the instance of the name, and about the instance | the `MC` module, and the two above |

Variables keep the code's names (`q`, `mcb`, `pcb`, `uflag` as `used`, `bayeuxState`,
`resp`, `t0`, ...); `pc` is where a thread stands. Variables marked *history* are
not in the code: they record what happened, for the properties. A named mutant
stands in front of the definition it is a mutant of and is used by nothing else.

How states and actions correspond to the code, where it is not one to one:

- **`SrQueue`**: `view` is the container as the thread that holds the mutex has
  read it, so that a push and a pop are atomic only because of the mutex: the
  mutants that forget the lock break the properties. The semaphore's timeout may
  come although a token is there.
- **`SrReporter`**: one action per step of `aggregate()` (`TakeNews` takes one message
  from the queue), one per attempt of `exp_send()`; between any two, the agent sends,
  puts to sleep or sets the capacity. A line is a record of template and message
  number, not text. A post may lose its request or its answer, so the server
  may have read what the reporter sends again. The egress queue is taken as the
  channel `SrChannel`, which `SrQueue` is proved to implement.
- **`SrFilePager`**: a call changes memory at once and leaves its file operations in
  `todo`, done one by one; a kill between two drops the memory and what a stream
  has not written. The index of pages is truncated and written in two steps, and
  a partial page reaches its file when its stream is destroyed, after the index.
  `ExtendFails` and `PushPageFails` are the error paths of `writePage()`: what they
  leave behind is counted by `torn` and `missing`.
- **`SrDevicePush`**: the calls of other threads are split at the read of `bayeuxState`
  (`ChangeTopics`, `CancelPost`). An answer is a sequence of characters of lines, so
  that erasing at a position that has moved garbles it as in `process()`.
- **`SrAgent`**: time passes in milliseconds, a second has `Sec` of them. Fire times are
  only ever compared with the clock, so their seconds are counted from the
  clock's current second, and `Tick` takes one from all when a second ends; the
  fire time of an inactive timer, which nothing reads, is zeroed. The first value
  of the local `c` is overwritten by every batch and starts as any template. Timers
  are started once they are in the list; a timer's callback does not add timers,
  which the loop's iterator would not survive.
- **`SrStartup`**: `stage` is the post or the file operation `main()` is at; a kill may
  come at each, and whoever started the program starts it again. A credential is the
  number of the server's answer it is from, negative where only its beginning reached the
  file. `Posts` are those of the template and of the device: a request or an answer of
  each may be lost.
- **`SrNetHttp`**: a step of libcurl brings a byte or a second passes, after which
  `xferinfo()` looks. `cancel()` is two steps, as its two assignments are not one.
- **`SrNetBinHttp`**: `options` is what the handle remembers, `live` what still exists of
  what it points to; a transfer is beginning, bytes and end.
- **`SrNetMqtt`**: bytes are units: the head of a PUBLISH (fixed header and length of
  the topic), its body, and the short answers. An answer of which a part has come
  is skipped, and its other bytes, whose high nibble is 0, are skipped one by one:
  it can be a unit. `t0` is not initialised by the constructor, so it is any time
  until the first `connect()` gets that far: long past, or never to come.
- **`SrLexer`**: a character is one of nine, which stand for the classes the lexer tells
  apart. `Lex` is one `next()` of the lexer, a step of the specification one `next()` of the
  parser. Texts are all short ones and, longer, those of a writer of records.
- **`SrBase64`**: shifts and masks are division and remainder; a group of three bytes
  is a number and `Sextet` what a shift takes of it.
- **`SrLogger`**: a line is its number and sizes are counted in lines. `rotate()` is four
  steps, with kills between them; opening may fail at each.
- **`MqttPacket`**: a packet is the sequence of its bytes and what it says a record. A reader
  returns `rc` as the function does. **`SrMqttCodec`** writes a packet of every
  type into a buffer that is large enough or a byte short, and lets the two readers cut
  the stream in pieces.
- **`PahoTopic`**: the loop of `isTopicMatched()` as a function of two positions, against
  a reference that splits filter and name in levels.
- **`PahoClient`**: a call is the write of its packet, any number of `cycle()`s, and its end by
  answer or timer; `Cpp` selects the client. The broker answers late or never.
- **`SrLuaPluginManager`**: a Lua state runs the code of one plugin at a time, at its load or
  in a callback, and that code calls the bindings of `init()`.
- **`LuaClass`**: `table` holds the metatables of a namespace or class with their
  functions, properties and parent; `stack` the tables the open chain has pushed, and
  `temps` how much of it each temporary believes to own (`m_stackSize`). Once a chain breaks
  off, `ending` destroys the temporaries in the order of C++. `Index` and `NewIndex` are the two
  metamethods, `GetClass` and `GetExactClass` the casts of `Userdata.h`.
- **`LuaRefCounted`**: `intrusive` selects the pointer with the count in the object or in the
  process' table. A deletion releases the object's own pointer: `todo` holds what is
  still to be released, before anything else happens.
- **`LuaRef`**: `luaL_ref()` and `luaL_unref()` hand out registry slots as Lua does, the last
  given back first. An action is one expression of C++ with its temporaries; five kinds
  of expressions do not work (section 6), and end the behaviour.
- **`SrWatchdog`**: time passes only while the daemon sleeps. A program may hang, crash
  or exit at any moment; while it is healthy it kicks within `Gap` seconds.

The five `MC` modules put parts that share no state side by side. A variable (`store`,
`paging`, `part`) names the part that moves in a behaviour, the others stay as they
begin, so that the states of the parts add up instead of being multiplied; a part
keeps its own `Init`, `Next`, fairness and properties through INSTANCE. Where parts do
interact, the interaction is inside a module: the queue's promise in the reporter,
the pager in the reporter, bootstrap, agent and integration in `SrStartup`, socket, client
and the reporter's thread in `SrNetMqtt`, `SrTimer` in the agent.

## 3. The runs

Runs that pass:

| run | instance | shows |
|---|---|---|
| `stores` | queue: 2 producers of 2 elements each, 2 threads in `get()`, or 2 in `get(millisec)`; file pager: pages of 4 bytes, blocks of 2, 4 and 6, capacity 3 then 2, 5 blocks, a restart between calls, a failing write | both queues implement `SrChannel` and drain, `get()` returns an element, none is stranded; the pages hold what was buffered and the counts differ from it by what a failed write left, pages are owned once, a restart finds them |
| `reporter` | one chunk with capacities 3 and 4 that change, 4 messages with and without `SR_PRIO_BUF`; chunks of 3 lines, capacity 7, 5 messages for 2 templates, all `SR_PRIO_BUF` | only evicted messages are lost; nothing is lost before the buffer is full, right templates, order, no resend after an answer, `pop_front()` finds its header, the buffer drains |
| `threads` | watchdog: counter of 4 values, `Gap` 2, naps of 2 or 3, `Val` 10; startup: 2 requests, 4 faults; push: 2 operations, 3 calls of other threads, 1 failure; MQTT: 2 messages from the broker, 1 to it, a broken connection, keep-alive | a healthy program is never killed, a hung one in time, a crash is followed by a restart, an exit is final; credentials of one answer, one registration, the device comes up; connects follow a subscription, batches are whole, operations arrive; messages handed over as published, none stays behind, the subscription comes back |
| `parts` | agent: 2 timers with periods 0 and 3, turns of at most 2, 2 batches of 2 records; lexer: all texts of 3 characters, records of 2 values of 2; base64: 5 bytes of 6 values; logger: 9 lines, quotas 1 to 3, 2 kills; HTTP: a period of 3 seconds; binary HTTP: 4 transfers; packets: 2 on a stream, payloads around the lengths where the remaining length grows; topics of 4 characters; paho client in C++: 4 calls | no timer early, none late by two turns, lines under their templates; records are read back and cover the text; base64; the last lines are kept; a silent transfer ends; a transfer's options are its own; packets are read as said; topics match by levels; what is reported as sent has arrived |
| `lua` | 2 plugins; 3 classes in a chain of bases, a namespace, 2 members, 4 temporaries, an object; 3 counted objects with 3 pointers; 2 references, 2 tables | callbacks reach their open plugin; the Lua stack is balanced, members and casts are those of the classes; objects live as long as pointed to; references hold their values |

Runs that TLC must find violated (section 6): `reporter_stale`, `file_killed`, `mqtt_lost`,
`http_cancel`, `mqtt_will`, `paho_resend`, `paho_c`.

Each module states its type invariant `TypeOK`; those of the modules with a proof of it are
theorems.

Deadlock is not checked where a part really may stop: a getter waits for ever once all
is taken, a sleeping push stops, the daemon ends after an exit, texts and calls
are bounded. `reporter` checks it.

Why the bounds are enough. Two threads of a kind and two elements each are the
least at which pushes, pops and tokens of different threads cross. The reporter's
instances hold more lines than a chunk and more messages than the buffer, so that
chunks, evictions and headers in all positions of a chunk occur. The file of three
pages overflows inside a block of two, blocks that fill, half fill and exceed a
page occur, and the one failing write may be the first or the last page of a block.
Push: one operation acknowledged while another is made, and a call of
another thread in each of the thread's states, twice. Agent: with a second of
two units and a period of three, fire times carry and do not; two entries of the
list are one timer twice or two. Startup: four faults are enough for a fault at
each of the credentials' write, the template's post and the device's two posts in
one history. MQTT: two messages, so that one is cut while
the other is whole; a connection breaks at every point, the reconnect included. Watchdog:
the counter wraps between two looks. Lexer: three characters are a quote, what is in
it, and its end; the writer's records have two values and separators in quotes.
Packets: payloads of 124 and 125, 16380 and 16381 bytes are where the
remaining length takes a byte more. PahoClient: four calls are connect, a publish that times
out, another, and a reconnect. LuaClass: three classes make a grandparent, two
members an override. LuaRefCounted: three objects make a chain that falls in one
release. LuaRef: two tables make an element that is a table.

Assumptions of passing runs that leave something out are switches, and each is
named under the hazards of `PROJECT.json` with what TLC finds when it is turned:
`PagedPrios`, `Lengths`, `GrowInside`, `Orders`, `KeepAlive`, `LateAnswers`, `BreakInside`, `Cpp`.

## 4. Fairness

Safety properties need none. Liveness assumes, per part (the `MC` modules ask for it in
the behaviours in which the part moves):

- queues: a thread inside a call keeps running, and a reader keeps calling (weak
  fairness of each thread). Nothing obliges anyone to call `put()`.
- reporter: the thread keeps running; `get(0)` does not fail for ever, since a sender
  holds the mutex of the queue only for the time of a push, and a post that is
  tried again and again is answered in the end (strong fairness of `TakeNews` and
  `PostOk`). Without the last the network may be down for ever.
- device push: the thread goes on, the server serves and answers, a canceled post is
  aborted by the progress meter.
- MQTT: the thread goes on (its waits are bounded by select() timeouts), the clock
  goes on, the broker answers on a connection that is up, and a connection can be
  established in the end (strong fairness of `ConnectOk`).
- startup: the program goes on, the server answers what reaches it, and the program is
  started again after its end (`Goes`); messages may be lost, disks be full and the
  program be killed as often as the bound says, in any order.
- watchdog: the daemon and its clock go on, and a program that runs kicks; it may
  hang, crash or exit instead, and need not.

Nothing is assumed of callers: `sleep()`, `subscribe()`, `setCapacity()`, `Send`, breaks
and kills may stop or never come. `parts` and `lua` check safety only; `SilenceEnds` bounds the
seconds without a byte and so needs no fairness.

## 5. The proofs

Every theorem holds for all values of the constants that the named assumptions of its
module admit; TLC evaluates the assumptions on the values of every run.

| module | part | theorems | assumptions and hypotheses |
|---|---|---|---|
| `SrQueueProof` | queue | `QueueTypeCorrect`, `QueueIsFifo`, `QueueImplementsChannel`; `GetNeverEmpty` and `NothingStranded` where nobody calls `get(millisec)` | threads are disjoint sets, finite for the last two |
| `MCStoresProof` | queues of run `stores` | `PolledImplementsChannel`, `StoresQueueImplementsChannel`, `StoresGetReturnsAnElement` | the same |
| | file pager of run `stores` | `FileRunsAreWhole`, `FileRestartsWhereItStopped` | `Restrained`: no capacity above the first, block lengths and the page size have a common divisor above 1; no block longer than the file, kills between calls |
| `SrReporterProof` | reporter, memory pager | `ReporterTypeCorrect`, `CapacityRespected`, `NothingIsSentAgain`, `NothingIsLostUntilFull`, `FirstReadsAreInOrder`; `OneChunkLosesOnlyByEviction` where no capacity exceeds a chunk; `TemplatesAreRight` under `AllBuffered` | capacities of at least 2, a chunk of at least 1 |
| `MCReporterProof` | reporters of run `reporter` | `PagedNothingIsLost`, `PagedTemplatesAreRight`, `PagedFirstReadsAreInOrder`, `PlainLosesOnlyByEviction`, `PlainCapacityRespected` | the same |
| `MCThreadsProof` | watchdog | `WatchdogTypeCorrect`, `HealthyIsNeverKilled`, `HungIsKilledInTime`, `ExitStaysDown` | `Val >= 2 * Gap + 2 * MaxNap`, `MaxKicks < Wrap` |
| | startup | `CredentialsAreOfOneAnswer`, `UpIsRegistered`, `DeviceIsRegisteredOnce`, and in run `threads` `PartsUpAsRegistered`, `PartsRegisteredOnce` | none |
| | device push | `PushTypeCorrect`, `ConnectsAreInOrder` | no answer has its advice before its batch number |
| | MQTT | `MessagesAreHandedAsPublished` | no connection ends inside a PUBLISH |
| `MCPartsProof` | agent, timers | `TimersNeverEarly`, `TimersNeverLate`, `MessagesReadAsWritten` | a nap is no longer than a turn |
| | HTTP | `MeterEndsSilence`, `PartsMeterEndsSilence` | a period of at least a second |
| | logger | `RotationKeepsLines` | none |
| | binary HTTP | `HandleServesItsTransfer` | none |
| | paho client in C++ | `PublishedMessagesArrive` | `Cpp` |
| `MCLuaProof` | plugins | `CallbacksReachOpenPlugins`, `PartsReachOpenPlugins` | none |
| | counted pointers | `ObjectsLiveWhilePointedTo` | the program's pointers are finitely many |
| | references | `ReferencesStandForTheirValues` | none |
| | chains of registrations | `ChainsOwnTheirStack` | none |
| | registered classes | `ClassesAreAsRegistered` | the classes are finitely many |
| `SeqInduction` | sequences, repeated steps | `SetInduction`, `SequenceInduction`, `Iteration`, `FlattenEmpty`, `FlattenAppend`, `FlattenType` | none |

The theorems about a run's composition (`AllSpec`) follow from those of the part: a step of the
composition is a step of the part or leaves it alone (`AgentIsPart`, `QueueStepIs`, ...).

The hypotheses are what the code needs. `AllBuffered`: a message without `SR_PRIO_BUF` takes the
header line of its template with it, so that a buffered one behind it has none in the buffer
(`srreporter.cc` 577), and with room for two lines the eviction of the only message under a header takes the
header too; `TemplatesAreRight` therefore has all messages buffered and capacities of at
least 3. `"advice first" \notin Orders`: `process()` erases the batch number at the position it had before
the advice was erased (`srdevicepush.cc` 262), so that an answer that has the advice first is garbled.
`BreakInside = FALSE`: nothing clears `resp` when a connection is made, so that the head of a PUBLISH that
broke off takes the first bytes of the next connection for its body; with `BreakInside`
TLC finds `HandedAsPublished` violated.
`Restrained`: a restart sizes the flags by the first capacity and marks pages of a larger one past
their end (`srreporter.cc` 105), and line 254 lets a block one byte longer than the rest of its
page into it, which lengths with a common divisor never are; the run's lengths are even. The capacity may fall
and rise below the first, writes of pages may fail, and a kill may come between any two calls.
`OneChunk` and `Cpp` leave out what the runs `reporter_stale` and `paho_c` find violated.

The arguments:

- **Queue.** `Fifo` alone is not inductive: a push writes back what its thread has
  read of the container, which is right only if nobody has changed it since.
  `LockInv` adds that a thread between lock and unlock owns the mutex (`Exclusion`) and
  that its view is the container (`FreshView`). The refinement maps the container to
  the channel's and lets every other step stutter. `GetNeverEmpty` counts (`TokenInv`): the
  elements are as many as the tokens, the puts that have pushed but not posted, and the gets
  that have a token and no element yet. `get(millisec)` breaks the count, which is why these two
  theorems leave it out.
- **Reporter.** All rests on lemmas about the pager: `pop_front()` and eviction remove lines
  from the front but for a header that still has messages, so that lines keep their order and only move to
  the front. `GrowsWithinCapacity` needs that an eviction finds a header where it looks for one
  and removes at least a line. `BufferInv` numbers the messages: those of the buffer and of the chunk
  were taken from the queue, each once, in the order of sending.
  - `OneChunkInv`: between the prefetch and the answer all that is buffered is in what is
    sent, so that clearing the buffer forgets nothing. It fails with several chunks, which is
    the finding `reporter_stale`.
  - `ResendInv` and `LossInv`: while a chunk is being sent, its messages are within the first
    `Chunk` lines of the buffer or evicted; and, unless something was evicted, those lines hold nothing
    else. The first makes `pop_front()` remove all that was answered, the second nothing more.
  - `TemplateInv`: the buffer begins with a header and every message is behind a header or a
    message of its own template; so is what is sent, as a chunk begins where a header is or is put.
  - `OrderInv`: what was not read yet comes after all that was read, what is aggregated
    after the chunk in front, and what is not in a request after it. A message read
    for the first time is therefore the youngest, whatever is repeated or evicted.
- **File pager.** `PagerInv` speaks of the files as they will be when the pending operations are
  done (`Leads`): there the pages of the list keep the runs that are wanted (`Keeps`), and the index tells of the
  first `head.size` pages of the list (`IndexOK`). So a step of the files changes nothing, and a call only has to
  show what its own writes come to. A list is cut into runs where the flag changes (`Cuts`); `Holds` says what
  each run is made of, and every operation changes the list at one end: a page with the other flag
  begins a run, one with the same extends the last, the last page grows, the first run goes, and
  an index that is behind loses pages from the end. Within `push_back()` the pages of the block have its flag and
  the page before them has not (`OwnRun`), so that an eviction, which happens only when all pages are in
  use, removes an older run: the block has fewer pages than the file. The count of the head is right modulo
  65536 (`Counts`), and as there are fewer runs than pages and fewer pages than that, it is right.
- **Watchdog.** The daemon believes a kick to be younger than it is by up to a turn, and may
  miss the first one after a restart, because `shadow` is that of the last program. `Healthy`
  has a case for each of what the daemon can believe, and `Silence` bounds the
  distance between what it believes and what is.
- **Startup.** The words of the file need not agree while it is being written; but a file
  that has all three is of one answer (`Credentials`), and what is about to be written is.
  A post that creates something is reached only while the server has no identity for
  the device (`Registration`).
- **Device push.** An answer is a text of characters. That `process()` leaves the lines of
  operations whole is a fact about positions in a concatenation: the first occurrence of the
  advice or the batch number is where its line begins, and what is erased is that line. `PushInv`
  says which batch number the next connect acknowledges and that its operations are in the
  ingress queue, unless the push sleeps, after which it begins with a handshake; and that
  a connected session has its subscription.
- **MQTT.** The rest of the buffer and the wire are one stream (`OnItsWay`), which `recv()` only
  cuts elsewhere, whoever calls it. `RightStream` says that in it every head has its body behind it,
  that the numbers of the bodies rise and are greater than those handed over, and that both together are what did not go
  down with a connection. When a connection is given up the buffer ends with a whole message (`MqttInv`), so what
  is lost is an end of the stream. The property follows as two rising sequences of the same
  numbers are equal (`RisingAreOne`), with no bound on the numbers.
- **Agent.** `Clock` relates a timespec to the exact time (`due`), carries included; `Late`
  says how late an active timer can be, less so once the turn has looked at it (`Checked`):
  a turn starts each active timer that it finds due, whatever callbacks do. `ReadInv`: the batch in work from
  the line it is at, under the template announced last, and the batches in the queue are
  what the server meant and the agent has not read (`LinesRight`, `ReadFirst`).
- **HTTP.** `n` bytes cut the time since the post into at most `n + 1` spells, each no longer
  than the longest silence (`Spells`); an untouched meter looks at the end of every
  period, of which there were no more than bytes (`Looks`). So a transfer is ended
  only when a spell was as long as a period.
- **Logger.** Two files that follow one another may have nothing between them; `LoggerInv` says where a
  rotation is by which of the files exist, so that no rename replaces a file whose lines are
  not the oldest, and a kill leaves a state in which the next start appends (`Places`).
- **Binary HTTP.** `BinInv`: the handle's options are those that the transfer's beginning set,
  each transfer sets all that another may have left, and a form lives until its transfer ends.
- **Paho client.** An acknowledgement on its way is that of the message `publish()` waits for
  (`Owed`, `OwedOnce`): a command that fails ends the session, a session begins with a CONNECT
  that the server takes after all that was on the way (`Fresh`), and what is left of an earlier session
  owes nothing.
- **Plugins.** Code of a plugin runs only in a Lua state that is open, so that what it
  registers leads to one, and a state is closed only when the manager goes (`Reached`).
- **Counted pointers.** The count of an object is the number of its pointers and one for the pointer
  that is being released (`Counts`), positive while the object lives; a cascade of
  deletions goes through `todo`, and what is deleted has no pointer left.
- **References.** As long as none of the five slips has happened, `RefInv`: the slots of the registry that
  are not free are those of the variables that hold something, no two variables share one, the free list has every
  other slot once, and what a slot holds is what its variable stands for. An expression of several steps
  (a proxy pushes, calls, pops) is followed through the states of the stack, each of which leaves
  the registry as it was or hands one slot over; at its end the stack is the caller's.
- **Chains.** `ChainInv`: the last temporary owns all that is on the stack and the others nothing, as a copy
  takes over what it copies; and the static table of a class lies on the two others, so that `endClass()` finds
  three. That the sum of such numbers is the last is proved by induction over the subsets of positions, as
  `FoldSeq` adds in an order that is not known.
- **Classes.** `ClassInv`: the three tables of a class are made together, and their parents are the same tables of
  its base, or none has one (`Descends`); below the static table on the stack lie the other two of its class, so
  that what is added to a class goes where it belongs; a const table has only const functions and nothing to write with, and a
  static table has a key to write with if it has one to read. So the three lineages of a class run together along one
  way of classes, all of them its ancestors (`LineagesRunTogether`), and what is found first on the way is const where
  the object is, and read and written in the same class. The model walks up by a recursive function,
  for the three tables and for the ancestors the same number of steps; `Iteration` says what it computes.

Induction over data. The library's induction theorems take an operator as parameter, which the
provers cannot instantiate; `SeqInduction` states induction with a set in its place, proved from
`WFMin`, a well-founded order having minimal elements. The agent's batches and the push thread's
answers, which `FlattenSeq` concatenates, are reasoned about with it, and so are the messages in a stream of bytes.
`Iteration` says that a step repeated from any start is a function of the naturals, which is what a recursive function
needs to be the one that its equation describes.

Only model-checked: liveness, which the provers cannot take up (`ENABLED`); and `SrLexer`, `SrBase64`,
`MqttPacket`, `PahoTopic`, whose properties compare a recursion over a text with another, case by case of
the characters.

## 6. Where the code and its documentation disagree

Shown by a run:

- `reporter_stale` (`src/srreporter.cc` 799): with several chunks and a full buffer, a
  successful post removes a chunk that was not sent.
- `file_killed` (`src/srreporter.cc` 116): a kill inside a call empties the index, though the header
  promises that nothing is lost "in case of sudden outage".
- `mqtt_lost` (`src/srnetmqtt.cc` 173): any bytes count as the acknowledgement of a publish.
- `http_cancel` (`src/srnethttp.cc` 43): `cancel()` aborts only a transfer with few bytes.
- `mqtt_will` (`src/srnetmqtt.cc` 88): the will that `setWill()` keeps is never sent.
- `paho_resend` (`MQTTClient.h` 858): a failed publish forgets what a reconnect should send again.
- `paho_c` (`MQTTClient-C/src/MQTTClient.c` 529): a late acknowledgement is taken for that of the
  next publish.

Found while modelling, each excluded by a named switch or by the reach of a model:

- Reporter: a header line is buffered only with the message that changes the template
  (`srreporter.cc` 577), so that lines come back under another template (`PagedPrios`). `sleep()`
  is not looked at in the first round.
- File pager: a block that is one byte too long is appended (254, `Lengths`); a block longer than
  the whole buffer evicts its own pages, and `head.cnt` falls below zero; a capacity raised
  inside a call gives out pages past the flags (343, `GrowInside`); an index with page numbers above the number
  of pages is read past the flags (105); a failing write leaves the count wrong, which
  an eviction may take below zero.
- Device push: `subscribe()` during a handshake is forgotten, `sleep()` during one is
  overwritten (`srdevicepush.cc` 222); `resume()` of a push that does not sleep starts
  a new session, where `srdevicepush.h` 102 says that it "has no effect"; an answer with
  the advice before the batch number is garbled (262, `Orders`).
- Bootstrap: the password is taken as whole when the file ends inside it.
- MQTT: `yield()` ignores that `recv()` failed, so without keep-alive a broken connection
  is noticed by a publish only (`KeepAlive`); a CONNACK after the timeout leaves a connection without
  a subscription (`LateAnswers`); the rest of a PUBLISH that broke off stays in the buffer
  (`BreakInside`); when only the first byte of a PUBLISH has arrived, `_schedule()` returns -1
  and the loop steps back before the buffer (526). `addMsgHandler()` inserts behind an equal
  topic, so that a second handler is never called and NULL does not clear the first
  (`srnetmqtt.h` 263-274).
- Packets: `MQTTPacket_readnb()` counts calls instead of bytes of the remaining length, and
  does not finish a packet without a body; `connect()` does not look at the -2 of
  a serializer whose buffer of 200 bytes is too small.
- Clients: `subscribe()` returns 0 for a filter that the broker refused, and for one
  the table of handlers has no room for; the C client compares no ids.
- Lexer: a quoted value without its closing quote is read past the end of the text.
- Agent: a timer's callback that calls `addTimer()` invalidates the loop's iterator.
- LuaBridge: the five kinds of expressions in the header of `LuaRef` (`Proxy::rawget` at `LuaRef.h` 379
  has the unnamed `StackPop` that line 73 warns of); raw and metamethod access are swapped in
  `Proxy::operator=` and `rawset`; `RefCountedPtr.h` 147 releases before it reads; the count of the
  null pointer only grows; a read-only member over a writable one of the base is
  written through to the base; `addFunction()` of a function pointer puts it with the
  static ones (`Namespace.h` 805-816); the metatable is set before the constructor has run; a class
  registered under two names no longer knows its older objects; `Namespace.h` 480-491
  asserts for a class that is reopened though it says "Open a new or existing class",
  and `addVariable()` on the global namespace asserts; `is<T>()` of a const object raises an
  error instead of returning false.

## 7. What is left out

- Capacities 0 and 1 of the memory pager, where the code erases past the end; blocks longer than the
  file; failing writes of the index, and indices of another format.
- The reporter over the file pager: `SrReporter` has the memory pager.
- Device push: the race of two threads on the string `xids`, the texts of errors, `start()` and
  the destructor.
- `SrNetMqtt`: `unsubscribe()`, `disconnect()`, the list of handlers, and a header of a PUBLISH that
  is cut.
- Watchdog: a failing `shmget()`.
- Plugins: registering names in `init()`, and bindings that pass their arguments on.
- paho: code for QoS 2, which the default build leaves out; `MQTTFormat.c`, which writes texts for
  debugging; wrappers of operating systems; a timeout in the middle of a packet.
- LuaBridge: the conversions of `Stack.h`, and `FuncTraits.h`, `TypeList.h`, `TypeTraits.h`, `Constructor.h`
  and `Iterator.h`, which the compiler evaluates.
- The other examples, tests, tools and documents; they show how the library is used.

## 8. The plan

Done: every component of the SDK has a model with its properties, and so have the packets and
clients of paho and the core of LuaBridge. The queue, the reporter with its memory pager, the file pager, the timers and the
dispatch of the agent, the watchdog, the startup, the device push, the MQTT client, the logger, both HTTP transports,
the paho client, the plugins and, of LuaBridge, the counted pointers, the references, the chains of registrations
and the registered classes have proofs.

Next, in this order:

1. The reporter over the file pager: `SrReporter` with the pager as parameter.
2. Failing writes of the index, and indices of another format.
3. The lifetime of `SrDevicePush`, the list of handlers and the header of a PUBLISH byte by byte.
4. The conversions of `Stack.h`.

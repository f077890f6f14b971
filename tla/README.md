# Verification of the evolutionary assembly system

TLA+ models, TLC runs and TLAPS proofs about the repository's virtual machine
(`Cpu`), the watchdog thread that runs programs on it, the genetic algorithm
(`Evolutionary Assembly`) that evolves those programs, and the HTTP client and
server the repository carries (`Simple-Web-Server`).

## Inventory

| part | code | state | operations | who it talks to |
|---|---|---|---|---|
| watchdog | `Cpu/include/CpuThreading.h` | `isCompleteZ`, a detached `std::thread` | `runProgram`, `killThread`, `isComplete`, `sleepUntilComplete` | starts one worker per run, sets the VM's interrupt flag |
| virtual machine | `Cpu/include/Cpu2.h` | registers, flags, memory, graphics, `mp`, `gp`, `ip`, `interruptz` | `reset`, `setMemory`, `runProgram`, `executeOp`, `interrupt` | executed by the worker, prepared and read by the driver |
| assembler | `Cpu2.h` (`assemble`, `addToProgram`), `Cpu.cpp` | label table, operand types, output position | two passes over the text | writes the byte buffer the VM fetches from |
| genetic algorithm | `Genetic.h`, `Genetic.cpp` | `dna`, `costs`, `population`, `bestDna` | `train`, `geneticOperations`, random and mutated lines | assembles each species and has it run on every sample |
| helpers | `Common/helper.h` | a random generator | `irand`, `frand`, `between`, string functions | used by all |
| spiking neurons, perceptron | `Machine Learning Stuff` | weights, spike times, phases | `tickWithSTDP`, `pruneWeakConnections` | nobody |
| cellular automata, CUDA and test experiments | several | - | prototypes | nobody |
| HTTP client | `Simple-Web-Server/client_http.hpp`, `client_https.hpp` | pool of connections, a session per request, a timer per connection | `request`, `stop`, destructor; handlers from `connect` to `read_*` | Asio's `io_service`, the application's callback |
| HTTP server | `server_http.hpp`, `server_https.hpp` | acceptor, set of connections, a session per request, a timer per connection | `start`, `stop`, destructor; handlers of accept, handshake, reads and writes | Asio, the application's resources |
| Response | `server_http.hpp` (`Response`) | stream buffer, send queue | `write`, `send`, the deleter, handlers of its writes | the server that gives it to the application |
| ScopeRunner | `utility.hpp` | one atomic counter | `continue_lock`, `~SharedLock`, `stop` | every handler, both destructors |
| HTTP messages | `utility.hpp`, `create_request_header`, `write_header`, `HeaderEndMatch` | - | encode, create and parse | client and server |

Data flows down (`train` -> `applyDna` -> `assemble` -> bytes) and back up
(`getResult` -> watchdog -> VM -> registers -> `cost`).  The only concurrency
there is between the driver's thread and the worker of the watchdog: two atomics
are all they share by design, and everything else in the machine is shared without
a lock.  The web library is a second system beside the first, joined to it by no
call: application threads and the threads of an `io_service` meet in a pool (client),
a set (server) and a queue (Response), and the destructors meet all of them in
ScopeRunner.

What is hard, and what makes each part correct:

* **watchdog** - the kill races with the end of the run, may be repeated, may
  come before the worker starts.  Driver and worker must never be in the machine
  together; an in-time answer must be a whole run; only an overdue run may be cut;
  `sleepUntilComplete` must return though the program never ends.
* **virtual machine** - any sequence of instructions is legal input: pointers
  hold arbitrary words, jumps land anywhere, branches are arithmetic.  No access
  may leave an array; what is executed must be what was assembled; a forward-only
  program must end; `reset` must make runs independent.
* **genetic algorithm** - index arithmetic over ranks and species in place, while
  programs grow and shrink.  No program may become empty; offspring must not take
  the elite's places; the cost must stand for all samples; the winner reported
  must be the program that won.
* **assembler** - the text must become the instruction whose `case` does what the
  mnemonic says; labels must resolve to instruction boundaries.
* **client** - what the network answers, a timer, another request, `stop` and the
  destructor may come between any two handlers of a session.  No two requests may
  use one connection; a request may be repeated, but not once it was answered; a
  connection in use must have somebody who gives it back; every request must come
  to its last callback.
* **server** - the same for connections that peers open: the set of plain pointers
  must be exact, the accept loop must not end, nothing may wait without a timer,
  `stop` must close what is served, and after the destructor nothing may go on.
* **Response and ScopeRunner** - writes must not overlap on the socket, what goes out
  must be what was written, every callback must be called once and truly; the
  destructor must wait for handlers and keep out later ones.
* **messages** - one side must read what the other has written, in particular where
  a header and a content end.

## Modules

### TimedRun, CpuThreading, CpuThreadingProofs, MCCpuThreading

`CpuThreading` has one action per access to `isCompleteZ` and `interruptz` and per
decision of the two threads.  `sup` and `wrk[w]` are the program counters:

| code | actions |
|---|---|
| driver: `applyInput` (Genetic.h) or `setMemory` (src/Cpu/src/main.cpp) | `ApplyInput` |
| `runProgram` 55-75 | `ClearComplete`, `Spawn` |
| `sleepUntilComplete` 93-112 | `PollComplete`, `PollPending`, `CheckClock`, `KillThread`, `Expire` |
| driver reads the registers | `ReadResult` |
| `subThreadRunThing`, `CpuSimulator::runProgram` | `StartRun`, `TestIp`, `LoadInterrupt`, `ClearInterrupt`, `ExecuteOp`, `StoreComplete` |

`Workers` may hold several threads, so that "one worker at a time" is a result and
not an assumption.  What a program computes is abstracted: an instruction moves
`ip` anywhere.  `CallerResets` and `DoReset` choose the driver: `Genetic.h` resets
before each run and drops the registers of a late one; `src/Cpu/src/main.cpp` does
neither; `runProgram(code, len, true)` resets in the worker.  `ending` is a history
variable: whether the loop ended at the program's end or at the interrupt.
`isStarted`, `isDoneDying` and `init` are left out, since nothing reads them.

`TimedRun` is the promise without threads: a request is answered with the
registers of a whole run or, once the limit has passed, with zeros.
`CpuThreading` implements it (`PromiseSpec`) with `phase` mapped from `sup` and
`expired` masked until `sleepUntilComplete` is entered.

### CpuWords, CpuFloats, CpuVM, CpuVMProofs, MCCpuVM

`CpuWords` is the integer type (`Wrap` is the wrap-around of the build's signed
arithmetic), the bytes of an instruction and their decoding, which starts from an
uninitialised variable.  `CpuFloats` is the division of `jmp_range_check`: target and
size are converted to `float`, divided, and the quotient is truncated.  A `float` is an
integer of `FloatBits` binary digits times a power of two, and both roundings are to
the nearest, ties to even (`Nearest`).  The result times `getOpSize()` is an `int` again,
which can overflow (`Landing`).  `CpuVM` is the machine: `Case` (in `CpuOps`) reads the
switch of `executeOp` as a table (what is done, destination, source), and the actions
`Assign`, `Compare`, `Jump`, `NoEffect` execute it over the real state, pointer
check included.  `shl` and `shr` are in `NoEffect`: the code computes a value and
drops it.  Undefined behaviour (an index outside `registers` or `flags`, a negative
`ip`) leads to the status `undefined`; `WellFormedIsRobust` says which programs
never get there.  `NextSample` is the genetic algorithm's second run of the same
program after `reset()`.

### CpuOps, Assembler, AssemblerProofs, MCAssembler

`CpuOps` holds the opcodes from both ends: `opMap`, `opArgs` and `opOffset`, with
which the assembler adds up an opcode, and `Case`, the switch of `executeOp` that
takes it apart.  `Assembler` is `assemble`: one action per branch a token can take,
run twice over the text.  The characters are abstracted to tokens; line ends are
white space to the assembler and are kept only so that the properties can say what
a text means (`Regular`, `Performs`).  What outlives an instruction or a pass in the
code (`left`, `right`, the operand values, `labels`) does so in the model.  `outcome`
names the message of the `return 0` taken.

| code (Cpu2.h) | actions |
|---|---|
| 1362-1428, `opI == 0` | `DefineLabel`, `BaseOp`, `Nop` |
| 1429-1478, `opI == 1` | `JumpTarget`, `NotOperand`, `LabelOnTheLeft`, `LeftOperand` |
| 1479-1503, `opI == 2` | `RightOperand` |
| the `return 0`s | `Reject` |
| 1507-1536, the end of a pass | `SecondPass`, `Finish` |

Two behaviours are in the model and excepted from the properties: `jmp r3` is
assembled as `jmp r0` (`atoi("r3")` is 0), and a text that ends in a comment
without a newline returns a size without any code (`openComment`).  Macros cannot
be defined at all: the first pass knows no `#define`.  Numbers beyond an `int` are
left out.

### Genetic, GeneticProofs, MCGenetic

`train`, `cost` and `geneticOperations` with every random draw a choice.  Lines are model
values, and the registers that a program leaves on a sample are a constant operator
(`Result`; `Expected` is `y`), which is to say that an answer depends on nothing else (see
the divergences of the machine).  `SampleCost` is `cost`: a sum of `abs` of differences,
each an `int` that can overflow.  `judged` remembers the programs as they were when
the costs were taken.

### HttpClient, HttpClientProofs, MCHttpClient

One action per handler; a session's `stage` is the operation it waits for and `ec`
how that has ended (`pending`: not yet).  A completed operation waits for its handler
(`Succeed`, `Fail`, `Cancelled`), so that a timer, `stop` or another request can come
between.  `session->callback` is two steps (`Callback`, `EndCallback`), because it
clears `in_use` before it takes `connections_mutex`; in between `io` says that the
`io_service` thread is in it.  After `HeaderThrows` the exception has left
`io_service->run()`; the application is assumed to catch it and to call `run` again.
An error that ends a body read to the end of the connection may be `eof`, which is none
(`EofRead`), or another (`BodyFailed`).

| code | actions |
|---|---|
| `request`, `get_connection`, `connect` | `Request` |
| `connect` and `handshake` of http and https | `Connected`, `ConnectFailed` |
| `write`, `read` | `RequestWritten`, `HeaderRead`, `HeaderEnds`, `EventsOpened`, `HeaderThrows` |
| `reconnect` | `Reconnect`, `ExchangeFailed` |
| `read_content`, `read_chunked_transfer_encoded`, `read_server_sent_event` | `ContentRead`, `EofRead`, `ChunkSizeRead`, `ChunkRead`, `EventRead`, `BodyFailed` |
| `set_timeout` and its handler | `ConnectTimer`, `Expire`, `TimerFires` |
| `stop`, `~ClientBase`, handlers after it | `Stop`, `Destroy`, `Dropped` |

The library is for one thread in `io_service->run()`, which is assumed.  Content is
abstracted to parts.  `Route` lists the operations of each kind of client; an https
client with `proxy_server` has two more.

### Gate, ScopeRunner, ResponseSend, ResponseSendProofs, MCResponseSend

`Gate` is what the destructors rely on: threads go in and out, it closes only when
nobody is inside, and nobody enters afterwards.  `ScopeRunner` has one action per
access to the atomic counter, a weak compare and exchange that may fail included.
`ResponseSend` extends it: a Response that an application writes to (`Write`), sends
(`SendMove`, then `Enqueue` under the mutex) and lets go of (`LetGo`, then `Delete`, its
deleter), and the handlers of its writes (`Dispatch`, `Enter` or `TurnedAway`,
`ChunkWritten` or `ChunkFailed` or `LastWritten` under the mutex, `CallBack` without it,
`Leave`).  The calls on one Response come one after the other, since an ostream is not
for two threads.  `GateSpec` says that the whole implements `Gate`, with the threads
inside a scope and `count = -1` for its two variables.

### HttpServer, HttpServerProofs, MCHttpServer

One action per handler: a connection has one operation outstanding at most, so its
handlers do not meet each other; what they meet are the timer (`TimerFires`,
`TimerHandler`), `Stop`, `Destroy`, the application's `Release` of the Response, and the
two steps of a connection's own deletion (`Drop` takes it out of the set, `Free` lets its
address be used again).  `Accepted`, `AcceptEnded`, `Handshaken`, `HeaderRead`, `ContentRead`,
`ChunkSizeRead`, `ChunkRead`, `ChunkEndRead`, `Written` are the handlers of the operation they
are named for, `FindResource` and `Upgrade` what the last read ends in.  `fate` and `late` are
history: who took a connection out of the set, and whether its accept was done when
`stop` came.  `timeout_request` and `timeout_content` are those of the configuration, and
`set_timeout(0)` sets no timer: what the two liveness properties say of a wait is said
where its timeout is not 0.  `on_error` is called unguarded after the end of a chunk
(`ChunkEndRead`); the application is assumed to set it, or to call `run` again.  With an
internal `io_service` `start` returns before the server is
destroyed and no Response is held then; both are assumed.

### SetInductions

Lemmas that the proofs about the machine, the assembler, the training, the client and the
messages cite: induction over the natural numbers for a property given as a set, the least element of a set of
numbers, powers of two, and that a function can be defined by recursion over an
interval.  It has no variables.

### HttpMessages, MCHttpMessages (proofs in HttpServerProofs)

Texts are sequences of bytes.  Each function of `utility.hpp` is an operator; where the
code scans, the operator folds over the text with the code's positions as its
accumulator.  The harness grows texts one part at a time, of the bytes a function
treats differently, and the properties compare with a reference: the pieces that end at
each separator, the fields and attributes that were written, the first empty line.  `MessageInit` and
`MessageSpec` grow the texts.  `HeaderEndMatch` is a step (`Match`) that the header is
folded with.  Which of several header fields with one name `find` returns is left open.

## Runs

| run | what it shows | bounds |
|---|---|---|
| `watchdog_genetic` | no overlap; implements `TimedRun` with its liveness: in-time runs are whole, only overdue runs are cut | 2 threads, 3 instructions; behaviours are unbounded |
| `watchdog_worker_reset` | in-time runs are whole and the driver always gets its answer although a kill may be lost | same |
| `watchdog_stale_interrupt` (violation) | the driver of `src/Cpu` has a run cut by its predecessor's interrupt | same |
| `vm_programs` | type correctness, robustness, decoding, termination, alignment, independence of runs | all programs of 1 or 2 of 30 instructions and branch programs of 3, one program whose last byte is a jump, jumps to 8 far targets, two-byte words and floats of 12 digits, 6 instructions a run, 2 runs |
| `assemble_texts` | the opcode the assembler adds up is the case that does what the line says, with labels at their addresses; documented lines always assemble | every line of `opArgs` types before and after 33 others, label texts up to 4 lines, odd lines up to 3 |
| `train_generation` | programs stay non-empty, the elite breeds unchanged, high-numbered elite survives mutation, a perfect program ends the training unless an `abs` overflows | 4 species, 2 elite, 2 samples, 2 registers of one byte, programs up to 3 lines |
| `client_requests` | no connection is used twice or lost, the pool shrinks, `stop` reaches what it should, a broken exchange is repeated once and never after an answer | 2 requests at a time, 2 connection objects, 1 part before the last |
| `client_answers` | every request is answered | 3 kinds of client, 2 requests one after the other |
| `response_send` | writes do not overlap, what is written goes out in order, callbacks are true and complete, `Gate` is implemented | 2 `io_service` threads and the destructor, 3 writes, 2 sends |
| `server_connections` | the set is exact, accepting goes on, all waiting ends, `stop` closes, nothing outlives the destructor | 2 connection objects, http and https, internal and external `io_service`, 2 starts, the default timeouts (the run passes with either or both 0, too) |
| `server_stop` (violation) | a connection accepted but not yet handled is served after `stop` | 3 connection objects, external `io_service` |
| `http_messages` | what one side writes the other reads | texts of 5 to 10 parts |

A type invariant is a property of a run where nothing deeper implies it; those of the
other components are parts of the inductive invariants of their proofs.

Why the bounds are enough.  In the watchdog a run is a loop over the same three
worker steps, so a program of three instructions already has every order of kill,
test and end; one run's leftovers can only affect the next run's start, and runs
repeat for ever.  A word of two bytes is the smallest in which the top byte of a
small operand is a sign byte, as in the four-byte `int`, which decides what a jump
into the middle of an instruction executes.  A `float` of 12 digits for words of 16 is
what 24 are for 32: the quotient is rounded up from 4099 on, and the far targets are
the least of these, the greatest and least whose product is a word, and the first and
last beyond.  Without the premise `ConstantJumps` both jump properties are violated there:
`jmp 32764` loops at 0, `jmp -32768` lands on the last byte.  Two runs are enough for what `reset`
leaves behind.  In the assembler only operand types, operand values and labels pass
from one line to the next, so pairs of lines meet every leftover; a label, its use,
what comes before the use and one line more need four.  Four species with an elite of two are the smallest population with
the shape of the driver's 20 and 10 (two different parents, two different
offspring, mutation of exactly as many species as are elite).  A word of one byte is
enough for a difference of -128; one of the programs has it, and without its exception
`PerfectEndsTraining` is violated by a generation that has a perfect program and a lowest
cost of -128.  In the client two requests are
enough for every way of sharing a connection, and two connection objects for the pool's
"all but one"; of a third request the proof of `OneOwner` found the one effect that two do not
have (see the divergences), and the theorem holds for any number.
One part before the last is enough to tell the first callback from the last.  In a
Response a second `io_service` thread meets the first one's handler while it calls
callbacks, and a third would wait for the same mutex; two sends and a rest are what
the queue and the deleter can disagree about (the theorems hold for any number).  On
the server one connection is served while the other is accepted; connections share only
the set, the acceptor and `stop`.  In the messages each scan has at most four states, and
texts are longer than that.

Fairness.  `watchdog_genetic` and `watchdog_worker_reset` assume weak fairness of
the driver's thread, of each worker thread and of the clock: the operating system
runs runnable threads and time passes.  Nothing is assumed of the program.
`client_answers` assumes that the `io_service` runs handlers that wait in its queue
(which is first in, first out; hence strong fairness: a handler may be held up by
another again and again, not for ever), that armed timers expire, that a resolver
answers, and that an operation on a socket that was shut down ends.  It assumes nothing
of the peer.  `response_send` assumes weak fairness of each step of each thread, that a
write ends (by the peer or by the timer of the content), and strong fairness of the
compare and exchange, which competing threads can make fail again and again but not
for ever.  `server_connections` assumes the same of handlers and timers as the client,
that an operation on a closed connection ends, and that the application lets go of its
Responses once the server is destroyed.  None of the three assumes that a peer ever
sends, reads or answers.
Deadlock is checked for the watchdog; the virtual machine and the training end, so
there it is not, nor for the client, the server and the Response, which rest when there
is nothing left to do, nor for the growing texts.

## Known divergences

What the code does and its comments, documentation or names do not say.  The models
behave as the code; where a property has an exception, it is for one of these.

* Watchdog: with a driver that does not reset, a late kill cuts the next run
  (`watchdog_stale_interrupt`).
* Machine: `reset` keeps `mp`, `gp` and `graphics` (Cpu2.h:446 "put everything back to
  default"), so an answer can depend on the sample before.  A jump past the end is
  clamped after rounding and lands on the last byte of the program (Cpu2.h:1170 "always
  round down").  That byte is part of an operand; where it reads as a jump, a program all
  of whose jumps are forward can run for ever (`ForwardOnly` excepts it; the proof of
  `ForwardProgramsEnd` fell through here).  `jmp_range_check` divides in `float`: a target
beyond 2^24 can be rounded up by more than an instruction, and close to the limits of an
`int` the product with `getOpSize()` overflows: `jmp 2147483646` goes to 0, and a program
that only jumps forward runs for ever; `jmp -2147483646` goes to the last byte
(`ConstantJumps` excepts both; registers may still jump there).  `cmp` with flag 0 reads the flag it has just written: greater and equal
  at once.
* Training: `geneticOperations` mutates before `bestDna` is taken, so that the program
  printed as the winner need not be the one that cost nothing; `cost` keeps the last
  sample's cost only (Genetic.h:129 speaks of an average).  `abs(expected[i] - result[i])` is
  an `int`: a register that is INT_MIN away from what is wanted costs -2147483648, and its
  program is sorted before a perfect one, so that the training goes on
  (`PerfectEndsTraining` excepts it).
* Assembler: in the first pass a jump to a later label is sized by the operand types of
  an earlier instruction; it may swallow the label's own definition.
* Client: an event stream is opened with `content.end` still true, so its connection is
  given back and its timer stopped while the session reads on; when the stream ends the
  connection is given back again, even if another request has taken it, so that a third
  can take it as well (`OneOwner` excepts connections a stream has given back).  `in_use` is cleared
  before `connections_mutex` is taken; another request can take the connection, and
  lose it from the pool to the first one's error.  `timeout_connect = 0` means no timer,
  although client_http.hpp:142 says that `timeout` is used; the resolver of https has
  none at all.  A timer whose handler is queued closes the connection under the next
  request, which then fails without a retry.  A Content-Length that is no number throws
  out of the handler.  Bodies read until the end of the connection, and event streams,
  are not reached by `stop`.
* Server: see `server_stop`.  After `stop` and another `start` on an external `io_service`
  there may be two accept chains (`NeverDeaf` allows as many as starts).  The responses
  with status 413 have no deleter and are never sent.  `set_timeout(config...)` at
  server_http.hpp:541 is called before `continue_lock`, on a server that may be destroyed;
  `on_error` is called unguarded at 676 and 695.  A request without a resource ends its
  connection without an answer.  During `on_upgrade` the timer is still set, and closes a
  socket that has been moved away.
* Response: a handler turned away by the destructor leaves its queue unsent, and the
  deleter sends what was written later: the peer sees a gap.
* Messages: an attribute `a=` followed by `;` takes the next attribute for its value, `;`
  ends a quoted value too; `HeaderEndMatch` loses its place at two CRs; a request line
  that ends in LF only loses the last character of its version; the server compares
  `chunked` without case, the client with.

## Proofs

`CpuThreadingProofs` proves for any set of threads, any program length and every
combination of resets:

* `TypeCorrect`, `NoOverlap` - no assumption;
* `InTimeRunsAreWhole`, `CutRunsAreOverdue` - assuming a reset by the caller or the
  worker; without one the run `watchdog_stale_interrupt` refutes the second;
* `Refinement` - the safety part of `TimedRun`, assuming the caller resets.

None of the properties is inductive: that no two workers exist depends on
`isCompleteZ` having been cleared before the thread was created and on no thread
being left once it is set (`CompleteIsQuiet`); that an in-time run is whole depends
on where a raised interrupt can come from (`InterruptIsOwn`) and on the history
variable being set exactly when the loop is left (`EndingKnown`).  `IInv` is their
conjunction; TLC confirmed it inductive on small instances before it was proved.
Liveness under fairness stays with TLC.

`GeneticProofs` proves about the training, for every population and elite size,
set of genes, sample and generation count and whatever registers programs leave:

* `ProgramsSurvive`, `EliteBreeds`, `HighElite` - from the assumptions on the
  constants (the elite is not empty and not everyone; initial programs are not
  empty);
* `TypeCorrect`, `PerfectAlwaysEnds` - assuming besides that registers hold `int`s
  (`RegistersAreInts`); that costs are integers, and that a cost is negative only where a
  difference is INT_MIN, is proved from the code's arithmetic (`AbsBounds`, `CostBounds`).

The lemmas say that each edit of a program gives a program (`SplicedIsProgram`,
`InsertedIsProgram`, `ErasedIsProgram`, `RewrittenIsProgram`).  The invariant adds
what the properties rest on: where each loop counter is while its loop runs, and
that costs are stored in the order of the species, so that a sorted rearrangement
gives each species exactly one rank (`SortedOncePerSpecies`, by counting).  Only
then is it certain that a loser's place is not the elite's.  `PerfectAlwaysEnds` adds what
the costs are worth (`CostsAreTrue`): while the samples are judged, `costs` has the last
cost of each species that is done, and after sorting the first is the least, by induction
over the ranks (`FirstIsLeast`); a perfect program costs nothing on the last sample, so
training goes on only with a negative cost before it (`FirstIsJudged`).

`CpuVMProofs` proves about the machine, for every word size, size of the arrays, set of
programs and noise that four assumptions allow (`WordBytesAssumption`: a word has a byte
at least; `SizesAssumption`: no array is empty, and `memory` and `graphics` can be
addressed by a word; `FloatBitsAssumption`: a `float` has three binary digits less than a
word, and enough for the size of an instruction; `ProgramsAssumption`: a program has
2^(`FloatBits` - 1) bytes at most, 2^23 in the build, where the buffers have 0xFFFF; the
`#define`s of Cpu2.h and an `int` are far from these limits):

* `TypesAlways`, `FetchAlwaysProgram` - the bytes of a word give the word back, whatever
  was in the variable that they are decoded into, by induction over the bytes;
* `WellFormedAlwaysRobust` - the invariant (`Steady`) is where a well-formed program can
  be: at the start of an instruction, at the last byte, or just behind the program; and
  that the two flags jumps compute with hold 0 or 1 while it can still jump.  The
  lemmas about the pointer check rest on division with remainder;
* `AlwaysAligned` - for programs whose jumps stay inside, `ip` is at an instruction.  What
  the float division does is in `FloatQuotientBounds` and `QuotientBounds`: it is exact
  for a target as small as an address of the program, a larger one stays behind every
  address, and a negative one does not become positive - but where the product overflows;
* `ForwardAlwaysEnds` - `ip` is past as many instructions as were executed (`Progress`),
  or on the last byte, and what is executed there ends the run.

* `ResetAlwaysForgets` - compares the answer of a second run with that of the first, of
  which only the answer is left.  What makes it provable is that a run that starts from
  `reset`'s state is a path: `After` gives each state its only successor, so that there is
  one path of each length (`Path`), it ends at most once, and two ended runs of one
  program and sample have ended in the same registers (`PathInv`).

`AssemblerProofs` proves for every set of texts of any length, and every word size, that
`TextsAssumption` allows (a text is a sequence of lines that are not empty, and a token is
what the tokenizer can make of a word):

* `AssembledIsMeant` - the code does what the text says, line by line, with every label at
  its address;
* `RegularIsAssembled` - a regular text is never rejected.

One half is about tables: for each of the four forms of an instruction, the opcode that
`opMap`, `opArgs` and `opOffset` add up to is taken apart by `Case` into the same mnemonic
and operands (`MovCase`, `FamilyCase` and the lemmas around them); it is arithmetic, not
enumeration.  The other half is the two passes.  The invariant (`Inv`) says at every token
which line it belongs to and what of it has been read (`Reading`, with the positions of
lines in the text from `Layout`); that the labels before it have their addresses, and in
the second pass all of them (`LabelsRead`); and that the code so far is that of the lines
so far (`Translated`).  What is left over from earlier lines is in it, too: after a jump to
a number the left operand's type is a number, which is what decides whether the size of a
jump to a later label is right.  `Regular` was not strong enough as it was first stated:
the proof stopped at a line of more than three tokens whose last ones begin another
instruction, and at one that does not begin with a word; documented lines have neither.

`ResponseSendProofs` proves for any finite set of threads that the counter is the number
of threads inside until it is closed (`CountIsAlwaysExact`) and that ScopeRunner
implements `Gate` (`ImplementsGate`).  The second needs the first, and that a `stop` that
has returned has closed the gate (`RunnerInv`): the compare and exchange with 0 says
something about threads only because the counter counts them.

It then proves for any number of `io_service` threads, writes and sends:

* `ResponseHasGate` - every step of a Response is a step of ScopeRunner or none, so the
  gate, and the exact counter, carry over;
* `WritesAlternate` - no two writes are on the socket at once;
* `RestAlwaysLast` - the deleter sends when the queue is empty, or the server destroyed;
* `TypeIsAlwaysOK`.

That writes alternate is not inductive: a write is started when the queue was empty, so
the queue must not be empty while a write is on the socket or its handler has not run
yet.  The invariant `SendInv` is a token that is passed on: at most one operation is
started and not yet handled (`TokenInv`), it belongs to the first chunk of the queue or
to the deleter (`FirstInv`), there is one as long as there is a queue (`QueueInv`, until
the gate is closed), and the deleter runs only once nobody holds the Response
(`DeleteInv`).

* `CallbacksAlwaysTrue`, `WireAlwaysWhatWasWritten`.

They rest on `AnswersInvAlways`.  The queue is a run of consecutive numbers that ends with the
last chunk sent (`OrderInv`), so "has left the queue" is a comparison of numbers; each
number is with the queue, or in the callbacks of one thread, or has been called, and in
one of these only (`OnceInv`); an operation carries the data of its chunk, and when it
succeeds that data is out (`TruthInv`).  For the wire (`WireInv`) there are cuts, one for
each call of `send`: a chunk is the piece of what was written between two cuts, the stream
buffer is the rest, and the wire reaches the start of the operation under way or, when
it has succeeded, its end.  When an operation is passed on, the end of one chunk is the
start of the next; that is why nothing is left out.  Once the gate has closed only the
order is left, and once the connection is broken nothing more goes out.

`HttpServerProofs` proves for any number of connections, requests, starts and stops, and
for every kind of `io_service` (`ServerInvAlways`):

* `SetAlwaysExact` - the set of plain pointers holds the connections that exist;
* `AlwaysAccepting` - a server that listens waits for a connection, with no more accepts
  outstanding than starts;
* `StopAlwaysCloses` - what is still open after `stop` was accepted and not handled;
* `ServerTypes`.

`ServerInv` adds to the properties what they rest on: an accept that waits belongs to an
acceptor that is open, a connection with an open socket is one that `stop` would find in
the set, or was accepted before (`OpenInv`), and each start has left one accept at most,
however often the server was stopped in between (`AcceptInv`, by counting a finite set).

The same module proves about the messages, for texts of any length:

* `HeaderAlwaysEndsAtEmptyLine` - the client finds the first empty line.  A fold is a
  function on sets of positions that its definition chooses; `MatchesExist` shows that there
  is one, and `HeaderEndScans` that it reads a text from the left.  What the two counters
  know after some characters is an equivalence for each of their values (`Scanned`), and
  `MatchStep` its step: `crlfcrlf` is the length of the longest beginning of an empty line
  that the text ends with, as long as no two CRs come together;
* `ContentAlwaysDelimited` - where the server keeps the connection open, its header says
  where the content ends, in the way the client reads it.  A first proof did not need the
  premise that `Transfer-Encoding` is given once; that showed the model of `find` to be too
  kind (it found the value it looked for among several), and it was corrected.
* `ClientAlwaysReadsResponse`, `ServerAlwaysReadsRequest` - what one side writes is what
  the other reads, for every status, value, path and query of the bytes that
  `PartsAssumption` allows (no line ends; in a target no blanks).  The argument follows the
  parser.  `FirstLine`: a text that has an LF is the line before it and the lines of what
  follows, by the same induction over a fold as above.  `LinesOfField` and `FieldIs`: a
  field that has been written is one line, and is read back as its name and its value
  without leading blanks, wherever colons and blanks stand in the value.  `FieldsUpTo`:
  the empty line, which is a CR by then, ends the fields.  `StatusLineIs` and
  `RequestFinds` give the place of each part of a first line, `TargetSplit` the place of
  the first question mark in the line from its place in the target.  The number of fields
  is the one the client and the server put in there;
* `EncodingLosesNothing` - `Percent::decode` gives back what `Percent::encode` was given.
  `CodeIs`: a byte's code is itself or a percent sign and two digits; `CodeDecodes`: decoding
  a code that is followed by anything appends its byte and leaves nothing to skip.  The
  induction is over the beginnings of the encoded text, which `FlattenedParts` cuts at the
  codes;
* `QueriesReadBack`, `QueryAlwaysItsPairs` - query strings of any number of fields are read
  back, and any text is read as its pieces between `&`.  The scan knows where the piece began
  and where its first `=` was (`ReadSoFar`); `PairsFollow` says that the pairs so far are
  those of the pieces that have ended;
* `AttributesReadBack`, `AttributesAlwaysParsed` - any number of attributes of any form.
  There is one lemma for each state of the scan (`BlanksRead`, `NameRead`, `EqualsRead`,
  `PlainRead`, `QuotedRead`), and `ListRead` is the induction over the list.  An attribute is
  `Complete` when the text may end here or a semicolon may follow: a flag and a value without
  quotes are not in the result before that, one in quotes is.  What is assumed of the
  attributes is `IsAttribute`: a name that is not empty, does not begin with a blank and has
  no semicolon and no `=`; a value that has no semicolon and no quote, and is not empty
  unless it is quoted.  Without any one of these the code reads something else: `a=;b`
  becomes one attribute with the value `;b`, and a semicolon ends a value in quotes, too.

`HttpClientProofs` proves for any number of requests and connections and every kind of
client (`ClientInvAlways`):

* `OneOwnerAlways`, `NeverLeaks`, `PoolAlwaysShrinks`, `StopAlwaysReachesAll`;
* `ResendsOnlyUnanswered`, `AlwaysRetriedBeforeError` - action properties: what a step may
  do to a request that has been answered, and what must come before an error.

None is inductive.  `ClientInv` relates a session to its connection: a session owns its
connection until it is in its last callback; in each stage it has written its request
as often as it has had connections (`SessionInv`); sessions that share a connection know
it, and two own it only if it has carried an event stream (`ExclusiveInv`); what is owned
is in use and cannot be had from the pool (`HeldInv`), unless an event stream gave it
back; `stop` finds it in the pool, with exceptions that are listed (`ReachedInv`); what is in
use has an owner (`LeakInv`); and two connections of the pool are unused only between the
halves of a callback (`PoolInv`).  There is one lemma for each handler, because a handler
is a chain of the code's functions (`reconnect` is `connect` again with another
connection), and under it one step for each conjunct.  `OneOwner` as it was first stated
turned out false with three requests; its exception for event streams is what the
failed step showed.

What is not proved.  Liveness under fairness (`EveryWaitEnds`, `Answered`,
`EverySendIsAnswered`, `SleepReturns`, the liveness part of `TimedRun`) and
`NothingOutlivesTheServer`, which needs it, stay with TLC.

A precaution.  The SMT translation of `Len` in this version of tlapm is valid for sequences
only: it takes a function on `0..n` for a sequence of length `n`.  No proof here has such
a function in an obligation that mentions `Len`; that is why the cuts of `WireInv` are
numbered from 1 (`Cut` adds the first one).  The proved obligations that mention `Len` were
run again with the translation weakened to functions on `1..n`, and hold; a few needed
the fact that the value is a sequence, which is at hand where they stand.

## Not modelled

Genetic2.h (unfinished, never included), CpuThreadingTEMP.cpp (not compiled), the
cellular automata and CUDA experiments (prototypes that cannot complete a step),
floating-point learning code.  Of the web library: `sync_request`, which waits for the
last callback of an asynchronous request; `Date`, `parse_host_port`, `remote_endpoint`; the
status codes and the calls of OpenSSL; several threads in one client's `io_service`;
internal `io_service`s that are destroyed while the application holds a Response.

## Plan

Done: the watchdog, the machine, the training, the assembler, the web client, the
server, its Response and the messages, all of them with proofs.  Left, in this order:

1. Argument ranges of generated and mutated lines (Genetic.h:258-307, 575-632), and
   their lines as texts of `Assembler`.
2. A composition of watchdog and machine, so that the abstract instruction of
   `CpuThreading` is an instruction of `CpuVM`.
3. The phases and spike times of `tickWithSTDP`.

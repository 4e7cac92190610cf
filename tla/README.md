# TCP server library: verification project

TLA+ models of the TCP server library in `src/`, TLC configurations that check
them on small instances, and TLAPS proofs of the properties that hold for every
size. The code is C++ with POSIX threads and sockets; on top of it sits a
command line (`src/CommandParser`, C) whose handlers start and stop servers.

## 1. The system

| part | state | operations | talks to |
|---|---|---|---|
| `TcpServerController` | `state_flags` | start, stop, [no] disable-conn-accept, [no] disable-client-listen; callbacks of the two services | calls acceptor, service manager, database; calls the application |
| `TcpNewConnectionAcceptor` | `accept_new_conn_thread`, command pipe | start thread, stop thread (write "s", join); the thread: poll, accept | calls `OnClientConnected` from its thread |
| `TcpClientDBManager` | list of connected clients, mutex | AddClient, RemoveClient, Purge, GetClients (by reference, without the mutex) | called from all threads |
| `TcpClientServiceManager` | `threads`, `threads_mtx`, `is_running` | Start, Stop, StartListenTcpClient | creates and destroys listening threads |
| `ListeningThread` | `poll_fds`, `poll_fds_num`, `tcp_clients_buffers`, command pipe, callbacks | Listen (poll, commands, recv, removal), AddTcpClient | calls demarcar, `on_msg_rcvd`, `on_client_disconnected` |
| message queue | `msgs_queue`, `msgs_mtx`, `msgs_cv`, `msgs_thread` | OnMsgReceived, ReadMsgsQueue | listening threads to application |
| `TcpMsgDemarcar`, variable and fixed size | `IsReadingMsg`, `msg_size`, scratch buffer | ProcessMsg, ReadMsg | works on the client's ring |
| `ByteCircularBuffer` | storage, `front`, `rear`, `current_size` | Write, Read, Reset | one per client of a thread |
| `TcpClient` | address, fd | socket options, closes the fd when destroyed | shared pointer held by database, buffers, messages |
| application `testapp.cpp` | list of servers | command handlers | calls the controller from the command line's thread |
| `CommandParser`: parser, tree, standard commands | command tree, cursor, values of the leaves, prompt, console name | parse a line, run a handler, modes, `do`, `repeat`, files | calls the handlers; entered again by them |
| ... serialisation buffer (`serialize.c`) | memory, size, position, checkpoint | write, read, skip, patch, checkpoint, truncate, reset, clone | holds the TLVs of a command |
| ... strings (`string_util.c`) | `tokens`, a static array | tokenizer, trim, replace, match, grep, fetch a number | parser and unit test parser |
| ... history (`clistd.c`) | a file shared by all processes, `cmd_counter`, recording flag | record, list, run the line chosen | parses the line it reads |
| ... unit test parser (`ut_parser.c`) | message queue, receive buffer, results, flags | run a script, send output to it, judge it | parses the lines of the script |
| ... glue list (`glthread.c`) | links in its members | add in four places, remove, dequeue, visit | parameters of a branch, results of a test |

Threads: the command line's thread; per server one acceptor thread, any number
of listening threads, one message thread. They share the vector of threads
(`threads_mtx`), each thread's buffers (`buffers_mtx`), the message queue
(`msgs_mtx`), the client list (`mtx`, except in `GetClients`), and command
pipes. `is_running`, `state_flags` and the callbacks are shared without a lock.
The shell has one thread, but several processes may share the history's file, and
the message queue of the unit test parser has a name in the system.

What is hard: hand-over of a connection from the acceptor to a thread while
Start and Stop change the threads; notification and the end of the message
thread; removal of a client in the middle of the loop that serves it; one
demarcar for several byte streams; command orders that the flags do not
foresee; the process's end; a shell that is entered again from within while its
context, cursor and buffers are static. PROJECT.json lists the hazards with their lines.

What makes each part correct: the ring is a FIFO queue; the demarcar delivers
exactly the messages of each stream; each message is given to the application
once and in order; a connection is served by exactly one thread until it ends
and its end is reported once; Start and Stop leave no thread behind, return,
and never end the process; the flags tell what runs; the context of a mode is
what the prompt shows and what the next handler is given; a number chosen from
the history is the line that was shown; the verdict of a test is about the output
of its own command.

## 2. Modules

### ByteFifo, ByteCircularBuffer
`ByteCircularBuffer` has the class's members as variables and one action per
branch of `Write` and `Read` (refused, in one stretch, wrapped), and `Reset`.
`ByteFifo` is the abstract specification: a bounded queue with all-or-nothing
put and get. `FifoSpec` is the refinement with `queue <- Contents`. The
`uint16_t` arithmetic stays in range because every sum is bounded by `Size`.

### MsgsQueue
`Start`, `Stop`, `OnMsgReceived` and `ReadMsgsQueue`, cut where another thread
can come in between: the reader's lock, test of the predicate, sleep, second
test of `is_running`, callback, pop; Stop's join of the listening threads, write
of `is_running`, notification and join. A condition variable is a reader that is
`waiting` and a notification that is lost when it is not; the step between the
test of the predicate and the sleep is a state of its own (`gap`), in which the
reader holds `msgs_mtx`, which Stop does not take. `is_running` starts with any
value.

### TcpClientServiceManager
The acceptor's `StartListenTcpClient`, the command line's `Start` and `Stop`,
and each listening thread's `Listen`, with `threads_mtx`, command pipes, poll
slots, `poll_fds_num`, `revents`, buffers and callbacks. Remote ends send, close
or reset. `failed` says how the process ended: the demarcar's assertion, a
dereferenced `end()`, a call of an empty `std::function`, or an iterator of
`Start` that ran off its list. `Start` walks through the database's list itself,
one step per pass of its loop, so the list may change between two passes.
Demarcation and the queue are abstracted: a chunk completes no message, one, or
is refused. `std::list::remove` (`Without`) is defined by the rank of what is kept,
not by recursion, so that proofs can speak about it.

### TcpMsgVariableSizeDemarcar, TcpMsgFixedSizeDemarcar
`ProcessMsg` with the assertion on the ring's room and the loop of `ReadMsg`, one
step per pass. The ring is the sequence of its bytes, which `RingIsFifo`
justifies. `atoi` is modelled by what it does (blanks, sign, digits, whatever is
behind the unterminated header), its result cut to 16 bits.

### TcpServerController
The commands with the four flags, the acceptor thread, the client list and the
service manager from outside (it runs or not; how many threads have a client).
`Exit` and what follows is the destruction of the controller's members.
Creation with uninitialised `state_flags` is a choice of `Init`.

### GlueList, GlueThread
`GlueThread` has the two links of every node and of the head, and each function
as what it assigns to them; `GlueList` is a sequence of distinct nodes.
`ListSpec` is the refinement, with `list` the nodes that are reached from the head
(`Visited`, which cuts the walk along the links off behind as many steps as there are nodes).
A node that was removed keeps the links the code leaves in it, which show when it is
put in again.

### Tape, SerBuffer
`SerBuffer` is the memory with its size, position and checkpoint, each function
with its growth, assertion and tests of room. `Tape` is what a caller may rely on:
bytes at positions, a mark, no end. The memory's limits show in it three times only
(an assertion, a patch at an offset that `copy_in_by_offset` tests wrongly, and a
buffer cut to nothing, which doubles 0 for ever). `BufferSpec` is the refinement.

### StringUtil
The string functions as operators on sequences of characters, with the array that
`tokenizer` leaves to its next call as a variable, against definitions that do
not follow the code: the words between blanks, what stands in the place of each
character when all occurrences of a text are replaced, the lines that contain one, the
numbers in the order in which they stand.

### CommandTree, CommandParser
`CommandTree` is the tree that `init_libcli` and `testapp.cpp` build, with one
command of each shape, and what is asked of it: options, parent, branch, the
leaves on the way to a node. `CommandParser` is the shell: matching of a line
token by token (exact names, abbreviations among which the user chooses, leaves
that take anything, `.`, and prefixes of `repeat`), the TLV buffer with its
checkpoint, the cursor, the leaves' `value_holder`s, whether the command is enabled
or negated (`enable_or_disable`), the prompt with the console's name, and the
handlers that move them. The parser is entered again
from within - `repeat`, `show history`, `config load` - so the open calls of
`parse_input_cmd` and `parse_file` are a stack. `failed` says how the process
ended: an assertion (`/` at the root, or a `do` whose command left the cursor
there, as `do show history /` with a `cd` from the history does), a null pointer
(`do ?`, or `cd` from the history below `do`), memory overwritten (`cd` below `no`;
the model also stops where `cd..` takes a TLV from an empty buffer), or a command
without a server name after `config load` in a mode. What a command does to a server
is `TcpServerController`'s part.

`Selection` is `SelectSeq` with a set in the place of a test, by a recursive function:
the provers can reason about it. The parser's and the history's properties use it.

### History
The file that all processes append their complete commands to, and `show history`,
cut where another process can come in or the process can be killed: the line is
typed, listed, chosen from, run, recorded. An append is one step, since `fclose`
writes the buffer. A line too long for one `fgets` is two pieces of the file.

### UtParser
`run ut`: the lines of a script that change state, the queue of one message that
`cli_out` fills and the parser empties, and the static buffer and flags that outlive
a command, a test case and a run. A handler writes what it has to say in the
parser's thread, before the parser receives, or has another thread write it later.

### How they fit together
The ring is proved to be the sequence the demarcars use; the demarcar's
`ProcessMsg` is what `ReceiveData` and `ReceiveEnd` of the manager abstract; the
messages it demarks are the pushes of `MsgsQueue`; the manager's Start, Stop and
hand-over are single steps of the controller, which is why two questions asked
of the controller (a list that changes while Start goes through it, a Stop that
hangs) are answered in the manager and the queue. The shell's parser sees its buffer as a
sequence of TLVs with a checkpoint, which `BufferSpec` justifies, its line as
tokens, which `TokensAreWords` does, and a line of the history as any line of `Line`.
`Shell` puts the parser, the history and the unit test parser together: a step of it is
a step of one and leaves the others alone, since each sees of the others only what its
constants say. `Structures` does the same with the ring, the glue list, the
serialisation buffer and the string functions. `MCStructures` and `MCShell` check
these compositions; a behaviour is about one of the parts (`part`).

Modules named `MC...` give constants small values; modules named `...Proofs`
hold theorems. An operator whose comment begins with "Mutant of" is a plausible
bug of the operator after it; no specification uses it.

## 3. Runs

| run | bounds | shows |
|---|---|---|
| structures | ring: 5 slots, chunks up to its size, 2 byte values; list: 4 nodes, 3 priorities; buffer: created with 1 or 3 bytes, position up to 3 and one write beyond, pieces of 0 to 3 bytes; texts of up to 5 characters | the ring implements `ByteFifo`, the list `GlueList`, the buffer `Tape`; the string functions do what they are for |
| queue | 2 listening threads, 3 messages, any number of Starts and Stops | once, in order; the only hang is the missed notification |
| queue_stop | 1 thread, 1 message | finding: Stop can hang |
| manager_shared | 2 clients in one thread's 2 slots, 2 threads, 1 Start | slots, count and buffers agree; each way to end has its one cause |
| manager_relist | 2 clients, 1 slot per thread, 3 threads, 2 Starts | one thread per client, one report, no orphan; what a Start makes of a list that changes |
| manager_live | 2 clients, 1 slot per thread, 3 threads, resets only | resets are reported; hand-over, Start and Stop end |
| manager_assert | 1 client | finding: orderly close breaks the assertion |
| demarcar | 2 clients, header 2, ring 4, scratch 2, 5 bytes in all | all headers and all cuts, in two streams through one demarcar |
| fixed | 2 clients, message 2, ring 4, 4 bytes | stream cut into messages |
| controller | 2 clients, any flags, any `is_running` | flags, threads and list agree; commands end |
| controller_stop | 1 client, flags zero | finding: stop leaves threads serving |
| shell | parser: 32 lines, 4 files of at most 2 lines, 2 servers, 3 calls deep, 2 TLVs kept between lines; history: 2 processes, a file of 3 pieces and one more line, 2 starts each; unit tests: 5 script lines, 2 commands, `run ut` 2 deep | the context is that of the mode, is what the prompt shows and a handler is given; `do` comes back; the number chosen is the line shown; verdicts are about their own command |

Why the bounds are enough: `MAX_CLIENTS` is 2 in the code; 1 makes threads full
with few clients, 2 makes them share slots, and the two runs divide the
questions between them. Three threads allow one that is full, one that is new
and one Start creates. `MaxStarts` bounds only how often Start takes effect.
The ring's wraps depend on the position of two indices and a length, all of
which occur with 5 slots; the theorems cover all sizes. Four nodes put one in front
of, behind and between others, and two have the same priority. A buffer of one
byte is doubled twice by a write of three, and truncated at every size. Texts of five
characters hold two occurrences of a pattern of two with a character between them.
`tokenizer` is called twice, the second time with what the first has left. A history
of three lines is full with what one process may record, and overrun by a second
one. Five script lines hold a test case with a command, a grep and two verdicts, or
its end and the next. Five bytes hold a message with its header, the next one's
beginning, and every cut of them. The parser's
lines in `shell` reach every node and capability of the tree; three calls deep
is a file or the history within `do` or `repeat`, and one level more. `MaxContext` is
needed because command codes pile up in the context: the comment at
`parser.c:247` wants them behind the checkpoint, but `config /` checkpoints a
second time behind the code, and so does a mode entered from the history. They do
no harm to a handler, which the properties show by leaving them aside. The run's
`VIEW` leaves out values nobody reads before they are written again.
`CHECK_DEADLOCK FALSE` is set where the process may end (`failed`,
`terminated`, `exit`), or where a bound is used up.

Types are not properties of their own: those of the manager, the controller and
the parser are conjuncts of `PollCountExact`, `FlagsExact` and `ContextKept`,
those of the ring, the queue and the demarcars of their proved invariants.
Symmetry over clients is used only in runs without liveness.

Some properties have a stated exception, in a history variable: `raced` (a
client given to a thread before its first look at its buffers), `relisted` and
`strays` (a client both listed by a Start and handed over), `skipped` (a list
that changed under Start), `torn` and `held` (streams mixed by the shared
demarcar), `missed` (the lost notification), `lost` (a context thrown away by a
file or by `do` below `no`). These are defects of the code that
have no sentence in the repository to contradict; the property says that nothing
else goes wrong. `tame` restricts controller properties to servers whose flags
began as zero and whose switches were used between start and stop; in
`UtParser` the variable of that name restricts the two properties to scripts whose
shows write at most once and at once, and in which nothing else writes, debugging is
off and no script runs another: outside of that a text does reach the wrong command,
or the parser does wait for itself.

### Fairness
Threads that can run do run: weak fairness of the message thread, of the
acceptor, of each listening thread, and of Start and Stop once they have begun.
The operating system's scheduler, blocking mutexes and `poll`, which returns when
there is something to report, justify it; weak fairness suffices because no
modelled thread loses a lock again and again. No fairness is assumed of
commands, of remote ends or of spurious wake-ups.

## 4. Findings
Three violation runs, each against a sentence of the repository; PROJECT.json
quotes them. Stop can hang (`queue_stop`: the lost notification). An orderly close
makes the demarcar's assertion fail (`manager_assert`). After
`disable-client-listen` new clients are listened to, and `stop` leaves their
threads running (`controller_stop`).

Met while modelling, without a run of their own: `disable-conn-accept` before
`start` joins a thread that is not there and terminates the process, and so does
leaving the shell when the acceptor's thread was never started
(`TameNeverFails` holds of the other command orders); `/` at the root fails the
assertion of `cmd_hier.c:642` before it is told "Mode not supported at root
level"; so does a `do` after whose command the cursor is at the root, where
`parser.c:328` takes a cursor that is not `do_hook` for a mode and `parser.c:334` has
the assertion for impossible; `config load` in a mode empties its context (`lost`); `no ?` enters a mode
although `cmd_hier.c:523` does not support one with a negated command, and the lines
that follow are not negated; any prefix of `repeat` is `repeat`; a word wider than an
entry of `tokenizer`'s array, or one word more than it has entries, is written beyond
it; `replaceSubstring` passes over an occurrence that follows another one directly; a
buffer truncated to nothing can never be written again; the deadline given to
`mq_timedreceive` is three seconds after 1970, so it never waits (a comment at
`ut_parser.c:269` has it block), and output that another thread writes later is judged
as that of a later command; `run ut` without `ut_parser_init`, which nothing in the
repository calls, writes its log to a null pointer; `show history` writes offsets
beyond its array when the file has grown longer than one process may make it.

## 5. Proofs
Checked by TLAPS for every value of the constants, from the named assumptions of
the modules only.

- `StructuresProofs`: the four structures do what they promise.
  - `RingInvariant` and `RingIsFifo`. The invariant is `TypeOK /\ IndexInv`: the
    refinement needs both, since the tests `front < rear` and `rear < front` choose the
    right branch only while the count agrees with the indices. Each action is shown to be
    a step of `ByteFifo` on `Contents`, with lemmas about `Slot` and the copies.
  - `LinksAreAList`. The invariant is that there is a sequence of distinct nodes whose
    links these are, in both directions, while all other nodes have none (`Chained`).
    The refinement mapping follows `right` only, but `left` decides where the next
    `glthread_add_before` or `remove_glthread` goes, and what a node outside has in its
    links decides what becomes of the list when that node is taken out or put in: neither
    shows in the list until then. That the walk of `Visited` gives the sequence
    (`VisitedIs`) rests on the pigeonhole principle: distinct nodes are not more than
    there are. Putting in before a node and by priority are both shown to be
    `glthread_add_next`, and deletion is `remove_glthread` one node after the other, so
    that two lemmas say what happens to the links (`AddNextChains`, `RemoveChains`).
    `NodeAssumption`: the nodes are finitely many and neither the head nor a null pointer.
  - `BufferIsATape`. The invariant (`BufferInv`) is that the memory is as large as `size`
    says and `next` and `checkpoint` are within it. `GrownIsEnough`: the loop that doubles
    the size ends, with room for what is written, unless there is nothing to double.
    `PieceAssumption`: no buffer is created without memory, and `MaxPiece` bounds what is
    written at once, which with `Limit` says how much of the endless tape is looked at.
  - `TokensAreTheWords`. The code goes along the text and the definition (`Pieces`) does
    not: it ranks the places of the pieces by how many lie to their left. Between the two
    is a sequence of places (`Found`): after each character the tokens so far are what
    lies at the places of the pieces that have ended (`Ended`), and the scan stands
    behind the last delimiter (`Since`).
  - `TextsAgree`. For grep, a text of ended lines has those lines as its pieces
    (`LinesOfText`, one line after the other). For `replaceSubstring`, up to the place the
    loop goes on at the text is what stands instead of the characters so far, one by one
    (`Instead`), and every occurrence before that place ends before it, with a character
    to spare (`Behind`); the latter is where `Apart` is needed.
    `TextAssumption`: what is worked on is text, the end of a line is a character, and
    what is looked for is not empty.
- `MsgsQueueProofs`: five theorems from one inductive invariant, which relates
  the position of the caller of Start and Stop, the position of the reader,
  `is_running`, and the queue (`ControlInv`), together with
  `DeliveredOnceInOrder`.
- `TcpClientServiceManagerProofs`: seven theorems, one for each safety property of
  the manager, over any number of clients, slots, threads, starts and stops, with
  `MaxClients` positive as the only demand on the sizes. They follow from one
  inductive invariant, `IInv`, in layers that were checked with TLC before they were
  proved, each preserved with the help of those before it:
  - `ControlInv`: who holds `threads_mtx` and where the two that take it stand
    (`LockInv`); that the vector and the thread being made are all the threads that
    live, with at most one that lacks a callback (`VectorInv`); what a listening
    thread has at each place (`Stands`); that "s" is the last command of a thread and
    Stop is joining that thread (`Heeds`). Without the last, the acceptor could tell a
    thread of a client behind its stop command. `StopFindsEveryThread` needs no more.
  - `CountInv`: `poll_fds_num`. For `CountIsExact` the events matter as well: a report
    is only of a slot in use, or `TakeOut` would count a slot nobody has.
  - `BornInv`, `HolderInv`: a client has one holder, is in no database once it was
    reported, and is then in nobody's hands but those of the thread taking it out.
    `OneThreadPerClient` is not inductive alone: whether the next hand-over shares a
    client depends on the acceptor having it in hand before any thread has it.
  - `AccountInv`: each client of an unraced thread's buffers is in one slot, in one
    command of its pipe, about to be told of, or being taken out, and nowhere else.
    From it follow, with the counting theorems of finite sets, that an add command
    finds a slot (`AddFindsSlot`: otherwise the thread would hold more than
    `MaxClients`), that slots and buffers agree (`EveryClientIsPolled`), and that the
    lookup of a reported client does not miss.
  - `MadeInv`, `ListInv`, `WalkInv`: until it has its callbacks a thread has the clients
    it was made with; and as long as nobody on Start's list has left, its iterator
    stands where the passes so far put it (`OnTrack`), also when the acceptor has
    appended a client. `FailuresHaveCauses` rests on these and on `AccountInv`.
  - `HeldInv`: a listed client is held, skipped, or still ahead of Start's iterator
    (`NobodyIsForgotten`).
- `TcpMsgVariableSizeDemarcarProofs`: `DemarcarTypes`, `ShortMessagesAreSafe`,
  `DeliversInOrder`, `LeavesNothingBehind`. For the first two the invariant (`IInv`)
  says what a ring can hold between two calls: less than a header, or
  less than the message announced to the client that owns the header, or, for
  another client, still less than what the demarcar waits for; `RoomAssumption`
  then gives the chunk its room. For the other two (`FInv`) it names, for each client
  that is not torn, the position its stream is read up to, with the ring holding the
  rest (`RingFrom`, behind the header when its body is awaited), and says that the
  loop of ReadMsg stopped for want of bytes (`Drained`). `FramedInOrder` alone says
  nothing of the ring, and even with it would not survive a step: that the deliveries
  are a prefix of `Messages(received)` does not tell where the next one begins. So
  what has been read is said of every continuation of the stream (`Parsed`), which
  chunks that arrive keep and a delivery moves on by one message. `Messages` recurs
  over positions and `Value` over digits: that they are defined, and of which type, is
  shown by induction over a set of naturals (`Induction`, from the well-foundedness of
  `<`), which the provers can instantiate.
- `TcpMsgFixedSizeDemarcarProofs`: `DeliversSlices`, `RingTakesEveryChunk`. The
  invariant adds to the statement that the ring is what is left of the stream.
- `TcpServerControllerProofs`: five theorems, one for each safety property of the
  controller, from one inductive invariant. `FlagsExact` alone is not inductive: what
  the flags say depends on the position of the command line's thread and of the
  acceptor. The invariant relates the acceptor thread with the flag for it
  (`AcceptorInv`), says how many threads may serve a client at each position of the
  acceptor and who is a stray (`ServedInv`), and what each position of the command
  line's thread knows of a server used as intended (`TameInv`), among it that a listed
  client is served or about to be handed over (`Covered`).
- `CommandParserProofs`: `ContextIsKept`, `HandlersSeePath`, `PromptShowsMode`,
  `DoReturns`, one for each property of the parser, for any set of lines, files and
  abbreviations, any depth of calls and any size of the buffer. The tree is a constant,
  but `Path`, `Hook` and `PathLeaves` are defined along it; they are first shown to be
  what can be read off the tree, by `HandedDown`: what holds at the top and passes
  from a node to those registered below it holds of all. The inductive invariant
  (`IInv`, theorem `Inductive`) has six parts:
  - `DataTypes` with the places the cursor can be at, and `FrameTypes`: which calls can be
    inside which. A `do` is never typed inside the file it would have to come back to.
  - `ReachInv`: a line comes to nodes below the cursor only.
  - `PromptInv`: the prompt is that of the cursor's node or, below `do_hook`, of the mode
    that the innermost open `do` was typed in (`Borrowed`).
  - `ContextInv`: what the checkpoint keeps is the cursor's (`KeptInv`), and of what has
    been collected behind it what is the application's is that of the node come to
    (`CollectedInv`). `ContextKept` says this of the prompt only, where nothing would
    make it survive the next line: `cd..` and `do` rebuild the context from the leaves'
    `value_holder`s, so the values must agree with the buffer at every place.
  - `ToldInv`: which tokens of the line have said "no", for `enable_or_disable`.

  Two assumptions are about what can be typed. `LineAssumption`: tokens are strings, and
  enter alone is a line. `AbbreviatesAssumption`: what `no` begins with begins no other
  command but `name`, and `no` itself none; a property of the commands that are
  registered, without which what a handler is told would depend on the order in which
  the parser tries them.
- `ShellProofs`, four theorems about `ShellSpec`; a step of the shell is one of the part
  in question or leaves it alone.
  - `HistoryRunsWhatItShowed`: while a process chooses, what it has
    listed is still the beginning of the file and everything behind it is written by
    others (`StillThere`); an append by another process keeps that, and a restart makes
    the process another writer.
  - `HistoryKeepsTheFirst`: of the run that a process is in, the file has exactly the
    first lines it completed, as many as it has counted, and nothing of a later run
    (`Kept`). The property alone does not say that the count agrees with the file, on
    which the next append depends.
  - `NoOutputIsLeftBehind` and `VerdictIsAboutTheLastShow`. The
    invariant follows the output of a show from the handler through the queue into the
    buffer (`OnItsWay`, `Received`) and says when the queue is empty (`QueueInv`).

  `ShellAssumption`: no pattern is the name of a store.

Only model-checked: everything under fairness, which is out of the prover's reach, and the
runs that expect a violation. Every other property of the runs is a theorem.

## 6. Not modelled
Output (Display, Dispaly, dumps, logging); set-up errors that call `exit`; `TcpClient`,
which sets socket options and closes its fd when the last reference goes; address
conversion, two functions that `sprintf` and `sscanf` do; several servers in one
process, which share nothing but the command line; the byte behind the unterminated
command buffer (`TcpClientServiceManager.cpp:127`); a blocking `accept`; of the shell,
the validation of leaf values, the brief extension of `show`, commands that only print
and supportsave, and the script lines of the unit test parser that print or sleep;
examples; build files and binaries.

## 7. Plan
1. Ring, message queue, service manager, demarcars, controller: done as above.
2. The shell - parser, prompt, negation, history, unit tests - and its structures: done
   as above.
3. A composition of controller, manager and queue in which Start and Stop are not
   single steps; several servers and their lookup.
4. Proofs: done of the ring, the list, the buffer, the queue, the manager, the demarcars,
   the controller, the shell and the string functions. Left: what item 3 adds.

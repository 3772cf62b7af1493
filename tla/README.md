# A TLA+ verification of my_linux_demo

The repository is a collection of small Linux programs: timers and servers from
a book on high-performance servers (`src/unp/high_performance`), servers and
clients in the style of UNP (`src/unp`), and demonstrations of threads,
semaphores, message queues, pipes, processes, mappings and file I/O. Every
program stands alone. What they share is two header files, `list_timer.h` and
`timer_wheel.h`, and a set of idioms: edge-triggered epoll, signals turned into
events through a socket pair, forked children, condition variables.

The modules here model those programs whose behaviour depends on an order of
events nobody can easily test. TLC checks each on a small instance; TLAPS proves
every safety property for instances of every size, and three refinements: the
sorted timer list implements an abstract queue of timers, the lists of the timing
wheel implement a wheel with sets, and the keep-alive server implements an
abstract service of sessions that expire.

Contents: [inventory](#inventory), [modules](#modules-and-code),
[runs](#runs-and-bounds), [mutants](#mutants), [fairness](#fairness),
[proofs](#proofs), [findings](#findings), [limits](#what-is-not-shown),
[plan](#plan).

## Inventory

### Modelled

| Component | State it keeps | Operations | What makes it correct |
|---|---|---|---|
| sorted timer list, `list_timer.h` | `head`, `tail`, `prev`, `next`, `expire` of heap-allocated timers | `add_timer`, `adjust_timer`, `del_timer`, `tick`, destructor | pointers describe one list both ways, ascending by expiry; `tick` calls back what is due and nothing else; memory is freed once |
| keep-alive server, `alarm_keeplive.cpp` | `users[]`, the timer list, `timeout`, `stop_server`, the epoll set, the signal pipe, the alarm | accept, receive, signal handler, `time_handler`, `cb_func` | every connection has exactly its own timer; idle connections are closed and active ones are not; no event is handled for a descriptor that was closed meanwhile |
| timing wheel, `timer_wheel.h` | N slots with doubly linked lists, `cur_slot`, `rotation` and `time_slot` of each timer | `add_timer`, `delete_timer`, `tick` and the callbacks it makes | a timer fires after the ticks it was added for; slots, time slots and lists agree whatever callbacks do to the wheel |
| thread joiner, `pthread_test.c` | `numlive`, `numunjoin`, `thread[].state`, a mutex, a condition | `threadfun`, `main` | counters agree with the threads, no wakeup is lost, no deadlock, every thread is joined once |
| chat server, `epoll_chatroom.cpp` | `client_list_fd`, the epoll set | accept, read until `EAGAIN`, broadcast, close | every chunk reaches everybody but its sender; no edge is lost |
| select server, `selectserver_test.c` | `client[]`, `maxi`, `allset`, `rset`, `nready` | `select`, accept, read, echo, close | an open connection is watched and has a place; the server reads only what is ready; what is sent is read |
| forking echo server, `my_echo_ser.c` | descriptors of the parent, its children | accept, `fork`, `close`, `sig_chld` | every child is collected; descriptors do not run out |
| CGI worker, `CGI_server.cpp` | `m_buff`, `m_read_idx` | `cgi_conn::process` | what is run is the first line, however it was cut; the worker comes back |
| unified signal events, `epoll_sig.cpp` | `stop_server`, the signal pipe, the epoll set | accept, handler, reading the pipe | a stop signal that has arrived stops the server; `accept` finds a client |
| TCP and UDP echo server, `epoll_tcp_udp.cpp` | the epoll set | accept, read until `EAGAIN`, one datagram per event | no edge of a connection is lost; datagrams do not come to a standstill |
| LT/ET demonstration, `epoll_LT_ET_servertest.cpp` | the epoll set | `use_ET`, `use_LT` | nothing unread without an event to come |
| chat client, `epoll_chatroom_client.cpp`; select client, `selectclient_test.c` | the epoll set; `rset`, `stdineof` | keyboard and connection, half-close | what the server sends is heard to its end |
| pipe filter, `parent_child_communicate.c` | two pipes | read, write in parent and child | the processes never wait for each other; output lags by a bounded amount |
| message queue, `mq_test.c`; named semaphore, `sem_test.c` | a kernel object with a name | open, send, receive, post, wait, unlink | runs do not disturb each other; an undisturbed run ends |
| shared counters, `unamed_sem_test.c`, `pthread_rwlock.c`, `pthread_end_test.c` | one variable, a lock | `x++` and `x--` in two threads | what a lock protects is not lost |
| HTTP request parser, `http_parse.cpp` | `buffer`, `read_index`, `checked_index`, `start_line`, `checkstate` | `recv`, `parse_line`, `parse_requestline`, `parse_headers`, `parse_content` | the answer depends on the bytes and not on how TCP cut them |

How they interact. The keep-alive server owns a `sort_time_list`: its loop calls
`add_timer`, `adjust_timer` and `del_timer`, and `tick` calls back `cb_func`,
which closes connections of the loop. `KeepAlive` is therefore composed of the
list's own operators (module `SortTimeList`) and the server around them. The
alarm signal interrupts the loop and reaches it through the socket pair. The
wheel is a library of its own whose callbacks may call it again. The servers
interact with clients through the kernel: listen queue, socket buffers,
descriptor numbers that are given out again, edge- or level-triggered readiness.
Those parts of the kernel are modelled as far as the programs depend on them
and marked external.

Hard behaviours, and where they bite:

* *Ordering of events*: one `epoll_wait` returns new connections, data, hang-ups
  and signals together (`alarm_keeplive.cpp:97`); edge-triggered events are told
  once (`alarm_keeplive.cpp:150`, `epoll_chatroom.cpp:61`).
* *Stale names*: descriptors and heap addresses are used again while `users[]`,
  `client_list_fd`, `allset` or a slot number may still hold the old one.
* *Reentrancy*: the wheel's callbacks run inside `tick`.
* *Interleaving*: threads around one condition variable; signal handlers between
  any two steps; signals that do not queue.
* *Limits and edges*: timeouts of 0, N and 2N slots; a full receive buffer; a
  wall clock that is set back; `fork`, `pthread_create`, `accept` or `send` that
  fail.

* *What outlives a process*: names of queues and semaphores after a run that was
  killed; zombies; data in a pipe whose other end lags behind.

### Not modelled

* `timer_heap.h` consists of declarations without bodies.
* `my_echo_cli.c` is a sequential request-reply client whose library (`unp.h`) is
  not in the repository. `hsha_process_pool.h`, which the CGI worker runs in, is
  not either: `CgiConn` is one connection of one worker.
* `create_daemon.c` is one sequence of calls, made by one process at a time; what
  it achieves are attributes of a process that then only sleeps.
* `pthread_key_test.c` appends to an array that is full (`strcat` on a string that
  fills it): what follows is undefined, and a model would have to allow anything.
* `test_pipe.c` is one write and the loop that reads it; nothing is answered.
* `pthread_cleanup.c` and `pthread_struct_pass.c` start threads that share
  nothing. `nice_test.c`, `proc_limit.c`, `sched_test.c`, the file I/O and mapping
  programs and the samples for gdb and shared libraries are straight-line calls
  to the kernel, with no state a model could say anything about.

## Modules and code

A variable or action has the name the source gives it wherever there is one. An
operator called `Operation_Slip` is no part of the program: it is a mistake a
programmer might make in `Operation`, and shows that some property notices it
(see [Mutants](#mutants)).

### SortTimeList, TimerQueue, ListTimer

`SortTimeList` has no variables: its operators take the whole list (a record
with `head`, `tail`, the `prev`, `next` and `expire` of each timer and the set
`live` of allocated addresses) and return what the method leaves behind.
`AddTimer`, `AdjustTimer`, `DelTimer`, `TickList` and `Destroy` follow the cases
of `add_timer` (the head, or `InsertAfter` for the loop of the private
overload), `adjust_timer` (stays; was head; was in the middle), `del_timer`
(only one; head; tail; in the middle, where the code frees nothing) and `tick`,
which walks from `head` and, line 147, moves `head` along while `tail` keeps its
old value. Following a pointer that leads back is cut off after as many steps as
there are addresses, so that a broken list would give a finite, wrong result
rather than an endless evaluation.

`ListTimer` drives the list as `alarm_keeplive.cpp` does: `expire` is set to the
present time plus a delay before `add_timer` or `adjust_timer`; addresses are
chosen by the allocator among those that are free; the clock (`time(NULL)`, wall
time) advances, and may be set back at any moment. `TimerQueue` is the abstract
promise: pending timers are a set with expiries, `Tick` calls back timers that
are due, all of them as long as the clock has not been set back. `ListTimer`
implements it with the set of linked timers for the pending ones.

After the clock has been set back (`stepped`), `adjust_timer` may leave a timer
behind a later one, because it looks at the successor only. The list is then not
sorted and a timer may be called back late. The model keeps this case and states
what remains true: the pointers stay intact, and none is called back early.

### KeepAlive and Sessions

The variables are those of the program (the list, `users[].timer`, the
descriptor a timer's `user_data` leads to, `timeout`, `stop_server`, the events
of the current batch) and of the kernel (connection behind each descriptor,
listen queue, edges not reported yet, bytes in the signal pipe, the alarm). One
action handles one event of the batch, in any order, since epoll promises none;
`EndBatch` is the code after the for loop. The `for` loop is not interrupted by
anything but the signal handler, which touches only the pipe. `cb_func` uses the
file's static `epollfd`, which is 0 and not the instance `main` creates, so its
`EPOLL_CTL_DEL` has no effect; the `close` that follows removes the descriptor
from the epoll set, and this is what `Close` models.

`sig_handler` calls `send(pipefd[1], (char *)msg, 1, 0)`: it passes the signal
number as an address and the kernel refuses with `EFAULT`. That is what the
program does, in every run. The machinery behind the pipe would then never be
reached, so the constant `SendResults` may also contain `"sent"`: what the code
does when the byte arrives, as its comments say it should. Each property says
which of the two it is about, through the history variable `trouble`.

`Sessions` is what the clients are promised, without descriptors, timers, events,
alarms or the pipe: a session begins (`Begin`), is renewed by its own client's data
(`Hear`), and ends because its client left (`Release`), because it was silent for
`Limit` (`Expire`, several at once), or with the server (`Stop`). `Clock` ties time to
it: unless the server has been late or a signal was lost (`strained`), no session is
left that was silent for `Limit + Grace`. `KeepAlive` implements it with three slots
for the limit and one for the grace: the open connections of a running server are
the sessions (`Heard`), a client that has hung up is `gone`, and `trouble` is what
strains. `epoll_wait`, the reading of signals, `Connect`, `Send` and the handler whose
byte arrives are stutters. Everything `main` does at one event is one abstract
step, and so are all the callbacks of one `tick`.

### TimeWheel and WheelLists

`TimeWheel` is the wheel with sets: each slot is a set of timers, with the
rotations to go. `TickBegin`, `Turn`, `Fire`, `Fired` and `TickEnd` are the steps
of `tick`: at each node either one turn less, or the callback, during which the
user may add and delete timers (`Add` and `Delete` are enabled while a callback
runs), and the unlinking afterwards. `WheelLists` has the same actions on the
pointers of the code, `next`, `prev` and the slot heads, and the `tmp` that
`tick` walks with; it implements `TimeWheel` with the set of reachable nodes for
a slot. The timer whose callback is running must not be deleted by that
callback, because `tick` deletes it; the code gives no protection and the
actions require it.

Time is a history variable: `left` says how many of the ticks asked for are still
to complete when a timer is called back. It should be none (`FiresAfterItsTicks`),
and this is not so. A callback runs while `tick` walks through the current slot.
When it asks for a multiple of N ticks, its timer goes to the head of that slot,
behind the walk, with `ticks / N` turns; the first is counted down when the wheel
is back there, and the timer fires N ticks late (see [Findings](#findings)).
`rearmed` remembers these timers, and `Punctual` says the exact lateness of each:
N ticks for them, none for any other.

`TimeWheel` is written for proof (only sets and functions, no recursion);
`WheelLists` ties the proof to the pointers. `MCWheels` checks both: a behaviour is
one of the wheel with sets or one of the wheel with lists.

### PthreadJoin

A step is what a thread does between two points where others can observe it:
each access to a counter or a state, each lock, unlock, wait, signal and join.
`numlive`, `numunjoin` and `state` are as in the program. `pthread_create` may
fail (`CreateFails`): the code then reports the error, has counted the thread
all the same, and waits for it for ever. `pthread_cond_wait` may wake up
spuriously. The signal is sent after the mutex has been released, which is where
a wakeup could be lost. `MCProcesses` gives it to TLC, as `Joiner`.

### Chatroom, SelectServer, EchoServer

`Chatroom`: `client_list_fd` is a sequence of descriptors from which nothing is
ever removed. A broadcast writes to the entries in turn; to a descriptor that is
closed the send fails, and to one that has been given out again it sends, as
often as the number is listed (`Entries`). The read loop goes on until `EAGAIN`
and, after an end of file, closes the descriptor and calls `recv` once more.
A send to a client that has left may be answered with a reset, and a send after
that raises SIGPIPE, which kills the server. A send to a client in `Slow`, one
that does not read, may be lost: the code ignores what `send` returns.

`SelectServer`: `select` copies `allset`, and fails with `EBADF` when it holds a
closed descriptor, because line 68 clears the bit in `rset` and not in `allset`.
The program ignores the result; `rset` still holds all of `allset`, so it
believes somebody is connecting and blocks in `accept`. All of this is in the
model, including the consequence that the server is deaf until somebody
connects; `Served` is about histories without such a descriptor.

`EchoServer`: parent, children and handler. Line 69 says `close(clilen)` where
`clifd` is meant, so the parent closes descriptor 16 (the size of an address)
each time and leaks the connection. `LeakBounded` is the reason why the program
survives: when descriptors 4 to 15 are used up every connection gets number 16.

### HttpParse

One connection: `Receive` appends any number of bytes the client has sent, then
`parse_content` runs, one action per iteration of its loop (`LineOpen`,
`LineBad`, `LineOkRequest`, `LineOkHeader`). Words the code compares with are
single symbols, and the 7 bytes that line 84 moves `url` on are counted in
symbols (`Skip`). The reference, `Verdict`, reads a whole stream at once, without
buffer or indexes. A client may send any byte, NUL as well, which the code also
writes at the ends of lines: the reference reads a line as a C string, up to its
first NUL (`Seen`), and takes a header line that shows nothing for the end of the
request, as line 97 does. That the end of a request is an empty line, as line 96
says, is a property of its own (`RequestHasEmptyLine`), and does not hold. For a version other than HTTP/1.1 and a URL shorter than
7 bytes, line 84 leaves the URL's text and what is found depends on what has
arrived (`Overreads`); the reference makes no statement about those.

### EpollServers

Three servers with one skeleton, and `main` of the third with either of its two
handlers, are one module: `program` says which of them runs and never changes.
`Accept`, `EpollWait`, the read loop and its ends are the same code in all of
them up to what the guards on `program` say: `epoll_sig.cpp` reads no connection,
`epoll_tcp_udp.cpp` answers (and may be killed by SIGPIPE) and has a second
socket, `use_LT` reads once and is told again (`ReadsOnce`, `LevelTriggered`).
`limit` is the number of descriptors the process may have: when they run out,
`accept` returns -1, and the first two programs abort (`AcceptFails`). The handler
of `epoll_sig.cpp` has the mistake of `alarm_keeplive.cpp`, and `SendResults` the
same meaning.

UDP clients ask, wait for the answer and ask again. One `recvfrom` per event
means that a datagram may be left in the socket without an event; what holds is
that the clients are never all waiting because of it (`SomeAskerIsServed`). An
empty datagram is read and not answered, and spoils this: the property is about
histories without one.

### CgiConn

`process()` of one connection: the loop around `recv`, with the search for the end
of the line that starts at the last byte already seen, and all ways out of it.
`RecvError` is an action without an end: after a reset the loop closes the
descriptor, line 43, and goes on calling `recv`. `WorkerReturns` says that a client
that has sent a line, filled the buffer or closed does not keep the worker for ever,
unless it resets.

### NetClients

Both clients watch keyboard and connection. In `str_cli` the socket comes first,
and the end of standard input shuts down one direction only; the chat client
takes events in any order and reads the socket until `EAGAIN`. Their servers are
environment here: an echo server that closes when everything up to the client's
end of file is echoed, a chat server that forwards what others say, and either
may end at any time. A send to a server that has gone is answered by a reset, the
next one by SIGPIPE.

### PipeUpper

Bytes are counted, in both processes and both pipes; reads are short whenever
less is there, and writes block and may be divided above `PIPE_BUF`. The parent
reads `pipe2` once per line, so its output may lag behind for good. A failed read
of standard input is true in `while(sz=read(...))`; the parent then waits for an
answer to nothing, which the model has (`StdinFails`) and `NeverBothWait` excepts.

### NamedObjects and SharedCounter

`NamedObjects` has several runs of `sem_test.c` or of `mq_test.c` (`kind`), each
with its parent and child, over one name. Any of them may be killed at any step,
and a later run finds what is left. `sem_open` passes `O_RDWR` in the place of the
permissions, so an existing semaphore is opened by root alone (`rooted`).

`SharedCounter` has the three programs in which two threads change one variable:
`lock` says what is around the change, and `mode` how each thread takes it. As
written both threads of `pthread_rwlock.c` take read locks; the modes with a
write lock are those its comment (line 6) discusses. Reading and writing the
variable are separate steps.

### MCConnections, MCProcesses

These put several small systems side by side for TLC: a variable says which of
them a behaviour is about, and the others stand still. Nothing is shared between
them. `MCConnections` has `HttpParse`, `CgiConn` and `EpollServers`; `MCProcesses`
has `EchoServer`, `PipeUpper`, `NamedObjects`, `SharedCounter`, `NetClients` and
`PthreadJoin`. Fairness of a program that could move in its initial state is
conditional on the behaviour being one of that program (`JoinFair`, `NamedFair`).

## Runs and bounds

| Run | Instance | What it shows |
|---|---|---|
| ListTimer | 4 timer addresses, delays 1 and 2, time 0 to 2, clock set back at will | head, middle and tail cases of every method, equal expiries, reuse of addresses; pointer integrity, order, memory, refinement of `TimerQueue` |
| KeepAlive | 2 clients, 2 timer addresses, 2 descriptors, time 0 to 4 with a slot of 1 | agreement of descriptors, `users[]` and timers; no stale event; closing of idle connections; refinement of `Sessions`, which includes that nobody is closed early |
| KeepAlive_handler | 1 client, the real `send` | violation of `HandlerClosesIdle` |
| KeepAlive_unread | 1 client that sends 2 chunks | violation of `UnreadHasEvent` |
| Wheels | 3 timers, 3 slots, timeouts 0 to 7, for the wheel with sets and for the one with lists | every timeout below more than two full turns, callbacks that add and delete: when each timer fires, to the tick; pointers stay well formed under reentrancy; the lists implement the sets |
| Wheels_rearm | the same instance | violation of `FiresAfterItsTicks` |
| Chatroom | 3 clients (one slow), 2 descriptors, 2 chunks, 4 connections | broadcasts reach everybody in spite of stale entries; no edge lost |
| Chatroom_waiting | 2 clients | violation of `ConnectedAreAccepted` |
| SelectServer | 3 clients, 2 descriptors, 2 chunks ahead | bookkeeping of `client[]`, no blocking read, `nready` exact, `Served` |
| Connections | HTTP: 452 streams of up to 16 symbols, with NULs among them, buffer of 12. CGI: every stream of up to 5 bytes of CR, LF and another, room for 4. Epoll servers: 2 clients with 2 chunks, 2 askers and 1 empty datagram, 2 signals, 1 or 2 descriptors | every fragmentation of requests and of a CGI line; no lost edge, no failing assertion without need, answers and stop signals in the epoll servers |
| Connections_blank | the same instance | violation of `RequestHasEmptyLine` |
| Processes | echo server: 4 clients, descriptors 4 to 7, `clilen` 6, forks may fail. Filter: buffer 3, pipes of 6, 24 bytes. 3 runs with a named object. Counters: 3 rounds. Clients: 3 lines and 3 chunks. Joiner: 4 threads, creations may fail, 1 spurious wakeup | reaping, the leak and its bound; no mutual waiting and bounded lag; the queue as a lock, runs that end; what locks keep; complete and heard conversations; counters, joins, wakeups and the end of `main` |

Why the bounds are enough. A list of four nodes has a head, a tail and two inner
nodes, the most any case of the list code tells apart, and equal expiries come
up with two delays. Two connections and two descriptors suffice for a descriptor
and a timer address to change hands while the other connection is in the same
batch; four slots of time are one expiry (three slots) and one alarm. A wheel of
three slots and timeouts up to 2N+1 has timers of the current slot, the next,
the previous, and with none, one and two turns to go; the proofs remove this
bound. Four threads give the scan of `main` a thread before, between and behind
those already terminated; the proofs remove this bound as well. Three clients
on two descriptors are a sender, a receiver and one that waits for the number of
whoever leaves.
With two descriptors for three clients the select server also meets the failing
`accept`. Four connections and a `clilen` in the middle of the descriptor range
give the echo server two leaks, a connection that is closed by mistake and one
more. The buffer of 12 symbols is filled exactly by one good request with a
header, and is too small for others; streams with a NUL have it at any place of a
request line, at the beginning of a header and inside one. Five bytes are enough for a line of no, one
or two bytes, for a second line, for every cut through CR LF and for a line that
does not fit. Two askers are the least that can leave a datagram behind another;
one descriptor for two clients makes `accept` fail, two let both be served. A
pipe of two buffers is the smallest the filter's assumption allows, and 24 bytes
fill both pipes and both buffers and leave some to type. With three runs a name is
left behind, found by a second run and by a third after it. The clients of the
epoll servers are numbered and connect in that order (`InOrder`), which loses
nothing since they are alike.

`MaxTime`, `MaxUnread`, `MaxSay`, `MaxMail`, `MaxLines`, `MaxTyped`, `MaxJoin` and
`MaxSpurious` cap counters that
have no bound in the program; they appear in the guards of the environment's
actions only (clock, clients, the keyboard, spurious wakeups), never in those of the program.
`CHECK_DEADLOCK FALSE` is said where the program may end (exit, abort, `main`
returning, an answered request) or the environment reaches its cap. `Wheels`
checks deadlock: the wheel can always be ticked.

## Mutants

Type invariants are conjuncts of another invariant of their module
(`WellFormed`, `TimerPerConnection`, `WellLinked`, `EveryoneHears`,
`OpenIsServed`, `AnswerIsVerdict`, `UnreadHasEvent`) or proved. Each property has
at least one mistake that breaks it: an operator next to the
one it imitates, such as `DelTimer_KeepPrev`, `Reap_Once` or `Open_NotAtCr`.
`PROJECT.json` lists which property notices which. They are what stands against
properties that hold by the shape of the model.

## Fairness

Liveness is claimed under weak fairness of the program's own processes only,
since a runnable process is scheduled in the end: `MainStep` and every `Thread`
in `PthreadJoin`, `Server` in `SelectServer` and `EpollServers`, the parent and
each child in `EchoServer`, the worker in `CgiConn`, the client in `NetClients`,
each run that was started in `NamedObjects`. Nothing is assumed of clients, clocks, signals or spurious
wakeups; a property that needs them says so as a hypothesis. No strong fairness
is used. In `PthreadJoin` weak fairness of `Lock` suffices: a thread waiting for
the mutex gets it in the end because the number of lock operations of the others
is finite, apart from those of `main`, which needs a signal between two of them.
`Termination` has the hypothesis that no creation fails. `IdleConnectionsClose`
is a safety property with a deadline; its hypothesis `trouble = {}` says that
every byte of the handler arrived and that the clock did not advance while the
server had something to do.

## Proofs

Every theorem holds for all values of the constants that satisfy the module's
named assumption, and for behaviours of any length. Those assumptions say what
kind of thing a constant is (`N` is a positive number, `Streams` are sequences of
bytes, `NULL` is no client) and nothing about sizes, with two exceptions:
`PipeUpper` assumes that a pipe holds two buffers, and `EchoServer` that `clilen`
is a number a descriptor can have. Caps such as `MaxTime` are any natural number.

All invariance proofs end in the same three facts, `Init => IInv`,
`IInv /\ [Next]_vars => IInv'` and `IInv => ` property, combined by temporal
reasoning. The second has one step per action. What differs is `IInv`.

### Timers

`SortTimeListProof` is about the operators of `SortTimeList`, each for every list.
`IsList(l, c)` says that the pointers of `l` describe the sequence `c`: no timer
twice, `head` its first element, each `next` and `prev` its neighbour; `InOrder(l)`
that there is such a `c`. `WalkIs` shows that a loop along `next` visits the
elements of `c` in order and ends, by the least index at which it would not; from
then on `add_timer` is an insertion into `c`, `del_timer` and `tick` are removals,
and `adjust_timer` is a removal and an insertion (`AddIs`, `DelIs`, `TickIs`,
`AdjustIs`). The theorems `AddInOrder`, `DelInOrder`, `AdjustInOrder`, `TickInOrder`
and `DestroyInOrder` state it without `c`: the list stays in order, what is
linked is exactly what should be, and ascending lists stay ascending. `tail` is
claimed to be the last element of a list that has one: a `tick` that removes
everything leaves `tail` where it was (line 147), and `add_timer` on an empty list
sets it again.

`ListTimerProof` proves `ListStaysWellFormed`, `ListStaysSorted` and `MemoryIsFreed`
for a list driven by any client and any clock. `IInv` is `InOrder`, agreement of
the linked timers with the client's, and order unless the clock was set back.
`ListImplementsQueue` is the refinement of `TimerQueue`: the initial states map to
initial states, and each action of `ListTimer` maps to the action of the same name
or to a stutter.

`KeepAliveProof` proves the properties of the keep-alive server on top of the same
theorems. `Table` says that `users[]` and `user_data` are inverse to each other
between open descriptors and linked timers; this gives `TablesAgree`. `NoEventIsStale`
needs `Placed` (a client is behind one descriptor at most) and `Fresh` (edges are
those of open descriptors, the signal's edge included): `cb_func` closes
descriptors only in `EndBatch`, when the batch is empty. `NobodyClosedEarly` and
`SilentConnectionsClose` need `Dated`, that each timer expires three slots after the
last sign of life, and, for a server that keeps up, `Punctual`: the last tick was
one slot before the next alarm, and an alarm that is not armed is on its way to
the handler that arms it. A clock that goes forward only is part of that model.
`ServerImplementsSessions` is the refinement of `Sessions`. From `IInv` each action
maps to the action of `Sessions` named above or to a stutter: `CloseEnds` shows that
closing descriptors ends the sessions behind them and no other, `EndBatchServes` that
those a tick ends were silent for three slots, which is where a timer in the wrong
place of the list or a `users[]` entry of an earlier connection would show, and
`ClockServes` takes the deadline from `IInv` after the step. `NobodyClosedEarly` is
the same fact about expiry in terms of the server's own variables; no run checks it
apart, because `ImplementsSessions` includes it.

`WheelsProof` has three parts, for every number N of slots, every set of timers
and every set of timeouts.

* The wheel with sets: `WheelOnTime` (no timer is called back before or after its
  tick), `WheelNoneMissed` (none stays beyond it), both combined in
  `WheelPunctual`, which gives the lateness of every timer exactly, and `WheelSlotsMatch`. None is inductive alone. A timer's
  punctuality depends on its slot, on the rotations left and on how far the current
  tick has come, so `IInv` of `TimeWheel` relates those: the ticks a timer still has
  to wait, and the N by which it will be late if it will, are determined by the distance of its slot from `cur_slot`, N times its
  rotation, and whether the walk of the current tick has passed it. The arithmetic
  of slots modulo N is isolated in lemmas.
* The pointers: `WheelWellLinked`. `Linked` says locally that `next` and `prev` undo
  each other within a slot and that only its head has no predecessor. That no list
  leads back to itself is a separate fact, `Falling`: the timers have ranks that fall
  along `next`, because a new timer is put in front, with a rank above all others.
  A set of timers closed under `next` whose members all come from `p` is what is
  reached from `p` (`ReachIs`), since the ranks leave no room for an endless walk nor
  for timers nobody points to.
* The refinement: `ListsImplementSets`. Each step of `WheelLists` is the step of
  `TimeWheel` of the same name. What has to be shown is how the timers still to visit,
  those reached from `tmp` or from its successor, change when a callback adds a
  timer (`AddReach`) or deletes one, which may be that successor (`UnlinkReach`).

### Threads and processes

`ProcessesProof` covers the systems of `MCProcesses`.

* Echo server, for every set of clients, every size of the descriptor table and
  every `clilen` in it: `EchoTypeCorrect`, `LeakStaysBounded` and
  `ZombiesAreAnnounced`. The bound on the leak also takes `AtHand`, that the
  connection being dealt with never has a number above `clilen`, which holds
  because `accept` returns the lowest free descriptor and `clilen` is free whenever
  it is called (`MinFd`, from the well-foundedness of the natural numbers).
* Filter, for every buffer size and every pipe that holds at least two buffers (a
  pipe of Linux holds six of this program's), and any amount of input:
  `NoMutualWait` and `LagStaysBounded`. `PipeIInv` says where the bytes are: what was
  typed and not printed is in the parent's hands, in `pipe1`, in the child's hands
  or in `pipe2`. When a line is awaited this is at most a pipe and a buffer: a round
  either takes out of `pipe2` a whole buffer, at least as much as it puts in, or
  empties it, and then what is left fits into `pipe1` and the child's buffer. So
  with a line in hand it is at most a pipe and two buffers, too little for both
  processes to find their pipe full; and neither waits on an empty pipe while the
  other does, since something is on its way.
* Shared counters, for any positive number of rounds: `FinalValueHolds`.
  `CounterIInv` says that with a writer the threads take turns, that what one has
  read is the value until it writes, and that the value counts the rounds of both;
  without a writer, which is a program of one round, it says what each thread may
  have read from the other. After a failed creation nothing more happens.
* Message queue, for any number of runs started one after another and killed
  anywhere: `RunsAreExclusive`. `QueueIInv` says that an active run works on the
  queue it has created, that the name stands for that queue until the parent
  unlinks it, and that a queue and what was received from it hold messages of its
  own run. `RunsAssumption` numbers the runs from 1 because they begin in that
  order.
* Select client, for any number of lines: `ReturnsWithEverything`, since no line is
  lost between client and server until one of them ends (`LinesKept`).
* Joiner, for every number of threads, with failing creations and spurious
  wakeups: `JoinTypeCorrect`, `CountersExact`, `JoinSafe`, `WakeupNotLost`, both
  combined in `MainNeverStuck`, and `ExitAfterJoins`. `IInv` of `PthreadJoin` adds
  what the properties leave out: who owns the mutex at which program counter, which
  threads have been created, and the counters as cardinalities of sets of threads.

### Servers

`ChatroomProof` proves `EveryoneIsHeard` and `NothingIsMissed` for every set of
clients, of slow ones among them and every size of the table. `Connections` says
that an open client is behind one descriptor, which `client_list_fd` holds: that
the list holds others as well, and some of them twice, then does no harm
(`EntriesAre`), since a closed descriptor stands for nobody and a reused one for its
new owner. `Announced` is `UnreadHasEvent` without the excuse of a `sockfd` whose
reading is over; `Waiting` says that an event on `listenfd` finds somebody to accept;
`BooksKept` that the history of every client is as long as the conversation.

`SelectServerProof` proves `OpenStaysServed`, `ReadNeverBlocks` and `WalkIsComplete` for
every set of clients and every size of the table. `Distinct` and `Places` say that
each open descriptor is in `client[]` exactly once and not beyond `maxi`; there is
always a free place by the pigeonhole principle. `Walking` says that `nready` is the
number of ready clients the walk still has before it, plus the listening socket:
then the `break` of line 79 skips nobody, and each is still readable when its turn
comes, since only the server reads.

`ConnectionsProof` covers the systems of `MCConnections`.

* Epoll servers, for every set of clients, every limit of descriptors, all four
  programs and both outcomes of the handler's `send`: `NothingIsForgotten`,
  `AcceptSucceeds` and `AskersAreServed`. `EpollIInv` adds that an event in the batch
  has something to be handled (a connection in the backlog, a datagram), that
  level-triggered events are repeated, and what goes with the places of the loop.
* CGI worker, for every stream and every buffer: `FirstLineIsRun`. `CgiIInv` says that
  what was searched so far holds no end of a line, except that a CR at its end
  is searched again.
* HTTP parser, for every set of streams of whatever bytes, NUL included, every
  buffer and every way to cut a stream: `AnswersAreRight` and `NeverWaitsInVain`. `InBuffer` says that the buffer holds what has
  arrived, with NULs where `parse_line` put them; `SoFar` how far the reference
  `Verdict` has been decided, that is, which lines have ended and that nothing
  before `start_line` was bad; `Waiting` that nothing between `checked_index` and
  `read_index` ends a line but perhaps a last CR. `RequestLineIs`, the longest lemma,
  shows that the pointer arithmetic of `parse_requestline`, lines 65 to 91, finds in the
  buffer what the reference finds in what the stream's first line shows (`SeenIs`).

`ConnectionsAssumption` says that the constants have the types the modules give
them and that somebody may ask.

### What the proofs leave to TLC

Liveness under fairness, `RunsEnd` and `Termination` included. Type invariants of modules
with an `IInv` are conjuncts of it.


## Findings

Five comments of the sources say something the programs do not do; each is a
run whose property TLC violates.

* `KeepAlive_handler`: `alarm_keeplive.cpp:8` says the handler makes the main
  loop close idle connections. The send fails with `EFAULT` (line 39) and no idle
  connection is ever closed.
* `KeepAlive_unread`: `epoll_LT_ET_servertest.cpp:65` says that with edge
  triggering everything must be read; `alarm_keeplive.cpp:150` reads once, and
  what is left has no event to come.
* `Chatroom_waiting`: `epoll_chatroom.cpp:6` says a message reaches every client
  connected to the server. Of two clients that connect together one is not
  accepted until somebody else connects (line 61).
* `Wheels_rearm`: `timer_wheel.h:63` (and 32) says that `rotation` is the number of
  turns after which a timer is triggered. A timer that a callback adds for N ticks
  has rotation 1 and is triggered after two turns. A handler that re-arms its own
  timer is such a callback; between ticks the same call is on time.
* `Connections_blank`: `http_parse.cpp:96` says that an empty line shows that a
  request has been received, and line 17 that `GET_REQUEST` means a complete one.
  Line 97 takes a header that begins with a NUL byte for that line, and the server
  answers before the request has ended.

Observed while modelling, and part of the models without a run of their own:
the list is not sorted after the clock was set back (`list_timer.h:87`);
`client_list_fd` is never cleaned (`epoll_chatroom.cpp:84`); the select server
blocks in `accept` after a client has left (`selectserver_test.c:68`); the parent
of the echo server leaks connections (`my_echo_ser.c:69`); a failed
`pthread_create` keeps `main` waiting for ever (`pthread_test.c:66`);
`http_parse.cpp:84` moves a pointer past its string; the handler of
`epoll_sig.cpp:32` sends nothing, as that of `alarm_keeplive.cpp`; a client that
resets keeps a CGI worker in a loop for ever (`CGI_server.cpp:42`); `num` may not
be 3 where `pthread_end_test.c:33` says so; the filter waits for an answer to
nothing when standard input fails (`parent_child_communicate.c:59`); a queue that
a killed run of `mq_test.c` has left stops every later one at line 13, and a
child whose send fails leaves its parent waiting.

## What is not shown

* Only model-checked, on the instances above: liveness (`RunsEnd`, `Termination`,
  `Served`, `ServedAndReaped`, `ServerIsHeard`, `WorkerReturns`, `StopsWhenTold`),
  since fairness and ENABLED are out of the prover's reach; and the five
  properties expected to fail, which have counterexamples and no proof.
* Contents are abstracted: data is counted in chunks; what is echoed or printed
  is left out. A chunk is what one `recv` returns.
* Memory errors appear only where a state tells them apart (`live` in the timer
  list and the wheel); the compiler is taken to do what the source says.
* Kernel behaviour is modelled from the manual pages as far as the code depends
  on it: lowest free descriptor first, edges that are told once, `select` that
  fails on a closed descriptor, signals that do not queue.
* A send to a client that has reset its connection kills the server at once
  (SIGPIPE); Linux first reports the reset as an error of one call. The models
  leave that call out. They also leave out an `epoll_wait` that fails in the chat
  server, `maxfd` of the select server (it only grows, so `select` always looks
  far enough), and `add_timer` of the wheel with a negative timeout, whose `return`
  without a value is undefined.
* Some hazards are in the models and excepted by the properties, because nothing in
  the repository promises that they do no harm: a failed `pthread_create` or `fork`
  (`Termination`, `ServedAndReaped`), a closed descriptor in `allset` (`Served`), a
  client that resets a CGI worker (`WorkerReturns`), a URL shorter than the 7 bytes
  it is moved on (`AnswerIsVerdict`), a datagram left behind (`SomeAskerIsServed`
  permits it as long as not everybody waits), and killed runs of `sem_test.c`
  (`RunsEnd`).

## Plan

Written in this order, the most important behaviour first:

1. done: `SortTimeList`, `TimerQueue`, `ListTimer`, `KeepAlive` (composition of
   the list with the server), `Sessions`.
2. done: `TimeWheel`, its proof, `WheelLists` and the refinement between them.
3. done: `PthreadJoin` and `EchoServer` with their proofs; `Chatroom`,
   `SelectServer`, `HttpParse`.
4. done: `PipeUpper` with its proof; `EpollServers`, `CgiConn`, `NamedObjects`,
   `SharedCounter` with its proof, `NetClients`, and the two modules that check them.
5. done: proofs for `SortTimeList`, `ListTimer` with its refinement, `KeepAlive`,
   `SelectServer`, `EpollServers`, `CgiConn`, `HttpParse`, `NamedObjects` and the
   select client, `WheelLists` with its refinement, `Chatroom`;
   the refinement of `Sessions` by `KeepAlive`.
6. compositions and abstract specifications to add: the chat client of
   `NetClients` with `Chatroom` and its select client with `SelectServer`; a
   broadcast service that `Chatroom` implements.

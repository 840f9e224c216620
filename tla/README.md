# A TLA+ verification of Natural C (libnc)

Natural C is a C library (strings, lists, hash tables, files, sockets, sessions,
servers, threads, a resolver) together with `ncc`, a translator that adds
exceptions and automatic objects to C. All of the library is written in that
dialect: every function has an implicit `__retval`, a bare call of a library
function is wrapped in `try()`, and local objects are constructed and destroyed
automatically. This directory models the parts of it whose correctness depends on
state that lasts from one call to the next, on several threads or processes, or on
what happens after a failure; it checks them with TLC and proves the most important
facts with TLAPS.

Contents: 1 inventory, 2 plan, 3 modules and code, 4 runs, 5 bounds, 6 fairness,
7 proofs, 8 disagreements between the code and its documentation, 9 what is not
modelled.

## 1. Inventory

| Part | Source | State it keeps | Operations |
|---|---|---|---|
| sessions | `session.c`, `nc_session.h` | a `session_t` per client: socket, state code, request and response | `session_new`, `session_accept`, `session_handler`, `session_close`, `session_destroy`, the controller's hooks |
| servers | `server.c` | the tables of `server_multiplex`, the table `CONTROLLER` of hooks | `server_multiplex`, `server_accept`, `server_new`, `server_socket`, `drop_privileges` |
| sockets | `socket.c` | descriptor, status bits, the list `read_buf` of lines not yet delivered | `socket_bind`, `socket_accept`, `socket_readline`, `socket_close`, output, credentials |
| lists | `list.c` | `head`, `tail`, `count`; entries with `next`, `prev` and a string | push, pop, shift, unshift, get, delete, copy, move, merge, reverse, sort, truncate, serialisation |
| hash tables | `hash.c` | buckets, each a list in which keys and values take turns; a count | set, get, delete, truncate, copy, conversions, existence tests |
| strings | `string.c` | buffer, size, length, owner flag | copy, move, resize, append, print, truncate, alias, swap, search, escape |
| files | `file.c` | none of its own; the file system | `file_write`, `file_read`, `file_copy`, `file_lock`, wrappers of system calls |
| processes | `process.c`, `signal.c` | the pidfile | `pidfile_create`, `pidfile_kill`, `process_daemonize`, `process_create` |
| resolver, users | `dns.c`, `passwd.c` | two mutexes; static storage of the C library | name, address, service, user and blocklist lookups |
| exceptions | `ncc`, `nc_exception.h` | `__retval` of each call | `try`, `throw`, `throw_errno`, `throw_silent`, `return`, `catch:`, `finally:` |
| threads | `thread.c` | attributes of detached threads | creation, mutexes |
| the rest | `log.c`, `host.c`, `memory.c`, `test.c` | - | output and information |

How they interact. `server_multiplex` polls the listening sockets of several servers
and calls `server_accept` for each that is ready; that creates a session, takes the
connection from the listen queue and hands the session to a detached thread running
`session_handler`, which reads lines through `socket_readline` and calls the hooks of
the session's controller. Main thread and session threads share the heap and the
descriptor table, with no lock between them: a session belongs to one thread at a
time. `read_buf` and the buckets of hash tables are lists of `list.c`; list entries
are strings of `string.c`. The resolver and the user database serialize their calls
with mutexes. `process_daemonize` uses the pidfile functions, which use `file_write`
and `file_read`. Everything uses the exception macros, so what a failing call skips
is decided in `nc_exception.h`.

What is hard to get right here, and hard to test:

* *error paths*: `throw`, `throwf` and `try` are a C `return`; `throw_errno` and
  `throw_silent` are a `goto catch`. Which of the two a failing line is decides
  whether `catch:` and `finally:` and the destructors run.
* *concurrency*: descriptor numbers are reused while other threads hold sessions;
  static storage of the C library is overwritten by other threads; several processes
  use one pidfile, or write and read one file.
* *crashes and failures halfway*: of `file_write`, of an insertion into a hash table,
  of `str_copy`, of `drop_privileges`, of the set-up of a server.
* *state that is stale when it is used*: a size taken from a path, a lock on a file that
  has been replaced, static storage read after the unlock.
* *arbitrary cutting of a byte stream* into reads and timeouts.
* *sequences of calls*: several operations leave a structure in a state that only a
  later, different operation suffers from (`prev` pointers, a `tail` of NULL, a stale
  `len`).

What makes each part correct: sessions - no thread uses a destroyed session or
somebody else's descriptor, hooks come in order, limits hold, timed-out sessions go
away; multiplexer - each server runs its own controller and none starves; input -
lines are neither lost nor cut and come out in the end; lists and hash tables - they are
sequences and maps, also after a way through a text; strings - header and buffer agree and
every buffer has one owner; files - replacement is atomic, a copy is of one version, locks
exclude; privileges - the user id goes last, and success means a new user, a new group and the
jail; pidfiles - an instance is found by its pidfile; resolver - answers are not mixed up and
mutexes are released; exceptions - cleanup runs and errors reach the caller.
`PROJECT.json` lists the individual hazards at their lines.

## 2. Plan

Order of work, most important behaviour first:

1. `SessionServer` (two kinds of threads, all error paths), with proofs. Done.
2. `Multiplex`, `Readline`: the two loops around it. Done.
3. The data structures under it: `NcList` refining `ListADT`, `HashTable` refining
   `MapADT`, `StringBuf`. Done.
4. Processes: `FileWrite` refining `AtomicFile`, with proofs; `PidFile`. Done.
5. `Resolver`; `NccFunction`, with proofs. Done.
6. `ServerStart` (`drop_privileges`), composed with `Multiplex`; `FileOps` (`file_copy`,
   `file_lock`), composed with `FileWrite`; `Text`, the formats that lists and hash tables
   are written in, used by `NcList`, `HashTable` and `Readline`. Done.
7. Proofs for any number of processes, threads, strings, servers: `PidFile`, `StringBuf`,
   `Resolver`, `Multiplex` with `ServerStart`, `FileOps`. Done.
8. Proofs that need induction, over lines, cells, entries and texts: `Readline`, `NcList`,
   `HashTable`; and of `NoOrphan`, with the environment it needs as a hypothesis. Done.
9. Proofs of the refinements of `MapADT` and `ListADT`, with the lemmas about the texts of
   lists and tables (`TextLemmas`). Done.
10. Worth doing next: `process_create` with its retries (`process.c:215-253`), a stack of
   calls for `NccFunction`, `socket_connect`.

`SessionServer` is composed of the actions of the main thread and those of the
session threads over the shared kernel and heap. `Multiplex` abstracts `server_accept`
to one step, `PidFile` abstracts `file_write` to one step: `FileWrite` shows that it
may. `ServerStart` and `FileOps` extend the module they are composed with: their steps
interleave with its own and share its variables (`root`; the directory and its inodes).
No module of the project declares a RECURSIVE operator.

## 3. Modules and code

| Module | Models | Run or proofs |
|---|---|---|
| `SessionServer`, `MCSessionServer` | `server_accept`, `session_handler` and what they call | `Sessions_*`, `SessionServerProofs` |
| `Multiplex` | `server_multiplex`, port selection | with `ServerStart` |
| `ServerStart`, `MCMultiplex` | `drop_privileges` before it | `Multiplex_loop`, `MultiplexProofs` |
| `Text` | splitting, joining, URI encoding, serialized lists and tables | used by the next three, `TextLemmas` |
| `Readline` | `socket_readline` | `Readline_chunks`, `TextProofs` |
| `NcList`, `MCNcList`; `ListADT` | `list.c`; what its comments promise | `List_pointers`, `NcListProofs` |
| `HashTable`, `MCHashTable`; `MapADT` | `hash.c`; what its comments promise | `Hash_map`, `TextProofs` |
| `StringBuf`, `MCStringBuf` | the buffers of `string.c` | `String_buffers`, `StringBufProofs` |
| `FileWrite`; `AtomicFile` | `file_write`, `file_read`; atomic replacement | with `FileOps` |
| `FileOps`, `MCFileOps` | `file_copy`, `file_lock` on the same path | `FileWrite_atomic`, `FileOpsProofs` |
| `PidFile` | the pidfile functions and `process_daemonize` of `process.c` | `Pid_files`, `FileOpsProofs` |
| `Resolver` | the mutexes of `dns.c` and `passwd.c` | `Resolver_calls`, `CallProofs` |
| `NccFunction` | a function as `ncc` translates it | `Ncc_call`, `CallProofs` |

The operators that a comment beginning with "Mutant" introduces are wrong variants of the
definition after them; no specification uses them. They show that the properties
notice: replacing the definition by the variant makes TLC report the property that
`PROJECT.json` names.

### SessionServer

The kernel is `backlog` (listen queue), `fdtab` (descriptor to connection) and the
clients' ends. A session is a record spread over functions of the session: `mem` and
`sockmem` (allocated, freed, or "stripped" where `session_destroy` stopped at a failing
hook), `state`, `fd`, `connected`, `timeout`, `conn` (history: the connection that
`accept(2)` returned) and `hooks` (history: the hooks invoked). `main`/`cur` and `pc` say
where the main thread and each session thread are; one action is the stretch between
two points at which another thread can interfere, that is between two system calls or
hooks. `Poll` is every return of `server_accept`, the raw returns of `throw` included:
its `catch:` block (`server.c:316-321`) is unreachable and so does not occur.
`MayFail` selects the failures: allocation, each hook, `getpeername(2)` and `accept(2)`
of a client that is gone, thread creation, `close(2)`. `SESSION_TIMEOUT` is a hook number
with the value 4 that the code stores in `session_state`, where 4 is `SESSION_IDLE`; the
model keeps the numbers. A handler may store one of `QuitStates` or call `session_close`.

### Multiplex

`SetupServer` is one iteration of the two nested loops: the constructor, `server_socket`,
the registration with the first address, `socket_bind`, the table entry. The port goes
through `Configured`, `socket_new_inet`, `socket_bind_inet` with `htons` computed, as the
code compares it in network byte order. `root` is whether `getuid()` is 0. `Poll`,
`Examine`, `ExaminePast` and `EndScan` are the loop with its variables `i`, `j`, `n`;
`ExaminePast` is the entry after the last, whose content is arbitrary.

### ServerStart

One action per step of `drop_privileges`, in the order of `Then`; each step can fail, and then
the call returns -1 and the program ends or goes on with the ids it has by then
(`AfterFailure`). Ids are "root", the "other" one of a process that was not started by root,
and the "target", which may be root's as well (`FindGroup`, `FindUser`). `chrootdir` may be
empty, and then `chdir(2)` can only fail. `Setuid` changes `root`, and with it which ports
`Multiplex` can bind. `groups`, the supplementary groups, is changed by nothing: the code calls
neither `setgroups(2)` nor `initgroups(3)`. The call in `server_prepare` is not compiled, so
whether a program calls `drop_privileges` is left open: `at` is "called" or "main" at first.

### Text

Texts are sequences of character codes, and the operators are the functions of the code
(`str_split`, `str_join`, `str_escape`, `str_unescape`, `list_serialize`,
`list_deserialize`, `hash_serialize`, `hash_deserialize`) as what they compute. Iterations
are recursive functions. Of the regular expressions only the two that serialization uses
are there: the leftmost key, and the replacement of the first match.

### Readline

The stream is a sequence over x, CR and LF; `ReadBytes(n)` is one `read(2)` with any
number of the bytes that have arrived. `Finish` is the part of the function after its
read loop. The one pointer fact kept is whether `read_buf->tail` is NULL. `taken` and
`given` are history. A CR occurs only before an LF: a lone CR at the end of a piece is
dropped by `str_chomp` although it belongs to the line. A NUL byte, which would end the string
that `strsep` cuts up, does not occur in the stream either. `Buffered` is the test at the
beginning of a call: with a fragment at the end of `read_buf` the complete lines before it
are not returned either.

### NcList and ListADT

Entries are heap cells; every pointer assignment of the code is there, and a step that
follows a NULL or freed pointer sets `fault`. `list_unshift` and `list_merge` leave `prev`
pointers unset, and `oneway` remembers on which lists. No call is forbidden there: a pop, a
reverse or a delete that meets such a pointer (`LeadsBack`), and the merge of an empty list, which
loses the tail, are steps and set `derailed`. After that the properties say nothing; before it they
say that no other call follows a bad pointer.

Operations that push several strings (`list_copy`, `list_from_char`) are one action, `Refill`.
`list_sort` is computed as its passes, with the comparison of the first two strings that the
code really makes, as strings or as the numbers they stand for (`NumberOf`). `JoinSplit` and
`Transfer` take a list through `str_join` and `str_split`, or through its serialized form, into
another list.

`ListADT` states what the comments of `list.c` promise: a sort sorts, a text brings the list back.
What the code does instead is not among its steps but apart from them, in `Departure`: a sort of
more than two strings only rotates (`SortRotates`), the offset behind the last element is accepted
(`DeletePastEnd`), no lines are read as one (`NoLines`), empty strings get lost in the serialized
form (`EmptyWords`), two empty lists are unequal (`EmptyUnequal`). `ImplementsList` says that every
call either keeps its promise or is one of these five, listed with their comments in section 8.

### HashTable and MapADT

A bucket is a sequence in which keys and values take turns, or NULL. `Search` compares
with all entries, values too, as the code does. An insertion has its three points of failure. An
update that fails has freed the old value already (`str_copy`): what is left is a string
without a buffer, its key is in `lost`, and a search that compares with it follows NULL
(`Blocked`, `fault`). `hash_copy` follows NULL too, unless the source has no bucket.

`spoilt` is set by the calls that leave a table the model does not follow further: a value is
stored that is equal to a key of its own bucket (not `Storable`), so that searches take one for
the other; the automatic variable `ptr` of `hash_serialize` frees an entry of the table that the
program goes on with; a value goes through a text that cannot represent it. `Representable` values
are those of one line, or of two of which the second is not empty. `Reload` serializes the table
and reads it into a new one, with or without enough memory; `Reread` is a value after that.
`hash_from_list` frees the string of the last key it used, which the caller's list still holds:
`list` shows it as NULL.

`MapADT` states what the comments of `hash.c` promise, among them a copy with all the keys,
pairs from consecutive arguments, and an untouched map after a failed update. Apart from these
are the departures: `UpdateEmpties`, `ThirdStored` (`hash_from_char` stores its third argument
under the first) and `KeyFreed` (`hash_from_list`). `ImplementsMap` says that every call that does
not end in `fault` or `spoilt` keeps its promise or is one of the three.

### StringBuf

A string is its header; a buffer is its real capacity and the position of its first NUL.
`fault` is a write outside a buffer, a write to or free of memory not on the heap, or a use
of NULL. Operations with the same effect on header and buffer share an action: `InPlace`
(case conversion, `str_translate`), `Rebuild` (escaping, substitution), `str_ncpy`
(`str_cpy`, `str_time`). `str_prepend` and `Rebuild` work with a string of their own, which
takes a free buffer meanwhile. Failing allocations are `CopyFails`, `VprintfFails` and
`ResizeFails`; one in `str_new` (`string.c:438-439`) leaves the caller without a string and
is a stuttering step. A string that lost its buffer keeps, after `str_copy`, its old `len`;
`Usable` says that the caller modelled only destroys, truncates, swaps or overwrites it.
Aliased strings are local variables that are only read.

### FileWrite and AtomicFile

A directory entry, inodes, and a length in bytes per inode. One action per system call
of `file_write` (`mkstemp`, `write(2)`, `close(2)`, `rename(2)`) and `file_read`, a crash
between any two or inside `write(2)`. `file_fstat` takes the size from the path, as the
code does, and not from the descriptor; `moved` (history) says that a writer got between.

### FileOps

A user copies the path once, to a target all copies share, or locks it, any number of
times. The target is the sequence of the inodes its bytes came from, so that a mixture of
two versions shows; `Garbage` is a byte of an uninitialized buffer. `CopyDestination` is
the difference between a directory, into which a copy goes whatever is there, and a new
path. `fcntl(2)` locks are kept per process and inode, and `ReadLocked` loses them by closing
another descriptor of the inode, as POSIX says. `cmoved`, `clonger`, `last` and `reread` are
history, for the properties.

### PidFile, Resolver, NccFunction

`PidFile` has one action per system call of `process_daemonize`, `pidfile_create` and
`pidfile_kill`; `KillReturns` is how the callers of `pidfile_kill` read its result. `file_read` is
two steps: the size comes from the path after the file has been opened (`ReadSize`), so a read that
another process overtakes may give a beginning of the number. `orderly` (history) is false once
two calls have overlapped or a `kill(2)` or `unlink(2)` has failed.

`Resolver` gives each of its functions its path of labels, which says whether and how
long it holds the mutex and whether it copies the result before it unlocks; the functions
for groups use reentrant routines, and answer without one for "root" and "wheel".
`dns_library_init`, `dns_get_mx_list` and `dns_get_txt_record` call routines that share the state of
the resolver without the mutex (`Unlocked`): when one of them overlaps another lookup
(`Meets`), both threads are in `raced` and may get any thread's answer. `DNS_LIB_INIT` and the early
returns of `dns_library_init` are there (`InitReturns`).

`NccFunction` is one call: constructors, body, catch, finally, destructors, with each kind
of statement free to occur anywhere. A `return` in the finally block leads to the start of
that block, as `ncc` translates it.

## 4. Runs

| Run | Shows | States |
|---|---|---|
| `Sessions_lifecycle` | all failures: sessions in use are allocated and have one owner; their descriptors are their own until a `close(2)` fails; the client limit; the order of the hooks | 290 613 |
| `Sessions_clean` | without failures but that of thread creation: nothing is orphaned, timed-out sessions are torn down, the listen queue drains | 19 615 |
| `Sessions_orphan` | violation: at the client limit the session and its descriptor are orphaned (section 8) | |
| `Multiplex_loop` | who is not root any more has the new group and sits in the jail, also after a failure, and a 0 from `drop_privileges` means all three; controllers, ports and tables match; a scan serves all it should; no starvation | 524 928 |
| `Readline_chunks` | the lines are those of the bytes taken, however cut; the fragment is where the code looks for it; complete lines come out unless a fragment stays behind them | 50 510 |
| `List_pointers` | until a call derails: pointers, ownership of entries, and the refinement of `ListADT` but for its departures, with lists as texts | 13 817 |
| `Hash_map` | until the table is spoilt: the pairs stay intact under failures, NULL is followed only by `hash_copy` or after a failed update; the refinement of `MapADT` but for its departures, with the table as a text | 20 160 |
| `String_buffers` | header and buffer agree; each buffer has one owner | 28 341 |
| `FileWrite_atomic` | the refinement of `AtomicFile`; undisturbed readers get the whole file; a copy is of one version; locks exclude on one inode | 1 261 379 |
| `Pid_files` | without overlap an instance has its pidfile until a start that is refused finds it, and a pidfile is never overwritten; calls end in any case | 274 509 |
| `Resolver_calls` | answers are one's own, but for `passwd_get_name_by_id` and lookups that met one without the mutex; mutexes are released | 99 087 |
| `Ncc_call` | cleanup, the guard of the catch block, the result, termination | 494 |

## 5. Bounds

* *Sessions*: two connections, two descriptors and a limit of 1 (one session may be
  served, the next is over the limit) and three session objects, so that one object can
  leak and a descriptor number is still reused by a third session; two lines per client
  (`Sessions_lifecycle`). The liveness run has one line per client and no symmetry.
* *Multiplex*: two constructors, one of them PF_LOCAL, two addresses: the loops advance
  in all their ways; room for up to three controllers (`ControllerMax` 4, from 1), with 0 or 2 taken
  before, so that the table fills up in the middle; a queue of two clients; port 25,
  which moves for everybody but root, and the default port -1. `drop_privileges` has no
  bound: the run has all its paths, with and without a `chrootdir`, in front of every way the
  set-up can go.
* *Readline*: six bytes reach every combination of a complete line, CR LF across two
  reads, several lines in a read, a fragment and its completion in a later call.
* *NcList*: three entries, two lists, three values: list_entry_delete has its four cases with three
  entries, copies and merges need two lists, a rotation is not a sort from three strings on. The
  values are the texts "", " 12" and "9": the one that serialization cannot tell from its
  neighbour; the separator, escaped, before a digit that could be taken for part of the code;
  and two numbers that strings order the other way round.
* *HashTable*: three keys, two of which share a bucket, and a table of up to three pairs. Five
  values: the empty one; one equal to the third key, which is harmless or not depending on its
  bucket; two of two lines, with and without a line feed at the end; a lone line feed, which no
  text represents. Nine lists for `hash_from_list`, that repeat a key, share its bucket, or do not.
* *StringBuf*: two strings and three buffers (a copy needs a free one), sizes up to 4.
* *FileWrite, FileOps*: an old file of 2 bytes and two writers with buffers of 1 and 3
  bytes, of which 3 is more than `STRING_MAX`: a reader or copier can be overtaken by a file
  that is shorter or longer. One reader; two users, of which one copies into a directory, so
  that a copy can meet a longer target; two are enough for a conflict of locks.
* *PidFile*: four processes: an instance, a refused start, a stop and another start.
* *Resolver*: two threads, each in any of thirteen functions (and `dns_get_inet_by_name` once
  more, as the end of `dns_library_init`), and two blocklists. Mutual
  exclusion and mixing of answers are matters of two threads.
* *NccFunction*: four objects and blocks of up to eight statements; the proofs make the
  bound immaterial except for `Terminates`.

`CHECK_DEADLOCK FALSE` is set where clients stop coming, processes exit or the bounded
supply of sessions, bytes or processes is used up; lists never stop.

## 6. Fairness

Weak fairness throughout, and only of the program's own threads: the operating system
keeps scheduling a thread that can run. Clients, crashes and failures are under no
obligation.

* `SessionServer`: the main thread and every session thread. A blocked `read(2)` is not
  waiting for ever because `session_accept` sets a receive timeout, so `ReadTimeout` is
  always possible on an open connection.
* `Multiplex` with `ServerStart`: the main loop as a whole, while the process is in it;
  `drop_privileges` is under no obligation.
* `Readline`: the application calls again when a call has returned without an error, and a
  call goes on once `read(2)` has something to return, `SO_RCVTIMEO` included. The peer may
  stop at any time.
* `PidFile`: each call, once begun; starting, stopping and exiting are not fair.
* `Resolver`: each thread. `mutex_lock` is only weakly fair, which suffices because each
  thread takes a mutex a bounded number of times.
* `NccFunction`: the next statement is executed.

## 7. Proofs

The theorems hold for every value of the constants under the assumptions named in the
modules (sizes are naturals, model values are distinct, `MayFail` is a set of known
failures).

Induction is over sets of numbers (`SetInduction`: a set of naturals that has 0 and with each
number the next is all of them), which the provers can use where an operator as a parameter
is beyond them. A recursive function of the model is characterised by its equation; that
some function satisfies the equation, and only one, is proved by such an induction first.

*`SessionServerProofs`*. `SessionTypeCorrect` is inductive by itself. `HeldSessionsLive`
needs `Ownership`: an object that a thread holds is live, its thread is not the main
thread's current one, and an object without memory is held by nobody - without the last
part `AcceptNew` could reuse one. `OwnDescriptorsOnly` needs `Descriptors`, which speaks of
all sessions and not only those held: a number other than -1 refers to the session's own
connection, and no two sessions have the same; it is preserved as long as `closes = "ok"`,
and `FailedStays` says that a failure is never forgotten. `ClientLimitHolds` needs `Limit`,
which follows the number from `accept(2)` to the test. `HooksInOrder` is an action property
that follows from `HookOrder`: which hooks have been called at each point of either thread.
`NothingOrphaned` has the environment as its hypothesis, `Provisioned`: nothing fails but the
creation of threads, no handler stores SESSION_UNDEF or SESSION_CLOSED, and there are no more
descriptors than the client limit and no more connections than descriptors; `Sessions_orphan`
shows what happens otherwise. Its invariant `Tidy` counts: descriptors in use and connections
waiting are together at most the connections, so a descriptor is free whenever there is
something to accept, and its number is below the limit.

*`FileOpsProofs`*, about `FileWrite`. `FileTypeCorrect` needs `Opened` (a reader past
`file_open` has an inode). `Settled` says that only a writer that is done has its inode at
the path, that what it stored is fixed by then, and that readers hold such inodes;
`InstalledFixed` is the lemma that installed inodes never change. From them
`ImplementsAtomicFile`: initial states map to initial states, `file_rename` to `Write`,
`str_read` to `Read`, all else to a stutter. `WholeWithoutShortWrites` assumes `"short"
\notin MayFail`. `UndisturbedReadsWhole` needs `Fresh`: until it has its size, a reader that
was not overtaken has the inode at the path.

*`CallProofs`, ncc*. `CleanupComplete` from `Cleanup` (which objects live during the
destructors, and that only the end of the finally block leads there); `CatchEnteredOnce`
from `CatchGuard` (`__retval` stays -1 after the catch block is entered, until a return in
that block or in the finally block); `ExceptionsReported` from `Failing`.

*`FileOpsProofs`*, about `FileOps`. `OpsKeepFileWrite`: copies and locks leave the variables
of `FileWrite` alone, so every behaviour of the composition is one of `FileWrite` and its
theorems, among them the refinement of `AtomicFile`, hold of it. `LocksHold` needs that an
open file was once at the path (`OpenInodes`), that a lock is kept until `file_read` or the
end (`LocksKept`) and that conflicting locks are on different inodes (`Exclusive`); two
different inodes at the path mean a `file_write` in between. `CopiesFaithful` follows a
copy: while it was not overtaken its size is that of the file at the path (`Sized`), then
that of the inode it has read (`Sourced`, which uses that installed inodes never change),
and what it wrote is what the target begins with until the next copy writes (`Delivered`).
`OverFacts` is the lemma about writing over the beginning of a file. It needs
`BytesAssumption`, that the value for "no file" is not a sequence of bytes.

*`FileOpsProofs`*, about `PidFile`. `PidfileNotOverwritten` needs `Alone`: while calls have been
orderly there is one at a time, and it has seen the pidfile go before it gets to `Write`.
`PidfileProtects` needs `Knows` as well: what the one call that is under way has read is still what
the pidfile says. So the pidfile it deletes is that of the process it has signalled, which is gone
with SIGTERM and is `Found` with signal 0 (`FoundStays`: for good).

*`StringBufProofs`*. The invariant is `Layout` (the header of every string fits its buffer,
a string without one has size 0, nothing has been violated), `NoLeak` and `NotShared`. None
of the three is inductive alone: that `free` is called for a string's own buffer needs that
nobody else has it, and that nobody else has it needs that only free buffers are allocated.
The operations fall into four kinds, each with a lemma: a string keeps its buffer
(`KeepStep`), gets another (`ReplaceStep`), loses it (`DropStep`), or resizes it
(`ResizedStep`).

*`CallProofs`, resolver*. `OnPath` confines each thread to the labels of its function; `Held` says
that between lock and unlock it owns the mutex, `Marked` that two threads which depend on the
state of one library at the same time have raced, since they cannot both hold its mutex.
`Fresh` then follows: nobody else can enter the routine between a thread's answer and its copy,
unless the thread is in `raced`. `Own` carries the answer to the end.

*`MultiplexProofs`*. About `StartSpec`, the composition. `Filled` and `Counts` follow the
two loops of the set-up: the table never outgrows its allocation, and the handle that is
reused for further addresses is that of the same constructor; `Entries` says what an entry
holds. That a port survives two conversions to network byte order is the lemma `SwapTwice`.
`Scan` relates the three counters to the set of servers served, by cardinality.
`PrivilegesGo` needs `Stages`: which ids have been set, and what has been returned, at each
step.

*`TextProofs`, sockets*. `LinesKept` and `FragmentFound`, for any stream and any way it is cut into
reads. The inductive invariant `Exact` says of each point of the loop how what has been taken
from the stream is spread over the lines given, `read_buf`, the local list and the buffer. It
rests on the lemmas about `strsep`: the pieces of `s \o t` are those of `s` and of `t` with the
two in the middle joined (`Glue`, `StrsepConcat`), which is what the code relies on when it
completes the fragment at the end of `read_buf` with the first piece of a later read. That a
line feed at the end of a read, and a CR LF cut in two, make no difference are `AllLF`,
`AllStrip` and `ChompPiece`; they use that a CR occurs only before an LF.

*`TextProofs`, hash tables*. `PairsStay`, for any keys, values, buckets and hash function.
The inductive invariant is `Followed`, that the table is spoilt or `TableInv` holds, which
says of every bucket that it is a list of pairs (`Paired`): keys at odd places, each
belonging to the bucket and occurring once, values at even ones, none of them a key of the
same bucket. The last part is in no property and is why the theorem holds: it keeps the
search from stopping at a value (`SearchFinds`); storing such a value sets `spoilt`. A
search that is blocked has met a key of `lost` (`BlockedLost`), so a fault comes of a failed
update. `BucketChanged` counts the pairs of all buckets by cardinality. `Reload` needs that
a table comes back from its text, by induction over the pairs: one pair more is a line or
two more (`SerializeAppend`, `LineAdded`), of which the parser makes that pair (`TakeOnly`,
`TakeFirst`, `TakeSecond`; `KeyFound` is about the leftmost match of the regular
expression). `TextRead` is the result: of pairs with representable values (`Written`)
`hash_deserialize` gives back the pairs, each value as `Reread` says, and does not fail.
Loading them into a new table is one `hash_set` after the other (`LoadedOK`), and a value
with a line feed added is not a key (`RereadStorable`).

`MapImplemented` is the refinement of `MapADT`. The abstract map is what a search finds in the
bucket of each key (`Look`, `MapOf`), so `TableInv` is all the invariant it needs. That
`hash_get_keys` and the text list every key once, and no other, is an induction over the buckets
in the order the code goes through them (`OrderCovers`, `AllKeysListed`); a list of the right
length with all keys in it is then any order of the map (`SameNumber`). `LoadedFilled` says what a
table loaded from a list of pairs finds, and `StepRefined` goes through the calls: the failing ones
(`FailedLook`, `MapFailed`) lead to the departures, or change nothing.

*`NcListProofs`*. `ListsIntact`, for any number of lists and entries, until a call derails (`Kept`:
`ListInv` before that, the types for ever). `HeapIntact` speaks of what
loops along the pointers meet and is not inductive: a push ends the list only if the
pointers of a free cell are NULL, and nothing may be said of `prev` on a list in `oneway`.
`Arranged` says that there is a cell for each place of each list, no two places sharing
one, with `next`, `prev`, head, tail and count to match and the pointers of all other cells
NULL. `WalkIs`, `ChainIs` and `BackIs` show that the loops meet these cells in order. Each
operation then is a rearrangement of the cells of one list (`Rearranged`) or a hand-over
between two (`TakenOver`).

`ListTypes` and `ListImplemented` add `Filled`, that the cells in use hold strings. The
lemma about each operation gives the sequence that the list becomes (`Becomes`; `BothBecome`
for `list_move` and `list_merge`), and `StepKept` matches it with the call or the departure
of `ListADT`. Two operations need an induction. `list_sort`: a pass compares the same two
strings at every step, so it either changes nothing or takes the first string to the end
(`SortPassIs`); the passes therefore make a rotation (`PassesRotate`), and the last has
found its two strings in order or one that is no number. With up to two strings this is the
sort that `ListADT` asks for (`SortStep`), with more it is `SortRotates`. Texts: the strings
of a list stay among the chosen values, and are the same, only because `str_split` takes
apart what `str_join` made and `list_deserialize` what `list_serialize` made. This is where
`TextAssumption` is used, that no string has a CR or LF in it.

*`TextLemmas`*, about `Text`. `LinesRead`: lines joined with line feeds and split are the same
lines, and no lines are one empty line. `EscapeRead`: unescaping undoes `str_escape`, but for an
empty text, which leaves the buffer as it was. `ListReread`: a list that is serialized and read
again is the same list, except that an empty text is read as the last one before it that is not
empty (`LastFull`), and a list of one empty text as no list. All are inductions over the pieces
or the characters. `TextProofs` and `NcListProofs` are built on this module.

Only model-checked: all liveness (`TimeoutTeardown`, `BacklogDrains`, `NoStarvation`,
`LinesComeOut`, `CallsEnd`, `Terminates`), since the prover does not do fairness and ENABLED.
Every invariant, action property and refinement of a run is a theorem.

## 8. Where the code and its documentation disagree

One disagreement is demonstrated by a run, because it concerns the core of the system:

* `Sessions_orphan`: `doc/docbook/spec.xml:35` says of an exception that "control will be
  transferred to the 'catch' label. This is normally done via the throw() macro", and
  `server_accept` has a `catch:` block (`server.c:316-321`) that closes and destroys the
  session. But `throw` is a C return: at the client limit (`server.c:275`), and after any
  failing bare call, the session object and its descriptor stay behind. The client limit
  is compared with the descriptor number, so orphaned descriptors also count against it.

The following were met while modelling. The models contain the behaviour of the code in
each case. The properties are stated so that they are true of it: the condition is named in the
property, or the case is a departure of the abstract specification, or it sets a variable
(`derailed`, `spoilt`, `lost`, `raced`) that the property names.

* Sessions. `session_handler` compares `session_state` with the hook number
  `SESSION_TIMEOUT`, equal to the state `SESSION_IDLE` (`session.c:436-437`,
  `nc_session.h:46-54,104-119`): a handler that stores `SESSION_IDLE` sets off the timeout
  hook. The result of `session_process_request` is discarded (`session.c:432`): after
  "truncated read(2), connection aborted" (`socket.c:902`) the loop reads from the dead
  connection for ever.
* Multiplexer. The scan runs to `n <= pfd_count` (`server.c:494`) and, with an error
  condition, which `poll(2)` counts and `j` does not, examines the entry after the last and
  then stops the server for "unhandled connection(s)" (`server.c:515-516`).
* Ports. "Non-root users cannot bind to ports lower than 1024" (`socket.c`), but the port is
  compared in network byte order (`socket.c:301`): the unprivileged port 8192, for instance,
  becomes 2052. For PF_LOCAL, `socket(2)` is called twice (`socket.c:564` and `336`), and the
  first descriptor is lost.
* Input. "If there is a complete line on the input buffer, return it" (`socket.c:848`): not
  while a fragment follows it (`socket.c:849`), and if the peer closes in the middle of a line,
  the complete lines before it are never returned. A timeout drops what the call has read.
* Lists. "A doubly linked list" (`nc_list.h:44`): `list_unshift` and `list_merge` leave `prev`
  pointers unset (`list.c:199`, `652`), and a later pop, reverse or delete follows them. "The
  destination list will contain all of it's original items plus all items from the source list"
  (`list.c:635-636`): merging an empty list loses the tail (`list.c:655`), and the next push loses
  the items. "Keep sorting until no unsorted elements are found" (`list.c:488`): only the first two
  elements are compared (`list.c:493`), which is enough for the lists of `selftest.c:618-631` and
  not in general. "Ensure that the element exists" (`list.c:831`): the offset equal to the count
  passes, nothing is deleted and the call succeeds. "@return 0 if a match is found, or -1 if there
  are no matches" (`list.c:331`): `list_find` returns 0 in both cases, the answer is in `result`.
  A list with empty strings does not survive serialization: an empty element comes back as the
  one before it, and `[""]` as an empty list. An empty list joined with line feeds is one empty
  line. `list_compare` finds two empty lists different (`list.c:549`).
* Hash tables. The search compares the key with the values too (`hash.c:73`). An update frees
  the old value before it has memory for the new one (`hash.c:168`, `string.c:280-286`): when it
  fails, a NULL stays in the bucket, and later searches compare with it. "Copy all elements from
  one hash table into another hash table" (`hash.c:244`): `hash_copy` copies into NULL buckets
  (`hash.c:256-259`). "Convert one or more char_t parameters into a hash" (`hash.c:508`):
  `hash_from_char` reads the value of the first pair twice, so that two arguments are refused and
  three store the third under the first. `ptr` in `hash_serialize` (`hash.c:401`) and `key` in
  `hash_from_list` (`hash.c:560`) are automatic objects to `ncc` (`ncc:283-292`, `600-601`), are
  made to point to a string of the table or of the list, and free it at the end.
  `hash_serialize` marks only the first line feed of a value (`hash.c:419`): a value of two lines
  comes back with a line feed at its end, and one of three lines, with an empty second line, or
  with a backslash or CR at the end of a line, does not come back. The test of this, with a value
  of three lines, is not compiled and notes a crash (`selftest.c:436-454`).
* Strings. "If TRUE, this object owns the memory and is responsible for free()'ing it"
  (`nc_string.h:95-96`): `str_destroy`, `str_resize` and `str_vprintf` free it in any case
  (`string.c:453`). When `malloc` fails, `str_copy` leaves the old `len` (`string.c:285`).
  `str_unescape` skips three characters after a `%` also where one digit follows, which can
  lead it past the end; `str_translate` never changes the first character.
* Files. `file_fstat` is a "Wrapper around fstat(2)" but calls `file_stat` on the path
  (`file.c:766`): a reader overtaken by a `file_write` between `file_open` and `file_fstat`
  gets the beginning of its file, or fails (this is what `~moved` in `ReadsWhole` excludes).
  A short `write(2)` is installed as if complete (`file.c:589`). The temporary name is the
  literal `"%s.tmpXXXXXXXXXX"` in the current directory (`file.c:619`). `file_copy` takes
  the size from the path before it opens it (`file.c:933`), and opens an existing target
  without `O_TRUNC` (`file.c:966`): a longer target keeps its end. A lock taken on a path
  excludes nobody who opens the path after a `file_write`, and is lost when the same process
  reads the path; `locked` is set by unlocking too (`file.c:373`).
* Pidfiles. "@return 0 if there is no exsting pidfile, or the pidfile is stale"
  (`process.c:83-84`): a stale pidfile makes the start fail once (`process.c:163`). The probe
  with signal 0 deletes the pidfile of the instance it finds (`process.c:174`), so that the start
  after the refused one is not refused any more.
* Resolver. The mutex "should be acquired before any calls to non-reentrant resolver
  routines" (`dns.c:58-59`): `dns_library_init` does without (`dns.c:86`), and so do the calls of
  `res_query(3)` (`dns.c:148`) and `res_search(3)` (`dns.c:492`), which use the global state `_res`.
  `passwd_get_name_by_id` reads static storage after the unlock (`passwd.c:270`). "Any
  blocklist that does not answer will be removed" (`dns.c:376`): only one with a negative
  answer is (`dns.c:406`).
* Exceptions. "These statements are guarenteed to be executed even if an exception is
  raised" (`doc/docbook/spec.xml:38`), "automatically destroyed at the end of the function"
  (`spec.xml:40`): not after `try`, `throw`, `throwf` or `require` (`nc_exception.h:34,88`).
  A `return` in the finally block is a jump to the finally block (`ncc:637-641`): it can go
  on for ever, and it resets `__retval`, so that a later `throw_errno` enters the catch
  block a second time.
* Privileges. `drop_privileges` looks for the name of the group among the users
  (`passwd_exists(&match, gid_str)`, `server.c:208`). Its `chrootdir` is "an empty string if
  chroot is not desired" (`server.c:178`), with which `chdir(2)` fails (`server.c:216`).
  Where `setuid(2)` fails, the caller gets -1 and a process that is root with the new group.
  The supplementary groups of root are kept in any case.

## 9. What is not modelled

Comparisons and the number and time conversions of strings, regular expressions beyond the
two that serialization uses: pure functions on characters. The client side of sockets,
output, `select` and credentials, and the attribute and directory functions of `file.c`:
single system calls with their error codes. `process_create`: a `fork(2)` that is retried,
and whose child returns to the caller after its function. `passwd_get_uid_map`: a sequential
read of `/etc/passwd`. The parsing of DNS packets. The text processing of `ncc`: a
line-by-line source translator, whose output is modelled and not its parsing. Logging, host
information, memory macros, the test driver: they keep no state that another part reads.
`PROJECT.json` lists them all.

Abstractions shared by the models: allocation never fails inside list operations (it does in
sessions, hash tables and strings); a byte stream has no NUL and no lone CR; process numbers
and heap addresses of sessions are not reused; `rename(2)` is atomic and `O_EXCL` names are
fresh; the hooks of a controller do only what `HandlerEffect` says.

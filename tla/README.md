# Verification of the AIQB daemon

`aiqbd` is a small daemon that accepts machine-learning problems and questions
("answers") over a socket, keeps the problems in files, and works through both
with one thread per job.  This directory holds TLA+ models of it, the TLC
configurations that check them, and TLAPS proofs about the core.  All paths are
relative to the repository; `fsdb.c` is `database/fsdb.c`, and so on.

To repeat the checks: `tlc -config <name>.cfg <module>.tla` for each run listed
below, and `tlapm` on `ListLemmas` and each module whose name ends in `Proofs` for the
proofs (`FsdbRingProofs`, the longest, takes some minutes).

## 1. The system

| component | state | operations | who runs them |
|---|---|---|---|
| main loop (`aiqbd/main.c`) | `problem`, `answer` locals | one problem and one answer per second: count the queue, extract the head of the list, examine, enqueue and start a thread, or put back | main thread |
| registration (`aiqbd/aiqbd.c` 28-87) | `_config.auto_increment`, a new file | take an id, write `p<id>.aiq`, insert in the list, reply | one thread per client |
| solver threads (`aiqbd/aiqbd.c` 161-193) | the job's status, the file's metadata | mark solved, rewrite metadata, move the job from the queue back to the list | one thread per job |
| problem lists (`database/fsdb.c`) | `_config.problems`, `_config.problem_queue`: circular doubly linked lists | insert, find, extract, count, last id, load, free | all of the above, no lock |
| answer lists (`answer/answer.c`) | `_config.answers`, `_config.answer_queue` | the same, plus id assignment on insertion | all of the above, no lock |
| problem files (`pack/pack.c`) | the files of `database_dir` | pack, unpack, read and rewrite metadata | registration, solver threads, start-up |
| parser (`parser/parser.c`) | token and message position of one connection | classify tokens, fill a problem or an answer, call the daemon, reply | client threads |
| accept loop (`aiqbd/aiqbd.c` 97-159) | the listening socket | accept, start a client thread | socket thread |
| configuration (`config/config.c`) | `_config` | defaults, arguments, file | main thread, before the others |
| daemonisation (`daemon/daemon.c`) | the pid file and its lock | fork, lock, handle signals | main thread |

The components meet in shared memory.  A problem lives in exactly one list at a
time; its `status` is `N` (new), `I` (in progress) or `S` (solved) in memory, and
on file it is `N` or `S`.  The file is written by the client's thread, rewritten
by the solver's, and read once at start-up.  Answers are never saved.  A client's
parser holds raw pointers into the answer list between a search and the reply.

What makes it hard:

* **no locks**: lists, `auto_increment`, statuses and answers are shared by all
  threads;
* **moves by hand**: a job being moved is in no list, only in a local variable;
* **extraction by id**: a solver takes "a job of my id" and not "my job" from the
  queue, and ids can repeat (copied files, racing registrations, uninitialised
  answer ids);
* **process death**: the file is truncated before it is written, `I` is never on
  file, ids restart from the largest one found;
* **positions**: a message is understood by counting its tokens, in 16 bits;
* **ignored results**: `pthread_create`, `chdir (rundir)`, `fwrite` and `fclose` of
  `_problem_pack`, `_problem_write_metadata`, an empty list from `_load_db` and the
  `-1` of a failed registration are not looked at;
* **one working directory**: every registration moves the whole process to
  `database_dir`, which may be relative, and files are opened by bare names;
* **one variable for all threads**: each client thread reads its descriptor through
  a pointer to the same local variable of the accept loop;
* **loading before locking**: a second daemon reads the database and takes its next
  id before the pid lock tells whether it may run.

What makes each component correct:

* main loop and solver threads: no job lost or listed twice; the queue bounded;
  one thread per job; every new job eventually solved;
* registration: fresh ids; an acknowledged problem survives any crash;
* files: the status in memory and on file agree, solved stays solved;
* answers: no use of a freed answer by the daemon's own threads; ids that tell
  answers apart;
* parser: what is handed over is whole and left alone; memory is given back;
* pack and unpack: a file is read back or refused, never half;
* lists: each implements a queue, every call returns, and freeing one frees each
  atom once and reads none after;
* accept loop: each client served by its own thread, everyone in the end, and every
  descriptor given back;
* daemons on one machine: one copy; what a client was told is saved stays saved;
* configuration: what is written in the arguments and the file is taken, and the
  value given last is what the stored one begins with.

## 2. Modules

| module | models | checked by |
|---|---|---|
| `ProblemPipeline` | problems: start-up, main loop, solver threads, registration, files, process death | `MCProblemPipeline` |
| `AnswerPipeline` | answers: registration, main loop, threads, requests, deletion, the heap | `MCAnswerPipeline` |
| `FifoLists` | what the list functions promise: queues whose calls take effect at once | abstract specification of `FsdbRing` |
| `FsdbRing` | the list functions statement by statement on `next`, `prev` and head pointers | `MCFsdbRing` |
| `TokenReader` | how the characters of a connection become integers, floats and commands | `MCMessageParser` |
| `MessageParser` | the parser's state machine: tokens to problems and answers, hand-over, memory | `MCMessageParser` |
| `ProblemFile` | `_problem_pack` and `_problem_unpack`, item by item, of files cut at any place | itself |
| `AcceptLoop` | the accept loop, client threads and descriptors | itself |
| `DaemonInstances` | several daemons: loading, detaching, pid lock, port, registrations, solving, ends, relative directories | `MCDaemonInstances` |
| `Configuration` | `_trim`, `_parse_args`, `_parse_file` and `_concat_path` as functions, with references | `MCDaemonInstances` |
| `ListLemmas` | what append, tail and removal do to a list without repetitions; least and largest elements of sets of numbers | proved |
| `ProblemPipelineProofs` | who works on a problem; what its files are worth; that solver threads find something | proved |
| `ProblemFileProofs` | what is read of a file cut anywhere, for problems of any size | proved |
| `AnswerPipelineProofs` | the inductive invariant of `AnswerPipeline` and its theorems | proved |
| `FsdbRingProofs` | rings between calls, the refinement of `FifoLists`, `_free_db` on a list of any length | proved |
| `MessageParserProofs` | what the parser hands over, for any sizes; the tokens of a text of any length | proved |
| `AcceptLoopProofs` | which thread serves whom, and who holds which descriptor | proved |
| `DaemonInstancesProofs` | the pid lock, and what daemons do to each other's files; the configuration for lines, arguments and paths of any length | proved |

`ProblemPipeline` and `AnswerPipeline` take a list call as one step.  `FsdbRing`
says when that is right: as long as calls on one list do not overlap
(`Overlap = FALSE`), the pointer code refines `FifoLists`, whose steps are those of
the pipelines, even with calls on different lists interleaved statement by
statement.  TLC checks that for three atoms and two lists, and `ListsAreQueues`
proves it for any number of atoms, lists and threads.  When they do overlap (`Overlap = TRUE`, which nothing in the code
prevents), atoms are lost: run `ring_insert`.  So the theorems about the
pipelines are about the daemon whose list calls are atomic; the gap is the
missing lock, and it is stated as a finding, not hidden.

### Correspondence with the code

`ProblemPipeline`.  A problem is identified with its contents.  `problems` and
`problem_queue` are the two lists, oldest first; `id`, `status` and `name` are the
header's fields and the atom's name; `disk` is `database_dir`, a function from
file names to a record of whose contents the file holds, the status in its
metadata and whether it is complete; the name `n` stands for `p<n>.aiq`.  `mpc` and
`mp` are the main loop's place and its `problem`; `spc[p]` and `sp[p]` the thread
started for `p`; `cpc`, `cp`, `cid` a client's registration.

| action | code |
|---|---|
| `Boot` | `_load_db` in any directory order, or empty-handed after a failed `malloc`; `_last_id_db (...) + 1` (main.c 46-47, fsdb.c 69-123, 230-244) |
| `MainCount`, `MainFull` | main.c 67 |
| `MainExtract`, `MainExamine`, `MainEnqueue`, `MainCreate`, `MainRequeue` | main.c 68-80, one action per call |
| `SolverStart`, `SolverWrite`, `SolverExtract`, `SolverInsert` | aiqbd.c 168-177 |
| `TakeId`, `StoreId` | `auto_increment ++` (aiqbd.c 33) as a load and a store |
| `OpenFile` | the header and `fopen "wb"` (aiqbd.c 36-62, pack.c 15-38): a file that exists and cannot be read, or a failure and no file |
| `Flush` | what stdio writes before `fclose`: metadata and a part of the contents (pack.c 65-98) |
| `CloseFile` | the rest (pack.c 65-102), or nothing on a full disk, which `_problem_pack` does not notice |
| `InsertProblem`, `Reply` | aiqbd.c 73-80, parser.c 326-336 |
| `Crash` | the process dies by a signal or otherwise: memory is gone, files stay |

The file of a problem is torn (`Torn`: no readable metadata), a part (`Part`: metadata
and not all of the rest, which `_load_db` loads, as it reads the metadata only) or
complete (`File`).  stdio may write more often than once before `fclose`; what the
daemon can tell apart is only whether the metadata, and whether everything, has
been written, so `Flush` is one step.  `Faults` names what may fail in a run: loading,
a registration before its file is open, the disk, `pthread_create`, and
`_problem_write_metadata`.

`AnswerPipeline`.  `freed` holds the answers given back to the heap; each step that
dereferences an answer records who did so after it was freed (`dangling`), and
nothing is said of what follows.  `id` starts as any value of `JunkIds`, because
`malloc` leaves it uninitialised (parser.c 385) and `_insert_queue` keeps any value
above 0.  `DeleteAnswer` and `FreeAnswer` are parser.c 297 and 302, `RequestSolution`
is 279, `ReplySolution` the look at the status (284), `WriteSolution` the reading of
the data while the reply is written (parser.c 33-47), `PrintAnswer` the reading of a
registered answer after its reply (355).  `MainCreate` may fail to create the thread
(main.c 90): the answer keeps its place in the queue for ever (`unserved`).

`FsdbRing`.  One action per statement of `_insert_db` (131-140), one per round of
the loops of `_find_db` and `_count_db`, three for the unlinking in `_extract_db`
(195-199).  `got` is what a search or count returned, `hand` the atom a thread
owns between allocation or extraction and insertion.  The refinement mapping
walks `next` from the head; `Held` says from which statement on an atom counts as
inserted or extracted.

`TokenReader`.  `ReadCharacter` is one round of the loop (parser.c 135-163); a
character is its class, a token the places of its characters; `Rounds` is what the
loop has after each character of a text, `Seen` the tokens at its end, and `Written` says without a loop which tokens a
text has.  The condition `Cuts` is needed: in `12#...` the comment drops the token
and leaves its two digits in the counts (parser.c 146 resets `token_index` only), so
that the next token may be taken for something else or for nothing.  Negative
numbers and exponents pass none of the three tests and are ignored.

`MessageParser`.  `problem` and `answer` are pointers of which `parser_state` uses one
at a time, so the model has one object: its `size` fields, the lengths its `array`s
were allocated with, the `cells` that were stored, and its `owner`.  An answer is an
object with one row and no cv, test and state parts.  The number of elements and
`malloc`'s argument are products of unsigned longs and wrap (`LengthOf`, `BytesFor`, in
words of `WordSize`); the sizes are fields of that width too (pack.h 51-58).

| action | code |
|---|---|
| `HeaderInteger` | positions 0-7 of a problem (168-234), 0-2 of an answer (247-274), each `malloc` and its failure |
| `NoSuchProblem` | 253-257 |
| `BodyInteger` | cv and test indices (236-245); elsewhere an integer only advances the position |
| `Float` | data and state (308-324, 339-345), the test for the end and the hand-over (326-337, 347-358) |
| `Register`, `RegisterWithoutMemory` | `reg:problem`, `reg:answer` (365-392); a `malloc` that fails is dereferenced before it is tested |
| `Command` | `req:solution`, `dlt:answer`, `lst:problems`, `lst:answers` (394-425) |
| `Solution`, `DeleteAnswer` | the id after a request (275-305) |
| `Close`, `HangUp` | `req:close` (427-442); end of the connection: `_parser` returns without freeing |

`ProblemFile`.  `written` is the length of the file in items; `Crash` and `DiskFull`
end the writing anywhere, and `_problem_pack` does not notice a full disk.
`ReadElement` and `EndLoop` are the four loops of `_problem_unpack`; `Checked` is what
the counter is compared with after each, which for the test indices is `cv_size`
(pack.c 206).  A pointer is wild or `NULL` before it is set, and freeing a wild one
leaves everything undefined (`FreedOf`).

`AcceptLoop`.  A thread is named by the connection it is created for.  `files` is the
table of descriptors, `fd` and `new_socket_fd` the two variables of the loop.

| action | code |
|---|---|
| `Accept`, `AcceptFails` | aiqbd.c 152; a connection that finds no free descriptor goes on waiting in `backlog` |
| `Store`, `Create` | 153, 154; `pthread_create` may fail (`Faults`) |
| `ReadArgument` | the first statement of the thread, 98 |
| `EndOfInput`, `EndOfParser` | `read` returns 0 (parser.c 135); `req:close` and the error exits |
| `ReplyToNobody` | a `write` of `_reply` to a client that has hung up: SIGPIPE, for which `_daemonize` installs no handler |
| `ReadClosed` | a descriptor another thread has closed: `read` is -1 for ever, and the parser takes it for a character |
| `Close` | `close` and `pthread_exit` (113-115) |

`client_len` is not set before `accept` reads it (152); if it happens to be negative
the kernel drops every connection, so `Init` leaves it open and `EveryoneServed` is
about the other case.

`DaemonInstances`.  A directory is a value, a configured path a function from the
directory the process stands in to the one it leads to (`NULL`: nowhere), so that
relative and absolute paths are told apart.  `pid_file` says who has the lock on the
pid file of each directory, `guarded` who went through `_daemonize`.

| action | code |
|---|---|
| `Load` | `_load_db`, `_last_id_db (...) + 1` (main.c 46-47); when the directory cannot be opened `_load_db` ends in a bare `return;` (fsdb.c 75), so the list is empty or the process fails |
| `StayUnguarded` | `no_daemon`, or a parent that is process 1 (daemon.c 45-48): no lock |
| `Daemonize`, `Lock` | daemon.c 50-108, 110-131; a `chdir` that fails leaves the process where it was |
| `Bind` | aiqbd.c 126-142; the main loop runs on without a socket |
| `TakeId`, `StoreId` | `auto_increment ++` (aiqbd.c 33) as a load and a store |
| `EnterDatabase` | `chdir`, or -1 (aiqbd.c 36-38) |
| `Refuse`, `Save` | -1 for want of memory or data (41-71); or the file, whole or torn on a full disk, where the process stands by then, the list and the reply (39-81) |
| `Solve`, `WriteMetadata` | the status in memory (168), and then on file under the name that was kept (169), if it can be written |
| `Stop` | a signal, or any other end |

Registrations and solver threads of one process interleave; `pending` and `writing` hold
what is under way.  The list and the queue through which problems pass are
`ProblemPipeline`'s subject, whose `Boot` finds no other process; `DaemonInstances` is the
environment in which that holds or fails.

`Configuration`.  `Trimmed` is `_trim` for one character, `Assignment` what one line
of the file comes to, `Argument` one round of `_parse_args` and `ArgumentRounds` all of
them, `LineRounds` the rounds over the lines of the file, `Concat` the name
`_concat_path` builds.  They are compared with references that say what is meant
without the loops of the code.  `_assign_config` copies a value without its final zero
byte into a block of just its length (config.c 76-77), so an option holds the value
and whatever bytes are behind it (`behind`).  `fgets` reads of a line the bytes the
buffer has room for (`Read`).  Characters are classes, and three options (one that
names the file, one with a value, one without) stand for the nine.

`_free_db` (fsdb.c 260-272) and `_free_queue`, its copy, are `FreeRound` and
`FreeRounds` in `FsdbRing`: a function of the ring as it is, evaluated in every state
in which no call on it is under way.

## 3. Runs

| run | bounds | shows |
|---|---|---|
| `pipeline_safety` | 1 preloaded and 2 new problems, 2 clients, queue of 2, 2 crashes, all five `Faults` | all invariants of the pipeline |
| `pipeline_twins` | 2 preloaded problems with one id in two files, 1 new one, queue of 2, 1 crash, threads and metadata writes may fail, fairness | `NewFileSolved` with duplicate ids |
| `answer_safety` | 3 answers, 2 clients, junk ids 0 and 2, requests for ids 0, 1 and 2, queue of 2, threads may fail | each answer in one place, a thread finds an answer, no stray use |
| `answer_live` | 3 answers, 1 client, queue of 2, threads may fail, fairness | `AnswerSolved` |
| `ring` | 3 atoms, two of one id, 2 lists, 2 threads, fairness | the ring is intact between calls, the queues are implemented, calls return, `_free_db` frees each atom once |
| `parser` | sizes 0 and 1, also as what `malloc` leaves; an index of 11 values instead of 65536, words of 16 values and elements of 8 bytes, so that two elements wrap; texts of up to 5 characters | what is handed over is whole and stores are in bounds, no message is stuck past its end, memory is given back, `TokensAsWritten` |
| `file` | rows and widths up to 1, other sizes up to 2, any cut | a cut file is refused, a whole one read if it has enough test indices; a refusal frees every array, and an unset pointer only of an empty one |
| `accept` | 3 connections, 2 descriptors, a backlog of 2, `accept` and `pthread_create` fail, fairness | `ServedByOne` (with `NoDescriptorLost`), `EveryoneServed`, `DescriptorsReturned` |
| `instances` | 2 daemons, 2 problems, 3 directories; `database_dir` absolute, a sibling (`../pack`), or below the start; `run_dir` absolute or not to be entered; lines of up to 15 characters and a buffer of 14, 4 arguments, files of 2 lines, paths of 5 characters | `OneCopy`, `AckedKept`, `SolvedRecorded`; `LinesTaken`, `OptionsTaken`, `NamesInDirectory` |
| `pipeline_new_file` | 2 clients, no faults | two registrations race for an id and share a file (expected violation) |
| `file_reads_back` | as `file` | a complete file with fewer test than cv indices is refused (expected violation) |
| `ring_insert` | 2 threads, overlapping calls | an atom inserted is on no list (expected violation) |

Why the bounds are enough to be interesting: two clients are needed to race for
an id; three problems let one be in the list, one in the queue and one in a
thread's hands at once; two crashes let an id be given out before, between and
after restarts; a queue of two places makes the solvers' extraction by id
choose, and is full in many states; an atom in a ring of three has a predecessor
that is not its successor.  Ids that clients ask for are bounded by `AskedIds`,
which contains 0 (the first answer), ids in use and ids not in use.
`MaxCount` bounds the local counter of `_count_db`, which could otherwise grow
for ever when calls overlap.

In `accept` three connections share two descriptors, so one is closed and used
again, and one client waits while none is free.  In `instances` one of two daemons can
load, be refused the lock, or run without it while the other registers; two
problems let one be registered over the other's file, by another process or by
another thread of the same one.

In `parser`, messages have 8 to 13 positions, so with `IndexSize = 11` the longest
ones wrap, as those of more than 65527 values do in the code: they never complete.
Sizes 0 and 1 make every part of a message empty and not empty in every
combination.  In `file` two elements let a loop end in the middle, and all orders of
`cv_size` and `test_size` occur.

Each property is also shown able to fail: next to the definitions of the models
stand wrong forms of them (an insertion that ignores an empty list, a check of the
queue's size that is off by one, a metadata rewrite that truncates, an id that is
reused after a restart...), and the property is violated when one takes the
place of the right definition.  `PROJECT.json` pairs them.

Some properties carry the condition under which the code keeps them; what they
exclude goes wrong in the code, and where a hazard of `PROJECT.json` is excluded its
note says so.  `miscounted` records that two accesses to `auto_increment` overlapped,
or that a start did not see the files and counts from 1: `IdsFresh` holds without
that, `AckedDurable` also with it for a problem whose file no other was given, and
`pipeline_new_file` shows what happens otherwise.  `unsaved` holds the problems that
came when the disk was full: they are acknowledged all the same (pack.c 100), are
gone after a restart, and their ids are given out again.  The properties say that
they harm no other problem.  `twins` records that an answer was given the id of an
existing one: without it no thread of the daemon touches a freed answer.  `unserved`
holds the problems whose thread could not be created or whose metadata could not be
written, and the answers whose thread could not be created; each that has no thread
keeps its place in the queue for ever, so `NewFileSolved` and `AnswerSolved` are
promised while places are left.

`strayed` records that a client has sent a token of another type than its position
calls for, or more than the index can count: `RegisteredWhole` and
`NoneStuck` are about the other messages, and `RegisteredWhole` about those whose arrays
have lengths that fit in a word in bytes (`Fits`): of `rows`, `size_x` and `size_y` of
2^30 the product wraps to 0 (parser.c 184).  A message without a single float is
complete only when a float is read, so it is never handed over; `NoneStuck` leaves
it out.  An object whose message is broken off by another command, or by the
end of the connection, is never freed; `NothingLeaked` is about `req:close` and the
error exits.

`overlapped` records that the accept loop stored the next descriptor before a
thread had read its own: after that one client may be served by two threads and
another by none, and nothing is promised.  `unthreaded` holds the connections whose
thread could not be created: their descriptors are never closed.  `EveryoneServed`
asks that a descriptor be free again and again, as clients may stay for ever, and
both liveness properties end when a SIGPIPE has ended the process.

`ServedByOne` has two parts: `ServesItsOwn` starts from the threads, `NoDescriptorLost`
from the descriptors: each open one is in the loop's hands or in those of the
thread that will close it.

In `DaemonInstances`, `RunSteady` says that `run_dir` leads to one directory from
wherever daemons are started (as an absolute path that exists does), and
`Leads(home)` that `database_dir` leads to `home` from each directory a daemon stands
in.  Without them two copies run, and a file is looked for in another place than
it was written.  A process is in `missed` when its loading failed or another one has
saved since, and `stale` records that one of these has saved a problem; `raced`, that
two registrations of one process loaded the same id; `unsaved` and `unwritten` what
the disk did not take.  `AckedKept` fails without each of these conditions: the lock
does not help, because loading precedes it.

`LinesTaken` is about lines that fit in the buffer and are laid out as `_trim` takes
them (`Laid`): seen from the key or the value tabs stand before spaces, and single
quotes before double ones, as in `aiqbd.ini` and `config.ini`.  `_trim` takes one character
at a time, `\r` before `\n` (config.c 208-209), so in a file with `\r\n` every value ends
in a `\r`: `Laid` counts it as the value's, and a blank or a quote before it stays too.
A value of nothing but quotes also stays.  `OptionsTaken` says of an option only what
it begins with: a value shorter than one given before may go on with the old one's
tail.  It leaves `no_daemon` out as the last argument, where it is ignored (config.c
174).  `NamesInDirectory` leaves out the root, which becomes `./` (fsdb.c 54).

`FreedOnce` does not say that `_free_db` is clean: from its second round on it writes
to the atom it freed in the round before (fsdb.c 268).  The property says that these
are its only strays, that nothing freed is read, and that each atom is freed once.

### Disagreements met while modelling

Three are runs that end in a violation, others are conditions above; these are neither:

* a registration that fails is answered `ok:problem:` with -1 as an unsigned long
  (aiqbd.c 37, parser.c 332), where aiqbd.c 26 says "@return problem id";
* `_last_id_queue` looks at one list, so a new answer may get the id of one in the
  other list (answer.c 22), where answer.c 104 says "max of ids";
* `CONFIG_DEFAULT_DATABASE_DIR` is never used: without a `database_dir` it stays `NULL`,
  where the repository's README promises `/var/lib/aiqbd`;
* the file overrides the arguments (main.c 38-39), but a shorter value does not replace
  a longer one (config.c 76-77 and its copies): the old tail may stay behind it;
* `_free_db` writes to atoms it has freed (fsdb.c 268);
* on a full disk a registration is answered with an id and nothing is saved (pack.c
  65-100), and after a failed `malloc` in `_load_db` the daemon writes over its files
  (fsdb.c 82-85), where aiqbd.c 22 says "saves the problem into a new file";
* `config->no_daemon - 0;` (config.c 39) assigns nothing, which a global does not need;
* `close (f)` is given a `FILE *` (config.c 229): the file stays open until
  `_daemonize` closes every descriptor.

### Fairness

Every thread that can take a step of its own code eventually does (weak fairness
per thread): the kernel schedules them preemptively and none of them waits for
another, and so does the accept loop.  The main loop takes its steps once a second.  Nothing is assumed of
clients (they need not send anything more), of restarts, or of crashes.  Weak
fairness is enough for `NewFileSolved` because the main loop's rotation brings every
problem to the head of the list; with insertion at the head instead the property
fails.  A thread that was not created takes no steps: that is why both pipelines'
liveness counts such failures.

`answer_safety`, `answer_live` and `ring_insert` do not check for deadlock: a use of
freed memory or of a `NULL` pointer ends the behaviour.  Nor do `accept` and
`instances`, where the process, or all of them, may have ended, and `parser`, `file` and `file_reads_back`: a connection ends, and so do a pack and an
unpack.  In the others a state without a successor would be an error.

## 4. Proofs

No theorem uses the fairness conditions of a specification, and each holds for every
value of the constants that satisfies the assumption of its module.

### Problems: `ProblemPipelineProofs`

For any number of problems and clients, any queue size, any number of crashes and
any combination of faults:

| theorem | property |
|---|---|
| `TypeCorrect` | `TypeOK` |
| `NothingLost` | `Conserved`: every problem in exactly one place |
| `QueueStaysBounded` | `QueueBounded` |
| `NoSecondSolver` | `OneSolver` |
| `SolversFind` | `SolverFinds`: a solver finds one of its id in the queue |
| `AckedStaysOnDisk` | `AckedDurable`: what was acknowledged and had room on the disk keeps its complete file, unless the counter was wrong and another problem was given it |
| `IdsStayFresh` | `IdsFresh`: while the counter counts right, no two problems have one id, over restarts too, unless both were there at first or the disk was full |
| `FilesAgree` | `StatusAgrees`: a problem has its file unless the disk was full, and the status there follows the one in memory, unless files are shared or not writable |

None of them is inductive.  For the first four, `Inv` adds that a new problem never
has a thread, that a problem being registered is in no list and nobody else's,
that a solver's hand is empty before it extracts, that between the check and the
insertion nobody else inserts, and that a file a solver rewrites exists
(`FilesKept`, `DeadIsEmpty`, `Registering`, `Working`).

`SolverFinds` is proved without counting.  A solver takes *a* problem of its id, so with
copied files one thread may take what was enqueued for another.  `Paired` says that
there is an injection from the threads that have not extracted yet into the queue
that keeps ids: when one thread takes the problem of another, the two exchange
theirs (`PairsKept`).

The files need these facts (`FilesInv`).  `Naming`: a problem is named once, and by its
id unless the file was there before.  `StatusFollows`: the status in memory follows
the thread.  `OwnFile`: a file that only one problem was named for holds that
problem, or nothing while it is being written or if the disk was full, and says
solved only when it is.  `NothingTaken`: as long as `miscounted` is false,
`auto_increment` is ahead of the id of every problem that has a file that can be
loaded, is in memory, or is being written, so that no file is taken over.  A crash
keeps them, because `Boot` takes the counter from the largest id on file; what was in
the hands of a client when the process died was never acknowledged, and a file of
which a part had been written keeps its id from others.

### Lists: `FsdbRingProofs`

For any atoms, lists and threads:

| theorem | property |
|---|---|
| `TypeCorrect` | `TypeOK`, whether or not calls overlap |
| `ListsAreRings` | `~Overlap => (Spec => []RingIntact)` |
| `ListsAreQueues` | `~Overlap => (Spec => ImplementsFifo)`: the pointer code implements `FifoLists` |
| `ShutdownFreesOnce` | `~Overlap => (Spec => []FreedOnce)` |

The hypothesis is the one under which the run `ring` checks the same properties,
and `ring_insert` shows that the code needs it.  `Overlap` is a constant: a system in
which calls on one list do not overlap has no other condition on it.

`RingIntact` says nothing of a list while a call is at work on it.  The inductive
invariant (`Inv`) therefore says that there is an order `s[l]` of the atoms of each list
such that each atom is in one place (`OnePlace`), the head is the first (`Headed`), a
list nobody works on is closed in both directions, and the call under way has
done to the pointers what its place in the code says (`Doing`): for instance, at
`"unprev"` the `next` pointers pass over the atom to be extracted and the `prev`
pointers do not yet.  That `Forward(l)`, the walk the properties and the refinement
mapping are written with, is this `s[l]` (`MetRing`) is shown by least counterexample,
with `WellFoundedInduction`.

For the refinement each step of `Next` is matched with one of `FifoLists`: `InsertHead`
and `InsertLink` are its insertion, `UnlinkNext` its extraction, unless the atom is the
first of the list, when `UnlinkHead` is; the last step of a search or a count is its
answer; every other statement is a stutter.  The rounds of `_free_db` are a recursive
function; `ShutdownFreesOnce` shows what it computes on a ring of any length: round
`n` frees the atom `n` places after the head, and the last one the head, and each
writes to the atom freed in the round before.

### Answers: `AnswerPipelineProofs`

For any answers, clients, queue size and whatever ids `malloc` leaves in an answer:
`TypeCorrect`, `NothingLost` (`Conserved`), `SolversFind` (`SolverFinds`) and
`UsesAreAllocated` (`StrayUseNeedsTwins`: the main loop never uses a freed answer, a
thread only after two answers were given one id).

Threads are paired with queued answers as problems are, but here a client may
delete any answer that is in the list, so `Places` says where the answers are
whoever has used a freed one meanwhile; `JustQueued` that the answer the main loop
has just enqueued is the last of the queue and no thread's yet; `Alone` that without
twins each thread meets only its own answer.

### Messages: `MessageParserProofs`

For any integers a client sends, whatever `malloc` leaves in the sizes, any width of
words, and any width of `parser_index` above the header's: `TypeCorrect`, `HandedOverWhole`
(`RegisteredWhole`), `EndIsSeen` (`NoneStuck`), `GivenBack` (`NothingLeaked`) and the action
property `RegisteredLeftAlone` (`HandedUntouched`).

`Allocating` says that each array is allocated after the last size it depends on, and
that no size changes after it; `Storing` that what is stored are exactly the places
of the positions before the current one; together with the layout of the arrays
(`Positions`) a message is complete exactly at its last position.  `Owned` says who
has to free what.

The tokens of a text (`TokensAsWritten`) are a matter of a recursive function and not
of a behaviour.  `EveryTextAsWritten` is about every text in `Seq(Class)`: `HasRead` says
what the loop knows after `n` characters (whether it is in a comment, where the token
under way began, what its counts are, which tokens it has acted on), one lemma
for each branch of `ReadCharacter` carries it from `n` to `n + 1`, and that it holds for
all `n` is shown by least counterexample, since an induction theorem with an operator
as its parameter cannot be used.  `ActsOnWhatIsWritten` is its instance in the terms
of the run.

### Files: `ProblemFileProofs`

For problems of any size (`MaxRows` and `MaxSize` are any numbers) and files cut at any
item: `TypeCorrect`, `CutFilesRefused` (`CompleteOrRefused`), `WholeFilesRead`
(`ReadsBackEnoughTests`) and `RefusalsFree` (`RefusalFreesAll`).

`Layout` says where the elements of each array are in a file.  `Reading` says that the
reader has stored exactly the items before its place.  There is one exception, which the
comparison with `cv_size` lets through: a file that ends among the test indices, after
at least `cv_size` of them, is read on with an end of file in the loop over the data,
and is refused there because a problem that is written has data (`Writing`).
`Pointing` says which of the four pointers have been set at each `malloc` and in each loop,
so that a refusal there frees them all.

### Connections: `AcceptLoopProofs`

For any number of connections, descriptors and places in the backlog: `TypeCorrect`,
`EachServesItsOwn` (`ServedByOne`) and `DescriptorsHeld` (its part `NoDescriptorLost`, which is
also the safety part of `DescriptorsReturned`).  `Ownership` adds that a thread's descriptor leads
to its own connection already before the thread has read it, and that the
descriptor the loop has just accepted is no thread's; `HandedOnce` that a
connection is accepted once.  With these `AllHeld`, the condition and
`NoDescriptorLost`, is inductive.

### Daemons: `DaemonInstancesProofs`

For any number of daemons, problems and directories: `TypeCorrect`, `OnlyOneCopy`
(`OneCopy`), `AcknowledgedKept` (`AckedKept`) and `SolvedOnFile` (`SolvedRecorded`).

A process leaves the directory of its lock when it registers a problem, so `Started`
says where the lock was taken and that a running process still has it.  For the
files, `Registering` says that a problem is in one registration at a time; `Counted`
that, as long as no two registrations of one process load the same id, those under
way have different ones, below the counter once they have stored it; and `AtHome`
(where `database_dir` leads to one directory) that a process which has missed no save
since it loaded knows every id whose file is sound, and that none of the ids it is
about to use has one.  That a set of ids with a bound has a largest one, as `Load`
takes it from the files, is proved with `WellFoundedInduction` (`Largest` in `ListLemmas`).

### Configuration: `DaemonInstancesProofs`

| theorem | about |
|---|---|
| `PartsTaken`, `LinesRead` | every line that fits in the buffer and is laid out as `_trim` takes it, of parts of any characters and length; `LinesTaken` |
| `OptionsFollowed`, `OptionsRead` | every sequence of arguments, files of any lines, and whatever memory holds behind a value; `OptionsTaken` |
| `ConcatLeadsInto`, `NamesLead` | every path of a directory and name of a file; `NamesInDirectory` |

The first of each pair is the general statement; the second is the property the run
checks, for any value of its bounds.  For the lines, a trim by one character is
characterised by what it leaves (a middle part that neither begins nor ends with
the character); `BareIs` follows the four trims of a line, and `Between` the two of each
side of the `=` and the two for quotes.  For the arguments, `HasTaken` says
which of them the loop has passed and that each option has the last value given
among those; for the lines of a file the same with every line.  For paths, the
walk over the path that was built passes through the walk over the directory's.  All
three run through a recursive function, again by least counterexample.

### What the assumptions say

That `NULL` is none of the things it stands beside (in `FsdbRing` also none of the
lists: an idle thread works on no list); that sizes and ids are natural numbers and
what must be finite is; that preloaded files have different names, and that one
called `p<n>.aiq` holds the id `n`; that `parser_index` can count the header; that
`FsdbRing` writes the query `NULL` of `_find_db`, which any atom answers (fsdb.c 155), as 0,
so that its atoms have ids above 0; that what a client sends, and `malloc` leaves, fits
in a word; that a buffer has room.  TLC evaluates each of them in the runs.

### Only model-checked

* Liveness: `NewFileSolved`, `AnswerSolved`, `CallsReturn`, `EveryoneServed` and
  `DescriptorsReturned` hold under fairness, which with `ENABLED` is out of the prover's
  reach.
* What the three runs that end in a violation show.

Every invariant of the passing runs, and every action property, is stated by a
theorem.

## 5. What is not modelled

* tokens of more than 127 characters, what a failed `read` does to the tokens, and a
  NUL among the characters of a connection;
* of the configuration: the conversion of numbers, the rest of a line longer than the
  buffer (`fgets` reads it as a line of its own), the bytes before an empty string
  that `_trim` looks at, and `_print_config`;
* of start-up: signal mask, `umask`, the race of `open` and `lockf` with a pid file
  that is removed; what the other threads do while a signal handler frees the lists;
* the solver and query hooks `_daemon_solve` and `_daemon_query`, `algorithm/` and
  `handler/`: nothing in the daemon calls them;
* the byte layout of files (an item is read whole or not at all), narrowing of
  sizes on the way to the header, the uninitialised `length` that `_problem_unpack`
  returns and the file it leaves open; `_problem_recover_X` and `_problem_recover_y`,
  which nothing calls;
* how often stdio writes before `fclose`: one point of a file stands for all in which
  its metadata, but not everything, is there; a write that fails half way through
  and is torn by that only in its last item is taken as none in `DaemonInstances`;
* list calls that overlap on one list, outside `ring_insert`;
* wording of replies and logs, the numbers in problems and answers;
* memory exhaustion in the main loop (the handler's `malloc` is unchecked and
  its result used as a place for the thread id only);
* the hardware's memory model: accesses are sequentially consistent;
* `socket/`, `pthread/`, `handler/`, `algorithm/`, `human/`, `database/database.c` and
  the `main.c` files beside the libraries: demonstrations that are not linked into
  the daemon.

## 6. Plan

1. `ProblemPipeline`, `FifoLists`, `FsdbRing`, `AnswerPipeline`, first proofs (done).
2. `TokenReader`, `MessageParser`: tokens and messages (done).
3. `ProblemFile`: files cut at any place (done).
4. `DaemonInstances`: several processes, loading, detaching and locking, relative
   directories; `AcceptLoop`: the shared descriptor; `Configuration`; `_free_db` in
   `FsdbRing`; proofs of `OneCopy` and `ServedByOne` (done).
5. Proofs (done): ids, files and statuses of the problems and the pairing of threads with
   queued problems; the answer pipeline; the parser for any sizes; daemons that
   share files; the lists as rings, their refinement of `FifoLists`, `_free_db`;
   `ProblemFile` for any sizes.
6. Proofs (done): the safety part of `DescriptorsReturned`; the tokens of texts of any
   length; lines, arguments and paths of any length.
7. Left: `NewFileSolved` has a safety part worth a theorem (a thread that has extracted
   puts back what it took, so that the queue shrinks by it); `_problem_recover_X`
   and `_problem_recover_y` when something calls them.

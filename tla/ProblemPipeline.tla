--------------------------- MODULE ProblemPipeline ---------------------------
(***************************************************************************)
(* The life of a problem in the aiqbd daemon: socket client threads        *)
(* register problems, the main loop moves new ones to a bounded queue and  *)
(* starts a solver thread for each, the solver thread records the result   *)
(* in the problem's file and moves the problem back; the process may die   *)
(* at any point and be started again on the files it left.                 *)
(*                                                                         *)
(* Granularity: one step per list call (_insert_db, _extract_db,           *)
(* _count_db), per file effect and per access to the auto_increment        *)
(* counter.  A list call is one step here; what happens when two calls run *)
(* at the same time on one list is the subject of FsdbRing.                *)
(*                                                                         *)
(* The definitions just before Room, Inserted, Claim, NextRound, NextId,   *)
(* Rewritten and Matches, with the same parameters, are wrong forms of     *)
(* them: the properties are shown to fail when one takes its place.        *)
(***************************************************************************)
EXTENDS Naturals, Sequences, FiniteSets, SequencesExt

CONSTANTS
  Problems,     \* problems, by their contents
  Preloaded,    \* those whose files are in database_dir before the first start
  Clients,      \* socket client threads
  OtherNames,   \* file names not of the form p<id>.aiq
  InitId,       \* the id in the file of each preloaded problem
  InitName,     \* the name of the file of each preloaded problem
  QueueSize,    \* _config.problem_queue_size
  MaxCrashes,   \* bound: how often the process dies
  Faults,       \* what may fail: _load_db, a registration before its file is
                \* open, the disk, pthread_create, _problem_write_metadata
  NULL

Names == Nat \cup OtherNames        \* the number n stands for p<n in hex>.aiq

ASSUME ConstantsAssumption ==
  /\ IsFiniteSet(Problems) /\ Preloaded \subseteq Problems
  /\ NULL \notin Problems \cup Names
  /\ InitId \in [Preloaded -> Nat]
  /\ InitName \in [Preloaded -> Names]
  /\ \A p, q \in Preloaded : InitName[p] = InitName[q] => p = q
  /\ \A p \in Preloaded : InitName[p] \in Nat => InitName[p] = InitId[p]
  /\ QueueSize \in Nat /\ MaxCrashes \in Nat
  /\ Faults \subseteq {"load", "register", "disk", "create", "write"}

VARIABLES
  \* the heap and _config
  problems,         \* list of the problems waiting or done
  problem_queue,    \* list of the problems being solved
  auto_increment,   \* the next id
  id, status, name, \* header->id, header->status and name of each problem
  \* the threads
  mpc, mp,          \* main loop: where it is, the problem it works on
  spc, sp,          \* solver thread of each problem, what it extracted
  cpc, cp, cid,     \* client thread: where it is, its problem, the id it read
  \* what survives the process
  disk,             \* database_dir: file name -> contents
  \* bookkeeping
  submitted,        \* problems some client has sent
  crashes,          \* how often the process died
  \* history, read by the properties only
  live,             \* problems put in the lists since the process started
  acked,            \* problems answered ok:problem:<id>
  refused,          \* problems answered ok:problem:-1
  unsaved,          \* problems whose contents did not all reach the disk
  miscounted,       \* two accesses to auto_increment overlapped, or a start
                    \* did not see the files
  unserved          \* problems whose thread or metadata failed since the start

heap  == <<problems, problem_queue, auto_increment, id, status, name>>
main  == <<mpc, mp>>
solve == <<spc, sp>>
reg   == <<cpc, cp, cid, submitted>>
hist  == <<live, acked, refused, unsaved, miscounted, unserved>>
vars  == <<heap, main, solve, reg, disk, crashes, hist>>

Status == {"N", "I", "S", "free"}   \* "free": no header in memory

\* A file is the problem whose contents it holds, the status in its metadata and
\* whether the contents are complete.  Torn: _problem_read_metadata cannot read it.
\* Part: the metadata and the first contents are there, enough for _load_db.
Torn == [prob |-> NULL, status |-> "free", whole |-> FALSE]
Part(p) == [prob |-> p, status |-> "N", whole |-> FALSE]
File(p, s) == [prob |-> p, status |-> s, whole |-> TRUE]
Write(f, contents) ==
  [g \in DOMAIN disk \cup {f} |-> IF g = f THEN contents ELSE disk[g]]

\* p's own file is there and its metadata is p's.
OnDisk(p) == name[p] \in DOMAIN disk /\ disk[name[p]].prob = p
Loadable == {p \in Problems : OnDisk(p)}

-----------------------------------------------------------------------------
Init ==
  /\ problems = <<>> /\ problem_queue = <<>> /\ auto_increment = 0
  /\ id = [p \in Problems |-> IF p \in Preloaded THEN InitId[p] ELSE 0]
  /\ name = [p \in Problems |-> IF p \in Preloaded THEN InitName[p] ELSE NULL]
  /\ status = [p \in Problems |-> "free"]
  /\ mpc = "down" /\ mp = NULL
  /\ spc = [p \in Problems |-> "none"] /\ sp = [p \in Problems |-> NULL]
  /\ cpc = [c \in Clients |-> "idle"] /\ cp = [c \in Clients |-> NULL]
  /\ cid = [c \in Clients |-> 0]
  /\ submitted = Preloaded /\ crashes = 0
  /\ \E st \in [Preloaded -> {"N", "S"}] :
       disk = [f \in {InitName[p] : p \in Preloaded} |->
                 LET p == CHOOSE q \in Preloaded : InitName[q] = f
                 IN  File(p, st[p])]
  /\ live = {} /\ acked = {} /\ refused = {} /\ unsaved = {}
  /\ miscounted = FALSE /\ unserved = {}

-----------------------------------------------------------------------------
(* Starting: _load_db in readdir order, then the largest id plus one.  When *)
(* an allocation fails the list is empty, and the daemon starts all the same. *)

LastIds(db) == {0} \cup {id[p] : p \in db}
IsLastId(n, db) == n \in LastIds(db) /\ \A i \in LastIds(db) : i <= n
NextIdSame(n) == n
NextId(n) == n + 1
Boot ==
  /\ mpc = "down"
  /\ \E db \in {Loadable} \cup (IF "load" \in Faults THEN {{}} ELSE {}) :
       /\ problems' \in SetToSeqs(db)
       /\ \E n \in LastIds(db) : IsLastId(n, db) /\ auto_increment' = NextId(n)
       /\ status' = [p \in Problems |->
                       IF p \in db THEN disk[name[p]].status ELSE "free"]
       /\ live' = db
       /\ miscounted' = (miscounted \/ db # Loadable)
  /\ mpc' = "count"
  /\ UNCHANGED <<problem_queue, id, name, mp, solve, reg, disk, crashes,
                 acked, refused, unsaved, unserved>>

(* The process dies: only the files are left. *)
Crash ==
  /\ mpc # "down" /\ crashes < MaxCrashes
  /\ crashes' = crashes + 1
  /\ problems' = <<>> /\ problem_queue' = <<>> /\ auto_increment' = 0
  /\ status' = [p \in Problems |-> "free"]
  /\ mpc' = "down" /\ mp' = NULL
  /\ spc' = [p \in Problems |-> "none"] /\ sp' = [p \in Problems |-> NULL]
  /\ cpc' = [c \in Clients |-> "idle"] /\ cp' = [c \in Clients |-> NULL]
  /\ cid' = [c \in Clients |-> 0]
  /\ live' = {} /\ unserved' = {}
  /\ UNCHANGED <<id, name, submitted, disk, acked, refused, unsaved, miscounted>>

-----------------------------------------------------------------------------
(* The main loop, its half that serves problems. *)

RoomOverByOne == Len(problem_queue) <= QueueSize
Room == Len(problem_queue) < QueueSize

\* _insert_db: NULL is ignored.
InsertedFirst(list, p) == IF p = NULL THEN list ELSE <<p>> \o list
InsertedUnlessEmpty(list, p) == IF p = NULL \/ list = <<>> THEN list ELSE Append(list, p)
Inserted(list, p) == IF p = NULL THEN list ELSE Append(list, p)

ClaimForgotten(p) == status
Claim(p) == [status EXCEPT ![p] = "I"]      \* In progress

NextRoundKeepsProblem == mpc' = "count" /\ UNCHANGED mp
NextRound == mpc' = "count" /\ mp' = NULL

MainCount ==
  /\ mpc = "count" /\ Room
  /\ mpc' = "extract"
  /\ UNCHANGED <<heap, mp, solve, reg, disk, crashes, hist>>

MainFull ==
  /\ mpc = "count" /\ ~Room
  /\ UNCHANGED vars

MainExtract ==
  /\ mpc = "extract"
  /\ IF problems = <<>>
       THEN mpc' = "count" /\ UNCHANGED <<problems, mp>>
       ELSE /\ mp' = Head(problems) /\ problems' = Tail(problems)
            /\ mpc' = "examine"
  /\ UNCHANGED <<problem_queue, auto_increment, id, status, name,
                 solve, reg, disk, crashes, hist>>

MainExamine ==
  /\ mpc = "examine"
  /\ IF status[mp] = "N"
       THEN mpc' = "enqueue" /\ status' = Claim(mp)
       ELSE mpc' = "requeue" /\ UNCHANGED status
  /\ UNCHANGED <<problems, problem_queue, auto_increment, id, name,
                 mp, solve, reg, disk, crashes, hist>>

MainEnqueue ==
  /\ mpc = "enqueue"
  /\ problem_queue' = Inserted(problem_queue, mp)
  /\ mpc' = "create"
  /\ UNCHANGED <<problems, auto_increment, id, status, name,
                 mp, solve, reg, disk, crashes, hist>>

MainCreate ==
  /\ mpc = "create"
  /\ \/ spc' = [spc EXCEPT ![mp] = "start"] /\ UNCHANGED unserved
     \/ "create" \in Faults /\ unserved' = unserved \cup {mp} /\ UNCHANGED spc
  /\ NextRound
  /\ UNCHANGED <<heap, sp, reg, disk, crashes, live, acked, refused, unsaved, miscounted>>

MainRequeue ==
  /\ mpc = "requeue"
  /\ problems' = Inserted(problems, mp)
  /\ NextRound
  /\ UNCHANGED <<problem_queue, auto_increment, id, status, name,
                 solve, reg, disk, crashes, hist>>

Main == \/ MainCount \/ MainFull \/ MainExtract \/ MainExamine
        \/ MainEnqueue \/ MainCreate \/ MainRequeue

-----------------------------------------------------------------------------
(* _aiqbd_handling_problem, the solver thread started for problem p. *)

SolverStart(p) ==
  /\ spc[p] = "start"
  /\ status' = [status EXCEPT ![p] = "S"]
  /\ spc' = [spc EXCEPT ![p] = "write"]
  /\ UNCHANGED <<problems, problem_queue, auto_increment, id, name,
                 main, sp, reg, disk, crashes, hist>>

(* _problem_write_metadata rewrites the metadata and leaves the rest of the *)
(* file as it is; the caller ignores its failure.                           *)
RewrittenNot(old, p) == old
RewrittenTruncated(old, p) == [Torn EXCEPT !.prob = p, !.status = status[p]]
Rewritten(old, p) == [old EXCEPT !.prob = IF @ = NULL THEN p ELSE @, !.status = status[p]]
SolverWrite(p) ==
  /\ spc[p] = "write"
  /\ \/ disk' = Write(name[p], Rewritten(disk[name[p]], p)) /\ UNCHANGED unserved
     \/ "write" \in Faults /\ unserved' = unserved \cup {p} /\ UNCHANGED disk
  /\ spc' = [spc EXCEPT ![p] = "extract"]
  /\ UNCHANGED <<heap, main, sp, reg, crashes, live, acked, refused, unsaved, miscounted>>

(* _extract_db by id: the first problem in the queue with p's id. *)
MatchesAtLeast(i, p) == id[problem_queue[i]] >= id[p]
Matches(i, p) == id[problem_queue[i]] = id[p]
SolverExtract(p) ==
  /\ spc[p] = "extract"
  /\ \/ \E i \in 1 .. Len(problem_queue) :
          /\ Matches(i, p) /\ \A j \in 1 .. (i - 1) : ~Matches(j, p)
          /\ sp' = [sp EXCEPT ![p] = problem_queue[i]]
          /\ problem_queue' = RemoveAt(problem_queue, i)
     \/ /\ \A i \in 1 .. Len(problem_queue) : ~Matches(i, p)
        /\ sp' = [sp EXCEPT ![p] = NULL]
        /\ UNCHANGED problem_queue
  /\ spc' = [spc EXCEPT ![p] = "insert"]
  /\ UNCHANGED <<problems, auto_increment, id, status, name,
                 main, reg, disk, crashes, hist>>

SolverInsert(p) ==
  /\ spc[p] = "insert"
  /\ problems' = Inserted(problems, sp[p])
  /\ spc' = [spc EXCEPT ![p] = "none"] /\ sp' = [sp EXCEPT ![p] = NULL]
  /\ UNCHANGED <<problem_queue, auto_increment, id, status, name,
                 main, reg, disk, crashes, hist>>

Solver(p) == SolverStart(p) \/ SolverWrite(p) \/ SolverExtract(p) \/ SolverInsert(p)

-----------------------------------------------------------------------------
(* _aiqbd_register_problem, called by a client's parser. *)

(* id = _config.auto_increment ++ : a load and a store. *)
TakeId(c) ==
  /\ mpc # "down" /\ cpc[c] = "idle"
  /\ \E p \in Problems \ submitted :
       /\ cp' = [cp EXCEPT ![c] = p]
       /\ submitted' = submitted \cup {p}
  /\ cid' = [cid EXCEPT ![c] = auto_increment]
  /\ cpc' = [cpc EXCEPT ![c] = "store"]
  /\ miscounted' = (miscounted \/ \E d \in Clients : cpc[d] = "store")
  /\ UNCHANGED <<heap, main, solve, disk, crashes, live, acked, refused, unsaved, unserved>>

StoreId(c) ==
  /\ cpc[c] = "store"
  /\ auto_increment' = cid[c] + 1
  /\ cpc' = [cpc EXCEPT ![c] = "open"]
  /\ UNCHANGED <<problems, problem_queue, id, status, name,
                 main, solve, cp, cid, submitted, disk, crashes, hist>>

(* chdir, the allocations, the size check and fopen may fail: the caller is *)
(* told -1 and no file is touched.  fopen (..., "wb") truncates.            *)
OpenFile(c) ==
  /\ cpc[c] = "open"
  /\ \/ /\ id' = [id EXCEPT ![cp[c]] = cid[c]]
        /\ name' = [name EXCEPT ![cp[c]] = cid[c]]
        /\ status' = [status EXCEPT ![cp[c]] = "N"]
        /\ disk' = Write(cid[c], Torn)
        /\ cpc' = [cpc EXCEPT ![c] = "close"]
     \/ /\ "register" \in Faults
        /\ cpc' = [cpc EXCEPT ![c] = "refuse"]
        /\ UNCHANGED <<id, name, status, disk>>
  /\ UNCHANGED <<problems, problem_queue, auto_increment,
                 main, solve, cp, cid, submitted, crashes, hist>>

(* stdio writes what was packed so far when its buffer is full. *)
Flush(c) ==
  /\ cpc[c] = "close"
  /\ disk' = Write(name[cp[c]], Part(cp[c]))
  /\ cpc' = [cpc EXCEPT ![c] = "body"]
  /\ UNCHANGED <<heap, main, solve, cp, cid, submitted, crashes, hist>>

(* fclose writes the rest.  What was written before may have been truncated  *)
(* or written over since.  Nobody looks at the results of fwrite and fclose: *)
(* on a full disk the file stays as it is and the registration goes on.      *)
Completed(old, p, at) ==
  IF at = "close" THEN File(p, "N") ELSE [old EXCEPT !.whole = (old.prob = p)]
CloseFile(c) ==
  /\ cpc[c] \in {"close", "body"}
  /\ \/ /\ disk' = Write(name[cp[c]], Completed(disk[name[cp[c]]], cp[c], cpc[c]))
        /\ UNCHANGED unsaved
     \/ "disk" \in Faults /\ unsaved' = unsaved \cup {cp[c]} /\ UNCHANGED disk
  /\ cpc' = [cpc EXCEPT ![c] = "insert"]
  /\ UNCHANGED <<heap, main, solve, cp, cid, submitted, crashes,
                 live, acked, refused, miscounted, unserved>>

InsertProblem(c) ==
  /\ cpc[c] = "insert"
  /\ problems' = Inserted(problems, cp[c])
  /\ live' = live \cup {cp[c]}
  /\ cpc' = [cpc EXCEPT ![c] = "reply"]
  /\ UNCHANGED <<problem_queue, auto_increment, id, status, name, main, solve,
                 cp, cid, submitted, disk, crashes, acked, refused, unsaved, miscounted,
                 unserved>>

(* _reply (fd, reply_problem_ok, id): also for an id of -1. *)
Reply(c) ==
  /\ \/ /\ cpc[c] = "reply"
        /\ acked' = acked \cup {cp[c]} /\ UNCHANGED refused
     \/ /\ cpc[c] = "refuse"
        /\ refused' = refused \cup {cp[c]} /\ UNCHANGED acked
  /\ cpc' = [cpc EXCEPT ![c] = "idle"] /\ cp' = [cp EXCEPT ![c] = NULL]
  /\ cid' = [cid EXCEPT ![c] = 0]
  /\ UNCHANGED <<heap, main, solve, submitted, disk, crashes, live, unsaved, miscounted,
                 unserved>>

Register(c) == \/ StoreId(c) \/ OpenFile(c) \/ Flush(c) \/ CloseFile(c)
               \/ InsertProblem(c) \/ Reply(c)

-----------------------------------------------------------------------------
Next == \/ Boot \/ Crash \/ Main
        \/ \E p \in Problems : Solver(p)
        \/ \E c \in Clients : TakeId(c) \/ Register(c)

Spec == Init /\ [][Next]_vars

(* Fairness: every thread that can take a step of its own code goes on.     *)
(* Nobody promises new registrations, crashes or restarts.                  *)
FairSpec ==
  /\ Spec
  /\ WF_vars(Main)
  /\ \A p \in Problems : WF_vars(Solver(p))
  /\ \A c \in Clients : WF_vars(Register(c))

-----------------------------------------------------------------------------
(* Type invariant. *)
TypeOK ==
  /\ problems \in Seq(Problems) /\ problem_queue \in Seq(Problems)
  /\ auto_increment \in Nat
  /\ id \in [Problems -> Nat]
  /\ status \in [Problems -> Status]
  /\ name \in [Problems -> Names \cup {NULL}]
  /\ mpc \in {"down", "count", "extract", "examine", "enqueue", "create", "requeue"}
  /\ mp \in Problems \cup {NULL}
  /\ mpc \in {"examine", "enqueue", "create", "requeue"} <=> mp # NULL
  /\ spc \in [Problems -> {"none", "start", "write", "extract", "insert"}]
  /\ sp \in [Problems -> Problems \cup {NULL}]
  /\ cpc \in [Clients -> {"idle", "store", "open", "close", "body", "insert", "reply", "refuse"}]
  /\ cp \in [Clients -> Problems \cup {NULL}]
  /\ \A c \in Clients : cpc[c] # "idle" <=> cp[c] # NULL
  /\ cid \in [Clients -> Nat]
  /\ DOMAIN disk \subseteq Names
  /\ \A f \in DOMAIN disk :
       disk[f] \in [prob : Problems \cup {NULL}, status : Status, whole : BOOLEAN]
  /\ submitted \subseteq Problems /\ crashes \in 0 .. MaxCrashes
  /\ live \subseteq Problems /\ acked \subseteq Problems /\ refused \subseteq Problems
  /\ unsaved \subseteq Problems /\ miscounted \in BOOLEAN /\ unserved \subseteq Problems

InProblems == ToSet(problems)
InQueue == ToSet(problem_queue)
WithMain == IF mpc \in {"examine", "enqueue", "requeue"} THEN {mp} ELSE {}
WithSolvers == {sp[p] : p \in Problems} \ {NULL}

(* Conservation: whatever the threads do, every problem the process has     *)
(* loaded or accepted is in exactly one place: the list, the queue, or in   *)
(* the hands of the one thread that is moving it (main.c, 67-82; aiqbd.c,   *)
(* 176-177).                                                                *)
Conserved ==
  /\ InProblems \cup InQueue \cup WithMain \cup WithSolvers = live
  /\ IsInjective(problems) /\ IsInjective(problem_queue)
  /\ InProblems \cap InQueue = {}
  /\ (WithMain \cup WithSolvers) \cap (InProblems \cup InQueue) = {}
  /\ WithMain \cap WithSolvers = {}
  /\ \A p, q \in Problems : sp[p] = sp[q] => p = q \/ sp[p] = NULL

(* The queue never holds more than _config.problem_queue_size problems, even *)
(* though the check and the insertion are separate calls (main.c, 67 and 73).*)
QueueBounded == Len(problem_queue) <= QueueSize

(* No problem gets a second solver thread while it has one, in spite of the  *)
(* solver of another problem with the same id moving it back early.          *)
OneSolver == mpc = "create" => spc[mp] = "none"

(* A solver thread always finds a problem of its id in the queue, so the     *)
(* NULL that _extract_db may return never reaches _insert_db (aiqbd.c, 176). *)
SolverFinds ==
  \A p \in Problems : spc[p] = "extract" =>
    \E q \in InQueue : id[q] = id[p]

(* Another problem was given p's file name. *)
Twin(p) == \E q \in submitted \ {p} : name[q] # NULL /\ name[q] = name[p]

(* The status in memory and the one on file agree: a file says solved only   *)
(* for a problem that is, and a problem that is solved and whose thread has  *)
(* ended is solved on file, unless the metadata could not be written.  A     *)
(* problem has a file to say so, unless the disk was full when it came.      *)
StatusAgrees ==
  \A p \in live : ~Twin(p) =>
    /\ OnDisk(p) \/ p \in unsaved
    /\ disk[name[p]].status = "S" => status[p] = "S"
    /\ status[p] = "S" /\ spc[p] \in {"none", "insert"} /\ p \notin unserved
         => disk[name[p]].status = "S"

(* A problem answered ok:problem:<id> whose contents the disk had room for   *)
(* stays there, complete, through any number of crashes, unless two          *)
(* registrations raced for an id, or a start did not see the files, and      *)
(* another one took its file (aiqbd.c, 33; main.c, 46-47).                   *)
AckedDurable ==
  \A p \in acked \ unsaved :
    ~miscounted \/ ~Twin(p) => OnDisk(p) /\ disk[name[p]].whole

(* Ids are never given out again, over restarts too: as long as the counter  *)
(* counted right no two problems in the database share a file and no         *)
(* registered problem shares its id with another one, but for an id whose    *)
(* file the disk had no room for, which is free again after a restart.       *)
IdsFresh ==
  ~miscounted => \A p, q \in (acked \ unsaved) \cup live :
                   p # q /\ p \notin Preloaded => id[p] # id[q]

(* Every problem in the lists whose file says new is solved, as long as the  *)
(* process stays up and fewer threads have failed than the queue has places: *)
(* the main loop's rotation reaches it whatever the order of the list        *)
(* (main.c, 68 and 79).                                                      *)
NewFileSolved ==
  \A p \in Problems :
    (p \in live /\ OnDisk(p) /\ disk[name[p]].status = "N") ~>
      \/ mpc = "down" \/ p \in unserved \/ Cardinality(unserved) >= QueueSize
      \/ name[p] \in DOMAIN disk /\ disk[name[p]].status = "S"

-----------------------------------------------------------------------------
(* What the comments say and the code does not do. *)

(* aiqbd.c, 22: a registration saves the problem into a new file.            *)
NewFileIsNew ==
  [][\A c \in Clients :
       cpc[c] = "open" /\ cpc'[c] = "close" => cid[c] \notin DOMAIN disk]_vars
=============================================================================

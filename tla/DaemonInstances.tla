--------------------------- MODULE DaemonInstances ---------------------------
(***************************************************************************)
(* Several aiqbd processes on one machine: each loads the database, leaves *)
(* its parent and takes the pid lock (or stays in the foreground), tries   *)
(* to bind the port, registers problems if it has it, solves the ones it   *)
(* knows of, and ends.  Two paths of the configuration may be relative:    *)
(* database_dir and run_dir lead to a directory that depends on the one    *)
(* the process stands in, and a registration moves the process.            *)
(*                                                                         *)
(* Of the threads of a process this module has what touches the files: a   *)
(* registration loads the counter, stores it, moves the process and writes *)
(* the file, a solver changes the status in memory and then on file, and   *)
(* other threads come in between.  The list and the queue through which    *)
(* problems pass are the subject of ProblemPipeline.                       *)
(*                                                                         *)
(* The definitions just before LockFile, Named, Entered and Released, with *)
(* the same parameters, are wrong forms of them: the properties are shown  *)
(* to fail when one takes its place.                                       *)
(***************************************************************************)
EXTENDS Naturals, FiniteSets

CONSTANTS
  Daemons,      \* processes, each started once
  Problems,     \* problems, by their contents
  Dirs,         \* directories
  Starts,       \* those in which daemons are started
  Ways,         \* what database_dir may be: where it leads from each directory
  RunWays,      \* the same for run_dir
  NULL          \* no process, no problem, no directory

Ids == 1 .. Cardinality(Problems)     \* bound: one id for each problem
Path == [Dirs -> Dirs \cup {NULL}]

ASSUME ConstantsAssumption ==
  /\ IsFiniteSet(Problems)
  /\ NULL \notin Daemons \cup Problems \cup Dirs
  /\ Starts \subseteq Dirs
  /\ Ways \subseteq Path /\ RunWays \subseteq Path

VARIABLES
  way, run,       \* database_dir and run_dir
  pc,             \* how far each process is
  cwd,            \* its working directory
  guarded,        \* it went through _daemonize up to the lock
  socket,         \* its listening socket
  auto_increment, \* its next id
  list,           \* the status of the problems in its lists
  pending,        \* registrations under way: id, problem, how far
  writing,        \* problems solved in memory, not on file yet
  pid_file,       \* who has the lock on the pid file in each directory
  disk,           \* p<id>.aiq in each directory
  id,             \* the id of each problem, 0 before it has one
  acked,          \* problems answered ok:problem:<id>
  \* history, read by the properties only
  missed,         \* daemons that failed to load, or loaded before another one saved
  stale,          \* one of them has saved a problem
  raced,          \* two registrations of one process have loaded the same id
  unsaved,        \* problems whose file could not be written whole
  unwritten       \* what a process solved and could not write to the file

config  == <<way, run>>
process == <<pc, cwd, guarded, socket>>
memory  == <<auto_increment, list, pending, writing>>
files   == <<disk, id, acked>>
hist    == <<missed, stale, raced, unsaved, unwritten>>
vars    == <<config, process, memory, pid_file, files, hist>>

NoFile == [prob |-> NULL, status |-> "none"]
Torn == [prob |-> NULL, status |-> "torn"]    \* a file without readable metadata
Holds(dir, p) == id[p] # 0 /\ disk[dir][id[p]].prob = p
File == [prob : Problems, status : {"N", "S"}] \cup {NoFile, Torn}
Unknown == [p \in Problems |-> "none"]
Alive(d) == pc[d] \notin {"off", "over"}

Init ==
  /\ way \in Ways /\ run \in RunWays
  /\ pc = [d \in Daemons |-> "off"] /\ cwd \in [Daemons -> Starts]
  /\ guarded = [d \in Daemons |-> FALSE] /\ socket = [d \in Daemons |-> "none"]
  /\ auto_increment = [d \in Daemons |-> 0]
  /\ list = [d \in Daemons |-> Unknown]
  /\ pending = [d \in Daemons |-> {}] /\ writing = [d \in Daemons |-> {}]
  /\ pid_file = [x \in Dirs |-> NULL]
  /\ id = [p \in Problems |-> 0]
  /\ disk = [x \in Dirs |-> [i \in Ids |-> NoFile]]
  /\ acked = {} /\ missed = {} /\ stale = FALSE
  /\ raced = FALSE /\ unsaved = {} /\ unwritten = {}

-----------------------------------------------------------------------------
(* Starting *)

LastId(dir) ==
  LET used == {0} \cup {i \in Ids : disk[dir][i].prob # NULL}
  IN  CHOOSE n \in used : \A i \in used : i <= n
NextId(dir) == LastId(dir) + 1

(* main: _load_db and _last_id_db.  If malloc fails the list is empty; if    *)
(* the directory cannot be opened _load_db returns no value: an empty list,  *)
(* or nothing that can be used.                                              *)
Load(d) ==
  /\ pc[d] = "off"
  /\ LET dir == way[cwd[d]] IN
     \/ /\ dir # NULL
        /\ list' = [list EXCEPT ![d] = [p \in Problems |->
                      IF Holds(dir, p) THEN disk[dir][id[p]].status ELSE "none"]]
        /\ auto_increment' = [auto_increment EXCEPT ![d] = NextId(dir)]
        /\ pc' = [pc EXCEPT ![d] = "loaded"] /\ UNCHANGED missed
     \/ /\ auto_increment' = [auto_increment EXCEPT ![d] = 1]
        /\ pc' = [pc EXCEPT ![d] = "loaded"]
        /\ missed' = missed \cup {d} /\ UNCHANGED list
     \/ /\ dir = NULL
        /\ pc' = [pc EXCEPT ![d] = "over"] /\ UNCHANGED <<auto_increment, list, missed>>
  /\ UNCHANGED <<config, cwd, guarded, socket, pending, writing, pid_file, files,
                 stale, raced, unsaved, unwritten>>

(* no_daemon, or the parent is process 1: no lock is asked for. *)
StayUnguarded(d) ==
  /\ pc[d] = "loaded"
  /\ pc' = [pc EXCEPT ![d] = "up"]
  /\ UNCHANGED <<config, cwd, guarded, socket, memory, pid_file, files, hist>>

(* chdir (rundir), whose failure is not looked at. *)
RunTo(x) == IF run[x] = NULL THEN x ELSE run[x]
(* _daemonize up to there: fork, and all descriptors are closed. *)
Daemonize(d) ==
  /\ pc[d] = "loaded"
  /\ pc' = [pc EXCEPT ![d] = "detached"]
  /\ cwd' = [cwd EXCEPT ![d] = RunTo(cwd[d])]
  /\ guarded' = [guarded EXCEPT ![d] = TRUE]
  /\ UNCHANGED <<config, socket, memory, pid_file, files, hist>>

\* The process ends: its memory is gone.
Ends(d) ==
  /\ pc' = [pc EXCEPT ![d] = "over"] /\ socket' = [socket EXCEPT ![d] = "none"]
  /\ auto_increment' = [auto_increment EXCEPT ![d] = 0]
  /\ list' = [list EXCEPT ![d] = Unknown]
  /\ pending' = [pending EXCEPT ![d] = {}] /\ writing' = [writing EXCEPT ![d] = {}]
  /\ missed' = missed \ {d} /\ unwritten' = {w \in unwritten : w[1] # d}

LockFileForgotten(d) == pid_file
LockFile(d) == [pid_file EXCEPT ![cwd[d]] = d]
(* open and lockf of the pid file where the process stands. *)
Lock(d) ==
  /\ pc[d] = "detached"
  /\ \/ /\ pid_file[cwd[d]] = NULL
        /\ pid_file' = LockFile(d) /\ pc' = [pc EXCEPT ![d] = "up"]
        /\ UNCHANGED <<socket, memory, missed, unwritten>>
     \/ pid_file[cwd[d]] # NULL /\ Ends(d) /\ UNCHANGED pid_file
  /\ UNCHANGED <<config, cwd, guarded, files, stale, raced, unsaved>>

(* bind fails while another process has the port; the main loop goes on. *)
Bind(d) ==
  /\ pc[d] = "up" /\ socket[d] = "none"
  /\ socket' = [socket EXCEPT ![d] =
                  IF \E e \in Daemons : socket[e] = "listening" THEN "failed" ELSE "listening"]
  /\ UNCHANGED <<config, pc, cwd, guarded, memory, pid_file, files, hist>>

-----------------------------------------------------------------------------
(* Running *)

Taken(d) == {r.prob : r \in pending[d]}
Becomes(d, r, step) == [pending EXCEPT ![d] = (@ \ {r}) \cup {[r EXCEPT !.step = step]}]
Dropped(d, r) == [pending EXCEPT ![d] = @ \ {r}]

(* id = _config.auto_increment ++ : a load and a store. *)
TakeId(d) ==
  /\ socket[d] = "listening" /\ auto_increment[d] \in Ids
  /\ \E p \in Problems :
       /\ id[p] = 0 /\ \A e \in Daemons : p \notin Taken(e)
       /\ pending' = [pending EXCEPT ![d] =
            @ \cup {[id |-> auto_increment[d], prob |-> p, step |-> "loaded"]}]
  /\ raced' = (raced \/ \E r \in pending[d] : r.step = "loaded")
  /\ UNCHANGED <<config, process, auto_increment, list, writing, pid_file, files,
                 missed, stale, unsaved, unwritten>>

StoreId(d) ==
  /\ \E r \in pending[d] :
       /\ r.step = "loaded" /\ pending' = Becomes(d, r, "stored")
       /\ auto_increment' = [auto_increment EXCEPT ![d] = r.id + 1]
  /\ UNCHANGED <<config, process, list, writing, pid_file, files, hist>>

EnteredNot(d, dir) == cwd
Entered(d, dir) == [cwd EXCEPT ![d] = dir]
(* chdir (database_dir); -1 if it fails. *)
EnterDatabase(d) ==
  /\ \E r \in pending[d] :
       /\ r.step = "stored"
       /\ LET dir == way[cwd[d]] IN
            IF dir = NULL THEN pending' = Dropped(d, r) /\ UNCHANGED cwd
            ELSE pending' = Becomes(d, r, "entered") /\ cwd' = Entered(d, dir)
  /\ UNCHANGED <<config, pc, guarded, socket, auto_increment, list, writing, pid_file,
                 files, hist>>

(* The allocations, the size check and fopen: -1 if one fails. *)
Refuse(d) ==
  /\ \E r \in pending[d] : r.step = "entered" /\ pending' = Dropped(d, r)
  /\ UNCHANGED <<config, process, auto_increment, list, writing, pid_file, files, hist>>

(* The file is written where the process stands now, whatever was there, and *)
(* nobody looks whether all of it has been; the problem is listed and its id *)
(* answered.                                                                 *)
Save(d) ==
  /\ \E r \in pending[d] :
       /\ r.step = "entered" /\ pending' = Dropped(d, r)
       /\ \/ /\ disk' = [disk EXCEPT ![cwd[d]][r.id] = [prob |-> r.prob, status |-> "N"]]
             /\ UNCHANGED unsaved
          \/ /\ disk' = [disk EXCEPT ![cwd[d]][r.id] = Torn]
             /\ unsaved' = unsaved \cup {r.prob}
       /\ id' = [id EXCEPT ![r.prob] = r.id]
       /\ list' = [list EXCEPT ![d][r.prob] = "N"]
       /\ acked' = acked \cup {r.prob}
  /\ missed' = missed \cup {e \in Daemons \ {d} : Alive(e)}
  /\ stale' = (stale \/ d \in missed)
  /\ UNCHANGED <<config, process, auto_increment, writing, pid_file, raced, unwritten>>

(* The main loop and a solver thread, up to the status in memory. *)
Solve(d) ==
  /\ pc[d] = "up"
  /\ \E p \in Problems :
       /\ list[d][p] = "N" /\ list' = [list EXCEPT ![d][p] = "S"]
       /\ writing' = [writing EXCEPT ![d] = @ \cup {p}]
  /\ UNCHANGED <<config, process, auto_increment, pending, pid_file, files, hist>>

NamedWithoutDirectory(d) == cwd[d]
(* The names of problems start with database_dir. *)
Named(d) == way[cwd[d]]
Rewritten(file, p) == [prob |-> IF file.prob = NULL THEN p ELSE file.prob, status |-> "S"]
(* _problem_write_metadata, if there is a file of that name; whether it has  *)
(* written anything the thread does not look at.                             *)
WriteMetadata(d) ==
  /\ \E p \in writing[d] :
       /\ writing' = [writing EXCEPT ![d] = @ \ {p}]
       /\ LET dir == Named(d) IN
            IF dir # NULL /\ disk[dir][id[p]] # NoFile
            THEN \/ /\ disk' = [disk EXCEPT ![dir][id[p]] = Rewritten(@, p)]
                    /\ UNCHANGED unwritten
                 \/ unwritten' = unwritten \cup {<<d, p>>} /\ UNCHANGED disk
            ELSE UNCHANGED <<disk, unwritten>>
  /\ UNCHANGED <<config, process, auto_increment, list, pending, pid_file, id, acked,
                 missed, stale, raced, unsaved>>

ReleasedNot(d) == pid_file
Released(d) == [x \in Dirs |-> IF pid_file[x] = d THEN NULL ELSE pid_file[x]]
(* A signal, or any other end: lock and port are given back. *)
Stop(d) ==
  /\ Alive(d) /\ Ends(d)
  /\ pid_file' = Released(d)
  /\ UNCHANGED <<config, cwd, guarded, files, stale, raced, unsaved>>

Next ==
  \E d \in Daemons :
    \/ Load(d) \/ StayUnguarded(d) \/ Daemonize(d) \/ Lock(d) \/ Bind(d)
    \/ TakeId(d) \/ StoreId(d) \/ EnterDatabase(d) \/ Refuse(d) \/ Save(d)
    \/ Solve(d) \/ WriteMetadata(d) \/ Stop(d)

Spec == Init /\ [][Next]_vars

-----------------------------------------------------------------------------
(* Type invariant; a process that is not there holds nothing. *)
TypeOK ==
  /\ way \in Path /\ run \in Path
  /\ pc \in [Daemons -> {"off", "loaded", "detached", "up", "over"}]
  /\ cwd \in [Daemons -> Dirs]
  /\ guarded \in [Daemons -> BOOLEAN]
  /\ socket \in [Daemons -> {"none", "listening", "failed"}]
  /\ auto_increment \in [Daemons -> 0 .. Cardinality(Problems) + 1]
  /\ list \in [Daemons -> [Problems -> {"none", "N", "S"}]]
  /\ pending \in [Daemons -> SUBSET [id : Ids, prob : Problems,
                                     step : {"loaded", "stored", "entered"}]]
  /\ writing \in [Daemons -> SUBSET Problems]
  /\ pid_file \in [Dirs -> Daemons \cup {NULL}]
  /\ disk \in [Dirs -> [Ids -> File]]
  /\ id \in [Problems -> Ids \cup {0}]
  /\ acked \subseteq Problems /\ missed \subseteq Daemons /\ stale \in BOOLEAN
  /\ raced \in BOOLEAN /\ unsaved \subseteq Problems /\ unwritten \subseteq Daemons \X Problems
  /\ \A d \in Daemons : ~Alive(d) =>
       /\ socket[d] = "none" /\ list[d] = Unknown /\ d \notin missed
       /\ pending[d] = {} /\ writing[d] = {}
       /\ \A x \in Dirs : pid_file[x] # d

(* run_dir leads to one directory from wherever a daemon is started, as an   *)
(* absolute path does; database_dir leads to home from each directory a      *)
(* daemon stands in, as an absolute path does, and ../pack from a sibling.   *)
RunSteady == \A x, y \in Starts : RunTo(x) = RunTo(y)
Leads(home) ==
  \A x \in Starts \cup {RunTo(s) : s \in Starts} \cup {home} : way[x] = home

(* daemon.c, 110, "ensure only one copy": of the processes that have gone    *)
(* through _daemonize only one is up, if run_dir leads all of them to one    *)
(* pid file, however starts and ends interleave.                             *)
OneCopy ==
  RunSteady => \A d, e \in Daemons :
    guarded[d] /\ guarded[e] /\ pc[d] = "up" /\ pc[e] = "up" => d = e

(* A problem answered ok:problem:<id> whose file was written whole keeps it   *)
(* in database_dir over any sequence of processes.  Two things can take it    *)
(* away: two registrations of one process that loaded the same id (aiqbd.c,   *)
(* 33), and a process that saves a problem though its loading failed or came  *)
(* before another one saved a problem; loading comes before the lock (main.c, *)
(* 46 and 58), so the lock does not exclude that.                             *)
AckedKept ==
  \A home \in Dirs : Leads(home) /\ ~stale /\ ~raced =>
    \A p \in acked \ unsaved : Holds(home, p)

(* What a process holds for solved and its thread has written is solved on    *)
(* file, as long as the file is that problem's, whatever other processes      *)
(* solve, register and load, and after every change of directory.             *)
SolvedRecorded ==
  \A home \in Dirs : Leads(home) =>
    \A d \in Daemons, p \in Problems :
      list[d][p] = "S" /\ Holds(home, p) /\ p \notin writing[d] /\ <<d, p>> \notin unwritten
      => disk[home][id[p]].status = "S"
=============================================================================

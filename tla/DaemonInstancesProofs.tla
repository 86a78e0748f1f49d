------------------------ MODULE DaemonInstancesProofs ------------------------
(***************************************************************************)
(* For any number of daemons, problems and directories: the pid lock lets  *)
(* only one of the processes that ask for it run, if run_dir leads to one  *)
(* directory from wherever they are started; and if database_dir leads to  *)
(* one directory, acknowledged problems keep their files and solved ones   *)
(* are solved on file.  And for lines, arguments, files and paths of any   *)
(* length: the configuration they start with is the one that is written.   *)
(* The recursive functions of Configuration are unrolled, and what holds   *)
(* after each of their rounds is shown to fail first nowhere.              *)
(***************************************************************************)
EXTENDS MCDaemonInstances, ListLemmas

\* What each process has, from its start to its end.  OneCopy is not inductive: a
\* process moves on from the directory of its lock when it registers a problem, so
\* that who runs has a lock and where it was taken have to be kept from the start.
Started ==
  \A d \in Daemons :
    /\ pc[d] \in {"off", "loaded"} => cwd[d] \in Starts /\ ~guarded[d]
    /\ pc[d] = "detached" => \E s \in Starts : cwd[d] = RunTo(s)
    /\ pc[d] = "up" /\ guarded[d] => \E s \in Starts : pid_file[RunTo(s)] = d
    /\ socket[d] = "listening" \/ pending[d] # {} => pc[d] = "up"
    /\ \A x \in Dirs : pid_file[x] = d => pc[d] = "up"

\* A problem has no id before its registration is over, and is in one registration
\* at most; when it has one it has been acknowledged.
Registering ==
  /\ \A d \in Daemons : \A r \in pending[d] : id[r.prob] = 0
  /\ \A d, e \in Daemons : \A r \in pending[d], s \in pending[e] :
       r.prob = s.prob => d = e /\ r = s
  /\ \A p \in Problems :
       /\ id[p] = 0 => \A d \in Daemons : list[d][p] = "none" /\ p \notin writing[d]
       /\ id[p] # 0 => p \in acked

\* One registration at a time has loaded the counter: the ids of a process differ.
Counted(d) ==
  /\ \A r \in pending[d] :
       IF r.step = "loaded" THEN r.id = auto_increment[d] ELSE r.id < auto_increment[d]
  /\ \A r, s \in pending[d] : r.id = s.id => r = s

\* A process that has missed no registration knows the ids of all files, except of
\* those that were not written whole.
Sound(home, i) == disk[home][i].prob \notin {NULL} \cup unsaved
Known(home, d) ==
  /\ \A i \in Ids : Sound(home, i) => i < auto_increment[d]
  /\ \A r \in pending[d] : ~Sound(home, r.id)

Stands(home) == Starts \cup {RunTo(s) : s \in Starts} \cup {home}
\* Where all processes stand, and what the files of the database hold.
AtHome(home) ==
  /\ \A d \in Daemons : cwd[d] \in Stands(home)
  /\ \A d \in Daemons : \A r \in pending[d] : r.step = "entered" => cwd[d] = home
  /\ ~stale /\ ~raced =>
       /\ \A d \in Daemons : Alive(d) /\ d \notin missed => Known(home, d)
       /\ \A p \in acked \ unsaved : Holds(home, p)
  /\ \A d \in Daemons, p \in Problems :
       list[d][p] = "S" /\ Holds(home, p) /\ p \notin writing[d] /\ <<d, p>> \notin unwritten
       => disk[home][id[p]].status = "S"

FilesInv ==
  /\ TypeOK /\ Started /\ Registering
  /\ ~raced => \A d \in Daemons : Counted(d)
  /\ \A home \in Dirs : Leads(home) => AtHome(home)

-----------------------------------------------------------------------------
\* Ids are numbered from 1.
LEMMA IdsNumbers == Cardinality(Problems) \in Nat /\ Ids \subseteq Nat \ {0}
BY ConstantsAssumption, FS_CardinalityType DEF Ids

(* The chdir of _daemonize, failed or not, leaves the process in a directory. *)
LEMMA RunToDirectory ==
  ASSUME TypeOK, NEW x \in Dirs
  PROVE  RunTo(x) \in Dirs
BY DEF TypeOK, Path, RunTo

(* _last_id_db: the id a process begins with is above those of all files that *)
(* can be read.                                                               *)
LEMMA NextIdIsNew ==
  ASSUME NEW dir
  PROVE  /\ NextId(dir) \in 0 .. Cardinality(Problems) + 1
         /\ \A i \in Ids : disk[dir][i].prob # NULL => i < NextId(dir)
<1> DEFINE used == {0} \cup {i \in Ids : disk[dir][i].prob # NULL}
<1>1. used \in SUBSET (0 .. Cardinality(Problems)) /\ used # {}
  BY IdsNumbers DEF Ids
<1>2. LastId(dir) \in used /\ \A i \in used : i <= LastId(dir)
  <2> HIDE DEF used
  <2>1. \E n \in used : \A i \in used : i <= n
    BY <1>1, IdsNumbers, Largest
  <2>2. LastId(dir) = CHOOSE n \in used : \A i \in used : i <= n
    BY DEF LastId, used
  <2> QED BY <2>1, <2>2
<1> QED BY <1>1, <1>2, IdsNumbers DEF NextId

\* What a registration under way has: an id, a problem and how far it is.
LEMMA PendingTypes ==
  ASSUME TypeOK, NEW d \in Daemons, NEW r \in pending[d]
  PROVE  /\ r \in [id : Ids, prob : Problems, step : {"loaded", "stored", "entered"}]
         /\ r.id \in Ids /\ r.id \in Nat /\ r.prob \in Problems
         /\ r.step \in {"loaded", "stored", "entered"}
<1>1. r \in [id : Ids, prob : Problems, step : {"loaded", "stored", "entered"}]
  BY DEF TypeOK
<1> QED BY <1>1, IdsNumbers

\* What a file is: a problem with its status, torn, or not there.
LEMMA FileTypes ==
  ASSUME TypeOK, NEW x \in Dirs, NEW i \in Ids
  PROVE  /\ disk[x][i] \in File
         /\ disk[x][i].prob \in Problems \cup {NULL}
         /\ disk[x][i].prob # NULL => disk[x][i].status \in {"N", "S"} /\ disk[x][i] # NoFile
         /\ disk[x][i].prob = NULL => disk[x][i] \in {NoFile, Torn}
<1>1. disk[x][i] \in File
  BY DEF TypeOK
<1>2. CASE disk[x][i] \in {NoFile, Torn}
  <2>1. NoFile.prob = NULL /\ Torn.prob = NULL
    BY DEF NoFile, Torn
  <2> QED BY <1>1, <1>2, <2>1
<1>3. CASE disk[x][i] \in [prob : Problems, status : {"N", "S"}]
  <2>1. disk[x][i].prob \in Problems /\ disk[x][i].status \in {"N", "S"} /\ NULL \notin Problems
    BY <1>3, ConstantsAssumption
  <2>2. NoFile.prob = NULL
    BY DEF NoFile
  <2> QED BY <1>1, <2>1, <2>2
<1>4. disk[x][i] \in [prob : Problems, status : {"N", "S"}] \/ disk[x][i] \in {NoFile, Torn}
  BY <1>1 DEF File
<1> QED BY <1>2, <1>3, <1>4

-----------------------------------------------------------------------------
\* A registration goes on to its next step, and the others stay as they are.
MovesOn(d, r, s) ==
  /\ pending' \in [Daemons -> SUBSET [id : Ids, prob : Problems,
                                      step : {"loaded", "stored", "entered"}]]
  /\ \A e \in Daemons \ {d} : pending'[e] = pending[e]
  /\ s.id = r.id /\ s.prob = r.prob
  /\ pending'[d] = (pending[d] \ {r}) \cup {s}

\* A registration whose step is changed is the only one that moves.
LEMMA BecomesMovesOn ==
  ASSUME TypeOK, NEW d \in Daemons, NEW r \in pending[d],
         NEW step \in {"stored", "entered"}, pending' = Becomes(d, r, step)
  PROVE  \E s : s.step = step /\ MovesOn(d, r, s)
<1>1. PICK s : s = [r EXCEPT !.step = step]
  OBVIOUS
<1>2. /\ s \in [id : Ids, prob : Problems, step : {"loaded", "stored", "entered"}]
      /\ s.id = r.id /\ s.prob = r.prob /\ s.step = step
  BY <1>1, PendingTypes
<1>3. pending' = [pending EXCEPT ![d] = (pending[d] \ {r}) \cup {s}]
  BY <1>1 DEF Becomes
<1>4. pending \in [Daemons -> SUBSET [id : Ids, prob : Problems,
                                     step : {"loaded", "stored", "entered"}]]
  BY DEF TypeOK
<1>5. (pending[d] \ {r}) \cup {s} \in SUBSET [id : Ids, prob : Problems,
                                             step : {"loaded", "stored", "entered"}]
  BY <1>2, <1>4
<1>6. MovesOn(d, r, s)
  BY <1>2, <1>3, <1>4, <1>5 DEF MovesOn
<1> QED BY <1>2, <1>6

\* A registration is over.
Over(d, r) ==
  /\ pending' \in [Daemons -> SUBSET [id : Ids, prob : Problems,
                                      step : {"loaded", "stored", "entered"}]]
  /\ \A e \in Daemons \ {d} : pending'[e] = pending[e]
  /\ pending'[d] = pending[d] \ {r}

\* A registration that is dropped is over, whatever the others do.
LEMMA DroppedEnds ==
  ASSUME TypeOK, NEW d \in Daemons, NEW r \in pending[d], pending' = Dropped(d, r)
  PROVE  Over(d, r)
BY DEF Dropped, Over, TypeOK

\* The steps of a registration up to the file.
LEMMA TakeEffect ==
  ASSUME TypeOK, NEW d \in Daemons, TakeId(d)
  PROVE  /\ socket[d] = "listening" /\ auto_increment[d] \in Ids
         /\ raced' = (raced \/ \E r \in pending[d] : r.step = "loaded")
         /\ UNCHANGED <<way, run, pc, cwd, guarded, socket, auto_increment, list, writing,
                        pid_file, disk, id, acked, missed, stale, unsaved, unwritten>>
         /\ pending' \in [Daemons -> SUBSET [id : Ids, prob : Problems,
                                             step : {"loaded", "stored", "entered"}]]
         /\ \A e \in Daemons \ {d} : pending'[e] = pending[e]
         /\ \E s : /\ s.id = auto_increment[d] /\ s.step = "loaded" /\ id[s.prob] = 0
                   /\ \A e \in Daemons : \A r \in pending[e] : r.prob # s.prob
                   /\ pending'[d] = pending[d] \cup {s}
<1>1. /\ socket[d] = "listening" /\ auto_increment[d] \in Ids
      /\ raced' = (raced \/ \E r \in pending[d] : r.step = "loaded")
      /\ UNCHANGED <<way, run, pc, cwd, guarded, socket, auto_increment, list, writing,
                     pid_file, disk, id, acked, missed, stale, unsaved, unwritten>>
  BY DEF TakeId, config, process, files
<1>2. PICK p \in Problems :
        /\ id[p] = 0 /\ \A e \in Daemons : p \notin Taken(e)
        /\ pending' = [pending EXCEPT ![d] =
             pending[d] \cup {[id |-> auto_increment[d], prob |-> p, step |-> "loaded"]}]
  BY DEF TakeId
<1>3. PICK s : s = [id |-> auto_increment[d], prob |-> p, step |-> "loaded"]
  OBVIOUS
<1>4. /\ s \in [id : Ids, prob : Problems, step : {"loaded", "stored", "entered"}]
      /\ s.id = auto_increment[d] /\ s.prob = p /\ s.step = "loaded"
  BY <1>1, <1>3
<1>5. /\ pending' \in [Daemons -> SUBSET [id : Ids, prob : Problems,
                                          step : {"loaded", "stored", "entered"}]]
      /\ \A e \in Daemons \ {d} : pending'[e] = pending[e]
      /\ pending'[d] = pending[d] \cup {s}
  BY <1>2, <1>3, <1>4 DEF TypeOK
<1>6. \A e \in Daemons : \A r \in pending[e] : r.prob # s.prob
  BY <1>2, <1>4 DEF Taken
<1> QED BY <1>1, <1>2, <1>4, <1>5, <1>6

\* The second half of auto_increment++ stores the next of the id loaded.
LEMMA StoreEffect ==
  ASSUME TypeOK, NEW d \in Daemons, StoreId(d)
  PROVE  /\ UNCHANGED <<way, run, pc, cwd, guarded, socket, list, writing,
                        pid_file, disk, id, acked, missed, stale, raced, unsaved, unwritten>>
         /\ auto_increment' \in [Daemons -> 0 .. Cardinality(Problems) + 1]
         /\ \A e \in Daemons \ {d} : auto_increment'[e] = auto_increment[e]
         /\ \E r \in pending[d] : \E s :
              /\ r.step = "loaded" /\ s.step = "stored" /\ MovesOn(d, r, s)
              /\ auto_increment'[d] = r.id + 1
<1>1. PICK r \in pending[d] :
        /\ r.step = "loaded" /\ pending' = Becomes(d, r, "stored")
        /\ auto_increment' = [auto_increment EXCEPT ![d] = r.id + 1]
        /\ UNCHANGED <<way, run, pc, cwd, guarded, socket, list, writing,
                       pid_file, disk, id, acked, missed, stale, raced, unsaved, unwritten>>
  BY DEF StoreId, config, process, files, hist
<1>2. PICK s : s.step = "stored" /\ MovesOn(d, r, s)
  BY <1>1, BecomesMovesOn
<1>3. r.id + 1 \in 0 .. Cardinality(Problems) + 1
  BY PendingTypes, IdsNumbers DEF Ids
<1> QED BY <1>1, <1>2, <1>3 DEF TypeOK

\* A registration enters the database directory, or is refused for want of a path to it.
LEMMA EnterEffect ==
  ASSUME TypeOK, NEW d \in Daemons, EnterDatabase(d)
  PROVE  /\ UNCHANGED <<way, run, pc, guarded, socket, auto_increment, list, writing,
                        pid_file, disk, id, acked, missed, stale, raced, unsaved, unwritten>>
         /\ cwd' \in [Daemons -> Dirs]
         /\ \A e \in Daemons \ {d} : cwd'[e] = cwd[e]
         /\ \E r \in pending[d] :
              /\ r.step = "stored"
              /\ \/ cwd' = cwd /\ Over(d, r)
                 \/ /\ way[cwd[d]] \in Dirs /\ cwd'[d] = way[cwd[d]]
                    /\ \E s : s.step = "entered" /\ MovesOn(d, r, s)
<1>1. /\ UNCHANGED <<way, run, pc, guarded, socket, auto_increment, list, writing,
                     pid_file, disk, id, acked, missed, stale, raced, unsaved, unwritten>>
  BY DEF EnterDatabase, config, files, hist
<1>2. PICK r \in pending[d] :
        /\ r.step = "stored"
        /\ IF way[cwd[d]] = NULL THEN pending' = Dropped(d, r) /\ UNCHANGED cwd
           ELSE pending' = Becomes(d, r, "entered") /\ cwd' = [cwd EXCEPT ![d] = way[cwd[d]]]
  BY DEF EnterDatabase, Entered
<1>3. way[cwd[d]] \in Dirs \cup {NULL}
  BY SMTT(60) DEF TypeOK, Path
<1>4. CASE way[cwd[d]] = NULL
  <2>1. Over(d, r) /\ UNCHANGED cwd
    BY <1>2, <1>4, DroppedEnds
  <2> QED BY <1>1, <1>2, <2>1 DEF TypeOK
<1>5. CASE way[cwd[d]] # NULL
  <2>1. \E s : s.step = "entered" /\ MovesOn(d, r, s)
    BY <1>2, <1>5, BecomesMovesOn
  <2>2. /\ cwd' \in [Daemons -> Dirs] /\ cwd'[d] = way[cwd[d]]
        /\ \A e \in Daemons \ {d} : cwd'[e] = cwd[e]
    BY ZenonT(60), <1>2, <1>3, <1>5 DEF TypeOK
  <2>3. way[cwd[d]] \in Dirs
    BY <1>3, <1>5
  <2>4. \E x \in pending[d] :
          /\ x.step = "stored"
          /\ \/ cwd' = cwd /\ Over(d, x)
             \/ /\ way[cwd[d]] \in Dirs /\ cwd'[d] = way[cwd[d]]
                /\ \E s : s.step = "entered" /\ MovesOn(d, x, s)
    <3>1. r.step = "stored"
      BY <1>2
    <3> QED BY ZenonT(60), <2>1, <2>2, <2>3, <3>1
  <2> QED BY ZenonT(60), <1>1, <2>2, <2>4
<1> QED BY <1>4, <1>5

\* A registration refused leaves the files and the list as they are.
LEMMA RefuseEffect ==
  ASSUME TypeOK, NEW d \in Daemons, Refuse(d)
  PROVE  /\ UNCHANGED <<way, run, pc, cwd, guarded, socket, auto_increment, list, writing,
                        pid_file, disk, id, acked, missed, stale, raced, unsaved, unwritten>>
         /\ \E r \in pending[d] : Over(d, r)
<1>1. UNCHANGED <<way, run, pc, cwd, guarded, socket, auto_increment, list, writing,
                  pid_file, disk, id, acked, missed, stale, raced, unsaved, unwritten>>
  BY DEF Refuse, config, process, files, hist
<1>2. \E r \in pending[d] : Over(d, r)
  BY DroppedEnds DEF Refuse
<1> QED BY <1>1, <1>2

\* A registration writes a file, whole or not, and a list, and gives its id to the
\* problem.
Saved(d, r) ==
  /\ r.id \in Ids /\ r.prob \in Problems /\ r.step = "entered" /\ Over(d, r)
  /\ disk' \in [Dirs -> [Ids -> File]]
  /\ \A x \in Dirs, i \in Ids : x # cwd[d] \/ i # r.id => disk'[x][i] = disk[x][i]
  /\ disk'[cwd[d]][r.id].prob = r.prob \/ r.prob \in unsaved'
  /\ disk'[cwd[d]][r.id].prob \in {r.prob, NULL}
  /\ unsaved \subseteq unsaved' /\ unsaved' \subseteq unsaved \cup {r.prob}
  /\ id' \in [Problems -> Ids \cup {0}]
  /\ \A p \in Problems : id'[p] = IF p = r.prob THEN r.id ELSE id[p]
  /\ list' \in [Daemons -> [Problems -> {"none", "N", "S"}]]
  /\ \A e \in Daemons, p \in Problems :
       list'[e][p] = IF e = d /\ p = r.prob THEN "N" ELSE list[e][p]
  /\ \A e \in Daemons \ {d} : list'[e] = list[e]
  /\ acked' = acked \cup {r.prob}
  /\ missed' = missed \cup {e \in Daemons \ {d} : Alive(e)}
  /\ stale' = (stale \/ d \in missed)
  /\ UNCHANGED <<way, run, pc, cwd, guarded, socket, auto_increment, writing, pid_file,
                 raced, unwritten>>

\* What writing the file and inserting the problem change, together.
LEMMA SaveEffect ==
  ASSUME TypeOK, NEW d \in Daemons, Save(d)
  PROVE  \E r \in pending[d] : Saved(d, r)
<1>1. PICK r \in pending[d] :
         /\ r.step = "entered" /\ pending' = Dropped(d, r)
         /\ \/ /\ disk' = [disk EXCEPT ![cwd[d]][r.id] = [prob |-> r.prob, status |-> "N"]]
               /\ UNCHANGED unsaved
            \/ /\ disk' = [disk EXCEPT ![cwd[d]][r.id] = Torn]
               /\ unsaved' = unsaved \cup {r.prob}
         /\ id' = [id EXCEPT ![r.prob] = r.id]
         /\ list' = [list EXCEPT ![d][r.prob] = "N"]
         /\ acked' = acked \cup {r.prob}
         /\ missed' = missed \cup {e \in Daemons \ {d} : Alive(e)}
         /\ stale' = (stale \/ d \in missed)
         /\ UNCHANGED <<way, run, pc, cwd, guarded, socket, auto_increment, writing, pid_file,
                        raced, unwritten>>
  BY DEF Save, config, process
<1>2. r.id \in Ids /\ r.prob \in Problems /\ cwd[d] \in Dirs
  BY PendingTypes DEF TypeOK
<1>3. PICK new :
        /\ new \in File /\ new.prob \in {r.prob, NULL}
        /\ disk' = [disk EXCEPT ![cwd[d]][r.id] = new]
        /\ new.prob = r.prob \/ r.prob \in unsaved'
        /\ unsaved \subseteq unsaved' /\ unsaved' \subseteq unsaved \cup {r.prob}
  <2>1. Torn \in File /\ Torn.prob = NULL
    BY DEF File, Torn
  <2>2. /\ [prob |-> r.prob, status |-> "N"] \in File
        /\ [prob |-> r.prob, status |-> "N"].prob = r.prob
    BY <1>2 DEF File
  <2>3. CASE disk' = [disk EXCEPT ![cwd[d]][r.id] = [prob |-> r.prob, status |-> "N"]] /\ UNCHANGED unsaved
    BY <2>2, <2>3
  <2>4. CASE disk' = [disk EXCEPT ![cwd[d]][r.id] = Torn] /\ unsaved' = unsaved \cup {r.prob}
    BY <2>1, <2>4
  <2> QED BY <1>1, <2>3, <2>4
<1>4. /\ disk' \in [Dirs -> [Ids -> File]]
      /\ \A x \in Dirs, i \in Ids : disk'[x][i] = IF x = cwd[d] /\ i = r.id THEN new ELSE disk[x][i]
  BY <1>2, <1>3 DEF TypeOK
<1>5. /\ id' \in [Problems -> Ids \cup {0}]
      /\ \A p \in Problems : id'[p] = IF p = r.prob THEN r.id ELSE id[p]
  BY <1>1, <1>2 DEF TypeOK
<1>6. /\ list' \in [Daemons -> [Problems -> {"none", "N", "S"}]]
      /\ \A e \in Daemons, p \in Problems :
           list'[e][p] = IF e = d /\ p = r.prob THEN "N" ELSE list[e][p]
      /\ \A e \in Daemons \ {d} : list'[e] = list[e]
  BY <1>1, <1>2 DEF TypeOK
<1>7. Over(d, r)
  BY <1>1, DroppedEnds
<1> QED BY <1>1, <1>2, <1>3, <1>4, <1>5, <1>6, <1>7 DEF Saved

\* A problem is solved in memory, and its file is to be written.
Solved(d, p) ==
  /\ pc[d] = "up" /\ list[d][p] = "N"
  /\ list' \in [Daemons -> [Problems -> {"none", "N", "S"}]]
  /\ \A e \in Daemons, q \in Problems :
       list'[e][q] = IF e = d /\ q = p THEN "S" ELSE list[e][q]
  /\ \A e \in Daemons \ {d} : list'[e] = list[e]
  /\ writing' \in [Daemons -> SUBSET Problems]
  /\ writing'[d] = writing[d] \cup {p} /\ \A e \in Daemons \ {d} : writing'[e] = writing[e]
  /\ UNCHANGED <<way, run, pc, cwd, guarded, socket, auto_increment, pending, pid_file, disk, id,
                 acked, missed, stale, raced, unsaved, unwritten>>

\* What a solver changes in memory before it writes the metadata.
LEMMA SolveEffect ==
  ASSUME TypeOK, NEW d \in Daemons, Solve(d)
  PROVE  \E p \in Problems : Solved(d, p)
<1>1. PICK p \in Problems :
         /\ list[d][p] = "N" /\ list' = [list EXCEPT ![d][p] = "S"]
         /\ writing' = [writing EXCEPT ![d] = @ \cup {p}]
  BY DEF Solve
<1>2. /\ pc[d] = "up"
      /\ UNCHANGED <<way, run, pc, cwd, guarded, socket, auto_increment, pending, pid_file, disk,
                     id, acked, missed, stale, raced, unsaved, unwritten>>
  BY DEF Solve, config, process, files, hist
<1>3. /\ list' \in [Daemons -> [Problems -> {"none", "N", "S"}]]
      /\ \A e \in Daemons, q \in Problems :
           list'[e][q] = IF e = d /\ q = p THEN "S" ELSE list[e][q]
      /\ \A e \in Daemons \ {d} : list'[e] = list[e]
  BY <1>1 DEF TypeOK
<1>4. /\ writing' \in [Daemons -> SUBSET Problems]
      /\ writing'[d] = writing[d] \cup {p} /\ \A e \in Daemons \ {d} : writing'[e] = writing[e]
  BY <1>1 DEF TypeOK
<1> QED BY <1>1, <1>2, <1>3, <1>4 DEF Solved

\* Its file, if there is one, is solved from then on, unless it could not be written.
Written(d, p) ==
  /\ p \in writing[d] /\ id[p] \in Ids
  /\ writing' \in [Daemons -> SUBSET Problems]
  /\ writing'[d] = writing[d] \ {p} /\ \A e \in Daemons \ {d} : writing'[e] = writing[e]
  /\ disk' \in [Dirs -> [Ids -> File]]
  /\ \A x \in Dirs, i \in Ids :
       \/ disk'[x][i] = disk[x][i]
       \/ /\ i = id[p] /\ disk'[x][i].status = "S"
          /\ disk'[x][i].prob = IF disk[x][i].prob = NULL THEN p ELSE disk[x][i].prob
  /\ unwritten \subseteq unwritten' /\ unwritten' \subseteq unwritten \cup {<<d, p>>}
  /\ way[cwd[d]] \in Dirs =>
       \/ disk[way[cwd[d]]][id[p]] = NoFile /\ disk'[way[cwd[d]]][id[p]] = NoFile
       \/ disk'[way[cwd[d]]][id[p]].status = "S"
       \/ <<d, p>> \in unwritten'
  /\ UNCHANGED <<way, run, pc, cwd, guarded, socket, auto_increment, list, pending, pid_file, id,
                 acked, missed, stale, raced, unsaved>>

\* What writing the metadata changes on file, or that it goes unwritten.
LEMMA WriteEffect ==
  ASSUME TypeOK, Registering, NEW d \in Daemons, WriteMetadata(d)
  PROVE  \E p \in Problems : Written(d, p)
<1> DEFINE dir == way[cwd[d]]
<1>1. PICK p \in writing[d] :
         /\ writing' = [writing EXCEPT ![d] = @ \ {p}]
         /\ IF dir # NULL /\ disk[dir][id[p]] # NoFile
            THEN \/ /\ disk' = [disk EXCEPT ![dir][id[p]] = Rewritten(@, p)]
                    /\ UNCHANGED unwritten
                 \/ unwritten' = unwritten \cup {<<d, p>>} /\ UNCHANGED disk
            ELSE UNCHANGED <<disk, unwritten>>
  BY DEF WriteMetadata, Named
<1>2. UNCHANGED <<way, run, pc, cwd, guarded, socket, auto_increment, list, pending, pid_file, id,
                  acked, missed, stale, raced, unsaved>>
  BY DEF WriteMetadata, config, process
<1>3. p \in Problems
  BY DEF TypeOK
<1>4. id[p] \in Ids
  <2>1. id[p] # 0
    BY <1>1, <1>3 DEF Registering
  <2> QED BY <1>3, <2>1 DEF TypeOK
<1>5. disk \in [Dirs -> [Ids -> File]] /\ dir \in Dirs \cup {NULL} /\ NULL \notin Dirs
  BY SMTT(60), ConstantsAssumption DEF TypeOK, Path
<1>6. /\ writing' \in [Daemons -> SUBSET Problems]
      /\ writing'[d] = writing[d] \ {p} /\ \A e \in Daemons \ {d} : writing'[e] = writing[e]
  BY SMTT(60), <1>1 DEF TypeOK
<1>7. CASE UNCHANGED disk
  <2>1. \/ unwritten' = unwritten \cup {<<d, p>>}
        \/ unwritten' = unwritten /\ (dir \in Dirs => disk[dir][id[p]] = NoFile)
        \/ unwritten' = unwritten /\ (dir \in Dirs => disk[dir][id[p]].status = "S")
    <3>1. CASE dir # NULL /\ disk[dir][id[p]] # NoFile
      <4>1. CASE disk' = [disk EXCEPT ![dir][id[p]] = Rewritten(@, p)] /\ UNCHANGED unwritten
        <5>1. disk'[dir][id[p]] = Rewritten(disk[dir][id[p]], p)
          BY <1>4, <1>5, <3>1, <4>1
        <5> QED BY <1>7, <4>1, <5>1 DEF Rewritten
      <4> QED BY SMTT(60), <1>1, <3>1, <4>1
    <3>2. CASE ~(dir # NULL /\ disk[dir][id[p]] # NoFile)
      BY <1>1, <1>5, <3>2
    <3> QED BY <3>1, <3>2
  <2>2. unwritten \subseteq unwritten' /\ unwritten' \subseteq unwritten \cup {<<d, p>>}
    BY <2>1
  <2> QED BY <1>1, <1>2, <1>3, <1>4, <1>5, <1>6, <1>7, <2>1, <2>2 DEF Written
<1>8. CASE /\ dir # NULL /\ disk[dir][id[p]] # NoFile /\ UNCHANGED unwritten
           /\ disk' = [disk EXCEPT ![dir][id[p]] = Rewritten(@, p)]
  <2>1. PICK new : new = Rewritten(disk[dir][id[p]], p)
    OBVIOUS
  <2>2. /\ new \in File /\ new.status = "S"
        /\ new.prob = IF disk[dir][id[p]].prob = NULL THEN p ELSE disk[dir][id[p]].prob
    <3>1. disk[dir][id[p]].prob \in Problems \cup {NULL}
      BY <1>4, <1>5, <1>8, FileTypes
    <3>2. PICK q \in Problems : q = IF disk[dir][id[p]].prob = NULL THEN p ELSE disk[dir][id[p]].prob
      BY <1>3, <3>1
    <3>3. new = [prob |-> q, status |-> "S"]
      BY <2>1, <3>2 DEF Rewritten
    <3> QED BY <3>2, <3>3 DEF File
  <2>3. disk' = [disk EXCEPT ![dir] = [disk[dir] EXCEPT ![id[p]] = new]]
    BY <1>8, <2>1
  <2>4. [disk[dir] EXCEPT ![id[p]] = new] \in [Ids -> File] /\ dir \in Dirs
    BY <1>5, <1>8, <2>2
  <2>5. disk' \in [Dirs -> [Ids -> File]]
    BY <1>5, <2>3, <2>4
  <2>6. \A x \in Dirs, i \in Ids :
          disk'[x][i] = IF x = dir /\ i = id[p] THEN new ELSE disk[x][i]
    BY SMTT(60), <1>4, <1>5, <2>3, <2>4
  <2>7. \A x \in Dirs, i \in Ids :
          \/ disk'[x][i] = disk[x][i]
          \/ /\ i = id[p] /\ disk'[x][i].status = "S"
             /\ disk'[x][i].prob = IF disk[x][i].prob = NULL THEN p ELSE disk[x][i].prob
    BY <2>2, <2>6
  <2>8. disk'[dir][id[p]].status = "S"
    BY <1>4, <2>2, <2>4, <2>6
  <2>9. unwritten \subseteq unwritten' /\ unwritten' \subseteq unwritten \cup {<<d, p>>}
    BY SMTT(60), <1>8
  <2> QED BY <1>1, <1>2, <1>3, <1>4, <1>6, <2>5, <2>7, <2>8, <2>9 DEF Written
<1> QED BY <1>1, <1>7, <1>8

\* Loading reads the status of the problems on file, or fails and knows of none.
LEMMA LoadEffect ==
  ASSUME TypeOK, NEW d \in Daemons, Load(d)
  PROVE  /\ pc[d] = "off" /\ pc' \in [Daemons -> {"off", "loaded", "detached", "up", "over"}]
         /\ \A e \in Daemons \ {d} : pc'[e] = pc[e]
         /\ list' \in [Daemons -> [Problems -> {"none", "N", "S"}]]
         /\ \A e \in Daemons \ {d} : list'[e] = list[e]
         /\ auto_increment' \in [Daemons -> 0 .. Cardinality(Problems) + 1]
         /\ \A e \in Daemons \ {d} : auto_increment'[e] = auto_increment[e]
         /\ UNCHANGED <<way, run, cwd, guarded, socket, pending, writing, pid_file, disk, id,
                        acked, stale, raced, unsaved, unwritten>>
         /\ \/ /\ way[cwd[d]] \in Dirs /\ pc'[d] = "loaded" /\ missed' = missed
               /\ auto_increment'[d] = NextId(way[cwd[d]])
               /\ \A p \in Problems : list'[d][p] =
                    IF Holds(way[cwd[d]], p) THEN disk[way[cwd[d]]][id[p]].status ELSE "none"
            \/ pc'[d] = "loaded" /\ missed' = missed \cup {d} /\ list' = list
            \/ pc'[d] = "over" /\ missed' = missed /\ list' = list
<1> DEFINE dir == way[cwd[d]]
<1>1. /\ pc[d] = "off"
      /\ UNCHANGED <<way, run, cwd, guarded, socket, pending, writing, pid_file, disk, id,
                     acked, stale, raced, unsaved, unwritten>>
  BY DEF Load, config, files
<1>2. dir \in Dirs \cup {NULL} /\ NULL \notin Dirs
  BY SMTT(60), ConstantsAssumption DEF TypeOK, Path
<1>3. 1 \in 0 .. Cardinality(Problems) + 1
  BY SMTT(60), IdsNumbers
<1>4. CASE /\ dir # NULL
           /\ list' = [list EXCEPT ![d] = [p \in Problems |->
                         IF Holds(dir, p) THEN disk[dir][id[p]].status ELSE "none"]]
           /\ auto_increment' = [auto_increment EXCEPT ![d] = NextId(dir)]
           /\ pc' = [pc EXCEPT ![d] = "loaded"] /\ UNCHANGED missed
  <2>1. PICK loaded : loaded = [p \in Problems |->
                        IF Holds(dir, p) THEN disk[dir][id[p]].status ELSE "none"]
    OBVIOUS
  <2>2. \A p \in Problems : loaded[p] \in {"none", "N", "S"}
    <3>1. ASSUME NEW p \in Problems, Holds(dir, p) PROVE disk[dir][id[p]].status \in {"none", "N", "S"}
      <4>1. id[p] \in Ids /\ disk[dir][id[p]].prob # NULL
        BY SMTT(60), <3>1, ConstantsAssumption DEF Holds, TypeOK
      <4> QED BY <1>2, <1>4, <4>1, FileTypes
    <3> QED BY <2>1, <3>1
  <2>3. loaded \in [Problems -> {"none", "N", "S"}]
    BY <2>1, <2>2
  <2>4. /\ list' \in [Daemons -> [Problems -> {"none", "N", "S"}]]
        /\ list'[d] = loaded /\ \A e \in Daemons \ {d} : list'[e] = list[e]
    BY <1>4, <2>1, <2>3 DEF TypeOK
  <2>5. /\ auto_increment' \in [Daemons -> 0 .. Cardinality(Problems) + 1]
        /\ auto_increment'[d] = NextId(dir)
        /\ \A e \in Daemons \ {d} : auto_increment'[e] = auto_increment[e]
    BY <1>4, NextIdIsNew DEF TypeOK
  <2>6. /\ pc' \in [Daemons -> {"off", "loaded", "detached", "up", "over"}] /\ pc'[d] = "loaded"
        /\ \A e \in Daemons \ {d} : pc'[e] = pc[e]
    BY <1>4 DEF TypeOK
  <2> QED BY <1>1, <1>2, <1>4, <2>1, <2>4, <2>5, <2>6
<1>5. CASE /\ UNCHANGED list
           /\ \/ UNCHANGED auto_increment
              \/ auto_increment' = [auto_increment EXCEPT ![d] = 1]
           /\ \/ pc' = [pc EXCEPT ![d] = "loaded"] /\ missed' = missed \cup {d}
              \/ pc' = [pc EXCEPT ![d] = "over"] /\ missed' = missed
  <2>1. /\ auto_increment' \in [Daemons -> 0 .. Cardinality(Problems) + 1]
        /\ \A e \in Daemons \ {d} : auto_increment'[e] = auto_increment[e]
    <3>1. CASE UNCHANGED auto_increment
      BY <3>1 DEF TypeOK
    <3>2. CASE auto_increment' = [auto_increment EXCEPT ![d] = 1]
      BY <1>3, <3>2 DEF TypeOK
    <3> QED BY <1>5, <3>1, <3>2
  <2>2. /\ pc' \in [Daemons -> {"off", "loaded", "detached", "up", "over"}]
        /\ \A e \in Daemons \ {d} : pc'[e] = pc[e]
        /\ \/ pc'[d] = "loaded" /\ missed' = missed \cup {d}
           \/ pc'[d] = "over" /\ missed' = missed
    <3>1. CASE pc' = [pc EXCEPT ![d] = "loaded"] /\ missed' = missed \cup {d}
      BY <3>1 DEF TypeOK
    <3>2. CASE pc' = [pc EXCEPT ![d] = "over"] /\ missed' = missed
      BY <3>2 DEF TypeOK
    <3> QED BY <1>5, <3>1, <3>2
  <2>3. list' = list
    BY <1>5
  <2>4. list' \in [Daemons -> [Problems -> {"none", "N", "S"}]]
    BY <2>3 DEF TypeOK
  <2> QED BY <1>1, <2>1, <2>2, <2>3, <2>4
<1>6. \/ /\ dir # NULL
         /\ list' = [list EXCEPT ![d] = [p \in Problems |->
                       IF Holds(dir, p) THEN disk[dir][id[p]].status ELSE "none"]]
         /\ auto_increment' = [auto_increment EXCEPT ![d] = NextId(dir)]
         /\ pc' = [pc EXCEPT ![d] = "loaded"] /\ UNCHANGED missed
      \/ /\ auto_increment' = [auto_increment EXCEPT ![d] = 1]
         /\ pc' = [pc EXCEPT ![d] = "loaded"] /\ missed' = missed \cup {d} /\ UNCHANGED list
      \/ /\ pc' = [pc EXCEPT ![d] = "over"] /\ UNCHANGED <<auto_increment, list, missed>>
  BY DEF Load
<1> QED BY <1>4, <1>5, <1>6

\* What an end leaves behind: nothing of the process.
LEMMA EndEffect ==
  ASSUME TypeOK, NEW d \in Daemons, Ends(d)
  PROVE  /\ pc' \in [Daemons -> {"off", "loaded", "detached", "up", "over"}]
         /\ pc'[d] = "over" /\ \A e \in Daemons \ {d} : pc'[e] = pc[e]
         /\ socket' \in [Daemons -> {"none", "listening", "failed"}]
         /\ socket'[d] = "none" /\ \A e \in Daemons \ {d} : socket'[e] = socket[e]
         /\ auto_increment' \in [Daemons -> 0 .. Cardinality(Problems) + 1]
         /\ \A e \in Daemons \ {d} : auto_increment'[e] = auto_increment[e]
         /\ list' \in [Daemons -> [Problems -> {"none", "N", "S"}]]
         /\ list'[d] = Unknown /\ \A e \in Daemons \ {d} : list'[e] = list[e]
         /\ pending' \in [Daemons -> SUBSET [id : Ids, prob : Problems,
                                             step : {"loaded", "stored", "entered"}]]
         /\ pending'[d] = {} /\ \A e \in Daemons \ {d} : pending'[e] = pending[e]
         /\ writing' \in [Daemons -> SUBSET Problems]
         /\ writing'[d] = {} /\ \A e \in Daemons \ {d} : writing'[e] = writing[e]
         /\ missed' = missed \ {d}
         /\ unwritten' \subseteq unwritten
         /\ \A e \in Daemons \ {d}, p \in Problems : <<e, p>> \in unwritten => <<e, p>> \in unwritten'
<1>1. 0 \in 0 .. Cardinality(Problems) + 1 /\ Unknown \in [Problems -> {"none", "N", "S"}]
  BY IdsNumbers DEF Unknown
<1>2. /\ missed' = missed \ {d} /\ unwritten' \subseteq unwritten
      /\ \A e \in Daemons \ {d}, p \in Problems : <<e, p>> \in unwritten => <<e, p>> \in unwritten'
  BY DEF Ends
<1>3. /\ auto_increment' \in [Daemons -> 0 .. Cardinality(Problems) + 1]
      /\ \A e \in Daemons \ {d} : auto_increment'[e] = auto_increment[e]
      /\ list' \in [Daemons -> [Problems -> {"none", "N", "S"}]]
      /\ list'[d] = Unknown /\ \A e \in Daemons \ {d} : list'[e] = list[e]
  BY <1>1 DEF Ends, TypeOK
<1>4. /\ pending' \in [Daemons -> SUBSET [id : Ids, prob : Problems,
                                          step : {"loaded", "stored", "entered"}]]
      /\ pending'[d] = {} /\ \A e \in Daemons \ {d} : pending'[e] = pending[e]
      /\ writing' \in [Daemons -> SUBSET Problems]
      /\ writing'[d] = {} /\ \A e \in Daemons \ {d} : writing'[e] = writing[e]
  BY DEF Ends, TypeOK
<1>5. /\ pc' \in [Daemons -> {"off", "loaded", "detached", "up", "over"}]
      /\ pc'[d] = "over" /\ \A e \in Daemons \ {d} : pc'[e] = pc[e]
      /\ socket' \in [Daemons -> {"none", "listening", "failed"}]
      /\ socket'[d] = "none" /\ \A e \in Daemons \ {d} : socket'[e] = socket[e]
  BY DEF Ends, TypeOK
<1> QED BY <1>2, <1>3, <1>4, <1>5

-----------------------------------------------------------------------------
\* A process that is not there holds nothing.
Gone ==
  \A d \in Daemons : ~Alive(d) =>
    /\ socket[d] = "none" /\ list[d] = Unknown /\ d \notin missed
    /\ pending[d] = {} /\ writing[d] = {}
    /\ \A x \in Dirs : pid_file[x] # d

\* Processes that are not there stay so while nothing is given to them.
LEMMA StaysGone ==
  ASSUME TypeOK,
         \A e \in Daemons : ~Alive(e)' =>
           /\ ~Alive(e) /\ socket'[e] = socket[e] /\ list'[e] = list[e]
           /\ e \in missed' => e \in missed
           /\ pending'[e] = pending[e] /\ writing'[e] = writing[e]
           /\ \A x \in Dirs : pid_file'[x] = e => pid_file[x] = e
  PROVE  Gone'
<1>1. SUFFICES ASSUME NEW e \in Daemons, ~Alive(e)'
               PROVE  /\ socket'[e] = "none" /\ list'[e] = Unknown' /\ e \notin missed'
                      /\ pending'[e] = {} /\ writing'[e] = {}
                      /\ \A x \in Dirs : pid_file'[x] # e
  BY DEF Gone
<1>2. /\ socket[e] = "none" /\ list[e] = Unknown /\ e \notin missed
      /\ pending[e] = {} /\ writing[e] = {}
      /\ \A x \in Dirs : pid_file[x] # e
  BY <1>1 DEF TypeOK
<1>3. Unknown' = Unknown
  BY DEF Unknown
<1> QED BY <1>1, <1>2, <1>3

\* TypeOK, one group of actions at a time: reading the database,
LEMMA LoadTypes ==
  ASSUME TypeOK, NEW d \in Daemons, Load(d)
  PROVE  TypeOK'
<1>1. \A e \in Daemons : ~Alive(e)' =>
           /\ ~Alive(e) /\ list'[e] = list[e] /\ (e \in missed' => e \in missed)
  BY LoadEffect DEF Alive
<1>2. UNCHANGED <<socket, pending, writing, pid_file>>
  BY LoadEffect
<1>3. Gone'
  BY <1>1, <1>2, StaysGone
<1>4. missed' \subseteq Daemons
  <2>1. missed' = missed \/ missed' = missed \cup {d}
    BY LoadEffect
  <2> QED BY <2>1 DEF TypeOK
<1>5. /\ pc' \in [Daemons -> {"off", "loaded", "detached", "up", "over"}]
      /\ list' \in [Daemons -> [Problems -> {"none", "N", "S"}]]
      /\ auto_increment' \in [Daemons -> 0 .. Cardinality(Problems) + 1]
      /\ UNCHANGED <<way, run, cwd, guarded, socket, pending, writing, pid_file, disk, id,
                     acked, stale, raced, unsaved, unwritten>>
  BY LoadEffect
<1> QED BY <1>3, <1>4, <1>5 DEF TypeOK, Gone

\* the steps of the start after it,
LEMMA StartTypes ==
  ASSUME TypeOK, NEW d \in Daemons, StayUnguarded(d) \/ Daemonize(d) \/ Bind(d)
  PROVE  TypeOK'
<1>1. /\ UNCHANGED <<way, run, list, auto_increment, pending, writing, pid_file, disk, id, acked,
                     missed, stale, raced, unsaved, unwritten>>
      /\ Alive(d)
  BY DEF StayUnguarded, Daemonize, Bind, config, memory, files, hist, Alive
<1>2. /\ cwd' \in [Daemons -> Dirs] /\ guarded' \in [Daemons -> BOOLEAN]
      /\ pc' \in [Daemons -> {"off", "loaded", "detached", "up", "over"}]
      /\ socket' \in [Daemons -> {"none", "listening", "failed"}]
      /\ \A e \in Daemons \ {d} : pc'[e] = pc[e] /\ socket'[e] = socket[e]
      /\ pc'[d] \notin {"off", "over"}
  <2>1. CASE StayUnguarded(d)
    BY <2>1 DEF StayUnguarded, TypeOK
  <2>2. CASE Daemonize(d)
    <3>1. cwd[d] \in Dirs /\ RunTo(cwd[d]) \in Dirs
      BY RunToDirectory DEF TypeOK
    <3> QED BY <2>2, <3>1 DEF Daemonize, TypeOK
  <2>3. CASE Bind(d)
    <3>1. /\ UNCHANGED <<pc, cwd, guarded>> /\ pc[d] = "up"
          /\ socket' = [socket EXCEPT ![d] = "failed"] \/ socket' = [socket EXCEPT ![d] = "listening"]
      BY <2>3 DEF Bind
    <3> QED BY ZenonT(60), <3>1 DEF TypeOK
  <2> QED BY <2>1, <2>2, <2>3
<1>3. Gone'
  BY <1>1, <1>2, StaysGone DEF Alive
<1> QED BY <1>1, <1>2, <1>3 DEF TypeOK, Gone

\* the ends of a process, whatever the reason,
LEMMA EndTypes ==
  ASSUME TypeOK, NEW d \in Daemons, Ends(d),
         UNCHANGED <<way, run, cwd, guarded, disk, id, acked, stale, raced, unsaved>>,
         pid_file' \in [Dirs -> Daemons \cup {NULL}],
         \A x \in Dirs : pid_file'[x] # d /\ (pid_file'[x] = pid_file[x] \/ pid_file'[x] = NULL)
  PROVE  TypeOK'
<1>1. ASSUME NEW e \in Daemons, ~Alive(e)'
      PROVE  /\ socket'[e] = "none" /\ list'[e] = Unknown' /\ e \notin missed'
             /\ pending'[e] = {} /\ writing'[e] = {}
             /\ \A x \in Dirs : pid_file'[x] # e
  <2>1. Unknown' = Unknown
    BY DEF Unknown
  <2>2. CASE e = d
    BY <2>1, <2>2, EndEffect
  <2>3. CASE e # d
    <3>1. pc'[e] = pc[e]
      BY <2>3, EndEffect
    <3>2. ~Alive(e)
      BY <1>1, <3>1 DEF Alive
    <3>3. /\ socket[e] = "none" /\ list[e] = Unknown /\ e \notin missed
          /\ pending[e] = {} /\ writing[e] = {} /\ \A x \in Dirs : pid_file[x] # e
      BY <3>2 DEF TypeOK
    <3>4. /\ socket'[e] = socket[e] /\ list'[e] = list[e] /\ missed' = missed \ {d}
          /\ pending'[e] = pending[e] /\ writing'[e] = writing[e]
      BY <2>3, EndEffect
    <3>5. \A x \in Dirs : pid_file'[x] # e
      BY <3>3, ConstantsAssumption
    <3> QED BY <2>1, <3>3, <3>4, <3>5
  <2> QED BY <2>2, <2>3
<1>2. Gone'
  BY <1>1 DEF Gone
<1>3. missed' \subseteq Daemons /\ unwritten' \subseteq Daemons \X Problems
  BY EndEffect DEF TypeOK
<1> QED BY <1>2, <1>3, EndEffect DEF TypeOK, Gone

\* the lock and the stop, by which a process goes on or ends,
LEMMA LockTypes ==
  ASSUME TypeOK, Started, NEW d \in Daemons, Lock(d) \/ Stop(d)
  PROVE  TypeOK'
<1>1. UNCHANGED <<way, run, cwd, guarded, disk, id, acked, stale, raced, unsaved>>
  BY DEF Lock, Stop, config, files
<1>2. CASE Lock(d) /\ pid_file[cwd[d]] = NULL
  <2>1. /\ pid_file' = [pid_file EXCEPT ![cwd[d]] = d] /\ pc' = [pc EXCEPT ![d] = "up"]
        /\ UNCHANGED <<socket, auto_increment, list, pending, writing, missed, unwritten>>
        /\ pc[d] = "detached"
    BY <1>2 DEF Lock, LockFile, memory
  <2>2. /\ pid_file' \in [Dirs -> Daemons \cup {NULL}]
        /\ pc' \in [Daemons -> {"off", "loaded", "detached", "up", "over"}]
        /\ pc'[d] = "up" /\ \A e \in Daemons \ {d} : pc'[e] = pc[e]
        /\ \A x \in Dirs : pid_file'[x] \in {pid_file[x], d}
    BY <2>1 DEF TypeOK
  <2>3. Gone'
    BY <2>1, <2>2, StaysGone DEF Alive
  <2> QED BY <1>1, <2>1, <2>2, <2>3 DEF TypeOK, Gone
<1>3. CASE Lock(d) /\ pid_file[cwd[d]] # NULL
  <2>1. Ends(d) /\ pc[d] = "detached" /\ UNCHANGED pid_file
    BY <1>3 DEF Lock
  <2>2. /\ pid_file' \in [Dirs -> Daemons \cup {NULL}]
        /\ \A x \in Dirs : pid_file'[x] = pid_file[x] /\ pid_file[x] # d
    BY <2>1 DEF TypeOK, Started
  <2> QED BY <1>1, <2>1, <2>2, EndTypes
<1>4. CASE Stop(d)
  <2>1. Ends(d) /\ pid_file' = [x \in Dirs |-> IF pid_file[x] = d THEN NULL ELSE pid_file[x]]
    BY <1>4 DEF Stop, Released
  <2>2. /\ pid_file' \in [Dirs -> Daemons \cup {NULL}]
        /\ \A x \in Dirs : pid_file'[x] # d /\ (pid_file'[x] = pid_file[x] \/ pid_file'[x] = NULL)
    BY <2>1, ConstantsAssumption DEF TypeOK
  <2> QED BY <1>1, <2>1, <2>2, EndTypes
<1> QED BY <1>2, <1>3, <1>4

\* and the steps of a registration up to the file.
LEMMA RegisterTypes ==
  ASSUME TypeOK, Started, NEW d \in Daemons,
         TakeId(d) \/ StoreId(d) \/ EnterDatabase(d) \/ Refuse(d)
  PROVE  TypeOK'
<1>1. /\ UNCHANGED <<way, run, pc, guarded, socket, list, writing, pid_file, disk, id, acked,
                     missed, stale, unsaved, unwritten>>
      /\ Alive(d)
  <2>1. CASE TakeId(d)
    BY <2>1, TakeEffect DEF Started, Alive
  <2>2. CASE StoreId(d)
    BY <2>2, StoreEffect DEF Started, Alive
  <2>3. CASE EnterDatabase(d)
    BY <2>3, EnterEffect DEF Started, Alive
  <2>4. CASE Refuse(d)
    BY <2>4, RefuseEffect DEF Started, Alive
  <2> QED BY <2>1, <2>2, <2>3, <2>4
<1>2. /\ cwd' \in [Daemons -> Dirs] /\ raced' \in BOOLEAN
      /\ auto_increment' \in [Daemons -> 0 .. Cardinality(Problems) + 1]
  <2>1. CASE TakeId(d)
    BY ZenonT(60), <2>1, TakeEffect DEF TypeOK
  <2>2. CASE StoreId(d)
    BY <2>2, StoreEffect DEF TypeOK
  <2>3. CASE EnterDatabase(d)
    BY <2>3, EnterEffect DEF TypeOK
  <2>4. CASE Refuse(d)
    BY <2>4, RefuseEffect DEF TypeOK
  <2> QED BY <2>1, <2>2, <2>3, <2>4
<1>3. /\ pending' \in [Daemons -> SUBSET [id : Ids, prob : Problems,
                                          step : {"loaded", "stored", "entered"}]]
      /\ \A e \in Daemons \ {d} : pending'[e] = pending[e]
  BY TakeEffect, StoreEffect, EnterEffect, RefuseEffect DEF MovesOn, Over
<1>4. Gone'
  BY <1>1, <1>3, StaysGone DEF Alive
<1> QED BY <1>1, <1>2, <1>3, <1>4 DEF TypeOK, Gone

(* Types are kept, and a process that ends gives back what it held.          *)
LEMMA TypeStep ==
  ASSUME TypeOK, Started, Registering, Next
  PROVE  TypeOK'
<1>1. ASSUME NEW d \in Daemons, Save(d) PROVE TypeOK'
  <2>1. PICK r \in pending[d] : Saved(d, r)
    BY <1>1, SaveEffect
  <2>2. /\ pending' \in [Daemons -> SUBSET [id : Ids, prob : Problems,
                                            step : {"loaded", "stored", "entered"}]]
        /\ stale' \in BOOLEAN /\ acked' \subseteq Problems /\ unsaved' \subseteq Problems
        /\ missed' \subseteq Daemons
    BY <2>1 DEF Saved, Over, TypeOK
  <2>3. Gone'
    <3>1. \A e \in Daemons : ~Alive(e)' => ~Alive(e) /\ e # d
      BY <2>1 DEF Saved, Alive, Started
    <3>2. \A e \in Daemons \ {d} : pending'[e] = pending[e] /\ list'[e] = list[e]
      BY <2>1 DEF Saved, Over
    <3>3. \A e \in Daemons : e \in missed' => e \in missed \/ Alive(e)
      BY <2>1 DEF Saved
    <3> QED BY <2>1, <3>1, <3>2, <3>3, StaysGone DEF Saved
  <2> QED BY <2>1, <2>2, <2>3 DEF Saved, TypeOK, Gone
<1>2. ASSUME NEW d \in Daemons, Solve(d) PROVE TypeOK'
  <2>1. PICK p \in Problems : Solved(d, p)
    BY <1>2, SolveEffect
  <2>2. \A e \in Daemons : ~Alive(e)' => ~Alive(e) /\ e # d
    BY <2>1 DEF Solved, Alive
  <2>3. Gone'
    BY <2>1, <2>2, StaysGone DEF Solved
  <2> QED BY <2>1, <2>3 DEF Solved, TypeOK, Gone
<1>3. ASSUME NEW d \in Daemons, WriteMetadata(d) PROVE TypeOK'
  <2>1. PICK p \in Problems : Written(d, p)
    BY <1>3, WriteEffect
  <2>2. \A e \in Daemons : ~Alive(e)' => ~Alive(e) /\ e # d
    BY <2>1 DEF Written, Alive, TypeOK
  <2>3. Gone'
    BY <2>1, <2>2, StaysGone DEF Written
  <2>4. unwritten' \subseteq Daemons \X Problems
    BY <2>1 DEF Written, TypeOK
  <2> QED BY <2>1, <2>3, <2>4 DEF Written, TypeOK, Gone
<1> QED BY <1>1, <1>2, <1>3, LoadTypes, StartTypes, LockTypes, RegisterTypes DEF Next

(* A process is up from its lock, or without one, to its end; only then does  *)
(* it listen and register.                                                   *)
LEMMA StartedStep ==
  ASSUME TypeOK, Started, Next
  PROVE  Started'
<1>0. ASSUME UNCHANGED run PROVE \A x : RunTo(x)' = RunTo(x)
  BY <1>0 DEF RunTo
<1>1. ASSUME NEW d \in Daemons, Load(d) PROVE Started'
  <2>1. /\ pc[d] = "off" /\ pc'[d] \in {"loaded", "over"}
        /\ \A e \in Daemons \ {d} : pc'[e] = pc[e]
        /\ UNCHANGED <<run, cwd, guarded, socket, pending, pid_file>>
    BY <1>1, LoadEffect
  <2>2. cwd[d] \in Starts /\ ~guarded[d] /\ socket[d] # "listening" /\ pending[d] = {}
        /\ \A x \in Dirs : pid_file[x] # d
    BY <2>1 DEF Started
  <2> QED BY <1>0, <2>1, <2>2 DEF Started
<1>2. ASSUME NEW d \in Daemons, StayUnguarded(d) PROVE Started'
  <2>1. /\ pc[d] = "loaded" /\ pc'[d] = "up" /\ ~guarded[d]
        /\ \A e \in Daemons \ {d} : pc'[e] = pc[e]
        /\ UNCHANGED <<run, cwd, guarded, socket, pending, pid_file>>
    BY <1>2 DEF StayUnguarded, config, memory, TypeOK, Started
  <2> QED BY <1>0, <2>1 DEF Started
<1>3. ASSUME NEW d \in Daemons, Daemonize(d) PROVE Started'
  <2>1. /\ pc[d] = "loaded" /\ pc'[d] = "detached" /\ cwd'[d] = RunTo(cwd[d])
        /\ \A e \in Daemons \ {d} : pc'[e] = pc[e] /\ cwd'[e] = cwd[e] /\ guarded'[e] = guarded[e]
        /\ UNCHANGED <<run, socket, pending, pid_file>>
    BY <1>3 DEF Daemonize, config, memory, TypeOK
  <2>2. cwd[d] \in Starts
    BY <2>1 DEF Started
  <2> QED BY <1>0, <2>1, <2>2 DEF Started
<1>4. ASSUME NEW d \in Daemons, Lock(d), pid_file[cwd[d]] = NULL PROVE Started'
  <2>1. /\ pc[d] = "detached" /\ pid_file' = [pid_file EXCEPT ![cwd[d]] = d]
        /\ pc' = [pc EXCEPT ![d] = "up"] /\ UNCHANGED <<run, cwd, guarded, socket, pending>>
    BY <1>4 DEF Lock, LockFile, memory, config
  <2>2. /\ pc'[d] = "up" /\ \A e \in Daemons \ {d} : pc'[e] = pc[e]
        /\ \A x \in Dirs : pid_file'[x] = IF x = cwd[d] THEN d ELSE pid_file[x]
    BY <2>1 DEF TypeOK
  <2>3. PICK s \in Starts : cwd[d] = RunTo(s)
    BY <2>1 DEF Started
  <2>4. \A t \in Starts : RunTo(t) \in Dirs
    BY RunToDirectory, ConstantsAssumption
  <2>5. \A e \in Daemons, t \in Starts : pid_file[RunTo(t)] = e => pid_file'[RunTo(t)] = e
    BY <1>4, <2>2, <2>4, ConstantsAssumption
  <2>6. pid_file'[RunTo(s)] = d
    BY <2>2, <2>3, <2>4
  <2> QED BY <1>0, <2>1, <2>2, <2>5, <2>6 DEF Started
<1>5. ASSUME NEW d \in Daemons, Ends(d), UNCHANGED <<run, cwd, guarded>>,
             \A x \in Dirs : IF pid_file[x] = d THEN pid_file'[x] = NULL
                             ELSE pid_file'[x] = pid_file[x]
      PROVE  Started'
  <2>1. /\ pc'[d] = "over" /\ socket'[d] = "none" /\ pending'[d] = {}
        /\ \A e \in Daemons \ {d} : pc'[e] = pc[e] /\ socket'[e] = socket[e] /\ pending'[e] = pending[e]
    BY <1>5, EndEffect
  <2>2. \A e \in Daemons, x \in Dirs : pid_file'[x] = e => e # d /\ pid_file[x] = e
    BY <1>5, ConstantsAssumption
  <2>3. \A e \in Daemons \ {d}, t \in Starts : pid_file[RunTo(t)] = e => pid_file'[RunTo(t)] = e
    BY <1>5, RunToDirectory, ConstantsAssumption
  <2> QED BY <1>0, <1>5, <2>1, <2>2, <2>3 DEF Started
<1>6. ASSUME NEW d \in Daemons, Lock(d), pid_file[cwd[d]] # NULL PROVE Started'
  <2>1. Ends(d) /\ pc[d] = "detached" /\ UNCHANGED <<run, cwd, guarded, pid_file>>
    BY <1>6 DEF Lock, config
  <2>2. \A x \in Dirs : pid_file[x] # d
    BY <2>1 DEF Started
  <2> QED BY <1>5, <2>1, <2>2
<1>7. ASSUME NEW d \in Daemons, Stop(d) PROVE Started'
  <2>1. /\ Ends(d) /\ UNCHANGED <<run, cwd, guarded>>
        /\ pid_file' = [x \in Dirs |-> IF pid_file[x] = d THEN NULL ELSE pid_file[x]]
    BY <1>7 DEF Stop, Released, config
  <2> QED BY <1>5, <2>1
<1>8. ASSUME NEW d \in Daemons, pc[d] = "up",
             UNCHANGED <<run, pc, guarded, pid_file>>,
             \A e \in Daemons \ {d} : cwd'[e] = cwd[e] /\ socket'[e] = socket[e] /\ pending'[e] = pending[e]
      PROVE  Started'
  BY <1>0, <1>8 DEF Started
<1>9. ASSUME NEW d \in Daemons, Bind(d) PROVE Started'
  <2>1. pc[d] = "up" /\ UNCHANGED <<run, pc, cwd, guarded, pending, pid_file>>
        /\ \A e \in Daemons \ {d} : socket'[e] = socket[e]
    BY <1>9 DEF Bind, memory, config, TypeOK
  <2> QED BY <1>8, <2>1
<1>10. ASSUME NEW d \in Daemons, TakeId(d) PROVE Started'
  BY <1>8, <1>10, TakeEffect DEF Started
<1>11. ASSUME NEW d \in Daemons, StoreId(d) PROVE Started'
  BY <1>8, <1>11, StoreEffect DEF Started, MovesOn
<1>12. ASSUME NEW d \in Daemons, EnterDatabase(d) PROVE Started'
  BY <1>8, <1>12, EnterEffect DEF Started, MovesOn, Over
<1>13. ASSUME NEW d \in Daemons, Refuse(d) PROVE Started'
  BY <1>8, <1>13, RefuseEffect DEF Started, Over
<1>14. ASSUME NEW d \in Daemons, Save(d) PROVE Started'
  BY <1>8, <1>14, SaveEffect DEF Started, Saved, Over
<1>15. ASSUME NEW d \in Daemons, Solve(d) \/ WriteMetadata(d) PROVE Started'
  <2>1. UNCHANGED <<run, pc, cwd, guarded, socket, pending, pid_file>>
    BY <1>15 DEF Solve, WriteMetadata, config, process
  <2> QED BY <1>0, <2>1 DEF Started
<1> QED BY <1>1, <1>2, <1>3, <1>4, <1>6, <1>7, <1>9, <1>10, <1>11, <1>12, <1>13, <1>14, <1>15 DEF Next

(* A registration keeps its problem to itself.                               *)
LEMMA RegisteringStep ==
  ASSUME TypeOK, Started, Registering, Next
  PROVE  Registering'
<1>1. ASSUME NEW d \in Daemons, Load(d) PROVE Registering'
  <2>1. UNCHANGED <<pending, writing, id, acked>> /\ \A e \in Daemons \ {d} : list'[e] = list[e]
    BY <1>1, LoadEffect
  <2>2. \A p \in Problems : id[p] = 0 => list'[d][p] = "none"
    <3>1. \A p \in Problems : id[p] = 0 => list[d][p] = "none" /\ ~Holds(way[cwd[d]], p)
      BY DEF Registering, Holds
    <3> QED BY <1>1, <3>1, LoadEffect
  <2> QED BY <2>1, <2>2 DEF Registering
<1>2. ASSUME UNCHANGED <<pending, list, writing, id, acked>> PROVE Registering'
  BY <1>2 DEF Registering
<1>3. ASSUME NEW d \in Daemons, Ends(d), UNCHANGED <<id, acked>> PROVE Registering'
  <2>1. /\ pending'[d] = {} /\ list'[d] = Unknown /\ writing'[d] = {}
        /\ \A e \in Daemons \ {d} : /\ pending'[e] = pending[e] /\ list'[e] = list[e]
                                   /\ writing'[e] = writing[e]
    BY <1>3, EndEffect
  <2> QED BY <1>3, <2>1 DEF Registering, Unknown
<1>4. ASSUME NEW d \in Daemons,
             StayUnguarded(d) \/ Daemonize(d) \/ Lock(d) \/ Stop(d) \/ Bind(d)
      PROVE  Registering'
  BY <1>2, <1>3, <1>4 DEF StayUnguarded, Daemonize, Lock, Stop, Bind, memory, files
<1>5. ASSUME NEW d \in Daemons, TakeId(d) PROVE Registering'
  <2>1. PICK s : /\ id[s.prob] = 0
                 /\ \A e \in Daemons : \A r \in pending[e] : r.prob # s.prob
                 /\ pending'[d] = pending[d] \cup {s}
    BY <1>5, TakeEffect
  <2>2. UNCHANGED <<list, writing, id, acked>> /\ \A e \in Daemons \ {d} : pending'[e] = pending[e]
    BY <1>5, TakeEffect
  <2>3. \A e \in Daemons : \A r \in pending'[e] : r \in pending[e] \/ (e = d /\ r = s)
    BY <2>1, <2>2
  <2>4. \A e \in Daemons : \A r \in pending'[e] : id'[r.prob] = 0
    BY <2>1, <2>2, <2>3 DEF Registering
  <2>5. \A e, f \in Daemons : \A r \in pending'[e], t \in pending'[f] :
          r.prob = t.prob => e = f /\ r = t
    BY <2>1, <2>3 DEF Registering
  <2> QED BY <2>2, <2>4, <2>5 DEF Registering
<1>6. ASSUME NEW d \in Daemons, NEW r \in pending[d], NEW s, MovesOn(d, r, s),
             UNCHANGED <<list, writing, id, acked>>
      PROVE  Registering'
  <2>1. \A e \in Daemons : \A t \in pending'[e] :
          (t \in pending[e] /\ (e = d => t # r)) \/ (e = d /\ t = s)
    BY <1>6 DEF MovesOn
  <2>2. \A e \in Daemons : \A t \in pending'[e] : id'[t.prob] = 0
    BY <1>6, <2>1 DEF Registering, MovesOn
  <2>3. \A e \in Daemons : \A t \in pending[e] : t.prob = s.prob => e = d /\ t = r
    BY <1>6 DEF Registering, MovesOn
  <2>4. \A e, f \in Daemons : \A t \in pending'[e], u \in pending'[f] :
          t.prob = u.prob => e = f /\ t = u
    BY <2>1, <2>3 DEF Registering
  <2> QED BY <1>6, <2>2, <2>4 DEF Registering
<1>7. ASSUME NEW d \in Daemons, StoreId(d) \/ EnterDatabase(d) \/ Refuse(d) PROVE Registering'
  <2>1. UNCHANGED <<list, writing, id, acked>>
    BY <1>7 DEF StoreId, EnterDatabase, Refuse, files
  <2>2. ASSUME NEW r \in pending[d], Over(d, r) PROVE Registering'
    <3>1. \A e \in Daemons : pending'[e] \subseteq pending[e]
      BY <2>2 DEF Over
    <3> QED BY <2>1, <3>1 DEF Registering
  <2> QED BY <1>6, <1>7, <2>1, <2>2, StoreEffect, EnterEffect, RefuseEffect
<1>8. ASSUME NEW d \in Daemons, Save(d) PROVE Registering'
  <2>1. PICK r \in pending[d] : Saved(d, r)
    BY <1>8, SaveEffect
  <2>2. \A e \in Daemons : \A s \in pending'[e] : s \in pending[e] /\ s.prob # r.prob
    <3>1. \A e \in Daemons : \A s \in pending'[e] : s \in pending[e] /\ (e = d => s # r)
      BY <2>1 DEF Saved, Over
    <3> QED BY <3>1 DEF Registering
  <2>3. \A e \in Daemons : \A s \in pending'[e] : s.prob \in Problems /\ id'[s.prob] = 0
    <3>1. \A e \in Daemons : \A s \in pending'[e] : s.prob \in Problems /\ id[s.prob] = 0
      BY <2>2, PendingTypes DEF Registering
    <3> QED BY <2>1, <2>2, <3>1 DEF Saved
  <2>4. ASSUME NEW p \in Problems
        PROVE  /\ id'[p] = 0 => \A e \in Daemons : list'[e][p] = "none" /\ p \notin writing'[e]
               /\ id'[p] # 0 => p \in acked'
    <3>1. r.id # 0 /\ UNCHANGED writing
      BY <2>1, IdsNumbers DEF Saved
    <3> QED BY <2>1, <3>1 DEF Saved, Registering
  <2>5. \A e, f \in Daemons : \A t \in pending'[e], u \in pending'[f] :
          t.prob = u.prob => e = f /\ t = u
    BY <2>2 DEF Registering
  <2> QED BY <2>3, <2>4, <2>5 DEF Registering
<1>9. ASSUME NEW d \in Daemons, Solve(d) PROVE Registering'
  <2>1. PICK p \in Problems : Solved(d, p)
    BY <1>9, SolveEffect
  <2>2. id[p] # 0
    BY <2>1 DEF Solved, Registering
  <2>3. \A e \in Daemons, q \in Problems : id[q] = 0 => list'[e][q] = "none" /\ q \notin writing'[e]
    BY <2>1, <2>2 DEF Solved, Registering
  <2> QED BY <2>1, <2>3 DEF Solved, Registering
<1>10. ASSUME NEW d \in Daemons, WriteMetadata(d) PROVE Registering'
  <2>1. PICK p \in Problems : Written(d, p)
    BY <1>10, WriteEffect
  <2>2. \A e \in Daemons : writing'[e] \subseteq writing[e]
    BY <2>1 DEF Written
  <2> QED BY <2>1, <2>2 DEF Written, Registering
<1> QED BY <1>1, <1>4, <1>5, <1>7, <1>8, <1>9, <1>10 DEF Next

(* As long as one registration at a time loads the counter, the ids that are  *)
(* under way in a process differ.                                            *)
LEMMA CountedStep ==
  ASSUME TypeOK, Started, Next, ~raced', ~raced => \A d \in Daemons : Counted(d)
  PROVE  \A d \in Daemons : Counted(d)'
<1>1. ASSUME ~raced, UNCHANGED <<auto_increment, pending>> PROVE \A e \in Daemons : Counted(e)'
  BY <1>1 DEF Counted
<1>2. ASSUME ~raced, NEW d \in Daemons, Counted(d)',
             \A e \in Daemons \ {d} : auto_increment'[e] = auto_increment[e] /\ pending'[e] = pending[e]
      PROVE  \A e \in Daemons : Counted(e)'
  BY <1>2 DEF Counted
<1>3. ASSUME NEW d \in Daemons, Load(d) PROVE \A e \in Daemons : Counted(e)'
  <2>1. /\ pc[d] = "off" /\ UNCHANGED <<raced, pending>>
        /\ \A e \in Daemons \ {d} : auto_increment'[e] = auto_increment[e]
    BY <1>3, LoadEffect
  <2>2. pending[d] = {}
    BY <2>1 DEF Started
  <2>3. Counted(d)'
    BY <2>1, <2>2 DEF Counted
  <2> QED BY <1>2, <2>1, <2>3
<1>4. ASSUME NEW d \in Daemons, StayUnguarded(d) \/ Daemonize(d) \/ Bind(d)
      PROVE  \A e \in Daemons : Counted(e)'
  BY <1>1, <1>4 DEF StayUnguarded, Daemonize, Bind, memory, hist
<1>5. ASSUME NEW d \in Daemons, Ends(d), UNCHANGED raced PROVE \A e \in Daemons : Counted(e)'
  <2>1. pending'[d] = {}
    BY <1>5, EndEffect
  <2>2. Counted(d)'
    BY <2>1 DEF Counted
  <2> QED BY <1>2, <1>5, <2>2, EndEffect
<1>6. ASSUME NEW d \in Daemons, Lock(d) \/ Stop(d) PROVE \A e \in Daemons : Counted(e)'
  BY <1>1, <1>5, <1>6 DEF Lock, Stop, memory
<1>7. ASSUME NEW d \in Daemons, TakeId(d) PROVE \A e \in Daemons : Counted(e)'
  <2>1. PICK s : /\ s.id = auto_increment[d] /\ s.step = "loaded"
                 /\ pending'[d] = pending[d] \cup {s}
    BY <1>7, TakeEffect
  <2>2. /\ UNCHANGED auto_increment /\ \A e \in Daemons \ {d} : pending'[e] = pending[e]
        /\ raced' = (raced \/ \E r \in pending[d] : r.step = "loaded")
        /\ auto_increment[d] \in Nat
    BY <1>7, TakeEffect, IdsNumbers
  <2>3. ~raced /\ \A r \in pending[d] : r.step # "loaded"
    BY <2>2
  <2>4. Counted(d)
    BY <2>3
  <2>5. \A r \in pending[d] : r.id \in Nat /\ r.id < auto_increment[d]
    BY <2>3, <2>4, PendingTypes DEF Counted
  <2>6. \A r \in pending[d] : r.id # s.id
    BY <2>1, <2>2, <2>5
  <2>7. Counted(d)'
    BY <2>1, <2>2, <2>4, <2>6 DEF Counted
  <2> QED BY <1>2, <2>2, <2>3, <2>7
<1>8. ASSUME NEW d \in Daemons, NEW r \in pending[d], NEW s, MovesOn(d, r, s), Counted(d),
             \/ /\ r.step = "stored" /\ s.step = "entered" /\ auto_increment'[d] = auto_increment[d]
             \/ /\ r.step = "loaded" /\ s.step = "stored" /\ auto_increment'[d] = r.id + 1
      PROVE  Counted(d)'
  <2>1. \A t \in pending'[d] : t = s \/ (t \in pending[d] /\ t # r)
    BY <1>8 DEF MovesOn
  <2>2. \A t \in pending[d] : t.id \in Nat /\ (t.id = s.id => t = r)
    BY <1>8, PendingTypes DEF Counted, MovesOn
  <2>3. \A t, u \in pending'[d] : t.id = u.id => t = u
    BY <1>8, <2>1, <2>2 DEF Counted
  <2>4. CASE r.step = "stored"
    <3>1. s.step = "entered" /\ auto_increment'[d] = auto_increment[d] /\ s.id = r.id /\ r.id < auto_increment[d]
      BY <1>8, <2>4 DEF Counted, MovesOn
    <3> QED BY <1>8, <2>1, <2>3, <3>1 DEF Counted
  <2>5. CASE r.step = "loaded"
    <3>1. /\ s.step = "stored" /\ auto_increment'[d] = r.id + 1 /\ s.id = r.id
          /\ r.id = auto_increment[d] /\ r.id \in Nat
      BY <1>8, <2>2, <2>5 DEF Counted, MovesOn
    <3>2. \A t \in pending[d] : t # r => t.step # "loaded" /\ t.id < r.id
      BY <1>8, <2>5, <3>1 DEF Counted
    <3>3. \A t \in pending'[d] : t.step # "loaded" /\ t.id < auto_increment'[d]
      BY <2>1, <2>2, <3>1, <3>2
    <3> QED BY <2>3, <3>3 DEF Counted
  <2> QED BY <1>8, <2>4, <2>5
<1>9. ASSUME NEW d \in Daemons, NEW r \in pending[d], Over(d, r), Counted(d),
             auto_increment'[d] = auto_increment[d]
      PROVE  Counted(d)'
  <2>1. pending'[d] \subseteq pending[d]
    BY <1>9 DEF Over
  <2> QED BY <1>9, <2>1 DEF Counted
<1>10. ASSUME NEW d \in Daemons, StoreId(d) PROVE \A e \in Daemons : Counted(e)'
  <2>0. PICK r \in pending[d] : \E s :
          /\ r.step = "loaded" /\ s.step = "stored" /\ MovesOn(d, r, s)
          /\ auto_increment'[d] = r.id + 1
    BY <1>10, StoreEffect
  <2>1. PICK s :
          /\ r.step = "loaded" /\ s.step = "stored" /\ MovesOn(d, r, s)
          /\ auto_increment'[d] = r.id + 1
    BY <2>0
  <2>2. UNCHANGED raced /\ \A e \in Daemons \ {d} : auto_increment'[e] = auto_increment[e]
    BY <1>10, StoreEffect
  <2>3. Counted(d)'
    BY <1>8, <2>1, <2>2
  <2> QED BY <1>2, <2>1, <2>2, <2>3 DEF MovesOn
<1>11. ASSUME NEW d \in Daemons, EnterDatabase(d) PROVE \A e \in Daemons : Counted(e)'
  <2>1. PICK r \in pending[d] :
          /\ r.step = "stored"
          /\ Over(d, r) \/ \E s : s.step = "entered" /\ MovesOn(d, r, s)
    BY <1>11, EnterEffect
  <2>2. UNCHANGED <<raced, auto_increment>>
    BY <1>11, EnterEffect
  <2>3. Counted(d)'
    <3>1. Counted(d) /\ auto_increment'[d] = auto_increment[d]
      BY <2>2
    <3>2. CASE Over(d, r)
      BY <1>9, <3>1, <3>2
    <3>3. CASE \E s : s.step = "entered" /\ MovesOn(d, r, s)
      <4>1. PICK s : s.step = "entered" /\ MovesOn(d, r, s)
        BY <3>3
      <4> QED BY <1>8, <2>1, <3>1, <4>1
    <3> QED BY <2>1, <3>2, <3>3
  <2> QED BY <1>2, <2>1, <2>2, <2>3 DEF MovesOn, Over
<1>12. ASSUME NEW d \in Daemons, Refuse(d) \/ Save(d) PROVE \A e \in Daemons : Counted(e)'
  <2>1. PICK r \in pending[d] : Over(d, r)
    BY <1>12, RefuseEffect, SaveEffect DEF Saved
  <2>2. UNCHANGED <<raced, auto_increment>>
    BY <1>12 DEF Refuse, Save, hist
  <2> QED BY <1>2, <1>9, <2>1, <2>2 DEF Over
<1>13. ASSUME NEW d \in Daemons, Solve(d) \/ WriteMetadata(d) PROVE \A e \in Daemons : Counted(e)'
  BY <1>1, <1>13 DEF Solve, WriteMetadata, hist
<1> QED BY <1>3, <1>4, <1>6, <1>7, <1>10, <1>11, <1>12, <1>13 DEF Next

-----------------------------------------------------------------------------
(* From wherever a process stands database_dir leads home.                   *)
LEMMA WayHome ==
  ASSUME NEW home \in Dirs, Leads(home), AtHome(home), NEW d \in Daemons
  PROVE  way[cwd[d]] = home
<1>1. cwd[d] \in Stands(home)
  BY DEF AtHome
<1> QED BY <1>1 DEF Leads, Stands

\* What all files, and all a process knows of them, depends on.
LEMMA HomeUnmoved ==
  ASSUME NEW home, AtHome(home), UNCHANGED <<disk, id, acked, unsaved, raced, stale>>,
         \A d \in Daemons : cwd'[d] \in Stands(home)',
         \A d \in Daemons : \A r \in pending'[d] : r.step = "entered" => cwd'[d] = home,
         \A d \in Daemons : Alive(d)' /\ d \notin missed' /\ ~raced /\ ~stale => Known(home, d)',
         \A d \in Daemons, p \in Problems :
           /\ list'[d][p] = "S" /\ Holds(home, p) /\ p \notin writing'[d] /\ <<d, p>> \notin unwritten'
           => disk[home][id[p]].status = "S"
  PROVE  AtHome(home)'
<1>1. \A p : Holds(home, p)' = Holds(home, p)
  BY DEF Holds
<1> QED BY <1>1 DEF AtHome

\* Registrations that are started, go on or end, files and lists as before.
LEMMA HomeRegistered ==
  ASSUME TypeOK, NEW home \in Dirs, AtHome(home), Leads(home), NEW d \in Daemons,
         UNCHANGED <<run, pc, list, writing, disk, id, acked, missed, stale, unsaved, unwritten>>,
         \A e \in Daemons \ {d} : /\ cwd'[e] = cwd[e] /\ pending'[e] = pending[e]
                                 /\ auto_increment'[e] = auto_increment[e],
         cwd'[d] = cwd[d] \/ cwd'[d] = home,
         \A r \in pending'[d] : r.step = "entered" => cwd'[d] = home,
         raced => raced', raced' = raced \/ ~raced,
         Alive(d) /\ ~raced' /\ Known(home, d) => Known(home, d)'
  PROVE  AtHome(home)'
<1>1. \A e \in Daemons : Alive(e)' = Alive(e)
  BY DEF Alive
<1>2. \A p : Holds(home, p)' = Holds(home, p)
  BY DEF Holds
<1>3. \A e \in Daemons \ {d} : Known(home, e)' = Known(home, e)
  BY DEF Known, Sound
<1>4. Stands(home)' = Stands(home) /\ home \in Stands(home)
  BY DEF Stands, RunTo
<1>5. \A e \in Daemons : cwd'[e] \in Stands(home)'
  BY <1>4 DEF AtHome
<1>6. \A e \in Daemons : \A r \in pending'[e] : r.step = "entered" => cwd'[e] = home
  BY DEF AtHome
<1>7. ~stale' /\ ~raced' =>
        /\ \A e \in Daemons : Alive(e)' /\ e \notin missed' => Known(home, e)'
        /\ \A p \in acked' \ unsaved' : Holds(home, p)'
  BY <1>1, <1>2, <1>3 DEF AtHome
<1>8. \A e \in Daemons, p \in Problems :
       list'[e][p] = "S" /\ Holds(home, p)' /\ p \notin writing'[e] /\ <<e, p>> \notin unwritten'
       => disk'[home][id'[p]].status = "S"
  BY <1>2 DEF AtHome
<1> QED BY <1>5, <1>6, <1>7, <1>8 DEF AtHome

\* The steps of a registration up to the file leave the database directory as it should be.
LEMMA HomeRegisterStep ==
  ASSUME TypeOK, Started, ~raced => \A d \in Daemons : Counted(d),
         NEW home \in Dirs, Leads(home), AtHome(home), NEW d \in Daemons,
         TakeId(d) \/ StoreId(d) \/ EnterDatabase(d) \/ Refuse(d)
  PROVE  AtHome(home)'
<1>1. way[cwd[d]] = home /\ home # NULL
  BY WayHome, ConstantsAssumption
<1>2. ASSUME NEW n \in Ids, auto_increment[d] = n, Known(home, d) PROVE ~Sound(home, n)
  <2>1. Sound(home, n) => n < n
    BY <1>2 DEF Known
  <2>2. n \in Nat
    BY IdsNumbers
  <2> QED BY <2>1, <2>2
<1>3. CASE TakeId(d)
  <2>1. PICK s : /\ s.id = auto_increment[d] /\ s.step = "loaded"
                 /\ pending'[d] = pending[d] \cup {s}
    BY <1>3, TakeEffect
  <2>2. /\ auto_increment[d] \in Ids
        /\ raced' = (raced \/ \E r \in pending[d] : r.step = "loaded")
        /\ UNCHANGED <<way, run, pc, cwd, auto_increment, list, writing,
                       disk, id, acked, missed, stale, unsaved, unwritten>>
        /\ \A e \in Daemons \ {d} : pending'[e] = pending[e]
    BY <1>3, TakeEffect
  <2>3. \A r \in pending'[d] : r.step = "entered" => cwd'[d] = home
    BY <2>1, <2>2 DEF AtHome
  <2>4. ASSUME Known(home, d) PROVE Known(home, d)'
    <3>1. ~Sound(home, s.id)
      BY <1>2, <2>1, <2>2, <2>4
    <3> QED BY <2>1, <2>2, <2>4, <3>1 DEF Known, Sound
  <2> QED BY <2>2, <2>3, <2>4, HomeRegistered
<1>4. CASE StoreId(d)
  <2>0. PICK r \in pending[d] : \E s :
          /\ r.step = "loaded" /\ s.step = "stored" /\ MovesOn(d, r, s)
          /\ auto_increment'[d] = r.id + 1
    BY <1>4, StoreEffect
  <2>1. PICK s :
          /\ r.step = "loaded" /\ s.step = "stored" /\ MovesOn(d, r, s)
          /\ auto_increment'[d] = r.id + 1
    BY <2>0
  <2>2. /\ UNCHANGED <<way, run, pc, cwd, list, writing,
                       disk, id, acked, missed, stale, raced, unsaved, unwritten>>
        /\ \A e \in Daemons \ {d} : pending'[e] = pending[e] /\ auto_increment'[e] = auto_increment[e]
    BY <1>4, <2>1, StoreEffect DEF MovesOn
  <2>3. \A t \in pending'[d] : t.step = "entered" => cwd'[d] = home
    BY <2>1, <2>2 DEF AtHome, MovesOn
  <2>4. ASSUME Known(home, d), ~raced' PROVE Known(home, d)'
    <3>1. r.id = auto_increment[d] /\ r.id \in Nat
      BY <2>1, <2>2, <2>4, PendingTypes DEF Counted
    <3>2. \A i \in Ids : Sound(home, i)' => i < auto_increment'[d]
      <4>1. \A i \in Ids : i \in Nat /\ (Sound(home, i)' => i < r.id)
        BY <2>2, <2>4, <3>1, IdsNumbers DEF Known, Sound
      <4> QED BY <2>1, <3>1, <4>1
    <3>3. \A t \in pending'[d] : \E u \in pending[d] : t.id = u.id
      BY <2>1 DEF MovesOn
    <3> QED BY <2>2, <2>4, <3>2, <3>3 DEF Known, Sound
  <2> QED BY <2>2, <2>3, <2>4, HomeRegistered
<1>5. CASE EnterDatabase(d)
  <2>1. PICK r \in pending[d] :
              \/ cwd' = cwd /\ Over(d, r)
              \/ /\ cwd'[d] = home
                 /\ \E s : s.step = "entered" /\ MovesOn(d, r, s)
    BY <1>1, <1>5, EnterEffect
  <2>2. /\ UNCHANGED <<way, run, pc, auto_increment, list, writing,
                       disk, id, acked, missed, stale, raced, unsaved, unwritten>>
        /\ \A e \in Daemons \ {d} : pending'[e] = pending[e] /\ cwd'[e] = cwd[e]
    BY <1>5, <2>1, EnterEffect DEF MovesOn, Over
  <2>3. /\ \A t \in pending'[d] : t.step = "entered" => cwd'[d] = home
        /\ cwd'[d] = cwd[d] \/ cwd'[d] = home
    BY <2>1 DEF AtHome, MovesOn, Over
  <2>4. \A t \in pending'[d] : \E u \in pending[d] : t.id = u.id
    BY <2>1 DEF MovesOn, Over
  <2>5. ASSUME Known(home, d) PROVE Known(home, d)'
    BY <2>2, <2>4, <2>5 DEF Known, Sound
  <2> QED BY <2>2, <2>3, <2>5, HomeRegistered
<1>6. CASE Refuse(d)
  <2>1. PICK r \in pending[d] : Over(d, r)
    BY <1>6, RefuseEffect
  <2>2. UNCHANGED <<way, run, pc, cwd, auto_increment, list, writing,
                    disk, id, acked, missed, stale, raced, unsaved, unwritten>>
    BY <1>6, RefuseEffect
  <2>3. pending'[d] \subseteq pending[d] /\ \A e \in Daemons \ {d} : pending'[e] = pending[e]
    BY <2>1 DEF Over
  <2>4. \A t \in pending'[d] : t.step = "entered" => cwd'[d] = home
    BY <2>2, <2>3 DEF AtHome
  <2>5. ASSUME Known(home, d) PROVE Known(home, d)'
    BY <2>2, <2>3, <2>5 DEF Known, Sound
  <2> QED BY <2>2, <2>3, <2>4, <2>5, HomeRegistered
<1> QED BY <1>3, <1>4, <1>5, <1>6

(* The database stays as it should be, seen from the directory it is in.     *)
LEMMA HomeStep ==
  ASSUME TypeOK, Started, Registering, ~raced => \A d \in Daemons : Counted(d), Next,
         NEW home \in Dirs, Leads(home), AtHome(home)
  PROVE  AtHome(home)'
<1>0. home # NULL /\ \A d \in Daemons : way[cwd[d]] = home
  BY WayHome, ConstantsAssumption
<1>1. ASSUME NEW d \in Daemons, Load(d) PROVE AtHome(home)'
  <2>1. /\ pc[d] = "off" /\ \A e \in Daemons \ {d} : pc'[e] = pc[e]
        /\ \A e \in Daemons \ {d} : auto_increment'[e] = auto_increment[e] /\ list'[e] = list[e]
        /\ UNCHANGED <<way, run, cwd, pending, writing, disk, id, acked, stale, raced, unsaved, unwritten>>
        /\ \/ /\ missed' = missed /\ auto_increment'[d] = NextId(home)
              /\ \A p \in Problems : list'[d][p] =
                   IF Holds(home, p) THEN disk[home][id[p]].status ELSE "none"
           \/ pc'[d] = "loaded" /\ missed' = missed \cup {d} /\ list' = list
           \/ pc'[d] = "over" /\ missed' = missed /\ list' = list
    BY <1>0, <1>1, LoadEffect
  <2>2. \A e \in Daemons \ {d} : Alive(e)' = Alive(e) /\ Known(home, e)' = Known(home, e)
    BY <2>1 DEF Alive, Known, Sound
  <2>3. pending[d] = {} /\ \A i \in Ids : disk[home][i].prob # NULL => i < NextId(home)
    BY <2>1, NextIdIsNew DEF Started
  <2>4. ASSUME Alive(d)', d \notin missed' PROVE Known(home, d)'
    <3>1. auto_increment'[d] = NextId(home)
      BY <2>1, <2>4 DEF Alive
    <3> QED BY <2>1, <2>3, <3>1 DEF Known, Sound
  <2>5. \A e \in Daemons : Alive(e)' /\ e \notin missed' /\ ~raced /\ ~stale => Known(home, e)'
    BY <2>1, <2>2, <2>4 DEF AtHome
  <2>6. \A e \in Daemons : cwd'[e] \in Stands(home)'
    BY <2>1 DEF AtHome, Stands, RunTo
  <2>7. \A e \in Daemons : \A r \in pending'[e] : r.step = "entered" => cwd'[e] = home
    BY <2>1 DEF AtHome
  <2>8. ASSUME NEW e \in Daemons, NEW p \in Problems, list'[e][p] = "S", Holds(home, p),
               p \notin writing'[e], <<e, p>> \notin unwritten'
        PROVE  disk[home][id[p]].status = "S"
    <3>1. list[e][p] = "S" \/ list'[e][p] = disk[home][id[p]].status
      BY <2>1, <2>8
    <3> QED BY <2>1, <2>8, <3>1 DEF AtHome
  <2> QED BY <2>1, <2>5, <2>6, <2>7, <2>8, HomeUnmoved
<1>2. ASSUME NEW d \in Daemons, StayUnguarded(d) \/ Daemonize(d) \/ Bind(d) PROVE AtHome(home)'
  <2>1. /\ UNCHANGED <<way, run, auto_increment, list, pending, writing, disk, id, acked,
                       missed, stale, raced, unsaved, unwritten>>
        /\ pc[d] \notin {"off", "over"}
        /\ \A e \in Daemons \ {d} : pc'[e] = pc[e] /\ cwd'[e] = cwd[e]
        /\ cwd'[d] = cwd[d] \/ (pc[d] = "loaded" /\ cwd'[d] = RunTo(cwd[d]))
    BY <1>2 DEF StayUnguarded, Daemonize, Bind, config, memory, files, hist, TypeOK
  <2>2. \A e \in Daemons : (Alive(e)' => Alive(e)) /\ Known(home, e)' = Known(home, e)
    BY <2>1 DEF Alive, Known, Sound
  <2>3. pc[d] = "loaded" => cwd[d] \in Starts /\ pending[d] = {}
    BY DEF Started
  <2>4. \A e \in Daemons : cwd'[e] \in Stands(home)'
    <3>1. Stands(home)' = Stands(home)
      BY <2>1 DEF Stands, RunTo
    <3>2. pc[d] = "loaded" => RunTo(cwd[d]) \in Stands(home)
      BY <2>3 DEF Stands
    <3> QED BY <2>1, <3>1, <3>2 DEF AtHome
  <2>5. \A e \in Daemons : \A r \in pending'[e] : r.step = "entered" => cwd'[e] = home
    BY <2>1, <2>3 DEF AtHome
  <2>6. \A e \in Daemons : Alive(e)' /\ e \notin missed' /\ ~raced /\ ~stale => Known(home, e)'
    BY <2>1, <2>2 DEF AtHome
  <2>7. \A e \in Daemons, p \in Problems :
           /\ list'[e][p] = "S" /\ Holds(home, p) /\ p \notin writing'[e] /\ <<e, p>> \notin unwritten'
           => disk[home][id[p]].status = "S"
    BY <2>1 DEF AtHome
  <2> QED BY <2>1, <2>4, <2>5, <2>6, <2>7, HomeUnmoved
<1>3. ASSUME NEW d \in Daemons, Lock(d), pid_file[cwd[d]] = NULL PROVE AtHome(home)'
  <2>1. /\ UNCHANGED <<way, run, cwd, auto_increment, list, pending, writing, disk, id, acked,
                       missed, stale, raced, unsaved, unwritten>>
        /\ pc[d] = "detached" /\ pc' = [pc EXCEPT ![d] = "up"]
    BY <1>3 DEF Lock, config, memory, files
  <2>2. \A e \in Daemons : (Alive(e)' => Alive(e)) /\ Known(home, e)' = Known(home, e)
    BY <2>1 DEF Alive, Known, Sound, TypeOK
  <2>3. /\ \A e \in Daemons : cwd'[e] \in Stands(home)'
        /\ \A e \in Daemons : \A r \in pending'[e] : r.step = "entered" => cwd'[e] = home
        /\ \A e \in Daemons : Alive(e)' /\ e \notin missed' /\ ~raced /\ ~stale => Known(home, e)'
    BY <2>1, <2>2 DEF AtHome, Stands, RunTo
  <2>4. \A e \in Daemons, p \in Problems :
           /\ list'[e][p] = "S" /\ Holds(home, p) /\ p \notin writing'[e] /\ <<e, p>> \notin unwritten'
           => disk[home][id[p]].status = "S"
    BY <2>1 DEF AtHome
  <2> QED BY <2>1, <2>3, <2>4, HomeUnmoved
<1>4. ASSUME NEW d \in Daemons, Ends(d),
             UNCHANGED <<way, run, cwd, disk, id, acked, stale, raced, unsaved>>
      PROVE  AtHome(home)'
  <2>1. /\ pc'[d] = "over" /\ \A e \in Daemons \ {d} : pc'[e] = pc[e]
        /\ pending'[d] = {} /\ list'[d] = Unknown /\ missed' = missed \ {d}
        /\ \A e \in Daemons \ {d} : /\ pending'[e] = pending[e] /\ list'[e] = list[e]
                                   /\ auto_increment'[e] = auto_increment[e]
                                   /\ writing'[e] = writing[e]
        /\ \A e \in Daemons \ {d}, p \in Problems :
             <<e, p>> \in unwritten => <<e, p>> \in unwritten'
    BY <1>4, EndEffect
  <2>2. ~Alive(d)' /\ \A e \in Daemons \ {d} : Alive(e)' = Alive(e) /\ Known(home, e)' = Known(home, e)
    BY <1>4, <2>1 DEF Alive, Known, Sound
  <2>3. /\ \A e \in Daemons : cwd'[e] \in Stands(home)'
        /\ \A e \in Daemons : \A r \in pending'[e] : r.step = "entered" => cwd'[e] = home
        /\ \A e \in Daemons : Alive(e)' /\ e \notin missed' /\ ~raced /\ ~stale => Known(home, e)'
    BY <1>4, <2>1, <2>2 DEF AtHome, Stands, RunTo
  <2>4. \A p \in Problems : list'[d][p] = "none"
    BY <2>1 DEF Unknown
  <2>5. \A e \in Daemons, p \in Problems :
           /\ list'[e][p] = "S" /\ Holds(home, p) /\ p \notin writing'[e] /\ <<e, p>> \notin unwritten'
           => disk[home][id[p]].status = "S"
    BY <2>1, <2>4 DEF AtHome
  <2> QED BY <1>4, <2>3, <2>5, HomeUnmoved
<1>5. ASSUME NEW d \in Daemons, (Lock(d) /\ pid_file[cwd[d]] # NULL) \/ Stop(d) PROVE AtHome(home)'
  BY <1>4, <1>5 DEF Lock, Stop, config, files
<1>6. ASSUME NEW d \in Daemons, TakeId(d) \/ StoreId(d) \/ EnterDatabase(d) \/ Refuse(d)
      PROVE  AtHome(home)'
  BY <1>6, HomeRegisterStep
<1>7. ASSUME NEW d \in Daemons, Save(d) PROVE AtHome(home)'
  <2>1. PICK r \in pending[d] : Saved(d, r)
    BY <1>7, SaveEffect
  <2>2. /\ cwd[d] = home /\ UNCHANGED <<way, run, pc, cwd, auto_increment, writing, raced, unwritten>>
        /\ \A e \in Daemons : pending'[e] \subseteq pending[e]
        /\ pending'[d] = pending[d] \ {r}
    BY <2>1 DEF Saved, Over, AtHome
  <2>3. /\ r.id \in Ids /\ r.prob \in Problems /\ id[r.prob] = 0 /\ r.id # 0
        /\ disk'[home][r.id].prob \in {r.prob, NULL}
        /\ disk'[home][r.id].prob = r.prob \/ r.prob \in unsaved'
        /\ \A i \in Ids : i # r.id => disk'[home][i] = disk[home][i]
        /\ \A p \in Problems : id'[p] = IF p = r.prob THEN r.id ELSE id[p]
        /\ unsaved \subseteq unsaved' /\ unsaved' \subseteq unsaved \cup {r.prob}
    BY <2>1, <2>2, IdsNumbers DEF Saved, Registering
  <2>4. Alive(d) /\ \A e \in Daemons : Alive(e)' = Alive(e)
    BY <2>1, <2>2 DEF Started, Alive
  <2>5. /\ \A e \in Daemons : cwd'[e] \in Stands(home)'
        /\ \A e \in Daemons : \A s \in pending'[e] : s.step = "entered" => cwd'[e] = home
    BY <2>2 DEF AtHome, Stands, RunTo
  <2>6. ASSUME ~stale', ~raced' PROVE d \notin missed /\ Known(home, d) /\ Counted(d) /\ ~stale /\ ~raced
    <3>0. stale' = (stale \/ d \in missed) /\ raced' = raced
      BY <2>1 DEF Saved
    <3>1. d \notin missed /\ ~stale /\ ~raced
      BY Zenon, <2>6, <3>0
    <3> QED BY <2>4, <3>1 DEF AtHome
  <2>7. ASSUME ~stale', ~raced', NEW e \in Daemons, Alive(e)', e \notin missed' PROVE Known(home, e)'
    <3>1. e = d
      BY <2>1, <2>4, <2>7 DEF Saved
    <3>2. Known(home, d) /\ Counted(d)
      BY <2>6, <2>7
    <3>3. r.id < auto_increment[d]
      BY <2>1, <3>2 DEF Counted, Saved
    <3>4. \A i \in Ids : Sound(home, i)' => i = r.id \/ Sound(home, i)
      BY <2>3 DEF Sound
    <3>5. \A i \in Ids : Sound(home, i)' => i < auto_increment'[d]
      BY <2>2, <3>2, <3>3, <3>4 DEF Known
    <3>6. \A s \in pending'[d] : s \in pending[d] /\ s.id # r.id /\ s.id \in Ids
      BY <2>2, <3>2, PendingTypes DEF Counted
    <3>7. \A s \in pending'[d] : ~Sound(home, s.id)'
      BY <3>2, <3>4, <3>6 DEF Known
    <3> QED BY <3>1, <3>5, <3>7 DEF Known
  <2>8. ASSUME ~stale', ~raced', NEW p \in acked' \ unsaved' PROVE Holds(home, p)'
    <3>1. p \in Problems /\ acked' = acked \cup {r.prob}
      BY <2>1 DEF Saved, TypeOK
    <3>2. CASE p = r.prob
      BY <2>3, <2>8, <3>2 DEF Holds
    <3>3. CASE p # r.prob
      <4>1. p \in acked \ unsaved /\ id'[p] = id[p]
        BY <2>3, <2>8, <3>1, <3>3
      <4>2. Holds(home, p)
        BY <2>6, <2>8, <4>1 DEF AtHome
      <4>3. id[p] \in Ids /\ Sound(home, id[p])
        BY <3>1, <4>1, <4>2, ConstantsAssumption DEF Holds, Sound, TypeOK
      <4>4. ~Sound(home, r.id)
        BY <2>6, <2>8 DEF Known
      <4>5. disk'[home][id[p]] = disk[home][id[p]]
        BY <2>3, <4>3, <4>4
      <4> QED BY <4>1, <4>2, <4>5 DEF Holds
    <3> QED BY <3>2, <3>3
  <2>9. ASSUME NEW e \in Daemons, NEW p \in Problems, list'[e][p] = "S", Holds(home, p)',
               p \notin writing'[e], <<e, p>> \notin unwritten'
        PROVE  disk'[home][id'[p]].status = "S"
    <3>1. p # r.prob /\ list[e][p] = "S"
      <4>1. list'[e][p] = IF e = d /\ p = r.prob THEN "N" ELSE list[e][p]
        BY <2>1 DEF Saved
      <4>2. list[e][r.prob] = "none"
        BY <2>3 DEF Registering
      <4> QED BY <2>9, <4>1, <4>2
    <3>2. id'[p] = id[p] /\ id[p] # r.id /\ id[p] \in Ids
      <4>1. id'[p] = id[p] /\ id[p] # 0
        BY <2>3, <2>9, <3>1 DEF Holds
      <4>2. disk'[home][id[p]].prob = p /\ p # NULL
        BY <2>9, <4>1, ConstantsAssumption DEF Holds
      <4> QED BY <2>3, <3>1, <4>1, <4>2 DEF TypeOK
    <3>3. disk'[home][id[p]] = disk[home][id[p]]
      BY <2>3, <3>2
    <3>4. Holds(home, p)
      BY <2>9, <3>2, <3>3 DEF Holds
    <3> QED BY <2>2, <2>9, <3>1, <3>2, <3>3, <3>4 DEF AtHome
  <2> QED BY <2>5, <2>7, <2>8, <2>9 DEF AtHome
<1>8. ASSUME NEW d \in Daemons, Solve(d) PROVE AtHome(home)'
  <2>1. PICK p \in Problems : Solved(d, p)
    BY <1>8, SolveEffect
  <2>2. UNCHANGED <<way, run, pc, cwd, auto_increment, pending, disk, id, acked, missed, stale, raced,
                    unsaved, unwritten>>
    BY <2>1 DEF Solved
  <2>3. \A e \in Daemons : Alive(e)' = Alive(e) /\ Known(home, e)' = Known(home, e)
    BY <2>2 DEF Alive, Known, Sound
  <2>4. /\ \A e \in Daemons : cwd'[e] \in Stands(home)'
        /\ \A e \in Daemons : \A r \in pending'[e] : r.step = "entered" => cwd'[e] = home
        /\ \A e \in Daemons : Alive(e)' /\ e \notin missed' /\ ~raced /\ ~stale => Known(home, e)'
    BY <2>2, <2>3 DEF AtHome, Stands, RunTo
  <2>5. \A e \in Daemons, q \in Problems :
           /\ list'[e][q] = "S" /\ Holds(home, q) /\ q \notin writing'[e] /\ <<e, q>> \notin unwritten'
           => disk[home][id[q]].status = "S"
    <3>1. \A e \in Daemons, q \in Problems :
            list'[e][q] = "S" /\ q \notin writing'[e] => list[e][q] = "S" /\ q \notin writing[e]
      BY <2>1 DEF Solved
    <3> QED BY <2>2, <3>1 DEF AtHome
  <2> QED BY <2>2, <2>4, <2>5, HomeUnmoved
<1>9. ASSUME NEW d \in Daemons, WriteMetadata(d) PROVE AtHome(home)'
  <2>1. PICK p \in Problems : Written(d, p)
    BY <1>9, WriteEffect
  <2>2. /\ UNCHANGED <<way, run, pc, cwd, auto_increment, list, pending, id, acked, missed, stale,
                       raced, unsaved>>
        /\ \A i \in Ids :
             \/ disk'[home][i] = disk[home][i]
             \/ /\ i = id[p] /\ disk'[home][i].status = "S"
                /\ disk'[home][i].prob = IF disk[home][i].prob = NULL THEN p ELSE disk[home][i].prob
        /\ id[p] \in Ids /\ id[p] # 0
    BY <2>1, IdsNumbers DEF Written
  <2>3. \A e \in Daemons : Alive(e)' = Alive(e)
    BY <2>2 DEF Alive
  <2>4. /\ \A e \in Daemons : cwd'[e] \in Stands(home)'
        /\ \A e \in Daemons : \A r \in pending'[e] : r.step = "entered" => cwd'[e] = home
    BY <2>2 DEF AtHome, Stands, RunTo
  <2>5. ASSUME ~stale, ~raced
        PROVE  /\ \A i \in Ids : Sound(home, i)' => Sound(home, i)
               /\ \A q \in acked \ unsaved : Holds(home, q)'
    <3>1. p \in acked
      BY <2>2 DEF Registering
    <3>2. disk[home][id[p]].prob = NULL => p \in unsaved
      BY <2>5, <3>1, ConstantsAssumption DEF AtHome, Holds
    <3>3. \A i \in Ids : Sound(home, i)' => Sound(home, i)
      BY <2>2, <3>2 DEF Sound
    <3>4. ASSUME NEW q \in acked \ unsaved PROVE Holds(home, q)'
      <4>1. Holds(home, q) /\ q \in Problems
        BY <2>5 DEF AtHome, TypeOK
      <4>2. id[q] \in Ids /\ q # NULL
        BY <4>1, ConstantsAssumption DEF Holds, TypeOK
      <4> QED BY <2>2, <4>1, <4>2 DEF Holds
    <3> QED BY <3>3, <3>4
  <2>6. ~stale' /\ ~raced' =>
          /\ \A e \in Daemons : Alive(e)' /\ e \notin missed' => Known(home, e)'
          /\ \A q \in acked' \ unsaved' : Holds(home, q)'
    <3>1. ASSUME ~stale, ~raced, NEW e \in Daemons, Alive(e), e \notin missed PROVE Known(home, e)'
      <4>1. Known(home, e)
        BY <3>1 DEF AtHome
      <4>2. \A r \in pending[e] : r.id \in Ids
        BY PendingTypes
      <4> QED BY <2>2, <2>5, <3>1, <4>1, <4>2 DEF Known
    <3> QED BY <2>2, <2>3, <2>5, <3>1
  <2>7. ASSUME NEW e \in Daemons, NEW q \in Problems, list'[e][q] = "S", Holds(home, q)',
               q \notin writing'[e], <<e, q>> \notin unwritten'
        PROVE  disk'[home][id'[q]].status = "S"
    <3>1. id[q] \in Ids /\ disk'[home][id[q]].prob = q /\ q # NULL
      BY <2>2, <2>7, ConstantsAssumption DEF Holds, TypeOK
    <3>2. CASE e = d /\ q = p
      <4>1. \/ disk'[home][id[p]] = NoFile
            \/ disk'[home][id[p]].status = "S"
            \/ <<d, p>> \in unwritten'
        BY <1>0, <2>1 DEF Written
      <4>2. NoFile.prob = NULL
        BY DEF NoFile
      <4> QED BY <2>2, <2>7, <3>1, <3>2, <4>1, <4>2
    <3>3. CASE ~(e = d /\ q = p)
      <4>1. q \notin writing[e] /\ <<e, q>> \notin unwritten /\ list[e][q] = "S"
        BY <2>1, <2>2, <2>7, <3>3 DEF Written
      <4>2. CASE disk'[home][id[q]] = disk[home][id[q]]
        <5>1. Holds(home, q)
          BY <3>1, <4>2, IdsNumbers DEF Holds
        <5> QED BY <2>2, <4>1, <4>2, <5>1 DEF AtHome
      <4>3. CASE disk'[home][id[q]] # disk[home][id[q]]
        BY <2>2, <3>1, <4>3
      <4> QED BY <4>2, <4>3
    <3> QED BY <3>2, <3>3
  <2> QED BY <2>4, <2>6, <2>7 DEF AtHome
<1> QED BY <1>1, <1>2, <1>3, <1>5, <1>6, <1>7, <1>8, <1>9 DEF Next

-----------------------------------------------------------------------------
(* At first there are no files, and no process has registered a problem.     *)
LEMMA FilesInit == Init => FilesInv
<1> SUFFICES ASSUME Init PROVE FilesInv
  OBVIOUS
<1>1. TypeOK
  <2>1. 0 \in 0 .. Cardinality(Problems) + 1 /\ Unknown \in [Problems -> {"none", "N", "S"}]
    BY IdsNumbers DEF Unknown
  <2>2. NoFile \in File
    BY DEF File
  <2>3. /\ way \in Path /\ run \in Path /\ cwd \in [Daemons -> Dirs]
    BY ConstantsAssumption DEF Init
  <2>4. disk \in [Dirs -> [Ids -> File]]
    BY <2>2 DEF Init
  <2> QED BY <2>1, <2>3, <2>4, ConstantsAssumption DEF Init, TypeOK
<1>2. Started
  BY ConstantsAssumption DEF Init, Started
<1>3. Registering
  BY DEF Init, Registering, Unknown
<1>4. \A d \in Daemons : Counted(d)
  BY DEF Init, Counted
<1>5. ASSUME NEW home \in Dirs PROVE AtHome(home)
  BY <1>5 DEF Init, AtHome, Alive, Unknown, Stands
<1> QED BY <1>1, <1>2, <1>3, <1>4, <1>5 DEF FilesInv

(* A step of any process keeps the invariant.                                *)
LEMMA FilesStep == FilesInv /\ [Next]_vars => FilesInv'
<1> SUFFICES ASSUME FilesInv, [Next]_vars PROVE FilesInv'
  OBVIOUS
<1>1. /\ TypeOK /\ Started /\ Registering /\ \A home \in Dirs : Leads(home) => AtHome(home)
      /\ ~raced => \A d \in Daemons : Counted(d)
  BY SMTT(60) DEF FilesInv
<1>2. UNCHANGED <<way, run>>
  BY DEF vars, config, Next, Load, StayUnguarded, Daemonize, Lock, Bind, TakeId, StoreId,
         EnterDatabase, Refuse, Save, Solve, WriteMetadata, Stop
<1>3. \A home \in Dirs : Leads(home)' <=> Leads(home)
  BY <1>2 DEF Leads, RunTo
<1>4. CASE Next
  <2>1. TypeOK' /\ Started' /\ Registering'
    BY <1>1, <1>4, TypeStep, StartedStep, RegisteringStep
  <2>2. ~raced' => \A d \in Daemons : Counted(d)'
    BY <1>1, <1>4, CountedStep
  <2>3. \A home \in Dirs : Leads(home) => AtHome(home)'
    BY <1>1, <1>4, HomeStep
  <2> QED BY <1>3, <2>1, <2>2, <2>3 DEF FilesInv
<1>5. CASE UNCHANGED vars
  <2>1. UNCHANGED <<way, run, pc, cwd, guarded, socket, auto_increment, list, pending, writing,
                    pid_file, disk, id, acked, missed, stale, raced, unsaved, unwritten>>
    BY <1>5 DEF vars, config, process, memory, files, hist
  <2>2. TypeOK' /\ Started' /\ Registering'
    BY <1>1, <2>1 DEF TypeOK, Started, Registering, Alive, Unknown, RunTo
  <2>3. ~raced' => \A d \in Daemons : Counted(d)'
    BY <1>1, <2>1 DEF Counted
  <2>4. \A home \in Dirs : AtHome(home) => AtHome(home)'
    BY <2>1 DEF AtHome, Stands, Known, Sound, Holds, Alive, RunTo
  <2> QED BY <1>1, <1>3, <2>2, <2>3, <2>4 DEF FilesInv
<1> QED BY <1>4, <1>5

(* FilesInv holds whatever processes start, stop and register at once, and    *)
(* whichever reads and writes of files fail.                                 *)
THEOREM FilesInvariance == Spec => []FilesInv
<1> QED BY FilesInit, FilesStep, PTL DEF Spec

(* TypeOK: types are kept, and a process that is not there holds no lock, no *)
(* port and nothing in memory.                                               *)
THEOREM TypeCorrect == Spec => []TypeOK
<1>1. FilesInv => TypeOK
  BY DEF FilesInv
<1> QED BY <1>1, FilesInvariance, PTL

(* daemon.c, 110, "ensure only one copy", for any number of processes, starts *)
(* and ends.                                                                  *)
THEOREM OnlyOneCopy == Spec => []OneCopy
<1>1. FilesInv => OneCopy
  <2> SUFFICES ASSUME Started, RunSteady, NEW d \in Daemons, NEW e \in Daemons,
                      guarded[d], guarded[e], pc[d] = "up", pc[e] = "up"
               PROVE  d = e
    BY DEF OneCopy, FilesInv
  <2>1. PICK s \in Starts : pid_file[RunTo(s)] = d
    BY DEF Started
  <2>2. PICK t \in Starts : pid_file[RunTo(t)] = e
    BY DEF Started
  <2>3. RunTo(s) = RunTo(t)
    BY DEF RunSteady
  <2> QED BY <2>1, <2>2, <2>3
<1> QED BY FilesInvariance, <1>1, PTL

(* AckedKept: an acknowledged problem whose file was written whole keeps it  *)
(* over any sequence of processes that all find database_dir, as long as no  *)
(* two registrations of one process load the same id, and no process saves a *)
(* problem that could not load the files or loaded them before another one   *)
(* saved a problem.                                                          *)
THEOREM AcknowledgedKept == Spec => []AckedKept
<1>1. FilesInv => AckedKept
  BY DEF FilesInv, AtHome, AckedKept
<1> QED BY <1>1, FilesInvariance, PTL

(* SolvedRecorded: what any process holds for solved is solved on file, as   *)
(* long as the file is that problem's, from the time its thread has written  *)
(* it, unless it could not.                                                  *)
THEOREM SolvedOnFile == Spec => []SolvedRecorded
<1>1. FilesInv => SolvedRecorded
  BY DEF FilesInv, AtHome, SolvedRecorded
<1> QED BY <1>1, FilesInvariance, PTL

-----------------------------------------------------------------------------
(* The configuration *)

\* The greatest of a set of places is the last of them (SelectLastInSeq).
LEMMA LastPlace ==
  ASSUME NEW N \in Nat, NEW I \in SUBSET (1 .. N), I # {}
  PROVE  Max(I) \in I /\ \A i \in I : i <= Max(I)
<1>1. I \in SUBSET (0 .. N)
  OBVIOUS
<1>2. \E m \in I : \A i \in I : i <= m
  BY <1>1, Largest
<1>3. \E m \in I : \A i \in I : m >= i
  BY <1>2
<1> QED BY <1>3 DEF Max

\* The least of a set of places is the first of them (SelectInSeq).
LEMMA FirstPlace ==
  ASSUME NEW N \in Nat, NEW I \in SUBSET (1 .. N), I # {}
  PROVE  Min(I) \in I /\ \A i \in I : Min(I) <= i
<1>1. I \in SUBSET Nat
  OBVIOUS
<1>2. \E m \in I : \A i \in I : m <= i
  BY <1>1, Least
<1> QED BY <1>2 DEF Min

-----------------------------------------------------------------------------
(* Paths *)

\* The recursive function of Names, with its step apart.
NoNames == [names |-> <<>>, name |-> <<>>]
PutOn(s, x) == IF x = "/" THEN [names |-> Ended(s), name |-> <<>>]
               ELSE [names |-> s.names, name |-> Append(s.name, x)]
Walks(after, path, N) ==
  after = [n \in 0 .. N |-> IF n = 0 THEN NoNames ELSE PutOn(after[n - 1], path[n])]

\* There is such a walk over any number of characters.
LEMMA WalksExists ==
  ASSUME NEW path, NEW N \in Nat
  PROVE  \E after : Walks(after, path, N)
<1> DEFINE S == {n \in Nat : ~\E after : Walks(after, path, n)}
<1>1. SUFFICES ASSUME S # {} PROVE FALSE
  OBVIOUS
<1>2. PICK m \in S : \A i \in S : m <= i
  BY <1>1, Least
<1>3. CASE m = 0
  <2> DEFINE g == [n \in 0 .. 0 |-> NoNames]
  <2>1. Walks(g, path, 0)
    BY DEF Walks
  <2> QED BY <1>2, <1>3, <2>1
<1>4. CASE m # 0
  <2>1. m \in Nat /\ m - 1 \in Nat /\ m - 1 \notin S
    BY <1>2, <1>4
  <2>2. PICK f : Walks(f, path, m - 1)
    BY <2>1
  <2> DEFINE g == [n \in 0 .. m |-> IF n = m THEN PutOn(f[m - 1], path[m]) ELSE f[n]]
  <2>3. \A n \in 0 .. (m - 1) : f[n] = IF n = 0 THEN NoNames ELSE PutOn(f[n - 1], path[n])
    BY <2>2 DEF Walks
  <2>4. ASSUME NEW n \in 0 .. m
        PROVE  g[n] = IF n = 0 THEN NoNames ELSE PutOn(g[n - 1], path[n])
    BY <1>4, <2>1, <2>3
  <2>5. g = [n \in 0 .. m |-> IF n = 0 THEN NoNames ELSE PutOn(g[n - 1], path[n])]
    <3>1. g = [n \in 0 .. m |-> g[n]]
      OBVIOUS
    <3> HIDE DEF g
    <3> QED BY <2>4, <3>1
  <2>6. Walks(g, path, m)
    BY <2>5 DEF Walks
  <2> QED BY <1>2, <2>6
<1> QED BY <1>3, <1>4

\* What it has is what a character makes of what it had before.
LEMMA WalkUnrolled ==
  ASSUME NEW path, Len(path) \in Nat
  PROVE  /\ Walk(path)[0] = NoNames
         /\ \A n \in 1 .. Len(path) : Walk(path)[n] = PutOn(Walk(path)[n - 1], path[n])
<1>1. PICK after : Walks(after, path, Len(path))
  BY WalksExists
<1>2. Walk(path) = CHOOSE f : Walks(f, path, Len(path))
  BY DEF Walk, Walks, PutOn, NoNames
<1>3. Walks(Walk(path), path, Len(path))
  BY <1>1, <1>2
<1>4. \A n \in 0 .. Len(path) :
        Walk(path)[n] = IF n = 0 THEN NoNames ELSE PutOn(Walk(path)[n - 1], path[n])
  BY <1>3 DEF Walks
<1> QED BY <1>4

\* The same characters lead through the same names.
LEMMA SameWalk ==
  ASSUME NEW p, NEW q, Len(p) \in Nat, Len(q) \in Nat,
         NEW k \in Nat, k <= Len(p), k <= Len(q), \A i \in 1 .. k : p[i] = q[i]
  PROVE  Walk(p)[k] = Walk(q)[k]
<1> DEFINE S == {n \in 0 .. k : Walk(p)[n] # Walk(q)[n]}
<1>1. SUFFICES ASSUME S # {} PROVE FALSE
  OBVIOUS
<1>2. PICK m \in S : \A i \in S : m <= i
  <2>1. S \in SUBSET Nat
    OBVIOUS
  <2> HIDE DEF S
  <2> QED BY <1>1, <2>1, Least
<1>3. m # 0
  BY WalkUnrolled
<1>4. m \in 1 .. k /\ m - 1 \in 0 .. k /\ ~(m <= m - 1) /\ m \in 1 .. Len(p) /\ m \in 1 .. Len(q)
  BY <1>3
<1>5. Walk(p)[m - 1] = Walk(q)[m - 1]
  BY <1>2, <1>4
<1>6. Walk(p)[m] = Walk(q)[m]
  BY <1>4, <1>5, WalkUnrolled
<1> QED BY <1>6

\* Separators at the end add no name.
LEMMA TrailingSeparators ==
  ASSUME NEW p, Len(p) \in Nat, NEW k \in 0 .. Len(p), \A i \in k + 1 .. Len(p) : p[i] = "/"
  PROVE  Names(p) = Ended(Walk(p)[k])
<1> DEFINE S == {n \in k .. Len(p) : Ended(Walk(p)[n]) # Ended(Walk(p)[k])}
<1>1. SUFFICES ASSUME S # {} PROVE FALSE
  <2>1. Len(p) \in k .. Len(p)
    OBVIOUS
  <2> QED BY <2>1 DEF Names
<1>2. PICK m \in S : \A i \in S : m <= i
  <2>1. S \in SUBSET Nat
    OBVIOUS
  <2> HIDE DEF S
  <2> QED BY <1>1, <2>1, Least
<1>3. m # k
  OBVIOUS
<1>4. /\ m \in k + 1 .. Len(p) /\ m - 1 \in k .. Len(p) /\ ~(m <= m - 1)
      /\ m \in 1 .. Len(p)
  BY <1>3
<1>5. Ended(Walk(p)[m - 1]) = Ended(Walk(p)[k])
  BY <1>2, <1>4
<1>6. Walk(p)[m] = [names |-> Ended(Walk(p)[m - 1]), name |-> <<>>]
  BY <1>4, WalkUnrolled DEF PutOn
<1>7. Ended(Walk(p)[m]) = Ended(Walk(p)[m - 1])
  BY <1>6 DEF Ended
<1> QED BY <1>5, <1>7

\* What a file may be called.
FileName(suffix, S) ==
  /\ suffix \in Seq(S) /\ suffix # <<>> /\ suffix # <<".">>
  /\ \A i \in 1 .. Len(suffix) : suffix[i] # "/"

\* A name after a separator is the last name of the path.
LEMMA NameAdded ==
  ASSUME NEW S, NEW suffix, FileName(suffix, S), NEW p, NEW h \in Nat, NEW ns,
         Len(p) = h + Len(suffix), Walk(p)[h] = [names |-> ns, name |-> <<>>],
         \A i \in 1 .. Len(suffix) : p[h + i] = suffix[i]
  PROVE  Names(p) = Append(ns, suffix)
<1> DEFINE N == Len(suffix)
           Copied(w, n) == w \in Seq(S) /\ Len(w) = n /\ \A i \in 1 .. n : w[i] = suffix[i]
           Good(n) == Walk(p)[h + n].names = ns /\ Copied(Walk(p)[h + n].name, n)
           B == {n \in 0 .. N : ~Good(n)}
<1>1. N \in Nat /\ suffix \in Seq(S) /\ Len(p) = h + N /\ Len(p) \in Nat
      /\ \A i \in 1 .. N : suffix[i] \in S
  BY LenProperties, ElementOfSeq DEF FileName
<1>2. Good(0)
  <2>1. <<>> \in Seq(S) /\ Len(<<>>) = 0 /\ h + 0 = h
    BY EmptySeq
  <2>2. Walk(p)[h + 0].names = ns /\ Walk(p)[h + 0].name = <<>>
    BY <2>1
  <2> QED BY <2>1, <2>2
<1>3. ASSUME NEW n \in 1 .. N, Good(n - 1) PROVE Good(n)
  <2>1. /\ h + n \in 1 .. Len(p) /\ (h + n) - 1 = h + (n - 1) /\ n \in Nat
        /\ p[h + n] = suffix[n] /\ suffix[n] # "/" /\ suffix[n] \in S
    BY <1>1 DEF FileName
  <2> DEFINE w == Walk(p)[h + (n - 1)].name
  <2>2. Walk(p)[h + n] = [names |-> Walk(p)[h + (n - 1)].names, name |-> Append(w, suffix[n])]
    BY ZenonT(60), <1>1, <2>1, WalkUnrolled DEF PutOn
  <2>3. Copied(w, n - 1)
    BY <1>3
  <2> HIDE DEF w
  <2>4. /\ Append(w, suffix[n]) \in Seq(S) /\ Len(Append(w, suffix[n])) = Len(w) + 1
        /\ \A i \in 1 .. Len(w) : Append(w, suffix[n])[i] = w[i]
        /\ Append(w, suffix[n])[Len(w) + 1] = suffix[n]
    BY SMTT(60), <2>1, <2>3, AppendProperties
  <2>5. Copied(Append(w, suffix[n]), n)
    <3>1. Len(w) + 1 = n /\ \A i \in 1 .. n : i = n \/ i \in 1 .. n - 1
      BY SMTT(60), <2>1, <2>3
    <3> QED BY <2>1, <2>3, <2>4, <3>1
  <2> HIDE DEF Copied
  <2> QED BY <1>3, <2>2, <2>5
<1>4. Good(N)
  <2> HIDE DEF Good
  <2>1. SUFFICES ASSUME B # {} PROVE FALSE
    BY <1>1
  <2>2. PICK m \in B : \A i \in B : m <= i
    <3>1. B \in SUBSET Nat
      BY <1>1
    <3> HIDE DEF B
    <3> QED BY <2>1, <3>1, Least
  <2>3. m # 0
    BY <1>2
  <2>4. m - 1 \in 0 .. N /\ ~(m <= m - 1) /\ m \in 1 .. N
    BY <1>1, <2>3
  <2>5. Good(m - 1)
    BY <2>2, <2>4
  <2> QED BY <1>3, <2>4, <2>5
<1>5. Walk(p)[h + N].name = suffix
  <2>1. PICK w : w = Walk(p)[h + N].name
    OBVIOUS
  <2>2. Copied(w, N)
    BY <1>4, <2>1
  <2>3. w = suffix
    BY <1>1, <2>2, SeqEqual
  <2> QED BY <2>1, <2>3
<1>6. Walk(p)[h + N].names = ns
  BY <1>4
<1> QED BY <1>1, <1>5, <1>6 DEF Names, Ended, FileName

\* What _concat_path keeps of the directory: all but the separators at its end.
Kept(prefix) == SelectLastInSeq(prefix, LAMBDA x : x # "/")

\* The last character kept is no separator, and all after it are.
LEMMA KeptPlace ==
  ASSUME NEW S, NEW prefix \in Seq(S)
  PROVE  /\ Kept(prefix) \in 0 .. Len(prefix)
         /\ \A i \in Kept(prefix) + 1 .. Len(prefix) : prefix[i] = "/"
         /\ Kept(prefix) # 0 => prefix[Kept(prefix)] # "/"
<1> DEFINE I == {i \in 1 .. Len(prefix) : prefix[i] # "/"}
<1>1. Len(prefix) \in Nat
  BY LenProperties
<1>2. Kept(prefix) = IF I # {} THEN Max(I) ELSE 0
  BY DEF Kept, SelectLastInSeq
<1>3. CASE I = {}
  BY <1>1, <1>2, <1>3
<1>4. CASE I # {}
  <2>1. I \in SUBSET (1 .. Len(prefix))
    OBVIOUS
  <2>2. Max(I) \in I /\ \A i \in I : i <= Max(I)
    <3> HIDE DEF I
    <3> QED BY <1>1, <1>4, <2>1, LastPlace
  <2>3. ASSUME NEW i \in Max(I) + 1 .. Len(prefix) PROVE prefix[i] = "/"
    <3>1. i \in 1 .. Len(prefix) /\ ~(i <= Max(I))
      BY <1>1, <2>1, <2>2
    <3> QED BY <2>2, <3>1
  <2>4. Kept(prefix) = Max(I)
    BY <1>2, <1>4
  <2> QED BY <1>1, <2>2, <2>3, <2>4
<1> QED BY <1>3, <1>4

(* _concat_path names a file in the directory it is given, whatever the path *)
(* of the directory and the name of the file.                                *)
THEOREM ConcatLeadsInto ==
  ASSUME NEW S, "." \in S, "/" \in S, NEW prefix \in Seq(S), NEW suffix, FileName(suffix, S)
  PROVE  LedInto(prefix, suffix)
<1> DEFINE k == Kept(prefix)
           p == Concat(prefix, suffix)
           N == Len(suffix)
<1>1. SUFFICES ASSUME (\E i \in DOMAIN prefix : prefix[i] # "/") \/ prefix = <<>>
               PROVE  (Absolute(p) <=> Absolute(prefix)) /\ Names(p) = Append(Names(prefix), suffix)
  BY DEF LedInto
<1>2. /\ Len(prefix) \in Nat /\ DOMAIN prefix = 1 .. Len(prefix) /\ N \in Nat /\ suffix \in Seq(S)
      /\ \A i \in 1 .. Len(prefix) : prefix[i] \in S
  BY LenProperties, ElementOfSeq DEF FileName
<1>3. /\ k \in 0 .. Len(prefix) /\ \A i \in k + 1 .. Len(prefix) : prefix[i] = "/"
      /\ k # 0 => prefix[k] # "/"
  BY KeptPlace
<1>4. Names(prefix) = Ended(Walk(prefix)[k])
  BY <1>2, <1>3, TrailingSeparators
<1>5. Concat(prefix, suffix) = (IF k = 0 THEN <<".">> ELSE SubSeq(prefix, 1, k)) \o <<"/">> \o suffix
  BY DEF Concat, Kept
<1> DEFINE a == IF k = 0 THEN <<".">> ELSE SubSeq(prefix, 1, k)
           m == IF k = 0 THEN 1 ELSE k
<1> HIDE DEF k, p
<1>6. /\ a \in Seq(S) /\ Len(a) = m /\ m \in Nat /\ m >= 1
      /\ k = 0 => a[1] = "."
      /\ k # 0 => \A i \in 1 .. k : a[i] = prefix[i]
  <2>1. CASE k = 0
    <3>1. <<".">> \in Seq(S) /\ Len(<<".">>) = 1 /\ <<".">>[1] = "."
      OBVIOUS
    <3> QED BY <2>1, <3>1
  <2>2. CASE k # 0
    <3>1. k \in Nat /\ k >= 1 /\ k <= Len(prefix) /\ \A i \in 1 .. k : prefix[i] \in S
      BY <1>2, <1>3, <2>2
    <3>2. /\ SubSeq(prefix, 1, k) \in Seq(S) /\ Len(SubSeq(prefix, 1, k)) = k - 1 + 1
          /\ \A i \in 1 .. k - 1 + 1 : SubSeq(prefix, 1, k)[i] = prefix[1 + i - 1]
      BY <3>1, SubSeqProperties
    <3> QED BY <2>2, <3>1, <3>2
  <2> QED BY <2>1, <2>2
<1> HIDE DEF a, m
<1>7. /\ a \o <<"/">> \in Seq(S) /\ Len(a \o <<"/">>) = m + 1
      /\ \A i \in 1 .. m : (a \o <<"/">>)[i] = a[i]
      /\ (a \o <<"/">>)[m + 1] = "/"
  <2>1. <<"/">> \in Seq(S) /\ Len(<<"/">>) = 1 /\ <<"/">>[1] = "/"
    OBVIOUS
  <2>2. ASSUME NEW e \in Seq(S), Len(e) = 1
        PROVE  /\ a \o e \in Seq(S) /\ Len(a \o e) = m + 1
               /\ \A i \in 1 .. m + 1 : (a \o e)[i] = IF i <= m THEN a[i] ELSE e[i - m]
    <3>1. /\ a \o e \in Seq(S) /\ Len(a \o e) = Len(a) + Len(e)
          /\ \A i \in 1 .. Len(a) + Len(e) :
               (a \o e)[i] = IF i <= Len(a) THEN a[i] ELSE e[i - Len(a)]
      BY <1>6, ConcatProperties
    <3> QED BY <1>6, <2>2, <3>1
  <2>3. m + 1 \in 1 .. m + 1 /\ ~(m + 1 <= m) /\ (m + 1) - m = 1 /\ \A i \in 1 .. m : i \in 1 .. m + 1 /\ i <= m
    BY <1>6
  <2>4. PICK e \in Seq(S) : e = <<"/">> /\ Len(e) = 1 /\ e[1] = "/"
    BY <2>1
  <2>5. (a \o e)[m + 1] = "/" /\ \A i \in 1 .. m : (a \o e)[i] = a[i]
    <3>1. \A i \in 1 .. m + 1 : (a \o e)[i] = IF i <= m THEN a[i] ELSE e[i - m]
      BY <2>2, <2>4
    <3>2. (a \o e)[m + 1] = e[(m + 1) - m]
      BY <2>3, <3>1
    <3>3. (a \o e)[m + 1] = "/"
      BY <2>3, <2>4, <3>2
    <3> QED BY <2>3, <3>1, <3>3
  <2> QED BY <2>2, <2>4, <2>5
<1> DEFINE b == a \o <<"/">>
<1> HIDE DEF b
<1>8. p = b \o suffix
  BY <1>5 DEF p, a, b
<1>9. /\ Len(p) = m + 1 + N /\ Len(p) \in Nat /\ m \in Nat /\ m >= 1
      /\ \A i \in 1 .. m : p[i] = a[i]
      /\ p[m + 1] = "/"
      /\ \A i \in 1 .. N : p[(m + 1) + i] = suffix[i]
  <2>1. /\ Len(b \o suffix) = m + 1 + N
        /\ \A i \in 1 .. m + 1 + N : (b \o suffix)[i] = IF i <= m + 1 THEN b[i] ELSE suffix[i - (m + 1)]
    <3>1. b \in Seq(S) /\ Len(b) = m + 1
      BY <1>7 DEF b
    <3> HIDE DEF N
    <3>2. PICK l \in Nat : l = Len(suffix) /\ l = N
      BY <1>2 DEF N
    <3>3. /\ Len(b \o suffix) = Len(b) + Len(suffix)
          /\ \A i \in 1 .. Len(b) + Len(suffix) :
               (b \o suffix)[i] = IF i <= Len(b) THEN b[i] ELSE suffix[i - Len(b)]
      BY <1>2, <3>1, ConcatProperties
    <3> QED BY SMTT(60), <1>6, <3>1, <3>2, <3>3
  <2>2. ASSUME NEW i \in 1 .. N
        PROVE  (m + 1) + i \in 1 .. m + 1 + N /\ ~((m + 1) + i <= m + 1) /\ ((m + 1) + i) - (m + 1) = i
    BY <1>2, <1>6
  <2>3. ASSUME NEW i \in 1 .. m + 1 PROVE i \in 1 .. m + 1 + N /\ i <= m + 1
    BY <1>2, <1>6
  <2>4. m + 1 \in 1 .. m + 1 /\ \A i \in 1 .. m : i \in 1 .. m + 1
    BY <1>6
  <2> QED BY <1>2, <1>6, <1>7, <1>8, <2>1, <2>2, <2>3, <2>4 DEF b
<1>10. Ended(Walk(p)[m]) = Names(prefix)
  <2>1. CASE k # 0
    <3>1. m = k /\ k \in Nat /\ k <= Len(prefix) /\ k <= Len(p) /\ \A i \in 1 .. k : p[i] = prefix[i]
      BY <1>2, <1>3, <1>6, <1>9, <2>1 DEF m
    <3> QED BY ZenonT(60), <1>2, <1>4, <1>9, <3>1, SameWalk
  <2>2. CASE k = 0
    <3>1. m = 1 /\ p[1] = "." /\ 1 \in 1 .. Len(p)
      BY <1>2, <1>6, <1>9, <2>2 DEF m
    <3>2. Walk(p)[1] = [names |-> <<>>, name |-> Append(<<>>, ".")]
      <4>1. Walk(p)[1 - 1] = NoNames /\ Walk(p)[1] = PutOn(Walk(p)[1 - 1], p[1])
        BY <1>9, <3>1, WalkUnrolled
      <4> QED BY <3>1, <4>1 DEF PutOn, NoNames
    <3>3. Append(<<>>, ".") = <<".">>
      OBVIOUS
    <3>4. Ended(Walk(p)[1]) = <<>>
      BY <3>2, <3>3 DEF Ended
    <3>5. Walk(prefix)[0] = NoNames
      BY <1>2, WalkUnrolled
    <3>6. Ended(NoNames) = <<>>
      BY DEF Ended, NoNames
    <3> QED BY <1>4, <2>2, <3>1, <3>4, <3>5, <3>6
  <2> QED BY <2>1, <2>2
<1>11. Walk(p)[m + 1] = [names |-> Names(prefix), name |-> <<>>]
  <2>1. PICK h \in Nat : h = m + 1
    BY <1>9
  <2>2. h \in 1 .. Len(p) /\ h - 1 = m
    BY <1>2, <1>9, <2>1
  <2>3. Walk(p)[h] = PutOn(Walk(p)[m], p[h])
    BY <1>9, <2>2, WalkUnrolled
  <2>4. p[h] = "/"
    BY <1>9, <2>1
  <2> QED BY <1>10, <2>1, <2>3, <2>4 DEF PutOn
<1>12. Names(p) = Append(Names(prefix), suffix)
  <2>1. PICK h \in Nat : h = m + 1
    BY <1>9
  <2> QED BY SMTT(60), <1>9, <1>11, <2>1, NameAdded
<1>13. Absolute(p) <=> Absolute(prefix)
  <2>1. p # <<>> /\ p[1] = a[1]
    BY <1>9
  <2>2. CASE k = 0
    <3>1. prefix = <<>>
      BY <1>1, <1>2, <1>3, <2>2
    <3> QED BY <1>6, <2>1, <2>2, <3>1 DEF Absolute
  <2>3. CASE k # 0
    <3>1. a[1] = prefix[1] /\ prefix # <<>>
      BY <1>2, <1>3, <1>6, <2>3
    <3> QED BY <2>1, <3>1 DEF Absolute
  <2> QED BY <2>2, <2>3
<1> QED BY <1>12, <1>13

-----------------------------------------------------------------------------
(* The arguments and the lines of the file *)

\* The largest of a set of numbers is the one no other exceeds.
LEMMA MaxIs ==
  ASSUME NEW I \in SUBSET Nat, NEW n \in I, \A i \in I : i <= n
  PROVE  Max(I) = n
<1>1. \E m \in I : \A i \in I : m >= i
  OBVIOUS
<1>2. Max(I) \in I /\ \A i \in I : Max(I) >= i
  BY <1>1 DEF Max
<1>3. Max(I) \in Nat /\ n \in Nat /\ Max(I) >= n /\ Max(I) <= n
  BY <1>2
<1> QED BY <1>3

\* The loop of _parse_args as a recursive function, with its round apart.
NothingTaken == [c |-> 1, config |-> Defaults]
TakeOn(args, behind, s) == IF s.c > Len(args) THEN s ELSE Argument(args, behind, s)
TakesArguments(after, args, behind, N) ==
  after = [n \in 0 .. N |-> IF n = 0 THEN NothingTaken ELSE TakeOn(args, behind, after[n - 1])]

\* There is such a loop of _parse_args over any number of rounds.
LEMMA TakesArgumentsExists ==
  ASSUME NEW args, NEW behind, NEW N \in Nat
  PROVE  \E after : TakesArguments(after, args, behind, N)
<1> DEFINE S == {n \in Nat : ~\E after : TakesArguments(after, args, behind, n)}
<1>1. SUFFICES ASSUME S # {} PROVE FALSE
  OBVIOUS
<1>2. PICK m \in S : \A i \in S : m <= i
  BY <1>1, Least
<1>3. CASE m = 0
  <2> DEFINE g == [n \in 0 .. 0 |-> NothingTaken]
  <2>1. TakesArguments(g, args, behind, 0)
    BY DEF TakesArguments
  <2> QED BY <1>2, <1>3, <2>1
<1>4. CASE m # 0
  <2>1. m \in Nat /\ m - 1 \in Nat /\ m - 1 \notin S
    BY <1>2, <1>4
  <2>2. PICK f : TakesArguments(f, args, behind, m - 1)
    BY <2>1
  <2> DEFINE g == [n \in 0 .. m |-> IF n = m THEN TakeOn(args, behind, f[m - 1]) ELSE f[n]]
  <2>3. \A n \in 0 .. (m - 1) : f[n] = IF n = 0 THEN NothingTaken ELSE TakeOn(args, behind, f[n - 1])
    BY <2>2 DEF TakesArguments
  <2>4. ASSUME NEW n \in 0 .. m
        PROVE  g[n] = IF n = 0 THEN NothingTaken ELSE TakeOn(args, behind, g[n - 1])
    BY <1>4, <2>1, <2>3
  <2>5. g = [n \in 0 .. m |-> IF n = 0 THEN NothingTaken ELSE TakeOn(args, behind, g[n - 1])]
    <3>1. g = [n \in 0 .. m |-> g[n]]
      OBVIOUS
    <3> HIDE DEF g
    <3> QED BY <2>4, <3>1
  <2>6. TakesArguments(g, args, behind, m)
    BY <2>5 DEF TakesArguments
  <2> QED BY <1>2, <2>6
<1> QED BY <1>3, <1>4

\* What it has is what a round makes of what it had before.
LEMMA ArgumentsUnrolled ==
  ASSUME NEW args, NEW behind, Len(args) \in Nat
  PROVE  /\ ArgumentRounds(args, behind)[0] = NothingTaken
         /\ \A n \in 1 .. Len(args) :
              ArgumentRounds(args, behind)[n] = TakeOn(args, behind, ArgumentRounds(args, behind)[n - 1])
<1>1. PICK after : TakesArguments(after, args, behind, Len(args))
  BY TakesArgumentsExists
<1>2. ArgumentRounds(args, behind) = CHOOSE f : TakesArguments(f, args, behind, Len(args))
  BY DEF ArgumentRounds, TakesArguments, TakeOn, NothingTaken
<1>3. TakesArguments(ArgumentRounds(args, behind), args, behind, Len(args))
  BY <1>1, <1>2
<1>4. \A n \in 0 .. Len(args) :
        ArgumentRounds(args, behind)[n] = IF n = 0 THEN NothingTaken ELSE TakeOn(args, behind, ArgumentRounds(args, behind)[n - 1])
  BY <1>3 DEF TakesArguments
<1> QED BY <1>4

\* The loop of _parse_file over the lines of a file.
TakesLines(after, lines, behind, base, N) ==
  after = [n \in 0 .. N |-> IF n = 0 THEN base
                            ELSE Assigned(after[n - 1], lines[n][1], lines[n][2], behind[n])]

\* There is such a loop of _parse_file over any number of lines.
LEMMA TakesLinesExists ==
  ASSUME NEW lines, NEW behind, NEW base, NEW N \in Nat
  PROVE  \E after : TakesLines(after, lines, behind, base, N)
<1> DEFINE S == {n \in Nat : ~\E after : TakesLines(after, lines, behind, base, n)}
<1>1. SUFFICES ASSUME S # {} PROVE FALSE
  OBVIOUS
<1>2. PICK m \in S : \A i \in S : m <= i
  BY <1>1, Least
<1>3. CASE m = 0
  <2> DEFINE g == [n \in 0 .. 0 |-> base]
  <2>1. TakesLines(g, lines, behind, base, 0)
    BY DEF TakesLines
  <2> QED BY <1>2, <1>3, <2>1
<1>4. CASE m # 0
  <2>1. m \in Nat /\ m - 1 \in Nat /\ m - 1 \notin S
    BY <1>2, <1>4
  <2>2. PICK f : TakesLines(f, lines, behind, base, m - 1)
    BY <2>1
  <2> DEFINE g == [n \in 0 .. m |-> IF n = m THEN Assigned(f[m - 1], lines[m][1], lines[m][2], behind[m])
                                   ELSE f[n]]
  <2>3. \A n \in 0 .. (m - 1) :
          f[n] = IF n = 0 THEN base ELSE Assigned(f[n - 1], lines[n][1], lines[n][2], behind[n])
    BY <2>2 DEF TakesLines
  <2>4. ASSUME NEW n \in 0 .. m
        PROVE  g[n] = IF n = 0 THEN base ELSE Assigned(g[n - 1], lines[n][1], lines[n][2], behind[n])
    BY <1>4, <2>1, <2>3
  <2>5. g = [n \in 0 .. m |-> IF n = 0 THEN base
                              ELSE Assigned(g[n - 1], lines[n][1], lines[n][2], behind[n])]
    <3>1. g = [n \in 0 .. m |-> g[n]]
      OBVIOUS
    <3> HIDE DEF g
    <3> QED BY <2>4, <3>1
  <2>6. TakesLines(g, lines, behind, base, m)
    BY <2>5 DEF TakesLines
  <2> QED BY <1>2, <2>6
<1> QED BY <1>3, <1>4

\* What it has is what a line makes of what it had before.
LEMMA LinesUnrolled ==
  ASSUME NEW lines, NEW behind, NEW base, Len(lines) \in Nat
  PROVE  /\ LineRounds(lines, behind, base)[0] = base
         /\ \A n \in 1 .. Len(lines) : LineRounds(lines, behind, base)[n] =
              Assigned(LineRounds(lines, behind, base)[n - 1], lines[n][1], lines[n][2], behind[n])
<1>1. PICK after : TakesLines(after, lines, behind, base, Len(lines))
  BY TakesLinesExists
<1>2. LineRounds(lines, behind, base) = CHOOSE f : TakesLines(f, lines, behind, base, Len(lines))
  BY DEF LineRounds, TakesLines
<1>3. TakesLines(LineRounds(lines, behind, base), lines, behind, base, Len(lines))
  BY <1>1, <1>2
<1>4. \A n \in 0 .. Len(lines) : LineRounds(lines, behind, base)[n] =
        IF n = 0 THEN base
        ELSE Assigned(LineRounds(lines, behind, base)[n - 1], lines[n][1], lines[n][2], behind[n])
  BY <1>3 DEF TakesLines
<1> QED BY <1>4

\* What is given before argument c.
GivenBefore(args, o, c) == {i \in Given(args, o) : i < c}
ArguedBefore(args, o, behind, c) ==
  IF GivenBefore(args, o, c) = {} THEN Unset
  ELSE <<args[Max(GivenBefore(args, o, c)) + 1], behind[Max(GivenBefore(args, o, c))]>>
MentionedBefore(args, c) ==
  \E i \in 1 .. (Len(args) - 1) : i < c /\ args[i] = "no_daemon"

\* What the loop has taken after n rounds.
HasTaken(args, behind, n, s) ==
  /\ DOMAIN s.config = Options
  /\ s.c \in n + 1 .. Len(args) + 1
  /\ \A o \in Options \ {"no_daemon"} : s.config[o] = ArguedBefore(args, o, behind, s.c)
  /\ s.config["no_daemon"] = Enabled <=> MentionedBefore(args, s.c)

\* An argument that gives an option no value changes nothing of it.
LEMMA NotGiven ==
  ASSUME NEW args, NEW behind, Len(args) \in Nat, NEW o, NEW c \in Nat, c \notin Given(args, o)
  PROVE  ArguedBefore(args, o, behind, c + 1) = ArguedBefore(args, o, behind, c)
<1>1. Given(args, o) \subseteq Nat
  BY DEF Given
<1>2. \A i \in Given(args, o) : i < c + 1 <=> i < c
  BY <1>1
<1>3. GivenBefore(args, o, c + 1) = GivenBefore(args, o, c)
  BY <1>2 DEF GivenBefore
<1> QED BY <1>3 DEF ArguedBefore

\* One that gives it a value is the last to do so.
LEMMA GivenNow ==
  ASSUME NEW args, NEW behind, Len(args) \in Nat, NEW o, NEW c \in Given(args, o)
  PROVE  ArguedBefore(args, o, behind, c + 1) = <<args[c + 1], behind[c]>>
<1>1. Given(args, o) \subseteq Nat /\ c \in Nat
  BY DEF Given
<1> DEFINE I == GivenBefore(args, o, c + 1)
<1>2. I \in SUBSET Nat /\ c \in I /\ \A i \in I : i <= c
  BY <1>1 DEF GivenBefore
<1>3. Max(I) = c
  <2> HIDE DEF I
  <2> QED BY <1>2, MaxIs
<1> QED BY <1>2, <1>3 DEF ArguedBefore

\* An argument that is not no_daemon, or the last, does not mention it.
LEMMA NotMentioned ==
  ASSUME NEW args, Len(args) \in Nat, NEW c \in Nat, c >= Len(args) \/ args[c] # "no_daemon"
  PROVE  MentionedBefore(args, c + 1) <=> MentionedBefore(args, c)
<1>1. \A i \in 1 .. (Len(args) - 1) : i < c + 1 <=> i < c \/ i = c
  OBVIOUS
<1> QED BY <1>1 DEF MentionedBefore

\* One round.
LEMMA TakesOne ==
  ASSUME NEW args \in Seq(Flags \cup Values), NEW behind, NEW n \in 0 .. Len(args) - 1, NEW s,
         HasTaken(args, behind, n, s)
  PROVE  HasTaken(args, behind, n + 1, TakeOn(args, behind, s))
<1> DEFINE c == s.c
           a == args[c]
           v == args[c + 1]
<1>1. Len(args) \in Nat /\ n \in Nat /\ c \in Nat /\ c \in n + 1 .. Len(args) + 1 /\ c >= 1
  BY LenProperties DEF HasTaken
<1>2. /\ Options = {"config_file", "database_dir", "no_daemon"} /\ "no_daemon" \in Options
      /\ Options \subseteq Flags /\ NoValue \notin Values
  BY DEF Options, Flags, NoValue, Values, Empty
<1>3. CASE c > Len(args)
  <2>1. TakeOn(args, behind, s) = s /\ c \in (n + 1) + 1 .. Len(args) + 1
    BY <1>1, <1>3 DEF TakeOn
  <2> QED BY <2>1 DEF HasTaken
<1>4. CASE c <= Len(args) /\ (c = Len(args) \/ a \notin Options)
  <2>1. TakeOn(args, behind, s) = [s EXCEPT !.c = c + 1]
    BY <1>1, <1>4 DEF TakeOn, Argument
  <2>2. PICK q : q = TakeOn(args, behind, s)
    OBVIOUS
  <2>3. q.c = c + 1 /\ q.config = s.config
    BY <2>1, <2>2 DEF HasTaken
  <2>4. ASSUME NEW o \in Options PROVE ArguedBefore(args, o, behind, c + 1) = ArguedBefore(args, o, behind, c)
    <3>1. c \notin Given(args, o)
      BY <1>1, <1>4 DEF Given
    <3> QED BY <1>1, <3>1, NotGiven
  <2>5. MentionedBefore(args, c + 1) <=> MentionedBefore(args, c)
    BY <1>1, <1>2, <1>4, NotMentioned
  <2>6. c + 1 \in (n + 1) + 1 .. Len(args) + 1
    BY <1>1, <1>4
  <2>7. HasTaken(args, behind, n + 1, q)
    BY <2>3, <2>4, <2>5, <2>6 DEF HasTaken
  <2> QED BY <2>2, <2>7
<1>5. CASE c < Len(args) /\ a \in Options /\ v \in Flags
  <2>1. TakeOn(args, behind, s) = [c |-> c + 1, config |-> Assigned(s.config, a, NoValue, behind[c])]
    BY <1>1, <1>5 DEF TakeOn, Argument
  <2>2. PICK q : q = TakeOn(args, behind, s)
    OBVIOUS
  <2>3. q.c = c + 1 /\ q.config = Assigned(s.config, a, NoValue, behind[c])
    BY <2>1, <2>2
  <2>4. /\ DOMAIN q.config = Options
        /\ \A o \in Options \ {"no_daemon"} : q.config[o] = s.config[o]
        /\ q.config["no_daemon"] = IF a = "no_daemon" THEN Enabled ELSE s.config["no_daemon"]
    BY <1>2, <2>3 DEF Assigned, HasTaken
  <2>5. ASSUME NEW o \in Options PROVE ArguedBefore(args, o, behind, c + 1) = ArguedBefore(args, o, behind, c)
    <3>1. c \notin Given(args, o)
      BY <1>1, <1>5 DEF Given
    <3> QED BY <1>1, <3>1, NotGiven
  <2>6. q.config["no_daemon"] = Enabled <=> MentionedBefore(args, c + 1)
    <3>1. CASE a = "no_daemon"
      <4>1. c \in 1 .. (Len(args) - 1) /\ c < c + 1
        BY <1>1, <1>5
      <4> QED BY <2>4, <3>1, <4>1 DEF MentionedBefore
    <3>2. CASE a # "no_daemon"
      <4>1. MentionedBefore(args, c + 1) <=> MentionedBefore(args, c)
        BY <1>1, <3>2, NotMentioned
      <4> QED BY <2>4, <3>2, <4>1 DEF HasTaken
    <3> QED BY <3>1, <3>2
  <2>7. c + 1 \in (n + 1) + 1 .. Len(args) + 1
    BY <1>1, <1>5
  <2>8. HasTaken(args, behind, n + 1, q)
    BY <2>3, <2>4, <2>5, <2>6, <2>7 DEF HasTaken
  <2> QED BY <2>2, <2>8
<1>6. CASE c < Len(args) /\ a \in Options /\ v \notin Flags
  <2>1. TakeOn(args, behind, s) = [c |-> c + 2, config |-> Assigned(s.config, a, v, behind[c])]
    BY <1>1, <1>6 DEF TakeOn, Argument
  <2>2. PICK q : q = TakeOn(args, behind, s)
    OBVIOUS
  <2>3. q.c = c + 2 /\ q.config = Assigned(s.config, a, v, behind[c])
    BY <2>1, <2>2
  <2>4. v # NoValue
    <3>1. c + 1 \in 1 .. Len(args)
      BY <1>1, <1>6
    <3>2. v \in Flags \cup Values
      BY <3>1, ElementOfSeq
    <3> QED BY <1>2, <1>6, <3>2
  <2>5. /\ DOMAIN q.config = Options
        /\ \A o \in Options \ {"no_daemon"} :
             q.config[o] = IF o = a /\ v # Empty THEN <<v, behind[c]>> ELSE s.config[o]
        /\ q.config["no_daemon"] = IF a = "no_daemon" THEN Enabled ELSE s.config["no_daemon"]
    BY <1>2, <1>6, <2>3, <2>4 DEF Assigned, HasTaken
  <2>6. PICK d \in Nat : d = c + 1
    BY <1>1
  <2>7. c + 2 = d + 1
    BY <1>1, <2>6
  <2>8. ASSUME NEW o \in Options PROVE ArguedBefore(args, o, behind, d + 1) = ArguedBefore(args, o, behind, d)
    <3>1. d \notin Given(args, o)
      BY <1>2, <1>6, <2>6 DEF Given
    <3> QED BY <1>1, <3>1, NotGiven
  <2>9. ASSUME NEW o \in Options
        PROVE  ArguedBefore(args, o, behind, d) =
                 IF o = a /\ v # Empty THEN <<v, behind[c]>> ELSE ArguedBefore(args, o, behind, c)
    <3>1. CASE o = a /\ v # Empty
      <4>1. c \in Given(args, o)
        BY <1>1, <1>6, <3>1 DEF Given
      <4> QED BY <1>1, <2>6, <3>1, <4>1, GivenNow
    <3>2. CASE o # a \/ v = Empty
      <4>1. c \notin Given(args, o)
        BY <3>2 DEF Given
      <4> QED BY <1>1, <2>6, <3>2, <4>1, NotGiven
    <3> QED BY <3>1, <3>2
  <2>10. q.config["no_daemon"] = Enabled <=> MentionedBefore(args, d)
    <3>1. CASE a = "no_daemon"
      <4>1. c \in 1 .. (Len(args) - 1) /\ c < d
        BY <1>1, <1>6, <2>6
      <4> QED BY <2>5, <3>1, <4>1 DEF MentionedBefore
    <3>2. CASE a # "no_daemon"
      <4>1. MentionedBefore(args, d) <=> MentionedBefore(args, c)
        BY <1>1, <2>6, <3>2, NotMentioned
      <4> QED BY <2>5, <3>2, <4>1 DEF HasTaken
    <3> QED BY <3>1, <3>2
  <2>11. MentionedBefore(args, d + 1) <=> MentionedBefore(args, d)
    <3>1. args[d] # "no_daemon"
      BY <1>2, <1>6, <2>6
    <3> QED BY <1>1, <3>1, NotMentioned
  <2>12. d + 1 \in (n + 1) + 1 .. Len(args) + 1
    BY <1>1, <1>6, <2>6
  <2>13. \A o \in Options \ {"no_daemon"} : q.config[o] = ArguedBefore(args, o, behind, d + 1)
    BY <2>5, <2>8, <2>9 DEF HasTaken
  <2>14. HasTaken(args, behind, n + 1, q)
    BY SMTT(60), <2>3, <2>5, <2>7, <2>10, <2>11, <2>12, <2>13 DEF HasTaken
  <2> QED BY <2>2, <2>14
<1> QED BY <1>1, <1>3, <1>4, <1>5, <1>6

\* What _parse_args leaves in the configuration.
LEMMA ArgumentsTaken ==
  ASSUME NEW args \in Seq(Flags \cup Values), NEW behind
  PROVE  /\ DOMAIN FromArguments(args, behind) = Options
         /\ \A o \in Options \ {"no_daemon"} : FromArguments(args, behind)[o] = Argued(args, o, behind)
         /\ FromArguments(args, behind)["no_daemon"] = Enabled <=>
              \E i \in 1 .. (Len(args) - 1) : args[i] = "no_daemon"
<1> DEFINE N == Len(args)
           B == {n \in 0 .. N : ~HasTaken(args, behind, n, ArgumentRounds(args, behind)[n])}
<1>1. N \in Nat
  BY LenProperties
<1>2. HasTaken(args, behind, 0, NothingTaken)
  <2>1. /\ NothingTaken.c = 1 /\ NothingTaken.config = Defaults /\ DOMAIN Defaults = Options
        /\ \A o \in Options : Defaults[o] = Unset
    BY DEF NothingTaken, Defaults
  <2>2. "no_daemon" \in Options /\ Unset # Enabled /\ 1 \in 0 + 1 .. Len(args) + 1
    <3>1. Unset # Enabled
      BY DEF Unset, Enabled
    <3> QED BY <1>1, <3>1 DEF Options
  <2>3. ~MentionedBefore(args, 1)
    BY <1>1 DEF MentionedBefore
  <2>4. ASSUME NEW o \in Options PROVE ArguedBefore(args, o, behind, 1) = Unset
    <3>1. GivenBefore(args, o, 1) = {}
      BY <1>1 DEF GivenBefore, Given
    <3> QED BY <3>1 DEF ArguedBefore
  <2> QED BY <2>1, <2>2, <2>3, <2>4 DEF HasTaken
<1>3. HasTaken(args, behind, N, ArgumentRounds(args, behind)[N])
  <2>1. SUFFICES ASSUME B # {} PROVE FALSE
    BY <1>1
  <2>2. PICK m \in B : \A i \in B : m <= i
    <3>1. B \in SUBSET Nat
      BY <1>1
    <3> HIDE DEF B
    <3> QED BY <2>1, <3>1, Least
  <2>3. m # 0
    BY <1>1, <1>2, ArgumentsUnrolled
  <2>4. m - 1 \in 0 .. N /\ ~(m <= m - 1) /\ (m - 1) + 1 = m /\ m \in 1 .. N /\ m - 1 \in 0 .. N - 1
    BY <1>1, <2>3
  <2>5. HasTaken(args, behind, m - 1, ArgumentRounds(args, behind)[m - 1])
    BY <2>2, <2>4
  <2>6. HasTaken(args, behind, (m - 1) + 1, TakeOn(args, behind, ArgumentRounds(args, behind)[m - 1]))
    BY <2>4, <2>5, TakesOne
  <2>7. ArgumentRounds(args, behind)[m] = TakeOn(args, behind, ArgumentRounds(args, behind)[m - 1])
    BY <1>1, <2>4, ArgumentsUnrolled
  <2> QED BY <2>4, <2>6, <2>7
<1>4. PICK s : s = ArgumentRounds(args, behind)[N]
  OBVIOUS
<1>5. s.c = N + 1 /\ FromArguments(args, behind) = s.config
  BY <1>1, <1>3, <1>4 DEF HasTaken, FromArguments
<1>6. ASSUME NEW o PROVE ArguedBefore(args, o, behind, N + 1) = Argued(args, o, behind)
  <2>1. GivenBefore(args, o, N + 1) = Given(args, o)
    BY <1>1 DEF GivenBefore, Given
  <2> QED BY <2>1 DEF ArguedBefore, Argued
<1>7. MentionedBefore(args, N + 1) <=> \E i \in 1 .. (N - 1) : args[i] = "no_daemon"
  BY <1>1 DEF MentionedBefore
<1> QED BY <1>3, <1>4, <1>5, <1>6, <1>7 DEF HasTaken

\* The lines up to line n that give an option a value, and that mention it.
SetBefore(lines, o, n) == {i \in 1 .. n : lines[i][1] = o /\ lines[i][2] # Empty}
NamedBefore(lines, o, n) == \E i \in 1 .. n : lines[i][1] = o
LastSet(lines, behind, o, n, otherwise) ==
  IF SetBefore(lines, o, n) = {} THEN otherwise
  ELSE <<lines[Max(SetBefore(lines, o, n))][2], behind[Max(SetBefore(lines, o, n))]>>

\* What _parse_file leaves in the configuration.
LEMMA FileTaken ==
  ASSUME NEW Texts, NoValue \notin Texts, NEW lines \in Seq(Flags \X Texts), NEW behind,
         NEW base, DOMAIN base = Options
  PROVE  LET after == LineRounds(lines, behind, base)[Len(lines)] IN
           /\ \A o \in Options \ {"no_daemon"} :
                after[o] = LastSet(lines, behind, o, Len(lines), base[o])
           /\ after["no_daemon"] = Enabled <=>
                base["no_daemon"] = Enabled \/ NamedBefore(lines, "no_daemon", Len(lines))
<1> DEFINE N == Len(lines)
           Good(n, s) ==
             /\ DOMAIN s = Options
             /\ \A o \in Options \ {"no_daemon"} : s[o] = LastSet(lines, behind, o, n, base[o])
             /\ s["no_daemon"] = Enabled <=>
                  base["no_daemon"] = Enabled \/ NamedBefore(lines, "no_daemon", n)
           B == {n \in 0 .. N : ~Good(n, LineRounds(lines, behind, base)[n])}
<1>1. N \in Nat
  BY LenProperties
<1>2. Good(0, base)
  <2>1. \A o : SetBefore(lines, o, 0) = {} /\ ~NamedBefore(lines, o, 0)
    BY DEF SetBefore, NamedBefore
  <2> QED BY <2>1 DEF LastSet
<1>3. ASSUME NEW n \in 1 .. N, NEW s, Good(n - 1, s)
      PROVE  Good(n, Assigned(s, lines[n][1], lines[n][2], behind[n]))
  <2> DEFINE k == lines[n][1]
             v == lines[n][2]
             q == Assigned(s, k, v, behind[n])
  <2>1. k \in Flags /\ v \in Texts /\ v # NoValue /\ n \in Nat /\ "no_daemon" \in Options
    BY <1>1, ElementOfSeq DEF Options
  <2>2. /\ DOMAIN q = Options
        /\ \A o \in Options \ {"no_daemon"} :
             q[o] = IF o = k /\ v # Empty THEN <<v, behind[n]>> ELSE s[o]
        /\ q["no_daemon"] = IF k = "no_daemon" THEN Enabled ELSE s["no_daemon"]
    BY <1>3, <2>1 DEF Assigned
  <2>3. ASSUME NEW o, o # k \/ v = Empty PROVE SetBefore(lines, o, n) = SetBefore(lines, o, n - 1)
    BY <2>1, <2>3 DEF SetBefore
  <2>4. ASSUME v # Empty PROVE LastSet(lines, behind, k, n, base[k]) = <<v, behind[n]>>
    <3> DEFINE I == SetBefore(lines, k, n)
    <3>1. I \in SUBSET Nat /\ n \in I /\ \A i \in I : i <= n
      BY <2>1, <2>4 DEF SetBefore
    <3>2. Max(I) = n
      <4> HIDE DEF I
      <4> QED BY <3>1, MaxIs
    <3> QED BY <3>1, <3>2 DEF LastSet
  <2>5. NamedBefore(lines, "no_daemon", n) <=>
          NamedBefore(lines, "no_daemon", n - 1) \/ k = "no_daemon"
    <3>1. \A i \in 1 .. n : i \in 1 .. (n - 1) \/ i = n
      BY <2>1
    <3>2. n \in 1 .. n /\ \A i \in 1 .. (n - 1) : i \in 1 .. n
      BY <2>1
    <3> QED BY <3>1, <3>2 DEF NamedBefore
  <2> HIDE DEF k, v, q
  <2>6. ASSUME NEW o \in Options \ {"no_daemon"}
        PROVE  q[o] = LastSet(lines, behind, o, n, base[o])
    <3>1. CASE o = k /\ v # Empty
      BY <2>2, <2>4, <3>1
    <3>2. CASE o # k \/ v = Empty
      BY <1>3, <2>2, <2>3, <3>2 DEF LastSet
    <3> QED BY <3>1, <3>2
  <2>7. q["no_daemon"] = Enabled <=>
          base["no_daemon"] = Enabled \/ NamedBefore(lines, "no_daemon", n)
    BY <1>3, <2>2, <2>5
  <2> QED BY <2>2, <2>6, <2>7 DEF q, k, v
<1> HIDE DEF Good
<1>4. Good(N, LineRounds(lines, behind, base)[N])
  <2>1. SUFFICES ASSUME B # {} PROVE FALSE
    BY <1>1
  <2>2. PICK m \in B : \A i \in B : m <= i
    <3>1. B \in SUBSET Nat
      BY <1>1
    <3> HIDE DEF B
    <3> QED BY <2>1, <3>1, Least
  <2>3. m # 0
    BY <1>1, <1>2, LinesUnrolled
  <2>4. m - 1 \in 0 .. N /\ ~(m <= m - 1) /\ m \in 1 .. N
    BY <1>1, <2>3
  <2>5. Good(m - 1, LineRounds(lines, behind, base)[m - 1])
    BY <2>2, <2>4
  <2>6. Good(m, LineRounds(lines, behind, base)[m])
    BY <1>1, <1>3, <2>4, <2>5, LinesUnrolled
  <2> QED BY <2>6
<1> QED BY <1>4 DEF Good

(* _parse_args and _parse_file take every option that is given with a value, *)
(* the last one of the file or else of the arguments, with whatever bytes    *)
(* are behind it in memory (config.c, 76, copies no zero byte): whatever the *)
(* arguments, the lines of the files and these bytes are.                    *)
THEOREM OptionsFollowed ==
  ASSUME NEW args \in Seq(Flags \cup Values), NEW heap, NEW Texts, NoValue \notin Texts,
         NEW file, \A name \in DOMAIN file : file[name] \in Seq(Flags \X Texts)
  PROVE  Followed(args, file, heap)
<1> DEFINE base == FromArguments(args, heap.args)
           named == Argued(args, "config_file", heap.args)
           lines == LinesOf(file, named)
           made == Configured(args, file, heap)
<1>1. /\ DOMAIN base = Options
      /\ \A o \in Options \ {"no_daemon"} : base[o] = Argued(args, o, heap.args)
      /\ base["no_daemon"] = Enabled <=> \E i \in 1 .. (Len(args) - 1) : args[i] = "no_daemon"
  BY ArgumentsTaken
<1> HIDE DEF base
<1>2. "config_file" \in Options \ {"no_daemon"} /\ "no_daemon" \in Options
  BY DEF Options
<1>3. made = LineRounds(lines, heap.lines, base)[Len(lines)]
  <2>1. base.config_file = named
    BY <1>1, <1>2
  <2> HIDE DEF named
  <2> QED BY <2>1 DEF Configured, FromFile, base
<1> HIDE DEF named
<1>4. lines \in Seq(Flags \X Texts)
  <2>1. <<>> \in Seq(Flags \X Texts)
    BY EmptySeq
  <2> QED BY <2>1 DEF LinesOf
<1>5. DOMAIN lines = 1 .. Len(lines)
  BY <1>4, LenProperties
<1> HIDE DEF lines, made
<1>6. /\ \A o \in Options \ {"no_daemon"} :
           made[o] = LastSet(lines, heap.lines, o, Len(lines), base[o])
      /\ made["no_daemon"] = Enabled <=>
           base["no_daemon"] = Enabled \/ NamedBefore(lines, "no_daemon", Len(lines))
  BY <1>1, <1>3, <1>4, FileTaken
<1>7. \A o : SetBefore(lines, o, Len(lines)) = Set(lines, o)
  BY <1>5 DEF SetBefore, Set
<1>8. ASSUME NEW o \in Options \ {"no_daemon"}
      PROVE  made[o] = IF Set(lines, o) = {} THEN Argued(args, o, heap.args)
                       ELSE <<lines[Max(Set(lines, o))][2], heap.lines[Max(Set(lines, o))]>>
  BY <1>1, <1>6, <1>7 DEF LastSet
<1>9. made.no_daemon = Enabled <=>
        \/ \E i \in DOMAIN lines : lines[i][1] = "no_daemon"
        \/ \E i \in 1 .. (Len(args) - 1) : args[i] = "no_daemon"
  <2>1. made.no_daemon = made["no_daemon"]
    OBVIOUS
  <2> QED BY <1>1, <1>5, <1>6, <2>1 DEF NamedBefore
<1> QED BY ZenonT(60), <1>8, <1>9 DEF Followed, named, lines, made

-----------------------------------------------------------------------------
(* The lines of the file *)

\* The places of the characters that are not of a kind.
Firm(C, s) == {i \in 1 .. Len(s) : s[i] \notin C}

\* All characters before the first and after the last of another kind are of the kind.
LEMMA FirmEnds ==
  ASSUME NEW T, NEW s \in Seq(T), NEW C, Firm(C, s) # {}
  PROVE  /\ Min(Firm(C, s)) \in 1 .. Len(s) /\ Max(Firm(C, s)) \in 1 .. Len(s)
         /\ Min(Firm(C, s)) \in Nat /\ Max(Firm(C, s)) \in Nat
         /\ Min(Firm(C, s)) <= Max(Firm(C, s))
         /\ s[Min(Firm(C, s))] \notin C /\ s[Max(Firm(C, s))] \notin C
         /\ \A i \in 1 .. Len(s) : i < Min(Firm(C, s)) \/ i > Max(Firm(C, s)) => s[i] \in C
<1> DEFINE I == Firm(C, s)
<1>1. Len(s) \in Nat /\ I \in SUBSET (1 .. Len(s)) /\ \A i \in I : s[i] \notin C
  BY LenProperties DEF Firm
<1>2. \A i \in 1 .. Len(s) : s[i] \in C \/ i \in I
  BY DEF Firm
<1> HIDE DEF I
<1>3. I # {}
  BY DEF I
<1>4. /\ Min(I) \in I /\ \A i \in I : Min(I) <= i
      /\ Max(I) \in I /\ \A i \in I : i <= Max(I)
  BY <1>1, <1>3, FirstPlace, LastPlace
<1>5. Min(I) \in 1 .. Len(s) /\ Max(I) \in 1 .. Len(s)
  BY <1>1, <1>4
<1>6. ASSUME NEW i \in 1 .. Len(s), i < Min(I) \/ i > Max(I) PROVE s[i] \in C
  <2>1. i \notin I
    BY <1>1, <1>4, <1>5, <1>6
  <2> QED BY <1>2, <2>1
<1> QED BY <1>1, <1>4, <1>5, <1>6 DEF I

\* And _trim does it for one character, unless there is no other.
LEMMA TrimmedIs ==
  ASSUME NEW T, NEW s \in Seq(T), NEW c, NEW C, C = {c}
  PROVE  Trimmed(c, s) = IF Firm(C, s) = {} THEN s
                         ELSE SubSeq(s, Min(Firm(C, s)), Max(Firm(C, s)))
<1> DEFINE first == SelectInSeq(s, LAMBDA x : x # c)
           last  == SelectLastInSeq(s, LAMBDA x : x # c)
<1>0. Firm(C, s) = {i \in 1 .. Len(s) : s[i] # c}
  BY DEF Firm
<1>1. first = IF Firm(C, s) # {} THEN Min(Firm(C, s)) ELSE 0
  BY <1>0 DEF SelectInSeq
<1>2. last = IF Firm(C, s) # {} THEN Max(Firm(C, s)) ELSE 0
  BY <1>0 DEF SelectLastInSeq
<1>3. Trimmed(c, s) = IF first = 0 THEN s ELSE SubSeq(s, first, last)
  BY DEF Trimmed
<1> HIDE DEF first, last
<1>4. ASSUME NEW D, Firm(D, s) # {} PROVE Min(Firm(D, s)) # 0
  <2>1. Len(s) \in Nat /\ Min(Firm(D, s)) \in 1 .. Len(s)
    BY <1>4, LenProperties, FirmEnds
  <2> QED BY <2>1
<1> QED BY <1>1, <1>2, <1>3, <1>4

\* Strings of one character, and without the characters of a kind.
Only(c, s) == \A i \in DOMAIN s : s[i] = c
Free(S, s) == \A i \in DOMAIN s : s[i] \notin S

\* Strings and putting them together, kept closed where only these facts are needed.
Text(T) == Seq(T)
Cat(s, t) == s \o t

\* Two strings in a row make one.
LEMMA CatText ==
  ASSUME NEW T, NEW s \in Text(T), NEW t \in Text(T)
  PROVE  Cat(s, t) \in Text(T)
BY ConcatProperties DEF Text, Cat

\* It does not matter which of three are joined first.
LEMMA CatAssociative ==
  ASSUME NEW T, NEW s \in Text(T), NEW t \in Text(T), NEW u \in Text(T)
  PROVE  Cat(Cat(s, t), u) = Cat(s, Cat(t, u))
BY SMTT(60), ConcatAssociative DEF Text, Cat

\* The empty string adds nothing, nor does it have any character.
LEMMA CatEmpty ==
  ASSUME NEW T, NEW s \in Text(T)
  PROVE  /\ Cat(s, <<>>) = s /\ Cat(<<>>, s) = s
         /\ <<>> \in Text(T) /\ \A c, d : Only(c, <<>>) /\ Runs(c, d, <<>>)
<1>1. <<>> \in Seq(T) /\ Len(<<>>) = 0 /\ DOMAIN <<>> = 1 .. 0
  OBVIOUS
<1>2. 0 \in 0 .. Len(<<>>)
  BY <1>1
<1>3. \A c, d : Only(c, <<>>) /\ Runs(c, d, <<>>)
  BY <1>1, <1>2 DEF Only, Runs
<1>4. s \o <<>> = s /\ <<>> \o s = s
  BY ConcatEmptySeq DEF Text
<1> QED BY <1>1, <1>3, <1>4 DEF Text, Cat

\* The ends of a string that is not empty are in it.
LEMMA TextEnds ==
  ASSUME NEW T, NEW s \in Text(T), s # <<>>
  PROVE  1 \in DOMAIN s /\ Len(s) \in DOMAIN s
<1>1. Len(s) \in Nat \ {0} /\ DOMAIN s = 1 .. Len(s)
  BY EmptySeq, LenProperties DEF Text
<1> QED BY <1>1

\* Where two strings are put together, and how it ends.
LEMMA Joined ==
  ASSUME NEW T, NEW s \in Text(T), NEW t \in Text(T)
  PROVE  /\ Cat(s, t) \in Text(T)
         /\ Cat(s, t) = <<>> => s = <<>> /\ t = <<>>
         /\ s # <<>> => s[1] \in T /\ Cat(s, t)[1] = s[1]
         /\ s = <<>> /\ t # <<>> => Cat(s, t)[1] = t[1]
         /\ t # <<>> => Cat(s, t)[Len(Cat(s, t))] = t[Len(t)]
         /\ t = <<>> /\ s # <<>> => Cat(s, t)[Len(Cat(s, t))] = s[Len(s)]
<1> USE DEF Text, Cat
<1>1. Len(s) \in Nat /\ Len(t) \in Nat
  BY LenProperties
<1>2. /\ s \o t \in Seq(T) /\ Len(s \o t) = Len(s) + Len(t)
      /\ \A i \in 1 .. Len(s) + Len(t) : (s \o t)[i] = IF i <= Len(s) THEN s[i] ELSE t[i - Len(s)]
  BY ConcatProperties
<1>3. /\ s # <<>> => Len(s) >= 1
      /\ t # <<>> => Len(t) >= 1
  BY <1>1, EmptySeq
<1>4. s \o t = <<>> => s = <<>> /\ t = <<>>
  BY ConcatEqualIffEmpty
<1>5. ASSUME s # <<>> PROVE s[1] \in T /\ (s \o t)[1] = s[1]
  <2>1. 1 \in 1 .. Len(s) /\ 1 \in 1 .. Len(s) + Len(t) /\ 1 <= Len(s)
    BY <1>1, <1>3, <1>5
  <2> QED BY <1>2, <2>1, ElementOfSeq
<1>6. s = <<>> => s \o t = t
  BY ConcatEmptySeq
<1>7. ASSUME t # <<>> PROVE (s \o t)[Len(s \o t)] = t[Len(t)]
  <2>1. /\ Len(s) + Len(t) \in 1 .. Len(s) + Len(t) /\ ~(Len(s) + Len(t) <= Len(s))
        /\ Len(s) + Len(t) - Len(s) = Len(t)
    BY <1>1, <1>3, <1>7
  <2> QED BY <1>2, <2>1
<1>8. t = <<>> => s \o t = s
  BY ConcatEmptySeq
<1> QED BY <1>2, <1>4, <1>5, <1>6, <1>7, <1>8

\* A part of a string, told by its characters.
LEMMA SubSeqFrom ==
  ASSUME NEW T, NEW s, NEW t \in Seq(T), NEW n \in Nat, \A i \in 1 .. Len(t) : s[n + i] = t[i]
  PROVE  SubSeq(s, n + 1, n + Len(t)) = t
<1>1. PICK k, u : k = Len(t) /\ u = SubSeq(s, n + 1, n + k)
  OBVIOUS
<1>2. k \in Nat /\ n + 1 \in Int /\ n + k \in Int
  BY <1>1, LenProperties
<1>3. ASSUME NEW i \in n + 1 .. n + k PROVE s[i] \in T
  <2>1. i - n \in 1 .. k /\ n + (i - n) = i
    BY <1>2
  <2>2. s[i] = t[i - n]
    BY <1>1, <2>1
  <2> QED BY <1>1, <2>1, <2>2, ElementOfSeq
<1>4. /\ u \in Seq(T)
      /\ Len(u) = IF n + 1 <= n + k THEN (n + k) - (n + 1) + 1 ELSE 0
      /\ \A i \in 1 .. (n + k) - (n + 1) + 1 : u[i] = s[(n + 1) + i - 1]
  BY <1>1, <1>2, <1>3, SubSeqProperties
<1>5. Len(u) = k
  <2>1. (n + 1 <= n + k <=> 1 <= k) /\ (n + k) - (n + 1) + 1 = k
    BY <1>2
  <2>2. ~(1 <= k) => k = 0
    BY <1>2
  <2> QED BY <1>4, <2>1, <2>2
<1>6. ASSUME NEW i \in 1 .. k PROVE u[i] = t[i]
  <2>1. i \in 1 .. (n + k) - (n + 1) + 1 /\ (n + 1) + i - 1 = n + i
    BY SMTT(60), <1>2
  <2>2. u[i] = s[(n + 1) + i - 1]
    BY <1>4, <2>1
  <2> QED BY <1>1, <2>1, <2>2
<1> QED BY <1>1, <1>4, <1>5, <1>6, SeqEqual

\* At its beginning.
LEMMA SubSeqIs ==
  ASSUME NEW T, NEW s, NEW t \in Seq(T), \A i \in 1 .. Len(t) : s[i] = t[i]
  PROVE  SubSeq(s, 1, Len(t)) = t
<1>1. Len(t) \in Nat
  BY LenProperties
<1>2. \A i \in 1 .. Len(t) : s[0 + i] = t[i]
  OBVIOUS
<1>3. SubSeq(s, 0 + 1, 0 + Len(t)) = t
  BY <1>2, SubSeqFrom
<1>4. 0 + Len(t) = Len(t)
  BY <1>1
<1> QED BY <1>3, <1>4

\* _trim takes away what stands around a string that neither begins nor ends with
\* the character.
LEMMA TrimAround ==
  ASSUME NEW T, NEW a \in Text(T), NEW m \in Text(T), NEW b \in Text(T), NEW c,
         Only(c, a), Only(c, b), Bounded({c}, m)
  PROVE  Trimmed(c, Cat(Cat(a, m), b)) = m
<1> USE DEF Text, Cat
<1>1. PICK s, t : s = a \o m /\ t = s \o b
  OBVIOUS
<1>2. PICK j, k, l : j = Len(a) /\ k = Len(m) /\ l = Len(b)
  OBVIOUS
<1>3. /\ j \in Nat /\ k \in Nat /\ l \in Nat /\ k >= 1
      /\ \A i \in 1 .. j : a[i] = c
      /\ \A i \in 1 .. l : b[i] = c
      /\ m[1] # c /\ m[k] # c
  BY SMTT(60), <1>2, LenProperties, EmptySeq DEF Bounded, Only
<1>4. /\ s \in Seq(T) /\ Len(s) = j + k
      /\ \A i \in 1 .. j + k : s[i] = IF i <= j THEN a[i] ELSE m[i - j]
  BY <1>1, <1>2, ConcatProperties
<1>5. /\ t \in Seq(T) /\ Len(t) = j + k + l
      /\ \A i \in 1 .. j + k + l : t[i] = IF i <= j + k THEN s[i] ELSE b[i - (j + k)]
  BY <1>1, <1>2, <1>3, <1>4, ConcatProperties
<1>6. ASSUME NEW i \in 1 .. j PROVE t[i] = c
  <2>1. i \in 1 .. j + k /\ i \in 1 .. j + k + l /\ i <= j /\ i <= j + k
    BY <1>3
  <2> QED BY <1>3, <1>4, <1>5, <2>1
<1>7. ASSUME NEW i \in 1 .. k PROVE t[j + i] = m[i]
  <2>1. PICK n \in Nat : n = j + i
    BY <1>3
  <2>2. /\ n \in 1 .. j + k /\ n \in 1 .. j + k + l /\ ~(n <= j)
        /\ n <= j + k /\ n - j = i
    BY <1>3, <2>1
  <2>3. t[n] = s[n]
    BY <1>5, <2>2
  <2>4. s[n] = m[i]
    BY <1>4, <2>2
  <2> QED BY <2>1, <2>3, <2>4
<1>8. ASSUME NEW i \in (j + k) + 1 .. j + k + l PROVE t[i] = c
  <2>1. i \in 1 .. j + k + l /\ ~(i <= j + k) /\ i - (j + k) \in 1 .. l
    BY <1>3
  <2> QED BY <1>3, <1>5, <2>1
<1>9. PICK C : C = {c}
  OBVIOUS
<1>10. j + 1 \in Firm(C, t) /\ j + k \in Firm(C, t)
  <2>1. 1 \in 1 .. k /\ k \in 1 .. k /\ j + 1 \in 1 .. j + k + l /\ j + k \in 1 .. j + k + l
    BY <1>3
  <2>2. t[j + 1] = m[1] /\ t[j + k] = m[k]
    BY <1>7, <2>1
  <2> QED BY <1>3, <1>5, <1>9, <2>1, <2>2 DEF Firm
<1>11. \A i \in Firm(C, t) : j + 1 <= i /\ i <= j + k
  <2> SUFFICES ASSUME NEW i \in Firm(C, t) PROVE j + 1 <= i /\ i <= j + k
    OBVIOUS
  <2>1. i \in 1 .. j + k + l /\ t[i] # c
    BY <1>5, <1>9 DEF Firm
  <2>2. i \notin 1 .. j /\ i \notin (j + k) + 1 .. j + k + l
    BY <1>6, <1>8, <2>1
  <2> QED BY <1>3, <2>1, <2>2
<1>12. PICK x, y : x = Min(Firm(C, t)) /\ y = Max(Firm(C, t))
  OBVIOUS
<1>13. x \in Firm(C, t) /\ y \in Firm(C, t)
       /\ \A i \in Firm(C, t) : x <= i /\ i <= y
  <2> DEFINE I == Firm(C, t)
  <2>1. Len(t) \in Nat /\ I \in SUBSET (1 .. Len(t))
    BY <1>5, LenProperties DEF Firm
  <2>2. I # {}
    BY <1>10
  <2> HIDE DEF I
  <2>3. /\ Min(I) \in I /\ \A i \in I : Min(I) <= i
        /\ Max(I) \in I /\ \A i \in I : i <= Max(I)
    BY <2>1, <2>2, FirstPlace, LastPlace
  <2> QED BY <1>12, <2>3 DEF I
<1>14. x = j + 1 /\ y = j + k
  <2>1. x \in Nat /\ y \in Nat
    BY <1>3, <1>13 DEF Firm
  <2>2. x <= j + 1 /\ j + 1 <= x /\ j + k <= y /\ y <= j + k
    BY <1>10, <1>11, <1>13
  <2> QED BY <1>3, <2>1, <2>2
<1>15. Trimmed(c, t) = SubSeq(t, x, y)
  BY <1>5, <1>9, <1>10, <1>12, TrimmedIs
<1>16. SubSeq(t, x, y) = m
  <2>1. PICK u : u = SubSeq(t, x, y)
    OBVIOUS
  <2>2. \A i \in x .. y : t[i] \in T
    <3>1. \A i \in x .. y : i \in 1 .. Len(t)
      BY <1>3, <1>5, <1>14
    <3> QED BY <1>5, <3>1, ElementOfSeq
  <2>3. x \in Int /\ y \in Int /\ x <= y /\ y - x + 1 = k
    BY <1>3, <1>14
  <2>4. /\ u \in Seq(T) /\ Len(u) = k
        /\ \A i \in 1 .. k : u[i] = t[x + i - 1]
    BY <2>1, <2>2, <2>3, SubSeqProperties
  <2>5. ASSUME NEW i \in 1 .. k PROVE u[i] = m[i]
    <3>1. x + i - 1 = j + i
      BY <1>3, <1>14
    <3> QED BY <1>7, <2>4, <3>1
  <2> QED BY <1>2, <2>1, <2>4, <2>5, SeqEqual
<1> QED BY <1>1, <1>15, <1>16

\* The same at one end, or at none.
LEMMA TrimFront ==
  ASSUME NEW T, NEW a \in Text(T), NEW m \in Text(T), NEW c,
         Only(c, a), Bounded({c}, m)
  PROVE  Trimmed(c, Cat(a, m)) = m
<1>1. Only(c, <<>>) /\ <<>> \in Text(T)
  BY CatEmpty
<1>2. Trimmed(c, Cat(Cat(a, m), <<>>)) = m
  BY <1>1, TrimAround
<1>3. Cat(a, m) \in Text(T)
  BY CatText
<1>4. Cat(Cat(a, m), <<>>) = Cat(a, m)
  BY <1>3, CatEmpty
<1> QED BY <1>2, <1>4

\* At the end.
LEMMA TrimBack ==
  ASSUME NEW T, NEW m \in Text(T), NEW b \in Text(T), NEW c,
         Only(c, b), Bounded({c}, m)
  PROVE  Trimmed(c, Cat(m, b)) = m
<1>1. Only(c, <<>>) /\ <<>> \in Text(T) /\ Cat(<<>>, m) = m
  BY CatEmpty
<1>2. Trimmed(c, Cat(Cat(<<>>, m), b)) = m
  BY <1>1, TrimAround
<1> QED BY <1>1, <1>2

\* Nowhere.
LEMMA TrimNothing ==
  ASSUME NEW T, NEW m \in Text(T), NEW c, Bounded({c}, m)
  PROVE  Trimmed(c, m) = m
<1>1. Only(c, <<>>) /\ <<>> \in Text(T) /\ Cat(m, <<>>) = m
  BY CatEmpty
<1>2. Trimmed(c, Cat(m, <<>>)) = m
  BY <1>1, TrimBack
<1> QED BY <1>1, <1>2

\* A string of one character and then of another is the two of them in a row.
LEMMA RunsSplit ==
  ASSUME NEW T, NEW s \in Text(T), NEW c, NEW d, Runs(c, d, s)
  PROVE  \E x, y \in Text(T) : s = Cat(x, y) /\ Only(c, x) /\ Only(d, y)
<1> USE DEF Text, Cat
<1>1. PICK n \in 0 .. Len(s) : \A i \in DOMAIN s : s[i] = IF i <= n THEN c ELSE d
  BY DEF Runs
<1>2. Len(s) \in Nat /\ DOMAIN s = 1 .. Len(s) /\ n \in Nat /\ n <= Len(s)
  BY LenProperties
<1>3. PICK x, y : x = SubSeq(s, 1, n) /\ y = SubSeq(s, n + 1, Len(s))
  OBVIOUS
<1>4. \A i \in 1 .. Len(s) : s[i] \in T
  BY ElementOfSeq
<1>5. /\ x \in Seq(T) /\ Len(x) = n
      /\ \A i \in 1 .. n : x[i] = s[i]
  <2>1. (\A i \in 1 .. n : s[i] \in T) /\ n - 1 + 1 = n /\ 1 \in Int /\ n \in Int
    BY <1>2, <1>4
  <2>2. /\ SubSeq(s, 1, n) \in Seq(T)
        /\ Len(SubSeq(s, 1, n)) = IF 1 <= n THEN n - 1 + 1 ELSE 0
        /\ \A i \in 1 .. n - 1 + 1 : SubSeq(s, 1, n)[i] = s[1 + i - 1]
    BY <2>1, SubSeqProperties
  <2>3. \A i \in 1 .. n : 1 + i - 1 = i
    OBVIOUS
  <2> QED BY <1>2, <1>3, <2>1, <2>2, <2>3
<1>6. /\ y \in Seq(T) /\ Len(y) = Len(s) - n
      /\ \A i \in 1 .. Len(s) - n : y[i] = s[n + i]
  <2>1. (\A i \in n + 1 .. Len(s) : s[i] \in T) /\ n + 1 \in Int /\ Len(s) \in Int
    BY <1>2, <1>4
  <2>2. /\ SubSeq(s, n + 1, Len(s)) \in Seq(T)
        /\ Len(SubSeq(s, n + 1, Len(s))) = IF n + 1 <= Len(s) THEN Len(s) - (n + 1) + 1 ELSE 0
        /\ \A i \in 1 .. Len(s) - (n + 1) + 1 :
             SubSeq(s, n + 1, Len(s))[i] = s[(n + 1) + i - 1]
    BY <2>1, SubSeqProperties
  <2>3. /\ Len(s) - (n + 1) + 1 = Len(s) - n
        /\ \A i \in 1 .. Len(s) - n : (n + 1) + i - 1 = n + i
    BY SMTT(60), <1>2
  <2>4. (n + 1 <= Len(s) => Len(y) = Len(s) - n) /\ (~(n + 1 <= Len(s)) => Len(y) = 0)
    BY ZenonT(60), <1>3, <2>2, <2>3
  <2>5. Len(y) = Len(s) - n
    <3>1. CASE n + 1 <= Len(s)
      BY <2>4, <3>1
    <3>2. CASE ~(n + 1 <= Len(s))
      <4>1. \A l, k \in Nat : k <= l /\ ~(k + 1 <= l) => l - k = 0
        BY SMTT(60)
      <4>2. Len(s) - n = 0
        BY <1>2, <3>2, <4>1
      <4> QED BY <2>4, <3>2, <4>2
    <3> QED BY <3>1, <3>2
  <2>6. ASSUME NEW i \in 1 .. Len(s) - n PROVE y[i] = s[n + i]
    <3>1. i \in 1 .. Len(s) - (n + 1) + 1 /\ (n + 1) + i - 1 = n + i
      BY <2>3
    <3>2. y[i] = s[(n + 1) + i - 1]
      BY <1>3, <2>2, <3>1
    <3> QED BY <3>1, <3>2
  <2> QED BY <1>3, <2>2, <2>5, <2>6
<1>7. s = x \o y
  <2>1. /\ x \o y \in Seq(T) /\ Len(x \o y) = Len(x) + Len(y)
        /\ \A i \in 1 .. Len(x) + Len(y) : (x \o y)[i] = IF i <= Len(x) THEN x[i] ELSE y[i - Len(x)]
    BY ZenonT(60), <1>5, <1>6, ConcatProperties
  <2>2. Len(x \o y) = Len(s)
    BY <1>2, <1>5, <1>6, <2>1
  <2>3. ASSUME NEW i \in 1 .. Len(s) PROVE s[i] = (x \o y)[i]
    <3>1. (x \o y)[i] = IF i <= n THEN x[i] ELSE y[i - n]
      BY <1>2, <1>5, <1>6, <2>1
    <3>2. i <= n => i \in 1 .. n
      OBVIOUS
    <3>3. ~(i <= n) => i - n \in 1 .. Len(s) - n /\ n + (i - n) = i
      BY <1>2
    <3> QED BY <1>5, <1>6, <3>1, <3>2, <3>3
  <2> QED BY <2>1, <2>2, <2>3, SeqEqual
<1>8. ASSUME NEW i \in DOMAIN x PROVE x[i] = c
  <2>1. i \in 1 .. n /\ i \in 1 .. Len(s) /\ i <= n
    BY <1>2, <1>5, LenProperties
  <2> QED BY <1>1, <1>2, <1>5, <2>1
<1>9. ASSUME NEW i \in DOMAIN y PROVE y[i] = d
  <2>1. i \in 1 .. Len(s) - n /\ n + i \in 1 .. Len(s) /\ ~(n + i <= n)
    <3>1. i \in 1 .. Len(s) - n
      BY <1>6, LenProperties
    <3> QED BY <1>2, <3>1
  <2> QED BY <1>1, <1>2, <1>6, <2>1
<1> QED BY <1>5, <1>6, <1>7, <1>8, <1>9 DEF Only

\* What stands around keeps a string bounded if it is of no such kind itself.
LEMMA StillBounded ==
  ASSUME NEW T, NEW a \in Text(T), NEW m \in Text(T), NEW b \in Text(T), NEW S,
         Free(S, a), Free(S, b), Bounded(S, m)
  PROVE  Bounded(S, Cat(Cat(a, m), b))
<1>1. m # <<>> /\ m[1] \notin S /\ m[Len(m)] \notin S
  BY DEF Bounded
<1>2. PICK s : s = Cat(a, m)
  OBVIOUS
<1>3. ASSUME NEW t \in Text(T), t # <<>>, Free(S, t)
      PROVE  t[1] \notin S /\ t[Len(t)] \notin S
  BY <1>3, TextEnds DEF Free
<1>4. s \in Text(T) /\ s # <<>> /\ s[1] \notin S /\ s[Len(s)] \notin S
  <2>1. s \in Text(T) /\ s # <<>> /\ s[Len(s)] = m[Len(m)]
    BY <1>1, <1>2, Joined
  <2>2. CASE a = <<>>
    BY <1>1, <1>2, <2>1, <2>2, Joined
  <2>3. CASE a # <<>>
    BY <1>1, <1>2, <1>3, <2>1, <2>3, Joined
  <2> QED BY <2>1, <2>2, <2>3, <1>1
<1>5. Cat(s, b) # <<>> /\ Cat(s, b)[1] = s[1]
  BY <1>4, Joined
<1>6. Cat(s, b)[Len(Cat(s, b))] \notin S
  <2>1. CASE b = <<>>
    BY <1>4, <2>1, Joined
  <2>2. CASE b # <<>>
    BY <1>3, <1>4, <2>2, Joined
  <2> QED BY <2>1, <2>2
<1> QED BY <1>2, <1>4, <1>5, <1>6 DEF Bounded

\* Two characters are taken away one after the other, the outer one first.
LEMMA TwoTrims ==
  ASSUME NEW T, NEW a \in Text(T), NEW m \in Text(T), NEW b \in Text(T), NEW c, NEW d, c # d,
         Runs(c, d, a), Runs(d, c, b), Bounded({c, d}, m)
  PROVE  Trimmed(d, Trimmed(c, Cat(Cat(a, m), b))) = m
<1>1. PICK x, y \in Text(T) : a = Cat(x, y) /\ Only(c, x) /\ Only(d, y)
  BY RunsSplit
<1>2. PICK u, v \in Text(T) : b = Cat(u, v) /\ Only(d, u) /\ Only(c, v)
  BY RunsSplit
<1>3. Bounded({c}, m) /\ Bounded({d}, m) /\ Free({c}, y) /\ Free({c}, u)
  BY <1>1, <1>2 DEF Bounded, Only, Free
<1>4. PICK w : w = Cat(Cat(y, m), u)
  OBVIOUS
<1>5. w \in Text(T) /\ Bounded({c}, w)
  <2>1. w \in Text(T)
    BY <1>4, CatText
  <2> QED BY <1>3, <1>4, <2>1, StillBounded
<1>6. Cat(Cat(a, m), b) = Cat(Cat(x, w), v)
  <2>1. Cat(y, m) \in Text(T) /\ Cat(x, Cat(y, m)) \in Text(T)
    BY CatText
  <2>2. Cat(a, m) = Cat(x, Cat(y, m))
    BY <1>1, CatAssociative
  <2>3. Cat(Cat(x, Cat(y, m)), b) = Cat(Cat(Cat(x, Cat(y, m)), u), v)
    BY <1>2, <2>1, CatAssociative
  <2>4. Cat(Cat(x, Cat(y, m)), u) = Cat(x, w)
    BY <1>4, <2>1, CatAssociative
  <2> QED BY <2>2, <2>3, <2>4
<1>7. Trimmed(c, Cat(Cat(x, w), v)) = w
  BY <1>1, <1>2, <1>5, TrimAround
<1>8. Trimmed(d, w) = m
  BY <1>1, <1>2, <1>3, <1>4, TrimAround
<1> QED BY <1>6, <1>7, <1>8

\* And at the end only.
LEMMA TwoTrimsBack ==
  ASSUME NEW T, NEW m \in Text(T), NEW b \in Text(T), NEW c, NEW d, c # d,
         Runs(d, c, b), Bounded({c, d}, m)
  PROVE  Trimmed(d, Trimmed(c, Cat(m, b))) = m
<1>1. Runs(c, d, <<>>) /\ <<>> \in Text(T) /\ Cat(<<>>, m) = m
  BY CatEmpty
<1>2. Trimmed(d, Trimmed(c, Cat(Cat(<<>>, m), b))) = m
  BY <1>1, TwoTrims
<1> QED BY <1>1, <1>2

\* What _parse_file looks for the "=" in: the line without the blanks before it, and
\* without those behind it if no newline protects them.
LEMMA BareIs ==
  ASSUME NEW T, "nl" \in T, NEW lead \in Text(T), NEW core \in Text(T), NEW trail \in Text(T),
         NEW end, Runs("sp", "tab", lead), Runs("tab", "sp", trail),
         Bounded({"sp", "tab", "nl"}, core), core[1] # "cr",
         end = <<"nl">> \/ (end = <<>> /\ core[Len(core)] # "cr")
  PROVE  Bare(Cat(Cat(lead, core), Cat(trail, end))) = IF end = <<>> THEN core ELSE Cat(core, trail)
<1>1. /\ core # <<>> /\ core[1] \notin {"sp", "tab", "nl", "cr"}
      /\ core[Len(core)] \notin {"sp", "tab", "nl"}
  BY DEF Bounded
<1>2. CASE end = <<>>
  <2>1. Cat(trail, end) = trail
    BY <1>2, CatEmpty
  <2>2. Bounded({"sp", "tab"}, core) /\ Bounded({"cr"}, core) /\ Bounded({"nl"}, core)
    BY <1>1, <1>2 DEF Bounded
  <2>3. Trimmed("tab", Trimmed("sp", Cat(Cat(lead, core), trail))) = core
    BY <2>2, TwoTrims
  <2>4. Trimmed("cr", core) = core /\ Trimmed("nl", core) = core
    BY <2>2, TrimNothing
  <2> QED BY <1>2, <2>1, <2>3, <2>4 DEF Bare
<1>3. CASE end = <<"nl">>
  <2>1. PICK x, y \in Text(T) : lead = Cat(x, y) /\ Only("sp", x) /\ Only("tab", y)
    BY RunsSplit
  <2>2. end \in Text(T) /\ end # <<>> /\ end[Len(end)] = "nl" /\ Only("nl", end)
    <3>1. end \in Seq(T) /\ end # <<>> /\ Len(end) = 1 /\ end[1] = "nl" /\ DOMAIN end = {1}
      BY <1>3
    <3> QED BY <3>1 DEF Text, Only
  <2>3. PICK q : q = Cat(trail, end)
    OBVIOUS
  <2>4. q \in Text(T) /\ q # <<>> /\ q[Len(q)] = "nl"
    BY <2>2, <2>3, Joined
  <2>5. PICK h : h = Cat(core, trail)
    OBVIOUS
  <2>6. h \in Text(T) /\ h # <<>> /\ h[1] = core[1] /\ h[Len(h)] # "nl"
    <3>1. h \in Text(T) /\ h # <<>> /\ h[1] = core[1]
      BY <1>1, <2>5, Joined
    <3>2. CASE trail = <<>>
      BY <1>1, <2>5, <3>2, Joined
    <3>3. CASE trail # <<>>
      <4>1. Len(trail) \in DOMAIN trail
        BY <3>3, TextEnds
      <4>2. trail[Len(trail)] # "nl"
        BY <4>1 DEF Runs
      <4> QED BY <2>5, <3>1, <3>3, <4>2, Joined
    <3> QED BY <3>1, <3>2, <3>3
  <2>7. PICK v : v = Cat(core, q)
    OBVIOUS
  <2>8. v \in Text(T) /\ v # <<>> /\ v[Len(v)] = "nl" /\ v[1] = core[1]
    BY <1>1, <2>4, <2>7, Joined
  <2>9. PICK w : w = Cat(y, v)
    OBVIOUS
  <2>10. w \in Text(T) /\ w # <<>> /\ w[Len(w)] = "nl" /\ w[1] # "sp"
    <3>1. w \in Text(T) /\ w # <<>> /\ w[Len(w)] = "nl"
      BY <2>8, <2>9, Joined
    <3>2. CASE y = <<>>
      BY <1>1, <2>8, <2>9, <3>2, Joined
    <3>3. CASE y # <<>>
      <4>1. y[1] = "tab"
        BY <2>1, <3>3, TextEnds DEF Only
      <4> QED BY <2>8, <2>9, <3>3, <4>1, Joined
    <3> QED BY <3>1, <3>2, <3>3
  <2>11. Cat(Cat(lead, core), q) = Cat(x, w)
    <3>1. Cat(lead, core) = Cat(x, Cat(y, core)) /\ Cat(y, core) \in Text(T)
      BY <2>1, CatAssociative, CatText
    <3>2. Cat(Cat(x, Cat(y, core)), q) = Cat(x, Cat(Cat(y, core), q))
      BY <2>4, <3>1, CatAssociative
    <3>3. Cat(Cat(y, core), q) = w
      BY <2>4, <2>7, <2>9, CatAssociative
    <3> QED BY <3>1, <3>2, <3>3
  <2>12. Trimmed("sp", Cat(x, w)) = w
    <3>1. Bounded({"sp"}, w)
      BY <2>10 DEF Bounded
    <3> QED BY <2>1, <2>10, <3>1, TrimFront
  <2>13. Trimmed("tab", w) = v
    <3>1. Bounded({"tab"}, v)
      BY <1>1, <2>8 DEF Bounded
    <3> QED BY <2>1, <2>8, <2>9, <3>1, TrimFront
  <2>14. Trimmed("cr", v) = v
    <3>1. Bounded({"cr"}, v)
      BY <1>1, <2>8 DEF Bounded
    <3> QED BY <2>8, <3>1, TrimNothing
  <2>15. Trimmed("nl", v) = h
    <3>1. v = Cat(h, end)
      BY <2>2, <2>3, <2>5, <2>7, CatAssociative
    <3>2. Bounded({"nl"}, h)
      BY <1>1, <2>6 DEF Bounded
    <3> QED BY <2>2, <2>6, <3>1, <3>2, TrimBack
  <2> QED BY <1>3, <2>3, <2>5, <2>11, <2>12, <2>13, <2>14, <2>15 DEF Bare
<1> QED BY <1>2, <1>3

Equals(s) == SelectInSeq(s, LAMBDA x : x = "=")

\* The first "=" and what is before and behind it.
LEMMA EqualsIs ==
  ASSUME NEW T, "=" \in T, NEW h \in Text(T), NEW rest \in Text(T),
         Free({"="}, h), NEW e, e = <<"=">>, NEW b, b = Cat(Cat(h, e), rest)
  PROVE  /\ Equals(b) # 0 /\ SubSeq(b, 1, Equals(b) - 1) = h
         /\ SubSeq(b, Equals(b) + 1, Len(b)) = rest
<1> USE DEF Text, Cat
<1> DEFINE eq == Equals(b)
           I == {i \in 1 .. Len(b) : b[i] = "="}
<1>1. PICK j, l : j = Len(h) /\ l = Len(rest)
  OBVIOUS
<1>2. PICK g : g = h \o e
  OBVIOUS
<1>3. e \in Seq(T) /\ Len(e) = 1 /\ e[1] = "="
  OBVIOUS
<1>4. j \in Nat /\ l \in Nat /\ DOMAIN h = 1 .. j /\ \A i \in 1 .. j : h[i] # "="
  BY <1>1, LenProperties DEF Free
<1>5. /\ g \in Seq(T) /\ Len(g) = j + 1
      /\ \A i \in 1 .. j + 1 : g[i] = IF i <= j THEN h[i] ELSE e[i - j]
  BY <1>1, <1>2, <1>3, ConcatProperties
<1>6. /\ b \in Seq(T) /\ Len(b) = (j + 1) + l
      /\ \A i \in 1 .. (j + 1) + l : b[i] = IF i <= j + 1 THEN g[i] ELSE rest[i - (j + 1)]
  BY <1>1, <1>2, <1>5, ConcatProperties
<1>7. b[j + 1] = "="
  <2>1. PICK n \in Nat : n = j + 1
    BY <1>4
  <2>2. n \in 1 .. j + 1 /\ n \in 1 .. (j + 1) + l /\ n <= j + 1 /\ ~(n <= j) /\ n - j = 1
    BY <1>4, <2>1
  <2>3. b[n] = g[n] /\ g[n] = e[1]
    BY <1>5, <1>6, <2>2
  <2> QED BY <1>3, <2>1, <2>3
<1>8. \A i \in I : j + 1 <= i
  <2> SUFFICES ASSUME NEW i \in I, ~(j + 1 <= i) PROVE FALSE
    OBVIOUS
  <2>1. i \in 1 .. j /\ i \in 1 .. j + 1 /\ i \in 1 .. (j + 1) + l /\ i <= j /\ i <= j + 1
    BY <1>4, <1>6
  <2>2. b[i] = g[i] /\ g[i] = h[i]
    BY <1>5, <1>6, <2>1
  <2> QED BY <1>4, <2>1, <2>2
<1>9. eq = IF I # {} THEN Min(I) ELSE 0
  BY DEF Equals, SelectInSeq
<1>10. j + 1 \in I
  <2>1. j + 1 \in 1 .. (j + 1) + l
    BY <1>4
  <2> QED BY <1>6, <1>7, <2>1
<1>11. I \in SUBSET (1 .. Len(b)) /\ Len(b) \in Nat
  BY <1>4, <1>6
<1> HIDE DEF eq, I
<1>12. Min(I) \in I /\ \A i \in I : Min(I) <= i
  BY <1>10, <1>11, FirstPlace
<1>13. eq = j + 1
  <2>1. PICK n : n = Min(I)
    OBVIOUS
  <2>2. n \in I /\ n <= j + 1
    BY <1>10, <1>12, <2>1
  <2>3. n \in Nat /\ j + 1 <= n
    BY <1>8, <1>11, <2>2
  <2>4. n = j + 1
    BY <1>4, <2>2, <2>3
  <2> QED BY <1>9, <1>10, <2>1, <2>4
<1>14. SubSeq(b, 1, j) = h
  <2>1. \A i \in 1 .. j : b[i] = h[i] /\ h[i] \in T
    <3> SUFFICES ASSUME NEW i \in 1 .. j PROVE b[i] = h[i] /\ h[i] \in T
      OBVIOUS
    <3>1. i \in 1 .. j + 1 /\ i \in 1 .. (j + 1) + l /\ i <= j /\ i <= j + 1
      BY <1>4
    <3>2. b[i] = g[i] /\ g[i] = h[i]
      BY <1>5, <1>6, <3>1
    <3> QED BY <1>1, <3>2, ElementOfSeq
  <2> QED BY <1>1, <1>4, <2>1, SubSeqIs
<1>15. SubSeq(b, (j + 1) + 1, (j + 1) + l) = rest
  <2>1. \A i \in 1 .. l : b[(j + 1) + i] = rest[i]
    <3> SUFFICES ASSUME NEW i \in 1 .. l PROVE b[(j + 1) + i] = rest[i]
      OBVIOUS
    <3>1. PICK n \in Nat : n = (j + 1) + i
      BY <1>4
    <3>2. n \in 1 .. (j + 1) + l /\ ~(n <= j + 1) /\ n - (j + 1) = i
      BY <1>4, <3>1
    <3>3. b[n] = rest[n - (j + 1)]
      BY <1>6, <3>2
    <3> QED BY <3>1, <3>2, <3>3
  <2>2. PICK n \in Nat : n = j + 1
    BY <1>4
  <2>3. \A i \in 1 .. Len(rest) : b[n + i] = rest[i]
    BY <1>1, <2>1, <2>2
  <2>4. SubSeq(b, n + 1, n + Len(rest)) = rest
    <3>1. rest \in Seq(T)
      OBVIOUS
    <3> HIDE DEF Text, Cat
    <3> QED BY <2>3, <3>1, SubSeqFrom
  <2> QED BY <1>1, <2>2, <2>4
<1>16. eq # 0 /\ eq - 1 = j /\ Len(b) = (j + 1) + l
  BY <1>4, <1>6, <1>13
<1> QED BY <1>13, <1>14, <1>15, <1>16 DEF eq

\* Four strings in a row, and the first apart from the others.
LEMMA FirstApart ==
  ASSUME NEW T, NEW a \in Text(T), NEW b \in Text(T), NEW c \in Text(T), NEW d \in Text(T)
  PROVE  Cat(Cat(Cat(a, b), c), d) = Cat(a, Cat(Cat(b, c), d))
<1>1. Cat(b, c) \in Text(T)
  BY CatText
<1>2. Cat(Cat(a, b), c) = Cat(a, Cat(b, c))
  BY CatAssociative
<1>3. Cat(Cat(a, Cat(b, c)), d) = Cat(a, Cat(Cat(b, c), d))
  BY <1>1, CatAssociative
<1> QED BY <1>2, <1>3

\* What is in neither of two strings is not in the two in a row.
LEMMA FreeCat ==
  ASSUME NEW T, NEW s \in Text(T), NEW t \in Text(T), NEW S, Free(S, s), Free(S, t)
  PROVE  Free(S, Cat(s, t))
<1>1. /\ s \in Seq(T) /\ t \in Seq(T)
      /\ Len(s) \in Nat /\ DOMAIN s = 1 .. Len(s) /\ Len(t) \in Nat /\ DOMAIN t = 1 .. Len(t)
  BY LenProperties DEF Text
<1>2. PICK u : u = s \o t
  OBVIOUS
<1>3. /\ DOMAIN u = 1 .. Len(s) + Len(t)
      /\ \A i \in 1 .. Len(s) + Len(t) : u[i] = IF i <= Len(s) THEN s[i] ELSE t[i - Len(s)]
  <2>1. u \in Seq(T) /\ Len(u) = Len(s) + Len(t)
    BY <1>1, <1>2, ConcatProperties
  <2>2. DOMAIN u = 1 .. Len(u)
    BY <2>1, LenProperties
  <2> QED BY <1>1, <1>2, <2>1, <2>2, ConcatProperties
<1>4. ASSUME NEW i \in DOMAIN u PROVE u[i] \notin S
  <2>1. i \in 1 .. Len(s) + Len(t)
    BY <1>3
  <2>2. CASE i <= Len(s)
    <3>1. i \in 1 .. Len(s)
      BY <1>1, <2>1, <2>2
    <3> QED BY <1>1, <1>3, <2>1, <2>2, <3>1 DEF Free
  <2>3. CASE ~(i <= Len(s))
    <3>1. i - Len(s) \in 1 .. Len(t)
      BY <1>1, <2>1, <2>3
    <3> QED BY <1>1, <1>3, <2>1, <2>3, <3>1 DEF Free
  <2> QED BY <2>2, <2>3
<1> QED BY <1>2, <1>4 DEF Free, Cat

\* A string keeps its first and its last character when something is put between.
LEMMA Between ==
  ASSUME NEW T, NEW a \in Text(T), NEW m \in Text(T), NEW b \in Text(T),
         a # <<>>, b # <<>>
  PROVE  LET s == Cat(Cat(a, m), b) IN
           s \in Text(T) /\ s # <<>> /\ s[1] = a[1] /\ s[Len(s)] = b[Len(b)]
<1>1. PICK t : t = Cat(a, m)
  OBVIOUS
<1>2. t \in Text(T) /\ t # <<>> /\ t[1] = a[1]
  BY <1>1, Joined
<1>3. PICK s : s = Cat(t, b)
  OBVIOUS
<1>4. s \in Text(T) /\ s # <<>> /\ s[1] = t[1] /\ s[Len(s)] = b[Len(b)]
  BY <1>2, <1>3, Joined
<1> QED BY <1>1, <1>2, <1>3, <1>4

(* What reaches _assign_config of a line that fits in the buffer is the key  *)
(* and the value written there, without the blanks and quotes around them in *)
(* the order in which _trim is called, and nothing if the line is commented  *)
(* out: for parts of any length.                                             *)
THEOREM PartsTaken ==
  ASSUME NEW T, {"nl", "="} \subseteq T,
         NEW p, p.lead \in Seq(T), p.key \in Seq(T), p.gap \in Seq(T), p.space \in Seq(T),
         p.open \in Seq(T), p.value \in Seq(T), p.close \in Seq(T), p.trail \in Seq(T)
  PROVE  LineTaken(p)
<1> SUFFICES ASSUME Laid(p), Len(Line(p)) < BufferSize
             PROVE  Assignment(Line(p)) =
                      IF p.key[1] \in Comments THEN Skipped ELSE <<p.key, p.value>>
  BY DEF LineTaken
<1>1. PICK lead, key, gap, space, open, value, close, trail, end, equals, q :
        /\ lead = p.lead /\ key = p.key /\ gap = p.gap /\ space = p.space /\ open = p.open
        /\ value = p.value /\ close = p.close /\ trail = p.trail /\ end = p.end
        /\ equals = <<"=">> /\ q = Cat(Cat(open, value), close)
  OBVIOUS
<1>2. /\ lead \in Text(T) /\ key \in Text(T) /\ gap \in Text(T) /\ space \in Text(T)
      /\ open \in Text(T) /\ value \in Text(T) /\ close \in Text(T) /\ trail \in Text(T)
      /\ equals \in Text(T) /\ end \in Text(T) /\ "nl" \in T /\ "=" \in T
  <2>1. equals \in Seq(T)
    BY <1>1
  <2>2. end \in Seq(T)
    <3>1. end = <<"nl">> \/ end = <<>>
      BY <1>1 DEF Laid
    <3>2. <<>> \in Seq(T) /\ <<"nl">> \in Seq(T)
      OBVIOUS
    <3> QED BY <3>1, <3>2
  <2> QED BY <1>1, <2>1, <2>2 DEF Text
<1>3. Quoted(p) = q
  BY <1>1 DEF Quoted, Cat
<1>4. Line(p) = Cat(Cat(Cat(Cat(Cat(Cat(Cat(lead, key), gap), equals), space), q), trail), end)
  BY <1>1, <1>3 DEF Line, Cat
<1>5. /\ Runs("sp", "tab", lead) /\ Runs("tab", "sp", gap)
      /\ Runs("sp", "tab", space) /\ Runs("tab", "sp", trail)
      /\ Runs("double", "single", open) /\ Runs("single", "double", close)
  BY <1>1 DEF Laid
<1>6. /\ key # <<>> /\ key[1] \notin {"sp", "tab", "cr", "nl"}
      /\ key[Len(key)] \notin {"sp", "tab"} /\ \A i \in DOMAIN key : key[i] # "="
  BY <1>1 DEF Laid, Bounded, Blanks
<1>7. /\ Bounded({"double", "single"}, value)
      /\ q # <<>> /\ q[1] \notin {"sp", "tab", "nl"} /\ q[Len(q)] \notin {"sp", "tab", "nl"}
      /\ end = <<"nl">> \/ (end = <<>> /\ q[Len(q)] # "cr")
  <2>1. Blanks \ {"cr"} = {"sp", "tab", "nl"}
    BY DEF Blanks
  <2>2. Bounded({"sp", "tab", "nl"}, q)
    BY <1>3, <2>1 DEF Laid
  <2>3. end = <<"nl">> \/ (end = <<>> /\ q[Len(q)] # "cr")
    BY <1>1, <1>3 DEF Laid, Last
  <2> QED BY <1>1, <2>2, <2>3 DEF Laid, Bounded, Quotes
<1>8. q \in Text(T)
  <2>1. Cat(open, value) \in Text(T)
    BY <1>2, CatText
  <2> QED BY <1>1, <1>2, <2>1, CatText
<1>9. PICK h, r, core : /\ h = Cat(key, gap) /\ r = Cat(space, q)
                        /\ core = Cat(Cat(h, equals), r)
  OBVIOUS
<1>10. /\ h \in Text(T) /\ core \in Text(T) /\ r \in Text(T)
       /\ Line(p) = Cat(Cat(lead, core), Cat(trail, end))
       /\ Cat(core, trail) = Cat(Cat(h, equals), Cat(r, trail))
  <2>1. h \in Text(T) /\ r \in Text(T)
    BY <1>2, <1>8, <1>9, CatText
  <2>2. PICK g : g = Cat(h, equals)
    OBVIOUS
  <2>3. g \in Text(T) /\ core = Cat(g, r)
    BY <1>2, <1>9, <2>1, <2>2, CatText
  <2>4. core \in Text(T) /\ Cat(core, trail) = Cat(g, Cat(r, trail))
    BY <1>2, <2>1, <2>3, CatText, CatAssociative
  <2>5. Cat(Cat(Cat(lead, key), gap), equals) = Cat(lead, g)
    BY <1>2, <1>9, <2>2, FirstApart
  <2>6. Cat(Cat(Cat(lead, g), space), q) = Cat(lead, core)
    <3>1. Cat(Cat(Cat(lead, g), space), q) = Cat(lead, Cat(Cat(g, space), q))
      BY <1>2, <1>8, <2>3, FirstApart
    <3>2. Cat(Cat(g, space), q) = Cat(g, r)
      BY <1>2, <1>8, <1>9, <2>3, CatAssociative
    <3> QED BY <2>3, <3>1, <3>2
  <2>7. Cat(lead, core) \in Text(T)
    BY <1>2, <2>4, CatText
  <2>8. Cat(Cat(Cat(lead, core), trail), end) = Cat(Cat(lead, core), Cat(trail, end))
    BY <1>2, <2>7, CatAssociative
  <2> QED BY <1>4, <2>1, <2>2, <2>4, <2>5, <2>6, <2>8
<1>11. core # <<>> /\ core[1] = key[1] /\ core[Len(core)] = q[Len(q)]
  <2>1. h # <<>> /\ h[1] = key[1]
    BY <1>2, <1>6, <1>9, Joined
  <2>2. r # <<>> /\ r[Len(r)] = q[Len(q)]
    BY <1>2, <1>7, <1>8, <1>9, Joined
  <2> QED BY <1>2, <1>9, <1>10, <2>1, <2>2, Between
<1>12. PICK rest : rest = IF end = <<>> THEN r ELSE Cat(r, trail)
  OBVIOUS
<1>13. PICK buffer : buffer = Bare(Read(Line(p)))
  OBVIOUS
<1>14. rest \in Text(T) /\ buffer = Cat(Cat(h, <<"=">>), rest)
  <2>1. Read(Line(p)) = Line(p)
    BY DEF Read
  <2>2. Bounded({"sp", "tab", "nl"}, core) /\ core[1] # "cr"
    BY <1>6, <1>7, <1>11 DEF Bounded
  <2>3. Bare(Cat(Cat(lead, core), Cat(trail, end)))
          = IF end = <<>> THEN core ELSE Cat(core, trail)
    BY SMTT(60), <1>2, <1>5, <1>7, <1>10, <1>11, <2>2, BareIs
  <2>4. rest \in Text(T)
    BY <1>2, <1>10, <1>12, CatText
  <2> QED BY <1>1, <1>9, <1>10, <1>12, <1>13, <2>1, <2>3, <2>4
<1>15. buffer # <<>> /\ buffer[1] = key[1]
  <2>1. h # <<>> /\ h[1] = key[1]
    BY <1>2, <1>6, <1>9, Joined
  <2>2. Cat(h, equals) \in Text(T) /\ Cat(h, equals) # <<>> /\ Cat(h, equals)[1] = h[1]
    BY <1>2, <1>10, <2>1, Joined
  <2> QED BY <1>1, <1>14, <2>1, <2>2, Joined
<1>16. Free({"="}, h)
  <2>1. Free({"="}, key)
    BY <1>6 DEF Free
  <2>2. Free({"="}, gap)
    BY <1>5 DEF Runs, Free
  <2> QED BY <1>2, <1>9, <2>1, <2>2, FreeCat
<1> DEFINE eq == Equals(buffer)
<1>17. eq # 0 /\ SubSeq(buffer, 1, eq - 1) = h /\ SubSeq(buffer, eq + 1, Len(buffer)) = rest
  <2>1. buffer = Cat(Cat(h, equals), rest) /\ equals = <<"=">>
    BY <1>1, <1>14
  <2>2. h \in Text(T) /\ rest \in Text(T) /\ "=" \in T
    BY <1>2, <1>10, <1>14
  <2> QED BY SMTT(60), <1>16, <2>1, <2>2, EqualsIs
<1> HIDE DEF eq
<1>18. Side(h) = key
  <2>1. Bounded({"sp", "tab"}, key)
    BY <1>6 DEF Bounded
  <2> QED BY <1>2, <1>5, <1>9, <2>1, TwoTrimsBack DEF Side
<1>19. Unquoted(Side(rest)) = value
  <2>1. Bounded({"sp", "tab"}, q)
    BY <1>7 DEF Bounded
  <2>2. PICK after : after = IF end = <<>> THEN <<>> ELSE trail
    OBVIOUS
  <2>3. after \in Text(T) /\ Runs("tab", "sp", after) /\ rest = Cat(Cat(space, q), after)
    BY <1>2, <1>5, <1>9, <1>10, <1>12, <2>2, CatEmpty
  <2>4. Trimmed("tab", Trimmed("sp", Cat(Cat(space, q), after))) = q
    BY <1>2, <1>5, <1>8, <2>1, <2>3, TwoTrims
  <2>5. Trimmed("single", Trimmed("double", Cat(Cat(open, value), close))) = value
    <3>1. open \in Text(T) /\ value \in Text(T) /\ close \in Text(T)
      BY <1>2
    <3>2. /\ Runs("double", "single", open) /\ Runs("single", "double", close)
          /\ Bounded({"double", "single"}, value)
      BY <1>5, <1>7
    <3> QED BY SMTT(60), <3>1, <3>2, TwoTrims
  <2> QED BY <1>1, <2>3, <2>4, <2>5 DEF Side, Unquoted
<1>20. Assignment(Line(p)) = IF eq = 0 \/ buffer[1] \in Comments THEN Skipped
                             ELSE <<Side(SubSeq(buffer, 1, eq - 1)),
                                    Unquoted(Side(SubSeq(buffer, eq + 1, Len(buffer))))>>
  BY <1>13 DEF Assignment, Equals, eq
<1> QED BY <1>1, <1>15, <1>17, <1>18, <1>19, <1>20

-----------------------------------------------------------------------------
(* What is checked of short lines, arguments and paths holds of all of them. *)

\* The short strings over a set are strings over it.
LEMMA UpToSeq ==
  ASSUME NEW n \in Nat, NEW S, NEW s \in UpTo(n, S)
  PROVE  s \in Seq(S)
<1>1. PICK k \in 0 .. n : s \in [1 .. k -> S]
  BY DEF UpTo
<1>2. k \in Nat
  OBVIOUS
<1> QED BY <1>1, <1>2, SeqDef

(* LinesTaken: _parse_file takes from a line that fits in its buffer the key *)
(* and the value that are written there.                                     *)
THEOREM LinesRead == Spec => []LinesTaken
<1>1. LinesTaken
  <2> DEFINE T == {"sp", "tab", "nl", "cr", "double", "single", "=", ";", "k"}
  <2> SUFFICES ASSUME NEW p \in Layouts PROVE LineTaken(p)
    BY DEF LinesTaken
  <2>1. ASSUME NEW x \in T, NEW y \in T PROVE Either(x, y) \subseteq Seq(T)
    <3> HIDE DEF T
    <3>1. <<>> \in Seq(T) /\ <<x>> \in Seq(T) /\ <<y>> \in Seq(T) /\ <<x, y>> \in Seq(T)
      BY <2>1
    <3> QED BY <3>1 DEF Either
  <2>2. /\ p.lead \in Seq(T) /\ p.gap \in Seq(T) /\ p.space \in Seq(T) /\ p.trail \in Seq(T)
        /\ p.open \in Seq(T) /\ p.close \in Seq(T)
    <3>1. "sp" \in T /\ "tab" \in T /\ "double" \in T /\ "single" \in T
      OBVIOUS
    <3> HIDE DEF T
    <3>2. /\ p.lead \in Either("sp", "tab") /\ p.gap \in Either("tab", "sp")
          /\ p.space \in Either("sp", "tab") /\ p.trail \in Either("tab", "sp")
          /\ p.open \in Either("double", "single") /\ p.close \in Either("single", "double")
      BY DEF Layouts
    <3> QED BY <2>1, <3>1, <3>2
  <2>3. p.key \in Seq(T) /\ p.value \in Seq(T)
    <3>1. /\ p.key \in {<<"k">>, <<";", "k">>, <<"k", "sp", "k">>}
          /\ p.value \in {<<"k">>, <<"k", "=", "k">>, <<"k", "cr">>, <<"sp", "k", "tab">>}
      BY DEF Layouts
    <3>2. /\ <<"k">> \in Seq(T) /\ <<";", "k">> \in Seq(T) /\ <<"k", "sp", "k">> \in Seq(T)
          /\ <<"k", "=", "k">> \in Seq(T) /\ <<"k", "cr">> \in Seq(T)
          /\ <<"sp", "k", "tab">> \in Seq(T)
      OBVIOUS
    <3> HIDE DEF T
    <3> QED BY <3>1, <3>2
  <2>4. {"nl", "="} \subseteq T
    OBVIOUS
  <2> HIDE DEF T
  <2> QED BY <2>2, <2>3, <2>4, PartsTaken
<1> QED BY <1>1, PTL

(* OptionsTaken: _parse_args and _parse_file take every option that is given *)
(* with a value, with the bytes behind it.                                   *)
THEOREM OptionsRead == Spec => []OptionsTaken
<1>1. OptionsTaken
  <2> SUFFICES ASSUME NEW args \in UpTo(MaxArgs, Flags \cup Values), NEW file \in Files,
                      NEW heap \in Heaps
               PROVE  Followed(args, file, heap)
    BY DEF OptionsTaken
  <2> DEFINE Texts == {"there", "0", "other", Empty}
  <2>1. args \in Seq(Flags \cup Values)
    BY BoundsAssumption, UpToSeq
  <2>2. ASSUME NEW n \in DOMAIN file PROVE file[n] \in Seq(Flags \X Texts)
    <3>1. file[n] \in UpTo(2, FileLines)
      BY DEF Files
    <3>2. file[n] \in Seq(FileLines)
      BY <3>1, UpToSeq
    <3>3. FileLines \subseteq Flags \X Texts
      BY DEF FileLines, Flags, Options
    <3> HIDE DEF Texts
    <3> QED BY <3>2, <3>3, SeqMonotonic
  <2>3. NoValue \notin Texts
    BY DEF NoValue, Empty
  <2> HIDE DEF Texts
  <2> QED BY <2>1, <2>2, <2>3, OptionsFollowed
<1> QED BY <1>1, PTL

(* NamesInDirectory: _concat_path names a file in the directory it is given. *)
THEOREM NamesLead == Spec => []NamesInDirectory
<1>1. NamesInDirectory
  <2> DEFINE S == {"/", ".", "a", "f"}
  <2>1. <<"f">> \in Seq(S) /\ Len(<<"f">>) = 1 /\ <<"f">>[1] = "f" /\ <<"f">> # <<>> /\ <<"f">> # <<".">>
    OBVIOUS
  <2>2. FileName(<<"f">>, S)
    BY <2>1 DEF FileName
  <2> SUFFICES ASSUME NEW prefix \in UpTo(MaxPath, {"/", ".", "a"})
               PROVE  LedInto(prefix, <<"f">>)
    BY DEF NamesInDirectory
  <2>3. prefix \in Seq({"/", ".", "a"})
    BY BoundsAssumption, UpToSeq
  <2>4. {"/", ".", "a"} \subseteq S /\ "." \in S /\ "/" \in S
    OBVIOUS
  <2> HIDE DEF S
  <2>5. prefix \in Seq(S)
    BY <2>3, <2>4, SeqMonotonic
  <2> QED BY <2>2, <2>4, <2>5, ConcatLeadsInto
<1> QED BY <1>1, PTL
=============================================================================

------------------------ MODULE ProblemPipelineProofs ------------------------
(***************************************************************************)
(* Proofs about ProblemPipeline, for any number of problems, clients and   *)
(* crashes and any queue size.  First memory: who works on a problem (Inv).*)
(* Then what the files of database_dir are worth: ids, names and statuses, *)
(* and that a solver thread always finds something to move back (FilesInv  *)
(* and Paired).  None of the invariants proved is inductive alone.         *)
(***************************************************************************)
EXTENDS ProblemPipeline, ListLemmas

-----------------------------------------------------------------------------
(* Files are never removed and names are never taken back. *)
FilesKept ==
  /\ \A p \in Problems : name[p] # NULL => name[p] \in DOMAIN disk /\ p \in submitted
  /\ \A p \in live : name[p] # NULL
  /\ \A c \in Clients : cpc[c] \in {"close", "body", "insert"} => name[cp[c]] # NULL

(* A dead process has no threads and nothing in memory. *)
DeadIsEmpty ==
  mpc = "down" =>
    /\ problems = <<>> /\ problem_queue = <<>> /\ live = {}
    /\ \A p \in Problems : spc[p] = "none" /\ sp[p] = NULL
    /\ \A c \in Clients : cpc[c] = "idle"

(* A problem being registered belongs to one client and is in no list yet. *)
Registering ==
  /\ live \subseteq submitted
  /\ \A c \in Clients : cpc[c] # "idle" => cp[c] \in submitted
  /\ \A c, d \in Clients : cp[c] = cp[d] => c = d \/ cp[c] = NULL
  /\ \A c \in Clients :
       cpc[c] \in {"store", "open", "close", "body", "insert", "refuse"} => cp[c] \notin live

(* The main loop starts a thread only for a problem that is no longer new,  *)
(* and a new problem has none; between the check of the queue's size and    *)
(* the insertion nobody else inserts.                                       *)
Working ==
  /\ mp # NULL => mp \in live
  /\ mpc \in {"enqueue", "create"} => status[mp] # "N" /\ spc[mp] = "none"
  /\ \A p \in Problems : status[p] = "N" => spc[p] = "none"
  /\ \A p \in Problems : spc[p] # "none" => p \in live
  /\ \A p \in Problems : spc[p] # "insert" => sp[p] = NULL
  /\ mpc \in {"extract", "examine", "enqueue"} => Len(problem_queue) < QueueSize

Inv == /\ TypeOK /\ FilesKept /\ DeadIsEmpty /\ Registering /\ Working
       /\ Conserved /\ QueueBounded

-----------------------------------------------------------------------------
(* What writing one file leaves in database_dir. *)
Contents == [prob : Problems \cup {NULL}, status : Status, whole : BOOLEAN]

(* Writing one file leaves all others as they were. *)
LEMMA WriteFile ==
  ASSUME NEW f, NEW contents
  PROVE  /\ DOMAIN Write(f, contents) = DOMAIN disk \cup {f}
         /\ \A g \in DOMAIN disk \cup {f} :
              Write(f, contents)[g] = IF g = f THEN contents ELSE disk[g]
BY DEF Write

(* What registering and solving write into a file has the shape of a file. *)
LEMMA FileContents ==
  /\ Torn \in Contents
  /\ \A p \in Problems : Part(p) \in Contents
  /\ \A p \in Problems, s \in Status : File(p, s) \in Contents
  /\ \A old \in Contents, p \in Problems :
       (\A at : Completed(old, p, at) \in Contents) /\ (TypeOK => Rewritten(old, p) \in Contents)
<1>1. Torn \in Contents /\ \A p \in Problems : Part(p) \in Contents
  BY DEF Torn, Part, Contents, Status
<1>2. ASSUME NEW p \in Problems, NEW s \in Status PROVE File(p, s) \in Contents
  BY DEF File, Contents
<1>3. ASSUME NEW old \in Contents, NEW p \in Problems, TypeOK
      PROVE  Rewritten(old, p) \in Contents
  BY <1>3 DEF Rewritten, Contents, TypeOK
<1>4. ASSUME NEW old \in Contents, NEW p \in Problems, NEW at
      PROVE  Completed(old, p, at) \in Contents
  <2>1. CASE at = "close"
    BY <2>1, <1>2 DEF Completed, Status
  <2>2. CASE at # "close"
    BY <2>2 DEF Completed, Contents
  <2> QED BY <2>1, <2>2
<1> QED BY <1>1, <1>2, <1>3, <1>4

(* Writing a well-formed file under a legal name keeps database_dir well formed. *)
LEMMA WriteType ==
  ASSUME TypeOK, NEW f \in Names, NEW contents \in Contents,
         disk' = Write(f, contents)
  PROVE  /\ DOMAIN disk' \subseteq Names
         /\ \A g \in DOMAIN disk' : disk'[g] \in Contents
<1>1. DOMAIN disk' = DOMAIN disk \cup {f}
  BY WriteFile
<1>2. \A g \in DOMAIN disk' : disk'[g] = IF g = f THEN contents ELSE disk[g]
  BY ZenonT(60), WriteFile, <1>1
<1>3. DOMAIN disk \subseteq Names /\ \A g \in DOMAIN disk : disk[g] \in Contents
  BY DEF TypeOK, Contents
<1> QED BY <1>1, <1>2, <1>3

(* The lists as Conserved sees them. *)
LEMMA ListsAreListings ==
  Inv => Listing(problems, Problems) /\ Listing(problem_queue, Problems)
BY DEF Inv, TypeOK, Conserved, Listing

-----------------------------------------------------------------------------
(* The daemon not yet started, on the files it will find, satisfies Inv. *)
LEMMA InitInv == Init => Inv
<1> SUFFICES ASSUME Init PROVE Inv
  OBVIOUS
<1>1. TypeOK
  <2>1. /\ DOMAIN disk \subseteq Names
        /\ \A f \in DOMAIN disk : disk[f] \in Contents
    <3>1. PICK st \in [Preloaded -> {"N", "S"}] :
            disk = [f \in {InitName[p] : p \in Preloaded} |->
                      LET p == CHOOSE q \in Preloaded : InitName[q] = f
                      IN  File(p, st[p])]
      BY DEF Init
    <3>2. DOMAIN disk \subseteq Names
      BY <3>1, ConstantsAssumption
    <3>3. ASSUME NEW f \in DOMAIN disk PROVE disk[f] \in Contents
      <4> DEFINE p == CHOOSE q \in Preloaded : InitName[q] = f
      <4>1. p \in Preloaded
        BY <3>1
      <4>2. disk[f] = File(p, st[p])
        BY <3>1
      <4> QED BY <4>1, <4>2, FileContents, ConstantsAssumption DEF Status
    <3> QED BY <3>2, <3>3
  <2>2. /\ id \in [Problems -> Nat] /\ name \in [Problems -> Names \cup {NULL}]
        /\ submitted \subseteq Problems /\ crashes \in 0 .. MaxCrashes
    BY ConstantsAssumption DEF Init
  <2>3. /\ problems \in Seq(Problems) /\ problem_queue \in Seq(Problems)
        /\ auto_increment \in Nat
        /\ status \in [Problems -> Status]
    BY EmptySeq DEF Init, Status
  <2>4. /\ mpc \in {"down", "count", "extract", "examine", "enqueue", "create", "requeue"}
        /\ mp \in Problems \cup {NULL}
        /\ mpc \in {"examine", "enqueue", "create", "requeue"} <=> mp # NULL
    BY DEF Init
  <2>5. /\ spc \in [Problems -> {"none", "start", "write", "extract", "insert"}]
        /\ sp \in [Problems -> Problems \cup {NULL}]
        /\ cpc \in [Clients -> {"idle", "store", "open", "close", "body", "insert", "reply", "refuse"}]
        /\ cp \in [Clients -> Problems \cup {NULL}]
        /\ \A c \in Clients : cpc[c] # "idle" <=> cp[c] # NULL
        /\ cid \in [Clients -> Nat]
    BY DEF Init
  <2>6. /\ live \subseteq Problems /\ acked \subseteq Problems /\ refused \subseteq Problems
        /\ unsaved \subseteq Problems /\ miscounted \in BOOLEAN /\ unserved \subseteq Problems
    BY DEF Init
  <2> QED BY <2>1, <2>2, <2>3, <2>4, <2>5, <2>6 DEF TypeOK, Contents
<1>2. FilesKept
  BY ConstantsAssumption DEF Init, FilesKept
<1>3. DeadIsEmpty /\ Registering /\ Working
  BY DEF Init, DeadIsEmpty, Registering, Working
<1>4. Conserved
  BY EmptyListing DEF Init, Conserved, Listing, InProblems, InQueue, WithMain, WithSolvers
<1>5. QueueBounded
  BY ConstantsAssumption, EmptyListing DEF Init, QueueBounded
<1> QED BY <1>1, <1>2, <1>3, <1>4, <1>5 DEF Inv

-----------------------------------------------------------------------------
(* _load_db leaves a list that holds each loadable problem exactly once, or   *)
(* an empty one, and the counter above every id in it.                        *)
LEMMA Booting ==
  ASSUME TypeOK, Boot
  PROVE  /\ live' \subseteq Loadable /\ (live' # Loadable => miscounted')
         /\ Listing(problems', Problems) /\ ToSet(problems') = live'
         /\ auto_increment' \in Nat /\ \A p \in live' : id[p] < auto_increment'
         /\ status' = [p \in Problems |->
                         IF p \in live' THEN disk[name[p]].status ELSE "free"]
         /\ mpc' = "count" /\ miscounted' \in BOOLEAN /\ (miscounted => miscounted')
<1>1. PICK db \in {Loadable, {}} :
        /\ problems' \in SetToSeqs(db)
        /\ \E n \in LastIds(db) : IsLastId(n, db) /\ auto_increment' = NextId(n)
        /\ status' = [p \in Problems |->
                        IF p \in db THEN disk[name[p]].status ELSE "free"]
        /\ live' = db
        /\ miscounted' = (miscounted \/ db # Loadable)
  <2>1. Loadable \in {Loadable, {}} /\ {} \in {Loadable, {}}
    OBVIOUS
  <2> QED BY <2>1 DEF Boot
<1>2. IsFiniteSet(db) /\ db \in SUBSET Problems /\ db \subseteq Loadable
  BY ConstantsAssumption, FS_Subset DEF Loadable
<1>3. Listing(problems', Problems) /\ ToSet(problems') = db
  BY <1>1, <1>2, SetToSeqsListing
<1>4. PICK n \in LastIds(db) : IsLastId(n, db) /\ auto_increment' = n + 1
  BY <1>1 DEF NextId
<1>5. n \in Nat /\ \A p \in db : id[p] \in Nat /\ id[p] \in LastIds(db)
  BY <1>2 DEF LastIds, TypeOK
<1>6. \A p \in db : id[p] <= n
  BY <1>4, <1>5 DEF IsLastId
<1>7. mpc' = "count"
  BY DEF Boot
<1>8. /\ miscounted' \in BOOLEAN /\ (miscounted => miscounted')
      /\ (live' # Loadable => miscounted')
  BY <1>1 DEF TypeOK
<1>9. auto_increment' \in Nat /\ \A p \in live' : id[p] < auto_increment'
  BY <1>1, <1>4, <1>5, <1>6
<1>10. /\ live' = db
       /\ status' = [p \in Problems |->
                       IF p \in live' THEN disk[name[p]].status ELSE "free"]
  BY <1>1
<1> QED BY <1>2, <1>3, <1>7, <1>8, <1>9, <1>10

(* Every step of every thread, a crash or a restart keeps the types.        *)
LEMMA TypeStep == Inv /\ [Next]_vars => TypeOK'
<1> SUFFICES ASSUME Inv, [Next]_vars PROVE TypeOK'
  OBVIOUS
<1> USE DEF Inv, Contents, Status, Names
<1>0. Listing(problems, Problems) /\ Listing(problem_queue, Problems)
  BY ListsAreListings
<1>1. CASE UNCHANGED vars
  BY <1>1 DEF TypeOK, vars, heap, main, solve, reg, hist
<1>2. CASE Boot
  <2>1. problems' \in Seq(Problems) /\ auto_increment' \in Nat /\ miscounted' \in BOOLEAN
    BY <1>2, Booting DEF Listing
  <2>2. live' \subseteq Problems
    BY <1>2, Booting DEF Loadable
  <2>3. status' \in [Problems -> Status]
    <3>1. \A p \in Problems : p \in live' => disk[name[p]].status \in Status
      BY <1>2, Booting DEF Loadable, OnDisk, TypeOK
    <3> QED BY <1>2, <3>1, Booting
  <2>4. mpc' \in {"count"} /\ mp' = NULL
    BY <1>2, Booting DEF Boot, TypeOK
  <2> QED BY <1>2, <2>1, <2>2, <2>3, <2>4 DEF Boot, TypeOK, solve, reg
<1>3. CASE Crash
  <2>1. crashes' \in 0 .. MaxCrashes
    BY <1>3, ConstantsAssumption DEF Crash, TypeOK
  <2>2. /\ problems' \in Seq(Problems) /\ problem_queue' \in Seq(Problems)
        /\ status' \in [Problems -> Status]
    BY <1>3, EmptySeq DEF Crash
  <2>3. /\ spc' \in [Problems -> {"none"}] /\ sp' \in [Problems -> {NULL}]
        /\ cpc' \in [Clients -> {"idle"}] /\ cp' \in [Clients -> {NULL}]
        /\ cid' \in [Clients -> {0}]
    BY <1>3 DEF Crash
  <2> QED BY <1>3, <2>1, <2>2, <2>3 DEF Crash, TypeOK
<1>4. CASE MainCount
  BY <1>4 DEF MainCount, TypeOK, heap, solve, reg, hist
<1>5. CASE MainExtract
  <2>1. CASE problems = <<>>
    BY <1>5, <2>1 DEF MainExtract, TypeOK, solve, reg, hist
  <2>2. CASE problems # <<>>
    <3>1. Head(problems) \in Problems /\ Tail(problems) \in Seq(Problems)
      BY <1>0, <2>2, TailListing DEF Listing
    <3>2. mpc' = "examine" /\ mp' \in Problems /\ problems' \in Seq(Problems)
      BY <1>5, <2>2, <3>1 DEF MainExtract
    <3>3. mp' # NULL
      BY <3>2, ConstantsAssumption
    <3> QED BY <1>5, <3>2, <3>3 DEF MainExtract, TypeOK, solve, reg, hist
  <2> QED BY <2>1, <2>2
<1>6. CASE MainExamine
  BY <1>6 DEF MainExamine, Claim, TypeOK, solve, reg, hist
<1>7. CASE MainEnqueue
  BY <1>7 DEF MainEnqueue, Inserted, TypeOK, solve, reg, hist
<1>8. CASE MainCreate
  BY <1>8 DEF MainCreate, NextRound, TypeOK, heap, reg, hist
<1>9. CASE MainRequeue
  BY <1>9 DEF MainRequeue, NextRound, Inserted, TypeOK, solve, reg, hist
<1>10. ASSUME NEW p \in Problems, SolverStart(p) PROVE TypeOK'
  BY <1>10 DEF SolverStart, TypeOK, main, reg, hist
<1>11. ASSUME NEW p \in Problems, SolverWrite(p) PROVE TypeOK'
  <2>1. spc' \in [Problems -> {"none", "start", "write", "extract", "insert"}]
    BY <1>11 DEF SolverWrite, TypeOK
  <2>2. /\ DOMAIN disk' \subseteq Names
        /\ \A f \in DOMAIN disk' : disk'[f] \in Contents
    <3>1. CASE UNCHANGED disk
      BY <3>1 DEF TypeOK
    <3>2. CASE disk' = Write(name[p], Rewritten(disk[name[p]], p))
      <4>1. name[p] \in DOMAIN disk /\ disk[name[p]] \in Contents
        BY <1>11 DEF SolverWrite, Working, FilesKept, TypeOK
      <4>2. name[p] \in Names /\ Rewritten(disk[name[p]], p) \in Contents
        BY <4>1, FileContents DEF TypeOK
      <4> HIDE DEF Contents, Names, Inv
      <4> QED BY <3>2, <4>2, WriteType DEF Inv
    <3> QED BY <1>11, <3>1, <3>2 DEF SolverWrite
  <2> QED BY <1>11, <2>1, <2>2 DEF SolverWrite, TypeOK, heap, main, reg, hist
<1>12. ASSUME NEW p \in Problems, SolverExtract(p) PROVE TypeOK'
  <2>1. \/ UNCHANGED problem_queue /\ sp' = [sp EXCEPT ![p] = NULL]
        \/ \E i \in 1 .. Len(problem_queue) :
             /\ sp' = [sp EXCEPT ![p] = problem_queue[i]]
             /\ problem_queue' = RemoveAt(problem_queue, i)
    BY <1>12 DEF SolverExtract
  <2>2. problem_queue' \in Seq(Problems) /\ sp' \in [Problems -> Problems \cup {NULL}]
    <3>1. CASE UNCHANGED problem_queue /\ sp' = [sp EXCEPT ![p] = NULL]
      BY <3>1 DEF TypeOK
    <3>2. ASSUME NEW i \in 1 .. Len(problem_queue),
                 sp' = [sp EXCEPT ![p] = problem_queue[i]],
                 problem_queue' = RemoveAt(problem_queue, i)
          PROVE  problem_queue' \in Seq(Problems) /\ sp' \in [Problems -> Problems \cup {NULL}]
      <4>1. problem_queue[i] \in Problems /\ Listing(RemoveAt(problem_queue, i), Problems)
        BY <1>0, RemoveListing
      <4> QED BY <3>2, <4>1 DEF Listing, TypeOK
    <3> QED BY <2>1, <3>1, <3>2
  <2>3. spc' \in [Problems -> {"none", "start", "write", "extract", "insert"}]
    BY <1>12 DEF SolverExtract, TypeOK
  <2> QED BY <1>12, <2>2, <2>3 DEF SolverExtract, TypeOK, main, reg, hist
<1>13. ASSUME NEW p \in Problems, SolverInsert(p) PROVE TypeOK'
  BY <1>13 DEF SolverInsert, Inserted, TypeOK, main, reg, hist
<1>14. ASSUME NEW c \in Clients, TakeId(c) PROVE TypeOK'
  <2>1. PICK p \in Problems \ submitted :
          cp' = [cp EXCEPT ![c] = p] /\ submitted' = submitted \cup {p}
    BY <1>14 DEF TakeId
  <2>2. p # NULL
    BY ConstantsAssumption
  <2>3. /\ cpc' = [cpc EXCEPT ![c] = "store"] /\ cid' = [cid EXCEPT ![c] = auto_increment]
        /\ miscounted' \in BOOLEAN
    BY <1>14 DEF TakeId, TypeOK
  <2>4. /\ cpc' \in [Clients -> {"idle", "store", "open", "close", "body", "insert", "reply", "refuse"}]
        /\ cp' \in [Clients -> Problems \cup {NULL}]
        /\ \A d \in Clients : cpc'[d] # "idle" <=> cp'[d] # NULL
        /\ cid' \in [Clients -> Nat] /\ submitted' \subseteq Problems
    BY <2>1, <2>2, <2>3 DEF TypeOK
  <2> QED BY <1>14, <2>3, <2>4 DEF TakeId, TypeOK, heap, main, solve
<1>15. ASSUME NEW c \in Clients, StoreId(c) PROVE TypeOK'
  BY <1>15 DEF StoreId, TypeOK, main, solve, hist
<1>16. ASSUME NEW c \in Clients, OpenFile(c) PROVE TypeOK'
  <2>1. CASE disk' = Write(cid[c], Torn) /\ cpc' = [cpc EXCEPT ![c] = "close"]
             /\ id' = [id EXCEPT ![cp[c]] = cid[c]]
             /\ name' = [name EXCEPT ![cp[c]] = cid[c]]
             /\ status' = [status EXCEPT ![cp[c]] = "N"]
    <3>1. cid[c] \in Nat /\ cid[c] \in Names
      BY DEF TypeOK
    <3>2. /\ DOMAIN disk' \subseteq Names
          /\ \A f \in DOMAIN disk' : disk'[f] \in Contents
      <4> HIDE DEF Contents, Names, Inv
      <4> QED BY <2>1, <3>1, WriteType, FileContents DEF Inv
    <3>3. /\ cpc' \in [Clients -> {"idle", "store", "open", "close", "body", "insert", "reply", "refuse"}]
          /\ \A d \in Clients : cpc'[d] # "idle" <=> cpc[d] # "idle"
      BY <1>16, <2>1 DEF OpenFile, TypeOK
    <3>4. id' \in [Problems -> Nat] /\ name' \in [Problems -> Names \cup {NULL}]
          /\ status' \in [Problems -> Status]
      BY <2>1, <3>1 DEF TypeOK
    <3> QED BY <1>16, <2>1, <3>2, <3>3, <3>4 DEF OpenFile, TypeOK, main, solve, hist
  <2>2. CASE UNCHANGED <<id, name, status, disk>> /\ cpc' = [cpc EXCEPT ![c] = "refuse"]
    BY SMTT(60), <1>16, <2>2 DEF OpenFile, TypeOK, main, solve, hist
  <2> QED BY <1>16, <2>1, <2>2 DEF OpenFile
<1>17. ASSUME NEW c \in Clients, Flush(c) \/ CloseFile(c) PROVE TypeOK'
  <2>1. cp[c] \in Problems /\ name[cp[c]] \in Names /\ name[cp[c]] \in DOMAIN disk
    BY <1>17 DEF Flush, CloseFile, FilesKept, TypeOK
  <2>2. /\ DOMAIN disk' \subseteq Names
        /\ \A f \in DOMAIN disk' : disk'[f] \in Contents
    <3>1. CASE UNCHANGED disk
      BY <3>1 DEF TypeOK
    <3>2. CASE \E contents \in Contents : disk' = Write(name[cp[c]], contents)
      <4> HIDE DEF Contents, Names, Inv
      <4> QED BY <2>1, <3>2, WriteType DEF Inv
    <3>3. disk[name[cp[c]]] \in Contents
      BY <2>1 DEF TypeOK
    <3>4. Part(cp[c]) \in Contents /\ \A at : Completed(disk[name[cp[c]]], cp[c], at) \in Contents
      BY <2>1, <3>3, FileContents
    <3> HIDE DEF Contents, Names, Inv
    <3> QED BY <1>17, <3>1, <3>2, <3>4 DEF Flush, CloseFile
  <2>3. unsaved' \subseteq Problems
    BY <1>17, <2>1 DEF Flush, CloseFile, TypeOK, hist
  <2>4. /\ cpc' \in [Clients -> {"idle", "store", "open", "close", "body", "insert", "reply", "refuse"}]
        /\ \A d \in Clients : cpc'[d] # "idle" <=> cpc[d] # "idle"
    BY ZenonT(60), <1>17 DEF Flush, CloseFile, TypeOK
  <2> QED BY <1>17, <2>2, <2>3, <2>4 DEF Flush, CloseFile, TypeOK, heap, main, solve, hist
<1>18. ASSUME NEW c \in Clients, InsertProblem(c) PROVE TypeOK'
  BY <1>18 DEF InsertProblem, Inserted, TypeOK, main, solve
<1>19. ASSUME NEW c \in Clients, Reply(c) PROVE TypeOK'
  BY <1>19 DEF Reply, TypeOK, heap, main, solve
<1> QED BY <1>1, <1>2, <1>3, <1>4, <1>5, <1>6, <1>7, <1>8, <1>9, <1>10, <1>11, <1>12,
           <1>13, <1>14, <1>15, <1>16, <1>17, <1>18, <1>19
        DEF Next, Main, MainFull, Solver, Register

(* Steps of the main loop and of the solvers leave the registrations alone. *)
LEMMA InnerSteps ==
  Main \/ (\E p \in Problems : Solver(p)) =>
    UNCHANGED <<id, name, cpc, cp, cid, submitted, crashes, live, acked, refused, unsaved,
                miscounted>>
BY DEF Main, MainCount, MainFull, MainExtract, MainExamine, MainEnqueue, MainCreate,
       MainRequeue, Solver, SolverStart, SolverWrite, SolverExtract, SolverInsert,
       vars, heap, main, solve, reg, hist

(* No step removes a file or renames one: database_dir only grows.          *)
LEMMA FilesKeptStep == Inv /\ [Next]_vars => FilesKept'
<1> SUFFICES ASSUME Inv, [Next]_vars PROVE FilesKept'
  OBVIOUS
<1> USE DEF Inv
<1>0. NULL \notin Problems /\ NULL \notin Names /\ Nat \subseteq Names
  BY ConstantsAssumption DEF Names
<1>1. CASE UNCHANGED vars
  BY <1>1 DEF FilesKept, vars, heap, main, solve, reg, hist
<1>2. CASE Boot
  <2>1. live' \subseteq Loadable /\ \A p \in Loadable : name[p] # NULL
    BY <1>2, <1>0, Booting DEF Loadable, OnDisk, TypeOK
  <2> QED BY <1>2, <2>1 DEF Boot, FilesKept, DeadIsEmpty, reg
<1>3. CASE Crash
  BY <1>3 DEF Crash, FilesKept
<1>4. CASE Main \/ \E p \in Problems : Solver(p)
  <2>1. DOMAIN disk \subseteq DOMAIN disk'
    <3>1. CASE UNCHANGED disk
      BY <3>1
    <3>2. ASSUME NEW p \in Problems, SolverWrite(p) PROVE DOMAIN disk \subseteq DOMAIN disk'
      <4>1. disk' = Write(name[p], Rewritten(disk[name[p]], p)) \/ UNCHANGED disk
        BY <3>2 DEF SolverWrite
      <4>2. DOMAIN disk \subseteq DOMAIN Write(name[p], Rewritten(disk[name[p]], p))
        BY DEF Write
      <4> QED BY <4>1, <4>2
    <3> QED BY <1>4, <3>1, <3>2
            DEF Main, MainCount, MainFull, MainExtract, MainExamine, MainEnqueue, MainCreate,
                MainRequeue, Solver, SolverStart, SolverExtract, SolverInsert, vars
  <2> QED BY <1>4, <2>1, InnerSteps DEF FilesKept
<1>5. ASSUME NEW c \in Clients, TakeId(c) PROVE FilesKept'
  BY <1>5, <1>0 DEF TakeId, FilesKept, TypeOK, heap
<1>6. ASSUME NEW c \in Clients, StoreId(c) PROVE FilesKept'
  BY <1>6 DEF StoreId, FilesKept, TypeOK, hist
<1>7. ASSUME NEW c \in Clients, OpenFile(c) PROVE FilesKept'
  <2>1. CASE /\ name' = [name EXCEPT ![cp[c]] = cid[c]] /\ disk' = Write(cid[c], Torn)
             /\ cpc' = [cpc EXCEPT ![c] = "close"]
    <3>1. DOMAIN disk' = DOMAIN disk \cup {cid[c]}
      BY <2>1, WriteFile
    <3>2. cp[c] \in submitted /\ cp[c] \in Problems
      BY <1>7 DEF OpenFile, Registering, TypeOK
    <3>3. cid[c] # NULL
      BY <1>0 DEF TypeOK
    <3> QED BY <1>7, <2>1, <3>1, <3>2, <3>3 DEF OpenFile, FilesKept, TypeOK, hist
  <2>2. CASE UNCHANGED <<id, name, status, disk>> /\ cpc' = [cpc EXCEPT ![c] = "refuse"]
    BY <1>7, <2>2 DEF OpenFile, FilesKept, TypeOK, hist
  <2> QED BY <1>7, <2>1, <2>2 DEF OpenFile
<1>8. ASSUME NEW c \in Clients, Flush(c) \/ CloseFile(c) PROVE FilesKept'
  <2>1. DOMAIN disk \subseteq DOMAIN disk'
    <3>1. UNCHANGED disk \/ \E contents : disk' = Write(name[cp[c]], contents)
      BY <1>8 DEF Flush, CloseFile
    <3>2. \A contents : DOMAIN disk \subseteq DOMAIN Write(name[cp[c]], contents)
      BY DEF Write
    <3> QED BY <3>1, <3>2
  <2>2. UNCHANGED <<name, cp, submitted, live>>
    BY <1>8 DEF Flush, CloseFile, heap, hist
  <2>3. \A d \in Clients : cpc'[d] \in {"close", "body", "insert"} =>
          cpc[d] \in {"close", "body", "insert"}
    BY <1>8 DEF Flush, CloseFile, TypeOK
  <2> QED BY <2>1, <2>2, <2>3 DEF FilesKept
<1>9. ASSUME NEW c \in Clients, InsertProblem(c) PROVE FilesKept'
  BY <1>9 DEF InsertProblem, FilesKept, TypeOK
<1>10. ASSUME NEW c \in Clients, Reply(c) PROVE FilesKept'
  BY <1>10 DEF Reply, FilesKept, TypeOK, heap
<1> QED BY <1>1, <1>2, <1>3, <1>4, <1>5, <1>6, <1>7, <1>8, <1>9, <1>10 DEF Next, Register

(* Only Boot takes the process out of the empty state a crash leaves.       *)
LEMMA DeadIsEmptyStep == Inv /\ [Next]_vars => DeadIsEmpty'
<1> SUFFICES ASSUME Inv, [Next]_vars PROVE DeadIsEmpty'
  OBVIOUS
<1> USE DEF Inv
<1>1. CASE UNCHANGED vars
  BY <1>1 DEF DeadIsEmpty, vars, heap, main, solve, reg, hist
<1>2. CASE Boot
  BY <1>2 DEF Boot, DeadIsEmpty
<1>3. CASE Crash
  BY <1>3 DEF Crash, DeadIsEmpty
<1>4. CASE Main
  BY <1>4, <1>1 DEF Main, MainCount, MainFull, MainExtract, MainExamine, MainEnqueue,
                    MainCreate, MainRequeue, NextRound, DeadIsEmpty
<1>5. ASSUME NEW p \in Problems, Solver(p) PROVE DeadIsEmpty'
  BY <1>5 DEF Solver, SolverStart, SolverWrite, SolverExtract, SolverInsert, DeadIsEmpty, main
<1>6. ASSUME NEW c \in Clients, TakeId(c) \/ Register(c) PROVE DeadIsEmpty'
  BY <1>6 DEF TakeId, Register, StoreId, OpenFile, Flush, CloseFile, InsertProblem, Reply,
              DeadIsEmpty, main
<1> QED BY <1>1, <1>2, <1>3, <1>4, <1>5, <1>6 DEF Next

(* A problem stays its client's alone until InsertProblem makes it live.    *)
LEMMA RegisteringStep == Inv /\ [Next]_vars => Registering'
<1> SUFFICES ASSUME Inv, [Next]_vars PROVE Registering'
  OBVIOUS
<1> USE DEF Inv
<1>0. NULL \notin Problems /\ NULL \notin Names
  BY ConstantsAssumption
<1>1. CASE UNCHANGED vars
  BY <1>1 DEF Registering, vars, heap, main, solve, reg, hist
<1>2. CASE Boot
  <2>1. Loadable \subseteq submitted
    BY <1>0 DEF Loadable, OnDisk, FilesKept, TypeOK
  <2> QED BY <1>2, <2>1, Booting DEF Boot, DeadIsEmpty, Registering, reg
<1>3. CASE Crash
  BY <1>3 DEF Crash, Registering
<1>4. CASE Main \/ \E p \in Problems : Solver(p)
  BY <1>4, InnerSteps DEF Registering
<1>5. ASSUME NEW c \in Clients, TakeId(c) PROVE Registering'
  BY <1>5, <1>0 DEF TakeId, Registering, TypeOK
<1>6. ASSUME NEW c \in Clients, StoreId(c) \/ OpenFile(c) \/ Flush(c) \/ CloseFile(c)
      PROVE  Registering'
  <2>1. /\ UNCHANGED <<live, submitted, cp>>
        /\ cpc[c] \in {"store", "open", "close", "body"}
    BY <1>6 DEF StoreId, OpenFile, Flush, CloseFile, hist
  <2>2. \A d \in Clients : d # c => cpc'[d] = cpc[d]
    BY <1>6 DEF StoreId, OpenFile, Flush, CloseFile, TypeOK
  <2> QED BY <2>1, <2>2 DEF Registering
<1>7. ASSUME NEW c \in Clients, InsertProblem(c) PROVE Registering'
  BY <1>7, <1>0 DEF InsertProblem, Registering, TypeOK
<1>8. ASSUME NEW c \in Clients, Reply(c) PROVE Registering'
  BY <1>8 DEF Reply, Registering, TypeOK
<1> QED BY <1>1, <1>2, <1>3, <1>4, <1>5, <1>6, <1>7, <1>8 DEF Next, Register

(* Where the problems are is disturbed only by the steps that move one. *)
LEMMA ConservedStep == Inv /\ [Next]_vars => Conserved'
<1> SUFFICES ASSUME Inv, [Next]_vars PROVE Conserved'
  OBVIOUS
<1> USE DEF Inv, InProblems, InQueue, WithMain, WithSolvers
<1>0. /\ NULL \notin Problems
      /\ Listing(problems, Problems) /\ Listing(problem_queue, Problems)
  BY ConstantsAssumption, ListsAreListings
<1>1. ASSUME UNCHANGED <<problems, problem_queue, sp, live>>, WithMain' = WithMain
      PROVE  Conserved'
  BY <1>1 DEF Conserved
<1>2. CASE UNCHANGED vars
  BY <1>2, <1>1 DEF vars, heap, main, solve, hist
<1>3. CASE Boot
  <2>1. /\ IsInjective(problems') /\ ToSet(problems') = live'
        /\ problem_queue' = <<>> /\ WithMain' = {} /\ \A p \in Problems : sp'[p] = NULL
    BY <1>3, Booting DEF Boot, Listing, DeadIsEmpty, solve
  <2>2. IsInjective(problem_queue') /\ ToSet(problem_queue') = {}
    BY <2>1, EmptyListing DEF Listing
  <2> QED BY <2>1, <2>2 DEF Conserved
<1>4. CASE Crash
  BY <1>4, EmptyListing DEF Crash, Conserved, Listing
<1>5. CASE MainCount \/ MainExamine \/ MainCreate
  BY <1>5, <1>1 DEF MainCount, MainExamine, MainCreate, NextRound, heap, solve, hist
<1>6. CASE MainExtract
  <2>1. CASE problems = <<>>
    BY <1>6, <2>1, <1>1 DEF MainExtract, solve, hist
  <2>2. CASE problems # <<>>
    <3>1. /\ Listing(problems', Problems) /\ mp' \in ToSet(problems)
          /\ ToSet(problems') = ToSet(problems) \ {mp'}
      <4>1. mp' = Head(problems) /\ problems' = Tail(problems)
        BY <1>6, <2>2 DEF MainExtract
      <4>2. /\ Head(problems) \in ToSet(problems) /\ Listing(Tail(problems), Problems)
            /\ ToSet(Tail(problems)) = ToSet(problems) \ {Head(problems)}
        BY <1>0, <2>2, TailListing
      <4> QED BY <4>1, <4>2
    <3>2. WithMain = {} /\ WithMain' = {mp'} /\ UNCHANGED <<problem_queue, sp, live>>
      BY <1>6, <2>2 DEF MainExtract, solve, hist
    <3> QED BY <3>1, <3>2 DEF Conserved, Listing
  <2> QED BY <2>1, <2>2
<1>7. CASE MainEnqueue
  <2>1. mp \in Problems /\ mp \notin ToSet(problem_queue) /\ mp # NULL
    BY <1>7, <1>0 DEF MainEnqueue, TypeOK, Conserved
  <2>2. problem_queue' = Append(problem_queue, mp)
    BY <1>7, <2>1 DEF MainEnqueue, Inserted
  <2>3. /\ Listing(problem_queue', Problems)
        /\ ToSet(problem_queue') = ToSet(problem_queue) \cup {mp}
    BY <2>1, <2>2, <1>0, AppendListing
  <2>4. WithMain = {mp} /\ WithMain' = {} /\ UNCHANGED <<problems, sp, live>>
    BY <1>7 DEF MainEnqueue, solve, hist
  <2> QED BY <2>3, <2>4 DEF Conserved, Listing
<1>8. CASE MainRequeue
  <2>1. mp \in Problems /\ mp \notin ToSet(problems) /\ mp # NULL
    BY <1>8, <1>0 DEF MainRequeue, TypeOK, Conserved
  <2>2. problems' = Append(problems, mp)
    BY <1>8, <2>1 DEF MainRequeue, Inserted
  <2>3. Listing(problems', Problems) /\ ToSet(problems') = ToSet(problems) \cup {mp}
    BY <2>1, <2>2, <1>0, AppendListing
  <2>4. WithMain = {mp} /\ WithMain' = {} /\ UNCHANGED <<problem_queue, sp, live>>
    BY <1>8 DEF MainRequeue, NextRound, solve, hist
  <2> QED BY <2>3, <2>4 DEF Conserved, Listing
<1>9. ASSUME NEW p \in Problems, SolverStart(p) \/ SolverWrite(p) PROVE Conserved'
  BY <1>9, <1>1 DEF SolverStart, SolverWrite, heap, main, hist
<1>10. ASSUME NEW p \in Problems, SolverExtract(p) PROVE Conserved'
  <2>1. sp[p] = NULL
    BY <1>10 DEF SolverExtract, Working
  <2>2. UNCHANGED <<problems, mpc, mp, live>>
    BY <1>10 DEF SolverExtract, main, hist
  <2>3. CASE UNCHANGED problem_queue /\ sp' = [sp EXCEPT ![p] = NULL]
    <3>1. sp' = sp
      BY <2>1, <2>3 DEF TypeOK
    <3> QED BY <1>1, <2>2, <2>3, <3>1
  <2>4. ASSUME NEW i \in 1 .. Len(problem_queue),
               sp' = [sp EXCEPT ![p] = problem_queue[i]],
               problem_queue' = RemoveAt(problem_queue, i)
        PROVE  Conserved'
    <3> DEFINE q == problem_queue[i]
    <3>1. /\ q \in Problems /\ q \in ToSet(problem_queue)
          /\ Listing(problem_queue', Problems)
          /\ ToSet(problem_queue') = ToSet(problem_queue) \ {q}
      BY <2>4, <1>0, RemoveListing
    <3>2. /\ sp'[p] = q /\ \A r \in Problems \ {p} : sp'[r] = sp[r]
          /\ sp' \in [Problems -> Problems \cup {NULL}]
      BY <2>4, <3>1 DEF TypeOK
    <3> HIDE DEF q
    <3>3. WithSolvers' = WithSolvers \cup {q}
      BY <2>1, <3>1, <3>2, <1>0
    <3>4. \A a, b \in Problems : sp'[a] = sp'[b] => a = b \/ sp'[a] = NULL
      BY <3>1, <3>2 DEF Conserved
    <3>5. WithMain' = WithMain
      BY <2>2
    <3> DEFINE hand == WithSolvers
               with == WithMain
    <3>6. /\ ToSet(problems) \cup ToSet(problem_queue) \cup with \cup hand = live
          /\ ToSet(problems) \cap ToSet(problem_queue) = {}
          /\ (with \cup hand) \cap (ToSet(problems) \cup ToSet(problem_queue)) = {}
          /\ with \cap hand = {} /\ IsInjective(problems)
      BY DEF Conserved
    <3>7. hand' = hand \cup {q} /\ with' = with
      BY <3>3, <3>5
    <3>8. IsInjective(problem_queue')
      BY <3>1 DEF Listing
    <3> HIDE DEF hand, with
    <3>9. /\ ToSet(problems) \cup ToSet(problem_queue') \cup with' \cup hand' = live
          /\ ToSet(problems) \cap ToSet(problem_queue') = {}
          /\ (with' \cup hand') \cap (ToSet(problems) \cup ToSet(problem_queue')) = {}
          /\ with' \cap hand' = {}
      BY <3>1, <3>6, <3>7
    <3> USE DEF hand, with
    <3> QED BY <2>2, <3>4, <3>6, <3>8, <3>9 DEF Conserved
  <2> QED BY <1>10, <2>3, <2>4 DEF SolverExtract
<1>11. ASSUME NEW p \in Problems, SolverInsert(p) PROVE Conserved'
  <2>1. UNCHANGED <<problem_queue, mpc, mp, live>> /\ sp' = [sp EXCEPT ![p] = NULL]
    BY <1>11 DEF SolverInsert, main, hist
  <2>2. CASE sp[p] = NULL
    <3>1. UNCHANGED <<problems, sp>>
      BY <1>11, <2>1, <2>2 DEF SolverInsert, Inserted, TypeOK
    <3> QED BY <1>1, <2>1, <3>1
  <2>3. CASE sp[p] # NULL
    <3> DEFINE q == sp[p]
    <3>1. q \in Problems /\ q \notin ToSet(problems)
      BY <2>3 DEF TypeOK, Conserved
    <3>2. problems' = Append(problems, q)
      BY <1>11, <2>3 DEF SolverInsert, Inserted
    <3>3. Listing(problems', Problems) /\ ToSet(problems') = ToSet(problems) \cup {q}
      BY <3>1, <3>2, <1>0, AppendListing
    <3>4. sp'[p] = NULL /\ \A r \in Problems \ {p} : sp'[r] = sp[r]
      BY <2>1 DEF TypeOK
    <3>5. WithSolvers' = WithSolvers \ {q}
      BY <2>3, <3>4 DEF Conserved
    <3>6. \A a, b \in Problems : sp'[a] = sp'[b] => a = b \/ sp'[a] = NULL
      BY <3>4 DEF Conserved
    <3>7. q \in WithSolvers
      BY <2>3
    <3> HIDE DEF q
    <3>8. WithMain' = WithMain
      BY <2>1
    <3> DEFINE hand == WithSolvers
               with == WithMain
    <3>9. /\ ToSet(problems) \cup ToSet(problem_queue) \cup with \cup hand = live
          /\ ToSet(problems) \cap ToSet(problem_queue) = {}
          /\ (with \cup hand) \cap (ToSet(problems) \cup ToSet(problem_queue)) = {}
          /\ with \cap hand = {} /\ IsInjective(problem_queue)
      BY DEF Conserved
    <3>10. hand' = hand \ {q} /\ with' = with /\ q \in hand
      BY <3>5, <3>7, <3>8
    <3>11. IsInjective(problems')
      BY <3>3 DEF Listing
    <3> HIDE DEF hand, with
    <3>12. /\ ToSet(problems') \cup ToSet(problem_queue) \cup with' \cup hand' = live
           /\ ToSet(problems') \cap ToSet(problem_queue) = {}
           /\ (with' \cup hand') \cap (ToSet(problems') \cup ToSet(problem_queue)) = {}
           /\ with' \cap hand' = {}
      BY <3>3, <3>9, <3>10
    <3> USE DEF hand, with
    <3> QED BY <2>1, <3>6, <3>9, <3>11, <3>12 DEF Conserved
  <2> QED BY <2>2, <2>3
<1>12. ASSUME NEW c \in Clients,
              TakeId(c) \/ StoreId(c) \/ OpenFile(c) \/ Flush(c) \/ CloseFile(c) \/ Reply(c)
       PROVE  Conserved'
  BY <1>12, <1>1 DEF TakeId, StoreId, OpenFile, Flush, CloseFile, Reply, heap, main, solve, hist
<1>13. ASSUME NEW c \in Clients, InsertProblem(c) PROVE Conserved'
  <2> DEFINE q == cp[c]
  <2>1. q \in Problems /\ q \notin live /\ q # NULL
    BY <1>13, <1>0 DEF InsertProblem, Registering, TypeOK
  <2>2. /\ problems' = Append(problems, q) /\ live' = live \cup {q}
        /\ UNCHANGED <<problem_queue, mpc, mp, sp>>
    BY <1>13, <2>1 DEF InsertProblem, Inserted, main, solve
  <2> HIDE DEF q
  <2>3. q \notin ToSet(problems)
    BY <2>1 DEF Conserved
  <2>4. Listing(problems', Problems) /\ ToSet(problems') = ToSet(problems) \cup {q}
    BY <2>1, <2>2, <2>3, <1>0, AppendListing
  <2> QED BY <2>1, <2>2, <2>4 DEF Conserved, Listing
<1> QED BY <1>2, <1>3, <1>4, <1>5, <1>6, <1>7, <1>8, <1>9, <1>10, <1>11, <1>12, <1>13
        DEF Next, Main, MainFull, Solver, Register

(* A solver thread never makes the queue longer. *)
LEMMA SolverShortens ==
  ASSUME Inv, NEW p \in Problems, SolverExtract(p)
  PROVE  Len(problem_queue') <= Len(problem_queue)
<1>1. Listing(problem_queue, Problems) /\ Len(problem_queue) \in Nat
  BY ListsAreListings, LenProperties DEF Listing
<1>2. CASE UNCHANGED problem_queue
  BY <1>1, <1>2
<1>3. ASSUME NEW i \in 1 .. Len(problem_queue), problem_queue' = RemoveAt(problem_queue, i)
      PROVE  Len(problem_queue') <= Len(problem_queue)
  <2>1. Len(RemoveAt(problem_queue, i)) = Len(problem_queue) - 1
    BY <1>1, RemoveListing
  <2> QED BY <1>1, <1>3, <2>1
<1> QED BY <1>2, <1>3 DEF SolverExtract

(* The status decides who works on a problem: examining one that is new     *)
(* finds it without a thread, and registrations make only unlisted ones new. *)
LEMMA WorkingStep == Inv /\ [Next]_vars => Working'
<1> SUFFICES ASSUME Inv, [Next]_vars PROVE Working'
  OBVIOUS
<1> USE DEF Inv
<1>0. /\ NULL \notin Problems /\ Listing(problems, Problems)
      /\ Len(problem_queue) \in Nat /\ QueueSize \in Nat
  BY ConstantsAssumption, ListsAreListings, LenProperties DEF Listing
<1>1. CASE UNCHANGED vars
  BY <1>1 DEF Working, vars, heap, main, solve, reg, hist
<1>2. CASE Boot
  BY <1>2 DEF Boot, Working, DeadIsEmpty, TypeOK, solve
<1>3. CASE Crash
  BY <1>3 DEF Crash, Working
<1>4. CASE MainCount
  BY <1>4 DEF MainCount, Room, Working, heap, solve, hist
<1>5. CASE MainExtract
  <2>1. CASE problems = <<>>
    BY <1>5, <2>1 DEF MainExtract, Working, TypeOK, solve, hist
  <2>2. CASE problems # <<>>
    <3>1. Head(problems) \in live
      BY <1>0, <2>2, TailListing DEF Conserved, InProblems
    <3> QED BY <1>5, <2>2, <3>1 DEF MainExtract, Working, solve, hist
  <2> QED BY <2>1, <2>2
<1>6. CASE MainExamine
  <2>1. mp \in Problems
    BY <1>6 DEF MainExamine, TypeOK
  <2> QED BY <1>6, <2>1 DEF MainExamine, Claim, Working, TypeOK, solve, hist
<1>7. CASE MainEnqueue
  BY <1>7 DEF MainEnqueue, Working, solve, hist
<1>8. CASE MainCreate
  <2>1. mp \in Problems
    BY <1>8 DEF MainCreate, TypeOK
  <2> QED BY <1>8, <2>1 DEF MainCreate, NextRound, Working, TypeOK, heap, hist
<1>9. CASE MainRequeue
  BY <1>9 DEF MainRequeue, NextRound, Working, solve, hist
<1>10. ASSUME NEW p \in Problems, SolverStart(p) PROVE Working'
  BY <1>10 DEF SolverStart, Working, TypeOK, main, hist
<1>11. ASSUME NEW p \in Problems, SolverWrite(p) PROVE Working'
  BY <1>11 DEF SolverWrite, Working, TypeOK, heap, main, hist
<1>12. ASSUME NEW p \in Problems, SolverExtract(p) PROVE Working'
  <2>1. /\ spc' = [spc EXCEPT ![p] = "insert"] /\ spc[p] = "extract"
        /\ UNCHANGED <<status, mpc, mp, live>>
    BY <1>12 DEF SolverExtract, main, hist
  <2>2. \A q \in Problems \ {p} : sp'[q] = sp[q]
    BY <1>12 DEF SolverExtract, TypeOK
  <2>3. mpc' \in {"extract", "examine", "enqueue"} => Len(problem_queue') < QueueSize
    <3>1. Len(problem_queue') <= Len(problem_queue)
      BY <1>12, SolverShortens
    <3>2. Len(problem_queue') \in Nat
      BY TypeStep, LenProperties DEF TypeOK
    <3> QED BY <1>0, <2>1, <3>1, <3>2 DEF Working
  <2> QED BY <2>1, <2>2, <2>3 DEF Working, TypeOK
<1>13. ASSUME NEW p \in Problems, SolverInsert(p) PROVE Working'
  BY <1>13 DEF SolverInsert, Working, TypeOK, main, hist
<1>14. ASSUME NEW c \in Clients,
              TakeId(c) \/ StoreId(c) \/ Flush(c) \/ CloseFile(c) \/ Reply(c)
       PROVE  Working'
  BY <1>14 DEF TakeId, StoreId, Flush, CloseFile, Reply, Working, heap, main, solve, hist
<1>15. ASSUME NEW c \in Clients, OpenFile(c) PROVE Working'
  <2>1. cp[c] \in Problems /\ cp[c] \notin live
    BY <1>15 DEF OpenFile, Registering, TypeOK
  <2>2. \A q \in Problems : status'[q] = status[q] \/ (q = cp[c] /\ status'[q] = "N")
    BY <1>15 DEF OpenFile, TypeOK
  <2>3. UNCHANGED <<problem_queue, mpc, mp, spc, sp, live>>
    BY <1>15 DEF OpenFile, main, solve, hist
  <2> QED BY <2>1, <2>2, <2>3 DEF Working, TypeOK
<1>16. ASSUME NEW c \in Clients, InsertProblem(c) PROVE Working'
  BY <1>16 DEF InsertProblem, Working, main, solve
<1> QED BY <1>1, <1>2, <1>3, <1>4, <1>5, <1>6, <1>7, <1>8, <1>9, <1>10, <1>11, <1>12,
           <1>13, <1>14, <1>15, <1>16
        DEF Next, Main, MainFull, Solver, Register

(* Only the main loop makes the queue longer, and only where it has room. *)
LEMMA QueueBoundedStep == Inv /\ [Next]_vars => QueueBounded'
<1> SUFFICES ASSUME Inv, [Next]_vars PROVE QueueBounded'
  OBVIOUS
<1> USE DEF Inv
<1>0. /\ NULL \notin Problems /\ QueueSize \in Nat
      /\ Listing(problem_queue, Problems) /\ Len(problem_queue) \in Nat
  BY ConstantsAssumption, ListsAreListings, LenProperties DEF Listing
<1>1. CASE UNCHANGED problem_queue
  BY <1>1 DEF QueueBounded
<1>2. CASE Crash
  BY <1>2, <1>0, EmptyListing DEF Crash, QueueBounded
<1>3. CASE MainEnqueue
  <2>1. mp \in Problems /\ mp \notin ToSet(problem_queue)
    BY <1>3, <1>0 DEF MainEnqueue, TypeOK, Conserved, WithMain, InQueue
  <2>2. problem_queue' = Append(problem_queue, mp)
    BY <1>3, <1>0, <2>1 DEF MainEnqueue, Inserted
  <2>3. Len(problem_queue') = Len(problem_queue) + 1
    BY <1>0, <2>1, <2>2, AppendListing
  <2>4. Len(problem_queue) < QueueSize
    BY <1>3 DEF MainEnqueue, Working
  <2> QED BY <1>0, <2>3, <2>4 DEF QueueBounded
<1>4. ASSUME NEW p \in Problems, SolverExtract(p) PROVE QueueBounded'
  <2>1. Len(problem_queue') <= Len(problem_queue) /\ Len(problem_queue') \in Nat
    BY <1>4, SolverShortens, TypeStep, LenProperties DEF TypeOK
  <2> QED BY <1>0, <2>1 DEF QueueBounded
<1>5. ASSUME NEW p \in Problems, SolverStart(p) \/ SolverWrite(p) \/ SolverInsert(p)
      PROVE  QueueBounded'
  BY <1>5, <1>1 DEF SolverStart, SolverWrite, SolverInsert, heap
<1>6. ASSUME NEW c \in Clients, TakeId(c) \/ Register(c) PROVE QueueBounded'
  BY <1>6, <1>1 DEF TakeId, Register, StoreId, OpenFile, Flush, CloseFile, InsertProblem,
                    Reply, heap
<1> QED BY <1>1, <1>2, <1>3, <1>4, <1>5, <1>6
        DEF Next, Main, Boot, MainCount, MainFull, MainExtract, MainExamine, MainCreate,
            MainRequeue, Solver, vars, heap

-----------------------------------------------------------------------------
(* The inductive invariant holds of every state the daemon reaches: the     *)
(* argument for every theorem below.                                        *)
THEOREM Invariance == Spec => []Inv
<1>1. Inv /\ [Next]_vars => Inv'
  BY TypeStep, FilesKeptStep, DeadIsEmptyStep, RegisteringStep, WorkingStep,
     ConservedStep, QueueBoundedStep DEF Inv
<1> QED BY InitInv, <1>1, PTL DEF Spec

(* Every variable keeps its type, over restarts and failures too. *)
THEOREM TypeCorrect == Spec => []TypeOK
<1>1. Inv => TypeOK
  BY DEF Inv
<1> QED BY Invariance, <1>1, PTL

(* Every problem the process has loaded or accepted is in exactly one place, *)
(* the list, the queue or one thread's hands (main.c, 66-82; aiqbd.c,        *)
(* 161-179), whatever the interleaving of the threads.                       *)
THEOREM NothingLost == Spec => []Conserved
<1>1. Inv => Conserved
  BY DEF Inv
<1> QED BY Invariance, <1>1, PTL

(* The queue of problems in progress never outgrows problem_queue_size, for  *)
(* any number of solver threads and registrations (main.c, 67 and 73).       *)
THEOREM QueueStaysBounded == Spec => []QueueBounded
<1>1. Inv => QueueBounded
  BY DEF Inv
<1> QED BY Invariance, <1>1, PTL

(* When the main loop starts a solver thread for a problem (main.c, 74), the *)
(* problem has none, even with several problems of the same id.              *)
THEOREM NoSecondSolver == Spec => []OneSolver
<1>1. Inv => OneSolver
  BY DEF Inv, Working, OneSolver
<1> QED BY Invariance, <1>1, PTL

-----------------------------------------------------------------------------
(* Memory and files together. *)

(* A problem gets its name once, and the name says the id, except for a file *)
(* that was there under a name of its own.                                   *)
Naming ==
  /\ \A p \in Preloaded : name[p] = InitName[p] /\ id[p] = InitId[p] /\ p \in submitted
  /\ \A p \in Problems \ Preloaded : name[p] # NULL => name[p] = id[p]
  /\ \A p \in acked : name[p] # NULL
  /\ \A c \in Clients : cpc[c] # "idle" => cp[c] \notin Preloaded \cup acked
  /\ \A c \in Clients : cpc[c] \in {"store", "open", "refuse"} => name[cp[c]] = NULL
  /\ \A c \in Clients : cpc[c] = "reply" => cp[c] \in live
  /\ unsaved \cap Preloaded = {}

(* The status in memory follows the thread. *)
StatusFollows ==
  /\ \A c \in Clients : cpc[c] \in {"close", "body", "insert"} => status[cp[c]] = "N"
  /\ mpc \in {"enqueue", "create"} => status[mp] = "I"
  /\ \A p \in Problems : spc[p] = "start" => status[p] = "I"
  /\ \A p \in Problems : spc[p] \in {"write", "extract", "insert"} => status[p] = "S"

(* The problems whose contents were written to the last byte. *)
Kept == (Preloaded \cup acked \cup {cp[c] : c \in {d \in Clients : cpc[d] \in {"insert", "reply"}}})
          \ unsaved

(* A file that one problem alone was given the name of holds that problem or *)
(* nothing yet.                                                              *)
Mine(p) ==
  /\ disk[name[p]] = Torn \/ disk[name[p]].prob = p
  /\ p \in live \ unsaved => disk[name[p]].prob = p
  /\ p \in Kept => disk[name[p]].prob = p /\ disk[name[p]].whole
  /\ \A c \in Clients : cp[c] = p =>
       /\ cpc[c] \in {"close", "body", "insert"} => disk[name[p]].status # "S"
       /\ cpc[c] = "body" => disk[name[p]].prob = p
  /\ p \in live /\ disk[name[p]].status = "S" => status[p] = "S"
  /\ p \in live /\ status[p] = "S" /\ spc[p] # "write" /\ p \notin unserved
       => disk[name[p]].status = "S"
OwnFile == \A p \in Problems : name[p] # NULL /\ ~Twin(p) => Mine(p)

(* As long as the counter counts right every problem with an id is told apart *)
(* by it from all others and no file is ever taken over.                      *)
Writing == {cp[c] : c \in {d \in Clients : cpc[d] \in {"close", "body", "insert"}}}
Owners == Loadable \cup live \cup Writing
CounterAhead ==
  /\ \A p \in Owners : id[p] < auto_increment
  /\ \A c \in Clients :
       /\ cpc[c] = "store" => cid[c] = auto_increment
       /\ cpc[c] = "open" => cid[c] < auto_increment /\ \A p \in Owners : id[p] # cid[c]
  /\ \A c, d \in Clients :
       cpc[c] \in {"store", "open"} /\ cpc[d] \in {"store", "open"} /\ cid[c] = cid[d] => c = d
NothingTaken ==
  ~miscounted =>
    /\ Kept \cup (live \ unsaved) \subseteq Loadable
    /\ \A p \in Kept : disk[name[p]].whole
    /\ \A c \in Clients : cpc[c] = "body" => cp[c] \in Loadable
    /\ \A p, q \in Owners : p # q /\ p \notin Preloaded => id[p] # id[q]
    /\ mpc # "down" => CounterAhead

FilesInv == Naming /\ StatusFollows /\ OwnFile /\ NothingTaken

-----------------------------------------------------------------------------
(* Every solver thread that has not extracted yet has an element of the queue *)
(* of its id to itself: the one that was enqueued for it, or one for which it *)
(* was exchanged when another thread of the same id took that one.            *)
Waiting ==
  {p \in Problems : spc[p] \in {"start", "write", "extract"}}
    \cup (IF mpc = "create" THEN {mp} ELSE {})
Pairing(f, W, Q) ==
  /\ \A p \in W : f[p] \in Q /\ id[f[p]] = id[p]
  /\ \A p, q \in W : f[p] = f[q] => p = q
Paired == \E f \in [Waiting -> Problems] : Pairing(f, Waiting, InQueue)

-----------------------------------------------------------------------------
(* What opening the file does when it succeeds, and when it fails.            *)
LEMMA Opening ==
  ASSUME Inv, Naming, NEW c \in Clients, OpenFile(c)
  PROVE  /\ cpc[c] = "open" /\ cp[c] \in Problems \ Preloaded /\ cp[c] \notin live \cup acked
         /\ cp[c] \in submitted /\ name[cp[c]] = NULL /\ cid[c] \in Nat
         /\ UNCHANGED <<problems, problem_queue, auto_increment, mpc, mp, spc, sp, cp, cid,
                        submitted, live, acked, unsaved, miscounted, unserved>>
         /\ \A p \in Problems : p # cp[c] =>
              name'[p] = name[p] /\ id'[p] = id[p] /\ status'[p] = status[p]
         /\ \A d \in Clients : d # c =>
              cpc'[d] = cpc[d] /\ (cpc[d] # "idle" => cp[d] # cp[c] /\ cp[d] \in Problems)
         /\ \/ /\ disk' = Write(cid[c], Torn) /\ cpc'[c] = "close"
               /\ id'[cp[c]] = cid[c] /\ name'[cp[c]] = cid[c] /\ status'[cp[c]] = "N"
            \/ UNCHANGED <<id, name, status, disk>> /\ cpc'[c] = "refuse"
<1>0. /\ id \in [Problems -> Nat] /\ status \in [Problems -> Status]
      /\ name \in [Problems -> Names \cup {NULL}]
      /\ cpc \in [Clients -> {"idle", "store", "open", "close", "body", "insert", "reply", "refuse"}]
      /\ cp \in [Clients -> Problems \cup {NULL}] /\ cid \in [Clients -> Nat]
      /\ \A d \in Clients : cpc[d] # "idle" <=> cp[d] # NULL
  BY DEF Inv, TypeOK
<1>1. cpc[c] = "open" /\ cp[c] \in Problems /\ cid[c] \in Nat
  BY <1>0 DEF OpenFile
<1>2. /\ cp[c] \notin live \cup acked /\ cp[c] \in submitted /\ cp[c] \notin Preloaded
      /\ name[cp[c]] = NULL
  BY <1>1 DEF Inv, Registering, Naming
<1>3. \A d \in Clients : d # c /\ cpc[d] # "idle" => cp[d] # cp[c] /\ cp[d] \in Problems
  BY <1>0, <1>1, ConstantsAssumption DEF Inv, Registering
<1>4. CASE /\ disk' = Write(cid[c], Torn) /\ cpc' = [cpc EXCEPT ![c] = "close"]
           /\ id' = [id EXCEPT ![cp[c]] = cid[c]]
           /\ name' = [name EXCEPT ![cp[c]] = cid[c]]
           /\ status' = [status EXCEPT ![cp[c]] = "N"]
  <2>1. /\ cpc'[c] = "close" /\ \A d \in Clients : d # c => cpc'[d] = cpc[d]
    BY <1>0, <1>4
  <2>2. /\ id'[cp[c]] = cid[c] /\ name'[cp[c]] = cid[c] /\ status'[cp[c]] = "N"
        /\ \A p \in Problems : p # cp[c] =>
             name'[p] = name[p] /\ id'[p] = id[p] /\ status'[p] = status[p]
    BY <1>0, <1>1, <1>4
  <2> QED BY <1>1, <1>2, <1>3, <1>4, <2>1, <2>2 DEF OpenFile, main, solve, hist
<1>5. CASE UNCHANGED <<id, name, status, disk>> /\ cpc' = [cpc EXCEPT ![c] = "refuse"]
  <2>1. /\ cpc'[c] = "refuse" /\ \A d \in Clients : d # c => cpc'[d] = cpc[d]
    BY <1>0, <1>5
  <2> QED BY <1>1, <1>2, <1>3, <1>5, <2>1 DEF OpenFile, main, solve, hist
<1> QED BY <1>4, <1>5 DEF OpenFile

(* What writing into the file does, when there is room for it and when not.    *)
LEMMA Filling ==
  ASSUME Inv, Naming, NEW c \in Clients, Flush(c) \/ CloseFile(c)
  PROVE  /\ cpc[c] \in {"close", "body"} /\ cp[c] \in Problems \ Preloaded
         /\ cp[c] \notin live \cup acked /\ cp[c] \in submitted
         /\ name[cp[c]] # NULL /\ name[cp[c]] \in DOMAIN disk
         /\ UNCHANGED <<id, name, status, problem_queue, auto_increment, mpc, mp, spc, sp, cp,
                        cid, submitted, live, acked, miscounted, unserved>>
         /\ \A d \in Clients : d # c =>
              cpc'[d] = cpc[d] /\ (cpc[d] # "idle" => cp[d] # cp[c] /\ cp[d] \in Problems)
         /\ \/ /\ disk' = Write(name[cp[c]], Part(cp[c]))
               /\ cpc'[c] = "body" /\ unsaved' = unsaved
            \/ /\ disk' = Write(name[cp[c]], Completed(disk[name[cp[c]]], cp[c], cpc[c]))
               /\ cpc'[c] = "insert" /\ unsaved' = unsaved
            \/ disk' = disk /\ cpc'[c] = "insert" /\ unsaved' = unsaved \cup {cp[c]}
<1>0. /\ cpc \in [Clients -> {"idle", "store", "open", "close", "body", "insert", "reply", "refuse"}]
      /\ cp \in [Clients -> Problems \cup {NULL}]
      /\ \A d \in Clients : cpc[d] # "idle" <=> cp[d] # NULL
  BY DEF Inv, TypeOK
<1>1. cpc[c] \in {"close", "body"} /\ cp[c] \in Problems
  BY <1>0 DEF Flush, CloseFile
<1>2. /\ cp[c] \notin live /\ cp[c] \in submitted /\ cp[c] \notin Preloaded \cup acked
      /\ name[cp[c]] # NULL /\ name[cp[c]] \in DOMAIN disk
  BY <1>1 DEF Inv, Registering, FilesKept, Naming
<1>3. \A d \in Clients : d # c /\ cpc[d] # "idle" => cp[d] # cp[c] /\ cp[d] \in Problems
  BY <1>0, <1>1, ConstantsAssumption DEF Inv, Registering
<1>4. \A d \in Clients : d # c => cpc'[d] = cpc[d]
  BY <1>0 DEF Flush, CloseFile
<1>5. \/ /\ disk' = Write(name[cp[c]], Part(cp[c]))
         /\ cpc'[c] = "body" /\ unsaved' = unsaved
      \/ /\ disk' = Write(name[cp[c]], Completed(disk[name[cp[c]]], cp[c], cpc[c]))
         /\ cpc'[c] = "insert" /\ unsaved' = unsaved
      \/ disk' = disk /\ cpc'[c] = "insert" /\ unsaved' = unsaved \cup {cp[c]}
  BY <1>0 DEF Flush, CloseFile, hist
<1>6. UNCHANGED <<id, name, status, problem_queue, auto_increment, mpc, mp, spc, sp, cp,
                  cid, submitted, live, acked, miscounted, unserved>>
  BY DEF Flush, CloseFile, heap, main, solve, hist
<1> QED BY <1>1, <1>2, <1>3, <1>4, <1>5, <1>6

(* Only opening a file names a problem, and one that had no name. *)
LEMMA NamesStay ==
  ASSUME Inv, Naming, [Next]_vars, NEW p \in Problems, name[p] # NULL
  PROVE  name'[p] = name[p] /\ id'[p] = id[p]
<1>1. ASSUME NEW c \in Clients, OpenFile(c) PROVE name'[p] = name[p] /\ id'[p] = id[p]
  BY <1>1, Opening
<1>2. CASE UNCHANGED <<id, name>>
  BY <1>2
<1>3. CASE Main \/ \E q \in Problems : Solver(q)
  BY <1>2, <1>3, InnerSteps
<1> QED BY <1>1, <1>2, <1>3
        DEF Next, Boot, Crash, Register, TakeId, StoreId, Flush, CloseFile, InsertProblem, Reply,
            vars, heap

(* Once two problems share a name they always do. *)
LEMMA TwinsStay ==
  ASSUME Inv, Naming, [Next]_vars, NEW p \in Problems, Twin(p)
  PROVE  Twin(p)'
<1>1. submitted \subseteq submitted' /\ submitted \subseteq Problems
  <2>1. CASE Main \/ \E q \in Problems : Solver(q)
    BY <2>1, InnerSteps DEF Inv, TypeOK
  <2> QED BY <2>1 DEF Next, Boot, Crash, Register, TakeId, StoreId, OpenFile, Flush, CloseFile,
                      InsertProblem, Reply, vars, reg, Inv, TypeOK
<1>2. PICK q \in submitted \ {p} : name[q] # NULL /\ name[q] = name[p]
  BY DEF Twin
<1>3. name'[q] = name[q] /\ name'[p] = name[p]
  BY <1>1, <1>2, NamesStay
<1> QED BY <1>1, <1>2, <1>3 DEF Twin

(* Names and ids change together, and only where there was none. *)
LEMMA NamingStep ==
  ASSUME Inv, Naming, [Next]_vars
  PROVE  Naming'
<1>0. NULL \notin Problems /\ NULL \notin Names /\ Preloaded \subseteq Problems
      /\ \A p \in Preloaded : InitName[p] # NULL
  BY ConstantsAssumption
<1>1. CASE UNCHANGED <<id, name, cpc, cp, submitted, acked, live, unsaved>>
  BY <1>1 DEF Naming
<1>2. CASE Boot
  BY <1>2 DEF Boot, Naming, Inv, DeadIsEmpty, reg
<1>3. CASE Crash
  BY <1>3 DEF Crash, Naming
<1>4. CASE Main \/ \E p \in Problems : Solver(p)
  BY <1>1, <1>4, InnerSteps
<1>5. ASSUME NEW c \in Clients, TakeId(c) PROVE Naming'
  <2>1. PICK p \in Problems \ submitted :
          cp' = [cp EXCEPT ![c] = p] /\ submitted' = submitted \cup {p}
    BY <1>5 DEF TakeId
  <2>2. name[p] = NULL /\ p \notin Preloaded \cup acked
    BY <2>1 DEF Naming, Inv, FilesKept
  <2>3. cpc' = [cpc EXCEPT ![c] = "store"] /\ UNCHANGED <<id, name, acked, live, unsaved>>
    BY <1>5 DEF TakeId, heap
  <2> QED BY <2>1, <2>2, <2>3 DEF Naming, Inv, TypeOK
<1>6. ASSUME NEW c \in Clients, StoreId(c) PROVE Naming'
  BY <1>6 DEF StoreId, Naming, Inv, TypeOK, hist
<1>7. ASSUME NEW c \in Clients, OpenFile(c) PROVE Naming'
  <2>1. acked \subseteq Problems
    BY DEF Inv, TypeOK
  <2> QED BY <1>7, <1>0, <2>1, Opening DEF Naming
<1>8. ASSUME NEW c \in Clients, Flush(c) \/ CloseFile(c) PROVE Naming'
  BY <1>8, Filling DEF Naming
<1>9. ASSUME NEW c \in Clients, InsertProblem(c) PROVE Naming'
  BY <1>9 DEF InsertProblem, Naming, Inv, TypeOK
<1>10. ASSUME NEW c \in Clients, Reply(c) PROVE Naming'
  <2>1. cpc[c] = "reply" => name[cp[c]] # NULL
    BY <1>10 DEF Naming, Inv, FilesKept
  <2>2. \A d \in Clients : d # c /\ cpc[d] # "idle" => cp[d] # cp[c]
    BY <1>0 DEF Inv, Registering, TypeOK
  <2> QED BY <1>10, <2>1, <2>2 DEF Reply, Naming, Inv, TypeOK, heap
<1> QED BY <1>1, <1>2, <1>3, <1>4, <1>5, <1>6, <1>7, <1>8, <1>9, <1>10
        DEF Next, Register, vars, heap, reg, hist

(* A problem being registered is new until the main loop can see it. *)
LEMMA StatusFollowsStep ==
  ASSUME Inv, Naming, StatusFollows, [Next]_vars
  PROVE  StatusFollows'
<1> USE DEF Inv
<1>0. NULL \notin Problems /\ (mpc \in {"enqueue", "create", "examine"} => mp \in Problems)
  BY ConstantsAssumption DEF TypeOK
<1>1. CASE UNCHANGED <<status, mpc, mp, spc, cpc, cp>>
  BY <1>1 DEF StatusFollows
<1>2. CASE Boot
  BY <1>2 DEF Boot, StatusFollows, DeadIsEmpty, solve, reg
<1>3. CASE Crash
  BY <1>3 DEF Crash, StatusFollows
<1>4. CASE MainCount \/ MainExtract \/ MainRequeue
  BY <1>4 DEF MainCount, MainExtract, MainRequeue, NextRound, StatusFollows, heap, solve, reg
<1>5. CASE MainExamine
  <2>1. mp \in Problems /\ mp \in live
    BY <1>5 DEF MainExamine, TypeOK, Working
  <2>2. \A c \in Clients : cpc[c] \in {"close", "body", "insert"} => cp[c] # mp /\ cp[c] \in Problems
    BY <2>1 DEF Registering, TypeOK
  <2>3. status[mp] = "N" => spc[mp] = "none"
    BY <2>1 DEF Working
  <2> QED BY <1>5, <2>1, <2>2, <2>3 DEF MainExamine, Claim, StatusFollows, TypeOK, solve, reg
<1>6. CASE MainEnqueue
  BY <1>6 DEF MainEnqueue, StatusFollows, solve, reg
<1>7. CASE MainCreate
  BY <1>7, <1>0 DEF MainCreate, NextRound, StatusFollows, TypeOK, heap, reg
<1>8. ASSUME NEW p \in Problems, SolverStart(p) PROVE StatusFollows'
  <2>1. p \in live /\ spc[p] = "start"
    BY <1>8 DEF SolverStart, Working
  <2>2. \A c \in Clients : cpc[c] \in {"close", "body", "insert"} => cp[c] # p /\ cp[c] \in Problems
    BY <2>1 DEF Registering, TypeOK
  <2>3. mpc \in {"enqueue", "create"} => mp # p
    BY <2>1 DEF Working
  <2> QED BY <1>8, <1>0, <2>1, <2>2, <2>3 DEF SolverStart, StatusFollows, TypeOK, main, reg
<1>9. ASSUME NEW p \in Problems, SolverWrite(p) \/ SolverExtract(p) \/ SolverInsert(p)
      PROVE  StatusFollows'
  BY <1>9 DEF SolverWrite, SolverExtract, SolverInsert, StatusFollows, TypeOK, heap, main, reg
<1>10. ASSUME NEW c \in Clients, OpenFile(c) PROVE StatusFollows'
  <2>0. Working
    OBVIOUS
  <2> HIDE DEF Inv
  <2>1. spc[cp[c]] = "none" /\ (mpc \in {"enqueue", "create"} => mp # cp[c])
    BY <1>10, <1>0, <2>0, Opening DEF Working
  <2>2. \A p \in Problems : spc[p] # "none" => status'[p] = status[p]
    BY <1>10, <2>1, Opening
  <2>3. \A d \in Clients : cpc'[d] \in {"close", "body", "insert"} => status'[cp[d]] = "N"
    BY <1>10, Opening DEF StatusFollows
  <2> QED BY <1>10, <1>0, <2>1, <2>2, <2>3, Opening DEF StatusFollows
<1>11. ASSUME NEW c \in Clients,
              TakeId(c) \/ StoreId(c) \/ Flush(c) \/ CloseFile(c) \/ InsertProblem(c) \/ Reply(c)
       PROVE  StatusFollows'
  <2>1. UNCHANGED <<status, mpc, mp, spc>>
    BY <1>11 DEF TakeId, StoreId, Flush, CloseFile, InsertProblem, Reply, heap, main, solve
  <2>2. \A d \in Clients : cpc'[d] \in {"close", "body", "insert"} =>
          cpc[d] \in {"close", "body", "insert"} /\ cp'[d] = cp[d]
    BY <1>11 DEF TakeId, StoreId, Flush, CloseFile, InsertProblem, Reply, TypeOK
  <2> QED BY <2>1, <2>2 DEF StatusFollows
<1> QED BY <1>1, <1>2, <1>3, <1>4, <1>5, <1>6, <1>7, <1>8, <1>9, <1>10, <1>11
        DEF Next, Main, MainFull, Solver, Register, vars, heap, main, solve, reg

(* Writing a file removes none. *)
LEMMA WriteDomain ==
  ASSUME NEW f, NEW contents
  PROVE  DOMAIN Write(f, contents) = DOMAIN disk \cup {f}
BY DEF Write

(* Writing one file leaves the others as they are. *)
LEMMA WriteOne ==
  ASSUME NEW f, NEW contents
  PROVE  /\ Write(f, contents)[f] = contents
         /\ \A g \in DOMAIN disk : g # f => Write(f, contents)[g] = disk[g]
BY DEF Write

(* A file of one problem alone is written by that problem's threads only.    *)
LEMMA OwnFileStep ==
  ASSUME Inv, Naming, StatusFollows, OwnFile, [Next]_vars
  PROVE  OwnFile'
<1> SUFFICES ASSUME NEW p \in Problems, name'[p] # NULL, ~Twin(p)'
             PROVE  Mine(p)'
  BY DEF OwnFile
<1>0. /\ NULL \notin Problems /\ Torn.prob = NULL /\ Torn.status = "free"
      /\ \A s : File(p, s).prob = p /\ File(p, s).whole /\ File(p, s).status = s
      /\ Part(p).prob = p /\ Part(p).status = "N"
  BY ConstantsAssumption DEF Torn, Part, File
<1>1. CASE name[p] = NULL
  <2>1. p \notin acked \cup live
    BY <1>1 DEF Naming, Inv, FilesKept
  <2>0. /\ \A c \in Clients : cpc[c] \in {"insert", "reply"} => cp[c] # p
        /\ p \notin Preloaded
    BY <1>0, <1>1, ConstantsAssumption DEF Naming, Inv, FilesKept
  <2>2. PICK c \in Clients : OpenFile(c)
    <3>1. ~UNCHANGED name
      BY <1>1
    <3>2. ~(Main \/ \E q \in Problems : Solver(q))
      BY <3>1, InnerSteps
    <3> QED BY <3>1, <3>2 DEF Next, Boot, Crash, Register, TakeId, StoreId, Flush, CloseFile,
                              InsertProblem, Reply, vars, heap
  <2>3. cp[c] = p /\ name'[p] = cid[c] /\ disk' = Write(cid[c], Torn) /\ cpc'[c] = "close"
    BY <2>2, <1>1, Opening
  <2>4. disk'[name'[p]] = Torn
    BY <2>3, WriteOne
  <2>5. \A d \in Clients : cp'[d] = p => cpc'[d] \notin {"body", "insert", "reply"}
    BY <2>2, <2>3, Opening
  <2>6. p \notin acked' \cup live' \cup Preloaded
    BY <2>0, <2>1, <2>2, Opening
  <2>7. p \notin Kept'
    BY <2>5, <2>6 DEF Kept
  <2> QED BY <1>0, <2>4, <2>5, <2>6, <2>7 DEF Mine
<1>2. CASE name[p] # NULL
  <2>1. Mine(p) /\ name'[p] = name[p] /\ ~Twin(p) /\ name[p] \in DOMAIN disk /\ p \in submitted
    BY <1>2, NamesStay, TwinsStay DEF OwnFile, Inv, FilesKept
  <2>2. \A q \in submitted : q # p /\ name[q] # NULL => name[q] # name[p]
    BY <2>1 DEF Twin
  <2>3. /\ status \in [Problems -> Status]
        /\ spc \in [Problems -> {"none", "start", "write", "extract", "insert"}]
        /\ cpc \in [Clients -> {"idle", "store", "open", "close", "body", "insert", "reply", "refuse"}]
        /\ cp \in [Clients -> Problems \cup {NULL}]
        /\ mpc \in {"examine", "create"} => mp \in Problems
    BY <1>0 DEF Inv, TypeOK
  <2>4. CASE UNCHANGED <<disk, acked, live, cpc, cp, status, spc, unsaved, unserved>>
    BY <2>1, <2>4 DEF Mine, Kept
  <2>5. CASE Boot
    <3>1. /\ UNCHANGED <<disk, acked, cpc, cp, unsaved, unserved>>
          /\ \A c \in Clients : cpc[c] = "idle"
      BY <2>5 DEF Boot, reg, Inv, DeadIsEmpty
    <3>2. p \in live' => disk[name[p]].prob = p /\ status'[p] = disk[name[p]].status
      BY <2>5, Booting DEF Loadable, OnDisk, Inv
    <3>3. Kept' = Kept
      BY <3>1 DEF Kept
    <3> QED BY <2>1, <3>1, <3>2, <3>3 DEF Mine
  <2>6. CASE Crash
    <3>1. Kept' \subseteq Kept
      BY <2>6 DEF Crash, Kept
    <3> QED BY <2>1, <2>6, <3>1 DEF Crash, Mine
  <2>7. CASE Main
    <3>1. UNCHANGED <<disk, acked, live, cpc, cp, unsaved>> /\ unserved \subseteq unserved'
      BY <2>7, InnerSteps DEF Main, MainCount, MainFull, MainExtract, MainExamine, MainEnqueue,
                              MainCreate, MainRequeue, NextRound, hist, vars
    <3>0. Kept' = Kept
      BY <3>1 DEF Kept
    <3>2. CASE MainExamine
      <4>1. UNCHANGED <<spc, unserved>>
        BY <3>2 DEF MainExamine, solve, hist
      <4>2. (status[p] = "N" /\ status'[p] = "I") \/ status'[p] = status[p]
        BY <3>2, <2>3 DEF MainExamine, Claim
      <4> QED BY <2>1, <3>0, <3>1, <4>1, <4>2 DEF Mine
    <3>3. CASE MainCreate
      <4>1. UNCHANGED status
        BY <3>3 DEF MainCreate, heap
      <4>2. spc'[p] = spc[p] \/ (p = mp /\ status[p] = "I")
        BY <3>3, <2>3 DEF MainCreate, StatusFollows
      <4> QED BY <2>1, <3>0, <3>1, <4>1, <4>2 DEF Mine
    <3>4. CASE UNCHANGED <<status, spc, unserved>>
      BY <2>4, <3>1, <3>4
    <3> QED BY <2>7, <3>2, <3>3, <3>4
            DEF Main, MainCount, MainFull, MainExtract, MainEnqueue, MainRequeue,
                heap, solve, hist, vars
  <2>8. ASSUME NEW q \in Problems, Solver(q) PROVE Mine(p)'
    <3>1. UNCHANGED <<acked, live, cpc, cp, unsaved>> /\ Kept' = Kept
      BY <2>8, InnerSteps DEF Kept
    <3>2. CASE SolverStart(q)
      <4>1. /\ UNCHANGED <<disk, unserved>>
            /\ (status'[p] = "S" /\ spc'[p] = "write")
                \/ (status'[p] = status[p] /\ spc'[p] = spc[p])
        BY <3>2, <2>3 DEF SolverStart, hist
      <4> QED BY <2>1, <3>1, <4>1 DEF Mine
    <3>3. CASE SolverWrite(q)
      <4>1. q \in live /\ q \in submitted /\ name[q] # NULL /\ status[q] = "S"
            /\ spc[q] = "write" /\ UNCHANGED status
        BY <3>3 DEF SolverWrite, Inv, Working, Registering, FilesKept, StatusFollows, heap
      <4>2. CASE disk' = Write(name[q], Rewritten(disk[name[q]], q)) /\ UNCHANGED unserved
        <5>1. CASE q # p
          <6>1. disk'[name[p]] = disk[name[p]]
            BY <5>1, <4>1, <4>2, <2>1, <2>2, WriteOne
          <6>2. spc'[p] = spc[p]
            BY <5>1, <3>3, <2>3 DEF SolverWrite
          <6> QED BY <2>1, <3>1, <4>1, <4>2, <6>1, <6>2 DEF Mine
        <5>2. CASE q = p
          <6>1. disk[name[p]].prob \in {NULL, p}
            BY <2>1, <1>0 DEF Mine
          <6>2. disk'[name[p]] = Rewritten(disk[name[p]], p)
            BY <5>2, <4>2, <2>1, WriteOne
          <6>3. disk[name[p]] \in [prob : Problems \cup {NULL}, status : Status, whole : BOOLEAN]
            BY <2>1 DEF Inv, TypeOK
          <6>4. /\ disk'[name[p]].prob = p /\ disk'[name[p]].whole = disk[name[p]].whole
                /\ disk'[name[p]].status = "S"
            BY <6>1, <6>2, <6>3, <4>1, <5>2, <1>0 DEF Rewritten
          <6>5. \A c \in Clients : cpc[c] \in {"close", "body", "insert"} => cp[c] # p
            BY <4>1, <5>2 DEF Inv, Registering
          <6> QED BY <2>1, <3>1, <4>1, <5>2, <6>4, <6>5 DEF Mine
        <5> QED BY <5>1, <5>2
      <4>3. CASE UNCHANGED disk /\ unserved' = unserved \cup {q}
        <5>1. spc'[p] = spc[p] \/ p = q
          BY <3>3, <2>3 DEF SolverWrite
        <5> QED BY <2>1, <3>1, <4>1, <4>3, <5>1 DEF Mine
      <4> QED BY <3>3, <4>2, <4>3 DEF SolverWrite
    <3>4. CASE SolverExtract(q) \/ SolverInsert(q)
      <4>1. /\ UNCHANGED <<status, disk, unserved>>
            /\ spc'[p] = spc[p] \/ spc[p] \in {"extract", "insert"}
        BY <3>4, <2>3 DEF SolverExtract, SolverInsert, hist
      <4> QED BY <2>1, <3>1, <4>1 DEF Mine
    <3> QED BY <2>8, <3>2, <3>3, <3>4 DEF Solver
  <2>9. ASSUME NEW c \in Clients, TakeId(c) \/ StoreId(c) \/ Reply(c) PROVE Mine(p)'
    <3>1. UNCHANGED <<disk, live, status, spc, unsaved, unserved>>
      BY <2>9 DEF TakeId, StoreId, Reply, heap, solve, hist
    <3>2. \A d \in Clients : cpc'[d] \in {"close", "body", "insert", "reply"} =>
            cpc'[d] = cpc[d] /\ cp'[d] = cp[d]
      BY <2>9, <2>3 DEF TakeId, StoreId, Reply
    <3>3. Kept' \subseteq Kept
      <4>1. \A q \in acked' : q \in acked \/ \E d \in Clients : cpc[d] = "reply" /\ cp[d] = q
        BY <2>9 DEF TakeId, StoreId, Reply, hist
      <4> QED BY <3>1, <3>2, <4>1 DEF Kept
    <3> QED BY <2>1, <3>1, <3>2, <3>3 DEF Mine
  <2>10. ASSUME NEW c \in Clients, OpenFile(c) PROVE Mine(p)'
    <3>1. /\ cp[c] # p /\ UNCHANGED <<acked, live, cp, spc, unsaved, unserved>>
          /\ status'[p] = status[p]
      BY <2>10, <1>2, Opening
    <3>2. /\ \A d \in Clients : d # c => cpc'[d] = cpc[d]
          /\ cpc'[c] \notin {"insert", "reply"}
      BY <2>10, Opening
    <3>4. Kept' \subseteq Kept
      BY <3>1, <3>2 DEF Kept
    <3>3. disk'[name[p]] = disk[name[p]]
      <4>1. CASE disk' = Write(cid[c], Torn) /\ name'[cp[c]] = cid[c]
        <5>1. cp[c] \in submitted' /\ cid[c] # NULL
          BY <2>10, Opening, ConstantsAssumption DEF Names
        <5>2. cid[c] # name[p]
          BY <3>1, <4>1, <5>1, <2>1 DEF Twin
        <5> QED BY <2>1, <4>1, <5>2, WriteOne
      <4> QED BY <4>1, <2>10, Opening
    <3> QED BY <2>1, <3>1, <3>2, <3>3, <3>4 DEF Mine
  <2>11. ASSUME NEW c \in Clients, Flush(c) \/ CloseFile(c) PROVE Mine(p)'
    <3> DEFINE old == disk[name[cp[c]]]
    <3>1. /\ UNCHANGED <<acked, live, cp, spc, unserved, status>> /\ unsaved \subseteq unsaved'
          /\ cpc[c] \in {"close", "body"} /\ cp[c] \notin live /\ cp[c] \notin acked
          /\ cp[c] \in submitted /\ name[cp[c]] # NULL /\ cp[c] \notin Preloaded
          /\ \A d \in Clients : d # c =>
               cpc'[d] = cpc[d] /\ (cpc[d] # "idle" => cp[d] # cp[c])
          /\ cpc'[c] \in {"body", "insert"}
      BY <2>11, Filling
    <3>2. CASE cp[c] # p
      <4>1. disk'[name[p]] = disk[name[p]]
        <5>1. UNCHANGED disk \/ \E contents : disk' = Write(name[cp[c]], contents)
          BY <2>11, Filling
        <5>2. name[cp[c]] # name[p]
          BY <3>1, <3>2, <2>2
        <5> QED BY <5>1, <5>2, <2>1, WriteOne
      <4>2. p \in Kept' => p \in Kept
        BY <3>1, <3>2 DEF Kept
      <4> QED BY <2>1, <3>1, <3>2, <4>1, <4>2 DEF Mine
    <3>3. CASE cp[c] = p
      <4>1. \A d \in Clients : cp[d] = p => d = c
        BY <3>1, <3>3, <1>0, <2>3 DEF Inv, TypeOK, Registering
      <4>2. p \in Kept' => cpc'[c] = "insert" /\ p \notin unsaved'
        BY <3>1, <3>3, <4>1 DEF Kept
      <4>3. disk[name[p]].status # "S" /\ (cpc[c] = "body" => disk[name[p]].prob = p)
        BY <2>1, <3>1, <3>3 DEF Mine
      <4>4. CASE /\ disk' = Write(name[p], Part(p)) /\ cpc'[c] = "body"
        <5>1. disk'[name[p]] = Part(p)
          BY <4>4, WriteOne
        <5> QED BY <1>0, <2>1, <3>1, <3>3, <4>1, <4>2, <4>4, <5>1 DEF Mine
      <4>5. CASE /\ disk' = Write(name[p], Completed(disk[name[p]], p, cpc[c]))
                 /\ cpc'[c] = "insert"
        <5>1. disk'[name[p]] = Completed(disk[name[p]], p, cpc[c])
          BY <4>5, WriteOne
        <5>2. disk[name[p]] \in [prob : Problems \cup {NULL}, status : Status, whole : BOOLEAN]
          BY <2>1 DEF Inv, TypeOK
        <5>3. /\ disk'[name[p]].prob = p /\ disk'[name[p]].whole = TRUE
              /\ disk'[name[p]].status # "S"
          <6>1. CASE cpc[c] = "close"
            BY <1>0, <5>1, <6>1 DEF Completed
          <6>2. CASE cpc[c] = "body"
            BY <4>3, <5>1, <5>2, <6>2 DEF Completed
          <6> QED BY <3>1, <6>1, <6>2
        <5> QED BY <2>1, <3>1, <3>3, <4>1, <4>5, <5>3 DEF Mine
      <4>6. CASE disk' = disk /\ cpc'[c] = "insert" /\ p \in unsaved'
        BY <2>1, <3>1, <3>3, <4>1, <4>2, <4>3, <4>6 DEF Mine
      <4> QED BY <2>11, <3>3, <4>4, <4>5, <4>6, Filling
    <3> QED BY <3>2, <3>3
  <2>12. ASSUME NEW c \in Clients, InsertProblem(c) PROVE Mine(p)'
    <3>1. /\ UNCHANGED <<disk, acked, cp, spc, unsaved, unserved, status>> /\ cpc[c] = "insert"
          /\ live' = live \cup {cp[c]} /\ cpc'[c] = "reply"
          /\ \A d \in Clients : d # c => cpc'[d] = cpc[d]
      BY <2>12, <2>3 DEF InsertProblem, solve
    <3>2. cp[c] = p => /\ disk[name[p]].status # "S" /\ status[p] = "N"
                       /\ p \notin unsaved => disk[name[p]].prob = p
      BY <2>1, <3>1 DEF Mine, StatusFollows, Kept
    <3>3. Kept' = Kept
      BY <3>1 DEF Kept
    <3> QED BY <2>1, <3>1, <3>2, <3>3 DEF Mine
  <2> QED BY <2>4, <2>5, <2>6, <2>7, <2>8, <2>9, <2>10, <2>11, <2>12
          DEF Next, Register, vars, heap, solve, reg, hist
<1> QED BY <1>1, <1>2

-----------------------------------------------------------------------------
(* Two problems of one name have one id, and they were not both preloaded. *)
LEMMA SameName ==
  ASSUME Inv, Naming, NEW p \in Problems, NEW q \in Problems,
         p # q, name[p] # NULL, name[p] = name[q]
  PROVE  id[p] = id[q] /\ (p \notin Preloaded \/ q \notin Preloaded)
<1>1. id[p] \in Nat /\ id[q] \in Nat
  BY DEF Inv, TypeOK
<1>2. ASSUME NEW r \in Preloaded, name[r] \in Nat PROVE id[r] = name[r]
  BY <1>2, ConstantsAssumption DEF Naming
<1>3. p \notin Preloaded \/ q \notin Preloaded
  BY ConstantsAssumption DEF Naming
<1>4. CASE p \notin Preloaded
  BY <1>1, <1>2, <1>4 DEF Naming
<1>5. CASE q \notin Preloaded
  BY <1>1, <1>2, <1>5 DEF Naming
<1> QED BY <1>3, <1>4, <1>5

(* A problem that can be loaded has a name and a file, and so have all owners. *)
LEMMA OwnersNamed ==
  ASSUME Inv, NEW p \in Owners
  PROVE  p \in Problems /\ name[p] # NULL /\ name[p] \in DOMAIN disk
<1>1. NULL \notin DOMAIN disk
  BY ConstantsAssumption DEF Inv, TypeOK
<1>2. CASE p \in Loadable
  BY <1>1, <1>2 DEF Loadable, OnDisk
<1>3. ASSUME NEW c \in Clients, cpc[c] \in {"close", "body", "insert"}, p = cp[c]
      PROVE  p \in Problems /\ name[p] # NULL /\ name[p] \in DOMAIN disk
  BY <1>3 DEF Inv, TypeOK, FilesKept
<1>4. CASE p \in live
  BY <1>4 DEF Inv, TypeOK, FilesKept
<1> QED BY <1>2, <1>3, <1>4 DEF Owners, Writing

(* Without a race two problems that own a file do not own the same one. *)
LEMMA OwnersApart ==
  ASSUME Inv, Naming, NothingTaken, ~miscounted, NEW p \in Owners, NEW q \in Owners, p # q
  PROVE  name[p] # name[q]
<1> SUFFICES ASSUME name[p] = name[q] PROVE FALSE
  OBVIOUS
<1>1. p \in Problems /\ q \in Problems /\ name[p] # NULL
  BY OwnersNamed
<1>2. id[p] = id[q] /\ (p \notin Preloaded \/ q \notin Preloaded)
  BY <1>1, SameName
<1> QED BY <1>2 DEF NothingTaken

(* As long as the counter counts right, every step keeps the ids             *)
(* apart and leaves the files of other problems alone.                       *)
LEMMA NothingTakenStep ==
  ASSUME Inv, Naming, NothingTaken, [Next]_vars
  PROVE  NothingTaken'
<1> SUFFICES ASSUME ~miscounted' PROVE NothingTaken'
  BY DEF NothingTaken
<1>1. ~miscounted
  <2>1. CASE Main \/ \E q \in Problems : Solver(q)
    BY <2>1, InnerSteps
  <2>2. CASE Boot
    BY <2>2, Booting DEF Inv
  <2> QED BY <2>1, <2>2 DEF Next, Crash, Register, TakeId, StoreId, OpenFile, Flush, CloseFile,
                            InsertProblem, Reply, vars, hist
<1>2. /\ Kept \cup (live \ unsaved) \subseteq Loadable
      /\ \A p \in Kept : disk[name[p]].whole
      /\ \A c \in Clients : cpc[c] = "body" => cp[c] \in Loadable
      /\ \A p, q \in Owners : p # q /\ p \notin Preloaded => id[p] # id[q]
      /\ mpc # "down" => CounterAhead
  BY <1>1 DEF NothingTaken
<1>3. /\ id \in [Problems -> Nat] /\ auto_increment \in Nat
      /\ cpc \in [Clients -> {"idle", "store", "open", "close", "body", "insert", "reply", "refuse"}]
      /\ cp \in [Clients -> Problems \cup {NULL}] /\ cid \in [Clients -> Nat]
      /\ NULL \notin Problems
  BY ConstantsAssumption DEF Inv, TypeOK
<1>4. ASSUME UNCHANGED <<id, acked, live, cpc, cp, cid, auto_increment, unsaved>>,
             mpc = "down" => mpc' = "down",
             Loadable \subseteq Loadable', Loadable' \subseteq Loadable \cup live,
             \A p \in Kept : disk'[name'[p]].whole = disk[name[p]].whole
      PROVE  NothingTaken'
  <2>1. Owners' = Owners /\ Kept' = Kept
    BY <1>4 DEF Owners, Writing, Kept
  <2> QED BY <1>2, <1>4, <2>1 DEF NothingTaken, CounterAhead
<1>5. CASE UNCHANGED vars
  <2>1. UNCHANGED <<id, name, disk, acked, live, cpc, cp, cid, auto_increment, unsaved, mpc>>
    BY <1>5 DEF vars, heap, main, reg, hist
  <2> QED BY <1>4, <2>1 DEF Loadable, OnDisk
<1>6. CASE Boot
  <2>1. /\ UNCHANGED <<id, name, disk, acked, unsaved, cpc, cp, cid>>
        /\ \A c \in Clients : cpc[c] = "idle"
    BY <1>6 DEF Boot, reg, Inv, DeadIsEmpty
  <2>2. live' = Loadable
    BY <1>6, Booting DEF Inv
  <2>3. Loadable' = Loadable /\ Owners' = Loadable /\ Loadable \subseteq Owners /\ Kept' = Kept
    BY <2>1, <2>2 DEF Owners, Writing, Loadable, OnDisk, Kept
  <2>4. \A p \in Owners' : id'[p] < auto_increment'
    BY <1>6, <2>1, <2>2, <2>3, Booting DEF Inv
  <2> QED BY <1>2, <2>1, <2>2, <2>3, <2>4 DEF NothingTaken, CounterAhead
<1>7. CASE Crash
  <2>1. /\ UNCHANGED <<id, name, disk, acked, unsaved>> /\ live' = {} /\ mpc' = "down"
        /\ \A c \in Clients : cpc'[c] = "idle"
    BY <1>7 DEF Crash
  <2>2. /\ Loadable' = Loadable /\ Owners' = Loadable /\ Loadable \subseteq Owners
        /\ Kept' \subseteq Kept
    BY <2>1 DEF Owners, Writing, Loadable, OnDisk, Kept
  <2> QED BY <1>2, <2>1, <2>2 DEF NothingTaken
<1>8. CASE Main
  <2>1. UNCHANGED <<id, name, disk, acked, live, cpc, cp, cid, auto_increment, unsaved>> /\ mpc # "down"
    BY <1>8, InnerSteps DEF Main, MainCount, MainFull, MainExtract, MainExamine, MainEnqueue,
                            MainCreate, MainRequeue, heap, vars
  <2> QED BY <1>4, <2>1 DEF Loadable, OnDisk
<1>9. ASSUME NEW q \in Problems, Solver(q) PROVE NothingTaken'
  <2>1. UNCHANGED <<id, name, acked, live, cpc, cp, cid, auto_increment, unsaved, mpc>>
    BY <1>9, InnerSteps DEF Solver, SolverStart, SolverWrite, SolverExtract, SolverInsert, heap, main
  <2>2. CASE UNCHANGED disk
    BY <1>4, <2>1, <2>2 DEF Loadable, OnDisk
  <2>3. CASE SolverWrite(q) /\ disk' = Write(name[q], Rewritten(disk[name[q]], q))
    <3>1. q \in live /\ q \in Problems /\ name[q] \in DOMAIN disk
      BY <2>3 DEF SolverWrite, Inv, Working, TypeOK, FilesKept
    <3>2. disk[name[q]] \in [prob : Problems \cup {NULL}, status : Status, whole : BOOLEAN]
      BY <3>1 DEF Inv, TypeOK
    <3>3. /\ \/ Rewritten(disk[name[q]], q).prob = disk[name[q]].prob
            \/ /\ disk[name[q]].prob = NULL
               /\ Rewritten(disk[name[q]], q).prob = q
          /\ Rewritten(disk[name[q]], q).whole = disk[name[q]].whole
      BY <3>2 DEF Rewritten
    <3>4. /\ DOMAIN disk' = DOMAIN disk
          /\ \A f \in DOMAIN disk :
               /\ \/ disk'[f].prob = disk[f].prob
                  \/ /\ disk[f].prob = NULL
                     /\ disk'[f].prob = q
               /\ disk'[f].whole = disk[f].whole
      <4>0. DOMAIN disk' = DOMAIN disk \cup {name[q]}
        BY <2>3, WriteDomain
      <4>1. DOMAIN disk' = DOMAIN disk
        BY <3>1, <4>0
      <4>2. ASSUME NEW f \in DOMAIN disk, f # name[q] PROVE disk'[f] = disk[f]
        BY <4>2, <2>3, WriteOne
      <4>3. disk'[name[q]] = Rewritten(disk[name[q]], q)
        BY <2>3, WriteOne
      <4> QED BY <4>1, <4>2, <4>3, <3>1, <3>3
    <3>5. Loadable \subseteq Loadable' /\ Loadable' \subseteq Loadable \cup live
      BY <1>3, <2>1, <3>1, <3>4 DEF Loadable, OnDisk
    <3>6. \A p \in Kept : disk'[name'[p]].whole = disk[name[p]].whole
      BY <1>2, <2>1, <3>4 DEF Loadable, OnDisk
    <3> QED BY <1>4, <2>1, <3>5, <3>6
  <2> QED BY <1>9, <2>2, <2>3
          DEF Solver, SolverStart, SolverWrite, SolverExtract, SolverInsert
<1>10. ASSUME NEW c \in Clients, TakeId(c) PROVE NothingTaken'
  <2>1. /\ UNCHANGED <<id, name, disk, acked, live, auto_increment, unsaved, mpc>> /\ mpc # "down"
        /\ cpc[c] = "idle" /\ cpc'[c] = "store" /\ cid'[c] = auto_increment
        /\ \A d \in Clients : cpc[d] # "store"
        /\ \A d \in Clients : d # c =>
             cpc'[d] = cpc[d] /\ cp'[d] = cp[d] /\ cid'[d] = cid[d]
    BY <1>10, <1>3 DEF TakeId, heap, main
  <2>2. Loadable' = Loadable /\ Owners' = Owners /\ Kept' = Kept
    <3>1. Loadable' = Loadable
      BY <2>1 DEF Loadable, OnDisk
    <3> QED BY <2>1, <3>1 DEF Owners, Writing, Kept
  <2>3. CounterAhead'
    <3>1. \A d \in Clients : cpc[d] = "open" => cid[d] < auto_increment
      BY <1>2, <2>1 DEF CounterAhead
    <3> QED BY <1>2, <1>3, <2>1, <2>2, <3>1 DEF CounterAhead
  <2> QED BY <1>2, <2>1, <2>2, <2>3 DEF NothingTaken
<1>11. ASSUME NEW c \in Clients, Register(c) PROVE mpc # "down" /\ UNCHANGED <<mpc, miscounted>> /\ CounterAhead
  <2>1. cpc[c] # "idle" /\ UNCHANGED <<mpc, miscounted>>
    BY <1>11 DEF Register, StoreId, OpenFile, Flush, CloseFile, InsertProblem, Reply, main, hist
  <2> QED BY <1>2, <2>1 DEF Inv, DeadIsEmpty
<1>12. ASSUME NEW c \in Clients, StoreId(c) PROVE NothingTaken'
  <2>1. /\ UNCHANGED <<id, name, disk, acked, live, unsaved, cp, cid>>
        /\ cpc[c] = "store" /\ cpc'[c] = "open" /\ auto_increment' = cid[c] + 1
        /\ \A d \in Clients : d # c => cpc'[d] = cpc[d]
    BY <1>12, <1>3 DEF StoreId, hist
  <2>2. /\ Loadable' = Loadable /\ Owners' = Owners /\ Kept' = Kept
        /\ \A p \in Owners : id[p] \in Nat
    <3>1. Loadable' = Loadable
      BY <2>1 DEF Loadable, OnDisk
    <3> QED BY <2>1, <3>1, <1>3, OwnersNamed DEF Owners, Writing, Kept
  <2>3. CounterAhead /\ cid[c] = auto_increment
    BY <1>11, <1>12, <2>1 DEF CounterAhead, Register
  <2>4. CounterAhead'
    BY <1>3, <2>1, <2>2, <2>3 DEF CounterAhead
  <2> QED BY <1>2, <2>1, <2>2, <2>4 DEF NothingTaken
<1>13. ASSUME NEW c \in Clients, OpenFile(c) PROVE NothingTaken'
  <2>1. /\ cpc[c] = "open" /\ cp[c] \in Problems /\ name[cp[c]] = NULL
        /\ cp[c] \notin Preloaded
        /\ UNCHANGED <<auto_increment, cp, cid, live, acked, unsaved>>
        /\ \A p \in Problems : p # cp[c] => name'[p] = name[p] /\ id'[p] = id[p]
        /\ \A d \in Clients : d # c => cpc'[d] = cpc[d]
    BY <1>13, Opening
  <2>2. CounterAhead /\ mpc # "down"
    BY <1>11, <1>13 DEF Register
  <2>3. cp[c] \notin Owners
    BY <2>1, OwnersNamed
  <2>4. CASE UNCHANGED <<id, name, status, disk>> /\ cpc'[c] = "refuse"
    <3>1. Loadable' = Loadable /\ Owners' = Owners /\ Kept' = Kept
      <4>1. Loadable' = Loadable
        BY <2>4 DEF Loadable, OnDisk
      <4> QED BY <2>1, <2>4, <4>1 DEF Owners, Writing, Kept
    <3>2. CounterAhead'
      BY <2>1, <2>2, <2>4, <3>1 DEF CounterAhead
    <3>3. \A d \in Clients : cpc'[d] = "body" => cpc[d] = "body"
      BY <2>1, <2>4
    <3> QED BY <1>2, <2>1, <2>4, <3>1, <3>2, <3>3 DEF NothingTaken
  <2>5. CASE /\ disk' = Write(cid[c], Torn) /\ cpc'[c] = "close"
             /\ id'[cp[c]] = cid[c] /\ name'[cp[c]] = cid[c]
    <3>1. ASSUME NEW x \in Owners PROVE name[x] # cid[c] /\ x # cp[c] /\ id[x] # cid[c]
      <4>1. x \in Problems /\ id[x] # cid[c] /\ cid[c] \in Nat
        BY <2>1, <2>2, <1>3, OwnersNamed DEF CounterAhead
      <4>2. x \in Preloaded /\ name[x] \in Nat => id[x] = name[x]
        BY ConstantsAssumption DEF Naming
      <4>3. x \notin Preloaded => id[x] = name[x]
        BY <4>1, OwnersNamed DEF Naming
      <4> QED BY <2>3, <4>1, <4>2, <4>3
    <3>2. Loadable' = Loadable
      <4>0. DOMAIN disk' = DOMAIN disk \cup {cid[c]}
        BY <2>5, WriteDomain
      <4>1. ASSUME NEW x \in Loadable PROVE x \in Loadable'
        <5>1. x \in Owners /\ x \in Problems /\ name[x] \in DOMAIN disk /\ disk[name[x]].prob = x
          BY DEF Owners, Loadable, OnDisk
        <5>2. name'[x] = name[x] /\ name[x] # cid[c]
          BY <2>1, <3>1, <5>1
        <5>3. disk'[name[x]] = disk[name[x]]
          BY <2>5, <5>1, <5>2, WriteOne
        <5>4. name[x] \in DOMAIN disk'
          BY <4>0, <5>1
        <5> QED BY <5>1, <5>2, <5>3, <5>4 DEF Loadable, OnDisk
      <4>2. ASSUME NEW x \in Loadable' PROVE x \in Loadable
        <5>1. x \in Problems /\ name'[x] \in DOMAIN disk' /\ disk'[name'[x]].prob = x
          BY DEF Loadable, OnDisk
        <5>2. name'[x] # cid[c]
          BY <5>1, <2>5, <1>3, WriteOne DEF Torn
        <5>3. x # cp[c] /\ name'[x] = name[x]
          BY <2>1, <2>5, <5>1, <5>2
        <5>4. name[x] \in DOMAIN disk
          BY <4>0, <5>1, <5>2, <5>3
        <5>5. disk'[name[x]] = disk[name[x]]
          BY <2>5, <5>2, <5>3, <5>4, WriteOne
        <5> QED BY <5>1, <5>3, <5>4, <5>5 DEF Loadable, OnDisk
      <4> QED BY <4>1, <4>2
    <3>3. Owners' = Owners \cup {cp[c]} /\ Kept' = Kept
      BY <2>1, <2>5, <3>2 DEF Owners, Writing, Kept
    <3>4. \A x \in Owners : id'[x] = id[x] /\ x \in Problems
      BY <2>1, <3>1, OwnersNamed
    <3>5. \A x \in Kept : disk'[name'[x]].whole
      <4>1. ASSUME NEW x \in Loadable PROVE disk'[name'[x]] = disk[name[x]]
        <5>1. x \in Owners /\ x \in Problems /\ name[x] \in DOMAIN disk
          BY DEF Owners, Loadable, OnDisk
        <5> QED BY <2>1, <2>5, <3>1, <5>1, WriteOne
      <4> QED BY <4>1, <1>2
    <3>6. CounterAhead'
      <4>1. cid[c] < auto_increment
        BY <2>1, <2>2 DEF CounterAhead
      <4>2. \A d \in Clients : cpc'[d] \in {"store", "open"} => cid[d] # cid[c]
        BY <2>1, <2>2, <2>5 DEF CounterAhead
      <4> QED BY <2>1, <2>2, <2>5, <3>3, <3>4, <4>1, <4>2 DEF CounterAhead
    <3>7. \A d \in Clients : cpc'[d] = "body" => cpc[d] = "body"
      BY <2>1, <2>5
    <3>8. \A x, y \in Owners' : x # y /\ x \notin Preloaded => id'[x] # id'[y]
      BY <1>2, <2>5, <3>1, <3>3, <3>4
    <3> QED BY <1>2, <2>1, <3>2, <3>3, <3>5, <3>6, <3>7, <3>8 DEF NothingTaken
  <2> QED BY <1>13, <2>4, <2>5, Opening
<1>14. ASSUME NEW c \in Clients, Flush(c) \/ CloseFile(c) PROVE NothingTaken'
  <2> DEFINE r == cp[c]
  <2>1. /\ UNCHANGED <<id, name, auto_increment, cp, cid, live, acked>>
        /\ cpc[c] \in {"close", "body"} /\ cpc'[c] \in {"body", "insert"}
        /\ unsaved \subseteq unsaved' /\ unsaved' \subseteq unsaved \cup {r}
        /\ r \notin live \cup acked \cup Preloaded /\ r \in Problems /\ name[r] \in DOMAIN disk
        /\ \A d \in Clients : d # c => cpc'[d] = cpc[d] /\ (cpc[d] # "idle" => cp[d] # r)
    BY <1>14, Filling
  <2>2. CounterAhead /\ mpc # "down"
    BY <1>11, <1>14 DEF Register
  <2>3. r \in Owners
    BY <2>1 DEF Owners, Writing
  <2>4. r \notin Kept /\ Kept' \subseteq Kept \cup {r}
    BY <2>1 DEF Kept
  <2>5. Loadable \subseteq Owners /\ Loadable \subseteq Problems
    BY DEF Owners, Loadable
  <2>6. CASE disk' = disk /\ cpc'[c] = "insert" /\ r \in unsaved'
    <3>1. Loadable' = Loadable /\ r \notin Kept'
      BY <2>1, <2>6 DEF Loadable, OnDisk, Kept
    <3>2. Owners' = Owners
      BY <2>1, <2>6, <3>1 DEF Owners, Writing
    <3>3. CounterAhead'
      BY <2>1, <2>2, <2>6, <3>2 DEF CounterAhead
    <3> QED BY <1>2, <2>1, <2>4, <2>6, <3>1, <3>2, <3>3 DEF NothingTaken
  <2>7. ASSUME NEW contents, disk' = Write(name[r], contents), contents.prob = r,
               contents.whole = TRUE \/ cpc'[c] = "body"
        PROVE  NothingTaken'
    <3> HIDE DEF r
    <3>0. DOMAIN disk' = DOMAIN disk \cup {name[r]}
      BY <2>7, WriteDomain
    <3>1. DOMAIN disk' = DOMAIN disk
      BY <2>1, <3>0
    <3>2. disk'[name[r]] = contents
      BY <2>7, WriteOne
    <3>3. ASSUME NEW x \in Loadable, x # r PROVE disk'[name[x]] = disk[name[x]]
      BY <3>3, <1>1, <2>3, <2>5, <2>7, OwnersApart, WriteOne DEF Loadable, OnDisk
    <3>4. Loadable' = Loadable \cup {r}
      <4>1. ASSUME NEW x \in Problems, name[x] \in DOMAIN disk, disk'[name[x]].prob = x, x # r
            PROVE  disk[name[x]].prob = x
        <5>1. name[x] # name[r]
          BY <4>1, <2>7, <3>2
        <5> QED BY <4>1, <5>1, <2>7, WriteOne
      <4> QED BY <2>1, <2>7, <3>1, <3>2, <3>3, <4>1 DEF Loadable, OnDisk
    <3>5. Owners' \subseteq Owners
      <4> USE DEF r
      <4> QED BY <2>1, <2>3, <2>5, <3>4 DEF Owners, Writing
    <3>6. CounterAhead'
      BY <2>1, <2>2, <3>5 DEF CounterAhead
    <3>7. \A d \in Clients : cpc'[d] = "body" => cp[d] \in Loadable'
      BY <1>2, <2>1, <3>4 DEF r
    <3>8. r \in Kept' => cpc'[c] = "insert"
      BY <2>1 DEF Kept, r
    <3>9. \A x \in Kept' : disk'[name'[x]].whole
      BY <1>2, <2>1, <2>4, <2>7, <3>2, <3>3, <3>8
    <3> QED BY <1>2, <2>1, <2>4, <3>4, <3>5, <3>6, <3>7, <3>9 DEF NothingTaken
  <2>8. CASE disk' = Write(name[r], Part(r)) /\ cpc'[c] = "body"
    <3>1. Part(r).prob = r
      BY DEF Part
    <3> QED BY <2>7, <2>8, <3>1
  <2>9. CASE disk' = Write(name[r], Completed(disk[name[r]], r, cpc[c]))
    <3>1. cpc[c] = "body" => disk[name[r]].prob = r
      BY <1>2 DEF Loadable, OnDisk
    <3>2. disk[name[r]] \in [prob : Problems \cup {NULL}, status : Status, whole : BOOLEAN]
      BY <2>1 DEF Inv, TypeOK
    <3>3. /\ Completed(disk[name[r]], r, cpc[c]).prob = r
          /\ Completed(disk[name[r]], r, cpc[c]).whole = TRUE
      BY <2>1, <3>1, <3>2 DEF Completed, File
    <3> QED BY <2>7, <2>9, <3>3
  <2> QED BY <1>14, <2>6, <2>8, <2>9, Filling
<1>15. ASSUME NEW c \in Clients, InsertProblem(c) \/ Reply(c) PROVE NothingTaken'
  <2>1. /\ UNCHANGED <<id, name, disk, auto_increment, unsaved>>
        /\ \A d \in Clients : cpc'[d] \in {"store", "open", "close", "body", "insert"} =>
             cpc'[d] = cpc[d] /\ cp'[d] = cp[d] /\ cid'[d] = cid[d]
    BY <1>15, <1>3 DEF InsertProblem, Reply, heap, hist
  <2>2. CounterAhead /\ mpc # "down"
    BY <1>11, <1>15 DEF Register
  <2>3. live' \subseteq live \cup Writing
    BY <1>15 DEF InsertProblem, Reply, Writing
  <2>4. Loadable' = Loadable
    BY <2>1 DEF Loadable, OnDisk
  <2>5. Owners' \subseteq Owners
    BY <2>1, <2>3, <2>4 DEF Owners, Writing
  <2>6. CounterAhead'
    BY <2>1, <2>2, <2>5 DEF CounterAhead
  <2>7. Kept' \subseteq Kept
    <3>1. \A p \in acked' : p \in acked \/ \E d \in Clients : cpc[d] = "reply" /\ cp[d] = p
      BY <1>15 DEF InsertProblem, Reply
    <3>2. \A d \in Clients : cpc'[d] \in {"insert", "reply"} =>
            cpc[d] \in {"insert", "reply"} /\ cp'[d] = cp[d]
      BY <1>15, <1>3 DEF InsertProblem, Reply
    <3> QED BY <2>1, <3>1, <3>2 DEF Kept
  <2>8. \A p \in live' : p \in live \/ p \in unsaved \/ p \in Kept
    BY <1>15 DEF InsertProblem, Reply, Kept
  <2> QED BY <1>2, <2>1, <2>4, <2>5, <2>6, <2>7, <2>8 DEF NothingTaken
<1> QED BY <1>5, <1>6, <1>7, <1>8, <1>9, <1>10, <1>12, <1>13, <1>14, <1>15 DEF Next, Register

-----------------------------------------------------------------------------
(* The files the first start finds satisfy FilesInv.                         *)
LEMMA InitFiles == Init => FilesInv /\ Paired
<1> SUFFICES ASSUME Init PROVE FilesInv /\ Paired
  OBVIOUS
<1>0. /\ NULL \notin Problems /\ NULL \notin Names /\ Preloaded \subseteq Problems
      /\ \A p \in Preloaded : InitName[p] # NULL
      /\ \A p, q \in Preloaded : InitName[p] = InitName[q] => p = q
  BY ConstantsAssumption
<1>1. /\ name = [p \in Problems |-> IF p \in Preloaded THEN InitName[p] ELSE NULL]
      /\ id = [p \in Problems |-> IF p \in Preloaded THEN InitId[p] ELSE 0]
      /\ acked = {} /\ live = {} /\ unsaved = {} /\ submitted = Preloaded /\ mpc = "down"
      /\ \A p \in Problems : spc[p] = "none"
      /\ \A c \in Clients : cpc[c] = "idle"
  BY DEF Init
<1>2. \A p \in Problems : name[p] # NULL => p \in Preloaded /\ name[p] = InitName[p]
  BY <1>1
<1>3. Naming
  BY <1>0, <1>1 DEF Naming
<1>4. StatusFollows
  BY <1>1 DEF StatusFollows
<1>5. ASSUME NEW p \in Preloaded
      PROVE  name[p] \in DOMAIN disk /\ disk[name[p]].prob = p /\ disk[name[p]].whole
  <2>1. PICK st \in [Preloaded -> {"N", "S"}] :
          disk = [f \in {InitName[q] : q \in Preloaded} |->
                    LET r == CHOOSE q \in Preloaded : InitName[q] = f
                    IN  File(r, st[r])]
    BY DEF Init
  <2> DEFINE r == CHOOSE q \in Preloaded : InitName[q] = InitName[p]
  <2>2. r = p
    BY <1>0
  <2>3. InitName[p] \in DOMAIN disk /\ disk[InitName[p]] = File(r, st[r])
    BY <2>1
  <2>4. name[p] = InitName[p]
    BY <1>0, <1>1
  <2> HIDE DEF r
  <2>5. File(r, st[r]).prob = r /\ File(r, st[r]).whole
    BY DEF File
  <2> QED BY <2>2, <2>3, <2>4, <2>5
<1>6. OwnFile
  BY <1>1, <1>2, <1>5 DEF OwnFile, Mine, Kept
<1>7. NothingTaken
  <2>1. Loadable = Preloaded /\ Owners = Loadable
    <3>1. Owners = Loadable
      BY <1>1 DEF Owners, Writing
    <3>2. ASSUME NEW p \in Loadable PROVE p \in Preloaded
      <4>1. p \in Problems /\ name[p] \in DOMAIN disk
        BY DEF Loadable, OnDisk
      <4>2. NULL \notin DOMAIN disk
        <5>1. TypeOK
          BY InitInv DEF Inv
        <5> QED BY <1>0, <5>1 DEF TypeOK
      <4> QED BY <1>2, <4>1, <4>2
    <3> QED BY <1>0, <1>5, <3>1, <3>2 DEF Loadable, OnDisk
  <2> QED BY <1>1, <1>5, <2>1 DEF NothingTaken, Kept
<1>8. Paired
  <2>1. Waiting = {}
    BY <1>1 DEF Waiting
  <2>2. [x \in Waiting |-> x] \in [Waiting -> Problems]
    BY <2>1
  <2> QED BY <2>1, <2>2 DEF Paired, Pairing
<1> QED BY <1>3, <1>4, <1>6, <1>7, <1>8 DEF FilesInv

-----------------------------------------------------------------------------
(* Fewer threads waiting, or more in the queue, leave the pairs as they are. *)
LEMMA PairsKept ==
  ASSUME Paired, Waiting' \subseteq Waiting, InQueue \subseteq InQueue',
         \A p \in Waiting \cup InQueue : id'[p] = id[p]
  PROVE  Paired'
<1>1. PICK f \in [Waiting -> Problems] : Pairing(f, Waiting, InQueue)
  BY DEF Paired
<1>2. PICK g \in [Waiting' -> Problems] : \A p \in Waiting' : g[p] = f[p]
  <2>1. [p \in Waiting' |-> f[p]] \in [Waiting' -> Problems]
    BY <1>1
  <2> QED BY <2>1
<1>3. \A p \in Waiting' : g[p] \in InQueue' /\ id'[g[p]] = id'[p]
  BY <1>1, <1>2 DEF Pairing
<1>4. \A p, q \in Waiting' : g[p] = g[q] => p = q
  BY <1>1, <1>2 DEF Pairing
<1>5. Pairing(g, Waiting, InQueue)'
  BY <1>3, <1>4 DEF Pairing
<1> QED BY <1>2, <1>5 DEF Paired

(* Whatever a thread takes from the queue, the others keep one of their id:  *)
(* the thread whose element was taken gets the one it left.                  *)
LEMMA PairedStep ==
  ASSUME Inv, Naming, Paired, [Next]_vars
  PROVE  Paired'
<1>0. /\ TypeOK /\ Conserved /\ Working /\ DeadIsEmpty /\ NULL \notin Problems
      /\ Listing(problem_queue, Problems)
  BY ListsAreListings, ConstantsAssumption DEF Inv
<1>1. CASE Waiting' \subseteq Waiting /\ UNCHANGED <<problem_queue, id>>
  BY <1>1, PairsKept DEF InQueue
<1>2. CASE UNCHANGED <<problem_queue, id, mpc, mp, spc>>
  BY <1>1, <1>2 DEF Waiting
<1>3. CASE Boot
  <2>1. Waiting' = {}
    BY <1>0, <1>3 DEF Boot, DeadIsEmpty, Waiting, solve
  <2> QED BY <1>1, <1>3, <2>1 DEF Boot
<1>4. CASE Crash
  <2>1. Waiting' = {}
    BY <1>4 DEF Crash, Waiting
  <2>2. [x \in {} |-> x] \in [{} -> Problems]
    OBVIOUS
  <2> QED BY <2>1, <2>2 DEF Paired, Pairing
<1>5. CASE MainCount \/ MainExtract \/ MainExamine \/ MainRequeue
  <2>1. UNCHANGED <<problem_queue, id, spc>> /\ mpc' # "create"
    BY <1>5 DEF MainCount, MainExtract, MainExamine, MainRequeue, NextRound, heap, solve
  <2> QED BY <1>1, <2>1 DEF Waiting
<1>6. CASE MainEnqueue
  <2>1. /\ mpc = "enqueue" /\ mpc' = "create" /\ mp \in Problems
        /\ UNCHANGED <<id, spc, mp>> /\ problem_queue' = Append(problem_queue, mp)
    BY <1>0, <1>6 DEF MainEnqueue, Inserted, TypeOK, solve
  <2>2. mp \notin InQueue /\ mp \notin Waiting
    BY <1>0, <2>1 DEF Conserved, WithMain, Working, Waiting
  <2>3. InQueue' = InQueue \cup {mp}
    BY <1>0, <2>1, <2>2, AppendListing DEF InQueue
  <2>4. Waiting' = Waiting \cup {mp}
    BY <2>1 DEF Waiting
  <2>5. PICK f \in [Waiting -> Problems] : Pairing(f, Waiting, InQueue)
    BY DEF Paired
  <2>6. PICK g \in [Waiting' -> Problems] : g[mp] = mp /\ \A p \in Waiting : g[p] = f[p]
    <3> DEFINE h == [p \in Waiting' |-> IF p = mp THEN mp ELSE f[p]]
    <3>1. h \in [Waiting' -> Problems] /\ h[mp] = mp /\ \A p \in Waiting : h[p] = f[p]
      BY <2>1, <2>2, <2>4, <2>5
    <3> QED BY <3>1
  <2>7. \A p \in Waiting' : g[p] \in InQueue' /\ id'[g[p]] = id'[p]
    BY <2>1, <2>3, <2>4, <2>5, <2>6 DEF Pairing
  <2>8. \A p, q \in Waiting' : g[p] = g[q] => p = q
    BY <2>2, <2>4, <2>5, <2>6 DEF Pairing
  <2>9. Pairing(g, Waiting, InQueue)'
    BY <2>7, <2>8 DEF Pairing
  <2> QED BY <2>6, <2>9 DEF Paired
<1>7. CASE MainCreate
  <2>1. /\ mpc = "create" /\ mpc' = "count" /\ UNCHANGED <<problem_queue, id>>
        /\ \A p \in Problems : spc'[p] = spc[p] \/ p = mp
    BY <1>0, <1>7 DEF MainCreate, NextRound, TypeOK, heap
  <2>2. Waiting' \subseteq Waiting
    BY <2>1 DEF Waiting
  <2> QED BY <1>1, <2>1, <2>2
<1>8. ASSUME NEW p \in Problems, SolverStart(p) \/ SolverWrite(p) \/ SolverInsert(p)
      PROVE  Paired'
  <2>1. UNCHANGED <<problem_queue, id, mpc, mp>>
    BY <1>8 DEF SolverStart, SolverWrite, SolverInsert, heap, main
  <2>2. \A q \in Problems : spc'[q] \in {"start", "write", "extract"} =>
          spc[q] \in {"start", "write", "extract"}
    BY <1>0, <1>8 DEF SolverStart, SolverWrite, SolverInsert, TypeOK
  <2> QED BY <1>1, <2>1, <2>2 DEF Waiting
<1>9. ASSUME NEW p \in Problems, SolverExtract(p) PROVE Paired'
  <2>1. /\ spc[p] = "extract" /\ spc'[p] = "insert" /\ UNCHANGED <<id, mpc, mp>>
        /\ \A x \in Problems : x # p => spc'[x] = spc[x]
    BY <1>0, <1>9 DEF SolverExtract, TypeOK, main
  <2>2. p \in Waiting
    BY <2>1 DEF Waiting
  <2>3. Waiting' = Waiting \ {p}
    <3>1. mpc = "create" => mp # p
      BY <1>0, <2>1 DEF Working
    <3> QED BY <2>1, <3>1 DEF Waiting
  <2>4. PICK f \in [Waiting -> Problems] : Pairing(f, Waiting, InQueue)
    BY DEF Paired
  <2>5. PICK i \in 1 .. Len(problem_queue) :
          Matches(i, p) /\ problem_queue' = RemoveAt(problem_queue, i)
    <3>1. f[p] \in InQueue /\ id[f[p]] = id[p]
      BY <2>2, <2>4 DEF Pairing
    <3>2. PICK k \in 1 .. Len(problem_queue) : f[p] = problem_queue[k]
      BY <1>0, <3>1, LenProperties DEF InQueue, ToSet, Listing
    <3>3. Matches(k, p)
      BY <3>1, <3>2 DEF Matches
    <3> QED BY <1>9, <3>3 DEF SolverExtract
  <2> DEFINE q == problem_queue[i]
  <2>6. InQueue' = InQueue \ {q} /\ id[q] = id[p]
    BY <1>0, <2>5, RemoveListing DEF InQueue, Matches
  <2> HIDE DEF q
  <2>7. PICK g \in [Waiting' -> Problems] :
          \A x \in Waiting' : g[x] = IF f[x] = q THEN f[p] ELSE f[x]
    <3> DEFINE h == [x \in Waiting' |-> IF f[x] = q THEN f[p] ELSE f[x]]
    <3>1. h \in [Waiting' -> Problems]
      BY <2>2, <2>3, <2>4
    <3> QED BY <3>1
  <2>8. \A x \in Waiting' : g[x] \in InQueue' /\ id'[g[x]] = id'[x]
    BY <2>1, <2>2, <2>3, <2>4, <2>6, <2>7 DEF Pairing
  <2>9. \A x, y \in Waiting' : g[x] = g[y] => x = y
    BY <2>2, <2>3, <2>4, <2>7 DEF Pairing
  <2>10. Pairing(g, Waiting, InQueue)'
    BY <2>8, <2>9 DEF Pairing
  <2> QED BY <2>7, <2>10 DEF Paired
<1>10. ASSUME NEW c \in Clients, OpenFile(c) PROVE Paired'
  <2>1. Waiting \subseteq live /\ Waiting \subseteq Problems
    BY <1>0 DEF Working, Waiting, TypeOK
  <2>2. InQueue \subseteq live /\ live \subseteq Problems
    BY <1>0 DEF Conserved, TypeOK
  <2>3. \A x \in live : id'[x] = id[x]
    BY <1>10, <2>2, Opening
  <2>4. UNCHANGED <<problem_queue, mpc, mp, spc>>
    BY <1>10, Opening
  <2>5. Waiting' = Waiting /\ InQueue' = InQueue
    BY <2>4 DEF Waiting, InQueue
  <2> QED BY <2>1, <2>2, <2>3, <2>5, PairsKept
<1>11. ASSUME NEW c \in Clients,
              TakeId(c) \/ StoreId(c) \/ Flush(c) \/ CloseFile(c) \/ InsertProblem(c) \/ Reply(c)
       PROVE  Paired'
  BY <1>2, <1>11 DEF TakeId, StoreId, Flush, CloseFile, InsertProblem, Reply, heap, main, solve
<1> QED BY <1>2, <1>3, <1>4, <1>5, <1>6, <1>7, <1>8, <1>9, <1>10, <1>11
        DEF Next, Main, MainFull, Solver, Register, vars, heap, main, solve

-----------------------------------------------------------------------------
(* The files and the pairs hold on to what the threads need, for ever.       *)
AllInv == Inv /\ FilesInv /\ Paired

(* Every step keeps the files in order and the threads paired.               *)
THEOREM FilesInvariance == Spec => []AllInv
<1>1. Init => AllInv
  BY InitInv, InitFiles DEF AllInv
<1>2. AllInv /\ [Next]_vars => AllInv'
  <2> SUFFICES ASSUME AllInv, [Next]_vars PROVE AllInv'
    OBVIOUS
  <2>0. Inv /\ Naming /\ StatusFollows /\ OwnFile /\ NothingTaken /\ Paired
    BY DEF AllInv, FilesInv
  <2>1. Inv'
    BY TypeStep, FilesKeptStep, DeadIsEmptyStep, RegisteringStep, WorkingStep,
       ConservedStep, QueueBoundedStep DEF AllInv, Inv
  <2>2. Naming' /\ StatusFollows'
    BY <2>0, NamingStep, StatusFollowsStep
  <2>3. OwnFile' /\ NothingTaken'
    BY <2>0, OwnFileStep, NothingTakenStep
  <2>4. Paired'
    BY <2>0, PairedStep
  <2> QED BY <2>1, <2>2, <2>3, <2>4 DEF AllInv, FilesInv
<1> QED BY <1>1, <1>2, PTL DEF Spec

(* What _extract_db returns to a solver thread is never NULL (aiqbd.c, 176): *)
(* the thread always has an element of the queue to itself.                  *)
THEOREM SolversFind == Spec => []SolverFinds
<1>1. AllInv => SolverFinds
  BY DEF AllInv, Paired, Pairing, Waiting, SolverFinds
<1> QED BY <1>1, FilesInvariance, PTL

(* Memory and database_dir agree about which problems are solved, for every  *)
(* problem whose file no other problem was given; a problem without a file   *)
(* came when the disk was full.                                              *)
THEOREM FilesAgree == Spec => []StatusAgrees
<1>1. AllInv => StatusAgrees
  <2> SUFFICES ASSUME AllInv, NEW p \in live, ~Twin(p)
               PROVE  /\ OnDisk(p) \/ p \in unsaved
                      /\ disk[name[p]].status = "S" => status[p] = "S"
                      /\ status[p] = "S" /\ spc[p] \in {"none", "insert"} /\ p \notin unserved
                           => disk[name[p]].status = "S"
    BY DEF StatusAgrees
  <2>1. p \in Problems /\ name[p] # NULL /\ name[p] \in DOMAIN disk
    BY DEF AllInv, Inv, TypeOK, FilesKept
  <2>2. Mine(p)
    BY <2>1 DEF AllInv, FilesInv, OwnFile
  <2> QED BY <2>1, <2>2 DEF Mine, OnDisk
<1> QED BY <1>1, FilesInvariance, PTL

(* An answered problem the disk had room for stays in its file, complete,    *)
(* over any number of crashes, unless the counter was wrong (two             *)
(* registrations raced for an id, a start did not see the files) and         *)
(* another problem took its file.                                            *)
THEOREM AckedStaysOnDisk == Spec => []AckedDurable
<1>1. AllInv => AckedDurable
  <2> SUFFICES ASSUME AllInv, NEW p \in acked \ unsaved, ~miscounted \/ ~Twin(p)
               PROVE  OnDisk(p) /\ disk[name[p]].whole
    BY DEF AckedDurable
  <2>1. p \in Problems /\ name[p] # NULL /\ name[p] \in DOMAIN disk
    BY DEF AllInv, FilesInv, Naming, Inv, TypeOK, FilesKept
  <2>2. p \in Kept
    BY DEF Kept
  <2>3. CASE ~miscounted
    BY <2>2, <2>3 DEF AllInv, FilesInv, NothingTaken, Loadable
  <2>4. CASE ~Twin(p)
    <3>1. Mine(p)
      BY <2>1, <2>4 DEF AllInv, FilesInv, OwnFile
    <3> QED BY <2>1, <2>2, <3>1 DEF Mine, OnDisk
  <2> QED BY <2>3, <2>4
<1> QED BY <1>1, FilesInvariance, PTL

(* As long as the counter counts right no id is ever given out twice, over   *)
(* any number of restarts, but for one whose file the disk had no room for.  *)
THEOREM IdsStayFresh == Spec => []IdsFresh
<1>1. AllInv => IdsFresh
  <2> SUFFICES ASSUME AllInv, ~miscounted,
                      NEW p \in (acked \ unsaved) \cup live, NEW q \in (acked \ unsaved) \cup live,
                      p # q, p \notin Preloaded
               PROVE  id[p] # id[q]
    BY DEF IdsFresh
  <2>1. acked \ unsaved \subseteq Kept
    BY DEF Kept
  <2>2. p \in Owners /\ q \in Owners
    BY <2>1 DEF AllInv, FilesInv, NothingTaken, Owners
  <2> QED BY <2>2 DEF AllInv, FilesInv, NothingTaken
<1> QED BY <1>1, FilesInvariance, PTL
=============================================================================

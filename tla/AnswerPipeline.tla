---------------------------- MODULE AnswerPipeline ----------------------------
(***************************************************************************)
(* The life of an answer in the aiqbd daemon: clients register answers,    *)
(* ask for their solutions and delete them; the main loop moves new ones   *)
(* to a bounded queue and starts a thread for each, which marks the answer *)
(* solved and moves it back.  Answers live in memory only.                 *)
(*                                                                         *)
(* Granularity: one step per list call (_insert_queue, _find_queue,        *)
(* _extract_queue, _count_queue) and per use of an answer after it; what   *)
(* overlapping calls do to a list is the subject of FsdbRing, whose code   *)
(* these functions repeat.                                                 *)
(*                                                                         *)
(* The definitions just before FoundAt, Unlinked, Inserted, Room and Done, *)
(* with the same parameters, are wrong forms of them: the properties are   *)
(* shown to fail when one takes its place.                                 *)
(***************************************************************************)
EXTENDS Naturals, Sequences, FiniteSets, SequencesExt

CONSTANTS
  Answers,      \* struct answer_t objects, each allocated at most once
  Clients,      \* socket client threads
  JunkIds,      \* what id may hold when malloc returns: nothing initialises it
  AskedIds,     \* bound: the ids clients ask for and delete
  QueueSize,    \* _config.answer_queue_size
  Faults,       \* the calls that may fail
  NULL

ASSUME ConstantsAssumption ==
  /\ NULL \notin Answers
  /\ JunkIds \subseteq Nat /\ JunkIds # {} /\ AskedIds \subseteq Nat
  /\ QueueSize \in Nat /\ Faults \subseteq {"create"}

VARIABLES
  answers, answer_queue,  \* _config.answers and _config.answer_queue
  id, status,             \* of each answer
  mpc, ma,                \* main loop: where it is, the answer it works on
  spc, sa,                \* thread of each answer, what it extracted
  cpc, ca,                \* client thread: where it is, the answer it works on
  freed,                  \* answers given back to the heap
  dangling,               \* who used a freed answer; what follows is undefined
  \* history, read by the properties only
  twins,                  \* an answer was given the id of one not yet deleted
  unserved                \* answers in the queue whose thread was not created

lists == <<answers, answer_queue>>
data  == <<id, status>>
main  == <<mpc, ma>>
solve == <<spc, sa>>
client == <<cpc, ca>>
mem   == <<freed, dangling>>
hist  == <<twins, unserved>>
vars  == <<lists, data, main, solve, client, mem, hist>>

Allocated == {a \in Answers : status[a] # "free"}
Live == Allocated \ freed

Init ==
  /\ answers = <<>> /\ answer_queue = <<>>
  /\ id \in [Answers -> JunkIds]
  /\ status = [a \in Answers |-> "free"]
  /\ mpc = "count" /\ ma = NULL
  /\ spc = [a \in Answers |-> "none"] /\ sa = [a \in Answers |-> NULL]
  /\ cpc = [c \in Clients |-> "idle"] /\ ca = [c \in Clients |-> NULL]
  /\ freed = {} /\ dangling = "nobody" /\ twins = FALSE /\ unserved = {}

\* who reads or writes a: the step goes on only if a is still allocated.
Uses(who, a) == dangling' = IF a \in freed THEN who ELSE dangling

(* _last_id_queue: the largest id in the list, at least 1; a set of one id. *)
LastIds(list) ==
  LET ids == {1} \cup {id[a] : a \in ToSet(list)}
  IN  {n \in ids : \A i \in ids : i <= n}

(* _insert_queue: an id below 1 is replaced. *)
InsertedIds(list, a) ==
  IF id[a] >= 1 THEN {id[a]}
  ELSE IF list = <<>> THEN {1} ELSE {n + 1 : n \in LastIds(list)}

(* _find_queue: the first answer of that id, for 0 the first answer. *)
FoundAtLeast(list, i, k) ==
  /\ k \in 1 .. Len(list)
  /\ id[list[k]] >= i /\ \A j \in 1 .. (k - 1) : id[list[j]] < i
FoundAt(list, i, k) ==
  /\ k \in 1 .. Len(list)
  /\ i = 0 => k = 1
  /\ i # 0 => id[list[k]] = i /\ \A j \in 1 .. (k - 1) : id[list[j]] # i
NotFound(list, i) == \A k \in 1 .. Len(list) : i # 0 /\ id[list[k]] # i

(* _extract_queue's unlinking, and _insert_queue, which ignores NULL. *)
UnlinkedUnlessHead(list, k) == IF k = 1 THEN list ELSE RemoveAt(list, k)
Unlinked(list, k) == RemoveAt(list, k)
InsertedUnlessEmpty(list, a) == IF a = NULL \/ list = <<>> THEN list ELSE Append(list, a)
Inserted(list, a) == IF a = NULL THEN list ELSE Append(list, a)

\* A use of freed memory ends what can be said: no step follows it.
MainAt(s) == dangling = "nobody" /\ mpc = s
SolverAt(a, s) == dangling = "nobody" /\ spc[a] = s
ClientAt(c, s) == dangling = "nobody" /\ cpc[c] = s

-----------------------------------------------------------------------------
(* The main loop, its half that serves answers. *)

RoomShortByOne == Len(answer_queue) + 1 < QueueSize
Room == Len(answer_queue) < QueueSize

IsNew(a) == status[a] = "N"
Claim(a) == [status EXCEPT ![a] = "I"]      \* In progress

MainCount ==
  /\ MainAt("count") /\ Room
  /\ mpc' = "extract"
  /\ UNCHANGED <<lists, data, ma, solve, client, mem, hist>>

MainFull ==
  /\ MainAt("count") /\ ~Room
  /\ UNCHANGED vars

MainExtract ==
  /\ MainAt("extract")
  /\ IF answers = <<>>
       THEN mpc' = "count" /\ UNCHANGED <<answers, ma>>
       ELSE /\ ma' = Head(answers) /\ answers' = Tail(answers)
            /\ mpc' = "examine"
  /\ UNCHANGED <<answer_queue, data, solve, client, mem, hist>>

MainExamine ==
  /\ MainAt("examine")
  /\ Uses("main", ma)
  /\ IF IsNew(ma)
       THEN mpc' = "enqueue" /\ status' = Claim(ma)
       ELSE mpc' = "requeue" /\ UNCHANGED status
  /\ UNCHANGED <<lists, id, ma, solve, client, freed, hist>>

MainEnqueue ==
  /\ MainAt("enqueue")
  /\ Uses("main", ma)
  /\ answer_queue' = Inserted(answer_queue, ma)
  /\ mpc' = "create"
  /\ UNCHANGED <<answers, data, ma, solve, client, freed, hist>>

MainCreate ==
  /\ MainAt("create")
  /\ Uses("main", ma)
  /\ \/ spc' = [spc EXCEPT ![ma] = "start"] /\ UNCHANGED unserved
     \/ "create" \in Faults /\ unserved' = unserved \cup {ma} /\ UNCHANGED spc
  /\ mpc' = "count" /\ ma' = NULL
  /\ UNCHANGED <<lists, data, sa, client, freed, twins>>

MainRequeue ==
  /\ MainAt("requeue")
  /\ Uses("main", ma)
  /\ answers' = Inserted(answers, ma)
  /\ mpc' = "count" /\ ma' = NULL
  /\ UNCHANGED <<answer_queue, data, solve, client, freed, hist>>

Main == \/ MainCount \/ MainFull \/ MainExtract \/ MainExamine
        \/ MainEnqueue \/ MainCreate \/ MainRequeue

-----------------------------------------------------------------------------
(* _aiqbd_handling_answer, the thread started for answer a. *)

SolverStart(a) ==
  /\ SolverAt(a, "start")
  /\ Uses("solver", a)
  /\ status' = [status EXCEPT ![a] = "S"]
  /\ spc' = [spc EXCEPT ![a] = "extract"]
  /\ UNCHANGED <<lists, id, main, sa, client, freed, hist>>

SolverExtract(a) ==
  /\ SolverAt(a, "extract")
  /\ Uses("solver", a)
  /\ \/ \E k \in 1 .. Len(answer_queue) :
          /\ FoundAt(answer_queue, id[a], k)
          /\ sa' = [sa EXCEPT ![a] = answer_queue[k]]
          /\ answer_queue' = Unlinked(answer_queue, k)
     \/ /\ NotFound(answer_queue, id[a])
        /\ UNCHANGED <<sa, answer_queue>>
  /\ spc' = [spc EXCEPT ![a] = "insert"]
  /\ UNCHANGED <<answers, data, main, client, freed, hist>>

SolverInsert(a) ==
  /\ SolverAt(a, "insert")
  /\ answers' = Inserted(answers, sa[a])
  /\ spc' = [spc EXCEPT ![a] = "none"] /\ sa' = [sa EXCEPT ![a] = NULL]
  /\ UNCHANGED <<answer_queue, data, main, client, mem, hist>>

Solver(a) == SolverStart(a) \/ SolverExtract(a) \/ SolverInsert(a)

-----------------------------------------------------------------------------
(* A client's parser: reg:answer, req:solution and dlt:answer. *)

\* the parser goes on to the next command
DoneKeepsAnswer(c) == cpc' = [cpc EXCEPT ![c] = "idle"] /\ UNCHANGED ca
Done(c) == cpc' = [cpc EXCEPT ![c] = "idle"] /\ ca' = [ca EXCEPT ![c] = NULL]

(* _aiqbd_register_answer up to the return of _insert_queue. *)
RegisterAnswer(c) ==
  /\ ClientAt(c, "idle")
  /\ \E a \in Answers \ Allocated : \E i \in InsertedIds(answers, a) :
       /\ id' = [id EXCEPT ![a] = i]
       /\ status' = [status EXCEPT ![a] = "N"]
       /\ answers' = Inserted(answers, a)
       /\ ca' = [ca EXCEPT ![c] = a]
       /\ twins' = (twins \/ \E b \in Live : id[b] = i)
  /\ cpc' = [cpc EXCEPT ![c] = "registered"]
  /\ UNCHANGED <<answer_queue, main, solve, mem, unserved>>

(* The id is read back from the answer for the reply. *)
ReplyAnswerOk(c) ==
  /\ ClientAt(c, "registered")
  /\ Uses("client", ca[c])
  /\ cpc' = [cpc EXCEPT ![c] = "replied"]
  /\ UNCHANGED <<lists, data, main, solve, ca, freed, hist>>

(* _print_answer: the parser reads the answer once more after the reply. *)
PrintAnswer(c) ==
  /\ ClientAt(c, "replied")
  /\ Uses("client", ca[c])
  /\ Done(c)
  /\ UNCHANGED <<lists, data, main, solve, freed, hist>>

(* req:solution: found answers are read after the call has returned, others *)
(* are answered err:unknown.                                                *)
RequestSolution(c) ==
  /\ ClientAt(c, "idle")
  /\ \E i \in AskedIds, k \in 1 .. Len(answers) :
       /\ FoundAt(answers, i, k)
       /\ ca' = [ca EXCEPT ![c] = answers[k]]
  /\ cpc' = [cpc EXCEPT ![c] = "found"]
  /\ UNCHANGED <<lists, data, main, solve, mem, hist>>

(* The status decides between wrn:notready and ok:solution. *)
ReplySolution(c) ==
  /\ ClientAt(c, "found")
  /\ Uses("client", ca[c])
  /\ IF status[ca[c]] = "S"
       THEN cpc' = [cpc EXCEPT ![c] = "solution"] /\ UNCHANGED ca
       ELSE Done(c)
  /\ UNCHANGED <<lists, data, main, solve, freed, hist>>

(* _reply writes the numbers of the solution one at a time. *)
WriteSolution(c) ==
  /\ ClientAt(c, "solution")
  /\ Uses("client", ca[c])
  /\ Done(c)
  /\ UNCHANGED <<lists, data, main, solve, freed, hist>>

DeleteAnswer(c) ==
  /\ ClientAt(c, "idle")
  /\ \E i \in AskedIds, k \in 1 .. Len(answers) :
       /\ FoundAt(answers, i, k)
       /\ ca' = [ca EXCEPT ![c] = answers[k]]
       /\ answers' = Unlinked(answers, k)
  /\ cpc' = [cpc EXCEPT ![c] = "extracted"]
  /\ UNCHANGED <<answer_queue, data, main, solve, mem, hist>>

FreeAnswer(c) ==
  /\ ClientAt(c, "extracted")
  /\ Uses("client", ca[c])
  /\ freed' = freed \cup {ca[c]}
  /\ Done(c)
  /\ UNCHANGED <<lists, data, main, solve, hist>>

Client(c) == \/ RegisterAnswer(c) \/ ReplyAnswerOk(c) \/ PrintAnswer(c)
             \/ RequestSolution(c) \/ ReplySolution(c) \/ WriteSolution(c)
             \/ DeleteAnswer(c) \/ FreeAnswer(c)

-----------------------------------------------------------------------------
Next == Main \/ (\E a \in Answers : Solver(a)) \/ (\E c \in Clients : Client(c))

Spec == Init /\ [][Next]_vars

(* Fairness: every thread that can take a step of its own code goes on; the  *)
(* main loop does so once a second.  Nobody promises that clients send more. *)
GoesOn(c) == \/ ReplyAnswerOk(c) \/ PrintAnswer(c)
             \/ ReplySolution(c) \/ WriteSolution(c) \/ FreeAnswer(c)
FairSpec ==
  /\ Spec
  /\ WF_vars(Main)
  /\ \A a \in Answers : WF_vars(Solver(a))
  /\ \A c \in Clients : WF_vars(GoesOn(c))

-----------------------------------------------------------------------------
(* Type invariant. *)
TypeOK ==
  /\ answers \in Seq(Answers) /\ answer_queue \in Seq(Answers)
  /\ id \in [Answers -> Nat]
  /\ status \in [Answers -> {"free", "N", "I", "S"}]
  /\ mpc \in {"count", "extract", "examine", "enqueue", "create", "requeue"}
  /\ ma \in Answers \cup {NULL}
  /\ mpc \in {"examine", "enqueue", "create", "requeue"} <=> ma # NULL
  /\ spc \in [Answers -> {"none", "start", "extract", "insert"}]
  /\ sa \in [Answers -> Answers \cup {NULL}]
  /\ cpc \in [Clients -> {"idle", "registered", "replied", "found", "solution", "extracted"}]
  /\ ca \in [Clients -> Answers \cup {NULL}]
  /\ \A c \in Clients : cpc[c] # "idle" <=> ca[c] # NULL
  /\ freed \subseteq Answers
  /\ dangling \in {"nobody", "main", "solver", "client"}
  /\ twins \in BOOLEAN /\ unserved \subseteq Answers

WithMain == IF mpc \in {"examine", "enqueue", "requeue"} THEN {ma} ELSE {}
WithSolvers == {sa[a] : a \in Answers} \ {NULL}
WithClients == {ca[c] : c \in {d \in Clients : cpc[d] = "extracted"}}

(* Conservation: as long as nobody has used a freed answer, each registered  *)
(* answer is in exactly one place: a list, the hands of the one thread that  *)
(* has taken it out (main.c, 84-95; aiqbd.c, 190-191; parser.c, 297), or the *)
(* heap; so none is lost, served twice or freed twice.                       *)
Conserved ==
  dangling = "nobody" =>
    /\ ToSet(answers) \cup ToSet(answer_queue) \cup WithMain \cup WithSolvers
         \cup WithClients = Live
    /\ IsInjective(answers) /\ IsInjective(answer_queue)
    /\ ToSet(answers) \cap ToSet(answer_queue) = {}
    /\ (WithMain \cup WithSolvers \cup WithClients)
         \cap (ToSet(answers) \cup ToSet(answer_queue)) = {}
    /\ WithMain \cap (WithSolvers \cup WithClients) = {}
    /\ WithSolvers \cap WithClients = {}
    /\ \A a, b \in Answers : sa[a] = sa[b] => a = b \/ sa[a] = NULL
    /\ \A c, d \in Clients :
         cpc[c] = "extracted" /\ cpc[d] = "extracted" /\ ca[c] = ca[d] => c = d

(* An answer's thread always finds an answer of its id in the queue: two     *)
(* with one id are moved back by one another's threads, but both are moved.  *)
SolverFinds ==
  \A a \in Answers : spc[a] = "extract" /\ a \notin freed =>
    \E b \in ToSet(answer_queue) : id[b] = id[a]

(* The main loop uses an answer only while it is allocated, whatever clients *)
(* delete, even after it has put the answer in the queue (main.c, 89-90); an *)
(* answer's own thread may find it freed only after two answers that both    *)
(* existed were given one id (aiqbd.c, 187-190).                             *)
StrayUseNeedsTwins == dangling # "main" /\ (dangling = "solver" => twins)

(* Every registered answer is solved unless it is deleted first or its thread *)
(* cannot be created, as long as fewer threads have failed than the queue     *)
(* has places (main.c, 83-92): the main loop's rotation reaches it, and a     *)
(* queue that is full is emptied.                                             *)
AnswerSolved ==
  \A a \in Answers :
    status[a] = "N" ~>
      \/ status[a] = "S" \/ a \in freed \/ dangling # "nobody"
      \/ a \in unserved \/ Cardinality(unserved) >= QueueSize
=============================================================================

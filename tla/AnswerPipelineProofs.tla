------------------------ MODULE AnswerPipelineProofs ------------------------
(***************************************************************************)
(* Proofs about AnswerPipeline, for any number of answers and clients, any *)
(* ids that malloc leaves in an answer and any queue size.                 *)
(***************************************************************************)
EXTENDS AnswerPipeline, ListLemmas

-----------------------------------------------------------------------------
(* What is known of an answer from who works on it. *)
Known ==
  /\ \A a \in Allocated : id[a] >= 1
  /\ freed \subseteq Allocated
  /\ \A a \in Answers : sa[a] # NULL => spc[a] = "insert"
  /\ \A a \in Answers : status[a] \in {"free", "N"} => spc[a] = "none"
  /\ mpc \in {"enqueue", "create"} => status[ma] \notin {"free", "N"} /\ spc[ma] = "none"

(* Where the answers are, whoever has used a freed one meanwhile. *)
InAnswers == ToSet(answers)
InQueue == ToSet(answer_queue)
Apart(A, Q, M, S, C) ==
  /\ A \cap Q = {} /\ (M \cup S \cup C) \cap (A \cup Q) = {}
  /\ M \cap (S \cup C) = {} /\ S \cap C = {}
Places ==
  /\ InAnswers \cup InQueue \cup WithMain \cup WithSolvers \cup WithClients = Live
  /\ Apart(InAnswers, InQueue, WithMain, WithSolvers, WithClients)
  /\ IsInjective(answers) /\ IsInjective(answer_queue)
  /\ \A a, b \in Answers : sa[a] = sa[b] => a = b \/ sa[a] = NULL
  /\ \A c, d \in Clients :
       cpc[c] = "extracted" /\ cpc[d] = "extracted" /\ ca[c] = ca[d] => c = d

(* Until its thread exists, the answer the main loop has just put in the     *)
(* queue is the last one there.                                              *)
JustQueued ==
  mpc = "create" =>
    /\ answer_queue # <<>>
    /\ answer_queue[Len(answer_queue)] = ma

(* Every thread that has not extracted yet has an answer of its id in the    *)
(* queue to itself, other than the one whose thread does not exist yet.      *)
Waiting == {a \in Answers : spc[a] \in {"start", "extract"}}
Served == IF mpc = "create" THEN InQueue \ {ma} ELSE InQueue
Pairing(f, W, Q) ==
  /\ \A a \in W : f[a] \in Q /\ id[f[a]] = id[a]
  /\ \A a, b \in W : f[a] = f[b] => a = b
Paired == \E f \in [Waiting -> Answers] : Pairing(f, Waiting, Served)

(* Where no id was given to two answers at a time, no thread meets an answer *)
(* but its own.                                                              *)
Alone ==
  ~twins => /\ \A a, b \in Live : id[a] = id[b] => a = b
            /\ Waiting \subseteq InQueue

Inv == /\ TypeOK /\ Known /\ Places /\ JustQueued /\ Paired /\ Alone
       /\ StrayUseNeedsTwins

-----------------------------------------------------------------------------
(* The daemon starts without answers. *)
LEMMA InitInv == Init => Inv
<1> SUFFICES ASSUME Init PROVE Inv
  OBVIOUS
<1>1. TypeOK
  <2>1. answers \in Seq(Answers) /\ answer_queue \in Seq(Answers)
    BY EmptySeq DEF Init
  <2> QED BY <2>1, ConstantsAssumption DEF Init, TypeOK
<1>2. Known /\ JustQueued /\ StrayUseNeedsTwins
  BY DEF Init, Known, JustQueued, StrayUseNeedsTwins, Allocated
<1>3. Places
  BY EmptyListing DEF Init, Places, Apart, Listing, InAnswers, InQueue, WithMain, WithSolvers,
                      WithClients, Live, Allocated
<1>4. Waiting = {}
  BY DEF Init, Waiting
<1>5. Paired
  <2>1. [a \in {} |-> a] \in [{} -> Answers]
    OBVIOUS
  <2> QED BY <1>4, <2>1 DEF Paired, Pairing
<1>6. Alone
  BY <1>4 DEF Init, Alone, Live, Allocated
<1> QED BY <1>1, <1>2, <1>3, <1>5, <1>6 DEF Inv

(* The lists as Places sees them. *)
LEMMA ListsAreListings ==
  Inv => Listing(answers, Answers) /\ Listing(answer_queue, Answers)
BY DEF Inv, TypeOK, Places, Listing

(* Nobody uses a freed answer but after two got one id: what the steps       *)
(* below can assume of the state they start from.                            *)
LEMMA MainHolds ==
  ASSUME Inv
  PROVE  /\ mpc \in {"examine", "enqueue", "create", "requeue"} => ma \in Live
         /\ \A a \in Answers : sa[a] # NULL => sa[a] \in Live
         /\ \A c \in Clients : cpc[c] = "extracted" => ca[c] \in Live
<1>1. mpc \in {"examine", "enqueue", "requeue"} => ma \in Live
  BY DEF Inv, Places, WithMain
<1>2. mpc = "create" => ma \in Live
  <2> SUFFICES ASSUME mpc = "create" PROVE ma \in Live
    OBVIOUS
  <2>1. answer_queue # <<>> /\ ma = answer_queue[Len(answer_queue)]
    BY DEF Inv, JustQueued
  <2>2. Len(answer_queue) \in 1 .. Len(answer_queue)
    BY <2>1, EmptySeq, LenProperties DEF Inv, TypeOK
  <2>3. ma \in InQueue
    BY <2>1, <2>2, ListsAreListings, RemoveListing DEF InQueue
  <2> QED BY <2>3 DEF Inv, Places
<1>3. \A a \in Answers : sa[a] # NULL => sa[a] \in Live
  BY DEF Inv, Places, WithSolvers
<1>4. \A c \in Clients : cpc[c] = "extracted" => ca[c] \in Live
  BY DEF Inv, Places, WithClients
<1> QED BY <1>1, <1>2, <1>3, <1>4

(* What registration puts in an answer. *)
LEMMA NewIds ==
  ASSUME TypeOK, NEW a \in Answers, NEW i \in InsertedIds(answers, a)
  PROVE  i \in Nat \ {0}
<1>1. \A b \in ToSet(answers) : b \in Answers
  BY DEF TypeOK, ToSet
<1>2. LastIds(answers) \subseteq Nat
  BY <1>1 DEF LastIds, TypeOK
<1> QED BY <1>2 DEF InsertedIds, TypeOK

(* Every step of every thread keeps the types. *)
LEMMA TypeStep == Inv /\ [Next]_vars => TypeOK'
<1> SUFFICES ASSUME Inv, [Next]_vars PROVE TypeOK'
  OBVIOUS
<1>0. /\ Listing(answers, Answers) /\ Listing(answer_queue, Answers)
      /\ NULL \notin Answers
  BY ListsAreListings, ConstantsAssumption
<1>00. TypeOK
  BY DEF Inv
<1>1. CASE UNCHANGED vars
  BY <1>00, <1>1 DEF TypeOK, vars, lists, data, main, solve, client, mem, hist
<1>2. CASE MainCount \/ MainFull
  BY <1>00, <1>2 DEF MainCount, MainFull, MainAt, TypeOK, vars, lists, data, main, solve, client, mem, hist
<1>3. CASE MainExtract
  <2>1. CASE answers = <<>>
    BY <1>00, <1>3, <2>1 DEF MainExtract, MainAt, TypeOK, data, solve, client, mem, hist
  <2>2. CASE answers # <<>>
    <3>1. Head(answers) \in Answers /\ Tail(answers) \in Seq(Answers)
      BY <1>0, <2>2, TailListing DEF Listing
    <3>2. mpc' = "examine" /\ ma' \in Answers /\ answers' \in Seq(Answers) /\ ma' # NULL
      BY <1>0, <1>3, <2>2, <3>1 DEF MainExtract
    <3> QED BY <1>00, <1>3, <3>2 DEF MainExtract, TypeOK, data, solve, client, mem, hist
  <2> QED BY <2>1, <2>2
<1>4. CASE MainExamine
  BY <1>00, <1>4 DEF MainExamine, MainAt, Uses, Claim, TypeOK, lists, solve, client, hist
<1>5. CASE MainEnqueue
  BY <1>00, <1>5 DEF MainEnqueue, MainAt, Uses, Inserted, TypeOK, data, solve, client, hist
<1>6. CASE MainCreate
  BY <1>00, <1>6 DEF MainCreate, MainAt, Uses, TypeOK, lists, data, client
<1>7. CASE MainRequeue
  BY <1>00, <1>7 DEF MainRequeue, MainAt, Uses, Inserted, TypeOK, data, solve, client, hist
<1>8. ASSUME NEW a \in Answers, SolverStart(a) PROVE TypeOK'
  BY <1>00, <1>8 DEF SolverStart, Uses, TypeOK, lists, main, client, hist
<1>9. ASSUME NEW a \in Answers, SolverExtract(a) PROVE TypeOK'
  <2>1. answer_queue' \in Seq(Answers) /\ sa' \in [Answers -> Answers \cup {NULL}]
    <3>1. CASE UNCHANGED <<sa, answer_queue>>
      BY <1>00, <3>1 DEF TypeOK
    <3>2. ASSUME NEW k \in 1 .. Len(answer_queue),
                 sa' = [sa EXCEPT ![a] = answer_queue[k]],
                 answer_queue' = RemoveAt(answer_queue, k)
          PROVE  answer_queue' \in Seq(Answers) /\ sa' \in [Answers -> Answers \cup {NULL}]
      <4>1. answer_queue[k] \in Answers /\ RemoveAt(answer_queue, k) \in Seq(Answers)
        BY <1>0, RemoveListing DEF Listing
      <4> QED BY <1>00, <3>2, <4>1 DEF TypeOK
    <3> QED BY <1>9, <3>1, <3>2 DEF SolverExtract, Unlinked
  <2>2. spc' \in [Answers -> {"none", "start", "extract", "insert"}]
    BY <1>00, <1>9 DEF SolverExtract, TypeOK
  <2> QED BY <1>00, <1>9, <2>1, <2>2 DEF SolverExtract, Uses, TypeOK, data, main, client, hist
<1>10. ASSUME NEW a \in Answers, SolverInsert(a) PROVE TypeOK'
  BY <1>00, <1>10 DEF SolverInsert, Inserted, TypeOK, data, main, client, mem, hist
<1>11. ASSUME NEW c \in Clients, RegisterAnswer(c) PROVE TypeOK'
  <2>1. PICK a \in Answers \ Allocated : \E i \in InsertedIds(answers, a) :
          /\ id' = [id EXCEPT ![a] = i] /\ status' = [status EXCEPT ![a] = "N"]
          /\ answers' = Inserted(answers, a) /\ ca' = [ca EXCEPT ![c] = a]
          /\ twins' = (twins \/ \E b \in Live : id[b] = i)
    BY <1>11 DEF RegisterAnswer
  <2>2. PICK i \in Nat :
          /\ id' = [id EXCEPT ![a] = i] /\ status' = [status EXCEPT ![a] = "N"]
          /\ answers' = Inserted(answers, a) /\ ca' = [ca EXCEPT ![c] = a]
          /\ twins' = (twins \/ \E b \in Live : id[b] = i)
    BY <1>00, <2>1, NewIds
  <2>3. /\ id' \in [Answers -> Nat] /\ twins' \in BOOLEAN
        /\ status' \in [Answers -> {"free", "N", "I", "S"}]
        /\ answers' \in Seq(Answers)
    BY <1>00, <2>2 DEF TypeOK, Inserted
  <2>4. /\ cpc' \in [Clients -> {"idle", "registered", "replied", "found", "solution", "extracted"}]
        /\ ca' \in [Clients -> Answers \cup {NULL}]
        /\ \A d \in Clients : cpc'[d] # "idle" <=> ca'[d] # NULL
    BY <1>00, <1>0, <1>11, <2>2 DEF RegisterAnswer, TypeOK
  <2> QED BY <1>00, <1>11, <2>3, <2>4 DEF RegisterAnswer, TypeOK, main, solve, mem
<1>12. ASSUME NEW c \in Clients,
              ReplyAnswerOk(c) \/ PrintAnswer(c) \/ WriteSolution(c) \/ ReplySolution(c) \/ FreeAnswer(c)
       PROVE  TypeOK'
  <2>1. /\ cpc' \in [Clients -> {"idle", "registered", "replied", "found", "solution", "extracted"}]
        /\ ca' \in [Clients -> Answers \cup {NULL}]
        /\ \A d \in Clients : cpc'[d] # "idle" <=> ca'[d] # NULL
    BY ZenonT(60), <1>00, <1>0, <1>12 DEF ReplyAnswerOk, PrintAnswer, WriteSolution, ReplySolution, FreeAnswer, Done,
                              ClientAt, TypeOK
  <2>2. freed' \subseteq Answers /\ dangling' \in {"nobody", "main", "solver", "client"}
    BY <1>00, <1>12 DEF ReplyAnswerOk, PrintAnswer, WriteSolution, ReplySolution, FreeAnswer, ClientAt,
                        Uses, TypeOK
  <2>3. UNCHANGED <<answers, answer_queue, id, status, mpc, ma, spc, sa, twins, unserved>>
    BY <1>12 DEF ReplyAnswerOk, PrintAnswer, WriteSolution, ReplySolution, FreeAnswer,
                 lists, data, main, solve, hist
  <2> QED BY <1>00, <2>1, <2>2, <2>3 DEF TypeOK
<1>13. ASSUME NEW c \in Clients, RequestSolution(c) \/ DeleteAnswer(c) PROVE TypeOK'
  <2>1. PICK k \in 1 .. Len(answers) :
          /\ ca' = [ca EXCEPT ![c] = answers[k]]
          /\ UNCHANGED answers \/ answers' = RemoveAt(answers, k)
    BY <1>13 DEF RequestSolution, DeleteAnswer, Unlinked, lists
  <2>2. answers[k] \in Answers /\ answers' \in Seq(Answers)
    <3>1. answers[k] \in Answers /\ Listing(RemoveAt(answers, k), Answers)
      BY <1>0, RemoveListing
    <3> QED BY <1>0, <2>1, <3>1 DEF Listing
  <2>3. /\ cpc' \in [Clients -> {"idle", "registered", "replied", "found", "solution", "extracted"}]
        /\ ca' \in [Clients -> Answers \cup {NULL}]
        /\ \A d \in Clients : cpc'[d] # "idle" <=> ca'[d] # NULL
    BY ZenonT(60), <1>00, <1>0, <1>13, <2>1, <2>2 DEF RequestSolution, DeleteAnswer, TypeOK
  <2>4. UNCHANGED <<answer_queue, id, status, mpc, ma, spc, sa, freed, dangling, twins, unserved>>
    BY <1>13 DEF RequestSolution, DeleteAnswer, lists, data, main, solve, mem, hist
  <2> QED BY <1>00, <2>2, <2>3, <2>4 DEF TypeOK
<1> QED BY <1>1, <1>2, <1>3, <1>4, <1>5, <1>6, <1>7, <1>8, <1>9, <1>10, <1>11, <1>12, <1>13
        DEF Next, Main, Solver, Client

(* What registering an answer does to it, and what it leaves alone. *)
Registered(c, a, i) ==
  /\ a \notin Allocated /\ a \notin Live /\ a \notin InAnswers \cup InQueue
  /\ id'[a] = i /\ status'[a] = "N" /\ answers' = Append(answers, a)
  /\ \A b \in Answers : b # a => id'[b] = id[b] /\ status'[b] = status[b]
  /\ twins' = (twins \/ \E b \in Live : id[b] = i)
  /\ Allocated' = Allocated \cup {a} /\ Live' = Live \cup {a}
  /\ cpc[c] = "idle" /\ cpc'[c] = "registered"
  /\ \A d \in Clients : d # c => cpc'[d] = cpc[d] /\ ca'[d] = ca[d]
  /\ UNCHANGED <<answer_queue, mpc, ma, spc, sa, freed, dangling>>

(* What reg:answer comes to: one new answer with an id above 0 in the list. *)
LEMMA Registration ==
  ASSUME Inv, NEW c \in Clients, RegisterAnswer(c)
  PROVE  \E a \in Answers : \E i \in Nat \ {0} : Registered(c, a, i)
<1>0. TypeOK /\ Known /\ Places /\ NULL \notin Answers
  BY ConstantsAssumption DEF Inv
<1>1. PICK a \in Answers \ Allocated : \E i \in InsertedIds(answers, a) :
        /\ id' = [id EXCEPT ![a] = i] /\ status' = [status EXCEPT ![a] = "N"]
        /\ answers' = Inserted(answers, a) /\ ca' = [ca EXCEPT ![c] = a]
        /\ twins' = (twins \/ \E b \in Live : id[b] = i)
  BY DEF RegisterAnswer
<1>2. PICK i \in Nat \ {0} :
        /\ id' = [id EXCEPT ![a] = i] /\ status' = [status EXCEPT ![a] = "N"]
        /\ answers' = Inserted(answers, a) /\ ca' = [ca EXCEPT ![c] = a]
        /\ twins' = (twins \/ \E b \in Live : id[b] = i)
  BY <1>0, <1>1, NewIds
<1>3. /\ a \notin freed /\ a \notin Live /\ a \notin InAnswers \cup InQueue
  BY <1>0 DEF Known, Places, Live
<1>4. /\ id'[a] = i /\ status'[a] = "N" /\ answers' = Append(answers, a)
      /\ \A b \in Answers : b # a => id'[b] = id[b] /\ status'[b] = status[b]
  BY <1>0, <1>2 DEF TypeOK, Inserted
<1>5. /\ cpc[c] = "idle" /\ cpc'[c] = "registered"
      /\ \A d \in Clients : d # c => cpc'[d] = cpc[d] /\ ca'[d] = ca[d]
      /\ UNCHANGED <<answer_queue, mpc, ma, spc, sa, freed, dangling>>
  BY <1>0, <1>2 DEF RegisterAnswer, ClientAt, TypeOK, main, solve, mem
<1>6. Allocated' = Allocated \cup {a}
  BY <1>4 DEF Allocated
<1>7. Live' = Live \cup {a}
  BY <1>3, <1>5, <1>6 DEF Live
<1> QED BY <1>2, <1>3, <1>4, <1>5, <1>6, <1>7 DEF Registered

(* What is known of an answer changes with who works on it. *)
LEMMA KnownStep ==
  ASSUME Inv, [Next]_vars
  PROVE  Known'
<1>0. TypeOK /\ Known /\ Places /\ NULL \notin Answers
      /\ (mpc \in {"examine", "enqueue", "create", "requeue"} => ma \in Live /\ ma \in Answers)
  BY MainHolds, ConstantsAssumption DEF Inv, TypeOK
<1>1. CASE UNCHANGED <<id, status, freed, sa, spc, mpc, ma>>
  BY <1>0, <1>1 DEF Known, Allocated
<1>2. CASE MainCount \/ MainExtract \/ MainRequeue
  BY <1>0, <1>2 DEF MainCount, MainExtract, MainRequeue, Known, Allocated, data, solve, mem
<1>3. CASE MainExamine
  <2>1. /\ mpc = "examine" /\ ma \in Allocated /\ UNCHANGED <<id, freed, sa, spc, ma>>
        /\ mpc' # "create"
    BY <1>0, <1>3 DEF MainExamine, MainAt, Live, solve
  <2>2. CASE status[ma] = "N" /\ mpc' = "enqueue" /\ status' = [status EXCEPT ![ma] = "I"]
    <3>1. status'[ma] = "I" /\ \A a \in Answers : a # ma => status'[a] = status[a]
      BY <1>0, <2>1, <2>2 DEF TypeOK
    <3>2. Allocated' = Allocated
      BY <2>2, <3>1 DEF Allocated
    <3> QED BY <1>0, <2>1, <2>2, <3>1, <3>2 DEF Known
  <2>3. CASE mpc' = "requeue" /\ UNCHANGED status
    BY <1>0, <2>1, <2>3 DEF Known, Allocated
  <2> QED BY <1>3, <2>2, <2>3 DEF MainExamine, IsNew, Claim
<1>4. CASE MainEnqueue
  BY <1>0, <1>4 DEF MainEnqueue, MainAt, Known, Allocated, data, solve
<1>5. CASE MainCreate
  BY <1>0, <1>5 DEF MainCreate, MainAt, Known, Allocated, TypeOK, data
<1>6. ASSUME NEW a \in Answers, SolverStart(a) PROVE Known'
  <2>1. /\ spc[a] = "start" /\ UNCHANGED <<id, freed, sa, mpc, ma>>
        /\ status'[a] = "S" /\ \A b \in Answers : b # a => status'[b] = status[b]
        /\ spc'[a] = "extract" /\ \A b \in Answers : b # a => spc'[b] = spc[b]
    BY <1>0, <1>6 DEF SolverStart, SolverAt, TypeOK, main
  <2>2. a \in Allocated /\ (mpc \in {"enqueue", "create"} => ma # a)
    BY <1>0, <2>1 DEF Known, Allocated
  <2>3. Allocated' = Allocated
    BY <2>1, <2>2 DEF Allocated
  <2> QED BY <1>0, <2>1, <2>2, <2>3 DEF Known
<1>7. ASSUME NEW a \in Answers, SolverExtract(a) \/ SolverInsert(a) PROVE Known'
  <2>1. /\ spc[a] \in {"extract", "insert"} /\ UNCHANGED <<id, status, freed, mpc, ma>>
        /\ spc'[a] \in {"none", "insert"} /\ \A b \in Answers : b # a => spc'[b] = spc[b]
        /\ spc'[a] = "none" => sa'[a] = NULL
        /\ \A b \in Answers : b # a => sa'[b] = sa[b]
    BY <1>0, <1>7 DEF SolverExtract, SolverInsert, SolverAt, TypeOK, data, main, mem
  <2>2. mpc \in {"enqueue", "create"} => ma # a
    BY <1>0, <2>1 DEF Known
  <2> QED BY <1>0, <2>1, <2>2 DEF Known, Allocated
<1>8. ASSUME NEW c \in Clients, RegisterAnswer(c) PROVE Known'
  <2>1. PICK a \in Answers, i \in Nat \ {0} : Registered(c, a, i)
    BY <1>8, Registration
  <2>2. mpc \in {"enqueue", "create"} => ma # a
    BY <1>0, <2>1 DEF Registered, Live
  <2>3. spc[a] = "none"
    BY <1>0, <2>1 DEF Known, Registered, Allocated
  <2>4. \A b \in Allocated : b # a /\ b \in Answers
    BY <2>1 DEF Registered, Allocated
  <2> QED BY <1>0, <2>1, <2>2, <2>3, <2>4 DEF Known, Registered
<1>9. ASSUME NEW c \in Clients, FreeAnswer(c) PROVE Known'
  <2>1. ca[c] \in Live
    BY <1>9, MainHolds DEF FreeAnswer, ClientAt
  <2> QED BY <1>0, <1>9, <2>1 DEF FreeAnswer, Known, Allocated, Live, data, main, solve
<1>10. ASSUME NEW c \in Clients,
              ReplyAnswerOk(c) \/ PrintAnswer(c) \/ RequestSolution(c) \/ ReplySolution(c)
                \/ WriteSolution(c) \/ DeleteAnswer(c)
       PROVE  Known'
  BY <1>1, <1>10 DEF ReplyAnswerOk, PrintAnswer, RequestSolution, ReplySolution, WriteSolution, DeleteAnswer,
                     data, main, solve, mem
<1> QED BY <1>1, <1>2, <1>3, <1>4, <1>5, <1>6, <1>7, <1>8, <1>9, <1>10
        DEF Next, Main, MainFull, Solver, Client, vars, data, main, solve, mem

-----------------------------------------------------------------------------
(* Where the answers are is disturbed only by the steps that move one, and   *)
(* each moves one from one place to another.                                 *)
LEMMA PlacesStep ==
  ASSUME Inv, [Next]_vars
  PROVE  Places'
<1>0. /\ TypeOK /\ Known /\ Places /\ NULL \notin Answers
      /\ Listing(answers, Answers) /\ Listing(answer_queue, Answers)
      /\ (mpc \in {"examine", "enqueue", "create", "requeue"} => ma \in Live /\ ma \in Answers)
  BY MainHolds, ListsAreListings, ConstantsAssumption DEF Inv, TypeOK
<1>1. /\ UNCHANGED sa => WithSolvers' = WithSolvers
      /\ UNCHANGED <<cpc, ca>> => WithClients' = WithClients
      /\ UNCHANGED <<mpc, ma>> => WithMain' = WithMain
      /\ UNCHANGED answers => InAnswers' = InAnswers
      /\ UNCHANGED answer_queue => InQueue' = InQueue
      /\ UNCHANGED <<status, freed>> => Live' = Live
  BY DEF WithSolvers, WithClients, WithMain, InAnswers, InQueue, Live, Allocated
<1>2. CASE UNCHANGED vars
  BY <1>0, <1>1, <1>2 DEF Places, vars, lists, data, main, solve, client, mem
<1>3. CASE MainCount \/ MainExamine \/ MainCreate
  <2>1. WithMain' = WithMain
    BY <1>0, <1>3 DEF MainCount, MainExamine, MainCreate, MainAt, WithMain
  <2>2. Live' = Live
    <3>1. CASE MainExamine
      <4>1. Allocated' = Allocated
        BY <1>0, <3>1 DEF MainExamine, MainAt, Claim, Live, Allocated, TypeOK
      <4> QED BY <3>1, <4>1 DEF MainExamine, Live
    <3> QED BY <1>1, <1>3, <3>1 DEF MainCount, MainCreate, data, mem
  <2> QED BY <1>0, <1>1, <1>3, <2>1, <2>2
          DEF MainCount, MainExamine, MainCreate, Places, lists, solve, client
<1>4. CASE MainExtract
  <2>1. CASE answers = <<>>
    <3>1. WithMain' = WithMain
      BY <1>4, <2>1 DEF MainExtract, MainAt, WithMain
    <3> QED BY <1>0, <1>1, <1>4, <2>1, <3>1 DEF MainExtract, Places, data, solve, client, mem
  <2>2. CASE answers # <<>>
    <3>1. mpc = "extract" /\ mpc' = "examine" /\ ma' = Head(answers) /\ answers' = Tail(answers)
          /\ UNCHANGED <<answer_queue, status, freed, sa, cpc, ca>>
      BY <1>4, <2>2 DEF MainExtract, MainAt, data, solve, client, mem
    <3>2. /\ ma' \in InAnswers /\ Listing(answers', Answers)
          /\ InAnswers' = InAnswers \ {ma'}
      BY <1>0, <2>2, <3>1, TailListing DEF InAnswers
    <3>3. WithMain = {} /\ WithMain' = {ma'}
      BY <3>1 DEF WithMain
    <3> QED BY <1>0, <1>1, <3>1, <3>2, <3>3 DEF Places, Apart, Listing
  <2> QED BY <2>1, <2>2
<1>5. CASE MainEnqueue
  <2>1. /\ mpc = "enqueue" /\ mpc' = "create" /\ UNCHANGED <<answers, status, freed, sa, cpc, ca>>
        /\ answer_queue' = Append(answer_queue, ma)
    BY <1>0, <1>5 DEF MainEnqueue, MainAt, Inserted, data, solve, client
  <2>2. WithMain = {ma} /\ WithMain' = {} /\ ma \notin InQueue
    BY <1>0, <2>1 DEF WithMain, Places, Apart
  <2>3. Listing(answer_queue', Answers) /\ InQueue' = InQueue \cup {ma}
    BY <1>0, <2>1, <2>2, AppendListing DEF InQueue
  <2> QED BY <1>0, <1>1, <2>1, <2>2, <2>3 DEF Places, Apart, Listing
<1>6. CASE MainRequeue
  <2>1. /\ mpc = "requeue" /\ mpc' = "count"
        /\ UNCHANGED <<answer_queue, status, freed, sa, cpc, ca>>
        /\ answers' = Append(answers, ma)
    BY <1>0, <1>6 DEF MainRequeue, MainAt, Inserted, data, solve, client
  <2>2. WithMain = {ma} /\ WithMain' = {} /\ ma \notin InAnswers
    BY <1>0, <2>1 DEF WithMain, Places, Apart
  <2>3. Listing(answers', Answers) /\ InAnswers' = InAnswers \cup {ma}
    BY <1>0, <2>1, <2>2, AppendListing DEF InAnswers
  <2> QED BY <1>0, <1>1, <2>1, <2>2, <2>3 DEF Places, Apart, Listing
<1>7. ASSUME NEW a \in Answers, SolverStart(a) PROVE Places'
  <2>1. status[a] # "free"
    BY <1>0, <1>7 DEF SolverStart, SolverAt, Known
  <2>2. Allocated' = Allocated
    BY <1>0, <1>7, <2>1 DEF SolverStart, Allocated, TypeOK
  <2>3. Live' = Live
    BY <1>7, <2>2 DEF SolverStart, Live
  <2> QED BY <1>0, <1>1, <1>7, <2>3 DEF SolverStart, Places, lists, main, client
<1>8. ASSUME NEW a \in Answers, SolverExtract(a) PROVE Places'
  <2>1. sa[a] = NULL /\ UNCHANGED <<answers, status, freed, mpc, ma, cpc, ca>>
    BY <1>0, <1>8 DEF SolverExtract, SolverAt, Known, data, main, client
  <2>2. CASE UNCHANGED <<sa, answer_queue>>
    BY <1>0, <1>1, <2>1, <2>2 DEF Places
  <2>3. ASSUME NEW k \in 1 .. Len(answer_queue),
               sa' = [sa EXCEPT ![a] = answer_queue[k]],
               answer_queue' = RemoveAt(answer_queue, k)
        PROVE  Places'
    <3> DEFINE q == answer_queue[k]
    <3>1. /\ q \in Answers /\ q \in InQueue
          /\ Listing(answer_queue', Answers) /\ InQueue' = InQueue \ {q}
      BY <1>0, <2>3, RemoveListing DEF InQueue
    <3>2. sa'[a] = q /\ \A b \in Answers : b # a => sa'[b] = sa[b]
      BY <1>0, <2>3 DEF TypeOK
    <3> HIDE DEF q
    <3>3. WithSolvers' = WithSolvers \cup {q}
      BY <1>0, <2>1, <3>1, <3>2 DEF WithSolvers
    <3>4. q \notin WithSolvers
      BY <1>0, <3>1 DEF Places, Apart
    <3>5. \A b, d \in Answers : sa'[b] = sa'[d] => b = d \/ sa'[b] = NULL
      BY <1>0, <3>2, <3>4 DEF Places, WithSolvers
    <3> QED BY <1>0, <1>1, <2>1, <3>1, <3>3, <3>5 DEF Places, Apart, Listing
  <2> QED BY <1>8, <2>2, <2>3 DEF SolverExtract, Unlinked
<1>9. ASSUME NEW a \in Answers, SolverInsert(a) PROVE Places'
  <2>1. /\ UNCHANGED <<answer_queue, status, freed, mpc, ma, cpc, ca>>
        /\ sa'[a] = NULL /\ \A b \in Answers : b # a => sa'[b] = sa[b]
    BY <1>0, <1>9 DEF SolverInsert, TypeOK, data, main, client, mem
  <2>2. \A b, d \in Answers : sa'[b] = sa'[d] => b = d \/ sa'[b] = NULL
    BY <1>0, <2>1 DEF Places
  <2>3. CASE sa[a] = NULL
    <3>1. UNCHANGED answers /\ WithSolvers' = WithSolvers
      BY <1>9, <2>1, <2>3 DEF SolverInsert, Inserted, WithSolvers
    <3> QED BY <1>0, <1>1, <2>1, <2>2, <3>1 DEF Places
  <2>4. CASE sa[a] # NULL
    <3> DEFINE q == sa[a]
    <3>1. q \in Answers /\ q \in WithSolvers /\ q \notin InAnswers
      BY <1>0, <2>4 DEF TypeOK, WithSolvers, Places, Apart
    <3>2. answers' = Append(answers, q)
      BY <1>9, <2>4 DEF SolverInsert, Inserted
    <3>3. Listing(answers', Answers) /\ InAnswers' = InAnswers \cup {q}
      BY <1>0, <3>1, <3>2, AppendListing DEF InAnswers
    <3>4. WithSolvers' = WithSolvers \ {q}
      BY <1>0, <2>1, <2>4 DEF WithSolvers, Places
    <3> HIDE DEF q
    <3> QED BY <1>0, <1>1, <2>1, <2>2, <3>1, <3>3, <3>4 DEF Places, Apart, Listing
  <2> QED BY <2>3, <2>4
<1>10. ASSUME NEW c \in Clients, RegisterAnswer(c) PROVE Places'
  <2>1. PICK a \in Answers, i \in Nat \ {0} : Registered(c, a, i)
    BY <1>10, Registration
  <2>2. Listing(answers', Answers) /\ InAnswers' = InAnswers \cup {a}
    BY <1>0, <2>1, AppendListing DEF InAnswers, Registered
  <2>3. WithClients' = WithClients
    BY <2>1 DEF WithClients, Registered
  <2> QED BY <1>0, <1>1, <2>1, <2>2, <2>3 DEF Places, Apart, Listing, Registered
<1>11. ASSUME NEW c \in Clients,
              ReplyAnswerOk(c) \/ PrintAnswer(c) \/ RequestSolution(c) \/ ReplySolution(c) \/ WriteSolution(c)
       PROVE  Places'
  <2>1. \A d \in Clients : cpc[d] = "extracted" \/ cpc'[d] = "extracted" =>
          cpc[d] = cpc'[d] /\ ca'[d] = ca[d]
    BY <1>0, <1>11 DEF ReplyAnswerOk, PrintAnswer, RequestSolution, ReplySolution, WriteSolution, Done,
                       ClientAt, TypeOK
  <2>2. WithClients' = WithClients
    BY <2>1 DEF WithClients
  <2>3. UNCHANGED <<answers, answer_queue, status, freed, mpc, ma, sa>>
    BY <1>11 DEF ReplyAnswerOk, PrintAnswer, RequestSolution, ReplySolution, WriteSolution, lists, data,
                 main, solve, mem
  <2> QED BY <1>0, <1>1, <2>1, <2>2, <2>3 DEF Places
<1>12. ASSUME NEW c \in Clients, DeleteAnswer(c) PROVE Places'
  <2>1. PICK k \in 1 .. Len(answers) :
          /\ ca' = [ca EXCEPT ![c] = answers[k]] /\ answers' = RemoveAt(answers, k)
    BY <1>12 DEF DeleteAnswer, Unlinked
  <2>2. cpc[c] = "idle" /\ cpc'[c] = "extracted"
        /\ UNCHANGED <<answer_queue, status, freed, mpc, ma, sa>>
    BY <1>0, <1>12 DEF DeleteAnswer, ClientAt, TypeOK, data, main, solve, mem
  <2> DEFINE q == answers[k]
  <2>3. /\ q \in InAnswers /\ Listing(answers', Answers) /\ InAnswers' = InAnswers \ {q}
    BY <1>0, <2>1, RemoveListing DEF InAnswers
  <2>4. ca'[c] = q /\ \A d \in Clients : d # c => cpc'[d] = cpc[d] /\ ca'[d] = ca[d]
    BY <1>0, <1>12, <2>1 DEF DeleteAnswer, TypeOK
  <2> HIDE DEF q
  <2>5. WithClients' = WithClients \cup {q}
    BY <2>2, <2>4 DEF WithClients
  <2>6. q \notin WithClients
    BY <1>0, <2>3 DEF Places, Apart
  <2>7. \A d, e \in Clients :
          cpc'[d] = "extracted" /\ cpc'[e] = "extracted" /\ ca'[d] = ca'[e] => d = e
    BY <1>0, <2>4, <2>6 DEF Places, WithClients
  <2> QED BY <1>0, <1>1, <2>2, <2>3, <2>5, <2>7 DEF Places, Apart, Listing
<1>13. ASSUME NEW c \in Clients, FreeAnswer(c) PROVE Places'
  <2> DEFINE q == ca[c]
  <2>1. /\ cpc[c] = "extracted" /\ cpc'[c] = "idle" /\ freed' = freed \cup {q}
        /\ UNCHANGED <<answers, answer_queue, status, mpc, ma, sa>>
        /\ \A d \in Clients : d # c => cpc'[d] = cpc[d] /\ ca'[d] = ca[d]
    BY <1>0, <1>13 DEF FreeAnswer, ClientAt, Done, TypeOK, lists, data, main, solve
  <2>2. q \in WithClients
    BY <2>1 DEF WithClients
  <2>3. WithClients' = WithClients \ {q}
    BY <1>0, <2>1 DEF WithClients, Places
  <2>4. \A d, e \in Clients :
          cpc'[d] = "extracted" /\ cpc'[e] = "extracted" /\ ca'[d] = ca'[e] => d = e
    BY <1>0, <2>1 DEF Places
  <2> HIDE DEF q
  <2>5. Live' = Live \ {q}
    BY <2>1 DEF Live, Allocated
  <2> QED BY <1>0, <1>1, <2>1, <2>2, <2>3, <2>4, <2>5 DEF Places, Apart
<1> QED BY <1>2, <1>3, <1>4, <1>5, <1>6, <1>7, <1>8, <1>9, <1>10, <1>11, <1>12, <1>13
        DEF Next, Main, MainFull, Solver, Client

-----------------------------------------------------------------------------
(* A thread always extracts, and never the answer whose thread the main loop *)
(* has still to create: its own pair stands before that one.                 *)
LEMMA Extraction ==
  ASSUME Inv, NEW a \in Answers, SolverExtract(a)
  PROVE  \E k \in 1 .. Len(answer_queue) :
           /\ answer_queue' = RemoveAt(answer_queue, k) /\ id[answer_queue[k]] = id[a]
           /\ mpc = "create" => k < Len(answer_queue) /\ answer_queue[k] # ma
<1>0. /\ TypeOK /\ Known /\ JustQueued /\ Listing(answer_queue, Answers)
      /\ Len(answer_queue) \in Nat
  BY ListsAreListings, LenProperties DEF Inv, TypeOK
<1>1. a \in Waiting /\ id[a] # 0
  BY <1>0 DEF SolverExtract, SolverAt, Waiting, Known, Allocated
<1>2. PICK f \in [Waiting -> Answers] : Pairing(f, Waiting, Served)
  BY DEF Inv, Paired
<1>3. f[a] \in Served /\ id[f[a]] = id[a]
  BY <1>1, <1>2 DEF Pairing
<1>4. PICK j \in 1 .. Len(answer_queue) : f[a] = answer_queue[j]
  BY <1>0, <1>3, LenProperties DEF Served, InQueue, ToSet, Listing
<1>5. PICK k \in 1 .. Len(answer_queue) :
        FoundAt(answer_queue, id[a], k) /\ answer_queue' = RemoveAt(answer_queue, k)
  <2>1. ~NotFound(answer_queue, id[a])
    BY <1>3, <1>4 DEF NotFound
  <2> QED BY <2>1 DEF SolverExtract, Unlinked
<1>6. id[answer_queue[k]] = id[a] /\ k <= j
  BY <1>0, <1>1, <1>3, <1>4, <1>5 DEF FoundAt
<1>7. ASSUME mpc = "create" PROVE k < Len(answer_queue) /\ answer_queue[k] # ma
  <2>1. answer_queue[j] # ma /\ answer_queue[Len(answer_queue)] = ma
    BY <1>0, <1>3, <1>4, <1>7 DEF Served, JustQueued
  <2>2. k < Len(answer_queue)
    BY <1>0, <1>6, <2>1
  <2>3. DOMAIN answer_queue = 1 .. Len(answer_queue)
    BY <1>0, LenProperties DEF TypeOK
  <2> QED BY <1>0, <2>1, <2>2, <2>3 DEF Listing, IsInjective
<1> QED BY <1>5, <1>6, <1>7

(* The queue's end is the main loop's until it has created the thread.       *)
LEMMA JustQueuedStep ==
  ASSUME Inv, [Next]_vars
  PROVE  JustQueued'
<1>0. /\ TypeOK /\ JustQueued /\ Listing(answer_queue, Answers) /\ NULL \notin Answers
      /\ Len(answer_queue) \in Nat
  BY ListsAreListings, ConstantsAssumption, LenProperties DEF Inv, TypeOK
<1>1. CASE UNCHANGED <<answer_queue, mpc, ma>>
  BY <1>0, <1>1 DEF JustQueued
<1>2. CASE MainCount \/ MainExtract \/ MainExamine \/ MainCreate \/ MainRequeue
  BY <1>2 DEF MainCount, MainExtract, MainExamine, MainCreate, MainRequeue, MainAt, JustQueued
<1>3. CASE MainEnqueue
  <2>1. ma \in Answers /\ ma' = ma /\ answer_queue' = Append(answer_queue, ma)
    BY <1>0, <1>3 DEF MainEnqueue, MainAt, Inserted, TypeOK
  <2>2. /\ Len(Append(answer_queue, ma)) = Len(answer_queue) + 1
        /\ Append(answer_queue, ma)[Len(answer_queue) + 1] = ma
    BY <1>0, <2>1, AppendProperties DEF TypeOK
  <2>3. Append(answer_queue, ma) # <<>>
    BY <1>0, <2>2, EmptySeq
  <2> QED BY <2>1, <2>2, <2>3 DEF JustQueued
<1>4. ASSUME NEW a \in Answers, SolverExtract(a) PROVE JustQueued'
  <2>1. PICK k \in 1 .. Len(answer_queue) :
          /\ answer_queue' = RemoveAt(answer_queue, k)
          /\ mpc = "create" => k < Len(answer_queue)
    BY <1>4, Extraction
  <2>2. /\ Len(answer_queue') = Len(answer_queue) - 1
        /\ \A i \in 1 .. Len(answer_queue) - 1 :
             answer_queue'[i] = IF i < k THEN answer_queue[i] ELSE answer_queue[i + 1]
    BY SMTT(60), <1>0, <2>1, RemoveListing
  <2>3. UNCHANGED <<mpc, ma>>
    BY <1>4 DEF SolverExtract, main
  <2>4. ASSUME mpc = "create" PROVE answer_queue'[Len(answer_queue')] = ma /\ answer_queue' # <<>>
    <3>1. k < Len(answer_queue) /\ Len(answer_queue) - 1 \in 1 .. Len(answer_queue) - 1
      BY <1>0, <2>1, <2>4
    <3>2. answer_queue'[Len(answer_queue) - 1] = answer_queue[Len(answer_queue)]
      BY <1>0, <2>2, <3>1
    <3>3. answer_queue' # <<>>
      BY <1>0, <2>2, <3>1, EmptySeq
    <3> QED BY <1>0, <2>2, <2>4, <3>2, <3>3 DEF JustQueued
  <2> QED BY <2>3, <2>4 DEF JustQueued
<1>5. ASSUME NEW a \in Answers, SolverStart(a) \/ SolverInsert(a) PROVE JustQueued'
  BY <1>1, <1>5 DEF SolverStart, SolverInsert, lists, main
<1>6. ASSUME NEW c \in Clients, Client(c) PROVE JustQueued'
  BY <1>1, <1>6 DEF Client, RegisterAnswer, ReplyAnswerOk, PrintAnswer, RequestSolution, ReplySolution,
                    WriteSolution, DeleteAnswer, FreeAnswer, lists, main
<1> QED BY <1>1, <1>2, <1>3, <1>4, <1>5, <1>6 DEF Next, Main, MainFull, Solver, vars, lists, main

(* Fewer threads waiting, or more to serve them, leave the pairs as they are. *)
LEMMA PairsKept ==
  ASSUME Paired, Waiting' \subseteq Waiting, Served \subseteq Served',
         \A a \in Waiting \cup Served : id'[a] = id[a]
  PROVE  Paired'
<1>1. PICK f \in [Waiting -> Answers] : Pairing(f, Waiting, Served)
  BY DEF Paired
<1>2. PICK g \in [Waiting' -> Answers] : \A a \in Waiting' : g[a] = f[a]
  <2>1. [a \in Waiting' |-> f[a]] \in [Waiting' -> Answers]
    BY <1>1
  <2> QED BY <2>1
<1>3. \A a \in Waiting' : g[a] \in Served' /\ id'[g[a]] = id'[a]
  BY <1>1, <1>2 DEF Pairing
<1>4. \A a, b \in Waiting' : g[a] = g[b] => a = b
  BY <1>1, <1>2 DEF Pairing
<1>5. Pairing(g, Waiting, Served)'
  BY <1>3, <1>4 DEF Pairing
<1> QED BY <1>5 DEF Paired

(* When a thread takes the pair of another one of its id, that one gets the  *)
(* pair it left.                                                             *)
LEMMA PairedStep ==
  ASSUME Inv, [Next]_vars
  PROVE  Paired'
<1>0. /\ TypeOK /\ Known /\ Places /\ Paired /\ NULL \notin Answers
      /\ Listing(answer_queue, Answers)
      /\ (mpc \in {"examine", "enqueue", "create", "requeue"} => ma \in Live /\ ma \in Answers)
  BY MainHolds, ListsAreListings, ConstantsAssumption DEF Inv, TypeOK
<1>1. CASE UNCHANGED <<answer_queue, id, mpc, ma, spc>>
  <2>1. Waiting' = Waiting /\ Served' = Served
    BY <1>1 DEF Waiting, Served, InQueue
  <2> QED BY <1>0, <1>1, <2>1, PairsKept
<1>2. CASE MainCount \/ MainExtract \/ MainExamine \/ MainRequeue
  <2>1. UNCHANGED <<answer_queue, id, spc>> /\ mpc # "create" /\ mpc' # "create"
    BY <1>2 DEF MainCount, MainExtract, MainExamine, MainRequeue, MainAt, lists, data, solve
  <2>2. Waiting' = Waiting /\ Served' = Served
    BY <2>1 DEF Waiting, Served, InQueue
  <2> QED BY <1>0, <2>1, <2>2, PairsKept
<1>3. CASE MainEnqueue
  <2>1. /\ mpc = "enqueue" /\ mpc' = "create" /\ UNCHANGED <<id, spc, ma>>
        /\ answer_queue' = Append(answer_queue, ma)
    BY <1>0, <1>3 DEF MainEnqueue, MainAt, Inserted, data, solve
  <2>2. ma \notin InQueue
    BY <1>0, <2>1 DEF Places, Apart, WithMain
  <2>3. InQueue' = InQueue \cup {ma}
    BY <1>0, <2>1, <2>2, AppendListing DEF InQueue
  <2>4. Waiting' = Waiting /\ Served' = Served
    BY <2>1, <2>2, <2>3 DEF Waiting, Served
  <2> QED BY <1>0, <2>1, <2>4, PairsKept
<1>4. CASE MainCreate
  <2>1. /\ mpc = "create" /\ mpc' = "count" /\ UNCHANGED <<answer_queue, id>>
        /\ spc[ma] = "none"
        /\ UNCHANGED spc \/ spc' = [spc EXCEPT ![ma] = "start"]
    BY <1>0, <1>4 DEF MainCreate, MainAt, Known, lists, data
  <2>2. CASE UNCHANGED spc
    <3>1. Waiting' = Waiting /\ Served \subseteq Served'
      BY <2>1, <2>2 DEF Waiting, Served, InQueue
    <3> QED BY <1>0, <2>1, <3>1, PairsKept
  <2>3. CASE spc' = [spc EXCEPT ![ma] = "start"]
    <3>1. /\ mpc = "create" /\ mpc' = "count" /\ UNCHANGED <<answer_queue, id>>
          /\ spc[ma] = "none" /\ spc'[ma] = "start"
          /\ \A a \in Answers : a # ma => spc'[a] = spc[a]
      BY <1>0, <2>1, <2>3 DEF TypeOK
    <3>2. ma \in InQueue
      <4>1. answer_queue # <<>> /\ ma = answer_queue[Len(answer_queue)]
        BY <3>1 DEF Inv, JustQueued
      <4>2. Len(answer_queue) \in 1 .. Len(answer_queue)
        BY <1>0, <4>1, EmptySeq, LenProperties DEF TypeOK
      <4> QED BY <1>0, <4>1, <4>2, RemoveListing DEF InQueue
    <3>3. Waiting' = Waiting \cup {ma} /\ ma \notin Waiting
      BY <1>0, <3>1 DEF Waiting
    <3>4. Served = InQueue \ {ma} /\ Served' = InQueue
      BY <3>1 DEF Served, InQueue
    <3>5. PICK f \in [Waiting -> Answers] : Pairing(f, Waiting, Served)
      BY <1>0 DEF Paired
    <3>6. PICK g \in [Waiting' -> Answers] : g[ma] = ma /\ \A a \in Waiting : g[a] = f[a]
      <4> DEFINE h == [a \in Waiting' |-> IF a = ma THEN ma ELSE f[a]]
      <4>1. h \in [Waiting' -> Answers] /\ h[ma] = ma /\ \A a \in Waiting : h[a] = f[a]
        BY <1>0, <3>1, <3>3, <3>5
      <4> QED BY <4>1
    <3>7. \A a \in Waiting' : g[a] \in Served' /\ id'[g[a]] = id'[a]
      BY <3>1, <3>2, <3>3, <3>4, <3>5, <3>6 DEF Pairing
    <3>8. \A a, b \in Waiting' : g[a] = g[b] => a = b
      BY <3>3, <3>4, <3>5, <3>6 DEF Pairing
    <3>9. Pairing(g, Waiting, Served)'
      BY <3>7, <3>8 DEF Pairing
    <3> QED BY <3>9 DEF Paired
  <2> QED BY <2>1, <2>2, <2>3
<1>5. ASSUME NEW a \in Answers, SolverStart(a) \/ SolverInsert(a) PROVE Paired'
  <2>1. /\ UNCHANGED <<answer_queue, id, mpc, ma>>
        /\ \A b \in Answers : spc'[b] \in {"start", "extract"} => spc[b] \in {"start", "extract"}
    BY <1>0, <1>5 DEF SolverStart, SolverInsert, SolverAt, TypeOK, lists, data, main
  <2>2. Waiting' \subseteq Waiting /\ Served' = Served
    BY <2>1 DEF Waiting, Served, InQueue
  <2> QED BY <1>0, <2>1, <2>2, PairsKept
<1>6. ASSUME NEW a \in Answers, SolverExtract(a) PROVE Paired'
  <2>1. /\ spc[a] = "extract" /\ spc'[a] = "insert" /\ UNCHANGED <<id, mpc, ma>>
        /\ \A b \in Answers : b # a => spc'[b] = spc[b]
    BY <1>0, <1>6 DEF SolverExtract, SolverAt, TypeOK, data, main
  <2>2. a \in Waiting /\ Waiting' = Waiting \ {a}
    BY <2>1 DEF Waiting
  <2>3. PICK k \in 1 .. Len(answer_queue) :
          /\ answer_queue' = RemoveAt(answer_queue, k) /\ id[answer_queue[k]] = id[a]
    BY <1>6, Extraction
  <2> DEFINE q == answer_queue[k]
  <2>4. InQueue' = InQueue \ {q} /\ id[q] = id[a]
    BY <1>0, <2>3, RemoveListing DEF InQueue
  <2> HIDE DEF q
  <2>5. Served' = Served \ {q}
    BY <2>1, <2>4 DEF Served
  <2>6. PICK f \in [Waiting -> Answers] : Pairing(f, Waiting, Served)
    BY <1>0 DEF Paired
  <2>7. PICK g \in [Waiting' -> Answers] :
          \A x \in Waiting' : g[x] = IF f[x] = q THEN f[a] ELSE f[x]
    <3> DEFINE h == [x \in Waiting' |-> IF f[x] = q THEN f[a] ELSE f[x]]
    <3>1. h \in [Waiting' -> Answers]
      BY <2>2, <2>6
    <3> QED BY <3>1
  <2>8. \A x \in Waiting' : g[x] \in Served' /\ id'[g[x]] = id'[x]
    BY <2>1, <2>2, <2>4, <2>5, <2>6, <2>7 DEF Pairing
  <2>9. \A x, y \in Waiting' : g[x] = g[y] => x = y
    BY <2>2, <2>6, <2>7 DEF Pairing
  <2>10. Pairing(g, Waiting, Served)'
    BY <2>8, <2>9 DEF Pairing
  <2> QED BY <2>10 DEF Paired
<1>7. ASSUME NEW c \in Clients, RegisterAnswer(c) PROVE Paired'
  <2>1. PICK a \in Answers, i \in Nat \ {0} : Registered(c, a, i)
    BY <1>7, Registration
  <2>2. Waiting' = Waiting /\ Served' = Served
    BY <2>1 DEF Waiting, Served, InQueue, Registered
  <2>3. Waiting \subseteq Allocated /\ Waiting \subseteq Answers
    BY <1>0 DEF Waiting, Known, Allocated
  <2>4. Served \subseteq Allocated /\ Served \subseteq Answers
    BY <1>0 DEF Served, Places, Live, Allocated
  <2>5. \A b \in Waiting \cup Served : id'[b] = id[b]
    BY <2>1, <2>3, <2>4 DEF Registered
  <2> QED BY <1>0, <2>2, <2>5, PairsKept
<1>8. ASSUME NEW c \in Clients,
             ReplyAnswerOk(c) \/ PrintAnswer(c) \/ RequestSolution(c) \/ ReplySolution(c)
               \/ WriteSolution(c) \/ DeleteAnswer(c) \/ FreeAnswer(c)
      PROVE  Paired'
  BY <1>1, <1>8 DEF ReplyAnswerOk, PrintAnswer, RequestSolution, ReplySolution, WriteSolution, DeleteAnswer,
                    FreeAnswer, lists, data, main, solve
<1> QED BY <1>1, <1>2, <1>3, <1>4, <1>5, <1>6, <1>7, <1>8
        DEF Next, Main, MainFull, Solver, Client, vars, lists, data, main, solve

(* The answer whose thread is to be created is in the queue.                 *)
LEMMA CreatedIsQueued ==
  ASSUME Inv, mpc = "create"
  PROVE  ma \in InQueue
<1>1. answer_queue # <<>> /\ ma = answer_queue[Len(answer_queue)]
  BY DEF Inv, JustQueued
<1>2. Len(answer_queue) \in 1 .. Len(answer_queue)
  BY <1>1, EmptySeq, LenProperties DEF Inv, TypeOK
<1> QED BY <1>1, <1>2, ListsAreListings, RemoveListing DEF InQueue

(* As long as ids are told apart a thread extracts its own answer only.      *)
LEMMA AloneStep ==
  ASSUME Inv, [Next]_vars
  PROVE  Alone'
<1>0. /\ TypeOK /\ Known /\ Places /\ Alone /\ NULL \notin Answers
      /\ Listing(answer_queue, Answers)
      /\ (mpc \in {"examine", "enqueue", "create", "requeue"} => ma \in Live /\ ma \in Answers)
  BY MainHolds, ListsAreListings, ConstantsAssumption DEF Inv, TypeOK
<1>1. ASSUME UNCHANGED <<id, twins>>, Live' \subseteq Live, Waiting' \subseteq Waiting,
             InQueue \subseteq InQueue'
      PROVE  Alone'
  BY <1>0, <1>1 DEF Alone
<1>2. /\ UNCHANGED spc => Waiting' = Waiting
      /\ UNCHANGED answer_queue => InQueue' = InQueue
      /\ UNCHANGED <<status, freed>> => Live' = Live
  BY DEF Waiting, InQueue, Live, Allocated
<1>3. CASE UNCHANGED <<id, twins, spc, answer_queue, status, freed>>
  BY <1>1, <1>2, <1>3
<1>4. CASE MainCount \/ MainExtract \/ MainRequeue
  BY <1>3, <1>4 DEF MainCount, MainExtract, MainRequeue, lists, data, solve, mem, hist
<1>5. CASE MainExamine
  <2>1. Allocated' = Allocated
    BY <1>0, <1>5 DEF MainExamine, MainAt, Claim, Live, Allocated, TypeOK
  <2>2. Live' = Live
    BY <1>5, <2>1 DEF MainExamine, Live
  <2> QED BY <1>1, <1>2, <1>5, <2>2 DEF MainExamine, lists, solve, hist
<1>6. CASE MainEnqueue
  <2>1. ma \notin InQueue /\ answer_queue' = Append(answer_queue, ma)
    BY <1>0, <1>6 DEF MainEnqueue, MainAt, Inserted, Places, Apart, WithMain
  <2>2. InQueue \subseteq InQueue'
    BY <1>0, <1>6, <2>1, AppendListing DEF InQueue, MainEnqueue, MainAt
  <2> QED BY <1>1, <1>2, <1>6, <2>2 DEF MainEnqueue, data, solve, hist
<1>7. CASE MainCreate
  <2>1. ma \in InQueue /\ Live' = Live /\ InQueue' = InQueue /\ UNCHANGED <<id, twins>>
    BY <1>2, <1>7, CreatedIsQueued DEF MainCreate, MainAt, lists, data
  <2>2. Waiting' \subseteq Waiting \cup {ma}
    BY <1>0, <1>7 DEF MainCreate, MainAt, Waiting, TypeOK
  <2> QED BY <1>0, <2>1, <2>2 DEF Alone
<1>8. ASSUME NEW a \in Answers, SolverStart(a) PROVE Alone'
  <2>1. status[a] # "free" /\ spc[a] = "start"
    BY <1>0, <1>8 DEF SolverStart, SolverAt, Known
  <2>2. Allocated' = Allocated
    BY <1>0, <1>8, <2>1 DEF SolverStart, Allocated, TypeOK
  <2>3. Live' = Live /\ Waiting' \subseteq Waiting
    BY <1>0, <1>8, <2>1, <2>2 DEF SolverStart, Live, Waiting, TypeOK
  <2> QED BY <1>1, <1>2, <1>8, <2>3 DEF SolverStart, lists, hist
<1>9. ASSUME NEW a \in Answers, SolverExtract(a) PROVE Alone'
  <2>1. /\ spc[a] = "extract" /\ spc'[a] = "insert"
        /\ UNCHANGED <<id, twins, status, freed>>
        /\ \A b \in Answers : b # a => spc'[b] = spc[b]
    BY <1>0, <1>9 DEF SolverExtract, SolverAt, TypeOK, data, hist
  <2>2. a \in Waiting /\ Waiting' = Waiting \ {a}
    BY <2>1 DEF Waiting
  <2>3. PICK k \in 1 .. Len(answer_queue) :
          /\ answer_queue' = RemoveAt(answer_queue, k) /\ id[answer_queue[k]] = id[a]
    BY <1>9, Extraction
  <2> DEFINE q == answer_queue[k]
  <2>4. q \in InQueue /\ InQueue' = InQueue \ {q} /\ id[q] = id[a]
    BY <1>0, <2>3, RemoveListing DEF InQueue
  <2> HIDE DEF q
  <2>5. ASSUME ~twins PROVE q = a
    BY <1>0, <2>2, <2>4, <2>5 DEF Alone, Places
  <2> QED BY <1>0, <1>2, <2>1, <2>2, <2>4, <2>5 DEF Alone
<1>10. ASSUME NEW a \in Answers, SolverInsert(a) PROVE Alone'
  <2>1. Waiting' \subseteq Waiting
    BY <1>0, <1>10 DEF SolverInsert, SolverAt, Waiting, TypeOK
  <2> QED BY <1>1, <1>2, <1>10, <2>1 DEF SolverInsert, data, mem, hist
<1>11. ASSUME NEW c \in Clients, RegisterAnswer(c) PROVE Alone'
  <2>1. PICK a \in Answers, i \in Nat \ {0} : Registered(c, a, i)
    BY <1>11, Registration
  <2>2. /\ Live' = Live \cup {a} /\ id'[a] = i /\ \A b \in Live : b # a /\ id'[b] = id[b]
        /\ twins' = (twins \/ \E b \in Live : id[b] = i)
        /\ UNCHANGED <<spc, answer_queue>>
    <3>1. a \notin Live /\ Live \subseteq Answers
      BY <2>1 DEF Registered, Live, Allocated
    <3> QED BY <2>1, <3>1 DEF Registered
  <2>3. ~twins' => ~twins /\ \A b \in Live : id[b] # i
    BY <2>2
  <2>4. Waiting' = Waiting /\ InQueue' = InQueue
    BY <1>2, <2>2
  <2>5. ~twins' => \A b, d \in Live' : id'[b] = id'[d] => b = d
    BY <1>0, <2>2, <2>3 DEF Alone
  <2>6. ~twins' => Waiting \subseteq InQueue
    BY <1>0, <2>3 DEF Alone
  <2> QED BY <2>4, <2>5, <2>6 DEF Alone
<1>12. ASSUME NEW c \in Clients, FreeAnswer(c) PROVE Alone'
  <2>1. Live' \subseteq Live
    BY <1>12 DEF FreeAnswer, Live, Allocated, data
  <2> QED BY <1>1, <1>2, <1>12, <2>1 DEF FreeAnswer, lists, data, solve, hist
<1>13. ASSUME NEW c \in Clients,
              ReplyAnswerOk(c) \/ PrintAnswer(c) \/ RequestSolution(c) \/ ReplySolution(c)
                \/ WriteSolution(c) \/ DeleteAnswer(c)
       PROVE  Alone'
  BY <1>3, <1>13 DEF ReplyAnswerOk, PrintAnswer, RequestSolution, ReplySolution, WriteSolution, DeleteAnswer,
                     lists, data, solve, mem, hist
<1> QED BY <1>3, <1>4, <1>5, <1>6, <1>7, <1>8, <1>9, <1>10, <1>11, <1>12, <1>13
        DEF Next, Main, MainFull, Solver, Client, vars, lists, data, solve, mem, hist

(* Whoever is about to use an answer holds it, or it is in the queue; only   *)
(* a thread may not, and clients.                                            *)
LEMMA StrayStep ==
  ASSUME Inv, [Next]_vars
  PROVE  StrayUseNeedsTwins'
<1>0. /\ TypeOK /\ Places /\ Alone /\ StrayUseNeedsTwins
      /\ (mpc \in {"examine", "enqueue", "create", "requeue"} => ma \notin freed)
  BY MainHolds DEF Inv, Live
<1>1. CASE UNCHANGED <<dangling, twins>>
  BY <1>0, <1>1 DEF StrayUseNeedsTwins
<1>2. CASE Main
  <2>1. UNCHANGED <<dangling, twins>>
    BY <1>0, <1>2 DEF Main, MainCount, MainFull, MainExtract, MainExamine, MainEnqueue, MainCreate,
                      MainRequeue, MainAt, Uses, mem, vars, hist
  <2> QED BY <1>1, <2>1
<1>3. ASSUME NEW a \in Answers, SolverStart(a) \/ SolverExtract(a) PROVE StrayUseNeedsTwins'
  <2>1. a \in Waiting /\ dangling = "nobody" /\ UNCHANGED twins
        /\ dangling' = IF a \in freed THEN "solver" ELSE dangling
    BY <1>3 DEF SolverStart, SolverExtract, SolverAt, Waiting, Uses, hist
  <2>2. a \in freed => twins
    BY <1>0, <2>1 DEF Alone, Places, Live
  <2> QED BY <2>1, <2>2 DEF StrayUseNeedsTwins
<1>4. ASSUME NEW c \in Clients, Client(c) PROVE StrayUseNeedsTwins'
  <2>1. dangling' \in {"nobody", "client"}
    BY <1>4 DEF Client, RegisterAnswer, ReplyAnswerOk, PrintAnswer, RequestSolution, ReplySolution,
                WriteSolution, DeleteAnswer, FreeAnswer, ClientAt, Uses, mem
  <2> QED BY <2>1 DEF StrayUseNeedsTwins
<1> QED BY <1>1, <1>2, <1>3, <1>4 DEF Next, Solver, SolverInsert, mem, vars, hist

-----------------------------------------------------------------------------
(* The inductive invariant holds of every state the daemon reaches.          *)
THEOREM Invariance == Spec => []Inv
<1>1. Inv /\ [Next]_vars => Inv'
  BY TypeStep, KnownStep, PlacesStep, JustQueuedStep, PairedStep, AloneStep, StrayStep DEF Inv
<1> QED BY InitInv, <1>1, PTL DEF Spec

(* Every variable keeps its type. *)
THEOREM TypeCorrect == Spec => []TypeOK
<1>1. Inv => TypeOK
  BY DEF Inv
<1> QED BY <1>1, Invariance, PTL

(* Each registered answer is in one place: a list, the hands of the one      *)
(* thread that took it out, or the heap.                                     *)
THEOREM NothingLost == Spec => []Conserved
<1>1. Inv => Conserved
  BY DEF Inv, Places, Apart, InAnswers, InQueue, Conserved
<1> QED BY <1>1, Invariance, PTL

(* What _extract_queue returns to an answer's thread is never NULL, whatever *)
(* ids malloc left in the answers (aiqbd.c, 190).                            *)
THEOREM SolversFind == Spec => []SolverFinds
<1>1. Inv => SolverFinds
  <2> SUFFICES ASSUME Inv, NEW a \in Answers, spc[a] = "extract"
               PROVE  \E b \in ToSet(answer_queue) : id[b] = id[a]
    BY DEF SolverFinds
  <2>1. PICK f \in [Waiting -> Answers] : Pairing(f, Waiting, Served)
    BY DEF Inv, Paired
  <2>2. f[a] \in InQueue /\ id[f[a]] = id[a]
    BY <2>1 DEF Pairing, Waiting, Served
  <2> QED BY <2>2 DEF InQueue
<1> QED BY <1>1, Invariance, PTL

(* The main loop never uses a freed answer, and an answer's own thread only  *)
(* after two answers alive at once were given one id.                        *)
THEOREM UsesAreAllocated == Spec => []StrayUseNeedsTwins
<1>1. Inv => StrayUseNeedsTwins
  BY DEF Inv
<1> QED BY <1>1, Invariance, PTL
=============================================================================

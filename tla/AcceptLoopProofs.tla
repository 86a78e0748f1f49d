--------------------------- MODULE AcceptLoopProofs ---------------------------
(***************************************************************************)
(* For any number of connections and descriptors: the types of AcceptLoop, *)
(* that each thread serves the connection it was created for, and that no  *)
(* descriptor is lost, as long as no thread has been overtaken.            *)
(***************************************************************************)
EXTENDS AcceptLoop, TLAPS

\* A thread has a descriptor from its creation on; until it has read its
\* argument, that is what it would read.
Has(t) == tpc[t] \in {"start", "parse", "close"}
Its(t) == IF tpc[t] = "start" THEN new_socket_fd ELSE tfd[t]

\* ServedByOne is not inductive: that a thread's descriptor leads to its own
\* connection has to hold before it has read it, and what the loop has just
\* accepted must be no thread's.
Ownership ==
  ~overlapped =>
    /\ \A t \in Threads : tpc[t] # "lost"
    /\ \A t \in Threads : Has(t) => Its(t) \in Fds /\ files[Its(t)] = t
    /\ apc \in {"store", "create"} =>
         /\ files[fd] = accepted
         /\ \A t \in Threads : Has(t) => Its(t) # fd
    /\ apc = "create" => \A t \in Threads : tpc[t] # "start"

\* A connection is handed over once: until then it has no thread.
HandedOnce ==
  /\ \A i, j \in DOMAIN backlog : backlog[i] = backlog[j] => i = j
  /\ \A i \in DOMAIN backlog :
       /\ peer[backlog[i]] # "away" /\ backlog[i] # accepted
       /\ tpc[backlog[i]] = "none"
  /\ accepted # NULL => peer[accepted] # "away" /\ tpc[accepted] = "none"
  /\ \A c \in Conns : peer[c] = "away" => tpc[c] = "none"

Inv ==
  /\ TypeOK
  /\ HandedOnce
  /\ \A t \in Threads : tpc[t] = "start" => new_socket_fd # NULL
  /\ Ownership

-----------------------------------------------------------------------------
(* A descriptor that is not there is none of the descriptors. *)
LEMMA NullIsNoDescriptor == NULL \notin Fds /\ NULL \notin Conns
BY ConstantsAssumption DEF Fds

(* Before the first accept no descriptor is in use and no thread exists. *)
LEMMA InitInv == Init => Inv
<1> SUFFICES ASSUME Init PROVE Inv
  OBVIOUS
<1>1. backlog \in Seq(Conns) /\ Len(backlog) <= Backlog
  BY ConstantsAssumption DEF Init
<1>2. TypeOK
  BY <1>1, NullIsNoDescriptor DEF Init, TypeOK, Threads
<1> QED BY <1>2, NullIsNoDescriptor DEF Init, Inv, Ownership, HandedOnce, Has, Threads

(* The steps of clients. *)
LEMMA ClientStep ==
  ASSUME Inv, NEW c \in Conns, Connect(c) \/ HangUp(c)
  PROVE  Inv'
<1> USE NullIsNoDescriptor
<1>1. CASE Connect(c)
  <2>1. backlog' \in Seq(Conns) /\ Len(backlog') <= Backlog
    BY <1>1, ConstantsAssumption DEF Connect, Inv, TypeOK
  <2>2. TypeOK' /\ Ownership'
    BY <1>1, <2>1
       DEF Connect, Inv, TypeOK, Ownership, Has, Its, loop, thread, hist
  <2>3. HandedOnce'
    <3>1. /\ backlog \in Seq(Conns) /\ Len(backlog) \in Nat
          /\ backlog' = Append(backlog, c) /\ c # accepted /\ tpc[c] = "none"
      BY <1>1 DEF Connect, Inv, TypeOK, HandedOnce
    <3>2. \A i \in DOMAIN backlog : backlog[i] # c
      BY <1>1 DEF Connect, Inv, HandedOnce
    <3>3. \A i \in DOMAIN backlog' :
            \/ i \in DOMAIN backlog /\ backlog'[i] = backlog[i]
            \/ i = Len(backlog) + 1 /\ backlog'[i] = c
      BY <3>1
    <3>4. peer' = [peer EXCEPT ![c] = "here"] /\ UNCHANGED <<tpc, accepted>>
      BY <1>1 DEF Connect, thread, hist
    <3> QED BY <3>1, <3>2, <3>3, <3>4 DEF Inv, TypeOK, HandedOnce
  <2> QED BY <1>1, <2>2, <2>3 DEF Connect, Inv, loop, thread
<1>2. CASE HangUp(c)
  BY <1>2 DEF HangUp, Inv, TypeOK, HandedOnce, Ownership, Has, Its, loop, thread, hist
<1> QED BY <1>1, <1>2

(* What stays true of a backlog when its first connection leaves. *)
LEMMA TailOfBacklog ==
  ASSUME Inv, backlog # <<>>
  PROVE  /\ Head(backlog) \in Conns /\ Head(backlog) = backlog[1] /\ 1 \in DOMAIN backlog
         /\ Tail(backlog) \in Seq(Conns) /\ Len(Tail(backlog)) <= Backlog
         /\ \A i \in DOMAIN Tail(backlog) :
              i + 1 \in DOMAIN backlog /\ i + 1 # 1 /\ i \in Nat
              /\ Tail(backlog)[i] = backlog[i + 1]
BY ConstantsAssumption DEF Inv, TypeOK

(* The steps of the loop. *)
LEMMA LoopStep ==
  ASSUME Inv, Loop
  PROVE  Inv'
<1> USE NullIsNoDescriptor
<1>1. ASSUME Accept PROVE Inv'
  <2>1. PICK f \in Free : fd' = f /\ files' = [files EXCEPT ![f] = Head(backlog)]
    BY <1>1 DEF Accept
  <2>2. f \in Fds /\ files[f] = NULL
    BY DEF Free
  <2>3. backlog # <<>> /\ backlog' = Tail(backlog) /\ accepted' = Head(backlog)
        /\ UNCHANGED <<peer, tpc>>
    BY <1>1 DEF Accept, Acceptable, thread
  <2>4. TypeOK'
    BY <1>1, <2>1, <2>2, <2>3, TailOfBacklog DEF Accept, Inv, TypeOK, thread
  <2>5. Ownership'
    BY <1>1, <2>1, <2>2 DEF Accept, Inv, TypeOK, Ownership, Has, Its, thread, Threads
  <2>6. HandedOnce'
    BY <2>3, TailOfBacklog DEF Inv, HandedOnce
  <2> QED BY <1>1, <2>4, <2>5, <2>6 DEF Accept, Inv, thread
<1>2. ASSUME AcceptFails PROVE Inv'
  <2>1. backlog' = backlog \/ (backlog # <<>> /\ backlog' = Tail(backlog))
    <3>1. backlog' = IF backlog # <<>> /\ Free # {} THEN Tail(backlog) ELSE backlog
      BY <1>2 DEF AcceptFails, Acceptable
    <3> QED BY <3>1
  <2>2. backlog' \in Seq(Conns) /\ Len(backlog') <= Backlog
    BY <2>1, TailOfBacklog DEF Inv, TypeOK
  <2>3. TypeOK' /\ Ownership'
    BY <1>2, <2>2
       DEF AcceptFails, AfterFailure, Inv, TypeOK, Ownership, Has, Its, thread, hist
  <2>4. HandedOnce'
    BY <1>2, <2>1, TailOfBacklog DEF AcceptFails, Inv, HandedOnce, thread, hist
  <2> QED BY <1>2, <2>3, <2>4 DEF AcceptFails, Inv, thread
<1>3. ASSUME Store PROVE Inv'
  BY <1>3 DEF Store, Inv, TypeOK, HandedOnce, Ownership, Has, Its, thread
<1>4. ASSUME Create PROVE Inv'
  <2>1. TypeOK'
    BY <1>4 DEF Create, Inv, TypeOK, HandedOnce, Threads
  <2>2. Ownership' /\ HandedOnce'
    BY <1>4 DEF Create, Inv, TypeOK, HandedOnce, Ownership, Has, Its, Threads
  <2> QED BY <1>4, <2>1, <2>2 DEF Create, Inv, TypeOK, Threads
<1> QED BY <1>1, <1>2, <1>3, <1>4 DEF Loop

(* The steps of client threads. *)
LEMMA ThreadStep ==
  ASSUME Inv, NEW t \in Threads, Own(t) \/ EndOfParser(t) \/ ReplyToNobody(t)
  PROVE  Inv'
<1> USE NullIsNoDescriptor DEF At, Goto, Inv, TypeOK, HandedOnce, Ownership, Has, Its
<1>1. CASE ReadArgument(t)
  BY <1>1 DEF ReadArgument, loop, hist
<1>2. CASE EndOfInput(t) \/ EndOfParser(t)
  <2>1. /\ tpc[t] = "parse" /\ tpc' = [tpc EXCEPT ![t] = "close"]
        /\ UNCHANGED <<down, peer, backlog, files, loop, tfd, hist>>
    BY <1>2 DEF EndOfInput, EndOfParser
  <2> QED BY <2>1 DEF loop, hist
<1>3. CASE ReplyToNobody(t)
  BY <1>3 DEF ReplyToNobody, loop, thread, hist
<1>4. CASE ReadClosed(t)
  BY <1>4 DEF ReadClosed, Behind, loop, hist, Threads
<1>5. CASE Close(t)
  BY <1>5 DEF Close, Freed, ClosedBy, Ended, loop, hist
<1> QED BY <1>1, <1>2, <1>3, <1>4, <1>5 DEF Own

(* The loop, its threads and the clients keep descriptors with their owners. *)
THEOREM Invariance == Spec => []Inv
<1>1. Inv /\ UNCHANGED vars => Inv'
  BY DEF vars, loop, thread, hist, Inv, TypeOK, HandedOnce, Ownership, Has, Its
<1>2. Inv /\ [Next]_vars => Inv'
  BY <1>1, ClientStep, LoopStep, ThreadStep DEF Next
<1> QED BY InitInv, <1>2, PTL DEF Spec

(* Every variable keeps its type: the loop's descriptor is set when it is    *)
(* stored, and a thread has one exactly while it parses or closes.           *)
THEOREM TypeCorrect == Spec => []TypeOK
<1>1. Inv => TypeOK
  BY DEF Inv
<1> QED BY Invariance, <1>1, PTL

-----------------------------------------------------------------------------
\* As long as nobody has been overtaken, every open descriptor is held.
AllHeld == ~overlapped => NoDescriptorLost

(* AllHeld is inductive beside Inv: the steps that open, hand over, read and *)
(* close a descriptor keep it, the others leave all of them where they are.  *)
LEMMA AllHeldStep ==
  ASSUME Inv, AllHeld, [Next]_vars
  PROVE  AllHeld'
<1> SUFFICES ASSUME ~overlapped', NEW f \in Fds, files'[f] \notin unthreaded' \cup {NULL}
             PROVE  \/ apc' \in {"store", "create"} /\ f = fd'
                    \/ tpc'[files'[f]] = "start" /\ new_socket_fd' = f
                    \/ tpc'[files'[f]] \in {"parse", "close"} /\ tfd'[files'[f]] = f
  BY DEF AllHeld, NoDescriptorLost
<1> DEFINE InHand == \/ apc \in {"store", "create"} /\ f = fd
                     \/ tpc[files[f]] = "start" /\ new_socket_fd = f
                     \/ tpc[files[f]] \in {"parse", "close"} /\ tfd[files[f]] = f
<1>1. ~overlapped => files[f] \in unthreaded \cup {NULL} \/ InHand
  BY DEF AllHeld, NoDescriptorLost
<1>2. /\ files \in [Fds -> Conns \cup {NULL}] /\ tfd \in [Conns -> Fds \cup {NULL}]
      /\ tpc \in [Conns -> {"none", "start", "parse", "close", "ended", "lost"}]
  BY DEF Inv, TypeOK, Threads
<1>3. CASE Accept
  <2>1. PICK g \in Fds : fd' = g /\ files' = [files EXCEPT ![g] = Head(backlog)]
    BY <1>3 DEF Accept, Free
  <2>2. /\ apc = "accept" /\ apc' = "store"
        /\ UNCHANGED <<new_socket_fd, tpc, tfd, unthreaded, overlapped>>
    BY <1>3 DEF Accept, thread
  <2>3. f = g \/ files'[f] = files[f]
    BY <1>2, <2>1
  <2> QED BY <1>1, <2>1, <2>2, <2>3
<1>4. CASE Store
  <2>1. /\ apc = "store" /\ apc' = "create" /\ new_socket_fd' = fd
        /\ ~overlapped /\ \A t \in Threads : tpc[t] # "start"
        /\ UNCHANGED <<files, fd, tpc, tfd, unthreaded>>
    BY <1>4 DEF Store, thread
  <2>2. files[f] \in Threads
    BY <1>2, <2>1 DEF Threads
  <2> QED BY <1>1, <2>1, <2>2
<1>5. CASE Create
  <2>1. /\ apc = "create" /\ accepted \in Conns /\ new_socket_fd = fd
        /\ UNCHANGED <<files, new_socket_fd, tfd, overlapped>>
    BY <1>5 DEF Create, Inv, TypeOK
  <2>2. files[fd] = accepted /\ tpc[accepted] = "none"
    BY <2>1, NullIsNoDescriptor DEF Inv, Ownership, HandedOnce
  <2>3. CASE tpc' = [tpc EXCEPT ![accepted] = "start"] /\ UNCHANGED unthreaded
    BY <1>1, <1>2, <2>1, <2>2, <2>3
  <2>4. CASE unthreaded' = unthreaded \cup {accepted} /\ UNCHANGED tpc
    BY <1>1, <1>2, <2>1, <2>2, <2>4
  <2> QED BY <1>5, <2>3, <2>4 DEF Create
<1>6. ASSUME NEW t \in Threads, ReadArgument(t) PROVE InHand'
  <2>1. /\ tpc[t] = "start" /\ tpc' = [tpc EXCEPT ![t] = "parse"]
        /\ tfd' = [tfd EXCEPT ![t] = new_socket_fd] /\ t \in Conns
        /\ UNCHANGED <<files, apc, fd, new_socket_fd, unthreaded, overlapped>>
    BY <1>6 DEF ReadArgument, At, Goto, loop, hist, Threads
  <2>2. files[f] = t \/ (tpc'[files[f]] = tpc[files[f]] /\ tfd'[files[f]] = tfd[files[f]])
    BY <1>2, <2>1
  <2> QED BY <1>1, <1>2, <2>1, <2>2
<1>7. ASSUME NEW t \in Threads, EndOfInput(t) \/ EndOfParser(t) PROVE InHand'
  <2>1. /\ tpc[t] = "parse" /\ tpc' = [tpc EXCEPT ![t] = "close"] /\ t \in Conns
        /\ UNCHANGED <<files, tfd, apc, fd, new_socket_fd, unthreaded, overlapped>>
    BY <1>7 DEF EndOfInput, EndOfParser, At, Goto, loop, hist, Threads
  <2>2. files[f] = t \/ tpc'[files[f]] = tpc[files[f]]
    BY <1>2, <2>1
  <2> QED BY <1>1, <1>2, <2>1, <2>2
<1>8. ASSUME NEW t \in Threads, ReadClosed(t) PROVE FALSE
  BY <1>8, NullIsNoDescriptor
     DEF ReadClosed, At, Behind, loop, hist, Inv, Ownership, Has, Its, Threads
<1>9. ASSUME NEW t \in Threads, Close(t) PROVE InHand'
  <2>1. /\ tpc[t] = "close" /\ tpc' = [tpc EXCEPT ![t] = "ended"] /\ t \in Conns
        /\ tfd' = [tfd EXCEPT ![t] = NULL] /\ files' = [files EXCEPT ![tfd[t]] = NULL]
        /\ UNCHANGED <<apc, fd, new_socket_fd, unthreaded, overlapped>>
    BY <1>9 DEF Close, Freed, ClosedBy, Ended, At, Goto, loop, hist, Threads
  <2>2. f # tfd[t] /\ files'[f] = files[f]
    BY <1>2, <2>1
  <2>3. files[f] = t \/ (tpc'[files[f]] = tpc[files[f]] /\ tfd'[files[f]] = tfd[files[f]])
    BY <1>2, <2>1
  <2> QED BY <1>1, <1>2, <2>1, <2>2, <2>3
<1>10. CASE UNCHANGED <<files, apc, fd, new_socket_fd, tpc, tfd, unthreaded, overlapped>>
  BY <1>1, <1>10
<1>11. CASE AcceptFails
  BY <1>1, <1>11 DEF AcceptFails, AfterFailure, thread, hist
<1>12. CASE \/ \E c \in Conns : Connect(c) \/ HangUp(c)
            \/ \E t \in Threads : ReplyToNobody(t)
            \/ UNCHANGED vars
  BY <1>10, <1>12 DEF Connect, HangUp, ReplyToNobody, vars, loop, thread, hist
<1> QED BY <1>3, <1>4, <1>5, <1>6, <1>7, <1>8, <1>9, <1>11, <1>12 DEF Next, Loop, Own

(* As long as no thread has been overtaken, every open descriptor is the     *)
(* loop's, or that of the thread of the client behind it, or of a client     *)
(* that got no thread: no order of accepting, creating, reading and closing  *)
(* loses one.                                                                *)
THEOREM DescriptorsHeld == Spec => [](~overlapped => NoDescriptorLost)
<1>1. Init => AllHeld
  BY DEF Init, AllHeld, NoDescriptorLost
<1>2. Inv /\ AllHeld /\ [Next]_vars => AllHeld'
  BY AllHeldStep
<1>3. AllHeld => (~overlapped => NoDescriptorLost)
  BY DEF AllHeld
<1> QED BY Invariance, <1>1, <1>2, <1>3, PTL DEF Spec

(* As long as no thread has been overtaken between its creation and its      *)
(* first statement, each serves the connection it was created for, although  *)
(* all read one variable (aiqbd.c, 97 and 153) and descriptors are reused,   *)
(* and no descriptor is lost.                                                *)
THEOREM EachServesItsOwn == Spec => []ServedByOne
<1>1. Inv /\ (~overlapped => NoDescriptorLost) => ServedByOne
  BY DEF Inv, Ownership, ServedByOne, ServesItsOwn, Has, Its, Behind
<1> QED BY Invariance, DescriptorsHeld, <1>1, PTL
=============================================================================

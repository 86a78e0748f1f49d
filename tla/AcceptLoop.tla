------------------------------ MODULE AcceptLoop ------------------------------
(***************************************************************************)
(* The accept loop of aiqbd.c and the life of client threads and           *)
(* descriptors: the loop accepts a connection, stores its descriptor in a  *)
(* local variable and gives each new thread a pointer to that variable;    *)
(* the thread reads it, runs the parser on the connection and closes it.   *)
(* What the parser makes of a connection is MessageParser's subject; here  *)
(* it runs until the client hangs up or asks for the end.                  *)
(*                                                                         *)
(* The definitions just before AfterFailure, ClosedBy, Freed and Ended,    *)
(* with the same parameters, are wrong forms of them: the properties are   *)
(* shown to fail when one takes its place.                                 *)
(***************************************************************************)
EXTENDS Naturals, Sequences, FiniteSets

CONSTANTS
  Conns,        \* connections clients make, each once
  MaxFd,        \* the limit of open files leaves room for 1 .. MaxFd
  Backlog,      \* AIQBD_SOCKET_MAX_BACKLOG
  Faults,       \* {"create"}: pthread_create may fail
  NULL

ASSUME ConstantsAssumption ==
  /\ IsFiniteSet(Conns) /\ NULL \notin Conns /\ NULL \notin Nat
  /\ MaxFd \in Nat \ {0} /\ Backlog \in Nat \ {0}
  /\ Faults \subseteq {"create"}

Fds == 1 .. MaxFd
Threads == Conns        \* each by the connection it is created for

VARIABLES
  down,           \* a signal has ended the process
  peer,           \* what the client of each connection has done
  backlog,        \* connections waiting for accept
  files,          \* the connection behind each descriptor
  apc,            \* the statement the accept loop is at
  client_len,     \* never set before accept reads it: usable, or negative
  fd,             \* what accept has returned; NULL stands for -1
  new_socket_fd,  \* the variable the threads get a pointer to
  tpc,            \* the statement each thread is at
  tfd,            \* its copy of new_socket_fd
  accepted,       \* the connection the loop is handing over: it names the thread
  \* history, read by the properties only
  unthreaded,     \* connections for which no thread could be created
  overlapped      \* new_socket_fd was set before a thread had read it

loop   == <<apc, client_len, fd, new_socket_fd>>
thread == <<tpc, tfd>>
hist   == <<accepted, unthreaded, overlapped>>
vars   == <<down, peer, backlog, files, loop, thread, hist>>

Init ==
  /\ down = FALSE
  /\ peer = [c \in Conns |-> "away"] /\ backlog = <<>>
  /\ files = [f \in Fds |-> NULL]
  /\ apc = "accept" /\ client_len \in {"usable", "negative"}
  /\ fd = NULL /\ new_socket_fd = NULL
  /\ tpc = [t \in Threads |-> "none"] /\ tfd = [t \in Threads |-> NULL]
  /\ accepted = NULL /\ unthreaded = {} /\ overlapped = FALSE

-----------------------------------------------------------------------------
(* Clients *)

Connect(c) ==
  /\ ~down /\ peer[c] = "away" /\ Len(backlog) < Backlog
  /\ peer' = [peer EXCEPT ![c] = "here"] /\ backlog' = Append(backlog, c)
  /\ UNCHANGED <<down, files, loop, thread, hist>>

HangUp(c) ==
  /\ ~down /\ peer[c] = "here"
  /\ peer' = [peer EXCEPT ![c] = "gone"]
  /\ UNCHANGED <<down, backlog, files, loop, thread, hist>>

-----------------------------------------------------------------------------
(* _aiqbd_handling_socket *)

Free == {f \in Fds : files[f] = NULL}
Acceptable == backlog # <<>> /\ Free # {}

(* accept takes the first connection and the lowest free descriptor. *)
Accept ==
  /\ ~down /\ apc = "accept" /\ Acceptable /\ client_len = "usable"
  /\ \E f \in Free :
       /\ \A g \in Free : f <= g
       /\ fd' = f /\ files' = [files EXCEPT ![f] = Head(backlog)]
  /\ backlog' = Tail(backlog) /\ apc' = "store"
  /\ accepted' = Head(backlog)
  /\ UNCHANGED <<down, peer, client_len, new_socket_fd, thread, unthreaded, overlapped>>

AfterFailureStops == "over"
AfterFailure == "accept"
(* accept fails: nobody waits, or no descriptor is free (the connection goes *)
(* on waiting), or the length is negative (the connection is dropped).       *)
AcceptFails ==
  /\ ~down /\ apc = "accept" /\ (~Acceptable \/ client_len = "negative")
  /\ fd' = NULL /\ apc' = AfterFailure
  /\ backlog' = IF Acceptable THEN Tail(backlog) ELSE backlog
  /\ UNCHANGED <<down, peer, files, client_len, new_socket_fd, thread, hist>>

Store ==        \* new_socket_fd = fd
  /\ ~down /\ apc = "store"
  /\ new_socket_fd' = fd /\ apc' = "create"
  /\ overlapped' = (overlapped \/ \E t \in Threads : tpc[t] = "start")
  /\ UNCHANGED <<down, peer, backlog, files, client_len, fd, thread, accepted, unthreaded>>

(* pthread_create; whether it has failed is not looked at. *)
Create ==
  /\ ~down /\ apc = "create" /\ apc' = "accept"
  /\ \/ tpc' = [tpc EXCEPT ![accepted] = "start"] /\ UNCHANGED unthreaded
     \/ "create" \in Faults /\ unthreaded' = unthreaded \cup {accepted} /\ UNCHANGED tpc
  /\ accepted' = NULL
  /\ UNCHANGED <<down, peer, backlog, files, client_len, fd, new_socket_fd, tfd, overlapped>>

Loop == Accept \/ AcceptFails \/ Store \/ Create

-----------------------------------------------------------------------------
(* _aiqbd_handling_socket_client *)

At(t, s) == ~down /\ tpc[t] = s
Goto(t, s) == tpc' = [tpc EXCEPT ![t] = s]
Behind(t) == files[tfd[t]]      \* what its descriptor leads to now

ReadArgument(t) ==      \* new_socket_fd = *((int *) arg)
  /\ At(t, "start") /\ Goto(t, "parse")
  /\ tfd' = [tfd EXCEPT ![t] = new_socket_fd]
  /\ UNCHANGED <<down, peer, backlog, files, loop, hist>>

(* read returns 0: the client has hung up. *)
EndOfInput(t) ==
  /\ At(t, "parse") /\ Behind(t) # NULL /\ peer[Behind(t)] = "gone" /\ Goto(t, "close")
  /\ UNCHANGED <<down, peer, backlog, files, loop, tfd, hist>>

(* req:close, or an error after which _parser returns. *)
EndOfParser(t) ==
  /\ At(t, "parse") /\ Behind(t) # NULL /\ Goto(t, "close")
  /\ UNCHANGED <<down, peer, backlog, files, loop, tfd, hist>>

(* A reply to a client that has hung up raises SIGPIPE, which _signals is    *)
(* not installed for: the process ends.                                      *)
ReplyToNobody(t) ==
  /\ At(t, "parse") /\ Behind(t) # NULL /\ peer[Behind(t)] = "gone"
  /\ down' = TRUE
  /\ UNCHANGED <<peer, backlog, files, loop, thread, hist>>

(* The descriptor was closed by another thread: read returns -1 for ever,    *)
(* which the parser takes for a character.                                   *)
ReadClosed(t) ==
  /\ At(t, "parse") /\ Behind(t) = NULL /\ Goto(t, "lost")
  /\ UNCHANGED <<down, peer, backlog, files, loop, tfd, hist>>

ClosedByArgument(t) == new_socket_fd
ClosedBy(t) == tfd[t]
FreedNot(f) == files
Freed(f) == [files EXCEPT ![f] = NULL]
EndedKeepsDescriptor(t) == tfd
Ended(t) == [tfd EXCEPT ![t] = NULL]
Close(t) ==             \* close, pthread_exit
  /\ At(t, "close") /\ Goto(t, "ended")
  /\ files' = Freed(ClosedBy(t)) /\ tfd' = Ended(t)
  /\ UNCHANGED <<down, peer, backlog, loop, hist>>

Own(t) == ReadArgument(t) \/ EndOfInput(t) \/ ReadClosed(t) \/ Close(t)

Next ==
  \/ \E c \in Conns : Connect(c) \/ HangUp(c)
  \/ Loop
  \/ \E t \in Threads : Own(t) \/ EndOfParser(t) \/ ReplyToNobody(t)

(* Fairness: the loop and the threads run; clients owe nothing. *)
Spec == Init /\ [][Next]_vars /\ WF_vars(Loop) /\ \A t \in Threads : WF_vars(Own(t))

-----------------------------------------------------------------------------
(* Type invariant; who is at which statement has which descriptor. *)
TypeOK ==
  /\ down \in BOOLEAN
  /\ peer \in [Conns -> {"away", "here", "gone"}]
  /\ backlog \in Seq(Conns) /\ Len(backlog) <= Backlog
  /\ files \in [Fds -> Conns \cup {NULL}]
  /\ apc \in {"accept", "store", "create"} /\ client_len \in {"usable", "negative"}
  /\ fd \in Fds \cup {NULL} /\ new_socket_fd \in Fds \cup {NULL}
  /\ apc \in {"store", "create"} => fd # NULL
  /\ apc = "create" => new_socket_fd = fd
  /\ tpc \in [Threads -> {"none", "start", "parse", "close", "ended", "lost"}]
  /\ tfd \in [Threads -> Fds \cup {NULL}]
  /\ \A t \in Threads : tfd[t] # NULL <=> tpc[t] \in {"parse", "close", "lost"}
  /\ accepted \in Conns \cup {NULL} /\ (accepted # NULL <=> apc \in {"store", "create"})
  /\ unthreaded \subseteq Conns /\ overlapped \in BOOLEAN

(* A client is served by the thread created for it and by no other, and its  *)
(* descriptor stays open under it; descriptors are used again meanwhile.     *)
ServesItsOwn ==
  \A t \in Threads :
    /\ tpc[t] # "lost"
    /\ tpc[t] \in {"parse", "close"} => Behind(t) = t

(* No descriptor is lost: one that is open is in the loop's hands, or those  *)
(* of the thread created for the client behind it, which will close it       *)
(* (aiqbd.c, 97 to 102), unless none could be created.                       *)
NoDescriptorLost ==
  \A f \in Fds : files[f] \notin unthreaded \cup {NULL} =>
    \/ apc \in {"store", "create"} /\ f = fd
    \/ LET t == files[f] IN
         \/ tpc[t] = "start" /\ new_socket_fd = f
         \/ tpc[t] \in {"parse", "close"} /\ tfd[t] = f

(* Threads and open descriptors belong together one to one, as long as no    *)
(* thread was overtaken by the next connection between its creation and its  *)
(* first statement (aiqbd.c, 97 and 153).                                    *)
ServedByOne == ~overlapped => ServesItsOwn /\ NoDescriptorLost

(* What may keep a client from being served, or its descriptor open: the     *)
(* end of the process, an overtaken thread, a failed pthread_create.         *)
Excused(c) == down \/ overlapped \/ c \in unthreaded

(* A waiting client is served in the end if descriptors keep coming free,    *)
(* also after accept has failed many times (aiqbd.c, 152), unless accept     *)
(* was given a negative length.                                              *)
EveryoneServed ==
  client_len = "usable" /\ []<>(Free # {}) =>
    \A c \in Conns :
      (\E i \in DOMAIN backlog : backlog[i] = c)
        ~> (Excused(c) \/ \E t \in Threads : tpc[t] = "parse" /\ Behind(t) = c)

(* The descriptor of a client that has hung up is given back.                *)
DescriptorsReturned ==
  \A c \in Conns :
    peer[c] = "gone" /\ (\E f \in Fds : files[f] = c)
      ~> (Excused(c) \/ \A f \in Fds : files[f] # c)
=============================================================================

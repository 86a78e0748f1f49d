------------------------------- MODULE FsdbRing -------------------------------
(***************************************************************************)
(* The circular lists of fsdb.c (and of answer.c, which repeats them),     *)
(* pointer by pointer: a head pointer per list and a next and a prev       *)
(* pointer per atom.  One step is one statement that touches memory other  *)
(* threads may touch.  The functions take no lock.  Overlap says whether   *)
(* two calls on one list may run at the same time; calls on different      *)
(* lists always may.                                                       *)
(*                                                                         *)
(* The definitions just before Return, InsertAlone, Around and FreeRound,  *)
(* with the same parameters, are wrong forms of them: the properties are   *)
(* shown to fail when one takes its place.                                 *)
(***************************************************************************)
EXTENDS Naturals, FiniteSets, Sequences

CONSTANTS
  Atoms,        \* struct fsdb_t objects
  Lists,        \* _config.problems, _config.problem_queue
  Threads,
  Queries,      \* the ids looked for; 0 stands for the query NULL
  Id,           \* header->id of each atom
  Overlap,      \* calls on one list may overlap
  MaxCount,     \* bound: where the local count stops growing
  NULL

ASSUME ConstantsAssumption ==
  /\ IsFiniteSet(Atoms) /\ NULL \notin Atoms
  /\ 0 \in Queries /\ Queries \subseteq Nat
  /\ Id \in [Atoms -> Nat \ {0}]
  /\ Overlap \in BOOLEAN /\ NULL \notin Lists
  /\ MaxCount \in Nat /\ Cardinality(Atoms) <= MaxCount

VARIABLES
  head,         \* _config.problems and _config.problem_queue
  next, prev,   \* atom->next, atom->prev
  fresh,        \* atoms not allocated yet
  hand,         \* the atom each thread has allocated or extracted
  got,          \* what the last search or count of each thread returned
  pc,           \* the statement each thread is at
  call,         \* arguments and local variables of the call it is in
  segv          \* a NULL pointer was followed: the process is gone

ring == <<head, next, prev>>
vars == <<ring, fresh, hand, got, pc, call, segv>>

Ops == {"insert", "extract", "find", "count"}
\* db: the head read on entry; atom: where the walk is; count: atoms passed.
Call(o, l, w) == [op |-> o, list |-> l, want |-> w, db |-> NULL, atom |-> NULL, count |-> 0]
NoCall == Call("none", NULL, 0)

Init ==
  /\ head = [l \in Lists |-> NULL]
  /\ next = [a \in Atoms |-> a] /\ prev = [a \in Atoms |-> a]
  /\ fresh = Atoms
  /\ hand = [t \in Threads |-> NULL] /\ got = [t \in Threads |-> NULL]
  /\ pc = [t \in Threads |-> "idle"] /\ call = [t \in Threads |-> NoCall]
  /\ segv = FALSE

-----------------------------------------------------------------------------
At(t, s) == ~segv /\ pc[t] = s
Goto(t, s) == pc' = [pc EXCEPT ![t] = s]
ReturnKeepsCall(t) == Goto(t, "idle") /\ UNCHANGED call
Return(t) == Goto(t, "idle") /\ call' = [call EXCEPT ![t] = NoCall]

\* One step that follows pointer p and goes on with A, unless p is NULL.
Follow(p, A) ==
  IF p = NULL
    THEN segv' = TRUE /\ UNCHANGED <<ring, fresh, hand, got, pc, call>>
    ELSE A /\ UNCHANGED segv

Busy(l) == \E t \in Threads : call[t].list = l

(* A registration fills a new atom whose pointers point to itself. *)
Allocate(t) ==
  /\ At(t, "idle") /\ got[t] = NULL /\ hand[t] = NULL
  /\ \E a \in fresh : hand' = [hand EXCEPT ![t] = a] /\ fresh' = fresh \ {a}
  /\ UNCHANGED <<ring, got, pc, call, segv>>

(* The caller is done with what the last search or count returned. *)
Drop(t) ==
  /\ At(t, "idle") /\ got[t] # NULL
  /\ got' = [got EXCEPT ![t] = NULL]
  /\ UNCHANGED <<ring, fresh, hand, pc, call, segv>>

Begin(t, o, l, w) ==
  /\ At(t, "idle") /\ got[t] = NULL
  /\ Overlap \/ ~Busy(l)
  /\ o = "insert" <=> hand[t] # NULL
  /\ o \in {"insert", "count"} => w = 0
  /\ call' = [call EXCEPT ![t] = Call(o, l, w)]
  /\ Goto(t, IF o = "insert" THEN "test" ELSE "enter")
  /\ UNCHANGED <<ring, fresh, hand, got, segv>>

-----------------------------------------------------------------------------
(* _insert_db *)

InsertTest(t) ==
  /\ At(t, "test")
  /\ Goto(t, IF head[call[t].list] = NULL THEN "alone" ELSE "next")
  /\ UNCHANGED <<ring, fresh, hand, got, call, segv>>

InsertAloneNextOnly(t) ==
  /\ At(t, "alone")
  /\ next' = [next EXCEPT ![hand[t]] = hand[t]]
  /\ Goto(t, "head")
  /\ UNCHANGED <<head, prev, fresh, hand, got, call, segv>>
InsertAlone(t) ==       \* atom->prev = atom->next = atom
  /\ At(t, "alone")
  /\ next' = [next EXCEPT ![hand[t]] = hand[t]]
  /\ prev' = [prev EXCEPT ![hand[t]] = hand[t]]
  /\ Goto(t, "head")
  /\ UNCHANGED <<head, fresh, hand, got, call, segv>>

InsertHead(t) ==        \* *db = atom
  /\ At(t, "head")
  /\ head' = [head EXCEPT ![call[t].list] = hand[t]]
  /\ hand' = [hand EXCEPT ![t] = NULL]
  /\ Return(t)
  /\ UNCHANGED <<next, prev, fresh, got, segv>>

InsertNext(t) ==        \* atom->next = *db
  /\ At(t, "next")
  /\ next' = [next EXCEPT ![hand[t]] = head[call[t].list]]
  /\ Goto(t, "prev")
  /\ UNCHANGED <<head, prev, fresh, hand, got, call, segv>>

InsertPrev(t) ==        \* atom->prev = (*db)->prev
  /\ At(t, "prev")
  /\ LET h == head[call[t].list] IN
       Follow(h, /\ prev' = [prev EXCEPT ![hand[t]] = prev[h]]
                 /\ Goto(t, "link")
                 /\ UNCHANGED <<head, next, fresh, hand, got, call>>)

InsertLink(t) ==        \* (*db)->prev->next = atom
  /\ At(t, "link")
  /\ LET h == head[call[t].list] IN
       Follow(h, /\ next' = [next EXCEPT ![prev[h]] = hand[t]]
                 /\ Goto(t, "last")
                 /\ UNCHANGED <<head, prev, fresh, hand, got, call>>)

InsertLast(t) ==        \* (*db)->prev = atom
  /\ At(t, "last")
  /\ LET h == head[call[t].list] IN
       Follow(h, /\ prev' = [prev EXCEPT ![h] = hand[t]]
                 /\ hand' = [hand EXCEPT ![t] = NULL]
                 /\ Return(t)
                 /\ UNCHANGED <<head, next, fresh, got>>)

-----------------------------------------------------------------------------
(* _find_db, _count_db, and the search with which _extract_db begins. *)

\* what the call returns when it finds nothing, or has counted n atoms
Finish(t, n) ==
  /\ Return(t)
  /\ got' = CASE call[t].op = "count" -> [got EXCEPT ![t] = n]
              [] call[t].op = "find" -> [got EXCEPT ![t] = NULL]
              [] OTHER -> got
  /\ UNCHANGED <<ring, fresh, hand>>

\* a is the atom looked for
Found(t, a) ==
  /\ IF call[t].op = "find"
       THEN Return(t) /\ got' = [got EXCEPT ![t] = a]
       ELSE /\ Goto(t, "unnext") /\ call' = [call EXCEPT ![t].atom = a]
            /\ UNCHANGED got
  /\ UNCHANGED <<ring, fresh, hand>>

Enter(t) ==             \* the head is passed by value
  /\ At(t, "enter")
  /\ LET h == head[call[t].list] IN
       IF h = NULL THEN Finish(t, 0)
       ELSE IF call[t].op # "count" /\ call[t].want = 0 THEN Found(t, h)
       ELSE /\ call' = [call EXCEPT ![t].db = h, ![t].atom = h]
            /\ Goto(t, "walk")
            /\ UNCHANGED <<ring, fresh, hand, got>>
  /\ UNCHANGED segv

\* one round of the loop: look at the atom, or go on to the next one
Wanted(t) == call[t].op # "count" /\ Id[call[t].atom] = call[t].want
AroundEarly(t) == call[t].db \in {next[call[t].atom], next[next[call[t].atom]]}
AroundSelf(t) == next[call[t].atom] = call[t].atom
Around(t) == next[call[t].atom] = call[t].db
Counted(t) == IF call[t].count < MaxCount THEN call[t].count + 1 ELSE MaxCount
Walk(t) ==
  /\ At(t, "walk")
  /\ Follow(call[t].atom,
       \/ Wanted(t) /\ Found(t, call[t].atom)
       \/ ~Wanted(t) /\ Around(t) /\ Finish(t, Counted(t))
       \/ /\ ~Wanted(t) /\ ~Around(t)
          /\ call' = [call EXCEPT ![t].atom = next[@], ![t].count =
                        IF call[t].op = "count" THEN Counted(t) ELSE 0]
          /\ UNCHANGED <<ring, fresh, hand, got, pc>>)

-----------------------------------------------------------------------------
(* The rest of _extract_db. *)

UnlinkNext(t) ==        \* atom->prev->next = atom->next
  /\ At(t, "unnext")
  /\ LET a == call[t].atom IN next' = [next EXCEPT ![prev[a]] = next[a]]
  /\ Goto(t, "unprev")
  /\ UNCHANGED <<head, prev, fresh, hand, got, call, segv>>

UnlinkPrev(t) ==        \* atom->next->prev = atom->prev
  /\ At(t, "unprev")
  /\ LET a == call[t].atom IN
       Follow(next[a], /\ prev' = [prev EXCEPT ![next[a]] = prev[a]]
                       /\ Goto(t, "unhead")
                       /\ UNCHANGED <<head, next, fresh, hand, got, call>>)

AfterHead(a) == IF next[a] = a THEN NULL ELSE next[a]
UnlinkHead(t) ==        \* if (*db == atom) ...; return atom
  /\ At(t, "unhead")
  /\ LET a == call[t].atom IN
       /\ head' = [head EXCEPT ![call[t].list] = IF @ = a THEN AfterHead(a) ELSE @]
       /\ hand' = [hand EXCEPT ![t] = a]
  /\ Return(t)
  /\ UNCHANGED <<next, prev, fresh, got, segv>>

-----------------------------------------------------------------------------
(* _free_db, which runs at shutdown: what a call would do to list l as it is. *)

(* One round: atom->prev->next = NULL; atom = atom->next; free (deleted).    *)
(* stray lists the writes to an atom that was freed before.  They go to its  *)
(* fifth word; glibc keeps its own links in the first two of a freed block,  *)
(* so they change nothing else.                                              *)
Elements(list) == {list[i] : i \in DOMAIN list}
FreeRoundKeepsNext(s) ==
  [s EXCEPT !.atom = s.next[s.atom], !.freed = Append(@, s.atom)]
FreeRound(s) ==
  LET before == prev[s.atom]
      cut == [s.next EXCEPT ![before] = NULL]
  IN  [next |-> cut, atom |-> cut[s.atom], freed |-> Append(s.freed, s.atom),
       stray |-> IF before \in Elements(s.freed) THEN Append(s.stray, before) ELSE s.stray]
FreeRounds(l) ==
  LET round[n \in 0 .. Cardinality(Atoms) + 1] ==
        IF n = 0 THEN [next |-> next, atom |-> next[head[l]], freed |-> <<>>, stray |-> <<>>]
        ELSE IF round[n - 1].atom = NULL THEN round[n - 1] ELSE FreeRound(round[n - 1])
  IN  round[Cardinality(Atoms) + 1]

-----------------------------------------------------------------------------
Insert(t) == \/ InsertTest(t) \/ InsertAlone(t) \/ InsertHead(t)
             \/ InsertNext(t) \/ InsertPrev(t) \/ InsertLink(t) \/ InsertLast(t)
Inside(t) == \/ Insert(t) \/ Enter(t) \/ Walk(t)
             \/ UnlinkNext(t) \/ UnlinkPrev(t) \/ UnlinkHead(t)

Next ==
  \E t \in Threads :
    \/ Allocate(t) \/ Drop(t) \/ Inside(t)
    \/ \E o \in Ops, l \in Lists, w \in Queries : Begin(t, o, l, w)

Spec == Init /\ [][Next]_vars

(* Fairness: a thread inside a call goes on. *)
FairSpec == Spec /\ \A t \in Threads : WF_vars(Inside(t))

-----------------------------------------------------------------------------
(* Type invariant. *)
Pointer == Atoms \cup {NULL}
TypeOK ==
  /\ head \in [Lists -> Pointer]
  /\ next \in [Atoms -> Pointer] /\ prev \in [Atoms -> Pointer]
  /\ fresh \subseteq Atoms
  /\ hand \in [Threads -> Pointer]
  /\ got \in [Threads -> Pointer \cup 0 .. MaxCount]
  /\ pc \in [Threads -> {"idle", "test", "alone", "head", "next", "prev", "link",
                         "last", "enter", "walk", "unnext", "unprev", "unhead"}]
  /\ call \in [Threads -> [op : Ops \cup {"none"}, list : Lists \cup {NULL}, want : Queries,
                          db : Pointer, atom : Pointer, count : 0 .. MaxCount]]
  /\ \A t \in Threads : call[t].op = "none" <=> pc[t] = "idle"
  /\ segv \in BOOLEAN

(* The atoms met by following succ from first until one is met again.        *)
Met(first, succ) ==
  LET steps == Cardinality(Atoms)
      at[n \in 0 .. steps] ==
        IF n = 0 THEN first ELSE IF at[n - 1] = NULL THEN NULL ELSE succ[at[n - 1]]
      Over(n) == at[n] = NULL \/ \E m \in 0 .. (n - 1) : at[m] = at[n]
      len == CHOOSE n \in 0 .. steps : Over(n) /\ \A m \in 0 .. (n - 1) : ~Over(m)
  IN  [i \in 1 .. len |-> at[i - 1]]
Forward(l) == Met(head[l], next)

On(l) == {Forward(l)[i] : i \in DOMAIN Forward(l)}

(* Between the calls on a list it is a ring: next and prev are inverse on    *)
(* its atoms, and it closes at the head; and no NULL was ever followed.      *)
RingIntact ==
  /\ ~segv
  /\ \A l \in Lists : ~Busy(l) =>
       \A a \in On(l) : /\ next[a] \in On(l) /\ prev[a] \in On(l)
                        /\ prev[next[a]] = a /\ next[prev[a]] = a

(* No atom is lost: when all calls have returned, every atom a thread has    *)
(* inserted and none has extracted is on exactly one list (fsdb.c, 125).     *)
NoneLost ==
  ~segv /\ (\A t \in Threads : pc[t] = "idle") =>
    \A a \in Atoms \ fresh :
      IF \E t \in Threads : hand[t] = a
        THEN \A l \in Lists : a \notin On(l)
        ELSE \E l \in Lists : a \in On(l) /\ \A m \in Lists \ {l} : a \notin On(m)

(* Between the calls on a list _free_db would end, free each atom of the     *)
(* list once and read none after that, although it begins at the second one  *)
(* and follows pointers that it is setting to NULL (fsdb.c, 265-271).  Freed *)
(* memory it does write to: each atom but the head, in the order of their    *)
(* release, is written to in the round after its own (268).                  *)
FreedOnce ==
  \A l \in Lists : ~Busy(l) /\ head[l] # NULL =>
    LET end == FreeRounds(l) IN
      /\ end.atom = NULL
      /\ Len(end.freed) = Len(Forward(l)) /\ Elements(end.freed) = On(l)
      /\ end.stray = [i \in 1 .. Len(end.freed) - 1 |-> end.freed[i]]

(* What a thread holds: its atom is on the list once the last one points to  *)
(* it, and off the list once neither the head nor its neighbour does.        *)
Held(t) ==
  IF pc[t] = "last" THEN NULL
  ELSE IF pc[t] \in {"unprev", "unhead"} /\ head[call[t].list] # call[t].atom
    THEN call[t].atom
  ELSE hand[t]

Fifo == INSTANCE FifoLists WITH
          pool <- [l \in Lists |-> Forward(l)],
          hand <- [t \in Threads |-> Held(t)]

(* The pointer code implements the queues, with calls on different lists     *)
(* interleaved statement by statement.                                       *)
ImplementsFifo == Fifo!Spec

(* Every call returns: the loops of _find_db and _count_db come back to the  *)
(* head they started from.                                                   *)
CallsReturn == \A t \in Threads : pc[t] # "idle" ~> (pc[t] = "idle" \/ segv)
=============================================================================

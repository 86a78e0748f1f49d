---------------------------- MODULE FsdbRingProofs ----------------------------
(***************************************************************************)
(* For any number of atoms, lists and threads: as long as calls on one     *)
(* list do not overlap, the lists are rings whenever no call is under way, *)
(* and the pointer code implements the queues of FifoLists, however the    *)
(* calls on different lists interleave.                                    *)
(***************************************************************************)
EXTENDS FsdbRing, ListLemmas

-----------------------------------------------------------------------------
(* The inductive invariant.  RingIntact says nothing of a list while a call  *)
(* is at work on it, so it cannot be kept by itself: what is known then is   *)
(* which atoms are on the list, in which order, and what the call has done   *)
(* to their pointers so far.  s[l] is the order of the atoms of list l.      *)

Inserting == {"test", "alone", "head", "next", "prev", "link", "last"}
Searching == {"enter", "walk"}
Unlinking == {"unnext", "unprev", "unhead"}

\* What the types of the pointers depend on: a call has a list, and the atom
\* that is unlinked is one.
Arguments ==
  \A t \in Threads :
    /\ pc[t] # "idle" => call[t].list \in Lists
    /\ pc[t] \in Unlinking => call[t].atom \in Atoms

\* What a thread has at each place of its call.
Calls ==
  \A t \in Threads :
    /\ pc[t] = "idle" => call[t].list = NULL
    /\ pc[t] \in Inserting => call[t].op = "insert" /\ hand[t] # NULL
    /\ pc[t] \in Searching => call[t].op \in {"extract", "find", "count"} /\ hand[t] = NULL
    /\ pc[t] \in Unlinking => call[t].op = "extract" /\ hand[t] = NULL

\* Calls on one list do not overlap.
OneCall ==
  \A t, u \in Threads : call[t].list = call[u].list => t = u \/ call[t].list = NULL

\* An atom is in one place: not allocated, in one thread's hand, or at one
\* place of one list; only one that is being linked is in a hand and on a list.
OnePlace(s) ==
  /\ \A l, m \in Lists : \A i \in 1 .. Len(s[l]), j \in 1 .. Len(s[m]) :
       s[l][i] = s[m][j] => l = m /\ i = j
  /\ \A l \in Lists : \A i \in 1 .. Len(s[l]) : s[l][i] \notin fresh
  /\ \A t \in Threads : hand[t] \notin fresh
  /\ \A t, u \in Threads : hand[t] = hand[u] => t = u \/ hand[t] = NULL
  /\ \A t \in Threads, l \in Lists : \A i \in 1 .. Len(s[l]) :
       hand[t] = s[l][i] => pc[t] = "last" /\ call[t].list = l /\ i = Len(s[l])

Headed(l, q) == head[l] = IF q = <<>> THEN NULL ELSE q[1]

\* The places after and before i in a ring of n.
After(n, i) == IF i = n THEN 1 ELSE i + 1
Before(n, i) == IF i = 1 THEN n ELSE i - 1

NextClosed(q) == \A i \in 1 .. Len(q) : next[q[i]] = q[After(Len(q), i)]
PrevClosed(q) == \A i \in 1 .. Len(q) : prev[q[i]] = q[Before(Len(q), i)]

\* Place k is the first of q that the call of t looks for.
Chosen(t, q, k) ==
  /\ call[t].atom = q[k]
  /\ call[t].want \in {0, Id[q[k]]}
  /\ \A j \in 1 .. (k - 1) : call[t].want \notin {0, Id[q[j]]}

\* next or prev passes over place k.
NextPasses(q, k) ==
  \A i \in 1 .. Len(q) : next[q[i]] =
    q[IF i = Before(Len(q), k) THEN After(Len(q), k) ELSE After(Len(q), i)]
PrevPasses(q, k) ==
  \A i \in 1 .. Len(q) : prev[q[i]] =
    q[IF i = After(Len(q), k) THEN Before(Len(q), k) ELSE Before(Len(q), i)]

\* What a call has done so far to the list q it works on.
Doing(t, q) ==
  /\ pc[t] \notin {"unprev", "unhead"} => NextClosed(q)
  /\ pc[t] \notin {"last", "unhead"} => PrevClosed(q)
  /\ pc[t] \in {"alone", "head"} => q = <<>>
  /\ pc[t] = "head" => next[hand[t]] = hand[t] /\ prev[hand[t]] = hand[t]
  /\ pc[t] \in {"next", "prev", "link", "last", "walk", "unnext", "unprev", "unhead"} => q # <<>>
  /\ pc[t] \in {"prev", "link"} => next[hand[t]] = q[1]
  /\ pc[t] = "link" => prev[hand[t]] = q[Len(q)]
  /\ pc[t] = "last" =>
       /\ Len(q) > 1 /\ q[Len(q)] = hand[t] /\ prev[q[1]] = q[Len(q) - 1]
       /\ \A i \in 2 .. Len(q) : prev[q[i]] = q[i - 1]
  /\ pc[t] = "enter" => call[t].count = 0
  /\ pc[t] = "walk" =>
       /\ call[t].db = q[1] /\ (call[t].op # "count" => call[t].want # 0)
       /\ \E k \in 1 .. Len(q) :
            /\ call[t].atom = q[k]
            /\ call[t].op = "count" => call[t].count = k - 1
            /\ call[t].op # "count" => \A j \in 1 .. (k - 1) : Id[q[j]] # call[t].want
  /\ pc[t] \in Unlinking =>
       \E k \in 1 .. Len(q) :
         /\ Chosen(t, q, k)
         /\ pc[t] \in {"unprev", "unhead"} => NextPasses(q, k)
         /\ pc[t] = "unhead" => PrevPasses(q, k)

Shape(s) ==
  /\ \A l \in Lists : Headed(l, s[l])
  /\ \A l \in Lists : ~Busy(l) => NextClosed(s[l]) /\ PrevClosed(s[l])
  /\ \A t \in Threads : pc[t] # "idle" => Doing(t, s[call[t].list])

Ordered(s) == s \in [Lists -> Seq(Atoms)] /\ OnePlace(s) /\ Shape(s)

Base == TypeOK /\ Arguments /\ ~segv /\ Calls /\ OneCall
Inv == Base /\ \E s : Ordered(s)

-----------------------------------------------------------------------------
(* Types, whether or not calls overlap. *)

CallRecord == [op : Ops \cup {"none"}, list : Lists \cup {NULL}, want : Queries,
               db : Pointer, atom : Pointer, count : 0 .. MaxCount]

Places == {"idle", "test", "alone", "head", "next", "prev", "link",
           "last", "enter", "walk", "unnext", "unprev", "unhead"}

\* What a step of thread t that does not allocate leaves of the types.
Retyped(t) ==
  /\ UNCHANGED fresh /\ segv' \in BOOLEAN
  /\ head' \in [Lists -> Pointer]
  /\ next' \in [Atoms -> Pointer] /\ prev' \in [Atoms -> Pointer]
  /\ \E h \in Pointer : hand' = [hand EXCEPT ![t] = h]
  /\ \E g \in Pointer \cup 0 .. MaxCount : got' = [got EXCEPT ![t] = g]
  /\ \E s \in Places : pc' = [pc EXCEPT ![t] = s]
  /\ \E c \in CallRecord : call' = [call EXCEPT ![t] = c]
  /\ call'[t].op = "none" <=> pc'[t] = "idle"
  /\ pc'[t] # "idle" => call'[t].list \in Lists
  /\ pc'[t] \in Unlinking => call'[t].atom \in Atoms

\* Such a step keeps the types.
LEMMA RetypedTypes ==
  ASSUME TypeOK, Arguments, NEW t \in Threads, Retyped(t)
  PROVE  TypeOK' /\ Arguments'
<1>1. PICK h \in Pointer : hand' = [hand EXCEPT ![t] = h]
  BY DEF Retyped
<1>2. PICK g \in Pointer \cup 0 .. MaxCount : got' = [got EXCEPT ![t] = g]
  BY DEF Retyped
<1>3. PICK s \in Places : pc' = [pc EXCEPT ![t] = s]
  BY DEF Retyped
<1>4. PICK c \in CallRecord : call' = [call EXCEPT ![t] = c]
  BY DEF Retyped
<1>5. /\ hand' \in [Threads -> Pointer] /\ got' \in [Threads -> Pointer \cup 0 .. MaxCount]
      /\ pc' \in [Threads -> Places]
  BY <1>1, <1>2, <1>3 DEF TypeOK, Places
<1>6. call' \in [Threads -> CallRecord]
  <2>1. call \in [Threads -> CallRecord]
    BY DEF TypeOK, CallRecord
  <2> HIDE DEF CallRecord
  <2> QED BY <1>4, <2>1
<1>7. \A u \in Threads : u # t => pc'[u] = pc[u] /\ call'[u] = call[u]
  BY <1>3, <1>4 DEF TypeOK
<1>8. \A u \in Threads : call'[u].op = "none" <=> pc'[u] = "idle"
  BY <1>7 DEF TypeOK, Retyped
<1>9. Arguments'
  BY <1>7 DEF Arguments, Retyped
<1> QED BY <1>5, <1>6, <1>8, <1>9 DEF TypeOK, Retyped, Pointer, CallRecord, Places

\* The calls and the numbers the local variables start from.
LEMMA CallTypes ==
  /\ NoCall \in CallRecord /\ NULL \in Pointer /\ MaxCount \in Nat /\ 0 \in 0 .. MaxCount
  /\ \A o \in Ops, l \in Lists, w \in Queries : Call(o, l, w) \in CallRecord
BY ConstantsAssumption DEF NoCall, Call, CallRecord, Ops, Pointer

\* Variables a step leaves alone keep their types.
LEMMA Kept ==
  ASSUME TypeOK, NEW t \in Threads
  PROVE  /\ hand = [hand EXCEPT ![t] = hand[t]] /\ hand[t] \in Pointer
         /\ got = [got EXCEPT ![t] = got[t]] /\ got[t] \in Pointer \cup 0 .. MaxCount
         /\ pc = [pc EXCEPT ![t] = pc[t]] /\ pc[t] \in Places
         /\ call = [call EXCEPT ![t] = call[t]] /\ call[t] \in CallRecord
<1>1. /\ hand = [hand EXCEPT ![t] = hand[t]] /\ hand[t] \in Pointer
      /\ got = [got EXCEPT ![t] = got[t]] /\ got[t] \in Pointer \cup 0 .. MaxCount
      /\ pc = [pc EXCEPT ![t] = pc[t]] /\ pc[t] \in Places
  BY DEF TypeOK, Places
<1>2. call \in [Threads -> CallRecord]
  BY DEF TypeOK, CallRecord
<1> HIDE DEF CallRecord
<1> QED BY <1>1, <1>2

\* A step that follows NULL ends the process.
LEMMA Segv ==
  ASSUME TypeOK, Arguments, NEW t \in Threads,
         segv' = TRUE, UNCHANGED <<ring, fresh, hand, got, pc, call>>
  PROVE  TypeOK' /\ Arguments'
BY DEF TypeOK, Arguments, ring, Pointer, Ops

\* The statements of _insert_db keep the types.
LEMMA InsertTypes ==
  ASSUME TypeOK, Arguments, NEW t \in Threads, Insert(t)
  PROVE  TypeOK' /\ Arguments'
<1> USE CallTypes, Kept
<1>0. call[t].list \in Lists /\ call[t].op # "none"
  BY DEF Insert, InsertTest, InsertAlone, InsertHead, InsertNext, InsertPrev, InsertLink,
         InsertLast, At, Arguments, TypeOK
<1>1. CASE InsertTest(t)
  <2>1. PICK s \in {"alone", "next"} : pc' = [pc EXCEPT ![t] = s]
    BY <1>1 DEF InsertTest, Goto
  <2>2. pc'[t] = s
    BY <2>1 DEF TypeOK
  <2>3. Retyped(t)
    BY <1>0, <1>1, <2>1, <2>2 DEF InsertTest, TypeOK, Retyped, Places, ring, Unlinking
  <2> QED BY <2>3, RetypedTypes
<1>2. CASE InsertAlone(t)
  <2>1. pc' = [pc EXCEPT ![t] = "head"] /\ pc'[t] = "head"
    BY <1>2 DEF InsertAlone, Goto, TypeOK
  <2>2. Retyped(t)
    BY <1>0, <1>2, <2>1 DEF InsertAlone, TypeOK, Retyped, Places, Unlinking
  <2> QED BY <2>2, RetypedTypes
<1>3. CASE InsertHead(t)
  <2>1. /\ pc' = [pc EXCEPT ![t] = "idle"] /\ pc'[t] = "idle"
        /\ call' = [call EXCEPT ![t] = NoCall] /\ call'[t] = NoCall
    BY <1>3 DEF InsertHead, Return, Goto, TypeOK
  <2>2. Retyped(t)
    BY <1>3, <2>1 DEF InsertHead, TypeOK, Retyped, Places, Unlinking, NoCall, Call
  <2> QED BY <2>2, RetypedTypes
<1>4. CASE InsertNext(t)
  <2>1. pc' = [pc EXCEPT ![t] = "prev"] /\ pc'[t] = "prev"
    BY <1>4 DEF InsertNext, Goto, TypeOK
  <2>2. head[call[t].list] \in Pointer
    BY <1>0 DEF TypeOK
  <2>3. Retyped(t)
    BY <1>0, <1>4, <2>1, <2>2 DEF InsertNext, TypeOK, Retyped, Places, Unlinking
  <2> QED BY <2>3, RetypedTypes
<1> DEFINE h == head[call[t].list]
<1>5. h \in Pointer /\ (h # NULL => h \in Atoms)
  BY <1>0 DEF TypeOK, Pointer
<1>6. CASE InsertPrev(t)
  <2>1. CASE h = NULL
    BY <1>6, <2>1, Segv DEF InsertPrev, Follow
  <2>2. CASE h # NULL
    <3>1. pc' = [pc EXCEPT ![t] = "link"] /\ pc'[t] = "link" /\ prev[h] \in Pointer
      BY <1>5, <1>6, <2>2 DEF InsertPrev, Follow, Goto, TypeOK
    <3>2. Retyped(t)
      BY <1>0, <1>6, <2>2, <3>1 DEF InsertPrev, Follow, TypeOK, Retyped, Places, Unlinking
    <3> QED BY <3>2, RetypedTypes
  <2> QED BY <2>1, <2>2
<1>7. CASE InsertLink(t)
  <2>1. CASE h = NULL
    BY <1>7, <2>1, Segv DEF InsertLink, Follow
  <2>2. CASE h # NULL
    <3>1. pc' = [pc EXCEPT ![t] = "last"] /\ pc'[t] = "last"
      BY <1>7, <2>2 DEF InsertLink, Follow, Goto, TypeOK
    <3>2. Retyped(t)
      BY <1>0, <1>7, <2>2, <3>1 DEF InsertLink, Follow, TypeOK, Retyped, Places, Unlinking
    <3> QED BY <3>2, RetypedTypes
  <2> QED BY <2>1, <2>2
<1>8. CASE InsertLast(t)
  <2>1. CASE h = NULL
    BY <1>8, <2>1, Segv DEF InsertLast, Follow
  <2>2. CASE h # NULL
    <3>1. /\ pc' = [pc EXCEPT ![t] = "idle"] /\ pc'[t] = "idle"
          /\ call' = [call EXCEPT ![t] = NoCall] /\ call'[t] = NoCall
      BY <1>8, <2>2 DEF InsertLast, Follow, Return, Goto, TypeOK
    <3>2. /\ prev' = [prev EXCEPT ![h] = hand[t]] /\ hand' = [hand EXCEPT ![t] = NULL]
          /\ UNCHANGED <<head, next, fresh, got, segv>>
      BY <1>8, <2>2 DEF InsertLast, Follow
    <3>3. Retyped(t)
      BY <3>1, <3>2 DEF TypeOK, Retyped, Places, Unlinking, NoCall, Call
    <3> QED BY <3>3, RetypedTypes
  <2> QED BY <2>1, <2>2
<1> QED BY SMTT(60), <1>1, <1>2, <1>3, <1>4, <1>6, <1>7, <1>8 DEF Insert

\* So do those with which _extract_db unlinks an atom,
LEMMA UnlinkTypes ==
  ASSUME TypeOK, Arguments, NEW t \in Threads, UnlinkNext(t) \/ UnlinkPrev(t) \/ UnlinkHead(t)
  PROVE  TypeOK' /\ Arguments'
<1> USE CallTypes, Kept
<1> DEFINE a == call[t].atom
<1>0. call[t].list \in Lists /\ call[t].op # "none" /\ a \in Atoms /\ a \in Pointer
  BY DEF UnlinkNext, UnlinkPrev, UnlinkHead, At, Arguments, TypeOK, Unlinking, Pointer
<1>1. next[a] \in Pointer /\ prev[a] \in Pointer
  BY <1>0 DEF TypeOK
<1>2. CASE UnlinkNext(t)
  <2>1. pc' = [pc EXCEPT ![t] = "unprev"] /\ pc'[t] = "unprev"
    BY <1>2 DEF UnlinkNext, Goto, TypeOK
  <2>2. Retyped(t)
    BY <1>0, <1>1, <1>2, <2>1 DEF UnlinkNext, TypeOK, Retyped, Places
  <2> QED BY <2>2, RetypedTypes
<1>3. CASE UnlinkPrev(t)
  <2>1. CASE next[a] = NULL
    BY <1>3, <2>1, Segv DEF UnlinkPrev, Follow
  <2>2. CASE next[a] # NULL
    <3>1. pc' = [pc EXCEPT ![t] = "unhead"] /\ pc'[t] = "unhead"
      BY <1>3, <2>2 DEF UnlinkPrev, Follow, Goto, TypeOK
    <3>2. Retyped(t)
      BY <1>0, <1>1, <1>3, <2>2, <3>1 DEF UnlinkPrev, Follow, TypeOK, Retyped, Places
    <3> QED BY <3>2, RetypedTypes
  <2> QED BY <2>1, <2>2
<1>4. CASE UnlinkHead(t)
  <2>1. /\ pc' = [pc EXCEPT ![t] = "idle"] /\ pc'[t] = "idle"
        /\ call' = [call EXCEPT ![t] = NoCall] /\ call'[t] = NoCall
    BY <1>4 DEF UnlinkHead, Return, Goto, TypeOK
  <2>2. AfterHead(a) \in Pointer
    BY <1>1 DEF AfterHead
  <2>3. head' \in [Lists -> Pointer]
    BY <1>0, <1>4, <2>2 DEF UnlinkHead, TypeOK
  <2>4. Retyped(t)
    BY ZenonT(60), <1>0, <1>4, <2>1, <2>3 DEF UnlinkHead, TypeOK, Retyped, Places, Unlinking, NoCall, Call
  <2> QED BY <2>4, RetypedTypes
<1> QED BY <1>2, <1>3, <1>4

\* What the loops and the search end with.
LEMMA FinishTypes ==
  ASSUME TypeOK, Arguments, NEW t \in Threads, NEW n \in 0 .. MaxCount, Finish(t, n),
         UNCHANGED segv
  PROVE  Retyped(t)
<1> USE CallTypes, Kept
<1>1. /\ pc' = [pc EXCEPT ![t] = "idle"] /\ pc'[t] = "idle"
      /\ call' = [call EXCEPT ![t] = NoCall] /\ call'[t] = NoCall
  BY DEF Finish, Return, Goto, TypeOK
<1>2. \E g \in Pointer \cup 0 .. MaxCount : got' = [got EXCEPT ![t] = g]
  BY DEF Finish
<1> QED BY ZenonT(60), <1>1, <1>2 DEF Finish, TypeOK, Retyped, Places, Unlinking, NoCall, Call, ring

\* What a search that has found its atom goes on with.
LEMMA FoundTypes ==
  ASSUME TypeOK, Arguments, NEW t \in Threads, NEW a \in Atoms, Found(t, a),
         UNCHANGED segv, pc[t] # "idle"
  PROVE  Retyped(t)
<1> USE CallTypes, Kept
<1>0. a \in Pointer
  BY DEF Pointer
<1>1. CASE call[t].op = "find"
  <2>1. /\ pc' = [pc EXCEPT ![t] = "idle"] /\ pc'[t] = "idle"
        /\ call' = [call EXCEPT ![t] = NoCall] /\ call'[t] = NoCall
        /\ got' = [got EXCEPT ![t] = a]
    BY <1>1 DEF Found, Return, Goto, TypeOK
  <2> QED BY ZenonT(60), <1>0, <2>1 DEF Found, TypeOK, Retyped, Places, Unlinking, NoCall, Call, ring
<1>2. CASE call[t].op # "find"
  <2> DEFINE c == [call[t] EXCEPT !.atom = a]
  <2>1. c \in CallRecord /\ c.op = call[t].op /\ c.list = call[t].list /\ c.atom = a
    BY <1>0 DEF CallRecord
  <2>2. /\ pc' = [pc EXCEPT ![t] = "unnext"] /\ pc'[t] = "unnext"
        /\ call' = [call EXCEPT ![t] = c] /\ call'[t] = c /\ UNCHANGED got
    BY <1>2 DEF Found, Goto, TypeOK
  <2>3. c.op # "none" /\ c.list \in Lists
    BY <2>1 DEF TypeOK, Arguments
  <2> HIDE DEF c
  <2> QED BY ZenonT(60), <2>1, <2>2, <2>3 DEF Found, TypeOK, Retyped, Places, ring
<1> QED BY <1>1, <1>2

\* A search that neither ends nor finds at the head begins to walk.
LEMMA EnterGoesOn ==
  ASSUME NEW t, Enter(t), ~Finish(t, 0),
         ~(head[call[t].list] # NULL /\ Found(t, head[call[t].list]))
  PROVE  /\ call' = [call EXCEPT ![t].db = head[call[t].list], ![t].atom = head[call[t].list]]
         /\ Goto(t, "walk") /\ UNCHANGED <<ring, fresh, hand, got>>
<1> PICK h : h = head[call[t].list]
  OBVIOUS
<1>1. h # NULL
  BY DEF Enter
<1>2. ~(call[t].op # "count" /\ call[t].want = 0)
  BY <1>1 DEF Enter
<1> QED BY <1>1, <1>2 DEF Enter

\* The searches and the count keep the types,
LEMMA SearchTypes ==
  ASSUME TypeOK, Arguments, NEW t \in Threads, Enter(t) \/ Walk(t)
  PROVE  TypeOK' /\ Arguments'
<1> USE CallTypes, Kept
<1>0. pc[t] # "idle" /\ call[t].list \in Lists /\ call[t].op # "none"
  BY DEF Enter, Walk, At, Arguments, TypeOK
<1>1. CASE Enter(t)
  <2> DEFINE h == head[call[t].list]
  <2>1. h \in Pointer /\ (h # NULL => h \in Atoms) /\ UNCHANGED segv
    BY <1>0, <1>1 DEF Enter, TypeOK, Pointer
  <2>2. CASE Finish(t, 0) \/ (h # NULL /\ Found(t, h))
    BY <1>0, <2>1, <2>2, FinishTypes, FoundTypes, RetypedTypes
  <2>3. CASE ~Finish(t, 0) /\ ~(h # NULL /\ Found(t, h))
    <3> DEFINE c == [call[t] EXCEPT !.db = h, !.atom = h]
    <3>1. c \in CallRecord /\ c.op = call[t].op /\ c.list = call[t].list
      BY <2>1 DEF CallRecord
    <3>2. /\ call' = [call EXCEPT ![t].db = h, ![t].atom = h]
          /\ pc' = [pc EXCEPT ![t] = "walk"]
          /\ UNCHANGED <<ring, fresh, hand, got>>
      BY <1>1, <2>3, EnterGoesOn DEF Goto
    <3>3. call' = [call EXCEPT ![t] = c] /\ call'[t] = c /\ pc'[t] = "walk"
      <4>1. call' = [call EXCEPT ![t] = c]
        BY <3>2
      <4>2. t \in DOMAIN call /\ t \in DOMAIN pc
        BY DEF TypeOK
      <4> HIDE DEF c
      <4> QED BY <3>2, <4>1, <4>2
    <3> HIDE DEF c
    <3>4. Retyped(t)
      BY ZenonT(60), <1>0, <2>1, <3>1, <3>2, <3>3 DEF TypeOK, Retyped, Places, Unlinking, ring
    <3> QED BY <3>4, RetypedTypes
  <2> QED BY <2>2, <2>3
<1>2. CASE Walk(t)
  <2> DEFINE a == call[t].atom
  <2>1. CASE a = NULL
    BY <1>2, <2>1, Segv DEF Walk, Follow
  <2>2. CASE a # NULL
    <3>1. a \in Atoms /\ next[a] \in Pointer /\ UNCHANGED segv
      BY <1>2, <2>2 DEF Walk, Follow, TypeOK, Pointer
    <3>2. Counted(t) \in 0 .. MaxCount
      BY DEF Counted, TypeOK
    <3>3. CASE Finish(t, Counted(t)) \/ Found(t, a)
      BY <1>0, <3>1, <3>2, <3>3, FinishTypes, FoundTypes, RetypedTypes
    <3>4. CASE ~Finish(t, Counted(t)) /\ ~Found(t, a)
      <4> DEFINE n == IF call[t].op = "count" THEN Counted(t) ELSE 0
                 c == [call[t] EXCEPT !.atom = next[a], !.count = n]
      <4>1. n \in 0 .. MaxCount
        BY <3>2
      <4>2. c \in CallRecord /\ c.op = call[t].op /\ c.list = call[t].list
        BY <3>1, <4>1 DEF CallRecord
      <4>3. /\ call' = [call EXCEPT ![t] = c] /\ call'[t] = c
            /\ UNCHANGED <<ring, fresh, hand, got, pc>>
        BY ZenonT(60), <1>2, <2>2, <3>4 DEF Walk, Follow, TypeOK
      <4>4. pc[t] = "walk"
        BY <1>2 DEF Walk, At
      <4> HIDE DEF c
      <4>5. Retyped(t)
        BY ZenonT(60), <1>0, <3>1, <4>2, <4>3, <4>4 DEF TypeOK, Retyped, Places, Unlinking, ring
      <4> QED BY <4>5, RetypedTypes
    <3> QED BY <3>3, <3>4
  <2> QED BY <2>1, <2>2
<1> QED BY <1>1, <1>2

\* and so do the steps between the calls.
LEMMA IdleTypes ==
  ASSUME TypeOK, Arguments, NEW t \in Threads,
         \/ Allocate(t) \/ Drop(t)
         \/ \E o \in Ops, l \in Lists, w \in Queries : Begin(t, o, l, w)
  PROVE  TypeOK' /\ Arguments'
<1> USE CallTypes, Kept
<1>1. CASE Allocate(t)
  BY <1>1 DEF Allocate, TypeOK, Arguments, ring, Pointer, Ops
<1>2. CASE Drop(t)
  BY <1>2 DEF Drop, TypeOK, Arguments, ring, Pointer, Ops
<1>3. CASE \E o \in Ops, l \in Lists, w \in Queries : Begin(t, o, l, w)
  <2>1. PICK o \in Ops, l \in Lists, w \in Queries : Begin(t, o, l, w)
    BY <1>3
  <2>2. PICK s \in {"test", "enter"} : pc' = [pc EXCEPT ![t] = s]
    BY <2>1 DEF Begin, Goto
  <2>3. pc'[t] = s /\ call'[t] = Call(o, l, w)
    BY <2>1, <2>2 DEF Begin, TypeOK
  <2>4. Call(o, l, w).op # "none" /\ Call(o, l, w).list = l /\ Call(o, l, w) \in CallRecord
    BY <2>1 DEF Call, Ops
  <2>5. Retyped(t)
    BY ZenonT(60), <2>1, <2>2, <2>3, <2>4 DEF Begin, TypeOK, Retyped, Places, Unlinking, ring
  <2> QED BY <2>5, RetypedTypes
<1> QED BY <1>1, <1>2, <1>3

\* The types hold at the start,
LEMMA InitTypes == Init => TypeOK /\ Arguments
<1> SUFFICES ASSUME Init PROVE TypeOK /\ Arguments
  OBVIOUS
<1>1. call \in [Threads -> CallRecord] /\ \A t \in Threads : call[t].op = "none"
  <2>1. NoCall \in CallRecord /\ NoCall.op = "none"
    BY CallTypes DEF NoCall, Call
  <2> QED BY <2>1 DEF Init
<1> QED BY <1>1 DEF Init, TypeOK, CallRecord, Arguments, Pointer, Unlinking

\* and every step keeps them.
LEMMA NextTypes == TypeOK /\ Arguments /\ [Next]_vars => TypeOK' /\ Arguments'
<1> SUFFICES ASSUME TypeOK, Arguments, [Next]_vars PROVE TypeOK' /\ Arguments'
  OBVIOUS
<1>1. CASE UNCHANGED vars
  BY <1>1 DEF vars, ring, TypeOK, Arguments, Pointer, Ops
<1>2. ASSUME NEW t \in Threads,
             \/ Allocate(t) \/ Drop(t) \/ Inside(t)
             \/ \E o \in Ops, l \in Lists, w \in Queries : Begin(t, o, l, w)
      PROVE  TypeOK' /\ Arguments'
  BY <1>2, InsertTypes, UnlinkTypes, SearchTypes, IdleTypes DEF Inside
<1> QED BY <1>1, <1>2 DEF Next

(* Type correctness: whether or not calls on one list overlap, the pointers   *)
(* and local variables of fsdb.c stay in their ranges, and a call that has    *)
(* begun has its list.                                                        *)
THEOREM TypeCorrect == Spec => []TypeOK
<1>1. TypeOK /\ Arguments /\ [Next]_vars => (TypeOK /\ Arguments)'
  BY NextTypes
<1> QED BY InitTypes, <1>1, PTL DEF Spec

-----------------------------------------------------------------------------
(* What a step of one call leaves alone. *)

\* Only thread t moves, in its call on list l or out of it.
Moves(t, l) ==
  /\ \A u \in Threads : u # t => pc'[u] = pc[u] /\ call'[u] = call[u] /\ hand'[u] = hand[u]
  /\ UNCHANGED fresh
  /\ call'[t].list = IF pc'[t] = "idle" THEN NULL ELSE l

\* Its own atom and those of its list are the only ones it writes to.
Touches(t, l, s) ==
  /\ \A m \in Lists : m # l => head'[m] = head[m]
  /\ \A a \in Atoms :
       \/ next'[a] = next[a] /\ prev'[a] = prev[a]
       \/ a = hand[t]
       \/ \E i \in 1 .. Len(s[l]) : a = s[l][i]

\* What a call has done to its list so far stays done when nobody else writes there.
LEMMA DoingKept ==
  ASSUME NEW u \in Threads, NEW q \in Seq(Atoms), Doing(u, q), Calls,
         pc'[u] = pc[u], call'[u] = call[u], hand'[u] = hand[u],
         \A i \in 1 .. Len(q) : next'[q[i]] = next[q[i]] /\ prev'[q[i]] = prev[q[i]],
         hand[u] # NULL => next'[hand[u]] = next[hand[u]] /\ prev'[hand[u]] = prev[hand[u]]
  PROVE  Doing(u, q)'
<1>1. Len(q) \in Nat
  BY LenProperties
<1>2. (NextClosed(q) => NextClosed(q)') /\ (PrevClosed(q) => PrevClosed(q)')
  BY DEF NextClosed, PrevClosed
<1>3. \A k \in 1 .. Len(q) : /\ Chosen(u, q, k) => Chosen(u, q, k)'
                             /\ NextPasses(q, k) => NextPasses(q, k)'
                             /\ PrevPasses(q, k) => PrevPasses(q, k)'
  BY DEF Chosen, NextPasses, PrevPasses
<1>4. pc[u] \in Unlinking => Doing(u, q)'
  BY <1>2, <1>3 DEF Doing, Unlinking
<1>5. pc[u] = "last" => \A i \in 2 .. Len(q) : prev'[q[i]] = q[i - 1]
  BY <1>1 DEF Doing
<1>6. pc[u] = "last" => prev'[q[1]] = q[Len(q) - 1]
  BY <1>1 DEF Doing
<1>7. pc[u] \notin Unlinking => Doing(u, q)'
  BY <1>1, <1>2, <1>5, <1>6 DEF Doing, Unlinking, Calls, Inserting
<1> QED BY <1>4, <1>7

\* A step of t within its call, or out of it, keeps what is known of the calls.
LEMMA CallsKept ==
  ASSUME Base, NEW t \in Threads, NEW l \in Lists, call[t].list = l, Moves(t, l),
         pc'[t] \in Inserting => call'[t].op = "insert" /\ hand'[t] # NULL,
         pc'[t] \in Searching => call'[t].op \in {"extract", "find", "count"} /\ hand'[t] = NULL,
         pc'[t] \in Unlinking => call'[t].op = "extract" /\ hand'[t] = NULL
  PROVE  Calls' /\ OneCall'
<1>1. Calls'
  BY DEF Base, Calls, Moves
<1>2. OneCall'
  BY ConstantsAssumption DEF Base, OneCall, Moves
<1> QED BY <1>1, <1>2

\* Nobody else's list or atom is touched.
LEMMA OthersKept ==
  ASSUME Base, NEW s, Ordered(s), NEW t \in Threads, NEW l \in Lists, call[t].list = l,
         Moves(t, l), Touches(t, l, s)
  PROVE  /\ \A m \in Lists : m # l =>
              /\ Headed(m, s[m])'
              /\ ~Busy(m)' => NextClosed(s[m])' /\ PrevClosed(s[m])'
         /\ \A u \in Threads : u # t /\ pc'[u] # "idle" =>
              call'[u].list # l /\ call'[u].list \in Lists /\ Doing(u, s[call[u].list])'
<1>1. \A m \in Lists : s[m] \in Seq(Atoms) /\ Len(s[m]) \in Nat
  BY LenProperties DEF Ordered
<1>2. \A m \in Lists : \A i \in 1 .. Len(s[m]) : s[m][i] \in Atoms
  BY <1>1, ElementOfSeq
<1>3. ASSUME NEW m \in Lists, m # l, NEW i \in 1 .. Len(s[m])
      PROVE  next'[s[m][i]] = next[s[m][i]] /\ prev'[s[m][i]] = prev[s[m][i]]
  BY SMTT(60), <1>2, <1>3 DEF Touches, Ordered, OnePlace
<1>4. ASSUME NEW u \in Threads, u # t, hand[u] # NULL
      PROVE  next'[hand[u]] = next[hand[u]] /\ prev'[hand[u]] = prev[hand[u]]
  <2>1. hand[u] \in Atoms /\ hand[u] # hand[t]
    BY <1>4 DEF Base, TypeOK, Pointer, Ordered, OnePlace
  <2>2. call[u].list # l
    BY <1>4, ConstantsAssumption DEF Base, OneCall
  <2>3. \A i \in 1 .. Len(s[l]) : hand[u] # s[l][i]
    BY <2>2 DEF Ordered, OnePlace
  <2> QED BY <2>1, <2>3 DEF Touches
<1>5. ASSUME NEW m \in Lists, m # l
      PROVE  /\ Headed(m, s[m])'
             /\ ~Busy(m)' => NextClosed(s[m])' /\ PrevClosed(s[m])'
  <2>1. Headed(m, s[m])'
    BY <1>5 DEF Touches, Ordered, Shape, Headed
  <2>2. ~Busy(m)' => ~Busy(m)
    BY <1>5 DEF Busy, Moves
  <2>3. ~Busy(m) => NextClosed(s[m])' /\ PrevClosed(s[m])'
    BY SMTT(60), <1>3, <1>5 DEF Ordered, Shape, NextClosed, PrevClosed
  <2> QED BY <2>1, <2>2, <2>3
<1>6. ASSUME NEW u \in Threads, u # t, pc'[u] # "idle"
      PROVE  call'[u].list # l /\ call'[u].list \in Lists /\ Doing(u, s[call[u].list])'
  <2>1. call[u].list \in Lists /\ call[u].list # l /\ call'[u] = call[u] /\ pc[u] # "idle"
    BY <1>6, ConstantsAssumption DEF Moves, Base, Arguments, OneCall
  <2>2. Doing(u, s[call[u].list])
    BY <2>1 DEF Ordered, Shape
  <2>3. Doing(u, s[call[u].list])'
    BY <1>1, <1>3, <1>4, <1>6, <2>1, <2>2, DoingKept DEF Moves, Base
  <2> QED BY <2>1, <2>3
<1> QED BY <1>5, <1>6

\* What is left to show of a step of t: list l, of which q is now the order.
LEMMA OrderedStep ==
  ASSUME Base, NEW s, Ordered(s), NEW t \in Threads, NEW l \in Lists, call[t].list = l,
         Moves(t, l), Touches(t, l, s), NEW q \in Seq(Atoms),
         OnePlace([s EXCEPT ![l] = q])', Headed(l, q)',
         pc'[t] = "idle" => NextClosed(q)' /\ PrevClosed(q)',
         pc'[t] # "idle" => Doing(t, q)'
  PROVE  Ordered([s EXCEPT ![l] = q])'
<1> DEFINE z == [s EXCEPT ![l] = q]
<1>1. z \in [Lists -> Seq(Atoms)] /\ z[l] = q /\ \A m \in Lists : m # l => z[m] = s[m]
  BY DEF Ordered
<1> HIDE DEF z
<1>2. \A m \in Lists : Headed(m, z[m])'
  BY ZenonT(60), <1>1, OthersKept
<1>3. ASSUME NEW m \in Lists, ~Busy(m)' PROVE NextClosed(z[m])' /\ PrevClosed(z[m])'
  <2>1. CASE m # l
    BY <1>1, <1>3, <2>1, OthersKept
  <2>2. CASE m = l
    BY <1>1, <1>3, <2>2 DEF Busy, Moves
  <2> QED BY <2>1, <2>2
<1>4. ASSUME NEW u \in Threads, pc'[u] # "idle" PROVE Doing(u, z[call[u].list])'
  <2>1. CASE u # t
    <3>1. call'[u].list # l /\ call'[u].list \in Lists /\ Doing(u, s[call[u].list])'
      BY <1>4, <2>1, OthersKept
    <3> QED BY <1>1, <3>1
  <2>2. CASE u = t
    BY <1>1, <1>4, <2>2 DEF Moves
  <2> QED BY <2>1, <2>2
<1>5. Shape(z)'
  BY <1>2, <1>3, <1>4 DEF Shape
<1>6. OnePlace(z)'
  BY DEF z
<1>7. Ordered(z)'
  BY <1>1, <1>5, <1>6 DEF Ordered
<1> QED BY <1>7 DEF z

\* Steps that move no atom from one place to another.
LEMMA PlacesKept ==
  ASSUME NEW s, OnePlace(s), NEW t \in Threads, NEW l \in Lists, Moves(t, l),
         hand'[t] = hand[t], pc[t] # "last"
  PROVE  OnePlace(s)'
BY DEF OnePlace, Moves

\* What is left to show of a step that moves no atom.
LEMMA SameOrderStep ==
  ASSUME Base, NEW s, Ordered(s), NEW t \in Threads, NEW l \in Lists, call[t].list = l,
         Moves(t, l), Touches(t, l, s), hand'[t] = hand[t], pc[t] # "last", UNCHANGED head,
         pc'[t] = "idle" => NextClosed(s[l])' /\ PrevClosed(s[l])',
         pc'[t] # "idle" => Doing(t, s[l])'
  PROVE  Ordered(s)'
<1>1. s[l] \in Seq(Atoms) /\ [s EXCEPT ![l] = s[l]] = s
  BY DEF Ordered
<1>2. OnePlace(s)'
  BY PlacesKept DEF Ordered
<1>3. Headed(l, s[l])'
  BY DEF Ordered, Shape, Headed
<1>4. OnePlace([s EXCEPT ![l] = s[l]])'
  BY <1>1, <1>2
<1>5. Ordered([s EXCEPT ![l] = s[l]])'
  BY <1>1, <1>3, <1>4, OrderedStep
<1> QED BY <1>1, <1>5

-----------------------------------------------------------------------------
(* The steps of _insert_db. *)

\* What a thread in a call knows of the list it works on.
LEMMA InCall ==
  ASSUME Base, NEW s, Ordered(s), NEW t \in Threads, pc[t] # "idle",
         NEW l, call[t].list = l
  PROVE  /\ l \in Lists /\ s[l] \in Seq(Atoms) /\ Len(s[l]) \in Nat
         /\ \A i \in 1 .. Len(s[l]) : s[l][i] \in Atoms
         /\ (s[l] = <<>> <=> Len(s[l]) = 0)
         /\ Headed(l, s[l]) /\ Doing(t, s[l])
         /\ (pc[t] \in Inserting => hand[t] \in Atoms)
         /\ (pc[t] # "last" => \A i \in 1 .. Len(s[l]) : s[l][i] # hand[t])
<1>1. l \in Lists
  BY DEF Base, Arguments
<1>2. s[l] \in Seq(Atoms)
  BY <1>1 DEF Ordered
<1>3. /\ Len(s[l]) \in Nat /\ (s[l] = <<>> <=> Len(s[l]) = 0)
      /\ \A i \in 1 .. Len(s[l]) : s[l][i] \in Atoms
  BY <1>2, LenProperties, EmptySeq, ElementOfSeq
<1>4. pc[t] \in Inserting => hand[t] \in Atoms
  BY DEF Base, Calls, TypeOK, Pointer
<1>5. pc[t] # "last" => \A i \in 1 .. Len(s[l]) : s[l][i] # hand[t]
  BY <1>1 DEF Ordered, OnePlace
<1> QED BY <1>1, <1>2, <1>3, <1>4, <1>5 DEF Ordered, Shape

\* Goto leaves the other threads where they are.
LEMMA GotoMoves ==
  ASSUME Base, NEW t \in Threads, NEW p \in Places, p # "idle", Goto(t, p),
         UNCHANGED <<fresh, hand, call>>
  PROVE  Moves(t, call[t].list) /\ pc'[t] = p
BY DEF Moves, Goto, Base, TypeOK, Places

\* So does Return.
LEMMA ReturnMoves ==
  ASSUME Base, NEW t \in Threads, Return(t), UNCHANGED fresh,
         NEW h, hand' = [hand EXCEPT ![t] = h]
  PROVE  /\ Moves(t, call[t].list) /\ pc'[t] = "idle" /\ hand'[t] = h
         /\ call'[t].list = NULL
BY DEF Moves, Return, Goto, Base, TypeOK, NoCall, Call

\* The test of the head moves no atom.
LEMMA InsertTestStep ==
  ASSUME Base, NEW s, Ordered(s), NEW t \in Threads, NEW l, call[t].list = l,
         InsertTest(t)
  PROVE  Calls' /\ OneCall' /\ ~segv' /\ Ordered(s)'
<1> DEFINE q == s[l]
<1>1. pc[t] = "test" /\ ~segv /\ UNCHANGED <<head, next, prev, fresh, hand, got, call, segv>>
  BY DEF InsertTest, At, ring
<1>2. /\ l \in Lists /\ Headed(l, q) /\ Doing(t, q) /\ hand[t] # NULL /\ call[t].op = "insert"
      /\ (q # <<>> => q[1] \in Atoms)
  BY <1>1, InCall DEF Inserting, Base, Calls
<1>3. PICK p \in {"alone", "next"} :
        Goto(t, p) /\ (p = "alone" <=> head[l] = NULL)
  BY DEF InsertTest
<1>4. Moves(t, l) /\ pc'[t] = p
  BY <1>1, <1>3, GotoMoves DEF Places
<1>5. Calls' /\ OneCall'
  BY <1>1, <1>2, <1>4, CallsKept DEF Inserting, Searching, Unlinking
<1>6. Touches(t, l, s)
  BY <1>1 DEF Touches
<1>7. p = "alone" <=> q = <<>>
  BY <1>2, <1>3, ConstantsAssumption DEF Headed
<1>8. NextClosed(q)' /\ PrevClosed(q)'
  BY <1>1, <1>2 DEF Doing, NextClosed, PrevClosed
<1>9. Doing(t, q)'
  <2>1. p = "alone" \/ p = "next"
    OBVIOUS
  <2> QED BY <1>4, <1>7, <1>8, <2>1 DEF Doing, Unlinking
<1>10. Ordered(s)'
  BY <1>1, <1>2, <1>4, <1>6, <1>9, SameOrderStep
<1> QED BY <1>1, <1>5, <1>10

\* The first atom of a list is made to point to itself.
LEMMA InsertAloneStep ==
  ASSUME Base, NEW s, Ordered(s), NEW t \in Threads, NEW l, call[t].list = l,
         InsertAlone(t)
  PROVE  Calls' /\ OneCall' /\ ~segv' /\ Ordered(s)'
<1> DEFINE q == s[l]
<1> PICK h : h = hand[t]
  OBVIOUS
<1>1. /\ pc[t] = "alone" /\ ~segv /\ UNCHANGED <<head, fresh, hand, got, call, segv>>
      /\ next' = [next EXCEPT ![h] = h] /\ prev' = [prev EXCEPT ![h] = h]
      /\ Goto(t, "head")
  BY DEF InsertAlone, At
<1>2. l \in Lists /\ q \in Seq(Atoms) /\ q = <<>> /\ Len(q) = 0
  BY <1>1, InCall DEF Doing
<1>3. h \in Atoms /\ h # NULL /\ call[t].op = "insert"
  BY <1>1, InCall DEF Inserting, Base, Calls
<1>4. Moves(t, l) /\ pc'[t] = "head"
  BY <1>1, GotoMoves DEF Places
<1>5. Calls' /\ OneCall'
  BY <1>1, <1>2, <1>3, <1>4, CallsKept DEF Inserting, Searching, Unlinking
<1>6. Touches(t, l, s) /\ next'[h] = h /\ prev'[h] = h
  BY <1>1, <1>3 DEF Touches, Base, TypeOK
<1>7. NextClosed(q)' /\ PrevClosed(q)'
  BY <1>2 DEF NextClosed, PrevClosed
<1>8. Doing(t, q)'
  BY <1>1, <1>2, <1>4, <1>6, <1>7 DEF Doing, Unlinking
<1>9. Ordered(s)'
  BY <1>1, <1>2, <1>4, <1>6, <1>8, SameOrderStep
<1> QED BY <1>1, <1>5, <1>9

\* The new atom is made to point to the head,
LEMMA InsertNextStep ==
  ASSUME Base, NEW s, Ordered(s), NEW t \in Threads, NEW l, call[t].list = l,
         InsertNext(t)
  PROVE  Calls' /\ OneCall' /\ ~segv' /\ Ordered(s)'
<1> DEFINE q == s[l]
<1> PICK h : h = hand[t]
  OBVIOUS
<1>1. /\ pc[t] = "next" /\ ~segv /\ UNCHANGED <<head, prev, fresh, hand, got, call, segv>>
      /\ next' = [next EXCEPT ![h] = head[l]] /\ Goto(t, "prev")
  BY DEF InsertNext, At
<1>2. /\ l \in Lists /\ q # <<>> /\ head[l] = q[1] /\ NextClosed(q) /\ PrevClosed(q)
      /\ \A i \in 1 .. Len(q) : q[i] # h /\ q[i] \in Atoms
  BY <1>1, InCall DEF Doing, Headed
<1>3. h \in Atoms /\ h # NULL /\ call[t].op = "insert"
  BY <1>1, InCall DEF Inserting, Base, Calls
<1>4. Moves(t, l) /\ pc'[t] = "prev"
  BY <1>1, GotoMoves DEF Places
<1>5. Calls' /\ OneCall'
  BY <1>1, <1>2, <1>3, <1>4, CallsKept DEF Inserting, Searching, Unlinking
<1>6. Touches(t, l, s) /\ next'[h] = q[1] /\ \A i \in 1 .. Len(q) : next'[q[i]] = next[q[i]]
  BY <1>1, <1>2, <1>3 DEF Touches, Base, TypeOK
<1>7. NextClosed(q)' /\ PrevClosed(q)'
  BY <1>1, <1>2, <1>6 DEF NextClosed, PrevClosed
<1>8. Doing(t, q)'
  BY <1>1, <1>2, <1>4, <1>6, <1>7 DEF Doing, Unlinking
<1>9. Ordered(s)'
  BY <1>1, <1>2, <1>4, <1>6, <1>8, SameOrderStep
<1> QED BY <1>1, <1>5, <1>9

\* and to the last atom.
LEMMA InsertPrevStep ==
  ASSUME Base, NEW s, Ordered(s), NEW t \in Threads, NEW l, call[t].list = l,
         InsertPrev(t)
  PROVE  Calls' /\ OneCall' /\ ~segv' /\ Ordered(s)'
<1> DEFINE q == s[l]
<1> PICK h : h = hand[t]
  OBVIOUS
<1>1. pc[t] = "prev" /\ ~segv
  BY DEF InsertPrev, At
<1>2. /\ l \in Lists /\ q # <<>> /\ head[l] = q[1] /\ NextClosed(q) /\ PrevClosed(q)
      /\ \A i \in 1 .. Len(q) : q[i] # h /\ q[i] \in Atoms
      /\ Len(q) \in Nat /\ Len(q) # 0 /\ next[h] = q[1]
  <2>1. Doing(t, q) /\ Headed(l, q) /\ q # <<>>
    BY <1>1, InCall DEF Doing
  <2> QED BY <1>1, <2>1, InCall DEF Doing, Headed
<1>3. h \in Atoms /\ h # NULL /\ call[t].op = "insert"
  BY <1>1, InCall DEF Inserting, Base, Calls
<1>4. /\ prev' = [prev EXCEPT ![h] = prev[q[1]]] /\ Goto(t, "link")
      /\ UNCHANGED <<head, next, fresh, hand, got, call, segv>>
  <2>1. head[l] # NULL
    BY <1>2, ConstantsAssumption
  <2> QED BY <1>2, <2>1 DEF InsertPrev, Follow
<1>5. Moves(t, l) /\ pc'[t] = "link"
  BY <1>4, GotoMoves DEF Places
<1>6. Calls' /\ OneCall'
  BY <1>2, <1>3, <1>4, <1>5, CallsKept DEF Inserting, Searching, Unlinking
<1>7. prev[q[1]] = q[Len(q)]
  BY <1>2 DEF PrevClosed, Before
<1>8. /\ Touches(t, l, s) /\ prev'[h] = q[Len(q)]
      /\ \A i \in 1 .. Len(q) : prev'[q[i]] = prev[q[i]]
  BY <1>2, <1>3, <1>4, <1>7 DEF Touches, Base, TypeOK
<1>9. NextClosed(q)' /\ PrevClosed(q)'
  BY <1>2, <1>4, <1>8 DEF NextClosed, PrevClosed
<1>10. Doing(t, q)'
  BY <1>2, <1>4, <1>5, <1>8, <1>9 DEF Doing, Unlinking
<1>11. Ordered(s)'
  BY <1>1, <1>2, <1>4, <1>5, <1>8, <1>10, SameOrderStep
<1> QED BY <1>1, <1>4, <1>6, <1>11

\* The atom goes from the hand to the end of the list.
LEMMA AppendPlaces ==
  ASSUME Base, NEW s, Ordered(s), NEW t \in Threads, NEW l \in Lists, call[t].list = l,
         pc[t] \in Inserting, pc[t] # "last", NEW h, hand[t] = h, Moves(t, l),
         hand'[t] = NULL \/ (hand'[t] = h /\ pc'[t] = "last")
  PROVE  /\ Append(s[l], h) \in Seq(Atoms)
         /\ OnePlace([s EXCEPT ![l] = Append(s[l], h)])'
<1> DEFINE q == s[l]
           z == [s EXCEPT ![l] = Append(q, h)]
<1>1. q \in Seq(Atoms) /\ Len(q) \in Nat /\ h \in Atoms
  BY InCall DEF Inserting
<1>2. /\ Append(q, h) \in Seq(Atoms) /\ Len(Append(q, h)) = Len(q) + 1
      /\ \A i \in 1 .. Len(q) : Append(q, h)[i] = q[i]
      /\ Append(q, h)[Len(q) + 1] = h
  BY <1>1, AppendProperties
<1>3. z[l] = Append(q, h) /\ \A m \in Lists : m # l => z[m] = s[m]
  BY DEF Ordered
<1>4. \A m \in Lists : s[m] \in Seq(Atoms) /\ \A i \in 1 .. Len(s[m]) : s[m][i] \in Atoms
  BY ElementOfSeq DEF Ordered
<1> HIDE DEF z
\* An atom of a list is the one that came in, or was there before.
<1>5. ASSUME NEW m \in Lists, NEW i \in 1 .. Len(z[m])
      PROVE  \/ m = l /\ i = Len(q) + 1 /\ z[m][i] = h
             \/ i \in 1 .. Len(s[m]) /\ z[m][i] = s[m][i]
  BY SMTT(60), <1>1, <1>2, <1>3
<1>6. \A m \in Lists : \A i \in 1 .. Len(s[m]) : s[m][i] # h
  BY DEF Ordered, OnePlace
<1>7. \A m, n \in Lists : \A i \in 1 .. Len(z[m]), j \in 1 .. Len(z[n]) :
        z[m][i] = z[n][j] => m = n /\ i = j
  BY SMTT(60), <1>5, <1>6 DEF Ordered, OnePlace
<1>8. \A m \in Lists : \A i \in 1 .. Len(z[m]) : z[m][i] \notin fresh
  BY <1>5 DEF Ordered, OnePlace
<1>9. \A u \in Threads : hand'[u] = hand[u] \/ (u = t /\ hand'[u] = NULL)
  BY DEF Moves
<1>10. NULL \notin fresh
  BY ConstantsAssumption DEF Base, TypeOK
<1>11. /\ \A u \in Threads : hand'[u] \notin fresh
       /\ \A u, v \in Threads : hand'[u] = hand'[v] => u = v \/ hand'[u] = NULL
  BY <1>9, <1>10 DEF Ordered, OnePlace
<1>12. ASSUME NEW u \in Threads, NEW m \in Lists, NEW i \in 1 .. Len(z[m]), hand'[u] = z[m][i]
       PROVE  pc'[u] = "last" /\ call'[u].list = m /\ i = Len(z[m])
  <2>1. z[m][i] \in Atoms /\ z[m][i] # NULL
    <3>1. \A j \in 1 .. Len(s[m]) : s[m][j] \in Atoms
      BY <1>4
    <3>2. z[m][i] \in Atoms
      BY <1>1, <1>5, <3>1
    <3> QED BY <3>2, ConstantsAssumption
  <2>2. CASE u = t
    <3>1. z[m][i] = h /\ pc'[t] = "last"
      BY <1>12, <2>1, <2>2
    <3>2. m = l /\ i = Len(q) + 1
      BY SMTT(60), <1>5, <1>6, <3>1
    <3> QED BY <1>2, <1>3, <2>2, <3>1, <3>2 DEF Moves
  <2>3. CASE u # t
    <3>1. hand[u] = z[m][i] /\ hand[u] # h
      BY <1>12, <2>1, <2>3 DEF Moves, Ordered, OnePlace
    <3>2. i \in 1 .. Len(s[m]) /\ z[m][i] = s[m][i]
      BY <1>5, <3>1
    <3>3. pc[u] = "last" /\ call[u].list = m /\ i = Len(s[m])
      BY <3>1, <3>2 DEF Ordered, OnePlace
    <3>4. m # l
      BY <2>3, <3>3, ConstantsAssumption DEF Base, OneCall
    <3> QED BY <1>3, <2>3, <3>3, <3>4 DEF Moves
  <2> QED BY <2>2, <2>3
<1>13. OnePlace(z)'
  BY <1>7, <1>8, <1>11, <1>12 DEF OnePlace, Moves
<1> QED BY <1>2, <1>13 DEF z

\* The head is made to point to the first atom of a list.
LEMMA InsertHeadStep ==
  ASSUME Base, NEW s, Ordered(s), NEW t \in Threads, NEW l, call[t].list = l,
         NEW h, hand[t] = h, InsertHead(t)
  PROVE  Calls' /\ OneCall' /\ ~segv' /\ Ordered([s EXCEPT ![l] = Append(s[l], h)])'
<1> DEFINE q == s[l]
<1>1. /\ pc[t] = "head" /\ ~segv /\ UNCHANGED <<next, prev, fresh, got, segv>>
      /\ head' = [head EXCEPT ![l] = h] /\ hand' = [hand EXCEPT ![t] = NULL] /\ Return(t)
  BY DEF InsertHead, At
<1>2. /\ l \in Lists /\ q \in Seq(Atoms) /\ q = <<>> /\ Len(q) = 0
      /\ h \in Atoms /\ next[h] = h /\ prev[h] = h
  BY <1>1, InCall DEF Doing, Inserting
<1>3. /\ Moves(t, l) /\ pc'[t] = "idle" /\ hand'[t] = NULL
      /\ call'[t].list = NULL
  BY <1>1, ReturnMoves
<1>4. Calls' /\ OneCall'
  BY <1>2, <1>3, CallsKept DEF Inserting, Searching, Unlinking
<1>5. Touches(t, l, s) /\ head'[l] = h
  BY <1>1, <1>2 DEF Touches, Base, TypeOK
<1> PICK r : r = Append(q, h)
  OBVIOUS
<1>6. r \in Seq(Atoms) /\ OnePlace([s EXCEPT ![l] = r])'
  BY <1>1, <1>2, <1>3, AppendPlaces DEF Inserting
<1>7. r # <<>> /\ Len(r) = 1 /\ r[1] = h
  BY <1>2, AppendProperties
<1>8. Headed(l, r)' /\ NextClosed(r)' /\ PrevClosed(r)'
  BY <1>1, <1>2, <1>5, <1>7 DEF Headed, NextClosed, PrevClosed, After, Before
<1>9. Ordered([s EXCEPT ![l] = r])'
  BY <1>2, <1>3, <1>5, <1>6, <1>8, OrderedStep
<1> QED BY <1>1, <1>4, <1>9

\* The last atom is made to point to the new one: next is closed over both.
LEMMA InsertLinkStep ==
  ASSUME Base, NEW s, Ordered(s), NEW t \in Threads, NEW l, call[t].list = l,
         NEW h, hand[t] = h, InsertLink(t)
  PROVE  Calls' /\ OneCall' /\ ~segv' /\ Ordered([s EXCEPT ![l] = Append(s[l], h)])'
<1> DEFINE q == s[l]
           n == Len(q)
<1>1. pc[t] = "link" /\ ~segv
  BY DEF InsertLink, At
<1>2. l \in Lists /\ q \in Seq(Atoms) /\ n \in Nat /\ Doing(t, q) /\ Headed(l, q) /\ q # <<>>
  BY <1>1, InCall DEF Doing
<1>3. /\ n # 0 /\ head[l] = q[1] /\ NextClosed(q) /\ PrevClosed(q)
      /\ next[h] = q[1] /\ prev[h] = q[n]
      /\ \A i \in 1 .. n : q[i] # h /\ q[i] \in Atoms
  BY <1>1, <1>2, InCall DEF Doing, Headed
<1>4. h \in Atoms /\ h # NULL /\ call[t].op = "insert"
  BY <1>1, InCall DEF Inserting, Base, Calls
<1>5. prev[q[1]] = q[n]
  BY <1>2, <1>3 DEF PrevClosed, Before
<1>6. /\ next' = [next EXCEPT ![q[n]] = h] /\ Goto(t, "last")
      /\ UNCHANGED <<head, prev, fresh, hand, got, call, segv>>
  <2>1. head[l] # NULL
    BY <1>2, <1>3, ConstantsAssumption
  <2> QED BY <1>3, <1>5, <2>1 DEF InsertLink, Follow
<1>7. Moves(t, l) /\ pc'[t] = "last" /\ hand'[t] = h
  BY <1>6, GotoMoves DEF Places
<1>8. Calls' /\ OneCall'
  BY <1>2, <1>4, <1>6, <1>7, CallsKept DEF Inserting, Searching, Unlinking
<1>9. /\ Touches(t, l, s) /\ next'[q[n]] = h /\ next'[h] = q[1]
      /\ \A i \in 1 .. n - 1 : next'[q[i]] = next[q[i]]
  <2>1. \A i \in 1 .. n - 1 : q[i] # q[n]
    BY <1>2, <1>3 DEF Ordered, OnePlace
  <2>2. n \in 1 .. n
    BY <1>2, <1>3
  <2> QED BY <1>2, <1>3, <1>4, <1>6, <2>1, <2>2 DEF Touches, Base, TypeOK
<1> PICK r : r = Append(q, h)
  OBVIOUS
<1>10. r \in Seq(Atoms) /\ OnePlace([s EXCEPT ![l] = r])'
  BY <1>1, <1>2, <1>7, AppendPlaces DEF Inserting
<1>11. r # <<>> /\ Len(r) = n + 1 /\ r[n + 1] = h /\ \A i \in 1 .. n : r[i] = q[i]
  BY <1>2, <1>4, AppendProperties
<1>12. Headed(l, r)'
  BY <1>2, <1>3, <1>6, <1>11 DEF Headed
<1>13. NextClosed(r)'
  <2>1. ASSUME NEW i \in 1 .. n - 1 PROVE next'[r[i]] = r[i + 1]
    <3>1. next[q[i]] = q[i + 1] /\ i \in 1 .. n /\ i + 1 \in 1 .. n
      BY <1>2, <1>3 DEF NextClosed, After
    <3> QED BY <1>9, <1>11, <3>1
  <2>2. next'[r[n]] = r[n + 1] /\ next'[r[n + 1]] = r[1]
    BY <1>2, <1>3, <1>9, <1>11
  <2> QED BY SMTT(60), <1>2, <1>11, <2>1, <2>2 DEF NextClosed, After
<1>14. prev'[r[1]] = r[n] /\ \A i \in 2 .. n + 1 : prev'[r[i]] = r[i - 1]
  <2>1. ASSUME NEW i \in 2 .. n PROVE prev'[r[i]] = r[i - 1]
    <3>1. prev[q[i]] = q[i - 1] /\ i \in 1 .. n /\ i - 1 \in 1 .. n
      BY <1>2, <1>3 DEF PrevClosed, Before
    <3> QED BY <1>6, <1>11, <3>1
  <2>2. prev'[r[n + 1]] = r[n] /\ prev'[r[1]] = r[n]
    BY SMTT(60), <1>2, <1>3, <1>5, <1>6, <1>11
  <2> QED BY <1>2, <2>1, <2>2
<1>15. Doing(t, r)'
  BY <1>2, <1>3, <1>7, <1>11, <1>13, <1>14 DEF Doing, Unlinking
<1>16. Ordered([s EXCEPT ![l] = r])'
  BY <1>2, <1>7, <1>9, <1>10, <1>12, <1>15, OrderedStep
<1> QED BY <1>1, <1>6, <1>8, <1>16

\* The head is made to point back to the new atom: prev is closed, too.
LEMMA InsertLastStep ==
  ASSUME Base, NEW s, Ordered(s), NEW t \in Threads, NEW l, call[t].list = l,
         InsertLast(t)
  PROVE  Calls' /\ OneCall' /\ ~segv' /\ Ordered(s)'
<1> DEFINE q == s[l]
           n == Len(q)
<1> PICK h : h = hand[t]
  OBVIOUS
<1>1. pc[t] = "last" /\ ~segv
  BY DEF InsertLast, At
<1>2. l \in Lists /\ q \in Seq(Atoms) /\ n \in Nat /\ Doing(t, q) /\ Headed(l, q) /\ q # <<>>
  BY SMTT(60), <1>1, InCall DEF Doing
<1>3. /\ n > 1 /\ head[l] = q[1] /\ NextClosed(q) /\ q[n] = h
      /\ \A i \in 2 .. n : prev[q[i]] = q[i - 1]
      /\ \A i \in 1 .. n : q[i] \in Atoms
  BY <1>1, <1>2, InCall DEF Doing, Headed
<1>4. /\ prev' = [prev EXCEPT ![q[1]] = h] /\ hand' = [hand EXCEPT ![t] = NULL]
      /\ Return(t) /\ UNCHANGED <<head, next, fresh, got, segv>>
  <2>1. head[l] # NULL
    BY <1>2, <1>3, ConstantsAssumption
  <2> QED BY <1>3, <2>1 DEF InsertLast, Follow
<1>5. /\ Moves(t, l) /\ pc'[t] = "idle" /\ hand'[t] = NULL
      /\ call'[t].list = NULL
  BY <1>4, ReturnMoves
<1>6. Calls' /\ OneCall'
  BY <1>2, <1>5, CallsKept DEF Inserting, Searching, Unlinking
<1>7. /\ Touches(t, l, s) /\ prev'[q[1]] = h
      /\ \A i \in 2 .. n : prev'[q[i]] = prev[q[i]]
  <2>1. \A i \in 2 .. n : q[i] # q[1]
    BY <1>2, <1>3 DEF Ordered, OnePlace
  <2> QED BY <1>2, <1>3, <1>4, <2>1 DEF Touches, Base, TypeOK
<1>8. NextClosed(q)'
  BY <1>3, <1>4 DEF NextClosed
<1>9. PrevClosed(q)'
  BY <1>2, <1>3, <1>7 DEF PrevClosed, Before
<1>10. Headed(l, q)'
  BY <1>2, <1>4 DEF Headed
<1>11. OnePlace(s)'
  <2>1. \A u \in Threads : hand'[u] = hand[u] \/ (u = t /\ hand'[u] = NULL)
    BY <1>5 DEF Moves
  <2>2. NULL \notin fresh /\ \A m \in Lists : \A i \in 1 .. Len(s[m]) : s[m][i] # NULL
    BY ElementOfSeq, ConstantsAssumption DEF Base, TypeOK, Ordered
  <2> QED BY <1>5, <2>1, <2>2 DEF Moves, Ordered, OnePlace
<1>12. s = [s EXCEPT ![l] = q]
  BY DEF Ordered
<1>13. Ordered(s)'
  <2>1. OnePlace([s EXCEPT ![l] = q])'
    BY <1>11, <1>12
  <2>2. Ordered([s EXCEPT ![l] = q])'
    BY <1>2, <1>5, <1>7, <1>8, <1>9, <1>10, <2>1, OrderedStep
  <2> QED BY <1>12, <2>2
<1> QED BY <1>1, <1>4, <1>6, <1>13

-----------------------------------------------------------------------------
(* The steps of the searches and of _extract_db. *)

\* A call that only looked returns.
LEMMA FinishStep ==
  ASSUME Base, NEW s, Ordered(s), NEW t \in Threads, NEW l, call[t].list = l,
         pc[t] \in Searching, NEW n, Finish(t, n), UNCHANGED segv
  PROVE  Calls' /\ OneCall' /\ ~segv' /\ Ordered(s)'
<1> DEFINE q == s[l]
<1>1. UNCHANGED <<head, next, prev, fresh, hand, segv>> /\ Return(t)
  BY DEF Finish, ring
<1>2. l \in Lists /\ q \in Seq(Atoms) /\ NextClosed(q) /\ PrevClosed(q)
  BY InCall DEF Doing, Searching
<1>3. hand' = [hand EXCEPT ![t] = hand[t]]
  BY <1>1 DEF Base, TypeOK
<1>4. /\ Moves(t, l) /\ pc'[t] = "idle" /\ hand'[t] = hand[t]
      /\ call'[t].list = NULL
  BY <1>1, <1>3, ReturnMoves
<1>5. Calls' /\ OneCall'
  BY <1>2, <1>4, CallsKept DEF Inserting, Searching, Unlinking
<1>6. Touches(t, l, s) /\ NextClosed(q)' /\ PrevClosed(q)'
  BY <1>1, <1>2 DEF Touches, NextClosed, PrevClosed
<1>7. Ordered(s)'
  BY <1>1, <1>2, <1>4, <1>6, SameOrderStep DEF Searching
<1> QED BY <1>1, <1>5, <1>7 DEF Base

\* So does one that has found what it looked for; _extract_db goes on with it.
LEMMA FoundStep ==
  ASSUME Base, NEW s, Ordered(s), NEW t \in Threads, NEW l, call[t].list = l,
         pc[t] \in Searching, call[t].op # "count",
         NEW k \in 1 .. Len(s[l]), NEW a, a = s[l][k], Found(t, a), UNCHANGED segv,
         call[t].want \in {0, Id[a]},
         \A j \in 1 .. (k - 1) : call[t].want \notin {0, Id[s[l][j]]}
  PROVE  Calls' /\ OneCall' /\ ~segv' /\ Ordered(s)'
<1> DEFINE q == s[l]
<1>1. UNCHANGED <<head, next, prev, fresh, hand, segv>>
  BY DEF Found, ring
<1>2. /\ l \in Lists /\ q \in Seq(Atoms) /\ Len(q) \in Nat /\ (q = <<>> <=> Len(q) = 0)
      /\ NextClosed(q) /\ PrevClosed(q)
  BY InCall DEF Doing, Searching
<1>3. Touches(t, l, s) /\ NextClosed(q)' /\ PrevClosed(q)'
  BY <1>1, <1>2 DEF Touches, NextClosed, PrevClosed
<1>4. CASE call[t].op = "find"
  <2>1. Return(t) /\ hand' = [hand EXCEPT ![t] = hand[t]]
    BY <1>1, <1>4 DEF Found, Base, TypeOK
  <2>2. /\ Moves(t, l) /\ pc'[t] = "idle" /\ hand'[t] = hand[t]
        /\ call'[t].list = NULL
    BY <1>1, <2>1, ReturnMoves
  <2>3. Calls' /\ OneCall'
    BY <1>2, <2>2, CallsKept DEF Inserting, Searching, Unlinking
  <2>4. Ordered(s)'
    BY <1>1, <1>2, <1>3, <2>2, SameOrderStep DEF Searching
  <2> QED BY <1>1, <2>3, <2>4 DEF Base
<1>5. CASE call[t].op # "find"
  <2>1. call[t].op = "extract" /\ hand[t] = NULL
    BY <1>5 DEF Base, Calls
  <2>2. Goto(t, "unnext") /\ call' = [call EXCEPT ![t].atom = a]
    BY <1>5 DEF Found
  <2>3. /\ pc'[t] = "unnext" /\ \A u \in Threads : u # t => pc'[u] = pc[u] /\ call'[u] = call[u]
        /\ call'[t].atom = a /\ call'[t].list = l /\ call'[t].op = call[t].op
        /\ call'[t].want = call[t].want
    BY <2>2 DEF Goto, Base, TypeOK
  <2>4. Moves(t, l) /\ hand'[t] = hand[t]
    BY <1>1, <2>3 DEF Moves
  <2>5. Calls' /\ OneCall'
    BY <1>2, <2>1, <2>3, <2>4, CallsKept DEF Inserting, Searching, Unlinking
  <2>6. Chosen(t, q, k)'
    BY <2>3 DEF Chosen
  <2>7. q # <<>>
    BY <1>2
  <2>8. Doing(t, q)'
    BY <1>3, <2>3, <2>6, <2>7 DEF Doing, Unlinking
  <2>9. Ordered(s)'
    BY <1>1, <1>2, <1>3, <2>3, <2>4, <2>8, SameOrderStep DEF Searching
  <2> QED BY <1>1, <2>5, <2>9 DEF Base
<1> QED BY <1>4, <1>5

\* A search or a count starts from the head.
LEMMA EnterStep ==
  ASSUME Base, NEW s, Ordered(s), NEW t \in Threads, NEW l, call[t].list = l, Enter(t)
  PROVE  Calls' /\ OneCall' /\ ~segv' /\ Ordered(s)'
<1> DEFINE q == s[l]
<1>1. pc[t] = "enter" /\ pc[t] \in Searching /\ ~segv /\ UNCHANGED segv
  BY DEF Enter, At, Searching
<1>2. /\ l \in Lists /\ q \in Seq(Atoms) /\ Len(q) \in Nat /\ (q = <<>> <=> Len(q) = 0)
      /\ NextClosed(q) /\ PrevClosed(q) /\ Headed(l, q)
      /\ \A i \in 1 .. Len(q) : q[i] \in Atoms
  BY <1>1, InCall DEF Doing
<1>3. CASE head[l] = NULL
  BY <1>1, <1>3, FinishStep DEF Enter
<1>4. CASE head[l] # NULL /\ call[t].op # "count" /\ call[t].want = 0
  <2>1. head[l] = q[1] /\ 1 \in 1 .. Len(q)
    BY <1>2, <1>4 DEF Headed
  <2>2. Found(t, head[l])
    BY <1>4 DEF Enter
  <2>3. \A j \in 1 .. (1 - 1) : call[t].want \notin {0, Id[q[j]]}
    OBVIOUS
  <2> QED BY <1>1, <1>4, <2>1, <2>2, <2>3, FoundStep
<1>5. CASE head[l] # NULL /\ ~(call[t].op # "count" /\ call[t].want = 0)
  <2>1. head[l] = q[1] /\ 1 \in 1 .. Len(q) /\ q # <<>>
    BY <1>2, <1>5 DEF Headed
  <2>2. /\ call' = [call EXCEPT ![t].db = q[1], ![t].atom = q[1]] /\ Goto(t, "walk")
        /\ UNCHANGED <<head, next, prev, fresh, hand>>
    BY <1>5, <2>1 DEF Enter, ring
  <2>3. /\ pc'[t] = "walk" /\ \A u \in Threads : u # t => pc'[u] = pc[u] /\ call'[u] = call[u]
        /\ call'[t].atom = q[1] /\ call'[t].db = q[1] /\ call'[t].list = l
        /\ call'[t].op = call[t].op /\ call'[t].want = call[t].want
        /\ call'[t].count = call[t].count
    BY <2>2 DEF Goto, Base, TypeOK
  <2>4. Moves(t, l) /\ hand'[t] = hand[t]
    BY <2>2, <2>3 DEF Moves
  <2>5. call[t].op \in {"extract", "find", "count"} /\ hand[t] = NULL
    BY <1>1 DEF Base, Calls
  <2>6. Calls' /\ OneCall'
    BY <1>2, <2>3, <2>4, <2>5, CallsKept DEF Inserting, Searching, Unlinking
  <2>7. Touches(t, l, s) /\ NextClosed(q)' /\ PrevClosed(q)'
    BY <1>2, <2>2 DEF Touches, NextClosed, PrevClosed
  <2>8. Doing(t, q)'
    <3>1. call[t].count = 0
      BY <1>1, InCall DEF Doing
    <3> QED BY <1>5, <2>1, <2>3, <2>7, <3>1 DEF Doing, Unlinking
  <2>9. Ordered(s)'
    BY <1>1, <1>2, <2>2, <2>3, <2>4, <2>7, <2>8, SameOrderStep
  <2> QED BY <1>1, <2>6, <2>9
<1> QED BY <1>3, <1>4, <1>5

\* Where a walk is, and what it has passed.
Walked(t, q, k) ==
  /\ call[t].atom = q[k]
  /\ call[t].op = "count" => call[t].count = k - 1
  /\ call[t].op # "count" => \A j \in 1 .. (k - 1) : Id[q[j]] # call[t].want

\* What a round of the loop finds: the atom, the end of the ring, or neither.
LEMMA WalkCases ==
  ASSUME Base, NEW s, Ordered(s), NEW t \in Threads, NEW l, call[t].list = l, Walk(t)
  PROVE  \E k \in 1 .. Len(s[l]) :
           /\ Walked(t, s[l], k) /\ UNCHANGED segv
           /\ \/ Wanted(t) /\ Found(t, s[l][k])
              \/ ~Wanted(t) /\ k = Len(s[l]) /\ Finish(t, Counted(t))
              \/ /\ ~Wanted(t) /\ k < Len(s[l])
                 /\ call' = [call EXCEPT ![t].atom = s[l][k + 1], ![t].count =
                               IF call[t].op = "count" THEN Counted(t) ELSE 0]
                 /\ UNCHANGED <<ring, fresh, hand, got, pc>>
<1> DEFINE q == s[l]
           n == Len(q)
<1>1. pc[t] = "walk"
  BY DEF Walk, At
<1>2. /\ l \in Lists /\ n \in Nat /\ NextClosed(q) /\ Doing(t, q)
      /\ \A i \in 1 .. n : q[i] \in Atoms
  BY SMTT(60), <1>1, InCall DEF Doing
<1>3. PICK k \in 1 .. n : Walked(t, q, k)
  BY <1>1, <1>2 DEF Doing, Walked
<1>4. call[t].db = q[1] /\ call[t].atom = q[k] /\ q[k] # NULL
  BY <1>1, <1>2, <1>3, ConstantsAssumption DEF Doing, Walked
<1>5. next[q[k]] = q[After(n, k)]
  BY <1>2 DEF NextClosed
<1>6. Around(t) <=> k = n
  <2>1. CASE k = n
    BY <1>4, <1>5, <2>1 DEF After, Around
  <2>2. CASE k # n
    <3>1. next[q[k]] = q[k + 1] /\ k + 1 \in 1 .. n /\ 1 \in 1 .. n /\ k + 1 # 1
      BY <1>2, <1>5, <2>2 DEF After
    <3>2. q[k + 1] # q[1]
      BY <1>2, <3>1 DEF Ordered, OnePlace
    <3> QED BY <1>4, <2>2, <3>1, <3>2 DEF Around
  <2> QED BY <2>1, <2>2
<1>7. UNCHANGED segv
  BY <1>4 DEF Walk, Follow
<1>8. \/ Wanted(t) /\ Found(t, q[k])
      \/ ~Wanted(t) /\ Around(t) /\ Finish(t, Counted(t))
      \/ /\ ~Wanted(t) /\ ~Around(t)
         /\ call' = [call EXCEPT ![t].atom = next[@], ![t].count =
                       IF call[t].op = "count" THEN Counted(t) ELSE 0]
         /\ UNCHANGED <<ring, fresh, hand, got, pc>>
  BY <1>4 DEF Walk, Follow
<1>9. CASE Wanted(t) /\ Found(t, q[k])
  BY <1>3, <1>7, <1>9
<1>10. CASE ~Wanted(t) /\ Around(t) /\ Finish(t, Counted(t))
  BY <1>3, <1>6, <1>7, <1>10
<1>11. CASE /\ ~Wanted(t) /\ ~Around(t)
            /\ call' = [call EXCEPT ![t].atom = next[@], ![t].count =
                          IF call[t].op = "count" THEN Counted(t) ELSE 0]
            /\ UNCHANGED <<ring, fresh, hand, got, pc>>
  <2>1. k < n /\ next[call[t].atom] = q[k + 1]
    BY <1>2, <1>4, <1>5, <1>6, <1>11 DEF After
  <2>2. call' = [call EXCEPT ![t].atom = q[k + 1], ![t].count =
                   IF call[t].op = "count" THEN Counted(t) ELSE 0]
    BY <1>11, <2>1
  <2> QED BY <1>3, <1>7, <1>11, <2>1, <2>2
<1> QED BY <1>8, <1>9, <1>10, <1>11

\* A list has no more atoms than there are.
LEMMA LengthBound ==
  ASSUME NEW s, Ordered(s), NEW l \in Lists
  PROVE  Len(s[l]) \in Nat /\ Len(s[l]) <= Cardinality(Atoms) /\ Cardinality(Atoms) \in Nat
<1> DEFINE q == s[l]
           n == Len(q)
<1>1. q \in Seq(Atoms) /\ n \in Nat /\ q \in [1 .. n -> Atoms]
  BY LenProperties DEF Ordered
<1>2. q \in Injection(1 .. n, Atoms)
  BY <1>1 DEF Ordered, OnePlace, Injection, IsInjective
<1>3. Cardinality(1 .. n) <= Cardinality(Atoms)
  BY <1>2, FS_Injection, ConstantsAssumption
<1>4. Cardinality(1 .. n) = n
  BY <1>1, FS_Interval
<1> QED BY <1>1, <1>3, <1>4, FS_CardinalityType, ConstantsAssumption

\* A round of the loop passes one atom.
LEMMA WalkStep ==
  ASSUME Base, NEW s, Ordered(s), NEW t \in Threads, NEW l, call[t].list = l, Walk(t)
  PROVE  Calls' /\ OneCall' /\ ~segv' /\ Ordered(s)'
<1> DEFINE q == s[l]
           n == Len(q)
<1>1. pc[t] = "walk" /\ pc[t] \in Searching /\ ~segv
  BY DEF Walk, At, Searching
<1>2. /\ l \in Lists /\ q \in Seq(Atoms) /\ n \in Nat /\ Doing(t, q)
      /\ NextClosed(q) /\ PrevClosed(q) /\ q # <<>>
      /\ call[t].db = q[1] /\ (call[t].op # "count" => call[t].want # 0)
  BY SMTT(60), <1>1, InCall DEF Doing
<1>3. PICK k \in 1 .. n :
        /\ Walked(t, q, k) /\ UNCHANGED segv
        /\ \/ Wanted(t) /\ Found(t, q[k])
           \/ ~Wanted(t) /\ k = n /\ Finish(t, Counted(t))
           \/ /\ ~Wanted(t) /\ k < n
              /\ call' = [call EXCEPT ![t].atom = q[k + 1], ![t].count =
                            IF call[t].op = "count" THEN Counted(t) ELSE 0]
              /\ UNCHANGED <<ring, fresh, hand, got, pc>>
  BY ZenonT(60), WalkCases
<1>4. CASE Wanted(t) /\ Found(t, q[k])
  <2>1. /\ call[t].op # "count" /\ call[t].want = Id[q[k]]
        /\ \A j \in 1 .. (k - 1) : call[t].want \notin {0, Id[q[j]]}
    BY <1>2, <1>3, <1>4 DEF Wanted, Walked
  <2> QED BY <1>1, <1>3, <1>4, <2>1, FoundStep
<1>5. CASE ~Wanted(t) /\ k = n /\ Finish(t, Counted(t))
  BY <1>1, <1>3, <1>5, FinishStep
<1>6. CASE /\ ~Wanted(t) /\ k < n
           /\ call' = [call EXCEPT ![t].atom = q[k + 1], ![t].count =
                         IF call[t].op = "count" THEN Counted(t) ELSE 0]
           /\ UNCHANGED <<ring, fresh, hand, got, pc>>
  <2>1. UNCHANGED <<head, next, prev, fresh, hand, pc>>
    BY <1>6 DEF ring
  <2>2. /\ \A u \in Threads : u # t => call'[u] = call[u]
        /\ call'[t].atom = q[k + 1] /\ call'[t].db = q[1] /\ call'[t].list = l
        /\ call'[t].op = call[t].op /\ call'[t].want = call[t].want
        /\ call'[t].count = IF call[t].op = "count" THEN Counted(t) ELSE 0
    BY <1>2, <1>6 DEF Base, TypeOK
  <2>3. Moves(t, l) /\ hand'[t] = hand[t]
    BY <1>1, <2>1, <2>2 DEF Moves
  <2>4. call[t].op \in {"extract", "find", "count"} /\ hand[t] = NULL
    BY <1>1 DEF Base, Calls
  <2>5. Calls' /\ OneCall'
    BY <1>1, <1>2, <2>1, <2>2, <2>3, <2>4, CallsKept DEF Inserting, Searching, Unlinking
  <2>6. Touches(t, l, s) /\ NextClosed(q)' /\ PrevClosed(q)'
    BY <1>2, <2>1 DEF Touches, NextClosed, PrevClosed
  <2>7. k + 1 \in 1 .. n /\ Walked(t, q, k + 1)'
    <3>1. call[t].op = "count" => Counted(t) = k
      BY <1>2, <1>3, <1>6, LengthBound, ConstantsAssumption DEF Counted, Walked
    <3>2. call[t].op # "count" => \A j \in 1 .. k : Id[q[j]] # call[t].want
      <4>1. call[t].op # "count" => Id[q[k]] # call[t].want
        BY <1>3, <1>6 DEF Wanted, Walked
      <4>2. \A j \in 1 .. k : j = k \/ j \in 1 .. (k - 1)
        BY <1>2
      <4> QED BY <1>3, <4>1, <4>2 DEF Walked
    <3>3. k + 1 \in 1 .. n /\ (k + 1) - 1 = k
      BY <1>2, <1>6
    <3> QED BY <2>2, <3>1, <3>2, <3>3 DEF Walked
  <2>8. Doing(t, q)'
    BY <1>1, <1>2, <2>1, <2>2, <2>6, <2>7 DEF Doing, Unlinking, Walked
  <2>9. Ordered(s)'
    BY <1>1, <1>2, <2>1, <2>3, <2>6, <2>8, SameOrderStep
  <2> QED BY <1>1, <1>3, <2>5, <2>9
<1> QED BY <1>3, <1>4, <1>5, <1>6

\* Going round a ring of n past place k is going round the ring without it.
Skip(k, i) == IF i < k THEN i ELSE i + 1

\* The neighbours in the smaller ring.
LEMMA Skipping ==
  ASSUME NEW n \in Nat, NEW k \in 1 .. n, NEW i \in 1 .. n - 1
  PROVE  /\ Skip(k, i) \in 1 .. n /\ Skip(k, i) # k
         /\ After(n - 1, i) \in 1 .. n - 1 /\ Before(n - 1, i) \in 1 .. n - 1
         /\ Skip(k, After(n - 1, i)) =
              IF Skip(k, i) = Before(n, k) THEN After(n, k) ELSE After(n, Skip(k, i))
         /\ Skip(k, Before(n - 1, i)) =
              IF Skip(k, i) = After(n, k) THEN Before(n, k) ELSE Before(n, Skip(k, i))
BY DEF Skip, After, Before

\* The neighbours of a place.
LEMMA Neighbours ==
  ASSUME NEW n \in Nat, NEW k \in 1 .. n
  PROVE  /\ After(n, k) \in 1 .. n /\ Before(n, k) \in 1 .. n
         /\ (k = Before(n, k) => n = 1 /\ After(n, k) = k)
         /\ (k = After(n, k) => n = 1 /\ Before(n, k) = k)
         /\ 1 \in 1 .. n /\ n # 0
BY DEF After, Before

\* The first places of a ring of two or more.
LEMMA TwoOrMore ==
  ASSUME NEW n \in Nat, n # 0, n # 1
  PROVE  n - 1 \in Nat \ {0} /\ 1 \in 1 .. n - 1 /\ 1 \in 1 .. n /\ 2 \in 1 .. n /\ After(n, 1) = 2
BY DEF After

\* The atom before the one found is made to pass over it,
LEMMA UnlinkNextStep ==
  ASSUME Base, NEW s, Ordered(s), NEW t \in Threads, NEW l, call[t].list = l, UnlinkNext(t)
  PROVE  Calls' /\ OneCall' /\ ~segv' /\ Ordered(s)'
<1> DEFINE q == s[l]
           n == Len(q)
<1>1. /\ pc[t] = "unnext" /\ ~segv /\ Goto(t, "unprev")
      /\ next' = [next EXCEPT ![prev[call[t].atom]] = next[call[t].atom]]
      /\ UNCHANGED <<head, prev, fresh, hand, call, segv>>
  BY DEF UnlinkNext, At
<1>2. /\ l \in Lists /\ q \in Seq(Atoms) /\ n \in Nat /\ Doing(t, q)
      /\ NextClosed(q) /\ PrevClosed(q) /\ q # <<>>
      /\ \A i \in 1 .. n : q[i] \in Atoms
  BY <1>1, InCall DEF Doing
<1>3. PICK k \in 1 .. n : Chosen(t, q, k)
  BY <1>1, <1>2 DEF Doing, Unlinking
<1>4. /\ Before(n, k) \in 1 .. n /\ After(n, k) \in 1 .. n
      /\ next' = [next EXCEPT ![q[Before(n, k)]] = q[After(n, k)]]
  <2>1. call[t].atom = q[k] /\ next[q[k]] = q[After(n, k)] /\ prev[q[k]] = q[Before(n, k)]
    BY <1>2, <1>3 DEF Chosen, NextClosed, PrevClosed
  <2> QED BY <1>1, <1>2, <1>3, <2>1, Neighbours
<1>5. Moves(t, l) /\ pc'[t] = "unprev" /\ hand'[t] = hand[t]
  BY <1>1, GotoMoves DEF Places
<1>6. call[t].op = "extract" /\ hand[t] = NULL
  BY <1>1 DEF Base, Calls, Unlinking
<1>7. Calls' /\ OneCall'
  BY <1>1, <1>2, <1>5, <1>6, CallsKept DEF Inserting, Searching, Unlinking
<1>8. Touches(t, l, s)
  BY <1>1, <1>2, <1>4 DEF Touches, Base, TypeOK
<1>9. NextPasses(q, k)'
  <2>1. \A i \in 1 .. n : q[i] = q[Before(n, k)] => i = Before(n, k)
    BY <1>2, <1>4 DEF Ordered, OnePlace
  <2>2. \A i \in 1 .. n : next'[q[i]] = IF i = Before(n, k) THEN q[After(n, k)] ELSE next[q[i]]
    BY <1>2, <1>4, <2>1 DEF Base, TypeOK
  <2> QED BY <1>2, <2>2 DEF NextPasses, NextClosed
<1>10. PrevClosed(q)' /\ Chosen(t, q, k)'
  BY <1>1, <1>2, <1>3 DEF PrevClosed, Chosen
<1>11. Doing(t, q)'
  BY <1>2, <1>5, <1>9, <1>10 DEF Doing, Unlinking
<1>12. Ordered(s)'
  BY <1>1, <1>2, <1>5, <1>8, <1>11, SameOrderStep
<1> QED BY <1>1, <1>7, <1>12

\* and the atom after it, too.
LEMMA UnlinkPrevStep ==
  ASSUME Base, NEW s, Ordered(s), NEW t \in Threads, NEW l, call[t].list = l, UnlinkPrev(t)
  PROVE  Calls' /\ OneCall' /\ ~segv' /\ Ordered(s)'
<1> DEFINE q == s[l]
           n == Len(q)
<1>1. pc[t] = "unprev" /\ ~segv
  BY DEF UnlinkPrev, At
<1>2. /\ l \in Lists /\ q \in Seq(Atoms) /\ n \in Nat /\ Doing(t, q)
      /\ PrevClosed(q) /\ q # <<>>
      /\ \A i \in 1 .. n : q[i] \in Atoms
  BY <1>1, InCall DEF Doing
<1>3. PICK k \in 1 .. n : Chosen(t, q, k) /\ NextPasses(q, k)
  BY <1>1, <1>2 DEF Doing, Unlinking
<1>4. /\ Before(n, k) \in 1 .. n /\ After(n, k) \in 1 .. n
      /\ (k = Before(n, k) => n = 1 /\ After(n, k) = k)
  BY <1>2, <1>3, Neighbours
<1>5. /\ call[t].atom = q[k] /\ next[q[k]] = q[After(n, k)] /\ prev[q[k]] = q[Before(n, k)]
      /\ next[q[k]] # NULL
  <2>1. next[q[k]] = q[After(n, k)]
    BY <1>3, <1>4 DEF NextPasses
  <2>2. q[After(n, k)] # NULL
    BY <1>2, <1>4, ConstantsAssumption
  <2> QED BY <1>2, <1>3, <2>1, <2>2 DEF Chosen, PrevClosed
<1>6. /\ prev' = [prev EXCEPT ![q[After(n, k)]] = q[Before(n, k)]] /\ Goto(t, "unhead")
      /\ UNCHANGED <<head, next, fresh, hand, call, segv>>
  BY <1>5 DEF UnlinkPrev, Follow
<1>7. Moves(t, l) /\ pc'[t] = "unhead" /\ hand'[t] = hand[t]
  BY <1>6, GotoMoves DEF Places
<1>8. call[t].op = "extract" /\ hand[t] = NULL
  BY <1>1 DEF Base, Calls, Unlinking
<1>9. Calls' /\ OneCall'
  BY <1>2, <1>6, <1>7, <1>8, CallsKept DEF Inserting, Searching, Unlinking
<1>10. Touches(t, l, s)
  BY <1>2, <1>4, <1>6 DEF Touches, Base, TypeOK
<1>11. PrevPasses(q, k)'
  <2>1. \A i \in 1 .. n : q[i] = q[After(n, k)] => i = After(n, k)
    BY <1>2, <1>4 DEF Ordered, OnePlace
  <2>2. \A i \in 1 .. n : prev'[q[i]] = IF i = After(n, k) THEN q[Before(n, k)] ELSE prev[q[i]]
    BY <1>2, <1>4, <1>6, <2>1 DEF Base, TypeOK
  <2> QED BY <1>2, <2>2 DEF PrevPasses, PrevClosed
<1>12. NextPasses(q, k)' /\ Chosen(t, q, k)'
  BY <1>3, <1>6 DEF NextPasses, Chosen
<1>13. Doing(t, q)'
  BY <1>2, <1>7, <1>11, <1>12 DEF Doing, Unlinking
<1>14. Ordered(s)'
  BY <1>1, <1>2, <1>6, <1>7, <1>10, <1>13, SameOrderStep
<1> QED BY <1>1, <1>6, <1>9, <1>14

\* The list without place k.
LEMMA RemoveSkips ==
  ASSUME NEW S, NEW q, Listing(q, S), NEW k \in 1 .. Len(q)
  PROVE  /\ RemoveAt(q, k) \in Seq(S) /\ Len(RemoveAt(q, k)) = Len(q) - 1
         /\ \A i \in 1 .. Len(q) - 1 : RemoveAt(q, k)[i] = q[Skip(k, i)]
<1>1. /\ Listing(RemoveAt(q, k), S) /\ Len(RemoveAt(q, k)) = Len(q) - 1
      /\ \A i \in 1 .. Len(q) - 1 : RemoveAt(q, k)[i] = IF i < k THEN q[i] ELSE q[i + 1]
  BY RemoveListing
<1>2. ASSUME NEW i \in 1 .. Len(q) - 1 PROVE RemoveAt(q, k)[i] = q[Skip(k, i)]
  <2>1. CASE i < k
    BY <1>1, <2>1 DEF Skip
  <2>2. CASE ~(i < k)
    BY <1>1, <2>2 DEF Skip
  <2> QED BY <2>1, <2>2
<1> QED BY <1>1, <1>2 DEF Listing

\* The atom goes from its list to the hand.
LEMMA RemovePlaces ==
  ASSUME Base, NEW s, Ordered(s), NEW t \in Threads, NEW l \in Lists, call[t].list = l,
         NEW k \in 1 .. Len(s[l]), Moves(t, l), hand[t] = NULL, hand'[t] = s[l][k]
  PROVE  /\ RemoveAt(s[l], k) \in Seq(Atoms) /\ Len(RemoveAt(s[l], k)) = Len(s[l]) - 1
         /\ \A i \in 1 .. Len(s[l]) - 1 : RemoveAt(s[l], k)[i] = s[l][Skip(k, i)]
         /\ OnePlace([s EXCEPT ![l] = RemoveAt(s[l], k)])'
<1> DEFINE q == s[l]
<1>0. PICK r : r = RemoveAt(q, k)
  OBVIOUS
<1> DEFINE z == [s EXCEPT ![l] = r]
<1>1. q \in Seq(Atoms) /\ Len(q) \in Nat /\ DOMAIN q = 1 .. Len(q)
  BY LenProperties DEF Ordered
<1>2. Listing(q, Atoms)
  BY <1>1 DEF Listing, IsInjective, Ordered, OnePlace
<1>3. /\ r \in Seq(Atoms) /\ Len(r) = Len(q) - 1
      /\ \A i \in 1 .. Len(q) - 1 : r[i] = q[Skip(k, i)]
  <2>1. RemoveAt(q, k) \in Seq(Atoms) /\ Len(RemoveAt(q, k)) = Len(q) - 1
    BY <1>2, RemoveSkips
  <2>2. \A i \in 1 .. Len(q) - 1 : RemoveAt(q, k)[i] = q[Skip(k, i)]
    BY SMTT(60), <1>2, RemoveSkips
  <2> QED BY <1>0, <2>1, <2>2
<1>4. z[l] = r /\ \A m \in Lists : m # l => z[m] = s[m]
  BY DEF Ordered
<1>5. \A m \in Lists : s[m] \in Seq(Atoms) /\ \A i \in 1 .. Len(s[m]) : s[m][i] \in Atoms
  BY ElementOfSeq DEF Ordered
<1> HIDE DEF z
<1>6. ASSUME NEW m \in Lists, NEW i \in 1 .. Len(z[m])
      PROVE  \E j \in 1 .. Len(s[m]) :
               /\ z[m][i] = s[m][j] /\ (m = l => j = Skip(k, i) /\ j # k) /\ (m # l => j = i)
  <2>1. CASE m = l
    <3>1. i \in 1 .. Len(q) - 1 /\ z[m][i] = q[Skip(k, i)]
      BY <1>1, <1>3, <1>4, <2>1
    <3>2. Skip(k, i) \in 1 .. Len(q) /\ Skip(k, i) # k
      BY <1>1, <3>1, Skipping
    <3> QED BY <2>1, <3>1, <3>2
  <2>2. CASE m # l
    BY <1>4, <2>2
  <2> QED BY <2>1, <2>2
<1>7. ASSUME NEW m \in Lists, NEW o \in Lists,
             NEW i \in 1 .. Len(z[m]), NEW j \in 1 .. Len(z[o]), z[m][i] = z[o][j]
      PROVE  m = o /\ i = j
  <2>1. PICK x \in 1 .. Len(s[m]) : z[m][i] = s[m][x] /\ (m = l => x = Skip(k, i)) /\ (m # l => x = i)
    BY SMTT(60), <1>6
  <2>2. PICK y \in 1 .. Len(s[o]) : z[o][j] = s[o][y] /\ (o = l => y = Skip(k, j)) /\ (o # l => y = j)
    BY SMTT(60), <1>6
  <2>3. m = o /\ x = y
    <3>1. s[m][x] = s[o][y]
      BY <1>7, <2>1, <2>2
    <3> QED BY SMTT(60), <3>1 DEF Ordered, OnePlace
  <2>4. CASE m = l
    BY <1>1, <1>3, <1>4, <2>1, <2>2, <2>3, <2>4 DEF Skip
  <2> QED BY <2>1, <2>2, <2>3, <2>4
<1>8. \A m \in Lists : \A i \in 1 .. Len(z[m]) : z[m][i] \notin fresh
  BY <1>6 DEF Ordered, OnePlace
<1>9. \A u \in Threads : hand'[u] = IF u = t THEN q[k] ELSE hand[u]
  BY DEF Moves
<1>10. /\ \A u \in Threads : hand'[u] \notin fresh
       /\ \A u \in Threads : u # t => hand[u] # q[k]
  <2>1. \A u \in Threads : hand[u] = q[k] => u = t
    BY SMTT(60), ConstantsAssumption DEF Base, OneCall, Ordered, OnePlace
  <2> QED BY SMTT(60), <1>9, <2>1 DEF Ordered, OnePlace
<1>11. \A u, v \in Threads : hand'[u] = hand'[v] => u = v \/ hand'[u] = NULL
  BY <1>9, <1>10 DEF Ordered, OnePlace
<1>12. ASSUME NEW u \in Threads, NEW m \in Lists, NEW i \in 1 .. Len(z[m]), hand'[u] = z[m][i]
       PROVE  pc'[u] = "last" /\ call'[u].list = m /\ i = Len(z[m])
  <2>1. PICK j \in 1 .. Len(s[m]) :
          /\ z[m][i] = s[m][j] /\ (m = l => j = Skip(k, i) /\ j # k) /\ (m # l => j = i)
    BY <1>6
  <2>2. u # t
    BY <1>9, <1>12, <2>1 DEF Ordered, OnePlace
  <2>3. pc[u] = "last" /\ call[u].list = m /\ j = Len(s[m])
    BY <1>9, <1>12, <2>1, <2>2 DEF Ordered, OnePlace
  <2>4. m # l
    BY <2>2, <2>3, ConstantsAssumption DEF Base, OneCall
  <2> QED BY <1>4, <2>1, <2>2, <2>3, <2>4 DEF Moves
<1>13. OnePlace(z)'
  BY <1>7, <1>8, <1>10, <1>11, <1>12 DEF OnePlace, Moves
<1> QED BY <1>0, <1>3, <1>13 DEF z

\* The head passes over it as well: the ring without it is closed both ways.
LEMMA UnlinkHeadStep ==
  ASSUME Base, NEW s, Ordered(s), NEW t \in Threads, NEW l, call[t].list = l, UnlinkHead(t)
  PROVE  /\ Calls' /\ OneCall' /\ ~segv'
         /\ \E k \in 1 .. Len(s[l]) :
              /\ Chosen(t, s[l], k) /\ NextPasses(s[l], k)
              /\ hand' = [hand EXCEPT ![t] = s[l][k]]
              /\ Ordered([s EXCEPT ![l] = RemoveAt(s[l], k)])'
<1> DEFINE q == s[l]
           n == Len(q)
<1>1. /\ pc[t] = "unhead" /\ ~segv /\ Return(t)
      /\ head' = [head EXCEPT ![l] =
                    IF @ = call[t].atom THEN AfterHead(call[t].atom) ELSE @]
      /\ hand' = [hand EXCEPT ![t] = call[t].atom]
      /\ UNCHANGED <<next, prev, fresh, segv>>
  BY DEF UnlinkHead, At
<1>2. /\ l \in Lists /\ q \in Seq(Atoms) /\ n \in Nat /\ Doing(t, q)
      /\ q # <<>> /\ head[l] = q[1] /\ n # 0
      /\ \A i \in 1 .. n : q[i] \in Atoms
  <2>1. Doing(t, q) /\ Headed(l, q) /\ q # <<>>
    BY <1>1, InCall DEF Doing
  <2> QED BY <1>1, <2>1, InCall DEF Headed
<1>3. PICK k \in 1 .. n : Chosen(t, q, k) /\ NextPasses(q, k) /\ PrevPasses(q, k)
  BY <1>1, <1>2 DEF Doing, Unlinking
<1>4. call[t].atom = q[k] /\ hand' = [hand EXCEPT ![t] = q[k]]
  BY <1>1, <1>3 DEF Chosen
<1>5. /\ Moves(t, l) /\ pc'[t] = "idle" /\ hand'[t] = q[k] /\ call'[t].list = NULL
  BY <1>1, <1>4, ReturnMoves
<1>6. Calls' /\ OneCall'
  BY <1>2, <1>5, CallsKept DEF Inserting, Searching, Unlinking
<1>7. Touches(t, l, s)
  BY <1>1 DEF Touches
<1>0. PICK r : r = RemoveAt(q, k)
  OBVIOUS
<1>8. /\ r \in Seq(Atoms) /\ Len(r) = n - 1 /\ \A i \in 1 .. n - 1 : r[i] = q[Skip(k, i)]
      /\ OnePlace([s EXCEPT ![l] = r])'
  <2>1. hand[t] = NULL
    BY <1>1 DEF Base, Calls, Unlinking
  <2>2. k \in 1 .. Len(s[l]) /\ hand'[t] = s[l][k]
    BY <1>3, <1>5
  <2>3. /\ RemoveAt(s[l], k) \in Seq(Atoms) /\ Len(RemoveAt(s[l], k)) = Len(s[l]) - 1
        /\ \A i \in 1 .. Len(s[l]) - 1 : RemoveAt(s[l], k)[i] = s[l][Skip(k, i)]
        /\ OnePlace([s EXCEPT ![l] = RemoveAt(s[l], k)])'
    BY SMTT(60), <1>2, <1>5, <2>1, <2>2, RemovePlaces
  <2> QED BY <1>0, <2>3
<1>9. NextClosed(r)' /\ PrevClosed(r)'
  <2>1. ASSUME NEW i \in 1 .. n - 1
        PROVE  next[r[i]] = r[After(n - 1, i)] /\ prev[r[i]] = r[Before(n - 1, i)]
    <3> DEFINE j == Skip(k, i)
    <3>1. /\ j \in 1 .. n /\ After(n - 1, i) \in 1 .. n - 1 /\ Before(n - 1, i) \in 1 .. n - 1
          /\ Skip(k, After(n - 1, i)) = IF j = Before(n, k) THEN After(n, k) ELSE After(n, j)
          /\ Skip(k, Before(n - 1, i)) = IF j = After(n, k) THEN Before(n, k) ELSE Before(n, j)
      <4> HIDE DEF n
      <4> QED BY <1>2, <1>3, Skipping
    <3>2. /\ r[i] = q[j] /\ r[After(n - 1, i)] = q[Skip(k, After(n - 1, i))]
          /\ r[Before(n - 1, i)] = q[Skip(k, Before(n - 1, i))]
      <4>1. \A m \in 1 .. n - 1 : r[m] = q[Skip(k, m)]
        BY <1>8
      <4>2. r[i] = q[j]
        BY <4>1
      <4> HIDE DEF j, n
      <4>3. r[After(n - 1, i)] = q[Skip(k, After(n - 1, i))]
        BY <3>1, <4>1
      <4>4. r[Before(n - 1, i)] = q[Skip(k, Before(n - 1, i))]
        BY <3>1, <4>1
      <4> QED BY <4>2, <4>3, <4>4
    <3> HIDE DEF j
    <3>3. next[q[j]] = q[Skip(k, After(n - 1, i))] /\ prev[q[j]] = q[Skip(k, Before(n - 1, i))]
      BY <1>3, <3>1 DEF NextPasses, PrevPasses
    <3> QED BY <3>2, <3>3
  <2> QED BY <1>1, <1>8, <2>1 DEF NextClosed, PrevClosed
<1>10. Headed(l, r)'
  <2>0. n \in Nat /\ n # 0
    BY <1>2
  <2>1. head'[l] = IF q[1] = q[k] THEN AfterHead(q[k]) ELSE q[1]
    BY <1>1, <1>2, <1>4 DEF Base, TypeOK
  <2>2. q[1] = q[k] <=> k = 1
    BY <1>2 DEF Ordered, OnePlace
  <2>3. next[q[k]] = q[After(n, k)]
    <3>1. next[q[k]] = q[IF k = Before(n, k) THEN After(n, k) ELSE After(n, k)]
      BY <1>3 DEF NextPasses
    <3> QED BY <3>1
  <2>4. CASE n = 1
    <3>1. r = <<>> /\ k = 1
      BY <1>8, <2>4, EmptySeq
    <3> QED BY <2>1, <2>3, <2>4, <3>1 DEF AfterHead, Headed, After
  <2>5. CASE n # 1
    <3>1. r # <<>> /\ r[1] = q[Skip(k, 1)]
      <4>1. n - 1 \in Nat \ {0} /\ 1 \in 1 .. n - 1
        BY <2>0, <2>5, TwoOrMore
      <4>2. r # <<>>
        BY <1>8, <4>1, EmptySeq
      <4> QED BY <1>8, <4>1, <4>2
    <3>2. CASE k = 1
      <4>1. next[q[1]] = q[2] /\ q[2] # q[1]
        <5>1. 1 \in 1 .. n /\ 2 \in 1 .. n /\ After(n, 1) = 2
          BY <2>0, <2>5, TwoOrMore
        <5>2. q[2] # q[1]
          BY <1>2, <5>1 DEF Ordered, OnePlace
        <5> QED BY <2>3, <3>2, <5>1, <5>2
      <4> QED BY <2>1, <2>2, <3>1, <3>2, <4>1 DEF AfterHead, Headed, Skip
    <3>3. CASE k # 1
      BY <2>1, <2>2, <3>1, <3>3 DEF Headed, Skip
    <3> QED BY <3>2, <3>3
  <2> QED BY <2>4, <2>5
<1>11. Ordered([s EXCEPT ![l] = r])'
  BY <1>2, <1>5, <1>7, <1>8, <1>9, <1>10, OrderedStep
<1> QED BY <1>0, <1>1, <1>3, <1>4, <1>6, <1>11

-----------------------------------------------------------------------------
(* Between calls, and the whole. *)

\* The lists stay as they are for those that are at work on them.
LEMMA OthersWait ==
  ASSUME Base, NEW s, Ordered(s), NEW t \in Threads, pc[t] = "idle",
         UNCHANGED <<head, next, prev>>,
         \A u \in Threads : u # t => pc'[u] = pc[u] /\ call'[u] = call[u] /\ hand'[u] = hand[u]
  PROVE  /\ \A l \in Lists : Headed(l, s[l])' /\ (Busy(l) => Busy(l)')
         /\ \A l \in Lists : ~Busy(l) => NextClosed(s[l])' /\ PrevClosed(s[l])'
         /\ \A u \in Threads : u # t /\ pc'[u] # "idle" => Doing(u, s[call[u].list])'
<1>1. \A l \in Lists : Headed(l, s[l])'
  BY DEF Ordered, Shape, Headed
<1>2. \A l \in Lists : Busy(l) => Busy(l)'
  BY ConstantsAssumption DEF Busy, Base, Calls
<1>3. \A l \in Lists : ~Busy(l) => NextClosed(s[l])' /\ PrevClosed(s[l])'
  BY DEF Ordered, Shape, NextClosed, PrevClosed
<1>4. ASSUME NEW u \in Threads, u # t, pc'[u] # "idle"
      PROVE  Doing(u, s[call[u].list])'
  <2>1. call[u].list \in Lists /\ s[call[u].list] \in Seq(Atoms) /\ Doing(u, s[call[u].list])
    BY <1>4 DEF Base, Arguments, Ordered, Shape
  <2>2. Doing(u, s[call[u].list])'
    BY <1>4, <2>1, DoingKept DEF Base
  <2> QED BY <2>2
<1> QED BY <1>1, <1>2, <1>3, <1>4

\* A call begins on a list that no other call is at work on.
LEMMA BeginStep ==
  ASSUME ~Overlap, Base, NEW s, Ordered(s), NEW t \in Threads,
         NEW o \in Ops, NEW l \in Lists, NEW w \in Queries, Begin(t, o, l, w)
  PROVE  Calls' /\ OneCall' /\ ~segv' /\ Ordered(s)'
<1>1. /\ pc[t] = "idle" /\ ~segv /\ ~Busy(l) /\ (o = "insert" <=> hand[t] # NULL)
      /\ call' = [call EXCEPT ![t] = Call(o, l, w)]
      /\ UNCHANGED <<head, next, prev, fresh, hand, got, segv>>
      /\ Goto(t, IF o = "insert" THEN "test" ELSE "enter")
  BY DEF Begin, At, ring
<1>2. /\ \A u \in Threads : u # t => pc'[u] = pc[u] /\ call'[u] = call[u]
      /\ pc'[t] = (IF o = "insert" THEN "test" ELSE "enter")
      /\ call'[t].op = o /\ call'[t].list = l /\ call'[t].count = 0
  BY <1>1 DEF Goto, Call, Base, TypeOK
<1>3. \A u \in Threads : call[u].list # l
  BY <1>1 DEF Busy
<1>4. Calls'
  BY <1>1, <1>2 DEF Base, Calls, Inserting, Searching, Unlinking, Ops
<1>5. OneCall'
  BY <1>2, <1>3 DEF Base, OneCall
<1>6. OnePlace(s)'
  BY <1>1, <1>2 DEF Ordered, OnePlace
<1>7. Doing(t, s[call[t].list])'
  <2>1. NextClosed(s[l])' /\ PrevClosed(s[l])'
    BY <1>1, <1>2, OthersWait
  <2> QED BY <1>2, <2>1 DEF Doing, Unlinking
<1>8. Shape(s)'
  BY <1>1, <1>2, <1>7, OthersWait DEF Shape
<1> QED BY <1>1, <1>4, <1>5, <1>6, <1>8 DEF Ordered

\* Allocating and dropping touch no list.
LEMMA AllocateStep ==
  ASSUME Base, NEW s, Ordered(s), NEW t \in Threads, Allocate(t) \/ Drop(t)
  PROVE  Calls' /\ OneCall' /\ ~segv' /\ Ordered(s)'
<1>1. /\ pc[t] = "idle" /\ ~segv /\ UNCHANGED <<head, next, prev, pc, call, segv>>
      /\ \A u \in Threads : u # t => hand'[u] = hand[u]
  BY DEF Allocate, Drop, At, ring, Base, TypeOK
<1>2. Calls' /\ OneCall'
  BY <1>1 DEF Base, Calls, OneCall, Inserting, Searching, Unlinking
<1>3. OnePlace(s)'
  <2>1. CASE Drop(t)
    BY <1>1, <2>1 DEF Drop, Ordered, OnePlace
  <2>2. CASE Allocate(t)
    <3>1. PICK a \in fresh : hand' = [hand EXCEPT ![t] = a] /\ fresh' = fresh \ {a}
      BY <2>2 DEF Allocate
    <3>2. \A u \in Threads : hand'[u] = IF u = t THEN a ELSE hand[u]
      BY <3>1 DEF Base, TypeOK
    <3> QED BY <1>1, <3>1, <3>2 DEF Ordered, OnePlace
  <2> QED BY <2>1, <2>2
<1>4. Shape(s)'
  <2>1. \A l \in Lists : ~Busy(l)' => ~Busy(l)
    BY <1>1, OthersWait
  <2> QED BY <1>1, <2>1, OthersWait DEF Shape
<1> QED BY <1>1, <1>2, <1>3, <1>4 DEF Ordered

\* All lists are empty at the start.
LEMMA InitOrdered == Init => Inv
<1> SUFFICES ASSUME Init PROVE Inv
  OBVIOUS
<1> DEFINE s == [l \in Lists |-> <<>>]
<1>1. TypeOK /\ Arguments
  BY InitTypes
<1>2. \A t \in Threads : pc[t] = "idle" /\ call[t].list = NULL /\ hand[t] = NULL
  BY DEF Init, NoCall, Call
<1>3. Calls /\ OneCall /\ ~segv
  BY <1>2 DEF Init, Calls, OneCall, Inserting, Searching, Unlinking
<1>4. s \in [Lists -> Seq(Atoms)] /\ \A l \in Lists : s[l] = <<>> /\ Len(s[l]) = 0
  BY EmptySeq
<1> HIDE DEF s
<1>5. OnePlace(s)
  BY <1>2, <1>4, ConstantsAssumption DEF OnePlace, Init
<1>6. Shape(s)
  BY <1>2, <1>4 DEF Shape, Init, Headed, NextClosed, PrevClosed
<1>7. Ordered(s)
  BY <1>4, <1>5, <1>6 DEF Ordered
<1> QED BY <1>1, <1>3, <1>7 DEF Inv, Base

\* Each step keeps the orders or changes that of one list.
LEMMA StepOrdered ==
  ASSUME ~Overlap, Base, NEW s, Ordered(s), NEW t \in Threads,
         \/ Allocate(t) \/ Drop(t) \/ Inside(t)
         \/ \E o \in Ops, l \in Lists, w \in Queries : Begin(t, o, l, w)
  PROVE  Calls' /\ OneCall' /\ ~segv' /\ \E z : Ordered(z)'
<1>1. CASE Allocate(t) \/ Drop(t)
  BY <1>1, AllocateStep
<1>2. CASE \E o \in Ops, l \in Lists, w \in Queries : Begin(t, o, l, w)
  BY <1>2, BeginStep
<1>3. CASE Inside(t)
  <2>1. PICK l, h : call[t].list = l /\ hand[t] = h
    OBVIOUS
  <2>2. CASE Enter(t) \/ Walk(t)
    BY <2>1, <2>2, EnterStep, WalkStep
  <2>3. CASE InsertTest(t) \/ InsertAlone(t) \/ InsertNext(t) \/ InsertPrev(t) \/ InsertLast(t)
    BY <2>1, <2>3, InsertTestStep, InsertAloneStep, InsertNextStep, InsertPrevStep, InsertLastStep
  <2>4. CASE InsertHead(t) \/ InsertLink(t)
    BY <2>1, <2>4, InsertHeadStep, InsertLinkStep
  <2>5. CASE UnlinkNext(t) \/ UnlinkPrev(t)
    BY <2>1, <2>5, UnlinkNextStep, UnlinkPrevStep
  <2>6. CASE UnlinkHead(t)
    BY <2>1, <2>6, UnlinkHeadStep
  <2> QED BY <1>3, <2>2, <2>3, <2>4, <2>5, <2>6 DEF Inside, Insert
<1> QED BY <1>1, <1>2, <1>3

\* Nothing changes.
LEMMA StutterOrdered ==
  ASSUME Base, NEW s, Ordered(s), UNCHANGED vars
  PROVE  Calls' /\ OneCall' /\ ~segv' /\ Ordered(s)'
<1>1. UNCHANGED <<head, next, prev, fresh, hand, pc, call, segv>>
  BY DEF vars, ring
<1>2. Calls' /\ OneCall' /\ ~segv'
  BY <1>1 DEF Base, Calls, OneCall
<1>3. OnePlace(s)'
  BY <1>1 DEF Ordered, OnePlace
<1>4. ASSUME NEW u \in Threads, pc'[u] # "idle" PROVE Doing(u, s[call[u].list])'
  <2>1. s[call[u].list] \in Seq(Atoms) /\ Doing(u, s[call[u].list])
    BY <1>1, <1>4 DEF Base, Arguments, Ordered, Shape
  <2>2. Doing(u, s[call[u].list])'
    BY <1>1, <1>4, <2>1, DoingKept DEF Base
  <2> QED BY <2>2
<1>5. \A l \in Lists : /\ Headed(l, s[l])'
                       /\ ~Busy(l)' => NextClosed(s[l])' /\ PrevClosed(s[l])'
  BY <1>1 DEF Ordered, Shape, Headed, Busy, NextClosed, PrevClosed
<1> QED BY <1>2, <1>3, <1>4, <1>5 DEF Ordered, Shape

\* The invariant is inductive.
LEMMA NextOrdered == ~Overlap /\ Inv /\ [Next]_vars => Inv'
<1> SUFFICES ASSUME ~Overlap, Base, NEW s, Ordered(s), [Next]_vars PROVE Inv'
  BY DEF Inv
<1>1. TypeOK' /\ Arguments'
  BY NextTypes DEF Base
<1>2. Calls' /\ OneCall' /\ ~segv' /\ \E z : Ordered(z)'
  <2>1. CASE UNCHANGED vars
    BY <2>1, StutterOrdered
  <2>2. CASE Next
    BY <2>2, StepOrdered DEF Next
  <2> QED BY <2>1, <2>2
<1> QED BY <1>1, <1>2 DEF Inv, Base

(* What _insert_db, _find_db, _count_db and _extract_db know of the list they *)
(* work on at each of their statements, when calls on one list do not overlap. *)
THEOREM Invariance == ~Overlap => (Spec => []Inv)
<1> SUFFICES ASSUME ~Overlap PROVE Spec => []Inv
  OBVIOUS
<1>1. Inv /\ [Next]_vars => Inv'
  BY NextOrdered
<1> QED BY InitOrdered, <1>1, PTL DEF Spec

-----------------------------------------------------------------------------
(* What is met by following next from the head of a list. *)

\* at is what is met in the first N steps from first.
PathTo(N, at, first, succ) ==
  at = [n \in 0 .. N |->
          IF n = 0 THEN first ELSE IF at[n - 1] = NULL THEN NULL ELSE succ[at[n - 1]]]

\* There is such a path of any length.
LEMMA PathExists ==
  ASSUME NEW first, NEW succ, NEW N \in Nat
  PROVE  \E at : PathTo(N, at, first, succ)
<1> DEFINE S == {n \in Nat : ~\E at : PathTo(n, at, first, succ)}
<1>1. SUFFICES ASSUME S # {} PROVE FALSE
  OBVIOUS
<1>2. PICK m \in S : \A i \in S : m <= i
  BY <1>1, Least
<1>3. CASE m = 0
  <2> DEFINE g == [n \in 0 .. 0 |-> first]
  <2>1. PathTo(0, g, first, succ)
    BY DEF PathTo
  <2> QED BY <1>2, <1>3, <2>1
<1>4. CASE m # 0
  <2>1. m \in Nat /\ m - 1 \in Nat /\ m - 1 \notin S
    BY <1>2, <1>4
  <2>2. PICK f : PathTo(m - 1, f, first, succ)
    BY <2>1
  <2> DEFINE e == IF f[m - 1] = NULL THEN NULL ELSE succ[f[m - 1]]
             g == [n \in 0 .. m |-> IF n = m THEN e ELSE f[n]]
  <2>3. \A n \in 0 .. (m - 1) : f[n] =
          IF n = 0 THEN first ELSE IF f[n - 1] = NULL THEN NULL ELSE succ[f[n - 1]]
    BY <2>2 DEF PathTo
  <2>4. ASSUME NEW n \in 0 .. m
        PROVE  g[n] = IF n = 0 THEN first ELSE IF g[n - 1] = NULL THEN NULL ELSE succ[g[n - 1]]
    BY <1>4, <2>1, <2>3
  <2>5. g = [n \in 0 .. m |->
               IF n = 0 THEN first ELSE IF g[n - 1] = NULL THEN NULL ELSE succ[g[n - 1]]]
    <3>1. g = [n \in 0 .. m |-> g[n]]
      OBVIOUS
    <3> HIDE DEF g
    <3> QED BY <2>4, <3>1
  <2>6. PathTo(m, g, first, succ)
    BY <2>5 DEF PathTo
  <2> QED BY <1>2, <2>6
<1> QED BY <1>3, <1>4

\* Step n of a path meets nothing, or an atom again; Turn is the first that does.
Over(at, n) == at[n] = NULL \/ \E m \in 0 .. (n - 1) : at[m] = at[n]
Turn(at) ==
  CHOOSE n \in 0 .. Cardinality(Atoms) : Over(at, n) /\ \A m \in 0 .. (n - 1) : ~Over(at, m)

\* Met is such a path up to there.
Follows(at, first, succ) ==
  /\ PathTo(Cardinality(Atoms), at, first, succ)
  /\ Met(first, succ) = [i \in 1 .. Turn(at) |-> at[i - 1]]

\* What Met chooses is one.
LEMMA MetIsPath ==
  ASSUME NEW first, NEW succ
  PROVE  \E at : Follows(at, first, succ)
<1> DEFINE at == CHOOSE f : PathTo(Cardinality(Atoms), f, first, succ)
<1>1. PathTo(Cardinality(Atoms), at, first, succ)
  BY PathExists, FS_CardinalityType, ConstantsAssumption
<1>2. Met(first, succ) = [i \in 1 .. Turn(at) |-> at[i - 1]]
  BY DEF Met, PathTo, Turn, Over
<1> HIDE DEF at
<1> QED BY <1>1, <1>2 DEF Follows

\* q is what is met from first: no atom twice, each leads to the one after it,
\* and the last one back to one that was met.
Leads(first, succ, q) ==
  /\ q \in Seq(Atoms) /\ Len(q) <= Cardinality(Atoms)
  /\ \A i, j \in 1 .. Len(q) : q[i] = q[j] => i = j
  /\ first = IF q = <<>> THEN NULL ELSE q[1]
  /\ \A i \in 1 .. Len(q) - 1 : succ[q[i]] = q[i + 1]
  /\ q # <<>> => \E j \in 1 .. Len(q) : succ[q[Len(q)]] = q[j]

\* A ring, or one into which the head leads, is met in its order.
LEMMA MetRing ==
  ASSUME NEW first, NEW succ, NEW q, Leads(first, succ, q)
  PROVE  Met(first, succ) = q
<1> USE DEF Leads
<1> DEFINE n == Len(q)
           C == Cardinality(Atoms)
<1>1. /\ n \in Nat /\ C \in Nat /\ n <= C /\ (q = <<>> <=> n = 0)
      /\ \A i \in 1 .. n : q[i] \in Atoms /\ q[i] # NULL
      /\ q = [i \in 1 .. n |-> q[i]]
  <2>1. n \in Nat /\ (q = <<>> <=> n = 0) /\ \A i \in 1 .. n : q[i] \in Atoms
    BY LenProperties, EmptySeq, ElementOfSeq
  <2>2. C \in Nat
    BY FS_CardinalityType, ConstantsAssumption
  <2>3. q = [i \in 1 .. n |-> q[i]]
    BY LenProperties
  <2> QED BY <2>1, <2>2, <2>3, ConstantsAssumption
<1>2. PICK at : Follows(at, first, succ)
  BY MetIsPath
<1> HIDE DEF n, C
<1>3. \A m \in 0 .. C : at[m] =
        IF m = 0 THEN first ELSE IF at[m - 1] = NULL THEN NULL ELSE succ[at[m - 1]]
  BY <1>2 DEF Follows, PathTo, C
<1>4. \A m \in 0 .. (n - 1) : at[m] = q[m + 1]
  <2> DEFINE S == {m \in 0 .. (n - 1) : at[m] # q[m + 1]}
  <2>1. SUFFICES ASSUME S # {} PROVE FALSE
    OBVIOUS
  <2>2. S \in SUBSET Nat
    BY <1>1
  <2>3. PICK m \in S : \A i \in S : m <= i
    <3> HIDE DEF S
    <3> QED BY <2>1, <2>2, Least
  <2>4. m \in 0 .. (n - 1) /\ at[m] # q[m + 1] /\ m \in 0 .. C
    BY <1>1
  <2>5. CASE m = 0
    <3>1. q # <<>> /\ 0 \in 0 .. C
      BY <1>1, <2>4
    <3>2. at[0] = first
      BY <1>3, <3>1
    <3> QED BY <2>4, <2>5, <3>1, <3>2
  <2>6. CASE m # 0
    <3>1. m - 1 \in 0 .. (n - 1) /\ m - 1 \notin S
      <4>1. m - 1 \in 0 .. (n - 1) /\ ~(m <= m - 1)
        BY <1>1, <2>4, <2>6
      <4> HIDE DEF S
      <4> QED BY <2>3, <4>1
    <3>2. at[m - 1] = q[m] /\ m \in 1 .. n - 1 /\ m \in 1 .. n
      BY <1>1, <2>4, <2>6, <3>1
    <3>3. at[m] = succ[q[m]] /\ succ[q[m]] = q[m + 1]
      BY <1>1, <1>3, <2>4, <2>6, <3>2 DEF n
    <3> QED BY <2>4, <3>3
  <2> QED BY <2>5, <2>6
<1>5. \A m \in 0 .. (n - 1) : ~Over(at, m)
  <2> SUFFICES ASSUME NEW m \in 0 .. (n - 1), Over(at, m) PROVE FALSE
    OBVIOUS
  <2>0. m + 1 \in 1 .. n /\ q[m + 1] # NULL
    BY <1>1
  <2>1. m + 1 \in 1 .. n /\ at[m] = q[m + 1] /\ at[m] # NULL
    BY <1>4, <2>0
  <2>2. PICK k \in 0 .. (m - 1) : at[k] = at[m]
    BY <2>1 DEF Over
  <2>3. k \in 0 .. (n - 1) /\ k + 1 \in 1 .. n /\ k + 1 # m + 1
    BY SMTT(60), <1>1, <2>2
  <2>4. at[k] = q[k + 1]
    BY <1>4, <2>3
  <2> QED BY <2>1, <2>2, <2>3, <2>4 DEF n
<1>6. Over(at, n)
  <2>1. CASE n = 0
    BY <1>1, <1>3, <2>1 DEF Over
  <2>2. CASE n # 0
    <3>1. PICK j \in 1 .. n : succ[q[n]] = q[j]
      BY <1>1, <2>2 DEF n
    <3>2. at[n - 1] = q[n] /\ n \in 0 .. C /\ n \in 1 .. n /\ j - 1 \in 0 .. (n - 1)
      <4> HIDE DEF Leads
      <4>1. n \in 0 .. C /\ n \in 1 .. n /\ j - 1 \in 0 .. (n - 1)
        BY <1>1, <2>2
      <4>2. n - 1 \in 0 .. (n - 1) /\ (n - 1) + 1 = n
        BY <1>1, <2>2
      <4>3. at[n - 1] = q[n]
        BY <1>4, <4>2
      <4> QED BY <4>1, <4>3
    <3>3. at[n] = q[j]
      BY <1>1, <1>3, <2>2, <3>1, <3>2
    <3>4. (j - 1) + 1 = j
      BY <3>1
    <3>5. at[j - 1] = q[(j - 1) + 1]
      BY <1>4, <3>2
    <3> QED BY <3>2, <3>3, <3>4, <3>5 DEF Over
  <2> QED BY <2>1, <2>2
<1>7. Turn(at) = n
  <2>1. n \in 0 .. C
    BY <1>1
  <2>2. /\ Turn(at) \in 0 .. C /\ Over(at, Turn(at))
        /\ \A k \in 0 .. (Turn(at) - 1) : ~Over(at, k)
    BY <1>5, <1>6, <2>1 DEF Turn, C
  <2>3. ~(n < Turn(at)) /\ ~(Turn(at) < n)
    BY <1>1, <1>5, <1>6, <2>2
  <2> QED BY <1>1, <2>2, <2>3
<1>8. ASSUME NEW i \in 1 .. n PROVE at[i - 1] = q[i]
  <2>1. i - 1 \in 0 .. (n - 1) /\ (i - 1) + 1 = i
    BY <1>1
  <2> QED BY <1>4, <2>1
<1>9. Met(first, succ) = [i \in 1 .. n |-> at[i - 1]]
  BY <1>2, <1>7 DEF Follows
<1>10. [i \in 1 .. n |-> at[i - 1]] = [i \in 1 .. n |-> q[i]]
  BY <1>8
<1> QED BY <1>1, <1>9, <1>10

\* The places of a ring of n.
LEMMA RingPlaces ==
  ASSUME NEW n \in Nat, n # 0
  PROVE  /\ 1 \in 1 .. n /\ n \in 1 .. n /\ After(n, n) = 1 /\ Before(n, 1) = n
         /\ \A i \in 1 .. n - 1 : i \in 1 .. n /\ After(n, i) = i + 1 /\ i # n
         /\ \A i \in 1 .. n : After(n, i) \in 1 .. n
BY DEF After, Before

\* A list met in its order from its first atom, each leading to the one after.
LEMMA ClosedLeads ==
  ASSUME NEW q \in Seq(Atoms), Len(q) <= Cardinality(Atoms),
         \A i, j \in 1 .. Len(q) : q[i] = q[j] => i = j,
         NEW first, first = IF q = <<>> THEN NULL ELSE q[1], NEW succ,
         \A i \in 1 .. Len(q) : succ[q[i]] = q[After(Len(q), i)]
  PROVE  Leads(first, succ, q)
<1> DEFINE n == Len(q)
<1>1. n \in Nat /\ (q = <<>> <=> n = 0)
  BY LenProperties, EmptySeq
<1>2. \A i \in 1 .. n - 1 : succ[q[i]] = q[i + 1]
  <2> SUFFICES ASSUME NEW i \in 1 .. n - 1 PROVE succ[q[i]] = q[i + 1]
    OBVIOUS
  <2>1. n # 0
    BY <1>1
  <2>2. i \in 1 .. n /\ After(n, i) = i + 1
    BY <1>1, <2>1, RingPlaces
  <2> QED BY <2>2
<1>3. q # <<>> => \E j \in 1 .. n : succ[q[n]] = q[j]
  <2> SUFFICES ASSUME n # 0 PROVE \E j \in 1 .. n : succ[q[n]] = q[j]
    BY <1>1
  <2>1. n \in 1 .. n /\ After(n, n) \in 1 .. n
    BY <1>1, RingPlaces
  <2> QED BY <2>1
<1> QED BY <1>2, <1>3 DEF Leads

\* A list of which next passes over place k, not the first: without it.
LEMMA PassedLeads ==
  ASSUME NEW q \in Seq(Atoms), Len(q) <= Cardinality(Atoms),
         \A i, j \in 1 .. Len(q) : q[i] = q[j] => i = j,
         NEW first, first = q[1], NEW k \in 1 .. Len(q), k # 1, NextPasses(q, k),
         NEW r, r = RemoveAt(q, k)
  PROVE  Leads(first, next, r)
<1> DEFINE n == Len(q)
<1>1. n \in Nat /\ n # 0 /\ n # 1 /\ n <= Cardinality(Atoms) /\ Cardinality(Atoms) \in Nat
  BY LenProperties, FS_CardinalityType, ConstantsAssumption
<1>2. n - 1 \in Nat /\ n - 1 # 0 /\ n - 1 <= Cardinality(Atoms) /\ 1 \in 1 .. n - 1
  BY <1>1
<1>3. Listing(q, Atoms)
  <2>1. DOMAIN q = 1 .. n
    BY LenProperties
  <2> QED BY <2>1 DEF Listing, IsInjective
<1>4. r \in Seq(Atoms) /\ Len(r) = n - 1
  <2>1. RemoveAt(q, k) \in Seq(Atoms) /\ Len(RemoveAt(q, k)) = Len(q) - 1
    BY <1>3, RemoveSkips
  <2> QED BY <2>1
<1>5. \A i \in 1 .. n - 1 : r[i] = q[Skip(k, i)]
  <2>1. \A i \in 1 .. Len(q) - 1 : RemoveAt(q, k)[i] = q[Skip(k, i)]
    BY <1>3, RemoveSkips
  <2> QED BY <2>1
<1>6. \A i \in 1 .. n - 1 : Skip(k, i) \in 1 .. n
  BY <1>1, Skipping
<1>7. \A i, j \in 1 .. n - 1 : Skip(k, i) = Skip(k, j) => i = j
  <2> HIDE DEF n
  <2> QED BY <1>1 DEF Skip
<1>8. \A i, j \in 1 .. n - 1 : r[i] = r[j] => i = j
  BY SMTT(60), <1>5, <1>6, <1>7
<1>9. Skip(k, 1) = 1
  BY DEF Skip
<1>10. r[1] = q[1] /\ r # <<>>
  <2>1. r # <<>>
    BY <1>2, <1>4, EmptySeq
  <2> QED BY <1>2, <1>5, <1>9, <2>1
<1>11. ASSUME NEW i \in 1 .. n - 1
       PROVE  next[r[i]] = r[After(n - 1, i)]
  <2> DEFINE j == Skip(k, i)
             m == After(n - 1, i)
  <2>1. /\ j \in 1 .. n /\ m \in 1 .. n - 1
        /\ Skip(k, m) = IF j = Before(n, k) THEN After(n, k) ELSE After(n, j)
    BY <1>1, Skipping
  <2>2. r[i] = q[j] /\ r[m] = q[Skip(k, m)]
    BY <1>5, <2>1
  <2> HIDE DEF j, m
  <2>3. next[q[j]] = q[IF j = Before(n, k) THEN After(n, k) ELSE After(n, j)]
    BY <2>1 DEF NextPasses
  <2>4. next[q[j]] = q[Skip(k, m)]
    BY <2>1, <2>3
  <2>5. next[r[i]] = r[m]
    BY <2>2, <2>4
  <2> QED BY <2>5 DEF m
<1>12. Len(r) <= Cardinality(Atoms)
  BY <1>2, <1>4
<1>13. \A i, j \in 1 .. Len(r) : r[i] = r[j] => i = j
  BY <1>4, <1>8
<1>14. first = IF r = <<>> THEN NULL ELSE r[1]
  BY <1>10
<1>15. \A i \in 1 .. Len(r) : next[r[i]] = r[After(Len(r), i)]
  BY <1>4, <1>11
<1> HIDE DEF n
<1> QED BY <1>4, <1>12, <1>13, <1>14, <1>15, ClosedLeads

\* Forward gives the order of a list, unless an extraction has already taken an
\* atom other than the first out of next.
LEMMA ForwardIs ==
  \A s : \A l \in Lists : Base /\ Ordered(s) =>
    /\ NextClosed(s[l]) => Forward(l) = s[l]
    /\ (\A t \in Threads : call[t].list = l => pc[t] \notin {"unprev", "unhead"}) =>
         NextClosed(s[l]) /\ Forward(l) = s[l]
    /\ \A k \in 1 .. Len(s[l]) : NextPasses(s[l], k) =>
         Forward(l) = IF k = 1 THEN s[l] ELSE RemoveAt(s[l], k)
<1> SUFFICES ASSUME NEW s, NEW l \in Lists, Base, Ordered(s)
             PROVE  /\ NextClosed(s[l]) => Forward(l) = s[l]
                    /\ (\A t \in Threads : call[t].list = l => pc[t] \notin {"unprev", "unhead"}) =>
                         NextClosed(s[l]) /\ Forward(l) = s[l]
                    /\ \A k \in 1 .. Len(s[l]) : NextPasses(s[l], k) =>
                         Forward(l) = IF k = 1 THEN s[l] ELSE RemoveAt(s[l], k)
  OBVIOUS
<1>1. PICK q : q = s[l]
  OBVIOUS
<1>2. /\ q \in Seq(Atoms) /\ Len(q) \in Nat /\ Len(q) <= Cardinality(Atoms)
      /\ (q = <<>> <=> Len(q) = 0)
  BY <1>1, LengthBound, EmptySeq DEF Ordered
<1>3. head[l] = IF q = <<>> THEN NULL ELSE q[1]
  BY <1>1 DEF Ordered, Shape, Headed
<1>4. \A i, j \in 1 .. Len(q) : q[i] = q[j] => i = j
  BY <1>1 DEF Ordered, OnePlace
<1>5. NextClosed(q) => Forward(l) = q
  <2> SUFFICES ASSUME NextClosed(q) PROVE Forward(l) = q
    OBVIOUS
  <2>1. \A i \in 1 .. Len(q) : next[q[i]] = q[After(Len(q), i)]
    BY DEF NextClosed
  <2>2. Leads(head[l], next, q)
    BY <1>2, <1>3, <1>4, <2>1, ClosedLeads
  <2> QED BY <2>2, MetRing DEF Forward
<1>6. ASSUME \A t \in Threads : call[t].list = l => pc[t] \notin {"unprev", "unhead"}
      PROVE  NextClosed(q)
  <2>1. CASE Busy(l)
    <3>1. PICK t \in Threads : call[t].list = l
      BY <2>1 DEF Busy
    <3>2. pc[t] # "idle"
      BY <3>1, ConstantsAssumption DEF Base, Calls
    <3> QED BY <1>1, <1>6, <3>1, <3>2, InCall DEF Doing
  <2>2. CASE ~Busy(l)
    BY <1>1, <2>2 DEF Ordered, Shape
  <2> QED BY <2>1, <2>2
<1>7. ASSUME NEW k \in 1 .. Len(q), NextPasses(q, k)
      PROVE  Forward(l) = IF k = 1 THEN q ELSE RemoveAt(q, k)
  <2>1. Len(q) # 0
    BY <1>2
  <2>2. CASE k = 1
    <3>1. \A i \in 1 .. Len(q) - 1 : next[q[i]] = q[i + 1]
      <4> SUFFICES ASSUME NEW i \in 1 .. Len(q) - 1 PROVE next[q[i]] = q[i + 1]
        OBVIOUS
      <4>1. /\ i \in 1 .. Len(q) /\ i # Len(q) /\ After(Len(q), i) = i + 1
            /\ Before(Len(q), 1) = Len(q)
        BY <1>2, <2>1, RingPlaces
      <4> QED BY <1>7, <2>2, <4>1 DEF NextPasses
    <3>2. \E j \in 1 .. Len(q) : next[q[Len(q)]] = q[j]
      <4>1. /\ Len(q) \in 1 .. Len(q) /\ Before(Len(q), 1) = Len(q)
            /\ 1 \in 1 .. Len(q)
        BY <1>2, <2>1, RingPlaces
      <4>2. After(Len(q), 1) \in 1 .. Len(q)
        BY <1>2, <2>1, <4>1, Neighbours
      <4>3. next[q[Len(q)]] = q[After(Len(q), 1)]
        BY <1>7, <2>2, <4>1 DEF NextPasses
      <4> QED BY <4>2, <4>3
    <3>3. Leads(head[l], next, q)
      BY <1>2, <1>3, <1>4, <3>1, <3>2 DEF Leads
    <3> QED BY <2>2, <3>3, MetRing DEF Forward
  <2>3. CASE k # 1
    <3>1. PICK r : r = RemoveAt(q, k)
      OBVIOUS
    <3>2. head[l] = q[1]
      BY <1>2, <1>3, <2>1
    <3>3. Leads(head[l], next, r)
      BY <1>2, <1>4, <1>7, <2>3, <3>1, <3>2, PassedLeads
    <3> QED BY <2>3, <3>1, <3>3, MetRing DEF Forward
  <2> QED BY <2>2, <2>3
<1> QED BY <1>1, <1>5, <1>6, <1>7

\* The atoms of a list that no call is at work on.
LEMMA OnIs ==
  ASSUME Base, NEW s, Ordered(s), NEW l \in Lists, ~Busy(l)
  PROVE  /\ Forward(l) = s[l] /\ On(l) = {s[l][i] : i \in 1 .. Len(s[l])}
         /\ NextClosed(s[l]) /\ PrevClosed(s[l])
<1>1. Forward(l) = s[l]
  BY ForwardIs DEF Busy
<1>2. DOMAIN s[l] = 1 .. Len(s[l])
  BY LenProperties DEF Ordered
<1> QED BY <1>1, <1>2 DEF On, Ordered, Shape

(* fsdb.c, 131-140 and 195-199: between the calls on a list, next and prev     *)
(* are inverse on its atoms and lead to nothing else, for any number of lists  *)
(* and threads, however the calls on different lists interleave.               *)
THEOREM ListsAreRings == ~Overlap => (Spec => []RingIntact)
<1>1. Inv => RingIntact
  <2> SUFFICES ASSUME Base, NEW s, Ordered(s), NEW l \in Lists, ~Busy(l), NEW a \in On(l)
               PROVE  /\ next[a] \in On(l) /\ prev[a] \in On(l)
                      /\ prev[next[a]] = a /\ next[prev[a]] = a
    BY DEF RingIntact, Inv, Base
  <2> DEFINE q == s[l]
             n == Len(q)
  <2>1. n \in Nat
    BY LengthBound
  <2>2. PICK i \in 1 .. n : a = q[i]
    BY OnIs
  <2>3. After(n, i) \in 1 .. n /\ Before(n, i) \in 1 .. n
    BY <2>1, Neighbours
  <2>4. next[a] = q[After(n, i)] /\ prev[a] = q[Before(n, i)]
    BY <2>2, OnIs DEF NextClosed, PrevClosed
  <2>5. After(n, Before(n, i)) = i /\ Before(n, After(n, i)) = i
    BY <2>1 DEF After, Before
  <2>6. prev[q[After(n, i)]] = q[i] /\ next[q[Before(n, i)]] = q[i]
    BY <2>3, <2>5, OnIs DEF NextClosed, PrevClosed
  <2> QED BY <2>2, <2>3, <2>4, <2>6, OnIs
<1> QED BY <1>1, Invariance, PTL

-----------------------------------------------------------------------------
(* The queues that the pointers stand for. *)

\* What a step leaves of the queues and hands of everyone but t and list l.
Elsewhere(t, l) ==
  /\ \A m \in Lists : m # l => Forward(m)' = Forward(m)
  /\ \A u \in Threads : u # t => Held(u)' = Held(u)

\* A step of FifoLists, or none.
Mapped == Fifo!Next \/ UNCHANGED Fifo!vars

\* FifoLists removes as the lemmas about lists do.
LEMMA SameRemoval ==
  ASSUME NEW q, NEW k
  PROVE  Fifo!RemoveAt(q, k) = RemoveAt(q, k)
BY DEF RemoveAt, Fifo!RemoveAt

\* Nothing happens to the queues.
LEMMA MapsToNothing ==
  ASSUME NEW t \in Threads, NEW l, Elsewhere(t, l), l \in Lists => Forward(l)' = Forward(l),
         Held(t)' = Held(t), UNCHANGED <<fresh, got>>
  PROVE  Mapped
<1>1. \A m \in Lists : Forward(m)' = Forward(m)
  BY DEF Elsewhere
<1>2. \A u \in Threads : Held(u)' = Held(u)
  BY DEF Elsewhere
<1>3. [m \in Lists |-> Forward(m)]' = [m \in Lists |-> Forward(m)]
  BY <1>1
<1>4. [u \in Threads |-> Held(u)]' = [u \in Threads |-> Held(u)]
  BY <1>2
<1> QED BY <1>3, <1>4 DEF Mapped, Fifo!vars

\* A thread puts what it holds at the end of l.
LEMMA MapsToInsert ==
  ASSUME NEW t \in Threads, NEW l \in Lists, Elsewhere(t, l),
         Forward(l)' = Append(Forward(l), Held(t)),
         Held(t) # NULL, Held(t)' = NULL, UNCHANGED <<fresh, got>>
  PROVE  Mapped
<1> DEFINE pool == [m \in Lists |-> Forward(m)]
           holds == [u \in Threads |-> Held(u)]
<1>1. pool' = [pool EXCEPT ![l] = Append(pool[l], holds[t])]
  BY DEF Elsewhere
<1>2. holds' = [holds EXCEPT ![t] = NULL]
  BY DEF Elsewhere
<1>3. holds[t] # NULL
  OBVIOUS
<1>4. Fifo!Insert(t, l)
  BY <1>1, <1>2, <1>3 DEF Fifo!Insert
<1> QED BY <1>4 DEF Mapped, Fifo!Next

\* A thread takes the atom at place k, the first it looks for, out of l.
LEMMA MapsToExtract ==
  ASSUME NEW t \in Threads, NEW l \in Lists, Elsewhere(t, l), NEW w \in Queries,
         NEW k \in 1 .. Len(Forward(l)), w \in {0, Id[Forward(l)[k]]},
         \A j \in 1 .. (k - 1) : w \notin {0, Id[Forward(l)[j]]},
         Forward(l)' = RemoveAt(Forward(l), k),
         Held(t) = NULL, Held(t)' = Forward(l)[k], UNCHANGED <<fresh, got>>
  PROVE  Mapped
<1> DEFINE pool == [m \in Lists |-> Forward(m)]
           holds == [u \in Threads |-> Held(u)]
<1>1. pool' = [pool EXCEPT ![l] = Fifo!RemoveAt(pool[l], k)]
  BY SameRemoval DEF Elsewhere
<1>2. holds' = [holds EXCEPT ![t] = pool[l][k]]
  BY DEF Elsewhere
<1>3. holds[t] = NULL
  OBVIOUS
<1>4. Fifo!IsFirst(l, w, k)
  BY DEF Fifo!IsFirst, Fifo!NoQuery
<1>5. k \in 1 .. Len(pool[l])
  OBVIOUS
<1>6. Fifo!Extract(t, l, w)
  BY <1>1, <1>2, <1>3, <1>4, <1>5 DEF Fifo!Extract
<1> QED BY <1>6 DEF Mapped, Fifo!Next

\* A count of l returns.
LEMMA MapsToCount ==
  ASSUME NEW t \in Threads, NEW l \in Lists, Elsewhere(t, l), Forward(l)' = Forward(l),
         Held(t)' = Held(t), UNCHANGED fresh,
         got' = [got EXCEPT ![t] = Len(Forward(l))]
  PROVE  Mapped
<1> DEFINE pool == [m \in Lists |-> Forward(m)]
           holds == [u \in Threads |-> Held(u)]
<1>1. pool' = pool
  BY DEF Elsewhere
<1>2. holds' = holds
  BY DEF Elsewhere
<1>3. Fifo!Count(t, l)
  BY <1>1, <1>2 DEF Fifo!Count
<1> QED BY <1>3 DEF Mapped, Fifo!Next

\* A search of l for what it does not have returns.
LEMMA MapsToMiss ==
  ASSUME NEW t \in Threads, NEW l \in Lists, Elsewhere(t, l), Forward(l)' = Forward(l),
         Held(t)' = Held(t), UNCHANGED fresh, got' = [got EXCEPT ![t] = NULL],
         NEW w \in Queries,
         \A j \in 1 .. Len(Forward(l)) : w \notin {0, Id[Forward(l)[j]]}
  PROVE  Mapped
<1> DEFINE pool == [m \in Lists |-> Forward(m)]
           holds == [u \in Threads |-> Held(u)]
<1>1. pool' = pool
  BY DEF Elsewhere
<1>2. holds' = holds
  BY DEF Elsewhere
<1>3. Fifo!Missing(l, w)
  BY DEF Fifo!Missing, Fifo!NoQuery
<1>4. Fifo!Find(t, l, w)
  BY <1>1, <1>2, <1>3 DEF Fifo!Find
<1> QED BY <1>4 DEF Mapped, Fifo!Next

\* A search of l finds the first atom it looks for, at place k.
LEMMA MapsToFind ==
  ASSUME NEW t \in Threads, NEW l \in Lists, Elsewhere(t, l), Forward(l)' = Forward(l),
         Held(t)' = Held(t), UNCHANGED fresh, NEW w \in Queries,
         NEW k \in 1 .. Len(Forward(l)), got' = [got EXCEPT ![t] = Forward(l)[k]],
         w \in {0, Id[Forward(l)[k]]},
         \A j \in 1 .. (k - 1) : w \notin {0, Id[Forward(l)[j]]}
  PROVE  Mapped
<1> DEFINE pool == [m \in Lists |-> Forward(m)]
           holds == [u \in Threads |-> Held(u)]
<1>1. pool' = pool
  BY DEF Elsewhere
<1>2. holds' = holds
  BY DEF Elsewhere
<1>3. Fifo!IsFirst(l, w, k) /\ k \in 1 .. Len(pool[l]) /\ got' = [got EXCEPT ![t] = pool[l][k]]
  BY DEF Fifo!IsFirst, Fifo!NoQuery
<1>4. Fifo!Find(t, l, w)
  BY <1>1, <1>2, <1>3 DEF Fifo!Find
<1> QED BY <1>4 DEF Mapped, Fifo!Next

\* The state after a step has what the state before it has.
LEMMA BaseKept == Base /\ [Next]_vars /\ Calls' /\ OneCall' /\ ~segv' => Base'
BY NextTypes DEF Base

\* Forward gives the orders of the lists after a step, too.
LEMMA ForwardIsNext ==
  (\A s : \A l \in Lists : Base /\ Ordered(s) =>
     /\ NextClosed(s[l]) => Forward(l) = s[l]
     /\ (\A t \in Threads : call[t].list = l => pc[t] \notin {"unprev", "unhead"}) =>
          NextClosed(s[l]) /\ Forward(l) = s[l]
     /\ \A k \in 1 .. Len(s[l]) : NextPasses(s[l], k) =>
          Forward(l) = IF k = 1 THEN s[l] ELSE RemoveAt(s[l], k))'
BY ForwardIs, PTL

\* The queues depend on the heads and next only.
LEMMA SameForward ==
  ASSUME UNCHANGED <<head, next>>
  PROVE  \A l \in Lists : Forward(l)' = Forward(l)
BY DEF Forward, Met

\* What the others hold depends on nothing t writes to.
LEMMA OthersHold ==
  ASSUME Base, NEW t \in Threads, NEW l, call[t].list = l \/ UNCHANGED head,
         \A u \in Threads : u # t => pc'[u] = pc[u] /\ call'[u] = call[u] /\ hand'[u] = hand[u],
         \A m \in Lists : m # l => head'[m] = head[m]
  PROVE  \A u \in Threads : u # t => Held(u)' = Held(u)
<1> SUFFICES ASSUME NEW u \in Threads, u # t PROVE Held(u)' = Held(u)
  OBVIOUS
<1>1. CASE pc[u] \in {"unprev", "unhead"}
  <2>1. call[u].list \in Lists /\ call[u].list # NULL
    BY <1>1, ConstantsAssumption DEF Base, Arguments
  <2>2. head'[call[u].list] = head[call[u].list]
    BY <2>1 DEF Base, OneCall
  <2> QED BY <1>1, <2>2 DEF Held
<1>2. CASE pc[u] \notin {"unprev", "unhead"}
  BY <1>2 DEF Held
<1> QED BY <1>1, <1>2

\* The queue of a list t does not work on.
LEMMA OtherForward ==
  ASSUME Base, Base', NEW s, Ordered(s), NEW z, Ordered(z)', NEW t \in Threads, NEW l,
         call[t].list = l, Moves(t, l), NEW m \in Lists, m # l, z[m] = s[m]
  PROVE  Forward(m)' = Forward(m)
<1>1. ASSUME NEW u \in Threads, call[u].list = m, pc[u] \in {"unprev", "unhead"}
      PROVE  Forward(m)' = Forward(m)
  <2>1. u # t /\ pc'[u] = pc[u] /\ call'[u] = call[u]
    BY <1>1 DEF Moves
  <2>2. Doing(u, s[m])
    BY <1>1, InCall
  <2>3. PICK k \in 1 .. Len(s[m]) : call[u].atom = s[m][k] /\ NextPasses(s[m], k)
    BY <1>1, <2>2 DEF Doing, Unlinking, Chosen
  <2>4. Doing(u, s[m])'
    <3>1. Doing(u, z[call[u].list])'
      BY <1>1, <2>1 DEF Ordered, Shape
    <3> QED BY <1>1, <2>1, <3>1
  <2>5. PICK i \in 1 .. Len(s[m]) : call'[u].atom = s[m][i] /\ NextPasses(s[m], i)'
    BY <1>1, <2>1, <2>4 DEF Doing, Unlinking, Chosen
  <2>6. i = k
    BY <2>1, <2>3, <2>5 DEF Ordered, OnePlace
  <2>7. Forward(m) = IF k = 1 THEN s[m] ELSE RemoveAt(s[m], k)
    BY <2>3, ForwardIs
  <2>8. Forward(m)' = IF k = 1 THEN z[m] ELSE RemoveAt(z[m], k)
    BY <2>5, <2>6, ForwardIsNext
  <2> QED BY <2>7, <2>8
<1>2. ASSUME \A u \in Threads : call[u].list = m => pc[u] \notin {"unprev", "unhead"}
      PROVE  Forward(m)' = Forward(m)
  <2>1. \A u \in Threads : call'[u].list = m => pc'[u] \notin {"unprev", "unhead"}
    BY <1>2, ConstantsAssumption DEF Moves
  <2>2. Forward(m) = s[m]
    BY <1>2, ForwardIs
  <2>3. Forward(m)' = z[m]
    BY <2>1, ForwardIsNext
  <2> QED BY <2>2, <2>3
<1> QED BY <1>1, <1>2

\* A step of t on l leaves everything else.
LEMMA OthersShown ==
  ASSUME Base, Base', NEW s, Ordered(s), NEW z, Ordered(z)', NEW t \in Threads, NEW l,
         call[t].list = l, Moves(t, l), \A m \in Lists : m # l => z[m] = s[m] /\ head'[m] = head[m]
  PROVE  Elsewhere(t, l)
<1>1. \A m \in Lists : m # l => Forward(m)' = Forward(m)
  BY OtherForward
<1>2. \A u \in Threads : u # t => Held(u)' = Held(u)
  BY OthersHold DEF Moves
<1> QED BY <1>1, <1>2 DEF Elsewhere

\* A step of t that writes to neither a head nor next, and changes nothing t holds.
LEMMA QuietMaps ==
  ASSUME Base, NEW t \in Threads, UNCHANGED <<head, next, fresh, got>>,
         \A u \in Threads : u # t => pc'[u] = pc[u] /\ call'[u] = call[u] /\ hand'[u] = hand[u],
         Held(t)' = Held(t)
  PROVE  Mapped
<1>1. \A m \in Lists : Forward(m)' = Forward(m)
  BY SameForward
<1>2. \A u \in Threads : u # t => Held(u)' = Held(u)
  BY OthersHold
<1>3. Elsewhere(t, call[t].list)
  BY <1>1, <1>2 DEF Elsewhere
<1> QED BY <1>1, <1>3, MapsToNothing

\* The queue a call works on is the order of its list until it unlinks an atom.
LEMMA OwnForward ==
  ASSUME Base, NEW s, Ordered(s), NEW t \in Threads, NEW l \in Lists, call[t].list = l,
         pc[t] \notin {"unprev", "unhead"}
  PROVE  Forward(l) = s[l]
<1>1. \A u \in Threads : call[u].list = l => pc[u] \notin {"unprev", "unhead"}
  BY ConstantsAssumption DEF Base, OneCall
<1> QED BY <1>1, ForwardIs

\* And so after a step of it.
LEMMA OwnForwardNext ==
  ASSUME Base, Base', NEW z, Ordered(z)', NEW t \in Threads, NEW l \in Lists, call[t].list = l,
         Moves(t, l), pc'[t] \notin {"unprev", "unhead"}
  PROVE  Forward(l)' = z[l]
<1>1. \A u \in Threads : call'[u].list = l => pc'[u] \notin {"unprev", "unhead"}
  BY ConstantsAssumption DEF Base, OneCall, Moves
<1> QED BY <1>1, ForwardIsNext

\* Steps of _insert_db and _extract_db that the queues do not show.
LEMMA PointerStepMaps ==
  ASSUME Base, Base', NEW t \in Threads,
         InsertTest(t) \/ InsertPrev(t) \/ InsertLast(t) \/ UnlinkPrev(t)
  PROVE  Mapped
<1>1. ~segv'
  BY DEF Base
<1>2. CASE InsertTest(t)
  <2>1. /\ UNCHANGED <<head, next, fresh, got, hand, call>> /\ pc[t] = "test"
        /\ \A u \in Threads : u # t => pc'[u] = pc[u]
        /\ pc'[t] \in {"alone", "next"}
    BY <1>2 DEF InsertTest, At, Goto, ring, Base, TypeOK
  <2>2. Held(t)' = Held(t)
    BY <2>1 DEF Held
  <2> QED BY <2>1, <2>2, QuietMaps
<1>3. CASE InsertPrev(t)
  <2>1. /\ UNCHANGED <<head, next, fresh, got, hand, call>> /\ pc[t] = "prev"
        /\ \A u \in Threads : u # t => pc'[u] = pc[u]
        /\ pc'[t] = "link"
    BY <1>1, <1>3 DEF InsertPrev, Follow, At, Goto, Base, TypeOK
  <2>2. Held(t)' = Held(t)
    BY <2>1 DEF Held
  <2> QED BY <2>1, <2>2, QuietMaps
<1>4. CASE InsertLast(t)
  <2>1. /\ UNCHANGED <<head, next, fresh, got>> /\ pc[t] = "last"
        /\ hand' = [hand EXCEPT ![t] = NULL] /\ Return(t)
    BY <1>1, <1>4 DEF InsertLast, Follow, At
  <2>2. /\ \A u \in Threads : u # t => pc'[u] = pc[u] /\ call'[u] = call[u] /\ hand'[u] = hand[u]
        /\ pc'[t] = "idle" /\ hand'[t] = NULL
    BY <2>1 DEF Return, Goto, Base, TypeOK
  <2>3. Held(t)' = Held(t)
    BY <2>1, <2>2 DEF Held
  <2> QED BY <2>1, <2>2, <2>3, QuietMaps
<1>5. CASE UnlinkPrev(t)
  <2>1. /\ UNCHANGED <<head, next, fresh, got, hand, call>> /\ pc[t] = "unprev"
        /\ \A u \in Threads : u # t => pc'[u] = pc[u]
        /\ pc'[t] = "unhead"
    BY <1>1, <1>5 DEF UnlinkPrev, Follow, At, Goto, Base, TypeOK
  <2>2. Held(t)' = Held(t)
    BY <2>1 DEF Held
  <2> QED BY <2>1, <2>2, QuietMaps
<1> QED BY <1>2, <1>3, <1>4, <1>5

\* The new atom is prepared before it is linked.
LEMMA PrepareMaps ==
  ASSUME Base, Base', NEW s, Ordered(s), Ordered(s)', NEW t \in Threads,
         InsertAlone(t) \/ InsertNext(t)
  PROVE  Mapped
<1> PICK l : l = call[t].list
  OBVIOUS
<1>1. /\ UNCHANGED <<head, fresh, got, hand, call>> /\ pc[t] \in {"alone", "next"}
      /\ \E p \in {"head", "prev"} : Goto(t, p)
  BY DEF InsertAlone, InsertNext, At
<1>2. /\ l \in Lists /\ Moves(t, l) /\ pc'[t] \in {"head", "prev"}
  BY <1>1, GotoMoves DEF Base, Arguments, Places
<1>3. Elsewhere(t, l)
  BY <1>1, <1>2, OthersShown
<1>4. Forward(l) = s[l] /\ Forward(l)' = s[l]
  BY <1>1, <1>2, OwnForward, OwnForwardNext
<1>5. Held(t)' = Held(t)
  BY <1>1, <1>2 DEF Held
<1> QED BY <1>1, <1>3, <1>4, <1>5, MapsToNothing

\* The new atom is linked: it is at the end of the queue.
LEMMA LinkMaps ==
  ASSUME Base, Base', NEW s, Ordered(s), NEW t \in Threads, NEW l, call[t].list = l,
         NEW h, hand[t] = h, Ordered([s EXCEPT ![l] = Append(s[l], h)])',
         InsertHead(t) \/ InsertLink(t)
  PROVE  Mapped
<1>0. PICK z : z = [s EXCEPT ![l] = Append(s[l], h)]
  OBVIOUS
<1>1. /\ UNCHANGED <<fresh, got>> /\ pc[t] \in {"head", "link"} /\ l \in Lists /\ h # NULL
      /\ \A m \in Lists : m # l => head'[m] = head[m]
  <2>1. ~segv'
    BY DEF Base
  <2> QED BY <2>1 DEF InsertHead, InsertLink, Follow, At, Base, Arguments, Calls, Inserting, TypeOK
<1>2. Moves(t, l) /\ (pc'[t] = "last" \/ (pc'[t] = "idle" /\ hand'[t] = NULL))
  <2>1. CASE InsertHead(t)
    BY <2>1, ReturnMoves DEF InsertHead
  <2>2. CASE InsertLink(t)
    <3>1. Goto(t, "last") /\ UNCHANGED <<fresh, hand, call>>
      BY <2>2 DEF InsertLink, Follow, Base
    <3> QED BY <3>1, GotoMoves DEF Places
  <2> QED BY <2>1, <2>2
<1>3. Ordered(z)' /\ z[l] = Append(s[l], h) /\ \A m \in Lists : m # l => z[m] = s[m]
  BY <1>0, <1>1 DEF Ordered
<1>4. Elsewhere(t, l)
  BY <1>1, <1>2, <1>3, OthersShown
<1>5. Forward(l) = s[l] /\ Forward(l)' = Append(s[l], h)
  BY <1>1, <1>2, <1>3, OwnForward, OwnForwardNext
<1>6. Held(t) = h /\ Held(t)' = NULL
  BY <1>1, <1>2 DEF Held
<1> QED BY <1>1, <1>4, <1>5, <1>6, MapsToInsert

\* An atom other than the first is out of the queue when next passes over it.
LEMMA UnlinkNextMaps ==
  ASSUME Base, Base', NEW s, Ordered(s), Ordered(s)', NEW t \in Threads, NEW l,
         call[t].list = l, UnlinkNext(t)
  PROVE  Mapped
<1> PICK q : q = s[l]
  OBVIOUS
<1>1. /\ UNCHANGED <<head, fresh, got, hand, call>> /\ pc[t] = "unnext" /\ Goto(t, "unprev")
  BY DEF UnlinkNext, At
<1>2. /\ l \in Lists /\ Moves(t, l) /\ pc'[t] = "unprev" /\ hand[t] = NULL
      /\ call[t].want \in Queries
  BY <1>1, GotoMoves DEF Base, Arguments, Calls, Unlinking, Places, TypeOK
<1>3. Elsewhere(t, l)
  BY <1>1, <1>2, OthersShown
<1>4. /\ Doing(t, q) /\ Doing(t, q)' /\ Headed(l, q) /\ Len(q) \in Nat
      /\ (q = <<>> <=> Len(q) = 0)
  <2>1. Doing(t, s[l]) /\ Headed(l, s[l]) /\ Len(s[l]) \in Nat /\ (s[l] = <<>> <=> Len(s[l]) = 0)
    BY <1>1, InCall
  <2>2. Doing(t, s[l])'
    <3>1. Doing(t, s[call[t].list])'
      BY <1>2 DEF Ordered, Shape
    <3> QED BY <1>1, <3>1
  <2> QED BY <2>1, <2>2
<1>5. PICK k \in 1 .. Len(q) : Chosen(t, q, k)
  BY <1>1, <1>4 DEF Doing, Unlinking
<1>6. PICK i \in 1 .. Len(q) : Chosen(t, q, i)' /\ NextPasses(q, i)'
  BY <1>2, <1>4 DEF Doing, Unlinking
<1>7. \A j \in 1 .. Len(q) : q[j] = q[k] => j = k
  BY <1>2 DEF Ordered, OnePlace
<1>8. i = k
  BY <1>1, <1>5, <1>6, <1>7 DEF Chosen
<1>9. Forward(l) = q /\ Forward(l)' = IF k = 1 THEN q ELSE RemoveAt(q, k)
  <2>1. Forward(l) = q
    BY <1>1, <1>2, OwnForward
  <2>2. Forward(l)' = IF k = 1 THEN q ELSE RemoveAt(q, k)
    BY <1>2, <1>6, <1>8, ForwardIsNext
  <2> QED BY <2>1, <2>2
<1>10. head'[l] = q[1] /\ call'[t].atom = q[k] /\ call'[t].list = l /\ 1 \in 1 .. Len(q)
  BY <1>1, <1>4, <1>5 DEF Headed, Chosen
<1>11. Held(t) = NULL /\ Held(t)' = IF k = 1 THEN NULL ELSE q[k]
  BY <1>1, <1>2, <1>7, <1>10 DEF Held
<1>12. CASE k = 1
  BY <1>1, <1>3, <1>9, <1>11, <1>12, MapsToNothing
<1>13. CASE k # 1
  <2>1. /\ call[t].want \in {0, Id[q[k]]}
        /\ \A j \in 1 .. (k - 1) : call[t].want \notin {0, Id[q[j]]}
    BY <1>5 DEF Chosen
  <2>2. /\ Forward(l)' = RemoveAt(Forward(l), k) /\ Held(t)' = Forward(l)[k]
        /\ k \in 1 .. Len(Forward(l))
    BY <1>9, <1>11, <1>13
  <2> QED BY ZenonT(60), <1>1, <1>2, <1>3, <1>9, <1>11, <2>1, <2>2, MapsToExtract
<1> QED BY <1>12, <1>13

\* The first atom is out of the queue when the head has passed to the next one.
LEMMA UnlinkHeadMaps ==
  ASSUME Base, Base', NEW s, Ordered(s), NEW t \in Threads, NEW l, call[t].list = l,
         UnlinkHead(t), NEW k \in 1 .. Len(s[l]), Chosen(t, s[l], k), NextPasses(s[l], k),
         hand' = [hand EXCEPT ![t] = s[l][k]], Ordered([s EXCEPT ![l] = RemoveAt(s[l], k)])'
  PROVE  Mapped
<1> PICK q : q = s[l]
  OBVIOUS
<1>0. PICK z : z = [s EXCEPT ![l] = RemoveAt(q, k)]
  OBVIOUS
<1>1. /\ UNCHANGED <<fresh, got>> /\ pc[t] = "unhead" /\ l \in Lists /\ hand[t] = NULL
      /\ call[t].want \in Queries /\ Return(t)
      /\ \A m \in Lists : m # l => head'[m] = head[m]
  BY DEF UnlinkHead, At, Base, Arguments, Calls, Unlinking, TypeOK
<1>2. Moves(t, l) /\ pc'[t] = "idle" /\ hand'[t] = q[k]
  BY <1>1, ReturnMoves
<1>3. Ordered(z)' /\ z[l] = RemoveAt(q, k) /\ \A m \in Lists : m # l => z[m] = s[m]
  BY <1>0, <1>1 DEF Ordered
<1>4. Elsewhere(t, l)
  BY <1>1, <1>2, <1>3, OthersShown
<1>5. Forward(l) = (IF k = 1 THEN q ELSE RemoveAt(q, k)) /\ Forward(l)' = RemoveAt(q, k)
  <2>1. Forward(l) = IF k = 1 THEN q ELSE RemoveAt(q, k)
    BY <1>1, ForwardIs
  <2>2. Forward(l)' = RemoveAt(q, k)
    BY <1>1, <1>2, <1>3, OwnForwardNext
  <2> QED BY <2>1, <2>2
<1>6. head[l] = q[1] /\ call[t].atom = q[k] /\ 1 \in 1 .. Len(q)
  <2>1. Headed(l, q) /\ Len(q) \in Nat /\ (q = <<>> <=> Len(q) = 0)
    BY <1>1, InCall
  <2> QED BY <2>1 DEF Headed, Chosen
<1>7. \A j \in 1 .. Len(q) : q[j] = q[k] => j = k
  BY <1>1 DEF Ordered, OnePlace
<1>8. Held(t) = (IF k = 1 THEN NULL ELSE q[k]) /\ Held(t)' = q[k]
  BY <1>1, <1>2, <1>6, <1>7 DEF Held
<1>9. CASE k # 1
  BY <1>1, <1>4, <1>5, <1>8, <1>9, MapsToNothing
<1>10. CASE k = 1
  <2>1. /\ call[t].want \in {0, Id[q[k]]}
        /\ \A j \in 1 .. (k - 1) : call[t].want \notin {0, Id[q[j]]}
    BY DEF Chosen
  <2>2. /\ Forward(l)' = RemoveAt(Forward(l), k) /\ Held(t)' = Forward(l)[k]
        /\ k \in 1 .. Len(Forward(l)) /\ Forward(l) = q
    BY <1>5, <1>8, <1>10
  <2>3. Held(t) = NULL
    BY <1>8, <1>10
  <2> QED BY <1>1, <1>4, <2>1, <2>2, <2>3, MapsToExtract
<1> QED BY <1>9, <1>10

\* A search that finds nothing, or a count: the answer is that of the queue.
LEMMA FinishMaps ==
  ASSUME Base, NEW s, Ordered(s), NEW t \in Threads, NEW l, call[t].list = l,
         pc[t] \in Searching, NEW n, Finish(t, n),
         call[t].op = "count" => n = Len(s[l]),
         call[t].op # "count" =>
           \A j \in 1 .. Len(s[l]) : call[t].want \notin {0, Id[s[l][j]]}
  PROVE  Mapped
<1>1. /\ UNCHANGED <<head, next, fresh, hand>> /\ Return(t)
      /\ got' = CASE call[t].op = "count" -> [got EXCEPT ![t] = n]
                  [] call[t].op = "find" -> [got EXCEPT ![t] = NULL]
                  [] OTHER -> got
  BY DEF Finish, ring
<1>2. /\ \A u \in Threads : u # t => pc'[u] = pc[u] /\ call'[u] = call[u] /\ hand'[u] = hand[u]
      /\ pc'[t] = "idle" /\ hand'[t] = hand[t]
  BY <1>1 DEF Return, Goto, Base, TypeOK
<1>3. l \in Lists /\ call[t].want \in Queries
  BY DEF Base, Arguments, Searching, TypeOK
<1>4. Held(t)' = Held(t)
  BY <1>1, <1>2 DEF Held, Searching
<1>5. Forward(l) = s[l]
  BY <1>3, OwnForward DEF Searching
<1>6. Forward(l)' = Forward(l) /\ Elsewhere(t, l)
  BY <1>1, <1>2, <1>3, SameForward, OthersHold DEF Elsewhere
<1>7. CASE call[t].op = "count"
  <2>1. got' = [got EXCEPT ![t] = Len(Forward(l))]
    BY <1>1, <1>5, <1>7
  <2> QED BY <1>1, <1>3, <1>4, <1>6, <2>1, MapsToCount
<1>8. CASE call[t].op = "find"
  <2>1. got' = [got EXCEPT ![t] = NULL]
    BY <1>1, <1>8
  <2>2. \A j \in 1 .. Len(Forward(l)) : call[t].want \notin {0, Id[Forward(l)[j]]}
    BY <1>5, <1>8
  <2> QED BY <1>1, <1>3, <1>4, <1>6, <2>1, <2>2, MapsToMiss
<1>9. CASE call[t].op \notin {"count", "find"}
  <2>1. UNCHANGED got
    BY <1>1, <1>9
  <2> QED BY <1>1, <1>2, <1>4, <2>1, QuietMaps
<1> QED BY <1>7, <1>8, <1>9

\* A search that finds place k: the first of the queue that it looks for.
LEMMA FoundMaps ==
  ASSUME Base, NEW s, Ordered(s), NEW t \in Threads, NEW l, call[t].list = l,
         pc[t] \in Searching, NEW k \in 1 .. Len(s[l]), NEW a, a = s[l][k], Found(t, a),
         call[t].want \in {0, Id[a]},
         \A j \in 1 .. (k - 1) : call[t].want \notin {0, Id[s[l][j]]}
  PROVE  Mapped
<1>1. UNCHANGED <<head, next, fresh, hand>>
  BY DEF Found, ring
<1>2. l \in Lists /\ call[t].want \in Queries
  BY DEF Base, Arguments, Searching, TypeOK
<1>3. CASE call[t].op = "find"
  <2>1. Return(t) /\ got' = [got EXCEPT ![t] = a]
    BY <1>3 DEF Found
  <2>2. /\ \A u \in Threads : u # t => pc'[u] = pc[u] /\ call'[u] = call[u] /\ hand'[u] = hand[u]
        /\ pc'[t] = "idle" /\ hand'[t] = hand[t]
    BY <1>1, <2>1 DEF Return, Goto, Base, TypeOK
  <2>3. Held(t)' = Held(t)
    BY <1>1, <2>2 DEF Held, Searching
  <2>4. Forward(l) = s[l]
    BY <1>2, OwnForward DEF Searching
  <2>5. Forward(l)' = Forward(l) /\ Elsewhere(t, l)
    BY <1>1, <1>2, <2>2, SameForward, OthersHold DEF Elsewhere
  <2>6. /\ k \in 1 .. Len(Forward(l)) /\ got' = [got EXCEPT ![t] = Forward(l)[k]]
        /\ call[t].want \in {0, Id[Forward(l)[k]]}
        /\ \A j \in 1 .. (k - 1) : call[t].want \notin {0, Id[Forward(l)[j]]}
    BY <2>1, <2>4
  <2> QED BY <1>1, <1>2, <2>3, <2>5, <2>6, MapsToFind
<1>4. CASE call[t].op # "find"
  <2>1. /\ Goto(t, "unnext") /\ call' = [call EXCEPT ![t].atom = a] /\ UNCHANGED got
    BY <1>4 DEF Found
  <2>2. /\ \A u \in Threads : u # t => pc'[u] = pc[u] /\ call'[u] = call[u] /\ hand'[u] = hand[u]
        /\ pc'[t] = "unnext" /\ hand'[t] = hand[t]
    BY <1>1, <2>1 DEF Goto, Base, TypeOK
  <2>3. Held(t)' = Held(t)
    BY <1>1, <2>2 DEF Held, Searching
  <2> QED BY <1>1, <2>1, <2>2, <2>3, QuietMaps
<1> QED BY <1>3, <1>4

\* Entering a search: an empty list, the query NULL, or the walk begins.
LEMMA EnterMaps ==
  ASSUME Base, NEW s, Ordered(s), NEW t \in Threads, NEW l, call[t].list = l, Enter(t)
  PROVE  Mapped
<1> PICK q : q = s[l]
  OBVIOUS
<1>1. pc[t] = "enter" /\ pc[t] \in Searching
  BY DEF Enter, At, Searching
<1>2. /\ Headed(l, q) /\ Len(q) \in Nat /\ (q = <<>> <=> Len(q) = 0)
      /\ \A i \in 1 .. Len(q) : q[i] \in Atoms
  BY <1>1, InCall
<1>3. CASE head[l] = NULL
  <2>1. q = <<>> /\ Len(q) = 0
    <3>1. q # <<>> => 1 \in 1 .. Len(q) /\ head[l] = q[1]
      BY <1>2 DEF Headed
    <3> QED BY <1>2, <1>3, <3>1, ConstantsAssumption
  <2>2. Finish(t, 0)
    BY <1>3 DEF Enter
  <2>3. \A j \in 1 .. Len(s[l]) : call[t].want \notin {0, Id[s[l][j]]}
    BY <2>1
  <2>4. 0 = Len(s[l])
    BY <2>1
  <2> QED BY <1>1, <2>2, <2>3, <2>4, FinishMaps
<1>4. CASE head[l] # NULL /\ call[t].op # "count" /\ call[t].want = 0
  <2>1. head[l] = s[l][1] /\ 1 \in 1 .. Len(s[l])
    BY <1>2, <1>4 DEF Headed
  <2>2. Found(t, head[l])
    BY <1>4 DEF Enter
  <2>3. \A j \in 1 .. (1 - 1) : call[t].want \notin {0, Id[s[l][j]]}
    OBVIOUS
  <2> QED BY <1>1, <1>4, <2>1, <2>2, <2>3, FoundMaps
<1>5. CASE head[l] # NULL /\ ~(call[t].op # "count" /\ call[t].want = 0)
  <2>1. /\ call' = [call EXCEPT ![t].db = head[l], ![t].atom = head[l]] /\ Goto(t, "walk")
        /\ UNCHANGED <<head, next, fresh, hand, got>>
    BY <1>5 DEF Enter, ring
  <2>2. /\ pc'[t] = "walk" /\ hand'[t] = hand[t]
        /\ \A u \in Threads : u # t => pc'[u] = pc[u] /\ call'[u] = call[u] /\ hand'[u] = hand[u]
    BY <2>1 DEF Goto, Base, TypeOK
  <2>3. Held(t)' = Held(t)
    BY <1>1, <2>2 DEF Held
  <2> QED BY <2>1, <2>2, <2>3, QuietMaps
<1> QED BY <1>3, <1>4, <1>5

\* A round of the loop: the atom is found, the ring is closed, or the walk goes on.
LEMMA WalkMaps ==
  ASSUME Base, NEW s, Ordered(s), NEW t \in Threads, NEW l, call[t].list = l, Walk(t)
  PROVE  Mapped
<1> PICK q : q = s[l]
  OBVIOUS
<1>1. pc[t] = "walk" /\ pc[t] \in Searching
  BY DEF Walk, At, Searching
<1>2. /\ l \in Lists /\ Len(q) \in Nat
      /\ \A i \in 1 .. Len(q) : q[i] \in Atoms /\ Id[q[i]] # 0
      /\ (call[t].op # "count" => call[t].want # 0)
  <2>1. l \in Lists /\ Doing(t, q) /\ Len(q) \in Nat /\ \A i \in 1 .. Len(q) : q[i] \in Atoms
    BY <1>1, InCall
  <2>2. \A i \in 1 .. Len(q) : Id[q[i]] # 0
    BY <2>1, ConstantsAssumption
  <2> QED BY <1>1, <2>1, <2>2 DEF Doing
<1>3. PICK k \in 1 .. Len(q) :
        /\ Walked(t, q, k) /\ UNCHANGED segv
        /\ \/ Wanted(t) /\ Found(t, q[k])
           \/ ~Wanted(t) /\ k = Len(q) /\ Finish(t, Counted(t))
           \/ /\ ~Wanted(t) /\ k < Len(q)
              /\ call' = [call EXCEPT ![t].atom = q[k + 1], ![t].count =
                            IF call[t].op = "count" THEN Counted(t) ELSE 0]
              /\ UNCHANGED <<ring, fresh, hand, got, pc>>
  BY ZenonT(60), WalkCases
<1>4. call[t].op # "count" => \A j \in 1 .. (k - 1) : call[t].want \notin {0, Id[q[j]]}
  <2>1. \A j \in 1 .. (k - 1) : j \in 1 .. Len(q)
    BY <1>2
  <2> QED BY <1>2, <1>3, <2>1 DEF Walked
<1>5. CASE Wanted(t) /\ Found(t, q[k])
  <2>1. /\ call[t].op # "count" /\ call[t].want \in {0, Id[q[k]]}
    BY <1>3, <1>5 DEF Wanted, Walked
  <2> QED BY <1>1, <1>4, <1>5, <2>1, FoundMaps
<1>6. CASE ~Wanted(t) /\ k = Len(q) /\ Finish(t, Counted(t))
  <2>1. call[t].op = "count" => Counted(t) = Len(s[l])
    <3>1. Len(q) <= Cardinality(Atoms) /\ Cardinality(Atoms) \in Nat
      BY <1>2, LengthBound
    <3> QED BY <1>2, <1>3, <1>6, <3>1, ConstantsAssumption DEF Counted, Walked
  <2>2. ASSUME call[t].op # "count", NEW j \in 1 .. Len(q)
        PROVE  call[t].want \notin {0, Id[q[j]]}
    <3>1. CASE j = k
      BY <1>2, <1>3, <1>6, <2>2, <3>1 DEF Wanted, Walked
    <3>2. CASE j # k
      <4>1. j \in 1 .. (k - 1)
        BY <1>2, <1>6, <3>2
      <4> QED BY <1>4, <2>2, <4>1
    <3> QED BY <3>1, <3>2
  <2> QED BY <1>1, <1>6, <2>1, <2>2, FinishMaps
<1>7. CASE /\ ~Wanted(t) /\ k < Len(q)
           /\ call' = [call EXCEPT ![t].atom = q[k + 1], ![t].count =
                         IF call[t].op = "count" THEN Counted(t) ELSE 0]
           /\ UNCHANGED <<ring, fresh, hand, got, pc>>
  <2>1. /\ UNCHANGED <<head, next, fresh, hand, got, pc>>
        /\ \A u \in Threads : u # t => call'[u] = call[u]
    BY <1>7 DEF ring, Base, TypeOK
  <2>2. Held(t)' = Held(t)
    BY <1>1, <2>1 DEF Held
  <2> QED BY <2>1, <2>2, QuietMaps
<1> QED BY <1>3, <1>5, <1>6, <1>7

\* Between its calls a thread allocates, drops what a call returned, or begins.
LEMMA IdleMaps ==
  ASSUME Base, NEW t \in Threads,
         \/ Allocate(t) \/ Drop(t)
         \/ \E o \in Ops, l \in Lists, w \in Queries : Begin(t, o, l, w)
  PROVE  Mapped
<1>0. pc[t] = "idle"
  BY DEF Allocate, Drop, Begin, At
<1> DEFINE pool == [m \in Lists |-> Forward(m)]
           holds == [u \in Threads |-> Held(u)]
<1>1. UNCHANGED <<head, next>> => pool' = pool
  BY SameForward
<1>2. CASE Allocate(t)
  <2>1. PICK a \in fresh : hand' = [hand EXCEPT ![t] = a] /\ fresh' = fresh \ {a}
    BY <1>2 DEF Allocate
  <2>2. UNCHANGED <<head, next, got, pc, call>> /\ hand[t] = NULL
    BY <1>2 DEF Allocate, ring
  <2>3. \A u \in Threads : Held(u)' = IF u = t THEN a ELSE Held(u)
    BY <1>0, <2>1, <2>2 DEF Held, Base, TypeOK
  <2>4. holds' = [holds EXCEPT ![t] = a] /\ holds[t] = NULL
    BY <1>0, <2>2, <2>3 DEF Held
  <2>5. Fifo!Allocate(t)
    BY <1>1, <2>1, <2>2, <2>4 DEF Fifo!Allocate
  <2> QED BY <2>5 DEF Mapped, Fifo!Next
<1>3. CASE Drop(t)
  <2>1. UNCHANGED <<head, next, fresh, hand, pc, call>> /\ got' = [got EXCEPT ![t] = NULL]
    BY <1>3 DEF Drop, ring
  <2>2. holds' = holds
    BY <2>1 DEF Held
  <2>3. Fifo!Drop(t)
    BY <1>1, <2>1, <2>2 DEF Fifo!Drop
  <2> QED BY <2>3 DEF Mapped, Fifo!Next
<1>4. ASSUME NEW o \in Ops, NEW l \in Lists, NEW w \in Queries, Begin(t, o, l, w)
      PROVE  Mapped
  <2>1. /\ UNCHANGED <<head, next, fresh, got, hand>>
        /\ \A u \in Threads : u # t => pc'[u] = pc[u] /\ call'[u] = call[u]
        /\ pc'[t] \in {"test", "enter"}
    BY <1>4 DEF Begin, Goto, ring, Base, TypeOK
  <2>2. Held(t)' = Held(t)
    BY <1>0, <2>1 DEF Held
  <2> QED BY <2>1, <2>2, QuietMaps
<1> QED BY <1>2, <1>3, <1>4

\* Each step of the pointer code is a step of the queues or none.
LEMMA StepMaps == ~Overlap /\ Inv /\ [Next]_vars => [Fifo!Next]_(Fifo!vars)
<1> SUFFICES ASSUME ~Overlap, Base, NEW s, Ordered(s), [Next]_vars
             PROVE  Mapped
  BY DEF Inv, Mapped
<1>1. CASE UNCHANGED vars
  <2>1. UNCHANGED <<head, next, fresh, hand, got, pc, call>>
    BY <1>1 DEF vars, ring
  <2>2. [l \in Lists |-> Forward(l)]' = [l \in Lists |-> Forward(l)]
    BY <2>1, SameForward
  <2>3. [u \in Threads |-> Held(u)]' = [u \in Threads |-> Held(u)]
    BY <2>1 DEF Held
  <2> QED BY <2>1, <2>2, <2>3 DEF Mapped, Fifo!vars
<1>2. ASSUME NEW t \in Threads, Inside(t) PROVE Mapped
  <2>1. PICK l, h : call[t].list = l /\ hand[t] = h
    OBVIOUS
  <2>2. CASE Enter(t) \/ Walk(t)
    BY <2>1, <2>2, EnterMaps, WalkMaps
  <2>3. CASE InsertTest(t) \/ InsertPrev(t) \/ InsertLast(t) \/ UnlinkPrev(t)
    <3>1. Calls' /\ OneCall' /\ ~segv'
      BY <2>1, <2>3, InsertTestStep, InsertPrevStep, InsertLastStep, UnlinkPrevStep
    <3> QED BY <2>3, <3>1, BaseKept, PointerStepMaps
  <2>4. CASE InsertAlone(t) \/ InsertNext(t)
    <3>1. Calls' /\ OneCall' /\ ~segv' /\ Ordered(s)'
      BY <2>1, <2>4, InsertAloneStep, InsertNextStep
    <3> QED BY <2>4, <3>1, BaseKept, PrepareMaps
  <2>5. CASE InsertHead(t) \/ InsertLink(t)
    <3>1. Calls' /\ OneCall' /\ ~segv' /\ Ordered([s EXCEPT ![l] = Append(s[l], h)])'
      BY <2>1, <2>5, InsertHeadStep, InsertLinkStep
    <3> QED BY <2>1, <2>5, <3>1, BaseKept, LinkMaps
  <2>6. CASE UnlinkNext(t)
    <3>1. Calls' /\ OneCall' /\ ~segv' /\ Ordered(s)'
      BY <2>1, <2>6, UnlinkNextStep
    <3> QED BY <2>1, <2>6, <3>1, BaseKept, UnlinkNextMaps
  <2>7. CASE UnlinkHead(t)
    <3>1. Calls' /\ OneCall' /\ ~segv'
      BY <2>1, <2>7, UnlinkHeadStep
    <3>2. PICK k \in 1 .. Len(s[l]) :
            /\ Chosen(t, s[l], k) /\ NextPasses(s[l], k)
            /\ hand' = [hand EXCEPT ![t] = s[l][k]]
            /\ Ordered([s EXCEPT ![l] = RemoveAt(s[l], k)])'
      BY <2>1, <2>7, UnlinkHeadStep
    <3> QED BY <2>1, <2>7, <3>1, <3>2, BaseKept, UnlinkHeadMaps
  <2> QED BY <1>2, <2>2, <2>3, <2>4, <2>5, <2>6, <2>7 DEF Inside, Insert
<1>3. CASE Next
  BY <1>2, <1>3, IdleMaps DEF Next
<1> QED BY <1>1, <1>3

\* All queues are empty at the start.
LEMMA InitMaps == Init => Fifo!Init
<1> SUFFICES ASSUME Init, Base, NEW s, Ordered(s) PROVE Fifo!Init
  BY InitOrdered DEF Inv
<1>1. ASSUME NEW l \in Lists PROVE Forward(l) = <<>>
  <2>1. s[l] = <<>>
    <3>1. head[l] = NULL /\ head[l] = IF s[l] = <<>> THEN NULL ELSE s[l][1]
      BY DEF Init, Ordered, Shape, Headed
    <3>2. s[l] # <<>> => s[l][1] \in Atoms
      <4>1. s[l] \in Seq(Atoms)
        BY DEF Ordered
      <4>2. s[l] # <<>> => 1 \in 1 .. Len(s[l])
        BY <4>1, EmptySeq, LenProperties
      <4> QED BY <4>1, <4>2, ElementOfSeq
    <3> QED BY <3>1, <3>2, ConstantsAssumption
  <2>2. \A t \in Threads : pc[t] = "idle"
    BY DEF Init
  <2>3. Forward(l) = s[l]
    BY <2>2, ForwardIs
  <2> QED BY <2>1, <2>3
<1>2. \A t \in Threads : Held(t) = NULL
  BY DEF Init, Held
<1>3. fresh = Atoms /\ got = [t \in Threads |-> NULL]
  BY DEF Init
<1> QED BY <1>1, <1>2, <1>3 DEF Fifo!Init

(* fsdb.c, 81-262: the pointer code implements the queues: each insertion,     *)
(* extraction, search and count takes effect at one of its statements, whatever *)
(* the calls on the other lists do in between.                                 *)
THEOREM ListsAreQueues == ~Overlap => (Spec => ImplementsFifo)
<1> SUFFICES ASSUME ~Overlap PROVE Spec => ImplementsFifo
  OBVIOUS
<1>1. Inv /\ [Next]_vars => [Fifo!Next]_(Fifo!vars)
  BY StepMaps
<1> QED BY <1>1, InitMaps, Invariance, PTL DEF Spec, ImplementsFifo, Fifo!Spec

-----------------------------------------------------------------------------
(* What _free_db does to a list that no call is at work on. *)

\* q is the order of a list whose ring is closed both ways.
Closed(q) ==
  /\ q \in Seq(Atoms) /\ Len(q) \in Nat \ {0}
  /\ \A i, j \in 1 .. Len(q) : q[i] = q[j] => i = j
  /\ \A i \in 1 .. Len(q) : q[i] \in Atoms
  /\ NextClosed(q) /\ PrevClosed(q)

\* Every round but the first writes to the atom that the round before it freed.
Rewrites(j) == IF j = 0 THEN 0 ELSE j - 1

\* After j rounds: the second atom and those after it are freed, and the atoms
\* before them lead nowhere any more; the last round frees the first atom.
AfterRounds(q, j) ==
  [next |-> [a \in Atoms |-> IF \E i \in 1 .. j : a = q[i] THEN NULL ELSE next[a]],
   atom |-> IF j < Len(q) THEN q[After(Len(q), j + 1)] ELSE NULL,
   freed |-> [i \in 1 .. j |-> q[After(Len(q), i)]],
   stray |-> [i \in 1 .. Rewrites(j) |-> q[After(Len(q), i)]]]

\* Before the first round the loop is at the second atom.
LEMMA FreeStart ==
  ASSUME Base, NEW q, Closed(q), NEW first, first = q[1]
  PROVE  AfterRounds(q, 0) = [next |-> next, atom |-> next[first], freed |-> <<>>, stray |-> <<>>]
<1>1. [a \in Atoms |-> IF \E i \in 1 .. 0 : a = q[i] THEN NULL ELSE next[a]] = next
  <2>1. next = [a \in Atoms |-> next[a]]
    BY DEF Base, TypeOK
  <2>2. \A a \in Atoms : ~\E i \in 1 .. 0 : a = q[i]
    OBVIOUS
  <2> QED BY <2>1, <2>2
<1>2. 0 < Len(q) /\ 0 + 1 = 1 /\ next[first] = q[After(Len(q), 1)]
  <2>1. 1 \in 1 .. Len(q) /\ 0 < Len(q)
    BY DEF Closed
  <2> QED BY <2>1 DEF Closed, NextClosed
<1>3. [i \in 1 .. 0 |-> q[After(Len(q), i)]] = <<>>
  <2>1. \A i \in 1 .. 0 : q[After(Len(q), i)] \in Atoms
    OBVIOUS
  <2>2. /\ [i \in 1 .. 0 |-> q[After(Len(q), i)]] \in Seq(Atoms)
        /\ Len([i \in 1 .. 0 |-> q[After(Len(q), i)]]) = 0
    BY <2>1, IsASeq
  <2> QED BY <2>2, EmptySeq
<1>4. (IF 0 < Len(q) THEN q[After(Len(q), 0 + 1)] ELSE NULL) = next[first]
  BY <1>2
<1>5. Rewrites(0) = 0
  BY DEF Rewrites
<1> QED BY <1>1, <1>3, <1>4, <1>5 DEF AfterRounds

\* The list of what j rounds free grows by what the next one frees.
AppendedFrom(q, j) ==
  Append([i \in 1 .. j |-> q[After(Len(q), i)]], q[After(Len(q), j + 1)])
    = [i \in 1 .. (j + 1) |-> q[After(Len(q), i)]]
LEMMA GrownByOne ==
  ASSUME NEW q, Closed(q), NEW j \in 0 .. Len(q) - 1
  PROVE  AppendedFrom(q, j)
<1> PICK n : n = Len(q)
  OBVIOUS
<1>1. n \in Nat \ {0} /\ j \in 0 .. n - 1
  BY DEF Closed
<1> PICK f : f = [i \in 1 .. j |-> q[After(n, i)]]
  OBVIOUS
<1> PICK x : x = q[After(n, j + 1)]
  OBVIOUS
<1>2. \A i \in 1 .. (j + 1) : After(n, i) \in 1 .. n
  BY <1>1 DEF After
<1>3. \A i \in 1 .. (j + 1) : q[After(n, i)] \in Atoms
  BY <1>2 DEF Closed
<1>4. f \in Seq(Atoms) /\ Len(f) = j /\ x \in Atoms
  <2>1. \A i \in 1 .. j : q[After(n, i)] \in Atoms
    BY <1>1, <1>3
  <2>2. j + 1 \in 1 .. (j + 1)
    BY <1>1
  <2> QED BY <1>1, <1>3, <2>1, <2>2, IsASeq
<1>5. /\ Append(f, x) \in Seq(Atoms) /\ Len(Append(f, x)) = j + 1
      /\ \A i \in 1 .. j : Append(f, x)[i] = f[i]
      /\ Append(f, x)[j + 1] = x
  BY <1>4, AppendProperties
<1>6. Append(f, x) = [i \in 1 .. (j + 1) |-> Append(f, x)[i]]
  BY <1>5, LenProperties
<1>7. ASSUME NEW i \in 1 .. (j + 1) PROVE Append(f, x)[i] = q[After(n, i)]
  <2>1. i = j + 1 \/ i \in 1 .. j
    BY <1>1
  <2> QED BY <1>5, <2>1
<1> QED BY <1>6, <1>7 DEF AppendedFrom

\* Each round frees one more.
LEMMA FreeNext ==
  ASSUME Base, NEW q, Closed(q), NEW j \in 0 .. Len(q) - 1
  PROVE  /\ FreeRound(AfterRounds(q, j)) = AfterRounds(q, j + 1)
         /\ AfterRounds(q, j).atom # NULL
<1> PICK n : n = Len(q)
  OBVIOUS
<1>1. /\ n \in Nat \ {0} /\ j \in 0 .. n - 1 /\ j + 1 \in 1 .. n /\ j < n
  BY DEF Closed
<1>2. PICK k : k = After(n, j + 1)
  OBVIOUS
<1>3. /\ k \in 1 .. n /\ Before(n, k) = j + 1
      /\ (j + 1 < n => k = (j + 1) + 1 /\ k \notin 1 .. j + 1 /\ ~(n < k))
      /\ (~(j + 1 < n) => k = 1 /\ k \in 1 .. j + 1)
  BY <1>1, <1>2 DEF After, Before
<1>4. /\ AfterRounds(q, j).atom = q[k] /\ q[k] \in Atoms /\ q[k] # NULL
      /\ AfterRounds(q, j).freed = [i \in 1 .. j |-> q[After(n, i)]]
      /\ AfterRounds(q, j).next =
           [a \in Atoms |-> IF \E i \in 1 .. j : a = q[i] THEN NULL ELSE next[a]]
  BY <1>1, <1>2, <1>3, ConstantsAssumption DEF AfterRounds, Closed
<1>5. prev[q[k]] = q[j + 1] /\ q[j + 1] \in Atoms
  BY <1>1, <1>3 DEF Closed, PrevClosed
<1> PICK cut : cut = [AfterRounds(q, j).next EXCEPT ![prev[q[k]]] = NULL]
  OBVIOUS
<1>6. cut = [a \in Atoms |-> IF \E i \in 1 .. (j + 1) : a = q[i] THEN NULL ELSE next[a]]
  <2>1. \A a \in Atoms : (\E i \in 1 .. (j + 1) : a = q[i]) <=>
          (a = q[j + 1] \/ \E i \in 1 .. j : a = q[i])
    BY <1>1
  <2>2. cut = [a \in Atoms |-> IF a = q[j + 1] THEN NULL
                 ELSE IF \E i \in 1 .. j : a = q[i] THEN NULL ELSE next[a]]
    BY <1>4, <1>5
  <2> QED BY <2>1, <2>2
<1>7. cut[q[k]] = IF j + 1 < n THEN q[After(n, (j + 1) + 1)] ELSE NULL
  <2>1. CASE j + 1 < n
    <3>1. \A i \in 1 .. (j + 1) : i \in 1 .. n /\ i # k
      BY <1>1, <1>3, <2>1
    <3>2. ~\E i \in 1 .. (j + 1) : q[k] = q[i]
      BY <1>3, <3>1 DEF Closed
    <3>3. next[q[k]] = q[After(n, k)]
      BY <1>3 DEF Closed, NextClosed
    <3>4. cut[q[k]] = next[q[k]]
      BY <1>4, <1>6, <3>2
    <3> QED BY <1>3, <2>1, <3>3, <3>4
  <2>2. CASE ~(j + 1 < n)
    <3>1. \E i \in 1 .. (j + 1) : q[k] = q[i]
      BY <1>3, <2>2
    <3> QED BY <1>4, <1>6, <2>2, <3>1
  <2> QED BY <2>1, <2>2
<1>8. AppendedFrom(q, j)
  BY <1>1, GrownByOne
<1>9. Append(AfterRounds(q, j).freed, q[k]) = [i \in 1 .. (j + 1) |-> q[After(n, i)]]
  BY <1>1, <1>2, <1>4, <1>8 DEF AppendedFrom
<1>10. (IF q[j + 1] \in Elements(AfterRounds(q, j).freed)
          THEN Append(AfterRounds(q, j).stray, q[j + 1]) ELSE AfterRounds(q, j).stray)
         = [i \in 1 .. Rewrites(j + 1) |-> q[After(n, i)]]
  <2>1. AfterRounds(q, j).stray = [i \in 1 .. Rewrites(j) |-> q[After(n, i)]]
    BY DEF AfterRounds
  <2>2. CASE j = 0
    <3>1. Elements(AfterRounds(q, j).freed) = {}
      BY <1>4, <2>2 DEF Elements
    <3>2. Rewrites(j) = 0 /\ Rewrites(j + 1) = 0
      BY <2>2 DEF Rewrites
    <3> QED BY <2>1, <3>1, <3>2
  <2>3. CASE j # 0
    <3>1. /\ j \in 1 .. j /\ After(n, j) = j + 1 /\ (j - 1) + 1 = j
          /\ Rewrites(j) = j - 1 /\ Rewrites(j + 1) = j /\ j - 1 \in 0 .. n - 1
      BY <1>1, <2>3 DEF After, Rewrites
    <3>2. q[j + 1] \in Elements(AfterRounds(q, j).freed)
      BY <1>4, <3>1 DEF Elements
    <3>3. AppendedFrom(q, j - 1)
      BY <3>1, GrownByOne
    <3> QED BY <2>1, <3>1, <3>2, <3>3 DEF AppendedFrom
  <2> QED BY <2>2, <2>3
<1>11. FreeRound(AfterRounds(q, j)) =
         [next |-> cut, atom |-> cut[q[k]], freed |-> Append(AfterRounds(q, j).freed, q[k]),
          stray |-> IF q[j + 1] \in Elements(AfterRounds(q, j).freed)
                      THEN Append(AfterRounds(q, j).stray, q[j + 1])
                      ELSE AfterRounds(q, j).stray]
  BY <1>4, <1>5 DEF FreeRound
<1>12. AfterRounds(q, j + 1) =
         [next |-> cut, atom |-> cut[q[k]],
          freed |-> [i \in 1 .. (j + 1) |-> q[After(n, i)]],
          stray |-> [i \in 1 .. Rewrites(j + 1) |-> q[After(n, i)]]]
  BY <1>6, <1>7 DEF AfterRounds
<1> QED BY <1>4, <1>9, <1>10, <1>11, <1>12

\* The rounds that are made from the second atom of the list on.
RoundsFrom(f, first) ==
  f = [n \in 0 .. Cardinality(Atoms) + 1 |->
         IF n = 0 THEN [next |-> next, atom |-> next[first], freed |-> <<>>, stray |-> <<>>]
         ELSE IF f[n - 1].atom = NULL THEN f[n - 1] ELSE FreeRound(f[n - 1])]

\* After Len(q) rounds nothing is left to do.
Ended(q, n) == AfterRounds(q, IF n < Len(q) THEN n ELSE Len(q))

\* One more round, or none when the loop has ended.
LEMMA FreeRoundOn ==
  ASSUME Base, NEW q, Closed(q), NEW n \in Nat, n # 0
  PROVE  Ended(q, n) = IF Ended(q, n - 1).atom = NULL THEN Ended(q, n - 1)
                       ELSE FreeRound(Ended(q, n - 1))
<1>1. CASE n - 1 < Len(q)
  <2>1. /\ n - 1 \in 0 .. Len(q) - 1 /\ (n - 1) + 1 = n
        /\ (~(n < Len(q)) => n = Len(q))
    BY <1>1 DEF Closed
  <2>2. Ended(q, n) = AfterRounds(q, n) /\ Ended(q, n - 1) = AfterRounds(q, n - 1)
    BY <1>1, <2>1 DEF Ended
  <2>3. /\ FreeRound(AfterRounds(q, n - 1)) = AfterRounds(q, n)
        /\ AfterRounds(q, n - 1).atom # NULL
    BY <2>1, FreeNext
  <2> QED BY <2>2, <2>3
<1>2. CASE ~(n - 1 < Len(q))
  <2>1. ~(n < Len(q))
    BY <1>2 DEF Closed
  <2>2. Ended(q, n) = AfterRounds(q, Len(q)) /\ Ended(q, n - 1) = AfterRounds(q, Len(q))
    BY <1>2, <2>1 DEF Ended
  <2>3. AfterRounds(q, Len(q)).atom = NULL
    BY DEF AfterRounds, Closed
  <2> QED BY <2>2, <2>3
<1> QED BY <1>1, <1>2

\* Whatever the rounds are, they are these.
LEMMA RoundsAre ==
  ASSUME Base, NEW q, Closed(q), NEW first, first = q[1],
         NEW f, RoundsFrom(f, first), NEW N \in Nat, N <= Cardinality(Atoms) + 1
  PROVE  f[N] = Ended(q, N)
<1> DEFINE S == {n \in 0 .. Cardinality(Atoms) + 1 : f[n] # Ended(q, n)}
<1>1. Cardinality(Atoms) + 1 \in Nat
  BY FS_CardinalityType, ConstantsAssumption
<1>2. SUFFICES ASSUME S # {} PROVE FALSE
  BY <1>1
<1>3. S \in SUBSET Nat
  BY <1>1
<1>4. PICK m \in S : \A i \in S : m <= i
  <2> HIDE DEF S
  <2> QED BY <1>2, <1>3, Least
<1>5. m \in 0 .. Cardinality(Atoms) + 1 /\ f[m] # Ended(q, m)
  OBVIOUS
<1>6. \A n \in 0 .. Cardinality(Atoms) + 1 : f[n] =
        IF n = 0 THEN [next |-> next, atom |-> next[first], freed |-> <<>>, stray |-> <<>>]
        ELSE IF f[n - 1].atom = NULL THEN f[n - 1] ELSE FreeRound(f[n - 1])
  BY DEF RoundsFrom
<1>7. CASE m = 0
  <2>1. Ended(q, 0) = AfterRounds(q, 0)
    BY DEF Ended, Closed
  <2> QED BY <1>5, <1>6, <1>7, <2>1, FreeStart
<1>8. CASE m # 0
  <2>1. m - 1 \in 0 .. Cardinality(Atoms) + 1 /\ m \in Nat /\ ~(m <= m - 1)
    BY <1>1, <1>5, <1>8
  <2>2. f[m - 1] = Ended(q, m - 1)
    BY <1>4, <2>1
  <2>3. f[m] = IF f[m - 1].atom = NULL THEN f[m - 1] ELSE FreeRound(f[m - 1])
    BY <1>5, <1>6, <1>8
  <2> QED BY <1>5, <1>8, <2>1, <2>2, <2>3, FreeRoundOn
<1> QED BY <1>7, <1>8

\* And there are such rounds.
LEMMA RoundsExist ==
  ASSUME Base, NEW q, Closed(q), NEW first, first = q[1]
  PROVE  \E f : RoundsFrom(f, first)
<1> DEFINE C == Cardinality(Atoms) + 1
           f == [n \in 0 .. C |-> Ended(q, n)]
<1>1. C \in Nat
  BY FS_CardinalityType, ConstantsAssumption
<1> HIDE DEF C
<1>2. ASSUME NEW n \in 0 .. C
      PROVE  f[n] = IF n = 0 THEN [next |-> next, atom |-> next[first], freed |-> <<>>, stray |-> <<>>]
                    ELSE IF f[n - 1].atom = NULL THEN f[n - 1] ELSE FreeRound(f[n - 1])
  <2>1. CASE n = 0
    <3>1. Ended(q, 0) = AfterRounds(q, 0)
      BY DEF Ended, Closed
    <3>2. f[0] = Ended(q, 0)
      BY <2>1
    <3> QED BY <2>1, <3>1, <3>2, FreeStart
  <2>2. CASE n # 0
    <3>1. n \in Nat /\ n - 1 \in 0 .. C
      BY <1>1, <2>2
    <3>2. f[n] = Ended(q, n) /\ f[n - 1] = Ended(q, n - 1)
      BY <3>1
    <3> HIDE DEF f
    <3> QED BY <2>2, <3>1, <3>2, FreeRoundOn
  <2> QED BY <2>1, <2>2
<1>3. f = [n \in 0 .. C |-> f[n]]
  OBVIOUS
<1> HIDE DEF f
<1>4. f = [n \in 0 .. C |->
             IF n = 0 THEN [next |-> next, atom |-> next[first], freed |-> <<>>, stray |-> <<>>]
             ELSE IF f[n - 1].atom = NULL THEN f[n - 1] ELSE FreeRound(f[n - 1])]
  BY <1>2, <1>3
<1>5. RoundsFrom(f, first)
  BY <1>4 DEF RoundsFrom, C
<1> QED BY <1>5

(* fsdb.c, 265-271: between the calls on a list of any length the loop of       *)
(* _free_db ends, has freed each atom of the list once and no other, and has    *)
(* written to freed memory in one way only: to the next pointer of each atom    *)
(* but the head, in the round after it was freed.                               *)
THEOREM ShutdownFreesOnce == ~Overlap => (Spec => []FreedOnce)
<1>1. Inv => FreedOnce
  <2> SUFFICES ASSUME Base, NEW s, Ordered(s), NEW l \in Lists, ~Busy(l), head[l] # NULL
               PROVE  /\ FreeRounds(l).atom = NULL
                      /\ Len(FreeRounds(l).freed) = Len(Forward(l))
                      /\ {FreeRounds(l).freed[i] : i \in DOMAIN FreeRounds(l).freed} = On(l)
                      /\ FreeRounds(l).stray =
                           [i \in 1 .. Len(FreeRounds(l).freed) - 1 |-> FreeRounds(l).freed[i]]
    BY DEF FreedOnce, Inv, Elements
  <2> PICK q : q = s[l]
    OBVIOUS
  <2>1. /\ Forward(l) = q /\ On(l) = {q[i] : i \in 1 .. Len(q)}
        /\ NextClosed(q) /\ PrevClosed(q)
    BY OnIs
  <2>2. /\ q \in Seq(Atoms) /\ Len(q) <= Cardinality(Atoms) /\ Cardinality(Atoms) \in Nat
        /\ Len(q) \in Nat
    BY LengthBound DEF Ordered
  <2>3. q # <<>> /\ head[l] = q[1]
    BY DEF Ordered, Shape, Headed
  <2>4. Closed(q)
    <3>1. \A i, j \in 1 .. Len(q) : q[i] = q[j] => i = j
      BY DEF Ordered, OnePlace
    <3> QED BY <2>1, <2>2, <2>3, <3>1, EmptySeq, ElementOfSeq DEF Closed
  <2>5. FreeRounds(l) = Ended(q, Cardinality(Atoms) + 1)
    <3> DEFINE f == CHOOSE g : RoundsFrom(g, head[l])
    <3>1. RoundsFrom(f, head[l])
      BY <2>3, <2>4, RoundsExist
    <3>2. FreeRounds(l) = f[Cardinality(Atoms) + 1]
      BY DEF FreeRounds, RoundsFrom
    <3>3. Cardinality(Atoms) + 1 \in Nat /\ Cardinality(Atoms) + 1 <= Cardinality(Atoms) + 1
      BY <2>2
    <3> HIDE DEF f
    <3> QED BY <2>3, <2>4, <3>1, <3>2, <3>3, RoundsAre
  <2>6. FreeRounds(l) = AfterRounds(q, Len(q))
    BY <2>2, <2>5 DEF Ended
  <2>7. FreeRounds(l).atom = NULL
    BY <2>2, <2>6 DEF AfterRounds
  <2>8. FreeRounds(l).freed = [i \in 1 .. Len(q) |-> q[After(Len(q), i)]]
    BY <2>6 DEF AfterRounds
  <2>9. \A i \in 1 .. Len(q) : After(Len(q), i) \in 1 .. Len(q) /\ Before(Len(q), i) \in 1 .. Len(q)
    BY <2>2, Neighbours
  <2>10. Len(FreeRounds(l).freed) = Len(q)
    <3>1. \A i \in 1 .. Len(q) : q[After(Len(q), i)] \in Atoms
      BY <2>4, <2>9 DEF Closed
    <3> QED BY <2>2, <2>8, <3>1, IsASeq
  <2>11. {FreeRounds(l).freed[i] : i \in DOMAIN FreeRounds(l).freed} =
           {q[After(Len(q), i)] : i \in 1 .. Len(q)}
    BY SMTT(60), <2>8
  <2>12. \A i \in 1 .. Len(q) : After(Len(q), Before(Len(q), i)) = i
    BY <2>2 DEF After, Before
  <2>13. {q[After(Len(q), i)] : i \in 1 .. Len(q)} = {q[i] : i \in 1 .. Len(q)}
    <3>1. ASSUME NEW i \in 1 .. Len(q) PROVE q[i] \in {q[After(Len(q), j)] : j \in 1 .. Len(q)}
      BY ZenonT(60), <2>9, <2>12
    <3>2. ASSUME NEW i \in 1 .. Len(q) PROVE q[After(Len(q), i)] \in {q[j] : j \in 1 .. Len(q)}
      BY <2>9
    <3> QED BY SMTT(60), <3>1, <3>2
  <2>14. FreeRounds(l).stray = [i \in 1 .. Len(q) - 1 |-> FreeRounds(l).freed[i]]
    <3>1. FreeRounds(l).stray = [i \in 1 .. Len(q) - 1 |-> q[After(Len(q), i)]]
      BY <2>4, <2>6 DEF AfterRounds, Rewrites, Closed
    <3>2. \A i \in 1 .. Len(q) - 1 : FreeRounds(l).freed[i] = q[After(Len(q), i)]
      BY <2>2, <2>8
    <3> QED BY <3>1, <3>2
  <2> QED BY <2>1, <2>7, <2>10, <2>11, <2>13, <2>14
<1> QED BY <1>1, Invariance, PTL

=============================================================================

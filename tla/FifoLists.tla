------------------------------ MODULE FifoLists ------------------------------
(***************************************************************************)
(* What the functions of fsdb.c promise their callers: each list is a      *)
(* queue.  Insertion is at the end; extraction and search give the first   *)
(* atom when the query is NULL and the first with the wanted id otherwise. *)
(* Every call takes effect at once.  FsdbRing implements it with pointers. *)
(***************************************************************************)
EXTENDS Naturals, Sequences, SequencesExt

CONSTANTS Atoms, Lists, Threads, Queries, Id, NULL

VARIABLES
  pool,     \* the atoms of each list, in order
  hand,     \* the atom each thread has allocated or extracted
  fresh,    \* atoms not allocated yet
  got       \* what the last search or count of each thread returned

vars == <<pool, hand, fresh, got>>

NoQuery == 0    \* the query NULL

Init ==
  /\ pool = [l \in Lists |-> <<>>]
  /\ hand = [t \in Threads |-> NULL]
  /\ fresh = Atoms
  /\ got = [t \in Threads |-> NULL]

IsFirst(l, w, k) ==
  /\ k \in 1 .. Len(pool[l])
  /\ w \in {NoQuery, Id[pool[l][k]]}
  /\ \A j \in 1 .. (k - 1) : w \notin {NoQuery, Id[pool[l][j]]}
Missing(l, w) == \A k \in 1 .. Len(pool[l]) : w \notin {NoQuery, Id[pool[l][k]]}

Allocate(t) ==
  /\ hand[t] = NULL
  /\ \E a \in fresh : hand' = [hand EXCEPT ![t] = a] /\ fresh' = fresh \ {a}
  /\ UNCHANGED <<pool, got>>

Insert(t, l) ==
  /\ hand[t] # NULL
  /\ pool' = [pool EXCEPT ![l] = Append(@, hand[t])]
  /\ hand' = [hand EXCEPT ![t] = NULL]
  /\ UNCHANGED <<fresh, got>>

\* When nothing matches, extraction returns NULL and changes nothing.
Extract(t, l, w) ==
  /\ hand[t] = NULL
  /\ \E k \in 1 .. Len(pool[l]) :
       /\ IsFirst(l, w, k)
       /\ hand' = [hand EXCEPT ![t] = pool[l][k]]
       /\ pool' = [pool EXCEPT ![l] = RemoveAt(@, k)]
  /\ UNCHANGED <<fresh, got>>

Find(t, l, w) ==
  /\ \/ \E k \in 1 .. Len(pool[l]) :
          IsFirst(l, w, k) /\ got' = [got EXCEPT ![t] = pool[l][k]]
     \/ Missing(l, w) /\ got' = [got EXCEPT ![t] = NULL]
  /\ UNCHANGED <<pool, hand, fresh>>

Count(t, l) ==
  /\ got' = [got EXCEPT ![t] = Len(pool[l])]
  /\ UNCHANGED <<pool, hand, fresh>>

\* The caller is done with the result.
Drop(t) == got' = [got EXCEPT ![t] = NULL] /\ UNCHANGED <<pool, hand, fresh>>

Next ==
  \E t \in Threads :
    \/ Allocate(t) \/ Drop(t)
    \/ \E l \in Lists :
         \/ Insert(t, l) \/ Count(t, l)
         \/ \E w \in Queries : Extract(t, l, w) \/ Find(t, l, w)

Spec == Init /\ [][Next]_vars
=============================================================================

----------------------------- MODULE ProblemFile -----------------------------
(***************************************************************************)
(* _problem_pack and _problem_unpack: a problem is written to a file item  *)
(* by item (metadata, header, then the elements of four arrays), the       *)
(* writing may end at any place, and the file is read back into another    *)
(* problem_t.  No result of fwrite is looked at; every fread is.           *)
(*                                                                         *)
(* The file is always a first part of what should be in it, so its length  *)
(* in items says what it holds; an item of which only some bytes are there *)
(* is as good as none to fread.                                            *)
(*                                                                         *)
(* The definitions just before Enter, FreeAll and Checked, with the same   *)
(* parameters, are wrong forms of them: the properties are shown to fail   *)
(* when one takes its place.                                               *)
(***************************************************************************)
EXTENDS Naturals, Sequences

CONSTANTS
  MaxRows,     \* bound: rows, size_x and size_y of the problem
  MaxSize      \* bound: its other sizes

ASSUME BoundsAssumption == MaxRows \in Nat /\ MaxSize \in Nat

VARIABLES
  problem,    \* the sizes of the problem to pack
  writer,     \* where _problem_pack is, or how it ended
  written,    \* the items of the file
  full,       \* the disk takes no more
  reader,     \* where _problem_unpack is, or how it ended
  c,          \* its loop counter
  position,   \* items read
  got,        \* the elements stored: <<where, what the file held there>>
  pointer,    \* the four array pointers of the problem_t read into
  scarce      \* history: an allocation failed

pack   == <<problem, writer, written, full>>
unpack == <<reader, c, position, got, pointer, scarce>>
vars   == <<pack, unpack>>

Parts == {"cv", "test", "data", "state"}

Length ==
  [cv |-> problem.cv_size, test |-> problem.test_size,
   data |-> problem.rows * (problem.size_x + problem.size_y), state |-> problem.state_size]

Elements(part) == [k \in 1 .. Length[part] |-> <<part, k - 1>>]
(* The order of the fwrite calls. *)
Items ==
  <<<<"metadata">>, <<"header">>>> \o Elements("cv") \o Elements("test")
                                   \o Elements("data") \o Elements("state")

\* The problem_t of a caller of _problem_unpack is not initialised: its pointers
\* hold anything, which may be NULL.
Init ==
  /\ problem \in [rows: 0 .. MaxRows, size_x: 0 .. MaxRows, size_y: 0 .. MaxRows,
                  cv_size: 0 .. MaxSize, test_size: 0 .. MaxSize, state_size: 0 .. MaxSize]
  /\ writer = "start" /\ written = 0 /\ full = FALSE
  /\ reader = "start" /\ c = 0 /\ position = 0 /\ got = {} /\ scarce = FALSE
  /\ \E junk \in {"wild", "null"} : pointer = [p \in Parts |-> junk]

-----------------------------------------------------------------------------
(* _problem_pack *)

Empty == problem.rows = 0 \/ problem.size_x = 0

(* Nothing to learn from: 0 is returned and no file touched. *)
Refuse ==
  /\ writer = "start" /\ Empty
  /\ writer' = "refused"
  /\ UNCHANGED <<problem, written, full, unpack>>

Open ==
  /\ writer = "start" /\ ~Empty
  /\ writer' = "writing"
  /\ UNCHANGED <<problem, written, full, unpack>>

(* One fwrite; on a full disk it has no effect and _problem_pack goes on. *)
WriteItem ==
  /\ writer = "writing" /\ written < Len(Items)
  /\ IF full THEN writer' = "closed" /\ UNCHANGED written
             ELSE written' = written + 1 /\ UNCHANGED writer
  /\ UNCHANGED <<problem, full, unpack>>

DiskFull ==
  /\ writer = "writing" /\ full' = TRUE
  /\ UNCHANGED <<problem, writer, written, unpack>>

CloseWritten ==
  /\ writer = "writing" /\ written = Len(Items)
  /\ writer' = "closed"
  /\ UNCHANGED <<problem, written, full, unpack>>

(* The process dies; what was not yet flushed is not in the file. *)
Crash ==
  /\ writer = "writing"
  /\ writer' = "crashed"
  /\ UNCHANGED <<problem, written, full, unpack>>

-----------------------------------------------------------------------------
(* _problem_unpack, of the file the writer left *)

EnterKeepsCount(phase) == reader' = phase /\ UNCHANGED c
Enter(phase) == reader' = phase /\ c' = 0

\* free (NULL) does nothing; what freeing a wild pointer does is undefined.
FreedOf == [wild |-> "strayed", null |-> "null", array |-> "freed"]
FreeAllButState(parts) ==
  /\ pointer' = [p \in Parts |-> IF p \in parts \ {"state"} THEN FreedOf[pointer[p]] ELSE pointer[p]]
  /\ Enter(IF \E p \in parts : pointer[p] = "wild" THEN "undefined" ELSE "refused")
(* The frees before a refusal. *)
FreeAll(parts) ==
  /\ pointer' = [p \in Parts |-> IF p \in parts THEN FreedOf[pointer[p]] ELSE pointer[p]]
  /\ Enter(IF \E p \in parts : pointer[p] = "wild" THEN "undefined" ELSE "refused")

(* Metadata and header, read in one piece each. *)
ReadFront ==
  /\ reader = "start" /\ writer \in {"closed", "crashed"}
  /\ IF written >= 2 THEN Enter("allocate") /\ position' = 2 /\ UNCHANGED pointer
                     ELSE FreeAll({}) /\ UNCHANGED position
  /\ UNCHANGED <<pack, got, scarce>>

AllocationOrder == <<"data", "cv", "test", "state">>
\* The data are always asked for, the others only when there are any.
Wanted(part) == part = "data" \/ Length[part] > 0

Allocated(part) == [pointer EXCEPT ![part] = "array"]

(* The next array; when malloc fails the earlier ones are freed, allocated or not. *)
Allocate ==
  /\ reader = "allocate" /\ c < 4
  /\ LET part == AllocationOrder[c + 1] IN
     \/ ~Wanted(part) /\ c' = c + 1 /\ UNCHANGED <<reader, pointer, scarce>>
     \/ /\ Wanted(part) /\ c' = c + 1
        /\ pointer' = Allocated(part) /\ UNCHANGED <<reader, scarce>>
     \/ /\ Wanted(part) /\ scarce' = TRUE
        /\ FreeAll({AllocationOrder[k] : k \in 1 .. c})
  /\ UNCHANGED <<pack, position, got>>

AllAllocated ==
  /\ reader = "allocate" /\ c = 4
  /\ Enter("cv")
  /\ UNCHANGED <<pack, position, got, pointer, scarce>>

Following(part) == CASE part = "cv" -> "test" [] part = "test" -> "data"
                 [] part = "data" -> "state" [] part = "state" -> "done"

(* A round of the loop over part that reads a whole element. *)
ReadElement(part) ==
  /\ reader = part /\ c < Length[part] /\ position < written
  /\ got' = got \cup {<<<<part, c>>, Items[position + 1]>>}
  /\ position' = position + 1 /\ c' = c + 1
  /\ UNCHANGED <<pack, reader, pointer, scarce>>

CheckedNoData(part) == IF part = "data" THEN 0 ELSE Length[part]
CheckedOverByOne(part) == IF part = "test" THEN Length["cv"] ELSE Length[part] + 1
(* What the counter is compared with when the loop over part has ended: after *)
(* the test indices it is cv_size.                                            *)
Checked(part) == IF part = "test" THEN Length["cv"] ELSE Length[part]

(* The loop over part ends, after all its elements or at the end of the file. *)
EndLoop(part) ==
  /\ reader = part /\ (c = Length[part] \/ position = written)
  /\ IF c < Checked(part) THEN FreeAll(Parts)
                          ELSE Enter(Following(part)) /\ UNCHANGED pointer
  /\ UNCHANGED <<pack, position, got, scarce>>

Next ==
  \/ Refuse \/ Open \/ WriteItem \/ DiskFull \/ CloseWritten \/ Crash
  \/ ReadFront \/ Allocate \/ AllAllocated
  \/ \E part \in Parts : ReadElement(part) \/ EndLoop(part)

Spec == Init /\ [][Next]_vars

-----------------------------------------------------------------------------
(* Properties. *)

\* Every variable has its type, and counters stay within what they count.
TypeOK ==
  /\ writer \in {"start", "refused", "writing", "closed", "crashed"}
  /\ written \in 0 .. Len(Items) /\ full \in BOOLEAN
  /\ reader \in Parts \cup {"start", "allocate", "done", "refused", "undefined"}
  /\ c \in Nat
  /\ reader \in Parts => c <= Length[reader]
  /\ position \in 0 .. written
  /\ pointer \in [Parts -> {"wild", "null", "array", "freed", "strayed"}]
  /\ scarce \in BOOLEAN

Complete == written = Len(Items)

\* A file cut at any place, by a crash or a full disk, is refused: when
\* _problem_unpack succeeds, the file was whole and every element is in its place.
CompleteOrRefused ==
  reader = "done" =>
    /\ Complete
    /\ {<<Items[k], Items[k]>> : k \in 3 .. Len(Items)} = got

\* A whole file is read unless memory is exhausted or there are fewer test
\* indices than cv indices.
ReadsBackEnoughTests ==
  reader \in {"refused", "undefined"} /\ Complete =>
    scarce \/ problem.test_size < problem.cv_size

\* A refusal, at whatever place the file was cut and whichever malloc failed, asks
\* free for every array that was allocated, and for a pointer that was never set
\* only where the array has length 0 (pack.c, 155-246).
RefusalFreesAll ==
  reader \in {"refused", "undefined"} =>
    \A p \in Parts : pointer[p] # "array" /\ (pointer[p] = "strayed" => Length[p] = 0)

\* pack.c:105, "function for unpacking an AI problem from a file": a file that
\* _problem_pack has written to the end is unpacked if there is memory for it.
PackedReadsBack == reader \in {"refused", "undefined"} => ~Complete \/ scarce
=============================================================================

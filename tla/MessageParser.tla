---------------------------- MODULE MessageParser ----------------------------
(***************************************************************************)
(* The state machine of _parser for one connection: how the tokens of a    *)
(* client fill a problem or an answer, when it is handed to the daemon,    *)
(* and what is given back to the heap.  A message is positional: a header  *)
(* of integers, integers for the validation (cv) and test indices, floats  *)
(* for the data and the state.                                             *)
(*                                                                         *)
(* `problem' and `answer' are local variables of _parser, and the state    *)
(* says which of them is in use; here they are one object.                 *)
(*                                                                         *)
(* The definitions just before Complete, HandOver and FreeOthers, with the *)
(* same parameters, are wrong forms of them: the properties are shown to   *)
(* fail when one takes its place.                                          *)
(***************************************************************************)
EXTENDS Naturals, Sequences

CONSTANTS
  Numbers,      \* bound: the values of integer tokens
  JunkSizes,    \* what the sizes may hold when malloc returns
  IndexSize,    \* parser_index is an unsigned short: 65536
  WordSize,     \* the sizes and malloc's argument are unsigned longs: 2^64
  ElementSize   \* sizeof (double), sizeof (unsigned long): 8

ASSUME ConstantsAssumption ==
  /\ WordSize \in Nat \ {0} /\ ElementSize \in Nat \ {0}
  /\ Numbers \subseteq 0 .. (WordSize - 1)
  /\ JunkSizes \subseteq 0 .. (WordSize - 1) /\ JunkSizes # {}
  /\ IndexSize \in Nat /\ IndexSize > 8

VARIABLES
  parser_state,   \* or how _parser ended: "closed", "hung_up", "failed", "crashed",
                  \* or "undefined" after a store outside the arrays
  parser_index,
  size,           \* the size fields of the object
  array,          \* the bytes each array of the object was allocated with
  cells,          \* the elements of the arrays that were stored
  owner,          \* who may use the object: "parser", "daemon", "list", "heap", "nobody"
  strayed         \* history: a token did not fit its place, or the index wrapped

vars == <<parser_state, parser_index, size, array, cells, owner, strayed>>

Parts == {"cv", "test", "data", "state"}
Fields == {"rows", "size_x", "size_y", "cv_size", "test_size", "state_size"}

(* What the integers at positions 0, 1, ... of a message are read into. *)
Header ==
  [problem |-> <<"type", "optm", "rows", "size_x", "size_y", "cv_size", "test_size", "state_size">>,
   answer  |-> <<"problem", "size_x", "size_y">>]
AllocatedAt == [size_y |-> "data", cv_size |-> "cv", test_size |-> "test", state_size |-> "state"]

\* How many elements the code counts in each array: a product that is wider than
\* its word wraps.  (The sums below do not: what could make them wrap is a length
\* for which malloc is asked nearly WordSize bytes.)
LengthOf(s) ==
  [cv |-> s.cv_size, test |-> s.test_size,
   data |-> (s.rows * (s.size_x + s.size_y)) % WordSize, state |-> s.state_size]
Length == LengthOf(size)
NoArrays == [p \in Parts |-> 0]

\* The bytes malloc is asked for.
BytesFor(n) == (n * ElementSize) % WordSize

HeaderLength == Len(Header[parser_state])
TestStart  == HeaderLength + Length["cv"]
DataStart  == TestStart + Length["test"]
StateStart == DataStart + Length["data"]
Total      == StateStart + Length["state"]
PartStart == [cv |-> HeaderLength, test |-> TestStart, data |-> DataStart, state |-> StateStart]

\* An answer has no rows and only the array data.
FreshSizes(kind) ==
  {[f \in Fields |-> IF kind = "problem" \/ f \in {"size_x", "size_y"} THEN junk[f]
                     ELSE IF f = "rows" THEN 1 ELSE 0] : junk \in [Fields -> JunkSizes]}

Init ==
  /\ parser_state = "idle" /\ parser_index = 0
  /\ size = [f \in Fields |-> 0] /\ array = NoArrays /\ cells = {}
  /\ owner = "nobody" /\ strayed = FALSE

Filling == parser_state \in {"problem", "answer"}

\* The next position, and whether the client and the parser still agree on it.
Advanced == (parser_index + 1) % IndexSize
Misfit(type) == (type = "integer") = (parser_index >= DataStart)
Astray(type) == strayed \/ Misfit(type) \/ Advanced = 0

-----------------------------------------------------------------------------
(* Integers of a message. *)

FreeOthersForgetsData(part) == [array EXCEPT !["cv"] = 0, !["test"] = 0, !["state"] = 0, ![part] = 0]
(* malloc failed for one array: the others are freed, and the object. *)
FreeOthers(part) == NoArrays

Fail(part) ==
  /\ array' = FreeOthers(part) /\ owner' = "heap" /\ parser_state' = "failed"

ReadField(field, v) == IF field \in Fields THEN [size EXCEPT ![field] = v] ELSE size

(* The sizes come in order, and an array is allocated when its length is known. *)
HeaderInteger(v) ==
  /\ Filling /\ parser_index < HeaderLength
  /\ LET field == Header[parser_state][parser_index + 1]
         sizes == ReadField(field, v)
     IN  /\ size' = sizes
         /\ IF field \in DOMAIN AllocatedAt
            THEN LET part == AllocatedAt[field]
                     n    == LengthOf(sizes)[part]
                 IN  \/ /\ array' = [array EXCEPT ![part] = BytesFor(n)]
                        /\ UNCHANGED <<owner, parser_state>>
                     \/ n > 0 /\ Fail(part)
            ELSE UNCHANGED <<array, owner, parser_state>>
  /\ parser_index' = Advanced /\ strayed' = Astray("integer")
  /\ UNCHANGED cells

(* The first integer of an answer names a problem, and there is none of that id. *)
NoSuchProblem ==
  /\ parser_state = "answer" /\ parser_index = 0
  /\ parser_state' = "failed" /\ owner' = "heap"
  /\ UNCHANGED <<parser_index, size, array, cells, strayed>>

(* The element of which array, if any, the position stands for. *)
Store(parts) ==
  {e \in parts \X (0 .. parser_index) :
     e[2] < Length[e[1]] /\ PartStart[e[1]] + e[2] = parser_index}

\* Outside the array, or through a pointer that is still NULL.
OutOfBounds(c) == \E e \in c : (e[2] + 1) * ElementSize > array[e[1]]

BodyInteger ==
  /\ Filling /\ parser_index >= HeaderLength
  /\ LET c == Store({"cv", "test"}) IN
       IF OutOfBounds(c)
       THEN parser_state' = "undefined" /\ UNCHANGED <<cells, parser_index>>
       ELSE cells' = cells \cup c /\ parser_index' = Advanced /\ UNCHANGED parser_state
  /\ strayed' = Astray("integer")
  /\ UNCHANGED <<size, array, owner>>

-----------------------------------------------------------------------------
(* Floats of a message; only after one is the message tested for its end. *)

CompleteBeforeState(n) == n = StateStart
CompleteLate(n) == n = Total + 1
Complete(n) == n = Total

HandOverKeepsIndex ==
  owner' = "daemon" /\ parser_index' = Advanced /\ parser_state' = "idle"
HandOverStays == owner' = "daemon" /\ parser_index' = 0 /\ UNCHANGED parser_state
(* register_problem or register_answer takes the object. *)
HandOver == owner' = "daemon" /\ parser_index' = 0 /\ parser_state' = "idle"

Float ==
  /\ Filling
  /\ LET c == Store({"data", "state"}) IN
       IF OutOfBounds(c)
       THEN parser_state' = "undefined" /\ UNCHANGED <<cells, parser_index, owner>>
       ELSE /\ cells' = cells \cup c
            /\ \/ Complete(Advanced) /\ HandOver
               \/ /\ ~Complete(Advanced)
                  /\ parser_index' = Advanced /\ UNCHANGED <<owner, parser_state>>
  /\ strayed' = Astray("float")
  /\ UNCHANGED <<size, array>>

-----------------------------------------------------------------------------
(* Commands, and the integers that follow requests. *)

Reading == parser_state \in {"idle", "problem", "answer", "solution", "delete_answer"}

\* A command in the middle of a message: nothing points to the object any more.
Forget == owner' = IF owner = "parser" THEN "nobody" ELSE owner

(* reg:problem and reg:answer. *)
Register(kind) ==
  /\ Reading
  /\ parser_state' = kind /\ parser_index' = 0
  /\ size' \in FreshSizes(kind) /\ array' = NoArrays /\ cells' = {}
  /\ owner' = "parser" /\ strayed' = FALSE

(* malloc failed for the object: its fields are set to NULL before the test. *)
RegisterWithoutMemory ==
  /\ Reading
  /\ parser_state' = "crashed"
  /\ UNCHANGED <<parser_index, size, array, cells, owner, strayed>>

(* req:solution and dlt:answer wait for an id; lst:problems and lst:answers do not. *)
Command(state) ==
  /\ Reading
  /\ parser_state' = state /\ parser_index' = 0 /\ Forget
  /\ UNCHANGED <<size, array, cells, strayed>>

(* The id: an answer of the daemon's list is read, or there is none. *)
Solution ==
  /\ parser_state = "solution"
  /\ parser_state' = "idle" /\ parser_index' = 0
  /\ owner' \in {"list", "nobody"} /\ array' = NoArrays /\ cells' = {}
  /\ UNCHANGED <<size, strayed>>

(* The id: an answer of the daemon's list is taken out and freed. *)
DeleteAnswer ==
  /\ parser_state = "delete_answer"
  /\ parser_state' = "idle" /\ parser_index' = 0
  /\ owner' \in {"heap", "nobody"} /\ array' = NoArrays /\ cells' = {}
  /\ UNCHANGED <<size, strayed>>

(* req:close frees the object of a message that is not complete. *)
Close ==
  /\ Reading
  /\ parser_state' = "closed"
  /\ IF Filling THEN array' = NoArrays /\ owner' = "heap" ELSE UNCHANGED <<array, owner>>
  /\ UNCHANGED <<parser_index, size, cells, strayed>>

(* The client closes the connection: read returns 0. *)
HangUp ==
  /\ Reading
  /\ parser_state' = "hung_up"
  /\ UNCHANGED <<parser_index, size, array, cells, owner, strayed>>

Next ==
  \/ \E v \in Numbers : HeaderInteger(v)
  \/ NoSuchProblem \/ BodyInteger \/ Float
  \/ \E kind \in {"problem", "answer"} : Register(kind)
  \/ RegisterWithoutMemory
  \/ \E state \in {"solution", "delete_answer", "idle"} : Command(state)
  \/ Solution \/ DeleteAnswer \/ Close \/ HangUp

Spec == Init /\ [][Next]_vars
-----------------------------------------------------------------------------
(* Properties. *)

\* Every variable has its type; a position of no message is 0.
TypeOK ==
  /\ parser_state \in {"idle", "problem", "answer", "solution", "delete_answer",
                       "closed", "hung_up", "failed", "crashed", "undefined"}
  /\ parser_index \in 0 .. (IndexSize - 1)
  /\ parser_state \in {"idle", "solution", "delete_answer"} => parser_index = 0
  /\ size \in [Fields -> Nat] /\ array \in [Parts -> Nat]
  /\ cells \subseteq Parts \X (0 .. (IndexSize - 1))
  /\ owner \in {"parser", "daemon", "list", "heap", "nobody"}
  /\ strayed \in BOOLEAN

\* Nothing of the message is longer than a word can count in bytes.
Fits ==
  /\ size["rows"] * (size["size_x"] + size["size_y"]) * ElementSize < WordSize
  /\ \A f \in {"cv_size", "test_size", "state_size"} : size[f] * ElementSize < WordSize

\* A problem or answer handed to the daemon (register_problem, register_answer)
\* has all its arrays allocated in the lengths its sizes say and every element
\* stored, and no token was stored outside an array, although each array is
\* allocated from sizes that have come one by one.  This is so of a message whose
\* tokens have the types their positions call for (~strayed) and whose arrays
\* have lengths that can be asked of malloc (Fits): the code tests neither, and
\* of any other message it says nothing.
RegisteredWhole ==
  ~strayed /\ Fits =>
    /\ parser_state # "undefined"
    /\ owner = "daemon" =>
         /\ array = [p \in Parts |-> Length[p] * ElementSize]
         /\ cells = {e \in Parts \X (0 .. (IndexSize - 1)) : e[2] < Length[e[1]]}

\* A message with any float in it is never past its end without having been
\* handed over, so its last token completes it: the test for equality with the
\* total, made after floats only, is not jumped over.  A message of as many
\* values as the index counts, or more, makes the index wrap and counts as strayed.
NoneStuck ==
  /\ Filling /\ ~strayed /\ parser_index >= HeaderLength
  /\ Length["data"] + Length["state"] > 0
  => parser_index < Total

\* When _parser returns after req:close or an allocation that failed, the object
\* of the message under way has been given back with all its arrays.
NothingLeaked ==
  parser_state \in {"closed", "failed"} =>
    /\ owner # "parser"
    /\ owner = "heap" /\ ~strayed => array = NoArrays

\* What has been handed to the daemon is not written, resized or freed by the
\* rest of the connection, except through dlt:answer: an answer is in the list
\* then, and the main loop and the threads use it.
HandedUntouched ==
  [][owner = "daemon" =>
       /\ owner' = "heap" => parser_state = "delete_answer"
       /\ owner' = "daemon" => UNCHANGED <<size, array, cells>>]_vars
=============================================================================

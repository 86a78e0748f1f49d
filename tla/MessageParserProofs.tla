------------------------- MODULE MessageParserProofs -------------------------
(***************************************************************************)
(* Proofs about MessageParser, for any integers a client sends, whatever   *)
(* malloc leaves in the sizes and any width of parser_index; and about     *)
(* TokenReader, for texts of any length.  The reader is a recursive        *)
(* function: what it has read after each character of a text (HasRead) is  *)
(* an invariant of its rounds, which is shown to fail first nowhere.       *)
(***************************************************************************)
EXTENDS MCMessageParser, ListLemmas

-----------------------------------------------------------------------------
(* The parser has the object of the message under way, nobody else; and what *)
(* was given back to the heap left no array behind.                          *)
Owned ==
  /\ Filling => owner = "parser"
  /\ parser_state \in {"idle", "solution", "delete_answer", "closed", "failed"} =>
       /\ owner # "parser"
       /\ owner = "heap" /\ ~strayed => array = NoArrays

(* The position whose integer an array waits for.  An answer has only data.  *)
AllocatedAfter(kind, part) ==
  IF kind = "answer" THEN 2
  ELSE CASE part = "data" -> 4 [] part = "cv" -> 5 [] part = "test" -> 6 [] part = "state" -> 7

(* Sizes come before the array they are for, and do not change after it.     *)
Allocating ==
  /\ parser_state = "answer" =>
       size["rows"] = 1 /\ size["cv_size"] = 0 /\ size["test_size"] = 0 /\ size["state_size"] = 0
  /\ Filling /\ ~strayed => \A p \in Parts :
       array[p] = IF AllocatedAfter(parser_state, p) < parser_index THEN BytesFor(Length[p]) ELSE 0

(* Each position before the current one has been stored, and no other.       *)
StoredBefore(n) ==
  {e \in Parts \X (0 .. (IndexSize - 1)) : e[2] < Length[e[1]] /\ PartStart[e[1]] + e[2] < n}
Storing == Filling /\ ~strayed => cells = StoredBefore(parser_index)

(* What has been handed over is whole, and undefined stores have a cause.    *)
Inv == /\ TypeOK /\ Owned /\ Allocating /\ Storing /\ RegisteredWhole /\ NoneStuck

-----------------------------------------------------------------------------
(* What remains in a word.                                                   *)
LEMMA Remainder ==
  ASSUME NEW n \in Nat
  PROVE  n % WordSize \in Nat /\ (n < WordSize => n % WordSize = n)
BY ConstantsAssumption

(* The bytes asked for are a natural number, none for nothing, and as many   *)
(* as there are to be elements if a word can count them.                     *)
LEMMA Bytes ==
  ASSUME NEW n \in Nat
  PROVE  /\ BytesFor(n) \in Nat /\ n * ElementSize \in Nat
         /\ n = 0 => BytesFor(n) = 0
         /\ n * ElementSize < WordSize => BytesFor(n) = n * ElementSize
<1>1. \A a, b \in Nat : a * b \in Nat
  OBVIOUS
<1>2. PICK m \in Nat : m = n * ElementSize
  BY <1>1, ConstantsAssumption
<1>3. n = 0 => m = 0 /\ 0 < WordSize
  BY <1>2, ConstantsAssumption
<1> QED BY <1>2, <1>3, Remainder DEF BytesFor

(* An element within a length is within the bytes of that length.            *)
LEMMA WithinBytes ==
  ASSUME NEW n \in Nat, NEW k \in Nat, k < n
  PROVE  ~((k + 1) * ElementSize > n * ElementSize)
<1>1. \A a, b, c \in Nat : (a + b) * c = a * c + b * c /\ a * c \in Nat /\ b * c \in Nat
  OBVIOUS
<1>2. PICK d \in Nat : n = (k + 1) + d
  <2>1. n - (k + 1) \in Nat /\ n = (k + 1) + (n - (k + 1))
    OBVIOUS
  <2> QED BY <2>1
<1>3. k + 1 \in Nat /\ ElementSize \in Nat
  BY ConstantsAssumption
<1>4. PICK x, y, z : x = (k + 1) * ElementSize /\ y = d * ElementSize /\ z = n * ElementSize
  OBVIOUS
<1>5. z = x + y /\ x \in Nat /\ y \in Nat
  BY <1>1, <1>2, <1>3, <1>4
<1> QED BY <1>4, <1>5

(* The lengths of the arrays and the positions at which they begin.          *)
LEMMA Lengths ==
  ASSUME NEW s \in [Fields -> Nat]
  PROVE  /\ LengthOf(s) \in [Parts -> Nat]
         /\ LengthOf(s)["cv"] = s["cv_size"] /\ LengthOf(s)["test"] = s["test_size"]
         /\ LengthOf(s)["state"] = s["state_size"]
         /\ LengthOf(s)["data"] = (s["rows"] * (s["size_x"] + s["size_y"])) % WordSize
<1>1. s["rows"] \in Nat /\ s["size_x"] \in Nat /\ s["size_y"] \in Nat
  BY DEF Fields
<1>2. \A a, b, c \in Nat : a * (b + c) \in Nat
  OBVIOUS
<1>3. (s["rows"] * (s["size_x"] + s["size_y"])) % WordSize \in Nat
  <2>1. s["rows"] * (s["size_x"] + s["size_y"]) \in Nat
    BY <1>1, <1>2
  <2> QED BY <2>1, Remainder
<1>4. /\ LengthOf(s)["cv"] = s["cv_size"] /\ LengthOf(s)["test"] = s["test_size"]
      /\ LengthOf(s)["state"] = s["state_size"]
      /\ LengthOf(s)["data"] = (s["rows"] * (s["size_x"] + s["size_y"])) % WordSize
  BY DEF LengthOf
<1>5. LengthOf(s) = [p \in Parts |-> LengthOf(s)[p]]
  BY DEF LengthOf, Parts
<1>6. \A p \in Parts : LengthOf(s)[p] \in Nat
  BY <1>3, <1>4 DEF Parts, Fields
<1>7. LengthOf(s) \in [Parts -> Nat]
  BY <1>5, <1>6, Zenon
<1> QED BY <1>4, <1>7

(* The positions at which the arrays begin, one after the other.            *)
LaidOut ==
  /\ HeaderLength = (IF parser_state = "problem" THEN 8 ELSE 3)
  /\ HeaderLength \in Nat /\ Length \in [Parts -> Nat]
  /\ TestStart \in Nat /\ DataStart \in Nat /\ StateStart \in Nat /\ Total \in Nat
  /\ PartStart["cv"] = HeaderLength /\ PartStart["test"] = TestStart
  /\ PartStart["data"] = DataStart /\ PartStart["state"] = StateStart
  /\ TestStart = HeaderLength + Length["cv"] /\ DataStart = TestStart + Length["test"]
  /\ StateStart = DataStart + Length["data"] /\ Total = StateStart + Length["state"]

(* The arrays of a message follow its header in the order cv, test, data,    *)
(* state.                                                                    *)
LEMMA Positions == TypeOK /\ Filling => LaidOut
<1> SUFFICES ASSUME TypeOK, Filling PROVE LaidOut
  OBVIOUS
<1>1. HeaderLength = (IF parser_state = "problem" THEN 8 ELSE 3)
  <2>1. CASE parser_state = "problem"
    BY <2>1 DEF HeaderLength, Header
  <2>2. CASE parser_state = "answer"
    BY <2>2 DEF HeaderLength, Header
  <2> QED BY <2>1, <2>2 DEF Filling
<1>2. Length \in [Parts -> Nat]
  BY Lengths DEF Length, TypeOK
<1>3. Length["cv"] \in Nat /\ Length["test"] \in Nat /\ Length["data"] \in Nat
      /\ Length["state"] \in Nat
  BY <1>2 DEF Parts
<1>4. /\ TestStart \in Nat /\ DataStart \in Nat /\ StateStart \in Nat /\ Total \in Nat
      /\ HeaderLength \in Nat
  BY <1>1, <1>3 DEF TestStart, DataStart, StateStart, Total
<1>5. /\ PartStart["cv"] = HeaderLength /\ PartStart["test"] = TestStart
      /\ PartStart["data"] = DataStart /\ PartStart["state"] = StateStart
  BY DEF PartStart
<1> QED BY <1>1, <1>2, <1>4, <1>5 DEF LaidOut, TestStart, DataStart, StateStart, Total

(* The same of the state a step leads to.                                    *)
LEMMA PositionsAfter == (TypeOK /\ Filling => LaidOut)'
<1> QED BY Positions, PTL

(* While the header is read nothing is stored.                               *)
LEMMA NothingBefore ==
  TypeOK /\ Filling => \A n \in 0 .. HeaderLength : StoredBefore(n) = {}
<1> SUFFICES ASSUME TypeOK, Filling, NEW n \in 0 .. HeaderLength, NEW e \in StoredBefore(n)
             PROVE  FALSE
  OBVIOUS
<1>1. LaidOut
  BY Positions
<1>2. e[1] \in Parts /\ e[2] \in Nat /\ PartStart[e[1]] + e[2] < n
  BY ConstantsAssumption DEF StoredBefore
<1>3. \A p \in Parts : PartStart[p] \in Nat /\ PartStart[p] >= HeaderLength
  <2>1. \A p \in Parts : Length[p] \in Nat
    BY <1>1 DEF LaidOut
  <2> QED BY <1>1, <2>1 DEF LaidOut, Parts
<1>4. PartStart[e[1]] \in Nat /\ PartStart[e[1]] >= HeaderLength /\ HeaderLength \in Nat
  BY <1>1, <1>2, <1>3 DEF LaidOut
<1> QED BY <1>2, <1>4

(* The same of the state a step leads to.                                    *)
LEMMA NothingBeforeAfter ==
  (TypeOK /\ Filling => \A n \in 0 .. HeaderLength : StoredBefore(n) = {})'
<1> QED BY NothingBefore, PTL

(* parser_index is an unsigned short.                                        *)
LEMMA NextPosition ==
  ASSUME TypeOK
  PROVE  /\ parser_index \in Nat /\ Advanced \in 0 .. (IndexSize - 1)
         /\ Advanced # 0 => Advanced = parser_index + 1
<1>1. IndexSize \in Nat /\ IndexSize > 8 /\ parser_index \in 0 .. (IndexSize - 1)
  BY ConstantsAssumption DEF TypeOK
<1> QED BY <1>1 DEF Advanced

(* A connection starts without an object.                                    *)
LEMMA InitInv == Init => Inv
<1> SUFFICES ASSUME Init PROVE Inv
  OBVIOUS
<1>1. TypeOK
  <2>1. size \in [Fields -> Nat] /\ array \in [Parts -> Nat]
    BY DEF Init, NoArrays
  <2>2. parser_index \in 0 .. (IndexSize - 1)
    BY ConstantsAssumption DEF Init
  <2>3. cells \subseteq Parts \X (0 .. (IndexSize - 1))
    BY DEF Init
  <2>4. /\ parser_state = "idle" /\ parser_index = 0 /\ owner = "nobody" /\ strayed \in BOOLEAN
    BY DEF Init
  <2> QED BY <2>1, <2>2, <2>3, <2>4 DEF TypeOK
<1>2. ~Filling /\ owner = "nobody"
  BY DEF Init, Filling
<1> QED BY <1>1, <1>2 DEF Init, Inv, Owned, Allocating, Storing, RegisteredWhole, NoneStuck

-----------------------------------------------------------------------------
(* What reading one integer of the header does, if no allocation fails: it   *)
(* goes into its field, and where an array has all it needs it is allocated. *)
LEMMA HeaderRead ==
  ASSUME TypeOK, NEW v \in Numbers, HeaderInteger(v)
  PROVE  LET field == Header[parser_state][parser_index + 1] IN
         /\ parser_index < HeaderLength /\ parser_index' = Advanced /\ strayed' = Astray("integer")
         /\ UNCHANGED cells /\ size' \in [Fields -> Nat]
         /\ field \in Fields => size'[field] = v
         /\ \A f \in Fields : f # field => size'[f] = size[f]
         /\ \/ /\ field \in DOMAIN AllocatedAt
               /\ array' = [array EXCEPT ![AllocatedAt[field]] = BytesFor(LengthOf(size')[AllocatedAt[field]])]
               /\ UNCHANGED <<owner, parser_state>>
            \/ /\ field \notin DOMAIN AllocatedAt
               /\ UNCHANGED <<array, owner, parser_state>>
            \/ /\ array' = NoArrays /\ owner' = "heap" /\ parser_state' = "failed"
<1> DEFINE field == Header[parser_state][parser_index + 1]
<1> HIDE DEF field
<1>1. v \in Nat /\ size \in [Fields -> Nat]
  BY ConstantsAssumption DEF TypeOK
<1>2. size' = ReadField(field, v)
  BY DEF HeaderInteger, field
<1>3. /\ size' \in [Fields -> Nat]
      /\ field \in Fields => size'[field] = v
      /\ \A f \in Fields : f # field => size'[f] = size[f]
  BY <1>1, <1>2 DEF ReadField
<1>4. /\ parser_index < HeaderLength /\ parser_index' = Advanced /\ strayed' = Astray("integer")
      /\ UNCHANGED cells
  BY DEF HeaderInteger
<1>5. \/ /\ field \in DOMAIN AllocatedAt
         /\ array' = [array EXCEPT ![AllocatedAt[field]] = BytesFor(LengthOf(size')[AllocatedAt[field]])]
         /\ UNCHANGED <<owner, parser_state>>
      \/ /\ field \notin DOMAIN AllocatedAt
         /\ UNCHANGED <<array, owner, parser_state>>
      \/ /\ array' = NoArrays /\ owner' = "heap" /\ parser_state' = "failed"
  BY DEF HeaderInteger, Fail, FreeOthers, field
<1> USE DEF field
<1> QED BY <1>3, <1>4, <1>5

(* Which integer of a header is at hand, and the array that waits for it.    *)
LEMMA HeaderField ==
  ASSUME TypeOK, Filling, parser_index < HeaderLength
  PROVE  LET field == Header[parser_state][parser_index + 1] IN
         \/ /\ parser_state = "problem" /\ parser_index \in 0 .. 3
            /\ field \notin DOMAIN AllocatedAt
         \/ /\ parser_state = "problem" /\ parser_index = 4
            /\ field = "size_y" /\ AllocatedAt[field] = "data"
         \/ /\ parser_state = "problem" /\ parser_index = 5
            /\ field = "cv_size" /\ AllocatedAt[field] = "cv"
         \/ /\ parser_state = "problem" /\ parser_index = 6
            /\ field = "test_size" /\ AllocatedAt[field] = "test"
         \/ /\ parser_state = "problem" /\ parser_index = 7
            /\ field = "state_size" /\ AllocatedAt[field] = "state"
         \/ /\ parser_state = "answer" /\ parser_index \in 0 .. 1
            /\ field \in {"problem", "size_x"} /\ field \notin DOMAIN AllocatedAt
         \/ /\ parser_state = "answer" /\ parser_index = 2
            /\ field = "size_y" /\ AllocatedAt[field] = "data"
<1>1. DOMAIN AllocatedAt = {"size_y", "cv_size", "test_size", "state_size"}
  BY DEF AllocatedAt
<1>2. /\ AllocatedAt["size_y"] = "data" /\ AllocatedAt["cv_size"] = "cv"
      /\ AllocatedAt["test_size"] = "test" /\ AllocatedAt["state_size"] = "state"
  BY DEF AllocatedAt
<1>3. parser_index \in Nat /\ HeaderLength = (IF parser_state = "problem" THEN 8 ELSE 3)
  BY Positions, NextPosition DEF LaidOut
<1>4. /\ Header["problem"][1] = "type" /\ Header["problem"][2] = "optm"
      /\ Header["problem"][3] = "rows" /\ Header["problem"][4] = "size_x"
      /\ Header["problem"][5] = "size_y" /\ Header["problem"][6] = "cv_size"
      /\ Header["problem"][7] = "test_size" /\ Header["problem"][8] = "state_size"
  BY DEF Header
<1>5. /\ Header["answer"][1] = "problem" /\ Header["answer"][2] = "size_x"
      /\ Header["answer"][3] = "size_y"
  BY DEF Header
<1>6. CASE parser_state = "problem"
  <2>1. parser_index \in 0 .. 3 \/ parser_index \in {4, 5, 6, 7}
    BY <1>3, <1>6
  <2>2. CASE parser_index \in 0 .. 3
    <3>1. parser_index \in {0, 1, 2, 3}
      BY <2>2
    <3>2. Header[parser_state][parser_index + 1] \in {"type", "optm", "rows", "size_x"}
      BY <1>4, <1>6, <3>1
    <3> QED BY <1>1, <1>6, <2>2, <3>2
  <2> QED BY <1>2, <1>4, <1>6, <2>1, <2>2
<1>7. CASE parser_state = "answer"
  <2>1. parser_index \in {0, 1, 2}
    BY <1>3, <1>7
  <2> QED BY <1>1, <1>2, <1>5, <1>7, <2>1
<1> QED BY <1>6, <1>7 DEF Filling

(* An array is allocated with the length its sizes have come to, and these   *)
(* come no more.                                                             *)
LEMMA HeaderAllocates ==
  ASSUME TypeOK, Allocating, NEW v \in Numbers, HeaderInteger(v)
  PROVE  Allocating'
<1> DEFINE field == Header[parser_state][parser_index + 1]
<1> HIDE DEF field
<1>1. Filling
  BY DEF HeaderInteger
<1>2. /\ parser_index < HeaderLength /\ parser_index' = Advanced /\ strayed' = Astray("integer")
      /\ size' \in [Fields -> Nat]
      /\ \A f \in Fields : f # field => size'[f] = size[f]
      /\ \/ /\ field \in DOMAIN AllocatedAt
            /\ array' = [array EXCEPT ![AllocatedAt[field]] = BytesFor(LengthOf(size')[AllocatedAt[field]])]
            /\ UNCHANGED <<owner, parser_state>>
         \/ /\ field \notin DOMAIN AllocatedAt
            /\ UNCHANGED <<array, owner, parser_state>>
         \/ /\ array' = NoArrays /\ owner' = "heap" /\ parser_state' = "failed"
  BY HeaderRead DEF field
<1>3. CASE parser_state' = "failed"
  BY <1>3 DEF Allocating, Filling
<1>4. CASE parser_state' = parser_state
  <2>1. \A p \in Parts : array'[p] =
          IF field \in DOMAIN AllocatedAt /\ p = AllocatedAt[field] THEN BytesFor(Length'[p]) ELSE array[p]
    BY <1>1, <1>2, <1>4 DEF TypeOK, Length, Filling
  <2>2. /\ Length'["cv"] = size'["cv_size"] /\ Length'["test"] = size'["test_size"]
        /\ Length'["state"] = size'["state_size"]
        /\ Length'["data"] = (size'["rows"] * (size'["size_x"] + size'["size_y"])) % WordSize
        /\ Length["cv"] = size["cv_size"] /\ Length["test"] = size["test_size"]
        /\ Length["state"] = size["state_size"]
        /\ Length["data"] = (size["rows"] * (size["size_x"] + size["size_y"])) % WordSize
    BY <1>2, Lengths DEF TypeOK, Length
  <2>3. \/ /\ parser_state = "problem" /\ parser_index \in 0 .. 3
           /\ field \notin DOMAIN AllocatedAt
        \/ /\ parser_state = "problem" /\ parser_index = 4
           /\ field = "size_y" /\ AllocatedAt[field] = "data"
        \/ /\ parser_state = "problem" /\ parser_index = 5
           /\ field = "cv_size" /\ AllocatedAt[field] = "cv"
        \/ /\ parser_state = "problem" /\ parser_index = 6
           /\ field = "test_size" /\ AllocatedAt[field] = "test"
        \/ /\ parser_state = "problem" /\ parser_index = 7
           /\ field = "state_size" /\ AllocatedAt[field] = "state"
        \/ /\ parser_state = "answer" /\ parser_index \in 0 .. 1
           /\ field \in {"problem", "size_x"} /\ field \notin DOMAIN AllocatedAt
        \/ /\ parser_state = "answer" /\ parser_index = 2
           /\ field = "size_y" /\ AllocatedAt[field] = "data"
    BY <1>1, <1>2, HeaderField DEF field
  <2>4. DOMAIN AllocatedAt = {"size_y", "cv_size", "test_size", "state_size"}
    BY DEF AllocatedAt
  <2>5. parser_state = "answer" =>
          size'["rows"] = 1 /\ size'["cv_size"] = 0 /\ size'["test_size"] = 0 /\ size'["state_size"] = 0
    BY <1>2, <2>3 DEF Allocating, Fields
  <2>6. ASSUME ~strayed', NEW p \in Parts
        PROVE  array'[p] = IF AllocatedAfter(parser_state, p) < parser_index' THEN BytesFor(Length'[p]) ELSE 0
    <3>1. ~strayed /\ parser_index' = parser_index + 1 /\ parser_index \in Nat
      BY <1>2, <2>6, NextPosition DEF Astray
    <3>2. array[p] = IF AllocatedAfter(parser_state, p) < parser_index THEN BytesFor(Length[p]) ELSE 0
      BY <1>1, <3>1 DEF Allocating
    <3>3. CASE parser_state = "answer"
      <4>1. AllocatedAfter(parser_state, p) = 2
        BY <3>3 DEF AllocatedAfter
      <4>2. p # "data" => BytesFor(Length'[p]) = 0
        <5>1. p # "data" => Length'[p] = 0
          BY <2>2, <2>5, <3>3 DEF Parts
        <5> QED BY <5>1, Bytes
      <4> QED BY <2>1, <2>3, <2>4, <3>1, <3>2, <3>3, <4>1, <4>2
    <3>4. CASE parser_state = "problem"
      <4>1. /\ p = "data" => AllocatedAfter(parser_state, p) = 4
            /\ p = "cv" => AllocatedAfter(parser_state, p) = 5
            /\ p = "test" => AllocatedAfter(parser_state, p) = 6
            /\ p = "state" => AllocatedAfter(parser_state, p) = 7
        BY <3>4 DEF AllocatedAfter
      <4>2. p \in {"data", "cv", "test", "state"}
        BY DEF Parts
      <4>3. AllocatedAfter(parser_state, p) < parser_index => Length'[p] = Length[p]
        BY <1>2, <2>2, <2>3, <3>4, <4>1, <4>2 DEF Fields
      <4> QED BY <2>1, <2>3, <2>4, <3>1, <3>2, <3>4, <4>1, <4>2, <4>3
    <3> QED BY <1>1, <3>3, <3>4 DEF Filling
  <2> QED BY <1>4, <2>5, <2>6 DEF Allocating
<1> QED BY <1>2, <1>3, <1>4

-----------------------------------------------------------------------------
(* Each array is allocated at one of the integers of the header.             *)
LEMMA PastHeader ==
  ASSUME TypeOK, Filling, parser_index >= HeaderLength, NEW p \in Parts
  PROVE  /\ AllocatedAfter(parser_state, p) < parser_index
         /\ AllocatedAfter(parser_state, p) < parser_index + 1
<1>1. HeaderLength = (IF parser_state = "problem" THEN 8 ELSE 3) /\ parser_index \in Nat
  BY Positions, NextPosition DEF LaidOut
<1>2. CASE parser_state = "problem"
  <2>1. AllocatedAfter(parser_state, p) \in {4, 5, 6, 7}
    BY <1>2 DEF AllocatedAfter, Parts
  <2> QED BY <1>1, <1>2, <2>1
<1>3. CASE parser_state = "answer"
  <2>1. AllocatedAfter(parser_state, p) = 2
    BY <1>3 DEF AllocatedAfter
  <2> QED BY <1>1, <1>3, <2>1
<1> QED BY <1>2, <1>3 DEF Filling

(* After its header, a message has all its arrays.                           *)
LEMMA AllAllocated ==
  ASSUME TypeOK, Allocating, Filling, ~strayed, parser_index >= HeaderLength
  PROVE  array = [p \in Parts |-> BytesFor(Length[p])]
<1>1. ASSUME NEW p \in Parts PROVE array[p] = BytesFor(Length[p])
  BY PastHeader DEF Allocating
<1>2. array = [p \in Parts |-> array[p]]
  BY Zenon DEF TypeOK
<1> QED BY <1>1, <1>2, Zenon

(* They are as long as the sizes say if a word can count their bytes.        *)
LEMMA Whole ==
  ASSUME TypeOK, Fits
  PROVE  \A p \in Parts : BytesFor(Length[p]) = Length[p] * ElementSize /\ Length[p] \in Nat
<1>1. size \in [Fields -> Nat] /\ ElementSize \in Nat /\ ElementSize > 0
      /\ WordSize \in Nat /\ WordSize > 0
  BY ConstantsAssumption DEF TypeOK
<1>2. \A a, b \in Nat : a * b \in Nat
  OBVIOUS
<1>3. PICK n \in Nat : n = size["rows"] * (size["size_x"] + size["size_y"])
  <2>1. size["rows"] \in Nat /\ size["size_x"] + size["size_y"] \in Nat
    BY <1>1 DEF Fields
  <2> QED BY <1>2, <2>1
<1>4. Length["data"] = n
  <2>1. Length["data"] = n % WordSize
    BY <1>1, <1>3, Lengths DEF Length
  <2>2. n * ElementSize < WordSize
    BY <1>3 DEF Fits
  <2>3. n <= n * ElementSize
    <3>1. \A a, b \in Nat : a * (b + 1) = a * b + a
      OBVIOUS
    <3>2. ElementSize - 1 \in Nat /\ (ElementSize - 1) + 1 = ElementSize
      BY <1>1
    <3>3. PICK q, t : q = n * (ElementSize - 1) /\ t = n * ElementSize
      OBVIOUS
    <3>4. t = q + n /\ q \in Nat
      BY <1>2, <3>1, <3>2, <3>3
    <3> QED BY <3>3, <3>4
  <2>4. PICK t \in Nat : t = n * ElementSize
    BY <1>1, <1>2
  <2>5. n < WordSize
    BY <1>1, <2>2, <2>3, <2>4
  <2> QED BY <2>1, <2>5, Remainder
<1>5. /\ Length["cv"] = size["cv_size"] /\ Length["test"] = size["test_size"]
      /\ Length["state"] = size["state_size"] /\ Length \in [Parts -> Nat]
  BY <1>1, Lengths DEF Length
<1>6. ASSUME NEW p \in Parts PROVE Length[p] * ElementSize < WordSize /\ Length[p] \in Nat
  <2>1. CASE p = "data"
    BY <1>3, <1>4, <2>1 DEF Fits
  <2>2. CASE p # "data"
    BY <1>5, <2>2 DEF Fits, Parts
  <2> QED BY <2>1, <2>2
<1> QED BY <1>6, Bytes

(* An element that has a place is within its array.                          *)
LEMMA InBounds ==
  ASSUME TypeOK, Fits, array = [p \in Parts |-> BytesFor(Length[p])], NEW parts \in SUBSET Parts
  PROVE  ~OutOfBounds(Store(parts))
<1> SUFFICES ASSUME NEW e \in Store(parts), (e[2] + 1) * ElementSize > array[e[1]] PROVE FALSE
  BY DEF OutOfBounds
<1>1. e[1] \in Parts /\ e[2] \in Nat /\ e[2] < Length[e[1]]
  BY NextPosition DEF Store
<1>2. array[e[1]] = Length[e[1]] * ElementSize /\ Length[e[1]] \in Nat
  BY <1>1, Whole
<1>3. ~((e[2] + 1) * ElementSize > Length[e[1]] * ElementSize)
  BY <1>1, <1>2, WithinBytes
<1> QED BY <1>2, <1>3

(* The integers of a body are for cv and test, the floats for data and state. *)
LEMMA Placed ==
  ASSUME TypeOK, Filling, NEW p \in Parts, NEW k \in Nat,
         k < Length[p], PartStart[p] + k = parser_index
  PROVE  /\ parser_index < DataStart => p \in {"cv", "test"}
         /\ parser_index >= DataStart => p \in {"data", "state"}
<1>1. LaidOut /\ parser_index \in Nat
  BY Positions, NextPosition
<1>2. \A q \in Parts : Length[q] \in Nat
  BY <1>1 DEF LaidOut
<1>3. /\ Length["cv"] \in Nat /\ Length["test"] \in Nat
      /\ Length["data"] \in Nat /\ Length["state"] \in Nat
  BY <1>2 DEF Parts
<1>4. p \in {"cv", "test", "data", "state"}
  BY DEF Parts
<1> QED BY <1>1, <1>3, <1>4 DEF LaidOut

(* One token is one more element, where the position stands for one.         *)
LEMMA OneMore ==
  ASSUME TypeOK, Filling, NEW parts \in SUBSET Parts,
         \A p \in Parts, k \in Nat :
           k < Length[p] /\ PartStart[p] + k = parser_index => p \in parts
  PROVE  StoredBefore(parser_index + 1) = StoredBefore(parser_index) \cup Store(parts)
<1>1. LaidOut /\ parser_index \in 0 .. (IndexSize - 1) /\ IndexSize \in Nat
  BY Positions, ConstantsAssumption DEF TypeOK
<1>2. \A p \in Parts : PartStart[p] \in Nat
  <2>1. \A q \in Parts : Length[q] \in Nat
    BY <1>1 DEF LaidOut
  <2> QED BY <1>1, <2>1 DEF LaidOut, Parts
<1>3. ASSUME NEW e \in StoredBefore(parser_index + 1)
      PROVE  e \in StoredBefore(parser_index) \/ e \in Store(parts)
  <2>1. /\ e \in Parts \X (0 .. (IndexSize - 1)) /\ e[1] \in Parts /\ e[2] \in 0 .. (IndexSize - 1)
        /\ e[2] < Length[e[1]] /\ PartStart[e[1]] + e[2] < parser_index + 1
    BY <1>3 DEF StoredBefore
  <2>2. CASE PartStart[e[1]] + e[2] < parser_index
    BY <2>1, <2>2 DEF StoredBefore
  <2>3. CASE PartStart[e[1]] + e[2] = parser_index
    <3>1. e[1] \in parts /\ e[2] \in 0 .. parser_index
      BY <1>1, <1>2, <2>1, <2>3
    <3>2. e \in parts \X (0 .. parser_index)
      BY <2>1, <3>1
    <3> QED BY <2>1, <2>3, <3>2 DEF Store
  <2> QED BY <1>1, <1>2, <2>1, <2>2, <2>3
<1>4. ASSUME NEW e \in StoredBefore(parser_index) PROVE e \in StoredBefore(parser_index + 1)
  <2>1. /\ e \in Parts \X (0 .. (IndexSize - 1)) /\ e[1] \in Parts /\ e[2] \in 0 .. (IndexSize - 1)
        /\ e[2] < Length[e[1]] /\ PartStart[e[1]] + e[2] < parser_index
    BY <1>4 DEF StoredBefore
  <2>2. PartStart[e[1]] + e[2] < parser_index + 1
    BY <1>1, <1>2, <2>1
  <2> QED BY <2>1, <2>2 DEF StoredBefore
<1>5. ASSUME NEW e \in Store(parts) PROVE e \in StoredBefore(parser_index + 1)
  <2>1. /\ e \in parts \X (0 .. parser_index) /\ e[1] \in Parts /\ e[2] \in 0 .. parser_index
        /\ e[2] < Length[e[1]] /\ PartStart[e[1]] + e[2] = parser_index
    BY <1>5 DEF Store
  <2>2. PartStart[e[1]] + e[2] < parser_index + 1 /\ e[2] \in 0 .. (IndexSize - 1)
    BY <1>1, <2>1
  <2>3. e \in Parts \X (0 .. (IndexSize - 1))
    BY <2>1, <2>2
  <2> QED BY <2>1, <2>2, <2>3 DEF StoredBefore
<1> QED BY <1>3, <1>4, <1>5, Zenon

(* The positions of floats come after the header.                            *)
LEMMA AfterHeader ==
  ASSUME TypeOK, Filling, parser_index >= DataStart
  PROVE  parser_index >= HeaderLength
<1>1. LaidOut /\ parser_index \in Nat
  BY Positions, NextPosition
<1>2. Length["cv"] \in Nat /\ Length["test"] \in Nat
  BY <1>1 DEF LaidOut, Parts
<1> QED BY <1>1, <1>2 DEF LaidOut

(* The elements of all the positions are those within the lengths.           *)
LEMMA AllOfIt ==
  ASSUME TypeOK, Filling
  PROVE  StoredBefore(Total) = {e \in Parts \X (0 .. (IndexSize - 1)) : e[2] < Length[e[1]]}
<1>1. LaidOut
  BY Positions
<1>2. /\ Length["cv"] \in Nat /\ Length["test"] \in Nat
      /\ Length["data"] \in Nat /\ Length["state"] \in Nat
  BY <1>1 DEF LaidOut, Parts
<1>3. ASSUME NEW p \in Parts, NEW k \in Nat, k < Length[p] PROVE PartStart[p] + k < Total
  <2>1. p \in {"cv", "test", "data", "state"}
    BY DEF Parts
  <2> QED BY <1>1, <1>2, <1>3, <2>1 DEF LaidOut
<1>4. ASSUME NEW e \in Parts \X (0 .. (IndexSize - 1)), e[2] < Length[e[1]]
      PROVE  PartStart[e[1]] + e[2] < Total
  <2>1. e[1] \in Parts /\ e[2] \in Nat
    BY ConstantsAssumption
  <2> QED BY <1>3, <1>4, <2>1
<1> QED BY <1>4 DEF StoredBefore

(* What an integer of a body does, if no token went astray and it is not     *)
(* stored outside its array: it is stored.                                   *)
LEMMA IntegerStored ==
  ASSUME TypeOK, Allocating, Storing, BodyInteger, ~strayed', parser_state' # "undefined"
  PROVE  /\ ~strayed /\ parser_index < DataStart
         /\ UNCHANGED <<parser_state, size, array, owner>> /\ parser_index' = parser_index + 1
         /\ cells' = StoredBefore(parser_index + 1)
<1>1. Filling /\ parser_index >= HeaderLength
  BY DEF BodyInteger
<1>2. LaidOut /\ parser_index \in Nat
  BY <1>1, Positions, NextPosition
<1>3. ~strayed /\ Advanced = parser_index + 1 /\ parser_index < DataStart
  <2>1. ~Astray("integer")
    BY DEF BodyInteger
  <2>2. ~strayed /\ ~Misfit("integer") /\ Advanced # 0
    BY <2>1 DEF Astray
  <2>3. ~(parser_index >= DataStart)
    BY <2>2 DEF Misfit
  <2> QED BY <1>2, <2>2, <2>3, NextPosition DEF LaidOut
<1>4. {"cv", "test"} \in SUBSET Parts
  BY DEF Parts
<1>5. ~OutOfBounds(Store({"cv", "test"}))
  BY DEF BodyInteger
<1>6. cells' = cells \cup Store({"cv", "test"}) /\ parser_index' = Advanced
      /\ UNCHANGED <<parser_state, size, array, owner>>
  BY <1>5 DEF BodyInteger
<1>7. StoredBefore(parser_index + 1) = StoredBefore(parser_index) \cup Store({"cv", "test"})
  BY <1>1, <1>3, <1>4, Placed, OneMore
<1> QED BY <1>1, <1>3, <1>6, <1>7 DEF Storing

(* What a float does, if no token went astray and it is not stored outside   *)
(* its array: it is stored, and the last one hands the message over.         *)
LEMMA FloatStored ==
  ASSUME TypeOK, Allocating, Storing, Float, ~strayed', parser_state' # "undefined"
  PROVE  /\ ~strayed /\ parser_index >= DataStart
         /\ array = [p \in Parts |-> BytesFor(Length[p])]
         /\ UNCHANGED <<size, array>> /\ cells' = StoredBefore(parser_index + 1)
         /\ \/ parser_index + 1 = Total /\ HandOver
            \/ /\ parser_index + 1 # Total /\ parser_index' = parser_index + 1
               /\ UNCHANGED <<owner, parser_state>>
<1>1. Filling
  BY DEF Float
<1>2. LaidOut /\ parser_index \in Nat
  BY <1>1, Positions, NextPosition
<1>3. ~strayed /\ Advanced = parser_index + 1 /\ parser_index >= DataStart
  <2>1. ~Astray("float")
    BY DEF Float
  <2>2. ~strayed /\ ~Misfit("float") /\ Advanced # 0
    BY <2>1 DEF Astray
  <2>3. parser_index >= DataStart
    BY <2>2 DEF Misfit
  <2> QED BY <2>2, <2>3, NextPosition
<1>4. {"data", "state"} \in SUBSET Parts
  BY DEF Parts
<1>5. parser_index >= HeaderLength
  BY <1>1, <1>3, AfterHeader
<1>6. array = [p \in Parts |-> BytesFor(Length[p])]
  BY <1>1, <1>3, <1>5, AllAllocated
<1>7. ~OutOfBounds(Store({"data", "state"}))
  BY DEF Float
<1>8. /\ cells' = cells \cup Store({"data", "state"}) /\ UNCHANGED <<size, array>>
      /\ \/ Complete(Advanced) /\ HandOver
         \/ ~Complete(Advanced) /\ parser_index' = Advanced /\ UNCHANGED <<owner, parser_state>>
  BY <1>7 DEF Float
<1>9. StoredBefore(parser_index + 1) = StoredBefore(parser_index) \cup Store({"data", "state"})
  BY <1>1, <1>3, <1>4, Placed, OneMore
<1> QED BY <1>1, <1>3, <1>6, <1>8, <1>9 DEF Storing, Complete

-----------------------------------------------------------------------------
(* The steps that are no token of a message.                                 *)
Aside ==
  \/ NoSuchProblem \/ RegisterWithoutMemory
  \/ \E state \in {"solution", "delete_answer", "idle"} : Command(state)
  \/ Solution \/ DeleteAnswer \/ Close \/ HangUp

(* They leave the parser without a message, and what has been handed to the  *)
(* daemon as it was.                                                         *)
LEMMA AsideEnds ==
  ASSUME Aside
  PROVE  /\ ~Filling' /\ parser_state' # "undefined" /\ UNCHANGED <<size, strayed>>
         /\ owner' = "daemon" => owner = "daemon" /\ UNCHANGED <<array, cells>>
<1>1. CASE NoSuchProblem
  BY <1>1 DEF NoSuchProblem, Filling
<1>2. CASE RegisterWithoutMemory
  BY <1>2 DEF RegisterWithoutMemory, Filling
<1>3. ASSUME NEW state \in {"solution", "delete_answer", "idle"}, Command(state)
      PROVE  /\ ~Filling' /\ parser_state' # "undefined" /\ UNCHANGED <<size, strayed>>
             /\ owner' = "daemon" => owner = "daemon" /\ UNCHANGED <<array, cells>>
  BY <1>3 DEF Command, Forget, Filling
<1>4. CASE Solution
  BY <1>4 DEF Solution, Filling
<1>5. CASE DeleteAnswer
  BY <1>5 DEF DeleteAnswer, Filling
<1>6. CASE Close
  BY <1>6 DEF Close, Filling
<1>7. CASE HangUp
  BY <1>7 DEF HangUp, Filling
<1> QED BY <1>1, <1>2, <1>3, <1>4, <1>5, <1>6, <1>7 DEF Aside

(* A step is a token of a message, the start of one, or neither.             *)
LEMMA Steps ==
  ASSUME Next
  PROVE  \/ \E v \in Numbers : HeaderInteger(v)
         \/ BodyInteger \/ Float
         \/ \E kind \in {"problem", "answer"} : Register(kind)
         \/ Aside
<1> QED BY DEF Next, Aside

(* The sizes an object has when malloc returns it.                           *)
LEMMA Fresh ==
  ASSUME NEW kind \in {"problem", "answer"}, NEW s \in FreshSizes(kind)
  PROVE  /\ s \in [Fields -> Nat]
         /\ kind = "answer" =>
              s["rows"] = 1 /\ s["cv_size"] = 0 /\ s["test_size"] = 0 /\ s["state_size"] = 0
<1>1. PICK junk \in [Fields -> JunkSizes] :
        s = [f \in Fields |-> IF kind = "problem" \/ f \in {"size_x", "size_y"} THEN junk[f]
                              ELSE IF f = "rows" THEN 1 ELSE 0]
  BY DEF FreshSizes
<1>2. JunkSizes \subseteq Nat
  BY ConstantsAssumption
<1>3. \A f \in Fields : junk[f] \in Nat
  BY <1>2
<1> QED BY <1>1, <1>3 DEF Fields

(* Elements are of positions that parser_index can have.                     *)
LEMMA StoreType ==
  ASSUME TypeOK, NEW parts \in SUBSET Parts
  PROVE  Store(parts) \subseteq Parts \X (0 .. (IndexSize - 1))
<1>1. parser_index \in 0 .. (IndexSize - 1) /\ IndexSize \in Nat
  BY ConstantsAssumption DEF TypeOK
<1>2. ASSUME NEW e \in Store(parts) PROVE e \in Parts \X (0 .. (IndexSize - 1))
  <2>1. e \in parts \X (0 .. parser_index)
    BY <1>2 DEF Store
  <2>2. e[1] \in Parts /\ e[2] \in 0 .. (IndexSize - 1) /\ e = <<e[1], e[2]>>
    BY <1>1, <2>1
  <2> QED BY <2>2
<1> QED BY <1>2

(* Types are kept.                                                          *)
LEMMA TypeStep == ASSUME TypeOK, Next PROVE TypeOK'
<1>1. /\ Advanced \in 0 .. (IndexSize - 1) /\ 0 \in 0 .. (IndexSize - 1)
      /\ NoArrays \in [Parts -> Nat]
  BY NextPosition, ConstantsAssumption DEF NoArrays
<1>2. ASSUME NEW v \in Numbers, HeaderInteger(v) PROVE TypeOK'
  <2>1. /\ parser_index' = Advanced /\ strayed' \in BOOLEAN /\ UNCHANGED cells
        /\ size' \in [Fields -> Nat]
    BY <1>2, HeaderRead DEF TypeOK, Astray, Misfit
  <2>2. /\ \A p \in Parts : BytesFor(LengthOf(size')[p]) \in Nat
        /\ \A f \in DOMAIN AllocatedAt : AllocatedAt[f] \in Parts
    <3>1. \A p \in Parts : LengthOf(size')[p] \in Nat
      BY <2>1, Lengths
    <3>2. \A p \in Parts : BytesFor(LengthOf(size')[p]) \in Nat
      BY <3>1, Bytes
    <3> QED BY <3>2 DEF AllocatedAt, Parts
  <2>3. array' \in [Parts -> Nat] /\ (owner' = owner \/ owner' = "heap")
        /\ (parser_state' = parser_state \/ parser_state' = "failed")
    BY <1>1, <1>2, <2>2, HeaderRead DEF TypeOK
  <2>4. parser_state \in {"problem", "answer"}
    BY <1>2 DEF HeaderInteger, Filling
  <2> QED BY <1>1, <2>1, <2>3, <2>4 DEF TypeOK
<1>3. CASE BodyInteger
  <2>1. Store({"cv", "test"}) \subseteq Parts \X (0 .. (IndexSize - 1))
    BY StoreType DEF Parts
  <2>2. /\ parser_state \in {"problem", "answer"} /\ UNCHANGED <<size, array, owner>>
        /\ parser_state' = "undefined" \/ parser_state' = parser_state
        /\ parser_index' \in {parser_index, Advanced}
        /\ cells' = cells \/ cells' = cells \cup Store({"cv", "test"})
        /\ strayed' \in BOOLEAN
    BY <1>3 DEF BodyInteger, Filling, TypeOK, Astray, Misfit
  <2> QED BY <1>1, <2>1, <2>2 DEF TypeOK
<1>4. CASE Float
  <2>1. Store({"data", "state"}) \subseteq Parts \X (0 .. (IndexSize - 1))
    BY StoreType DEF Parts
  <2>2. /\ parser_state \in {"problem", "answer"} /\ UNCHANGED <<size, array>>
        /\ \/ /\ parser_state' = "undefined" \/ parser_state' = parser_state
              /\ parser_index' \in {parser_index, Advanced} /\ owner' = owner
           \/ parser_state' = "idle" /\ parser_index' = 0 /\ owner' = "daemon"
        /\ cells' = cells \/ cells' = cells \cup Store({"data", "state"})
        /\ strayed' \in BOOLEAN
    BY <1>4 DEF Float, HandOver, Filling, TypeOK, Astray, Misfit
  <2> QED BY <1>1, <2>1, <2>2 DEF TypeOK
<1>5. ASSUME NEW kind \in {"problem", "answer"}, Register(kind) PROVE TypeOK'
  <2>1. size' \in [Fields -> Nat]
    BY <1>5, Fresh DEF Register
  <2> QED BY <1>1, <1>5, <2>1 DEF Register, TypeOK
<1>6. CASE Aside
  <2>1. CASE NoSuchProblem \/ RegisterWithoutMemory \/ HangUp
    BY <2>1 DEF NoSuchProblem, RegisterWithoutMemory, HangUp, TypeOK
  <2>2. ASSUME NEW state \in {"solution", "delete_answer", "idle"}, Command(state) PROVE TypeOK'
    BY <1>1, <2>2 DEF Command, Forget, TypeOK
  <2>3. CASE Solution \/ DeleteAnswer
    BY <1>1, <2>3 DEF Solution, DeleteAnswer, TypeOK
  <2>4. CASE Close
    BY <1>1, <2>4 DEF Close, TypeOK
  <2> QED BY <1>6, <2>1, <2>2, <2>3, <2>4 DEF Aside
<1> QED BY <1>2, <1>3, <1>4, <1>5, <1>6, Steps

(* The object is the parser's only while a message is under way.             *)
LEMMA OwnedStep ==
  ASSUME TypeOK, Owned, Allocating, Next
  PROVE  Owned'
<1>1. ASSUME NEW v \in Numbers, HeaderInteger(v) PROVE Owned'
  <2>1. Filling /\ owner = "parser"
    BY <1>1 DEF HeaderInteger, Owned
  <2>2. \/ UNCHANGED <<owner, parser_state>>
        \/ array' = NoArrays /\ owner' = "heap" /\ parser_state' = "failed"
    BY <1>1, HeaderRead
  <2> QED BY <2>1, <2>2 DEF Owned, Filling
<1>2. CASE BodyInteger
  BY <1>2 DEF BodyInteger, Owned, Filling
<1>3. CASE Float
  BY <1>3 DEF Float, HandOver, Owned, Filling
<1>4. ASSUME NEW kind \in {"problem", "answer"}, Register(kind) PROVE Owned'
  BY <1>4 DEF Register, Owned, Filling
<1>5. CASE NoSuchProblem
  <2>1. parser_state' = "failed" /\ owner' = "heap" /\ UNCHANGED <<array, strayed>>
    BY <1>5 DEF NoSuchProblem
  <2>2. Filling /\ parser_state = "answer" /\ parser_index = 0
    BY <1>5 DEF NoSuchProblem, Filling
  <2>3. ~strayed => \A p \in Parts : array[p] = 0
    BY <2>2 DEF Allocating, AllocatedAfter
  <2>4. array = [p \in Parts |-> array[p]]
    BY Zenon DEF TypeOK
  <2>5. ~strayed => array = NoArrays
    BY <2>3, <2>4 DEF NoArrays
  <2> QED BY <2>1, <2>5 DEF Owned, Filling
<1>6. CASE RegisterWithoutMemory \/ HangUp
  BY <1>6 DEF RegisterWithoutMemory, HangUp, Owned, Filling
<1>7. ASSUME NEW state \in {"solution", "delete_answer", "idle"}, Command(state) PROVE Owned'
  BY <1>7 DEF Command, Forget, Reading, Owned, Filling
<1>8. CASE Solution \/ DeleteAnswer
  BY <1>8 DEF Solution, DeleteAnswer, Owned, Filling
<1>9. CASE Close
  BY <1>9 DEF Close, Reading, Owned, Filling
<1> QED BY <1>1, <1>2, <1>3, <1>4, <1>5, <1>6, <1>7, <1>8, <1>9, Steps DEF Aside

(* Arrays are allocated when the sizes they need have come.                  *)
LEMMA AllocatingStep ==
  ASSUME TypeOK, Allocating, Storing, Next
  PROVE  Allocating'
<1>1. ASSUME NEW v \in Numbers, HeaderInteger(v) PROVE Allocating'
  BY <1>1, HeaderAllocates
<1>2. ASSUME Filling, parser_index >= HeaderLength, array = [p \in Parts |-> BytesFor(Length[p])],
             UNCHANGED <<size, array, parser_state>>, parser_index' = parser_index + 1
      PROVE  Allocating'
  BY <1>2, PastHeader DEF Allocating, Length
<1>3. ASSUME parser_state' = parser_state \/ parser_state' \notin {"problem", "answer"},
             UNCHANGED size, Filling' => strayed'
      PROVE  Allocating'
  BY <1>3 DEF Allocating
<1>4. CASE BodyInteger
  <2>1. /\ Filling /\ parser_index >= HeaderLength /\ UNCHANGED size
        /\ parser_state' = parser_state \/ parser_state' = "undefined"
    BY <1>4 DEF BodyInteger
  <2>2. CASE strayed' \/ parser_state' = "undefined"
    BY <1>3, <2>1, <2>2 DEF Filling
  <2>3. CASE ~strayed' /\ parser_state' # "undefined"
    <3>1. ~strayed /\ UNCHANGED <<parser_state, size, array>> /\ parser_index' = parser_index + 1
      BY <1>4, <2>3, IntegerStored
    <3>2. array = [p \in Parts |-> BytesFor(Length[p])]
      BY <2>1, <3>1, AllAllocated
    <3> QED BY <1>2, <2>1, <3>1, <3>2
  <2> QED BY <2>2, <2>3
<1>5. CASE Float
  <2>1. /\ Filling /\ UNCHANGED size
        /\ parser_state' = parser_state \/ parser_state' \in {"undefined", "idle"}
    BY <1>5 DEF Float, HandOver
  <2>2. CASE strayed' \/ parser_state' \in {"idle", "undefined"}
    BY <1>3, <2>1, <2>2 DEF Filling
  <2>3. CASE ~strayed' /\ parser_state' \notin {"idle", "undefined"}
    <3>1. /\ ~strayed /\ parser_index >= DataStart
          /\ array = [p \in Parts |-> BytesFor(Length[p])]
          /\ UNCHANGED <<parser_state, size, array>> /\ parser_index' = parser_index + 1
      BY <1>5, <2>3, FloatStored DEF HandOver
    <3>2. parser_index >= HeaderLength
      BY <2>1, <3>1, AfterHeader
    <3> QED BY <1>2, <2>1, <3>1, <3>2
  <2> QED BY <2>2, <2>3
<1>6. ASSUME NEW kind \in {"problem", "answer"}, Register(kind) PROVE Allocating'
  <2>1. /\ parser_state' = kind /\ parser_index' = 0 /\ size' \in FreshSizes(kind)
        /\ array' = NoArrays
    BY <1>6 DEF Register
  <2>2. \A p \in Parts : array'[p] = 0 /\ ~(AllocatedAfter(kind, p) < 0)
    <3>1. \A p \in Parts : AllocatedAfter(kind, p) \in {2, 4, 5, 6, 7}
      BY DEF AllocatedAfter, Parts
    <3> QED BY <2>1, <3>1 DEF NoArrays
  <2> QED BY <2>1, <2>2, Fresh DEF Allocating
<1>7. CASE Aside
  BY <1>7, AsideEnds DEF Allocating, Filling
<1> QED BY <1>1, <1>4, <1>5, <1>6, <1>7, Steps

(* Elements are stored in the order of their positions.                      *)
LEMMA StoringStep ==
  ASSUME TypeOK, Allocating, Storing, Next
  PROVE  Storing'
<1>1. TypeOK'
  BY TypeStep
<1>2. ASSUME NEW v \in Numbers, HeaderInteger(v), Filling', ~strayed'
      PROVE  cells' = StoredBefore(parser_index)'
  <2>1. /\ Filling /\ parser_index < HeaderLength /\ parser_index' = Advanced
        /\ ~strayed /\ Advanced # 0 /\ UNCHANGED <<cells, parser_state>>
    BY <1>2, HeaderRead DEF HeaderInteger, Filling, Astray
  <2>2. /\ parser_index \in Nat /\ parser_index' = parser_index + 1 /\ HeaderLength \in Nat
        /\ HeaderLength' = HeaderLength
    BY <2>1, Positions, NextPosition DEF LaidOut, HeaderLength
  <2>3. cells = {}
    <3>1. parser_index \in 0 .. HeaderLength
      BY <2>1, <2>2
    <3> QED BY <2>1, <3>1, NothingBefore DEF Storing
  <2>4. parser_index' \in 0 .. HeaderLength'
    BY <2>1, <2>2
  <2>5. StoredBefore(parser_index)' = {}
    BY <1>1, <1>2, <2>4, NothingBeforeAfter
  <2> QED BY <2>1, <2>3, <2>5
<1>3. ASSUME BodyInteger \/ Float, Filling', ~strayed'
      PROVE  cells' = StoredBefore(parser_index)'
  <2>1. /\ UNCHANGED <<size, parser_state>> /\ parser_index' = parser_index + 1
        /\ cells' = StoredBefore(parser_index + 1)
    BY <1>3, IntegerStored, FloatStored DEF HandOver, Filling
  <2> QED BY <2>1 DEF StoredBefore, Length, PartStart, HeaderLength, TestStart, DataStart, StateStart
<1>4. ASSUME NEW kind \in {"problem", "answer"}, Register(kind)
      PROVE  cells' = StoredBefore(parser_index)'
  <2>1. Filling' /\ parser_index' = 0 /\ cells' = {}
    BY <1>4 DEF Register, Filling
  <2>2. HeaderLength' \in Nat
    BY <1>1, <2>1, PositionsAfter DEF LaidOut
  <2>3. parser_index' \in 0 .. HeaderLength'
    BY <2>1, <2>2
  <2> QED BY <1>1, <2>1, <2>3, NothingBeforeAfter
<1>5. CASE Aside
  BY <1>5, AsideEnds DEF Storing
<1> QED BY <1>2, <1>3, <1>4, <1>5, Steps DEF Storing

(* What is handed over is whole.                                             *)
LEMMA WholeStep ==
  ASSUME TypeOK, Owned, Allocating, Storing, RegisteredWhole, Next
  PROVE  RegisteredWhole'
<1>0. ASSUME Filling, ~strayed, parser_index >= HeaderLength, Fits, NEW parts \in SUBSET Parts
      PROVE  ~OutOfBounds(Store(parts))
  BY <1>0, AllAllocated, InBounds
<1>1. ASSUME ~strayed', parser_state' # "undefined", owner' # "daemon" PROVE RegisteredWhole'
  BY <1>1 DEF RegisteredWhole
<1>2. ASSUME NEW v \in Numbers, HeaderInteger(v), ~strayed' PROVE RegisteredWhole'
  <2>1. Filling /\ owner = "parser"
    BY <1>2 DEF HeaderInteger, Owned
  <2>2. \/ UNCHANGED <<owner, parser_state>>
        \/ owner' = "heap" /\ parser_state' = "failed"
    BY <1>2, HeaderRead
  <2> QED BY <1>1, <1>2, <2>1, <2>2 DEF Filling
<1>3. ASSUME BodyInteger, ~strayed', Fits' PROVE RegisteredWhole'
  <2>1. UNCHANGED <<owner, size>> /\ Filling /\ ~strayed /\ parser_index >= HeaderLength
    BY <1>3 DEF BodyInteger, Astray
  <2>2. Fits
    BY <1>3, <2>1 DEF Fits
  <2>3. ~OutOfBounds(Store({"cv", "test"}))
    BY <1>0, <2>1, <2>2 DEF Parts
  <2>4. UNCHANGED parser_state
    BY <1>3, <2>3 DEF BodyInteger
  <2> QED BY <1>1, <1>3, <2>1, <2>4 DEF Owned, Filling
<1>4. ASSUME Float, ~strayed', Fits' PROVE RegisteredWhole'
  <2>1. Filling /\ owner = "parser" /\ parser_state # "undefined"
    BY <1>4 DEF Float, Owned, Filling
  <2>5. parser_state' # "undefined" /\ Fits
    <3>1. UNCHANGED size /\ ~strayed /\ parser_index >= DataStart
      <4>1. UNCHANGED size /\ ~strayed /\ ~Misfit("float")
        BY <1>4 DEF Float, Astray
      <4> QED BY <4>1 DEF Misfit
    <3>2. Fits /\ parser_index >= HeaderLength
      BY <1>4, <2>1, <3>1, AfterHeader DEF Fits
    <3>3. ~OutOfBounds(Store({"data", "state"}))
      BY <1>0, <2>1, <3>1, <3>2 DEF Parts
    <3> QED BY <1>4, <2>1, <3>2, <3>3 DEF Float, HandOver
  <2>2. /\ array = [p \in Parts |-> BytesFor(Length[p])]
        /\ UNCHANGED <<size, array>> /\ cells' = StoredBefore(parser_index + 1)
        /\ \/ parser_index + 1 = Total /\ HandOver
           \/ UNCHANGED <<owner, parser_state>>
    BY <1>4, <2>5, FloatStored
  <2>3. CASE UNCHANGED <<owner, parser_state>>
    BY <1>1, <1>4, <2>1, <2>3
  <2>4. CASE parser_index + 1 = Total /\ HandOver
    <3>1. StoredBefore(Total) = {e \in Parts \X (0 .. (IndexSize - 1)) : e[2] < Length[e[1]]}
      BY <2>1, AllOfIt
    <3>2. Length' = Length
      BY <2>2 DEF Length
    <3>3. cells' = {e \in Parts \X (0 .. (IndexSize - 1)) : e[2] < Length'[e[1]]}
      BY <2>2, <2>4, <3>1, <3>2
    <3>4. array' = [p \in Parts |-> Length'[p] * ElementSize]
      BY <2>2, <2>5, <3>2, Whole
    <3> QED BY <2>4, <3>3, <3>4 DEF HandOver, RegisteredWhole
  <2> QED BY <2>2, <2>3, <2>4
<1>5. ASSUME NEW kind \in {"problem", "answer"}, Register(kind) PROVE RegisteredWhole'
  BY <1>5 DEF Register, RegisteredWhole
<1>6. CASE Aside
  BY <1>6, AsideEnds DEF RegisteredWhole, Length, Fits
<1> QED BY <1>2, <1>3, <1>4, <1>5, <1>6, Steps DEF RegisteredWhole

(* A message is not past its end.                                            *)
LEMMA NotStuckStep ==
  ASSUME TypeOK, Allocating, Storing, NoneStuck, Next
  PROVE  NoneStuck'
<1>1. TypeOK'
  BY TypeStep
<1>2. ASSUME NEW v \in Numbers, HeaderInteger(v) PROVE NoneStuck'
  <2>1. SUFFICES ASSUME Filling', ~strayed', parser_index' >= HeaderLength',
                        (Length["data"] + Length["state"])' > 0
                 PROVE  parser_index' < Total'
    BY DEF NoneStuck
  <2>2. /\ Filling /\ parser_index < HeaderLength /\ parser_index' = Advanced
        /\ Advanced # 0 /\ parser_state' = parser_state
    BY <1>2, <2>1, HeaderRead DEF HeaderInteger, Filling, Astray
  <2>3. /\ parser_index \in Nat /\ parser_index' = parser_index + 1 /\ HeaderLength \in Nat
        /\ HeaderLength' = HeaderLength
    BY <2>2, Positions, NextPosition DEF LaidOut, HeaderLength
  <2>4. Length' \in [Parts -> Nat] /\ Total' = HeaderLength' + Length'["cv"] + Length'["test"]
                                               + Length'["data"] + Length'["state"]
    BY <1>1, <2>1, PositionsAfter DEF LaidOut
  <2>5. /\ Length'["cv"] \in Nat /\ Length'["test"] \in Nat
        /\ Length'["data"] \in Nat /\ Length'["state"] \in Nat
    BY <2>4 DEF Parts
  <2> QED BY <2>1, <2>2, <2>3, <2>4, <2>5
<1>3. ASSUME BodyInteger \/ Float PROVE NoneStuck'
  <2>1. SUFFICES ASSUME Filling', ~strayed', (Length["data"] + Length["state"])' > 0
                 PROVE  parser_index' < Total'
    BY DEF NoneStuck
  <2>2. /\ Filling /\ ~strayed /\ UNCHANGED <<parser_state, size>>
        /\ parser_index' = parser_index + 1
        /\ \/ parser_index < DataStart
           \/ parser_index >= DataStart /\ parser_index + 1 # Total
    BY <1>3, <2>1, IntegerStored, FloatStored DEF HandOver, Filling, BodyInteger, Float
  <2>3. LaidOut /\ parser_index \in Nat
    BY <2>2, Positions, NextPosition
  <2>4. /\ Length["cv"] \in Nat /\ Length["test"] \in Nat
        /\ Length["data"] \in Nat /\ Length["state"] \in Nat
    BY <2>3 DEF LaidOut, Parts
  <2>5. /\ Length["data"] + Length["state"] > 0
        /\ Total' = Total
    BY <2>1, <2>2 DEF Length, Total, HeaderLength, TestStart, DataStart, StateStart
  <2>6. parser_index >= DataStart => parser_index < Total
    <3>1. parser_index >= DataStart => parser_index >= HeaderLength
      BY <2>2, AfterHeader
    <3> QED BY <2>2, <2>5, <3>1 DEF NoneStuck
  <2>7. Total = DataStart + Length["data"] + Length["state"] /\ DataStart \in Nat /\ Total \in Nat
    BY <2>3, <2>4 DEF LaidOut
  <2> QED BY <2>2, <2>3, <2>4, <2>5, <2>6, <2>7
<1>4. ASSUME NEW kind \in {"problem", "answer"}, Register(kind) PROVE NoneStuck'
  <2>1. Filling' /\ parser_index' = 0
    BY <1>4 DEF Register, Filling
  <2>2. HeaderLength' = IF parser_state' = "problem" THEN 8 ELSE 3
    BY <1>1, <2>1, PositionsAfter DEF LaidOut
  <2> QED BY <2>1, <2>2 DEF NoneStuck
<1>5. CASE Aside
  BY <1>5, AsideEnds DEF NoneStuck
<1> QED BY <1>2, <1>3, <1>4, <1>5, Steps

-----------------------------------------------------------------------------
(* A step of the parser keeps the invariant.                                 *)
LEMMA StepInv == Inv /\ [Next]_vars => Inv'
<1> SUFFICES ASSUME Inv, [Next]_vars PROVE Inv'
  OBVIOUS
<1>1. TypeOK /\ Owned /\ Allocating /\ Storing /\ RegisteredWhole /\ NoneStuck
  BY DEF Inv
<1>2. CASE Next
  BY <1>1, <1>2, TypeStep, OwnedStep, AllocatingStep, StoringStep, WholeStep, NotStuckStep DEF Inv
<1>3. CASE UNCHANGED vars
  <2>1. UNCHANGED <<parser_state, parser_index, size, array, cells, owner, strayed>>
    BY <1>3 DEF vars
  <2>2. TypeOK' /\ Owned'
    BY <1>1, <2>1 DEF TypeOK, Owned, Filling
  <2>3. Allocating' /\ RegisteredWhole'
    BY <1>1, <2>1 DEF Allocating, RegisteredWhole, Fits, Filling, Length
  <2>4. Storing' /\ NoneStuck'
    BY <1>1, <2>1 DEF Storing, NoneStuck, StoredBefore, Filling, Length, PartStart, HeaderLength,
                      TestStart, DataStart, StateStart, Total
  <2> QED BY <2>2, <2>3, <2>4 DEF Inv
<1> QED BY <1>2, <1>3

(* Inv holds in every state of a connection.                                 *)
THEOREM Invariance == Spec => []Inv
<1> QED BY InitInv, StepInv, PTL DEF Spec

(* TypeOK: every variable has its type, parser_index of its width.           *)
THEOREM TypeCorrect == Spec => []TypeOK
<1>1. Inv => TypeOK
  BY DEF Inv
<1> QED BY <1>1, Invariance, PTL

(* RegisteredWhole: what _parser hands to register_problem and               *)
(* register_answer is complete, and no store falls outside an array, of any  *)
(* sizes whose bytes a word can count, if every token was of the type its    *)
(* position calls for and the index did not wrap.                            *)
THEOREM HandedOverWhole == Spec => []RegisteredWhole
<1>1. Inv => RegisteredWhole
  BY DEF Inv
<1> QED BY <1>1, Invariance, PTL

(* NoneStuck: the test for the end of a message, for equality and after      *)
(* floats only, is not jumped over, if every token was of the type its       *)
(* position calls for and there were fewer than the index counts.            *)
THEOREM EndIsSeen == Spec => []NoneStuck
<1>1. Inv => NoneStuck
  BY DEF Inv
<1> QED BY <1>1, Invariance, PTL

(* NothingLeaked: when _parser returns after req:close or a failed           *)
(* allocation, the object under way and its arrays have been freed.          *)
THEOREM GivenBack == Spec => []NothingLeaked
<1>1. Inv => NothingLeaked
  BY DEF Inv, Owned, NothingLeaked
<1> QED BY <1>1, Invariance, PTL

(* HandedUntouched: what has been registered is left alone by the rest of    *)
(* the connection, except through dlt:answer.                                *)
THEOREM RegisteredLeftAlone == Spec => HandedUntouched
<1>1. ASSUME Inv, [Next]_vars, owner = "daemon"
      PROVE  /\ owner' = "heap" => parser_state = "delete_answer"
             /\ owner' = "daemon" => UNCHANGED <<size, array, cells>>
  <2>1. ~Filling
    BY <1>1 DEF Inv, Owned
  <2>2. CASE UNCHANGED vars
    BY <1>1, <2>2 DEF vars
  <2>3. ASSUME NEW kind \in {"problem", "answer"}, Register(kind) PROVE owner' = "parser"
    BY <2>3 DEF Register
  <2>4. CASE Aside
    <3>1. owner' = "daemon" => UNCHANGED <<size, array, cells>>
      BY <2>4, AsideEnds
    <3>2. owner' = "heap" => parser_state = "delete_answer"
      BY <1>1, <2>1, <2>4 DEF Aside, NoSuchProblem, RegisterWithoutMemory, Command, Forget, Solution,
                              DeleteAnswer, Close, HangUp, Filling
    <3> QED BY <3>1, <3>2
  <2> QED BY <1>1, <2>1, <2>2, <2>3, <2>4, Steps DEF HeaderInteger, BodyInteger, Float
<1> QED BY <1>1, Invariance, PTL DEF Spec, HandedUntouched
-----------------------------------------------------------------------------
(* The reader of characters                                                  *)

\* after is the loop of _parser over the text.
Reads(after, text, N) ==
  after = [n \in 0 .. N |->
             IF n = 0 THEN Start ELSE ReadCharacter(after[n - 1], text[n])]

\* There is such a loop over any number of characters.
LEMMA ReadsExists ==
  ASSUME NEW text, NEW N \in Nat
  PROVE  \E after : Reads(after, text, N)
<1> DEFINE S == {n \in Nat : ~\E after : Reads(after, text, n)}
<1>1. SUFFICES ASSUME S # {} PROVE FALSE
  OBVIOUS
<1>2. PICK m \in S : \A i \in S : m <= i
  BY <1>1, Least
<1>3. CASE m = 0
  <2> DEFINE g == [n \in 0 .. 0 |-> Start]
  <2>1. Reads(g, text, 0)
    BY DEF Reads
  <2> QED BY <1>2, <1>3, <2>1
<1>4. CASE m # 0
  <2>1. m \in Nat /\ m - 1 \in Nat /\ m - 1 \notin S
    BY <1>2, <1>4
  <2>2. PICK f : Reads(f, text, m - 1)
    BY <2>1
  <2> DEFINE g == [n \in 0 .. m |-> IF n = m THEN ReadCharacter(f[m - 1], text[m]) ELSE f[n]]
  <2>3. \A n \in 0 .. (m - 1) :
          f[n] = IF n = 0 THEN Start ELSE ReadCharacter(f[n - 1], text[n])
    BY <2>2 DEF Reads
  <2>4. ASSUME NEW n \in 0 .. m
        PROVE  g[n] = IF n = 0 THEN Start ELSE ReadCharacter(g[n - 1], text[n])
    BY <1>4, <2>1, <2>3
  <2>5. g = [n \in 0 .. m |-> IF n = 0 THEN Start ELSE ReadCharacter(g[n - 1], text[n])]
    <3>1. g = [n \in 0 .. m |-> g[n]]
      OBVIOUS
    <3> HIDE DEF g
    <3> QED BY <2>4, <3>1
  <2>6. Reads(g, text, m)
    BY <2>5 DEF Reads
  <2> QED BY <1>2, <2>6
<1> QED BY <1>3, <1>4

\* What the loop has is what a round makes of what it had a character before.
LEMMA RoundsUnrolled ==
  ASSUME NEW text \in Seq(Class)
  PROVE  /\ Rounds(text)[0] = Start
         /\ \A n \in 1 .. Len(text) :
              Rounds(text)[n] = ReadCharacter(Rounds(text)[n - 1], text[n])
<1>1. Len(text) \in Nat
  BY LenProperties
<1>2. PICK after : Reads(after, text, Len(text))
  BY <1>1, ReadsExists
<1>3. Rounds(text) = CHOOSE f : Reads(f, text, Len(text))
  BY DEF Rounds, Reads
<1>4. Reads(Rounds(text), text, Len(text))
  BY <1>2, <1>3
<1>5. \A n \in 0 .. Len(text) : Rounds(text)[n] =
        IF n = 0 THEN Start ELSE ReadCharacter(Rounds(text)[n - 1], text[n])
  BY <1>4 DEF Reads
<1> QED BY <1>1, <1>5

-----------------------------------------------------------------------------
FlagNames == {"digit", "letter", "dot", "all"}
Kinds == {"integer", "float", "command"}

\* What the counts say of the characters from s to n.
Counted(text, s, n, flags) ==
  /\ flags \in [FlagNames -> Nat]
  /\ flags["all"] = n + 1 - s
  /\ flags["digit"] + flags["dot"] <= flags["all"] /\ flags["letter"] <= flags["all"]
  /\ flags["digit"] = flags["all"] <=> \A k \in s .. n : text[k] = "digit"
  /\ flags["letter"] = flags["all"] <=> \A k \in s .. n : text[k] = "letter"
  /\ flags["digit"] + 1 = flags["all"] /\ flags["dot"] = 1 <=>
       \E k \in s .. n : text[k] = "dot" /\ \A m \in (s .. n) \ {k} : text[m] = "digit"

\* No counts are right for no characters.
LEMMA NothingCounted ==
  ASSUME NEW text, NEW s \in Nat
  PROVE  Counted(text, s, s - 1, NoFlags)
<1>1. NoFlags \in [FlagNames -> Nat] /\ \A f \in FlagNames : NoFlags[f] = 0
  BY DEF NoFlags, FlagNames
<1>2. s .. (s - 1) = {} /\ (s - 1) + 1 - s = 0
  OBVIOUS
<1> HIDE DEF NoFlags
<1> QED BY <1>1, <1>2 DEF Counted, FlagNames

\* Counting one more character keeps the counts right.
LEMMA OneMoreCounted ==
  ASSUME NEW text, NEW s \in Nat, NEW n \in Nat, s <= n + 1, NEW flags, Counted(text, s, n, flags),
         text[n + 1] \in Wordly
  PROVE  Counted(text, s, n + 1, Count(flags, text[n + 1]))
<1> DEFINE c == text[n + 1]
           g == Count(flags, c)
<1>1. flags \in [FlagNames -> Nat] /\ flags["digit"] \in Nat /\ flags["dot"] \in Nat
      /\ flags["letter"] \in Nat /\ flags["all"] \in Nat
  BY DEF Counted, FlagNames
<1>2. /\ g \in [FlagNames -> Nat] /\ g["all"] = flags["all"] + 1
      /\ g["digit"] = IF c = "digit" THEN flags["digit"] + 1 ELSE flags["digit"]
      /\ g["letter"] = IF c = "letter" THEN flags["letter"] + 1 ELSE flags["letter"]
      /\ g["dot"] = IF c = "dot" THEN flags["dot"] + 1 ELSE flags["dot"]
  BY <1>1 DEF Count, FlagNames
<1> HIDE DEF g
<1>3. s .. (n + 1) = (s .. n) \cup {n + 1} /\ n + 1 \notin s .. n
  OBVIOUS
<1>4. g["all"] = (n + 1) + 1 - s
  BY <1>2 DEF Counted
<1>5. g["digit"] + g["dot"] <= g["all"] /\ g["letter"] <= g["all"]
  BY <1>1, <1>2 DEF Counted
<1>6. g["digit"] = g["all"] <=> \A k \in s .. (n + 1) : text[k] = "digit"
  BY <1>1, <1>2, <1>3 DEF Counted
<1>7. g["letter"] = g["all"] <=> \A k \in s .. (n + 1) : text[k] = "letter"
  BY <1>1, <1>2, <1>3 DEF Counted
<1> DEFINE Real(m) ==
      \E k \in s .. m : text[k] = "dot" /\ \A i \in (s .. m) \ {k} : text[i] = "digit"
<1>8. g["digit"] + 1 = g["all"] /\ g["dot"] = 1 <=> Real(n + 1)
  <2>1. CASE c = "digit"
    <3>1. Real(n + 1) <=> Real(n)
      BY <1>3, <2>1
    <3> QED BY <1>1, <1>2, <2>1, <3>1 DEF Counted
  <2>2. CASE c = "dot"
    <3>1. ASSUME Real(n + 1) PROVE \A k \in s .. n : text[k] = "digit"
      <4>1. PICK k \in s .. (n + 1) :
              text[k] = "dot" /\ \A i \in (s .. (n + 1)) \ {k} : text[i] = "digit"
        BY <3>1
      <4>2. k = n + 1
        BY <1>3, <2>2, <4>1
      <4> QED BY <1>3, <4>1, <4>2
    <3>2. ASSUME \A k \in s .. n : text[k] = "digit" PROVE Real(n + 1)
      <4>1. n + 1 \in s .. (n + 1) /\ (s .. (n + 1)) \ {n + 1} = s .. n
        BY <1>3
      <4> QED BY <2>2, <3>2, <4>1
    <3> QED BY <1>1, <1>2, <2>2, <3>1, <3>2 DEF Counted
  <2>3. CASE c \notin {"digit", "dot"}
    <3>1. ~Real(n + 1)
      BY <1>3, <2>3
    <3> QED BY <1>1, <1>2, <2>3, <3>1 DEF Counted
  <2> QED BY <2>1, <2>2, <2>3
<1> QED BY <1>2, <1>4, <1>5, <1>6, <1>7, <1>8 DEF Counted, g

\* The characters of a word, all of them or without the one in place k.
LEMMA WordOf ==
  ASSUME NEW text \in Seq(Class), NEW i \in 1 .. Len(text), NEW j \in i .. Len(text)
  PROVE  /\ DOMAIN SubSeq(text, i, j) = 1 .. j + 1 - i
         /\ \A m \in 1 .. j + 1 - i : SubSeq(text, i, j)[m] = text[i + m - 1]
         /\ ToSet(SubSeq(text, i, j)) = {text[m] : m \in i .. j}
<1> DEFINE w == SubSeq(text, i, j)
<1>1. /\ Len(text) \in Nat /\ i \in Int /\ j \in Int /\ i <= j
      /\ \A m \in i .. j : text[m] \in Class
  BY LenProperties, ElementOfSeq
<1>2. w \in Seq(Class) /\ Len(w) = j - i + 1 /\ \A m \in 1 .. j - i + 1 : w[m] = text[i + m - 1]
  BY <1>1, SubSeqProperties
<1>3. DOMAIN w = 1 .. j + 1 - i
  BY <1>1, <1>2, LenProperties
<1> HIDE DEF w
<1>4. ToSet(w) = {text[m] : m \in i .. j}
  <2>1. ASSUME NEW m \in i .. j PROVE \E k \in 1 .. j + 1 - i : w[k] = text[m]
    <3>1. m + 1 - i \in 1 .. j + 1 - i /\ i + (m + 1 - i) - 1 = m
      BY <1>1
    <3>2. w[m + 1 - i] = text[i + (m + 1 - i) - 1]
      BY <1>1, <1>2, <3>1
    <3> QED BY <3>1, <3>2
  <2>2. ASSUME NEW k \in 1 .. j + 1 - i PROVE i + k - 1 \in i .. j /\ w[k] = text[i + k - 1]
    BY <1>1, <1>2
  <2>3. ToSet(w) = {w[k] : k \in 1 .. j + 1 - i}
    BY <1>3 DEF ToSet
  <2>4. ASSUME NEW x \in ToSet(w) PROVE x \in {text[m] : m \in i .. j}
    <3>1. PICK k \in 1 .. j + 1 - i : x = w[k]
      BY <2>3
    <3> QED BY <2>2, <3>1
  <2>5. ASSUME NEW m \in i .. j PROVE text[m] \in ToSet(w)
    BY <2>1, <2>3
  <2> QED BY <2>4, <2>5
<1> QED BY <1>1, <1>2, <1>3, <1>4 DEF w

\* What is left of a list without the element in place k.
LEMMA RestOf ==
  ASSUME NEW S, NEW w \in Seq(S), NEW k \in 1 .. Len(w)
  PROVE  ToSet(RemoveAt(w, k)) = {w[m] : m \in (1 .. Len(w)) \ {k}}
<1> DEFINE a == SubSeq(w, 1, k - 1)
           b == SubSeq(w, k + 1, Len(w))
           N == Len(w)
<1>1. /\ N \in Nat /\ k \in Nat /\ 1 <= k /\ k <= N /\ 1 \in Int /\ k - 1 \in Int /\ k + 1 \in Int
      /\ \A m \in 1 .. N : w[m] \in S
  BY LenProperties, ElementOfSeq
<1> HIDE DEF N
<1>2. /\ a \in Seq(S) /\ Len(a) = k - 1 /\ \A m \in 1 .. k - 1 : a[m] = w[m]
  <2>1. \A m \in 1 .. k - 1 : w[m] \in S
    BY <1>1
  <2>2. /\ a \in Seq(S) /\ Len(a) = IF 1 <= k - 1 THEN (k - 1) - 1 + 1 ELSE 0
        /\ \A m \in 1 .. (k - 1) - 1 + 1 : a[m] = w[1 + m - 1]
    BY <1>1, <2>1, SubSeqProperties
  <2> HIDE DEF a
  <2> QED BY <1>1, <2>2
<1>3. /\ b \in Seq(S) /\ Len(b) = N - k /\ \A m \in 1 .. N - k : b[m] = w[k + m]
  <2>1. N \in Int /\ \A m \in (k + 1) .. N : w[m] \in S
    BY <1>1
  <2>2. /\ b \in Seq(S) /\ Len(b) = IF k + 1 <= N THEN N - (k + 1) + 1 ELSE 0
        /\ \A m \in 1 .. N - (k + 1) + 1 : b[m] = w[(k + 1) + m - 1]
    BY <1>1, <2>1, SubSeqProperties DEF N
  <2> HIDE DEF b
  <2>3. Len(b) = N - k
    BY <1>1, <2>2
  <2>4. ASSUME NEW m \in 1 .. N - k PROVE b[m] = w[k + m]
    <3>1. m \in 1 .. N - (k + 1) + 1 /\ (k + 1) + m - 1 = k + m
      BY <1>1
    <3> QED BY <2>2, <3>1
  <2> QED BY <2>2, <2>3, <2>4
<1> HIDE DEF a, b
<1>4. RemoveAt(w, k) = a \o b
  BY DEF RemoveAt, a, b, N
<1>5. /\ a \o b \in Seq(S) /\ Len(a \o b) = N - 1
      /\ \A m \in 1 .. k - 1 : (a \o b)[m] = w[m]
      /\ \A m \in k .. N - 1 : (a \o b)[m] = w[m + 1]
  <2>1. /\ a \o b \in Seq(S) /\ Len(a \o b) = Len(a) + Len(b)
        /\ \A m \in 1 .. Len(a) + Len(b) :
             (a \o b)[m] = IF m <= Len(a) THEN a[m] ELSE b[m - Len(a)]
    BY <1>2, <1>3, ConcatProperties
  <2>2. ASSUME NEW m \in 1 .. k - 1 PROVE (a \o b)[m] = w[m]
    BY <1>1, <1>2, <1>3, <2>1
  <2>3. ASSUME NEW m \in k .. N - 1 PROVE (a \o b)[m] = w[m + 1]
    <3>1. m - (k - 1) \in 1 .. N - k /\ k + (m - (k - 1)) = m + 1 /\ m \in 1 .. N - 1 /\ ~(m <= k - 1)
      BY <1>1
    <3>2. (a \o b)[m] = b[m - (k - 1)]
      BY SMTT(60), <1>1, <1>2, <1>3, <2>1, <3>1
    <3> QED BY <1>3, <3>1, <3>2
  <2> QED BY SMTT(60), <1>1, <1>2, <1>3, <2>1, <2>2, <2>3
<1> DEFINE t == a \o b
<1>6. DOMAIN t = 1 .. N - 1
  BY <1>1, <1>5, LenProperties
<1> HIDE DEF t
<1>7. ASSUME NEW m \in (1 .. N) \ {k} PROVE \E i \in 1 .. N - 1 : t[i] = w[m]
  <2>1. CASE m < k
    <3>1. m \in 1 .. k - 1 /\ m \in 1 .. N - 1
      BY <1>1, <2>1
    <3>2. t[m] = w[m]
      BY <1>5, <3>1 DEF t
    <3> QED BY <3>1, <3>2
  <2>2. CASE m > k
    <3>1. m - 1 \in k .. N - 1 /\ (m - 1) + 1 = m /\ m - 1 \in 1 .. N - 1
      BY <1>1, <2>2
    <3>2. t[m - 1] = w[m]
      BY <1>5, <3>1 DEF t
    <3> QED BY <3>1, <3>2
  <2> QED BY <1>1, <2>1, <2>2
<1>8. ASSUME NEW i \in 1 .. N - 1 PROVE \E m \in (1 .. N) \ {k} : t[i] = w[m]
  <2>1. CASE i < k
    <3>1. i \in 1 .. k - 1 /\ i \in (1 .. N) \ {k}
      BY <1>1, <2>1
    <3> QED BY <1>5, <3>1 DEF t
  <2>2. CASE ~(i < k)
    <3>1. i \in k .. N - 1 /\ i + 1 \in (1 .. N) \ {k}
      BY <1>1, <2>2
    <3> QED BY <1>5, <3>1 DEF t
  <2> QED BY <2>1, <2>2
<1>9. ToSet(t) = {w[m] : m \in (1 .. N) \ {k}}
  <2>1. ToSet(t) = {t[i] : i \in 1 .. N - 1}
    BY <1>6 DEF ToSet
  <2> QED BY SMTT(60), <1>7, <1>8, <2>1
<1> QED BY <1>4, <1>9 DEF t, N

\* Counting the characters of a word tells its kind.
LEMMA CountsClassify ==
  ASSUME NEW text \in Seq(Class), NEW i \in 1 .. Len(text), NEW j \in i .. Len(text),
         NEW flags, Counted(text, i, j, flags), NEW kind \in Kinds
  PROVE  kind \in Classified(flags) <=> IsOfKind(SubSeq(text, i, j), kind)
<1> DEFINE w == SubSeq(text, i, j)
           n == j + 1 - i
<1>1. /\ i \in Nat /\ j \in Nat /\ i <= j /\ Len(text) \in Nat
      /\ \A m \in i .. j : text[m] \in Class
  BY LenProperties, ElementOfSeq
<1>2. /\ DOMAIN w = 1 .. n /\ n \in Nat /\ 1 <= n
      /\ \A m \in 1 .. n : w[m] = text[i + m - 1]
      /\ ToSet(w) = {text[m] : m \in i .. j}
  BY <1>1, WordOf
<1>3. w \in Seq(Class) /\ Len(w) = n
  BY <1>1, SubSeqProperties
<1> HIDE DEF w
<1>4. /\ flags.all = flags["all"] /\ flags.digit = flags["digit"]
      /\ flags.letter = flags["letter"] /\ flags.dot = flags["dot"]
      /\ flags["digit"] \in Nat /\ flags["dot"] \in Nat /\ flags["all"] \in Nat
  BY DEF Counted, FlagNames
<1>5. CASE kind = "integer"
  <2>1. ToSet(w) = {"digit"} <=> \A k \in i .. j : text[k] = "digit"
    <3>1. text[i] \in ToSet(w) /\ \A k \in i .. j : text[k] \in ToSet(w)
      BY <1>1, <1>2
    <3>2. \A x \in ToSet(w) : \E k \in i .. j : x = text[k]
      BY <1>2
    <3> QED BY <1>1, <3>1, <3>2
  <2> QED BY <1>4, <1>5, <2>1 DEF Counted, Classified, IsOfKind, w
<1>6. CASE kind = "command"
  <2>1. ToSet(w) = {"letter"} <=> \A k \in i .. j : text[k] = "letter"
    <3>1. text[i] \in ToSet(w) /\ \A k \in i .. j : text[k] \in ToSet(w)
      BY <1>1, <1>2
    <3>2. \A x \in ToSet(w) : \E k \in i .. j : x = text[k]
      BY <1>2
    <3> QED BY <1>1, <3>1, <3>2
  <2> QED BY <1>4, <1>6, <2>1 DEF Counted, Classified, IsOfKind, w
<1>7. CASE kind = "float"
  <2> DEFINE Pointed == \E k \in DOMAIN w : w[k] = "dot" /\ ToSet(RemoveAt(w, k)) \subseteq {"digit"}
             Real == \E k \in i .. j : text[k] = "dot" /\ \A m \in (i .. j) \ {k} : text[m] = "digit"
  <2>1. ASSUME Pointed PROVE Real
    <3>1. PICK k \in 1 .. n : w[k] = "dot" /\ \A m \in (1 .. n) \ {k} : w[m] = "digit"
      <4>1. PICK k \in DOMAIN w : w[k] = "dot" /\ ToSet(RemoveAt(w, k)) \subseteq {"digit"}
        BY <2>1
      <4>2. ToSet(RemoveAt(w, k)) = {w[m] : m \in (1 .. n) \ {k}}
        BY <1>2, <1>3, <4>1, RestOf
      <4> QED BY ZenonT(60), <1>2, <4>1, <4>2
    <3>2. i + k - 1 \in i .. j /\ text[i + k - 1] = "dot"
      BY <1>1, <1>2, <3>1
    <3>3. ASSUME NEW m \in (i .. j) \ {i + k - 1} PROVE text[m] = "digit"
      <4>1. m + 1 - i \in (1 .. n) \ {k} /\ i + (m + 1 - i) - 1 = m
        BY <1>1
      <4> QED BY <1>2, <3>1, <4>1
    <3> QED BY <3>2, <3>3
  <2>2. ASSUME Real PROVE Pointed
    <3>1. PICK k \in i .. j : text[k] = "dot" /\ \A m \in (i .. j) \ {k} : text[m] = "digit"
      BY <2>2
    <3> DEFINE p == k + 1 - i
    <3>2. p \in 1 .. n /\ i + p - 1 = k
      BY <1>1
    <3>3. w[p] = "dot"
      BY <1>2, <3>1, <3>2
    <3>4. ASSUME NEW m \in (1 .. n) \ {p} PROVE w[m] = "digit"
      <4>1. i + m - 1 \in (i .. j) \ {k}
        BY <1>1, <3>2
      <4> QED BY <1>2, <3>1, <4>1
    <3>5. ToSet(RemoveAt(w, p)) = {w[m] : m \in (1 .. n) \ {p}}
      BY <1>3, <3>2, RestOf
    <3> HIDE DEF p
    <3>6. ToSet(RemoveAt(w, p)) \subseteq {"digit"}
      BY <3>4, <3>5
    <3> QED BY <1>2, <3>2, <3>3, <3>6
  <2>3. Pointed <=> Real
    BY <2>1, <2>2
  <2>4. IsOfKind(w, kind) <=> Pointed
    BY <1>7 DEF IsOfKind
  <2>5. kind \in Classified(flags) <=> Real
    BY <1>4, <1>7 DEF Counted, Classified
  <2> QED BY <2>3, <2>4, <2>5 DEF w
<1> QED BY <1>5, <1>6, <1>7 DEF Kinds

-----------------------------------------------------------------------------
\* The token under way after n characters begins at s; none if s is n + 1.
UnderWay(text, s, n) ==
  /\ s \in 1 .. n + 1
  /\ \A k \in s .. n : text[k] \in Wordly /\ ~Commented(text, k)
  /\ s > 1 => text[s - 1] \in Blank \/ Commented(text, s - 1)

\* The tokens whose end shows in the first n characters.
WrittenBefore(text, n) ==
  {t \in (DOMAIN text) \X (DOMAIN text) \X Kinds :
     /\ t[1] <= t[2] /\ t[2] < n
     /\ IsToken(text, t[1], t[2]) /\ IsOfKind(SubSeq(text, t[1], t[2]), t[3])}

Reader == [token_state : {"idle", "comment"}, token : Seq(Nat), token_flags : [FlagNames -> Nat],
           place : Nat, seen : SUBSET (Nat \X Nat \X Kinds)]

\* What the loop has after n characters of a text that cuts no token.
HasRead(text, n, r) ==
  /\ r \in Reader
  /\ r.place = n + 1
  /\ r.token_state = "comment" <=> n >= 1 /\ Commented(text, n) /\ text[n] # "newline"
  /\ r.seen = WrittenBefore(text, n)
  /\ \E s : /\ UnderWay(text, s, n)
            /\ Len(r.token) = n + 1 - s
            /\ s <= n => r.token[1] = s /\ r.token[n + 1 - s] = n
            /\ Counted(text, s, n, r.token_flags)

\* A comment goes on until its line has ended.
LEMMA CommentGoesOn ==
  ASSUME NEW text, NEW n \in Nat
  PROVE  Commented(text, n + 1) <=>
           text[n + 1] = "mark" \/ (n >= 1 /\ Commented(text, n) /\ text[n] # "newline")
<1>1. ASSUME Commented(text, n + 1), text[n + 1] # "mark"
      PROVE  n >= 1 /\ Commented(text, n) /\ text[n] # "newline"
  <2>1. PICK j \in 1 .. n + 1 : text[j] = "mark" /\ \A k \in j .. ((n + 1) - 1) : text[k] # "newline"
    BY <1>1 DEF Commented
  <2>2. j \in 1 .. n /\ n >= 1 /\ n \in j .. ((n + 1) - 1) /\ \A k \in j .. (n - 1) : k \in j .. ((n + 1) - 1)
    BY <1>1, <2>1
  <2> QED BY <2>1, <2>2 DEF Commented
<1>2. ASSUME text[n + 1] = "mark" PROVE Commented(text, n + 1)
  <2>1. n + 1 \in 1 .. n + 1 /\ (n + 1) .. ((n + 1) - 1) = {}
    OBVIOUS
  <2> QED BY <1>2, <2>1 DEF Commented
<1>3. ASSUME n >= 1, Commented(text, n), text[n] # "newline" PROVE Commented(text, n + 1)
  <2>1. PICK j \in 1 .. n : text[j] = "mark" /\ \A k \in j .. (n - 1) : text[k] # "newline"
    BY <1>3 DEF Commented
  <2>2. j \in 1 .. n + 1 /\ \A k \in j .. ((n + 1) - 1) : k = n \/ k \in j .. (n - 1)
    BY <2>1
  <2> QED BY <1>3, <2>1, <2>2 DEF Commented
<1> QED BY <1>1, <1>2, <1>3

\* The token that ends with character n is the one under way there.
LEMMA EndsHere ==
  ASSUME NEW text \in Seq(Class), NEW n \in 0 .. Len(text) - 1, NEW s, UnderWay(text, s, n),
         NEW i \in 1 .. n
  PROVE  IsToken(text, i, n) <=> i = s /\ text[n + 1] \in Blank
<1>1. /\ s \in 1 .. n + 1 /\ n \in Nat /\ i \in Nat /\ 1 <= i /\ i <= n
      /\ Blank \cap Wordly = {}
  BY LenProperties DEF UnderWay, Blank, Wordly
<1>2. ASSUME IsToken(text, i, n) PROVE i = s /\ text[n + 1] \in Blank
  <2>1. /\ \A k \in i .. n : text[k] \in Wordly /\ ~Commented(text, k)
        /\ i > 1 => text[i - 1] \in Blank \/ Commented(text, i - 1)
        /\ text[n + 1] \in Blank
    BY <1>2 DEF IsToken
  <2>2. ~(i < s)
    <3> SUFFICES ASSUME i < s PROVE FALSE
      OBVIOUS
    <3>1. s - 1 \in i .. n /\ s > 1
      BY <1>1
    <3> QED BY <1>1, <2>1, <3>1 DEF UnderWay
  <2>3. ~(s < i)
    <3> SUFFICES ASSUME s < i PROVE FALSE
      OBVIOUS
    <3>1. i - 1 \in s .. n /\ i > 1
      BY <1>1
    <3> QED BY <1>1, <2>1, <3>1 DEF UnderWay
  <2> QED BY <1>1, <2>1, <2>2, <2>3
<1>3. ASSUME i = s, text[n + 1] \in Blank PROVE IsToken(text, i, n)
  BY <1>3 DEF IsToken, UnderWay
<1> QED BY <1>2, <1>3

\* A character that ends no token adds none.
LEMMA NoneEnds ==
  ASSUME NEW text \in Seq(Class), NEW n \in 0 .. Len(text) - 1, NEW s, UnderWay(text, s, n),
         s = n + 1 \/ text[n + 1] \notin Blank
  PROVE  WrittenBefore(text, n + 1) = WrittenBefore(text, n)
<1>1. n \in Nat /\ DOMAIN text = 1 .. Len(text) /\ Len(text) \in Nat
  BY LenProperties
<1>2. ASSUME NEW t \in WrittenBefore(text, n + 1) PROVE t[2] # n
  <2>1. t[1] \in 1 .. Len(text) /\ t[2] \in 1 .. Len(text) /\ t[1] <= t[2] /\ IsToken(text, t[1], t[2])
    BY <1>1, <1>2 DEF WrittenBefore
  <2>2. SUFFICES ASSUME t[2] = n PROVE FALSE
    OBVIOUS
  <2>3. t[1] \in 1 .. n
    BY <1>1, <2>1, <2>2
  <2>4. t[1] = s /\ text[n + 1] \in Blank
    BY <2>1, <2>2, <2>3, EndsHere
  <2> QED BY <1>1, <2>3, <2>4
<1>3. ASSUME NEW t \in (DOMAIN text) \X (DOMAIN text) \X Kinds
      PROVE  t[2] < n + 1 /\ t[2] # n <=> t[2] < n
  <2>1. t[2] \in Nat
    BY <1>1
  <2> QED BY <1>1, <2>1
<1>4. WrittenBefore(text, n + 1) \subseteq WrittenBefore(text, n)
  BY <1>2, <1>3 DEF WrittenBefore
<1>5. WrittenBefore(text, n) \subseteq WrittenBefore(text, n + 1)
  BY <1>3 DEF WrittenBefore
<1> QED BY <1>4, <1>5

\* A blank ends the token under way, which is of the kinds its counts tell.
LEMMA OneEnds ==
  ASSUME NEW text \in Seq(Class), NEW n \in 0 .. Len(text) - 1, NEW s, UnderWay(text, s, n),
         s <= n, text[n + 1] \in Blank, NEW flags, Counted(text, s, n, flags)
  PROVE  WrittenBefore(text, n + 1) =
           WrittenBefore(text, n) \cup {<<s, n, k>> : k \in Classified(flags)}
<1>1. /\ n \in Nat /\ s \in Nat /\ DOMAIN text = 1 .. Len(text) /\ Len(text) \in Nat
      /\ s \in 1 .. Len(text) /\ n \in s .. Len(text) /\ n \in 1 .. Len(text) /\ s \in 1 .. n
  BY LenProperties DEF UnderWay
<1>2. Classified(flags) \subseteq Kinds
  BY DEF Classified, Kinds
<1>3. \A k \in Kinds : k \in Classified(flags) <=> IsOfKind(SubSeq(text, s, n), k)
  BY <1>1, CountsClassify
<1>4. ASSUME NEW t \in (DOMAIN text) \X (DOMAIN text) \X Kinds
      PROVE  t[2] < n + 1 <=> t[2] < n \/ t[2] = n
  <2>1. t[2] \in Nat
    BY <1>1
  <2> QED BY <1>1, <2>1
<1>5. ASSUME NEW t \in WrittenBefore(text, n + 1)
      PROVE  t \in WrittenBefore(text, n) \cup {<<s, n, k>> : k \in Classified(flags)}
  <2>1. CASE t[2] < n
    BY <1>5, <2>1 DEF WrittenBefore
  <2>2. CASE t[2] = n
    <3>1. /\ t \in (DOMAIN text) \X (DOMAIN text) \X Kinds /\ t[1] <= t[2]
          /\ IsToken(text, t[1], n) /\ IsOfKind(SubSeq(text, t[1], n), t[3])
      BY <1>5, <2>2 DEF WrittenBefore
    <3>2. t[1] \in 1 .. n
      BY <1>1, <2>2, <3>1
    <3>3. t[1] = s
      BY <3>1, <3>2, EndsHere
    <3>4. t[3] \in Classified(flags) /\ t = <<s, n, t[3]>>
      BY <1>3, <2>2, <3>1, <3>3
    <3> QED BY <3>4
  <2> QED BY <1>4, <1>5, <2>1, <2>2 DEF WrittenBefore
<1>6. ASSUME NEW k \in Classified(flags) PROVE <<s, n, k>> \in WrittenBefore(text, n + 1)
  <2>1. IsToken(text, s, n) /\ IsOfKind(SubSeq(text, s, n), k) /\ k \in Kinds
    BY <1>1, <1>2, <1>3, EndsHere
  <2> QED BY <1>1, <2>1 DEF WrittenBefore
<1>7. WrittenBefore(text, n) \subseteq WrittenBefore(text, n + 1)
  BY <1>4 DEF WrittenBefore
<1> QED BY <1>5, <1>6, <1>7

\* Nothing has been read.
LEMMA NothingRead ==
  ASSUME NEW text \in Seq(Class)
  PROVE  HasRead(text, 0, Start)
<1>1. NoFlags \in [FlagNames -> Nat] /\ Counted(text, 1, 0, NoFlags)
  <2>1. Counted(text, 1, 1 - 1, NoFlags)
    BY NothingCounted
  <2> QED BY <2>1 DEF Counted
<1>2. DOMAIN text \subseteq Nat \ {0}
  BY LenProperties
<1>3. WrittenBefore(text, 0) = {}
  BY <1>2 DEF WrittenBefore
<1>4. UnderWay(text, 1, 0)
  BY DEF UnderWay
<1> HIDE DEF NoFlags
<1>5. <<>> \in Seq(Nat) /\ Len(<<>>) = 0
  BY EmptySeq
<1>6. Start \in Reader
  BY <1>1, <1>5 DEF Start, Reader
<1> QED BY <1>1, <1>3, <1>4, <1>5, <1>6 DEF HasRead, Start

\* One round of the loop.
LEMMA ReadsOne ==
  ASSUME NEW text \in Seq(Class), ~Cuts(text), NEW n \in 0 .. Len(text) - 1,
         NEW r, HasRead(text, n, r)
  PROVE  HasRead(text, n + 1, ReadCharacter(r, text[n + 1]))
<1> DEFINE c == text[n + 1]
<1>1. n \in Nat /\ Len(text) \in Nat /\ n + 1 \in 1 .. Len(text) /\ c \in Class
  BY LenProperties, ElementOfSeq
<1>0. PICK p : p = r.place + 1
  OBVIOUS
<1>2. /\ r \in Reader /\ p \in Nat /\ p = n + 2 /\ r.place = n + 1 /\ r.seen = WrittenBefore(text, n)
      /\ r.token_state = "comment" <=> n >= 1 /\ Commented(text, n) /\ text[n] # "newline"
  BY <1>0, <1>1 DEF HasRead
<1>3. PICK s : /\ UnderWay(text, s, n)
               /\ Len(r.token) = n + 1 - s
               /\ s <= n => r.token[1] = s /\ r.token[n + 1 - s] = n
               /\ Counted(text, s, n, r.token_flags)
  BY DEF HasRead
<1>4. /\ s \in 1 .. n + 1 /\ s \in Nat
      /\ s <= n => n \in s .. n /\ text[n] \in Wordly /\ ~Commented(text, n)
      /\ s = n + 1 => s - 1 = n
  BY <1>1, <1>3 DEF UnderWay
<1>5. Commented(text, n + 1) <=> c = "mark" \/ r.token_state = "comment"
  BY <1>1, <1>2, CommentGoesOn
<1>6. s <= n => c # "mark"
  <2> SUFFICES ASSUME s <= n, c = "mark" PROVE FALSE
    OBVIOUS
  <2>1. n \in 1 .. Len(text) - 1
    BY <1>1, <1>4
  <2> QED BY <1>4, <2>1 DEF Cuts
<1>7. NoFlags \in [FlagNames -> Nat] /\ <<>> \in Seq(Nat) /\ Len(<<>>) = 0
  BY EmptySeq DEF NoFlags, FlagNames
<1>8. Counted(text, n + 2, n + 1, NoFlags)
  <2>1. PICK m \in Nat : m = n + 2
    BY <1>1
  <2>2. Counted(text, m, m - 1, NoFlags)
    BY NothingCounted
  <2>3. m - 1 = n + 1
    BY <1>1, <2>1
  <2> QED BY <2>1, <2>2, <2>3
<1>9. Blank \cap Wordly = {} /\ "mark" \notin Blank \cup Wordly /\ "newline" \in Blank
  BY DEF Blank, Wordly
<1>10. /\ r.token_state \in {"idle", "comment"} /\ r.token \in Seq(Nat)
       /\ r.token_flags \in [FlagNames -> Nat] /\ r.seen \in SUBSET (Nat \X Nat \X Kinds)
  BY <1>2 DEF Reader
<1>11. c \in Blank \/ Commented(text, n + 1) => UnderWay(text, n + 2, n + 1)
  BY <1>1 DEF UnderWay
<1> HIDE DEF NoFlags
<1> DEFINE Rec(A, B, F, P, S) == [token_state : A, token : B, token_flags : F, place : P, seen : S]
<1>17. PICK A, B, F, P, S : /\ Reader = Rec(A, B, F, P, S)
                           /\ A = {"idle", "comment"} /\ B = Seq(Nat) /\ F = [FlagNames -> Nat]
                           /\ P = Nat /\ S = SUBSET (Nat \X Nat \X Kinds)
  BY DEF Reader
<1>18. /\ r \in Rec(A, B, F, P, S) /\ {"idle", "comment"} \subseteq A /\ <<>> \in B /\ p \in P
       /\ NoFlags \in F
  BY <1>2, <1>7, <1>17
\* In each case: what is under way begins at b, and q is what the round leaves.
<1>12. ASSUME NEW q \in Reader, q.place = p,
              q.token_state = "comment" <=> Commented(text, n + 1) /\ c # "newline",
              q.seen = WrittenBefore(text, n + 1),
              q.token = <<>>, Counted(text, n + 2, n + 1, q.token_flags),
              c \in Blank \/ Commented(text, n + 1)
       PROVE  HasRead(text, n + 1, q)
  <2>1. PICK b : b = n + 2
    OBVIOUS
  <2>2. n + 1 >= 1 /\ Len(q.token) = (n + 1) + 1 - b /\ ~(b <= n + 1) /\ q.place = (n + 1) + 1
    BY <1>1, <1>2, <1>7, <1>12, <2>1
  <2>3. UnderWay(text, b, n + 1) /\ Counted(text, b, n + 1, q.token_flags)
    BY <1>11, <1>12, <2>1
  <2> QED BY <1>12, <2>2, <2>3 DEF HasRead
<1>13. CASE r.token_state = "comment"
  <2>1. s = n + 1
    BY <1>1, <1>2, <1>4, <1>13
  <2>2. r.token = <<>>
    BY <1>1, <1>3, <1>10, <2>1, EmptySeq
  <2>3. Counted(text, n + 2, n + 1, r.token_flags)
    <3>1. s .. n = {} /\ (n + 2) .. (n + 1) = {} /\ n + 1 - s = (n + 1) + 1 - (n + 2)
      BY <1>1, <2>1
    <3> QED BY <1>3, <3>1 DEF Counted
  <2>4. PICK q : q = ReadCharacter(r, c)
    OBVIOUS
  <2>5. q = [Skip(r, c) EXCEPT !.place = p]
    BY <1>0, <1>13, <2>4 DEF ReadCharacter
  <2>6. /\ q \in Reader /\ q.place = p /\ q.token = <<>> /\ q.seen = r.seen
        /\ q.token_flags = r.token_flags /\ (q.token_state = "comment" <=> c # "newline")
    <3>1. CASE c = "newline"
      <4>1. q = [r EXCEPT !.token_state = "idle", !.token = <<>>, !.place = p]
        BY <2>5, <3>1 DEF Skip
      <4>3. /\ q \in Rec(A, B, F, P, S) /\ q.token_state = "idle" /\ q.token = <<>>
            /\ q.token_flags = r.token_flags /\ q.place = p /\ q.seen = r.seen
        BY <1>18, <4>1
      <4> QED BY <1>17, <3>1, <4>3
    <3>2. CASE c # "newline"
      <4>1. q = [r EXCEPT !.place = p]
        BY <2>5, <3>2 DEF Skip
      <4>3. /\ q \in Rec(A, B, F, P, S) /\ q.token_state = r.token_state /\ q.token = r.token
            /\ q.token_flags = r.token_flags /\ q.place = p /\ q.seen = r.seen
        BY <1>18, <4>1
      <4> QED BY <1>13, <1>17, <2>2, <3>2, <4>3
    <3> QED BY <3>1, <3>2
  <2>7. q.seen = WrittenBefore(text, n + 1)
    BY <1>2, <1>3, <2>1, <2>6, NoneEnds
  <2> QED BY <1>5, <1>12, <1>13, <2>3, <2>4, <2>6, <2>7
<1>14. CASE r.token_state = "idle" /\ c = "mark"
  <2>1. s = n + 1
    BY <1>1, <1>4, <1>6, <1>14
  <2>2. Counted(text, n + 2, n + 1, r.token_flags)
    <3>1. s .. n = {} /\ (n + 2) .. (n + 1) = {} /\ n + 1 - s = (n + 1) + 1 - (n + 2)
      BY <1>1, <2>1
    <3> QED BY <1>3, <3>1 DEF Counted
  <2>3. PICK q : q = ReadCharacter(r, c)
    OBVIOUS
  <2>4. q = [StartComment(r) EXCEPT !.place = p]
    BY <1>0, <1>9, <1>14, <2>3 DEF ReadCharacter
  <2>5. q = [r EXCEPT !.token_state = "comment", !.token = <<>>, !.place = p]
    BY <2>4 DEF StartComment
  <2>6. /\ q \in Reader /\ q.place = p /\ q.token = <<>> /\ q.seen = r.seen
        /\ q.token_flags = r.token_flags /\ q.token_state = "comment"
    <3>1. /\ q \in Rec(A, B, F, P, S) /\ q.token_state = "comment" /\ q.token = <<>>
          /\ q.token_flags = r.token_flags /\ q.place = p /\ q.seen = r.seen
      BY <1>18, <2>5
    <3> QED BY <1>17, <3>1
  <2>7. q.seen = WrittenBefore(text, n + 1)
    BY <1>2, <1>3, <2>1, <2>6, NoneEnds
  <2>8. Commented(text, n + 1) /\ c # "newline"
    BY <1>5, <1>14
  <2> QED BY <1>12, <2>2, <2>3, <2>6, <2>7, <2>8
<1>15. CASE r.token_state = "idle" /\ c \in Blank
  <2>1. ~Commented(text, n + 1)
    BY <1>5, <1>9, <1>15
  <2>2. PICK q : q = ReadCharacter(r, c)
    OBVIOUS
  <2>3. q = [Finish(r) EXCEPT !.place = p]
    BY <1>0, <1>9, <1>15, <2>2 DEF ReadCharacter
  <2>4. CASE s = n + 1
    <3>1. r.token = <<>>
      BY <1>1, <1>3, <1>10, <2>4, EmptySeq
    <3>2. Counted(text, n + 2, n + 1, r.token_flags)
      <4>1. s .. n = {} /\ (n + 2) .. (n + 1) = {} /\ n + 1 - s = (n + 1) + 1 - (n + 2)
        BY <1>1, <2>4
      <4> QED BY <1>3, <4>1 DEF Counted
    <3>3. q = [r EXCEPT !.place = p]
      BY <2>3, <3>1 DEF Finish
    <3>4. /\ q \in Reader /\ q.place = p /\ q.token = <<>> /\ q.seen = r.seen
          /\ q.token_flags = r.token_flags /\ q.token_state = "idle"
      <4>1. /\ q \in Rec(A, B, F, P, S) /\ q.token_state = r.token_state /\ q.token = r.token
            /\ q.token_flags = r.token_flags /\ q.place = p /\ q.seen = r.seen
        BY <1>18, <3>3
      <4> QED BY <1>15, <1>17, <3>1, <4>1
    <3>5. q.seen = WrittenBefore(text, n + 1)
      BY <1>2, <1>3, <2>4, <3>4, NoneEnds
    <3> QED BY <1>12, <1>15, <2>1, <2>2, <3>2, <3>4, <3>5
  <2>5. CASE s <= n
    <3>1. r.token # <<>> /\ Head(r.token) = s /\ Last(r.token) = n
      <4>1. Len(r.token) # 0 /\ Len(r.token) = n + 1 - s
        BY <1>1, <1>3, <1>4, <2>5
      <4>2. r.token # <<>>
        BY <1>7, <4>1
      <4>3. Head(r.token) = r.token[1]
        BY <1>10, <4>2, HeadTailProperties
      <4> QED BY <1>3, <2>5, <4>1, <4>2, <4>3 DEF Last
    <3> DEFINE ended == {<<s, n, k>> : k \in Classified(r.token_flags)}
    <3>2. q = [r EXCEPT !.seen = r.seen \cup ended, !.token = <<>>, !.token_flags = NoFlags,
                        !.place = p]
      BY <2>3, <3>1 DEF Finish
    <3>3. ended \subseteq Nat \X Nat \X Kinds
      BY <1>1, <1>4 DEF Classified, Kinds
    <3> HIDE DEF ended
    <3>4. /\ q \in Reader /\ q.place = p /\ q.token = <<>> /\ q.seen = r.seen \cup ended
          /\ q.token_flags = NoFlags /\ q.token_state = "idle"
      <4>1. r.seen \cup ended \in S
        BY <1>10, <1>17, <3>3
      <4>2. /\ q \in Rec(A, B, F, P, S) /\ q.token_state = r.token_state /\ q.token = <<>>
            /\ q.token_flags = NoFlags /\ q.place = p /\ q.seen = r.seen \cup ended
        BY <1>18, <3>2, <4>1
      <4> QED BY <1>15, <1>17, <4>2
    <3>5. q.seen = WrittenBefore(text, n + 1)
      BY <1>2, <1>3, <1>15, <2>5, <3>4, OneEnds DEF ended
    <3> QED BY <1>8, <1>12, <1>15, <2>1, <2>2, <3>4, <3>5
  <2> QED BY <1>1, <1>4, <2>4, <2>5
<1>16. CASE r.token_state = "idle" /\ c \in Wordly
  <2>1. ~Commented(text, n + 1) /\ c \notin Blank /\ c # "mark"
    BY <1>5, <1>9, <1>16
  <2>2. PICK q : q = ReadCharacter(r, c)
    OBVIOUS
  <2>3. q = [Extend(r, c) EXCEPT !.place = p]
    BY <1>0, <1>9, <1>16, <2>1, <2>2 DEF ReadCharacter
  <2>4. q = [r EXCEPT !.token = Append(r.token, r.place), !.token_flags = Count(r.token_flags, c),
                      !.place = p]
    BY <2>3 DEF Extend
  <2>5. Counted(text, s, n + 1, Count(r.token_flags, c))
    BY <1>1, <1>3, <1>4, <1>16, OneMoreCounted
  <2>6. /\ Append(r.token, n + 1) \in Seq(Nat) /\ Len(Append(r.token, n + 1)) = Len(r.token) + 1
        /\ \A k \in 1 .. Len(r.token) : Append(r.token, n + 1)[k] = r.token[k]
        /\ Append(r.token, n + 1)[Len(r.token) + 1] = n + 1
    BY <1>1, <1>10, AppendProperties
  <2>7. Count(r.token_flags, c) \in [FlagNames -> Nat]
    BY <2>5 DEF Counted
  <2>8. /\ q \in Reader /\ q.place = p /\ q.token = Append(r.token, n + 1) /\ q.seen = r.seen
        /\ q.token_flags = Count(r.token_flags, c) /\ q.token_state = "idle"
    <3>1. PICK word, counts : word = Append(r.token, n + 1) /\ counts = Count(r.token_flags, c)
      OBVIOUS
    <3>2. q = [r EXCEPT !.token = word, !.token_flags = counts, !.place = p]
      BY <1>2, <2>4, <3>1
    <3>3. word \in B /\ counts \in F
      BY <1>17, <2>6, <2>7, <3>1
    <3>4. /\ q \in Rec(A, B, F, P, S) /\ q.token_state = r.token_state /\ q.token = word
          /\ q.token_flags = counts /\ q.place = p /\ q.seen = r.seen
      BY <1>18, <3>2, <3>3
    <3> QED BY <1>16, <1>17, <3>1, <3>4
  <2>9. q.seen = WrittenBefore(text, n + 1)
    BY <1>2, <1>3, <2>1, <2>8, NoneEnds
  <2>10. UnderWay(text, s, n + 1)
    <3>1. s \in 1 .. (n + 1) + 1 /\ \A k \in s .. n + 1 : k \in s .. n \/ k = n + 1
      BY <1>1, <1>4
    <3> QED BY <1>3, <1>16, <2>1, <3>1 DEF UnderWay
  <2>11. /\ Len(q.token) = (n + 1) + 1 - s
         /\ q.token[(n + 1) + 1 - s] = n + 1
    <3>1. Len(r.token) + 1 = (n + 1) + 1 - s
      BY <1>1, <1>3, <1>4
    <3> QED BY <2>6, <2>8, <3>1
  <2>12. q.token[1] = s
    <3>1. CASE s = n + 1
      BY <1>1, <2>11, <3>1
    <3>2. CASE s <= n
      <4>1. 1 \in 1 .. Len(r.token)
        BY <1>1, <1>3, <1>4, <3>2
      <4> QED BY <1>3, <2>6, <2>8, <3>2, <4>1
    <3> QED BY <1>1, <1>4, <3>1, <3>2
  <2>13. q.place = (n + 1) + 1 /\ n + 1 >= 1 /\ ~(q.token_state = "comment")
    BY <1>1, <1>2, <2>8
  <2> QED BY <2>1, <2>2, <2>5, <2>8, <2>9, <2>10, <2>11, <2>12, <2>13 DEF HasRead
<1> QED BY <1>1, <1>10, <1>13, <1>14, <1>15, <1>16 DEF Class

(* _parser (parser.c 135-166, 308, 362): in any text without a comment right *)
(* after a character of a token, it acts on the tokens that are written      *)
(* there, outside comments, each classified by its own characters.           *)
THEOREM EveryTextAsWritten ==
  ASSUME NEW text \in Seq(Class)
  PROVE  AsWritten(text)
<1> SUFFICES ASSUME ~Cuts(text) PROVE Seen(text) = Written(text)
  BY DEF AsWritten
<1> DEFINE N == Len(text)
           S == {n \in 0 .. N : ~HasRead(text, n, Rounds(text)[n])}
<1>1. N \in Nat
  BY LenProperties
<1>2. HasRead(text, N, Rounds(text)[N])
  <2>1. SUFFICES ASSUME S # {} PROVE FALSE
    BY <1>1
  <2>2. PICK m \in S : \A i \in S : m <= i
    <3>1. S \in SUBSET Nat
      BY <1>1
    <3> HIDE DEF S
    <3> QED BY <2>1, <3>1, Least
  <2>3. m # 0
    BY RoundsUnrolled, NothingRead
  <2>4. m - 1 \in 0 .. N /\ ~(m <= m - 1) /\ (m - 1) + 1 = m /\ m \in 1 .. N /\ m - 1 \in 0 .. N - 1
    BY <1>1, <2>3
  <2>5. HasRead(text, m - 1, Rounds(text)[m - 1])
    BY <2>2, <2>4
  <2>6. HasRead(text, (m - 1) + 1, ReadCharacter(Rounds(text)[m - 1], text[(m - 1) + 1]))
    BY <2>4, <2>5, ReadsOne
  <2>7. Rounds(text)[m] = ReadCharacter(Rounds(text)[m - 1], text[m])
    BY <2>4, RoundsUnrolled
  <2> QED BY <2>2, <2>4, <2>6, <2>7
<1>3. Seen(text) = WrittenBefore(text, N)
  BY <1>2 DEF HasRead, Seen
<1>4. WrittenBefore(text, N) = Written(text)
  BY DEF WrittenBefore, Written, Kinds
<1> QED BY <1>3, <1>4

(* TokensAsWritten: what is checked of the short texts holds of all of them. *)
THEOREM ActsOnWhatIsWritten == Spec => []TokensAsWritten
<1>1. ASSUME NEW text \in UNION {[1 .. n -> Class] : n \in 0 .. MaxText} PROVE text \in Seq(Class)
  <2>1. PICK n \in 0 .. MaxText : text \in [1 .. n -> Class]
    OBVIOUS
  <2>2. n \in Nat
    OBVIOUS
  <2> QED BY <2>1, <2>2, SeqDef
<1>2. TokensAsWritten
  BY <1>1, EveryTextAsWritten DEF TokensAsWritten
<1> QED BY <1>2, PTL
=============================================================================

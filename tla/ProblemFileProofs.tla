-------------------------- MODULE ProblemFileProofs --------------------------
(***************************************************************************)
(* Proofs about ProblemFile, for problems of any size and files cut at any *)
(* place: what _problem_unpack makes of what _problem_pack has left.       *)
(***************************************************************************)
EXTENDS ProblemFile, SequenceTheorems, TLAPS

-----------------------------------------------------------------------------
(* The items before those of part, as _problem_pack writes them. *)
Before ==
  [cv |-> 2, test |-> 2 + Length["cv"], data |-> 2 + Length["cv"] + Length["test"],
   state |-> 2 + Length["cv"] + Length["test"] + Length["data"],
   done |-> 2 + Length["cv"] + Length["test"] + Length["data"] + Length["state"]]

(* Only problems that are not empty get a file, which stays as it is once it  *)
(* is read.                                                                  *)
Writing ==
  /\ problem \in [rows: Nat, size_x: Nat, size_y: Nat,
                  cv_size: Nat, test_size: Nat, state_size: Nat]
  /\ writer \in {"start", "refused"} => written = 0
  /\ writer \notin {"start", "refused"} => ~Empty
  /\ reader # "start" => writer \in {"closed", "crashed"}

(* The reader is where its loop counter says and has stored each item before  *)
(* that place; or the file has ended among the test indices, after at least   *)
(* cv_size of them, and it goes on to the data with an end of file.           *)
Stored == got = {<<Items[k], Items[k]>> : k \in 3 .. position}
Reading ==
  /\ reader \in {"start", "allocate"} => got = {}
  /\ reader = "allocate" => c <= 4 /\ position = 2
  /\ reader \in Parts \cup {"done"} =>
       \/ Stored /\ position = Before[reader] + IF reader = "done" THEN 0 ELSE c
       \/ reader = "data" /\ c = 0 /\ position = written /\ position < Before["data"]

(* Which pointers of the problem_t have been set. *)
Unset(p) == pointer[p] \in {"wild", "null"}
Pointing ==
  /\ reader = "start" => \A p \in Parts : Unset(p)
  /\ reader = "allocate" =>
       \A k \in 1 .. 4 :
         LET p == AllocationOrder[k]
         IN IF k <= c /\ Wanted(p) THEN pointer[p] = "array" ELSE Unset(p)
  /\ reader \in Parts \cup {"done"} =>
       \A p \in Parts : IF Wanted(p) THEN pointer[p] = "array" ELSE Unset(p)

Inv == /\ TypeOK /\ Writing /\ Reading /\ Pointing
       /\ CompleteOrRefused /\ ReadsBackEnoughTests /\ RefusalFreesAll

-----------------------------------------------------------------------------
(* The lengths of the arrays, and that a problem that is written has data.    *)
LEMMA Lengths ==
  ASSUME Writing
  PROVE  /\ Length \in [Parts -> Nat]
         /\ Length["cv"] = problem.cv_size /\ Length["test"] = problem.test_size
         /\ ~Empty => Length["data"] > 0
<1>1. /\ problem.rows \in Nat /\ problem.size_x \in Nat /\ problem.size_y \in Nat
      /\ problem.cv_size \in Nat /\ problem.test_size \in Nat /\ problem.state_size \in Nat
  BY DEF Writing
<1>2. /\ Length["cv"] = problem.cv_size /\ Length["test"] = problem.test_size
      /\ Length["data"] = problem.rows * (problem.size_x + problem.size_y)
      /\ Length["state"] = problem.state_size
  BY DEF Length
<1>3. \A a, b, n \in Nat : a * (b + n) \in Nat /\ (a # 0 /\ b # 0 => a * (b + n) > 0)
  OBVIOUS
<1>4. Length["data"] \in Nat /\ (~Empty => Length["data"] > 0)
  BY <1>1, <1>2, <1>3 DEF Empty
<1>5. Length = [p \in Parts |-> Length[p]]
  BY DEF Length, Parts
<1>6. \A p \in Parts : Length[p] \in Nat
  BY <1>1, <1>2, <1>4 DEF Parts
<1>7. Length \in [Parts -> Nat]
  BY <1>5, <1>6, Zenon
<1> QED BY <1>2, <1>4, <1>7

(* Where the items of each array begin. *)
LEMMA Beginnings ==
  ASSUME Writing
  PROVE  /\ Before["cv"] = 2
         /\ Before["test"] = Before["cv"] + Length["cv"]
         /\ Before["data"] = Before["test"] + Length["test"]
         /\ Before["state"] = Before["data"] + Length["data"]
         /\ Before["done"] = Before["state"] + Length["state"]
         /\ \A p \in Parts \cup {"done"} : Before[p] \in Nat /\ Before[p] >= 2
<1>1. /\ Length["cv"] \in Nat /\ Length["test"] \in Nat
      /\ Length["data"] \in Nat /\ Length["state"] \in Nat
  BY Lengths DEF Parts
<1> QED BY <1>1 DEF Before, Parts

(* Two sequences one after the other. *)
LEMMA Joined ==
  ASSUME NEW S, NEW s \in Seq(S), NEW t \in Seq(S)
  PROVE  /\ s \o t \in Seq(S) /\ Len(s \o t) = Len(s) + Len(t)
         /\ \A i \in 1 .. Len(s) : (s \o t)[i] = s[i]
         /\ \A k \in 1 .. Len(t) : (s \o t)[Len(s) + k] = t[k]
<1>1. Len(s) \in Nat /\ Len(t) \in Nat
  OBVIOUS
<1>2. /\ s \o t \in Seq(S) /\ Len(s \o t) = Len(s) + Len(t)
      /\ \A i \in 1 .. Len(s) + Len(t) :
           (s \o t)[i] = IF i <= Len(s) THEN s[i] ELSE t[i - Len(s)]
  BY ConcatProperties
<1>3. \A k \in 1 .. Len(t) : Len(s) + k \in 1 .. Len(s) + Len(t) /\ (Len(s) + k) - Len(s) = k
  BY <1>1
<1> QED BY <1>1, <1>2, <1>3

(* The file is the items of the arrays one after the other.                  *)
LEMMA Layout ==
  ASSUME Writing
  PROVE  /\ Len(Items) = Before["done"]
         /\ \A p \in Parts : \A k \in 0 .. (Length[p] - 1) : Items[Before[p] + k + 1] = <<p, k>>
<1> DEFINE F == <<<<"metadata">>, <<"header">>>>
<1>0. PICK Any : Any = {<<"metadata">>, <<"header">>} \cup (Parts \X Nat)
  OBVIOUS
<1>1. /\ Length["cv"] \in Nat /\ Length["test"] \in Nat
      /\ Length["data"] \in Nat /\ Length["state"] \in Nat
  BY Lengths DEF Parts
<1>2. \A p \in Parts : /\ Elements(p) \in Seq(Any) /\ Len(Elements(p)) = Length[p]
                       /\ \A k \in 1 .. Length[p] : Elements(p)[k] = <<p, k - 1>>
  <2> SUFFICES ASSUME NEW p \in Parts
               PROVE  /\ Elements(p) \in Seq(Any) /\ Len(Elements(p)) = Length[p]
                      /\ \A k \in 1 .. Length[p] : Elements(p)[k] = <<p, k - 1>>
    OBVIOUS
  <2>1. Length[p] \in Nat
    BY Lengths
  <2>2. \A k \in 1 .. Length[p] : <<p, k - 1>> \in Any
    BY <1>0, <2>1
  <2>3. [k \in 1 .. Length[p] |-> <<p, k - 1>>] \in Seq(Any)
    BY <2>1, <2>2, IsASeq
  <2> QED BY <2>1, <2>3 DEF Elements
<1>3. F \in Seq(Any) /\ Len(F) = 2
  BY <1>0
<1>4. /\ Elements("cv") \in Seq(Any) /\ Elements("test") \in Seq(Any)
      /\ Elements("data") \in Seq(Any) /\ Elements("state") \in Seq(Any)
      /\ Len(Elements("cv")) = Length["cv"] /\ Len(Elements("test")) = Length["test"]
      /\ Len(Elements("data")) = Length["data"] /\ Len(Elements("state")) = Length["state"]
  BY <1>2 DEF Parts
<1>5. /\ Len(Items) = 2 + Length["cv"] + Length["test"] + Length["data"] + Length["state"]
      /\ \A k \in 1 .. Length["cv"] : Items[2 + k] = Elements("cv")[k]
      /\ \A k \in 1 .. Length["test"] : Items[2 + Length["cv"] + k] = Elements("test")[k]
      /\ \A k \in 1 .. Length["data"] :
           Items[2 + Length["cv"] + Length["test"] + k] = Elements("data")[k]
      /\ \A k \in 1 .. Length["state"] :
           Items[2 + Length["cv"] + Length["test"] + Length["data"] + k] = Elements("state")[k]
  <2>1. PICK a \in Seq(Any), b \in Seq(Any), d \in Seq(Any), e \in Seq(Any) :
          /\ a = Elements("cv") /\ b = Elements("test")
          /\ d = Elements("data") /\ e = Elements("state")
    BY <1>4
  <2>2. Items = F \o a \o b \o d \o e
    BY <2>1 DEF Items
  <2> HIDE DEF F
  <2>3. a \in Seq(Any) /\ b \in Seq(Any) /\ d \in Seq(Any) /\ e \in Seq(Any)
    BY <1>4, <2>1
  <2>4. PICK f \in Seq(Any) : f = F /\ Len(f) = 2
    BY <1>3
  <2>5. Len(f) \in Nat /\ Len(a) \in Nat /\ Len(b) \in Nat /\ Len(d) \in Nat /\ Len(e) \in Nat
    BY <2>3, <2>4
  <2>6. PICK s1 : s1 = f \o a
    OBVIOUS
  <2>7. PICK s2 : s2 = s1 \o b
    OBVIOUS
  <2>8. PICK s3 : s3 = s2 \o d
    OBVIOUS
  <2>9. PICK s4 : s4 = s3 \o e
    OBVIOUS
  <2>10. /\ s1 \in Seq(Any) /\ Len(s1) = Len(f) + Len(a)
         /\ \A k \in 1 .. Len(a) : s1[Len(f) + k] = a[k]
    <3>1. /\ f \o a \in Seq(Any) /\ Len(f \o a) = Len(f) + Len(a)
          /\ \A k \in 1 .. Len(a) : (f \o a)[Len(f) + k] = a[k]
      BY Joined
    <3> QED BY <2>6, <3>1, Zenon
  <2>11. /\ s2 \in Seq(Any) /\ Len(s2) = Len(s1) + Len(b)
         /\ \A k \in 1 .. Len(s1) : s2[k] = s1[k]
         /\ \A k \in 1 .. Len(b) : s2[Len(s1) + k] = b[k]
    <3>1. s1 \in Seq(Any)
      BY <2>10
    <3>2. /\ s1 \o b \in Seq(Any) /\ Len(s1 \o b) = Len(s1) + Len(b)
          /\ \A k \in 1 .. Len(s1) : (s1 \o b)[k] = s1[k]
          /\ \A k \in 1 .. Len(b) : (s1 \o b)[Len(s1) + k] = b[k]
      BY <3>1, Joined
    <3> QED BY <2>7, <3>2, Zenon
  <2>12. /\ s3 \in Seq(Any) /\ Len(s3) = Len(s2) + Len(d)
         /\ \A k \in 1 .. Len(s2) : s3[k] = s2[k]
         /\ \A k \in 1 .. Len(d) : s3[Len(s2) + k] = d[k]
    <3>1. s2 \in Seq(Any)
      BY <2>11
    <3>2. /\ s2 \o d \in Seq(Any) /\ Len(s2 \o d) = Len(s2) + Len(d)
          /\ \A k \in 1 .. Len(s2) : (s2 \o d)[k] = s2[k]
          /\ \A k \in 1 .. Len(d) : (s2 \o d)[Len(s2) + k] = d[k]
      BY <3>1, Joined
    <3> QED BY <2>8, <3>2, Zenon
  <2>13. /\ s4 \in Seq(Any) /\ Len(s4) = Len(s3) + Len(e)
         /\ \A k \in 1 .. Len(s3) : s4[k] = s3[k]
         /\ \A k \in 1 .. Len(e) : s4[Len(s3) + k] = e[k]
    <3>1. s3 \in Seq(Any)
      BY <2>12
    <3>2. /\ s3 \o e \in Seq(Any) /\ Len(s3 \o e) = Len(s3) + Len(e)
          /\ \A k \in 1 .. Len(s3) : (s3 \o e)[k] = s3[k]
          /\ \A k \in 1 .. Len(e) : (s3 \o e)[Len(s3) + k] = e[k]
      BY <3>1, Joined
    <3> QED BY <2>9, <3>2, Zenon
  <2>14. /\ Len(s4) = Len(f) + Len(a) + Len(b) + Len(d) + Len(e)
         /\ \A k \in 1 .. Len(a) : s4[Len(f) + k] = a[k]
         /\ \A k \in 1 .. Len(b) : s4[Len(f) + Len(a) + k] = b[k]
         /\ \A k \in 1 .. Len(d) : s4[Len(f) + Len(a) + Len(b) + k] = d[k]
         /\ \A k \in 1 .. Len(e) : s4[Len(f) + Len(a) + Len(b) + Len(d) + k] = e[k]
    <3>1. /\ Len(s1) = Len(f) + Len(a) /\ Len(s2) = Len(f) + Len(a) + Len(b)
          /\ Len(s3) = Len(f) + Len(a) + Len(b) + Len(d)
          /\ Len(s4) = Len(f) + Len(a) + Len(b) + Len(d) + Len(e)
      BY <2>10, <2>11, <2>12, <2>13
    <3>2. ASSUME NEW k \in 1 .. Len(a) PROVE s4[Len(f) + k] = a[k]
      <4>1. Len(f) + k \in 1 .. Len(s1) /\ Len(f) + k \in 1 .. Len(s2) /\ Len(f) + k \in 1 .. Len(s3)
        BY <2>5, <3>1
      <4>2. s1[Len(f) + k] = a[k]
        BY <2>10
      <4>3. s2[Len(f) + k] = s1[Len(f) + k]
        BY <2>11, <4>1, Zenon
      <4>4. s3[Len(f) + k] = s2[Len(f) + k]
        BY <2>12, <4>1, Zenon
      <4>5. s4[Len(f) + k] = s3[Len(f) + k]
        BY <2>13, <4>1, Zenon
      <4> QED BY <4>2, <4>3, <4>4, <4>5
    <3>3. ASSUME NEW k \in 1 .. Len(b) PROVE s4[Len(s1) + k] = b[k]
      <4>1. Len(s1) + k \in 1 .. Len(s2) /\ Len(s1) + k \in 1 .. Len(s3)
        BY <2>5, <3>1
      <4> QED BY <2>11, <2>12, <2>13, <4>1, Zenon
    <3>4. ASSUME NEW k \in 1 .. Len(d) PROVE s4[Len(s2) + k] = d[k]
      <4>1. Len(s2) + k \in 1 .. Len(s3)
        BY <2>5, <3>1
      <4> QED BY <2>12, <2>13, <4>1, Zenon
    <3>5. \A k \in 1 .. Len(e) : s4[Len(s3) + k] = e[k]
      BY <2>13
    <3> QED BY <3>1, <3>2, <3>3, <3>4, <3>5, Zenon
  <2>15. s4 = f \o a \o b \o d \o e
    BY <2>6, <2>7, <2>8, <2>9
  <2>16. s4 = Items
    BY <2>2, <2>4, <2>15
  <2>17. /\ Len(f) = 2 /\ Len(a) = Length["cv"] /\ Len(b) = Length["test"]
         /\ Len(d) = Length["data"] /\ Len(e) = Length["state"]
    BY <1>4, <2>1, <2>4
  <2>18. Len(Items) = 2 + Length["cv"] + Length["test"] + Length["data"] + Length["state"]
    BY <2>14, <2>16, <2>17, ZenonT(60)
  <2>19. \A k \in 1 .. Length["cv"] : Items[2 + k] = Elements("cv")[k]
    BY <2>1, <2>14, <2>16, <2>17, ZenonT(60)
  <2>20. \A k \in 1 .. Length["test"] : Items[2 + Length["cv"] + k] = Elements("test")[k]
    BY <2>1, <2>14, <2>16, <2>17, ZenonT(60)
  <2>21. \A k \in 1 .. Length["data"] :
           Items[2 + Length["cv"] + Length["test"] + k] = Elements("data")[k]
    BY <2>1, <2>14, <2>16, <2>17, ZenonT(60)
  <2>22. \A k \in 1 .. Length["state"] :
           Items[2 + Length["cv"] + Length["test"] + Length["data"] + k] = Elements("state")[k]
    BY <2>1, <2>14, <2>16, <2>17, ZenonT(60)
  <2> QED BY <2>18, <2>19, <2>20, <2>21, <2>22
<1>8. Len(Items) = Before["done"]
  BY <1>5 DEF Before
<1>16. /\ \A k \in 1 .. Length["cv"] : Items[Before["cv"] + k] = <<"cv", k - 1>>
       /\ \A k \in 1 .. Length["test"] : Items[Before["test"] + k] = <<"test", k - 1>>
       /\ \A k \in 1 .. Length["data"] : Items[Before["data"] + k] = <<"data", k - 1>>
       /\ \A k \in 1 .. Length["state"] : Items[Before["state"] + k] = <<"state", k - 1>>
  <2>1. /\ \A k \in 1 .. Length["cv"] : Elements("cv")[k] = <<"cv", k - 1>>
        /\ \A k \in 1 .. Length["test"] : Elements("test")[k] = <<"test", k - 1>>
        /\ \A k \in 1 .. Length["data"] : Elements("data")[k] = <<"data", k - 1>>
        /\ \A k \in 1 .. Length["state"] : Elements("state")[k] = <<"state", k - 1>>
    BY <1>2 DEF Parts
  <2> QED BY <1>5, <2>1 DEF Before
<1>17. ASSUME NEW p \in Parts, NEW k \in 0 .. (Length[p] - 1)
       PROVE  Items[Before[p] + k + 1] = <<p, k>>
  <2>1. k + 1 \in 1 .. Length[p] /\ (k + 1) - 1 = k
    BY Lengths
  <2>2. Items[Before[p] + (k + 1)] = <<p, (k + 1) - 1>>
    BY <1>16, <2>1 DEF Parts
  <2>3. Before[p] + (k + 1) = Before[p] + k + 1
    BY Beginnings
  <2> QED BY <2>1, <2>2, <2>3
<1> QED BY <1>8, <1>17
-----------------------------------------------------------------------------
(* A problem_t nobody has initialised, and no file yet. *)
LEMMA InitInv == Init => Inv
<1> SUFFICES ASSUME Init PROVE Inv
  OBVIOUS
<1>1. Writing
  <2>1. 0 .. MaxRows \subseteq Nat /\ 0 .. MaxSize \subseteq Nat
    BY BoundsAssumption
  <2> QED BY <2>1 DEF Init, Writing
<1>2. Len(Items) \in Nat
  BY <1>1, Layout, Beginnings
<1>3. TypeOK
  <2>1. pointer \in [Parts -> {"wild", "null", "array", "freed", "strayed"}]
    BY DEF Init
  <2>2. /\ writer = "start" /\ written = 0 /\ full = FALSE
        /\ reader = "start" /\ c = 0 /\ position = 0 /\ scarce = FALSE
    BY DEF Init
  <2>3. reader \notin Parts
    BY <2>2 DEF Parts
  <2>4. written \in 0 .. Len(Items) /\ position \in 0 .. written /\ c \in Nat
    BY <1>2, <2>2
  <2> QED BY <2>1, <2>2, <2>3, <2>4 DEF TypeOK
<1>4. Reading /\ Pointing
  BY DEF Init, Reading, Pointing, Unset, Parts
<1>5. CompleteOrRefused /\ ReadsBackEnoughTests /\ RefusalFreesAll
  BY DEF Init, CompleteOrRefused, ReadsBackEnoughTests, RefusalFreesAll
<1> QED BY <1>1, <1>3, <1>4, <1>5 DEF Inv

(* Writing the file: nobody reads it before the writer has ended. *)
LEMMA WriterStep ==
  ASSUME Inv, Refuse \/ Open \/ WriteItem \/ DiskFull \/ CloseWritten \/ Crash
  PROVE  Inv'
<1>1. /\ problem' = problem /\ UNCHANGED unpack
      /\ writer \notin {"closed", "crashed", "refused"}
  BY DEF Refuse, Open, WriteItem, DiskFull, CloseWritten, Crash
<1>2. /\ Length' = Length /\ Items' = Items /\ Empty' = Empty
  BY <1>1 DEF Length, Items, Elements, Empty
<1>3. reader = "start"
  BY <1>1 DEF Inv, Writing
<1>4. Len(Items) \in Nat /\ written \in 0 .. Len(Items)
  BY Layout, Beginnings DEF Inv, TypeOK
<1>5. /\ writer' \in {"refused", "writing", "closed", "crashed"}
      /\ full' \in BOOLEAN
      /\ written' \in 0 .. Len(Items) /\ written <= written'
      /\ writer' = "refused" => written' = 0
      /\ writer' # "refused" => ~Empty
  <2>1. full \in BOOLEAN /\ (writer = "start" => written = 0) /\ (writer = "writing" => ~Empty)
    BY DEF Inv, TypeOK, Writing
  <2>2. CASE Refuse \/ Open
    BY <1>4, <2>1, <2>2 DEF Refuse, Open
  <2>4. CASE DiskFull
    BY <1>4, <2>1, <2>4 DEF DiskFull
  <2>5. CASE CloseWritten
    BY <1>4, <2>1, <2>5 DEF CloseWritten
  <2>6. CASE Crash
    BY <1>4, <2>1, <2>6 DEF Crash
  <2>3. CASE WriteItem
    BY <1>4, <2>1, <2>3 DEF WriteItem
  <2> QED BY <2>2, <2>3, <2>4, <2>5, <2>6
<1>6. TypeOK'
  BY <1>1, <1>2, <1>3, <1>4, <1>5 DEF Inv, TypeOK, unpack, Parts
<1>7. Writing'
  BY <1>1, <1>2, <1>3, <1>5 DEF Inv, Writing, unpack
<1>8. Reading' /\ Pointing'
  BY <1>1, <1>3 DEF Inv, Reading, Pointing, Unset, unpack, Parts
<1>9. CompleteOrRefused' /\ ReadsBackEnoughTests' /\ RefusalFreesAll'
  BY <1>1, <1>3 DEF CompleteOrRefused, ReadsBackEnoughTests, RefusalFreesAll, unpack
<1> QED BY <1>6, <1>7, <1>8, <1>9 DEF Inv

-----------------------------------------------------------------------------
(* Reading leaves the file and what it should hold as they are. *)
LEMMA FileKept ==
  ASSUME Inv, UNCHANGED pack
  PROVE  /\ problem' = problem /\ writer' = writer /\ written' = written /\ full' = full
         /\ Length' = Length /\ Items' = Items /\ Empty' = Empty /\ Before' = Before
         /\ \A p \in Parts : Wanted(p)' = Wanted(p)
         /\ Complete' = Complete
         /\ written \in Nat /\ Len(Items) \in Nat /\ written <= Len(Items)
         /\ writer \in {"closed", "crashed"} => Writing'
<1>1. /\ problem' = problem /\ writer' = writer /\ written' = written /\ full' = full
  BY DEF pack
<1>2. Length' = Length
  BY <1>1 DEF Length
<1>3. /\ Items' = Items /\ Empty' = Empty /\ Before' = Before
      /\ \A p \in Parts : Wanted(p)' = Wanted(p)
  BY <1>1, <1>2 DEF Items, Elements, Empty, Before, Wanted
<1>4. written \in Nat /\ Len(Items) \in Nat /\ written <= Len(Items)
  BY Layout, Beginnings DEF Inv, TypeOK
<1>5. writer \in {"closed", "crashed"} => Writing'
  BY <1>1, <1>3 DEF Inv, Writing
<1> QED BY <1>1, <1>2, <1>3, <1>4, <1>5 DEF Complete

(* A refusal after which nothing else has to be known. *)
LEMMA Refusing ==
  ASSUME Inv, NEW parts \in SUBSET Parts, FreeAll(parts), UNCHANGED pack,
         UNCHANGED <<position, got>>, scarce' \in BOOLEAN, reader # "start",
         \A p \in Parts \ parts : Unset(p),
         \A p \in parts : pointer[p] = "array" \/ Unset(p),
         \A p \in parts : pointer[p] = "wild" => Length[p] = 0,
         Complete => scarce' \/ problem.test_size < problem.cv_size
  PROVE  Inv'
<1> USE FileKept
<1>1. /\ pointer' = [p \in Parts |-> IF p \in parts THEN FreedOf[pointer[p]] ELSE pointer[p]]
      /\ c' = 0
      /\ \/ reader' = "undefined" /\ \E p \in parts : pointer[p] = "wild"
         \/ reader' = "refused"
  BY DEF FreeAll, Enter
<1>2. \A p \in Parts :
        /\ pointer'[p] \in {"wild", "null", "freed", "strayed"}
        /\ pointer'[p] = "strayed" => Length[p] = 0
  <2> SUFFICES ASSUME NEW p \in Parts
               PROVE  /\ pointer'[p] \in {"wild", "null", "freed", "strayed"}
                      /\ pointer'[p] = "strayed" => Length[p] = 0
    OBVIOUS
  <2>1. CASE p \in parts
    <3>1. pointer'[p] = FreedOf[pointer[p]] /\ pointer[p] \in {"wild", "null", "array"}
      BY <1>1, <2>1 DEF Unset
    <3> QED BY <2>1, <3>1 DEF FreedOf
  <2>2. CASE p \notin parts
    BY <1>1, <2>2 DEF Unset
  <2> QED BY <2>1, <2>2
<1>3. Writing'
  BY DEF Inv, Writing
<1>4. TypeOK'
  <2>1. pointer' \in [Parts -> {"wild", "null", "array", "freed", "strayed"}]
    BY <1>2, <1>1
  <2> QED BY <1>1, <2>1 DEF Inv, TypeOK, Parts
<1>5. Reading' /\ Pointing'
  BY <1>1 DEF Reading, Pointing, Parts
<1>6. CompleteOrRefused' /\ ReadsBackEnoughTests'
  BY <1>1 DEF CompleteOrRefused, ReadsBackEnoughTests
<1>7. Length' = Length
  BY DEF Length, pack
<1>8. RefusalFreesAll'
  BY <1>2, <1>7 DEF RefusalFreesAll
<1> QED BY <1>3, <1>4, <1>5, <1>6, <1>8 DEF Inv

(* Metadata and header: a file without them is refused with nothing to free. *)
LEMMA ReadFrontStep == Inv /\ ReadFront => Inv'
<1> SUFFICES ASSUME Inv, ReadFront PROVE Inv'
  OBVIOUS
<1>0. /\ reader = "start" /\ writer \in {"closed", "crashed"} /\ UNCHANGED <<got, scarce>>
      /\ UNCHANGED pack
  BY DEF ReadFront
<1> USE <1>0, FileKept
<1>1. got = {} /\ \A p \in Parts : Unset(p)
  BY DEF Inv, Reading, Pointing
<1>2. /\ pointer' = pointer /\ c' = 0
      /\ \/ reader' = "allocate" /\ position' = 2 /\ written >= 2
         \/ reader' = "refused" /\ position' = position /\ written < 2
  <2>1. pointer \in [Parts -> {"wild", "null", "array", "freed", "strayed"}] /\ written \in Nat
    BY DEF Inv, TypeOK
  <2>2. CASE written >= 2
    BY <2>1, <2>2 DEF ReadFront, Enter
  <2>3. CASE ~(written >= 2)
    <3>1. FreeAll({}) /\ position' = position
      BY <2>3 DEF ReadFront
    <3>2. pointer' = [p \in Parts |-> pointer[p]]
      BY <3>1 DEF FreeAll
    <3>3. pointer' = pointer
      BY <2>1, <3>2
    <3>4. reader' = "refused" /\ c' = 0
      BY <3>1 DEF FreeAll, Enter
    <3> QED BY <2>1, <2>3, <3>1, <3>3, <3>4
  <2> QED BY <2>2, <2>3
<1>3. written < 2 => ~Complete
  BY Layout, Beginnings DEF Inv, Complete
<1>4. Writing'
  BY DEF Inv, Writing
<1>5. TypeOK'
  BY <1>2 DEF Inv, TypeOK, Parts
<1>6. AllocationOrder \in [1 .. 4 -> Parts]
  BY DEF AllocationOrder, Parts
<1>7. Reading' /\ Pointing'
  BY <1>1, <1>2, <1>6 DEF Reading, Pointing, Unset, Parts
<1>8. CompleteOrRefused' /\ ReadsBackEnoughTests' /\ RefusalFreesAll'
  BY <1>1, <1>2, <1>3 DEF CompleteOrRefused, ReadsBackEnoughTests, RefusalFreesAll, Unset
<1> QED BY <1>4, <1>5, <1>7, <1>8 DEF Inv
(* _problem_unpack asks for each of the four arrays once. *)
LEMMA EachOnce ==
  /\ AllocationOrder \in [1 .. 4 -> Parts]
  /\ \A i, k \in 1 .. 4 : AllocationOrder[i] = AllocationOrder[k] => i = k
  /\ \A p \in Parts : \E k \in 1 .. 4 : AllocationOrder[k] = p
<1>1. /\ AllocationOrder[1] = "data" /\ AllocationOrder[2] = "cv"
      /\ AllocationOrder[3] = "test" /\ AllocationOrder[4] = "state"
  BY DEF AllocationOrder
<1>2. AllocationOrder \in [1 .. 4 -> Parts]
  BY DEF AllocationOrder, Parts
<1>3. \A i, k \in 1 .. 4 : AllocationOrder[i] = AllocationOrder[k] => i = k
  BY <1>1
<1>4. \A p \in Parts : \E k \in 1 .. 4 : AllocationOrder[k] = p
  BY <1>1 DEF Parts
<1> QED BY <1>2, <1>3, <1>4

(* One malloc: when it fails the arrays before it are freed, and no other has *)
(* been allocated.                                                           *)
LEMMA AllocateStep == Inv /\ Allocate => Inv'
<1> SUFFICES ASSUME Inv, Allocate PROVE Inv'
  OBVIOUS
<1>0. /\ reader = "allocate" /\ c < 4 /\ c \in Nat /\ UNCHANGED <<position, got>>
      /\ UNCHANGED pack /\ writer \in {"closed", "crashed"} /\ c + 1 \in 1 .. 4
  BY SMTT(60) DEF Allocate, Inv, TypeOK, Writing
<1> USE <1>0, FileKept
<1>1. PICK part \in Parts : part = AllocationOrder[c + 1]
  BY EachOnce
<1>2. /\ pointer \in [Parts -> {"wild", "null", "array", "freed", "strayed"}] /\ scarce \in BOOLEAN
      /\ Length \in [Parts -> Nat]
  BY Lengths DEF Inv, TypeOK
<1>3. \A k \in 1 .. 4 :
        IF k <= c /\ Wanted(AllocationOrder[k]) THEN pointer[AllocationOrder[k]] = "array"
                                                ELSE Unset(AllocationOrder[k])
  BY DEF Inv, Pointing
<1>4. CASE /\ c' = c + 1 /\ UNCHANGED <<reader, scarce>>
           /\ \/ ~Wanted(part) /\ pointer' = pointer
              \/ Wanted(part) /\ pointer' = [pointer EXCEPT ![part] = "array"]
  <2>1. pointer' \in [Parts -> {"wild", "null", "array", "freed", "strayed"}]
    BY <1>2, <1>4
  <2>2. TypeOK'
    <3>1. reader' \notin Parts
      BY <1>4 DEF Parts
    <3> QED BY <1>4, <2>1, <3>1 DEF Inv, TypeOK
  <2>3. Reading'
    BY <1>4 DEF Inv, Reading, Parts
  <2>4. ASSUME NEW k \in 1 .. 4
        PROVE  IF k <= c' /\ Wanted(AllocationOrder[k])
               THEN pointer'[AllocationOrder[k]] = "array"
               ELSE pointer'[AllocationOrder[k]] \in {"wild", "null"}
    <3>1. AllocationOrder[k] \in Parts
      BY EachOnce
    <3>2. CASE k = c + 1
      BY SMTT(60), <1>1, <1>2, <1>3, <1>4, <3>1, <3>2 DEF Unset
    <3>3. CASE k # c + 1
      <4>1. AllocationOrder[k] # part
        BY <1>1, <3>3, EachOnce
      <4>2. pointer'[AllocationOrder[k]] = pointer[AllocationOrder[k]]
        BY <1>2, <1>4, <3>1, <4>1
      <4>3. k <= c' <=> k <= c
        BY <1>4, <3>3
      <4> QED BY <1>3, <4>2, <4>3 DEF Unset
    <3> QED BY <3>2, <3>3
  <2>5. Pointing'
    <3>1. reader' = "allocate"
      BY <1>4
    <3>2. \A k \in 1 .. 4 : Wanted(AllocationOrder[k])' = Wanted(AllocationOrder[k])
      BY EachOnce
    <3> QED BY <2>4, <3>1, <3>2 DEF Pointing, Unset, Parts
  <2>6. CompleteOrRefused' /\ ReadsBackEnoughTests' /\ RefusalFreesAll'
    BY <1>4 DEF CompleteOrRefused, ReadsBackEnoughTests, RefusalFreesAll
  <2> QED BY <2>2, <2>3, <2>5, <2>6 DEF Inv
<1>5. CASE scarce' = TRUE /\ FreeAll({AllocationOrder[k] : k \in 1 .. c})
  <2> DEFINE parts == {AllocationOrder[k] : k \in 1 .. c}
  <2>1. parts \in SUBSET Parts
    BY EachOnce
  <2>2. ASSUME NEW p \in Parts \ parts PROVE Unset(p)
    <3>1. PICK k \in 1 .. 4 : AllocationOrder[k] = p
      BY EachOnce
    <3>2. ~(k <= c)
      BY <2>2, <3>1
    <3> QED BY <1>3, <3>1, <3>2
  <2>3. ASSUME NEW p \in parts, pointer[p] = "wild" PROVE Length[p] = 0
    <3>1. PICK k \in 1 .. c : AllocationOrder[k] = p
      OBVIOUS
    <3>2. k \in 1 .. 4 /\ k <= c /\ p \in Parts
      BY <2>1, <3>1
    <3>3. ~Wanted(p)
      BY <1>3, <2>3, <3>1, <3>2
    <3> QED BY <1>2, <3>2, <3>3 DEF Wanted
  <2> HIDE DEF parts
  <2>4. FreeAll(parts)
    BY <1>5 DEF parts
  <2>5. \A p \in Parts : pointer[p] = "array" \/ Unset(p)
    <3> SUFFICES ASSUME NEW p \in Parts PROVE pointer[p] = "array" \/ Unset(p)
      OBVIOUS
    <3>1. PICK k \in 1 .. 4 : AllocationOrder[k] = p
      BY EachOnce
    <3> QED BY <1>3, <3>1
  <2> QED BY <1>5, <2>1, <2>2, <2>3, <2>4, <2>5, Refusing
<1> QED BY <1>1, <1>4, <1>5 DEF Allocate, Allocated

(* The last malloc has succeeded and the reading begins. *)
LEMMA AllAllocatedStep == Inv /\ AllAllocated => Inv'
<1> SUFFICES ASSUME Inv, AllAllocated PROVE Inv'
  OBVIOUS
<1>0. /\ reader = "allocate" /\ c = 4 /\ reader' = "cv" /\ c' = 0
      /\ UNCHANGED <<position, got, pointer, scarce>>
      /\ UNCHANGED pack /\ writer \in {"closed", "crashed"}
  BY DEF AllAllocated, Enter, Inv, Writing
<1> USE <1>0, FileKept
<1>1. Length["cv"] \in Nat /\ position = 2 /\ got = {} /\ Before["cv"] = 2
  BY Lengths, Beginnings DEF Inv, Reading, Parts
<1>2. TypeOK'
  BY <1>1 DEF Inv, TypeOK, Parts
<1>3. Reading'
  <2>1. 3 .. position = {}
    BY <1>1
  <2>2. Stored'
    BY <1>1, <2>1 DEF Stored
  <2> QED BY <1>1, <2>2 DEF Reading, Parts
<1>4. Pointing'
  <2>1. ASSUME NEW p \in Parts
        PROVE  IF Wanted(p) THEN pointer[p] = "array" ELSE Unset(p)
    <3>1. PICK k \in 1 .. 4 : AllocationOrder[k] = p
      BY EachOnce
    <3> QED BY <3>1 DEF Inv, Pointing
  <2> QED BY <2>1 DEF Pointing, Unset, Parts
<1>5. CompleteOrRefused' /\ ReadsBackEnoughTests' /\ RefusalFreesAll'
  BY DEF CompleteOrRefused, ReadsBackEnoughTests, RefusalFreesAll
<1> QED BY <1>2, <1>3, <1>4, <1>5 DEF Inv, Writing

-----------------------------------------------------------------------------
(* One element: it is stored where the file had it. *)
LEMMA ReadElementStep == ASSUME Inv, NEW part \in Parts, ReadElement(part) PROVE Inv'
<1>0. /\ reader = part /\ c < Length[part] /\ position < written
      /\ position' = position + 1 /\ c' = c + 1
      /\ got' = got \cup {<<<<part, c>>, Items[position + 1]>>}
      /\ UNCHANGED pack /\ UNCHANGED <<reader, pointer, scarce>>
      /\ writer \in {"closed", "crashed"}
  BY DEF ReadElement, Inv, Writing, Parts
<1> USE <1>0, FileKept
<1>1. Length[part] \in Nat /\ Before[part] \in Nat /\ Before[part] >= 2 /\ c \in Nat
      /\ position \in Nat
  <2>1. Length[part] \in Nat /\ Before[part] \in Nat /\ Before[part] >= 2
    BY Lengths, Beginnings DEF Inv
  <2>2. c \in Nat /\ position \in Nat
    BY DEF Inv, TypeOK
  <2> QED BY <2>1, <2>2
<1>2. Stored /\ position = Before[part] + c
  BY <1>1 DEF Inv, Reading, Parts
<1>3. Items[position + 1] = <<part, c>>
  <2>1. c \in 0 .. (Length[part] - 1)
    BY <1>1
  <2> QED BY <1>2, <2>1, Layout DEF Inv
<1>4. Stored'
  <2>1. 3 .. (position + 1) = (3 .. position) \cup {position + 1}
    BY SMTT(60), <1>1, <1>2
  <2> QED BY ZenonT(60), <1>2, <1>3, <2>1 DEF Stored
<1>5. TypeOK'
  BY <1>1 DEF Inv, TypeOK
<1>6. Reading'
  BY <1>1, <1>2, <1>4, SMTT(90) DEF Reading, Parts
<1>7. Pointing'
  BY DEF Inv, Pointing, Unset, Parts
<1>8. CompleteOrRefused' /\ ReadsBackEnoughTests' /\ RefusalFreesAll'
  BY DEF CompleteOrRefused, ReadsBackEnoughTests, RefusalFreesAll, Parts
<1> QED BY <1>5, <1>6, <1>7, <1>8 DEF Inv, Writing

(* The end of a loop: a refusal, or the next array, whose items begin here    *)
(* unless the file has ended among the test indices.                         *)
LEMMA EndLoopStep == ASSUME Inv, NEW part \in Parts, EndLoop(part) PROVE Inv'
<1>0. /\ reader = part /\ (c = Length[part] \/ position = written)
      /\ UNCHANGED pack /\ UNCHANGED <<position, got, scarce>>
      /\ writer \in {"closed", "crashed"}
  BY DEF EndLoop, Inv, Writing, Parts
<1> USE <1>0, FileKept
<1>1. /\ Length \in [Parts -> Nat] /\ c \in Nat /\ position \in Nat /\ c <= Length[part]
      /\ position <= written /\ scarce \in BOOLEAN
      /\ \A p \in Parts \cup {"done"} : Before[p] \in Nat
  <2>1. Length \in [Parts -> Nat]
    BY Lengths DEF Inv
  <2>2. \A p \in Parts \cup {"done"} : Before[p] \in Nat
    BY Beginnings DEF Inv
  <2>3. c \in Nat /\ c <= Length[part] /\ scarce \in BOOLEAN
    BY DEF Inv, TypeOK
  <2>4. position \in Nat /\ position <= written
    BY DEF Inv, TypeOK
  <2> QED BY <2>1, <2>2, <2>3, <2>4
<1>2. \/ Stored /\ position = Before[part] + c
      \/ part = "data" /\ c = 0 /\ position = written /\ position < Before["data"]
  BY <1>1 DEF Inv, Reading, Parts
<1>3. \A p \in Parts : IF Wanted(p) THEN pointer[p] = "array" ELSE Unset(p)
  BY DEF Inv, Pointing
<1>4. Before[part] + Length[part] = Before[Following(part)] /\ Before[Following(part)] <= Len(Items)
  <2>1. /\ Before["test"] = Before["cv"] + Length["cv"]
        /\ Before["data"] = Before["test"] + Length["test"]
        /\ Before["state"] = Before["data"] + Length["data"]
        /\ Before["done"] = Before["state"] + Length["state"]
        /\ Len(Items) = Before["done"]
    BY Beginnings, Layout DEF Inv
  <2>2. /\ Length["cv"] \in Nat /\ Length["test"] \in Nat
        /\ Length["data"] \in Nat /\ Length["state"] \in Nat
        /\ Before["cv"] \in Nat /\ Before["test"] \in Nat /\ Before["data"] \in Nat
        /\ Before["state"] \in Nat /\ Before["done"] \in Nat
    BY <1>1 DEF Parts
  <2>3. part \in {"cv", "test", "data", "state"}
    BY DEF Parts
  <2>4. /\ Following("cv") = "test" /\ Following("test") = "data"
        /\ Following("data") = "state" /\ Following("state") = "done"
    BY DEF Following
  <2>9. /\ Before["test"] <= Len(Items) /\ Before["data"] <= Len(Items)
        /\ Before["state"] <= Len(Items) /\ Before["done"] <= Len(Items)
    BY <2>1, <2>2, SMTT(90)
  <2>5. CASE part = "cv"
    BY <2>1, <2>4, <2>9, <2>5, Zenon
  <2>6. CASE part = "test"
    BY <2>1, <2>4, <2>9, <2>6, Zenon
  <2>7. CASE part = "data"
    BY <2>1, <2>4, <2>9, <2>7, Zenon
  <2>8. CASE part = "state"
    BY <2>1, <2>4, <2>9, <2>8, Zenon
  <2> QED BY <2>3, <2>5, <2>6, <2>7, <2>8
<1>5. CASE c < Checked(part)
  <2>1. Complete => problem.test_size < problem.cv_size
    <3> SUFFICES ASSUME Complete PROVE problem.test_size < problem.cv_size
      OBVIOUS
    <3>1. c = Length[part]
      <4>1. Before[part] \in Nat /\ Length[part] \in Nat /\ written = Len(Items)
        BY <1>1 DEF Complete
      <4> QED BY <1>1, <1>2, <1>4, <4>1
    <3>2. part = "test" /\ Length["test"] < Length["cv"]
      BY <1>1, <1>5, <3>1 DEF Checked
    <3> QED BY <3>2, Lengths DEF Inv
  <2>2. FreeAll(Parts)
    BY <1>5 DEF EndLoop
  <2>3. \A p \in Parts : pointer[p] = "wild" => Length[p] = 0
    BY <1>1, <1>3 DEF Wanted
  <2>4. reader # "start" /\ Parts \in SUBSET Parts /\ scarce' \in BOOLEAN
    BY <1>1 DEF Parts
  <2>5. \A p \in Parts : pointer[p] = "array" \/ Unset(p)
    BY <1>3
  <2> QED BY <2>1, <2>2, <2>3, <2>4, <2>5, Refusing
<1>6. CASE ~(c < Checked(part))
  <2>1. /\ reader' = Following(part) /\ c' = 0 /\ pointer' = pointer
        /\ Following(part) \in {"test", "data", "state", "done"}
    BY <1>6 DEF EndLoop, Enter, Following, Parts
  <2>2. \/ Stored /\ position = Before[Following(part)]
        \/ Following(part) = "data" /\ position = written /\ position < Before["data"]
    <3>1. CASE part # "test"
      <4>1. c = Length[part]
        BY <1>1, <1>6, <3>1 DEF Checked
      <4>2. part = "data" => c # 0
        BY <4>1, Lengths DEF Inv, Writing
      <4> QED BY <1>2, <1>4, <4>1, <4>2
    <3>2. CASE part = "test"
      <4>1. Stored /\ position = Before[part] + c /\ Following(part) = "data"
        BY <1>2, <3>2 DEF Following
      <4>2. CASE c = Length[part]
        BY <1>4, <4>1, <4>2
      <4>3. CASE c # Length[part]
        BY <1>1, <1>4, <4>1, <4>3
      <4> QED BY <4>2, <4>3
    <3> QED BY <3>1, <3>2
  <2>3. TypeOK'
    BY SMTT(60), <1>1, <2>1 DEF Inv, TypeOK, Parts
  <2>4. Reading'
    <3>1. Stored' = Stored
      BY DEF Stored
    <3> QED BY SMTT(60), <1>1, <2>1, <2>2, <3>1 DEF Reading, Parts
  <2>5. Pointing'
    BY <1>3, <2>1 DEF Pointing, Unset, Parts
  <2>6. CompleteOrRefused'
    <3> SUFFICES ASSUME Following(part) = "done"
                 PROVE  Complete /\ got = {<<Items[k], Items[k]>> : k \in 3 .. Len(Items)}
      BY <2>1 DEF CompleteOrRefused
    <3>1. Stored /\ position = Len(Items)
      BY <2>2, Layout DEF Inv
    <3> QED BY <1>1, <3>1 DEF Stored, Complete
  <2>7. ReadsBackEnoughTests' /\ RefusalFreesAll'
    BY <2>1 DEF ReadsBackEnoughTests, RefusalFreesAll
  <2> QED BY <2>3, <2>4, <2>5, <2>6, <2>7 DEF Inv, Writing
<1> QED BY <1>5, <1>6

-----------------------------------------------------------------------------
(* Writer and reader together keep files and problems apart: what is read is  *)
(* what was written.                                                         *)
THEOREM Invariance == Spec => []Inv
<1>1. Inv /\ UNCHANGED vars => Inv'
  <2> SUFFICES ASSUME Inv, UNCHANGED vars PROVE Inv'
    OBVIOUS
  <2>1. UNCHANGED pack /\ UNCHANGED <<reader, c, position, got, pointer, scarce>>
    BY DEF vars, unpack
  <2>2. TypeOK'
    BY <2>1, FileKept DEF Inv, TypeOK
  <2>3. Writing'
    BY <2>1, FileKept DEF Inv, Writing
  <2>4. Reading' /\ Pointing'
    <3>1. Stored' = Stored
      BY <2>1, FileKept DEF Stored
    <3>2. Reading'
      BY <2>1, <3>1, FileKept DEF Inv, Reading
    <3>3. \A k \in 1 .. 4 : Wanted(AllocationOrder[k])' = Wanted(AllocationOrder[k])
      BY <2>1, FileKept, EachOnce
    <3>4. \A p \in Parts : Wanted(p)' = Wanted(p)
      BY <2>1, FileKept
    <3>5. Pointing'
      BY <2>1, <3>3, <3>4 DEF Inv, Pointing, Unset
    <3> QED BY <3>2, <3>5
  <2>5. CompleteOrRefused' /\ ReadsBackEnoughTests' /\ RefusalFreesAll'
    BY <2>1, FileKept DEF Inv, CompleteOrRefused, ReadsBackEnoughTests, RefusalFreesAll
  <2> QED BY <2>2, <2>3, <2>4, <2>5 DEF Inv
<1>2. Inv /\ [Next]_vars => Inv'
  BY <1>1, WriterStep, ReadFrontStep, AllocateStep, AllAllocatedStep, ReadElementStep,
     EndLoopStep DEF Next
<1> QED BY InitInv, <1>2, PTL DEF Spec

(* Counters stay within what they count, for problems of any size.            *)
THEOREM TypeCorrect == Spec => []TypeOK
<1>1. Inv => TypeOK
  BY DEF Inv
<1> QED BY Invariance, <1>1, PTL

(* pack.c, 104-248: whatever a crash or a full disk has cut off, a file is     *)
(* refused or read whole, each element in its place, for problems of any size. *)
THEOREM CutFilesRefused == Spec => []CompleteOrRefused
<1>1. Inv => CompleteOrRefused
  BY DEF Inv
<1> QED BY Invariance, <1>1, PTL

(* pack.c, 104-248: only a lack of memory or of test indices keeps a whole     *)
(* file from being read.                                                      *)
THEOREM WholeFilesRead == Spec => []ReadsBackEnoughTests
<1>1. Inv => ReadsBackEnoughTests
  BY DEF Inv
<1> QED BY Invariance, <1>1, PTL

(* pack.c, 146-240: at whichever malloc or element a refusal comes, free is    *)
(* called for every array allocated so far, and for a pointer that was never   *)
(* set only where the array has length 0.                                      *)
THEOREM RefusalsFree == Spec => []RefusalFreesAll
<1>1. Inv => RefusalFreesAll
  BY DEF Inv
<1> QED BY Invariance, <1>1, PTL
=============================================================================

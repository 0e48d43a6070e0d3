----------------------- MODULE StorageOptimizerProofs -----------------------
(* For any points, files and bounds: no rename, restart or conversion loses  *)
(* what was flushed to the file, and the optimizer misses its file only in a *)
(* race. The invariant says which one file the directory has, by which name, *)
(* and that it is handed to the optimizer once.                              *)
(* For reads in chunks of any size, of any format: what they deliver lies    *)
(* apart, is the version that was written last with the original duration,   *)
(* and is all there is where points do not overlap; a dense file from 0 on   *)
(* is read back.                                                             *)
EXTENDS StorageOptimizer, SequenceTheorems, FiniteSetTheorems, WellFoundedInduction, TLAPS

\* The name the file has in the directory.
Name == IF fpc \in {"moving", "marking"} THEN moving ELSE GetPath(file)

\* The directory has the one file the vector has, whichever format that is.
OneFile ==
    \/ /\ file = NoFile /\ DOMAIN disk = {} /\ fpc = "idle" /\ written = <<>>
    \/ /\ file \in SparseName /\ Name \in SparseName /\ DOMAIN disk = {Name} /\ disk[Name] = written
    \/ /\ file \in DenseObject /\ fpc = "idle" /\ DOMAIN disk = {GetPath(file)}
       /\ disk[GetPath(file)] \in Seq(Int)
       /\ Ordinary => /\ file.max = Len(disk[GetPath(file)]) * file.dur
                      /\ \A p \in Range(written) : Holds(disk[GetPath(file)], p)
    \/ /\ file \in ConstantObject /\ fpc = "idle" /\ DOMAIN disk \subseteq ConstantName /\ written = <<>>

\* A file is handed to the worker once, and marked.
Started == tasks # 0 \/ wpc # "idle" \/ gone
OneTask ==
    /\ tasks \in {0, 1} /\ gone \in BOOLEAN /\ raced \in BOOLEAN
    /\ Started => file \in SparseName /\ (file.opt \/ fpc = "queued")
    /\ tasks # 0 => wpc = "idle" /\ ~gone
    /\ wpc \in {"named", "opened"} => ~gone /\ (raced \/ path \in DOMAIN disk)
    /\ gone => raced

IInv == OneFile /\ OneTask /\ buffered \in Seq(Point) /\ written \in Seq(Point)

----------------------------------------------------------------------------
(* Sequences, names and numbers.                                             *)

LEMMA ElementsOf == ASSUME NEW S, NEW s \in Seq(S)
                    PROVE  /\ \A i \in 1..Len(s) : s[i] \in Range(s)
                           /\ \A x \in Range(s) : x \in S /\ \E i \in 1..Len(s) : x = s[i]
<1>1. DOMAIN s = 1..Len(s) /\ \A i \in 1..Len(s) : s[i] \in S
  OBVIOUS
<1>2. Range(s) = {s[i] : i \in 1..Len(s)}
  BY <1>1 DEF Range
<1> QED
  BY <1>1, <1>2

LEMMA JoinedIs ==
    ASSUME NEW S, NEW s \in Seq(S), NEW r \in Seq(S)
    PROVE  /\ s \o r \in Seq(S)
           /\ Len(s \o r) = Len(s) + Len(r)
           /\ \A i \in 1..Len(s) : (s \o r)[i] = s[i]
           /\ \A i \in 1..Len(r) : (s \o r)[Len(s) + i] = r[i]
           /\ Range(s \o r) = Range(s) \union Range(r)
<1> DEFINE q == s \o r
<1>1. /\ q \in Seq(S) /\ Len(q) = Len(s) + Len(r) /\ Len(s) \in Nat /\ Len(r) \in Nat
      /\ \A i \in 1..(Len(s) + Len(r)) : q[i] = IF i <= Len(s) THEN s[i] ELSE r[i - Len(s)]
  BY ConcatProperties
<1> HIDE DEF q
<1>2. \A i \in 1..Len(s) : q[i] = s[i]
  BY <1>1
<1>3. \A i \in 1..Len(r) : q[Len(s) + i] = r[i]
  BY <1>1
<1>4. /\ \A x \in Range(q) : \E i \in 1..Len(q) : x = q[i]
      /\ \A i \in 1..Len(q) : q[i] \in Range(q)
  BY <1>1, ElementsOf
<1>5. /\ \A x \in Range(s) : \E i \in 1..Len(s) : x = s[i]
      /\ \A x \in Range(r) : \E i \in 1..Len(r) : x = r[i]
      /\ \A i \in 1..Len(s) : s[i] \in Range(s)
      /\ \A i \in 1..Len(r) : r[i] \in Range(r)
  BY ElementsOf
<1>6. ASSUME NEW x \in Range(q) PROVE x \in Range(s) \union Range(r)
  <2>1. PICK i \in 1..Len(q) : x = q[i]
    BY <1>4
  <2>2. i <= Len(s) \/ i - Len(s) \in 1..Len(r)
    BY <1>1
  <2> QED
    BY <1>1, <1>5, <2>1, <2>2, SMTT(30)
<1>7. Range(s) \subseteq Range(q)
  <2>1. \A i \in 1..Len(s) : i \in 1..Len(q)
    BY <1>1
  <2> QED
    BY <1>2, <1>4, <1>5, <2>1
<1>8. Range(r) \subseteq Range(q)
  <2>1. \A i \in 1..Len(r) : Len(s) + i \in 1..Len(q)
    BY <1>1
  <2> QED
    BY <1>3, <1>4, <1>5, <2>1
<1> QED
  BY <1>1, <1>2, <1>3, <1>6, <1>7, <1>8 DEF q


LEMMA GreaterOf == ASSUME NEW a \in Int, NEW b \in Int
                   PROVE  Max({a, b}) = IF a > b THEN a ELSE b
<1> DEFINE m == IF a > b THEN a ELSE b
<1>1. m \in {a, b} /\ \A y \in {a, b} : m >= y
  OBVIOUS
<1>2. \A x \in {a, b} : (\A y \in {a, b} : x >= y) => x = m
  OBVIOUS
<1> HIDE DEF m
<1>3. Max({a, b}) = m
  BY <1>1, <1>2 DEF Max
<1> QED
  BY <1>3 DEF m

LEMMA LesserOf == ASSUME NEW a \in Int, NEW b \in Int
                  PROVE  Min({a, b}) = IF a > b THEN b ELSE a
<1> DEFINE m == IF a > b THEN b ELSE a
<1>1. m \in {a, b} /\ \A y \in {a, b} : m <= y
  OBVIOUS
<1>2. \A x \in {a, b} : (\A y \in {a, b} : x <= y) => x = m
  OBVIOUS
<1> HIDE DEF m
<1>3. Min({a, b}) = m
  BY <1>1, <1>2 DEF Min
<1> QED
  BY <1>3 DEF m

LEMMA Quotient == ASSUME NEW n \in Nat, NEW d \in Nat \ {0}
                  PROVE  (n * d) \div d = n /\ n * d \in Nat /\ n \div d \in Nat
<1>1. n * d \in Nat
  OBVIOUS
<1>2. (n * d) \div d = n
  OBVIOUS
<1>3. n \div d \in Nat
  OBVIOUS
<1> QED
  BY <1>1, <1>2, <1>3

LEMMA PathOf ==
    /\ \A f \in SparseName : GetPath(f) = f
    /\ \A f \in DenseObject : GetPath(f) = [kind |-> "dense", min |-> f.min, dur |-> f.dur]
<1>1. ASSUME NEW f \in SparseName PROVE GetPath(f) = f
  BY DEF GetPath, SparseName
<1>2. ASSUME NEW f \in DenseObject
      PROVE  GetPath(f) = [kind |-> "dense", min |-> f.min, dur |-> f.dur]
  BY DEF GetPath, DenseObject
<1> QED
  BY <1>1, <1>2

LEMMA Kinds == /\ NoFile.kind = "none"
               /\ \A f \in SparseName : f.kind = "sparse"
               /\ \A f \in DenseObject : f.kind = "dense"
               /\ \A f \in ConstantObject : f.kind = "constant"
               /\ \A f \in ConstantName : f.kind = "constant"
BY DEF NoFile, SparseName, DenseObject, ConstantObject, ConstantName

LEMMA PointAt == ASSUME NEW s \in Seq(Point), NEW i \in 1..Len(s)
                 PROVE  s[i] \in Point /\ s[i].ts \in Nat /\ s[i].dur \in Nat /\ s[i].val \in Nat
<1>1. s[i] \in Point
  OBVIOUS
<1> QED
  BY <1>1 DEF Point

----------------------------------------------------------------------------
(* The directory at first.                                                   *)

LEMMA InitInv == ASSUME Init PROVE IInv
<1>1. PICK d \in Listed \union {[object |-> NoFile]} :
          /\ file = d.object
          /\ disk = IF d.object = NoFile THEN [n \in {} |-> <<>>] ELSE [n \in {d.name} |-> d.content]
          /\ written = IF d.object.kind = "dense" THEN PointsOf(d.object, d.content) ELSE <<>>
  BY DEF Init
<1>2. /\ buffered = <<>> /\ fpc = "idle" /\ tasks = 0 /\ wpc = "idle" /\ gone = FALSE /\ raced = FALSE /\ tidy
  BY DEF Init
<1>3. buffered \in Seq(Point) /\ <<>> \in Seq(Point)
  BY <1>2
<1>4. OneTask
  BY <1>2 DEF OneTask, Started
<1>5. CASE d = [object |-> NoFile]
  <2>1. d.object = NoFile /\ d.object.kind # "dense"
    BY <1>5, Kinds
  <2> QED
    BY <1>1, <1>2, <1>3, <1>4, <2>1 DEF IInv, OneFile
<1>6. CASE d \in Listed /\ d.object \in ConstantObject /\ d.name \in ConstantName
  <2>1. d.object # NoFile /\ d.object.kind # "dense"
    BY <1>6, Kinds
  <2>2. DOMAIN disk = {d.name}
    BY <1>1, <2>1
  <2> QED
    BY <1>1, <1>2, <1>3, <1>4, <1>6, <2>1, <2>2 DEF IInv, OneFile
<1>7. CASE /\ d \in Listed /\ d.object \in DenseObject /\ d.name = GetPath(d.object) /\ d.content \in Seq(Nat)
           /\ d.object.max = d.object.min + Len(d.content) * d.object.dur
  <2> DEFINE f == d.object
             slots == d.content
  <2>1. f # NoFile /\ f.kind = "dense"
    BY <1>7, Kinds
  <2>2. DOMAIN disk = {GetPath(file)} /\ disk[GetPath(file)] = slots
    BY <1>1, <1>7, <2>1
  <2>3. f.min \in Nat /\ f.dur \in Nat \ {0} /\ f.max \in Nat
    BY <1>7 DEF DenseObject
  <2>4. slots \in Seq(Nat) /\ slots \in Seq(Int) /\ Len(slots) \in Nat
    BY <1>7
  <2>5. written = [k \in 1..Len(slots) |-> [ts |-> f.min + (k - 1) * f.dur, dur |-> f.dur, val |-> slots[k]]]
    BY <1>1, <2>1, <2>4 DEF PointsOf
  <2>6. ASSUME NEW k \in 1..Len(slots)
        PROVE  [ts |-> f.min + (k - 1) * f.dur, dur |-> f.dur, val |-> slots[k]] \in Point
    <3>1. k - 1 \in Nat /\ slots[k] \in Nat
      BY <2>4
    <3>2. (k - 1) * f.dur \in Nat
      BY <2>3, <3>1, Quotient
    <3>3. f.min + (k - 1) * f.dur \in Nat
      BY <2>3, <3>2
    <3> QED
      BY <2>3, <3>1, <3>3 DEF Point
  <2>7. written \in Seq(Point)
    <3>1. written \in [1..Len(slots) -> Point]
      BY <2>5, <2>6
    <3> QED
      BY <2>4, <3>1
  <2>8. ASSUME f.min = 0, NEW p \in Range(written) PROVE Holds(slots, p)
    <3>1. PICK k \in 1..Len(slots) : p = [ts |-> f.min + (k - 1) * f.dur, dur |-> f.dur, val |-> slots[k]]
      BY <2>5 DEF Range
    <3>2. k - 1 \in Nat /\ p.ts = f.min + (k - 1) * f.dur /\ p.val = slots[k]
      BY <3>1
    <3>3. (p.ts - f.min) = (k - 1) * f.dur
      BY <2>3, <2>8, <3>2, Quotient
    <3>4. (p.ts - f.min) \div f.dur = k - 1
      BY <2>3, <3>2, <3>3, Quotient
    <3>5. k = (p.ts - f.min) \div f.dur + 1
      BY <3>4
    <3>6. DOMAIN slots = 1..Len(slots)
      BY <2>4
    <3> QED
      BY <1>1, <3>2, <3>5, <3>6 DEF Holds
  <2>9. file.min = 0 => file.max = Len(slots) * file.dur
    BY <1>1, <1>7, <2>3, <2>4, Quotient
  <2> HIDE DEF slots
  <2>10. Ordinary => file.max = Len(slots) * file.dur /\ \A p \in Range(written) : Holds(slots, p)
    BY <1>1, <2>8, <2>9 DEF Ordinary
  <2> QED
    BY <1>1, <1>2, <1>3, <1>4, <1>7, <2>2, <2>4, <2>7, <2>10 DEF IInv, OneFile
<1> QED
  BY <1>1, <1>5, <1>6, <1>7, ListedAssumption

----------------------------------------------------------------------------
(* The flusher's steps on a sparse file.                                     *)

\* What no step of the task or the flusher but its own writes touches.
LEMMA StillKeeps ==
    ASSUME IInv,
           UNCHANGED <<disk, file, fpc, moving, written, tidy, tasks, wpc, path, gone, raced>>,
           buffered' \in Seq(Point)
    PROVE  IInv'
<1>1. UNCHANGED <<Name, Started, Ordinary>>
  BY DEF Name, GetPath, Started, Ordinary
<1>2. \A slots, p : Holds(slots, p)' = Holds(slots, p)
  BY DEF Holds
<1>3. GetPath(file)' = GetPath(file)
  BY DEF GetPath
<1>4. OneFile'
  BY <1>1, <1>2, <1>3 DEF IInv, OneFile
<1>5. OneTask'
  BY <1>1 DEF IInv, OneTask
<1> QED
  BY <1>4, <1>5 DEF IInv

LEMMA ArriveKeeps == ASSUME IInv, NEW b \in Batch, Arrive(b) PROVE IInv'
<1>1. buffered' \in Seq(Point)
  BY BatchAssumption DEF Arrive
<1> QED
  BY <1>1, StillKeeps DEF Arrive, taskvars

LEMMA ReadKeeps == ASSUME IInv, Chunk \/ \E r \in ReadRange, size \in BufferSize : BeginRead(r, size)
                   PROVE  IInv'
<1>1. UNCHANGED <<disk, file, buffered, fpc, moving, written, tidy, tasks, wpc, path, gone, raced>>
  BY DEF Chunk, BeginRead, flushvars, taskvars
<1> QED
  BY <1>1, StillKeeps DEF IInv

\* Where a sparse file is, which format it has and what was written to it.
LEMMA SparseIs ==
    ASSUME IInv, file.kind = "sparse"
    PROVE  /\ file \in SparseName /\ GetPath(file) = file /\ Name \in SparseName
           /\ DOMAIN disk = {Name} /\ disk[Name] = written
<1>1. file \in SparseName
  BY Kinds DEF IInv, OneFile
<1> QED
  BY <1>1, Kinds, PathOf DEF IInv, OneFile

LEMMA SparseHolds ==
    ASSUME file' \in SparseName, Name' \in SparseName, DOMAIN disk' = {Name'}, disk'[Name'] = written',
           OneTask', buffered' \in Seq(Point), written' \in Seq(Point)
    PROVE  IInv'
BY DEF IInv, OneFile

LEMMA WriteSparseKeeps == ASSUME IInv, WriteSparse PROVE IInv'
<1> DEFINE new == [kind |-> "sparse", min |-> First, max |-> First, opt |-> FALSE]
           f == IF file.kind = "sparse" THEN file ELSE new
           last == buffered[Len(buffered)].ts
           max == Max({f.max, last})
           old == IF GetPath(f) \in DOMAIN disk THEN disk[GetPath(f)] ELSE <<>>
<1>1. /\ Flushes /\ file.kind \in {"none", "sparse"}
      /\ disk' = [n \in DOMAIN disk \union {GetPath(f)} |->
                      IF n = GetPath(f) THEN old \o buffered ELSE disk[n]]
      /\ file' = [f EXCEPT !.max = max]
      /\ moving' = GetPath(f)
      /\ IF max > f.max THEN fpc' = "moving" /\ Renames ELSE fpc' = "sizing" /\ UNCHANGED raced
      /\ written' = written \o buffered
      /\ UNCHANGED <<buffered, flushes, tidy, tasks, wpc, path, points, gone>>
  BY DEF WriteSparse, taskvars
<1>2. buffered \in Seq(Point) /\ buffered # <<>> /\ fpc = "idle" /\ written \in Seq(Point)
  BY <1>1 DEF Flushes, IInv
<1>3. First \in Nat /\ last \in Nat
  <2>1. 1 \in 1..Len(buffered) /\ Len(buffered) \in 1..Len(buffered)
    BY <1>2
  <2> QED
    BY <1>2, <2>1, PointAt DEF First
<1>4. f \in SparseName /\ GetPath(f) = f
  <2>1. file.kind = "sparse" => file \in SparseName
    BY SparseIs
  <2>2. new \in SparseName
    BY <1>3 DEF SparseName
  <2> HIDE DEF new
  <2>3. f \in SparseName
    BY <2>1, <2>2
  <2> HIDE DEF f
  <2> QED
    BY <2>3, PathOf
<1>5. DOMAIN disk \subseteq {f} /\ old = written
  <2>1. CASE file.kind = "sparse"
    BY <1>2, <2>1, SparseIs DEF Name
  <2>2. CASE file.kind = "none"
    <3>1. DOMAIN disk = {} /\ written = <<>>
      BY <2>2, Kinds DEF IInv, OneFile
    <3> QED
      BY <3>1
  <2> QED
    BY <1>1, <2>1, <2>2
<1> HIDE DEF new, f, old
<1>6. f.max \in Nat /\ max = (IF f.max > last THEN f.max ELSE last) /\ max \in Nat
  <2>1. f.max \in Nat
    BY <1>4 DEF SparseName
  <2> HIDE DEF last
  <2>2. Max({f.max, last}) = IF f.max > last THEN f.max ELSE last
    BY <1>3, <2>1, GreaterOf
  <2> QED
    BY <1>3, <2>1, <2>2
<1> HIDE DEF max
<1>7. file' \in SparseName /\ (max = f.max => file' = f) /\ file'.opt = f.opt
  BY <1>1, <1>4, <1>6 DEF SparseName
<1>8. DOMAIN disk' = {f} /\ disk'[f] = written'
  BY <1>1, <1>4, <1>5
<1>9. Name' = f
  <2>1. CASE max > f.max
    BY <1>1, <1>4, <2>1 DEF Name
  <2>2. CASE ~(max > f.max)
    <3>1. max = f.max /\ fpc' = "sizing"
      BY <1>1, <1>6, <2>2
    <3> QED
      BY <1>4, <1>7, <3>1 DEF Name
  <2> QED
    BY <2>1, <2>2
<1>10. written' \in Seq(Point)
  BY <1>1, <1>2
<1>11. OneTask'
  <2>1. Started => f = file /\ file.opt
    <3>1. Started => file \in SparseName /\ file.opt
      BY <1>2 DEF IInv, OneTask
    <3> QED
      BY <3>1, Kinds DEF f
  <2>2. Started' = Started
    BY <1>1 DEF Started
  <2>3. raced' \in BOOLEAN /\ (raced => raced')
    BY <1>1 DEF Renames, IInv, OneTask
  <2>4. \A n \in DOMAIN disk : n \in DOMAIN disk'
    BY <1>1
  <2> QED
    BY <1>1, <1>7, <2>1, <2>2, <2>3, <2>4 DEF IInv, OneTask
<1> QED
  BY <1>1, <1>2, <1>4, <1>7, <1>8, <1>9, <1>10, <1>11, SparseHolds

\* A rename takes the file to the object's name, whatever the task makes of it.
LEMMA RenameKeeps ==
    ASSUME IInv, file.kind = "sparse", fpc \in {"moving", "marking"}, fpc' \in {"sizing", "idle"},
           Rename(moving, GetPath(file)), Renames, buffered' \in Seq(Point), (Started => file.opt),
           UNCHANGED <<file, moving, written, tidy, tasks, wpc, path, gone>>
    PROVE  IInv'
<1>1. /\ file \in SparseName /\ GetPath(file) = file /\ moving \in SparseName
      /\ DOMAIN disk = {moving} /\ disk[moving] = written
  BY SparseIs DEF Name
<1>2. DOMAIN disk' = {file} /\ disk'[file] = written
  BY <1>1 DEF Rename
<1>3. Name' = file
  BY <1>1 DEF Name, GetPath
<1>4. Started' = Started
  BY DEF Started
<1>5. raced' \in BOOLEAN /\ (wpc # "idle" => raced') /\ (raced => raced')
  BY DEF Renames, IInv, OneTask
<1>6. OneTask'
  BY <1>1, <1>4, <1>5 DEF IInv, OneTask
<1> QED
  BY <1>1, <1>2, <1>3, <1>6, SparseHolds DEF IInv

LEMMA NotIdleIsSparse == ASSUME IInv, fpc # "idle" PROVE file.kind = "sparse"
BY Kinds DEF IInv, OneFile

LEMMA MoveToMaxKeeps == ASSUME IInv, MoveToMax PROVE IInv'
<1>1. file.kind = "sparse" /\ (Started => file.opt)
  BY NotIdleIsSparse DEF MoveToMax, IInv, OneTask
<1> QED
  BY <1>1, RenameKeeps DEF MoveToMax, taskvars, IInv

LEMMA MoveToMarkedKeeps == ASSUME IInv, MoveToMarked PROVE IInv'
<1>1. file.kind = "sparse" /\ (Started => file.opt)
  BY NotIdleIsSparse DEF MoveToMarked, IInv, OneTask
<1>2. <<>> \in Seq(Point)
  OBVIOUS
<1> QED
  BY <1>1, <1>2, RenameKeeps DEF MoveToMarked, taskvars

\* The name is the object's in every state but those of a rename.
LEMMA SettledKeeps ==
    ASSUME IInv, fpc \in {"sizing", "queued"}, fpc' \in {"idle", "queued"},
           OneTask', buffered' \in Seq(Point), UNCHANGED <<disk, file, written>>
    PROVE  IInv'
<1>1. /\ file \in SparseName /\ GetPath(file) = file /\ Name = file
      /\ DOMAIN disk = {file} /\ disk[file] = written
  BY NotIdleIsSparse, SparseIs DEF Name
<1>2. Name' = file
  BY <1>1 DEF Name, GetPath
<1> QED
  BY <1>1, <1>2, SparseHolds DEF IInv

LEMMA FileIsTooBigKeeps == ASSUME IInv, FileIsTooBig PROVE IInv'
<1>1. /\ fpc = "sizing" /\ fpc' = "queued" /\ tasks' = tasks + 1 /\ ~file.opt
      /\ UNCHANGED <<disk, file, buffered, moving, written, tidy, wpc, path, gone, raced>>
  BY DEF FileIsTooBig, Sized, TooBig, taskvars
<1>2. file \in SparseName
  BY <1>1, NotIdleIsSparse, SparseIs
<1>3. ~Started
  BY <1>1 DEF IInv, OneTask
<1>4. OneTask'
  BY <1>1, <1>2, <1>3 DEF IInv, OneTask, Started
<1> QED
  BY <1>1, <1>4, SettledKeeps DEF IInv

LEMMA LeaveItKeeps == ASSUME IInv, LeaveIt PROVE IInv'
<1>1. /\ fpc = "sizing" /\ fpc' = "idle" /\ buffered' = <<>>
      /\ UNCHANGED <<disk, file, moving, written, tidy, tasks, wpc, path, gone, raced>>
  BY DEF LeaveIt, Sized, taskvars
<1>2. <<>> \in Seq(Point) /\ Started' = Started
  BY <1>1 DEF Started
<1>3. OneTask'
  BY <1>1, <1>2 DEF IInv, OneTask
<1> QED
  BY <1>1, <1>2, <1>3, SettledKeeps

LEMMA MarkKeeps == ASSUME IInv, Mark PROVE IInv'
<1>1. /\ fpc = "queued" /\ fpc' = "marking" /\ moving' = GetPath(file) /\ file' = [file EXCEPT !.opt = TRUE]
      /\ Renames /\ UNCHANGED <<disk, buffered, written, tidy, tasks, wpc, path, gone>>
  BY DEF Mark, taskvars
<1>2. /\ file \in SparseName /\ GetPath(file) = file /\ Name = file
      /\ DOMAIN disk = {file} /\ disk[file] = written
  BY <1>1, NotIdleIsSparse, SparseIs DEF Name
<1>3. file' \in SparseName /\ file'.opt
  BY <1>1, <1>2 DEF SparseName
<1>4. Name' = file
  BY <1>1, <1>2 DEF Name
<1>5. Started' = Started
  BY <1>1 DEF Started
<1>6. raced' \in BOOLEAN /\ (raced => raced')
  BY <1>1 DEF Renames, IInv, OneTask
<1>7. OneTask'
  BY <1>1, <1>3, <1>5, <1>6 DEF IInv, OneTask
<1> QED
  BY <1>1, <1>2, <1>3, <1>4, <1>7, SparseHolds DEF IInv

----------------------------------------------------------------------------
(* The optimizer's steps.                                                    *)

LEMMA HandleKeeps == ASSUME IInv, Handle PROVE IInv'
<1>1. /\ wpc = "idle" /\ tasks > 0 /\ tasks' = tasks - 1 /\ path' = GetPath(file) /\ wpc' = "named"
      /\ raced' = (fpc \in {"moving", "marking"})
      /\ UNCHANGED <<disk, file, buffered, fpc, moving, written, tidy, gone>>
  BY DEF Handle, flushvars
<1>2. Started /\ Started' /\ tasks = 1
  BY <1>1 DEF Started, IInv, OneTask
<1>3. /\ file \in SparseName /\ GetPath(file) = file /\ Name \in SparseName
      /\ DOMAIN disk = {Name} /\ disk[Name] = written
  BY <1>2, Kinds, SparseIs DEF IInv, OneTask
<1>4. Name' = Name
  BY <1>1 DEF Name, GetPath
<1>5. raced' \/ path' \in DOMAIN disk'
  BY <1>1, <1>3 DEF Name
<1>6. OneTask'
  BY <1>1, <1>2, <1>3, <1>5 DEF IInv, OneTask
<1> QED
  BY <1>1, <1>3, <1>4, <1>6, SparseHolds DEF IInv

\* Of the steps that follow only the last would change the directory, and that one asks
\* for the size of a dense file where there is but the sparse one.
\* The file converted to is not there, so that its size is not: the task changes nothing.
LEMMA TaskLeaves == ASSUME IInv, Task PROVE UNCHANGED <<disk, file>>
<1>1. CASE Handle \/ FileGone \/ OpenIt \/ ReadIt
  BY <1>1 DEF Handle, FileGone, OpenIt, ReadIt
<1>2. CASE Convert
  <2> DEFINE new == [kind |-> "dense", min |-> file.min, dur |-> points[1].dur]
  <2>1. Name \in SparseName /\ DOMAIN disk = {Name}
    <3>1. Started
      BY <1>2 DEF Convert, Started
    <3> QED
      BY <3>1, Kinds, SparseIs DEF IInv, OneTask
  <2>2. new \notin DOMAIN disk
    <3>1. new.kind = "dense" /\ Name.kind = "sparse"
      BY <2>1, Kinds
    <3> QED
      BY <2>1, <3>1
  <2> HIDE DEF new
  <2>3. ~SizeIsThere(new)
    BY <2>2 DEF SizeIsThere
  <2> QED
    BY <1>2, <2>3 DEF Convert, new
<1> QED
  BY <1>1, <1>2 DEF Task

LEMMA TaskKeeps == ASSUME IInv, FileGone \/ OpenIt \/ ReadIt \/ Convert PROVE IInv'
<1>1. /\ wpc \in {"named", "opened", "converting"} /\ wpc' \in {"idle", "opened", "converting"}
      /\ UNCHANGED <<buffered, fpc, moving, written, tidy, tasks, path, raced>>
  BY DEF FileGone, OpenIt, ReadIt, Convert, flushvars
<1>2. Started /\ (Started' => Started)
  BY <1>1 DEF Started
<1>3. /\ file \in SparseName /\ GetPath(file) = file /\ Name \in SparseName
      /\ DOMAIN disk = {Name} /\ disk[Name] = written
  BY <1>2, Kinds, SparseIs DEF IInv, OneTask
<1>4. UNCHANGED <<disk, file>>
  BY TaskLeaves DEF Task
<1>5. Name' = Name
  BY <1>1, <1>4 DEF Name, GetPath
<1>6. /\ gone' \in BOOLEAN /\ (gone' => gone \/ (wpc \in {"named", "opened"} /\ path \notin DOMAIN disk))
      /\ wpc' = "opened" => wpc = "named" /\ gone' = gone /\ path \in DOMAIN disk
  <2>1. gone \in BOOLEAN
    BY DEF IInv, OneTask
  <2>2. CASE FileGone
    <3>1. gone' = TRUE /\ wpc' = "idle" /\ wpc \in {"named", "opened"} /\ path \notin DOMAIN disk
      BY <2>2 DEF FileGone, Finds
    <3> QED
      BY <3>1
  <2>3. CASE OpenIt
    <3>1. gone' = gone /\ wpc = "named" /\ path \in DOMAIN disk
      BY <2>3 DEF OpenIt, Finds
    <3> QED
      BY <2>1, <3>1
  <2>4. CASE ReadIt \/ Convert
    <3>1. gone' = gone /\ wpc' # "opened"
      BY <2>4 DEF ReadIt, Convert
    <3> QED
      BY <2>1, <3>1
  <2> QED
    BY <2>2, <2>3, <2>4
<1>7. OneTask'
  BY <1>1, <1>2, <1>3, <1>4, <1>6 DEF IInv, OneTask
<1> QED
  BY <1>1, <1>3, <1>4, <1>5, <1>7, SparseHolds DEF IInv

----------------------------------------------------------------------------
(* DenseFile::Write.                                                         *)

LEMMA ValuesAre ==
    ASSUME NEW f \in DenseObject, NEW ps \in Seq(Point), ps # <<>>
    PROVE  /\ Values(f, ps) \in Seq(Int) /\ Len(Values(f, ps)) = Gap(f, ps) + Len(ps) /\ Gap(f, ps) \in Nat
           /\ \A i \in 1..Len(ps) : Values(f, ps)[Gap(f, ps) + i] = ps[i].val
<1> DEFINE g == Gap(f, ps)
           nans == [i \in 1..g |-> NaN]
           vals == [i \in 1..Len(ps) |-> ps[i].val]
<1>1. f.dur \in Nat \ {0} /\ f.max \in Nat /\ Len(ps) \in Nat /\ ps[1].ts \in Nat
  <2>1. 1 \in 1..Len(ps)
    OBVIOUS
  <2> QED
    BY <2>1, PointAt DEF DenseObject
<1>2. g \in Nat
  <2>1. ps[1].ts > f.max => ps[1].ts - f.max \in Nat
    BY <1>1
  <2> QED
    BY <1>1, <2>1, Quotient DEF Gap
<1> HIDE DEF g
<1>3. nans \in Seq(Int) /\ Len(nans) = g
  <2>1. nans \in [1..g -> Int]
    BY DEF NaN
  <2> QED
    BY <1>2, <2>1
<1>4. vals \in Seq(Int) /\ Len(vals) = Len(ps) /\ \A i \in 1..Len(ps) : vals[i] = ps[i].val
  <2>1. \A i \in 1..Len(ps) : ps[i].val \in Int
    BY PointAt
  <2>2. vals \in [1..Len(ps) -> Int]
    BY <2>1
  <2> QED
    BY <1>1, <2>2
<1>5. Values(f, ps) = nans \o vals
  BY DEF Values, g
<1> HIDE DEF nans, vals
<1>6. /\ nans \o vals \in Seq(Int) /\ Len(nans \o vals) = Len(nans) + Len(vals)
      /\ \A i \in 1..Len(vals) : (nans \o vals)[Len(nans) + i] = vals[i]
  <2>1. nans \in Seq(Int) /\ vals \in Seq(Int)
    BY <1>3, <1>4
  <2> QED
    BY <2>1, JoinedIs
<1> QED
  BY <1>2, <1>3, <1>4, <1>5, <1>6 DEF g

LEMMA OverwrittenIs ==
    ASSUME NEW slots \in Seq(Int), NEW at \in Nat, NEW values \in Seq(Int)
    PROVE  /\ Overwritten(slots, at, values) \in Seq(Int)
           /\ at = Len(slots) =>
                  /\ Len(Overwritten(slots, at, values)) = Len(slots) + Len(values)
                  /\ \A i \in 1..Len(slots) : Overwritten(slots, at, values)[i] = slots[i]
                  /\ \A i \in 1..Len(values) : Overwritten(slots, at, values)[Len(slots) + i] = values[i]
<1> DEFINE n == Max({Len(slots), at + Len(values)})
           Slot(i) == IF i \in (at + 1)..(at + Len(values)) THEN values[i - at]
                      ELSE IF i <= Len(slots) THEN slots[i] ELSE 0
<1>1. Len(slots) \in Nat /\ Len(values) \in Nat /\ at + Len(values) \in Nat
  OBVIOUS
<1>2. n = (IF Len(slots) > at + Len(values) THEN Len(slots) ELSE at + Len(values)) /\ n \in Nat
  <2>1. Max({Len(slots), at + Len(values)}) = IF Len(slots) > at + Len(values) THEN Len(slots) ELSE at + Len(values)
    <3> DEFINE a == Len(slots)
               b == at + Len(values)
    <3>1. a \in Int /\ b \in Int
      BY <1>1
    <3> HIDE DEF a, b
    <3>2. Max({a, b}) = IF a > b THEN a ELSE b
      BY <3>1, GreaterOf
    <3> QED
      BY <3>2 DEF a, b
  <2> QED
    BY <1>1, <2>1
<1> HIDE DEF n
<1>3. \A i \in 1..n : Slot(i) \in Int
  <2> SUFFICES ASSUME NEW i \in 1..n PROVE Slot(i) \in Int
    OBVIOUS
  <2>1. CASE i \in (at + 1)..(at + Len(values))
    <3>1. i - at \in 1..Len(values)
      BY <1>1, <2>1
    <3> QED
      BY <2>1, <3>1
  <2>2. CASE i \notin (at + 1)..(at + Len(values)) /\ i <= Len(slots)
    <3>1. i \in 1..Len(slots)
      BY <1>1, <1>2, <2>2
    <3> QED
      BY <2>2, <3>1
  <2> QED
    BY <2>1, <2>2
<1>4. Overwritten(slots, at, values) = [i \in 1..n |-> Slot(i)]
  BY DEF Overwritten, n
<1>5. Overwritten(slots, at, values) \in [1..n -> Int]
  BY <1>3, <1>4
<1>6. Overwritten(slots, at, values) \in Seq(Int) /\ Len(Overwritten(slots, at, values)) = n
  <2>1. n \in Nat
    BY <1>2
  <2> QED
    BY <1>5, <2>1
<1>7. ASSUME at = Len(slots) PROVE n = Len(slots) + Len(values)
  BY <1>1, <1>2, <1>7
<1>8. ASSUME at = Len(slots), NEW i \in 1..Len(slots) PROVE Overwritten(slots, at, values)[i] = slots[i]
  <2>1. i \in 1..n /\ i \notin (at + 1)..(at + Len(values)) /\ i <= Len(slots)
    BY <1>1, <1>7, <1>8
  <2> QED
    BY <1>4, <2>1
<1>9. ASSUME at = Len(slots), NEW i \in 1..Len(values)
      PROVE  Overwritten(slots, at, values)[Len(slots) + i] = values[i]
  <2> DEFINE k == Len(slots) + i
  <2>1. k \in 1..n /\ k \in (at + 1)..(at + Len(values)) /\ k - at = i
    BY <1>1, <1>7, <1>9
  <2> HIDE DEF k
  <2>2. Overwritten(slots, at, values)[k] = values[k - at]
    BY <1>4, <2>1
  <2> QED
    BY <2>1, <2>2 DEF k
<1> QED
  BY <1>6, <1>7, <1>8, <1>9

LEMMA DenseIs ==
    ASSUME IInv, file.kind = "dense"
    PROVE  /\ file \in DenseObject /\ fpc = "idle" /\ DOMAIN disk = {GetPath(file)}
           /\ disk[GetPath(file)] \in Seq(Int)
           /\ Ordinary => /\ file.max = Len(disk[GetPath(file)]) * file.dur
                          /\ \A p \in Range(written) : Holds(disk[GetPath(file)], p)
           /\ ~Started
<1>1. file \in DenseObject
  BY Kinds DEF IInv, OneFile
<1>2. ~Started
  BY <1>1, Kinds DEF IInv, OneTask
<1> QED
  BY <1>1, <1>2, Kinds DEF IInv, OneFile

LEMMA WriteDenseKeeps == ASSUME IInv, WriteDense PROVE IInv'
<1> DEFINE name == GetPath(file)
           slots == disk[name]
           values == Values(file, buffered)
           n == Len(slots)
           d == file.dur
<1>1. /\ Flushes /\ file.kind = "dense"
      /\ disk' = [disk EXCEPT ![name] = DenseWritten(file, @, buffered)]
      /\ file' = [file EXCEPT !.max = @ + Len(values) * file.dur]
      /\ tidy' = (tidy /\ Follows(file, buffered))
      /\ written' = written \o buffered /\ buffered' = <<>>
      /\ UNCHANGED <<fpc, moving, flushes, tasks, wpc, path, points, gone, raced>>
  BY DEF WriteDense, taskvars
<1>2. /\ file \in DenseObject /\ fpc = "idle" /\ DOMAIN disk = {name} /\ slots \in Seq(Int) /\ ~Started
      /\ Ordinary => file.max = n * d /\ \A p \in Range(written) : Holds(slots, p)
  BY <1>1, DenseIs
<1>3. buffered \in Seq(Point) /\ buffered # <<>> /\ written \in Seq(Point) /\ buffered[1].ts \in Nat
  <2>1. buffered \in Seq(Point) /\ buffered # <<>> /\ written \in Seq(Point)
    BY <1>1 DEF Flushes, IInv
  <2>2. 1 \in 1..Len(buffered)
    BY <2>1
  <2> QED
    BY <2>1, <2>2, PointAt
<1>4. file.min \in Nat /\ file.max \in Nat /\ d \in Nat \ {0} /\ n \in Nat /\ Len(buffered) \in Nat
  BY <1>2, <1>3 DEF DenseObject
<1>5. values \in Seq(Int) /\ Len(values) \in Nat
  BY <1>2, <1>3, ValuesAre
<1> DEFINE at == Offset(file, buffered)
<1>6. at \in Nat /\ (buffered[1].ts = file.max => at = file.max \div d)
  <2> DEFINE m == Min({buffered[1].ts, file.max})
  <2>1. m \in Nat /\ (buffered[1].ts = file.max => m = file.max)
    <3> DEFINE a == buffered[1].ts
    <3>1. a \in Nat
      BY <1>3
    <3> HIDE DEF a
    <3>2. Min({a, file.max}) = IF a > file.max THEN file.max ELSE a
      BY <1>4, <3>1, LesserOf
    <3>3. Min({a, file.max}) \in Nat /\ (a = file.max => Min({a, file.max}) = file.max)
      BY <1>4, <3>1, <3>2
    <3> QED
      BY <3>3 DEF a
  <2>2. at = m \div d
    BY DEF Offset
  <2> HIDE DEF m
  <2> QED
    BY <1>4, <2>1, <2>2, Quotient
<1> DEFINE over == Overwritten(slots, at, values)
<1>7. disk'[name] = over /\ DOMAIN disk' = {name}
  BY <1>1, <1>2 DEF DenseWritten
<1> HIDE DEF at, values, slots
<1>8. /\ over \in Seq(Int)
      /\ at = n => /\ Len(over) = n + Len(values)
                   /\ \A i \in 1..n : over[i] = slots[i]
                   /\ \A i \in 1..Len(values) : over[n + i] = values[i]
  BY <1>2, <1>5, <1>6, OverwrittenIs
<1> HIDE DEF over, n
<1> DEFINE HoldsNext(p) == LET k == (p.ts - file'.min) \div file'.dur + 1
                           IN  k \in DOMAIN over /\ over[k] = p.val
<1>9. /\ file' \in DenseObject /\ file'.min = file.min /\ file'.dur = file.dur /\ file'.kind = "dense"
      /\ file'.max = file.max + Len(values) * d
  <2>1. Len(values) * d \in Nat
    BY <1>4, <1>5, Quotient
  <2> DEFINE top == file.max + Len(values) * d
  <2>2. file' = [file EXCEPT !.max = top]
    BY <1>1 DEF values
  <2>3. top \in Nat
    BY <1>4, <2>1
  <2>4. file \in DenseObject /\ file.kind = "dense"
    BY <1>2, Kinds
  <2> HIDE DEF top
  <2>5. file' \in DenseObject /\ file'.min = file.min /\ file'.dur = file.dur /\ file'.kind = "dense" /\ file'.max = top
    BY <2>2, <2>3, <2>4 DEF DenseObject
  <2> QED
    BY <2>5 DEF top
<1>10. GetPath(file') = name
  BY <1>2, <1>9, PathOf
<1>11. /\ written' \in Seq(Point) /\ buffered' \in Seq(Point)
       /\ \A p \in Range(written') : p \in Range(written) \/ \E i \in 1..Len(buffered) : p = buffered[i]
  <2>1. written \o buffered \in Seq(Point) /\ Range(written \o buffered) = Range(written) \union Range(buffered)
    BY <1>3, JoinedIs
  <2>2. \A p \in Range(buffered) : \E i \in 1..Len(buffered) : p = buffered[i]
    BY <1>3, ElementsOf
  <2>3. <<>> \in Seq(Point)
    OBVIOUS
  <2> QED
    BY <1>1, <2>1, <2>2, <2>3
\* In a file from 0 on a write that follows the last one appends a value for each point.
<1>12. ASSUME Ordinary'
       PROVE  /\ file'.max = Len(over) * d
              /\ \A p \in Range(written') : HoldsNext(p)
  <2>1. Ordinary /\ Follows(file, buffered) /\ file.min = 0
    BY <1>1, <1>9, <1>12 DEF Ordinary
  <2>2. \A i \in 1..Len(buffered) : buffered[i].ts = file.max + (i - 1) * d
    BY <2>1 DEF Follows
  <2>3. buffered[1].ts = file.max
    <3>1. 1 \in 1..Len(buffered) /\ 0 * d = 0
      BY <1>3, <1>4, Quotient
    <3>2. buffered[1].ts = file.max + (1 - 1) * d
      BY <2>2, <3>1
    <3> QED
      BY <1>4, <3>1, <3>2
  <2>4. file.max = n * d
    BY <1>2, <2>1
  <2>5. at = n
    BY <1>4, <1>6, <2>3, <2>4, Quotient
  <2>6. Gap(file, buffered) = 0
    BY <1>4, <2>3 DEF Gap
  <2>7. Len(values) = Len(buffered) /\ \A i \in 1..Len(buffered) : values[i] = buffered[i].val
    <3>1. /\ Len(values) = Gap(file, buffered) + Len(buffered)
          /\ \A i \in 1..Len(buffered) : values[Gap(file, buffered) + i] = buffered[i].val
      BY <1>2, <1>3, ValuesAre DEF values
    <3>2. Len(values) = Len(buffered)
      BY <1>4, <2>6, <3>1
    <3>3. ASSUME NEW i \in 1..Len(buffered) PROVE values[i] = buffered[i].val
      <4>1. Gap(file, buffered) + i = i
        BY <1>4, <2>6
      <4> QED
        BY <3>1, <4>1
    <3> QED
      BY <3>2, <3>3
  <2>8. Len(over) = n + Len(values) /\ DOMAIN over = 1..(n + Len(values))
    BY <1>8, <2>5
  <2>9. file'.max = Len(over) * d
    <3>1. n * d + Len(values) * d = (n + Len(values)) * d
      BY <1>4, <1>5
    <3> QED
      BY <1>9, <2>4, <2>8, <3>1
  <2>10. ASSUME NEW p \in Range(written) PROVE HoldsNext(p)
    <3> DEFINE k == (p.ts - file.min) \div file.dur + 1
    <3>1. k \in DOMAIN slots /\ slots[k] = p.val
      BY <1>2, <2>1 DEF Holds
    <3> HIDE DEF k
    <3>2. k \in 1..n
      BY <1>2, <3>1 DEF n
    <3>3. k \in 1..(n + Len(values)) /\ over[k] = slots[k]
      BY <1>4, <1>5, <1>8, <2>5, <3>2
    <3>4. k = (p.ts - file'.min) \div file'.dur + 1
      BY <1>9 DEF k
    <3> QED
      BY <2>8, <3>1, <3>3, <3>4
  <2>11. ASSUME NEW i \in 1..Len(buffered), NEW p, p = buffered[i] PROVE HoldsNext(p)
    <3>1. i - 1 \in Nat /\ n + (i - 1) \in Nat /\ i \in Int
      BY <1>4
    <3>2. p.ts - file.min = (n + (i - 1)) * d
      <4>1. p.ts = n * d + (i - 1) * d
        BY <2>2, <2>4, <2>11
      <4>2. n * d + (i - 1) * d = (n + (i - 1)) * d
        BY <1>4, <3>1
      <4>3. (n + (i - 1)) * d \in Nat
        BY <1>4, <3>1, Quotient
      <4> QED
        BY <2>1, <4>1, <4>2, <4>3
    <3>3. (p.ts - file.min) \div d = n + (i - 1)
      BY <1>4, <3>1, <3>2, Quotient
    <3>4. (p.ts - file'.min) \div file'.dur + 1 = n + i
      BY <1>4, <1>9, <3>1, <3>3
    <3>5. n + i \in 1..(n + Len(values)) /\ over[n + i] = p.val
      <4>1. i \in 1..Len(values)
        BY <2>7
      <4>2. \A j \in 1..Len(values) : over[n + j] = values[j]
        BY <1>8, <2>5
      <4>3. over[n + i] = values[i] /\ values[i] = p.val
        BY <2>7, <2>11, <4>1, <4>2
      <4>4. n + i \in 1..(n + Len(values))
        BY <1>4, <1>5, <4>1
      <4> QED
        BY <4>3, <4>4
    <3> QED
      BY <2>8, <3>4, <3>5
  <2> QED
    BY <1>11, <2>9, <2>10, <2>11
<1>13. OneFile'
  <2>1. disk'[GetPath(file)'] = over /\ DOMAIN disk' = {GetPath(file)'}
    BY <1>7, <1>10 DEF GetPath
  <2>2. Ordinary' => file'.max = Len(over) * file'.dur /\ \A p \in Range(written') : Holds(disk[GetPath(file)], p)'
    BY <1>9, <1>12, <2>1 DEF Holds
  <2>3. over \in Seq(Int)
    BY <1>8
  <2> QED
    BY <1>1, <1>2, <1>9, <2>1, <2>2, <2>3 DEF OneFile
<1>14. OneTask'
  <2>1. ~Started'
    BY <1>1, <1>2 DEF Started
  <2> QED
    BY <1>1, <1>2, <2>1 DEF IInv, OneTask, Started
<1> QED
  BY <1>11, <1>13, <1>14 DEF IInv

----------------------------------------------------------------------------
(* Restarts.                                                                 *)

\* The listing finds the one file, by the name it had when the process ended, and a
\* constant file, whose name GetPath gives wrongly, nobody has written to.
LEMMA RestartKeeps == ASSUME IInv, Restart PROVE IInv'
<1>1. /\ file' \in Listings /\ (file' = NoFile => disk = <<>>)
      /\ buffered' = <<>> /\ fpc' = "idle" /\ tasks' = 0 /\ wpc' = "idle" /\ gone' = FALSE /\ raced' = FALSE
      /\ UNCHANGED <<disk, written, tidy>>
  BY DEF Restart
<1>2. buffered' \in Seq(Point) /\ written' \in Seq(Point)
  BY <1>1 DEF IInv
<1>3. OneTask'
  BY <1>1 DEF OneTask, Started
<1>4. CASE file' = NoFile
  <2>1. DOMAIN disk = {}
    BY <1>1, <1>4
  <2>2. written = <<>>
    BY <2>1 DEF IInv, OneFile
  <2>3. OneFile'
    BY <1>1, <1>4, <2>1, <2>2 DEF OneFile
  <2> QED
    BY <1>2, <1>3, <2>3 DEF IInv
<1>5. CASE \E n \in DOMAIN disk : file' = Object(n)
  <2>1. PICK n \in DOMAIN disk : file' = Object(n)
    BY <1>5
  <2>2. CASE file \in SparseName
    <3>1. n = Name /\ Name \in SparseName /\ DOMAIN disk = {Name} /\ disk[Name] = written
      BY <2>2, Kinds, SparseIs
    <3>2. file' = n /\ n \in SparseName
      BY <2>1, <3>1, Kinds DEF Object
    <3>3. Name' = n
      BY <1>1, <3>2, PathOf DEF Name
    <3> QED
      BY <1>1, <1>2, <1>3, <3>1, <3>2, <3>3, SparseHolds
  <2>3. CASE file \in DenseObject
    <3>1. /\ n = GetPath(file) /\ DOMAIN disk = {n} /\ disk[n] \in Seq(Int)
          /\ Ordinary => \A p \in Range(written) : Holds(disk[n], p)
      BY <2>3, Kinds, DenseIs
    <3>2. n = [kind |-> "dense", min |-> file.min, dur |-> file.dur]
      BY <2>3, <3>1, PathOf
    <3>3. /\ n.kind = "dense" /\ n.min = file.min /\ n.dur = file.dur
          /\ file.min \in Nat /\ file.dur \in Nat \ {0} /\ file.kind = "dense"
      BY <2>3, <3>2, Kinds DEF DenseObject
    <3> DEFINE end == file.min + Len(disk[n]) * file.dur
    <3>4. end \in Nat /\ Len(disk[n]) \in Nat
      BY <3>1, <3>3, Quotient
    <3>5. file' = [kind |-> "dense", min |-> file.min, dur |-> file.dur, max |-> end]
      BY <2>1, <3>3 DEF Object
    <3>6. file.min = 0 => end = Len(disk[n]) * file.dur
      BY <3>3, <3>4, Quotient
    <3> HIDE DEF end
    <3>7. /\ file' \in DenseObject /\ file'.min = file.min /\ file'.dur = file.dur /\ file'.max = end
          /\ file'.kind = "dense"
      BY <3>3, <3>4, <3>5 DEF DenseObject
    <3>8. GetPath(file)' = n
      BY <3>2, <3>7, PathOf DEF GetPath
    <3>9. Ordinary' => Ordinary /\ file.min = 0
      BY <1>1, <3>3, <3>7 DEF Ordinary
    <3>10. \A p : Holds(disk[n], p) => Holds(disk[n], p)'
      BY <1>1, <3>7 DEF Holds
    <3>11. Ordinary' => file'.max = Len(disk[n]) * file'.dur /\ \A p \in Range(written') : Holds(disk[n], p)'
      BY <1>1, <3>1, <3>6, <3>7, <3>9, <3>10
    <3>12. OneFile'
      BY <1>1, <3>1, <3>7, <3>8, <3>11 DEF OneFile
    <3> QED
      BY <1>2, <1>3, <3>12 DEF IInv
  <2>4. CASE file \in ConstantObject
    <3>1. n \in ConstantName /\ written = <<>> /\ DOMAIN disk \subseteq ConstantName
      BY <2>4, Kinds DEF IInv, OneFile
    <3>2. /\ n.min \in Nat /\ n.dur \in Nat \ {0} /\ n.val \in Nat /\ n.count \in Nat /\ n.kind = "constant"
      BY <3>1 DEF ConstantName
    <3>3. n.min + n.count * n.dur \in Nat
      BY <3>2, Quotient
    <3>4. file' = [kind |-> "constant", min |-> n.min, dur |-> n.dur, val |-> n.val, count |-> n.count,
                   max |-> n.min + n.count * n.dur]
      BY <2>1, <3>2 DEF Object
    <3>5. file' \in ConstantObject
      BY <3>2, <3>3, <3>4 DEF ConstantObject
    <3>6. OneFile'
      BY <1>1, <3>1, <3>5 DEF OneFile
    <3> QED
      BY <1>2, <1>3, <3>6 DEF IInv
  <2>5. CASE file = NoFile
    BY <2>5, Kinds DEF IInv, OneFile
  <2> QED
    BY <2>2, <2>3, <2>4, <2>5 DEF IInv, OneFile
<1> QED
  BY <1>1, <1>4, <1>5 DEF Listings

LEMMA StepKeeps == ASSUME IInv, [Next]_vars PROVE IInv'
<1>1. CASE \E b \in Batch : Arrive(b)
  BY <1>1, ArriveKeeps
<1>2. CASE Flusher
  <2>1. CASE WriteConstant
    BY <2>1, RestartKeeps DEF WriteConstant
  <2> QED
    BY <1>2, <2>1, WriteSparseKeeps, MoveToMaxKeeps, FileIsTooBigKeeps, MarkKeeps, MoveToMarkedKeeps,
       LeaveItKeeps, WriteDenseKeeps DEF Flusher
<1>3. CASE Task
  BY <1>3, HandleKeeps, TaskKeeps DEF Task
<1>4. CASE Restart
  BY <1>4, RestartKeeps
<1>5. CASE Chunk \/ \E r \in ReadRange, size \in BufferSize : BeginRead(r, size)
  BY <1>5, ReadKeeps
<1>6. CASE UNCHANGED vars
  BY <1>6, StillKeeps DEF vars, flushvars, taskvars, IInv
<1> QED
  BY <1>1, <1>2, <1>3, <1>4, <1>5, <1>6 DEF Next

LEMMA Invariance == Spec => []IInv
<1>1. Init => IInv
  BY InitInv
<1>2. IInv /\ [Next]_vars => IInv'
  BY StepKeeps
<1> QED
  BY <1>1, <1>2, PTL DEF Spec

\* Whatever is flushed stays in the one file of the directory, under the name it has or
\* is being renamed from, through conversions, marks and restarts; in a dense file from 0
\* on it stays in the slot of its time as long as each write follows on the last.
THEOREM NothingLost == Spec => []FileHoldsWritten
<1>1. IInv => FileHoldsWritten
  <2> SUFFICES ASSUME IInv PROVE FileHoldsWritten
    OBVIOUS
  <2>1. CASE file = NoFile
    BY <2>1, Kinds DEF IInv, OneFile, FileHoldsWritten
  <2>2. CASE file \in SparseName
    <3>1. file.kind = "sparse" /\ DOMAIN disk = {Name} /\ disk[Name] = written
      BY <2>2, Kinds, SparseIs
    <3> QED
      BY <3>1 DEF FileHoldsWritten, Name
  <2>3. CASE file \in DenseObject
    <3>1. /\ file.kind = "dense" /\ fpc = "idle"
          /\ Ordinary => \A p \in Range(written) : Holds(disk[GetPath(file)], p)
      BY <2>3, Kinds, DenseIs
    <3> QED
      BY <3>1 DEF FileHoldsWritten
  <2>4. CASE file \in ConstantObject
    BY <2>4, Kinds DEF IInv, OneFile, FileHoldsWritten
  <2> QED
    BY <2>1, <2>2, <2>3, <2>4 DEF IInv, OneFile
<1> QED
  BY <1>1, Invariance, PTL

\* The optimizer, which opens the file by a name it was told earlier, misses it only if
\* the flusher renamed it since, or was renaming it then: a file is marked before it can
\* be handed over twice, so no later task forgets that.
THEOREM MissesOnlyInRace == Spec => []FailsOnlyInRace
<1>1. IInv => FailsOnlyInRace
  BY DEF IInv, OneTask, FailsOnlyInRace
<1> QED
  BY <1>1, Invariance, PTL

----------------------------------------------------------------------------
(* Induction over the naturals, from the well-founded order of the finite    *)
(* sets, and what it says of a definition by recursion.                      *)

LEMMA NatMin == ASSUME NEW C \in SUBSET Nat, C # {}
                PROVE  \E n \in C : \A m \in C : n <= m
<1> DEFINE T == {0..n : n \in C}
           R == StrictSubsetOrdering(Nat)
           S == FiniteSubsetsOf(Nat)
<1>1. IsWellFoundedOn(R, S)
  BY FS_StrictSubsetOrderingWellFounded
<1>2. \A n \in Nat : 0..n \in S
  <2> TAKE n \in Nat
  <2>1. IsFiniteSet(0..n)
    BY FS_Interval
  <2> QED
    BY <2>1 DEF FiniteSubsetsOf
<1>3. T \subseteq S /\ T # {}
  BY <1>2
<1> HIDE DEF R, S
<1>4. \E x \in T : \A y \in T : ~(<<y, x>> \in R)
  <2> HIDE DEF T
  <2> QED
    BY <1>1, <1>3, WFMin
<1>5. PICK n \in C : \A y \in T : ~(<<y, 0..n>> \in R)
  BY <1>4
<1>6. \A m \in C : m < n => 0..m \in T /\ <<0..m, 0..n>> \in R
  <2> TAKE m \in C
  <2> SUFFICES ASSUME m < n PROVE 0..m \in T /\ <<0..m, 0..n>> \in R
    OBVIOUS
  <2>1. 0..m \subseteq 0..n /\ 0..m # 0..n
    OBVIOUS
  <2> QED
    BY <2>1 DEF R, StrictSubsetOrdering
<1>7. \A m \in C : ~(m < n)
  BY <1>5, <1>6
<1>8. \A m \in C : m \in Nat /\ n \in Nat
  OBVIOUS
<1> HIDE DEF T
<1> QED
  BY <1>7, <1>8

LEMMA Induction == ASSUME NEW I \in SUBSET Nat, 0 \in I, \A n \in Nat : n \in I => n + 1 \in I
                   PROVE  I = Nat
<1>1. SUFFICES ASSUME Nat \ I # {} PROVE FALSE
  OBVIOUS
<1>2. PICK n \in Nat \ I : \A m \in Nat \ I : n <= m
  BY <1>1, NatMin
<1>3. n # 0 /\ n - 1 \in Nat
  BY <1>2
<1> QED
  BY <1>2, <1>3

\* What a definition by recursion over an interval denotes: there is a function that
\* takes each value from the one before.
Computable(S, s, a, b, g) ==
    \E f \in [a..b -> S] : f[a] = s /\ \A k \in a..b : k # a => f[k] = g[k][f[k - 1]]

LEMMA Recursion ==
    ASSUME NEW S, NEW s \in S, NEW a \in Int, NEW b \in Int, a <= b,
           NEW g \in [Int -> [S -> S]]
    PROVE  Computable(S, s, a, b, g)
<1> DEFINE Is(f, m) == f[a] = s /\ \A k \in a..(a + m) : k # a => f[k] = g[k][f[k - 1]]
           I == {m \in Nat : \E f \in [a..(a + m) -> S] : Is(f, m)}
<1>1. 0 \in I
  <2> DEFINE f == [k \in a..(a + 0) |-> s]
  <2>1. f \in [a..(a + 0) -> S] /\ Is(f, 0)
    OBVIOUS
  <2>2. \E h \in [a..(a + 0) -> S] : Is(h, 0)
    <3> HIDE DEF f, Is
    <3> QED
      BY <2>1
  <2> QED
    BY <2>2
<1>2. ASSUME NEW m \in I PROVE m + 1 \in I
  <2>1. PICK f \in [a..(a + m) -> S] : Is(f, m)
    OBVIOUS
  <2> DEFINE h == [k \in a..(a + (m + 1)) |-> IF k = a + (m + 1) THEN g[k][f[k - 1]] ELSE f[k]]
  <2>2. f[a + m] \in S /\ g[a + (m + 1)] \in [S -> S] /\ (a + (m + 1)) - 1 = a + m
    OBVIOUS
  <2>3. h \in [a..(a + (m + 1)) -> S]
    BY <2>2
  <2>4. h[a] = s
    BY <2>1
  <2>5. ASSUME NEW k \in a..(a + (m + 1)), k # a
        PROVE  h[k] = g[k][h[k - 1]]
    <3>1. CASE k = a + (m + 1)
      <4>1. h[k - 1] = f[k - 1]
        BY <3>1
      <4> QED
        BY <3>1, <4>1
    <3>2. CASE k # a + (m + 1)
      <4>1. k \in a..(a + m) /\ h[k] = f[k] /\ h[k - 1] = f[k - 1]
        BY <2>5, <3>2
      <4>2. f[k] = g[k][f[k - 1]]
        BY <4>1, <2>1, <2>5
      <4> QED
        BY <4>1, <4>2
    <3> QED
      BY <3>1, <3>2
  <2>6. \E q \in [a..(a + (m + 1)) -> S] : Is(q, m + 1)
    <3>1. Is(h, m + 1)
      BY <2>4, <2>5
    <3> HIDE DEF h, Is
    <3> QED
      BY <2>3, <3>1
  <2> HIDE DEF h, Is
  <2> QED
    BY <2>6
<1>3. I = Nat
  <2>1. I \subseteq Nat
    OBVIOUS
  <2> HIDE DEF I
  <2> QED
    BY <1>1, <1>2, <2>1, Induction
<1>4. b - a \in Nat /\ a + (b - a) = b
  OBVIOUS
<1>5. \E f \in [a..(a + (b - a)) -> S] : Is(f, b - a)
  BY <1>3, <1>4
<1> QED
  BY <1>4, <1>5 DEF Computable

\* Two such functions are one.
LEMMA Agree == ASSUME NEW n \in Nat, NEW f, NEW h, h[0] = f[0],
                      \A k \in 1..n : h[k - 1] = f[k - 1] => h[k] = f[k]
               PROVE  \A k \in 0..n : h[k] = f[k]
<1> DEFINE I == {k \in Nat : k <= n => h[k] = f[k]}
<1>1. 0 \in I
  OBVIOUS
<1>2. ASSUME NEW k \in Nat, k \in I PROVE k + 1 \in I
  <2>1. CASE k + 1 <= n
    <3>1. h[k] = f[k] /\ k + 1 \in 1..n /\ (k + 1) - 1 = k
      BY <1>2, <2>1
    <3>2. h[k + 1] = f[k + 1]
      BY <3>1
    <3> QED
      BY <3>2
  <2>2. CASE ~(k + 1 <= n)
    BY <2>2
  <2> QED
    BY <2>1, <2>2
<1>3. I = Nat
  <2>1. I \in SUBSET Nat
    OBVIOUS
  <2> HIDE DEF I
  <2> QED
    BY <1>1, <1>2, <2>1, Induction
<1> QED
  BY <1>3

----------------------------------------------------------------------------
(* The greatest and the least of what is bounded.                            *)

LEMMA MinOf == ASSUME NEW S \in SUBSET Nat, S # {}
               PROVE  Min(S) \in S /\ \A x \in S : Min(S) <= x
<1>1. \E n \in S : \A m \in S : n <= m
  BY NatMin
<1> QED
  BY <1>1 DEF Min

LEMMA MaxOf == ASSUME NEW n \in Nat, NEW S \in SUBSET (0..n), S # {}
               PROVE  Max(S) \in S /\ \A x \in S : x <= Max(S)
<1> DEFINE C == {n - x : x \in S}
<1>1. C \in SUBSET Nat /\ C # {}
  OBVIOUS
<1>2. PICK c \in C : \A m \in C : c <= m
  <2> HIDE DEF C
  <2> QED
    BY <1>1, NatMin
<1>3. PICK x \in S : c = n - x
  OBVIOUS
<1>4. \A y \in S : y \in Int /\ x \in Int /\ n - x <= n - y
  BY <1>2, <1>3
<1>5. \A y \in S : x >= y /\ x \in S
  BY <1>4
<1> HIDE DEF C
<1>6. \E z \in S : \A y \in S : z >= y
  BY <1>5
<1>7. Max(S) \in S /\ \A y \in S : Max(S) >= y
  BY <1>6 DEF Max
<1> QED
  BY <1>7

----------------------------------------------------------------------------
(* What stable_sort makes of the points of a file or a buffer.               *)

\* The points in the order of their timestamps, and of their writing: where each comes
\* from.
Arranges(order, ps) ==
    /\ order \in [1..Len(ps) -> 1..Len(ps)]
    /\ \A i \in 1..Len(ps) : \E k \in 1..Len(ps) : order[k] = i
    /\ \A k, l \in 1..Len(ps) : k < l => Before(ps, order[k], order[l])

LEMMA BeforeIsOrder ==
    ASSUME NEW ps \in Seq(Point)
    PROVE  /\ \A i \in 1..Len(ps) : ~Before(ps, i, i)
           /\ \A i, j \in 1..Len(ps) : i # j => Before(ps, i, j) \/ Before(ps, j, i)
           /\ \A i, j, k \in 1..Len(ps) : Before(ps, i, j) /\ Before(ps, j, k) => Before(ps, i, k)
<1>1. \A i \in 1..Len(ps) : ps[i].ts \in Int /\ i \in Int
  BY PointAt
<1> QED
  BY <1>1 DEF Before

LEMMA PlaceIs ==
    ASSUME NEW ps \in Seq(Point)
    PROVE  /\ \A i \in 1..Len(ps) : Place(ps, i) \in 1..Len(ps)
           /\ \A i, j \in 1..Len(ps) : Before(ps, i, j) => Place(ps, i) < Place(ps, j)
<1> DEFINE N == 1..Len(ps)
           Prev(i) == {j \in N : Before(ps, j, i)}
<1>1. Len(ps) \in Nat /\ DOMAIN ps = N
  OBVIOUS
<1>2. IsFiniteSet(N) /\ Cardinality(N) = Len(ps)
  BY <1>1, FS_Interval, SMTT(30)
<1>3. \A i : Place(ps, i) = Cardinality(Prev(i)) + 1
  BY <1>1 DEF Place
<1>4. /\ \A i \in N : ~Before(ps, i, i)
      /\ \A i, j, k \in N : Before(ps, i, j) /\ Before(ps, j, k) => Before(ps, i, k)
  BY BeforeIsOrder
<1> HIDE DEF N
<1>5. \A i \in N : /\ IsFiniteSet(Prev(i)) /\ Cardinality(Prev(i)) \in Nat
                   /\ Cardinality(Prev(i)) < Len(ps)
  <2> TAKE i \in N
  <2>1. Prev(i) \subseteq N /\ Prev(i) # N
    BY <1>4
  <2> HIDE DEF Prev
  <2> QED
    BY <1>2, <2>1, FS_Subset, FS_CardinalityType
<1>6. ASSUME NEW i \in N, NEW j \in N, Before(ps, i, j)
      PROVE  Cardinality(Prev(i)) < Cardinality(Prev(j))
  <2>1. Prev(i) \subseteq Prev(j)
    BY <1>4, <1>6
  <2>2. i \in Prev(j) /\ i \notin Prev(i)
    BY <1>4, <1>6
  <2>3. Prev(i) \subseteq Prev(j) /\ Prev(i) # Prev(j) /\ IsFiniteSet(Prev(j))
    BY <1>5, <2>1, <2>2
  <2> HIDE DEF Prev
  <2> QED
    BY <1>5, <2>3, FS_Subset
<1> HIDE DEF Prev
<1>7. \A i \in N : Place(ps, i) \in 1..Len(ps)
  BY <1>1, <1>3, <1>5
<1>8. \A i, j \in N : Before(ps, i, j) => Place(ps, i) < Place(ps, j)
  BY <1>3, <1>5, <1>6
<1> QED
  BY <1>7, <1>8 DEF N

LEMMA PlacesTaken ==
    ASSUME NEW ps \in Seq(Point), NEW k \in 1..Len(ps)
    PROVE  \E i \in 1..Len(ps) : Place(ps, i) = k
<1> DEFINE N == 1..Len(ps)
           place == [i \in N |-> Place(ps, i)]
<1>1. Len(ps) \in Nat
  OBVIOUS
<1>2. place \in [N -> N]
  BY PlaceIs
<1>3. ASSUME NEW i \in N, NEW j \in N, i # j PROVE place[i] # place[j]
  <2>1. Before(ps, i, j) \/ Before(ps, j, i)
    BY <1>3, BeforeIsOrder
  <2>2. Place(ps, i) < Place(ps, j) \/ Place(ps, j) < Place(ps, i)
    BY <2>1, PlaceIs
  <2>3. Place(ps, i) \in Int /\ Place(ps, j) \in Int
    BY PlaceIs
  <2> QED
    BY <2>2, <2>3
<1>4. IsFiniteSet(N) /\ Cardinality(N) = Len(ps)
  BY <1>1, FS_Interval, SMTT(30)
<1>5. place \in Injection(N, N)
  <2> HIDE DEF place, N
  <2> QED
    BY <1>2, <1>3 DEF Injection, IsInjective
<1>6. place \in Surjection(N, N)
  <2> HIDE DEF place, N
  <2> QED
    BY <1>4, <1>5, FS_Injection
<1>7. \E i \in N : place[i] = k
  <2> HIDE DEF place
  <2> QED
    BY <1>6 DEF Surjection
<1> QED
  BY <1>7

LEMMA SortedIs ==
    ASSUME NEW ps \in Seq(Point)
    PROVE  /\ Sorted(ps) \in Seq(Point) /\ Len(Sorted(ps)) = Len(ps)
           /\ \E order : /\ Arranges(order, ps)
                         /\ \A k \in 1..Len(ps) : Sorted(ps)[k] = ps[order[k]]
<1> DEFINE N == 1..Len(ps)
           at(k) == CHOOSE i \in N : Place(ps, i) = k
           order == [k \in N |-> at(k)]
<1>1. Len(ps) \in Nat /\ DOMAIN ps = N
  OBVIOUS
<1>2. \A k \in N : at(k) \in N /\ Place(ps, at(k)) = k
  BY PlacesTaken
<1>3. Sorted(ps) = [k \in N |-> ps[at(k)]]
  BY <1>1 DEF Sorted
<1> HIDE DEF at
<1>4. \A k \in N : order[k] = at(k) /\ Sorted(ps)[k] = ps[order[k]] /\ ps[order[k]] \in Point
  BY <1>1, <1>2, <1>3
<1>5. Sorted(ps) \in [1..Len(ps) -> Point]
  BY <1>3, <1>4
<1>6. Sorted(ps) \in Seq(Point) /\ Len(Sorted(ps)) = Len(ps)
  BY <1>1, <1>5
<1>7. order \in [N -> N]
  BY <1>2
<1>8. ASSUME NEW i \in N PROVE \E k \in N : order[k] = i
  <2>1. Place(ps, i) \in N
    BY PlaceIs
  <2>2. at(Place(ps, i)) = i
    <3> DEFINE j == at(Place(ps, i))
    <3>1. j \in N /\ Place(ps, j) = Place(ps, i)
      BY <1>2, <2>1
    <3> HIDE DEF j
    <3>2. Place(ps, j) \in Int
      BY <3>1, PlaceIs
    <3>3. j # i => Place(ps, j) < Place(ps, i) \/ Place(ps, i) < Place(ps, j)
      BY <3>1, PlaceIs, BeforeIsOrder
    <3>4. j = i
      BY <3>1, <3>2, <3>3
    <3> QED
      BY <3>4 DEF j
  <2> QED
    BY <1>4, <2>1, <2>2
<1>9. ASSUME NEW k \in N, NEW l \in N, k < l PROVE Before(ps, order[k], order[l])
  <2>1. /\ order[k] \in N /\ order[l] \in N
        /\ Place(ps, order[k]) = k /\ Place(ps, order[l]) = l
    BY <1>2, <1>4
  <2>2. order[k] # order[l]
    BY <1>9, <2>1
  <2>3. Before(ps, order[l], order[k]) => l < k
    BY <2>1, PlaceIs
  <2>4. ~(l < k)
    BY <1>9
  <2> HIDE DEF order
  <2> QED
    BY <2>1, <2>2, <2>3, <2>4, BeforeIsOrder
<1>10. Arranges(order, ps)
  BY <1>7, <1>8, <1>9 DEF Arranges
<1>11. \A k \in 1..Len(ps) : Sorted(ps)[k] = ps[order[k]]
  BY <1>4
<1> HIDE DEF order
<1> QED
  BY <1>6, <1>10, <1>11

\* The points of a sorted sequence by their timestamps.
LEMMA SortedTimes ==
    ASSUME NEW ps \in Seq(Point)
    PROVE  /\ \A k, l \in 1..Len(ps) : k <= l => Sorted(ps)[k].ts <= Sorted(ps)[l].ts
           /\ Range(Sorted(ps)) = Range(ps)
<1>1. /\ Sorted(ps) \in Seq(Point) /\ Len(Sorted(ps)) = Len(ps)
      /\ \E order : /\ Arranges(order, ps)
                    /\ \A k \in 1..Len(ps) : Sorted(ps)[k] = ps[order[k]]
  BY SortedIs
<1>2. PICK order : /\ Arranges(order, ps)
                   /\ \A k \in 1..Len(ps) : Sorted(ps)[k] = ps[order[k]]
  BY <1>1
<1>3. \A k \in 1..Len(ps) : order[k] \in 1..Len(ps) /\ ps[order[k]].ts \in Int
  <2>1. \A k \in 1..Len(ps) : order[k] \in 1..Len(ps)
    BY <1>2 DEF Arranges
  <2>2. \A i \in 1..Len(ps) : ps[i].ts \in Int
    BY PointAt
  <2> QED
    BY <2>1, <2>2
<1>4. \A k, l \in 1..Len(ps) : k <= l => Sorted(ps)[k].ts <= Sorted(ps)[l].ts
  <2> TAKE k, l \in 1..Len(ps)
  <2>1. k < l => ps[order[k]].ts <= ps[order[l]].ts
    <3> SUFFICES ASSUME k < l PROVE ps[order[k]].ts <= ps[order[l]].ts
      OBVIOUS
    <3>1. Before(ps, order[k], order[l])
      BY <1>2 DEF Arranges
    <3> QED
      BY <1>3, <3>1 DEF Before
  <2>2. k = l \/ k < l \/ ~(k <= l)
    OBVIOUS
  <2> QED
    BY <1>2, <1>3, <2>1, <2>2
<1>5. /\ \A i \in 1..Len(ps) : ps[i] \in Range(ps) /\ Sorted(ps)[i] \in Range(Sorted(ps))
      /\ \A x \in Range(ps) : \E i \in 1..Len(ps) : x = ps[i]
      /\ \A x \in Range(Sorted(ps)) : \E i \in 1..Len(ps) : x = Sorted(ps)[i]
  BY <1>1, ElementsOf
<1>6. \A x \in Range(Sorted(ps)) : x \in Range(ps)
  BY <1>2, <1>3, <1>5
<1>7. \A x \in Range(ps) : x \in Range(Sorted(ps))
  <2> TAKE x \in Range(ps)
  <2>1. PICK i \in 1..Len(ps) : x = ps[i]
    BY <1>5
  <2>2. PICK k \in 1..Len(ps) : order[k] = i
    BY <1>2 DEF Arranges
  <2>3. x = Sorted(ps)[k]
    BY <1>2, <2>1, <2>2
  <2> QED
    BY <1>5, <2>3
<1> QED
  BY <1>4, <1>6, <1>7

----------------------------------------------------------------------------
(* One point after another into a ReadOperation.                             *)

Out == [ts : Int, dur : Nat, val : Int]
Op == [next : Int, end : Int, size : Nat, out : Seq(Out), thrown : BOOLEAN]

LEMMA OutOfPoint == ASSUME NEW p \in Point PROVE p \in Out /\ p.ts \in Nat /\ p.dur \in Nat
BY DEF Point, Out

LEMMA OpFields == ASSUME NEW o \in Op
                  PROVE  /\ o.next \in Int /\ o.end \in Int /\ o.size \in Nat /\ o.out \in Seq(Out)
                         /\ o.thrown \in BOOLEAN /\ Len(o.out) \in Nat
<1>1. o.next \in Int /\ o.end \in Int /\ o.size \in Nat /\ o.out \in Seq(Out) /\ o.thrown \in BOOLEAN
  BY DEF Op
<1> QED
  BY <1>1

LEMMA EndOf == ASSUME NEW p \in Out PROVE End(p) \in Int /\ p.ts \in Int /\ p.ts < End(p)
BY DEF End, Out

LEMMA PutIs ==
    ASSUME NEW o \in Op, NEW p \in Out
    PROVE  /\ Put(o, p) \in Op
           /\ Put(o, p).next = End(p) /\ Put(o, p).out = Append(o.out, p)
           /\ Put(o, p).end = o.end /\ Put(o, p).size = o.size /\ Put(o, p).thrown = o.thrown
<1>1. End(p) \in Int
  BY EndOf
<1>2. o.out \in Seq(Out)
  BY OpFields
<1>3. Append(o.out, p) \in Seq(Out)
  BY <1>2
<1> QED
  BY <1>1, <1>3 DEF Put, Op

\* The points are apart, and the last has ended by n.
Spread(s, n) == /\ s \in Seq(Out)
                /\ \A i \in 2..Len(s) : End(s[i - 1]) <= s[i].ts
                /\ s # <<>> => End(s[Len(s)]) <= n

LEMMA SpreadOn == ASSUME NEW s, NEW n \in Int, NEW m \in Int, Spread(s, n), n <= m PROVE Spread(s, m)
<1>1. s # <<>> => End(s[Len(s)]) \in Int
  <2> SUFFICES ASSUME s # <<>> PROVE End(s[Len(s)]) \in Int
    OBVIOUS
  <2>1. s[Len(s)] \in Out
    BY DEF Spread
  <2> QED
    BY <2>1, EndOf
<1> QED
  BY <1>1 DEF Spread

LEMMA SpreadMore ==
    ASSUME NEW s, NEW n \in Int, Spread(s, n), NEW p \in Out, n <= p.ts
    PROVE  Spread(Append(s, p), End(p))
<1> DEFINE q == Append(s, p)
<1>1. /\ s \in Seq(Out) /\ Len(s) \in Nat /\ q \in Seq(Out) /\ Len(q) = Len(s) + 1
      /\ \A i \in 1..Len(s) : q[i] = s[i] /\ s[i] \in Out
      /\ q[Len(s) + 1] = p
  BY DEF Spread
<1>2. End(p) \in Int /\ p.ts \in Int
  BY EndOf
<1>3. \A i \in 1..Len(s) : End(s[i]) \in Int /\ s[i].ts \in Int
  BY <1>1, EndOf
<1>4. ASSUME NEW i \in 2..Len(q) PROVE End(q[i - 1]) <= q[i].ts
  <2> HIDE DEF q
  <2>1. CASE i = Len(s) + 1
    <3>1. s # <<>> /\ Len(s) \in 1..Len(s) /\ i - 1 = Len(s)
      BY <1>1, <2>1
    <3>2. End(s[Len(s)]) <= n /\ End(s[Len(s)]) \in Int
      BY <1>3, <3>1 DEF Spread
    <3>3. q[i - 1] = s[Len(s)] /\ q[i] = p
      BY <1>1, <2>1, <3>1
    <3> QED
      BY <1>2, <3>2, <3>3
  <2>2. CASE i # Len(s) + 1
    <3>1. i \in 2..Len(s) /\ i \in 1..Len(s) /\ i - 1 \in 1..Len(s)
      BY <1>1, <2>2
    <3>2. q[i] = s[i] /\ q[i - 1] = s[i - 1]
      BY <1>1, <3>1
    <3> QED
      BY <3>1, <3>2 DEF Spread
  <2> QED
    BY <2>1, <2>2
<1>5. q # <<>> /\ q[Len(q)] = p
  BY <1>1
<1>6. End(q[Len(q)]) <= End(p)
  BY <1>2, <1>5
<1> HIDE DEF q
<1>7. Spread(q, End(p))
  BY <1>1, <1>4, <1>6 DEF Spread
<1> QED
  BY <1>7 DEF q

\* What has been delivered before, and what the operation holds.
Delivers(d, o) == d \in Seq(Out) /\ o \in Op /\ Spread(d \o o.out, o.next)

LEMMA PutDelivers ==
    ASSUME NEW d, NEW o, Delivers(d, o), NEW p \in Out, o.next <= p.ts
    PROVE  Delivers(d, Put(o, p))
<1>1. o.out \in Seq(Out) /\ d \in Seq(Out) /\ o.next \in Int /\ o \in Op
  BY OpFields DEF Delivers
<1>2. d \o Append(o.out, p) = Append(d \o o.out, p)
  BY <1>1
<1>3. /\ Put(o, p) \in Op
      /\ Put(o, p).next = End(p) /\ Put(o, p).out = Append(o.out, p)
  BY <1>1, PutIs
<1>4. Spread(Append(d \o o.out, p), End(p))
  BY <1>1, SpreadMore DEF Delivers
<1> QED
  BY <1>1, <1>2, <1>3, <1>4 DEF Delivers

\* SparseFile::Read takes of each timestamp a point of the file.
LEMMA VersionIs ==
    ASSUME NEW ps \in Seq(Point), NEW i \in 1..Len(ps)
    PROVE  \E j \in i..Len(ps) :
               /\ Version(ps, i) = ps[j] /\ ps[j].ts = ps[i].ts /\ ps[j].dur = ps[i].dur
               /\ \A k \in i..Len(ps) : ps[k].ts = ps[i].ts /\ ps[k].dur = ps[i].dur => k <= j
<1> DEFINE S == {j \in i..Len(ps) : ps[j].ts = ps[i].ts /\ ps[j].dur = ps[i].dur}
<1>1. Len(ps) \in Nat /\ S \in SUBSET (0..Len(ps)) /\ i \in S
  OBVIOUS
<1>2. Version(ps, i) = ps[Max(S)]
  BY DEF Version
<1>3. Max(S) \in S /\ \A x \in S : x <= Max(S)
  <2> HIDE DEF S
  <2> QED
    BY <1>1, MaxOf
<1> QED
  BY <1>2, <1>3

LEMMA VersionIsPoint ==
    ASSUME NEW ps \in Seq(Point), NEW i \in 1..Len(ps)
    PROVE  /\ Version(ps, i) \in Point /\ Version(ps, i) \in Out
           /\ Version(ps, i).ts = ps[i].ts /\ Version(ps, i).dur = ps[i].dur
           /\ Version(ps, i) \in Range(ps)
<1>1. PICK j \in i..Len(ps) : Version(ps, i) = ps[j] /\ ps[j].ts = ps[i].ts /\ ps[j].dur = ps[i].dur
  BY VersionIs
<1>2. j \in 1..Len(ps)
  OBVIOUS
<1>3. ps[j] \in Point /\ ps[j] \in Range(ps)
  BY <1>2, ElementsOf
<1> QED
  BY <1>1, <1>3, OutOfPoint

----------------------------------------------------------------------------
(* The loops of a read, step by step.                                        *)

State == [op : Op, goes : BOOLEAN]

LEMMA LookedIs ==
    ASSUME NEW ps \in Seq(Point), NEW r \in State, NEW i \in 1..Len(ps), NEW from
    PROVE  Looked(r, ps, i, from) \in State
<1>1. r.op \in Op /\ r.goes \in BOOLEAN
  BY DEF State
<1>2. Put(r.op, Version(ps, i)) \in Op
  BY <1>1, PutIs, VersionIsPoint
<1> QED
  BY <1>1, <1>2 DEF Looked, State

LEMMA PutValueIs ==
    ASSUME NEW o \in Op, NEW dur \in Nat, NEW v \in Int
    PROVE  PutValue(o, dur, v) \in Op /\ PutSlot(o, dur, v) \in Op
<1> DEFINE p == [ts |-> o.next, dur |-> dur, val |-> v]
<1>1. p \in Out
  BY OpFields DEF Out
<1>2. Put(o, p) \in Op
  BY <1>1, PutIs
<1> QED
  BY <1>2 DEF PutValue, PutSlot

LEMMA PutInRangeIs ==
    ASSUME NEW o \in Op, NEW p \in Point
    PROVE  PutInRange(o, p) \in Op
BY PutIs, OutOfPoint DEF PutInRange

\* SparseFile::Read goes by the points in order.
LEMMA SparseLoop ==
    ASSUME NEW o \in Op, NEW pts \in Seq(Point)
    PROVE  \E f \in [0..Len(Sorted(pts)) -> State] :
               /\ f[0] = [op |-> o, goes |-> TRUE]
               /\ \A k \in 1..Len(Sorted(pts)) : f[k] = Looked(f[k - 1], Sorted(pts), k, o.next)
               /\ SparseRead(o, pts) = f[Len(Sorted(pts))].op
<1> DEFINE n == Len(Sorted(pts))
           base == [op |-> o, goes |-> TRUE]
           Is(h) == h = [i \in 0..n |-> IF i = 0 THEN base ELSE Looked(h[i - 1], Sorted(pts), i, o.next)]
           g == [k \in Int |-> [r \in State |-> IF k \in 1..n THEN Looked(r, Sorted(pts), k, o.next) ELSE r]]
<1>1. n \in Nat
  BY SortedIs
<1>2. base \in State
  BY DEF State
<1>3. \A k \in 1..n : \A r \in State : Looked(r, Sorted(pts), k, o.next) \in State
  BY SortedIs, LookedIs
<1>4. SparseRead(o, pts) = (CHOOSE h : Is(h))[n].op
  BY DEF SparseRead
<1> HIDE DEF n, base
<1>5. g \in [Int -> [State -> State]]
  BY <1>3
<1>6. PICK f \in [0..n -> State] : f[0] = base /\ \A k \in 0..n : k # 0 => f[k] = g[k][f[k - 1]]
  <2> HIDE DEF g
  <2>0. 0 \in Int /\ n \in Int /\ 0 <= n
    BY <1>1
  <2>1. Computable(State, base, 0, n, g)
    BY <1>2, <1>5, <2>0, Recursion
  <2> QED
    BY <2>1 DEF Computable
<1>7. \A k \in 1..n : f[k] = Looked(f[k - 1], Sorted(pts), k, o.next)
  <2> TAKE k \in 1..n
  <2>1. k \in 0..n /\ k # 0 /\ k \in Int /\ k - 1 \in 0..n /\ f[k - 1] \in State
    BY <1>1, <1>6
  <2>2. f[k] = g[k][f[k - 1]]
    BY <1>6, <2>1
  <2> QED
    BY <2>1, <2>2
<1>8. Is(f)
  <2>1. ASSUME NEW k \in 0..n PROVE f[k] = IF k = 0 THEN base ELSE Looked(f[k - 1], Sorted(pts), k, o.next)
    <3>1. k = 0 \/ k \in 1..n
      BY <1>1
    <3> QED
      BY <1>6, <1>7, <3>1
  <2> QED
    BY <1>6, <2>1
<1>9. PICK h : Is(h) /\ SparseRead(o, pts) = h[n].op
  BY <1>4, <1>8
<1>10. h[0] = base /\ \A k \in 1..n : h[k] = Looked(h[k - 1], Sorted(pts), k, o.next)
  BY <1>1, <1>9
<1> HIDE DEF Is, g
<1>11. \A k \in 0..n : h[k] = f[k]
  <2>1. \A k \in 1..n : h[k - 1] = f[k - 1] => h[k] = f[k]
    BY <1>7, <1>10
  <2>2. h[0] = f[0]
    BY <1>6, <1>10
  <2> QED
    BY <1>1, <2>1, <2>2, Agree, ZenonT(60)
<1>12. h[n] = f[n]
  BY <1>1, <1>11
<1> QED
  BY <1>6, <1>7, <1>9, <1>12 DEF n, base

\* Series::Read goes by the points of the buffer in order.
LEMMA BufferLoop ==
    ASSUME NEW o \in Op, NEW pts \in Seq(Point)
    PROVE  \E f \in [0..Len(Sorted(pts)) -> Op] :
               /\ f[0] = o
               /\ \A k \in 1..Len(Sorted(pts)) : f[k] = PutInRange(f[k - 1], Sorted(pts)[k])
               /\ BufferRead(o, pts) = f[Len(Sorted(pts))]
<1> DEFINE n == Len(Sorted(pts))
           base == o
           Is(h) == h = [i \in 0..n |-> IF i = 0 THEN base ELSE PutInRange(h[i - 1], Sorted(pts)[i])]
           g == [k \in Int |-> [r \in Op |-> IF k \in 1..n THEN PutInRange(r, Sorted(pts)[k]) ELSE r]]
<1>1. n \in Nat
  BY SortedIs
<1>2. base \in Op
  OBVIOUS
<1>3. \A k \in 1..n : \A r \in Op : PutInRange(r, Sorted(pts)[k]) \in Op
  <2>1. \A k \in 1..Len(Sorted(pts)) : Sorted(pts)[k] \in Point
    BY SortedIs, PointAt
  <2> QED
    BY <2>1, PutInRangeIs
<1>4. BufferRead(o, pts) = (CHOOSE h : Is(h))[n]
  BY DEF BufferRead
<1> HIDE DEF n, base
<1>5. g \in [Int -> [Op -> Op]]
  BY <1>3
<1>6. PICK f \in [0..n -> Op] : f[0] = base /\ \A k \in 0..n : k # 0 => f[k] = g[k][f[k - 1]]
  <2> HIDE DEF g
  <2>0. 0 \in Int /\ n \in Int /\ 0 <= n
    BY <1>1
  <2>1. Computable(Op, base, 0, n, g)
    BY <1>2, <1>5, <2>0, Recursion
  <2> QED
    BY <2>1 DEF Computable
<1>7. \A k \in 1..n : f[k] = PutInRange(f[k - 1], Sorted(pts)[k])
  <2> TAKE k \in 1..n
  <2>1. k \in 0..n /\ k # 0 /\ k \in Int /\ k - 1 \in 0..n /\ f[k - 1] \in Op
    BY <1>1, <1>6
  <2>2. f[k] = g[k][f[k - 1]]
    BY <1>6, <2>1
  <2> QED
    BY <2>1, <2>2
<1>8. Is(f)
  <2>1. ASSUME NEW k \in 0..n PROVE f[k] = IF k = 0 THEN base ELSE PutInRange(f[k - 1], Sorted(pts)[k])
    <3>1. k = 0 \/ k \in 1..n
      BY <1>1
    <3> QED
      BY <1>6, <1>7, <3>1
  <2> QED
    BY <1>6, <2>1
<1>9. PICK h : Is(h) /\ BufferRead(o, pts) = h[n]
  BY <1>4, <1>8
<1>10. h[0] = base /\ \A k \in 1..n : h[k] = PutInRange(h[k - 1], Sorted(pts)[k])
  BY <1>1, <1>9
<1> HIDE DEF Is, g
<1>11. \A k \in 0..n : h[k] = f[k]
  <2>1. \A k \in 1..n : h[k - 1] = f[k - 1] => h[k] = f[k]
    BY <1>7, <1>10
  <2>2. h[0] = f[0]
    BY <1>6, <1>10
  <2> QED
    BY <1>1, <2>1, <2>2, Agree, ZenonT(60)
<1>12. h[n] = f[n]
  BY <1>1, <1>11
<1> QED
  BY <1>6, <1>7, <1>9, <1>12 DEF n, base

\* DenseFile::Read goes by the slots it has read.
LEMMA SlotLoop ==
    ASSUME NEW o \in Op, NEW values \in Seq(Int), NEW dur \in Nat
    PROVE  \E f \in [0..Len(values) -> Op] :
               /\ f[0] = o
               /\ \A k \in 1..Len(values) : f[k] = PutSlot(f[k - 1], dur, values[k])
               /\ AfterSlots(o, dur, values) = f[Len(values)]
<1> DEFINE n == Len(values)
           base == o
           Is(h) == h = [i \in 0..n |-> IF i = 0 THEN base ELSE PutSlot(h[i - 1], dur, values[i])]
           g == [k \in Int |-> [r \in Op |-> IF k \in 1..n THEN PutSlot(r, dur, values[k]) ELSE r]]
<1>1. n \in Nat
  BY LenProperties
<1>2. base \in Op
  OBVIOUS
<1>3. \A k \in 1..n : \A r \in Op : PutSlot(r, dur, values[k]) \in Op
  <2>1. \A k \in 1..Len(values) : values[k] \in Int
    OBVIOUS
  <2> QED
    BY <2>1, PutValueIs
<1>4. AfterSlots(o, dur, values) = (CHOOSE h : Is(h))[n]
  BY DEF AfterSlots
<1> HIDE DEF n, base
<1>5. g \in [Int -> [Op -> Op]]
  BY <1>3
<1>6. PICK f \in [0..n -> Op] : f[0] = base /\ \A k \in 0..n : k # 0 => f[k] = g[k][f[k - 1]]
  <2> HIDE DEF g
  <2>0. 0 \in Int /\ n \in Int /\ 0 <= n
    BY <1>1
  <2>1. Computable(Op, base, 0, n, g)
    BY <1>2, <1>5, <2>0, Recursion
  <2> QED
    BY <2>1 DEF Computable
<1>7. \A k \in 1..n : f[k] = PutSlot(f[k - 1], dur, values[k])
  <2> TAKE k \in 1..n
  <2>1. k \in 0..n /\ k # 0 /\ k \in Int /\ k - 1 \in 0..n /\ f[k - 1] \in Op
    BY <1>1, <1>6
  <2>2. f[k] = g[k][f[k - 1]]
    BY <1>6, <2>1
  <2> QED
    BY <2>1, <2>2
<1>8. Is(f)
  <2>1. ASSUME NEW k \in 0..n PROVE f[k] = IF k = 0 THEN base ELSE PutSlot(f[k - 1], dur, values[k])
    <3>1. k = 0 \/ k \in 1..n
      BY <1>1
    <3> QED
      BY <1>6, <1>7, <3>1
  <2> QED
    BY <1>6, <2>1
<1>9. PICK h : Is(h) /\ AfterSlots(o, dur, values) = h[n]
  BY <1>4, <1>8
<1>10. h[0] = base /\ \A k \in 1..n : h[k] = PutSlot(h[k - 1], dur, values[k])
  BY <1>1, <1>9
<1> HIDE DEF Is, g
<1>11. \A k \in 0..n : h[k] = f[k]
  <2>1. \A k \in 1..n : h[k - 1] = f[k - 1] => h[k] = f[k]
    BY <1>7, <1>10
  <2>2. h[0] = f[0]
    BY <1>6, <1>10
  <2> QED
    BY <1>1, <2>1, <2>2, Agree, ZenonT(60)
<1>12. h[n] = f[n]
  BY <1>1, <1>11
<1> QED
  BY <1>6, <1>7, <1>9, <1>12 DEF n, base

\* ConstantFile::Read goes on for as many values as it wants.
ValueSteps(o, dur, v, count) == \E f \in [0..count -> Op] :
    /\ f[0] = o
    /\ \A k \in 1..count : f[k] = PutValue(f[k - 1], dur, v)
    /\ AfterValues(o, dur, v, count) = f[count]
LEMMA ValueLoop ==
    ASSUME NEW o \in Op, NEW count \in Nat, NEW dur \in Nat, NEW v \in Int
    PROVE  ValueSteps(o, dur, v, count)
<1> DEFINE n == count
           base == o
           Is(h) == h = [i \in 0..n |-> IF i = 0 THEN base ELSE PutValue(h[i - 1], dur, v)]
           g == [k \in Int |-> [r \in Op |-> IF k \in 1..n THEN PutValue(r, dur, v) ELSE r]]
<1>1. n \in Nat
  BY LenProperties
<1>2. base \in Op
  OBVIOUS
<1>3. \A k \in 1..n : \A r \in Op : PutValue(r, dur, v) \in Op
  BY PutValueIs
<1>4. AfterValues(o, dur, v, count) = (CHOOSE h : Is(h))[n]
  BY DEF AfterValues
<1> HIDE DEF n, base, ValueSteps
<1>5. g \in [Int -> [Op -> Op]]
  BY <1>3
<1>6. PICK f \in [0..n -> Op] : f[0] = base /\ \A k \in 0..n : k # 0 => f[k] = g[k][f[k - 1]]
  <2> HIDE DEF g
  <2>0. 0 \in Int /\ n \in Int /\ 0 <= n
    BY <1>1
  <2>1. Computable(Op, base, 0, n, g)
    BY <1>2, <1>5, <2>0, Recursion
  <2> QED
    BY <2>1 DEF Computable
<1>7. \A k \in 1..n : f[k] = PutValue(f[k - 1], dur, v)
  <2> TAKE k \in 1..n
  <2>1. k \in 0..n /\ k # 0 /\ k \in Int /\ k - 1 \in 0..n /\ f[k - 1] \in Op
    BY <1>1, <1>6
  <2>2. f[k] = g[k][f[k - 1]]
    BY <1>6, <2>1
  <2> QED
    BY <2>1, <2>2
<1>8. Is(f)
  <2>1. ASSUME NEW k \in 0..n PROVE f[k] = IF k = 0 THEN base ELSE PutValue(f[k - 1], dur, v)
    <3>1. k = 0 \/ k \in 1..n
      BY <1>1
    <3> QED
      BY <1>6, <1>7, <3>1
  <2> QED
    BY <1>6, <2>1
<1>9. PICK h : Is(h) /\ AfterValues(o, dur, v, count) = h[n]
  BY <1>4, <1>8
<1>10. h[0] = base /\ \A k \in 1..n : h[k] = PutValue(h[k - 1], dur, v)
  BY <1>1, <1>9
<1> HIDE DEF Is, g
<1>11. \A k \in 0..n : h[k] = f[k]
  <2>1. \A k \in 1..n : h[k - 1] = f[k - 1] => h[k] = f[k]
    BY <1>7, <1>10
  <2>2. h[0] = f[0]
    BY <1>6, <1>10
  <2> QED
    BY <1>1, <2>1, <2>2, Agree, ZenonT(60)
<1>12. h[n] = f[n]
  BY <1>1, <1>11
<1> QED
  BY <1>6, <1>7, <1>9, <1>12 DEF n, base, ValueSteps

----------------------------------------------------------------------------
(* What a read delivers is apart: each loop goes on from the end of what it  *)
(* took last.                                                                *)

\* A part of a read leaves what was asked for, and goes on in time.
Kept(o, q) == /\ o \in Op /\ q \in Op
              /\ q.end = o.end /\ q.size = o.size /\ q.thrown = o.thrown /\ o.next <= q.next

LEMMA KeptOn == ASSUME NEW o, NEW q, NEW r, Kept(o, q), Kept(q, r) PROVE Kept(o, r)
<1>1. o.next \in Int /\ q.next \in Int /\ r.next \in Int
  BY OpFields DEF Kept
<1> QED
  BY <1>1 DEF Kept

LEMMA KeptStill == ASSUME NEW o \in Op PROVE Kept(o, o)
BY OpFields DEF Kept

LEMMA PutKept == ASSUME NEW o \in Op, NEW p \in Out, o.next <= p.ts PROVE Kept(o, Put(o, p))
<1>1. o.next \in Int /\ p.ts \in Int /\ End(p) \in Int /\ p.ts < End(p)
  BY OpFields, EndOf
<1>2. o.next <= End(p)
  BY <1>1
<1> QED
  BY <1>2, PutIs DEF Kept

LEMMA LookedDelivers ==
    ASSUME NEW d, NEW r \in State, Delivers(d, r.op), NEW ps \in Seq(Point), NEW i \in 1..Len(ps), NEW from
    PROVE  Delivers(d, Looked(r, ps, i, from).op) /\ Kept(r.op, Looked(r, ps, i, from).op)
<1> DEFINE v == Version(ps, i)
<1>1. r.op \in Op /\ r = [op |-> r.op, goes |-> r.goes]
  BY DEF State
<1>2. v \in Out /\ v.ts = ps[i].ts
  BY VersionIsPoint
<1>3. Kept(r.op, r.op)
  BY <1>1, KeptStill
<1> HIDE DEF v
<1>4. CASE ps[i].ts < from \/ (i > 1 /\ ps[i - 1].ts = ps[i].ts)
  BY <1>3, <1>4 DEF Looked
<1>5. CASE ~(ps[i].ts < from \/ (i > 1 /\ ps[i - 1].ts = ps[i].ts)) /\ r.goes /\ Goes(r.op, ps[i])
  <2>1. Looked(r, ps, i, from).op = Put(r.op, v)
    BY <1>1, <1>5 DEF Looked, v
  <2>2. r.op.next <= v.ts
    <3>1. r.op.next \in Int /\ v.ts \in Int
      BY <1>1, <1>2, OpFields, EndOf
    <3> QED
      BY <1>2, <1>5, <3>1 DEF Goes
  <2> QED
    BY <1>1, <1>2, <2>1, <2>2, PutDelivers, PutKept
<1>6. CASE ~(ps[i].ts < from \/ (i > 1 /\ ps[i - 1].ts = ps[i].ts)) /\ ~(r.goes /\ Goes(r.op, ps[i]))
  <2>1. Looked(r, ps, i, from).op = r.op
    BY <1>1, <1>6 DEF Looked
  <2> QED
    BY <1>3, <2>1
<1> QED
  BY <1>4, <1>5, <1>6

LEMMA SparseDelivers ==
    ASSUME NEW d, NEW o, Delivers(d, o), NEW pts \in Seq(Point)
    PROVE  Delivers(d, SparseRead(o, pts)) /\ Kept(o, SparseRead(o, pts))
<1> DEFINE n == Len(Sorted(pts))
<1>1. o \in Op /\ n \in Nat /\ Sorted(pts) \in Seq(Point)
  BY SortedIs DEF Delivers
<1>2. PICK f \in [0..n -> State] :
               /\ f[0] = [op |-> o, goes |-> TRUE]
               /\ \A k \in 1..n : f[k] = Looked(f[k - 1], Sorted(pts), k, o.next)
               /\ SparseRead(o, pts) = f[n].op
  BY <1>1, SparseLoop
<1> DEFINE I == {k \in Nat : k <= n => Delivers(d, f[k].op) /\ Kept(o, f[k].op)}
<1> HIDE DEF n
<1>3. 0 \in I
  <2>1. f[0].op = o /\ Kept(o, o)
    BY <1>1, <1>2, KeptStill
  <2> QED
    BY <2>1
<1>4. ASSUME NEW k \in Nat, k \in I PROVE k + 1 \in I
  <2> SUFFICES ASSUME k + 1 <= n PROVE Delivers(d, f[k + 1].op) /\ Kept(o, f[k + 1].op)
    OBVIOUS
  <2>1. k \in 0..n /\ k + 1 \in 1..n /\ (k + 1) - 1 = k
    BY <1>1
  <2>2. Delivers(d, f[k].op) /\ Kept(o, f[k].op) /\ f[k] \in State
    BY <1>2, <1>4, <2>1
  <2>3. f[k + 1] = Looked(f[k], Sorted(pts), k + 1, o.next)
    BY <1>2, <2>1
  <2>4. Delivers(d, f[k + 1].op) /\ Kept(f[k].op, f[k + 1].op)
    BY <1>1, <2>1, <2>2, <2>3, LookedDelivers DEF n
  <2> QED
    BY <2>2, <2>4, KeptOn
<1>5. I = Nat
  <2>1. I \in SUBSET Nat
    OBVIOUS
  <2> HIDE DEF I
  <2> QED
    BY <1>3, <1>4, <2>1, Induction
<1> QED
  BY <1>1, <1>2, <1>5

LEMMA BufferDelivers ==
    ASSUME NEW d, NEW o, Delivers(d, o), NEW pts \in Seq(Point)
    PROVE  Delivers(d, BufferRead(o, pts)) /\ Kept(o, BufferRead(o, pts))
<1> DEFINE n == Len(Sorted(pts))
<1>1. o \in Op /\ n \in Nat /\ Sorted(pts) \in Seq(Point)
  BY SortedIs DEF Delivers
<1>2. PICK f \in [0..n -> Op] :
               /\ f[0] = o
               /\ \A k \in 1..n : f[k] = PutInRange(f[k - 1], Sorted(pts)[k])
               /\ BufferRead(o, pts) = f[n]
  BY <1>1, BufferLoop
<1> DEFINE I == {k \in Nat : k <= n => Delivers(d, f[k]) /\ Kept(o, f[k])}
<1> HIDE DEF n
<1>3. 0 \in I
  BY <1>1, <1>2, KeptStill
<1>4. ASSUME NEW k \in Nat, k \in I PROVE k + 1 \in I
  <2> SUFFICES ASSUME k + 1 <= n PROVE Delivers(d, f[k + 1]) /\ Kept(o, f[k + 1])
    OBVIOUS
  <2> DEFINE p == Sorted(pts)[k + 1]
  <2>1. k \in 0..n /\ k + 1 \in 1..n /\ (k + 1) - 1 = k
    BY <1>1
  <2>2. Delivers(d, f[k]) /\ Kept(o, f[k]) /\ f[k] \in Op
    BY <1>2, <1>4, <2>1
  <2>3. f[k + 1] = PutInRange(f[k], p)
    BY <1>2, <2>1
  <2>4. p \in Out /\ f[k].next \in Int /\ p.ts \in Int
    <3>1. p \in Point
      BY <1>1, <2>1, PointAt DEF n
    <3>2. f[k].next \in Int
      BY <2>2, OpFields
    <3> HIDE DEF p
    <3> QED
      BY <3>1, <3>2, OutOfPoint, EndOf
  <2> HIDE DEF p
  <2>5. CASE p.ts >= f[k].next /\ f[k + 1] = Put(f[k], p)
    <3>1. f[k].next <= p.ts
      BY <2>4, <2>5
    <3>2. Delivers(d, f[k + 1]) /\ Kept(f[k], f[k + 1])
      BY <2>2, <2>4, <2>5, <3>1, PutDelivers, PutKept
    <3> QED
      BY <2>2, <3>2, KeptOn
  <2>6. CASE f[k + 1] = f[k]
    BY <2>2, <2>6
  <2> QED
    BY <2>3, <2>5, <2>6 DEF PutInRange
<1>5. I = Nat
  <2>1. I \in SUBSET Nat
    OBVIOUS
  <2> HIDE DEF I
  <2> QED
    BY <1>3, <1>4, <2>1, Induction
<1>6. Delivers(d, f[n]) /\ Kept(o, f[n])
  <2>1. n \in I /\ n <= n
    BY <1>1, <1>5
  <2>2. \A k \in I : k <= n => Delivers(d, f[k]) /\ Kept(o, f[k])
    OBVIOUS
  <2> HIDE DEF I
  <2> QED
    BY <2>1, <2>2
<1> QED
  BY <1>2, <1>6

LEMMA Division == ASSUME NEW n \in Int, NEW d \in Nat \ {0}
                  PROVE  /\ n \div d \in Int /\ (n % d) \in Int /\ (n % d) >= 0 /\ (n % d) < d
                         /\ n = d * (n \div d) + (n % d)
<1>1. n \div d \in Int /\ (n % d) \in Int /\ (n % d) >= 0 /\ (n % d) < d
  OBVIOUS
<1>2. n = d * (n \div d) + (n % d)
  OBVIOUS
<1> QED
  BY <1>1, <1>2

LEMMA Multiple == ASSUME NEW q \in Int, NEW d \in Nat \ {0}
                  PROVE  /\ q * d \in Int /\ d * q = q * d /\ (q + 1) * d = q * d + d
                         /\ (q * d) % d = 0 /\ (q * d) \div d = q
<1>1. q * d \in Int /\ d * q = q * d /\ (q + 1) * d = q * d + d
  OBVIOUS
<1>2. (q * d) % d = 0
  OBVIOUS
<1>3. (q * d) \div d = q
  OBVIOUS
<1> QED
  BY <1>1, <1>2, <1>3

LEMMA RoundUpIs ==
    ASSUME NEW o \in Op, NEW dur \in Nat \ {0}
    PROVE  /\ Kept(o, RoundUp(o, dur)) /\ RoundUp(o, dur).out = o.out
           /\ RoundUp(o, dur).next % dur = 0 /\ RoundUp(o, dur).next < o.next + dur
<1> DEFINE n == o.next
           q == n \div dur
           r == n % dur
           m == q * dur
<1>1. n \in Int /\ dur \in Int /\ dur > 0
  BY OpFields
<1>2. q \in Int /\ r \in Int /\ r >= 0 /\ r < dur /\ n = dur * q + r
  BY <1>1, Division
<1> HIDE DEF q, r, n
<1>3. m \in Int /\ dur * q = m /\ (q + 1) * dur = m + dur /\ q + 1 \in Int
  BY <1>2, Multiple
<1> HIDE DEF m
<1>4. (q + 1) * dur \in Int /\ n < (q + 1) * dur /\ (r # 0 => (q + 1) * dur < n + dur)
  BY <1>1, <1>2, <1>3
<1>5. ((q + 1) * dur) % dur = 0
  BY <1>3, Multiple
<1> USE DEF r, n
<1>7. CASE n % dur = 0
  <2>1. RoundUp(o, dur) = o
    BY <1>7 DEF RoundUp
  <2> QED
    BY <1>1, <1>7, <2>1, KeptStill
<1>8. CASE n % dur # 0
  <2>1. RoundUp(o, dur) = [o EXCEPT !.next = (q + 1) * dur]
    BY <1>8 DEF RoundUp, q
  <2>2. RoundUp(o, dur) \in Op /\ RoundUp(o, dur).next = (q + 1) * dur /\ RoundUp(o, dur).out = o.out
        /\ RoundUp(o, dur).end = o.end /\ RoundUp(o, dur).size = o.size /\ RoundUp(o, dur).thrown = o.thrown
    BY <1>4, <2>1 DEF Op
  <2> QED
    BY <1>1, <1>4, <1>5, <1>8, <2>2 DEF Kept
<1> QED
  BY <1>7, <1>8

LEMMA RoundUpDelivers ==
    ASSUME NEW d, NEW o, Delivers(d, o), NEW dur \in Nat \ {0}
    PROVE  Delivers(d, RoundUp(o, dur)) /\ Kept(o, RoundUp(o, dur))
<1>1. o \in Op /\ o.next \in Int
  BY OpFields DEF Delivers
<1>2. Kept(o, RoundUp(o, dur)) /\ RoundUp(o, dur).out = o.out
  BY <1>1, RoundUpIs
<1>3. RoundUp(o, dur).next \in Int /\ o.next <= RoundUp(o, dur).next /\ RoundUp(o, dur) \in Op
  BY <1>2, OpFields DEF Kept
<1>4. Spread(d \o o.out, RoundUp(o, dur).next)
  BY <1>1, <1>3, SpreadOn DEF Delivers
<1> QED
  BY <1>2, <1>3, <1>4 DEF Delivers

LEMMA PutValueDelivers ==
    ASSUME NEW d, NEW o, Delivers(d, o), NEW dur \in Nat, NEW v \in Int
    PROVE  /\ Delivers(d, PutValue(o, dur, v)) /\ Kept(o, PutValue(o, dur, v))
           /\ Delivers(d, PutSlot(o, dur, v)) /\ Kept(o, PutSlot(o, dur, v))
<1> DEFINE p == [ts |-> o.next, dur |-> dur, val |-> v]
<1>1. o \in Op /\ o.next \in Int
  BY OpFields DEF Delivers
<1>2. p \in Out /\ o.next <= p.ts /\ PutValue(o, dur, v) = Put(o, p)
  BY <1>1 DEF Out, PutValue
<1> HIDE DEF p
<1>3. Delivers(d, Put(o, p)) /\ Kept(o, Put(o, p)) /\ Kept(o, o)
  BY <1>1, <1>2, PutDelivers, PutKept, KeptStill
<1> QED
  BY <1>2, <1>3 DEF PutSlot

LEMMA SlotsDeliver ==
    ASSUME NEW d, NEW o, Delivers(d, o), NEW values \in Seq(Int), NEW dur \in Nat
    PROVE  Delivers(d, AfterSlots(o, dur, values)) /\ Kept(o, AfterSlots(o, dur, values))
<1> DEFINE n == Len(values)
<1>1. o \in Op /\ n \in Nat
  BY DEF Delivers
<1>2. PICK f \in [0..n -> Op] :
               /\ f[0] = o
               /\ \A k \in 1..n : f[k] = PutSlot(f[k - 1], dur, values[k])
               /\ AfterSlots(o, dur, values) = f[n]
  BY <1>1, SlotLoop
<1> DEFINE I == {k \in Nat : k <= n => Delivers(d, f[k]) /\ Kept(o, f[k])}
<1>3. \A k \in 1..n : values[k] \in Int
  OBVIOUS
<1> HIDE DEF n
<1>4. 0 \in I
  BY <1>1, <1>2, KeptStill
<1>5. ASSUME NEW k \in Nat, k \in I PROVE k + 1 \in I
  <2> SUFFICES ASSUME k + 1 <= n PROVE Delivers(d, f[k + 1]) /\ Kept(o, f[k + 1])
    OBVIOUS
  <2>1. k \in 0..n /\ k + 1 \in 1..n /\ (k + 1) - 1 = k
    BY <1>1
  <2>2. Delivers(d, f[k]) /\ Kept(o, f[k]) /\ f[k + 1] = PutSlot(f[k], dur, values[k + 1])
    BY <1>2, <1>5, <2>1
  <2>3. Delivers(d, f[k + 1]) /\ Kept(f[k], f[k + 1])
    BY <1>3, <2>1, <2>2, PutValueDelivers
  <2> QED
    BY <2>2, <2>3, KeptOn
<1>6. I = Nat
  <2>1. I \in SUBSET Nat
    OBVIOUS
  <2> HIDE DEF I
  <2> QED
    BY <1>4, <1>5, <2>1, Induction
<1> QED
  BY <1>1, <1>2, <1>6

LEMMA ValuesDeliver ==
    ASSUME NEW d, NEW o, Delivers(d, o), NEW v \in Int, NEW dur \in Nat, NEW n \in Nat
    PROVE  Delivers(d, AfterValues(o, dur, v, n)) /\ Kept(o, AfterValues(o, dur, v, n))
<1>1. o \in Op
  BY DEF Delivers
<1>2. PICK f \in [0..n -> Op] :
               /\ f[0] = o
               /\ \A k \in 1..n : f[k] = PutValue(f[k - 1], dur, v)
               /\ AfterValues(o, dur, v, n) = f[n]
  <2>1. ValueSteps(o, dur, v, n)
    BY <1>1, ValueLoop
  <2> QED
    BY <2>1 DEF ValueSteps
<1> DEFINE I == {k \in Nat : k <= n => Delivers(d, f[k]) /\ Kept(o, f[k])}
<1>4. 0 \in I
  BY <1>1, <1>2, KeptStill
<1>5. ASSUME NEW k \in Nat, k \in I PROVE k + 1 \in I
  <2> SUFFICES ASSUME k + 1 <= n PROVE Delivers(d, f[k + 1]) /\ Kept(o, f[k + 1])
    OBVIOUS
  <2>1. k \in 0..n /\ k + 1 \in 1..n /\ (k + 1) - 1 = k
    OBVIOUS
  <2>2. Delivers(d, f[k]) /\ Kept(o, f[k]) /\ f[k + 1] = PutValue(f[k], dur, v)
    BY <1>2, <1>5, <2>1
  <2>3. Delivers(d, f[k + 1]) /\ Kept(f[k], f[k + 1])
    BY <2>2, PutValueDelivers
  <2> QED
    BY <2>2, <2>3, KeptOn
<1>6. I = Nat
  <2>1. I \in SUBSET Nat
    OBVIOUS
  <2> HIDE DEF I
  <2> QED
    BY <1>4, <1>5, <2>1, Induction
<1> QED
  BY <1>2, <1>6

\* How many values there are to read.
LEMMA ToReadIs ==
    ASSUME NEW o \in Op, NEW f, f.dur \in Nat \ {0}, f.max \in Int
    PROVE  ToRead(o, f) \in Nat
<1> DEFINE end == IF f.max < o.end THEN f.max ELSE o.end
<1>1. end \in Int /\ o.next \in Int
  BY OpFields
<1>2. ASSUME end > o.next PROVE (end - o.next) \div f.dur \in Nat
  <2>1. end - o.next \in Nat
    BY <1>1, <1>2
  <2> HIDE DEF end
  <2> QED
    BY <2>1, Quotient
<1>3. ToRead(o, f) = IF end > o.next THEN (end - o.next) \div f.dur ELSE 0
  BY DEF ToRead
<1> QED
  BY <1>2, <1>3

\* The slots a read takes from a dense file are among the file's.
LEMMA SlotsAre ==
    ASSUME NEW o \in Op, NEW f, f.dur \in Nat \ {0}, f.min \in Int, f.max \in Int, NEW slots \in Seq(Int)
    PROVE  LET first == IF o.next < f.min THEN 0 ELSE (o.next - f.min) \div f.dur
               last == IF first + ToRead(o, f) > Len(slots) THEN Len(slots) ELSE first + ToRead(o, f)
           IN  /\ first \in Nat /\ last \in Nat
               /\ Slots(o, f, slots) \in Seq(Int)
               /\ Len(Slots(o, f, slots)) = IF last > first THEN last - first ELSE 0
               /\ \A k \in 1..Len(Slots(o, f, slots)) : Slots(o, f, slots)[k] = slots[first + k]
<1> DEFINE first == IF o.next < f.min THEN 0 ELSE (o.next - f.min) \div f.dur
           m == first + ToRead(o, f)
           last == IF m > Len(slots) THEN Len(slots) ELSE m
<1>1. o.next \in Int /\ Len(slots) \in Nat
  BY OpFields
<1>2. first \in Nat
  <2>1. CASE o.next < f.min
    BY <2>1
  <2>2. CASE ~(o.next < f.min)
    <3>1. o.next - f.min \in Nat
      BY <1>1, <2>2
    <3> QED
      BY <2>2, <3>1, Quotient
  <2> QED
    BY <2>1, <2>2
<1>3. ToRead(o, f) \in Nat
  BY ToReadIs
<1>4. Slots(o, f, slots) = SubSeq(slots, first + 1, Min({m, Len(slots)}))
  BY DEF Slots
<1> HIDE DEF first
<1>5. Min({m, Len(slots)}) = last /\ last \in Nat /\ last <= Len(slots)
  BY <1>1, <1>2, <1>3, LesserOf, SMTT(30)
<1> HIDE DEF m, last
<1>6. CASE last > first
  <2>1. first + 1 \in 1..(Len(slots) + 1) /\ last \in first..Len(slots) /\ last \in 0..Len(slots) /\ first + 1 \in Nat
    BY <1>1, <1>2, <1>5, <1>6
  <2>2. \A i \in (first + 1)..last : slots[i] \in Int
    BY <1>1, <1>2, <1>5
  <2> DEFINE a == first + 1
  <2>6. a \in Int /\ last \in Int /\ \A i \in a..last : slots[i] \in Int
    BY <2>1, <2>2
  <2> HIDE DEF a
  <2>7. /\ SubSeq(slots, a, last) \in Seq(Int)
        /\ Len(SubSeq(slots, a, last)) = IF a <= last THEN last - a + 1 ELSE 0
        /\ \A i \in 1..(last - a + 1) : SubSeq(slots, a, last)[i] = slots[a + i - 1]
    BY <2>6, SubSeqProperties
  <2>3. /\ SubSeq(slots, first + 1, last) \in Seq(Int)
        /\ Len(SubSeq(slots, first + 1, last)) = IF first + 1 <= last THEN last - (first + 1) + 1 ELSE 0
        /\ \A i \in 1..(last - (first + 1) + 1) : SubSeq(slots, first + 1, last)[i] = slots[(first + 1) + i - 1]
    BY <2>7 DEF a
  <2>4. last - (first + 1) + 1 = last - first /\ first + 1 <= last
        /\ \A i \in Int : (first + 1) + i - 1 = first + i
    BY <1>2, <1>5, <1>6
  <2>5. /\ Len(SubSeq(slots, first + 1, last)) = last - first
        /\ \A k \in 1..(last - first) : SubSeq(slots, first + 1, last)[k] = slots[first + k]
    <3> DEFINE t == SubSeq(slots, first + 1, last)
    <3>1. /\ Len(t) = IF first + 1 <= last THEN last - (first + 1) + 1 ELSE 0
          /\ \A i \in 1..(last - (first + 1) + 1) : t[i] = slots[(first + 1) + i - 1]
      BY <2>3
    <3> HIDE DEF t
    <3>2. Len(t) = last - first
      BY <2>4, <3>1
    <3>3. \A k \in 1..(last - first) : t[k] = slots[first + k]
      <4> TAKE k \in 1..(last - first)
      <4>1. k \in 1..(last - (first + 1) + 1) /\ k \in Int
        BY <1>2, <1>5, <2>4
      <4>2. t[k] = slots[(first + 1) + k - 1] /\ (first + 1) + k - 1 = first + k
        BY <2>4, <3>1, <4>1
      <4> QED
        BY <4>2
    <3> QED
      BY <3>2, <3>3 DEF t
  <2> QED
    BY <1>2, <1>4, <1>5, <1>6, <2>3, <2>5 DEF first, last, m
<1>7. CASE ~(last > first)
  <2>1. SubSeq(slots, first + 1, last) = <<>>
    BY <1>1, <1>2, <1>5, <1>7
  <2>2. Len(<<>>) = 0 /\ <<>> \in Seq(Int) /\ 1..0 = {}
    OBVIOUS
  <2> QED
    BY <1>2, <1>4, <1>5, <1>7, <2>1, <2>2 DEF first, last, m
<1> QED
  BY <1>6, <1>7

\* What a read finds in the file's place.
Content == IF GetPath(file) \in DOMAIN disk THEN disk[GetPath(file)] ELSE <<>>

LEMMA ContentIs ==
    ASSUME IInv
    PROVE  \/ file = NoFile
           \/ file \in SparseName /\ Content \in Seq(Point) /\ (fpc = "idle" => Content = written)
           \/ file \in DenseObject /\ Content \in Seq(Int) /\ GetPath(file) \in DOMAIN disk
           \/ file \in ConstantObject
<1>1. CASE file = NoFile
  BY <1>1
<1>2. CASE /\ file \in SparseName /\ Name \in SparseName /\ DOMAIN disk = {Name} /\ disk[Name] = written
  <2>1. written \in Seq(Point) /\ <<>> \in Seq(Point)
    BY DEF IInv
  <2>2. fpc = "idle" => Name = GetPath(file)
    BY DEF Name
  <2> QED
    BY <1>2, <2>1, <2>2 DEF Content
<1>3. CASE /\ file \in DenseObject /\ DOMAIN disk = {GetPath(file)} /\ disk[GetPath(file)] \in Seq(Int)
  BY <1>3 DEF Content
<1>4. CASE file \in ConstantObject
  BY <1>4
<1> QED
  BY <1>1, <1>2, <1>3, <1>4 DEF IInv, OneFile

LEMMA ThrownDelivers ==
    ASSUME NEW d, NEW o, Delivers(d, o) PROVE Delivers(d, [o EXCEPT !.thrown = TRUE])
<1> DEFINE q == [o EXCEPT !.thrown = TRUE]
<1>1. q \in Op /\ q.out = o.out /\ q.next = o.next
  BY DEF Delivers, Op
<1> HIDE DEF q
<1>2. Delivers(d, q)
  BY <1>1 DEF Delivers
<1> QED
  BY <1>2 DEF q

LEMMA DenseDelivers ==
    ASSUME NEW d, NEW o, Delivers(d, o), NEW f \in DenseObject, NEW slots \in Seq(Int)
    PROVE  Delivers(d, DenseRead(o, f, slots))
<1> DEFINE q == RoundUp(o, f.dur)
<1>1. f.dur \in Nat \ {0} /\ f.min \in Int /\ f.max \in Int /\ f.dur \in Nat
  BY DEF DenseObject
<1>2. Delivers(d, q) /\ q \in Op
  BY <1>1, RoundUpDelivers DEF Delivers
<1> HIDE DEF q
<1>3. Slots(q, f, slots) \in Seq(Int)
  BY <1>1, <1>2, SlotsAre
<1>4. Delivers(d, AfterSlots(q, f.dur, Slots(q, f, slots)))
  BY <1>1, <1>2, <1>3, SlotsDeliver
<1>5. Delivers(d, [q EXCEPT !.thrown = TRUE])
  BY <1>2, ThrownDelivers
<1> QED
  BY <1>2, <1>4, <1>5 DEF DenseRead, q

LEMMA ConstantDelivers ==
    ASSUME NEW d, NEW o, Delivers(d, o), NEW f \in ConstantObject
    PROVE  Delivers(d, ConstantRead(o, f))
<1> DEFINE q == RoundUp(o, f.dur)
<1>1. f.dur \in Nat \ {0} /\ f.max \in Int /\ f.dur \in Nat /\ f.val \in Int
  BY DEF ConstantObject
<1>2. Delivers(d, q) /\ q \in Op
  BY <1>1, RoundUpDelivers DEF Delivers
<1> HIDE DEF q
<1>3. ToRead(q, f) \in Nat
  BY <1>1, <1>2, ToReadIs
<1>4. Delivers(d, AfterValues(q, f.dur, f.val, ToRead(q, f)))
  BY <1>1, <1>2, <1>3, ValuesDeliver
<1> QED
  BY <1>2, <1>4 DEF ConstantRead, q

LEMMA ChunkDelivers ==
    ASSUME IInv, NEW d, NEW o, Delivers(d, o)
    PROVE  Delivers(d, ReadChunk(o))
<1>1. CASE file = NoFile
  BY <1>1 DEF ReadChunk
<1>2. CASE file # NoFile
  <2>1. ReadChunk(o) = DirectoryRead(o, file, Content)
    BY <1>2 DEF ReadChunk, Content
  <2>2. Delivers(d, FileRead(o, file, Content))
    <3>1. CASE file \in SparseName /\ Content \in Seq(Point)
      <4>1. file.kind = "sparse"
        BY <3>1, Kinds
      <4> QED
        BY <3>1, <4>1, SparseDelivers DEF FileRead
    <3>2. CASE file \in DenseObject /\ Content \in Seq(Int)
      <4>1. file.kind = "dense"
        BY <3>2, Kinds
      <4> QED
        BY <3>2, <4>1, DenseDelivers DEF FileRead
    <3>3. CASE file \in ConstantObject
      <4>1. file.kind = "constant"
        BY <3>3, Kinds
      <4> QED
        BY <3>3, <4>1, ConstantDelivers DEF FileRead
    <3> QED
      BY <1>2, <3>1, <3>2, <3>3, ContentIs
  <2> QED
    BY <2>1, <2>2 DEF DirectoryRead
<1> QED
  BY <1>1, <1>2

----------------------------------------------------------------------------
(* The read's steps.                                                         *)

\* Between two chunks the buffer is empty, and next_time is past what was delivered.
ApartInv == /\ op \in Op /\ delivered \in Seq(Out) /\ DeliveredApart
            /\ reading = "reading" => op.out = <<>> /\ Spread(delivered, op.next)

LEMMA NoOpIsOp == NoOp \in Op
<1>1. <<>> \in Seq(Out)
  OBVIOUS
<1> QED
  BY <1>1 DEF NoOp, Op

LEMMA NothingIsApart ==
    ASSUME op' \in Op, op'.out = <<>>, delivered' = <<>>
    PROVE  ApartInv'
<1>1. <<>> \in Seq(Out) /\ Len(<<>>) = 0 /\ 2..0 = {}
  OBVIOUS
<1>2. Spread(<<>>, op'.next)
  BY <1>1 DEF Spread
<1> QED
  BY <1>1, <1>2 DEF ApartInv, DeliveredApart

LEMMA BeginApart ==
    ASSUME NEW r \in ReadRange, NEW size \in BufferSize, BeginRead(r, size)
    PROVE  ApartInv'
<1>1. op' = [NoOp EXCEPT !.next = r.start, !.end = r.end, !.size = size] /\ delivered' = <<>>
  BY DEF BeginRead
<1>2. r.start \in Int /\ r.end \in Int /\ size \in Nat
  BY ReadsAssumption
<1>3. op' \in Op /\ op'.out = <<>>
  BY <1>1, <1>2, NoOpIsOp DEF Op, NoOp
<1> QED
  BY <1>1, <1>3, NothingIsApart

LEMMA ChunkApart == ASSUME IInv, ApartInv, Chunk PROVE ApartInv'
<1> DEFINE disked == ReadChunk(op)
           b == BufferRead(disked, buffered)
           o == ForceCompletion(b)
           over == DatapointsInBuffer(o) > op.size
<1>1. /\ reading = "reading"
      /\ delivered' = IF disked.thrown \/ over THEN delivered ELSE delivered \o o.out
      /\ op' = [o EXCEPT !.out = <<>>]
      /\ reading' = IF disked.thrown THEN "thrown" ELSE IF over THEN "overrun"
                    ELSE IF Complete(o) \/ o.out = <<>> THEN "done" ELSE "reading"
  BY DEF Chunk
<1>2. Delivers(delivered, op)
  <2>1. delivered \o <<>> = delivered
    BY DEF ApartInv
  <2> QED
    BY <1>1, <2>1 DEF ApartInv, Delivers
<1>3. Delivers(delivered, disked)
  BY <1>2, ChunkDelivers
<1> HIDE DEF disked
<1>4. Delivers(delivered, b)
  BY <1>3, BufferDelivers DEF IInv
<1> HIDE DEF b
<1>5. /\ o \in Op /\ o.out = b.out
      /\ ~Complete(o) => o = b
  <2>1. b \in Op /\ b.next \in Int /\ b.end \in Int
    BY <1>4, OpFields DEF Delivers
  <2>2. CASE SpaceLeft(b)
    <3>1. o = [b EXCEPT !.next = b.end]
      BY <2>2 DEF ForceCompletion
    <3>2. o \in Op /\ o.out = b.out /\ o.next = b.end /\ o.end = b.end
      BY <2>1, <3>1 DEF Op
    <3>3. Complete(o)
      BY <2>1, <3>2 DEF Complete
    <3> QED
      BY <3>2, <3>3
  <2>3. CASE ~SpaceLeft(b)
    BY <2>1, <2>3 DEF ForceCompletion
  <2> QED
    BY <2>2, <2>3
<1> HIDE DEF o, over
<1>6. Spread(delivered \o o.out, b.next) /\ delivered \in Seq(Out)
  BY <1>4, <1>5 DEF Delivers
<1>7. op' \in Op /\ op'.out = <<>> /\ op'.next = o.next
  <2>1. <<>> \in Seq(Out)
    OBVIOUS
  <2> QED
    BY <1>1, <1>5, <2>1 DEF Op
<1>8. CASE disked.thrown \/ over
  <2>1. delivered' = delivered /\ reading' # "reading"
    BY <1>1, <1>8
  <2> QED
    BY <1>7, <2>1 DEF ApartInv, DeliveredApart
<1>9. CASE ~(disked.thrown \/ over)
  <2>1. delivered' = delivered \o o.out /\ (reading' = "reading" => ~Complete(o))
    BY <1>1, <1>9
  <2>2. delivered' \in Seq(Out) /\ DeliveredApart'
    BY <1>6, <2>1 DEF Spread, DeliveredApart
  <2>3. reading' = "reading" => Spread(delivered', op'.next)
    BY <1>5, <1>6, <1>7, <2>1
  <2> QED
    BY <1>7, <2>2, <2>3 DEF ApartInv
<1> QED
  BY <1>8, <1>9

LEMMA ApartStill == ASSUME ApartInv, UNCHANGED <<op, reading, delivered>> PROVE ApartInv'
BY DEF ApartInv, DeliveredApart

LEMMA InitApart == ASSUME Init PROVE ApartInv
<1>1. op = NoOp /\ delivered = <<>> /\ reading = "none" /\ <<>> \in Seq(Out) /\ Len(<<>>) = 0 /\ 2..0 = {}
  BY DEF Init
<1> QED
  BY <1>1, NoOpIsOp DEF ApartInv, DeliveredApart

LEMMA StepApart == ASSUME IInv, ApartInv, [Next]_vars PROVE ApartInv'
<1>1. ASSUME NEW b \in Batch, Arrive(b) PROVE ApartInv'
  BY <1>1, NoOpIsOp, NothingIsApart DEF Arrive, NoOp
<1>2. CASE Restart
  BY <1>2, NoOpIsOp, NothingIsApart DEF Restart, NoOp
<1>3. CASE Flusher
  <2>1. CASE WriteConstant
    BY <1>2, <2>1 DEF WriteConstant
  <2>2. CASE WriteSparse \/ MoveToMax \/ FileIsTooBig \/ Mark \/ MoveToMarked \/ LeaveIt \/ WriteDense
    <3>1. UNCHANGED <<op, reading, delivered>>
      BY <2>2 DEF WriteSparse, MoveToMax, FileIsTooBig, Mark, MoveToMarked, LeaveIt, WriteDense, readvars
    <3> QED
      BY <3>1, ApartStill
  <2> QED
    BY <1>3, <2>1, <2>2 DEF Flusher
<1>4. CASE Task
  <2>1. UNCHANGED <<op, reading, delivered>>
    BY <1>4 DEF Task, Handle, FileGone, OpenIt, ReadIt, Convert, readvars
  <2> QED
    BY <2>1, ApartStill
<1>5. ASSUME NEW r \in ReadRange, NEW size \in BufferSize, BeginRead(r, size) PROVE ApartInv'
  BY <1>5, BeginApart
<1>6. CASE Chunk
  BY <1>6, ChunkApart
<1>7. CASE UNCHANGED vars
  BY <1>7, ApartStill DEF vars, readvars
<1> QED
  BY <1>1, <1>2, <1>3, <1>4, <1>5, <1>6, <1>7 DEF Next

\* The points of a read are in order and none begins before the one before it has ended,
\* in whatever formats and versions and in however many chunks they come: each Append
\* moves next_time to the end of its point, and no loop takes one from before it.
THEOREM ReadsApart == Spec => []DeliveredApart
<1>1. Spec => []IInv
  BY Invariance
<1>2. Init => ApartInv
  BY InitApart
<1>3. IInv /\ ApartInv /\ [Next]_vars => ApartInv'
  BY StepApart
<1>4. ApartInv => DeliveredApart
  BY DEF ApartInv
<1> QED
  BY <1>1, <1>2, <1>3, <1>4, PTL DEF Spec

----------------------------------------------------------------------------
(* What a read gives of a sparse file: of each timestamp, the version of the *)
(* first duration that was written last.                                     *)

\* A point the loop stops at: the first of its timestamp.
Leads(ps, i) == i = 1 \/ ps[i - 1].ts # ps[i].ts

LEMMA LeadIsFirst ==
    ASSUME NEW had \in Seq(Point), NEW order, Arranges(order, had),
           \A k \in 1..Len(had) : Sorted(had)[k] = had[order[k]],
           NEW i \in 1..Len(had), Leads(Sorted(had), i),
           NEW l \in 1..Len(had), Sorted(had)[l].ts = Sorted(had)[i].ts
    PROVE  i <= l /\ order[i] <= order[l]
<1> DEFINE ps == Sorted(had)
<1>1. /\ \A k \in 1..Len(had) : order[k] \in 1..Len(had) /\ ps[k].ts = had[order[k]].ts
      /\ \A k \in 1..Len(had) : ps[k].ts \in Int
      /\ \A k, m \in 1..Len(had) : k <= m => ps[k].ts <= ps[m].ts
  <2>1. ps \in Seq(Point) /\ Len(ps) = Len(had)
    BY SortedIs
  <2>2. \A k \in 1..Len(had) : ps[k].ts \in Int
    <3> HIDE DEF ps
    <3> QED
      BY <2>1, PointAt
  <2>3. \A k, m \in 1..Len(had) : k <= m => ps[k].ts <= ps[m].ts
    BY SortedTimes
  <2>4. \A k \in 1..Len(had) : order[k] \in 1..Len(had) /\ ps[k].ts = had[order[k]].ts
    BY DEF Arranges
  <2> QED
    BY <2>2, <2>3, <2>4
<1> HIDE DEF ps
<1>2. i <= l
  <2> SUFFICES ASSUME l < i PROVE FALSE
    OBVIOUS
  <2>1. i # 1 /\ i - 1 \in 1..Len(had) /\ l <= i - 1 /\ i - 1 <= i
    OBVIOUS
  <2>2. ps[l].ts <= ps[i - 1].ts /\ ps[i - 1].ts <= ps[i].ts /\ ps[l].ts = ps[i].ts
    BY <1>1, <2>1 DEF ps
  <2>3. ps[i - 1].ts \in Int /\ ps[i].ts \in Int
    BY <1>1, <2>1
  <2>4. ps[i - 1].ts = ps[i].ts
    BY <2>2, <2>3
  <2> QED
    BY <2>1, <2>4 DEF Leads, ps
<1>3. CASE i = l
  BY <1>1, <1>2, <1>3
<1>4. CASE i < l
  <2>1. Before(had, order[i], order[l])
    BY <1>4 DEF Arranges
  <2>2. had[order[i]].ts = had[order[l]].ts /\ had[order[i]].ts \in Int
    BY <1>1 DEF ps
  <2>3. order[i] < order[l]
    BY <2>1, <2>2 DEF Before
  <2>4. order[i] \in Int /\ order[l] \in Int
    BY <1>1
  <2> QED
    BY <1>2, <2>3, <2>4
<1> QED
  BY <1>2, <1>3, <1>4

\* The version written last of those that have the duration written first.
LatestOf(had, t) == LET V == {k \in DOMAIN had : had[k].ts = t}
                    IN  had[Max({k \in V : had[k].dur = had[Min(V)].dur})]

LEMMA VersionIsLatest ==
    ASSUME NEW had \in Seq(Point), NEW i \in 1..Len(had), Leads(Sorted(had), i)
    PROVE  Version(Sorted(had), i) = LatestOf(had, Sorted(had)[i].ts)
<1> DEFINE ps == Sorted(had)
           t == ps[i].ts
           V == {k \in DOMAIN had : had[k].ts = t}
           W == {k \in V : had[k].dur = had[Min(V)].dur}
           N == 1..Len(had)
<1>1. ps \in Seq(Point) /\ Len(ps) = Len(had) /\ Len(had) \in Nat /\ DOMAIN had = N
  BY SortedIs
<1>2. PICK order : Arranges(order, had) /\ \A k \in N : ps[k] = had[order[k]]
  BY SortedIs
<1>3. /\ \A k \in N : order[k] \in N
      /\ \A k \in N : \E l \in N : order[l] = k
      /\ \A k, l \in N : k < l => Before(had, order[k], order[l])
  BY <1>2 DEF Arranges
<1>4. \A l \in N : ps[l].ts = t => i <= l /\ order[i] <= order[l]
  BY <1>2, LeadIsFirst
<1>5. PICK j \in i..Len(ps) :
               /\ Version(ps, i) = ps[j] /\ ps[j].ts = ps[i].ts /\ ps[j].dur = ps[i].dur
               /\ \A k \in i..Len(ps) : ps[k].ts = ps[i].ts /\ ps[k].dur = ps[i].dur => k <= j
  BY <1>1, VersionIs
<1>6. j \in N
  BY <1>1
<1> HIDE DEF ps
<1>7. V \subseteq N /\ order[i] \in V /\ \A k \in V : order[i] <= k
  <2>1. order[i] \in N /\ had[order[i]].ts = t
    BY <1>2, <1>3
  <2>2. ASSUME NEW k \in V PROVE order[i] <= k
    <3>1. PICK l \in N : order[l] = k
      BY <1>1, <1>3
    <3>2. ps[l].ts = t
      BY <1>2, <3>1
    <3> QED
      BY <1>4, <3>1, <3>2
  <2> QED
    BY <1>1, <2>1, <2>2
<1> HIDE DEF V
<1>8. Min(V) = order[i]
  <2>1. V \in SUBSET Nat /\ V # {}
    BY <1>1, <1>7
  <2>2. Min(V) \in V /\ \A x \in V : Min(V) <= x
    BY <2>1, MinOf
  <2>3. Min(V) \in Int /\ order[i] \in Int
    <3>1. \A x \in V : x \in Int
      BY <2>1
    <3> QED
      BY <1>7, <2>2, <3>1
  <2>4. Min(V) <= order[i] /\ order[i] <= Min(V)
    BY <1>7, <2>2
  <2> QED
    BY <2>3, <2>4
<1>9. had[Min(V)].dur = ps[i].dur
  BY <1>2, <1>8
<1>10. order[j] \in W /\ \A k \in W : k <= order[j]
  <2>1. order[j] \in N /\ had[order[j]].ts = t /\ had[order[j]].dur = ps[i].dur
    BY <1>2, <1>3, <1>5, <1>6
  <2>2. order[j] \in W
    BY <1>1, <1>9, <2>1 DEF V
  <2>3. ASSUME NEW k \in W PROVE k <= order[j]
    <3>1. k \in N /\ had[k].ts = t /\ had[k].dur = ps[i].dur
      BY <1>1, <1>9 DEF V
    <3>2. PICK l \in N : order[l] = k
      BY <1>3, <3>1
    <3>3. ps[l].ts = t /\ ps[l].dur = ps[i].dur
      BY <1>2, <3>1, <3>2
    <3>4. i <= l /\ l \in i..Len(ps)
      BY <1>1, <1>4, <3>3
    <3>5. l <= j
      BY <1>5, <3>3, <3>4
    <3>6. CASE l = j
      BY <2>1, <3>2, <3>6
    <3>7. CASE l < j
      <4>1. Before(had, order[l], order[j])
        BY <1>3, <1>6, <3>7
      <4>2. had[order[l]].ts = t /\ had[order[j]].ts = t /\ t \in Int
        <5>1. t \in Int
          BY <1>1, PointAt
        <5> QED
          BY <2>1, <3>1, <3>2, <5>1
      <4>3. order[l] < order[j]
        BY <4>1, <4>2 DEF Before
      <4> QED
        BY <2>1, <3>1, <3>2, <4>3
    <3> QED
      BY <1>6, <3>5, <3>6, <3>7
  <2> QED
    BY <2>2, <2>3
<1>11. W \in SUBSET (0..Len(had)) /\ W # {}
  <2>1. W \subseteq V
    OBVIOUS
  <2>2. N \subseteq 0..Len(had)
    BY <1>1
  <2> HIDE DEF W, N
  <2> QED
    BY <1>7, <1>10, <2>1, <2>2
<1> HIDE DEF W
<1>12. Max(W) = order[j]
  <2>1. Max(W) \in W /\ \A x \in W : x <= Max(W)
    BY <1>1, <1>11, MaxOf
  <2>2. \A x \in W : x \in Int
    BY <1>1, <1>11
  <2>3. Max(W) <= order[j] /\ order[j] <= Max(W)
    BY <1>10, <2>1
  <2>4. Max(W) \in Int /\ order[j] \in Int
    BY <1>10, <2>1, <2>2
  <2> QED
    BY <2>3, <2>4
<1>13. Version(ps, i) = had[Max(W)]
  BY <1>2, <1>5, <1>6, <1>12
<1> QED
  BY <1>13 DEF W, V, ps, LatestOf

----------------------------------------------------------------------------
(* What the loops take.                                                      *)

LEMMA PutTakes == ASSUME NEW o \in Op, NEW p \in Out
                  PROVE  Range(Put(o, p).out) = Range(o.out) \union {p}
<1>1. o.out \in Seq(Out) /\ Put(o, p).out = Append(o.out, p)
  BY OpFields, PutIs
<1> DEFINE s == o.out
           q == Append(s, p)
<1>2. /\ Len(s) \in Nat /\ q \in Seq(Out) /\ Len(q) = Len(s) + 1
      /\ q[Len(s) + 1] = p /\ \A i \in 1..Len(s) : q[i] = s[i]
  BY <1>1
<1>3. /\ \A i \in 1..Len(s) : s[i] \in Range(s)
      /\ \A x \in Range(s) : \E i \in 1..Len(s) : x = s[i]
      /\ \A i \in 1..Len(q) : q[i] \in Range(q)
      /\ \A x \in Range(q) : \E i \in 1..Len(q) : x = q[i]
  <2>1. s \in Seq(Out)
    BY <1>1
  <2> HIDE DEF s, q
  <2>2. /\ \A i \in 1..Len(s) : s[i] \in Range(s)
        /\ \A x \in Range(s) : \E i \in 1..Len(s) : x = s[i]
    BY <2>1, ElementsOf
  <2>3. /\ \A i \in 1..Len(q) : q[i] \in Range(q)
        /\ \A x \in Range(q) : \E i \in 1..Len(q) : x = q[i]
    BY <1>2, ElementsOf
  <2> QED
    BY <2>2, <2>3
<1> HIDE DEF s, q
<1>4. \A x \in Range(q) : x \in Range(s) \union {p}
  <2> TAKE x \in Range(q)
  <2>1. PICK i \in 1..Len(q) : x = q[i]
    BY <1>3
  <2>2. i \in 1..Len(s) \/ i = Len(s) + 1
    BY <1>2
  <2> QED
    BY <1>2, <1>3, <2>1, <2>2
<1>5. p \in Range(q)
  <2>1. Len(s) + 1 \in 1..Len(q)
    BY <1>2
  <2> QED
    BY <1>2, <1>3, <2>1
<1>6. \A x \in Range(s) : x \in Range(q)
  <2> TAKE x \in Range(s)
  <2>1. PICK i \in 1..Len(s) : x = s[i]
    BY <1>3
  <2>2. i \in 1..Len(q)
    BY <1>2
  <2> QED
    BY <1>2, <1>3, <2>1, <2>2
<1>7. Range(q) = Range(s) \union {p}
  BY <1>4, <1>5, <1>6
<1> QED
  BY <1>1, <1>7 DEF q, s

LEMMA SparseTakes ==
    ASSUME NEW o \in Op, NEW pts \in Seq(Point)
    PROVE  \A p \in Range(SparseRead(o, pts).out) :
               \/ p \in Range(o.out)
               \/ \E i \in 1..Len(pts) : Leads(Sorted(pts), i) /\ p = Version(Sorted(pts), i)
<1> DEFINE ps == Sorted(pts)
           n == Len(ps)
           Taken(k) == \A p \in Range(k) :
               p \in Range(o.out) \/ \E i \in 1..n : Leads(ps, i) /\ p = Version(ps, i)
<1>1. n \in Nat /\ ps \in Seq(Point) /\ n = Len(pts)
  BY SortedIs
<1>2. PICK f \in [0..n -> State] :
               /\ f[0] = [op |-> o, goes |-> TRUE]
               /\ \A k \in 1..n : f[k] = Looked(f[k - 1], ps, k, o.next)
               /\ SparseRead(o, pts) = f[n].op
  BY <1>1, SparseLoop
<1> DEFINE I == {k \in Nat : k <= n => Taken(f[k].op.out)}
<1>3. 0 \in I
  BY <1>2
<1>4. ASSUME NEW k \in Nat, k \in I PROVE k + 1 \in I
  <2> SUFFICES ASSUME k + 1 <= n PROVE Taken(f[k + 1].op.out)
    OBVIOUS
  <2> DEFINE r == f[k]
             i == k + 1
             v == Version(ps, i)
  <2>1. k \in 0..n /\ i \in 1..n /\ i - 1 = k
    BY <1>1
  <2>2. Taken(r.op.out) /\ r \in State /\ r.op \in Op
    BY <1>2, <1>4, <2>1 DEF State
  <2>3. f[i] = Looked(r, ps, i, o.next)
    BY <1>2, <2>1
  <2>4. v \in Out
    BY <1>1, <2>1, VersionIsPoint
  <2> HIDE DEF ps, n, Taken, r, v
  <2>5. f[i].op = r.op \/ (f[i].op = Put(r.op, v) /\ Leads(ps, i))
    <3>1. ~(ps[i].ts < o.next \/ (i > 1 /\ ps[i - 1].ts = ps[i].ts)) => Leads(ps, i)
      BY <2>1 DEF Leads
    <3> HIDE DEF i
    <3> QED
      BY <2>2, <2>3, <3>1 DEF Looked, State, v
  <2>6. CASE f[i].op = r.op
    BY <2>2, <2>6
  <2>7. CASE f[i].op = Put(r.op, v) /\ Leads(ps, i)
    <3>1. Range(f[i].op.out) = Range(r.op.out) \union {v}
      BY <2>2, <2>4, <2>7, PutTakes
    <3> QED
      BY <2>1, <2>2, <2>7, <3>1 DEF Taken, v
  <2> QED
    BY <2>5, <2>6, <2>7
<1>5. I = Nat
  <2>1. I \in SUBSET Nat
    OBVIOUS
  <2> HIDE DEF I
  <2> QED
    BY <1>3, <1>4, <2>1, Induction
<1>6. Taken(f[n].op.out)
  <2> HIDE DEF Taken
  <2> QED
    BY <1>1, <1>5
<1> QED
  BY <1>1, <1>2, <1>6

LEMMA BufferTakes ==
    ASSUME NEW o \in Op, NEW pts \in Seq(Point)
    PROVE  Range(BufferRead(o, pts).out) \subseteq Range(o.out) \union Range(pts)
<1> DEFINE ps == Sorted(pts)
           n == Len(ps)
           Taken(s) == Range(s) \subseteq Range(o.out) \union Range(pts)
<1>1. n \in Nat /\ ps \in Seq(Point) /\ n = Len(pts) /\ Range(ps) = Range(pts)
  BY SortedIs, SortedTimes
<1>2. PICK f \in [0..n -> Op] :
               /\ f[0] = o
               /\ \A k \in 1..n : f[k] = PutInRange(f[k - 1], ps[k])
               /\ BufferRead(o, pts) = f[n]
  BY <1>1, BufferLoop
<1> DEFINE I == {k \in Nat : k <= n => Taken(f[k].out)}
<1>3. 0 \in I
  BY <1>2
<1>4. ASSUME NEW k \in Nat, k \in I PROVE k + 1 \in I
  <2> SUFFICES ASSUME k + 1 <= n PROVE Taken(f[k + 1].out)
    OBVIOUS
  <2> DEFINE p == ps[k + 1]
  <2>1. k \in 0..n /\ k + 1 \in 1..n /\ (k + 1) - 1 = k
    BY <1>1
  <2>2. Taken(f[k].out) /\ f[k] \in Op /\ f[k + 1] = PutInRange(f[k], p)
    BY <1>2, <1>4, <2>1
  <2>3. p \in Range(pts) /\ p \in Out
    <3>1. p \in Point /\ p \in Range(ps)
      BY <1>1, <2>1, ElementsOf
    <3> QED
      BY <1>1, <3>1, OutOfPoint
  <2> HIDE DEF p
  <2>4. f[k + 1] = f[k] \/ f[k + 1] = Put(f[k], p)
    BY <2>2 DEF PutInRange
  <2>5. Range(Put(f[k], p).out) = Range(f[k].out) \union {p}
    BY <2>2, <2>3, PutTakes
  <2> QED
    BY <2>2, <2>3, <2>4, <2>5
<1>5. I = Nat
  <2>1. I \in SUBSET Nat
    OBVIOUS
  <2> HIDE DEF I
  <2> QED
    BY <1>3, <1>4, <2>1, Induction
<1>6. Taken(f[n].out)
  <2> HIDE DEF Taken
  <2> QED
    BY <1>1, <1>5
<1> QED
  BY <1>2, <1>6

----------------------------------------------------------------------------
(* A read goes on beside no flush and no conversion.                         *)

Quiet == reading = "reading" =>
             /\ fpc = "idle" /\ tasks = 0 /\ wpc = "idle"
             /\ asked.kind = file.kind /\ asked.had = written /\ asked.buffered = buffered

Right(p) == Versions(p.ts) # {} => p = Wanted(p.ts) \/ p \in Range(asked.buffered)
VersionsInv == (reading \in {"reading", "done"} /\ asked.kind = "sparse") =>
                   \A p \in Range(delivered) : Right(p)

\* What the steps beside a read's own do to it.
LEMMA BesideRead ==
    ASSUME IInv, Quiet, [Next]_vars
    PROVE  \/ op' = NoOp /\ asked' = <<>> /\ reading' = "none" /\ delivered' = <<>>
           \/ UNCHANGED readvars /\ (reading = "reading" => UNCHANGED vars)
           \/ \E r \in ReadRange, size \in BufferSize : BeginRead(r, size)
           \/ Chunk
<1>1. ASSUME NEW b \in Batch, Arrive(b)
      PROVE  op' = NoOp /\ asked' = <<>> /\ reading' = "none" /\ delivered' = <<>>
  BY <1>1 DEF Arrive
<1>2. ASSUME Restart
      PROVE  op' = NoOp /\ asked' = <<>> /\ reading' = "none" /\ delivered' = <<>>
  BY <1>2 DEF Restart
<1>3. ASSUME Flusher, ~Restart PROVE UNCHANGED readvars /\ reading # "reading"
  <2>1. CASE WriteSparse \/ WriteDense
    BY <2>1 DEF WriteSparse, WriteDense, Flushes
  <2>2. CASE MoveToMax \/ FileIsTooBig \/ Mark \/ MoveToMarked \/ LeaveIt
    <3>1. fpc # "idle"
      BY <2>2 DEF MoveToMax, FileIsTooBig, Mark, MoveToMarked, LeaveIt, Sized
    <3>2. UNCHANGED readvars
      BY <2>2 DEF MoveToMax, FileIsTooBig, Mark, MoveToMarked, LeaveIt
    <3> QED
      BY <3>1, <3>2 DEF Quiet
  <2> QED
    BY <1>3, <2>1, <2>2 DEF Flusher, WriteConstant
<1>4. ASSUME Task PROVE UNCHANGED readvars /\ reading # "reading"
  <2>1. tasks # 0 \/ wpc # "idle"
    <3>1. tasks > 0 => tasks # 0
      BY DEF IInv, OneTask
    <3> QED
      BY <1>4, <3>1 DEF Task, Handle, FileGone, OpenIt, ReadIt, Convert
  <2>2. UNCHANGED readvars
    BY <1>4 DEF Task, Handle, FileGone, OpenIt, ReadIt, Convert
  <2> QED
    BY <2>1, <2>2 DEF Quiet
<1>5. ASSUME UNCHANGED vars PROVE UNCHANGED readvars
  BY <1>5 DEF vars
<1> QED
  BY <1>1, <1>2, <1>3, <1>4, <1>5 DEF Next

LEMMA QuietStill ==
    ASSUME Quiet, UNCHANGED readvars, reading = "reading" => UNCHANGED vars PROVE Quiet'
<1>1. reading' = reading /\ asked' = asked
  BY DEF readvars
<1>2. CASE reading = "reading"
  <2>1. UNCHANGED <<fpc, tasks, wpc, file, written, buffered>>
    BY <1>2 DEF vars, flushvars, taskvars
  <2> QED
    BY <1>1, <2>1 DEF Quiet
<1>3. CASE reading # "reading"
  BY <1>1, <1>3 DEF Quiet
<1> QED
  BY <1>2, <1>3

LEMMA BeginQuiet ==
    ASSUME NEW r \in ReadRange, NEW size \in BufferSize, BeginRead(r, size)
    PROVE  /\ Quiet' /\ delivered' = <<>> /\ reading' = "reading" /\ op'.out = <<>>
           /\ asked'.start = r.start /\ asked'.end = r.end /\ asked'.covered = Covered
           /\ asked'.ordinary = Ordinary /\ asked'.had = written
           /\ op'.next = r.start /\ op'.end = r.end /\ op'.size = size
<1>1. /\ fpc = "idle" /\ tasks = 0 /\ wpc = "idle"
      /\ op' = [NoOp EXCEPT !.next = r.start, !.end = r.end, !.size = size]
      /\ asked' = [start |-> r.start, end |-> r.end, kind |-> file.kind, ordinary |-> Ordinary, covered |-> Covered,
                   had |-> written, buffered |-> buffered]
      /\ reading' = "reading" /\ delivered' = <<>>
      /\ UNCHANGED <<file, buffered, fpc, written, tasks, wpc>>
  BY DEF BeginRead, flushvars, taskvars
<1>2. Quiet'
  BY <1>1 DEF Quiet
<1>3. op'.next = r.start /\ op'.end = r.end /\ op'.size = size /\ op'.out = <<>>
  BY <1>1 DEF NoOp
<1> QED
  BY <1>1, <1>2, <1>3

LEMMA ChunkQuiet == ASSUME Quiet, Chunk PROVE Quiet' /\ asked' = asked
BY DEF Quiet, Chunk, flushvars, taskvars

\* The chunk of a read: from the file, then from the buffer.
LEMMA ChunkIs ==
    ASSUME IInv, ApartInv, Chunk
    PROVE  \E disked \in Op, b \in Op, o \in Op :
               /\ disked = ReadChunk(op) /\ b = BufferRead(disked, buffered) /\ o = ForceCompletion(b)
               /\ op.out = <<>> /\ op \in Op /\ o.out = b.out
               /\ delivered' \in {delivered, delivered \o o.out}
               /\ reading' \in {"reading", "done"} =>
                      /\ delivered' = delivered \o o.out /\ ~disked.thrown
                      /\ ~(Len(o.out) > op.size)
                      /\ reading' = "done" <=> Complete(o) \/ o.out = <<>>
               /\ op' = [o EXCEPT !.out = <<>>]
<1> DEFINE disked == ReadChunk(op)
           b == BufferRead(disked, buffered)
           o == ForceCompletion(b)
           over == DatapointsInBuffer(o) > op.size
<1>1. /\ reading = "reading"
      /\ delivered' = IF disked.thrown \/ over THEN delivered ELSE delivered \o o.out
      /\ op' = [o EXCEPT !.out = <<>>]
      /\ reading' = IF disked.thrown THEN "thrown" ELSE IF over THEN "overrun"
                    ELSE IF Complete(o) \/ o.out = <<>> THEN "done" ELSE "reading"
  BY DEF Chunk
<1>2. op \in Op /\ op.out = <<>> /\ Delivers(delivered, op)
  <2>1. delivered \o <<>> = delivered
    BY DEF ApartInv
  <2> QED
    BY <1>1, <2>1 DEF ApartInv, Delivers
<1>3. Delivers(delivered, disked)
  BY <1>2, ChunkDelivers
<1> HIDE DEF disked
<1>4. Delivers(delivered, b)
  BY <1>3, BufferDelivers DEF IInv
<1> HIDE DEF b
<1>5. disked \in Op /\ b \in Op /\ b.end \in Int
  BY <1>3, <1>4, OpFields DEF Delivers
<1>6. o \in Op /\ o.out = b.out
  BY <1>5 DEF ForceCompletion, Op
<1> HIDE DEF o
<1>7. over <=> Len(o.out) > op.size
  BY DEF DatapointsInBuffer
<1> HIDE DEF over
<1>8. /\ delivered' \in {delivered, delivered \o o.out}
      /\ reading' \in {"reading", "done"} =>
             /\ delivered' = delivered \o o.out /\ ~disked.thrown
             /\ ~(Len(o.out) > op.size)
             /\ reading' = "done" <=> Complete(o) \/ o.out = <<>>
  BY <1>1, <1>7
<1> QED
  BY <1>1, <1>2, <1>5, <1>6, <1>8 DEF disked, b, o

LEMMA ChunkVersions ==
    ASSUME IInv, ApartInv, Quiet, VersionsInv, Chunk
    PROVE  VersionsInv'
<1> SUFFICES ASSUME reading' \in {"reading", "done"}, asked'.kind = "sparse", NEW p \in Range(delivered')
             PROVE  Right(p)'
  BY DEF VersionsInv
<1>1. asked' = asked /\ reading = "reading"
  BY ChunkQuiet DEF Chunk
<1>2. file.kind = "sparse" /\ fpc = "idle" /\ asked.had = written /\ asked.buffered = buffered
  BY <1>1 DEF Quiet
<1>3. file \in SparseName /\ Content = written /\ file # NoFile /\ written \in Seq(Point) /\ buffered \in Seq(Point)
  BY <1>2, ContentIs, Kinds DEF IInv
<1>4. PICK disked \in Op, b \in Op, o \in Op :
               /\ disked = ReadChunk(op) /\ b = BufferRead(disked, buffered) /\ o = ForceCompletion(b)
               /\ op.out = <<>> /\ op \in Op /\ o.out = b.out
               /\ delivered' = delivered \o o.out
  BY ChunkIs
<1>5. Right(p)' <=> Right(p)
  BY <1>1 DEF Right, Versions, Wanted
<1>6. Range(delivered \o o.out) = Range(delivered) \union Range(o.out)
  BY <1>4, OpFields, JoinedIs DEF ApartInv
<1>7. CASE p \in Range(delivered)
  BY <1>1, <1>5, <1>7 DEF VersionsInv
<1>8. CASE p \in Range(o.out)
  <2>1. p \in Range(disked.out) \/ p \in Range(buffered)
    BY <1>3, <1>4, <1>8, BufferTakes
  <2>2. CASE p \in Range(buffered)
    BY <1>2, <1>5, <2>2 DEF Right
  <2>3. CASE p \in Range(disked.out)
    <3>1. disked = op \/ disked = SparseRead(op, written)
      <4>1. ReadChunk(op) = DirectoryRead(op, file, Content)
        BY <1>3 DEF ReadChunk, Content
      <4>2. FileRead(op, file, Content) = SparseRead(op, written)
        BY <1>2, <1>3 DEF FileRead
      <4> QED
        BY <1>4, <4>1, <4>2 DEF DirectoryRead
    <3>2. p \notin Range(op.out)
      BY <1>4 DEF Range
    <3>3. PICK i \in 1..Len(written) : Leads(Sorted(written), i) /\ p = Version(Sorted(written), i)
      <4>1. disked = SparseRead(op, written)
        BY <2>3, <3>1, <3>2
      <4>2. p \in Range(SparseRead(op, written).out)
        BY <2>3, <4>1
      <4> QED
        BY <1>3, <1>4, <3>2, <4>2, SparseTakes
    <3> DEFINE t == Sorted(written)[i].ts
    <3>4. p.ts = t
      <4>1. Sorted(written) \in Seq(Point) /\ i \in 1..Len(Sorted(written))
        BY <1>3, SortedIs
      <4> QED
        BY <3>3, <4>1, VersionIsPoint
    <3>5. p = LatestOf(written, t)
      BY <1>3, <3>3, VersionIsLatest
    <3>6. p = Wanted(t)
      <4> HIDE DEF t
      <4> QED
        BY <1>2, <3>5 DEF Wanted, Versions, LatestOf
    <3> QED
      BY <1>5, <3>4, <3>6 DEF Right
  <2> QED
    BY <2>1, <2>2, <2>3
<1> QED
  BY <1>4, <1>6, <1>7, <1>8

LEMMA StepQuiet == ASSUME IInv, Quiet, [Next]_vars PROVE Quiet'
<1>1. CASE reading' = "none"
  BY <1>1 DEF Quiet
<1>2. CASE UNCHANGED readvars /\ (reading = "reading" => UNCHANGED vars)
  BY <1>2, QuietStill
<1>3. ASSUME NEW r \in ReadRange, NEW size \in BufferSize, BeginRead(r, size) PROVE Quiet'
  BY <1>3, BeginQuiet
<1>4. CASE Chunk
  BY <1>4, ChunkQuiet
<1> QED
  BY <1>1, <1>2, <1>3, <1>4, BesideRead

LEMMA StepVersions ==
    ASSUME IInv, ApartInv, Quiet, VersionsInv, [Next]_vars
    PROVE  VersionsInv'
<1>1. CASE reading' = "none"
  BY <1>1 DEF VersionsInv
<1>2. CASE UNCHANGED readvars
  <2>1. UNCHANGED <<asked, reading, delivered>>
    BY <1>2 DEF readvars
  <2>2. \A p : Right(p)' <=> Right(p)
    BY <2>1 DEF Right, Versions, Wanted
  <2> QED
    BY <2>1, <2>2 DEF VersionsInv
<1>3. ASSUME NEW r \in ReadRange, NEW size \in BufferSize, BeginRead(r, size) PROVE VersionsInv'
  <2>1. delivered' = <<>>
    BY <1>3, BeginQuiet
  <2>2. Range(<<>>) = {}
    BY DEF Range
  <2> QED
    BY <2>1, <2>2 DEF VersionsInv
<1>4. CASE Chunk
  BY <1>4, ChunkVersions
<1> QED
  BY <1>1, <1>2, <1>3, <1>4, BesideRead

\* What a read gives of a sparse file's timestamp is the version written last of those
\* that have the duration written first, or a point of the write buffer: sorting leaves
\* the versions in the order of the writes, and a chunk takes each timestamp once.
THEOREM ReadsVersions == Spec => []VersionsGiven
<1>1. Spec => []IInv
  BY Invariance
<1>2. Init => ApartInv /\ Quiet /\ VersionsInv
  <2>1. Init => reading = "none"
    BY DEF Init
  <2> QED
    BY <2>1, InitApart DEF Quiet, VersionsInv
<1>3. IInv /\ ApartInv /\ Quiet /\ VersionsInv /\ [Next]_vars => ApartInv' /\ Quiet' /\ VersionsInv'
  BY StepApart, StepQuiet, StepVersions
<1>4. VersionsInv => VersionsGiven
  BY DEF VersionsInv, VersionsGiven, ReadSparse, Right
<1> QED
  BY <1>1, <1>2, <1>3, <1>4, PTL DEF Spec

----------------------------------------------------------------------------
(* The times of the one file and of the buffer.                              *)

\* The buffer is sorted, and a sparse file's least time is in both its names.
Ascends(s) == \A i, j \in 1..Len(s) : i < j => s[i].ts <= s[j].ts
Least == /\ Ascends(buffered)
         /\ file.kind = "sparse" =>
                /\ Name.min = file.min /\ file.min \in Nat
                /\ \A p \in Range(written) : file.min <= p.ts

LEMMA NothingAscends == Ascends(<<>>)
BY DEF Ascends

LEMMA InitLeast == ASSUME Init PROVE Least
<1>1. PICK d \in Listed \union {[object |-> NoFile]} : file = d.object
  BY DEF Init
<1>2. file.kind # "sparse"
  <2>1. CASE d \in Listed
    <3>1. file \in DenseObject \/ file \in ConstantObject
      BY <1>1, <2>1, ListedAssumption
    <3> QED
      BY <3>1, Kinds
  <2>2. CASE d = [object |-> NoFile]
    BY <1>1, <2>2, Kinds
  <2> QED
    BY <1>1, <2>1, <2>2
<1>3. buffered = <<>>
  BY DEF Init
<1> QED
  BY <1>2, <1>3, NothingAscends DEF Least

LEMMA LeastStill ==
    ASSUME Least, UNCHANGED <<file, fpc, moving, written>>, Ascends(buffered')
    PROVE  Least'
<1>1. Name' = Name
  BY DEF Name, GetPath
<1>2. Ascends(buffered)' = Ascends(buffered')
  BY DEF Ascends
<1> QED
  BY <1>1, <1>2 DEF Least

\* A step of the flusher's renames and marks.
LEMMA LeastMoved ==
    ASSUME Least, file.kind = "sparse", file' \in SparseName, file'.min = file.min,
           Name' \in {file, file'}, written' = written, buffered' \in {buffered, <<>>}
    PROVE  Least'
<1>1. Ascends(buffered)'
  BY NothingAscends DEF Least, Ascends
<1> QED
  BY <1>1 DEF Least

LEMMA WriteSparseLeast == ASSUME IInv, Least, WriteSparse PROVE Least'
<1> DEFINE f == IF file.kind = "sparse" THEN file
                ELSE [kind |-> "sparse", min |-> First, max |-> First, opt |-> FALSE]
           max == Max({f.max, buffered[Len(buffered)].ts})
<1>1. /\ file' = [f EXCEPT !.max = max] /\ moving' = GetPath(f)
      /\ fpc' \in {"moving", "sizing"}
      /\ written' = written \o buffered /\ buffered' = buffered
      /\ file.kind \in {"none", "sparse"}
      /\ file.kind = "sparse" => First >= file.min
      /\ buffered # <<>>
  BY DEF WriteSparse, Flushes
<1>2. buffered \in Seq(Point) /\ written \in Seq(Point) /\ 1 \in 1..Len(buffered)
  <2>1. buffered \in Seq(Point) /\ written \in Seq(Point)
    BY DEF IInv
  <2> QED
    BY <1>1, <2>1
<1>3. First \in Nat
  BY <1>2, PointAt DEF First
<1>4. IInv'
  <2>1. WriteSparse
    OBVIOUS
  <2> QED
    BY <2>1, WriteSparseKeeps
<1> HIDE DEF max
<1>5. /\ f.min \in Nat /\ f.min <= First /\ file'.min = f.min /\ file'.kind = "sparse" /\ f.kind = "sparse"
      /\ \A p \in Range(written) : f.min <= p.ts
  <2>1. CASE file.kind = "sparse"
    <3>1. file \in SparseName
      BY <2>1, SparseIs
    <3> QED
      BY <1>1, <1>3, <2>1, <3>1 DEF Least, SparseName
  <2>2. CASE file.kind = "none"
    <3>1. f = [kind |-> "sparse", min |-> First, max |-> First, opt |-> FALSE]
      BY <2>2
    <3>2. f.min = First /\ f.kind = "sparse" /\ file'.min = f.min /\ file'.kind = f.kind
      <4> HIDE DEF f
      <4> QED
        BY <1>1, <3>1
    <3>3. written = <<>>
      BY <2>2, Kinds DEF IInv, OneFile
    <3>4. Range(written) = {}
      BY <3>3 DEF Range
    <3> QED
      BY <1>3, <3>2, <3>4
  <2> QED
    BY <1>1, <2>1, <2>2
<1> HIDE DEF f
<1>6. \A p \in Range(buffered) : First <= p.ts
  <2> TAKE p \in Range(buffered)
  <2>1. PICK i \in 1..Len(buffered) : p = buffered[i]
    BY <1>2, ElementsOf
  <2>2. CASE i = 1
    BY <1>3, <2>1, <2>2 DEF First
  <2>3. CASE i # 1
    BY <1>2, <2>1, <2>3 DEF Least, Ascends, First
  <2> QED
    BY <2>2, <2>3
<1>7. ASSUME NEW p \in Range(written') PROVE f.min <= p.ts
  <2>1. p \in Range(written) \/ p \in Range(buffered)
    BY <1>1, <1>2, JoinedIs
  <2>2. CASE p \in Range(buffered)
    <3>1. p \in Point /\ First <= p.ts
      BY <1>2, <1>6, <2>2, ElementsOf
    <3>2. p.ts \in Int /\ First \in Int /\ f.min \in Int
      BY <1>3, <1>5, <3>1 DEF Point
    <3> QED
      BY <1>5, <3>1, <3>2
  <2> QED
    BY <1>5, <2>1, <2>2
<1>8. Name'.min = f.min
  <2>1. file' \in SparseName /\ GetPath(file') = file'
    <3>1. file' \in SparseName
      BY <1>4, <1>5, Kinds DEF IInv, OneFile
    <3> QED
      BY <3>1, PathOf
  <2>2. GetPath(f).min = f.min
    BY <1>5 DEF GetPath
  <2>3. Name' \in {moving', GetPath(file')}
    BY DEF Name, GetPath
  <2> QED
    BY <1>1, <1>5, <2>1, <2>2, <2>3
<1>9. Ascends(buffered)'
  BY <1>1 DEF Least, Ascends
<1> QED
  BY <1>5, <1>7, <1>8, <1>9 DEF Least

LEMMA FlusherLeast ==
    ASSUME IInv, Least, MoveToMax \/ FileIsTooBig \/ Mark \/ MoveToMarked \/ LeaveIt
    PROVE  Least'
<1>1. /\ fpc # "idle" /\ written' = written /\ buffered' \in {buffered, <<>>}
      /\ file' \in {file, [file EXCEPT !.opt = TRUE]}
  BY DEF MoveToMax, FileIsTooBig, Mark, MoveToMarked, LeaveIt, Sized
<1>2. file.kind = "sparse" /\ file \in SparseName /\ GetPath(file) = file
  BY <1>1, NotIdleIsSparse, SparseIs
<1>3. file' \in SparseName /\ file'.min = file.min
  BY <1>1, <1>2 DEF SparseName
<1>4. GetPath(file)' = file'
  <2>1. GetPath(file)' = GetPath(file')
    BY DEF GetPath
  <2> QED
    BY <1>3, <2>1, PathOf
<1>5. Name' \in {file, file'}
  <2>1. CASE Mark
    BY <1>2, <1>4, <2>1 DEF Mark, Name
  <2>2. CASE ~Mark
    <3>1. fpc' \notin {"moving", "marking"}
      BY <2>2 DEF MoveToMax, FileIsTooBig, MoveToMarked, LeaveIt
    <3> QED
      BY <1>4, <3>1 DEF Name
  <2> QED
    BY <2>1, <2>2
<1> QED
  BY <1>1, <1>2, <1>3, <1>5, LeastMoved

LEMMA RestartLeast == ASSUME IInv, Least, Restart PROVE Least'
<1>1. file' \in Listings /\ buffered' = <<>> /\ fpc' = "idle" /\ written' = written /\ disk' = disk
  BY DEF Restart
<1>2. Ascends(buffered)'
  BY <1>1, NothingAscends
<1>3. CASE file'.kind # "sparse"
  BY <1>2, <1>3 DEF Least
<1>4. CASE file'.kind = "sparse"
  <2>1. IInv'
    BY RestartKeeps
  <2>2. file' \in SparseName /\ GetPath(file') = file'
    <3>1. file' \in SparseName
      BY <1>4, <2>1, Kinds DEF IInv, OneFile
    <3> QED
      BY <3>1, PathOf
  <2>3. Name' = file'
    <3>1. Name' = GetPath(file')
      BY <1>1 DEF Name, GetPath
    <3> QED
      BY <2>2, <3>1
  <2>4. PICK n \in DOMAIN disk : file' = Object(n)
    BY <1>1, <1>4, Kinds DEF Listings
  <2>5. n.kind = "sparse"
    <3>1. CASE n.kind = "dense"
      BY <1>4, <2>4, <3>1 DEF Object
    <3>2. CASE n.kind = "constant"
      BY <1>4, <2>4, <3>2 DEF Object
    <3>3. n.kind \in {"sparse", "dense", "constant"}
      <4>1. CASE file \in SparseName /\ Name \in SparseName /\ DOMAIN disk = {Name}
        BY <4>1, Kinds
      <4>2. CASE file \in DenseObject /\ DOMAIN disk = {GetPath(file)}
        BY <4>2, PathOf
      <4>3. CASE DOMAIN disk \subseteq ConstantName
        BY <4>3, Kinds
      <4> QED
        BY <4>1, <4>2, <4>3 DEF IInv, OneFile
    <3> QED
      BY <3>1, <3>2, <3>3
  <2>6. file' = n
    BY <2>4, <2>5 DEF Object
  <2>7. file \in SparseName /\ n = Name
    <3>1. CASE file \in SparseName /\ Name \in SparseName /\ DOMAIN disk = {Name}
      BY <3>1
    <3>2. CASE file \in DenseObject /\ DOMAIN disk = {GetPath(file)}
      BY <2>5, <3>2, PathOf
    <3>3. CASE DOMAIN disk \subseteq ConstantName
      BY <2>5, <3>3, Kinds
    <3> QED
      BY <3>1, <3>2, <3>3 DEF IInv, OneFile
  <2>8. file.kind = "sparse"
    BY <2>7, Kinds
  <2>9. file'.min = file.min
    BY <2>6, <2>7, <2>8 DEF Least
  <2> QED
    BY <1>1, <1>2, <2>3, <2>8, <2>9 DEF Least
<1> QED
  BY <1>3, <1>4

LEMMA StepLeast == ASSUME IInv, Least, [Next]_vars PROVE Least'
<1>1. ASSUME NEW b \in Batch, Arrive(b) PROVE Least'
  <2>1. Ascends(b)
    BY BatchAssumption DEF Ascends
  <2>2. buffered' = b /\ UNCHANGED <<file, fpc, moving, written>>
    BY <1>1 DEF Arrive
  <2> QED
    BY <2>1, <2>2, LeastStill
<1>2. CASE Restart
  BY <1>2, RestartLeast
<1>3. CASE Flusher
  <2>1. CASE WriteDense
    <3>1. file'.kind = "dense" /\ buffered' = <<>>
      BY <2>1 DEF WriteDense
    <3> QED
      BY <3>1, NothingAscends DEF Least
  <2> QED
    BY <1>2, <1>3, <2>1, WriteSparseLeast, FlusherLeast DEF Flusher, WriteConstant
<1>4. CASE Task
  <2>1. UNCHANGED <<fpc, moving, written, buffered>>
    BY <1>4 DEF Task, Handle, FileGone, OpenIt, ReadIt, Convert, flushvars
  <2>2. file' = file \/ file'.kind = "dense"
    BY <1>4 DEF Task, Handle, FileGone, OpenIt, ReadIt, Convert
  <2>3. Ascends(buffered') /\ Ascends(buffered)'
    BY <2>1 DEF Least, Ascends
  <2> QED
    BY <2>1, <2>2, <2>3, LeastStill DEF Least
<1>5. CASE UNCHANGED <<file, fpc, moving, written, buffered>>
  <2>1. Ascends(buffered')
    BY <1>5 DEF Least
  <2> QED
    BY <1>5, <2>1, LeastStill
<1>6. ASSUME NEW r \in ReadRange, NEW size \in BufferSize, BeginRead(r, size) PROVE Least'
  BY <1>5, <1>6 DEF BeginRead, flushvars
<1>7. CASE Chunk
  BY <1>5, <1>7 DEF Chunk, flushvars
<1>8. CASE UNCHANGED vars
  BY <1>5, <1>8 DEF vars, flushvars
<1> QED
  BY <1>1, <1>2, <1>3, <1>4, <1>6, <1>7, <1>8 DEF Next

----------------------------------------------------------------------------
(* What the loops miss of points that are apart: only what begins where the  *)
(* operation goes on once it is full.                                        *)

Given(o, t) == \E p \in Range(o.out) : p.ts = t
Later(o, t) == ~SpaceLeft(o) /\ o.next <= t
Misses(from, end, pts, o) ==
    \A p \in Range(pts) : from <= p.ts /\ p.ts < end => Given(o, p.ts) \/ Later(o, p.ts)

LEMMA PutGives == ASSUME NEW o \in Op, NEW p \in Out
                  PROVE  /\ Given(Put(o, p), p.ts)
                         /\ \A t : Given(o, t) => Given(Put(o, p), t)
BY PutTakes DEF Given

\* The sorted points have the order and the distances of the points.
SortedApart(ps) ==
    /\ \A k, l \in 1..Len(ps) : k <= l => ps[k].ts <= ps[l].ts
    /\ \A k, l \in 1..Len(ps) : ps[k].ts < ps[l].ts => End(ps[k]) <= ps[l].ts
    /\ \A k \in 1..Len(ps) : ps[k] \in Point /\ ps[k].ts \in Int /\ End(ps[k]) \in Int /\ ps[k].ts < End(ps[k])

LEMMA ApartSorts ==
    ASSUME NEW pts \in Seq(Point), Apart(pts)
    PROVE  SortedApart(Sorted(pts))
<1> DEFINE ps == Sorted(pts)
<1>1. ps \in Seq(Point) /\ Len(ps) = Len(pts) /\ Range(ps) = Range(pts)
  BY SortedIs, SortedTimes
<1>2. \A k, l \in 1..Len(ps) : k <= l => ps[k].ts <= ps[l].ts
  BY <1>1, SortedTimes
<1> HIDE DEF ps
<1>3. \A k \in 1..Len(ps) : ps[k] \in Range(pts) /\ ps[k] \in Point
  BY <1>1, ElementsOf
<1>4. \A k \in 1..Len(ps) : ps[k].ts \in Int /\ End(ps[k]) \in Int /\ ps[k].ts < End(ps[k])
  BY <1>3, EndOf, OutOfPoint
<1>5. \A k, l \in 1..Len(ps) : ps[k].ts < ps[l].ts => End(ps[k]) <= ps[l].ts
  BY <1>3 DEF Apart
<1> QED
  BY <1>2, <1>3, <1>4, <1>5 DEF SortedApart, ps

----------------------------------------------------------------------------
(* SparseFile::Read.                                                         *)

\* next_time after the first k points.
Stands(o, from, ps, k) == o.next = from \/ \E j \in 1..k : o.next = End(ps[j])
SparseHas(r, from, end, ps, k) ==
    /\ Stands(r.op, from, ps, k)
    /\ \A l \in 1..k : from <= ps[l].ts /\ ps[l].ts < end => Given(r.op, ps[l].ts) \/ Later(r.op, ps[l].ts)
    /\ ~r.goes => ~SpaceLeft(r.op) \/ \E l \in 1..k : ps[l].ts >= end

LEMMA LookedGives ==
    ASSUME NEW ps \in Seq(Point), SortedApart(ps), NEW i \in 1..Len(ps), NEW from \in Int, NEW end \in Int,
           NEW r \in State, r.op.end = end, SparseHas(r, from, end, ps, i - 1)
    PROVE  SparseHas(Looked(r, ps, i, from), from, end, ps, i)
<1> DEFINE q == Looked(r, ps, i, from)
           v == Version(ps, i)
           t == ps[i].ts
<1>1. /\ r.op \in Op /\ r.op.next \in Int /\ r.goes \in BOOLEAN /\ Len(ps) \in Nat
      /\ r = [op |-> r.op, goes |-> r.goes]
  BY OpFields DEF State
<1>2. v \in Out /\ v.ts = t /\ End(v) = End(ps[i])
  BY VersionIsPoint DEF End
<1>3. t \in Int /\ \A k \in 1..Len(ps) : ps[k].ts \in Int /\ End(ps[k]) \in Int
  BY DEF SortedApart
<1>4. \A j \in 1..(i - 1) : j \in 1..Len(ps) /\ j \in 1..i
  BY <1>1
<1>5. \A j \in 1..i : j = i \/ j \in 1..(i - 1)
  OBVIOUS
<1>6. Stands(r.op, from, ps, i)
  BY <1>4 DEF SparseHas, Stands
<1> HIDE DEF v, t
<1>7. CASE t < from
  <2>1. q = r
    BY <1>7 DEF Looked, t
  <2> HIDE DEF q
  <2>2. ~(from <= t)
    BY <1>3, <1>7
  <2> QED
    BY <1>4, <1>5, <1>6, <2>1, <2>2 DEF SparseHas, t, q
<1>8. CASE i > 1 /\ ps[i - 1].ts = t
  <2>1. q = r
    BY <1>8 DEF Looked, t
  <2>2. i - 1 \in 1..(i - 1)
    BY <1>8
  <2> HIDE DEF q
  <2> QED
    BY <1>4, <1>5, <1>6, <1>8, <2>1, <2>2 DEF SparseHas, t, q
<1>9. CASE ~(t < from) /\ ~(i > 1 /\ ps[i - 1].ts = t)
  <2>1. \A j \in 1..(i - 1) : ps[j].ts < t /\ End(ps[j]) <= t
    <3> TAKE j \in 1..(i - 1)
    <3>1. i - 1 \in 1..Len(ps) /\ i > 1 /\ j <= i - 1 /\ i - 1 <= i /\ j \in 1..Len(ps)
      BY <1>1
    <3>2. ps[j].ts <= ps[i - 1].ts /\ ps[i - 1].ts <= t /\ ps[i - 1].ts # t
      BY <1>9, <3>1 DEF SortedApart, t
    <3>3. ps[j].ts < t
      BY <1>3, <3>1, <3>2, SMTT(30)
    <3> QED
      BY <3>1, <3>3 DEF SortedApart, t
  <2>2. r.op.next <= t
    <3>1. CASE r.op.next = from
      BY <1>1, <1>3, <1>9, <3>1
    <3>2. CASE \E j \in 1..(i - 1) : r.op.next = End(ps[j])
      BY <2>1, <3>2
    <3> QED
      BY <3>1, <3>2 DEF SparseHas, Stands
  <2>3. CASE r.goes /\ Goes(r.op, ps[i])
    <3>1. q = [r EXCEPT !.op = Put(r.op, v)]
      BY <1>9, <2>3 DEF Looked, t, v
    <3>2. q.op = Put(r.op, v) /\ q.goes = r.goes
      BY <1>1, <3>1
    <3> HIDE DEF q
    <3>3. q.op.next = End(ps[i]) /\ Given(q.op, t) /\ \A u : Given(r.op, u) => Given(q.op, u)
      BY <1>1, <1>2, <3>2, PutIs, PutGives
    <3>4. SpaceLeft(r.op)
      BY <2>3 DEF Goes
    <3>5. \A l \in 1..i : from <= ps[l].ts /\ ps[l].ts < end => Given(q.op, ps[l].ts) \/ Later(q.op, ps[l].ts)
      BY <1>5, <3>3, <3>4 DEF SparseHas, Later, t
    <3>6. Stands(q.op, from, ps, i)
      BY <3>3 DEF Stands
    <3> QED
      BY <2>3, <3>2, <3>5, <3>6 DEF SparseHas, q
  <2>4. CASE ~(r.goes /\ Goes(r.op, ps[i]))
    <3>1. q = [r EXCEPT !.goes = FALSE]
      BY <1>9, <2>4 DEF Looked, t
    <3>2. q.op = r.op /\ q.goes = FALSE
      BY <1>1, <3>1
    <3> HIDE DEF q
    <3>3. t < end => ~SpaceLeft(r.op)
      <4> SUFFICES ASSUME t < end, SpaceLeft(r.op) PROVE FALSE
        OBVIOUS
      <4>1. r.goes
        <5> SUFFICES ASSUME ~r.goes PROVE FALSE
          OBVIOUS
        <5>1. PICK l \in 1..(i - 1) : ps[l].ts >= end
          BY DEF SparseHas
        <5> QED
          BY <1>3, <1>4, <2>1, <5>1
      <4>2. ~(r.op.next >= end)
        BY <1>1, <1>3, <2>2
      <4>3. Goes(r.op, ps[i])
        BY <1>1, <1>3, <2>2, <4>2 DEF Goes, Complete, t
      <4> QED
        BY <2>4, <4>1, <4>3
    <3>4. \A l \in 1..i : from <= ps[l].ts /\ ps[l].ts < end => Given(q.op, ps[l].ts) \/ Later(q.op, ps[l].ts)
      BY <1>5, <2>2, <3>2, <3>3 DEF SparseHas, Later, t
    <3>5. ~SpaceLeft(r.op) \/ \E l \in 1..i : ps[l].ts >= end
      <4>1. i \in 1..i
        OBVIOUS
      <4>2. t < end \/ t >= end
        BY <1>3
      <4> QED
        BY <3>3, <4>1, <4>2 DEF t
    <3> QED
      BY <1>6, <3>2, <3>4, <3>5 DEF SparseHas, q
  <2> QED
    BY <2>3, <2>4
<1> QED
  BY <1>7, <1>8, <1>9

LEMMA SparseGives ==
    ASSUME NEW d, NEW o, Delivers(d, o), NEW pts \in Seq(Point), Apart(pts)
    PROVE  /\ Misses(o.next, o.end, pts, SparseRead(o, pts))
           /\ \/ SparseRead(o, pts).next = o.next
              \/ \E p \in Range(pts) : SparseRead(o, pts).next = End(p)
<1> DEFINE ps == Sorted(pts)
           n == Len(ps)
           from == o.next
           end == o.end
<1>1. /\ o \in Op /\ n \in Nat /\ ps \in Seq(Point) /\ SortedApart(ps) /\ Range(ps) = Range(pts)
      /\ from \in Int /\ end \in Int
  BY SortedIs, SortedTimes, ApartSorts, OpFields DEF Delivers
<1>2. PICK f \in [0..n -> State] :
               /\ f[0] = [op |-> o, goes |-> TRUE]
               /\ \A k \in 1..n : f[k] = Looked(f[k - 1], ps, k, from)
               /\ SparseRead(o, pts) = f[n].op
  BY <1>1, SparseLoop
<1> DEFINE I == {k \in Nat : k <= n => Delivers(d, f[k].op) /\ f[k].op.end = end /\ SparseHas(f[k], from, end, ps, k)}
<1> HIDE DEF n, ps, from, end
<1>3. 0 \in I
  <2>1. f[0].op = o /\ f[0].goes = TRUE
    BY <1>2
  <2>2. SparseHas(f[0], from, end, ps, 0)
    BY <2>1 DEF SparseHas, Stands, from
  <2> QED
    BY <2>1, <2>2 DEF end
<1>4. ASSUME NEW k \in Nat, k \in I PROVE k + 1 \in I
  <2> SUFFICES ASSUME k + 1 <= n
               PROVE  Delivers(d, f[k + 1].op) /\ f[k + 1].op.end = end /\ SparseHas(f[k + 1], from, end, ps, k + 1)
    OBVIOUS
  <2>1. k \in 0..n /\ k + 1 \in 1..n /\ (k + 1) - 1 = k
    BY <1>1
  <2>2. /\ Delivers(d, f[k].op) /\ f[k].op.end = end /\ f[k] \in State
        /\ SparseHas(f[k], from, end, ps, (k + 1) - 1)
    BY <1>2, <1>4, <2>1
  <2>3. f[k + 1] = Looked(f[k], ps, k + 1, from) /\ k + 1 \in 1..Len(ps)
    BY <1>2, <2>1 DEF n
  <2>4. Delivers(d, f[k + 1].op) /\ Kept(f[k].op, f[k + 1].op)
    BY <1>1, <2>2, <2>3, LookedDelivers
  <2>5. SparseHas(f[k + 1], from, end, ps, k + 1)
    <3> DEFINE i == k + 1
    <3> HIDE DEF i
    <3>1. i \in 1..Len(ps) /\ SparseHas(f[k], from, end, ps, i - 1)
      BY <2>2, <2>3 DEF i
    <3>2. SparseHas(Looked(f[k], ps, i, from), from, end, ps, i)
      BY <1>1, <2>2, <3>1, LookedGives
    <3> QED
      BY <2>3, <3>2 DEF i
  <2> QED
    BY <2>2, <2>4, <2>5 DEF Kept
<1>5. I = Nat
  <2>1. I \in SUBSET Nat
    OBVIOUS
  <2> HIDE DEF I
  <2> QED
    BY <1>3, <1>4, <2>1, Induction
<1>6. SparseHas(f[n], from, end, ps, n)
  BY <1>1, <1>5
<1> HIDE DEF I
<1>7. /\ \A k \in 1..n : ps[k] \in Range(pts)
      /\ \A p \in Range(pts) : \E k \in 1..n : p = ps[k]
  BY <1>1, ElementsOf DEF n
<1>8. Misses(from, end, pts, f[n].op)
  BY <1>6, <1>7 DEF SparseHas, Misses
<1>9. f[n].op.next = from \/ \E p \in Range(pts) : f[n].op.next = End(p)
  BY <1>6, <1>7 DEF SparseHas, Stands
<1> QED
  BY <1>2, <1>8, <1>9 DEF from, end

----------------------------------------------------------------------------
(* Series::Read of the buffer.                                               *)

BufferHas(o, from, end, ps, k) ==
    /\ o.next = from \/ \E j \in 1..k : o.next = End(ps[j]) /\ Given(o, ps[j].ts)
    /\ \A l \in 1..k : from <= ps[l].ts /\ ps[l].ts < end => Given(o, ps[l].ts) \/ Later(o, ps[l].ts)

LEMMA InRangeGives ==
    ASSUME NEW ps \in Seq(Point), SortedApart(ps), NEW i \in 1..Len(ps), NEW from \in Int, NEW end \in Int,
           NEW r \in Op, r.end = end, BufferHas(r, from, end, ps, i - 1)
    PROVE  BufferHas(PutInRange(r, ps[i]), from, end, ps, i)
<1> DEFINE q == PutInRange(r, ps[i])
           p == ps[i]
           t == ps[i].ts
<1>1. r.next \in Int /\ Len(ps) \in Nat /\ p \in Out
  BY OpFields, PointAt, OutOfPoint
<1>2. t \in Int /\ \A k \in 1..Len(ps) : ps[k].ts \in Int /\ End(ps[k]) \in Int
  BY DEF SortedApart
<1>3. \A j \in 1..(i - 1) : j \in 1..Len(ps) /\ j \in 1..i
  BY <1>1
<1>4. \A j \in 1..i : j = i \/ j \in 1..(i - 1)
  OBVIOUS
<1>5. q = r \/ (q = Put(r, p) /\ SpaceLeft(r))
  BY DEF PutInRange
<1>6. CASE q = Put(r, p) /\ SpaceLeft(r)
  <2> HIDE DEF q, p
  <2>1. q.next = End(p) /\ Given(q, p.ts) /\ \A u : Given(r, u) => Given(q, u)
    BY <1>1, <1>6, PutIs, PutGives
  <2>2. \A l \in 1..i : from <= ps[l].ts /\ ps[l].ts < end => Given(q, ps[l].ts) \/ Later(q, ps[l].ts)
    BY <1>4, <1>6, <2>1 DEF BufferHas, Later, p
  <2>3. \E j \in 1..i : q.next = End(ps[j]) /\ Given(q, ps[j].ts)
    <3>1. i \in 1..i
      OBVIOUS
    <3> QED
      BY <2>1, <3>1 DEF p
  <2> QED
    BY <2>2, <2>3 DEF BufferHas, q
<1>7. CASE q = r
  <2>1. from <= t /\ t < end => Given(r, t) \/ Later(r, t)
    <3> SUFFICES ASSUME from <= t, t < end, ~Given(r, t) PROVE Later(r, t)
      OBVIOUS
    <3>1. r.next <= t
      <4>1. CASE r.next = from
        BY <4>1
      <4>2. CASE \E j \in 1..(i - 1) : r.next = End(ps[j]) /\ Given(r, ps[j].ts)
        <5>1. PICK j \in 1..(i - 1) : r.next = End(ps[j]) /\ Given(r, ps[j].ts)
          BY <4>2
        <5>2. j \in 1..Len(ps) /\ j <= i
          BY <1>3
        <5>3. ps[j].ts <= t /\ ps[j].ts # t
          BY <5>1, <5>2 DEF SortedApart
        <5>4. ps[j].ts < t
          BY <1>2, <5>2, <5>3
        <5> QED
          BY <5>1, <5>2, <5>4 DEF SortedApart
      <4> QED
        BY <4>1, <4>2 DEF BufferHas
    <3>2. ~Complete(r) /\ p.ts >= r.next /\ p.ts < r.end
      BY <1>1, <1>2, <3>1 DEF Complete
    <3>3. SpaceLeft(r) => q.next = End(p) /\ t < End(p)
      <4> SUFFICES ASSUME SpaceLeft(r) PROVE q.next = End(p) /\ t < End(p)
        OBVIOUS
      <4>1. q = Put(r, p)
        BY <3>2 DEF PutInRange
      <4>2. p.ts < End(p)
        BY <1>1, EndOf
      <4> HIDE DEF q
      <4> QED
        BY <1>1, <4>1, <4>2, PutIs
    <3>4. ~SpaceLeft(r)
      BY <1>1, <1>2, <1>7, <3>1, <3>3
    <3> QED
      BY <3>1, <3>4 DEF Later
  <2> HIDE DEF q
  <2>2. \A l \in 1..i : from <= ps[l].ts /\ ps[l].ts < end => Given(q, ps[l].ts) \/ Later(q, ps[l].ts)
    BY <1>4, <1>7, <2>1 DEF BufferHas
  <2> QED
    BY <1>3, <1>7, <2>2 DEF BufferHas, q
<1> QED
  BY <1>5, <1>6, <1>7

LEMMA BufferGives ==
    ASSUME NEW d, NEW o, Delivers(d, o), NEW pts \in Seq(Point), Apart(pts)
    PROVE  Misses(o.next, o.end, pts, BufferRead(o, pts))
<1> DEFINE ps == Sorted(pts)
           n == Len(ps)
           from == o.next
           end == o.end
<1>1. /\ o \in Op /\ n \in Nat /\ ps \in Seq(Point) /\ SortedApart(ps) /\ Range(ps) = Range(pts)
      /\ from \in Int /\ end \in Int
  BY SortedIs, SortedTimes, ApartSorts, OpFields DEF Delivers
<1>2. PICK f \in [0..n -> Op] :
               /\ f[0] = o
               /\ \A k \in 1..n : f[k] = PutInRange(f[k - 1], ps[k])
               /\ BufferRead(o, pts) = f[n]
  BY <1>1, BufferLoop
<1> DEFINE I == {k \in Nat : k <= n => f[k].end = end /\ BufferHas(f[k], from, end, ps, k)}
<1> HIDE DEF n, ps, from, end
<1>3. 0 \in I
  BY <1>2 DEF BufferHas, from, end
<1>4. ASSUME NEW k \in Nat, k \in I PROVE k + 1 \in I
  <2> SUFFICES ASSUME k + 1 <= n
               PROVE  f[k + 1].end = end /\ BufferHas(f[k + 1], from, end, ps, k + 1)
    OBVIOUS
  <2>1. k \in 0..n /\ k + 1 \in 1..n /\ (k + 1) - 1 = k
    BY <1>1
  <2>2. f[k].end = end /\ f[k] \in Op /\ BufferHas(f[k], from, end, ps, (k + 1) - 1)
    BY <1>2, <1>4, <2>1
  <2>3. f[k + 1] = PutInRange(f[k], ps[k + 1]) /\ k + 1 \in 1..Len(ps)
    BY <1>2, <2>1 DEF n
  <2>4. f[k + 1].end = end
    <3>1. ps[k + 1] \in Out
      BY <1>1, <2>3, PointAt, OutOfPoint
    <3> QED
      BY <2>2, <2>3, <3>1, PutIs DEF PutInRange
  <2>5. BufferHas(f[k + 1], from, end, ps, k + 1)
    <3> DEFINE i == k + 1
    <3> HIDE DEF i
    <3>1. i \in 1..Len(ps) /\ BufferHas(f[k], from, end, ps, i - 1)
      BY <2>2, <2>3 DEF i
    <3>2. BufferHas(PutInRange(f[k], ps[i]), from, end, ps, i)
      BY <1>1, <2>2, <3>1, InRangeGives
    <3> QED
      BY <2>3, <3>2 DEF i
  <2> QED
    BY <2>4, <2>5
<1>5. I = Nat
  <2>1. I \in SUBSET Nat
    OBVIOUS
  <2> HIDE DEF I
  <2> QED
    BY <1>3, <1>4, <2>1, Induction
<1>6. BufferHas(f[n], from, end, ps, n)
  BY <1>1, <1>5
<1> HIDE DEF I
<1>7. \A p \in Range(pts) : \E k \in 1..n : p = ps[k]
  BY <1>1, ElementsOf DEF n
<1>8. Misses(from, end, pts, f[n])
  BY <1>6, <1>7 DEF BufferHas, Misses
<1> QED
  BY <1>2, <1>8 DEF from, end

\* Series::Read takes nothing away; and nothing of the buffer if the file filled it.
LEMMA BufferKeeps ==
    ASSUME NEW o \in Op, NEW pts \in Seq(Point)
    PROVE  /\ Range(o.out) \subseteq Range(BufferRead(o, pts).out)
           /\ \A t : Given(o, t) => Given(BufferRead(o, pts), t)
           /\ ~SpaceLeft(o) => BufferRead(o, pts) = o
<1> DEFINE ps == Sorted(pts)
           n == Len(ps)
           Keeps(q) == Range(o.out) \subseteq Range(q.out) /\ (~SpaceLeft(o) => q = o)
<1>1. n \in Nat /\ ps \in Seq(Point)
  BY SortedIs
<1>2. PICK f \in [0..n -> Op] :
               /\ f[0] = o
               /\ \A k \in 1..n : f[k] = PutInRange(f[k - 1], ps[k])
               /\ BufferRead(o, pts) = f[n]
  BY <1>1, BufferLoop
<1> DEFINE I == {k \in Nat : k <= n => Keeps(f[k])}
<1>3. 0 \in I
  BY <1>2
<1>4. ASSUME NEW k \in Nat, k \in I PROVE k + 1 \in I
  <2> SUFFICES ASSUME k + 1 <= n PROVE Keeps(f[k + 1])
    OBVIOUS
  <2> DEFINE p == ps[k + 1]
  <2>1. k \in 0..n /\ k + 1 \in 1..n /\ (k + 1) - 1 = k
    BY <1>1
  <2>2. Keeps(f[k]) /\ f[k] \in Op /\ f[k + 1] = PutInRange(f[k], p) /\ p \in Out
    <3>1. p \in Out
      BY <1>1, <2>1, PointAt, OutOfPoint
    <3> QED
      BY <1>2, <1>4, <2>1, <3>1, SMTT(30)
  <2> HIDE DEF p, n, ps
  <2>3. CASE f[k + 1] = f[k]
    BY <2>2, <2>3
  <2>4. CASE f[k + 1] = Put(f[k], p) /\ SpaceLeft(f[k])
    <3>1. Range(f[k + 1].out) = Range(f[k].out) \union {p}
      BY <2>2, <2>4, PutTakes
    <3>2. SpaceLeft(o)
      BY <2>2, <2>4
    <3> QED
      BY <2>2, <3>1, <3>2
  <2> QED
    BY <2>2, <2>3, <2>4 DEF PutInRange
<1>5. I = Nat
  <2>1. I \in SUBSET Nat
    OBVIOUS
  <2> HIDE DEF I
  <2> QED
    BY <1>3, <1>4, <2>1, Induction
<1>6. Keeps(f[n])
  <2> HIDE DEF Keeps
  <2> QED
    BY <1>1, <1>5
<1> QED
  BY <1>2, <1>6 DEF Given

----------------------------------------------------------------------------
(* What a read of a sparse file misses.                                      *)

\* A read in progress is the one it was asked for, and of the file as it was.
ReadsOn == reading = "reading" =>
               /\ op.end = asked.end /\ asked.start \in Nat /\ asked.start <= op.next /\ op.size # 0
               /\ asked.covered => Covered
               /\ asked.ordinary => Ordinary

\* A point a read is not to miss.
Sought(p) == \/ p \in Range(asked.had)
             \/ p \in Range(asked.buffered) /\ \A q \in Range(asked.had) : q.ts < p.ts
Gave(t) == \E p \in Range(delivered) : p.ts = t

\* Nothing from before next_time is missed; when the read is done, nothing.
MissedInv ==
    (/\ reading \in {"reading", "done"} /\ asked.kind = "sparse" /\ asked.covered
     /\ Apart(asked.had \o asked.buffered)) =>
        \A p : Sought(p) /\ Asked(p) /\ (reading = "reading" => p.ts < op.next) => Gave(p.ts)

LEMMA BeginOn ==
    ASSUME IInv, NEW r \in ReadRange, NEW size \in BufferSize, BeginRead(r, size)
    PROVE  ReadsOn' /\ MissedInv'
<1>1. /\ delivered' = <<>> /\ reading' = "reading"
      /\ asked'.start = r.start /\ asked'.end = r.end /\ asked'.covered = Covered
      /\ asked'.ordinary = Ordinary
      /\ op'.next = r.start /\ op'.end = r.end /\ op'.size = size
  BY BeginQuiet
<1>2. r.start \in Nat /\ size # 0 /\ r.start <= r.start
  BY ReadsAssumption
<1>3. Covered' = Covered /\ Ordinary' = Ordinary
  BY DEF BeginRead, Covered, Ordinary, flushvars
<1>4. ReadsOn'
  BY <1>1, <1>2, <1>3 DEF ReadsOn
<1>5. MissedInv'
  <2> SUFFICES ASSUME NEW p, Sought(p)', Asked(p)', p.ts < op'.next PROVE FALSE
    BY <1>1 DEF MissedInv
  <2>1. p.ts >= r.start /\ p.ts < r.start
    BY <1>1 DEF Asked
  <2>2. p.ts \in Int
    <3>1. p \in Range(written) \/ p \in Range(buffered)
      BY DEF Sought, BeginRead
    <3>2. p \in Point
      BY <3>1, ElementsOf DEF IInv
    <3> QED
      BY <3>2 DEF Point
  <2> QED
    BY <1>2, <2>1, <2>2
<1> QED
  BY <1>4, <1>5

\* The directory of a sparse file misses what its loop does: the file's times tell when
\* it is left out.
LEMMA DirectoryGives ==
    ASSUME IInv, ApartInv, Quiet, Least, ReadsOn, reading = "reading", asked.kind = "sparse", asked.covered,
           Apart(written)
    PROVE  /\ Misses(op.next, op.end, written, ReadChunk(op))
           /\ ReadChunk(op).next = op.next \/ \E p \in Range(written) : ReadChunk(op).next = End(p)
           /\ Delivers(delivered, ReadChunk(op)) /\ Kept(op, ReadChunk(op))
<1>1. /\ file.kind = "sparse" /\ file \in SparseName /\ Content = written /\ file # NoFile
      /\ written \in Seq(Point)
  <2>1. file.kind = "sparse" /\ fpc = "idle"
    BY DEF Quiet
  <2> QED
    BY <2>1, ContentIs, Kinds DEF IInv
<1>2. op \in Op /\ op.out = <<>> /\ Delivers(delivered, op) /\ op.next \in Int /\ op.end \in Int
  <2>1. delivered \o <<>> = delivered
    BY DEF ApartInv
  <2> QED
    BY <2>1, OpFields DEF ApartInv, Delivers
<1>3. ReadChunk(op) = DirectoryRead(op, file, written)
  BY <1>1 DEF ReadChunk, Content
<1>4. FileRead(op, file, written) = SparseRead(op, written)
  BY <1>1 DEF FileRead
<1>5. CASE SpaceLeft(op) /\ ~Complete(op) /\ file.max >= op.next /\ file.min < op.end
  <2>1. ReadChunk(op) = SparseRead(op, written)
    BY <1>3, <1>4, <1>5 DEF DirectoryRead
  <2> QED
    BY <1>1, <1>2, <2>1, SparseGives, SparseDelivers
<1>6. CASE ~(SpaceLeft(op) /\ ~Complete(op) /\ file.max >= op.next /\ file.min < op.end)
  <2>1. ReadChunk(op) = op
    BY <1>3, <1>6 DEF DirectoryRead
  <2>2. SpaceLeft(op)
    <3>1. Len(op.out) = 0
      BY <1>2
    <3> QED
      BY <3>1 DEF SpaceLeft, DatapointsInBuffer, ReadsOn
  <2>3. file.min \in Int /\ file.max \in Int
    BY <1>1 DEF SparseName
  <2>4. ASSUME NEW p \in Range(written), op.next <= p.ts, p.ts < op.end PROVE FALSE
    <3>1. p.ts \in Int
      <4>1. p \in Point
        BY <1>1, ElementsOf
      <4> QED
        BY <4>1 DEF Point
    <3>2. file.min <= p.ts /\ p.ts <= file.max
      BY <1>1 DEF Least, ReadsOn, Covered
    <3> QED
      BY <1>2, <1>6, <2>2, <2>3, <2>4, <3>1, <3>2 DEF Complete
  <2>5. Misses(op.next, op.end, written, op)
    BY <2>4 DEF Misses
  <2> QED
    BY <1>2, <2>1, <2>5, KeptStill
<1> QED
  BY <1>5, <1>6

LEMMA ChunkMisses ==
    ASSUME IInv, ApartInv, Quiet, Least, ReadsOn, MissedInv, Chunk
    PROVE  MissedInv'
<1> SUFFICES ASSUME reading' \in {"reading", "done"}, asked'.kind = "sparse", asked'.covered,
                    Apart(asked'.had \o asked'.buffered),
                    NEW p, Sought(p)', Asked(p)', reading' = "reading" => p.ts < op'.next
             PROVE  Gave(p.ts)'
  BY DEF MissedInv, Apart
<1>1. asked' = asked /\ reading = "reading"
  BY ChunkQuiet DEF Chunk
<1>2. /\ asked.kind = "sparse" /\ asked.covered /\ asked.had = written /\ asked.buffered = buffered
      /\ written \in Seq(Point) /\ buffered \in Seq(Point)
  BY <1>1 DEF Quiet, IInv
<1>3. Sought(p) /\ Asked(p)
  BY <1>1 DEF Sought, Asked
<1>4. Range(written \o buffered) = Range(written) \union Range(buffered)
  BY <1>2, JoinedIs
<1>5. /\ Apart(written) /\ Apart(buffered)
      /\ \A q \in Range(written), u \in Range(buffered) : q.ts < u.ts => End(q) <= u.ts
  BY <1>1, <1>2, <1>4 DEF Apart
<1>6. p \in Point /\ p.ts \in Int
  <2>1. p \in Point
    BY <1>2, <1>3, ElementsOf DEF Sought
  <2> QED
    BY <2>1 DEF Point
<1>7. PICK disked \in Op, b \in Op, o \in Op :
               /\ disked = ReadChunk(op) /\ b = BufferRead(disked, buffered) /\ o = ForceCompletion(b)
               /\ op \in Op /\ o.out = b.out
               /\ delivered' = delivered \o o.out
               /\ reading' = "done" <=> Complete(o) \/ o.out = <<>>
               /\ op' = [o EXCEPT !.out = <<>>]
  BY ChunkIs
<1>8. /\ Misses(op.next, op.end, written, disked)
      /\ disked.next = op.next \/ \E q \in Range(written) : disked.next = End(q)
      /\ Delivers(delivered, disked) /\ Kept(op, disked)
  BY <1>1, <1>2, <1>5, <1>7, DirectoryGives
<1>9. /\ Misses(disked.next, disked.end, buffered, b) /\ Kept(disked, b)
      /\ \A t : Given(disked, t) => Given(b, t)
      /\ ~SpaceLeft(disked) => b = disked
  BY <1>2, <1>5, <1>7, <1>8, BufferGives, BufferDelivers, BufferKeeps
<1>10. /\ op.next \in Int /\ b.next \in Int /\ b.end \in Int /\ disked.next \in Int
       /\ disked.end = op.end /\ b.end = op.end /\ b.size = op.size
       /\ op.end = asked.end /\ op.size # 0
  BY <1>1, <1>7, <1>8, <1>9, OpFields DEF Kept, ReadsOn
<1>11. p.ts < op.end
  BY <1>3, <1>10 DEF Asked
<1>12. /\ Range(delivered') = Range(delivered) \union Range(o.out)
  BY <1>7, OpFields, JoinedIs DEF ApartInv
<1>13. CASE p.ts < op.next
  <2>1. Gave(p.ts)
    BY <1>1, <1>2, <1>3, <1>13 DEF MissedInv
  <2> QED
    BY <1>12, <2>1 DEF Gave
<1>14. CASE op.next <= p.ts
  <2>1. Given(b, p.ts) \/ Later(b, p.ts)
    <3>1. CASE p \in Range(written)
      <4>1. Given(disked, p.ts) \/ Later(disked, p.ts)
        BY <1>8, <1>11, <1>14, <3>1 DEF Misses
      <4> QED
        BY <1>9, <4>1 DEF Later
    <3>2. CASE p \in Range(buffered) /\ \A q \in Range(written) : q.ts < p.ts
      <4>1. disked.next <= p.ts
        BY <1>5, <1>8, <1>14, <3>2
      <4> QED
        BY <1>9, <1>10, <1>11, <3>2, <4>1 DEF Misses
    <3> QED
      BY <1>2, <1>3, <3>1, <3>2 DEF Sought
  <2>2. Given(b, p.ts)
    <3> SUFFICES ASSUME Later(b, p.ts) PROVE FALSE
      BY <2>1
    <3>1. o = b /\ ~SpaceLeft(b) /\ b.next <= p.ts
      BY <1>7 DEF Later, ForceCompletion
    <3>2. ~Complete(o)
      BY <1>6, <1>10, <1>11, <3>1 DEF Complete
    <3>3. o.out # <<>>
      <4>1. Len(<<>>) = 0
        OBVIOUS
      <4> QED
        BY <1>10, <3>1, <4>1 DEF SpaceLeft, DatapointsInBuffer
    <3>4. p.ts < op'.next
      BY <1>7, <3>2, <3>3
    <3>5. op'.next = o.next
      BY <1>7 DEF Op
    <3> QED
      BY <1>6, <1>10, <3>1, <3>4, <3>5
  <2> QED
    BY <1>7, <1>12, <2>2 DEF Given, Gave
<1> QED
  BY <1>6, <1>10, <1>13, <1>14

\* A chunk leaves what was asked for, and goes on in time.
Onward(o, q) == q.end = o.end /\ q.size = o.size /\ o.next <= q.next

LEMMA OnwardOn == ASSUME NEW o, NEW q, NEW r, Kept(o, q), Onward(q, r), r.next \in Int PROVE Onward(o, r)
<1>1. o.next \in Int /\ q.next \in Int
  BY OpFields DEF Kept
<1> QED
  BY <1>1 DEF Kept, Onward

LEMMA DenseOnward ==
    ASSUME NEW d, NEW o, Delivers(d, o), NEW f \in DenseObject, NEW slots \in Seq(Int)
    PROVE  Onward(o, DenseRead(o, f, slots))
<1> DEFINE q == RoundUp(o, f.dur)
<1>1. f.dur \in Nat \ {0} /\ f.min \in Int /\ f.max \in Int /\ f.dur \in Nat
  BY DEF DenseObject
<1>2. Delivers(d, q) /\ q \in Op /\ Kept(o, q)
  BY <1>1, RoundUpDelivers DEF Delivers
<1> HIDE DEF q
<1>3. Slots(q, f, slots) \in Seq(Int)
  BY <1>1, <1>2, SlotsAre
<1>4. Kept(q, AfterSlots(q, f.dur, Slots(q, f, slots)))
  BY <1>1, <1>2, <1>3, SlotsDeliver
<1>5. [q EXCEPT !.thrown = TRUE].end = q.end /\ [q EXCEPT !.thrown = TRUE].size = q.size
      /\ [q EXCEPT !.thrown = TRUE].next = q.next /\ q.next \in Int
  BY <1>2, OpFields DEF Op
<1>6. \/ Kept(q, DenseRead(o, f, slots))
      \/ DenseRead(o, f, slots) = [q EXCEPT !.thrown = TRUE]
  BY <1>2, <1>4, KeptStill DEF DenseRead, q
<1>7. CASE Kept(q, DenseRead(o, f, slots))
  BY <1>2, <1>7, KeptOn DEF Kept, Onward
<1>8. CASE DenseRead(o, f, slots) = [q EXCEPT !.thrown = TRUE]
  BY <1>2, <1>5, <1>8 DEF Kept, Onward
<1> QED
  BY <1>6, <1>7, <1>8

LEMMA ChunkOnward ==
    ASSUME IInv, NEW d, NEW o, Delivers(d, o)
    PROVE  Onward(o, ReadChunk(o))
<1>1. o \in Op /\ Kept(o, o) /\ \A q : Kept(o, q) => Onward(o, q)
  BY KeptStill DEF Delivers, Kept, Onward
<1>2. CASE file = NoFile
  BY <1>1, <1>2 DEF ReadChunk
<1>3. CASE file # NoFile
  <2>1. ReadChunk(o) = DirectoryRead(o, file, Content)
    BY <1>3 DEF ReadChunk, Content
  <2>2. Onward(o, FileRead(o, file, Content))
    <3>1. CASE file \in SparseName /\ Content \in Seq(Point)
      <4>1. file.kind = "sparse"
        BY <3>1, Kinds
      <4> QED
        BY <1>1, <3>1, <4>1, SparseDelivers DEF FileRead
    <3>2. CASE file \in DenseObject /\ Content \in Seq(Int)
      <4>1. file.kind = "dense"
        BY <3>2, Kinds
      <4> QED
        BY <3>2, <4>1, DenseOnward DEF FileRead
    <3>3. CASE file \in ConstantObject
      <4>1. file.kind = "constant"
        BY <3>3, Kinds
      <4>2. Kept(o, ConstantRead(o, file))
        <5> DEFINE q == RoundUp(o, file.dur)
        <5>1. file.dur \in Nat \ {0} /\ file.max \in Int /\ file.dur \in Nat /\ file.val \in Int
          BY <3>3 DEF ConstantObject
        <5>2. Delivers(d, q) /\ q \in Op /\ Kept(o, q)
          BY <5>1, RoundUpDelivers DEF Delivers
        <5> HIDE DEF q
        <5>3. ToRead(q, file) \in Nat
          BY <5>1, <5>2, ToReadIs
        <5>4. Kept(q, AfterValues(q, file.dur, file.val, ToRead(q, file)))
          BY <5>1, <5>2, <5>3, ValuesDeliver
        <5>5. Kept(o, AfterValues(q, file.dur, file.val, ToRead(q, file)))
          BY <5>2, <5>4, KeptOn
        <5> QED
          BY <5>2, <5>5 DEF ConstantRead, q
      <4> QED
        BY <1>1, <4>1, <4>2 DEF FileRead
    <3> QED
      BY <1>3, <3>1, <3>2, <3>3, ContentIs
  <2> QED
    BY <1>1, <2>1, <2>2 DEF DirectoryRead
<1> QED
  BY <1>2, <1>3

LEMMA ChunkOn ==
    ASSUME IInv, ApartInv, Quiet, ReadsOn, Chunk
    PROVE  ReadsOn'
<1> SUFFICES ASSUME reading' = "reading" PROVE ReadsOn'
  BY DEF ReadsOn
<1>1. asked' = asked /\ reading = "reading" /\ UNCHANGED <<file, written, tidy>>
  BY ChunkQuiet DEF Chunk, flushvars
<1>2. PICK disked \in Op, b \in Op, o \in Op :
               /\ disked = ReadChunk(op) /\ b = BufferRead(disked, buffered) /\ o = ForceCompletion(b)
               /\ op \in Op /\ ~(Complete(o) \/ o.out = <<>>)
               /\ op' = [o EXCEPT !.out = <<>>]
  BY ChunkIs
<1>3. Delivers(delivered, op)
  <2>1. op.out = <<>> /\ delivered \o <<>> = delivered
    BY <1>1 DEF ApartInv
  <2> QED
    BY <1>1, <2>1 DEF ApartInv, Delivers
<1>4. Onward(op, disked) /\ Delivers(delivered, disked)
  BY <1>2, <1>3, ChunkOnward, ChunkDelivers
<1>5. Kept(disked, b)
  BY <1>2, <1>4, BufferDelivers DEF IInv
<1>6. o = b
  <2> SUFFICES ASSUME SpaceLeft(b) PROVE FALSE
    BY <1>2 DEF ForceCompletion
  <2>1. o = [b EXCEPT !.next = b.end]
    BY <1>2 DEF ForceCompletion
  <2>2. o.next = b.end /\ o.end = b.end /\ b.end \in Int
    BY <2>1, <1>2, OpFields DEF Op
  <2> QED
    BY <1>2, <2>2 DEF Complete
<1>7. op'.next = b.next /\ op'.end = b.end /\ op'.size = b.size
  BY <1>2, <1>6 DEF Op
<1>8. op.next \in Int /\ disked.next \in Int /\ b.next \in Int
  BY <1>2, OpFields
<1>9. op'.end = op.end /\ op'.size = op.size /\ op.next <= op'.next /\ op'.next \in Int
  BY <1>4, <1>5, <1>7, <1>8 DEF Kept, Onward
<1>10. Covered' = Covered /\ Ordinary' = Ordinary
  BY <1>1 DEF Covered, Ordinary
<1> QED
  BY <1>1, <1>8, <1>9, <1>10 DEF ReadsOn

LEMMA StepMisses ==
    ASSUME IInv, ApartInv, Quiet, Least, ReadsOn, MissedInv, [Next]_vars
    PROVE  ReadsOn' /\ MissedInv'
<1>1. CASE reading' = "none"
  BY <1>1 DEF ReadsOn, MissedInv
<1>2. CASE UNCHANGED readvars /\ (reading = "reading" => UNCHANGED vars)
  <2>1. UNCHANGED <<op, asked, reading, delivered>>
    BY <1>2 DEF readvars
  <2>2. reading = "reading" => Covered' = Covered /\ Ordinary' = Ordinary
    BY <1>2 DEF vars, flushvars, Covered, Ordinary
  <2>3. ReadsOn'
    BY <2>1, <2>2 DEF ReadsOn
  <2>4. \A p : (Sought(p)' <=> Sought(p)) /\ (Asked(p)' <=> Asked(p)) /\ (Gave(p.ts)' <=> Gave(p.ts))
    BY <2>1 DEF Sought, Asked, Gave
  <2>5. MissedInv'
    BY <2>1, <2>4 DEF MissedInv, Apart
  <2> QED
    BY <2>3, <2>5
<1>3. ASSUME NEW r \in ReadRange, NEW size \in BufferSize, BeginRead(r, size) PROVE ReadsOn' /\ MissedInv'
  BY <1>3, BeginOn
<1>4. CASE Chunk
  BY <1>4, ChunkOn, ChunkMisses
<1> QED
  BY <1>1, <1>2, <1>3, <1>4, BesideRead

\* A read in chunks of any size misses no timestamp of a sparse file whose points are
\* apart, nor of the write buffer if it is later than the file's: what a full buffer
\* leaves out begins where the next chunk goes on, and the file is passed over only when
\* its times are out of what is asked for.
THEOREM ReadsMissNothing == Spec => []NothingMissedApart
<1>1. Spec => []IInv
  BY Invariance
<1>2. Init => ApartInv /\ Quiet /\ Least /\ ReadsOn /\ MissedInv
  <2>1. Init => reading = "none"
    BY DEF Init
  <2> QED
    BY <2>1, InitApart, InitLeast DEF Quiet, ReadsOn, MissedInv
<1>3. ASSUME IInv, ApartInv, Quiet, Least, ReadsOn, MissedInv, [Next]_vars
      PROVE  ApartInv' /\ Quiet' /\ Least' /\ ReadsOn' /\ MissedInv'
  BY <1>3, StepApart, StepQuiet, StepLeast, StepMisses
<1>4. MissedInv => NothingMissedApart
  <2> SUFFICES ASSUME MissedInv, ReadSparse, asked.covered, Apart(asked.had \o asked.buffered)
               PROVE  /\ Times(asked.had) \subseteq Times(delivered)
                      /\ \A t \in Times(asked.buffered) :
                             (\A p \in Range(asked.had) : p.ts < t) => t \in Times(delivered)
    BY DEF NothingMissedApart
  <2>1. \A p : Sought(p) /\ Asked(p) => Gave(p.ts)
    BY DEF MissedInv, ReadSparse
  <2>2. \A p : Sought(p) /\ Asked(p) => p.ts \in Times(delivered)
    BY <2>1 DEF Gave, Times, Asked
  <2> QED
    BY <2>2 DEF Times, Sought
<1> QED
  BY <1>1, <1>2, <1>3, <1>4, PTL DEF Spec

----------------------------------------------------------------------------
(* A dense file from 0 on, each of whose writes has followed on the last.    *)

LEMMA Scaled == ASSUME NEW a \in Int, NEW b \in Int, NEW d \in Nat \ {0}
                PROVE  (a < b <=> a * d < b * d) /\ (a <= b <=> a * d <= b * d) /\ (b - a) * d = b * d - a * d
<1>1. a * d \in Int /\ b * d \in Int /\ (b - a) * d = b * d - a * d
  OBVIOUS
<1>2. ASSUME a < b PROVE a * d < b * d
  <2>1. b - a - 1 \in Nat /\ b - a = (b - a - 1) + 1
    BY <1>2
  <2>2. (b - a - 1) * d \in Nat /\ ((b - a - 1) + 1) * d = (b - a - 1) * d + d
    BY <2>1, Quotient, Multiple
  <2> QED
    BY <1>1, <2>1, <2>2
<1>3. ASSUME b < a PROVE b * d < a * d
  <2>1. a - b - 1 \in Nat /\ a - b = (a - b - 1) + 1 /\ (a - b) * d = a * d - b * d
    BY <1>3
  <2>2. (a - b - 1) * d \in Nat /\ ((a - b - 1) + 1) * d = (a - b - 1) * d + d
    BY <2>1, Quotient, Multiple
  <2> QED
    BY <1>1, <2>1, <2>2
<1>4. a < b \/ b < a \/ a = b
  OBVIOUS
<1> QED
  BY <1>1, <1>2, <1>3, <1>4

LEMMA FollowingIs ==
    ASSUME NEW f \in DenseObject, NEW ps \in Seq(Point), ps # <<>>, NEW slots \in Seq(Int),
           f.max = Len(slots) * f.dur, Follows(f, ps)
    PROVE  /\ DenseWritten(f, slots, ps) \in Seq(Int)
           /\ Len(DenseWritten(f, slots, ps)) = Len(slots) + Len(ps)
           /\ \A i \in 1..Len(slots) : DenseWritten(f, slots, ps)[i] = slots[i]
           /\ \A i \in 1..Len(ps) : DenseWritten(f, slots, ps)[Len(slots) + i] = ps[i].val
           /\ \A i \in 1..Len(ps) : ps[i].ts = (Len(slots) + (i - 1)) * f.dur /\ ps[i].dur = f.dur
<1> DEFINE n == Len(slots)
           d == f.dur
           at == Offset(f, ps)
           values == Values(f, ps)
<1>1. n \in Nat /\ Len(ps) \in Nat /\ d \in Nat \ {0} /\ f.max \in Nat /\ 1 \in 1..Len(ps)
  BY DEF DenseObject
<1>2. \A i \in 1..Len(ps) : ps[i].dur = d /\ ps[i].ts = f.max + (i - 1) * d
  BY DEF Follows
<1>3. ps[1].ts = f.max
  <2>1. 0 * d = 0
    BY <1>1, Quotient
  <2>2. ps[1].ts = f.max + (1 - 1) * d
    BY <1>1, <1>2
  <2> QED
    BY <1>1, <2>1, <2>2
<1>4. Gap(f, ps) = 0
  BY <1>1, <1>3 DEF Gap
<1>5. values \in Seq(Int) /\ Len(values) = Len(ps) /\ \A i \in 1..Len(ps) : values[i] = ps[i].val
  <2>1. /\ values \in Seq(Int) /\ Len(values) = Gap(f, ps) + Len(ps)
        /\ \A i \in 1..Len(ps) : values[Gap(f, ps) + i] = ps[i].val
    BY ValuesAre
  <2> HIDE DEF values
  <2>2. \A i \in 1..Len(ps) : Gap(f, ps) + i = i
    BY <1>4
  <2>3. Len(values) = Len(ps)
    BY <1>1, <1>4, <2>1
  <2> QED
    BY <2>1, <2>2, <2>3
<1>6. at = n
  <2>1. Min({f.max, f.max}) = f.max
    BY <1>1, LesserOf
  <2>2. at = f.max \div d
    BY <1>3, <2>1 DEF Offset
  <2> HIDE DEF at
  <2> QED
    BY <1>1, <2>2, Quotient
<1>7. DenseWritten(f, slots, ps) = Overwritten(slots, n, values)
  BY <1>6 DEF DenseWritten
<1> HIDE DEF values, at
<1>8. /\ Overwritten(slots, n, values) \in Seq(Int)
      /\ Len(Overwritten(slots, n, values)) = n + Len(values)
      /\ \A i \in 1..n : Overwritten(slots, n, values)[i] = slots[i]
      /\ \A i \in 1..Len(values) : Overwritten(slots, n, values)[n + i] = values[i]
  BY <1>1, <1>5, OverwrittenIs
<1>9. ASSUME NEW i \in 1..Len(ps) PROVE ps[i].ts = (n + (i - 1)) * d
  <2>1. i - 1 \in Int /\ n \in Int
    BY <1>1
  <2>2. n * d + (i - 1) * d = (n + (i - 1)) * d
    BY <1>1, <2>1
  <2> QED
    BY <1>2, <2>2
<1> QED
  BY <1>2, <1>5, <1>7, <1>8, <1>9

\* Every slot has a value, and every point written a slot of its own.
Regular == Ordinary => /\ \A p \in Range(written) : p.dur = file.dur /\ p.ts % file.dur = 0
                       /\ \A i \in DOMAIN disk[GetPath(file)] : disk[GetPath(file)][i] # NaN

LEMMA InitRegular == ASSUME Init PROVE Regular
<1> SUFFICES ASSUME Ordinary PROVE Regular
  BY DEF Regular
<1>1. PICK d \in Listed \union {[object |-> NoFile]} :
          /\ file = d.object
          /\ disk = IF d.object = NoFile THEN [n \in {} |-> <<>>] ELSE [n \in {d.name} |-> d.content]
          /\ written = IF d.object.kind = "dense" THEN PointsOf(d.object, d.content) ELSE <<>>
  BY DEF Init
<1>2. file.kind = "dense" /\ file.min = 0
  BY DEF Ordinary
<1>3. d \in Listed
  BY <1>1, <1>2, Kinds
<1>4. /\ d.object \in DenseObject /\ d.name = GetPath(d.object) /\ d.content \in Seq(Nat)
  BY <1>1, <1>2, <1>3, Kinds, ListedAssumption
<1>5. disk[GetPath(file)] = d.content /\ written = PointsOf(file, d.content)
  BY <1>1, <1>2, <1>4, Kinds
<1>6. file.dur \in Nat \ {0}
  BY <1>1, <1>4 DEF DenseObject
<1> DEFINE slots == d.content
<1>7. ASSUME NEW p \in Range(written) PROVE p.dur = file.dur /\ p.ts % file.dur = 0
  <2>1. PICK k \in 1..Len(slots) : p = [ts |-> file.min + (k - 1) * file.dur, dur |-> file.dur, val |-> slots[k]]
    BY <1>4, <1>5 DEF Range, PointsOf
  <2>2. p.ts = file.min + (k - 1) * file.dur /\ k - 1 \in Int /\ p.dur = file.dur
    BY <2>1
  <2>3. (k - 1) * file.dur \in Int /\ ((k - 1) * file.dur) % file.dur = 0
    BY <1>6, <2>2, Multiple
  <2>4. p.ts = (k - 1) * file.dur
    BY <1>2, <2>2, <2>3
  <2> QED
    BY <2>2, <2>3, <2>4
<1>8. \A i \in DOMAIN disk[GetPath(file)] : disk[GetPath(file)][i] # NaN
  <2>1. \A i \in DOMAIN d.content : d.content[i] \in Nat
    BY <1>4
  <2> QED
    BY <1>5, <2>1 DEF NaN
<1> QED
  BY <1>7, <1>8 DEF Regular

LEMMA RegularStill == ASSUME Regular, UNCHANGED <<disk, file, written, tidy>> PROVE Regular'
<1>1. GetPath(file)' = GetPath(file) /\ (Ordinary' => Ordinary)
  BY DEF GetPath, Ordinary
<1> QED
  BY <1>1 DEF Regular

LEMMA WriteDenseRegular == ASSUME IInv, Regular, WriteDense PROVE Regular'
<1> SUFFICES ASSUME Ordinary' PROVE Regular'
  BY DEF Regular
<1> DEFINE name == GetPath(file)
           slots == disk[name]
           over == DenseWritten(file, slots, buffered)
<1>1. /\ Flushes /\ file.kind = "dense"
      /\ disk' = [disk EXCEPT ![name] = over]
      /\ file' = [file EXCEPT !.max = @ + Len(Values(file, buffered)) * file.dur]
      /\ tidy' = (tidy /\ Follows(file, buffered))
      /\ written' = written \o buffered
  BY DEF WriteDense
<1>2. buffered \in Seq(Point) /\ buffered # <<>> /\ written \in Seq(Point)
  BY <1>1 DEF Flushes, IInv
<1>3. file \in DenseObject /\ DOMAIN disk = {name} /\ slots \in Seq(Int)
  BY <1>1, DenseIs
<1>4. file'.min = file.min /\ file'.dur = file.dur /\ file'.kind = file.kind /\ file.dur \in Nat \ {0}
  <2>1. file.dur \in Nat \ {0}
    BY <1>3 DEF DenseObject
  <2> QED
    BY <1>1, <1>3, <2>1 DEF DenseObject
<1>5. Ordinary /\ Follows(file, buffered)
  BY <1>1, <1>4 DEF Ordinary
<1>6. file.max = Len(slots) * file.dur
  BY <1>1, <1>5, DenseIs
<1>7. GetPath(file') = name
  BY <1>1, <1>4 DEF GetPath
<1>8. disk'[GetPath(file)'] = over
  <2>1. GetPath(file)' = GetPath(file')
    BY DEF GetPath
  <2> QED
    BY <1>1, <1>3, <1>7, <2>1
<1> HIDE DEF slots, over
<1>9. /\ over \in Seq(Int) /\ Len(over) = Len(slots) + Len(buffered)
      /\ \A i \in 1..Len(slots) : over[i] = slots[i]
      /\ \A i \in 1..Len(buffered) : over[Len(slots) + i] = buffered[i].val
      /\ \A i \in 1..Len(buffered) : /\ buffered[i].ts = (Len(slots) + (i - 1)) * file.dur
                                     /\ buffered[i].dur = file.dur
  <2>1. DenseWritten(file, slots, buffered) = over
    BY DEF over
  <2> QED
    BY <1>2, <1>3, <1>5, <1>6, <2>1, FollowingIs
<1>10. Len(slots) \in Nat /\ Len(buffered) \in Nat /\ DOMAIN over = 1..(Len(slots) + Len(buffered))
  BY <1>2, <1>3, <1>9
<1>11. ASSUME NEW i \in DOMAIN over PROVE over[i] # NaN
  <2>1. CASE i \in 1..Len(slots)
    <3>1. slots[i] # NaN
      BY <1>3, <1>5, <2>1 DEF Regular, slots
    <3> QED
      BY <1>9, <2>1, <3>1
  <2>2. CASE i \notin 1..Len(slots)
    <3>1. i - Len(slots) \in 1..Len(buffered) /\ Len(slots) + (i - Len(slots)) = i
      BY <1>10, <2>2
    <3>2. over[i] = buffered[i - Len(slots)].val
      BY <1>9, <3>1
    <3>3. buffered[i - Len(slots)].val \in Nat
      BY <1>2, <3>1, PointAt
    <3> QED
      BY <3>2, <3>3 DEF NaN
  <2> QED
    BY <2>1, <2>2
<1>12. ASSUME NEW p \in Range(written') PROVE p.dur = file.dur /\ p.ts % file.dur = 0
  <2>1. p \in Range(written) \/ p \in Range(buffered)
    BY <1>1, <1>2, JoinedIs
  <2>2. CASE p \in Range(written)
    BY <1>5, <2>2 DEF Regular
  <2>3. CASE p \in Range(buffered)
    <3>1. PICK i \in 1..Len(buffered) : p = buffered[i]
      BY <1>2, <2>3, ElementsOf
    <3>2. Len(slots) + (i - 1) \in Int
      BY <1>10
    <3> DEFINE a == Len(slots) + (i - 1)
    <3>3. p.ts = a * file.dur /\ p.dur = file.dur
      BY <1>9, <3>1
    <3> HIDE DEF a
    <3> QED
      BY <1>4, <3>2, <3>3, Multiple DEF a
  <2> QED
    BY <2>1, <2>2, <2>3
<1> QED
  BY <1>4, <1>8, <1>11, <1>12 DEF Regular

LEMMA RestartRegular == ASSUME IInv, Regular, Restart PROVE Regular'
<1> SUFFICES ASSUME Ordinary' PROVE Regular'
  BY DEF Regular
<1>1. file' \in Listings /\ disk' = disk /\ written' = written /\ tidy' = tidy /\ fpc' = "idle"
  BY DEF Restart
<1>2. file'.kind = "dense" /\ tidy /\ file'.min = 0
  BY <1>1 DEF Ordinary
<1>3. PICK n \in DOMAIN disk : file' = Object(n)
  BY <1>1, <1>2, Kinds DEF Listings
<1>4. n.kind = "dense" /\ file \in DenseObject /\ n = GetPath(file)
  <2>1. CASE file \in SparseName /\ Name \in SparseName /\ DOMAIN disk = {Name}
    <3>1. n.kind = "sparse"
      BY <2>1, Kinds
    <3> QED
      BY <1>2, <1>3, <3>1 DEF Object
  <2>2. CASE file \in DenseObject /\ DOMAIN disk = {GetPath(file)}
    BY <2>2, PathOf
  <2>3. CASE DOMAIN disk \subseteq ConstantName
    <3>1. n.kind = "constant"
      BY <2>3, Kinds
    <3> QED
      BY <1>2, <1>3, <3>1 DEF Object
  <2> QED
    BY <2>1, <2>2, <2>3 DEF IInv, OneFile
<1>5. file' = [kind |-> "dense", min |-> n.min, dur |-> n.dur, max |-> n.min + Len(disk[n]) * n.dur]
  BY <1>3, <1>4 DEF Object
<1>6. n = [kind |-> "dense", min |-> file.min, dur |-> file.dur]
  BY <1>4, PathOf
<1>7. n.min = file.min /\ n.dur = file.dur /\ file'.min = file.min /\ file'.dur = file.dur
  BY <1>5, <1>6
<1>8. GetPath(file)' = n
  BY <1>2, <1>6, <1>7 DEF GetPath
<1>9. Ordinary
  BY <1>2, <1>4, <1>7, Kinds DEF Ordinary
<1> QED
  BY <1>1, <1>4, <1>7, <1>8, <1>9 DEF Regular

LEMMA StepRegular == ASSUME IInv, Regular, [Next]_vars PROVE Regular'
<1>1. CASE UNCHANGED <<disk, file, written, tidy>>
  BY <1>1, RegularStill
<1>2. CASE file'.kind = "sparse"
  BY <1>2 DEF Regular, Ordinary
<1>3. CASE WriteSparse
  <2>1. file'.kind = "sparse"
    <3> DEFINE f == IF file.kind = "sparse" THEN file
                    ELSE [kind |-> "sparse", min |-> First, max |-> First, opt |-> FALSE]
               max == Max({f.max, buffered[Len(buffered)].ts})
    <3>1. file' = [f EXCEPT !.max = max] /\ file.kind \in {"none", "sparse"}
      BY <1>3 DEF WriteSparse
    <3> HIDE DEF max
    <3>2. f.kind = "sparse"
      OBVIOUS
    <3>3. file.kind = "sparse" => file \in SparseName
      BY SparseIs
    <3> QED
      BY <3>1, <3>2, <3>3 DEF SparseName
  <2> QED
    BY <1>2, <2>1
<1>4. CASE MoveToMax \/ FileIsTooBig \/ Mark \/ MoveToMarked \/ LeaveIt
  <2>1. fpc # "idle" /\ file' \in {file, [file EXCEPT !.opt = TRUE]}
    BY <1>4 DEF MoveToMax, FileIsTooBig, Mark, MoveToMarked, LeaveIt, Sized
  <2>2. file.kind = "sparse" /\ file \in SparseName
    BY <2>1, NotIdleIsSparse, SparseIs
  <2>3. file'.kind = "sparse"
    BY <2>1, <2>2 DEF SparseName
  <2> QED
    BY <1>2, <2>3
<1>5. CASE Flusher
  BY <1>3, <1>4, <1>5, WriteDenseRegular, RestartRegular DEF Flusher, WriteConstant
<1>6. CASE Task
  <2>1. UNCHANGED <<written, tidy>>
    BY <1>6 DEF Task, Handle, FileGone, OpenIt, ReadIt, Convert, flushvars
  <2> QED
    BY <1>1, <1>6, <2>1, TaskLeaves
<1>7. ASSUME NEW b \in Batch, Arrive(b) PROVE Regular'
  BY <1>1, <1>7 DEF Arrive
<1>8. ASSUME NEW r \in ReadRange, NEW size \in BufferSize, BeginRead(r, size) PROVE Regular'
  BY <1>1, <1>8 DEF BeginRead, flushvars
<1>9. CASE Chunk
  BY <1>1, <1>9 DEF Chunk, flushvars
<1>10. CASE UNCHANGED vars
  BY <1>1, <1>10 DEF vars, flushvars
<1> QED
  BY <1>5, <1>6, <1>7, <1>8, <1>9, <1>10, RestartRegular DEF Next

----------------------------------------------------------------------------
(* What a read gives of such a file.                                         *)

\* Slots that all have values follow on each other.
LEMMA SlotsGive ==
    ASSUME NEW d, NEW o, Delivers(d, o), NEW values \in Seq(Int), \A i \in 1..Len(values) : values[i] # NaN,
           NEW dur \in Nat, dur # 0, NEW a \in Int, o.next = a * dur
    PROVE  \A k \in 1..Len(values) : [ts |-> (a + (k - 1)) * dur, dur |-> dur, val |-> values[k]]
                                         \in Range(AfterSlots(o, dur, values).out)
<1> DEFINE n == Len(values)
<1>1. o \in Op /\ n \in Nat /\ dur \in Nat
  BY DEF Delivers
<1>2. PICK f \in [0..n -> Op] :
               /\ f[0] = o
               /\ \A k \in 1..n : f[k] = PutSlot(f[k - 1], dur, values[k])
               /\ AfterSlots(o, dur, values) = f[n]
  BY <1>1, SlotLoop, ZenonT(60)
<1> DEFINE Slot(k) == [ts |-> (a + (k - 1)) * dur, dur |-> dur, val |-> values[k]]
           Has(q, k) == q.next = (a + k) * dur /\ \A l \in 1..k : Slot(l) \in Range(q.out)
           I == {k \in Nat : k <= n => Has(f[k], k)}
<1>3. \A k \in 1..n : values[k] \in Int /\ values[k] # NaN
  OBVIOUS
<1> HIDE DEF n
<1>4. 0 \in I
  <2>1. (a + 0) * dur = a * dur
    OBVIOUS
  <2> QED
    BY <1>2, <2>1
<1>5. ASSUME NEW k \in Nat, k \in I PROVE k + 1 \in I
  <2> SUFFICES ASSUME k + 1 <= n PROVE Has(f[k + 1], k + 1)
    OBVIOUS
  <2> DEFINE p == [ts |-> f[k].next, dur |-> dur, val |-> values[k + 1]]
  <2>1. k \in 0..n /\ k + 1 \in 1..n /\ (k + 1) - 1 = k
    BY <1>1
  <2>2. Has(f[k], k) /\ f[k] \in Op
    BY <1>2, <1>5, <2>1
  <2>3. f[k].next \in Int /\ p \in Out
    BY <1>1, <1>3, <2>1, <2>2, OpFields DEF Out
  <2>4. f[k + 1] = Put(f[k], p)
    BY <1>2, <1>3, <2>1 DEF PutSlot, PutValue
  <2>5. End(p) = f[k].next + dur
    BY DEF End
  <2>6. p = Slot(k + 1)
    BY <2>1, <2>2
  <2> HIDE DEF p
  <2>7. f[k + 1].next = f[k].next + dur /\ Range(f[k + 1].out) = Range(f[k].out) \union {p}
    BY <2>2, <2>3, <2>4, <2>5, PutIs, PutTakes, ZenonT(30)
  <2>8. (a + k) * dur + dur = (a + (k + 1)) * dur
    <3>1. a + k \in Int /\ a + (k + 1) = (a + k) + 1
      OBVIOUS
    <3> QED
      BY <3>1, Multiple
  <2>9. f[k + 1].next = (a + (k + 1)) * dur
    BY <2>2, <2>7, <2>8
  <2> HIDE DEF Slot
  <2>10. \A l \in 1..(k + 1) : Slot(l) \in Range(f[k + 1].out)
    <3>1. \A l \in 1..(k + 1) : l = k + 1 \/ l \in 1..k
      OBVIOUS
    <3> QED
      BY <2>2, <2>6, <2>7, <3>1
  <2> QED
    BY <2>9, <2>10
<1>6. I = Nat
  <2>1. I \in SUBSET Nat
    OBVIOUS
  <2> HIDE DEF I
  <2> QED
    BY <1>4, <1>5, <2>1, Induction
<1>7. Has(f[n], n)
  <2> HIDE DEF Has
  <2> QED
    BY <1>1, <1>6
<1> QED
  BY <1>2, <1>7 DEF n

LEMMA DenseGives ==
    ASSUME NEW d, NEW o, Delivers(d, o), o.next >= 0, NEW f \in DenseObject, f.min = 0,
           NEW slots \in Seq(Int), \A i \in 1..Len(slots) : slots[i] # NaN, f.max = Len(slots) * f.dur,
           NEW p \in Point, p.dur = f.dur, NEW j \in Nat, p.ts = j * f.dur, j + 1 \in 1..Len(slots),
           slots[j + 1] = p.val, o.next <= p.ts, End(p) <= o.end
    PROVE  p \in Range(DenseRead(o, f, slots).out) /\ p.ts < f.max
<1> DEFINE dur == f.dur
           q == RoundUp(o, dur)
           a == q.next \div dur
           n == Len(slots)
           e == IF f.max < q.end THEN f.max ELSE q.end
           T == (e - q.next) \div dur
<1>1. dur \in Nat \ {0} /\ f.min \in Int /\ f.max \in Int /\ dur \in Int /\ n \in Nat
  BY DEF DenseObject
<1>2. Delivers(d, q) /\ q \in Op /\ Kept(o, q) /\ q.next % dur = 0 /\ q.next < o.next + dur
  BY <1>1, RoundUpDelivers, RoundUpIs DEF Delivers
<1> HIDE DEF q, dur
<1>3. /\ q.next \in Int /\ q.end \in Int /\ q.end = o.end /\ o.next <= q.next /\ q.next >= 0
      /\ o.next \in Int
  <2>1. q.next \in Int /\ q.end \in Int /\ o.next \in Int
    BY <1>2, OpFields DEF Kept
  <2> QED
    BY <1>2, <2>1 DEF Kept
<1>4. a \in Int /\ q.next = a * dur
  <2>1. a \in Int /\ q.next = dur * a + (q.next % dur)
    BY <1>1, <1>3, Division
  <2>2. dur * a = a * dur /\ a * dur \in Int
    BY <1>1, <2>1, Multiple
  <2> QED
    BY <1>2, <2>1, <2>2
<1> HIDE DEF a
<1>5. j \in Int /\ j + 1 \in Int /\ j * dur \in Int /\ (j + 1) * dur = j * dur + dur /\ p.ts = j * dur
  <2>1. j \in Int /\ j + 1 \in Int
    OBVIOUS
  <2>2. p.ts = j * dur
    BY DEF dur
  <2> QED
    BY <1>1, <2>1, <2>2, Multiple
<1>6. End(p) = (j + 1) * dur
  BY <1>1, <1>5 DEF End, dur
<1>7. a <= j /\ q.next <= p.ts
  <2>1. a * dur < (j + 1) * dur
    <3>1. a * dur < o.next + dur
      BY <1>2, <1>4
    <3>2. o.next <= j * dur
      BY <1>5
    <3>3. o.next + dur <= j * dur + dur
      BY <1>1, <1>3, <1>5, <3>2
    <3>4. a * dur \in Int /\ o.next + dur \in Int /\ j * dur + dur \in Int
      BY <1>1, <1>3, <1>4, <1>5
    <3>5. a * dur < j * dur + dur
      BY <3>1, <3>3, <3>4
    <3> QED
      BY <1>5, <3>5
  <2>2. a < j + 1
    BY <1>1, <1>4, <1>5, <2>1, Scaled
  <2>3. a <= j
    BY <1>4, <1>5, <2>2
  <2>4. a * dur <= j * dur
    BY <1>1, <1>4, <1>5, <2>3, Scaled
  <2> QED
    BY <1>4, <1>5, <2>3, <2>4
<1>8. (j + 1) * dur <= f.max
  <2>1. j + 1 <= n
    BY <1>1
  <2>2. (j + 1) * dur <= n * dur
    <3> DEFINE i == j + 1
    <3>1. i \in Int /\ n \in Int /\ i <= n
      BY <1>1, <1>5, <2>1
    <3> HIDE DEF i, n
    <3>2. i * dur <= n * dur
      BY <1>1, <3>1, Scaled
    <3> QED
      BY <3>2 DEF i
  <2>3. f.max = n * dur
    BY DEF dur
  <2> QED
    BY <2>2, <2>3
<1>9. p.ts < f.max
  BY <1>1, <1>5, <1>8, SMTT(30)
<1>10. e \in Int /\ (j + 1) * dur <= e /\ e > q.next
  BY <1>1, <1>3, <1>5, <1>6, <1>7, <1>8, SMTT(30)
<1> HIDE DEF e
<1>11. T \in Nat /\ T >= (j + 1) - a
  <2> DEFINE m == e - q.next
             r == m % dur
  <2>1. m \in Nat
    BY <1>3, <1>10
  <2>2. T = m \div dur
    OBVIOUS
  <2>3. m = e - q.next
    OBVIOUS
  <2> HIDE DEF m, T
  <2>4. T \in Nat /\ r \in Int /\ r < dur /\ m = dur * T + r
    <3>1. T \in Nat
      BY <1>1, <2>1, <2>2, Quotient
    <3>2. m \in Int
      BY <2>1
    <3>3. (m % dur) \in Int /\ (m % dur) < dur /\ m = dur * (m \div dur) + (m % dur)
      BY <1>1, <3>2, Division
    <3> QED
      BY <2>2, <3>1, <3>3
  <2>5. dur * T = T * dur /\ T * dur \in Int /\ (T + 1) * dur = T * dur + dur
    BY <1>1, <2>4, Multiple
  <2>6. ((j + 1) - a) * dur = (j + 1) * dur - a * dur
    BY <1>1, <1>4, <1>5, Scaled
  <2>7. (j + 1) * dur - a * dur <= m /\ a * dur \in Int
    <3>1. a * dur \in Int /\ m = e - a * dur
      BY <1>3, <1>4, <2>3
    <3>2. (j + 1) * dur \in Int /\ e \in Int /\ (j + 1) * dur <= e
      BY <1>1, <1>5, <1>10
    <3> HIDE DEF m
    <3> QED
      BY <3>1, <3>2
  <2> HIDE DEF r
  <2>8. ((j + 1) - a) * dur < (T + 1) * dur
    BY <1>1, <1>5, <2>1, <2>4, <2>5, <2>6, <2>7
  <2>9. (j + 1) - a \in Int /\ T + 1 \in Int
    BY <1>4, <1>5, <2>4
  <2>10. (j + 1) - a < T + 1
    <3> DEFINE x == (j + 1) - a
               y == T + 1
    <3>1. x \in Int /\ y \in Int /\ x * dur < y * dur
      BY <2>8, <2>9
    <3> HIDE DEF x, y
    <3>2. x < y
      BY <1>1, <3>1, Scaled
    <3> QED
      BY <3>2 DEF x, y
  <2> QED
    BY <2>4, <2>9, <2>10
<1>12. ToRead(q, f) = T
  BY <1>10 DEF ToRead, e, dur
<1> DEFINE first == IF q.next < f.min THEN 0 ELSE (q.next - f.min) \div f.dur
           last == IF first + ToRead(q, f) > Len(slots) THEN Len(slots) ELSE first + ToRead(q, f)
           values == Slots(q, f, slots)
<1>13. first = a
  <2>1. (q.next - f.min) = q.next /\ ~(q.next < f.min)
    BY <1>3
  <2> QED
    BY <2>1 DEF a, dur
<1>14. /\ values \in Seq(Int) /\ first \in Nat /\ last \in Nat
       /\ Len(values) = IF last > first THEN last - first ELSE 0
       /\ \A k \in 1..Len(values) : values[k] = slots[first + k]
  <2>1. f.dur \in Nat \ {0}
    BY <1>1 DEF dur
  <2> QED
    BY <1>1, <1>2, <2>1, SlotsAre, ZenonT(30)
<1> HIDE DEF first, values
<1>15. last <= n /\ last >= j + 1
  <2>1. last = IF a + T > n THEN n ELSE a + T
    BY <1>12, <1>13 DEF first
  <2>2. T \in Nat /\ a \in Int /\ n \in Nat /\ j \in Int /\ T >= (j + 1) - a /\ j + 1 <= n
    BY <1>1, <1>4, <1>5, <1>11
  <2> HIDE DEF last, T, n
  <2> QED
    BY <2>1, <2>2
<1> HIDE DEF last, T
<1> DEFINE k == (j + 1) - a
<1>16. k \in 1..Len(values) /\ first + k = j + 1 /\ a + (k - 1) = j
  BY <1>4, <1>5, <1>7, <1>13, <1>14, <1>15
<1>17. values[k] = p.val
  BY <1>14, <1>16
<1>18. \A i \in 1..Len(values) : values[i] # NaN
  <2> DEFINE len == Len(values)
  <2>1. len \in Nat
    BY <1>14
  <2>2. first \in Nat /\ last \in Nat /\ len = IF last > first THEN last - first ELSE 0
    BY <1>14
  <2>3. \A i \in 1..len : values[i] = slots[first + i]
    BY <1>14
  <2>4. \A i \in 1..n : slots[i] # NaN
    OBVIOUS
  <2> HIDE DEF len, n
  <2>5. \A i \in 1..len : first + i \in 1..n
    BY <1>1, <1>15, <2>1, <2>2
  <2>6. \A i \in 1..len : values[i] # NaN
    BY <2>3, <2>4, <2>5
  <2> QED
    BY <2>6 DEF len
<1> HIDE DEF k
<1>19. [ts |-> (a + (k - 1)) * dur, dur |-> dur, val |-> values[k]] \in Range(AfterSlots(q, dur, values).out)
  BY <1>1, <1>2, <1>4, <1>14, <1>16, <1>18, SlotsGive
<1>20. p = [ts |-> p.ts, dur |-> p.dur, val |-> p.val]
  BY DEF Point
<1>21. p \in Range(AfterSlots(q, dur, values).out)
  BY <1>5, <1>16, <1>17, <1>19, <1>20 DEF dur
<1>22. DenseRead(o, f, slots) = AfterSlots(q, dur, values)
  <2>1. ~(f.max < q.next)
    BY <1>1, <1>3, <1>5, <1>7, <1>9
  <2>2. ~(q.next <= f.min - f.dur)
    BY <1>1, <1>3, SMTT(30) DEF dur
  <2> QED
    BY <2>1, <2>2 DEF DenseRead, q, dur, values
<1> QED
  BY <1>9, <1>21, <1>22

\* A read gives every point of the file it has gone past.
BackInv ==
    (reading \in {"reading", "done"} /\ asked.kind = "dense" /\ asked.ordinary) =>
        \A p \in Range(asked.had) :
            (Asked(p) /\ End(p) <= asked.end /\ (reading = "reading" => p.ts < op.next)) => p \in Range(delivered)

LEMMA BeginBack ==
    ASSUME IInv, NEW r \in ReadRange, NEW size \in BufferSize, BeginRead(r, size)
    PROVE  BackInv'
<1>1. /\ reading' = "reading" /\ asked'.start = r.start /\ asked'.had = written /\ op'.next = r.start
  BY BeginQuiet
<1> SUFFICES ASSUME NEW p \in Range(written), Asked(p)', p.ts < op'.next PROVE FALSE
  BY <1>1 DEF BackInv
<1>2. p.ts >= r.start /\ p.ts < r.start /\ r.start \in Int
  BY <1>1, ReadsAssumption DEF Asked
<1>3. p.ts \in Int
  <2>1. p \in Point
    BY ElementsOf DEF IInv
  <2> QED
    BY <2>1 DEF Point
<1> QED
  BY <1>2, <1>3

LEMMA ChunkBack ==
    ASSUME IInv, ApartInv, Quiet, Regular, ReadsOn, BackInv, Chunk
    PROVE  BackInv'
<1> SUFFICES ASSUME reading' \in {"reading", "done"}, asked'.kind = "dense", asked'.ordinary,
                    NEW p \in Range(asked'.had), Asked(p)', End(p) <= asked'.end
             PROVE  p \in Range(delivered')
  BY DEF BackInv
<1>1. asked' = asked /\ reading = "reading"
  BY ChunkQuiet DEF Chunk
<1>2. /\ asked.kind = "dense" /\ asked.ordinary /\ Ordinary /\ file.kind = "dense" /\ file.min = 0
      /\ asked.had = written /\ op.end = asked.end /\ asked.start \in Nat /\ asked.start <= op.next /\ op.size # 0
  BY <1>1 DEF Quiet, ReadsOn, Ordinary
<1> DEFINE slots == disk[GetPath(file)]
<1>3. /\ file \in DenseObject /\ slots \in Seq(Int) /\ GetPath(file) \in DOMAIN disk
      /\ file.max = Len(slots) * file.dur /\ Holds(slots, p)
  BY <1>1, <1>2, DenseIs
<1>4. p.dur = file.dur /\ p.ts % file.dur = 0 /\ \A i \in 1..Len(slots) : slots[i] # NaN
  <2>1. DOMAIN slots = 1..Len(slots)
    BY <1>3
  <2> QED
    BY <1>1, <1>2, <2>1 DEF Regular
<1>5. p \in Point /\ p.ts \in Nat /\ End(p) \in Int /\ p.ts < End(p)
  <2>1. p \in Point
    BY <1>1, <1>2, ElementsOf DEF IInv
  <2> QED
    BY <2>1, OutOfPoint, EndOf
<1>6. PICK disked \in Op, b \in Op, o \in Op :
               /\ disked = ReadChunk(op) /\ b = BufferRead(disked, buffered) /\ o = ForceCompletion(b)
               /\ op \in Op /\ op.out = <<>> /\ o.out = b.out
               /\ delivered' = delivered \o o.out
  BY ChunkIs
<1>7. op.next \in Int /\ op.end \in Int
  BY <1>6, OpFields
<1>8. Range(delivered') = Range(delivered) \union Range(o.out)
  BY <1>6, OpFields, JoinedIs DEF ApartInv
<1>9. CASE p.ts < op.next
  <2>1. p \in Range(delivered)
    BY <1>1, <1>2, <1>9 DEF BackInv, Asked
  <2> QED
    BY <1>8, <2>1
<1>10. CASE op.next <= p.ts
  <2> DEFINE j == p.ts \div file.dur
  <2>1. file.dur \in Nat \ {0} /\ file.min \in Int /\ file.max \in Int
    BY <1>3 DEF DenseObject
  <2>2. j \in Nat /\ p.ts = j * file.dur
    <3>1. j \in Nat
      BY <1>5, <2>1, Quotient
    <3>2. p.ts = file.dur * j + (p.ts % file.dur)
      <4>1. p.ts \in Int
        BY <1>5
      <4> QED
        BY <2>1, <4>1, Division DEF j
    <3>3. file.dur * j = j * file.dur /\ j * file.dur \in Int
      BY <2>1, <3>1, Multiple
    <3> QED
      BY <1>4, <3>1, <3>2, <3>3
  <2>3. j + 1 \in 1..Len(slots) /\ slots[j + 1] = p.val
    <3>1. p.ts - file.min = p.ts
      BY <1>2, <1>5
    <3>2. DOMAIN slots = 1..Len(slots)
      BY <1>3
    <3> HIDE DEF slots
    <3> QED
      BY <1>3, <3>1, <3>2 DEF Holds
  <2> HIDE DEF j
  <2>4. Delivers(delivered, op)
    <3>1. delivered \o <<>> = delivered
      BY DEF ApartInv
    <3> QED
      BY <1>1, <1>6, <3>1 DEF ApartInv, Delivers
  <2>5. op.next >= 0
    BY <1>2, <1>7
  <2> HIDE DEF slots
  <2>6. p \in Range(DenseRead(op, file, slots).out) /\ p.ts < file.max
    <3>2. End(p) <= op.end
      BY <1>1, <1>2
    <3> QED
      BY <1>2, <1>3, <1>4, <1>5, <1>10, <2>2, <2>3, <2>4, <2>5, <3>2, DenseGives
  <2>7. ReadChunk(op) = DenseRead(op, file, slots)
    <3>1. file # NoFile
      BY <1>2, Kinds
    <3>2. ReadChunk(op) = DirectoryRead(op, file, slots)
      BY <1>3, <3>1 DEF ReadChunk, slots
    <3>3. SpaceLeft(op)
      <4>1. Len(op.out) = 0
        BY <1>6
      <4> QED
        BY <1>2, <4>1 DEF SpaceLeft, DatapointsInBuffer
    <3>4. ~Complete(op) /\ file.max >= op.next /\ file.min < op.end
      BY <1>1, <1>2, <1>5, <1>7, <1>10, <2>1, <2>6 DEF Complete
    <3>5. FileRead(op, file, slots) = DenseRead(op, file, slots)
      BY <1>2 DEF FileRead
    <3> QED
      BY <3>2, <3>3, <3>4, <3>5 DEF DirectoryRead
  <2>8. Range(disked.out) \subseteq Range(b.out)
    BY <1>6, BufferKeeps DEF IInv
  <2> QED
    BY <1>6, <1>8, <2>6, <2>7, <2>8
<1> QED
  BY <1>5, <1>7, <1>9, <1>10

LEMMA StepBack ==
    ASSUME IInv, ApartInv, Quiet, Regular, ReadsOn, BackInv, [Next]_vars
    PROVE  BackInv'
<1>1. CASE reading' = "none"
  BY <1>1 DEF BackInv
<1>2. CASE UNCHANGED readvars
  <2>1. UNCHANGED <<op, asked, reading, delivered>>
    BY <1>2 DEF readvars
  <2>2. \A p : Asked(p)' <=> Asked(p)
    BY <2>1 DEF Asked
  <2> QED
    BY <2>1, <2>2 DEF BackInv
<1>3. ASSUME NEW r \in ReadRange, NEW size \in BufferSize, BeginRead(r, size) PROVE BackInv'
  BY <1>3, BeginBack
<1>4. CASE Chunk
  BY <1>4, ChunkBack
<1> QED
  BY <1>1, <1>2, <1>3, <1>4, BesideRead

\* A dense file from 0 on, each of whose writes has followed on the last, gives back every
\* point written to it that ends by the end of what is asked for: its slots have no gaps,
\* a read's rounding up passes over none of them, and what it counts off is all there is.
THEOREM DenseReadBack == Spec => []DenseReadsBack
<1>1. Spec => []IInv
  BY Invariance
<1>2. Init => ApartInv /\ Quiet /\ Least /\ ReadsOn /\ MissedInv /\ Regular /\ BackInv
  <2>1. Init => reading = "none"
    BY DEF Init
  <2> QED
    BY <2>1, InitApart, InitLeast, InitRegular DEF Quiet, ReadsOn, MissedInv, BackInv
<1>3. ASSUME IInv, ApartInv, Quiet, Least, ReadsOn, MissedInv, Regular, BackInv, [Next]_vars
      PROVE  ApartInv' /\ Quiet' /\ Least' /\ ReadsOn' /\ MissedInv' /\ Regular' /\ BackInv'
  BY <1>3, StepApart, StepQuiet, StepLeast, StepMisses, StepRegular, StepBack
<1>4. BackInv => DenseReadsBack
  BY DEF BackInv, DenseReadsBack
<1> QED
  BY <1>1, <1>2, <1>3, <1>4, PTL DEF Spec
=============================================================================

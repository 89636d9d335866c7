----------------------------- MODULE PipesProof -----------------------------
(* Theorems about Pipes for any number of processes, files and descriptors,   *)
(* any buffer and any width of its counters.                                  *)
EXTENDS Pipes, FiniteSetTheorems, SequenceTheorems, WellFoundedInduction, TLAPS

Counter == 0..UintSize - 1
Slots == 0..PIPESIZE - 1

Places == {"user", "pipealloc", "close", "pipeclose", "write", "read", "exit"}
Results == [is : {"none", "written", "error", "read"}, bytes : Seq(Byte)]
Locals == [pc : Places, rest : Seq(Byte), n : Nat, f0 : File \union {0}, f1 : File \union {0},
           writable : BOOLEAN, exiting : BOOLEAN, result : Results]
Files == [ref : Int, type : {"none", "pipe"}, writable : BOOLEAN]
PipePages == [used : BOOLEAN, readopen : BOOLEAN, writeopen : BOOLEAN,
              nread : Counter, nwrite : Counter, data : [Slots -> Byte], lock : Proc \union {None}]

TypeOK ==
    /\ file \in [File -> Files]
    /\ pipe \in PipePages
    /\ ofile \in [Proc -> [Fd -> File \union {0}]]
    /\ state \in [Proc -> {"UNUSED", "RUNNABLE", "SLEEPING"}]
    /\ killed \subseteq Proc
    /\ l \in [Proc -> Locals]

-----------------------------------------------------------------------------
(* Arithmetic of the counters                                                 *)

LEMMA Times ==
  ASSUME NEW P \in Nat \ {0}, NEW m \in Nat \ {0}
  PROVE  P * m >= P
  OBVIOUS

LEMMA Remainder ==
  ASSUME NEW P \in Nat \ {0}, NEW x \in Int
  PROVE  \E d \in Int, r \in 0..P - 1 : x = P * d + r /\ r = x % P
  <1>1. x = P * (x \div P) + (x % P) /\ x \div P \in Int /\ x % P \in 0..P - 1
    OBVIOUS
  <1> QED
    BY <1>1

LEMMA OneRemainder ==
  ASSUME NEW P \in Nat \ {0}, NEW d \in Int, NEW e \in Int,
         NEW r \in 0..P - 1, NEW s \in 0..P - 1, P * d + r = P * e + s
  PROVE  r = s
  <1>1. P * (d - e) = P * d - P * e /\ P * (e - d) = P * e - P * d
    OBVIOUS
  <1>2. CASE d > e
    BY <1>1, <1>2, Times
  <1>3. CASE e > d
    BY <1>1, <1>3, Times
  <1>4. CASE d = e
    BY <1>4
  <1> QED
    BY <1>2, <1>3, <1>4

\* A counter that runs over goes on in the slot that comes next.
LEMMA SameSlot ==
  ASSUME NEW x \in Int, NEW y \in Int, y = x - UintSize
  PROVE  y % PIPESIZE = x % PIPESIZE
  <1> DEFINE P == PIPESIZE
             U == UintSize
  <1>1. P \in Nat \ {0} /\ U \in Nat \ {0} /\ U % P = 0
    BY ConstantsAssumption
  <1> HIDE DEF P, U
  <1>2. PICK d \in Int, r \in 0..P - 1 : x = P * d + r /\ r = x % P
    BY <1>1, Remainder
  <1>3. PICK e \in Int, s \in 0..P - 1 : y = P * e + s /\ s = y % P
    BY <1>1, Remainder
  <1>4. PICK q \in Int : U = P * q
    <2> PICK u \in Int : u = U
      BY <1>1
    <2>1. PICK q \in Int, t \in 0..P - 1 : u = P * q + t /\ t = u % P
      BY <1>1, Remainder
    <2>2. P * q \in Int
      BY <1>1
    <2>3. t = 0 /\ U = P * q + t
      BY <1>1, <2>1
    <2>4. U = P * q
      BY <2>2, <2>3
    <2> QED
      BY <2>4
  <1>5. P * d + r = P * (e + q) + s
    <2>1. P * (e + q) = P * e + P * q
      BY <1>1
    <2>2. P * d \in Int /\ P * e \in Int /\ P * q \in Int
      BY <1>1
    <2>3. x = P * d + r
      BY <1>2
    <2>4. y = P * e + s
      BY <1>3
    <2>5. y = x - U
      BY DEF U
    <2> QED
      BY <1>4, <2>1, <2>2, <2>3, <2>4, <2>5
  <1>6. r = s
    BY <1>1, <1>5, OneRemainder
  <1> QED
    BY <1>2, <1>3, <1>6 DEF P

LEMMA OtherSlot ==
  ASSUME NEW P \in Nat \ {0}, NEW x \in Int, NEW y \in Int, x < y, y < x + P
  PROVE  x % P # y % P
  <1>1. PICK d \in Int, r \in 0..P - 1 : x = P * d + r /\ r = x % P
    BY Remainder
  <1>2. PICK e \in Int, s \in 0..P - 1 : y = P * e + s /\ s = y % P
    BY Remainder
  <1>3. SUFFICES ASSUME r = s PROVE FALSE
    BY <1>1, <1>2
  <1>4. P * (e - d) = y - x /\ P * (d - e) = x - y
    <2>1. P * (e - d) = P * e - P * d /\ P * (d - e) = P * d - P * e
      OBVIOUS
    <2> QED
      BY <2>1, <1>1, <1>2, <1>3
  <1>5. CASE e > d
    BY <1>4, <1>5, Times
  <1>6. CASE e <= d
    <2>1. d - e \in Nat
      BY <1>6
    <2>2. P * (d - e) >= 0
      BY <2>1
    <2> QED
      BY <1>4, <2>2
  <1> QED
    BY <1>5, <1>6

LEMMA Wrapping ==
  ASSUME NEW x \in (-UintSize)..2 * UintSize - 1
  PROVE  /\ Uint(x) \in Counter
         /\ Uint(x) = IF x < 0 THEN x + UintSize ELSE IF x < UintSize THEN x ELSE x - UintSize
  <1>1. UintSize \in Nat \ {0}
    BY ConstantsAssumption
  <1>2. CASE x < 0
    BY <1>1, <1>2 DEF Uint, Counter
  <1>3. CASE x >= 0 /\ x < UintSize
    BY <1>1, <1>3 DEF Uint, Counter
  <1>4. CASE x >= UintSize
    BY <1>1, <1>4 DEF Uint, Counter
  <1> QED
    BY <1>1, <1>2, <1>3, <1>4

\* The slot of the j-th byte from a counter on.
Slot(n, j) == Uint(n + j - 1) % PIPESIZE

LEMMA SlotIs ==
  ASSUME NEW n \in Counter, NEW j \in 1..UintSize
  PROVE  Slot(n, j) = (n + j - 1) % PIPESIZE /\ Slot(n, j) \in Slots
  <1>1. PIPESIZE \in Nat \ {0} /\ UintSize \in Nat \ {0} /\ UintSize % PIPESIZE = 0
    BY ConstantsAssumption
  <1>2. PICK x \in 0..2 * UintSize - 1 : x = n + j - 1
    BY <1>1 DEF Counter
  <1>3. Uint(x) = x \/ Uint(x) = x - UintSize
    BY <1>1, <1>2, Wrapping
  <1>4. Uint(x) % PIPESIZE = x % PIPESIZE
    <2>1. PICK y \in Int : y = x - UintSize
      BY <1>1
    <2>2. y % PIPESIZE = x % PIPESIZE
      BY <1>2, <2>1, SameSlot
    <2> QED
      BY <1>3, <2>1, <2>2
  <1>5. x % PIPESIZE \in Slots
    BY <1>1 DEF Slots
  <1> QED
    BY <1>2, <1>4, <1>5 DEF Slot

LEMMA SlotsDiffer ==
  ASSUME NEW n \in Counter, NEW i \in 1..PIPESIZE, NEW j \in 1..PIPESIZE, i # j
  PROVE  Slot(n, i) # Slot(n, j)
  <1>1. PIPESIZE \in Nat \ {0} /\ UintSize \in Nat \ {0} /\ UintSize > PIPESIZE
    BY ConstantsAssumption
  <1>2. PICK x \in Int, y \in Int : x = n + i - 1 /\ y = n + j - 1
    BY <1>1 DEF Counter
  <1>3. x % PIPESIZE # y % PIPESIZE
    <2>1. CASE i < j
      <3>1. x < y /\ y < x + PIPESIZE
        BY <1>1, <1>2, <2>1 DEF Counter
      <3> QED
        BY <1>1, <3>1, OtherSlot
    <2>2. CASE j < i
      <3>1. y < x /\ x < y + PIPESIZE
        BY <1>1, <1>2, <2>2 DEF Counter
      <3> QED
        BY <1>1, <3>1, OtherSlot
    <2> QED
      BY <2>1, <2>2
  <1>4. Slot(n, i) = x % PIPESIZE /\ Slot(n, j) = y % PIPESIZE
    <2>1. i \in 1..UintSize /\ j \in 1..UintSize
      BY <1>1
    <2> QED
      BY <1>2, <2>1, SlotIs
  <1> QED
    BY <1>3, <1>4

\* Counted from a counter k further on.
LEMMA SlotFrom ==
  ASSUME NEW n \in Counter, NEW k \in 0..PIPESIZE, NEW j \in 1..PIPESIZE, k + j <= PIPESIZE
  PROVE  Slot(Uint(n + k), j) = Slot(n, k + j)
  <1>1. PIPESIZE \in Nat \ {0} /\ UintSize \in Nat \ {0} /\ UintSize > PIPESIZE
    BY ConstantsAssumption
  <1>2. PICK x \in 0..2 * UintSize - 1 : x = n + k
    BY <1>1 DEF Counter
  <1>3. PICK m \in Counter : m = Uint(x)
    BY <1>1, <1>2, Wrapping
  <1>4. m = x \/ m = x - UintSize
    BY <1>1, <1>2, <1>3, Wrapping
  <1>5. Slot(m, j) = (m + j - 1) % PIPESIZE
    BY <1>1, SlotIs
  <1>6. PICK y \in Int : y = x + j - 1
    OBVIOUS
  <1>7. Slot(n, k + j) = y % PIPESIZE
    <2>1. k + j \in 1..UintSize /\ y = n + (k + j) - 1
      BY <1>1, <1>2, <1>6 DEF Counter
    <2> QED
      BY <2>1, SlotIs
  <1>8. PICK z \in Int : z = y - UintSize
    BY <1>1
  <1>9. z % PIPESIZE = y % PIPESIZE
    BY <1>8, SameSlot
  <1>10. m + j - 1 = y \/ m + j - 1 = z
    BY <1>1, <1>2, <1>4, <1>6, <1>8 DEF Counter
  <1> QED
    BY <1>2, <1>3, <1>5, <1>7, <1>9, <1>10

\* How far the writers are ahead of the readers.
Bounded == Pending \in 0..PIPESIZE

LEMMA LeastOfTwo ==
  ASSUME NEW a \in Nat, NEW b \in Nat
  PROVE  Min({a, b}) = IF a <= b THEN a ELSE b
  BY DEF Min

LEMMA PendingIs ==
  ASSUME TypeOK
  PROVE  /\ Pending \in Counter
         /\ Pending = IF pipe.nwrite >= pipe.nread THEN pipe.nwrite - pipe.nread
                      ELSE pipe.nwrite - pipe.nread + UintSize
  <1>1. pipe.nwrite \in Counter /\ pipe.nread \in Counter /\ UintSize \in Nat
    BY ConstantsAssumption DEF TypeOK, PipePages
  <1>2. PICK x \in (-UintSize)..2 * UintSize - 1 : x = pipe.nwrite - pipe.nread
    BY <1>1 DEF Counter
  <1>3. /\ Uint(x) \in Counter
        /\ Uint(x) = IF x < 0 THEN x + UintSize ELSE IF x < UintSize THEN x ELSE x - UintSize
    BY Wrapping
  <1>4. Pending = Uint(x)
    BY <1>2 DEF Pending
  <1> QED
    BY <1>1, <1>2, <1>3, <1>4 DEF Counter

-----------------------------------------------------------------------------
(* What pipewrite and piperead do                                             *)

Rests(p, k) == SubSeq(l[p].rest, k + 1, Len(l[p].rest))

\* The k bytes that pipewrite puts in, and the slots it leaves alone.
Fills(p, k) ==
    /\ \A j \in 1..k : pipe'.data[Slot(pipe.nwrite, j)] = l[p].rest[j]
    /\ \A i \in Slots : (\A j \in 1..k : Slot(pipe.nwrite, j) # i) => pipe'.data[i] = pipe.data[i]
    /\ pipe'.nwrite = Uint(pipe.nwrite + k)
    /\ UNCHANGED <<pipe.used, pipe.readopen, pipe.writeopen, pipe.nread>>

Wrote(p, k) ==
    \/ Rests(p, k) = << >> /\ l' = [l EXCEPT ![p] = User("written", << >>)]
    \/ (~pipe.readopen \/ p \in killed) /\ l' = [l EXCEPT ![p] = User("error", << >>)]
    \/ l' = [l EXCEPT ![p] = [l[p] EXCEPT !.rest = Rests(p, k)]]

LEMMA PipeWrite ==
  ASSUME TypeOK, Bounded, NEW p \in Proc, pipewrite(p)
  PROVE  /\ l[p].pc = "write" /\ state[p] = "RUNNABLE"
         /\ UNCHANGED <<file, ofile, killed>>
         /\ state' = state \/ Wakeup("read")
         /\ pipe' \in PipePages
         /\ \E k \in 0..Len(l[p].rest) :
                k <= PIPESIZE - Pending /\ Fills(p, k) /\ Wrote(p, k)
  <1> DEFINE rest == l[p].rest
             k == Min({Len(rest), PIPESIZE - Pending})
             left == SubSeq(rest, k + 1, Len(rest))
             Into(i) == {j \in 1..k : Uint(pipe.nwrite + j - 1) % PIPESIZE = i}
             data == [i \in Slots |-> IF Into(i) = {} THEN pipe.data[i]
                                      ELSE rest[CHOOSE j \in Into(i) : TRUE]]
             filled == [pipe EXCEPT !.nwrite = Uint(@ + k), !.data = data]
  <1>1. rest \in Seq(Byte) /\ Len(rest) \in Nat /\ PIPESIZE - Pending \in Nat
    BY ConstantsAssumption DEF TypeOK, Locals, Bounded
  <1>2. k \in 0..Len(rest) /\ k <= PIPESIZE - Pending
    BY <1>1, LeastOfTwo
  <1>3. k \in 0..PIPESIZE /\ PIPESIZE \in Nat \ {0} /\ UintSize > PIPESIZE /\ UintSize \in Nat
    BY <1>1, <1>2, ConstantsAssumption DEF Bounded
  <1>4. DOMAIN pipe.data = Slots /\ pipe \in PipePages
    BY DEF TypeOK, PipePages
  <1>5. pipe' = filled \/ pipe' = [filled EXCEPT !.lock = p]
    BY <1>4 DEF pipewrite
  <1>6. data \in [Slots -> Byte]
    <2>1. ASSUME NEW i \in Slots, Into(i) # {} PROVE rest[CHOOSE j \in Into(i) : TRUE] \in Byte
      <3>1. PICK j \in 1..k : j = CHOOSE m \in Into(i) : TRUE
        BY <2>1
      <3>2. j \in 1..Len(rest)
        BY <1>1, <1>2
      <3> QED
        BY <1>1, <3>1, <3>2, ElementOfSeq
    <2> QED
      BY <1>4, <2>1 DEF PipePages
  <1>7. Uint(pipe.nwrite + k) \in Counter
    <2>1. pipe.nwrite + k \in (-UintSize)..2 * UintSize - 1
      BY <1>3, <1>4 DEF PipePages, Counter
    <2> QED
      BY <2>1, Wrapping
  <1>8. pipe' \in PipePages
    BY <1>4, <1>5, <1>6, <1>7 DEF PipePages
  <1>9. /\ pipe'.data = data /\ pipe'.nwrite = Uint(pipe.nwrite + k)
        /\ UNCHANGED <<pipe.used, pipe.readopen, pipe.writeopen, pipe.nread>>
    BY <1>4, <1>5 DEF PipePages
  <1>10. ASSUME NEW j \in 1..k PROVE Slot(pipe.nwrite, j) \in Slots /\ Into(Slot(pipe.nwrite, j)) = {j}
    <2>1. j \in 1..PIPESIZE /\ j \in 1..UintSize /\ pipe.nwrite \in Counter
      BY <1>3, <1>4 DEF PipePages
    <2>2. Slot(pipe.nwrite, j) \in Slots
      BY <2>1, SlotIs
    <2>3. ASSUME NEW m \in 1..k, Slot(pipe.nwrite, m) = Slot(pipe.nwrite, j) PROVE m = j
      <3>1. m \in 1..PIPESIZE
        BY <1>3
      <3> QED
        BY <2>1, <2>3, <3>1, SlotsDiffer
    <2> QED
      BY <2>2, <2>3 DEF Slot
  <1>11. Fills(p, k)
    <2>1. ASSUME NEW j \in 1..k PROVE data[Slot(pipe.nwrite, j)] = rest[j]
      BY <1>10
    <2>2. ASSUME NEW i \in Slots, \A j \in 1..k : Slot(pipe.nwrite, j) # i
          PROVE  data[i] = pipe.data[i]
      BY <2>2 DEF Slot
    <2>3. pipe'.data = data
      BY <1>9
    <2> HIDE DEF data, rest, k, Into
    <2>4. \A j \in 1..k : pipe'.data[Slot(pipe.nwrite, j)] = rest[j]
      BY <2>1, <2>3
    <2>5. \A i \in Slots : (\A j \in 1..k : Slot(pipe.nwrite, j) # i) => pipe'.data[i] = pipe.data[i]
      BY <2>2, <2>3
    <2> QED
      BY <1>9, <2>4, <2>5 DEF Fills, rest
  <1>12. Wrote(p, k)
    BY DEF pipewrite, Wrote, Rests, Local
  <1>13. l[p].pc = "write" /\ state[p] = "RUNNABLE" /\ UNCHANGED <<file, ofile, killed>>
         /\ (state' = state \/ Wakeup("read"))
    BY DEF pipewrite, At
  <1> QED
    BY <1>2, <1>8, <1>11, <1>12, <1>13

Got(p, k) ==
    l' = [l EXCEPT ![p] = User("read", [j \in 1..k |-> pipe.data[Slot(pipe.nread, j)]])]

LEMMA PipeRead ==
  ASSUME TypeOK, Bounded, NEW p \in Proc, piperead(p)
  PROVE  /\ l[p].pc = "read" /\ state[p] = "RUNNABLE"
         /\ UNCHANGED <<file, ofile, killed>>
         /\ state' = state \/ Wakeup("write")
         /\ pipe' \in PipePages
         /\ UNCHANGED <<pipe.used, pipe.readopen, pipe.writeopen, pipe.nwrite, pipe.data>>
         /\ \/ /\ Pending = 0 /\ p \in killed /\ pipe' = pipe
               /\ l' = [l EXCEPT ![p] = User("error", << >>)]
            \/ pipe'.nread = pipe.nread /\ l' = l
            \/ \E k \in Nat :
                  /\ k <= l[p].n /\ k <= Pending /\ (k = 0 => l[p].n = 0 \/ Pending = 0)
                  /\ Pending # 0 \/ ~pipe.writeopen
                  /\ pipe'.nread = Uint(pipe.nread + k)
                  /\ Got(p, k)
  <1> DEFINE k == Min({l[p].n, Pending})
  <1>1. pipe \in PipePages /\ l[p].n \in Nat /\ PIPESIZE \in Nat /\ UintSize > PIPESIZE /\ UintSize \in Nat
    BY ConstantsAssumption DEF TypeOK, Locals
  <1>2. k \in Nat /\ k <= l[p].n /\ k <= Pending /\ (k = 0 => l[p].n = 0 \/ Pending = 0)
    BY <1>1, LeastOfTwo DEF Bounded
  <1>3. Uint(pipe.nread + k) \in Counter
    <2>1. pipe.nread + k \in (-UintSize)..2 * UintSize - 1
      BY <1>1, <1>2 DEF PipePages, Counter, Bounded
    <2> QED
      BY <2>1, Wrapping
  <1>4. l[p].pc = "read" /\ state[p] = "RUNNABLE" /\ UNCHANGED <<file, ofile, killed>>
         /\ (state' = state \/ Wakeup("write"))
    BY DEF piperead, At
  <1>5. CASE /\ pipe' = [pipe EXCEPT !.nread = Uint(@ + k)]
             /\ Local(p, User("read", [j \in 1..k |-> pipe.data[Uint(pipe.nread + j - 1) % PIPESIZE]]))
             /\ Pending # 0 \/ ~pipe.writeopen
    <2>1. /\ pipe' \in PipePages /\ pipe'.nread = Uint(pipe.nread + k)
          /\ UNCHANGED <<pipe.used, pipe.readopen, pipe.writeopen, pipe.nwrite, pipe.data>>
      BY <1>1, <1>3, <1>5 DEF PipePages
    <2>2. Got(p, k)
      BY <1>5 DEF Got, Local, Slot
    <2> QED
      BY <1>2, <1>4, <1>5, <2>1, <2>2
  <1>6. CASE pipe' = [pipe EXCEPT !.lock = p] /\ l' = l
    <2>1. /\ pipe' \in PipePages /\ pipe'.nread = pipe.nread
          /\ UNCHANGED <<pipe.used, pipe.readopen, pipe.writeopen, pipe.nwrite, pipe.data>>
      BY <1>1, <1>6 DEF PipePages
    <2> QED
      BY <1>4, <1>6, <2>1
  <1>7. CASE pipe' = pipe /\ Pending = 0 /\ p \in killed /\ Local(p, User("error", << >>))
    BY <1>1, <1>4, <1>7 DEF Local
  <1> QED
    BY <1>5, <1>6, <1>7 DEF piperead

-----------------------------------------------------------------------------
(* Types                                                                      *)

\* What a call has taken, where it is; a slot that is free has nothing.
Handy ==
    \A p \in Proc :
        /\ l[p].pc \in {"user", "write", "read", "exit"} => l[p].f0 = 0 /\ l[p].f1 = 0
        /\ l[p].pc \in {"pipealloc", "close"} => l[p].f0 \in File
        /\ l[p].pc = "pipealloc" => l[p].f1 = 0 /\ file[l[p].f0].ref = 1
        /\ l[p].pc # "user" => l[p].result = New.result
        /\ state[p] = "UNUSED" => l[p] = New /\ \A fd \in Fd : ofile[p][fd] = 0

LEMMA LocalTypes ==
  /\ New \in Locals
  /\ \A is \in {"written", "error", "read"}, s \in Seq(Byte) : User(is, s) \in Locals
  /\ \A f, g \in File \union {0} : Close(f, g) \in Locals
  /\ << >> \in Seq(Byte)
  BY EmptySeq DEF New, User, Close, Locals, Places, Results

LEMMA TypeInit == Init => TypeOK
  <1>1. 0 \in Counter /\ 0 \in Byte
    BY ConstantsAssumption DEF Counter, Byte
  <1>2. NoFile \in Files
    BY DEF NoFile, Files
  <1>3. NoPipe \in PipePages
    BY <1>1 DEF NoPipe, PipePages, Slots
  <1> QED
    BY <1>2, <1>3, LocalTypes DEF Init, TypeOK

LEMMA ClosedType ==
  ASSUME TypeOK, NEW p \in Proc
  PROVE  Closed(p) \in Locals
  BY DEF TypeOK, Locals, Places, Closed

LEMMA LocalStep ==
  ASSUME TypeOK, NEW p \in Proc, NEW f \in Locals, Local(p, f)
  PROVE  l' \in [Proc -> Locals]
  BY DEF Local, TypeOK

LEMMA FileTypes ==
  /\ NoFile \in Files
  /\ \A w \in BOOLEAN : [ref |-> 1, type |-> "pipe", writable |-> w] \in Files
  /\ \A r \in Files, n \in Int : [r EXCEPT !.ref = n] \in Files
  BY DEF NoFile, Files

LEMMA FileStep ==
  ASSUME TypeOK, NEW f \in File, NEW r \in Files
  PROVE  /\ [file EXCEPT ![f] = r] \in [File -> Files]
         /\ \A g \in File, s \in Files : [file EXCEPT ![g] = s, ![f] = r] \in [File -> Files]
  BY DEF TypeOK

LEMMA WakeupType ==
  ASSUME TypeOK, NEW to, state' = state \/ Wakeup(to)
  PROVE  state' \in [Proc -> {"UNUSED", "RUNNABLE", "SLEEPING"}]
  BY DEF TypeOK, Wakeup

LEMMA TypeStep ==
  ASSUME TypeOK, Bounded, Handy, [Next]_vars
  PROVE  TypeOK'
  <1>1. ASSUME NEW p \in Proc, sys_pipe(p) PROVE TypeOK'
    <2>1. PICK f \in File : /\ file' = [file EXCEPT ![f].ref = 1]
                            /\ Local(p, [New EXCEPT !.pc = "pipealloc", !.f0 = f])
      BY <1>1 DEF sys_pipe, FreeFiles
    <2>2. [New EXCEPT !.pc = "pipealloc", !.f0 = f] \in Locals
      BY LocalTypes DEF Locals, Places
    <2>3. file' \in [File -> Files]
      BY <2>1 DEF TypeOK, Files
    <2> QED
      BY <1>1, <2>1, <2>2, <2>3, LocalStep DEF sys_pipe, TypeOK
  <1>2. ASSUME NEW p \in Proc, pipealloc(p) PROVE TypeOK'
    <2>1. l[p].f0 \in File
      BY <1>2 DEF pipealloc, At, Handy
    <2>2. CASE FreeFiles = {}
      <3>1. Local(p, Close(l[p].f0, 0)) /\ UNCHANGED <<file, pipe, ofile, state, killed>>
        BY <1>2, <2>2 DEF pipealloc
      <3> QED
        BY <2>1, <3>1, LocalTypes, LocalStep DEF TypeOK
    <2>3. CASE FreeFiles # {}
      <3> DEFINE rf == l[p].f0
      <3>1. PICK wf \in File :
            /\ \/ /\ file' = [file EXCEPT ![wf].ref = 1]
                  /\ Local(p, Close(rf, wf))
                  /\ UNCHANGED <<pipe, ofile>>
               \/ /\ pipe' = [pipe EXCEPT !.used = TRUE, !.readopen = TRUE, !.writeopen = TRUE,
                                          !.nread = 0, !.nwrite = 0]
                  /\ file' = [file EXCEPT ![rf] = [ref |-> 1, type |-> "pipe", writable |-> FALSE],
                                          ![wf] = [ref |-> 1, type |-> "pipe", writable |-> TRUE]]
                  /\ \/ Local(p, Close(rf, wf)) /\ UNCHANGED ofile
                     \/ /\ \E r, w \in Fd : ofile' = [ofile EXCEPT ![p][r] = rf, ![p][w] = wf]
                        /\ Local(p, New)
            /\ UNCHANGED <<state, killed>>
        BY <1>2, <2>3 DEF pipealloc, FreeFiles, FreeFds
      <3>2. l' \in [Proc -> Locals]
        BY <2>1, <3>1, LocalTypes, LocalStep
      <3>3. file' \in [File -> Files]
        <4>1. [file[wf] EXCEPT !.ref = 1] \in Files
          <5>1. file[wf] \in Files
            BY DEF TypeOK
          <5> QED
            BY <5>1, FileTypes
        <4>2. [file EXCEPT ![wf].ref = 1] \in [File -> Files]
          BY <4>1, FileStep
        <4>3. [file EXCEPT ![rf] = [ref |-> 1, type |-> "pipe", writable |-> FALSE],
                           ![wf] = [ref |-> 1, type |-> "pipe", writable |-> TRUE]]
              \in [File -> Files]
          BY <2>1, FileTypes, FileStep
        <4> QED
          BY <3>1, <4>2, <4>3
      <3>4. pipe' \in PipePages
        <4>1. 0 \in Counter
          BY ConstantsAssumption DEF Counter
        <4> QED
          BY <3>1, <4>1 DEF TypeOK, PipePages
      <3>5. ofile' \in [Proc -> [Fd -> File \union {0}]]
        <4>1. ASSUME NEW r \in Fd, NEW w \in Fd, ofile' = [ofile EXCEPT ![p][r] = rf, ![p][w] = wf]
              PROVE  ofile' \in [Proc -> [Fd -> File \union {0}]]
          BY <2>1, <4>1 DEF TypeOK
        <4> QED
          BY <3>1, <4>1 DEF TypeOK
      <3> QED
        BY <3>1, <3>2, <3>3, <3>4, <3>5 DEF TypeOK
    <2> QED
      BY <2>2, <2>3
  <1>3. ASSUME NEW p \in Proc, sys_dup(p) PROVE TypeOK'
    <2>1. PICK from \in Fd, to \in Fd :
            /\ ofile[p][from] # 0
            /\ ofile' = [ofile EXCEPT ![p][to] = ofile[p][from]]
            /\ file' = [file EXCEPT ![ofile[p][from]].ref = @ + 1]
      BY <1>3 DEF sys_dup, FreeFds
    <2>2. file' \in [File -> Files]
      <3>1. ofile[p][from] \in File
        BY <2>1 DEF TypeOK
      <3> QED
        <4>1. file[ofile[p][from]] \in Files /\ file[ofile[p][from]].ref + 1 \in Int
          BY <3>1 DEF TypeOK, Files
        <4> QED
          BY <2>1, <3>1, <4>1, FileTypes, FileStep
    <2>3. ofile' \in [Proc -> [Fd -> File \union {0}]]
      BY <2>1 DEF TypeOK
    <2> QED
      BY <1>3, <2>2, <2>3, LocalTypes, LocalStep DEF sys_dup, TypeOK
  <1>4. ASSUME NEW p \in Proc, sys_close(p) PROVE TypeOK'
    <2>1. PICK fd \in Fd : /\ ofile' = [ofile EXCEPT ![p][fd] = 0]
                           /\ Local(p, Close(ofile[p][fd], 0))
      BY <1>4 DEF sys_close
    <2>2. ofile[p][fd] \in File \union {0}
      BY DEF TypeOK
    <2>3. ofile' \in [Proc -> [Fd -> File \union {0}]]
      BY <2>1 DEF TypeOK
    <2>4. l' \in [Proc -> Locals]
      BY <2>1, <2>2, LocalTypes, LocalStep
    <2> QED
      BY <1>4, <2>3, <2>4 DEF sys_close, TypeOK
  <1>5. ASSUME NEW p \in Proc, sys_write(p) PROVE TypeOK'
    <2>1. PICK s \in Writes : Local(p, [New EXCEPT !.pc = "write", !.rest = s])
      BY <1>5 DEF sys_write
    <2>2. [New EXCEPT !.pc = "write", !.rest = s] \in Locals
      BY LocalTypes, ConstantsAssumption DEF Locals, Places
    <2> QED
      BY <1>5, <2>1, <2>2, LocalStep DEF sys_write, TypeOK
  <1>6. ASSUME NEW p \in Proc, sys_read(p) PROVE TypeOK'
    <2>1. PICK n \in Reads : Local(p, [New EXCEPT !.pc = "read", !.n = n])
      BY <1>6 DEF sys_read
    <2>2. [New EXCEPT !.pc = "read", !.n = n] \in Locals
      BY LocalTypes, ConstantsAssumption DEF Locals, Places
    <2> QED
      BY <1>6, <2>1, <2>2, LocalStep DEF sys_read, TypeOK
  <1>7. ASSUME NEW p \in Proc, fileclose(p) PROVE TypeOK'
    <2>1. file' \in [File -> Files]
      <3>1. PICK f \in File : f = l[p].f0
        BY <1>7 DEF fileclose, At, Handy
      <3>2. CASE file[f].ref = 1
        <4>1. file' = [file EXCEPT ![f] = NoFile]
          BY <1>7, <3>1, <3>2 DEF fileclose
        <4> QED
          BY <4>1, FileTypes, FileStep
      <3>3. CASE file[f].ref # 1
        <4>1. file' = [file EXCEPT ![f] = [file[f] EXCEPT !.ref = file[f].ref - 1]]
          BY <1>7, <3>1, <3>3 DEF fileclose
        <4>2. file[f] \in Files /\ file[f].ref - 1 \in Int
          BY DEF TypeOK, Files
        <4> QED
          BY <4>1, <4>2, FileTypes, FileStep
      <3> QED
        BY <3>2, <3>3
    <2>2. [l[p] EXCEPT !.pc = "pipeclose", !.writable = file[l[p].f0].writable] \in Locals
      <3>1. l[p].f0 \in File
        BY <1>7 DEF fileclose, At, Handy
      <3> QED
        BY <3>1 DEF TypeOK, Locals, Files, Places
    <2>3. l' \in [Proc -> Locals]
      BY <1>7, <2>2, ClosedType, LocalStep DEF fileclose
    <2> QED
      BY <1>7, <2>1, <2>3 DEF fileclose, TypeOK
  <1>8. ASSUME NEW p \in Proc, pipeclose(p) PROVE TypeOK'
    <2>1. pipe' \in PipePages
      BY <1>8 DEF pipeclose, TypeOK, PipePages
    <2>2. l' \in [Proc -> Locals]
      BY <1>8, ClosedType, LocalStep DEF pipeclose
    <2>3. state' \in [Proc -> {"UNUSED", "RUNNABLE", "SLEEPING"}]
      BY <1>8, WakeupType DEF pipeclose
    <2> QED
      BY <1>8, <2>1, <2>2, <2>3 DEF pipeclose, TypeOK
  <1>9. ASSUME NEW p \in Proc, pipewrite(p) PROVE TypeOK'
    <2>1. PICK k \in 0..Len(l[p].rest) : Wrote(p, k)
      BY <1>9, PipeWrite
    <2>2. Rests(p, k) \in Seq(Byte)
      <3>1. l[p].rest \in Seq(Byte)
        BY DEF TypeOK, Locals
      <3>2. k + 1 \in Int /\ Len(l[p].rest) \in Int
        BY <3>1, LenProperties
      <3>3. \A i \in k + 1..Len(l[p].rest) : l[p].rest[i] \in Byte
        BY <3>1, <3>2, ElementOfSeq
      <3> QED
        BY <3>2, <3>3, SubSeqProperties DEF Rests
    <2>3. [l[p] EXCEPT !.rest = Rests(p, k)] \in Locals
      BY <2>2 DEF TypeOK, Locals
    <2>4. l' \in [Proc -> Locals]
      BY <2>1, <2>3, LocalTypes, LocalStep DEF Wrote, Local
    <2> QED
      BY <1>9, <2>4, PipeWrite, WakeupType DEF TypeOK
  <1>10. ASSUME NEW p \in Proc, piperead(p) PROVE TypeOK'
    <2>1. l' \in [Proc -> Locals]
      <3>1. CASE l' = [l EXCEPT ![p] = User("error", << >>)] \/ l' = l
        BY <3>1, LocalTypes, LocalStep DEF Local, TypeOK
      <3>2. ASSUME NEW k \in Nat, k <= Pending, Got(p, k) PROVE l' \in [Proc -> Locals]
        <4> DEFINE s == [j \in 1..k |-> pipe.data[Slot(pipe.nread, j)]]
        <4>1. ASSUME NEW j \in 1..k PROVE pipe.data[Slot(pipe.nread, j)] \in Byte
          <5>1. j \in 1..UintSize /\ pipe.nread \in Counter
            BY <3>2, ConstantsAssumption DEF TypeOK, PipePages, Bounded
          <5> QED
            BY <5>1, SlotIs DEF TypeOK, PipePages
        <4>2. s \in Seq(Byte)
          BY <4>1, IsASeq
        <4> QED
          BY <3>2, <4>2, LocalTypes, LocalStep DEF Got, Local
      <3> QED
        BY <1>10, <3>1, <3>2, PipeRead
    <2> QED
      BY <1>10, <2>1, PipeRead, WakeupType DEF TypeOK
  <1>11. ASSUME NEW p \in Proc, sleep(p) \/ kill(p) PROVE TypeOK'
    BY <1>11 DEF sleep, kill, TypeOK, PipePages
  <1>12. ASSUME NEW p \in Proc, exit(p) PROVE TypeOK'
    <2>1. [New EXCEPT !.pc = "exit", !.exiting = TRUE] \in Locals
      BY LocalTypes DEF Locals, Places
    <2> QED
      BY <1>12, <2>1, LocalStep DEF exit, TypeOK
  <1>13. ASSUME NEW p \in Proc, exit_close(p) PROVE TypeOK'
    <2>1. PICK fd \in Fd : /\ ofile' = [ofile EXCEPT ![p][fd] = 0]
                           /\ Local(p, [Close(ofile[p][fd], 0) EXCEPT !.exiting = TRUE])
      BY <1>13 DEF exit_close
    <2>2. ofile[p][fd] \in File \union {0}
      BY DEF TypeOK
    <2>3. ofile' \in [Proc -> [Fd -> File \union {0}]]
      BY <2>1 DEF TypeOK
    <2>4. [Close(ofile[p][fd], 0) EXCEPT !.exiting = TRUE] \in Locals
      BY <2>2, LocalTypes DEF Locals
    <2> QED
      BY <1>13, <2>1, <2>3, <2>4, LocalStep DEF exit_close, TypeOK
  <1>14. ASSUME NEW p \in Proc, zombie(p) PROVE TypeOK'
    BY <1>14, LocalTypes, LocalStep DEF zombie, TypeOK
  <1>15. ASSUME NEW p \in Proc, NEW c \in Proc, fork(p, c) PROVE TypeOK'
    <2>1. file' \in [File -> Files]
      <3>1. ASSUME NEW f \in File PROVE Cardinality({fd \in Fd : ofile[p][fd] = f}) \in Int
        <4>1. IsFiniteSet(Fd)
          BY ConstantsAssumption, FS_Interval DEF Fd
        <4>2. IsFiniteSet({fd \in Fd : ofile[p][fd] = f})
          BY <4>1, FS_Subset
        <4> QED
          BY <4>2, FS_CardinalityType
      <3> QED
        <4>1. \A f \in File : file[f] \in Files /\ file[f].ref \in Int
          BY DEF TypeOK, Files
        <4>2. file' = [f \in File |-> [file[f] EXCEPT
                        !.ref = file[f].ref + Cardinality({fd \in Fd : ofile[p][fd] = f})]]
          BY <1>15 DEF fork
        <4> QED
          BY <3>1, <4>1, <4>2, FileTypes
    <2>2. ofile' \in [Proc -> [Fd -> File \union {0}]]
      BY <1>15 DEF fork, TypeOK
    <2>3. l' \in [Proc -> Locals]
      BY <1>15, LocalTypes, LocalStep DEF fork
    <2> QED
      BY <1>15, <2>1, <2>2, <2>3 DEF fork, TypeOK
  <1>16. CASE UNCHANGED vars
    BY <1>16 DEF vars, TypeOK
  <1> QED
    BY <1>1, <1>2, <1>3, <1>4, <1>5, <1>6, <1>7, <1>8, <1>9, <1>10, <1>11, <1>12, <1>13, <1>14,
       <1>15, <1>16 DEF Next, Finish

-----------------------------------------------------------------------------
(* What processes have in hand                                                *)

HandNo == -2..NOFILE - 1

LEMMA HandTypes ==
  /\ IsFiniteSet(Hands)
  /\ Fd \subseteq HandNo /\ -1 \in HandNo /\ -2 \in HandNo
  /\ HandNo = Fd \union {-1, -2} /\ -1 \notin Fd /\ -2 \notin Fd
  <1>1. NOFILE \in Nat \ {0} /\ IsFiniteSet(Proc)
    BY ConstantsAssumption
  <1>2. IsFiniteSet(HandNo)
    BY <1>1, FS_Interval DEF HandNo
  <1>3. IsFiniteSet(Hands)
    BY <1>1, <1>2, FS_Product DEF Hands, HandNo
  <1> QED
    BY <1>1, <1>3 DEF HandNo, Fd

LEMMA HeldIs ==
  ASSUME NEW p \in Proc
  PROVE  /\ \A fd \in Fd : Held(p, fd) = ofile[p][fd]
         /\ Held(p, -1) = IF l[p].pc = "pipeclose" THEN 0 ELSE l[p].f0
         /\ Held(p, -2) = l[p].f1
  BY HandTypes DEF Held

\* The file in each hand of everybody, and how many hands a file is in.
InHand == [h \in Hands |-> Held(h[1], h[2])]
Count(h, f) == Cardinality({x \in Hands : h[x] = f})
HandMap == [Hands -> File \union {0}]

LEMMA InHandType ==
  ASSUME TypeOK
  PROVE  InHand \in HandMap
  <1>1. ASSUME NEW p \in Proc, NEW i \in HandNo PROVE Held(p, i) \in File \union {0}
    <2>1. CASE i \in Fd
      BY <2>1, HeldIs DEF TypeOK
    <2>2. CASE i \in {-1, -2}
      BY <2>2, HeldIs DEF TypeOK, Locals
    <2> QED
      BY <2>1, <2>2, HandTypes
  <1> QED
    BY <1>1 DEF InHand, HandMap, Hands, HandNo

LEMMA Counted ==
  ASSUME FilesCounted, NEW f \in File
  PROVE  file[f].ref = Count(InHand, f)
  <1>1. {h \in Hands : Held(h[1], h[2]) = f} = {x \in Hands : InHand[x] = f}
    BY DEF InHand
  <1> QED
    BY <1>1 DEF FilesCounted, Count

LEMMA CountNat ==
  ASSUME NEW h, NEW f
  PROVE  Count(h, f) \in Nat /\ IsFiniteSet({x \in Hands : h[x] = f})
  <1>1. IsFiniteSet({x \in Hands : h[x] = f})
    BY HandTypes, FS_Subset
  <1> QED
    BY <1>1, FS_CardinalityType DEF Count

\* g is h but for hand x, which has v.
Put(g, h, x, v) ==
    /\ g[x] = v
    /\ \A y \in Hands : y # x => g[y] = h[y]
    /\ \A f \in File : /\ Count(h, f) \in Nat
                      /\ Count(g, f) = Count(h, f) - (IF h[x] = f THEN 1 ELSE 0)
                                                 + (IF v = f THEN 1 ELSE 0)

LEMMA CountChange ==
  ASSUME NEW h \in HandMap, NEW x \in Hands, NEW v \in File \union {0}
  PROVE  \E g \in HandMap : Put(g, h, x, v)
  <1> SUFFICES ASSUME NEW f \in File
               PROVE  /\ Count([h EXCEPT ![x] = v], f)
                           = Count(h, f) - (IF h[x] = f THEN 1 ELSE 0) + (IF v = f THEN 1 ELSE 0)
    <2> PICK g \in HandMap : g = [h EXCEPT ![x] = v]
      BY DEF HandMap
    <2>1. g[x] = v /\ \A y \in Hands : y # x => g[y] = h[y]
      BY DEF HandMap
    <2> QED
      BY <2>1, CountNat DEF Put
  <1> DEFINE S == {y \in Hands : h[y] = f}
             R == S \ {x}
             T == {y \in Hands : [h EXCEPT ![x] = v][y] = f}
  <1>1. IsFiniteSet(S) /\ Cardinality(S) \in Nat
    BY CountNat DEF Count
  <1>2. IsFiniteSet(R) /\ Cardinality(R) = Cardinality(S) - (IF h[x] = f THEN 1 ELSE 0)
    <2>1. x \in S <=> h[x] = f
      OBVIOUS
    <2> QED
      BY <1>1, <2>1, FS_RemoveElement
  <1>3. T = IF v = f THEN R \union {x} ELSE R
    BY DEF HandMap
  <1>4. Cardinality(T) = Cardinality(R) + (IF v = f THEN 1 ELSE 0)
    <2>1. x \notin R
      OBVIOUS
    <2>2. Cardinality(R \union {x}) = Cardinality(R) + 1
      BY <1>2, <2>1, FS_AddElement
    <2>3. Cardinality(R) \in Nat
      BY <1>2, FS_CardinalityType
    <2>4. CASE v = f
      BY <1>3, <2>2, <2>4
    <2>5. CASE v # f
      BY <1>3, <2>3, <2>5
    <2> QED
      BY <2>4, <2>5
  <1> QED
    BY <1>1, <1>2, <1>4 DEF Count

\* A file in one hand only.
LEMMA OneHand ==
  ASSUME NEW h \in HandMap, NEW f \in File, NEW x \in Hands, h[x] = f, Count(h, f) = 1
  PROVE  \A y \in Hands : h[y] = f => y = x
  <1> DEFINE S == {y \in Hands : h[y] = f}
  <1>1. IsFiniteSet(S) /\ Cardinality(S) = 1
    BY CountNat DEF Count
  <1>2. PICK z : S = {z}
    BY <1>1, FS_Singleton
  <1> QED
    BY <1>2

LEMMA NoHand ==
  ASSUME NEW h \in HandMap, NEW f \in File, Count(h, f) = 0
  PROVE  \A y \in Hands : h[y] # f
  <1> DEFINE S == {y \in Hands : h[y] = f}
  <1>1. IsFiniteSet(S) /\ Cardinality(S) = 0
    BY CountNat DEF Count
  <1>2. S = {}
    BY <1>1, FS_EmptySet
  <1> QED
    BY <1>2

\* What it means for whoever holds a file.
LEMMA OnlyOne ==
  ASSUME TypeOK, FilesCounted, NEW f \in File, NEW p \in Proc,
         file[f].ref = 1, l[p].pc # "pipeclose", l[p].f0 = f
  PROVE  /\ \A q \in Proc, fd \in Fd : ofile[q][fd] # f
         /\ \A q \in Proc : l[q].f0 = f /\ l[q].pc # "pipeclose" => q = p
         /\ \A q \in Proc : l[q].f1 # f
  <1>1. <<p, -1>> \in Hands /\ InHand[<<p, -1>>] = f
    BY HandTypes, HeldIs DEF Hands, HandNo, InHand
  <1>2. \A y \in Hands : InHand[y] = f => y = <<p, -1>>
    BY <1>1, Counted, OneHand, InHandType
  <1>3. ASSUME NEW q \in Proc, NEW i \in HandNo, Held(q, i) = f PROVE q = p /\ i = -1
    <2>1. <<q, i>> \in Hands /\ InHand[<<q, i>>] = f
      BY <1>3 DEF Hands, HandNo, InHand
    <2> QED
      BY <1>2, <2>1
  <1> QED
    BY <1>3, HeldIs, HandTypes

LEMMA NotOne ==
  ASSUME TypeOK, FilesCounted, NEW f \in File, file[f].ref = 0
  PROVE  /\ \A q \in Proc, fd \in Fd : ofile[q][fd] # f
         /\ \A q \in Proc : l[q].f0 = f => l[q].pc = "pipeclose"
         /\ \A q \in Proc : l[q].f1 # f
  <1>1. ASSUME NEW q \in Proc, NEW i \in HandNo PROVE Held(q, i) # f
    <2>1. \A y \in Hands : InHand[y] # f
      BY Counted, NoHand, InHandType
    <2>2. <<q, i>> \in Hands /\ InHand[<<q, i>>] = Held(q, i)
      BY DEF Hands, HandNo, InHand
    <2> QED
      BY <2>1, <2>2
  <1> QED
    BY <1>1, HeldIs, HandTypes

-----------------------------------------------------------------------------
(* Reference counts                                                           *)

RefsCounted == \A f \in File : file[f].ref = Cardinality({h \in Hands : Held(h[1], h[2]) = f})

LEMMA InHandNext ==
  ASSUME NEW p \in Proc, NEW h \in HandMap,
         \A q \in Proc \ {p} : l'[q] = l[q] /\ ofile'[q] = ofile[q],
         \A q \in Proc \ {p}, i \in HandNo : h[<<q, i>>] = InHand[<<q, i>>],
         \A fd \in Fd : h[<<p, fd>>] = ofile'[p][fd],
         h[<<p, -1>>] = IF l'[p].pc = "pipeclose" THEN 0 ELSE l'[p].f0,
         h[<<p, -2>>] = l'[p].f1
  PROVE  InHand' = h
  <1>1. ASSUME NEW q \in Proc, NEW i \in HandNo PROVE h[<<q, i>>] = Held(q, i)'
    <2>1. CASE q = p
      <3>1. CASE i \in Fd
        BY <2>1, <3>1, HandTypes DEF Held
      <3>2. CASE i \in {-1, -2}
        BY <2>1, <3>2, HandTypes DEF Held
      <3> QED
        BY <3>1, <3>2, HandTypes
    <2>2. CASE q # p
      <3>1. h[<<q, i>>] = Held(q, i)
        BY <2>2 DEF InHand, Hands, HandNo
      <3>2. Held(q, i)' = Held(q, i)
        BY <2>2, HandTypes DEF Held
      <3> QED
        BY <3>1, <3>2
    <2> QED
      BY <2>1, <2>2
  <1> QED
    BY <1>1 DEF InHand, HandMap, Hands, HandNo

LEMMA SameHands ==
  ASSUME \A q \in Proc : /\ l'[q].f0 = l[q].f0 /\ l'[q].f1 = l[q].f1
                         /\ l'[q].pc = "pipeclose" <=> l[q].pc = "pipeclose",
         ofile' = ofile
  PROVE  InHand' = InHand
  <1>1. ASSUME NEW q \in Proc, NEW i \in HandNo PROVE Held(q, i)' = Held(q, i)
    BY HandTypes DEF Held
  <1> QED
    BY <1>1 DEF InHand, Hands, HandNo

LEMMA RefsNext ==
  ASSUME NEW h, InHand' = h, \A f \in File : file'[f].ref = Count(h, f)
  PROVE  RefsCounted'
  <1>1. ASSUME NEW f \in File
        PROVE  {x \in Hands : Held(x[1], x[2])' = f} = {x \in Hands : h[x] = f}
    BY DEF InHand
  <1> QED
    BY <1>1 DEF RefsCounted, Count

LEMMA HandsOf ==
  ASSUME NEW p \in Proc
  PROVE  /\ \A i \in HandNo : <<p, i>> \in Hands
         /\ \A fd \in Fd : /\ <<p, fd>> \in Hands /\ InHand[<<p, fd>>] = ofile[p][fd]
                           /\ <<p, fd>> # <<p, -1>> /\ <<p, fd>> # <<p, -2>>
         /\ <<p, -1>> \in Hands /\ <<p, -2>> \in Hands /\ <<p, -1>> # <<p, -2>>
         /\ InHand[<<p, -1>>] = IF l[p].pc = "pipeclose" THEN 0 ELSE l[p].f0
         /\ InHand[<<p, -2>>] = l[p].f1
  <1>1. \A i \in HandNo : <<p, i>> \in Hands /\ InHand[<<p, i>>] = Held(p, i)
    BY DEF Hands, HandNo, InHand
  <1>2. -1 \in HandNo /\ -2 \in HandNo /\ -1 \notin Fd /\ -2 \notin Fd /\ Fd \subseteq HandNo
    BY HandTypes
  <1> QED
    BY <1>1, <1>2, HeldIs

\* The hands after a step of p that leaves those of the others alone.
LEMMA HandsAfter ==
  ASSUME NEW p \in Proc, NEW h \in HandMap,
         \A q \in Proc \ {p} : l'[q] = l[q] /\ ofile'[q] = ofile[q],
         \A y \in Hands : y[1] # p => h[y] = InHand[y],
         \A fd \in Fd : h[<<p, fd>>] = ofile'[p][fd],
         h[<<p, -1>>] = IF l'[p].pc = "pipeclose" THEN 0 ELSE l'[p].f0,
         h[<<p, -2>>] = l'[p].f1,
         \A f \in File : file'[f].ref = Count(h, f)
  PROVE  RefsCounted'
  <1>1. \A q \in Proc \ {p}, i \in HandNo : h[<<q, i>>] = InHand[<<q, i>>]
    <2>1. ASSUME NEW q \in Proc \ {p}, NEW i \in HandNo PROVE h[<<q, i>>] = InHand[<<q, i>>]
      <3>1. <<q, i>> \in Hands /\ <<q, i>>[1] = q
        BY HandsOf
      <3> QED
        BY <3>1
    <2> QED
      BY <2>1
  <1>2. InHand' = h
    BY <1>1, InHandNext
  <1> QED
    BY <1>2, RefsNext

LEMMA RefsPipe ==
  ASSUME TypeOK, FilesCounted, Handy, NEW p \in Proc, sys_pipe(p)
  PROVE  RefsCounted'
  <1>1. PICK f \in File : /\ file[f].ref = 0 /\ file' = [file EXCEPT ![f].ref = 1]
                          /\ Local(p, [New EXCEPT !.pc = "pipealloc", !.f0 = f])
    BY DEF sys_pipe, FreeFiles
  <1>2. l[p].f0 = 0 /\ l[p].f1 = 0 /\ l[p].pc = "user" /\ ofile' = ofile
    BY DEF Handy, sys_pipe, MayCall, At
  <1>3. l'[p].pc = "pipealloc" /\ l'[p].f0 = f /\ l'[p].f1 = 0 /\ \A q \in Proc \ {p} : l'[q] = l[q]
    BY <1>1 DEF Local, TypeOK, New, User
  <1>4. PICK x \in Hands : x = <<p, -1>> /\ InHand[x] = 0
    BY <1>2, HandsOf
  <1>5. PICK h \in HandMap : Put(h, InHand, x, f)
    BY InHandType, CountChange
  <1>6. ASSUME NEW g \in File PROVE file'[g].ref = Count(h, g)
    BY <1>1, <1>4, <1>5, Counted DEF TypeOK, Files, File, Put
  <1>7. /\ \A fd \in Fd : h[<<p, fd>>] = ofile'[p][fd]
        /\ h[<<p, -1>>] = l'[p].f0 /\ h[<<p, -2>>] = l'[p].f1
    BY <1>2, <1>3, <1>4, <1>5, HandsOf DEF Put
  <1>8. \A y \in Hands : y[1] # p => h[y] = InHand[y]
    BY <1>4, <1>5 DEF Put
  <1> QED
    BY <1>2, <1>3, <1>6, <1>7, <1>8, HandsAfter

LEMMA SameRefs ==
  ASSUME FilesCounted,
         \A q \in Proc : /\ l'[q].f0 = l[q].f0 /\ l'[q].f1 = l[q].f1
                         /\ l'[q].pc = "pipeclose" <=> l[q].pc = "pipeclose",
         UNCHANGED <<file, ofile>>
  PROVE  RefsCounted'
  <1>1. InHand' = InHand
    BY SameHands
  <1>2. PICK h : h = InHand
    OBVIOUS
  <1> QED
    BY <1>1, <1>2, Counted, RefsNext

\* The two descriptors that pipealloc takes.
LEMMA TwoFds ==
  ASSUME TypeOK, NEW p \in Proc, ~(Cardinality(FreeFds(p)) < 2),
         NEW r \in FreeFds(p), NEW w \in FreeFds(p), w = Min(FreeFds(p) \ {r})
  PROVE  w # r
  <1>1. IsFiniteSet(FreeFds(p))
    <2>1. IsFiniteSet(Fd)
      BY ConstantsAssumption, FS_Interval DEF Fd
    <2> QED
      BY <2>1, FS_Subset DEF FreeFds
  <1> DEFINE S == FreeFds(p) \ {r}
  <1>2. IsFiniteSet(S) /\ Cardinality(S) = Cardinality(FreeFds(p)) - 1
    BY <1>1, FS_RemoveElement
  <1>3. S # {}
    BY <1>1, <1>2, FS_EmptySet, FS_CardinalityType
  <1>4. S \subseteq Nat
    BY ConstantsAssumption DEF FreeFds, Fd
  <1>5. PICK x \in S : \A y \in S : ~(<<y, x>> \in OpToRel(<, Nat))
    BY <1>3, <1>4, NatLessThanWellFounded, WFMin
  <1>6. \A y \in S : x <= y
    <2>1. ASSUME NEW y \in S PROVE x <= y
      <3>1. x \in Nat /\ y \in Nat /\ <<y, x>> \in Nat \X Nat
        BY <1>4
      <3>2. ~(y < x)
        BY <1>5, <3>1 DEF OpToRel
      <3> QED
        BY <3>1, <3>2
    <2> QED
      BY <2>1
  <1>7. Min(S) \in S
    BY <1>6 DEF Min
  <1> QED
    BY <1>7

\* What pipealloc may do, once a second file is free.
NoPage(p, wf) ==
    /\ file' = [file EXCEPT ![wf].ref = 1]
    /\ Local(p, Close(l[p].f0, wf))
    /\ UNCHANGED <<pipe, ofile>>
Page(p, wf) ==
    /\ ~pipe.used
    /\ pipe' = [pipe EXCEPT !.used = TRUE, !.readopen = TRUE, !.writeopen = TRUE,
                            !.nread = 0, !.nwrite = 0]
    /\ file' = [file EXCEPT ![l[p].f0] = [ref |-> 1, type |-> "pipe", writable |-> FALSE],
                            ![wf] = [ref |-> 1, type |-> "pipe", writable |-> TRUE]]
    /\ \/ Local(p, Close(l[p].f0, wf)) /\ UNCHANGED ofile
       \/ /\ \E r, w \in FreeFds(p) :
                r # w /\ ofile' = [ofile EXCEPT ![p][r] = l[p].f0, ![p][w] = wf]
          /\ Local(p, New)

LEMMA Pipealloc ==
  ASSUME TypeOK, Handy, NEW p \in Proc, pipealloc(p)
  PROVE  /\ l[p].pc = "pipealloc" /\ state[p] = "RUNNABLE" /\ UNCHANGED <<state, killed>>
         /\ l[p].f0 \in File /\ l[p].f1 = 0 /\ file[l[p].f0].ref = 1
         /\ \/ Local(p, Close(l[p].f0, 0)) /\ UNCHANGED <<file, pipe, ofile>>
            \/ \E wf \in File : file[wf].ref = 0 /\ wf # l[p].f0 /\ (NoPage(p, wf) \/ Page(p, wf))
  <1>1. l[p].pc = "pipealloc" /\ state[p] = "RUNNABLE" /\ UNCHANGED <<state, killed>>
    BY DEF pipealloc, At
  <1>2. l[p].f0 \in File /\ l[p].f1 = 0 /\ file[l[p].f0].ref = 1
    BY <1>1 DEF Handy
  <1>3. CASE FreeFiles = {}
    BY <1>1, <1>2, <1>3 DEF pipealloc
  <1>4. CASE FreeFiles # {}
    <2>1. PICK wf \in FreeFiles :
            /\ filealloc(wf)
            /\ IF pipe.used
               THEN /\ file' = [file EXCEPT ![wf].ref = 1]
                    /\ Local(p, Close(l[p].f0, wf))
                    /\ UNCHANGED <<pipe, ofile>>
               ELSE /\ pipe' = [pipe EXCEPT !.used = TRUE, !.readopen = TRUE, !.writeopen = TRUE,
                                            !.nread = 0, !.nwrite = 0]
                    /\ file' = [file EXCEPT ![l[p].f0] = [ref |-> 1, type |-> "pipe", writable |-> FALSE],
                                            ![wf] = [ref |-> 1, type |-> "pipe", writable |-> TRUE]]
                    /\ IF Cardinality(FreeFds(p)) < 2
                       THEN Local(p, Close(l[p].f0, wf)) /\ UNCHANGED ofile
                       ELSE /\ \E r, w \in FreeFds(p) :
                               /\ r = Min(FreeFds(p)) /\ w = Min(FreeFds(p) \ {r})
                               /\ ofile' = [ofile EXCEPT ![p][r] = l[p].f0, ![p][w] = wf]
                            /\ Local(p, New)
      BY <1>4, Zenon DEF pipealloc
    <2>2. wf \in File /\ file[wf].ref = 0
      BY DEF FreeFiles
    <2>3. CASE pipe.used
      <3>1. NoPage(p, wf)
        BY <2>1, <2>3, Zenon DEF NoPage
      <3> QED
        BY <1>1, <1>2, <2>2, <3>1
    <2>4. CASE ~pipe.used
      <3>1. CASE Cardinality(FreeFds(p)) < 2
        <4>1. Page(p, wf)
          BY <2>1, <2>4, <3>1, Zenon DEF Page
        <4> QED
          BY <1>1, <1>2, <2>2, <4>1
      <3>2. CASE ~(Cardinality(FreeFds(p)) < 2)
        <4>1. PICK r \in FreeFds(p), w \in FreeFds(p) :
                /\ r = Min(FreeFds(p)) /\ w = Min(FreeFds(p) \ {r})
                /\ ofile' = [ofile EXCEPT ![p][r] = l[p].f0, ![p][w] = wf]
                /\ Local(p, New)
          BY <2>1, <2>4, <3>2, Zenon
        <4>2. r # w
          BY <3>2, <4>1, TwoFds
        <4>3. Page(p, wf)
          BY <2>1, <2>4, <4>1, <4>2, Zenon DEF Page
        <4> QED
          BY <1>1, <1>2, <2>2, <4>3
      <3> QED
        BY <3>1, <3>2
    <2> QED
      BY <2>3, <2>4
  <1> QED
    BY <1>3, <1>4

LEMMA RefsPipealloc ==
  ASSUME TypeOK, FilesCounted, Handy, NEW p \in Proc, pipealloc(p)
  PROVE  RefsCounted'
  <1>1. l[p].pc = "pipealloc"
    BY DEF pipealloc, At
  <1>2. PICK rf \in File : rf = l[p].f0 /\ l[p].f1 = 0 /\ file[rf].ref = 1
    BY <1>1 DEF Handy
  <1>3. InHand[<<p, -1>>] = rf /\ InHand[<<p, -2>>] = 0
    BY <1>1, <1>2, HandsOf
  <1>4. CASE Local(p, Close(l[p].f0, 0)) /\ UNCHANGED <<file, pipe, ofile>>
    BY <1>1, <1>2, <1>4, SameRefs DEF TypeOK, Close, New, User, Local
  <1>5. ASSUME NEW wf \in File, file[wf].ref = 0, wf # rf, NoPage(p, wf) \/ Page(p, wf)
        PROVE  RefsCounted'
    <2>1. /\ \/ file' = [file EXCEPT ![wf].ref = 1]
             \/ file' = [file EXCEPT ![rf] = [ref |-> 1, type |-> "pipe", writable |-> FALSE],
                                     ![wf] = [ref |-> 1, type |-> "pipe", writable |-> TRUE]]
          /\ \/ Local(p, Close(rf, wf)) /\ UNCHANGED ofile
             \/ /\ \E r, w \in FreeFds(p) :
                      r # w /\ ofile' = [ofile EXCEPT ![p][r] = rf, ![p][w] = wf]
                /\ Local(p, New)
      BY <1>2, <1>5 DEF NoPage, Page
    <2>2. ASSUME NEW g \in File
          PROVE  file'[g].ref = Count(InHand, g) + (IF wf = g THEN 1 ELSE 0) /\ Count(InHand, g) \in Nat
      <3>1. Count(InHand, g) = file[g].ref /\ Count(InHand, g) \in Nat
        BY Counted, CountNat
      <3>2. rf # wf /\ DOMAIN file = File /\ file[g] \in Files
        BY <1>2, <1>5, <2>1 DEF TypeOK
      <3>3. CASE file' = [file EXCEPT ![wf].ref = 1]
        BY <1>5, <3>1, <3>2, <3>3 DEF Files
      <3>4. CASE file' = [file EXCEPT ![rf] = [ref |-> 1, type |-> "pipe", writable |-> FALSE],
                                      ![wf] = [ref |-> 1, type |-> "pipe", writable |-> TRUE]]
        BY <1>2, <1>5, <3>1, <3>2, <3>4
      <3> QED
        BY <2>1, <3>1, <3>3, <3>4
    <2>3. CASE Local(p, Close(rf, wf)) /\ UNCHANGED ofile
      <3>1. PICK x \in Hands : x = <<p, -2>> /\ InHand[x] = 0 /\ x # <<p, -1>>
        BY <1>3, HandsOf
      <3>2. PICK h \in HandMap : Put(h, InHand, x, wf)
        BY InHandType, CountChange
      <3>3. ASSUME NEW g \in File PROVE file'[g].ref = Count(h, g)
        BY <2>2, <3>1, <3>2 DEF Put, File
      <3>4. /\ l'[p].pc = "close" /\ l'[p].f0 = rf /\ l'[p].f1 = wf
            /\ \A q \in Proc \ {p} : l'[q] = l[q]
        BY <2>3 DEF Local, TypeOK, Close, New, User
      <3>5. /\ \A fd \in Fd : h[<<p, fd>>] = ofile'[p][fd]
            /\ h[<<p, -1>>] = l'[p].f0 /\ h[<<p, -2>>] = l'[p].f1
        BY <1>3, <2>3, <3>1, <3>2, <3>4, HandsOf DEF Put
      <3>6. \A y \in Hands : y[1] # p => h[y] = InHand[y]
        BY <3>1, <3>2 DEF Put
      <3> QED
        BY <2>3, <3>3, <3>4, <3>5, <3>6, HandsAfter
    <2>4. ASSUME NEW r \in FreeFds(p), NEW w \in FreeFds(p), w # r,
                 ofile' = [ofile EXCEPT ![p][r] = rf, ![p][w] = wf], Local(p, New)
          PROVE  RefsCounted'
      <3> r \in Fd /\ w \in Fd /\ ofile[p][r] = 0 /\ ofile[p][w] = 0 /\ <<p, r>> # <<p, w>>
        BY <2>4 DEF FreeFds
      <3> PICK x \in Hands : x = <<p, -1>>
        BY HandsOf
      <3> PICK y \in Hands : y = <<p, r>>
        BY HandsOf
      <3> PICK z \in Hands : z = <<p, w>>
        BY HandsOf
      <3>1. /\ x = <<p, -1>> /\ InHand[x] = rf
            /\ y = <<p, r>> /\ InHand[y] = 0 /\ z = <<p, w>> /\ InHand[z] = 0
            /\ x # y /\ x # z /\ y # z /\ x # <<p, -2>> /\ y # <<p, -2>> /\ z # <<p, -2>>
        BY <1>3, HandsOf
      <3>2. PICK h1 \in HandMap : Put(h1, InHand, x, 0)
        BY InHandType, CountChange
      <3>3. PICK h2 \in HandMap : Put(h2, h1, y, rf)
        BY CountChange
      <3>4. PICK h \in HandMap : Put(h, h2, z, wf)
        BY CountChange
      <3>5. h1[y] = 0 /\ h2[z] = 0
        BY <3>1, <3>2, <3>3 DEF Put
      <3>6. ASSUME NEW g \in File PROVE file'[g].ref = Count(h, g)
        <4>1. Count(h1, g) = Count(InHand, g) - (IF rf = g THEN 1 ELSE 0)
          BY <3>1, <3>2 DEF Put, File
        <4>2. Count(h2, g) = Count(h1, g) + (IF rf = g THEN 1 ELSE 0)
          BY <3>3, <3>5 DEF Put, File
        <4>3. Count(h, g) = Count(h2, g) + (IF wf = g THEN 1 ELSE 0)
          BY <3>4, <3>5 DEF Put, File
        <4> QED
          BY <2>2, <4>1, <4>2, <4>3
      <3>7. /\ l'[p].pc = "user" /\ l'[p].f0 = 0 /\ l'[p].f1 = 0
            /\ \A q \in Proc \ {p} : l'[q] = l[q] /\ ofile'[q] = ofile[q]
        BY <2>4 DEF Local, TypeOK, New, User
      <3>8. h[x] = 0 /\ h[y] = rf /\ h[z] = wf /\ \A u \in Hands \ {x, y, z} : h[u] = InHand[u]
        BY <3>1, <3>2, <3>3, <3>4 DEF Put
      <3>9. /\ h[<<p, -1>>] = l'[p].f0 /\ h[<<p, -2>>] = l'[p].f1
        BY <1>3, <3>1, <3>7, <3>8, HandsOf
      <3>10. ASSUME NEW fd \in Fd PROVE h[<<p, fd>>] = ofile'[p][fd]
        <4>1. r \in Fd /\ w \in Fd
          BY DEF FreeFds
        <4>2. ofile'[p][fd] = IF fd = w THEN wf ELSE IF fd = r THEN rf ELSE ofile[p][fd]
          BY <2>4, <4>1 DEF TypeOK
        <4>3. fd # w /\ fd # r => <<p, fd>> \in Hands \ {x, y, z}
          <5>1. ASSUME fd # w, fd # r PROVE <<p, fd>> # <<p, r>> /\ <<p, fd>> # <<p, w>>
            BY <5>1
          <5>2. <<p, fd>> \in Hands /\ <<p, fd>> # <<p, -1>>
            BY HandsOf
          <5> QED
            BY <3>1, <5>1, <5>2
        <4> QED
          BY <2>4, <3>1, <3>8, <4>2, <4>3, HandsOf
      <3>11. \A u \in Hands : u[1] # p => h[u] = InHand[u]
        BY <3>1, <3>8
      <3> QED
        BY <3>6, <3>7, <3>9, <3>10, <3>11, HandsAfter
    <2> QED
      BY <2>1, <2>3, <2>4
  <1> QED
    BY <1>2, <1>4, <1>5, Pipealloc


LEMMA RefsDup ==
  ASSUME TypeOK, FilesCounted, Handy, NEW p \in Proc, sys_dup(p)
  PROVE  RefsCounted'
  <1>1. PICK from \in Fd, to \in Fd :
          /\ ofile[p][from] # 0 /\ ofile[p][to] = 0
          /\ ofile' = [ofile EXCEPT ![p][to] = ofile[p][from]]
          /\ file' = [file EXCEPT ![ofile[p][from]].ref = @ + 1]
          /\ Local(p, New)
    BY DEF sys_dup, FreeFds
  <1>2. PICK f \in File : f = ofile[p][from]
    BY <1>1 DEF TypeOK
  <1>3. l[p].pc = "user" /\ l[p].f0 = 0 /\ l[p].f1 = 0
    BY DEF sys_dup, MayCall, At, Handy
  <1>4. PICK x \in Hands : x = <<p, to>> /\ InHand[x] = 0
    BY <1>1, HandsOf
  <1>5. PICK h \in HandMap : Put(h, InHand, x, f)
    BY InHandType, CountChange
  <1>6. ASSUME NEW g \in File PROVE file'[g].ref = Count(h, g)
    <2>1. Count(InHand, g) = file[g].ref /\ Count(InHand, g) \in Nat
      BY Counted, CountNat
    <2>2. Count(h, g) = file[g].ref + (IF f = g THEN 1 ELSE 0)
      BY <1>4, <1>5, <2>1 DEF Put, File
    <2>3. file[f] \in Files /\ DOMAIN file = File
      BY DEF TypeOK
    <2>4. file'[g].ref = IF f = g THEN file[f].ref + 1 ELSE file[g].ref
      BY <1>1, <1>2, <2>3 DEF Files
    <2> QED
      BY <2>1, <2>2, <2>4
  <1>7. /\ l'[p].pc = "user" /\ l'[p].f0 = 0 /\ l'[p].f1 = 0
        /\ \A q \in Proc \ {p} : l'[q] = l[q] /\ ofile'[q] = ofile[q]
    BY <1>1 DEF Local, TypeOK, New, User
  <1>8. ASSUME NEW fd \in Fd PROVE h[<<p, fd>>] = ofile'[p][fd]
    <2>1. ofile'[p][fd] = IF fd = to THEN f ELSE ofile[p][fd]
      BY <1>1, <1>2 DEF TypeOK
    <2>2. fd # to => <<p, fd>> # <<p, to>>
      OBVIOUS
    <2> QED
      BY <1>4, <1>5, <2>1, <2>2, HandsOf DEF Put
  <1>9. h[<<p, -1>>] = 0 /\ h[<<p, -2>>] = 0
    <2>1. <<p, -1>> \in Hands \ {x} /\ <<p, -2>> \in Hands \ {x}
      BY <1>4, HandsOf
    <2> QED
      BY <1>3, <1>5, <2>1, HandsOf DEF Put
  <1>10. \A y \in Hands : y[1] # p => h[y] = InHand[y]
    BY <1>4, <1>5 DEF Put
  <1> QED
    BY <1>6, <1>7, <1>8, <1>9, <1>10, HandsAfter

\* A descriptor goes, and the call has the file to be closed.
Dropping(p, fd) ==
    /\ ofile[p][fd] \in File
    /\ ofile' = [ofile EXCEPT ![p][fd] = 0]
    /\ l'[p].pc = "close" /\ l'[p].f0 = ofile[p][fd] /\ l'[p].f1 = 0
    /\ l'[p].result = New.result
    /\ \A q \in Proc \ {p} : l'[q] = l[q]

LEMMA Drops ==
  ASSUME TypeOK, NEW p \in Proc, sys_close(p) \/ exit_close(p)
  PROVE  /\ \E fd \in Fd : Dropping(p, fd)
         /\ l[p].pc \in {"user", "exit"} /\ state[p] = "RUNNABLE"
         /\ UNCHANGED <<file, pipe, state, killed>>
  <1>1. PICK fd \in Fd : /\ ofile[p][fd] # 0 /\ ofile' = [ofile EXCEPT ![p][fd] = 0]
                         /\ \/ Local(p, Close(ofile[p][fd], 0))
                            \/ Local(p, [Close(ofile[p][fd], 0) EXCEPT !.exiting = TRUE])
    BY DEF sys_close, exit_close, FreeFds
  <1>2. ofile[p][fd] \in File
    BY <1>1 DEF TypeOK
  <1>3. Dropping(p, fd)
    <2>1. DOMAIN l = Proc
      BY DEF TypeOK
    <2>2. CASE Local(p, Close(ofile[p][fd], 0))
      <3>1. l' = [l EXCEPT ![p] = Close(ofile[p][fd], 0)]
        BY <2>2 DEF Local
      <3>2. l'[p] = Close(ofile[p][fd], 0) /\ \A q \in Proc \ {p} : l'[q] = l[q]
        BY <2>1, <3>1
      <3> QED
        BY <1>1, <1>2, <3>2 DEF Dropping, Close, New, User
    <2>3. CASE Local(p, [Close(ofile[p][fd], 0) EXCEPT !.exiting = TRUE])
      <3>1. l' = [l EXCEPT ![p] = [Close(ofile[p][fd], 0) EXCEPT !.exiting = TRUE]]
        BY <2>3 DEF Local
      <3>2. /\ l'[p] = [Close(ofile[p][fd], 0) EXCEPT !.exiting = TRUE]
            /\ \A q \in Proc \ {p} : l'[q] = l[q]
        BY <2>1, <3>1
      <3> QED
        BY <1>1, <1>2, <3>2 DEF Dropping, Close, New, User
    <2> QED
      BY <1>1, <2>2, <2>3
  <1> QED
    BY <1>3 DEF sys_close, exit_close, MayCall, At

LEMMA RefsDrop ==
  ASSUME TypeOK, FilesCounted, Handy, NEW p \in Proc, sys_close(p) \/ exit_close(p)
  PROVE  RefsCounted'
  <1>1. PICK fd \in Fd : Dropping(p, fd)
    BY Drops
  <1>2. l[p].pc \in {"user", "exit"} /\ l[p].f0 = 0 /\ l[p].f1 = 0 /\ file' = file
    BY Drops DEF Handy
  <1>3. PICK f \in File : f = ofile[p][fd]
    BY <1>1 DEF Dropping
  <1>4. PICK x \in Hands : x = <<p, fd>> /\ InHand[x] = f
    BY <1>3, HandsOf
  <1>5. PICK y \in Hands : y = <<p, -1>> /\ InHand[y] = 0 /\ y # x
    BY <1>2, <1>4, HandsOf
  <1>6. PICK h1 \in HandMap : Put(h1, InHand, x, 0)
    BY InHandType, CountChange
  <1>7. PICK h \in HandMap : Put(h, h1, y, f)
    BY CountChange
  <1>8. h1[y] = 0
    BY <1>5, <1>6 DEF Put
  <1>9. ASSUME NEW g \in File PROVE file'[g].ref = Count(h, g)
    <2>1. Count(InHand, g) = file[g].ref /\ Count(InHand, g) \in Nat
      BY Counted, CountNat
    <2>2. Count(h1, g) = Count(InHand, g) - (IF f = g THEN 1 ELSE 0)
      BY <1>4, <1>6 DEF Put, File
    <2>3. Count(h, g) = Count(h1, g) + (IF f = g THEN 1 ELSE 0)
      BY <1>7, <1>8 DEF Put, File
    <2> QED
      BY <1>2, <2>1, <2>2, <2>3
  <1>10. h[x] = 0 /\ h[y] = f /\ \A z \in Hands \ {x, y} : h[z] = InHand[z]
    BY <1>5, <1>6, <1>7 DEF Put
  <1>11. ASSUME NEW i \in Fd PROVE h[<<p, i>>] = ofile'[p][i]
    <2>1. ofile'[p][i] = IF i = fd THEN 0 ELSE ofile[p][i]
      BY <1>1 DEF TypeOK, Dropping
    <2>2. i # fd => <<p, i>> # <<p, fd>>
      OBVIOUS
    <2>3. CASE i = fd
      BY <1>4, <1>10, <2>1, <2>3
    <2>4. CASE i # fd
      <3>1. <<p, i>> \in Hands \ {x, y}
        BY <1>4, <1>5, <2>2, <2>4, HandsOf
      <3> QED
        BY <1>10, <2>1, <2>4, <3>1, HandsOf
    <2> QED
      BY <2>3, <2>4
  <1>12. h[<<p, -1>>] = f /\ h[<<p, -2>>] = 0
    BY <1>2, <1>4, <1>5, <1>10, HandsOf
  <1>13. \A z \in Hands : z[1] # p => h[z] = InHand[z]
    BY <1>4, <1>5, <1>10
  <1>14. \A q \in Proc \ {p} : ofile'[q] = ofile[q]
    BY <1>1 DEF TypeOK, Dropping
  <1> QED
    BY <1>1, <1>3, <1>9, <1>11, <1>12, <1>13, <1>14, HandsAfter DEF Dropping

\* What Closed leaves.
LEMMA ClosedIs ==
  ASSUME TypeOK, NEW p \in Proc, Local(p, Closed(p))
  PROVE  /\ l'[p].f0 = l[p].f1 /\ l'[p].f1 = 0 /\ l'[p].result = l[p].result
         /\ l[p].f1 # 0 => l'[p].pc = "close"
         /\ l[p].f1 = 0 => l'[p].pc \in {"exit", "user"}
         /\ \A q \in Proc \ {p} : l'[q] = l[q]
  BY DEF Local, Closed, TypeOK, Locals

LEMMA FileClose ==
  ASSUME TypeOK, Handy, NEW p \in Proc, fileclose(p)
  PROVE  /\ l[p].pc = "close" /\ state[p] = "RUNNABLE" /\ l[p].f0 \in File
         /\ UNCHANGED <<pipe, ofile, state, killed>>
         /\ \A g \in File \ {l[p].f0} : file'[g] = file[g]
         /\ \/ file[l[p].f0].ref = 1 /\ file'[l[p].f0] = NoFile
            \/ /\ file[l[p].f0].ref # 1 /\ file'[l[p].f0].ref = file[l[p].f0].ref - 1
               /\ file'[l[p].f0].type = file[l[p].f0].type
               /\ file'[l[p].f0].writable = file[l[p].f0].writable
         /\ \/ /\ file[l[p].f0].ref = 1 /\ file[l[p].f0].type = "pipe"
               /\ l'[p].pc = "pipeclose" /\ l'[p].writable = file[l[p].f0].writable
               /\ l'[p].f0 = l[p].f0 /\ l'[p].f1 = l[p].f1 /\ l'[p].result = l[p].result
               /\ \A q \in Proc \ {p} : l'[q] = l[q]
            \/ /\ ~(file[l[p].f0].ref = 1 /\ file[l[p].f0].type = "pipe")
               /\ Local(p, Closed(p))
  <1>1. /\ l[p].pc = "close" /\ state[p] = "RUNNABLE" /\ l[p].f0 \in File
        /\ UNCHANGED <<pipe, ofile, state, killed>>
    BY DEF fileclose, At, Handy
  <1>2. PICK f \in File : f = l[p].f0
    BY <1>1
  <1>3. file[f] \in Files /\ DOMAIN file = File /\ DOMAIN l = Proc
    BY DEF TypeOK
  <1>4. CASE file[f].ref = 1
    <2>1. file' = [file EXCEPT ![f] = NoFile]
      BY <1>2, <1>4 DEF fileclose
    <2>2. CASE file[f].type = "pipe"
      <3>1. l' = [l EXCEPT ![p] = [l[p] EXCEPT !.pc = "pipeclose", !.writable = file[f].writable]]
        BY <1>2, <1>4, <2>2 DEF fileclose, Local
      <3>2. /\ l'[p].pc = "pipeclose" /\ l'[p].writable = file[f].writable
            /\ l'[p].f0 = f /\ l'[p].f1 = l[p].f1 /\ l'[p].result = l[p].result
            /\ \A q \in Proc \ {p} : l'[q] = l[q]
        BY <1>2, <1>3, <3>1 DEF TypeOK, Locals
      <3> QED
        BY <1>1, <1>2, <1>3, <1>4, <2>1, <2>2, <3>2
    <2>3. CASE file[f].type # "pipe"
      <3>1. Local(p, Closed(p))
        BY <1>2, <2>3 DEF fileclose
      <3> QED
        BY <1>1, <1>2, <1>3, <1>4, <2>1, <2>3, <3>1
    <2> QED
      BY <2>2, <2>3
  <1>5. CASE file[f].ref # 1
    <2>1. file' = [file EXCEPT ![f] = [file[f] EXCEPT !.ref = file[f].ref - 1]]
      BY <1>2, <1>5 DEF fileclose
    <2>2. /\ file'[f].ref = file[f].ref - 1 /\ file'[f].type = file[f].type
          /\ file'[f].writable = file[f].writable /\ \A g \in File \ {f} : file'[g] = file[g]
      BY <1>3, <2>1 DEF Files
    <2>3. Local(p, Closed(p))
      BY <1>2, <1>5 DEF fileclose
    <2> QED
      BY <1>1, <1>2, <1>5, <2>2, <2>3
  <1> QED
    BY <1>4, <1>5


LEMMA RefsFileclose ==
  ASSUME TypeOK, FilesCounted, Handy, NEW p \in Proc, fileclose(p)
  PROVE  RefsCounted'
  <1>1. PICK f \in File : f = l[p].f0
    BY FileClose
  <1>2. l[p].pc = "close" /\ ofile' = ofile
    BY FileClose
  <1>3. PICK x \in Hands, y \in Hands : /\ x = <<p, -1>> /\ InHand[x] = f
                                        /\ y = <<p, -2>> /\ InHand[y] = l[p].f1 /\ x # y
    BY <1>1, <1>2, HandsOf
  <1>4. ASSUME NEW g \in File
        PROVE  /\ file'[g].ref = Count(InHand, g) - (IF f = g THEN 1 ELSE 0)
               /\ Count(InHand, g) \in Nat
    <2>1. Count(InHand, g) = file[g].ref /\ Count(InHand, g) \in Nat
      BY Counted, CountNat
    <2>2. CASE f = g
      <3>1. \/ file[f].ref = 1 /\ file'[f] = NoFile
            \/ file'[f].ref = file[f].ref - 1
        BY <1>1, FileClose
      <3>2. file'[f].ref = file[f].ref - 1
        BY <3>1 DEF NoFile
      <3> QED
        BY <2>1, <2>2, <3>2
    <2>3. CASE f # g
      BY <1>1, <2>1, <2>3, FileClose
    <2> QED
      BY <2>2, <2>3
  <1>5. \A fd \in Fd : /\ <<p, fd>> \in Hands \ {x, y}
                       /\ InHand[<<p, fd>>] = ofile'[p][fd]
    BY <1>2, <1>3, HandsOf
  <1>6. CASE /\ l'[p].pc = "pipeclose" /\ l'[p].f0 = l[p].f0 /\ l'[p].f1 = l[p].f1
             /\ \A q \in Proc \ {p} : l'[q] = l[q]
    <2>1. PICK h \in HandMap : Put(h, InHand, x, 0)
      BY InHandType, CountChange
    <2>2. ASSUME NEW g \in File PROVE file'[g].ref = Count(h, g)
      BY <1>3, <1>4, <2>1 DEF Put, File
    <2>3. h[x] = 0 /\ \A z \in Hands \ {x} : h[z] = InHand[z]
      BY <2>1 DEF Put
    <2>4. h[<<p, -1>>] = 0 /\ h[<<p, -2>>] = l'[p].f1 /\ \A fd \in Fd : h[<<p, fd>>] = ofile'[p][fd]
      BY <1>3, <1>5, <1>6, <2>3
    <2>5. \A z \in Hands : z[1] # p => h[z] = InHand[z]
      BY <1>3, <2>3
    <2> QED
      BY <1>2, <1>6, <2>2, <2>4, <2>5, HandsAfter
  <1>7. CASE Local(p, Closed(p))
    <2>1. l[p].f1 \in File \union {0}
      BY DEF TypeOK, Locals
    <2>2. PICK f1 \in File \union {0} : f1 = l[p].f1
      BY <2>1
    <2>3. PICK h1 \in HandMap : Put(h1, InHand, x, f1)
      BY InHandType, CountChange
    <2>4. PICK h \in HandMap : Put(h, h1, y, 0)
      BY CountChange
    <2>5. h1[y] = f1
      BY <1>3, <2>2, <2>3 DEF Put
    <2>6. ASSUME NEW g \in File PROVE file'[g].ref = Count(h, g)
      <3>1. Count(h1, g) = Count(InHand, g) - (IF f = g THEN 1 ELSE 0) + (IF f1 = g THEN 1 ELSE 0)
        BY <1>3, <2>3 DEF Put
      <3>2. Count(h, g) = Count(h1, g) - (IF f1 = g THEN 1 ELSE 0)
        BY <2>4, <2>5 DEF Put, File
      <3> QED
        BY <1>4, <3>1, <3>2
    <2>7. h[x] = f1 /\ h[y] = 0 /\ \A z \in Hands \ {x, y} : h[z] = InHand[z]
      BY <1>3, <2>3, <2>4 DEF Put
    <2>8. \A fd \in Fd : h[<<p, fd>>] = ofile'[p][fd]
      BY <1>5, <2>7
    <2>9. /\ l'[p].f0 = f1 /\ l'[p].f1 = 0 /\ l'[p].pc # "pipeclose"
          /\ \A q \in Proc \ {p} : l'[q] = l[q]
      BY <1>7, <2>2, ClosedIs
    <2>10. \A z \in Hands : z[1] # p => h[z] = InHand[z]
      BY <1>3, <2>7
    <2> QED
      BY <1>2, <1>3, <2>6, <2>7, <2>8, <2>9, <2>10, HandsAfter
  <1> QED
    BY <1>6, <1>7, FileClose

LEMMA RefsPipeclose ==
  ASSUME TypeOK, FilesCounted, Handy, NEW p \in Proc, pipeclose(p)
  PROVE  RefsCounted'
  <1>1. l[p].pc = "pipeclose" /\ Local(p, Closed(p)) /\ UNCHANGED <<file, ofile>>
    BY DEF pipeclose, At
  <1>2. PICK f1 \in File \union {0} : f1 = l[p].f1
    BY DEF TypeOK, Locals
  <1>3. /\ l'[p].f0 = f1 /\ l'[p].f1 = 0 /\ l'[p].pc # "pipeclose"
        /\ \A q \in Proc \ {p} : l'[q] = l[q]
    BY <1>1, <1>2, ClosedIs
  <1>4. PICK x \in Hands, y \in Hands : /\ x = <<p, -1>> /\ InHand[x] = 0
                                        /\ y = <<p, -2>> /\ InHand[y] = f1 /\ x # y
    BY <1>1, <1>2, HandsOf
  <1>5. PICK h1 \in HandMap : Put(h1, InHand, x, f1)
    BY InHandType, CountChange
  <1>6. PICK h \in HandMap : Put(h, h1, y, 0)
    BY CountChange
  <1>7. h1[y] = f1
    BY <1>4, <1>5 DEF Put
  <1>8. ASSUME NEW g \in File PROVE file'[g].ref = Count(h, g)
    <2>1. Count(InHand, g) = file[g].ref /\ Count(InHand, g) \in Nat
      BY Counted, CountNat
    <2>2. Count(h1, g) = Count(InHand, g) + (IF f1 = g THEN 1 ELSE 0)
      BY <1>4, <1>5 DEF Put, File
    <2>3. Count(h, g) = Count(h1, g) - (IF f1 = g THEN 1 ELSE 0)
      BY <1>6, <1>7 DEF Put, File
    <2> QED
      BY <1>1, <2>1, <2>2, <2>3
  <1>9. h[x] = f1 /\ h[y] = 0 /\ \A z \in Hands \ {x, y} : h[z] = InHand[z]
    BY <1>4, <1>5, <1>6 DEF Put
  <1>10. \A fd \in Fd : h[<<p, fd>>] = ofile'[p][fd]
    <2>1. \A fd \in Fd : /\ <<p, fd>> \in Hands \ {x, y}
                         /\ InHand[<<p, fd>>] = ofile'[p][fd]
      BY <1>1, <1>4, HandsOf
    <2> QED
      BY <1>9, <2>1
  <1>11. \A z \in Hands : z[1] # p => h[z] = InHand[z]
    BY <1>4, <1>9
  <1> QED
    BY <1>1, <1>3, <1>4, <1>8, <1>9, <1>10, <1>11, HandsAfter

\* fork gives the child the descriptors, and each file a count for each.
Shares(p, f) == {fd \in Fd : ofile[p][fd] = f}

LEMMA Fork ==
  ASSUME TypeOK, Handy, NEW p \in Proc, NEW c \in Proc, fork(p, c)
  PROVE  /\ p # c /\ l[p].pc = "user" /\ state[p] = "RUNNABLE" /\ state[c] = "UNUSED" /\ l[c] = New
         /\ l[p].f0 = 0 /\ l[p].f1 = 0 /\ \A fd \in Fd : ofile[c][fd] = 0
         /\ ofile'[c] = ofile[p] /\ \A q \in Proc \ {c} : ofile'[q] = ofile[q]
         /\ l'[p] = New /\ \A q \in Proc \ {p} : l'[q] = l[q]
         /\ \A f \in File : /\ file'[f].ref = file[f].ref + Cardinality(Shares(p, f))
                            /\ file'[f].type = file[f].type /\ file'[f].writable = file[f].writable
         /\ UNCHANGED <<pipe, killed>>
  <1>1. l[p].pc = "user" /\ state[p] = "RUNNABLE" /\ state[c] = "UNUSED" /\ p # c
    BY DEF fork, MayCall, At
  <1>2. l[p].f0 = 0 /\ l[p].f1 = 0 /\ l[c] = New /\ \A fd \in Fd : ofile[c][fd] = 0
    BY <1>1 DEF Handy
  <1>3. ofile'[c] = ofile[p] /\ \A q \in Proc \ {c} : ofile'[q] = ofile[q]
    BY DEF fork, TypeOK
  <1>4. l'[p] = New /\ \A q \in Proc \ {p} : l'[q] = l[q]
    BY DEF fork, TypeOK, Local
  <1>5. ASSUME NEW f \in File
        PROVE  /\ file'[f].ref = file[f].ref + Cardinality(Shares(p, f))
               /\ file'[f].type = file[f].type /\ file'[f].writable = file[f].writable
    <2>1. file'[f] = [file[f] EXCEPT !.ref = file[f].ref + Cardinality({fd \in Fd : ofile[p][fd] = f})]
      BY DEF fork
    <2>2. file[f] \in Files
      BY DEF TypeOK
    <2> QED
      BY <2>1, <2>2 DEF Files, Shares
  <1> QED
    BY <1>1, <1>2, <1>3, <1>4, <1>5 DEF fork

LEMMA RefsFork ==
  ASSUME TypeOK, FilesCounted, Handy, NEW p \in Proc, NEW c \in Proc, fork(p, c)
  PROVE  RefsCounted'
  <1>1. PICK h : h = [x \in Hands |-> IF x[1] = c /\ x[2] \in Fd THEN ofile[p][x[2]] ELSE InHand[x]]
    OBVIOUS
  <1>2. ASSUME NEW q \in Proc, NEW i \in HandNo PROVE Held(q, i)' = h[<<q, i>>]
    <2>1. <<q, i>> \in Hands /\ InHand[<<q, i>>] = Held(q, i)
      BY DEF Hands, HandNo, InHand
    <2>2. CASE i \in Fd
      <3>1. Held(q, i)' = ofile'[q][i] /\ Held(q, i) = ofile[q][i]
        BY <2>2, HandTypes DEF Held
      <3> QED
        BY <1>1, <2>1, <2>2, <3>1, Fork
    <2>3. CASE i = -1
      <3>1. Held(q, i) = IF l[q].pc = "pipeclose" THEN 0 ELSE l[q].f0
        BY <2>3, HandTypes DEF Held
      <3>2. Held(q, i)' = IF l'[q].pc = "pipeclose" THEN 0 ELSE l'[q].f0
        BY <2>3, HandTypes DEF Held
      <3>3. q # p => l'[q] = l[q]
        BY Fork
      <3>4. q = p => l[q].f0 = 0 /\ l'[q].f0 = 0
        BY Fork DEF New, User
      <3>5. Held(q, i)' = Held(q, i)
        BY <3>1, <3>2, <3>3, <3>4
      <3> QED
        BY <1>1, <2>1, <2>3, <3>5, HandTypes
    <2>4. CASE i = -2
      <3>1. Held(q, i) = l[q].f1 /\ Held(q, i)' = l'[q].f1
        BY <2>4, HandTypes DEF Held
      <3>2. Held(q, i)' = Held(q, i)
        BY <3>1, Fork DEF New, User
      <3> QED
        BY <1>1, <2>1, <2>4, <3>2, HandTypes
    <2> QED
      BY <2>2, <2>3, <2>4, HandTypes
  <1>3. InHand' = h
    <2>1. InHand' = [x \in Hands |-> Held(x[1], x[2])']
      BY DEF InHand, Hands
    <2>2. h = [x \in Hands |-> h[x]]
      BY <1>1
    <2>3. ASSUME NEW x \in Hands PROVE Held(x[1], x[2])' = h[x]
      <3>1. x[1] \in Proc /\ x[2] \in HandNo /\ x = <<x[1], x[2]>>
        BY DEF Hands, HandNo
      <3> QED
        BY <1>2, <3>1
    <2> QED
      BY <2>1, <2>2, <2>3
  <1>4. ASSUME NEW f \in File PROVE file'[f].ref = Count(h, f)
    <2> DEFINE A == {x \in Hands : InHand[x] = f}
               B == {c} \X Shares(p, f)
    <2>1. Count(InHand, f) = file[f].ref /\ IsFiniteSet(A)
      BY Counted, CountNat
    <2>2. IsFiniteSet(Shares(p, f))
      <3>1. IsFiniteSet(Fd)
        BY ConstantsAssumption, FS_Interval DEF Fd
      <3> QED
        BY <3>1, FS_Subset DEF Shares
    <2>3. IsFiniteSet(B) /\ Cardinality(B) = Cardinality(Shares(p, f))
      <3>1. IsFiniteSet({c}) /\ Cardinality({c}) = 1
        BY FS_Singleton
      <3>2. IsFiniteSet(B) /\ Cardinality(B) = 1 * Cardinality(Shares(p, f))
        BY <2>2, <3>1, FS_Product
      <3>3. Cardinality(Shares(p, f)) \in Nat
        BY <2>2, FS_CardinalityType
      <3> QED
        BY <3>2, <3>3
    <2>4. ASSUME NEW fd \in Fd PROVE InHand[<<c, fd>>] = 0
      <3>1. ofile[c][fd] = 0
        BY Fork
      <3> QED
        BY <3>1, HandsOf
    <2>5. A \cap B = {}
      <3> SUFFICES ASSUME NEW x \in A, x \in B PROVE FALSE
        OBVIOUS
      <3>1. PICK fd \in Fd : x = <<c, fd>>
        BY DEF Shares
      <3> QED
        BY <2>4, <3>1 DEF File
    <2>6. {x \in Hands : h[x] = f} = A \union B
      <3>1. ASSUME NEW q \in Proc, NEW i \in HandNo
            PROVE  h[<<q, i>>] = f <=> <<q, i>> \in A \/ <<q, i>> \in B
        <4>1. <<q, i>> \in Hands
          BY HandsOf
        <4>2. <<q, i>> \in B <=> q = c /\ i \in Fd /\ ofile[p][i] = f
          BY DEF Shares
        <4>3. CASE q = c /\ i \in Fd
          BY <1>1, <2>4, <4>1, <4>2, <4>3 DEF File
        <4>4. CASE ~(q = c /\ i \in Fd)
          BY <1>1, <4>1, <4>2, <4>4
        <4> QED
          BY <4>3, <4>4
      <3>2. B \subseteq Hands
        BY HandTypes DEF Shares, Hands, HandNo
      <3>3. \A x \in Hands : x = <<x[1], x[2]>> /\ x[1] \in Proc /\ x[2] \in HandNo
        BY DEF Hands, HandNo
      <3>4. \A x \in Hands : h[x] = f <=> x \in A \/ x \in B
        BY <3>1, <3>3
      <3> QED
        BY <3>2, <3>4
    <2>7. Cardinality(A \union B) = Cardinality(A) + Cardinality(B) - Cardinality(A \cap B)
      BY <2>1, <2>3, FS_Union
    <2>8. Cardinality(A \cap B) = 0
      BY <2>5, FS_EmptySet
    <2>9. Cardinality(A) \in Nat /\ Cardinality(B) \in Nat
      BY <2>1, <2>3, FS_CardinalityType
    <2> QED
      <3>1. file'[f].ref = file[f].ref + Cardinality(Shares(p, f))
        BY Fork
      <3>2. Count(h, f) = Cardinality(A \union B) /\ Count(InHand, f) = Cardinality(A)
        BY <2>6 DEF Count
      <3> HIDE DEF A, B
      <3> QED
        BY <2>1, <2>3, <2>7, <2>8, <2>9, <3>1, <3>2
  <1> QED
    BY <1>3, <1>4, RefsNext


\* A step of a call that takes no file.
Plain(p) ==
    /\ l[p].pc \in {"user", "write", "read", "exit"} /\ state[p] = "RUNNABLE"
    /\ l'[p].pc \in {"user", "write", "read", "exit"} /\ l'[p].f0 = 0 /\ l'[p].f1 = 0
    /\ l'[p].pc # "user" => l'[p].result = New.result
    /\ \A q \in Proc \ {p} : l'[q] = l[q]
    /\ UNCHANGED <<file, ofile>>

LEMMA SetTo ==
  ASSUME TypeOK, NEW p \in Proc, NEW r, l' = [l EXCEPT ![p] = r]
  PROVE  l'[p] = r /\ \A q \in Proc \ {p} : l'[q] = l[q]
  BY DEF TypeOK

LEMMA PlainSteps ==
  ASSUME TypeOK, Handy, Bounded, NEW p \in Proc,
         \/ sys_write(p) \/ sys_read(p) \/ pipewrite(p) \/ piperead(p) \/ exit(p) \/ zombie(p)
  PROVE  Plain(p)
  <1>1. CASE sys_write(p)
    <2>1. PICK s \in Writes : l' = [l EXCEPT ![p] = [New EXCEPT !.pc = "write", !.rest = s]]
      BY <1>1 DEF sys_write, Local
    <2>2. l'[p] = [New EXCEPT !.pc = "write", !.rest = s] /\ \A q \in Proc \ {p} : l'[q] = l[q]
      BY <2>1, SetTo
    <2> QED
      <3>1. l'[p].pc = "write" /\ l'[p].f0 = 0 /\ l'[p].f1 = 0 /\ l'[p].result = New.result
        BY <2>2 DEF New, User
      <3>2. l[p].pc = "user" /\ state[p] = "RUNNABLE" /\ UNCHANGED <<file, ofile>>
        BY <1>1 DEF sys_write, MayCall, At
      <3> QED
        BY <2>2, <3>1, <3>2 DEF Plain
  <1>2. CASE sys_read(p)
    <2>1. PICK n \in Reads : l' = [l EXCEPT ![p] = [New EXCEPT !.pc = "read", !.n = n]]
      BY <1>2 DEF sys_read, Local
    <2>2. l'[p] = [New EXCEPT !.pc = "read", !.n = n] /\ \A q \in Proc \ {p} : l'[q] = l[q]
      BY <2>1, SetTo
    <2> QED
      BY <1>2, <2>2 DEF sys_read, MayCall, At, Plain, New, User
  <1>3. CASE pipewrite(p)
    <2>1. PICK k \in 0..Len(l[p].rest) : Wrote(p, k)
      BY <1>3, PipeWrite
    <2>2. l[p].pc = "write" /\ state[p] = "RUNNABLE" /\ UNCHANGED <<file, ofile>>
      BY <1>3, PipeWrite
    <2>3. l[p].f0 = 0 /\ l[p].f1 = 0 /\ l[p].result = New.result
      BY <2>2 DEF Handy
    <2>4. ASSUME NEW is, l' = [l EXCEPT ![p] = User(is, << >>)] PROVE Plain(p)
      <3>1. l'[p] = User(is, << >>) /\ \A q \in Proc \ {p} : l'[q] = l[q]
        BY <2>4, SetTo
      <3>2. l'[p].pc = "user" /\ l'[p].f0 = 0 /\ l'[p].f1 = 0
        BY <3>1 DEF User
      <3> QED
        BY <2>2, <3>1, <3>2 DEF Plain
    <2>5. CASE l' = [l EXCEPT ![p] = [l[p] EXCEPT !.rest = Rests(p, k)]]
      <3>1. l'[p] = [l[p] EXCEPT !.rest = Rests(p, k)] /\ \A q \in Proc \ {p} : l'[q] = l[q]
        BY <2>5, SetTo
      <3>2. l'[p].pc = "write" /\ l'[p].f0 = 0 /\ l'[p].f1 = 0 /\ l'[p].result = New.result
        BY <2>2, <2>3, <3>1 DEF TypeOK, Locals
      <3> QED
        BY <2>2, <3>1, <3>2 DEF Plain
    <2> QED
      BY <2>1, <2>4, <2>5 DEF Wrote
  <1>4. CASE piperead(p)
    <2>1. l[p].pc = "read" /\ state[p] = "RUNNABLE" /\ UNCHANGED <<file, ofile>>
      BY <1>4, PipeRead
    <2>2. CASE l' = l
      BY <2>1, <2>2 DEF Plain, Handy
    <2>3. ASSUME NEW is, NEW s, l' = [l EXCEPT ![p] = User(is, s)] PROVE Plain(p)
      <3>1. l'[p] = User(is, s) /\ \A q \in Proc \ {p} : l'[q] = l[q]
        BY <2>3, SetTo
      <3>2. l'[p].pc = "user" /\ l'[p].f0 = 0 /\ l'[p].f1 = 0
        BY <3>1 DEF User
      <3> QED
        BY <2>1, <3>1, <3>2 DEF Plain
    <2>4. ASSUME NEW k \in Nat, Got(p, k) PROVE Plain(p)
      BY <2>3, <2>4 DEF Got
    <2> QED
      BY <1>4, <2>2, <2>3, <2>4, PipeRead
  <1>5. CASE exit(p)
    <2>1. l' = [l EXCEPT ![p] = [New EXCEPT !.pc = "exit", !.exiting = TRUE]]
      BY <1>5 DEF exit, Local
    <2>2. l'[p] = [New EXCEPT !.pc = "exit", !.exiting = TRUE] /\ \A q \in Proc \ {p} : l'[q] = l[q]
      BY <2>1, SetTo
    <2> QED
      BY <1>5, <2>2 DEF exit, At, Plain, New, User
  <1>6. CASE zombie(p)
    <2>1. l' = [l EXCEPT ![p] = New]
      BY <1>6 DEF zombie, Local
    <2>2. l'[p] = New /\ \A q \in Proc \ {p} : l'[q] = l[q]
      BY <2>1, SetTo
    <2> QED
      BY <1>6, <2>2 DEF zombie, At, Plain, New, User
  <1> QED
    BY <1>1, <1>2, <1>3, <1>4, <1>5, <1>6

LEMMA RefsPlain ==
  ASSUME TypeOK, FilesCounted, Handy, NEW p \in Proc, Plain(p)
  PROVE  RefsCounted'
  <1>1. l[p].f0 = 0 /\ l[p].f1 = 0 /\ l[p].pc # "pipeclose" /\ l'[p].pc # "pipeclose"
    BY DEF Handy, Plain
  <1> QED
    BY <1>1, SameRefs DEF Plain

LEMMA RefsStep ==
  ASSUME TypeOK, FilesCounted, Handy, Bounded, [Next]_vars
  PROVE  RefsCounted'
  <1>1. ASSUME NEW p \in Proc, sleep(p) \/ kill(p) PROVE RefsCounted'
    BY <1>1, SameRefs DEF sleep, kill
  <1>2. CASE UNCHANGED vars
    BY <1>2, SameRefs DEF vars
  <1> QED
    BY <1>1, <1>2, PlainSteps, RefsPlain, RefsPipe, RefsPipealloc, RefsDup, RefsDrop,
       RefsFileclose, RefsPipeclose, RefsFork DEF Next, Finish

-----------------------------------------------------------------------------
(* What calls have taken                                                      *)

\* No step of p takes a file that only another call has.
Others(p, f) ==
    /\ file[f].ref = 1
    /\ \A q \in Proc, fd \in Fd : ofile[q][fd] # f
    /\ l[p].pc = "pipeclose" \/ l[p].f0 # f

LEMMA Alone ==
  ASSUME TypeOK, FilesCounted, Handy, NEW p \in Proc, NEW q \in Proc \ {p}, l[q].pc = "pipealloc"
  PROVE  l[q].f0 \in File /\ l[q].f1 = 0 /\ Others(p, l[q].f0)
  <1>1. l[q].f0 \in File /\ l[q].f1 = 0 /\ file[l[q].f0].ref = 1
    BY DEF Handy
  <1> QED
    BY <1>1, OnlyOne DEF Others

HandyAt(q) ==
    /\ l[q].pc \in {"user", "write", "read", "exit"} => l[q].f0 = 0 /\ l[q].f1 = 0
    /\ l[q].pc \in {"pipealloc", "close"} => l[q].f0 \in File
    /\ l[q].pc = "pipealloc" => l[q].f1 = 0 /\ file[l[q].f0].ref = 1
    /\ l[q].pc # "user" => l[q].result = New.result
    /\ state[q] = "UNUSED" => l[q] = New /\ \A fd \in Fd : ofile[q][fd] = 0

LEMMA HandyOthers ==
  ASSUME TypeOK, FilesCounted, Handy, NEW p \in Proc, HandyAt(p)',
         \A q \in Proc \ {p} : /\ l'[q] = l[q]
                               /\ state'[q] = "UNUSED" => state[q] = "UNUSED" /\ ofile'[q] = ofile[q],
         \A f \in File : Others(p, f) => file'[f].ref = 1
  PROVE  Handy'
  <1>1. ASSUME NEW q \in Proc \ {p} PROVE HandyAt(q)'
    <2>1. HandyAt(q)
      BY DEF Handy, HandyAt
    <2>2. l[q].pc = "pipealloc" => file'[l[q].f0].ref = 1
      BY Alone
    <2>3. l'[q] = l[q] /\ (state'[q] = "UNUSED" => state[q] = "UNUSED" /\ ofile'[q] = ofile[q])
      OBVIOUS
    <2> QED
      BY <2>1, <2>2, <2>3 DEF HandyAt
  <1>2. \A q \in Proc : HandyAt(q)'
    BY <1>1
  <1> QED
    BY <1>2 DEF Handy, HandyAt

\* Who is woken, or put to sleep, has a slot.
LEMMA Woken ==
  ASSUME TypeOK, NEW to, state' = state \/ Wakeup(to), NEW q \in Proc
  PROVE  state'[q] = "UNUSED" <=> state[q] = "UNUSED"
  BY DEF TypeOK, Wakeup

LEMMA HandyPlain ==
  ASSUME TypeOK, FilesCounted, Handy, NEW p \in Proc, Plain(p),
         \/ \A q \in Proc : state'[q] = "UNUSED" <=> state[q] = "UNUSED"
         \/ zombie(p)
  PROVE  Handy'
  <1>1. HandyAt(p)'
    <2>1. CASE zombie(p)
      <3>1. l'[p] = New /\ ofile' = ofile /\ \A fd \in Fd : ofile[p][fd] = 0
        BY <2>1, SetTo DEF zombie, Local, FreeFds
      <3> QED
        BY <3>1 DEF HandyAt, New, User
    <2>2. CASE \A q \in Proc : state'[q] = "UNUSED" <=> state[q] = "UNUSED"
      BY <2>2 DEF HandyAt, Plain
    <2> QED
      BY <2>1, <2>2
  <1>2. \A q \in Proc \ {p} : state'[q] = "UNUSED" => state[q] = "UNUSED"
    BY DEF zombie, TypeOK
  <1> QED
    BY <1>1, <1>2, HandyOthers DEF Others, Plain

LEMMA HandyClosed ==
  ASSUME TypeOK, FilesCounted, Handy, NEW p \in Proc, Local(p, Closed(p)),
         l[p].pc \in {"close", "pipeclose"},
         state[p] # "UNUSED", ofile' = ofile,
         \A q \in Proc : state'[q] = "UNUSED" <=> state[q] = "UNUSED",
         \A f \in File : Others(p, f) => file'[f].ref = 1
  PROVE  Handy'
  <1>1. l[p].f1 \in File \union {0} /\ l[p].result = New.result
    BY DEF TypeOK, Locals, Handy
  <1>2. HandyAt(p)'
    <2>1. CASE l[p].f1 = 0
      <3>1. l'[p].f0 = 0 /\ l'[p].f1 = 0 /\ l'[p].result = New.result /\ l'[p].pc \in {"exit", "user"}
        BY <1>1, <2>1, ClosedIs
      <3> QED
        BY <3>1 DEF HandyAt
    <2>2. CASE l[p].f1 # 0
      <3>1. l'[p].f0 \in File /\ l'[p].result = New.result /\ l'[p].pc = "close"
        BY <1>1, <2>2, ClosedIs
      <3> QED
        BY <3>1 DEF HandyAt
    <2> QED
      BY <2>1, <2>2
  <1> QED
    BY <1>2, ClosedIs, HandyOthers

LEMMA HandyPipealloc ==
  ASSUME TypeOK, FilesCounted, Handy, NEW p \in Proc, pipealloc(p)
  PROVE  Handy'
  <1>1. /\ l[p].pc = "pipealloc" /\ state[p] = "RUNNABLE" /\ state' = state
        /\ l[p].f0 \in File /\ l[p].f1 = 0 /\ file[l[p].f0].ref = 1
        /\ l[p].result = New.result
    BY Pipealloc DEF Handy
  <1>2. PICK f \in File : f = l[p].f0
    BY <1>1
  <1>3. ASSUME NEW g \in File \union {0}, Local(p, Close(f, g)) PROVE HandyAt(p)' /\ \A q \in Proc \ {p} : l'[q] = l[q]
    <2>1. l'[p] = Close(f, g) /\ \A q \in Proc \ {p} : l'[q] = l[q]
      BY <1>3 DEF Local, TypeOK
    <2> QED
      BY <1>1, <2>1 DEF HandyAt, Close, New, User
  <1>4. CASE Local(p, Close(f, 0)) /\ UNCHANGED <<file, pipe, ofile>>
    BY <1>1, <1>3, <1>4, HandyOthers DEF Others
  <1>5. ASSUME NEW wf \in File, file[wf].ref = 0, wf # f, NoPage(p, wf) \/ Page(p, wf)
        PROVE  Handy'
    <2>1. ASSUME NEW g \in File, Others(p, g) PROVE file'[g].ref = 1
      <3>1. g # f /\ g # wf /\ DOMAIN file = File
        BY <1>1, <1>2, <1>5, <2>1 DEF Others, TypeOK
      <3>2. file'[g] = file[g]
        BY <1>2, <1>5, <3>1 DEF NoPage, Page
      <3> QED
        BY <2>1, <3>2 DEF Others
    <2>2. CASE Local(p, Close(f, wf)) /\ UNCHANGED ofile
      BY <1>1, <1>3, <2>1, <2>2, HandyOthers
    <2>3. CASE /\ \E r, w \in FreeFds(p) :
                   r # w /\ ofile' = [ofile EXCEPT ![p][r] = l[p].f0, ![p][w] = wf]
               /\ Local(p, New)
      <3>1. l'[p] = New /\ \A q \in Proc \ {p} : l'[q] = l[q] /\ ofile'[q] = ofile[q]
        BY <2>3 DEF Local, TypeOK
      <3>2. HandyAt(p)'
        BY <1>1, <3>1 DEF HandyAt, New, User
      <3> QED
        BY <1>1, <2>1, <3>1, <3>2, HandyOthers
    <2> QED
      BY <1>2, <1>5, <2>2, <2>3 DEF NoPage, Page
  <1> QED
    BY <1>2, <1>4, <1>5, Pipealloc


LEMMA SameSlots ==
  ASSUME TypeOK, NEW p \in Proc, Bounded,
         \/ sys_write(p) \/ sys_read(p) \/ pipewrite(p) \/ piperead(p) \/ exit(p)
  PROVE  \A q \in Proc : state'[q] = "UNUSED" <=> state[q] = "UNUSED"
  <1>1. CASE pipewrite(p)
    BY <1>1, PipeWrite, Woken
  <1>2. CASE piperead(p)
    BY <1>2, PipeRead, Woken
  <1>3. CASE sys_write(p) \/ sys_read(p) \/ exit(p)
    BY <1>3 DEF sys_write, sys_read, exit
  <1> QED
    BY <1>1, <1>2, <1>3

LEMMA HandyStep ==
  ASSUME TypeOK, FilesCounted, Handy, Bounded, [Next]_vars
  PROVE  Handy'
  <1>1. ASSUME NEW p \in Proc,
               \/ sys_write(p) \/ sys_read(p) \/ pipewrite(p) \/ piperead(p) \/ exit(p) \/ zombie(p)
        PROVE  Handy'
    <2>1. Plain(p)
      BY <1>1, PlainSteps
    <2> QED
      BY <1>1, <2>1, HandyPlain, SameSlots
  <1>2. ASSUME NEW p \in Proc, sys_pipe(p) PROVE Handy'
    <2>1. PICK f \in File : /\ file[f].ref = 0 /\ file' = [file EXCEPT ![f].ref = 1]
                            /\ l' = [l EXCEPT ![p] = [New EXCEPT !.pc = "pipealloc", !.f0 = f]]
      BY <1>2 DEF sys_pipe, FreeFiles, Local
    <2>2. l'[p] = [New EXCEPT !.pc = "pipealloc", !.f0 = f] /\ \A q \in Proc \ {p} : l'[q] = l[q]
      BY <2>1, SetTo
    <2>3. state[p] = "RUNNABLE" /\ state' = state /\ ofile' = ofile
      BY <1>2 DEF sys_pipe, MayCall, At
    <2>4. file'[f].ref = 1 /\ \A g \in File \ {f} : file'[g] = file[g]
      BY <2>1 DEF TypeOK, Files
    <2>5. HandyAt(p)'
      BY <2>2, <2>3, <2>4 DEF HandyAt, New, User
    <2> QED
      BY <2>1, <2>2, <2>3, <2>4, <2>5, HandyOthers DEF Others
  <1>3. ASSUME NEW p \in Proc, sys_dup(p) PROVE Handy'
    <2>1. PICK from \in Fd, to \in Fd :
          /\ ofile[p][from] # 0
          /\ ofile' = [ofile EXCEPT ![p][to] = ofile[p][from]]
          /\ file' = [file EXCEPT ![ofile[p][from]].ref = @ + 1]
      BY <1>3 DEF sys_dup, FreeFds
    <2>2. l' = [l EXCEPT ![p] = New] /\ state[p] = "RUNNABLE" /\ state' = state
      BY <1>3 DEF sys_dup, Local, MayCall, At
    <2>3. l'[p] = New /\ \A q \in Proc \ {p} : l'[q] = l[q]
      BY <2>2, SetTo
    <2>4. PICK f \in File : f = ofile[p][from]
      BY <2>1 DEF TypeOK
    <2>5. \A g \in File \ {f} : file'[g] = file[g]
      BY <2>1, <2>4 DEF TypeOK
    <2>6. ASSUME NEW g \in File, Others(p, g) PROVE file'[g].ref = 1
      <3>1. g # f
        BY <2>4, <2>6 DEF Others
      <3> QED
        BY <2>5, <2>6, <3>1 DEF Others
    <2>7. \A q \in Proc \ {p} : ofile'[q] = ofile[q]
      BY <2>1 DEF TypeOK
    <2>8. HandyAt(p)'
      BY <2>2, <2>3 DEF HandyAt, New, User
    <2> QED
      BY <2>2, <2>3, <2>6, <2>7, <2>8, HandyOthers
  <1>4. ASSUME NEW p \in Proc, sys_close(p) \/ exit_close(p) PROVE Handy'
    <2>1. PICK fd \in Fd : Dropping(p, fd)
      BY <1>4, Drops
    <2>2. state[p] = "RUNNABLE" /\ state' = state /\ file' = file
      BY <1>4, Drops
    <2>3. HandyAt(p)'
      BY <2>1, <2>2 DEF HandyAt, Dropping
    <2>4. \A q \in Proc \ {p} : ofile'[q] = ofile[q] /\ l'[q] = l[q]
      BY <2>1 DEF TypeOK, Dropping
    <2> QED
      BY <2>2, <2>3, <2>4, HandyOthers DEF Others
  <1>5. ASSUME NEW p \in Proc, fileclose(p) PROVE Handy'
    <2>1. l[p].pc = "close" /\ state[p] = "RUNNABLE" /\ state' = state /\ ofile' = ofile
      BY <1>5, FileClose
    <2>2. ASSUME NEW g \in File, Others(p, g) PROVE file'[g].ref = 1
      <3>1. g # l[p].f0 /\ file[g].ref = 1
        BY <2>1, <2>2 DEF Others
      <3>2. file'[g] = file[g]
        BY <1>5, <3>1, FileClose
      <3> QED
        BY <3>1, <3>2
    <2>3. CASE /\ l'[p].pc = "pipeclose" /\ l'[p].result = l[p].result
               /\ \A q \in Proc \ {p} : l'[q] = l[q]
      <3>1. l'[p].result = New.result
        BY <2>1, <2>3 DEF Handy
      <3>2. HandyAt(p)'
        BY <2>1, <2>3, <3>1 DEF HandyAt
      <3> QED
        BY <2>1, <2>2, <2>3, <3>2, HandyOthers
    <2>4. CASE Local(p, Closed(p))
      BY <2>1, <2>2, <2>4, HandyClosed
    <2> QED
      BY <1>5, <2>3, <2>4, FileClose
  <1>6. ASSUME NEW p \in Proc, pipeclose(p) PROVE Handy'
    <2>1. /\ l[p].pc = "pipeclose" /\ state[p] = "RUNNABLE" /\ Local(p, Closed(p)) /\ ofile' = ofile
          /\ Wakeup(IF l[p].writable THEN "read" ELSE "write") /\ file' = file
      BY <1>6 DEF pipeclose, At
    <2>2. \A q \in Proc : state'[q] = "UNUSED" <=> state[q] = "UNUSED"
      BY <2>1, Woken
    <2> QED
      BY <2>1, <2>2, HandyClosed DEF Others
  <1>7. ASSUME NEW p \in Proc, sleep(p) \/ kill(p) PROVE Handy'
    <2>1. l' = l /\ file' = file /\ ofile' = ofile
      BY <1>7 DEF sleep, kill
    <2>2. \A q \in Proc : state'[q] = "UNUSED" => state[q] = "UNUSED"
      BY <1>7 DEF sleep, kill, TypeOK
    <2> QED
      BY <2>1, <2>2 DEF Handy
  <1>8. ASSUME NEW p \in Proc, NEW c \in Proc, fork(p, c) PROVE Handy'
    <2>1. state' = [state EXCEPT ![c] = "RUNNABLE"]
      BY <1>8 DEF fork
    <2>2. \A q \in Proc \ {p} : state'[q] = "UNUSED" => state[q] = "UNUSED" /\ ofile'[q] = ofile[q]
      BY <1>8, <2>1, Fork DEF TypeOK
    <2>3. state'[p] = "RUNNABLE"
      BY <1>8, <2>1, Fork DEF TypeOK
    <2>4. HandyAt(p)'
      BY <1>8, <2>3, Fork DEF HandyAt, New, User
    <2>5. ASSUME NEW f \in File, Others(p, f) PROVE file'[f].ref = 1
      <3>1. Shares(p, f) = {}
        BY <2>5 DEF Others, Shares
      <3>2. file'[f].ref = file[f].ref + Cardinality(Shares(p, f)) /\ file[f].ref = 1
        BY <1>8, <2>5, Fork DEF Others
      <3> QED
        BY <3>1, <3>2, FS_EmptySet
    <2> QED
      BY <1>8, <2>2, <2>4, <2>5, Fork, HandyOthers
  <1>9. CASE UNCHANGED vars
    BY <1>9 DEF vars, Handy
  <1> QED
    BY <1>1, <1>2, <1>3, <1>4, <1>5, <1>6, <1>7, <1>8, <1>9, HandyPipealloc DEF Next, Finish

-----------------------------------------------------------------------------
(* The counters                                                               *)

LEMMA BoundedSame ==
  ASSUME Bounded, pipe'.nread = pipe.nread, pipe'.nwrite = pipe.nwrite
  PROVE  Bounded'
  BY DEF Bounded, Pending

LEMMA PendingMore ==
  ASSUME TypeOK, Bounded, NEW k \in 0..PIPESIZE, k <= PIPESIZE - Pending,
         pipe'.nwrite = Uint(pipe.nwrite + k), pipe'.nread = pipe.nread, TypeOK'
  PROVE  Pending' = Pending + k
  <1>1. pipe.nwrite \in Counter /\ pipe.nread \in Counter /\ UintSize \in Nat /\ PIPESIZE \in Nat
        /\ UintSize > PIPESIZE
    BY ConstantsAssumption DEF TypeOK, PipePages
  <1>2. PICK x \in (-UintSize)..2 * UintSize - 1 : x = pipe.nwrite + k
    BY <1>1 DEF Counter
  <1>3. pipe'.nwrite = IF x < UintSize THEN x ELSE x - UintSize
    BY <1>1, <1>2, Wrapping DEF Counter
  <1>4. Pending' = IF pipe'.nwrite >= pipe'.nread THEN pipe'.nwrite - pipe'.nread
                   ELSE pipe'.nwrite - pipe'.nread + UintSize
    <2>1. pipe'.nwrite \in Counter /\ pipe'.nread \in Counter
      BY DEF TypeOK, PipePages
    <2>2. PICK y \in (-UintSize)..2 * UintSize - 1 : y = pipe'.nwrite - pipe'.nread
      BY <1>1, <2>1 DEF Counter
    <2>3. Pending' = Uint(y)
      BY <2>2 DEF Pending, Uint
    <2> QED
      BY <1>1, <2>1, <2>2, <2>3, Wrapping DEF Counter
  <1>5. Pending = IF pipe.nwrite >= pipe.nread THEN pipe.nwrite - pipe.nread
                  ELSE pipe.nwrite - pipe.nread + UintSize
    BY PendingIs
  <1> QED
    BY <1>1, <1>2, <1>3, <1>4, <1>5 DEF Bounded, Counter

LEMMA PendingLess ==
  ASSUME TypeOK, Bounded, NEW k \in Nat, k <= Pending,
         pipe'.nread = Uint(pipe.nread + k), pipe'.nwrite = pipe.nwrite, TypeOK'
  PROVE  Pending' = Pending - k
  <1>1. pipe.nwrite \in Counter /\ pipe.nread \in Counter /\ UintSize \in Nat /\ PIPESIZE \in Nat
        /\ UintSize > PIPESIZE
    BY ConstantsAssumption DEF TypeOK, PipePages
  <1>2. PICK x \in (-UintSize)..2 * UintSize - 1 : x = pipe.nread + k
    BY <1>1 DEF Counter, Bounded
  <1>3. pipe'.nread = IF x < UintSize THEN x ELSE x - UintSize
    BY <1>1, <1>2, Wrapping DEF Counter
  <1>4. Pending' = IF pipe'.nwrite >= pipe'.nread THEN pipe'.nwrite - pipe'.nread
                   ELSE pipe'.nwrite - pipe'.nread + UintSize
    <2>1. pipe'.nwrite \in Counter /\ pipe'.nread \in Counter
      BY DEF TypeOK, PipePages
    <2>2. PICK y \in (-UintSize)..2 * UintSize - 1 : y = pipe'.nwrite - pipe'.nread
      BY <1>1, <2>1 DEF Counter
    <2>3. Pending' = Uint(y)
      BY <2>2 DEF Pending, Uint
    <2> QED
      BY <1>1, <2>1, <2>2, <2>3, Wrapping DEF Counter
  <1>5. Pending = IF pipe.nwrite >= pipe.nread THEN pipe.nwrite - pipe.nread
                  ELSE pipe.nwrite - pipe.nread + UintSize
    BY PendingIs
  <1> QED
    BY <1>1, <1>2, <1>3, <1>4, <1>5 DEF Bounded, Counter


LEMMA BoundedStep ==
  ASSUME TypeOK, Handy, Bounded, [Next]_vars, TypeOK'
  PROVE  Bounded'
  <1>1. ASSUME NEW p \in Proc, pipewrite(p) PROVE Bounded'
    <2>1. PICK k \in 0..Len(l[p].rest) : k <= PIPESIZE - Pending /\ Fills(p, k)
      BY <1>1, PipeWrite
    <2>2. Len(l[p].rest) \in Nat
      BY DEF TypeOK, Locals
    <2>3. k \in 0..PIPESIZE
      BY <2>1, <2>2, ConstantsAssumption DEF Bounded
    <2>4. Pending' = Pending + k
      BY <2>1, <2>3, PendingMore DEF Fills
    <2> QED
      BY <2>1, <2>3, <2>4, ConstantsAssumption DEF Bounded
  <1>2. ASSUME NEW p \in Proc, piperead(p) PROVE Bounded'
    <2>1. pipe'.nwrite = pipe.nwrite
      BY <1>2, PipeRead
    <2>2. CASE pipe'.nread = pipe.nread
      BY <2>1, <2>2, BoundedSame
    <2>3. ASSUME NEW k \in Nat, k <= Pending, pipe'.nread = Uint(pipe.nread + k) PROVE Bounded'
      <3>1. Pending' = Pending - k
        BY <2>1, <2>3, PendingLess
      <3> QED
        BY <2>3, <3>1, ConstantsAssumption DEF Bounded
    <2> QED
      BY <1>2, <2>2, <2>3, PipeRead
  <1>3. ASSUME NEW p \in Proc, pipealloc(p) PROVE Bounded'
    <2>1. CASE pipe' = pipe
      BY <2>1, BoundedSame
    <2>2. CASE pipe'.nread = 0 /\ pipe'.nwrite = 0
      <3>1. Pending' = 0
        BY <2>2, ConstantsAssumption DEF Pending, Uint
      <3> QED
        BY <3>1, ConstantsAssumption DEF Bounded
    <2>3. ASSUME NEW wf \in File, Page(p, wf) PROVE pipe'.nread = 0 /\ pipe'.nwrite = 0
      BY <2>3 DEF Page, TypeOK, PipePages
    <2>4. ASSUME NEW wf \in File, NoPage(p, wf) PROVE pipe' = pipe
      BY <2>4 DEF NoPage
    <2> QED
      BY <1>3, <2>1, <2>2, <2>3, <2>4, Pipealloc
  <1>4. ASSUME NEW p \in Proc, pipeclose(p) \/ sleep(p) PROVE Bounded'
    <2>1. pipe'.nread = pipe.nread /\ pipe'.nwrite = pipe.nwrite
      BY <1>4 DEF pipeclose, sleep, TypeOK, PipePages
    <2> QED
      BY <2>1, BoundedSame
  <1>5. CASE pipe' = pipe
    BY <1>5, BoundedSame
  <1> QED
    BY <1>1, <1>2, <1>3, <1>4, <1>5
       DEF Next, Finish, sys_pipe, sys_dup, sys_close, sys_write, sys_read, fileclose, kill, exit,
           exit_close, zombie, fork, vars

-----------------------------------------------------------------------------
(* The ends of the pipe                                                       *)

PipeFile(f, w) == file[f].type = "pipe" /\ file[f].writable = w
Closing(p, w) == l[p].pc = "pipeclose" /\ l[p].writable = w

\* An end has one file, or one process that closes it, and a descriptor is one
\* of a pipe.
Ends ==
    /\ \A w \in BOOLEAN :
        /\ \A f, g \in File : PipeFile(f, w) /\ PipeFile(g, w) => f = g
        /\ \A p, q \in Proc : Closing(p, w) /\ Closing(q, w) => p = q
        /\ \A f \in File, p \in Proc : ~(PipeFile(f, w) /\ Closing(p, w))
    /\ \A p \in Proc, fd \in Fd : ofile[p][fd] # 0 => file[ofile[p][fd]].type = "pipe"

OpenAsFiles ==
    /\ \A w \in BOOLEAN :
        (IF w THEN pipe.writeopen ELSE pipe.readopen)
            <=> (\E f \in File : PipeFile(f, w)) \/ (\E p \in Proc : Closing(p, w))
    /\ pipe.used <=> pipe.readopen \/ pipe.writeopen

LEMMA CountedParts ==
  ASSUME TypeOK
  PROVE  FilesCounted <=> RefsCounted /\ OpenAsFiles
  <1>1. pipe.readopen \in BOOLEAN /\ pipe.writeopen \in BOOLEAN /\ pipe.used \in BOOLEAN
    BY DEF TypeOK, PipePages
  <1>2. ASSUME NEW w \in BOOLEAN
        PROVE  EndOpen(w) <=> (\E f \in File : PipeFile(f, w)) \/ (\E p \in Proc : Closing(p, w))
    BY DEF EndOpen, PipeFile, Closing
  <1>3. EndOpen(TRUE) \in BOOLEAN /\ EndOpen(FALSE) \in BOOLEAN
    BY DEF EndOpen
  <1>4. OpenAsFiles <=> /\ pipe.readopen = EndOpen(FALSE) /\ pipe.writeopen = EndOpen(TRUE)
                        /\ pipe.used = (pipe.readopen \/ pipe.writeopen)
    <2>1. (pipe.readopen <=> EndOpen(FALSE)) <=> pipe.readopen = EndOpen(FALSE)
      BY <1>1, <1>3
    <2>2. (pipe.writeopen <=> EndOpen(TRUE)) <=> pipe.writeopen = EndOpen(TRUE)
      BY <1>1, <1>3
    <2>3. (pipe.used <=> pipe.readopen \/ pipe.writeopen) <=> pipe.used = (pipe.readopen \/ pipe.writeopen)
      BY <1>1
    <2>4. OpenAsFiles <=> /\ pipe.readopen <=> EndOpen(FALSE)
                          /\ pipe.writeopen <=> EndOpen(TRUE)
                          /\ pipe.used <=> pipe.readopen \/ pipe.writeopen
      BY <1>2 DEF OpenAsFiles
    <2> QED
      BY <2>1, <2>2, <2>3, <2>4
  <1> QED
    BY <1>4 DEF FilesCounted, RefsCounted

\* A step that changes neither the ends nor what the files are.
LEMMA SameEnds ==
  ASSUME TypeOK, Ends, OpenAsFiles,
         \A f \in File : /\ file'[f].type = file[f].type
                         /\ file[f].type = "pipe" => file'[f].writable = file[f].writable,
         \A q \in Proc : /\ l'[q].pc = "pipeclose" <=> l[q].pc = "pipeclose"
                         /\ l[q].pc = "pipeclose" => l'[q].writable = l[q].writable,
         UNCHANGED <<pipe.used, pipe.readopen, pipe.writeopen>>,
         \A q \in Proc, fd \in Fd : \/ ofile'[q][fd] = 0
                                    \/ \E p \in Proc, i \in Fd : ofile'[q][fd] = ofile[p][i]
  PROVE  Ends' /\ OpenAsFiles'
  <1>1. \A f \in File, w \in BOOLEAN : PipeFile(f, w)' <=> PipeFile(f, w)
    BY DEF PipeFile
  <1>2. \A p \in Proc, w \in BOOLEAN : Closing(p, w)' <=> Closing(p, w)
    BY DEF Closing
  <1>3. ASSUME NEW q \in Proc, NEW fd \in Fd, ofile'[q][fd] # 0
        PROVE  file'[ofile'[q][fd]].type = "pipe"
    <2>1. PICK p \in Proc, i \in Fd : ofile'[q][fd] = ofile[p][i]
      BY <1>3
    <2>2. ofile[p][i] \in File /\ file[ofile[p][i]].type = "pipe"
      BY <1>3, <2>1 DEF Ends, TypeOK
    <2> QED
      BY <2>1, <2>2
  <1>4. Ends'
    BY <1>1, <1>2, <1>3 DEF Ends
  <1>5. OpenAsFiles'
    BY <1>1, <1>2 DEF OpenAsFiles
  <1> QED
    BY <1>4, <1>5

\* The pipe is made: before, it had no ends.
LEMMA EndsPage ==
  ASSUME TypeOK, Ends, OpenAsFiles, NEW p \in Proc, NEW rf \in File, NEW wf \in File, rf # wf,
         ~pipe.used, pipe'.used, pipe'.readopen, pipe'.writeopen,
         file'[rf] = [ref |-> 1, type |-> "pipe", writable |-> FALSE],
         file'[wf] = [ref |-> 1, type |-> "pipe", writable |-> TRUE],
         \A f \in File \ {rf, wf} : file'[f] = file[f],
         l[p].pc # "pipeclose", l'[p].pc # "pipeclose",
         \A q \in Proc \ {p} : l'[q] = l[q],
         \A q \in Proc, fd \in Fd : ofile'[q][fd] \in {0, rf, wf} \/ ofile'[q][fd] = ofile[q][fd]
  PROVE  Ends' /\ OpenAsFiles'
  <1>1. \A f \in File, w \in BOOLEAN : ~PipeFile(f, w)
    BY DEF OpenAsFiles
  <1>2. \A q \in Proc, w \in BOOLEAN : ~Closing(q, w)
    BY DEF OpenAsFiles
  <1>3. \A f \in File, w \in BOOLEAN : PipeFile(f, w)' <=> f = IF w THEN wf ELSE rf
    <2>1. ASSUME NEW f \in File \ {rf, wf}, NEW w \in BOOLEAN PROVE ~PipeFile(f, w)'
      BY <1>1 DEF PipeFile
    <2>2. ASSUME NEW w \in BOOLEAN PROVE (PipeFile(rf, w)' <=> ~w) /\ (PipeFile(wf, w)' <=> w)
      <3>1. /\ file'[rf].type = "pipe" /\ file'[rf].writable = FALSE
            /\ file'[wf].type = "pipe" /\ file'[wf].writable = TRUE
        OBVIOUS
      <3>2. CASE w = TRUE
        BY <3>1, <3>2 DEF PipeFile
      <3>3. CASE w = FALSE
        BY <3>1, <3>3 DEF PipeFile
      <3> QED
        BY <3>2, <3>3
    <2> QED
      BY <2>1, <2>2
  <1>4. \A q \in Proc, w \in BOOLEAN : ~Closing(q, w)'
    BY <1>2 DEF Closing
  <1>5. ASSUME NEW q \in Proc, NEW fd \in Fd, ofile'[q][fd] # 0
        PROVE  file'[ofile'[q][fd]].type = "pipe"
    <2>1. CASE ofile'[q][fd] \in {rf, wf}
      BY <2>1
    <2>2. CASE ofile'[q][fd] = ofile[q][fd]
      <3>1. ofile[q][fd] \in File /\ file[ofile[q][fd]].type = "pipe"
        BY <1>5, <2>2 DEF Ends, TypeOK
      <3>2. file[ofile[q][fd]] \in Files
        BY <3>1 DEF TypeOK
      <3> QED
        BY <1>1, <3>1, <3>2 DEF PipeFile, Files
    <2> QED
      BY <1>5, <2>1, <2>2
  <1>6. Ends'
    BY <1>3, <1>4, <1>5 DEF Ends
  <1>7. OpenAsFiles'
    BY <1>3, <1>4 DEF OpenAsFiles
  <1> QED
    BY <1>6, <1>7


\* The last reference to an end goes: whoever dropped it is to close it.
LEMMA EndsDrop ==
  ASSUME TypeOK, Ends, OpenAsFiles, NEW p \in Proc, NEW f \in File,
         file[f].type = "pipe", file'[f] = NoFile,
         \A g \in File \ {f} : file'[g] = file[g],
         l[p].pc # "pipeclose", l'[p].pc = "pipeclose", l'[p].writable = file[f].writable,
         \A q \in Proc \ {p} : l'[q] = l[q],
         pipe' = pipe, ofile' = ofile,
         \A q \in Proc, fd \in Fd : ofile[q][fd] # f
  PROVE  Ends' /\ OpenAsFiles'
  <1>1. PICK v \in BOOLEAN : v = file[f].writable
    BY DEF TypeOK, Files
  <1>2. PipeFile(f, v) /\ \A w \in BOOLEAN : PipeFile(f, w) => w = v
    BY <1>1 DEF PipeFile
  <1>3. \A g \in File, w \in BOOLEAN : PipeFile(g, w)' <=> g # f /\ PipeFile(g, w)
    BY DEF PipeFile, NoFile
  <1>4. \A q \in Proc, w \in BOOLEAN : Closing(q, w)' <=> Closing(q, w) \/ (q = p /\ w = v)
    BY <1>1 DEF Closing
  <1>5. ASSUME NEW q \in Proc, NEW fd \in Fd, ofile'[q][fd] # 0
        PROVE  file'[ofile'[q][fd]].type = "pipe"
    BY <1>5 DEF Ends, TypeOK
  <1>6. /\ \A g \in File : ~PipeFile(g, v)'
        /\ \A q \in Proc : Closing(q, v)' <=> q = p
    BY <1>2, <1>3, <1>4 DEF Ends
  <1>7. ASSUME NEW w \in BOOLEAN, w # v
        PROVE  /\ \A g \in File : PipeFile(g, w)' <=> PipeFile(g, w)
               /\ \A q \in Proc : Closing(q, w)' <=> Closing(q, w)
    BY <1>2, <1>3, <1>4, <1>7
  <1>8. Ends'
    BY <1>5, <1>6, <1>7 DEF Ends
  <1>9. OpenAsFiles'
    <2>1. \A w \in BOOLEAN :
            (\E g \in File : PipeFile(g, w)') \/ (\E q \in Proc : Closing(q, w)')
              <=> (\E g \in File : PipeFile(g, w)) \/ (\E q \in Proc : Closing(q, w))
      BY <1>2, <1>6, <1>7
    <2> QED
      BY <2>1 DEF OpenAsFiles
  <1> QED
    BY <1>8, <1>9

\* pipeclose closes the end for good.
LEMMA EndsClose ==
  ASSUME TypeOK, Ends, OpenAsFiles, NEW p \in Proc, pipeclose(p)
  PROVE  Ends' /\ OpenAsFiles'
  <1>1. l[p].pc = "pipeclose" /\ Local(p, Closed(p)) /\ UNCHANGED <<file, ofile>>
    BY DEF pipeclose, At
  <1>2. PICK v \in BOOLEAN : v = l[p].writable
    BY DEF TypeOK, Locals
  <1>3. l'[p].pc # "pipeclose" /\ \A q \in Proc \ {p} : l'[q] = l[q]
    BY <1>1, ClosedIs
  <1>4. Closing(p, v)
    BY <1>1, <1>2 DEF Closing
  <1>5. /\ \A f \in File, w \in BOOLEAN : PipeFile(f, w)' <=> PipeFile(f, w)
        /\ \A q \in Proc, w \in BOOLEAN : Closing(q, w)' <=> q # p /\ Closing(q, w)
    BY <1>1, <1>3 DEF PipeFile, Closing
  <1>6. (\A f \in File : ~PipeFile(f, v)') /\ (\A q \in Proc : ~Closing(q, v)')
    BY <1>4, <1>5 DEF Ends
  <1>7. ASSUME NEW w \in BOOLEAN, w # v
        PROVE  /\ \A g \in File : PipeFile(g, w)' <=> PipeFile(g, w)
               /\ \A q \in Proc : Closing(q, w)' <=> Closing(q, w)
    BY <1>2, <1>5, <1>7 DEF Closing
  <1>8. Ends'
    BY <1>1, <1>6, <1>7 DEF Ends
  <1>9. /\ pipe'.readopen <=> pipe.readopen /\ v
        /\ pipe'.writeopen <=> pipe.writeopen /\ ~v
        /\ pipe'.used <=> pipe'.readopen \/ pipe'.writeopen
    BY <1>2 DEF pipeclose, TypeOK, PipePages
  <1>10. OpenAsFiles'
    <2>1. ASSUME NEW w \in BOOLEAN
          PROVE  (IF w THEN pipe'.writeopen ELSE pipe'.readopen)
                   <=> (\E f \in File : PipeFile(f, w)') \/ (\E q \in Proc : Closing(q, w)')
      <3>1. CASE w = v
        BY <1>6, <1>9, <3>1
      <3>2. CASE w # v
        <4>1. (IF w THEN pipe'.writeopen ELSE pipe'.readopen)
                <=> (IF w THEN pipe.writeopen ELSE pipe.readopen)
          BY <1>9, <3>2
        <4> QED
          BY <1>7, <3>2, <4>1 DEF OpenAsFiles
      <3> QED
        BY <3>1, <3>2
    <2> QED
      BY <1>9, <2>1 DEF OpenAsFiles
  <1> QED
    BY <1>8, <1>10

LEMMA EndsStep ==
  ASSUME TypeOK, FilesCounted, Handy, Bounded, Ends, [Next]_vars
  PROVE  Ends' /\ OpenAsFiles'
  <1> OpenAsFiles
    BY CountedParts
  <1>1. ASSUME NEW p \in Proc, Plain(p),
               \/ sys_write(p) \/ sys_read(p) \/ pipewrite(p) \/ piperead(p) \/ exit(p) \/ zombie(p)
        PROVE  Ends' /\ OpenAsFiles'
    <2>1. UNCHANGED <<pipe.used, pipe.readopen, pipe.writeopen>>
      <3>1. CASE sys_write(p) \/ sys_read(p) \/ exit(p) \/ zombie(p)
        BY <3>1 DEF sys_write, sys_read, exit, zombie
      <3>2. CASE pipewrite(p)
        BY <3>2, PipeWrite DEF Fills
      <3>3. CASE piperead(p)
        BY <3>3, PipeRead
      <3> QED
        BY <1>1, <3>1, <3>2, <3>3
    <2>2. ASSUME NEW q \in Proc
          PROVE  l'[q] = l[q] \/ (l'[q].pc # "pipeclose" /\ l[q].pc # "pipeclose")
      <3>1. CASE q = p
        BY <1>1, <3>1 DEF Plain
      <3>2. CASE q # p
        BY <1>1, <3>2 DEF Plain
      <3> QED
        BY <3>1, <3>2
    <2>3. file' = file /\ ofile' = ofile
      BY <1>1 DEF Plain
    <2> QED
      BY <2>1, <2>2, <2>3, SameEnds
  <1>2. ASSUME NEW p \in Proc, sys_pipe(p) PROVE Ends' /\ OpenAsFiles'
    <2>1. PICK f \in File : /\ file' = [file EXCEPT ![f].ref = 1]
                            /\ l' = [l EXCEPT ![p] = [New EXCEPT !.pc = "pipealloc", !.f0 = f]]
      BY <1>2 DEF sys_pipe, FreeFiles, Local
    <2>2. l'[p] = [New EXCEPT !.pc = "pipealloc", !.f0 = f] /\ \A q \in Proc \ {p} : l'[q] = l[q]
      BY <2>1, SetTo
    <2>3. l[p].pc = "user" /\ UNCHANGED <<pipe, ofile>>
      BY <1>2 DEF sys_pipe, MayCall, At
    <2>4. \A g \in File : file'[g].type = file[g].type /\ file'[g].writable = file[g].writable
      BY <2>1 DEF TypeOK, Files
    <2>5. l'[p].pc # "pipeclose"
      BY <2>2 DEF New, User
    <2> QED
      BY <2>2, <2>3, <2>4, <2>5, SameEnds
  <1>3. ASSUME NEW p \in Proc, pipealloc(p) PROVE Ends' /\ OpenAsFiles'
    <2>1. PICK rf \in File : rf = l[p].f0 /\ file[rf].ref = 1 /\ l[p].pc = "pipealloc"
      BY <1>3, Pipealloc
    <2>2. ASSUME NEW g \in File \union {0}, Local(p, Close(rf, g)) \/ Local(p, New)
          PROVE  l'[p].pc # "pipeclose" /\ \A q \in Proc \ {p} : l'[q] = l[q]
      <3>1. (l'[p] = Close(rf, g) \/ l'[p] = New) /\ \A q \in Proc \ {p} : l'[q] = l[q]
        BY <2>2, SetTo DEF Local
      <3>2. Close(rf, g).pc = "close" /\ New.pc = "user"
        BY DEF Close, New, User
      <3> QED
        BY <3>1, <3>2
    <2>3. CASE Local(p, Close(rf, 0)) /\ UNCHANGED <<file, pipe, ofile>>
      BY <2>1, <2>2, <2>3, SameEnds
    <2>4. ASSUME NEW wf \in File, wf # rf, NoPage(p, wf) PROVE Ends' /\ OpenAsFiles'
      <3>1. \A g \in File : file'[g].type = file[g].type /\ file'[g].writable = file[g].writable
        BY <2>4 DEF NoPage, TypeOK, Files
      <3>2. Local(p, Close(rf, wf)) /\ UNCHANGED <<pipe, ofile>>
        BY <2>1, <2>4 DEF NoPage
      <3> QED
        BY <2>1, <2>2, <3>1, <3>2, SameEnds
    <2>5. ASSUME NEW wf \in File, wf # rf, Page(p, wf) PROVE Ends' /\ OpenAsFiles'
      <3>1. /\ file'[rf] = [ref |-> 1, type |-> "pipe", writable |-> FALSE]
            /\ file'[wf] = [ref |-> 1, type |-> "pipe", writable |-> TRUE]
            /\ \A f \in File \ {rf, wf} : file'[f] = file[f]
        BY <2>1, <2>5 DEF Page, TypeOK
      <3>2. ~pipe.used /\ pipe'.used /\ pipe'.readopen /\ pipe'.writeopen
        BY <2>5 DEF Page, TypeOK, PipePages
      <3>3. l'[p].pc # "pipeclose" /\ \A q \in Proc \ {p} : l'[q] = l[q]
        BY <2>1, <2>2, <2>5 DEF Page
      <3>4. \A q \in Proc, fd \in Fd : ofile'[q][fd] \in {0, rf, wf} \/ ofile'[q][fd] = ofile[q][fd]
        <4>1. CASE ofile' = ofile
          BY <4>1
        <4>2. ASSUME NEW r \in FreeFds(p), NEW w \in FreeFds(p),
                     ofile' = [ofile EXCEPT ![p][r] = rf, ![p][w] = wf]
              PROVE  \A q \in Proc, fd \in Fd : ofile'[q][fd] \in {0, rf, wf} \/ ofile'[q][fd] = ofile[q][fd]
          BY <4>2 DEF TypeOK, FreeFds
        <4> QED
          BY <2>1, <2>5, <4>1, <4>2 DEF Page
      <3> QED
        BY <2>1, <2>5, <3>1, <3>2, <3>3, <3>4, EndsPage
    <2> QED
      BY <1>3, <2>1, <2>3, <2>4, <2>5, Pipealloc
  <1>4. ASSUME NEW p \in Proc, sys_dup(p) PROVE Ends' /\ OpenAsFiles'
    <2>1. PICK from \in Fd, to \in Fd :
          /\ ofile[p][from] # 0
          /\ ofile' = [ofile EXCEPT ![p][to] = ofile[p][from]]
          /\ file' = [file EXCEPT ![ofile[p][from]].ref = @ + 1]
      BY <1>4 DEF sys_dup, FreeFds
    <2>2. l' = [l EXCEPT ![p] = New] /\ l[p].pc = "user" /\ pipe' = pipe
      BY <1>4 DEF sys_dup, Local, MayCall, At
    <2>3. l'[p].pc # "pipeclose" /\ \A q \in Proc \ {p} : l'[q] = l[q]
      BY <2>2, SetTo DEF New, User
    <2>4. \A g \in File : file'[g].type = file[g].type /\ file'[g].writable = file[g].writable
      BY <2>1 DEF TypeOK, Files
    <2>5. \A q \in Proc, fd \in Fd : ofile'[q][fd] = ofile[q][fd] \/ ofile'[q][fd] = ofile[p][from]
      BY <2>1 DEF TypeOK
    <2> QED
      BY <2>2, <2>3, <2>4, <2>5, SameEnds
  <1>5. ASSUME NEW p \in Proc, sys_close(p) \/ exit_close(p) PROVE Ends' /\ OpenAsFiles'
    <2>1. PICK fd \in Fd : Dropping(p, fd)
      BY <1>5, Drops
    <2>2. l[p].pc # "pipeclose" /\ UNCHANGED <<file, pipe>>
      BY <1>5, Drops
    <2>3. \A q \in Proc, i \in Fd : ofile'[q][i] = ofile[q][i] \/ ofile'[q][i] = 0
      BY <2>1 DEF TypeOK, Dropping
    <2> QED
      BY <2>1, <2>2, <2>3, SameEnds DEF Dropping
  <1>6. ASSUME NEW p \in Proc, fileclose(p) PROVE Ends' /\ OpenAsFiles'
    <2>1. PICK f \in File : f = l[p].f0
      BY <1>6, FileClose
    <2>2. l[p].pc = "close" /\ UNCHANGED <<pipe, ofile>> /\ \A g \in File \ {f} : file'[g] = file[g]
      BY <1>6, <2>1, FileClose
    <2>3. CASE file[f].ref = 1 /\ file[f].type = "pipe"
      <3>1. file'[f] = NoFile
        BY <1>6, <2>1, <2>3, FileClose
      <3>2. /\ l'[p].pc = "pipeclose" /\ l'[p].writable = file[f].writable
            /\ \A q \in Proc \ {p} : l'[q] = l[q]
        BY <1>6, <2>1, <2>3, FileClose
      <3>3. \A q \in Proc, fd \in Fd : ofile[q][fd] # f
        BY <2>1, <2>2, <2>3, OnlyOne
      <3> QED
        BY <2>2, <2>3, <3>1, <3>2, <3>3, EndsDrop
    <2>4. CASE ~(file[f].ref = 1 /\ file[f].type = "pipe")
      <3>1. Local(p, Closed(p))
        BY <1>6, <2>1, <2>4, FileClose
      <3>2. l'[p].pc # "pipeclose" /\ \A q \in Proc \ {p} : l'[q] = l[q]
        BY <3>1, ClosedIs DEF TypeOK, Locals
      <3>3. file'[f].type = file[f].type /\ (file[f].type = "pipe" => file'[f].writable = file[f].writable)
        <4>1. CASE file[f].ref = 1
          <5>1. file'[f] = NoFile /\ file[f] \in Files
            BY <1>6, <2>1, <4>1, FileClose DEF TypeOK
          <5>2. file[f].type = "none"
            BY <2>4, <4>1, <5>1 DEF Files
          <5> QED
            BY <5>1, <5>2 DEF NoFile
        <4>2. CASE file[f].ref # 1
          BY <1>6, <2>1, <4>2, FileClose
        <4> QED
          BY <4>1, <4>2
      <3> QED
        BY <2>2, <3>2, <3>3, SameEnds
    <2> QED
      BY <2>3, <2>4
  <1>7. ASSUME NEW p \in Proc, sleep(p) \/ kill(p) PROVE Ends' /\ OpenAsFiles'
    <2>1. UNCHANGED <<file, ofile, l, pipe.used, pipe.readopen, pipe.writeopen>>
      BY <1>7 DEF sleep, kill, TypeOK, PipePages
    <2> QED
      BY <2>1, SameEnds
  <1>8. ASSUME NEW p \in Proc, NEW c \in Proc, fork(p, c) PROVE Ends' /\ OpenAsFiles'
    <2>1. \A q \in Proc, fd \in Fd : \E r \in Proc, i \in Fd : ofile'[q][fd] = ofile[r][i]
      BY <1>8, Fork
    <2>2. \A q \in Proc : l'[q] = l[q] \/ (l'[q].pc # "pipeclose" /\ l[q].pc # "pipeclose")
      BY <1>8, Fork DEF New, User
    <2>3. pipe' = pipe
      BY <1>8, Fork
    <2>4. \A f \in File : file'[f].type = file[f].type /\ file'[f].writable = file[f].writable
      BY <1>8, Fork
    <2> QED
      BY <2>1, <2>2, <2>3, <2>4, SameEnds
  <1>9. CASE UNCHANGED vars
    BY <1>9, SameEnds DEF vars
  <1> QED
    BY <1>1, <1>2, <1>3, <1>4, <1>5, <1>6, <1>7, <1>8, <1>9, PlainSteps, EndsClose DEF Next, Finish


-----------------------------------------------------------------------------
(* Who holds an end                                                           *)

Holds(p, w) == \E fd \in Fd : ofile[p][fd] # 0 /\ PipeFile(ofile[p][fd], w)

LEMMA HoldersAre ==
  ASSUME NEW p \in Proc, NEW w
  PROVE  p \in Holders(w) <=> Holds(p, w)
  BY DEF Holders, Holds, FreeFds, PipeFile

LEMMA HoldersAreNext ==
  ASSUME NEW p \in Proc, NEW w
  PROVE  p \in Holders(w)' <=> Holds(p, w)'
  BY DEF Holders, Holds, FreeFds, PipeFile

\* A file stays what it is as long as a descriptor refers to it.
LEMMA FilesKept ==
  ASSUME TypeOK, FilesCounted, Handy, Bounded, [Next]_vars,
         NEW q \in Proc, NEW fd \in Fd, ofile[q][fd] # 0
  PROVE  /\ file'[ofile[q][fd]].type = file[ofile[q][fd]].type
         /\ file'[ofile[q][fd]].writable = file[ofile[q][fd]].writable
  <1>1. PICK f \in File : f = ofile[q][fd]
    BY DEF TypeOK
  <1>2. file[f] \in Files /\ DOMAIN file = File
    BY DEF TypeOK
  <1> SUFFICES file'[f].type = file[f].type /\ file'[f].writable = file[f].writable
    BY <1>1
  <1>3. ASSUME NEW p \in Proc, sys_pipe(p)
        PROVE  file'[f].type = file[f].type /\ file'[f].writable = file[f].writable
    <2>1. PICK g \in File : file' = [file EXCEPT ![g].ref = 1]
      BY <1>3 DEF sys_pipe, FreeFiles
    <2> QED
      BY <1>2, <2>1 DEF Files
  <1>4. ASSUME NEW p \in Proc, sys_dup(p)
        PROVE  file'[f].type = file[f].type /\ file'[f].writable = file[f].writable
    <2>1. PICK g : file' = [file EXCEPT ![g].ref = @ + 1]
      BY <1>4 DEF sys_dup
    <2> QED
      BY <1>2, <2>1 DEF Files
  <1>5. ASSUME NEW p \in Proc, pipealloc(p)
        PROVE  file'[f].type = file[f].type /\ file'[f].writable = file[f].writable
    <2>1. PICK rf \in File : rf = l[p].f0 /\ file[rf].ref = 1 /\ l[p].pc = "pipealloc"
      BY <1>5, Pipealloc
    <2>2. f # rf
      BY <1>1, <2>1, OnlyOne
    <2>3. ASSUME NEW wf \in File, file[wf].ref = 0, NoPage(p, wf)
          PROVE  file'[f].type = file[f].type /\ file'[f].writable = file[f].writable
      BY <1>2, <2>3 DEF Files, NoPage
    <2>4. ASSUME NEW wf \in File, file[wf].ref = 0, Page(p, wf)
          PROVE  file'[f].type = file[f].type /\ file'[f].writable = file[f].writable
      <3>1. f # wf
        BY <1>1, <2>4, NotOne
      <3> QED
        BY <1>2, <2>1, <2>2, <2>4, <3>1 DEF Page
    <2> QED
      BY <1>5, <2>3, <2>4, Pipealloc
  <1>6. ASSUME NEW p \in Proc, fileclose(p)
        PROVE  file'[f].type = file[f].type /\ file'[f].writable = file[f].writable
    <2>1. CASE f = l[p].f0
      <3>1. file[f].ref # 1
        <4>1. l[p].pc = "close"
          BY <1>6, FileClose
        <4>2. SUFFICES ASSUME file[f].ref = 1 PROVE FALSE
          OBVIOUS
        <4>3. l[p].f0 = f /\ l[p].pc # "pipeclose"
          BY <2>1, <4>1
        <4>4. ofile[q][fd] # f
          BY <4>2, <4>3, OnlyOne
        <4> QED
          BY <1>1, <4>4
      <3> QED
        BY <1>6, <2>1, <3>1, FileClose
    <2>2. CASE f # l[p].f0
      BY <1>6, <2>2, FileClose
    <2> QED
      BY <2>1, <2>2
  <1>7. ASSUME NEW p \in Proc, NEW c \in Proc, fork(p, c)
        PROVE  file'[f].type = file[f].type /\ file'[f].writable = file[f].writable
    BY <1>7, Fork
  <1>8. CASE file' = file
    BY <1>8
  <1>9. ASSUME NEW p \in Proc,
               \/ sys_close(p) \/ exit_close(p) \/ sys_write(p) \/ sys_read(p) \/ pipewrite(p)
               \/ piperead(p) \/ pipeclose(p) \/ sleep(p) \/ kill(p) \/ exit(p) \/ zombie(p)
        PROVE  file' = file
    BY <1>9 DEF sys_close, exit_close, sys_write, sys_read, pipewrite, piperead, pipeclose, sleep,
                kill, exit, zombie
  <1>10. UNCHANGED vars => file' = file
    BY DEF vars
  <1> QED
    BY <1>3, <1>4, <1>5, <1>6, <1>7, <1>8, <1>9, <1>10 DEF Next, Finish

\* Who keeps its descriptors holds what it held.
LEMMA HoldsKept ==
  ASSUME TypeOK, FilesCounted, Handy, Bounded, [Next]_vars, NEW q \in Proc, NEW w,
         ofile'[q] = ofile[q]
  PROVE  Holds(q, w)' <=> Holds(q, w)
  <1>1. ASSUME NEW fd \in Fd, ofile[q][fd] # 0
        PROVE  PipeFile(ofile[q][fd], w)' <=> PipeFile(ofile[q][fd], w)
    <2>1. PICK f : f = ofile[q][fd]
      OBVIOUS
    <2>2. f = ofile'[q][fd]
      BY <2>1
    <2>3. file'[f].type = file[f].type /\ file'[f].writable = file[f].writable
      BY <1>1, <2>1, FilesKept
    <2> QED
      BY <2>1, <2>2, <2>3 DEF PipeFile
  <1> QED
    BY <1>1 DEF Holds

\* A call is one on an end that its process holds.
Callers ==
    \A p \in Proc :
        /\ l[p].pc = "write" => Holds(p, TRUE)
        /\ l[p].pc = "read" => Holds(p, FALSE) /\ l[p].n # 0

\* The call of q goes on, and its descriptors are the same.
LEMMA CallersKept ==
  ASSUME TypeOK, FilesCounted, Handy, Bounded, Callers, [Next]_vars, NEW q \in Proc,
         \/ l'[q].pc \notin {"write", "read"}
         \/ l'[q].pc = l[q].pc /\ l'[q].n = l[q].n /\ ofile'[q] = ofile[q]
  PROVE  /\ l'[q].pc = "write" => Holds(q, TRUE)'
         /\ l'[q].pc = "read" => Holds(q, FALSE)' /\ l'[q].n # 0
  <1>1. CASE l'[q].pc \notin {"write", "read"}
    BY <1>1
  <1>2. CASE l'[q].pc = l[q].pc /\ l'[q].n = l[q].n /\ ofile'[q] = ofile[q]
    BY <1>2, HoldsKept DEF Callers
  <1> QED
    BY <1>1, <1>2


LEMMA CallersStep ==
  ASSUME TypeOK, FilesCounted, Handy, Bounded, Ends, Callers, [Next]_vars
  PROVE  Callers'
  <1> SUFFICES ASSUME NEW q \in Proc
               PROVE  /\ l'[q].pc = "write" => Holds(q, TRUE)'
                      /\ l'[q].pc = "read" => Holds(q, FALSE)' /\ l'[q].n # 0
    BY DEF Callers
  <1>1. CASE l'[q] = l[q] /\ ofile'[q] = ofile[q]
    BY <1>1, CallersKept
  <1>2. CASE l'[q].pc \notin {"write", "read"}
    BY <1>2, CallersKept
  <1>3. ASSUME sys_write(q)
        PROVE  l'[q].pc = "write" /\ Holds(q, TRUE)'
    <2>1. PICK fd \in Fd, s \in Writes :
            /\ ofile[q][fd] # 0 /\ file[ofile[q][fd]].writable
            /\ l' = [l EXCEPT ![q] = [New EXCEPT !.pc = "write", !.rest = s]]
      BY <1>3 DEF sys_write, FreeFds, Local
    <2>2. l'[q] = [New EXCEPT !.pc = "write", !.rest = s]
      BY <2>1, SetTo
    <2>3. file[ofile[q][fd]].type = "pipe" /\ file[ofile[q][fd]] \in Files
      BY <2>1 DEF Ends, TypeOK
    <2>4. Holds(q, TRUE)
      BY <2>1, <2>3 DEF Holds, PipeFile, Files
    <2>5. ofile' = ofile
      BY <1>3 DEF sys_write
    <2> QED
      BY <2>2, <2>4, <2>5, HoldsKept DEF New, User
  <1>4. ASSUME sys_read(q)
        PROVE  l'[q].pc = "read" /\ Holds(q, FALSE)' /\ l'[q].n # 0
    <2>1. PICK fd \in Fd, n \in Reads :
            /\ ofile[q][fd] # 0 /\ ~file[ofile[q][fd]].writable
            /\ l' = [l EXCEPT ![q] = [New EXCEPT !.pc = "read", !.n = n]]
      BY <1>4 DEF sys_read, FreeFds, Local
    <2>2. l'[q] = [New EXCEPT !.pc = "read", !.n = n] /\ n # 0
      BY <2>1, SetTo, ConstantsAssumption
    <2>3. file[ofile[q][fd]].type = "pipe" /\ file[ofile[q][fd]] \in Files
      BY <2>1 DEF Ends, TypeOK
    <2>4. Holds(q, FALSE)
      BY <2>1, <2>3 DEF Holds, PipeFile, Files
    <2>5. ofile' = ofile
      BY <1>4 DEF sys_read
    <2> QED
      BY <2>2, <2>4, <2>5, HoldsKept DEF New, User
  <1>5. ASSUME NEW p \in Proc, Plain(p), q # p PROVE l'[q] = l[q] /\ ofile'[q] = ofile[q]
    BY <1>5 DEF Plain
  <1>6. ASSUME pipewrite(q)
        PROVE  \/ l'[q].pc \notin {"write", "read"}
               \/ l'[q].pc = l[q].pc /\ l'[q].n = l[q].n /\ ofile'[q] = ofile[q]
    <2>1. PICK k \in 0..Len(l[q].rest) : Wrote(q, k)
      BY <1>6, PipeWrite
    <2>2. ofile' = ofile /\ l[q] \in Locals
      BY <1>6, PipeWrite DEF TypeOK
    <2>3. ASSUME NEW is, l' = [l EXCEPT ![q] = User(is, << >>)] PROVE l'[q].pc \notin {"write", "read"}
      <3>1. l'[q] = User(is, << >>)
        BY <2>3, SetTo
      <3> QED
        BY <3>1 DEF User
    <2>4. CASE l' = [l EXCEPT ![q] = [l[q] EXCEPT !.rest = Rests(q, k)]]
      <3>1. l'[q] = [l[q] EXCEPT !.rest = Rests(q, k)]
        BY <2>4, SetTo
      <3> QED
        BY <2>2, <3>1 DEF Locals
    <2> QED
      BY <2>1, <2>3, <2>4 DEF Wrote
  <1>7. ASSUME piperead(q)
        PROVE  \/ l'[q].pc \notin {"write", "read"}
               \/ l'[q].pc = l[q].pc /\ l'[q].n = l[q].n /\ ofile'[q] = ofile[q]
    <2>1. ofile' = ofile
      BY <1>7, PipeRead
    <2>2. ASSUME NEW is, NEW s, l' = [l EXCEPT ![q] = User(is, s)]
          PROVE  l'[q].pc \notin {"write", "read"}
      <3>1. l'[q] = User(is, s)
        BY <2>2, SetTo
      <3> QED
        BY <3>1 DEF User
    <2>3. ASSUME NEW k \in Nat, Got(q, k) PROVE l'[q].pc \notin {"write", "read"}
      BY <2>2, <2>3 DEF Got
    <2> QED
      BY <1>7, <2>1, <2>2, <2>3, PipeRead
  <1>8. ASSUME exit(q) \/ zombie(q) PROVE l'[q].pc \notin {"write", "read"}
    <2>1. \/ l' = [l EXCEPT ![q] = [New EXCEPT !.pc = "exit", !.exiting = TRUE]]
          \/ l' = [l EXCEPT ![q] = New]
      BY <1>8 DEF exit, zombie, Local
    <2>2. l'[q] = [New EXCEPT !.pc = "exit", !.exiting = TRUE] \/ l'[q] = New
      BY <2>1, SetTo
    <2>3. [New EXCEPT !.pc = "exit", !.exiting = TRUE].pc = "exit" /\ New.pc = "user"
      BY DEF New, User
    <2> QED
      BY <2>2, <2>3
  <1> DEFINE Same == l'[q] = l[q] /\ ofile'[q] = ofile[q]
             Out == l'[q].pc \notin {"write", "read"}
  <1>9. ASSUME NEW p \in Proc, sys_pipe(p) PROVE Same \/ Out
    <2>1. PICK f : l' = [l EXCEPT ![p] = [New EXCEPT !.pc = "pipealloc", !.f0 = f]]
      BY <1>9 DEF sys_pipe, Local
    <2>2. l'[p] = [New EXCEPT !.pc = "pipealloc", !.f0 = f] /\ \A r \in Proc \ {p} : l'[r] = l[r]
      BY <2>1, SetTo
    <2>3. ofile' = ofile
      BY <1>9 DEF sys_pipe
    <2>4. l'[p].pc = "pipealloc"
      BY <2>2 DEF New, User
    <2> QED
      BY <2>2, <2>3, <2>4
  <1>10. ASSUME NEW p \in Proc, pipealloc(p) PROVE Same \/ Out
    <2>1. PICK rf : rf = l[p].f0
      OBVIOUS
    <2>2. \/ (\E g : Local(p, Close(rf, g))) /\ ofile' = ofile
          \/ /\ \E wf, r, w : ofile' = [ofile EXCEPT ![p][r] = rf, ![p][w] = wf]
             /\ Local(p, New)
      <3>1. CASE Local(p, Close(rf, 0)) /\ ofile' = ofile
        BY <3>1
      <3>2. ASSUME NEW wf, NoPage(p, wf) PROVE Local(p, Close(rf, wf)) /\ ofile' = ofile
        BY <2>1, <3>2 DEF NoPage
      <3>3. ASSUME NEW wf, Page(p, wf)
            PROVE  \/ Local(p, Close(rf, wf)) /\ ofile' = ofile
                   \/ /\ \E r, w : ofile' = [ofile EXCEPT ![p][r] = rf, ![p][w] = wf]
                      /\ Local(p, New)
        BY <2>1, <3>3 DEF Page
      <3>4. \/ Local(p, Close(rf, 0)) /\ ofile' = ofile
            \/ \E wf \in File : NoPage(p, wf) \/ Page(p, wf)
        BY <1>10, <2>1, Pipealloc
      <3> QED
        BY <3>1, <3>2, <3>3, <3>4
    <2>3. ASSUME NEW g, Local(p, Close(rf, g)), ofile' = ofile PROVE Same \/ Out
      <3>1. l'[p] = Close(rf, g) /\ \A r \in Proc \ {p} : l'[r] = l[r]
        BY <2>3, SetTo DEF Local
      <3>2. Close(rf, g).pc = "close"
        BY DEF Close, New, User
      <3> QED
        BY <2>3, <3>1, <3>2
    <2>4. ASSUME NEW wf, NEW r, NEW w, ofile' = [ofile EXCEPT ![p][r] = rf, ![p][w] = wf], Local(p, New)
          PROVE  Same \/ Out
      <3>1. l'[p] = New /\ \A i \in Proc \ {p} : l'[i] = l[i]
        BY <2>4, SetTo DEF Local
      <3>2. \A i \in Proc \ {p} : ofile'[i] = ofile[i]
        BY <2>4 DEF TypeOK
      <3> QED
        BY <3>1, <3>2 DEF New, User
    <2> QED
      BY <2>2, <2>3, <2>4
  <1>11. ASSUME NEW p \in Proc, sys_dup(p) PROVE Same \/ Out
    <2>1. l' = [l EXCEPT ![p] = New] /\ \A i \in Proc \ {p} : ofile'[i] = ofile[i]
      BY <1>11 DEF sys_dup, Local, TypeOK
    <2>2. l'[p] = New /\ \A i \in Proc \ {p} : l'[i] = l[i]
      BY <2>1, SetTo
    <2> QED
      BY <2>1, <2>2 DEF New, User
  <1>12. ASSUME NEW p \in Proc, sys_close(p) \/ exit_close(p) PROVE Same \/ Out
    <2>1. PICK fd \in Fd : Dropping(p, fd)
      BY <1>12, Drops
    <2>2. \A i \in Proc \ {p} : ofile'[i] = ofile[i]
      BY <2>1 DEF Dropping, TypeOK
    <2> QED
      BY <2>1, <2>2 DEF Dropping
  <1>13. ASSUME NEW p \in Proc, fileclose(p) \/ pipeclose(p) PROVE Same \/ Out
    <2>1. ofile' = ofile
      BY <1>13 DEF fileclose, pipeclose
    <2>2. \/ l'[p].pc = "pipeclose" /\ \A i \in Proc \ {p} : l'[i] = l[i]
          \/ Local(p, Closed(p))
      BY <1>13, FileClose DEF pipeclose
    <2>3. l'[p].pc \in {"pipeclose", "close", "exit", "user"} /\ \A i \in Proc \ {p} : l'[i] = l[i]
      BY <2>2, ClosedIs
    <2> QED
      BY <2>1, <2>3
  <1>14. ASSUME NEW p \in Proc, NEW c \in Proc, fork(p, c) PROVE Same \/ Out
    <2>1. CASE q \in {p, c}
      BY <1>14, <2>1, Fork DEF New, User
    <2>2. CASE q \notin {p, c}
      BY <1>14, <2>2, Fork
    <2> QED
      BY <2>1, <2>2
  <1>15. ASSUME NEW p \in Proc, sleep(p) \/ kill(p) PROVE Same
    BY <1>15 DEF sleep, kill
  <1>16. UNCHANGED vars => Same
    BY DEF vars
  <1>17. ASSUME NEW p \in Proc,
                \/ sys_write(p) \/ sys_read(p) \/ pipewrite(p) \/ piperead(p) \/ exit(p) \/ zombie(p)
         PROVE  /\ l'[q].pc = "write" => Holds(q, TRUE)'
                /\ l'[q].pc = "read" => Holds(q, FALSE)' /\ l'[q].n # 0
    <2>1. CASE q # p
      BY <1>1, <1>5, <1>17, <2>1, PlainSteps
    <2>2. CASE q = p
      BY <1>2, <1>3, <1>4, <1>6, <1>7, <1>8, <1>17, <2>2, CallersKept
    <2> QED
      BY <2>1, <2>2
  <1> QED
    BY <1>1, <1>2, <1>9, <1>10, <1>11, <1>12, <1>13, <1>14, <1>15, <1>16, <1>17 DEF Next, Finish

-----------------------------------------------------------------------------
(* Every file is counted, and the pipe is open as long as somebody has an end *)

Inv == TypeOK /\ FilesCounted /\ Handy /\ Bounded /\ Ends /\ Callers

LEMMA InvInit == Init => Inv
  <1> SUFFICES ASSUME Init PROVE Inv
    OBVIOUS
  <1>1. TypeOK
    BY TypeInit
  <1>2. \A p \in Proc : l[p].pc = "user" /\ l[p].f0 = 0 /\ l[p].f1 = 0 /\ l[p] = New
    BY DEF Init, New, User
  <1>3. \A p \in Proc, fd \in Fd : ofile[p][fd] = 0
    BY DEF Init
  <1>4. \A f \in File : file[f].ref = 0 /\ file[f].type = "none"
    BY DEF Init, NoFile
  <1>5. Handy
    BY <1>2, <1>3 DEF Handy
  <1>6. RefsCounted
    <2>1. ASSUME NEW f \in File PROVE {h \in Hands : Held(h[1], h[2]) = f} = {}
      <3>1. ASSUME NEW p \in Proc, NEW i \in HandNo PROVE Held(p, i) = 0
        BY <1>2, <1>3, HandTypes, HeldIs
      <3> QED
        BY <3>1 DEF Hands, HandNo, File
    <2> QED
      BY <1>4, <2>1, FS_EmptySet DEF RefsCounted
  <1>7. pipe = NoPipe
    BY DEF Init
  <1>8. OpenAsFiles
    BY <1>2, <1>4, <1>7 DEF OpenAsFiles, PipeFile, Closing, NoPipe
  <1>9. Ends
    BY <1>2, <1>3, <1>4 DEF Ends, PipeFile, Closing
  <1>10. Bounded
    <2>1. Pending = 0
      BY <1>7, ConstantsAssumption DEF Pending, Uint, NoPipe
    <2> QED
      BY <2>1, ConstantsAssumption DEF Bounded
  <1>11. Callers
    BY <1>2 DEF Callers
  <1> QED
    BY <1>1, <1>5, <1>6, <1>8, <1>9, <1>10, <1>11, CountedParts DEF Inv

LEMMA InvNext == Inv /\ [Next]_vars => Inv'
  <1> SUFFICES ASSUME Inv, [Next]_vars PROVE Inv'
    OBVIOUS
  <1> USE DEF Inv
  <1>1. TypeOK'
    BY TypeStep
  <1>2. RefsCounted' /\ Ends' /\ OpenAsFiles'
    BY RefsStep, EndsStep
  <1>3. FilesCounted'
    BY <1>1, <1>2, CountedParts, PTL
  <1>4. Handy' /\ Callers'
    BY HandyStep, CallersStep
  <1>5. Bounded'
    BY <1>1, BoundedStep
  <1> QED
    BY <1>1, <1>2, <1>3, <1>4, <1>5

LEMMA InvAlways == Spec => []Inv
  BY InvInit, InvNext, PTL DEF Spec

(* A file is allocated exactly as long as descriptors, or calls, refer to it, *)
(* and an end of the pipe is open exactly as long as its file is: through     *)
(* every dup, fork, close, exit and kill, and every failure of pipe().        *)
THEOREM FilesAreCounted == Spec => []FilesCounted
  BY InvAlways, PTL DEF Inv


-----------------------------------------------------------------------------
(* The bytes under way                                                        *)

LEMMA SeqOf ==
  ASSUME NEW k \in Nat, NEW s, NEW d, s = [j \in 1..k |-> d[j]],
         \A j \in 1..k : d[j] \in Byte
  PROVE  s \in Seq(Byte) /\ Len(s) = k /\ \A j \in 1..k : s[j] = d[j]
  <1>1. s \in Seq(Byte)
    BY IsASeq
  <1>2. DOMAIN s = 1..k /\ DOMAIN s = 1..Len(s) /\ Len(s) \in Nat
    BY <1>1, LenProperties
  <1> QED
    BY <1>1, <1>2

BytesAre ==
    pipe.used => /\ InFlight \in Seq(Byte) /\ Len(InFlight) = Pending
                 /\ \A j \in 1..Pending : InFlight[j] = pipe.data[Slot(pipe.nread, j)]

LEMMA InFlightIs ==
  ASSUME TypeOK, Bounded
  PROVE  BytesAre
  <1> SUFFICES ASSUME pipe.used
               PROVE  /\ InFlight \in Seq(Byte) /\ Len(InFlight) = Pending
                      /\ \A j \in 1..Pending : InFlight[j] = pipe.data[Slot(pipe.nread, j)]
    BY DEF BytesAre
  <1>1. Pending \in Nat
    BY DEF Bounded
  <1>2. PICK k \in Nat : k = Pending
    BY <1>1
  <1>3. PICK d : d = [j \in 1..k |-> pipe.data[Slot(pipe.nread, j)]]
    OBVIOUS
  <1>4. \A j \in 1..k : d[j] = pipe.data[Slot(pipe.nread, j)] /\ d[j] \in Byte
    <2>1. ASSUME NEW j \in 1..k PROVE pipe.data[Slot(pipe.nread, j)] \in Byte
      <3>1. j \in 1..UintSize /\ pipe.nread \in Counter
        BY <1>2, ConstantsAssumption DEF Bounded, TypeOK, PipePages
      <3> QED
        BY <3>1, SlotIs DEF TypeOK, PipePages
    <2> QED
      BY <1>3, <2>1
  <1>5. InFlight = [j \in 1..k |-> d[j]]
    BY <1>2, <1>3 DEF InFlight, Slot
  <1> QED
    BY <1>2, <1>4, <1>5, SeqOf

LEMMA NothingInFlight ==
  ASSUME TypeOK, Bounded, ~pipe.used \/ Pending = 0
  PROVE  InFlight = << >>
  <1>1. CASE ~pipe.used
    BY <1>1 DEF InFlight
  <1>2. CASE pipe.used /\ Pending = 0
    <2>1. InFlight \in Seq(Byte) /\ Len(InFlight) = 0
      BY <1>2, InFlightIs DEF BytesAre
    <2> QED
      BY <2>1, EmptySeq
  <1> QED
    BY <1>1, <1>2

LEMMA SameInFlight ==
  ASSUME UNCHANGED <<pipe.used, pipe.nread, pipe.nwrite, pipe.data>>
  PROVE  InFlight' = InFlight
  <1>1. Pending' = Pending
    BY DEF Pending
  <1> QED
    BY <1>1 DEF InFlight

\* The writers' counter from the readers'.
LEMMA WriteFrom ==
  ASSUME TypeOK, Bounded
  PROVE  pipe.nwrite = Uint(pipe.nread + Pending)
  <1>1. pipe.nwrite \in Counter /\ pipe.nread \in Counter /\ UintSize \in Nat
        /\ UintSize > PIPESIZE /\ PIPESIZE \in Nat
    BY ConstantsAssumption DEF TypeOK, PipePages
  <1>2. Pending \in 0..PIPESIZE
    BY DEF Bounded
  <1>3. PICK x \in (-UintSize)..2 * UintSize - 1 : x = pipe.nread + Pending
    BY <1>1, <1>2 DEF Counter
  <1>4. Uint(x) = IF x < 0 THEN x + UintSize ELSE IF x < UintSize THEN x ELSE x - UintSize
    BY Wrapping
  <1> QED
    BY <1>1, <1>2, <1>3, <1>4, PendingIs DEF Counter

LEMMA BytesIn ==
  ASSUME TypeOK, Bounded, pipe.used, NEW s \in Seq(Byte), NEW k \in 0..Len(s),
         k <= PIPESIZE - Pending, TypeOK', Bounded',
         \A j \in 1..k : pipe'.data[Slot(pipe.nwrite, j)] = s[j],
         \A i \in Slots : (\A j \in 1..k : Slot(pipe.nwrite, j) # i) => pipe'.data[i] = pipe.data[i],
         pipe'.nwrite = Uint(pipe.nwrite + k),
         UNCHANGED <<pipe.used, pipe.nread>>
  PROVE  InFlight' = InFlight \o SubSeq(s, 1, k) /\ Len(InFlight') <= PIPESIZE
  <1>1. PIPESIZE \in Nat \ {0} /\ Pending \in 0..PIPESIZE /\ Len(s) \in Nat /\ pipe.nread \in Counter
        /\ UintSize \in Nat /\ UintSize > PIPESIZE
    BY ConstantsAssumption DEF Bounded, TypeOK, PipePages
  <1>2. k \in 0..PIPESIZE /\ k \in Nat /\ Pending' = Pending + k
    BY <1>1, PendingMore
  <1>3. /\ InFlight \in Seq(Byte) /\ Len(InFlight) = Pending
        /\ \A j \in 1..Pending : InFlight[j] = pipe.data[Slot(pipe.nread, j)]
    BY InFlightIs DEF BytesAre
  <1>4. /\ InFlight' \in Seq(Byte) /\ Len(InFlight') = Pending'
        /\ \A j \in 1..Pending' : InFlight'[j] = pipe'.data[Slot(pipe'.nread, j)]
    <2>1. BytesAre'
      BY InFlightIs, PTL
    <2> QED
      BY <2>1 DEF BytesAre
  <1>5. /\ SubSeq(s, 1, k) \in Seq(Byte) /\ Len(SubSeq(s, 1, k)) = k
        /\ \A i \in 1..k : SubSeq(s, 1, k)[i] = s[i]
    <2>1. \A i \in 1..k : s[i] \in Byte
      BY <1>1, ElementOfSeq
    <2>2. /\ SubSeq(s, 1, k) \in Seq(Byte)
          /\ Len(SubSeq(s, 1, k)) = IF 1 <= k THEN k - 1 + 1 ELSE 0
          /\ \A i \in 1..k - 1 + 1 : SubSeq(s, 1, k)[i] = s[1 + i - 1]
      BY <1>2, <2>1, SubSeqProperties
    <2>3. Len(SubSeq(s, 1, k)) = k
      BY <1>2, <2>2
    <2>4. ASSUME NEW i \in 1..k PROVE SubSeq(s, 1, k)[i] = s[i]
      <3>1. i \in 1..k - 1 + 1 /\ 1 + i - 1 = i
        BY <1>2
      <3> QED
        BY <2>2, <3>1
    <2> QED
      BY <2>2, <2>3, <2>4
  <1>6. ASSUME NEW j \in 1..k PROVE Slot(pipe.nwrite, j) = Slot(pipe.nread, Pending + j)
    <2>1. pipe.nwrite = Uint(pipe.nread + Pending)
      BY WriteFrom
    <2>2. j \in 1..PIPESIZE /\ Pending + j <= PIPESIZE
      BY <1>1, <1>2
    <2> QED
      BY <1>1, <2>1, <2>2, SlotFrom
  <1>7. ASSUME NEW j \in 1..Pending PROVE pipe'.data[Slot(pipe.nread, j)] = InFlight[j]
    <2>1. j \in 1..PIPESIZE /\ j \in 1..UintSize
      BY <1>1
    <2>2. Slot(pipe.nread, j) \in Slots
      BY <1>1, <2>1, SlotIs
    <2>3. ASSUME NEW i \in 1..k PROVE Slot(pipe.nwrite, i) # Slot(pipe.nread, j)
      <3>1. Pending + i \in 1..PIPESIZE /\ Pending + i # j
        BY <1>1, <1>2
      <3> QED
        BY <1>1, <1>6, <2>1, <3>1, SlotsDiffer
    <2> QED
      BY <1>3, <2>2, <2>3
  <1>8. ASSUME NEW j \in 1..k PROVE pipe'.data[Slot(pipe.nread, Pending + j)] = s[j]
    BY <1>6
  <1> DEFINE t == InFlight \o SubSeq(s, 1, k)
  <1>9. /\ t \in Seq(Byte) /\ Len(t) = Pending + k
        /\ \A i \in 1..Pending + k : t[i] = IF i <= Pending THEN InFlight[i] ELSE SubSeq(s, 1, k)[i - Pending]
    <2>1. /\ t \in Seq(Byte) /\ Len(t) = Len(InFlight) + Len(SubSeq(s, 1, k))
          /\ \A i \in 1..Len(InFlight) + Len(SubSeq(s, 1, k)) :
                t[i] = IF i <= Len(InFlight) THEN InFlight[i] ELSE SubSeq(s, 1, k)[i - Len(InFlight)]
      <3>1. PICK a \in Seq(Byte), b \in Seq(Byte) : a = InFlight /\ b = SubSeq(s, 1, k)
        BY <1>3, <1>5
      <3>2. /\ a \o b \in Seq(Byte) /\ Len(a \o b) = Len(a) + Len(b)
            /\ \A i \in 1..Len(a) + Len(b) : (a \o b)[i] = IF i <= Len(a) THEN a[i] ELSE b[i - Len(a)]
        BY ConcatProperties
      <3> QED
        BY <3>1, <3>2, Zenon
    <2> HIDE DEF t
    <2> QED
      BY <1>3, <1>5, <2>1
  <1> HIDE DEF t
  <1>10. ASSUME NEW i \in 1..Pending + k PROVE InFlight'[i] = t[i]
    <2>1. InFlight'[i] = pipe'.data[Slot(pipe.nread, i)]
      BY <1>2, <1>4
    <2>2. CASE i <= Pending
      <3>1. i \in 1..Pending
        BY <1>1, <1>2, <2>2
      <3> QED
        BY <1>7, <1>9, <2>1, <2>2, <3>1
    <2>3. CASE i > Pending
      <3>1. PICK j \in 1..k : j = i - Pending
        BY <1>1, <1>2, <2>3
      <3>2. i = Pending + j /\ ~(i <= Pending)
        BY <1>1, <1>2, <2>3, <3>1
      <3>3. t[i] = s[j]
        BY <1>5, <1>9, <3>1, <3>2
      <3> QED
        BY <1>8, <2>1, <3>2, <3>3
    <2> QED
      BY <1>1, <1>2, <2>2, <2>3
  <1>11. InFlight' = t
    BY <1>2, <1>4, <1>9, <1>10, SeqEqual
  <1> QED
    BY <1>1, <1>2, <1>4, <1>11 DEF t

LEMMA BytesOut ==
  ASSUME TypeOK, Bounded, pipe.used, NEW k \in Nat, k <= Pending, TypeOK', Bounded',
         pipe'.nread = Uint(pipe.nread + k),
         UNCHANGED <<pipe.used, pipe.nwrite, pipe.data>>
  PROVE  /\ InFlight' = SubSeq(InFlight, k + 1, Len(InFlight))
         /\ SubSeq(InFlight, 1, k) = [j \in 1..k |-> pipe.data[Slot(pipe.nread, j)]]
  <1>1. PIPESIZE \in Nat \ {0} /\ Pending \in 0..PIPESIZE /\ pipe.nread \in Counter
        /\ UintSize \in Nat /\ UintSize > PIPESIZE
    BY ConstantsAssumption DEF Bounded, TypeOK, PipePages
  <1>2. Pending' = Pending - k
    BY PendingLess
  <1>3. /\ InFlight \in Seq(Byte) /\ Len(InFlight) = Pending
        /\ \A j \in 1..Pending : InFlight[j] = pipe.data[Slot(pipe.nread, j)]
    BY InFlightIs DEF BytesAre
  <1>4. /\ InFlight' \in Seq(Byte) /\ Len(InFlight') = Pending'
        /\ \A j \in 1..Pending' : InFlight'[j] = pipe'.data[Slot(pipe'.nread, j)]
    <2>1. BytesAre'
      BY InFlightIs, PTL
    <2> QED
      BY <2>1 DEF BytesAre
  <1>5. \A i \in 1..Pending : InFlight[i] \in Byte
    BY <1>3, ElementOfSeq
  <1>6. InFlight' = SubSeq(InFlight, k + 1, Len(InFlight))
    <2> DEFINE t == SubSeq(InFlight, k + 1, Pending)
    <2>1. \A i \in k + 1..Pending : InFlight[i] \in Byte
      BY <1>1, <1>5
    <2>2. /\ t \in Seq(Byte) /\ Len(t) = IF k + 1 <= Pending THEN Pending - (k + 1) + 1 ELSE 0
          /\ \A i \in 1..Pending - (k + 1) + 1 : t[i] = InFlight[k + 1 + i - 1]
      <3>1. k + 1 \in Int /\ Pending \in Int
        BY <1>1
      <3> QED
        BY <2>1, <3>1, SubSeqProperties
    <2>3. Len(t) = Pending - k
      BY <1>1, <2>2
    <2>4. ASSUME NEW j \in 1..Pending - k PROVE InFlight'[j] = t[j]
      <3>1. j \in 1..Pending - (k + 1) + 1 /\ k + 1 + j - 1 = k + j /\ k + j \in 1..Pending
        BY <1>1
      <3>2. t[j] = pipe.data[Slot(pipe.nread, k + j)]
        BY <1>3, <2>2, <3>1
      <3>3. Slot(Uint(pipe.nread + k), j) = Slot(pipe.nread, k + j)
        <4>1. k \in 0..PIPESIZE /\ j \in 1..PIPESIZE /\ k + j <= PIPESIZE
          BY <1>1
        <4> QED
          BY <1>1, <4>1, SlotFrom
      <3> QED
        BY <1>2, <1>4, <3>2, <3>3
    <2> QED
      BY <1>2, <1>3, <1>4, <2>2, <2>3, <2>4, SeqEqual
  <1>7. SubSeq(InFlight, 1, k) = [j \in 1..k |-> pipe.data[Slot(pipe.nread, j)]]
    <2> DEFINE t == SubSeq(InFlight, 1, k)
    <2>1. \A i \in 1..k : InFlight[i] \in Byte
      BY <1>1, <1>5
    <2>2. /\ t \in Seq(Byte) /\ Len(t) = IF 1 <= k THEN k - 1 + 1 ELSE 0
          /\ \A i \in 1..k - 1 + 1 : t[i] = InFlight[1 + i - 1]
      BY <2>1, SubSeqProperties
    <2>3. Len(t) = k
      BY <2>2
    <2>4. ASSUME NEW i \in 1..k PROVE t[i] = pipe.data[Slot(pipe.nread, i)]
      <3>1. i \in 1..k - 1 + 1 /\ 1 + i - 1 = i /\ i \in 1..Pending
        BY <1>1
      <3> QED
        BY <1>3, <2>2, <3>1
    <2>5. t \in [1..k -> Byte]
      BY <2>2, <2>3, LenProperties
    <2> HIDE DEF t
    <2>6. t = [j \in 1..k |-> pipe.data[Slot(pipe.nread, j)]]
      BY <2>4, <2>5
    <2> QED
      BY <2>6 DEF t
  <1> QED
    BY <1>6, <1>7


-----------------------------------------------------------------------------
(* Every step is one of the channel                                           *)

Ops == [q \in Proc |-> CallOf(q)]
Outs == [q \in Proc |-> l[q].result]

Step == C!Next \/ UNCHANGED C!vars

LEMMA OpsNext ==
  ASSUME NEW p \in Proc, \A q \in Proc \ {p} : l'[q] = l[q]
  PROVE  /\ Ops' = [Ops EXCEPT ![p] = CallOf(p)'] /\ Outs' = [Outs EXCEPT ![p] = l'[p].result]
         /\ Ops[p] = CallOf(p) /\ Outs[p] = l[p].result
  <1>1. \A q \in Proc \ {p} : CallOf(q)' = CallOf(q)
    BY DEF CallOf
  <1> QED
    BY <1>1 DEF Ops, Outs

LEMMA OpsSame ==
  ASSUME NEW p \in Proc, \A q \in Proc \ {p} : l'[q] = l[q]
  PROVE  /\ CallOf(p)' = CallOf(p) => Ops' = Ops
         /\ l'[p].result = l[p].result => Outs' = Outs
  <1>1. \A q \in Proc \ {p} : CallOf(q)' = CallOf(q)
    BY DEF CallOf
  <1> QED
    BY <1>1 DEF Ops, Outs

LEMMA NoCall ==
  ASSUME NEW p \in Proc
  PROVE  /\ l[p].pc \notin {"write", "read"} => CallOf(p) = C!Idle
         /\ l'[p].pc \notin {"write", "read"} => CallOf(p)' = C!Idle
  BY DEF CallOf, C!Idle

LEMMA HoldersNext ==
  ASSUME NEW w, NEW p \in Proc, \A q \in Proc \ {p} : Holds(q, w)' <=> Holds(q, w)
  PROVE  /\ (Holds(p, w)' <=> Holds(p, w)) => Holders(w)' = Holders(w)
         /\ (Holds(p, w)' => Holds(p, w)) => Holders(w)' \in {Holders(w), Holders(w) \ {p}}
  <1>1. Holders(w) \subseteq Proc /\ Holders(w)' \subseteq Proc
    BY DEF Holders
  <1>2. \A q \in Proc : /\ q \in Holders(w) <=> Holds(q, w)
                        /\ q \in Holders(w)' <=> Holds(q, w)'
    BY HoldersAre, HoldersAreNext
  <1> QED
    BY <1>1, <1>2

LEMMA SameHolders ==
  ASSUME Inv, [Next]_vars, ofile' = ofile, NEW w
  PROVE  Holders(w)' = Holders(w)
  <1>1. \A q \in Proc : Holds(q, w)' <=> Holds(q, w)
    BY HoldsKept DEF Inv
  <1>2. Holders(w) \subseteq Proc /\ Holders(w)' \subseteq Proc
    BY DEF Holders
  <1> QED
    BY <1>1, <1>2, HoldersAre, HoldersAreNext

\* Nobody has an end that is closed, and without the page there is none.
Unheld ==
    /\ \A w \in BOOLEAN : ~(IF w THEN pipe.writeopen ELSE pipe.readopen) => Holders(w) = {}
    /\ ~pipe.used => Holders(TRUE) = {} /\ Holders(FALSE) = {}

LEMMA NoEnds == Inv => Unheld
  <1> SUFFICES ASSUME Inv PROVE Unheld
    OBVIOUS
  <1>1. OpenAsFiles /\ Ends
    BY CountedParts DEF Inv
  <1>2. ASSUME NEW w \in BOOLEAN, ~(IF w THEN pipe.writeopen ELSE pipe.readopen)
        PROVE  Holders(w) = {}
    <2>1. \A f \in File : ~PipeFile(f, w)
      BY <1>1, <1>2 DEF OpenAsFiles
    <2>2. \A p \in Proc : ~Holds(p, w)
      BY <2>1 DEF Holds, Inv, TypeOK
    <2>3. Holders(w) \subseteq Proc
      BY DEF Holders
    <2> QED
      BY <2>2, <2>3, HoldersAre
  <1>3. ~pipe.used => ~pipe.readopen /\ ~pipe.writeopen
    BY <1>1 DEF OpenAsFiles
  <1> QED
    BY <1>2, <1>3 DEF Unheld


LEMMA ChannelSame ==
  ASSUME Ops' = Ops, Outs' = Outs, InFlight' = InFlight, killed' = killed,
         Holders(TRUE)' = Holders(TRUE), Holders(FALSE)' = Holders(FALSE)
  PROVE  UNCHANGED C!vars
  BY DEF C!vars, Ops, Outs

\* A call that is not one on the pipe forgets, or keeps, what was returned.
LEMMA ChannelDrop ==
  ASSUME NEW p \in Proc, \A q \in Proc \ {p} : l'[q] = l[q],
         l[p].pc \notin {"write", "read"}, l'[p].pc \notin {"write", "read"},
         l'[p].result = New.result,
         \A w \in BOOLEAN : Holders(w)' \in {Holders(w), Holders(w) \ {p}},
         InFlight' = InFlight, killed' = killed
  PROVE  C!Drop(p)
  <1>1. CallOf(p) = C!Idle /\ CallOf(p)' = C!Idle
    BY NoCall
  <1>2. Ops' = Ops /\ Ops[p] = C!Idle
    BY <1>1, OpsSame, OpsNext
  <1>3. Outs' = [Outs EXCEPT ![p] = [is |-> "none", bytes |-> << >>]]
    BY OpsNext DEF New, User
  <1> QED
    BY <1>2, <1>3 DEF C!Drop, C!Forgotten, C!Result, Ops, Outs

LEMMA StepOf ==
  ASSUME NEW p \in Proc,
         \/ C!Make(p) \/ C!Drop(p) \/ C!Kill(p) \/ C!Reap(p) \/ C!Call(p) \/ C!Write(p) \/ C!Read(p)
         \/ C!Discard \/ (\E c \in Proc : C!Fork(p, c)) \/ UNCHANGED C!vars
  PROVE  Step
  BY DEF Step, C!Next

LEMMA StepCall ==
  ASSUME Inv, Inv', [Next]_vars, NEW p \in Proc, sys_write(p) \/ sys_read(p)
  PROVE  C!Call(p)
  <1>1. l[p].pc = "user" /\ ofile' = ofile /\ pipe' = pipe /\ killed' = killed
    BY DEF sys_write, sys_read, MayCall, At
  <1>2. Holders(TRUE)' = Holders(TRUE) /\ Holders(FALSE)' = Holders(FALSE) /\ InFlight' = InFlight
    BY <1>1, SameHolders, SameInFlight
  <1>3. CASE sys_write(p)
    <2>1. PICK s \in Writes : l' = [l EXCEPT ![p] = [New EXCEPT !.pc = "write", !.rest = s]]
      BY <1>3 DEF sys_write, Local
    <2>2. l'[p] = [New EXCEPT !.pc = "write", !.rest = s] /\ \A q \in Proc \ {p} : l'[q] = l[q]
      BY <2>1, SetTo DEF Inv
    <2>3. l'[p].pc = "write" /\ l'[p].rest = s /\ l'[p].result = [is |-> "none", bytes |-> << >>]
      BY <2>2 DEF New, User
    <2>4. CallOf(p)' = [op |-> "write", rest |-> s] /\ CallOf(p) = C!Idle
      BY <1>1, <2>3 DEF CallOf, C!Idle
    <2>5. p \in Holders(TRUE)
      BY <1>2, <2>3, HoldersAreNext DEF Inv, Callers
    <2>6. /\ Ops[p] = C!Idle /\ Ops' = [Ops EXCEPT ![p] = [op |-> "write", rest |-> s]]
          /\ Outs' = [Outs EXCEPT ![p] = [is |-> "none", bytes |-> << >>]]
      BY <2>2, <2>3, <2>4, OpsNext
    <2> QED
      BY <1>1, <1>2, <2>5, <2>6 DEF C!Call, C!Forgotten, C!Result, Ops, Outs
  <1>4. CASE sys_read(p)
    <2>1. PICK n \in Reads : l' = [l EXCEPT ![p] = [New EXCEPT !.pc = "read", !.n = n]]
      BY <1>4 DEF sys_read, Local
    <2>2. l'[p] = [New EXCEPT !.pc = "read", !.n = n] /\ \A q \in Proc \ {p} : l'[q] = l[q]
      BY <2>1, SetTo DEF Inv
    <2>3. l'[p].pc = "read" /\ l'[p].n = n /\ l'[p].result = [is |-> "none", bytes |-> << >>]
      BY <2>2 DEF New, User
    <2>4. CallOf(p)' = [op |-> "read", n |-> n] /\ CallOf(p) = C!Idle
      BY <1>1, <2>3 DEF CallOf, C!Idle
    <2>5. p \in Holders(FALSE)
      BY <1>2, <2>3, HoldersAreNext DEF Inv, Callers
    <2>6. /\ Ops[p] = C!Idle /\ Ops' = [Ops EXCEPT ![p] = [op |-> "read", n |-> n]]
          /\ Outs' = [Outs EXCEPT ![p] = [is |-> "none", bytes |-> << >>]]
      BY <2>2, <2>3, <2>4, OpsNext
    <2> QED
      BY <1>1, <1>2, <2>5, <2>6 DEF C!Call, C!Forgotten, C!Result, Ops, Outs
  <1> QED
    BY <1>3, <1>4

LEMMA StepExit ==
  ASSUME Inv, [Next]_vars, NEW p \in Proc, exit(p)
  PROVE  C!Drop(p)
  <1>1. l[p].pc = "user" /\ UNCHANGED <<ofile, pipe, killed>>
    BY DEF exit, At
  <1>2. Holders(TRUE)' = Holders(TRUE) /\ Holders(FALSE)' = Holders(FALSE) /\ InFlight' = InFlight
    BY <1>1, SameHolders, SameInFlight
  <1>3. l'[p] = [New EXCEPT !.pc = "exit", !.exiting = TRUE] /\ \A q \in Proc \ {p} : l'[q] = l[q]
    BY SetTo DEF exit, Local, Inv
  <1>4. l'[p].pc = "exit" /\ l'[p].result = New.result
    BY <1>3 DEF New, User
  <1>5. \A w \in BOOLEAN : Holders(w)' \in {Holders(w), Holders(w) \ {p}}
    BY <1>2
  <1> QED
    BY <1>1, <1>2, <1>3, <1>4, <1>5, ChannelDrop

LEMMA StepZombie ==
  ASSUME Inv, [Next]_vars, NEW p \in Proc, zombie(p)
  PROVE  C!Reap(p)
  <1>1. l[p].pc = "exit" /\ UNCHANGED <<ofile, pipe>> /\ killed' = killed \ {p}
    BY DEF zombie, At
  <1>2. Holders(TRUE)' = Holders(TRUE) /\ Holders(FALSE)' = Holders(FALSE) /\ InFlight' = InFlight
    BY <1>1, SameHolders, SameInFlight
  <1>3. l'[p] = New /\ \A q \in Proc \ {p} : l'[q] = l[q]
    BY SetTo DEF zombie, Local, Inv
  <1>4. l'[p].pc = "user" /\ l'[p].result = l[p].result
    BY <1>1, <1>3 DEF New, User, Inv, Handy
  <1>5. Ops' = Ops /\ Outs' = Outs
    BY <1>1, <1>3, <1>4, OpsSame, NoCall
  <1>6. \A w \in BOOLEAN : p \notin Holders(w)
    <2>1. \A fd \in Fd : ofile[p][fd] = 0
      BY DEF zombie, FreeFds
    <2> QED
      BY <2>1, HoldersAre DEF Holds
  <1> QED
    BY <1>1, <1>2, <1>5, <1>6 DEF C!Reap, Ops, Outs

LEMMA StepPipe ==
  ASSUME Inv, [Next]_vars, NEW p \in Proc, sys_pipe(p)
  PROVE  C!Drop(p)
  <1>1. l[p].pc = "user" /\ UNCHANGED <<ofile, pipe, killed>>
    BY DEF sys_pipe, MayCall, At
  <1>2. Holders(TRUE)' = Holders(TRUE) /\ Holders(FALSE)' = Holders(FALSE) /\ InFlight' = InFlight
    BY <1>1, SameHolders, SameInFlight
  <1>3. PICK f \in File : l' = [l EXCEPT ![p] = [New EXCEPT !.pc = "pipealloc", !.f0 = f]]
    BY DEF sys_pipe, Local, FreeFiles
  <1>4. l'[p] = [New EXCEPT !.pc = "pipealloc", !.f0 = f] /\ \A q \in Proc \ {p} : l'[q] = l[q]
    BY <1>3, SetTo DEF Inv
  <1>5. l'[p].pc = "pipealloc" /\ l'[p].result = New.result
    BY <1>4 DEF New, User
  <1>6. \A w \in BOOLEAN : Holders(w)' \in {Holders(w), Holders(w) \ {p}}
    BY <1>2
  <1> QED
    BY <1>1, <1>2, <1>4, <1>5, <1>6, ChannelDrop

\* A descriptor more for the same file.
LEMMA StepDup ==
  ASSUME Inv, [Next]_vars, NEW p \in Proc, sys_dup(p)
  PROVE  C!Drop(p)
  <1>1. PICK from \in Fd, to \in Fd :
          ofile[p][from] # 0 /\ ofile[p][to] = 0 /\ ofile' = [ofile EXCEPT ![p][to] = ofile[p][from]]
    BY DEF sys_dup, FreeFds
  <1>2. l[p].pc = "user" /\ UNCHANGED <<pipe, killed>> /\ l' = [l EXCEPT ![p] = New]
    BY DEF sys_dup, MayCall, At, Local
  <1>3. l'[p] = New /\ \A q \in Proc \ {p} : l'[q] = l[q]
    BY <1>2, SetTo DEF Inv
  <1>4. l'[p].pc = "user" /\ l'[p].result = New.result
    BY <1>3 DEF New, User
  <1>5. ASSUME NEW w \in BOOLEAN PROVE Holders(w)' \in {Holders(w), Holders(w) \ {p}}
    <2>1. \A q \in Proc \ {p} : ofile'[q] = ofile[q]
      BY <1>1 DEF Inv, TypeOK
    <2>2. \A q \in Proc \ {p} : Holds(q, w)' <=> Holds(q, w)
      BY <2>1, HoldsKept DEF Inv
    <2>3. Holds(p, w)' => Holds(p, w)
      <3>1. ASSUME NEW fd \in Fd, ofile'[p][fd] # 0, PipeFile(ofile[p][fd], w)' PROVE Holds(p, w)
        <4>1. PICK i \in Fd : ofile'[p][fd] = ofile[p][i]
          BY <1>1 DEF Inv, TypeOK
        <4>2. /\ file'[ofile[p][i]].type = file[ofile[p][i]].type
              /\ file'[ofile[p][i]].writable = file[ofile[p][i]].writable
          BY <3>1, <4>1, FilesKept DEF Inv
        <4>3. ofile[p][i] # 0 /\ PipeFile(ofile[p][i], w)
          BY <3>1, <4>1, <4>2 DEF PipeFile
        <4> QED
          BY <4>3 DEF Holds
      <3> QED
        BY <3>1 DEF Holds
    <2> QED
      BY <2>2, <2>3, HoldersNext
  <1> QED
    BY <1>2, <1>3, <1>4, <1>5, SameInFlight, ChannelDrop

LEMMA StepClose ==
  ASSUME Inv, [Next]_vars, NEW p \in Proc, sys_close(p) \/ exit_close(p)
  PROVE  C!Drop(p)
  <1>1. PICK fd \in Fd : Dropping(p, fd)
    BY Drops DEF Inv
  <1>2. l[p].pc \in {"user", "exit"} /\ UNCHANGED <<file, pipe, killed>>
    BY Drops DEF Inv
  <1>3. ASSUME NEW w \in BOOLEAN PROVE Holders(w)' \in {Holders(w), Holders(w) \ {p}}
    <2>1. \A q \in Proc \ {p} : ofile'[q] = ofile[q]
      BY <1>1 DEF Inv, TypeOK, Dropping
    <2>2. \A q \in Proc \ {p} : Holds(q, w)' <=> Holds(q, w)
      BY <2>1, HoldsKept DEF Inv
    <2>3. \A i \in Fd : ofile'[p][i] = ofile[p][i] \/ ofile'[p][i] = 0
      BY <1>1 DEF Inv, TypeOK, Dropping
    <2>4. Holds(p, w)' => Holds(p, w)
      BY <1>2, <2>3 DEF Holds, PipeFile
    <2> QED
      BY <2>2, <2>4, HoldersNext
  <1> QED
    BY <1>1, <1>2, <1>3, SameInFlight, ChannelDrop DEF Dropping


LEMMA StepFileclose ==
  ASSUME Inv, [Next]_vars, NEW p \in Proc, fileclose(p)
  PROVE  UNCHANGED C!vars
  <1>1. l[p].pc = "close" /\ UNCHANGED <<pipe, ofile, killed>>
    BY FileClose DEF Inv
  <1>2. Holders(TRUE)' = Holders(TRUE) /\ Holders(FALSE)' = Holders(FALSE) /\ InFlight' = InFlight
    BY <1>1, SameHolders, SameInFlight
  <1>3. /\ l'[p].pc \notin {"write", "read"} /\ l'[p].result = l[p].result
        /\ \A q \in Proc \ {p} : l'[q] = l[q]
    <2>1. \/ /\ l'[p].pc = "pipeclose" /\ l'[p].result = l[p].result
             /\ \A q \in Proc \ {p} : l'[q] = l[q]
          \/ Local(p, Closed(p))
      BY FileClose DEF Inv
    <2>2. Local(p, Closed(p)) => /\ l'[p].pc \in {"close", "exit", "user"} /\ l'[p].result = l[p].result
                                 /\ \A q \in Proc \ {p} : l'[q] = l[q]
      BY ClosedIs DEF Inv
    <2> QED
      BY <2>1, <2>2
  <1>4. Ops' = Ops /\ Outs' = Outs
    BY <1>1, <1>3, OpsSame, NoCall
  <1> QED
    BY <1>1, <1>2, <1>4, ChannelSame

LEMMA StepPipeclose ==
  ASSUME Inv, Inv', [Next]_vars, NEW p \in Proc, pipeclose(p)
  PROVE  C!Discard \/ UNCHANGED C!vars
  <1>1. l[p].pc = "pipeclose" /\ UNCHANGED <<ofile, killed>> /\ Local(p, Closed(p))
    BY DEF pipeclose, At
  <1>2. Holders(TRUE)' = Holders(TRUE) /\ Holders(FALSE)' = Holders(FALSE)
    BY <1>1, SameHolders
  <1>3. /\ l'[p].pc \notin {"write", "read"} /\ l'[p].result = l[p].result
        /\ \A q \in Proc \ {p} : l'[q] = l[q]
    BY <1>1, ClosedIs DEF Inv
  <1>4. Ops' = Ops /\ Outs' = Outs
    BY <1>1, <1>3, OpsSame, NoCall
  <1>5. UNCHANGED <<pipe.nread, pipe.nwrite, pipe.data>>
    BY DEF pipeclose, Inv, TypeOK, PipePages
  <1>6. CASE ~pipe'.used
    <2>1. Unheld'
      BY NoEnds, PTL
    <2>2. Holders(TRUE)' = {} /\ Holders(FALSE)' = {}
      BY <1>6, <2>1 DEF Unheld
    <2>3. InFlight' = << >>
      BY <1>6 DEF InFlight
    <2> QED
      BY <1>1, <1>2, <1>4, <2>2, <2>3 DEF C!Discard, Ops, Outs
  <1>7. CASE pipe'.used
    <2>1. pipe'.used /\ pipe.used /\ pipe'.used \in BOOLEAN /\ pipe.used \in BOOLEAN
      <3>1. pipe'.used => pipe.readopen \/ pipe.writeopen
        BY DEF pipeclose, Inv, TypeOK, PipePages
      <3>2. OpenAsFiles
        BY CountedParts DEF Inv
      <3> QED
        BY <1>7, <3>1, <3>2 DEF OpenAsFiles, Inv, TypeOK, PipePages
    <2>2. InFlight' = InFlight
      BY <1>5, <2>1, SameInFlight
    <2> QED
      BY <1>1, <1>2, <1>4, <2>2, ChannelSame
  <1> QED
    BY <1>6, <1>7

LEMMA StepSleep ==
  ASSUME Inv, [Next]_vars, NEW p \in Proc, sleep(p)
  PROVE  UNCHANGED C!vars
  <1>1. UNCHANGED <<l, ofile, killed, pipe.used, pipe.nread, pipe.nwrite, pipe.data>>
    BY DEF sleep, Inv, TypeOK, PipePages
  <1>2. Holders(TRUE)' = Holders(TRUE) /\ Holders(FALSE)' = Holders(FALSE) /\ InFlight' = InFlight
    BY <1>1, SameHolders, SameInFlight
  <1>3. Ops' = Ops /\ Outs' = Outs
    BY <1>1 DEF Ops, Outs, CallOf
  <1> QED
    BY <1>1, <1>2, <1>3, ChannelSame

LEMMA StepKill ==
  ASSUME Inv, [Next]_vars, NEW p \in Proc, kill(p)
  PROVE  C!Kill(p)
  <1>1. UNCHANGED <<l, ofile, pipe>> /\ killed' = killed \union {p}
    BY DEF kill
  <1>2. Holders(TRUE)' = Holders(TRUE) /\ Holders(FALSE)' = Holders(FALSE) /\ InFlight' = InFlight
    BY <1>1, SameHolders, SameInFlight
  <1>3. Ops' = Ops /\ Outs' = Outs
    BY <1>1 DEF Ops, Outs, CallOf
  <1> QED
    BY <1>1, <1>2, <1>3 DEF C!Kill, Ops, Outs

LEMMA StepFork ==
  ASSUME Inv, [Next]_vars, NEW p \in Proc, NEW c \in Proc, fork(p, c)
  PROVE  C!Fork(p, c)
  <1>1. /\ p # c /\ l[p].pc = "user" /\ UNCHANGED <<pipe, killed>>
        /\ l'[p] = New /\ \A q \in Proc \ {p} : l'[q] = l[q]
        /\ \A fd \in Fd : ofile[c][fd] = 0
        /\ ofile'[c] = ofile[p] /\ \A q \in Proc \ {c} : ofile'[q] = ofile[q]
    BY Fork DEF Inv
  <1>2. InFlight' = InFlight
    BY <1>1, SameInFlight
  <1>3. l'[p].pc = "user" /\ l'[p].result = [is |-> "none", bytes |-> << >>]
    BY <1>1 DEF New, User
  <1>4. Ops' = Ops
    BY <1>1, <1>3, OpsSame, NoCall
  <1>5. Outs' = [Outs EXCEPT ![p] = [is |-> "none", bytes |-> << >>]]
    BY <1>1, <1>3, OpsNext
  <1>6. ASSUME NEW w \in BOOLEAN
        PROVE  /\ c \notin Holders(w)
               /\ Holders(w)' = IF p \in Holders(w) THEN Holders(w) \union {c} ELSE Holders(w)
    <2>1. \A q \in Proc \ {c} : Holds(q, w)' <=> Holds(q, w)
      BY <1>1, HoldsKept DEF Inv
    <2>2. ~Holds(c, w)
      BY <1>1 DEF Holds
    <2>3. Holds(c, w)' <=> Holds(p, w)
      <3>1. ASSUME NEW fd \in Fd, ofile[p][fd] # 0
            PROVE  PipeFile(ofile[c][fd], w)' <=> PipeFile(ofile[p][fd], w)
        <4>1. /\ file'[ofile[p][fd]].type = file[ofile[p][fd]].type
              /\ file'[ofile[p][fd]].writable = file[ofile[p][fd]].writable
          BY <3>1, FilesKept DEF Inv
        <4> QED
          BY <1>1, <4>1 DEF PipeFile
      <3> QED
        BY <1>1, <3>1 DEF Holds
    <2>4. Holders(w) \subseteq Proc /\ Holders(w)' \subseteq Proc
      BY DEF Holders
    <2>5. \A q \in Proc : /\ q \in Holders(w) <=> Holds(q, w)
                          /\ q \in Holders(w)' <=> Holds(q, w)'
      BY HoldersAre, HoldersAreNext
    <2> QED
      BY <2>1, <2>2, <2>3, <2>4, <2>5
  <1> QED
    BY <1>1, <1>2, <1>4, <1>5, <1>6 DEF C!Fork, C!Forgotten, C!Result, Ops, Outs

\* p holds both ends, and nobody else any.
LEMMA Made ==
  ASSUME Inv, Inv', [Next]_vars, NEW p \in Proc, NEW rf \in File, NEW wf \in File,
         rf # wf, ~pipe.used,
         file'[rf] = [ref |-> 1, type |-> "pipe", writable |-> FALSE],
         file'[wf] = [ref |-> 1, type |-> "pipe", writable |-> TRUE],
         NEW r \in FreeFds(p), NEW w \in FreeFds(p), r # w,
         ofile' = [ofile EXCEPT ![p][r] = rf, ![p][w] = wf]
  PROVE  Holders(FALSE)' = {p} /\ Holders(TRUE)' = {p}
  <1>1. Holders(FALSE) = {} /\ Holders(TRUE) = {}
    BY NoEnds DEF Unheld
  <1>2. \A q \in Proc \ {p} : ofile'[q] = ofile[q]
    BY DEF Inv, TypeOK
  <1>3. ASSUME NEW q \in Proc \ {p}, NEW v \in BOOLEAN PROVE q \notin Holders(v)'
    <2>1. q \notin Holders(v)
      BY <1>1
    <2>2. ~Holds(q, v)
      BY <2>1, HoldersAre
    <2>3. ~Holds(q, v)'
      BY <1>2, <2>2, HoldsKept DEF Inv
    <2> QED
      BY <2>3, HoldersAreNext
  <1>4. r \in Fd /\ w \in Fd /\ ofile'[p][r] = rf /\ ofile'[p][w] = wf /\ rf # 0 /\ wf # 0
    BY DEF Inv, TypeOK, FreeFds, File
  <1>5. Holds(p, FALSE)' /\ Holds(p, TRUE)'
    <2>1. PipeFile(ofile[p][r], FALSE)'
      BY <1>4 DEF PipeFile
    <2>2. PipeFile(ofile[p][w], TRUE)'
      BY <1>4 DEF PipeFile
    <2> QED
      BY <1>4, <2>1, <2>2 DEF Holds
  <1>6. p \in Holders(FALSE)' /\ p \in Holders(TRUE)'
    BY <1>5, HoldersAreNext
  <1>7. Holders(FALSE)' \subseteq Proc /\ Holders(TRUE)' \subseteq Proc
    BY DEF Holders
  <1> QED
    BY <1>3, <1>6, <1>7

LEMMA StepPipealloc ==
  ASSUME Inv, Inv', [Next]_vars, NEW p \in Proc, pipealloc(p)
  PROVE  C!Make(p) \/ UNCHANGED C!vars
  <1>1. l[p].pc = "pipealloc" /\ killed' = killed /\ file[l[p].f0].ref = 1
    BY Pipealloc DEF Inv
  <1>2. PICK rf \in File : rf = l[p].f0 /\ l[p].result = New.result
    BY <1>1 DEF Inv, Handy
  <1>3. ASSUME NEW g, Local(p, Close(rf, g)) \/ Local(p, New)
        PROVE  Ops' = Ops /\ Outs' = Outs
    <2>1. (l'[p] = Close(rf, g) \/ l'[p] = New) /\ \A q \in Proc \ {p} : l'[q] = l[q]
      BY <1>3, SetTo DEF Local, Inv
    <2>2. Close(rf, g).pc = "close" /\ New.pc = "user" /\ Close(rf, g).result = New.result
      BY DEF Close, New, User
    <2>3. l'[p].pc \notin {"write", "read"} /\ l'[p].result = l[p].result
      BY <1>2, <2>1, <2>2
    <2> QED
      BY <1>1, <2>1, <2>3, OpsSame, NoCall
  <1>4. ASSUME NEW g, Local(p, Close(rf, g)), UNCHANGED <<pipe, ofile>>
        PROVE  UNCHANGED C!vars
    <2>1. Holders(TRUE)' = Holders(TRUE) /\ Holders(FALSE)' = Holders(FALSE) /\ InFlight' = InFlight
      BY <1>4, SameHolders, SameInFlight
    <2> QED
      BY <1>1, <1>3, <1>4, <2>1, ChannelSame
  <1>5. ASSUME NEW wf \in File, wf # rf, Page(p, wf) PROVE C!Make(p) \/ UNCHANGED C!vars
    <2>1. /\ file'[rf] = [ref |-> 1, type |-> "pipe", writable |-> FALSE]
          /\ file'[wf] = [ref |-> 1, type |-> "pipe", writable |-> TRUE]
      BY <1>2, <1>5 DEF Page, Inv, TypeOK
    <2>2. ~pipe.used /\ pipe'.nread = 0 /\ pipe'.nwrite = 0
      BY <1>5 DEF Page, Inv, TypeOK, PipePages
    <2>3. InFlight = << >> /\ InFlight' = << >>
      <3>1. Pending' = 0
        BY <2>2, ConstantsAssumption DEF Pending, Uint
      <3>2. InFlight' = << >>
        <4>1. (TypeOK /\ Bounded /\ Pending = 0 => InFlight = << >>)'
          BY NothingInFlight, PTL
        <4> QED
          BY <3>1, <4>1 DEF Inv
      <3> QED
        BY <2>2, <3>2 DEF InFlight
    <2>4. Ops' = Ops /\ Outs' = Outs
      BY <1>2, <1>3, <1>5 DEF Page
    <2>5. Holders(FALSE) = {} /\ Holders(TRUE) = {}
      BY <2>2, NoEnds DEF Unheld
    <2>6. CASE ofile' = ofile
      BY <1>1, <2>3, <2>4, <2>6, SameHolders, ChannelSame
    <2>7. ASSUME NEW r \in FreeFds(p), NEW w \in FreeFds(p), r # w,
                 ofile' = [ofile EXCEPT ![p][r] = rf, ![p][w] = wf]
          PROVE  C!Make(p)
      <3>1. Holders(FALSE)' = {p} /\ Holders(TRUE)' = {p}
        BY <1>5, <2>1, <2>2, <2>7, Made
      <3> QED
        BY <1>1, <2>3, <2>4, <2>5, <3>1 DEF C!Make, Ops, Outs
    <2> QED
      BY <1>2, <1>5, <2>6, <2>7 DEF Page
  <1> QED
    BY <1>2, <1>4, <1>5, Pipealloc DEF NoPage, Inv


\* Who is in a call has an end, so the pipe has its page.
LEMMA CallersPage ==
  ASSUME Inv, NEW p \in Proc
  PROVE  l[p].pc \in {"write", "read"} => pipe.used
  <1>1. CASE l[p].pc = "write"
    <2>1. p \in Holders(TRUE)
      BY <1>1, HoldersAre DEF Inv, Callers
    <2> QED
      BY <2>1, NoEnds DEF Unheld
  <1>2. CASE l[p].pc = "read"
    <2>1. p \in Holders(FALSE)
      BY <1>2, HoldersAre DEF Inv, Callers
    <2> QED
      BY <2>1, NoEnds DEF Unheld
  <1> QED
    BY <1>1, <1>2

\* How a write of the channel goes on, or ends.
LEMMA ChannelWrites ==
  ASSUME NEW p \in Proc, Ops[p].op = "write",
         NEW s, s = Ops[p].rest, NEW k \in 0..Len(s),
         NEW left, left = SubSeq(s, k + 1, Len(s)),
         InFlight' = InFlight \o SubSeq(s, 1, k), Len(InFlight') <= PIPESIZE,
         Holders(TRUE)' = Holders(TRUE), Holders(FALSE)' = Holders(FALSE), killed' = killed,
         \/ Ops' = [Ops EXCEPT ![p].rest = left] /\ Outs' = Outs
         \/ /\ left = << >> /\ Ops' = [Ops EXCEPT ![p] = C!Idle]
            /\ Outs' = [Outs EXCEPT ![p] = C!Result("written", << >>)]
         \/ /\ Holders(FALSE) = {} \/ p \in killed
            /\ Ops' = [Ops EXCEPT ![p] = C!Idle]
            /\ Outs' = [Outs EXCEPT ![p] = C!Result("error", << >>)]
  PROVE  C!Write(p)
  <1> DEFINE Goes(j) ==
        LET rest == SubSeq(Ops[p].rest, j + 1, Len(Ops[p].rest)) IN
        /\ InFlight' = InFlight \o SubSeq(Ops[p].rest, 1, j)
        /\ Len(InFlight') <= PIPESIZE
        /\ \/ Ops' = [Ops EXCEPT ![p].rest = rest] /\ UNCHANGED Outs
           \/ /\ rest = << >>
              /\ Ops' = [Ops EXCEPT ![p] = C!Idle]
              /\ Outs' = [Outs EXCEPT ![p] = C!Result("written", << >>)]
           \/ /\ Holders(FALSE) = {} \/ p \in killed
              /\ Ops' = [Ops EXCEPT ![p] = C!Idle]
              /\ Outs' = [Outs EXCEPT ![p] = C!Result("error", << >>)]
  <1>1. Goes(k)
    OBVIOUS
  <1>2. k \in 0..Len(Ops[p].rest)
    OBVIOUS
  <1>3. \E j \in 0..Len(Ops[p].rest) : Goes(j)
    BY <1>1, <1>2
  <1> QED
    BY <1>3, Zenon DEF C!Write, C!Return, Ops, Outs

\* How a read of the channel ends.
LEMMA ChannelReads ==
  ASSUME NEW p \in Proc, Ops[p].op = "read", NEW is, NEW s,
         Ops' = [Ops EXCEPT ![p] = C!Idle], Outs' = [Outs EXCEPT ![p] = C!Result(is, s)],
         Holders(TRUE)' = Holders(TRUE), Holders(FALSE)' = Holders(FALSE), killed' = killed,
         \/ /\ is = "read"
            /\ \E k \in 1..Ops[p].n :
                 /\ k <= Len(InFlight)
                 /\ InFlight' = SubSeq(InFlight, k + 1, Len(InFlight))
                 /\ s = SubSeq(InFlight, 1, k)
         \/ /\ InFlight = << >> /\ InFlight' = InFlight /\ s = << >>
            /\ \/ is = "read" /\ Holders(TRUE) = {}
               \/ is = "error" /\ p \in killed
  PROVE  C!Read(p)
  <1> DEFINE Comes(k) ==
        /\ k <= Len(InFlight)
        /\ InFlight' = SubSeq(InFlight, k + 1, Len(InFlight))
        /\ Ops' = [Ops EXCEPT ![p] = C!Idle]
        /\ Outs' = [Outs EXCEPT ![p] = C!Result("read", SubSeq(InFlight, 1, k))]
      Stops(why, allowed) ==
        allowed /\ Ops' = [Ops EXCEPT ![p] = C!Idle] /\ Outs' = [Outs EXCEPT ![p] = C!Result(why, << >>)]
  <1>1. \/ \E k \in 1..Ops[p].n : Comes(k)
        \/ /\ InFlight = << >>
           /\ Stops("read", Holders(TRUE) = {}) \/ Stops("error", p \in killed)
           /\ InFlight' = InFlight
    OBVIOUS
  <1> QED
    BY <1>1, Zenon DEF C!Read, C!Return, Ops, Outs

LEMMA StepWrite ==
  ASSUME Inv, Inv', [Next]_vars, NEW p \in Proc, pipewrite(p)
  PROVE  C!Write(p)
  <1>1. PICK k \in 0..Len(l[p].rest) : k <= PIPESIZE - Pending /\ Fills(p, k) /\ Wrote(p, k)
    BY PipeWrite DEF Inv
  <1>2. l[p].pc = "write" /\ ofile' = ofile /\ killed' = killed
    BY PipeWrite DEF Inv
  <1>3. PICK s \in Seq(Byte) : s = l[p].rest
    BY DEF Inv, TypeOK, Locals
  <1>4. Holders(TRUE)' = Holders(TRUE) /\ Holders(FALSE)' = Holders(FALSE)
    BY <1>2, SameHolders
  <1>5. pipe.used
    BY <1>2, CallersPage
  <1>6. InFlight' = InFlight \o SubSeq(s, 1, k) /\ Len(InFlight') <= PIPESIZE
    BY <1>1, <1>3, <1>5, BytesIn DEF Fills, Inv
  <1>7. Ops[p] = [op |-> "write", rest |-> s]
    BY <1>2, <1>3 DEF Ops, CallOf
  <1>8. PICK left : left = SubSeq(s, k + 1, Len(s))
    OBVIOUS
  <1>9. ASSUME NEW is, l' = [l EXCEPT ![p] = User(is, << >>)]
        PROVE  /\ Ops' = [Ops EXCEPT ![p] = C!Idle]
               /\ Outs' = [Outs EXCEPT ![p] = [is |-> is, bytes |-> << >>]]
    <2>1. l'[p] = User(is, << >>) /\ \A q \in Proc \ {p} : l'[q] = l[q]
      BY <1>9, SetTo DEF Inv
    <2>2. l'[p].pc = "user" /\ l'[p].result = [is |-> is, bytes |-> << >>]
      BY <2>1 DEF User
    <2>3. CallOf(p)' = C!Idle
      BY <2>2, NoCall
    <2> QED
      BY <2>1, <2>2, <2>3, OpsNext
  <1>10. \/ Ops' = [Ops EXCEPT ![p] = [op |-> "write", rest |-> left]] /\ Outs' = Outs
         \/ /\ left = << >> /\ Ops' = [Ops EXCEPT ![p] = C!Idle]
            /\ Outs' = [Outs EXCEPT ![p] = [is |-> "written", bytes |-> << >>]]
         \/ /\ Holders(FALSE) = {} \/ p \in killed
            /\ Ops' = [Ops EXCEPT ![p] = C!Idle]
            /\ Outs' = [Outs EXCEPT ![p] = [is |-> "error", bytes |-> << >>]]
    <2>1. CASE Rests(p, k) = << >> /\ l' = [l EXCEPT ![p] = User("written", << >>)]
      BY <1>3, <1>8, <1>9, <2>1 DEF Rests
    <2>2. CASE (~pipe.readopen \/ p \in killed) /\ l' = [l EXCEPT ![p] = User("error", << >>)]
      <3>1. ~pipe.readopen => Holders(FALSE) = {}
        BY NoEnds DEF Unheld
      <3> QED
        BY <1>9, <2>2, <3>1
    <2>3. CASE l' = [l EXCEPT ![p] = [l[p] EXCEPT !.rest = Rests(p, k)]]
      <3>1. l'[p] = [l[p] EXCEPT !.rest = Rests(p, k)] /\ \A q \in Proc \ {p} : l'[q] = l[q]
        BY <2>3, SetTo DEF Inv
      <3>2. l'[p].pc = "write" /\ l'[p].rest = left /\ l'[p].result = l[p].result
        <4>1. l[p] \in Locals
          BY DEF Inv, TypeOK
        <4> QED
          BY <1>2, <1>3, <1>8, <3>1, <4>1 DEF Locals, Rests
      <3>3. CallOf(p)' = [op |-> "write", rest |-> left]
        BY <3>2 DEF CallOf
      <3> QED
        BY <3>1, <3>2, <3>3, OpsNext, OpsSame
    <2> QED
      BY <1>1, <2>1, <2>2, <2>3 DEF Wrote
  <1>11. [Ops EXCEPT ![p].rest = left] = [Ops EXCEPT ![p] = [op |-> "write", rest |-> left]]
    <2>1. [Ops[p] EXCEPT !.rest = left] = [op |-> "write", rest |-> left]
      BY <1>7
    <2> QED
      BY <2>1
  <1>12. Ops[p].op = "write" /\ s = Ops[p].rest /\ k \in 0..Len(s)
    BY <1>3, <1>7
  <1>13. \/ Ops' = [Ops EXCEPT ![p].rest = left] /\ Outs' = Outs
         \/ /\ left = << >> /\ Ops' = [Ops EXCEPT ![p] = C!Idle]
            /\ Outs' = [Outs EXCEPT ![p] = C!Result("written", << >>)]
         \/ /\ Holders(FALSE) = {} \/ p \in killed
            /\ Ops' = [Ops EXCEPT ![p] = C!Idle]
            /\ Outs' = [Outs EXCEPT ![p] = C!Result("error", << >>)]
    BY <1>10, <1>11, Zenon DEF C!Result
  <1> QED
    BY <1>2, <1>4, <1>6, <1>8, <1>12, <1>13, ChannelWrites, Zenon

LEMMA StepRead ==
  ASSUME Inv, Inv', [Next]_vars, NEW p \in Proc, piperead(p)
  PROVE  C!Read(p) \/ UNCHANGED C!vars
  <1>1. l[p].pc = "read" /\ UNCHANGED <<ofile, killed, pipe.used, pipe.nwrite, pipe.data>>
    BY PipeRead DEF Inv
  <1>2. Holders(TRUE)' = Holders(TRUE) /\ Holders(FALSE)' = Holders(FALSE)
    BY <1>1, SameHolders
  <1>3. pipe.used
    BY <1>1, CallersPage
  <1>4. PICK n \in Nat : n = l[p].n /\ n # 0
    <2>1. l[p].n \in Nat
      BY DEF Inv, TypeOK, Locals
    <2>2. l[p].n # 0
      BY <1>1 DEF Inv, Callers
    <2> QED
      BY <2>1, <2>2
  <1>5. Ops[p].op = "read" /\ Ops[p].n = n
    BY <1>1, <1>4 DEF Ops, CallOf
  <1>6. ASSUME NEW is, NEW s, l' = [l EXCEPT ![p] = User(is, s)]
        PROVE  /\ Ops' = [Ops EXCEPT ![p] = C!Idle]
               /\ Outs' = [Outs EXCEPT ![p] = [is |-> is, bytes |-> s]]
    <2>1. l'[p] = User(is, s) /\ \A q \in Proc \ {p} : l'[q] = l[q]
      BY <1>6, SetTo DEF Inv
    <2>2. l'[p].pc = "user" /\ l'[p].result = [is |-> is, bytes |-> s]
      BY <2>1 DEF User
    <2>3. CallOf(p)' = C!Idle
      BY <2>2, NoCall
    <2> QED
      BY <2>1, <2>2, <2>3, OpsNext
  <1>7. CASE pipe'.nread = pipe.nread /\ l' = l
    <2>1. InFlight' = InFlight
      BY <1>1, <1>7, SameInFlight
    <2>2. Ops' = Ops /\ Outs' = Outs
      BY <1>7 DEF Ops, Outs, CallOf
    <2> QED
      BY <1>1, <1>2, <2>1, <2>2, ChannelSame
  <1>8. CASE Pending = 0 /\ p \in killed /\ pipe' = pipe /\ l' = [l EXCEPT ![p] = User("error", << >>)]
    <2>1. InFlight = << >> /\ InFlight' = InFlight
      BY <1>8, NothingInFlight, SameInFlight DEF Inv
    <2>2. /\ Ops' = [Ops EXCEPT ![p] = C!Idle]
          /\ Outs' = [Outs EXCEPT ![p] = [is |-> "error", bytes |-> << >>]]
      BY <1>6, <1>8
    <2> QED
      BY <1>1, <1>2, <1>5, <1>8, <2>1, <2>2, ChannelReads DEF C!Result
  <1>9. ASSUME NEW k \in Nat, k <= l[p].n, k <= Pending, k = 0 => l[p].n = 0 \/ Pending = 0,
               Pending # 0 \/ ~pipe.writeopen,
               pipe'.nread = Uint(pipe.nread + k), Got(p, k)
        PROVE  C!Read(p)
    <2>1. Ops' = [Ops EXCEPT ![p] = C!Idle]
      BY <1>6, <1>9 DEF Got
    <2>2. CASE k = 0
      <3>1. Pending = 0 /\ ~pipe.writeopen
        BY <1>4, <1>9, <2>2
      <3>2. Holders(TRUE) = {}
        BY <3>1, NoEnds DEF Unheld
      <3>3. InFlight = << >>
        BY <3>1, NothingInFlight DEF Inv
      <3>4. pipe'.nread = pipe.nread
        <4>1. pipe.nread \in Counter /\ UintSize \in Nat
          BY ConstantsAssumption DEF Inv, TypeOK, PipePages
        <4>2. PICK x \in (-UintSize)..2 * UintSize - 1 : x = pipe.nread + k /\ x = pipe.nread
          BY <2>2, <4>1 DEF Counter
        <4> QED
          BY <1>9, <4>1, <4>2, Wrapping DEF Counter
      <3>5. InFlight' = InFlight
        BY <1>1, <3>4, SameInFlight
      <3>6. [j \in 1..k |-> pipe.data[Slot(pipe.nread, j)]] = << >>
        <4>1. SubSeq(InFlight, 1, k) = [j \in 1..k |-> pipe.data[Slot(pipe.nread, j)]]
          BY <1>1, <1>3, <1>9, BytesOut DEF Inv
        <4>2. SubSeq(InFlight, 1, k) = << >>
          BY <2>2, SubSeqEmpty
        <4> QED
          BY <4>1, <4>2
      <3>7. Outs' = [Outs EXCEPT ![p] = [is |-> "read", bytes |-> << >>]]
        BY <1>6, <1>9, <3>6 DEF Got
      <3> QED
        BY <1>1, <1>2, <1>5, <2>1, <3>2, <3>3, <3>5, <3>7, ChannelReads DEF C!Result
    <2>3. CASE k # 0
      <3>1. /\ InFlight' = SubSeq(InFlight, k + 1, Len(InFlight))
            /\ SubSeq(InFlight, 1, k) = [j \in 1..k |-> pipe.data[Slot(pipe.nread, j)]]
        BY <1>1, <1>3, <1>9, BytesOut DEF Inv
      <3>2. Outs' = [Outs EXCEPT ![p] = [is |-> "read", bytes |-> SubSeq(InFlight, 1, k)]]
        BY <1>6, <1>9, <3>1 DEF Got
      <3>3. k \in 1..n /\ k <= Len(InFlight)
        <4>1. Len(InFlight) = Pending
          BY <1>3, InFlightIs DEF BytesAre, Inv
        <4> QED
          BY <1>4, <1>9, <2>3, <4>1
      <3> QED
        BY <1>1, <1>2, <1>5, <2>1, <3>1, <3>2, <3>3, ChannelReads DEF C!Result
    <2> QED
      BY <2>2, <2>3
  <1>10. \/ Pending = 0 /\ p \in killed /\ pipe' = pipe /\ l' = [l EXCEPT ![p] = User("error", << >>)]
         \/ pipe'.nread = pipe.nread /\ l' = l
         \/ \E k \in Nat :
              /\ k <= l[p].n /\ k <= Pending /\ (k = 0 => l[p].n = 0 \/ Pending = 0)
              /\ Pending # 0 \/ ~pipe.writeopen
              /\ pipe'.nread = Uint(pipe.nread + k)
              /\ Got(p, k)
    BY PipeRead DEF Inv
  <1> QED
    BY <1>7, <1>8, <1>9, <1>10

LEMMA ChannelInit == Init => C!Init
  <1> SUFFICES ASSUME Init PROVE C!Init
    OBVIOUS
  <1>1. Inv
    BY InvInit
  <1>2. InFlight = << >>
    BY DEF Init, NoPipe, InFlight
  <1>3. Holders(TRUE) = {} /\ Holders(FALSE) = {} /\ killed = {}
    <2>1. ~pipe.used
      BY DEF Init, NoPipe
    <2> QED
      BY <1>1, <2>1, NoEnds DEF Unheld, Init
  <1>4. \A p \in Proc : l[p].pc = "user" /\ l[p].result = [is |-> "none", bytes |-> << >>]
    BY DEF Init, New, User
  <1>5. Ops = [p \in Proc |-> C!Idle] /\ Outs = [p \in Proc |-> [is |-> "none", bytes |-> << >>]]
    BY <1>4, NoCall DEF Ops, Outs
  <1> QED
    BY <1>2, <1>3, <1>5 DEF C!Init, C!Result, Ops, Outs

LEMMA ChannelStep == Inv /\ Inv' /\ [Next]_vars => [C!Next]_(C!vars)
  <1> SUFFICES ASSUME Inv, Inv', [Next]_vars PROVE Step
    BY DEF Step
  <1>1. ASSUME NEW p \in Proc,
               \/ sys_pipe(p) \/ sys_dup(p) \/ sys_close(p) \/ sys_write(p) \/ sys_read(p)
               \/ kill(p) \/ exit(p) \/ \E c \in Proc : fork(p, c)
        PROVE  Step
    BY <1>1, StepPipe, StepDup, StepClose, StepCall, StepKill, StepExit, StepFork, StepOf
  <1>2. ASSUME NEW p \in Proc, Finish(p) PROVE Step
    BY <1>2, StepPipealloc, StepFileclose, StepPipeclose, StepWrite, StepRead, StepSleep,
       StepClose, StepZombie, StepOf DEF Finish
  <1>3. CASE UNCHANGED vars
    <2>1. Ops' = Ops /\ Outs' = Outs /\ InFlight' = InFlight /\ killed' = killed
      BY <1>3, SameInFlight DEF vars, Ops, Outs, CallOf
    <2>2. Holders(TRUE)' = Holders(TRUE) /\ Holders(FALSE)' = Holders(FALSE)
      BY <1>3, SameHolders DEF vars
    <2> QED
      BY <2>1, <2>2, ChannelSame DEF Step
  <1> QED
    BY <1>1, <1>2, <1>3 DEF Next

(* Bytes come out once and in order, the end is reported when every byte was  *)
(* read and nobody can write, and a write fails only when nobody can read or  *)
(* the writer was killed: for any size of the buffer and of its counters,     *)
(* which run over, and any number of processes.                               *)
THEOREM PipesAreChannels == Spec => ImplementsChannel
  BY InvAlways, ChannelInit, ChannelStep, PTL DEF Spec, ImplementsChannel, C!Spec
=============================================================================

---------------------------- MODULE InodesProof ----------------------------
(* Theorems about Inodes for any number of processes, inodes and names: the   *)
(* references and links are counted, and no inode is freed under a user.      *)
EXTENDS Inodes, FiniteSetTheorems, SequenceTheorems, TLAPS

LEMMA Constants ==
  /\ username \in [Proc -> User] /\ Root \in User
  /\ Ninodes \in Nat \ {0} /\ ROOTINO \in Inum /\ Inum \subseteq Nat \ {0} /\ IsFiniteSet(Inum)
  /\ IsFiniteSet(Proc) /\ IsFiniteSet(Name) /\ None \notin Proc
  /\ DefaultFile \in Mode /\ DefaultDir \in Mode /\ {} \in Mode
  <1>1. Ninodes \in Nat \ {0}
    BY ConstantsAssumption DEF ConstantsAssumption
  <1>2. IsFiniteSet(Inum)
    BY <1>1, FS_Interval DEF Inum
  <1> QED
    BY <1>1, <1>2, ConstantsAssumption DEF ConstantsAssumption, Inum, ROOTINO, Mode, DefaultFile, DefaultDir

-----------------------------------------------------------------------------
(* Counting the pointers of one process and those of the others.              *)

One(b) == IF b THEN 1 ELSE 0

LEMMA CountTo ==
  ASSUME NEW S, NEW k \in Nat
  PROVE  /\ IsFiniteSet({x \in 1..k : x \in S})
         /\ Cardinality({x \in 1..k + 1 : x \in S})
              = Cardinality({x \in 1..k : x \in S}) + One(k + 1 \in S)
  <1> DEFINE A == {x \in 1..k : x \in S}
             B == {x \in 1..k + 1 : x \in S}
  <1>1. IsFiniteSet(1..k)
    BY FS_Interval
  <1>2. IsFiniteSet(A)
    BY <1>1, FS_Subset
  <1>3. CASE k + 1 \in S
    <2>1. B = A \union {k + 1} /\ k + 1 \notin A
      BY <1>3
    <2> QED
      BY <1>2, <1>3, <2>1, FS_AddElement DEF One
  <1>4. CASE k + 1 \notin S
    <2>1. B = A
      BY <1>4
    <2>2. Cardinality(A) \in Nat
      BY <1>2, FS_CardinalityType
    <2> QED
      BY <1>2, <1>4, <2>1, <2>2 DEF One
  <1> QED
    BY <1>3, <1>4

LEMMA CountSix ==
  ASSUME NEW S
  PROVE  /\ IsFiniteSet({x \in 1..6 : x \in S})
         /\ Cardinality({x \in 1..6 : x \in S})
              = One(1 \in S) + One(2 \in S) + One(3 \in S) + One(4 \in S) + One(5 \in S) + One(6 \in S)
  <1> DEFINE C(k) == Cardinality({x \in 1..k : x \in S})
  <1>0. C(0) = 0
    <2>1. {x \in 1..0 : x \in S} = {}
      OBVIOUS
    <2> QED
      BY <2>1, FS_EmptySet
  <1>a. \A b : One(b) \in Int
    BY DEF One
  <1>1. C(0 + 1) = C(0) + One(0 + 1 \in S)
    BY CountTo
  <1>2. C(1 + 1) = C(1) + One(1 + 1 \in S)
    BY CountTo
  <1>3. C(2 + 1) = C(2) + One(2 + 1 \in S)
    BY CountTo
  <1>4. C(3 + 1) = C(3) + One(3 + 1 \in S)
    BY CountTo
  <1>5. C(4 + 1) = C(4) + One(4 + 1 \in S)
    BY CountTo
  <1>6. C(5 + 1) = C(5) + One(5 + 1 \in S)
    BY CountTo
  <1>7. IsFiniteSet({x \in 1..6 : x \in S})
    BY CountTo
  <1>8. C(1) = One(1 \in S) /\ C(2) = C(1) + One(2 \in S) /\ C(3) = C(2) + One(3 \in S)
        /\ C(4) = C(3) + One(4 \in S) /\ C(5) = C(4) + One(5 \in S) /\ C(6) = C(5) + One(6 \in S)
    <2> HIDE DEF C
    <2> QED
      BY <1>0, <1>a, <1>1, <1>2, <1>3, <1>4, <1>5, <1>6
  <1> QED
    BY <1>7, <1>8, <1>a

Tally(p, i) ==
    One(cwd[p] = i) + One(fd[p] = i) + One(l[p].ip = i)
        + One(l[p].dp = i) + One(l[p].old = i) + One(l[p].drop = i)
OfOthers(p, i) == {pk \in (Proc \ {p}) \X (1..6) : Pointers(pk[1])[pk[2]] = i}

LEMMA PointsSplit ==
  \A p \in Proc, i \in Inum :
     /\ IsFiniteSet(Points(i)) /\ Cardinality(OfOthers(p, i)) \in Nat
     /\ Cardinality(Points(i)) = Cardinality(OfOthers(p, i)) + Tally(p, i)
  <1> SUFFICES ASSUME NEW p \in Proc, NEW i \in Inum
               PROVE  /\ IsFiniteSet(Points(i)) /\ Cardinality(OfOthers(p, i)) \in Nat
                      /\ Cardinality(Points(i)) = Cardinality(OfOthers(p, i)) + Tally(p, i)
    OBVIOUS
  <1> DEFINE S == {k \in 1..6 : Pointers(p)[k] = i}
             M == {k \in 1..6 : k \in S}
             Mine == {p} \X M
  <1>1. IsFiniteSet(M) /\ Cardinality(M) =
           One(1 \in S) + One(2 \in S) + One(3 \in S) + One(4 \in S) + One(5 \in S) + One(6 \in S)
    <2> HIDE DEF S
    <2> QED
      BY CountSix
  <1>2. Cardinality(M) = Tally(p, i)
    BY <1>1 DEF Tally, Pointers
  <1>3. IsFiniteSet({p}) /\ Cardinality({p}) = 1
    BY FS_Singleton
  <1>4. IsFiniteSet(Mine) /\ Cardinality(Mine) = Cardinality(M)
    <2>1. IsFiniteSet(Mine) /\ Cardinality(Mine) = Cardinality({p}) * Cardinality(M)
      <3> HIDE DEF M
      <3> QED
        BY <1>1, <1>3, FS_Product
    <2>2. Cardinality(M) \in Nat
      BY <1>1, FS_CardinalityType
    <2> QED
      BY <1>3, <2>1, <2>2
  <1>5. IsFiniteSet(OfOthers(p, i)) /\ Cardinality(OfOthers(p, i)) \in Nat
    <2>0. IsFiniteSet(Proc)
      BY Constants
    <2>1. IsFiniteSet(Proc \ {p})
      BY <2>0, FS_RemoveElement
    <2>3. IsFiniteSet(1..6)
      <3>1. IsFiniteSet({x \in 1..6 : x \in Nat}) /\ {x \in 1..6 : x \in Nat} = 1..6
        BY CountSix
      <3> QED
        BY <3>1
    <2>2. IsFiniteSet((Proc \ {p}) \X (1..6))
      <3>1. \A U, V : IsFiniteSet(U) /\ IsFiniteSet(V) => IsFiniteSet(U \X V)
        BY FS_Product
      <3> QED
        BY <2>1, <2>3, <3>1
    <2>4. IsFiniteSet(OfOthers(p, i))
      BY <2>2, FS_Subset DEF OfOthers
    <2> QED
      BY <2>4, FS_CardinalityType
  <1>6. Points(i) = OfOthers(p, i) \union Mine
    BY DEF Points, OfOthers
  <1>7. OfOthers(p, i) \intersect Mine = {}
    BY DEF OfOthers
  <1>8. IsFiniteSet(Points(i))
        /\ Cardinality(Points(i)) = Cardinality(OfOthers(p, i)) + Cardinality(Mine)
    <2> HIDE DEF Mine
    <2>1. Cardinality({}) = 0
      BY FS_EmptySet
    <2>2. Cardinality(Mine) \in Nat
      BY <1>4, FS_CardinalityType
    <2>3. /\ IsFiniteSet(OfOthers(p, i) \union Mine)
          /\ Cardinality(OfOthers(p, i) \union Mine) =
                Cardinality(OfOthers(p, i)) + Cardinality(Mine) - Cardinality(OfOthers(p, i) \intersect Mine)
      BY <1>4, <1>5, FS_Union
    <2>4. /\ IsFiniteSet(Points(i))
          /\ Cardinality(Points(i)) = Cardinality(OfOthers(p, i)) + Cardinality(Mine) - 0
      BY <1>6, <1>7, <2>1, <2>3
    <2> QED
      BY <1>5, <2>2, <2>4
  <1> QED
    BY <1>2, <1>4, <1>5, <1>8

LEMMA PointsSplitNext ==
  (\A p \in Proc, i \in Inum :
     /\ IsFiniteSet(Points(i)) /\ Cardinality(OfOthers(p, i)) \in Nat
     /\ Cardinality(Points(i)) = Cardinality(OfOthers(p, i)) + Tally(p, i))'
  BY PointsSplit, PTL

\* What a step of p does to the pointers and the count of an inode.
LEMMA RefsStep ==
  ASSUME TypeOK, TypeOK', OnlyChmodLeaks, NEW p \in Proc,
         \A q \in Proc \ {p} : l'[q] = l[q] /\ cwd'[q] = cwd[q] /\ fd'[q] = fd[q],
         \A i \in Inum : ref'[i] - leaked'[i] - Tally(p, i)' = ref[i] - leaked[i] - Tally(p, i)
  PROVE  OnlyChmodLeaks'
  <1> SUFFICES ASSUME NEW i \in Inum PROVE ref'[i] = Cardinality(Points(i))' + leaked'[i]
    BY DEF OnlyChmodLeaks
  <1>1. OfOthers(p, i)' = OfOthers(p, i)
    BY DEF OfOthers, Pointers
  <1>2. Cardinality(Points(i)) = Cardinality(OfOthers(p, i)) + Tally(p, i)
        /\ Cardinality(OfOthers(p, i)) \in Nat
    BY PointsSplit
  <1>4. Cardinality(Points(i))' = Cardinality(OfOthers(p, i)) + Tally(p, i)'
    <2>1. Cardinality(Points(i))' = Cardinality(OfOthers(p, i))' + Tally(p, i)'
      BY PointsSplitNext
    <2>2. Cardinality(OfOthers(p, i))' = Cardinality(OfOthers(p, i))
      BY <1>1
    <2> QED
      BY <2>1, <2>2
  <1>5. ref[i] = Cardinality(Points(i)) + leaked[i]
    BY DEF OnlyChmodLeaks
  <1>6. Tally(p, i) \in Int /\ Tally(p, i)' \in Int
    BY DEF Tally, One
  <1>7. ref[i] \in Int /\ ref'[i] \in Int /\ leaked[i] \in Int /\ leaked'[i] \in Int
    BY DEF TypeOK
  <1>8. \A c \in Nat, t, u \in Int :
           /\ ref[i] = c + t + leaked[i]
           /\ ref'[i] - leaked'[i] - u = ref[i] - leaked[i] - t
           => ref'[i] = c + u + leaked'[i]
    BY <1>7
  <1> QED
    BY <1>2, <1>4, <1>5, <1>6, <1>8

\* A pointer to an inode is counted.
LEMMA PointedIsReferred ==
  ASSUME TypeOK, OnlyChmodLeaks, NEW p \in Proc, NEW i \in Inum
  PROVE  /\ i \in {cwd[p], fd[p], l[p].ip, l[p].dp, l[p].old, l[p].drop} => ref[i] >= 1
         /\ l[p].drop = i /\ ref[i] = 1 =>
               /\ i \notin {cwd[p], fd[p], l[p].ip, l[p].dp, l[p].old}
               /\ \A q \in Proc \ {p} : i \notin {cwd[q], fd[q], l[q].ip, l[q].dp, l[q].old, l[q].drop}
  <1>1. /\ IsFiniteSet(Points(i)) /\ Cardinality(OfOthers(p, i)) \in Nat
        /\ Cardinality(Points(i)) = Cardinality(OfOthers(p, i)) + Tally(p, i)
    BY PointsSplit
  <1>2. ref[i] = Cardinality(Points(i)) + leaked[i] /\ leaked[i] \in Nat
    BY DEF OnlyChmodLeaks, TypeOK
  <1>3. i \in {cwd[p], fd[p], l[p].ip, l[p].dp, l[p].old, l[p].drop} => Tally(p, i) >= 1
    BY DEF Tally, One
  <1>4. l[p].drop = i /\ i \in {cwd[p], fd[p], l[p].ip, l[p].dp, l[p].old} => Tally(p, i) >= 2
    BY DEF Tally, One
  <1>5. Tally(p, i) \in Int
    BY DEF Tally, One
  <1>6. ASSUME l[p].drop = i, ref[i] = 1, NEW q \in Proc \ {p},
               i \in {cwd[q], fd[q], l[q].ip, l[q].dp, l[q].old, l[q].drop}
        PROVE  FALSE
    <2>1. \E k \in 1..6 : Pointers(q)[k] = i
      BY <1>6 DEF Pointers
    <2>2. PICK k \in 1..6 : Pointers(q)[k] = i
      BY <2>1
    <2>3. <<q, k>> \in OfOthers(p, i)
      BY <2>2 DEF OfOthers
    <2>4. Cardinality(OfOthers(p, i)) = 0
      BY <1>1, <1>2, <1>3, <1>5, <1>6
    <2>5. IsFiniteSet(OfOthers(p, i))
      <3>1. OfOthers(p, i) \in SUBSET Points(i)
        BY DEF OfOthers, Points
      <3> QED
        BY <1>1, <3>1, FS_Subset
    <2> QED
      BY <2>3, <2>4, <2>5, FS_EmptySet
  <1> QED
    BY <1>1, <1>2, <1>3, <1>4, <1>5, <1>6

-----------------------------------------------------------------------------
(* Counting links.                                                            *)

LEMMA NamedBy ==
  ASSUME NEW d \in Inum, NEW n \in Name
  PROVE  <<d, n>> \in Names(dirent[d][n])
  BY DEF Names

LEMMA LinksFinite ==
  \A i \in Inum : /\ IsFiniteSet(Names(i)) /\ Cardinality(Names(i)) \in Nat
                  /\ IsFiniteSet(Subdirs(i)) /\ Cardinality(Subdirs(i)) \in Nat
                  /\ IsFiniteSet(Owed(i)) /\ Cardinality(Owed(i)) \in Nat
  <1> SUFFICES ASSUME NEW i \in Inum
               PROVE  /\ IsFiniteSet(Names(i)) /\ Cardinality(Names(i)) \in Nat
                      /\ IsFiniteSet(Subdirs(i)) /\ Cardinality(Subdirs(i)) \in Nat
                      /\ IsFiniteSet(Owed(i)) /\ Cardinality(Owed(i)) \in Nat
    OBVIOUS
  <1>1. IsFiniteSet(Inum \X Name)
    BY Constants, FS_Product
  <1>2. Names(i) \in SUBSET (Inum \X Name) /\ Subdirs(i) \in SUBSET Name /\ Owed(i) \in SUBSET Proc
    BY DEF Names, Subdirs, Owed
  <1>3. IsFiniteSet(Names(i)) /\ IsFiniteSet(Subdirs(i)) /\ IsFiniteSet(Owed(i))
    BY <1>1, <1>2, Constants, FS_Subset
  <1> QED
    BY <1>3, FS_CardinalityType

LEMMA LinksFiniteNext ==
  (\A i \in Inum : /\ IsFiniteSet(Names(i)) /\ Cardinality(Names(i)) \in Nat
                   /\ IsFiniteSet(Subdirs(i)) /\ Cardinality(Subdirs(i)) \in Nat
                   /\ IsFiniteSet(Owed(i)) /\ Cardinality(Owed(i)) \in Nat)'
  BY LinksFinite, PTL

\* Who has no links has no name, no subdirectory and is not owed a link.
LEMMA NoLinks ==
  ASSUME TypeOK, LinksOwed, NEW i \in Inum, nlink[i] = 0
  PROVE  i # ROOTINO /\ Names(i) = {} /\ Subdirs(i) = {} /\ Owed(i) = {}
  <1>1. nlink[i] >= Links(i) + Cardinality(Owed(i))
    BY LinksFinite DEF LinksOwed, TypeOK, Links
  <1>2. i # ROOTINO /\ Cardinality(Names(i)) = 0 /\ Cardinality(Subdirs(i)) = 0 /\ Cardinality(Owed(i)) = 0
    BY <1>1, LinksFinite DEF Links
  <1> QED
    BY <1>2, LinksFinite, FS_EmptySet

Owes(f, i) == One((f.old = i /\ StageOf(f) # "linked") \/ (StageOf(f) = "unlinked" /\ f.ip = i))

LEMMA OwedStep ==
  ASSUME NEW p \in Proc, NEW f, NEW i \in Inum, \A q \in Proc : l'[q] = IF q = p THEN f ELSE l[q]
  PROVE  Cardinality(Owed(i))' = Cardinality(Owed(i)) + Owes(f, i) - Owes(l[p], i)
  <1>1. \A q \in Proc : l'[q] = IF q = p THEN f ELSE l[q]
    OBVIOUS
  <1>2. Owed(i)' = {q \in Proc : \/ l'[q].old = i /\ StageOf(l'[q]) # "linked"
                                 \/ StageOf(l'[q]) = "unlinked" /\ l'[q].ip = i}
    BY DEF Owed, Stage
  <1> DEFINE B(g) == (g.old = i /\ StageOf(g) # "linked") \/ (StageOf(g) = "unlinked" /\ g.ip = i)
  <1>3. \A q \in Proc \ {p} : q \in Owed(i)' <=> q \in Owed(i)
    BY <1>1, <1>2 DEF Owed, Stage
  <1>4. (p \in Owed(i)' <=> B(f)) /\ (p \in Owed(i) <=> B(l[p]))
    BY <1>1, <1>2 DEF Owed, Stage
  <1>5. Owed(i)' \subseteq Proc /\ Owed(i) \subseteq Proc
    BY DEF Owed
  <1>6. IsFiniteSet(Owed(i)) /\ Cardinality(Owed(i)) \in Nat
    BY LinksFinite
  <1>7. CASE B(f) /\ ~B(l[p])
    <2>1. Owed(i)' = Owed(i) \union {p} /\ p \notin Owed(i)
      BY <1>3, <1>4, <1>5, <1>7
    <2>2. Cardinality(Owed(i))' = Cardinality(Owed(i)) + 1
      BY <1>6, <2>1, FS_AddElement
    <2> QED
      BY <1>6, <1>7, <2>2 DEF Owes, One
  <1>8. CASE ~B(f) /\ B(l[p])
    <2>1. Owed(i)' = Owed(i) \ {p} /\ p \in Owed(i)
      BY <1>3, <1>4, <1>5, <1>8
    <2>2. Cardinality(Owed(i))' = Cardinality(Owed(i)) - 1
      BY <1>6, <2>1, FS_RemoveElement
    <2> QED
      BY <1>6, <1>8, <2>2 DEF Owes, One
  <1>9. CASE B(f) <=> B(l[p])
    <2>1. Owed(i)' = Owed(i)
      BY <1>3, <1>4, <1>5, <1>9
    <2> QED
      BY <1>6, <1>9, <2>1 DEF Owes, One
  <1> QED
    BY <1>7, <1>8, <1>9

-----------------------------------------------------------------------------
(* A step that leaves the entries and types alone.                            *)

LEMMA UsedByFields ==
  UsedInodesAllocated <=>
    \A i \in Inum : type[i] = "free" =>
        /\ \A p \in Proc : i \notin {cwd[p], fd[p], l[p].ip, l[p].dp, l[p].old}
        /\ \A p \in Proc : l[p].drop = i => l[p].pc = "unref"
        /\ \A d \in Inum, n \in Name : dirent[d][n] # i
  <1>1. \A p \in Proc, i \in Inum :
           (\A k \in 1..5 : Pointers(p)[k] # i) <=> i \notin {cwd[p], fd[p], l[p].ip, l[p].dp, l[p].old}
    BY DEF Pointers
  <1> QED
    BY <1>1 DEF UsedInodesAllocated

LEMMA UsedByFieldsNext ==
  (UsedInodesAllocated <=>
    \A i \in Inum : type[i] = "free" =>
        /\ \A p \in Proc : i \notin {cwd[p], fd[p], l[p].ip, l[p].dp, l[p].old}
        /\ \A p \in Proc : l[p].drop = i => l[p].pc = "unref"
        /\ \A d \in Inum, n \in Name : dirent[d][n] # i)'
  BY UsedByFields, PTL

\* What p may refer to: what it does already, the root, and what has a name.
Known(p, i) ==
    \/ i \in {ROOTINO, cwd[p], fd[p], l[p].ip, l[p].dp, l[p].old}
    \/ \E d \in Inum, n \in Name : dirent[d][n] = i

LEMMA KnownIsUsed ==
  ASSUME TypeOK, FileSystem, NEW p \in Proc, NEW i \in Inum, Known(p, i)
  PROVE  type[i] # "free" /\ \A q \in Proc \ {p} : Stage(q) = "newborn" => l[q].ip # i
  <1>1. nlink[ROOTINO] # 0
    BY NoLinks, Constants DEF FileSystem
  <1>2. type[i] # "free"
    BY <1>1, UsedByFields DEF Known, FileSystem, EntriesInPlace
  <1>3. ASSUME NEW q \in Proc \ {p}, Stage(q) = "newborn", l[q].ip = i PROVE FALSE
    <2>1. Private(q, i)
      BY <1>3 DEF FileSystem, Found
    <2> QED
      BY <1>1, <2>1 DEF Known, Private
  <1> QED
    BY <1>2, <1>3

\* p goes on with the locals f: it keeps the locks of the others, enters names
\* only into a directory nobody else has locked, refers to nothing but what is in
\* use, and has seen what Found says of f.
Moves(p, f) ==
    /\ f \in Locals /\ Shaped(f) /\ l' = [l EXCEPT ![p] = f] /\ type' = type
    /\ \A q \in Proc \ {p} : cwd'[q] = cwd[q] /\ fd'[q] = fd[q]
    /\ \A i \in Inum, q \in Proc \ {p} : lock[i] = q => lock'[i] = q
    /\ StageOf(f) # "newborn"
    /\ StageOf(f) \in {"victim", "unlinkbad", "linkbad"} => lock'[f.dp] = p
    /\ StageOf(f) \in {"created", "unlinked"} => lock'[f.ip] = p
    /\ \A i \in Inum : i \in {cwd'[p], fd'[p], f.ip, f.dp, f.old} => Known(p, i)
    /\ f.pc = "iput" => Known(p, f.drop)
    /\ StageOf(f) = "victim" => dirent'[f.dp][f.name] = f.ip
    /\ StageOf(f) = "unlinked" => dirent'[f.ip] = Blank[f.ip]
    /\ f.dp # 0 => type[f.dp] = "dir"
    /\ f.old # 0 => type[f.old] = "file"
    /\ \A d \in Inum : dirent'[d] # dirent[d] => d = l[p].dp /\ lock[d] \notin Proc \ {p}
    /\ \A d \in Inum, n \in Name :
           dirent'[d][n] # dirent[d][n] => dirent'[d][n] = 0 \/ Known(p, dirent'[d][n])
    /\ \A i \in Inum : nlink'[i] # nlink[i] => Known(p, i)
    /\ \A i \in Inum : ref'[i] - leaked'[i] - Tally(p, i)' = ref[i] - leaked[i] - Tally(p, i)

LEMMA MovesStep ==
  ASSUME TypeOK, TypeOK', FileSystem, NEW p \in Proc, NEW f, Moves(p, f)
  PROVE  /\ LocalsShaped' /\ LocksHeld' /\ Found' /\ OnlyChmodLeaks' /\ UsedInodesAllocated'
         /\ \A i \in Inum : type'[i] = "free" => nlink'[i] = 0
         /\ \A i \in Inum : type'[i] # "dir" => dirent'[i] = Blank[i]
  <1> USE DEF Moves
  <1>0. \A q \in Proc : l'[q] = IF q = p THEN f ELSE l[q]
    BY DEF TypeOK
  <1>r. OnlyChmodLeaks'
    BY <1>0, RefsStep DEF FileSystem
  <1>p. \A q \in Proc : Stage(q)' = IF q = p THEN StageOf(f) ELSE Stage(q)
    BY <1>0 DEF Stage
  <1>K. \A i \in Inum : Known(p, i) =>
           type[i] # "free" /\ \A q \in Proc \ {p} : Stage(q) = "newborn" => l[q].ip # i
    BY KnownIsUsed
  <1>k. \A i \in Inum : i \in {cwd'[p], fd'[p], f.ip, f.dp, f.old} \/ (f.drop = i /\ f.pc = "iput") =>
           type[i] # "free" /\ \A q \in Proc \ {p} : Stage(q) = "newborn" => l[q].ip # i
    BY <1>K
  <1>e. \A q \in Proc \ {p} : /\ Stage(q) \in {"victim", "newborn"} => dirent'[l[q].dp] = dirent[l[q].dp]
                              /\ Stage(q) = "unlinked" => dirent'[l[q].ip] = dirent[l[q].ip]
    <2> SUFFICES ASSUME NEW q \in Proc \ {p}
                 PROVE  /\ Stage(q) \in {"victim", "newborn"} => dirent'[l[q].dp] = dirent[l[q].dp]
                        /\ Stage(q) = "unlinked" => dirent'[l[q].ip] = dirent[l[q].ip]
      OBVIOUS
    <2>1. l[q].dp \in Pointer /\ l[q].ip \in Pointer
      BY DEF TypeOK, Locals
    <2>2. /\ Stage(q) \in {"victim", "newborn"} => l[q].dp # 0 /\ lock[l[q].dp] = q
          /\ Stage(q) = "unlinked" => l[q].ip # 0 /\ lock[l[q].ip] = q
      BY DEF FileSystem, LocalsShaped, LocksHeld, Shaped, Stage
    <2> QED
      BY <2>1, <2>2 DEF Pointer
  <1>d. f.pc \notin {"iput", "unref"} => f.drop = 0
    BY DEF Shaped
  <1>1. LocalsShaped'
    BY <1>0 DEF LocalsShaped, FileSystem
  <1>2. LocksHeld'
    <2> SUFFICES ASSUME NEW q \in Proc
                 PROVE  /\ Stage(q)' \in {"newborn", "victim", "unlinkbad", "linkbad"} => lock'[l'[q].dp] = q
                        /\ Stage(q)' \in {"created", "unlinked"} => lock'[l'[q].ip] = q
      BY DEF LocksHeld
    <2>1. CASE q = p
      BY <1>0, <1>p, <2>1
    <2>2. CASE q # p
      <3>1. Stage(q)' = Stage(q) /\ l'[q] = l[q]
        BY <1>0, <1>p, <2>2
      <3>2. /\ Stage(q) \in {"newborn", "victim", "unlinkbad", "linkbad"} => l[q].dp \in Inum /\ lock[l[q].dp] = q
            /\ Stage(q) \in {"created", "unlinked"} => l[q].ip \in Inum /\ lock[l[q].ip] = q
        <4>1. l[q].dp \in Pointer /\ l[q].ip \in Pointer
          BY DEF TypeOK, Locals
        <4>2. /\ Stage(q) \in {"newborn", "victim", "unlinkbad", "linkbad"} => l[q].dp # 0
              /\ Stage(q) \in {"created", "unlinked"} => l[q].ip # 0
          BY DEF FileSystem, LocalsShaped, Shaped, Stage
        <4> QED
          BY <4>1, <4>2 DEF FileSystem, LocksHeld, Pointer
      <3> QED
        BY <2>2, <3>1, <3>2
    <2> QED
      BY <2>1, <2>2
  <1>3. ASSUME NEW q \in Proc \ {p}, Stage(q) = "newborn" PROVE Private(q, l[q].ip)'
    <2> DEFINE i == l[q].ip
    <2>0. i \in Inum /\ l'[q] = l[q]
      BY <1>0, <1>3 DEF FileSystem, LocalsShaped, Shaped, Stage, TypeOK, Locals, Pointer
    <2>1. Private(q, i)
      BY <1>3 DEF FileSystem, Found
    <2>2. i \notin {cwd'[p], fd'[p], f.ip, f.dp, f.old} /\ ~(f.drop = i /\ f.pc = "iput")
      BY <1>k, <1>3, <2>0
    <2>3. i \notin {cwd[p], l[p].ip, l[p].dp, l[p].old}
      BY <1>3, <2>1 DEF Private
    <2>4. ~Known(p, i)
      BY <1>K, <1>3, <2>0
    <2>5. \A r \in Proc : /\ i \notin {cwd'[r], fd'[r], l'[r].dp, l'[r].old}
                          /\ l'[r].ip = i => r = q
                          /\ l'[r].drop = i => l'[r].pc = "unref"
      <3> SUFFICES ASSUME NEW r \in Proc
                   PROVE  /\ i \notin {cwd'[r], fd'[r], l'[r].dp, l'[r].old}
                          /\ l'[r].ip = i => r = q
                          /\ l'[r].drop = i => l'[r].pc = "unref"
        OBVIOUS
      <3>1. CASE r = p
        <4>1. i # 0
          BY <2>0, Constants
        <4> QED
          BY <1>0, <1>d, <2>2, <3>1, <4>1
      <3>2. CASE r # p
        BY <1>0, <2>1, <3>2 DEF Private
      <3> QED
        BY <3>1, <3>2
    <2>6. \A d \in Inum, n \in Name : dirent'[d][n] # i
      <3>1. i # 0
        BY <2>0, Constants
      <3> QED
        BY <2>1, <2>4, <3>1 DEF Private
    <2>7. nlink'[i] = 0
      BY <2>0, <2>1, <2>4 DEF Private
    <2>8. dirent'[i] = Blank[i]
      BY <2>0, <2>1, <1>3 DEF Private
    <2> QED
      BY <2>0, <2>5, <2>6, <2>7, <2>8 DEF Private, Blank
  <1>4. Found'
    <2>1. ASSUME NEW q \in Proc
          PROVE  /\ Stage(q)' = "victim" => dirent'[l'[q].dp][l'[q].name] = l'[q].ip
                 /\ Stage(q)' = "newborn" =>
                      /\ dirent'[l'[q].dp][l'[q].name] = 0
                      /\ type'[l'[q].ip] = "dir" <=> l'[q].call = "mkdir"
                      /\ Private(q, l[q].ip)'
                 /\ Stage(q)' = "unlinked" => dirent'[l'[q].ip] = Blank[l'[q].ip]
                 /\ l'[q].dp # 0 => type'[l'[q].dp] = "dir"
                 /\ l'[q].old # 0 => type'[l'[q].old] = "file"
      <3>1. CASE q = p
        BY <1>0, <1>p, <3>1
      <3>2. CASE q # p
        <4>1. Stage(q)' = Stage(q) /\ l'[q] = l[q]
          BY <1>0, <1>p, <3>2
        <4> QED
          BY <1>3, <1>e, <3>2, <4>1 DEF FileSystem, Found
      <3> QED
        BY <3>1, <3>2
    <2> QED
      BY <2>1 DEF Found, Blank
  <1>5. UsedInodesAllocated'
    <2>1. ASSUME NEW i \in Inum, type'[i] = "free", NEW q \in Proc
          PROVE  /\ i \notin {cwd'[q], fd'[q], l'[q].ip, l'[q].dp, l'[q].old}
                 /\ l'[q].drop = i => l'[q].pc = "unref"
      <3>0. i # 0
        BY Constants
      <3>1. CASE q = p
        BY <1>0, <1>k, <1>d, <2>1, <3>0, <3>1
      <3>2. CASE q # p
        BY <1>0, <2>1, <3>2, UsedByFields DEF FileSystem
      <3> QED
        BY <3>1, <3>2
    <2>2. \A i \in Inum : type'[i] = "free" => \A d \in Inum, n \in Name : dirent'[d][n] # i
      BY <1>K, UsedByFields, Constants DEF FileSystem
    <2> QED
      BY <2>1, <2>2, UsedByFieldsNext
  <1>6. \A i \in Inum : type'[i] = "free" => nlink'[i] = 0
    BY <1>K DEF FileSystem, EntriesInPlace
  <1>7. \A i \in Inum : type'[i] # "dir" => dirent'[i] = Blank[i]
    <2> SUFFICES ASSUME NEW i \in Inum, type[i] # "dir" PROVE dirent'[i] = Blank[i]
      OBVIOUS
    <2>1. i # l[p].dp
      BY Constants DEF FileSystem, Found
    <2> QED
      BY <2>1 DEF FileSystem, EntriesInPlace
  <1> QED
    BY <1>1, <1>2, <1>4, <1>5, <1>6, <1>7, <1>r

\* The links counted and owed, after a step of p.
LEMMA OwedLinksStep ==
  ASSUME TypeOK, TypeOK', LinksOwed, NEW p \in Proc, NEW f, \A q \in Proc : l'[q] = IF q = p THEN f ELSE l[q],
         buried => buried',
         \A i \in Inum : nlink'[i] - Links(i)' - Owes(f, i) = nlink[i] - Links(i) - Owes(l[p], i)
  PROVE  LinksOwed'
  <1> SUFFICES ASSUME NEW i \in Inum
               PROVE  IF buried' THEN nlink'[i] >= Links(i)' + Cardinality(Owed(i))'
                      ELSE nlink'[i] = Links(i)' + Cardinality(Owed(i))'
    BY DEF LinksOwed
  <1>1. Cardinality(Owed(i))' = Cardinality(Owed(i)) + Owes(f, i) - Owes(l[p], i)
    BY OwedStep
  <1>2. IF buried THEN nlink[i] >= Links(i) + Cardinality(Owed(i))
        ELSE nlink[i] = Links(i) + Cardinality(Owed(i))
    BY DEF LinksOwed
  <1>3. nlink'[i] - Links(i)' - Owes(f, i) = nlink[i] - Links(i) - Owes(l[p], i)
    OBVIOUS
  <1>4. /\ nlink'[i] \in Int /\ nlink[i] \in Int /\ Owes(f, i) \in Int /\ Owes(l[p], i) \in Int
        /\ Cardinality(Owed(i)) \in Int
    BY LinksFinite DEF TypeOK, Owes, One
  <1>5. Links(i) \in Int /\ Links(i)' \in Int
    <2>1. Links(i) \in Int
      BY LinksFinite DEF Links
    <2>2. (Cardinality(Names(i)))' \in Int /\ (Cardinality(Subdirs(i)))' \in Int
      BY LinksFiniteNext
    <2>3. Links(i)' \in Int
      BY <2>2 DEF Links
    <2> QED
      BY <2>1, <2>3
  <1>6. \A L, K, C, a, b, m, n \in Int :
           /\ n = L + C /\ m - K - a = n - L - b => m = K + (C + a - b)
           /\ n >= L + C /\ m - K - a = n - L - b => m >= K + (C + a - b)
           /\ m = K + (C + a - b) => m >= K + (C + a - b)
    OBVIOUS
  <1>7. \/ nlink'[i] = Links(i)' + (Cardinality(Owed(i)) + Owes(f, i) - Owes(l[p], i))
        \/ buried /\ nlink'[i] >= Links(i)' + (Cardinality(Owed(i)) + Owes(f, i) - Owes(l[p], i))
    BY <1>2, <1>3, <1>4, <1>5, <1>6
  <1>8. nlink'[i] = Links(i)' + (Cardinality(Owed(i)) + Owes(f, i) - Owes(l[p], i)) =>
          nlink'[i] >= Links(i)' + (Cardinality(Owed(i)) + Owes(f, i) - Owes(l[p], i))
    BY <1>4, <1>5
  <1> QED
    BY <1>1, <1>7, <1>8

\* p goes on with the locals f, leaving entries and types alone: it keeps the
\* locks of the others, refers to nothing but what is in use, has seen what
\* Found says of f, and counts the links it owes.
Fits(p, f) ==
    /\ f \in Locals /\ Shaped(f) /\ l' = [l EXCEPT ![p] = f]
    /\ type' = type /\ dirent' = dirent /\ buried' = buried
    /\ \A q \in Proc \ {p} : cwd'[q] = cwd[q] /\ fd'[q] = fd[q]
    /\ \A i \in Inum, q \in Proc \ {p} : lock[i] = q => lock'[i] = q
    /\ Stage(p) # "newborn" /\ StageOf(f) # "newborn"
    /\ StageOf(f) \in {"victim", "unlinkbad", "linkbad"} => lock'[f.dp] = p
    /\ StageOf(f) \in {"created", "unlinked"} => lock'[f.ip] = p
    /\ \A i \in Inum : i \in {cwd'[p], fd'[p], f.ip, f.dp, f.old} => Known(p, i)
    /\ f.pc = "iput" => Known(p, f.drop)
    /\ StageOf(f) = "victim" => dirent[f.dp][f.name] = f.ip
    /\ StageOf(f) = "unlinked" => dirent[f.ip] = Blank[f.ip]
    /\ f.dp # 0 => type[f.dp] = "dir"
    /\ f.old # 0 => type[f.old] = "file"
    /\ \A i \in Inum : nlink'[i] - Owes(f, i) = nlink[i] - Owes(l[p], i)
    /\ \A i \in Inum : ref'[i] - leaked'[i] - Tally(p, i)' = ref[i] - leaked[i] - Tally(p, i)

LEMMA QuietStep ==
  ASSUME TypeOK, TypeOK', FileSystem, NEW p \in Proc, NEW f, Fits(p, f)
  PROVE  FileSystem'
  <1> USE DEF Fits
  <1>0. \A q \in Proc : l'[q] = IF q = p THEN f ELSE l[q]
    BY DEF TypeOK
  <1>1. Moves(p, f)
    <2>1. \A i \in Inum : nlink'[i] # nlink[i] => Known(p, i)
      <3> SUFFICES ASSUME NEW i \in Inum, ~Known(p, i) PROVE nlink'[i] = nlink[i]
        OBVIOUS
      <3>1. i \notin {f.ip, f.old, l[p].ip, l[p].old}
        BY DEF Known
      <3>2. Owes(f, i) = 0 /\ Owes(l[p], i) = 0
        BY <3>1 DEF Owes, One
      <3>3. nlink'[i] \in Int /\ nlink[i] \in Int /\ nlink'[i] - Owes(f, i) = nlink[i] - Owes(l[p], i)
        BY DEF TypeOK
      <3> QED
        BY <3>2, <3>3
    <2> QED
      BY <2>1 DEF Moves
  <1>2. \A i \in Inum : Names(i)' = Names(i) /\ Links(i)' = Links(i) /\ Links(i) \in Int
    <2>1. \A i \in Inum : Names(i)' = Names(i) /\ Subdirs(i)' = Subdirs(i)
      BY DEF Names, Subdirs
    <2> QED
      BY <2>1, LinksFinite DEF Links
  <1>3. LinksOwed'
    <2>1. ASSUME NEW i \in Inum
          PROVE  nlink'[i] - Links(i)' - Owes(f, i) = nlink[i] - Links(i) - Owes(l[p], i)
      <3>1. Owes(f, i) \in Int /\ Owes(l[p], i) \in Int /\ nlink'[i] \in Int /\ nlink[i] \in Int
        BY DEF Owes, One, TypeOK
      <3>2. nlink'[i] - Owes(f, i) = nlink[i] - Owes(l[p], i) /\ Links(i)' = Links(i) /\ Links(i) \in Int
        BY <1>2
      <3> QED
        BY <3>1, <3>2
    <2> QED
      BY <1>0, <2>1, OwedLinksStep DEF FileSystem
  <1>4. EntriesInPlace'
    <2>1. \A i \in Inum : Blank[i]' = Blank[i]
      BY DEF Blank
    <2>2. /\ \A i \in Inum : type'[i] = "free" => nlink'[i] = 0
          /\ \A i \in Inum : type'[i] # "dir" => dirent'[i] = Blank[i]
      BY <1>1, MovesStep
    <2> QED
      BY <1>2, <2>1, <2>2 DEF FileSystem, EntriesInPlace
  <1> QED
    BY <1>1, <1>3, <1>4, MovesStep DEF FileSystem

-----------------------------------------------------------------------------
(* The calls, one action after the other.                                     *)

LEMMA PathWalked ==
  ASSUME NEW g \in Locals, g.rest # << >>
  PROVE  Head(g.rest) \in Name /\ Tail(g.rest) \in Seq(Name) /\ (Len(g.rest) # 1 => Tail(g.rest) # << >>)
  <1>1. g.rest \in Seq(Name)
    BY DEF Locals
  <1>2. /\ Head(g.rest) \in Name /\ Tail(g.rest) \in Seq(Name)
        /\ Len(Tail(g.rest)) = Len(g.rest) - 1 /\ Len(g.rest) \in Nat
    BY <1>1, HeadTailProperties, EmptySeq
  <1>3. ASSUME Tail(g.rest) = << >> PROVE Len(g.rest) = 1
    <2>1. Len(Tail(g.rest)) = 0
      BY <1>3, EmptySeq
    <2> QED
      BY <1>2, <2>1
  <1> QED
    BY <1>2, <1>3

\* The locals of a process, and what their shape says.
LEMMA LocalsOf ==
  ASSUME TypeOK, FileSystem, NEW p \in Proc
  PROVE  /\ l[p] \in Locals /\ Shaped(l[p]) /\ l[p].pc \in PC /\ l[p].then \in PC
         /\ l[p].ip \in Pointer /\ l[p].dp \in Pointer /\ l[p].old \in Pointer /\ l[p].drop \in Pointer
         /\ (l[p].pc \notin {"iput", "unref"} => Stage(p) = l[p].pc /\ l[p].drop = 0)
         /\ cwd[p] \in Inum /\ fd[p] \in Pointer /\ 0 \in Pointer /\ 0 \notin Inum /\ Inum \subseteq Pointer
         /\ (l[p].dp # 0 => type[l[p].dp] = "dir") /\ (l[p].old # 0 => type[l[p].old] = "file")
  <1>1. 0 \notin Inum
    BY Constants
  <1> QED
    BY <1>1 DEF TypeOK, FileSystem, LocalsShaped, Found, Shaped, Stage, StageOf, Locals, Pointer

LEMMA LocksOf ==
  ASSUME TypeOK, FileSystem, NEW p \in Proc
  PROVE  /\ Stage(p) \in {"newborn", "victim", "unlinkbad", "linkbad"} => lock[l[p].dp] = p
         /\ Stage(p) \in {"created", "unlinked"} => lock[l[p].ip] = p
         /\ Stage(p) = "victim" => dirent[l[p].dp][l[p].name] = l[p].ip
         /\ Stage(p) = "unlinked" => dirent[l[p].ip] = Blank[l[p].ip]
  BY DEF FileSystem, LocksHeld, Found

LEMMA IdleLocals ==
  Idle \in Locals /\ Shaped(Idle) /\ StageOf(Idle) = "idle"
  <1>1. << >> \in Seq(Name)
    BY EmptySeq
  <1>2. "idle" \in PC /\ "none" \in Syscall /\ {} \in Mode /\ 0 \in Pointer
    BY Constants DEF PC, Syscall, Pointer
  <1> QED
    BY <1>1, <1>2 DEF Idle, Locals, Shaped, StageOf

\* What a walk that starts with the locals g begins with.
LEMMA WalkLocals ==
  ASSUME NEW g \in Locals, g.ip \in Inum, g.dp = 0, g.drop = 0, g.old # 0 <=> g.call = "link2",
         g.call = "link" => g.new \in Path, NEW f, f = Walk(g)
  PROVE  /\ f \in Locals /\ Shaped(f) /\ StageOf(f) \in {"walk", "found", "idle", "linkundo"}
         /\ f.dp = 0 /\ f.old = g.old /\ f.call = g.call
         /\ (f.ip = g.ip /\ f.drop = 0) \/ (f.ip = 0 /\ f.drop = g.ip)
         /\ f.pc # "iput" => f.ip = g.ip
  <1>1. {"iput", "idle", "linkundo", "found", "walk"} \subseteq PC /\ 0 \in Pointer /\ Inum \subseteq Pointer
        /\ 0 \notin Inum
    BY Constants DEF PC, Pointer
  <1>2. CASE g.rest # << >>
    <2>1. /\ f \in Locals /\ f.pc = "walk" /\ f.rest = g.rest /\ f.ip = g.ip /\ f.dp = g.dp /\ f.old = g.old
          /\ f.drop = g.drop /\ f.call = g.call /\ f.new = g.new
      BY <1>1, <1>2 DEF Walk, Locals
    <2> QED
      BY <1>1, <1>2, <2>1 DEF Shaped, StageOf
  <1>3. CASE g.rest = << >> /\ WantsParent(g.call)
    <2>1. /\ f \in Locals /\ f.pc = "iput" /\ f.drop = g.ip /\ f.ip = 0 /\ f.dp = g.dp /\ f.old = g.old
          /\ f.call = g.call /\ f.new = g.new
          /\ f.then = IF g.call = "link2" THEN "linkundo" ELSE "idle"
      BY <1>1, <1>3 DEF Walk, Locals
    <2> QED
      BY <1>1, <2>1 DEF Shaped, StageOf
  <1>4. CASE g.rest = << >> /\ ~WantsParent(g.call)
    <2>1. /\ f \in Locals /\ f.pc = "found" /\ f.ip = g.ip /\ f.dp = g.dp /\ f.old = g.old
          /\ f.drop = g.drop /\ f.call = g.call /\ f.new = g.new
      BY <1>1, <1>4 DEF Walk, Locals
    <2> QED
      BY <1>1, <1>4, <2>1 DEF Shaped, StageOf, WantsParent
  <1> QED
    BY <1>2, <1>3, <1>4

LEMMA Referred ==
  ASSUME TypeOK, NEW i \in Inum, Refer(i)
  PROVE  /\ ref' \in [Inum -> Nat]
         /\ \A j \in Inum : ref'[j] = ref[j] + (IF j = i THEN 1 ELSE 0)
  BY DEF TypeOK, Refer

LEMMA RootKnown ==
  ASSUME TypeOK, FileSystem, NEW p \in Proc, NEW x
  PROVE  Start(p, x) \in Inum /\ Known(p, Start(p, x))
  BY Constants DEF Start, Known, TypeOK

\* Each of the following takes one step of p, with the locals f it ends in.
LEMMA BeginStep ==
  ASSUME TypeOK, FileSystem, NEW p \in Proc, NEW r \in Request[p], begin(p, r)
  PROVE  TypeOK' /\ FileSystem'
  <1> DEFINE s == Start(p, r.path)
  <1>0. /\ l[p].pc = "idle" /\ Stage(p) = "idle"
        /\ l[p].ip = 0 /\ l[p].dp = 0 /\ l[p].old = 0 /\ l[p].drop = 0
    BY LocalsOf DEF begin, Shaped, Stage, StageOf
  <1>1. s \in Inum /\ Known(p, s)
    BY RootKnown
  <1>2. PICK g : g = [Idle EXCEPT !.call = r.call, !.rest = r.path.names, !.ip = s, !.write = r.write,
                                  !.new = IF r.call = "link" THEN r.new ELSE None,
                                  !.mode = IF r.call = "chmod" THEN r.mode ELSE {}]
    OBVIOUS
  <1>3. /\ g \in Locals /\ g.ip = s /\ g.dp = 0 /\ g.drop = 0 /\ g.old = 0 /\ g.call = r.call /\ g.call # "link2"
        /\ g.call = "link" => g.new \in Path
    <2>1. /\ r.call \in {"open", "create", "mkdir", "unlink", "link", "chdir", "chmod"}
          /\ r.path \in Path /\ r.new \in Path /\ r.write \in BOOLEAN /\ r.mode \in Mode
      BY ConstantsAssumption DEF ConstantsAssumption
    <2>2. r.path.names \in Seq(Name) /\ r.call \in Syscall /\ s \in Pointer /\ {} \in Mode
          /\ (IF r.call = "link" THEN r.new ELSE None) \in Path \union {None}
      BY <1>1, <2>1, Constants, LocalsOf DEF Path, Syscall
    <2> QED
      BY <1>2, <2>1, <2>2, IdleLocals, ZenonT(60) DEF Locals, Idle
  <1>4. PICK f : f = Walk(g)
    OBVIOUS
  <1>5. /\ f \in Locals /\ Shaped(f) /\ StageOf(f) \in {"walk", "found", "idle", "linkundo"}
        /\ f.dp = 0 /\ f.old = 0 /\ f.call = g.call
        /\ (f.ip = s /\ f.drop = 0) \/ (f.ip = 0 /\ f.drop = s)
    BY <1>1, <1>3, <1>4, WalkLocals
  <1>6. /\ l' = [l EXCEPT ![p] = f] /\ l'[p] = f
        /\ Refer(s)
        /\ UNCHANGED <<type, nlink, mode, owner, dirent, valid, lock, cwd, fd, leaked, buried>>
    BY <1>2, <1>4 DEF TypeOK, begin, Local, ondisk
  <1>a. ref' \in [Inum -> Nat] /\ \A j \in Inum : ref'[j] = ref[j] + (IF j = s THEN 1 ELSE 0)
    BY <1>1, <1>6, Referred
  <1>7. TypeOK'
    BY <1>5, <1>6, <1>a DEF TypeOK
  <1>8. \A j \in Inum : ref'[j] - leaked'[j] - Tally(p, j)' = ref[j] - leaked[j] - Tally(p, j)
    <2>1. \A j \in Inum : Tally(p, j) \in Int /\ Tally(p, j)' = Tally(p, j) + (IF j = s THEN 1 ELSE 0)
      BY <1>0, <1>1, <1>5, <1>6, LocalsOf DEF Tally, One
    <2> QED
      BY <1>6, <1>a, <2>1 DEF TypeOK
  <1>9. \A j \in Inum : nlink'[j] - Owes(f, j) = nlink[j] - Owes(l[p], j)
    BY <1>0, <1>5, <1>6, LocalsOf DEF TypeOK, Owes, One
  <1>10. \A j \in Inum : j \in {cwd'[p], fd'[p], f.ip, f.dp, f.old, f.drop} => Known(p, j)
    BY <1>0, <1>1, <1>5, <1>6, LocalsOf DEF Known
  <1>11. Fits(p, f)
    BY <1>0, <1>1, <1>5, <1>6, <1>8, <1>9, <1>10, LocalsOf DEF Fits, Shaped
  <1> QED
    BY <1>7, <1>11, QuietStep

LEMMA WalkStep ==
  ASSUME TypeOK, FileSystem, NEW p \in Proc, namex(p)
  PROVE  TypeOK' /\ FileSystem'
  <1> DEFINE i == l[p].ip
             name == Head(l[p].rest)
             child == dirent[i][name]
             last == Len(l[p].rest) = 1
  <1>0. /\ l[p].pc = "walk" /\ Stage(p) = "walk"
        /\ l[p].drop = 0 /\ l[p].dp = 0 /\ i \in Inum /\ l[p].rest # << >>
        /\ (l[p].old # 0 <=> l[p].call = "link2")
        /\ (l[p].call = "link" => l[p].new \in Path)
    BY LocalsOf DEF Shaped, Stage, StageOf, namex, Pointer
  <1>1. /\ name \in Name /\ Tail(l[p].rest) \in Seq(Name) /\ << >> \in Seq(Name)
        /\ ~last => Tail(l[p].rest) # << >>
    BY <1>0, LocalsOf, PathWalked, EmptySeq
  <1>p. {"iput", "idle", "linkundo", "found", "walk", "parent"} \subseteq PC
    BY DEF PC
  <1>2. ASSUME UNCHANGED ref, Local(p, [Put(p, i, OnFailure(p)) EXCEPT !.ip = 0])
        PROVE  TypeOK' /\ FileSystem'
    <2>1. PICK f : f = [Put(p, i, OnFailure(p)) EXCEPT !.ip = 0]
      OBVIOUS
    <2>2. /\ f \in Locals /\ f.pc = "iput" /\ f.drop = i /\ f.then = OnFailure(p) /\ f.ip = 0 /\ f.dp = 0
          /\ f.old = l[p].old /\ f.call = l[p].call /\ f.new = l[p].new
      BY <1>0, <1>p, <1>2, <2>1, LocalsOf, ZenonT(60) DEF Put, Locals, OnFailure
    <2>3. Shaped(f) /\ StageOf(f) \in {"idle", "linkundo"}
      BY <1>0, <1>p, <1>2, <2>2, LocalsOf DEF Shaped, StageOf, OnFailure
    <2>4. /\ l' = [l EXCEPT ![p] = f] /\ l'[p] = f
          /\ UNCHANGED ref /\ valid' = valid \union {i}
          /\ UNCHANGED <<type, nlink, mode, owner, dirent, lock, cwd, fd, leaked, buried>>
      BY <1>0, <1>p, <1>2, <2>1 DEF TypeOK, namex, Local, ondisk, icache
    <2>5. TypeOK'
      BY <1>0, <1>p, <1>2, <2>2, <2>4, LocalsOf DEF TypeOK
    <2>6. \A j \in Inum : ref'[j] - leaked'[j] - Tally(p, j)' = ref[j] - leaked[j] - Tally(p, j)
      <3>1. l'[p] = f /\ cwd'[p] = cwd[p] /\ fd'[p] = fd[p] /\ 0 \notin Inum
        BY <1>0, <1>p, <1>2, <2>4, LocalsOf
      <3>2. \A j \in Inum : Tally(p, j) \in Int /\ Tally(p, j)' = Tally(p, j)
        BY <1>0, <2>2, <3>1 DEF Tally, One
      <3> QED
        BY <2>4, <3>2 DEF TypeOK
    <2>7. \A j \in Inum : nlink'[j] - Owes(f, j) = nlink[j] - Owes(l[p], j)
      BY <1>0, <1>p, <1>2, <2>2, <2>3, <2>4, LocalsOf DEF TypeOK, Owes, StageOf, One
    <2>8. \A j \in Inum : j \in {cwd'[p], fd'[p], f.ip, f.dp, f.old, f.drop} => Known(p, j)
      BY <1>0, <1>p, <1>2, <2>2, <2>4, LocalsOf DEF Known
    <2>9. Fits(p, f)
      BY <1>0, <1>p, <1>2, <2>2, <2>3, <2>4, <2>6, <2>7, <2>8, LocalsOf DEF Fits
    <2> QED
      BY <2>5, <2>9, QuietStep
  <1>3. ASSUME UNCHANGED ref, type[i] = "dir", WantsParent(l[p].call),
               Local(p, [l[p] EXCEPT !.pc = "parent", !.dp = i, !.ip = 0, !.name = name, !.rest = << >>])
        PROVE  TypeOK' /\ FileSystem'
    <2>1. PICK f : f = [l[p] EXCEPT !.pc = "parent", !.dp = i, !.ip = 0, !.name = name, !.rest = << >>]
      OBVIOUS
    <2>2. /\ f \in Locals /\ f.pc = "parent" /\ f.drop = 0 /\ f.ip = 0 /\ f.dp = i /\ f.name = name
          /\ f.old = l[p].old /\ f.call = l[p].call /\ f.new = l[p].new
      BY <1>0, <1>1, <1>p, <1>3, <2>1, LocalsOf DEF Put, Locals
    <2>3. Shaped(f) /\ StageOf(f) = "parent"
      BY <1>0, <1>1, <1>p, <1>3, <2>2, LocalsOf DEF Shaped, StageOf, WantsParent
    <2>4. /\ l' = [l EXCEPT ![p] = f] /\ l'[p] = f
          /\ UNCHANGED ref /\ valid' = valid \union {i}
          /\ UNCHANGED <<type, nlink, mode, owner, dirent, lock, cwd, fd, leaked, buried>>
      BY <1>0, <1>1, <1>p, <1>3, <2>1 DEF TypeOK, namex, Local, ondisk, icache
    <2>5. TypeOK'
      BY <1>0, <1>1, <1>p, <1>3, <2>2, <2>4, LocalsOf DEF TypeOK
    <2>6. \A j \in Inum : ref'[j] - leaked'[j] - Tally(p, j)' = ref[j] - leaked[j] - Tally(p, j)
      <3>1. l'[p] = f /\ cwd'[p] = cwd[p] /\ fd'[p] = fd[p] /\ 0 \notin Inum
        BY <1>0, <1>1, <1>p, <1>3, <2>4, LocalsOf
      <3>2. \A j \in Inum : Tally(p, j) \in Int /\ Tally(p, j)' = Tally(p, j)
        BY <1>0, <2>2, <3>1 DEF Tally, One
      <3> QED
        BY <2>4, <3>2 DEF TypeOK
    <2>7. \A j \in Inum : nlink'[j] - Owes(f, j) = nlink[j] - Owes(l[p], j)
      BY <1>0, <1>1, <1>p, <1>3, <2>2, <2>3, <2>4, LocalsOf DEF TypeOK, Owes, StageOf, One
    <2>8. \A j \in Inum : j \in {cwd'[p], fd'[p], f.ip, f.dp, f.old} => Known(p, j)
      BY <1>0, <1>1, <1>p, <1>3, <2>2, <2>4, LocalsOf DEF Known
    <2>9. Fits(p, f)
      BY <1>0, <1>1, <1>p, <1>3, <2>2, <2>3, <2>4, <2>6, <2>7, <2>8, LocalsOf DEF Fits
    <2> QED
      BY <2>5, <2>9, QuietStep
  <1>c. child \in Pointer /\ (child # 0 => child \in Inum)
    BY <1>0, <1>1 DEF TypeOK, Pointer
  <1>4. ASSUME child # 0, Refer(child), ~(last /\ WantsParent(l[p].call)),
               Local(p, [Put(p, i, IF last THEN "found" ELSE "walk") EXCEPT !.ip = child, !.rest = Tail(@)])
        PROVE  TypeOK' /\ FileSystem'
    <2>1. PICK f : f = [Put(p, i, IF last THEN "found" ELSE "walk") EXCEPT !.ip = child, !.rest = Tail(@)]
      OBVIOUS
    <2>2. /\ f \in Locals /\ f.pc = "iput" /\ f.drop = i /\ f.ip = child /\ f.dp = 0 /\ f.rest = Tail(l[p].rest)
          /\ f.then = IF last THEN "found" ELSE "walk"
          /\ f.old = l[p].old /\ f.call = l[p].call /\ f.new = l[p].new
      BY <1>0, <1>1, <1>p, <1>c, <1>4, <2>1, LocalsOf, ZenonT(60) DEF Put, Locals
    <2>3. Shaped(f) /\ StageOf(f) \in {"found", "walk"}
      BY <1>0, <1>1, <1>p, <1>c, <1>4, <2>2, LocalsOf, ZenonT(60) DEF Shaped, StageOf, WantsParent
    <2>4. /\ l' = [l EXCEPT ![p] = f] /\ l'[p] = f
          /\ valid' = valid \union {i}
          /\ ref' \in [Inum -> Nat] /\ \A j \in Inum : ref'[j] = ref[j] + (IF j = child THEN 1 ELSE 0)
          /\ UNCHANGED <<type, nlink, mode, owner, dirent, lock, cwd, fd, leaked, buried>>
      BY <1>0, <1>1, <1>p, <1>c, <1>4, <2>1, Referred DEF TypeOK, namex, Local, ondisk, icache
    <2>5. TypeOK'
      BY <1>0, <1>1, <1>p, <1>c, <1>4, <2>2, <2>4, LocalsOf DEF TypeOK
    <2>6. \A j \in Inum : ref'[j] - leaked'[j] - Tally(p, j)' = ref[j] - leaked[j] - Tally(p, j)
      <3>1. l'[p] = f /\ cwd'[p] = cwd[p] /\ fd'[p] = fd[p] /\ 0 \notin Inum /\ child \in Inum
        BY <1>0, <1>1, <1>p, <1>c, <1>4, <2>4, LocalsOf
      <3> HIDE DEF child
      <3>2. \A j \in Inum : Tally(p, j) \in Int /\ Tally(p, j)' = Tally(p, j) + (IF j = child THEN 1 ELSE 0)
        BY <1>0, <2>2, <3>1 DEF Tally, One
      <3> QED
        BY <2>4, <3>2 DEF TypeOK
    <2>7. \A j \in Inum : nlink'[j] - Owes(f, j) = nlink[j] - Owes(l[p], j)
      BY <1>0, <1>1, <1>p, <1>c, <1>4, <2>2, <2>3, <2>4, LocalsOf DEF TypeOK, Owes, StageOf, One
    <2>8. \A j \in Inum : j \in {cwd'[p], fd'[p], f.ip, f.dp, f.old, f.drop} => Known(p, j)
      BY <1>0, <1>1, <1>p, <1>c, <1>4, <2>2, <2>4, LocalsOf DEF Known
    <2>9. Fits(p, f)
      BY <1>0, <1>1, <1>p, <1>c, <1>4, <2>2, <2>3, <2>4, <2>6, <2>7, <2>8, LocalsOf DEF Fits
    <2> QED
      BY <2>5, <2>9, QuietStep
  <1> QED
    BY <1>2, <1>3, <1>4 DEF namex

LEMMA UnrefStep ==
  ASSUME TypeOK, FileSystem, NEW p \in Proc, iput_unref(p)
  PROVE  TypeOK' /\ FileSystem'
  <1> DEFINE i == l[p].drop
  <1>0. /\ l[p].pc = "unref" /\ Stage(p) = l[p].then /\ i \in Inum /\ Stage(p) \notin {"parent", "newborn", "victim"}
        /\ Stage(p) \notin {"iput", "unref"}
    BY LocalsOf DEF Shaped, Stage, StageOf, iput_unref, Pointer
  <1>1. ref' \in [Inum -> Nat] /\ \A j \in Inum : ref'[j] = ref[j] - (IF j = i THEN 1 ELSE 0)
    <2>1. ref[i] >= 1
      BY <1>0, PointedIsReferred DEF FileSystem
    <2>2. ref' = [ref EXCEPT ![i] = @ - 1]
      BY DEF iput_unref
    <2>3. \A n \in Nat : n >= 1 => n - 1 \in Nat
      OBVIOUS
    <2> QED
      BY <1>0, <2>1, <2>2, <2>3 DEF TypeOK
  <1>p. "idle" \in PC
    BY DEF PC
  <1>2. ASSUME l[p].then = "idle", Local(p, Idle)
        PROVE  TypeOK' /\ FileSystem'
    <2>1. PICK f : f = Idle
      OBVIOUS
    <2>2. /\ f \in Locals /\ f.pc = "idle" /\ f.drop = 0 /\ f.ip = 0 /\ f.dp = 0 /\ f.old = 0
          /\ l[p].ip = 0 /\ l[p].dp = 0 /\ l[p].old = 0
      BY <1>0, <1>1, <1>2, <2>1, LocalsOf, IdleLocals DEF Put, Locals, Idle, Shaped, Stage, StageOf
    <2>3. Shaped(f) /\ StageOf(f) = "idle"
      BY <2>1, IdleLocals
    <2>4. /\ l' = [l EXCEPT ![p] = f] /\ l'[p] = f
          /\ valid' \subseteq Inum
          /\ UNCHANGED <<type, nlink, mode, owner, dirent, lock, cwd, fd, leaked, buried>>
      BY <1>0, <1>1, <1>2, <2>1 DEF TypeOK, iput_unref, Local, ondisk, icache
    <2>5. TypeOK'
      BY <1>0, <1>1, <1>2, <2>2, <2>4, LocalsOf DEF TypeOK
    <2>6. \A j \in Inum : ref'[j] - leaked'[j] - Tally(p, j)' = ref[j] - leaked[j] - Tally(p, j)
      <3>1. l'[p] = f /\ cwd'[p] = cwd[p] /\ fd'[p] = fd[p] /\ 0 \notin Inum /\ i \in Inum
        BY <1>0, <1>1, <1>2, <2>4, LocalsOf
      <3>2. \A j \in Inum : Tally(p, j) \in Int /\ Tally(p, j)' = Tally(p, j) - (IF j = i THEN 1 ELSE 0)
        BY <1>0, <2>2, <3>1 DEF Tally, One
      <3> QED
        BY <1>1, <2>4, <3>2 DEF TypeOK
    <2>7. \A j \in Inum : nlink'[j] - Owes(f, j) = nlink[j] - Owes(l[p], j)
      BY <1>0, <1>1, <1>2, <2>2, <2>3, <2>4, LocalsOf DEF TypeOK, Owes, StageOf, One
    <2>8. \A j \in Inum : j \in {cwd'[p], fd'[p], f.ip, f.dp, f.old} => Known(p, j)
      BY <1>0, <1>1, <1>2, <2>2, <2>4, LocalsOf DEF Known
    <2>9. Fits(p, f)
      BY <1>0, <1>1, <1>2, <2>2, <2>3, <2>4, <2>6, <2>7, <2>8, LocalsOf DEF Fits
    <2> QED
      BY <2>5, <2>9, QuietStep
  <1>3. ASSUME l[p].then # "idle",
               Local(p, [l[p] EXCEPT !.pc = l[p].then, !.drop = 0, !.then = "idle"])
        PROVE  TypeOK' /\ FileSystem'
    <2>1. PICK f : f = [l[p] EXCEPT !.pc = l[p].then, !.drop = 0, !.then = "idle"]
      OBVIOUS
    <2>2. /\ f \in Locals /\ f.pc = Stage(p) /\ f.drop = 0 /\ f.ip = l[p].ip /\ f.dp = l[p].dp /\ f.old = l[p].old
          /\ f.call = l[p].call /\ f.rest = l[p].rest /\ f.new = l[p].new /\ f.name = l[p].name
      BY <1>0, <1>1, <1>p, <1>3, <2>1, LocalsOf DEF Put, Locals
    <2>3. Shaped(f) /\ StageOf(f) = Stage(p)
      BY <1>0, <1>1, <1>p, <1>3, <2>2, LocalsOf DEF Shaped, StageOf, Stage
    <2>4. /\ l' = [l EXCEPT ![p] = f] /\ l'[p] = f
          /\ valid' \subseteq Inum
          /\ UNCHANGED <<type, nlink, mode, owner, dirent, lock, cwd, fd, leaked, buried>>
      BY <1>0, <1>1, <1>p, <1>3, <2>1 DEF TypeOK, iput_unref, Local, ondisk, icache
    <2>5. TypeOK'
      BY <1>0, <1>1, <1>p, <1>3, <2>2, <2>4, LocalsOf DEF TypeOK
    <2>6. \A j \in Inum : ref'[j] - leaked'[j] - Tally(p, j)' = ref[j] - leaked[j] - Tally(p, j)
      <3>1. l'[p] = f /\ cwd'[p] = cwd[p] /\ fd'[p] = fd[p] /\ 0 \notin Inum /\ i \in Inum
        BY <1>0, <1>1, <1>p, <1>3, <2>4, LocalsOf
      <3>2. \A j \in Inum : Tally(p, j) \in Int /\ Tally(p, j)' = Tally(p, j) - (IF j = i THEN 1 ELSE 0)
        BY <1>0, <2>2, <3>1 DEF Tally, One
      <3> QED
        BY <1>1, <2>4, <3>2 DEF TypeOK
    <2>7. \A j \in Inum : nlink'[j] - Owes(f, j) = nlink[j] - Owes(l[p], j)
      BY <1>0, <1>1, <1>p, <1>3, <2>2, <2>3, <2>4, LocalsOf DEF TypeOK, Owes, StageOf, One, Stage
    <2>8. \A j \in Inum : j \in {cwd'[p], fd'[p], f.ip, f.dp, f.old} => Known(p, j)
      BY <1>0, <1>1, <1>p, <1>3, <2>2, <2>4, LocalsOf DEF Known
    <2>9. Fits(p, f)
      BY <1>0, <1>1, <1>p, <1>3, <2>2, <2>3, <2>4, <2>6, <2>7, <2>8, LocalsOf, LocksOf DEF Fits
    <2> QED
      BY <2>5, <2>9, QuietStep
  <1> QED
    BY <1>2, <1>3 DEF iput_unref

\* The rest of a call that found l[p].ip: it is put, or becomes the open file.
LEMMA OpenStep ==
  ASSUME TypeOK, FileSystem, NEW p \in Proc, Stage(p) \in {"found", "created", "exists"}, l[p].pc = Stage(p),
         Open(p, l[p].ip) \/ (Local(p, [Put(p, l[p].ip, "idle") EXCEPT !.ip = 0]) /\ UNCHANGED fd),
         valid' \subseteq Inum, UNCHANGED <<ondisk, ref, cwd, leaked, buried>>,
         UNCHANGED lock \/ (lock[l[p].ip] = p /\ lock' = [lock EXCEPT ![l[p].ip] = None])
  PROVE  TypeOK' /\ FileSystem'
  <1> DEFINE i == l[p].ip
  <1>0. /\ l[p].pc = Stage(p) /\ Stage(p) \in {"found", "created", "exists"}
        /\ l[p].drop = 0 /\ l[p].dp = 0 /\ l[p].old = 0 /\ i \in Inum
    BY LocalsOf DEF Shaped, Stage, StageOf, Pointer
  <1>1. /\ lock' \in [Inum -> Proc \union {None}]
        /\ \A j \in Inum, q \in Proc \ {p} : lock[j] = q => lock'[j] = q
    BY <1>0 DEF TypeOK
  <1>p. {"iput", "idle"} \subseteq PC
    BY DEF PC
  <1>i. l[p] \in Locals /\ i \in Pointer /\ 0 \in Pointer /\ l[p].drop = 0 /\ l[p].dp = 0 /\ l[p].old = 0
    BY <1>0, LocalsOf
  <1>2. ASSUME Local(p, [Put(p, i, "idle") EXCEPT !.ip = 0]), UNCHANGED fd
        PROVE  TypeOK' /\ FileSystem'
    <2>1. PICK f : f = [Put(p, i, "idle") EXCEPT !.ip = 0]
      OBVIOUS
    <2>2. /\ f \in Locals /\ f.pc = "iput" /\ f.drop = i /\ f.ip = 0 /\ f.dp = 0 /\ f.old = 0
          /\ f.then = "idle"
      BY <1>i, <1>p, <2>1 DEF Put, Locals
    <2>3. Shaped(f) /\ StageOf(f) = "idle"
      BY <1>0, <1>1, <1>p, <1>2, <2>2, LocalsOf DEF Shaped, StageOf
    <2>4. /\ l' = [l EXCEPT ![p] = f] /\ l'[p] = f
          /\ UNCHANGED <<type, nlink, mode, owner, dirent, ref, cwd, fd, leaked, buried>>
      BY <1>0, <1>1, <1>p, <1>2, <2>1 DEF TypeOK, Known, Local, ondisk, icache
    <2>5. TypeOK'
      BY <1>0, <1>1, <1>p, <1>2, <2>2, <2>4, LocalsOf DEF TypeOK
    <2>6. \A j \in Inum : ref'[j] - leaked'[j] - Tally(p, j)' = ref[j] - leaked[j] - Tally(p, j)
      <3>1. l'[p] = f /\ cwd'[p] = cwd[p] /\ fd'[p] = fd[p] /\ 0 \notin Inum
        BY <1>0, <1>1, <1>p, <1>2, <2>4, LocalsOf
      <3>2. \A j \in Inum : Tally(p, j) \in Int /\ Tally(p, j)' = Tally(p, j)
        BY <1>0, <2>2, <3>1 DEF Tally, One
      <3> QED
        BY <2>4, <3>2 DEF TypeOK
    <2>7. \A j \in Inum : nlink'[j] - Owes(f, j) = nlink[j] - Owes(l[p], j)
      BY <1>0, <1>1, <1>p, <1>2, <2>2, <2>3, <2>4, LocalsOf DEF TypeOK, Owes, StageOf, One
    <2>8. \A j \in Inum : j \in {cwd'[p], fd'[p], f.ip, f.dp, f.old, f.drop} => Known(p, j)
      BY <1>0, <1>1, <1>p, <1>2, <2>2, <2>4, LocalsOf DEF Known
    <2>9. Fits(p, f)
      BY <1>0, <1>1, <1>p, <1>2, <2>2, <2>3, <2>4, <2>6, <2>7, <2>8, LocalsOf DEF Fits
    <2> QED
      BY <2>5, <2>9, QuietStep
  <1>3. ASSUME Local(p, Idle), fd[p] = 0, fd' = [fd EXCEPT ![p] = i]
        PROVE  TypeOK' /\ FileSystem'
    <2>1. PICK f : f = Idle
      OBVIOUS
    <2>2. /\ f \in Locals /\ f.pc = "idle" /\ f.drop = 0 /\ f.ip = 0 /\ f.dp = 0 /\ f.old = 0
      BY <1>0, <1>1, <1>3, <2>1, LocalsOf, IdleLocals DEF Put, Locals, Idle
    <2>3. Shaped(f) /\ StageOf(f) = "idle"
      BY <2>1, IdleLocals
    <2>4. /\ l' = [l EXCEPT ![p] = f] /\ l'[p] = f
          /\ fd'[p] = i /\ \A q \in Proc \ {p} : fd'[q] = fd[q]
          /\ UNCHANGED <<type, nlink, mode, owner, dirent, ref, cwd, leaked, buried>>
      BY <1>0, <1>1, <1>3, <2>1 DEF TypeOK, Known, Local, ondisk, icache
    <2>5. TypeOK'
      BY <1>0, <1>1, <1>3, <2>2, <2>4, LocalsOf DEF TypeOK
    <2>6. \A j \in Inum : ref'[j] - leaked'[j] - Tally(p, j)' = ref[j] - leaked[j] - Tally(p, j)
      <3>1. l'[p] = f /\ cwd'[p] = cwd[p] /\ fd'[p] = i /\ 0 \notin Inum /\ fd[p] = 0
        BY <1>0, <1>1, <1>3, <2>4, LocalsOf
      <3>2. \A j \in Inum : Tally(p, j) \in Int /\ Tally(p, j)' = Tally(p, j)
        BY <1>0, <2>2, <3>1 DEF Tally, One
      <3> QED
        BY <2>4, <3>2 DEF TypeOK
    <2>7. \A j \in Inum : nlink'[j] - Owes(f, j) = nlink[j] - Owes(l[p], j)
      BY <1>0, <1>1, <1>3, <2>2, <2>3, <2>4, LocalsOf DEF TypeOK, Owes, StageOf, One
    <2>8. \A j \in Inum : j \in {cwd'[p], fd'[p], f.ip, f.dp, f.old} => Known(p, j)
      BY <1>0, <1>1, <1>3, <2>2, <2>4, LocalsOf DEF Known
    <2>9. Fits(p, f)
      BY <1>0, <1>1, <1>3, <2>2, <2>3, <2>4, <2>6, <2>7, <2>8, LocalsOf DEF Fits
    <2> QED
      BY <2>5, <2>9, QuietStep
  <1> QED
    BY <1>2, <1>3 DEF Open, OpenFails

LEMMA OpensStep ==
  ASSUME TypeOK, FileSystem, NEW p \in Proc, sys_open(p) \/ created(p) \/ exists(p)
  PROVE  TypeOK' /\ FileSystem'
  <1>1. Stage(p) \in {"found", "created", "exists"} /\ l[p].pc = Stage(p) /\ l[p].ip \in Inum
    BY LocalsOf DEF Shaped, Stage, StageOf, Pointer, sys_open, At, created, exists
  <1>2. Open(p, l[p].ip) \/ (Local(p, [Put(p, l[p].ip, "idle") EXCEPT !.ip = 0]) /\ UNCHANGED fd)
    BY DEF sys_open, created, exists
  <1>3. valid' \subseteq Inum /\ UNCHANGED <<ondisk, ref, cwd, leaked, buried>>
    BY <1>1 DEF sys_open, created, exists, TypeOK
  <1>4. UNCHANGED lock \/ (lock[l[p].ip] = p /\ lock' = [lock EXCEPT ![l[p].ip] = None])
    BY <1>1 DEF sys_open, created, exists, FileSystem, LocksHeld, Stage, StageOf
  <1> QED
    BY <1>1, <1>2, <1>3, <1>4, OpenStep

LEMMA CloseStep ==
  ASSUME TypeOK, FileSystem, NEW p \in Proc, sys_close(p)
  PROVE  TypeOK' /\ FileSystem'
  <1>0. /\ l[p].pc = "idle" /\ Stage(p) = "idle" /\ fd[p] \in Inum
        /\ l[p].ip = 0 /\ l[p].dp = 0 /\ l[p].old = 0 /\ l[p].drop = 0
    BY LocalsOf DEF sys_close, Shaped, Stage, StageOf, Pointer
  <1>p. {"iput", "idle"} \subseteq PC /\ "close" \in Syscall
    BY DEF PC, Syscall
  <1>1. ASSUME Local(p, [Put(p, fd[p], "idle") EXCEPT !.call = "close"])
        PROVE  TypeOK' /\ FileSystem'
    <2>1. PICK f : f = [Put(p, fd[p], "idle") EXCEPT !.call = "close"]
      OBVIOUS
    <2>2. /\ f \in Locals /\ f.pc = "iput" /\ f.drop = fd[p] /\ f.ip = 0 /\ f.dp = 0 /\ f.old = 0
          /\ f.then = "idle" /\ f.call = "close"
      BY <1>0, <1>p, <1>1, <2>1, LocalsOf, ZenonT(60) DEF Put, Locals
    <2>3. Shaped(f) /\ StageOf(f) = "idle"
      BY <1>0, <1>p, <1>1, <2>2, LocalsOf DEF Shaped, StageOf
    <2>4. /\ l' = [l EXCEPT ![p] = f] /\ l'[p] = f
          /\ fd' = [fd EXCEPT ![p] = 0] /\ fd'[p] = 0 /\ \A q \in Proc \ {p} : fd'[q] = fd[q]
          /\ UNCHANGED <<type, nlink, mode, owner, dirent, ref, valid, lock, cwd, leaked, buried>>
      BY <1>0, <1>p, <1>1, <2>1 DEF TypeOK, sys_close, Local, ondisk, icache
    <2>5. TypeOK'
      BY <1>0, <1>p, <1>1, <2>2, <2>4, LocalsOf DEF TypeOK
    <2>6. \A j \in Inum : ref'[j] - leaked'[j] - Tally(p, j)' = ref[j] - leaked[j] - Tally(p, j)
      <3>1. l'[p] = f /\ cwd'[p] = cwd[p] /\ fd'[p] = 0 /\ 0 \notin Inum
        BY <1>0, <1>p, <1>1, <2>4, LocalsOf
      <3>2. \A j \in Inum : Tally(p, j) \in Int /\ Tally(p, j)' = Tally(p, j)
        BY <1>0, <2>2, <3>1 DEF Tally, One
      <3> QED
        BY <2>4, <3>2 DEF TypeOK
    <2>7. \A j \in Inum : nlink'[j] - Owes(f, j) = nlink[j] - Owes(l[p], j)
      BY <1>0, <1>p, <1>1, <2>2, <2>3, <2>4, LocalsOf DEF TypeOK, Owes, StageOf, One
    <2>8. \A j \in Inum : j \in {cwd'[p], fd'[p], f.ip, f.dp, f.old, f.drop} => Known(p, j)
      BY <1>0, <1>p, <1>1, <2>2, <2>4, LocalsOf DEF Known
    <2>9. Fits(p, f)
      BY <1>0, <1>p, <1>1, <2>2, <2>3, <2>4, <2>6, <2>7, <2>8, LocalsOf DEF Fits
    <2> QED
      BY <2>5, <2>9, QuietStep
  <1> QED
    BY <1>1 DEF sys_close

LEMMA ChdirStep ==
  ASSUME TypeOK, FileSystem, NEW p \in Proc, sys_chdir(p)
  PROVE  TypeOK' /\ FileSystem'
  <1> DEFINE i == l[p].ip
  <1>0. /\ l[p].pc = "found" /\ Stage(p) = "found"
        /\ l[p].drop = 0 /\ l[p].dp = 0 /\ l[p].old = 0 /\ i \in Inum
    BY LocalsOf DEF sys_chdir, At, Shaped, Stage, StageOf, Pointer
  <1>p. {"iput", "idle"} \subseteq PC
    BY DEF PC
  <1>i. l[p] \in Locals /\ cwd[p] \in Pointer /\ 0 \in Pointer /\ l[p].drop = 0 /\ l[p].dp = 0 /\ l[p].old = 0
    BY <1>0, LocalsOf
  <1>1. ASSUME Local(p, [Put(p, i, "idle") EXCEPT !.ip = 0]), UNCHANGED cwd
        PROVE  TypeOK' /\ FileSystem'
    <2>1. valid' \subseteq Inum /\ UNCHANGED <<ondisk, ref, lock, fd, leaked, buried>>
      BY <1>0 DEF sys_chdir, TypeOK
    <2> QED
      BY <1>0, <1>1, <2>1, OpenStep
  <1>2. ASSUME Local(p, [Put(p, cwd[p], "idle") EXCEPT !.ip = 0]), cwd' = [cwd EXCEPT ![p] = i]
        PROVE  TypeOK' /\ FileSystem'
    <2>1. PICK f : f = [Put(p, cwd[p], "idle") EXCEPT !.ip = 0]
      OBVIOUS
    <2>2. /\ f \in Locals /\ f.pc = "iput" /\ f.drop = cwd[p] /\ f.ip = 0 /\ f.dp = 0 /\ f.old = 0
          /\ f.then = "idle"
      BY <1>i, <1>p, <2>1 DEF Put, Locals
    <2>3. Shaped(f) /\ StageOf(f) = "idle"
      BY <1>0, <1>p, <1>2, <2>2, LocalsOf DEF Shaped, StageOf
    <2>4. /\ l' = [l EXCEPT ![p] = f] /\ l'[p] = f
          /\ cwd'[p] = i /\ \A q \in Proc \ {p} : cwd'[q] = cwd[q]
          /\ valid' = valid \union {i} /\ UNCHANGED <<type, nlink, mode, owner, dirent, ref, lock, fd, leaked, buried>>
      BY <1>0, <1>p, <1>2, <2>1 DEF TypeOK, sys_chdir, Local, ondisk, icache
    <2>5. TypeOK'
      BY <1>0, <1>p, <1>2, <2>2, <2>4, LocalsOf DEF TypeOK
    <2>6. \A j \in Inum : ref'[j] - leaked'[j] - Tally(p, j)' = ref[j] - leaked[j] - Tally(p, j)
      <3>1. l'[p] = f /\ cwd'[p] = i /\ fd'[p] = fd[p] /\ 0 \notin Inum
        BY <1>0, <1>p, <1>2, <2>4, LocalsOf
      <3>2. \A j \in Inum : Tally(p, j) \in Int /\ Tally(p, j)' = Tally(p, j)
        BY <1>0, <2>2, <3>1 DEF Tally, One
      <3> QED
        BY <2>4, <3>2 DEF TypeOK
    <2>7. \A j \in Inum : nlink'[j] - Owes(f, j) = nlink[j] - Owes(l[p], j)
      BY <1>0, <1>p, <1>2, <2>2, <2>3, <2>4, LocalsOf DEF TypeOK, Owes, StageOf, One
    <2>8. \A j \in Inum : j \in {cwd'[p], fd'[p], f.ip, f.dp, f.old, f.drop} => Known(p, j)
      BY <1>0, <1>p, <1>2, <2>2, <2>4, LocalsOf DEF Known
    <2>9. Fits(p, f)
      BY <1>0, <1>p, <1>2, <2>2, <2>3, <2>4, <2>6, <2>7, <2>8, LocalsOf DEF Fits
    <2> QED
      BY <2>5, <2>9, QuietStep
  <1> QED
    BY <1>1, <1>2 DEF sys_chdir

LEMMA ChmodStep ==
  ASSUME TypeOK, FileSystem, NEW p \in Proc, chmod(p)
  PROVE  TypeOK' /\ FileSystem'
  <1> DEFINE i == l[p].ip
  <1>0. /\ l[p].pc = "found" /\ Stage(p) = "found"
        /\ l[p].drop = 0 /\ l[p].dp = 0 /\ l[p].old = 0 /\ i \in Inum
    BY LocalsOf DEF chmod, At, Shaped, Stage, StageOf, Pointer
  <1>1. /\ mode' \in [Inum -> Mode] /\ leaked' \in [Inum -> Nat]
        /\ \A j \in Inum : leaked'[j] = leaked[j] + (IF j = i THEN 1 ELSE 0)
    <2>1. l[p].mode \in Mode
      BY LocalsOf DEF Locals
    <2> QED
      BY <1>0, <2>1 DEF chmod, TypeOK
  <1>2. ASSUME Local(p, Idle)
        PROVE  TypeOK' /\ FileSystem'
    <2>1. PICK f : f = Idle
      OBVIOUS
    <2>2. /\ f \in Locals /\ f.pc = "idle" /\ f.drop = 0 /\ f.ip = 0 /\ f.dp = 0 /\ f.old = 0
      BY <1>0, <1>1, <1>2, <2>1, LocalsOf, IdleLocals DEF Put, Locals, Idle
    <2>3. Shaped(f) /\ StageOf(f) = "idle"
      BY <2>1, IdleLocals
    <2>4. /\ l' = [l EXCEPT ![p] = f] /\ l'[p] = f
          /\ valid' = valid \union {i} /\ UNCHANGED <<type, nlink, owner, dirent, ref, lock, cwd, fd, buried>>
      BY <1>0, <1>1, <1>2, <2>1 DEF TypeOK, chmod, Local, ondisk, icache
    <2>5. TypeOK'
      BY <1>0, <1>1, <1>2, <2>2, <2>4, LocalsOf DEF TypeOK
    <2>6. \A j \in Inum : ref'[j] - leaked'[j] - Tally(p, j)' = ref[j] - leaked[j] - Tally(p, j)
      <3>1. l'[p] = f /\ cwd'[p] = cwd[p] /\ fd'[p] = fd[p] /\ 0 \notin Inum
        BY <1>0, <1>1, <1>2, <2>4, LocalsOf
      <3>2. \A j \in Inum : Tally(p, j) \in Int /\ Tally(p, j)' = Tally(p, j) - (IF j = i THEN 1 ELSE 0)
        BY <1>0, <2>2, <3>1 DEF Tally, One
      <3> QED
        BY <1>1, <2>4, <3>2 DEF TypeOK
    <2>7. \A j \in Inum : nlink'[j] - Owes(f, j) = nlink[j] - Owes(l[p], j)
      BY <1>0, <1>1, <1>2, <2>2, <2>3, <2>4, LocalsOf DEF TypeOK, Owes, StageOf, One
    <2>8. \A j \in Inum : j \in {cwd'[p], fd'[p], f.ip, f.dp, f.old} => Known(p, j)
      BY <1>0, <1>1, <1>2, <2>2, <2>4, LocalsOf DEF Known
    <2>9. Fits(p, f)
      BY <1>0, <1>1, <1>2, <2>2, <2>3, <2>4, <2>6, <2>7, <2>8, LocalsOf DEF Fits
    <2> QED
      BY <2>5, <2>9, QuietStep
  <1> QED
    BY <1>2 DEF chmod

\* A directory that was looked at, and maybe locked, is put.
LEMMA PutParentStep ==
  ASSUME TypeOK, FileSystem, NEW p \in Proc, l[p].pc \in {"parent", "unlinkbad", "linkbad"},
         Local(p, [Put(p, l[p].dp, OnFailure(p)) EXCEPT !.dp = 0]),
         valid' \subseteq Inum, UNCHANGED <<ondisk, ref, cwd, fd, leaked, buried>>,
         UNCHANGED lock \/ (lock[l[p].dp] = p /\ lock' = [lock EXCEPT ![l[p].dp] = None])
  PROVE  TypeOK' /\ FileSystem'
  <1> DEFINE d == l[p].dp
  <1>0. /\ Stage(p) \in {"parent", "unlinkbad", "linkbad"} /\ l[p].drop = 0 /\ l[p].ip = 0 /\ d \in Inum
        /\ (l[p].old # 0 <=> l[p].call = "link2")
        /\ (l[p].call = "link" => l[p].new \in Path)
    BY LocalsOf DEF Shaped, Stage, StageOf, Pointer
  <1>1. /\ lock' \in [Inum -> Proc \union {None}]
        /\ \A j \in Inum, q \in Proc \ {p} : lock[j] = q => lock'[j] = q
    BY <1>0 DEF TypeOK
  <1>p. {"iput", "idle", "linkundo"} \subseteq PC
    BY DEF PC
  <1>i. l[p] \in Locals /\ d \in Pointer /\ 0 \in Pointer /\ l[p].ip = 0
    BY <1>0, LocalsOf
  <1>2. ASSUME Local(p, [Put(p, d, OnFailure(p)) EXCEPT !.dp = 0])
        PROVE  TypeOK' /\ FileSystem'
    <2>1. PICK f : f = [Put(p, d, OnFailure(p)) EXCEPT !.dp = 0]
      OBVIOUS
    <2>2. /\ f \in Locals /\ f.pc = "iput" /\ f.drop = d /\ f.ip = 0 /\ f.dp = 0 /\ f.old = l[p].old
          /\ f.then = OnFailure(p) /\ f.call = l[p].call /\ f.new = l[p].new
      BY <1>i, <1>p, <2>1 DEF Put, Locals, OnFailure
    <2>3. Shaped(f) /\ StageOf(f) \in {"idle", "linkundo"}
      BY <1>0, <1>1, <1>p, <1>2, <2>2, LocalsOf DEF Shaped, StageOf, OnFailure
    <2>4. /\ l' = [l EXCEPT ![p] = f] /\ l'[p] = f
          /\ UNCHANGED <<type, nlink, mode, owner, dirent, ref, cwd, fd, leaked, buried>>
      BY <1>0, <1>1, <1>p, <1>2, <2>1 DEF TypeOK, Known, Local, ondisk, icache
    <2>5. TypeOK'
      BY <1>0, <1>1, <1>p, <1>2, <2>2, <2>4, LocalsOf DEF TypeOK
    <2>6. \A j \in Inum : ref'[j] - leaked'[j] - Tally(p, j)' = ref[j] - leaked[j] - Tally(p, j)
      <3>1. l'[p] = f /\ cwd'[p] = cwd[p] /\ fd'[p] = fd[p] /\ 0 \notin Inum
        BY <1>0, <1>1, <1>p, <1>2, <2>4, LocalsOf
      <3>2. \A j \in Inum : Tally(p, j) \in Int /\ Tally(p, j)' = Tally(p, j)
        BY <1>0, <2>2, <3>1 DEF Tally, One
      <3> QED
        BY <2>4, <3>2 DEF TypeOK
    <2>7. \A j \in Inum : nlink'[j] - Owes(f, j) = nlink[j] - Owes(l[p], j)
      BY <1>0, <1>1, <1>p, <1>2, <2>2, <2>3, <2>4, LocalsOf DEF TypeOK, Owes, StageOf, One
    <2>8. \A j \in Inum : j \in {cwd'[p], fd'[p], f.ip, f.dp, f.old, f.drop} => Known(p, j)
      BY <1>0, <1>1, <1>p, <1>2, <2>2, <2>4, LocalsOf DEF Known
    <2>9. Fits(p, f)
      BY <1>0, <1>1, <1>p, <1>2, <2>2, <2>3, <2>4, <2>6, <2>7, <2>8, LocalsOf DEF Fits
    <2> QED
      BY <2>5, <2>9, QuietStep
  <1> QED
    BY <1>2

LEMMA UnlockStep ==
  ASSUME TypeOK, FileSystem, NEW p \in Proc,
         unlockbad(p, "unlinkbad", "idle") \/ unlockbad(p, "linkbad", "linkundo")
  PROVE  TypeOK' /\ FileSystem'
  <1>1. /\ l[p].pc \in {"unlinkbad", "linkbad"} /\ Stage(p) = l[p].pc
        /\ lock' = [lock EXCEPT ![l[p].dp] = None]
        /\ valid' = valid /\ UNCHANGED <<ondisk, ref, cwd, fd, leaked, buried>>
    BY DEF unlockbad, Stage, StageOf
  <1>2. lock[l[p].dp] = p
    BY <1>1, LocksOf
  <1>3. l[p].call = "link2" <=> l[p].pc = "linkbad"
    BY <1>1, LocalsOf DEF Shaped, StageOf
  <1>4. Local(p, [Put(p, l[p].dp, OnFailure(p)) EXCEPT !.dp = 0])
    BY <1>1, <1>3 DEF unlockbad, OnFailure
  <1>5. valid' \subseteq Inum
    BY <1>1 DEF TypeOK
  <1> QED
    BY <1>1, <1>2, <1>4, <1>5, PutParentStep

LEMMA LinkedStep ==
  ASSUME TypeOK, FileSystem, NEW p \in Proc, linked(p)
  PROVE  TypeOK' /\ FileSystem'
  <1>0. /\ l[p].pc = "linked" /\ Stage(p) = "linked" /\ l[p].drop = 0 /\ l[p].ip = 0 /\ l[p].dp = 0
        /\ l[p].old \in Inum
    BY LocalsOf DEF linked, Shaped, Stage, StageOf, Pointer
  <1>p. {"iput", "idle"} \subseteq PC
    BY DEF PC
  <1>i. l[p] \in Locals /\ l[p].old \in Pointer /\ 0 \in Pointer /\ l[p].ip = 0 /\ l[p].dp = 0
        /\ l[p].call = "link2"
    BY <1>0, LocalsOf DEF Shaped, StageOf
  <1>1. ASSUME Local(p, [Put(p, l[p].old, "idle") EXCEPT !.old = 0])
        PROVE  TypeOK' /\ FileSystem'
    <2>1. PICK f : f = [Put(p, l[p].old, "idle") EXCEPT !.old = 0]
      OBVIOUS
    <2>2. /\ f \in Locals /\ f.pc = "iput" /\ f.drop = l[p].old /\ f.ip = 0 /\ f.dp = 0 /\ f.old = 0
          /\ f.then = "idle" /\ f.call = "link2"
      BY <1>i, <1>p, <2>1 DEF Put, Locals
    <2>3. Shaped(f) /\ StageOf(f) = "idle"
      BY <1>0, <1>p, <1>1, <2>2, LocalsOf DEF Shaped, StageOf
    <2>4. /\ l' = [l EXCEPT ![p] = f] /\ l'[p] = f
          /\ UNCHANGED <<type, nlink, mode, owner, dirent, ref, valid, lock, cwd, fd, leaked, buried>>
      BY <1>0, <1>p, <1>1, <2>1 DEF TypeOK, linked, Local, ondisk, icache
    <2>5. TypeOK'
      BY <1>0, <1>p, <1>1, <2>2, <2>4, LocalsOf DEF TypeOK
    <2>6. \A j \in Inum : ref'[j] - leaked'[j] - Tally(p, j)' = ref[j] - leaked[j] - Tally(p, j)
      <3>1. l'[p] = f /\ cwd'[p] = cwd[p] /\ fd'[p] = fd[p] /\ 0 \notin Inum
        BY <1>0, <1>p, <1>1, <2>4, LocalsOf
      <3>2. \A j \in Inum : Tally(p, j) \in Int /\ Tally(p, j)' = Tally(p, j)
        BY <1>0, <2>2, <3>1 DEF Tally, One
      <3> QED
        BY <2>4, <3>2 DEF TypeOK
    <2>7. \A j \in Inum : nlink'[j] - Owes(f, j) = nlink[j] - Owes(l[p], j)
      BY <1>0, <1>p, <1>1, <2>2, <2>3, <2>4, LocalsOf DEF TypeOK, Owes, StageOf, One
    <2>8. \A j \in Inum : j \in {cwd'[p], fd'[p], f.ip, f.dp, f.old, f.drop} => Known(p, j)
      BY <1>0, <1>p, <1>1, <2>2, <2>4, LocalsOf DEF Known
    <2>9. Fits(p, f)
      BY <1>0, <1>p, <1>1, <2>2, <2>3, <2>4, <2>6, <2>7, <2>8, LocalsOf DEF Fits
    <2> QED
      BY <2>5, <2>9, QuietStep
  <1> QED
    BY <1>1 DEF linked

\* A link that is owed is counted.
LEMMA OwedIsCounted ==
  ASSUME TypeOK, FileSystem, NEW p \in Proc, NEW i \in Inum, p \in Owed(i)
  PROVE  nlink[i] >= 1
  <1>1. Cardinality(Owed(i)) # 0
    BY LinksFinite, FS_EmptySet
  <1>2. nlink[i] >= Links(i) + Cardinality(Owed(i)) /\ Links(i) \in Nat
    BY LinksFinite DEF FileSystem, LinksOwed, TypeOK, Links
  <1>3. Cardinality(Owed(i)) \in Nat
    BY LinksFinite
  <1>4. \A n, a, b \in Nat : b # 0 /\ n >= a + b => n >= 1
    OBVIOUS
  <1> QED
    BY <1>1, <1>2, <1>3, <1>4 DEF TypeOK

LEMMA UndoStep ==
  ASSUME TypeOK, FileSystem, NEW p \in Proc, linkundo(p)
  PROVE  TypeOK' /\ FileSystem'
  <1> DEFINE i == l[p].old
  <1>0. /\ l[p].pc = "linkundo" /\ Stage(p) = "linkundo" /\ l[p].drop = 0 /\ l[p].ip = 0 /\ l[p].dp = 0
        /\ i \in Inum
    BY LocalsOf DEF linkundo, Shaped, Stage, StageOf, Pointer
  <1>p. {"iput", "idle"} \subseteq PC
    BY DEF PC
  <1>i. l[p] \in Locals /\ i \in Pointer /\ 0 \in Pointer /\ l[p].ip = 0 /\ l[p].dp = 0
        /\ l[p].call = "link2"
    BY <1>0, LocalsOf DEF Shaped, StageOf
  <1>1. /\ nlink' \in [Inum -> Nat]
        /\ \A j \in Inum : nlink'[j] = nlink[j] - (IF j = i THEN 1 ELSE 0)
    <2>1. nlink[i] >= 1
      BY <1>0, OwedIsCounted DEF Owed
    <2>2. \A n \in Nat : n >= 1 => n - 1 \in Nat
      OBVIOUS
    <2> QED
      BY <1>0, <2>1, <2>2 DEF linkundo, TypeOK
  <1>2. ASSUME Local(p, [Put(p, i, "idle") EXCEPT !.old = 0])
        PROVE  TypeOK' /\ FileSystem'
    <2>1. PICK f : f = [Put(p, i, "idle") EXCEPT !.old = 0]
      OBVIOUS
    <2>2. /\ f \in Locals /\ f.pc = "iput" /\ f.drop = i /\ f.ip = 0 /\ f.dp = 0 /\ f.old = 0
          /\ f.then = "idle" /\ f.call = "link2"
      BY <1>i, <1>p, <2>1 DEF Put, Locals
    <2>3. Shaped(f) /\ StageOf(f) = "idle"
      BY <1>0, <1>1, <1>p, <1>2, <2>2, LocalsOf DEF Shaped, StageOf
    <2>4. /\ l' = [l EXCEPT ![p] = f] /\ l'[p] = f
          /\ valid' = valid \union {i} /\ UNCHANGED <<type, mode, owner, dirent, ref, lock, cwd, fd, leaked, buried>>
      BY <1>0, <1>1, <1>p, <1>2, <2>1 DEF TypeOK, linkundo, Local, ondisk, icache
    <2>5. TypeOK'
      BY <1>0, <1>1, <1>p, <1>2, <2>2, <2>4, LocalsOf DEF TypeOK
    <2>6. \A j \in Inum : ref'[j] - leaked'[j] - Tally(p, j)' = ref[j] - leaked[j] - Tally(p, j)
      <3>1. l'[p] = f /\ cwd'[p] = cwd[p] /\ fd'[p] = fd[p] /\ 0 \notin Inum
        BY <1>0, <1>1, <1>p, <1>2, <2>4, LocalsOf
      <3>2. \A j \in Inum : Tally(p, j) \in Int /\ Tally(p, j)' = Tally(p, j)
        BY <1>0, <2>2, <3>1 DEF Tally, One
      <3> QED
        BY <2>4, <3>2 DEF TypeOK
    <2>7. \A j \in Inum : nlink'[j] - Owes(f, j) = nlink[j] - Owes(l[p], j)
      BY <1>0, <1>1, <1>p, <1>2, <2>2, <2>3, <2>4, LocalsOf DEF TypeOK, Owes, StageOf, One
    <2>8. \A j \in Inum : j \in {cwd'[p], fd'[p], f.ip, f.dp, f.old, f.drop} => Known(p, j)
      BY <1>0, <1>1, <1>p, <1>2, <2>2, <2>4, LocalsOf DEF Known
    <2>9. Fits(p, f)
      BY <1>0, <1>1, <1>p, <1>2, <2>2, <2>3, <2>4, <2>6, <2>7, <2>8, LocalsOf DEF Fits
    <2> QED
      BY <2>5, <2>9, QuietStep
  <1> QED
    BY <1>2 DEF linkundo

\* The inode whose name is gone loses the link it was still counted.
LEMMA UnlinkedStep ==
  ASSUME TypeOK, FileSystem, NEW p \in Proc, unlinked(p)
  PROVE  TypeOK' /\ FileSystem'
  <1> DEFINE i == l[p].ip
  <1>0. /\ l[p].pc = "unlinked" /\ Stage(p) = "unlinked" /\ l[p].drop = 0 /\ l[p].dp = 0 /\ l[p].old = 0
        /\ i \in Inum
    BY LocalsOf DEF unlinked, Shaped, Stage, StageOf, Pointer
  <1>p. {"iput", "idle"} \subseteq PC
    BY DEF PC
  <1>i. l[p] \in Locals /\ i \in Pointer /\ 0 \in Pointer /\ l[p].old = 0 /\ l[p].dp = 0
    BY <1>0, LocalsOf
  <1>1. /\ nlink' \in [Inum -> Nat]
        /\ \A j \in Inum : nlink'[j] = nlink[j] - (IF j = i THEN 1 ELSE 0)
        /\ lock' \in [Inum -> Proc \union {None}]
        /\ \A j \in Inum, q \in Proc \ {p} : lock[j] = q => lock'[j] = q
    <2>1. nlink[i] >= 1
      BY <1>0, OwedIsCounted DEF Owed
    <2>2. \A n \in Nat : n >= 1 => n - 1 \in Nat
      OBVIOUS
    <2>3. lock[i] = p
      BY <1>0, LocksOf
    <2> QED
      BY <1>0, <2>1, <2>2, <2>3 DEF unlinked, TypeOK
  <1>2. ASSUME Local(p, [Put(p, i, "idle") EXCEPT !.ip = 0])
        PROVE  TypeOK' /\ FileSystem'
    <2>1. PICK f : f = [Put(p, i, "idle") EXCEPT !.ip = 0]
      OBVIOUS
    <2>2. /\ f \in Locals /\ f.pc = "iput" /\ f.drop = i /\ f.ip = 0 /\ f.dp = 0 /\ f.old = 0
          /\ f.then = "idle"
      BY <1>i, <1>p, <2>1 DEF Put, Locals
    <2>3. Shaped(f) /\ StageOf(f) = "idle"
      BY <1>0, <1>1, <1>p, <1>2, <2>2, LocalsOf DEF Shaped, StageOf
    <2>4. /\ l' = [l EXCEPT ![p] = f] /\ l'[p] = f
          /\ UNCHANGED <<type, mode, owner, dirent, ref, valid, cwd, fd, leaked, buried>>
      BY <1>0, <1>1, <1>p, <1>2, <2>1 DEF TypeOK, unlinked, Local, ondisk, icache
    <2>5. TypeOK'
      BY <1>0, <1>1, <1>p, <1>2, <2>2, <2>4, LocalsOf DEF TypeOK
    <2>6. \A j \in Inum : ref'[j] - leaked'[j] - Tally(p, j)' = ref[j] - leaked[j] - Tally(p, j)
      <3>1. l'[p] = f /\ cwd'[p] = cwd[p] /\ fd'[p] = fd[p] /\ 0 \notin Inum
        BY <1>0, <1>1, <1>p, <1>2, <2>4, LocalsOf
      <3>2. \A j \in Inum : Tally(p, j) \in Int /\ Tally(p, j)' = Tally(p, j)
        BY <1>0, <2>2, <3>1 DEF Tally, One
      <3> QED
        BY <2>4, <3>2 DEF TypeOK
    <2>7. \A j \in Inum : nlink'[j] - Owes(f, j) = nlink[j] - Owes(l[p], j)
      BY <1>0, <1>1, <1>p, <1>2, <2>2, <2>3, <2>4, LocalsOf DEF TypeOK, Owes, StageOf, One
    <2>8. \A j \in Inum : j \in {cwd'[p], fd'[p], f.ip, f.dp, f.old, f.drop} => Known(p, j)
      BY <1>0, <1>1, <1>p, <1>2, <2>2, <2>4, LocalsOf DEF Known
    <2>9. Fits(p, f)
      BY <1>0, <1>1, <1>p, <1>2, <2>2, <2>3, <2>4, <2>6, <2>7, <2>8, LocalsOf DEF Fits
    <2> QED
      BY <2>5, <2>9, QuietStep
  <1> QED
    BY <1>2 DEF unlinked

\* Who locks an unlocked inode takes nobody's lock.
LEMMA Locked ==
  ASSUME TypeOK, NEW p \in Proc, NEW i \in Inum, Free(i), lock' = [lock EXCEPT ![i] = p]
  PROVE  /\ lock' \in [Inum -> Proc \union {None}] /\ lock'[i] = p
         /\ \A j \in Inum, q \in Proc \ {p} : lock[j] = q => lock'[j] = q
  BY Constants DEF TypeOK, Free

\* Names found in a directory: one that create finds, the victim of unlink, one
\* that keeps link from entering its own.
LEMMA ExistsStep ==
  ASSUME TypeOK, FileSystem, NEW p \in Proc, l[p].pc = "parent", l[p].call \in {"create", "mkdir"},
         dirent[l[p].dp][l[p].name] # 0, Refer(dirent[l[p].dp][l[p].name]),
         Local(p, [Put(p, l[p].dp, "exists") EXCEPT !.ip = dirent[l[p].dp][l[p].name], !.dp = 0]),
         valid' = valid \union {l[p].dp},
         UNCHANGED <<type, nlink, mode, owner, dirent, lock, cwd, fd, leaked, buried>>
  PROVE  TypeOK' /\ FileSystem'
  <1> DEFINE d == l[p].dp
             e == dirent[d][l[p].name]
  <1>0. /\ l[p].pc = "parent" /\ Stage(p) = "parent" /\ l[p].drop = 0 /\ l[p].ip = 0 /\ d \in Inum
        /\ l[p].name \in Name /\ (l[p].old # 0 <=> l[p].call = "link2") /\ l[p].call # "link"
        /\ WantsParent(l[p].call)
    BY LocalsOf DEF Shaped, Stage, StageOf, Pointer, WantsParent
  <1>c. e \in Pointer /\ (e # 0 => e \in Inum)
    BY <1>0 DEF TypeOK, Pointer
  <1>p. {"iput", "exists", "victim", "linkbad"} \subseteq PC
    BY DEF PC
  <1>i. l[p] \in Locals /\ d \in Pointer /\ e \in Pointer /\ 0 \in Pointer /\ l[p].ip = 0 /\ l[p].drop = 0
    BY <1>0, <1>c, LocalsOf
  <1>1. ASSUME Local(p, [Put(p, d, "exists") EXCEPT !.ip = e, !.dp = 0])
        PROVE  TypeOK' /\ FileSystem'
    <2>1. PICK f : f = [Put(p, d, "exists") EXCEPT !.ip = e, !.dp = 0]
      OBVIOUS
    <2>2. /\ f \in Locals /\ f.pc = "iput" /\ f.drop = d /\ f.ip = e /\ f.dp = 0 /\ f.old = l[p].old
          /\ f.then = "exists" /\ f.call = l[p].call
      BY <1>i, <1>p, <2>1 DEF Put, Locals
    <2>3. Shaped(f) /\ StageOf(f) = "exists"
      BY <1>0, <1>c, <1>p, <1>1, <2>2, LocalsOf DEF Shaped, StageOf
    <2>4. /\ l' = [l EXCEPT ![p] = f] /\ l'[p] = f
          /\ ref' \in [Inum -> Nat] /\ \A j \in Inum : ref'[j] = ref[j] + (IF j = e THEN 1 ELSE 0)
          /\ UNCHANGED <<type, nlink, mode, owner, dirent, lock, cwd, fd, leaked, buried>>
      BY <1>0, <1>c, <1>p, <1>1, <2>1, Referred DEF TypeOK, Known, Local, ondisk, icache
    <2>5. TypeOK'
      BY <1>0, <1>c, <1>p, <1>1, <2>2, <2>4, LocalsOf DEF TypeOK
    <2>6. \A j \in Inum : ref'[j] - leaked'[j] - Tally(p, j)' = ref[j] - leaked[j] - Tally(p, j)
      <3>1. l'[p] = f /\ cwd'[p] = cwd[p] /\ fd'[p] = fd[p] /\ 0 \notin Inum /\ e \in Inum
        BY <1>0, <1>c, <1>p, <1>1, <2>4, LocalsOf
      <3> HIDE DEF e
      <3>2. \A j \in Inum : Tally(p, j) \in Int /\ Tally(p, j)' = Tally(p, j) + (IF j = e THEN 1 ELSE 0)
        BY <1>0, <2>2, <3>1 DEF Tally, One
      <3> QED
        BY <2>4, <3>2 DEF TypeOK
    <2>7. \A j \in Inum : nlink'[j] - Owes(f, j) = nlink[j] - Owes(l[p], j)
      BY <1>0, <1>c, <1>p, <1>1, <2>2, <2>3, <2>4, LocalsOf DEF TypeOK, Owes, StageOf, One
    <2>8. \A j \in Inum : j \in {cwd'[p], fd'[p], f.ip, f.dp, f.old, f.drop} => Known(p, j)
      BY <1>0, <1>c, <1>p, <1>1, <2>2, <2>4, LocalsOf DEF Known
    <2>9. Fits(p, f)
      BY <1>0, <1>c, <1>p, <1>1, <2>2, <2>3, <2>4, <2>6, <2>7, <2>8, LocalsOf DEF Fits
    <2> QED
      BY <2>5, <2>9, QuietStep
  <1> QED
    BY <1>1

LEMMA VictimFound ==
  ASSUME TypeOK, FileSystem, NEW p \in Proc, At(p, "parent", "unlink"), Free(l[p].dp),
         dirent[l[p].dp][l[p].name] # 0, Refer(dirent[l[p].dp][l[p].name]),
         Local(p, [l[p] EXCEPT !.pc = "victim", !.ip = dirent[l[p].dp][l[p].name]]),
         lock' = [lock EXCEPT ![l[p].dp] = p], valid' = valid \union {l[p].dp},
         UNCHANGED <<type, nlink, mode, owner, dirent, cwd, fd, leaked, buried>>
  PROVE  TypeOK' /\ FileSystem'
  <1> DEFINE d == l[p].dp
             e == dirent[d][l[p].name]
  <1>0. /\ l[p].pc = "parent" /\ Stage(p) = "parent" /\ l[p].drop = 0 /\ l[p].ip = 0 /\ d \in Inum
        /\ l[p].name \in Name /\ (l[p].old # 0 <=> l[p].call = "link2") /\ l[p].call = "unlink"
        /\ WantsParent(l[p].call)
    BY LocalsOf DEF Shaped, Stage, StageOf, Pointer, WantsParent, At
  <1>c. e \in Pointer /\ (e # 0 => e \in Inum)
    BY <1>0 DEF TypeOK, Pointer
  <1>p. {"iput", "exists", "victim", "linkbad"} \subseteq PC
    BY DEF PC
  <1>i. l[p] \in Locals /\ d \in Pointer /\ e \in Pointer /\ 0 \in Pointer /\ l[p].ip = 0 /\ l[p].drop = 0
        /\ l[p].call = "unlink"
    BY <1>0, <1>c, LocalsOf
  <1>r. ref' \in [Inum -> Nat] /\ \A j \in Inum : ref'[j] = ref[j] + (IF j = e THEN 1 ELSE 0)
    BY <1>c, Referred
  <1>l. /\ lock' \in [Inum -> Proc \union {None}] /\ lock'[d] = p
        /\ \A j \in Inum, q \in Proc \ {p} : lock[j] = q => lock'[j] = q
    BY <1>0, Locked
  <1>1. ASSUME Local(p, [l[p] EXCEPT !.pc = "victim", !.ip = e])
        PROVE  TypeOK' /\ FileSystem'
    <2>1. PICK f : f = [l[p] EXCEPT !.pc = "victim", !.ip = e]
      OBVIOUS
    <2>2. /\ f \in Locals /\ f.pc = "victim" /\ f.drop = 0 /\ f.ip = e /\ f.dp = d /\ f.old = l[p].old
          /\ f.name = l[p].name /\ f.call = "unlink"
      BY <1>i, <1>p, <2>1 DEF Put, Locals
    <2>3. Shaped(f) /\ StageOf(f) = "victim"
      <3>1. f.ip # 0 /\ f.dp # 0 /\ f.name \in Name /\ f.old = 0
        BY <1>0, <2>2, Constants
      <3> QED
        BY <2>2, <3>1 DEF Shaped, StageOf
    <2>4. /\ l' = [l EXCEPT ![p] = f] /\ l'[p] = f
          /\ valid' = valid \union {d}
          /\ UNCHANGED <<type, nlink, mode, owner, dirent, cwd, fd, leaked, buried>>
      BY <1>0, <1>c, <1>p, <1>l, <1>r, <1>1, <2>1 DEF TypeOK, Known, Local, ondisk, icache
    <2>5. TypeOK'
      BY <1>0, <1>c, <1>p, <1>l, <1>r, <1>1, <2>2, <2>4, LocalsOf DEF TypeOK
    <2>6. \A j \in Inum : ref'[j] - leaked'[j] - Tally(p, j)' = ref[j] - leaked[j] - Tally(p, j)
      <3>1. l'[p] = f /\ cwd'[p] = cwd[p] /\ fd'[p] = fd[p] /\ 0 \notin Inum /\ e \in Inum
        BY <1>0, <1>c, <1>p, <1>l, <1>r, <1>1, <2>4, LocalsOf
      <3> HIDE DEF e
      <3>2. \A j \in Inum : Tally(p, j) \in Int /\ Tally(p, j)' = Tally(p, j) + (IF j = e THEN 1 ELSE 0)
        BY <1>0, <2>2, <3>1 DEF Tally, One
      <3> QED
        BY <1>r, <2>4, <3>2, SMTT(40) DEF TypeOK
    <2>7. \A j \in Inum : nlink'[j] - Owes(f, j) = nlink[j] - Owes(l[p], j)
      BY <1>0, <1>c, <1>p, <1>l, <1>r, <1>1, <2>2, <2>3, <2>4, LocalsOf DEF TypeOK, Owes, StageOf, One
    <2>8. \A j \in Inum : j \in {cwd'[p], fd'[p], f.ip, f.dp, f.old} => Known(p, j)
      <3>1. /\ cwd'[p] = cwd[p] /\ fd'[p] = fd[p] /\ f.dp = l[p].dp /\ f.old = l[p].old
            /\ f.ip = dirent[d][l[p].name]
        BY <2>2, <2>4
      <3> HIDE DEF d, e
      <3>2. \A j \in Inum : j = dirent[d][l[p].name] => Known(p, j)
        BY <1>0 DEF Known
      <3> QED
        BY <3>1, <3>2 DEF Known
    <2>9. Fits(p, f)
      BY <1>0, <1>c, <1>p, <1>l, <1>r, <1>1, <2>2, <2>3, <2>4, <2>6, <2>7, <2>8, LocalsOf DEF Fits
    <2> QED
      BY <2>5, <2>9, QuietStep
  <1> QED
    BY <1>1

LEMMA VictimStep ==
  ASSUME TypeOK, FileSystem, NEW p \in Proc, sys_unlink(p)
  PROVE  TypeOK' /\ FileSystem'
  <1> DEFINE d == l[p].dp
             e == dirent[d][l[p].name]
  <1>0. l[p].pc = "parent" /\ l[p].call = "unlink" /\ d \in Inum
    BY LocalsOf DEF Shaped, StageOf, Pointer, sys_unlink, At
  <1>1. CASE e = 0 \/ ~MayWrite(p, d)
    <2>1. Local(p, [Put(p, d, OnFailure(p)) EXCEPT !.dp = 0]) /\ UNCHANGED <<ondisk, ref, lock, cwd, fd, leaked, buried>>
      BY <1>0, <1>1 DEF sys_unlink, OnFailure
    <2>2. valid' \subseteq Inum
      BY <1>0 DEF sys_unlink, TypeOK
    <2> QED
      BY <1>0, <2>1, <2>2, PutParentStep
  <1>2. CASE ~(e = 0 \/ ~MayWrite(p, d))
    <2>1. /\ Refer(e) /\ lock' = [lock EXCEPT ![d] = p] /\ At(p, "parent", "unlink") /\ Free(d) /\ e # 0
          /\ Local(p, [l[p] EXCEPT !.pc = "victim", !.ip = e]) /\ valid' = valid \union {d}
          /\ UNCHANGED <<type, nlink, mode, owner, dirent, cwd, fd, leaked, buried>>
      BY <1>2 DEF sys_unlink, ondisk
    <2> QED
      BY <2>1, VictimFound
  <1> QED
    BY <1>1, <1>2

LEMMA RefusedLinkStep ==
  ASSUME TypeOK, FileSystem, NEW p \in Proc, At(p, "parent", "link2"), Free(l[p].dp),
         dirent[l[p].dp][l[p].name] # 0, Refer(dirent[l[p].dp][l[p].name]),
         Local(p, Put(p, dirent[l[p].dp][l[p].name], "linkbad")),
         lock' = [lock EXCEPT ![l[p].dp] = p], valid' = valid \union {l[p].dp},
         UNCHANGED <<type, nlink, mode, owner, dirent, cwd, fd, leaked, buried>>
  PROVE  TypeOK' /\ FileSystem'
  <1> DEFINE d == l[p].dp
             e == dirent[d][l[p].name]
  <1>0. /\ l[p].pc = "parent" /\ Stage(p) = "parent" /\ l[p].drop = 0 /\ l[p].ip = 0 /\ d \in Inum
        /\ l[p].name \in Name /\ (l[p].old # 0 <=> l[p].call = "link2") /\ l[p].call = "link2"
        /\ WantsParent(l[p].call)
    BY LocalsOf DEF Shaped, Stage, StageOf, Pointer, WantsParent, At
  <1>c. e \in Pointer /\ (e # 0 => e \in Inum)
    BY <1>0 DEF TypeOK, Pointer
  <1>p. {"iput", "exists", "victim", "linkbad"} \subseteq PC
    BY DEF PC
  <1>i. l[p] \in Locals /\ d \in Pointer /\ e \in Pointer /\ 0 \in Pointer /\ l[p].ip = 0 /\ l[p].drop = 0
    BY <1>0, <1>c, LocalsOf
  <1>r. ref' \in [Inum -> Nat] /\ \A j \in Inum : ref'[j] = ref[j] + (IF j = e THEN 1 ELSE 0)
    BY <1>c, Referred
  <1>l. /\ lock' \in [Inum -> Proc \union {None}] /\ lock'[d] = p
        /\ \A j \in Inum, q \in Proc \ {p} : lock[j] = q => lock'[j] = q
    BY <1>0, Locked
  <1>1. ASSUME Local(p, Put(p, e, "linkbad"))
        PROVE  TypeOK' /\ FileSystem'
    <2>1. PICK f : f = Put(p, e, "linkbad")
      OBVIOUS
    <2>2. /\ f \in Locals /\ f.pc = "iput" /\ f.drop = e /\ f.ip = 0 /\ f.dp = d /\ f.old = l[p].old
          /\ f.then = "linkbad" /\ f.call = l[p].call
      BY <1>i, <1>p, <2>1 DEF Put, Locals
    <2>3. Shaped(f) /\ StageOf(f) = "linkbad"
      BY <1>0, <1>1, <2>2, LocalsOf DEF Shaped, StageOf
    <2>4. /\ l' = [l EXCEPT ![p] = f] /\ l'[p] = f
          /\ UNCHANGED <<type, nlink, mode, owner, dirent, cwd, fd, leaked, buried>>
      BY <1>0, <1>c, <1>p, <1>l, <1>r, <1>1, <2>1 DEF TypeOK, Known, Local, ondisk, icache
    <2>5. TypeOK'
      BY <1>0, <1>c, <1>p, <1>l, <1>r, <1>1, <2>2, <2>4, LocalsOf DEF TypeOK
    <2>6. \A j \in Inum : ref'[j] - leaked'[j] - Tally(p, j)' = ref[j] - leaked[j] - Tally(p, j)
      <3>1. l'[p] = f /\ cwd'[p] = cwd[p] /\ fd'[p] = fd[p] /\ 0 \notin Inum /\ e \in Inum
        BY <1>0, <1>c, <1>p, <1>l, <1>r, <1>1, <2>4, LocalsOf
      <3> HIDE DEF e
      <3>2. \A j \in Inum : Tally(p, j) \in Int /\ Tally(p, j)' = Tally(p, j) + (IF j = e THEN 1 ELSE 0)
        BY <1>0, <2>2, <3>1 DEF Tally, One
      <3> QED
        BY <1>r, <2>4, <3>2 DEF TypeOK
    <2>7. \A j \in Inum : nlink'[j] - Owes(f, j) = nlink[j] - Owes(l[p], j)
      BY <1>0, <1>c, <1>p, <1>l, <1>r, <1>1, <2>2, <2>3, <2>4, LocalsOf DEF TypeOK, Owes, StageOf, One
    <2>8. \A j \in Inum : j \in {cwd'[p], fd'[p], f.ip, f.dp, f.old, f.drop} => Known(p, j)
      BY <1>0, <1>c, <1>p, <1>l, <1>r, <1>1, <2>2, <2>4, LocalsOf, SMTT(40) DEF Known
    <2>9. Fits(p, f)
      BY <1>0, <1>c, <1>p, <1>l, <1>r, <1>1, <2>2, <2>3, <2>4, <2>6, <2>7, <2>8, LocalsOf DEF Fits
    <2> QED
      BY <2>5, <2>9, QuietStep
  <1> QED
    BY <1>1

\* The victim is a directory with names in it.
LEMMA SparedStep ==
  ASSUME TypeOK, FileSystem, NEW p \in Proc, l[p].pc = "victim",
         Local(p, [Put(p, l[p].ip, "unlinkbad") EXCEPT !.ip = 0]), valid' = valid \union {l[p].ip},
         UNCHANGED <<type, nlink, mode, owner, dirent, ref, lock, cwd, fd, leaked, buried>>
  PROVE  TypeOK' /\ FileSystem'
  <1> DEFINE i == l[p].ip
  <1>0. /\ l[p].pc = "victim" /\ Stage(p) = "victim" /\ l[p].drop = 0 /\ i \in Inum /\ l[p].dp \in Inum
        /\ l[p].old = 0 /\ l[p].call # "link2" /\ (l[p].call = "link" => l[p].new \in Path)
    BY LocalsOf DEF Shaped, Stage, StageOf, Pointer
  <1>p. {"iput", "unlinkbad"} \subseteq PC
    BY DEF PC
  <1>i. l[p] \in Locals /\ i \in Pointer /\ 0 \in Pointer
    BY <1>0, LocalsOf
  <1>1. ASSUME Local(p, [Put(p, i, "unlinkbad") EXCEPT !.ip = 0])
        PROVE  TypeOK' /\ FileSystem'
    <2>1. PICK f : f = [Put(p, i, "unlinkbad") EXCEPT !.ip = 0]
      OBVIOUS
    <2>2. /\ f \in Locals /\ f.pc = "iput" /\ f.drop = i /\ f.ip = 0 /\ f.dp = l[p].dp /\ f.old = l[p].old
          /\ f.then = "unlinkbad" /\ f.call = l[p].call /\ f.new = l[p].new
      BY <1>i, <1>p, <2>1 DEF Put, Locals
    <2>3. Shaped(f) /\ StageOf(f) = "unlinkbad"
      BY <1>0, <1>p, <1>1, <2>2, LocalsOf DEF Shaped, StageOf
    <2>4. /\ l' = [l EXCEPT ![p] = f] /\ l'[p] = f
          /\ UNCHANGED <<type, nlink, mode, owner, dirent, ref, lock, cwd, fd, leaked, buried>>
      BY <1>0, <1>p, <1>1, <2>1 DEF TypeOK, Known, Local, ondisk, icache
    <2>5. TypeOK'
      BY <1>0, <1>p, <1>1, <2>2, <2>4, LocalsOf DEF TypeOK
    <2>6. \A j \in Inum : ref'[j] - leaked'[j] - Tally(p, j)' = ref[j] - leaked[j] - Tally(p, j)
      <3>1. l'[p] = f /\ cwd'[p] = cwd[p] /\ fd'[p] = fd[p] /\ 0 \notin Inum
        BY <1>0, <1>p, <1>1, <2>4, LocalsOf
      <3>2. \A j \in Inum : Tally(p, j) \in Int /\ Tally(p, j)' = Tally(p, j)
        BY <1>0, <2>2, <3>1 DEF Tally, One
      <3> QED
        BY <2>4, <3>2 DEF TypeOK
    <2>7. \A j \in Inum : nlink'[j] - Owes(f, j) = nlink[j] - Owes(l[p], j)
      BY <1>0, <1>p, <1>1, <2>2, <2>3, <2>4, LocalsOf DEF TypeOK, Owes, StageOf, One
    <2>8. \A j \in Inum : j \in {cwd'[p], fd'[p], f.ip, f.dp, f.old, f.drop} => Known(p, j)
      BY <1>0, <1>p, <1>1, <2>2, <2>4, LocalsOf DEF Known
    <2>9. Fits(p, f)
      BY <1>0, <1>p, <1>1, <2>2, <2>3, <2>4, <2>6, <2>7, <2>8, LocalsOf, LocksOf DEF Fits
    <2> QED
      BY <2>5, <2>9, QuietStep
  <1> QED
    BY <1>1

\* The old name of sys_link gets a link, and the new one is looked up.
LEMMA LinkStep ==
  ASSUME TypeOK, FileSystem, NEW p \in Proc, sys_link(p)
  PROVE  TypeOK' /\ FileSystem'
  <1> DEFINE i == l[p].ip
             s == Start(p, l[p].new)
  <1>0. /\ l[p].pc = "found" /\ Stage(p) = "found" /\ l[p].call = "link"
        /\ l[p].drop = 0 /\ l[p].dp = 0 /\ l[p].old = 0 /\ i \in Inum /\ l[p].new \in Path
    BY LocalsOf DEF sys_link, At, Shaped, Stage, StageOf, Pointer
  <1>1. CASE type[i] = "dir"
    <2>1. /\ Local(p, [Put(p, i, "idle") EXCEPT !.ip = 0]) /\ UNCHANGED fd
          /\ UNCHANGED <<ondisk, ref, cwd, leaked, buried>> /\ UNCHANGED lock
      BY <1>1 DEF sys_link, ondisk
    <2>2. valid' \subseteq Inum
      BY <1>0 DEF sys_link, TypeOK
    <2> QED
      BY <1>0, <2>1, <2>2, OpenStep
  <1>2. CASE type[i] # "dir"
    <2>1. s \in Inum /\ Known(p, s)
      BY RootKnown
    <2>2. PICK g : g = [l[p] EXCEPT !.call = "link2", !.old = i, !.ip = s, !.rest = l[p].new.names, !.new = None]
      OBVIOUS
    <2>3. /\ g \in Locals /\ g.ip = s /\ g.dp = 0 /\ g.drop = 0 /\ g.old = i /\ g.call = "link2"
      <3>1. /\ l[p].new.names \in Seq(Name) /\ None \in Path \union {None}
            /\ s \in Pointer /\ i \in Pointer /\ "link2" \in Syscall
        BY <1>0, <2>1, LocalsOf DEF Path, Syscall
      <3> QED
        BY <1>0, <2>2, <3>1, LocalsOf, ZenonT(60) DEF Locals
    <2>4. PICK f : f = Walk(g)
      OBVIOUS
    <2>5. /\ f \in Locals /\ Shaped(f) /\ StageOf(f) \in {"walk", "found", "idle", "linkundo"}
          /\ f.dp = 0 /\ f.old = i /\ f.call = "link2"
          /\ (f.ip = s /\ f.drop = 0) \/ (f.ip = 0 /\ f.drop = s)
      <3>1. i # 0 /\ (g.old # 0 <=> g.call = "link2") /\ (g.call = "link" => g.new \in Path)
        BY <1>0, <2>3, LocalsOf
      <3> QED
        BY <2>1, <2>3, <2>4, <3>1, WalkLocals
    <2>6. /\ l' = [l EXCEPT ![p] = f] /\ l'[p] = f
          /\ Refer(s) /\ nlink' = [nlink EXCEPT ![i] = @ + 1] /\ valid' = valid \union {i}
          /\ UNCHANGED <<type, mode, owner, dirent, lock, cwd, fd, leaked, buried>>
      BY <1>2, <2>2, <2>4 DEF TypeOK, sys_link, Local
    <2>7. ref' \in [Inum -> Nat] /\ \A j \in Inum : ref'[j] = ref[j] + (IF j = s THEN 1 ELSE 0)
      BY <2>1, <2>6, Referred
    <2>8. nlink' \in [Inum -> Nat] /\ \A j \in Inum : nlink'[j] = nlink[j] + (IF j = i THEN 1 ELSE 0)
      BY <1>0, <2>6 DEF TypeOK
    <2>9. TypeOK'
      BY <1>0, <2>5, <2>6, <2>7, <2>8 DEF TypeOK
    <2>10. \A j \in Inum : ref'[j] - leaked'[j] - Tally(p, j)' = ref[j] - leaked[j] - Tally(p, j)
      <3>1. l'[p] = f /\ cwd'[p] = cwd[p] /\ fd'[p] = fd[p] /\ 0 \notin Inum /\ s \in Inum
        BY <2>1, <2>6, LocalsOf
      <3> HIDE DEF s
      <3>2. \A j \in Inum : Tally(p, j) \in Int /\ Tally(p, j)' = Tally(p, j) + (IF j = s THEN 1 ELSE 0)
        BY <1>0, <2>5, <3>1 DEF Tally, One
      <3>3. \A j \in Inum : ref[j] \in Int /\ leaked[j] \in Int /\ leaked'[j] = leaked[j]
        BY <2>6 DEF TypeOK
      <3> HIDE DEF i
      <3> QED
        BY <2>7, <3>2, <3>3
    <2>11. \A j \in Inum : nlink'[j] - Owes(f, j) = nlink[j] - Owes(l[p], j)
      <3>1. \A j \in Inum : Owes(f, j) = (IF j = i THEN 1 ELSE 0) /\ Owes(l[p], j) = 0
        BY <1>0, <2>5, LocalsOf DEF Owes, StageOf, One
      <3>2. \A j \in Inum : nlink[j] \in Int
        BY DEF TypeOK
      <3> HIDE DEF i
      <3> QED
        BY <2>8, <3>1, <3>2
    <2>12. \A j \in Inum : j \in {cwd'[p], fd'[p], f.ip, f.dp, f.old, f.drop} => Known(p, j)
      BY <1>0, <2>1, <2>5, <2>6, LocalsOf DEF Known
    <2>13. type[i] = "file"
      BY <1>0, <1>2, UsedByFields DEF FileSystem, TypeOK
    <2>14. Fits(p, f)
      <3>1. f.pc = "iput" => f.drop \in Inum
        BY <2>5, LocalsOf DEF Shaped, Pointer, Locals
      <3> QED
        BY <1>0, <2>5, <2>6, <2>10, <2>11, <2>12, <2>13, <3>1, LocalsOf DEF Fits
    <2> QED
      BY <2>9, <2>14, QuietStep
  <1> QED
    BY <1>1, <1>2

-----------------------------------------------------------------------------
(* The calls that enter a name or clear one.                                  *)

LEMMA OneChanged ==
  ASSUME NEW S, NEW U, NEW x, IsFiniteSet(S), S \ {x} = U \ {x}
  PROVE  IsFiniteSet(U) /\ Cardinality(U) = Cardinality(S) + One(x \in U) - One(x \in S)
  <1>1. Cardinality(S) \in Nat
    BY FS_CardinalityType
  <1>2. CASE x \in S <=> x \in U
    <2>1. S = U
      BY <1>2
    <2> QED
      BY <1>1, <1>2, <2>1 DEF One
  <1>3. CASE x \in S /\ x \notin U
    <2>1. U = S \ {x}
      BY <1>3
    <2> QED
      BY <1>1, <1>3, <2>1, FS_RemoveElement DEF One
  <1>4. CASE x \notin S /\ x \in U
    <2>1. U = S \union {x}
      BY <1>4
    <2> QED
      BY <1>1, <1>4, <2>1, FS_AddElement DEF One
  <1> QED
    BY <1>2, <1>3, <1>4

\* The links of i that the entry e of directory d makes.
Gives(d, e, i) == (IF e = i THEN 1 ELSE 0) + (IF i = d /\ e # 0 /\ type[e] = "dir" THEN 1 ELSE 0)

\* What changes with the entry n of d.
LEMMA EntryChanged ==
  ASSUME TypeOK, NEW d \in Inum, NEW n \in Name, NEW e \in Pointer,
         dirent' = [dirent EXCEPT ![d][n] = e]
  PROVE  /\ \A j \in Inum, m \in Name : dirent'[j][m] = IF j = d /\ m = n THEN e ELSE dirent[j][m]
         /\ \A j \in Inum : j # d => dirent'[j] = dirent[j]
         /\ \A j \in Inum : Names(j)' \ {<<d, n>>} = Names(j) \ {<<d, n>>}
         /\ \A j \in Inum : e = j => Names(j)' # {}
  <1>1. /\ \A j \in Inum, m \in Name : dirent'[j][m] = IF j = d /\ m = n THEN e ELSE dirent[j][m]
        /\ \A j \in Inum : j # d => dirent'[j] = dirent[j]
    BY DEF TypeOK
  <1>2. \A j \in Inum : Names(j)' \ {<<d, n>>} = Names(j) \ {<<d, n>>}
    BY <1>1 DEF Names
  <1>3. \A j \in Inum : e = j => <<d, n>> \in Names(j)'
    BY <1>1 DEF Names
  <1> QED
    BY <1>1, <1>2, <1>3

LEMMA LinksChanged ==
  ASSUME TypeOK, NEW d \in Inum, NEW n \in Name, NEW e \in Pointer, NEW i \in Inum,
         dirent' = [dirent EXCEPT ![d][n] = e], type' = type
  PROVE  /\ Links(i)' - Links(i) = Gives(d, e, i) - Gives(d, dirent[d][n], i)
         /\ Links(i) \in Int /\ Links(i)' \in Int
  <1>0. /\ \A j \in Inum, m \in Name : dirent'[j][m] = IF j = d /\ m = n THEN e ELSE dirent[j][m]
        /\ \A j \in Inum : j # d => dirent'[j] = dirent[j]
    BY DEF TypeOK
  <1>1. Names(i)' \ {<<d, n>>} = Names(i) \ {<<d, n>>}
        /\ (<<d, n>> \in Names(i)' <=> e = i) /\ (<<d, n>> \in Names(i) <=> dirent[d][n] = i)
    BY <1>0 DEF Names
  <1>2. Cardinality(Names(i))' = Cardinality(Names(i)) + One(e = i) - One(dirent[d][n] = i)
    <2> DEFINE S == Names(i)
               U == Names(i)'
               x == <<d, n>>
    <2>1. IsFiniteSet(S) /\ S \ {x} = U \ {x}
      BY <1>1, LinksFinite
    <2>2. Cardinality(U) = Cardinality(S) + One(x \in U) - One(x \in S)
      <3> HIDE DEF S, U, x
      <3> QED
        BY <2>1, OneChanged
    <2> QED
      BY <1>1, <2>2 DEF One
  <1>3. /\ i # d => Subdirs(i)' = Subdirs(i)
        /\ i = d => /\ Subdirs(i) \ {n} = Subdirs(i)' \ {n}
                    /\ n \in Subdirs(i)' <=> (e # 0 /\ type[e] = "dir")
                    /\ n \in Subdirs(i) <=> (dirent[d][n] # 0 /\ type[dirent[d][n]] = "dir")
    BY <1>0 DEF Subdirs
  <1>4. Cardinality(Subdirs(i))' = Cardinality(Subdirs(i))
          + (IF i = d THEN One(e # 0 /\ type[e] = "dir")
                             - One(dirent[d][n] # 0 /\ type[dirent[d][n]] = "dir") ELSE 0)
    <2>1. CASE i # d
      <3>1. Cardinality(Subdirs(i)) \in Nat
        BY LinksFinite
      <3> QED
        BY <1>3, <2>1, <3>1
    <2>2. CASE i = d
      <3> DEFINE S == Subdirs(i)
                 U == Subdirs(i)'
      <3>1. IsFiniteSet(S) /\ S \ {n} = U \ {n}
        BY <1>3, <2>2, LinksFinite
      <3>2. Cardinality(U) = Cardinality(S) + One(n \in U) - One(n \in S) /\ Cardinality(S) \in Nat
        <4> HIDE DEF S, U
        <4> QED
          BY <3>1, OneChanged, FS_CardinalityType
      <3> QED
        BY <1>3, <2>2, <3>2 DEF One
    <2> QED
      BY <2>1, <2>2
  <1>5. Cardinality(Names(i)) \in Nat /\ Cardinality(Subdirs(i)) \in Nat
    BY LinksFinite
  <1>6. \A b : One(b) \in Int
    BY DEF One
  <1>7. Links(i) = Cardinality(Names(i)) + Cardinality(Subdirs(i)) + (IF i = ROOTINO THEN 1 ELSE 0)
        /\ Links(i)' = Cardinality(Names(i))' + Cardinality(Subdirs(i))' + (IF i = ROOTINO THEN 1 ELSE 0)
    BY DEF Links
  <1>8. Links(i) \in Int /\ Links(i)' \in Int
        /\ Links(i)' = Links(i) + One(e = i) - One(dirent[d][n] = i)
              + (IF i = d THEN One(e # 0 /\ type[e] = "dir")
                                 - One(dirent[d][n] # 0 /\ type[dirent[d][n]] = "dir") ELSE 0)
    BY <1>2, <1>4, <1>5, <1>6, <1>7
  <1>9. Links(i)' = Links(i) + Gives(d, e, i) - Gives(d, dirent[d][n], i)
    BY <1>8 DEF Gives, One
  <1>10. Gives(d, e, i) \in Int /\ Gives(d, dirent[d][n], i) \in Int
    BY DEF Gives
  <1> QED
    BY <1>8, <1>9, <1>10

\* Unless something was entered into a removed directory, one that has links and
\* that no other process is about to remove has a name.
LEMMA LinkedIsNamed ==
  ASSUME TypeOK, FileSystem, NEW p \in Proc, NEW d \in Inum, d # ROOTINO, type[d] = "dir", ~buried,
         nlink[d] # 0, lock[d] \notin Proc \ {p}, Stage(p) # "unlinked"
  PROVE  Names(d) # {}
  <1> SUFFICES ASSUME Names(d) = {} PROVE FALSE
    OBVIOUS
  <1>1. dirent[d] = Blank[d]
    BY DEF FileSystem, EntriesInPlace
  <1>2. Subdirs(d) = {}
    BY <1>1 DEF Subdirs, Blank
  <1>3. Owed(d) = {}
    <2> SUFFICES ASSUME NEW q \in Owed(d) PROVE FALSE
      OBVIOUS
    <2>1. q \in Proc /\ l[q].old # d
      BY Constants DEF Owed, FileSystem, Found
    <2>2. Stage(q) = "unlinked" /\ l[q].ip = d
      BY <2>1 DEF Owed
    <2>3. lock[d] = q /\ q # p
      BY <2>1, <2>2 DEF FileSystem, LocksHeld
    <2> QED
      BY <2>1, <2>3
  <1>4. Links(d) = 0 /\ Cardinality(Owed(d)) = 0
    BY <1>2, <1>3, FS_EmptySet DEF Links
  <1>5. nlink[d] = Links(d) + Cardinality(Owed(d))
    BY DEF FileSystem, LinksOwed
  <1> QED
    BY <1>4, <1>5

\* A name is entered, which is not buried unless this is recorded.
LEMMA EnteredInPlace ==
  ASSUME TypeOK, FileSystem, NEW p \in Proc, NEW d \in Inum, NEW n \in Name, NEW e \in Inum,
         type[d] = "dir", lock[d] \notin Proc \ {p}, Stage(p) # "unlinked", dirent[d][n] = 0,
         dirent' = [dirent EXCEPT ![d][n] = e], type' = type, buried' = (buried \/ nlink[d] = 0)
  PROVE  ~buried' => \A i \in Inum \ {ROOTINO} : Names(i)' = {} => dirent'[i] = Blank[i]
  <1> SUFFICES ASSUME ~buried', NEW i \in Inum \ {ROOTINO}, Names(i)' = {} PROVE dirent'[i] = Blank[i]
    OBVIOUS
  <1>0. e \in Pointer /\ 0 \notin Inum
    BY Constants DEF Pointer
  <1>1. /\ Names(i)' \ {<<d, n>>} = Names(i) \ {<<d, n>>}
        /\ \A j \in Inum : j # d => dirent'[j] = dirent[j]
    BY <1>0, EntryChanged, ZenonT(60)
  <1>2. Names(i) = {}
    BY <1>0, <1>1 DEF Names
  <1>3. dirent[i] = Blank[i]
    BY <1>2 DEF FileSystem, EntriesInPlace
  <1>4. i # d
    BY <1>2, LinkedIsNamed
  <1> QED
    BY <1>1, <1>3, <1>4

LEMMA CreateLinkStep ==
  ASSUME TypeOK, FileSystem, NEW p \in Proc, create_link(p)
  PROVE  TypeOK' /\ FileSystem'
  <1> PICK d, i, n : d = l[p].dp /\ i = l[p].ip /\ n = l[p].name
    OBVIOUS
  <1>0. /\ l[p].pc = "newborn" /\ Stage(p) = "newborn" /\ l[p].drop = 0 /\ l[p].old = 0
        /\ d \in Inum /\ i \in Inum /\ n \in Name
        /\ l[p].call # "link2" /\ (l[p].call = "link" => l[p].new \in Path)
    BY LocalsOf DEF create_link, Shaped, Stage, StageOf, Pointer
  <1>1. /\ dirent[d][n] = 0 /\ (type[i] = "dir" <=> l[p].call = "mkdir") /\ Private(p, i)
        /\ type[d] = "dir"
    BY <1>0, LocalsOf DEF FileSystem, Found
  <1>2. i # d /\ nlink[i] = 0 /\ type[i] # "free" /\ lock[d] = p
    BY <1>0, <1>1, LocksOf, UsedByFields DEF Private, FileSystem
  <1>3. PICK f : f = [Put(p, d, "created") EXCEPT !.dp = 0]
    OBVIOUS
  <1>4. /\ f \in Locals /\ f.pc = "iput" /\ f.drop = d /\ f.ip = i /\ f.dp = 0 /\ f.old = 0
        /\ f.then = "created" /\ f.call = l[p].call /\ f.new = l[p].new
    <2>1. l[p] \in Locals /\ d \in Pointer /\ 0 \in Pointer /\ l[p].old = 0
      BY <1>0, LocalsOf
    <2>2. "iput" \in PC /\ "created" \in PC
      BY DEF PC
    <2> QED
      BY <1>3, <2>1, <2>2 DEF Put, Locals
  <1>5. Shaped(f) /\ StageOf(f) = "created"
    BY <1>0, <1>4, LocalsOf DEF Shaped, StageOf
  <1>6. /\ l' = [l EXCEPT ![p] = f] /\ l'[p] = f /\ dirent' = [dirent EXCEPT ![d][n] = i]
        /\ buried' = (buried \/ nlink[d] = 0) /\ valid' = valid \union {i}
        /\ UNCHANGED <<type, mode, owner, ref, cwd, fd, leaked>>
    BY <1>3 DEF create_link, Local, TypeOK
  <1>7. /\ nlink' \in [Inum -> Nat] /\ nlink'[i] = 1
        /\ nlink'[d] = nlink[d] + (IF l[p].call = "mkdir" THEN 1 ELSE 0)
        /\ \A j \in Inum \ {i, d} : nlink'[j] = nlink[j]
    <2>1. PICK k : k = IF l[p].call = "mkdir" THEN nlink[d] + 1 ELSE nlink[d]
      OBVIOUS
    <2>2. k \in Nat /\ k = nlink[d] + (IF l[p].call = "mkdir" THEN 1 ELSE 0)
      BY <1>0, <2>1 DEF TypeOK
    <2>3. \A j \in Inum : nlink'[j] = IF j = d THEN k ELSE IF j = i THEN 1 ELSE nlink[j]
      BY <1>0, <1>2, <2>1 DEF create_link, TypeOK
    <2>4. nlink' = [j \in Inum |-> nlink'[j]]
      BY DEF create_link, TypeOK
    <2>5. \A j \in Inum : nlink'[j] \in Nat
      BY <2>2, <2>3 DEF TypeOK
    <2>6. nlink' \in [Inum -> Nat]
      BY <2>4, <2>5
    <2> QED
      BY <1>0, <1>2, <2>2, <2>3, <2>6
  <1>8. /\ lock' \in [Inum -> Proc \union {None}] /\ lock'[i] = p
        /\ \A j \in Inum, q \in Proc \ {p} : lock[j] = q => lock'[j] = q
    BY <1>0, <1>2, Constants DEF create_link, TypeOK, Free
  <1>9. TypeOK'
    <2>1. dirent' \in [Inum -> [Name -> Pointer]]
      BY <1>0, <1>6, LocalsOf DEF TypeOK
    <2> QED
      BY <1>0, <1>4, <1>6, <1>7, <1>8, <2>1 DEF TypeOK
  <1>10. /\ \A j \in Inum, m \in Name : dirent'[j][m] = IF j = d /\ m = n THEN i ELSE dirent[j][m]
         /\ \A j \in Inum : j # d => dirent'[j] = dirent[j]
         /\ \A j \in Inum :
              /\ Links(j) \in Int /\ Links(j)' \in Int
              /\ Links(j)' - Links(j) = Gives(d, i, j) - Gives(d, dirent[d][n], j)
    <2>1. i \in Pointer
      BY <1>0, LocalsOf
    <2>2. dirent' = [dirent EXCEPT ![d][n] = i] /\ type' = type
      BY <1>6
    <2>3. \A j \in Inum, m \in Name : dirent'[j][m] = IF j = d /\ m = n THEN i ELSE dirent[j][m]
      BY <1>0, <2>1, <2>2 DEF TypeOK
    <2>4. \A j \in Inum : j # d => dirent'[j] = dirent[j]
      BY <1>0, <2>1, <2>2, EntryChanged
    <2>5. \A j \in Inum : Links(j) \in Int /\ Links(j)' \in Int
      BY <1>0, <2>1, <2>2, LinksChanged
    <2>6. ASSUME NEW j \in Inum
          PROVE  Links(j)' - Links(j) = Gives(d, i, j) - Gives(d, dirent[d][n], j)
      BY <1>0, <2>1, <2>2, LinksChanged, ZenonT(60)
    <2> QED
      BY <2>3, <2>4, <2>5, <2>6
  <1>11. Moves(p, f)
    <2>1. \A j \in Inum : Tally(p, j) \in Int /\ Tally(p, j)' = Tally(p, j)
      BY <1>0, <1>4, <1>6, LocalsOf DEF Tally, One
    <2>2. \A j \in Inum : ref'[j] - leaked'[j] - Tally(p, j)' = ref[j] - leaked[j] - Tally(p, j)
      BY <1>6, <2>1
    <2>3. Known(p, i) /\ Known(p, d) /\ \A j \in Inum : j \in {cwd'[p], fd'[p], f.ip, f.dp, f.old} => Known(p, j)
      BY <1>0, <1>4, <1>6, LocalsOf DEF Known
    <2>4. \A j \in Inum : nlink'[j] # nlink[j] => Known(p, j)
      BY <1>7, <2>3
    <2>5. \A j \in Inum, m \in Name : dirent'[j][m] # dirent[j][m] => dirent'[j][m] = 0 \/ Known(p, dirent'[j][m])
      BY <1>10, <2>3
    <2>6. \A j \in Inum : dirent'[j] # dirent[j] => j = l[p].dp /\ lock[j] \notin Proc \ {p}
      BY <1>2, <1>10
    <2> QED
      BY <1>4, <1>5, <1>6, <1>8, <2>2, <2>3, <2>4, <2>5, <2>6 DEF Moves
  <1>12. LinksOwed'
    <2>1. ASSUME NEW j \in Inum
          PROVE  nlink'[j] - Links(j)' - Owes(f, j) = nlink[j] - Links(j) - Owes(l[p], j)
      <3>1. Owes(f, j) = 0 /\ Owes(l[p], j) = 0
        BY <1>0, <1>4, <1>5, LocalsOf DEF Owes, One, StageOf
      <3>2. Links(j)' = Links(j) + Gives(d, i, j) /\ Gives(d, i, j) \in Int
        BY <1>0, <1>1, <1>10, LocalsOf DEF Gives
      <3>3. nlink'[j] = nlink[j] + Gives(d, i, j)
        <4>1. nlink[j] \in Int /\ i # 0
          BY <1>0, LocalsOf DEF TypeOK
        <4>2. CASE j = i
          BY <1>2, <1>7, <4>1, <4>2 DEF Gives
        <4>3. CASE j = d
          BY <1>1, <1>2, <1>7, <4>1, <4>3 DEF Gives
        <4>4. CASE j \notin {i, d}
          BY <1>7, <4>1, <4>4 DEF Gives
        <4> QED
          BY <4>2, <4>3, <4>4
      <3>4. nlink[j] \in Int /\ Links(j) \in Int
        BY <1>10 DEF TypeOK
      <3> QED
        BY <3>1, <3>2, <3>3, <3>4
    <2>2. \A q \in Proc : l'[q] = IF q = p THEN f ELSE l[q]
      BY <1>6 DEF TypeOK
    <2> QED
      BY <1>6, <1>9, <2>1, <2>2, OwedLinksStep DEF FileSystem
  <1>13. ~buried' => \A j \in Inum \ {ROOTINO} : Names(j)' = {} => dirent'[j] = Blank[j]
    BY <1>0, <1>1, <1>2, <1>6, EnteredInPlace
  <1>14. EntriesInPlace'
    <2>1. \A j \in Inum : Blank[j]' = Blank[j]
      BY DEF Blank
    <2> QED
      BY <1>9, <1>11, <1>13, <2>1, MovesStep DEF EntriesInPlace
  <1> QED
    BY <1>9, <1>11, <1>12, <1>14, MovesStep DEF FileSystem

LEMMA UnlinkEntryStep ==
  ASSUME TypeOK, FileSystem, NEW p \in Proc, unlink_entry(p)
  PROVE  TypeOK' /\ FileSystem'
  <1> PICK d, i, n : d = l[p].dp /\ i = l[p].ip /\ n = l[p].name
    OBVIOUS
  <1>0. /\ l[p].pc = "victim" /\ Stage(p) = "victim" /\ l[p].drop = 0 /\ l[p].old = 0
        /\ d \in Inum /\ i \in Inum /\ n \in Name
        /\ l[p].call # "link2" /\ (l[p].call = "link" => l[p].new \in Path)
    BY LocalsOf DEF unlink_entry, Shaped, Stage, StageOf, Pointer
  <1>1. CASE type[i] = "dir" /\ ~isdirempty(i)
    <2>1. /\ Local(p, [Put(p, i, "unlinkbad") EXCEPT !.ip = 0]) /\ valid' = valid \union {i}
          /\ UNCHANGED <<type, nlink, mode, owner, dirent, ref, lock, cwd, fd, leaked, buried>>
      BY <1>1 DEF unlink_entry
    <2> QED
      BY <1>0, <2>1, SparedStep
  <1>2. CASE ~(type[i] = "dir" /\ ~isdirempty(i))
    <2>1. /\ dirent[d][n] = i /\ lock[d] = p /\ type[d] = "dir" /\ dirent[i] = Blank[i] /\ i # d
      <3>1. dirent[d][n] = i /\ lock[d] = p /\ type[d] = "dir"
        BY <1>0, LocalsOf, LocksOf
      <3>2. dirent[i] = Blank[i]
        BY <1>0, <1>2 DEF isdirempty, FileSystem, EntriesInPlace
      <3> QED
        BY <3>1, <3>2, Constants DEF unlink_entry, Free
    <2>2. PICK f : f = [Put(p, d, "unlinked") EXCEPT !.dp = 0]
      OBVIOUS
    <2>3. /\ f \in Locals /\ f.pc = "iput" /\ f.drop = d /\ f.ip = i /\ f.dp = 0 /\ f.old = 0
          /\ f.then = "unlinked" /\ f.call = l[p].call /\ f.new = l[p].new
      <3>1. l[p] \in Locals /\ d \in Pointer /\ 0 \in Pointer /\ l[p].old = 0
        BY <1>0, LocalsOf
      <3>2. "iput" \in PC /\ "unlinked" \in PC
        BY DEF PC
      <3> QED
        BY <2>2, <3>1, <3>2 DEF Put, Locals
    <2>4. Shaped(f) /\ StageOf(f) = "unlinked"
      BY <1>0, <2>3, LocalsOf DEF Shaped, StageOf
    <2>5. /\ l' = [l EXCEPT ![p] = f] /\ l'[p] = f /\ dirent' = [dirent EXCEPT ![d][n] = 0]
          /\ nlink' = [nlink EXCEPT ![d] = IF type[i] = "dir" THEN @ - 1 ELSE @]
          /\ lock' = [lock EXCEPT ![d] = None, ![i] = p] /\ valid' = valid \union {i}
          /\ type' = type /\ UNCHANGED <<mode, owner, ref, cwd, fd, leaked, buried>>
      BY <1>2, <2>2 DEF unlink_entry, Local, TypeOK
    <2>6. /\ lock' \in [Inum -> Proc \union {None}] /\ lock'[i] = p
          /\ \A j \in Inum, q \in Proc \ {p} : lock[j] = q => lock'[j] = q
      <3>1. lock[i] = None /\ None \notin Proc
        BY Constants DEF unlink_entry, Free
      <3>2. \A j \in Inum : lock'[j] = IF j = i THEN p ELSE IF j = d THEN None ELSE lock[j]
        BY <1>0, <2>1, <2>5 DEF TypeOK
      <3>3. lock' \in [Inum -> Proc \union {None}]
        BY <1>0, <2>5 DEF TypeOK
      <3> QED
        BY <1>0, <2>1, <3>1, <3>2, <3>3
    <2>7. /\ nlink' \in [Inum -> Nat]
          /\ \A j \in Inum : nlink'[j] = nlink[j] - (IF j = d /\ type[i] = "dir" THEN 1 ELSE 0)
      <3>1. type[i] = "dir" => nlink[d] >= 1
        <4> SUFFICES ASSUME type[i] = "dir" PROVE nlink[d] >= 1
          OBVIOUS
        <4>1. n \in Subdirs(d)
          BY <1>0, <2>1, LocalsOf DEF Subdirs
        <4>2. Cardinality(Subdirs(d)) # 0 /\ Cardinality(Subdirs(d)) \in Nat
          BY <1>0, <4>1, LinksFinite, FS_EmptySet
        <4>3. Cardinality(Names(d)) \in Nat /\ Cardinality(Owed(d)) \in Nat
          BY <1>0, LinksFinite
        <4>4. nlink[d] >= Links(d) + Cardinality(Owed(d))
          BY <1>0, <4>2, <4>3 DEF FileSystem, LinksOwed, TypeOK, Links
        <4>5. \A a, b, c, m \in Nat :
                 /\ b # 0 /\ m >= a + b + 1 + c => m >= 1
                 /\ b # 0 /\ m >= a + b + 0 + c => m >= 1
          OBVIOUS
        <4> QED
          BY <1>0, <4>2, <4>3, <4>4, <4>5 DEF Links, TypeOK
      <3>2. \A m \in Nat : m >= 1 => m - 1 \in Nat
        OBVIOUS
      <3>3. \A j \in Inum : nlink'[j] = nlink[j] - (IF j = d /\ type[i] = "dir" THEN 1 ELSE 0)
        BY <1>0, <2>5 DEF TypeOK
      <3>4. nlink' = [j \in Inum |-> nlink'[j]]
        BY <2>5 DEF TypeOK
      <3>5. \A j \in Inum : nlink'[j] \in Nat
        BY <3>1, <3>2, <3>3 DEF TypeOK
      <3>6. nlink' \in [Inum -> Nat]
        BY <3>4, <3>5
      <3> QED
        BY <3>3, <3>6
    <2>8. TypeOK'
      <3>1. dirent' \in [Inum -> [Name -> Pointer]]
        BY <1>0, <2>5, LocalsOf DEF TypeOK
      <3> QED
        BY <1>0, <2>3, <2>5, <2>6, <2>7, <3>1 DEF TypeOK
    <2>9. /\ \A j \in Inum, m \in Name : dirent'[j][m] = IF j = d /\ m = n THEN 0 ELSE dirent[j][m]
          /\ \A j \in Inum : j # d => dirent'[j] = dirent[j]
      BY <1>0, <2>5 DEF TypeOK
    <2>10. Moves(p, f)
      <3>1. \A j \in Inum : Tally(p, j) \in Int /\ Tally(p, j)' = Tally(p, j)
        BY <1>0, <2>3, <2>5, LocalsOf DEF Tally, One
      <3>2. \A j \in Inum : ref'[j] - leaked'[j] - Tally(p, j)' = ref[j] - leaked[j] - Tally(p, j)
        BY <2>5, <3>1
      <3>3. Known(p, i) /\ Known(p, d) /\ \A j \in Inum : j \in {cwd'[p], fd'[p], f.ip, f.dp, f.old} => Known(p, j)
        BY <1>0, <2>3, <2>5, LocalsOf DEF Known
      <3>4. \A j \in Inum : nlink'[j] # nlink[j] => Known(p, j)
        BY <2>7, <3>3, SMTT(40) DEF TypeOK
      <3>5. \A j \in Inum, m \in Name : dirent'[j][m] # dirent[j][m] => dirent'[j][m] = 0
        BY <2>9
      <3>6. \A j \in Inum : dirent'[j] # dirent[j] => j = l[p].dp /\ lock[j] \notin Proc \ {p}
        BY <2>1, <2>9
      <3>7. dirent'[f.ip] = Blank[f.ip]
        BY <1>0, <2>1, <2>3, <2>9
      <3> QED
        BY <2>3, <2>4, <2>5, <2>6, <3>2, <3>3, <3>4, <3>5, <3>6, <3>7 DEF Moves
    <2>11. LinksOwed'
      <3>1. ASSUME NEW j \in Inum
            PROVE  nlink'[j] - Links(j)' - Owes(f, j) = nlink[j] - Links(j) - Owes(l[p], j)
        <4>1. Owes(f, j) = (IF i = j THEN 1 ELSE 0) /\ Owes(l[p], j) = 0
          BY <1>0, <2>3, <2>4, LocalsOf DEF Owes, One, StageOf
        <4>2. 0 \in Pointer
          BY LocalsOf
        <4>3. /\ Links(j)' - Links(j) = Gives(d, 0, j) - Gives(d, dirent[d][n], j)
              /\ Links(j) \in Int /\ Links(j)' \in Int
          BY <1>0, <2>5, <4>2, LinksChanged, ZenonT(60)
        <4>4. Gives(d, 0, j) = 0
          BY LocalsOf DEF Gives
        <4>5. Gives(d, dirent[d][n], j) = (IF i = j THEN 1 ELSE 0) + (IF j = d /\ type[i] = "dir" THEN 1 ELSE 0)
          BY <1>0, <2>1, LocalsOf DEF Gives
        <4>6. nlink'[j] = nlink[j] - (IF j = d /\ type[i] = "dir" THEN 1 ELSE 0) /\ nlink[j] \in Int
          BY <2>7 DEF TypeOK
        <4> QED
          BY <4>1, <4>3, <4>4, <4>5, <4>6
      <3>2. \A q \in Proc : l'[q] = IF q = p THEN f ELSE l[q]
        BY <2>5 DEF TypeOK
      <3> QED
        BY <2>5, <2>8, <3>1, <3>2, OwedLinksStep DEF FileSystem
    <2>12. EntriesInPlace'
      <3>1. ASSUME ~buried, NEW j \in Inum \ {ROOTINO}, Names(j)' = {} PROVE dirent'[j] = Blank[j]
        <4>1. CASE j = i
          BY <2>1, <2>9, <4>1
        <4>2. CASE j # i
          <5>1. Names(j) = {}
            BY <2>1, <2>9, <3>1, <4>2 DEF Names
          <5>2. dirent[j] = Blank[j]
            BY <3>1, <5>1 DEF FileSystem, EntriesInPlace
          <5>3. j # d
            BY <1>0, <2>1, <5>2, LocalsOf DEF Blank
          <5> QED
            BY <2>9, <5>2, <5>3
        <4> QED
          BY <4>1, <4>2
      <3>2. \A j \in Inum : Blank[j]' = Blank[j]
        BY DEF Blank
      <3> QED
        BY <2>5, <2>8, <2>10, <3>1, <3>2, MovesStep DEF EntriesInPlace
    <2> QED
      BY <2>8, <2>10, <2>11, <2>12, MovesStep DEF FileSystem
  <1> QED
    BY <1>1, <1>2

LEMMA DirlinkStep ==
  ASSUME TypeOK, FileSystem, NEW p \in Proc, dirlink(p)
  PROVE  TypeOK' /\ FileSystem'
  <1> PICK d, o, n : d = l[p].dp /\ o = l[p].old /\ n = l[p].name
    OBVIOUS
  <1>0. /\ l[p].pc = "parent" /\ Stage(p) = "parent" /\ l[p].drop = 0 /\ l[p].ip = 0
        /\ d \in Inum /\ o \in Inum /\ n \in Name /\ l[p].call = "link2"
    BY LocalsOf DEF dirlink, At, Shaped, Stage, StageOf, Pointer
  <1>1. CASE dirent[d][n] # 0
    <2>1. /\ Refer(dirent[d][n]) /\ lock' = [lock EXCEPT ![d] = p] /\ Local(p, Put(p, dirent[d][n], "linkbad"))
          /\ At(p, "parent", "link2") /\ Free(d) /\ valid' = valid \union {d}
          /\ UNCHANGED <<type, nlink, mode, owner, dirent, cwd, fd, leaked, buried>>
      BY <1>1 DEF dirlink
    <2> QED
      BY <1>1, <2>1, RefusedLinkStep
  <1>2. CASE dirent[d][n] = 0
    <2>1. type[d] = "dir" /\ type[o] = "file" /\ lock[d] = None /\ o # d
      BY <1>0, LocalsOf DEF dirlink, Free
    <2>2. PICK f : f = [Put(p, d, "linked") EXCEPT !.dp = 0]
      OBVIOUS
    <2>3. /\ f \in Locals /\ f.pc = "iput" /\ f.drop = d /\ f.ip = 0 /\ f.dp = 0 /\ f.old = o
          /\ f.then = "linked" /\ f.call = "link2"
      <3>1. l[p] \in Locals /\ d \in Pointer /\ 0 \in Pointer /\ l[p].ip = 0 /\ l[p].call = "link2"
        BY <1>0, LocalsOf
      <3>2. "iput" \in PC /\ "linked" \in PC
        BY DEF PC
      <3> QED
        BY <2>2, <3>1, <3>2 DEF Put, Locals
    <2>4. Shaped(f) /\ StageOf(f) = "linked"
      BY <1>0, <2>3, LocalsOf DEF Shaped, StageOf
    <2>5. /\ l' = [l EXCEPT ![p] = f] /\ l'[p] = f /\ dirent' = [dirent EXCEPT ![d][n] = o]
          /\ buried' = (buried \/ nlink[d] = 0) /\ valid' = valid \union {d} /\ nlink' = nlink
          /\ type' = type /\ UNCHANGED <<mode, owner, ref, lock, cwd, fd, leaked>>
      BY <1>2, <2>2 DEF dirlink, Local, TypeOK
    <2>6. TypeOK'
      <3>1. dirent' \in [Inum -> [Name -> Pointer]]
        BY <1>0, <2>5, LocalsOf DEF TypeOK
      <3> QED
        BY <1>0, <2>3, <2>5, <3>1 DEF TypeOK
    <2>7. /\ \A j \in Inum, m \in Name : dirent'[j][m] = IF j = d /\ m = n THEN o ELSE dirent[j][m]
          /\ \A j \in Inum : j # d => dirent'[j] = dirent[j]
      BY <1>0, <2>5 DEF TypeOK
    <2>8. Moves(p, f)
      <3>1. \A j \in Inum : Tally(p, j) \in Int /\ Tally(p, j)' = Tally(p, j)
        BY <1>0, <2>3, <2>5, LocalsOf DEF Tally, One
      <3>2. \A j \in Inum : ref'[j] - leaked'[j] - Tally(p, j)' = ref[j] - leaked[j] - Tally(p, j)
        BY <2>5, <3>1
      <3>3. Known(p, o) /\ Known(p, d) /\ \A j \in Inum : j \in {cwd'[p], fd'[p], f.ip, f.dp, f.old} => Known(p, j)
        BY <1>0, <2>3, <2>5, LocalsOf DEF Known
      <3>4. \A j \in Inum, m \in Name : dirent'[j][m] # dirent[j][m] => Known(p, dirent'[j][m])
        BY <2>7, <3>3
      <3>5. \A j \in Inum : dirent'[j] # dirent[j] => j = l[p].dp /\ lock[j] \notin Proc \ {p}
        BY <2>1, <2>7, Constants
      <3> QED
        BY <2>1, <2>3, <2>4, <2>5, <3>2, <3>3, <3>4, <3>5 DEF Moves
    <2>9. LinksOwed'
      <3>1. ASSUME NEW j \in Inum
            PROVE  nlink'[j] - Links(j)' - Owes(f, j) = nlink[j] - Links(j) - Owes(l[p], j)
        <4>1. Owes(f, j) = 0 /\ Owes(l[p], j) = (IF o = j THEN 1 ELSE 0)
          BY <1>0, <2>3, <2>4, LocalsOf DEF Owes, One, StageOf
        <4>2. o \in Pointer
          BY <1>0, LocalsOf
        <4>3. /\ Links(j)' - Links(j) = Gives(d, o, j) - Gives(d, dirent[d][n], j)
              /\ Links(j) \in Int /\ Links(j)' \in Int
          BY <1>0, <2>5, <4>2, LinksChanged, ZenonT(60)
        <4>4. Gives(d, o, j) = (IF o = j THEN 1 ELSE 0)
          BY <2>1, LocalsOf DEF Gives
        <4>5. Gives(d, dirent[d][n], j) = 0
          BY <1>2, LocalsOf DEF Gives
        <4>6. nlink'[j] = nlink[j] /\ nlink[j] \in Int
          BY <2>5 DEF TypeOK
        <4> QED
          BY <4>1, <4>3, <4>4, <4>5, <4>6
      <3>2. \A q \in Proc : l'[q] = IF q = p THEN f ELSE l[q]
        BY <2>5 DEF TypeOK
      <3> QED
        BY <2>5, <2>6, <3>1, <3>2, OwedLinksStep DEF FileSystem
    <2>10. ~buried' => \A j \in Inum \ {ROOTINO} : Names(j)' = {} => dirent'[j] = Blank[j]
      <3>1. lock[d] \notin Proc \ {p} /\ Stage(p) # "unlinked"
        BY <1>0, <2>1, Constants
      <3> QED
        BY <1>0, <1>2, <2>1, <2>5, <3>1, EnteredInPlace
    <2>11. EntriesInPlace'
      <3>1. \A j \in Inum : Blank[j]' = Blank[j]
        BY DEF Blank
      <3> QED
        BY <2>6, <2>8, <2>10, <3>1, MovesStep DEF EntriesInPlace
    <2> QED
      BY <2>6, <2>8, <2>9, <2>11, MovesStep DEF FileSystem
  <1> QED
    BY <1>1, <1>2

-----------------------------------------------------------------------------
(* The calls that free an inode or allocate one, and a crash.                 *)

\* The last reference to an inode without links is given up.
LEMMA FreedStep ==
  ASSUME TypeOK, FileSystem, NEW p \in Proc, l[p].pc = "iput", nlink[l[p].drop] = 0, ref[l[p].drop] = 1,
         type' = [type EXCEPT ![l[p].drop] = "free"],
         dirent' = [dirent EXCEPT ![l[p].drop] = Blank[l[p].drop]],
         valid' = valid \ {l[p].drop}, Local(p, [l[p] EXCEPT !.pc = "unref"]),
         UNCHANGED <<nlink, mode, owner, ref, lock, cwd, fd, leaked, buried>>
  PROVE  TypeOK' /\ FileSystem'
  <1> PICK i : i = l[p].drop
    OBVIOUS
  <1>0. i \in Inum /\ Stage(p) = l[p].then /\ Stage(p) \notin {"parent", "newborn", "victim"}
    BY LocalsOf DEF Shaped, Stage, StageOf, Pointer
  <1>1. i # ROOTINO /\ Names(i) = {} /\ Subdirs(i) = {}
    BY <1>0, NoLinks DEF FileSystem
  <1>2. \A q \in Proc : /\ i \notin {cwd[q], fd[q], l[q].ip, l[q].dp, l[q].old}
                        /\ q # p => l[q].drop # i
    <2>1. i \notin {cwd[p], fd[p], l[p].ip, l[p].dp, l[p].old}
      BY <1>0, PointedIsReferred DEF FileSystem
    <2>2. \A q \in Proc \ {p} : i \notin {cwd[q], fd[q], l[q].ip, l[q].dp, l[q].old, l[q].drop}
      BY <1>0, PointedIsReferred DEF FileSystem
    <2> QED
      BY <2>1, <2>2
  <1>3. PICK f : f = [l[p] EXCEPT !.pc = "unref"]
    OBVIOUS
  <1>4. /\ f \in Locals /\ f.pc = "unref" /\ f.drop = i /\ f.ip = l[p].ip /\ f.dp = l[p].dp /\ f.old = l[p].old
        /\ f.then = l[p].then /\ f.call = l[p].call /\ f.rest = l[p].rest /\ f.new = l[p].new
        /\ f.name = l[p].name
    <2>1. l[p] \in Locals /\ "unref" \in PC
      BY LocalsOf DEF PC
    <2> QED
      BY <1>3, <2>1 DEF Locals
  <1>5. Shaped(f) /\ StageOf(f) = Stage(p)
    BY <1>0, <1>4, LocalsOf DEF Shaped, Stage, StageOf
  <1>6. /\ l' = [l EXCEPT ![p] = f]
        /\ \A q \in Proc : l'[q] = IF q = p THEN f ELSE l[q]
        /\ \A q \in Proc : Stage(q)' = Stage(q)
    <2>1. l' = [l EXCEPT ![p] = f] /\ \A q \in Proc : l'[q] = IF q = p THEN f ELSE l[q]
      BY <1>3 DEF Local, TypeOK
    <2> QED
      BY <1>5, <2>1 DEF Stage
  <1>7. /\ \A j \in Inum : type'[j] = IF j = i THEN "free" ELSE type[j]
        /\ \A j \in Inum : dirent'[j] = IF j = i THEN Blank[i] ELSE dirent[j]
        /\ Blank[i] = [n \in Name |-> 0]
    BY <1>0 DEF TypeOK, Blank
  <1>8. TypeOK'
    <2>1. Blank[i] \in [Name -> Pointer]
      BY <1>7, LocalsOf
    <2>2. dirent' \in [Inum -> [Name -> Pointer]] /\ type' \in [Inum -> {"free", "file", "dir"}]
      BY <1>0, <2>1 DEF TypeOK
    <2> QED
      BY <1>4, <1>6, <2>2 DEF TypeOK
  <1>9. LocalsShaped'
    BY <1>5, <1>6 DEF LocalsShaped, FileSystem
  <1>10. LocksHeld'
    BY <1>4, <1>6 DEF LocksHeld, FileSystem
  <1>11. OnlyChmodLeaks'
    <2>1. \A j \in Inum : Tally(p, j) \in Int /\ Tally(p, j)' = Tally(p, j)
      BY <1>4, <1>6 DEF Tally, One
    <2>2. \A j \in Inum : ref'[j] - leaked'[j] - Tally(p, j)' = ref[j] - leaked[j] - Tally(p, j)
      BY <2>1
    <2> QED
      BY <1>6, <1>8, <2>2, RefsStep DEF FileSystem
  <1>12. \A q \in Proc : l'[q].ip = l[q].ip /\ l'[q].dp = l[q].dp /\ l'[q].old = l[q].old
                         /\ l'[q].name = l[q].name /\ l'[q].call = l[q].call /\ l'[q].drop = l[q].drop
    BY <1>4, <1>6
  <1>13. Found'
    <2> SUFFICES ASSUME NEW q \in Proc
                 PROVE  /\ Stage(q) = "victim" => dirent'[l[q].dp][l[q].name] = l[q].ip
                        /\ Stage(q) = "newborn" =>
                             /\ dirent'[l[q].dp][l[q].name] = 0
                             /\ type'[l[q].ip] = "dir" <=> l[q].call = "mkdir"
                             /\ Private(q, l[q].ip)'
                        /\ Stage(q) = "unlinked" => dirent'[l[q].ip] = Blank[l[q].ip]
                        /\ l[q].dp # 0 => type'[l[q].dp] = "dir"
                        /\ l[q].old # 0 => type'[l[q].old] = "file"
      BY <1>6, <1>12 DEF Found, Blank
    <2>1. /\ l[q].dp \in Pointer /\ l[q].ip \in Pointer /\ l[q].old \in Pointer
          /\ Stage(q) \in {"victim", "newborn"} => l[q].dp # 0 /\ l[q].ip # 0
          /\ Stage(q) = "unlinked" => l[q].ip # 0
      BY LocalsOf DEF Shaped, Stage
    <2>2. i \notin {l[q].dp, l[q].ip, l[q].old}
      BY <1>2
    <2>3. /\ l[q].dp # 0 => dirent'[l[q].dp] = dirent[l[q].dp] /\ type'[l[q].dp] = type[l[q].dp]
          /\ l[q].ip # 0 => dirent'[l[q].ip] = dirent[l[q].ip] /\ type'[l[q].ip] = type[l[q].ip]
          /\ l[q].old # 0 => type'[l[q].old] = type[l[q].old]
      BY <1>7, <2>1, <2>2 DEF Pointer
    <2>4. ASSUME Stage(q) = "newborn" PROVE Private(q, l[q].ip)'
      <3>1. Private(q, l[q].ip) /\ l[q].ip \in Inum /\ l'[q].ip = l[q].ip
        BY <1>12, <2>1, <2>4 DEF Pointer, FileSystem, Found
      <3>2. \A r \in Proc : /\ l[q].ip \notin {cwd'[r], fd'[r], l'[r].dp, l'[r].old}
                            /\ l'[r].ip = l[q].ip => r = q
                            /\ l'[r].drop = l[q].ip => l'[r].pc = "unref"
        BY <1>4, <1>6, <1>12, <3>1 DEF Private
      <3>3. \A d \in Inum, n \in Name : dirent'[d][n] # l[q].ip
        BY <1>7, <3>1, Constants DEF Private
      <3>4. dirent'[l[q].ip] = Blank[l[q].ip] /\ nlink'[l[q].ip] = 0
        BY <2>1, <2>3, <2>4, <3>1 DEF Private
      <3> QED
        BY <3>1, <3>2, <3>3, <3>4 DEF Private, Blank
    <2>5. /\ Stage(q) = "victim" => dirent[l[q].dp][l[q].name] = l[q].ip
          /\ Stage(q) = "newborn" =>
               /\ dirent[l[q].dp][l[q].name] = 0
               /\ type[l[q].ip] = "dir" <=> l[q].call = "mkdir"
          /\ Stage(q) = "unlinked" => dirent[l[q].ip] = Blank[l[q].ip]
          /\ l[q].dp # 0 => type[l[q].dp] = "dir"
          /\ l[q].old # 0 => type[l[q].old] = "file"
      BY DEF FileSystem, Found
    <2> QED
      BY <2>1, <2>3, <2>4, <2>5
  <1>14. UsedInodesAllocated'
    <2>1. ASSUME NEW j \in Inum, type'[j] = "free"
          PROVE  /\ \A q \in Proc : j \notin {cwd'[q], fd'[q], l'[q].ip, l'[q].dp, l'[q].old}
                 /\ \A q \in Proc : l'[q].drop = j => l'[q].pc = "unref"
                 /\ \A d \in Inum, n \in Name : dirent'[d][n] # j
      <3>1. CASE j = i
        <4>1. \A d \in Inum, n \in Name : dirent[d][n] # i
          BY <1>1, NamedBy
        <4> QED
          BY <1>2, <1>4, <1>6, <1>7, <1>12, <3>1, <4>1, Constants
      <3>2. CASE j # i
        BY <1>4, <1>6, <1>7, <1>12, <2>1, <3>2, UsedByFields, Constants DEF FileSystem
      <3> QED
        BY <3>1, <3>2
    <2> QED
      BY <2>1, UsedByFieldsNext
  <1>15. \A j \in Inum : Owed(j)' = Owed(j)
    BY <1>6, <1>12 DEF Owed
  <1>16. /\ \A j \in Inum : Names(j)' \subseteq Names(j) /\ Subdirs(j)' \subseteq Subdirs(j)
         /\ ~buried => \A j \in Inum : Names(j)' = Names(j) /\ Subdirs(j)' = Subdirs(j)
    <2>1. \A d \in Inum, n \in Name : dirent[d][n] # i /\ dirent[d][n] \in Pointer
      BY <1>1, NamedBy DEF TypeOK
    <2>2. ~buried => \A d \in Inum : dirent'[d] = dirent[d]
      BY <1>1, <1>7 DEF FileSystem, EntriesInPlace
    <2>3. \A d \in Inum, n \in Name : dirent[d][n] # 0 => type'[dirent[d][n]] = type[dirent[d][n]]
      BY <1>7, <2>1 DEF Pointer
    <2>4. \A j \in Inum : Names(j)' \subseteq Names(j) /\ Subdirs(j)' \subseteq Subdirs(j)
      BY <1>7, <2>3, Constants DEF Names, Subdirs
    <2>5. ~buried => \A j \in Inum : Names(j)' = Names(j) /\ Subdirs(j)' = Subdirs(j)
      BY <2>2, <2>3 DEF Names, Subdirs
    <2> QED
      BY <2>4, <2>5
  <1>17. LinksOwed'
    <2> SUFFICES ASSUME NEW j \in Inum
                 PROVE  IF buried THEN nlink[j] >= Links(j)' + Cardinality(Owed(j))
                        ELSE nlink[j] = Links(j)' + Cardinality(Owed(j))
      BY <1>15 DEF LinksOwed
    <2>1. IF buried THEN nlink[j] >= Links(j) + Cardinality(Owed(j))
          ELSE nlink[j] = Links(j) + Cardinality(Owed(j))
      BY DEF FileSystem, LinksOwed
    <2>2. CASE ~buried
      BY <1>16, <2>1, <2>2 DEF Links
    <2>3. CASE buried
      <3>1. /\ Cardinality(Names(j)') \in Nat /\ Cardinality(Names(j)') <= Cardinality(Names(j))
            /\ Cardinality(Subdirs(j)') \in Nat /\ Cardinality(Subdirs(j)') <= Cardinality(Subdirs(j))
        <4>1. \A S, U : IsFiniteSet(S) /\ U \in SUBSET S =>
                 IsFiniteSet(U) /\ Cardinality(U) <= Cardinality(S) /\ Cardinality(U) \in Nat
          BY FS_Subset, FS_CardinalityType
        <4> QED
          BY <1>16, <4>1, LinksFinite
      <3>2. /\ Links(j) = Cardinality(Names(j)) + Cardinality(Subdirs(j)) + (IF j = ROOTINO THEN 1 ELSE 0)
            /\ Links(j)' = Cardinality(Names(j)') + Cardinality(Subdirs(j)') + (IF j = ROOTINO THEN 1 ELSE 0)
        BY DEF Links
      <3>3. nlink[j] \in Nat /\ Cardinality(Names(j)) \in Nat /\ Cardinality(Subdirs(j)) \in Nat
            /\ Cardinality(Owed(j)) \in Nat
        BY LinksFinite DEF TypeOK
      <3>4. Links(j)' <= Links(j) /\ Links(j) \in Nat /\ Links(j)' \in Nat
        BY <3>1, <3>2, <3>3
      <3>5. nlink[j] >= Links(j) + Cardinality(Owed(j))
        BY <2>1, <2>3
      <3> QED
        BY <2>3, <3>3, <3>4, <3>5
    <2> QED
      BY <2>2, <2>3
  <1>18. EntriesInPlace'
    <2>1. \A j \in Inum : Blank[j]' = Blank[j]
      BY DEF Blank
    <2>2. \A j \in Inum : type'[j] = "free" => nlink'[j] = 0
      BY <1>7 DEF FileSystem, EntriesInPlace
    <2>3. \A j \in Inum : type'[j] # "dir" => dirent'[j] = Blank[j]
      BY <1>7 DEF FileSystem, EntriesInPlace
    <2>4. ~buried => \A j \in Inum \ {ROOTINO} : Names(j)' = {} => dirent'[j] = Blank[j]
      BY <1>7, <1>16 DEF FileSystem, EntriesInPlace
    <2> QED
      BY <2>1, <2>2, <2>3, <2>4 DEF EntriesInPlace
  <1> QED
    BY <1>8, <1>9, <1>10, <1>11, <1>13, <1>14, <1>17, <1>18 DEF FileSystem

LEMMA IputStep ==
  ASSUME TypeOK, FileSystem, NEW p \in Proc, iput(p)
  PROVE  TypeOK' /\ FileSystem'
  <1> DEFINE i == l[p].drop
  <1>0. /\ l[p].pc = "iput" /\ Stage(p) = l[p].then /\ i \in Inum
        /\ Stage(p) \notin {"parent", "newborn", "victim"}
    BY LocalsOf DEF iput, Shaped, Stage, StageOf, Pointer
  <1>i. l[p] \in Locals
    BY LocalsOf
  <1>p. "unref" \in PC
    BY DEF PC
  <1>1. CASE i \in valid /\ nlink[i] = 0 /\ ref[i] = 1
    <2>1. /\ type' = [type EXCEPT ![i] = "free"] /\ dirent' = [dirent EXCEPT ![i] = Blank[i]]
          /\ valid' = valid \ {i} /\ Local(p, [l[p] EXCEPT !.pc = "unref"])
          /\ UNCHANGED <<nlink, mode, owner, ref, lock, cwd, fd, leaked, buried>>
      BY <1>1 DEF iput
    <2> QED
      BY <1>0, <1>1, <2>1, FreedStep
  <1>2. ASSUME UNCHANGED <<type, dirent, valid>>
        PROVE  TypeOK' /\ FileSystem'
    <2>1. PICK f : f = [l[p] EXCEPT !.pc = "unref"]
      OBVIOUS
    <2>2. /\ f \in Locals /\ f.pc = "unref" /\ f.drop = i /\ f.ip = l[p].ip /\ f.dp = l[p].dp /\ f.old = l[p].old
          /\ f.then = l[p].then /\ f.call = l[p].call /\ f.rest = l[p].rest /\ f.new = l[p].new /\ f.name = l[p].name
      BY <1>i, <1>p, <2>1 DEF Put, Locals
    <2>3. Shaped(f) /\ StageOf(f) = Stage(p)
      BY <1>0, <1>p, <1>2, <2>2, LocalsOf DEF Shaped, StageOf, Stage
    <2>4. /\ l' = [l EXCEPT ![p] = f] /\ l'[p] = f
          /\ UNCHANGED <<type, nlink, mode, owner, dirent, ref, valid, lock, cwd, fd, leaked, buried>>
      BY <1>0, <1>p, <1>2, <2>1 DEF TypeOK, iput, Local, ondisk, icache
    <2>5. TypeOK'
      BY <1>0, <1>p, <1>2, <2>2, <2>4, LocalsOf DEF TypeOK
    <2>6. \A j \in Inum : ref'[j] - leaked'[j] - Tally(p, j)' = ref[j] - leaked[j] - Tally(p, j)
      <3>1. l'[p] = f /\ cwd'[p] = cwd[p] /\ fd'[p] = fd[p] /\ 0 \notin Inum
        BY <1>0, <1>p, <1>2, <2>4, LocalsOf
      <3>2. \A j \in Inum : Tally(p, j) \in Int /\ Tally(p, j)' = Tally(p, j)
        BY <1>0, <2>2, <3>1 DEF Tally, One
      <3> QED
        BY <2>4, <3>2 DEF TypeOK
    <2>7. \A j \in Inum : nlink'[j] - Owes(f, j) = nlink[j] - Owes(l[p], j)
      BY <1>0, <1>p, <1>2, <2>2, <2>3, <2>4, LocalsOf DEF TypeOK, Owes, StageOf, One, Stage
    <2>8. \A j \in Inum : j \in {cwd'[p], fd'[p], f.ip, f.dp, f.old} => Known(p, j)
      BY <1>0, <1>p, <1>2, <2>2, <2>4, LocalsOf DEF Known
    <2>9. Fits(p, f)
      BY <1>0, <1>p, <1>2, <2>2, <2>3, <2>4, <2>6, <2>7, <2>8, LocalsOf, LocksOf DEF Fits
    <2> QED
      BY <2>5, <2>9, QuietStep
  <1> QED
    BY <1>1, <1>2 DEF iput

\* A free inode is taken, and kept by this process alone until it has a name.
LEMMA NewbornStep ==
  ASSUME TypeOK, FileSystem, NEW p \in Proc, NEW n \in Inum, NEW t \in {"file", "dir"}, NEW m \in Mode,
         l[p].pc = "parent", l[p].call \in {"create", "mkdir"}, t = "dir" <=> l[p].call = "mkdir",
         Free(l[p].dp), dirent[l[p].dp][l[p].name] = 0, type[n] = "free",
         type' = [type EXCEPT ![n] = t], mode' = [mode EXCEPT ![n] = m],
         owner' = [owner EXCEPT ![n] = username[p]], Refer(n), lock' = [lock EXCEPT ![l[p].dp] = p],
         Local(p, [l[p] EXCEPT !.pc = "newborn", !.ip = n]), valid' = valid \union {l[p].dp},
         UNCHANGED <<nlink, dirent, cwd, fd, leaked, buried>>
  PROVE  TypeOK' /\ FileSystem'
  <1> PICK d : d = l[p].dp
    OBVIOUS
  <1>0. /\ Stage(p) = "parent" /\ l[p].drop = 0 /\ l[p].ip = 0 /\ d \in Inum /\ l[p].name \in Name
        /\ l[p].old = 0 /\ type[d] = "dir" /\ l[p].then \in PC
    BY LocalsOf DEF Shaped, Stage, StageOf, Pointer
  <1>1. /\ \A q \in Proc : n \notin {cwd[q], fd[q], l[q].ip, l[q].dp, l[q].old}
        /\ \A q \in Proc : l[q].drop = n => l[q].pc = "unref"
        /\ \A e \in Inum, x \in Name : dirent[e][x] # n
    BY UsedByFields DEF FileSystem
  <1>2. nlink[n] = 0 /\ dirent[n] = Blank[n] /\ n # d
    BY <1>0 DEF FileSystem, EntriesInPlace
  <1>3. PICK f : f = [l[p] EXCEPT !.pc = "newborn", !.ip = n]
    OBVIOUS
  <1>4. /\ f \in Locals /\ f.pc = "newborn" /\ f.drop = 0 /\ f.ip = n /\ f.dp = d /\ f.old = 0
        /\ f.name = l[p].name /\ f.call = l[p].call
    <2>1. l[p] \in Locals /\ n \in Pointer /\ "newborn" \in PC
      BY LocalsOf DEF PC
    <2> QED
      BY <1>0, <1>3, <2>1 DEF Locals
  <1>5. Shaped(f) /\ StageOf(f) = "newborn"
    BY <1>0, <1>4, LocalsOf DEF Shaped, StageOf
  <1>6. /\ l' = [l EXCEPT ![p] = f]
        /\ \A q \in Proc : l'[q] = IF q = p THEN f ELSE l[q]
        /\ \A q \in Proc : Stage(q)' = IF q = p THEN "newborn" ELSE Stage(q)
    <2>1. l' = [l EXCEPT ![p] = f] /\ \A q \in Proc : l'[q] = IF q = p THEN f ELSE l[q]
      BY <1>3 DEF Local, TypeOK
    <2> QED
      BY <1>5, <2>1 DEF Stage
  <1>7. ref' \in [Inum -> Nat] /\ \A j \in Inum : ref'[j] = ref[j] + (IF j = n THEN 1 ELSE 0)
    BY Referred
  <1>8. /\ lock' \in [Inum -> Proc \union {None}] /\ lock'[d] = p
        /\ \A j \in Inum, q \in Proc \ {p} : lock[j] = q => lock'[j] = q
    BY <1>0, Locked
  <1>9. /\ \A j \in Inum : type'[j] = IF j = n THEN t ELSE type[j]
        /\ dirent' = dirent /\ nlink' = nlink /\ \A j \in Inum : Blank[j]' = Blank[j]
    BY DEF TypeOK, Blank
  <1>10. TypeOK'
    <2>1. /\ type' \in [Inum -> {"free", "file", "dir"}] /\ mode' \in [Inum -> Mode]
          /\ owner' \in [Inum -> User] /\ valid' \subseteq Inum
      BY <1>0, Constants DEF TypeOK
    <2>2. l' \in [Proc -> Locals]
      BY <1>4, <1>6 DEF TypeOK
    <2> QED
      BY <1>7, <1>8, <2>1, <2>2 DEF TypeOK
  <1>11. LocalsShaped'
    BY <1>5, <1>6 DEF LocalsShaped, FileSystem
  <1>12. LocksHeld'
    <2> SUFFICES ASSUME NEW q \in Proc
                 PROVE  /\ Stage(q)' \in {"newborn", "victim", "unlinkbad", "linkbad"} => lock'[l'[q].dp] = q
                        /\ Stage(q)' \in {"created", "unlinked"} => lock'[l'[q].ip] = q
      BY DEF LocksHeld
    <2>1. CASE q = p
      BY <1>4, <1>6, <1>8, <2>1
    <2>2. CASE q # p
      <3>1. /\ Stage(q) \in {"newborn", "victim", "unlinkbad", "linkbad"} => l[q].dp \in Inum /\ lock[l[q].dp] = q
            /\ Stage(q) \in {"created", "unlinked"} => l[q].ip \in Inum /\ lock[l[q].ip] = q
        BY LocalsOf, LocksOf DEF Shaped, Stage, Pointer
      <3> QED
        BY <1>6, <1>8, <2>2, <3>1
    <2> QED
      BY <2>1, <2>2
  <1>13. OnlyChmodLeaks'
    <2>1. ASSUME NEW j \in Inum
          PROVE  Tally(p, j) \in Int /\ Tally(p, j)' = Tally(p, j) + (IF j = n THEN 1 ELSE 0)
      <3>1. l'[p] = f /\ cwd'[p] = cwd[p] /\ fd'[p] = fd[p] /\ j # 0
        BY <1>6, Constants
      <3> QED
        BY <1>0, <1>4, <3>1 DEF Tally, One
    <2>2. \A j \in Inum : ref'[j] - leaked'[j] - Tally(p, j)' = ref[j] - leaked[j] - Tally(p, j)
      BY <1>7, <2>1 DEF TypeOK
    <2> QED
      BY <1>6, <1>10, <2>2, RefsStep DEF FileSystem
  <1>14. ASSUME NEW q \in Proc, Stage(q)' = "newborn" PROVE Private(q, l[q].ip)'
    <2>1. CASE q = p
      <3>1. \A r \in Proc : /\ n \notin {cwd'[r], fd'[r], l'[r].dp, l'[r].old}
                            /\ l'[r].ip = n => r = p
                            /\ l'[r].drop = n => l'[r].pc = "unref"
        BY <1>0, <1>1, <1>2, <1>4, <1>6, Constants
      <3> QED
        BY <1>1, <1>2, <1>4, <1>6, <1>9, <2>1, <3>1 DEF Private
    <2>2. CASE q # p
      <3>1. Stage(q) = "newborn" /\ l'[q] = l[q]
        BY <1>6, <1>14, <2>2
      <3>2. Private(q, l[q].ip) /\ l[q].ip # n /\ l[q].ip # 0
        BY <1>1, <3>1, LocalsOf DEF FileSystem, Found, Shaped, Stage
      <3>3. \A r \in Proc : /\ l[q].ip \notin {cwd'[r], fd'[r], l'[r].dp, l'[r].old}
                            /\ l'[r].ip = l[q].ip => r = q
                            /\ l'[r].drop = l[q].ip => l'[r].pc = "unref"
        BY <1>0, <1>4, <1>6, <3>2 DEF Private
      <3> QED
        BY <1>9, <3>1, <3>2, <3>3 DEF Private, Blank
    <2> QED
      BY <2>1, <2>2
  <1>15. Found'
    <2>1. ASSUME NEW q \in Proc
          PROVE  /\ Stage(q)' = "victim" => dirent'[l'[q].dp][l'[q].name] = l'[q].ip
                 /\ Stage(q)' = "newborn" =>
                      /\ dirent'[l'[q].dp][l'[q].name] = 0
                      /\ type'[l'[q].ip] = "dir" <=> l'[q].call = "mkdir"
                      /\ Private(q, l[q].ip)'
                 /\ Stage(q)' = "unlinked" => dirent'[l'[q].ip] = Blank[l'[q].ip]
                 /\ l'[q].dp # 0 => type'[l'[q].dp] = "dir"
                 /\ l'[q].old # 0 => type'[l'[q].old] = "file"
      <3>1. CASE q = p
        BY <1>0, <1>2, <1>4, <1>6, <1>9, <1>14, <3>1
      <3>2. CASE q # p
        <4>1. Stage(q)' = Stage(q) /\ l'[q] = l[q]
          BY <1>6, <3>2
        <4>2. /\ l[q].ip # 0 => l[q].ip \in Inum /\ type'[l[q].ip] = type[l[q].ip]
              /\ l[q].dp # 0 => type'[l[q].dp] = type[l[q].dp]
              /\ l[q].old # 0 => type'[l[q].old] = type[l[q].old]
          BY <1>1, <1>9, LocalsOf DEF Pointer
        <4>3. /\ Stage(q) = "newborn" => l[q].ip # 0
              /\ Stage(q) = "victim" => dirent[l[q].dp][l[q].name] = l[q].ip
              /\ Stage(q) = "newborn" =>
                   /\ dirent[l[q].dp][l[q].name] = 0
                   /\ type[l[q].ip] = "dir" <=> l[q].call = "mkdir"
              /\ Stage(q) = "unlinked" => dirent[l[q].ip] = Blank[l[q].ip]
              /\ l[q].dp # 0 => type[l[q].dp] = "dir"
              /\ l[q].old # 0 => type[l[q].old] = "file"
          BY LocalsOf DEF FileSystem, Found, Shaped, Stage
        <4> QED
          BY <1>9, <1>14, <4>1, <4>2, <4>3
      <3> QED
        BY <3>1, <3>2
    <2> QED
      BY <2>1 DEF Found, Blank
  <1>16. UsedInodesAllocated'
    <2>1. ASSUME NEW j \in Inum, type'[j] = "free"
          PROVE  /\ \A q \in Proc : j \notin {cwd'[q], fd'[q], l'[q].ip, l'[q].dp, l'[q].old}
                 /\ \A q \in Proc : l'[q].drop = j => l'[q].pc = "unref"
                 /\ \A e \in Inum, x \in Name : dirent'[e][x] # j
      <3>1. j # n /\ type[j] = "free" /\ j # 0
        BY <1>9, <2>1, Constants
      <3>2. /\ \A q \in Proc : j \notin {cwd[q], fd[q], l[q].ip, l[q].dp, l[q].old}
            /\ \A q \in Proc : l[q].drop = j => l[q].pc = "unref"
            /\ \A e \in Inum, x \in Name : dirent[e][x] # j
        BY <3>1, UsedByFields DEF FileSystem
      <3>3. d # j
        BY <1>0, <3>1
      <3> QED
        BY <1>4, <1>6, <1>9, <3>1, <3>2, <3>3
    <2> QED
      BY <2>1, UsedByFieldsNext
  <1>17. LinksOwed'
    <2>1. ASSUME NEW j \in Inum
          PROVE  nlink'[j] - Links(j)' - Owes(f, j) = nlink[j] - Links(j) - Owes(l[p], j)
      <3>1. Owes(f, j) = 0 /\ Owes(l[p], j) = 0
        BY <1>0, <1>4, <1>5, Constants DEF Owes, One, Stage
      <3>2. Names(j)' = Names(j) /\ Subdirs(j)' = Subdirs(j)
        <4>1. \A x \in Name : dirent[j][x] # 0 => dirent[j][x] \in Inum \ {n}
          BY <1>1 DEF TypeOK, Pointer
        <4> QED
          BY <1>9, <4>1 DEF Names, Subdirs
      <3>3. Links(j)' = Links(j)
        BY <3>2 DEF Links
      <3> QED
        BY <1>9, <3>1, <3>3
    <2> QED
      BY <1>6, <1>10, <2>1, OwedLinksStep DEF FileSystem
  <1>18. EntriesInPlace'
    <2>1. \A j \in Inum : type'[j] = "free" => nlink'[j] = 0
      BY <1>9 DEF FileSystem, EntriesInPlace
    <2>2. \A j \in Inum : type'[j] # "dir" => dirent'[j] = Blank[j]
      BY <1>2, <1>9 DEF FileSystem, EntriesInPlace
    <2>3. \A j \in Inum : Names(j)' = Names(j)
      BY <1>9 DEF Names
    <2>4. ~buried' => \A j \in Inum \ {ROOTINO} : Names(j)' = {} => dirent'[j] = Blank[j]
      BY <1>9, <2>3 DEF FileSystem, EntriesInPlace
    <2> QED
      BY <1>9, <2>1, <2>2, <2>4 DEF EntriesInPlace
  <1> QED
    BY <1>10, <1>11, <1>12, <1>13, <1>15, <1>16, <1>17, <1>18 DEF FileSystem

LEMMA CreateStep ==
  ASSUME TypeOK, FileSystem, NEW p \in Proc, create(p)
  PROVE  TypeOK' /\ FileSystem'
  <1> PICK d, e : d = l[p].dp /\ e = dirent[d][l[p].name]
    OBVIOUS
  <1>0. /\ l[p].pc = "parent" /\ l[p].call \in {"create", "mkdir"} /\ Free(d) /\ d \in Inum
        /\ valid' = valid \union {d} /\ valid' \subseteq Inum
        /\ UNCHANGED <<nlink, dirent, cwd, fd, leaked, buried>>
    <2>1. /\ l[p].pc = "parent" /\ l[p].call \in {"create", "mkdir"} /\ Free(d)
          /\ valid' = valid \union {d} /\ UNCHANGED <<nlink, dirent, cwd, fd, leaked, buried>>
      BY DEF create
    <2>2. d \in Inum
      BY <2>1, LocalsOf DEF Shaped, StageOf, Pointer
    <2> QED
      BY <2>1, <2>2 DEF TypeOK
  <1>1. CASE /\ e # 0 /\ Refer(e) /\ Local(p, [Put(p, d, "exists") EXCEPT !.ip = e, !.dp = 0])
             /\ UNCHANGED <<type, mode, owner, lock>>
    BY <1>0, <1>1, ExistsStep
  <1>2. CASE /\ Local(p, [Put(p, d, "idle") EXCEPT !.dp = 0])
             /\ UNCHANGED <<type, mode, owner, ref, lock>>
    <2>1. OnFailure(p) = "idle"
      BY <1>0 DEF OnFailure
    <2> QED
      BY <1>0, <1>2, <2>1, PutParentStep DEF ondisk
  <1>3. ASSUME NEW n \in Inum, e = 0, IsFirstFree(n),
               type' = [type EXCEPT ![n] = IF l[p].call = "mkdir" THEN "dir" ELSE "file"],
               mode' = [mode EXCEPT ![n] = IF l[p].call = "mkdir" THEN DefaultDir ELSE DefaultFile],
               owner' = [owner EXCEPT ![n] = username[p]], Refer(n), lock' = [lock EXCEPT ![d] = p],
               Local(p, [l[p] EXCEPT !.pc = "newborn", !.ip = n])
        PROVE  TypeOK' /\ FileSystem'
    <2>1. PICK t, m : /\ t = IF l[p].call = "mkdir" THEN "dir" ELSE "file"
                      /\ m = IF l[p].call = "mkdir" THEN DefaultDir ELSE DefaultFile
      OBVIOUS
    <2>2. t \in {"file", "dir"} /\ m \in Mode /\ (t = "dir" <=> l[p].call = "mkdir")
      BY <2>1, Constants
    <2>3. type' = [type EXCEPT ![n] = t] /\ mode' = [mode EXCEPT ![n] = m] /\ type[n] = "free"
      BY <1>3, <2>1 DEF IsFirstFree
    <2> QED
      BY <1>0, <1>3, <2>2, <2>3, NewbornStep
  <1> QED
    BY <1>1, <1>2, <1>3 DEF create

\* Every process is in the root directory and in no call, as after booting.
AtBoot == \A p \in Proc : cwd[p] = ROOTINO /\ fd[p] = 0 /\ l[p] = Idle

LEMMA BootState ==
  AtBoot => /\ LocalsShaped /\ LocksHeld /\ Found
            /\ \A i \in Inum : Owed(i) = {}
            /\ \A i \in Inum : Cardinality(Points(i)) = IF i = ROOTINO THEN Cardinality(Proc) ELSE 0
  <1> SUFFICES ASSUME AtBoot
               PROVE  /\ LocalsShaped /\ LocksHeld /\ Found
                      /\ \A i \in Inum : Owed(i) = {}
                      /\ \A i \in Inum : Cardinality(Points(i)) = IF i = ROOTINO THEN Cardinality(Proc) ELSE 0
    OBVIOUS
  <1>1. \A p \in Proc : l[p] = Idle /\ Stage(p) = "idle" /\ Shaped(l[p])
    BY IdleLocals DEF AtBoot, Stage
  <1>2. Idle.ip = 0 /\ Idle.dp = 0 /\ Idle.old = 0 /\ Idle.drop = 0
    BY DEF Idle
  <1>3. LocalsShaped /\ LocksHeld
    BY <1>1 DEF LocalsShaped, LocksHeld
  <1>4. Found
    BY <1>1, <1>2 DEF Found
  <1>5. \A i \in Inum : Owed(i) = {}
    BY <1>1, <1>2, Constants DEF Owed
  <1>6. ASSUME NEW i \in Inum
        PROVE  Cardinality(Points(i)) = IF i = ROOTINO THEN Cardinality(Proc) ELSE 0
    <2>1. \A p \in Proc, k \in 1..6 : Pointers(p)[k] = IF k = 1 THEN ROOTINO ELSE 0
      BY <1>1, <1>2 DEF Pointers, AtBoot
    <2>2. CASE i = ROOTINO
      <3>1. Points(i) = Proc \X {1}
        BY <2>1, <2>2, Constants DEF Points
      <3>2. IsFiniteSet({1}) /\ Cardinality({1}) = 1
        BY FS_Singleton
      <3>3. IsFiniteSet(Proc) /\ Cardinality(Proc) \in Nat
        BY Constants, FS_CardinalityType
      <3>4. Cardinality(Proc \X {1}) = Cardinality(Proc) * Cardinality({1})
        BY <3>2, <3>3, FS_Product
      <3> QED
        BY <2>2, <3>1, <3>2, <3>3, <3>4
    <2>3. CASE i # ROOTINO
      <3>1. Points(i) = {}
        BY <2>1, <2>3, Constants DEF Points
      <3> QED
        BY <2>3, <3>1, FS_EmptySet
    <2> QED
      BY <2>2, <2>3
  <1> QED
    BY <1>3, <1>4, <1>5, <1>6

LEMMA BootStateNext ==
  (AtBoot => /\ LocalsShaped /\ LocksHeld /\ Found
             /\ \A i \in Inum : Owed(i) = {}
             /\ \A i \in Inum : Cardinality(Points(i)) = IF i = ROOTINO THEN Cardinality(Proc) ELSE 0)'
  BY BootState, PTL

\* Between calls no link is owed.
LEMMA QuietOwesNothing ==
  ASSUME TypeOK, FileSystem, Quiet
  PROVE  \A i \in Inum : Owed(i) = {}
  <1> SUFFICES ASSUME NEW i \in Inum, NEW q \in Proc
               PROVE  ~(l[q].old = i /\ Stage(q) # "linked") /\ ~(Stage(q) = "unlinked" /\ l[q].ip = i)
    BY DEF Owed
  <1>1. l[q].pc = "idle" \/ l[q].call = "chmod"
    BY DEF Quiet, InTransaction
  <1>2. l[q].old = 0 /\ Stage(q) # "unlinked"
    BY <1>1, LocalsOf DEF Shaped, Stage, StageOf
  <1> QED
    BY <1>2, Constants

LEMMA CrashStep ==
  ASSUME TypeOK, FileSystem, Crash
  PROVE  TypeOK' /\ FileSystem'
  <1>1. AtBoot' /\ UNCHANGED <<type, nlink, mode, owner, dirent, buried>> /\ \A i \in Inum : leaked'[i] = 0
    BY DEF Crash, AtBoot, ondisk, Idle
  <1>2. Cardinality(Proc) \in Nat
    BY Constants, FS_CardinalityType
  <1>3. TypeOK'
    <2>1. /\ ref' \in [Inum -> Nat] /\ valid' \subseteq Inum /\ lock' \in [Inum -> Proc \union {None}]
          /\ leaked' \in [Inum -> Nat]
      BY <1>2 DEF Crash
    <2>2. cwd' \in [Proc -> Inum] /\ fd' \in [Proc -> Pointer] /\ l' \in [Proc -> Locals]
      BY IdleLocals, Constants DEF Crash, Pointer
    <2> QED
      BY <1>1, <2>1, <2>2 DEF TypeOK
  <1>4. /\ LocalsShaped' /\ LocksHeld' /\ Found'
        /\ \A i \in Inum : Owed(i)' = {}
        /\ \A i \in Inum : Cardinality(Points(i))' = IF i = ROOTINO THEN Cardinality(Proc) ELSE 0
    BY <1>1, BootStateNext
  <1>5. OnlyChmodLeaks'
    <2>1. \A i \in Inum : ref'[i] = IF i = ROOTINO THEN Cardinality(Proc) ELSE 0
      BY DEF Crash
    <2> QED
      BY <1>1, <1>2, <1>4, <2>1 DEF OnlyChmodLeaks
  <1>6. UsedInodesAllocated'
    <2>1. type[ROOTINO] # "free"
      BY NoLinks, Constants DEF FileSystem, EntriesInPlace
    <2>2. \A q \in Proc : cwd'[q] = ROOTINO /\ fd'[q] = 0 /\ l'[q].ip = 0 /\ l'[q].dp = 0 /\ l'[q].old = 0
                          /\ l'[q].drop = 0
      BY <1>1 DEF AtBoot, Idle
    <2>3. \A j \in Inum : type[j] = "free" => \A d \in Inum, n \in Name : dirent[d][n] # j
      BY UsedByFields DEF FileSystem
    <2> QED
      BY <1>1, <2>1, <2>2, <2>3, UsedByFieldsNext, Constants
  <1>7. \A i \in Inum : Links(i)' = Links(i) /\ Names(i)' = Names(i) /\ Blank[i]' = Blank[i]
    BY <1>1 DEF Links, Names, Subdirs, Blank
  <1>8. LinksOwed'
    <2>1. \A i \in Inum : Owed(i) = {}
      BY QuietOwesNothing DEF Crash
    <2> QED
      BY <1>1, <1>4, <1>7, <2>1 DEF LinksOwed, FileSystem
  <1>9. EntriesInPlace'
    BY <1>1, <1>7 DEF EntriesInPlace, FileSystem
  <1> QED
    BY <1>3, <1>4, <1>5, <1>6, <1>8, <1>9 DEF FileSystem

-----------------------------------------------------------------------------
(* The theorems.                                                              *)

LEMMA InitialFileSystem ==
  Init => TypeOK /\ FileSystem
  <1> SUFFICES ASSUME Init PROVE TypeOK /\ FileSystem
    OBVIOUS
  <1>1. AtBoot
    BY DEF Init, AtBoot
  <1>2. Cardinality(Proc) \in Nat
    BY Constants, FS_CardinalityType
  <1>3. \A i \in Inum : Blank[i] = [n \in Name |-> 0] /\ dirent[i] = Blank[i]
    BY DEF Init, Blank
  <1>4. TypeOK
    <2>1. /\ type \in [Inum -> {"free", "file", "dir"}] /\ nlink \in [Inum -> Nat]
          /\ mode \in [Inum -> Mode] /\ owner \in [Inum -> User]
      BY Constants DEF Init
    <2>2. dirent \in [Inum -> [Name -> Pointer]]
      BY DEF Init, Blank, Pointer
    <2>3. /\ ref \in [Inum -> Nat] /\ valid \subseteq Inum /\ lock \in [Inum -> Proc \union {None}]
          /\ leaked \in [Inum -> Nat] /\ buried \in BOOLEAN
      BY <1>2 DEF Init
    <2>4. cwd \in [Proc -> Inum] /\ fd \in [Proc -> Pointer] /\ l \in [Proc -> Locals]
      BY IdleLocals, Constants DEF Init, Pointer
    <2> QED
      BY <2>1, <2>2, <2>3, <2>4 DEF TypeOK
  <1>5. /\ LocalsShaped /\ LocksHeld /\ Found
        /\ \A i \in Inum : Owed(i) = {}
        /\ \A i \in Inum : Cardinality(Points(i)) = IF i = ROOTINO THEN Cardinality(Proc) ELSE 0
    BY <1>1, BootState
  <1>6. OnlyChmodLeaks
    BY <1>2, <1>5 DEF OnlyChmodLeaks, Init
  <1>7. UsedInodesAllocated
    <2>1. \A q \in Proc : cwd[q] = ROOTINO /\ fd[q] = 0 /\ l[q].ip = 0 /\ l[q].dp = 0 /\ l[q].old = 0
                          /\ l[q].drop = 0
      BY <1>1 DEF AtBoot, Idle
    <2>2. \A j \in Inum : type[j] = "free" => j # ROOTINO /\ j # 0
      BY Constants DEF Init
    <2> QED
      BY <1>3, <2>1, <2>2, UsedByFields
  <1>8. \A i \in Inum : Names(i) = {} /\ Subdirs(i) = {}
    <2>1. \A d \in Inum, n \in Name : dirent[d][n] = 0
      BY <1>3
    <2>2. \A i \in Inum : Names(i) = {}
      BY <2>1, Constants DEF Names
    <2>3. \A i \in Inum : Subdirs(i) = {}
      BY <2>1 DEF Subdirs
    <2> QED
      BY <2>2, <2>3
  <1>9. LinksOwed
    <2>1. Cardinality({}) = 0
      BY FS_EmptySet
    <2>2. \A i \in Inum : Links(i) = IF i = ROOTINO THEN 1 ELSE 0
      BY <1>8, <2>1 DEF Links
    <2> QED
      BY <1>5, <2>1, <2>2 DEF LinksOwed, Init
  <1>10. EntriesInPlace
    BY <1>3 DEF EntriesInPlace, Init
  <1> QED
    BY <1>4, <1>5, <1>6, <1>7, <1>9, <1>10 DEF FileSystem

LEMMA FileSystemStep ==
  TypeOK /\ FileSystem /\ [Next]_vars => TypeOK' /\ FileSystem'
  <1> SUFFICES ASSUME TypeOK, FileSystem, [Next]_vars PROVE TypeOK' /\ FileSystem'
    OBVIOUS
  <1>1. CASE Crash
    BY <1>1, CrashStep
  <1>2. ASSUME NEW p \in Proc, NEW r \in Request[p], begin(p, r) PROVE TypeOK' /\ FileSystem'
    BY <1>2, BeginStep
  <1>3. ASSUME NEW p \in Proc, namex(p) \/ iput(p) \/ iput_unref(p) PROVE TypeOK' /\ FileSystem'
    BY <1>3, WalkStep, IputStep, UnrefStep
  <1>4. ASSUME NEW p \in Proc, sys_open(p) \/ created(p) \/ exists(p) PROVE TypeOK' /\ FileSystem'
    BY <1>4, OpensStep
  <1>5. ASSUME NEW p \in Proc, sys_close(p) \/ sys_chdir(p) \/ chmod(p) PROVE TypeOK' /\ FileSystem'
    BY <1>5, CloseStep, ChdirStep, ChmodStep
  <1>6. ASSUME NEW p \in Proc, create(p) \/ create_link(p) PROVE TypeOK' /\ FileSystem'
    BY <1>6, CreateStep, CreateLinkStep
  <1>7. ASSUME NEW p \in Proc, sys_unlink(p) \/ unlink_entry(p) \/ unlinked(p) PROVE TypeOK' /\ FileSystem'
    BY <1>7, VictimStep, UnlinkEntryStep, UnlinkedStep
  <1>8. ASSUME NEW p \in Proc, unlockbad(p, "unlinkbad", "idle") \/ unlockbad(p, "linkbad", "linkundo")
        PROVE  TypeOK' /\ FileSystem'
    BY <1>8, UnlockStep
  <1>9. ASSUME NEW p \in Proc, sys_link(p) \/ dirlink(p) \/ linked(p) \/ linkundo(p)
        PROVE  TypeOK' /\ FileSystem'
    BY <1>9, LinkStep, DirlinkStep, LinkedStep, UndoStep
  <1>10. CASE UNCHANGED vars
    <2>1. UNCHANGED <<type, nlink, mode, owner, dirent, ref, valid, lock, cwd, fd, l, leaked, buried>>
      BY <1>10 DEF vars, ondisk, icache
    <2>2. TypeOK'
      BY <2>1 DEF TypeOK
    <2>3. LocalsShaped' /\ LocksHeld' /\ Found'
      BY <2>1 DEF FileSystem, LocalsShaped, LocksHeld, Found, Stage, Private, Blank
    <2>4. \A i \in Inum : /\ Points(i)' = Points(i) /\ Links(i)' = Links(i) /\ Owed(i)' = Owed(i)
                          /\ Names(i)' = Names(i) /\ Blank[i]' = Blank[i]
      BY <2>1 DEF Points, Pointers, Links, Owed, Stage, Names, Subdirs, Blank
    <2>5. OnlyChmodLeaks' /\ LinksOwed' /\ EntriesInPlace'
      BY <2>1, <2>4 DEF FileSystem, OnlyChmodLeaks, LinksOwed, EntriesInPlace
    <2>6. UsedInodesAllocated'
      BY <2>1 DEF FileSystem, UsedInodesAllocated, Pointers
    <2> QED
      BY <2>2, <2>3, <2>5, <2>6 DEF FileSystem
  <1> QED
    BY <1>1, <1>2, <1>3, <1>4, <1>5, <1>6, <1>7, <1>8, <1>9, <1>10 DEF Next, Step

LEMMA Invariant == Spec => [](TypeOK /\ FileSystem)
  BY InitialFileSystem, FileSystemStep, PTL DEF Spec

(* The variables keep their types: in particular no link or reference count   *)
(* ever drops below zero, and every pointer is an inode number or 0.          *)
THEOREM TypeCorrect == Spec => []TypeOK
  BY Invariant, PTL

(* The reference count of a cache entry is the number of the pointers to it,  *)
(* of open files, current directories and calls under way, and of those chmod *)
(* never gave back (fs.c:967), whichever calls overlap and whichever fail.    *)
THEOREM ReferencesCounted == Spec => []OnlyChmodLeaks
  <1>1. TypeOK /\ FileSystem => OnlyChmodLeaks
    BY DEF FileSystem
  <1> QED
    BY <1>1, Invariant, PTL

(* fs.c:350-377: iput frees an inode only when no process uses it and no      *)
(* directory names it, although it drops its reference in a step of its own.  *)
THEOREM NoUsedInodeFreed == Spec => []UsedInodesAllocated
  <1>1. TypeOK /\ FileSystem => UsedInodesAllocated
    BY DEF FileSystem
  <1> QED
    BY <1>1, Invariant, PTL

(* Between the calls, and so after a crash, every inode has as many links as  *)
(* names and subdirectories; never fewer than names, even when an entry went  *)
(* into a removed directory (sysfile.c: create, sys_link, sys_unlink).        *)
THEOREM LinksAreCounted == Spec => []LinksCounted
  <1>1. TypeOK /\ FileSystem => LinksCounted
    <2> SUFFICES ASSUME TypeOK, FileSystem, Quiet, NEW i \in Inum
                 PROVE  IF buried THEN nlink[i] >= Cardinality(Names(i)) ELSE nlink[i] = Links(i)
      BY DEF LinksCounted
    <2>1. Cardinality(Owed(i)) = 0
      BY QuietOwesNothing, FS_EmptySet
    <2>2. IF buried THEN nlink[i] >= Links(i) + Cardinality(Owed(i))
          ELSE nlink[i] = Links(i) + Cardinality(Owed(i))
      BY DEF FileSystem, LinksOwed
    <2>3. /\ Cardinality(Names(i)) \in Nat /\ Cardinality(Subdirs(i)) \in Nat /\ nlink[i] \in Nat
          /\ Links(i) = Cardinality(Names(i)) + Cardinality(Subdirs(i)) + (IF i = ROOTINO THEN 1 ELSE 0)
      BY LinksFinite DEF Links, TypeOK
    <2>4. Links(i) \in Nat /\ Links(i) >= Cardinality(Names(i))
      BY <2>3
    <2> QED
      BY <2>1, <2>2, <2>3, <2>4
  <1> QED
    BY <1>1, Invariant, PTL

=============================================================================

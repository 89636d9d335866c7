------------------------------- MODULE Inodes -------------------------------
(* Inodes, directories and path names of project 3: fs.c and the system calls *)
(* of sysfile.c, with owners and modes, and the inode cache.                  *)
(*                                                                            *)
(* Granularity: what is done under the sleep lock of one inode is a step; a   *)
(* call that holds one lock while it waits for another is several.  iput is   *)
(* two steps: up to releasesleep, and the decrement of ref (fs.c:360-377).    *)
(* The cached copy of an inode agrees with its block whenever it is unlocked  *)
(* (iupdate), so there is one copy.  File contents are left out.              *)
(*                                                                            *)
(* A transaction survives a crash as a whole, with the others of its group    *)
(* (module Log), and a group ends when nobody is in a call.  So a crash later *)
(* on leaves what a crash at the end of the group leaves.                     *)
EXTENDS Integers, Sequences, FiniteSets, Functions, FiniteSetsExt

CONSTANTS Proc, User, Root, \* processes, user names, "root"
          username,         \* the user each process runs as
          Ninodes,          \* inodes 1..Ninodes; ROOTINO is 1
          Name,             \* names of directory entries other than "." and ".."
          Request,          \* [call, path, write, new, mode]: what each process may call;
                            \* a path is [abs: BOOLEAN, names: Seq(Name)]
          MaxLeaks,         \* how often chmod finds a file (bound)
          None

Inum == 1..Ninodes
ROOTINO == 1
DefaultFile == {"RUSR", "WUSR", "ROTH"}
DefaultDir == {"RUSR", "WUSR", "XUSR", "ROTH", "XOTH"}
Mode == SUBSET (DefaultDir \union {"WOTH"})
Path == [abs : BOOLEAN, names : Seq(Name)]

ASSUME ConstantsAssumption ==
    /\ username \in [Proc -> User]
    /\ Root \in User
    /\ Ninodes \in Nat \ {0}
    /\ \A p \in Proc : \A r \in Request[p] :
           /\ r.call \in {"open", "create", "mkdir", "unlink", "link", "chdir", "chmod"}
           /\ r.path \in Path /\ r.new \in Path /\ r.write \in BOOLEAN /\ r.mode \in Mode
    /\ IsFiniteSet(Proc) /\ IsFiniteSet(Name)
    /\ None \notin Proc
    /\ MaxLeaks \in Nat

VARIABLES
    type, nlink, mode, owner,  \* inodes; type "free" is 0
    dirent,                    \* entries of a directory: inode number or 0
    ref, valid, lock,          \* inode cache
    cwd, fd,                   \* each process: directory, its open file or 0
    l,                         \* each process: its call and the locals of it
    leaked,                    \* references chmod did not give back (history)
    buried                     \* an entry was put into a removed directory (history)

ondisk == <<type, nlink, mode, owner, dirent>>
icache == <<ref, valid, lock>>
vars == <<ondisk, icache, cwd, fd, l, leaked, buried>>

\* The local pointers ip, dp, old (sys_link's ip) and drop (the one iput is
\* called with) are 0 when they hold no reference.
Idle == [pc |-> "idle", call |-> "none", rest |-> << >>, new |-> None, write |-> FALSE, mode |-> {},
         name |-> None, ip |-> 0, dp |-> 0, old |-> 0, drop |-> 0, then |-> "idle"]

Blank == [i \in Inum |-> [n \in Name |-> 0]]

\* mkfs makes the root directory; every process starts there.
Init ==
    /\ type = [i \in Inum |-> IF i = ROOTINO THEN "dir" ELSE "free"]
    /\ nlink = [i \in Inum |-> IF i = ROOTINO THEN 1 ELSE 0]
    /\ mode = [i \in Inum |-> IF i = ROOTINO THEN DefaultDir ELSE {}]
    /\ owner = [i \in Inum |-> Root]
    /\ dirent = Blank
    /\ ref = [i \in Inum |-> IF i = ROOTINO THEN Cardinality(Proc) ELSE 0]
    /\ valid = {}
    /\ lock = [i \in Inum |-> None]
    /\ cwd = [p \in Proc |-> ROOTINO]
    /\ fd = [p \in Proc |-> 0]
    /\ l = [p \in Proc |-> Idle]
    /\ leaked = [i \in Inum |-> 0]
    /\ buried = FALSE

-----------------------------------------------------------------------------
(* Helpers *)

\* rwx is "R", "W" or "X".  (exec asks for "X" of a file in the same way.)
check_mode(p, i, usr, oth) ==
    IF username[p] = Root \/ username[p] = owner[i] THEN usr \in mode[i] ELSE oth \in mode[i]
MayRead(p, i) == check_mode(p, i, "RUSR", "ROTH")
MayWrite(p, i) == check_mode(p, i, "WUSR", "WOTH")
MayExecute(p, i) == check_mode(p, i, "XUSR", "XOTH")

Free(i) == lock[i] = None
Put(p, i, then) == [l[p] EXCEPT !.pc = "iput", !.drop = i, !.then = then]
Refer(i) == ref' = [ref EXCEPT ![i] = @ + 1]
Local(p, f) == l' = [l EXCEPT ![p] = f]

-----------------------------------------------------------------------------
(* iput, and the second half of iunlockput *)

iput_Careless(p) ==                                                   \* seeded fault
    LET i == l[p].drop IN
    /\ l[p].pc = "iput" /\ Free(i)
    /\ IF i \in valid /\ nlink[i] = 0
       THEN /\ type' = [type EXCEPT ![i] = "free"]
            /\ dirent' = [dirent EXCEPT ![i] = Blank[i]]
            /\ valid' = valid \ {i}
       ELSE UNCHANGED <<type, dirent, valid>>
    /\ Local(p, [l[p] EXCEPT !.pc = "unref"])
    /\ UNCHANGED <<nlink, mode, owner, ref, lock, cwd, fd, leaked, buried>>

\* The last reference to an inode without links frees it.
iput(p) ==
    LET i == l[p].drop IN
    /\ l[p].pc = "iput" /\ Free(i)
    /\ IF i \in valid /\ nlink[i] = 0 /\ ref[i] = 1
       THEN /\ type' = [type EXCEPT ![i] = "free"]
            /\ dirent' = [dirent EXCEPT ![i] = Blank[i]]
            /\ valid' = valid \ {i}
       ELSE UNCHANGED <<type, dirent, valid>>
    /\ Local(p, [l[p] EXCEPT !.pc = "unref"])
    /\ UNCHANGED <<nlink, mode, owner, ref, lock, cwd, fd, leaked, buried>>

\* The rest of iput.  An entry without references is used for another inode.
iput_unref(p) ==
    LET i == l[p].drop IN
    /\ l[p].pc = "unref"
    /\ ref' = [ref EXCEPT ![i] = @ - 1]
    /\ valid' = IF ref[i] = 1 THEN valid \ {i} ELSE valid
    /\ Local(p, IF l[p].then = "idle" THEN Idle
                ELSE [l[p] EXCEPT !.pc = l[p].then, !.drop = 0, !.then = "idle"])
    /\ UNCHANGED <<ondisk, lock, cwd, fd, leaked, buried>>

-----------------------------------------------------------------------------
(* namex *)

WantsParent(call) == call \in {"create", "mkdir", "unlink", "link2"}
OnFailure(p) == IF l[p].call = "link2" THEN "linkundo" ELSE "idle"

Start(p, x) == IF x.abs THEN ROOTINO ELSE cwd[p]

\* The locals of a call that starts to walk at f.ip.  A path without names has
\* nothing to walk, and no parent.
Walk(f) ==
    IF f.rest # << >> THEN [f EXCEPT !.pc = "walk"]
    ELSE IF WantsParent(f.call)
    THEN [f EXCEPT !.pc = "iput", !.drop = f.ip, !.ip = 0,
                   !.then = IF f.call = "link2" THEN "linkundo" ELSE "idle"]
    ELSE [f EXCEPT !.pc = "found"]

\* One round of namex's loop.
namex(p) ==
    LET i == l[p].ip
        name == Head(l[p].rest)
        child == dirent[i][name]
        last == Len(l[p].rest) = 1
    IN
    /\ l[p].pc = "walk" /\ Free(i)
    /\ valid' = valid \union {i}
    /\ \/ /\ type[i] # "dir" \/ ~MayExecute(p, i)
          /\ Local(p, [Put(p, i, OnFailure(p)) EXCEPT !.ip = 0])
          /\ UNCHANGED ref
       \/ /\ type[i] = "dir" /\ MayExecute(p, i) /\ last /\ WantsParent(l[p].call)
          /\ Local(p, [l[p] EXCEPT !.pc = "parent", !.dp = i, !.ip = 0, !.name = name, !.rest = << >>])
          /\ UNCHANGED ref
       \/ /\ type[i] = "dir" /\ MayExecute(p, i) /\ ~(last /\ WantsParent(l[p].call))
          /\ IF child = 0
             THEN Local(p, [Put(p, i, OnFailure(p)) EXCEPT !.ip = 0]) /\ UNCHANGED ref
             ELSE /\ Refer(child)
                  /\ Local(p, [Put(p, i, IF last THEN "found" ELSE "walk")
                                  EXCEPT !.ip = child, !.rest = Tail(@)])
    /\ UNCHANGED <<ondisk, lock, cwd, fd, leaked, buried>>

\* begin_op and the start of namex; sys_link is given a second path.
begin(p, r) ==
    LET s == Start(p, r.path) IN
    /\ l[p].pc = "idle"
    /\ r.call = "chmod" => SumFunction(leaked) < MaxLeaks
    /\ Refer(s)
    /\ Local(p, Walk([Idle EXCEPT !.call = r.call, !.rest = r.path.names, !.ip = s, !.write = r.write,
                                  !.new = IF r.call = "link" THEN r.new ELSE None,
                                  !.mode = IF r.call = "chmod" THEN r.mode ELSE {}]))
    /\ UNCHANGED <<ondisk, valid, lock, cwd, fd, leaked, buried>>

-----------------------------------------------------------------------------
(* Calls that use the inode they find *)

At(p, pc, call) == l[p].pc = pc /\ l[p].call = call

OpenFails(p, i) ==
    \/ type[i] = "dir" /\ l[p].write
    \/ ~MayRead(p, i)
    \/ l[p].write /\ ~MayWrite(p, i)
    \/ fd[p] # 0

\* The part of sys_open after namei or create; filealloc or fdalloc may fail.
\* Opening for writing is O_RDWR.
Open(p, i) ==
    IF OpenFails(p, i)
    THEN Local(p, [Put(p, i, "idle") EXCEPT !.ip = 0]) /\ UNCHANGED fd
    ELSE Local(p, Idle) /\ fd' = [fd EXCEPT ![p] = i]

sys_open(p) ==
    LET i == l[p].ip IN
    /\ At(p, "found", "open") /\ Free(i)
    /\ valid' = valid \union {i}
    /\ Open(p, i)
    /\ UNCHANGED <<ondisk, ref, lock, cwd, leaked, buried>>

sys_close(p) ==
    /\ l[p].pc = "idle" /\ fd[p] # 0
    /\ Local(p, [Put(p, fd[p], "idle") EXCEPT !.call = "close"])
    /\ fd' = [fd EXCEPT ![p] = 0]
    /\ UNCHANGED <<ondisk, icache, cwd, leaked, buried>>

sys_chdir(p) ==
    LET i == l[p].ip IN
    /\ At(p, "found", "chdir") /\ Free(i)
    /\ valid' = valid \union {i}
    /\ IF type[i] = "dir" /\ MayExecute(p, i)
       THEN /\ Local(p, [Put(p, cwd[p], "idle") EXCEPT !.ip = 0])
            /\ cwd' = [cwd EXCEPT ![p] = i]
       ELSE /\ Local(p, [Put(p, i, "idle") EXCEPT !.ip = 0])
            /\ UNCHANGED cwd
    /\ UNCHANGED <<ondisk, ref, lock, fd, leaked, buried>>

\* chmod called namei before begin_op, and keeps the reference for ever.
chmod(p) ==
    LET i == l[p].ip IN
    /\ At(p, "found", "chmod") /\ Free(i)
    /\ valid' = valid \union {i}
    /\ IF username[p] \in {Root, owner[i]}
       THEN mode' = [mode EXCEPT ![i] = l[p].mode]
       ELSE UNCHANGED mode
    /\ leaked' = [leaked EXCEPT ![i] = @ + 1]
    /\ Local(p, Idle)
    /\ UNCHANGED <<type, nlink, owner, dirent, ref, lock, cwd, fd, buried>>

-----------------------------------------------------------------------------
(* create: sys_open with O_CREATE, sys_mkdir *)

IsFirstFree(n) == type[n] = "free" /\ \A m \in 1..n - 1 : type[m] # "free"

\* Up to the lock of the new inode.  ialloc panics when there is no inode left;
\* here it does not go on.
create(p) ==
    LET d == l[p].dp
        e == dirent[d][l[p].name]
    IN
    /\ l[p].pc = "parent" /\ l[p].call \in {"create", "mkdir"} /\ Free(d)
    /\ valid' = valid \union {d}
    /\ \/ /\ e # 0
          /\ Refer(e)
          /\ Local(p, [Put(p, d, "exists") EXCEPT !.ip = e, !.dp = 0])
          /\ UNCHANGED <<type, mode, owner, lock>>
       \/ /\ e = 0 /\ ~MayWrite(p, d)
          /\ Local(p, [Put(p, d, "idle") EXCEPT !.dp = 0])
          /\ UNCHANGED <<type, mode, owner, ref, lock>>
       \/ /\ e = 0 /\ MayWrite(p, d)
          /\ \E n \in Inum :
             /\ IsFirstFree(n)
             /\ type' = [type EXCEPT ![n] = IF l[p].call = "mkdir" THEN "dir" ELSE "file"]
             /\ mode' = [mode EXCEPT ![n] = IF l[p].call = "mkdir" THEN DefaultDir ELSE DefaultFile]
             /\ owner' = [owner EXCEPT ![n] = username[p]]
             /\ Refer(n)
             /\ lock' = [lock EXCEPT ![d] = p]
             /\ Local(p, [l[p] EXCEPT !.pc = "newborn", !.ip = n])
    /\ UNCHANGED <<nlink, dirent, cwd, fd, leaked, buried>>

\* The new inode is locked, linked and entered, the directory unlocked.
create_link(p) ==
    LET d == l[p].dp
        i == l[p].ip
    IN
    /\ l[p].pc = "newborn" /\ Free(i)
    /\ valid' = valid \union {i}
    /\ nlink' = [nlink EXCEPT ![i] = 1, ![d] = IF l[p].call = "mkdir" THEN @ + 1 ELSE @]
    /\ dirent' = [dirent EXCEPT ![d][l[p].name] = i]
    /\ lock' = [lock EXCEPT ![d] = None, ![i] = p]
    /\ buried' = (buried \/ nlink[d] = 0)
    /\ Local(p, [Put(p, d, "created") EXCEPT !.dp = 0])
    /\ UNCHANGED <<type, mode, owner, ref, cwd, fd, leaked>>

\* create returned a new inode, locked.
created(p) ==
    LET i == l[p].ip IN
    /\ l[p].pc = "created"
    /\ lock' = [lock EXCEPT ![i] = None]
    /\ IF l[p].call = "create" THEN Open(p, i)
       ELSE Local(p, [Put(p, i, "idle") EXCEPT !.ip = 0]) /\ UNCHANGED fd
    /\ UNCHANGED <<ondisk, ref, valid, cwd, leaked, buried>>

\* create found the name.
exists(p) ==
    LET i == l[p].ip IN
    /\ l[p].pc = "exists" /\ Free(i)
    /\ valid' = valid \union {i}
    /\ IF l[p].call = "create" /\ type[i] = "file" /\ MayWrite(p, i) THEN Open(p, i)
       ELSE Local(p, [Put(p, i, "idle") EXCEPT !.ip = 0]) /\ UNCHANGED fd
    /\ UNCHANGED <<ondisk, ref, lock, cwd, leaked, buried>>

-----------------------------------------------------------------------------
(* sys_unlink *)

sys_unlink(p) ==
    LET d == l[p].dp
        e == dirent[d][l[p].name]
    IN
    /\ At(p, "parent", "unlink") /\ Free(d)
    /\ valid' = valid \union {d}
    /\ IF e = 0 \/ ~MayWrite(p, d)
       THEN /\ Local(p, [Put(p, d, "idle") EXCEPT !.dp = 0])
            /\ UNCHANGED <<ref, lock>>
       ELSE /\ Refer(e)
            /\ lock' = [lock EXCEPT ![d] = p]
            /\ Local(p, [l[p] EXCEPT !.pc = "victim", !.ip = e])
    /\ UNCHANGED <<ondisk, cwd, fd, leaked, buried>>

isdirempty(i) == dirent[i] = Blank[i]

unlink_entry_Full(p) ==                                               \* seeded fault
    LET d == l[p].dp
        i == l[p].ip
    IN
    /\ l[p].pc = "victim" /\ Free(i)
    /\ valid' = valid \union {i}
    /\ dirent' = [dirent EXCEPT ![d][l[p].name] = 0]
    /\ nlink' = [nlink EXCEPT ![d] = IF type[i] = "dir" THEN @ - 1 ELSE @]
    /\ lock' = [lock EXCEPT ![d] = None, ![i] = p]
    /\ Local(p, [Put(p, d, "unlinked") EXCEPT !.dp = 0])
    /\ UNCHANGED <<type, mode, owner, ref, cwd, fd, leaked, buried>>

unlink_entry(p) ==
    LET d == l[p].dp
        i == l[p].ip
    IN
    /\ l[p].pc = "victim" /\ Free(i)
    /\ valid' = valid \union {i}
    /\ IF type[i] = "dir" /\ ~isdirempty(i)
       THEN /\ Local(p, [Put(p, i, "unlinkbad") EXCEPT !.ip = 0])
            /\ UNCHANGED <<nlink, dirent, lock>>
       ELSE /\ dirent' = [dirent EXCEPT ![d][l[p].name] = 0]
            /\ nlink' = [nlink EXCEPT ![d] = IF type[i] = "dir" THEN @ - 1 ELSE @]
            /\ lock' = [lock EXCEPT ![d] = None, ![i] = p]
            /\ Local(p, [Put(p, d, "unlinked") EXCEPT !.dp = 0])
    /\ UNCHANGED <<type, mode, owner, ref, cwd, fd, leaked, buried>>

\* The directory was put with the inode still locked.
unlinked(p) ==
    LET i == l[p].ip IN
    /\ l[p].pc = "unlinked"
    /\ nlink' = [nlink EXCEPT ![i] = @ - 1]
    /\ lock' = [lock EXCEPT ![i] = None]
    /\ Local(p, [Put(p, i, "idle") EXCEPT !.ip = 0])
    /\ UNCHANGED <<type, mode, owner, dirent, ref, valid, cwd, fd, leaked, buried>>

\* iunlockput(dp) at the end of a call that failed with dp locked.
unlockbad(p, pc, then) ==
    LET d == l[p].dp IN
    /\ l[p].pc = pc
    /\ lock' = [lock EXCEPT ![d] = None]
    /\ Local(p, [Put(p, d, then) EXCEPT !.dp = 0])
    /\ UNCHANGED <<ondisk, ref, valid, cwd, fd, leaked, buried>>

-----------------------------------------------------------------------------
(* sys_link *)

\* The old name was found; the new one is looked up.
sys_link(p) ==
    LET i == l[p].ip
        s == Start(p, l[p].new)
    IN
    /\ At(p, "found", "link") /\ Free(i)
    /\ valid' = valid \union {i}
    /\ IF type[i] = "dir"
       THEN /\ Local(p, [Put(p, i, "idle") EXCEPT !.ip = 0])
            /\ UNCHANGED <<nlink, ref>>
       ELSE /\ nlink' = [nlink EXCEPT ![i] = @ + 1]
            /\ Refer(s)
            /\ Local(p, Walk([l[p] EXCEPT !.call = "link2", !.old = i, !.ip = s,
                                          !.rest = l[p].new.names, !.new = None]))
    /\ UNCHANGED <<type, mode, owner, dirent, lock, cwd, fd, leaked, buried>>

dirlink_NoPut(p) ==                                                   \* seeded fault
    LET d == l[p].dp
        e == dirent[d][l[p].name]
    IN
    /\ At(p, "parent", "link2") /\ Free(d)
    /\ valid' = valid \union {d}
    /\ IF e # 0
       THEN /\ Refer(e)
            /\ lock' = [lock EXCEPT ![d] = p]
            /\ Local(p, [l[p] EXCEPT !.pc = "linkbad"])
            /\ UNCHANGED <<dirent, buried>>
       ELSE /\ dirent' = [dirent EXCEPT ![d][l[p].name] = l[p].old]
            /\ buried' = (buried \/ nlink[d] = 0)
            /\ Local(p, [Put(p, d, "linked") EXCEPT !.dp = 0])
            /\ UNCHANGED <<ref, lock>>
    /\ UNCHANGED <<type, nlink, mode, owner, cwd, fd, leaked>>

\* The new name is entered, unless it is there: then dirlink puts the inode it
\* found while the directory is locked.
dirlink(p) ==
    LET d == l[p].dp
        e == dirent[d][l[p].name]
    IN
    /\ At(p, "parent", "link2") /\ Free(d)
    /\ valid' = valid \union {d}
    /\ IF e # 0
       THEN /\ Refer(e)
            /\ lock' = [lock EXCEPT ![d] = p]
            /\ Local(p, Put(p, e, "linkbad"))
            /\ UNCHANGED <<dirent, buried>>
       ELSE /\ dirent' = [dirent EXCEPT ![d][l[p].name] = l[p].old]
            /\ buried' = (buried \/ nlink[d] = 0)
            /\ Local(p, [Put(p, d, "linked") EXCEPT !.dp = 0])
            /\ UNCHANGED <<ref, lock>>
    /\ UNCHANGED <<type, nlink, mode, owner, cwd, fd, leaked>>

linked(p) ==
    /\ l[p].pc = "linked"
    /\ Local(p, [Put(p, l[p].old, "idle") EXCEPT !.old = 0])
    /\ UNCHANGED <<ondisk, icache, cwd, fd, leaked, buried>>

linkundo(p) ==
    LET i == l[p].old IN
    /\ l[p].pc = "linkundo" /\ Free(i)
    /\ valid' = valid \union {i}
    /\ nlink' = [nlink EXCEPT ![i] = @ - 1]
    /\ Local(p, [Put(p, i, "idle") EXCEPT !.old = 0])
    /\ UNCHANGED <<type, mode, owner, dirent, ref, lock, cwd, fd, leaked, buried>>

-----------------------------------------------------------------------------
\* Between begin_op and end_op; chmod begins after it has found its file.
InTransaction(p) ==
    /\ l[p].pc # "idle"
    /\ l[p].call = "chmod" => l[p].pc = "found"
Quiet == \A p \in Proc : ~InTransaction(p)

\* What is on the disk stays; memory is as after booting.
Crash ==
    /\ Quiet
    /\ \E p \in Proc : l[p].pc # "idle" \/ cwd[p] # ROOTINO \/ fd[p] # 0
    /\ ref' = [i \in Inum |-> IF i = ROOTINO THEN Cardinality(Proc) ELSE 0]
    /\ valid' = {}
    /\ lock' = [i \in Inum |-> None]
    /\ cwd' = [p \in Proc |-> ROOTINO]
    /\ fd' = [p \in Proc |-> 0]
    /\ l' = [p \in Proc |-> Idle]
    /\ leaked' = [i \in Inum |-> 0]
    /\ UNCHANGED <<ondisk, buried>>

Step(p) ==
    \/ \E r \in Request[p] : begin(p, r)
    \/ namex(p) \/ iput(p) \/ iput_unref(p)
    \/ sys_open(p) \/ sys_close(p) \/ sys_chdir(p) \/ chmod(p)
    \/ create(p) \/ create_link(p) \/ created(p) \/ exists(p)
    \/ sys_unlink(p) \/ unlink_entry(p) \/ unlinked(p) \/ unlockbad(p, "unlinkbad", "idle")
    \/ sys_link(p) \/ dirlink(p) \/ unlockbad(p, "linkbad", "linkundo") \/ linked(p) \/ linkundo(p)

Next == Crash \/ \E p \in Proc : Step(p)

Spec == Init /\ [][Next]_vars

-----------------------------------------------------------------------------
(* Properties *)

Pointers(p) == <<cwd[p], fd[p], l[p].ip, l[p].dp, l[p].old, l[p].drop>>

PC == {"idle", "walk", "found", "parent", "newborn", "created", "exists", "victim", "unlinkbad",
       "unlinked", "linkbad", "linked", "linkundo", "iput", "unref"}
Syscall == {"none", "open", "create", "mkdir", "unlink", "link", "link2", "chdir", "chmod", "close"}
Pointer == Inum \union {0}
Locals == [pc : PC, call : Syscall, rest : Seq(Name), new : Path \union {None}, write : BOOLEAN,
           mode : Mode, name : Name \union {None},
           ip : Pointer, dp : Pointer, old : Pointer, drop : Pointer, then : PC]

TypeOK ==
    /\ type \in [Inum -> {"free", "file", "dir"}]
    /\ nlink \in [Inum -> Nat]
    /\ mode \in [Inum -> Mode]
    /\ owner \in [Inum -> User]
    /\ dirent \in [Inum -> [Name -> Pointer]]
    /\ ref \in [Inum -> Nat]
    /\ valid \subseteq Inum
    /\ lock \in [Inum -> Proc \union {None}]
    /\ cwd \in [Proc -> Inum] /\ fd \in [Proc -> Pointer]
    /\ l \in [Proc -> Locals]
    /\ leaked \in [Inum -> Nat]
    /\ buried \in BOOLEAN

\* Open files, current directories and what a call under way holds.
Points(i) == {pk \in Proc \X (1..6) : Pointers(pk[1])[pk[2]] = i}

(* fs.c:135-140: ref tracks the number of pointers to a cache entry: what     *)
(* iget or idup has given out and iput has not taken back.  chmod keeps its   *)
(* reference when its pointer is gone (fs.c:967), so this is not so.          *)
RefsCounted == \A i \in Inum : ref[i] = Cardinality(Points(i))

(* It is the only one that does.  Whatever calls overlap, and whichever of    *)
(* them fail and undo what they did, every other reference is given back: ref *)
(* exceeds the pointers by the chmods on that inode, and by nothing else.     *)
OnlyChmodLeaks == \A i \in Inum : ref[i] = Cardinality(Points(i)) + leaked[i]

(* No inode is freed while a process still uses it or a directory names it,   *)
(* whichever calls overlap and although iput looks at ref and decrements it   *)
(* in two steps (fs.c:350-377).  What is about to be decremented may be free. *)
UsedInodesAllocated ==
    \A i \in Inum : type[i] = "free" =>
        /\ \A p \in Proc, k \in 1..5 : Pointers(p)[k] # i
        /\ \A p \in Proc : l[p].drop = i => l[p].pc = "unref"
        /\ \A d \in Inum, n \in Name : dirent[d][n] # i

(* When no call is under way, and so in whatever a crash leaves, an inode has *)
(* as many links as names and subdirectories, the root one more.  An entry    *)
(* put into a directory that was removed in the meantime is lost with it, so  *)
(* after that links may be more, but never fewer.                             *)
Names(i) == {dn \in Inum \X Name : dirent[dn[1]][dn[2]] = i}
Subdirs(i) == {n \in Name : dirent[i][n] # 0 /\ type[dirent[i][n]] = "dir"}
Links(i) == Cardinality(Names(i)) + Cardinality(Subdirs(i)) + (IF i = ROOTINO THEN 1 ELSE 0)
LinksCounted ==
    Quiet => \A i \in Inum : type[i] # "free" =>
        IF buried THEN nlink[i] >= Cardinality(Names(i)) ELSE nlink[i] = Links(i)

(* The inductive form of these: what the locals are at each point of a call   *)
(* (while it puts an inode, at the point after that), ...                     *)
StageOf(f) == IF f.pc \in {"iput", "unref"} THEN f.then ELSE f.pc
Stage(p) == StageOf(l[p])
Shaped(f) ==
    LET s == StageOf(f) IN
    /\ s \notin {"iput", "unref"}
    /\ f.drop # 0 <=> f.pc \in {"iput", "unref"}
    /\ f.ip # 0 <=> s \in {"walk", "found", "newborn", "created", "exists", "victim", "unlinked"}
    /\ f.dp # 0 <=> s \in {"parent", "newborn", "victim", "unlinkbad", "linkbad"}
    /\ f.old # 0 <=> f.call = "link2" /\ s # "idle"
    /\ s = "walk" => f.rest # << >>
    /\ s = "parent" => WantsParent(f.call)
    /\ s \in {"found", "newborn", "created", "exists", "victim", "unlinkbad", "unlinked"} => f.call # "link2"
    /\ s \in {"linkbad", "linked", "linkundo"} => f.call = "link2"
    /\ s \in {"parent", "newborn", "victim"} => f.pc = s /\ f.name \in Name
    /\ f.call = "link" /\ s # "idle" => f.new \in Path
    /\ f.call = "chmod" => s \in {"idle", "walk", "found"}
LocalsShaped == \A p \in Proc : Shaped(l[p])

(* ... what it keeps locked from one step to another, ...                     *)
LocksHeld ==
    \A p \in Proc :
        /\ Stage(p) \in {"newborn", "victim", "unlinkbad", "linkbad"} => lock[l[p].dp] = p
        /\ Stage(p) \in {"created", "unlinked"} => lock[l[p].ip] = p

(* ... and what it found under that lock and still relies on: the entry of    *)
(* the victim, and that nobody else has met the inode create is making.       *)
Private(p, i) ==
    /\ \A q \in Proc : /\ i \notin {cwd[q], fd[q], l[q].dp, l[q].old}
                       /\ l[q].ip = i => q = p
                       /\ l[q].drop = i => l[q].pc = "unref"
    /\ \A d \in Inum, n \in Name : dirent[d][n] # i
    /\ dirent[i] = Blank[i] /\ nlink[i] = 0
Found ==
    \A p \in Proc :
        /\ Stage(p) = "victim" => dirent[l[p].dp][l[p].name] = l[p].ip
        /\ Stage(p) = "newborn" =>
               /\ dirent[l[p].dp][l[p].name] = 0
               /\ type[l[p].ip] = "dir" <=> l[p].call = "mkdir"
               /\ Private(p, l[p].ip)
        /\ Stage(p) = "unlinked" => dirent[l[p].ip] = Blank[l[p].ip]
        /\ l[p].dp # 0 => type[l[p].dp] = "dir"
        /\ l[p].old # 0 => type[l[p].old] = "file"

(* The links a call has counted before it enters a name, or not yet           *)
(* discounted after it cleared one, make up the difference.                   *)
Owed(i) == {p \in Proc : \/ l[p].old = i /\ Stage(p) # "linked"
                         \/ Stage(p) = "unlinked" /\ l[p].ip = i}
LinksOwed ==
    \A i \in Inum :
        IF buried THEN nlink[i] >= Links(i) + Cardinality(Owed(i))
        ELSE nlink[i] = Links(i) + Cardinality(Owed(i))
EntriesInPlace ==
    /\ \A i \in Inum : type[i] = "free" => nlink[i] = 0
    /\ \A i \in Inum : type[i] # "dir" => dirent[i] = Blank[i]
    /\ ~buried => \A i \in Inum \ {ROOTINO} : Names(i) = {} => dirent[i] = Blank[i]

FileSystem ==
    /\ LocalsShaped /\ LocksHeld /\ Found
    /\ OnlyChmodLeaks /\ UsedInodesAllocated /\ LinksOwed /\ EntriesInPlace

(* The inode a process must lock before it goes on, or 0.                     *)
Wants(p) ==
    CASE l[p].pc = "iput" -> l[p].drop
      [] l[p].pc = "parent" -> l[p].dp
      [] l[p].pc \in {"walk", "found", "exists", "newborn", "victim"} -> l[p].ip
      [] l[p].pc = "linkundo" -> l[p].old
      [] OTHER -> 0

(* fs.c:159-163 says of the separation of ilock from iget that it "helps      *)
(* avoid deadlock": no processes wait in a circle for each other's inodes.    *)
NoCircularWait ==
    \A S \in SUBSET Proc : S # {} =>
        \E p \in S : Wants(p) = 0 \/ lock[Wants(p)] \notin S
=============================================================================

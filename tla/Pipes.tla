-------------------------------- MODULE Pipes --------------------------------
(* Pipes between processes that fork, exit and are killed: pipe.c, the file   *)
(* table of file.c and the descriptors of sysfile.c.                          *)
(*                                                                            *)
(* A step is what is done from one acquire, or return from sleep, to the next *)
(* release or sleep.  kill() needs ptable.lock only, so it comes between the  *)
(* look at killed and the sleep, while the pipe's lock is held.  There is one *)
(* page for pipes: pipealloc fails while it is in use.  wait() reaps at once. *)
EXTENDS Integers, Sequences, FiniteSets, FiniteSetsExt

CONSTANTS Proc, InitProc,
          NFILE, NOFILE, PIPESIZE,
          UintSize,       \* 2^32: what nread and nwrite count modulo
          Writes, Reads,  \* the strings written, and the numbers of bytes asked for
          None

Byte == 0..255

ASSUME ConstantsAssumption ==
    /\ IsFiniteSet(Proc) /\ InitProc \in Proc
    /\ {NFILE, NOFILE, PIPESIZE, UintSize} \subseteq Nat \ {0}
    /\ UintSize % PIPESIZE = 0 /\ UintSize > PIPESIZE
    /\ \A s \in Writes : s \in Seq(Byte)
    /\ Reads \subseteq Nat \ {0}
    /\ None \notin Proc

File == 1..NFILE
Fd == 0..NOFILE - 1

VARIABLES
    file,          \* ftable.file: ref, type and writable
    pipe,          \* the page, and who holds its lock
    ofile,         \* descriptors of each process: file or 0
    state, killed,
    l              \* locals of the call a process is in, and its result

vars == <<file, pipe, ofile, state, killed, l>>

NoFile == [ref |-> 0, type |-> "none", writable |-> FALSE]
NoPipe == [used |-> FALSE, readopen |-> FALSE, writeopen |-> FALSE, nread |-> 0, nwrite |-> 0,
           data |-> [i \in 0..PIPESIZE - 1 |-> 0], lock |-> None]

\* rest: bytes to be written; n: bytes to be read; f0, f1: files the call has
\* taken or has to close, or 0; writable: which end is closed; exiting: it is
\* exit that closes.
User(is, s) == [pc |-> "user", rest |-> << >>, n |-> 0, f0 |-> 0, f1 |-> 0, writable |-> FALSE,
                exiting |-> FALSE, result |-> [is |-> is, bytes |-> s]]
New == User("none", << >>)

Init ==
    /\ file = [f \in File |-> NoFile]
    /\ pipe = NoPipe
    /\ ofile = [p \in Proc |-> [fd \in Fd |-> 0]]
    /\ state = [p \in Proc |-> IF p = InitProc THEN "RUNNABLE" ELSE "UNUSED"]
    /\ killed = {}
    /\ l = [p \in Proc |-> New]

At(p, pc) == state[p] = "RUNNABLE" /\ l[p].pc = pc
Local(p, f) == l' = [l EXCEPT ![p] = f]

\* A killed process exits instead of making another call.
MayCall(p) == At(p, "user") /\ p \notin killed

Unlocked == pipe.lock = None
Wakeup(pc) == state' = [p \in Proc |-> IF state[p] = "SLEEPING" /\ l[p].pc = pc THEN "RUNNABLE" ELSE state[p]]

-----------------------------------------------------------------------------
(* The file table *)

FreeFiles == {f \in File : file[f].ref = 0}
filealloc(f) == f = Min(FreeFiles)
FreeFds(p) == {fd \in Fd : ofile[p][fd] = 0}
fdalloc(p, fd) == fd = Min(FreeFds(p))

Close(f0, f1) == [New EXCEPT !.pc = "close", !.f0 = f0, !.f1 = f1]

\* One file less to be closed.
Closed(p) ==
    [l[p] EXCEPT !.f0 = l[p].f1, !.f1 = 0,
                 !.writable = FALSE,
                 !.pc = IF l[p].f1 # 0 THEN "close" ELSE IF l[p].exiting THEN "exit" ELSE "user"]

fileclose_Any(p) ==                                                   \* seeded fault
    LET f == l[p].f0 IN
    /\ At(p, "close")
    /\ file' = [file EXCEPT ![f] = IF @.ref = 1 THEN NoFile ELSE [file[f] EXCEPT !.ref = @ - 1]]
    /\ Local(p, IF file[f].type = "pipe"
                THEN [l[p] EXCEPT !.pc = "pipeclose", !.writable = file[f].writable]
                ELSE Closed(p))
    /\ UNCHANGED <<pipe, ofile, state, killed>>

fileclose(p) ==
    LET f == l[p].f0
        last == file[f].ref = 1
    IN
    /\ At(p, "close")
    /\ file' = [file EXCEPT ![f] = IF last THEN NoFile ELSE [file[f] EXCEPT !.ref = @ - 1]]
    /\ Local(p, IF last /\ file[f].type = "pipe"
                THEN [l[p] EXCEPT !.pc = "pipeclose", !.writable = file[f].writable]
                ELSE Closed(p))
    /\ UNCHANGED <<pipe, ofile, state, killed>>

-----------------------------------------------------------------------------
(* sys_pipe, sys_dup, sys_close *)

\* The first filealloc of pipealloc.
sys_pipe(p) ==
    /\ MayCall(p)
    /\ \E f \in FreeFiles :
        /\ filealloc(f)
        /\ file' = [file EXCEPT ![f].ref = 1]
        /\ Local(p, [New EXCEPT !.pc = "pipealloc", !.f0 = f])
    /\ UNCHANGED <<pipe, ofile, state, killed>>

\* The second file, the page and the descriptors: what is missing is found out
\* in this order, and what was taken is given back.
pipealloc(p) ==
    LET rf == l[p].f0 IN
    /\ At(p, "pipealloc")
    /\ IF FreeFiles = {}
       THEN Local(p, Close(rf, 0)) /\ UNCHANGED <<file, pipe, ofile>>
       ELSE \E wf \in FreeFiles :
            /\ filealloc(wf)
            /\ IF pipe.used
               THEN /\ file' = [file EXCEPT ![wf].ref = 1]
                    /\ Local(p, Close(rf, wf))
                    /\ UNCHANGED <<pipe, ofile>>
               ELSE /\ pipe' = [pipe EXCEPT !.used = TRUE, !.readopen = TRUE, !.writeopen = TRUE,
                                            !.nread = 0, !.nwrite = 0]
                    /\ file' = [file EXCEPT ![rf] = [ref |-> 1, type |-> "pipe", writable |-> FALSE],
                                            ![wf] = [ref |-> 1, type |-> "pipe", writable |-> TRUE]]
                    /\ IF Cardinality(FreeFds(p)) < 2
                       THEN Local(p, Close(rf, wf)) /\ UNCHANGED ofile
                       ELSE /\ \E r, w \in FreeFds(p) :
                               /\ r = Min(FreeFds(p)) /\ w = Min(FreeFds(p) \ {r})
                               /\ ofile' = [ofile EXCEPT ![p][r] = rf, ![p][w] = wf]
                            /\ Local(p, New)
    /\ UNCHANGED <<state, killed>>

sys_dup(p) ==
    /\ MayCall(p)
    /\ \E from \in Fd \ FreeFds(p), to \in FreeFds(p) :
        /\ fdalloc(p, to)
        /\ ofile' = [ofile EXCEPT ![p][to] = ofile[p][from]]
        /\ file' = [file EXCEPT ![ofile[p][from]].ref = @ + 1]
    /\ Local(p, New)
    /\ UNCHANGED <<pipe, state, killed>>

sys_close(p) ==
    /\ MayCall(p)
    /\ \E fd \in Fd \ FreeFds(p) :
        /\ ofile' = [ofile EXCEPT ![p][fd] = 0]
        /\ Local(p, Close(ofile[p][fd], 0))
    /\ UNCHANGED <<file, pipe, state, killed>>

-----------------------------------------------------------------------------
(* pipe.c *)

pipeclose_NoWakeup(p) ==                                              \* seeded fault
    /\ At(p, "pipeclose") /\ Unlocked
    /\ LET q == [pipe EXCEPT !.readopen = @ /\ l[p].writable, !.writeopen = @ /\ ~l[p].writable]
       IN pipe' = [q EXCEPT !.used = q.readopen \/ q.writeopen]
    /\ Local(p, Closed(p))
    /\ UNCHANGED <<file, ofile, state, killed>>

pipeclose(p) ==
    /\ At(p, "pipeclose") /\ Unlocked
    /\ LET q == [pipe EXCEPT !.readopen = @ /\ l[p].writable, !.writeopen = @ /\ ~l[p].writable]
       IN pipe' = [q EXCEPT !.used = q.readopen \/ q.writeopen]
    /\ Wakeup(IF l[p].writable THEN "read" ELSE "write")
    /\ Local(p, Closed(p))
    /\ UNCHANGED <<file, ofile, killed>>

Uint(i) == i % UintSize

Pending_NoWrap ==                                                     \* seeded fault
    IF pipe.nwrite >= pipe.nread THEN pipe.nwrite - pipe.nread ELSE 0
Pending == Uint(pipe.nwrite - pipe.nread)

sys_write(p) ==
    /\ MayCall(p)
    /\ \E fd \in Fd \ FreeFds(p), s \in Writes :
        /\ file[ofile[p][fd]].writable
        /\ Local(p, [New EXCEPT !.pc = "write", !.rest = s])
    /\ UNCHANGED <<file, pipe, ofile, state, killed>>

sys_read(p) ==
    /\ MayCall(p)
    /\ \E fd \in Fd \ FreeFds(p), n \in Reads :
        /\ ~file[ofile[p][fd]].writable
        /\ Local(p, [New EXCEPT !.pc = "read", !.n = n])
    /\ UNCHANGED <<file, pipe, ofile, state, killed>>

\* Bytes go into the buffer until it is full or all are in.  A writer that
\* fails because it is killed wakes nobody for the bytes it put in.
pipewrite(p) ==
    LET rest == l[p].rest
        k == Min({Len(rest), PIPESIZE - Pending})
        left == SubSeq(rest, k + 1, Len(rest))
        filled == [pipe EXCEPT !.nwrite = Uint(@ + k),
                      !.data = [i \in DOMAIN @ |->
                          LET at == {j \in 1..k : Uint(pipe.nwrite + j - 1) % PIPESIZE = i}
                          IN IF at = {} THEN @[i] ELSE rest[CHOOSE j \in at : TRUE]]]
    IN
    /\ At(p, "write") /\ Unlocked
    /\ \/ /\ left = << >>
          /\ pipe' = filled
          /\ Wakeup("read")
          /\ Local(p, User("written", << >>))
       \/ /\ left # << >> /\ (~pipe.readopen \/ p \in killed)
          /\ pipe' = filled
          /\ Local(p, User("error", << >>))
          /\ UNCHANGED state
       \/ /\ left # << >> /\ pipe.readopen /\ p \notin killed
          /\ pipe' = [filled EXCEPT !.lock = p]
          /\ Wakeup("read")
          /\ Local(p, [l[p] EXCEPT !.rest = left])
    /\ UNCHANGED <<file, ofile, killed>>

piperead(p) ==
    LET k == Min({l[p].n, Pending}) IN
    /\ At(p, "read") /\ Unlocked
    /\ \/ /\ Pending = 0 /\ pipe.writeopen /\ p \in killed
          /\ Local(p, User("error", << >>))
          /\ UNCHANGED <<pipe, state>>
       \/ /\ Pending = 0 /\ pipe.writeopen /\ p \notin killed
          /\ pipe' = [pipe EXCEPT !.lock = p]
          /\ UNCHANGED <<state, l>>
       \/ /\ Pending # 0 \/ ~pipe.writeopen
          /\ pipe' = [pipe EXCEPT !.nread = Uint(@ + k)]
          /\ Local(p, User("read", [j \in 1..k |-> pipe.data[Uint(pipe.nread + j - 1) % PIPESIZE]]))
          /\ Wakeup("write")
    /\ UNCHANGED <<file, ofile, killed>>

sleep(p) ==
    /\ pipe.lock = p
    /\ state' = [state EXCEPT ![p] = "SLEEPING"]
    /\ pipe' = [pipe EXCEPT !.lock = None]
    /\ UNCHANGED <<file, ofile, killed, l>>

-----------------------------------------------------------------------------
(* proc.c *)

kill(p) ==
    /\ state[p] # "UNUSED" /\ p # InitProc
    /\ killed' = killed \union {p}
    /\ state' = [state EXCEPT ![p] = "RUNNABLE"]
    /\ UNCHANGED <<file, pipe, ofile, l>>

fork(p, c) ==
    /\ MayCall(p) /\ state[c] = "UNUSED"
    /\ ofile' = [ofile EXCEPT ![c] = ofile[p]]
    /\ file' = [f \in File |-> [file[f] EXCEPT !.ref = @ + Cardinality({fd \in Fd : ofile[p][fd] = f})]]
    /\ state' = [state EXCEPT ![c] = "RUNNABLE"]
    /\ Local(p, New)
    /\ UNCHANGED <<pipe, killed>>

\* The program exits, or the trap handler for it because it is killed.
exit(p) ==
    /\ At(p, "user") /\ p # InitProc
    /\ Local(p, [New EXCEPT !.pc = "exit", !.exiting = TRUE])
    /\ UNCHANGED <<file, pipe, ofile, state, killed>>

\* Its loop over the descriptors.
exit_close(p) ==
    /\ At(p, "exit")
    /\ \E fd \in Fd \ FreeFds(p) :
        /\ fd = Min(Fd \ FreeFds(p))
        /\ ofile' = [ofile EXCEPT ![p][fd] = 0]
        /\ Local(p, [Close(ofile[p][fd], 0) EXCEPT !.exiting = TRUE])
    /\ UNCHANGED <<file, pipe, state, killed>>

zombie(p) ==
    /\ At(p, "exit") /\ FreeFds(p) = Fd
    /\ state' = [state EXCEPT ![p] = "UNUSED"]
    /\ killed' = killed \ {p}
    /\ Local(p, New)
    /\ UNCHANGED <<file, pipe, ofile>>

-----------------------------------------------------------------------------
\* What a process does on its own once it made a call or was killed.
Finish(p) ==
    \/ pipealloc(p) \/ fileclose(p) \/ pipeclose(p)
    \/ pipewrite(p) \/ piperead(p) \/ sleep(p)
    \/ exit_close(p) \/ zombie(p)

Next ==
    \E p \in Proc :
        \/ sys_pipe(p) \/ sys_dup(p) \/ sys_close(p) \/ sys_write(p) \/ sys_read(p)
        \/ Finish(p)
        \/ kill(p) \/ exit(p)
        \/ \E c \in Proc : fork(p, c)

\* A process in the kernel goes on.
Fairness == \A p \in Proc : WF_vars(Finish(p))

Spec == Init /\ [][Next]_vars /\ Fairness

-----------------------------------------------------------------------------
(* Properties *)

\* What a process has in hand: its descriptors, and what the call it is in took.
Hands == Proc \X (-2..NOFILE - 1)
Held(p, i) ==
    CASE i \in Fd -> ofile[p][i]
      [] i = -1 -> IF l[p].pc = "pipeclose" THEN 0 ELSE l[p].f0
      [] i = -2 -> l[p].f1

(* A file is allocated exactly as long as descriptors, or a call that makes   *)
(* or closes it, refer to it, and an end of the pipe is open exactly as long  *)
(* as its file is, or is being closed: so nobody reads or writes a pipe whose *)
(* page was given back, and a page is given back when nobody can.             *)
EndOpen(writable) ==
    \/ \E f \in File : file[f].type = "pipe" /\ file[f].writable = writable
    \/ \E p \in Proc : l[p].pc = "pipeclose" /\ l[p].writable = writable
FilesCounted ==
    /\ \A f \in File : file[f].ref = Cardinality({h \in Hands : Held(h[1], h[2]) = f})
    /\ pipe.readopen = EndOpen(FALSE) /\ pipe.writeopen = EndOpen(TRUE)
    /\ pipe.used = (pipe.readopen \/ pipe.writeopen)

Holders(writable) ==
    {p \in Proc : \E fd \in Fd \ FreeFds(p) :
        file[ofile[p][fd]].type = "pipe" /\ file[ofile[p][fd]].writable = writable}

InFlight == IF pipe.used THEN [j \in 1..Pending |-> pipe.data[Uint(pipe.nread + j - 1) % PIPESIZE]]
            ELSE << >>

CallOf(p) == CASE l[p].pc = "write" -> [op |-> "write", rest |-> l[p].rest]
               [] l[p].pc = "read" -> [op |-> "read", n |-> l[p].n]
               [] OTHER -> [op |-> "none"]

C == INSTANCE Channel WITH
        Capacity <- PIPESIZE,
        bytes <- InFlight,
        readers <- Holders(FALSE), writers <- Holders(TRUE),
        call <- [p \in Proc |-> CallOf(p)],
        result <- [p \in Proc |-> l[p].result]

(* The ring buffer with counters that run over, the two sleeping places, the  *)
(* open flags and the reference counts of the files keep the promise of a     *)
(* channel, whoever forks, closes, exits or is killed meanwhile.              *)
ImplementsChannel == C!Spec

(* Who waits for bytes, or for room, that nobody is left to bring returns:    *)
(* the last close of the other end, by close or exit, reaches every sleeper.  *)
Abandoned(p) ==
    \/ l[p].pc = "read" /\ Holders(TRUE) = {}
    \/ l[p].pc = "write" /\ Holders(FALSE) = {}
EndReached == \A p \in Proc : Abandoned(p) ~> ~Abandoned(p)
==============================================================================

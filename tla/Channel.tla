------------------------------- MODULE Channel -------------------------------
(* What a pipe promises: the bytes written come out once and in order, the    *)
(* end is reported only when every byte was read and nobody can write, and a  *)
(* write fails only when nobody can read or the writer was killed.            *)
EXTENDS Integers, Sequences

CONSTANTS Proc,
          Writes, Reads,  \* the strings written, and the numbers of bytes asked for
          Capacity        \* how many bytes may be under way

VARIABLES
    bytes,                \* written and not yet read
    readers, writers,     \* processes that hold an end
    killed,
    call,                 \* the read or write a process is in, if any
    result                \* of its last call: what it is and, of a read, the bytes

Idle == [op |-> "none"]
Result(is, s) == [is |-> is, bytes |-> s]

vars == <<bytes, readers, writers, killed, call, result>>

Init ==
    /\ bytes = << >>
    /\ readers = {} /\ writers = {} /\ killed = {}
    /\ call = [p \in Proc |-> Idle]
    /\ result = [p \in Proc |-> Result("none", << >>)]

\* Other calls of p overwrite its result.
Forgotten(p) == [result EXCEPT ![p] = Result("none", << >>)]

Make(p) ==
    /\ readers = {} /\ writers = {}
    /\ readers' = {p} /\ writers' = {p}
    /\ bytes' = << >>
    /\ UNCHANGED <<killed, call, result>>

Fork(p, c) ==
    /\ c \notin readers \union writers
    /\ readers' = IF p \in readers THEN readers \union {c} ELSE readers
    /\ writers' = IF p \in writers THEN writers \union {c} ELSE writers
    /\ result' \in {result, Forgotten(p)}
    /\ UNCHANGED <<bytes, killed, call>>

Drop(p) ==
    /\ call[p] = Idle
    /\ readers' \in {readers, readers \ {p}}
    /\ writers' \in {writers, writers \ {p}}
    /\ result' \in {result, Forgotten(p)}
    /\ UNCHANGED <<bytes, killed, call>>

\* Nobody can read these bytes any more.
Discard ==
    /\ readers = {} /\ writers = {}
    /\ bytes' = << >>
    /\ UNCHANGED <<readers, writers, killed, call, result>>

Kill(p) ==
    /\ killed' = killed \union {p}
    /\ UNCHANGED <<bytes, readers, writers, call, result>>

\* p is gone, and its slot is used for another process.
Reap(p) ==
    /\ p \notin readers \union writers
    /\ killed' = killed \ {p}
    /\ UNCHANGED <<bytes, readers, writers, call, result>>

Call(p) ==
    /\ call[p] = Idle
    /\ \/ \E s \in Writes : p \in writers /\ call' = [call EXCEPT ![p] = [op |-> "write", rest |-> s]]
       \/ \E n \in Reads : p \in readers /\ call' = [call EXCEPT ![p] = [op |-> "read", n |-> n]]
    /\ result' = Forgotten(p)
    /\ UNCHANGED <<bytes, readers, writers, killed>>

Return(p, is, s) ==
    /\ call' = [call EXCEPT ![p] = Idle]
    /\ result' = [result EXCEPT ![p] = Result(is, s)]

\* Some of the bytes go out, and the call may end.
Write(p) ==
    /\ call[p].op = "write"
    /\ \E k \in 0..Len(call[p].rest) :
       LET rest == SubSeq(call[p].rest, k + 1, Len(call[p].rest)) IN
       /\ bytes' = bytes \o SubSeq(call[p].rest, 1, k)
       /\ Len(bytes') <= Capacity
       /\ \/ call' = [call EXCEPT ![p].rest = rest] /\ UNCHANGED result
          \/ rest = << >> /\ Return(p, "written", << >>)
          \/ (readers = {} \/ p \in killed) /\ Return(p, "error", << >>)
    /\ UNCHANGED <<readers, writers, killed>>

Read(p) ==
    /\ call[p].op = "read"
    /\ \/ \E k \in 1..call[p].n :
          /\ k <= Len(bytes)
          /\ bytes' = SubSeq(bytes, k + 1, Len(bytes))
          /\ Return(p, "read", SubSeq(bytes, 1, k))
       \/ /\ bytes = << >>
          /\ \/ writers = {} /\ Return(p, "read", << >>)
             \/ p \in killed /\ Return(p, "error", << >>)
          /\ UNCHANGED bytes
    /\ UNCHANGED <<readers, writers, killed>>

Next ==
    \/ Discard
    \/ \E p, c \in Proc : Fork(p, c)
    \/ \E p \in Proc : Make(p) \/ Drop(p) \/ Kill(p) \/ Reap(p) \/ Call(p) \/ Write(p) \/ Read(p)

Spec == Init /\ [][Next]_vars
=============================================================================

------------------------------ MODULE MCInodes ------------------------------
(* Three inodes: the root directory, /a and one more, and two processes: root *)
(* makes and removes names, alice works in /a once root opened it to others.  *)
EXTENDS Inodes
CONSTANTS p1, p2, a, b, root, alice

Abs(s) == [abs |-> TRUE, names |-> s]
Rel(s) == [abs |-> FALSE, names |-> s]
A == Abs(<<a>>)
AB == Abs(<<a, b>>)
B == Rel(<<b>>)

MCUsername == [p \in Proc |-> IF p = p1 THEN root ELSE alice]

Call(call, x) == [call |-> call, path |-> x, new |-> x, write |-> FALSE, mode |-> {}]
Others == DefaultDir \union {"WOTH"}

MCRequest == [p \in Proc |->
    IF p = p1
    THEN {Call("mkdir", A), Call("unlink", A), Call("unlink", AB), [Call("chmod", A) EXCEPT !.mode = Others],
          Call("create", AB), [Call("link", AB) EXCEPT !.new = Abs(<<b>>)]}
    ELSE {[Call("create", B) EXCEPT !.write = TRUE], Call("unlink", AB), Call("chdir", A), Call("chdir", B), Call("open", B),
          Call("mkdir", AB)}]
=============================================================================

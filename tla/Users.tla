-------------------------------- MODULE Users --------------------------------
(* User accounts of project 3: usertable in kernel memory, the file /userlist *)
(* and the home directories, useradd and userdel, init and login, and the     *)
(* machine stopping at any time.                                              *)
(*                                                                            *)
(* usertable has no lock.  useradd and userdel change it before begin_op;     *)
(* writei copies all of it into /userlist under the lock of that inode, which *)
(* is a step.  cached is what the file system shows, disk what a crash leaves *)
(* (module Log): the cache as it was when the last transaction of a group     *)
(* ended.  In the background a root shell runs several calls at once, and     *)
(* they go on after it logged out; in the foreground it waits for each.       *)
EXTENDS Integers, FiniteSets, FiniteSetsExt

CONSTANTS Job,           \* calls of useradd and userdel under way at once (bound)
          Id, Root, Password, RootPassword,
          Nusers,        \* entries of usertable
          None

Entry == 1..Nusers
Row == [valid : BOOLEAN, id : Id \union {Root, None}, password : Password \union {RootPassword, None}]
Table == [Entry -> Row]

ConstantsAssumption ==
    /\ Nusers \in Nat \ {0}
    /\ Root \notin Id
    /\ None \notin Id \union {Root} \union Table

VARIABLES
    usertable,           \* in the kernel's memory
    cached, disk,        \* [userlist, homes] in the cache and after a crash
    console,             \* what login and the shell do
    copy,                \* login's copy of the table
    session,             \* the user of the shell, or None
    l,                   \* the calls
    background           \* does the shell run commands in the background?

vars == <<usertable, cached, disk, console, copy, session, l, background>>

Nobody == [valid |-> FALSE, id |-> None, password |-> None]
User(id, pw) == [valid |-> TRUE, id |-> id, password |-> pw]
Empty == [i \in Entry |-> Nobody]
Idle == [pc |-> "idle", id |-> None, password |-> None, entry |-> 0]

Init ==
    /\ usertable = Empty
    /\ cached = [userlist |-> None, homes |-> {}]
    /\ disk = cached
    /\ console = "init" /\ copy = Empty /\ session = None
    /\ l = [j \in Job |-> Idle]
    /\ background \in BOOLEAN

-----------------------------------------------------------------------------
InTransaction(j) == l[j].pc \in {"home", "end"}
\* end_op commits when it is the last.
Commit(others) == disk' = IF \E j \in others : InTransaction(j) THEN disk ELSE cached'

Has(table, id) == \E i \in Entry : table[i].valid /\ table[i].id = id

-----------------------------------------------------------------------------
(* useradd and userdel *)

MayCall == session = Root /\ (background \/ \A j \in Job : l[j].pc = "idle")

\* Called only for a user that is not there.
useradd(j, id, pw) ==
    /\ MayCall /\ l[j].pc = "idle"
    /\ ~Has(usertable, id)
    /\ l' = [l EXCEPT ![j] = [pc |-> "look", id |-> id, password |-> pw, entry |-> 0]]
    /\ UNCHANGED <<usertable, cached, disk, console, copy, session, background>>

FreeEntries == {i \in Entry : ~usertable[i].valid}

useradd_look(j) ==
    /\ l[j].pc = "look"
    /\ l' = IF FreeEntries = {} THEN [l EXCEPT ![j] = Idle]
            ELSE [l EXCEPT ![j].pc = "take", ![j].entry = Min(FreeEntries)]
    /\ UNCHANGED <<usertable, cached, disk, console, copy, session, background>>

\* Another call may have taken the entry since.
useradd_take(j) ==
    /\ l[j].pc = "take"
    /\ usertable' = [usertable EXCEPT ![l[j].entry].valid = TRUE]
    /\ l' = [l EXCEPT ![j].pc = "name"]
    /\ UNCHANGED <<cached, disk, console, copy, session, background>>

useradd_name(j) ==
    /\ l[j].pc = "name"
    /\ usertable' = [usertable EXCEPT ![l[j].entry].id = l[j].id, ![l[j].entry].password = l[j].password]
    /\ l' = [l EXCEPT ![j].pc = "write"]
    /\ UNCHANGED <<cached, disk, console, copy, session, background>>

\* begin_op and writei, of both calls.
write(j) ==
    /\ l[j].pc \in {"write", "erase"}
    /\ cached' = [cached EXCEPT !.userlist = usertable]
    /\ l' = [l EXCEPT ![j].pc = IF @ = "write" THEN "home" ELSE "end"]
    /\ UNCHANGED <<usertable, disk, console, copy, session, background>>

useradd_home_Later(j) ==                                              \* seeded fault
    /\ l[j].pc = "home"
    /\ cached' = [cached EXCEPT !.homes = @ \union {l[j].id}]
    /\ disk' = cached
    /\ l' = [l EXCEPT ![j].pc = "end"]
    /\ UNCHANGED <<usertable, console, copy, session, background>>

\* create2: a directory that is there already stays as it is.
useradd_home(j) ==
    /\ l[j].pc = "home"
    /\ cached' = [cached EXCEPT !.homes = @ \union {l[j].id}]
    /\ l' = [l EXCEPT ![j].pc = "end"]
    /\ UNCHANGED <<usertable, disk, console, copy, session, background>>

end_op(j) ==
    /\ l[j].pc = "end"
    /\ l' = [l EXCEPT ![j] = Idle]
    /\ UNCHANGED <<usertable, cached, console, copy, session, background>>
    /\ Commit(Job \ {j})

userdel(j, id) ==
    /\ MayCall /\ l[j].pc = "idle"
    /\ Has(usertable, id)
    /\ l' = [l EXCEPT ![j].pc = "unset", ![j].id = id,
                     ![j].entry = Min({i \in Entry : usertable[i].valid /\ usertable[i].id = id})]
    /\ UNCHANGED <<usertable, cached, disk, console, copy, session, background>>

userdel_unset_Unwritten(j) ==                                         \* seeded fault
    /\ l[j].pc = "unset"
    /\ usertable' = [usertable EXCEPT ![l[j].entry].valid = FALSE]
    /\ l' = [l EXCEPT ![j] = Idle]
    /\ UNCHANGED <<cached, disk, console, copy, session, background>>

userdel_unset(j) ==
    /\ l[j].pc = "unset"
    /\ usertable' = [usertable EXCEPT ![l[j].entry].valid = FALSE]
    /\ l' = [l EXCEPT ![j].pc = "erase"]
    /\ UNCHANGED <<cached, disk, console, copy, session, background>>

-----------------------------------------------------------------------------
(* init, login and the shell *)

\* One transaction: the table is loaded, or made with root in it and stored.
init_usertable ==
    /\ console = "init"
    /\ IF cached.userlist = None
       THEN /\ usertable' = [i \in Entry |-> IF i = 1 THEN User(Root, RootPassword)
                                             ELSE [usertable[i] EXCEPT !.valid = FALSE]]
            /\ cached' = [cached EXCEPT !.userlist = usertable']
       ELSE usertable' = cached.userlist /\ UNCHANGED cached
    /\ Commit(Job)
    /\ console' = "login"
    /\ UNCHANGED <<copy, session, l, background>>

\* login reads the file before it prompts, and again after each session.
login_read ==
    /\ console = "login"
    /\ copy' = cached.userlist
    /\ console' = "prompt"
    /\ UNCHANGED <<usertable, cached, disk, session, l, background>>

\* (The copy is not looked at again.)
login ==
    /\ console = "prompt"
    /\ \E i \in Entry :
        /\ copy[i].valid
        /\ session' = copy[i].id
    /\ console' = "shell"
    /\ copy' = Empty
    /\ UNCHANGED <<usertable, cached, disk, l, background>>

\* The shell reads a line when the commands before it are done.
logout ==
    /\ console = "shell"
    /\ background \/ \A j \in Job : l[j].pc = "idle"
    /\ session' = None
    /\ console' = "login"
    /\ UNCHANGED <<usertable, cached, disk, copy, l, background>>

\* A command in the background kills login, and init starts another.
kill_login ==
    /\ background /\ console = "prompt"
    /\ console' = "init"
    /\ copy' = Empty
    /\ UNCHANGED <<usertable, cached, disk, session, l, background>>

Crash ==
    /\ usertable' = Empty
    /\ cached' = disk
    /\ console' = "init" /\ copy' = Empty /\ session' = None
    /\ l' = [j \in Job |-> Idle]
    /\ UNCHANGED <<disk, background>>

Next ==
    \/ \E j \in Job :
        \/ \E id \in Id, pw \in Password : useradd(j, id, pw)
        \/ \E id \in Id : userdel(j, id)
        \/ useradd_look(j) \/ useradd_take(j) \/ useradd_name(j) \/ useradd_home(j)
        \/ userdel_unset(j) \/ write(j) \/ end_op(j)
    \/ init_usertable \/ login_read \/ login \/ logout \/ kill_login
    \/ Crash

Spec == Init /\ [][Next]_vars

-----------------------------------------------------------------------------
(* Properties *)

(* When no call is under way and the table was loaded, /userlist holds what   *)
(* the kernel has in memory, although the table has no lock and init may load *)
(* it at any time: every change is followed by a write of the whole table.    *)
Quiet == console # "init" /\ \A j \in Job : l[j].pc = "idle"
StoredWhenQuiet == Quiet => cached.userlist = usertable

AccountsIn(list) ==
    IF list = None THEN {User(Root, RootPassword)} ELSE {list[i] : i \in {k \in Entry : list[k].valid}}

A == INSTANCE Accounts WITH
        MaxAccounts <- Nusers,
        accounts <- {[id |-> u.id, password |-> u.password] :
                        u \in IF background THEN AccountsIn(None) ELSE AccountsIn(disk.userlist)},
        homes <- IF background THEN {} ELSE disk.homes,
        session <- IF background THEN None ELSE session

(* As long as root's shell waits for its commands, useradd and userdel take   *)
(* effect at once and for good wherever the machine stops, home directory     *)
(* included, and nobody logs in without an account.                           *)
ImplementsAccounts == A!Spec
=============================================================================

------------------------------ MODULE Accounts ------------------------------
(* What the user accounts of project 3 promise to those who log in: root adds *)
(* and deletes accounts, each at once and for good, and who logs in has one.  *)
EXTENDS FiniteSets, Integers

CONSTANTS Id, Root, Password, RootPassword,
          MaxAccounts,
          None

VARIABLES accounts,    \* [id, password] of every user
          homes,       \* users that have had a home directory made
          session      \* who works at the console, or None

vars == <<accounts, homes, session>>

Account(id, pw) == [id |-> id, password |-> pw]

Init ==
    /\ accounts = {Account(Root, RootPassword)}
    /\ homes = {}
    /\ session = None

Add(id, pw) ==
    /\ session = Root
    /\ \A a \in accounts : a.id # id
    /\ Cardinality(accounts) < MaxAccounts
    /\ accounts' = accounts \union {Account(id, pw)}
    /\ homes' = homes \union {id}
    /\ UNCHANGED session

Delete(id) ==
    /\ session = Root /\ id # Root
    /\ accounts' = {a \in accounts : a.id # id}
    /\ UNCHANGED <<homes, session>>

LogIn(a) ==
    /\ session = None
    /\ session' = a.id
    /\ UNCHANGED <<accounts, homes>>

\* By logout or because the machine stops.
LogOut ==
    /\ session' = None
    /\ UNCHANGED <<accounts, homes>>

Next ==
    \/ \E id \in Id, pw \in Password : Add(id, pw)
    \/ \E id \in Id : Delete(id)
    \/ \E a \in accounts : LogIn(a)
    \/ LogOut

Spec == Init /\ [][Next]_vars
=============================================================================

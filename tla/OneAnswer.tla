------------------------------ MODULE OneAnswer ------------------------------
(***************************************************************************)
(* What a page is promised when it asks a security key: the key decides   *)
(* each request once, and the page's callback is called with that         *)
(* decision, once.  `given` is the calls of each callback.                *)
(***************************************************************************)
EXTENDS Sequences

CONSTANTS Calls,     \* requests the page makes
          Decisions, \* what a key may say to one
          None       \* nothing said yet

VARIABLES asked, decided, given

promised == <<asked, decided, given>>

PromiseInit ==
    /\ asked = {}
    /\ decided = [c \in Calls |-> None]
    /\ given = [c \in Calls |-> <<>>]

Ask(c) ==
    /\ c \notin asked
    /\ asked' = asked \cup {c}
    /\ UNCHANGED <<decided, given>>

Decide(c, d) ==
    /\ c \in asked
    /\ decided[c] = None
    /\ decided' = [decided EXCEPT ![c] = d]
    /\ UNCHANGED <<asked, given>>

Give(c) ==
    /\ decided[c] # None
    /\ given[c] = <<>>
    /\ given' = [given EXCEPT ![c] = <<decided[c]>>]
    /\ UNCHANGED <<asked, decided>>

PromiseNext ==
    \E c \in Calls : Ask(c) \/ Give(c) \/ \E d \in Decisions : Decide(c, d)

PromiseSpec ==
    /\ PromiseInit
    /\ [][PromiseNext]_promised
    /\ \A c \in Calls : WF_promised(Give(c))
==============================================================================

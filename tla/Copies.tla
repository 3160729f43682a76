------------------------------- MODULE Copies -------------------------------
(***************************************************************************)
(* What the replicated data plane promises about one key, without rings,   *)
(* coordinators, messages or clocks.                                       *)
(*                                                                         *)
(* Every node has at most one copy: a value that a client has written,     *)
(* with the stamp it was written with.  A node may forget its copy at any  *)
(* time (DELETE, expiry, eviction, crash) and may take up any written      *)
(* value at any time, as long as it does not replace a copy by an older    *)
(* one.  A read that finds the key returns what some node held at some     *)
(* moment while the read was open; what it returns does not change after   *)
(* it has ended.                                                           *)
(***************************************************************************)
EXTENDS Naturals

CONSTANTS
    Nodes,
    Writes,     \* clients' writes, each of one value
    Reads,      \* clients' reads
    Stamps,
    None

VARIABLES
    issued,     \* the written values with their stamps
    held,       \* held[n]: the copy of node n
    phase,      \* phase[r]: has read r begun, and ended?
    answer      \* answer[r]: what it has found so far

vars == <<issued, held, phase, answer>>

Value == [val: Writes, at: Stamps]

TypeOK ==
    /\ issued \in SUBSET Value
    /\ held \in [Nodes -> issued \cup {None}]
    /\ phase \in [Reads -> {"idle", "open", "closed"}]
    /\ answer \in [Reads -> issued \cup {None}]

Init ==
    /\ issued = {}
    /\ held = [n \in Nodes |-> None]
    /\ phase = [r \in Reads |-> "idle"]
    /\ answer = [r \in Reads |-> None]

Issue(v) ==
    /\ \A u \in issued : u.val # v.val
    /\ issued' = issued \cup {v}
    /\ UNCHANGED <<held, phase, answer>>

Adopt(n, v) ==
    /\ v \in issued
    /\ held[n] # None => held[n].at <= v.at
    /\ held' = [held EXCEPT ![n] = v]
    /\ UNCHANGED <<issued, phase, answer>>

Open(r) ==
    /\ phase[r] = "idle"
    /\ phase' = [phase EXCEPT ![r] = "open"]
    /\ UNCHANGED <<issued, held, answer>>

\* The read may end with what it has found, or go on.
Sample(r, n) ==
    /\ phase[r] = "open" /\ held[n] # None
    /\ answer' = [answer EXCEPT ![r] = held[n]]
    /\ \E p \in {"open", "closed"} : phase' = [phase EXCEPT ![r] = p]
    /\ UNCHANGED <<issued, held>>

\* The answer of a node got lost on its way to the reader.
Drop(r) ==
    /\ phase[r] = "open"
    /\ answer' = [answer EXCEPT ![r] = None]
    /\ UNCHANGED <<issued, held, phase>>

Close(r) ==
    /\ phase[r] = "open"
    /\ phase' = [phase EXCEPT ![r] = "closed"]
    /\ UNCHANGED <<issued, held, answer>>

\* A node that crashes takes the reads it was working for with it.
Forget(n) ==
    /\ held' = [held EXCEPT ![n] = None]
    /\ \E dead \in SUBSET Reads :
           phase' = [r \in Reads |-> IF r \in dead THEN "closed" ELSE phase[r]]
    /\ UNCHANGED <<issued, answer>>

Next ==
    \/ \E v \in Value : Issue(v)
    \/ \E n \in Nodes : Forget(n) \/ \E v \in issued : Adopt(n, v)
    \/ \E r \in Reads : Open(r) \/ Drop(r) \/ Close(r) \/ \E n \in Nodes : Sample(r, n)

Spec == Init /\ [][Next]_vars
============================================================================

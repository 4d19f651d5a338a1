------------------------------ MODULE RunQueue -------------------------------
(***************************************************************************)
(* What the web server promises about requests to run jobs, whatever       *)
(* threads serve them: they run one at a time in the order they arrived,   *)
(* none shares a job with another that waits or runs, and the end of a run *)
(* calls the next, unless nobody can tell then what can run.               *)
(***************************************************************************)
EXTENDS Naturals

CONSTANTS
    Jobs,
    Looks,          \* requests that can run, each time somebody looks
    MaxEntries      \* bound: requests ever accepted

Entries == 1 .. MaxEntries

VARIABLES
    stage,      \* of each entry: "new", "waiting", "called", "running",
                \* "over" or "dropped"
    asked       \* the jobs it is for

qvars == <<stage, asked>>

QInit ==
    /\ stage = [e \in Entries |-> "new"]
    /\ asked = [e \in Entries |-> {}]

At(s) == {e \in Entries : stage[e] = s}
On == At("called") \cup At("running")

(* By one look at what can run, the first entry of the queue q that can is *)
(* called and those ahead of it are dropped; all are, if none can.         *)
Promote(q, stages) ==
    \E look \in Looks :
        LET live == {e \in q : asked'[e] \in look} IN
        stage' = [e \in Entries |->
            IF e \in q /\ \A k \in live : e < k THEN "dropped"
            ELSE IF e \in live /\ \A k \in live : e <= k THEN "called"
            ELSE stages[e]]

(* The entries of S arrive, and are called if nothing else is on.          *)
Arrive(S) ==
    /\ S \subseteq At("new")
    /\ \A e \in S, k \in At("new") \ S : e < k
    /\ asked' \in [Entries -> SUBSET Jobs]
    /\ \A e \in Entries \ S : asked'[e] = asked[e]
    /\ \A e \in S, k \in S \cup At("waiting") \cup On :
            k # e => asked'[e] \cap asked'[k] = {}
    /\ LET stages == [e \in Entries |-> IF e \in S THEN "waiting" ELSE stage[e]] IN
        IF On # {} THEN stage' = stages ELSE Promote(At("waiting") \cup S, stages)

(* Entries of the queue are removed.                                       *)
Drop(S) ==
    /\ S \subseteq At("waiting")
    /\ stage' = [e \in Entries |-> IF e \in S THEN "dropped" ELSE stage[e]]
    /\ UNCHANGED asked

Begin(e) ==
    /\ stage[e] = "called"
    /\ stage' = [stage EXCEPT ![e] = "running"]
    /\ UNCHANGED asked

(* A run ends, and the next is called unless nobody can look.              *)
End(e) ==
    /\ stage[e] = "running"
    /\ LET stages == [stage EXCEPT ![e] = "over"] IN
        stage' = stages \/ Promote(At("waiting"), stages)
    /\ UNCHANGED asked

QNext ==
    \/ \E S \in SUBSET Entries : Arrive(S) \/ Drop(S)
    \/ \E e \in Entries : Begin(e) \/ End(e)

QSpec == QInit /\ [][QNext]_qvars
==============================================================================

------------------------------ MODULE PodLease ------------------------------
(***************************************************************************)
(* What claiming and releasing promise about agent pods, without goroutines, *)
(* routes, streams or pods' work: a pod is leased from the warm pool to one  *)
(* message at a time, stays out of the pool until it is given back, and is   *)
(* given back under nobody's feet.                                          *)
(***************************************************************************)
CONSTANTS Pods, Msgs

VARIABLES
    row,        \* row[p]: "absent", "warm" or "active"
    users       \* users[p]: the messages that work with p

Init ==
    /\ row = [p \in Pods |-> "absent"]
    /\ users = [p \in Pods |-> {}]

\* A pod reports for the first time and joins the warm pool.
Join(p) ==
    /\ row[p] = "absent"
    /\ row' = [row EXCEPT ![p] = "warm"]
    /\ UNCHANGED users

\* A warm pod that nobody uses is leased to a message that uses no pod.
Lease(m, p) ==
    /\ row[p] = "warm" /\ users[p] = {}
    /\ \A q \in Pods : m \notin users[q]
    /\ row' = [row EXCEPT ![p] = "active"]
    /\ users' = [users EXCEPT ![p] = {m}]

\* The lease is recorded, but whoever asked for it is not told.
LeaseLost(p) ==
    /\ row[p] = "warm"
    /\ row' = [row EXCEPT ![p] = "active"]
    /\ UNCHANGED users

\* Some messages stop using their pods without giving them back.
LetGo ==
    /\ UNCHANGED row
    /\ users' \in [Pods -> SUBSET Msgs]
    /\ \A p \in Pods : users'[p] \subseteq users[p]

\* Message m gives back a leased pod: its own, or one that nobody uses any more.
GiveBack(m, p) ==
    /\ row[p] = "active" /\ users[p] \subseteq {m}
    /\ row' = [row EXCEPT ![p] = "warm"]
    /\ users' = [q \in Pods |-> users[q] \ {m}]

Next ==
    \/ LetGo
    \/ \E p \in Pods : Join(p) \/ LeaseLost(p)
    \/ \E m \in Msgs, p \in Pods : Lease(m, p) \/ GiveBack(m, p)

Spec == Init /\ [][Next]_<<row, users>>
=============================================================================

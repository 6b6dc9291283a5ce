--------------------------- MODULE AgentInstances ---------------------------
(***************************************************************************)
(* The agent_instances table as the gateway uses it: one row per agent pod, *)
(* keyed by the unique pod_name.  Each operator is one SQL statement of     *)
(* internal/db/agent_repo.go, which PostgreSQL executes atomically; what a  *)
(* caller does between two statements is interleaved in ConvDispatch.       *)
(* Only pods of one tenant and one profile are modelled, so the WHERE       *)
(* clause of the claim reduces to state = 'warm'.                           *)
(***************************************************************************)
EXTENDS Fleet, Sequences

VARIABLE inst       \* inst[p]: state of p's row, "absent" before its insert

InstStates == {"absent", "warm", "active"}

InstInit == inst = [p \in Pods |-> "absent"]

\* Mutant of ClaimRow: the sub-select without state = 'warm'.
ClaimAnyRow(p) ==
    /\ inst[p] # "absent"
    /\ inst' = [inst EXCEPT ![p] = "active"]

\* ClaimInstance: UPDATE ... SET state = 'active' WHERE id = (SELECT ... state =
\* 'warm' ... FOR UPDATE SKIP LOCKED).  Which warm row wins is left open.
ClaimRow(p) ==
    /\ inst[p] = "warm"
    /\ inst' = [inst EXCEPT ![p] = "active"]

\* The sub-select of ClaimInstance finds nothing.
NoWarmRow == \A p \in Pods : inst[p] # "warm"

\* pgx reports an empty result as "no rows in result set"; scanInstance wraps
\* every scan error, and isNoRows compares the text of what it is given.
ErrNoRows == <<"no rows in result set">>

scanInstanceErr(err) == <<"scan agent instance: ">> \o err

isNoRows(err) == err = <<"no rows in result set">>

\* What ClaimInstance returns when there is no warm row: nil, or an error.
ClaimMissResult == IF isNoRows(scanInstanceErr(ErrNoRows)) THEN "nil" ELSE "err"

\* ReleaseInstance: unconditional UPDATE ... SET state = 'warm' WHERE id = $1.
ReleaseInstance(p) == inst' = [inst EXCEPT ![p] = "warm"]

\* Mutant of UpsertInstanceByPodName: SET state = EXCLUDED.state, without the CASE.
UpsertOverwrites(p) == inst' = [inst EXCEPT ![p] = "warm"]

\* UpsertInstanceByPodName with state 'warm', as handleHeartbeat calls it: an
\* insert, or an update that leaves an active row active.
UpsertInstanceByPodName(p) ==
    inst' = [inst EXCEPT ![p] = IF @ = "active" THEN "active" ELSE "warm"]

\* GetInstanceByPodName finds a row.
HasRow(p) == inst[p] # "absent"
=============================================================================

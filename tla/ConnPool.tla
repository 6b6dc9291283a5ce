------------------------------ MODULE ConnPool ------------------------------
(***************************************************************************)
(* AddMessage (internal/db/conversation_repo.go) on the pool of database    *)
(* connections.  pool.QueryRow sends the INSERT and keeps its connection    *)
(* until the row is scanned; AddMessage runs pool.Exec, which takes a       *)
(* second connection, before it scans.  Every AddMessage therefore holds    *)
(* one connection while it waits for another.                               *)
(*                                                                          *)
(* Two kinds of goroutines call it: handlePostMessage with the request's    *)
(* context, which is cancelled when the client hangs up, and the watchers'  *)
(* persistAssistantMessage, whose context has no deadline.  All other       *)
(* statements take one connection and give it back.  Whether a statement    *)
(* succeeds makes no difference to the connections and is left out.  The    *)
(* pool itself (pgx) is external.                                           *)
(***************************************************************************)
EXTENDS Naturals, FiniteSets

CONSTANTS
    Callers,      \* goroutines that call AddMessage
    Requests,     \* those that call it with an HTTP request's context
    Others,       \* goroutines that execute single statements, again and again
    MaxConns      \* size of the pool

ASSUME PoolAssumption ==
    /\ MaxConns \in Nat \ {0}
    /\ IsFiniteSet(Callers) /\ IsFiniteSet(Others)
    /\ Requests \subseteq Callers

VARIABLES
    pc,         \* pc[g]: where caller g is in AddMessage
    gone,       \* callers whose context is cancelled
    busy,       \* the others that hold a connection
    idle        \* connections nobody holds

vars == <<pc, gone, busy, idle>>

TypeOK ==
    /\ pc \in [Callers -> {"start", "query", "touch", "exec", "scan", "returned"}]
    /\ gone \subseteq Requests
    /\ busy \subseteq Others
    /\ idle \in 0..MaxConns

Init ==
    /\ pc = [g \in Callers |-> "start"]
    /\ gone = {}
    /\ busy = {}
    /\ idle = MaxConns

-----------------------------------------------------------------------------
(* Pool (external) *)

Acquire == idle > 0 /\ idle' = idle - 1

Release == idle' = idle + 1

-----------------------------------------------------------------------------
(* AddMessage *)

AddMessage(g) ==
    /\ pc[g] = "start"
    /\ pc' = [pc EXCEPT ![g] = "query"]
    /\ UNCHANGED <<gone, busy, idle>>

\* Mutant of QueryRow: the INSERT runs beside a check that holds a connection, too.
QueryRowAndCheck(g) ==
    /\ pc[g] = "query"
    /\ g \notin gone
    /\ idle > 1 /\ idle' = idle - 2
    /\ pc' = [pc EXCEPT ![g] = "touch"]
    /\ UNCHANGED <<gone, busy>>

\* pool.QueryRow takes a connection and executes the INSERT; the row keeps it.
QueryRow(g) ==
    /\ pc[g] = "query"
    /\ g \notin gone
    /\ Acquire
    /\ pc' = [pc EXCEPT ![g] = "touch"]
    /\ UNCHANGED <<gone, busy>>

\* The context is cancelled before there was a connection: QueryRow, Exec and Scan
\* all fail.
QueryCancelled(g) ==
    /\ pc[g] = "query"
    /\ g \in gone
    /\ pc' = [pc EXCEPT ![g] = "returned"]
    /\ UNCHANGED <<gone, busy, idle>>

\* pool.Exec, which touches updated_at, gets a second connection ...
Exec(g) ==
    /\ pc[g] = "touch"
    /\ g \notin gone
    /\ Acquire
    /\ pc' = [pc EXCEPT ![g] = "exec"]
    /\ UNCHANGED <<gone, busy>>

\* ... and gives it back.
ExecReturns(g) ==
    /\ pc[g] = "exec"
    /\ Release
    /\ pc' = [pc EXCEPT ![g] = "scan"]
    /\ UNCHANGED <<gone, busy>>

\* Mutant of ExecCancelled: an error of Exec is returned at once, the row is never
\* scanned and keeps its connection.
ExecErrorReturned(g) ==
    /\ pc[g] = "touch"
    /\ g \in gone
    /\ pc' = [pc EXCEPT ![g] = "returned"]
    /\ UNCHANGED <<gone, busy, idle>>

\* The context is cancelled while Exec waits: its error is ignored.
ExecCancelled(g) ==
    /\ pc[g] = "touch"
    /\ g \in gone
    /\ pc' = [pc EXCEPT ![g] = "scan"]
    /\ UNCHANGED <<gone, busy, idle>>

\* scanMessage: Scan gives the first connection back.
scanMessage(g) ==
    /\ pc[g] = "scan"
    /\ Release
    /\ pc' = [pc EXCEPT ![g] = "returned"]
    /\ UNCHANGED <<gone, busy>>

\* The client hangs up.
Cancel(g) ==
    /\ g \in Requests \ gone
    /\ pc[g] \in {"query", "touch", "exec", "scan"}
    /\ gone' = gone \cup {g}
    /\ UNCHANGED <<pc, busy, idle>>

\* Every other statement: one connection, returned when the statement is done.
StatementStarts(o) ==
    /\ o \notin busy
    /\ Acquire
    /\ busy' = busy \cup {o}
    /\ UNCHANGED <<pc, gone>>

StatementEnds(o) ==
    /\ o \in busy
    /\ Release
    /\ busy' = busy \ {o}
    /\ UNCHANGED <<pc, gone>>

Next ==
    \/ \E g \in Callers : \/ AddMessage(g) \/ QueryRow(g) \/ QueryCancelled(g)
                          \/ Exec(g) \/ ExecReturns(g) \/ ExecCancelled(g)
                          \/ scanMessage(g) \/ Cancel(g)
    \/ \E o \in Others : StatementStarts(o) \/ StatementEnds(o)

Spec == Init /\ [][Next]_vars

(* Fairness: goroutines run on, statements end, and waiters for a connection are   *)
(* served in turn (the pool's semaphore is first come, first served), hence strong *)
(* fairness for whoever acquires.  Clients need not hang up.                       *)
Fairness ==
    /\ \A g \in Callers : /\ SF_vars(QueryRow(g)) /\ SF_vars(Exec(g))
                          /\ WF_vars(QueryCancelled(g)) /\ WF_vars(ExecCancelled(g))
                          /\ WF_vars(ExecReturns(g)) /\ WF_vars(scanMessage(g))
    /\ \A o \in Others : WF_vars(StatementEnds(o))

FairSpec == Spec /\ Fairness

-----------------------------------------------------------------------------
(* Properties *)

\* Callers that hold the connection of their INSERT, and of their Exec.
RowHolders == {g \in Callers : pc[g] \in {"touch", "exec", "scan"}}
ExecHolders == {g \in Callers : pc[g] = "exec"}

\* On every path through AddMessage, cancelled ones too, connections are neither lost
\* nor returned twice: each is idle or has its one holder.
ConnsAccounted ==
    idle + Cardinality(busy) + Cardinality(RowHolders) + Cardinality(ExecHolders)
        = MaxConns

\* As long as fewer goroutines call AddMessage than the pool has connections, whoever
\* waits for one waits for somebody who will return one without waiting himself.
NoHoldAndWait ==
    Cardinality(Callers) < MaxConns =>
        \/ idle > 0
        \/ busy # {}
        \/ \E g \in Callers : pc[g] \in {"exec", "scan"}

\* conversations.go: handlePostMessage "Returns the saved message immediately".
\* Every AddMessage returns, although the client waits.
AddMessageReturns ==
    \A g \in Callers : pc[g] = "query" ~> pc[g] = "returned"
=============================================================================

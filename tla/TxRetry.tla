------------------------------ MODULE TxRetry -------------------------------
(***************************************************************************)
(* runInTransaction (db/transaction.ts): a service's closure is run in an  *)
(* interactive transaction, and run again when the database was busy.      *)
(* The pool of connections, the row locks and the two timeouts of          *)
(* db/prisma.ts are modelled, the rows' contents are not: a request is the *)
(* sequence of rows it locks, in the order of its lines, so two requests   *)
(* may lock the same rows in opposite orders and wait for each other.      *)
(***************************************************************************)
EXTENDS ReadCommitted, Naturals, Sequences, FiniteSets

CONSTANTS
    Lockables,    \* the rows requests lock
    Requests,     \* the sequences of rows they lock
    Connections,  \* the size of the pool
    MaxAttempts   \* MAX_ATTEMPTS

ASSUME RequestsAssumption == Requests \subseteq Seq(Lockables)

ASSUME PoolAssumption == Connections \in Nat \ {0} /\ MaxAttempts \in Nat \ {0}

VARIABLES
    holder,  \* who holds the lock of each row
    caller,  \* what the caller in each client is waiting for
    applied  \* how many times the writes of its request were committed

retryVars == <<holder, caller, applied>>

-----------------------------------------------------------------------------
\* todo holds the rows still to be locked, the next one first.
NoRequest == [pc |-> "idle", req |-> << >>, todo |-> << >>, attempt |-> 0]

RetryInit ==
    /\ holder = [r \in Lockables |-> Nobody]
    /\ caller = [p \in Clients |-> NoRequest]
    /\ applied = [p \in Clients |-> 0]

Stands(p, label) == caller[p].pc = label
Running      == {p \in Clients : Stands(p, "run")}

\* Every row of p is free again.
Released(p) == [r \in Lockables |-> IF holder[r] = p THEN Nobody ELSE holder[r]]

\* p waits for a row that another transaction holds.
Blocked(p) ==
    /\ Stands(p, "run") /\ caller[p].todo # << >>
    /\ holder[Head(caller[p].todo)] \notin {p, Nobody}

-----------------------------------------------------------------------------
\* A request comes in: the first attempt asks the pool for a connection.
Submit(p, req) ==
    /\ Stands(p, "idle")
    /\ caller' = [caller EXCEPT ![p] =
                     [pc |-> "connect", req |-> req, todo |-> req, attempt |-> 1]]
    /\ applied' = [applied EXCEPT ![p] = 0]
    /\ UNCHANGED holder

Connect(p) ==
    /\ Stands(p, "connect")
    /\ Cardinality(Running) < Connections
    /\ caller' = [caller EXCEPT ![p].pc = "run"]
    /\ UNCHANGED <<holder, applied>>

\* The next statement of the closure takes its row, or finds it taken already.
Lock(p) ==
    /\ Stands(p, "run") /\ caller[p].todo # << >>
    /\ ~Blocked(p)
    /\ holder' = [holder EXCEPT ![Head(caller[p].todo)] = p]
    /\ caller' = [caller EXCEPT ![p].todo = Tail(@)]
    /\ UNCHANGED applied

Succeed(p) ==
    /\ Stands(p, "run") /\ caller[p].todo = << >>
    /\ holder' = Released(p)
    /\ caller' = [caller EXCEPT ![p].pc = "done"]
    /\ applied' = [applied EXCEPT ![p] = @ + 1]

\* An AppError of the closure goes straight to the caller.
Refuse(p) ==
    /\ Stands(p, "run")
    /\ holder' = Released(p)
    /\ caller' = [caller EXCEPT ![p].pc = "refused"]
    /\ UNCHANGED applied

\* A transient error: the transaction is rolled back; the caller backs off,
\* or gives up after the last attempt.
Retried(p) ==
    /\ holder' = Released(p)
    /\ caller' = [caller EXCEPT ![p].pc =
                     IF caller[p].attempt = MaxAttempts THEN "busy" ELSE "sleep"]
    /\ UNCHANGED applied

\* P2024: no connection within maxWait.
NoConnection(p) == Stands(p, "connect") /\ Retried(p)

\* P2034, P2028: the database has picked the transaction as the victim of a
\* deadlock, or it has taken longer than its timeout.
Fail(p) == Stands(p, "run") /\ Retried(p)

\* Bug: the attempts are not counted.
WakeUncounted(p) ==
    /\ Stands(p, "sleep")
    /\ caller' = [caller EXCEPT ![p].pc = "connect", ![p].todo = caller[p].req]
    /\ UNCHANGED <<holder, applied>>

\* The back-off is over: the whole closure again, from its first statement.
Wake(p) ==
    /\ Stands(p, "sleep")
    /\ caller' = [caller EXCEPT ![p].pc = "connect", ![p].todo = caller[p].req,
                                ![p].attempt = @ + 1]
    /\ UNCHANGED <<holder, applied>>

\* The caller has its result or its error.
Answer(p) ==
    /\ caller[p].pc \in {"done", "refused", "busy"}
    /\ caller' = [caller EXCEPT ![p] = NoRequest]
    /\ UNCHANGED <<holder, applied>>

-----------------------------------------------------------------------------
\* What goes on by itself once a request is made.
Proceed(p) ==
    \/ Connect(p) \/ NoConnection(p)
    \/ Lock(p) \/ Succeed(p) \/ Refuse(p) \/ Fail(p)
    \/ Wake(p)
    \/ Answer(p)

RetryNext == \E p \in Clients : Proceed(p) \/ \E req \in Requests : Submit(p, req)

\* The timers of the pool, of the transaction and of the back-off all fire.
RetrySpec ==
    RetryInit /\ [][RetryNext]_retryVars /\ \A p \in Clients : WF_retryVars(Proceed(p))

-----------------------------------------------------------------------------
\* Properties.

Labels == {"idle", "connect", "run", "sleep", "done", "refused", "busy"}

\* Locks are held by clients, and attempts are counted up to MaxAttempts.
RetryTypeOK ==
    /\ holder \in [Lockables -> Clients \cup {Nobody}]
    /\ caller \in [Clients -> [pc : Labels, req : Seq(Lockables), todo : Seq(Lockables),
                               attempt : 0..MaxAttempts]]
    /\ applied \in [Clients -> 0..1]

\* A request that backs off, waits for a connection or has been answered holds
\* no row, whichever of the ways out it took: nobody waits for it.
LocksAreInTransactions ==
    \A r \in Lockables : holder[r] # Nobody => Stands(holder[r], "run")

\* A request between two attempts has left no writes, and it may be tried
\* again; one that was answered "done" has made them.
NothingWrittenYet ==
    \A p \in Clients :
        /\ caller[p].pc \in {"connect", "run", "sleep"} => applied[p] = 0 /\ caller[p].attempt > 0
        /\ Stands(p, "sleep") => caller[p].attempt < MaxAttempts

\* Every request is answered, once, and its writes are made if and only if
\* the answer says so, whatever the deadlocks, timeouts and retries.
Phase(p) == IF caller[p].pc \in {"connect", "run", "sleep"} THEN "working" ELSE caller[p].pc

Promise == INSTANCE Contract WITH phase <- [p \in Clients |-> Phase(p)]

KeepsPromise == Promise!Spec

\* The inductive invariant.
RetryInv == RetryTypeOK /\ LocksAreInTransactions /\ NothingWrittenYet
=============================================================================

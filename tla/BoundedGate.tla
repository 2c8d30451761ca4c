----------------------------- MODULE BoundedGate -----------------------------
(***************************************************************************)
(* bounded_gate.rs: the synchronous admission gate of hosted effects, with *)
(* its users: commands and outbound requests hold their permit until they  *)
(* return (cmd.rs, http.rs); a name resolution moves it into a thread that *)
(* may outlive the call (tcp.rs).  At the end the server waits for the     *)
(* gate to be idle.                                                        *)
(*                                                                         *)
(* Each operation runs under the gate's lock.  Time is not modelled: a     *)
(* deadline may pass at any moment.                                        *)
(***************************************************************************)
EXTENDS Naturals, FiniteSets

CONSTANTS
    Callers,            \* threads running Roc handlers
    MaxActive,          \* max_active, at least one
    MaxWaiting          \* max_waiting

Server == "server"

ASSUME CallersAssumption == IsFiniteSet(Callers) /\ Server \notin Callers
ASSUME LimitsAssumption == MaxActive \in Nat \ {0} /\ MaxWaiting \in Nat

VARIABLES
    active, waiting,    \* State
    caller,             \* what each caller does
    late,               \* callers whose deadline has passed
    resolvers,          \* resolver threads and what each does; named by the
                        \* caller that spawned them
    notified,           \* sleepers that were notified
    shutdown            \* "running", "sleep" until idle, "idle" or "gave_up"

vars == <<active, waiting, caller, late, resolvers, notified, shutdown>>

Calling == {"acquire", "sleep", "working", "spawn", "recv"}
\* Callers that hold a permit, whose resolver holds one, that wait for one.
Holding == {c \in Callers : caller[c] \in {"working", "spawn"}}
Resolving == {c \in Callers : resolvers[c] # "none"}
Sleeping == {c \in Callers : caller[c] = "sleep"}
Asleep == Sleeping \union (IF shutdown = "sleep" THEN {Server} ELSE {})

Init ==
    /\ active = 0 /\ waiting = 0
    /\ caller = [c \in Callers |-> "handler"]
    /\ late = {}
    /\ resolvers = [c \in Callers |-> "none"]
    /\ notified = {}
    /\ shutdown = "running"

Become(c, pc) == caller' = [caller EXCEPT ![c] = pc]

-----------------------------------------------------------------------------
(* BoundedGate::acquire *)

\* A hosted effect begins.  Each caller has one resolver thread at a time: a
\* handler that calls again while its last one still runs is another caller.
Call(c) ==
    /\ caller[c] = "handler" /\ resolvers[c] = "none" /\ shutdown = "running"
    /\ Become(c, "acquire")
    /\ late' = late \ {c}
    /\ UNCHANGED <<active, waiting, resolvers, notified, shutdown>>

DeadlinePasses(c) ==
    /\ caller[c] \in Calling /\ c \notin late
    /\ late' = late \union {c}
    /\ UNCHANGED <<active, waiting, caller, resolvers, notified, shutdown>>

\* The permit is for a command or a request, or for a name resolution.
Admitted(c) == \E use \in {"working", "spawn"} : Become(c, use)

acquire(c) ==
    /\ caller[c] = "acquire"
    /\ CASE active < MaxActive ->
              active' = active + 1 /\ Admitted(c) /\ UNCHANGED waiting
         [] active >= MaxActive /\ waiting >= MaxWaiting ->
              Become(c, "handler") /\ UNCHANGED <<active, waiting>>
         [] OTHER ->
              IF c \in late
              THEN Become(c, "handler") /\ UNCHANGED <<active, waiting>>
              ELSE waiting' = waiting + 1 /\ Become(c, "sleep") /\ UNCHANGED active
    /\ UNCHANGED <<late, resolvers, notified, shutdown>>

\* A caller that times out stays in `waiting`.
WakeUpStaysWaiting(c) ==
    /\ caller[c] = "sleep"
    /\ notified' = notified \ {c}
    /\ CASE active < MaxActive ->
              active' = active + 1 /\ waiting' = waiting - 1 /\ Admitted(c)
         [] active >= MaxActive /\ c \in late -> Become(c, "handler") /\ UNCHANGED <<active, waiting>>
         [] OTHER -> UNCHANGED <<active, waiting, caller>>
    /\ UNCHANGED <<late, resolvers, shutdown>>

\* wait_timeout returns because of a notification, of the deadline, or of nothing.
WakeUp(c) ==
    /\ caller[c] = "sleep"
    /\ notified' = notified \ {c}
    /\ CASE active < MaxActive ->
              active' = active + 1 /\ waiting' = waiting - 1 /\ Admitted(c)
         [] active >= MaxActive /\ c \in late ->
              waiting' = waiting - 1 /\ Become(c, "handler") /\ UNCHANGED active
         [] OTHER -> UNCHANGED <<active, waiting, caller>>
    /\ UNCHANGED <<late, resolvers, shutdown>>

\* Wakes sleepers only when the gate becomes idle.
DropPermitIdleOnly ==
    /\ active' = active - 1
    /\ notified' = IF active' = 0 THEN notified \union Asleep ELSE notified

\* Drop for Permit: the last one wakes everybody, another wakes one sleeper.
DropPermit ==
    /\ active' = active - 1
    /\ LET sleepers == Asleep \ notified
       IN  IF active' = 0
           THEN notified' = notified \union sleepers
           ELSE IF sleepers = {} THEN UNCHANGED notified
           ELSE \E s \in sleepers : notified' = notified \union {s}

-----------------------------------------------------------------------------
(* The gate's users *)

\* A command or an outbound request is over.
Finish(c) ==
    /\ caller[c] = "working"
    /\ DropPermit
    /\ Become(c, "handler")
    /\ UNCHANGED <<waiting, late, resolvers, shutdown>>

\* run_resolver_with_gate: a thread takes the permit, or cannot be started.
Spawn(c) ==
    /\ caller[c] = "spawn"
    /\ \/ /\ resolvers' = [resolvers EXCEPT ![c] = "resolve"]
          /\ Become(c, IF c \in late THEN "handler" ELSE "recv")
          /\ UNCHANGED <<active, notified>>
       \/ DropPermit /\ Become(c, "handler") /\ UNCHANGED resolvers
    /\ UNCHANGED <<waiting, late, shutdown>>

\* recv_timeout: the addresses, or the deadline, whichever the caller sees.
Receive(c) ==
    /\ caller[c] = "recv"
    /\ resolvers[c] # "resolve" \/ c \in late
    /\ Become(c, "handler")
    /\ UNCHANGED <<active, waiting, late, resolvers, notified, shutdown>>

\* The thread sends its result and drops the permit.
Send(c) ==
    /\ resolvers[c] = "resolve"
    /\ resolvers' = [resolvers EXCEPT ![c] = "sent"]
    /\ UNCHANGED <<active, waiting, caller, late, notified, shutdown>>

ResolverExits(c) ==
    /\ resolvers[c] = "sent"
    /\ DropPermit
    /\ resolvers' = [resolvers EXCEPT ![c] = "none"]
    /\ UNCHANGED <<waiting, caller, late, shutdown>>

-----------------------------------------------------------------------------
(* tcp::shutdown, after the Roc executor has stopped *)

wait_for_idle ==
    /\ shutdown = "running"
    /\ \A c \in Callers : caller[c] = "handler"
    /\ shutdown' = IF active = 0 THEN "idle" ELSE "sleep"
    /\ UNCHANGED <<active, waiting, caller, late, resolvers, notified>>

IdleWakeUp ==
    /\ shutdown = "sleep"
    /\ notified' = notified \ {Server}
    /\ \/ active = 0 /\ shutdown' = "idle"
       \/ active # 0 /\ UNCHANGED shutdown
       \/ active # 0 /\ shutdown' = "gave_up"
    /\ UNCHANGED <<active, waiting, caller, late, resolvers>>

Next ==
    \/ wait_for_idle \/ IdleWakeUp
    \/ \E c \in Callers : \/ Call(c) \/ DeadlinePasses(c) \/ acquire(c) \/ WakeUp(c)
                          \/ Finish(c) \/ Spawn(c) \/ Receive(c) \/ Send(c)
                          \/ ResolverExits(c)

Spec == Init /\ [][Next]_vars
-----------------------------------------------------------------------------
(* Properties *)

\* The shape of the state.
TypeOK ==
    /\ active \in 0 .. MaxActive /\ waiting \in 0 .. MaxWaiting
    /\ caller \in [Callers -> Calling \union {"handler"}]
    /\ late \subseteq Callers /\ notified \subseteq Callers \union {Server}
    /\ resolvers \in [Callers -> {"none", "resolve", "sent"}]
    /\ shutdown \in {"running", "sleep", "idle", "gave_up"}

\* `active` and `waiting` are exact through timeouts, spawn failures and calls
\* that leave their resolver behind, and an idle gate has no resolver running.
PermitsExact ==
    /\ active = Cardinality(Holding) + Cardinality(Resolving)
    /\ active <= MaxActive
    /\ waiting = Cardinality(Sleeping) /\ waiting <= MaxWaiting
    /\ shutdown = "idle" => Holding = {} /\ Resolving = {}

\* No caller sleeps unnotified beside a free permit: for each free permit another
\* sleeper was notified, whatever deadlines pass.  The waiter for idle shares
\* the condition variable, so this needs that it starts when no caller is left;
\* and it is itself never asleep unnotified once the gate is idle.
NoneStranded ==
    /\ Sleeping \subseteq notified
       \/ MaxActive - active <= Cardinality(Sleeping \cap notified)
    /\ shutdown = "sleep" /\ active = 0 => Server \in notified

-----------------------------------------------------------------------------
(* The inductive invariant *)

\* A caller begins a call only when its last resolver is gone, and the server
\* waits for idle only when no call is left.
CallsOrdered ==
    /\ shutdown # "running" => \A c \in Callers : caller[c] = "handler"
    /\ \A c \in Callers : caller[c] \in {"acquire", "sleep", "working", "spawn"} =>
                            resolvers[c] = "none"

IInv == TypeOK /\ PermitsExact /\ NoneStranded /\ CallsOrdered
=============================================================================

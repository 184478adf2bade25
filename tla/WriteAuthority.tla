--------------------------- MODULE WriteAuthority ---------------------------
(***************************************************************************)
(* What a Slot promises about the serial line, without leases that expire,  *)
(* approvals, Runs, Triggers, macros or sessions: at most one client holds  *)
(* the line, each time under a new fence; only the holder's bytes reach the *)
(* line, except that a Human may assist an Agent; and after such an         *)
(* intervention the Agent is silent until the gate opens again.             *)
(***************************************************************************)
EXTENDS Naturals

CONSTANTS Humans, Agents, Scripts, None

VARIABLES
    holder,      \* None, or the owner and fence of the current lease
    nextFence,   \* the fence of the next lease
    gate,        \* "closed": a Human command the holding Agent has not read
    busy,        \* a write handed to the port has not been settled
    line         \* the last transmission

vars == <<holder, nextFence, gate, busy, line>>

Init ==
    /\ holder = None
    /\ nextFence = 1
    /\ gate = "open"
    /\ busy = FALSE
    /\ line = None

\* A free line goes to anyone; a held one only to a Human, or from a Human to
\* the Agent the Human approved.
MayTakeFrom(a) ==
    \/ holder = None
    \/ a \in Humans
    \/ holder.owner \in Humans /\ a \in Agents

Grant(a) ==
    /\ MayTakeFrom(a)
    /\ holder' = [owner |-> a, fence |-> nextFence]
    /\ nextFence' = nextFence + 1
    /\ gate' = "open"
    /\ UNCHANGED <<busy, line>>

\* Losing the line does not recall a write in flight, but it may settle it.
Revoke ==
    /\ holder # None
    /\ holder' = None
    /\ gate' = "open"
    /\ busy' \in {busy, FALSE}
    /\ UNCHANGED <<nextFence, line>>

Transmit ==
    /\ holder # None
    /\ ~busy
    /\ holder.owner \in Agents => gate = "open"
    /\ line' = [by |-> holder.owner, fence |-> holder.fence]
    /\ busy' \in BOOLEAN
    /\ UNCHANGED <<holder, nextFence, gate>>

\* A Human's command takes a free line and is sent at once.
GrantAndTransmit(h) ==
    /\ holder = None
    /\ ~busy
    /\ holder' = [owner |-> h, fence |-> nextFence]
    /\ nextFence' = nextFence + 1
    /\ line' = [by |-> h, fence |-> nextFence]
    /\ UNCHANGED <<gate, busy>>

\* A Human's bytes follow whatever the Agent still had in flight.
Assist(h) ==
    /\ holder # None /\ holder.owner \in Agents
    /\ line' = [by |-> h, fence |-> holder.fence]
    /\ gate' = "closed"
    /\ busy' = FALSE
    /\ UNCHANGED <<holder, nextFence>>

OpenGate ==
    /\ gate' = "open"
    /\ UNCHANGED <<holder, nextFence, busy, line>>

Settle ==
    /\ busy' = FALSE
    /\ UNCHANGED <<holder, nextFence, gate, line>>

Next ==
    \/ \E a \in Humans \cup Agents \cup Scripts : Grant(a)
    \/ Revoke
    \/ Transmit
    \/ \E h \in Humans : GrantAndTransmit(h) \/ Assist(h)
    \/ OpenGate
    \/ Settle

Spec == Init /\ [][Next]_vars

=============================================================================

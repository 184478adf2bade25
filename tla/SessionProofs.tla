---------------------------- MODULE SessionProofs ----------------------------
(***************************************************************************)
(* Proofs about the session of serial-mcp, for any callers and ports and any  *)
(* number of Runs, connections, writes and requests.                         *)
(***************************************************************************)
EXTENDS AgentSession, FiniteSetTheorems, TLAPS

-----------------------------------------------------------------------------
(* The inductive invariant: what the session holds *)

\* A Run, its lease and the connection come and go together, and a Run that the session
\* owns was handed to a caller.
SessionSound ==
    \A p \in Ports :
        /\ s.owned[p] = None => s.lease[p] = None
        /\ s.owned[p] # None =>
            /\ s.conn # 0 /\ s.lease[p] = s.owned[p].run
            /\ s.owned[p].run.port = p /\ s.owned[p].run \in caller.handles

\* What was made in the daemon was made over a connection that the session had.
ConnectionsKnown ==
    /\ s.conn <= daemon.made
    /\ \A conn \in daemon.conns : conn <= daemon.made
    /\ \A m \in daemon.inbox : m.conn <= daemon.made
    /\ \A p \in Ports :
        /\ daemon.holder[p] # None => daemon.holder[p].conn <= daemon.made
        /\ daemon.start[p] # None => daemon.start[p].conn <= daemon.made

-----------------------------------------------------------------------------
(* Requests *)

\* Requests of callers name a Run that was handed out, and the port of it.
Addressed(r) ==
    IF r.kind = "renew" THEN r.caller = None /\ r.write = 0
    ELSE /\ r.port \in Ports
         /\ r.kind # "start" => r.run \in caller.handles /\ r.port = r.run.port
         /\ IF r.kind = "write" THEN r.write \in Writes ELSE r.write = 0

\* The caller of a request waits for it.
Awaited(r) ==
    r.caller # None =>
        /\ caller.waits[r.caller] = r.kind
        /\ r.kind \in {"start", "begin"} => caller.guard[r.caller] = None

Queued(r) == Addressed(r) /\ Awaited(r) /\ r.kind # "renew" /\ r.at = "start" /\ ~r.pending /\ r.then = None

StagesOf(kind) ==
    CASE kind = "start" -> {"start", "again", "polled", "cancelled", "released"}
      [] kind = "begin" -> {"start", "released"}
      [] kind = "write" -> {"start", "renewed", "wrote"}
      [] kind = "end" -> {"start", "renewed", "stopped", "released"}
      [] kind = "abort" -> {"start", "aborted"}
      [] kind = "query" -> {"start", "again", "asked"}
      [] kind = "renew" -> {"start", "again", "released", "kept"}

\* A Run start that waits for a renewal has asked already.
Suspended(r) ==
    /\ Addressed(r) /\ Awaited(r)
    /\ r.kind = "start" /\ r.at = "again" /\ r.pending /\ r.then = None /\ s.owned[r.port] = None

Served(r) ==
    /\ Addressed(r) /\ Awaited(r) /\ r.at \in StagesOf(r.kind)
    /\ Waiting => r.port \in Ports
    /\ r.kind = "start" /\ r.at = "start" => ~r.pending
    /\ r.kind = "start" /\ r.at \in {"again", "cancelled"} => r.pending
    /\ r.kind = "start" /\ r.at # "start" => s.owned[r.port] = None
    /\ r.then # None => r.kind = "renew" /\ Suspended(r.then)

\* Two requests have not the same caller nor the same write.
Apart(r, q) == /\ r.caller # None => r.caller # q.caller
               /\ r.write # 0 => r.write # q.write

RequestsSound ==
    /\ \A i \in DOMAIN queue : Queued(queue[i])
    /\ \A i, j \in DOMAIN queue : i # j => Apart(queue[i], queue[j])
    /\ op # None =>
        /\ Served(op)
        /\ \A i \in DOMAIN queue :
            Apart(op, queue[i]) /\ (op.then # None => Apart(op.then, queue[i]))

-----------------------------------------------------------------------------
(* What is under way *)

Sends(at) ==
    CASE at \in {"renewed", "kept"} -> "renew"
      [] at = "wrote" -> "write"
      [] at = "stopped" -> "end"
      [] at \in {"aborted", "released"} -> "release"
      [] at = "asked" -> "query"
      [] at = "polled" -> "start"
      [] at = "cancelled" -> "cancel"

\* A message over the session's connection is what the task waits for, and its only one.
InFlight ==
    /\ \A m \in daemon.inbox : m.conn = s.conn =>
        /\ Waiting /\ daemon.answer = None
        /\ m.kind = Sends(op.at) /\ m.port = op.port /\ m.write = op.write
        /\ op.at # "released" => m.lease = s.lease[op.port]
    /\ \A m, n \in daemon.inbox : m.conn = s.conn /\ n.conn = s.conn => m = n

ResultsOf(kind) ==
    CASE kind = "renew" -> {"renewed", "control"}
      [] kind = "write" -> {"written", "uncertain", "boundary", "run", "control"}
      [] kind = "end" -> {"ended", "control"}
      [] kind = "release" -> {"released", "control"}
      [] kind = "query" -> {"told"}
      [] kind = "start" -> {"granted", "pending", "denied", "error"}
      [] kind = "cancel" -> {"cancelled", "error"}

\* An answer is one to what the task waits for.
AnswerFits ==
    daemon.answer # None =>
        /\ Waiting /\ s.conn # 0 /\ daemon.answer.result \in ResultsOf(Sends(op.at))
        /\ daemon.answer.result = "renewed" => daemon.answer.lease = s.lease[op.port]

-----------------------------------------------------------------------------
(* Runs *)

\* Runs are handed out once: one that is granted is not among them, nor granted twice.
Fresh(run, port) ==
    /\ run \in Runs /\ run.port = port /\ run.n <= daemon.runs[port]
    /\ run \notin caller.handles
Granted == op # None /\ op.at = "polled" /\ daemon.answer # None /\ daemon.answer.result = "granted"
RunsFresh ==
    /\ \A run \in caller.handles : run.n <= daemon.runs[run.port]
    /\ \A p \in Ports : daemon.start[p] # None /\ daemon.start[p].state = "granted" =>
        Fresh(daemon.start[p].run, p)
    /\ Granted =>
        /\ Fresh(daemon.answer.lease, op.port)
        /\ daemon.start[op.port] # None => daemon.start[op.port].run # daemon.answer.lease

\* Guards are of Runs that were handed out.
GuardsKnown ==
    /\ \A c \in Callers : caller.guard[c] # None => caller.guard[c] \in caller.handles
    /\ \A i \in DOMAIN ended : ended[i] \in caller.handles

-----------------------------------------------------------------------------
(* What the daemon holds for the connection *)

\* The Run start that the task is at, or comes back to.
Starting(p) ==
    /\ op # None
    /\ \/ op.kind = "start" /\ op.port = p /\ op.at = "again"
       \/ op.kind = "start" /\ op.port = p /\ op.at = "polled" /\ (daemon.answer = None \/ daemon.answer.result = "pending")
       \/ op.kind = "start" /\ op.port = p /\ op.at = "cancelled" /\ (daemon.answer = None \/ daemon.answer.result = "error")
       \/ op.then # None /\ op.then.port = p

Mine(entry) == entry # None /\ entry.conn = s.conn
StartsKnown ==
    \A p \in Ports :
        /\ Mine(daemon.start[p]) => Starting(p)
        /\ daemon.start[p] # None /\ daemon.start[p].state = "pending" => daemon.holder[p] = None

\* The lease of a port that the connection holds is the session's, or that of a Run that
\* is granted and on its way, or it is being released.
Releasing(p, lease) ==
    \E m \in daemon.inbox : m.conn = s.conn /\ m.kind = "release" /\ m.port = p /\ m.lease = lease
HoldersKnown ==
    \A p \in Ports : Mine(daemon.holder[p]) =>
        \/ s.owned[p] # None /\ s.lease[p] = daemon.holder[p].lease
        \/ Mine(daemon.start[p]) /\ daemon.start[p].state = "granted" /\ daemon.start[p].run = daemon.holder[p].lease
        \/ Granted /\ op.port = p /\ daemon.answer.lease = daemon.holder[p].lease
        \/ Releasing(p, daemon.holder[p].lease)

\* A Run that was aborted is held no more when the daemon has answered.
AbortedGone ==
    op # None /\ op.at = "aborted" /\ daemon.answer # None => ~Mine(daemon.holder[op.port])

-----------------------------------------------------------------------------
(* Writes *)

Writing(w) == op # None /\ op.kind = "write" /\ op.write = w
InInbox(w) == \E m \in daemon.inbox : m.kind = "write" /\ m.write = w
WritesSound ==
    /\ \A i \in DOMAIN queue : queue[i].write # 0 => s.told[queue[i].write] = None
    /\ op # None /\ op.write # 0 => s.told[op.write] = None
    /\ \A w \in Writes : w \in written \/ InInbox(w) =>
        s.told[w] \in {"written", "uncertain"} \/ (Writing(w) /\ op.at = "wrote")
    /\ \A w \in Writes : s.told[w] = "written" => w \in written
    /\ \A m \in daemon.inbox : m.kind = "write" =>
        /\ m.write \in Writes /\ m.write \notin written
        /\ Writing(m.write) /\ op.at = "wrote" => m.conn = s.conn
    /\ \A m, n \in daemon.inbox :
        m.kind = "write" /\ n.kind = "write" /\ m.write = n.write => m = n
    /\ op # None /\ op.at = "wrote" /\ daemon.answer # None =>
        /\ daemon.answer.result = "written" => op.write \in written
        /\ daemon.answer.result \in {"boundary", "run", "control"} => op.write \notin written

-----------------------------------------------------------------------------

\* Everything together.
Invariant ==
    /\ TypeOK /\ SessionSound /\ ConnectionsKnown /\ RequestsSound
    /\ InFlight /\ AnswerFits /\ RunsFresh /\ GuardsKnown /\ UsesExact
    /\ StartsKnown /\ HoldersKnown /\ AbortedGone /\ WritesSound
(* The operators *)

USE BoundsAssumption, NoneAssumption

\* What a request is made of.
LEMMA RequestFields ==
    ASSUME NEW nested, NEW r \in RequestOf(nested)
    PROVE  /\ r.caller \in Callers \cup {None} /\ r.port \in Ports \cup {None} /\ r.run \in Runs \cup {None}
           /\ r.write \in {0} \cup Writes /\ r.then \in nested
           /\ r.idle \in SUBSET Ports /\ r.rest \in SUBSET Ports /\ r.pending \in BOOLEAN
           /\ r.kind \in {"start", "begin", "write", "end", "abort", "query", "renew"}
BY DEF RequestOf

\* The session's maps have their types.
LEMMA SessionFields ==
    ASSUME NEW t \in SessionState
    PROVE  /\ t.conn \in Nat /\ t.owned \in [Ports -> OwnedRuns \cup {None}]
           /\ t.lease \in [Ports -> Runs \cup {None}] /\ t.ttl \in BOOLEAN
           /\ t.told \in [Writes -> {"written", "unwritten", "uncertain", None}]
BY DEF SessionState, Conns

\* The session without a connection has nothing else either.
LEMMA DisconnectedIs ==
    ASSUME NEW t \in SessionState, NEW u, u = Disconnected(t)
    PROVE  /\ u \in SessionState /\ u.conn = 0 /\ u.lease = NoRun /\ u.owned = NoRun
           /\ u.ttl = t.ttl /\ u.told = t.told
<1>1. NoRun \in [Ports -> OwnedRuns \cup {None}] /\ NoRun \in [Ports -> Runs \cup {None}]
  BY DEF NoRun
<1>2. QED
  BY <1>1 DEF Disconnected, SessionState

\* A new request has its fields, and a renewal visits the ports that have a Run.
LEMMA RenewalIs ==
    ASSUME NEW t \in SessionState, NEW then \in Simple \cup {None}, NEW r, r = Renewal(t, then)
    PROVE  /\ r \in RequestOf(Simple \cup {None}) /\ r.kind = "renew" /\ r.caller = None /\ r.write = 0
           /\ r.at = "start" /\ r.then = then
BY DEF Renewal, Request, RequestOf

-----------------------------------------------------------------------------
(* A request that is answered *)

Told ==
    \/ s'.told = s.told /\ op.at # "wrote"
    \/ \E what \in {"written", "unwritten", "uncertain"} :
        /\ op.kind = "write" /\ s'.told = [s.told EXCEPT ![op.write] = what]
        /\ what = "unwritten" => op.write \notin written /\ ~InInbox(op.write)
        /\ what = "written" => op.write \in written

Ended(o) ==
    /\ op # None /\ s' \in SessionState
    /\ op' = IF o = op THEN op.then ELSE None
    /\ o # op => o = op.then /\ o # None
    /\ daemon' = [daemon EXCEPT !.answer = None]
    /\ caller' = IF o.caller = None THEN caller ELSE [caller EXCEPT !.waits[o.caller] = None]
    /\ UNCHANGED <<queue, ended, written>>
    /\ s'.conn \in {0, s.conn}
    /\ \A p \in Ports : \/ s'.owned[p] = s.owned[p] /\ s'.lease[p] = s.lease[p]
                        \/ s'.owned[p] = None /\ s'.lease[p] = None
    /\ s'.conn = 0 => s'.owned = NoRun
    /\ s'.conn # 0 =>
        /\ o = op /\ (~Waiting \/ daemon.answer # None) /\ ~Granted
        /\ op.kind = "start" => ~Mine(daemon.start[op.port])
        /\ \A p \in Ports : s'.owned[p] # s.owned[p] => ~Mine(daemon.holder[p])
    /\ Told

\* The parts of the daemon's state have their types.
LEMMA DaemonFields ==
    ASSUME TypeOK
    PROVE  /\ daemon.made \in Nat /\ daemon.conns \subseteq Conns /\ daemon.inbox \subseteq Messages
           /\ daemon.holder \in [Ports -> Holders \cup {None}] /\ daemon.start \in [Ports -> Starts \cup {None}]
           /\ daemon.answer \in Answers \cup {None} /\ daemon.runs \in [Ports -> 0..MaxRuns]
BY DEF TypeOK, DaemonState, Conns

\* A request that the task is at, and one that waits, have their parts.
LEMMA OpFields ==
    ASSUME TypeOK, op # None
    PROVE  /\ op \in RequestOf(Simple \cup {None})
           /\ op.caller \in Callers \cup {None} /\ op.port \in Ports \cup {None} /\ op.run \in Runs \cup {None}
           /\ op.write \in {0} \cup Writes /\ op.then \in Simple \cup {None}
           /\ op.then # None => op.then.caller \in Callers \cup {None} /\ op.then.then = None
BY DEF TypeOK, RequestOf, Simple

\* A request that has none within is a request.
LEMMA SimpleIsRequest ==
    ASSUME NEW r \in Simple
    PROVE  r \in RequestOf(Simple \cup {None})
BY DEF Simple, RequestOf

\* Most stages are those of one kind of request.
LEMMA KindOfStage ==
    ASSUME TypeOK, RequestsSound, op # None
    PROVE  /\ op.at \in {"polled", "cancelled"} => op.kind = "start"
           /\ op.at = "wrote" => op.kind = "write"
           /\ op.at = "stopped" => op.kind = "end"
           /\ op.at = "renewed" => op.kind \in {"write", "end"}
           /\ op.at = "aborted" => op.kind = "abort"
           /\ op.at = "asked" => op.kind = "query"
           /\ op.at = "kept" => op.kind = "renew"
           /\ op.at = "again" => op.kind \in {"start", "query", "renew"}
           /\ op.at = "released" => op.kind \in {"start", "begin", "end", "renew"}
<1>1. op.kind \in {"start", "begin", "write", "end", "abort", "query", "renew"} /\ op.at \in StagesOf(op.kind)
  BY OpFields, RequestFields DEF RequestsSound, Served
<1>2. QED
  BY <1>1 DEF StagesOf

\* The answered request leaves everything in order.
LEMMA EndedKeeps ==
    ASSUME Invariant, NEW o, Ended(o)
    PROVE  Invariant'
<1> USE DEF Invariant
<1>1. /\ op # None /\ s \in SessionState /\ s' \in SessionState /\ o # None
      /\ o \in RequestOf(Simple \cup {None}) \/ o \in Simple
      /\ o = op \/ (o = op.then /\ op.then # None)
  BY OpFields DEF Ended, TypeOK
<1>2. /\ op' = None \/ (op' = op.then /\ op.then # None /\ o = op)
  BY DEF Ended
<1>3. /\ daemon'.inbox = daemon.inbox /\ daemon'.made = daemon.made /\ daemon'.conns = daemon.conns
      /\ daemon'.holder = daemon.holder /\ daemon'.start = daemon.start /\ daemon'.runs = daemon.runs
      /\ daemon'.answer = None /\ daemon' \in DaemonState
  BY DEF Ended, TypeOK, DaemonState
<1>4. /\ caller'.guard = caller.guard /\ caller'.handles = caller.handles
      /\ \A c \in Callers : caller'.waits[c] = IF c = o.caller THEN None ELSE caller.waits[c]
      /\ caller' \in CallerState
  <2>1. o.caller \in Callers \cup {None}
    BY <1>1, OpFields
  <2>2. QED
    BY <2>1 DEF Ended, TypeOK, CallerState
<1>5. queue' = queue /\ ended' = ended /\ written' = written
  BY DEF Ended
<1>6. TypeOK'
  <2>1. op' \in RequestOf(Simple \cup {None}) \cup {None}
    BY <1>1, <1>2, OpFields, SimpleIsRequest
  <2>2. QED
    BY <1>1, <1>3, <1>4, <1>5, <2>1 DEF TypeOK
<1>7. \A p \in Ports : \/ s'.owned[p] = s.owned[p] /\ s'.lease[p] = s.lease[p]
                       \/ s'.owned[p] = None /\ s'.lease[p] = None
  BY DEF Ended
<1>8. s'.conn = 0 \/ s'.conn = s.conn
  BY DEF Ended
<1>9. s'.conn = 0 => \A p \in Ports : s'.owned[p] = None
  BY DEF Ended, NoRun
<1>10. SessionSound'
  BY <1>4, <1>7, <1>8, <1>9 DEF SessionSound
<1>11. ConnectionsKnown'
  BY <1>3, <1>8, DaemonFields DEF ConnectionsKnown
<1>12. RequestsSound'
  <2>1. ASSUME NEW i \in DOMAIN queue
        PROVE  Queued(queue[i])'
    <3>1. Queued(queue[i]) /\ Apart(o, queue[i])
      BY <1>1 DEF RequestsSound
    <3>2. queue[i] \in Simple
      BY DEF TypeOK
    <3>3. queue[i].caller # None => queue[i].caller \in Callers /\ queue[i].caller # o.caller
      BY <3>1, <3>2, RequestFields DEF Simple, Apart
    <3>4. QED
      BY <1>4, <1>5, <3>1, <3>3 DEF Queued, Addressed, Awaited
  <2>2. ASSUME op' # None
        PROVE  Served(op)' /\ \A i \in DOMAIN queue : Apart(op', queue[i])
    <3>1. op' = op.then /\ op.then # None /\ Suspended(op.then) /\ op.kind = "renew" /\ op.caller = None /\ o = op
      BY <1>1, <1>2, <2>2 DEF RequestsSound, Served, Addressed
    <3>2. caller'.waits = caller.waits
      BY <3>1 DEF Ended
    <3>3. s'.owned[op.then.port] = None /\ op.then.port \in Ports
      BY <1>7, <3>1 DEF Suspended, Addressed
    <3>4. Addressed(op)' /\ Awaited(op)'
      BY <1>4, <3>1, <3>2 DEF Suspended, Addressed, Awaited
    <3>5. /\ op'.kind = "start" /\ op'.at = "again" /\ op'.pending /\ op'.then = None
          /\ "again" \in StagesOf("start") /\ ~Waiting'
      BY <3>1 DEF Suspended, StagesOf, Waiting
    <3>6. Served(op)'
      BY <3>1, <3>3, <3>4, <3>5 DEF Served
    <3>7. QED
      BY <1>1, <3>1, <3>6 DEF RequestsSound
  <2>3. op' # None => op'.then = None
    BY <1>1, <1>2 DEF RequestsSound, Served, Suspended
  <2>4. QED
    BY <1>5, <2>1, <2>2, <2>3 DEF RequestsSound
<1>13. s'.conn # 0 => o = op /\ op' = op.then /\ (~Waiting \/ daemon.answer # None) /\ ~Granted /\ s'.conn = s.conn
  BY <1>8 DEF Ended
<1>14. \A m \in daemon.inbox : m.conn # 0
  BY DaemonFields DEF Messages, Conns
<1>15. \A m \in daemon.inbox : m.conn # s'.conn
  BY <1>13, <1>14 DEF InFlight
<1>16. InFlight' /\ AnswerFits'
  BY <1>3, <1>15 DEF InFlight, AnswerFits
<1>17. RunsFresh'
  BY <1>3, <1>4 DEF RunsFresh, Granted, Fresh
<1>18. GuardsKnown'
  BY <1>4, <1>5 DEF GuardsKnown
<1>19. UsesExact'
  BY <1>4, <1>5, <1>7 DEF UsesExact
<1>20. StartsKnown'
  <2>1. ASSUME NEW p \in Ports, Mine(daemon.start[p])'
        PROVE  Starting(p)'
    <3>1. daemon.start[p] # None /\ daemon.start[p].conn = s'.conn /\ s'.conn # 0
      BY <1>3, <2>1, DaemonFields DEF Mine, Starts, Conns
    <3>2. Mine(daemon.start[p]) /\ Starting(p)
      BY <1>13, <3>1 DEF Mine, StartsKnown
    <3>3. op.kind = "start" => ~Mine(daemon.start[op.port])
      BY <1>13, <3>1 DEF Ended
    <3>4. op.then # None /\ op.then.port = p
      BY <3>2, <3>3 DEF Starting
    <3>5. op' = op.then /\ op.then.kind = "start" /\ op.then.at = "again"
      BY <1>1, <1>13, <3>1, <3>4 DEF RequestsSound, Served, Suspended
    <3>6. QED
      BY <3>4, <3>5 DEF Starting
  <2>2. QED
    BY <1>3, <2>1 DEF StartsKnown
<1>21. HoldersKnown'
  <2>1. ASSUME NEW p \in Ports, Mine(daemon.holder[p])'
        PROVE  \/ s'.owned[p] # None /\ s'.lease[p] = daemon.holder[p].lease
               \/ /\ daemon.start[p] # None /\ daemon.start[p].conn = s'.conn
                  /\ daemon.start[p].state = "granted" /\ daemon.start[p].run = daemon.holder[p].lease
    <3>1. daemon.holder[p] # None /\ daemon.holder[p].conn = s'.conn /\ s'.conn # 0
      BY <1>3, <2>1, DaemonFields DEF Mine, Holders, Conns
    <3>2. Mine(daemon.holder[p]) /\ s'.conn = s.conn
      BY <1>13, <3>1 DEF Mine
    <3>3. s'.owned[p] = s.owned[p]
      BY <3>1, <3>2 DEF Ended
    <3>4. s.owned[p] # None => s'.lease[p] = s.lease[p]
      BY <1>7, <3>3
    <3>5. ~Releasing(p, daemon.holder[p].lease)
      BY <1>15, <3>2 DEF Releasing
    <3>6. QED
      BY <1>13, <3>1, <3>2, <3>3, <3>4, <3>5 DEF HoldersKnown, Mine
  <2>2. QED
    BY <1>3, <2>1 DEF HoldersKnown, Mine
<1>22. AbortedGone'
  BY <1>3 DEF AbortedGone
<1>23. WritesSound'
  <2>1. op'= None \/ (op'.write = 0 /\ op'.at = "again")
    BY <1>1, <1>2 DEF RequestsSound, Served, Suspended, Addressed
  <2>2. op.write # 0 => op.kind = "write" /\ op.write \in Writes
    BY <1>1 DEF RequestsSound, Served, Addressed
  <2>3. \A i \in DOMAIN queue : op.write # 0 => queue[i].write # op.write
    BY <1>1 DEF RequestsSound, Apart
  <2>4. CASE s'.told = s.told /\ op.at # "wrote"
    <3>1. \A w \in Writes : w \in written \/ InInbox(w) => s.told[w] \in {"written", "uncertain"}
      BY <2>4 DEF WritesSound, Writing
    <3>2. QED
      BY <1>3, <1>5, <2>1, <2>4, <3>1 DEF WritesSound, Writing, InInbox
  <2>5. ASSUME NEW what \in {"written", "unwritten", "uncertain"},
               op.kind = "write" /\ s'.told = [s.told EXCEPT ![op.write] = what],
               what = "unwritten" => op.write \notin written /\ ~InInbox(op.write),
               what = "written" => op.write \in written
        PROVE  WritesSound'
    <3>1. op.write \in Writes /\ s.told \in [Writes -> {"written", "unwritten", "uncertain", None}] /\ op.write # 0
      BY <1>1, <2>5, SessionFields DEF RequestsSound, Served, Addressed, Writes
    <3>2. /\ \A i \in DOMAIN queue' : queue'[i].write # 0 => s'.told[queue'[i].write] = None
      <4>1. ASSUME NEW i \in DOMAIN queue, queue[i].write # 0
            PROVE  s'.told[queue[i].write] = None
        <5>1. queue[i].write \in Writes
          BY <4>1 DEF RequestsSound, Queued, Addressed
        <5>2. queue[i].write # op.write /\ s.told[queue[i].write] = None
          BY <2>3, <3>1, <4>1 DEF WritesSound
        <5>3. QED
          BY <2>5, <3>1, <5>1, <5>2
      <4>2. QED
        BY <1>5, <4>1
    <3>3. \A w \in Writes : w \in written \/ InInbox(w) => s'.told[w] \in {"written", "uncertain"}
      <4>1. ASSUME NEW w \in Writes, w \in written \/ InInbox(w)
            PROVE  s'.told[w] \in {"written", "uncertain"}
        <5>1. CASE w = op.write
          BY <2>5, <3>1, <4>1, <5>1
        <5>2. CASE w # op.write
          BY <2>5, <3>1, <4>1, <5>2 DEF WritesSound, Writing
        <5>3. QED
          BY <5>1, <5>2
      <4>2. QED
        BY <4>1
    <3>4. \A w \in Writes : s'.told[w] = "written" => w \in written
      <4>1. ASSUME NEW w \in Writes, s'.told[w] = "written"
            PROVE  w \in written
        <5>1. CASE w = op.write
          BY <2>5, <3>1, <4>1, <5>1
        <5>2. CASE w # op.write
          BY <2>5, <3>1, <4>1, <5>2 DEF WritesSound
        <5>3. QED
          BY <5>1, <5>2
      <4>2. QED
        BY <4>1
    <3>5. QED
      BY <1>3, <1>5, <2>1, <3>2, <3>3, <3>4 DEF WritesSound, Writing, InInbox
  <2>6. QED
    BY <2>4, <2>5 DEF Ended, Told
<1>24. QED
  BY <1>6, <1>10, <1>11, <1>12, <1>16, <1>17, <1>18, <1>19, <1>20, <1>21, <1>22, <1>23

-----------------------------------------------------------------------------
(* A message that is sent *)

\* The request goes on under another stage, and only that is different.
GoesOn ==
    /\ op # None /\ op' \in RequestOf(Simple \cup {None})
    /\ op'.kind = op.kind /\ op'.caller = op.caller /\ op'.write = op.write /\ op'.run = op.run
    /\ op'.then = op.then
    /\ op'.port \in Ports /\ (op.kind # "renew" => op'.port = op.port)
    /\ op'.at \in StagesOf(op.kind) /\ op'.at \notin {"start", "again"}
    /\ op.at # "wrote"
    /\ ~Waiting \/ daemon.answer # None
    /\ UNCHANGED <<calls, written>>

Sent ==
    /\ GoesOn
    /\ op'.pending = op.pending /\ op'.at # "released" /\ (op'.at = "cancelled" => op.pending)
    /\ op.kind = "start" => s.owned[op.port] = None
    /\ ~Granted
    /\ s' \in SessionState /\ s'.owned = s.owned /\ s'.lease = s.lease /\ s'.told = s.told
    /\ daemon' \in DaemonState /\ daemon'.holder = daemon.holder /\ daemon'.start = daemon.start
    /\ daemon'.runs = daemon.runs /\ daemon'.answer = None
    /\ \/ s'.conn = s.conn /\ daemon'.made = daemon.made /\ daemon'.conns = daemon.conns
       \/ /\ s.conn = 0 /\ s'.conn = daemon.made + 1 /\ daemon'.made = daemon.made + 1
          /\ daemon'.conns = daemon.conns \cup {daemon.made + 1}
    /\ \/ daemon'.inbox = daemon.inbox
       \/ \E m \in Messages :
            /\ daemon'.inbox = daemon.inbox \cup {m}
            /\ m.conn = s'.conn /\ m.kind = Sends(op'.at) /\ m.port = op'.port /\ m.write = op.write
            /\ m.lease = s.lease[op'.port]

\* A request that goes on is still one that the task may be at.
LEMMA GoesOnServed ==
    ASSUME RequestsSound, GoesOn, TypeOK, TypeOK', op.kind = "start" => op'.at # "again" /\ s'.owned[op.port] = None,
           op.kind = "start" /\ op'.at = "cancelled" => op'.pending,
           op.then # None => s'.owned[op.then.port] = None
    PROVE  RequestsSound'
<1>1. op # None /\ Served(op) /\ queue' = queue /\ caller' = caller
  BY DEF GoesOn, RequestsSound, calls
<1>2. op' # None
  BY <1>1 DEF GoesOn, TypeOK
<1>3. Addressed(op)' /\ Awaited(op)'
  BY <1>1 DEF GoesOn, Served, Addressed, Awaited
<1>4. op.then # None => Suspended(op.then)'
  BY <1>1 DEF GoesOn, Served, Suspended, Addressed, Awaited
<1>5. Served(op)'
  BY <1>1, <1>3, <1>4 DEF GoesOn, Served
<1>6. \A i \in DOMAIN queue : Queued(queue[i])' /\ Apart(op, queue[i])' /\ (op.then # None => Apart(op.then, queue[i])')
  BY <1>1 DEF GoesOn, RequestsSound, Queued, Addressed, Awaited, Apart
<1>7. QED
  BY <1>1, <1>5, <1>6 DEF RequestsSound, GoesOn

\* A message that is sent leaves everything in order.
LEMMA SentKeeps ==
    ASSUME Invariant, Sent
    PROVE  Invariant'
<1> USE DEF Invariant
<1>1. /\ op # None /\ op' # None /\ s' \in SessionState /\ Waiting' /\ s \in SessionState
      /\ queue' = queue /\ ended' = ended /\ written' = written /\ caller' = caller
  BY DEF Sent, GoesOn, calls, Waiting, TypeOK
<1>2. TypeOK'
  BY <1>1 DEF TypeOK, Sent, GoesOn
<1>3. s'.owned = s.owned /\ s'.lease = s.lease /\ s'.told = s.told /\ s.conn \in Nat /\ daemon.made \in Nat
  BY <1>1, SessionFields, DaemonFields DEF Sent
<1>4. /\ daemon'.holder = daemon.holder /\ daemon'.start = daemon.start
      /\ daemon'.runs = daemon.runs /\ daemon'.answer = None
  BY DEF Sent
<1>5. \/ s'.conn = s.conn /\ daemon'.made = daemon.made /\ daemon'.conns = daemon.conns
      \/ /\ s.conn = 0 /\ s'.conn = daemon.made + 1 /\ daemon'.made = daemon.made + 1
         /\ daemon'.conns = daemon.conns \cup {daemon.made + 1}
  BY DEF Sent
<1>6. PICK new \in SUBSET Messages :
        /\ daemon'.inbox = daemon.inbox \cup new
        /\ \A m \in new :
            /\ m.conn = s'.conn /\ m.kind = Sends(op'.at) /\ m.port = op'.port /\ m.write = op.write
            /\ m.lease = s.lease[op'.port]
        /\ \A m, n \in new : m = n
  <2>1. CASE daemon'.inbox = daemon.inbox
    <3>1. {} \in SUBSET Messages /\ daemon'.inbox = daemon.inbox \cup {}
      BY <2>1
    <3>2. QED
      BY <3>1
  <2>2. ASSUME NEW m \in Messages,
            daemon'.inbox = daemon.inbox \cup {m}
            /\ m.conn = s'.conn /\ m.kind = Sends(op'.at) /\ m.port = op'.port /\ m.write = op.write
            /\ m.lease = s.lease[op'.port]
        PROVE  \E n \in SUBSET Messages :
            /\ daemon'.inbox = daemon.inbox \cup n
            /\ \A x \in n :
                /\ x.conn = s'.conn /\ x.kind = Sends(op'.at) /\ x.port = op'.port /\ x.write = op.write
                /\ x.lease = s.lease[op'.port]
            /\ \A x, y \in n : x = y
    <3>1. {m} \in SUBSET Messages
      OBVIOUS
    <3>2. QED
      BY <2>2, <3>1
  <2>3. QED
    BY <2>1, <2>2 DEF Sent
<1>7. \A m \in daemon.inbox : m.conn # s'.conn
  <2>1. ASSUME NEW m \in daemon.inbox
        PROVE  m.conn # s'.conn
    <3>1. m.conn \in Nat /\ m.conn # 0 /\ m.conn <= daemon.made
      BY DaemonFields DEF Messages, Conns, ConnectionsKnown
    <3>2. m.conn # s.conn
      BY DEF InFlight, Sent, GoesOn
    <3>3. QED
      BY <1>3, <1>5, <3>1, <3>2
  <2>2. QED
    BY <2>1
<1>8. SessionSound'
  <2>1. s.conn # 0 => s'.conn # 0
    BY <1>3, <1>5
  <2>2. QED
    BY <1>1, <1>3, <2>1 DEF SessionSound
<1>9. ConnectionsKnown'
  <2>1. \A m \in new : m.conn = s'.conn
    BY <1>6
  <2>2. s'.conn <= daemon'.made /\ daemon.made <= daemon'.made /\ daemon'.made \in Nat
    BY <1>3, <1>5 DEF ConnectionsKnown
  <2>3. \A conn \in daemon'.conns : conn <= daemon'.made
    <3>1. \A conn \in daemon.conns : conn \in Nat /\ conn <= daemon.made
      BY DaemonFields DEF ConnectionsKnown, Conns
    <3>2. QED
      BY <1>3, <1>5, <3>1
  <2>4. \A m \in daemon.inbox : m.conn \in Nat /\ m.conn <= daemon.made
    BY DaemonFields DEF Messages, Conns, ConnectionsKnown
  <2>5. \A m \in daemon'.inbox : m.conn <= daemon'.made
    BY <1>3, <1>6, <2>1, <2>2, <2>4
  <2>6. \A p \in Ports :
            /\ daemon.holder[p] # None => daemon.holder[p].conn \in Nat /\ daemon.holder[p].conn <= daemon.made
            /\ daemon.start[p] # None => daemon.start[p].conn \in Nat /\ daemon.start[p].conn <= daemon.made
    BY DaemonFields DEF Holders, Starts, Conns, ConnectionsKnown
  <2>7. \A p \in Ports :
            /\ daemon'.holder[p] # None => daemon'.holder[p].conn <= daemon'.made
            /\ daemon'.start[p] # None => daemon'.start[p].conn <= daemon'.made
    BY <1>3, <1>4, <2>2, <2>6
  <2>8. QED
    BY <2>2, <2>3, <2>5, <2>7 DEF ConnectionsKnown
<1>10. RequestsSound'
  <2>1. op.kind = "start" => op'.at # "again" /\ s'.owned[op.port] = None
    BY <1>3 DEF Sent, GoesOn
  <2>2. op.kind = "start" /\ op'.at = "cancelled" => op'.pending
    BY DEF Sent
  <2>3. op.then # None => s'.owned[op.then.port] = None
    BY <1>1, <1>3 DEF RequestsSound, Served, Suspended
  <2>4. QED
    BY <1>2, <2>1, <2>2, <2>3, GoesOnServed DEF Sent
<1>11. InFlight'
  BY <1>1, <1>3, <1>4, <1>6, <1>7 DEF InFlight, Sent, GoesOn
<1>12. AnswerFits' /\ AbortedGone'
  BY <1>4 DEF AnswerFits, AbortedGone
<1>13. RunsFresh'
  BY <1>1, <1>4 DEF RunsFresh, Granted, Fresh
<1>14. GuardsKnown' /\ UsesExact'
  BY <1>1, <1>3 DEF GuardsKnown, UsesExact
<1>15. \A p \in Ports :
        /\ Mine(daemon.holder[p])' => Mine(daemon.holder[p])
        /\ Mine(daemon.start[p])' => Mine(daemon.start[p])
        /\ Mine(daemon.holder[p])' \/ Mine(daemon.start[p])' => s'.conn = s.conn
  <2>1. ASSUME NEW p \in Ports
        PROVE  /\ daemon.holder[p] # None => daemon.holder[p].conn \in Nat /\ daemon.holder[p].conn <= daemon.made
               /\ daemon.start[p] # None => daemon.start[p].conn \in Nat /\ daemon.start[p].conn <= daemon.made
    BY DaemonFields DEF Holders, Starts, Conns, ConnectionsKnown
  <2>2. QED
    BY <1>3, <1>4, <1>5, <2>1 DEF Mine
<1>16. StartsKnown'
  <2>1. ASSUME NEW p \in Ports, Mine(daemon.start[p])'
        PROVE  Starting(p)'
    <3>1. Starting(p)
      BY <1>15, <2>1 DEF StartsKnown
    <3>2. CASE op.kind = "start" /\ op.port = p
      <4>1. op'.at \in {"polled", "cancelled"}
        BY <3>2 DEF Sent, GoesOn, StagesOf
      <4>2. QED
        BY <1>1, <1>4, <3>2, <4>1 DEF Starting, Sent, GoesOn
    <3>3. CASE op.then # None /\ op.then.port = p
      BY <1>1, <3>3 DEF Starting, Sent, GoesOn
    <3>4. QED
      BY <3>1, <3>2, <3>3 DEF Starting
  <2>2. QED
    BY <1>4, <2>1 DEF StartsKnown
<1>17. HoldersKnown'
  <2>1. ASSUME NEW p \in Ports, Mine(daemon.holder[p])'
        PROVE  \/ s.owned[p] # None /\ s.lease[p] = daemon.holder[p].lease
               \/ /\ Mine(daemon.start[p]) /\ s'.conn = s.conn
                  /\ daemon.start[p].state = "granted" /\ daemon.start[p].run = daemon.holder[p].lease
    <3>1. Mine(daemon.holder[p]) /\ s'.conn = s.conn
      BY <1>15, <2>1
    <3>2. ~Releasing(p, daemon.holder[p].lease)
      BY <1>7, <3>1 DEF Releasing
    <3>3. QED
      BY <3>1, <3>2 DEF HoldersKnown, Sent
  <2>2. QED
    BY <1>3, <1>4, <2>1 DEF HoldersKnown, Mine
<1>18. WritesSound'
  <2>1. op'.write = op.write /\ op.at # "wrote" /\ op'.kind = op.kind
    BY DEF Sent, GoesOn
  <2>2. \A m \in new : m.kind = "write" => op'.at = "wrote" /\ op'.kind = "write" /\ m.write = op.write
    <3>0. op.kind \in {"start", "begin", "write", "end", "abort", "query", "renew"} /\ op'.at \in StagesOf(op.kind)
      BY <1>1, OpFields, RequestFields DEF Sent, GoesOn
    <3>1. Sends(op'.at) = "write" => op'.at = "wrote"
      BY <3>0 DEF Sends, Sent, GoesOn, StagesOf
    <3>2. op'.at = "wrote" => op.kind = "write"
      BY <3>0 DEF StagesOf
    <3>3. QED
      BY <1>6, <2>1, <3>1, <3>2
  <2>3. op.kind = "write" => op.write \in Writes /\ op.write # 0 /\ s.told[op.write] = None
    BY <1>1 DEF RequestsSound, Served, Addressed, Writes, WritesSound
  <2>4. op.kind = "write" => op.write \notin written /\ ~InInbox(op.write)
    BY <2>1, <2>3, NoneAssumption DEF WritesSound
  <2>5. \A w \in Writes : InInbox(w)' => InInbox(w) \/ (Writing(w)' /\ op'.at = "wrote")
    BY <1>1, <1>6, <2>1, <2>2 DEF InInbox, Writing
  <2>6. \A w \in Writes : w \in written \/ InInbox(w) => s.told[w] \in {"written", "uncertain"}
    BY <2>1 DEF WritesSound
  <2>7. \A w \in Writes : w \in written' \/ InInbox(w)' =>
            s'.told[w] \in {"written", "uncertain"} \/ (Writing(w)' /\ op'.at = "wrote")
    BY <1>1, <1>3, <2>5, <2>6
  <2>8. \A m \in daemon'.inbox : m.kind = "write" =>
            /\ m.write \in Writes /\ m.write \notin written
            /\ Writing(m.write)' /\ op'.at = "wrote" => m.conn = s'.conn
    <3>1. ASSUME NEW m \in daemon.inbox, m.kind = "write"
          PROVE  /\ m.write \in Writes /\ m.write \notin written
                 /\ ~(Writing(m.write)' /\ op'.at = "wrote")
      BY <2>1, <2>4, <3>1 DEF WritesSound, Writing, InInbox
    <3>2. ASSUME NEW m \in new, m.kind = "write"
          PROVE  m.write \in Writes /\ m.write \notin written /\ m.conn = s'.conn
      BY <1>6, <2>1, <2>2, <2>3, <2>4, <3>2
    <3>3. QED
      BY <1>6, <3>1, <3>2
  <2>9. \A m, n \in daemon'.inbox :
            m.kind = "write" /\ n.kind = "write" /\ m.write = n.write => m = n
    <3>1. \A m \in daemon.inbox, n \in new : m.kind = "write" /\ n.kind = "write" => m.write # n.write
      BY <2>1, <2>2, <2>4 DEF InInbox
    <3>2. QED
      BY <1>6, <3>1 DEF WritesSound
  <2>10. QED
    BY <1>1, <1>3, <1>4, <2>1, <2>7, <2>8, <2>9 DEF WritesSound
<1>19. QED
  BY <1>2, <1>8, <1>9, <1>10, <1>11, <1>12, <1>13, <1>14, <1>16, <1>17, <1>18

-----------------------------------------------------------------------------
(* A lease that is released *)

Released(lease) ==
    /\ GoesOn /\ op'.at = "released" /\ op.at # "aborted"
    /\ op.kind = "start" => ~Mine(daemon.start[op.port]) /\ s.owned[op.port] = None
    /\ Granted => op'.port = op.port /\ lease = daemon.answer.lease
    /\ ~Granted => lease = s.lease[op'.port]
    /\ s' \in SessionState /\ s'.conn = s.conn /\ s'.told = s.told
    /\ s'.owned = [s.owned EXCEPT ![op'.port] = None] /\ s'.lease = [s.lease EXCEPT ![op'.port] = None]
    /\ \E m \in Messages :
        /\ daemon' = [daemon EXCEPT !.answer = None, !.inbox = daemon.inbox \cup {m}]
        /\ m.conn = s.conn /\ m.kind = "release" /\ m.port = op'.port /\ m.lease = lease /\ m.write = op.write

\* A release leaves everything in order: the lease that the session gives up is the one
\* that the daemon is asked to take back.
LEMMA ReleasedKeeps ==
    ASSUME Invariant, NEW lease, Released(lease)
    PROVE  Invariant'
<1> USE DEF Invariant
<1>1. /\ op # None /\ op' # None /\ s' \in SessionState /\ Waiting' /\ s \in SessionState /\ op'.port \in Ports
      /\ queue' = queue /\ ended' = ended /\ written' = written /\ caller' = caller
  BY DEF Released, GoesOn, calls, Waiting, TypeOK
<1>2. PICK m \in Messages :
        /\ daemon' = [daemon EXCEPT !.answer = None, !.inbox = daemon.inbox \cup {m}]
        /\ m.conn = s.conn /\ m.kind = "release" /\ m.port = op'.port /\ m.lease = lease /\ m.write = op.write
  BY DEF Released
<1>3. /\ daemon'.holder = daemon.holder /\ daemon'.start = daemon.start /\ daemon'.made = daemon.made
      /\ daemon'.conns = daemon.conns /\ daemon'.inbox = daemon.inbox \cup {m}
      /\ daemon'.runs = daemon.runs /\ daemon'.answer = None /\ daemon' \in DaemonState
  BY <1>2 DEF TypeOK, DaemonState
<1>4. TypeOK'
  BY <1>1, <1>3 DEF TypeOK, Released, GoesOn
<1>5. /\ s'.conn = s.conn /\ s'.told = s.told
      /\ s'.owned[op'.port] = None /\ s'.lease[op'.port] = None
      /\ \A p \in Ports : p # op'.port => s'.owned[p] = s.owned[p] /\ s'.lease[p] = s.lease[p]
  BY <1>1, SessionFields DEF Released
<1>6. \A n \in daemon.inbox : n.conn # s.conn
  BY DEF InFlight, Released, GoesOn
<1>7. SessionSound'
  BY <1>1, <1>5 DEF SessionSound
<1>8. ConnectionsKnown'
  BY <1>2, <1>3, <1>5 DEF ConnectionsKnown
<1>9. RequestsSound'
  <2>1. op.kind = "start" => op'.at # "again" /\ s'.owned[op.port] = None
    BY <1>1, <1>5 DEF Released, GoesOn
  <2>2. op.kind = "start" /\ op'.at = "cancelled" => op'.pending
    BY DEF Released
  <2>3. op.then # None => s'.owned[op.then.port] = None
    BY <1>1, <1>5 DEF RequestsSound, Served, Suspended, Addressed
  <2>4. QED
    BY <1>4, <2>1, <2>2, <2>3, GoesOnServed DEF Released
<1>10. InFlight'
  BY <1>1, <1>2, <1>3, <1>5, <1>6 DEF InFlight, Released, GoesOn, Sends
<1>11. AnswerFits' /\ AbortedGone'
  BY <1>3 DEF AnswerFits, AbortedGone
<1>12. RunsFresh'
  BY <1>1, <1>3 DEF RunsFresh, Granted, Fresh
<1>13. GuardsKnown' /\ UsesExact'
  BY <1>1, <1>5 DEF GuardsKnown, UsesExact
<1>14. StartsKnown'
  <2>1. ASSUME NEW p \in Ports, Mine(daemon.start[p])'
        PROVE  Starting(p)'
    <3>1. Mine(daemon.start[p])
      BY <1>3, <1>5, <2>1 DEF Mine
    <3>2. op.then # None /\ op.then.port = p
      BY <3>1 DEF StartsKnown, Starting, Released
    <3>3. QED
      BY <1>1, <3>2 DEF Starting, Released, GoesOn
  <2>2. QED
    BY <1>3, <2>1 DEF StartsKnown
<1>15. HoldersKnown'
  <2>1. ASSUME NEW p \in Ports, Mine(daemon.holder[p])'
        PROVE  \/ s'.owned[p] # None /\ s'.lease[p] = daemon.holder[p].lease
               \/ /\ Mine(daemon.start[p])
                  /\ daemon.start[p].state = "granted" /\ daemon.start[p].run = daemon.holder[p].lease
               \/ m.port = p /\ m.lease = daemon.holder[p].lease
    <3>1. Mine(daemon.holder[p])
      BY <1>3, <1>5, <2>1 DEF Mine
    <3>2. ~Releasing(p, daemon.holder[p].lease)
      BY <1>6 DEF Releasing
    <3>3. CASE s.owned[p] # None /\ s.lease[p] = daemon.holder[p].lease
      <4>1. CASE p = op'.port
        <5>1. Granted => s.owned[op'.port] = None
          BY <1>1, KindOfStage DEF Released, Granted, RequestsSound, Served, GoesOn
        <5>2. QED
          BY <1>2, <3>3, <4>1, <5>1 DEF Released
      <4>2. QED
        BY <1>5, <3>3, <4>1
    <3>4. CASE Granted /\ op.port = p /\ daemon.answer.lease = daemon.holder[p].lease
      BY <1>2, <3>4 DEF Released
    <3>5. QED
      BY <3>1, <3>2, <3>3, <3>4 DEF HoldersKnown
  <2>2. QED
    BY <1>2, <1>3, <1>5, <2>1 DEF HoldersKnown, Mine, Releasing
<1>16. WritesSound'
  <2>1. op'.write = op.write /\ op.at # "wrote" /\ op'.kind = op.kind /\ op'.at # "wrote"
    BY DEF Released, GoesOn
  <2>2. \A w \in Writes : InInbox(w)' => InInbox(w)
    BY <1>2, <1>3 DEF InInbox
  <2>3. \A w \in Writes : w \in written \/ InInbox(w) => s.told[w] \in {"written", "uncertain"}
    BY <2>1 DEF WritesSound
  <2>4. \A n \in daemon'.inbox : n.kind = "write" => n \in daemon.inbox
    BY <1>2, <1>3
  <2>5. QED
    BY <1>1, <1>3, <1>5, <2>1, <2>2, <2>3, <2>4 DEF WritesSound, Writing
<1>17. QED
  BY <1>4, <1>7, <1>8, <1>9, <1>10, <1>11, <1>12, <1>13, <1>14, <1>15, <1>16

-----------------------------------------------------------------------------
(* Counting uses *)

GuardsOf(guard, run) == {c \in Callers : guard[c] = run}
DropsOf(drops, run) == {i \in DOMAIN drops : drops[i] = run}

\* Both counts are numbers.
LEMMA CountsFinite ==
    ASSUME NEW guard, NEW drops \in Seq(Runs), NEW run
    PROVE  /\ IsFiniteSet(GuardsOf(guard, run)) /\ Cardinality(GuardsOf(guard, run)) \in Nat
           /\ IsFiniteSet(DropsOf(drops, run)) /\ Cardinality(DropsOf(drops, run)) \in Nat
<1>1. IsFiniteSet(DOMAIN drops)
  <2>1. DOMAIN drops = 1..Len(drops) /\ Len(drops) \in Int
    OBVIOUS
  <2>2. QED
    BY <2>1, FS_Interval
<1>2. GuardsOf(guard, run) \in SUBSET Callers /\ DropsOf(drops, run) \in SUBSET (DOMAIN drops)
  BY DEF GuardsOf, DropsOf
<1>3. QED
  BY <1>1, <1>2, BoundsAssumption, FS_Subset, FS_CardinalityType

\* One guard more, for a caller that had none.
LEMMA GuardTaken ==
    ASSUME NEW guard, NEW after, NEW c \in Callers, NEW run \in Runs,
           guard[c] = None, after[c] = run, \A d \in Callers : d # c => after[d] = guard[d]
    PROVE  /\ Cardinality(GuardsOf(after, run)) = Cardinality(GuardsOf(guard, run)) + 1
           /\ \A other \in Runs : other # run => GuardsOf(after, other) = GuardsOf(guard, other)
<1>1. GuardsOf(after, run) = GuardsOf(guard, run) \cup {c} /\ c \notin GuardsOf(guard, run)
  BY NoneAssumption DEF GuardsOf
<1>2. IsFiniteSet(GuardsOf(guard, run))
  <2>1. GuardsOf(guard, run) \in SUBSET Callers
    BY DEF GuardsOf
  <2>2. QED
    BY <2>1, BoundsAssumption, FS_Subset
<1>3. Cardinality(GuardsOf(after, run)) = Cardinality(GuardsOf(guard, run)) + 1
  <2>1. PICK before : before = GuardsOf(guard, run)
    OBVIOUS
  <2>2. IsFiniteSet(before) /\ c \notin before
    BY <1>1, <1>2, <2>1
  <2>3. Cardinality(before \cup {c}) = Cardinality(before) + 1
    BY <2>2, FS_AddElement
  <2>4. QED
    BY <1>1, <2>1, <2>3
<1>4. \A other \in Runs : other # run => GuardsOf(after, other) = GuardsOf(guard, other)
  BY NoneAssumption DEF GuardsOf
<1>5. QED
  BY <1>3, <1>4

\* One dropped guard more.
LEMMA DropAdded ==
    ASSUME NEW drops \in Seq(Runs), NEW run \in Runs, NEW after, after = Append(drops, run)
    PROVE  /\ Cardinality(DropsOf(after, run)) = Cardinality(DropsOf(drops, run)) + 1
           /\ \A other \in Runs : other # run => DropsOf(after, other) = DropsOf(drops, other)
<1>1. /\ DOMAIN after = DOMAIN drops \cup {Len(drops) + 1} /\ Len(drops) + 1 \notin DOMAIN drops
      /\ \A i \in DOMAIN drops : after[i] = drops[i]
      /\ after[Len(drops) + 1] = run
  OBVIOUS
<1>2. DropsOf(after, run) = DropsOf(drops, run) \cup {Len(drops) + 1} /\ Len(drops) + 1 \notin DropsOf(drops, run)
  BY <1>1 DEF DropsOf
<1>3. Cardinality(DropsOf(after, run)) = Cardinality(DropsOf(drops, run)) + 1
  BY <1>2, CountsFinite, FS_AddElement
<1>4. \A other \in Runs : other # run => DropsOf(after, other) = DropsOf(drops, other)
  BY <1>1 DEF DropsOf
<1>5. QED
  BY <1>3, <1>4

\* A function that tells the elements of its domain apart is an injection.
LEMMA ApartIsInjection ==
    ASSUME NEW S, NEW T, NEW g \in [S -> T], \A x \in S : \A y \in S : g[x] = g[y] => x = y
    PROVE  g \in Injection(S, T)
BY DEF Injection, IsInjective

\* The first dropped guard is counted off.
LEMMA DropTaken ==
    ASSUME NEW drops \in Seq(Runs), drops # <<>>, NEW run
    PROVE  /\ Head(drops) = run => Cardinality(DropsOf(drops, run)) = Cardinality(DropsOf(Tail(drops), run)) + 1
           /\ Head(drops) # run => Cardinality(DropsOf(drops, run)) = Cardinality(DropsOf(Tail(drops), run))
<1> DEFINE rest == DropsOf(drops, run) \ {1}
           f == [i \in DropsOf(Tail(drops), run) |-> i + 1]
<1>1. /\ Tail(drops) \in Seq(Runs) /\ DOMAIN drops = 1..Len(drops) /\ DOMAIN Tail(drops) = 1..(Len(drops) - 1)
      /\ Len(drops) \in Nat /\ Len(drops) >= 1
      /\ \A i \in DOMAIN Tail(drops) : Tail(drops)[i] = drops[i + 1]
      /\ Head(drops) = drops[1]
  OBVIOUS
<1>2. f \in Bijection(DropsOf(Tail(drops), run), rest)
  <2>1. \A i \in DropsOf(Tail(drops), run) : i \in Nat /\ i + 1 \in rest
    BY <1>1 DEF DropsOf
  <2>2. f \in [DropsOf(Tail(drops), run) -> rest]
    BY <2>1
  <2>3. \A i \in DropsOf(Tail(drops), run) : \A j \in DropsOf(Tail(drops), run) : f[i] = f[j] => i = j
    BY <2>1
  <2>4. \A j \in rest : \E i \in DropsOf(Tail(drops), run) : f[i] = j
    <3>1. ASSUME NEW j \in rest
          PROVE  \E i \in DropsOf(Tail(drops), run) : f[i] = j
      <4>1. j \in 2..Len(drops) /\ drops[j] = run
        BY <1>1 DEF DropsOf
      <4>2. j - 1 \in DOMAIN Tail(drops) /\ (j - 1) + 1 = j
        BY <1>1, <4>1
      <4>3. j - 1 \in DropsOf(Tail(drops), run)
        BY <1>1, <4>1, <4>2 DEF DropsOf
      <4>4. QED
        BY <4>2, <4>3
    <3>2. QED
      BY <3>1
  <2> HIDE DEF f, rest
  <2>5. f \in Injection(DropsOf(Tail(drops), run), rest)
    BY <2>2, <2>3, ApartIsInjection
  <2>6. f \in Surjection(DropsOf(Tail(drops), run), rest)
    BY <2>2, <2>4 DEF Surjection
  <2>7. QED
    BY <2>5, <2>6 DEF Bijection
<1>3. Cardinality(rest) = Cardinality(DropsOf(Tail(drops), run))
  <2>1. ExistsBijection(DropsOf(Tail(drops), run), rest)
    BY <1>2 DEF ExistsBijection
  <2>2. QED
    BY <1>1, <2>1, CountsFinite, FS_Bijection
<1>4. IsFiniteSet(DropsOf(drops, run)) /\ Cardinality(DropsOf(drops, run)) \in Nat
  BY CountsFinite
<1>5. CASE Head(drops) = run
  <2>1. 1 \in DropsOf(drops, run)
    BY <1>1, <1>5 DEF DropsOf
  <2>2. Cardinality(rest) = Cardinality(DropsOf(drops, run)) - 1
    BY <1>4, <2>1, FS_RemoveElement
  <2>3. QED
    BY <1>3, <1>4, <1>5, <2>2
<1>6. CASE Head(drops) # run
  <2>1. 1 \notin DropsOf(drops, run)
    BY <1>1, <1>6 DEF DropsOf
  <2>2. rest = DropsOf(drops, run)
    BY <2>1
  <2>3. QED
    BY <1>3, <1>6, <2>2
<1>7. QED
  BY <1>5, <1>6

-----------------------------------------------------------------------------
(* Steps that disturb neither a Run nor the daemon *)

SameRuns ==
    /\ s' \in SessionState /\ s'.conn = s.conn /\ s'.lease = s.lease /\ s'.told = s.told
    /\ \A p \in Ports : IF s.owned[p] = None THEN s'.owned[p] = None
                        ELSE s'.owned[p] # None /\ s'.owned[p].run = s.owned[p].run

\* What the task waits for, and the Run start under way, stay.
SameWait ==
    /\ Waiting <=> Waiting'
    /\ Waiting => op'.at = op.at /\ op'.port = op.port /\ op'.write = op.write /\ op'.kind = op.kind
    /\ \A p \in Ports : Starting(p) => Starting(p)'

\* Only requests, guards and counts of uses may have changed.
LEMMA Undisturbed ==
    ASSUME Invariant, SameRuns, SameWait, daemon' = daemon, written' = written, caller'.handles = caller.handles
    PROVE  /\ SessionSound' /\ ConnectionsKnown' /\ InFlight' /\ AnswerFits' /\ RunsFresh'
           /\ StartsKnown' /\ HoldersKnown' /\ AbortedGone'
<1> USE DEF Invariant
<1>1. SessionSound' /\ ConnectionsKnown'
  BY DEF SessionSound, ConnectionsKnown, SameRuns
<1>2. Waiting => op # None /\ op' # None
  BY DEF SameWait, Waiting
<1>3. InFlight' /\ AnswerFits'
  BY <1>2 DEF SameRuns, SameWait, InFlight, AnswerFits
<1>4. (Granted' <=> Granted) /\ (Granted => Waiting)
  BY <1>2 DEF SameWait, Granted, Waiting
<1>5. RunsFresh'
  BY <1>4 DEF SameWait, RunsFresh, Fresh
<1>6. \A p \in Ports : Mine(daemon.start[p])' = Mine(daemon.start[p]) /\ Mine(daemon.holder[p])' = Mine(daemon.holder[p])
  BY DEF SameRuns, Mine
<1>7. StartsKnown'
  BY <1>6 DEF StartsKnown, SameWait
<1>8. HoldersKnown'
  <2>1. \A p \in Ports : Releasing(p, daemon.holder[p].lease)' = Releasing(p, daemon.holder[p].lease)
    BY DEF SameRuns, Releasing
  <2>2. QED
    BY <1>4, <1>6, <2>1 DEF HoldersKnown, SameRuns, SameWait
<1>9. AbortedGone'
  <2>1. ASSUME op' # None, op'.at = "aborted", daemon.answer # None
        PROVE  ~(daemon.holder[op'.port] # None /\ daemon.holder[op'.port].conn = s.conn)
    <3>1. Waiting' /\ Waiting
      BY <2>1 DEF Waiting, SameWait
    <3>2. op.at = "aborted" /\ op.port = op'.port /\ op # None
      BY <1>2, <2>1, <3>1 DEF SameWait
    <3>3. QED
      BY <2>1, <3>2 DEF AbortedGone, Mine
  <2>2. QED
    BY <2>1 DEF AbortedGone, Mine, SameRuns
<1>10. QED
  BY <1>1, <1>3, <1>5, <1>7, <1>8, <1>9

\* The writes are as they were, and every write that is asked for was not told of.
LEMMA WritesUndisturbed ==
    ASSUME Invariant, SameRuns, SameWait, daemon' = daemon, written' = written,
           \A i \in DOMAIN queue' : queue'[i].write # 0 => s.told[queue'[i].write] = None,
           op' # None => (op'.write # 0 => s.told[op'.write] = None)
    PROVE  WritesSound'
<1> USE DEF Invariant
<1>1. s'.told = s.told /\ s'.conn = s.conn
  BY DEF SameRuns
<1>2. \A w \in Writes : Writing(w) /\ op.at = "wrote" <=> Writing(w)' /\ op'.at = "wrote"
  BY DEF Writing, SameWait, Waiting
<1>3. \A w \in Writes : InInbox(w)' = InInbox(w)
  BY DEF InInbox
<1>4. op' # None /\ op'.at = "wrote" => op # None /\ op.at = "wrote" /\ op.write = op'.write
  BY DEF SameWait, Waiting
<1>5. \A w \in Writes : w \in written \/ InInbox(w) =>
        s.told[w] \in {"written", "uncertain"} \/ (Writing(w)' /\ op'.at = "wrote")
  BY <1>2 DEF WritesSound
<1>6. \A m \in daemon.inbox : m.kind = "write" =>
        /\ m.write \in Writes /\ m.write \notin written
        /\ Writing(m.write)' /\ op'.at = "wrote" => m.conn = s.conn
  BY <1>2 DEF WritesSound
<1>7. op' # None /\ op'.at = "wrote" /\ daemon.answer # None =>
        /\ daemon.answer.result = "written" => op'.write \in written
        /\ daemon.answer.result \in {"boundary", "run", "control"} => op'.write \notin written
  BY <1>4 DEF WritesSound
<1>8. /\ \A w \in Writes : s.told[w] = "written" => w \in written
      /\ \A m, n \in daemon.inbox : m.kind = "write" /\ n.kind = "write" /\ m.write = n.write => m = n
  BY DEF WritesSound
<1>9. QED
  BY <1>1, <1>3, <1>5, <1>6, <1>7, <1>8 DEF WritesSound

\* An unused Run grows idle.
LEMMA GrowIdleKeeps ==
    ASSUME Invariant, NEW port \in Ports, GrowIdle(port)
    PROVE  Invariant'
<1> USE DEF Invariant
<1>1. /\ op' = op /\ queue' = queue /\ ended' = ended /\ caller' = caller /\ daemon' = daemon /\ written' = written
  BY DEF GrowIdle, calls
<1>2. s \in SessionState /\ s.owned[port] # None /\ s' = [s EXCEPT !.owned[port].idle = TRUE]
  BY DEF GrowIdle, TypeOK
<1>3. s.owned[port] \in OwnedRuns
  BY <1>2, SessionFields
<1>4. PICK grown : grown = [s.owned[port] EXCEPT !.idle = TRUE]
  OBVIOUS
<1>4a. grown \in OwnedRuns /\ grown.run = s.owned[port].run /\ grown.uses = s.owned[port].uses
  BY <1>3, <1>4 DEF OwnedRuns
<1>5. s' \in SessionState /\ s'.conn = s.conn /\ s'.lease = s.lease /\ s'.told = s.told
      /\ s'.owned = [s.owned EXCEPT ![port] = grown]
  BY <1>2, <1>3, <1>4, <1>4a DEF SessionState
<1>6. grown # None
  BY <1>4a, NoneAssumption
<1>7. SameRuns
  <2>1. s'.owned[port] = grown /\ \A p \in Ports : p # port => s'.owned[p] = s.owned[p]
    BY <1>2, <1>5, SessionFields
  <2>2. QED
    BY <1>2, <1>4a, <1>5, <1>6, <2>1 DEF SameRuns
<1>8. SameWait
  BY <1>1 DEF SameWait, Starting, Waiting
<1>9. TypeOK'
  BY <1>1, <1>5 DEF TypeOK
<1>10. RequestsSound'
  <2>1. \A p \in Ports : s.owned[p] = None => s'.owned[p] = None
    BY <1>7 DEF SameRuns
  <2>2. op # None => Served(op)'
    <3>1. op # None /\ op.then # None => Suspended(op.then)'
      BY <1>1, <2>1 DEF RequestsSound, Served, Suspended, Addressed, Awaited
    <3>2. op # None /\ op.kind = "start" => op.port \in Ports
      BY DEF RequestsSound, Served, Addressed
    <3>3. QED
      BY <1>1, <2>1, <3>1, <3>2 DEF RequestsSound, Served, Addressed, Awaited, Waiting
  <2>3. \A i \in DOMAIN queue : Queued(queue[i])'
    BY <1>1 DEF RequestsSound, Queued, Addressed, Awaited
  <2>4. QED
    BY <1>1, <2>2, <2>3 DEF RequestsSound
<1>11. GuardsKnown' /\ UsesExact'
  <2>1. \A p \in Ports : s'.owned[p] # None => s.owned[p] # None /\ s'.owned[p].run = s.owned[p].run
                                             /\ s'.owned[p].uses = s.owned[p].uses
    BY <1>2, <1>4a, <1>5, <1>7, SessionFields DEF SameRuns
  <2>2. QED
    BY <1>1, <2>1 DEF GuardsKnown, UsesExact
<1>12. WritesSound'
  BY <1>1, <1>7, <1>8, WritesUndisturbed DEF WritesSound
<1>13. QED
  BY <1>1, <1>7, <1>8, <1>9, <1>10, <1>11, <1>12, Undisturbed

-----------------------------------------------------------------------------
(* The callers *)

\* A request that is new in the queue is in order with the others.
LEMMA AskKeeps ==
    ASSUME Invariant, NEW c \in Callers, NEW kind \in {"start", "begin", "write", "end", "abort", "query"},
           NEW port \in Ports, NEW run \in Runs \cup {None}, NEW w \in {0} \cup Writes, Ask(c, kind, port, run, w),
           kind # "start" => run \in caller.handles /\ port = run.port,
           kind \in {"start", "begin"} => caller.guard[c] = None,
           IF kind = "write"
           THEN /\ w \in Writes /\ s.told[w] = None /\ (op # None => op.write # w)
                /\ \A i \in DOMAIN queue : queue[i].write # w
           ELSE w = 0
    PROVE  Invariant'
<1> USE DEF Invariant
<1>1. s' = s /\ op' = op /\ ended' = ended /\ daemon' = daemon /\ written' = written /\ caller.waits[c] = None
  BY DEF Ask
<1>2. PICK r : r = Request(kind, c, port, run, w)
  OBVIOUS
<1>3. /\ r \in Simple /\ r.kind = kind /\ r.caller = c /\ r.port = port /\ r.run = run /\ r.write = w /\ r.at = "start"
      /\ r.pending = FALSE /\ r.then = None
  BY <1>2 DEF Request, Simple, RequestOf
<1>4. /\ queue' = Append(queue, r) /\ queue' \in Seq(Simple) /\ DOMAIN queue' = DOMAIN queue \cup {Len(queue) + 1}
      /\ \A i \in DOMAIN queue : queue'[i] = queue[i] /\ queue[i] \in Simple /\ i # Len(queue) + 1
      /\ queue'[Len(queue) + 1] = r
  <2>1. queue \in Seq(Simple)
    BY DEF TypeOK
  <2>2. queue' = Append(queue, r)
    BY <1>2 DEF Ask
  <2>3. QED
    BY <1>3, <2>1, <2>2
<1>5. /\ caller' \in CallerState /\ caller'.guard = caller.guard /\ caller'.handles = caller.handles
      /\ caller'.waits[c] = kind /\ \A d \in Callers : d # c => caller'.waits[d] = caller.waits[d]
  <2>1. caller \in CallerState /\ caller.calls < MaxCalls
    BY DEF TypeOK, Ask
  <2>2. caller.calls + 1 \in 0..MaxCalls
    BY <2>1, BoundsAssumption DEF CallerState
  <2>3. QED
    BY <2>1, <2>2 DEF Ask, CallerState
<1>6. TypeOK'
  BY <1>1, <1>4, <1>5 DEF TypeOK
<1>7. SameRuns /\ SameWait
  BY <1>1 DEF SameRuns, SameWait, TypeOK, Starting, Waiting
<1>8. ASSUME NEW q, Awaited(q), q.kind \in {"start", "begin", "write", "end", "abort", "query"} \/ q.caller = None
      PROVE  q.caller # c
  <2>1. c # None
    BY NoneAssumption
  <2>2. CASE q.caller = c
    <3>1. q.kind = None
      BY <1>1, <1>8, <2>1, <2>2 DEF Awaited
    <3>2. QED
      BY <1>8, <2>1, <2>2, <3>1, NoneAssumption
  <2>3. QED
    BY <2>2
<1>9. \A i \in DOMAIN queue : queue[i].caller # c
  <2>1. ASSUME NEW i \in DOMAIN queue
        PROVE  queue[i].caller # c
    <3>1. Queued(queue[i]) /\ queue[i] \in Simple
      BY <1>4 DEF RequestsSound
    <3>2. queue[i].kind \in {"start", "begin", "write", "end", "abort", "query"} /\ Awaited(queue[i])
      BY <3>1, RequestFields DEF Queued, Simple
    <3>3. QED
      BY <1>8, <3>2
  <2>2. QED
    BY <2>1
<1>10. op # None => /\ op.caller # c
                    /\ op.then # None => op.then.caller # c
  <2>1. ASSUME op # None
        PROVE  op.caller # c
    <3>1. Addressed(op) /\ Awaited(op) /\ op.kind \in {"start", "begin", "write", "end", "abort", "query", "renew"}
      BY <2>1, OpFields, RequestFields DEF RequestsSound, Served
    <3>2. QED
      BY <1>8, <3>1 DEF Addressed
  <2>2. ASSUME op # None, op.then # None
        PROVE  op.then.caller # c
    BY <1>8, <2>2 DEF RequestsSound, Served, Suspended
  <2>3. QED
    BY <2>1, <2>2
<1>11. RequestsSound'
  <2>1. Queued(r)'
    BY <1>3, <1>5 DEF Queued, Addressed, Awaited
  <2>2. \A i \in DOMAIN queue : Queued(queue[i])'
    <3>1. ASSUME NEW i \in DOMAIN queue
          PROVE  Queued(queue[i])'
      <4>1. Queued(queue[i]) /\ queue[i].caller \in Callers \cup {None} /\ queue[i].caller # c
        BY <1>4, <1>9, RequestFields DEF RequestsSound, Simple
      <4>2. QED
        BY <1>4, <1>5, <4>1 DEF Queued, Addressed, Awaited
    <3>2. QED
      BY <3>1
  <2>3. \A i \in DOMAIN queue : Apart(r, queue[i]) /\ Apart(queue[i], r)
    <3>1. ASSUME NEW i \in DOMAIN queue
          PROVE  w # 0 => queue[i].write # w
      BY <3>1
    <3>2. QED
      BY <1>3, <1>9, <3>1 DEF Apart
  <2>4. \A i, j \in DOMAIN queue' : i # j => Apart(queue'[i], queue'[j])
    BY <1>4, <2>3 DEF RequestsSound
  <2>5. op # None => Served(op)'
    <3>1. ASSUME op # None
          PROVE  Addressed(op)' /\ Awaited(op)'
      BY <1>1, <1>5, <1>10, <3>1, OpFields DEF RequestsSound, Served, Addressed, Awaited
    <3>2. ASSUME op # None, op.then # None
          PROVE  Suspended(op.then)'
      BY <1>1, <1>5, <1>10, <3>2, OpFields DEF RequestsSound, Served, Suspended, Addressed, Awaited
    <3>3. QED
      BY <1>1, <3>1, <3>2 DEF RequestsSound, Served, Waiting
  <2>6. op # None => Apart(op, r) /\ (op.then # None => Apart(op.then, r))
    <3>1. op # None /\ op.write # 0 => op.write # w
      <4>1. CASE kind = "write"
        BY <4>1
      <4>2. CASE kind # "write"
        BY <4>2
      <4>3. QED
        BY <4>1, <4>2
    <3>2. op # None /\ op.then # None => op.then.write = 0
      BY DEF RequestsSound, Served, Suspended, Addressed
    <3>3. QED
      BY <1>3, <1>10, <3>1, <3>2 DEF Apart
  <2>7. \A i \in DOMAIN queue' : Queued(queue[i])'
    BY <1>4, <2>1, <2>2
  <2>8. QED
    BY <1>1, <1>4, <2>4, <2>5, <2>6, <2>7 DEF RequestsSound
<1>12. GuardsKnown' /\ UsesExact'
  BY <1>1, <1>5 DEF GuardsKnown, UsesExact
<1>13. WritesSound'
  <2>1. w # 0 => s.told[w] = None
    OBVIOUS
  <2>2. \A i \in DOMAIN queue' : queue'[i].write # 0 => s.told[queue'[i].write] = None
    BY <1>3, <1>4, <2>1 DEF WritesSound
  <2>3. QED
    BY <1>1, <1>7, <2>2, WritesUndisturbed DEF WritesSound
<1>14. QED
  BY <1>1, <1>5, <1>6, <1>7, <1>11, <1>12, <1>13, Undisturbed

\* A caller is gone, and its guard with it.
LEMMA DropKeeps ==
    ASSUME Invariant, NEW c \in Callers, Drop(c)
    PROVE  Invariant'
<1> USE DEF Invariant
<1>1. s' = s /\ daemon' = daemon /\ written' = written
  BY DEF Drop
<1>2. /\ caller' \in CallerState /\ caller'.handles = caller.handles
      /\ caller'.guard = [caller.guard EXCEPT ![c] = None] /\ caller'.waits = [caller.waits EXCEPT ![c] = None]
      /\ caller.guard \in [Callers -> Runs \cup {None}]
  BY DEF Drop, TypeOK, CallerState
<1>3. \A d \in Callers : /\ caller'.guard[d] = IF d = c THEN None ELSE caller.guard[d]
                         /\ d # c => caller'.waits[d] = caller.waits[d]
  BY <1>2 DEF CallerState
<1>4. ASSUME NEW r \in RequestOf(Simple \cup {None}), NEW g, g = Gone(r, c)
      PROVE  /\ g \in RequestOf(Simple \cup {None}) /\ g.kind = r.kind /\ g.port = r.port /\ g.run = r.run
             /\ g.write = r.write /\ g.at = r.at /\ g.pending = r.pending /\ g.then = r.then
             /\ g.caller = (IF r.caller = c THEN None ELSE r.caller)
  BY <1>4, NoneAssumption DEF Gone, RequestOf
<1>5. ASSUME NEW r \in Simple, NEW g, g = Gone(r, c)
      PROVE  /\ g \in Simple /\ g.kind = r.kind /\ g.port = r.port /\ g.run = r.run
             /\ g.write = r.write /\ g.at = r.at /\ g.pending = r.pending /\ g.then = r.then
             /\ g.caller = (IF r.caller = c THEN None ELSE r.caller)
  <2>1. r # None
    BY SimpleIsRequest, NoneAssumption
  <2>2. QED
    BY <1>5, <2>1 DEF Gone, Simple, RequestOf
<1>6. DOMAIN queue' = DOMAIN queue /\ \A i \in DOMAIN queue : queue'[i] = Gone(queue[i], c)
  BY DEF Drop
<1>7. queue' \in Seq(Simple)
  <2>1. queue \in Seq(Simple) /\ queue' = [i \in 1..Len(queue) |-> Gone(queue[i], c)]
    BY DEF Drop, TypeOK
  <2>2. \A i \in 1..Len(queue) : Gone(queue[i], c) \in Simple
    BY <1>5, <2>1
  <2>3. QED
    BY <2>1, <2>2
<1>8. \A i \in DOMAIN queue :
        /\ queue[i] \in Simple /\ queue'[i].kind = queue[i].kind /\ queue'[i].port = queue[i].port
        /\ queue'[i].run = queue[i].run /\ queue'[i].write = queue[i].write /\ queue'[i].at = queue[i].at
        /\ queue'[i].pending = queue[i].pending /\ queue'[i].then = queue[i].then
        /\ queue'[i].caller = (IF queue[i].caller = c THEN None ELSE queue[i].caller)
        /\ queue[i].caller \in Callers \cup {None}
  <2>1. ASSUME NEW i \in DOMAIN queue
        PROVE  queue[i] \in Simple
    BY DEF TypeOK
  <2>2. ASSUME NEW i \in DOMAIN queue
        PROVE  queue[i].caller \in Callers \cup {None}
    BY <2>1, RequestFields DEF Simple
  <2>3. QED
    BY <1>5, <1>6, <2>1, <2>2
<1>9. op = None => op' = None
  BY DEF Drop
<1>10. ASSUME op # None
       PROVE  /\ op' \in RequestOf(Simple \cup {None}) /\ op' # None
              /\ op'.kind = op.kind /\ op'.port = op.port /\ op'.run = op.run
              /\ op'.write = op.write /\ op'.at = op.at /\ op'.pending = op.pending
              /\ op'.caller = (IF op.caller = c THEN None ELSE op.caller)
              /\ op.then = None => op'.then = None
              /\ op.then # None =>
                  /\ op'.then # None
                  /\ op'.then.kind = op.then.kind /\ op'.then.port = op.then.port /\ op'.then.run = op.then.run
                  /\ op'.then.write = op.then.write /\ op'.then.at = op.then.at
                  /\ op'.then.pending = op.then.pending /\ op'.then.then = op.then.then
                  /\ op'.then.caller = (IF op.then.caller = c THEN None ELSE op.then.caller)
  <2>1. op \in RequestOf(Simple \cup {None}) /\ op.then \in Simple \cup {None}
    BY <1>10, OpFields
  <2>2. PICK g, t : g = Gone(op, c) /\ t = Gone(op.then, c)
    OBVIOUS
  <2>3. op' = [g EXCEPT !.then = t]
    BY <1>10, <2>2 DEF Drop
  <2>4. t \in Simple \cup {None} /\ (op.then = None => t = None)
    <3>1. CASE op.then = None
      BY <2>2, <3>1 DEF Gone
    <3>2. CASE op.then \in Simple
      BY <1>5, <2>2, <3>2, SimpleIsRequest, NoneAssumption
    <3>3. QED
      BY <2>1, <3>1, <3>2
  <2>5. g \in RequestOf(Simple \cup {None})
    BY <1>4, <2>1, <2>2
  <2>6. /\ op' \in RequestOf(Simple \cup {None}) /\ op'.then = t /\ op'.kind = g.kind /\ op'.port = g.port
        /\ op'.run = g.run /\ op'.write = g.write /\ op'.at = g.at /\ op'.pending = g.pending /\ op'.caller = g.caller
    BY <2>3, <2>4, <2>5 DEF RequestOf
  <2>7. op' # None
    BY <2>6, NoneAssumption
  <2>8. op.then # None => t \in Simple /\ t # None
    BY <1>5, <2>1, <2>2, SimpleIsRequest, NoneAssumption
  <2>9. QED
    BY <1>4, <1>5, <2>1, <2>2, <2>4, <2>6, <2>7, <2>8
<1>11. TypeOK'
  <2>1. ended' \in Seq(Runs)
    <3>1. ended \in Seq(Runs) /\ (caller.guard[c] # None => caller.guard[c] \in Runs)
      BY <1>2 DEF TypeOK
    <3>2. QED
      BY <3>1 DEF Drop
  <2>2. QED
    BY <1>1, <1>2, <1>7, <1>9, <1>10, <2>1 DEF TypeOK
<1>12. SameRuns /\ SameWait
  <2>1. SameRuns
    BY <1>1 DEF SameRuns, TypeOK
  <2>2. Waiting <=> Waiting'
    BY <1>9, <1>10 DEF Waiting
  <2>3. \A p \in Ports : Starting(p) => Starting(p)'
    BY <1>1, <1>10 DEF Starting
  <2>4. QED
    BY <1>10, <2>1, <2>2, <2>3 DEF SameWait, Waiting
<1>13. ASSUME NEW r, NEW q, Awaited(r), q.kind = r.kind, r.caller \in Callers \cup {None},
              q.caller = (IF r.caller = c THEN None ELSE r.caller)
       PROVE  q.caller # None => /\ caller'.waits[q.caller] = q.kind
                                 /\ q.kind \in {"start", "begin"} => caller'.guard[q.caller] = None
  BY <1>3, <1>13 DEF Awaited
<1>14. RequestsSound'
  <2>1. ASSUME NEW i \in DOMAIN queue'
        PROVE  Queued(queue[i])'
    <3>1. Queued(queue[i]) /\ i \in DOMAIN queue
      BY <1>6 DEF RequestsSound
    <3>2. Awaited(queue[i])'
      BY <1>8, <1>13, <3>1 DEF Queued, Awaited
    <3>3. QED
      BY <1>2, <1>8, <3>1, <3>2 DEF Queued, Addressed
  <2>2. \A i, j \in DOMAIN queue' : i # j => Apart(queue'[i], queue'[j])
    BY <1>6, <1>8 DEF RequestsSound, Apart
  <2>3. ASSUME op' # None
        PROVE  /\ Served(op)'
               /\ \A i \in DOMAIN queue' :
                    Apart(op', queue'[i]) /\ (op'.then # None => Apart(op'.then, queue'[i]))
    <3>1. op # None /\ Served(op) /\ op.caller \in Callers \cup {None}
      BY <1>9, <2>3, OpFields DEF RequestsSound
    <3>2. Addressed(op)' /\ Awaited(op)'
      BY <1>2, <1>10, <1>13, <3>1, NoneAssumption DEF Served, Addressed, Awaited
    <3>3. ASSUME op'.then # None
          PROVE  op'.kind = "renew" /\ Suspended(op.then)'
      <4>1. op.then # None /\ Suspended(op.then) /\ op.kind = "renew" /\ op.then.caller \in Callers \cup {None}
        BY <1>10, <3>1, <3>3, OpFields DEF Served
      <4>2. Awaited(op.then)'
        BY <1>10, <1>13, <3>1, <4>1 DEF Suspended, Awaited
      <4>3. QED
        BY <1>1, <1>2, <1>10, <3>1, <4>1, <4>2 DEF Suspended, Addressed
    <3>4. Served(op)'
      BY <1>1, <1>10, <3>1, <3>2, <3>3 DEF Served, Waiting
    <3>5. \A i \in DOMAIN queue' : Apart(op', queue'[i])
      BY <1>6, <1>8, <1>10, <3>1 DEF RequestsSound, Apart
    <3>6. \A i \in DOMAIN queue' : op'.then # None => Apart(op'.then, queue'[i])
      BY <1>6, <1>8, <1>10, <3>1 DEF RequestsSound, Apart
    <3>7. QED
      BY <3>4, <3>5, <3>6
  <2>4. QED
    BY <2>1, <2>2, <2>3 DEF RequestsSound
<1>15. GuardsKnown'
  <2>1. ended' = ended \/ (caller.guard[c] # None /\ ended' = Append(ended, caller.guard[c]))
    BY DEF Drop
  <2>2. ended \in Seq(Runs)
    BY DEF TypeOK
  <2>3. \A i \in DOMAIN ended' : ended'[i] \in caller.handles
    <3>1. CASE ended' = ended
      BY <3>1 DEF GuardsKnown
    <3>2. CASE caller.guard[c] # None /\ ended' = Append(ended, caller.guard[c])
      BY <2>2, <3>2 DEF GuardsKnown
    <3>3. QED
      BY <2>1, <3>1, <3>2
  <2>4. QED
    BY <1>2, <1>3, <2>3 DEF GuardsKnown
<1>16. UsesExact'
  <2>1. ASSUME NEW p \in Ports, s.owned[p] # None, NEW run \in Runs, run = s.owned[p].run
        PROVE  s.owned[p].uses = Cardinality(GuardsOf(caller'.guard, run)) + Cardinality(DropsOf(ended', run))
    <3>1. s.owned[p].uses = Cardinality(GuardsOf(caller.guard, run)) + Cardinality(DropsOf(ended, run))
      BY <2>1 DEF UsesExact, GuardsOf, DropsOf
    <3>2. ended \in Seq(Runs)
      BY DEF TypeOK
    <3>3. CASE caller.guard[c] = None
      <4>1. caller'.guard = caller.guard /\ ended' = ended
        BY <1>2, <3>3 DEF Drop
      <4>2. QED
        BY <3>1, <4>1
    <3>4. CASE caller.guard[c] # None
      <4>1. PICK gone \in Runs : gone = caller.guard[c]
        BY <1>2, <3>4
      <4>2. ended' = Append(ended, gone)
        BY <3>4, <4>1 DEF Drop
      <4>3. /\ caller'.guard[c] = None /\ caller.guard[c] = gone
            /\ \A d \in Callers : d # c => caller.guard[d] = caller'.guard[d]
        BY <1>3, <4>1
      <4>4. /\ Cardinality(GuardsOf(caller.guard, gone)) = Cardinality(GuardsOf(caller'.guard, gone)) + 1
            /\ \A other \in Runs : other # gone => GuardsOf(caller.guard, other) = GuardsOf(caller'.guard, other)
        BY <4>3, GuardTaken
      <4>5. /\ Cardinality(DropsOf(ended', gone)) = Cardinality(DropsOf(ended, gone)) + 1
            /\ \A other \in Runs : other # gone => DropsOf(ended', other) = DropsOf(ended, other)
        <5>1. PICK now, later : now = ended /\ later = ended'
          OBVIOUS
        <5>2. later = Append(now, gone) /\ now \in Seq(Runs)
          BY <3>2, <4>2, <5>1
        <5>3. gone \in Runs
          OBVIOUS
        <5>4. /\ Cardinality(DropsOf(later, gone)) = Cardinality(DropsOf(now, gone)) + 1
              /\ \A other \in Runs : other # gone => DropsOf(later, other) = DropsOf(now, other)
          BY ONLY <5>2, <5>3, DropAdded, ZenonT(30)
        <5>5. QED
          BY <5>1, <5>4
      <4>6. /\ Cardinality(GuardsOf(caller'.guard, gone)) \in Nat
            /\ Cardinality(DropsOf(ended, gone)) \in Nat
        BY <3>2, CountsFinite
      <4>7. CASE run = gone
        BY <3>1, <4>4, <4>5, <4>6, <4>7
      <4>8. CASE run # gone
        BY <3>1, <4>4, <4>5, <4>8
      <4>9. QED
        BY <4>7, <4>8
    <3>5. QED
      BY <3>3, <3>4
  <2>2. \A p \in Ports : s.owned[p] # None => s.owned[p].run \in Runs
    BY SessionFields DEF TypeOK, OwnedRuns
  <2>3. QED
    BY <1>1, <2>1, <2>2 DEF UsesExact, GuardsOf, DropsOf
<1>17. WritesSound'
  <2>1. \A i \in DOMAIN queue' : queue'[i].write # 0 => s.told[queue'[i].write] = None
    BY <1>6, <1>8 DEF WritesSound
  <2>2. op' # None => (op'.write # 0 => s.told[op'.write] = None)
    BY <1>9, <1>10 DEF WritesSound
  <2>3. QED
    BY <1>1, <1>12, <2>1, <2>2, WritesUndisturbed
<1>18. QED
  BY <1>1, <1>2, <1>11, <1>12, <1>14, <1>15, <1>16, <1>17, Undisturbed

-----------------------------------------------------------------------------
(* Uses that begin and end, and requests that are taken *)

\* A use more or less is one of the same Run.
LEMMA UsesChanged ==
    ASSUME Invariant, NEW port \in Ports, s.owned[port] # None, NEW owned \in OwnedRuns,
           owned.run = s.owned[port].run, s' = [s EXCEPT !.owned[port] = owned]
    PROVE  /\ SameRuns /\ s'.owned[port] = owned
           /\ \A p \in Ports : p # port => s'.owned[p] = s.owned[p]
<1>1. s \in SessionState /\ s.owned \in [Ports -> OwnedRuns \cup {None}]
  BY SessionFields DEF Invariant, TypeOK
<1>2. s' \in SessionState /\ s'.conn = s.conn /\ s'.lease = s.lease /\ s'.told = s.told
      /\ s'.owned = [s.owned EXCEPT ![port] = owned]
  BY <1>1 DEF SessionState
<1>3. s'.owned[port] = owned /\ \A p \in Ports : p # port => s'.owned[p] = s.owned[p]
  BY <1>1, <1>2
<1>4. QED
  BY <1>2, <1>3, NoneAssumption DEF SameRuns

\* With the Runs the same, a Run start that is suspended still has no Run on its port.
LEMMA ServedUndisturbed ==
    ASSUME RequestsSound, SameRuns, op' = op, queue' = queue, caller' = caller
    PROVE  RequestsSound'
<1>1. \A p \in Ports : s.owned[p] = None => s'.owned[p] = None
  BY DEF SameRuns
<1>2. op # None => Served(op)'
  <2>1. op # None /\ op.then # None => Suspended(op.then)'
    BY <1>1 DEF RequestsSound, Served, Suspended, Addressed, Awaited
  <2>2. op # None /\ op.kind = "start" => op.port \in Ports
    BY DEF RequestsSound, Served, Addressed
  <2>3. QED
    BY <1>1, <2>1, <2>2 DEF RequestsSound, Served, Addressed, Awaited, Waiting
<1>3. \A i \in DOMAIN queue : Queued(queue[i])'
  BY DEF RequestsSound, Queued, Addressed, Awaited
<1>4. QED
  BY <1>2, <1>3 DEF RequestsSound

\* A dropped guard is counted off, from its own Run only.
LEMMA EndUseKeeps ==
    ASSUME Invariant, EndUse
    PROVE  Invariant'
<1> USE DEF Invariant
<1>1. /\ op = None /\ op' = op /\ queue' = queue /\ caller' = caller /\ daemon' = daemon /\ written' = written
      /\ ended \in Seq(Runs) /\ ended # <<>>
  BY DEF EndUse, TypeOK
<1>2. PICK run : run = Head(ended)
  OBVIOUS
<1>3. run \in Runs /\ run.port \in Ports /\ ended' = Tail(ended) /\ s' = EndRunUse(s, run) /\ ended' \in Seq(Runs)
  <2>1. ended' = Tail(ended) /\ s' = EndRunUse(s, run)
    BY <1>2 DEF EndUse
  <2>2. PICK now : now = ended
    OBVIOUS
  <2>3. now \in Seq(Runs) /\ now # <<>> /\ run = Head(now)
    BY <1>1, <1>2, <2>2
  <2>4. run \in Runs /\ Tail(now) \in Seq(Runs)
    BY ONLY <2>3
  <2>5. run.port \in Ports
    BY <2>4 DEF Runs
  <2>6. QED
    BY <2>1, <2>2, <2>4, <2>5
<1>4. \A p \in Ports : s.owned[p] # None =>
        /\ s.owned[p] \in OwnedRuns /\ s.owned[p].run \in Runs /\ s.owned[p].run.port = p
        /\ s.owned[p].uses \in Nat
        /\ s.owned[p].uses = Cardinality(GuardsOf(caller.guard, s.owned[p].run))
                             + Cardinality(DropsOf(ended, s.owned[p].run))
  BY SessionFields DEF TypeOK, OwnedRuns, SessionSound, UsesExact, GuardsOf, DropsOf
<1>5. ASSUME NEW r \in Runs
      PROVE  /\ run = r => Cardinality(DropsOf(ended, r)) = Cardinality(DropsOf(ended', r)) + 1
             /\ run # r => Cardinality(DropsOf(ended, r)) = Cardinality(DropsOf(ended', r))
             /\ Cardinality(DropsOf(ended', r)) \in Nat /\ Cardinality(GuardsOf(caller.guard, r)) \in Nat
  <2>1. PICK now, later : now = ended /\ later = ended'
    OBVIOUS
  <2>2. now \in Seq(Runs) /\ now # <<>> /\ later = Tail(now) /\ later \in Seq(Runs) /\ run = Head(now)
    BY <1>1, <1>2, <1>3, <2>1
  <2>3. /\ Head(now) = r => Cardinality(DropsOf(now, r)) = Cardinality(DropsOf(Tail(now), r)) + 1
        /\ Head(now) # r => Cardinality(DropsOf(now, r)) = Cardinality(DropsOf(Tail(now), r))
    BY ONLY <2>2, DropTaken
  <2>4. Cardinality(DropsOf(later, r)) \in Nat
    BY ONLY <2>2, CountsFinite, BoundsAssumption, NoneAssumption
  <2>5. Cardinality(GuardsOf(caller.guard, r)) \in Nat
    BY <1>1, CountsFinite
  <2>6. QED
    BY <2>1, <2>2, <2>3, <2>4, <2>5
<1>6. /\ SameRuns
      /\ \A p \in Ports : s.owned[p] # None =>
            s'.owned[p].uses = IF s.owned[p].run = run THEN s.owned[p].uses - 1 ELSE s.owned[p].uses
  <2>1. CASE ~Owns(s, run)
    <3>1. s' = s
      BY <1>3, <2>1 DEF EndRunUse
    <3>2. \A p \in Ports : s.owned[p] # None => s.owned[p].run # run
      BY <1>4, <2>1 DEF Owns
    <3>3. QED
      BY <3>1, <3>2 DEF SameRuns, TypeOK
  <2>2. CASE Owns(s, run)
    <3>1. PICK owned : owned = s.owned[run.port]
      OBVIOUS
    <3>2. owned # None /\ owned \in OwnedRuns /\ owned.run = run
      BY <1>3, <1>4, <2>2, <3>1 DEF Owns
    <3>3. owned.uses # 0
      <4>1. Cardinality(DropsOf(ended, run)) = Cardinality(DropsOf(ended', run)) + 1
            /\ Cardinality(DropsOf(ended', run)) \in Nat /\ Cardinality(GuardsOf(caller.guard, run)) \in Nat
        BY <1>3, <1>5
      <4>2. owned.uses = Cardinality(GuardsOf(caller.guard, run)) + Cardinality(DropsOf(ended, run))
        BY <1>3, <1>4, <3>1, <3>2
      <4>3. QED
        BY <4>1, <4>2
    <3>4. PICK fewer : fewer = Unpinned(owned)
      OBVIOUS
    <3>5. fewer \in OwnedRuns /\ fewer.run = run /\ fewer.uses = owned.uses - 1
      <4>1. owned.uses \in Nat /\ owned.uses - 1 \in Nat /\ (owned.idle /\ owned.uses > 1) \in BOOLEAN
        BY <3>2, <3>3 DEF OwnedRuns
      <4>2. fewer = [owned EXCEPT !.uses = owned.uses - 1, !.idle = owned.idle /\ owned.uses > 1]
        BY <3>4 DEF Unpinned
      <4>3. QED
        BY <3>2, <4>1, <4>2 DEF OwnedRuns
    <3>6. s' = [s EXCEPT !.owned[run.port] = fewer]
      BY <1>3, <2>2, <3>1, <3>3, <3>4 DEF EndRunUse
    <3>7. /\ SameRuns /\ s'.owned[run.port] = fewer
          /\ \A p \in Ports : p # run.port => s'.owned[p] = s.owned[p]
      BY <1>3, <3>1, <3>2, <3>5, <3>6, UsesChanged
    <3>8. \A p \in Ports : s.owned[p] # None => (s.owned[p].run = run <=> p = run.port)
      BY <1>4, <3>1, <3>2
    <3>9. QED
      BY <3>1, <3>5, <3>7, <3>8
  <2>3. QED
    BY <2>1, <2>2
<1>7. SameWait
  BY <1>1 DEF SameWait, Waiting, Starting
<1>8. TypeOK'
  BY <1>1, <1>3, <1>6 DEF TypeOK, SameRuns
<1>9. RequestsSound'
  BY <1>1, <1>6, ServedUndisturbed
<1>10. GuardsKnown'
  <2>1. \A i \in DOMAIN ended' : ended'[i] \in caller.handles
    BY <1>1, <1>3 DEF GuardsKnown
  <2>2. QED
    BY <1>1, <2>1 DEF GuardsKnown
<1>11. UsesExact'
  <2>1. ASSUME NEW p \in Ports, s'.owned[p] # None
        PROVE  s'.owned[p].uses = Cardinality(GuardsOf(caller.guard, s'.owned[p].run))
                                  + Cardinality(DropsOf(ended', s'.owned[p].run))
    <3>1. PICK r \in Runs : r = s.owned[p].run /\ s.owned[p] # None /\ s'.owned[p].run = r
      BY <1>4, <1>6, <2>1 DEF SameRuns
    <3>2. QED
      BY <1>4, <1>5, <1>6, <3>1
  <2>2. QED
    BY <1>1, <2>1 DEF UsesExact, GuardsOf, DropsOf
<1>12. WritesSound'
  BY <1>1, <1>6, <1>7, WritesUndisturbed DEF WritesSound
<1>13. QED
  BY <1>1, <1>6, <1>7, <1>8, <1>9, <1>10, <1>11, <1>12, Undisturbed

\* The first request in the queue is taken.
LEMMA TakeKeeps ==
    ASSUME Invariant, Take
    PROVE  Invariant'
<1> USE DEF Invariant
<1>1. /\ op = None /\ s' = s /\ ended' = ended /\ caller' = caller /\ daemon' = daemon /\ written' = written
      /\ queue \in Seq(Simple) /\ queue # <<>> /\ op' = Head(queue) /\ queue' = Tail(queue)
  BY DEF Take, TypeOK
<1>2. /\ 1 \in DOMAIN queue /\ op' = queue[1] /\ queue[1] \in Simple /\ queue' \in Seq(Simple)
      /\ \A i \in DOMAIN queue' : i + 1 \in DOMAIN queue /\ queue'[i] = queue[i + 1] /\ i + 1 # 1
      /\ \A i, j \in DOMAIN queue' : i # j => i + 1 # j + 1
  BY <1>1
<1>3. op' \in RequestOf(Simple \cup {None}) /\ op' # None
  BY <1>2, SimpleIsRequest, NoneAssumption
<1>4. Queued(op') /\ op'.at = "start" /\ op'.then = None
  BY <1>2 DEF RequestsSound, Queued
<1>5. TypeOK'
  BY <1>1, <1>2, <1>3 DEF TypeOK
<1>6. SameRuns /\ SameWait
  BY <1>1, <1>3, <1>4 DEF SameRuns, SameWait, Waiting, Starting, TypeOK
<1>7. RequestsSound'
  <2>1. Served(op)'
    <3>1. op'.kind \in {"start", "begin", "write", "end", "abort", "query", "renew"}
      BY <1>3, RequestFields
    <3>2. "start" \in StagesOf(op'.kind)
      BY <3>1 DEF StagesOf
    <3>3. Addressed(op)' /\ Awaited(op)' /\ ~op'.pending
      BY <1>1, <1>4 DEF Queued, Addressed, Awaited
    <3>4. QED
      BY <1>3, <1>4, <3>2, <3>3 DEF Served, Waiting
  <2>2. \A i \in DOMAIN queue' : Queued(queue[i])' /\ Apart(op', queue'[i])
    BY <1>1, <1>2 DEF RequestsSound, Queued, Addressed, Awaited
  <2>3. \A i, j \in DOMAIN queue' : i # j => Apart(queue'[i], queue'[j])
    BY <1>2 DEF RequestsSound
  <2>4. QED
    BY <1>4, <2>1, <2>2, <2>3 DEF RequestsSound
<1>8. GuardsKnown' /\ UsesExact'
  BY <1>1 DEF GuardsKnown, UsesExact
<1>9. WritesSound'
  <2>1. /\ \A i \in DOMAIN queue' : queue'[i].write # 0 => s.told[queue'[i].write] = None
        /\ op'.write # 0 => s.told[op'.write] = None
    BY <1>2 DEF WritesSound
  <2>2. QED
    BY <1>1, <1>6, <2>1, WritesUndisturbed
<1>10. QED
  BY <1>1, <1>5, <1>6, <1>7, <1>8, <1>9, Undisturbed

-----------------------------------------------------------------------------
(* Steps of the task that send nothing and answer nothing *)

\* The task looks at its clock before the next request.
LEMMA RenewalKeeps ==
    ASSUME Invariant, op = None, SameRuns, op' = Renewal(s', None), s'.owned = s.owned,
           UNCHANGED <<calls, daemon, written>>
    PROVE  Invariant'
<1> USE DEF Invariant
<1>1. /\ queue' = queue /\ ended' = ended /\ caller' = caller /\ daemon' = daemon /\ written' = written
      /\ s' \in SessionState
  BY DEF calls, SameRuns
<1>2. /\ op' \in RequestOf(Simple \cup {None}) /\ op'.kind = "renew" /\ op'.caller = None /\ op'.write = 0
      /\ op'.at = "start" /\ op'.then = None
  <2>1. PICK t, r : t = s' /\ r = op'
    OBVIOUS
  <2>2. t \in SessionState /\ r = Renewal(t, None) /\ None \in Simple \cup {None}
    BY <1>1, <2>1
  <2>3. /\ r \in RequestOf(Simple \cup {None}) /\ r.kind = "renew" /\ r.caller = None /\ r.write = 0
        /\ r.at = "start" /\ r.then = None
    BY ONLY <2>2, RenewalIs
  <2>4. QED
    BY <2>1, <2>3
<1>3. op' # None /\ ~Waiting /\ ~Waiting'
  BY <1>2, NoneAssumption DEF Waiting
<1>4. TypeOK'
  BY <1>1, <1>2 DEF TypeOK
<1>5. SameWait
  BY <1>3 DEF SameWait, Starting
<1>6. RequestsSound'
  <2>1. \A i \in DOMAIN queue' : Queued(queue[i])'
    BY <1>1 DEF RequestsSound, Queued, Addressed, Awaited
  <2>2. Served(op)'
    BY <1>2, <1>3 DEF Served, Addressed, Awaited, StagesOf
  <2>3. QED
    BY <1>1, <1>2, <2>1, <2>2 DEF RequestsSound, Apart
<1>7. GuardsKnown' /\ UsesExact'
  BY <1>1 DEF GuardsKnown, UsesExact
<1>8. WritesSound'
  BY <1>1, <1>2, <1>5, WritesUndisturbed DEF WritesSound
<1>9. QED
  BY <1>1, <1>4, <1>5, <1>6, <1>7, <1>8, Undisturbed

\* So do a tick of the clock and a new idle time.
LEMMA TickKeeps ==
    ASSUME Invariant, Tick \/ UpdateTtl
    PROVE  Invariant'
<1>1. s \in SessionState
  BY DEF Invariant, TypeOK
<1>2. CASE Tick
  <2>1. SameRuns /\ s'.owned = s.owned
    BY <1>1, <1>2 DEF Tick, SameRuns
  <2>2. QED
    BY <1>2, <2>1, RenewalKeeps DEF Tick
<1>3. CASE UpdateTtl
  <2>1. SameRuns /\ s'.owned = s.owned
    BY <1>1, <1>3 DEF UpdateTtl, SameRuns, SessionState
  <2>2. QED
    BY <1>3, <2>1, RenewalKeeps DEF UpdateTtl
<1>4. QED
  BY <1>2, <1>3

\* A caller has a Run in use from now on; if it is gone, the guard made for it is dropped
\* at once.
UseBegun ==
    /\ op # None /\ op.kind = "begin" /\ op.at = "start" /\ Owns(s, op.run)
    /\ s' = [s EXCEPT !.owned[op.port].uses = @ + 1]
    /\ Hears(op, op.run)
    /\ UNCHANGED <<queue, daemon, written>>

\* That pins it: the count grows with the guards, or with the dropped ones.
LEMMA UseBegunKeeps ==
    ASSUME Invariant, UseBegun
    PROVE  Invariant'
<1> USE DEF Invariant
<1>1. /\ op # None /\ op.kind = "begin" /\ op.at = "start" /\ Addressed(op) /\ Awaited(op) /\ op.then = None
      /\ op.caller \in Callers \cup {None} /\ op.write = 0
      /\ queue' = queue /\ daemon' = daemon /\ written' = written /\ op' = None
  BY OpFields DEF UseBegun, Hears, RequestsSound, Served, Addressed
<1>2. PICK run : run = op.run
  OBVIOUS
<1>3. run \in caller.handles /\ run \in Runs /\ run.port \in Ports /\ op.port = run.port /\ run # None
  <2>1. run \in caller.handles /\ op.port = run.port /\ op.port \in Ports
    BY <1>1, <1>2 DEF Addressed
  <2>2. caller.handles \subseteq Runs
    BY DEF TypeOK, CallerState
  <2>3. QED
    BY <2>1, <2>2, NoneAssumption
<1>4. \A p \in Ports : s.owned[p] # None =>
        /\ s.owned[p] \in OwnedRuns /\ s.owned[p].run \in Runs /\ s.owned[p].run.port = p
        /\ s.owned[p].uses \in Nat
        /\ s.owned[p].uses = Cardinality(GuardsOf(caller.guard, s.owned[p].run))
                             + Cardinality(DropsOf(ended, s.owned[p].run))
  BY SessionFields DEF TypeOK, OwnedRuns, SessionSound, UsesExact, GuardsOf, DropsOf
<1>5. /\ SameRuns
      /\ \A p \in Ports : s.owned[p] # None =>
            s'.owned[p].uses = IF s.owned[p].run = run THEN s.owned[p].uses + 1 ELSE s.owned[p].uses
  <2>1. PICK owned : owned = s.owned[run.port]
    OBVIOUS
  <2>2. owned # None /\ owned \in OwnedRuns /\ owned.run = run
    BY <1>2, <1>3, <1>4, <2>1 DEF Owns, UseBegun
  <2>3. PICK more : more = [owned EXCEPT !.uses = owned.uses + 1]
    OBVIOUS
  <2>4. more \in OwnedRuns /\ more.run = run /\ more.uses = owned.uses + 1
    BY <2>2, <2>3 DEF OwnedRuns
  <2>5. s' = [s EXCEPT !.owned[run.port] = more]
    <3>1. s \in SessionState /\ s.owned \in [Ports -> OwnedRuns \cup {None}]
      BY SessionFields DEF TypeOK
    <3>2. s' = [s EXCEPT !.owned[run.port].uses = @ + 1]
      BY <1>3 DEF UseBegun
    <3>3. QED
      BY <1>3, <2>1, <2>3, <3>1, <3>2
  <2>6. /\ SameRuns /\ s'.owned[run.port] = more
        /\ \A p \in Ports : p # run.port => s'.owned[p] = s.owned[p]
    BY <1>3, <2>1, <2>2, <2>4, <2>5, UsesChanged
  <2>7. \A p \in Ports : s.owned[p] # None => (s.owned[p].run = run <=> p = run.port)
    BY <1>4, <2>1, <2>2
  <2>8. QED
    BY <2>1, <2>4, <2>6, <2>7
<1>6. ended \in Seq(Runs) /\ caller \in CallerState
  BY DEF TypeOK
<1>7. \/ op.caller = None /\ caller' = caller /\ ended' = Append(ended, run)
      \/ /\ op.caller \in Callers /\ caller.guard[op.caller] = None /\ ended' = ended
         /\ caller' = [caller EXCEPT !.waits[op.caller] = None, !.guard[op.caller] = run]
  BY <1>1, <1>2, <1>3 DEF UseBegun, Hears, Awaited
<1>8. caller' \in CallerState /\ ended' \in Seq(Runs) /\ caller'.handles = caller.handles
      /\ \A c \in Callers : c # op.caller => caller'.waits[c] = caller.waits[c] /\ caller'.guard[c] = caller.guard[c]
  <2>1. CASE op.caller = None /\ caller' = caller /\ ended' = Append(ended, run)
    BY <1>3, <1>6, <2>1
  <2>2. CASE /\ op.caller \in Callers /\ ended' = ended
             /\ caller' = [caller EXCEPT !.waits[op.caller] = None, !.guard[op.caller] = run]
    BY <1>3, <1>6, <2>2 DEF CallerState
  <2>3. QED
    BY <1>7, <2>1, <2>2
<1>9. ASSUME NEW r \in Runs
      PROVE  Cardinality(GuardsOf(caller'.guard, r)) + Cardinality(DropsOf(ended', r)) =
                IF r = run THEN Cardinality(GuardsOf(caller.guard, r)) + Cardinality(DropsOf(ended, r)) + 1
                           ELSE Cardinality(GuardsOf(caller.guard, r)) + Cardinality(DropsOf(ended, r))
  <2>1. Cardinality(GuardsOf(caller.guard, r)) \in Nat /\ Cardinality(DropsOf(ended, r)) \in Nat
    BY <1>6, CountsFinite
  <2>2. CASE caller' = caller /\ ended' = Append(ended, run)
    <3>1. PICK now, later : now = ended /\ later = ended'
      OBVIOUS
    <3>2. later = Append(now, run) /\ now \in Seq(Runs) /\ run \in Runs
      BY <1>3, <1>6, <2>2, <3>1
    <3>3. /\ Cardinality(DropsOf(later, run)) = Cardinality(DropsOf(now, run)) + 1
          /\ \A other \in Runs : other # run => DropsOf(later, other) = DropsOf(now, other)
      BY ONLY <3>2, DropAdded, ZenonT(30)
    <3>4. QED
      BY <2>1, <2>2, <3>1, <3>3
  <2>3. CASE /\ op.caller \in Callers /\ caller.guard[op.caller] = None /\ ended' = ended
             /\ caller' = [caller EXCEPT !.waits[op.caller] = None, !.guard[op.caller] = run]
    <3>1. PICK guard, after, c : guard = caller.guard /\ after = caller'.guard /\ c = op.caller
      OBVIOUS
    <3>2. /\ guard[c] = None /\ after[c] = run /\ c \in Callers /\ run \in Runs
          /\ \A d \in Callers : d # c => after[d] = guard[d]
      BY <1>3, <1>6, <1>8, <2>3, <3>1 DEF CallerState
    <3>3. /\ Cardinality(GuardsOf(after, run)) = Cardinality(GuardsOf(guard, run)) + 1
          /\ \A other \in Runs : other # run => GuardsOf(after, other) = GuardsOf(guard, other)
      BY ONLY <3>2, GuardTaken, BoundsAssumption, NoneAssumption
    <3>4. QED
      BY <2>1, <2>3, <3>1, <3>3
  <2>4. QED
    BY <1>7, <2>2, <2>3
<1>10. SameWait
  BY <1>1 DEF SameWait, Waiting, Starting
<1>11. TypeOK'
  BY <1>1, <1>5, <1>8 DEF TypeOK, SameRuns
<1>12. RequestsSound'
  <2>1. ASSUME NEW i \in DOMAIN queue
        PROVE  Queued(queue[i])'
    <3>1. Queued(queue[i]) /\ Apart(queue[i], op) /\ queue[i] \in Simple
      <4>1. Queued(queue[i]) /\ Apart(op, queue[i]) /\ queue[i] \in Simple
        BY <1>1 DEF RequestsSound, TypeOK
      <4>2. QED
        BY <4>1 DEF Apart
    <3>2. queue[i].caller # None => queue[i].caller \in Callers /\ queue[i].caller # op.caller
      BY <3>1, RequestFields DEF Simple, Apart
    <3>3. QED
      BY <1>1, <1>8, <3>1, <3>2 DEF Queued, Addressed, Awaited
  <2>2. QED
    BY <1>1, <2>1 DEF RequestsSound
<1>13. GuardsKnown'
  <2>1. ASSUME NEW c \in Callers, caller'.guard[c] # None
        PROVE  caller'.guard[c] \in caller.handles
    <3>1. caller.guard \in [Callers -> Runs \cup {None}]
      BY <1>6 DEF CallerState
    <3>2. caller'.guard = caller.guard \/ caller'.guard = [caller.guard EXCEPT ![op.caller] = run]
      BY <1>6, <1>7 DEF CallerState
    <3>3. caller'.guard[c] = caller.guard[c] \/ caller'.guard[c] = run
      BY <3>1, <3>2
    <3>4. QED
      BY <1>3, <2>1, <3>3 DEF GuardsKnown
  <2>2. \A i \in DOMAIN ended' : ended'[i] \in caller.handles
    BY <1>3, <1>6, <1>7, SMTT(30) DEF GuardsKnown
  <2>3. QED
    BY <1>8, <2>1, <2>2 DEF GuardsKnown
<1>14. UsesExact'
  <2>1. ASSUME NEW p \in Ports, s'.owned[p] # None
        PROVE  s'.owned[p].uses = Cardinality(GuardsOf(caller'.guard, s'.owned[p].run))
                                  + Cardinality(DropsOf(ended', s'.owned[p].run))
    <3>1. PICK r \in Runs : r = s.owned[p].run /\ s.owned[p] # None /\ s'.owned[p].run = r
      BY <1>4, <1>5, <2>1 DEF SameRuns
    <3>2. QED
      BY <1>4, <1>5, <1>9, <3>1
  <2>2. QED
    BY <2>1 DEF UsesExact, GuardsOf, DropsOf
<1>15. WritesSound'
  BY <1>1, <1>5, <1>10, WritesUndisturbed DEF WritesSound
<1>16. QED
  BY <1>1, <1>5, <1>8, <1>10, <1>11, <1>12, <1>13, <1>14, <1>15, Undisturbed

-----------------------------------------------------------------------------
(* A request that asks again, and a Run that is handed out *)

\* r is the request that was at its answer and asks again, at once or after a renewal.
Turned(r) ==
    /\ op # None /\ op' # None /\ r \in RequestOf(Simple \cup {None})
    /\ r.kind = op.kind /\ r.caller = op.caller /\ r.write = op.write /\ r.run = op.run /\ r.then = op.then
    /\ r.at = "again" /\ "again" \in StagesOf(op.kind)
    /\ r.port = op.port /\ (op.kind = "start" => r.pending)
    /\ \/ op' = r
       \/ /\ op' \in RequestOf(Simple \cup {None}) /\ op'.then = r /\ r.kind = "start"
          /\ op'.kind = "renew" /\ op'.caller = None /\ op'.write = 0 /\ op'.at = "start"
    /\ daemon' = [daemon EXCEPT !.answer = None] /\ UNCHANGED <<calls, written>>
    /\ Waiting /\ ~Granted
    /\ s' \in SessionState /\ s'.told = s.told
    /\ \/ s'.conn = s.conn /\ s'.owned = s.owned /\ s'.lease = s.lease /\ daemon.answer # None
       \/ s'.conn = 0 /\ s'.owned = NoRun /\ s'.lease = NoRun

\* A request that asks again leaves everything in order.
LEMMA TurnedKeeps ==
    ASSUME Invariant, NEW r, Turned(r)
    PROVE  Invariant'
<1> USE DEF Invariant
<1>1. /\ op # None /\ op' # None /\ Served(op) /\ ~Waiting' /\ r # None /\ op.port \in Ports
      /\ queue' = queue /\ ended' = ended /\ caller' = caller /\ written' = written
  BY NoneAssumption DEF Turned, RequestsSound, calls, Waiting, Served
<1>2. /\ daemon' \in DaemonState
      /\ daemon'.made = daemon.made /\ daemon'.conns = daemon.conns /\ daemon'.inbox = daemon.inbox
      /\ daemon'.holder = daemon.holder /\ daemon'.start = daemon.start /\ daemon'.runs = daemon.runs
      /\ daemon'.answer = None
  BY DEF Turned, TypeOK, DaemonState
<1>3. TypeOK'
  BY <1>1, <1>2 DEF TypeOK, Turned
<1>4. \A p \in Ports : \/ s'.conn # 0 /\ s'.conn = s.conn /\ s'.owned[p] = s.owned[p] /\ s'.lease[p] = s.lease[p]
                       \/ s'.conn = 0 /\ s'.owned[p] = None /\ s'.lease[p] = None
  <2>1. CASE s'.conn = s.conn /\ s'.owned = s.owned /\ s'.lease = s.lease
    BY <2>1 DEF SessionSound
  <2>2. CASE s'.conn = 0 /\ s'.owned = NoRun /\ s'.lease = NoRun
    BY <2>2 DEF NoRun
  <2>3. QED
    BY <2>1, <2>2 DEF Turned
<1>5. s'.conn = 0 \/ (s'.conn = s.conn /\ daemon.answer # None)
  BY DEF Turned
<1>6. SessionSound'
  BY <1>1, <1>4 DEF SessionSound
<1>7. ConnectionsKnown'
  BY <1>2, <1>5, DaemonFields DEF ConnectionsKnown
<1>8. RequestsSound'
  <2>1. Addressed(r)' /\ Awaited(r)'
    BY <1>1 DEF Turned, Served, Addressed, Awaited
  <2>2. op.kind = "start" => s'.owned[op.port] = None /\ op.then = None
    <3>1. op.kind = "start" => op.at # "start" /\ op.then = None
      BY <1>1 DEF Turned, Waiting, Served
    <3>2. QED
      BY <1>1, <1>4, <3>1 DEF Served
  <2>3. r.then # None => Suspended(r.then)'
    <3>1. r.then # None => Suspended(r.then)
      BY <1>1 DEF Turned, Served
    <3>2. QED
      BY <1>1, <1>4, <3>1 DEF Suspended, Addressed, Awaited
  <2>4. Served(op)'
    <3>1. CASE op' = r
      <4>1. Addressed(op)' /\ Awaited(op)'
        BY <2>1, <3>1 DEF Addressed, Awaited
      <4>2. QED
        BY <1>1, <2>2, <2>3, <3>1, <4>1 DEF Turned, Served
    <3>2. CASE /\ op'.then = r /\ r.kind = "start"
               /\ op'.kind = "renew" /\ op'.caller = None /\ op'.write = 0 /\ op'.at = "start"
      <4>1. Suspended(op.then)'
        <5>1. Suspended(r)'
          BY <1>1, <2>1, <2>2, <3>2 DEF Turned, Suspended
        <5>2. QED
          BY <3>2, <5>1 DEF Suspended, Addressed, Awaited
      <4>2. "start" \in StagesOf("renew")
        BY DEF StagesOf
      <4>3. QED
        BY <1>1, <3>2, <4>1, <4>2 DEF Served, Addressed, Awaited
    <3>3. QED
      BY <3>1, <3>2 DEF Turned
  <2>5. \A i \in DOMAIN queue : Apart(r, queue[i]) /\ (r.then # None => Apart(r.then, queue[i]))
    BY <1>1 DEF RequestsSound, Apart, Turned
  <2>6. \A i \in DOMAIN queue : Apart(op', queue[i]) /\ (op'.then # None => Apart(op'.then, queue[i]))
    BY <2>5 DEF Turned, Apart
  <2>7. \A i \in DOMAIN queue' : Queued(queue[i])'
    BY <1>1 DEF RequestsSound, Queued, Addressed, Awaited
  <2>8. QED
    BY <1>1, <2>4, <2>6, <2>7 DEF RequestsSound
<1>9. \A m \in daemon.inbox : m.conn # s'.conn
  <2>1. \A m \in daemon.inbox : m.conn # 0
    BY DaemonFields DEF Messages, Conns
  <2>2. QED
    BY <1>5, <2>1 DEF InFlight
<1>10. InFlight' /\ AnswerFits'
  BY <1>2, <1>9 DEF InFlight, AnswerFits
<1>11. RunsFresh'
  BY <1>1, <1>2 DEF RunsFresh, Granted, Fresh
<1>12. GuardsKnown' /\ UsesExact'
  BY <1>1, <1>4 DEF GuardsKnown, UsesExact
<1>13. ASSUME NEW entry, Mine(entry)', entry = None \/ entry \in Holders \/ entry \in Starts
       PROVE  Mine(entry) /\ s'.conn # 0
  BY <1>5, <1>13 DEF Mine, Holders, Starts, Conns
<1>14. \A p \in Ports : /\ daemon.start[p] = None \/ daemon.start[p] \in Starts
                        /\ daemon.holder[p] = None \/ daemon.holder[p] \in Holders
  BY DaemonFields
<1>15. StartsKnown'
  <2>1. ASSUME NEW p \in Ports, Mine(daemon.start[p])'
        PROVE  Starting(p)'
    <3>1. PICK entry : entry = daemon.start[p]
      OBVIOUS
    <3>2. Mine(entry)' /\ (entry = None \/ entry \in Starts)
      BY <1>2, <1>14, <2>1, <3>1 DEF Mine
    <3>3. Mine(daemon.start[p])
      BY <1>13, <3>1, <3>2
    <3>4. Starting(p)
      BY <3>3 DEF StartsKnown
    <3>5. CASE op.kind = "start" /\ op.port = p
      BY <1>1, <3>5 DEF Starting, Turned
    <3>6. CASE op.then # None /\ op.then.port = p
      BY <1>1, <3>6 DEF Starting, Turned, Served
    <3>7. QED
      BY <3>4, <3>5, <3>6 DEF Starting
  <2>2. QED
    BY <1>2, <2>1 DEF StartsKnown
<1>16. HoldersKnown'
  <2>1. ASSUME NEW p \in Ports, Mine(daemon.holder[p])'
        PROVE  \/ s'.owned[p] # None /\ s'.lease[p] = daemon.holder[p].lease
               \/ /\ daemon.start[p] # None /\ daemon.start[p].conn = s'.conn
                  /\ daemon.start[p].state = "granted" /\ daemon.start[p].run = daemon.holder[p].lease
    <3>1. PICK entry : entry = daemon.holder[p]
      OBVIOUS
    <3>2. Mine(entry)' /\ (entry = None \/ entry \in Holders)
      BY <1>2, <1>14, <2>1, <3>1 DEF Mine
    <3>3. Mine(daemon.holder[p]) /\ s'.conn # 0 /\ s'.conn = s.conn
      BY <1>5, <1>13, <3>1, <3>2
    <3>4. ~Releasing(p, daemon.holder[p].lease)
      BY <1>9, <3>3 DEF Releasing
    <3>5. QED
      BY <1>4, <3>3, <3>4 DEF HoldersKnown, Mine, Turned
  <2>2. QED
    BY <1>2, <2>1 DEF HoldersKnown, Mine
<1>17. AbortedGone'
  BY <1>2 DEF AbortedGone
<1>18. WritesSound'
  <2>1. op.kind \in {"start", "query", "renew"} /\ op.write = 0 /\ op.at # "wrote"
    <3>1. op.kind \in {"start", "begin", "write", "end", "abort", "query", "renew"}
      BY <1>1, OpFields, RequestFields
    <3>2. op.kind \in {"start", "query", "renew"}
      BY <3>1 DEF Turned, StagesOf
    <3>3. QED
      BY <1>1, <3>2, KindOfStage DEF Served, Addressed
  <2>2. op'.write = 0 /\ op'.at # "wrote"
    BY <2>1 DEF Turned
  <2>3. \A w \in Writes : w \in written \/ InInbox(w) => s.told[w] \in {"written", "uncertain"}
    BY <2>1 DEF WritesSound
  <2>4. \A w \in Writes : InInbox(w)' = InInbox(w)
    BY <1>2 DEF InInbox
  <2>5. QED
    BY <1>1, <1>2, <2>2, <2>3, <2>4 DEF WritesSound, Turned
<1>19. QED
  BY <1>3, <1>6, <1>7, <1>8, <1>10, <1>11, <1>12, <1>15, <1>16, <1>17, <1>18

\* The caller that waits for it has the Run that was granted.
GrantedTo(run) ==
    /\ Granted /\ op.caller # None /\ run = daemon.answer.lease
    /\ s' = [s EXCEPT !.lease[op.port] = run, !.owned[op.port] = OwnedRun(run)]
    /\ op' = None
    /\ caller' = [caller EXCEPT !.waits[op.caller] = None, !.handles = @ \cup {run}]
    /\ daemon' = [daemon EXCEPT !.answer = None] /\ UNCHANGED <<queue, ended, written>>

\* The Run that is handed out is nobody's yet, and nothing of an earlier one is counted
\* for it.
LEMMA GrantedToKeeps ==
    ASSUME Invariant, NEW run, GrantedTo(run)
    PROVE  Invariant'
<1> USE DEF Invariant
<1>1. /\ op # None /\ op' = None /\ Served(op) /\ op.kind = "start" /\ op.at = "polled" /\ Waiting /\ op.then = None
      /\ op.write = 0 /\ op.caller \in Callers
      /\ daemon.answer # None /\ daemon.answer.result = "granted"
      /\ queue' = queue /\ ended' = ended /\ written' = written
  <2>1. op # None /\ Served(op) /\ op.at = "polled" /\ op.caller # None
    BY DEF GrantedTo, Granted, RequestsSound
  <2>2. op.kind = "start" /\ op.caller \in Callers
    BY <2>1, KindOfStage, OpFields
  <2>3. QED
    BY <2>1, <2>2 DEF GrantedTo, Granted, Served, Addressed, Waiting
<1>2. PICK port \in Ports : port = op.port
  BY <1>1 DEF Served
<1>3. run \in Runs /\ run.port = port /\ run.n <= daemon.runs[port] /\ run \notin caller.handles /\ run # None
  BY <1>2, NoneAssumption DEF GrantedTo, RunsFresh, Fresh
<1>4. s.owned[port] = None /\ s.lease[port] = None /\ s.conn # 0
  BY <1>1, <1>2 DEF Served, SessionSound, AnswerFits
<1>5. PICK owned : owned = OwnedRun(run)
  OBVIOUS
<1>6. owned \in OwnedRuns /\ owned # None /\ owned.run = run /\ owned.uses = 0
  <2>1. owned \in OwnedRuns /\ owned.run = run /\ owned.uses = 0
    BY <1>3, <1>5 DEF OwnedRun, OwnedRuns
  <2>2. QED
    BY <2>1, NoneAssumption
<1>7. /\ s' \in SessionState /\ s'.conn = s.conn /\ s'.told = s.told /\ s'.owned[port] = owned /\ s'.lease[port] = run
      /\ \A p \in Ports : p # port => s'.owned[p] = s.owned[p] /\ s'.lease[p] = s.lease[p]
  <2>1. s \in SessionState /\ s' = [s EXCEPT !.lease[port] = run, !.owned[port] = owned]
    BY <1>2, <1>5 DEF GrantedTo, TypeOK
  <2>2. /\ s' \in SessionState /\ s'.conn = s.conn /\ s'.told = s.told
        /\ s'.owned = [s.owned EXCEPT ![port] = owned] /\ s'.lease = [s.lease EXCEPT ![port] = run]
    BY <1>3, <1>6, <2>1 DEF SessionState
  <2>3. QED
    BY <2>1, <2>2, SessionFields
<1>8. /\ caller' \in CallerState /\ caller'.handles = caller.handles \cup {run} /\ caller'.guard = caller.guard
      /\ \A c \in Callers : c # op.caller => caller'.waits[c] = caller.waits[c]
  BY <1>1, <1>3 DEF GrantedTo, TypeOK, CallerState
<1>9. /\ daemon' \in DaemonState
      /\ daemon'.made = daemon.made /\ daemon'.conns = daemon.conns /\ daemon'.inbox = daemon.inbox
      /\ daemon'.holder = daemon.holder /\ daemon'.start = daemon.start /\ daemon'.runs = daemon.runs
      /\ daemon'.answer = None
  BY DEF GrantedTo, TypeOK, DaemonState
<1>10. TypeOK'
  BY <1>1, <1>7, <1>8, <1>9 DEF TypeOK
<1>11. SessionSound'
  <2>1. ASSUME NEW p \in Ports
        PROVE  /\ s'.owned[p] = None => s'.lease[p] = None
               /\ s'.owned[p] # None => /\ s'.conn # 0 /\ s'.lease[p] = s'.owned[p].run
                                        /\ s'.owned[p].run.port = p /\ s'.owned[p].run \in caller'.handles
    <3>1. CASE p = port
      BY <1>3, <1>4, <1>6, <1>7, <1>8, <3>1
    <3>2. CASE p # port
      BY <1>7, <1>8, <3>2 DEF SessionSound
    <3>3. QED
      BY <3>1, <3>2
  <2>2. QED
    BY <2>1 DEF SessionSound
<1>12. ConnectionsKnown'
  BY <1>7, <1>9 DEF ConnectionsKnown
<1>13. RequestsSound'
  <2>1. ASSUME NEW i \in DOMAIN queue
        PROVE  Queued(queue[i])'
    <3>1. Queued(queue[i]) /\ Apart(op, queue[i]) /\ queue[i] \in Simple
      BY <1>1 DEF RequestsSound, TypeOK
    <3>2. queue[i].caller # None => queue[i].caller \in Callers /\ queue[i].caller # op.caller
      BY <1>1, <3>1, RequestFields, NoneAssumption DEF Simple, Apart
    <3>3. QED
      BY <1>1, <1>8, <3>1, <3>2 DEF Queued, Addressed, Awaited
  <2>2. QED
    BY <1>1, <2>1 DEF RequestsSound
<1>14. \A m \in daemon.inbox : m.conn # s.conn
  BY <1>1 DEF InFlight
<1>15. InFlight' /\ AnswerFits' /\ AbortedGone'
  BY <1>1, <1>7, <1>9, <1>14 DEF InFlight, AnswerFits, AbortedGone
<1>16. RunsFresh'
  <2>1. \A r \in caller'.handles : r.n <= daemon.runs[r.port]
    BY <1>3, <1>8 DEF RunsFresh
  <2>2. ASSUME NEW p \in Ports, daemon.start[p] # None, daemon.start[p].state = "granted"
        PROVE  Fresh(daemon.start[p].run, p) /\ daemon.start[p].run # run
    <3>1. Fresh(daemon.start[p].run, p)
      BY <2>2 DEF RunsFresh
    <3>2. CASE p = port
      BY <1>2, <2>2, <3>1, <3>2 DEF RunsFresh, GrantedTo
    <3>3. CASE p # port
      BY <1>3, <3>1, <3>3 DEF Fresh
    <3>4. QED
      BY <3>1, <3>2, <3>3
  <2>3. QED
    BY <1>1, <1>8, <1>9, <2>1, <2>2 DEF RunsFresh, Granted, Fresh
<1>17. GuardsKnown'
  BY <1>1, <1>8 DEF GuardsKnown
<1>18. UsesExact'
  <2>1. {c \in Callers : caller'.guard[c] = run} = {} /\ {i \in DOMAIN ended' : ended'[i] = run} = {}
    BY <1>1, <1>3, <1>8 DEF GuardsKnown
  <2>2. ASSUME NEW p \in Ports, s'.owned[p] # None
        PROVE  s'.owned[p].uses =
                    Cardinality({c \in Callers : caller'.guard[c] = s'.owned[p].run})
                    + Cardinality({i \in DOMAIN ended' : ended'[i] = s'.owned[p].run})
    <3>1. CASE p = port
      <4>1. 0 = Cardinality({c \in Callers : caller'.guard[c] = run})
                + Cardinality({i \in DOMAIN ended' : ended'[i] = run})
        BY <2>1, FS_EmptySet
      <4>2. QED
        BY <1>6, <1>7, <3>1, <4>1
    <3>2. CASE p # port
      BY <1>1, <1>7, <1>8, <2>2, <3>2 DEF UsesExact
    <3>3. QED
      BY <3>1, <3>2
  <2>3. QED
    BY <2>2 DEF UsesExact
<1>19. \A p \in Ports : ~Mine(daemon.start[p]) /\ ~Mine(daemon.start[p])'
  <2>1. \A p \in Ports : ~Mine(daemon.start[p])
    BY <1>1 DEF StartsKnown, Starting
  <2>2. QED
    BY <1>7, <1>9, <2>1 DEF Mine
<1>20. StartsKnown'
  BY <1>9, <1>19 DEF StartsKnown
<1>21. HoldersKnown'
  <2>1. ASSUME NEW p \in Ports, Mine(daemon.holder[p])'
        PROVE  s'.owned[p] # None /\ s'.lease[p] = daemon.holder[p].lease
    <3>1. Mine(daemon.holder[p])
      BY <1>7, <1>9, <2>1 DEF Mine
    <3>2. ~Releasing(p, daemon.holder[p].lease)
      BY <1>14 DEF Releasing
    <3>3. \/ s.owned[p] # None /\ s.lease[p] = daemon.holder[p].lease
          \/ p = port /\ run = daemon.holder[p].lease
      BY <1>2, <1>19, <3>1, <3>2 DEF HoldersKnown, GrantedTo
    <3>4. QED
      BY <1>4, <1>6, <1>7, <3>3
  <2>2. QED
    BY <1>9, <2>1 DEF HoldersKnown
<1>22. WritesSound'
  <2>1. \A w \in Writes : w \in written \/ InInbox(w) => s.told[w] \in {"written", "uncertain"}
    BY <1>1 DEF WritesSound
  <2>2. \A w \in Writes : InInbox(w)' = InInbox(w)
    BY <1>9 DEF InInbox
  <2>3. QED
    BY <1>1, <1>7, <1>9, <2>1, <2>2 DEF WritesSound, Writing
<1>23. QED
  BY <1>10, <1>11, <1>12, <1>13, <1>15, <1>16, <1>17, <1>18, <1>20, <1>21, <1>22

-----------------------------------------------------------------------------
(* The daemon *)

\* What no step of the daemon touches stays in order.
LEMMA DaemonTouches ==
    ASSUME Invariant, UNCHANGED <<s, op, calls>>
    PROVE  /\ SessionSound' /\ RequestsSound' /\ GuardsKnown' /\ UsesExact'
           /\ (Waiting' <=> Waiting) /\ \A w \in Writes : Writing(w)' <=> Writing(w)
<1> USE DEF Invariant
<1>1. s' = s /\ op' = op /\ queue' = queue /\ ended' = ended /\ caller' = caller
  BY DEF calls
<1>2. SessionSound' /\ GuardsKnown' /\ UsesExact'
  BY <1>1 DEF SessionSound, GuardsKnown, UsesExact
<1>3. RequestsSound'
  <2>1. op # None /\ op.then # None => Suspended(op.then)'
    BY <1>1 DEF RequestsSound, Served, Suspended, Addressed, Awaited
  <2>2. op # None => Served(op)'
    BY <1>1, <2>1 DEF RequestsSound, Served, Addressed, Awaited, Waiting
  <2>3. \A i \in DOMAIN queue : Queued(queue[i])'
    BY <1>1 DEF RequestsSound, Queued, Addressed, Awaited
  <2>4. QED
    BY <1>1, <2>2, <2>3 DEF RequestsSound
<1>4. QED
  BY <1>1, <1>2, <1>3 DEF Waiting, Writing

\* A message that is served, with its result: a lease is held no more when its release is
\* answered, and a Run start is gone when its outcome is told.
Done(m, result, lease) ==
    /\ m \in daemon.inbox /\ UNCHANGED <<s, op, calls>>
    /\ daemon' \in DaemonState /\ daemon'.made = daemon.made /\ daemon'.conns = daemon.conns
    /\ daemon'.runs = daemon.runs /\ daemon'.inbox = daemon.inbox \ {m}
    /\ daemon'.answer = IF m.conn = s.conn THEN [result |-> result, lease |-> lease] ELSE daemon.answer
    /\ result \in ResultsOf(m.kind) /\ lease \in Runs \cup {None} /\ (result = "renewed" => lease = m.lease)
    /\ \A p \in Ports : daemon'.holder[p] # None =>
        /\ daemon.holder[p] # None
        /\ daemon'.holder[p].conn = daemon.holder[p].conn /\ daemon'.holder[p].lease = daemon.holder[p].lease
    /\ m.kind = "release" /\ daemon'.holder[m.port] # None =>
        ~(daemon'.holder[m.port].conn = m.conn /\ daemon'.holder[m.port].lease = m.lease)
    /\ \A p \in Ports : daemon'.start[p] # daemon.start[p] =>
        /\ p = m.port /\ m.kind \in {"start", "cancel"}
        /\ \/ /\ daemon'.start[p] = None /\ daemon.start[p] # None /\ daemon.start[p].conn = m.conn
              /\ daemon.start[p].state = "granted" =>
                    m.kind = "start" /\ result = "granted" /\ lease = daemon.start[p].run
           \/ /\ daemon'.start[p] # None /\ daemon'.start[p].conn = m.conn
              /\ daemon'.start[p].state = "pending" /\ daemon'.start[p].run = None /\ daemon.holder[p] = None
    /\ result = "granted" =>
        /\ daemon.start[m.port] # None /\ daemon.start[m.port].state = "granted"
        /\ daemon.start[m.port].run = lease /\ daemon'.start[m.port] = None
    /\ daemon'.start[m.port] # None /\ daemon'.start[m.port].conn = m.conn =>
        /\ m.kind = "start" => result = "pending"
        /\ m.kind = "cancel" => result = "error"
    /\ \/ written' = written
       \/ m.kind = "write" /\ result \in {"written", "uncertain"} /\ written' = written \cup {m.write}
    /\ result = "written" => m.write \in written'

\* A message that is served leaves everything in order.
LEMMA DoneKeeps ==
    ASSUME Invariant, NEW m, NEW result, NEW lease, Done(m, result, lease)
    PROVE  Invariant'
<1> USE DEF Invariant
<1>1. /\ s' = s /\ op' = op /\ queue' = queue /\ ended' = ended /\ caller' = caller
      /\ daemon'.inbox = daemon.inbox \ {m} /\ m \in daemon.inbox
  BY DEF Done, calls
<1>2. /\ SessionSound' /\ RequestsSound' /\ GuardsKnown' /\ UsesExact'
      /\ (Waiting' <=> Waiting) /\ \A w \in Writes : Writing(w)' <=> Writing(w)
  BY DaemonTouches DEF Done
<1>3. m \in Messages /\ m.conn \in Nat /\ m.conn # 0 /\ m.conn <= daemon.made /\ m.port \in Ports
      /\ m.kind \in {"start", "cancel", "renew", "release", "write", "end", "query"}
  BY <1>1, DaemonFields DEF Messages, Conns, ConnectionsKnown
<1>4. m.conn = s.conn =>
        /\ Waiting /\ op # None /\ daemon.answer = None
        /\ m.kind = Sends(op.at) /\ m.port = op.port /\ m.write = op.write
        /\ op.at # "released" => m.lease = s.lease[op.port]
        /\ \A n \in daemon.inbox : n.conn = s.conn => n = m
        /\ daemon'.answer # None /\ daemon'.answer.result = result /\ daemon'.answer.lease = lease
  <2>1. m.conn = s.conn => daemon'.answer = [result |-> result, lease |-> lease]
    BY DEF Done
  <2>2. m.conn = s.conn => daemon'.answer # None
    <3>1. result \in {"granted", "pending", "denied", "error", "cancelled", "renewed", "control", "released",
                      "written", "uncertain", "boundary", "run", "ended", "told"} /\ lease \in Runs \cup {None}
      BY <1>3 DEF Done, ResultsOf
    <3>2. [result |-> result, lease |-> lease] \in Answers
      BY <3>1 DEF Answers
    <3>3. QED
      BY <2>1, <3>2, EntriesAssumption
  <2>3. QED
    BY <1>1, <2>1, <2>2 DEF InFlight, Waiting
<1>5. m.conn # s.conn => daemon'.answer = daemon.answer
  BY DEF Done
<1>6. TypeOK'
  <2>1. written' \subseteq Writes
    BY <1>1 DEF Done, WritesSound, TypeOK
  <2>2. QED
    BY <1>1, <2>1 DEF Done, TypeOK
<1>7. \A p \in Ports : Mine(daemon.holder[p])' =>
        Mine(daemon.holder[p]) /\ daemon'.holder[p].lease = daemon.holder[p].lease
  BY <1>1 DEF Done, Mine
<1>8. ConnectionsKnown'
  <2>1. \A n \in daemon'.inbox : n.conn <= daemon.made
    BY <1>1 DEF ConnectionsKnown
  <2>2. \A p \in Ports : daemon'.holder[p] # None => daemon'.holder[p].conn <= daemon.made
    BY DEF Done, ConnectionsKnown
  <2>3. \A p \in Ports : daemon'.start[p] # None => daemon'.start[p].conn <= daemon.made
    BY <1>3 DEF Done, ConnectionsKnown
  <2>4. QED
    BY <1>1, <2>1, <2>2, <2>3 DEF Done, ConnectionsKnown
<1>9. InFlight'
  <2>1. CASE m.conn = s.conn
    BY <1>1, <1>4, <2>1 DEF InFlight
  <2>2. CASE m.conn # s.conn
    BY <1>1, <1>2, <1>5, <2>2 DEF InFlight
  <2>3. QED
    BY <2>1, <2>2
<1>10. AnswerFits'
  <2>1. CASE m.conn = s.conn
    <3>1. result \in ResultsOf(Sends(op.at)) /\ s.conn # 0 /\ Waiting
      BY <1>3, <1>4, <2>1 DEF Done
    <3>2. result = "renewed" => lease = s.lease[op.port]
      <4>1. result = "renewed" => op.at # "released"
        BY <3>1 DEF ResultsOf, Sends
      <4>2. QED
        BY <1>4, <2>1, <4>1 DEF Done
    <3>3. QED
      BY <1>1, <1>2, <1>4, <2>1, <3>1, <3>2 DEF AnswerFits
  <2>2. CASE m.conn # s.conn
    BY <1>1, <1>2, <1>5, <2>2 DEF AnswerFits
  <2>3. QED
    BY <2>1, <2>2
<1>11. RunsFresh'
  <2>1. \A r, p : Fresh(r, p)' <=> Fresh(r, p)
    BY <1>1 DEF Fresh, Done
  <2>2. \A p \in Ports : daemon'.start[p] # None /\ daemon'.start[p].state = "granted" => Fresh(daemon'.start[p].run, p)
    BY DEF Done, RunsFresh
  <2>3. ASSUME Granted'
        PROVE  /\ Fresh(daemon'.answer.lease, op.port)
               /\ daemon'.start[op.port] # None => daemon'.start[op.port].run # daemon'.answer.lease
    <3>1. CASE m.conn = s.conn
      <4>1. result = "granted" /\ daemon'.answer.lease = lease /\ m.port = op.port
        BY <1>4, <2>3, <3>1 DEF Granted
      <4>2. QED
        BY <1>3, <4>1 DEF Done, RunsFresh
    <3>2. CASE m.conn # s.conn
      <4>1. Granted
        BY <1>1, <1>5, <2>3, <3>2 DEF Granted
      <4>2. Fresh(daemon.answer.lease, op.port) /\ op.port \in Ports
        BY <4>1 DEF RunsFresh, RequestsSound, Served, Granted, Waiting
      <4>3. daemon.answer.lease # None
        BY <4>2, NoneAssumption DEF Fresh
      <4>4. daemon'.start[op.port] # None => daemon'.start[op.port].run # daemon.answer.lease
        BY <4>1, <4>2, <4>3 DEF Done, RunsFresh
      <4>5. QED
        BY <1>5, <3>2, <4>2, <4>4
    <3>3. QED
      BY <3>1, <3>2
  <2>4. \A run \in caller.handles : run.n <= daemon'.runs[run.port]
    BY DEF Done, RunsFresh
  <2>5. QED
    BY <1>1, <2>1, <2>2, <2>3, <2>4 DEF RunsFresh
<1>12. StartsKnown'
  <2>1. ASSUME NEW p \in Ports, Mine(daemon.start[p])'
        PROVE  Starting(p)'
    <3>1. daemon'.start[p] # None /\ daemon'.start[p].conn = s.conn
      BY <1>1, <2>1 DEF Mine
    <3>2. CASE m.conn = s.conn /\ p = m.port /\ m.kind \in {"start", "cancel"}
      <4>1. (m.kind = "start" => result = "pending") /\ (m.kind = "cancel" => result = "error")
        BY <3>1, <3>2 DEF Done
      <4>2. (m.kind = "start" => op.at = "polled") /\ (m.kind = "cancel" => op.at = "cancelled")
        <5>1. op.at \in StagesOf(op.kind)
              /\ op.kind \in {"start", "begin", "write", "end", "abort", "query", "renew"}
          BY <1>4, <3>2, OpFields, RequestFields DEF RequestsSound, Served
        <5>2. QED
          BY <1>4, <3>2, <5>1 DEF Sends, StagesOf, Waiting
      <4>3. op.kind = "start"
        BY <1>4, <3>2, <4>2, KindOfStage
      <4>4. QED
        BY <1>1, <1>4, <3>2, <4>1, <4>2, <4>3 DEF Starting
    <3>3. CASE m.conn = s.conn /\ ~(p = m.port /\ m.kind \in {"start", "cancel"})
      <4>1. daemon'.start[p] = daemon.start[p] \/ daemon'.start[p].state = "pending"
        BY <3>1 DEF Done
      <4>2. Mine(daemon.start[p]) => Starting(p)
        BY DEF StartsKnown
      <4>3. CASE p # m.port
        <5>1. Mine(daemon.start[p])
          BY <3>1, <4>3 DEF Done, Mine
        <5>2. op.then # None /\ op.then.port = p
          BY <1>4, <3>3, <4>2, <4>3, <5>1 DEF Starting
        <5>3. QED
          BY <1>1, <1>4, <3>3, <5>2 DEF Starting
      <4>4. CASE p = m.port
        <5>1. op.at \notin {"polled", "cancelled", "again"}
          BY <1>4, <3>3, <4>4 DEF Sends, Waiting
        <5>2. Mine(daemon.start[p])
          BY <3>1, <3>3, <4>4 DEF Done, Mine
        <5>3. op.then # None /\ op.then.port = p
          BY <4>2, <5>1, <5>2 DEF Starting
        <5>4. QED
          BY <1>1, <1>4, <3>3, <5>3 DEF Starting
      <4>5. QED
        BY <4>3, <4>4
    <3>4. CASE m.conn # s.conn
      <4>1. Mine(daemon.start[p])
        BY <3>1, <3>4 DEF Done, Mine
      <4>2. Starting(p)
        BY <4>1 DEF StartsKnown
      <4>3. QED
        BY <1>1, <1>5, <3>4, <4>2 DEF Starting
    <3>5. QED
      BY <3>2, <3>3, <3>4
  <2>2. \A p \in Ports : daemon'.start[p] # None /\ daemon'.start[p].state = "pending" => daemon'.holder[p] = None
    BY DEF Done, StartsKnown
  <2>3. QED
    BY <2>1, <2>2 DEF StartsKnown
<1>13. HoldersKnown'
  <2>1. ASSUME NEW p \in Ports, Mine(daemon.holder[p])'
        PROVE  \/ s.owned[p] # None /\ s.lease[p] = daemon'.holder[p].lease
               \/ Mine(daemon.start[p])' /\ daemon'.start[p].state = "granted" /\ daemon'.start[p].run = daemon'.holder[p].lease
               \/ Granted' /\ op.port = p /\ daemon'.answer.lease = daemon'.holder[p].lease
               \/ Releasing(p, daemon.holder[p].lease)'
    <3>1. Mine(daemon.holder[p]) /\ daemon'.holder[p].lease = daemon.holder[p].lease /\ daemon'.holder[p] # None
          /\ daemon'.holder[p].conn = s.conn
      BY <1>1, <1>7, <2>1 DEF Mine
    <3>2. CASE s.owned[p] # None /\ s.lease[p] = daemon.holder[p].lease
      BY <3>1, <3>2
    <3>3. CASE Mine(daemon.start[p]) /\ daemon.start[p].state = "granted" /\ daemon.start[p].run = daemon.holder[p].lease
      <4>1. CASE daemon'.start[p] = daemon.start[p]
        BY <1>1, <3>1, <3>3, <4>1 DEF Mine
      <4>2. CASE daemon'.start[p] # daemon.start[p]
        <5>1. daemon.holder[p] # None
          BY <3>1 DEF Mine
        <5>2. /\ m.kind = "start" /\ result = "granted" /\ lease = daemon.start[p].run /\ p = m.port
              /\ daemon.start[p].conn = m.conn
          BY <3>3, <4>2, <5>1 DEF Done
        <5>3. m.conn = s.conn
          BY <3>3, <5>2 DEF Mine
        <5>4. op.at = "polled"
          <6>1. op.at \in StagesOf(op.kind)
                /\ op.kind \in {"start", "begin", "write", "end", "abort", "query", "renew"}
            BY <1>4, <5>3, OpFields, RequestFields DEF RequestsSound, Served
          <6>2. QED
            BY <1>4, <5>2, <5>3, <6>1 DEF Sends, StagesOf, Waiting
        <5>5. QED
          BY <1>1, <1>4, <3>1, <3>3, <5>2, <5>3, <5>4 DEF Granted
      <4>3. QED
        BY <4>1, <4>2
    <3>4. CASE Granted /\ op.port = p /\ daemon.answer.lease = daemon.holder[p].lease
      <4>1. m.conn # s.conn
        BY <1>4, <3>4 DEF Granted
      <4>2. QED
        BY <1>1, <1>5, <3>1, <3>4, <4>1 DEF Granted
    <3>5. CASE Releasing(p, daemon.holder[p].lease)
      <4>1. PICK n \in daemon.inbox : n.conn = s.conn /\ n.kind = "release" /\ n.port = p /\ n.lease = daemon.holder[p].lease
        BY <3>5 DEF Releasing
      <4>2. n # m
        BY <3>1, <4>1 DEF Done
      <4>3. QED
        BY <1>1, <3>1, <4>1, <4>2 DEF Releasing
    <3>6. QED
      BY <3>1, <3>2, <3>3, <3>4, <3>5 DEF HoldersKnown
  <2>2. QED
    BY <1>1, <2>1 DEF HoldersKnown
<1>14. AbortedGone'
  <2>1. ASSUME op # None, op.at = "aborted", daemon'.answer # None, Mine(daemon.holder[op.port])'
        PROVE  FALSE
    <3>1. op.kind = "abort" /\ op.port \in Ports /\ op.then = None
      BY <2>1, KindOfStage DEF RequestsSound, Served, Waiting
    <3>2. Mine(daemon.holder[op.port]) /\ daemon'.holder[op.port].lease = daemon.holder[op.port].lease
          /\ daemon'.holder[op.port] # None /\ daemon'.holder[op.port].conn = s.conn
      BY <1>1, <1>7, <2>1, <3>1 DEF Mine
    <3>3. m.conn = s.conn
      BY <1>5, <2>1, <3>2 DEF AbortedGone
    <3>4. m.kind = "release" /\ m.port = op.port /\ m.lease = s.lease[op.port]
      BY <1>4, <2>1, <3>3 DEF Sends
    <3>5. daemon.holder[op.port].lease # m.lease
      BY <3>2, <3>3, <3>4 DEF Done
    <3>6. ~Mine(daemon.start[op.port]) /\ ~Granted
      BY <2>1, <3>1 DEF StartsKnown, Starting, Granted
    <3>7. ~Releasing(op.port, daemon.holder[op.port].lease)
      BY <1>4, <3>3, <3>5 DEF Releasing
    <3>8. QED
      BY <3>1, <3>2, <3>4, <3>5, <3>6, <3>7 DEF HoldersKnown
  <2>2. QED
    BY <1>1, <2>1 DEF AbortedGone
<1>15. WritesSound'
  <2>1. /\ written \subseteq written' /\ (written' # written => m.kind = "write" /\ written' = written \cup {m.write})
        /\ m.kind = "write" => m.write \in Writes /\ m.write \notin written
    BY <1>1 DEF Done, WritesSound
  <2>2. \A w \in Writes : w \in written' \/ InInbox(w)' => w \in written \/ InInbox(w)
    BY <1>1, <2>1 DEF InInbox
  <2>3. \A n \in daemon'.inbox : n.kind = "write" =>
          /\ n.write \in Writes /\ n.write \notin written'
          /\ Writing(n.write) /\ op.at = "wrote" => n.conn = s.conn
    BY <1>1, <2>1 DEF WritesSound
  <2>4. \A n, o \in daemon'.inbox : n.kind = "write" /\ o.kind = "write" /\ n.write = o.write => n = o
    BY <1>1 DEF WritesSound
  <2>5. op # None /\ op.at = "wrote" /\ daemon'.answer # None =>
          /\ daemon'.answer.result = "written" => op.write \in written'
          /\ daemon'.answer.result \in {"boundary", "run", "control"} => op.write \notin written'
    <3>1. CASE m.conn = s.conn
      <4>1. op.at = "wrote" => m.kind = "write"
        BY <1>4, <3>1 DEF Sends
      <4>2. QED
        BY <1>4, <2>1, <3>1, <4>1 DEF Done
    <3>2. CASE m.conn # s.conn
      <4>1. op # None /\ op.at = "wrote" => op.kind = "write"
        BY KindOfStage
      <4>2. op # None /\ op.at = "wrote" /\ m.kind = "write" => m.write # op.write
        BY <1>1, <3>2, <4>1 DEF WritesSound, Writing
      <4>3. QED
        BY <1>5, <2>1, <3>2, <4>2 DEF WritesSound
    <3>3. QED
      BY <3>1, <3>2
  <2>6. \A w \in Writes : s.told[w] = "written" => w \in written'
    BY <2>1 DEF WritesSound
  <2>7. \A w \in Writes : w \in written' \/ InInbox(w)' =>
          s.told[w] \in {"written", "uncertain"} \/ (Writing(w) /\ op.at = "wrote")
    BY <2>2 DEF WritesSound
  <2>8. \A n \in daemon'.inbox : n.kind = "write" =>
          /\ n.write \in Writes /\ n.write \notin written'
          /\ Writing(n.write)' /\ op.at = "wrote" => n.conn = s.conn
    BY <1>2, <2>3
  <2>9. QED
    BY <1>1, <1>2, <2>4, <2>5, <2>6, <2>7, <2>8 DEF WritesSound
<1>16. QED
  BY <1>2, <1>6, <1>8, <1>9, <1>10, <1>11, <1>12, <1>13, <1>14, <1>15

\* A Run start is decided: the Run that is granted is new, and its port is free.
LEMMA DecideKeeps ==
    ASSUME Invariant, NEW port \in Ports, NEW approve \in BOOLEAN, Decide(port, approve)
    PROVE  Invariant'
<1> USE DEF Invariant
<1>1. /\ s' = s /\ op' = op /\ queue' = queue /\ ended' = ended /\ caller' = caller /\ written' = written
      /\ SessionSound' /\ RequestsSound' /\ GuardsKnown' /\ UsesExact'
      /\ (Waiting' <=> Waiting) /\ \A w \in Writes : Writing(w)' <=> Writing(w)
  BY DaemonTouches DEF Decide, calls
<1>2. PICK start : start = daemon.start[port]
  OBVIOUS
<1>3. start \in Starts /\ start # None /\ start.state = "pending" /\ daemon.runs[port] < MaxRuns
      /\ start.conn <= daemon.made /\ daemon.holder[port] = None
  BY <1>2, DaemonFields DEF Decide, StartsKnown, ConnectionsKnown
<1>4. daemon \in DaemonState /\ daemon.runs \in [Ports -> 0..MaxRuns] /\ daemon.runs[port] \in 0..MaxRuns
  BY DaemonFields DEF TypeOK
<1>5. PICK run : run = Run(port, daemon.runs[port] + 1)
  OBVIOUS
<1>6. run \in Runs /\ run.port = port /\ run.n = daemon.runs[port] + 1 /\ run # None /\ daemon.runs[port] + 1 \in 0..MaxRuns
  <2>1. daemon.runs[port] + 1 \in 1..MaxRuns
    BY <1>3, <1>4, BoundsAssumption
  <2>2. QED
    BY <1>5, <2>1, NoneAssumption DEF Run, Runs
<1>7. PICK now, held :
        /\ now = IF approve THEN [conn |-> start.conn, state |-> "granted", run |-> run] ELSE [start EXCEPT !.state = "denied"]
        /\ held = [conn |-> start.conn, lease |-> run, run |-> TRUE]
  OBVIOUS
<1>8. /\ now \in Starts /\ held \in Holders /\ now # None /\ held # None /\ now.conn = start.conn
      /\ held.conn = start.conn /\ held.lease = run
      /\ now.state = (IF approve THEN "granted" ELSE "denied")
      /\ approve => now.run = run
  <2>1. held \in Holders /\ held.conn = start.conn /\ held.lease = run
    BY <1>3, <1>6, <1>7 DEF Starts, Holders
  <2>2. CASE approve
    <3>1. now = [conn |-> start.conn, state |-> "granted", run |-> run]
      BY <1>7, <2>2
    <3>2. now \in Starts /\ now.conn = start.conn /\ now.state = "granted" /\ now.run = run
      BY <1>3, <1>6, <3>1 DEF Starts
    <3>3. QED
      BY <2>1, <2>2, <3>2, EntriesAssumption
  <2>3. CASE ~approve
    <3>1. now = [start EXCEPT !.state = "denied"]
      BY <1>7, <2>3
    <3>2. now \in Starts /\ now.conn = start.conn /\ now.state = "denied"
      BY <1>3, <3>1 DEF Starts
    <3>3. QED
      BY <2>1, <2>3, <3>2, EntriesAssumption
  <2>4. QED
    BY <2>2, <2>3
<1>9. /\ daemon' \in DaemonState /\ daemon'.made = daemon.made /\ daemon'.conns = daemon.conns
      /\ daemon'.inbox = daemon.inbox /\ daemon'.answer = daemon.answer
      /\ daemon'.start[port] = now /\ \A p \in Ports : p # port => daemon'.start[p] = daemon.start[p]
      /\ \A p \in Ports : p # port => daemon'.holder[p] = daemon.holder[p]
      /\ daemon'.holder[port] = (IF approve THEN held ELSE None)
      /\ \A p \in Ports : daemon.runs[p] \in Nat /\ daemon'.runs[p] \in Nat /\ daemon.runs[p] <= daemon'.runs[p]
      /\ approve => daemon'.runs[port] = daemon.runs[port] + 1
  <2>1. CASE approve
    <3>1. daemon' = [daemon EXCEPT !.start[port] = now, !.runs[port] = daemon.runs[port] + 1, !.holder[port] = held]
      BY <1>2, <1>5, <1>7, <2>1 DEF Decide
    <3>2. /\ daemon' \in DaemonState /\ daemon'.made = daemon.made /\ daemon'.conns = daemon.conns
          /\ daemon'.inbox = daemon.inbox /\ daemon'.answer = daemon.answer
          /\ daemon'.start = [daemon.start EXCEPT ![port] = now] /\ daemon'.holder = [daemon.holder EXCEPT ![port] = held]
          /\ daemon'.runs = [daemon.runs EXCEPT ![port] = daemon.runs[port] + 1]
      BY <1>4, <1>6, <1>8, <3>1 DEF DaemonState
    <3>3. QED
      BY <1>4, <1>6, <2>1, <3>2, DaemonFields
  <2>2. CASE ~approve
    <3>1. daemon' = [daemon EXCEPT !.start[port] = now]
      BY <1>2, <1>4, <1>7, <2>2 DEF Decide, DaemonState
    <3>2. /\ daemon' \in DaemonState /\ daemon'.made = daemon.made /\ daemon'.conns = daemon.conns
          /\ daemon'.inbox = daemon.inbox /\ daemon'.answer = daemon.answer
          /\ daemon'.start = [daemon.start EXCEPT ![port] = now] /\ daemon'.holder = daemon.holder
          /\ daemon'.runs = daemon.runs
      BY <1>4, <1>8, <3>1 DEF DaemonState
    <3>3. QED
      BY <1>3, <1>4, <2>2, <3>2, DaemonFields
  <2>3. QED
    BY <2>1, <2>2
<1>10. TypeOK'
  BY <1>1, <1>9 DEF TypeOK
<1>11. ConnectionsKnown'
  <2>1. \A p \in Ports : daemon'.holder[p] # None => daemon'.holder[p].conn <= daemon.made
    BY <1>3, <1>8, <1>9 DEF ConnectionsKnown
  <2>2. \A p \in Ports : daemon'.start[p] # None => daemon'.start[p].conn <= daemon.made
    BY <1>3, <1>8, <1>9 DEF ConnectionsKnown
  <2>3. QED
    BY <1>1, <1>9, <2>1, <2>2 DEF ConnectionsKnown
<1>12. InFlight' /\ AnswerFits' /\ (Granted' <=> Granted)
  BY <1>1, <1>9 DEF InFlight, AnswerFits, Granted
<1>13. RunsFresh'
  <2>1. ASSUME NEW p \in Ports, NEW r, Fresh(r, p)
        PROVE  Fresh(r, p)'
    <3>1. r.n \in Nat
      BY <2>1 DEF Fresh, Runs
    <3>2. QED
      BY <1>1, <1>9, <2>1, <3>1 DEF Fresh
  <2>2. ASSUME NEW r \in caller.handles
        PROVE  r.n <= daemon.runs[r.port] /\ r.n <= daemon'.runs[r.port]
    <3>1. r \in Runs /\ r.n <= daemon.runs[r.port]
      BY DEF RunsFresh, TypeOK, CallerState
    <3>2. r.n \in Nat /\ r.port \in Ports
      BY <3>1 DEF Runs
    <3>3. QED
      BY <1>9, <3>1, <3>2
  <2>3. approve => Fresh(run, port)'
    <3>1. run \notin caller.handles
      BY <1>4, <1>6, <2>2
    <3>2. QED
      BY <1>1, <1>4, <1>6, <1>9, <3>1 DEF Fresh
  <2>4. \A p \in Ports : daemon'.start[p] # None /\ daemon'.start[p].state = "granted" => Fresh(daemon.start[p].run, p)'
    <3>1. ASSUME NEW p \in Ports, daemon'.start[p] # None, daemon'.start[p].state = "granted"
          PROVE  \E r : r = daemon'.start[p].run /\ Fresh(r, p)'
      <4>1. CASE p = port
        BY <1>8, <1>9, <2>3, <3>1, <4>1
      <4>2. CASE p # port
        BY <1>9, <2>1, <3>1, <4>2 DEF RunsFresh
      <4>3. QED
        BY <4>1, <4>2
    <3>2. QED
      BY <3>1 DEF Fresh
  <2>5. ASSUME Granted
        PROVE  /\ op.port \in Ports /\ Fresh(daemon.answer.lease, op.port)
               /\ daemon.answer.lease.n <= daemon'.runs[op.port]
               /\ daemon'.start[op.port] # None => daemon'.start[op.port].run # daemon.answer.lease
    <3>1. op.port \in Ports /\ Fresh(daemon.answer.lease, op.port)
      BY <2>5 DEF RunsFresh, RequestsSound, Served, Granted, Waiting
    <3>2. daemon'.start[op.port] # None => daemon'.start[op.port].run # daemon.answer.lease
      <4>1. CASE op.port = port
        <5>1. daemon.answer.lease.n <= daemon.runs[port] /\ daemon.answer.lease.n \in Nat
          BY <3>1, <4>1 DEF Fresh, Runs
        <5>2. run # daemon.answer.lease
          BY <1>4, <1>6, <5>1
        <5>3. ~approve => now.run = start.run
          BY <1>3, <1>7 DEF Starts
        <5>4. start.run # daemon.answer.lease
          BY <1>2, <1>3, <2>5, <4>1 DEF RunsFresh
        <5>5. QED
          BY <1>8, <1>9, <4>1, <5>2, <5>3, <5>4
      <4>2. CASE op.port # port
        BY <1>9, <2>5, <3>1, <4>2 DEF RunsFresh
      <4>3. QED
        BY <4>1, <4>2
    <3>3. daemon.answer.lease.n <= daemon'.runs[op.port]
      BY <2>1, <3>1 DEF Fresh
    <3>4. QED
      BY <3>1, <3>2, <3>3
  <2>6. QED
    BY <1>1, <1>9, <1>12, <2>1, <2>2, <2>4, <2>5 DEF RunsFresh, Fresh
<1>14. \A p \in Ports : /\ Mine(daemon.start[p])' => Mine(daemon.start[p]) /\ Starting(p)
                        /\ Starting(p) => Starting(p)'
  <2>1. ASSUME NEW p \in Ports, Mine(daemon.start[p])'
        PROVE  Mine(daemon.start[p])
    <3>1. CASE p = port
      BY <1>1, <1>2, <1>3, <1>8, <1>9, <2>1, <3>1 DEF Mine
    <3>2. CASE p # port
      BY <1>1, <1>9, <2>1, <3>2 DEF Mine
    <3>3. QED
      BY <3>1, <3>2
  <2>2. QED
    BY <1>1, <1>9, <2>1 DEF StartsKnown, Starting
<1>15. StartsKnown'
  BY <1>8, <1>9, <1>14 DEF StartsKnown
<1>16. HoldersKnown'
  <2>1. ASSUME NEW p \in Ports, Mine(daemon.holder[p])'
        PROVE  \/ s.owned[p] # None /\ s.lease[p] = daemon'.holder[p].lease
               \/ Mine(daemon.start[p])' /\ daemon'.start[p].state = "granted" /\ daemon'.start[p].run = daemon'.holder[p].lease
               \/ Granted' /\ op.port = p /\ daemon.answer.lease = daemon'.holder[p].lease
               \/ Releasing(p, daemon.holder[p].lease)'
    <3>1. CASE p = port
      BY <1>1, <1>8, <1>9, <2>1, <3>1 DEF Mine
    <3>2. CASE p # port
      <4>1. Mine(daemon.holder[p]) /\ daemon'.holder[p] = daemon.holder[p] /\ daemon'.start[p] = daemon.start[p]
        BY <1>1, <1>9, <2>1, <3>2 DEF Mine
      <4>2. Releasing(p, daemon.holder[p].lease) => Releasing(p, daemon.holder[p].lease)'
        BY <1>1, <1>9, <4>1 DEF Releasing
      <4>3. QED
        BY <1>1, <1>12, <4>1, <4>2 DEF HoldersKnown, Mine
    <3>3. QED
      BY <3>1, <3>2
  <2>2. QED
    BY <1>1, <1>9, <2>1 DEF HoldersKnown
<1>17. AbortedGone'
  <2>1. ASSUME op # None, op.at = "aborted", daemon.answer # None
        PROVE  ~Mine(daemon.holder[op.port])'
    <3>1. op.kind = "abort" /\ op.port \in Ports /\ op.then = None
      BY <2>1, KindOfStage DEF RequestsSound, Served, Waiting
    <3>2. CASE op.port = port
      <4>1. ~Mine(daemon.start[port])
        BY <2>1, <3>1 DEF StartsKnown, Starting
      <4>2. start.conn # s.conn
        BY <1>2, <1>3, <4>1 DEF Mine
      <4>3. QED
        BY <1>1, <1>8, <1>9, <3>2, <4>2 DEF Mine
    <3>3. CASE op.port # port
      BY <1>1, <1>9, <2>1, <3>1, <3>3 DEF Mine, AbortedGone
    <3>4. QED
      BY <3>2, <3>3
  <2>2. QED
    BY <1>1, <1>9, <2>1 DEF AbortedGone
<1>18. WritesSound'
  <2>1. \A w \in Writes : InInbox(w)' = InInbox(w)
    BY <1>9 DEF InInbox
  <2>2. \A m \in daemon.inbox : m.kind = "write" => m.write \in Writes
    BY DEF WritesSound
  <2>3. QED
    BY <1>1, <1>9, <2>1, <2>2 DEF WritesSound
<1>19. QED
  BY <1>1, <1>10, <1>11, <1>12, <1>13, <1>15, <1>16, <1>17, <1>18

\* Leases and Run starts are gone, perhaps with all of a connection; nothing is new.
Shrunk ==
    /\ UNCHANGED <<s, op, calls, written>>
    /\ daemon' \in DaemonState /\ daemon'.made = daemon.made /\ daemon'.runs = daemon.runs
    /\ daemon'.answer = daemon.answer
    /\ daemon'.conns \subseteq daemon.conns /\ daemon'.inbox \subseteq daemon.inbox
    /\ \A p \in Ports : /\ daemon'.holder[p] \in {None, daemon.holder[p]}
                        /\ daemon'.start[p] \in {None, daemon.start[p]}
                        /\ Mine(daemon'.holder[p]) /\ Mine(daemon.start[p]) => daemon'.start[p] = daemon.start[p]
    /\ (\E p \in Ports : Mine(daemon'.holder[p])) =>
            \A m \in daemon.inbox : m.conn = s.conn => m \in daemon'.inbox

\* What is gone leaves the rest in order.
LEMMA ShrunkKeeps ==
    ASSUME Invariant, Shrunk
    PROVE  Invariant'
<1> USE DEF Invariant
<1>1. /\ s' = s /\ op' = op /\ queue' = queue /\ ended' = ended /\ caller' = caller /\ written' = written
      /\ SessionSound' /\ RequestsSound' /\ GuardsKnown' /\ UsesExact'
      /\ (Waiting' <=> Waiting) /\ \A w \in Writes : Writing(w)' <=> Writing(w)
  BY DaemonTouches DEF Shrunk, calls
<1>2. TypeOK'
  BY <1>1 DEF TypeOK, Shrunk
<1>3. ConnectionsKnown'
  <2>1. \A p \in Ports : daemon'.holder[p] # None => daemon'.holder[p].conn <= daemon.made
    BY DEF ConnectionsKnown, Shrunk
  <2>2. \A p \in Ports : daemon'.start[p] # None => daemon'.start[p].conn <= daemon.made
    BY DEF ConnectionsKnown, Shrunk
  <2>3. QED
    BY <1>1, <2>1, <2>2 DEF ConnectionsKnown, Shrunk
<1>4. InFlight' /\ AnswerFits' /\ (Granted' <=> Granted)
  BY <1>1 DEF InFlight, AnswerFits, Granted, Shrunk
<1>5. RunsFresh'
  <2>1. \A r, p : Fresh(r, p)' <=> Fresh(r, p)
    BY <1>1 DEF Fresh, Shrunk
  <2>2. Granted => op.port \in Ports
    BY DEF Granted, RequestsSound, Served, Waiting
  <2>3. \A p \in Ports : daemon'.start[p] # None => daemon'.start[p] = daemon.start[p]
    BY DEF Shrunk
  <2>4. QED
    BY <1>1, <1>4, <2>1, <2>2, <2>3 DEF RunsFresh, Shrunk
<1>6. StartsKnown'
  <2>1. \A p \in Ports : Mine(daemon.start[p])' => Mine(daemon.start[p])
    BY <1>1 DEF Mine, Shrunk
  <2>2. \A p \in Ports : Starting(p)' <=> Starting(p)
    BY <1>1 DEF Starting, Shrunk
  <2>3. \A p \in Ports : daemon'.start[p] # None /\ daemon'.start[p].state = "pending" => daemon'.holder[p] = None
    BY DEF StartsKnown, Shrunk
  <2>4. QED
    BY <2>1, <2>2, <2>3 DEF StartsKnown
<1>7. HoldersKnown'
  <2>1. ASSUME NEW p \in Ports, Mine(daemon.holder[p])'
        PROVE  \/ s.owned[p] # None /\ s.lease[p] = daemon'.holder[p].lease
               \/ Mine(daemon.start[p])' /\ daemon'.start[p].state = "granted" /\ daemon'.start[p].run = daemon'.holder[p].lease
               \/ Granted' /\ op.port = p /\ daemon'.answer.lease = daemon'.holder[p].lease
               \/ Releasing(p, daemon.holder[p].lease)'
    <3>1. /\ Mine(daemon.holder[p]) /\ daemon'.holder[p] = daemon.holder[p] /\ Mine(daemon'.holder[p])
          /\ Mine(daemon.start[p]) => daemon'.start[p] = daemon.start[p]
      BY <1>1, <2>1 DEF Mine, Shrunk
    <3>2. Releasing(p, daemon.holder[p].lease) => Releasing(p, daemon.holder[p].lease)'
      BY <1>1, <3>1 DEF Releasing, Shrunk
    <3>3. QED
      BY <1>1, <1>4, <3>1, <3>2 DEF HoldersKnown, Mine, Shrunk
  <2>2. QED
    BY <1>1, <2>1 DEF HoldersKnown
<1>8. AbortedGone'
  <2>1. op # None /\ op.at = "aborted" => op.port \in Ports
    BY DEF RequestsSound, Served, Waiting
  <2>2. QED
    BY <1>1, <2>1 DEF AbortedGone, Mine, Shrunk
<1>9. WritesSound'
  <2>1. \A w \in Writes : InInbox(w)' => InInbox(w)
    BY DEF InInbox, Shrunk
  <2>2. \A m \in daemon'.inbox : m \in daemon.inbox
    BY DEF Shrunk
  <2>3. QED
    BY <1>1, <2>1, <2>2 DEF WritesSound, Shrunk
<1>10. QED
  BY <1>1, <1>2, <1>3, <1>4, <1>5, <1>6, <1>7, <1>8, <1>9

\* What a served message leaves of the daemon's state d.
LEMMA ServesIs ==
    ASSUME NEW m, NEW d \in DaemonState, NEW result, NEW lease \in Runs \cup {None}, Serves(m, d, result, lease),
           result \in {"granted", "pending", "denied", "error", "cancelled", "renewed", "control", "released",
                       "written", "uncertain", "boundary", "run", "ended", "told"}
    PROVE  /\ daemon' \in DaemonState /\ daemon'.made = d.made /\ daemon'.conns = d.conns
           /\ daemon'.runs = d.runs /\ daemon'.inbox = d.inbox \ {m}
           /\ daemon'.holder = d.holder /\ daemon'.start = d.start
           /\ daemon'.answer = IF m.conn = s.conn THEN [result |-> result, lease |-> lease] ELSE d.answer
<1>1. PICK answer : answer = IF m.conn = s.conn THEN [result |-> result, lease |-> lease] ELSE d.answer
  OBVIOUS
<1>2. answer \in Answers \cup {None}
  <2>1. [result |-> result, lease |-> lease] \in Answers
    BY DEF Answers
  <2>2. d.answer \in Answers \cup {None}
    BY DEF DaemonState
  <2>3. QED
    BY <1>1, <2>1, <2>2
<1>3. daemon' = [d EXCEPT !.inbox = d.inbox \ {m}, !.answer = answer]
  BY <1>1 DEF Serves, DaemonState
<1>4. QED
  BY <1>1, <1>2, <1>3 DEF DaemonState

\* Whatever the daemon does with a message, it is served so.
LEMMA ServeIsDone ==
    ASSUME Invariant, NEW m \in daemon.inbox, Serve(m)
    PROVE  \E result, lease : Done(m, result, lease)
<1> USE DEF Invariant
<1>1. m \in Messages /\ m.port \in Ports /\ m.lease \in Runs \cup {None} /\ m.conn \in Conns
      /\ UNCHANGED <<s, op, calls>> /\ daemon \in DaemonState
  BY DaemonFields DEF Messages, Serve, TypeOK
<1>2. /\ daemon.holder \in [Ports -> Holders \cup {None}] /\ daemon.start \in [Ports -> Starts \cup {None}]
      /\ \A p \in Ports : daemon.holder[p] # None => daemon.holder[p] \in Holders
      /\ \A p \in Ports : daemon.start[p] # None => daemon.start[p] \in Starts
  BY DaemonFields
\* The state is changed at the message's port only: that is left to show for each message.
<1>3. ASSUME NEW result, NEW lease \in Runs \cup {None}, result \in ResultsOf(m.kind), NEW d \in DaemonState,
             Serves(m, d, result, lease), result = "renewed" => lease = m.lease,
             d.made = daemon.made, d.conns = daemon.conns, d.runs = daemon.runs,
             d.inbox = daemon.inbox, d.answer = daemon.answer,
             \/ d = daemon
             \/ /\ d.start = daemon.start
                /\ \A p \in Ports : d.holder[p] # None =>
                    /\ daemon.holder[p] # None
                    /\ d.holder[p].conn = daemon.holder[p].conn /\ d.holder[p].lease = daemon.holder[p].lease
             \/ /\ d.holder = daemon.holder /\ m.kind \in {"start", "cancel"}
                /\ \A p \in Ports : p # m.port => d.start[p] = daemon.start[p]
                /\ \/ /\ d.start[m.port] = None /\ daemon.start[m.port] # None /\ daemon.start[m.port].conn = m.conn
                      /\ daemon.start[m.port].state = "granted" =>
                            m.kind = "start" /\ result = "granted" /\ lease = daemon.start[m.port].run
                   \/ /\ d.start[m.port] # None /\ d.start[m.port].conn = m.conn
                      /\ d.start[m.port].state = "pending" /\ d.start[m.port].run = None /\ daemon.holder[m.port] = None,
             m.kind = "release" /\ d.holder[m.port] # None =>
                ~(d.holder[m.port].conn = m.conn /\ d.holder[m.port].lease = m.lease),
             result = "granted" =>
                /\ daemon.start[m.port] # None /\ daemon.start[m.port].state = "granted"
                /\ daemon.start[m.port].run = lease /\ d.start[m.port] = None,
             d.start[m.port] # None /\ d.start[m.port].conn = m.conn =>
                /\ m.kind = "start" => result = "pending"
                /\ m.kind = "cancel" => result = "error",
             \/ written' = written
             \/ m.kind = "write" /\ result \in {"written", "uncertain"} /\ written' = written \cup {m.write},
             result = "written" => m.write \in written'
      PROVE  Done(m, result, lease)
  <2>1. result \in {"granted", "pending", "denied", "error", "cancelled", "renewed", "control", "released",
                    "written", "uncertain", "boundary", "run", "ended", "told"}
    BY <1>1, <1>3 DEF ResultsOf, Messages
  <2>2. /\ daemon' \in DaemonState /\ daemon'.made = d.made /\ daemon'.conns = d.conns
        /\ daemon'.runs = d.runs /\ daemon'.inbox = d.inbox \ {m}
        /\ daemon'.holder = d.holder /\ daemon'.start = d.start
        /\ daemon'.answer = IF m.conn = s.conn THEN [result |-> result, lease |-> lease] ELSE d.answer
    BY <1>3, <2>1, ServesIs
  <2>3. \A p \in Ports : daemon'.holder[p] # None =>
        /\ daemon.holder[p] # None
        /\ daemon'.holder[p].conn = daemon.holder[p].conn /\ daemon'.holder[p].lease = daemon.holder[p].lease
    BY <1>3, <2>2
  <2>4. \A p \in Ports : daemon'.start[p] # daemon.start[p] =>
        /\ p = m.port /\ m.kind \in {"start", "cancel"}
        /\ \/ /\ daemon'.start[p] = None /\ daemon.start[p] # None /\ daemon.start[p].conn = m.conn
              /\ daemon.start[p].state = "granted" =>
                    m.kind = "start" /\ result = "granted" /\ lease = daemon.start[p].run
           \/ /\ daemon'.start[p] # None /\ daemon'.start[p].conn = m.conn
              /\ daemon'.start[p].state = "pending" /\ daemon'.start[p].run = None /\ daemon.holder[p] = None
    BY <1>3, <2>2
  <2>5. QED
    BY <1>1, <1>3, <2>2, <2>3, <2>4 DEF Done
<1>4. CASE m.kind \in {"query", "renew", "release", "end"} /\ ServeControl(m)
  <2>1. written' = written
    BY <1>4 DEF ServeControl
  <2>2. CASE m.kind = "query"
    <3>1. Serves(m, daemon, "told", None) /\ "told" \in ResultsOf(m.kind)
      BY <1>4, <2>2 DEF ServeControl, ResultsOf
    <3>2. QED
      BY <1>1, <1>3, <2>1, <2>2, <3>1
  <2>3. CASE m.kind = "renew"
    <3>1. PICK result \in {"renewed", "control"} : Serves(m, daemon, result, m.lease)
      BY <1>4, <2>3 DEF ServeControl
    <3>2. result \in ResultsOf(m.kind)
      BY <2>3 DEF ResultsOf
    <3>3. QED
      BY <1>1, <1>3, <2>1, <2>3, <3>1, <3>2
  <2>4. CASE m.kind = "release"
    <3>1. CASE Holds(m)
      <4>1. PICK d : d = [daemon EXCEPT !.holder[m.port] = None]
        OBVIOUS
      <4>2. Serves(m, d, "released", None) /\ "released" \in ResultsOf(m.kind)
        BY <1>4, <2>4, <3>1, <4>1 DEF ServeControl, ResultsOf
      <4>3. /\ d \in DaemonState /\ d.made = daemon.made /\ d.conns = daemon.conns /\ d.runs = daemon.runs
            /\ d.inbox = daemon.inbox /\ d.answer = daemon.answer /\ d.start = daemon.start
            /\ d.holder = [daemon.holder EXCEPT ![m.port] = None]
        BY <1>1, <4>1 DEF DaemonState
      <4>4. \A p \in Ports : d.holder[p] = IF p = m.port THEN None ELSE daemon.holder[p]
        BY <1>1, <1>2, <4>3
      <4>5. QED
        BY <1>1, <1>3, <2>1, <2>4, <4>2, <4>3, <4>4
    <3>2. CASE ~Holds(m)
      <4>1. Serves(m, daemon, "control", None) /\ "control" \in ResultsOf(m.kind)
        BY <1>4, <2>4, <3>2 DEF ServeControl, ResultsOf
      <4>2. daemon.holder[m.port] # None => ~(daemon.holder[m.port].conn = m.conn /\ daemon.holder[m.port].lease = m.lease)
        BY <3>2 DEF Holds
      <4>3. QED
        BY <1>1, <1>3, <2>1, <2>4, <4>1, <4>2
    <3>3. QED
      BY <3>1, <3>2
  <2>5. CASE m.kind = "end"
    <3>1. CASE Holds(m) /\ daemon.holder[m.port].run
      <4>1. PICK held : held = [daemon.holder[m.port] EXCEPT !.run = FALSE]
        OBVIOUS
      <4>2. daemon.holder[m.port] \in Holders /\ daemon.holder[m.port] # None
        BY <1>1, <1>2, <3>1 DEF Holds
      <4>3. held \in Holders /\ held.conn = daemon.holder[m.port].conn /\ held.lease = daemon.holder[m.port].lease
        BY <4>1, <4>2 DEF Holders
      <4>4. PICK d : d = [daemon EXCEPT !.holder[m.port].run = FALSE]
        OBVIOUS
      <4>5. Serves(m, d, "ended", None) /\ "ended" \in ResultsOf(m.kind)
        BY <1>4, <2>5, <3>1, <4>4 DEF ServeControl, ResultsOf
      <4>6. d = [daemon EXCEPT !.holder[m.port] = held]
        BY <1>1, <1>2, <4>1, <4>4 DEF DaemonState
      <4>7. /\ d \in DaemonState /\ d.made = daemon.made /\ d.conns = daemon.conns /\ d.runs = daemon.runs
            /\ d.inbox = daemon.inbox /\ d.answer = daemon.answer /\ d.start = daemon.start
            /\ d.holder = [daemon.holder EXCEPT ![m.port] = held]
        BY <1>1, <4>3, <4>6 DEF DaemonState
      <4>8. \A p \in Ports : d.holder[p] # None =>
                /\ daemon.holder[p] # None
                /\ d.holder[p].conn = daemon.holder[p].conn /\ d.holder[p].lease = daemon.holder[p].lease
        BY <1>1, <1>2, <4>2, <4>3, <4>7
      <4>9. QED
        BY <1>1, <1>3, <2>1, <2>5, <4>5, <4>7, <4>8
    <3>2. CASE ~(Holds(m) /\ daemon.holder[m.port].run)
      <4>1. Serves(m, daemon, "control", None) /\ "control" \in ResultsOf(m.kind)
        BY <1>4, <2>5, <3>2 DEF ServeControl, ResultsOf
      <4>2. QED
        BY <1>1, <1>3, <2>1, <2>5, <4>1
    <3>3. QED
      BY <3>1, <3>2
  <2>6. QED
    BY <1>4, <2>2, <2>3, <2>4, <2>5
<1>5. ASSUME NEW result \in {"written", "uncertain", "boundary", "run", "control"}, ServeWrite(m, result)
      PROVE  Done(m, result, None)
  <2>1. m.kind = "write" /\ Serves(m, daemon, result, None) /\ result \in ResultsOf(m.kind)
    BY <1>5 DEF ServeWrite, ResultsOf
  <2>2. \/ written' = written /\ result # "written"
        \/ result \in {"written", "uncertain"} /\ written' = written \cup {m.write}
    BY <1>5 DEF ServeWrite
  <2>3. QED
    BY <1>1, <1>3, <2>1, <2>2
<1>6. CASE m.kind \in {"start", "cancel"} /\ ServeStart(m)
  <2>1. written' = written
    BY <1>6 DEF ServeStart
  <2>2. PICK start : start = daemon.start[m.port] /\ (start = None \/ start \in Starts)
    BY <1>1, <1>2
  <2>3. /\ "granted" \in ResultsOf("start") /\ "pending" \in ResultsOf("start") /\ "denied" \in ResultsOf("start")
        /\ "error" \in ResultsOf("start") /\ "error" \in ResultsOf("cancel") /\ "cancelled" \in ResultsOf("cancel")
    BY DEF ResultsOf
  <2>4. ASSUME NEW next \in Starts \cup {None}
        PROVE  \E d \in DaemonState :
                /\ d = [daemon EXCEPT !.start[m.port] = next]
                /\ d.made = daemon.made /\ d.conns = daemon.conns /\ d.runs = daemon.runs
                /\ d.inbox = daemon.inbox /\ d.answer = daemon.answer /\ d.holder = daemon.holder
                /\ d.start[m.port] = next /\ \A p \in Ports : p # m.port => d.start[p] = daemon.start[p]
    <3>1. PICK d : d = [daemon EXCEPT !.start[m.port] = next]
      OBVIOUS
    <3>2. /\ d \in DaemonState /\ d.made = daemon.made /\ d.conns = daemon.conns /\ d.runs = daemon.runs
          /\ d.inbox = daemon.inbox /\ d.answer = daemon.answer /\ d.holder = daemon.holder
          /\ d.start = [daemon.start EXCEPT ![m.port] = next]
      BY <1>1, <2>4, <3>1 DEF DaemonState
    <3>3. d.start[m.port] = next /\ \A p \in Ports : p # m.port => d.start[p] = daemon.start[p]
      BY <1>1, <1>2, <3>2
    <3>4. QED
      BY <3>1, <3>2, <3>3
  <2>5. CASE /\ start # None /\ start.conn = m.conn /\ (m.kind = "cancel" <=> start.state = "pending")
    <3>1. PICK d \in DaemonState :
            /\ d = [daemon EXCEPT !.start[m.port] = None]
            /\ d.made = daemon.made /\ d.conns = daemon.conns /\ d.runs = daemon.runs
            /\ d.inbox = daemon.inbox /\ d.answer = daemon.answer /\ d.holder = daemon.holder
            /\ d.start[m.port] = None /\ \A p \in Ports : p # m.port => d.start[p] = daemon.start[p]
      BY <2>4
    <3>2. CASE m.kind = "cancel"
      <4>1. PICK result, lease : result = "cancelled" /\ lease = None
        OBVIOUS
      <4>2. Serves(m, d, result, lease)
        BY <1>6, <2>2, <2>5, <3>1, <3>2, <4>1 DEF ServeStart
      <4>3. /\ daemon.start[m.port] # None /\ daemon.start[m.port].conn = m.conn /\ result \in ResultsOf(m.kind)
            /\ daemon.start[m.port].state # "granted" /\ result \notin {"granted", "renewed", "written"}
            /\ lease \in Runs \cup {None}
        BY <2>2, <2>3, <2>5, <3>2, <4>1
      <4>4. QED
        BY <1>3, <2>1, <3>1, <3>2, <4>2, <4>3
    <3>3. CASE m.kind = "start"
      <4>1. PICK result, lease : result = start.state /\ lease = (IF start.state = "granted" THEN start.run ELSE None)
        OBVIOUS
      <4>2. result \in {"granted", "denied"} /\ lease \in Runs \cup {None} /\ (result = "granted" => lease = start.run)
        BY <2>2, <2>5, <3>3, <4>1 DEF Starts
      <4>3. Serves(m, d, result, lease)
        BY <1>6, <2>2, <2>5, <3>1, <3>3, <4>1 DEF ServeStart
      <4>4. /\ daemon.start[m.port] # None /\ daemon.start[m.port].conn = m.conn /\ result \in ResultsOf(m.kind)
            /\ daemon.start[m.port].state = "granted" => result = "granted" /\ lease = daemon.start[m.port].run
            /\ result = "granted" => daemon.start[m.port].state = "granted" /\ daemon.start[m.port].run = lease
        BY <2>2, <2>3, <2>5, <3>3, <4>1, <4>2
      <4>5. QED
        BY <1>3, <2>1, <3>1, <3>3, <4>2, <4>3, <4>4
    <3>4. QED
      BY <1>6, <3>2, <3>3
  <2>6. CASE m.kind = "start" /\ start = None /\ daemon.holder[m.port] = None
    <3>1. PICK next : next = [conn |-> m.conn, state |-> "pending", run |-> None]
      OBVIOUS
    <3>2. next \in Starts /\ next # None /\ next.conn = m.conn /\ next.state = "pending" /\ next.run = None
      <4>1. next \in Starts /\ next.conn = m.conn /\ next.state = "pending" /\ next.run = None
        BY <1>1, <3>1 DEF Starts
      <4>2. QED
        BY <4>1, EntriesAssumption
    <3>3. PICK d \in DaemonState :
            /\ d = [daemon EXCEPT !.start[m.port] = next]
            /\ d.made = daemon.made /\ d.conns = daemon.conns /\ d.runs = daemon.runs
            /\ d.inbox = daemon.inbox /\ d.answer = daemon.answer /\ d.holder = daemon.holder
            /\ d.start[m.port] = next /\ \A p \in Ports : p # m.port => d.start[p] = daemon.start[p]
      BY <2>4, <3>2
    <3>4. Serves(m, d, "pending", None)
      BY <1>6, <2>2, <2>6, <3>1, <3>3 DEF ServeStart
    <3>5. PICK result, lease : result = "pending" /\ lease = None
      OBVIOUS
    <3>6. Serves(m, d, result, lease) /\ result \in ResultsOf(m.kind)
      BY <2>3, <2>6, <3>4, <3>5
    <3>7. /\ d.start[m.port] # None /\ d.start[m.port].conn = m.conn
          /\ d.start[m.port].state = "pending" /\ d.start[m.port].run = None /\ daemon.holder[m.port] = None
      BY <2>6, <3>2, <3>3
    <3>8. m.kind # "release" /\ m.kind # "cancel" /\ result \notin {"granted", "renewed", "written"} /\ lease \in Runs \cup {None}
      BY <2>6, <3>5
    <3>9. /\ d.holder = daemon.holder /\ m.kind \in {"start", "cancel"}
          /\ \A p \in Ports : p # m.port => d.start[p] = daemon.start[p]
          /\ \/ /\ d.start[m.port] = None /\ daemon.start[m.port] # None /\ daemon.start[m.port].conn = m.conn
                /\ daemon.start[m.port].state = "granted" =>
                      m.kind = "start" /\ result = "granted" /\ lease = daemon.start[m.port].run
             \/ /\ d.start[m.port] # None /\ d.start[m.port].conn = m.conn
                /\ d.start[m.port].state = "pending" /\ d.start[m.port].run = None /\ daemon.holder[m.port] = None
      BY <2>6, <3>3, <3>7
    <3>10. d \in DaemonState /\ d.made = daemon.made /\ d.conns = daemon.conns /\ d.runs = daemon.runs
           /\ d.inbox = daemon.inbox /\ d.answer = daemon.answer
      BY <3>3
    <3>11. QED
      BY ONLY <1>3, <2>1, <3>5, <3>6, <3>8, <3>9, <3>10
  <2>7. CASE m.kind = "start" /\ start # None /\ start.conn = m.conn /\ start.state = "pending"
    <3>1. Serves(m, daemon, "pending", None)
      BY <1>6, <2>2, <2>7 DEF ServeStart
    <3>2. QED
      BY <1>1, <1>3, <2>1, <2>3, <2>7, <3>1
  <2>8. CASE \/ m.kind = "start" /\ start # None /\ start.conn # m.conn
             \/ m.kind = "start" /\ start = None /\ daemon.holder[m.port] # None
             \/ m.kind = "cancel" /\ ~(start # None /\ start.conn = m.conn /\ start.state = "pending")
    <3>1. Serves(m, daemon, "error", None)
      BY <1>6, <2>2, <2>8 DEF ServeStart
    <3>2. m.kind = "start" => start = None \/ start.conn # m.conn
      BY <2>8
    <3>3. QED
      BY <1>1, <1>3, <2>1, <2>2, <2>3, <2>8, <3>1, <3>2
  <2>9. QED
    BY <1>6, <2>5, <2>6, <2>7, <2>8
<1>7. QED
  BY <1>4, <1>5, <1>6 DEF Serve

\* A revoked lease leaves less.
LEMMA RevokeIsShrunk ==
    ASSUME Invariant, NEW port \in Ports, Revoke(port)
    PROVE  Shrunk
<1>1. daemon \in DaemonState /\ daemon' = [daemon EXCEPT !.holder[port] = None]
  BY DEF Invariant, TypeOK, Revoke
<1>2. /\ daemon' \in DaemonState /\ daemon'.made = daemon.made /\ daemon'.conns = daemon.conns
      /\ daemon'.runs = daemon.runs /\ daemon'.inbox = daemon.inbox /\ daemon'.answer = daemon.answer
      /\ daemon'.start = daemon.start /\ daemon'.holder = [daemon.holder EXCEPT ![port] = None]
  BY <1>1 DEF DaemonState
<1>3. \A p \in Ports : daemon'.holder[p] \in {None, daemon.holder[p]}
  BY <1>2, DaemonFields DEF Invariant
<1>4. QED
  BY <1>2, <1>3 DEF Shrunk, Revoke

\* A closed connection takes its messages, its leases and its Run starts with it.
LEMMA ClosedIsShrunk ==
    ASSUME Invariant, NEW conn \in daemon.conns, Closed(conn)
    PROVE  Shrunk
<1> DEFINE Without(f) == [p \in Ports |-> IF f[p] = None THEN None ELSE IF f[p].conn = conn THEN None ELSE f[p]]
<1>1. daemon \in DaemonState
      /\ daemon' = [daemon EXCEPT !.conns = daemon.conns \ {conn}, !.inbox = {m \in daemon.inbox : m.conn # conn},
                                  !.holder = Without(daemon.holder), !.start = Without(daemon.start)]
  BY DEF Invariant, TypeOK, Closed, DaemonState
<1>2. /\ Without(daemon.holder) \in [Ports -> Holders \cup {None}] /\ Without(daemon.start) \in [Ports -> Starts \cup {None}]
  BY DaemonFields DEF Invariant
<1>3. \A p \in Ports : /\ Without(daemon.holder)[p] \in {None, daemon.holder[p]}
                       /\ Without(daemon.start)[p] \in {None, daemon.start[p]}
                       /\ Without(daemon.holder)[p] # None => Without(daemon.holder)[p].conn # conn
                       /\ Without(daemon.start)[p] # daemon.start[p] => daemon.start[p].conn = conn
  OBVIOUS
<1> HIDE DEF Without
<1>4. /\ daemon' \in DaemonState /\ daemon'.made = daemon.made /\ daemon'.conns = daemon.conns \ {conn}
      /\ daemon'.runs = daemon.runs /\ daemon'.inbox = {m \in daemon.inbox : m.conn # conn}
      /\ daemon'.answer = daemon.answer
      /\ daemon'.start = Without(daemon.start) /\ daemon'.holder = Without(daemon.holder)
  BY <1>1, <1>2 DEF DaemonState
<1>5. \A p \in Ports : Mine(daemon'.holder[p]) => s.conn # conn
  BY <1>3, <1>4 DEF Mine
<1>6. \A p \in Ports : Mine(daemon'.holder[p]) /\ Mine(daemon.start[p]) => daemon'.start[p] = daemon.start[p]
  BY <1>3, <1>4, <1>5 DEF Mine
<1>7. (\E p \in Ports : Mine(daemon'.holder[p])) => \A m \in daemon.inbox : m.conn = s.conn => m \in daemon'.inbox
  BY <1>4, <1>5
<1>8. QED
  BY <1>3, <1>4, <1>6, <1>7 DEF Shrunk, Closed

-----------------------------------------------------------------------------
(* How the task's steps end, send and release *)

\* What a caller is told of its write is so.
Truly(told) ==
    \/ told = s.told /\ op.at # "wrote"
    \/ \E what \in {"written", "unwritten", "uncertain"} :
        /\ op.kind = "write" /\ told = [s.told EXCEPT ![op.write] = what]
        /\ what = "unwritten" => op.write \notin written /\ ~InInbox(op.write)
        /\ what = "written" => op.write \in written

\* The session t that is left when the request is over: it keeps the connection only with
\* the request's answer, and when the daemon holds nothing for what it forgets.
Over(t) ==
    /\ t \in SessionState /\ t.conn \in {0, s.conn}
    /\ \A p \in Ports : \/ t.owned[p] = s.owned[p] /\ t.lease[p] = s.lease[p]
                        \/ t.owned[p] = None /\ t.lease[p] = None
    /\ t.conn = 0 => t.owned = NoRun
    /\ t.conn # 0 =>
        /\ (~Waiting \/ daemon.answer # None) /\ ~Granted
        /\ op.kind = "start" => ~Mine(daemon.start[op.port])
        /\ \A p \in Ports : t.owned[p] # s.owned[p] => ~Mine(daemon.holder[p])
    /\ Truly(t.told)

\* The caller that hears has its answer.
LEMMA HearsIs ==
    ASSUME TypeOK, NEW o, o.caller \in Callers \cup {None}, Hears(o, None)
    PROVE  /\ op' = o.then /\ ended' = ended
           /\ caller' = IF o.caller = None THEN caller ELSE [caller EXCEPT !.waits[o.caller] = None]
<1>1. caller \in CallerState /\ caller.guard \in [Callers -> Runs \cup {None}]
  BY DEF TypeOK, CallerState
<1>2. op' = o.then /\ ended' = ended
  BY DEF Hears
<1>3. CASE o.caller = None
  BY <1>2, <1>3 DEF Hears
<1>4. CASE o.caller \in Callers
  <2>1. o.caller # None
    BY <1>4, NoneAssumption
  <2>2. caller' = [caller EXCEPT !.waits[o.caller] = None, !.guard[o.caller] = caller.guard[o.caller]]
    BY <1>1, <2>1 DEF Hears, CallerState
  <2>3. caller' = [caller EXCEPT !.waits[o.caller] = None]
    BY <1>1, <1>4, <2>2 DEF CallerState
  <2>4. QED
    BY <1>2, <2>1, <2>3
<1>5. QED
  BY <1>3, <1>4

\* Without a request under way there is no answer.
LEMMA Unanswered ==
    ASSUME Invariant, ~Waiting
    PROVE  daemon.answer = None /\ daemon = [daemon EXCEPT !.answer = None] /\ ~Granted
           /\ \A m \in daemon.inbox : m.conn # s.conn
BY DEF Invariant, AnswerFits, InFlight, TypeOK, DaemonState, Granted

\* The request is over, and its caller hears it.
LEMMA OverKeeps ==
    ASSUME Invariant, op # None, NEW t, Over(t), s' = t, NEW o, o.caller = op.caller, o.then = op.then,
           Hears(o, None), UNCHANGED <<queue, written>>,
           daemon' = [daemon EXCEPT !.answer = None] \/ (daemon' = daemon /\ ~Waiting)
    PROVE  Invariant'
<1>1. op.caller \in Callers \cup {None}
  BY OpFields DEF Invariant
<1>2. /\ op' = op.then /\ ended' = ended
      /\ caller' = IF op.caller = None THEN caller ELSE [caller EXCEPT !.waits[op.caller] = None]
  BY <1>1, HearsIs DEF Invariant
<1>3. daemon' = [daemon EXCEPT !.answer = None]
  BY Unanswered
<1>4. Ended(op)
  BY <1>2, <1>3 DEF Ended, Over, Truly, Told
<1>5. QED
  BY <1>4, EndedKeeps

\* Nothing is left without the connection.
LEMMA OverLost ==
    ASSUME Invariant, op # None, NEW t \in SessionState, t.conn = 0, t.owned = NoRun, t.lease = NoRun, Truly(t.told)
    PROVE  Over(t)
BY DEF Over, NoRun

\* All is left when the request had its answer.
LEMMA OverSame ==
    ASSUME Invariant, op # None, NEW t \in SessionState, ~Waiting \/ daemon.answer # None, ~Granted,
           t.conn = s.conn, t.owned = s.owned, t.lease = s.lease,
           op.kind = "start" => ~Mine(daemon.start[op.port]), Truly(t.told)
    PROVE  Over(t)
<1>1. s.conn = 0 => s.owned = NoRun
  <2>1. s.conn = 0 => \A p \in Ports : s.owned[p] = None
    BY DEF Invariant, SessionSound
  <2>2. s.owned \in [Ports -> OwnedRuns \cup {None}]
    BY SessionFields DEF Invariant, TypeOK
  <2>3. QED
    BY <2>1, <2>2 DEF NoRun
<1>2. QED
  BY <1>1 DEF Over

\* A write that was not sent has not reached the device.
LEMMA NotBegun ==
    ASSUME Invariant, op # None, op.kind = "write"
    PROVE  /\ op.write \in Writes
           /\ op.at # "wrote" => op.write \notin written /\ ~InInbox(op.write)
<1> USE DEF Invariant
<1>1. op.write \in Writes /\ op.write # 0
  BY DEF RequestsSound, Served, Addressed, Writes
<1>2. s.told[op.write] = None
  BY <1>1 DEF WritesSound
<1>3. op.at # "wrote" => op.write \notin written /\ ~InInbox(op.write)
  BY <1>1, <1>2, NoneAssumption DEF WritesSound
<1>4. QED
  BY <1>1, <1>3

\* A request that has written nothing says so.
LEMMA UnwrittenIs ==
    ASSUME Invariant, op # None, op.at # "wrote", NEW t \in SessionState, t.told = s.told,
           NEW u, u = Unwritten(t, op)
    PROVE  /\ u \in SessionState /\ u.conn = t.conn /\ u.owned = t.owned /\ u.lease = t.lease /\ Truly(u.told)
<1>1. CASE op.kind = "write"
  <2>1. op.write \in Writes /\ op.write \notin written /\ ~InInbox(op.write)
    BY <1>1, NotBegun
  <2>2. u = Tell(t, op.write, "unwritten")
    BY <1>1 DEF Unwritten
  <2>3. /\ u \in SessionState /\ u.conn = t.conn /\ u.told = [t.told EXCEPT ![op.write] = "unwritten"]
        /\ u.owned = t.owned /\ u.lease = t.lease
    <3>1. PICK w, what : w = op.write /\ what = "unwritten"
      OBVIOUS
    <3>2. w \in Writes /\ what \in {"written", "unwritten", "uncertain"} /\ u = Tell(t, w, what)
      BY <2>1, <2>2, <3>1
    <3>3. /\ u \in SessionState /\ u.conn = t.conn /\ u.told = [t.told EXCEPT ![w] = what]
          /\ u.owned = t.owned /\ u.lease = t.lease
      BY <3>2 DEF Tell, SessionState
    <3>4. QED
      BY <3>1, <3>3
  <2>4. QED
    BY <1>1, <2>1, <2>3 DEF Truly
<1>2. CASE op.kind # "write"
  BY <1>2 DEF Unwritten, Truly
<1>3. QED
  BY <1>1, <1>2

\* A message is sent over the connection, or over a new one, or the call has lost.
LEMMA CallKeeps ==
    ASSUME Invariant, op # None, ~Waiting, NEW o \in RequestOf(Simple \cup {None}), NEW at, NEW kind,
           Call(s, o, at, kind, o.port), UNCHANGED <<calls, written>>,
           o.kind = op.kind, o.caller = op.caller, o.write = op.write, o.run = op.run, o.then = op.then,
           o.pending = op.pending, o.port \in Ports, op.kind # "renew" => o.port = op.port,
           at \in StagesOf(op.kind), at \notin {"start", "again", "released"}, kind = Sends(at),
           at = "cancelled" => op.pending, op.kind = "start" => s.owned[op.port] = None
    PROVE  Invariant'
<1> USE DEF Invariant
<1>1. s \in SessionState /\ daemon \in DaemonState /\ daemon.answer = None /\ ~Granted /\ daemon.made \in Nat
  BY Unanswered, DaemonFields DEF TypeOK
<1>2. op.kind \in {"start", "begin", "write", "end", "abort", "query", "renew"} /\ op.at # "wrote"
  BY OpFields, RequestFields DEF Waiting
<1>3. at \in {"polled", "cancelled", "renewed", "wrote", "stopped", "aborted", "asked", "kept"}
      /\ kind \in {"start", "cancel", "renew", "release", "write", "end", "query"}
  BY <1>2 DEF StagesOf, Sends
<1>4. /\ op' \in RequestOf(Simple \cup {None}) /\ op'.at = at /\ op'.kind = op.kind /\ op'.caller = op.caller
      /\ op'.write = op.write /\ op'.run = op.run /\ op'.then = op.then /\ op'.pending = op.pending
      /\ op'.port = o.port
  <2>1. op' = [o EXCEPT !.at = at]
    BY DEF Call
  <2>2. QED
    BY <1>3, <2>1 DEF RequestOf
<1>5. GoesOn
  BY <1>2, <1>4 DEF GoesOn
<1>6. s.conn = 0 => s.owned = NoRun /\ s.lease = NoRun
  <2>1. s.conn = 0 => \A p \in Ports : s.owned[p] = None /\ s.lease[p] = None
    BY DEF SessionSound
  <2>2. s.owned \in [Ports -> OwnedRuns \cup {None}] /\ s.lease \in [Ports -> Runs \cup {None}]
    BY <1>1, SessionFields
  <2>3. QED
    BY <2>1, <2>2 DEF NoRun
<1>7. ASSUME NEW u \in SessionState, NEW m, m = Message(u, kind, o.port, o), u.conn # 0, u.lease = s.lease
      PROVE  /\ m \in Messages /\ m.conn = u.conn /\ m.kind = kind /\ m.port = o.port /\ m.write = op.write
             /\ m.lease = s.lease[o.port]
  <2>1. u.conn \in Conns /\ u.lease[o.port] \in Runs \cup {None}
    BY <1>7 DEF SessionState
  <2>2. o.run \in Runs \cup {None} /\ o.write \in {0} \cup Writes
    BY RequestFields
  <2>3. QED
    BY <1>3, <1>7, <2>1, <2>2 DEF Message, Messages
<1>8. CASE s.conn # 0 /\ s' = s /\ daemon' = [daemon EXCEPT !.inbox = @ \cup {Message(s, kind, o.port, o)}]
  <2>1. PICK m : m = Message(s, kind, o.port, o)
    OBVIOUS
  <2>2. /\ m \in Messages /\ m.conn = s.conn /\ m.kind = kind /\ m.port = o.port /\ m.write = op.write
        /\ m.lease = s.lease[o.port]
    BY <1>1, <1>7, <1>8, <2>1
  <2>3. /\ daemon' \in DaemonState /\ daemon'.holder = daemon.holder /\ daemon'.start = daemon.start
        /\ daemon'.runs = daemon.runs /\ daemon'.answer = None /\ daemon'.made = daemon.made
        /\ daemon'.conns = daemon.conns /\ daemon'.inbox = daemon.inbox \cup {m}
    BY <1>1, <1>8, <2>1, <2>2 DEF DaemonState
  <2>4. Sent
    BY <1>1, <1>3, <1>4, <1>5, <1>8, <2>2, <2>3 DEF Sent
  <2>5. QED
    BY <2>4, SentKeeps
<1>9. ASSUME s.conn = 0, daemon.made < MaxConns, NEW u, u = [Disconnected(s) EXCEPT !.conn = daemon.made + 1], s' = u,
             daemon' = [daemon EXCEPT !.made = @ + 1, !.conns = @ \cup {daemon.made + 1},
                                      !.inbox = @ \cup {Message(u, kind, o.port, o)}]
      PROVE  Invariant'
  <2>1. daemon.made + 1 \in Conns /\ daemon.made + 1 # 0
    BY <1>1, <1>9, BoundsAssumption DEF Conns
  <2>2. /\ u \in SessionState /\ u.conn = daemon.made + 1 /\ u.lease = s.lease /\ u.owned = s.owned /\ u.told = s.told
    <3>1. PICK t : t = Disconnected(s)
      OBVIOUS
    <3>2. /\ t \in SessionState /\ t.lease = s.lease /\ t.owned = s.owned /\ t.told = s.told
      BY <1>1, <1>6, <1>9, <3>1, DisconnectedIs
    <3>3. u = [t EXCEPT !.conn = daemon.made + 1]
      BY <1>9, <3>1
    <3>4. QED
      BY <2>1, <3>2, <3>3 DEF SessionState
  <2>3. PICK m : m = Message(u, kind, o.port, o)
    OBVIOUS
  <2>4. /\ m \in Messages /\ m.conn = u.conn /\ m.kind = kind /\ m.port = o.port /\ m.write = op.write
        /\ m.lease = s.lease[o.port]
    BY <1>7, <2>1, <2>2, <2>3
  <2>5. /\ daemon' \in DaemonState /\ daemon'.holder = daemon.holder /\ daemon'.start = daemon.start
        /\ daemon'.runs = daemon.runs /\ daemon'.answer = None /\ daemon'.made = daemon.made + 1
        /\ daemon'.conns = daemon.conns \cup {daemon.made + 1} /\ daemon'.inbox = daemon.inbox \cup {m}
    <3>1. daemon' = [daemon EXCEPT !.made = daemon.made + 1, !.conns = daemon.conns \cup {daemon.made + 1},
                                   !.inbox = daemon.inbox \cup {m}]
      BY <1>9, <2>3
    <3>2. daemon.inbox \cup {m} \subseteq Messages /\ daemon.conns \cup {daemon.made + 1} \subseteq Conns
      BY <1>1, <2>1, <2>4 DEF DaemonState
    <3>3. QED
      BY <1>1, <2>1, <3>1, <3>2 DEF DaemonState
  <2>6. Sent
    BY <1>1, <1>3, <1>4, <1>5, <1>9, <2>2, <2>4, <2>5 DEF Sent
  <2>7. QED
    BY <2>6, SentKeeps
<1>10. CASE s.conn = 0 /\ s' = Disconnected(s) /\ daemon' = daemon
  <2>1. s' \in SessionState /\ s'.conn = s.conn /\ s'.lease = s.lease /\ s'.owned = s.owned /\ s'.told = s.told
    <3>1. PICK t : t = Disconnected(s)
      OBVIOUS
    <3>2. QED
      BY <1>1, <1>6, <1>10, <3>1, DisconnectedIs
  <2>2. Sent
    BY <1>1, <1>3, <1>4, <1>5, <1>10, <2>1 DEF Sent
  <2>3. QED
    BY <2>2, SentKeeps
<1>11. QED
  BY <1>8, <1>9, <1>10 DEF Call

\* A lease is released, or there is none to release.
LEMMA ReleaseKeeps ==
    ASSUME Invariant, op # None, ~Waiting, NEW o \in RequestOf(Simple \cup {None}), Release(s, o),
           o.kind = op.kind, o.caller = op.caller, o.write = op.write, o.run = op.run, o.then = op.then,
           o.port \in Ports, op.kind # "renew" => o.port = op.port, op.kind \in {"begin", "renew"}
    PROVE  Invariant'
<1> USE DEF Invariant
<1>1. s \in SessionState /\ daemon.answer = None /\ ~Granted /\ daemon \in DaemonState
      /\ s.owned \in [Ports -> OwnedRuns \cup {None}] /\ s.lease \in [Ports -> Runs \cup {None}]
  BY Unanswered, SessionFields DEF TypeOK
<1>2. PICK u, port, lease : u = Forgotten(s, port) /\ port = o.port /\ lease = s.lease[port]
  OBVIOUS
<1>3. /\ u \in SessionState /\ u.conn = s.conn /\ u.told = s.told
      /\ u.lease = [s.lease EXCEPT ![port] = None] /\ u.owned = [s.owned EXCEPT ![port] = None]
  BY <1>1, <1>2 DEF Forgotten, SessionState
<1>4. op.at # "wrote" /\ op.at \in {"start", "again"}
  BY DEF Waiting
<1>5. CASE lease = None \/ s.conn = 0
  <2>1. s.owned[port] = None /\ s.lease[port] = None
    BY <1>1, <1>2, <1>5, NoneAssumption DEF SessionSound, OwnedRuns
  <2>2. u.lease = s.lease /\ u.owned = s.owned
    BY <1>1, <1>2, <1>3, <2>1
  <2>3. Over(u)
    BY <1>1, <1>3, <1>4, <2>2, OverSame DEF Truly
  <2>4. Reply(u, o)
    BY <1>2, <1>5 DEF Release
  <2>5. QED
    BY <2>3, <2>4, OverKeeps DEF Reply
<1>6. CASE ~(lease = None \/ s.conn = 0)
  <2>1. PICK m : m = [Message(s, "release", port, o) EXCEPT !.lease = lease]
    OBVIOUS
  <2>2. s' = u /\ op' = [o EXCEPT !.at = "released"] /\ daemon' = [daemon EXCEPT !.inbox = @ \cup {m}]
        /\ UNCHANGED <<calls, written>>
    BY <1>2, <1>6, <2>1 DEF Release
  <2>3. m \in Messages /\ m.conn = s.conn /\ m.kind = "release" /\ m.port = port /\ m.lease = lease /\ m.write = op.write
    <3>1. lease \in Runs /\ s.conn \in Conns /\ o.run \in Runs \cup {None} /\ o.write \in {0} \cup Writes
      BY <1>1, <1>2, <1>6, RequestFields DEF SessionState
    <3>2. QED
      BY <1>1, <1>2, <2>1, <3>1 DEF Message, Messages
  <2>4. /\ op' \in RequestOf(Simple \cup {None}) /\ op'.at = "released" /\ op'.kind = op.kind /\ op'.caller = op.caller
        /\ op'.write = op.write /\ op'.run = op.run /\ op'.then = op.then /\ op'.port = port
    BY <1>2, <2>2 DEF RequestOf
  <2>5. "released" \in StagesOf(op.kind)
    BY DEF StagesOf
  <2>6. GoesOn
    BY <1>2, <1>4, <2>2, <2>4, <2>5 DEF GoesOn
  <2>7. daemon' = [daemon EXCEPT !.answer = None, !.inbox = daemon.inbox \cup {m}]
    BY <1>1, <2>2 DEF DaemonState
  <2>8. \E n \in Messages :
            /\ daemon' = [daemon EXCEPT !.answer = None, !.inbox = daemon.inbox \cup {n}]
            /\ n.conn = s.conn /\ n.kind = "release" /\ n.port = op'.port /\ n.lease = lease /\ n.write = op.write
    BY <2>3, <2>4, <2>7
  <2>9. Released(lease)
    BY <1>1, <1>2, <1>3, <1>4, <2>2, <2>4, <2>6, <2>8 DEF Released
  <2>10. QED
    BY <2>9, ReleasedKeeps
<1>7. QED
  BY <1>5, <1>6

\* A request that changes nothing is over at once.
LEMMA NothingDone ==
    ASSUME Invariant, op # None, ~Waiting, NEW t \in SessionState, t.conn = s.conn, t.owned = s.owned, t.lease = s.lease,
           Truly(t.told), op.kind = "start" => op.at = "start", Reply(t, op)
    PROVE  Invariant'
<1>1. ~Granted
  BY Unanswered
<1>2. op.kind = "start" => ~Mine(daemon.start[op.port])
  BY DEF Invariant, StartsKnown, Starting, RequestsSound, Served, Addressed
<1>3. Over(t)
  BY <1>1, <1>2, OverSame
<1>4. QED
  BY <1>3, OverKeeps DEF Reply

\* The connection is given up, and the request with it.
LEMMA LostDone ==
    ASSUME Invariant, op # None, op.at # "wrote", NEW t \in SessionState, t.told = s.told,
           NEW u, u = Disconnected(Unwritten(t, op)) \/ u = Disconnected(t) \/ u = Unwritten(Disconnected(t), op)
    PROVE  Over(u)
<1> USE DEF Invariant
<1>1. PICK v, d, e : v = Unwritten(t, op) /\ d = Disconnected(t) /\ e = Disconnected(v)
  OBVIOUS
<1>2. v \in SessionState /\ Truly(v.told)
  BY <1>1, UnwrittenIs
<1>3. d \in SessionState /\ d.conn = 0 /\ d.owned = NoRun /\ d.lease = NoRun /\ d.told = s.told
  BY <1>1, DisconnectedIs
<1>4. e \in SessionState /\ e.conn = 0 /\ e.owned = NoRun /\ e.lease = NoRun /\ e.told = v.told
  BY <1>1, <1>2, DisconnectedIs
<1>5. Over(e)
  BY <1>2, <1>4, OverLost
<1>6. Truly(d.told) /\ Over(d)
  <2>1. Truly(d.told)
    BY <1>3 DEF Truly
  <2>2. QED
    BY <1>3, <2>1, OverLost
<1>7. u = Unwritten(d, op) => Over(u)
  <2>1. ASSUME u = Unwritten(d, op)
        PROVE  u \in SessionState /\ u.conn = d.conn /\ u.owned = d.owned /\ u.lease = d.lease /\ Truly(u.told)
    BY <1>3, <2>1, UnwrittenIs
  <2>2. QED
    BY <1>3, <2>1, OverLost
<1>8. QED
  BY <1>1, <1>5, <1>6, <1>7

\* begin_run_use keeps the invariant.
LEMMA BeginRunUseKeeps ==
    ASSUME Invariant, op # None, ~Waiting, op.kind = "begin", BeginRunUse(op)
    PROVE  Invariant'
<1> USE DEF Invariant
<1>1. /\ op \in RequestOf(Simple \cup {None}) /\ op.port \in Ports /\ op.at = "start" /\ s \in SessionState
  <2>1. Served(op) /\ op.at \in {"start", "again"}
    BY DEF RequestsSound, Waiting
  <2>2. QED
    BY <2>1, OpFields DEF Served, Addressed, StagesOf, TypeOK
<1>2. CASE ~Owns(s, op.run)
  <2>1. Reply(s, op)
    BY <1>2 DEF BeginRunUse
  <2>2. QED
    BY <1>1, <2>1, NothingDone DEF Truly
<1>3. CASE Owns(s, op.run) /\ IdleExpired(s, op.port)
  <2>1. Release(s, op)
    BY <1>3 DEF BeginRunUse
  <2>2. QED
    BY <1>1, <2>1, ReleaseKeeps
<1>4. CASE Owns(s, op.run) /\ ~IdleExpired(s, op.port)
  BY <1>1, <1>4, UseBegunKeeps DEF UseBegun, BeginRunUse
<1>5. QED
  BY <1>2, <1>3, <1>4

\* start_run_with_policy does.
LEMMA StartRunKeeps ==
    ASSUME Invariant, op # None, ~Waiting, op.kind = "start", NEW late \in {FALSE, op.pending}, StartRun(op, late)
    PROVE  Invariant'
<1> USE DEF Invariant
<1>1. /\ op \in RequestOf(Simple \cup {None}) /\ op.port \in Ports /\ op.at \in {"start", "again"} /\ s \in SessionState
      /\ op.at = "start" => ~op.pending
      /\ op.at = "again" => op.pending /\ s.owned[op.port] = None
  <2>1. Served(op) /\ op.at \in {"start", "again"}
    BY DEF RequestsSound, Waiting
  <2>2. QED
    BY <2>1, OpFields DEF Served, Addressed, TypeOK
<1>2. CASE Reply(s, op) /\ op.at = "start"
  BY <1>1, <1>2, NothingDone DEF Truly
<1>3. CASE s.owned[op.port] = None /\ op.pending /\ Call(s, op, "cancelled", "cancel", op.port) /\ UNCHANGED <<calls, written>>
  <2>1. PICK at, kind : at = "cancelled" /\ kind = "cancel"
    OBVIOUS
  <2>2. at \in StagesOf(op.kind) /\ kind = Sends(at)
    BY <2>1 DEF StagesOf, Sends
  <2>3. Call(s, op, at, kind, op.port)
    BY <1>3, <2>1
  <2>4. QED
    BY <1>1, <1>3, <2>1, <2>2, <2>3, CallKeeps
<1>4. CASE s.owned[op.port] = None /\ Call(s, op, "polled", "start", op.port) /\ UNCHANGED <<calls, written>>
  <2>1. PICK at, kind : at = "polled" /\ kind = "start"
    OBVIOUS
  <2>2. at \in StagesOf(op.kind) /\ kind = Sends(at)
    BY <2>1 DEF StagesOf, Sends
  <2>3. Call(s, op, at, kind, op.port)
    BY <1>4, <2>1
  <2>4. QED
    BY <1>1, <1>4, <2>1, <2>2, <2>3, CallKeeps
<1>5. QED
  BY <1>1, <1>2, <1>3, <1>4 DEF StartRun

\* A write and the end of a Run renew its control first.
LEMMA PhysicalKeeps ==
    ASSUME Invariant, op # None, ~Waiting, op.kind \in {"write", "end"}, Physical(op)
    PROVE  Invariant'
<1> USE DEF Invariant
<1>1. /\ op \in RequestOf(Simple \cup {None}) /\ op.port \in Ports /\ op.port = op.run.port
      /\ op.at = "start" /\ s \in SessionState
  <2>1. Served(op) /\ op.at \in {"start", "again"}
    BY DEF RequestsSound, Waiting
  <2>2. QED
    BY <2>1, OpFields DEF Served, Addressed, StagesOf, TypeOK
<1>2. PICK u, d : u = Unwritten(s, op) /\ d = Disconnected(u)
  OBVIOUS
<1>3. u \in SessionState /\ u.conn = s.conn /\ u.owned = s.owned /\ u.lease = s.lease /\ Truly(u.told)
  BY <1>1, <1>2, UnwrittenIs
<1>4. CASE ~Owns(s, op.run)
  <2>1. Reply(u, op)
    BY <1>2, <1>4 DEF Physical, Renew
  <2>2. QED
    BY <1>3, <2>1, NothingDone
<1>5. CASE Owns(s, op.run)
  <2>1. s.conn # 0 /\ s.lease[op.port] # None
    <3>1. s.owned[op.port] # None /\ s.owned[op.port].run \in Runs
      BY <1>1, <1>5, SessionFields DEF Owns, OwnedRuns
    <3>2. QED
      BY <1>1, <3>1, NoneAssumption DEF SessionSound
  <2>2. Call(s, op, "renewed", "renew", op.port) /\ UNCHANGED <<calls, written>>
    BY <1>5, <2>1 DEF Physical, Renew
  <2>3. PICK at, kind : at = "renewed" /\ kind = "renew"
    OBVIOUS
  <2>4. at \in StagesOf(op.kind) /\ kind = Sends(at)
    BY <2>3 DEF StagesOf, Sends
  <2>5. Call(s, op, at, kind, op.port)
    BY <2>2, <2>3
  <2>6. QED
    BY <1>1, <2>2, <2>3, <2>4, <2>5, CallKeeps
<1>6. QED
  BY <1>4, <1>5

\* A Run is aborted by the release of its lease.
LEMMA AbortRunKeeps ==
    ASSUME Invariant, op # None, ~Waiting, op.kind = "abort", AbortRun(op)
    PROVE  Invariant'
<1> USE DEF Invariant
<1>1. /\ op \in RequestOf(Simple \cup {None}) /\ op.port \in Ports /\ op.at = "start" /\ s \in SessionState
      /\ s.owned \in [Ports -> OwnedRuns \cup {None}]
  <2>1. Served(op) /\ op.at \in {"start", "again"}
    BY DEF RequestsSound, Waiting
  <2>2. QED
    BY <2>1, OpFields, SessionFields DEF Served, Addressed, StagesOf, TypeOK
<1>2. CASE s.lease[op.port] = None
  <2>1. s.owned[op.port] = None
    BY <1>1, <1>2, NoneAssumption DEF SessionSound, OwnedRuns
  <2>2. PICK u : u = [s EXCEPT !.owned[op.port] = None]
    OBVIOUS
  <2>3. u \in SessionState /\ u.conn = s.conn /\ u.lease = s.lease /\ u.told = s.told /\ u.owned = s.owned
    BY <1>1, <2>1, <2>2 DEF SessionState
  <2>4. Reply(u, op)
    BY <1>2, <2>2 DEF AbortRun
  <2>5. QED
    BY <1>1, <2>3, <2>4, NothingDone DEF Truly
<1>3. CASE Reply(s, op)
  BY <1>1, <1>3, NothingDone DEF Truly
<1>4. CASE Call(s, op, "aborted", "release", op.port) /\ UNCHANGED <<calls, written>>
  <2>1. PICK at, kind : at = "aborted" /\ kind = "release"
    OBVIOUS
  <2>2. at \in StagesOf(op.kind) /\ kind = Sends(at)
    BY <2>1 DEF StagesOf, Sends
  <2>3. Call(s, op, at, kind, op.port)
    BY <1>4, <2>1
  <2>4. QED
    BY <1>1, <1>4, <2>1, <2>2, <2>3, CallKeeps
<1>5. QED
  BY <1>2, <1>3, <1>4 DEF AbortRun

\* A query needs no lease.
LEMMA QueryKeeps ==
    ASSUME Invariant, op # None, ~Waiting, op.kind = "query", Query(op)
    PROVE  Invariant'
<1> USE DEF Invariant
<1>1. op \in RequestOf(Simple \cup {None}) /\ op.port \in Ports
  BY OpFields DEF RequestsSound, Served, Addressed
<1>2. PICK at, kind : at = "asked" /\ kind = "query"
  OBVIOUS
<1>3. at \in StagesOf(op.kind) /\ kind = Sends(at)
  BY <1>2 DEF StagesOf, Sends
<1>4. Call(s, op, at, kind, op.port) /\ UNCHANGED <<calls, written>>
  BY <1>2 DEF Query
<1>5. QED
  BY <1>1, <1>2, <1>3, <1>4, CallKeeps

\* The leases are renewed one after the other, when the abandoned ones are released.
LEMMA RenewAllKeeps ==
    ASSUME Invariant, op # None, ~Waiting, op.kind = "renew", RenewAll(op)
    PROVE  Invariant'
<1> USE DEF Invariant
<1>1. /\ op \in RequestOf(Simple \cup {None}) /\ op.idle \subseteq Ports /\ op.rest \subseteq Ports
      /\ op.at # "wrote" /\ s \in SessionState
  BY OpFields, RequestFields DEF Waiting, TypeOK
<1>2. CASE Reply(s, op)
  BY <1>1, <1>2, NothingDone DEF Truly
<1>3. CASE Reply(Disconnected(s), op)
  <2>1. PICK u : u = Disconnected(s)
    OBVIOUS
  <2>2. Over(u)
    BY <1>1, <2>1, LostDone
  <2>3. QED
    BY <1>3, <2>1, <2>2, OverKeeps DEF Reply
<1>4. ASSUME NEW p \in op.idle, Release(s, [op EXCEPT !.idle = @ \ {p}, !.port = p])
      PROVE  Invariant'
  <2>1. PICK o : o = [op EXCEPT !.idle = @ \ {p}, !.port = p]
    OBVIOUS
  <2>2. /\ o \in RequestOf(Simple \cup {None}) /\ o.port = p /\ p \in Ports
        /\ o.kind = op.kind /\ o.caller = op.caller /\ o.write = op.write /\ o.run = op.run /\ o.then = op.then
    BY <1>1, <2>1 DEF RequestOf
  <2>3. QED
    BY <1>4, <2>1, <2>2, ReleaseKeeps
<1>5. ASSUME NEW p \in op.rest, Call(s, [op EXCEPT !.rest = @ \ {p}, !.port = p], "kept", "renew", p),
             UNCHANGED <<calls, written>>
      PROVE  Invariant'
  <2>1. PICK o, at, kind : o = [op EXCEPT !.rest = @ \ {p}, !.port = p] /\ at = "kept" /\ kind = "renew"
    OBVIOUS
  <2>2. /\ o \in RequestOf(Simple \cup {None}) /\ o.port = p /\ p \in Ports /\ o.pending = op.pending
        /\ o.kind = op.kind /\ o.caller = op.caller /\ o.write = op.write /\ o.run = op.run /\ o.then = op.then
    BY <1>1, <2>1 DEF RequestOf
  <2>3. at \in StagesOf(op.kind) /\ kind = Sends(at)
    BY <2>1 DEF StagesOf, Sends
  <2>4. Call(s, o, at, kind, o.port)
    BY <1>5, <2>1, <2>2
  <2>5. QED
    BY <1>5, <2>1, <2>2, <2>3, <2>4, CallKeeps
<1>6. QED
  BY <1>2, <1>3, <1>4, <1>5 DEF RenewAll

\* A turn of the request that the task is at.
LEMMA ContinueKeeps ==
    ASSUME Invariant, Continue
    PROVE  Invariant'
<1>1. op # None /\ ~Waiting /\ Handle(op)
  BY DEF Continue, Waiting
<1>2. CASE op.kind = "begin" /\ BeginRunUse(op)
  BY <1>1, <1>2, BeginRunUseKeeps
<1>3. CASE op.kind = "start" /\ \E late \in {FALSE, op.pending} : StartRun(op, late)
  BY <1>1, <1>3, StartRunKeeps
<1>4. CASE op.kind \in {"write", "end"} /\ Physical(op)
  BY <1>1, <1>4, PhysicalKeeps
<1>5. CASE op.kind = "abort" /\ AbortRun(op)
  BY <1>1, <1>5, AbortRunKeeps
<1>6. CASE op.kind = "query" /\ Query(op)
  BY <1>1, <1>6, QueryKeeps
<1>7. CASE op.kind = "renew" /\ RenewAll(op)
  BY <1>1, <1>7, RenewAllKeeps
<1>8. QED
  BY <1>1, <1>2, <1>3, <1>4, <1>5, <1>6, <1>7 DEF Handle

\* A connection that is lost takes the request with it, and a Run start that waits for
\* a renewal.
LEMMA LostKeeps ==
    ASSUME Invariant, Lost
    PROVE  Invariant'
<1> USE DEF Invariant
<1>1. /\ op # None /\ Served(op) /\ op \in RequestOf(Simple \cup {None}) /\ s \in SessionState
      /\ op.caller \in Callers \cup {None} /\ op.then \in Simple \cup {None}
  BY OpFields DEF Lost, Waiting, RequestsSound, TypeOK
<1>2. PICK d, t : d = Disconnected(s)
                  /\ t = IF op.at = "wrote" THEN Tell(d, op.write, "uncertain") ELSE Unwritten(d, op)
  OBVIOUS
<1>3. /\ s' = t /\ daemon' = [daemon EXCEPT !.answer = None] /\ UNCHANGED <<queue, written>>
      /\ Hears([(IF op.then # None THEN op.then ELSE op) EXCEPT !.then = None], None)
  BY <1>2 DEF Lost
<1>4. d \in SessionState /\ d.conn = 0 /\ d.owned = NoRun /\ d.lease = NoRun /\ d.told = s.told
  BY <1>1, <1>2, DisconnectedIs
<1>5. Over(t)
  <2>1. CASE op.at = "wrote"
    <3>1. op.kind = "write" /\ op.write \in Writes
      BY <1>1, <2>1, KindOfStage, NotBegun
    <3>2. t = Tell(d, op.write, "uncertain")
      BY <1>2, <2>1
    <3>3. /\ t \in SessionState /\ t.conn = 0 /\ t.owned = NoRun /\ t.lease = NoRun
          /\ t.told = [s.told EXCEPT ![op.write] = "uncertain"]
      BY <1>4, <3>1, <3>2 DEF Tell, SessionState
    <3>4. Truly(t.told)
      BY <3>1, <3>3 DEF Truly
    <3>5. QED
      BY <1>1, <3>3, <3>4, OverLost
  <2>2. CASE op.at # "wrote"
    <3>1. t = Unwritten(Disconnected(s), op)
      BY <1>2, <2>2
    <3>2. QED
      BY <1>1, <2>2, <3>1, LostDone
  <2>3. QED
    BY <2>1, <2>2
<1>6. CASE op.then = None
  <2>1. PICK o : o = [op EXCEPT !.then = None]
    OBVIOUS
  <2>2. o.caller = op.caller /\ o.then = op.then /\ Hears(o, None)
    BY <1>1, <1>3, <1>6, <2>1 DEF RequestOf
  <2>3. QED
    BY <1>1, <1>3, <1>5, <2>2, OverKeeps
<1>7. CASE op.then # None
  <2>1. PICK then : then = op.then
    OBVIOUS
  <2>2. /\ then \in Simple /\ then # None /\ then.kind = "start" /\ op.kind = "renew" /\ op.at # "wrote"
        /\ then.caller \in Callers \cup {None}
    <3>1. then \in Simple /\ then # None /\ then.kind = "start" /\ op.kind = "renew"
      BY <1>1, <1>7, <2>1 DEF Served, Suspended
    <3>2. QED
      BY <1>1, <3>1, KindOfStage, RequestFields DEF Simple
  <2>3. PICK o : o = [then EXCEPT !.then = None]
    OBVIOUS
  <2>4. o.caller = then.caller /\ o.then = None /\ Hears(o, None)
    BY <1>3, <1>7, <2>1, <2>2, <2>3 DEF Simple, RequestOf
  <2>5. /\ op' = None /\ ended' = ended
        /\ caller' = IF then.caller = None THEN caller ELSE [caller EXCEPT !.waits[then.caller] = None]
    BY <2>2, <2>4, HearsIs
  <2>6. t = d /\ then # op
    BY <1>2, <2>2 DEF Unwritten
  <2>7. Told
    BY <1>3, <1>4, <2>2, <2>6 DEF Told
  <2>8. Ended(then)
    BY <1>1, <1>3, <1>4, <2>1, <2>2, <2>5, <2>6, <2>7 DEF Ended, NoRun
  <2>9. QED
    BY <2>8, EndedKeeps
<1>8. QED
  BY <1>6, <1>7

\* The status of a Macro is asked for once more over a new connection, or given up.
LEMMA LostQueryKeeps ==
    ASSUME Invariant, LostQuery
    PROVE  Invariant'
<1> USE DEF Invariant
<1>1. /\ op # None /\ Served(op) /\ op \in RequestOf(Simple \cup {None}) /\ s \in SessionState
      /\ op.kind = "query" /\ Waiting /\ op.then = None
  BY OpFields DEF LostQuery, Waiting, RequestsSound, TypeOK, Served
<1>2. op.at # "wrote" /\ op.at # "polled"
  BY <1>1, KindOfStage
<1>3. PICK d : d = Disconnected(s)
  OBVIOUS
<1>4. /\ s' = d /\ daemon' = [daemon EXCEPT !.answer = None] /\ UNCHANGED written
      /\ d \in SessionState /\ d.conn = 0 /\ d.owned = NoRun /\ d.lease = NoRun /\ d.told = s.told
  BY <1>1, <1>3, DisconnectedIs DEF LostQuery
<1>5. CASE op' = [op EXCEPT !.at = "again", !.pending = TRUE] /\ UNCHANGED calls
  <2>1. PICK r : r = [op EXCEPT !.at = "again", !.pending = TRUE]
    OBVIOUS
  <2>2. /\ r \in RequestOf(Simple \cup {None}) /\ r.kind = op.kind /\ r.caller = op.caller /\ r.write = op.write
        /\ r.run = op.run /\ r.then = op.then /\ r.at = "again" /\ r.port = op.port /\ op' = r /\ r # None
    <3>1. /\ r \in RequestOf(Simple \cup {None}) /\ r.kind = op.kind /\ r.caller = op.caller /\ r.write = op.write
          /\ r.run = op.run /\ r.then = op.then /\ r.at = "again" /\ r.port = op.port /\ op' = r
      BY <1>1, <1>5, <2>1, ZenonT(30) DEF RequestOf
    <3>2. QED
      BY <3>1, NoneAssumption
  <2>3. "again" \in StagesOf(op.kind) /\ ~Granted
    BY <1>1, <1>2 DEF StagesOf, Granted
  <2>4. Turned(r)
    BY <1>1, <1>4, <1>5, <2>2, <2>3 DEF Turned
  <2>5. QED
    BY <2>4, TurnedKeeps
<1>6. CASE Hears(op, None) /\ UNCHANGED queue
  <2>1. Over(d)
    BY <1>1, <1>2, <1>3, LostDone
  <2>2. QED
    BY <1>1, <1>4, <1>6, <2>1, OverKeeps
<1>7. QED
  BY <1>5, <1>6 DEF LostQuery

-----------------------------------------------------------------------------
(* The answers *)

\* An answer that leaves the session as it is, or without its connection.
LEMMA AnsweredKeeps ==
    ASSUME Invariant, op # None, op.at # "wrote", daemon.answer # None, Answered(s) \/ Answered(Disconnected(s)),
           Answered(s) => ~Granted /\ (op.kind = "start" => ~Mine(daemon.start[op.port]))
    PROVE  Invariant'
<1> USE DEF Invariant
<1>1. s \in SessionState
  BY DEF TypeOK
<1>2. CASE Answered(s)
  <2>1. Over(s)
    BY <1>1, <1>2, OverSame DEF Truly
  <2>2. QED
    BY <1>2, <2>1, OverKeeps DEF Answered
<1>3. CASE Answered(Disconnected(s))
  <2>1. PICK d : d = Disconnected(s)
    OBVIOUS
  <2>2. Over(d)
    BY <1>1, <2>1, LostDone
  <2>3. QED
    BY <1>3, <2>1, <2>2, OverKeeps DEF Answered
<1>4. QED
  BY <1>2, <1>3

\* A request that asks again after an answer.
LEMMA AgainKeeps ==
    ASSUME Invariant, Waiting, daemon.answer # None, ~Granted, NEW r, NEW then, NEW t \in SessionState,
           t.conn = s.conn, t.owned = s.owned, t.lease = s.lease, t.told = s.told,
           r = [op EXCEPT !.at = "again"] \/ r = [op EXCEPT !.at = "again", !.pending = TRUE],
           op.kind = "start" => r = [op EXCEPT !.at = "again", !.pending = TRUE],
           op.kind \in {"start", "renew"},
           then = r \/ (op.kind = "start" /\ then = Renewal(t, r)), Next1(t, then)
    PROVE  Invariant'
<1> USE DEF Invariant
<1>1. /\ op # None /\ Served(op) /\ op \in RequestOf(Simple \cup {None})
      /\ op.kind = "start" => op.then = None
  BY OpFields DEF Waiting, RequestsSound, Served
<1>2. /\ r \in RequestOf(Simple \cup {None}) /\ r.kind = op.kind /\ r.caller = op.caller /\ r.write = op.write
      /\ r.run = op.run /\ r.then = op.then /\ r.at = "again" /\ r.port = op.port /\ r # None
      /\ op.kind = "start" => r.pending
  <2>1. /\ r \in RequestOf(Simple \cup {None}) /\ r.kind = op.kind /\ r.caller = op.caller /\ r.write = op.write
        /\ r.run = op.run /\ r.then = op.then /\ r.at = "again" /\ r.port = op.port
        /\ op.kind = "start" => r.pending
    <3>1. CASE r = [op EXCEPT !.at = "again"] /\ op.kind # "start"
      BY <1>1, <3>1 DEF RequestOf
    <3>2. CASE r = [op EXCEPT !.at = "again", !.pending = TRUE]
      BY <1>1, <3>2 DEF RequestOf
    <3>3. QED
      BY <3>1, <3>2
  <2>2. QED
    BY <2>1, NoneAssumption
<1>3. s' = t /\ op' = then /\ daemon' = [daemon EXCEPT !.answer = None] /\ UNCHANGED <<calls, written>>
  BY DEF Next1
<1>4. \/ then = r
      \/ /\ then \in RequestOf(Simple \cup {None}) /\ then.then = r /\ r.kind = "start"
         /\ then.kind = "renew" /\ then.caller = None /\ then.write = 0 /\ then.at = "start"
  <2>1. ASSUME op.kind = "start", then = Renewal(t, r)
        PROVE  /\ then \in RequestOf(Simple \cup {None}) /\ then.then = r /\ r.kind = "start"
               /\ then.kind = "renew" /\ then.caller = None /\ then.write = 0 /\ then.at = "start"
    <3>1. r \in Simple
      BY <1>1, <1>2, <2>1 DEF Simple, RequestOf
    <3>2. r \in Simple \cup {None} /\ then = Renewal(t, r) /\ t \in SessionState
      BY <2>1, <3>1
    <3>3. /\ then \in RequestOf(Simple \cup {None}) /\ then.kind = "renew" /\ then.caller = None /\ then.write = 0
          /\ then.at = "start" /\ then.then = r
      BY <3>2 DEF Renewal, Request, RequestOf
    <3>4. QED
      BY <1>2, <2>1, <3>3
  <2>2. QED
    BY <2>1
<1>5. op' # None
  BY <1>2, <1>3, <1>4, NoneAssumption
<1>6. "again" \in StagesOf(op.kind)
  BY DEF StagesOf
<1>7. Turned(r)
  BY <1>1, <1>2, <1>3, <1>4, <1>5, <1>6 DEF Turned
<1>8. QED
  BY <1>7, TurnedKeeps

\* A lease is released when the end of its Run, or its grant, is answered.
LEMMA SendReleaseKeeps ==
    ASSUME Invariant, Waiting, daemon.answer # None, NEW lease, NEW t \in SessionState, SendRelease(t, op, lease),
           op.kind \in {"start", "end"}, op.at # "aborted", op.at # "wrote", t.conn = s.conn, t.told = s.told,
           t.owned = [s.owned EXCEPT ![op.port] = None], t.lease = [s.lease EXCEPT ![op.port] = None],
           op.kind = "start" => ~Mine(daemon.start[op.port]) /\ s.owned[op.port] = None,
           lease \in Runs \cup {None}, IF Granted THEN lease = daemon.answer.lease ELSE lease = s.lease[op.port]
    PROVE  Invariant'
<1> USE DEF Invariant
<1>1. /\ op # None /\ op \in RequestOf(Simple \cup {None}) /\ op.port \in Ports /\ s.conn # 0 /\ s \in SessionState
  BY OpFields DEF Waiting, RequestsSound, Served, AnswerFits, TypeOK
<1>2. PICK m : m = [Message(t, "release", op.port, op) EXCEPT !.lease = lease]
  OBVIOUS
<1>3. /\ s' = t /\ op' = [op EXCEPT !.at = "released"]
      /\ daemon' = [daemon EXCEPT !.answer = None, !.inbox = daemon.inbox \cup {m}]
      /\ UNCHANGED <<calls, written>>
  <2>1. daemon \in DaemonState
    BY DEF TypeOK
  <2>2. daemon' = [daemon EXCEPT !.answer = None, !.inbox = @ \cup {m}]
    BY <1>2 DEF SendRelease
  <2>3. QED
    BY <2>1, <2>2 DEF SendRelease, DaemonState
<1>4. /\ op' \in RequestOf(Simple \cup {None}) /\ op'.at = "released" /\ op'.kind = op.kind /\ op'.caller = op.caller
      /\ op'.write = op.write /\ op'.run = op.run /\ op'.then = op.then /\ op'.port = op.port
  BY <1>1, <1>3 DEF RequestOf
<1>5. m \in Messages /\ m.conn = s.conn /\ m.kind = "release" /\ m.port = op'.port /\ m.lease = lease /\ m.write = op.write
  <2>1. t.conn \in Conns /\ t.lease[op.port] \in Runs \cup {None} /\ op.run \in Runs \cup {None} /\ op.write \in {0} \cup Writes
    BY <1>1, RequestFields DEF SessionState
  <2>2. QED
    BY <1>1, <1>2, <1>4, <2>1 DEF Message, Messages
<1>6. "released" \in StagesOf(op.kind)
  BY DEF StagesOf
<1>7. GoesOn
  BY <1>1, <1>3, <1>4, <1>6 DEF GoesOn
<1>8. Released(lease)
  BY <1>1, <1>3, <1>4, <1>5, <1>7 DEF Released
<1>9. QED
  BY <1>8, ReleasedKeeps

\* The lease that a renewal confirms is the one that the session has.
LEMMA RenewedIs ==
    ASSUME Invariant, Waiting, daemon.answer # None, daemon.answer.result = "renewed", NEW t, t = Renewed(s)
    PROVE  t = s
<1>1. s \in SessionState /\ s.lease \in [Ports -> Runs \cup {None}] /\ op.port \in Ports
      /\ daemon.answer.lease = s.lease[op.port]
  BY SessionFields DEF Invariant, TypeOK, AnswerFits, RequestsSound, Served, Waiting
<1>2. t = [s EXCEPT !.lease[op.port] = s.lease[op.port]]
  BY <1>1 DEF Renewed
<1>3. QED
  BY <1>1, <1>2 DEF SessionState

\* The write or the end is sent when its renewal is confirmed, and given up otherwise.
LEMMA AfterRenewalKeeps ==
    ASSUME Invariant, Waiting, daemon.answer # None, op.at = "renewed", AfterRenewal(s)
    PROVE  Invariant'
<1> USE DEF Invariant
<1>1. /\ op # None /\ op \in RequestOf(Simple \cup {None}) /\ op.port \in Ports /\ op.kind \in {"write", "end"}
      /\ s \in SessionState /\ s.conn # 0 /\ daemon \in DaemonState
      /\ s.lease \in [Ports -> Runs \cup {None}]
  BY OpFields, KindOfStage, SessionFields DEF Waiting, RequestsSound, Served, AnswerFits, TypeOK
<1>2. CASE daemon.answer.result = "renewed"
  <2>1. PICK m, at : m = Message(s, op.kind, op.port, op) /\ at = (IF op.kind = "write" THEN "wrote" ELSE "stopped")
    OBVIOUS
  <2>2. s' = s
    <3>1. PICK t : t = Renewed(s)
      OBVIOUS
    <3>2. s' = t
      BY <1>2, <3>1 DEF AfterRenewal
    <3>3. QED
      BY <1>2, <3>1, <3>2, RenewedIs
  <2>3. /\ op' = [op EXCEPT !.at = at] /\ UNCHANGED <<calls, written>>
        /\ daemon' = [daemon EXCEPT !.answer = None, !.inbox = daemon.inbox \cup {m}]
    <3>1. daemon' = [daemon EXCEPT !.answer = None, !.inbox = @ \cup {m}]
      BY <1>2, <2>1, <2>2 DEF AfterRenewal
    <3>2. QED
      BY <1>1, <1>2, <2>1, <3>1 DEF AfterRenewal, DaemonState
  <2>4. at \in StagesOf(op.kind) /\ at \in {"wrote", "stopped"} /\ op.kind = Sends(at)
    BY <1>1, <2>1 DEF StagesOf, Sends
  <2>5. /\ op' \in RequestOf(Simple \cup {None}) /\ op'.at = at /\ op'.kind = op.kind /\ op'.caller = op.caller
        /\ op'.write = op.write /\ op'.run = op.run /\ op'.then = op.then /\ op'.pending = op.pending
        /\ op'.port = op.port
    BY <1>1, <2>3, <2>4 DEF RequestOf
  <2>6. /\ m \in Messages /\ m.conn = s.conn /\ m.kind = Sends(op'.at) /\ m.port = op'.port /\ m.write = op.write
        /\ m.lease = s.lease[op'.port]
    <3>1. s.conn \in Conns /\ s.lease[op.port] \in Runs \cup {None} /\ op.run \in Runs \cup {None}
          /\ op.write \in {0} \cup Writes
      BY <1>1, RequestFields DEF SessionState
    <3>2. QED
      BY <1>1, <2>1, <2>4, <2>5, <3>1 DEF Message, Messages
  <2>7. GoesOn
    BY <1>1, <2>3, <2>4, <2>5 DEF GoesOn
  <2>8. /\ daemon' \in DaemonState /\ daemon'.holder = daemon.holder /\ daemon'.start = daemon.start
        /\ daemon'.runs = daemon.runs /\ daemon'.answer = None /\ daemon'.made = daemon.made
        /\ daemon'.conns = daemon.conns /\ daemon'.inbox = daemon.inbox \cup {m}
    BY <1>1, <2>3, <2>6 DEF DaemonState
  <2>9. ~Granted
    BY DEF Granted
  <2>10. Sent
    BY <1>1, <2>2, <2>4, <2>5, <2>6, <2>7, <2>8, <2>9 DEF Sent
  <2>11. QED
    BY <2>10, SentKeeps
<1>3. CASE daemon.answer.result # "renewed"
  <2>1. PICK t : t = Disconnected(Unwritten(s, op))
    OBVIOUS
  <2>2. Over(t)
    BY <1>1, <2>1, LostDone
  <2>3. /\ s' = t /\ Hears(op, None) /\ daemon' = [daemon EXCEPT !.answer = None] /\ UNCHANGED <<queue, written>>
    BY <1>3, <2>1 DEF AfterRenewal
  <2>4. QED
    BY <1>1, <2>2, <2>3, OverKeeps
<1>4. QED
  BY <1>2, <1>3

\* The answer of a write says what became of its bytes.
LEMMA AfterWriteKeeps ==
    ASSUME Invariant, Waiting, daemon.answer # None, op.at = "wrote", Answered(AfterWrite(s, daemon.answer.result))
    PROVE  Invariant'
<1> USE DEF Invariant
<1>1. /\ op # None /\ op.kind = "write" /\ op.write \in Writes /\ s \in SessionState
  BY KindOfStage, NotBegun DEF Waiting, TypeOK
<1>2. daemon.answer.result \in {"written", "uncertain", "boundary", "run", "control"}
  BY <1>1 DEF AnswerFits, Sends, ResultsOf
<1>3. ~InInbox(op.write)
  <2>1. \A m \in daemon.inbox : m.kind = "write" /\ m.write = op.write => m.conn = s.conn
    BY <1>1 DEF WritesSound, Writing
  <2>2. QED
    BY <2>1 DEF InFlight, InInbox
<1>4. ~Granted /\ op.kind # "start"
  BY <1>1 DEF Granted
<1>5. PICK t, what, told :
        /\ t = AfterWrite(s, daemon.answer.result) /\ told = Tell(s, op.write, what)
        /\ what = IF daemon.answer.result \in {"written", "uncertain"} THEN daemon.answer.result ELSE "unwritten"
  OBVIOUS
<1>6. /\ what \in {"written", "unwritten", "uncertain"}
      /\ what = "unwritten" => op.write \notin written
      /\ what = "written" => op.write \in written
  BY <1>1, <1>2, <1>5 DEF WritesSound
<1>7. /\ told \in SessionState /\ told.conn = s.conn /\ told.owned = s.owned /\ told.lease = s.lease
      /\ told.told = [s.told EXCEPT ![op.write] = what]
  BY <1>1, <1>5, <1>6 DEF Tell, SessionState
<1>8. Truly(told.told)
  BY <1>1, <1>3, <1>6, <1>7 DEF Truly
<1>9. CASE t = told
  <2>1. Over(t)
    BY <1>1, <1>4, <1>7, <1>8, <1>9, OverSame
  <2>2. QED
    BY <1>1, <1>5, <2>1, OverKeeps DEF Answered
<1>10. CASE t = Disconnected(told)
  <2>1. t \in SessionState /\ t.conn = 0 /\ t.owned = NoRun /\ t.lease = NoRun /\ t.told = told.told
    BY <1>7, <1>10, DisconnectedIs
  <2>2. Over(t)
    BY <1>1, <1>8, <2>1, OverLost
  <2>3. QED
    BY <1>1, <1>5, <2>2, OverKeeps DEF Answered
<1>11. QED
  BY <1>2, <1>5, <1>9, <1>10 DEF AfterWrite

\* A Run start is told how it stands.
LEMMA AfterPollKeeps ==
    ASSUME Invariant, Waiting, daemon.answer # None, op.at = "polled",
           AfterPoll(s, daemon.answer.result, daemon.answer.lease)
    PROVE  Invariant'
<1> USE DEF Invariant
<1>1. /\ op # None /\ op.kind = "start" /\ Served(op) /\ op \in RequestOf(Simple \cup {None}) /\ s \in SessionState
      /\ op.port \in Ports /\ s.owned[op.port] = None /\ s.lease[op.port] = None /\ op.then = None
      /\ s.owned \in [Ports -> OwnedRuns \cup {None}] /\ s.lease \in [Ports -> Runs \cup {None}]
  <2>1. op # None /\ op.kind = "start" /\ Served(op) /\ op \in RequestOf(Simple \cup {None}) /\ s \in SessionState
    BY OpFields, KindOfStage DEF Waiting, RequestsSound, TypeOK
  <2>2. QED
    BY <2>1, SessionFields DEF Served, SessionSound
<1>2. daemon.answer.result \in {"granted", "pending", "denied", "error"}
  BY DEF AnswerFits, Sends, ResultsOf
<1>3. daemon.answer.result # "pending" => ~Mine(daemon.start[op.port])
  BY <1>1 DEF StartsKnown, Starting
<1>4. Granted <=> daemon.answer.result = "granted"
  BY <1>1 DEF Granted
<1>5. CASE daemon.answer.result = "granted" /\ op.caller = None
  <2>1. SendRelease(s, op, daemon.answer.lease)
    BY <1>5 DEF AfterPoll
  <2>2. PICK lease : lease = daemon.answer.lease
    OBVIOUS
  <2>3. lease \in Runs
    BY <1>4, <1>5, <2>2 DEF RunsFresh, Fresh
  <2>4. s.owned = [s.owned EXCEPT ![op.port] = None] /\ s.lease = [s.lease EXCEPT ![op.port] = None]
    BY <1>1
  <2>5. QED
    BY <1>1, <1>3, <1>4, <1>5, <2>1, <2>2, <2>3, <2>4, SendReleaseKeeps
<1>6. CASE daemon.answer.result = "granted" /\ op.caller # None
  <2>1. GrantedTo(daemon.answer.lease)
    BY <1>4, <1>6 DEF AfterPoll, GrantedTo
  <2>2. QED
    BY <2>1, GrantedToKeeps
<1>7. CASE daemon.answer.result = "pending"
  <2>1. PICK r : r = [op EXCEPT !.at = "again", !.pending = TRUE]
    OBVIOUS
  <2>2. PICK then : (then = r \/ then = Renewal(s, r)) /\ Next1(s, then)
    BY <1>7, <2>1 DEF AfterPoll
  <2>3. QED
    BY <1>1, <1>4, <1>7, <2>1, <2>2, AgainKeeps
<1>8. CASE daemon.answer.result = "denied"
  <2>1. Answered(s)
    BY <1>8 DEF AfterPoll
  <2>2. QED
    BY <1>1, <1>3, <1>4, <1>8, <2>1, AnsweredKeeps
<1>9. CASE daemon.answer.result = "error"
  <2>1. Answered(Disconnected(s))
    BY <1>9 DEF AfterPoll
  <2>2. QED
    BY <1>1, <1>3, <1>4, <1>9, <2>1, AnsweredKeeps
<1>10. QED
  BY <1>2, <1>5, <1>6, <1>7, <1>8, <1>9

\* The end of a Run and its abort forget it, when the daemon has confirmed it.
LEMMA AfterEndKeeps ==
    ASSUME Invariant, Waiting, daemon.answer # None, op.at \in {"stopped", "aborted"},
           Answer(s, daemon.answer.result)
    PROVE  Invariant'
<1> USE DEF Invariant
<1>1. /\ op # None /\ Served(op) /\ op \in RequestOf(Simple \cup {None}) /\ s \in SessionState /\ op.port \in Ports
      /\ s.owned \in [Ports -> OwnedRuns \cup {None}] /\ s.lease \in [Ports -> Runs \cup {None}]
  BY OpFields, SessionFields DEF Waiting, RequestsSound, TypeOK, Served
<1>2. ~Granted /\ op.kind \in {"end", "abort"} /\ (op.at = "stopped" => op.kind = "end")
  BY <1>1, KindOfStage DEF Granted
<1>3. PICK t : t = Forgotten(s, op.port)
  OBVIOUS
<1>4. /\ t \in SessionState /\ t.conn = s.conn /\ t.told = s.told
      /\ t.owned = [s.owned EXCEPT ![op.port] = None] /\ t.lease = [s.lease EXCEPT ![op.port] = None]
  BY <1>1, <1>3 DEF Forgotten, SessionState
<1>5. CASE op.at = "stopped" /\ daemon.answer.result = "ended"
  <2>1. SendRelease(t, op, s.lease[op.port])
    BY <1>3, <1>5 DEF Answer
  <2>2. PICK lease : lease = s.lease[op.port]
    OBVIOUS
  <2>3. QED
    BY <1>1, <1>2, <1>4, <1>5, <2>1, <2>2, SendReleaseKeeps
<1>6. CASE op.at = "stopped" /\ daemon.answer.result # "ended"
  <2>1. Answered(Disconnected(s))
    BY <1>6 DEF Answer
  <2>2. QED
    BY <1>1, <1>2, <1>6, <2>1, AnsweredKeeps
<1>7. CASE op.at = "aborted"
  <2>1. Answered(t)
    BY <1>3, <1>7 DEF Answer
  <2>2. ~Mine(daemon.holder[op.port])
    BY <1>1, <1>7 DEF AbortedGone
  <2>3. Over(t)
    <3>1. \A p \in Ports : p # op.port => t.owned[p] = s.owned[p] /\ t.lease[p] = s.lease[p]
      BY <1>1, <1>4
    <3>2. t.owned[op.port] = None /\ t.lease[op.port] = None
      BY <1>1, <1>4
    <3>3. t.conn # 0 /\ t.conn = s.conn
      BY <1>4 DEF AnswerFits
    <3>4. Truly(t.told)
      BY <1>4, <1>7 DEF Truly
    <3>5. QED
      BY <1>2, <1>4, <2>2, <3>1, <3>2, <3>3, <3>4 DEF Over
  <2>4. QED
    BY <1>1, <2>1, <2>3, OverKeeps DEF Answered
<1>8. QED
  BY <1>5, <1>6, <1>7

\* An answer that the task receives.
LEMMA ReceiveKeeps ==
    ASSUME Invariant, Receive
    PROVE  Invariant'
<1> USE DEF Invariant
<1>1. /\ Waiting /\ op # None /\ daemon.answer # None /\ Answer(s, daemon.answer.result)
      /\ Served(op) /\ op \in RequestOf(Simple \cup {None}) /\ s \in SessionState
  BY OpFields DEF Receive, Waiting, RequestsSound, TypeOK
<1>2. op.at \in {"polled", "cancelled", "renewed", "wrote", "stopped", "aborted", "released", "asked", "kept"}
  BY <1>1 DEF Waiting, RequestOf
<1>3. CASE op.at = "renewed"
  <2>1. AfterRenewal(s)
    BY <1>1, <1>3 DEF Answer
  <2>2. QED
    BY <1>1, <1>3, <2>1, AfterRenewalKeeps
<1>4. CASE op.at = "wrote"
  <2>1. Answered(AfterWrite(s, daemon.answer.result))
    BY <1>1, <1>4 DEF Answer
  <2>2. QED
    BY <1>1, <1>4, <2>1, AfterWriteKeeps
<1>5. CASE op.at \in {"stopped", "aborted"}
  BY <1>1, <1>5, AfterEndKeeps
<1>6. CASE op.at = "polled"
  <2>1. AfterPoll(s, daemon.answer.result, daemon.answer.lease)
    BY <1>1, <1>6 DEF Answer
  <2>2. QED
    BY <1>1, <1>6, <2>1, AfterPollKeeps
<1>7. CASE op.at = "asked"
  <2>1. Answered(s) /\ ~Granted /\ op.kind = "query"
    BY <1>1, <1>7, KindOfStage DEF Answer, Granted
  <2>2. QED
    BY <1>1, <1>7, <2>1, AnsweredKeeps
<1>8. CASE op.at = "cancelled"
  <2>1. ~Granted /\ op.kind = "start" /\ op.then = None
    BY <1>1, <1>8, KindOfStage DEF Granted, Served
  <2>2. daemon.answer.result = "cancelled" => ~Mine(daemon.start[op.port])
    BY <1>1, <1>8, <2>1 DEF StartsKnown, Starting, Served
  <2>3. CASE daemon.answer.result = "cancelled"
    <3>1. Answered(s)
      BY <1>1, <1>8, <2>3 DEF Answer
    <3>2. QED
      BY <1>1, <1>8, <2>1, <2>2, <2>3, <3>1, AnsweredKeeps
  <2>4. CASE daemon.answer.result # "cancelled"
    <3>1. PICK d : d = Disconnected(s)
      OBVIOUS
    <3>2. Answered(d)
      BY <1>1, <1>8, <2>4, <3>1 DEF Answer
    <3>3. Over(d)
      BY <1>1, <1>8, <3>1, LostDone
    <3>4. QED
      BY <1>1, <3>2, <3>3, OverKeeps DEF Answered
  <2>5. QED
    BY <2>3, <2>4
<1>9. CASE op.at = "released" /\ op.kind = "renew"
  <2>1. PICK r : r = [op EXCEPT !.at = "again"]
    OBVIOUS
  <2>2. Next1(s, r) /\ ~Granted
    BY <1>1, <1>9, <2>1 DEF Answer, Granted
  <2>3. QED
    BY <1>1, <1>9, <2>1, <2>2, AgainKeeps
<1>10. CASE op.at = "released" /\ op.kind # "renew"
  <2>1. Answered(s) /\ ~Granted
    BY <1>1, <1>10 DEF Answer, Granted
  <2>2. op.kind = "start" => ~Mine(daemon.start[op.port])
    BY <1>1, <1>10 DEF StartsKnown, Starting, Served
  <2>3. QED
    BY <1>1, <1>10, <2>1, <2>2, AnsweredKeeps
<1>11. CASE op.at = "kept"
  <2>1. op.kind = "renew" /\ ~Granted
    BY <1>1, <1>11, KindOfStage DEF Granted
  <2>2. CASE daemon.answer.result = "renewed"
    <3>1. PICK r, t : r = [op EXCEPT !.at = "again"] /\ t = Renewed(s)
      OBVIOUS
    <3>2. Next1(t, r)
      BY <1>1, <1>11, <2>2, <3>1 DEF Answer
    <3>3. t = s
      BY <1>1, <2>2, <3>1, RenewedIs
    <3>4. QED
      BY <1>1, <1>11, <2>1, <3>1, <3>2, <3>3, AgainKeeps
  <2>3. CASE daemon.answer.result # "renewed"
    <3>1. Answered(Disconnected(s))
      BY <1>1, <1>11, <2>3 DEF Answer
    <3>2. PICK d : d = Disconnected(s)
      OBVIOUS
    <3>3. Over(d)
      BY <1>1, <1>11, <3>2, LostDone
    <3>4. QED
      BY <1>1, <3>1, <3>2, <3>3, OverKeeps DEF Answered
  <2>4. QED
    BY <2>2, <2>3
<1>12. QED
  BY <1>2, <1>3, <1>4, <1>5, <1>6, <1>7, <1>8, <1>9, <1>10, <1>11

-----------------------------------------------------------------------------
(* The session *)

\* A caller asks for a Run of a port, for a use of one, or for what it does with its own.
LEMMA CallerKeeps ==
    ASSUME Invariant, NEW c \in Callers,
           \/ \E port \in Ports : AskStart(c, port)
           \/ \E run \in caller.handles : AskUse(c, run)
           \/ \E kind \in {"end", "abort"} : AskEnd(c, kind)
           \/ AskQuery(c)
           \/ \E w \in Writes : AskWrite(c, w)
           \/ Drop(c)
    PROVE  Invariant'
<1>1. caller.handles \subseteq Runs /\ 0 \notin Writes
  BY DEF Invariant, TypeOK, CallerState, Writes
<1>2. \A run \in Runs : run.port \in Ports
  BY DEF Runs
<1>3. caller.guard[c] # None => caller.guard[c] \in caller.handles
  BY DEF Invariant, GuardsKnown
<1>4. CASE \E port \in Ports : AskStart(c, port)
  <2>1. PICK port \in Ports : AskStart(c, port)
    BY <1>4
  <2>2. PICK kind, run, w : kind = "start" /\ run = None /\ w = 0
    OBVIOUS
  <2>3. Ask(c, kind, port, run, w) /\ caller.guard[c] = None
    BY <2>1, <2>2 DEF AskStart
  <2>4. /\ kind \in {"start", "begin", "write", "end", "abort", "query"} /\ kind # "write"
        /\ run \in Runs \cup {None} /\ w \in {0} \cup Writes
    BY <2>2
  <2>5. QED
    BY <2>2, <2>3, <2>4, AskKeeps
<1>5. CASE \E run \in caller.handles : AskUse(c, run)
  <2>1. PICK run \in caller.handles : AskUse(c, run)
    BY <1>5
  <2>2. PICK kind, port, w : kind = "begin" /\ port = run.port /\ w = 0
    OBVIOUS
  <2>3. Ask(c, kind, port, run, w) /\ caller.guard[c] = None
    BY <2>1, <2>2 DEF AskUse
  <2>4. /\ kind \in {"start", "begin", "write", "end", "abort", "query"} /\ kind # "write"
        /\ run \in Runs \cup {None} /\ w \in {0} \cup Writes /\ port \in Ports
    BY <1>1, <1>2, <2>2
  <2>5. QED
    BY <2>2, <2>3, <2>4, AskKeeps
<1>6. ASSUME NEW kind \in {"end", "abort", "query"}, caller.guard[c] # None,
             Ask(c, kind, caller.guard[c].port, caller.guard[c], 0)
      PROVE  Invariant'
  <2>1. PICK run, port, w : run = caller.guard[c] /\ port = run.port /\ w = 0
    OBVIOUS
  <2>2. Ask(c, kind, port, run, w)
    BY <1>6, <2>1
  <2>3. /\ kind \in {"start", "begin", "write", "end", "abort", "query"} /\ kind \notin {"start", "begin", "write"}
        /\ run \in Runs \cup {None} /\ w \in {0} \cup Writes /\ port \in Ports /\ run \in caller.handles
    BY <1>1, <1>2, <1>3, <1>6, <2>1
  <2>4. QED
    BY <2>1, <2>2, <2>3, AskKeeps
<1>7. CASE \E kind \in {"end", "abort"} : AskEnd(c, kind)
  <2>1. PICK kind \in {"end", "abort"} : AskEnd(c, kind)
    BY <1>7
  <2>2. QED
    BY <1>6, <2>1 DEF AskEnd
<1>8. CASE AskQuery(c)
  <2>1. PICK kind : kind = "query"
    OBVIOUS
  <2>2. caller.guard[c] # None /\ Ask(c, kind, caller.guard[c].port, caller.guard[c], 0)
    BY <1>8, <2>1 DEF AskQuery
  <2>3. QED
    BY <1>6, <2>1, <2>2
<1>9. CASE \E w \in Writes : AskWrite(c, w)
  <2>1. PICK w \in Writes : AskWrite(c, w)
    BY <1>9
  <2>2. PICK kind, run, port : kind = "write" /\ run = caller.guard[c] /\ port = run.port
    OBVIOUS
  <2>3. /\ Ask(c, kind, port, run, w) /\ caller.guard[c] # None /\ s.told[w] = None
        /\ op # None => op.write # w
        /\ \A i \in DOMAIN queue : queue[i].write # w
    BY <2>1, <2>2 DEF AskWrite
  <2>4. /\ kind \in {"start", "begin", "write", "end", "abort", "query"} /\ kind \notin {"start", "begin"}
        /\ run \in Runs \cup {None} /\ w \in {0} \cup Writes /\ port \in Ports /\ run \in caller.handles
    BY <1>1, <1>2, <1>3, <2>2, <2>3
  <2>5. QED
    BY <2>2, <2>3, <2>4, AskKeeps
<1>10. QED
  BY <1>4, <1>5, <1>7, <1>8, <1>9, DropKeeps

\* The session begins without a connection and without a request.
LEMMA InitHolds ==
    ASSUME Init
    PROVE  Invariant
<1> USE DEF Init
<1>1. /\ s.conn = 0 /\ op = None /\ queue = <<>> /\ ended = <<>> /\ written = {}
      /\ daemon.made = 0 /\ daemon.conns = {} /\ daemon.inbox = {} /\ daemon.answer = None /\ caller.handles = {}
      /\ \A p \in Ports : /\ s.owned[p] = None /\ s.lease[p] = None
                          /\ daemon.holder[p] = None /\ daemon.start[p] = None
      /\ \A w \in Writes : s.told[w] = None
      /\ \A c \in Callers : caller.guard[c] = None
  BY DEF NoRun
<1>2. TypeOK
  <2>1. /\ NoRun \in [Ports -> Runs \cup {None}] /\ NoRun \in [Ports -> OwnedRuns \cup {None}]
        /\ NoRun \in [Ports -> Holders \cup {None}] /\ NoRun \in [Ports -> Starts \cup {None}]
    BY DEF NoRun
  <2>2. s \in SessionState
    BY <2>1 DEF SessionState
  <2>3. caller \in CallerState
    BY DEF CallerState
  <2>4. daemon \in DaemonState
    BY <2>1 DEF DaemonState
  <2>5. queue \in Seq(Simple) /\ ended \in Seq(Runs)
    OBVIOUS
  <2>6. QED
    BY <1>1, <2>2, <2>3, <2>4, <2>5 DEF TypeOK
<1>3. SessionSound /\ ConnectionsKnown /\ RequestsSound /\ InFlight /\ AnswerFits
  BY <1>1 DEF SessionSound, ConnectionsKnown, RequestsSound, InFlight, AnswerFits
<1>4. RunsFresh /\ GuardsKnown /\ UsesExact
  BY <1>1 DEF RunsFresh, GuardsKnown, UsesExact, Granted
<1>5. StartsKnown /\ HoldersKnown /\ AbortedGone
  BY <1>1 DEF StartsKnown, HoldersKnown, AbortedGone, Mine
<1>6. WritesSound
  BY <1>1, NoneAssumption DEF WritesSound, InInbox
<1>7. QED
  BY <1>2, <1>3, <1>4, <1>5, <1>6 DEF Invariant

\* Every step keeps the invariant.
LEMMA NextKeeps ==
    ASSUME Invariant, [Next]_vars
    PROVE  Invariant'
<1>1. CASE Task
  BY <1>1, ContinueKeeps, TickKeeps, EndUseKeeps, TakeKeeps, ReceiveKeeps, LostKeeps, LostQueryKeeps DEF Task
<1>2. CASE \E port \in Ports : GrowIdle(port) \/ Revoke(port) \/ \E approve \in BOOLEAN : Decide(port, approve)
  BY <1>2, GrowIdleKeeps, RevokeIsShrunk, ShrunkKeeps, DecideKeeps
<1>3. CASE \E c \in Callers :
             \/ \E port \in Ports : AskStart(c, port)
             \/ \E run \in caller.handles : AskUse(c, run)
             \/ \E kind \in {"end", "abort"} : AskEnd(c, kind)
             \/ AskQuery(c)
             \/ \E w \in Writes : AskWrite(c, w)
             \/ Drop(c)
  BY <1>3, CallerKeeps
<1>4. CASE \E m \in daemon.inbox : Serve(m)
  <2>1. PICK m \in daemon.inbox : Serve(m)
    BY <1>4
  <2>2. PICK result, lease : Done(m, result, lease)
    BY <2>1, ServeIsDone
  <2>3. QED
    BY <2>2, DoneKeeps
<1>5. CASE \E conn \in daemon.conns : Closed(conn)
  BY <1>5, ClosedIsShrunk, ShrunkKeeps
<1>6. CASE UNCHANGED vars
  <2>1. s' = s /\ op' = op /\ queue' = queue /\ ended' = ended /\ caller' = caller /\ daemon' = daemon
        /\ written' = written
    BY <1>6 DEF vars, calls
  <2>2. /\ TypeOK' /\ SessionSound' /\ ConnectionsKnown' /\ RequestsSound' /\ GuardsKnown' /\ UsesExact'
    BY <2>1 DEF Invariant, TypeOK, SessionSound, ConnectionsKnown, RequestsSound, GuardsKnown, UsesExact,
                Queued, Served, Suspended, Addressed, Awaited, Apart, Waiting
  <2>3. /\ (Waiting' <=> Waiting) /\ (Granted' <=> Granted)
        /\ \A p \in Ports : Starting(p)' <=> Starting(p)
        /\ \A w \in Writes : (Writing(w)' <=> Writing(w)) /\ (InInbox(w)' <=> InInbox(w))
    BY <2>1 DEF Waiting, Granted, Starting, Writing, InInbox
  <2>4. InFlight' /\ AnswerFits' /\ RunsFresh'
    BY <2>1, <2>3 DEF Invariant, InFlight, AnswerFits, RunsFresh, Fresh
  <2>5. StartsKnown' /\ HoldersKnown' /\ AbortedGone'
    BY <2>1, <2>3 DEF Invariant, StartsKnown, HoldersKnown, AbortedGone, Mine, Releasing
  <2>6. WritesSound'
    BY <2>1, <2>3 DEF Invariant, WritesSound, Writing
  <2>7. QED
    BY <2>2, <2>4, <2>5, <2>6 DEF Invariant
<1>7. QED
  BY <1>1, <1>2, <1>3, <1>4, <1>5, <1>6 DEF Next

\* The invariant that the counts, the leases and the answers of the session rest on
\* (session.rs).
THEOREM SessionAlways == Spec => []Invariant
BY InitHolds, NextKeeps, PTL DEF Spec

\* The session's variables have their types.
THEOREM SessionTyped == Spec => []TypeOK
<1>1. Invariant => TypeOK
  BY DEF Invariant
<1>2. QED
  BY <1>1, SessionAlways, PTL

\* The session counts the uses of a Run exactly, owns no Run without its lease, leaves no
\* Run behind in the daemon, and never tells a caller wrongly that its bytes were or were
\* not written: for every number of callers, ports, Runs, connections and writes
\* (session.rs).
THEOREM RunsAlwaysAccounted == Spec => []RunsAccounted
<1>1. ASSUME Invariant PROVE RunsAccounted
  <2>1. UsesExact
    BY <1>1 DEF Invariant
  <2>2. OwnedHasLease
    BY <1>1 DEF Invariant, SessionSound, OwnedHasLease
  <2>3. NothingOrphaned
    <3>1. SUFFICES ASSUME op = None, s.conn # 0, NEW p \in Ports
                   PROVE  /\ ~Mine(daemon.start[p])
                          /\ Mine(daemon.holder[p]) => s.owned[p] # None /\ s.lease[p] = daemon.holder[p].lease
      BY DEF NothingOrphaned, Mine
    <3>2. ~Starting(p) /\ ~Granted /\ ~Waiting
      BY <3>1 DEF Starting, Granted, Waiting
    <3>3. ~Mine(daemon.start[p])
      BY <1>1, <3>2 DEF Invariant, StartsKnown
    <3>4. \A lease : ~Releasing(p, lease)
      BY <1>1, <3>2 DEF Invariant, InFlight, Releasing
    <3>5. QED
      BY <1>1, <3>2, <3>3, <3>4 DEF Invariant, HoldersKnown
  <2>4. ToldTruthfully
    <3>1. SUFFICES ASSUME NEW w \in Writes
                   PROVE  /\ s.told[w] = "unwritten" => w \notin written /\ ~InInbox(w)
                          /\ s.told[w] = "written" => w \in written
      BY DEF ToldTruthfully, InInbox
    <3>2. w # 0
      BY DEF Writes
    <3>3. ASSUME s.told[w] = "unwritten" PROVE ~Writing(w)
      BY <1>1, <3>2, <3>3, NoneAssumption DEF Invariant, WritesSound, Writing
    <3>4. QED
      BY <1>1, <3>3 DEF Invariant, WritesSound
  <2>5. QED
    BY <2>1, <2>2, <2>3, <2>4 DEF RunsAccounted
<1>2. QED
  BY <1>1, SessionAlways, PTL
=============================================================================

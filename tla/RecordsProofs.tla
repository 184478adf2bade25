---------------------------- MODULE RecordsProofs ----------------------------
(***************************************************************************)
(* Proofs about what the daemon keeps on record for its clients.             *)
(* The store of the Monitors, for any bounds, request ids and Monitors'      *)
(* requests: what is kept stays within the bounds that the next daemon       *)
(* demands, whatever overlaps; and as long as no update has put an old copy  *)
(* of a Monitor back, its counts are exact and a client that follows it by   *)
(* its cursors is not left without an incident.                              *)
(* The requests and their answers, for any clients, ids and bodies and any    *)
(* sizes of the caches, the history and the queue.                           *)
(***************************************************************************)
EXTENDS MonitorStore, Requests, FiniteSetTheorems, SequenceTheorems, WellFoundedInduction, TLAPS

-----------------------------------------------------------------------------
(* Monitors: the inductive invariant *)

Statuses == {"running", "stopped", "completed", "failed"}
Incident == [seq : Nat, created : Nat, acked : BOOLEAN]
Monitor == [spec : Specs, status : Statuses, revision : Nat \ {0}, count : Nat, unacked : Nat,
            gaps : Nat, stopped : Nat, stale : BOOLEAN, incidents : Seq(Incident)]
Poller == [on : MonitorIds \cup {Nothing}, after : Nat \cup {Nothing}, at : Nat,
           missed : BOOLEAN, fooled : BOOLEAN]
Copy == [revision : Nat \ {0}, count : Nat, unacked : Nat, gaps : Nat]
Updates == [on : MonitorIds, spec : Specs, view : Copy]

Shaped(s) ==
    /\ DOMAIN s \subseteq MonitorIds /\ IsFiniteSet(DOMAIN s)
    /\ s \in [DOMAIN s -> Monitor]

\* What validate_loaded_state demands of the sizes.
Bounded(s) ==
    /\ Cardinality(DOMAIN s) <= MaxMonitors /\ Cardinality(Running(s)) <= MaxActive
    /\ IsFiniteSet(Incidents(s)) /\ Cardinality(Incidents(s)) <= Total
    /\ \A m \in DOMAIN s : Len(s[m].incidents) <= PerMonitor

Counted(s) == \A m \in DOMAIN s : ~s[m].stale => s[m].unacked = Unacked(s, m)

\* Each incident of a Monitor is later than the one before it, and unless an update has put
\* an earlier count back, they are the last ones that were formed, without a hole.
InOrder(list, count, now, stale) ==
    /\ \A i \in DOMAIN list : list[i].created < now
    /\ \A i, j \in DOMAIN list : i < j => list[i].created < list[j].created
    /\ ~stale => /\ \A i \in DOMAIN list : list[i].seq + Len(list) = count + i
                 /\ Len(list) <= count

Ordered(s, now) == \A m \in DOMAIN s : InOrder(s[m].incidents, s[m].count, now, s[m].stale)

Sound(s, now) == Shaped(s) /\ Bounded(s) /\ Counted(s) /\ Ordered(s, now)

\* What has a number that the client's cursor has passed was there when it polled last.
Before(p, s) == \A i \in DOMAIN s[p.on].incidents :
    s[p.on].incidents[i].seq <= p.after => s[p.on].incidents[i].created < p.at

Follows(p, s) ==
    ~p.fooled /\ p.after # Nothing /\ p.on \in DOMAIN s =>
        ~s[p.on].stale /\ p.after <= s[p.on].count /\ Before(p, s)

\* The state that a write that fails brings back: PersistFails compares the cursor with it.
MayFallBack(p, s) == ~p.fooled /\ p.after # Nothing /\ p.on \in DOMAIN s => Before(p, s)

PollerSound(p) ==
    /\ p \in Poller /\ (p.missed => p.fooled)
    /\ p.on = Nothing => p.after = Nothing

UpdatingTyped(u) == u = Nothing \/ u \in Updates

StoreInvariant ==
    /\ time \in 1..MaxTime /\ UpdatingTyped(updating)
    /\ Sound(state, time) /\ Sound(disk, time) /\ (lock # Nothing => Sound(lock, time))
    /\ PollerSound(poller) /\ Follows(poller, state)
    /\ lock # Nothing => MayFallBack(poller, lock)

-----------------------------------------------------------------------------
(* Numbers, and the first of a list *)

\* A set of numbers that is not empty has a least one.
LEMMA LeastExists ==
    ASSUME NEW S, S \subseteq Nat, S # {}
    PROVE  \E x \in S : \A y \in S : x <= y
<1>1. PICK x \in S : \A y \in S : ~(<<y, x>> \in OpToRel(<, Nat))
    BY NatLessThanWellFounded, WFMin
<1>2. \A y \in S : ~(y < x)
    BY <1>1 DEF OpToRel
<1> QED
    BY <1>2

\* And, if it is bounded, a greatest one, which Max picks.
LEMMA MaxIsGreatest ==
    ASSUME NEW S, S \subseteq Nat, S # {}, NEW b \in Nat, \A y \in S : y <= b
    PROVE  Max(S) \in S /\ \A y \in S : y <= Max(S)
<1> DEFINE U == {u \in Nat : \A y \in S : y <= u}
<1>1. PICK u \in U : \A v \in U : u <= v
    <2> HIDE DEF U
    <2> U \subseteq Nat /\ b \in U
        BY DEF U
    <2> QED
        BY LeastExists
<1>2. u \in S
    <2> SUFFICES ASSUME u \notin S PROVE FALSE
        OBVIOUS
    <2>1. PICK y \in S : TRUE
        OBVIOUS
    <2>2. u \in Nat /\ y \in Nat /\ y <= u /\ y # u
        BY <2>1
    <2>3. u - 1 \in Nat
        BY <2>2
    <2>4. \A z \in S : z <= u - 1
        <3> TAKE z \in S
        <3> z \in Nat /\ z <= u /\ z # u
            OBVIOUS
        <3> QED
            BY <2>2
    <2>5. u - 1 \in U
        BY <2>3, <2>4
    <2> QED
        BY <1>1, <2>2, <2>5
<1>3. \A y \in S : u >= y
    <2> TAKE y \in S
    <2> y \in Nat /\ u \in Nat /\ y <= u
        OBVIOUS
    <2> QED
        OBVIOUS
<1> DEFINE x == Max(S)
<1>4. x \in S /\ \A y \in S : x >= y
    <2> \E z \in S : \A y \in S : z >= y
        BY <1>2, <1>3
    <2> QED
        BY DEF Max
<1> HIDE DEF x
<1>5. \A y \in S : y <= x
    <2> TAKE y \in S
    <2> y \in Nat /\ x \in Nat /\ x >= y
        BY <1>4
    <2> QED
        OBVIOUS
<1> QED
    BY <1>4, <1>5 DEF x

\* What RemoveAt leaves of a list without its first.
LEMMA FirstRemoved ==
    ASSUME NEW T, NEW list \in Seq(T), list # <<>>
    PROVE  /\ RemoveAt(list, 1) \in Seq(T)
           /\ Len(RemoveAt(list, 1)) = Len(list) - 1
           /\ \A i \in 1..(Len(list) - 1) : RemoveAt(list, 1)[i] = list[i + 1]
<1> DEFINE head == SubSeq(list, 1, 0)
           rest == SubSeq(list, 2, Len(list))
<1>0. Len(list) \in Nat /\ Len(list) >= 1
    OBVIOUS
<1>1. head = <<>>
    BY SubSeqEmpty
<1>2. rest \in Seq(T) /\ Len(rest) = Len(list) - 1
      /\ \A i \in 1..(Len(list) - 1) : rest[i] = list[i + 1]
    <2> Tail(list) = rest
        BY TailIsSubSeq
    <2> QED
        BY HeadTailProperties, <1>0
<1>3. RemoveAt(list, 1) = rest
    <2>1. RemoveAt(list, 1) = head \o rest
        BY DEF RemoveAt
    <2> HIDE DEF head, rest
    <2> QED
        BY <1>1, <1>2, <2>1
<1> HIDE DEF rest
<1> QED
    BY <1>2, <1>3

-----------------------------------------------------------------------------
(* Counts *)

UnackedOf(list) == {i \in DOMAIN list : ~list[i].acked}

LEMMA UnackedFinite ==
    ASSUME NEW T, NEW list \in Seq(T)
    PROVE  IsFiniteSet(UnackedOf(list)) /\ Cardinality(UnackedOf(list)) \in Nat
<1>1. DOMAIN list = 1..Len(list) /\ Len(list) \in Int
    OBVIOUS
<1>2. IsFiniteSet(DOMAIN list)
    BY <1>1, FS_Interval
<1>3. UnackedOf(list) \in SUBSET DOMAIN list
    BY DEF UnackedOf
<1>4. IsFiniteSet(UnackedOf(list))
    BY <1>2, <1>3, FS_Subset
<1> QED
    BY <1>4, FS_CardinalityType

\* The cardinality of a part of a finite set is a number, no larger.
LEMMA PartCounted ==
    ASSUME NEW S, IsFiniteSet(S), NEW T, T \subseteq S
    PROVE  /\ IsFiniteSet(T) /\ Cardinality(T) \in Nat /\ Cardinality(S) \in Nat
           /\ Cardinality(T) <= Cardinality(S)
<1>1. T \in SUBSET S
    OBVIOUS
<1>2. IsFiniteSet(T) /\ Cardinality(T) <= Cardinality(S)
    BY <1>1, FS_Subset
<1> QED
    BY <1>2, FS_CardinalityType

\* So is it if one element is missing, by one at least.
LEMMA ProperPartCounted ==
    ASSUME NEW S, IsFiniteSet(S), NEW T, T \subseteq S, NEW x \in S, x \notin T
    PROVE  IsFiniteSet(T) /\ Cardinality(T) \in Nat /\ Cardinality(T) + 1 <= Cardinality(S)
<1>1. T \cup {x} \subseteq S
    OBVIOUS
<1>2. IsFiniteSet(T) /\ Cardinality(T) \in Nat
    BY PartCounted
<1>3. Cardinality(T \cup {x}) = Cardinality(T) + 1
    BY <1>2, FS_AddElement
<1>4. Cardinality(T \cup {x}) <= Cardinality(S)
    BY <1>1, PartCounted
<1> QED
    BY <1>2, <1>3, <1>4

-----------------------------------------------------------------------------
(* A store whose incidents are untouched *)

Kept(s, now) == Shaped(s) /\ Bounded(s) /\ Ordered(s, now)

LEMMA ListTyped ==
    ASSUME NEW list \in Seq(Incident)
    PROVE  /\ Len(list) \in Nat /\ DOMAIN list = 1..Len(list)
           /\ \A i \in DOMAIN list : /\ list[i] \in Incident /\ list[i].seq \in Nat
                                     /\ list[i].created \in Nat /\ list[i].acked \in BOOLEAN
<1>1. \A i \in DOMAIN list : list[i] \in Incident
    OBVIOUS
<1> QED
    BY <1>1 DEF Incident

LEMMA MonitorTyped ==
    ASSUME NEW s, Shaped(s), NEW k \in DOMAIN s
    PROVE  /\ s[k] \in Monitor /\ s[k].count \in Nat /\ s[k].unacked \in Nat /\ s[k].gaps \in Nat
           /\ s[k].stale \in BOOLEAN /\ s[k].revision \in Nat \ {0}
           /\ s[k].incidents \in Seq(Incident) /\ Len(s[k].incidents) \in Nat
           /\ DOMAIN s[k].incidents = 1..Len(s[k].incidents)
<1>1. s[k] \in Monitor
    BY DEF Shaped
<1>2. s[k].incidents \in Seq(Incident)
    BY <1>1 DEF Monitor
<1>3. /\ s[k].count \in Nat /\ s[k].unacked \in Nat /\ s[k].gaps \in Nat
      /\ s[k].stale \in BOOLEAN /\ s[k].revision \in Nat \ {0}
    BY <1>1 DEF Monitor
<1> QED
    BY <1>1, <1>2, <1>3

LEMMA RunningFinite ==
    ASSUME NEW s, Shaped(s), NEW T, T \subseteq Running(s)
    PROVE  /\ IsFiniteSet(T) /\ Cardinality(T) \in Nat
           /\ IsFiniteSet(Running(s)) /\ Cardinality(Running(s)) \in Nat
           /\ Cardinality(T) <= Cardinality(Running(s))
<1>1. Running(s) \subseteq DOMAIN s /\ IsFiniteSet(DOMAIN s)
    BY DEF Running, Shaped
<1>2. IsFiniteSet(Running(s))
    BY <1>1, PartCounted
<1> QED
    BY <1>2, PartCounted

\* What holds of a store now will hold of it later.
LEMMA SoundLater ==
    ASSUME NEW s, NEW now \in Nat, Sound(s, now), NEW later \in Nat, now <= later
    PROVE  Sound(s, later)
<1> SUFFICES ASSUME NEW m \in DOMAIN s PROVE InOrder(s[m].incidents, s[m].count, later, s[m].stale)
    BY DEF Sound, Ordered
<1>2. InOrder(s[m].incidents, s[m].count, now, s[m].stale)
    BY DEF Sound, Ordered
<1>3. \A i \in DOMAIN s[m].incidents : s[m].incidents[i].created \in Nat
    <2> s[m].incidents \in Seq(Incident)
        BY MonitorTyped DEF Sound
    <2> QED
        BY ListTyped
<1>4. \A i \in DOMAIN s[m].incidents : s[m].incidents[i].created < later
    BY <1>2, <1>3 DEF InOrder
<1> QED
    BY <1>2, <1>4 DEF InOrder

\* The bounds, the order and the counts depend on the incidents, not on the rest of a record.
LEMMA SameIncidents ==
    ASSUME NEW s, NEW now, Kept(s, now), NEW t, Shaped(t), DOMAIN t \subseteq DOMAIN s,
           \A k \in DOMAIN t : /\ t[k].incidents = s[k].incidents
                               /\ ~t[k].stale => ~s[k].stale /\ t[k].count = s[k].count,
           Cardinality(Running(t)) <= MaxActive
    PROVE  Kept(t, now) /\ \A k \in DOMAIN t : Unacked(t, k) = Unacked(s, k)
<1>1. IsFiniteSet(DOMAIN s) /\ IsFiniteSet(Incidents(s))
      /\ Cardinality(DOMAIN s) <= MaxMonitors /\ Cardinality(Incidents(s)) <= Total
      /\ \A m \in DOMAIN s : Len(s[m].incidents) <= PerMonitor
    BY DEF Kept, Shaped, Bounded
<1>2. Cardinality(DOMAIN t) <= MaxMonitors
    <2> Cardinality(DOMAIN t) \in Nat /\ Cardinality(DOMAIN s) \in Nat
        /\ Cardinality(DOMAIN t) <= Cardinality(DOMAIN s)
        BY <1>1, PartCounted
    <2> QED
        BY <1>1, StoreAssumption
<1>3. Incidents(t) \subseteq Incidents(s)
    BY DEF Incidents
<1>4. IsFiniteSet(Incidents(t)) /\ Cardinality(Incidents(t)) <= Total
    <2> IsFiniteSet(Incidents(t))
        /\ Cardinality(Incidents(t)) \in Nat /\ Cardinality(Incidents(s)) \in Nat
        /\ Cardinality(Incidents(t)) <= Cardinality(Incidents(s))
        BY <1>1, <1>3, PartCounted
    <2> QED
        BY <1>1, StoreAssumption
<1>5. \A m \in DOMAIN t : Len(t[m].incidents) <= PerMonitor
    BY <1>1
<1>6. Ordered(t, now)
    BY DEF Kept, Ordered, InOrder
<1>7. \A k \in DOMAIN t : Unacked(t, k) = Unacked(s, k)
    BY DEF Unacked
<1> QED
    BY <1>2, <1>4, <1>5, <1>6, <1>7 DEF Kept, Bounded

\* Such a store is sound again when the counts that it shows are those of before.
LEMMA SameCounts ==
    ASSUME NEW s, NEW now, Sound(s, now), NEW t, Shaped(t), DOMAIN t \subseteq DOMAIN s,
           \A k \in DOMAIN t :
               /\ t[k].incidents = s[k].incidents
               /\ ~t[k].stale => /\ ~s[k].stale /\ t[k].count = s[k].count
                                 /\ t[k].unacked = s[k].unacked,
           Cardinality(Running(t)) <= MaxActive
    PROVE  Sound(t, now)
<1>1. Kept(s, now) /\ Counted(s)
    BY DEF Sound, Kept
<1>2. Kept(t, now) /\ \A k \in DOMAIN t : Unacked(t, k) = Unacked(s, k)
    BY <1>1, SameIncidents
<1>3. Counted(t)
    BY <1>1, <1>2 DEF Counted
<1> QED
    BY <1>2, <1>3 DEF Sound, Kept

LEMMA WithoutSound ==
    ASSUME NEW s, NEW now, Sound(s, now), NEW m
    PROVE  /\ Sound(Without(s, m), now)
           /\ DOMAIN Without(s, m) = DOMAIN s \ {m}
           /\ \A k \in DOMAIN s \ {m} : Without(s, m)[k] = s[k]
           /\ Running(Without(s, m)) \subseteq Running(s)
<1> DEFINE t == Without(s, m)
<1>1. DOMAIN t = DOMAIN s \ {m} /\ \A k \in DOMAIN s \ {m} : t[k] = s[k]
    BY DEF Without
<1>0. Shaped(s)
    BY DEF Sound
<1>2. Shaped(t)
    <2>1. IsFiniteSet(DOMAIN s) /\ DOMAIN s \subseteq MonitorIds
        BY <1>0 DEF Shaped
    <2>2. IsFiniteSet(DOMAIN s \ {m})
        BY <2>1, PartCounted
    <2>3. \A k \in DOMAIN s \ {m} : s[k] \in Monitor
        BY <1>0 DEF Shaped
    <2>4. t \in [DOMAIN s \ {m} -> Monitor]
        BY <2>3 DEF Without
    <2> HIDE DEF t
    <2> QED
        BY <1>1, <2>1, <2>2, <2>4 DEF Shaped
<1>3. Running(t) \subseteq Running(s)
    BY <1>1 DEF Running
<1>4. Cardinality(Running(t)) <= MaxActive
    <2>1. Cardinality(Running(t)) \in Nat /\ Cardinality(Running(s)) \in Nat
          /\ Cardinality(Running(t)) <= Cardinality(Running(s))
        BY <1>0, <1>3, RunningFinite
    <2>2. Cardinality(Running(s)) <= MaxActive
        BY DEF Sound, Bounded
    <2> QED
        BY <2>1, <2>2, StoreAssumption
<1> HIDE DEF t
<1>5. Sound(t, now)
    BY <1>1, <1>2, <1>4, SameCounts
<1> QED
    BY <1>1, <1>3, <1>5 DEF t

LEMMA PruneMonitorsSound ==
    ASSUME NEW s, NEW now, Sound(s, now)
    PROVE  /\ Sound(PruneMonitors(s), now)
           /\ DOMAIN PruneMonitors(s) \subseteq DOMAIN s
           /\ \A k \in DOMAIN PruneMonitors(s) : PruneMonitors(s)[k] = s[k]
           /\ Running(PruneMonitors(s)) \subseteq Running(s)
<1> DEFINE m == CHOOSE m \in Expendable(s) : TRUE
<1>1. PruneMonitors(s) = s \/ PruneMonitors(s) = Without(s, m)
    BY DEF PruneMonitors
<1> HIDE DEF m
<1>2. CASE PruneMonitors(s) = s
    BY <1>2
<1>3. CASE PruneMonitors(s) = Without(s, m)
    <2> DEFINE t == Without(s, m)
    <2>1. /\ Sound(t, now) /\ DOMAIN t = DOMAIN s \ {m}
          /\ \A k \in DOMAIN s \ {m} : t[k] = s[k]
          /\ Running(t) \subseteq Running(s)
        BY WithoutSound
    <2>2. PruneMonitors(s) = t
        BY <1>3
    <2> HIDE DEF t
    <2> QED
        BY <2>1, <2>2
<1> QED
    BY <1>1, <1>2, <1>3

-----------------------------------------------------------------------------
(* An incident that retention drops *)

\* The oldest of a Monitor's incidents is given up: what is left is in order, and there
\* is one fewer.
LEMMA DroppedFirst ==
    ASSUME NEW list \in Seq(Incident), list # <<>>, NEW count \in Nat, NEW now, NEW stale \in BOOLEAN,
           InOrder(list, count, now, stale)
    PROVE  InOrder(RemoveAt(list, 1), count, now, stale)
<1> DEFINE rest == RemoveAt(list, 1)
           n == Len(list)
<1>1. n \in Nat /\ n >= 1 /\ DOMAIN list = 1..n
    OBVIOUS
<1>2. rest \in Seq(Incident) /\ Len(rest) = n - 1 /\ \A i \in 1..(n - 1) : rest[i] = list[i + 1]
    BY FirstRemoved
<1> HIDE DEF rest
<1>3. DOMAIN rest = 1..(n - 1)
    BY <1>2
<1>4. /\ \A i \in 1..n : list[i].created < now
      /\ \A i, j \in 1..n : i < j => list[i].created < list[j].created
      /\ ~stale => n <= count /\ \A i \in 1..n : list[i].seq + n = count + i
    BY <1>1 DEF InOrder
<1>5. \A i \in 1..n : list[i].seq \in Nat
    BY <1>1, ListTyped
<1> HIDE DEF n
<1>6. ASSUME NEW i \in 1..(n - 1)
      PROVE  (~stale => rest[i].seq + Len(rest) = count + i) /\ rest[i].created < now
    <2>1. i + 1 \in 1..n /\ rest[i] = list[i + 1]
        BY <1>1, <1>2
    <2>2. /\ list[i + 1].seq \in Nat /\ list[i + 1].created < now
          /\ ~stale => list[i + 1].seq + n = count + (i + 1)
        BY <1>4, <1>5, <2>1
    <2>3. ~stale => rest[i].seq + (n - 1) = count + i
        BY <1>1, <2>1, <2>2
    <2> QED
        BY <1>2, <2>1, <2>2, <2>3
<1>7. ASSUME NEW i \in 1..(n - 1), NEW j \in 1..(n - 1), i < j
      PROVE  rest[i].created < rest[j].created
    <2>1. i + 1 \in 1..n /\ j + 1 \in 1..n /\ i + 1 < j + 1
        BY <1>1, <1>7
    <2> QED
        BY <1>2, <1>4, <2>1
<1>8. ~stale => Len(rest) <= count
    BY <1>1, <1>2, <1>4
<1> QED
    BY <1>3, <1>6, <1>7, <1>8 DEF rest, InOrder

\* A store with the same Monitors, each with some of its incidents.
Pruned(s, t) ==
    /\ DOMAIN t = DOMAIN s
    /\ \A k \in DOMAIN s :
        /\ t[k].count = s[k].count /\ t[k].status = s[k].status /\ t[k].stale = s[k].stale
        /\ Len(t[k].incidents) <= Len(s[k].incidents)
        /\ \A i \in DOMAIN t[k].incidents :
             \E j \in DOMAIN s[k].incidents : t[k].incidents[i] = s[k].incidents[j]

\* The record of the Monitor whose incident it was.
Shorter(r, list) == [r EXCEPT !.incidents = list, !.gaps = @ + 1]

LEMMA ShorterMonitor ==
    ASSUME NEW r \in Monitor, NEW list \in Seq(Incident)
    PROVE  /\ Shorter(r, list) \in Monitor /\ Shorter(r, list).incidents = list
           /\ Shorter(r, list).count = r.count /\ Shorter(r, list).status = r.status
           /\ Shorter(r, list).stale = r.stale
<1>1. /\ r.gaps + 1 \in Nat
      /\ DOMAIN r = {"spec", "status", "revision", "count", "unacked", "gaps", "stopped", "stale", "incidents"}
    BY DEF Monitor
<1>2. Shorter(r, list) \in Monitor
    BY <1>1 DEF Monitor, Shorter
<1> QED
    BY <1>1, <1>2 DEF Shorter

\* The store without it.
LEMMA DroppedKept ==
    ASSUME NEW s, NEW now, Kept(s, now), NEW m \in DOMAIN s, s[m].incidents # <<>>
    PROVE  LET t == Dropped(s, m, 1)
           IN  /\ Kept(t, now)
               /\ Len(t[m].incidents) = Len(s[m].incidents) - 1
               /\ Cardinality(Incidents(t)) + 1 = Cardinality(Incidents(s))
               /\ Pruned(s, t)
<1> DEFINE t == Dropped(s, m, 1)
           list == s[m].incidents
           rest == RemoveAt(list, 1)
           n == Len(list)
<1>0. Shaped(s) /\ Bounded(s) /\ Ordered(s, now)
    BY DEF Kept
<1>1. s[m] \in Monitor /\ \A k \in DOMAIN s : s[k] \in Monitor
    BY <1>0 DEF Shaped
<1>2. list \in Seq(Incident) /\ s[m].count \in Nat /\ s[m].gaps \in Nat /\ s[m].stale \in BOOLEAN
    BY <1>1 DEF Monitor
<1>3. n \in Nat /\ n >= 1 /\ DOMAIN list = 1..n
    BY <1>2
<1>4. rest \in Seq(Incident) /\ Len(rest) = n - 1 /\ \A i \in 1..(n - 1) : rest[i] = list[i + 1]
    BY <1>2, FirstRemoved
<1>5. t = [s EXCEPT ![m].incidents = rest, ![m].gaps = @ + 1]
    BY DEF Dropped
<1> HIDE DEF rest, n, t
<1>6. DOMAIN t = DOMAIN s
    BY <1>5
<1>7. t[m] = Shorter(s[m], rest)
    BY <1>5 DEF Shorter
<1>8. \A k \in DOMAIN s : k # m => t[k] = s[k]
    BY <1>5
<1>9. /\ t[m].incidents = rest /\ t[m].count = s[m].count /\ t[m].status = s[m].status
      /\ t[m].stale = s[m].stale /\ t[m] \in Monitor
    BY <1>1, <1>4, <1>7, ShorterMonitor
<1>10. Shaped(t)
    <2>1. \A k \in DOMAIN s : t[k] \in Monitor
        BY <1>1, <1>8, <1>9
    <2>2. t = [k \in DOMAIN s |-> t[k]]
        BY <1>5
    <2>3. t \in [DOMAIN s -> Monitor]
        BY <2>1, <2>2
    <2> QED
        BY <1>0, <1>6, <2>3 DEF Shaped
<1>11. DOMAIN rest = 1..(n - 1)
    BY <1>4
<1>12. Incidents(t) = Incidents(s) \ {<<m, n>>} /\ <<m, n>> \in Incidents(s)
    <2>1. \A k \in DOMAIN s : \A i : <<k, i>> \in Incidents(s) <=> i \in DOMAIN s[k].incidents
        BY DEF Incidents
    <2>2. \A k \in DOMAIN s : \A i : <<k, i>> \in Incidents(t) <=> i \in DOMAIN t[k].incidents
        BY <1>6 DEF Incidents
    <2>3. /\ \A x \in Incidents(s) : \E k \in DOMAIN s : \E i \in DOMAIN s[k].incidents : x = <<k, i>>
          /\ \A x \in Incidents(t) : \E k \in DOMAIN s : \E i \in DOMAIN t[k].incidents : x = <<k, i>>
        BY <1>6 DEF Incidents
    <2>4. 1..(n - 1) = (1..n) \ {n} /\ n \in 1..n
        BY <1>3
    <2>5. \A k \in DOMAIN s : \A i : i \in DOMAIN t[k].incidents <=> i \in DOMAIN s[k].incidents /\ <<k, i>> # <<m, n>>
        <3> TAKE k \in DOMAIN s
        <3> TAKE i
        <3>1. CASE k = m
            BY <1>3, <1>9, <1>11, <2>4, <3>1
        <3>2. CASE k # m
            BY <1>8, <3>2
        <3> QED
            BY <3>1, <3>2
    <2>6. <<m, n>> \in Incidents(s)
        BY <1>3, <2>1, <2>4
    <2>7. \A x \in Incidents(t) : x \in Incidents(s) \ {<<m, n>>}
        BY <2>1, <2>3, <2>5
    <2>8. \A x \in Incidents(s) \ {<<m, n>>} : x \in Incidents(t)
        BY <2>2, <2>3, <2>5
    <2> QED
        BY <2>6, <2>7, <2>8
<1>13. IsFiniteSet(Incidents(t)) /\ Cardinality(Incidents(t)) + 1 = Cardinality(Incidents(s))
       /\ Cardinality(Incidents(t)) \in Nat /\ Cardinality(Incidents(s)) <= Total
    <2>1. IsFiniteSet(Incidents(s)) /\ Cardinality(Incidents(s)) <= Total
        BY <1>0 DEF Bounded
    <2>2. IsFiniteSet(Incidents(t)) /\ Cardinality(Incidents(t)) = Cardinality(Incidents(s)) - 1
        BY <1>12, <2>1, FS_RemoveElement
    <2>3. Cardinality(Incidents(t)) \in Nat /\ Cardinality(Incidents(s)) \in Nat
        BY <2>1, <2>2, FS_CardinalityType
    <2> QED
        BY <2>1, <2>2, <2>3
<1>14. \A k \in DOMAIN s : Len(t[k].incidents) <= Len(s[k].incidents) /\ Len(t[k].incidents) <= PerMonitor
    <2> TAKE k \in DOMAIN s
    <2>1. Len(s[k].incidents) <= PerMonitor /\ Len(s[k].incidents) \in Nat
        BY <1>0, <1>1 DEF Bounded, Monitor
    <2>2. CASE k = m
        BY <1>3, <1>4, <1>9, <2>1, <2>2, StoreAssumption DEF n
    <2>3. CASE k # m
        BY <1>8, <2>1, <2>3
    <2> QED
        BY <2>2, <2>3
<1>15. Running(t) = Running(s)
    BY <1>6, <1>8, <1>9 DEF Running
<1>16. Bounded(t)
    <2>1. Cardinality(Incidents(t)) <= Total
        BY <1>13, StoreAssumption
    <2> QED
        BY <1>0, <1>6, <1>13, <1>14, <1>15, <2>1 DEF Bounded
<1>17. Ordered(t, now)
    <2> SUFFICES ASSUME NEW k \in DOMAIN s PROVE InOrder(t[k].incidents, t[k].count, now, t[k].stale)
        BY <1>6 DEF Ordered
    <2>1. InOrder(s[k].incidents, s[k].count, now, s[k].stale)
        BY <1>0 DEF Ordered
    <2>2. CASE k = m
        BY <1>2, <1>9, <2>1, <2>2, DroppedFirst DEF rest
    <2>3. CASE k # m
        BY <1>8, <2>1, <2>3
    <2> QED
        BY <2>2, <2>3
<1>18. ASSUME NEW k \in DOMAIN s
       PROVE  /\ t[k].count = s[k].count /\ t[k].status = s[k].status /\ t[k].stale = s[k].stale
              /\ \A i \in DOMAIN t[k].incidents :
                    \E j \in DOMAIN s[k].incidents : t[k].incidents[i] = s[k].incidents[j]
    <2>1. CASE k = m
        <3>1. \A i \in 1..(n - 1) : i + 1 \in 1..n
            BY <1>3
        <3> QED
            BY <1>3, <1>4, <1>9, <1>11, <2>1, <3>1
    <2>2. CASE k # m
        BY <1>8, <2>2
    <2> QED
        BY <2>1, <2>2
<1>19. Kept(t, now)
    BY <1>10, <1>16, <1>17 DEF Kept
<1>20. Len(t[m].incidents) = Len(s[m].incidents) - 1
    BY <1>4, <1>9 DEF n
<1> QED
    BY <1>6, <1>13, <1>14, <1>18, <1>19, <1>20 DEF t, Pruned

LEMMA PrunedTwice ==
    ASSUME NEW s, Shaped(s), NEW t, Shaped(t), NEW u, Shaped(u), Pruned(s, t), Pruned(t, u)
    PROVE  Pruned(s, u)
<1>1. DOMAIN u = DOMAIN s /\ DOMAIN t = DOMAIN s
    BY DEF Pruned
<1> SUFFICES ASSUME NEW k \in DOMAIN s
             PROVE  /\ u[k].count = s[k].count /\ u[k].status = s[k].status /\ u[k].stale = s[k].stale
                    /\ Len(u[k].incidents) <= Len(s[k].incidents)
                    /\ \A i \in DOMAIN u[k].incidents :
                         \E j \in DOMAIN s[k].incidents : u[k].incidents[i] = s[k].incidents[j]
    BY <1>1 DEF Pruned
<1>2. Len(s[k].incidents) \in Nat /\ Len(t[k].incidents) \in Nat /\ Len(u[k].incidents) \in Nat
    BY <1>1, MonitorTyped
<1>3. /\ t[k].count = s[k].count /\ t[k].status = s[k].status /\ t[k].stale = s[k].stale
      /\ Len(t[k].incidents) <= Len(s[k].incidents)
      /\ \A i \in DOMAIN t[k].incidents :
           \E j \in DOMAIN s[k].incidents : t[k].incidents[i] = s[k].incidents[j]
    BY DEF Pruned
<1>4. /\ u[k].count = t[k].count /\ u[k].status = t[k].status /\ u[k].stale = t[k].stale
      /\ Len(u[k].incidents) <= Len(t[k].incidents)
      /\ \A i \in DOMAIN u[k].incidents :
           \E j \in DOMAIN t[k].incidents : u[k].incidents[i] = t[k].incidents[j]
    BY <1>1 DEF Pruned
<1>5. Len(u[k].incidents) <= Len(s[k].incidents)
    BY <1>2, <1>3, <1>4
<1>6. \A i \in DOMAIN u[k].incidents :
        \E j \in DOMAIN s[k].incidents : u[k].incidents[i] = s[k].incidents[j]
    <2> TAKE i \in DOMAIN u[k].incidents
    <2>1. PICK j \in DOMAIN t[k].incidents : u[k].incidents[i] = t[k].incidents[j]
        BY <1>4
    <2>2. PICK h \in DOMAIN s[k].incidents : t[k].incidents[j] = s[k].incidents[h]
        BY <1>3
    <2> QED
        BY <2>1, <2>2
<1> QED
    BY <1>3, <1>4, <1>5, <1>6

LEMMA PrunedNot ==
    ASSUME NEW s, Shaped(s)
    PROVE  Pruned(s, s)
<1> SUFFICES ASSUME NEW k \in DOMAIN s PROVE Len(s[k].incidents) \in Nat
    BY DEF Pruned
<1> QED
    BY MonitorTyped

\* A Monitor's own oldest goes when its list is full.
LEMMA PruneOwnKept ==
    ASSUME NEW s, NEW now, Kept(s, now), NEW m \in DOMAIN s
    PROVE  LET t == PruneOwn(s, m)
           IN  Kept(t, now) /\ Pruned(s, t) /\ Len(t[m].incidents) < PerMonitor
<1> DEFINE t == Dropped(s, m, 1)
           n == Len(s[m].incidents)
<1>1. n \in Nat /\ n <= PerMonitor
    BY MonitorTyped DEF Kept, Bounded
<1>2. CASE n < PerMonitor
    <2>1. PruneOwn(s, m) = s
        BY <1>2 DEF PruneOwn
    <2> QED
        BY <1>2, <2>1, PrunedNot DEF Kept
<1>3. CASE ~(n < PerMonitor)
    <2>1. PruneOwn(s, m) = t
        BY <1>3 DEF PruneOwn
    <2>2. n = PerMonitor /\ n >= 1
        BY <1>1, <1>3, StoreAssumption
    <2>3. s[m].incidents # <<>>
        BY <2>2
    <2>4. Kept(t, now) /\ Pruned(s, t) /\ Len(t[m].incidents) = n - 1
        BY <2>3, DroppedKept
    <2>5. Len(t[m].incidents) < PerMonitor
        BY <2>2, <2>4, StoreAssumption
    <2> HIDE DEF t
    <2> QED
        BY <2>1, <2>4, <2>5
<1> QED
    BY <1>2, <1>3

\* The oldest of all is the first of its Monitor.
LEMMA OldestIsFirst ==
    ASSUME NEW s, NEW now, Kept(s, now), Incidents(s) # {}
    PROVE  LET x == CHOOSE x \in Incidents(s) :
                      \A y \in Incidents(s) : s[x[1]].incidents[x[2]].created <= s[y[1]].incidents[y[2]].created
           IN  x[1] \in DOMAIN s /\ x[2] = 1 /\ s[x[1]].incidents # <<>>
<1> DEFINE Formed(x) == s[x[1]].incidents[x[2]].created
           Oldest(x) == x \in Incidents(s) /\ \A y \in Incidents(s) : Formed(x) <= Formed(y)
           x == CHOOSE x \in Incidents(s) : \A y \in Incidents(s) : Formed(x) <= Formed(y)
<1>1. ASSUME NEW k \in DOMAIN s
      PROVE  /\ s[k].incidents \in Seq(Incident) /\ DOMAIN s[k].incidents = 1..Len(s[k].incidents)
             /\ \A i \in DOMAIN s[k].incidents : s[k].incidents[i].created \in Nat
    <2>1. s[k].incidents \in Seq(Incident)
        BY MonitorTyped DEF Kept
    <2> QED
        BY <2>1, ListTyped
<1>2. \A y \in Incidents(s) : /\ y = <<y[1], y[2]>> /\ y[1] \in DOMAIN s
                              /\ y[2] \in DOMAIN s[y[1]].incidents
    BY DEF Incidents
<1>3. \A k \in DOMAIN s : \A i \in DOMAIN s[k].incidents : <<k, i>> \in Incidents(s)
    BY DEF Incidents
<1>4. \A y \in Incidents(s) : Formed(y) \in Nat
    BY <1>1, <1>2
<1>5. \E z \in Incidents(s) : \A y \in Incidents(s) : Formed(z) <= Formed(y)
    <2> DEFINE F == {Formed(y) : y \in Incidents(s)}
    <2>1. F \subseteq Nat /\ F # {}
        BY <1>4
    <2>2. PICK f \in F : \A g \in F : f <= g
        <3> HIDE DEF F
        <3> QED
            BY <2>1, LeastExists
    <2> QED
        BY <2>2
<1>6. x \in Incidents(s) /\ \A y \in Incidents(s) : Formed(x) <= Formed(y)
    <2> HIDE DEF Formed
    <2> QED
        BY <1>5
<1> HIDE DEF x
<1>7. x[1] \in DOMAIN s /\ x[2] \in DOMAIN s[x[1]].incidents
    BY <1>2, <1>6
<1> DEFINE k == x[1]
           list == s[k].incidents
<1>8. list \in Seq(Incident) /\ DOMAIN list = 1..Len(list) /\ x[2] \in 1..Len(list) /\ 1 \in 1..Len(list)
    BY <1>1, <1>7
<1>9. x[2] = 1
    <2> SUFFICES ASSUME x[2] # 1 PROVE FALSE
        OBVIOUS
    <2>1. 1 < x[2]
        BY <1>8
    <2>2. list[1].created < list[x[2]].created
        BY <1>7, <1>8, <2>1 DEF Kept, Ordered, InOrder
    <2>3. <<k, 1>> \in Incidents(s)
        BY <1>3, <1>7, <1>8
    <2>4. list[x[2]].created <= list[1].created
        <3>1. Formed(x) <= Formed(<<k, 1>>)
            BY <1>6, <2>3
        <3>2. <<k, 1>>[1] = k /\ <<k, 1>>[2] = 1
            OBVIOUS
        <3>3. Formed(x) = list[x[2]].created
            OBVIOUS
        <3>4. Formed(<<k, 1>>) = list[1].created
            BY <3>2
        <3> HIDE DEF Formed
        <3> QED
            BY <3>1, <3>3, <3>4
    <2>5. list[1].created \in Nat /\ list[x[2]].created \in Nat
        BY <1>1, <1>7, <1>8
    <2> HIDE DEF list
    <2> QED
        BY <2>2, <2>4, <2>5
<1>10. list # <<>>
    BY <1>8
<1> QED
    BY <1>7, <1>9, <1>10 DEF x

LEMMA PruneGlobalKept ==
    ASSUME NEW s, NEW now, Kept(s, now)
    PROVE  LET t == PruneGlobal(s)
           IN  /\ Kept(t, now) /\ Pruned(s, t)
               /\ Cardinality(Incidents(t)) \in Nat /\ Cardinality(Incidents(t)) < Total
<1> DEFINE n == Cardinality(Incidents(s))
           x == CHOOSE x \in Incidents(s) :
                  \A y \in Incidents(s) : s[x[1]].incidents[x[2]].created <= s[y[1]].incidents[y[2]].created
           t == Dropped(s, x[1], x[2])
<1>1. IsFiniteSet(Incidents(s)) /\ n \in Nat /\ n <= Total
    BY FS_CardinalityType DEF Kept, Bounded
<1>2. CASE n < Total
    <2>1. PruneGlobal(s) = s
        BY <1>2 DEF PruneGlobal
    <2>2. Pruned(s, s)
        BY PrunedNot DEF Kept
    <2> QED
        BY <1>1, <1>2, <2>1, <2>2
<1>3. CASE ~(n < Total)
    <2>1. PruneGlobal(s) = t
        BY <1>3 DEF PruneGlobal
    <2>2. n = Total /\ n >= 1
        BY <1>1, <1>3, StoreAssumption
    <2>3. Incidents(s) # {}
        BY <1>1, <2>2, FS_EmptySet
    <2>4. x[1] \in DOMAIN s /\ x[2] = 1 /\ s[x[1]].incidents # <<>>
        BY <2>3, OldestIsFirst
    <2> HIDE DEF x
    <2>5. t = Dropped(s, x[1], 1)
        BY <2>4
    <2>6. Kept(t, now) /\ Pruned(s, t) /\ Cardinality(Incidents(t)) + 1 = n
        BY <2>4, <2>5, DroppedKept
    <2> HIDE DEF t
    <2>7. Cardinality(Incidents(t)) \in Nat
        BY <2>6, FS_CardinalityType DEF Kept, Bounded
    <2>8. Cardinality(Incidents(t)) < Total
        BY <1>1, <2>2, <2>6, <2>7
    <2> QED
        BY <2>1, <2>6, <2>7, <2>8
<1> QED
    BY <1>2, <1>3

-----------------------------------------------------------------------------
(* The operations on a store *)

\* A new incident fits where there is room, and is the last of its Monitor.
Formed(count, now) == [seq |-> count + 1, created |-> now, acked |-> FALSE]

LEMMA AppendedInOrder ==
    ASSUME NEW list \in Seq(Incident), NEW count \in Nat, NEW now \in Nat,
           NEW stale \in BOOLEAN, InOrder(list, count, now, stale)
    PROVE  LET longer == Append(list, Formed(count, now))
           IN  /\ longer \in Seq(Incident) /\ Len(longer) = Len(list) + 1
               /\ InOrder(longer, count + 1, now + 1, stale)
               /\ \A i \in DOMAIN list : longer[i] = list[i]
               /\ longer[Len(list) + 1] = Formed(count, now)
<1> DEFINE e == Formed(count, now)
           longer == Append(list, e)
           n == Len(list)
<1>1. e \in Incident /\ e.seq = count + 1 /\ e.created = now
    BY DEF Formed, Incident
<1> HIDE DEF e
<1>2. n \in Nat /\ DOMAIN list = 1..n
    OBVIOUS
<1>3. longer \in Seq(Incident) /\ Len(longer) = n + 1 /\ longer[n + 1] = e
      /\ \A i \in 1..n : longer[i] = list[i]
    BY <1>1, AppendProperties
<1>4. DOMAIN longer = 1..(n + 1)
    BY <1>3
<1>5. \A i \in 1..n : list[i].seq \in Nat /\ list[i].created \in Nat
    BY <1>2, ListTyped
<1>6. /\ \A i \in 1..n : list[i].created < now
      /\ \A i, j \in 1..n : i < j => list[i].created < list[j].created
      /\ ~stale => n <= count /\ \A i \in 1..n : list[i].seq + n = count + i
    BY <1>2 DEF InOrder
<1> HIDE DEF n, longer
<1>7. ASSUME NEW i \in 1..(n + 1)
      PROVE  (~stale => longer[i].seq + (n + 1) = (count + 1) + i) /\ longer[i].created < now + 1
    <2>1. CASE i = n + 1
        BY <1>1, <1>2, <1>3, <2>1
    <2>2. CASE i # n + 1
        <3>1. i \in 1..n
            BY <1>2, <2>2
        <3>2. /\ list[i].seq \in Nat /\ list[i].created \in Nat /\ list[i].created < now
              /\ ~stale => list[i].seq + n = count + i
            BY <1>5, <1>6, <3>1
        <3>3. longer[i].seq = list[i].seq /\ longer[i].created = list[i].created
            BY <1>3, <3>1
        <3>4. i \in Nat
            BY <1>2
        <3>5. ~stale => list[i].seq + (n + 1) = (count + 1) + i
            BY <1>2, <3>2, <3>4
        <3>6. list[i].created < now + 1
            BY <3>2
        <3> QED
            BY <3>3, <3>5, <3>6
    <2> QED
        BY <2>1, <2>2
<1>8. ASSUME NEW i \in 1..(n + 1), NEW j \in 1..(n + 1), i < j
      PROVE  longer[i].created < longer[j].created
    <2>1. i \in 1..n
        BY <1>2, <1>8
    <2>2. CASE j = n + 1
        BY <1>1, <1>3, <1>6, <2>1, <2>2
    <2>3. CASE j # n + 1
        <3> j \in 1..n
            BY <1>2, <2>3
        <3> QED
            BY <1>3, <1>6, <1>8, <2>1
    <2> QED
        BY <2>2, <2>3
<1>9. InOrder(longer, count + 1, now + 1, stale)
    <2> ~stale => n + 1 <= count + 1
        BY <1>2, <1>6
    <2> QED
        BY <1>3, <1>4, <1>7, <1>8 DEF InOrder
<1> QED
    BY <1>2, <1>3, <1>9 DEF n, longer, e

Longer(r, list) == [r EXCEPT !.count = r.count + 1, !.incidents = list]

LEMMA LongerMonitor ==
    ASSUME NEW r \in Monitor, NEW list \in Seq(Incident)
    PROVE  /\ Longer(r, list) \in Monitor /\ Longer(r, list).incidents = list
           /\ Longer(r, list).count = r.count + 1 /\ Longer(r, list).status = r.status
           /\ Longer(r, list).stale = r.stale
<1>1. /\ r.count + 1 \in Nat
      /\ DOMAIN r = {"spec", "status", "revision", "count", "unacked", "gaps", "stopped", "stale", "incidents"}
    BY DEF Monitor
<1>2. Longer(r, list) \in Monitor
    BY <1>1 DEF Monitor, Longer
<1> QED
    BY <1>1, <1>2 DEF Longer

\* A store in which a Monitor has an incident more.
Extended(s, m, now) ==
    [s EXCEPT ![m].count = s[m].count + 1,
              ![m].incidents = Append(s[m].incidents, Formed(s[m].count, now))]

LEMMA ExtendedKept ==
    ASSUME NEW s, NEW now \in Nat, Kept(s, now), NEW m \in DOMAIN s,
           Len(s[m].incidents) < PerMonitor, Cardinality(Incidents(s)) < Total,
           \A k \in DOMAIN s : k # m => InOrder(s[k].incidents, s[k].count, now + 1, s[k].stale)
    PROVE  LET t == Extended(s, m, now)
           IN  /\ Kept(t, now + 1) /\ DOMAIN t = DOMAIN s
               /\ t[m].count = s[m].count + 1 /\ t[m].stale = s[m].stale
               /\ t[m].incidents = Append(s[m].incidents, Formed(s[m].count, now))
               /\ \A k \in DOMAIN s : k # m => t[k] = s[k]
<1> DEFINE t == Extended(s, m, now)
           list == s[m].incidents
           longer == Append(list, Formed(s[m].count, now))
           n == Len(list)
<1>0. Shaped(s) /\ Bounded(s) /\ Ordered(s, now)
    BY DEF Kept
<1>1. /\ s[m] \in Monitor /\ s[m].count \in Nat /\ s[m].stale \in BOOLEAN
      /\ list \in Seq(Incident) /\ n \in Nat /\ DOMAIN list = 1..n
    BY <1>0, MonitorTyped
<1>2. /\ longer \in Seq(Incident) /\ Len(longer) = n + 1
      /\ InOrder(longer, s[m].count + 1, now + 1, s[m].stale)
    <2> InOrder(list, s[m].count, now, s[m].stale)
        BY <1>0 DEF Ordered
    <2> QED
        BY <1>1, AppendedInOrder
<1>3. t = [s EXCEPT ![m] = Longer(s[m], longer)]
    BY DEF Extended, Longer
<1>4. n < PerMonitor
    OBVIOUS
<1> HIDE DEF longer, t, n
<1>5. /\ DOMAIN t = DOMAIN s /\ t[m] = Longer(s[m], longer)
      /\ \A k \in DOMAIN s : k # m => t[k] = s[k]
    BY <1>3
<1>6. /\ t[m] \in Monitor /\ t[m].incidents = longer /\ t[m].count = s[m].count + 1
      /\ t[m].status = s[m].status /\ t[m].stale = s[m].stale
    BY <1>1, <1>2, <1>5, LongerMonitor
<1>7. Shaped(t)
    <2>1. \A k \in DOMAIN s : s[k] \in Monitor
        BY <1>0 DEF Shaped
    <2>2. \A k \in DOMAIN s : t[k] \in Monitor
        BY <1>5, <1>6, <2>1
    <2>3. t = [k \in DOMAIN s |-> t[k]]
        BY <1>3
    <2>4. t \in [DOMAIN s -> Monitor]
        BY <2>2, <2>3
    <2> QED
        BY <1>0, <1>5, <2>4 DEF Shaped
<1>8. DOMAIN longer = 1..(n + 1)
    BY <1>2
<1>9. Incidents(t) \subseteq Incidents(s) \cup {<<m, n + 1>>}
    <2> SUFFICES ASSUME NEW k \in DOMAIN s, NEW i \in DOMAIN t[k].incidents
                 PROVE  i \in DOMAIN s[k].incidents \/ <<k, i>> = <<m, n + 1>>
        BY <1>5 DEF Incidents
    <2>1. CASE k = m
        <3> i \in 1..(n + 1)
            BY <1>6, <1>8, <2>1
        <3> i \in 1..n \/ i = n + 1
            BY <1>1
        <3> QED
            BY <1>1, <2>1
    <2>2. CASE k # m
        BY <1>5, <2>2
    <2> QED
        BY <2>1, <2>2
<1>10. IsFiniteSet(Incidents(t)) /\ Cardinality(Incidents(t)) <= Total
    <2>1. IsFiniteSet(Incidents(s)) /\ Cardinality(Incidents(s)) \in Nat
        BY <1>0, FS_CardinalityType DEF Bounded
    <2> DEFINE x == <<m, n + 1>>
               more == Incidents(s) \cup {x}
    <2>2. IsFiniteSet(more) /\ Cardinality(more) <= Cardinality(Incidents(s)) + 1
        <3> HIDE DEF x
        <3>1. IsFiniteSet(more) /\ Cardinality(more) =
                  IF x \in Incidents(s) THEN Cardinality(Incidents(s)) ELSE Cardinality(Incidents(s)) + 1
            BY <2>1, FS_AddElement
        <3> HIDE DEF more
        <3> QED
            BY <2>1, <3>1
    <2> HIDE DEF more
    <2>3. IsFiniteSet(Incidents(t)) /\ Cardinality(Incidents(t)) \in Nat /\ Cardinality(more) \in Nat
          /\ Cardinality(Incidents(t)) <= Cardinality(more)
        BY <1>9, <2>2, PartCounted DEF more
    <2>4. Cardinality(Incidents(s)) + 1 <= Total
        BY <2>1, StoreAssumption
    <2> QED
        BY <2>1, <2>2, <2>3, <2>4, StoreAssumption
<1>11. \A k \in DOMAIN s : Len(t[k].incidents) <= PerMonitor
    <2> TAKE k \in DOMAIN s
    <2>1. CASE k = m
        BY <1>1, <1>2, <1>4, <1>6, <2>1, StoreAssumption
    <2>2. CASE k # m
        BY <1>0, <1>5, <2>2 DEF Bounded
    <2> QED
        BY <2>1, <2>2
<1>12. Running(t) = Running(s)
    BY <1>5, <1>6 DEF Running
<1>13. Bounded(t)
    BY <1>0, <1>5, <1>10, <1>11, <1>12 DEF Bounded
<1>14. Ordered(t, now + 1)
    BY <1>2, <1>5, <1>6 DEF Ordered
<1> QED
    BY <1>5, <1>6, <1>7, <1>13, <1>14 DEF t, longer, Kept

\* The counts that the Monitors show are recomputed.
LEMMA RecountSound ==
    ASSUME NEW s, NEW now, Kept(s, now)
    PROVE  LET t == Recount(s)
           IN  /\ Sound(t, now) /\ DOMAIN t = DOMAIN s
               /\ \A k \in DOMAIN s : /\ t[k].incidents = s[k].incidents /\ t[k].count = s[k].count
                                      /\ t[k].stale = s[k].stale
<1> DEFINE t == Recount(s)
<1>0. Shaped(s)
    BY DEF Kept
<1>1. DOMAIN t = DOMAIN s /\ \A k \in DOMAIN s : t[k] = [s[k] EXCEPT !.unacked = Unacked(s, k)]
    BY DEF Recount
<1>2. t = [k \in DOMAIN s |-> t[k]]
    BY DEF Recount
<1> HIDE DEF t
<1>3. ASSUME NEW k \in DOMAIN s
      PROVE  /\ t[k] \in Monitor /\ t[k].incidents = s[k].incidents /\ t[k].count = s[k].count
             /\ t[k].status = s[k].status /\ t[k].unacked = Unacked(s, k) /\ t[k].stale = s[k].stale
    <2>1. s[k] \in Monitor /\ s[k].incidents \in Seq(Incident)
        BY <1>0, MonitorTyped
    <2>2. Unacked(s, k) \in Nat
        <3> Unacked(s, k) = Cardinality(UnackedOf(s[k].incidents))
            BY DEF Unacked, UnackedOf
        <3> QED
            BY <2>1, UnackedFinite
    <2> DEFINE u == Unacked(s, k)
    <2> HIDE DEF u
    <2>3. t[k] = [s[k] EXCEPT !.unacked = u]
        BY <1>1 DEF u
    <2>4. u \in Nat
        BY <2>2 DEF u
    <2>5. t[k] \in Monitor
        BY <2>1, <2>3, <2>4 DEF Monitor
    <2>6. /\ t[k].incidents = s[k].incidents /\ t[k].count = s[k].count
          /\ t[k].status = s[k].status /\ t[k].unacked = u /\ t[k].stale = s[k].stale
        BY <2>1, <2>3 DEF Monitor
    <2> QED
        BY <2>5, <2>6 DEF u
<1>4. Shaped(t)
    <2> t \in [DOMAIN s -> Monitor]
        BY <1>2, <1>3
    <2> QED
        BY <1>0, <1>1 DEF Shaped
<1>5. Running(t) = Running(s)
    BY <1>1, <1>3 DEF Running
<1>6. Cardinality(Running(t)) <= MaxActive
    BY <1>5 DEF Kept, Bounded
<1>7. Kept(t, now) /\ \A k \in DOMAIN t : Unacked(t, k) = Unacked(s, k)
    BY <1>1, <1>3, <1>4, <1>6, SameIncidents
<1>8. Counted(t)
    BY <1>1, <1>3, <1>7 DEF Counted
<1> QED
    BY <1>1, <1>3, <1>7, <1>8 DEF t, Sound, Kept

\* What RecordIncident makes of the store.
Recorded(s, m, now) ==
    LET room == PruneGlobal(PruneOwn(s, m))
        seq == NextSeq(room, m)
    IN Recount([room EXCEPT ![m].count = seq,
                  ![m].incidents = Append(@, [seq |-> seq, created |-> now, acked |-> FALSE])])

\* An incident of the new store is new, or one that the old store had.
LEMMA RecordedSound ==
    ASSUME NEW s, NEW now \in Nat, Sound(s, now), NEW m \in DOMAIN s
    PROVE  LET t == Recorded(s, m, now)
           IN  /\ Sound(t, now + 1) /\ DOMAIN t = DOMAIN s
               /\ \A k \in DOMAIN s :
                    /\ t[k].stale = s[k].stale
                    /\ t[k].count = s[k].count \/ t[k].count = s[k].count + 1
                    /\ \A i \in DOMAIN t[k].incidents :
                        \/ t[k].incidents[i].seq = s[k].count + 1
                        \/ \E j \in DOMAIN s[k].incidents : t[k].incidents[i] = s[k].incidents[j]
<1> DEFINE own == PruneOwn(s, m)
           room == PruneGlobal(own)
           wide == Extended(room, m, now)
           t == Recorded(s, m, now)
<1>0. Kept(s, now)
    BY DEF Sound, Kept
<1>1. Kept(own, now) /\ Pruned(s, own) /\ Len(own[m].incidents) < PerMonitor
    BY <1>0, PruneOwnKept
<1> HIDE DEF own
<1>2. /\ Kept(room, now) /\ Pruned(own, room)
      /\ Cardinality(Incidents(room)) \in Nat /\ Cardinality(Incidents(room)) < Total
    BY <1>1, PruneGlobalKept
<1> HIDE DEF room
<1>3. Pruned(s, room)
    BY <1>0, <1>1, <1>2, PrunedTwice DEF Kept
<1>4. m \in DOMAIN own /\ m \in DOMAIN room /\ DOMAIN room = DOMAIN s
    BY <1>1, <1>3 DEF Pruned
<1>5. Len(room[m].incidents) < PerMonitor
    <2>1. Len(room[m].incidents) <= Len(own[m].incidents)
        BY <1>2, <1>4 DEF Pruned
    <2>2. Len(room[m].incidents) \in Nat /\ Len(own[m].incidents) \in Nat
        BY <1>1, <1>2, <1>4, MonitorTyped DEF Kept
    <2> QED
        BY <1>1, <2>1, <2>2, StoreAssumption
<1>6. \A k \in DOMAIN room : InOrder(room[k].incidents, room[k].count, now + 1, room[k].stale)
    <2> TAKE k \in DOMAIN room
    <2>1. InOrder(room[k].incidents, room[k].count, now, room[k].stale)
        BY <1>2 DEF Kept, Ordered
    <2>2. room[k].incidents \in Seq(Incident)
        BY <1>2, MonitorTyped DEF Kept
    <2> DEFINE list == room[k].incidents
    <2> HIDE DEF list
    <2>3. \A i \in DOMAIN list : list[i].created \in Nat /\ list[i].created < now
        BY <2>1, <2>2, ListTyped DEF InOrder, list
    <2>4. \A i \in DOMAIN list : list[i].created < now + 1
        BY <2>3
    <2> QED
        BY <2>1, <2>4 DEF InOrder, list
<1>7. /\ Kept(wide, now + 1) /\ DOMAIN wide = DOMAIN room
      /\ wide[m].count = room[m].count + 1 /\ wide[m].stale = room[m].stale
      /\ wide[m].incidents = Append(room[m].incidents, Formed(room[m].count, now))
      /\ \A k \in DOMAIN room : k # m => wide[k] = room[k]
    BY <1>2, <1>4, <1>5, <1>6, ExtendedKept
<1>8. t = Recount(wide)
    BY DEF Recorded, NextSeq, Extended, Formed, room, own
<1> HIDE DEF wide, t
<1>9. /\ Sound(t, now + 1) /\ DOMAIN t = DOMAIN wide
      /\ \A k \in DOMAIN wide : /\ t[k].incidents = wide[k].incidents /\ t[k].count = wide[k].count
                                /\ t[k].stale = wide[k].stale
    BY <1>7, <1>8, RecountSound
<1>10. ASSUME NEW k \in DOMAIN s
       PROVE  /\ t[k].stale = s[k].stale
              /\ t[k].count = s[k].count \/ t[k].count = s[k].count + 1
              /\ \A i \in DOMAIN t[k].incidents :
                   \/ t[k].incidents[i].seq = s[k].count + 1
                   \/ \E j \in DOMAIN s[k].incidents : t[k].incidents[i] = s[k].incidents[j]
    <2>1. /\ t[k].incidents = wide[k].incidents /\ t[k].count = wide[k].count
          /\ t[k].stale = wide[k].stale
        BY <1>4, <1>7, <1>9
    <2>2. /\ room[k].count = s[k].count /\ room[k].stale = s[k].stale
          /\ \A i \in DOMAIN room[k].incidents :
               \E j \in DOMAIN s[k].incidents : room[k].incidents[i] = s[k].incidents[j]
        BY <1>3 DEF Pruned
    <2>3. CASE k # m
        BY <1>4, <1>7, <2>1, <2>2, <2>3
    <2>4. CASE k = m
        <3> DEFINE list == room[m].incidents
                   longer == Append(list, Formed(room[m].count, now))
        <3>1. /\ list \in Seq(Incident) /\ room[m].count \in Nat /\ room[m].stale \in BOOLEAN
              /\ InOrder(list, room[m].count, now, room[m].stale)
              /\ DOMAIN list = 1..Len(list) /\ Len(list) \in Nat
            BY <1>2, <1>4, MonitorTyped DEF Kept, Ordered
        <3>2. /\ longer \in Seq(Incident) /\ Len(longer) = Len(list) + 1
              /\ \A i \in DOMAIN list : longer[i] = list[i]
              /\ longer[Len(list) + 1] = Formed(room[m].count, now)
            BY <3>1, AppendedInOrder
        <3>3. Formed(room[m].count, now).seq = s[m].count + 1
            BY <2>2, <2>4 DEF Formed
        <3> HIDE DEF longer
        <3>4. DOMAIN longer = 1..(Len(list) + 1)
            BY <3>2
        <3>5. t[m].incidents = longer /\ t[m].count = s[m].count + 1 /\ t[m].stale = s[m].stale
            BY <1>7, <2>1, <2>2, <2>4 DEF longer
        <3>6. ASSUME NEW i \in DOMAIN longer
              PROVE  \/ longer[i].seq = s[m].count + 1
                     \/ \E j \in DOMAIN s[m].incidents : longer[i] = s[m].incidents[j]
            <4>1. CASE i = Len(list) + 1
                BY <3>2, <3>3, <4>1
            <4>2. CASE i # Len(list) + 1
                <5>1. i \in DOMAIN list
                    BY <3>1, <3>4, <4>2
                <5>2. longer[i] = list[i]
                    BY <3>2, <5>1
                <5> QED
                    BY <2>2, <2>4, <5>1, <5>2
            <4> QED
                BY <4>1, <4>2
        <3> QED
            BY <2>4, <3>5, <3>6
    <2> QED
        BY <2>3, <2>4
<1> QED
    BY <1>4, <1>7, <1>9, <1>10 DEF t

\* A Monitor that nothing is known of but its request.
Fresh(spec) ==
    [spec |-> spec, status |-> "running", revision |-> 1, count |-> 0, unacked |-> 0, gaps |-> 0,
     stopped |-> 0, stale |-> FALSE, incidents |-> <<>>]

LEMMA PutFreshSound ==
    ASSUME NEW s, NEW now, Sound(s, now), NEW m \in MonitorIds, m \notin DOMAIN s, NEW spec \in Specs,
           Cardinality(DOMAIN s) < MaxMonitors, Cardinality(Running(s)) < MaxActive
    PROVE  LET t == Put(s, m, Fresh(spec))
           IN  /\ Sound(t, now) /\ DOMAIN t = DOMAIN s \cup {m} /\ t[m] = Fresh(spec)
               /\ \A k \in DOMAIN s : t[k] = s[k]
<1> DEFINE t == Put(s, m, Fresh(spec))
<1>0. Shaped(s) /\ Bounded(s) /\ Counted(s) /\ Ordered(s, now)
    BY DEF Sound
<1>1. DOMAIN t = DOMAIN s \cup {m} /\ t[m] = Fresh(spec) /\ \A k \in DOMAIN s : t[k] = s[k]
    BY DEF Put
<1>2. t = [k \in DOMAIN s \cup {m} |-> t[k]]
    BY DEF Put
<1> HIDE DEF t
<1>3. /\ Fresh(spec) \in Monitor /\ Fresh(spec).incidents = <<>> /\ Fresh(spec).status = "running"
      /\ Fresh(spec).count = 0 /\ Fresh(spec).unacked = 0 /\ Fresh(spec).stale = FALSE
    BY DEF Fresh, Monitor, Statuses
<1>4. Shaped(t)
    <2>1. \A k \in DOMAIN s \cup {m} : t[k] \in Monitor
        BY <1>0, <1>1, <1>3 DEF Shaped
    <2>2. IsFiniteSet(DOMAIN s \cup {m})
        BY <1>0, FS_AddElement DEF Shaped
    <2>3. t \in [DOMAIN s \cup {m} -> Monitor]
        BY <1>2, <2>1
    <2> QED
        BY <1>0, <1>1, <2>2, <2>3 DEF Shaped
<1>5. DOMAIN Fresh(spec).incidents = {} /\ Len(Fresh(spec).incidents) = 0
    BY <1>3
<1>6. Incidents(t) = Incidents(s)
    <2> Incidents(t) = UNION {{<<k, i>> : i \in DOMAIN t[k].incidents} : k \in DOMAIN s \cup {m}}
        BY <1>1 DEF Incidents
    <2>1. {<<m, i>> : i \in DOMAIN t[m].incidents} = {}
        BY <1>1, <1>5
    <2>2. \A k \in DOMAIN s : {<<k, i>> : i \in DOMAIN t[k].incidents} = {<<k, i>> : i \in DOMAIN s[k].incidents}
        BY <1>1
    <2> QED
        BY <2>1, <2>2 DEF Incidents
<1>7. Cardinality(DOMAIN t) <= MaxMonitors
    <2>1. Cardinality(DOMAIN t) = Cardinality(DOMAIN s) + 1 /\ Cardinality(DOMAIN s) \in Nat
        BY <1>0, <1>1, FS_AddElement, FS_CardinalityType DEF Shaped
    <2> QED
        BY <2>1, StoreAssumption
<1>8. Cardinality(Running(t)) <= MaxActive
    <2>1. Running(t) = Running(s) \cup {m}
        BY <1>1, <1>3 DEF Running
    <2>2. IsFiniteSet(Running(s)) /\ Cardinality(Running(s)) \in Nat
        BY <1>0, RunningFinite
    <2>3. m \notin Running(s)
        BY DEF Running
    <2>4. Cardinality(Running(t)) = Cardinality(Running(s)) + 1
        BY <2>1, <2>2, <2>3, FS_AddElement
    <2> QED
        BY <2>2, <2>4, StoreAssumption
<1>9. Bounded(t)
    <2> \A k \in DOMAIN s \cup {m} : Len(t[k].incidents) <= PerMonitor
        BY <1>0, <1>1, <1>5, StoreAssumption DEF Bounded
    <2> QED
        BY <1>0, <1>1, <1>6, <1>7, <1>8 DEF Bounded
<1>10. Ordered(t, now)
    <2> InOrder(<<>>, 0, now, FALSE)
        BY DEF InOrder
    <2> QED
        BY <1>0, <1>1, <1>3 DEF Ordered
<1>11. Counted(t)
    <2>1. Unacked(t, m) = 0
        <3> {i \in DOMAIN t[m].incidents : ~t[m].incidents[i].acked} = {}
            BY <1>1, <1>5
        <3> QED
            BY FS_EmptySet DEF Unacked
    <2>2. \A k \in DOMAIN s : Unacked(t, k) = Unacked(s, k)
        BY <1>1 DEF Unacked
    <2> QED
        BY <1>0, <1>1, <1>3, <2>1, <2>2 DEF Counted
<1> QED
    BY <1>1, <1>4, <1>9, <1>10, <1>11 DEF t, Sound

\* An incident is acknowledged: the list keeps its order, and one fewer is unacknowledged.
Settling(list, i) == [list EXCEPT ![i].acked = TRUE]

LEMMA SettleTyped ==
    ASSUME NEW list \in Seq(Incident), NEW i \in DOMAIN list
    PROVE  /\ Settling(list, i) \in Seq(Incident) /\ Len(Settling(list, i)) = Len(list)
           /\ DOMAIN Settling(list, i) = DOMAIN list
           /\ \A j \in DOMAIN list : /\ Settling(list, i)[j].seq = list[j].seq
                                     /\ Settling(list, i)[j].created = list[j].created
           /\ Settling(list, i)[i].acked
           /\ \A j \in DOMAIN list : j # i => Settling(list, i)[j] = list[j]
<1> DEFINE e == [list[i] EXCEPT !.acked = TRUE]
           n == Len(list)
<1>1. n \in Nat /\ DOMAIN list = 1..n /\ list[i] \in Incident /\ list \in [1..n -> Incident]
    BY ListTyped
<1>2. e \in Incident /\ e.seq = list[i].seq /\ e.created = list[i].created /\ e.acked
    BY <1>1 DEF Incident
<1>3. Settling(list, i) = [list EXCEPT ![i] = e]
    BY DEF Settling
<1> HIDE DEF e, n
<1>4. Settling(list, i) \in [1..n -> Incident]
    BY <1>1, <1>2, <1>3
<1>5. Settling(list, i) \in Seq(Incident) /\ Len(Settling(list, i)) = n /\ DOMAIN Settling(list, i) = 1..n
    BY <1>1, <1>4
<1>6. Settling(list, i)[i] = e /\ \A j \in DOMAIN list : j # i => Settling(list, i)[j] = list[j]
    BY <1>1, <1>3
<1>7. ASSUME NEW j \in DOMAIN list
      PROVE  /\ Settling(list, i)[j].seq = list[j].seq
             /\ Settling(list, i)[j].created = list[j].created
    <2>1. CASE j = i
        BY <1>2, <1>6, <2>1
    <2>2. CASE j # i
        BY <1>6, <2>2
    <2> QED
        BY <2>1, <2>2
<1> QED
    BY <1>1, <1>2, <1>5, <1>6, <1>7 DEF n

LEMMA SettleCounted ==
    ASSUME NEW list \in Seq(Incident), NEW i \in DOMAIN list, ~list[i].acked
    PROVE  /\ Cardinality(UnackedOf(list)) \in Nat /\ Cardinality(UnackedOf(list)) > 0
           /\ Cardinality(UnackedOf(Settling(list, i))) = Cardinality(UnackedOf(list)) - 1
<1>1. UnackedOf(Settling(list, i)) = UnackedOf(list) \ {i} /\ i \in UnackedOf(list)
    BY SettleTyped DEF UnackedOf
<1>2. IsFiniteSet(UnackedOf(list)) /\ Cardinality(UnackedOf(list)) \in Nat
    BY UnackedFinite
<1>3. Cardinality(UnackedOf(Settling(list, i))) = Cardinality(UnackedOf(list)) - 1
    BY <1>1, <1>2, FS_RemoveElement
<1>4. Cardinality(UnackedOf(list)) # 0
    BY <1>1, <1>2, FS_EmptySet
<1> QED
    BY <1>2, <1>3, <1>4

Settled(r, list) == [r EXCEPT !.incidents = list, !.unacked = IF r.unacked > 0 THEN r.unacked - 1 ELSE 0]

LEMMA SettledMonitor ==
    ASSUME NEW r \in Monitor, NEW list \in Seq(Incident)
    PROVE  /\ Settled(r, list) \in Monitor /\ Settled(r, list).incidents = list
           /\ Settled(r, list).count = r.count /\ Settled(r, list).status = r.status
           /\ Settled(r, list).stale = r.stale
           /\ r.unacked > 0 => Settled(r, list).unacked = r.unacked - 1
<1> DEFINE u == IF r.unacked > 0 THEN r.unacked - 1 ELSE 0
<1>1. /\ r.unacked \in Nat
      /\ DOMAIN r = {"spec", "status", "revision", "count", "unacked", "gaps", "stopped", "stale", "incidents"}
    BY DEF Monitor
<1>2. u \in Nat
    BY <1>1
<1>3. r.unacked > 0 => u = r.unacked - 1
    OBVIOUS
<1>4. Settled(r, list) = [r EXCEPT !.incidents = list, !.unacked = u]
    BY DEF Settled
<1> HIDE DEF u
<1>5. Settled(r, list) \in Monitor
    BY <1>1, <1>2, <1>4 DEF Monitor
<1> QED
    BY <1>1, <1>3, <1>4, <1>5

\* The store in which a Monitor's incident is acknowledged.
Acknowledged(s, m, i) ==
    [s EXCEPT ![m].incidents[i].acked = TRUE, ![m].unacked = IF @ > 0 THEN @ - 1 ELSE 0]

LEMMA SettledSound ==
    ASSUME NEW s, NEW now, Sound(s, now), NEW m \in DOMAIN s, NEW i \in DOMAIN s[m].incidents,
           ~s[m].incidents[i].acked
    PROVE  LET t == Acknowledged(s, m, i)
           IN  /\ Sound(t, now) /\ DOMAIN t = DOMAIN s
               /\ \A k \in DOMAIN s :
                    /\ t[k].count = s[k].count /\ t[k].stale = s[k].stale
                    /\ DOMAIN t[k].incidents = DOMAIN s[k].incidents
                    /\ \A j \in DOMAIN s[k].incidents :
                         /\ t[k].incidents[j].seq = s[k].incidents[j].seq
                         /\ t[k].incidents[j].created = s[k].incidents[j].created
<1> DEFINE t == Acknowledged(s, m, i)
           list == s[m].incidents
           new == Settling(list, i)
<1>0. Shaped(s) /\ Bounded(s) /\ Counted(s) /\ Ordered(s, now)
    BY DEF Sound
<1>1. s[m] \in Monitor /\ list \in Seq(Incident) /\ Len(list) \in Nat
    BY <1>0, MonitorTyped
<1>2. /\ new \in Seq(Incident) /\ Len(new) = Len(list) /\ DOMAIN new = DOMAIN list
      /\ \A j \in DOMAIN list : new[j].seq = list[j].seq /\ new[j].created = list[j].created
    BY <1>1, SettleTyped
<1>3. t = [s EXCEPT ![m] = Settled(s[m], new)]
    BY DEF Acknowledged, Settling, Settled
<1>4. ASSUME ~s[m].stale
      PROVE  /\ s[m].unacked > 0 /\ s[m].unacked \in Nat
             /\ Cardinality(UnackedOf(new)) = s[m].unacked - 1
    <2>1. s[m].unacked = Cardinality(UnackedOf(list))
        BY <1>0, <1>4 DEF Counted, Unacked, UnackedOf
    <2> HIDE DEF list
    <2>2. ~list[i].acked /\ i \in DOMAIN list
        BY DEF list
    <2> QED
        BY <1>1, <2>1, <2>2, SettleCounted
<1> HIDE DEF new, t
<1>5. /\ DOMAIN t = DOMAIN s /\ t[m] = Settled(s[m], new)
      /\ \A k \in DOMAIN s : k # m => t[k] = s[k]
    BY <1>3
<1>6. /\ t[m] \in Monitor /\ t[m].incidents = new /\ t[m].count = s[m].count /\ t[m].status = s[m].status
      /\ t[m].stale = s[m].stale /\ (~s[m].stale => t[m].unacked = s[m].unacked - 1)
    BY <1>1, <1>2, <1>4, <1>5, SettledMonitor
<1>7. Shaped(t)
    <2>1. \A k \in DOMAIN s : s[k] \in Monitor
        BY <1>0 DEF Shaped
    <2>2. \A k \in DOMAIN s : t[k] \in Monitor
        BY <1>5, <1>6, <2>1
    <2>3. t = [k \in DOMAIN s |-> t[k]]
        BY <1>3
    <2>4. t \in [DOMAIN s -> Monitor]
        BY <2>2, <2>3
    <2> QED
        BY <1>0, <1>5, <2>4 DEF Shaped
<1>8. ASSUME NEW k \in DOMAIN s
      PROVE  /\ t[k].count = s[k].count /\ DOMAIN t[k].incidents = DOMAIN s[k].incidents
             /\ Len(t[k].incidents) = Len(s[k].incidents) /\ t[k].status = s[k].status
             /\ t[k].stale = s[k].stale
             /\ \A j \in DOMAIN s[k].incidents :
                  /\ t[k].incidents[j].seq = s[k].incidents[j].seq
                  /\ t[k].incidents[j].created = s[k].incidents[j].created
    <2>1. CASE k = m
        BY <1>2, <1>6, <2>1
    <2>2. CASE k # m
        BY <1>5, <2>2
    <2> QED
        BY <2>1, <2>2
<1>9. Incidents(t) = Incidents(s)
    <2> \A k \in DOMAIN s : {<<k, j>> : j \in DOMAIN t[k].incidents} = {<<k, j>> : j \in DOMAIN s[k].incidents}
        BY <1>8
    <2> QED
        BY <1>5 DEF Incidents
<1>10. Running(t) = Running(s)
    BY <1>5, <1>8 DEF Running
<1>11. Bounded(t)
    <2> \A k \in DOMAIN s : Len(t[k].incidents) <= PerMonitor
        BY <1>0, <1>8 DEF Bounded
    <2> QED
        BY <1>0, <1>5, <1>9, <1>10 DEF Bounded
<1>12. Ordered(t, now)
    <2> SUFFICES ASSUME NEW k \in DOMAIN s PROVE InOrder(t[k].incidents, t[k].count, now, t[k].stale)
        BY <1>5 DEF Ordered
    <2> InOrder(s[k].incidents, s[k].count, now, s[k].stale)
        BY <1>0 DEF Ordered
    <2> QED
        BY <1>8 DEF InOrder
<1>13. Counted(t)
    <2>1. ~t[m].stale => Unacked(t, m) = t[m].unacked
        BY <1>4, <1>6 DEF Unacked, UnackedOf
    <2>2. \A k \in DOMAIN s : k # m /\ ~t[k].stale => Unacked(t, k) = t[k].unacked
        BY <1>0, <1>5 DEF Unacked, Counted
    <2> QED
        BY <1>5, <2>1, <2>2 DEF Counted
<1> QED
    BY <1>5, <1>7, <1>8, <1>11, <1>12, <1>13 DEF t, Sound

\* A record whose request or status changes, and none of its incidents.
LEMMA RelabelledSound ==
    ASSUME NEW s, NEW now, Sound(s, now), NEW m \in DOMAIN s, NEW r \in Monitor,
           r.incidents = s[m].incidents,
           ~r.stale => ~s[m].stale /\ r.count = s[m].count /\ r.unacked = s[m].unacked,
           r.status = "running" =>
               s[m].status = "running" \/ Cardinality(Running(s)) < MaxActive
    PROVE  LET t == [s EXCEPT ![m] = r]
           IN  /\ Sound(t, now) /\ DOMAIN t = DOMAIN s /\ t[m] = r
               /\ \A k \in DOMAIN s : t[k].incidents = s[k].incidents /\ (k # m => t[k] = s[k])
<1> DEFINE t == [s EXCEPT ![m] = r]
<1>0. Shaped(s) /\ Bounded(s)
    BY DEF Sound
<1>1. DOMAIN t = DOMAIN s /\ t[m] = r /\ \A k \in DOMAIN s : k # m => t[k] = s[k]
    OBVIOUS
<1>2. t \in [DOMAIN s -> Monitor]
    BY <1>0 DEF Shaped
<1> HIDE DEF t
<1>3. Shaped(t)
    BY <1>0, <1>1, <1>2 DEF Shaped
<1>4. \A k \in DOMAIN s :
          /\ t[k].incidents = s[k].incidents
          /\ ~t[k].stale => /\ ~s[k].stale /\ t[k].count = s[k].count
                            /\ t[k].unacked = s[k].unacked
    BY <1>1
<1>5. Cardinality(Running(t)) <= MaxActive
    <2>1. IsFiniteSet(Running(s)) /\ Cardinality(Running(s)) \in Nat /\ Cardinality(Running(s)) <= MaxActive
        BY <1>0, RunningFinite DEF Bounded
    <2>2. CASE Cardinality(Running(s)) < MaxActive
        <3>1. Running(t) \subseteq Running(s) \cup {m}
            BY <1>1 DEF Running
        <3>2. IsFiniteSet(Running(s) \cup {m}) /\ Cardinality(Running(s) \cup {m}) <= Cardinality(Running(s)) + 1
              /\ Cardinality(Running(s) \cup {m}) \in Nat
            <4>1. IsFiniteSet(Running(s) \cup {m}) /\ Cardinality(Running(s) \cup {m}) =
                      IF m \in Running(s) THEN Cardinality(Running(s)) ELSE Cardinality(Running(s)) + 1
                BY <2>1, FS_AddElement
            <4> QED
                BY <2>1, <4>1
        <3>3. Cardinality(Running(t)) \in Nat /\ Cardinality(Running(t)) <= Cardinality(Running(s) \cup {m})
            BY <3>1, <3>2, PartCounted
        <3> QED
            BY <2>1, <2>2, <3>2, <3>3, StoreAssumption
    <2>3. CASE ~(Cardinality(Running(s)) < MaxActive)
        <3>1. Running(t) \subseteq Running(s)
            BY <1>1, <2>3 DEF Running
        <3> QED
            BY <1>0, <2>1, <3>1, RunningFinite, StoreAssumption
    <2> QED
        BY <2>2, <2>3
<1>6. Sound(t, now)
    BY <1>1, <1>3, <1>4, <1>5, SameCounts
<1> QED
    BY <1>1, <1>4, <1>6 DEF t

-----------------------------------------------------------------------------
(* A change and the client that follows *)

\* What a Monitor has after a change is new or was there, and its count does not fall.
Continues(s, t) ==
    \A k \in DOMAIN t :
        /\ k \in DOMAIN s /\ s[k].count <= t[k].count /\ t[k].stale = s[k].stale
        /\ \A i \in DOMAIN t[k].incidents :
             \/ t[k].incidents[i].seq > s[k].count
             \/ \E j \in DOMAIN s[k].incidents :
                    /\ t[k].incidents[i].seq = s[k].incidents[j].seq
                    /\ t[k].incidents[i].created = s[k].incidents[j].created

LEMMA PollerTyped ==
    ASSUME NEW p \in Poller
    PROVE  /\ p.on \in MonitorIds \cup {Nothing} /\ p.at \in Nat
           /\ p.missed \in BOOLEAN /\ p.fooled \in BOOLEAN
           /\ p.after # Nothing => p.after \in Nat
BY DEF Poller

LEMMA ContinuesFollowed ==
    ASSUME NEW s, Shaped(s), NEW t, Shaped(t), Continues(s, t), NEW p \in Poller, Follows(p, s)
    PROVE  Follows(p, t)
<1> SUFFICES ASSUME ~p.fooled, p.after # Nothing, p.on \in DOMAIN t
             PROVE  ~t[p.on].stale /\ p.after <= t[p.on].count /\ Before(p, t)
    BY DEF Follows
<1> DEFINE k == p.on
<1>1. /\ k \in DOMAIN s /\ s[k].count <= t[k].count /\ p.after <= s[k].count /\ ~t[k].stale
      /\ \A j \in DOMAIN s[k].incidents : s[k].incidents[j].seq <= p.after => s[k].incidents[j].created < p.at
    BY DEF Continues, Follows, Before
<1>2. s[k].count \in Nat /\ t[k].count \in Nat /\ p.after \in Nat
    BY <1>1, MonitorTyped, PollerTyped
<1>3. \A i \in DOMAIN t[k].incidents : t[k].incidents[i].seq \in Nat
    <2> t[k].incidents \in Seq(Incident)
        BY MonitorTyped
    <2> QED
        BY ListTyped
<1>4. ASSUME NEW i \in DOMAIN t[k].incidents, t[k].incidents[i].seq <= p.after
      PROVE  t[k].incidents[i].created < p.at
    <2>1. ~(t[k].incidents[i].seq > s[k].count)
        BY <1>1, <1>2, <1>3, <1>4
    <2>2. PICK j \in DOMAIN s[k].incidents :
              /\ t[k].incidents[i].seq = s[k].incidents[j].seq
              /\ t[k].incidents[i].created = s[k].incidents[j].created
        BY <2>1 DEF Continues
    <2> QED
        BY <1>1, <1>4, <2>2
<1>5. p.after <= t[k].count
    BY <1>1, <1>2
<1> QED
    BY <1>1, <1>4, <1>5 DEF Before

\* A change of the store, and what it asks of the client that follows.
LEMMA MutateSafe ==
    ASSUME StoreInvariant, NEW changed, Mutate(changed), Sound(changed, time + 1),
           updating' \in {Nothing, updating},
           PollerSound(poller'), Follows(poller', changed), MayFallBack(poller', state)
    PROVE  StoreInvariant'
<1>1. /\ time \in 1..MaxTime /\ time < MaxTime /\ time' = time + 1
      /\ lock' = state /\ state' = changed /\ disk' = disk
    BY DEF StoreInvariant, Mutate
<1>2. MaxTime \in Nat
    BY StoreAssumption
<1>3. time \in Nat /\ time + 1 \in Nat /\ time <= time + 1 /\ time' \in 1..MaxTime
    BY <1>1, <1>2
<1>4. Sound(state, time + 1) /\ Sound(disk, time + 1)
    BY <1>3, SoundLater DEF StoreInvariant
<1>5. Sound(state, time)' /\ Sound(disk, time)' /\ (lock # Nothing => Sound(lock, time))'
    BY <1>1, <1>4
<1>6. Follows(poller, state)' /\ (lock # Nothing => MayFallBack(poller, lock))' /\ PollerSound(poller)'
    BY <1>1
<1>7. UpdatingTyped(updating)'
    BY DEF StoreInvariant, UpdatingTyped
<1> QED
    BY <1>3, <1>5, <1>6, <1>7 DEF StoreInvariant

LEMMA MutateContinues ==
    ASSUME StoreInvariant, NEW changed, Mutate(changed), UNCHANGED <<updating, poller>>,
           Sound(changed, time + 1), Continues(state, changed)
    PROVE  StoreInvariant'
<1>1. PollerSound(poller) /\ Follows(poller, state) /\ Shaped(state) /\ Shaped(changed)
      /\ poller' = poller /\ updating' = updating
    BY DEF StoreInvariant, Sound
<1>2. poller \in Poller
    BY <1>1 DEF PollerSound
<1>3. Follows(poller, changed)
    BY <1>1, <1>2, ContinuesFollowed
<1>4. MayFallBack(poller, state)
    BY <1>1 DEF Follows, MayFallBack
<1> QED
    BY <1>1, <1>3, <1>4, MutateSafe

LEMMA StateSoundNext ==
    ASSUME StoreInvariant
    PROVE  /\ time \in Nat /\ time + 1 \in Nat /\ Sound(state, time) /\ Sound(state, time + 1)
           /\ Shaped(state)
<1>1. time \in Nat /\ time + 1 \in Nat /\ time <= time + 1
    BY StoreAssumption DEF StoreInvariant
<1>2. Sound(state, time)
    BY DEF StoreInvariant
<1> QED
    BY <1>1, <1>2, SoundLater DEF Sound

LEMMA CreateSafe ==
    ASSUME StoreInvariant, NEW m \in MonitorIds, NEW spec \in Specs, Create(m, spec)
    PROVE  StoreInvariant'
<1> DEFINE s == PruneMonitors(state)
           t == Put(s, m, Fresh(spec))
<1>1. /\ m \notin DOMAIN state /\ Cardinality(Running(state)) < MaxActive
      /\ Cardinality(DOMAIN s) < MaxMonitors /\ Mutate(t) /\ updating' = updating
      /\ poller' = [poller EXCEPT !.fooled = @ \/ poller.on = m]
    BY DEF Create, Fresh
<1>2. Sound(state, time + 1) /\ Shaped(state) /\ PollerSound(poller) /\ Follows(poller, state)
    BY StateSoundNext DEF StoreInvariant
<1>3. /\ Sound(s, time + 1) /\ DOMAIN s \subseteq DOMAIN state
      /\ \A k \in DOMAIN s : s[k] = state[k]
      /\ Running(s) \subseteq Running(state)
    BY <1>2, PruneMonitorsSound
<1>4. Cardinality(Running(s)) < MaxActive
    <2> Cardinality(Running(s)) \in Nat /\ Cardinality(Running(state)) \in Nat
        /\ Cardinality(Running(s)) <= Cardinality(Running(state))
        BY <1>2, <1>3, RunningFinite
    <2> QED
        BY <1>1, StoreAssumption
<1> HIDE DEF s
<1>5. /\ Sound(t, time + 1) /\ DOMAIN t = DOMAIN s \cup {m}
      /\ \A k \in DOMAIN s : t[k] = s[k]
    BY <1>1, <1>3, <1>4, PutFreshSound
<1> HIDE DEF t
<1>6. poller \in Poller
    BY <1>2 DEF PollerSound
<1>7. /\ poller' \in Poller /\ poller'.on = poller.on /\ poller'.after = poller.after
      /\ poller'.at = poller.at /\ poller'.missed = poller.missed
      /\ poller'.fooled = (poller.fooled \/ poller.on = m)
    BY <1>1, <1>6 DEF Poller
<1>8. PollerSound(poller')
    BY <1>2, <1>7 DEF PollerSound
<1>9. MayFallBack(poller', state)
    BY <1>2, <1>7 DEF MayFallBack, Follows, Before
<1>10. Follows(poller', t)
    <2> SUFFICES ASSUME ~poller'.fooled, poller'.after # Nothing, poller'.on \in DOMAIN t
                 PROVE  ~t[poller'.on].stale /\ poller'.after <= t[poller'.on].count /\ Before(poller', t)
        BY DEF Follows
    <2>1. ~poller.fooled /\ poller.on # m
        BY <1>7
    <2>2. poller.on \in DOMAIN s /\ poller.on \in DOMAIN state /\ t[poller.on] = state[poller.on]
        BY <1>3, <1>5, <1>7, <2>1
    <2>3. ~state[poller.on].stale /\ poller.after <= state[poller.on].count /\ Before(poller, state)
        BY <1>2, <1>7, <2>1, <2>2 DEF Follows
    <2> QED
        BY <1>7, <2>2, <2>3 DEF Before
<1> QED
    BY <1>1, <1>5, <1>8, <1>9, <1>10, MutateSafe

\* A change that leaves the incidents alone.
LEMMA SameContinues ==
    ASSUME NEW s, Shaped(s), NEW t, DOMAIN t \subseteq DOMAIN s,
           \A k \in DOMAIN t : /\ t[k].incidents = s[k].incidents /\ t[k].count = s[k].count
                               /\ t[k].stale = s[k].stale
    PROVE  Continues(s, t)
<1> SUFFICES ASSUME NEW k \in DOMAIN t
             PROVE  /\ k \in DOMAIN s /\ s[k].count <= t[k].count /\ t[k].stale = s[k].stale
                    /\ \A i \in DOMAIN t[k].incidents :
                         \/ t[k].incidents[i].seq > s[k].count
                         \/ \E j \in DOMAIN s[k].incidents :
                              /\ t[k].incidents[i].seq = s[k].incidents[j].seq
                              /\ t[k].incidents[i].created = s[k].incidents[j].created
    BY DEF Continues
<1>1. k \in DOMAIN s
    OBVIOUS
<1>2. s[k].count \in Nat
    BY <1>1, MonitorTyped
<1> QED
    BY <1>1, <1>2

\* An update reads the Monitor, and nothing else changes.
LEMMA BeginUpdateSafe ==
    ASSUME StoreInvariant, NEW m \in MonitorIds, NEW spec \in Specs, BeginUpdate(m, spec)
    PROVE  StoreInvariant'
<1>1. /\ m \in DOMAIN state /\ updating' = [on |-> m, spec |-> spec, view |-> View(state[m])]
      /\ state' = state /\ disk' = disk /\ lock' = lock /\ time' = time /\ poller' = poller
    BY DEF BeginUpdate
<1>2. Shaped(state)
    BY StateSoundNext
<1>3. View(state[m]) \in Copy
    BY <1>1, <1>2, MonitorTyped DEF View, Copy
<1>4. UpdatingTyped(updating)'
    BY <1>1, <1>3 DEF UpdatingTyped, Updates
<1> QED
    BY <1>1, <1>4 DEF StoreInvariant

LEMMA RefuseUpdateSafe ==
    ASSUME StoreInvariant, RefuseUpdate
    PROVE  StoreInvariant'
<1>1. updating' = Nothing /\ state' = state /\ disk' = disk /\ lock' = lock /\ time' = time /\ poller' = poller
    BY DEF RefuseUpdate
<1> QED
    BY <1>1 DEF StoreInvariant, UpdatingTyped

\* The record that an update writes back.
LEMMA ReplacedMonitor ==
    ASSUME NEW old \in Monitor, NEW u \in Updates
    PROVE  LET r == Replaced(old, u)
           IN  /\ r \in Monitor /\ r.incidents = old.incidents /\ r.stale = Overwrites(old, u.view)
               /\ ~r.stale => ~old.stale /\ r.count = old.count /\ r.unacked = old.unacked
<1> DEFINE r == Replaced(old, u)
           v == u.view
           f == Overwrites(old, v)
<1>1. u.spec \in Specs /\ v \in Copy
    BY DEF Updates
<1>2. v.revision + 1 \in Nat \ {0} /\ v.count \in Nat /\ v.unacked \in Nat /\ v.gaps \in Nat
    BY <1>1 DEF Copy
<1>3. old.stale \in BOOLEAN /\ (f <=> old.stale \/ old.count # v.count \/ old.unacked # v.unacked)
    BY DEF Monitor, Overwrites
<1>4. f \in BOOLEAN
    BY <1>3 DEF Overwrites
<1>5. r = [old EXCEPT !.spec = u.spec, !.status = "running", !.revision = v.revision + 1, !.stopped = 0,
                      !.count = v.count, !.unacked = v.unacked, !.gaps = v.gaps, !.stale = f]
    BY DEF Replaced
<1> HIDE DEF f, v, r
<1>6. r \in Monitor
    BY <1>1, <1>2, <1>4, <1>5 DEF Monitor, Statuses
<1>7. /\ r.incidents = old.incidents /\ r.stale = f /\ r.count = v.count /\ r.unacked = v.unacked
    BY <1>5 DEF Monitor
<1> QED
    BY <1>3, <1>6, <1>7 DEF r, f, v

\* The copy takes the place of the record: the client that follows it is either told nothing
\* that was its own, or has been followed by an update of counts that were the same.
LEMMA CommitUpdateSafe ==
    ASSUME StoreInvariant, CommitUpdate
    PROVE  StoreInvariant'
<1> DEFINE m == updating.on
           old == state[m]
           r == Replaced(old, updating)
           t == [state EXCEPT ![m] = r]
           f == poller.fooled \/ (poller.on = m /\ Overwrites(old, updating.view))
<1>1. /\ updating # Nothing /\ m \in DOMAIN state /\ Mutate(t) /\ updating' = Nothing
      /\ old.status # "running" => Cardinality(Running(state)) < MaxActive
      /\ poller' = [poller EXCEPT !.fooled = f]
    BY DEF CommitUpdate, Welcome
<1>2. Sound(state, time + 1) /\ Shaped(state)
    BY StateSoundNext
<1>3. updating \in Updates /\ PollerSound(poller) /\ poller \in Poller /\ Follows(poller, state)
    BY <1>1 DEF StoreInvariant, UpdatingTyped, PollerSound
<1>4. old \in Monitor
    BY <1>1, <1>2, MonitorTyped
<1>5. /\ r \in Monitor /\ r.incidents = old.incidents /\ r.stale = Overwrites(old, updating.view)
      /\ ~r.stale => ~old.stale /\ r.count = old.count /\ r.unacked = old.unacked
    BY <1>3, <1>4, ReplacedMonitor
<1> HIDE DEF r
<1>6. /\ Sound(t, time + 1) /\ DOMAIN t = DOMAIN state /\ t[m] = r
      /\ \A k \in DOMAIN state : t[k].incidents = state[k].incidents /\ (k # m => t[k] = state[k])
    <2> HIDE DEF m
    <2> QED
        BY <1>1, <1>2, <1>5, RelabelledSound DEF old
<1> HIDE DEF t
<1>7. f \in BOOLEAN /\ (f <=> poller.fooled \/ (poller.on = m /\ r.stale))
    <2> poller.fooled \in BOOLEAN /\ r.stale \in BOOLEAN
        BY <1>3, <1>5 DEF Poller, Monitor
    <2> QED
        BY <1>5
<1> HIDE DEF f
<1>8. /\ poller' \in Poller /\ poller'.on = poller.on /\ poller'.after = poller.after
      /\ poller'.at = poller.at /\ poller'.missed = poller.missed /\ poller'.fooled = f
    BY <1>1, <1>3, <1>7 DEF Poller
<1>9. PollerSound(poller')
    BY <1>3, <1>7, <1>8 DEF PollerSound
<1>10. MayFallBack(poller', state)
    BY <1>3, <1>7, <1>8 DEF MayFallBack, Follows, Before
<1>11. Follows(poller', t)
    <2> SUFFICES ASSUME ~poller'.fooled, poller'.after # Nothing, poller'.on \in DOMAIN t
                 PROVE  ~t[poller'.on].stale /\ poller'.after <= t[poller'.on].count /\ Before(poller', t)
        BY DEF Follows
    <2> DEFINE k == poller.on
    <2>1. ~poller.fooled /\ k \in DOMAIN state /\ ~(k = m /\ r.stale)
        BY <1>6, <1>7, <1>8
    <2>2. ~state[k].stale /\ poller.after <= state[k].count /\ Before(poller, state)
        BY <1>3, <1>8, <2>1 DEF Follows
    <2>3. ~t[k].stale /\ t[k].count = state[k].count /\ t[k].incidents = state[k].incidents
        BY <1>5, <1>6, <2>1, <2>2
    <2> QED
        BY <1>8, <2>2, <2>3 DEF Before
<1> QED
    BY <1>1, <1>6, <1>9, <1>10, <1>11, MutateSafe

LEMMA EndMonitorSafe ==
    ASSUME StoreInvariant, NEW m \in MonitorIds, NEW how \in {"stopped", "completed", "failed"},
           EndMonitor(m, how)
    PROVE  StoreInvariant'
<1> DEFINE old == state[m]
           r == [old EXCEPT !.status = how, !.stopped = time,
                            !.revision = IF how = "stopped" THEN old.revision + 1 ELSE old.revision]
           t == [state EXCEPT ![m] = r]
<1>1. m \in DOMAIN state /\ Mutate(t) /\ UNCHANGED <<updating, poller>>
    BY DEF EndMonitor, Running
<1>2. Sound(state, time + 1) /\ Shaped(state) /\ time \in Nat
    BY StateSoundNext
<1>3. old \in Monitor
    BY <1>1, <1>2, MonitorTyped
<1> HIDE DEF old
<1> DEFINE n == IF how = "stopped" THEN old.revision + 1 ELSE old.revision
<1>4. n \in Nat \ {0}
    BY <1>3 DEF Monitor
<1>5. r = [old EXCEPT !.status = how, !.stopped = time, !.revision = n]
    OBVIOUS
<1> HIDE DEF n, r
<1>6. r \in Monitor
    BY <1>2, <1>3, <1>4, <1>5 DEF Monitor, Statuses
<1>7. /\ r.incidents = old.incidents /\ r.count = old.count /\ r.unacked = old.unacked
      /\ r.stale = old.stale /\ r.status # "running"
    BY <1>3, <1>5 DEF Monitor
<1>8. /\ Sound(t, time + 1) /\ DOMAIN t = DOMAIN state /\ t[m] = r
      /\ \A k \in DOMAIN state : t[k].incidents = state[k].incidents /\ (k # m => t[k] = state[k])
    BY <1>1, <1>2, <1>6, <1>7, RelabelledSound DEF old
<1> HIDE DEF t
<1>9. Continues(state, t)
    BY <1>2, <1>7, <1>8, SameContinues DEF old
<1> QED
    BY <1>1, <1>8, <1>9, MutateContinues

LEMMA DeleteStoppedSafe ==
    ASSUME StoreInvariant, NEW m \in MonitorIds, DeleteStopped(m)
    PROVE  StoreInvariant'
<1> DEFINE t == Without(state, m)
<1>1. Mutate(t) /\ UNCHANGED <<updating, poller>>
    BY DEF DeleteStopped
<1>2. Sound(state, time + 1) /\ Shaped(state)
    BY StateSoundNext
<1>3. /\ Sound(t, time + 1) /\ DOMAIN t = DOMAIN state \ {m}
      /\ \A k \in DOMAIN state \ {m} : t[k] = state[k]
    BY <1>2, WithoutSound
<1> HIDE DEF t
<1>4. Continues(state, t)
    BY <1>2, <1>3, SameContinues
<1> QED
    BY <1>1, <1>3, <1>4, MutateContinues

LEMMA RecordIncidentSafe ==
    ASSUME StoreInvariant, NEW m \in MonitorIds, RecordIncident(m)
    PROVE  StoreInvariant'
<1> DEFINE t == Recorded(state, m, time)
<1>1. m \in DOMAIN state /\ Mutate(t) /\ UNCHANGED <<updating, poller>>
    BY DEF RecordIncident, Recorded, Running
<1>2. Sound(state, time) /\ Shaped(state) /\ time \in Nat
    BY StateSoundNext
<1>3. /\ Sound(t, time + 1) /\ DOMAIN t = DOMAIN state
      /\ \A k \in DOMAIN state :
           /\ t[k].stale = state[k].stale
           /\ t[k].count = state[k].count \/ t[k].count = state[k].count + 1
           /\ \A i \in DOMAIN t[k].incidents :
               \/ t[k].incidents[i].seq = state[k].count + 1
               \/ \E j \in DOMAIN state[k].incidents : t[k].incidents[i] = state[k].incidents[j]
    BY <1>1, <1>2, RecordedSound
<1> HIDE DEF t
<1>4. Continues(state, t)
    <2> SUFFICES ASSUME NEW k \in DOMAIN state
                 PROVE  /\ state[k].count <= t[k].count /\ t[k].stale = state[k].stale
                        /\ \A i \in DOMAIN t[k].incidents :
                             \/ t[k].incidents[i].seq > state[k].count
                             \/ \E j \in DOMAIN state[k].incidents :
                                  /\ t[k].incidents[i].seq = state[k].incidents[j].seq
                                  /\ t[k].incidents[i].created = state[k].incidents[j].created
        BY <1>3 DEF Continues
    <2>1. state[k].count \in Nat
        BY <1>2, MonitorTyped
    <2>2. state[k].count <= t[k].count
        BY <1>3, <2>1
    <2>3. ASSUME NEW i \in DOMAIN t[k].incidents
          PROVE  \/ t[k].incidents[i].seq > state[k].count
                 \/ \E j \in DOMAIN state[k].incidents :
                      /\ t[k].incidents[i].seq = state[k].incidents[j].seq
                      /\ t[k].incidents[i].created = state[k].incidents[j].created
        <3>1. CASE t[k].incidents[i].seq = state[k].count + 1
            BY <2>1, <3>1
        <3>2. CASE \E j \in DOMAIN state[k].incidents : t[k].incidents[i] = state[k].incidents[j]
            BY <3>2
        <3> QED
            BY <1>3, <3>1, <3>2
    <2> QED
        BY <1>3, <2>2, <2>3
<1> QED
    BY <1>1, <1>3, <1>4, MutateContinues

LEMMA AcknowledgeSafe ==
    ASSUME StoreInvariant, NEW m \in DOMAIN state, NEW i \in DOMAIN state[m].incidents, Acknowledge(m, i)
    PROVE  StoreInvariant'
<1> DEFINE t == Acknowledged(state, m, i)
<1>1. /\ UNCHANGED <<updating, poller>>
      /\ state[m].incidents[i].acked => Mutate(state)
      /\ ~state[m].incidents[i].acked => Mutate(t)
    BY DEF Acknowledge, Acknowledged
<1>2. Sound(state, time + 1) /\ Shaped(state)
    BY StateSoundNext
<1>3. CASE state[m].incidents[i].acked
    <2>1. Continues(state, state)
        BY <1>2, SameContinues
    <2> QED
        BY <1>1, <1>2, <1>3, <2>1, MutateContinues
<1>4. CASE ~state[m].incidents[i].acked
    <2>1. /\ Sound(t, time + 1) /\ DOMAIN t = DOMAIN state
          /\ \A k \in DOMAIN state :
               /\ t[k].count = state[k].count /\ t[k].stale = state[k].stale
               /\ DOMAIN t[k].incidents = DOMAIN state[k].incidents
               /\ \A j \in DOMAIN state[k].incidents :
                    /\ t[k].incidents[j].seq = state[k].incidents[j].seq
                    /\ t[k].incidents[j].created = state[k].incidents[j].created
        BY <1>2, <1>4, SettledSound
    <2>2. Mutate(t) /\ UNCHANGED <<updating, poller>>
        BY <1>1, <1>4
    <2> HIDE DEF t
    <2>3. \A k \in DOMAIN state : state[k].count \in Nat
        BY <1>2, MonitorTyped
    <2>4. Continues(state, t)
        BY <2>1, <2>3 DEF Continues
    <2> QED
        BY <2>1, <2>2, <2>4, MutateContinues
<1> QED
    BY <1>3, <1>4

-----------------------------------------------------------------------------
(* The end of a write *)

LEMMA PersistedSafe ==
    ASSUME StoreInvariant, Persisted
    PROVE  StoreInvariant'
<1>1. /\ state' = state /\ disk' = state /\ lock' = Nothing /\ time' = time /\ poller' = poller
      /\ updating' = updating
    BY DEF Persisted
<1>2. /\ Sound(state, time)' /\ Sound(disk, time)' /\ (time \in 1..MaxTime)'
      /\ UpdatingTyped(updating)'
    BY <1>1 DEF StoreInvariant
<1>3. PollerSound(poller)' /\ Follows(poller, state)' /\ (lock = Nothing)'
    BY <1>1 DEF StoreInvariant
<1> QED
    BY <1>2, <1>3 DEF StoreInvariant

LEMMA PersistFailsSafe ==
    ASSUME StoreInvariant, PersistFails
    PROVE  StoreInvariant'
<1> DEFINE beyond == /\ poller.on \in DOMAIN lock /\ poller.after # Nothing
                     /\ poller.after > lock[poller.on].count \/ lock[poller.on].stale
           f == poller.fooled \/ beyond
<1>1. /\ lock # Nothing /\ lock' = Nothing /\ state' = lock /\ disk' \in {disk, state} /\ time' = time
      /\ updating' = updating /\ poller' = [poller EXCEPT !.fooled = f]
    BY DEF PersistFails
<1>2. /\ Sound(lock, time) /\ Sound(disk, time) /\ Sound(state, time) /\ Shaped(lock)
      /\ PollerSound(poller) /\ MayFallBack(poller, lock) /\ poller \in Poller
    BY <1>1 DEF StoreInvariant, PollerSound, Sound
<1>3. f \in BOOLEAN /\ (f <=> poller.fooled \/ beyond)
    BY <1>2 DEF Poller
<1> HIDE DEF f
<1>4. /\ poller' \in Poller /\ poller'.on = poller.on /\ poller'.after = poller.after
      /\ poller'.at = poller.at /\ poller'.missed = poller.missed /\ poller'.fooled = f
    BY <1>1, <1>2, <1>3 DEF Poller
<1>5. PollerSound(poller')
    BY <1>2, <1>3, <1>4 DEF PollerSound
<1>6. Follows(poller', lock)
    <2> SUFFICES ASSUME ~poller'.fooled, poller'.after # Nothing, poller'.on \in DOMAIN lock
                 PROVE  ~lock[poller'.on].stale /\ poller'.after <= lock[poller'.on].count /\ Before(poller', lock)
        BY DEF Follows
    <2>1. ~poller.fooled /\ ~beyond /\ poller.after # Nothing /\ poller.on \in DOMAIN lock
        BY <1>3, <1>4
    <2>2. Before(poller, lock)
        BY <1>2, <2>1 DEF MayFallBack
    <2>3. poller.after \in Nat /\ lock[poller.on].count \in Nat
        BY <1>2, <2>1, MonitorTyped, PollerTyped
    <2>4. ~lock[poller.on].stale /\ poller.after <= lock[poller.on].count
        BY <2>1, <2>3
    <2> QED
        BY <1>4, <2>2, <2>4 DEF Before
<1>7. /\ Sound(state, time)' /\ Sound(disk, time)' /\ (time \in 1..MaxTime)' /\ (lock = Nothing)'
      /\ UpdatingTyped(updating)'
    BY <1>1, <1>2 DEF StoreInvariant
<1>8. PollerSound(poller)' /\ Follows(poller, state)'
    BY <1>1, <1>5, <1>6
<1> QED
    BY <1>7, <1>8 DEF StoreInvariant

LEMMA NoPollerSound ==
    ASSUME NEW s
    PROVE  PollerSound(NoPoller) /\ Follows(NoPoller, s) /\ MayFallBack(NoPoller, s)
<1>1. NoPoller \in Poller /\ NoPoller.after = Nothing /\ NoPoller.missed = FALSE
    BY DEF NoPoller, Poller
<1> QED
    BY <1>1 DEF PollerSound, Follows, MayFallBack

LEMMA PollGoneSafe ==
    ASSUME StoreInvariant, PollGone
    PROVE  StoreInvariant'
<1>1. /\ state' = state /\ disk' = disk /\ lock' = lock /\ time' = time /\ poller' = NoPoller
      /\ updating' = updating
    BY DEF PollGone
<1>2. PollerSound(poller)' /\ Follows(poller, state)' /\ MayFallBack(poller, lock)'
    BY <1>1, NoPollerSound
<1>3. /\ Sound(state, time)' /\ Sound(disk, time)' /\ (time \in 1..MaxTime)' /\ UpdatingTyped(updating)'
      /\ (lock # Nothing => Sound(lock, time))'
    BY <1>1 DEF StoreInvariant
<1> QED
    BY <1>2, <1>3 DEF StoreInvariant

LEMMA RestartSafe ==
    ASSUME StoreInvariant, Restart
    PROVE  StoreInvariant'
<1>1. /\ state' = disk /\ disk' = disk /\ lock' = Nothing /\ time' = time /\ poller' = NoPoller
      /\ updating' = Nothing
    BY DEF Restart
<1>2. PollerSound(poller)' /\ Follows(poller, state)'
    BY <1>1, NoPollerSound
<1>3. /\ Sound(state, time)' /\ Sound(disk, time)' /\ (time \in 1..MaxTime)' /\ (lock = Nothing)'
      /\ UpdatingTyped(updating)'
    BY <1>1 DEF StoreInvariant, UpdatingTyped
<1> QED
    BY <1>2, <1>3 DEF StoreInvariant

-----------------------------------------------------------------------------
(* The pages *)

NewerOf(list, after, acked) ==
    {list[i].seq : i \in {j \in DOMAIN list : (acked \/ ~list[j].acked) /\ list[j].seq > after}}

NextOf(newer, count, after) ==
    IF Cardinality(newer) > Limit THEN Max(PageOf(newer)) ELSE Max({count, after})

\* The numbers of a Monitor's incidents are the last ones up to its count.
LEMMA NumbersInOrder ==
    ASSUME NEW list \in Seq(Incident), NEW count \in Nat, NEW now, InOrder(list, count, now, FALSE)
    PROVE  /\ \A i \in DOMAIN list : list[i].seq \in 1..count
           /\ \A i \in DOMAIN list : i > 1 => list[i].seq > list[i - 1].seq
           /\ list # <<>> => \A n \in list[1].seq..count : \E i \in DOMAIN list : list[i].seq = n
<1> DEFINE len == Len(list)
<1>1. len \in Nat /\ DOMAIN list = 1..len /\ \A i \in 1..len : list[i].seq \in Nat
    BY ListTyped
<1>2. /\ \A i \in 1..len : list[i].seq + len = count + i
      /\ len <= count
    BY <1>1 DEF InOrder
<1>3. list # <<>> => len >= 1
    BY <1>1
<1> HIDE DEF len
<1>4. \A i \in 1..len : list[i].seq \in 1..count
    <2> TAKE i \in 1..len
    <2> i \in Nat /\ i >= 1 /\ i <= len /\ list[i].seq \in Nat /\ list[i].seq + len = count + i
        BY <1>1, <1>2
    <2> QED
        BY <1>1, <1>2
<1>5. ASSUME NEW i \in 1..len, i > 1
      PROVE  list[i].seq > list[i - 1].seq
    <2> i - 1 \in 1..len
        BY <1>1, <1>5
    <2> list[i].seq \in Nat /\ list[i].seq + len = count + i
        BY <1>1, <1>2
    <2> list[i - 1].seq \in Nat /\ list[i - 1].seq + len = count + (i - 1)
        BY <1>1, <1>2
    <2> QED
        BY <1>1
<1>6. ASSUME list # <<>>, NEW n \in list[1].seq..count
      PROVE  \E i \in 1..len : list[i].seq = n
    <2>1. 1 \in 1..len /\ list[1].seq \in Nat /\ list[1].seq + len = count + 1
        BY <1>1, <1>2, <1>3, <1>6
    <2> DEFINE i == n + len - count
    <2>2. i \in 1..len
        BY <1>1, <2>1
    <2>3. list[i].seq \in Nat /\ list[i].seq + len = count + i
        BY <1>1, <1>2, <2>2
    <2>4. list[i].seq = n
        BY <1>1, <2>1, <2>3
    <2> QED
        BY <2>2, <2>4
<1> QED
    BY <1>1, <1>4, <1>5, <1>6

\* A finite set of positive numbers lies below one of them.
LEMMA FiniteBounded ==
    ASSUME NEW S, S \subseteq Nat \ {0}, IsFiniteSet(S)
    PROVE  \E b \in Nat : S \subseteq 1..b
<1> DEFINE Below(T) == \E b \in Nat : T \subseteq 1..b
           sizes == {Cardinality(T) : T \in {U \in SUBSET S : ~Below(U)}}
<1> SUFFICES ASSUME ~Below(S) PROVE FALSE
    OBVIOUS
<1>1. \A T \in SUBSET S : IsFiniteSet(T) /\ Cardinality(T) \in Nat
    BY PartCounted
<1>2. sizes \subseteq Nat /\ sizes # {}
    <2> HIDE DEF Below
    <2> QED
        BY <1>1
<1>3. PICK n \in sizes : \A k \in sizes : n <= k
    <2> HIDE DEF sizes
    <2> QED
        BY <1>2, LeastExists
<1>4. PICK T \in SUBSET S : ~Below(T) /\ n = Cardinality(T)
    OBVIOUS
<1>5. T # {}
    <2> {} \subseteq 1..0 /\ 0 \in Nat
        OBVIOUS
    <2> QED
        BY <1>4
<1>6. PICK x \in T : TRUE
    BY <1>5
<1> DEFINE rest == T \ {x}
<1>7. rest \in SUBSET S /\ Cardinality(rest) \in Nat /\ Cardinality(rest) + 1 <= n
    <2>1. rest \subseteq T /\ x \notin rest /\ IsFiniteSet(T)
        BY <1>1
    <2> HIDE DEF rest
    <2>2. Cardinality(rest) \in Nat /\ Cardinality(rest) + 1 <= Cardinality(T)
        BY <1>6, <2>1, ProperPartCounted
    <2> QED
        BY <1>4, <2>1, <2>2
<1>8. Below(rest)
    <2> SUFFICES ASSUME ~Below(rest) PROVE FALSE
        OBVIOUS
    <2>1. Cardinality(rest) \in sizes
        <3> HIDE DEF Below, rest
        <3> QED
            BY <1>7
    <2>2. n \in Nat /\ n <= Cardinality(rest)
        <3> HIDE DEF sizes, rest
        <3> QED
            BY <1>2, <1>3, <2>1
    <2> HIDE DEF rest
    <2> QED
        BY <1>7, <2>2
<1>9. PICK b \in Nat : rest \subseteq 1..b
    BY <1>8
<1>10. x \in Nat \ {0}
    BY <1>4, <1>6
<1>11. ASSUME NEW y \in T
       PROVE  y \in 1..(b + x)
    <2>1. CASE y = x
        BY <1>10, <2>1
    <2>2. CASE y # x
        <3>1. y \in rest
            BY <2>2
        <3> HIDE DEF rest
        <3>2. y \in 1..b
            BY <1>9, <3>1
        <3> QED
            BY <1>10, <3>2
    <2> QED
        BY <2>1, <2>2
<1>12. b + x \in Nat
    BY <1>10
<1> QED
    BY <1>4, <1>11, <1>12

\* What a page holds of the numbers that are asked for.
LEMMA PageTyped ==
    ASSUME NEW count \in Nat, NEW newer, newer \subseteq 1..count
    PROVE  /\ IsFiniteSet(newer) /\ Cardinality(newer) \in Nat /\ PageOf(newer) \subseteq newer
           /\ newer # {} => /\ Max(PageOf(newer)) \in PageOf(newer)
                            /\ \A n \in PageOf(newer) : n <= Max(PageOf(newer))
<1> DEFINE page == PageOf(newer)
<1>1. IsFiniteSet(newer) /\ Cardinality(newer) \in Nat
    <2> IsFiniteSet(1..count)
        BY FS_Interval
    <2> QED
        BY PartCounted
<1>2. page \subseteq newer
    BY DEF PageOf
<1>3. ASSUME newer # {}
      PROVE  Max(page) \in page /\ \A n \in page : n <= Max(page)
    <2>1. newer \subseteq Nat
        OBVIOUS
    <2>2. PICK n \in newer : \A k \in newer : n <= k
        BY <1>3, <2>1, LeastExists
    <2>3. {k \in newer : k < n} = {}
        <3> \A k \in newer : ~(k < n)
            <4> TAKE k \in newer
            <4> k \in Nat /\ n \in Nat /\ n <= k
                BY <2>1, <2>2
            <4> QED
                OBVIOUS
        <3> QED
            OBVIOUS
    <2>4. Cardinality({k \in newer : k < n}) < Limit
        BY <2>3, FS_EmptySet, StoreAssumption
    <2>5. n \in page
        BY <2>4 DEF PageOf
    <2>6. page \subseteq Nat /\ page # {} /\ \A k \in page : k <= count
        <3> HIDE DEF page
        <3> \A k \in page : k \in 1..count
            BY <1>2
        <3> QED
            BY <2>5
    <2> HIDE DEF page
    <2> QED
        BY <2>6, MaxIsGreatest
<1> QED
    BY <1>1, <1>2, <1>3

\* A page leaves no number out below the one it ends with; the last page leaves none.
LEMMA PageCovers ==
    ASSUME NEW count \in Nat, NEW newer, newer \subseteq 1..count, NEW after \in Nat
    PROVE  /\ NextOf(newer, count, after) \in Nat
           /\ after <= count => NextOf(newer, count, after) <= count
           /\ \A n \in newer : n <= NextOf(newer, count, after) => n \in PageOf(newer)
<1> DEFINE page == PageOf(newer)
           next == NextOf(newer, count, after)
           Smaller(n) == {k \in newer : k < n}
<1>1. IsFiniteSet(newer) /\ Cardinality(newer) \in Nat /\ page \subseteq newer /\ Limit \in Nat
    BY PageTyped, StoreAssumption
<1>2. CASE Cardinality(newer) > Limit
    <2>1. newer # {}
        BY <1>1, <1>2, FS_EmptySet
    <2>2. next = Max(page)
        BY <1>2 DEF NextOf
    <2>3. next \in page /\ next \in newer
        BY <1>1, <2>1, <2>2, PageTyped
    <2> HIDE DEF next
    <2>4. next \in Nat /\ next <= count
        BY <2>3
    <2>5. ASSUME NEW n \in newer, n <= next
          PROVE  n \in page
        <3>1. Smaller(n) \subseteq Smaller(next)
            <4> SUFFICES ASSUME NEW k \in newer, k < n PROVE k < next
                OBVIOUS
            <4> k \in Nat /\ n \in Nat
                OBVIOUS
            <4> QED
                BY <2>4, <2>5
        <3>2. IsFiniteSet(Smaller(next))
            <4> Smaller(next) \subseteq newer
                OBVIOUS
            <4> HIDE DEF Smaller
            <4> QED
                BY <1>1, PartCounted
        <3>3. Cardinality(Smaller(next)) < Limit
            BY <2>3 DEF PageOf
        <3>4. Cardinality(Smaller(n)) \in Nat /\ Cardinality(Smaller(next)) \in Nat
              /\ Cardinality(Smaller(n)) <= Cardinality(Smaller(next))
            <4> HIDE DEF Smaller
            <4> QED
                BY <3>1, <3>2, PartCounted
        <3>5. Cardinality(Smaller(n)) < Limit
            <4> HIDE DEF Smaller
            <4> QED
                BY <1>1, <3>3, <3>4
        <3> QED
            BY <3>5 DEF PageOf
    <2> QED
        BY <2>4, <2>5 DEF next
<1>3. CASE ~(Cardinality(newer) > Limit)
    <2>1. next = Max({count, after})
        BY <1>3 DEF NextOf
    <2>2. next \in {count, after}
        <3> DEFINE S == {count, after}
        <3>1. S \subseteq Nat /\ S # {} /\ count + after \in Nat /\ \A y \in S : y <= count + after
            OBVIOUS
        <3> HIDE DEF S
        <3>2. Max(S) \in S
            BY <3>1, MaxIsGreatest
        <3> QED
            BY <2>1, <3>2 DEF S
    <2> HIDE DEF next
    <2>3. next \in Nat /\ (after <= count => next <= count)
        BY <2>2
    <2>4. ASSUME NEW n \in newer
          PROVE  n \in page
        <3>1. Smaller(n) \subseteq newer /\ n \notin Smaller(n)
            BY <1>1
        <3> HIDE DEF Smaller
        <3>2. Cardinality(Smaller(n)) \in Nat /\ Cardinality(Smaller(n)) + 1 <= Cardinality(newer)
            BY <1>1, <3>1, ProperPartCounted
        <3>3. Cardinality(Smaller(n)) < Limit
            BY <1>1, <1>3, <3>2
        <3> QED
            BY <3>3 DEF PageOf, Smaller
    <2> QED
        BY <2>3, <2>4 DEF next
<1> QED
    BY <1>2, <1>3

LEMMA NewerTyped ==
    ASSUME NEW list \in Seq(Incident), NEW count \in Nat, NEW now, InOrder(list, count, now, FALSE),
           NEW after \in Nat, NEW acked \in BOOLEAN
    PROVE  NewerOf(list, after, acked) \subseteq 1..count
<1> SUFFICES ASSUME NEW i \in DOMAIN list PROVE list[i].seq \in 1..count
    BY DEF NewerOf
<1> QED
    BY NumbersInOrder

\* Every number up to the next cursor is on the page or is that of an acknowledged incident.
NoHole(list, count, after, acked) ==
    \A n \in (after + 1)..NextOf(NewerOf(list, after, acked), count, after) :
        \/ n \in PageOf(NewerOf(list, after, acked))
        \/ \E j \in DOMAIN list : list[j].seq = n /\ list[j].acked

\* When nothing is announced as pruned there is no hole.
LEMMA NothingBetween ==
    ASSUME NEW list \in Seq(Incident), NEW count \in Nat, NEW now, InOrder(list, count, now, FALSE),
           NEW after \in Nat, after <= count, NEW acked \in BOOLEAN,
           ~RetentionGap(after, list, count)
    PROVE  NoHole(list, count, after, acked)
<1> DEFINE newer == NewerOf(list, after, acked)
           next == NextOf(newer, count, after)
<1> SUFFICES ASSUME NEW n \in (after + 1)..next
             PROVE  \/ n \in PageOf(newer)
                    \/ \E j \in DOMAIN list : list[j].seq = n /\ list[j].acked
    BY DEF NoHole
<1>1. newer \subseteq 1..count
    BY NewerTyped
<1>2. /\ next \in Nat /\ next <= count
      /\ \A k \in newer : k <= next => k \in PageOf(newer)
    <2> HIDE DEF newer
    <2> QED
        BY <1>1, PageCovers
<1>3. n \in Nat /\ after < n /\ n <= next /\ n <= count
    BY <1>2
<1>4. CASE list = <<>>
    <2> ~(after < count)
        BY <1>4 DEF RetentionGap
    <2> QED
        BY <1>3
<1>5. CASE list # <<>>
    <2>1. ~(after + 1 < list[1].seq)
        BY <1>5 DEF RetentionGap
    <2>2. 1 \in DOMAIN list /\ list[1].seq \in Nat
        <3> 1 \in DOMAIN list
            BY <1>5
        <3> QED
            BY ListTyped
    <2>3. n \in list[1].seq..count
        BY <1>3, <2>1, <2>2
    <2>4. PICK j \in DOMAIN list : list[j].seq = n
        BY <1>5, <2>3, NumbersInOrder
    <2>5. CASE list[j].acked
        BY <2>4, <2>5
    <2>6. CASE ~list[j].acked
        <3>1. n > after
            BY <1>3
        <3>2. list[j].seq \in newer
            BY <2>4, <2>6, <3>1 DEF NewerOf
        <3> HIDE DEF newer
        <3>3. n \in PageOf(newer)
            BY <1>2, <1>3, <2>4, <3>2
        <3> QED
            BY <3>3 DEF newer
    <2> QED
        BY <2>5, <2>6
<1> QED
    BY <1>4, <1>5

\* Whatever the numbers are, the next cursor is one.
LEMMA NextTyped ==
    ASSUME NEW list \in Seq(Incident), NEW count \in Nat, NEW after \in Nat, NEW acked \in BOOLEAN
    PROVE  NextOf(NewerOf(list, after, acked), count, after) \in Nat
<1> DEFINE newer == NewerOf(list, after, acked)
<1>1. \E b \in Nat : newer \subseteq 1..b
    <2>1. newer \subseteq Nat \ {0} /\ IsFiniteSet(newer)
        <3> DEFINE kept == {j \in DOMAIN list : (acked \/ ~list[j].acked) /\ list[j].seq > after}
                   number == [i \in kept |-> list[i].seq]
        <3>1. DOMAIN list = 1..Len(list) /\ Len(list) \in Nat /\ \A i \in DOMAIN list : list[i].seq \in Nat
            BY ListTyped
        <3>2. IsFiniteSet(kept)
            <4>1. IsFiniteSet(DOMAIN list)
                BY <3>1, FS_Interval
            <4>2. kept \subseteq DOMAIN list
                OBVIOUS
            <4> HIDE DEF kept
            <4> QED
                BY <4>1, <4>2, PartCounted
        <3>3. newer = {list[i].seq : i \in kept}
            BY DEF NewerOf
        <3>4. number \in Surjection(kept, newer)
            <4> HIDE DEF kept
            <4> QED
                BY <3>3 DEF Surjection
        <3>5. IsFiniteSet(newer)
            <4> HIDE DEF kept, newer, number
            <4> QED
                BY <3>2, <3>4, FS_Surjection
        <3>6. newer \subseteq Nat \ {0}
            BY <3>1, <3>3
        <3> QED
            BY <3>5, <3>6
    <2> HIDE DEF newer
    <2> QED
        BY <2>1, FiniteBounded
<1>2. PICK b \in Nat : newer \subseteq 1..b
    BY <1>1
<1> HIDE DEF newer
<1>3. CASE Cardinality(newer) > Limit
    <2>1. newer # {}
        <3> SUFFICES ASSUME newer = {} PROVE FALSE
            OBVIOUS
        <3>1. Cardinality({}) = 0
            BY FS_EmptySet
        <3> QED
            BY <1>3, <3>1, StoreAssumption
    <2>2. Max(PageOf(newer)) \in newer
        BY <1>2, <2>1, PageTyped
    <2> QED
        BY <1>2, <1>3, <2>2 DEF NextOf, newer
<1>4. CASE ~(Cardinality(newer) > Limit)
    <2> DEFINE S == {count, after}
    <2>1. S \subseteq Nat /\ S # {} /\ count + after \in Nat /\ \A y \in S : y <= count + after
        OBVIOUS
    <2> HIDE DEF S
    <2>2. Max(S) \in S
        BY <2>1, MaxIsGreatest
    <2> QED
        BY <1>4, <2>1, <2>2 DEF NextOf, newer, S
<1> QED
    BY <1>3, <1>4

LEMMA FollowSafe ==
    ASSUME StoreInvariant, NEW m \in MonitorIds, Follow(m)
    PROVE  StoreInvariant'
<1> DEFINE count == state[m].count
           a == IF count = 0 THEN Nothing ELSE count
           f == poller.fooled \/ state[m].stale
<1>1. /\ m \in DOMAIN state
      /\ poller' = [poller EXCEPT !.on = m, !.at = time, !.fooled = f, !.after = a]
      /\ updating' = updating /\ state' = state /\ disk' = disk /\ lock' = lock /\ time' = time
    BY DEF Follow
<1>2. time \in Nat /\ Sound(state, time) /\ Shaped(state)
    BY StateSoundNext
<1>3. PollerSound(poller) /\ poller \in Poller /\ (lock # Nothing => Sound(lock, time))
    BY DEF StoreInvariant, PollerSound
<1>4. count \in Nat
    BY <1>1, <1>2, MonitorTyped
<1>5. a \in Nat \cup {Nothing} /\ (a # Nothing => a = count)
    BY <1>4
<1>0. f \in BOOLEAN /\ (f <=> poller.fooled \/ state[m].stale)
    <2> state[m].stale \in BOOLEAN /\ poller.fooled \in BOOLEAN
        BY <1>1, <1>2, <1>3, MonitorTyped DEF Poller
    <2> QED
        OBVIOUS
<1> HIDE DEF a, count, f
<1>6. /\ poller' \in Poller /\ poller'.on = m /\ poller'.at = time /\ poller'.after = a
      /\ poller'.missed = poller.missed /\ poller'.fooled = f
    BY <1>0, <1>1, <1>2, <1>3, <1>5 DEF Poller
<1>7. PollerSound(poller')
    BY <1>0, <1>3, <1>6, StoreAssumption DEF PollerSound
<1>8. Before(poller', state)
    BY <1>1, <1>2, <1>6 DEF Before, Sound, Ordered, InOrder
<1>9. Follows(poller', state)
    BY <1>0, <1>4, <1>5, <1>6, <1>8 DEF Follows, count
<1>10. lock # Nothing => MayFallBack(poller', lock)
    BY <1>3, <1>6 DEF MayFallBack, Before, Sound, Ordered, InOrder
<1>11. /\ Sound(state, time)' /\ Sound(disk, time)' /\ (time \in 1..MaxTime)'
       /\ UpdatingTyped(updating)' /\ (lock # Nothing => Sound(lock, time))'
    BY <1>1 DEF StoreInvariant
<1>12. PollerSound(poller)' /\ Follows(poller, state)' /\ (lock # Nothing => MayFallBack(poller, lock))'
    BY <1>1, <1>7, <1>9, <1>10
<1> QED
    BY <1>11, <1>12 DEF StoreInvariant

LEMMA PollSafe ==
    ASSUME StoreInvariant, NEW m \in MonitorIds, NEW acked \in BOOLEAN, Poll(m, acked)
    PROVE  StoreInvariant'
<1> DEFINE all == state[m].incidents
           count == state[m].count
           after == poller.after
           newer == NewerOf(all, after, acked)
           next == NextOf(newer, count, after)
           Passed(n) == n \in PageOf(newer) \/ \E j \in DOMAIN all : all[j].seq = n /\ all[j].acked
           hole == /\ ~RetentionGap(after, all, count)
                   /\ \E n \in (after + 1)..next : ~Passed(n)
           late == \E j \in DOMAIN all : ~all[j].acked /\ all[j].seq <= after /\ all[j].created >= poller.at
           missed == poller.missed \/ hole \/ late
<1>1. /\ m \in DOMAIN state /\ poller.on = m /\ after # Nothing
      /\ poller' = [poller EXCEPT !.after = next, !.at = time, !.missed = missed]
      /\ state' = state /\ disk' = disk /\ lock' = lock /\ time' = time /\ updating' = updating
    BY DEF Poll, NewerOf, NextOf
<1>2. time \in Nat /\ Sound(state, time) /\ Shaped(state)
    BY StateSoundNext
<1>3. /\ PollerSound(poller) /\ poller \in Poller /\ Follows(poller, state)
      /\ lock # Nothing => Sound(lock, time)
    BY DEF StoreInvariant, PollerSound
<1>4. /\ count \in Nat /\ all \in Seq(Incident) /\ InOrder(all, count, time, state[m].stale)
      /\ after \in Nat /\ poller.at \in Nat
    BY <1>1, <1>2, <1>3, MonitorTyped, PollerTyped DEF Sound, Ordered
<1>5. next \in Nat
    BY <1>4, NextTyped
<1>6. ASSUME ~poller.fooled
      PROVE  ~state[m].stale /\ next <= count /\ ~hole /\ ~late /\ ~poller.missed
    <2>1. ~state[m].stale /\ after <= count /\ Before(poller, state)
        BY <1>1, <1>3, <1>6 DEF Follows
    <2>0. InOrder(all, count, time, FALSE)
        BY <1>4, <2>1 DEF InOrder
    <2>4. next <= count
        <3> newer \subseteq 1..count
            BY <1>4, <2>0, NewerTyped
        <3> HIDE DEF newer, after, count
        <3> QED
            BY <1>4, <2>1, PageCovers
    <2>2. ~late
        <3> SUFFICES ASSUME NEW j \in DOMAIN all, all[j].seq <= after, all[j].created >= poller.at PROVE FALSE
            OBVIOUS
        <3>1. all[j].created < poller.at
            BY <1>1, <2>1 DEF Before
        <3>2. all[j].created \in Nat
            BY <1>4, ListTyped
        <3> QED
            BY <1>4, <3>1, <3>2
    <2>3. ~hole
        <3> SUFFICES ASSUME ~RetentionGap(after, all, count), NEW n \in (after + 1)..next
                     PROVE  Passed(n)
            OBVIOUS
        <3> HIDE DEF all, after, count
        <3>1. n \in (after + 1)..NextOf(NewerOf(all, after, acked), count, after)
            OBVIOUS
        <3>2. \/ n \in PageOf(NewerOf(all, after, acked))
              \/ \E j \in DOMAIN all : all[j].seq = n /\ all[j].acked
            <4>0. /\ all \in Seq(Incident) /\ count \in Nat /\ after \in Nat /\ after <= count
                  /\ time \in Nat /\ InOrder(all, count, time, FALSE) /\ ~RetentionGap(after, all, count)
                BY <1>2, <1>4, <2>0, <2>1
            <4>1. NoHole(all, count, after, acked)
                BY <4>0, NothingBetween
            <4> QED
                BY <3>1, <4>1, Zenon DEF NoHole
        <3> QED
            BY <3>2, Zenon
    <2> QED
        BY <1>3, <1>6, <2>1, <2>2, <2>3, <2>4 DEF PollerSound
<1>7. missed \in BOOLEAN /\ (missed => poller.fooled)
    BY <1>3, <1>6 DEF Poller
<1> HIDE DEF missed, next
<1>8. /\ poller' \in Poller /\ poller'.on = m /\ poller'.at = time /\ poller'.after = next
      /\ poller'.missed = missed /\ poller'.fooled = poller.fooled
    BY <1>1, <1>2, <1>3, <1>5, <1>7 DEF Poller
<1>9. PollerSound(poller')
    BY <1>7, <1>8, StoreAssumption DEF PollerSound
<1>10. Before(poller', state)
    BY <1>1, <1>2, <1>8 DEF Before, Sound, Ordered, InOrder
<1>11. Follows(poller', state)
    BY <1>5, <1>6, <1>8, <1>10 DEF Follows
<1>12. lock # Nothing => MayFallBack(poller', lock)
    BY <1>3, <1>8 DEF MayFallBack, Before, Sound, Ordered, InOrder
<1>13. /\ Sound(state, time)' /\ Sound(disk, time)' /\ (time \in 1..MaxTime)'
       /\ UpdatingTyped(updating)' /\ (lock # Nothing => Sound(lock, time))'
    BY <1>1 DEF StoreInvariant
<1>14. PollerSound(poller)' /\ Follows(poller, state)' /\ (lock # Nothing => MayFallBack(poller, lock))'
    BY <1>1, <1>9, <1>11, <1>12
<1> QED
    BY <1>13, <1>14 DEF StoreInvariant

-----------------------------------------------------------------------------
(* Monitors: the theorems *)

LEMMA StoreInvariantInit == StoreInit => StoreInvariant
<1> SUFFICES ASSUME StoreInit PROVE StoreInvariant
    OBVIOUS
<1>1. /\ state = NoMonitors /\ disk = NoMonitors /\ lock = Nothing /\ time = 1 /\ poller = NoPoller
      /\ updating = Nothing
    BY DEF StoreInit
<1>2. time \in 1..MaxTime
    BY <1>1, StoreAssumption
<1>3. DOMAIN NoMonitors = {}
    BY DEF NoMonitors
<1> DEFINE s == NoMonitors
<1>4. Shaped(s)
    <2>1. s \in [{} -> Monitor]
        BY DEF NoMonitors
    <2> QED
        BY <1>3, <2>1, FS_EmptySet DEF Shaped
<1> HIDE DEF s
<1>5. DOMAIN s = {}
    BY <1>3 DEF s
<1>6. Running(s) = {} /\ Incidents(s) = {}
    BY <1>5 DEF Running, Incidents
<1>7. Bounded(s)
    BY <1>5, <1>6, FS_EmptySet, StoreAssumption DEF Bounded
<1>8. Sound(s, time)
    BY <1>4, <1>5, <1>7 DEF Sound, Counted, Ordered
<1>9. PollerSound(poller) /\ Follows(poller, state)
    BY <1>1, NoPollerSound
<1> QED
    BY <1>1, <1>2, <1>8, <1>9 DEF StoreInvariant, UpdatingTyped, s

\* Every operation, every end of a write, every poll and every restart keeps it.
LEMMA StoreInvariantStep == StoreInvariant /\ [StoreNext]_storeVars => StoreInvariant'
<1> SUFFICES ASSUME StoreInvariant, [StoreNext]_storeVars PROVE StoreInvariant'
    OBVIOUS
<1>1. CASE Persisted
    BY <1>1, PersistedSafe
<1>2. CASE PersistFails
    BY <1>2, PersistFailsSafe
<1>3. CASE \E m \in MonitorIds, spec \in Specs : Create(m, spec) \/ BeginUpdate(m, spec)
    BY <1>3, CreateSafe, BeginUpdateSafe
<1>11. CASE CommitUpdate \/ RefuseUpdate
    BY <1>11, CommitUpdateSafe, RefuseUpdateSafe
<1>4. CASE \E m \in MonitorIds : DeleteStopped(m) \/ RecordIncident(m)
    BY <1>4, DeleteStoppedSafe, RecordIncidentSafe
<1>5. CASE \E m \in MonitorIds, how \in {"stopped", "completed", "failed"} : EndMonitor(m, how)
    BY <1>5, EndMonitorSafe
<1>6. CASE \E m \in DOMAIN state : \E i \in DOMAIN state[m].incidents : Acknowledge(m, i)
    BY <1>6, AcknowledgeSafe
<1>7. CASE \E m \in MonitorIds : Follow(m) \/ \E acked \in BOOLEAN : Poll(m, acked)
    BY <1>7, FollowSafe, PollSafe
<1>8. CASE PollGone
    BY <1>8, PollGoneSafe
<1>9. CASE Restart
    BY <1>9, RestartSafe
<1>10. CASE UNCHANGED storeVars
    <2>1. /\ state' = state /\ disk' = disk /\ lock' = lock /\ time' = time /\ poller' = poller
          /\ updating' = updating
        BY <1>10 DEF storeVars
    <2>2. /\ Sound(state, time)' /\ Sound(disk, time)' /\ (time \in 1..MaxTime)'
          /\ UpdatingTyped(updating)' /\ (lock # Nothing => Sound(lock, time))'
        BY <2>1 DEF StoreInvariant
    <2>3. PollerSound(poller)' /\ Follows(poller, state)' /\ (lock # Nothing => MayFallBack(poller, lock))'
        BY <2>1 DEF StoreInvariant
    <2> QED
        BY <2>2, <2>3 DEF StoreInvariant
<1> QED
    BY <1>1, <1>2, <1>3, <1>4, <1>5, <1>6, <1>7, <1>8, <1>9, <1>10, <1>11 DEF StoreNext

LEMMA SoundTyped ==
    ASSUME NEW s, NEW now, Sound(s, now)
    PROVE  /\ DOMAIN s \subseteq MonitorIds
           /\ \A m \in DOMAIN s :
               /\ s[m].spec \in Specs /\ s[m].revision \in Nat \ {0} /\ s[m].gaps \in Nat
               /\ s[m].status \in {"running", "stopped", "completed", "failed"}
               /\ \A i \in DOMAIN s[m].incidents :
                   /\ i > 1 => s[m].incidents[i].created > s[m].incidents[i - 1].created
                   /\ ~s[m].stale => /\ s[m].incidents[i].seq \in 1..s[m].count
                                     /\ i > 1 => s[m].incidents[i].seq > s[m].incidents[i - 1].seq
<1>1. Shaped(s) /\ Ordered(s, now)
    BY DEF Sound
<1>2. DOMAIN s \subseteq MonitorIds
    BY <1>1 DEF Shaped
<1>3. ASSUME NEW m \in DOMAIN s
      PROVE  /\ s[m].spec \in Specs /\ s[m].revision \in Nat \ {0} /\ s[m].gaps \in Nat
             /\ s[m].status \in {"running", "stopped", "completed", "failed"}
    <2> s[m] \in Monitor
        BY <1>1, MonitorTyped
    <2> QED
        BY DEF Monitor, Statuses
<1>4. ASSUME NEW m \in DOMAIN s, NEW i \in DOMAIN s[m].incidents
      PROVE  /\ i > 1 => s[m].incidents[i].created > s[m].incidents[i - 1].created
             /\ ~s[m].stale => /\ s[m].incidents[i].seq \in 1..s[m].count
                               /\ i > 1 => s[m].incidents[i].seq > s[m].incidents[i - 1].seq
    <2>1. s[m].incidents \in Seq(Incident) /\ s[m].count \in Nat
          /\ InOrder(s[m].incidents, s[m].count, now, s[m].stale)
        BY <1>1, MonitorTyped DEF Ordered
    <2>2. ASSUME i > 1
          PROVE  s[m].incidents[i].created > s[m].incidents[i - 1].created
        <3>1. i - 1 \in DOMAIN s[m].incidents /\ i - 1 < i
            BY <2>1, <2>2
        <3>2. s[m].incidents[i - 1].created < s[m].incidents[i].created
            BY <2>1, <3>1 DEF InOrder
        <3>3. s[m].incidents[i].created \in Nat /\ s[m].incidents[i - 1].created \in Nat
            BY <2>1, <3>1, ListTyped
        <3> QED
            BY <3>2, <3>3
    <2>3. ASSUME ~s[m].stale
          PROVE  InOrder(s[m].incidents, s[m].count, now, FALSE)
        BY <2>1, <2>3 DEF InOrder
    <2> QED
        BY <2>1, <2>2, <2>3, NumbersInOrder
<1> QED
    BY <1>2, <1>3, <1>4

LEMMA StoreInvariantSound == StoreInvariant => StoreSound
<1> SUFFICES ASSUME StoreInvariant PROVE StoreSound
    OBVIOUS
<1>1. Sound(state, time) /\ Sound(disk, time) /\ time \in 1..MaxTime /\ PollerSound(poller)
    BY DEF StoreInvariant
<1>2. /\ poller.on \in MonitorIds \cup {Nothing}
      /\ updating = Nothing \/ (updating.on \in MonitorIds /\ updating.spec \in Specs)
    BY <1>1, PollerTyped DEF PollerSound, StoreInvariant, UpdatingTyped, Updates
<1>3. StoreTypeOK
    BY <1>1, <1>2, SoundTyped DEF StoreTypeOK
<1>4. FileIsAccepted
    BY <1>1 DEF Sound, Bounded, FileIsAccepted
<1>5. UnackedExact
    BY <1>1 DEF Sound, Counted, UnackedExact
<1>6. PollerMissesNothing
    BY <1>1 DEF PollerSound, PollerMissesNothing
<1> QED
    BY <1>3, <1>4, <1>5, <1>6 DEF StoreSound

\* The inductive invariant of the store.
THEOREM StoreAlways == StoreSpec => []StoreInvariant
<1> QED
    BY StoreInvariantInit, StoreInvariantStep, PTL DEF StoreSpec

\* A daemon never refuses the file that it wrote, whatever was pruned, deleted, updated while
\* it changed, failed to be written or cut off by a crash.  A Monitor whose counts no update has
\* replaced by older ones shows the exact count of unacknowledged incidents, and a client that
\* polls it with the cursors it is given sees every incident that nobody has acknowledged or
\* is told that some are no longer kept (validate_loaded_state, recompute_unacked_counts, update
\* and incidents in monitor.rs).
THEOREM StoreAlwaysSound == StoreSpec => []StoreSound
<1> QED
    BY StoreAlways, StoreInvariantSound, PTL

\* The file alone: what the daemon wrote is accepted at the next start.
THEOREM FileAlwaysAccepted == StoreSpec => []FileIsAccepted
<1>1. StoreSound => FileIsAccepted
    BY DEF StoreSound
<1> QED
    BY <1>1, StoreAlwaysSound, PTL

-----------------------------------------------------------------------------
(* Requests: the inductive invariant *)

\* What is with the writer is in no record yet, and there is room for its id.
BusyUnrecorded ==
    /\ IsFiniteSet(executed)
    /\ busy # None => up /\ busy.id \notin executed /\ Cardinality(executed) < History

\* While the actor lives it remembers the id of everything on the wire.
LineRemembered == up => \A i \in DOMAIN line : line[i].id \in executed

\* A cached success is on the wire, with the body that its fingerprint tells.
CacheTrue ==
    \A i \in DOMAIN results : results[i].result = "accepted" =>
        \E j \in DOMAIN line : line[j] = [id |-> results[i].key, body |-> results[i].fingerprint]

\* A cached answer that says pending is that of the very request that waits.
PendingKnown ==
    \A i \in DOMAIN runs : runs[i].result = "pending" =>
        /\ approval # None
        /\ RunKey(approval) = runs[i].key /\ Fingerprint(approval) = runs[i].fingerprint

\* Everything together.
Invariant ==
    /\ TypeOK /\ BusyUnrecorded /\ LineRemembered /\ CacheTrue /\ PendingKnown
    /\ WrittenOnce /\ AcceptedWasWritten /\ RefusedWasNotWritten

-----------------------------------------------------------------------------
(* Requests: the operators *)

USE BoundsAssumption, AbsentAssumption

\* What a sequence holds is of its set.
LEMMA Members ==
    ASSUME NEW S, NEW q \in Seq(S), NEW i \in DOMAIN q
    PROVE  q[i] \in S
OBVIOUS

\* What is appended is in the sequence.
LEMMA Appended ==
    ASSUME NEW S, NEW q \in Seq(S), NEW e, NEW longer, longer = Append(q, e)
    PROVE  Len(q) + 1 \in DOMAIN longer /\ longer[Len(q) + 1] = e
OBVIOUS

\* A request has the parts that it is answered by.
LEMMA RequestFields ==
    ASSUME NEW r \in Request
    PROVE  /\ r # None /\ r.actor \in Actors /\ r.body \in Bodies
           /\ r.kind \in Physical => r \in WriteRequest /\ r.id \in Ids
           /\ r.kind \notin Physical => r \in RunRequest /\ r.id \in RunIds
BY DEF Request, WriteRequest, RunRequest, Physical

\* What a client is told of as accepted was answered so, or had been.
LEMMA AnswerConfirms ==
    ASSUME NEW given, Answer(given)
    PROVE  \A a \in confirmed' : \/ a \in confirmed
                                 \/ \E g \in given : /\ g.result = "accepted" /\ g.request.kind \in Physical
                                                     /\ a = [id |-> g.request.id, body |-> g.request.body]
BY DEF Answer

\* A client is warned of every id unless it hears a refusal.
LEMMA AnswerWarns ==
    ASSUME NEW given, Answer(given)
    PROVE  /\ warned \subseteq warned'
           /\ \A g \in given : g.request.kind \in Physical /\ g.result \notin Refused => g.request.id \in warned'
           /\ \A id \in warned' : id \in warned \/ \E g \in given : g.request.kind \in Physical /\ id = g.request.id
BY DEF Answer

\* What clients are told has its types.
LEMMA AnswerType ==
    ASSUME NEW given, Answer(given), \A g \in given : g.request \in Request,
           confirmed \subseteq [id : Ids, body : Bodies], warned \subseteq Ids
    PROVE  confirmed' \subseteq [id : Ids, body : Bodies] /\ warned' \subseteq Ids
<1>1. ASSUME NEW a \in confirmed' PROVE a \in [id : Ids, body : Bodies]
  <2>1. CASE a \in confirmed
    BY <2>1
  <2>2. CASE a \notin confirmed
    <3>1. PICK g \in given : g.request.kind \in Physical /\ a = [id |-> g.request.id, body |-> g.request.body]
      BY <2>2, AnswerConfirms
    <3> QED BY <3>1, RequestFields
  <2> QED BY <2>1, <2>2
<1>2. ASSUME NEW id \in warned' PROVE id \in Ids
  <2>1. CASE id \in warned
    BY <2>1
  <2>2. CASE id \notin warned
    <3>1. PICK g \in given : g.request.kind \in Physical /\ id = g.request.id
      BY <2>2, AnswerWarns
    <3> QED BY <3>1, RequestFields
  <2> QED BY <2>1, <2>2
<1> QED BY <1>1, <1>2

\* An entry that is found is one of the cache, under the key.
LEMMA EntryFound ==
    ASSUME NEW cache, NEW key, Cached(cache, key)
    PROVE  \E i \in DOMAIN cache : cache[i] = Entry(cache, key) /\ cache[i].key = key
BY DEF Cached, Entry

\* Adding a result forgets at most the oldest one.
LEMMA CacheAdds ==
    ASSUME NEW S, NEW cache \in Seq(S), NEW key, NEW fingerprint, NEW result,
           [key |-> key, fingerprint |-> fingerprint, result |-> result] \in S, Len(cache) <= Entries
    PROVE  LET next == CacheResult(cache, key, fingerprint, result)
           IN  /\ next \in Seq(S) /\ Len(next) <= Entries
               /\ \A i \in DOMAIN next :
                     \/ \E j \in DOMAIN cache : next[i] = cache[j]
                     \/ /\ ~Cached(cache, key)
                        /\ next[i] = [key |-> key, fingerprint |-> fingerprint, result |-> result]
<1>1. PICK e : e = [key |-> key, fingerprint |-> fingerprint, result |-> result]
  OBVIOUS
<1>2. PICK longer : longer = Append(cache, e)
  OBVIOUS
<1>3. /\ longer \in Seq(S) /\ Len(longer) = Len(cache) + 1
      /\ \A i \in 1..Len(longer) : longer[i] = IF i <= Len(cache) THEN cache[i] ELSE e
  BY <1>1, <1>2
<1>4. PICK shorter : shorter = Tail(longer)
  OBVIOUS
<1>5. /\ shorter \in Seq(S) /\ Len(shorter) = Len(cache)
      /\ \A i \in 1..Len(shorter) : shorter[i] = longer[i + 1]
  BY <1>3, <1>4
<1>6. CacheResult(cache, key, fingerprint, result)
        = IF Cached(cache, key) THEN cache ELSE IF Len(longer) > Entries THEN shorter ELSE longer
  BY <1>1, <1>2, <1>4 DEF CacheResult, Newest
<1>7. CASE Cached(cache, key)
  BY <1>6, <1>7
<1>8. CASE ~Cached(cache, key) /\ Len(longer) > Entries
  <2>1. ASSUME NEW i \in DOMAIN shorter
        PROVE  shorter[i] = e \/ \E j \in DOMAIN cache : shorter[i] = cache[j]
    <3>1. i \in 1..Len(cache) /\ shorter[i] = longer[i + 1] /\ i + 1 \in 1..Len(longer)
      BY <1>3, <1>5
    <3> QED BY <1>3, <3>1
  <2> QED BY <1>1, <1>5, <1>6, <1>8, <2>1
<1>9. CASE ~Cached(cache, key) /\ ~(Len(longer) > Entries)
  <2>1. ASSUME NEW i \in DOMAIN longer
        PROVE  longer[i] = e \/ \E j \in DOMAIN cache : longer[i] = cache[j]
    BY <1>3
  <2>2. Len(longer) <= Entries
    BY <1>3, <1>9
  <2> QED BY <1>1, <1>3, <1>6, <1>9, <2>1, <2>2
<1> QED BY <1>7, <1>8, <1>9

\* The outcome of a Run start replaces what was cached for it.
LEMMA TerminalReplaces ==
    ASSUME NEW cache \in Seq(RunEntry), Len(cache) <= Entries, NEW r \in RunRequest, NEW result \in Results
    PROVE  LET next == RunStartTerminal(cache, r, result)
           IN  /\ next \in Seq(RunEntry) /\ Len(next) <= Entries
               /\ \A i \in DOMAIN next :
                     \/ next[i].result = result
                     \/ /\ \E j \in DOMAIN cache : next[i] = cache[j]
                        /\ ~(next[i].key = RunKey(r) /\ next[i].fingerprint = Fingerprint(r))
<1>1. /\ RunKey(r) \in Actors \X RunIds /\ Fingerprint(r) \in Actors \X Bodies
      /\ [key |-> RunKey(r), fingerprint |-> Fingerprint(r), result |-> result] \in RunEntry
  BY DEF RunRequest, RunKey, Fingerprint, RunEntry
<1>2. CASE Cached(cache, RunKey(r))
  <2>1. PICK next : next = [i \in DOMAIN cache |->
            IF cache[i].key = RunKey(r) /\ cache[i].fingerprint = Fingerprint(r)
            THEN [cache[i] EXCEPT !.result = result] ELSE cache[i]]
    OBVIOUS
  <2>2. DOMAIN next = DOMAIN cache /\ DOMAIN cache = 1..Len(cache) /\ Len(cache) \in Nat
    BY <2>1
  <2>3. ASSUME NEW i \in DOMAIN cache
        PROVE  /\ next[i] \in RunEntry
               /\ \/ next[i].result = result
                  \/ /\ next[i] = cache[i]
                     /\ ~(next[i].key = RunKey(r) /\ next[i].fingerprint = Fingerprint(r))
    <3>1. cache[i] \in RunEntry
      BY Members
    <3> QED BY <2>1, <3>1 DEF RunEntry
  <2>4. next \in Seq(RunEntry) /\ Len(next) = Len(cache)
    BY <2>1, <2>2, <2>3
  <2>5. RunStartTerminal(cache, r, result) = next
    BY <1>2, <2>1 DEF RunStartTerminal
  <2> QED BY <2>2, <2>3, <2>4, <2>5
<1>3. CASE ~Cached(cache, RunKey(r))
  <2>1. PICK next : next = CacheResult(cache, RunKey(r), Fingerprint(r), result)
    OBVIOUS
  <2>2. /\ next \in Seq(RunEntry) /\ Len(next) <= Entries
        /\ \A i \in DOMAIN next :
              \/ \E j \in DOMAIN cache : next[i] = cache[j]
              \/ next[i] = [key |-> RunKey(r), fingerprint |-> Fingerprint(r), result |-> result]
    BY <1>1, <2>1, CacheAdds
  <2>3. ASSUME NEW i \in DOMAIN next, NEW j \in DOMAIN cache, next[i] = cache[j]
        PROVE  next[i].key # RunKey(r)
    BY <1>3, <2>3 DEF Cached
  <2>4. RunStartTerminal(cache, r, result) = next
    BY <1>3, <2>1 DEF RunStartTerminal
  <2> QED BY <2>2, <2>3, <2>4
<1> QED BY <1>2, <1>3

\* The caches answer None only for an id that was never executed and still fits.
LEMMA FromCacheNone ==
    ASSUME NEW r \in Request, results \in Seq(WriteEntry), FromCache(r) = None
    PROVE  r.id \notin executed /\ ~(Cardinality(executed) >= History)
<1>1. None \notin {"reused", "expired", "capacity"}
  BY DEF Results, FromRecord, Refused
<1>2. CASE Cached(results, r.id)
  <2>1. PICK i \in DOMAIN results : results[i] = Entry(results, r.id)
    BY <1>2, EntryFound
  <2>2. results[i] \in WriteEntry
    BY Members
  <2>3. Entry(results, r.id).result \in Results
    BY <2>1, <2>2 DEF WriteEntry
  <2>4. Replayed(results, r.id, WriteFingerprint(r)) # None
    BY <1>1, <2>3 DEF Replayed
  <2> QED BY <1>2, <2>4 DEF FromCache
<1>3. CASE ~Cached(results, r.id)
  BY <1>1, <1>3 DEF FromCache
<1> QED BY <1>2, <1>3

-----------------------------------------------------------------------------
(* Requests: the steps *)

\* Only a write, its end and the end of the actor change what the wire and the memory of
\* the actor hold.
LEMMA StepKinds ==
    ASSUME [Next]_vars
    PROVE  \/ UNCHANGED <<up, busy, line, results, executed>>
           \/ Execute
           \/ \E result \in Written, reached \in BOOLEAN : Finish(result, reached)
           \/ \E reached \in BOOLEAN : Stop(reached)
<1> USE DEF links, told, authority, vars
<1>1. CASE \E c \in Clients : Connect(c) \/ Lose(c)
  BY <1>1 DEF Connect, Lose
<1>2. CASE \E r : Submit(r)
  BY <1>2 DEF Submit
<1>3. CASE Invalid \/ Unauthorized \/ Replay \/ Refuse
  BY <1>3 DEF Invalid, Unauthorized, Replay, Refuse, Settle
<1>4. CASE ReplayRun \/ GrantRun \/ AskHuman \/ AskAgain
  BY <1>4 DEF ReplayRun, GrantRun, AskHuman, AskAgain, NewRun, Settle
<1>5. CASE (\E result \in {"granted", "cancelled"} : Decide(result)) \/ (\E c \in Clients : Handover(link[c]))
  BY <1>5 DEF Decide, Handover
<1>6. CASE (\E actor \in gone : Disconnect(actor)) \/ Reopen
  BY <1>6 DEF Disconnect, Reopen
<1>7. CASE UNCHANGED vars
  BY <1>7
<1> QED BY <1>1, <1>2, <1>3, <1>4, <1>5, <1>6, <1>7
       DEF Next, SendHumanInput, SendUnderLease, RequestRunStart

\* The writer has at most one command, whose id is recorded with its result.
LEMMA StepBusy ==
    ASSUME Invariant, [Next]_vars
    PROVE  BusyUnrecorded' /\ LineRemembered'
<1> USE DEF Invariant, BusyUnrecorded, LineRemembered
<1>1. CASE UNCHANGED <<up, busy, line, results, executed>>
  BY <1>1
<1>2. CASE Execute
  <2>1. Request1 \in Request /\ Request1.kind \in Physical
    BY <1>2, Members DEF Execute, Ready, Request1, TypeOK
  <2>2. Request1.id \notin executed /\ ~(Cardinality(executed) >= History)
    BY <1>2, <2>1, FromCacheNone DEF Execute, TypeOK
  <2>3. Cardinality(executed) \in Nat
    BY FS_CardinalityType
  <2> QED BY <1>2, <2>1, <2>2, <2>3 DEF Execute, Ready, links, told
<1>3. ASSUME NEW result \in Written, NEW reached \in BOOLEAN, Finish(result, reached)
      PROVE  BusyUnrecorded' /\ LineRemembered'
  <2>1. executed' = executed \cup {busy.id} /\ busy # None /\ busy' = None
    BY <1>3 DEF Finish, IsCacheable, CacheWriteResult
  <2>2. IsFiniteSet(executed')
    BY <2>1, FS_AddElement
  <2>3. ASSUME NEW i \in DOMAIN line' PROVE line'[i].id \in executed'
    <3>1. CASE line' = line
      BY <1>3, <2>1, <3>1 DEF Finish, links
    <3>2. CASE line' = Append(line, [id |-> busy.id, body |-> busy.body])
      <4>1. PICK e : e = [id |-> busy.id, body |-> busy.body]
        OBVIOUS
      <4>2. line' = Append(line, e) /\ e.id = busy.id /\ line \in Seq([id : Ids, body : Bodies])
        BY <3>2, <4>1 DEF TypeOK
      <4>3. \/ i \in DOMAIN line /\ line'[i] = line[i]
            \/ line'[i] = e
        BY <4>2
      <4> QED BY <1>3, <2>1, <4>2, <4>3 DEF Finish, links
    <3> QED BY <1>3, <3>1, <3>2 DEF Finish
  <2> QED BY <2>1, <2>2, <2>3
<1>4. ASSUME NEW reached \in BOOLEAN, Stop(reached) PROVE BusyUnrecorded' /\ LineRemembered'
  BY <1>4 DEF Stop
<1> QED BY <1>1, <1>2, <1>3, <1>4, StepKinds

\* Nothing is written under an id that is on the wire.
LEMMA StepWritten ==
    ASSUME Invariant, [Next]_vars
    PROVE  WrittenOnce'
<1> USE DEF Invariant, WrittenOnce
<1>0. ASSUME busy # None, up, line' = Append(line, [id |-> busy.id, body |-> busy.body])
      PROVE  WrittenOnce'
  <2>1. PICK e : e = [id |-> busy.id, body |-> busy.body]
    OBVIOUS
  <2>2. line' = Append(line, e) /\ e.id = busy.id /\ line \in Seq([id : Ids, body : Bodies])
    BY <1>0, <2>1 DEF TypeOK
  <2>3. DOMAIN line' = 1..Len(line) + 1 /\ DOMAIN line = 1..Len(line) /\ line'[Len(line) + 1] = e
    BY <2>2
  <2>4. \A i \in DOMAIN line : line'[i] = line[i] /\ line[i].id # e.id
    BY <1>0, <2>2 DEF BusyUnrecorded, LineRemembered
  <2>5. \A i \in DOMAIN line' : i \in DOMAIN line \/ i = Len(line) + 1
    BY <2>2, <2>3
  <2> QED BY <2>3, <2>4, <2>5
<1>1. CASE UNCHANGED <<up, busy, line, results, executed>>
  BY <1>1
<1>2. CASE Execute
  BY <1>2 DEF Execute
<1>3. CASE (\E result \in Written, reached \in BOOLEAN : Finish(result, reached))
  BY <1>0, <1>3 DEF Finish, BusyUnrecorded
<1>4. CASE \E reached \in BOOLEAN : Stop(reached)
  BY <1>0, <1>4 DEF Stop
<1> QED BY <1>1, <1>2, <1>3, <1>4, StepKinds

\* The wire is only added to.
LEMMA LineGrows ==
    ASSUME TypeOK, [Next]_vars
    PROVE  \A i \in DOMAIN line : i \in DOMAIN line' /\ line'[i] = line[i]
<1>0. ASSUME NEW e, line' = Append(line, e)
      PROVE  \A i \in DOMAIN line : i \in DOMAIN line' /\ line'[i] = line[i]
  BY <1>0 DEF TypeOK
<1>1. CASE line' = line
  BY <1>1
<1>2. CASE \E result \in Written, reached \in BOOLEAN : Finish(result, reached)
  BY <1>0, <1>1, <1>2 DEF Finish
<1>3. CASE \E reached \in BOOLEAN : Stop(reached)
  BY <1>0, <1>1, <1>3 DEF Stop
<1> QED BY <1>1, <1>2, <1>3, StepKinds DEF Execute

\* A result is cached with the bytes it is about.
LEMMA StepCache ==
    ASSUME Invariant, [Next]_vars
    PROVE  CacheTrue'
<1> USE DEF Invariant, CacheTrue
<1>1. CASE results' = results
  BY <1>1, LineGrows
<1>2. ASSUME NEW result \in Written, NEW reached \in BOOLEAN, Finish(result, reached)
      PROVE  CacheTrue'
  <2>1. PICK e : e = [id |-> busy.id, body |-> busy.body]
    OBVIOUS
  <2>2. /\ busy \in WriteRequest /\ results' = CacheResult(results, busy.id, busy.body, result)
        /\ reached => line' = Append(line, e)
        /\ result = "accepted" => reached
    BY <1>2, <2>1 DEF Finish, IsCacheable, CacheWriteResult, WriteFingerprint, TypeOK
  <2>3. PICK key, fingerprint : key = busy.id /\ fingerprint = busy.body
    OBVIOUS
  <2>4. [key |-> key, fingerprint |-> fingerprint, result |-> result] \in WriteEntry
    BY <2>2, <2>3 DEF WriteRequest, WriteEntry, Results
  <2>5. \A i \in DOMAIN results' :
            \/ results'[i] = [key |-> key, fingerprint |-> fingerprint, result |-> result]
            \/ \E j \in DOMAIN results : results'[i] = results[j]
    <3>1. results \in Seq(WriteEntry) /\ Len(results) <= Entries
      BY DEF TypeOK
    <3>2. results' = CacheResult(results, key, fingerprint, result)
      BY <2>2, <2>3
    <3> QED BY ONLY <2>4, <3>1, <3>2, CacheAdds
  <2>6. reached => \E j \in DOMAIN line' : line'[j] = e
    <3>1. line \in Seq([id : Ids, body : Bodies])
      BY DEF TypeOK
    <3> QED BY ONLY <2>2, <3>1, Appended
  <2>7. ASSUME NEW i \in DOMAIN results', results'[i].result = "accepted"
        PROVE  \E j \in DOMAIN line' : line'[j] = [id |-> results'[i].key, body |-> results'[i].fingerprint]
    <3>1. CASE results'[i] = [key |-> key, fingerprint |-> fingerprint, result |-> result]
      BY <2>1, <2>2, <2>3, <2>6, <2>7, <3>1
    <3>2. CASE \E j \in DOMAIN results : results'[i] = results[j]
      BY <2>7, <3>2, LineGrows
    <3> QED BY <2>5, <3>1, <3>2
  <2> QED BY <2>7
<1>3. CASE Execute \/ \E reached \in BOOLEAN : Stop(reached)
  BY <1>1, <1>3 DEF Execute, Stop
<1> QED BY <1>1, <1>2, <1>3, StepKinds

\* What clients have been told after a step: a success is on the wire, and nobody is told
\* less than before.
ToldWell ==
    /\ \A a \in confirmed' : a \in confirmed \/ \E i \in DOMAIN line' : line'[i] = a
    /\ \A id \in warned' : id \in warned \/ id \in Ids
    /\ warned \subseteq warned'

\* One answer that is true tells well.
LEMMA OneAnswer ==
    ASSUME NEW r \in Request, NEW result, Answer({[request |-> r, result |-> result]}),
           result = "accepted" /\ r.kind \in Physical =>
               \E i \in DOMAIN line' : line'[i] = [id |-> r.id, body |-> r.body]
    PROVE  ToldWell
<1>1. PICK given : given = {[request |-> r, result |-> result]}
  OBVIOUS
<1>2. Answer(given)
  BY <1>1
<1>3. \A g \in given : g.request = r /\ g.result = result
  BY <1>1
<1> QED BY <1>2, <1>3, AnswerConfirms, AnswerWarns, RequestFields DEF ToldWell

\* A success that the caches repeat is on the wire.
LEMMA FromCacheTrue ==
    ASSUME Invariant, NEW r \in Request, FromCache(r) = "accepted"
    PROVE  \E i \in DOMAIN line : line[i] = [id |-> r.id, body |-> r.body]
<1>1. Cached(results, r.id) /\ Replayed(results, r.id, WriteFingerprint(r)) = "accepted"
  BY AbsentAssumption DEF FromCache, Results, Written, FromRecord, Refused
<1>2. PICK i \in DOMAIN results : results[i] = Entry(results, r.id) /\ results[i].key = r.id
  BY <1>1, EntryFound
<1>3. results[i].fingerprint = r.body /\ results[i].result = "accepted"
  BY <1>1, <1>2 DEF Replayed, WriteFingerprint
<1> QED BY <1>2, <1>3 DEF Invariant, CacheTrue

\* Whatever is answered is true.
LEMMA StepTold ==
    ASSUME Invariant, [Next]_vars
    PROVE  ToldWell
<1> USE DEF Invariant, links, told, authority, vars
<1>1. CASE UNCHANGED told
  BY <1>1 DEF ToldWell
<1>2. ASSUME NEW r \in Request, Submit(r) PROVE ToldWell
  <2>1. CASE up
    BY <1>1, <1>2, <2>1 DEF Submit
  <2>2. CASE ~up
    BY <1>2, <2>2, OneAnswer DEF Submit
  <2> QED BY <2>1, <2>2
<1>3. ASSUME NEW kinds, NEW result, Ready(kinds), Settle(result),
             result = "accepted" /\ Request1.kind \in Physical =>
                 \E i \in DOMAIN line' : line'[i] = [id |-> Request1.id, body |-> Request1.body]
      PROVE  ToldWell
  <2>1. Request1 \in Request
    BY <1>3, Members DEF Ready, Request1, TypeOK
  <2> QED BY <1>3, <2>1, OneAnswer DEF Settle
<1>4. CASE Invalid \/ Unauthorized \/ Refuse
  BY <1>3, <1>4 DEF Invalid, Unauthorized, Refuse
<1>5. CASE Replay
  <2>1. Request1 \in Request
    BY <1>5, Members DEF Replay, Ready, Request1, TypeOK
  <2>2. line' = line
    BY <1>5 DEF Replay
  <2> QED BY <1>3, <1>5, <2>1, <2>2, FromCacheTrue DEF Replay
<1>6. CASE ReplayRun \/ GrantRun \/ AskHuman \/ AskAgain
  <2>1. Ready({"run"}) /\ \E result : Settle(result)
    BY <1>6 DEF ReplayRun, GrantRun, AskHuman, AskAgain, NewRun
  <2>2. Request1.kind \notin Physical
    BY <2>1 DEF Ready, Physical
  <2> QED BY <1>3, <2>1, <2>2
<1>7. ASSUME NEW result \in Written, NEW reached \in BOOLEAN, Finish(result, reached)
      PROVE  ToldWell
  <2>1. PICK e : e = [id |-> busy.id, body |-> busy.body]
    OBVIOUS
  <2>2. reached => line' = Append(line, e)
    BY <1>7, <2>1 DEF Finish
  <2>3. reached => \E i \in DOMAIN line' : line'[i] = e
    <3>1. line \in Seq([id : Ids, body : Bodies])
      BY DEF TypeOK
    <3> QED BY ONLY <2>2, <3>1, Appended
  <2>4. busy \in Request /\ Answer({[request |-> busy, result |-> result]})
    BY <1>7 DEF Finish, TypeOK, Request
  <2>5. result = "accepted" => reached
    BY <1>7 DEF Finish
  <2> QED BY <2>1, <2>3, <2>4, <2>5, OneAnswer
<1>8. ASSUME NEW reached \in BOOLEAN, Stop(reached) PROVE ToldWell
  <2>1. PICK given : given = {[request |-> r, result |-> DroppedReply(r)] :
                r \in {commands[i] : i \in DOMAIN commands} \cup ({busy} \ {None})}
    OBVIOUS
  <2>2. Answer(given)
    BY <1>8, <2>1 DEF Stop
  <2>3. \A g \in given : g.request \in Request /\ g.result # "accepted"
    BY <2>1, Members DEF TypeOK, Request, DroppedReply
  <2> QED BY <2>2, <2>3, AnswerConfirms, AnswerWarns, RequestFields DEF ToldWell
<1>9. CASE \E c \in Clients : Connect(c) \/ Lose(c)
  BY <1>1, <1>9 DEF Connect, Lose
<1>10. CASE (\E result \in {"granted", "cancelled"} : Decide(result)) \/ (\E c \in Clients : Handover(link[c]))
  BY <1>1, <1>10 DEF Decide, Handover
<1>11. CASE (\E actor \in gone : Disconnect(actor)) \/ Reopen \/ Execute
  BY <1>1, <1>11 DEF Disconnect, Reopen, Execute
<1>12. CASE \E c \in Clients, id \in Ids, body \in Bodies :
                SendHumanInput(c, id, body) \/ SendUnderLease(c, id, body)
  <2>1. PICK c \in Clients, id \in Ids, body \in Bodies :
            SendHumanInput(c, id, body) \/ SendUnderLease(c, id, body)
    BY <1>12
  <2>2. Dispatch(c, "human", id, body) \in Request /\ Dispatch(c, "write", id, body) \in Request
    BY <2>1 DEF SendHumanInput, SendUnderLease, Dispatch, TypeOK, Request, WriteRequest, Physical
  <2> QED BY <1>2, <2>1, <2>2 DEF SendHumanInput, SendUnderLease
<1>13. CASE \E c \in Clients, id \in RunIds, body \in Bodies : RequestRunStart(c, id, body)
  <2>1. PICK c \in Clients, id \in RunIds, body \in Bodies : RequestRunStart(c, id, body)
    BY <1>13
  <2>2. Dispatch(c, "run", id, body) \in Request
    BY <2>1 DEF RequestRunStart, Dispatch, TypeOK, Request, RunRequest
  <2> QED BY <1>2, <2>1, <2>2 DEF RequestRunStart
<1>14. CASE UNCHANGED vars
  BY <1>1, <1>14
<1> QED BY <1>4, <1>5, <1>6, <1>7, <1>8, <1>9, <1>10, <1>11, <1>12, <1>13, <1>14 DEF Next

\* What a client was told of as accepted is on the wire.
LEMMA StepConfirmed ==
    ASSUME Invariant, [Next]_vars
    PROVE  AcceptedWasWritten'
BY StepTold, LineGrows DEF Invariant, AcceptedWasWritten, ToldWell

\* Whatever goes out, the client is told or must assume so.
LEMMA StepWarned ==
    ASSUME Invariant, [Next]_vars
    PROVE  RefusedWasNotWritten'
<1> USE DEF Invariant, RefusedWasNotWritten
<1>1. warned \subseteq warned'
  BY StepTold DEF ToldWell
<1>2. ASSUME busy.id \in warned', line' = line \/ line' = Append(line, [id |-> busy.id, body |-> busy.body])
      PROVE  RefusedWasNotWritten'
  <2>1. PICK e : e = [id |-> busy.id, body |-> busy.body]
    OBVIOUS
  <2>2. e.id = busy.id /\ line \in Seq([id : Ids, body : Bodies]) /\ (line' = line \/ line' = Append(line, e))
    BY <1>2, <2>1 DEF TypeOK
  <2>3. \A i \in DOMAIN line' : (i \in DOMAIN line /\ line'[i] = line[i]) \/ line'[i] = e
    BY <2>2
  <2> QED BY <1>1, <1>2, <2>2, <2>3
<1>3. CASE line' = line
  BY <1>1, <1>3
<1>4. ASSUME NEW result \in Written, NEW reached \in BOOLEAN, Finish(result, reached)
      PROVE  RefusedWasNotWritten'
  <2>1. PICK given : given = {[request |-> busy, result |-> result]}
    OBVIOUS
  <2>2. Answer(given) /\ busy \in WriteRequest
    BY <1>4, <2>1 DEF Finish, TypeOK
  <2>3. result \notin Refused
    BY DEF Written, Refused
  <2>4. busy.id \in warned'
    <3>1. PICK g \in given : g.request = busy /\ g.result = result
      BY <2>1
    <3> QED BY <2>2, <2>3, <3>1, AnswerWarns DEF WriteRequest
  <2> QED BY <1>2, <1>4, <2>4 DEF Finish
<1>5. ASSUME NEW reached \in BOOLEAN, Stop(reached), busy # None PROVE RefusedWasNotWritten'
  <2>1. PICK given : given = {[request |-> r, result |-> DroppedReply(r)] :
                r \in {commands[i] : i \in DOMAIN commands} \cup ({busy} \ {None})}
    OBVIOUS
  <2>2. Answer(given) /\ busy \in WriteRequest
    BY <1>5, <2>1 DEF Stop, TypeOK
  <2>3. [request |-> busy, result |-> DroppedReply(busy)] \in given
    BY <1>5, <2>1
  <2>4. busy.kind \in Physical /\ DroppedReply(busy) \notin Refused
    BY <2>2 DEF WriteRequest, DroppedReply, Refused
  <2>5. busy.id \in warned'
    BY <2>2, <2>3, <2>4, AnswerWarns
  <2> QED BY <1>2, <1>5, <2>5 DEF Stop
<1>6. CASE \E reached \in BOOLEAN : Stop(reached)
  BY <1>3, <1>5, <1>6 DEF Stop
<1> QED BY <1>3, <1>4, <1>6, StepKinds DEF Execute

\* Once a request that waited has its outcome no cached answer says pending.
LEMMA NonePending ==
    ASSUME Invariant, approval # None, NEW result \in Results, result # "pending",
           runs' = RunStartTerminal(runs, approval, result)
    PROVE  \A i \in DOMAIN runs' : runs'[i].result # "pending"
<1>1. approval \in RunRequest /\ runs \in Seq(RunEntry) /\ Len(runs) <= Entries
  BY DEF Invariant, TypeOK
<1>2. \A i \in DOMAIN runs' :
          \/ runs'[i].result = result
          \/ /\ \E j \in DOMAIN runs : runs'[i] = runs[j]
             /\ ~(runs'[i].key = RunKey(approval) /\ runs'[i].fingerprint = Fingerprint(approval))
  BY ONLY <1>1, result \in Results, runs' = RunStartTerminal(runs, approval, result), TerminalReplaces
<1> QED BY <1>2 DEF Invariant, PendingKnown

\* A new request is cached with its own answer.
LEMMA NewPending ==
    ASSUME Invariant, NEW result \in Results, NewRun(result),
           approval # None => approval' = approval,
           result = "pending" => /\ approval' # None /\ RunKey(approval') = RunKey(Request1)
                                 /\ Fingerprint(approval') = Fingerprint(Request1)
    PROVE  PendingKnown'
<1>1. Request1 \in RunRequest
  <2>1. Request1 \in Request /\ Request1.kind = "run"
    BY Members DEF NewRun, Ready, Request1, Invariant, TypeOK
  <2> QED BY <2>1, RequestFields DEF Physical
<1>2. PICK key, fingerprint : key = RunKey(Request1) /\ fingerprint = Fingerprint(Request1)
  OBVIOUS
<1>3. [key |-> key, fingerprint |-> fingerprint, result |-> result] \in RunEntry
  BY <1>1, <1>2 DEF RunRequest, RunKey, Fingerprint, RunEntry
<1>4. runs \in Seq(RunEntry) /\ Len(runs) <= Entries
  BY DEF Invariant, TypeOK
<1>5. runs' = CacheResult(runs, key, fingerprint, result)
  BY <1>2 DEF NewRun
<1>6. \A i \in DOMAIN runs' :
          \/ \E j \in DOMAIN runs : runs'[i] = runs[j]
          \/ runs'[i] = [key |-> key, fingerprint |-> fingerprint, result |-> result]
  BY ONLY <1>3, <1>4, <1>5, CacheAdds
<1>7. ASSUME NEW i \in DOMAIN runs', runs'[i].result = "pending"
      PROVE  /\ approval' # None
             /\ RunKey(approval') = runs'[i].key /\ Fingerprint(approval') = runs'[i].fingerprint
  <2>1. CASE \E j \in DOMAIN runs : runs'[i] = runs[j]
    BY <1>7, <2>1 DEF Invariant, PendingKnown
  <2>2. CASE runs'[i] = [key |-> key, fingerprint |-> fingerprint, result |-> result]
    BY <1>2, <1>7, <2>2
  <2> QED BY <1>6, <2>1, <2>2
<1>8. \A i \in DOMAIN runs' : runs'[i].result = "pending" =>
          /\ approval' # None
          /\ RunKey(approval)' = runs'[i].key /\ Fingerprint(approval)' = runs'[i].fingerprint
  BY <1>7 DEF RunKey, Fingerprint
<1> QED BY <1>8 DEF PendingKnown

\* No cached answer says pending of a request that no longer waits.
LEMMA StepPending ==
    ASSUME Invariant, [Next]_vars
    PROVE  PendingKnown'
<1> USE DEF links, told, authority, vars
<1>0. "granted" \in Results /\ "cancelled" \in Results /\ "pending" \in Results
      /\ "offline" \in Results /\ "unauthorized" \in Results /\ "reused" \in Results
  BY DEF Results, RunResults
<1>1. CASE UNCHANGED <<runs, approval>>
  BY <1>1 DEF Invariant, PendingKnown, RunKey, Fingerprint
<1>2. CASE GrantRun
  BY <1>0, <1>2, NewPending DEF GrantRun
<1>3. CASE AskHuman
  <2>1. CASE IsHuman(owner)
    <3>1. NewRun("pending") /\ approval' = Request1 /\ approval = None
      BY <1>3, <2>1 DEF AskHuman
    <3>2. Request1 # None
      BY <3>1, Members, RequestFields DEF NewRun, Ready, Request1, Invariant, TypeOK
    <3> QED BY <1>0, <3>1, <3>2, NewPending
  <2>2. CASE ~IsHuman(owner)
    <3>1. NewRun("offline") /\ approval' = approval
      BY <1>3, <2>2 DEF AskHuman
    <3> QED BY <1>0, <3>1, NewPending
  <2> QED BY <2>1, <2>2
<1>4. CASE AskAgain
  <2>1. PICK result : /\ NewRun(result)
                      /\ result = IF RunKey(approval) # RunKey(Request1) THEN "unauthorized"
                                  ELSE IF Fingerprint(approval) = Fingerprint(Request1) THEN "pending" ELSE "reused"
    BY <1>4 DEF AskAgain
  <2>2. approval' = approval /\ approval # None
    BY <1>4 DEF AskAgain
  <2>3. result \in Results
    BY <1>0, <2>1
  <2>4. result = "pending" => RunKey(approval) = RunKey(Request1) /\ Fingerprint(approval) = Fingerprint(Request1)
    BY <2>1
  <2> QED BY <2>1, <2>2, <2>3, <2>4, NewPending
<1>5. ASSUME NEW result \in {"granted", "cancelled"}, Decide(result) PROVE PendingKnown'
  BY <1>0, <1>5, NonePending DEF Decide, PendingKnown
<1>6. ASSUME NEW c \in Clients, Handover(link[c]) PROVE PendingKnown'
  <2>1. CASE approval = None
    BY <1>6, <2>1 DEF Handover, Invariant, PendingKnown
  <2>2. CASE approval # None
    BY <1>0, <1>6, <2>2, NonePending DEF Handover, PendingKnown
  <2> QED BY <2>1, <2>2
<1>7. ASSUME NEW actor \in gone, Disconnect(actor) PROVE PendingKnown'
  <2>1. CASE approval # None /\ actor \in {approval.actor, owner}
    BY <1>0, <1>7, <2>1, NonePending DEF Disconnect, PendingKnown
  <2>2. CASE ~(approval # None /\ actor \in {approval.actor, owner})
    BY <1>1, <1>7, <2>2 DEF Disconnect
  <2> QED BY <2>1, <2>2
<1>8. CASE \E c \in Clients : Connect(c) \/ Lose(c)
  BY <1>1, <1>8 DEF Connect, Lose
<1>9. CASE \E r : Submit(r)
  BY <1>1, <1>9 DEF Submit
<1>10. CASE Invalid \/ Unauthorized \/ Replay \/ Refuse \/ Execute \/ ReplayRun \/ Reopen
  BY <1>1, <1>10 DEF Invalid, Unauthorized, Replay, Refuse, Execute, ReplayRun, Reopen
<1>11. CASE \E result \in Written, reached \in BOOLEAN : Finish(result, reached)
  BY <1>1, <1>11 DEF Finish
<1>12. CASE \E reached \in BOOLEAN : Stop(reached)
  BY <1>1, <1>12 DEF Stop
<1>13. CASE UNCHANGED vars
  BY <1>1, <1>13
<1> QED BY <1>2, <1>3, <1>4, <1>5, <1>6, <1>7, <1>8, <1>9, <1>10, <1>11, <1>12, <1>13
       DEF Next, SendHumanInput, SendUnderLease, RequestRunStart

\* The caches and what waits keep their types.
RunsTyped ==
    /\ approval \in RunRequest \cup {None} /\ owner \in Actors \cup {None}
    /\ runs \in Seq(RunEntry) /\ Len(runs) <= Entries

\* The outcome of the waiting request leaves them as they should be.
LEMMA TerminalTyped ==
    ASSUME TypeOK, approval # None, NEW result \in Results, runs' = RunStartTerminal(runs, approval, result)
    PROVE  runs' \in Seq(RunEntry) /\ Len(runs') <= Entries
<1>1. approval \in RunRequest /\ runs \in Seq(RunEntry) /\ Len(runs) <= Entries
  BY DEF TypeOK
<1> QED BY ONLY <1>1, result \in Results, runs' = RunStartTerminal(runs, approval, result), TerminalReplaces

\* So does a new request.
LEMMA NewTyped ==
    ASSUME TypeOK, NEW result \in Results, NewRun(result)
    PROVE  runs' \in Seq(RunEntry) /\ Len(runs') <= Entries /\ Request1 \in RunRequest
<1>1. Request1 \in RunRequest
  <2>1. Request1 \in Request /\ Request1.kind = "run"
    BY Members DEF NewRun, Ready, Request1, TypeOK
  <2> QED BY <2>1, RequestFields DEF Physical
<1>2. PICK key, fingerprint : key = RunKey(Request1) /\ fingerprint = Fingerprint(Request1)
  OBVIOUS
<1>3. [key |-> key, fingerprint |-> fingerprint, result |-> result] \in RunEntry
  BY <1>1, <1>2 DEF RunRequest, RunKey, Fingerprint, RunEntry
<1>4. runs \in Seq(RunEntry) /\ Len(runs) <= Entries
  BY DEF TypeOK
<1>5. runs' = CacheResult(runs, key, fingerprint, result)
  BY <1>2 DEF NewRun
<1>6. runs' \in Seq(RunEntry) /\ Len(runs') <= Entries
  BY ONLY <1>3, <1>4, <1>5, CacheAdds
<1> QED BY <1>1, <1>6

\* Run starts and control.
LEMMA StepRunsTyped ==
    ASSUME TypeOK, [Next]_vars
    PROVE  RunsTyped'
<1> USE DEF links, told, authority, vars, RunsTyped
<1>0. {"granted", "cancelled", "pending", "offline", "unauthorized", "reused"} \subseteq Results
  BY DEF Results, RunResults
<1>1. CASE UNCHANGED <<runs, approval, owner>>
  BY <1>1 DEF TypeOK
<1>2. ASSUME Ready({"run"}) \/ Ready(Physical) PROVE Request1 \in Request /\ Request1.actor \in Actors
  BY <1>2, Members, RequestFields DEF Ready, Request1, TypeOK
<1>3. CASE GrantRun
  BY <1>0, <1>2, <1>3, NewTyped DEF GrantRun, NewRun, TypeOK
<1>4. CASE AskHuman
  BY <1>0, <1>4, NewTyped DEF AskHuman, TypeOK
<1>5. CASE AskAgain
  <2>1. PICK result \in Results : NewRun(result)
    BY <1>0, <1>5 DEF AskAgain
  <2> QED BY <1>5, <2>1, NewTyped DEF AskAgain, TypeOK
<1>6. ASSUME NEW result \in {"granted", "cancelled"}, Decide(result) PROVE RunsTyped'
  <2>1. approval \in RunRequest
    BY <1>6 DEF Decide, TypeOK
  <2>2. approval.actor \in Actors
    BY <2>1 DEF RunRequest
  <2> QED BY <1>0, <1>6, <2>2, TerminalTyped DEF Decide, TypeOK
<1>7. ASSUME NEW c \in Clients, Handover(link[c]) PROVE RunsTyped'
  <2>1. link[c] \in Actors \cup {None}
    BY DEF TypeOK
  <2>2. runs' \in Seq(RunEntry) /\ Len(runs') <= Entries
    BY <1>0, <1>7, TerminalTyped DEF Handover, TypeOK
  <2> QED BY <1>7, <2>1, <2>2 DEF Handover
<1>8. ASSUME NEW actor \in gone, Disconnect(actor) PROVE RunsTyped'
  <2>1. runs' \in Seq(RunEntry) /\ Len(runs') <= Entries
    BY <1>0, <1>8, TerminalTyped DEF Disconnect, TypeOK
  <2> QED BY <1>8, <2>1 DEF Disconnect, TypeOK
<1>9. CASE Execute
  BY <1>2, <1>9 DEF Execute, TypeOK
<1>10. CASE (\E c \in Clients : Connect(c) \/ Lose(c)) \/ (\E r : Submit(r))
  BY <1>1, <1>10 DEF Connect, Lose, Submit
<1>11. CASE Invalid \/ Unauthorized \/ Replay \/ Refuse \/ ReplayRun \/ Reopen
  BY <1>1, <1>11 DEF Invalid, Unauthorized, Replay, Refuse, ReplayRun, Reopen
<1>12. CASE (\E result \in Written, reached \in BOOLEAN : Finish(result, reached)) \/ (\E reached \in BOOLEAN : Stop(reached))
  BY <1>1, <1>12 DEF Finish, Stop
<1>13. CASE UNCHANGED vars
  BY <1>1, <1>13
<1> QED BY <1>3, <1>4, <1>5, <1>6, <1>7, <1>8, <1>9, <1>10, <1>11, <1>12, <1>13
       DEF Next, SendHumanInput, SendUnderLease, RequestRunStart

\* The connections, the queue and the bounds on what is sent.
LinksTyped ==
    /\ link \in [Clients -> Actors \cup {None}] /\ gone \subseteq Actors
    /\ made \in 0..MaxConnects /\ sends \in 0..MaxSends
    /\ up \in BOOLEAN /\ generation \in {0, 1}
    /\ commands \in Seq(Request) /\ Len(commands) <= Queue

\* They keep their types.
LEMMA StepLinksTyped ==
    ASSUME TypeOK, [Next]_vars
    PROVE  LinksTyped'
<1> USE DEF links, told, authority, vars, LinksTyped
<1>1. CASE UNCHANGED <<link, gone, made, sends, up, generation, commands>>
  BY <1>1 DEF TypeOK
<1>2. ASSUME NEW c \in Clients, Connect(c) PROVE LinksTyped'
  <2>1. made + 1 \in 1..MaxConnects
    BY <1>2 DEF Connect, TypeOK
  <2>2. <<c, made + 1>> \in Actors
    BY <2>1 DEF Actors
  <2> QED BY <1>2, <2>1, <2>2 DEF Connect, TypeOK
<1>3. ASSUME NEW c \in Clients, Lose(c) PROVE LinksTyped'
  BY <1>3 DEF Lose, TypeOK
<1>4. ASSUME NEW r \in Request, Submit(r) PROVE LinksTyped'
  <2>1. CASE up
    <3>1. commands \in Seq(Request) /\ Len(commands) < Queue /\ commands' = Append(commands, r)
      BY <1>4, <2>1 DEF Submit, TypeOK
    <3>2. commands' \in Seq(Request) /\ Len(commands') <= Queue
      BY <3>1
    <3> QED BY <1>4, <3>2 DEF Submit, TypeOK
  <2>2. CASE ~up
    BY <1>4, <2>2 DEF Submit, TypeOK
  <2> QED BY <2>1, <2>2
<1>5. ASSUME commands # <<>>, commands' = Tail(commands), UNCHANGED <<links, up, generation, sends>> PROVE LinksTyped'
  BY <1>5 DEF TypeOK
<1>6. CASE Invalid \/ Unauthorized \/ Replay \/ Refuse \/ ReplayRun
  BY <1>5, <1>6 DEF Invalid, Unauthorized, Replay, Refuse, ReplayRun, Settle, Ready
<1>7. CASE Execute
  BY <1>5, <1>7 DEF Execute, Ready
<1>8. CASE GrantRun \/ AskHuman \/ AskAgain
  BY <1>5, <1>8 DEF GrantRun, AskHuman, AskAgain, NewRun, Settle, Ready
<1>9. CASE (\E result \in {"granted", "cancelled"} : Decide(result)) \/ (\E c \in Clients : Handover(link[c]))
  BY <1>1, <1>9 DEF Decide, Handover
<1>10. CASE (\E actor \in gone : Disconnect(actor)) \/ Reopen
  BY <1>10 DEF Disconnect, Reopen, TypeOK
<1>11. CASE \E result \in Written, reached \in BOOLEAN : Finish(result, reached)
  BY <1>1, <1>11 DEF Finish
<1>12. CASE \E reached \in BOOLEAN : Stop(reached)
  <2>1. PICK none : none = <<>>
    OBVIOUS
  <2>2. none \in Seq(Request) /\ Len(none) <= Queue
    BY <2>1
  <2>3. commands' = none /\ UNCHANGED <<link, gone, made, sends, generation>> /\ up' = FALSE
    BY <1>12, <2>1 DEF Stop
  <2> QED BY <2>2, <2>3 DEF TypeOK
<1>13. CASE UNCHANGED vars
  BY <1>1, <1>13
<1>14. CASE \E c \in Clients, id \in Ids, body \in Bodies :
                SendHumanInput(c, id, body) \/ SendUnderLease(c, id, body)
  <2>1. PICK c \in Clients, id \in Ids, body \in Bodies :
            SendHumanInput(c, id, body) \/ SendUnderLease(c, id, body)
    BY <1>14
  <2>2. Dispatch(c, "human", id, body) \in Request /\ Dispatch(c, "write", id, body) \in Request
    BY <2>1 DEF SendHumanInput, SendUnderLease, Dispatch, TypeOK, Request, WriteRequest, Physical
  <2> QED BY <1>4, <2>1, <2>2 DEF SendHumanInput, SendUnderLease
<1>15. CASE \E c \in Clients, id \in RunIds, body \in Bodies : RequestRunStart(c, id, body)
  <2>1. PICK c \in Clients, id \in RunIds, body \in Bodies : RequestRunStart(c, id, body)
    BY <1>15
  <2>2. Dispatch(c, "run", id, body) \in Request
    BY <2>1 DEF RequestRunStart, Dispatch, TypeOK, Request, RunRequest
  <2> QED BY <1>4, <2>1, <2>2 DEF RequestRunStart
<1> QED BY <1>2, <1>3, <1>6, <1>7, <1>8, <1>9, <1>10, <1>11, <1>12, <1>13, <1>14, <1>15 DEF Next

\* What the writer has, the wire, the memory of results and what clients were told.
WriteTyped ==
    /\ busy \in WriteRequest \cup {None}
    /\ line \in Seq([id : Ids, body : Bodies])
    /\ results \in Seq(WriteEntry) /\ Len(results) <= Entries
    /\ executed \subseteq Ids /\ Cardinality(executed) <= History
    /\ confirmed \subseteq [id : Ids, body : Bodies] /\ warned \subseteq Ids

\* They keep their types; the writer's command had room in the history.
LEMMA StepWriteTyped ==
    ASSUME Invariant, [Next]_vars
    PROVE  WriteTyped'
<1> USE DEF Invariant
<1>1. line' \in Seq([id : Ids, body : Bodies])
  <2>1. ASSUME busy # None PROVE Append(line, [id |-> busy.id, body |-> busy.body]) \in Seq([id : Ids, body : Bodies])
    <3>1. PICK e \in [id : Ids, body : Bodies] : e = [id |-> busy.id, body |-> busy.body]
      BY <2>1 DEF TypeOK, WriteRequest
    <3>2. Append(line, e) \in Seq([id : Ids, body : Bodies])
      BY DEF TypeOK
    <3> QED BY <3>1, <3>2
  <2>2. line' = line \/ (busy # None /\ line' = Append(line, [id |-> busy.id, body |-> busy.body]))
    BY StepKinds DEF Finish, Stop, Execute
  <2> QED BY <2>1, <2>2 DEF TypeOK
<1>2. confirmed' \subseteq [id : Ids, body : Bodies]
  <2>1. ASSUME NEW i \in DOMAIN line' PROVE line'[i] \in [id : Ids, body : Bodies]
    BY <1>1, Members
  <2> QED BY <2>1, StepTold DEF ToldWell, TypeOK
<1>3. warned' \subseteq Ids
  BY StepTold DEF ToldWell, TypeOK
<1>4. busy' \in WriteRequest \cup {None}
  <2>1. CASE Execute
    <3>1. Request1 \in Request /\ Request1.kind \in Physical
      BY <2>1, Members DEF Execute, Ready, Request1, TypeOK
    <3> QED BY <2>1, <3>1, RequestFields DEF Execute
  <2> QED BY <2>1, StepKinds DEF Finish, Stop, TypeOK
<1>5. CASE UNCHANGED <<results, executed>>
  BY <1>1, <1>2, <1>3, <1>4, <1>5 DEF WriteTyped, TypeOK
<1>6. ASSUME NEW result \in Written, NEW reached \in BOOLEAN, Finish(result, reached)
      PROVE  WriteTyped'
  <2>1. /\ busy \in WriteRequest /\ results' = CacheResult(results, busy.id, busy.body, result)
        /\ executed' = executed \cup {busy.id}
    BY <1>6 DEF Finish, IsCacheable, CacheWriteResult, WriteFingerprint, TypeOK
  <2>2. PICK key, fingerprint : key = busy.id /\ fingerprint = busy.body
    OBVIOUS
  <2>3. [key |-> key, fingerprint |-> fingerprint, result |-> result] \in WriteEntry
    BY <2>1, <2>2 DEF WriteRequest, WriteEntry, Results
  <2>4. results \in Seq(WriteEntry) /\ Len(results) <= Entries /\ results' = CacheResult(results, key, fingerprint, result)
    BY <2>1, <2>2 DEF TypeOK
  <2>5. results' \in Seq(WriteEntry) /\ Len(results') <= Entries
    BY ONLY <2>3, <2>4, CacheAdds
  <2>6. /\ IsFiniteSet(executed) /\ busy.id \notin executed /\ Cardinality(executed) < History
        /\ busy.id \in Ids
    BY <1>6, <2>1 DEF Finish, BusyUnrecorded, WriteRequest
  <2>7. Cardinality(executed') = Cardinality(executed) + 1 /\ Cardinality(executed) \in Nat
    BY <2>1, <2>6, FS_AddElement, FS_CardinalityType
  <2>8. Cardinality(executed') <= History
    BY <2>6, <2>7
  <2> QED BY <1>1, <1>2, <1>3, <1>4, <2>1, <2>5, <2>6, <2>8 DEF WriteTyped, TypeOK
<1>7. CASE Execute \/ \E reached \in BOOLEAN : Stop(reached)
  BY <1>5, <1>7 DEF Execute, Stop
<1> QED BY <1>5, <1>6, <1>7, StepKinds

-----------------------------------------------------------------------------
(* Requests: the theorems *)

\* At first nothing is asked, written or remembered.
LEMMA InvariantInit == Init => Invariant
<1> SUFFICES ASSUME Init PROVE Invariant
  OBVIOUS
<1> USE DEF Init
<1>1. PICK none : none = <<>>
  OBVIOUS
<1>2. \A S : none \in Seq(S) /\ Len(none) = 0 /\ DOMAIN none = {}
  BY <1>1
<1>3. commands = none /\ line = none /\ results = none /\ runs = none
  BY <1>1
<1>4. IsFiniteSet(executed) /\ Cardinality(executed) = 0
  BY FS_EmptySet
<1>5. TypeOK
  BY <1>2, <1>3, <1>4 DEF TypeOK
<1>6. BusyUnrecorded /\ LineRemembered /\ CacheTrue /\ PendingKnown
  BY <1>2, <1>3, <1>4 DEF BusyUnrecorded, LineRemembered, CacheTrue, PendingKnown
<1>7. WrittenOnce /\ AcceptedWasWritten /\ RefusedWasNotWritten
  BY <1>2, <1>3 DEF WrittenOnce, AcceptedWasWritten, RefusedWasNotWritten
<1> QED BY <1>5, <1>6, <1>7 DEF Invariant

\* Every step keeps it.
LEMMA InvariantStep == Invariant /\ [Next]_vars => Invariant'
<1> SUFFICES ASSUME Invariant, [Next]_vars PROVE Invariant'
  OBVIOUS
<1>1. TypeOK'
  BY StepLinksTyped, StepRunsTyped, StepWriteTyped DEF Invariant, TypeOK, LinksTyped, RunsTyped, WriteTyped
<1> QED BY <1>1, StepBusy, StepCache, StepPending, StepWritten, StepConfirmed, StepWarned DEF Invariant

\* The whole invariant holds for ever, however often connections are lost and requests
\* repeated.
THEOREM RequestsInvariant == Spec => []Invariant
BY InvariantInit, InvariantStep, PTL DEF Spec

\* The queue, the caches and the history keep their types and bounds (SlotHandle::request,
\* cache_result and was_executed_or_reserveable).
THEOREM RequestsTypeCorrect == Spec => []TypeOK
<1>1. Invariant => TypeOK
  BY DEF Invariant
<1> QED BY <1>1, RequestsInvariant, PTL

\* However often a request is retried its bytes go out at most once (idempotent_result,
\* cache_write_result and executed_write_ids in slot.rs).
THEOREM RequestsWrittenOnce == Spec => []WrittenOnce
<1>1. Invariant => WrittenOnce
  BY DEF Invariant
<1> QED BY <1>1, RequestsInvariant, PTL

\* A client that is told its bytes went out asked for what is on the wire, one that heard
\* nothing but refusals has nothing there, and no cached answer calls a Run start pending
\* that no longer is (map_physical_request_error and cache_run_start_terminal in slot.rs).
THEOREM RequestsAnswersTruthful == Spec => []AnswersTruthful
<1>1. Invariant => AnswersTruthful
  BY DEF Invariant, AnswersTruthful, PendingKnown, PendingIsPending
<1> QED BY <1>1, RequestsInvariant, PTL

=============================================================================

------------------------------- MODULE Ports -------------------------------
(***************************************************************************)
(* Message passing in the parasol kernel (parasol/src/para_library.c):     *)
(* ports and the messages queued on them, receives with and without a      *)
(* time-out, passing and releasing of ports, port sets with their          *)
(* surrogate tasks, and the buses and links that carry messages.           *)
(*                                                                         *)
(* Every system call is one action: a task calls as soon as it runs, and   *)
(* every task has a cpu of its own node (Scheduler models the cpus).  A    *)
(* task that a message wakes looks at its port again only later.  Time is  *)
(* abstract: a pending time-out or transmission may end at any time.       *)
(*                                                                         *)
(* A definition marked "slip" is what the definition after it becomes      *)
(* under a plausible programming error.                                    *)
(***************************************************************************)
EXTENDS Integers, SequencesExt

CONSTANTS Tasks,        \* user tasks
          Surrogates,   \* entries of the task table for surrogates
          Parent,       \* Parent[t]: the task that created t, or None
          PortIds,      \* entries of the port table
          Std,          \* Std[t]: the standard port of t
          Worlds,       \* what the tasks may do
          MaxSent       \* bound: messages ever sent

None == "none"
Media == {"bus", "link"}
Disciplines == {"FIFO", "LIFO", "RAND", "HOL"}
Modes == {"never", "timed", "immediate"}
Calls == {"send", "resend", "broadcast", "transmit", "pass", "allocate", "release",
          "releaseMember", "set", "leave", "receive"}

WorldAssumption(w) ==
  /\ w.calls \in [Tasks -> SUBSET Calls] /\ w.ports \subseteq PortIds /\ w.disciplines \subseteq Disciplines /\ w.modes \subseteq Modes
  /\ w.priorities \subseteq Nat /\ w.priorities # {}
  /\ w.from \in [Media -> SUBSET Tasks] /\ w.to \in [Media -> SUBSET Tasks] /\ w.random \in BOOLEAN

ASSUME PortsAssumption ==
  /\ \A w \in Worlds : WorldAssumption(w)
  /\ Parent \in [Tasks -> Tasks \cup {None}] /\ Std \in [Tasks -> PortIds] /\ IsInjective(Std)
  /\ IsFiniteSet(Tasks) /\ Tasks \cap Surrogates = {} /\ None \notin Tasks \cup Surrogates \cup PortIds
  /\ PortIds \cap Media = {} /\ \A t \in Tasks : Parent[t] # t
  /\ MaxSent \in Nat

VARIABLES world,        \* what the tasks may do
          k             \* the state of the kernel
vars == <<world, k>>

All == Tasks \cup Surrogates

\* The kernel's state is a record of, for every task t,
\*   at[t]      is it running, receiving (blocked), awake (from a receive) or free?
\*   rec[t]     the receive it is in, or was last in
\*   rtoep[t]   is a receive time-out due?     got[t]  what its last receive returned
\* for every surrogate g, target[g], the port set it forwards to; for every port p
\*   state[p]   "free", "used" or "set"        owner[p]  its owner
\*   queue[p]   its messages                   pairs[p]  members of a set: task and port
\* and media[m], the messages on a bus or link, the first being transmitted; sent,
\* the last message id; received and lost, histories of message ids; abort.
NoReceive == [port |-> None, discipline |-> "FIFO", mode |-> "never"]
Message(id, kind, p, pri) == [mid |-> id, kind |-> kind, org |-> p, pri |-> pri]
Messages == [mid : 0..MaxSent, kind : {"message", "timeout"}, org : PortIds, pri : world.priorities \cup {0}]

Init ==
  /\ world \in Worlds
  /\ k = [at |-> [t \in All |-> IF t \in Tasks THEN "running" ELSE "free"],
          rec |-> [t \in All |-> NoReceive], rtoep |-> [t \in All |-> FALSE],
          got |-> [t \in All |-> "nothing"], target |-> [g \in Surrogates |-> None],
          state |-> [p \in PortIds |-> IF p \in Range(Std) THEN "used" ELSE "free"],
          owner |-> [p \in PortIds |-> IF p \in Range(Std) THEN Inverse(Std, Tasks, PortIds)[p] ELSE None],
          queue |-> [p \in PortIds |-> <<>>], pairs |-> [p \in PortIds |-> {}],
          media |-> [m \in Media |-> <<>>],
          sent |-> 0, received |-> {}, lost |-> {}, abort |-> None]

-----------------------------------------------------------------------------
\* Queues and wake-ups.

Ids(q) == {q[i].mid : i \in DOMAIN q} \ {0}
Put(f, S, v) == [x \in DOMAIN f |-> IF x \in S THEN v ELSE f[x]]

Waits(s, t, p) == s.at[t] = "receiving" /\ s.rec[t].port = p

StayAsleep(s, T) == s             \* slip
Wake(s, T) == [s EXCEPT !.at = Put(@, T, "awake"), !.rtoep = Put(@, T, FALSE)]

\* The owner of port p is woken if it waits there.
WakeOwner(s, p) == IF Waits(s, s.owner[p], p) THEN Wake(s, {s.owner[p]}) ELSE s

\* The messages q are sent to port p.
Deliver(s, p, q) ==
  CASE q = <<>> -> s
    [] q # <<>> /\ s.owner[p] = None -> [s EXCEPT !.lost = @ \cup Ids(q)]
    [] OTHER -> WakeOwner([s EXCEPT !.queue[p] = @ \o q], p)

Numbered(s) == [s EXCEPT !.sent = @ + 1]

\* The most urgent message: the first with the highest priority above zero.
HighestFirst(q) ==
  LET urgent == {i \in DOMAIN q : q[i].pri > 0}
  IN IF urgent = {} THEN 1
     ELSE CHOOSE i \in urgent : \A j \in urgent : q[j].pri < q[i].pri \/ (q[j].pri = q[i].pri /\ i <= j)

Newest(q, discipline) == {Len(q)}      \* slip
\* The positions a receive may take a message from.
Positions(q, discipline) ==
  CASE discipline = "FIFO" -> {1}
    [] discipline = "LIFO" -> {Len(q)}
    [] discipline = "RAND" -> DOMAIN q
    [] discipline = "HOL" -> {HighestFirst(q)}

Take(s, t, i) ==
  LET p == s.rec[t].port
      m == s.queue[p][i]
  IN [s EXCEPT !.queue[p] = RemoveAt(@, i), !.at[t] = "running", !.rtoep[t] = FALSE,
               !.got[t] = m.kind, !.received = @ \cup Ids(<<m>>)]

-----------------------------------------------------------------------------
\* System calls that send.

Runs(t) == k.abort = None /\ k.at[t] = "running"
May(t, call) == Runs(t) /\ call \in world.calls[t]
Room(n) == k.sent + n <= MaxSent

SendPriority(t, p, pri) ==
  /\ May(t, "send") /\ k.state[p] # "free" /\ Room(1)
  /\ k' = Deliver(Numbered(k), p, <<Message(k.sent + 1, "message", p, pri)>>)

\* ps_resend, port_send, ps_bus_send and ps_link_send do not set the priority: the
\* message has the one its storage was last used with.
Resend(t, p, stale) ==
  /\ May(t, "resend") /\ k.state[p] # "free" /\ Room(1)
  /\ k' = Deliver(Numbered(k), p, <<Message(k.sent + 1, "message", p, stale)>>)

\* ps_broadcast: one message to every other task, in the order of the task table.
Broadcast(t) ==
  LET others == SetToSeq(Tasks \ {t})
      number(p) == k.sent + CHOOSE n \in DOMAIN others : Std[others[n]] = p
  IN /\ May(t, "broadcast") /\ Room(Len(others))
     /\ k' = Wake([k EXCEPT !.sent = @ + Len(others),
                            !.queue = [p \in PortIds |-> IF \E u \in Tasks \ {t} : Std[u] = p
                                                         THEN Append(@[p], Message(number(p), "message", p, 0)) ELSE @[p]]],
                   {u \in Tasks \ {t} : Waits(k, u, Std[u])})

\* ps_bus_send (at random behind the message being transmitted, or last) and
\* ps_link_send.
Sides(q, m) == IF m = "bus" /\ world.random /\ q # <<>> THEN 2..Len(q)+1 ELSE {Len(q) + 1}

Home(s, u) == IF u \in Tasks THEN u ELSE s.owner[s.target[u]]       \* surrogates share its node

Transmit(t, m, p, stale) ==
  /\ May(t, "transmit") /\ k.state[p] # "free" /\ Room(1)
  /\ t \in world.from[m] /\ Home(k, k.owner[p]) \in world.to[m]
  /\ \E i \in Sides(k.media[m], m) :
       k' = [Numbered(k) EXCEPT !.media[m] = InsertAt(@, i, Message(k.sent + 1, "message", p, stale))]

-----------------------------------------------------------------------------
\* Receiving.

WaitOn(s, t) == [s EXCEPT !.at[t] = "receiving"]

TakeOrWait(s, t) ==
  LET q == s.queue[s.rec[t].port]
  IN IF q = <<>> THEN {WaitOn(s, t)} ELSE {Take(s, t, i) : i \in Positions(q, s.rec[t].discipline)}

Receive(t, p, discipline, mode) ==
  LET a == [k EXCEPT !.rec[t] = [port |-> p, discipline |-> discipline, mode |-> mode]]
  IN /\ May(t, "receive") /\ discipline \in world.disciplines /\ mode \in world.modes
     /\ k.state[p] # "free" /\ k.owner[p] = t
     /\ IF k.queue[p] = <<>> /\ mode = "immediate" THEN k' = [a EXCEPT !.got[t] = "timeout"]
        ELSE k' \in TakeOrWait([a EXCEPT !.rtoep[t] = k.queue[p] = <<>> /\ mode = "timed"], t)

\* The rest of port_receive, when the task has a cpu again.
Look(t) ==
  /\ k.abort = None /\ k.at[t] = "awake" /\ t \in Tasks
  /\ IF k.owner[k.rec[t].port] # t THEN k' = [k EXCEPT !.at[t] = "running", !.got[t] = "error"]
                                   ELSE k' \in TakeOrWait(k, t)

\* end_receive_handler: a time-out is a message, sent to the port waited on.
TimeOut(t) ==
  /\ k.abort = None /\ k.rtoep[t]
  /\ LET p == k.rec[t].port
         a == [k EXCEPT !.rtoep[t] = FALSE]
     IN k' = IF k.at[t] # "receiving" THEN [k EXCEPT !.abort = "receive"]
             ELSE Deliver(a, p, <<Message(0, "timeout", p, 0)>>)

-----------------------------------------------------------------------------
\* Passing and releasing ports.

\* The task that created u, those that created it, and so on.
Sire(s, u) == IF u \in Tasks THEN Parent[u] ELSE s.owner[s.target[u]]
Above[u \in Tasks] == IF Parent[u] = None THEN {} ELSE {Parent[u]} \cup Above[Parent[u]]
Ancestor(s, t, u) == t = Home(s, u) \/ t \in Above[Home(s, u)]

Free(s, P) == [s EXCEPT !.state = Put(@, P, "free"), !.queue = Put(@, P, <<>>), !.pairs = Put(@, P, {}),
                        !.owner = Put(@, P, None), !.lost = @ \cup UNION {Ids(s.queue[p]) : p \in P}]

\* ps_kill of the surrogates G that still live: the ports they own go with them.
Killed(s, G) ==
  LET dead == {g \in G : s.at[g] # "free"}
  IN [Free(s, {p \in PortIds : s.owner[p] \in dead}) EXCEPT
        !.at = Put(@, dead, "free"), !.target = Put(@, dead, None), !.rec = Put(@, dead, NoReceive)]

StaysMember(s, old, p) == s       \* slip
\* The surrogate of a member that leaves its set is killed: the set is looked for
\* among those of the parent of the old owner.
Parted(s, old, p) ==
  LET sets == {x \in PortIds : s.state[x] = "set" /\ s.owner[x] = Sire(s, old) /\ \E r \in s.pairs[x] : r.port = p}
      x == CHOOSE x \in sets : TRUE
      r == CHOOSE r \in s.pairs[x] : r.port = p
  IN IF sets = {} THEN s ELSE Killed([s EXCEPT !.pairs[x] = @ \ {r}], {r.task})

SleepsOn(s, old, p) == s         \* slip
WakeOld(s, old, p) == IF Waits(s, old, p) THEN Wake(s, {old}) ELSE s

Passed(s, p, u) ==
  LET old == s.owner[p] IN WakeOld(Parted([s EXCEPT !.owner[p] = u], old, p), old, p)

Pass(t, p, u) ==
  /\ May(t, "pass") /\ k.state[p] = "used" /\ Ancestor(k, t, k.owner[p]) /\ k.at[u] # "free"
  /\ p \notin Range(Std) /\ u # k.owner[p]
  /\ k' = Passed(k, p, u)

Allocate(t, p, kind) ==
  /\ May(t, IF kind = "set" THEN "set" ELSE "allocate") /\ k.state[p] = "free"
  /\ k' = [k EXCEPT !.state[p] = kind, !.owner[p] = t]

\* The messages are lost; the surrogates of a set are killed; a receiver is woken.
Released(s, p) ==
  WakeOld(Free(Killed(s, {r.task : r \in s.pairs[p]}), {p}), s.owner[p], p)

Release(t, p) ==
  /\ May(t, IF k.owner[p] \in Surrogates THEN "releaseMember" ELSE "release")
  /\ k.state[p] # "free" /\ Ancestor(k, t, k.owner[p]) /\ p \notin Range(Std)
  /\ k' = Released(k, p)

-----------------------------------------------------------------------------
\* Port sets: a surrogate owns every member and forwards its messages to the set.

JoinPortSet(t, x, p, g) ==
  /\ May(t, "set") /\ k.state[x] = "set" /\ k.state[p] = "used" /\ p \notin Range(Std)
  /\ k.owner[x] = t /\ k.owner[p] = t /\ k.at[g] = "free"
  /\ k' = Passed([k EXCEPT !.pairs[x] = @ \cup {[task |-> g, port |-> p]}, !.target[g] = x,
                           !.at[g] = "awake", !.rec[g] = [NoReceive EXCEPT !.port = p]], p, g)

\* The elements of q at the places S, in their order.
Part(q, S) == [n \in 1..Cardinality(S) |-> q[CHOOSE i \in S : Cardinality({j \in S : j <= i}) = n]]

\* The port goes back, and with it the messages of the set that came through it,
\* behind those it has.
LeavePortSet(t, x, p) ==
  LET s == IF k.state[p] = "used" /\ Ancestor(k, t, k.owner[p]) THEN Passed(k, p, t) ELSE k
      q == k.queue[x]
      mine == {i \in DOMAIN q : q[i].org = p}
  IN /\ May(t, "leave") /\ k.state[x] = "set" /\ k.owner[x] = t
     /\ \E r \in k.pairs[x] : r.port = p
     /\ k' = Deliver([s EXCEPT !.queue[x] = Part(q, DOMAIN q \ mine)], p, Part(q, mine))

\* The loop of port_set_surrogate, up to its next wait.
Forward(g) ==
  LET p == k.rec[g].port
      x == k.target[g]
      forwarded == [i \in DOMAIN k.queue[p] |-> [k.queue[p][i] EXCEPT !.org = p]]
  IN /\ k.abort = None /\ k.at[g] = "awake" /\ g \in Surrogates
     /\ k' = IF k.owner[p] # g THEN Killed(k, {g})
             ELSE [Deliver([k EXCEPT !.queue[p] = <<>>], x, forwarded) EXCEPT !.at[g] = "receiving"]

-----------------------------------------------------------------------------
\* end_trans_handler.  A message for a port released meanwhile makes it use the task
\* it did not look up; one whose port went to a task elsewhere is dropped.
EndTransmission(m) ==
  LET msg == Head(k.media[m])
      p == msg.org
      a == [k EXCEPT !.media[m] = Tail(@)]
  IN /\ k.abort = None /\ k.media[m] # <<>>
     /\ k' = CASE k.owner[p] = None -> [k EXCEPT !.abort = "transmission"]
               [] k.owner[p] # None /\ Home(k, k.owner[p]) \in world.to[m] -> Deliver(a, p, <<msg>>)
               [] OTHER -> [a EXCEPT !.lost = @ \cup {msg.mid}]

Call(t) ==
  \/ Broadcast(t)
  \/ \E p \in world.ports :
       \/ \E pri \in world.priorities :
            \/ SendPriority(t, p, pri) \/ Resend(t, p, pri)
            \/ \E m \in Media : Transmit(t, m, p, pri)
       \/ \E discipline \in Disciplines, mode \in Modes : Receive(t, p, discipline, mode)
       \/ \E u \in Tasks : Pass(t, p, u)
       \/ Allocate(t, p, "used") \/ Allocate(t, p, "set") \/ Release(t, p)
       \/ \E x \in world.ports : LeavePortSet(t, x, p) \/ \E g \in Surrogates : JoinPortSet(t, x, p, g)

Next ==
  /\ UNCHANGED world
  /\ \/ \E t \in Tasks : Call(t) \/ Look(t) \/ TimeOut(t)
     \/ \E g \in Surrogates : Forward(g)
     \/ \E m \in Media : EndTransmission(m)

Spec == Init /\ [][Next]_vars

\* What is begun ends: a woken task gets a cpu, a due time-out or transmission
\* happens.
FairSpec ==
  /\ Spec
  /\ \A t \in Tasks : WF_vars(Look(t) /\ UNCHANGED world) /\ WF_vars(TimeOut(t) /\ UNCHANGED world)
  /\ \A g \in Surrogates : WF_vars(Forward(g) /\ UNCHANGED world)
  /\ \A m \in Media : WF_vars(EndTransmission(m) /\ UNCHANGED world)

-----------------------------------------------------------------------------
\* The kernel's tables hold indices of tasks, ports and messages.
TypeOK ==
  /\ world \in Worlds /\ k.abort \in {None, "receive", "transmission"}
  /\ k.at \in [All -> {"running", "receiving", "awake", "free"}] /\ k.rtoep \in [All -> BOOLEAN]
  /\ k.rec \in [All -> [port : PortIds \cup {None}, discipline : Disciplines, mode : Modes]]
  /\ k.got \in [All -> {"nothing", "message", "timeout", "error"}]
  /\ k.target \in [Surrogates -> PortIds \cup {None}]
  /\ k.state \in [PortIds -> {"free", "used", "set"}] /\ k.owner \in [PortIds -> All \cup {None}]
  /\ k.queue \in [PortIds -> Seq(Messages)] /\ k.media \in [Media -> Seq(Messages)]
  /\ k.pairs \in [PortIds -> SUBSET [task : Surrogates, port : PortIds]]
  /\ k.sent \in 0..MaxSent /\ k.received \subseteq 1..MaxSent /\ k.lost \subseteq 1..MaxSent

Happens(calls) == \E t \in Tasks : world.calls[t] \cap calls # {}

OwnersLive == \A p \in PortIds : IF k.state[p] = "free" THEN k.owner[p] = None /\ k.queue[p] = <<>>
                                 ELSE k.owner[p] \in All /\ k.at[k.owner[p]] # "free"

\* A member of a port set is owned by the live surrogate of its pair, which forwards
\* to that set, unless a member may be released under its surrogate.
MembersServed ==
  ~Happens({"releaseMember"}) =>
    \A x \in PortIds : \A r \in k.pairs[x] :
      k.state[x] = "set" /\ k.owner[r.port] = r.task /\ k.target[r.task] = x /\ k.rec[r.task].port = r.port

\* The tables agree: ports have live owners, the members of sets their surrogates.
Consistent == TypeOK /\ OwnersLive /\ MembersServed

\* A task blocked in a receive owns the port it waits on, and the port is empty:
\* whatever sent, passed or released the port has woken it.
NoLostWakeup ==
  \A t \in All : k.at[t] = "receiving" => /\ k.owner[k.rec[t].port] = t
                                          /\ k.queue[k.rec[t].port] = <<>>

Copies(i) == {p \in PortIds : i \in Ids(k.queue[p])} \cup {m \in Media : i \in Ids(k.media[m])}
Distinct(q) == \A i, j \in DOMAIN q : q[i].mid = q[j].mid /\ q[i].mid # 0 => i = j

\* Every message sent is queued or in transmission once, or was received once, or
\* was lost with its port; none is lost while no port is released and every task
\* is on the medium, even when ports are passed and join and leave sets.
EachOnce ==
  /\ \A i \in 1..k.sent : \/ i \notin k.received \cup k.lost /\ \E a \in Copies(i) : Copies(i) = {a}
                          \/ i \in k.received /\ i \notin k.lost /\ Copies(i) = {}
                          \/ i \in k.lost /\ i \notin k.received /\ Copies(i) = {}
  /\ \A p \in PortIds : Distinct(k.queue[p])
  /\ \A m \in Media : Distinct(k.media[m])
  /\ ~Happens({"release", "releaseMember", "transmit"}) => k.lost = {}

\* Only a receive with a time-out returns one.
NeverTimesOut ==
  \A t \in Tasks : k.at[t] = "running" /\ k.got[t] = "timeout" => k.rec[t].mode # "never"

\* The same while messages are received first in, first out, and no port changes
\* hands before its receiver looks at it; and a transmission ends at a task, unless
\* ports are released meanwhile.
Punctual ==
  /\ k.abort = "transmission" => Happens({"transmit"}) /\ Happens({"release", "releaseMember"})
  /\ k.abort # "receive"
  /\ world.disciplines = {"FIFO"} /\ ~Happens({"pass", "releaseMember"}) => NeverTimesOut

Older(m, n) == m.mid # 0 /\ n.mid # 0 => m.mid < n.mid
InOrder(q, p) == \A i, j \in DOMAIN q : i < j /\ q[i].org = p /\ q[j].org = p => Older(q[i], q[j])
Before(q, r, p) == \A i \in DOMAIN q, j \in DOMAIN r : q[i].org = p /\ r[j].org = p => Older(q[i], r[j])

\* The messages of a port are in the order they were sent in, those its set has got
\* of it before those its surrogate has yet to forward.
OldestFirst ==
  \A p \in PortIds :
    /\ InOrder(k.queue[p], p)
    /\ \A x \in PortIds \ {p} : k.state[x] = "set" => InOrder(k.queue[x], p) /\ Before(k.queue[x], k.queue[p], p)

\* The same while no member leaves its set and nothing goes over a bus or link.
OrderKept == ~Happens({"leave", "transmit"}) => OldestFirst

\* Messages arrive once, in order and in time, whatever becomes of their port.
MessagesDelivered == EachOnce /\ OrderKept /\ Punctual

\* A receive with a time-out returns, unless its port may be passed on.
TimedReturns ==
  \A t \in Tasks : k.at[t] = "receiving" /\ k.rec[t].mode = "timed" /\ ~Happens({"pass"})
                     ~> k.at[t] = "running"
=============================================================================

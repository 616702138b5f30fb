------------------------------- MODULE RWLock -------------------------------
(***************************************************************************)
(* The read-write lock task of lqsim (lqsim/instance.cc, task.cc).         *)
(*                                                                         *)
(* Six kinds of simulated task take part.  The RWLock_Server receives the  *)
(* four kinds of request and counts readers and writers; the reader        *)
(* Semaphore gives every admitted read lock a Token; the Signal task hands *)
(* a read unlock to a Token that waits for one; the single Writer_Token    *)
(* serves the write lock and the write unlock.                             *)
(*                                                                         *)
(* A client is blocked in its rendezvous from the request to the reply, so *)
(* the entry a queued message calls is the state of the client that sent   *)
(* it, and a port holds the clients whose messages are queued on it, the   *)
(* oldest first.  A message stays on its port until the task that received *)
(* it passes it on or replies to it.                                       *)
(*                                                                         *)
(* A task runs without interruption from one blocking call to the next     *)
(* (every one of them has a node of its own): one action is one such run.  *)
(*                                                                         *)
(* A definition marked "slip" is what the definition after it becomes      *)
(* under a plausible programming error.  No formula uses it: a check that  *)
(* puts it in the place of the other must find a property violated.        *)
(***************************************************************************)
EXTENDS Integers, Sequences, FiniteSets

CONSTANTS Clients,      \* tasks that call the lock's entries
          Tokens        \* reader tokens: the multiplicity of the task

\* std_port of the RWLock_Server, readerQ_port, writerQ_port, and std_port of
\* the reader Semaphore, of the Signal task and of the Writer_Token.
TaskPorts == {"server", "readerQ", "writerQ", "reader", "unlock", "writer"}
Ports == TaskPorts \cup Tokens      \* and std_port of each token

ASSUME ClientsAssumption == IsFiniteSet(Clients)
ASSUME TokensAssumption == IsFiniteSet(Tokens) /\ Tokens \cap TaskPorts = {}

VARIABLES
  pc,             \* what each client is doing
  port,           \* the messages queued on each port
  readers, activeReaders, writers,      \* locals of RWLock_Server::run
  workerPort,     \* worker_port: tokens that are free
  signalPort,     \* signal_port: tokens that can be signalled
  token,          \* program counter of each Token
  writer,         \* program counter of the Writer_Token
  signalPort2,    \* messages of the Writer_Token queued on signal_port2
  hold,           \* _hold_active
  noWait,         \* an unlock found no token: ERR_SIGNAL_NO_WAIT
  undefined       \* an empty queue was "received" from and its msg1 used

counterVars == <<readers, activeReaders, writers>>
tokenVars == <<token, workerPort, signalPort>>
writerVars == <<writer, signalPort2>>
vars == <<pc, port, counterVars, tokenVars, writerVars, hold, noWait, undefined>>

Entries == {"rlock", "runlock", "wlock", "wunlock"}
ClientStates == Entries \cup {"idle", "reading", "writing"}
\* lock, unlock: before the reply; locked, unlocked: between it and the end
\* of the cycle; free, held: blocked in ps_receive for a lock, an unlock.
TokenStates == {"created", "free", "lock", "locked", "held", "unlock", "unlocked"}

Readers == {c \in Clients : pc[c] = "reading"}
Writers == {c \in Clients : pc[c] = "writing"}

\* ps_send to port p; a message leaves port p.
Put(f, p, c) == [f EXCEPT ![p] = Append(@, c)]
Drop(f, p) == [f EXCEPT ![p] = Tail(@)]

Init ==
  /\ pc = [c \in Clients |-> "idle"]
  /\ port = [p \in Ports |-> <<>>]
  /\ readers = 0 /\ activeReaders = 0 /\ writers = 0
  /\ workerPort = <<>> /\ signalPort = <<>>
  /\ token = [t \in Tokens |-> "created"]
  /\ writer = "free" /\ signalPort2 = 0
  /\ hold = 0 /\ noWait = FALSE /\ undefined = FALSE

-----------------------------------------------------------------------------
\* Clients.  A client locks, is replied to, and unlocks with the same kind.

Call(c, from, entry) ==
  /\ pc[c] = from
  /\ pc' = [pc EXCEPT ![c] = entry]
  /\ port' = Put(port, "server", c)
  /\ UNCHANGED <<counterVars, tokenVars, writerVars, hold, noWait, undefined>>

Request(c) == Call(c, "idle", "rlock") \/ Call(c, "idle", "wlock")
Release(c) == Call(c, "reading", "runlock") \/ Call(c, "writing", "wunlock")

\* The state in which the reply to a call of entry leaves the client.
Replied(entry) == CASE entry = "rlock" -> "reading"
                    [] entry = "wlock" -> "writing"
                    [] OTHER -> "idle"

\* do_forwarding: reply to the client whose message heads port p.
Reply(p) ==
  /\ port[p] # <<>>
  /\ pc' = [pc EXCEPT ![Head(port[p])] = Replied(@)]
  /\ port' = Drop(port, p)

-----------------------------------------------------------------------------
\* RWLock_Server::run, one action per branch of its loop.

Caller == Head(port["server"])

Serve(entry) ==
  /\ port["server"] # <<>>
  /\ pc[Caller] = entry
  /\ UNCHANGED <<pc, tokenVars, writer, hold>>

Received == Drop(port, "server")
Forward(p) == Put(Received, p, Caller)

ReaderIgnoresLoneWriter == writers > 1      \* slip
\* A writer waits or writes.
ReaderMustWait == writers > 0

ServeRLock ==
  /\ Serve("rlock")
  /\ readers' = readers + 1
  /\ \/ /\ ReaderMustWait
        /\ port' = Forward("readerQ")
        /\ UNCHANGED activeReaders
     \/ /\ ~ReaderMustWait
        /\ port' = Forward("reader")
        /\ activeReaders' = activeReaders + 1
  /\ UNCHANGED <<writers, signalPort2, noWait, undefined>>

\* The ps_receive on writerQ_port, whose result is not checked, and the
\* ps_resend of what it received; f is the ports as they are before.
WriterToReaders(f, c) == Put(f, "reader", c)      \* slip
WriterNext(f, c) == Put(f, "writer", c)

DispatchWriter(f) ==
  \/ /\ f["writerQ"] # <<>>
     /\ port' = WriterNext(Drop(f, "writerQ"), Head(f["writerQ"]))
     /\ UNCHANGED undefined
  \/ /\ f["writerQ"] = <<>>
     /\ port' = f
     /\ undefined' = TRUE

LastOfAllReaders == readers = 1 /\ writers > 0      \* slip
LastReaderAlone == activeReaders = 1      \* slip
\* The unlock being served is that of the last active reader, and a writer
\* waits for it.
LastReader == activeReaders = 1 /\ writers > 0

ReadersAfterUnlock == readers - 1

ServeRUnlock ==
  /\ Serve("runlock")
  /\ activeReaders' = activeReaders - 1
  /\ readers' = ReadersAfterUnlock
  /\ \/ LastReader /\ DispatchWriter(Forward("unlock"))
     \/ ~LastReader /\ port' = Forward("unlock") /\ UNCHANGED undefined
  /\ UNCHANGED <<writers, signalPort2, noWait>>

WriterIgnoresReaders == writers > 0      \* slip
\* There is an active writer or some active readers.
WriterMustWait == writers > 0 \/ activeReaders > 0

ServeWLock ==
  /\ Serve("wlock")
  /\ writers' = writers + 1
  /\ \/ WriterMustWait /\ port' = Forward("writerQ")
     \/ ~WriterMustWait /\ port' = Forward("writer")
  /\ UNCHANGED <<readers, activeReaders, signalPort2, noWait, undefined>>

\* The while loop that admits the readers - activeReaders readers held back.
AdmitReaders(f) ==
  LET n == readers - activeReaders
      q == f["readerQ"] IN
  \/ /\ n <= 0
     /\ port' = f
     /\ UNCHANGED <<activeReaders, undefined>>
  \/ /\ n \in 1..Len(q)
     /\ port' = [f EXCEPT !["reader"] = @ \o SubSeq(q, 1, n),
                          !["readerQ"] = SubSeq(q, n + 1, Len(q))]
     /\ activeReaders' = readers
     /\ UNCHANGED undefined
  \/ /\ n > 0 /\ n > Len(q)
     /\ port' = f
     /\ undefined' = TRUE
     /\ UNCHANGED activeReaders

\* The unlock is forwarded before the next lock request: both go to the
\* std_port of the Writer_Token, which takes the first as the unlock.
ServeWUnlock ==
  /\ Serve("wunlock")
  /\ \/ /\ signalPort2 = 0
        /\ noWait' = TRUE
        /\ port' = Received
        /\ UNCHANGED <<counterVars, signalPort2, undefined>>
     \/ /\ signalPort2 > 0
        /\ signalPort2' = signalPort2 - 1
        /\ writers' = writers - 1
        /\ \/ /\ writers > 1
              /\ DispatchWriter(Forward("writer"))
              /\ UNCHANGED activeReaders
           \/ /\ writers <= 1 /\ readers > 0
              /\ AdmitReaders(Forward("writer"))
           \/ /\ writers <= 1 /\ readers <= 0
              /\ port' = Forward("writer")
              /\ UNCHANGED <<activeReaders, undefined>>
        /\ UNCHANGED <<readers, noWait>>

Server == ServeRLock \/ ServeRUnlock \/ ServeWLock \/ ServeWUnlock

-----------------------------------------------------------------------------
\* Semaphore::run of the reader queue: a request is given to a free token.

WorkersLeft == Tail(workerPort)

Semaphore ==
  /\ port["reader"] # <<>> /\ workerPort # <<>>
  /\ port' = Put(Drop(port, "reader"), Head(workerPort), Head(port["reader"]))
  /\ workerPort' = WorkersLeft
  /\ UNCHANGED <<pc, counterVars, token, signalPort, writerVars, hold, noWait,
                 undefined>>

\* Signal::run: after ps_sleep(0) it looks once for a token that waits to be
\* signalled, and drops the request if there is none.

Signal ==
  /\ port["unlock"] # <<>>
  /\ \/ /\ signalPort # <<>>
        /\ port' = Put(Drop(port, "unlock"), Head(signalPort), Head(port["unlock"]))
        /\ signalPort' = Tail(signalPort)
        /\ UNCHANGED noWait
     \/ /\ signalPort = <<>>
        /\ port' = Drop(port, "unlock")
        /\ noWait' = TRUE
        /\ UNCHANGED signalPort
  /\ UNCHANGED <<pc, counterVars, token, workerPort, writerVars, hold, undefined>>

-----------------------------------------------------------------------------
\* Token::run.  server_cycle replies to the client and then may still run a
\* second phase, so it is two steps: the reply, and the end of the cycle.

TokenStarts(t) ==
  /\ token[t] = "created"
  /\ token' = [token EXCEPT ![t] = "free"]
  /\ workerPort' = Append(workerPort, t)
  /\ UNCHANGED <<pc, port, counterVars, signalPort, writerVars, hold, noWait,
                 undefined>>

TokenReceives(t) ==
  /\ port[t] # <<>>
  /\ \/ /\ token[t] = "free"
        /\ token' = [token EXCEPT ![t] = "lock"]
        /\ hold' = hold + 1
        /\ signalPort' = Append(signalPort, t)
     \/ /\ token[t] = "held"
        /\ token' = [token EXCEPT ![t] = "unlock"]
        /\ UNCHANGED <<hold, signalPort>>
  /\ UNCHANGED <<pc, port, counterVars, workerPort, writerVars, noWait, undefined>>

TokenReplies(t) ==
  /\ \/ token[t] = "lock" /\ token' = [token EXCEPT ![t] = "locked"]
     \/ token[t] = "unlock" /\ token' = [token EXCEPT ![t] = "unlocked"]
  /\ Reply(t)
  /\ UNCHANGED <<counterVars, workerPort, signalPort, writerVars, hold, noWait,
                 undefined>>

TokenEndsCycle(t) ==
  /\ \/ /\ token[t] = "locked"
        /\ token' = [token EXCEPT ![t] = "held"]
        /\ UNCHANGED <<hold, workerPort>>
     \/ /\ token[t] = "unlocked"
        /\ token' = [token EXCEPT ![t] = "free"]
        /\ hold' = hold - 1
        /\ workerPort' = Append(workerPort, t)
  /\ UNCHANGED <<pc, port, counterVars, signalPort, writerVars, noWait, undefined>>

Token(t) == TokenStarts(t) \/ TokenReceives(t) \/ TokenReplies(t) \/ TokenEndsCycle(t)

-----------------------------------------------------------------------------
\* Writer_Token::run: the same, for the one writer.

WriterAnnounced == signalPort2 + 1

WriterReceives ==
  /\ port["writer"] # <<>>
  /\ \/ /\ writer = "free" /\ writer' = "lock"
        /\ hold' = hold + 1
        /\ signalPort2' = WriterAnnounced
     \/ /\ writer = "held" /\ writer' = "unlock"
        /\ UNCHANGED <<hold, signalPort2>>
  /\ UNCHANGED <<pc, port, counterVars, tokenVars, noWait, undefined>>

WriterReplies ==
  /\ \/ writer = "lock" /\ writer' = "locked"
     \/ writer = "unlock" /\ writer' = "unlocked"
  /\ Reply("writer")
  /\ UNCHANGED <<counterVars, tokenVars, signalPort2, hold, noWait, undefined>>

WriterEndsCycle ==
  /\ \/ writer = "locked" /\ writer' = "held" /\ UNCHANGED hold
     \/ writer = "unlocked" /\ writer' = "free" /\ hold' = hold - 1
  /\ UNCHANGED <<pc, port, counterVars, tokenVars, signalPort2, noWait, undefined>>

Writer == WriterReceives \/ WriterReplies \/ WriterEndsCycle

-----------------------------------------------------------------------------
Next ==
  \/ \E c \in Clients : Request(c) \/ Release(c)
  \/ Server \/ Semaphore \/ Signal
  \/ \E t \in Tokens : Token(t)
  \/ Writer

Spec == Init /\ [][Next]_vars

\* The simulation engine runs every task that can run, and a client that
\* holds the lock releases it in the end.
Fairness ==
  /\ WF_vars(Server) /\ WF_vars(Semaphore) /\ WF_vars(Signal)
  /\ \A t \in Tokens : WF_vars(Token(t))
  /\ WF_vars(Writer)
  /\ \A c \in Clients : WF_vars(Release(c))

FairSpec == Spec /\ Fairness

-----------------------------------------------------------------------------
(***************************************************************************)
(* Properties.                                                             *)
(***************************************************************************)

\* The kind of requests that the task behind a port serves.
Accepts(p) == CASE p = "server" -> Entries
                [] p \in {"readerQ", "reader"} -> {"rlock"}
                [] p = "writerQ" -> {"wlock"}
                [] p = "unlock" -> {"runlock"}
                [] p = "writer" -> {"wlock", "wunlock"}
                [] OTHER -> {"rlock", "runlock"}

\* Every variable stays in its type, and every port holds only requests of the
\* kind that the task behind it serves.
TypeOK ==
  /\ pc \in [Clients -> ClientStates]
  /\ port \in [Ports -> Seq(Clients)]
  /\ \A p \in Ports : \A i \in DOMAIN port[p] : pc[port[p][i]] \in Accepts(p)
  /\ readers \in Int /\ activeReaders \in Int /\ writers \in Int
  /\ workerPort \in Seq(Tokens) /\ signalPort \in Seq(Tokens)
  /\ token \in [Tokens -> TokenStates]
  /\ writer \in TokenStates
  /\ signalPort2 \in Nat /\ hold \in Int
  /\ noWait \in BOOLEAN /\ undefined \in BOOLEAN

\* A client that was granted the write lock is alone: no other writer and no
\* reader holds the lock until it asks to unlock, although the server admits
\* requests long before the tokens serve them.
MutualExclusion ==
  /\ Writers # {} => Readers = {}
  /\ \A c, d \in Writers : c = d

\* No more clients read at the same time than the task has reader tokens,
\* although an unlock may be given to a token that another client locked.
ReadersBounded == Cardinality(Readers) <= Cardinality(Tokens)

\* The replies that would be lost or made up never are: every unlock finds
\* a token to signal, and the server never uses the result of a receive on
\* an empty queue (the code checks the first and not the second).
EveryRequestAnswerable == ~noWait /\ ~undefined

\* A request is held back only while someone else has the lock: the last
\* unlock leaves no request behind in either queue of the server.
NobodyStranded ==
  /\ port["readerQ"] # <<>> => writers > 0
  /\ port["writerQ"] # <<>> =>
       \/ activeReaders > 0
       \/ port["writer"] # <<>> \/ writer \in {"locked", "held"}

\* When no client holds or asks for the lock, the counters of the server are
\* back to zero, and a token that is not free is only finishing an unlock.
QuiescentIsReset ==
  (\A c \in Clients : pc[c] = "idle") =>
    /\ readers = 0 /\ activeReaders = 0 /\ writers = 0
    /\ signalPort = <<>> /\ signalPort2 = 0
    /\ \A t \in Tokens : token[t] \in {"created", "free", "unlocked"}

\* A token that takes the message at the head of its port for a lock request
\* has one, and so for an unlock: the messages carry no such mark, only
\* their order on the port tells.
TokensServeTheirEntry ==
  /\ \A t \in Tokens :
       /\ token[t] = "lock" => pc[Head(port[t])] = "rlock"
       /\ token[t] = "unlock" => pc[Head(port[t])] = "runlock"
  /\ writer = "lock" => pc[Head(port["writer"])] = "wlock"
  /\ writer = "unlock" => pc[Head(port["writer"])] = "wunlock"

\* The server's counters, the queues and the tokens tell the same story, in
\* the middle of every hand-over: nobody is admitted beyond the tokens, held
\* back by nobody, mistaken for another or left without an answer, and once
\* all is quiet the counters are back where they began.
Consistent ==
  /\ ReadersBounded /\ EveryRequestAnswerable /\ NobodyStranded
  /\ QuiescentIsReset /\ TokensServeTheirEntry

\* The lock implements the abstract read-write lock.
Abstract(c) == CASE pc[c] = "rlock" -> "wantRead"
                 [] pc[c] = "wlock" -> "wantWrite"
                 [] pc[c] \in {"runlock", "wunlock"} -> "leaving"
                 [] OTHER -> pc[c]

Promise == INSTANCE ReadWriteLock WITH
  state <- [c \in Clients |-> Abstract(c)], Capacity <- Cardinality(Tokens)

ImplementsReadWriteLock == Promise!Spec

\* No writer waits for ever: readers that come after it are held back.
WritersAreServed ==
  \A c \in Clients : pc[c] = "wlock" ~> pc[c] = "writing"

\* Every unlock is replied to.
UnlocksAreReplied ==
  \A c \in Clients : pc[c] \in {"runlock", "wunlock"} ~> pc[c] = "idle"

\* Writers get the lock and every unlock comes back to its client.
ClientsServed == WritersAreServed /\ UnlocksAreReplied

=============================================================================

---------------------------- MODULE SemaphoreTask ----------------------------
(***************************************************************************)
(* The semaphore task of the simulator (lqsim/instance.cc 551-860): a      *)
(* dispatcher for its wait entry, one for its signal entry, and tokens,    *)
(* each of which serves a wait and then a signal.  Tokens that start free  *)
(* (Token) and tokens that start taken (Token_r) send their notes to the   *)
(* two dispatchers in a different order.                                   *)
(*                                                                         *)
(* A definition marked "slip" is what the definition after it becomes      *)
(* under a plausible programming error.                                    *)
(***************************************************************************)
EXTENDS Integers, FiniteSets, SequencesExt

CONSTANTS Clients, Tokens,
          Worlds        \* how the tokens start and how the clients signal

None == "none"
ASSUME SemaphoreTaskAssumption ==
  /\ IsFiniteSet(Tokens) /\ IsFiniteSet(Clients) /\ None \notin Clients
  /\ \A w \in Worlds : w.full \in BOOLEAN /\ Cardinality(w.openers) = (IF w.full THEN 0 ELSE Cardinality(Tokens))
                          /\ w.second \in BOOLEAN /\ w.async \in BOOLEAN /\ w.openers \subseteq Clients

VARIABLES world,        \* full: tokens start free; second: the wait entry has a second
                        \* phase; async: signals are not replied; openers: who signals first
          k             \* the state of the task and of its clients
vars == <<world, k>>

\* k is a record of, for every client c and token n,
\*   at[c]       "out", "waits" for its wait, "in", or "signals": waits for its signal
\*   token[n]    what the token does          job[n]     the client it answers
\*   inbox[n]    clients whose requests were sent to it
\* and waits and signals, the clients queued at the ports of the two entries; hand and
\* heard, the client whose request each dispatcher has; worker_port and signal_port,
\* the notes of the tokens; free, messages of the pool; deaf, history: clients whose
\* signal was dropped although it ended a wait of theirs.
\* The tokens start at time zero, before any client has computed and calls.
Init ==
  /\ world \in Worlds
  /\ k = [at |-> [c \in Clients |-> IF c \in world.openers THEN "in" ELSE "out"],
          token |-> [n \in Tokens |-> IF world.full THEN "free" ELSE "held"], job |-> [n \in Tokens |-> None], inbox |-> [n \in Tokens |-> <<>>],
          waits |-> <<>>, signals |-> <<>>, hand |-> None, heard |-> None,
          worker_port |-> IF world.full THEN SetToSeq(Tokens) ELSE <<>>,
          signal_port |-> IF world.full THEN <<>> ELSE SetToSeq(Tokens), free |-> Cardinality(Tokens), deaf |-> {}]

Set(n, to) == [k EXCEPT !.token[n] = to]

-----------------------------------------------------------------------------
\* Clients: reference tasks that call the wait entry, and later the signal entry.
Wait(c) ==
  /\ k.at[c] = "out"
  /\ k' = [k EXCEPT !.at[c] = "waits", !.waits = Append(@, c)]

\* An asynchronous signal takes a message of the pool, and its sender goes on.
Signal(c) ==
  /\ k.at[c] = "in"
  /\ IF world.async
     THEN k' = [k EXCEPT !.at[c] = "out", !.free = @ - 1, !.signals = Append(@, c)]
     ELSE k' = [k EXCEPT !.at[c] = "signals", !.signals = Append(@, c)]

\* The reply at the end of the first phase; an asynchronous message is freed.
AnswerWait(s, n) == [s EXCEPT !.at[k.job[n]] = "in"]
AnswerSignal(s, n) == IF world.async THEN [s EXCEPT !.free = @ + 1] ELSE [s EXCEPT !.at[k.job[n]] = "out"]

-----------------------------------------------------------------------------
\* The dispatcher of the wait entry.
AcceptLast ==                      \* slip
  /\ k.hand = None /\ k.waits # <<>>
  /\ k' = [k EXCEPT !.hand = Last(k.waits), !.waits = Front(@)]
Accept ==
  /\ k.hand = None /\ k.waits # <<>>
  /\ k' = [k EXCEPT !.hand = Head(k.waits), !.waits = Tail(@)]

Give ==
  /\ k.hand # None /\ k.worker_port # <<>>
  /\ k' = [k EXCEPT !.hand = None, !.worker_port = Tail(@), !.inbox[Head(k.worker_port)] = Append(@, k.hand)]

\* The dispatcher of the signal entry; between the two it forces a context switch.
Hear ==
  /\ k.heard = None /\ k.signals # <<>>
  /\ k' = [k EXCEPT !.heard = Head(k.signals), !.signals = Tail(@)]

\* If no token waits for a signal, it is reported and dropped, also its message.
Match ==
  /\ k.heard # None
  /\ k' = IF k.signal_port = <<>> THEN [k EXCEPT !.heard = None, !.deaf = @ \cup {k.heard}]
          ELSE [k EXCEPT !.heard = None, !.signal_port = Tail(@), !.inbox[Head(k.signal_port)] = Append(@, k.heard)]

-----------------------------------------------------------------------------
\* Tokens.
NoteWorker(s, n) == [s EXCEPT !.worker_port = Append(@, n)]
NoteSignal(s, n) == [s EXCEPT !.signal_port = Append(@, n)]

\* Token sends its note for the signal before it serves the wait, Token_r after it.
NoNote(s, n) == s                  \* slip
BeforeWait(s, n) == IF world.full THEN NoteSignal(s, n) ELSE s
AfterWait(s, n) == IF world.full THEN s ELSE NoteSignal(s, n)

Take(n, to) == [k EXCEPT !.token[n] = to, !.job[n] = Head(k.inbox[n]), !.inbox[n] = Tail(@)]

TakeWait(n) ==
  /\ k.token[n] = "free" /\ k.inbox[n] # <<>>
  /\ k' = BeforeWait(Take(n, "wait1"), n)

Unheld(s, n) == AfterWait([s EXCEPT !.token[n] = "free", !.job[n] = None], n)    \* slip
EndWait(s, n) == AfterWait([s EXCEPT !.token[n] = "held", !.job[n] = None], n)
\* Without a second phase the token goes on at once.
ReplyWait(n) ==
  /\ k.token[n] = "wait1"
  /\ k' = IF world.second THEN AnswerWait(Set(n, "wait2"), n) ELSE EndWait(AnswerWait(k, n), n)
SecondWait(n) == k.token[n] = "wait2" /\ k' = EndWait(k, n)

\* Token_r sends its note for the next wait before it serves the signal, Token after it.
BeforeSignal(s, n) == IF world.full THEN s ELSE NoteWorker(s, n)
AfterSignal(s, n) == IF world.full THEN NoteWorker(s, n) ELSE s

TakeSignal(n) ==
  /\ k.token[n] = "held" /\ k.inbox[n] # <<>>
  /\ k' = BeforeSignal(Take(n, "signal1"), n)

ReplySignal(n) == k.token[n] = "signal1" /\ k' = AnswerSignal(Set(n, "signal2"), n)
EndSignal(n) ==
  /\ k.token[n] = "signal2"
  /\ k' = AfterSignal([k EXCEPT !.token[n] = "free", !.job[n] = None], n)

Token(n) == TakeWait(n) \/ ReplyWait(n) \/ SecondWait(n) \/ TakeSignal(n) \/ ReplySignal(n) \/ EndSignal(n)

Next ==
  /\ \/ \E c \in Clients : Wait(c) \/ Signal(c)
     \/ Accept \/ Give \/ Hear \/ Match
     \/ \E n \in Tokens : Token(n)
  /\ UNCHANGED world

\* Clients cycle for ever, and an instance that can go on does.
Spec == Init /\ [][Next]_vars
FairSpec ==
  /\ Spec
  /\ \A c \in Clients : WF_vars((Wait(c) \/ Signal(c)) /\ UNCHANGED world)
  /\ WF_vars((Accept \/ Give) /\ UNCHANGED world)
  /\ WF_vars((Hear \/ Match) /\ UNCHANGED world)
  /\ \A n \in Tokens : WF_vars(Token(n) /\ UNCHANGED world)

-----------------------------------------------------------------------------
TokenStates == {"free", "wait1", "wait2", "held", "signal1", "signal2"}
Maybe == Clients \cup {None}

TypeOK ==
  /\ world \in Worlds
  /\ k.at \in [Clients -> {"out", "waits", "in", "signals"}]
  /\ k.token \in [Tokens -> TokenStates] /\ k.job \in [Tokens -> Maybe] /\ k.inbox \in [Tokens -> Seq(Clients)]
  /\ k.waits \in Seq(Clients) /\ k.signals \in Seq(Clients) /\ k.hand \in Maybe /\ k.heard \in Maybe
  /\ k.worker_port \in Seq(Tokens) /\ k.signal_port \in Seq(Tokens) /\ k.free \in 0..Cardinality(Tokens) /\ k.deaf \subseteq Clients

\* A token that waits has either one note at one of the dispatchers or one request on
\* its way, of the kind that it expects, and one that serves has at most that
\* (instance.cc 689-860).
Occurs(q, n) == Cardinality({i \in DOMAIN q : q[i] = n})
NotesAgree ==
  \A n \in Tokens :
    LET owed == Occurs(k.worker_port, n) + Occurs(k.signal_port, n) + Len(k.inbox[n])
    IN /\ owed <= 1
       /\ k.token[n] \in {"free", "held"} => owed = 1
       /\ n \in Range(k.worker_port) => k.token[n] \in {"free"} \cup (IF world.full THEN {} ELSE {"signal1", "signal2"})
       /\ n \in Range(k.signal_port) => k.token[n] \in {"held"} \cup (IF world.full THEN {"wait1", "wait2"} ELSE {})

\* There is a taken token for every client that has got through the wait and has not
\* signalled yet, or whose signal is not served yet, and for no other: so there are
\* never more of them than tokens, and the pool has a message for every signal
\* (instance.cc 551-636, 689-860).
HoldersHold ==
  Cardinality({c \in Clients : k.at[c] \in {"in", "signals"}}) + (Cardinality(Tokens) - k.free)
  = Cardinality({n \in Tokens : k.token[n] \in {"wait2", "held", "signal1"}})

\* Every token is accounted for: by its note or request, and by its holder.
Consistent == TypeOK /\ NotesAgree /\ HoldersHold

\* A signal that ends a wait finds a waiting token: every client here signals only
\* after its wait was replied (instance.cc:592, 619-624).
SignalsHeard == k.deaf = {}

\* Every wait is granted, and every synchronous signal replied (instance.cc 551-636).
EveryCallReturns ==
  \A c \in Clients : (k.at[c] = "waits" ~> k.at[c] = "in") /\ (k.at[c] = "signals" ~> k.at[c] = "out")
=============================================================================

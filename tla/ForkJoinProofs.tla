--------------------------- MODULE ForkJoinProofs ---------------------------
(***************************************************************************)
(* For every number of branches and threads and every quorum, the counters *)
(* of a forking task are exact, its ports and tables are well typed, each  *)
(* branch that was started has a thread that waits for it, and a cycle     *)
(* leaves nothing behind.                                                  *)
(*                                                                         *)
(* The counters count messages, and the requests for branches are threads  *)
(* that wait: the invariant says how many threads are in which states.     *)
(***************************************************************************)
EXTENDS ForkJoin, FiniteSetTheorems, SequenceTheorems, TLAPS

States == {"none", "created", "waiting", "ready", "running", "away"}
Busy == {"created", "ready", "running", "away"}

\* A message about the current fork is about a branch of it.
GoodJobs == {j \in Jobs : j.current => j.ap \in Branches}

TypeInv ==
  /\ pc \in {"cycle", "spawn", "create", "join", "joined", "flush", "idle"}
  /\ parent \in {"hot", "away", "receiving", "ready"}
  /\ todo \subseteq Branches /\ finished \subseteq Branches
  /\ count \in 0..N /\ idle \in Nat /\ active \in Int
  /\ thread \in [Threads -> States]
  /\ job \in [Threads -> GoodJobs]
  /\ startPort \in Seq(GoodJobs) /\ threadPort \in Seq(GoodJobs)
  /\ requests \in Seq(Threads) /\ ready \in Seq(Threads \cup {Task})
  /\ passes \in {"never", "once", "again"}

Waiting == {t \in Threads : thread[t] = "waiting"}

\* Each waiting thread has one request at the dispatcher of start_port.
InLine ==
  /\ Len(requests) = Cardinality(Waiting)
  /\ \A i \in 1..Len(requests) : thread[requests[i]] = "waiting"
  /\ \A i, j \in 1..Len(requests) : requests[i] = requests[j] => i = j

\* active counts messages to come, and idle the waiting threads that no branch and
\* no message stands for.
Counted ==
  /\ active = Outstanding
  /\ idle = Cardinality(Waiting) - Len(startPort) - Len(threadPort)

\* Nothing is started between cycles.
Quiet == pc = "idle" => active = 0

IInv == TypeInv /\ InLine /\ Counted /\ Quiet

-----------------------------------------------------------------------------
\* Sets of threads and sequences of messages.

LEMMA Sizes ==
  ASSUME TypeInv
  PROVE  /\ IsFiniteSet(Reporting) /\ Cardinality(Reporting) \in Nat
         /\ IsFiniteSet(Waiting) /\ Cardinality(Waiting) \in Nat
         /\ Cardinality(Created) = Cardinality(Reporting) + Cardinality(Waiting)
         /\ Cardinality(Threads) \in Nat /\ Cardinality(Created) <= Cardinality(Threads)
         /\ Len(startPort) \in Nat /\ Len(threadPort) \in Nat /\ Len(requests) \in Nat
<1>1. IsFiniteSet(Threads) /\ Cardinality(Threads) \in Nat BY ForkAssumption, FS_CardinalityType
<1>2. Reporting \subseteq Threads /\ Waiting \subseteq Threads /\ Created \subseteq Threads
  BY DEF Reporting, Waiting, Created
<1>3. /\ IsFiniteSet(Reporting) /\ IsFiniteSet(Waiting)
      /\ Cardinality(Created) <= Cardinality(Threads)
  BY <1>1, <1>2, FS_Subset
<1>4. Cardinality(Reporting) \in Nat /\ Cardinality(Waiting) \in Nat BY <1>3, FS_CardinalityType
<1>5. Created = Reporting \cup Waiting /\ Reporting \cap Waiting = {}
  BY DEF TypeInv, States, Created, Reporting, Waiting
<1>6. Cardinality(Created) = Cardinality(Reporting) + Cardinality(Waiting)
  BY <1>3, <1>4, <1>5, FS_Union, FS_EmptySet
<1>7. Len(startPort) \in Nat /\ Len(threadPort) \in Nat /\ Len(requests) \in Nat
  BY LenProperties DEF TypeInv
<1> QED BY <1>1, <1>3, <1>4, <1>6, <1>7

\* A thread that goes from one state to another.
LEMMA Moves ==
  ASSUME TypeInv, NEW t \in Threads, NEW s \in States, thread' = [thread EXCEPT ![t] = s]
  PROVE  /\ thread' \in [Threads -> States]
         /\ Cardinality(Reporting') = Cardinality(Reporting)
              + (IF s \in Busy THEN 1 ELSE 0) - (IF thread[t] \in Busy THEN 1 ELSE 0)
         /\ Cardinality(Waiting') = Cardinality(Waiting)
              + (IF s = "waiting" THEN 1 ELSE 0) - (IF thread[t] = "waiting" THEN 1 ELSE 0)
<1>1. thread \in [Threads -> States] BY DEF TypeInv
<1>2. /\ IsFiniteSet(Reporting) /\ Cardinality(Reporting) \in Nat
      /\ IsFiniteSet(Waiting) /\ Cardinality(Waiting) \in Nat
  BY Sizes
<1>3. thread' \in [Threads -> States] BY <1>1
<1>4. Reporting' = IF s \in Busy THEN Reporting \cup {t} ELSE Reporting \ {t}
  BY <1>1 DEF Reporting, Busy
<1>5. Waiting' = IF s = "waiting" THEN Waiting \cup {t} ELSE Waiting \ {t}
  BY <1>1 DEF Waiting
<1>6. t \in Reporting <=> thread[t] \in Busy BY DEF Reporting, Busy
<1>7. t \in Waiting <=> thread[t] = "waiting" BY DEF Waiting
<1>8. /\ Cardinality(Reporting \cup {t}) = IF t \in Reporting THEN Cardinality(Reporting) ELSE Cardinality(Reporting) + 1
      /\ Cardinality(Reporting \ {t}) = IF t \in Reporting THEN Cardinality(Reporting) - 1 ELSE Cardinality(Reporting)
  BY <1>2, FS_AddElement, FS_RemoveElement
<1>9. /\ Cardinality(Waiting \cup {t}) = IF t \in Waiting THEN Cardinality(Waiting) ELSE Cardinality(Waiting) + 1
      /\ Cardinality(Waiting \ {t}) = IF t \in Waiting THEN Cardinality(Waiting) - 1 ELSE Cardinality(Waiting)
  BY <1>2, FS_AddElement, FS_RemoveElement
<1>10. Cardinality(Reporting') = Cardinality(Reporting)
              + (IF s \in Busy THEN 1 ELSE 0) - (IF thread[t] \in Busy THEN 1 ELSE 0)
  BY <1>2, <1>4, <1>6, <1>8
<1>11. Cardinality(Waiting') = Cardinality(Waiting)
              + (IF s = "waiting" THEN 1 ELSE 0) - (IF thread[t] = "waiting" THEN 1 ELSE 0)
  BY <1>2, <1>5, <1>7, <1>9
<1> QED BY <1>3, <1>10, <1>11

\* Sequences that grow and shrink at their ends.
LEMMA Appended ==
  ASSUME NEW S, NEW q \in Seq(S), NEW e \in S
  PROVE  /\ Append(q, e) \in Seq(S) /\ Len(Append(q, e)) = Len(q) + 1
         /\ \A i \in 1..Len(q) : Append(q, e)[i] = q[i]
         /\ Append(q, e)[Len(q) + 1] = e
OBVIOUS

\* The messages of an earlier fork.
LEMMA Outdating ==
  ASSUME NEW q \in Seq(GoodJobs)
  PROVE  /\ [i \in DOMAIN q |-> Outdated(q[i])] \in Seq(GoodJobs)
         /\ Len([i \in DOMAIN q |-> Outdated(q[i])]) = Len(q)
<1>1. Len(q) \in Nat /\ DOMAIN q = 1..Len(q) BY LenProperties
<1>2. \A i \in 1..Len(q) : q[i] \in GoodJobs BY ElementOfSeq
<1>3. \A j \in GoodJobs : Outdated(j) \in GoodJobs BY DEF Outdated, GoodJobs, Jobs
<1>4. [i \in 1..Len(q) |-> Outdated(q[i])] \in [1..Len(q) -> GoodJobs] BY <1>2, <1>3
<1>5. [i \in 1..Len(q) |-> Outdated(q[i])] \in Seq(GoodJobs) BY <1>1, <1>4, SeqDef
<1> DEFINE r == [i \in 1..Len(q) |-> Outdated(q[i])]
<1>6. DOMAIN r = 1..Len(r) /\ Len(r) \in Nat BY <1>5, LenProperties
<1>7. DOMAIN r = 1..Len(q) OBVIOUS
<1>8. Len(r) = Len(q) BY <1>1, <1>6, <1>7
<1> QED BY <1>1, <1>5, <1>8

\* The oldest message of a sequence is taken.
LEMMA Taken ==
  ASSUME NEW S, NEW q \in Seq(S), q # <<>>
  PROVE  /\ Head(q) \in S /\ Head(q) = q[1]
         /\ Tail(q) \in Seq(S) /\ Len(Tail(q)) = Len(q) - 1 /\ Len(q) \in Nat /\ Len(q) >= 1
         /\ \A i \in 1..Len(q) - 1 : Tail(q)[i] = q[i + 1]
OBVIOUS

\* The branches and the quorum are numbers.
LEMMA Numbers == N \in Nat /\ N >= 1 /\ Quorum \in 1..N
<1>1. N \in Nat BY ForkAssumption, FS_CardinalityType DEF N
<1> QED BY <1>1, ForkAssumption DEF N

\* A new fork begins with all threads waiting or none.
LEMMA InitInv == Init => IInv
<1> SUFFICES ASSUME Init PROVE IInv OBVIOUS
<1>1. TypeInv
  <2>1. N \in Nat BY Numbers
  <2>2. Announcement \in GoodJobs BY DEF Announcement, GoodJobs, Jobs
  <2> QED BY <2>1, <2>2 DEF Init, TypeInv, States
<1>2. Reporting = {} /\ Waiting = {} BY DEF Init, Reporting, Waiting
<1>3. Cardinality(Reporting) = 0 /\ Cardinality(Waiting) = 0 BY <1>2, FS_EmptySet
<1>4. Len(startPort) = 0 /\ Len(threadPort) = 0 /\ Len(requests) = 0 BY DEF Init
<1>5. InLine BY <1>3, <1>4 DEF InLine
<1>6. Counted
  <2>1. idle = 0 /\ active = 0 BY DEF Init
  <2> QED BY <1>3, <1>4, <2>1 DEF Counted, Outstanding
<1>7. Quiet BY DEF Init, Quiet
<1> QED BY <1>1, <1>5, <1>6, <1>7 DEF IInv

-----------------------------------------------------------------------------
\* Steps of the task.

\* A step that moves neither threads nor messages and leaves the counters.
LEMMA Undisturbed ==
  ASSUME IInv, TypeInv', UNCHANGED <<idle, active, thread, ports>>,
         pc' = "idle" => pc = "idle" \/ active = 0
  PROVE  IInv'
<1>1. Reporting' = Reporting /\ Waiting' = Waiting BY DEF Reporting, Waiting
<1>2. InLine' BY <1>1 DEF IInv, InLine, ports
<1>3. Counted'
  <2>1. idle' = idle /\ active' = active /\ startPort' = startPort /\ threadPort' = threadPort
    BY DEF ports
  <2>2. Counted BY DEF IInv
  <2>3. active' = Outstanding' BY <1>1, <2>1, <2>2 DEF Counted, Outstanding
  <2>4. idle' = Cardinality(Waiting') - Len(startPort') - Len(threadPort')
    BY <1>1, <2>1, <2>2 DEF Counted
  <2> QED BY <2>3, <2>4 DEF Counted
<1>4. Quiet' BY DEF IInv, Quiet
<1> QED BY <1>2, <1>3, <1>4 DEF IInv

\* thread_wait keeps the counters exact: one message fewer is outstanding.
LEMMA Received ==
  ASSUME IInv, ThreadWait, pc # "idle", UNCHANGED <<pc, parent, todo, thread, job, startPort,
         requests, ready, finished, passes>>, count' \in 0..N
  PROVE  IInv'
<1>1. /\ threadPort' \in Seq(GoodJobs) /\ Len(threadPort') = Len(threadPort) - 1
      /\ Len(threadPort) \in Nat
  BY Taken DEF IInv, TypeInv, ThreadWait
<1>2. Reporting' = Reporting /\ Waiting' = Waiting BY DEF Reporting, Waiting
<1>3. TypeInv' BY <1>1 DEF IInv, TypeInv, ThreadWait, ThreadIsIdle
<1>4. InLine' BY <1>2 DEF IInv, InLine
<1>5. Counted'
  <2>1. idle' = idle + 1 /\ active' = active - 1 /\ startPort' = startPort
    BY DEF ThreadWait, ThreadIsIdle
  <2>2. idle = Cardinality(Waiting) - Len(startPort) - Len(threadPort) /\ active = Outstanding
    BY DEF IInv, Counted
  <2>3. /\ Cardinality(Reporting) \in Nat /\ Cardinality(Waiting) \in Nat
        /\ Len(startPort) \in Nat /\ Len(threadPort) \in Nat
    BY Sizes DEF IInv
  <2>4. active' = Outstanding'
    <3>1. active = Cardinality(Reporting) + Len(startPort) + Len(threadPort)
      BY <2>2 DEF Outstanding
    <3>2. active' = Cardinality(Reporting) + Len(startPort) + (Len(threadPort) - 1)
      BY <2>1, <2>3, <3>1
    <3>3. Outstanding' = Cardinality(Reporting) + Len(startPort) + (Len(threadPort) - 1)
      BY <1>1, <1>2, <2>1 DEF Outstanding
    <3> QED BY <3>2, <3>3
  <2>5. idle' = Cardinality(Waiting') - Len(startPort') - Len(threadPort')
    BY <1>1, <1>2, <2>1, <2>2, <2>3
  <2> QED BY <2>4, <2>5 DEF Counted
<1>6. Quiet' BY DEF Quiet
<1> QED BY <1>3, <1>4, <1>5, <1>6 DEF IInv

\* A fork only marks the messages and jobs of the forks before it.
LEMMA ForkStep == ASSUME IInv, Fork PROVE IInv'
<1>1. /\ startPort' \in Seq(GoodJobs) /\ Len(startPort') = Len(startPort)
      /\ threadPort' \in Seq(GoodJobs) /\ Len(threadPort') = Len(threadPort)
  BY Outdating DEF IInv, TypeInv, Fork
<1>2. \A j \in GoodJobs : Outdated(j) \in GoodJobs BY DEF Outdated, GoodJobs, Jobs
<1>3. job' \in [Threads -> GoodJobs] BY <1>2 DEF IInv, TypeInv, Fork
<1>4. TypeInv' BY <1>1, <1>3 DEF IInv, TypeInv, Fork, counters
<1>5. Reporting' = Reporting /\ Waiting' = Waiting BY DEF Fork, Reporting, Waiting
<1>6. InLine' BY <1>5 DEF IInv, InLine, Fork
<1>7. Counted' BY <1>1, <1>5 DEF IInv, Counted, Outstanding, Fork, counters
<1>8. Quiet' BY DEF Fork, Quiet
<1> QED BY <1>4, <1>6, <1>7, <1>8 DEF IInv

\* An idle thread is reserved for the branch that is sent to start_port.
LEMMA ReuseStep == ASSUME IInv, ReuseThread PROVE IInv'
<1>1. PICK b \in todo : StartBranch(b) BY DEF ReuseThread
<1>2. [ap |-> b, current |-> TRUE] \in GoodJobs
  BY DEF IInv, TypeInv, GoodJobs, Jobs
<1>3. /\ startPort' \in Seq(GoodJobs) /\ Len(startPort') = Len(startPort) + 1
      /\ Len(startPort) \in Nat
  BY <1>1, <1>2, Appended, Sizes DEF IInv, TypeInv, StartBranch
<1>4. TypeInv'
  BY <1>1, <1>3 DEF IInv, TypeInv, StartBranch, ReuseThread, SomeIdle
<1>5. Reporting' = Reporting /\ Waiting' = Waiting BY DEF ReuseThread, Reporting, Waiting
<1>6. InLine' BY <1>5 DEF IInv, InLine, ReuseThread
<1>7. Counted' BY <1>3, <1>5, Sizes DEF IInv, Counted, Outstanding, ReuseThread
<1>8. Quiet' BY DEF ReuseThread, Quiet
<1> QED BY <1>4, <1>6, <1>7, <1>8 DEF IInv

\* A thread that is created will announce itself: one message more to come.
LEMMA CreateStep == ASSUME IInv, CreateThread PROVE IInv'
<1>1. PICK t \in Threads \ Created : /\ thread' = [thread EXCEPT ![t] = "created"]
                                     /\ ready' = Append(ready, t)
  BY DEF CreateThread
<1>2. thread[t] = "none" BY <1>1 DEF Created
<1>3. /\ thread' \in [Threads -> States]
      /\ Cardinality(Reporting') = Cardinality(Reporting) + 1
      /\ Cardinality(Waiting') = Cardinality(Waiting)
  <2>1. TypeInv /\ t \in Threads /\ "created" \in States BY DEF IInv, States
  <2>2. Cardinality(Reporting) \in Nat /\ Cardinality(Waiting) \in Nat BY <2>1, Sizes
  <2>3. thread' = [thread EXCEPT ![t] = "created"] BY <1>1
  <2>4. /\ thread' \in [Threads -> States]
        /\ Cardinality(Reporting') = Cardinality(Reporting)
              + (IF "created" \in Busy THEN 1 ELSE 0) - (IF thread[t] \in Busy THEN 1 ELSE 0)
        /\ Cardinality(Waiting') = Cardinality(Waiting)
              + (IF "created" = "waiting" THEN 1 ELSE 0) - (IF thread[t] = "waiting" THEN 1 ELSE 0)
    BY <2>1, <2>3, Moves
  <2> QED BY <1>2, <2>2, <2>4 DEF Busy
<1>4. ready' \in Seq(Threads \cup {Task}) BY <1>1, Appended DEF IInv, TypeInv
<1>5. TypeInv' BY <1>3, <1>4 DEF IInv, TypeInv, CreateThread, ports
<1>6. InLine'
  BY <1>1, <1>2, <1>3 DEF IInv, TypeInv, InLine, CreateThread, ports
<1>7. Counted'
  BY <1>3, Sizes DEF IInv, TypeInv, Counted, Outstanding, CreateThread, ports
<1>8. Quiet' BY DEF CreateThread, Quiet
<1> QED BY <1>5, <1>6, <1>7, <1>8 DEF IInv

\* The announcement is exchanged for the branch the new thread will run.
LEMMA CreatedStep == ASSUME IInv, ThreadCreated PROVE IInv'
<1>1. PICK b \in todo : StartBranch(b) BY DEF ThreadCreated
<1>2. [ap |-> b, current |-> TRUE] \in GoodJobs
  BY DEF IInv, TypeInv, GoodJobs, Jobs
<1>3. startPort' \in Seq(GoodJobs) /\ Len(startPort') = Len(startPort) + 1
  BY <1>1, <1>2, Appended DEF IInv, TypeInv, StartBranch
<1>4. threadPort' \in Seq(GoodJobs) /\ Len(threadPort') = Len(threadPort) - 1
  BY Taken DEF IInv, TypeInv, ThreadCreated
<1>5. TypeInv'
  BY <1>1, <1>3, <1>4 DEF IInv, TypeInv, StartBranch, ThreadCreated, counters
<1>6. Reporting' = Reporting /\ Waiting' = Waiting BY DEF ThreadCreated, Reporting, Waiting
<1>7. InLine' BY <1>6 DEF IInv, InLine, ThreadCreated
<1>8. Counted'
  <2>1. idle' = idle /\ active' = active BY DEF ThreadCreated, counters
  <2>2. idle = Cardinality(Waiting) - Len(startPort) - Len(threadPort) /\ active = Outstanding
    BY DEF IInv, Counted
  <2>3. /\ Cardinality(Reporting) \in Nat /\ Cardinality(Waiting) \in Nat
        /\ Len(startPort) \in Nat /\ Len(threadPort) \in Nat
    BY Sizes DEF IInv
  <2>4. active' = Outstanding'
    BY <1>3, <1>4, <1>6, <2>1, <2>2, <2>3 DEF Outstanding
  <2>5. idle' = Cardinality(Waiting') - Len(startPort') - Len(threadPort')
    BY <1>3, <1>4, <1>6, <2>1, <2>2, <2>3
  <2> QED BY <2>4, <2>5 DEF Counted
<1>9. Quiet' BY DEF ThreadCreated, Quiet
<1> QED BY <1>5, <1>7, <1>8, <1>9 DEF IInv

\* No step of the forking task disturbs the invariant.
LEMMA ParentKeeps == ASSUME IInv, ParentStep PROVE IInv'
<1>1. CASE Execute
  BY <1>1, Undisturbed DEF Execute, IInv, TypeInv, counters, ports
<1>2. CASE StartCycle
  BY <1>2, Undisturbed DEF StartCycle, IInv, TypeInv, counters, ports
<1>3. CASE EndCycle
  BY <1>3, Undisturbed DEF EndCycle, IInv, TypeInv, counters, ports
<1>4. CASE Fork BY <1>4, ForkStep
<1>5. CASE Continue
  BY <1>5, Undisturbed DEF Continue, IInv, TypeInv, counters, ports
<1>6. CASE Reap BY <1>6, Received DEF Reap, IInv, TypeInv
<1>7. CASE ReuseThread BY <1>7, ReuseStep
<1>8. CASE CreateThread BY <1>8, CreateStep
<1>9. CASE ThreadCreated BY <1>9, CreatedStep
<1>10. CASE WaitForThreads
  BY <1>10, Undisturbed, Numbers DEF WaitForThreads, Visits, IInv, TypeInv, ports
<1>11. CASE JoinReceive
  <2>1. count' \in 0..N
    BY <1>11, Numbers DEF JoinReceive, QuorumReached, IInv, TypeInv
  <2> QED BY <1>11, <2>1, Received DEF JoinReceive
<1>12. CASE Join
  BY <1>12, Undisturbed DEF Join, IInv, TypeInv, counters, ports
<1>13. CASE FlushReceive BY <1>13, Received DEF FlushReceive, IInv, TypeInv
<1>14. CASE FlushDone
  BY <1>14, Undisturbed DEF FlushDone, Flushed, IInv, TypeInv, counters, ports
<1>15. CASE Block
  BY <1>15, Undisturbed DEF Block, Receives, IInv, TypeInv, counters, ports
<1> QED BY <1>1, <1>2, <1>3, <1>4, <1>5, <1>6, <1>7, <1>8, <1>9, <1>10, <1>11, <1>12, <1>13,
          <1>14, <1>15 DEF ParentStep

-----------------------------------------------------------------------------
\* Steps of the threads and of the dispatcher.

\* A thread that neither announces, reports nor is given a branch.
LEMMA Busied ==
  ASSUME IInv, NEW t \in Threads, NEW s \in Busy, thread[t] \in Busy,
         thread' = [thread EXCEPT ![t] = s], ready' \in Seq(Threads \cup {Task}),
         UNCHANGED <<pc, parent, todo, counters, job, ports, finished, passes>>
  PROVE  IInv'
<1>1. /\ thread' \in [Threads -> States]
      /\ Cardinality(Reporting') = Cardinality(Reporting)
      /\ Cardinality(Waiting') = Cardinality(Waiting)
  <2>1. TypeInv /\ s \in States /\ s # "waiting" /\ thread[t] # "waiting"
    BY DEF IInv, States, Busy
  <2>2. Cardinality(Reporting) \in Nat /\ Cardinality(Waiting) \in Nat BY <2>1, Sizes
  <2>3. /\ thread' \in [Threads -> States]
        /\ Cardinality(Reporting') = Cardinality(Reporting)
              + (IF s \in Busy THEN 1 ELSE 0) - (IF thread[t] \in Busy THEN 1 ELSE 0)
        /\ Cardinality(Waiting') = Cardinality(Waiting)
              + (IF s = "waiting" THEN 1 ELSE 0) - (IF thread[t] = "waiting" THEN 1 ELSE 0)
    BY <2>1, Moves
  <2> QED BY <2>1, <2>2, <2>3
<1>2. TypeInv' BY <1>1 DEF IInv, TypeInv, counters, ports
<1>3. InLine'
  BY <1>1 DEF IInv, TypeInv, InLine, Busy, ports
<1>4. Counted'
  <2>1. idle' = idle /\ active' = active /\ startPort' = startPort /\ threadPort' = threadPort
    BY DEF counters, ports
  <2>2. idle = Cardinality(Waiting) - Len(startPort) - Len(threadPort) /\ active = Outstanding
    BY DEF IInv, Counted
  <2>3. active' = Outstanding' BY <1>1, <2>1, <2>2 DEF Outstanding
  <2>4. idle' = Cardinality(Waiting') - Len(startPort') - Len(threadPort') BY <1>1, <2>1, <2>2
  <2> QED BY <2>3, <2>4 DEF Counted
<1>5. Quiet' BY DEF IInv, Quiet, counters
<1> QED BY <1>2, <1>3, <1>4, <1>5 DEF IInv

\* A message on thread_port replaces the thread that was to send it, and the
\* thread joins the line of those that wait.
LEMMA Reported ==
  ASSUME IInv, NEW t \in Threads, NEW j \in GoodJobs, NEW q \in Seq(Threads \cup {Task}),
         thread[t] \in Busy, ReportAndWait(t, j, q), finished' \subseteq Branches,
         UNCHANGED <<pc, todo, counters, job, startPort, passes>>
  PROVE  IInv'
<1>1. /\ thread' \in [Threads -> States]
      /\ Cardinality(Reporting') = Cardinality(Reporting) - 1
      /\ Cardinality(Waiting') = Cardinality(Waiting) + 1
  <2>1. TypeInv /\ "waiting" \in States /\ "waiting" \notin Busy /\ thread[t] # "waiting"
    BY DEF IInv, States, Busy
  <2>2. Cardinality(Reporting) \in Nat /\ Cardinality(Waiting) \in Nat BY <2>1, Sizes
  <2>3. thread' = [thread EXCEPT ![t] = "waiting"] BY DEF ReportAndWait
  <2>4. /\ thread' \in [Threads -> States]
        /\ Cardinality(Reporting') = Cardinality(Reporting)
              + (IF "waiting" \in Busy THEN 1 ELSE 0) - (IF thread[t] \in Busy THEN 1 ELSE 0)
        /\ Cardinality(Waiting') = Cardinality(Waiting)
              + (IF "waiting" = "waiting" THEN 1 ELSE 0) - (IF thread[t] = "waiting" THEN 1 ELSE 0)
    BY <2>1, <2>3, Moves
  <2> QED BY <2>1, <2>2, <2>4
<1>2. /\ threadPort' \in Seq(GoodJobs) /\ Len(threadPort') = Len(threadPort) + 1
      /\ Len(threadPort) \in Nat
  BY Appended, Sizes DEF IInv, TypeInv, ReportAndWait
<1>3. /\ requests' \in Seq(Threads) /\ Len(requests') = Len(requests) + 1
      /\ Len(requests) \in Nat
      /\ \A i \in 1..Len(requests) : requests'[i] = requests[i]
      /\ requests'[Len(requests) + 1] = t
  BY Appended, Sizes DEF IInv, TypeInv, ReportAndWait
<1>4. parent' \in {parent, "ready"} /\ ready' \in Seq(Threads \cup {Task})
  <2>1. Append(q, Task) \in Seq(Threads \cup {Task}) BY Appended
  <2> QED BY <2>1 DEF ReportAndWait
<1>5. TypeInv' BY <1>1, <1>2, <1>3, <1>4 DEF IInv, TypeInv, counters
<1>6. InLine'
  <2>1. \A i \in 1..Len(requests) : thread[requests[i]] = "waiting" /\ requests[i] # t
    BY DEF IInv, InLine, Busy
  <2>2. \A i \in 1..Len(requests) : requests[i] \in Threads BY ElementOfSeq DEF IInv, TypeInv
  <2>3. thread' = [thread EXCEPT ![t] = "waiting"] /\ thread \in [Threads -> States]
    BY DEF ReportAndWait, IInv, TypeInv
  <2>4. \A i \in 1..Len(requests') : i \in 1..Len(requests) \/ i = Len(requests) + 1
    BY <1>3
  <2>5. \A i \in 1..Len(requests') : thread'[requests'[i]] = "waiting"
    BY <1>3, <2>1, <2>2, <2>3, <2>4
  <2>6. \A i, k \in 1..Len(requests) : requests[i] = requests[k] => i = k BY DEF IInv, InLine
  <2>7. \A i, k \in 1..Len(requests') : requests'[i] = requests'[k] => i = k
    BY <1>3, <2>1, <2>4, <2>6
  <2>8. Len(requests') = Cardinality(Waiting') BY <1>1, <1>3 DEF IInv, InLine
  <2> QED BY <2>5, <2>7, <2>8 DEF InLine
<1>7. Counted'
  <2>1. idle' = idle /\ active' = active /\ startPort' = startPort BY DEF counters
  <2>2. idle = Cardinality(Waiting) - Len(startPort) - Len(threadPort) /\ active = Outstanding
    BY DEF IInv, Counted
  <2>3. /\ Cardinality(Reporting) \in Nat /\ Cardinality(Waiting) \in Nat
        /\ Len(startPort) \in Nat /\ Len(threadPort) \in Nat
    BY Sizes DEF IInv
  <2>4. active' = Outstanding' BY <1>1, <1>2, <2>1, <2>2, <2>3 DEF Outstanding
  <2>5. idle' = Cardinality(Waiting') - Len(startPort') - Len(threadPort')
    BY <1>1, <1>2, <2>1, <2>2, <2>3
  <2> QED BY <2>4, <2>5 DEF Counted
<1>8. Quiet' BY DEF IInv, Quiet, counters
<1> QED BY <1>5, <1>6, <1>7, <1>8 DEF IInv

\* The first thread in line is given the oldest branch: one message more to come
\* from a thread, one fewer on start_port.
LEMMA DeliverStep == ASSUME IInv, Deliver PROVE IInv'
<1> DEFINE t == Head(requests)
<1>1. /\ t \in Threads /\ t = requests[1]
      /\ requests' \in Seq(Threads) /\ Len(requests') = Len(requests) - 1
      /\ Len(requests) \in Nat /\ Len(requests) >= 1
      /\ \A i \in 1..Len(requests) - 1 : requests'[i] = requests[i + 1]
  BY Taken DEF IInv, TypeInv, Deliver
<1>2. /\ Head(startPort) \in GoodJobs
      /\ startPort' \in Seq(GoodJobs) /\ Len(startPort') = Len(startPort) - 1
  BY Taken DEF IInv, TypeInv, Deliver
<1>3. /\ thread' = [thread EXCEPT ![t] = "ready"] /\ ready' = Append(ready, t)
      /\ job' = [job EXCEPT ![t] = Head(startPort)]
  BY DEF Deliver
<1>4. thread[t] = "waiting" BY <1>1 DEF IInv, InLine
<1>5. /\ thread' \in [Threads -> States]
      /\ Cardinality(Reporting') = Cardinality(Reporting) + 1
      /\ Cardinality(Waiting') = Cardinality(Waiting) - 1
  <2>1. TypeInv /\ "ready" \in States /\ "ready" \in Busy /\ thread[t] \notin Busy
    BY <1>4 DEF IInv, States, Busy
  <2>2. Cardinality(Reporting) \in Nat /\ Cardinality(Waiting) \in Nat BY <2>1, Sizes
  <2>3. /\ thread' \in [Threads -> States]
        /\ Cardinality(Reporting') = Cardinality(Reporting)
              + (IF "ready" \in Busy THEN 1 ELSE 0) - (IF thread[t] \in Busy THEN 1 ELSE 0)
        /\ Cardinality(Waiting') = Cardinality(Waiting)
              + (IF "ready" = "waiting" THEN 1 ELSE 0) - (IF thread[t] = "waiting" THEN 1 ELSE 0)
    BY <1>1, <1>3, <2>1, Moves
  <2> QED BY <1>4, <2>1, <2>2, <2>3
<1>6. ready' \in Seq(Threads \cup {Task}) BY <1>1, <1>3, Appended DEF IInv, TypeInv
<1>7. job' \in [Threads -> GoodJobs] BY <1>2, <1>3 DEF IInv, TypeInv
<1>8. TypeInv'
  BY <1>1, <1>2, <1>5, <1>6, <1>7 DEF IInv, TypeInv, Deliver, counters
<1>9. InLine'
  <2>1. \A i \in 1..Len(requests) : thread[requests[i]] = "waiting" BY DEF IInv, InLine
  <2>2. \A i \in 1..Len(requests) : requests[i] \in Threads BY ElementOfSeq DEF IInv, TypeInv
  <2>3. \A i, k \in 1..Len(requests) : requests[i] = requests[k] => i = k BY DEF IInv, InLine
  <2>4. \A i \in 1..Len(requests') : /\ i + 1 \in 1..Len(requests) /\ i + 1 # 1
                                     /\ requests'[i] = requests[i + 1]
    BY <1>1
  <2>5. \A i \in 1..Len(requests') : requests'[i] # t
    <3>1. 1 \in 1..Len(requests) BY <1>1
    <3> QED BY <1>1, <2>3, <2>4, <3>1
  <2>6. thread \in [Threads -> States] BY DEF IInv, TypeInv
  <2>7. \A i \in 1..Len(requests') : thread'[requests'[i]] = "waiting"
    BY <1>3, <2>1, <2>2, <2>4, <2>5, <2>6
  <2>8. \A i, k \in 1..Len(requests') : requests'[i] = requests'[k] => i = k
    BY <1>1, <2>3, <2>4
  <2>9. Len(requests') = Cardinality(Waiting') BY <1>1, <1>5 DEF IInv, InLine
  <2> QED BY <2>7, <2>8, <2>9 DEF InLine
<1>10. Counted'
  <2>1. idle' = idle /\ active' = active /\ threadPort' = threadPort BY DEF Deliver, counters
  <2>2. idle = Cardinality(Waiting) - Len(startPort) - Len(threadPort) /\ active = Outstanding
    BY DEF IInv, Counted
  <2>3. /\ Cardinality(Reporting) \in Nat /\ Cardinality(Waiting) \in Nat
        /\ Len(startPort) \in Nat /\ Len(threadPort) \in Nat
    BY Sizes DEF IInv
  <2>4. active' = Outstanding' BY <1>2, <1>5, <2>1, <2>2, <2>3 DEF Outstanding
  <2>5. idle' = Cardinality(Waiting') - Len(startPort') - Len(threadPort')
    BY <1>2, <1>5, <2>1, <2>2, <2>3
  <2> QED BY <2>4, <2>5 DEF Counted
<1>11. Quiet' BY DEF IInv, Quiet, Deliver, counters
<1> QED BY <1>8, <1>9, <1>10, <1>11 DEF IInv

\* No step of a thread, of the dispatcher or of the processor disturbs it.
LEMMA OtherKeeps == ASSUME IInv, OtherStep PROVE IInv'
<1>1. ready \in Seq(Threads \cup {Task}) BY DEF IInv, TypeInv
<1>2. ready # <<>> => Tail(ready) \in Seq(Threads \cup {Task}) BY <1>1, Taken
<1>3. \A t \in Threads \cup {Task} : Append(ready, t) \in Seq(Threads \cup {Task})
  BY <1>1, Appended
<1>4. CASE TaskReturns
  BY <1>3, <1>4, Undisturbed DEF TaskReturns, IInv, TypeInv, counters, ports
<1>5. CASE TaskRuns
  BY <1>2, <1>5, Undisturbed DEF TaskRuns, Dispatched, IInv, TypeInv, counters, ports
<1>6. CASE Deliver BY <1>6, DeliverStep
<1>7. ASSUME NEW t \in Threads, ThreadStarts(t) PROVE IInv'
  <2>1. Announcement \in GoodJobs BY DEF Announcement, GoodJobs, Jobs
  <2>2. finished' \subseteq Branches BY <1>7 DEF ThreadStarts, IInv, TypeInv
  <2>3. thread[t] \in Busy /\ Tail(ready) \in Seq(Threads \cup {Task})
    BY <1>2, <1>7 DEF ThreadStarts, Dispatched, Busy
  <2>4. /\ ReportAndWait(t, Announcement, Tail(ready))
        /\ UNCHANGED <<pc, todo, counters, job, startPort, passes>>
    BY <1>7 DEF ThreadStarts
  <2> QED BY <2>1, <2>2, <2>3, <2>4, Reported
<1>8. ASSUME NEW t \in Threads, ThreadRuns(t) PROVE IInv'
  <2>1. /\ thread[t] \in Busy /\ "running" \in Busy
        /\ ready' \in Seq(Threads \cup {Task}) /\ thread' = [thread EXCEPT ![t] = "running"]
        /\ UNCHANGED <<pc, parent, todo, counters, job, ports, finished, passes>>
    BY <1>2, <1>8 DEF ThreadRuns, Dispatched, Busy
  <2> QED BY <2>1, Busied
<1>9. ASSUME NEW t \in Threads, ThreadCalls(t) PROVE IInv'
  <2>1. /\ thread[t] \in Busy /\ "away" \in Busy
        /\ ready' \in Seq(Threads \cup {Task}) /\ thread' = [thread EXCEPT ![t] = "away"]
        /\ UNCHANGED <<pc, parent, todo, counters, job, ports, finished, passes>>
    BY <1>1, <1>9 DEF ThreadCalls, Busy
  <2> QED BY <2>1, Busied
<1>10. ASSUME NEW t \in Threads, ThreadReturns(t) PROVE IInv'
  <2>1. /\ thread[t] \in Busy /\ "ready" \in Busy
        /\ ready' \in Seq(Threads \cup {Task}) /\ thread' = [thread EXCEPT ![t] = "ready"]
        /\ UNCHANGED <<pc, parent, todo, counters, job, ports, finished, passes>>
    BY <1>3, <1>10 DEF ThreadReturns, Busy
  <2> QED BY <2>1, Busied
<1>11. ASSUME NEW t \in Threads, ThreadEnds(t) PROVE IInv'
  <2>1. job[t] \in GoodJobs /\ finished \subseteq Branches BY DEF IInv, TypeInv
  <2>2. finished' \subseteq Branches BY <1>11, <2>1 DEF ThreadEnds, GoodJobs
  <2>3. thread[t] \in Busy BY <1>11 DEF ThreadEnds, Busy
  <2>4. /\ ReportAndWait(t, job[t], ready)
        /\ UNCHANGED <<pc, todo, counters, job, startPort, passes>>
    BY <1>11 DEF ThreadEnds
  <2> QED BY <1>1, <2>1, <2>2, <2>3, <2>4, Reported
<1> QED BY <1>4, <1>5, <1>6, <1>7, <1>8, <1>9, <1>10, <1>11 DEF OtherStep

-----------------------------------------------------------------------------
\* The invariant says that the counters are exact and the flush complete.
LEMMA Implied == IInv => Consistent
<1> SUFFICES ASSUME IInv PROVE Consistent OBVIOUS
<1>1. /\ IsFiniteSet(Reporting) /\ Cardinality(Reporting) \in Nat
      /\ Cardinality(Waiting) \in Nat
      /\ Cardinality(Created) = Cardinality(Reporting) + Cardinality(Waiting)
      /\ Cardinality(Threads) \in Nat /\ Cardinality(Created) <= Cardinality(Threads)
      /\ Len(startPort) \in Nat /\ Len(threadPort) \in Nat
  BY Sizes DEF IInv
<1>2. /\ active = Cardinality(Reporting) + Len(startPort) + Len(threadPort)
      /\ idle = Cardinality(Waiting) - Len(startPort) - Len(threadPort)
      /\ idle \in Nat
  BY DEF IInv, TypeInv, Counted, Outstanding
<1>3. idle \in 0..Cardinality(Threads) /\ active \in 0..Cardinality(Threads) BY <1>1, <1>2
<1>4. TypeOK
  <2>1. GoodJobs \subseteq Jobs BY DEF GoodJobs
  <2>2. job \in [Threads -> Jobs] BY <2>1 DEF IInv, TypeInv
  <2>3. startPort \in Seq(Jobs) /\ threadPort \in Seq(Jobs)
    BY <2>1, SeqMonotonic DEF IInv, TypeInv
  <2> QED BY <1>3, <2>2, <2>3 DEF IInv, TypeInv, TypeOK, States
<1>5. ActiveIsOutstanding BY <1>1, <1>2 DEF ActiveIsOutstanding, Outstanding
<1>6. BranchesHaveThreads BY <1>1, <1>2 DEF BranchesHaveThreads, IInv, InLine
<1>7. CycleLeavesNothing
  <2> SUFFICES ASSUME pc = "idle"
               PROVE  /\ threadPort = <<>> /\ startPort = <<>>
                      /\ \A t \in Created : thread[t] = "waiting"
    BY DEF CycleLeavesNothing
  <2>1. active = 0 BY DEF IInv, Quiet
  <2>2. Cardinality(Reporting) = 0 /\ Len(startPort) = 0 /\ Len(threadPort) = 0 BY <1>1, <1>2, <2>1
  <2>3. threadPort = <<>> /\ startPort = <<>> BY <2>2, EmptySeq DEF IInv, TypeInv
  <2>4. Reporting = {} BY <1>1, <2>2, FS_EmptySet
  <2>5. \A t \in Created : thread[t] = "waiting"
    BY <2>4 DEF Created, Reporting, IInv, TypeInv, States
  <2> QED BY <2>3, <2>5
<1> QED BY <1>4, <1>5, <1>6, <1>7 DEF Consistent

\* For every number of branches and threads and every quorum: active_threads counts
\* the messages still to come (instance.cc:1791), idle_threads never promises a
\* thread that is not there (1711-1741), and flush_threads (1759) leaves no branch
\* and no report behind.
THEOREM Bookkeeping == Spec => []Consistent
<1>1. Init => IInv BY InitInv
<1>2. IInv /\ [Next]_vars => IInv'
  <2> SUFFICES ASSUME IInv, [Next]_vars PROVE IInv' OBVIOUS
  <2>1. CASE ParentStep BY <2>1, ParentKeeps
  <2>2. CASE OtherStep BY <2>2, OtherKeeps
  <2>3. CASE UNCHANGED vars
    BY <2>3, Undisturbed DEF vars, counters, ports, IInv, TypeInv
  <2> QED BY <2>1, <2>2, <2>3 DEF Next
<1> QED BY <1>1, <1>2, Implied, PTL DEF Spec
=============================================================================

--------------------------- MODULE DispatchProofs ---------------------------
(***************************************************************************)
(* For every number of threads, clients, descriptors and bytes of a pipe:  *)
(* the safety properties of Dispatch.                                      *)
(*                                                                         *)
(* OneHome and RightWorker are inductive together with what each thread    *)
(* has in its hand at each of its steps (Hands) and with the kernel's part *)
(* (BacklogOfPort); NoLostWakeup needs the types alone.                    *)
(***************************************************************************)
EXTENDS Dispatch, TLAPS

\* What the threads have in their hands at each step.
Hands ==
  /\ main.pc \in {"lock", "push"} => main.fd \in Fds
  /\ main.pc \notin {"lock", "push"} => main.fd = NoFd
  /\ main.pc # "idle" => main.thread \in Threads
  /\ \A t \in Threads :
       /\ wpc[t] \in {"loop", "lock", "pop"} => wfd[t] = NoFd
       /\ wpc[t] \in {"conn_new", "close1", "close2"} => wfd[t] \in Fds
       /\ wpc[t] = "close1" => wfd[t] \in events[t]

\* The kernel queues a client at the port it connects to.
BacklogOfPort ==
  \A p \in Threads : \A i \in 1..Len(backlog[p]) : PortOf[backlog[p][i]] = p

IInv ==
  TypeOK /\ Hands /\ BacklogOfPort /\ NoLostWakeup /\ OneHome /\ RightWorker

-----------------------------------------------------------------------------
(* Queues.                                                                 *)

\* Pushing adds an element.
LEMMA PushSet ==
  ASSUME NEW S, NEW q \in Seq(S), NEW x \in S
  PROVE  ToSet(Append(q, x)) = ToSet(q) \cup {x}
<1>1. /\ DOMAIN q = 1..Len(q) /\ Len(q) \in Nat
      /\ DOMAIN Append(q, x) = 1..Len(q) + 1
      /\ \A i \in 1..Len(q) : Append(q, x)[i] = q[i]
      /\ Append(q, x)[Len(q) + 1] = x
  OBVIOUS
<1>2. ASSUME NEW y \in ToSet(Append(q, x)) PROVE y \in ToSet(q) \cup {x}
  BY <1>1 DEF ToSet
<1>3. ASSUME NEW y \in ToSet(q) \cup {x} PROVE y \in ToSet(Append(q, x))
  <2>1. PICK i \in 1..Len(q) + 1 : y = Append(q, x)[i]
    BY <1>1 DEF ToSet
  <2> QED
    BY <2>1, <1>1 DEF ToSet
<1> QED
  BY <1>2, <1>3

\* Pushing what is not there yet keeps the elements distinct.
LEMMA PushInjective ==
  ASSUME NEW S, NEW q \in Seq(S), NEW x \in S, IsInjective(q), x \notin ToSet(q)
  PROVE  IsInjective(Append(q, x))
  BY DEF ToSet, IsInjective

\* Popping takes the head, and only the head, out of a queue of distinct
\* elements.
LEMMA PopSet ==
  ASSUME NEW S, NEW q \in Seq(S), q # <<>>, IsInjective(q)
  PROVE  /\ ToSet(Tail(q)) = ToSet(q) \ {Head(q)}
         /\ Head(q) \in ToSet(q)
         /\ IsInjective(Tail(q))
<1>1. Head(q) = q[1] /\ 1 \in DOMAIN q
  OBVIOUS
<1>2. /\ Len(Tail(q)) = Len(q) - 1
      /\ \A i \in 1..Len(q) - 1 : Tail(q)[i] = q[i + 1]
  OBVIOUS
<1>3. DOMAIN q = 1..Len(q) /\ DOMAIN Tail(q) = 1..Len(q) - 1 /\ Len(q) \in Nat
  BY <1>2
<1>4. ASSUME NEW x \in ToSet(Tail(q)) PROVE x \in ToSet(q) \ {Head(q)}
  BY <1>1, <1>2, <1>3 DEF ToSet, IsInjective
<1>5. ASSUME NEW x \in ToSet(q) \ {Head(q)} PROVE x \in ToSet(Tail(q))
  <2>1. PICK i \in 1..Len(q) : x = q[i]
    BY <1>3 DEF ToSet
  <2>2. i # 1
    BY <2>1, <1>1
  <2>3. i - 1 \in 1..Len(q) - 1 /\ Tail(q)[i - 1] = x
    BY <2>1, <2>2, <1>2, <1>3
  <2> QED
    BY <2>3, <1>3 DEF ToSet
<1>6. Head(q) \in ToSet(q)
  BY <1>1 DEF ToSet
<1>7. IsInjective(Tail(q))
  BY <1>2, <1>3 DEF IsInjective
<1> QED
  BY <1>4, <1>5, <1>6, <1>7

-----------------------------------------------------------------------------
\* Every step keeps the types.
LEMMA TypeStep == IInv /\ [Next]_vars => TypeOK'
<1> SUFFICES ASSUME IInv, [Next]_vars PROVE TypeOK'
  OBVIOUS
<1> USE DispatchAssumption DEF IInv
<1>0. CASE UNCHANGED vars
  BY <1>0 DEF vars, TypeOK
<1>1. ASSUME NEW c \in Clients, Connect(c) PROVE TypeOK'
  BY <1>1 DEF Connect, workerVars, TypeOK
<1>2. ASSUME NEW c \in Clients, Leave(c) PROVE TypeOK'
  BY <1>2 DEF Leave, workerVars, TypeOK
<1>3. ASSUME NEW p \in Threads, Accept(p) PROVE TypeOK'
  BY SMTT(30), <1>3 DEF Accept, FreeFds, TargetThread, workerVars, TypeOK
<1>4. ASSUME NEW p \in Threads, AcceptUndone(p) PROVE TypeOK'
  <2>1. backlog[p] # <<>> /\ backlog[p] \in Seq(Clients)
    BY <1>4 DEF AcceptUndone, TypeOK
  <2>2. Head(backlog[p]) \in Clients /\ Tail(backlog[p]) \in Seq(Clients)
    BY <2>1
  <2>3. /\ phase' = [phase EXCEPT ![Head(backlog[p])] = "away"]
        /\ backlog' = [backlog EXCEPT ![p] = Tail(backlog[p])]
        /\ UNCHANGED <<owner, main, conqlock, queue, pipe, workerVars, up>>
    BY <1>4 DEF AcceptUndone
  <2>4. phase' \in [Clients -> {"away", "here", "left"}]
    BY <2>2, <2>3 DEF TypeOK
  <2>5. backlog' \in [Threads -> Seq(Clients)]
    BY <2>2, <2>3 DEF TypeOK
  <2> QED
    BY <2>3, <2>4, <2>5 DEF workerVars, TypeOK
<1>5. ASSUME NEW p \in Threads, TooManyOpen(p) PROVE TypeOK'
  BY <1>5 DEF TooManyOpen, clientVars, workerVars, TypeOK
<1>6. CASE MainLock
  BY <1>6
     DEF MainLock, MainGoesOn, MainNext, clientVars, workerVars,
         TypeOK, Hands
<1>7. CASE MainPush
  BY <1>7
     DEF MainPush, MainGoesOn, MainNext, clientVars, workerVars,
         TypeOK, Hands
<1>8. CASE MainUnlock
  BY <1>8
     DEF MainUnlock, MainGoesOn, MainNext, clientVars, workerVars,
         TypeOK, Hands
<1>9. CASE MainNotify
  BY <1>9
     DEF MainNotify, MainGoesOn, MainNext, Idle, PipeHasRoom,
         clientVars, workerVars, TypeOK, Hands
<1>10. ASSUME NEW t \in Threads, WorkerWakes(t) PROVE TypeOK'
  BY <1>10 DEF WorkerWakes, BytesRead, clientVars, TypeOK
<1>11. ASSUME NEW t \in Threads, WorkerLock(t) PROVE TypeOK'
  BY <1>11 DEF WorkerLock, clientVars, TypeOK
<1>12. ASSUME NEW t \in Threads, WorkerPop(t) PROVE TypeOK'
  <2>1. CASE queue[t] = <<>>
    BY <2>1, <1>12 DEF WorkerPop, clientVars, TypeOK
  <2>2. CASE queue[t] # <<>>
    <3>1. Head(queue[t]) \in Fds /\ Tail(queue[t]) \in Seq(Fds)
      BY <2>2 DEF TypeOK
    <3>2. queue' \in [Threads -> Seq(Fds)]
      BY <2>2, <3>1, <1>12 DEF WorkerPop, TypeOK
    <3>3. wfd' \in [Threads -> Fds \cup {NoFd}]
      BY <2>2, <3>1, <1>12 DEF WorkerPop, TypeOK
    <3> QED BY <3>2, <3>3, <1>12 DEF WorkerPop, clientVars, TypeOK
  <2> QED BY <2>1, <2>2
<1>13. ASSUME NEW t \in Threads, WorkerUnlock(t) PROVE TypeOK'
  BY <1>13 DEF WorkerUnlock, clientVars, TypeOK
<1>14. ASSUME NEW t \in Threads, ConnNew(t) PROVE TypeOK'
  BY <1>14 DEF ConnNew, clientVars, TypeOK, Hands
<1>15. ASSUME NEW t \in Threads, EventDel(t) PROVE TypeOK'
  BY <1>15 DEF EventDel, AfterClose, clientVars, TypeOK
<1>16. ASSUME NEW t \in Threads, CloseFd(t) PROVE TypeOK'
  <2>1. /\ owner' \in [Fds -> Clients \cup {NoClient}]
        /\ phase' \in [Clients -> {"away", "here", "left"}]
    BY <1>16 DEF CloseFd, TypeOK
  <2>2. /\ wfd' \in [Threads -> Fds \cup {NoFd}]
        /\ wpc' \in [Threads -> {"loop", "lock", "pop", "unlock", "conn_new",
                               "close1", "close2"}]
    BY <1>16 DEF CloseFd, AfterClose, TypeOK
  <2> QED BY <2>1, <2>2, <1>16 DEF CloseFd, TypeOK
<1>17. ASSUME NEW t \in Threads, NEW fd \in Fds, DecideClose(t, fd)
       PROVE  TypeOK'
  BY <1>17 DEF DecideClose, clientVars, TypeOK
<1> QED
  BY <1>0, <1>1, <1>2, <1>3, <1>4, <1>5, <1>6, <1>7, <1>8, <1>9, <1>10, <1>11,
     <1>12, <1>13, <1>14, <1>15, <1>16, <1>17
     DEF Next, MainThread, Worker

\* Every step keeps what threads have in their hands, and the backlogs.
LEMMA HandsStep == IInv /\ [Next]_vars => (Hands /\ BacklogOfPort)'
<1> SUFFICES ASSUME IInv, [Next]_vars PROVE (Hands /\ BacklogOfPort)'
  OBVIOUS
<1> USE DispatchAssumption DEF IInv
<1>0. CASE UNCHANGED vars
  BY <1>0 DEF vars, Hands, BacklogOfPort
<1>1. ASSUME NEW c \in Clients, Connect(c) PROVE (Hands /\ BacklogOfPort)'
  <2>1. Hands'
    BY <1>1 DEF Connect, workerVars, Hands
  <2>2. ASSUME NEW p \in Threads, NEW i \in 1..Len(backlog'[p])
        PROVE  PortOf[backlog'[p][i]] = p
    <3>1. CASE p # PortOf[c]
      BY <3>1, <1>1 DEF Connect, TypeOK, BacklogOfPort
    <3>2. CASE p = PortOf[c]
      <4>1. backlog'[p] = Append(backlog[p], c) /\ backlog[p] \in Seq(Clients)
        BY <3>2, <1>1 DEF Connect, TypeOK
      <4>2. i = Len(backlog[p]) + 1 \/ i \in 1..Len(backlog[p])
        BY <4>1
      <4> QED BY <3>2, <4>1, <4>2 DEF BacklogOfPort
    <3> QED BY <3>1, <3>2
  <2> QED BY <2>1, <2>2 DEF BacklogOfPort
<1>2. ASSUME NEW c \in Clients, Leave(c) PROVE (Hands /\ BacklogOfPort)'
  BY <1>2 DEF Leave, workerVars, Hands, BacklogOfPort
<1>3. ASSUME NEW p \in Threads, Accept(p) PROVE (Hands /\ BacklogOfPort)'
  <2>1. Hands'
    BY <1>3 DEF Accept, FreeFds, TargetThread, workerVars, Hands
  <2>2. ASSUME NEW q \in Threads, NEW i \in 1..Len(backlog'[q])
        PROVE  PortOf[backlog'[q][i]] = q
    <3>1. CASE q # p
      BY <3>1, <1>3 DEF Accept, TypeOK, BacklogOfPort
    <3>2. CASE q = p
      <4>1. /\ backlog'[p] = Tail(backlog[p]) /\ backlog[p] # <<>>
            /\ backlog[p] \in Seq(Clients)
        BY <1>3 DEF Accept, TypeOK
      <4>2. i + 1 \in 1..Len(backlog[p]) /\ backlog'[p][i] = backlog[p][i + 1]
        BY <3>2, <4>1
      <4> QED BY <3>2, <4>2 DEF BacklogOfPort
    <3> QED BY <3>1, <3>2
  <2> QED BY <2>1, <2>2 DEF BacklogOfPort
<1>4. ASSUME NEW p \in Threads, AcceptUndone(p) PROVE (Hands /\ BacklogOfPort)'
  <2>1. Hands'
    BY <1>4 DEF AcceptUndone, workerVars, Hands
  <2>2. ASSUME NEW q \in Threads, NEW i \in 1..Len(backlog'[q])
        PROVE  PortOf[backlog'[q][i]] = q
    <3>1. CASE q # p
      BY <3>1, <1>4 DEF AcceptUndone, TypeOK, BacklogOfPort
    <3>2. CASE q = p
      <4>1. /\ backlog'[p] = Tail(backlog[p]) /\ backlog[p] # <<>>
            /\ backlog[p] \in Seq(Clients)
        BY <1>4 DEF AcceptUndone, TypeOK
      <4>2. i + 1 \in 1..Len(backlog[p]) /\ backlog'[p][i] = backlog[p][i + 1]
        BY <3>2, <4>1
      <4> QED BY <3>2, <4>2 DEF BacklogOfPort
    <3> QED BY <3>1, <3>2
  <2> QED BY <2>1, <2>2 DEF BacklogOfPort
<1>5. ASSUME NEW p \in Threads, TooManyOpen(p) PROVE (Hands /\ BacklogOfPort)'
  BY <1>5 DEF TooManyOpen, clientVars, workerVars, Hands, BacklogOfPort
<1>6. CASE MainLock
  BY <1>6
     DEF MainLock, MainGoesOn, MainNext, clientVars, workerVars,
         Hands, BacklogOfPort
<1>7. CASE MainPush
  BY <1>7
     DEF MainPush, MainGoesOn, MainNext, clientVars, workerVars,
         Hands, BacklogOfPort
<1>8. CASE MainUnlock
  BY <1>8
     DEF MainUnlock, MainGoesOn, MainNext, clientVars, workerVars,
         Hands, BacklogOfPort
<1>9. CASE MainNotify
  BY <1>9
     DEF MainNotify, MainGoesOn, MainNext, Idle, clientVars,
         workerVars, Hands, BacklogOfPort
<1>10. ASSUME NEW t \in Threads, WorkerWakes(t) PROVE (Hands /\ BacklogOfPort)'
  BY <1>10 DEF WorkerWakes, clientVars, Hands, BacklogOfPort
<1>11. ASSUME NEW t \in Threads, WorkerLock(t) PROVE (Hands /\ BacklogOfPort)'
  BY <1>11 DEF WorkerLock, clientVars, Hands, BacklogOfPort
<1>12. ASSUME NEW t \in Threads, WorkerPop(t) PROVE (Hands /\ BacklogOfPort)'
  <2>1. wpc' = [wpc EXCEPT ![t] = "unlock"]
        /\ UNCHANGED <<clientVars, main, events>>
        /\ \A u \in Threads : u # t => wfd'[u] = wfd[u]
    BY <1>12 DEF WorkerPop, TypeOK
  <2> QED BY <2>1 DEF clientVars, TypeOK, Hands, BacklogOfPort
<1>13. ASSUME NEW t \in Threads, WorkerUnlock(t)
       PROVE  (Hands /\ BacklogOfPort)'
  BY <1>13 DEF WorkerUnlock, clientVars, TypeOK, Hands, BacklogOfPort
<1>14. ASSUME NEW t \in Threads, ConnNew(t) PROVE (Hands /\ BacklogOfPort)'
  BY SMTT(30), <1>14 DEF ConnNew, clientVars, TypeOK, Hands, BacklogOfPort
<1>15. ASSUME NEW t \in Threads, EventDel(t) PROVE (Hands /\ BacklogOfPort)'
  BY <1>15 DEF EventDel, AfterClose, clientVars, TypeOK, Hands, BacklogOfPort
<1>16. ASSUME NEW t \in Threads, CloseFd(t) PROVE (Hands /\ BacklogOfPort)'
  BY <1>16 DEF CloseFd, AfterClose, TypeOK, Hands, BacklogOfPort
<1>17. ASSUME NEW t \in Threads, NEW fd \in Fds, DecideClose(t, fd)
       PROVE  (Hands /\ BacklogOfPort)'
  BY <1>17 DEF DecideClose, clientVars, TypeOK, Hands, BacklogOfPort
<1> QED
  BY <1>0, <1>1, <1>2, <1>3, <1>4, <1>5, <1>6, <1>7, <1>8, <1>9, <1>10, <1>11,
     <1>12, <1>13, <1>14, <1>15, <1>16, <1>17
     DEF Next, MainThread, Worker

\* Every step keeps queue and pipe in agreement.
LEMMA WakeupStep == IInv /\ [Next]_vars => NoLostWakeup'
<1> SUFFICES ASSUME IInv, [Next]_vars PROVE NoLostWakeup'
  OBVIOUS
<1> USE DispatchAssumption DEF IInv
<1>0. CASE UNCHANGED vars
  BY <1>0 DEF vars, NoLostWakeup
<1>1. ASSUME NEW c \in Clients, Connect(c) PROVE NoLostWakeup'
  BY <1>1 DEF Connect, workerVars, NoLostWakeup
<1>2. ASSUME NEW c \in Clients, Leave(c) PROVE NoLostWakeup'
  BY <1>2 DEF Leave, workerVars, NoLostWakeup
<1>3. ASSUME NEW p \in Threads, Accept(p) PROVE NoLostWakeup'
  BY <1>3 DEF Accept, workerVars, NoLostWakeup
<1>4. ASSUME NEW p \in Threads, AcceptUndone(p) PROVE NoLostWakeup'
  BY <1>4 DEF AcceptUndone, workerVars, NoLostWakeup
<1>5. ASSUME NEW p \in Threads, TooManyOpen(p) PROVE NoLostWakeup'
  BY <1>5 DEF TooManyOpen, workerVars, NoLostWakeup
<1>6. CASE MainLock
  BY <1>6 DEF MainLock, MainGoesOn, MainNext, workerVars, NoLostWakeup
<1>7. CASE MainPush
  BY <1>7
     DEF MainPush, MainGoesOn, MainNext, workerVars, TypeOK,
         NoLostWakeup, One
<1>8. CASE MainUnlock
  BY <1>8 DEF MainUnlock, MainGoesOn, MainNext, workerVars, NoLostWakeup
<1>9. CASE MainNotify
  BY <1>9
     DEF MainNotify, MainGoesOn, MainNext, Idle, workerVars, TypeOK,
         NoLostWakeup, One
<1>10. ASSUME NEW t \in Threads, WorkerWakes(t) PROVE NoLostWakeup'
  BY <1>10 DEF WorkerWakes, BytesRead, TypeOK, NoLostWakeup, One
<1>11. ASSUME NEW t \in Threads, WorkerLock(t) PROVE NoLostWakeup'
  BY <1>11 DEF WorkerLock, NoLostWakeup
<1>12. ASSUME NEW t \in Threads, WorkerPop(t) PROVE NoLostWakeup'
  BY <1>12 DEF WorkerPop, TypeOK, NoLostWakeup, One
<1>13. ASSUME NEW t \in Threads, WorkerUnlock(t) PROVE NoLostWakeup'
  BY <1>13 DEF WorkerUnlock, NoLostWakeup
<1>14. ASSUME NEW t \in Threads, ConnNew(t) PROVE NoLostWakeup'
  BY <1>14 DEF ConnNew, NoLostWakeup
<1>15. ASSUME NEW t \in Threads, EventDel(t) PROVE NoLostWakeup'
  BY <1>15 DEF EventDel, AfterClose, NoLostWakeup
<1>16. ASSUME NEW t \in Threads, CloseFd(t) PROVE NoLostWakeup'
  BY <1>16 DEF CloseFd, AfterClose, NoLostWakeup
<1>17. ASSUME NEW t \in Threads, NEW fd \in Fds, DecideClose(t, fd)
       PROVE  NoLostWakeup'
  BY <1>17 DEF DecideClose, NoLostWakeup
<1> QED
  BY <1>0, <1>1, <1>2, <1>3, <1>4, <1>5, <1>6, <1>7, <1>8, <1>9, <1>10, <1>11,
     <1>12, <1>13, <1>14, <1>15, <1>16, <1>17
     DEF Next, MainThread, Worker
-----------------------------------------------------------------------------
(* Homes.                                                                  *)

\* A descriptor that has a home has no other.
LEMMA OnlyHome ==
  ASSUME OneHome, NEW fd \in Fds, NEW g \in Homes(fd)
  PROVE  Homes(fd) = {g} /\ owner[fd] # NoClient
  BY DEF OneHome

\* Steps that move no descriptor.
LEMMA HomesStay ==
  ASSUME OneHome, RightWorker, owner' = owner,
         \A fd \in Fds : Homes(fd)' = Homes(fd),
         \A t \in Threads : queue'[t] = queue[t]
  PROVE  (OneHome /\ RightWorker)'
  BY DEF OneHome, RightWorker

\* Steps that move one descriptor to a place of its port's worker.
LEMMA HomesMove ==
  ASSUME OneHome, RightWorker,
         NEW fd \in Fds, NEW g \in Places, Homes(fd)' = {g},
         owner'[fd] # NoClient, PortOf[owner'[fd]] = g[2],
         \A f \in Fds \ {fd} : Homes(f)' = Homes(f) /\ owner'[f] = owner[f],
         \A t \in Threads : IsInjective(queue'[t])
  PROVE  (OneHome /\ RightWorker)'
  BY DEF OneHome, RightWorker

\* The step that gives a descriptor back.
LEMMA HomesFree ==
  ASSUME OneHome, RightWorker,
         NEW fd \in Fds, Homes(fd)' = {}, owner'[fd] = NoClient,
         \A f \in Fds \ {fd} : Homes(f)' = Homes(f) /\ owner'[f] = owner[f],
         \A t \in Threads : queue'[t] = queue[t]
  PROVE  (OneHome /\ RightWorker)'
  BY DEF OneHome, RightWorker

\* No descriptor is NoFd.
LEMMA NoFdIsNone == NoFd \notin Fds
  BY DispatchAssumption

\* Every step keeps each descriptor in its one home.
LEMMA HomeStep == IInv /\ [Next]_vars => (OneHome /\ RightWorker)'
<1> SUFFICES ASSUME IInv, [Next]_vars PROVE (OneHome /\ RightWorker)'
  OBVIOUS
<1> USE DispatchAssumption DEF IInv
<1>0. CASE UNCHANGED vars
  <2>1. \A fd \in Fds : Homes(fd)' = Homes(fd)
    BY <1>0 DEF vars, Homes, Holds
  <2> QED BY <2>1, <1>0, HomesStay DEF vars
<1>1. ASSUME NEW c \in Clients, Connect(c) PROVE (OneHome /\ RightWorker)'
  <2>1. \A fd \in Fds : Homes(fd)' = Homes(fd)
    BY <1>1 DEF Connect, workerVars, Homes, Holds
  <2> QED BY <2>1, <1>1, HomesStay DEF Connect
<1>2. ASSUME NEW c \in Clients, Leave(c) PROVE (OneHome /\ RightWorker)'
  <2>1. \A fd \in Fds : Homes(fd)' = Homes(fd)
    BY <1>2, NoFdIsNone DEF Leave, workerVars, Homes, Holds
  <2> QED BY <2>1, <1>2, HomesStay DEF Leave, workerVars
<1>3. ASSUME NEW p \in Threads, Accept(p) PROVE (OneHome /\ RightWorker)'
  <2>1. PICK fd \in FreeFds :
           /\ owner' = [owner EXCEPT ![fd] = Head(backlog[p])]
           /\ main' = [pc |-> "lock", fd |-> fd, thread |-> p]
    BY <1>3 DEF Accept, TargetThread
  <2>2. fd \in Fds /\ Homes(fd) = {} /\ UNCHANGED <<queue, wpc, wfd, events>>
    BY <1>3 DEF Accept, FreeFds, OneHome, workerVars
  <2>3. main.fd = NoFd
    BY <1>3 DEF Accept, Hands
  <2> DEFINE g == <<"main", p>>
  <2>4. g \in Places
    BY DEF Places
  <2>5. Homes(fd)' = {g}
    BY <2>1, <2>2, <2>4 DEF Homes, Holds, Places
  <2>6. \A f \in Fds \ {fd} : Homes(f)' = Homes(f) /\ owner'[f] = owner[f]
    BY <2>1, <2>2, <2>3 DEF Homes, Holds
  <2>7. owner'[fd] # NoClient /\ PortOf[owner'[fd]] = g[2]
    <3>1. backlog[p] \in Seq(Clients) /\ backlog[p] # <<>>
      BY <1>3 DEF Accept, TypeOK
    <3>2. Head(backlog[p]) \in Clients /\ Head(backlog[p]) = backlog[p][1]
          /\ 1 \in 1..Len(backlog[p])
      BY <3>1
    <3>3. owner'[fd] = backlog[p][1]
      BY <3>2, <2>1, <2>2 DEF TypeOK
    <3>4. PortOf[backlog[p][1]] = p
      BY <3>2 DEF BacklogOfPort
    <3> QED BY <3>2, <3>3, <3>4
  <2>8. \A t \in Threads : IsInjective(queue'[t])
    BY <2>2 DEF OneHome
  <2> HIDE DEF g
  <2> QED BY <2>2, <2>4, <2>5, <2>6, <2>7, <2>8, HomesMove
<1>4. ASSUME NEW p \in Threads, AcceptUndone(p) PROVE (OneHome /\ RightWorker)'
  <2>1. \A fd \in Fds : Homes(fd)' = Homes(fd)
    BY <1>4, NoFdIsNone DEF AcceptUndone, workerVars, Homes, Holds
  <2> QED BY <2>1, <1>4, HomesStay DEF AcceptUndone
<1>5. ASSUME NEW p \in Threads, TooManyOpen(p) PROVE (OneHome /\ RightWorker)'
  <2>1. \A fd \in Fds : Homes(fd)' = Homes(fd)
    BY <1>5, NoFdIsNone DEF TooManyOpen, workerVars, Homes, Holds
  <2> QED BY <2>1, <1>5, HomesStay DEF TooManyOpen
<1>6. CASE MainLock
  <2>1. \A fd \in Fds : Homes(fd)' = Homes(fd)
    BY <1>6, NoFdIsNone
       DEF MainLock, MainGoesOn, MainNext, workerVars, Homes, Holds
  <2> QED BY <2>1, <1>6, HomesStay DEF MainLock, MainGoesOn, MainNext
<1>7. CASE MainPush
  <2>0. PICK fd \in Fds, t \in Threads : fd = main.fd /\ t = main.thread
    BY <1>7 DEF MainPush, Hands
  <2> DEFINE g == <<"main", t>>
             h == <<"queue", t>>
  <2>1. g \in Places /\ h \in Places /\ g # h
    BY DEF Places
  <2>2. g \in Homes(fd)
    BY <2>0, <2>1 DEF Homes, Holds
  <2>3. Homes(fd) = {g} /\ owner[fd] # NoClient /\ PortOf[owner[fd]] = t
    BY <2>2, OnlyHome DEF RightWorker
  <2>4. fd \notin ToSet(queue[t])
    <3>1. h \notin Homes(fd)
      BY <2>3
    <3> QED BY <3>1, <2>1 DEF Homes, Holds
  <2>5. queue[t] \in Seq(Fds)
    BY DEF TypeOK
  <2>6. /\ queue' = [queue EXCEPT ![t] = Append(@, fd)]
        /\ main' = [pc |-> "unlock", fd |-> NoFd, thread |-> t]
        /\ UNCHANGED <<owner, wpc, wfd, events>>
    BY <1>7, <2>0 DEF MainPush, MainGoesOn, MainNext, workerVars
  <2>7. /\ ToSet(queue'[t]) = ToSet(queue[t]) \cup {fd}
        /\ IsInjective(queue'[t])
        /\ \A u \in Threads \ {t} : queue'[u] = queue[u]
    BY <2>4, <2>5, <2>6, PushSet, PushInjective DEF OneHome, TypeOK
  <2>8. ASSUME NEW f \in Fds, NEW k \in Places
        PROVE  Holds(k, f)' <=> IF f = fd THEN k = h ELSE Holds(k, f)
    <3>1. PICK u \in Threads : k \in {<<"main", u>>, <<"queue", u>>,
                                       <<"hand", u>>, <<"events", u>>}
      BY DEF Places
    <3>2. f = fd => (Holds(k, f) <=> k = g)
      BY <2>3 DEF Homes
    <3>3. CASE k = <<"main", u>>
      BY <3>3, <2>0, <2>6, NoFdIsNone DEF Holds
    <3>4. CASE k = <<"queue", u>>
      BY <3>4, <3>2, <2>6, <2>7 DEF Holds
    <3>5. CASE k \in {<<"hand", u>>, <<"events", u>>}
      BY <3>5, <3>2, <2>6 DEF Holds
    <3> QED BY <3>1, <3>3, <3>4, <3>5
  <2>9. Homes(fd)' = {h} /\ \A f \in Fds \ {fd} : Homes(f)' = Homes(f)
    BY <2>1, <2>8 DEF Homes
  <2>10. \A u \in Threads : IsInjective(queue'[u])
    BY <2>7 DEF OneHome
  <2>11. PortOf[owner'[fd]] = h[2] /\ owner'[fd] # NoClient
    BY <2>3, <2>6
  <2> HIDE DEF h
  <2> QED BY <2>1, <2>6, <2>9, <2>10, <2>11, HomesMove
<1>8. CASE MainUnlock
  <2>1. \A fd \in Fds : Homes(fd)' = Homes(fd)
    BY <1>8, NoFdIsNone
       DEF MainUnlock, MainGoesOn, MainNext, workerVars, Homes,
           Holds
  <2> QED BY <2>1, <1>8, HomesStay DEF MainUnlock, MainGoesOn, MainNext
<1>9. CASE MainNotify
  <2>1. \A fd \in Fds : Homes(fd)' = Homes(fd)
    BY <1>9, NoFdIsNone
       DEF MainNotify, MainGoesOn, Idle, workerVars, Homes, Holds,
           Hands
  <2> QED BY <2>1, <1>9, HomesStay DEF MainNotify
<1>10. ASSUME NEW t \in Threads, WorkerWakes(t) PROVE (OneHome /\ RightWorker)'
  <2>1. \A fd \in Fds : Homes(fd)' = Homes(fd)
    BY <1>10, NoFdIsNone DEF WorkerWakes, Homes, Holds
  <2> QED BY <2>1, <1>10, HomesStay DEF WorkerWakes
<1>11. ASSUME NEW t \in Threads, WorkerLock(t) PROVE (OneHome /\ RightWorker)'
  <2>1. \A fd \in Fds : Homes(fd)' = Homes(fd)
    BY <1>11, NoFdIsNone DEF WorkerLock, Homes, Holds
  <2> QED BY <2>1, <1>11, HomesStay DEF WorkerLock
<1>12. ASSUME NEW t \in Threads, WorkerPop(t) PROVE (OneHome /\ RightWorker)'
  <2>1. CASE queue[t] = <<>>
    <3>1. wfd' = wfd /\ wfd[t] = NoFd /\ wpc' = [wpc EXCEPT ![t] = "unlock"]
          /\ UNCHANGED <<owner, main, queue, events>>
      BY <2>1, <1>12 DEF WorkerPop, Hands
    <3>2. \A fd \in Fds : Homes(fd)' = Homes(fd)
      BY <3>1, NoFdIsNone DEF Homes, Holds
    <3> QED BY <3>1, <3>2, HomesStay
  <2>2. CASE queue[t] # <<>>
    <3>0. PICK fd \in Fds : fd = Head(queue[t])
      <4>1. queue[t] \in Seq(Fds)
        BY DEF TypeOK
      <4>2. Head(queue[t]) \in Fds
        BY <4>1, <2>2
      <4> QED BY <4>2
    <3> DEFINE g == <<"queue", t>>
               h == <<"hand", t>>
    <3>1. g \in Places /\ h \in Places /\ g # h
      BY DEF Places
    <3>2. /\ ToSet(Tail(queue[t])) = ToSet(queue[t]) \ {fd}
          /\ fd \in ToSet(queue[t])
          /\ IsInjective(Tail(queue[t]))
      BY <2>2, <3>0, PopSet DEF OneHome, TypeOK
    <3>3. g \in Homes(fd)
      BY <3>1, <3>2 DEF Homes, Holds
    <3>4. Homes(fd) = {g} /\ owner[fd] # NoClient /\ PortOf[owner[fd]] = t
      BY <3>3, OnlyHome DEF RightWorker
    <3>5. /\ queue' = [queue EXCEPT ![t] = Tail(@)]
          /\ wfd' = [wfd EXCEPT ![t] = fd]
          /\ wpc' = [wpc EXCEPT ![t] = "unlock"]
          /\ UNCHANGED <<owner, main, events>>
          /\ wpc[t] = "pop"
      BY <1>12, <2>2, <3>0 DEF WorkerPop
    <3>6. ASSUME NEW f \in Fds, NEW k \in Places
          PROVE  Holds(k, f)' <=> IF f = fd THEN k = h ELSE Holds(k, f)
      <4>1. PICK u \in Threads : k \in {<<"main", u>>, <<"queue", u>>,
                                         <<"hand", u>>, <<"events", u>>}
        BY DEF Places
      <4>2. f = fd => (Holds(k, f) <=> k = g)
        BY <3>4 DEF Homes
      <4>3. CASE k \in {<<"main", u>>, <<"events", u>>}
        BY <4>3, <4>2, <3>5 DEF Holds
      <4>4. CASE k = <<"queue", u>>
        BY <4>4, <4>2, <3>2, <3>5 DEF Holds, TypeOK
      <4>5. CASE k = <<"hand", u>>
        BY <4>5, <4>2, <3>5 DEF Holds, TypeOK
      <4> QED BY <4>1, <4>3, <4>4, <4>5
    <3>7. Homes(fd)' = {h} /\ \A f \in Fds \ {fd} : Homes(f)' = Homes(f)
      BY <3>1, <3>6 DEF Homes
    <3>8. \A u \in Threads : IsInjective(queue'[u])
      BY <3>2, <3>5 DEF OneHome, TypeOK
    <3>9. PortOf[owner'[fd]] = h[2] /\ owner'[fd] # NoClient
      BY <3>4, <3>5
    <3> HIDE DEF h
    <3> QED BY <3>1, <3>5, <3>7, <3>8, <3>9, HomesMove
  <2> QED BY <2>1, <2>2
<1>13. ASSUME NEW t \in Threads, WorkerUnlock(t)
       PROVE  (OneHome /\ RightWorker)'
  <2>1. \A fd \in Fds : Homes(fd)' = Homes(fd)
    BY <1>13, NoFdIsNone DEF WorkerUnlock, Homes, Holds
  <2> QED BY <2>1, <1>13, HomesStay DEF WorkerUnlock
<1>14. ASSUME NEW t \in Threads, ConnNew(t) PROVE (OneHome /\ RightWorker)'
  <2>0. PICK fd \in Fds : fd = wfd[t]
    BY <1>14 DEF ConnNew, Hands
  <2> DEFINE g == <<"hand", t>>
             h == <<"events", t>>
  <2>1. g \in Places /\ h \in Places /\ g # h
    BY DEF Places
  <2>2. /\ events' = [events EXCEPT ![t] = @ \cup {fd}]
        /\ wfd' = [wfd EXCEPT ![t] = NoFd]
        /\ wpc' = [wpc EXCEPT ![t] = "loop"] /\ wpc[t] = "conn_new"
        /\ UNCHANGED <<owner, main, queue>>
    BY <1>14, <2>0 DEF ConnNew
  <2>3. g \in Homes(fd)
    BY <2>0, <2>1, <2>2 DEF Homes, Holds
  <2>4. Homes(fd) = {g} /\ owner[fd] # NoClient /\ PortOf[owner[fd]] = t
    BY <2>3, OnlyHome DEF RightWorker
  <2>5. ASSUME NEW f \in Fds, NEW k \in Places
        PROVE  Holds(k, f)' <=> IF f = fd THEN k = h ELSE Holds(k, f)
    <3>1. PICK u \in Threads : k \in {<<"main", u>>, <<"queue", u>>,
                                       <<"hand", u>>, <<"events", u>>}
      BY DEF Places
    <3>2. f = fd => (Holds(k, f) <=> k = g)
      BY <2>4 DEF Homes
    <3>3. CASE k \in {<<"main", u>>, <<"queue", u>>}
      BY <3>3, <3>2, <2>2 DEF Holds
    <3>4. CASE k = <<"hand", u>>
      BY <3>4, <3>2, <2>0, <2>2 DEF Holds, TypeOK
    <3>5. CASE k = <<"events", u>>
      BY <3>5, <3>2, <2>2 DEF Holds, TypeOK
    <3> QED BY <3>1, <3>3, <3>4, <3>5
  <2>6. Homes(fd)' = {h} /\ \A f \in Fds \ {fd} : Homes(f)' = Homes(f)
    BY <2>1, <2>5 DEF Homes
  <2>7. PortOf[owner'[fd]] = h[2] /\ owner'[fd] # NoClient
    BY <2>2, <2>4
  <2>8. \A u \in Threads : IsInjective(queue'[u])
    BY <2>2 DEF OneHome
  <2> HIDE DEF h
  <2> QED BY <2>1, <2>2, <2>6, <2>7, <2>8, HomesMove
<1>15. ASSUME NEW t \in Threads, EventDel(t) PROVE (OneHome /\ RightWorker)'
  <2>0. PICK fd \in Fds : fd = wfd[t]
    BY <1>15 DEF EventDel, ConnClose, Hands
  <2> DEFINE g == <<"events", t>>
             h == <<"hand", t>>
  <2>1. g \in Places /\ h \in Places /\ g # h
    BY DEF Places
  <2>2. wpc[t] = "close1"
    BY <1>15 DEF EventDel, ConnClose
  <2>3. /\ events' = [events EXCEPT ![t] = @ \ {fd}]
        /\ wpc' = [wpc EXCEPT ![t] = "close2"]
        /\ wfd' = wfd
        /\ UNCHANGED <<owner, main, queue>>
    BY <1>15, <2>0, <2>2 DEF EventDel, AfterClose, TypeOK
  <2>4. g \in Homes(fd)
    BY <2>0, <2>1, <2>2 DEF Homes, Holds, Hands
  <2>5. Homes(fd) = {g} /\ owner[fd] # NoClient /\ PortOf[owner[fd]] = t
    BY <2>4, OnlyHome DEF RightWorker
  <2>6. ASSUME NEW f \in Fds, NEW k \in Places
        PROVE  Holds(k, f)' <=> IF f = fd THEN k = h ELSE Holds(k, f)
    <3>1. PICK u \in Threads : k \in {<<"main", u>>, <<"queue", u>>,
                                       <<"hand", u>>, <<"events", u>>}
      BY DEF Places
    <3>2. f = fd => (Holds(k, f) <=> k = g)
      BY <2>5 DEF Homes
    <3>3. CASE k \in {<<"main", u>>, <<"queue", u>>}
      BY <3>3, <3>2, <2>3 DEF Holds
    <3>4. CASE k = <<"hand", u>>
      BY <3>4, <3>2, <2>0, <2>2, <2>3 DEF Holds, TypeOK
    <3>5. CASE k = <<"events", u>>
      BY <3>5, <3>2, <2>3 DEF Holds, TypeOK
    <3> QED BY <3>1, <3>3, <3>4, <3>5
  <2>7. Homes(fd)' = {h} /\ \A f \in Fds \ {fd} : Homes(f)' = Homes(f)
    BY <2>1, <2>6 DEF Homes
  <2>8. PortOf[owner'[fd]] = h[2] /\ owner'[fd] # NoClient
    BY <2>3, <2>5
  <2>9. \A u \in Threads : IsInjective(queue'[u])
    BY <2>3 DEF OneHome
  <2> HIDE DEF h
  <2> QED BY <2>1, <2>3, <2>7, <2>8, <2>9, HomesMove
<1>16. ASSUME NEW t \in Threads, CloseFd(t) PROVE (OneHome /\ RightWorker)'
  <2>0. wpc[t] = "close2"
    BY <1>16 DEF CloseFd, ConnClose
  <2>1. PICK fd \in Fds : fd = wfd[t]
    BY <2>0 DEF Hands
  <2> DEFINE g == <<"hand", t>>
  <2>2. g \in Places
    BY DEF Places
  <2>3. /\ owner' = [owner EXCEPT ![fd] = NoClient]
        /\ wpc' = [wpc EXCEPT ![t] = "loop"]
        /\ wfd' = [wfd EXCEPT ![t] = NoFd]
        /\ UNCHANGED <<main, queue, events>>
    BY <1>16, <2>0, <2>1 DEF CloseFd, AfterClose, TypeOK
  <2>4. g \in Homes(fd)
    BY <2>0, <2>1, <2>2 DEF Homes, Holds
  <2>5. Homes(fd) = {g}
    BY <2>4, OnlyHome
  <2>6. ASSUME NEW f \in Fds, NEW k \in Places
        PROVE  Holds(k, f)' <=> f # fd /\ Holds(k, f)
    <3>1. PICK u \in Threads : k \in {<<"main", u>>, <<"queue", u>>,
                                       <<"hand", u>>, <<"events", u>>}
      BY DEF Places
    <3>2. f = fd => (Holds(k, f) <=> k = g)
      BY <2>5 DEF Homes
    <3>3. CASE k \in {<<"main", u>>, <<"queue", u>>, <<"events", u>>}
      BY <3>3, <3>2, <2>3 DEF Holds
    <3>4. CASE k = <<"hand", u>>
      BY <3>4, <3>2, <2>0, <2>1, <2>3 DEF Holds, TypeOK
    <3> QED BY <3>1, <3>3, <3>4
  <2>7. Homes(fd)' = {} /\ \A f \in Fds \ {fd} : Homes(f)' = Homes(f)
    BY <2>6 DEF Homes
  <2>8. owner'[fd] = NoClient /\ \A f \in Fds \ {fd} : owner'[f] = owner[f]
    BY <2>3 DEF TypeOK
  <2> QED BY <2>3, <2>7, <2>8, HomesFree
<1>17. ASSUME NEW t \in Threads, NEW fd \in Fds, DecideClose(t, fd)
       PROVE  (OneHome /\ RightWorker)'
  <2>1. \A f \in Fds : Homes(f)' = Homes(f)
    BY <1>17, NoFdIsNone DEF DecideClose, Homes, Holds
  <2> QED BY <2>1, <1>17, HomesStay DEF DecideClose
<1> QED
  BY <1>0, <1>1, <1>2, <1>3, <1>4, <1>5, <1>6, <1>7, <1>8, <1>9, <1>10, <1>11,
     <1>12, <1>13, <1>14, <1>15, <1>16, <1>17 DEF Next, MainThread, Worker

-----------------------------------------------------------------------------
\* Nothing is connected at the start.
LEMMA InitInv == Init => IInv
<1> SUFFICES ASSUME Init PROVE IInv
  OBVIOUS
<1> USE DispatchAssumption
<1>1. TypeOK
  BY DEF Init, TypeOK, Idle
<1>2. Hands /\ BacklogOfPort
  BY DEF Init, Hands, BacklogOfPort, Idle
<1>3. NoLostWakeup
  BY DEF Init, NoLostWakeup, One, Idle
<1>4. \A fd \in Fds : Homes(fd) = {}
  BY NoFdIsNone DEF Init, Homes, Holds, Places, Idle, ToSet
<1>5. OneHome /\ RightWorker
  BY <1>4 DEF Init, OneHome, RightWorker, IsInjective
<1> QED
  BY <1>1, <1>2, <1>3, <1>5 DEF IInv

\* The conjuncts of IInv hold of every reachable state.
THEOREM Invariance == Spec => []IInv
<1>1. IInv /\ [Next]_vars => IInv'
  BY TypeStep, HandsStep, WakeupStep, HomeStep DEF IInv
<1> QED
  BY InitInv, <1>1, PTL DEF Spec

\* Every variable keeps its type: in particular the main thread never writes
\* more to a pipe than it holds.
THEOREM TypeCorrect == Spec => []TypeOK
<1>1. IInv => TypeOK
  BY DEF IInv
<1> QED
  BY Invariance, <1>1, PTL

\* However main thread and workers interleave, the connections in a queue and
\* the wake-ups on their way are as many.
THEOREM WakeupCorrect == Spec => []NoLostWakeup
<1>1. IInv => NoLostWakeup
  BY DEF IInv
<1> QED
  BY Invariance, <1>1, PTL

\* Every descriptor in use is in exactly one place, a free one in none.
THEOREM HomeCorrect == Spec => []OneHome
<1>1. IInv => OneHome
  BY DEF IInv
<1> QED
  BY Invariance, <1>1, PTL

\* A connection only ever meets the worker of its port.
THEOREM WorkerCorrect == Spec => []RightWorker
<1>1. IInv => RightWorker
  BY DEF IInv
<1> QED
  BY Invariance, <1>1, PTL
=============================================================================

------------------------------ MODULE Dispatch ------------------------------
(***************************************************************************)
(* How a connection reaches its worker (src/server.cpp): the main thread   *)
(* accepts it on one of the ports (conn_dispatch), pushes it on the queue  *)
(* of the port's worker under conqlock and writes one byte to the worker's *)
(* pipe; the worker, woken by the pipe, pops it and registers it with its  *)
(* event base (thread_libevent_process, conn_new), runs its handler, and   *)
(* in the end takes it off the event base and closes it (conn_close).      *)
(*                                                                         *)
(* What the handler does with the bytes of a connection is Connection.tla; *)
(* here it may at any time decide to close.  File descriptors are reused:  *)
(* the kernel gives the lowest that is free.                               *)
(***************************************************************************)
EXTENDS Integers, Sequences, SequencesExt

CONSTANTS
  Threads,   \* the ports, and the worker threads: THREAD_NUM = PORT_NUM
  Clients,
  PortOf,    \* the port a client connects to
  Fds,       \* the descriptors left to connections by the process's limit
  PipeCap    \* bytes a notify pipe holds

NoClient == "no client"
NoFd     == 0
NoThread == "no thread"

ASSUME DispatchAssumption ==
  /\ PortOf \in [Clients -> Threads] /\ NoClient \notin Clients
  /\ Fds \subseteq Nat \ {NoFd}
  /\ PipeCap \in Nat \ {0}

VARIABLES
  phase,    \* of each client: "away", "here", or "left" before the server closed
  backlog,  \* per port, the connections the kernel completed, not accepted yet
  owner,    \* per descriptor, the client at its other end
  main,     \* the main thread: where it is, and the connection in its hand
  conqlock, \* per worker, who holds the mutex of its queue
  queue,    \* connQueueList
  pipe,     \* bytes in the notify pipe
  wpc, wfd, \* per worker: where it is, and the connection in its hand
  events,   \* per worker, the descriptors registered with its event base
  up        \* the server has not called exit

clientVars == <<phase, backlog>>
workerVars == <<wpc, wfd, events>>
vars == <<phase, backlog, owner, main, conqlock, queue, pipe, wpc, wfd, events,
          up>>

Idle == [pc |-> "idle", fd |-> NoFd, thread |-> NoThread]

Init ==
  /\ phase = [c \in Clients |-> "away"]
  /\ backlog = [t \in Threads |-> <<>>]
  /\ owner = [fd \in Fds |-> NoClient]
  /\ main = Idle
  /\ conqlock = [t \in Threads |-> "none"]
  /\ queue = [t \in Threads |-> <<>>]
  /\ pipe = [t \in Threads |-> 0]
  /\ wpc = [t \in Threads |-> "loop"] /\ wfd = [t \in Threads |-> NoFd]
  /\ events = [t \in Threads |-> {}]
  /\ up = TRUE

-----------------------------------------------------------------------------
(* Clients.                                                                *)

Connect(c) ==
  /\ up /\ phase[c] = "away"
  /\ phase' = [phase EXCEPT ![c] = "here"]
  /\ backlog' = [backlog EXCEPT ![PortOf[c]] = Append(@, c)]
  /\ UNCHANGED <<owner, main, conqlock, queue, pipe, workerVars, up>>

Leave(c) ==
  /\ phase[c] = "here"
  /\ phase' = [phase EXCEPT ![c] = "left"]
  /\ UNCHANGED <<backlog, owner, main, conqlock, queue, pipe, workerVars, up>>

-----------------------------------------------------------------------------
(* The main thread: conn_dispatch.                                         *)

FreeFds == {fd \in Fds : owner[fd] = NoClient}

\* Mutant of TargetThread: the connection goes to some other worker.
AnyOtherThread(port) == CHOOSE t \in Threads : t # port

\* &threadInfoList[port_index].
TargetThread(port) == port

Accept(p) ==
  /\ up /\ main.pc = "idle" /\ backlog[p] # <<>>
  /\ \E fd \in FreeFds :
       /\ \A free \in FreeFds : fd <= free
       /\ owner' = [owner EXCEPT ![fd] = Head(backlog[p])]
       /\ main' = [pc |-> "lock", fd |-> fd, thread |-> TargetThread(p)]
  /\ backlog' = [backlog EXCEPT ![p] = Tail(@)]
  /\ UNCHANGED <<phase, conqlock, queue, pipe, workerVars, up>>

\* fcntl fails: the connection is closed at once.
AcceptUndone(p) ==
  /\ up /\ main.pc = "idle" /\ backlog[p] # <<>> /\ FreeFds # {}
  /\ phase' = [phase EXCEPT ![Head(backlog[p])] = "away"]
  /\ backlog' = [backlog EXCEPT ![p] = Tail(@)]
  /\ UNCHANGED <<owner, main, conqlock, queue, pipe, workerVars, up>>

\* accept fails with EMFILE: exit(1).
TooManyOpen(p) ==
  /\ up /\ main.pc = "idle" /\ backlog[p] # <<>> /\ FreeFds = {}
  /\ up' = FALSE
  /\ UNCHANGED <<clientVars, owner, main, conqlock, queue, pipe, workerVars>>

\* Mutant of MainNext: the worker is notified under its mutex.
MainNextNotifyFirst ==
  [lock |-> "push", push |-> "notify", notify |-> "unlock", unlock |-> "idle"]

MainNext ==
  [lock |-> "push", push |-> "unlock", unlock |-> "notify", notify |-> "idle"]

MainGoesOn ==
  main' = IF MainNext[main.pc] = "idle" THEN Idle
          ELSE [pc     |-> MainNext[main.pc],
                fd     |-> IF main.pc = "push" THEN NoFd ELSE main.fd,
                thread |-> main.thread]

MainLock ==
  /\ up /\ main.pc = "lock" /\ conqlock[main.thread] = "none"
  /\ conqlock' = [conqlock EXCEPT ![main.thread] = "main"]
  /\ MainGoesOn
  /\ UNCHANGED <<clientVars, owner, queue, pipe, workerVars, up>>

MainPush ==
  /\ up /\ main.pc = "push"
  /\ queue' = [queue EXCEPT ![main.thread] = Append(@, main.fd)]
  /\ MainGoesOn
  /\ UNCHANGED <<clientVars, owner, conqlock, pipe, workerVars, up>>

MainUnlock ==
  /\ up /\ main.pc = "unlock"
  /\ conqlock' = [conqlock EXCEPT ![main.thread] = "none"]
  /\ MainGoesOn
  /\ UNCHANGED <<clientVars, owner, queue, pipe, workerVars, up>>

\* Mutant of PipeHasRoom: one byte more than the pipe holds.
PipeHasRoomAndOne(t) == pipe[t] <= PipeCap

\* The pipe is a blocking one: a write to a full pipe waits.
PipeHasRoom(t) == pipe[t] < PipeCap

MainNotify ==
  /\ up /\ main.pc = "notify" /\ PipeHasRoom(main.thread)
  /\ pipe' = [pipe EXCEPT ![main.thread] = @ + 1]
  /\ MainGoesOn
  /\ UNCHANGED <<clientVars, owner, conqlock, queue, workerVars, up>>

-----------------------------------------------------------------------------
(* A worker thread: thread_libevent_process and conn_new.                  *)

\* Mutant of BytesRead: one read empties the pipe.
BytesReadAll(t) == pipe[t]

BytesRead(t) == 1

WorkerWakes(t) ==
  /\ up /\ wpc[t] = "loop" /\ pipe[t] > 0
  /\ pipe' = [pipe EXCEPT ![t] = @ - BytesRead(t)]
  /\ wpc' = [wpc EXCEPT ![t] = "lock"]
  /\ UNCHANGED <<clientVars, owner, main, conqlock, queue, wfd, events, up>>

WorkerLock(t) ==
  /\ up /\ wpc[t] = "lock" /\ conqlock[t] = "none"
  /\ conqlock' = [conqlock EXCEPT ![t] = "worker"]
  /\ wpc' = [wpc EXCEPT ![t] = "pop"]
  /\ UNCHANGED <<clientVars, owner, main, queue, pipe, wfd, events, up>>

\* An empty queue leaves citem NULL.
WorkerPop(t) ==
  /\ up /\ wpc[t] = "pop"
  /\ IF queue[t] = <<>>
     THEN UNCHANGED <<queue, wfd>>
     ELSE /\ queue' = [queue EXCEPT ![t] = Tail(@)]
          /\ wfd' = [wfd EXCEPT ![t] = Head(queue[t])]
  /\ wpc' = [wpc EXCEPT ![t] = "unlock"]
  /\ UNCHANGED <<clientVars, owner, main, conqlock, pipe, events, up>>

WorkerUnlock(t) ==
  /\ up /\ wpc[t] = "unlock"
  /\ conqlock' = [conqlock EXCEPT ![t] = "none"]
  /\ wpc' = [wpc EXCEPT ![t] = IF wfd[t] = NoFd THEN "loop" ELSE "conn_new"]
  /\ UNCHANGED <<clientVars, owner, main, queue, pipe, wfd, events, up>>

ConnNew(t) ==
  /\ up /\ wpc[t] = "conn_new"
  /\ events' = [events EXCEPT ![t] = @ \cup {wfd[t]}]
  /\ wfd' = [wfd EXCEPT ![t] = NoFd]
  /\ wpc' = [wpc EXCEPT ![t] = "loop"]
  /\ UNCHANGED <<clientVars, owner, main, conqlock, queue, pipe, up>>

-----------------------------------------------------------------------------
(* A worker thread: the handler decides to close, and conn_close.          *)

DecideClose(t, fd) ==
  /\ up /\ wpc[t] = "loop" /\ fd \in events[t]
  /\ wfd' = [wfd EXCEPT ![t] = fd]
  /\ wpc' = [wpc EXCEPT ![t] = "close1"]
  /\ UNCHANGED <<clientVars, owner, main, conqlock, queue, pipe, events, up>>

\* Mutant of ConnClose: the descriptor is closed first.
ConnCloseSwapped == [close1 |-> "close", close2 |-> "event_del"]

ConnClose == [close1 |-> "event_del", close2 |-> "close"]

\* Mutant of AfterClose: the descriptor is never closed.
AfterCloseLeaks == [close1 |-> "loop", close2 |-> "loop"]

AfterClose == [close1 |-> "close2", close2 |-> "loop"]

EventDel(t) ==
  /\ up /\ wpc[t] \in {"close1", "close2"}
  /\ ConnClose[wpc[t]] = "event_del"
  /\ events' = [events EXCEPT ![t] = @ \ {wfd[t]}]
  /\ wpc' = [wpc EXCEPT ![t] = AfterClose[@]]
  /\ wfd' = [wfd EXCEPT ![t] = IF AfterClose[wpc[t]] = "loop" THEN NoFd ELSE @]
  /\ UNCHANGED <<clientVars, owner, main, conqlock, queue, pipe, up>>

\* From here on the kernel may give the descriptor to another connection.
CloseFd(t) ==
  /\ up /\ wpc[t] \in {"close1", "close2"}
  /\ ConnClose[wpc[t]] = "close"
  /\ owner' = [owner EXCEPT ![wfd[t]] = NoClient]
  /\ phase' = [phase EXCEPT ![owner[wfd[t]]] = "away"]
  /\ wpc' = [wpc EXCEPT ![t] = AfterClose[@]]
  /\ wfd' = [wfd EXCEPT ![t] = IF AfterClose[wpc[t]] = "loop" THEN NoFd ELSE @]
  /\ UNCHANGED <<backlog, main, conqlock, queue, pipe, events, up>>

-----------------------------------------------------------------------------
MainThread == MainLock \/ MainPush \/ MainUnlock \/ MainNotify

Worker(t) ==
  \/ WorkerWakes(t) \/ WorkerLock(t) \/ WorkerPop(t) \/ WorkerUnlock(t)
  \/ ConnNew(t) \/ EventDel(t) \/ CloseFd(t)

Next ==
  \/ \E c \in Clients : Connect(c) \/ Leave(c)
  \/ \E p \in Threads : Accept(p) \/ AcceptUndone(p) \/ TooManyOpen(p)
  \/ MainThread
  \/ \E t \in Threads : Worker(t) \/ \E fd \in Fds : DecideClose(t, fd)

Spec == Init /\ [][Next]_vars

\* The event loop of the main thread dispatches every listener that became
\* readable before it polls again, that of a worker every connection; threads
\* run, and a mutex is not held for ever.
Fairness ==
  /\ WF_vars(MainThread)
  /\ \A p \in Threads : SF_vars(Accept(p))
  /\ \A t \in Threads : WF_vars(Worker(t))
  /\ \A t \in Threads, fd \in Fds :
       SF_vars(DecideClose(t, fd) /\ phase[owner[fd]] = "left")

FairSpec == Spec /\ Fairness

-----------------------------------------------------------------------------
(* Properties.                                                             *)

\* Every variable has its type; the pipe never holds more than it can.
TypeOK ==
  /\ phase \in [Clients -> {"away", "here", "left"}]
  /\ backlog \in [Threads -> Seq(Clients)]
  /\ owner \in [Fds -> Clients \cup {NoClient}]
  /\ main \in [pc : {"idle", "lock", "push", "unlock", "notify"},
               fd : Fds \cup {NoFd}, thread : Threads \cup {NoThread}]
  /\ conqlock \in [Threads -> {"none", "main", "worker"}]
  /\ queue \in [Threads -> Seq(Fds)]
  /\ pipe \in [Threads -> 0..PipeCap]
  /\ wpc \in [Threads -> {"loop", "lock", "pop", "unlock", "conn_new", "close1",
                          "close2"}]
  /\ wfd \in [Threads -> Fds \cup {NoFd}]
  /\ events \in [Threads -> SUBSET Fds]
  /\ up \in BOOLEAN

One(b) == IF b THEN 1 ELSE 0

\* For every connection in a worker's queue there is a byte in its pipe, one
\* the main thread is about to write, or one the worker has just read
\* (server.cpp:601-616, 741-748): none stays in the queue without a wake-up,
\* and a woken worker never finds its queue empty.
NoLostWakeup ==
  \A t \in Threads :
    Len(queue[t]) = pipe[t]
                      + One(main.pc \in {"unlock", "notify"} /\ main.thread = t)
                      + One(wpc[t] \in {"lock", "pop"})

\* Where the server may hold a descriptor: in the main thread's hand on the way
\* to a worker; in a worker's queue; in a worker's hand, before conn_new and
\* after event_del; registered with a worker's event base.
Places == {"main", "queue", "hand", "events"} \X Threads

Holds(h, fd) ==
  LET t == h[2] IN
  CASE h[1] = "main"  -> main.fd = fd /\ main.thread = t
    [] h[1] = "queue" -> fd \in ToSet(queue[t])
    [] h[1] = "hand"  -> wfd[t] = fd /\ wpc[t] \in {"unlock", "conn_new", "close2"}
    [] OTHER          -> fd \in events[t]

Homes(fd) == {h \in Places : Holds(h, fd)}

\* An accepted connection is always in exactly one place, and a descriptor the
\* kernel may hand out again in none (server.cpp:348-350, 711, 736-744, 589):
\* no two workers, and no two connections, ever share one, though descriptors
\* are reused while workers are still closing.
OneHome ==
  /\ \A fd \in Fds : IF owner[fd] = NoClient THEN Homes(fd) = {}
                    ELSE \E h \in Places : Homes(fd) = {h}
  /\ \A t \in Threads : IsInjective(queue[t])

\* A connection is only ever held by, or on its way to, the worker of the port
\* it came in on (server.cpp:738), so that its CONNECTION needs no lock.
RightWorker ==
  \A fd \in Fds : \A h \in Homes(fd) : PortOf[owner[fd]] = h[2]

Registered(c) == \E t \in Threads : \E fd \in events[t] : owner[fd] = c

InBacklog(c) == \E p \in Threads : c \in ToSet(backlog[p])

\* Every connection the kernel completed reaches an event base, if the server
\* does not drop it at once (server.cpp:741-748, 601-623): no wake-up is lost,
\* and main thread and worker never wait for each other on the mutex and the
\* full pipe.
ReachesWorker ==
  \A c \in Clients : InBacklog(c) ~> (Registered(c) \/ phase[c] = "away")

\* The server closes its end, and frees the descriptor, once the client left
\* (server.cpp:333, 350), wherever the connection is at that moment.
LeftIsClosed ==
  \A c \in Clients : (phase[c] = "left") ~> (phase[c] = "away")
=============================================================================

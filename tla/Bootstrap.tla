----------------------------- MODULE Bootstrap -----------------------------
(***************************************************************************)
(* The life of a server: ServerBootstrap::start(), wait(),                 *)
(* shutdownGracefully() and the destructor, the boss thread that accepts   *)
(* sockets and hands them to workers, and the worker threads of the        *)
(* EventLoopGroup.                                                         *)
(*                                                                         *)
(* main owns the server.  The stopper calls shutdownGracefully() once: as  *)
(* a signal handler on main's thread, during which main stands still, or   *)
(* as another thread.  A worker's task queue (EventLoop.tla) loses a task  *)
(* when its ring is full, and the rest of a batch when a task throws; only *)
(* its setup tasks are modelled, and these by the socket they carry.       *)
(***************************************************************************)
EXTENDS Naturals

CONSTANTS
  Workers,        \* the threads of the EventLoopGroup
  Socks,          \* sockets that peers open
  Nobody,         \* not a worker
  RingMayFill,    \* whether a worker's ring may be full
  TasksMayThrow,  \* whether the pipeline configurator or another task may throw
  StopperThread,  \* the stopper is a thread, not a signal handler
  EarlyStop,      \* the stopper may come before start() has returned
  MaxStarts       \* bound: calls of start()

ASSUME WorkersAssumption == Workers # {} /\ Nobody \notin Workers
ASSUME FlagsAssumption == {RingMayFill, TasksMayThrow, StopperThread, EarlyStop} \subseteq BOOLEAN
ASSUME BoundsAssumption == MaxStarts \in Nat

VARIABLES
  running,       \* ServerBootstrap::running_
  promise,       \* shutdownPromise_ has its value
  groupRunning,  \* EventLoopGroup::running_
  loops,         \* EventLoopGroup::loops_
  thread,        \* per worker: EventLoopGroup::threads_
  bossThread,    \* ServerBootstrap::bossThread_
  listening,     \* bossLoop_ has an open listening socket
  quit,          \* quit_ of the boss and of each worker
  bossAt,        \* where the boss thread is
  workerAt,      \* where each worker thread is
  sock,          \* per socket: where it is, and on which worker
  at,            \* where main and the stopper are
  dying,         \* how far ~ServerBootstrap() is
  starts,        \* history: how often start() was entered
  dead           \* std::terminate(), or a use of what was destroyed

vars == <<running, promise, groupRunning, loops, thread, bossThread, listening, quit,
          bossAt, workerAt, sock, at, dying, starts, dead>>
server == <<running, promise, groupRunning, loops, thread, bossThread, listening, quit>>
control == <<at, dying, starts, dead>>

Callers == {"main", "stopper"}
Boss == Nobody  \* the index of the boss in quit

Init ==
  /\ running = FALSE /\ promise = FALSE /\ groupRunning = FALSE
  /\ loops = {}
  /\ thread = [w \in Workers |-> "none"]
  /\ bossThread = "none" /\ listening = FALSE
  /\ quit = [x \in Workers \cup {Boss} |-> FALSE]
  /\ bossAt = "check"
  /\ workerAt = [w \in Workers |-> "check"]
  /\ sock = [s \in Socks |-> [at |-> "backlog", on |-> Nobody]]
  /\ at = [c \in Callers |-> "idle"]
  /\ dying = "no" /\ starts = 0 /\ dead = FALSE

\* While a signal handler runs, main does not.
Moves(c) == c = "stopper" \/ StopperThread \/ at["stopper"] \in {"idle", "end"}

Go(c, p) == at' = [at EXCEPT ![c] = p]

-----------------------------------------------------------------------------
(* ServerBootstrap::start().                                               *)

Start ==
  /\ at["main"] = "idle" /\ Moves("main") /\ starts < MaxStarts /\ ~running
  /\ running' = TRUE /\ starts' = starts + 1
  /\ Go("main", "group")
  /\ UNCHANGED <<promise, groupRunning, loops, thread, bossThread, listening, quit, bossAt,
                 workerAt, sock, dying, dead>>

\* EventLoopGroup::start(): nothing if it runs.
GroupStart ==
  /\ at["main"] = "group" /\ Moves("main")
  /\ groupRunning' = TRUE
  /\ Go("main", IF groupRunning THEN "boss" ELSE "workers")
  /\ UNCHANGED <<running, promise, loops, thread, bossThread, listening, quit, bossAt, workerAt,
                 sock, dying, starts, dead>>

\* A worker and its thread are made.
StartWorker(w) ==
  /\ at["main"] = "workers" /\ Moves("main") /\ w \notin loops
  /\ loops' = loops \cup {w}
  /\ thread' = [thread EXCEPT ![w] = "runs"]
  /\ quit' = [quit EXCEPT ![w] = FALSE]
  /\ workerAt' = [workerAt EXCEPT ![w] = "check"]
  /\ IF loops' = Workers THEN Go("main", "boss") ELSE UNCHANGED at
  /\ UNCHANGED <<running, promise, groupRunning, bossThread, listening, bossAt, sock, dying,
                 starts, dead>>

\* A new boss replaces the old one, which must not be in use any more.
MakeBoss ==
  /\ at["main"] = "boss" /\ Moves("main")
  /\ listening' = FALSE
  /\ quit' = [quit EXCEPT ![Boss] = FALSE]
  /\ dead' = (bossThread # "none")
  /\ Go("main", "listen")
  /\ UNCHANGED <<running, promise, groupRunning, loops, thread, bossThread, bossAt, workerAt,
                 sock, dying, starts>>

Listen ==
  /\ at["main"] = "listen" /\ Moves("main")
  /\ listening' = TRUE
  /\ Go("main", "thread")
  /\ UNCHANGED <<running, promise, groupRunning, loops, thread, bossThread, quit, bossAt,
                 workerAt, sock, dying, starts, dead>>

\* Mutant: running_ is reset.
ListenFailsReset ==
  /\ at["main"] = "listen" /\ Moves("main")
  /\ running' = FALSE
  /\ Go("main", "idle")
  /\ UNCHANGED <<promise, groupRunning, loops, thread, bossThread, listening, quit, bossAt,
                 workerAt, sock, dying, starts, dead>>

\* listen() fails and start() throws; running_ and the workers stay.
ListenFails ==
  /\ at["main"] = "listen" /\ Moves("main")
  /\ Go("main", "idle")
  /\ UNCHANGED <<server, bossAt, workerAt, sock, dying, starts, dead>>

StartBossThread ==
  /\ at["main"] = "thread" /\ Moves("main")
  /\ bossThread' = "runs" /\ bossAt' = "check"
  /\ Go("main", "idle")
  /\ UNCHANGED <<running, promise, groupRunning, loops, thread, listening, quit, workerAt, sock,
                 dying, starts, dead>>

Wait ==
  /\ at["main"] = "idle" /\ Moves("main") /\ starts > 0
  /\ Go("main", "wait")
  /\ UNCHANGED <<server, bossAt, workerAt, sock, dying, starts, dead>>

WaitReturns ==
  /\ at["main"] = "wait" /\ Moves("main") /\ promise
  /\ Go("main", "idle")
  /\ UNCHANGED <<server, bossAt, workerAt, sock, dying, starts, dead>>

-----------------------------------------------------------------------------
(* ServerBootstrap::shutdownGracefully() and the destructor.               *)

\* Where a caller goes when it leaves shutdownGracefully() or stopAll().
After(c) ==
  IF c = "stopper" THEN "end"
  ELSE CASE dying = "no" -> "idle" [] dying = "shutdown" -> "free" [] dying = "members" -> "end"

\* The destructor begins with shutdownGracefully().
Destroy ==
  /\ at["main"] = "idle" /\ Moves("main")
  /\ dying' = "shutdown"
  /\ Go("main", "shutdown")
  /\ UNCHANGED <<server, bossAt, workerAt, sock, starts, dead>>

\* A call of shutdownGracefully().
Shutdown(c) ==
  /\ at[c] = "idle" /\ Moves(c)
  /\ c = "stopper" =>
       /\ EarlyStop \/ at["main"] \notin {"group", "workers", "boss", "listen", "thread"}
       /\ dying # "members"
  /\ Go(c, "shutdown")
  /\ UNCHANGED <<server, bossAt, workerAt, sock, dying, starts, dead>>

\* Mutant: running_ is only read.
ExchangeLoads(c) ==
  /\ at[c] = "shutdown" /\ Moves(c)
  /\ Go(c, IF running THEN "promise" ELSE After(c))
  /\ UNCHANGED <<server, bossAt, workerAt, sock, dying, starts, dead>>

\* running_.exchange(false): only one caller goes on.
Exchange(c) ==
  /\ at[c] = "shutdown" /\ Moves(c)
  /\ running' = FALSE
  /\ Go(c, IF running THEN "promise" ELSE After(c))
  /\ UNCHANGED <<promise, groupRunning, loops, thread, bossThread, listening, quit, bossAt,
                 workerAt, sock, dying, starts, dead>>

\* set_value() throws if the promise has its value, which in the destructor ends
\* the process and elsewhere leaves all threads running.
SetPromise(c) ==
  /\ at[c] = "promise" /\ Moves(c)
  /\ promise' = TRUE
  /\ Go(c, IF promise THEN After(c) ELSE "stopBoss")
  /\ dead' = (promise /\ c = "main" /\ dying # "no")
  /\ UNCHANGED <<running, groupRunning, loops, thread, bossThread, listening, quit, bossAt,
                 workerAt, sock, dying, starts>>

\* Mutant: the boss is only waited for.
StopBossForgets(c) ==
  /\ at[c] = "stopBoss" /\ Moves(c)
  /\ Go(c, "joinBoss")
  /\ UNCHANGED <<server, bossAt, workerAt, sock, dying, starts, dead>>

StopBoss(c) ==
  /\ at[c] = "stopBoss" /\ Moves(c)
  /\ quit' = [quit EXCEPT ![Boss] = TRUE]
  /\ Go(c, "joinBoss")
  /\ UNCHANGED <<running, promise, groupRunning, loops, thread, bossThread, listening, bossAt,
                 workerAt, sock, dying, starts, dead>>

\* Mutant: the workers are stopped without waiting for the boss.
JoinBossDetached(c) ==
  /\ at[c] = "joinBoss" /\ Moves(c)
  /\ Go(c, "stopAll")
  /\ UNCHANGED <<server, bossAt, workerAt, sock, dying, starts, dead>>

JoinBoss(c) ==
  /\ at[c] = "joinBoss" /\ Moves(c) /\ bossThread # "runs"
  /\ bossThread' = "none"
  /\ Go(c, "stopAll")
  /\ UNCHANGED <<running, promise, groupRunning, loops, thread, listening, quit, bossAt,
                 workerAt, sock, dying, starts, dead>>

\* EventLoopGroup::stopAll(): stop() of every worker.
StopAll(c) ==
  /\ at[c] = "stopAll" /\ Moves(c)
  /\ groupRunning' = FALSE
  /\ quit' = [x \in DOMAIN quit |-> quit[x] \/ (groupRunning /\ x \in loops)]
  /\ Go(c, IF groupRunning THEN "joinAll" ELSE After(c))
  /\ UNCHANGED <<running, promise, loops, thread, bossThread, listening, bossAt, workerAt, sock,
                 dying, starts, dead>>

\* The workers are joined and destroyed.  Their connections close their
\* sockets; a setup task that was not run only knows a number.
JoinAll(c) ==
  /\ at[c] = "joinAll" /\ Moves(c)
  /\ \A w \in loops : thread[w] # "runs"
  /\ thread' = [w \in Workers |-> IF w \in loops THEN "none" ELSE thread[w]]
  /\ loops' = {}
  /\ sock' = [s \in Socks |->
       IF sock[s].on \in loops
         THEN [at |-> IF sock[s].at = "table" THEN "closed" ELSE "lost", on |-> Nobody]
         ELSE sock[s]]
  /\ Go(c, After(c))
  /\ UNCHANGED <<running, promise, groupRunning, bossThread, listening, quit, bossAt, workerAt,
                 dying, starts, dead>>

\* The members are destroyed: bossThread_ (std::terminate() if it is joinable),
\* bossLoop_, and workerGroup_, which begins with stopAll().
Free ==
  /\ at["main"] = "free" /\ Moves("main")
  /\ dying' = "members"
  /\ listening' = FALSE
  /\ dead' = (bossThread # "none" \/ at["stopper"] \notin {"idle", "end"}
              \/ (~groupRunning /\ loops # {}))
  /\ Go("main", "stopAll")
  /\ UNCHANGED <<running, promise, groupRunning, loops, thread, bossThread, quit, bossAt,
                 workerAt, sock, starts>>

-----------------------------------------------------------------------------
(* The boss thread.                                                        *)

BossCheck ==
  /\ bossThread = "runs" /\ bossAt = "check"
  /\ bossThread' = IF quit[Boss] THEN "done" ELSE "runs"
  /\ bossAt' = IF quit[Boss] THEN "check" ELSE "accept"
  /\ UNCHANGED <<running, promise, groupRunning, loops, thread, listening, quit, workerAt, sock,
                 control>>

\* handleAccept() takes sockets until there is none or accept() fails.
BossAccept(s) ==
  /\ bossThread = "runs" /\ bossAt = "accept" /\ sock[s].at = "backlog"
  /\ sock' = [sock EXCEPT ![s].at = "boss"]
  /\ bossAt' = "post"
  /\ UNCHANGED <<server, workerAt, control>>

BossIterate ==
  /\ bossThread = "runs" /\ bossAt = "accept"
  /\ bossAt' = "check"
  /\ UNCHANGED <<server, workerAt, sock, control>>

\* leastLoaded() reads connections_.size() of two workers while they change it:
\* any worker may win.
LeastLoaded == loops

\* Without workers the socket is closed.
BossPost(s) ==
  /\ bossThread = "runs" /\ bossAt = "post" /\ sock[s].at = "boss"
  /\ IF LeastLoaded = {}
       THEN sock' = [sock EXCEPT ![s].at = "closed"]
       ELSE \E w \in LeastLoaded : sock' = [sock EXCEPT ![s] = [at |-> "queued", on |-> w]]
  /\ bossAt' = "accept"
  /\ UNCHANGED <<server, workerAt, control>>

\* push() finds the worker's ring full.  The setup task was moved from by then:
\* what is queued is an empty functor, and nobody knows the socket any more.
\* (Its call ends the worker's next batch with an exception, but it stands
\* behind all setup tasks.)
BossPostFails(s) ==
  /\ RingMayFill /\ LeastLoaded # {}
  /\ bossThread = "runs" /\ bossAt = "post" /\ sock[s].at = "boss"
  /\ sock' = [sock EXCEPT ![s].at = "unposted"]
  /\ bossAt' = "accept"
  /\ UNCHANGED <<server, workerAt, control>>

-----------------------------------------------------------------------------
(* A worker thread.                                                        *)

On(w, p) == {s \in Socks : sock[s] = [at |-> p, on |-> w]}

WorkerCheck(w) ==
  /\ thread[w] = "runs" /\ workerAt[w] = "check"
  /\ thread' = [thread EXCEPT ![w] = IF quit[w] THEN "done" ELSE "runs"]
  /\ workerAt' = [workerAt EXCEPT ![w] = IF quit[w] THEN "check" ELSE "poll"]
  /\ UNCHANGED <<running, promise, groupRunning, loops, bossThread, listening, quit, bossAt,
                 sock, control>>

\* A connection ends while events or timers are handled.
CloseConn(w, s) ==
  /\ thread[w] = "runs" /\ workerAt[w] = "poll" /\ s \in On(w, "table")
  /\ sock' = [sock EXCEPT ![s] = [at |-> "closed", on |-> Nobody]]
  /\ UNCHANGED <<server, bossAt, workerAt, control>>

\* An exception leaves a handler or a timer's callback: no task is taken in this
\* iteration.
IterationThrows(w) ==
  /\ thread[w] = "runs" /\ workerAt[w] = "poll"
  /\ workerAt' = [workerAt EXCEPT ![w] = "check"]
  /\ UNCHANGED <<server, bossAt, sock, control>>

\* Mutant: no task is taken.
TakeNoTasks(w) ==
  /\ thread[w] = "runs" /\ workerAt[w] = "poll"
  /\ workerAt' = [workerAt EXCEPT ![w] = "tasks"]
  /\ UNCHANGED <<server, bossAt, sock, control>>

\* doPendingFunctors() takes what is queued.
TakeTasks(w) ==
  /\ thread[w] = "runs" /\ workerAt[w] = "poll"
  /\ sock' = [s \in Socks |-> IF s \in On(w, "queued") THEN [sock[s] EXCEPT !.at = "batch"] ELSE sock[s]]
  /\ workerAt' = [workerAt EXCEPT ![w] = "tasks"]
  /\ UNCHANGED <<server, bossAt, control>>

\* setupConnection().
SetupConnection(w, s) ==
  /\ thread[w] = "runs" /\ workerAt[w] = "tasks" /\ s \in On(w, "batch")
  /\ sock' = [sock EXCEPT ![s].at = "table"]
  /\ UNCHANGED <<server, bossAt, workerAt, control>>

\* The pipeline configurator throws before the socket has an owner, or another
\* task of the batch throws; the rest of the batch goes with it.
BatchThrows(w) ==
  /\ TasksMayThrow
  /\ thread[w] = "runs" /\ workerAt[w] = "tasks" /\ On(w, "batch") # {}
  /\ sock' = [s \in Socks |->
       IF s \in On(w, "batch") THEN [at |-> "dropped", on |-> Nobody] ELSE sock[s]]
  /\ workerAt' = [workerAt EXCEPT ![w] = "check"]
  /\ UNCHANGED <<server, bossAt, control>>

TasksDone(w) ==
  /\ thread[w] = "runs" /\ workerAt[w] = "tasks" /\ On(w, "batch") = {}
  /\ workerAt' = [workerAt EXCEPT ![w] = "check"]
  /\ UNCHANGED <<server, bossAt, sock, control>>

-----------------------------------------------------------------------------
StopStep(c) ==
  \/ Exchange(c) \/ SetPromise(c) \/ StopBoss(c) \/ JoinBoss(c) \/ StopAll(c) \/ JoinAll(c)

MainStep ==
  \/ GroupStart \/ MakeBoss \/ Listen \/ ListenFails \/ StartBossThread
  \/ \E w \in Workers : StartWorker(w)
  \/ WaitReturns \/ Free

BossStep ==
  \/ BossCheck \/ BossIterate
  \/ \E s \in Socks : BossAccept(s) \/ BossPost(s) \/ BossPostFails(s)

TaskStep(w) ==
  \/ WorkerCheck(w) \/ IterationThrows(w) \/ TakeTasks(w) \/ BatchThrows(w) \/ TasksDone(w)
  \/ \E s \in Socks : SetupConnection(w, s)

Next ==
  /\ ~dead
  /\ \/ Start \/ Wait \/ Destroy \/ MainStep
     \/ \E c \in Callers : Shutdown(c) \/ StopStep(c)
     \/ BossStep
     \/ \E w \in Workers : TaskStep(w) \/ \E s \in Socks : CloseConn(w, s)

Spec == Init /\ [][Next]_vars

\* Threads go on: calls that were begun, the boss and the workers, whose polls
\* have a time-out.  Nobody has to start, stop or destroy the server.
Fairness ==
  /\ WF_vars(~dead /\ MainStep)
  /\ \A c \in Callers : WF_vars(~dead /\ StopStep(c))
  /\ WF_vars(~dead /\ BossStep)
  /\ \A w \in Workers : WF_vars(~dead /\ TaskStep(w))

FairSpec == Spec /\ Fairness

-----------------------------------------------------------------------------
(* Properties.                                                             *)

TypeOK ==
  /\ running \in BOOLEAN /\ promise \in BOOLEAN /\ groupRunning \in BOOLEAN
  /\ listening \in BOOLEAN /\ dead \in BOOLEAN
  /\ loops \subseteq Workers
  /\ thread \in [Workers -> {"none", "runs", "done"}]
  /\ bossThread \in {"none", "runs", "done"}
  /\ quit \in [Workers \cup {Boss} -> BOOLEAN]
  /\ bossAt \in {"check", "accept", "post"}
  /\ workerAt \in [Workers -> {"check", "poll", "tasks"}]
  /\ sock \in [Socks -> [at : {"backlog", "boss", "queued", "batch", "table", "closed", "unposted",
                               "dropped", "lost"},
                         on : Workers \cup {Nobody}]]
  /\ at \in [Callers -> {"idle", "group", "workers", "boss", "listen", "thread", "wait", "shutdown",
                         "promise", "stopBoss", "joinBoss", "stopAll", "joinAll", "free", "end"}]
  /\ dying \in {"no", "shutdown", "members"} /\ starts \in Nat

\* The uses that start() and shutdownGracefully() are not made for.
Misused == starts > 1 \/ StopperThread \/ EarlyStop

\* With one start, a shutdown after it and a handler on main's own thread, the
\* server never ends in std::terminate() or in a use of what was destroyed,
\* also when listen() failed, and when the destructor, shutdownGracefully() and
\* the handler meet at any point.
NeverTerminates == dead => Misused

\* The boss thread runs only while all workers exist and go on: a socket it
\* accepts is posted to a loop that is not yet being stopped.
WorkersOutliveBoss ==
  ~Misused /\ bossThread = "runs" =>
    groupRunning /\ loops = Workers /\ \A w \in Workers : thread[w] = "runs" /\ ~quit[w]

\* When shutdownGracefully() has returned to whoever was to do the work, no
\* thread is left, and no socket is with a worker or with the boss.
ShutdownIsComplete ==
  ~Misused /\ starts = 1 /\ ~running
    /\ at["main"] \in {"idle", "wait", "end"} /\ at["stopper"] \in {"idle", "end"} =>
    /\ bossThread = "none" /\ loops = {}
    /\ \A w \in Workers : thread[w] = "none"
    /\ \A s \in Socks : sock[s].at \in {"backlog", "closed", "unposted", "dropped", "lost"}

\* A call of shutdownGracefully() ends, and so does the destructor.
ShutdownEnds ==
  \A c \in Callers : at[c] = "shutdown" ~> (at[c] \in {"idle", "end"} \/ dead)

\* If exceptions keep coming out of a worker's handlers and timers, there are
\* iterations between them that reach its tasks.  The code does not see to that.
IterationsComplete ==
  \A w \in Workers : []<><<IterationThrows(w)>>_vars => []<>(workerAt[w] = "tasks")

\* A socket that was accepted gets its connection, or is closed.  It is lost with
\* its task only in three ways: the worker's ring was full, a task of its batch
\* threw, or the server went down.
AcceptedIsServed ==
  IterationsComplete =>
    \A s \in Socks :
      sock[s].at = "boss" ~>
        \/ sock[s].at \in {"table", "closed", "unposted", "dropped"}
        \/ sock[s].at = "lost" /\ ~running
        \/ dead
=============================================================================
